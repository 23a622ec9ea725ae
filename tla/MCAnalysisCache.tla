---------------------------- MODULE MCAnalysisCache ----------------------------
(* Small instances of AnalysisCache for TLC. *)
EXTENDS AnalysisCache, TLC

CONSTANTS a1, a2, a3, o1, o2, f1, f2

MCOpt == [a \in Analyzers |-> IF a = a3 THEN o2 ELSE o1]

\* An entry grows with the version of f1.
MCSize(k) == 1 + k.files[f1]

\* The names are digests: their order has nothing to do with the contents.
MCName(k) ==
  (IF k.opt = o1 THEN 1 ELSE 0) + 2 * (MaxEdits - k.files[f1])
  + 2 * (MaxEdits + 1) * MapThenSumSet(LAMBDA f : k.files[f], SourceFiles \ {f1})
=============================================================================
