------------------------------- MODULE LockDiff -------------------------------
(***************************************************************************)
(* Lock records and their comparison: Diff of src/internal/lockfile/diff.go *)
(* with ResolutionDiff and RefreshResolution of refresh.go.                *)
(*                                                                         *)
(* A lock holds what the analysis determines (its resolution) and what a   *)
(* build determines (its identity: the digest of the backend executable    *)
(* and the generated artifacts).  Its targets are a function from symbols: *)
(* checkTargets refuses a symbol that occurs twice, canonical sorts.       *)
(***************************************************************************)
EXTENDS Naturals

CONSTANT None   \* no build identity

\* The aspects of a target the comparison looks at, and the classification of
\* a change.  Its line and column are in no aspect.
Classification ==
  [signatureDigest |-> "SIGNATURE", sourceRule |-> "POLICY", spanName |-> "SPAN_NAME",
   context |-> "CONTEXT", errors |-> "ERROR_STRATEGY", attributes |-> "ATTRIBUTE",
   file |-> "SOURCE"]

Aspects == DOMAIN Classification

LockFields == {"policyDigest", "backend", "digest", "goVersion", "graph", "artifacts", "targets"}

\* No symbol: the entry is about the lock as a whole.
Whole == [whole |-> TRUE]

Change(class, symbol) == [classification |-> class, symbol |-> symbol]

MetadataChanges(previous, current) ==
  {Change(class, Whole) : class \in
     {c \in {"POLICY", "BACKEND", "BUILD", "ARTIFACT"} :
        \/ c = "POLICY" /\ previous.policyDigest # current.policyDigest
        \/ c = "BACKEND" /\ <<previous.backend, previous.digest>> # <<current.backend, current.digest>>
        \/ c = "BUILD" /\ <<previous.goVersion, previous.graph>> # <<current.goVersion, current.graph>>
        \/ c = "ARTIFACT" /\ previous.artifacts # current.artifacts}}

TargetChanges(symbol, before, target) ==
  {Change(Classification[x], symbol) : x \in {y \in Aspects : before[y] # target[y]}}

Diff(previous, current) ==
  LET old == DOMAIN previous.targets
      new == DOMAIN current.targets
  IN  MetadataChanges(previous, current)
      \cup {Change("ADD", s) : s \in new \ old}
      \cup {Change("REMOVE", s) : s \in old \ new}
      \cup UNION {TargetChanges(s, previous.targets[s], current.targets[s]) : s \in old \cap new}

WithIdentity(lock, digest, artifacts) ==
  [lock EXCEPT !.digest = digest, !.artifacts = artifacts]

Resolution(lock) == WithIdentity(lock, None, None)

ResolutionDiff(previous, current) == Diff(Resolution(previous), Resolution(current))

HasIdentity(lock) == lock.digest # None \/ lock.artifacts # None

\* Mutants: drift does not matter; the identity is dropped, or kept in part.
RefreshAlways(previous, current)   == HasIdentity(current)
RefreshedPlain(previous, current)  == current
RefreshedDigest(previous, current) == WithIdentity(current, previous.digest, None)

\* RefreshResolution returns an error, or the lock Refreshed.
RefreshRefused(previous, current) ==
  \/ HasIdentity(current)
  \/ HasIdentity(previous) /\ ResolutionDiff(previous, current) # {}

Refreshed(previous, current) ==
  IF HasIdentity(previous)
  THEN WithIdentity(current, previous.digest, previous.artifacts)
  ELSE current
=============================================================================
