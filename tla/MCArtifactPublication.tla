------------------------ MODULE MCArtifactPublication ------------------------
(* Small instances of ArtifactPublication for TLC. *)
EXTENDS ArtifactPublication, TLC

CONSTANTS p1, p2, p3, b1, b2

\* p1 and p2 replace each other's output; p3, which wants what p1 wants, runs
\* without --clean.  Two of the three run together.
MCWant == [p \in Publishers |-> IF p = p2 THEN b2 ELSE b1]

=============================================================================
