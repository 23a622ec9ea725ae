--------------------------- MODULE MCStarterPolicy ---------------------------
(* A small instance of StarterPolicy for TLC. *)
EXTENDS StarterPolicy, TLC

CONSTANTS p1, p2

Flag(f, i, d) == [force |-> f, interactive |-> i, dryRun |-> d]

\* p1 reviews its candidates, or previews a replacement; p2 does not, with or
\* without --force.
MCOptions == (p1 :> {Flag(FALSE, TRUE, FALSE), Flag(TRUE, TRUE, TRUE)})
          @@ (p2 :> {Flag(FALSE, FALSE, FALSE), Flag(TRUE, FALSE, FALSE)})

\* One suggestion too many, and one whose score is too low.
MCRankings == {
  << [symbol |-> "a", score |-> 9], [symbol |-> "b", score |-> 8], [symbol |-> "c", score |-> 3] >>,
  << [symbol |-> "a", score |-> 3], [symbol |-> "b", score |-> 2] >> }

=============================================================================
