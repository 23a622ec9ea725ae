---------------------------- MODULE MCResolutionLock ----------------------------
(* Small instances of ResolutionLock for TLC. *)
EXTENDS ResolutionLock, TLC

CONSTANTS p1, p2, s1, s2

Target(span, path, line) ==
  [signatureDigest |-> "g", sourceRule |-> "r", spanName |-> span, context |-> "c",
   errors |-> "e", attributes |-> "a", file |-> path, line |-> line]

Lock(policy, graph, targets) ==
  [policyDigest |-> policy, backend |-> "otelc", digest |-> None, goVersion |-> "go",
   graph |-> graph, artifacts |-> None, targets |-> targets]

\* A project, the same with a target moved to another line, and one with a
\* span renamed and a target added, which changes its module graph.
MCResolutions ==
  {Lock("p", "m", s1 :> Target("a", "f", 1)),
   Lock("p", "m", s1 :> Target("a", "f", 2)),
   Lock("p", "n", s1 :> Target("b", "f", 1) @@ s2 :> Target("a", "f", 5))}

MCEmpty == [policyDigest |-> "", backend |-> "", digest |-> None, goVersion |-> "",
            graph |-> "", artifacts |-> None, targets |-> <<>>]

MCRefreshers == {[p \in Processes |-> "lock"]}

\* A refresh next to any other command.
MCChecks == {[p \in Processes |-> IF p = p1 THEN "lock" ELSE c] : c \in Commands \ {"lock"}}
=============================================================================
