---------------------------- MODULE ArtifactOutput ----------------------------
(***************************************************************************)
(* What publication promises, whatever the interleaving, the failures and  *)
(* the killed processes: the output is absent or whole; a publisher puts   *)
(* its bundle there at most once, and only where there is nothing; with    *)
(* --clean it may first take away what is there, which it then gives back, *)
(* still holds, or has replaced; and it says which.                        *)
(***************************************************************************)
CONSTANTS Publishers, Clean, Bundles, Want, User, None

VARIABLES
  out,      \* what is at the destination: None, a bundle, or the user's files
  holds,    \* publisher -> what it took away and has neither given back
            \* nor replaced
  put,      \* the publishers that put their bundle at the destination
  answer    \* publisher -> what it reported

vars == <<out, holds, put, answer>>

Outputs == Bundles \cup {User}

Init ==
  /\ out \in Outputs \cup {None}
  /\ holds = [p \in Publishers |-> None]
  /\ put = {}
  /\ answer = [p \in Publishers |-> "pending"]

Take(p) ==
  /\ p \in Clean /\ p \notin put
  /\ out # None /\ holds[p] = None
  /\ holds' = [holds EXCEPT ![p] = out]
  /\ out' = None
  /\ UNCHANGED <<put, answer>>

GiveBack(p) ==
  /\ p \notin put
  /\ out = None /\ holds[p] # None
  /\ out' = holds[p]
  /\ holds' = [holds EXCEPT ![p] = None]
  /\ UNCHANGED <<put, answer>>

Put(p) ==
  /\ p \notin put
  /\ out = None
  /\ out' = Want[p]
  /\ put' = put \cup {p}
  /\ holds' = [holds EXCEPT ![p] = None]
  /\ UNCHANGED answer

Answer(p) ==
  /\ answer[p] = "pending"
  /\ \E a \in {"published", "leftover", "failed", "reused", "retained", "littered"} :
       /\ a \in {"published", "leftover"} <=> p \in put
       /\ a # "retained" => holds[p] = None
       /\ answer' = [answer EXCEPT ![p] = a]
  /\ UNCHANGED <<out, holds, put>>

UserActs ==
  /\ out' \in {None, User}
  /\ UNCHANGED <<holds, put, answer>>

Next ==
  \/ \E p \in Publishers : Take(p) \/ GiveBack(p) \/ Put(p) \/ Answer(p)
  \/ UserActs

Spec == Init /\ [][Next]_vars
=============================================================================
