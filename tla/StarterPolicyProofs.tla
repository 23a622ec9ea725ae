------------------------- MODULE StarterPolicyProofs -------------------------
(***************************************************************************)
(* Proofs about StarterPolicy, for any number of processes, lines and      *)
(* events: the variables keep their types, a policy that an init has left  *)
(* is whole or its process knows that it is not, what an init writes is    *)
(* what the lines typed for it accept, and without --force no file of      *)
(* anybody else is replaced.                                               *)
(***************************************************************************)
EXTENDS StarterPolicy, TLAPS, FiniteSetTheorems, SequenceTheorems

\* A function with one value set keeps its type.
LEMMA SetValue ==
  ASSUME NEW S, NEW T, NEW f \in [S -> T], NEW x \in S, NEW v \in T, NEW g,
         g = f \/ g = [f EXCEPT ![x] = v]
  PROVE  g \in [S -> T]
OBVIOUS

\* The candidates are suggestions, and no more than the maximum.
LEMMA CandidatesType ==
  ASSUME NEW r \in Rankings
  PROVE  Candidates(r) \in Seq(Suggestions)
<1> DEFINE chosen == {i \in DOMAIN r : r[i].score >= MinScore /\ i <= MaxRules}
<1> USE StarterAssumption DEF StarterAssumption
<1>1. r \in Seq(Suggestions) /\ Len(r) \in Nat /\ DOMAIN r = 1..Len(r)
  BY LenProperties
<1>2. chosen \subseteq 1..Len(r)
  BY <1>1
<1>3. Cardinality(chosen) \in Nat /\ Cardinality(chosen) <= Len(r)
  <2>1. IsFiniteSet(1..Len(r)) /\ Cardinality(1..Len(r)) = Len(r)
    BY <1>1, FS_Interval
  <2> HIDE DEF chosen
  <2>2. IsFiniteSet(chosen) /\ Cardinality(chosen) <= Cardinality(1..Len(r))
    BY <1>2, <2>1, FS_Subset
  <2>3. Cardinality(chosen) \in Nat
    BY <2>2, FS_CardinalityType
  <2> QED
    BY <2>1, <2>2, <2>3
<1> HIDE DEF chosen
<1>4. \A i \in 1..Cardinality(chosen) : r[i] \in Suggestions
  BY <1>1, <1>3, ElementOfSeq, LenProperties
<1>5. SubSeq(r, 1, Cardinality(chosen)) \in Seq(Suggestions)
  BY <1>3, <1>4, SubSeqProperties
<1> QED
  BY <1>5 DEF Candidates, chosen

-----------------------------------------------------------------------------
(* Types.                                                                  *)

\* Candidates are decided one by one, and only those there are.
ReviewInv ==
  \A p \in Processes :
    /\ at[p] <= Len(ranked[p])
    /\ step[p] = "wait" => at[p] < Len(ranked[p])
    /\ step[p] \in {"inspect", "analyse"} => at[p] = 0

TypeInv == TypeOK /\ ReviewInv

LEMMA InitTypeInv == Init => TypeInv
BY StarterAssumption, EmptySeq
DEF Init, TypeInv, TypeOK, ReviewInv, StarterAssumption, Steps, Answers, Flags

\* The process p goes on to a step after the analysis and its questions.
Moves(p) ==
  \E s \in Steps \ {"inspect", "analyse", "wait"} :
    /\ step' = [step EXCEPT ![p] = s]
    /\ \/ answer' = answer
       \/ \E a \in Answers : answer' = [answer EXCEPT ![p] = a]

\* Such a step keeps the invariant if the other variables keep their types.
LEMMA MovesKeepsTypes ==
  ASSUME TypeInv, NEW p \in Processes, Moves(p), UNCHANGED <<flags, ranked, at>>,
         /\ selected' = selected
         /\ reading' \subseteq Processes /\ response' \in [Processes -> Seq(Lines)]
         /\ dest' \in Processes \cup {User, Special, None}
         /\ whole' \in [Processes -> BOOLEAN] /\ temporary' \subseteq Processes
         /\ typed' = typed /\ cancelled' = cancelled
         /\ events' \in 0..MaxEvents /\ unremoved' \subseteq Processes /\ unheard' = unheard
  PROVE  TypeInv'
<1> USE DEF TypeInv, TypeOK
<1>1. PICK s \in Steps \ {"inspect", "analyse", "wait"} :
        /\ step' = [step EXCEPT ![p] = s]
        /\ \/ answer' = answer
           \/ \E a \in Answers : answer' = [answer EXCEPT ![p] = a]
  BY DEF Moves
<1>2. step' \in [Processes -> Steps]
  BY <1>1
<1>3. answer' \in [Processes -> Answers]
  BY <1>1
<1>4. ReviewInv'
  BY <1>1 DEF ReviewInv
<1> QED
  BY <1>2, <1>3, <1>4

\* What ends a command, or lets it go on, is such a step.
LEMMA Moving ==
  ASSUME NEW p \in Processes, NEW s \in Steps \ {"inspect", "analyse", "wait"},
         \/ Continue(p, s)
         \/ \E a \in Answers : Report(p, a, s)
  PROVE  Moves(p)
BY DEF Moves, Continue, Report, Goto

LEMMA EventType ==
  ASSUME TypeOK, events' = events \/ Happens
  PROVE  events' \in 0..MaxEvents
BY StarterAssumption DEF TypeOK, Happens, StarterAssumption

LEMMA NextTypeInv == TypeInv /\ [Next]_vars => TypeInv'
<1> SUFFICES ASSUME TypeInv, [Next]_vars PROVE TypeInv'
  OBVIOUS
<1> USE StarterAssumption
<1> USE DEF TypeInv, TypeOK, ReviewInv, review, disk, world, Steps, Answers
<1>1. ASSUME NEW p \in Processes, Inspect(p) PROVE TypeInv'
  <2>1. events' \in 0..MaxEvents
    BY <1>1, EventType DEF Inspect, Refused, Fault
  <2>2. CASE Continue(p, "analyse")
    BY <1>1, <2>1, <2>2 DEF Inspect, Continue, Goto
  <2>3. CASE Report(p, "refused", "end")
    BY <1>1, <2>1, <2>3, Moving, MovesKeepsTypes DEF Inspect
  <2> QED
    BY <1>1, <2>2, <2>3 DEF Inspect
<1>2. ASSUME NEW p \in Processes, Analyse(p) PROVE TypeInv'
  <2>1. CASE Report(p, "unanalysed", "end") /\ UNCHANGED <<ranked, selected>>
    BY <1>2, <2>1, Moving, MovesKeepsTypes DEF Analyse
  <2>2. CASE ~(Report(p, "unanalysed", "end") /\ UNCHANGED <<ranked, selected>>)
    <3>1. PICK r \in Rankings :
            /\ ranked' = [ranked EXCEPT ![p] = Candidates(r)]
            /\ \/ selected' = selected /\ Continue(p, "ask")
               \/ selected' = [selected EXCEPT ![p] = Candidates(r)] /\ Continue(p, "finish")
      BY <1>2, <2>2 DEF Analyse
    <3>2. Candidates(r) \in Seq(Suggestions) /\ Len(Candidates(r)) \in Nat
      BY CandidatesType, LenProperties
    <3>3. ranked' \in [Processes -> Seq(Suggestions)]
      BY <3>1, <3>2
    <3>7. selected' \in [Processes -> Seq(Suggestions)]
      <4>1. selected' = selected \/ selected' = [selected EXCEPT ![p] = Candidates(r)]
        BY <3>1
      <4>2. selected \in [Processes -> Seq(Suggestions)]
        OBVIOUS
      <4> HIDE DEF TypeInv
      <4> QED
        BY <3>2, <4>1, <4>2, SetValue
    <3>4. answer' = answer /\ step' \in [Processes -> Steps]
      BY <3>1 DEF Continue, Goto
    <3>5. step[p] = "analyse" /\ at' = at
      BY <1>2 DEF Analyse
    <3>6. ReviewInv'
      BY <3>1, <3>2, <3>5 DEF Continue, Goto
    <3> QED
      BY <1>2, <3>3, <3>7, <3>4, <3>6 DEF Analyse
  <2> QED
    BY <2>1, <2>2
<1>3. ASSUME NEW p \in Processes, Ask(p) PROVE TypeInv'
  <2>1. events' \in 0..MaxEvents
    BY <1>3, EventType DEF Ask, Fault
  <2>4. reading' \subseteq Processes
    BY <1>3 DEF Ask
  <2>5. response' \in [Processes -> Seq(Lines)]
    <3>1. <<>> \in Seq(Lines)
      BY EmptySeq
    <3>2. response' = response \/ response' = [response EXCEPT ![p] = <<>>]
      BY <1>3 DEF Ask
    <3>3. response \in [Processes -> Seq(Lines)]
      OBVIOUS
    <3> HIDE DEF TypeInv
    <3> QED
      BY <3>1, <3>2, <3>3, SetValue
  <2>2. CASE Continue(p, "wait")
    BY <1>3, <2>1, <2>4, <2>5, <2>2 DEF Ask, Continue, Goto
  <2>3. CASE Report(p, "cancelled", "end") \/ Report(p, "failed", "end")
    BY <1>3, <2>1, <2>4, <2>5, <2>3, Moving, MovesKeepsTypes DEF Ask
  <2> QED
    BY <1>3, <2>2, <2>3 DEF Ask
<1>4. ASSUME NEW p \in Processes, Reviewed(p) PROVE TypeInv'
  <2>1. Moves(p) /\ (events' = events \/ Happens)
    BY <1>4, Moving DEF Reviewed, Refused, Fault
  <2>2. events' \in 0..MaxEvents
    BY <2>1, EventType
  <2> QED
    BY <1>4, <2>1, <2>2, MovesKeepsTypes DEF Reviewed
<1>5. ASSUME NEW p \in Processes, HearCancel(p) PROVE TypeInv'
  <2>1. Moves(p) /\ (events' = events \/ Happens)
    BY <1>5, Moving DEF HearCancel, Refused, Fault
  <2>2. events' \in 0..MaxEvents
    BY <2>1, EventType
  <2> QED
    BY <1>5, <2>1, <2>2, MovesKeepsTypes DEF HearCancel
<1>6. ASSUME NEW p \in Processes, HearAnswer(p) PROVE TypeInv'
  <2>1. response' \in [Processes -> Seq(Lines)]
    BY <1>6, EmptySeq DEF HearAnswer
  <2>2. CASE UNCHANGED <<at, selected>>
    <3>1. Moves(p)
      <4>1. CASE Continue(p, "ask")
        BY <4>1, Moving
      <4>2. CASE Report(p, "cancelled", "end") \/ Report(p, "ended", "end") \/ Report(p, "failed", "end")
        BY <4>2, Moving
      <4> QED
        BY <1>6, <4>1, <4>2 DEF HearAnswer, Decide
    <3> QED
      BY <1>6, <2>1, <2>2, <3>1, MovesKeepsTypes DEF HearAnswer
  <2>3. ASSUME NEW accepted \in BOOLEAN, Decide(p, accepted) PROVE TypeInv'
    <3>1. at[p] \in Nat /\ ranked[p] \in Seq(Suggestions) /\ at[p] + 1 \in 1..Len(ranked[p])
      BY <1>6, LenProperties DEF HearAnswer
    <3>2. ranked[p][at[p] + 1] \in Suggestions
      BY <3>1, ElementOfSeq
    <3>3. Append(selected[p], ranked[p][at[p] + 1]) \in Seq(Suggestions)
      BY <3>2, AppendProperties
    <3>4. selected' \in [Processes -> Seq(Suggestions)]
      BY <2>3, <3>3 DEF Decide
    <3>5. at' \in [Processes -> Nat] /\ step' \in [Processes -> Steps] /\ answer' = answer
      BY <2>3 DEF Decide, Continue, Goto
    <3>6. ReviewInv'
      BY <1>6, <2>3, <3>1 DEF HearAnswer, Decide, Continue, Goto
    <3> QED
      BY <1>6, <2>1, <3>4, <3>5, <3>6 DEF HearAnswer
  <2> QED
    BY <1>6, <2>2, <2>3 DEF HearAnswer
<1>7. ASSUME NEW p \in Processes, Finish(p) PROVE TypeInv'
  <2>1. Moves(p) /\ (events' = events \/ Happens)
    BY <1>7, Moving DEF Finish, Refused, Fault
  <2>2. events' \in 0..MaxEvents
    BY <2>1, EventType
  <2> QED
    BY <1>7, <2>1, <2>2, MovesKeepsTypes DEF Finish
<1>8. ASSUME NEW p \in Processes, CreateNew(p) PROVE TypeInv'
  <2>1. Moves(p) /\ (events' = events \/ Happens)
    BY <1>8, Moving DEF CreateNew, Refused, Fault
  <2>2. events' \in 0..MaxEvents
    BY <2>1, EventType
  <2> QED
    BY <1>8, <2>1, <2>2, MovesKeepsTypes DEF CreateNew
<1>9. ASSUME NEW p \in Processes, CreateTemporary(p) PROVE TypeInv'
  <2>1. Moves(p) /\ (events' = events \/ Happens)
    BY <1>9, Moving DEF CreateTemporary, Refused, Fault
  <2>2. events' \in 0..MaxEvents
    BY <2>1, EventType
  <2> QED
    BY <1>9, <2>1, <2>2, MovesKeepsTypes DEF CreateTemporary
<1>10. ASSUME NEW p \in Processes, Write(p) PROVE TypeInv'
  <2>1. /\ Moves(p) /\ (events' = events \/ Happens)
        /\ whole' \in [Processes -> BOOLEAN]
    BY <1>10, Moving DEF Write, Refused, Fault
  <2>2. events' \in 0..MaxEvents
    BY <2>1, EventType
  <2> QED
    BY <1>10, <2>1, <2>2, MovesKeepsTypes DEF Write
<1>11. ASSUME NEW p \in Processes, Sync(p) PROVE TypeInv'
  <2>1. Moves(p) /\ (events' = events \/ Happens)
    BY <1>11, Moving DEF Sync, Refused, Fault
  <2>2. events' \in 0..MaxEvents
    BY <2>1, EventType
  <2> QED
    BY <1>11, <2>1, <2>2, MovesKeepsTypes DEF Sync
<1>12. ASSUME NEW p \in Processes, Close(p) PROVE TypeInv'
  <2>1. Moves(p) /\ (events' = events \/ Happens)
    BY <1>12, Moving DEF Close, Refused, Fault
  <2>2. events' \in 0..MaxEvents
    BY <2>1, EventType
  <2> QED
    BY <1>12, <2>1, <2>2, MovesKeepsTypes DEF Close
<1>13. ASSUME NEW p \in Processes, Rename(p) PROVE TypeInv'
  <2>1. Moves(p) /\ (events' = events \/ Happens)
    BY <1>13, Moving DEF Rename, Refused, Fault
  <2>2. events' \in 0..MaxEvents
    BY <2>1, EventType
  <2> QED
    BY <1>13, <2>1, <2>2, MovesKeepsTypes DEF Rename
<1>14. ASSUME NEW p \in Processes, Clean(p) PROVE TypeInv'
  <2>1. Moves(p) /\ (events' = events \/ Happens)
    BY <1>14, Moving DEF Clean, Refused, Fault
  <2>2. events' \in 0..MaxEvents
    BY <2>1, EventType
  <2> QED
    BY <1>14, <2>1, <2>2, MovesKeepsTypes DEF Clean
<1>15. ASSUME NEW p \in Processes, ReadLine(p) PROVE TypeInv'
  <2>1. reading' \subseteq Processes
    BY <1>15 DEF ReadLine
  <2>2. typed' \in [Processes -> Seq(Words)] /\ response' \in [Processes -> Seq(Lines)]
    <3>1. CASE typed' = typed
      <4>1. PICK e \in {"eof", "error"} : response' = [response EXCEPT ![p] = <<e>>]
        BY <1>15, <3>1, AppendProperties DEF ReadLine, Words, Lines
      <4> QED
        BY <3>1, <4>1 DEF Lines
    <3>2. ASSUME NEW w \in Words, typed' = [typed EXCEPT ![p] = Append(@, w)],
                 response' = [response EXCEPT ![p] = <<w>>]
          PROVE  typed' \in [Processes -> Seq(Words)] /\ response' \in [Processes -> Seq(Lines)]
      <4>1. Append(typed[p], w) \in Seq(Words) /\ <<w>> \in Seq(Lines)
        BY AppendProperties DEF Lines
      <4> QED
        BY <3>2, <4>1
    <3> QED
      BY <1>15, <3>1, <3>2 DEF ReadLine
  <2> QED
    BY <1>15, <2>1, <2>2 DEF ReadLine
<1>16. ASSUME NEW p \in Processes, Cancel(p) PROVE TypeInv'
  BY <1>16 DEF Cancel, Happens, Fault, Refused, Goto, Report, Continue
<1>17. ASSUME NEW p \in Processes, Crash(p) PROVE TypeInv'
  BY <1>17 DEF Crash, Happens, Fault, Refused, Goto, Report, Continue
<1>18. CASE Edit
  BY <1>18 DEF Edit, Happens
<1>19. CASE UNCHANGED vars
  BY <1>19 DEF vars
<1> QED
  BY <1>1, <1>2, <1>3, <1>4, <1>5, <1>6, <1>7, <1>8, <1>9, <1>10, <1>11, <1>12, <1>13, <1>14, <1>15, <1>16, <1>17, <1>18, <1>19
  DEF Next, Run, Outside

\* The variables of StarterPolicy keep their types.  TypeOK is not inductive
\* by itself: a decision reads the next candidate, which there has to be.
THEOREM TypeCorrect == Spec => []TypeOK
<1>1. Init => TypeInv
  BY InitTypeInv
<1>2. TypeInv /\ [Next]_vars => TypeInv'
  BY NextTypeInv
<1>3. TypeInv => TypeOK
  BY DEF TypeInv
<1> QED
  BY <1>1, <1>2, <1>3, PTL DEF Spec

-----------------------------------------------------------------------------
(* Whose file is where.                                                    *)

Early   == {"inspect", "analyse", "ask", "wait", "finish", "create"}
Writing == {"create", "write", "sync", "close", "rename", "clean"}

\* A process has no file before it creates one.  Only a forced one has a
\* temporary file; its file takes the destination when it is whole.
FileInv ==
  \A p \in Processes :
    /\ step[p] \in Early => dest # p /\ p \notin temporary
    /\ step[p] \in {"sync", "rename"} => flags[p].force
    /\ step[p] \in {"sync", "close", "rename"} => whole[p]
    /\ step[p] = "clean" /\ ~flags[p].force => answer[p] = "failed"
    /\ p \in temporary => flags[p].force
    /\ dest = p /\ flags[p].force =>
         /\ whole[p] /\ answer[p] = "written"
         /\ step[p] \in {"clean", "end", "crashed"}

\* What a process that writes, or has written, was told.
ConsentInv ==
  /\ unheard \subseteq cancelled
  /\ \A p \in Processes :
       /\ step[p] = "finish" /\ flags[p].interactive => at[p] = Len(ranked[p])
       /\ step[p] \in Writing =>
            /\ ~flags[p].dryRun
            /\ p \notin unheard
            /\ selected[p] # <<>>
            /\ flags[p].interactive => at[p] = Len(ranked[p])
       /\ Told(p)

PlaceInv == FileInv /\ PolicyWhole

\* What the steps of the review, and all that is no step of writing, leave.
Reviewing(p) ==
  /\ UNCHANGED <<flags, dest, whole, temporary, unremoved>>
  /\ step[p] \in Early
  /\ \E s \in Early \cup {"end"} : step' = [step EXCEPT ![p] = s]
  /\ \/ answer' = answer
     \/ \E a \in Answers : answer' = [answer EXCEPT ![p] = a]

LEMMA ReviewingKeepsPlace ==
  ASSUME TypeOK, PlaceInv, NEW p \in Processes, Reviewing(p)
  PROVE  PlaceInv'
BY DEF TypeOK, PlaceInv, FileInv, PolicyWhole, Reviewing, Early

LEMMA ReviewSteps ==
  ASSUME NEW p \in Processes,
         \/ Inspect(p) \/ Analyse(p) \/ Ask(p) \/ Reviewed(p)
         \/ HearCancel(p) \/ HearAnswer(p) \/ Finish(p)
  PROVE  Reviewing(p)
<1> USE DEF Reviewing, Early, Answers, Report, Continue, Goto, disk, review
<1>1. CASE Inspect(p)
  BY <1>1 DEF Inspect
<1>2. CASE Analyse(p)
  BY <1>2 DEF Analyse
<1>3. CASE Ask(p)
  BY <1>3 DEF Ask
<1>4. CASE Reviewed(p)
  BY <1>4 DEF Reviewed
<1>5. CASE HearCancel(p)
  BY <1>5 DEF HearCancel
<1>6. CASE HearAnswer(p)
  BY <1>6 DEF HearAnswer, Decide
<1>7. CASE Finish(p)
  BY <1>7 DEF Finish
<1> QED
  BY <1>1, <1>2, <1>3, <1>4, <1>5, <1>6, <1>7

LEMMA InitPlace == Init => PlaceInv
BY StarterAssumption
DEF Init, PlaceInv, FileInv, PolicyWhole, StarterAssumption

\* No step can mistake a file of the user for one of a process.
LEMMA UserIsNoProcess == User \notin Processes /\ Special \notin Processes /\ None \notin Processes
BY StarterAssumption DEF StarterAssumption

LEMMA NextPlace == TypeOK /\ PlaceInv /\ [Next]_vars => PlaceInv'
<1> SUFFICES ASSUME TypeOK, PlaceInv, [Next]_vars PROVE PlaceInv'
  OBVIOUS
<1> USE UserIsNoProcess
<1>1. ASSUME NEW p \in Processes,
             \/ Inspect(p) \/ Analyse(p) \/ Ask(p) \/ Reviewed(p)
             \/ HearCancel(p) \/ HearAnswer(p) \/ Finish(p)
      PROVE  PlaceInv'
  BY <1>1, ReviewSteps, ReviewingKeepsPlace
<1> USE DEF TypeOK, PlaceInv, FileInv, PolicyWhole, Early, Goto, Report, Continue
<1>2. ASSUME NEW p \in Processes, CreateNew(p) PROVE PlaceInv'
  BY <1>2 DEF CreateNew, disk, review
<1>3. ASSUME NEW p \in Processes, CreateTemporary(p) PROVE PlaceInv'
  BY <1>3 DEF CreateTemporary, disk, review
<1>4. ASSUME NEW p \in Processes, Write(p) PROVE PlaceInv'
  <2>1. CASE flags[p].force
    <3>1. CASE whole' = [whole EXCEPT ![p] = TRUE] /\ Continue(p, "sync")
      BY <1>4, <2>1, <3>1 DEF Write, review
    <3>2. CASE Report(p, "failed", "clean") /\ whole' = whole
      BY <1>4, <2>1, <3>2 DEF Write, review
    <3> QED
      BY <1>4, <2>1, <3>1, <3>2 DEF Write
  <2>2. CASE ~flags[p].force
    <3>1. CASE whole' = [whole EXCEPT ![p] = TRUE] /\ Continue(p, "close")
      BY <1>4, <2>2, <3>1 DEF Write, review
    <3>2. CASE Report(p, "failed", "clean") /\ whole' = whole
      BY <1>4, <2>2, <3>2 DEF Write, review
    <3> QED
      BY <1>4, <2>2, <3>1, <3>2 DEF Write
  <2> QED
    BY <2>1, <2>2
<1>5. ASSUME NEW p \in Processes, Sync(p) PROVE PlaceInv'
  BY <1>5 DEF Sync, disk, review
<1>6. ASSUME NEW p \in Processes, Close(p) PROVE PlaceInv'
  <2>1. whole[p] /\ UNCHANGED <<flags, dest, whole, temporary, unremoved>>
    BY <1>6 DEF Close, disk
  <2>2. CASE flags[p].force /\ Continue(p, "rename")
    BY <1>6, <2>1, <2>2 DEF Close
  <2>3. CASE ~flags[p].force /\ Report(p, "written", "end")
    BY <1>6, <2>1, <2>3 DEF Close
  <2>4. CASE Report(p, "failed", "clean")
    BY <1>6, <2>1, <2>4 DEF Close
  <2> QED
    BY <1>6, <2>2, <2>3, <2>4 DEF Close
<1>7. ASSUME NEW p \in Processes, Rename(p) PROVE PlaceInv'
  <2>1. flags[p].force /\ whole[p]
    BY <1>7 DEF Rename
  <2>2. CASE dest' = p /\ temporary' = temporary \ {p} /\ Report(p, "written", "clean")
    BY <1>7, <2>1, <2>2 DEF Rename, review
  <2>3. CASE Report(p, "failed", "clean") /\ UNCHANGED <<dest, temporary>>
    BY <1>7, <2>1, <2>3 DEF Rename, review
  <2> QED
    BY <1>7, <2>2, <2>3 DEF Rename
<1>8. ASSUME NEW p \in Processes, Clean(p) PROVE PlaceInv'
  BY <1>8 DEF Clean, disk, review
<1>9. ASSUME NEW p \in Processes, ReadLine(p) PROVE PlaceInv'
  BY <1>9 DEF ReadLine, disk, review
<1>10. ASSUME NEW p \in Processes, Cancel(p) PROVE PlaceInv'
  BY <1>10 DEF Cancel, disk, review
<1>11. ASSUME NEW p \in Processes, Crash(p) PROVE PlaceInv'
  BY <1>11 DEF Crash, disk, review
<1>12. CASE Edit
  BY <1>12 DEF Edit
<1>13. CASE UNCHANGED vars
  BY <1>13 DEF vars, disk, review
<1> QED
  BY <1>1, <1>2, <1>3, <1>4, <1>5, <1>6, <1>7, <1>8, <1>9, <1>10, <1>11, <1>12, <1>13
  DEF Next, Run, Outside

\* Whatever an init has left at the destination is whole, or its process
\* still writes, was killed or could not remove it, and did so without
\* --force; and an init that returned left what it says (PolicyWhole).
THEOREM PolicyAlwaysWhole == Spec => []PolicyWhole
<1>1. Init => PlaceInv
  BY InitPlace
<1>2. TypeOK /\ PlaceInv /\ [Next]_vars => PlaceInv'
  BY NextPlace
<1>3. PlaceInv => PolicyWhole
  BY DEF PlaceInv
<1> QED
  BY <1>1, <1>2, <1>3, TypeCorrect, PTL DEF Spec

\* The step of a process without --force that changes the destination puts
\* its file where none is, or removes it after a failure: renames are forced.
UnforcedStep ==
  \A p \in Processes :
    step[p] # step'[p] /\ ~flags[p].force /\ dest' # dest =>
      \/ dest = None /\ dest' = p
      \/ step[p] = "clean" /\ answer[p] = "failed" /\ dest' = None

LEMMA NextUnforced == TypeOK /\ PlaceInv /\ [Next]_vars => UnforcedStep
<1> SUFFICES ASSUME TypeOK, PlaceInv, [Next]_vars,
                    NEW p \in Processes, step[p] # step'[p], ~flags[p].force, dest' # dest
             PROVE  \/ dest = None /\ dest' = p
                    \/ step[p] = "clean" /\ answer[p] = "failed" /\ dest' = None
  BY DEF UnforcedStep
<1> USE DEF TypeOK, disk, Goto, Report, Continue
<1>1. ASSUME NEW q \in Processes, CreateNew(q) \/ Rename(q) \/ Clean(q)
      PROVE  \/ dest = None /\ dest' = p
             \/ step[p] = "clean" /\ answer[p] = "failed" /\ dest' = None
  <2>1. q = p
    BY <1>1 DEF CreateNew, Rename, Clean
  <2> QED
    BY <1>1, <2>1 DEF CreateNew, Rename, Clean, PlaceInv, FileInv
<1>2. ASSUME NEW q \in Processes, ~(CreateNew(q) \/ Rename(q) \/ Clean(q)), Run(q) \/ Outside(q)
      PROVE  dest' = dest
  BY <1>2 DEF Run, Outside, Inspect, Analyse, Ask, Reviewed, HearCancel, HearAnswer, Finish,
     CreateTemporary, Write, Sync, Close, ReadLine, Cancel, Crash
<1>3. CASE Edit
  BY <1>3 DEF Edit
<1>4. CASE UNCHANGED vars
  BY <1>4 DEF vars
<1> QED
  BY <1>1, <1>2, <1>3, <1>4 DEF Next

\* Without --force an init replaces and removes no file of anybody else, but
\* for the removal by name after its own write failed (UnforcedKeepsOthers).
THEOREM OthersKept == Spec => UnforcedKeepsOthers
<1>1. Init => PlaceInv
  BY InitPlace
<1>2. TypeOK /\ PlaceInv /\ [Next]_vars => PlaceInv'
  BY NextPlace
<1>3. TypeOK /\ PlaceInv /\ [Next]_vars => UnforcedStep
  BY NextUnforced
<1>4. Spec => [][UnforcedStep]_vars
  BY <1>1, <1>2, <1>3, TypeCorrect, PTL DEF Spec
<1> QED
  BY <1>4, PTL DEF UnforcedKeepsOthers, UnforcedStep

-----------------------------------------------------------------------------
(* Consent.                                                                *)

LEMMA InitConsent == Init => ConsentInv
BY UserIsNoProcess DEF Init, ConsentInv, Told, Writing

LEMMA NextConsent == TypeInv /\ FileInv /\ ConsentInv /\ [Next]_vars => ConsentInv'
<1> SUFFICES ASSUME TypeInv, FileInv, ConsentInv, [Next]_vars PROVE ConsentInv'
  OBVIOUS
<1> USE UserIsNoProcess
<1> USE DEF TypeInv, TypeOK, FileInv, ConsentInv, Told, Early, Writing, Goto, Report, Continue,
            disk, review, world
<1>1. ASSUME NEW p \in Processes, Inspect(p) PROVE ConsentInv'
  BY <1>1 DEF Inspect
<1>2. ASSUME NEW p \in Processes, Analyse(p) PROVE ConsentInv'
  <2>1. /\ step[p] = "analyse" /\ step' = [step EXCEPT ![p] = step'[p]]
        /\ step'[p] \in {"ask", "end"} \/ (step'[p] = "finish" /\ ~flags[p].interactive)
        /\ UNCHANGED <<flags, dest, temporary, cancelled, unheard, at>>
    BY <1>2 DEF Analyse
  <2>2. \A q \in Processes \ {p} : ranked'[q] = ranked[q] /\ selected'[q] = selected[q]
    BY <1>2 DEF Analyse
  <2> QED
    BY <2>1, <2>2
<1>3. ASSUME NEW p \in Processes, Ask(p) PROVE ConsentInv'
  BY <1>3 DEF Ask
<1>4. ASSUME NEW p \in Processes, Reviewed(p) PROVE ConsentInv'
  BY <1>4 DEF Reviewed
<1>5. ASSUME NEW p \in Processes, HearCancel(p) PROVE ConsentInv'
  BY <1>5 DEF HearCancel
<1>6. ASSUME NEW p \in Processes, HearAnswer(p) PROVE ConsentInv'
  <2>1. /\ step[p] = "wait" /\ step' = [step EXCEPT ![p] = step'[p]] /\ step'[p] \in {"ask", "end"}
        /\ UNCHANGED <<flags, dest, temporary, cancelled, unheard, ranked>>
    BY <1>6 DEF HearAnswer, Decide
  <2>2. \A q \in Processes \ {p} : at'[q] = at[q] /\ selected'[q] = selected[q]
    BY <1>6 DEF HearAnswer, Decide
  <2> QED
    BY <2>1, <2>2
<1>7. ASSUME NEW p \in Processes, Finish(p) PROVE ConsentInv'
  BY <1>7 DEF Finish
<1>8. ASSUME NEW p \in Processes, CreateNew(p) PROVE ConsentInv'
  BY <1>8 DEF CreateNew
<1>9. ASSUME NEW p \in Processes, CreateTemporary(p) PROVE ConsentInv'
  BY <1>9 DEF CreateTemporary
<1>10. ASSUME NEW p \in Processes, Write(p) PROVE ConsentInv'
  BY <1>10 DEF Write
<1>11. ASSUME NEW p \in Processes, Sync(p) PROVE ConsentInv'
  BY <1>11 DEF Sync
<1>12. ASSUME NEW p \in Processes, Close(p) PROVE ConsentInv'
  BY <1>12 DEF Close
<1>13. ASSUME NEW p \in Processes, Rename(p) PROVE ConsentInv'
  BY <1>13 DEF Rename
<1>14. ASSUME NEW p \in Processes, Clean(p) PROVE ConsentInv'
  BY <1>14 DEF Clean
<1>15. ASSUME NEW p \in Processes, ReadLine(p) PROVE ConsentInv'
  BY <1>15 DEF ReadLine
<1>16. ASSUME NEW p \in Processes, Cancel(p) PROVE ConsentInv'
  BY <1>16 DEF Cancel
<1>17. ASSUME NEW p \in Processes, Crash(p) PROVE ConsentInv'
  BY <1>17 DEF Crash
<1>18. CASE Edit
  BY <1>18 DEF Edit
<1>19. CASE UNCHANGED vars
  BY <1>19 DEF vars
<1> QED
  BY <1>1, <1>2, <1>3, <1>4, <1>5, <1>6, <1>7, <1>8, <1>9, <1>10, <1>11, <1>12, <1>13, <1>14, <1>15, <1>16, <1>17, <1>18, <1>19
  DEF Next, Run, Outside

-----------------------------------------------------------------------------
(* The answers and what was chosen.                                        *)

LEMMA DecidingType ==
  ASSUME NEW lines \in Seq(Words)
  PROVE  /\ Deciding(lines) \subseteq 1..Len(lines)
         /\ IsFiniteSet(Deciding(lines)) /\ Cardinality(Deciding(lines)) \in Nat
<1>1. Len(lines) \in Nat /\ DOMAIN lines = 1..Len(lines)
  BY LenProperties
<1>2. Deciding(lines) \subseteq 1..Len(lines)
  BY <1>1 DEF Deciding
<1>3. IsFiniteSet(1..Len(lines))
  BY <1>1, FS_Interval
<1>4. IsFiniteSet(Deciding(lines))
  BY <1>2, <1>3, FS_Subset
<1> QED
  BY <1>2, <1>4, FS_CardinalityType

\* A place is no more than there are places.
LEMMA PlaceBounds ==
  ASSUME NEW S \in SUBSET Nat, IsFiniteSet(S), NEW i \in S
  PROVE  Place(i, S) \in 1..Cardinality(S)
<1> DEFINE T == {j \in S : j <= i}
<1>1. T \in SUBSET S /\ i \in T
  OBVIOUS
<1> HIDE DEF T
<1>2. IsFiniteSet(T) /\ Cardinality(T) <= Cardinality(S)
  BY <1>1, FS_Subset
<1>3. Cardinality(T) \in Nat /\ Cardinality(S) \in Nat
  BY <1>2, FS_CardinalityType
<1>4. Cardinality(T) # 0
  BY <1>1, <1>2, FS_EmptySet
<1> QED
  BY <1>2, <1>3, <1>4 DEF Place, T

\* The greatest of a set comes last in it, and the others keep their places.
LEMMA PlacesGrow ==
  ASSUME NEW S \in SUBSET Nat, IsFiniteSet(S), NEW m \in Nat, \A i \in S : i < m
  PROVE  /\ Cardinality(S \cup {m}) = Cardinality(S) + 1
         /\ Place(m, S \cup {m}) = Cardinality(S) + 1
         /\ \A i \in S : Place(i, S \cup {m}) = Place(i, S)
<1>1. m \notin S
  OBVIOUS
<1>2. Cardinality(S \cup {m}) = Cardinality(S) + 1
  BY <1>1, FS_AddElement
<1>3. {j \in S \cup {m} : j <= m} = S \cup {m}
  <2>1. \A j \in S \cup {m} : j <= m
    OBVIOUS
  <2> QED
    BY <2>1
<1>4. Place(m, S \cup {m}) = Cardinality(S) + 1
  BY <1>2, <1>3 DEF Place
<1>5. ASSUME NEW i \in S PROVE Place(i, S \cup {m}) = Place(i, S)
  <2>1. {j \in S \cup {m} : j <= i} = {j \in S : j <= i}
    OBVIOUS
  <2> QED
    BY <2>1 DEF Place
<1> QED
  BY <1>2, <1>4, <1>5

LEMMA LastLine ==
  ASSUME NEW lines \in Seq(Words), NEW w \in Words
  PROVE  Append(lines, w) # <<>> /\ Append(lines, w)[Len(Append(lines, w))] = w
BY AppendProperties

\* One more line: an answer that says nothing, or a decision.
LEMMA OneMoreLine ==
  ASSUME NEW lines \in Seq(Words), NEW w \in Words
  PROVE  Deciding(Append(lines, w)) =
           IF w = "other" THEN Deciding(lines) ELSE Deciding(lines) \cup {Len(lines) + 1}
<1> DEFINE more == Append(lines, w)
<1>1. /\ Len(lines) \in Nat /\ DOMAIN lines = 1..Len(lines)
      /\ more \in Seq(Words) /\ Len(more) = Len(lines) + 1 /\ DOMAIN more = 1..Len(lines) + 1
      /\ \A i \in 1..Len(lines) : more[i] = lines[i]
      /\ more[Len(lines) + 1] = w
  BY AppendProperties, LenProperties
<1> HIDE DEF more
<1>2. Deciding(more) =
        {i \in 1..Len(lines) : lines[i] # "other"} \cup (IF w = "other" THEN {} ELSE {Len(lines) + 1})
  BY <1>1 DEF Deciding
<1> QED
  BY <1>1, <1>2 DEF Deciding, more

\* The lines typed after the n-th decision change nothing for the first n.
LEMMA HonoursLater ==
  ASSUME NEW lines \in Seq(Words), NEW w \in Words, NEW n \in Nat, NEW candidates, NEW chosen,
         Honours(lines, n, candidates, chosen)
  PROVE  Honours(Append(lines, w), n, candidates, chosen)
<1> DEFINE D == Deciding(lines)
           more == Append(lines, w)
           m == Len(lines) + 1
<1>1. D \subseteq 1..Len(lines) /\ IsFiniteSet(D) /\ Cardinality(D) \in Nat /\ Len(lines) \in Nat
  BY DecidingType, LenProperties
<1>2. \A i \in D : more[i] = lines[i] /\ i \in Nat /\ i < m
  BY <1>1, AppendProperties
<1>3. Deciding(more) = IF w = "other" THEN D ELSE D \cup {m}
  BY OneMoreLine
<1>4. n <= Cardinality(D)
  BY DEF Honours
<1>5. CASE w = "other"
  <2>1. Deciding(more) = D
    BY <1>3, <1>5
  <2>2. Accepting(more, n) = Accepting(lines, n)
    BY <1>2, <2>1 DEF Accepting
  <2> QED
    BY <2>1, <2>2 DEF Honours
<1>6. CASE w # "other"
  <2>1. Deciding(more) = D \cup {m}
    BY <1>3, <1>6
  <2>2. /\ Cardinality(D \cup {m}) = Cardinality(D) + 1
        /\ Place(m, D \cup {m}) = Cardinality(D) + 1
        /\ \A i \in D : Place(i, D \cup {m}) = Place(i, D)
    <3>1. D \in SUBSET Nat /\ m \in Nat
      BY <1>1
    <3> HIDE DEF D, m
    <3> QED
      BY <1>1, <1>2, <3>1, PlacesGrow
  <2> HIDE DEF D, m, more
  <2>3. Accepting(more, n) = Accepting(lines, n)
    <3>1. Accepting(more, n) = {i \in D \cup {m} : more[i] = "yes" /\ Place(i, D \cup {m}) <= n}
      BY <2>1 DEF Accepting
    <3>2. Accepting(lines, n) = {i \in D : lines[i] = "yes" /\ Place(i, D) <= n}
      BY DEF Accepting, D
    <3>3. ~(Place(m, D \cup {m}) <= n)
      BY <1>1, <1>4, <2>2
    <3> QED
      BY <1>2, <2>2, <3>1, <3>2, <3>3
  <2>4. \A i \in Accepting(lines, n) : i \in D
    BY DEF Accepting, D
  <2>5. n <= Cardinality(Deciding(more))
    BY <1>1, <1>4, <2>1, <2>2
  <2>6. \A i \in Accepting(lines, n) : Place(i, Deciding(more)) = Place(i, D)
    BY <2>1, <2>2, <2>4
  <2> QED
    BY <2>3, <2>5, <2>6 DEF Honours, D, more
<1> QED
  BY <1>5, <1>6

Extended(chosen, accepted, c) == IF accepted THEN Append(chosen, c) ELSE chosen

\* The last line typed is the decision about the next candidate.
LEMMA HonoursNext ==
  ASSUME NEW lines \in Seq(Words), NEW n \in Nat, NEW candidates, NEW chosen \in Seq(Suggestions),
         NEW c \in Suggestions, c = candidates[n + 1],
         Honours(lines, n, candidates, chosen),
         lines # <<>>, NEW w \in {"yes", "no"}, lines[Len(lines)] = w,
         Cardinality(Deciding(lines)) = n + 1
  PROVE  Honours(lines, n + 1, candidates, Extended(chosen, w = "yes", c))
<1> DEFINE D == Deciding(lines)
           m == Len(lines)
           R == D \ {m}
           A == Accepting(lines, n)
           B == Accepting(lines, n + 1)
<1>1. D \subseteq 1..m /\ IsFiniteSet(D) /\ m \in Nat /\ m \in 1..m /\ DOMAIN lines = 1..m
  BY DecidingType, LenProperties, EmptySeq
<1>2. m \in D
  BY <1>1 DEF Deciding
<1>3. /\ R \in SUBSET Nat /\ R \cup {m} = D /\ m \notin R
      /\ \A i \in R : i < m
  BY <1>1, <1>2
<1>4. IsFiniteSet(R) /\ Cardinality(R) = n
  <2>1. Cardinality(D) = n + 1
    OBVIOUS
  <2> HIDE DEF D, m
  <2>2. IsFiniteSet(R) /\ Cardinality(R) = Cardinality(D) - 1
    BY <1>1, <1>2, FS_RemoveElement
  <2> QED
    BY <2>1, <2>2
<1> HIDE DEF R
<1>5. /\ Place(m, D) = n + 1
      /\ \A i \in R : Place(i, D) = Place(i, R) /\ Place(i, D) \in 1..n
  <2>1. /\ Place(m, R \cup {m}) = n + 1
        /\ \A i \in R : Place(i, R \cup {m}) = Place(i, R)
    BY <1>1, <1>3, <1>4, PlacesGrow
  <2>2. \A i \in R : Place(i, R) \in 1..n
    BY <1>3, <1>4, PlaceBounds
  <2> QED
    BY <1>3, <2>1, <2>2
<1>6. A = {i \in R : lines[i] = "yes"}
  <2>1. A = {i \in R \cup {m} : lines[i] = "yes" /\ Place(i, D) <= n}
    BY <1>3 DEF Accepting
  <2> HIDE DEF A, D, m
  <2> QED
    BY <1>5, <2>1
<1>7. B = A \cup (IF w = "yes" THEN {m} ELSE {})
  <2>1. B = {i \in R \cup {m} : lines[i] = "yes" /\ Place(i, D) <= n + 1}
    BY <1>3 DEF Accepting
  <2>2. lines[m] = w
    OBVIOUS
  <2> HIDE DEF A, B, D, m
  <2> QED
    BY <1>5, <1>6, <2>1, <2>2
<1>8. /\ Len(chosen) = Cardinality(A)
      /\ \A i \in A : chosen[Place(i, A)] = candidates[Place(i, D)]
  BY DEF Honours
<1>9. A \in SUBSET Nat /\ IsFiniteSet(A) /\ A \in SUBSET R
  <2> HIDE DEF A
  <2>1. A \in SUBSET R
    BY <1>6
  <2>2. IsFiniteSet(A)
    BY <1>4, <2>1, FS_Subset
  <2> QED
    BY <1>3, <2>1, <2>2
<1> DEFINE more == Extended(chosen, w = "yes", c)
<1>10. Len(more) = Cardinality(B) /\ \A i \in B : more[Place(i, B)] = candidates[Place(i, D)]
  <2>1. CASE w = "no"
    BY <1>7, <1>8, <2>1 DEF Extended
  <2>2. CASE w = "yes"
    <3>1. more = Append(chosen, c)
      BY <2>2 DEF Extended
    <3> HIDE DEF more, A, B, m, D
    <3>2. /\ Len(more) = Len(chosen) + 1 /\ more[Len(chosen) + 1] = c
          /\ \A i \in 1..Len(chosen) : more[i] = chosen[i]
      BY <3>1, AppendProperties
    <3>3. \A i \in A : i < m
      BY <1>3, <1>9
    <3>4. B = A \cup {m}
      BY <1>7, <2>2
    <3>5. /\ Cardinality(B) = Cardinality(A) + 1
          /\ Place(m, B) = Cardinality(A) + 1
          /\ \A i \in A : Place(i, B) = Place(i, A)
      BY <1>1, <1>9, <3>3, <3>4, PlacesGrow
    <3>6. \A i \in A : Place(i, A) \in 1..Len(chosen)
      BY <1>8, <1>9, PlaceBounds
    <3>7. more[Place(m, B)] = candidates[Place(m, D)]
      BY <1>5, <1>8, <3>2, <3>5
    <3>8. ASSUME NEW i \in A PROVE more[Place(i, B)] = candidates[Place(i, D)]
      BY <1>8, <3>2, <3>5, <3>6
    <3> QED
      BY <1>8, <3>2, <3>4, <3>5, <3>7, <3>8
  <2> QED
    BY <2>1, <2>2
<1> HIDE DEF A, B, m, D, more
<1>11. Cardinality(D) = n + 1
  BY DEF D
<1> QED
  BY <1>10, <1>11 DEF Honours, B, D, more

\* No more candidates than the maximum.
LEMMA CandidatesBound ==
  ASSUME NEW r \in Rankings
  PROVE  Len(Candidates(r)) <= MaxRules
<1> DEFINE chosen == {i \in DOMAIN r : r[i].score >= MinScore /\ i <= MaxRules}
<1> USE StarterAssumption DEF StarterAssumption
<1>1. r \in Seq(Suggestions) /\ Len(r) \in Nat /\ DOMAIN r = 1..Len(r)
  BY LenProperties
<1>2. chosen \subseteq 1..Len(r) /\ chosen \subseteq 1..MaxRules
  BY <1>1
<1>3. /\ IsFiniteSet(1..Len(r)) /\ Cardinality(1..Len(r)) = Len(r)
      /\ IsFiniteSet(1..MaxRules) /\ Cardinality(1..MaxRules) = MaxRules
  <2>1. \A n \in Nat : IsFiniteSet(1..n) /\ Cardinality(1..n) = IF 1 > n THEN 0 ELSE n - 1 + 1
    BY FS_Interval
  <2>2. \A n \in Nat : (IF 1 > n THEN 0 ELSE n - 1 + 1) = n
    OBVIOUS
  <2>3. MaxRules \in Nat
    OBVIOUS
  <2> QED
    BY <1>1, <2>1, <2>2, <2>3
<1> HIDE DEF chosen
<1>4. IsFiniteSet(chosen) /\ Cardinality(chosen) <= Cardinality(1..Len(r))
  BY <1>2, <1>3, FS_Subset
<1>5. Cardinality(chosen) <= Cardinality(1..MaxRules)
  BY <1>2, <1>3, FS_Subset
<1>6. Cardinality(chosen) \in 0..Len(r) /\ Cardinality(chosen) <= MaxRules
  BY <1>3, <1>4, <1>5, FS_CardinalityType
<1>7. Len(SubSeq(r, 1, Cardinality(chosen))) = Cardinality(chosen)
  BY <1>1, <1>6, SubSeqProperties
<1> QED
  BY <1>6, <1>7 DEF Candidates, chosen

\* Nothing was typed, nothing chosen.
LEMMA HonoursNothing ==
  ASSUME NEW candidates
  PROVE  Honours(<<>>, 0, candidates, <<>>) /\ Cardinality(Deciding(<<>>)) = 0
<1>1. Deciding(<<>>) = {}
  BY DEF Deciding
<1>2. Accepting(<<>>, 0) = {}
  BY <1>1 DEF Accepting
<1>3. Cardinality({}) = 0 /\ Len(<<>>) = 0
  BY FS_EmptySet
<1>4. Honours(<<>>, 0, candidates, <<>>)
  <2>1. Len(<<>>) = Cardinality(Accepting(<<>>, 0)) /\ 0 <= Cardinality(Deciding(<<>>))
    BY <1>1, <1>2, <1>3
  <2>2. \A i \in Accepting(<<>>, 0) : FALSE
    BY <1>2
  <2> QED
    BY <2>1, <2>2, Zenon DEF Honours
<1> QED
  BY <1>1, <1>3, <1>4

\* Where a review stands between the lines read and the decisions taken: a
\* question is asked when every decision typed was taken; the reader has at
\* most one line on its way, and what it has in the channel is the last line.
Stands(p) ==
  /\ p \in reading => step[p] \in {"wait", "end"}
  /\ step[p] \in {"inspect", "analyse"} => typed[p] = <<>> /\ selected[p] = <<>>
  /\ step[p] = "ask" => Cardinality(Deciding(typed[p])) = at[p]
  /\ step[p] = "wait" /\ p \in reading =>
       response[p] = <<>> /\ Cardinality(Deciding(typed[p])) = at[p]
  /\ step[p] = "wait" /\ response[p] # <<>> =>
       IF Head(response[p]) \in {"yes", "no"}
       THEN /\ Cardinality(Deciding(typed[p])) = at[p] + 1
            /\ typed[p] # <<>> /\ typed[p][Len(typed[p])] = Head(response[p])
       ELSE Cardinality(Deciding(typed[p])) = at[p]

HonourInv ==
  \A p \in Processes :
    /\ AnswersHonoured(p)
    /\ flags[p].interactive => Stands(p)

LEMMA InitHonour == Init => HonourInv
<1> SUFFICES ASSUME Init, NEW p \in Processes
             PROVE  AnswersHonoured(p) /\ Stands(p)
  BY DEF HonourInv
<1>1. typed[p] = <<>> /\ at[p] = 0 /\ ranked[p] = <<>> /\ selected[p] = <<>> /\ step[p] = "inspect"
      /\ reading = {}
  BY DEF Init
<1>2. AnswersHonoured(p)
  BY <1>1, HonoursNothing, StarterAssumption DEF AnswersHonoured, StarterAssumption
<1> QED
  BY <1>1, <1>2 DEF Stands

\* A step of p leaves alone what another process was answered.
Others(p) ==
  \A q \in Processes \ {p} :
    /\ flags'[q] = flags[q] /\ step'[q] = step[q] /\ ranked'[q] = ranked[q] /\ at'[q] = at[q]
    /\ selected'[q] = selected[q] /\ response'[q] = response[q] /\ typed'[q] = typed[q]
    /\ q \in reading' <=> q \in reading

LEMMA OthersHonoured ==
  ASSUME HonourInv, NEW p \in Processes, Others(p),
         AnswersHonoured(p)', flags[p].interactive' => Stands(p)'
  PROVE  HonourInv'
<1> SUFFICES ASSUME NEW q \in Processes \ {p}
             PROVE  AnswersHonoured(q)' /\ (flags[q].interactive' => Stands(q)')
  BY DEF HonourInv
<1> QED
  BY DEF HonourInv, Others, AnswersHonoured, Stands

\* A step that neither asks nor reads, decides or goes back to a question.
LEMMA LeavingHonours ==
  ASSUME TypeOK, HonourInv, NEW p \in Processes,
         NEW s \in Steps \ {"inspect", "analyse", "ask", "wait"},
         step' = [step EXCEPT ![p] = s],
         UNCHANGED <<flags, ranked, at, selected, response, typed>>,
         reading' = reading \/ reading' = reading \ {p},
         p \in reading' /\ flags[p].interactive => s = "end"
  PROVE  HonourInv'
<1>1. Others(p)
  BY DEF Others, TypeOK
<1>2. AnswersHonoured(p)'
  BY DEF AnswersHonoured, HonourInv
<1>3. flags[p].interactive' => Stands(p)'
  BY DEF Stands, TypeOK
<1> QED
  BY <1>1, <1>2, <1>3, OthersHonoured

LEMMA NextHonour == TypeInv /\ HonourInv /\ [Next]_vars => HonourInv'
<1> SUFFICES ASSUME TypeInv, HonourInv, [Next]_vars PROVE HonourInv'
  OBVIOUS
<1> USE DEF TypeInv, TypeOK
<1>1. ASSUME NEW p \in Processes, Inspect(p) PROVE HonourInv'
  <2>1. CASE Continue(p, "analyse")
    <3>1. Others(p)
      BY <1>1, <2>1 DEF Inspect, Continue, Goto, Others, review, world
    <3>2. AnswersHonoured(p)' /\ (flags[p].interactive' => Stands(p)')
      BY <1>1, <2>1 DEF Inspect, Continue, Goto, AnswersHonoured, Stands, HonourInv, review, world
    <3> QED
      BY <3>1, <3>2, OthersHonoured
  <2>2. CASE Report(p, "refused", "end")
    BY <1>1, <2>2, LeavingHonours DEF Inspect, Report, Goto, Steps, review, world
  <2> QED
    BY <1>1, <2>1, <2>2 DEF Inspect
<1>2. ASSUME NEW p \in Processes, Analyse(p) PROVE HonourInv'
  <2>1. CASE Report(p, "unanalysed", "end") /\ UNCHANGED <<ranked, selected>>
    BY <1>2, <2>1, LeavingHonours DEF Analyse, Report, Goto, Steps, world
  <2>2. CASE ~(Report(p, "unanalysed", "end") /\ UNCHANGED <<ranked, selected>>)
    <3>1. PICK r \in Rankings :
            /\ ranked' = [ranked EXCEPT ![p] = Candidates(r)]
            /\ IF flags[p].interactive
               THEN selected' = selected /\ Continue(p, "ask")
               ELSE selected' = [selected EXCEPT ![p] = Candidates(r)] /\ Continue(p, "finish")
      BY <1>2, <2>2 DEF Analyse
    <3>2. UNCHANGED <<flags, at, reading, response, typed>> /\ step[p] = "analyse"
      BY <1>2 DEF Analyse, world
    <3>3. Others(p)
      BY <3>1, <3>2 DEF Others, Continue, Goto
    <3>4. Len(ranked'[p]) <= MaxRules
      BY <3>1, CandidatesBound
    <3>5. ASSUME flags[p].interactive
          PROVE  Honours(typed'[p], at'[p], ranked'[p], selected'[p]) /\ Stands(p)'
      <4>1. typed[p] = <<>> /\ selected[p] = <<>> /\ at[p] = 0 /\ p \notin reading
        BY <3>2, <3>5 DEF HonourInv, Stands, ReviewInv
      <4>2. step'[p] = "ask" /\ selected'[p] = <<>> /\ at'[p] = 0 /\ typed'[p] = <<>> /\ p \notin reading'
        BY <3>1, <3>2, <3>5, <4>1 DEF Continue, Goto
      <4> QED
        BY <4>2, HonoursNothing DEF Stands
    <3> QED
      BY <3>2, <3>3, <3>4, <3>5, OthersHonoured DEF AnswersHonoured
  <2> QED
    BY <2>1, <2>2
<1>3. ASSUME NEW p \in Processes, Ask(p) PROVE HonourInv'
  <2>1. CASE Continue(p, "wait")
    <3>1. /\ reading' = reading \cup {p} /\ response' = [response EXCEPT ![p] = <<>>]
          /\ UNCHANGED <<flags, ranked, at, selected, typed>> /\ step[p] = "ask"
          /\ step' = [step EXCEPT ![p] = "wait"]
      BY <1>3, <2>1 DEF Ask, Report, Continue, Goto, world
    <3>2. Others(p)
      BY <3>1 DEF Others
    <3>3. AnswersHonoured(p)' /\ (flags[p].interactive' => Stands(p)')
      BY <3>1 DEF AnswersHonoured, Stands, HonourInv
    <3> QED
      BY <3>2, <3>3, OthersHonoured
  <2>2. CASE Report(p, "cancelled", "end") \/ Report(p, "failed", "end")
    BY <1>3, <2>2, LeavingHonours DEF Ask, Report, Continue, Goto, Steps, world
  <2> QED
    BY <1>3, <2>1, <2>2 DEF Ask
<1>4. ASSUME NEW p \in Processes, Reviewed(p) PROVE HonourInv'
  <2>1. flags[p].interactive => p \notin reading
    BY <1>4 DEF Reviewed, HonourInv, Stands
  <2> QED
    BY <1>4, <2>1, LeavingHonours DEF Reviewed, Continue, Goto, Steps, review, world
<1>5. ASSUME NEW p \in Processes, HearCancel(p) PROVE HonourInv'
  BY <1>5, LeavingHonours DEF HearCancel, Report, Goto, Steps, review, world
<1>6. ASSUME NEW p \in Processes, HearAnswer(p) PROVE HonourInv'
  <2> DEFINE line == Head(response[p])
             lines == typed[p]
  <2>1. /\ step[p] = "wait" /\ response[p] # <<>>
        /\ response' = [response EXCEPT ![p] = <<>>]
        /\ UNCHANGED <<flags, ranked, reading, typed>>
    BY <1>6 DEF HearAnswer, world
  <2>2. flags[p].interactive =>
          /\ p \notin reading
          /\ IF line \in {"yes", "no"}
             THEN /\ Cardinality(Deciding(lines)) = at[p] + 1
                  /\ lines # <<>> /\ lines[Len(lines)] = line
             ELSE Cardinality(Deciding(lines)) = at[p]
    BY <2>1 DEF HonourInv, Stands
  <2> HIDE DEF line
  <2>3. CASE step'[p] = "end" /\ UNCHANGED <<at, selected>> /\ step' = [step EXCEPT ![p] = "end"]
    <3>1. Others(p)
      BY <2>1, <2>3 DEF Others
    <3>2. AnswersHonoured(p)' /\ (flags[p].interactive' => Stands(p)')
      BY <2>1, <2>3 DEF AnswersHonoured, Stands, HonourInv
    <3> QED
      BY <3>1, <3>2, OthersHonoured
  <2>4. CASE line = "other" /\ Continue(p, "ask") /\ UNCHANGED <<at, selected>>
    <3>1. Others(p)
      BY <2>1, <2>4 DEF Others, Continue, Goto
    <3>2. AnswersHonoured(p)' /\ (flags[p].interactive' => Stands(p)')
      BY <2>1, <2>2, <2>4 DEF AnswersHonoured, Stands, HonourInv, Continue, Goto
    <3> QED
      BY <3>1, <3>2, OthersHonoured
  <2>5. CASE line \in {"yes", "no"} /\ Decide(p, line = "yes")
    <3> DEFINE c == ranked[p][at[p] + 1]
    <3>1. at[p] \in Nat /\ at[p] + 1 \in 1..Len(ranked[p]) /\ ranked[p] \in Seq(Suggestions)
      BY <2>1, LenProperties DEF ReviewInv
    <3>2. c \in Suggestions
      BY <3>1, ElementOfSeq
    <3>3. /\ at' = [at EXCEPT ![p] = at[p] + 1]
          /\ selected' = [selected EXCEPT ![p] = Extended(selected[p], line = "yes", c)]
          /\ step' = [step EXCEPT ![p] = "ask"]
      BY <2>5 DEF Decide, Continue, Goto, Extended
    <3>4. /\ at'[p] = at[p] + 1 /\ step'[p] = "ask"
          /\ selected'[p] = Extended(selected[p], line = "yes", c)
      BY <3>3
    <3>5. Others(p)
      BY <2>1, <3>3 DEF Others
    <3>6. Len(ranked'[p]) <= MaxRules
      BY <2>1 DEF HonourInv, AnswersHonoured
    <3>7. ASSUME flags[p].interactive
          PROVE  Honours(typed'[p], at'[p], ranked'[p], selected'[p]) /\ Stands(p)'
      <4>1. Honours(lines, at[p], ranked[p], selected[p])
        BY <3>7 DEF HonourInv, AnswersHonoured
      <4>2. /\ Cardinality(Deciding(lines)) = at[p] + 1
            /\ lines # <<>> /\ lines[Len(lines)] = line
        BY <2>2, <2>5, <3>7
      <4>3. lines \in Seq(Words) /\ selected[p] \in Seq(Suggestions) /\ line \in {"yes", "no"}
        BY <2>5
      <4> HIDE DEF c, lines
      <4>4. c = ranked[p][at[p] + 1]
        BY DEF c
      <4>5. Honours(lines, at[p] + 1, ranked[p], Extended(selected[p], line = "yes", c))
        BY <3>1, <3>2, <4>1, <4>2, <4>3, <4>4, HonoursNext
      <4>6. Honours(typed'[p], at'[p], ranked'[p], selected'[p])
        BY <2>1, <3>4, <4>5 DEF lines
      <4>7. Stands(p)'
        BY <2>1, <2>2, <3>4, <3>7, <4>2 DEF Stands, lines
      <4> QED
        BY <4>6, <4>7
    <3> QED
      BY <2>1, <3>5, <3>6, <3>7, OthersHonoured DEF AnswersHonoured
  <2> QED
    BY <1>6, <2>3, <2>4, <2>5 DEF HearAnswer, Report, Goto, line
<1>7. ASSUME NEW p \in Processes, Finish(p) PROVE HonourInv'
  <2>1. flags[p].interactive => p \notin reading
    BY <1>7 DEF Finish, HonourInv, Stands
  <2>2. PICK s \in {"end", "create"} : step' = [step EXCEPT ![p] = s]
    BY <1>7 DEF Finish, Report, Continue, Goto
  <2> QED
    BY <1>7, <2>1, <2>2, LeavingHonours DEF Finish, Steps, review, world
<1>8. ASSUME NEW p \in Processes,
             CreateNew(p) \/ CreateTemporary(p) \/ Write(p) \/ Sync(p) \/ Close(p) \/ Rename(p) \/ Clean(p)
      PROVE  HonourInv'
  <2>1. step[p] \in Writing
    BY <1>8 DEF CreateNew, CreateTemporary, Write, Sync, Close, Rename, Clean, Writing
  <2>2. flags[p].interactive => p \notin reading
    BY <2>1 DEF Writing, HonourInv, Stands
  <2>3. UNCHANGED <<flags, ranked, at, selected, reading, response, typed>>
    BY <1>8 DEF CreateNew, CreateTemporary, Write, Sync, Close, Rename, Clean, review, world
  <2>4. PICK s \in {"write", "sync", "close", "rename", "clean", "end"} : step' = [step EXCEPT ![p] = s]
    BY <1>8 DEF CreateNew, CreateTemporary, Write, Sync, Close, Rename, Clean, Report, Continue, Goto
  <2> QED
    BY <2>2, <2>3, <2>4, LeavingHonours DEF Steps
<1>9. ASSUME NEW p \in Processes, ReadLine(p) PROVE HonourInv'
  <2>1. /\ p \in reading /\ reading' = reading \ {p}
        /\ UNCHANGED <<flags, step, ranked, at, selected>>
    BY <1>9 DEF ReadLine
  <2>2. ASSUME NEW e \in {"eof", "error"}, response' = [response EXCEPT ![p] = <<e>>], typed' = typed
        PROVE  HonourInv'
    <3>1. Others(p)
      BY <2>1, <2>2 DEF Others
    <3>2. AnswersHonoured(p)'
      BY <2>1, <2>2 DEF AnswersHonoured, HonourInv
    <3>3. flags[p].interactive' => Stands(p)'
      <4>1. response'[p] = <<e>> /\ Head(<<e>>) = e
        BY <2>2
      <4> QED
        BY <2>1, <2>2, <4>1 DEF Stands, HonourInv
    <3> QED
      BY <3>1, <3>2, <3>3, OthersHonoured
  <2>3. ASSUME NEW w \in Words, typed' = [typed EXCEPT ![p] = Append(@, w)],
               response' = [response EXCEPT ![p] = <<w>>]
        PROVE  HonourInv'
    <3> DEFINE lines == typed[p]
    <3>1. lines \in Seq(Words) /\ at[p] \in Nat
      OBVIOUS
    <3>2. typed'[p] = Append(lines, w) /\ response'[p] = <<w>> /\ Head(<<w>>) = w
      BY <2>3
    <3>3. Others(p)
      BY <2>1, <2>3 DEF Others
    <3> HIDE DEF lines
    <3>4. ASSUME flags[p].interactive
          PROVE  Honours(typed'[p], at'[p], ranked'[p], selected'[p])
      <4>1. Honours(lines, at[p], ranked[p], selected[p])
        BY <3>4 DEF HonourInv, AnswersHonoured, lines
      <4>2. Honours(Append(lines, w), at[p], ranked[p], selected[p])
        BY <3>1, <4>1, HonoursLater
      <4> QED
        BY <2>1, <3>2, <4>2
    <3>5. ASSUME flags[p].interactive
          PROVE  Stands(p)'
      <4>1. step[p] \in {"wait", "end"}
        BY <2>1, <3>5 DEF HonourInv, Stands
      <4>2. CASE step[p] = "end"
        BY <2>1, <4>2 DEF Stands
      <4>3. CASE step[p] = "wait"
        <5>1. Cardinality(Deciding(lines)) = at[p]
          BY <2>1, <3>5, <4>3 DEF HonourInv, Stands, lines
        <5>2. Append(lines, w) # <<>> /\ Append(lines, w)[Len(Append(lines, w))] = w
          BY <3>1, LastLine
        <5>3. Cardinality(Deciding(Append(lines, w))) = IF w = "other" THEN at[p] ELSE at[p] + 1
          <6>1. /\ Deciding(lines) \in SUBSET Nat /\ IsFiniteSet(Deciding(lines))
                /\ Len(lines) + 1 \in Nat
                /\ \A i \in Deciding(lines) : i < Len(lines) + 1
            BY <3>1, DecidingType, LenProperties
          <6>2. Cardinality(Deciding(lines) \cup {Len(lines) + 1}) = at[p] + 1
            BY <5>1, <6>1, PlacesGrow
          <6> QED
            BY <3>1, <5>1, <6>2, OneMoreLine
        <5> QED
          BY <2>1, <3>2, <4>3, <5>2, <5>3 DEF Stands, Words
      <4> QED
        BY <4>1, <4>2, <4>3
    <3> QED
      BY <2>1, <3>3, <3>4, <3>5, OthersHonoured DEF AnswersHonoured, HonourInv
  <2> QED
    BY <1>9, <2>2, <2>3 DEF ReadLine
<1>10. ASSUME NEW p \in Processes, Crash(p) PROVE HonourInv'
  BY <1>10, LeavingHonours DEF Crash, Continue, Goto, Steps, world
<1>11. ASSUME UNCHANGED <<flags, step, ranked, at, selected, reading, response, typed>>
       PROVE  HonourInv'
  BY <1>11 DEF HonourInv, AnswersHonoured, Stands
<1>12. ASSUME NEW p \in Processes, Cancel(p) PROVE HonourInv'
  BY <1>11, <1>12 DEF Cancel, review
<1>13. CASE Edit
  BY <1>11, <1>13 DEF Edit, review, world
<1>14. CASE UNCHANGED vars
  BY <1>11, <1>14 DEF vars, review, world
<1> QED
  BY <1>1, <1>2, <1>3, <1>4, <1>5, <1>6, <1>7, <1>8, <1>9, <1>10, <1>12, <1>13, <1>14
  DEF Next, Run, Outside

\* An init writes only what its user asked for: the n-th candidate is accepted
\* or declined by the n-th decision typed, whatever else was typed and whatever
\* is still read after the end, and a file of an init is there only if all of
\* them were decided and one accepted (OnlyConsented).
THEOREM AlwaysConsented == Spec => []OnlyConsented
<1>1. Init => TypeInv /\ PlaceInv /\ ConsentInv /\ HonourInv
  BY InitTypeInv, InitPlace, InitConsent, InitHonour
<1>2. TypeInv /\ PlaceInv /\ ConsentInv /\ HonourInv /\ [Next]_vars
        => (TypeInv /\ PlaceInv /\ ConsentInv /\ HonourInv)'
  BY NextTypeInv, NextPlace, NextConsent, NextHonour DEF TypeInv, PlaceInv
<1>3. ConsentInv /\ HonourInv => OnlyConsented
  BY DEF ConsentInv, HonourInv, OnlyConsented
<1> QED
  BY <1>1, <1>2, <1>3, PTL DEF Spec

=============================================================================
