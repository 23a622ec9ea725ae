----------------------- MODULE ArtifactPublicationProofs -----------------------
(***************************************************************************)
(* Machine-checked proofs about ArtifactPublication, for any number of     *)
(* publishers, bundles, files, edits and faults.                           *)
(***************************************************************************)
EXTENDS ArtifactPublication, TLAPS

\* The publisher's own directory does not exist before it is staged, is private
\* from then on until the rename that publishes it, and complete once checked.
StageInv ==
  \A p \in Publishers :
    /\ step[p] \in {"inspect", "manifest", "list", "files", "stage"} => place[p] = "nowhere"
    /\ step[p] \in {"write", "check", "fresh", "backup", "move", "commit", "restore", "unbackup"}
         => place[p] = "stage"
    /\ step[p] \in {"fresh", "backup", "move", "commit", "restore", "unbackup"} => Complete(tree[p])

\* A publisher counts as committed from its rename on, and purges only then.
CommitInv ==
  \A p \in Publishers :
    /\ p \in committed => step[p] \in {"purge", "return", "done", "crashed"}
    /\ step[p] = "purge" => p \in committed

\* Whatever is kept is whole; the clause about the destination alone is not
\* inductive, for Restore brings back what a backup holds.
KeptInv == \A d \in Dirs : Kept(d) => Complete(tree[d]) \/ d \in touched

\* Something is kept while an output is owed.
OwedInv == owed => \E d \in Dirs : Kept(d)

SafetyInv == TypeOK /\ StageInv /\ CommitInv /\ KeptInv /\ OwedInv

-----------------------------------------------------------------------------
\* The bundle of an inventory is a tree, and not the empty one: a manifest is
\* always there (publish.go:90).
LEMMA BundleTreeType ==
  ASSUME NEW b \in Bundles
  PROVE  BundleTree(b) \in Trees /\ BundleTree(b) # Nothing
<1>1. Manifest \in Files /\ Manifest \in Names
  BY DEF Files, Names
<1>2. BundleTree(b)[Manifest] = b /\ Nothing[Manifest] = None
  BY <1>1 DEF BundleTree, Nothing
<1>3. b # None
  BY PublicationAssumption
<1>4. BundleTree(b) \in Trees
  BY DEF BundleTree, Trees
<1>5. QED
  BY <1>2, <1>3, <1>4

\* The initial predicate gives every variable a value of its kind.
LEMMA InitType == Init => TypeOK
<1> SUFFICES ASSUME Init PROVE TypeOK
  OBVIOUS
<1>1. Nothing \in Trees /\ \A b \in Bundles : BundleTree(b) \in Trees
  BY BundleTreeType DEF Nothing, Trees
<1>2. \A t \in Trees : [t EXCEPT ![Extra] = User] \in Trees
  BY DEF Trees
<1>3. \A d \in Dirs, t \in Trees : Only(d, t) \in [Dirs -> Trees]
  BY <1>1 DEF Only
<1>4. Existing \in Dirs
  BY DEF Dirs
<1>5. tree \in [Dirs -> Trees]
  <2>1. CASE tree = [d \in Dirs |-> Nothing]
    BY <1>1, <2>1
  <2>2. CASE \E b \in Bundles :
               tree \in {Only(Existing, BundleTree(b)),
                         Only(Existing, [BundleTree(b) EXCEPT ![Extra] = User]),
                         Only(Existing, [Nothing EXCEPT ![Extra] = User])}
    BY <1>1, <1>2, <1>3, <1>4, <2>2
  <2>3. QED
    BY <2>1, <2>2 DEF Init
<1>6. place \in [Dirs -> Places]
  BY DEF Init, Places
<1>7. touched \subseteq Dirs /\ owed \in BOOLEAN
  BY <1>4 DEF Init
<1>8. QED
  BY <1>5, <1>6, <1>7, PublicationAssumption DEF Init, TypeOK, Steps, Outcomes

\* A rename to the destination leaves every directory at a place.
LEMMA RenameType ==
  ASSUME TypeOK, NEW d \in Dirs, RenameToDest(d)
  PROVE  /\ place' \in [Dirs -> Places]
         /\ dirtySeen' \in [Publishers -> Dirs \cup {None}]
<1>1. place' \in [Dirs -> Places]
  BY DEF TypeOK, RenameToDest, Places
<1>2. dirtySeen' \in [Publishers -> Dirs \cup {None}]
  BY DEF TypeOK, RenameToDest
<1>3. QED
  BY <1>1, <1>2

\* Every operation of a publisher, and every action of the user, keeps the
\* kinds of values.
LEMMA NextType == TypeOK /\ [Next]_vars => TypeOK'
<1> SUFFICES ASSUME TypeOK, [Next]_vars PROVE TypeOK'
  OBVIOUS
<1> USE DEF TypeOK, disk, locals, history, Goto, Return, Refused, Steps, Outcomes
<1>a. Publishers \subseteq Dirs /\ Existing \in Dirs /\ None \notin Dirs
  BY PublicationAssumption DEF Dirs
<1>b. Publishers \subseteq Places /\ {"nowhere", "stage", "dest"} \subseteq Places
  BY DEF Places
<1>c. Fault => faults' \in 0..MaxFaults
  BY PublicationAssumption DEF Fault
<1>d. Edit => edits' \in 0..MaxEdits
  BY PublicationAssumption DEF Edit
<1>0. \A d \in Dirs, n \in Names, c \in Bundles \cup {User, None} :
        [tree EXCEPT ![d][n] = c] \in [Dirs -> Trees]
  <2>1. \A t \in Trees, n \in Names, c \in Bundles \cup {User, None} : [t EXCEPT ![n] = c] \in Trees
    BY DEF Trees
  <2>2. QED
    BY <2>1
<1>1. Nothing \in Trees
  BY DEF Nothing, Trees
<1>2. Files \subseteq Names
  BY DEF Names
<1>3. ASSUME NEW p \in Publishers, Inspect(p) PROVE TypeOK'
  BY <1>a, <1>b, <1>3, <1>c DEF Inspect
<1>4. ASSUME NEW p \in Publishers, ReadManifest(p) PROVE TypeOK'
  BY <1>4, <1>c DEF ReadManifest, HasInventory, Contents
<1>5. ASSUME NEW p \in Publishers, ListFiles(p) PROVE TypeOK'
  BY <1>a, <1>b, <1>5, <1>c DEF ListFiles
<1>6. ASSUME NEW p \in Publishers, VerifyFile(p) PROVE TypeOK'
  BY <1>6, <1>c DEF VerifyFile
<1>7. ASSUME NEW p \in Publishers, CreateStage(p) PROVE TypeOK'
  BY <1>a, <1>b, <1>7, <1>c DEF CreateStage
<1>8. ASSUME NEW p \in Publishers, WriteStage(p) PROVE TypeOK'
  <2>1. tree' \in [Dirs -> Trees]
    BY <1>0, <1>2, <1>a, <1>8, PublicationAssumption DEF WriteStage
  <2>2. QED
    BY <1>8, <1>c, <2>1 DEF WriteStage
<1>9. ASSUME NEW p \in Publishers, CheckStage(p) PROVE TypeOK'
  BY <1>9, <1>c DEF CheckStage, Decide
<1>10. ASSUME NEW p \in Publishers, PublishFresh(p) PROVE TypeOK'
  <2>1. RenameToDest(p) => place' \in [Dirs -> Places] /\ dirtySeen' \in [Publishers -> Dirs \cup {None}]
    BY <1>a, RenameType
  <2>2. QED
    BY <1>10, <2>1, <1>c DEF PublishFresh
<1>11. ASSUME NEW p \in Publishers, CreateBackup(p) PROVE TypeOK'
  BY <1>11, <1>c DEF CreateBackup
<1>12. ASSUME NEW p \in Publishers, MovePrevious(p) PROVE TypeOK'
  BY <1>a, <1>b, <1>12, <1>c DEF MovePrevious
<1>13. ASSUME NEW p \in Publishers, Commit(p) PROVE TypeOK'
  <2>1. RenameToDest(p) => place' \in [Dirs -> Places] /\ dirtySeen' \in [Publishers -> Dirs \cup {None}]
    BY <1>a, RenameType
  <2>2. QED
    BY <1>13, <2>1, <1>a, <1>c DEF Commit
<1>14. ASSUME NEW p \in Publishers, Restore(p) PROVE TypeOK'
  <2>1. \A d \in Dirs : RenameToDest(d) =>
          place' \in [Dirs -> Places] /\ dirtySeen' \in [Publishers -> Dirs \cup {None}]
    BY RenameType
  <2>2. QED
    BY <1>14, <2>1, <1>c DEF Restore
<1>15. ASSUME NEW p \in Publishers, Purge(p) PROVE TypeOK'
  <2>1. tree' \in [Dirs -> Trees]
    <3>1. ASSUME NEW d \in Dirs, NEW n \in Names, tree' = [tree EXCEPT ![d][n] = None]
          PROVE  tree' \in [Dirs -> Trees]
      BY <1>0, <3>1
    <3>2. QED
      BY <1>15, <3>1 DEF Purge
  <2>2. place' \in [Dirs -> Places]
    BY <1>b, <1>15 DEF Purge
  <2>3. QED
    BY <1>15, <2>1, <2>2, <1>c DEF Purge
<1>16. ASSUME NEW p \in Publishers, RemoveStage(p) PROVE TypeOK'
  BY <1>1, <1>a, <1>b, <1>16, <1>c DEF RemoveStage
<1>16b. ASSUME NEW p \in Publishers, RemoveBackup(p) PROVE TypeOK'
  BY <1>16b, <1>c DEF RemoveBackup
<1>17. ASSUME NEW p \in Publishers, Crash(p) PROVE TypeOK'
  BY <1>17, <1>c DEF Crash
<1>18. CASE UserWrites
  <2>1. PICK d \in Dirs, n \in Names :
          tree' = [tree EXCEPT ![d][n] = User] /\ touched' = touched \cup {d}
    BY <1>18 DEF UserWrites
  <2>2. QED
    BY <1>0, <1>18, <1>d, <2>1 DEF UserWrites
<1>19. CASE UserRemoves
  <2>1. tree' \in [Dirs -> Trees] /\ place' \in [Dirs -> Places]
    BY <1>1, <1>b, <1>19 DEF UserRemoves
  <2>2. dirtySeen' \in [Publishers -> Dirs \cup {None}]
    BY <1>19 DEF UserRemoves
  <2>3. QED
    BY <1>19, <2>1, <2>2, <1>d DEF UserRemoves
<1>20. CASE UserCreates
  BY <1>a, <1>b, <1>20, <1>d DEF UserCreates
<1>21. CASE UNCHANGED vars
  BY <1>21 DEF vars
<1>22. QED
  BY <1>3, <1>4, <1>5, <1>6, <1>7, <1>8, <1>9, <1>10, <1>11, <1>12, <1>13, <1>14, <1>15,
     <1>16, <1>16b, <1>17, <1>18, <1>19, <1>20, <1>21 DEF Next, Publisher

\* Every variable always holds a value of its kind, for any constants: no
\* publisher ends in a step or with an answer the code does not have.
THEOREM TypeCorrect == Spec => []TypeOK
<1>1. QED
  BY InitType, NextType, PTL DEF Spec

-----------------------------------------------------------------------------
(* The safety invariant.                                                   *)

\* A rename to the destination moves the renamed directory there, and of the
\* others only an empty one it replaces.
LEMMA RenameEffect ==
  ASSUME TypeOK, NEW d \in Dirs, RenameToDest(d)
  PROVE  /\ place'[d] = "dest"
         /\ \A e \in Dirs : e # d =>
              place'[e] = place[e] \/ (AtDest(e) /\ tree[e] = Nothing /\ place'[e] = "nowhere")
BY DEF RenameToDest, CanRenameToDest, TypeOK, AtDest

\* Staged directories stay private and, once checked, complete; the committed
\* publishers are past their rename.
LEMMA StageStep == TypeOK /\ StageInv /\ CommitInv /\ [Next]_vars => StageInv' /\ CommitInv'
<1> SUFFICES ASSUME TypeOK, StageInv, CommitInv, [Next]_vars PROVE StageInv' /\ CommitInv'
  OBVIOUS
<1> USE DEF StageInv, CommitInv, TypeOK, disk, locals, history, Goto, Return, Steps, AtDest
<1>a. Publishers \subseteq Dirs /\ Existing \in Dirs
  BY DEF Dirs
<1>b. \A p \in Publishers : p \notin {"nowhere", "stage", "dest"}
  BY PublicationAssumption
<1>1. ASSUME NEW p \in Publishers, Inspect(p) PROVE StageInv' /\ CommitInv'
  BY <1>a, <1>b, <1>1 DEF Inspect
<1>2. ASSUME NEW p \in Publishers, ReadManifest(p) PROVE StageInv' /\ CommitInv'
  BY <1>a, <1>b, <1>2 DEF ReadManifest
<1>3. ASSUME NEW p \in Publishers, ListFiles(p) PROVE StageInv' /\ CommitInv'
  BY <1>a, <1>b, <1>3 DEF ListFiles
<1>4. ASSUME NEW p \in Publishers, VerifyFile(p) PROVE StageInv' /\ CommitInv'
  BY <1>a, <1>b, <1>4 DEF VerifyFile
<1>5. ASSUME NEW p \in Publishers, CreateStage(p) PROVE StageInv' /\ CommitInv'
  BY <1>a, <1>b, <1>5 DEF CreateStage
<1>6. ASSUME NEW p \in Publishers, WriteStage(p) PROVE StageInv' /\ CommitInv'
  BY <1>a, <1>b, <1>6 DEF WriteStage
<1>7. ASSUME NEW p \in Publishers, CheckStage(p) PROVE StageInv' /\ CommitInv'
  BY <1>a, <1>b, <1>7 DEF CheckStage, Decide
<1>8. ASSUME NEW p \in Publishers, PublishFresh(p) PROVE StageInv' /\ CommitInv'
  <2>1. RenameToDest(p) => \A q \in Publishers :
          q # p /\ place[q] \in {"nowhere", "stage"} => place'[q] = place[q]
    BY <1>a, RenameEffect
  <2>2. QED
    BY <1>8, <2>1, <1>a DEF PublishFresh
<1>9. ASSUME NEW p \in Publishers, CreateBackup(p) PROVE StageInv' /\ CommitInv'
  BY <1>a, <1>b, <1>9 DEF CreateBackup
<1>10. ASSUME NEW p \in Publishers, MovePrevious(p) PROVE StageInv' /\ CommitInv'
  BY <1>a, <1>b, <1>10 DEF MovePrevious
<1>11. ASSUME NEW p \in Publishers, Commit(p) PROVE StageInv' /\ CommitInv'
  <2>1. RenameToDest(p) => \A q \in Publishers :
          q # p /\ place[q] \in {"nowhere", "stage"} => place'[q] = place[q]
    BY <1>a, RenameEffect
  <2>2. QED
    BY <1>11, <2>1, <1>a DEF Commit
<1>12. ASSUME NEW p \in Publishers, Restore(p) PROVE StageInv' /\ CommitInv'
  <2>1. \A d \in Dirs : place[d] = p /\ RenameToDest(d) =>
          \A q \in Publishers : place[q] \in {"nowhere", "stage"} => place'[q] = place[q]
    BY <1>a, <1>b, RenameEffect
  <2>2. QED
    BY <1>12, <2>1, <1>a DEF Restore
<1>13. ASSUME NEW p \in Publishers, Purge(p) PROVE StageInv' /\ CommitInv'
  BY <1>a, <1>b, <1>13 DEF Purge
<1>14. ASSUME NEW p \in Publishers, RemoveStage(p) PROVE StageInv' /\ CommitInv'
  BY <1>a, <1>b, <1>14 DEF RemoveStage
<1>14b. ASSUME NEW p \in Publishers, RemoveBackup(p) PROVE StageInv' /\ CommitInv'
  BY <1>a, <1>b, <1>14b DEF RemoveBackup
<1>15. ASSUME NEW p \in Publishers, Crash(p) PROVE StageInv' /\ CommitInv'
  BY <1>a, <1>b, <1>15 DEF Crash
<1>16. CASE UserWrites
  BY <1>a, <1>16 DEF UserWrites
<1>17. CASE UserRemoves
  BY <1>a, <1>17 DEF UserRemoves
<1>18. CASE UserCreates
  BY <1>a, <1>18, PublicationAssumption DEF UserCreates
<1>19. CASE UNCHANGED vars
  BY <1>19 DEF vars, Complete
<1>20. QED
  BY <1>1, <1>2, <1>3, <1>4, <1>5, <1>6, <1>7, <1>8, <1>9, <1>10, <1>11, <1>12, <1>13, <1>14, <1>14b, <1>15, <1>16, <1>17, <1>18, <1>19 DEF Next, Publisher

\* What is kept stays whole: only a purge deletes files, in a backup that is
\* no longer kept, and what Commit and Restore rename is whole.
LEMMA KeptStep ==
  TypeOK /\ StageInv /\ CommitInv /\ KeptInv /\ [Next]_vars => KeptInv'
<1> SUFFICES ASSUME TypeOK, StageInv, CommitInv, KeptInv, [Next]_vars,
                    NEW d \in Dirs, Kept(d)'
             PROVE  (Complete(tree[d]) \/ d \in touched)'
  BY DEF KeptInv
<1> DEFINE Whole == Complete(tree[d]) \/ d \in touched
<1> USE DEF StageInv, CommitInv, KeptInv, TypeOK, Kept, AtDest, disk, locals, history, Goto, Return
<1>a. Publishers \subseteq Dirs /\ Existing \in Dirs
  BY DEF Dirs
<1>b. \A p \in Publishers : p \notin {"nowhere", "stage", "dest"}
  BY PublicationAssumption
<1>1. ASSUME NEW p \in Publishers, Inspect(p) PROVE Whole'
  BY <1>a, <1>b, <1>1 DEF Inspect
<1>2. ASSUME NEW p \in Publishers, ReadManifest(p) PROVE Whole'
  BY <1>a, <1>b, <1>2 DEF ReadManifest
<1>3. ASSUME NEW p \in Publishers, ListFiles(p) PROVE Whole'
  BY <1>a, <1>b, <1>3 DEF ListFiles
<1>4. ASSUME NEW p \in Publishers, VerifyFile(p) PROVE Whole'
  BY <1>a, <1>b, <1>4 DEF VerifyFile
<1>5. ASSUME NEW p \in Publishers, CreateStage(p) PROVE Whole'
  BY <1>a, <1>b, <1>5 DEF CreateStage
<1>6. ASSUME NEW p \in Publishers, WriteStage(p) PROVE Whole'
  BY <1>a, <1>b, <1>6 DEF WriteStage
<1>7. ASSUME NEW p \in Publishers, CheckStage(p) PROVE Whole'
  BY <1>a, <1>b, <1>7 DEF CheckStage, Decide
<1>8. ASSUME NEW p \in Publishers, PublishFresh(p) PROVE Whole'
  <2>1. CASE ~RenameToDest(p)
    BY <1>a, <1>b, <1>8, <2>1 DEF PublishFresh
  <2>2. CASE RenameToDest(p) /\ d = p
    BY <1>a, <1>8, <2>2 DEF PublishFresh
  <2>3. CASE RenameToDest(p) /\ d # p
    <3>1. place'[d] = place[d] \/ place'[d] = "nowhere"
      BY <1>a, <2>3, RenameEffect
    <3>2. QED
      BY <1>a, <1>b, <1>8, <3>1 DEF PublishFresh
  <2>4. QED
    BY <2>1, <2>2, <2>3
<1>9. ASSUME NEW p \in Publishers, CreateBackup(p) PROVE Whole'
  BY <1>a, <1>b, <1>9 DEF CreateBackup
<1>10. ASSUME NEW p \in Publishers, MovePrevious(p) PROVE Whole'
  BY <1>a, <1>b, <1>10 DEF MovePrevious
<1>11. ASSUME NEW p \in Publishers, Commit(p) PROVE Whole'
  <2>1. CASE ~RenameToDest(p)
    BY <1>a, <1>b, <1>11, <2>1 DEF Commit
  <2>2. CASE RenameToDest(p) /\ d = p
    BY <1>a, <1>11, <2>2 DEF Commit
  <2>3. CASE RenameToDest(p) /\ d # p
    <3>1. place'[d] = place[d] \/ place'[d] = "nowhere"
      BY <1>a, <2>3, RenameEffect
    <3>2. QED
      BY <1>a, <1>b, <1>11, <3>1 DEF Commit
  <2>4. QED
    BY <2>1, <2>2, <2>3
<1>12. ASSUME NEW p \in Publishers, Restore(p) PROVE Whole'
  <2>1. CASE UNCHANGED place
    BY <1>a, <1>b, <1>12, <2>1 DEF Restore
  <2>2. ASSUME NEW e \in Dirs, place[e] = p, RenameToDest(e) PROVE Whole'
    <3>1. CASE d = e
      BY <1>a, <1>b, <1>12, <2>2, <3>1 DEF Restore
    <3>2. CASE d # e
      <4>1. place'[d] = place[d] \/ place'[d] = "nowhere"
        BY <2>2, <3>2, RenameEffect
      <4>2. QED
        BY <1>a, <1>b, <1>12, <4>1 DEF Restore
    <3>3. QED
      BY <3>1, <3>2
  <2>3. QED
    BY <1>12, <2>1, <2>2 DEF Restore
<1>13. ASSUME NEW p \in Publishers, Purge(p) PROVE Whole'
  BY <1>a, <1>b, <1>13 DEF Purge
<1>14. ASSUME NEW p \in Publishers, RemoveStage(p) PROVE Whole'
  BY <1>a, <1>b, <1>14 DEF RemoveStage
<1>14b. ASSUME NEW p \in Publishers, RemoveBackup(p) PROVE Whole'
  BY <1>a, <1>b, <1>14b DEF RemoveBackup
<1>15. ASSUME NEW p \in Publishers, Crash(p) PROVE Whole'
  BY <1>a, <1>b, <1>15 DEF Crash
<1>16. CASE UserWrites
  BY <1>a, <1>b, <1>16 DEF UserWrites
<1>17. CASE UserRemoves
  BY <1>a, <1>b, <1>17 DEF UserRemoves
<1>18. CASE UserCreates
  BY <1>a, <1>b, <1>18 DEF UserCreates
<1>19. CASE UNCHANGED vars
  BY <1>19 DEF vars, Complete
<1>20. QED
  BY <1>1, <1>2, <1>3, <1>4, <1>5, <1>6, <1>7, <1>8, <1>9, <1>10, <1>11, <1>12, <1>13, <1>14, <1>14b, <1>15, <1>16, <1>17, <1>18, <1>19 DEF Next, Publisher

\* The last output is never lost: what one publisher gives up it has replaced
\* at the destination, and what it has not replaced it keeps.
LEMMA OwedStep ==
  TypeOK /\ StageInv /\ CommitInv /\ OwedInv /\ [Next]_vars => OwedInv'
<1> SUFFICES ASSUME TypeOK, StageInv, CommitInv, OwedInv, [Next]_vars, owed'
             PROVE  \E d \in Dirs : Kept(d)'
  BY DEF OwedInv
<1> DEFINE Goal == \E d \in Dirs : Kept(d)'
<1> USE DEF StageInv, CommitInv, OwedInv, TypeOK, disk, locals, history, Goto, Return
<1>a. Publishers \subseteq Dirs /\ Existing \in Dirs
  BY DEF Dirs
<1>b. \A p \in Publishers : p \notin {"nowhere", "stage", "dest"}
  BY PublicationAssumption
<1>1. ASSUME NEW p \in Publishers, Inspect(p) PROVE Goal
  BY <1>a, <1>b, <1>1 DEF Inspect, Kept, AtDest
<1>2. ASSUME NEW p \in Publishers, ReadManifest(p) PROVE Goal
  BY <1>a, <1>b, <1>2 DEF ReadManifest, Kept, AtDest
<1>3. ASSUME NEW p \in Publishers, ListFiles(p) PROVE Goal
  BY <1>a, <1>b, <1>3 DEF ListFiles, Kept, AtDest
<1>4. ASSUME NEW p \in Publishers, VerifyFile(p) PROVE Goal
  BY <1>a, <1>b, <1>4 DEF VerifyFile, Kept, AtDest
<1>5. ASSUME NEW p \in Publishers, CreateStage(p) PROVE Goal
  BY <1>a, <1>b, <1>5 DEF CreateStage, Kept, AtDest
<1>6. ASSUME NEW p \in Publishers, WriteStage(p) PROVE Goal
  BY <1>a, <1>b, <1>6 DEF WriteStage, Kept, AtDest
<1>7. ASSUME NEW p \in Publishers, CheckStage(p) PROVE Goal
  BY <1>a, <1>b, <1>7 DEF CheckStage, Decide, Kept, AtDest
<1>8. ASSUME NEW p \in Publishers, PublishFresh(p) PROVE Goal
  <2>1. CASE RenameToDest(p)
    BY <1>a, <2>1, RenameEffect DEF Kept, AtDest
  <2>2. CASE ~RenameToDest(p)
    BY <1>a, <1>b, <1>8, <2>2 DEF PublishFresh, Kept, AtDest
  <2>3. QED
    BY <2>1, <2>2
<1>9. ASSUME NEW p \in Publishers, CreateBackup(p) PROVE Goal
  BY <1>a, <1>b, <1>9 DEF CreateBackup, Kept, AtDest
<1>10. ASSUME NEW p \in Publishers, MovePrevious(p) PROVE Goal
  BY <1>a, <1>b, <1>10 DEF MovePrevious, Kept, AtDest
<1>11. ASSUME NEW p \in Publishers, Commit(p) PROVE Goal
  <2>1. CASE RenameToDest(p)
    BY <1>a, <2>1, RenameEffect DEF Kept, AtDest
  <2>2. CASE ~RenameToDest(p)
    BY <1>a, <1>b, <1>11, <2>2 DEF Commit, Kept, AtDest
  <2>3. QED
    BY <2>1, <2>2
<1>12. ASSUME NEW p \in Publishers, Restore(p) PROVE Goal
  <2>1. ASSUME NEW e \in Dirs, RenameToDest(e) PROVE Goal
    BY <2>1, RenameEffect DEF Kept, AtDest
  <2>2. CASE UNCHANGED <<place, owed, committed>>
    BY <2>2 DEF Kept, AtDest
  <2>3. QED
    BY <1>12, <2>1, <2>2 DEF Restore
<1>13. ASSUME NEW p \in Publishers, Purge(p) PROVE Goal
  BY <1>a, <1>b, <1>13 DEF Purge, Kept, AtDest
<1>14. ASSUME NEW p \in Publishers, RemoveStage(p) PROVE Goal
  BY <1>a, <1>b, <1>14 DEF RemoveStage, Kept, AtDest
<1>14b. ASSUME NEW p \in Publishers, RemoveBackup(p) PROVE Goal
  BY <1>a, <1>b, <1>14b DEF RemoveBackup, Kept, AtDest
<1>15. ASSUME NEW p \in Publishers, Crash(p) PROVE Goal
  BY <1>a, <1>b, <1>15 DEF Crash, Kept, AtDest
<1>16. CASE UserWrites
  BY <1>a, <1>b, <1>16 DEF UserWrites, Kept, AtDest
<1>17. CASE UserRemoves
  BY <1>a, <1>b, <1>17 DEF UserRemoves, Kept, AtDest
<1>18. CASE UserCreates
  BY <1>a, <1>b, <1>18 DEF UserCreates, Kept, AtDest
<1>19. CASE UNCHANGED vars
  BY <1>19 DEF vars, Kept, AtDest
<1>20. QED
  BY <1>1, <1>2, <1>3, <1>4, <1>5, <1>6, <1>7, <1>8, <1>9, <1>10, <1>11, <1>12, <1>13, <1>14, <1>14b, <1>15, <1>16, <1>17, <1>18, <1>19 DEF Next, Publisher

\* The initial states: nothing is staged, and what is at the destination is a
\* bundle or the user's.
LEMMA InitSafety == Init => SafetyInv
<1> SUFFICES ASSUME Init PROVE SafetyInv
  OBVIOUS
<1>1. TypeOK
  BY InitType
<1>2. StageInv /\ CommitInv
  BY PublicationAssumption DEF Init, StageInv, CommitInv, Dirs
<1>3. KeptInv
  <2> SUFFICES ASSUME NEW d \in Dirs, Kept(d) PROVE Complete(tree[d]) \/ d \in touched
    BY DEF KeptInv
  <2>1. d = Existing /\ place[Existing] = "dest"
    BY PublicationAssumption DEF Init, Kept, AtDest
  <2>2. Existing \in touched \/ \E b \in Bundles : tree = Only(Existing, BundleTree(b))
    BY <2>1, PublicationAssumption DEF Init, Dirs
  <2>3. QED
    BY <2>1, <2>2 DEF Complete, Only
<1>4. OwedInv
  BY DEF Init, OwedInv, Kept, AtDest, Dirs
<1>5. QED
  BY <1>1, <1>2, <1>3, <1>4 DEF SafetyInv

\* The invariant holds of every reachable state.
THEOREM Safety == Spec => []SafetyInv
<1>1. SafetyInv /\ [Next]_vars => SafetyInv'
  BY NextType, StageStep, KeptStep, OwedStep DEF SafetyInv
<1>2. QED
  BY InitSafety, <1>1, PTL DEF Spec

\* However many publishers run, fail and are killed in the middle, what is at
\* the destination is a complete bundle unless the user touched it.
THEOREM DestinationAlwaysWhole == Spec => []DestinationWhole
<1>1. SafetyInv => DestinationWhole
  BY DEF SafetyInv, KeptInv, DestinationWhole, Kept
<1>2. QED
  BY Safety, <1>1, PTL

\* However many publishers run, fail and are killed in the middle, an output
\* that was there is kept whole somewhere.
THEOREM OutputAlwaysSurvives == Spec => []OutputSurvives
<1>1. SafetyInv => OutputSurvives
  BY DEF SafetyInv, KeptInv, OwedInv, OutputSurvives
<1>2. QED
  BY Safety, <1>1, PTL

-----------------------------------------------------------------------------
(* Who may take an output away.                                            *)

\* A publisher about to move the destination was started with --clean and has
\* read an inventory that is not its own.
CleanInv ==
  \A p \in Publishers :
    step[p] \in {"backup", "move"} => p \in Clean /\ previous[p] \notin {None, Want[p]}

LEMMA CleanStep == TypeOK /\ CleanInv /\ [Next]_vars => CleanInv'
<1> SUFFICES ASSUME TypeOK, CleanInv, [Next]_vars,
                    NEW q \in Publishers, step'[q] \in {"backup", "move"}
             PROVE  q \in Clean /\ previous'[q] \notin {None, Want[q]}
  BY DEF CleanInv
<1> USE DEF TypeOK
<1>1. CASE step' = step /\ previous' = previous
  BY <1>1 DEF CleanInv
<1>2. ASSUME NEW p \in Publishers, CheckStage(p)
      PROVE  q \in Clean /\ previous'[q] \notin {None, Want[q]}
  BY <1>2 DEF CheckStage, Decide, Goto, Return, CleanInv, locals
<1>3. ASSUME NEW p \in Publishers, CreateBackup(p)
      PROVE  q \in Clean /\ previous'[q] \notin {None, Want[q]}
  BY <1>3 DEF CreateBackup, Goto, Return, CleanInv, locals
<1>4. ASSUME NEW p \in Publishers, ReadManifest(p)
      PROVE  q \in Clean /\ previous'[q] \notin {None, Want[q]}
  BY <1>4 DEF ReadManifest, Goto, Return, CleanInv
<1>5. ASSUME NEW p \in Publishers,
             \/ Inspect(p) \/ ListFiles(p) \/ VerifyFile(p) \/ CreateStage(p) \/ WriteStage(p)
             \/ PublishFresh(p) \/ MovePrevious(p) \/ Commit(p) \/ Restore(p)
             \/ RemoveBackup(p) \/ Purge(p) \/ RemoveStage(p) \/ Crash(p)
      PROVE  q \in Clean /\ previous'[q] \notin {None, Want[q]}
  <2>1. previous' = previous
    BY <1>5 DEF Inspect, ListFiles, VerifyFile, CreateStage, WriteStage, PublishFresh,
                MovePrevious, Commit, Restore, RemoveBackup, Purge, RemoveStage, Crash, locals
  <2>2. step'[q] = step[q]
    BY <1>5 DEF Inspect, ListFiles, VerifyFile, CreateStage, WriteStage, PublishFresh,
                MovePrevious, Commit, Restore, RemoveBackup, Purge, RemoveStage, Crash, Goto, Return
  <2>3. QED
    BY <2>1, <2>2 DEF CleanInv
<1>6. CASE UserWrites \/ UserRemoves \/ UserCreates \/ UNCHANGED vars
  BY <1>1, <1>6 DEF UserWrites, UserRemoves, UserCreates, vars, locals
<1>7. QED
  BY <1>2, <1>3, <1>4, <1>5, <1>6 DEF Next, Publisher

\* A step that moves no directory away from the destination.
LEMMA RenameKeeps ==
  ASSUME TypeOK, NEW d \in Dirs, AtDest(d), tree[d] # Nothing, NEW e \in Dirs, RenameToDest(e)
  PROVE  place'[d] = "dest"
  BY DEF RenameToDest, CanRenameToDest, TypeOK

\* Only the user and MovePrevious take away what is at the destination, unless
\* it has no files: a rename replaces nothing else, and what is staged, purged
\* or cleaned up is not there.
LEMMA OnlyMoveTakes ==
  ASSUME SafetyInv, CleanInv, [Next]_vars,
         NEW d \in Dirs, AtDest(d), tree[d] # Nothing, place'[d] # "dest", edits' = edits
  PROVE  \E p \in Clean : place'[d] = p /\ previous[p] \notin {None, Want[p]}
<1> DEFINE Taken == \E p \in Clean : place'[d] = p /\ previous[p] \notin {None, Want[p]}
<1> USE DEF SafetyInv, TypeOK
<1>a. place[d] = "dest" /\ place' # place
  BY DEF AtDest
<1>b. \A p \in Publishers : p # "dest" /\ p \in Dirs
  BY PublicationAssumption DEF Dirs
<1>1. ASSUME NEW p \in Publishers, MovePrevious(p) PROVE Taken
  <2>1. step[p] = "move" /\ place'[d] = p
    BY <1>a, <1>1 DEF MovePrevious
  <2> QED
    BY <2>1 DEF CleanInv
<1>2. ASSUME NEW p \in Publishers, CreateStage(p) PROVE FALSE
  <2>1. place[p] = "nowhere"
    BY <1>2 DEF CreateStage, StageInv
  <2> QED
    BY <1>a, <1>b, <1>2, <2>1 DEF CreateStage
<1>3. ASSUME NEW p \in Publishers, Purge(p) \/ RemoveStage(p) PROVE FALSE
  BY <1>a, <1>b, <1>3 DEF Purge, RemoveStage
<1>4. ASSUME NEW p \in Publishers, PublishFresh(p) \/ Commit(p) \/ Restore(p) PROVE FALSE
  <2>1. \E e \in Dirs : RenameToDest(e)
    BY <1>a, <1>b, <1>4 DEF PublishFresh, Commit, Restore
  <2> QED
    BY <2>1, RenameKeeps
<1>5. ASSUME NEW p \in Publishers,
             \/ Inspect(p) \/ ReadManifest(p) \/ ListFiles(p) \/ VerifyFile(p) \/ WriteStage(p)
             \/ CheckStage(p) \/ CreateBackup(p) \/ RemoveBackup(p) \/ Crash(p)
      PROVE  FALSE
  BY <1>a, <1>5 DEF Inspect, ReadManifest, ListFiles, VerifyFile, WriteStage, CheckStage,
                    CreateBackup, RemoveBackup, Crash, disk
<1>6. CASE UserWrites \/ UserRemoves \/ UserCreates \/ UNCHANGED vars
  BY <1>a, <1>6 DEF UserWrites, UserRemoves, UserCreates, Edit, vars, disk
<1>7. QED
  BY <1>1, <1>2, <1>3, <1>4, <1>5, <1>6 DEF Next, Publisher

\* However many publishers with and without --clean run, fail and are killed,
\* an output that has files is taken away by the user, or by a publisher with
\* --clean that read another inventory than its own, and by nobody else.
THEOREM OnlyCleanReplaced == Spec => OnlyCleanReplaces
<1>1. Init => CleanInv
  BY DEF Init, CleanInv
<1>2. CleanInv /\ SafetyInv /\ [Next]_vars => CleanInv'
  BY CleanStep DEF SafetyInv
<1>3. SafetyInv /\ CleanInv /\ [Next]_vars =>
        [\A d \in Dirs : AtDest(d) /\ tree[d] # Nothing /\ place'[d] # "dest" =>
           \/ edits' # edits
           \/ \E p \in Clean : place'[d] = p /\ previous[p] \notin {None, Want[p]}]_vars
  BY OnlyMoveTakes
<1>4. QED
  BY Safety, <1>1, <1>2, <1>3, PTL DEF Spec, OnlyCleanReplaces

-----------------------------------------------------------------------------
(* What a publisher answers is what it did.                                *)

\* There is one directory at the destination and one in each backup, at most.
UniqueInv ==
  \A d, e \in Dirs : place[d] = place[e] /\ place[d] \in Publishers \cup {"dest"} => d = e

\* A publisher answers when it returns and not before.
PendingInv ==
  \A p \in Publishers :
    /\ step[p] \notin {"return", "done", "crashed"} => outcome[p] = "pending"
    /\ step[p] \in {"return", "done"} => outcome[p] # "pending"

\* A directory is in the backup of a publisher from its MovePrevious until its
\* Restore or Purge, and after that only when the answer says so.
HolderInv ==
  \A d \in Dirs : place[d] \in Publishers =>
    \/ step[place[d]] \in {"commit", "restore", "purge", "crashed"}
    \/ step[place[d]] \in {"return", "done"} /\ outcome[place[d]] \in {"retained", "leftover"}

\* So is the backup itself, from CreateBackup until RemoveBackup or Purge.
BackupInv ==
  \A p \in backups :
    \/ step[p] \in {"move", "commit", "restore", "unbackup", "purge", "crashed"}
    \/ step[p] \in {"return", "done"} /\ outcome[p] \in {"retained", "leftover", "littered"}

\* The answers that claim a publication are those of the committed publishers.
ClaimInv ==
  \A p \in Publishers :
    step[p] \in {"return", "done"} =>
      (outcome[p] \in {"published", "leftover"} <=> p \in committed)

\* A staging directory survives its publisher only by a fault.
LitterInv == \A p \in Publishers : step[p] = "done" /\ place[p] = "stage" => faults > 0

AnswerInv == UniqueInv /\ PendingInv /\ HolderInv /\ BackupInv /\ ClaimInv /\ LitterInv


\* A rename frees the place it takes: at the destination the directory that was
\* there, empty, is replaced, and a backup is new.
LEMMA UniqueStep ==
  TypeOK /\ StageInv /\ UniqueInv /\ HolderInv /\ [Next]_vars => UniqueInv'
<1> SUFFICES ASSUME TypeOK, StageInv, UniqueInv, HolderInv, [Next]_vars PROVE UniqueInv'
  OBVIOUS
<1> USE DEF TypeOK, StageInv, disk, locals, history, Goto, Return, Refused, AtDest, UniqueInv
<1>a. Publishers \subseteq Dirs /\ Existing \in Dirs
  BY DEF Dirs
<1>b. \A p \in Publishers : p \notin {"nowhere", "stage", "dest"}
  BY PublicationAssumption
<1>1. ASSUME NEW p \in Publishers, Inspect(p) PROVE UniqueInv'
  BY <1>a, <1>b, <1>1 DEF Inspect
<1>2. ASSUME NEW p \in Publishers, ReadManifest(p) PROVE UniqueInv'
  BY <1>a, <1>b, <1>2 DEF ReadManifest
<1>3. ASSUME NEW p \in Publishers, ListFiles(p) PROVE UniqueInv'
  BY <1>a, <1>b, <1>3 DEF ListFiles
<1>4. ASSUME NEW p \in Publishers, VerifyFile(p) PROVE UniqueInv'
  BY <1>a, <1>b, <1>4 DEF VerifyFile
<1>5. ASSUME NEW p \in Publishers, CreateStage(p) PROVE UniqueInv'
  BY <1>a, <1>b, <1>5 DEF CreateStage
<1>6. ASSUME NEW p \in Publishers, WriteStage(p) PROVE UniqueInv'
  BY <1>a, <1>b, <1>6 DEF WriteStage
<1>7. ASSUME NEW p \in Publishers, CheckStage(p) PROVE UniqueInv'
  BY <1>a, <1>b, <1>7 DEF CheckStage, Decide
<1>8. ASSUME NEW p \in Publishers, PublishFresh(p) PROVE UniqueInv'
  <2>1. CASE RenameToDest(p)
    BY <1>a, <1>b, <1>8, <2>1 DEF PublishFresh, RenameToDest
  <2>2. CASE ~RenameToDest(p)
    BY <1>a, <1>b, <1>8, <2>2 DEF PublishFresh
  <2>3. QED
    BY <2>1, <2>2
<1>9. ASSUME NEW p \in Publishers, CreateBackup(p) PROVE UniqueInv'
  BY <1>a, <1>b, <1>9 DEF CreateBackup
<1>10. ASSUME NEW p \in Publishers, MovePrevious(p) PROVE UniqueInv'
  BY <1>a, <1>b, <1>10 DEF MovePrevious, HolderInv
<1>11. ASSUME NEW p \in Publishers, Commit(p) PROVE UniqueInv'
  <2>1. CASE RenameToDest(p)
    BY <1>a, <1>b, <1>11, <2>1 DEF Commit, RenameToDest
  <2>2. CASE ~RenameToDest(p)
    BY <1>a, <1>b, <1>11, <2>2 DEF Commit
  <2>3. QED
    BY <2>1, <2>2
<1>12. ASSUME NEW p \in Publishers, Restore(p) PROVE UniqueInv'
  <2>1. ASSUME NEW e \in Dirs, place[e] = p, RenameToDest(e) PROVE UniqueInv'
    BY <1>a, <1>b, <1>12, <2>1 DEF Restore, RenameToDest
  <2>2. CASE UNCHANGED place /\ Return(p, "retained")
    BY <1>a, <1>b, <1>12, <2>2 DEF Restore
  <2>3. QED
    BY <1>12, <2>1, <2>2 DEF Restore
<1>13. ASSUME NEW p \in Publishers, RemoveBackup(p) PROVE UniqueInv'
  BY <1>a, <1>b, <1>13 DEF RemoveBackup
<1>14. ASSUME NEW p \in Publishers, Purge(p) PROVE UniqueInv'
  BY <1>a, <1>b, <1>14 DEF Purge
<1>15. ASSUME NEW p \in Publishers, RemoveStage(p) PROVE UniqueInv'
  BY <1>a, <1>b, <1>15 DEF RemoveStage
<1>16. ASSUME NEW p \in Publishers, Crash(p) PROVE UniqueInv'
  BY <1>a, <1>b, <1>16 DEF Crash
<1>17. CASE UserWrites
  BY <1>a, <1>b, <1>17 DEF UserWrites
<1>18. CASE UserRemoves
  BY <1>a, <1>b, <1>18 DEF UserRemoves
<1>19. CASE UserCreates
  BY <1>a, <1>b, <1>19 DEF UserCreates, DestFree
<1>20. CASE UNCHANGED vars
  BY <1>20 DEF vars
<1>21. QED
  BY <1>1, <1>2, <1>3, <1>4, <1>5, <1>6, <1>7, <1>8, <1>9, <1>10,
     <1>11, <1>12, <1>13, <1>14, <1>15, <1>16, <1>17, <1>18, <1>19, <1>20 DEF Next, Publisher

\* Only MovePrevious fills a backup, and Restore and Purge leave nothing in it.
LEMMA HolderStep ==
  TypeOK /\ StageInv /\ UniqueInv /\ HolderInv /\ [Next]_vars => HolderInv'
<1> SUFFICES ASSUME TypeOK, StageInv, UniqueInv, HolderInv, [Next]_vars PROVE HolderInv'
  OBVIOUS
<1> USE DEF TypeOK, StageInv, disk, locals, history, Goto, Return, Refused, AtDest, HolderInv
<1>a. Publishers \subseteq Dirs /\ Existing \in Dirs
  BY DEF Dirs
<1>b. \A p \in Publishers : p \notin {"nowhere", "stage", "dest"}
  BY PublicationAssumption
<1>1. ASSUME NEW p \in Publishers, Inspect(p) PROVE HolderInv'
  BY <1>a, <1>b, <1>1 DEF Inspect
<1>2. ASSUME NEW p \in Publishers, ReadManifest(p) PROVE HolderInv'
  BY <1>a, <1>b, <1>2 DEF ReadManifest
<1>3. ASSUME NEW p \in Publishers, ListFiles(p) PROVE HolderInv'
  BY <1>a, <1>b, <1>3 DEF ListFiles
<1>4. ASSUME NEW p \in Publishers, VerifyFile(p) PROVE HolderInv'
  BY <1>a, <1>b, <1>4 DEF VerifyFile
<1>5. ASSUME NEW p \in Publishers, CreateStage(p) PROVE HolderInv'
  BY <1>a, <1>b, <1>5 DEF CreateStage
<1>6. ASSUME NEW p \in Publishers, WriteStage(p) PROVE HolderInv'
  BY <1>a, <1>b, <1>6 DEF WriteStage
<1>7. ASSUME NEW p \in Publishers, CheckStage(p) PROVE HolderInv'
  BY <1>a, <1>b, <1>7 DEF CheckStage, Decide
<1>8. ASSUME NEW p \in Publishers, PublishFresh(p) PROVE HolderInv'
  <2>1. CASE RenameToDest(p)
    BY <1>a, <1>b, <1>8, <2>1 DEF PublishFresh, RenameToDest
  <2>2. CASE ~RenameToDest(p)
    BY <1>a, <1>b, <1>8, <2>2 DEF PublishFresh
  <2>3. QED
    BY <2>1, <2>2
<1>9. ASSUME NEW p \in Publishers, CreateBackup(p) PROVE HolderInv'
  BY <1>a, <1>b, <1>9 DEF CreateBackup
<1>10. ASSUME NEW p \in Publishers, MovePrevious(p) PROVE HolderInv'
  BY <1>a, <1>b, <1>10 DEF MovePrevious
<1>11. ASSUME NEW p \in Publishers, Commit(p) PROVE HolderInv'
  <2>1. CASE RenameToDest(p)
    BY <1>a, <1>b, <1>11, <2>1 DEF Commit, RenameToDest
  <2>2. CASE ~RenameToDest(p)
    BY <1>a, <1>b, <1>11, <2>2 DEF Commit
  <2>3. QED
    BY <2>1, <2>2
<1>12. ASSUME NEW p \in Publishers, Restore(p) PROVE HolderInv'
  <2>1. ASSUME NEW e \in Dirs, place[e] = p, RenameToDest(e) PROVE HolderInv'
    BY <1>a, <1>b, <1>12, <2>1 DEF Restore, RenameToDest, UniqueInv
  <2>2. CASE UNCHANGED place /\ Return(p, "retained")
    BY <1>a, <1>b, <1>12, <2>2 DEF Restore
  <2>3. QED
    BY <1>12, <2>1, <2>2 DEF Restore
<1>13. ASSUME NEW p \in Publishers, RemoveBackup(p) PROVE HolderInv'
  BY <1>a, <1>b, <1>13 DEF RemoveBackup
<1>14. ASSUME NEW p \in Publishers, Purge(p) PROVE HolderInv'
  BY <1>a, <1>b, <1>14 DEF Purge
<1>15. ASSUME NEW p \in Publishers, RemoveStage(p) PROVE HolderInv'
  BY <1>a, <1>b, <1>15 DEF RemoveStage
<1>16. ASSUME NEW p \in Publishers, Crash(p) PROVE HolderInv'
  BY <1>a, <1>b, <1>16 DEF Crash
<1>17. CASE UserWrites
  BY <1>a, <1>b, <1>17 DEF UserWrites
<1>18. CASE UserRemoves
  BY <1>a, <1>b, <1>18 DEF UserRemoves
<1>19. CASE UserCreates
  BY <1>a, <1>b, <1>19 DEF UserCreates
<1>20. CASE UNCHANGED vars
  BY <1>20 DEF vars
<1>21. QED
  BY <1>1, <1>2, <1>3, <1>4, <1>5, <1>6, <1>7, <1>8, <1>9, <1>10,
     <1>11, <1>12, <1>13, <1>14, <1>15, <1>16, <1>17, <1>18, <1>19, <1>20 DEF Next, Publisher

\* Every return gives an answer and nothing else does.
LEMMA PendingStep ==
  TypeOK /\ PendingInv /\ [Next]_vars => PendingInv'
<1> SUFFICES ASSUME TypeOK, PendingInv, [Next]_vars PROVE PendingInv'
  OBVIOUS
<1> USE DEF TypeOK, disk, locals, history, Goto, Return, PendingInv
<1>1. ASSUME NEW p \in Publishers, Inspect(p) PROVE PendingInv'
  BY <1>1 DEF Inspect
<1>2. ASSUME NEW p \in Publishers, ReadManifest(p) PROVE PendingInv'
  BY <1>2 DEF ReadManifest
<1>3. ASSUME NEW p \in Publishers, ListFiles(p) PROVE PendingInv'
  BY <1>3 DEF ListFiles
<1>4. ASSUME NEW p \in Publishers, VerifyFile(p) PROVE PendingInv'
  BY <1>4 DEF VerifyFile
<1>5. ASSUME NEW p \in Publishers, CreateStage(p) PROVE PendingInv'
  BY <1>5 DEF CreateStage
<1>6. ASSUME NEW p \in Publishers, WriteStage(p) PROVE PendingInv'
  BY <1>6 DEF WriteStage
<1>7. ASSUME NEW p \in Publishers, CheckStage(p) PROVE PendingInv'
  BY <1>7 DEF CheckStage, Decide
<1>8. ASSUME NEW p \in Publishers, PublishFresh(p) PROVE PendingInv'
  BY <1>8 DEF PublishFresh
<1>9. ASSUME NEW p \in Publishers, CreateBackup(p) PROVE PendingInv'
  BY <1>9 DEF CreateBackup
<1>10. ASSUME NEW p \in Publishers, MovePrevious(p) PROVE PendingInv'
  BY <1>10 DEF MovePrevious
<1>11. ASSUME NEW p \in Publishers, Commit(p) PROVE PendingInv'
  BY <1>11 DEF Commit
<1>12. ASSUME NEW p \in Publishers, Restore(p) PROVE PendingInv'
  BY <1>12 DEF Restore
<1>13. ASSUME NEW p \in Publishers, RemoveBackup(p) PROVE PendingInv'
  BY <1>13 DEF RemoveBackup
<1>14. ASSUME NEW p \in Publishers, Purge(p) PROVE PendingInv'
  BY <1>14 DEF Purge
<1>15. ASSUME NEW p \in Publishers, RemoveStage(p) PROVE PendingInv'
  BY <1>15 DEF RemoveStage
<1>16. ASSUME NEW p \in Publishers, Crash(p) PROVE PendingInv'
  BY <1>16 DEF Crash
<1>17. CASE UserWrites
  BY <1>17 DEF UserWrites
<1>18. CASE UserRemoves
  BY <1>18 DEF UserRemoves
<1>19. CASE UserCreates
  BY <1>19 DEF UserCreates
<1>20. CASE UNCHANGED vars
  BY <1>20 DEF vars
<1>21. QED
  BY <1>1, <1>2, <1>3, <1>4, <1>5, <1>6, <1>7, <1>8, <1>9, <1>10,
     <1>11, <1>12, <1>13, <1>14, <1>15, <1>16, <1>17, <1>18, <1>19, <1>20 DEF Next, Publisher

\* A backup is removed, or the answer tells that it was not.
LEMMA BackupStep ==
  TypeOK /\ BackupInv /\ [Next]_vars => BackupInv'
<1> SUFFICES ASSUME TypeOK, BackupInv, [Next]_vars PROVE BackupInv'
  OBVIOUS
<1> USE DEF TypeOK, disk, locals, history, Goto, Return, BackupInv
<1>1. ASSUME NEW p \in Publishers, Inspect(p) PROVE BackupInv'
  BY <1>1 DEF Inspect
<1>2. ASSUME NEW p \in Publishers, ReadManifest(p) PROVE BackupInv'
  BY <1>2 DEF ReadManifest
<1>3. ASSUME NEW p \in Publishers, ListFiles(p) PROVE BackupInv'
  BY <1>3 DEF ListFiles
<1>4. ASSUME NEW p \in Publishers, VerifyFile(p) PROVE BackupInv'
  BY <1>4 DEF VerifyFile
<1>5. ASSUME NEW p \in Publishers, CreateStage(p) PROVE BackupInv'
  BY <1>5 DEF CreateStage
<1>6. ASSUME NEW p \in Publishers, WriteStage(p) PROVE BackupInv'
  BY <1>6 DEF WriteStage
<1>7. ASSUME NEW p \in Publishers, CheckStage(p) PROVE BackupInv'
  BY <1>7 DEF CheckStage, Decide
<1>8. ASSUME NEW p \in Publishers, PublishFresh(p) PROVE BackupInv'
  BY <1>8 DEF PublishFresh
<1>9. ASSUME NEW p \in Publishers, CreateBackup(p) PROVE BackupInv'
  BY <1>9 DEF CreateBackup
<1>10. ASSUME NEW p \in Publishers, MovePrevious(p) PROVE BackupInv'
  BY <1>10 DEF MovePrevious
<1>11. ASSUME NEW p \in Publishers, Commit(p) PROVE BackupInv'
  BY <1>11 DEF Commit
<1>12. ASSUME NEW p \in Publishers, Restore(p) PROVE BackupInv'
  BY <1>12 DEF Restore
<1>13. ASSUME NEW p \in Publishers, RemoveBackup(p) PROVE BackupInv'
  BY <1>13 DEF RemoveBackup
<1>14. ASSUME NEW p \in Publishers, Purge(p) PROVE BackupInv'
  BY <1>14 DEF Purge
<1>15. ASSUME NEW p \in Publishers, RemoveStage(p) PROVE BackupInv'
  BY <1>15 DEF RemoveStage
<1>16. ASSUME NEW p \in Publishers, Crash(p) PROVE BackupInv'
  BY <1>16 DEF Crash
<1>17. CASE UserWrites
  BY <1>17 DEF UserWrites
<1>18. CASE UserRemoves
  BY <1>18 DEF UserRemoves
<1>19. CASE UserCreates
  BY <1>19 DEF UserCreates
<1>20. CASE UNCHANGED vars
  BY <1>20 DEF vars
<1>21. QED
  BY <1>1, <1>2, <1>3, <1>4, <1>5, <1>6, <1>7, <1>8, <1>9, <1>10,
     <1>11, <1>12, <1>13, <1>14, <1>15, <1>16, <1>17, <1>18, <1>19, <1>20 DEF Next, Publisher

\* A publisher that did not rename its directory never claims it did, and one
\* that did claims nothing else.
LEMMA ClaimStep ==
  TypeOK /\ CommitInv /\ ClaimInv /\ [Next]_vars => ClaimInv'
<1> SUFFICES ASSUME TypeOK, CommitInv, ClaimInv, [Next]_vars PROVE ClaimInv'
  OBVIOUS
<1> USE DEF TypeOK, disk, locals, history, Goto, Return, CommitInv, ClaimInv
<1>1. ASSUME NEW p \in Publishers, Inspect(p) PROVE ClaimInv'
  BY <1>1 DEF Inspect
<1>2. ASSUME NEW p \in Publishers, ReadManifest(p) PROVE ClaimInv'
  BY <1>2 DEF ReadManifest
<1>3. ASSUME NEW p \in Publishers, ListFiles(p) PROVE ClaimInv'
  BY <1>3 DEF ListFiles
<1>4. ASSUME NEW p \in Publishers, VerifyFile(p) PROVE ClaimInv'
  BY <1>4 DEF VerifyFile
<1>5. ASSUME NEW p \in Publishers, CreateStage(p) PROVE ClaimInv'
  BY <1>5 DEF CreateStage
<1>6. ASSUME NEW p \in Publishers, WriteStage(p) PROVE ClaimInv'
  BY <1>6 DEF WriteStage
<1>7. ASSUME NEW p \in Publishers, CheckStage(p) PROVE ClaimInv'
  BY <1>7 DEF CheckStage, Decide
<1>8. ASSUME NEW p \in Publishers, PublishFresh(p) PROVE ClaimInv'
  BY <1>8 DEF PublishFresh
<1>9. ASSUME NEW p \in Publishers, CreateBackup(p) PROVE ClaimInv'
  BY <1>9 DEF CreateBackup
<1>10. ASSUME NEW p \in Publishers, MovePrevious(p) PROVE ClaimInv'
  BY <1>10 DEF MovePrevious
<1>11. ASSUME NEW p \in Publishers, Commit(p) PROVE ClaimInv'
  BY <1>11 DEF Commit
<1>12. ASSUME NEW p \in Publishers, Restore(p) PROVE ClaimInv'
  BY <1>12 DEF Restore
<1>13. ASSUME NEW p \in Publishers, RemoveBackup(p) PROVE ClaimInv'
  BY <1>13 DEF RemoveBackup
<1>14. ASSUME NEW p \in Publishers, Purge(p) PROVE ClaimInv'
  BY <1>14 DEF Purge
<1>15. ASSUME NEW p \in Publishers, RemoveStage(p) PROVE ClaimInv'
  BY <1>15 DEF RemoveStage
<1>16. ASSUME NEW p \in Publishers, Crash(p) PROVE ClaimInv'
  BY <1>16 DEF Crash
<1>17. CASE UserWrites
  BY <1>17 DEF UserWrites
<1>18. CASE UserRemoves
  BY <1>18 DEF UserRemoves
<1>19. CASE UserCreates
  BY <1>19 DEF UserCreates
<1>20. CASE UNCHANGED vars
  BY <1>20 DEF vars
<1>21. QED
  BY <1>1, <1>2, <1>3, <1>4, <1>5, <1>6, <1>7, <1>8, <1>9, <1>10,
     <1>11, <1>12, <1>13, <1>14, <1>15, <1>16, <1>17, <1>18, <1>19, <1>20 DEF Next, Publisher

\* The deferred removal of the staging directory fails only by a fault.
LEMMA LitterStep ==
  TypeOK /\ StageInv /\ LitterInv /\ [Next]_vars => LitterInv'
<1> SUFFICES ASSUME TypeOK, StageInv, LitterInv, [Next]_vars PROVE LitterInv'
  OBVIOUS
<1> USE PublicationAssumption DEF TypeOK, StageInv, disk, locals, history, Goto, Return, Refused, AtDest, LitterInv, Fault
<1>a. Publishers \subseteq Dirs /\ Existing \in Dirs
  BY DEF Dirs
<1>b. \A p \in Publishers : p \notin {"nowhere", "stage", "dest"}
  BY PublicationAssumption
<1>1. ASSUME NEW p \in Publishers, Inspect(p) PROVE LitterInv'
  BY <1>a, <1>b, <1>1 DEF Inspect
<1>2. ASSUME NEW p \in Publishers, ReadManifest(p) PROVE LitterInv'
  BY <1>a, <1>b, <1>2 DEF ReadManifest
<1>3. ASSUME NEW p \in Publishers, ListFiles(p) PROVE LitterInv'
  BY <1>a, <1>b, <1>3 DEF ListFiles
<1>4. ASSUME NEW p \in Publishers, VerifyFile(p) PROVE LitterInv'
  BY <1>a, <1>b, <1>4 DEF VerifyFile
<1>5. ASSUME NEW p \in Publishers, CreateStage(p) PROVE LitterInv'
  BY <1>a, <1>b, <1>5 DEF CreateStage
<1>6. ASSUME NEW p \in Publishers, WriteStage(p) PROVE LitterInv'
  BY <1>a, <1>b, <1>6 DEF WriteStage
<1>7. ASSUME NEW p \in Publishers, CheckStage(p) PROVE LitterInv'
  BY <1>a, <1>b, <1>7 DEF CheckStage, Decide
<1>8. ASSUME NEW p \in Publishers, PublishFresh(p) PROVE LitterInv'
  <2>1. CASE RenameToDest(p)
    BY <1>a, <1>b, <1>8, <2>1 DEF PublishFresh, RenameToDest
  <2>2. CASE ~RenameToDest(p)
    BY <1>a, <1>b, <1>8, <2>2 DEF PublishFresh
  <2>3. QED
    BY <2>1, <2>2
<1>9. ASSUME NEW p \in Publishers, CreateBackup(p) PROVE LitterInv'
  BY <1>a, <1>b, <1>9 DEF CreateBackup
<1>10. ASSUME NEW p \in Publishers, MovePrevious(p) PROVE LitterInv'
  BY <1>a, <1>b, <1>10 DEF MovePrevious
<1>11. ASSUME NEW p \in Publishers, Commit(p) PROVE LitterInv'
  <2>1. CASE RenameToDest(p)
    BY <1>a, <1>b, <1>11, <2>1 DEF Commit, RenameToDest
  <2>2. CASE ~RenameToDest(p)
    BY <1>a, <1>b, <1>11, <2>2 DEF Commit
  <2>3. QED
    BY <2>1, <2>2
<1>12. ASSUME NEW p \in Publishers, Restore(p) PROVE LitterInv'
  <2>1. ASSUME NEW e \in Dirs, place[e] = p, RenameToDest(e) PROVE LitterInv'
    BY <1>a, <1>b, <1>12, <2>1 DEF Restore, RenameToDest
  <2>2. CASE UNCHANGED place /\ Return(p, "retained")
    BY <1>a, <1>b, <1>12, <2>2 DEF Restore
  <2>3. QED
    BY <1>12, <2>1, <2>2 DEF Restore
<1>13. ASSUME NEW p \in Publishers, RemoveBackup(p) PROVE LitterInv'
  BY <1>a, <1>b, <1>13 DEF RemoveBackup
<1>14. ASSUME NEW p \in Publishers, Purge(p) PROVE LitterInv'
  BY <1>a, <1>b, <1>14 DEF Purge
<1>15. ASSUME NEW p \in Publishers, RemoveStage(p) PROVE LitterInv'
  BY <1>a, <1>b, <1>15 DEF RemoveStage
<1>16. ASSUME NEW p \in Publishers, Crash(p) PROVE LitterInv'
  BY <1>a, <1>b, <1>16 DEF Crash
<1>17. CASE UserWrites
  BY <1>a, <1>b, <1>17 DEF UserWrites
<1>18. CASE UserRemoves
  BY <1>a, <1>b, <1>18 DEF UserRemoves
<1>19. CASE UserCreates
  BY <1>a, <1>b, <1>19 DEF UserCreates
<1>20. CASE UNCHANGED vars
  BY <1>20 DEF vars
<1>21. QED
  BY <1>1, <1>2, <1>3, <1>4, <1>5, <1>6, <1>7, <1>8, <1>9, <1>10,
     <1>11, <1>12, <1>13, <1>14, <1>15, <1>16, <1>17, <1>18, <1>19, <1>20 DEF Next, Publisher

\* The invariants about answers hold together.
THEOREM Answers == Spec => []AnswerInv
<1>1. Init => AnswerInv
  BY PublicationAssumption DEF Init, AnswerInv, UniqueInv, PendingInv, HolderInv, BackupInv,
     ClaimInv, LitterInv, Dirs
<1>2. SafetyInv /\ AnswerInv /\ [Next]_vars => AnswerInv'
  BY UniqueStep, HolderStep, PendingStep, BackupStep, ClaimStep, LitterStep DEF SafetyInv, AnswerInv
<1>3. QED
  BY Safety, <1>1, <1>2, PTL DEF Spec

\* However publishers interleave, fail and are killed, an answer tells whether
\* the bundle was published and which directories were left behind.
THEOREM AnswerAlwaysMatchesDisk == Spec => []AnswerMatchesDisk
<1>1. TypeOK /\ AnswerInv => AnswerMatchesDisk
  BY DEF TypeOK, AnswerInv, PendingInv, HolderInv, BackupInv, ClaimInv, LitterInv, AnswerMatchesDisk
<1>2. QED
  BY TypeCorrect, Answers, <1>1, PTL
-----------------------------------------------------------------------------
(* Modified content is refused.                                            *)

\* The modified directory a publisher found is still there, still modified, and
\* the publisher on its way to be refused: while it verifies file after file,
\* one that differs from the inventory it read is among those still to read.
DirtyInv ==
  \A p \in Publishers : dirtySeen[p] # None =>
    /\ AtDest(dirtySeen[p]) /\ ~Complete(tree[dirtySeen[p]])
    /\ step[p] \in {"manifest", "list", "files", "return", "done", "crashed"}
    /\ outcome[p] \in {"pending", "failed"}
    /\ step[p] \in {"list", "files"} => previous[p] \in Bundles
    /\ step[p] = "files" =>
         /\ opened[p] = dirtySeen[p]
         /\ \E n \in unread[p] : tree[dirtySeen[p]][n] # previous[p]

\* A tree whose files are those of a bundle, but which is none, differs from
\* every bundle in one of them.
LEMMA Differs ==
  ASSUME NEW t \in Trees, Present(t) = Files, ~Complete(t), NEW b \in Bundles
  PROVE  \E n \in Files : t[n] # b
<1> SUFFICES ASSUME \A n \in Files : t[n] = b PROVE t = BundleTree(b)
  BY DEF Complete
<1>1. \A n \in Names \ Files : t[n] = None
  BY DEF Present
<1>2. QED
  BY <1>1 DEF Trees, BundleTree

\* What the user writes into a directory does not make it a bundle.
LEMMA UserSpoils ==
  ASSUME NEW t \in Trees, NEW n \in Names
  PROVE  ~Complete([t EXCEPT ![n] = User])
<1>1. [t EXCEPT ![n] = User][n] = User
  BY DEF Trees
<1>2. \A b \in Bundles : BundleTree(b)[n] # User
  BY PublicationAssumption DEF BundleTree
<1>3. QED
  BY <1>1, <1>2 DEF Complete

\* A modified directory stays one as long as it stays: only the user writes to
\* the destination, and the file that differs is not skipped.
LEMMA DirtyStep ==
  TypeOK /\ StageInv /\ UniqueInv /\ PendingInv /\ DirtyInv /\ [Next]_vars => DirtyInv'
<1> SUFFICES ASSUME TypeOK, StageInv, UniqueInv, PendingInv, DirtyInv, [Next]_vars PROVE DirtyInv'
  OBVIOUS
<1> USE DEF TypeOK, StageInv, DirtyInv, disk, locals, history, Goto, Return, Refused, AtDest
<1>a. Publishers \subseteq Dirs /\ Existing \in Dirs
  BY DEF Dirs
<1>b. \A p \in Publishers : p \notin {"nowhere", "stage", "dest"}
  BY PublicationAssumption
<1>1. ASSUME NEW p \in Publishers, Inspect(p) PROVE DirtyInv'
  <2>1. \A q \in Publishers : q # p => dirtySeen'[q] = dirtySeen[q] /\ step'[q] = step[q] /\ outcome'[q] = outcome[q]
    BY <1>1 DEF Inspect
  <2>2. UNCHANGED <<tree, place, previous, opened, unread>>
    BY <1>1 DEF Inspect
  <2>3. dirtySeen[p] = None
    BY <1>1 DEF Inspect
  <2>4. dirtySeen'[p] # None =>
          /\ AtDest(dirtySeen'[p]) /\ ~Complete(tree[dirtySeen'[p]])
          /\ step'[p] = "manifest" /\ outcome'[p] = "pending"
    BY <1>1, <2>3 DEF Inspect, PendingInv
  <2>5. QED
    BY <2>1, <2>2, <2>4 DEF Complete
<1>2. ASSUME NEW p \in Publishers, ReadManifest(p) PROVE DirtyInv'
  BY <1>a, <1>b, <1>2 DEF ReadManifest, HasInventory, Contents
<1>3. ASSUME NEW p \in Publishers, ListFiles(p) PROVE DirtyInv'
  <2>1. CASE dirtySeen[p] = None
    BY <1>3, <2>1 DEF ListFiles, Complete
  <2>2. CASE dirtySeen[p] # None /\ step'[p] = "files"
    <3>1. PICK d \in Dirs : AtDest(d) /\ Present(tree[d]) = Files /\ opened' = [opened EXCEPT ![p] = d]
                          /\ unread' = [unread EXCEPT ![p] = Files]
                          /\ step' = [step EXCEPT ![p] = "files"]
      BY <1>3, <2>2 DEF ListFiles
    <3>2. d = dirtySeen[p]
      BY <2>2, <3>1 DEF UniqueInv
    <3>3. \E n \in Files : tree[d][n] # previous[p]
      BY <1>3, <2>2, <3>1, <3>2, Differs DEF ListFiles
    <3>4. UNCHANGED <<tree, place, previous, outcome, dirtySeen>> /\ previous[p] \in Bundles
      BY <1>3, <2>2 DEF ListFiles
    <3>5. \A q \in Publishers : q # p =>
            step'[q] = step[q] /\ opened'[q] = opened[q] /\ unread'[q] = unread[q]
      BY <3>1
    <3>6. opened'[p] = dirtySeen[p] /\ \E n \in unread'[p] : tree[dirtySeen[p]][n] # previous[p]
      BY <3>1, <3>2, <3>3
    <3>7. QED
      BY <2>2, <3>4, <3>5, <3>6 DEF Complete
  <2>3. CASE dirtySeen[p] # None /\ step'[p] # "files"
    BY <1>3, <2>3 DEF ListFiles, PendingInv, Complete
  <2>4. QED
    BY <2>1, <2>2, <2>3
<1>4. ASSUME NEW p \in Publishers, VerifyFile(p) PROVE DirtyInv'
  <2>1. PICK n \in unread[p] :
          \/ /\ tree[opened[p]][n] = previous[p]
             /\ unread' = [unread EXCEPT ![p] = unread[p] \ {n}]
             /\ step' = [step EXCEPT ![p] = IF unread[p] = {n} THEN "stage" ELSE "files"]
             /\ UNCHANGED outcome
          \/ /\ step' = [step EXCEPT ![p] = "return"]
             /\ outcome' = [outcome EXCEPT ![p] = "failed"]
             /\ UNCHANGED unread
    BY <1>4 DEF VerifyFile, Contents
  <2>2. UNCHANGED <<tree, place, previous, opened, dirtySeen>> /\ step[p] = "files"
    BY <1>4 DEF VerifyFile
  <2>3. CASE dirtySeen[p] = None
    BY <2>1, <2>2, <2>3
  <2>4. CASE dirtySeen[p] # None
    <3>1. PICK m \in unread[p] : tree[dirtySeen[p]][m] # previous[p]
      BY <2>2, <2>4
    <3>2. CASE tree[opened[p]][n] = previous[p]
      BY <2>1, <2>2, <2>4, <3>1, <3>2
    <3>3. CASE tree[opened[p]][n] # previous[p]
      BY <2>1, <2>2, <2>4, <3>1, <3>3
    <3>4. QED
      BY <3>2, <3>3
  <2>5. QED
    BY <2>3, <2>4
<1>5. ASSUME NEW p \in Publishers, CreateStage(p) PROVE DirtyInv'
  BY <1>a, <1>b, <1>5 DEF CreateStage
<1>6. ASSUME NEW p \in Publishers, WriteStage(p) PROVE DirtyInv'
  BY <1>a, <1>b, <1>6 DEF WriteStage
<1>7. ASSUME NEW p \in Publishers, CheckStage(p) PROVE DirtyInv'
  BY <1>a, <1>b, <1>7 DEF CheckStage, Decide
<1>8. ASSUME NEW p \in Publishers, PublishFresh(p) PROVE DirtyInv'
  <2>1. CASE RenameToDest(p)
    BY <1>a, <1>b, <1>8, <2>1 DEF PublishFresh, RenameToDest
  <2>2. CASE ~RenameToDest(p)
    BY <1>a, <1>b, <1>8, <2>2 DEF PublishFresh
  <2>3. QED
    BY <2>1, <2>2
<1>9. ASSUME NEW p \in Publishers, CreateBackup(p) PROVE DirtyInv'
  BY <1>a, <1>b, <1>9 DEF CreateBackup
<1>10. ASSUME NEW p \in Publishers, MovePrevious(p) PROVE DirtyInv'
  BY <1>a, <1>b, <1>10 DEF MovePrevious
<1>11. ASSUME NEW p \in Publishers, Commit(p) PROVE DirtyInv'
  <2>1. CASE RenameToDest(p)
    BY <1>a, <1>b, <1>11, <2>1 DEF Commit, RenameToDest
  <2>2. CASE ~RenameToDest(p)
    BY <1>a, <1>b, <1>11, <2>2 DEF Commit
  <2>3. QED
    BY <2>1, <2>2
<1>12. ASSUME NEW p \in Publishers, Restore(p) PROVE DirtyInv'
  <2>1. ASSUME NEW e \in Dirs, place[e] = p, RenameToDest(e) PROVE DirtyInv'
    BY <1>a, <1>b, <1>12, <2>1 DEF Restore, RenameToDest
  <2>2. CASE UNCHANGED place /\ Return(p, "retained")
    BY <1>a, <1>b, <1>12, <2>2 DEF Restore
  <2>3. QED
    BY <1>12, <2>1, <2>2 DEF Restore
<1>13. ASSUME NEW p \in Publishers, RemoveBackup(p) PROVE DirtyInv'
  BY <1>a, <1>b, <1>13 DEF RemoveBackup
<1>14. ASSUME NEW p \in Publishers, Purge(p) PROVE DirtyInv'
  BY <1>a, <1>b, <1>14 DEF Purge
<1>15. ASSUME NEW p \in Publishers, RemoveStage(p) PROVE DirtyInv'
  BY <1>a, <1>b, <1>15 DEF RemoveStage
<1>16. ASSUME NEW p \in Publishers, Crash(p) PROVE DirtyInv'
  BY <1>a, <1>b, <1>16 DEF Crash
<1>17. CASE UserWrites
  <2>1. PICK d \in Dirs, n \in Names : AtDest(d) /\ tree' = [tree EXCEPT ![d][n] = User]
    BY <1>17 DEF UserWrites
  <2>2. UNCHANGED <<place, step, outcome, previous, opened, unread, dirtySeen>>
    BY <1>17 DEF UserWrites
  <2>3. tree'[d] = [tree[d] EXCEPT ![n] = User] /\ \A e \in Dirs : e # d => tree'[e] = tree[e]
    BY <2>1
  <2>4. ~Complete(tree'[d])
    <3>1. tree[d] \in Trees
      OBVIOUS
    <3>2. ~Complete([tree[d] EXCEPT ![n] = User])
      BY <3>1, UserSpoils
    <3>3. QED
      BY <2>3, <3>2
  <2>5. \A m \in Names, b \in Bundles : tree[d][m] # b => tree'[d][m] # b
    BY <2>3, PublicationAssumption DEF Trees
  <2>6. Files \subseteq Names
    BY DEF Names
  <2>7. \A e \in Dirs : ~Complete(tree[e]) => ~Complete(tree'[e])
    BY <2>3, <2>4
  <2>8. \A e \in Dirs, m \in Names, b \in Bundles : tree[e][m] # b => tree'[e][m] # b
    <3> SUFFICES ASSUME NEW e \in Dirs, NEW m \in Names, NEW b \in Bundles, tree[e][m] # b
                 PROVE  tree'[e][m] # b
      OBVIOUS
    <3>1. CASE e = d
      BY <2>5, <3>1
    <3>2. CASE e # d
      <4>1. tree'[e] = tree[e]
        BY <2>3, <3>2
      <4>2. QED
        BY <4>1
    <3>3. QED
      BY <3>1, <3>2

  <2>9. QED
    BY <2>2, <2>6, <2>7, <2>8
<1>18. CASE UserRemoves
  BY <1>a, <1>b, <1>18 DEF UserRemoves
<1>19. CASE UserCreates
  BY <1>a, <1>b, <1>19 DEF UserCreates
<1>20. CASE UNCHANGED vars
  BY <1>20 DEF vars, Complete
<1>21. QED
  BY <1>1, <1>2, <1>3, <1>4, <1>5, <1>6, <1>7, <1>8, <1>9, <1>10,
     <1>11, <1>12, <1>13, <1>14, <1>15, <1>16, <1>17, <1>18, <1>19, <1>20 DEF Next, Publisher

\* Whoever finds modified content at the destination is refused.
THEOREM ModifiedAlwaysRefused == Spec => []ModifiedRefused
<1>1. Init => DirtyInv
  BY DEF Init, DirtyInv
<1>2. SafetyInv /\ AnswerInv /\ DirtyInv /\ [Next]_vars => DirtyInv'
  BY DirtyStep DEF SafetyInv, AnswerInv
<1>3. DirtyInv => ModifiedRefused
  BY DEF DirtyInv, ModifiedRefused
<1>4. QED
  BY Safety, Answers, <1>1, <1>2, <1>3, PTL DEF Spec

-----------------------------------------------------------------------------
(* Publication implements ArtifactOutput, step by step.                    *)

\* A publisher that has not published keeps its directory to itself and has
\* written nothing but its own bundle into it.
OwnInv ==
  \A p \in Publishers \ committed :
    /\ place[p] \in {"nowhere", "stage"} /\ p \notin touched
    /\ \A n \in Names : tree[p][n] \in {None, Want[p]}

\* A directory is shared only by the rename that commits its publisher.
LEMMA OwnStep ==
  TypeOK /\ StageInv /\ CommitInv /\ OwnInv /\ [Next]_vars => OwnInv'
<1> SUFFICES ASSUME TypeOK, StageInv, CommitInv, OwnInv, [Next]_vars PROVE OwnInv'
  OBVIOUS
<1> USE DEF TypeOK, StageInv, CommitInv, OwnInv, disk, locals, history, Goto, Return, Refused, AtDest
<1>a. Publishers \subseteq Dirs /\ Existing \in Dirs
  BY DEF Dirs
<1>b. \A p \in Publishers : p \notin {"nowhere", "stage", "dest"}
  BY PublicationAssumption
<1>1. ASSUME NEW p \in Publishers, Inspect(p) PROVE OwnInv'
  BY <1>a, <1>b, PublicationAssumption, <1>1 DEF Inspect
<1>2. ASSUME NEW p \in Publishers, ReadManifest(p) PROVE OwnInv'
  BY <1>a, <1>b, PublicationAssumption, <1>2 DEF ReadManifest
<1>3. ASSUME NEW p \in Publishers, ListFiles(p) PROVE OwnInv'
  BY <1>a, <1>b, PublicationAssumption, <1>3 DEF ListFiles
<1>4. ASSUME NEW p \in Publishers, VerifyFile(p) PROVE OwnInv'
  BY <1>a, <1>b, PublicationAssumption, <1>4 DEF VerifyFile
<1>5. ASSUME NEW p \in Publishers, CreateStage(p) PROVE OwnInv'
  BY <1>a, <1>b, PublicationAssumption, <1>5 DEF CreateStage
<1>6. ASSUME NEW p \in Publishers, WriteStage(p) PROVE OwnInv'
  <2>1. tree' = tree \/ \E n \in Names : tree' = [tree EXCEPT ![p][n] = Want[p]]
    BY <1>6 DEF WriteStage, Names
  <2>2. \A q \in Publishers : q # p => tree'[q] = tree[q]
    BY <1>a, <2>1
  <2>3. \A n \in Names : tree'[p][n] \in {tree[p][n], Want[p]}
    BY <1>a, <2>1 DEF Trees
  <2>4. QED
    BY <2>2, <2>3, <1>6 DEF WriteStage
<1>7. ASSUME NEW p \in Publishers, CheckStage(p) PROVE OwnInv'
  BY <1>a, <1>b, PublicationAssumption, <1>7 DEF CheckStage, Decide
<1>8. ASSUME NEW p \in Publishers, PublishFresh(p) PROVE OwnInv'
  <2>1. CASE RenameToDest(p)
    BY <1>a, <1>b, <1>8, <2>1 DEF PublishFresh, RenameToDest
  <2>2. CASE ~RenameToDest(p)
    BY <1>a, <1>b, <1>8, <2>2 DEF PublishFresh
  <2>3. QED
    BY <2>1, <2>2
<1>9. ASSUME NEW p \in Publishers, CreateBackup(p) PROVE OwnInv'
  BY <1>a, <1>b, PublicationAssumption, <1>9 DEF CreateBackup
<1>10. ASSUME NEW p \in Publishers, MovePrevious(p) PROVE OwnInv'
  BY <1>a, <1>b, PublicationAssumption, <1>10 DEF MovePrevious
<1>11. ASSUME NEW p \in Publishers, Commit(p) PROVE OwnInv'
  <2>1. CASE RenameToDest(p)
    BY <1>a, <1>b, <1>11, <2>1 DEF Commit, RenameToDest
  <2>2. CASE ~RenameToDest(p)
    BY <1>a, <1>b, <1>11, <2>2 DEF Commit
  <2>3. QED
    BY <2>1, <2>2
<1>12. ASSUME NEW p \in Publishers, Restore(p) PROVE OwnInv'
  <2>1. ASSUME NEW e \in Dirs, place[e] = p, RenameToDest(e) PROVE OwnInv'
    BY <1>a, <1>b, <1>12, <2>1 DEF Restore, RenameToDest
  <2>2. CASE UNCHANGED place /\ Return(p, "retained")
    BY <1>a, <1>b, <1>12, <2>2 DEF Restore
  <2>3. QED
    BY <1>12, <2>1, <2>2 DEF Restore
<1>13. ASSUME NEW p \in Publishers, RemoveBackup(p) PROVE OwnInv'
  BY <1>a, <1>b, PublicationAssumption, <1>13 DEF RemoveBackup
<1>14. ASSUME NEW p \in Publishers, Purge(p) PROVE OwnInv'
  BY <1>a, <1>b, PublicationAssumption, <1>14 DEF Purge
<1>15. ASSUME NEW p \in Publishers, RemoveStage(p) PROVE OwnInv'
  BY <1>a, <1>b, <1>15 DEF RemoveStage, Nothing
<1>16. ASSUME NEW p \in Publishers, Crash(p) PROVE OwnInv'
  BY <1>a, <1>b, PublicationAssumption, <1>16 DEF Crash
<1>17. CASE UserWrites
  BY <1>a, <1>b, PublicationAssumption, <1>17 DEF UserWrites
<1>18. CASE UserRemoves
  BY <1>a, <1>b, PublicationAssumption, <1>18 DEF UserRemoves
<1>19. CASE UserCreates
  BY <1>a, <1>b, PublicationAssumption, <1>19 DEF UserCreates
<1>20. CASE UNCHANGED vars
  BY <1>20 DEF vars
<1>21. QED
  BY <1>1, <1>2, <1>3, <1>4, <1>5, <1>6, <1>7, <1>8, <1>9, <1>10,
     <1>11, <1>12, <1>13, <1>14, <1>15, <1>16, <1>17, <1>18, <1>19, <1>20 DEF Next, Publisher

\* What the users of the output see of it is the one directory at the destination
\* that is not empty, and what a publisher holds is the one in its backup.
OutputSound ==
  UniqueInv =>
    /\ \A d \in Dirs : AtDest(d) /\ tree[d] # Nothing => Output = Seen(d)
    /\ (\A d \in Dirs : AtDest(d) => tree[d] = Nothing) => Output = None

HeldSound ==
  UniqueInv =>
    \A p \in Publishers :
      /\ \A d \in Dirs : p \notin committed /\ place[d] = p /\ tree[d] # Nothing => Held(p) = Seen(d)
      /\ p \in committed \/ (\A d \in Dirs : place[d] = p => tree[d] = Nothing) => Held(p) = None

\* Both hold: of one directory at most the choice is determined.
LEMMA OutputIs == OutputSound
<1>1. ASSUME UniqueInv, NEW d \in Dirs, AtDest(d), tree[d] # Nothing
      PROVE  Output = Seen(d)
  <2>1. \A e \in Dirs : AtDest(e) => e = d
    BY <1>1 DEF UniqueInv, AtDest
  <2>2. d = CHOOSE e \in Dirs : AtDest(e) /\ tree[e] # Nothing
    BY <1>1, <2>1
  <2>3. QED
    BY <1>1, <2>2 DEF Output
<1>2. (\A d \in Dirs : AtDest(d) => tree[d] = Nothing) => Output = None
  BY DEF Output
<1>3. QED
  BY <1>1, <1>2 DEF OutputSound

\* The same of the backups.
LEMMA HeldIs == HeldSound
<1>1. ASSUME UniqueInv, NEW p \in Publishers, NEW d \in Dirs,
             p \notin committed, place[d] = p, tree[d] # Nothing
      PROVE  Held(p) = Seen(d)
  <2>1. \A e \in Dirs : place[e] = p => e = d
    BY <1>1 DEF UniqueInv
  <2>2. d = CHOOSE e \in Dirs : place[e] = p /\ tree[e] # Nothing
    BY <1>1, <2>1
  <2>3. QED
    BY <1>1, <2>2 DEF Held
<1>2. ASSUME NEW p \in Publishers
      PROVE  p \in committed \/ (\A d \in Dirs : place[d] = p => tree[d] = Nothing) => Held(p) = None
  BY DEF Held
<1>3. QED
  BY <1>1, <1>2 DEF HeldSound

\* They hold before and after a step.
LEMMA ViewIs == OutputSound /\ OutputSound' /\ HeldSound /\ HeldSound'
BY OutputIs, HeldIs, PTL

\* A step leaves alone what is kept.
KeptUnchanged ==
  /\ UNCHANGED committed
  /\ \A d \in Dirs :
       /\ Kept(d)' <=> Kept(d)
       /\ Kept(d) => place'[d] = place[d] /\ tree'[d] = tree[d] /\ (d \in touched' <=> d \in touched)

\* No publisher reports.
Silent ==
  \A p \in Publishers :
    /\ step'[p] = "done" <=> step[p] = "done"
    /\ step[p] = "done" => outcome'[p] = outcome[p]

\* Then neither the output nor what is held changes.
LEMMA KeptView ==
  ASSUME UniqueInv, UniqueInv', KeptUnchanged
  PROVE  Output' = Output /\ \A p \in Publishers : Held(p)' = Held(p)
<1>a. OutputSound /\ OutputSound' /\ HeldSound /\ HeldSound'
  BY ViewIs
<1>1. Output' = Output
  <2>1. CASE \E d \in Dirs : AtDest(d) /\ tree[d] # Nothing
    <3>1. PICK d \in Dirs : AtDest(d) /\ tree[d] # Nothing
      BY <2>1
    <3>2. place'[d] = place[d] /\ tree'[d] = tree[d] /\ (d \in touched' <=> d \in touched)
      BY <3>1 DEF KeptUnchanged, Kept
    <3>3. Output = Seen(d) /\ Output' = Seen(d)'
      BY <1>a, <3>1, <3>2 DEF OutputSound, AtDest
    <3>4. QED
      BY <3>2, <3>3 DEF Seen
  <2>2. CASE \A d \in Dirs : AtDest(d) => tree[d] = Nothing
    <3>1. ASSUME NEW d \in Dirs, place'[d] = "dest" PROVE tree'[d] = Nothing
      <4>1. Kept(d)'
        BY <3>1 DEF Kept, AtDest
      <4>2. QED
        BY <2>2, <3>1, <4>1 DEF KeptUnchanged, AtDest
    <3>2. QED
      BY <1>a, <2>2, <3>1 DEF OutputSound, AtDest
  <2>3. QED
    BY <2>1, <2>2
<1>2. ASSUME NEW p \in Publishers PROVE Held(p)' = Held(p)
  <2>1. CASE p \in committed
    BY <1>a, <2>1 DEF HeldSound, KeptUnchanged
  <2>2. CASE p \notin committed /\ \E d \in Dirs : place[d] = p /\ tree[d] # Nothing
    <3>1. PICK d \in Dirs : place[d] = p /\ tree[d] # Nothing
      BY <2>2
    <3>2. place'[d] = place[d] /\ tree'[d] = tree[d] /\ (d \in touched' <=> d \in touched)
      BY <2>2, <3>1 DEF KeptUnchanged, Kept
    <3>3. Held(p) = Seen(d) /\ Held(p)' = Seen(d)'
      BY <1>a, <2>2, <3>1, <3>2 DEF HeldSound, KeptUnchanged
    <3>4. QED
      BY <3>2, <3>3 DEF Seen
  <2>3. CASE p \notin committed /\ \A d \in Dirs : place[d] = p => tree[d] = Nothing
    <3>1. ASSUME NEW d \in Dirs, place'[d] = p PROVE tree'[d] = Nothing
      <4>1. Kept(d)'
        BY <2>3, <3>1 DEF Kept, KeptUnchanged
      <4>2. QED
        BY <2>3, <3>1, <4>1 DEF KeptUnchanged
    <3>2. QED
      BY <1>a, <2>3, <3>1 DEF HeldSound, KeptUnchanged
  <2>4. QED
    BY <2>1, <2>2, <2>3
<1>3. QED
  BY <1>1, <1>2

\* A step that leaves alone what is kept and reports nothing does not show.
LEMMA QuietStutters ==
  ASSUME UniqueInv, UniqueInv', KeptUnchanged, Silent
  PROVE  UNCHANGED Promise!vars
<1>1. Output' = Output /\ \A p \in Publishers : Held(p)' = Held(p)
  BY KeptView
<1>2. committed' = committed
  BY DEF KeptUnchanged
<1>3. [p \in Publishers |-> Held(p)]' = [p \in Publishers |-> Held(p)]
  BY <1>1
<1>4. [p \in Publishers |-> IF step[p] = "done" THEN outcome[p] ELSE "pending"]' =
      [p \in Publishers |-> IF step[p] = "done" THEN outcome[p] ELSE "pending"]
  BY DEF Silent
<1>5. QED
  BY <1>1, <1>2, <1>3, <1>4 DEF Promise!vars

\* The invariants the refinement rests on.
RefineInv == SafetyInv /\ AnswerInv /\ CleanInv /\ OwnInv

\* What is done in private does not show: looking at the destination, staging,
\* creating and removing the backup, purging what was replaced, being killed.
LEMMA PrivateSteps ==
  ASSUME RefineInv, NEW p \in Publishers,
         \/ Inspect(p) \/ ReadManifest(p) \/ ListFiles(p) \/ VerifyFile(p) \/ CreateStage(p)
         \/ WriteStage(p) \/ CheckStage(p) \/ CreateBackup(p) \/ RemoveBackup(p) \/ Purge(p) \/ Crash(p)
  PROVE  KeptUnchanged /\ Silent
<1> USE DEF RefineInv, SafetyInv, TypeOK, StageInv, CommitInv, KeptUnchanged, Silent, Kept, AtDest,
            disk, locals, history, Goto, Return
<1>a. p \in Dirs
  BY DEF Dirs
<1>b. \A q \in Publishers : q \notin {"nowhere", "stage", "dest"}
  BY PublicationAssumption
<1>1. CASE Inspect(p)
  BY <1>a, <1>b, <1>1 DEF Inspect
<1>2. CASE ReadManifest(p)
  BY <1>a, <1>b, <1>2 DEF ReadManifest
<1>3. CASE ListFiles(p)
  BY <1>a, <1>b, <1>3 DEF ListFiles
<1>4. CASE VerifyFile(p)
  BY <1>a, <1>b, <1>4 DEF VerifyFile
<1>5. CASE CreateStage(p)
  BY <1>a, <1>b, <1>5 DEF CreateStage
<1>6. CASE WriteStage(p)
  BY <1>a, <1>b, <1>6 DEF WriteStage
<1>7. CASE CheckStage(p)
  BY <1>a, <1>b, <1>7 DEF CheckStage, Decide
<1>8. CASE CreateBackup(p)
  BY <1>a, <1>b, <1>8 DEF CreateBackup
<1>9. CASE RemoveBackup(p)
  BY <1>a, <1>b, <1>9 DEF RemoveBackup
<1>10. CASE Purge(p)
  BY <1>a, <1>b, <1>10 DEF Purge
<1>11. CASE Crash(p)
  BY <1>a, <1>b, <1>11 DEF Crash
<1>12. QED
  BY <1>1, <1>2, <1>3, <1>4, <1>5, <1>6, <1>7, <1>8, <1>9, <1>10, <1>11

\* Nor does a rename that is refused.
LEMMA RefusedSteps ==
  ASSUME RefineInv, NEW p \in Publishers, UNCHANGED <<tree, place, committed, touched>>,
         PublishFresh(p) \/ MovePrevious(p) \/ Commit(p) \/ Restore(p)
  PROVE  KeptUnchanged /\ Silent
<1>1. KeptUnchanged
  BY DEF KeptUnchanged, Kept, AtDest
<1>2. Silent
  BY DEF RefineInv, SafetyInv, TypeOK, Silent, PublishFresh, MovePrevious, Commit, Restore, Goto, Return
<1>3. QED
  BY <1>1, <1>2

\* What is kept is not nothing to its users.
LEMMA SeenIsOutput ==
  ASSUME RefineInv, NEW d \in Dirs, Kept(d)
  PROVE  Seen(d) \in Bundles \cup {User} /\ Seen(d) # None
<1>1. CASE d \in touched
  BY <1>1, PublicationAssumption DEF Seen
<1>2. CASE d \notin touched
  <2>1. PICK b \in Bundles : tree[d] = BundleTree(b)
    BY <1>2 DEF RefineInv, SafetyInv, KeptInv, Complete
  <2>2. tree[d][Manifest] = b
    BY <2>1 DEF BundleTree, Names, Files
  <2>3. QED
    BY <1>2, <2>2, PublicationAssumption DEF Seen
<1>3. QED
  BY <1>1, <1>2

\* A publisher's bundle, once checked, is the one it has to publish.
LEMMA OwnBundle ==
  ASSUME RefineInv, NEW p \in Publishers, step[p] \in {"fresh", "commit"}
  PROVE  p \notin committed /\ p \notin touched /\ tree[p] = BundleTree(Want[p])
<1>1. p \notin committed
  BY DEF RefineInv, SafetyInv, CommitInv
<1>2. PICK b \in Bundles : tree[p] = BundleTree(b)
  BY DEF RefineInv, SafetyInv, StageInv, Complete
<1>3. tree[p][Manifest] = b /\ tree[p][Manifest] \in {None, Want[p]}
  BY <1>1, <1>2 DEF RefineInv, OwnInv, BundleTree, Names, Files
<1>4. b = Want[p]
  BY <1>3, PublicationAssumption
<1>5. QED
  BY <1>1, <1>2, <1>4 DEF RefineInv, OwnInv

\* After a rename to the destination its users see what was renamed, before it
\* nothing; a backup changes only when the directory comes from there.
LEMMA RenameShows ==
  ASSUME RefineInv, UniqueInv', NEW d \in Dirs, RenameToDest(d), UNCHANGED <<tree, touched>>
  PROVE  /\ Output = None
         /\ tree[d] = Nothing => Output' = None
         /\ tree[d] # Nothing => Output' = Seen(d)
         /\ \A q \in Publishers : place[d] # q /\ (q \in committed' <=> q \in committed) => Held(q)' = Held(q)
<1>a. OutputSound /\ OutputSound' /\ HeldSound /\ HeldSound'
  BY ViewIs
<1>b. UniqueInv
  BY DEF RefineInv, AnswerInv
<1>c. \A e \in Dirs : AtDest(e) => tree[e] = Nothing
  BY DEF RenameToDest, CanRenameToDest
<1>d. /\ place'[d] = "dest"
      /\ \A e \in Dirs : e # d => place'[e] = IF place[e] = "dest" THEN "nowhere" ELSE place[e]
  BY DEF RenameToDest, AtDest, RefineInv, SafetyInv, TypeOK
<1>e. \A q \in Publishers : q \notin {"nowhere", "stage", "dest"}
  BY PublicationAssumption
<1>1. Output = None
  BY <1>a, <1>b, <1>c DEF OutputSound
<1>2. tree[d] = Nothing => Output' = None
  BY <1>a, <1>d DEF OutputSound, AtDest
<1>3. tree[d] # Nothing => Output' = Seen(d)
  <2>1. Seen(d)' = Seen(d)
    BY DEF Seen
  <2>2. QED
    BY <1>a, <1>d, <2>1 DEF OutputSound, AtDest
<1>4. ASSUME NEW q \in Publishers, place[d] # q, q \in committed' <=> q \in committed
      PROVE  Held(q)' = Held(q)
  <2>1. \A e \in Dirs : place'[e] = q <=> place[e] = q
    BY <1>d, <1>e, <1>4
  <2>2. \A e \in Dirs : Seen(e)' = Seen(e)
    BY DEF Seen
  <2>3. CASE q \in committed
    BY <1>a, <1>b, <1>4, <2>3 DEF HeldSound
  <2>4. CASE q \notin committed /\ \E e \in Dirs : place[e] = q /\ tree[e] # Nothing
    BY <1>a, <1>b, <1>4, <2>1, <2>2, <2>4 DEF HeldSound
  <2>5. CASE \A e \in Dirs : place[e] = q => tree[e] = Nothing
    BY <1>a, <1>b, <1>4, <2>1, <2>5 DEF HeldSound
  <2>6. QED
    BY <2>3, <2>4, <2>5
<1>5. QED
  BY <1>1, <1>2, <1>3, <1>4

\* A rename that publishes is a Put.
LEMMA PublishPuts ==
  ASSUME RefineInv, UniqueInv', NEW p \in Publishers, PublishFresh(p) \/ Commit(p), RenameToDest(p)
  PROVE  Promise!Put(p)
<1> USE DEF RefineInv, SafetyInv, TypeOK
<1>1. step[p] \in {"fresh", "commit"} /\ UNCHANGED <<tree, touched>>
  BY DEF PublishFresh, Commit
<1>2. p \notin committed /\ p \notin touched /\ tree[p] = BundleTree(Want[p])
  BY <1>1, OwnBundle
<1>3. committed' = committed \cup {p}
  <2>1. AtDest(p)'
    BY DEF RenameToDest, AtDest, Dirs
  <2>2. ~AtDest(p)
    BY <1>2, PublicationAssumption DEF OwnInv, AtDest
  <2>3. ~UNCHANGED place
    BY <2>1, <2>2 DEF AtDest
  <2>4. QED
    BY <2>3 DEF PublishFresh, Commit
<1>4. Want[p] \in Bundles
  BY PublicationAssumption
<1>5. Output = None /\ Output' = Want[p]
  <2>1. p \in Dirs /\ tree[p] # Nothing
    BY <1>2, <1>4, BundleTreeType DEF Dirs
  <2>2. Output = None /\ Output' = Seen(p)
    BY <1>1, <2>1, RenameShows
  <2>3. Seen(p) = Want[p]
    BY <1>2 DEF Seen, BundleTree, Names, Files
  <2>4. QED
    BY <2>2, <2>3
<1>6. \A q \in Publishers : q # p => Held(q)' = Held(q)
  <2>1. place[p] \notin Publishers
    BY <1>2, PublicationAssumption DEF OwnInv
  <2>2. p \in Dirs
    BY DEF Dirs
  <2>3. QED
    BY <1>1, <1>3, <2>1, <2>2, RenameShows
<1>7. Held(p)' = None
  BY <1>3 DEF Held
<1>8. Silent
  BY DEF Silent, PublishFresh, Commit, Goto, Return
<1>9. [q \in Publishers |-> Held(q)]' = [[q \in Publishers |-> Held(q)] EXCEPT ![p] = None]
  BY <1>6, <1>7
<1>10. [q \in Publishers |-> IF step[q] = "done" THEN outcome[q] ELSE "pending"]' =
       [q \in Publishers |-> IF step[q] = "done" THEN outcome[q] ELSE "pending"]
  BY <1>8 DEF Silent
<1>11. QED
  BY <1>2, <1>3, <1>5, <1>9, <1>10 DEF Promise!Put

\* Moving the destination into the backup is a Take, or does not show when the
\* directory is empty.
LEMMA MoveTakes ==
  ASSUME RefineInv, UniqueInv', NEW p \in Publishers, MovePrevious(p), ~UNCHANGED place
  PROVE  Promise!Take(p) \/ UNCHANGED Promise!vars
<1> USE DEF RefineInv, SafetyInv, TypeOK
<1>a. OutputSound /\ OutputSound' /\ HeldSound /\ HeldSound' /\ UniqueInv
  BY ViewIs DEF AnswerInv
<1>b. \A q \in Publishers : q \notin {"nowhere", "stage", "dest"}
  BY PublicationAssumption
<1>1. PICK d \in Dirs : place[d] = "dest" /\ place' = [place EXCEPT ![d] = p]
  BY DEF MovePrevious, AtDest
<1>2. UNCHANGED <<tree, touched, committed>> /\ step[p] = "move"
  BY DEF MovePrevious
<1>3. p \notin committed /\ p \in Clean
  BY <1>2 DEF CommitInv, CleanInv
<1>4. \A e \in Dirs : place[e] # p
  BY <1>2 DEF AnswerInv, HolderInv
<1>5. \A e \in Dirs : e # d => place[e] # "dest"
  BY <1>1, <1>a DEF UniqueInv
<1>6. place'[d] = p /\ \A e \in Dirs : e # d => place'[e] = place[e]
  BY <1>1
<1>7. \A e \in Dirs : Seen(e)' = Seen(e)
  BY <1>2 DEF Seen
<1>8. Output' = None
  BY <1>a, <1>b, <1>5, <1>6 DEF OutputSound, AtDest
<1>9. Held(p) = None
  BY <1>a, <1>4 DEF HeldSound
<1>10. ASSUME NEW q \in Publishers, q # p PROVE Held(q)' = Held(q)
  <2>1. \A e \in Dirs : place'[e] = q <=> place[e] = q
    BY <1>b, <1>1, <1>6, <1>10
  <2>2. CASE q \in committed
    BY <1>a, <1>2, <2>2 DEF HeldSound
  <2>3. CASE q \notin committed /\ \E e \in Dirs : place[e] = q /\ tree[e] # Nothing
    BY <1>a, <1>2, <1>7, <2>1, <2>3 DEF HeldSound
  <2>4. CASE \A e \in Dirs : place[e] = q => tree[e] = Nothing
    BY <1>a, <1>2, <2>1, <2>4 DEF HeldSound
  <2>5. QED
    BY <2>2, <2>3, <2>4
<1>11. [q \in Publishers |-> IF step[q] = "done" THEN outcome[q] ELSE "pending"]' =
       [q \in Publishers |-> IF step[q] = "done" THEN outcome[q] ELSE "pending"]
  BY DEF MovePrevious, Goto
<1>12. CASE tree[d] = Nothing
  <2>1. Output = None
    BY <1>a, <1>5, <1>12 DEF OutputSound, AtDest
  <2>2. Held(p)' = None
    BY <1>a, <1>2, <1>4, <1>6, <1>12 DEF HeldSound
  <2>3. [q \in Publishers |-> Held(q)]' = [q \in Publishers |-> Held(q)]
    BY <1>9, <1>10, <2>2
  <2>4. QED
    BY <1>2, <1>8, <1>11, <2>1, <2>3 DEF Promise!vars
<1>13. CASE tree[d] # Nothing
  <2>1. Output = Seen(d)
    BY <1>a, <1>1, <1>13 DEF OutputSound, AtDest
  <2>2. Seen(d) # None
    BY <1>1, SeenIsOutput DEF Kept, AtDest
  <2>3. Held(p)' = Seen(d)
    BY <1>a, <1>2, <1>3, <1>6, <1>7, <1>13 DEF HeldSound
  <2>4. [q \in Publishers |-> Held(q)]' = [[q \in Publishers |-> Held(q)] EXCEPT ![p] = Output]
    BY <1>10, <2>1, <2>3
  <2>5. [q \in Publishers |-> Held(q)][p] = None
    BY <1>9
  <2>6. QED
    BY <1>2, <1>3, <1>8, <1>11, <2>1, <2>2, <2>4, <2>5 DEF Promise!Take
<1>14. QED
  BY <1>12, <1>13

\* Renaming the backup back is a GiveBack, or does not show when it is empty.
LEMMA RestoreGivesBack ==
  ASSUME RefineInv, UniqueInv', NEW p \in Publishers, Restore(p), ~UNCHANGED place
  PROVE  Promise!GiveBack(p) \/ UNCHANGED Promise!vars
<1> USE DEF RefineInv, SafetyInv, TypeOK
<1>a. OutputSound /\ OutputSound' /\ HeldSound /\ HeldSound' /\ UniqueInv
  BY ViewIs DEF AnswerInv
<1>1. PICK d \in Dirs : place[d] = p /\ RenameToDest(d)
  BY DEF Restore
<1>2. UNCHANGED <<tree, touched, committed>> /\ step[p] = "restore"
  BY DEF Restore
<1>3. p \notin committed
  BY <1>2 DEF CommitInv
<1>4. \A e \in Dirs : e # d => place[e] # p
  BY <1>1, <1>a DEF UniqueInv
<1>5. /\ Output = None
      /\ tree[d] = Nothing => Output' = None
      /\ tree[d] # Nothing => Output' = Seen(d)
      /\ \A q \in Publishers : q # p => Held(q)' = Held(q)
  BY <1>1, <1>2, RenameShows
<1>6. Held(p)' = None
  <2>1. \A e \in Dirs : place'[e] # p
    BY <1>1, <1>4, PublicationAssumption DEF RenameToDest
  <2>2. QED
    BY <1>a, <2>1 DEF HeldSound
<1>7. [q \in Publishers |-> IF step[q] = "done" THEN outcome[q] ELSE "pending"]' =
      [q \in Publishers |-> IF step[q] = "done" THEN outcome[q] ELSE "pending"]
  BY <1>2 DEF Restore, Goto, Return
<1>8. CASE tree[d] = Nothing
  <2>1. Held(p) = None
    BY <1>a, <1>4, <1>8 DEF HeldSound
  <2>2. [q \in Publishers |-> Held(q)]' = [q \in Publishers |-> Held(q)]
    BY <1>5, <1>6, <2>1
  <2>3. QED
    BY <1>2, <1>5, <1>7, <1>8, <2>2 DEF Promise!vars
<1>9. CASE tree[d] # Nothing
  <2>1. Held(p) = Seen(d)
    BY <1>a, <1>1, <1>3, <1>9 DEF HeldSound
  <2>2. Seen(d) # None
    BY <1>1, <1>3, SeenIsOutput DEF Kept
  <2>3. [q \in Publishers |-> Held(q)]' = [[q \in Publishers |-> Held(q)] EXCEPT ![p] = None]
    BY <1>5, <1>6
  <2>4. [q \in Publishers |-> Held(q)][p] = Seen(d)
    BY <2>1
  <2>5. QED
    BY <1>2, <1>3, <1>5, <1>7, <1>9, <2>2, <2>3, <2>4 DEF Promise!GiveBack
<1>10. QED
  BY <1>8, <1>9

\* Returning is an Answer, and says what is true.
LEMMA ReturnAnswers ==
  ASSUME RefineInv, UniqueInv', NEW p \in Publishers, RemoveStage(p)
  PROVE  Promise!Answer(p)
<1> USE DEF RefineInv, SafetyInv, TypeOK
<1>a. \A q \in Publishers : q \notin {"nowhere", "stage", "dest"}
  BY PublicationAssumption
<1>1. step[p] = "return" /\ step' = [step EXCEPT ![p] = "done"] /\ UNCHANGED outcome
  BY DEF RemoveStage, Goto
<1>2. KeptUnchanged
  BY <1>a DEF RemoveStage, KeptUnchanged, Kept, AtDest, Dirs, history
<1>3. Output' = Output /\ \A q \in Publishers : Held(q)' = Held(q)
  BY <1>2, KeptView DEF AnswerInv
<1>4. [q \in Publishers |-> Held(q)]' = [q \in Publishers |-> Held(q)]
  BY <1>3
<1>5. outcome[p] \in Outcomes \ {"pending"} /\ (outcome[p] \in {"published", "leftover"} <=> p \in committed)
  BY <1>1 DEF AnswerInv, PendingInv, ClaimInv
<1>6. outcome[p] # "retained" => Held(p) = None
  <2>1. CASE p \in committed
    BY <2>1 DEF Held
  <2>2. CASE p \notin committed /\ outcome[p] # "retained"
    BY <1>1, <1>5, <2>2 DEF AnswerInv, HolderInv, Held
  <2>3. QED
    BY <2>1, <2>2
<1>7. [q \in Publishers |-> IF step[q] = "done" THEN outcome[q] ELSE "pending"]' =
      [[q \in Publishers |-> IF step[q] = "done" THEN outcome[q] ELSE "pending"] EXCEPT ![p] = outcome[p]]
  BY <1>1
<1>8. [q \in Publishers |-> IF step[q] = "done" THEN outcome[q] ELSE "pending"][p] = "pending"
  BY <1>1
<1>9. [q \in Publishers |-> Held(q)][p] = Held(p)
  OBVIOUS
<1>10. outcome[p] \in {"published", "leftover", "failed", "reused", "retained", "littered"}
  BY <1>5 DEF Outcomes
<1>11. QED
  BY <1>2, <1>3, <1>4, <1>5, <1>6, <1>7, <1>8, <1>9, <1>10 DEF Promise!Answer, KeptUnchanged

\* What the user does to the output shows as such.
LEMMA UserShows ==
  ASSUME RefineInv, UniqueInv', UserWrites \/ UserRemoves \/ UserCreates
  PROVE  Promise!UserActs
<1> USE DEF RefineInv, SafetyInv, TypeOK
<1>a. OutputSound /\ OutputSound' /\ HeldSound /\ HeldSound' /\ UniqueInv
  BY ViewIs DEF AnswerInv
<1>b. \A q \in Publishers : q \notin {"nowhere", "stage", "dest"}
  BY PublicationAssumption
<1>1. UNCHANGED <<step, outcome, committed>>
  BY DEF UserWrites, UserRemoves, UserCreates
<1>2. ASSUME NEW d \in Dirs,
             place[d] \in {"dest", "nowhere"}, place'[d] \in {"dest", "nowhere"},
             \A e \in Dirs : e # d => place'[e] = place[e] /\ tree'[e] = tree[e] /\ (e \in touched' <=> e \in touched)
      PROVE  \A q \in Publishers : Held(q)' = Held(q)
  <2> SUFFICES ASSUME NEW q \in Publishers PROVE Held(q)' = Held(q)
    OBVIOUS
  <2>1. \A e \in Dirs : place'[e] = q <=> place[e] = q
    BY <1>b, <1>2
  <2>2. \A e \in Dirs : place[e] = q => tree'[e] = tree[e] /\ Seen(e)' = Seen(e)
    BY <1>b, <1>2 DEF Seen
  <2>3. CASE q \in committed
    BY <1>a, <1>1, <2>3 DEF HeldSound
  <2>4. CASE q \notin committed /\ \E e \in Dirs : place[e] = q /\ tree[e] # Nothing
    BY <1>a, <1>1, <2>1, <2>2, <2>4 DEF HeldSound
  <2>5. CASE \A e \in Dirs : place[e] = q => tree[e] = Nothing
    BY <1>a, <1>1, <2>1, <2>2, <2>5 DEF HeldSound
  <2>6. QED
    BY <2>3, <2>4, <2>5
<1>3. Output' \in {None, User} /\ \A q \in Publishers : Held(q)' = Held(q)
  <2>1. CASE UserWrites
    <3>1. PICK d \in Dirs, n \in Names :
            AtDest(d) /\ tree' = [tree EXCEPT ![d][n] = User] /\ touched' = touched \cup {d}
      BY <2>1 DEF UserWrites
    <3>2. UNCHANGED place
      BY <2>1 DEF UserWrites
    <3>3. tree'[d][n] = User
      BY <3>1 DEF Trees
    <3>4. tree'[d] # Nothing
      BY <3>3, PublicationAssumption DEF Nothing
    <3>5. Output' = User
      BY <1>a, <3>1, <3>2, <3>4 DEF OutputSound, AtDest, Seen
    <3>6. \A q \in Publishers : Held(q)' = Held(q)
      BY <1>2, <3>1, <3>2 DEF AtDest
    <3>7. QED
      BY <3>5, <3>6
  <2>2. CASE UserRemoves
    <3>1. PICK d \in Dirs :
            AtDest(d) /\ place' = [place EXCEPT ![d] = "nowhere"] /\ tree' = [tree EXCEPT ![d] = Nothing]
      BY <2>2 DEF UserRemoves
    <3>2. UNCHANGED touched
      BY <2>2 DEF UserRemoves
    <3>3. \A e \in Dirs : place'[e] # "dest"
      BY <1>a, <3>1 DEF UniqueInv, AtDest
    <3>4. Output' = None
      BY <1>a, <3>3 DEF OutputSound, AtDest
    <3>5. \A q \in Publishers : Held(q)' = Held(q)
      BY <1>2, <3>1, <3>2 DEF AtDest
    <3>6. QED
      BY <3>4, <3>5
  <2>3. CASE UserCreates
    <3>1. /\ place[Existing] = "nowhere" /\ place' = [place EXCEPT ![Existing] = "dest"]
          /\ touched' = touched \cup {Existing} /\ UNCHANGED tree /\ \A e \in Dirs : place[e] # "dest"
      BY <2>3 DEF UserCreates, DestFree, AtDest
    <3>2. Existing \in Dirs
      BY DEF Dirs
    <3>3. \A e \in Dirs : place'[e] = "dest" => e = Existing
      BY <3>1
    <3>4. tree[Existing] = Nothing => Output' = None
      BY <1>a, <3>1, <3>3 DEF OutputSound, AtDest
    <3>5. tree[Existing] # Nothing => Output' = User
      BY <1>a, <3>1, <3>2 DEF OutputSound, AtDest, Seen
    <3>6. \A q \in Publishers : Held(q)' = Held(q)
      BY <1>2, <3>1, <3>2
    <3>7. QED
      BY <3>4, <3>5, <3>6
  <2>4. QED
    BY <2>1, <2>2, <2>3
<1>4. [q \in Publishers |-> Held(q)]' = [q \in Publishers |-> Held(q)]
  BY <1>3
<1>5. [q \in Publishers |-> IF step[q] = "done" THEN outcome[q] ELSE "pending"]' =
      [q \in Publishers |-> IF step[q] = "done" THEN outcome[q] ELSE "pending"]
  BY <1>1
<1>6. QED
  BY <1>1, <1>3, <1>4, <1>5 DEF Promise!UserActs

\* Every step of the publication is a step of the promise, or does not show.
LEMMA RefineStep == RefineInv /\ UniqueInv' /\ [Next]_vars => [Promise!Next]_(Promise!vars)
<1> SUFFICES ASSUME RefineInv, UniqueInv', [Next]_vars
             PROVE  Promise!Next \/ UNCHANGED Promise!vars
  OBVIOUS
<1>a. UniqueInv
  BY DEF RefineInv, AnswerInv
<1>1. ASSUME KeptUnchanged /\ Silent PROVE UNCHANGED Promise!vars
  BY <1>1, <1>a, QuietStutters
<1>2. ASSUME NEW p \in Publishers,
             \/ Inspect(p) \/ ReadManifest(p) \/ ListFiles(p) \/ VerifyFile(p) \/ CreateStage(p)
             \/ WriteStage(p) \/ CheckStage(p) \/ CreateBackup(p) \/ RemoveBackup(p) \/ Purge(p) \/ Crash(p)
      PROVE  UNCHANGED Promise!vars
  BY <1>1, <1>2, PrivateSteps
<1>3. ASSUME NEW p \in Publishers, PublishFresh(p) \/ Commit(p)
      PROVE  Promise!Put(p) \/ UNCHANGED Promise!vars
  <2>1. CASE RenameToDest(p)
    BY <1>3, <2>1, PublishPuts
  <2>2. CASE ~RenameToDest(p)
    <3>1. UNCHANGED <<tree, place, committed, touched>>
      BY <1>3, <2>2 DEF PublishFresh, Commit
    <3>2. QED
      BY <1>1, <1>3, <3>1, RefusedSteps
  <2>3. QED
    BY <2>1, <2>2
<1>4. ASSUME NEW p \in Publishers, MovePrevious(p)
      PROVE  Promise!Take(p) \/ UNCHANGED Promise!vars
  <2>1. CASE UNCHANGED place
    <3>1. UNCHANGED <<tree, place, committed, touched>>
      BY <1>4, <2>1 DEF MovePrevious
    <3>2. QED
      BY <1>1, <1>4, <3>1, RefusedSteps
  <2>2. QED
    BY <1>4, <2>1, MoveTakes
<1>5. ASSUME NEW p \in Publishers, Restore(p)
      PROVE  Promise!GiveBack(p) \/ UNCHANGED Promise!vars
  <2>1. CASE UNCHANGED place
    <3>1. UNCHANGED <<tree, place, committed, touched>>
      BY <1>5, <2>1 DEF Restore
    <3>2. QED
      BY <1>1, <1>5, <3>1, RefusedSteps
  <2>2. QED
    BY <1>5, <2>1, RestoreGivesBack
<1>6. ASSUME NEW p \in Publishers, RemoveStage(p) PROVE Promise!Answer(p)
  BY <1>6, ReturnAnswers
<1>7. CASE UserWrites \/ UserRemoves \/ UserCreates
  BY <1>7, UserShows DEF Promise!Next
<1>8. CASE UNCHANGED vars
  BY <1>1, <1>8 DEF vars, disk, history, KeptUnchanged, Silent, Kept, AtDest
<1>9. QED
  BY <1>2, <1>3, <1>4, <1>5, <1>6, <1>7, <1>8 DEF Next, Publisher, Promise!Next

\* The initial output is absent, or a bundle, or the user's.
LEMMA RefineInit == Init => Promise!Init
<1> SUFFICES ASSUME Init PROVE Promise!Init
  OBVIOUS
<1>1. SafetyInv /\ UniqueInv
  BY InitSafety, PublicationAssumption DEF Init, UniqueInv, Dirs
<1>a. OutputSound /\ HeldSound
  BY ViewIs
<1>2. \A d \in Dirs, p \in Publishers : place[d] # p
  BY PublicationAssumption DEF Init
<1>3. \A p \in Publishers : Held(p) = None
  BY <1>2 DEF Held
<1>4. Output \in Bundles \cup {User, None}
  <2>1. CASE \E d \in Dirs : AtDest(d) /\ tree[d] # Nothing
    <3>1. PICK d \in Dirs : AtDest(d) /\ tree[d] # Nothing
      BY <2>1
    <3>2. Output = Seen(d)
      BY <1>1, <1>a, <3>1 DEF OutputSound
    <3>3. CASE d \in touched
      BY <3>2, <3>3 DEF Seen
    <3>4. CASE d \notin touched
      <4>1. PICK b \in Bundles : tree[d] = BundleTree(b)
        BY <1>1, <3>1, <3>4 DEF SafetyInv, KeptInv, Kept, Complete
      <4>2. tree[d][Manifest] = b
        BY <4>1 DEF BundleTree, Names, Files
      <4>3. QED
        BY <3>2, <3>4, <4>2 DEF Seen
    <3>5. QED
      BY <3>3, <3>4
  <2>2. CASE ~\E d \in Dirs : AtDest(d) /\ tree[d] # Nothing
    BY <2>2 DEF Output
  <2>3. QED
    BY <2>1, <2>2
<1>5. committed = {} /\ \A p \in Publishers : step[p] # "done"
  BY DEF Init
<1>6. QED
  BY <1>3, <1>4, <1>5 DEF Promise!Init, Promise!Outputs

\* Publication in its file system steps, interleaved, failing and killed, keeps
\* the promise of ArtifactOutput for any number of publishers.
THEOREM PublicationKeepsPromise == Spec => KeepsPromise
<1>1. Init => CleanInv /\ OwnInv
  BY PublicationAssumption DEF Init, CleanInv, OwnInv, Only, Nothing, Dirs
<1>2. SafetyInv /\ CleanInv /\ OwnInv /\ [Next]_vars => CleanInv' /\ OwnInv'
  BY CleanStep, OwnStep DEF SafetyInv
<1>3. Spec => [](CleanInv /\ OwnInv)
  BY Safety, <1>1, <1>2, PTL DEF Spec
<1>4. SafetyInv /\ AnswerInv /\ CleanInv /\ OwnInv => RefineInv
  BY DEF RefineInv
<1>5. AnswerInv => UniqueInv
  BY DEF AnswerInv
<1>6. Spec => []RefineInv /\ []UniqueInv
  BY Safety, Answers, <1>3, <1>4, <1>5, PTL
<1>7. QED
  BY RefineInit, RefineStep, <1>6, PTL DEF Spec, KeepsPromise, Promise!Spec

=============================================================================
