------------------------- MODULE ArtifactPublication -------------------------
(***************************************************************************)
(* Publication of a generated artifact bundle into a shared output         *)
(* directory: PublishArtifacts of src/internal/compiler/publish.go with    *)
(* StageArtifacts, ReadArtifacts and VerifyArtifacts of artifacts.go.      *)
(*                                                                         *)
(* Several publishers (one `otelplan compile --output` process each) work  *)
(* on one destination.  No lock protects it: all that is atomic is a       *)
(* rename, the creation of a temporary directory and the read of one file. *)
(* The user may edit or remove the destination at any moment, an operation *)
(* on the file system may fail, and a process may be killed between two    *)
(* operations.                                                             *)
(***************************************************************************)
EXTENDS Naturals, FiniteSets

CONSTANTS
  Publishers,   \* the publishing processes
  Clean,        \* those started with --clean
  Bundles,      \* the inventories a compilation can produce
  Want,         \* Want[p]: the inventory p has to publish
  Payload,      \* the generated files of a bundle, manifest.json left out
  Manifest,     \* the file manifest.json
  Extra,        \* a file no bundle contains
  User,         \* content the user wrote
  None,         \* no such file, no such bundle, no such directory
  Existing,     \* the directory found (or made by the user) at the destination
  Running,      \* bound: publishers that run together
  MaxEdits,     \* bound: actions of the user
  MaxFaults     \* bound: failed operations and killed processes

ASSUME PublicationAssumption ==
  /\ Clean \subseteq Publishers
  /\ Want \in [Publishers -> Bundles]
  /\ Manifest \notin Payload /\ Extra \notin Payload /\ Manifest # Extra
  /\ User \notin Bundles /\ None \notin Bundles /\ User # None
  /\ Existing \notin Publishers /\ None \notin Publishers /\ Existing # None
  /\ "nowhere" \notin Publishers /\ "stage" \notin Publishers
  /\ "dest" \notin Publishers
  /\ Running \in Nat /\ MaxEdits \in Nat /\ MaxFaults \in Nat

\* A directory is named by the publisher that staged it: a publisher stages
\* one.  Its contents: for every file name, whose content is there.
Dirs    == Publishers \cup {Existing}
Files   == Payload \cup {Manifest}
Names   == Files \cup {Extra}
Trees   == [Names -> Bundles \cup {User, None}]
Nothing == [n \in Names |-> None]

BundleTree(b) == [n \in Names |-> IF n \in Files THEN b ELSE None]

\* ReadArtifacts accepts the tree: the manifest names an inventory and the
\* files present are that inventory's, each with its digest.
Complete(t) == \E b \in Bundles : t = BundleTree(b)

\* Mutant: what is not in the inventory goes unnoticed.
PresentInventory(t) == {n \in Files : t[n] # None}

Present(t) == {n \in Names : t[n] # None}

\* Where a directory is: its private staging path, the destination, or
\* "artifacts" inside the backup directory of a publisher.
Places == {"nowhere", "stage", "dest"} \cup Publishers

Steps == {"inspect", "manifest", "list", "files", "stage", "write", "check",
          "fresh", "backup", "move", "commit", "restore", "unbackup", "purge",
          "return", "done", "crashed"}

\* "leftover": published, but the replaced directory could not be removed.
\* "retained": not published, the replaced directory is still in the backup.
\* "littered": not published, the empty backup could not be removed.
Outcomes == {"pending", "published", "reused", "failed", "retained", "leftover", "littered"}

VARIABLES
  tree,       \* directory -> its files
  place,      \* directory -> where it is
  backups,    \* publishers whose otelplan-previous-* directory exists
  step,       \* publisher -> the operation it performs next
  previous,   \* publisher -> the inventory it read from the destination
  opened,     \* publisher -> the directory VerifyArtifacts holds open
  unread,     \* publisher -> the files VerifyArtifacts has still to read
  outcome,    \* publisher -> what it reports
  edits,      \* actions the user took
  faults      \* faults that happened

\* History, for the properties only.
VARIABLES
  committed,  \* publishers that renamed their directory to the destination
  touched,    \* directories the user wrote to, or made
  dirtySeen,  \* publisher -> the modified directory it found at the
              \* destination and that has been there ever since
  owed        \* an output was there, and the user has not removed it

disk    == <<tree, place, backups>>
locals  == <<previous, opened, unread>>
history == <<committed, touched, dirtySeen, owed>>
vars    == <<disk, step, locals, outcome, edits, faults, history>>

Only(d, t) == [e \in Dirs |-> IF e = d THEN t ELSE Nothing]

\* The destination starts absent, or a bundle, or a directory of the user's,
\* possibly a bundle he changed.  A publisher that does not run counts as one
\* that was killed before its first operation.
Init ==
  /\ \/ /\ place = [d \in Dirs |-> "nowhere"]
        /\ tree = [d \in Dirs |-> Nothing]
        /\ touched = {}
     \/ /\ place = [d \in Dirs |-> IF d = Existing THEN "dest" ELSE "nowhere"]
        /\ \E b \in Bundles :
             \/ tree = Only(Existing, BundleTree(b)) /\ touched = {}
             \/ /\ tree \in {Only(Existing, [BundleTree(b) EXCEPT ![Extra] = User]),
                            Only(Existing, [Nothing EXCEPT ![Extra] = User])}
                /\ touched = {Existing}
  /\ owed = (place[Existing] = "dest")
  /\ backups = {}
  /\ step \in [Publishers -> {"inspect", "crashed"}]
  /\ Cardinality({p \in Publishers : step[p] = "inspect"}) = Running
  /\ previous = [p \in Publishers |-> None]
  /\ opened = [p \in Publishers |-> None]
  /\ unread = [p \in Publishers |-> {}]
  /\ outcome = [p \in Publishers |-> "pending"]
  /\ edits = 0 /\ faults = 0
  /\ committed = {}
  /\ dirtySeen = [p \in Publishers |-> None]

-----------------------------------------------------------------------------
(* The file system.                                                        *)

AtDest(d) == place[d] = "dest"
DestFree  == \A d \in Dirs : ~AtDest(d)

\* Mutant: a rename that replaces whatever is there.
RenameReplaces == TRUE

\* rename(2) replaces an empty directory and refuses one that has entries.
CanRenameToDest == \A d \in Dirs : AtDest(d) => tree[d] = Nothing

RenameToDest(d) ==
  /\ CanRenameToDest
  /\ place' = [e \in Dirs |-> IF e = d THEN "dest" ELSE IF AtDest(e) THEN "nowhere" ELSE place[e]]
  /\ dirtySeen' = [p \in Publishers |->
                     IF dirtySeen[p] # None /\ AtDest(dirtySeen[p]) THEN None ELSE dirtySeen[p]]

\* An operation on the file system fails for a reason of its own.
Fault == /\ faults < MaxFaults
         /\ faults' = faults + 1

\* An operation does not succeed: its precondition is missing, or it fails.
Refused(condition) == (condition /\ UNCHANGED faults) \/ Fault

Goto(p, s) == step' = [step EXCEPT ![p] = s]

\* Mutant: the caller is not told that the backup was kept.
ReturnPlain(p, answer) ==
  /\ Goto(p, "return")
  /\ outcome' = [outcome EXCEPT ![p] = IF answer = "retained" THEN "failed" ELSE answer]

Return(p, answer) ==
  /\ Goto(p, "return")
  /\ outcome' = [outcome EXCEPT ![p] = answer]

-----------------------------------------------------------------------------
(* existingArtifactOutput and ReadArtifacts: what is at the destination?   *)

Inspect(p) ==
  /\ step[p] = "inspect"
  /\ \/ /\ DestFree
        /\ Goto(p, "stage")
        /\ UNCHANGED <<outcome, faults, dirtySeen>>
     \/ \E d \in Dirs :
          /\ AtDest(d)
          /\ Goto(p, "manifest")
          /\ dirtySeen' = [dirtySeen EXCEPT ![p] = IF Complete(tree[d]) THEN None ELSE d]
          /\ UNCHANGED <<outcome, faults>>
     \/ /\ Fault
        /\ Return(p, "failed")
        /\ UNCHANGED dirtySeen
  /\ UNCHANGED <<disk, locals, edits, committed, touched, owed>>

\* readRegularArtifact: the file is read at once, or refused when it changes.
Contents(d, n) == tree[d][n]

\* Mutant: any manifest.json is taken for an inventory.
AnyInventory(d) == TRUE

\* artifactManifestInventory accepts manifest.json.
HasInventory(d) == Contents(d, Manifest) \in Bundles

\* Opens the directory and reads manifest.json, the inventory to verify.
ReadManifest(p) ==
  /\ step[p] = "manifest"
  /\ \/ \E d \in Dirs :
          /\ AtDest(d)
          /\ HasInventory(d)
          /\ previous' = [previous EXCEPT ![p] = Contents(d, Manifest)]
          /\ Goto(p, "list")
          /\ UNCHANGED <<outcome, faults>>
     \/ /\ Refused(\A d \in Dirs : AtDest(d) => ~HasInventory(d))
        /\ Return(p, "failed")
        /\ UNCHANGED previous
  /\ UNCHANGED <<disk, opened, unread, edits, history>>

\* VerifyArtifacts opens the path again and lists what is in it.
ListFiles(p) ==
  /\ step[p] = "list"
  /\ \/ \E d \in Dirs :
          /\ AtDest(d)
          /\ Present(tree[d]) = Files
          /\ opened' = [opened EXCEPT ![p] = d]
          /\ unread' = [unread EXCEPT ![p] = Files]
          /\ Goto(p, "files")
          /\ UNCHANGED <<outcome, faults>>
     \/ /\ Refused(\A d \in Dirs : AtDest(d) => Present(tree[d]) # Files)
        /\ Return(p, "failed")
        /\ UNCHANGED <<opened, unread>>
  /\ UNCHANGED <<disk, previous, edits, history>>

\* One file is read and its digest compared with the manifest's.
VerifyFile(p) ==
  /\ step[p] = "files"
  /\ \E n \in unread[p] :
       \/ /\ Contents(opened[p], n) = previous[p]
          /\ unread' = [unread EXCEPT ![p] = @ \ {n}]
          /\ Goto(p, IF unread[p] = {n} THEN "stage" ELSE "files")
          /\ UNCHANGED <<outcome, faults>>
       \/ /\ Refused(Contents(opened[p], n) # previous[p])
          /\ Return(p, "failed")
          /\ UNCHANGED unread
  /\ UNCHANGED <<disk, previous, opened, edits, history>>

-----------------------------------------------------------------------------
(* StageArtifacts: a private directory next to the destination.            *)

\* Mutant: a new output is written in place.
CreateInPlace(p) ==
  /\ step[p] = "stage"
  /\ place' = [place EXCEPT ![p] = IF DestFree THEN "dest" ELSE "stage"]
  /\ Goto(p, "write")
  /\ UNCHANGED <<tree, backups, locals, outcome, edits, faults, history>>

CreateStage(p) ==
  /\ step[p] = "stage"
  /\ \/ /\ place' = [place EXCEPT ![p] = "stage"]
        /\ Goto(p, "write")
        /\ UNCHANGED <<outcome, faults>>
     \/ /\ Fault
        /\ Return(p, "failed")
        /\ UNCHANGED place
  /\ UNCHANGED <<tree, backups, locals, edits, history>>

WriteStage(p) ==
  /\ step[p] = "write"
  /\ \/ \E n \in Files :
          /\ tree[p][n] = None
          /\ tree' = [tree EXCEPT ![p][n] = Want[p]]
          /\ Goto(p, IF \A m \in Files \ {n} : tree[p][m] # None THEN "check" ELSE "write")
          /\ UNCHANGED <<outcome, faults>>
     \/ /\ Fault
        /\ Return(p, "failed")
        /\ UNCHANGED tree
  /\ UNCHANGED <<place, backups, locals, edits, history>>

\* Mutant: an output that differs is replaced without --clean, too.
DecideWithoutClean(p) ==
  \/ previous[p] = None /\ Goto(p, "fresh") /\ UNCHANGED outcome
  \/ previous[p] = Want[p] /\ Return(p, "reused")
  \/ previous[p] \notin {None, Want[p]} /\ Goto(p, "backup") /\ UNCHANGED outcome

Decide(p) ==
  \/ /\ previous[p] = None
     /\ Goto(p, "fresh")
     /\ UNCHANGED outcome
  \/ /\ previous[p] = Want[p]
     /\ Return(p, "reused")
  \/ /\ previous[p] \notin {None, Want[p]}
     /\ p \notin Clean
     /\ Return(p, "failed")
  \/ /\ previous[p] \notin {None, Want[p]}
     /\ p \in Clean
     /\ Goto(p, "backup")
     /\ UNCHANGED outcome

\* The staged bundle verifies; then it is reused, refused or published.
CheckStage(p) ==
  /\ step[p] = "check"
  /\ \/ /\ Complete(tree[p])
        /\ Decide(p)
        /\ UNCHANGED faults
     \/ /\ Refused(~Complete(tree[p]))
        /\ Return(p, "failed")
  /\ UNCHANGED <<disk, locals, edits, history>>

-----------------------------------------------------------------------------
(* publishStagedArtifacts, replaceArtifactOutput, commitArtifactReplacement *)

PublishFresh(p) ==
  /\ step[p] = "fresh"
  /\ \/ /\ RenameToDest(p)
        /\ committed' = committed \cup {p}
        /\ owed' = TRUE
        /\ Return(p, "published")
        /\ UNCHANGED faults
     \/ /\ Refused(~CanRenameToDest)
        /\ Return(p, "failed")
        /\ UNCHANGED <<place, dirtySeen, committed, owed>>
  /\ UNCHANGED <<tree, backups, locals, edits, touched>>

CreateBackup(p) ==
  /\ step[p] = "backup"
  /\ \/ /\ backups' = backups \cup {p}
        /\ Goto(p, "move")
        /\ UNCHANGED <<outcome, faults>>
     \/ /\ Fault
        /\ Return(p, "failed")
        /\ UNCHANGED backups
  /\ UNCHANGED <<tree, place, locals, edits, history>>

\* Mutant: waits until there is a destination to move.
MoveWaits(p) ==
  /\ step[p] = "move"
  /\ \E d \in Dirs :
       /\ AtDest(d)
       /\ place' = [place EXCEPT ![d] = p]
       /\ dirtySeen' = [q \in Publishers |-> IF dirtySeen[q] = d THEN None ELSE dirtySeen[q]]
  /\ Goto(p, "commit")
  /\ UNCHANGED <<tree, backups, locals, outcome, edits, faults, committed, touched, owed>>

\* Whatever is at the destination now goes into the backup.
MovePrevious(p) ==
  /\ step[p] = "move"
  /\ \/ \E d \in Dirs :
          /\ AtDest(d)
          /\ place' = [place EXCEPT ![d] = p]
          /\ dirtySeen' = [q \in Publishers |-> IF dirtySeen[q] = d THEN None ELSE dirtySeen[q]]
          /\ Goto(p, "commit")
          /\ UNCHANGED faults
     \/ /\ Refused(DestFree)
        /\ Goto(p, "unbackup")
        /\ UNCHANGED <<place, dirtySeen>>
  /\ UNCHANGED <<tree, backups, locals, outcome, edits, committed, touched, owed>>

\* Mutant: the backup is removed whether or not the rename succeeded.
CommitAndPurge(p) ==
  /\ step[p] = "commit"
  /\ \/ RenameToDest(p) /\ committed' = committed \cup {p} /\ owed' = TRUE /\ UNCHANGED faults
     \/ Refused(~CanRenameToDest) /\ UNCHANGED <<place, dirtySeen, committed, owed>>
  /\ Goto(p, "purge")
  /\ UNCHANGED <<tree, backups, locals, outcome, edits, touched>>

Commit(p) ==
  /\ step[p] = "commit"
  /\ \/ /\ RenameToDest(p)
        /\ committed' = committed \cup {p}
        /\ owed' = TRUE
        /\ Goto(p, "purge")
        /\ UNCHANGED faults
     \/ /\ Refused(~CanRenameToDest)
        /\ Goto(p, "restore")
        /\ UNCHANGED <<place, dirtySeen, committed, owed>>
  /\ UNCHANGED <<tree, backups, locals, outcome, edits, touched>>

Restore(p) ==
  /\ step[p] = "restore"
  /\ \/ \E d \in Dirs :
          /\ place[d] = p
          /\ RenameToDest(d)
          /\ owed' = TRUE
          /\ Goto(p, "unbackup")
          /\ UNCHANGED <<outcome, faults>>
     \/ /\ Refused(~CanRenameToDest)
        /\ Return(p, "retained")
        /\ UNCHANGED <<place, dirtySeen, owed>>
  /\ UNCHANGED <<tree, backups, locals, edits, committed, touched>>

\* os.Remove of the backup directory, empty again.
RemoveBackup(p) ==
  /\ step[p] = "unbackup"
  /\ \/ /\ backups' = backups \ {p}
        /\ Return(p, "failed")
        /\ UNCHANGED faults
     \/ /\ Fault
        /\ Return(p, "littered")
        /\ UNCHANGED backups
  /\ UNCHANGED <<tree, place, locals, edits, history>>

\* os.RemoveAll of the backup, file by file, then the directory.
Purge(p) ==
  /\ step[p] = "purge"
  /\ \/ \E d \in Dirs, n \in Names :
          /\ place[d] = p
          /\ tree[d][n] # None
          /\ tree' = [tree EXCEPT ![d][n] = None]
          /\ UNCHANGED <<place, backups, step, outcome, faults>>
     \/ /\ \A d \in Dirs : place[d] = p => tree[d] = Nothing
        /\ place' = [d \in Dirs |-> IF place[d] = p THEN "nowhere" ELSE place[d]]
        /\ backups' = backups \ {p}
        /\ Return(p, "published")
        /\ UNCHANGED <<tree, faults>>
     \/ /\ Fault
        /\ Return(p, "leftover")
        /\ UNCHANGED <<tree, place, backups>>
  /\ UNCHANGED <<locals, edits, history>>

\* The deferred os.RemoveAll of the staging path; its error is dropped.
RemoveStage(p) ==
  /\ step[p] = "return"
  /\ Goto(p, "done")
  /\ \/ /\ place[p] = "stage"
        /\ place' = [place EXCEPT ![p] = "nowhere"]
        /\ tree' = [tree EXCEPT ![p] = Nothing]
        /\ UNCHANGED faults
     \/ /\ Refused(place[p] # "stage")
        /\ UNCHANGED <<place, tree>>
  /\ UNCHANGED <<backups, locals, outcome, edits, history>>

Crash(p) ==
  /\ step[p] \notin {"inspect", "done", "crashed"}
  /\ Fault
  /\ Goto(p, "crashed")
  /\ UNCHANGED <<disk, locals, outcome, edits, history>>

-----------------------------------------------------------------------------
(* The user.                                                               *)

Edit == /\ edits < MaxEdits
        /\ edits' = edits + 1

\* Writes a file of the output, or a file of his own next to them.
UserWrites ==
  /\ Edit
  /\ \E d \in Dirs, n \in Names :
       /\ AtDest(d)
       /\ tree' = [tree EXCEPT ![d][n] = User]
       /\ touched' = touched \cup {d}
  /\ UNCHANGED <<place, backups, step, locals, outcome, faults, committed, dirtySeen, owed>>

\* rm -r of the output.
UserRemoves ==
  /\ Edit
  /\ \E d \in Dirs :
       /\ AtDest(d)
       /\ place' = [place EXCEPT ![d] = "nowhere"]
       /\ tree' = [tree EXCEPT ![d] = Nothing]
       /\ dirtySeen' = [p \in Publishers |-> IF dirtySeen[p] = d THEN None ELSE dirtySeen[p]]
  /\ owed' = FALSE
  /\ UNCHANGED <<backups, step, locals, outcome, faults, committed, touched>>

\* mkdir of the output.
UserCreates ==
  /\ Edit
  /\ DestFree
  /\ place[Existing] = "nowhere"
  /\ place' = [place EXCEPT ![Existing] = "dest"]
  /\ touched' = touched \cup {Existing}
  /\ UNCHANGED <<tree, backups, step, locals, outcome, faults, committed, dirtySeen, owed>>

-----------------------------------------------------------------------------
Publisher(p) ==
  \/ Inspect(p)     \/ ReadManifest(p) \/ ListFiles(p)    \/ VerifyFile(p)
  \/ CreateStage(p) \/ WriteStage(p)   \/ CheckStage(p)   \/ PublishFresh(p)
  \/ CreateBackup(p) \/ MovePrevious(p) \/ Commit(p)      \/ Restore(p)
  \/ RemoveBackup(p) \/ Purge(p)      \/ RemoveStage(p)

Next ==
  \/ \E p \in Publishers : Publisher(p) \/ Crash(p)
  \/ UserWrites
  \/ UserRemoves
  \/ UserCreates

-----------------------------------------------------------------------------
(* Properties.                                                             *)

\* Every variable holds a value of its kind.
TypeOK ==
  /\ tree \in [Dirs -> Trees]
  /\ place \in [Dirs -> Places]
  /\ backups \subseteq Publishers
  /\ step \in [Publishers -> Steps]
  /\ previous \in [Publishers -> Bundles \cup {None}]
  /\ opened \in [Publishers -> Dirs \cup {None}]
  /\ unread \in [Publishers -> SUBSET Files]
  /\ outcome \in [Publishers -> Outcomes]
  /\ edits \in 0..MaxEdits /\ faults \in 0..MaxFaults
  /\ committed \subseteq Publishers
  /\ touched \subseteq Dirs
  /\ dirtySeen \in [Publishers -> Dirs \cup {None}]
  /\ owed \in BOOLEAN

\* What is at the destination is a complete bundle unless the user touched it,
\* whatever publishers were killed or failed in the middle: a later run is
\* never refused because of a half-written output (publish.go:105).
DestinationWhole ==
  \A d \in Dirs : AtDest(d) => Complete(tree[d]) \/ d \in touched

\* A directory is kept: it is at the destination, or in the backup of a
\* publisher that has not put its own bundle there.
Kept(d) == AtDest(d) \/ (place[d] \in Publishers /\ place[d] \notin committed)

\* Once there was an output and as long as the user does not remove it, an
\* output is kept whole: killed publishers and failed renames of any number
\* of processes never destroy the last one (publish.go:183-231).
OutputSurvives ==
  owed => \E d \in Dirs : Kept(d) /\ (Complete(tree[d]) \/ d \in touched)

\* What a publisher that returned says is what it did: "published" only if its
\* bundle was put at the destination, a failure only if it never was.  It
\* leaves no directory of its own behind: a backup only when its answer says
\* so, a staging directory only after a fault.
AnswerMatchesDisk ==
  \A p \in Publishers : step[p] \in {"return", "done"} =>
    /\ outcome[p] \in {"published", "leftover"} <=> p \in committed
    /\ outcome[p] \in {"failed", "littered"} => \A d \in Dirs : place[d] # p
    /\ p \in backups => outcome[p] \in {"retained", "leftover", "littered"}
    /\ step[p] = "done" /\ place[p] = "stage" => faults > 0

\* A publisher that found unexpected or modified content at the destination
\* does not go on: not while that directory stays there (publish.go:106).
ModifiedRefused ==
  \A p \in Publishers :
    dirtySeen[p] # None =>
      /\ step[p] \in {"manifest", "list", "files", "return", "done", "crashed"}
      /\ outcome[p] \in {"pending", "failed"}

\* An output that has files leaves the destination in two ways only: the user
\* removes it, or a publisher with --clean that read an inventory other than its
\* own moves it to its backup.  A publisher without --clean takes none away,
\* neither by a move nor by a rename over it, whatever another one put there
\* since it looked (publishStagedArtifacts, replaceArtifactOutput).
OnlyCleanReplaces ==
  [][\A d \in Dirs : AtDest(d) /\ tree[d] # Nothing /\ place'[d] # "dest" =>
       \/ edits' # edits
       \/ \E p \in Clean : place'[d] = p /\ previous[p] \notin {None, Want[p]}]_vars

\* publish.go:106, "unexpected or modified files are never removed": no step
\* of a publisher removes what the user wrote.
UserFilesNeverRemoved ==
  [][\A d \in Dirs, n \in Names :
       tree[d][n] = User /\ tree'[d][n] = None => edits' = edits + 1]_vars

Spec == Init /\ [][Next]_vars

\* A process that is not killed is scheduled until it returns.
LiveSpec == Spec /\ \A p \in Publishers : WF_vars(Publisher(p))

\* Every publisher returns an answer, or is killed: without a lock none waits
\* for another, whatever the others and the user take away under its feet.
EveryoneAnswers == \A p \in Publishers : <>(step[p] \in {"done", "crashed"})

\* The output as its users see it.  An empty directory is no output.
Seen(d) == IF d \in touched THEN User ELSE tree[d][Manifest]

Output ==
  IF \E d \in Dirs : AtDest(d) /\ tree[d] # Nothing
  THEN Seen(CHOOSE d \in Dirs : AtDest(d) /\ tree[d] # Nothing)
  ELSE None

Held(p) ==
  IF p \notin committed /\ \E d \in Dirs : place[d] = p /\ tree[d] # Nothing
  THEN Seen(CHOOSE d \in Dirs : place[d] = p /\ tree[d] # Nothing)
  ELSE None

Promise == INSTANCE ArtifactOutput WITH
  out    <- Output,
  holds  <- [p \in Publishers |-> Held(p)],
  put    <- committed,
  answer <- [p \in Publishers |-> IF step[p] = "done" THEN outcome[p] ELSE "pending"]

\* Publication in its file system steps, interleaved, failing and killed,
\* keeps the promise of ArtifactOutput.
KeepsPromise == Promise!Spec
=============================================================================
