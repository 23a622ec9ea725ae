---------------------------- MODULE ResolutionLock ----------------------------
(***************************************************************************)
(* The resolution lock, otelplan.lock: the commands of                     *)
(* src/internal/cli/lock.go (lock, lock --check, lock --dry-run, diff,     *)
(* diff --check, validate, and the lock check of build --locked) over      *)
(* Parse and Write of src/internal/lockfile.                               *)
(*                                                                         *)
(* Several processes run while the user edits the project and the lock,    *)
(* and while a build owner (an API caller; build itself never writes the   *)
(* lock) records the identity of what it built.  Nothing locks the file:   *)
(* only its replacement by a rename is atomic.                             *)
(***************************************************************************)
EXTENDS LockDiff, FiniteSets

CONSTANTS
  Processes,      \* the running commands
  Assignments,    \* which commands the processes run together
  Resolutions,    \* what analyses of the project's states determine
  Empty,          \* the zero lock of the code, used when there is none
  MaxEdits,       \* bound: edits of the project
  MaxHandEdits,   \* bound: edits of the lock file by the user
  MaxBuilds,      \* bound: identities recorded
  MaxFaults       \* bound: failures and killed processes

Commands == {"lock", "lock --check", "lock --dry-run", "diff", "diff --check", "validate"}

\* A build identity is told by the resolution it was made for.
Stamped(r, b) == WithIdentity(r, b, b)
Locks == Resolutions \cup {Stamped(r, b) : r \in Resolutions, b \in Resolutions}

ASSUME LockAssumption ==
  /\ Assignments \subseteq [Processes -> Commands]
  /\ \A r \in Resolutions \cup {Empty} : DOMAIN r = LockFields /\ Resolution(r) = r
  /\ None \notin Resolutions
  /\ \A r \in Resolutions : ResolutionDiff(Empty, r) # {}
  /\ MaxEdits \in Nat /\ MaxHandEdits \in Nat /\ MaxBuilds \in Nat /\ MaxFaults \in Nat

\* The lock file: absent, a file Parse refuses, or a lock.
Absent    == [kind |-> "absent"]
Malformed == [kind |-> "malformed"]
File(l)   == [kind |-> "lock", lock |-> l]
FileStates == {Absent, Malformed} \cup {File(l) : l \in Locks}

Steps == {"idle", "analyze", "read", "decide", "create", "write", "rename", "done", "crashed"}

VARIABLES
  command,    \* process -> the command it runs
  project,    \* what an analysis of the project's current state determines
  file,       \* otelplan.lock
  step,       \* process -> what it does next
  analyzed,   \* process -> what its analysis determined
  previous,   \* process -> the lock it read, Empty if none or malformed
  exists,     \* process -> was there a lock file?
  temporary,  \* process -> its .otelplan-lock-* file
  exit,       \* process -> "running", "ok", "stale" (6) or "error"
  building,   \* what the build owner builds, Empty if nothing
  edits, handEdits, builds, faults

\* History, for the properties only.
VARIABLES
  damaged,    \* the user made the lock file unreadable for Parse
  calm        \* processes since whose start only they changed project and file

processes == <<command, step, analyzed, previous, exists, temporary, exit>>
budgets   == <<edits, handEdits, builds, faults>>
history   == <<damaged, calm>>
vars      == <<project, file, processes, building, budgets, history>>

\* The file starts absent, or as an earlier run left it.
Init ==
  /\ command \in Assignments
  /\ project \in Resolutions
  /\ file \in {Absent} \cup {File(r) : r \in Resolutions} \cup {File(Stamped(r, r)) : r \in Resolutions}
  /\ step = [p \in Processes |-> "idle"]
  /\ analyzed = [p \in Processes |-> Empty]
  /\ previous = [p \in Processes |-> Empty]
  /\ exists = [p \in Processes |-> FALSE]
  /\ temporary = [p \in Processes |-> Absent]
  /\ exit = [p \in Processes |-> "running"]
  /\ building = Empty
  /\ edits = 0 /\ handEdits = 0 /\ builds = 0 /\ faults = 0
  /\ damaged = FALSE /\ calm = {}

Goto(p, s) == step' = [step EXCEPT ![p] = s]

Exit(p, answer) ==
  /\ Goto(p, "done")
  /\ exit' = [exit EXCEPT ![p] = answer]

Writers == {p \in Processes : command[p] = "lock"}

Continue(p, s) == Goto(p, s) /\ UNCHANGED exit

Fault == /\ faults < MaxFaults
         /\ faults' = faults + 1
         /\ UNCHANGED <<edits, handEdits, builds>>

-----------------------------------------------------------------------------
(* prepareResolutionLock.                                                  *)

Start(p) ==
  /\ step[p] = "idle"
  /\ Continue(p, "analyze")
  /\ calm' = calm \cup {p}
  /\ UNCHANGED <<command, project, file, analyzed, previous, exists, temporary, building, budgets, damaged>>

\* The policy is loaded, the project analyzed and a lock created from both.
Analyze(p) ==
  /\ step[p] = "analyze"
  /\ \/ /\ analyzed' = [analyzed EXCEPT ![p] = project]
        /\ Continue(p, "read")
        /\ UNCHANGED faults
     \/ /\ Fault
        /\ Exit(p, "error")
        /\ UNCHANGED analyzed
  /\ UNCHANGED <<command, project, file, previous, exists, temporary, building, edits, handEdits, builds, history>>

\* previousResolutionLock: only a plain lock goes on with a malformed file.
ReadLock(p) ==
  /\ step[p] = "read"
  /\ \/ /\ file = Absent
        /\ Continue(p, "decide")
        /\ UNCHANGED <<previous, exists, faults>>
     \/ \E l \in Locks :
          /\ file = File(l)
          /\ previous' = [previous EXCEPT ![p] = l]
          /\ exists' = [exists EXCEPT ![p] = TRUE]
          /\ Continue(p, "decide")
          /\ UNCHANGED faults
     \/ /\ file = Malformed
        /\ command[p] \in {"lock", "lock --dry-run"}
        /\ exists' = [exists EXCEPT ![p] = TRUE]
        /\ Continue(p, "decide")
        /\ UNCHANGED <<previous, faults>>
     \/ /\ file = Malformed
        /\ command[p] \notin {"lock", "lock --dry-run"}
        /\ Exit(p, "stale")
        /\ UNCHANGED <<previous, exists, faults>>
     \/ /\ Fault
        /\ Exit(p, "stale")
        /\ UNCHANGED <<previous, exists>>
  /\ UNCHANGED <<command, project, file, analyzed, temporary, building, edits, handEdits, builds, history>>

\* Mutant: only lock and lock --check look at the difference.
StaleLock(p) ==
  \/ command[p] = "lock --check" /\ ResolutionDiff(previous[p], analyzed[p]) # {}
  \/ command[p] \in {"lock", "lock --dry-run"} /\ RefreshRefused(previous[p], analyzed[p])

\* lockCommand: what the command does with the difference.
Stale(p) ==
  LET drift == ResolutionDiff(previous[p], analyzed[p]) # {}
  IN  \/ command[p] = "validate" /\ exists[p] /\ drift
      \/ command[p] = "diff --check" /\ drift
      \/ command[p] = "lock --check" /\ (~exists[p] \/ drift)
      \/ command[p] \in {"lock", "lock --dry-run"} /\ RefreshRefused(previous[p], analyzed[p])

Decide(p) ==
  /\ step[p] = "decide"
  /\ \/ Stale(p) /\ Exit(p, "stale")
     \/ ~Stale(p) /\ p \in Writers /\ Continue(p, "create")
     \/ ~Stale(p) /\ p \notin Writers /\ Exit(p, "ok")
  /\ UNCHANGED <<command, project, file, analyzed, previous, exists, temporary, building, budgets, history>>

-----------------------------------------------------------------------------
(* Write of lockfile.go.                                                   *)

\* An operation of Write fails: the deferred removal deletes the file.
WriteFails(p) ==
  /\ Fault
  /\ Exit(p, "error")
  /\ temporary' = [temporary EXCEPT ![p] = Absent]

\* Mutant: the file is renamed before it is written.
CreateAndRename(p) ==
  /\ step[p] = "create"
  /\ temporary' = [temporary EXCEPT ![p] = Malformed]
  /\ Continue(p, "rename")
  /\ UNCHANGED <<command, project, file, analyzed, previous, exists, building, budgets, history>>

CreateTemporary(p) ==
  /\ step[p] = "create"
  /\ \/ /\ temporary' = [temporary EXCEPT ![p] = Malformed]
        /\ Continue(p, "write")
        /\ UNCHANGED budgets
     \/ WriteFails(p)
  /\ UNCHANGED <<command, project, file, analyzed, previous, exists, building, history>>

WriteTemporary(p) ==
  /\ step[p] = "write"
  /\ \/ /\ temporary' = [temporary EXCEPT ![p] = File(Refreshed(previous[p], analyzed[p]))]
        /\ Continue(p, "rename")
        /\ UNCHANGED budgets
     \/ WriteFails(p)
  /\ UNCHANGED <<command, project, file, analyzed, previous, exists, building, history>>

RenameLock(p) ==
  /\ step[p] = "rename"
  /\ \/ /\ file' = temporary[p]
        /\ temporary' = [temporary EXCEPT ![p] = Absent]
        /\ calm' = calm \cap {p}
        /\ damaged' = FALSE
        /\ Exit(p, "ok")
        /\ UNCHANGED budgets
     \/ /\ WriteFails(p)
        /\ UNCHANGED <<file, history>>
  /\ UNCHANGED <<command, project, analyzed, previous, exists, building>>

Crash(p) ==
  /\ step[p] \notin {"idle", "done", "crashed"}
  /\ Fault
  /\ Goto(p, "crashed")
  /\ UNCHANGED <<command, project, file, analyzed, previous, exists, temporary, exit, building, history>>

-----------------------------------------------------------------------------
(* The user and the build owner.                                           *)

EditProject ==
  /\ edits < MaxEdits
  /\ edits' = edits + 1
  /\ project' \in Resolutions
  /\ calm' = {}
  /\ UNCHANGED <<file, processes, building, handEdits, builds, faults, damaged>>

\* Removes the lock, damages it, or checks out another one.
EditLock ==
  /\ handEdits < MaxHandEdits
  /\ handEdits' = handEdits + 1
  /\ file' \in {Absent, Malformed} \cup {File(r) : r \in Resolutions}
  /\ damaged' = (file' = Malformed)
  /\ calm' = {}
  /\ UNCHANGED <<project, processes, building, edits, builds, faults>>

\* External: an API caller builds the project and records what it built.
StartBuild ==
  /\ builds < MaxBuilds
  /\ builds' = builds + 1
  /\ building = Empty
  /\ building' = project
  /\ UNCHANGED <<project, file, processes, edits, handEdits, faults, history>>

RecordBuild ==
  /\ building # Empty
  /\ file' = File(Stamped(building, building))
  /\ building' = Empty
  /\ damaged' = FALSE
  /\ calm' = {}
  /\ UNCHANGED <<project, processes, budgets>>

-----------------------------------------------------------------------------
Process(p) ==
  \/ Start(p)  \/ Analyze(p)         \/ ReadLock(p)       \/ Decide(p)
  \/ CreateTemporary(p) \/ WriteTemporary(p) \/ RenameLock(p)

Next ==
  \/ \E p \in Processes : Process(p) \/ Crash(p)
  \/ EditProject
  \/ EditLock
  \/ StartBuild
  \/ RecordBuild

Spec == Init /\ [][Next]_vars

-----------------------------------------------------------------------------
(* Properties.                                                             *)

\* Every variable holds a value of its kind.
TypeOK ==
  /\ command \in Assignments
  /\ project \in Resolutions
  /\ file \in FileStates
  /\ step \in [Processes -> Steps]
  /\ analyzed \in [Processes -> Resolutions \cup {Empty}]
  /\ previous \in [Processes -> Locks \cup {Empty}]
  /\ exists \in [Processes -> BOOLEAN]
  /\ temporary \in [Processes -> FileStates]
  /\ exit \in [Processes -> {"running", "ok", "stale", "error"}]
  /\ building \in Resolutions \cup {Empty}
  /\ edits \in 0..MaxEdits /\ handEdits \in 0..MaxHandEdits
  /\ builds \in 0..MaxBuilds /\ faults \in 0..MaxFaults
  /\ damaged \in BOOLEAN /\ calm \subseteq Processes

\* The lock file is never a half-written one: only the user damages it, and
\* killed processes, failed writes and racing ones do not (Write).
LockWhole == file = Malformed => damaged

\* A build identity in the lock belongs to the resolution next to it, whatever
\* refreshes, builds and edits raced (RefreshResolution, "preserves build-owned
\* identity only while its associated resolution is unchanged").
IdentityMatches ==
  \A l \in Locks : file = File(l) /\ HasIdentity(l) =>
    /\ l.digest = l.artifacts
    /\ ResolutionDiff(l.digest, l) = {}

\* The lock is of the project's current state.
Current == \E l \in Locks : file = File(l) /\ ResolutionDiff(l, project) = {}

\* When nobody else changed project and lock since it started, a command's
\* answer is true of the disk: a refresh made the lock current, a check passes
\* exactly when it is, and what a refresh writes the next check accepts.  A
\* temporary file outlives its process only when that was killed.
AnswerTrue ==
  /\ \A p \in Processes : temporary[p] # Absent => step[p] \in {"write", "rename", "crashed"}
  /\ \A p \in calm : step[p] = "done" =>
       /\ exit[p] = "ok" =>
            \/ Current
            \/ command[p] \in {"diff", "lock --dry-run"}
            \/ command[p] = "validate" /\ file = Absent
       /\ exit[p] = "stale" =>
            \/ ~Current
            \/ faults > 0

\* Only a refresh, the user and the build owner change the lock: check, diff,
\* dry-run and validate write nothing, not even a temporary file.  A refresh
\* does not erase the identity of the lock it replaces, unless the lock
\* changed after it was read.
OnlyRefreshWrites ==
  [][/\ <<file, temporary>>' # <<file, temporary>> =>
          \/ handEdits' # handEdits
          \/ building' # building
          \/ \E p \in Processes : command[p] = "lock" /\ step'[p] # step[p]
     /\ \A p \in Processes, l \in Locks :
          step[p] = "rename" /\ step'[p] = "done" /\ file = File(l) /\ previous[p] = l /\ file' # file =>
            \E m \in Locks : file' = File(m) /\ m.digest = l.digest /\ m.artifacts = l.artifacts]_vars
=============================================================================
