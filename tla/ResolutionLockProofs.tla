-------------------------- MODULE ResolutionLockProofs --------------------------
(***************************************************************************)
(* Proofs about LockDiff and ResolutionLock, for any resolutions, any      *)
(* processes and any number of edits, builds and faults: what Diff tells,  *)
(* a lock that is always whole with an identity that is always its own,    *)
(* true answers, and commands that write nothing.                          *)
(***************************************************************************)
EXTENDS ResolutionLock, TLAPS

-----------------------------------------------------------------------------
(* The comparison.                                                         *)

SameTarget(s, t) == \A x \in Aspects : s[x] = t[x]

\* Two locks that say the same: equal but for lines and columns.
SameLock(l, m) ==
  /\ l.policyDigest = m.policyDigest
  /\ l.backend = m.backend /\ l.digest = m.digest
  /\ l.goVersion = m.goVersion /\ l.graph = m.graph
  /\ l.artifacts = m.artifacts
  /\ DOMAIN l.targets = DOMAIN m.targets
  /\ \A s \in DOMAIN l.targets : SameTarget(l.targets[s], m.targets[s])

LEMMA TargetChangesEmpty ==
  ASSUME NEW s, NEW before, NEW target
  PROVE  TargetChanges(s, before, target) = {} <=> SameTarget(before, target)
BY DEF TargetChanges, SameTarget

LEMMA MetadataChangesEmpty ==
  ASSUME NEW l, NEW m
  PROVE  MetadataChanges(l, m) = {} <=>
           /\ l.policyDigest = m.policyDigest
           /\ l.backend = m.backend /\ l.digest = m.digest
           /\ l.goVersion = m.goVersion /\ l.graph = m.graph
           /\ l.artifacts = m.artifacts
BY DEF MetadataChanges

\* Diff finds nothing exactly in locks that say the same: it misses no change
\* of anything but lines and columns, and reports none where there is none
\* (Diff of diff.go, "line and column changes are ignored").
THEOREM DiffEmpty ==
  ASSUME NEW l, NEW m
  PROVE  Diff(l, m) = {} <=> SameLock(l, m)
<1> DEFINE old == DOMAIN l.targets
           new == DOMAIN m.targets
           changes == UNION {TargetChanges(s, l.targets[s], m.targets[s]) : s \in old \cap new}
<1>1. Diff(l, m) = MetadataChanges(l, m) \cup {Change("ADD", s) : s \in new \ old}
                   \cup {Change("REMOVE", s) : s \in old \ new} \cup changes
  BY DEF Diff
<1>2. {Change("ADD", s) : s \in new \ old} = {} <=> new \ old = {}
  OBVIOUS
<1>3. {Change("REMOVE", s) : s \in old \ new} = {} <=> old \ new = {}
  OBVIOUS
<1>4. changes = {} <=> \A s \in old \cap new : TargetChanges(s, l.targets[s], m.targets[s]) = {}
  OBVIOUS
<1>5. changes = {} <=> \A s \in old \cap new : SameTarget(l.targets[s], m.targets[s])
  BY <1>4, TargetChangesEmpty
<1>6. Diff(l, m) = {} <=> /\ MetadataChanges(l, m) = {} /\ new = old /\ changes = {}
  <2> HIDE DEF changes, old, new
  <2>1. Diff(l, m) = {} <=> /\ MetadataChanges(l, m) = {} /\ changes = {}
                            /\ {Change("ADD", s) : s \in new \ old} = {}
                            /\ {Change("REMOVE", s) : s \in old \ new} = {}
    BY <1>1
  <2>2. new = old <=> new \ old = {} /\ old \ new = {}
    OBVIOUS
  <2> QED
    BY <2>1, <2>2, <1>2, <1>3
<1> QED
  BY <1>5, <1>6, MetadataChangesEmpty DEF SameLock

\* A target is added in one direction exactly when it is removed in the other.
THEOREM AddedIsRemoved ==
  ASSUME NEW l, NEW m, NEW s
  PROVE  Change("ADD", s) \in Diff(l, m) <=> Change("REMOVE", s) \in Diff(m, l)
<1>1. \A x \in Aspects : Classification[x] \notin {"ADD", "REMOVE"}
  BY DEF Classification, Aspects
<1>2. \A c, d, r, t : Change(c, r) = Change(d, t) => c = d /\ r = t
  BY DEF Change
<1>3. \A a, b, c : c \in {"ADD", "REMOVE"} => Change(c, s) \notin MetadataChanges(a, b)
  BY <1>2 DEF MetadataChanges
<1>4. \A r, a, b, c : c \in {"ADD", "REMOVE"} => Change(c, s) \notin TargetChanges(r, a, b)
  BY <1>1, <1>2 DEF TargetChanges
<1>5. \A a, b : \A c \in {"ADD", "REMOVE"} :
        Change(c, s) \in Diff(a, b) <=>
          \/ Change(c, s) \in {Change("ADD", t) : t \in DOMAIN b.targets \ DOMAIN a.targets}
          \/ Change(c, s) \in {Change("REMOVE", t) : t \in DOMAIN a.targets \ DOMAIN b.targets}
  BY <1>3, <1>4 DEF Diff
<1>6. \A a, b : Change("ADD", s) \in Diff(a, b) <=> s \in DOMAIN b.targets \ DOMAIN a.targets
  BY <1>2, <1>5
<1>7. \A a, b : Change("REMOVE", s) \in Diff(a, b) <=> s \in DOMAIN a.targets \ DOMAIN b.targets
  BY <1>2, <1>5
<1> QED
  BY <1>6, <1>7

-----------------------------------------------------------------------------
(* The commands.                                                           *)

\* An identity that belongs to the lock it is in.
Matched(l) ==
  HasIdentity(l) => l.digest = l.artifacts /\ ResolutionDiff(l.digest, l) = {}

\* What a process that may write has read and analyzed.
DecidedInv ==
  \A p \in Processes : step[p] \in {"create", "write"} =>
    /\ analyzed[p] \in Resolutions
    /\ ~RefreshRefused(previous[p], analyzed[p])

AnalyzedInv ==
  \A p \in Processes : step[p] \in {"read", "decide"} => analyzed[p] \in Resolutions

RenameInv ==
  \A p \in Processes : step[p] = "rename" => \E l \in Locks : temporary[p] = File(l)

MatchedInv ==
  \A l \in Locks :
    \/ file = File(l)
    \/ \E p \in Processes : previous[p] = l \/ temporary[p] = File(l)
    => Matched(l)

TypeInv == TypeOK /\ AnalyzedInv /\ DecidedInv /\ RenameInv

LEMMA FileFacts ==
  /\ \A l, m : File(l) = File(m) => l = m
  /\ \A l : File(l) # Absent /\ File(l) # Malformed
  /\ Absent # Malformed
BY DEF File, Absent, Malformed

LEMMA PlainLocks ==
  /\ \A r \in Resolutions \cup {Empty} : ~HasIdentity(r)
  /\ Resolutions \subseteq Locks
  /\ \A r, b \in Resolutions : Stamped(r, b) \in Locks
<1>1. ASSUME NEW r \in Resolutions \cup {Empty} PROVE ~HasIdentity(r)
  <2>1. r = [r EXCEPT !.digest = None, !.artifacts = None] /\ DOMAIN r = LockFields
    BY LockAssumption DEF Resolution, WithIdentity
  <2>2. r.digest = None /\ r.artifacts = None
    BY <2>1 DEF LockFields
  <2> QED
    BY <2>2 DEF HasIdentity
<1> QED
  BY <1>1 DEF Locks

LEMMA StampedFields ==
  ASSUME NEW r \in Resolutions, NEW d, NEW a
  PROVE  /\ WithIdentity(r, d, a).digest = d /\ WithIdentity(r, d, a).artifacts = a
         /\ Resolution(WithIdentity(r, d, a)) = r
<1>1. DOMAIN r = LockFields /\ r = [r EXCEPT !.digest = None, !.artifacts = None]
  BY LockAssumption DEF Resolution, WithIdentity
<1>2. /\ WithIdentity(r, d, a).digest = d /\ WithIdentity(r, d, a).artifacts = a
      /\ Resolution(WithIdentity(r, d, a)) = [r EXCEPT !.digest = None, !.artifacts = None]
  BY <1>1 DEF WithIdentity, Resolution, LockFields
<1> QED
  BY <1>1, <1>2

\* What a refresh writes is a lock, and its identity, if it has one, is the
\* replaced lock's and belongs to it.
LEMMA RefreshedLock ==
  ASSUME NEW l \in Locks \cup {Empty}, NEW r \in Resolutions, ~RefreshRefused(l, r)
  PROVE  /\ Refreshed(l, r) \in Locks
         /\ Matched(l) => Matched(Refreshed(l, r))
<1>1. CASE ~HasIdentity(l)
  BY <1>1, PlainLocks DEF Refreshed, Matched
<1>2. CASE HasIdentity(l)
  <2>1. PICK s \in Resolutions, b \in Resolutions : l = Stamped(s, b)
    BY <1>2, PlainLocks DEF Locks, Stamped
  <2>2. l.digest = b /\ l.artifacts = b /\ Resolution(l) = s
    BY <2>1, StampedFields DEF Stamped
  <2>3. Refreshed(l, r) = Stamped(r, b)
    BY <1>2, <2>2 DEF Refreshed, Stamped
  <2>4. Stamped(r, b).digest = b /\ Stamped(r, b).artifacts = b /\ Resolution(Stamped(r, b)) = r
    BY StampedFields DEF Stamped
  <2>5. Resolution(b) = b /\ Resolution(r) = r
    BY LockAssumption
  <2>6. SameLock(s, r)
    BY <1>2, <2>2, <2>5, DiffEmpty DEF RefreshRefused, ResolutionDiff
  <2>7. ASSUME Matched(l) PROVE Matched(Stamped(r, b))
    <3>1. SameLock(b, s)
      BY <1>2, <2>2, <2>5, <2>7, DiffEmpty DEF Matched, ResolutionDiff
    <3>2. SameLock(b, r)
      BY <3>1, <2>6 DEF SameLock, SameTarget
    <3> QED
      BY <3>2, <2>4, <2>5, DiffEmpty DEF Matched, ResolutionDiff
  <2> QED
    BY <2>3, <2>7 DEF Locks
<1> QED
  BY <1>1, <1>2

LEMMA InitTypeInv == Init => TypeInv
<1> SUFFICES ASSUME Init PROVE TypeInv
  OBVIOUS
<1>1. file \in FileStates
  <2>1. \A l \in Locks : File(l) \in FileStates
    BY DEF FileStates
  <2> QED
    BY <2>1, PlainLocks DEF Init, FileStates
<1>2. TypeOK
  <2>1. Absent \in FileStates
    BY DEF FileStates
  <2>2. 0 \in 0..MaxEdits /\ 0 \in 0..MaxHandEdits /\ 0 \in 0..MaxBuilds /\ 0 \in 0..MaxFaults
    BY LockAssumption
  <2> QED
    BY <1>1, <2>1, <2>2 DEF Init, TypeOK, Steps
<1>3. AnalyzedInv /\ DecidedInv /\ RenameInv
  BY DEF Init, AnalyzedInv, DecidedInv, RenameInv
<1> QED
  BY <1>2, <1>3 DEF TypeInv

LEMMA NextTypeInv == TypeInv /\ [Next]_vars => TypeInv'
<1> SUFFICES ASSUME TypeInv, [Next]_vars PROVE TypeInv'
  OBVIOUS
<1> USE DEF TypeInv, TypeOK, AnalyzedInv, DecidedInv, RenameInv, Steps
<1> USE DEF Goto, Exit, Continue, processes, budgets, history
<1>a. MaxEdits \in Nat /\ MaxHandEdits \in Nat /\ MaxBuilds \in Nat /\ MaxFaults \in Nat
  BY LockAssumption
<1>b. Fault => faults' \in 0..MaxFaults /\ UNCHANGED <<edits, handEdits, builds>>
  BY <1>a DEF Fault
<1>c. Absent \in FileStates /\ Malformed \in FileStates /\ \A l \in Locks : File(l) \in FileStates
  BY DEF FileStates
<1>1. ASSUME NEW p \in Processes, Start(p) PROVE TypeInv'
  BY <1>1 DEF Start
<1>2. ASSUME NEW p \in Processes, Analyze(p) PROVE TypeInv'
  BY <1>2, <1>b DEF Analyze
<1>3. ASSUME NEW p \in Processes, ReadLock(p) PROVE TypeInv'
  BY <1>3, <1>b DEF ReadLock
<1>4. ASSUME NEW p \in Processes, Decide(p) PROVE TypeInv'
  <2>1. p \in Writers /\ ~Stale(p) => ~RefreshRefused(previous[p], analyzed[p])
    BY DEF Writers, Stale
  <2> QED
    BY <1>4, <2>1 DEF Decide
<1>5. ASSUME NEW p \in Processes, CreateTemporary(p) PROVE TypeInv'
  BY <1>5, <1>b, <1>c DEF CreateTemporary, WriteFails
<1>6. ASSUME NEW p \in Processes, WriteTemporary(p) PROVE TypeInv'
  <2>1. Refreshed(previous[p], analyzed[p]) \in Locks
    BY <1>6, RefreshedLock DEF WriteTemporary
  <2> QED
    BY <1>6, <2>1, <1>b, <1>c DEF WriteTemporary, WriteFails
<1>7. ASSUME NEW p \in Processes, RenameLock(p) PROVE TypeInv'
  <2>1. temporary' = [temporary EXCEPT ![p] = Absent] /\ file' \in {file, temporary[p]}
    BY <1>7 DEF RenameLock, WriteFails
  <2>2. file' \in FileStates /\ temporary' \in [Processes -> FileStates]
    BY <2>1, <1>c
  <2>3. /\ step' = [step EXCEPT ![p] = "done"]
        /\ exit' \in [Processes -> {"running", "ok", "stale", "error"}]
        /\ damaged' \in BOOLEAN /\ calm' \subseteq Processes
    BY <1>7 DEF RenameLock, WriteFails
  <2>4. UNCHANGED <<command, project, analyzed, previous, exists, building, edits, handEdits, builds>>
        /\ faults' \in 0..MaxFaults
    BY <1>7, <1>b DEF RenameLock, WriteFails
  <2>5. TypeOK'
    BY <2>2, <2>3, <2>4
  <2>6. AnalyzedInv' /\ DecidedInv' /\ RenameInv'
    BY <2>1, <2>3, <2>4
  <2> QED
    BY <2>5, <2>6
<1>8. ASSUME NEW p \in Processes, Crash(p) PROVE TypeInv'
  BY <1>8, <1>b DEF Crash
<1>9. CASE EditProject
  BY <1>9, <1>a DEF EditProject
<1>10. CASE EditLock
  <2>1. file' \in FileStates
    BY <1>10, <1>c, PlainLocks DEF EditLock
  <2> QED
    BY <1>10, <2>1, <1>a DEF EditLock
<1>11. CASE StartBuild
  BY <1>11, <1>a DEF StartBuild
<1>12. CASE RecordBuild
  <2>1. file' \in FileStates
    BY <1>12, <1>c, PlainLocks DEF RecordBuild
  <2> QED
    BY <1>12, <2>1 DEF RecordBuild
<1>13. CASE UNCHANGED vars
  BY <1>13 DEF vars
<1> QED
  BY <1>1, <1>2, <1>3, <1>4, <1>5, <1>6, <1>7, <1>8, <1>9, <1>10, <1>11, <1>12, <1>13
     DEF Next, Process

\* The variables keep their types: a lock written by a refresh is one of the
\* locks, because a refresh with an identity is refused after drift.
THEOREM TypeCorrect == Spec => []TypeOK
<1>1. Spec => []TypeInv
  BY InitTypeInv, NextTypeInv, PTL DEF Spec
<1>2. TypeInv => TypeOK
  BY DEF TypeInv
<1> QED
  BY <1>1, <1>2, PTL

LEMMA InitWhole == Init => LockWhole
BY PlainLocks, FileFacts DEF Init, LockWhole

LEMMA NextWhole == TypeInv /\ LockWhole /\ [Next]_vars => LockWhole'
<1> SUFFICES ASSUME TypeInv, LockWhole, [Next]_vars PROVE LockWhole'
  OBVIOUS
<1>1. ASSUME NEW p \in Processes, RenameLock(p) PROVE LockWhole'
  <2>1. temporary[p] # Malformed
    BY <1>1, FileFacts DEF RenameLock, TypeInv, RenameInv
  <2> QED
    BY <1>1, <2>1 DEF RenameLock, LockWhole, history
<1>2. CASE EditLock \/ RecordBuild
  BY <1>2, FileFacts DEF EditLock, RecordBuild, LockWhole
<1>3. CASE UNCHANGED <<file, damaged>>
  BY <1>3 DEF LockWhole
<1>4. \/ \E p \in Processes : RenameLock(p)
      \/ EditLock \/ RecordBuild
      \/ UNCHANGED <<file, damaged>>
  BY DEF Next, Process, vars, history, Start, Analyze, ReadLock, Decide, CreateTemporary,
         WriteTemporary, Crash, EditProject, StartBuild
<1> QED
  BY <1>1, <1>2, <1>3, <1>4

\* Processes, however they race, fail or are killed, never leave a lock file
\* that Parse refuses (Write of lockfile.go).
THEOREM LockAlwaysWhole == Spec => []LockWhole
<1>1. TypeInv /\ LockWhole /\ [Next]_vars => TypeInv' /\ LockWhole'
  BY NextTypeInv, NextWhole
<1>2. Spec => [](TypeInv /\ LockWhole)
  BY <1>1, InitTypeInv, InitWhole, PTL DEF Spec
<1> QED
  BY <1>2, PTL

\* A resolution without identity matches, and so does a recorded build.
LEMMA PlainMatched ==
  /\ \A r \in Resolutions \cup {Empty} : Matched(r)
  /\ \A r \in Resolutions : Matched(Stamped(r, r))
<1>1. ASSUME NEW r \in Resolutions PROVE Matched(Stamped(r, r))
  <2>1. Stamped(r, r).digest = r /\ Stamped(r, r).artifacts = r /\ Resolution(Stamped(r, r)) = r
    BY StampedFields DEF Stamped
  <2>2. Diff(r, r) = {} /\ Resolution(r) = r
    BY DiffEmpty, LockAssumption DEF SameLock, SameTarget
  <2> QED
    BY <2>1, <2>2 DEF Matched, ResolutionDiff
<1> QED
  BY <1>1, PlainLocks DEF Matched

LEMMA InitMatched == Init => MatchedInv
BY PlainMatched, PlainLocks, FileFacts DEF Init, MatchedInv

LEMMA NextMatched == TypeInv /\ MatchedInv /\ [Next]_vars => MatchedInv'
<1> SUFFICES ASSUME TypeInv, MatchedInv, [Next]_vars, NEW l \in Locks,
                    \/ file' = File(l)
                    \/ \E p \in Processes : previous'[p] = l \/ temporary'[p] = File(l)
             PROVE  Matched(l)
  BY DEF MatchedInv
<1> USE DEF processes
<1>a. /\ previous \in [Processes -> Locks \cup {Empty}]
      /\ temporary \in [Processes -> FileStates]
  BY DEF TypeInv, TypeOK
<1>b. \/ file = File(l)
      \/ \E p \in Processes : previous[p] = l \/ temporary[p] = File(l)
      => Matched(l)
  BY DEF MatchedInv
<1>1. ASSUME NEW p \in Processes, ReadLock(p) PROVE Matched(l)
  <2>1. UNCHANGED <<file, temporary>>
    BY <1>1 DEF ReadLock
  <2>2. \A q \in Processes : previous'[q] = l => previous[q] = l \/ file = File(l)
    BY <1>1, <1>a DEF ReadLock
  <2> QED
    BY <2>1, <2>2, <1>b
<1>2. ASSUME NEW p \in Processes, CreateTemporary(p) PROVE Matched(l)
  BY <1>2, <1>a, <1>b, FileFacts DEF CreateTemporary, WriteFails
<1>3. ASSUME NEW p \in Processes, WriteTemporary(p) PROVE Matched(l)
  <2>1. UNCHANGED <<file, previous>> /\ step[p] = "write"
    BY <1>3 DEF WriteTemporary
  <2>2. CASE \E q \in Processes : temporary[q] = File(l)
    BY <2>2, <1>b
  <2>3. CASE l = Refreshed(previous[p], analyzed[p])
    <3>1. Matched(previous[p])
      BY <1>a, PlainMatched DEF MatchedInv
    <3> QED
      BY <2>1, <2>3, <3>1, <1>a, RefreshedLock DEF TypeInv, DecidedInv
  <2>4. \A q \in Processes : temporary'[q] = File(l) =>
          temporary[q] = File(l) \/ l = Refreshed(previous[p], analyzed[p])
    BY <1>3, <1>a, FileFacts DEF WriteTemporary, WriteFails
  <2> QED
    BY <2>1, <2>2, <2>3, <2>4, <1>b
<1>4. ASSUME NEW p \in Processes, RenameLock(p) PROVE Matched(l)
  <2>1. UNCHANGED previous /\ file' \in {file, temporary[p]}
    BY <1>4 DEF RenameLock, history
  <2>2. \A q \in Processes : temporary'[q] = File(l) => temporary[q] = File(l)
    BY <1>4, <1>a, FileFacts DEF RenameLock, WriteFails
  <2> QED
    BY <2>1, <2>2, <1>b
<1>5. CASE EditLock
  BY <1>5, <1>b, FileFacts, PlainMatched DEF EditLock
<1>6. CASE RecordBuild
  <2>1. building \in Resolutions
    BY <1>6 DEF RecordBuild, TypeInv, TypeOK
  <2> QED
    BY <1>6, <2>1, <1>b, FileFacts, PlainMatched DEF RecordBuild
<1>7. CASE UNCHANGED <<file, previous, temporary>>
  BY <1>7, <1>b
<1>8. \/ \E p \in Processes : ReadLock(p) \/ CreateTemporary(p) \/ WriteTemporary(p) \/ RenameLock(p)
      \/ EditLock \/ RecordBuild
      \/ UNCHANGED <<file, previous, temporary>>
  BY DEF Next, Process, vars, Start, Analyze, Decide, Crash, EditProject, StartBuild
<1> QED
  BY <1>1, <1>2, <1>3, <1>4, <1>5, <1>6, <1>7, <1>8

\* A build identity in the lock was made for the resolution next to it,
\* through any race of refreshes, builds and edits (RefreshResolution).
THEOREM IdentityAlwaysMatches == Spec => []IdentityMatches
<1>1. TypeInv /\ MatchedInv /\ [Next]_vars => TypeInv' /\ MatchedInv'
  BY NextTypeInv, NextMatched
<1>2. Spec => [](TypeInv /\ MatchedInv)
  BY <1>1, InitTypeInv, InitMatched, PTL DEF Spec
<1>3. MatchedInv => IdentityMatches
  BY DEF MatchedInv, Matched, IdentityMatches
<1> QED
  BY <1>2, <1>3, PTL
-----------------------------------------------------------------------------
(* Answers and writers.                                                    *)

\* What a process has at each step: nothing read before ReadLock, a temporary
\* file only while a lock command writes one, and before its rename that file
\* holds the refreshed lock.
StageInv ==
  \A p \in Processes :
    /\ step[p] \in {"idle", "analyze", "read"} => previous[p] = Empty /\ ~exists[p]
    /\ step[p] \in {"create", "write", "rename"} => command[p] = "lock"
    /\ step[p] = "rename" =>
         /\ analyzed[p] \in Resolutions /\ ~RefreshRefused(previous[p], analyzed[p])
         /\ temporary[p] = File(Refreshed(previous[p], analyzed[p]))
    /\ temporary[p] # Absent => step[p] \in {"write", "rename", "crashed"}

\* What a process read is what is there, as long as nobody else changes it.
ReadOf(p) ==
  /\ step[p] \in {"read", "decide", "create", "write", "rename"} => analyzed[p] = project
  /\ step[p] \in {"decide", "create", "write", "rename"} =>
       \/ file = Absent /\ previous[p] = Empty /\ ~exists[p]
       \/ /\ file = Malformed /\ previous[p] = Empty
          /\ command[p] \in {"lock", "lock --dry-run"}
       \/ previous[p] \in Locks /\ file = File(previous[p]) /\ exists[p]

ReadInv == \A p \in calm : ReadOf(p)

\* The answer of a process is true of the disk.
Truthful(p) ==
  /\ exit[p] = "ok" =>
       \/ Current
       \/ command[p] \in {"diff", "lock --dry-run"}
       \/ command[p] = "validate" /\ file = Absent
  /\ exit[p] = "stale" => ~Current \/ faults > 0

TruthInv == \A p \in calm : step[p] = "done" => Truthful(p)

\* A refreshed lock is of the analyzed resolution and keeps the identity of the
\* lock it replaces.
LEMMA RefreshedFields ==
  ASSUME NEW l \in Locks \cup {Empty}, NEW r \in Resolutions, ~RefreshRefused(l, r)
  PROVE  /\ ResolutionDiff(Refreshed(l, r), r) = {}
         /\ Refreshed(l, r).digest = l.digest /\ Refreshed(l, r).artifacts = l.artifacts
<1>1. Resolution(r) = r /\ Diff(r, r) = {}
  BY LockAssumption, DiffEmpty DEF SameLock, SameTarget
<1>2. CASE HasIdentity(l)
  <2>1. Refreshed(l, r) = WithIdentity(r, l.digest, l.artifacts)
    BY <1>2 DEF Refreshed
  <2>2. /\ Resolution(WithIdentity(r, l.digest, l.artifacts)) = r
        /\ WithIdentity(r, l.digest, l.artifacts).digest = l.digest
        /\ WithIdentity(r, l.digest, l.artifacts).artifacts = l.artifacts
    BY StampedFields
  <2> QED
    BY <1>1, <2>1, <2>2 DEF ResolutionDiff
<1>3. CASE ~HasIdentity(l)
  <2>1. Refreshed(l, r) = r /\ l.digest = None /\ l.artifacts = None
    BY <1>3 DEF Refreshed, HasIdentity
  <2>2. r.digest = None /\ r.artifacts = None
    BY PlainLocks DEF HasIdentity
  <2> QED
    BY <1>1, <2>1, <2>2 DEF ResolutionDiff
<1> QED
  BY <1>2, <1>3

\* Only what a process itself read, analyzed and wrote counts for its steps.
LEMMA StageStep == TypeInv /\ StageInv /\ [Next]_vars => StageInv'
<1> SUFFICES ASSUME TypeInv, StageInv, [Next]_vars PROVE StageInv'
  OBVIOUS
<1> USE DEF TypeInv, TypeOK, StageInv, Goto, Exit, Continue, processes, budgets, history
<1>1. ASSUME NEW p \in Processes, Start(p) PROVE StageInv'
  BY <1>1, FileFacts DEF Start
<1>2. ASSUME NEW p \in Processes, Analyze(p) PROVE StageInv'
  BY <1>2, FileFacts DEF Analyze
<1>3. ASSUME NEW p \in Processes, ReadLock(p) PROVE StageInv'
  <2>1. step[p] = "read" /\ UNCHANGED <<command, analyzed, temporary>>
    BY <1>3 DEF ReadLock
  <2>2. step' = [step EXCEPT ![p] = "decide"] \/ step' = [step EXCEPT ![p] = "done"]
    BY <1>3 DEF ReadLock
  <2>3. \A q \in Processes : q # p => previous'[q] = previous[q] /\ exists'[q] = exists[q]
    BY <1>3 DEF ReadLock
  <2> QED
    BY <2>1, <2>2, <2>3
<1>4. ASSUME NEW p \in Processes, Decide(p) PROVE StageInv'
  BY <1>4, FileFacts DEF Decide, Writers, Stale
<1>5. ASSUME NEW p \in Processes, CreateTemporary(p) PROVE StageInv'
  BY <1>5, FileFacts DEF CreateTemporary, WriteFails
<1>6. ASSUME NEW p \in Processes, WriteTemporary(p) PROVE StageInv'
  <2>1. /\ step[p] = "write" /\ command[p] = "lock" /\ UNCHANGED <<command, analyzed, previous, exists>>
        /\ analyzed[p] \in Resolutions /\ ~RefreshRefused(previous[p], analyzed[p])
    BY <1>6 DEF WriteTemporary, DecidedInv
  <2>2. CASE /\ temporary' = [temporary EXCEPT ![p] = File(Refreshed(previous[p], analyzed[p]))]
             /\ step' = [step EXCEPT ![p] = "rename"]
    BY <2>1, <2>2
  <2>3. CASE WriteFails(p)
    BY <2>1, <2>3 DEF WriteFails
  <2> QED
    BY <1>6, <2>2, <2>3 DEF WriteTemporary
<1>7. ASSUME NEW p \in Processes, RenameLock(p) PROVE StageInv'
  BY <1>7, FileFacts DEF RenameLock, WriteFails
<1>8. ASSUME NEW p \in Processes, Crash(p) PROVE StageInv'
  BY <1>8, FileFacts DEF Crash
<1>9. CASE EditProject \/ EditLock \/ StartBuild \/ RecordBuild \/ UNCHANGED vars
  BY <1>9 DEF EditProject, EditLock, StartBuild, RecordBuild, vars
<1> QED
  BY <1>1, <1>2, <1>3, <1>4, <1>5, <1>6, <1>7, <1>8, <1>9 DEF Next, Process

\* A step of another process leaves alone what a calm process read, and its
\* own reads are of what is there.
LEMMA ReadStep == TypeInv /\ StageInv /\ ReadInv /\ [Next]_vars => ReadInv'
<1> SUFFICES ASSUME TypeInv, StageInv, ReadInv, [Next]_vars, NEW q \in calm' PROVE ReadOf(q)'
  BY DEF ReadInv
<1> USE DEF TypeInv, TypeOK, Goto, Exit, Continue, processes, budgets, history
<1>0. ASSUME q \in calm, step'[q] = step[q], UNCHANGED <<command, file, project>>,
             analyzed'[q] = analyzed[q], previous'[q] = previous[q], exists'[q] = exists[q]
      PROVE  ReadOf(q)'
  BY <1>0 DEF ReadInv, ReadOf
<1>d. ASSUME step'[q] \in {"idle", "analyze", "done", "crashed"} PROVE ReadOf(q)'
  BY <1>d DEF ReadOf
<1>1. ASSUME NEW p \in Processes, Start(p) PROVE ReadOf(q)'
  <2>1. CASE q = p
    BY <1>d, <1>1, <2>1 DEF Start
  <2>2. CASE q # p
    BY <1>0, <1>1, <2>2 DEF Start
  <2> QED
    BY <2>1, <2>2
<1>2. ASSUME NEW p \in Processes, Analyze(p) PROVE ReadOf(q)'
  <2>1. UNCHANGED <<command, file, project, previous, exists, calm>>
    BY <1>2 DEF Analyze
  <2>2. CASE q # p
    BY <1>0, <1>2, <2>1, <2>2 DEF Analyze
  <2>3. CASE q = p /\ step'[p] = "done"
    BY <1>d, <2>3
  <2>4. CASE q = p /\ step'[p] = "read" /\ analyzed'[p] = project
    BY <2>1, <2>4 DEF ReadOf
  <2> QED
    BY <1>2, <2>2, <2>3, <2>4 DEF Analyze
<1>3. ASSUME NEW p \in Processes, ReadLock(p) PROVE ReadOf(q)'
  <2>1. step[p] = "read" /\ UNCHANGED <<command, file, project, analyzed, calm>>
    BY <1>3 DEF ReadLock
  <2>2. CASE q # p
    BY <1>0, <1>3, <2>1, <2>2 DEF ReadLock
  <2>3. CASE q = p /\ step'[p] = "done"
    BY <1>d, <2>3
  <2>4. CASE q = p /\ step'[p] # "done"
    <3>1. analyzed[p] = project /\ previous[p] = Empty /\ ~exists[p]
      BY <2>1, <2>4 DEF ReadInv, ReadOf, StageInv
    <3>2. \/ file = Absent /\ UNCHANGED <<previous, exists>>
          \/ \E l \in Locks : file = File(l) /\ previous'[p] = l /\ exists'[p]
          \/ file = Malformed /\ command[p] \in {"lock", "lock --dry-run"} /\ UNCHANGED previous
      BY <1>3, <2>4 DEF ReadLock
    <3> QED
      BY <2>1, <2>4, <3>1, <3>2 DEF ReadOf
  <2> QED
    BY <2>2, <2>3, <2>4
<1>4. ASSUME NEW p \in Processes, Decide(p) PROVE ReadOf(q)'
  <2>1. step[p] = "decide" /\ UNCHANGED <<command, file, project, analyzed, previous, exists, calm>>
    BY <1>4 DEF Decide
  <2>2. CASE q # p
    BY <1>0, <1>4, <2>1, <2>2 DEF Decide
  <2>3. CASE q = p
    BY <2>1, <2>3 DEF ReadInv, ReadOf
  <2> QED
    BY <2>2, <2>3
<1>5. ASSUME NEW p \in Processes, CreateTemporary(p) \/ WriteTemporary(p) PROVE ReadOf(q)'
  <2>1. step[p] \in {"create", "write"} /\ UNCHANGED <<command, file, project, analyzed, previous, exists, calm>>
    BY <1>5 DEF CreateTemporary, WriteTemporary
  <2>2. CASE q # p
    <3>1. step'[q] = step[q]
      BY <1>5, <2>2 DEF CreateTemporary, WriteTemporary, WriteFails
    <3> QED
      BY <1>0, <2>1, <3>1
  <2>3. CASE q = p
    BY <2>1, <2>3 DEF ReadInv, ReadOf
  <2> QED
    BY <2>2, <2>3
<1>6. ASSUME NEW p \in Processes, RenameLock(p) PROVE ReadOf(q)'
  <2>1. step' = [step EXCEPT ![p] = "done"] /\ UNCHANGED <<command, project, analyzed, previous, exists>>
    BY <1>6 DEF RenameLock, WriteFails
  <2>2. CASE q = p
    BY <1>d, <2>1, <2>2
  <2>3. CASE q # p
    <3>1. UNCHANGED <<file, calm>>
      BY <1>6, <2>3 DEF RenameLock
    <3> QED
      BY <1>0, <2>1, <2>3, <3>1
  <2> QED
    BY <2>2, <2>3
<1>7. ASSUME NEW p \in Processes, Crash(p) PROVE ReadOf(q)'
  <2>1. CASE q = p
    BY <1>d, <1>7, <2>1 DEF Crash
  <2>2. CASE q # p
    BY <1>0, <1>7, <2>2 DEF Crash
  <2> QED
    BY <2>1, <2>2
<1>8. CASE EditProject \/ EditLock \/ RecordBuild
  BY <1>8 DEF EditProject, EditLock, RecordBuild
<1>9. CASE StartBuild \/ UNCHANGED vars
  BY <1>0, <1>9 DEF StartBuild, vars
<1> QED
  BY <1>1, <1>2, <1>3, <1>4, <1>5, <1>6, <1>7, <1>8, <1>9 DEF Next, Process

\* Whether the lock is current, from what a calm process read.
LEMMA ReadTells ==
  ASSUME TypeInv, ReadInv, NEW p \in calm, step[p] = "decide"
  PROVE  /\ Current => exists[p] /\ previous[p] \in Locks /\ ResolutionDiff(previous[p], analyzed[p]) = {}
         /\ exists[p] /\ previous[p] # Empty /\ ResolutionDiff(previous[p], analyzed[p]) = {} => Current
         /\ analyzed[p] \in Resolutions
<1>1. analyzed[p] = project /\ analyzed[p] \in Resolutions
  BY DEF ReadInv, ReadOf, TypeInv, TypeOK
<1> QED
  BY <1>1, FileFacts DEF ReadInv, ReadOf, Current

\* What Decide answers is true.
LEMMA DecideTrue ==
  ASSUME TypeInv, StageInv, ReadInv, NEW p \in calm, Decide(p)
  PROVE  step'[p] = "done" => Truthful(p)'
<1> USE DEF TypeInv, TypeOK
<1>a. p \in Processes /\ step[p] = "decide" /\ command[p] \in Commands
  BY LockAssumption DEF Decide
<1>b. Current' <=> Current
  BY DEF Decide, Current, processes
<1>c. UNCHANGED <<command, file, faults>>
  BY DEF Decide, processes, budgets
<1>1. CASE Stale(p)
  <2>1. exit'[p] = "stale"
    BY <1>1 DEF Decide, Exit
  <2>2. ~Current
    <3>1. ASSUME Current PROVE FALSE
      <4>1. exists[p] /\ ResolutionDiff(previous[p], analyzed[p]) = {} /\ analyzed[p] \in Resolutions
        BY <1>a, <3>1, ReadTells
      <4> QED
        BY <1>1, <4>1, PlainLocks DEF Stale, RefreshRefused
    <3> QED
      BY <3>1
  <2> QED
    BY <1>b, <2>1, <2>2 DEF Truthful
<1>2. CASE ~Stale(p) /\ p \in Writers
  BY <1>2, <1>a DEF Decide, Continue, Goto
<1>3. CASE ~Stale(p) /\ p \notin Writers
  <2>1. exit'[p] = "ok" /\ command[p] # "lock"
    BY <1>3, <1>a DEF Decide, Exit, Writers
  <2>2. CASE command[p] \in {"diff", "lock --dry-run"}
    BY <1>c, <2>1, <2>2 DEF Truthful
  <2>3. CASE command[p] \in {"lock --check", "diff --check", "validate"}
    <3>1. \/ file = Absent /\ previous[p] = Empty /\ ~exists[p]
          \/ previous[p] \in Locks /\ file = File(previous[p]) /\ exists[p]
      BY <1>a, <2>3 DEF ReadInv, ReadOf
    <3>2. CASE file = Absent /\ previous[p] = Empty /\ ~exists[p]
      <4>1. ResolutionDiff(Empty, analyzed[p]) # {}
        BY <1>a, ReadTells, LockAssumption
      <4>2. command[p] = "validate"
        BY <1>3, <2>3, <3>2, <4>1 DEF Stale
      <4> QED
        BY <1>c, <2>1, <3>2, <4>2 DEF Truthful
    <3>3. CASE previous[p] \in Locks /\ file = File(previous[p]) /\ exists[p]
      <4>1. ResolutionDiff(previous[p], analyzed[p]) = {} /\ analyzed[p] = project
        BY <1>3, <1>a, <2>3, <3>3 DEF Stale, ReadInv, ReadOf
      <4>2. Current
        BY <3>3, <4>1 DEF Current
      <4> QED
        BY <1>b, <2>1, <4>2 DEF Truthful
    <3> QED
      BY <3>1, <3>2, <3>3
  <2> QED
    BY <1>a, <2>1, <2>2, <2>3 DEF Commands
<1> QED
  BY <1>1, <1>2, <1>3

\* An answer stays true as long as nobody else changes project and lock.
LEMMA TruthStep == TypeInv /\ StageInv /\ ReadInv /\ TruthInv /\ [Next]_vars => TruthInv'
<1> SUFFICES ASSUME TypeInv, StageInv, ReadInv, TruthInv, [Next]_vars,
                    NEW q \in Processes, q \in calm', step'[q] = "done"
             PROVE  Truthful(q)'
  BY DEF TruthInv, TypeInv, TypeOK, Next, Process, vars, Start, Analyze, ReadLock, Decide, CreateTemporary,
         WriteTemporary, RenameLock, Crash, EditProject, EditLock, StartBuild, RecordBuild, history
<1> USE DEF TypeInv, TypeOK, processes, budgets, history
<1>a. faults \in Nat
  BY LockAssumption
<1>0. ASSUME q \in calm, step[q] = "done", exit'[q] = exit[q], UNCHANGED <<command, file, project>>,
             faults' \in {faults, faults + 1}
      PROVE  Truthful(q)'
  <2>1. Truthful(q)
    BY <1>0 DEF TruthInv
  <2>2. Current' <=> Current
    BY <1>0 DEF Current
  <2>3. faults > 0 => faults' > 0
    BY <1>0, <1>a
  <2> QED
    BY <1>0, <2>1, <2>2, <2>3 DEF Truthful
<1>1. ASSUME NEW p \in Processes, Start(p) PROVE Truthful(q)'
  BY <1>0, <1>1 DEF Start, Continue, Goto
<1>2. ASSUME NEW p \in Processes, Analyze(p) PROVE Truthful(q)'
  <2>1. CASE q = p
    <3>1. exit'[q] = "error"
      BY <1>2, <2>1 DEF Analyze, Continue, Goto, Exit
    <3> QED
      BY <3>1 DEF Truthful
  <2>2. CASE q # p
    BY <1>0, <1>2, <2>2 DEF Analyze, Continue, Goto, Exit, Fault
  <2> QED
    BY <2>1, <2>2
<1>3. ASSUME NEW p \in Processes, ReadLock(p) PROVE Truthful(q)'
  <2>1. CASE q = p
    <3>0. step[p] = "read" /\ UNCHANGED <<file, project>>
      BY <1>3 DEF ReadLock
    <3>a. \/ Continue(p, "decide")
          \/ Exit(p, "stale") /\ file = Malformed
          \/ Exit(p, "stale") /\ Fault
      BY <1>3 DEF ReadLock
    <3>b. ~Continue(p, "decide")
      BY <2>1 DEF Continue, Goto
    <3>c. Fault => faults' > 0
      BY <1>a DEF Fault
    <3>1. exit'[q] = "stale" /\ (file = Malformed \/ faults' > 0)
      BY <2>1, <3>a, <3>b, <3>c DEF Exit
    <3>2. file = Malformed => ~Current'
      BY <3>0, FileFacts DEF Current
    <3> QED
      BY <3>1, <3>2 DEF Truthful
  <2>2. CASE q # p
    BY <1>0, <1>3, <2>2 DEF ReadLock, Continue, Goto, Exit, Fault
  <2> QED
    BY <2>1, <2>2
<1>4. ASSUME NEW p \in Processes, Decide(p) PROVE Truthful(q)'
  <2>1. CASE q = p
    BY <1>4, <2>1, DecideTrue DEF Decide
  <2>2. CASE q # p
    BY <1>0, <1>4, <2>2 DEF Decide, Continue, Goto, Exit
  <2> QED
    BY <2>1, <2>2
<1>5. ASSUME NEW p \in Processes, CreateTemporary(p) \/ WriteTemporary(p) PROVE Truthful(q)'
  <2>1. CASE q = p
    <3>1. exit'[q] = "error"
      BY <1>5, <2>1 DEF CreateTemporary, WriteTemporary, WriteFails, Continue, Goto, Exit
    <3> QED
      BY <3>1 DEF Truthful
  <2>2. CASE q # p
    BY <1>0, <1>5, <2>2 DEF CreateTemporary, WriteTemporary, WriteFails, Continue, Goto, Exit, Fault
  <2> QED
    BY <2>1, <2>2
<1>6. ASSUME NEW p \in Processes, RenameLock(p) PROVE Truthful(q)'
  <2>1. CASE WriteFails(p) /\ UNCHANGED <<file, history>> /\ q = p
    <3>1. exit'[q] = "error"
      BY <2>1 DEF WriteFails, Exit
    <3> QED
      BY <3>1 DEF Truthful
  <2>2. CASE WriteFails(p) /\ UNCHANGED <<file, history>> /\ q # p
    BY <1>0, <1>6, <2>2 DEF RenameLock, WriteFails, Goto, Exit, Fault
  <2>3. CASE file' = temporary[p] /\ calm' = calm \cap {p} /\ Exit(p, "ok")
    <3>1. q = p /\ p \in calm /\ step[p] = "rename" /\ UNCHANGED project
      BY <1>6, <2>3 DEF RenameLock
    <3>2. /\ analyzed[p] = project /\ analyzed[p] \in Resolutions
          /\ ~RefreshRefused(previous[p], analyzed[p]) /\ previous[p] \in Locks \cup {Empty}
          /\ file' = File(Refreshed(previous[p], analyzed[p]))
      BY <2>3, <3>1 DEF StageInv, ReadInv, ReadOf
    <3>3. /\ Refreshed(previous[p], analyzed[p]) \in Locks
          /\ ResolutionDiff(Refreshed(previous[p], analyzed[p]), analyzed[p]) = {}
      BY <3>2, RefreshedLock, RefreshedFields
    <3>4. Current'
      BY <3>1, <3>2, <3>3 DEF Current
    <3>5. exit'[q] = "ok"
      BY <2>3, <3>1 DEF Exit
    <3> QED
      BY <3>4, <3>5 DEF Truthful
  <2> QED
    BY <1>6, <2>1, <2>2, <2>3 DEF RenameLock
<1>7. ASSUME NEW p \in Processes, Crash(p) PROVE Truthful(q)'
  BY <1>0, <1>7 DEF Crash, Goto, Fault
<1>8. CASE EditProject \/ EditLock \/ RecordBuild
  BY <1>8 DEF EditProject, EditLock, RecordBuild
<1>9. CASE StartBuild
  BY <1>0, <1>9 DEF StartBuild
<1>10. CASE UNCHANGED vars
  BY <1>0, <1>10 DEF vars
<1> QED
  BY <1>1, <1>2, <1>3, <1>4, <1>5, <1>6, <1>7, <1>8, <1>9, <1>10 DEF Next, Process

LEMMA InitAnswers == Init => StageInv /\ ReadInv /\ TruthInv
BY DEF Init, StageInv, ReadInv, TruthInv

\* When nobody else interferes, what a command answers is true of the disk when
\* it answers and as long as nobody interferes (lockCommand of cli/lock.go).
THEOREM AnswerAlwaysTrue == Spec => []AnswerTrue
<1>1. TypeInv /\ StageInv /\ ReadInv /\ TruthInv /\ [Next]_vars =>
        TypeInv' /\ StageInv' /\ ReadInv' /\ TruthInv'
  BY NextTypeInv, StageStep, ReadStep, TruthStep
<1>2. Spec => [](StageInv /\ TruthInv)
  BY <1>1, InitTypeInv, InitAnswers, PTL DEF Spec
<1>3. StageInv /\ TruthInv => AnswerTrue
  BY DEF StageInv, TruthInv, Truthful, AnswerTrue
<1> QED
  BY <1>2, <1>3, PTL

\* A step that changes lock or temporary files is one of a lock command.
LEMMA WriterOnly ==
  ASSUME TypeInv, StageInv, [Next]_vars, <<file, temporary>>' # <<file, temporary>>
  PROVE  \/ handEdits' # handEdits
         \/ building' # building
         \/ \E p \in Processes : command[p] = "lock" /\ step'[p] # step[p]
<1> USE DEF TypeInv, TypeOK, processes
<1>1. ASSUME NEW p \in Processes, CreateTemporary(p) \/ WriteTemporary(p) \/ RenameLock(p)
      PROVE  command[p] = "lock" /\ step'[p] # step[p]
  BY <1>1 DEF StageInv, CreateTemporary, WriteTemporary, RenameLock, WriteFails, Continue, Goto, Exit
<1>2. CASE EditLock
  BY <1>2 DEF EditLock
<1>3. CASE RecordBuild
  BY <1>3 DEF RecordBuild
<1>4. \/ \E p \in Processes : CreateTemporary(p) \/ WriteTemporary(p) \/ RenameLock(p)
      \/ EditLock \/ RecordBuild
  BY DEF Next, Process, vars, Start, Analyze, ReadLock, Decide, Crash, EditProject, StartBuild
<1> QED
  BY <1>1, <1>2, <1>3, <1>4

\* A rename over the lock that was read keeps its identity.
LEMMA IdentityKept ==
  ASSUME TypeInv, StageInv, [Next]_vars, NEW p \in Processes, NEW l \in Locks,
         step[p] = "rename", step'[p] = "done", file = File(l), previous[p] = l, file' # file
  PROVE  \E m \in Locks : file' = File(m) /\ m.digest = l.digest /\ m.artifacts = l.artifacts
<1> USE DEF TypeInv, TypeOK, processes
<1>1. RenameLock(p)
  <2>1. ASSUME NEW q \in Processes, q # p, Process(q) \/ Crash(q) PROVE step'[p] = step[p]
    BY <2>1 DEF Process, Start, Analyze, ReadLock, Decide, CreateTemporary, WriteTemporary, RenameLock,
                WriteFails, Crash, Continue, Goto, Exit
  <2>2. ASSUME EditProject \/ EditLock \/ StartBuild \/ RecordBuild \/ UNCHANGED vars PROVE step' = step
    BY <2>2 DEF EditProject, EditLock, StartBuild, RecordBuild, vars
  <2>3. Process(p) \/ Crash(p)
    BY <2>1, <2>2 DEF Next
  <2> QED
    BY <2>3 DEF Process, Start, Analyze, ReadLock, Decide, CreateTemporary, WriteTemporary, Crash, Goto
<1>2. file' = File(Refreshed(l, analyzed[p]))
  BY <1>1 DEF RenameLock, StageInv
<1>3. analyzed[p] \in Resolutions /\ ~RefreshRefused(l, analyzed[p])
  BY DEF StageInv
<1> QED
  BY <1>2, <1>3, RefreshedLock, RefreshedFields

\* check, diff, dry-run and validate write nothing, and a refresh keeps the
\* identity of the lock it read and replaces.
THEOREM OnlyRefreshMayWrite == Spec => OnlyRefreshWrites
<1>1. TypeInv /\ StageInv /\ [Next]_vars => TypeInv' /\ StageInv'
  BY NextTypeInv, StageStep
<1>2. Spec => [](TypeInv /\ StageInv)
  BY <1>1, InitTypeInv, InitAnswers, PTL DEF Spec
<1>3. TypeInv /\ StageInv /\ [Next]_vars =>
        [/\ <<file, temporary>>' # <<file, temporary>> =>
              \/ handEdits' # handEdits
              \/ building' # building
              \/ \E p \in Processes : command[p] = "lock" /\ step'[p] # step[p]
         /\ \A p \in Processes, l \in Locks :
              step[p] = "rename" /\ step'[p] = "done" /\ file = File(l) /\ previous[p] = l /\ file' # file =>
                \E m \in Locks : file' = File(m) /\ m.digest = l.digest /\ m.artifacts = l.artifacts]_vars
  BY WriterOnly, IdentityKept
<1> QED
  BY <1>2, <1>3, PTL DEF Spec, OnlyRefreshWrites
=============================================================================
