-------------------------- MODULE BuildPipelineProofs --------------------------
(***************************************************************************)
(* What holds of every build: for any project, any number of edits, and    *)
(* any changes of the executable, the destinations and the private files.  *)
(***************************************************************************)
EXTENDS BuildPipeline, TLAPS

Publishing == {"create", "fill", "rename"}

TypeInv ==
  /\ TypeOK
  /\ step \in Publishing => next <= Len(options.outputs)

LEMMA OutputName == ASSUME options \in Options, next \in Nat \ {0}, next <= Len(options.outputs)
                    PROVE  Output \in Names /\ next \in DOMAIN options.outputs
<1>1. options.outputs \in OutputLists /\ options.outputs \in Seq(Range(options.outputs))
  BY BuildAssumption DEF Options
<1>2. next \in DOMAIN options.outputs
  BY <1>1
<1> QED
  BY <1>1, <1>2 DEF Output, Names

LEMMA FailureTypes == Failures \subseteq {"usage", "policy", "analysis", "validation", "stale", "backend", "compilation",
                                           "failed"}
  BY DEF Failures

LEMMA InitTypeInv == Init => TypeInv
<1> SUFFICES ASSUME Init PROVE TypeInv
  OBVIOUS
<1>1. [m \in Modules |-> 0] \in Snapshots
  BY BuildAssumption DEF Snapshots
<1>2. Nothing \in [Names -> Contents] /\ Nothing \in [Names -> Places]
  BY DEF Nothing, Contents, Places
<1> QED
  BY <1>1, <1>2, BuildAssumption DEF Init, TypeInv, TypeOK, Publishing, Contents, Steps, Answers

LEMMA NextTypeInv == TypeInv /\ [Next]_vars => TypeInv'
<1> SUFFICES ASSUME TypeInv, [Next]_vars PROVE TypeInv'
  OBVIOUS
<1> USE BuildAssumption DEF TypeInv, TypeOK, Publishing, Steps, Answers, Goto, Finish, Idle
<1> USE DEF world, copying, results, budgets, history
<1>1. CASE Analyze \/ CheckLock \/ ProbeVersion \/ StageRuntime \/ Prepare \/ MakeWorkspace \/ Relocate \/ CopyRuntime
  BY <1>1 DEF Analyze, CheckLock, ProbeVersion, StageRuntime, Prepare, MakeWorkspace, Relocate, CopyRuntime
<1>2. CASE RecordBackend
  BY <1>2 DEF RecordBackend, Missing
<1>3. ASSUME NEW m \in Modules, Collect(m) PROVE TypeInv'
  <2>1. Replaces(m, source[m]) \subseteq Modules
    BY DEF Snapshots
  <2> QED
    BY <1>3, <2>1 DEF Collect
<1>4. ASSUME NEW m \in Modules, Copy(m) PROVE TypeInv'
  <2>1. copied' \in Snapshots
    BY <1>4 DEF Copy, Snapshots
  <2> QED
    BY <1>4, <2>1 DEF Copy
<1>5. CASE CheckApplication \/ CheckDigest \/ ProbeAgain \/ CompareDigest \/ CheckCombined \/ Preflight \/ VerifyRuntime \/ Hash
  BY <1>5 DEF CheckApplication, CheckDigest, ProbeAgain, CompareDigest, CheckCombined, Preflight, VerifyRuntime, Hash
<1>6. CASE RunBackend
  <2>1. built' \in [Names -> Contents]
    BY <1>6 DEF RunBackend, Contents
  <2> QED
    BY <1>6, <2>1 DEF RunBackend, Missing
<1>7. CASE Preview \/ Resolve \/ CreateTemporary \/ Succeed
  BY <1>7 DEF Preview, Resolve, CreateTemporary, Succeed, Contents
<1>8. CASE Inspect
  BY <1>8 DEF Inspect
<1>9. CASE Fill
  <2>1. temporary' \in Contents
    BY <1>9, OutputName DEF Fill
  <2> QED
    BY <1>9, <2>1 DEF Fill
<1>10. CASE Rename
  <2>1. place' \in [Names -> Places] /\ published' \in [Names -> Contents]
    BY <1>10 DEF Rename, Places
  <2> QED
    BY <1>10, <2>1 DEF Rename
<1>11. CASE GiveUp
  <2>1. exit' \in Answers /\ dirs' \subseteq dirs /\ step' = "done"
    BY <1>11, FailureTypes DEF GiveUp
  <2> QED
    BY <1>11, <2>1 DEF GiveUp
<1>12. CASE Kill
  BY <1>12 DEF Kill
<1>13. ASSUME NEW m \in Modules, NEW v \in Versions, EditModule(m, v) PROVE TypeInv'
  BY <1>13 DEF EditModule, Snapshots
<1>14. CASE RefreshLock
  BY <1>14 DEF RefreshLock
<1>15. ASSUME NEW e \in Executables \cup {Missing}, ReplaceExecutable(e) PROVE TypeInv'
  BY <1>15 DEF ReplaceExecutable, Meddle
<1>16. CASE DamageRuntime
  <2>1. intact' \in BOOLEAN /\ UNCHANGED <<lock, options, step, next>>
    BY <1>16 DEF DamageRuntime
  <2>2. meddling' \in 0..MaxMeddling /\ edits' = edits
    BY <1>16 DEF DamageRuntime, Meddle
  <2> QED
    BY <1>16, <2>1, <2>2 DEF DamageRuntime
<1>17. ASSUME NEW n \in Names, DamageOutput(n) PROVE TypeInv'
  BY <1>17 DEF DamageOutput, Meddle, Contents
<1>18. ASSUME NEW n \in Names, NEW what \in {"absent", "foreign", "directory", "link"}, ChangeDestination(n, what)
       PROVE  TypeInv'
  BY <1>18 DEF ChangeDestination, Meddle, Places, Contents
<1>19. CASE UNCHANGED vars
  BY <1>19 DEF vars
<1> QED
  BY <1>1, <1>2, <1>3, <1>4, <1>5, <1>6, <1>7, <1>8, <1>9, <1>10, <1>11, <1>12, <1>13, <1>14, <1>15, <1>16, <1>17,
     <1>18, <1>19 DEF Next, Build, Others

\* Every variable keeps its type: no build goes on with the digest of a missing
\* executable (ExecutableDigest), and none collects a module outside the project.
THEOREM TypeCorrect == Spec => []TypeOK
<1>1. TypeInv => TypeOK
  BY DEF TypeInv
<1> QED
  BY InitTypeInv, NextTypeInv, <1>1, PTL DEF Spec
-----------------------------------------------------------------------------
(* What ran was compiled from the analyzed selection.                      *)

Relocated == {"runtime", "select", "digest", "again", "compare", "combine", "run"}
Compared  == {"digest", "again", "compare", "combine", "run"}
Built     == {"verify", "hash", "resolve", "inspect", "create", "fill", "rename"}
Over      == {"done", "killed"}

\* From the first read manifest on every module the workspace uses is known or
\* still to be read; each comparison holds from the step after it until the
\* executable runs, because none of the compared states changes any more.
SelectionInv ==
  /\ step \in {"collect", "copy"} => Main \subseteq known \cup pending
  /\ step = "copy" => pending = {}
  /\ step \in Relocated => Main \subseteq known /\ Closed(known, copied)
  /\ step \in Compared => Preserved(AnalyzedModules(analyzed), ApplicationModules(copied))
  /\ step = "run" => /\ Preserved(ApplicationModules(copied), CombinedModules(copied))
                     /\ Preserved(RuntimeModules, CombinedModules(copied))
  /\ ran # None => step \in Built \cup Over
  /\ SelectionKept

Compiled == <<analyzed, copied, known, pending, ran>>

\* A step that leaves the compared states alone and goes no step ahead.
LEMMA SelectionFrame ==
  ASSUME SelectionInv, UNCHANGED Compiled,
         \/ step' = step
         \/ step' \in Over
         \/ step' \in Built /\ step \in Built
         \/ step' \notin {"collect", "copy"} \cup Relocated \cup Built /\ ran = None
         \/ step \in Relocated /\ step' \in Relocated \ Compared
         \/ step \in Compared /\ step' \in Compared \ {"run"}
         \/ step = "run" /\ step' \in Built
  PROVE  SelectionInv'
<1> USE DEF SelectionInv, SelectionKept, Compiled, Relocated, Compared, Built, Over
<1>1. SelectionKept'
  OBVIOUS
<1>2. Closed(known, copied)' = Closed(known, copied)
  BY DEF Closed
<1> QED
  BY <1>1, <1>2

LEMMA InitSelectionInv == Init => SelectionInv
  BY DEF Init, SelectionInv, SelectionKept, Relocated, Compared, Built, Over

LEMMA NextSelectionInv == TypeInv /\ SelectionInv /\ [Next]_vars => SelectionInv'
<1> SUFFICES ASSUME TypeInv, SelectionInv, [Next]_vars PROVE SelectionInv'
  OBVIOUS
<1> USE DEF Goto, Finish, Idle, Compiled, world, copying, results, budgets, history
<1>a. step \in {"analyze", "lock", "probe", "record", "stage", "prepare", "collect", "copy"} => ran = None
  BY DEF SelectionInv, Built, Over
<1>b. step \in Relocated \cup Compared => ran = None
  BY DEF SelectionInv, Relocated, Compared, Built, Over
<1>1. CASE Analyze
  BY <1>1, <1>a DEF Analyze, SelectionInv, SelectionKept, Relocated, Compared, Built, Over
<1>2. CASE CheckLock \/ ProbeVersion \/ RecordBackend \/ StageRuntime
  <2>1. UNCHANGED Compiled /\ ran = None
    BY <1>2, <1>a DEF CheckLock, ProbeVersion, RecordBackend, StageRuntime
  <2>2. step' \in {"probe", "record", "stage", "prepare"}
    BY <1>2 DEF CheckLock, ProbeVersion, RecordBackend, StageRuntime
  <2> QED
    BY <2>1, <2>2, SelectionFrame DEF Relocated, Built
<1>3. CASE Prepare
  BY <1>3, <1>a DEF Prepare, SelectionInv, SelectionKept, Relocated, Compared, Built, Over
<1>4. ASSUME NEW m \in Modules, Collect(m) PROVE SelectionInv'
  BY <1>4, <1>a DEF Collect, SelectionInv, SelectionKept, Relocated, Compared, Built, Over
<1>5. CASE MakeWorkspace
  BY <1>5, <1>a DEF MakeWorkspace, SelectionInv, SelectionKept, Relocated, Compared, Built, Over
<1>6. ASSUME NEW m \in Modules, Copy(m) PROVE SelectionInv'
  BY <1>6, <1>a DEF Copy, SelectionInv, SelectionKept, Relocated, Compared, Built, Over
<1>7. CASE Relocate
  BY <1>7, <1>a DEF Relocate, SelectionInv, SelectionKept, Relocated, Compared, Built, Over
<1>8. CASE CopyRuntime \/ CheckDigest \/ ProbeAgain \/ CompareDigest
  <2>1. UNCHANGED Compiled
    BY <1>8 DEF CopyRuntime, CheckDigest, ProbeAgain, CompareDigest
  <2>2. \/ step \in Relocated /\ step' \in Relocated \ Compared
        \/ step \in Compared /\ step' \in Compared \ {"run"}
    BY <1>8 DEF CopyRuntime, CheckDigest, ProbeAgain, CompareDigest, Relocated, Compared
  <2> QED
    BY <2>1, <2>2, SelectionFrame
<1>9. CASE CheckApplication
  BY <1>9, <1>b DEF CheckApplication, SelectionInv, SelectionKept, Relocated, Compared, Built, Over
<1>10. CASE CheckCombined
  BY <1>10, <1>b DEF CheckCombined, SelectionInv, SelectionKept, Relocated, Compared, Built, Over
<1>11. CASE RunBackend
  <2>1. Closed(known, copied)'
    BY <1>11 DEF RunBackend, SelectionInv, Relocated, Closed
  <2>2. Preserved(AnalyzedModules(analyzed), CombinedModules(copied))
    BY <1>11 DEF RunBackend, SelectionInv, Compared, Preserved
  <2>3. SelectionKept'
    BY <1>11, <2>1, <2>2 DEF RunBackend, SelectionInv, SelectionKept, Relocated
  <2> QED
    BY <1>11, <2>3 DEF RunBackend, SelectionInv, Relocated, Compared, Built, Over
<1>12. CASE Preflight \/ VerifyRuntime \/ Hash \/ Resolve \/ Inspect \/ CreateTemporary \/ Fill \/ Rename
  <2>1. UNCHANGED Compiled
    BY <1>12 DEF Preflight, VerifyRuntime, Hash, Resolve, Inspect, CreateTemporary, Fill, Rename
  <2>2. (step = "run" \/ step \in Built) /\ step' \in Built
    BY <1>12 DEF Preflight, VerifyRuntime, Hash, Resolve, Inspect, CreateTemporary, Fill, Rename, Built
  <2> QED
    BY <2>1, <2>2, SelectionFrame
<1>13. CASE Preview \/ Succeed \/ GiveUp \/ Kill
  <2>1. UNCHANGED Compiled /\ step' \in Over
    BY <1>13 DEF Preview, Succeed, GiveUp, Kill, Over
  <2> QED
    BY <2>1, SelectionFrame
<1>14. CASE Others
  <2>1. UNCHANGED Compiled /\ step' = step
    BY <1>14 DEF Others, EditModule, RefreshLock, ReplaceExecutable, DamageRuntime, DamageOutput, ChangeDestination
  <2> QED
    BY <2>1, SelectionFrame
<1>15. CASE UNCHANGED vars
  <2>1. UNCHANGED Compiled /\ step' = step
    BY <1>15 DEF vars
  <2> QED
    BY <2>1, SelectionFrame
<1> QED
  BY <1>1, <1>2, <1>3, <1>4, <1>5, <1>6, <1>7, <1>8, <1>9, <1>10, <1>11, <1>12, <1>13, <1>14, <1>15 DEF Next, Build

\* Whatever runs compiles every module that supplied a package to the analysis
\* in the version that was analyzed; adding the runtime changed no selection of
\* the copies and none of its own, and the copies refer to copies only, whatever
\* was edited between analysis, collection and copying (CheckModuleSelection,
\* RelocateModuleManifest).  Of modules that are selected but supplied no package
\* to the analysis it says nothing, for the code does not record them.
THEOREM SelectionAlwaysKept == Spec => []SelectionKept
<1>1. SelectionInv => SelectionKept
  BY DEF SelectionInv
<1> QED
  BY InitTypeInv, NextTypeInv, InitSelectionInv, NextSelectionInv, <1>1, PTL DEF Spec

-----------------------------------------------------------------------------
(* What ran and what is published was verified.                            *)

Locked == {"probe", "record", "stage", "prepare", "collect", "copy"} \cup Relocated \cup Built
Hashed == Built \ {"verify"}

\* Each verification holds from the step after it for as long as it matters:
\* the probe and the digest until the executable runs or is replaced, the
\* runtime from its last verification on, the lock from its check on, the
\* digest of the copied file until it is renamed.
VerifiedInv ==
  /\ step \in {"compare", "combine", "run"} => otelc \in Pinned \/ "probe" \in late
  /\ step \in {"combine", "run"} => otelc = backend \/ "digest" \in late
  /\ BackendVerified
  /\ step \in Locked /\ options.locked => lock = Resolution(analyzed)
  /\ step \in Built => options.dryRun \/ ran # None
  /\ step \in Hashed => intact
  /\ step \in {"inspect"} \cup Publishing =>
       ~options.dryRun /\ \A n \in Range(options.outputs) : n \notin Protected
  /\ step = "rename" => temporary = hashed[Output]
  /\ step \notin {"inspect"} \cup Publishing \cup Over => published = Nothing
  /\ PublishedVerified

LEMMA InitVerifiedInv == Init => VerifiedInv
  BY DEF Init, VerifiedInv, BackendVerified, PublishedVerified, Locked, Relocated, Built, Hashed, Publishing, Over, Nothing

Verified == <<otelc, backend, ran, late, lock, options, analyzed, intact, published, hashed>>

\* A step that leaves alone what was verified and verifies nothing.
LEMMA VerifiedFrame ==
  ASSUME TypeInv, VerifiedInv, UNCHANGED Verified,
         \/ step' \in Over
         \/ step' = step /\ UNCHANGED <<temporary, next>>
         \/ step' \in Locked \ (Built \cup {"compare", "combine", "run"}) /\ step \in Locked /\ published = Nothing
         \/ step' \in Publishing \ {"rename"} /\ step \in {"inspect"} \cup Publishing
  PROVE  VerifiedInv'
<1> USE DEF Output, VerifiedInv, BackendVerified, Verified, Locked, Relocated, Built, Hashed, Publishing, Over
<1>1. PublishedVerified'
  BY DEF PublishedVerified
<1> QED
  BY <1>1

LEMMA NextVerifiedInv == TypeInv /\ SelectionInv /\ VerifiedInv /\ [Next]_vars => VerifiedInv'
<1> SUFFICES ASSUME TypeInv, SelectionInv, VerifiedInv, [Next]_vars PROVE VerifiedInv'
  OBVIOUS
<1> USE DEF Goto, Finish, Idle, world, copying, results, budgets, history
<1>a. ran # None => step \in Built \cup Over
  BY DEF SelectionInv
<1>b. step \notin {"inspect"} \cup Publishing \cup Over => published = Nothing
  BY DEF VerifiedInv
<1>c. \A n \in Names : Nothing[n] = "absent"
  BY DEF Nothing
<1>1. CASE Analyze
  BY <1>1, <1>a, <1>b, <1>c DEF Analyze, VerifiedInv, BackendVerified, PublishedVerified, Locked, Relocated, Built,
     Hashed, Publishing, Over
<1>2. CASE CheckLock
  BY <1>2, <1>a, <1>b, <1>c DEF CheckLock, VerifiedInv, BackendVerified, PublishedVerified, Locked, Relocated, Built,
     Hashed, Publishing, Over
<1>3. CASE RecordBackend
  BY <1>3, <1>a, <1>b, <1>c DEF RecordBackend, VerifiedInv, BackendVerified, PublishedVerified, Locked, Relocated,
     Built, Hashed, Publishing, Over
<1>4. CASE \/ ProbeVersion \/ StageRuntime \/ Prepare \/ (\E m \in Modules : Collect(m)) \/ MakeWorkspace
           \/ (\E m \in Modules : Copy(m)) \/ Relocate \/ CopyRuntime \/ CheckApplication \/ CheckDigest
  <2>1. UNCHANGED Verified
    BY <1>4 DEF ProbeVersion, StageRuntime, Prepare, Collect, MakeWorkspace, Copy, Relocate, CopyRuntime,
       CheckApplication, CheckDigest, Verified
  <2>2. /\ step \in Locked /\ step \notin {"inspect"} \cup Publishing \cup Over
        /\ step' \in Locked \ (Built \cup {"compare", "combine", "run"})
    BY <1>4 DEF ProbeVersion, StageRuntime, Prepare, Collect, MakeWorkspace, Copy, Relocate, CopyRuntime,
       CheckApplication, CheckDigest, Locked, Relocated, Built, Publishing, Over
  <2> QED
    BY <2>1, <2>2, <1>b, VerifiedFrame
<1>5. CASE ProbeAgain \/ CompareDigest \/ CheckCombined
  BY <1>5, <1>a, <1>b, <1>c DEF ProbeAgain, CompareDigest, CheckCombined, VerifiedInv, BackendVerified,
     PublishedVerified, Locked, Relocated, Built, Hashed, Publishing, Over
<1>6. CASE RunBackend
  <2>1. ran' = otelc /\ otelc \in Executables /\ ran' # None
    BY <1>6, BuildAssumption DEF RunBackend, TypeInv, TypeOK, Missing, None
  <2>2. BackendVerified'
    BY <1>6, <2>1 DEF RunBackend, VerifiedInv, BackendVerified
  <2>3. PublishedVerified'
    BY <1>6, <1>b, <1>c DEF RunBackend, PublishedVerified, Publishing, Over
  <2> QED
    BY <1>6, <1>b, <2>1, <2>2, <2>3 DEF RunBackend, VerifiedInv, Locked, Relocated, Built, Hashed, Publishing, Over
<1>7. CASE Preflight \/ VerifyRuntime \/ Hash \/ Resolve
  <2>1. /\ step \notin {"inspect"} \cup Publishing \cup Over
        /\ UNCHANGED <<otelc, backend, ran, late, lock, options, analyzed, intact, published>>
    BY <1>7 DEF Preflight, VerifyRuntime, Hash, Resolve, Publishing, Over
  <2>2. BackendVerified' /\ PublishedVerified'
    BY <2>1, <1>b, <1>c DEF VerifiedInv, BackendVerified, PublishedVerified
  <2>3. /\ (step = "run" /\ options.dryRun) \/ step \in Built
        /\ step' \in Built \ Publishing
        /\ step' \in Hashed => intact
        /\ step' = "inspect" => ~options.dryRun /\ \A n \in Range(options.outputs) : n \notin Protected
    BY <1>7 DEF Preflight, VerifyRuntime, Hash, Resolve, Resolvable, VerifiedInv, Built, Hashed, Publishing
  <2> QED
    BY <2>1, <2>2, <2>3, <1>b DEF VerifiedInv, Locked, Relocated, Built, Hashed, Publishing, Over
<1>8. CASE Inspect \/ CreateTemporary
  <2>1. UNCHANGED Verified
    BY <1>8 DEF Inspect, CreateTemporary, Verified
  <2>2. step' \in Publishing \ {"rename"} /\ step \in {"inspect"} \cup Publishing
    BY <1>8 DEF Inspect, CreateTemporary, Publishing
  <2> QED
    BY <2>1, <2>2, VerifiedFrame
<1>9. CASE Fill
  BY <1>9 DEF Fill, Output, VerifiedInv, BackendVerified, PublishedVerified, Locked, Relocated, Built, Hashed,
     Publishing, Over
<1>10. CASE Rename
  <2>1. Output \in Names /\ Output \in Range(options.outputs)
    BY <1>10, OutputName DEF Rename, TypeInv, TypeOK, Publishing, Output, Range
  <2>2. published' = [published EXCEPT ![Output] = hashed[Output]]
    BY <1>10 DEF Rename, VerifiedInv
  <2>3. /\ intact /\ ran # None /\ Output \notin Protected
        /\ options.locked => lock = Resolution(analyzed)
    BY <1>10, <2>1 DEF Rename, VerifiedInv, Locked, Built, Hashed, Publishing
  <2>4. UNCHANGED <<otelc, backend, ran, late, lock, options, analyzed, intact, hashed>> /\ step = "rename"
        /\ step' = "inspect"
    BY <1>10 DEF Rename
  <2>5. PublishedVerified'
    BY <2>1, <2>2, <2>3, <2>4 DEF VerifiedInv, PublishedVerified, TypeInv, TypeOK
  <2> QED
    BY <2>4, <2>5 DEF VerifiedInv, BackendVerified, Locked, Relocated, Built, Hashed, Publishing, Over
<1>11. CASE Preview \/ Succeed \/ GiveUp \/ Kill
  <2>1. UNCHANGED Verified /\ step' \in Over
    BY <1>11 DEF Preview, Succeed, GiveUp, Kill, Verified, Over
  <2> QED
    BY <2>1, VerifiedFrame
<1>12. CASE \/ \E m \in Modules, v \in Versions : EditModule(m, v)
            \/ \E n \in Names : DamageOutput(n)
            \/ \E n \in Names, what \in {"absent", "foreign", "directory", "link"} : ChangeDestination(n, what)
            \/ UNCHANGED vars
  <2>1. UNCHANGED Verified /\ step' = step /\ UNCHANGED <<temporary, next>>
    BY <1>12 DEF EditModule, DamageOutput, ChangeDestination, vars, Verified
  <2> QED
    BY <2>1, VerifiedFrame
<1>13. CASE RefreshLock
  BY <1>13, <1>a, <1>b, <1>c DEF RefreshLock, VerifiedInv, BackendVerified, PublishedVerified, Locked, Relocated,
     Built, Hashed, Publishing, Over
<1>14. CASE \E e \in Executables \cup {Missing} : ReplaceExecutable(e)
  BY <1>14, <1>a, <1>b, <1>c DEF ReplaceExecutable, VerifiedInv, BackendVerified, PublishedVerified, Locked,
     Relocated, Built, Hashed, Publishing, Over
<1>15. CASE DamageRuntime
  BY <1>15, <1>b, <1>c DEF DamageRuntime, VerifiedInv, BackendVerified, PublishedVerified, Locked,
     Relocated, Built, Hashed, Publishing, Over
<1> QED
  BY <1>1, <1>2, <1>3, <1>4, <1>5, <1>6, <1>7, <1>8, <1>9, <1>10, <1>11, <1>12, <1>13, <1>14, <1>15
  DEF Next, Build, Others

\* The executable that ran has the recorded digest and had reported the pinned
\* version, unless it was replaced after it was last verified
\* (verifyPreparedBuildBackend).
THEOREM BackendAlwaysVerified == Spec => []BackendVerified
<1>1. VerifiedInv => BackendVerified
  BY DEF VerifiedInv
<1> QED
  BY InitTypeInv, NextTypeInv, InitSelectionInv, NextSelectionInv, InitVerifiedInv, NextVerifiedInv, <1>1, PTL DEF Spec

\* What is published has the digest taken after the build, comes from a build
\* that left the runtime alone, under an accepted lock if one was asked for, and
\* replaces no source file (VerifyArtifacts, copyVerifiedBuildOutput,
\* checkBuildResolution, protectedBuildOutput).
THEOREM PublishedAlwaysVerified == Spec => []PublishedVerified
<1>1. VerifiedInv => PublishedVerified
  BY DEF VerifiedInv
<1> QED
  BY InitTypeInv, NextTypeInv, InitSelectionInv, NextSelectionInv, InitVerifiedInv, NextVerifiedInv, <1>1, PTL DEF Spec

-----------------------------------------------------------------------------
(* What the answer says, and what a publication replaces.                  *)

\* The executables published are those before the next one.  From the run on
\* there is a file, and from the hash on a digest, for every one asked for.  At
\* every step a return would try to remove all that is private by then.
AnswerInv ==
  /\ step \notin {"inspect"} \cup Publishing \cup Over => next = 1 /\ published = Nothing
  /\ step \in {"verify", "hash"} /\ ~options.dryRun => \A n \in Range(options.outputs) : built[n] # "absent"
  /\ step \in {"resolve", "inspect"} \cup Publishing /\ ~options.dryRun =>
       \A n \in Range(options.outputs) : hashed[n] # "absent"
  /\ step \in Publishing => place[Output] \in Regular \/ Output \in surprised
  /\ step \notin Over => dirs \subseteq Deferred
  /\ AnswerMatches

LEMMA InitAnswerInv == Init => AnswerInv
<1> SUFFICES ASSUME Init PROVE AnswerInv
  OBVIOUS
<1>1. \A i \in DOMAIN options.outputs : options.outputs[i] \in Names /\ i \in Nat \ {0}
  BY BuildAssumption DEF Init, Options, Names
<1>2. \A i \in DOMAIN options.outputs : (published[options.outputs[i]] # "absent") = (i < next)
  BY <1>1 DEF Init, Nothing
<1> QED
  BY <1>2 DEF Init, AnswerInv, AnswerMatches, Publishing, Over

\* No step that goes on makes anything a return would not try to remove.
LEMMA NextDeferred ==
  ASSUME TypeInv, AnswerInv, [Next]_vars, step' \notin Over
  PROVE  dirs' \subseteq Deferred'
<1> USE DEF Goto, Finish, Idle, Deferred, Preparing, Executing, Delivering, Over, AnswerInv
<1>1. CASE \/ Analyze \/ CheckLock \/ ProbeVersion \/ RecordBackend \/ StageRuntime \/ Prepare
           \/ (\E m \in Modules : Collect(m)) \/ MakeWorkspace \/ (\E m \in Modules : Copy(m))
           \/ Relocate \/ CopyRuntime
  BY <1>1 DEF Analyze, CheckLock, ProbeVersion, RecordBackend, StageRuntime, Prepare, Collect, MakeWorkspace, Copy,
     Relocate, CopyRuntime
<1>2. CASE \/ CheckApplication \/ CheckDigest \/ ProbeAgain \/ CompareDigest \/ CheckCombined
           \/ RunBackend \/ Preflight \/ VerifyRuntime \/ Hash
  BY <1>2 DEF CheckApplication, CheckDigest, ProbeAgain, CompareDigest, CheckCombined, RunBackend, Preflight,
     VerifyRuntime, Hash
<1>3. CASE Resolve \/ Inspect \/ CreateTemporary \/ Fill \/ Rename
  BY <1>3 DEF Resolve, Inspect, CreateTemporary, Fill, Rename
<1>4. CASE Preview \/ Succeed \/ GiveUp \/ Kill
  BY <1>4 DEF Preview, Succeed, GiveUp, Kill
<1>5. CASE Others \/ UNCHANGED vars
  BY <1>5 DEF Others, EditModule, RefreshLock, ReplaceExecutable, DamageRuntime, DamageOutput, ChangeDestination, vars
<1> QED
  BY <1>1, <1>2, <1>3, <1>4, <1>5 DEF Next, Build

\* An executable still to be published, whenever the build gives up.
LEMMA FailureUnpublished ==
  ASSUME TypeInv, AnswerInv, NEW answer \in Failures, step \notin Over, options.outputs # <<>>
  PROVE  next <= Len(options.outputs)
<1>1. options.outputs \in Seq(Range(options.outputs))
  BY BuildAssumption DEF TypeInv, TypeOK, Options
<1>2. Len(options.outputs) \in Nat \ {0}
  BY <1>1
<1>3. CASE step \in Delivering \ {"resolve"}
  BY <1>3 DEF Failures, Delivering
<1>4. CASE step \notin Delivering \ {"resolve"}
  BY <1>2, <1>4 DEF AnswerInv, Delivering, Publishing
<1> QED
  BY <1>3, <1>4

\* "failed" is the answer of a step that handles an executable, any other one
\* comes before the first is published.
LEMMA FailureAnswer ==
  ASSUME TypeInv, AnswerInv, NEW answer \in Failures, step \notin Over
  PROVE  /\ answer # "ok"
         /\ answer = "failed" => options.outputs # <<>>
         /\ answer # "failed" => next = 1
<1>1. options.outputs = <<>> => Len(options.outputs) = 0
  OBVIOUS
<1>2. next \in Nat \ {0}
  BY DEF TypeInv, TypeOK
<1>3. CASE step \in Delivering \ {"resolve"}
  BY <1>1, <1>2, <1>3 DEF Failures, Delivering
<1>4. CASE step \notin Delivering \ {"resolve"}
  <2>1. next = 1
    BY <1>4 DEF AnswerInv, Delivering, Publishing
  <2> QED
    BY <1>4, <2>1 DEF Failures
<1> QED
  BY <1>3, <1>4

LEMMA NextAnswerInv == TypeInv /\ SelectionInv /\ VerifiedInv /\ AnswerInv /\ [Next]_vars => AnswerInv'
<1> SUFFICES ASSUME TypeInv, SelectionInv, VerifiedInv, AnswerInv, [Next]_vars PROVE AnswerInv'
  OBVIOUS
<1> USE DEF Goto, Finish, Idle, world, copying, results, budgets, history
<1>a. step' \notin Over => dirs' \subseteq Deferred'
  BY NextDeferred
<1>1. CASE \/ Analyze \/ CheckLock \/ ProbeVersion \/ RecordBackend \/ StageRuntime \/ Prepare
           \/ (\E m \in Modules : Collect(m)) \/ MakeWorkspace \/ (\E m \in Modules : Copy(m))
           \/ Relocate \/ CopyRuntime \/ CheckApplication \/ CheckDigest \/ ProbeAgain \/ CompareDigest \/ CheckCombined
  <2>1. UNCHANGED <<ran, next, published, options>> /\ step \notin {"inspect"} \cup Publishing \cup Over
        /\ step' \notin {"verify", "hash", "resolve", "inspect"} \cup Publishing \cup Over
    BY <1>1 DEF Analyze, CheckLock, ProbeVersion, RecordBackend, StageRuntime, Prepare, Collect, MakeWorkspace, Copy,
       Relocate, CopyRuntime, CheckApplication, CheckDigest, ProbeAgain, CompareDigest, CheckCombined, Publishing, Over
  <2> QED
    BY <1>a, <2>1 DEF AnswerInv, AnswerMatches, Publishing, Over
<1>2. CASE RunBackend
  <2>1. \A n \in Range(options.outputs) : n \in Names
    BY BuildAssumption DEF TypeInv, TypeOK, Options, Names, Range
  <2>2. \A n \in Range(options.outputs) : built'[n] # "absent"
    BY <1>2, <2>1 DEF RunBackend
  <2> QED
    BY <1>2, <1>a, <2>2 DEF RunBackend, AnswerInv, AnswerMatches, Publishing, Over
<1>3. CASE Preflight \/ VerifyRuntime \/ Hash \/ Resolve
  BY <1>3, <1>a DEF Preflight, VerifyRuntime, Hash, Resolve, AnswerInv, AnswerMatches, Publishing, Over
<1>4. CASE Inspect \/ CreateTemporary \/ Fill
  BY <1>4, <1>a DEF Inspect, CreateTemporary, Fill, Output, AnswerInv, AnswerMatches, Publishing, Over
<1>5. CASE Rename
  <2>1. Output \in Names /\ next \in DOMAIN options.outputs /\ Output \in Range(options.outputs)
    BY <1>5, OutputName DEF Rename, TypeInv, TypeOK, Publishing, Output, Range
  <2>2. temporary # "absent" /\ ~options.dryRun
    BY <1>5, <2>1 DEF Rename, VerifiedInv, AnswerInv, Publishing
  <2>3. \A i \in DOMAIN options.outputs : i \in Nat /\ (options.outputs[i] = Output => i = next)
    BY <2>1, BuildAssumption DEF TypeInv, TypeOK, Options, Output, IsInjective
  <2>4. \A i \in DOMAIN options.outputs : published'[options.outputs[i]] =
          IF i = next THEN temporary ELSE published[options.outputs[i]]
    BY <1>5, <2>1, <2>3, BuildAssumption DEF Rename, TypeInv, TypeOK, Options, Names, Output
  <2>5. \A i \in DOMAIN options.outputs : (published'[options.outputs[i]] # "absent") = (i < next')
    <3>1. next' = next + 1 /\ next \in Nat
      BY <1>5 DEF Rename, TypeInv, TypeOK
    <3> SUFFICES ASSUME NEW i \in DOMAIN options.outputs
                 PROVE  (published'[options.outputs[i]] # "absent") <=> (i < next + 1)
      BY <3>1
    <3>2. (published[options.outputs[i]] # "absent") <=> (i < next)
      BY DEF AnswerInv, AnswerMatches
    <3> QED
      BY <2>2, <2>3, <2>4, <3>1, <3>2
  <2> QED
    BY <1>5, <1>a, <2>2, <2>5 DEF Rename, AnswerInv, AnswerMatches, Publishing, Over
<1>6. CASE Preview \/ Succeed
  <2>1. step \in {"resolve", "inspect"} /\ step' = "done" /\ exit' = "ok" /\ dirs' = dirs \ Deferred
        /\ UNCHANGED <<ran, next, published, options, built, hashed, place, surprised>>
    BY <1>6 DEF Preview, Succeed
  <2>2. dirs' = {}
    BY <2>1 DEF AnswerInv, Over
  <2>3. ran = None <=> options.dryRun
    BY <2>1 DEF VerifiedInv, Built, AnswerInv, AnswerMatches
  <2>4. options.dryRun \/ next > Len(options.outputs)
    BY <1>6 DEF Preview, Succeed
  <2> QED
    BY <2>1, <2>2, <2>3, <2>4 DEF AnswerInv, AnswerMatches, Publishing, Over
<1>7. CASE GiveUp
  <2>1. step \notin Over /\ step' = "done" /\ exit' \in Failures /\ dirs' = dirs \ Deferred
        /\ UNCHANGED <<ran, next, published, options, built, hashed, place, surprised>>
    BY <1>7 DEF GiveUp, Over
  <2>2. dirs' = {}
    BY <2>1 DEF AnswerInv
  <2>3. /\ exit' # "ok" /\ (options.outputs # <<>> => next <= Len(options.outputs))
        /\ exit' = "failed" => options.outputs # <<>>
        /\ exit' # "failed" => next = 1
    BY <2>1, FailureUnpublished, FailureAnswer
  <2>4. options.outputs # <<>> => ~(next > Len(options.outputs))
    <3>1. next \in Nat /\ options.outputs \in Seq(Range(options.outputs))
      BY BuildAssumption DEF TypeInv, TypeOK, Options
    <3> QED
      BY <2>3, <3>1
  <2> QED
    BY <2>1, <2>2, <2>3, <2>4 DEF AnswerInv, AnswerMatches, Publishing, Over
<1>8. CASE Kill
  BY <1>8, <1>a DEF Kill, AnswerInv, AnswerMatches, Publishing, Over
<1>9. CASE \/ \E m \in Modules, v \in Versions : EditModule(m, v)
           \/ RefreshLock \/ (\E e \in Executables \cup {Missing} : ReplaceExecutable(e)) \/ DamageRuntime
           \/ UNCHANGED vars
  <2>1. UNCHANGED <<ran, next, published, options, step, exit, dirs, built, hashed, place, surprised>>
    BY <1>9 DEF EditModule, RefreshLock, ReplaceExecutable, DamageRuntime, vars
  <2> QED
    BY <1>a, <2>1 DEF Output, AnswerInv, AnswerMatches, Over
<1>10. CASE \E n \in Names : DamageOutput(n)
  <2>1. \A n \in Names : built[n] # "absent" => built'[n] # "absent"
    BY <1>10 DEF DamageOutput, TypeInv, TypeOK
  <2>2. \A n \in Range(options.outputs) : n \in Names
    BY BuildAssumption DEF TypeInv, TypeOK, Options, Names, Range
  <2> QED
    BY <1>10, <1>a, <2>1, <2>2 DEF DamageOutput, Output, AnswerInv, AnswerMatches
<1>11. CASE \E n \in Names, what \in {"absent", "foreign", "directory", "link"} : ChangeDestination(n, what)
  BY <1>11, <1>a DEF ChangeDestination, Output, AnswerInv, AnswerMatches, TypeInv, TypeOK
<1> QED
  BY <1>1, <1>2, <1>3, <1>4, <1>5, <1>6, <1>7, <1>8, <1>9, <1>10, <1>11 DEF Next, Build, Others

BuildInv == TypeInv /\ SelectionInv /\ VerifiedInv /\ AnswerInv

\* The four invariants together are inductive.
THEOREM Invariance == Spec => []BuildInv
<1>1. Init => BuildInv
  BY InitTypeInv, InitSelectionInv, InitVerifiedInv, InitAnswerInv DEF BuildInv
<1>2. BuildInv /\ [Next]_vars => BuildInv'
  BY NextTypeInv, NextSelectionInv, NextVerifiedInv, NextAnswerInv DEF BuildInv
<1> QED
  BY <1>1, <1>2, PTL DEF Spec

\* A build that has executables to publish answers ok if and only if it published
\* all of them, in both directions; any answer but ok and "failed" means that it
\* published none, and with every answer the removal of everything private was
\* tried (publishAll, and the deferred removals of PrepareWorkspace,
\* BuildResolved, buildCommand and PublishBuildArtifact, whose errors are ignored).
THEOREM AnswerAlwaysMatches == Spec => []AnswerMatches
<1>1. BuildInv => AnswerMatches
  BY DEF BuildInv, AnswerInv
<1> QED
  BY Invariance, <1>1, PTL

\* No publication replaces a directory, and one replaces a symbolic link only
\* if it was put there after the last inspection (inspectBuildDestination).
THEOREM OnlyRegularReplaced == Spec => ReplacesRegularOnly
<1>1. BuildInv /\ [Next]_vars =>
        [\A n \in Names : published'[n] # published[n] =>
           /\ place[n] # "directory"
           /\ place[n] = "link" => n \in surprised]_vars
  <2> SUFFICES ASSUME BuildInv, Next, NEW n \in Names, published'[n] # published[n]
               PROVE  place[n] # "directory" /\ (place[n] = "link" => n \in surprised)
    OBVIOUS
  <2>1. Rename
    BY DEF Next, Build, Others, Analyze, CheckLock, ProbeVersion, RecordBackend, StageRuntime, Prepare, Collect,
       MakeWorkspace, Copy, Relocate, CopyRuntime, CheckApplication, CheckDigest, ProbeAgain, CompareDigest,
       CheckCombined, RunBackend, Preflight, VerifyRuntime, Hash, Preview, Resolve, Inspect, CreateTemporary, Fill,
       Succeed, GiveUp, Kill, EditModule, RefreshLock, ReplaceExecutable, DamageRuntime, DamageOutput,
       ChangeDestination, Idle, results
  <2>2. n = Output
    BY <2>1 DEF Rename, BuildInv, TypeInv, TypeOK
  <2> QED
    BY <2>1, <2>2 DEF Rename, Goto, BuildInv, AnswerInv, Publishing, Regular
<1> QED
  BY Invariance, <1>1, PTL DEF Spec, ReplacesRegularOnly
=============================================================================
