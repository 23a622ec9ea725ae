----------------------------- MODULE BuildPipeline -----------------------------
(***************************************************************************)
(* otelplan build: buildCommand of src/internal/cli/build.go over          *)
(* BuildResolved, PrepareWorkspace, BuildPrepared and PublishBuildArtifact *)
(* of src/internal/compiler.                                               *)
(*                                                                         *)
(* One build process analyzes the project, checks the lock when --locked,  *)
(* verifies the otelc executable, copies the local modules one after the   *)
(* other into a workspace, verifies module selection and executable again, *)
(* runs the executable and publishes what it built.  Meanwhile the user    *)
(* edits manifests, others replace the executable and change destinations, *)
(* and the private directories may be damaged.                             *)
(***************************************************************************)
EXTENDS Naturals, Sequences, Functions

CONSTANTS
  Modules,         \* local modules of the project
  Main,            \* those the workspace uses
  Versions,        \* versions of a module: every edit makes another of them
  Replaces(_, _),  \* Replaces(m, v): local modules that version v of m refers to
  Requires(_, _),  \* Requires(m, v): [path, version] it requires of others
  Loads(_),        \* Loads(s): the modules that supply a package an analysis of s loads
  RuntimeRequires, \* what the generated runtime module requires
  Resolution(_),   \* what the lock records of a state of the project
  Executables,     \* contents of an otelc executable
  Pinned,          \* those that report the pinned version
  OutputLists,     \* the lists of executables that may be asked for
  Protected,       \* names of Go sources and project metadata
  MaxEdits,        \* bound: edits of manifests
  MaxMeddling      \* bound: changes of executable, destinations, private files

ASSUME BuildAssumption ==
  /\ Main \subseteq Modules /\ Main # {}
  /\ 0 \in Versions
  /\ \A m \in Modules, v \in Versions :
       /\ Replaces(m, v) \subseteq Modules
       /\ \A r \in Requires(m, v) : r.path \notin Modules
  /\ Pinned \subseteq Executables
  /\ "missing" \notin Executables /\ "none" \notin Executables
  /\ \A list \in OutputLists : list \in Seq(Range(list)) /\ IsInjective(list)
  /\ MaxEdits \in Nat /\ MaxMeddling \in Nat

Names == UNION {{list[i] : i \in DOMAIN list} : list \in OutputLists}
Missing == "missing"     \* no otelc on PATH
None    == "none"        \* nothing read, recorded or run yet

\* A state of the project.
Snapshots == [Modules -> Versions]

-----------------------------------------------------------------------------
(* Module selection, as the go command computes it, and the checks on it.  *)

Closed(set, s) == \A m \in set : Replaces(m, s[m]) \subseteq set

\* The local modules a build of s reads.
Reached(s) == {m \in Modules : \A set \in SUBSET Modules :
                 Main \subseteq set /\ Closed(set, s) => m \in set}

\* Of every path the highest version that is required.
Selected(required) ==
  {r \in required : \A q \in required : q.path = r.path => q.version <= r.version}

\* What go list -m all lists for the application: it may select modules that
\* supply no package.
ApplicationModules(s) ==
  {[path |-> m, version |-> 0] : m \in Reached(s)}
    \cup Selected(UNION {Requires(m, s[m]) : m \in Reached(s)})

\* What an analysis records of them: the modules of the packages it loaded.
AnalyzedModules(s) == {m \in ApplicationModules(s) : m.path \in Loads(s)}

RuntimeModules == Selected(RuntimeRequires)

\* With the runtime in the workspace.
CombinedModules(s) == Selected(ApplicationModules(s) \cup RuntimeModules)

\* CheckModuleSelection: more may be selected, nothing differently.
Preserved(original, selection) == original \subseteq selection

VARIABLES
  source,     \* module -> the version of it that is on disk
  lock,       \* what otelplan.lock records, None if absent or malformed
  otelc,      \* the executable on PATH
  place,      \* name -> what is at the destination of that executable
  options,    \* --locked, --dry-run and the executables to be built
  step,       \* what the process does next
  analyzed,   \* the state of the project it analyzed
  backend,    \* the executable whose digest it recorded
  dirs,       \* private directories and files it made and did not try to remove
  intact,     \* are the runtime files it uses as rendered?
  pending,    \* local modules whose manifest is still to be read
  known,      \* local modules found
  uncopied,   \* those still to be copied
  copied,     \* module -> the version that was copied
  ran,        \* the executable that was run
  built,      \* name -> the executable in the workspace
  hashed,     \* name -> the digest that was taken of it
  temporary,  \* content of the .otelplan-output-* file
  next,       \* index of the output to be published next
  exit,       \* what buildCommand answers
  edits, meddling

\* History, for the properties only.
VARIABLES
  late,       \* the last verifications since which the executable was replaced
  surprised,  \* destinations changed since they were last inspected
  published   \* name -> what this build put at its destination

world    == <<source, lock, otelc, place, options>>
copying  == <<pending, known, uncopied, copied>>
results  == <<built, hashed, temporary, next, published>>
budgets  == <<edits, meddling>>
history  == <<late, surprised>>
vars == <<world, step, analyzed, backend, dirs, intact, copying, ran, results, exit, budgets, history>>

Contents == {"absent", "built", "changed"}   \* of an executable in the workspace
Places   == Contents \cup {"foreign", "directory", "link"}
Regular  == Places \ {"directory", "link"}    \* what Lstat lets a build replace
Options  == [locked : BOOLEAN, dryRun : BOOLEAN, outputs : OutputLists]

Nothing == [n \in Names |-> "absent"]

Init ==
  /\ source = [m \in Modules |-> 0]
  /\ options \in Options
  /\ lock \in {None} \cup {Resolution(s) : s \in Snapshots}
  /\ ~options.locked => lock = None   \* never looked at
  /\ otelc \in Executables
  /\ place = Nothing       \* looked at much later, when it may be anything
  /\ step = "analyze" /\ exit = "running"
  /\ analyzed = [m \in Modules |-> 0]
  /\ backend = None /\ ran = None
  /\ dirs = {} /\ intact = TRUE
  /\ pending = {} /\ known = {} /\ uncopied = {}
  /\ copied = [m \in Modules |-> 0]
  /\ built = Nothing /\ hashed = Nothing /\ published = Nothing
  /\ temporary = "absent" /\ next = 1
  /\ edits = 0 /\ meddling = 0
  /\ late = {} /\ surprised = {}

-----------------------------------------------------------------------------
(* Control.  A step is enabled when what it checks holds.  Where it does   *)
(* not, or on an input/output error or a cancellation, the build gives up. *)

Idle == UNCHANGED <<world, analyzed, backend, dirs, intact, copying, ran, results, budgets, history>>

Goto(s, t) == step = s /\ step' = t /\ exit' = exit

Preparing  == {"copy", "runtime"}
Executing  == {"select", "digest", "again", "compare", "combine", "run", "verify", "hash"}
Delivering == {"resolve", "inspect", "create", "fill", "rename"}

\* What a return from this step removes: BuildResolved the runtime; the
\* workspace first PrepareWorkspace, then BuildResolved, then buildCommand;
\* PublishBuildArtifact its temporary file.
Deferred ==
  {d \in {"runtime", "workspace", "output"} :
     \/ d = "runtime"   /\ step \in {"prepare", "collect"} \cup Preparing \cup Executing
     \/ d = "workspace" /\ step \in Preparing \cup Executing \cup Delivering
     \/ d = "output"    /\ step \in Delivering}

\* The errors of the deferred removals are ignored.
Finish(answer) == step' = "done" /\ exit' = answer /\ dirs' = dirs \ Deferred

ToProtected == \E n \in Range(options.outputs) : n \in Protected

\* The answers a step can fail with, by their exit codes ("failed" is 1).  The
\* loops over the executables fail only at one of them: not when there is none,
\* and not after the last.
Failures ==
  CASE step = "analyze"            -> {"usage", "policy", "analysis", "validation", "backend"}
    [] step = "lock"               -> {"analysis", "backend", "validation", "stale"}
    [] step \in {"probe", "record"} -> {"backend"}
    [] step = "stage"              -> {"compilation"} \cup {a \in {"usage"} : ToProtected}
    [] step = "resolve"            -> {a \in {"failed", "usage"} :
                                         options.outputs # <<>> /\ (a = "usage" => ToProtected)}
    [] step \in Delivering \ {"resolve"} -> {a \in {"failed"} : next <= Len(options.outputs)}
    [] OTHER                       -> {"compilation"}

GiveUp ==
  /\ step \notin {"done", "killed"}
  /\ \E answer \in Failures : Finish(answer)
  /\ UNCHANGED <<world, analyzed, backend, intact, copying, ran, results, budgets, history>>

Kill ==
  /\ step \notin {"done", "killed"}
  /\ step' = "killed"
  /\ UNCHANGED <<world, analyzed, backend, dirs, intact, copying, ran, results, exit, budgets, history>>

-----------------------------------------------------------------------------
(* Before the workspace.                                                   *)

Analyze ==
  /\ Goto("analyze", "lock")
  /\ analyzed' = source
  /\ UNCHANGED <<world, backend, dirs, intact, copying, ran, results, budgets, history>>

\* checkBuildResolution: with --locked, otelplan lock --check.
CheckLock ==
  /\ Goto("lock", "probe")
  /\ options.locked => lock = Resolution(analyzed)
  /\ Idle

\* otelc.VerifyExecutable asks for the version and then reads the digest.
ProbeVersion ==
  /\ Goto("probe", "record")
  /\ otelc \in Pinned
  /\ Idle

\* Mutant: the digest of a file that is gone.
RecordAnything ==
  /\ Goto("record", "stage")
  /\ backend' = otelc
  /\ UNCHANGED <<world, analyzed, dirs, intact, copying, ran, results, budgets, history>>

RecordBackend ==
  /\ Goto("record", "stage")
  /\ otelc # Missing
  /\ backend' = otelc
  /\ UNCHANGED <<world, analyzed, dirs, intact, copying, ran, results, budgets, history>>

StageRuntime ==
  /\ Goto("stage", "prepare")
  /\ dirs' = {"runtime"}
  /\ UNCHANGED <<world, analyzed, backend, intact, copying, ran, results, budgets, history>>

-----------------------------------------------------------------------------
(* PrepareWorkspace.                                                       *)

Prepare ==
  /\ Goto("prepare", "collect")
  /\ intact
  /\ pending' = Main
  /\ UNCHANGED <<world, analyzed, backend, dirs, intact, known, uncopied, copied, ran, results, budgets, history>>

\* Mutant: a module that was read before is read again.
CollectAgain(m) ==
  /\ Goto("collect", "collect")
  /\ m \in pending
  /\ known' = known \cup {m}
  /\ pending' = (pending \ {m}) \cup Replaces(m, source[m])
  /\ UNCHANGED <<world, analyzed, backend, dirs, intact, uncopied, copied, ran, results, budgets, history>>

\* The next manifest, as it is now; the modules it refers to are queued.
Collect(m) ==
  /\ Goto("collect", "collect")
  /\ m \in pending
  /\ known' = known \cup {m}
  /\ pending' = (pending \cup Replaces(m, source[m])) \ known'
  /\ UNCHANGED <<world, analyzed, backend, dirs, intact, uncopied, copied, ran, results, budgets, history>>

MakeWorkspace ==
  /\ Goto("collect", "copy")
  /\ pending = {}
  /\ dirs' = dirs \cup {"workspace"}
  /\ uncopied' = known
  /\ UNCHANGED <<world, analyzed, backend, intact, pending, known, copied, ran, results, budgets, history>>

\* CopySourceTree: by now the module may not be what was collected.
Copy(m) ==
  /\ Goto("copy", "copy")
  /\ m \in uncopied
  /\ uncopied' = uncopied \ {m}
  /\ copied' = [copied EXCEPT ![m] = source[m]]
  /\ UNCHANGED <<world, analyzed, backend, dirs, intact, pending, known, ran, results, budgets, history>>

\* RelocateModuleManifest of every copy: what it refers to must be copied.
Relocate ==
  /\ Goto("copy", "runtime")
  /\ uncopied = {}
  /\ Closed(known, copied)
  /\ Idle

\* copyVerifiedWorkspaceRuntime and writeIsolatedWorkspace.
CopyRuntime ==
  /\ Goto("runtime", "select")
  /\ intact
  /\ Idle

-----------------------------------------------------------------------------
(* executeResolvedBuild and BuildPrepared.                                 *)

\* Mutant: the selection of the copies is only the baseline of the later check.
TrustCopies ==
  /\ Goto("select", "digest")
  /\ Idle

\* The copies, without the runtime, must select what the analysis recorded.
CheckApplication ==
  /\ Goto("select", "digest")
  /\ Preserved(AnalyzedModules(analyzed), ApplicationModules(copied))
  /\ Idle

\* verifyPreparedBuildBackend reads the digest, asks for the version, and
\* reads the digest once more.
CheckDigest ==
  /\ Goto("digest", "again")
  /\ intact
  /\ otelc = backend
  /\ Idle

ProbeAgain ==
  /\ Goto("again", "compare")
  /\ otelc \in Pinned
  /\ Idle

\* Mutant: the digest that was read first is not compared with the last one.
TrustDigest ==
  /\ Goto("compare", "combine")
  /\ otelc # Missing
  /\ Idle

CompareDigest ==
  /\ Goto("compare", "combine")
  /\ otelc = backend
  /\ Idle

\* verifyPreparedBuildSelection: with the runtime in the workspace neither
\* the application's modules nor the runtime's are selected differently.
CheckCombined ==
  /\ Goto("combine", "run")
  /\ Preserved(ApplicationModules(copied), CombinedModules(copied))
  /\ Preserved(RuntimeModules, CombinedModules(copied))
  /\ Idle

\* otelc may change the runtime's files.  What it builds is at the outputs.
RunBackend ==
  /\ Goto("run", "verify")
  /\ ~options.dryRun
  /\ otelc # Missing
  /\ ran' = otelc
  /\ intact' \in {intact, FALSE}
  /\ built' = [n \in Names |-> IF n \in Range(options.outputs) THEN "built" ELSE "absent"]
  /\ UNCHANGED <<world, analyzed, backend, dirs, copying, hashed, temporary, next, published, budgets, history>>

Preflight ==
  /\ Goto("run", "verify")
  /\ options.dryRun
  /\ Idle

VerifyRuntime ==
  /\ Goto("verify", "hash")
  /\ intact
  /\ Idle

\* collectResolvedBuildArtifacts; BuildResolved returns without its runtime.
Hash ==
  /\ Goto("hash", "resolve")
  /\ hashed' = built
  /\ dirs' = dirs \ {"runtime"}
  /\ UNCHANGED <<world, analyzed, backend, intact, copying, ran, built, temporary, next, published, budgets, history>>

-----------------------------------------------------------------------------
(* resolveAll and publishAll.                                              *)

Output == options.outputs[next]

\* All destinations are looked at before any is written.
Resolvable == \A n \in Range(options.outputs) : n \notin Protected /\ place[n] \in Regular

Preview ==
  /\ step = "resolve" /\ options.dryRun
  /\ Resolvable
  /\ Finish("ok")
  /\ UNCHANGED <<world, analyzed, backend, intact, copying, ran, results, budgets, history>>

Resolve ==
  /\ Goto("resolve", "inspect")
  /\ ~options.dryRun
  /\ Resolvable
  /\ Idle

\* Mutant: the earlier look at the destinations is relied on.
InspectNothing ==
  /\ Goto("inspect", "create")
  /\ next <= Len(options.outputs)
  /\ surprised' = surprised \ {Output}
  /\ UNCHANGED <<world, analyzed, backend, dirs, intact, copying, ran, results, budgets, late>>

\* prepareBuildDestination looks at the destination again.
Inspect ==
  /\ Goto("inspect", "create")
  /\ next <= Len(options.outputs)
  /\ place[Output] \in Regular
  /\ surprised' = surprised \ {Output}
  /\ UNCHANGED <<world, analyzed, backend, dirs, intact, copying, ran, results, budgets, late>>

CreateTemporary ==
  /\ Goto("create", "fill")
  /\ dirs' = dirs \cup {"output"}
  /\ temporary' = "absent"
  /\ UNCHANGED <<world, analyzed, backend, intact, copying, ran, built, hashed, next, published, budgets, history>>

\* Mutant: the digest of the copy is not compared.
FillUnverified ==
  /\ Goto("fill", "rename")
  /\ temporary' = built[Output]
  /\ UNCHANGED <<world, analyzed, backend, dirs, intact, copying, ran, built, hashed, next, published, budgets, history>>

\* copyVerifiedBuildOutput: what was copied has the recorded digest.
Fill ==
  /\ Goto("fill", "rename")
  /\ built[Output] = hashed[Output]
  /\ temporary' = built[Output]
  /\ UNCHANGED <<world, analyzed, backend, dirs, intact, copying, ran, built, hashed, next, published, budgets, history>>

\* A rename replaces a symbolic link and fails on a directory.
Rename ==
  /\ Goto("rename", "inspect")
  /\ place[Output] # "directory"
  /\ place' = [place EXCEPT ![Output] = temporary]
  /\ published' = [published EXCEPT ![Output] = temporary]
  /\ dirs' = dirs \ {"output"}
  /\ next' = next + 1
  /\ UNCHANGED <<source, lock, otelc, options, analyzed, backend, intact, copying, ran,
                 built, hashed, temporary, budgets, history>>

\* Mutant: the loop over the executables stops one too early.
SucceedEarly ==
  /\ step = "inspect"
  /\ next >= Len(options.outputs)
  /\ Finish("ok")
  /\ UNCHANGED <<world, analyzed, backend, intact, copying, ran, results, budgets, history>>

Succeed ==
  /\ step = "inspect"
  /\ next > Len(options.outputs)
  /\ Finish("ok")
  /\ UNCHANGED <<world, analyzed, backend, intact, copying, ran, results, budgets, history>>

-----------------------------------------------------------------------------
(* Everyone else.  What they change is changed right before the steps that *)
(* look at it; nobody could tell a change in between.                      *)

EditModule(m, v) ==
  /\ step \in {"analyze", "lock", "collect", "copy"}
  /\ edits < MaxEdits /\ v # source[m]
  /\ source' = [source EXCEPT ![m] = v]
  /\ edits' = edits + 1
  /\ UNCHANGED <<lock, otelc, place, options, step, analyzed, backend, dirs, intact, copying, ran, results,
                 exit, meddling, history>>

RefreshLock ==
  /\ step = "lock" /\ options.locked
  /\ lock' = Resolution(source)
  /\ UNCHANGED <<source, otelc, place, options, step, analyzed, backend, dirs, intact, copying, ran, results,
                 exit, budgets, history>>

Meddle == meddling < MaxMeddling /\ meddling' = meddling + 1 /\ edits' = edits

\* The last probe is over from "compare" on, the last digest from "run" on.
ReplaceExecutable(e) ==
  /\ step \in {"probe", "record", "digest", "again", "compare", "run"}
  /\ Meddle /\ e # otelc
  /\ otelc' = e
  /\ late' = late \cup (IF step \in {"compare", "run"} THEN {"probe"} ELSE {})
                  \cup (IF step = "run" THEN {"digest"} ELSE {})
  /\ UNCHANGED <<source, lock, place, options, step, analyzed, backend, dirs, intact, copying, ran, results,
                 exit, surprised>>

DamageRuntime ==
  /\ step \in {"prepare", "runtime", "digest", "verify"} /\ intact
  /\ Meddle
  /\ intact' = FALSE
  /\ UNCHANGED <<world, step, analyzed, backend, dirs, copying, ran, results, exit, history>>

DamageOutput(n) ==
  /\ step \in {"hash", "fill"}
  /\ built[n] = "built"
  /\ Meddle
  /\ built' = [built EXCEPT ![n] = "changed"]
  /\ UNCHANGED <<world, step, analyzed, backend, dirs, intact, copying, ran, hashed, temporary, next, published,
                 exit, history>>

ChangeDestination(n, what) ==
  /\ step \in {"resolve", "inspect", "rename"}
  /\ Meddle /\ what # place[n]
  /\ place' = [place EXCEPT ![n] = what]
  /\ surprised' = surprised \cup {n}
  /\ UNCHANGED <<source, lock, otelc, options, step, analyzed, backend, dirs, intact, copying, ran, results,
                 exit, late>>

Build ==
  \/ Analyze \/ CheckLock \/ ProbeVersion \/ RecordBackend \/ StageRuntime
  \/ Prepare \/ (\E m \in Modules : Collect(m)) \/ MakeWorkspace \/ (\E m \in Modules : Copy(m))
  \/ Relocate \/ CopyRuntime
  \/ CheckApplication \/ CheckDigest \/ ProbeAgain \/ CompareDigest \/ CheckCombined
  \/ RunBackend \/ Preflight \/ VerifyRuntime \/ Hash
  \/ Preview \/ Resolve \/ Inspect \/ CreateTemporary \/ Fill \/ Rename \/ Succeed
  \/ GiveUp

Others ==
  \/ \E m \in Modules, v \in Versions : EditModule(m, v)
  \/ RefreshLock
  \/ \E e \in Executables \cup {Missing} : ReplaceExecutable(e)
  \/ DamageRuntime
  \/ \E n \in Names : DamageOutput(n)
  \/ \E n \in Names, what \in {"absent", "foreign", "directory", "link"} : ChangeDestination(n, what)

Next == Build \/ Kill \/ Others

Spec == Init /\ [][Next]_vars

\* A build that is not killed keeps taking steps.
LiveSpec == Spec /\ WF_vars(Build)

-----------------------------------------------------------------------------
(* Properties.                                                             *)

Steps == {"analyze", "lock", "probe", "record", "stage", "prepare", "collect", "copy", "runtime", "select",
          "digest", "again", "compare", "combine", "run", "verify", "hash", "resolve", "inspect", "create",
          "fill", "rename", "done", "killed"}
Answers == {"running", "ok", "usage", "policy", "analysis", "validation", "stale", "backend", "compilation", "failed"}

\* The types.  In particular no build goes on with the digest of a missing
\* executable, and no module outside the project is collected.
TypeOK ==
  /\ source \in Snapshots /\ analyzed \in Snapshots /\ copied \in Snapshots
  /\ lock \in {None} \cup {Resolution(s) : s \in Snapshots}
  /\ otelc \in Executables \cup {Missing}
  /\ place \in [Names -> Places]
  /\ options \in Options
  /\ step \in Steps /\ exit \in Answers
  /\ backend \in Executables \cup {None} /\ ran \in Executables \cup {None}
  /\ dirs \subseteq {"runtime", "workspace", "output"} /\ intact \in BOOLEAN
  /\ pending \subseteq Modules /\ known \subseteq Modules /\ uncopied \subseteq known
  /\ built \in [Names -> Contents] /\ hashed \in [Names -> Contents] /\ published \in [Names -> Contents]
  /\ temporary \in Contents /\ next \in Nat \ {0}
  /\ edits \in 0..MaxEdits /\ meddling \in 0..MaxMeddling
  /\ late \subseteq {"probe", "digest"} /\ surprised \subseteq Names

\* Every module that supplied a package to the analysis was compiled in the
\* version that was analyzed, however the manifests were edited between
\* analysis, collection and the copying of each module, and adding the runtime
\* changed neither a selection of the copies nor one of its own.  Every module
\* a copied manifest refers to is itself a copy.  A module that is selected but
\* supplied no package to the analysis may change unnoticed.
SelectionKept ==
  ran # None =>
    /\ Preserved(AnalyzedModules(analyzed), CombinedModules(copied))
    /\ Preserved(ApplicationModules(copied), CombinedModules(copied))
    /\ Preserved(RuntimeModules, CombinedModules(copied))
    /\ Main \subseteq known /\ Closed(known, copied)

\* The executable that ran is the one whose digest was recorded, and it had
\* reported the pinned version, unless it was replaced after the last time the
\* build verified the digest or the version.
BackendVerified ==
  ran # None =>
    /\ ran = backend \/ "digest" \in late
    /\ ran \in Pinned \/ "probe" \in late

\* An executable is published only with the digest taken when the build ended,
\* from a build whose runtime files were untouched when it ended, under a lock
\* that records the analyzed state if --locked, and never over a source file.
PublishedVerified ==
  \A n \in Names : published[n] # "absent" =>
    /\ published[n] = hashed[n]
    /\ intact /\ ran # None
    /\ options.locked => lock = Resolution(analyzed)
    /\ n \notin Protected

\* The answer tells what happened.  At any time, the executables published are
\* those before the next one, in the order asked for.  A build answers ok if and
\* only if it published all of them: also a failure at the last one leaves it
\* unpublished, and no failure is answered after it.  Where nothing is to be
\* published (a preview, or no executable is kept), ok means that no step
\* failed and a preview ran nothing.  Any answer but ok and "failed" means that
\* nothing was published.  With every answer the removal of everything private
\* was tried, at whatever step it was given.
AnswerMatches ==
  /\ \A i \in DOMAIN options.outputs : (published[options.outputs[i]] # "absent") = (i < next)
  /\ options.dryRun => ran = None /\ next = 1
  /\ step = "done" =>
       /\ ~options.dryRun /\ options.outputs # <<>> => (exit = "ok" <=> next > Len(options.outputs))
       /\ exit = "ok" => (ran = None <=> options.dryRun)
       /\ exit \notin {"ok", "failed"} => next = 1
       /\ exit = "failed" => options.outputs # <<>>
       /\ dirs = {}

\* Publication replaces a missing or regular file.  Only a destination changed
\* after it was last inspected can have been a symbolic link, none a directory.
ReplacesRegularOnly ==
  [][\A n \in Names : published'[n] # published[n] =>
       /\ place[n] # "directory"
       /\ place[n] = "link" => n \in surprised]_vars

\* A build that is not killed answers, even when local modules refer to one
\* another in a cycle.
Finishes == <>(step \in {"done", "killed"})
=============================================================================
