# OTelPlan: verification project

TLA+ models of `otelplan`, the command that analyzes a Go project, resolves an instrumentation policy into a plan,
generates OpenTelemetry hooks for the `otelc` compile-time instrumenter, locks the resolution and builds the
instrumented executables. The models are checked with TLC on small instances; the properties that matter most are
proved with TLAPS for every value of the constants. Paths below are relative to `src/`.

## 1. Inventory

| component | code | state it keeps | operations | modelled in |
|---|---|---|---|---|
| artifact publication | `internal/compiler/publish.go`, `artifacts.go`, `artifact_read.go` | output directory, staging and backup directories | read and verify, stage, publish, replace, restore, clean up | ArtifactPublication, ArtifactOutput |
| analysis cache | `internal/discovery/cache*.go`, `load.go` | cache directory: entries, temporary files | hash inputs, look up, analyze, hash again, publish, prune | AnalysisCache |
| resolution lock | `internal/cli/lock.go`, `internal/lockfile` | `otelplan.lock` and its temporary files | lock, lock --check, lock --dry-run, diff, diff --check, validate | ResolutionLock, LockDiff |
| build pipeline | `internal/cli/build.go`, `internal/compiler/build.go`, `resolved_build.go`, `build_output.go` | private workspace, executables, destinations | verify lock and backend, prepare, check, run, hash, publish | BuildPipeline |
| source copy, workspace modules | `internal/compiler/workspace*.go`, `source_copy.go`, `module_*.go`, `application_selection.go`, `vendor.go` | copies of the local modules | collect, copy, relocate, compare selections | BuildPipeline (vendor: no) |
| backend identity and compatibility | `internal/backend/otelc/compatibility.go` | none | version probe, digest, refused plans | BuildPipeline, SpanHooks |
| compile command, preview | `internal/cli/compile.go`, `internal/compiler/preview.go` | none of their own | call publication, or print | no |
| generated hooks | `internal/backend/otelc/hooks.go`, `error_recording.go`, `stringer.go` | a span per instrumented call in flight | before hook, after hook, formatting guards | SpanHooks, Application (templates: no) |
| rule resolution | `internal/resolve` | the plan while it is made | match, exclude, compare rules, report | Selectors, Planning |
| validation | `internal/validate` | none | size limits, targets, attributes, access to fields | AttributeAccess, Planning |
| policy loading | `internal/policy` | none | decode, validate, render templates | PolicySchema (YAML: no) |
| policy commands | `internal/cli/policy_execution.go`, `target_limits.go` | none | options, load, analyze, resolve, validate | Planning |
| discovery | `internal/discovery` without the cache | the code model while it is made | packages, call graph, entry points, call cycles | CallCycles (the rest: no) |
| starter policy | `internal/cli/init.go`, `init_interactive.go` | the policy file, a reader goroutine | inspect, analyze, review, create, replace | StarterPolicy |
| lock fingerprints | `internal/lockfile/graph.go`, `inputs.go`, `policy.go` | none | digests of policy, modules and environment | no: a digest is its input |
| command line | `internal/cli/run.go` ... | none | dispatch, output | no |

How they interact. Every policy command loads the policy, lets discovery produce a code model (through the cache),
resolves it into a plan and validates that (`runPolicyCommand`). Then `lock`, `diff` and `validate` compare the
plan with the lock file; `compile` renders a bundle and publishes it; `build` optionally checks the lock,
verifies `otelc`, renders a private bundle, copies the local modules, checks them, runs `otelc` and publishes the
executables. The generated hooks run later, inside the instrumented program, around every selected function and on
every goroutine. Commands of different processes share nothing but files, and no file is protected by a lock. The
only atomic steps are renames, exclusive creations and the reading of one file.

What is hard: the same directory or file is read, decided on and replaced in separate steps while other processes,
the user and editors change it; an operation may fail between two others and leave something to undo; a process may
be killed anywhere; checks are made on one reading and relied on later. In the hooks it is the nesting: they run
application code themselves, which may call instrumented functions again or panic. `PROJECT.json` lists the hazards at their
lines. What makes each component correct:

* publication: the output is absent or whole, a replaced output is never lost, the answer says what is on disk;
* cache: an entry's model is the analysis of what its key was hashed from, an answer is no older than the call,
  retention keeps the directory within its budgets, read-only commands write nothing;
* lock: the file is whole, a build identity in it belongs to the resolution next to it, checks tell the truth;
* hooks: each span is ended once, by its own call; parents are the callers that handed the context on; errors are
  recorded whatever the application's methods do; the application cannot tell that it is instrumented;
* starter policy: only what the user accepted is written, whole, and over nobody else's file unless `--force` is given;
  cancelling always gets the command back;
* planning: the plan is what the policy says as a set, whatever its order; the marks it is checked against are exact;
  nothing unsafe is accepted without the acknowledgment it needs;
* build: what runs and what is published was verified; what was analyzed is what is compiled, as far as the module
  selection tells; every build ends; the answer matches what was published.

## 2. Modules

**ArtifactPublication** models `PublishArtifacts`. A directory (`tree`, `place`) is named by the publisher that
staged it; `place` says whether it is in staging, at the destination or in a backup, so a rename is one assignment.
Each publisher walks through `step`, one action for each operation on the file system: Inspect, ReadManifest, ListFiles,
VerifyFile (`ReadArtifacts`), CreateStage, WriteStage, CheckStage (`StageArtifacts`), Decide, PublishFresh,
CreateBackup, MovePrevious, Commit, Restore, RemoveBackup, Purge (`replaceArtifactOutput`,
`commitArtifactReplacement`), RemoveStage, Return. `opened` is the directory an open root refers to, which
stays the same directory when it is moved. Crash, UserWrites, UserRemoves and UserCreates are the environment.
**ArtifactOutput** is the abstract promise: a publisher may take what is at the destination, give it
back or put its bundle there, at most once, and then says which; ArtifactPublication implements it under the mapping in
its last section.

**AnalysisCache** models `LoadContext` with the persistent cache. A file's content is a version number; what is
hashed into a key is what determines the model, so keys and models are the same kind of value. Files are hashed,
analyzed and hashed again one at a time (HashFile, LoadFile, RehashFile); StageEntry, WriteEntry, PublishEntry are
`writeAnalysisCache`; ListEntries, InspectEntry, Prune are `pruneAnalysisCache` over the listing it took.

**LockDiff** holds the pure operators of `internal/lockfile`: Diff, ResolutionDiff, RefreshRefused and Refreshed over
records of digests and functions from symbols to targets. **ResolutionLock** runs the six commands as processes
over one lock file: Start, Analyze, ReadLock, Decide, CreateTemporary, WriteTemporary, RenameLock. `StartBuild` and
`RecordBuild` are the owner of a build identity, which `build` itself never writes.

**BuildPipeline** models one `otelplan build` from its analysis to its last rename. A module is its manifest: the
local modules it refers to and the versions it requires. `ApplicationModules` of the copies, `RuntimeModules` and
`CombinedModules` are the three selections the code reads with `go list -m all`, with the minimal version selection
of the go command; `Preserved` is `CheckModuleSelection`. Of the analyzed project the code knows less: discovery records only
the modules that supply a package it loaded (`builder.collectModule`), and `AnalyzedModules` are those among the selected ones;
which they are is given by the constant `Loads`. The steps are those of `buildCommand`, `BuildResolved`,
`PrepareWorkspace`, `BuildPrepared` and `PublishBuildArtifact` in their order. A step is enabled only when what it
checks holds; where it does not, and on any failure, `GiveUp` ends the build with an answer of that step: `Failures` are
those it can fail with, one for each exit code (`failed` is 1). A loop over the executables fails only at one of them, so `GiveUp` is disabled after the
last. Every return runs the deferred removals of its step (`Deferred`), whose errors the code ignores: `dirs` are the
private directories and files made and not yet tried to remove. Manifests are edited, the executable replaced, private files damaged and
destinations changed only right before a step that looks at them, because nothing could tell the difference earlier.

**SpanHooks** models what `RenderHooks` generates, at run time. A plan is a target for each function, restricted by
`Renderable` to what `Check` accepts. `stack[g]` holds the calls in progress of goroutine `g`; a frame's `phase` says how far its hooks are
(entry, before, body, leaving, after, left). StartSpan and EnterBody are the before hook; TakeSpan and EndSpan the
after hook with its deferred `span.End()`; Skip, Format and Guard record one value each, where Format pushes the
frame of the `String` or `Error` method the hook calls and Guard is its recover. Call, Leave, Deliver and Finish are
the application and the Go runtime: a function may call, start a goroutine, return, panic, exit the goroutine, and
recover what its callees panic with. `context` is the context parameter and the span it carries; `trail` is the span of
the nearest call up the chain that handed its context on, kept as a history variable independently of it. Around the hooks is the trampoline of the pinned
`otelc`, which is not in the repository; it is modelled from what the code and `docs/OTELC_BACKEND.md` rely on: the
after hook is deferred and sees the results, and a hook that panics is reported on stderr and skipped.
**Application** is the same program without instrumentation. It sees functions, contexts,
results, panics and exits, and nothing else; SpanHooks implements it under the mapping that hides spans, hooks and the
calls of formatting methods.

**StarterPolicy** models `otelplan init` by several processes over one destination. Inspect, Analyse, Ask, HearAnswer,
HearCancel, Finish are `initCommand` and the review; ReadLine is the goroutine of `readStarterAnswer`, which outlives a
cancelled question; `response` is its channel. CreateNew, Write, Close, Clean write a new file in place; CreateTemporary,
Write, Sync, Close, Rename, Clean replace one. `dest` names the process whose file is at the destination, `whole` says whether it has all
of its content: an open file is written wherever its name is by then. Cancel, Crash and Edit are the user and the system.

**Planning** models `runPolicyCommand`, what `inspect`, `explain`, `validate`, `lock`, `diff`, `compile` and `build` do first: ParseOptions,
LoadPolicy, Analyse, Prepare, one ResolveSymbol for each symbol in the order of identifiers, Summarise, Validate, with a
Cancel at any moment. It is built from modules of operators: **Selectors** (`match.go`: globs, criteria),
**PolicySchema** (`policy/validate.go`, `template.go`), **AttributeAccess** (`attributes.go`, `safety.go`: sources, the layered search
of fields, what a name suggests), and from **CallCycles**, the search for static recursion with its two passes and its checks of the
context, which is a state machine of its own (`MarkCycles`) run by Analyse. Each algorithm has its reference
next to it: `Covers` cuts a path into runs where `Glob` searches, `SelectorType` is the rule of Go for selectors over exported fields and exported embedded structs,
`OnCycle` is reachability, and `Wanted`, `Agreed`, `Agreement` say what a policy means without any order.

Each `MC...` module gives the constants small values; each `...Proofs` module holds the theorems of one module, but for Planning, which
has two: PlanningProofs about recursion and ResolutionProofs about the rest.
`Mutant:` marks operators that replace another one to show that a property can fail; the specification does not use
them. Variables under `History` are written but never read by the actions.

## 3. Runs

| run | instance | shows |
|---|---|---|
| `publication` | any two of three publishers, two with `--clean` and different bundles and one without it, one user action, two faults | all safety properties, `KeepsPromise` (refinement of ArtifactOutput) and `EveryoneAnswers` |
| `publication_claim` | as `publication` | violated: finding 1 |
| `cache` | a writing and a read-only analyzer, two files, two edits, one tampering, one fault | coherence, freshness, read-only commands write nothing |
| `cache_retention` | two writers with different options, budgets of two entries and three units, two edits | once an entry was published, the directory is within its budgets when nobody prunes it and nothing failed; a temporary file is there only while it is written, or its writer was killed |
| `cache_claim` | one analyzer, one file, edits may be undone | violated: finding 2 |
| `lock` | two refreshes, an edit of the project, one of the lock, one recorded build, one fault | the lock is whole, and its build identity belongs to its resolution |
| `lock_commands` | a refresh next to each other command | answers are true; only the refresh writes, and keeps an identity while it applies |
| `build` | three local modules in a cycle, two edits, two changes from outside, every option, no, one and two executables | everything about a build, and that it ends |
| `hooks` | two goroutines, two calls, all targets below | spans, parents, recorded errors, transparency, and that a span ends once its body is left |
| `hooks_nested` | one goroutine, three calls | panics that unwind through nested hooks and formatting methods, across a function without hooks |
| `starter` | an init that asks, or previews a replacement, next to one that asks nothing, with or without `--force`; three candidates of which one too many or too weak; three lines; two events | consent, whole policies, nobody else's file replaced, a cancelled init returns |
| `planning` | 13 794 projects in seven families | exact cycles, order-free resolution, Go's rule for selectors over exported fields, nothing unsafe accepted |

Bounds. Two publishers that run together (`Running`) and the user suffice for a lost update: one can take the place between a move and a restore of the other. What needs a third at
the same time is proved, not checked. A publisher that does not run counts as killed before its first step; so every pair runs, those with a publisher without
`--clean`, which meets outputs of others and its own, among them. The project of `build` has a module that is selected and supplies no package to the analysis.
Two faults allow a failed commit followed by a failed restore, or by a killed process. Two files make mixtures of
versions possible; two edits can undo each other, which is what `Reverts` allows or forbids. Retention needs a
budget that one entry does not fill. In the build two edits can change a manifest between analysis and collection and
again before its copy; two changes replace the executable and put it back, or damage a file twice. Three modules are
needed for a reference that is added after the collection passed by. The targets of the hooks include two error results, one configured
twice, Stringer arguments and results, generic functions with either context strategy, a package that redefines recover, and a
function without hooks. A call ends with errors in the first or in both results, so that a target configured for the second
sees a nil and a non-nil error. Two calls with their formatting methods nest four frames; three calls put a function without
hooks between two with hooks, for `Transparent`; the parents of spans across such a function are proved, not checked. An init asks at most two questions, so that three lines allow an answer that has
to be repeated; two events are enough to cancel or fail in the middle of what the user has changed, or to fail and then fail to clean up. The
families of `planning`: all call graphs of three symbols with up to two calls each (self calls, shared and nested
cycles, symbols that only reach one); two rules over three symbols in both orders, with local and global exclusions, both
context modes, span names and error settings that agree or not; every glob of up to three parts over seven paths; three
types that embed each other by value, by pointer and in circles; all limits around three targets; every kind of
source with every classification; and twenty projects with one oddity each. Every bound is a constant with a guard, and the theorems hold for all values of it.

Fairness. `LiveSpec` of ArtifactPublication has weak fairness of each publisher's own actions: a process that is not
killed is scheduled by the operating system, and no step waits for another process. `LiveSpec` of BuildPipeline has
weak fairness of `Build`, the disjunction of the process's own steps and its failing ones: the process goes on, but
nothing forces it to fail, so `Finishes` would be false if the collection of modules could cycle. `FairSpec` of SpanHooks has
weak fairness of the hooks, which wait for nothing, and of the ends of formatting methods and of what they call, because
`docs/04_POLICY_SPEC.md` asks for bounded methods; the application itself need not go on, so only a body that was left must see its span ended. `LiveSpec` of StarterPolicy has
weak fairness of each process's own steps but not of ReadLine: the user may never type a line, and a cancelled init must return all the same.
Planning states no liveness. The user, tampering
and killing are never fair. Deadlock checking is off, because every behaviour ends when all processes have.

Properties in words: each one is stated in a comment before its definition, at the end of its module.

## 4. Findings

1. `publication_claim`: "unexpected or modified files are never removed" (`internal/compiler/publish.go:105-106`) does not hold
   for a file written into the output between its verification and the move of the directory to the backup, which
   is later removed unseen.
2. `cache_claim`: "Changed inputs during analysis are not cached" (`docs/03_DISCOVERY_ENGINE.md:249`) does not hold
   when a file is changed and changed back while the analysis reads it.

Both are races with the user's own edits. Not findings, but worth knowing: `build --locked` compares the lock with
the analysis, while the copies are made later; the modules that supplied a package are compared again, others and the bodies of
sources are not. A refresh that races with the recording of a build identity can lose it: the lock then holds an older one
that still matches, or none.
An `init` without `--force` that fails to write removes the destination by its name, so that it may remove a file that replaced its own
meanwhile, and one that is killed leaves part of a policy; both exceptions are written into UnforcedKeepsOthers and PolicyWhole. An `init --force`
looks at the destination before its analysis and renames over whatever has the name after it.

## 5. Proofs

Assumptions are the named `ASSUME` of each module (`PublicationAssumption`, `CacheAssumption`, `SizeAssumption`,
`LockAssumption`, `BuildAssumption`, `HooksAssumption`, `StarterAssumption`, `PlanningAssumption`), which TLC evaluates
in the runs. They say what kind of values the constants have: that there are finitely many options and source files, that the
size of an entry is a number, that a symbol calls symbols of the project, and the like. Nothing else is assumed, except where a
theorem says so.

* **ArtifactPublicationProofs**. `TypeCorrect`, `DestinationAlwaysWhole`, `OutputAlwaysSurvives`, `OnlyCleanReplaced`. DestinationWhole is
  not inductive: a rename makes a staged directory the output. `SafetyInv` adds that staged directories are private
  and complete once checked (`StageInv`), that committed publishers are past their rename (`CommitInv`), that whatever is at
  the destination or in a backup is whole or touched by the user (`KeptInv`), and that something is kept while an output is owed (`OwedInv`).
  `AnswerAlwaysMatchesDisk` needs to know who holds which directory: `AnswerInv` says that no two directories share a
  backup or the destination, what a pending answer claims, and that what is left behind is told of or a fault's doing.
  `ModifiedAlwaysRefused` (`DirtyInv`): as long as the modified directory is there, a file that differs from the inventory its
  publisher read is still to be read. `OnlyCleanReplaced`: of all steps but the user's only a move takes something from the destination, and before a move
  stands the decision for `--clean` over another inventory. `PublicationKeepsPromise` is the refinement of ArtifactOutput: with `RefineInv`, each
  action is mapped to taking, giving back, putting, answering or a stutter; `OwnInv` gives the put its value.
* **AnalysisCacheProofs**. `TypeCorrect`; `Coherent` and `Fresh` under the hypothesis `~Reverts`. The argument is
  monotonicity: versions only grow, so two equal hashes enclose only one version of every file that was loaded in between.
  Without the hypothesis they are false (finding 2). `ReadOnlyWritesNothing` holds because a read-only analyzer never comes to a step that writes
  (`WriterInv`). `RetentionHolds` is about concurrent prunings, each with a listing of its own: `RetentionInv` says that after a
  publication the directory is within the budgets, or somebody who began to prune after it covers every entry; who covers
  them knows each one that is left with its size, and so removes until they fit (`CoveredBudget`). Sums over sets are reasoned about by
  least counterexample. Without the guard `published` the property is false: a directory may be over a budget before anybody writes.
* **ResolutionLockProofs**. `DiffEmpty` and `AddedIsRemoved` about the comparison, `TypeCorrect`, `LockAlwaysWhole`,
  `IdentityAlwaysMatches`. A temporary file holds a lock Parse accepts before it can be renamed (`RenameInv`), and every
  lock in the file, in a process or in a temporary file is matched (`MatchedInv`). `AnswerAlwaysTrue` follows a process that nobody disturbed
  through what it has read (`ReadInv`) to what it may say (`TruthInv`); `OnlyRefreshMayWrite` is about each step.
* **BuildPipelineProofs**. `TypeCorrect`, `SelectionAlwaysKept`, `BackendAlwaysVerified`, `PublishedAlwaysVerified`,
  `AnswerAlwaysMatches`, `OnlyRegularReplaced`. `Invariance` shows four invariants inductive together; they say, for each check, from which step on it has been made and
  up to which step nothing it looked at can change, or else that a history variable recorded the change. `AnswerAlwaysMatches` has both directions of ok: the loop ends only
  past the last executable, and no failing answer is possible there; what is private follows from which directories a step can have made.
* **SpanHooksProofs**. `TypeCorrect`, `OpenSpansAlwaysLive`, `ParentAlwaysCaller`, `ErrorsAlwaysRecorded`, for any plan and any depth of calls.
  Lemmas reduce each action to one of four changes of a stack: the innermost frame is set, one is pushed, one is popped, or the goroutine ends.
  Type correctness needs the nesting of frames (`Nesting`: a formatting method is under a hook with something to
  record, everything else under a body) and their shape (`AllShaped`: where a frame keeps its span in which phase, and that the
  context it runs with carries that span). `Linked`, `Owned` and `Live` then say that a call's span exists with the right
  parent, is its own while it works, and that every open span has such a call; `Continues` is what all actions but StartSpan and EndSpan keep.
  `RecordInv` counts the events of an after hook against the items it has dealt with, one ahead in its status while a method of the application runs.
  `AlwaysTransparent`: SpanHooks implements Application. A stack is shown up to the first formatting method
  (`Depth`), so what such a method calls, instrumented or not, stutters; the same four changes of a stack give at most one change
  of what is shown (`StepShows` goes through the actions).
* **StarterPolicyProofs**. `TypeCorrect`, `PolicyAlwaysWhole`, `OthersKept`, `AlwaysConsented`. `FileInv` says who can have a file
  where: nobody before it creates one, a temporary file only with `--force`, and at the destination a forced file only when whole; `ConsentInv` says what
  a process that writes was told. `HonourInv` relates lines and decisions: a question is asked when every decision typed was taken, and at most one line is
  on its way, with the reader or in the channel (`Stands`).
* **PlanningProofs**. `AlwaysRecursiveExactly`: addRecursionMetadata finds the symbols on cycles, for every graph of calls. `Reaches` is
  membership in every set that calls do not leave, so that no induction over paths is needed. `Searching` says what an interrupted depth-first search knows
  (what has returned calls only what is seen, an open visit reaches those above it), `Forefathers` that what has returned is settled or on a cycle with an
  open visit, and that of all a settled symbol reaches the last to return reaches it back. So the last symbol left is reached only from its own
  component (`Remaining`), which `Growing` collects whole. A cancelled collection leaves calls out, but `OrderInv` knows then that the search will stop.

* **ResolutionProofs**. `AlwaysResolvedAsDeclared`, `AlwaysAcceptedOnlySafe`, `AlwaysLookupIsSelector`, and `GlobCovers`, `FieldTypeIs`,
  `LayersEnd` about `Glob` and `lookupField`. `PlanningAssumption` says what discovery,
  the decoder and the flags hand over: symbols with identifiers of their own (`symbolFromDecl` leaves out `init` and `_`, which alone may be
  declared twice), sequences where the code has slices, and flags whose `Set` fields agree with their values. `ByIDIs` and `KeptIs` say what sorting and
  filtering return, `GlobCovers` that an entry of the matcher's table holds exactly when some cut of the rest of the value fits the rest of the pattern (by
  descent over the table), `DenotedIs` that a selector therefore matches what it denotes, `ChoiceIs` that `chooseTarget` finds a target without problems exactly
  when all rules that apply agree, and then that of the first. ResolvedAsDeclared speaks of the end of the resolution only; the inductive invariant
  `ResolveInv` states it for the symbols processed so far (`ResolvedFor`), which all come before the remaining ones, and `ResolvedOneMore` is its step.
  `OutcomeInv` carries the result to the exit status, where the limits (`SizeTells`), the warnings of a strict command and the
  attributes (`TargetAccepted`) are read off the diagnostics; recursion is taken from PlanningProofs.
  The search for fields drops a path that meets a type twice, the rule of Go knows no such limit: `LayerIs` says that a layer holds the
  paths of its length that meet none twice, `Shorter` cuts out what lies between two meetings of a struct, so that the shortest paths to a name
  meet none twice and are no longer than there are structs (`ShortestBound`), and `FieldTypeIs` follows. Types are finitely many.

Only model-checked: the liveness properties `EveryoneAnswers`, `Finishes`, `LeftSpansEnd` and `CancelEnds`, because liveness under fairness is
out of the prover's reach. Every invariant and every action property of a passing run has a theorem, and so has each refinement.

## 6. Abstractions and what is not modelled

* A digest is the value it was taken of: collisions do not happen.
* Listing a directory is one step; the files listed are then read one by one in any order.
* Where a build ignores the error of a removal, the model says only that it was tried; what a failed one leaves is not distinguished. In the
  publication the removal of backups, whose errors the code reports, and of the staging directory, whose errors it drops, may fail.
* Printing the answer of a command is not modelled: where that fails, the program exits with 1 whatever was done.
* A publication that renames over an empty directory is allowed as rename(2) allows it; Go's `os.Rename` refuses the directories it sees, and
  replaces only one that appears in between. The model allows more.
* The list of modules a workspace uses is fixed; the manifests of the modules are not. Copies in the private workspace
  are not edited. A source tree is its manifest: links and special files are refused or copied entry by entry, in a walk nobody else observes.
* A protected destination named by `-o` is refused before the build is prepared, and after the build with the others; the model may refuse
  it at either place, and always before the first executable is published.
* Scalar attributes and the text of events are left out of the hooks; what is counted is the error status and exception
  events. `runtime.Goexit` inside `String` and `Error` methods, goroutines started from them, contexts whose `Value` method panics and an
  application that ends a span itself are left out too. The program starts with a context that carries no span.
* Renames of the operating system are atomic and killed processes lose no completed operation.
* In Planning names are words and sensitive names are matched by words, where the code looks for substrings; the lists of
  sensitive words are shortened. `path.Match` on one segment and the parsing of type expressions for `otelc` are
  given. Unexported embedded structs and methods are not looked at by the code, nor by the reference, so that both may accept a field Go calls ambiguous or hidden. Diagnostics are sets of
  severity, code, rule and symbol; the wording, order and explanations are left out.
* The digests of the lock's inputs are not modelled: `GraphDigest` normalizes manifests and environment line by line, without
  state; in ResolutionLock what it hashes is one value. `discovery/context.go` and its like translate what the
  Go type checker and SSA libraries found; their result is the input of Planning. The version command, argument checks, dry runs of
  `build`, the ranking of suggestions and the public types are sequential and pure.
* Not modelled: argument parsing, diagnostics and output, YAML, templates of generated Go code, the Go type checker,
  the effective go environment, vendor directories, previews (they write nothing), signals beyond a failing step.

## 7. Plan

Done: 1 ArtifactPublication, 2 AnalysisCache, 3 ResolutionLock, 4 BuildPipeline, 5 SpanHooks, 6 StarterPolicy, 7 CallCycles, Selectors, PolicySchema,
AttributeAccess and Planning, with a theorem for every invariant and action property their runs check, and both refinements. Next:

8. Abstract specifications of ResolutionLock (a lock that only a refresh replaces) and of AnalysisCache (an answer that is a past
   analysis of the same sources), with refinements like those to ArtifactOutput and Application, model-checked and proved.
