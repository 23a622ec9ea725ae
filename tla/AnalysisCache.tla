----------------------------- MODULE AnalysisCache -----------------------------
(***************************************************************************)
(* The persistent analysis cache of src/internal/discovery: loadCachedModel *)
(* of cache.go, the entry files of cache_store.go, the retention of        *)
(* cache_retention.go and the input hashing of cache_inputs.go.            *)
(*                                                                         *)
(* Several analyzers (scan, lock, build... processes) share a cache        *)
(* directory without a lock while the user edits the source.  Each hashes  *)
(* the source files into a key, looks the key up, and on a miss analyzes   *)
(* the files, hashes them again, and publishes what it found under the key *)
(* when the two hashes agree.  Then it removes the oldest entries.         *)
(***************************************************************************)
EXTENDS Naturals, FiniteSets, FiniteSetsExt

CONSTANTS
  Analyzers,     \* the analyzing processes
  ReadOnly,      \* those with --check, --dry-run, or running diff
  Options,       \* the analysis options, part of the key
  Opt,           \* Opt[a]: the options of analyzer a
  SourceFiles,   \* the files hashed and analyzed
  Size(_),       \* the bytes of the entry of a model
  Name(_),       \* the rank of the entry file of a key in the directory
  MaxEntryBytes, \* maximumCacheEntryBytes, 64 MiB in the code
  MaxEntries,    \* maximumAnalysisCacheEntries, 64 in the code
  MaxBytes,      \* maximumAnalysisCacheBytes, 256 MiB in the code
  Reverts,       \* may the user bring back an earlier version of a file?
  MaxEdits,      \* bound: edits of the source
  MaxTampering,  \* bound: entries damaged or removed by somebody else
  MaxFaults      \* bound: failures, cancellations and killed processes

ASSUME CacheAssumption ==
  /\ ReadOnly \subseteq Analyzers
  /\ Opt \in [Analyzers -> Options]
  /\ IsFiniteSet(Options) /\ IsFiniteSet(SourceFiles)
  /\ MaxEntries \in Nat \ {0} /\ MaxBytes \in Nat /\ MaxEntryBytes \in Nat
  /\ Reverts \in BOOLEAN
  /\ MaxEdits \in Nat /\ MaxTampering \in Nat /\ MaxFaults \in Nat

\* Every edit makes a new version of a file.  A snapshot gives each file the
\* version that was read; it need not be a state the source was ever in.
Versions  == 0..MaxEdits
Snapshots == [SourceFiles -> Versions]

\* What is hashed into a key is what determines the model, so the key and the
\* model of an entry are values of one kind: equal when the model is the
\* analysis of exactly the hashed inputs.
Models == [opt : Options, files : Snapshots]
Keys   == Models

ASSUME SizeAssumption == \A k \in Keys : Size(k) \in Nat

Absent  == [kind |-> "absent"]
Damaged == [kind |-> "damaged"]
\* Mutant: the model is stored without what it was analyzed from.
EntryWithoutFiles(m, t) == [kind |-> "entry", model |-> [opt |-> m.opt], modified |-> t]

Entry(m, t) == [kind |-> "entry", model |-> m, modified |-> t]
Entries == [kind : {"entry"}, model : Models, modified : Nat]

Temporary(t) == [kind |-> "temporary", modified |-> t]
Temporaries  == [kind : {"temporary"}, modified : Nat]

Steps == {"idle", "key", "lookup", "load", "rekey", "stage", "write", "publish",
          "list", "inspect", "prune", "done", "failed", "crashed"}

VARIABLES
  source,     \* file -> its current version
  directory,  \* does the cache directory exist?
  cache,      \* key -> the entry file of that name
  temporary,  \* analyzer -> its temporary-* file
  clock,      \* the file system's clock
  step,       \* analyzer -> what it does next
  unread,     \* analyzer -> files it has still to read in this pass
  hashed,     \* analyzer -> what it hashed before the analysis
  loaded,     \* analyzer -> what it analyzed, or found in the cache
  names,      \* analyzer -> entry files it listed and has still to inspect
  kept,       \* analyzer -> [key, modified] of the entries it counts
  edits, tampering, faults

\* History, for the properties only.
VARIABLES
  started,    \* analyzer -> the source when it started
  published   \* has an analyzer published an entry?

store    == <<directory, cache, temporary, clock>>
reading  == <<unread, hashed, loaded>>
pruning  == <<names, kept>>
budgets  == <<edits, tampering, faults>>
history  == <<started, published>>
vars     == <<source, store, step, reading, pruning, budgets, history>>

\* Mutant: the key leaves out the contents of the files.
KeyOfOptions(a) == [opt |-> Opt[a], files |-> [f \in SourceFiles |-> 0]]

Key(a) == [opt |-> Opt[a], files |-> hashed[a]]

Zero == [f \in SourceFiles |-> 0]

\* The directory may hold entries of earlier runs, good and damaged ones.
Init ==
  /\ source = Zero
  /\ directory \in BOOLEAN
  /\ \E damaged \in SUBSET Keys, present \in SUBSET Keys :
       /\ present \cup damaged \subseteq {k \in Keys : k.files = Zero}
       /\ directory \/ present \cup damaged = {}
       /\ cache = [k \in Keys |-> IF k \in damaged THEN Damaged
                                  ELSE IF k \in present THEN Entry(k, 0) ELSE Absent]
  /\ temporary = [a \in Analyzers |-> Absent] /\ clock = 0
  /\ step = [a \in Analyzers |-> "idle"]
  /\ unread = [a \in Analyzers |-> {}]
  /\ hashed = [a \in Analyzers |-> Zero]
  /\ loaded = [a \in Analyzers |-> [opt |-> Opt[a], files |-> Zero]]
  /\ names = [a \in Analyzers |-> {}]
  /\ kept = [a \in Analyzers |-> {}]
  /\ edits = 0 /\ tampering = 0 /\ faults = 0
  /\ started = [a \in Analyzers |-> Zero]
  /\ published = FALSE

Goto(a, s) == step' = [step EXCEPT ![a] = s]

-----------------------------------------------------------------------------
(* loadCacheInputs, the lookup, and the analysis.                          *)

\* Starts a pass over the source files.
ReadAll(a, s) ==
  /\ Goto(a, s)
  /\ unread' = [unread EXCEPT ![a] = SourceFiles]

\* Reads one file of the pass; the last one ends it.
ReadOne(a, f, next) ==
  /\ f \in unread[a]
  /\ unread' = [unread EXCEPT ![a] = @ \ {f}]
  /\ Goto(a, IF unread[a] = {f} THEN next ELSE step[a])

Start(a) ==
  /\ step[a] = "idle"
  /\ ReadAll(a, "key")
  /\ started' = [started EXCEPT ![a] = source]
  /\ UNCHANGED <<source, store, hashed, loaded, pruning, budgets, published>>

HashFile(a) ==
  /\ step[a] = "key"
  /\ \E f \in SourceFiles :
       /\ ReadOne(a, f, "lookup")
       /\ hashed' = [hashed EXCEPT ![a][f] = source[f]]
  /\ UNCHANGED <<source, store, loaded, pruning, budgets, history>>

\* Mutant: --check, --dry-run and diff write like the others.
AlwaysWritable(a) == TRUE

Writable(a) == a \notin ReadOnly

\* decodeAnalysisCache accepts an entry of its own version, key and digest.
Hit(a) == cache[Key(a)] \in Entries

\* A read-only analyzer opens the directory only if it is there.
OpenCache(a) == directory' = (directory \/ Writable(a))

Lookup(a) ==
  /\ step[a] = "lookup"
  /\ OpenCache(a)
  /\ \/ /\ Hit(a)
        /\ loaded' = [loaded EXCEPT ![a] = cache[Key(a)].model]
        /\ Goto(a, "done")
        /\ UNCHANGED unread
     \/ /\ ~Hit(a)
        /\ ReadAll(a, "load")
        /\ UNCHANGED loaded
  /\ UNCHANGED <<source, cache, temporary, clock, hashed, pruning, budgets, history>>

\* Go reads and type-checks the files; the model is of what it read.
LoadFile(a) ==
  /\ step[a] = "load"
  /\ \E f \in unread[a] :
       /\ loaded' = [loaded EXCEPT ![a].files[f] = source[f]]
       /\ \/ /\ unread[a] # {f}
             /\ ReadOne(a, f, "load")
          \/ /\ unread[a] = {f}
             /\ ~Writable(a)
             /\ ReadOne(a, f, "done")
          \/ /\ unread[a] = {f}
             /\ Writable(a)
             /\ ReadAll(a, "rekey")
  /\ UNCHANGED <<source, store, hashed, pruning, budgets, history>>

\* Mutant: the second key is not compared.
AssumeSame(a, f) == TRUE

SameInput(a, f) == source[f] = hashed[a][f]

\* analysisCacheKey again: only an unchanged key is published. The first file
\* that changed decides the comparison.
RehashFile(a) ==
  /\ step[a] = "rekey"
  /\ \E f \in unread[a] :
       \/ /\ SameInput(a, f)
          /\ ReadOne(a, f, "stage")
       \/ /\ ~SameInput(a, f)
          /\ Goto(a, "done")
          /\ unread' = [unread EXCEPT ![a] = {}]
  /\ UNCHANGED <<source, store, hashed, loaded, pruning, budgets, history>>

-----------------------------------------------------------------------------
(* writeAnalysisCache.                                                     *)

\* An entry above the size limit of an entry is not published at all.
StageEntry(a) ==
  /\ step[a] = "stage"
  /\ \/ /\ Size(loaded[a]) <= MaxEntryBytes
        /\ temporary' = [temporary EXCEPT ![a] = Temporary(clock)]
        /\ Goto(a, "write")
     \/ /\ Size(loaded[a]) > MaxEntryBytes
        /\ Goto(a, "done")
        /\ UNCHANGED temporary
  /\ UNCHANGED <<source, directory, cache, clock, reading, pruning, budgets, history>>

\* The clock need not have advanced since the last entry was written.
WriteEntry(a) ==
  /\ step[a] = "write"
  /\ clock' \in {clock, clock + 1}
  /\ temporary' = [temporary EXCEPT ![a] = Temporary(clock')]
  /\ Goto(a, "publish")
  /\ UNCHANGED <<source, directory, cache, reading, pruning, budgets, history>>

PublishEntry(a) ==
  /\ step[a] = "publish"
  /\ cache' = [cache EXCEPT ![Key(a)] = Entry(loaded[a], temporary[a].modified)]
  /\ temporary' = [temporary EXCEPT ![a] = Absent]
  /\ Goto(a, "list")
  /\ published' = TRUE
  /\ UNCHANGED <<source, directory, clock, reading, pruning, budgets, started>>

-----------------------------------------------------------------------------
(* pruneAnalysisCache.                                                     *)

ListEntries(a) ==
  /\ step[a] = "list"
  /\ names' = [names EXCEPT ![a] = {k \in Keys : cache[k] # Absent}]
  /\ Goto(a, "inspect")
  /\ UNCHANGED <<source, store, reading, kept, budgets, history>>

\* Mutant: entries written at the start of time are not counted.
CountedLater(k) == cache[k] \in Entries /\ cache[k].modified > 0

Counted(k) == cache[k] \in Entries

\* One listed file after the other. An entry that has vanished or is not
\* recognized is not counted.
InspectEntry(a) ==
  /\ step[a] = "inspect"
  /\ \/ \E k \in names[a] :
          /\ \A o \in names[a] : Name(k) <= Name(o)
          /\ names' = [names EXCEPT ![a] = @ \ {k}]
          /\ kept' = IF Counted(k)
                     THEN [kept EXCEPT ![a] = @ \cup {[key |-> k, modified |-> cache[k].modified]}]
                     ELSE kept
          /\ UNCHANGED step
     \/ /\ names[a] = {}
        /\ Goto(a, "prune")
        /\ UNCHANGED <<names, kept>>
  /\ UNCHANGED <<source, store, reading, budgets, history>>

OverBudget(entries) ==
  \/ Cardinality(entries) > MaxEntries
  \/ MapThenSumSet(LAMBDA e : Size(e.key), entries) > MaxBytes

\* The entry to remove next: the oldest, by name among equally old ones, that
\* is not the one just published.
Oldest(a, e) ==
  /\ e \in kept[a] /\ e.key # Key(a)
  /\ \A o \in kept[a] : o.key # Key(a) =>
       \/ e.modified < o.modified
       \/ e.modified = o.modified /\ Name(e.key) <= Name(o.key)

Prune(a) ==
  /\ step[a] = "prune"
  /\ \/ \E e \in kept[a] :
          /\ OverBudget(kept[a])
          /\ Oldest(a, e)
          /\ cache' = [cache EXCEPT ![e.key] = Absent]
          /\ kept' = [kept EXCEPT ![a] = @ \ {e}]
          /\ UNCHANGED step
     \/ /\ ~OverBudget(kept[a]) \/ \A e \in kept[a] : e.key = Key(a)
        /\ Goto(a, "done")
        /\ kept' = [kept EXCEPT ![a] = {}]
        /\ UNCHANGED cache
  /\ UNCHANGED <<source, directory, temporary, clock, reading, names, budgets, history>>

-----------------------------------------------------------------------------
(* Failures, and the environment.                                          *)

Running(a) == step[a] \notin {"idle", "done", "failed", "crashed"}

\* The context is cancelled, or an operation fails: an error is returned, and
\* the deferred removal deletes the temporary file.
Fail(a) ==
  /\ Running(a)
  /\ faults < MaxFaults
  /\ faults' = faults + 1
  /\ temporary' = [temporary EXCEPT ![a] = Absent]
  /\ Goto(a, "failed")
  /\ UNCHANGED <<source, directory, cache, clock, reading, pruning, edits, tampering, history>>

Crash(a) ==
  /\ Running(a)
  /\ faults < MaxFaults
  /\ faults' = faults + 1
  /\ Goto(a, "crashed")
  /\ UNCHANGED <<source, store, reading, pruning, edits, tampering, history>>

Edit ==
  /\ edits < MaxEdits
  /\ edits' = edits + 1
  /\ \E f \in SourceFiles :
       \/ source' = [source EXCEPT ![f] = @ + 1]
       \/ /\ Reverts /\ source[f] > 0
          /\ source' = [source EXCEPT ![f] = @ - 1]
  /\ UNCHANGED <<store, step, reading, pruning, tampering, faults, history>>

\* The owner of the directory removes an entry, or something damages it.
Tamper ==
  /\ tampering < MaxTampering
  /\ tampering' = tampering + 1
  /\ \E k \in Keys, e \in {Absent, Damaged} :
       /\ cache[k] # Absent
       /\ cache' = [cache EXCEPT ![k] = e]
  /\ UNCHANGED <<source, directory, temporary, clock, step, reading, pruning, edits, faults, history>>

-----------------------------------------------------------------------------
Analyzer(a) ==
  \/ Start(a)      \/ HashFile(a)   \/ Lookup(a)       \/ LoadFile(a)
  \/ RehashFile(a) \/ StageEntry(a) \/ WriteEntry(a)   \/ PublishEntry(a)
  \/ ListEntries(a) \/ InspectEntry(a) \/ Prune(a)

Next ==
  \/ \E a \in Analyzers : Analyzer(a) \/ Fail(a) \/ Crash(a)
  \/ Edit
  \/ Tamper

Spec == Init /\ [][Next]_vars

-----------------------------------------------------------------------------
(* Properties.                                                             *)

\* Every variable holds a value of its kind.
TypeOK ==
  /\ source \in Snapshots
  /\ directory \in BOOLEAN
  /\ cache \in [Keys -> Entries \cup {Absent, Damaged}]
  /\ temporary \in [Analyzers -> Temporaries \cup {Absent}]
  /\ clock \in Nat
  /\ step \in [Analyzers -> Steps]
  /\ unread \in [Analyzers -> SUBSET SourceFiles]
  /\ hashed \in [Analyzers -> Snapshots]
  /\ loaded \in [Analyzers -> Models]
  /\ names \in [Analyzers -> SUBSET Keys]
  /\ kept \in [Analyzers -> SUBSET [key : Keys, modified : Nat]]
  /\ edits \in 0..MaxEdits /\ tampering \in 0..MaxTampering /\ faults \in 0..MaxFaults
  /\ started \in [Analyzers -> Snapshots] /\ published \in BOOLEAN

\* A cached model is the analysis of exactly the inputs its key was hashed
\* from, though they are read file by file in three passes while they change
\* (docs/03_DISCOVERY_ENGINE.md:249, "Changed inputs during analysis are not
\* cached").
CacheCoherent ==
  \A k \in Keys : cache[k] \in Entries => cache[k].model = k

\* An analysis answers with no version of a file older than when it started
\* and with none that did not exist yet, hit or miss: the cache is transparent.
AnswerFresh ==
  \A a \in Analyzers : step[a] = "done" =>
    /\ loaded[a].opt = Opt[a]
    /\ \A f \in SourceFiles :
         started[a][f] <= loaded[a].files[f] /\ loaded[a].files[f] <= source[f]

\* The keys of the recognized entries, and what the budgets say of them.
Present == {k \in Keys : cache[k] \in Entries}

\* An entry that is alone may exceed the budget: it was just published.
Bounded == \/ Cardinality(Present) = 1
           \/ ~OverBudget({[key |-> k] : k \in Present})

\* Once an entry was published, and between publications, when none failed or
\* was killed before it finished pruning, the recognized entries are within
\* both budgets, whatever was there before and whatever the concurrent prunings
\* counted; and only an analyzer that was killed leaves a temporary file, which
\* no budget counts.
BoundedAtRest ==
  /\ /\ published /\ faults = 0
     /\ \A a \in Analyzers : step[a] \notin {"list", "inspect", "prune"}
     => Bounded
  /\ \A a \in Analyzers : temporary[a] # Absent => step[a] \in {"write", "publish", "crashed"}

\* Only a writing analyzer between its publication and its answer, or the
\* environment, changes an entry or makes the directory: --check, --dry-run
\* and diff leave the storage as it is.
ReadOnlyNeverWrites ==
  [][<<directory, cache, temporary>>' # <<directory, cache, temporary>> =>
       \/ tampering' # tampering
       \/ \E a \in Analyzers \ ReadOnly : step'[a] # step[a] \/ kept'[a] # kept[a]]_vars
=============================================================================
