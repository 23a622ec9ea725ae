------------------------- MODULE AnalysisCacheProofs -------------------------
(***************************************************************************)
(* Proofs about AnalysisCache, for any number of analyzers, files, options *)
(* and edits: the variables keep their types; when the source never goes   *)
(* back to an earlier version, the cache is coherent and every answer is   *)
(* fresh; a read-only analyzer changes nothing that is stored; and after a *)
(* publication the entries are within both budgets between the prunings.   *)
(***************************************************************************)
EXTENDS AnalysisCache, TLAPS, FiniteSetTheorems, WellFoundedInduction

\* What is published has a modification time.
TemporaryInv ==
  \A a \in Analyzers : step[a] \in {"write", "publish"} => temporary[a] \in Temporaries

\* A file has at most as many versions as there were edits.
EditInv == \A f \in SourceFiles : source[f] <= edits

TypeInv == TypeOK /\ TemporaryInv /\ EditInv

LEMMA KeyType ==
  ASSUME TypeOK, NEW a \in Analyzers
  PROVE  Key(a) \in Keys
BY CacheAssumption DEF TypeOK, Key, Keys, Models, Snapshots

LEMMA InitTypeInv == Init => TypeInv
<1> SUFFICES ASSUME Init PROVE TypeInv
  OBVIOUS
<1> USE CacheAssumption
<1>1. Zero \in Snapshots
  BY DEF Zero, Snapshots, Versions
<1>2. cache \in [Keys -> Entries \cup {Absent, Damaged}]
  <2>1. \A k \in Keys : Entry(k, 0) \in Entries
    BY DEF Entry, Entries, Keys
  <2> QED
    BY <2>1 DEF Init
<1>3. loaded \in [Analyzers -> Models]
  BY <1>1 DEF Init, Models
<1>4. step \in [Analyzers -> Steps] /\ TemporaryInv
  BY DEF Init, Steps, TemporaryInv
<1>5. EditInv
  BY DEF Init, EditInv, Zero
<1>6. published \in BOOLEAN /\ started \in [Analyzers -> Snapshots]
  BY <1>1 DEF Init
<1> QED
  BY <1>1, <1>2, <1>3, <1>4, <1>5, <1>6 DEF Init, TypeInv, TypeOK

LEMMA NextTypeInv == TypeInv /\ [Next]_vars => TypeInv'
<1> SUFFICES ASSUME TypeInv, [Next]_vars PROVE TypeInv'
  OBVIOUS
<1> USE CacheAssumption DEF TypeInv, TypeOK, TemporaryInv, EditInv, store, reading, pruning, budgets, history
<1> USE DEF Goto, Steps
<1>1. ASSUME NEW a \in Analyzers, Start(a) PROVE TypeInv'
  BY <1>1 DEF Start, ReadAll
<1>2. ASSUME NEW a \in Analyzers, HashFile(a) PROVE TypeInv'
  <2>1. PICK f \in SourceFiles : /\ ReadOne(a, f, "lookup")
                                 /\ hashed' = [hashed EXCEPT ![a][f] = source[f]]
    BY <1>2 DEF HashFile
  <2>2. hashed' \in [Analyzers -> Snapshots]
    <3>1. [hashed[a] EXCEPT ![f] = source[f]] \in Snapshots
      BY DEF Snapshots
    <3> QED
      BY <2>1, <3>1
  <2> QED
    BY <1>2, <2>1, <2>2 DEF HashFile, ReadOne
<1>3. ASSUME NEW a \in Analyzers, Lookup(a) PROVE TypeInv'
  <2>1. CASE Hit(a)
    BY <1>3, <2>1 DEF Lookup, OpenCache, Hit, Entries
  <2>2. CASE ~Hit(a)
    BY <1>3, <2>2 DEF Lookup, OpenCache, ReadAll
  <2> QED
    BY <2>1, <2>2
<1>4. ASSUME NEW a \in Analyzers, LoadFile(a) PROVE TypeInv'
  <2>1. PICK f \in unread[a] : /\ loaded' = [loaded EXCEPT ![a].files[f] = source[f]]
                               /\ \/ ReadOne(a, f, "load") \/ ReadOne(a, f, "done")
                                  \/ ReadAll(a, "rekey")
    BY <1>4 DEF LoadFile
  <2>2. loaded' \in [Analyzers -> Models]
    <3>1. [loaded[a] EXCEPT !.files[f] = source[f]] \in Models
      BY DEF Models, Snapshots
    <3> QED
      BY <2>1, <3>1
  <2>3. unread' \in [Analyzers -> SUBSET SourceFiles]
    BY <2>1 DEF ReadOne, ReadAll
  <2>4. /\ step' \in [Analyzers -> Steps]
        /\ \A b \in Analyzers : step'[b] \in {"write", "publish"} => step[b] \in {"write", "publish"}
    BY <2>1 DEF ReadOne, ReadAll
  <2> QED
    BY <1>4, <2>2, <2>3, <2>4 DEF LoadFile
<1>5. ASSUME NEW a \in Analyzers, RehashFile(a) PROVE TypeInv'
  BY <1>5 DEF RehashFile, ReadOne
<1>6. ASSUME NEW a \in Analyzers, StageEntry(a) PROVE TypeInv'
  BY <1>6 DEF StageEntry, Temporary, Temporaries
<1>7. ASSUME NEW a \in Analyzers, WriteEntry(a) PROVE TypeInv'
  BY <1>7 DEF WriteEntry, Temporary, Temporaries
<1>8. ASSUME NEW a \in Analyzers, PublishEntry(a) PROVE TypeInv'
  <2>1. Entry(loaded[a], temporary[a].modified) \in Entries
    BY <1>8 DEF PublishEntry, Entry, Entries, Temporaries
  <2>2. cache' \in [Keys -> Entries \cup {Absent, Damaged}]
    BY <1>8, <2>1, KeyType DEF PublishEntry
  <2> QED
    BY <1>8, <2>2 DEF PublishEntry
<1>9. ASSUME NEW a \in Analyzers, ListEntries(a) PROVE TypeInv'
  BY <1>9 DEF ListEntries
<1>10. ASSUME NEW a \in Analyzers, InspectEntry(a) PROVE TypeInv'
  <2>1. kept' \in [Analyzers -> SUBSET [key : Keys, modified : Nat]]
    BY <1>10 DEF InspectEntry, Counted, Entries
  <2> QED
    BY <1>10, <2>1 DEF InspectEntry
<1>11. ASSUME NEW a \in Analyzers, Prune(a) PROVE TypeInv'
  <2>1. cache' \in [Keys -> Entries \cup {Absent, Damaged}]
    BY <1>11 DEF Prune
  <2>2. kept' \in [Analyzers -> SUBSET [key : Keys, modified : Nat]]
    BY <1>11 DEF Prune
  <2> QED
    BY <1>11, <2>1, <2>2 DEF Prune
<1>12. ASSUME NEW a \in Analyzers, Fail(a) PROVE TypeInv'
  BY <1>12 DEF Fail
<1>13. ASSUME NEW a \in Analyzers, Crash(a) PROVE TypeInv'
  BY <1>13 DEF Crash
<1>14. CASE Edit
  <2>1. PICK f \in SourceFiles :
          \/ source' = [source EXCEPT ![f] = @ + 1]
          \/ source[f] > 0 /\ source' = [source EXCEPT ![f] = @ - 1]
    BY <1>14 DEF Edit
  <2>2. /\ source \in [SourceFiles -> Nat] /\ \A g \in SourceFiles : source[g] <= edits
        /\ edits \in Nat /\ edits' = edits + 1 /\ edits' \in 0..MaxEdits
    BY <1>14 DEF Edit, Snapshots, Versions
  <2>3. source' \in [SourceFiles -> Nat] /\ \A g \in SourceFiles : source'[g] <= edits'
    BY <2>1, <2>2
  <2>4. source' \in Snapshots /\ EditInv'
    BY <2>2, <2>3 DEF Snapshots, Versions
  <2> QED
    BY <1>14, <2>4 DEF Edit
<1>15. CASE Tamper
  BY <1>15 DEF Tamper
<1>16. CASE UNCHANGED vars
  BY <1>16 DEF vars
<1> QED
  BY <1>1, <1>2, <1>3, <1>4, <1>5, <1>6, <1>7, <1>8, <1>9, <1>10, <1>11, <1>12,
     <1>13, <1>14, <1>15, <1>16 DEF Next, Analyzer

\* The variables keep their types: TypeOK is not inductive by itself, because
\* an entry takes the modification time of the temporary file it was.
THEOREM TypeCorrect == Spec => []TypeOK
<1>1. Spec => []TypeInv
  BY InitTypeInv, NextTypeInv, PTL DEF Spec
<1>2. TypeInv => TypeOK
  BY DEF TypeInv
<1> QED
  BY <1>1, <1>2, PTL
-----------------------------------------------------------------------------
(* Coherence.  Every version read lies between the ones read before and    *)
(* after it; when the outer two agree, so does the one between.            *)

Stored  == {"list", "inspect", "prune"}
Writing == {"stage", "write", "publish"}

\* Of the files hashed so far, the hashed version.
HashedInv ==
  \A a \in Analyzers, f \in SourceFiles :
    \/ step[a] = "key" /\ f \notin unread[a]
    \/ step[a] \in {"lookup", "load", "rekey"} \cup Writing
    => started[a][f] <= hashed[a][f] /\ hashed[a][f] <= source[f]

\* Of the files analyzed so far, the analyzed version.
LoadedInv ==
  \A a \in Analyzers, f \in SourceFiles :
    \/ step[a] = "load" /\ f \notin unread[a]
    \/ step[a] \in {"rekey"} \cup Writing
    => hashed[a][f] <= loaded[a].files[f] /\ loaded[a].files[f] <= source[f]

\* Of the files hashed again so far, both.
RehashedInv ==
  \A a \in Analyzers, f \in SourceFiles :
    \/ step[a] = "rekey" /\ f \notin unread[a]
    \/ step[a] \in Writing
    => loaded[a].files[f] = hashed[a][f]

\* From its publication to its answer, what an analyzer analyzed.
AnsweredInv ==
  \A a \in Analyzers :
    /\ loaded[a].opt = Opt[a]
    /\ \A f \in SourceFiles : started[a][f] <= source[f]
    /\ step[a] \in Stored \cup {"done"} => \A f \in SourceFiles :
         started[a][f] <= loaded[a].files[f] /\ loaded[a].files[f] <= source[f]

PassInv  == HashedInv /\ LoadedInv /\ RehashedInv /\ AnsweredInv
FreshInv == PassInv /\ CacheCoherent

\* Versions are numbers, so that they can be compared.
LEMMA VersionType ==
  ASSUME TypeOK, NEW a \in Analyzers, NEW f \in SourceFiles
  PROVE  /\ source[f] \in Nat /\ hashed[a][f] \in Nat
         /\ started[a][f] \in Nat /\ loaded[a].files[f] \in Nat
BY CacheAssumption DEF TypeOK, Models, Snapshots, Versions

LEMMA InitFreshInv == Init => FreshInv
<1> SUFFICES ASSUME Init PROVE FreshInv
  OBVIOUS
<1>1. CacheCoherent
  BY DEF Init, CacheCoherent, Entry, Entries, Absent, Damaged
<1>2. PassInv
  BY DEF Init, PassInv, HashedInv, LoadedInv, RehashedInv, AnsweredInv, Stored, Writing, Zero
<1> QED
  BY <1>1, <1>2 DEF FreshInv

\* A model whose every file is the hashed one is the model of the key.
LEMMA SameModel ==
  ASSUME TypeOK, RehashedInv, AnsweredInv, NEW a \in Analyzers, step[a] \in Writing
  PROVE  loaded[a] = Key(a)
<1>1. /\ loaded[a] \in [opt : Options, files : [SourceFiles -> Versions]]
      /\ hashed[a] \in [SourceFiles -> Versions]
  BY DEF TypeOK, Models, Snapshots
<1>2. \A f \in SourceFiles : loaded[a].files[f] = hashed[a][f]
  BY DEF RehashedInv
<1>3. loaded[a].files = hashed[a]
  BY <1>1, <1>2
<1> QED
  BY <1>1, <1>3 DEF AnsweredInv, Key

\* The entries stay coherent: only PublishEntry writes one.
LEMMA CoherentStep ==
  ASSUME TypeInv, FreshInv, [Next]_vars PROVE CacheCoherent'
<1> USE DEF store, history
<1>1. ASSUME NEW a \in Analyzers, PublishEntry(a) PROVE CacheCoherent'
  <2>1. loaded[a] = Key(a) /\ Key(a) \in Keys
    BY <1>1, SameModel, KeyType DEF TypeInv, FreshInv, PassInv, PublishEntry, Writing
  <2>2. cache' = [cache EXCEPT ![Key(a)] = Entry(Key(a), temporary[a].modified)]
    BY <1>1, <2>1 DEF PublishEntry
  <2> QED
    BY <2>2 DEF FreshInv, CacheCoherent, TypeInv, TypeOK, Entry
<1>2. ASSUME NEW a \in Analyzers, Prune(a) PROVE CacheCoherent'
  <2>1. \A k \in Keys : cache'[k] \in {cache[k], Absent}
    BY <1>2 DEF Prune, TypeInv, TypeOK
  <2> QED
    BY <2>1 DEF FreshInv, CacheCoherent, Absent, Entries
<1>3. CASE Tamper
  <2>1. \A k \in Keys : cache'[k] \in {cache[k], Absent, Damaged}
    BY <1>3 DEF Tamper, TypeInv, TypeOK
  <2> QED
    BY <2>1 DEF FreshInv, CacheCoherent, Absent, Damaged, Entries
<1>4. CASE UNCHANGED cache
  BY <1>4 DEF FreshInv, CacheCoherent
<1>5. \/ \E a \in Analyzers : PublishEntry(a) \/ Prune(a)
      \/ Tamper
      \/ UNCHANGED cache
  BY DEF Next, Analyzer, vars, Start, HashFile, Lookup, OpenCache, LoadFile, RehashFile, StageEntry,
         WriteEntry, ListEntries, InspectEntry, Fail, Crash, Edit
<1> QED
  BY <1>1, <1>2, <1>3, <1>4, <1>5

\* The versions an analyzer has read keep their order, if none comes back.
LEMMA PassStep ==
  ASSUME TypeInv, FreshInv, [Next]_vars, ~Reverts PROVE PassInv'
<1> USE DEF PassInv, HashedInv, LoadedInv, RehashedInv, AnsweredInv, Stored, Writing
<1> USE DEF FreshInv, Goto, store, reading, pruning, budgets, history
<1>a. /\ step \in [Analyzers -> Steps] /\ unread \in [Analyzers -> SUBSET SourceFiles]
      /\ source \in Snapshots /\ started \in [Analyzers -> Snapshots]
      /\ hashed \in [Analyzers -> Snapshots] /\ loaded \in [Analyzers -> Models]
  BY DEF TypeInv, TypeOK
<1>b. \A a \in Analyzers, f \in SourceFiles :
        /\ source[f] \in Nat /\ hashed[a][f] \in Nat
        /\ started[a][f] \in Nat /\ loaded[a].files[f] \in Nat
  BY VersionType DEF TypeInv
<1>1. ASSUME NEW a \in Analyzers, Start(a) PROVE PassInv'
  BY <1>1, <1>a, <1>b DEF Start, ReadAll
<1>2. ASSUME NEW a \in Analyzers, HashFile(a) PROVE PassInv'
  <2>1. PICK f \in SourceFiles : /\ ReadOne(a, f, "lookup")
                                 /\ hashed' = [hashed EXCEPT ![a][f] = source[f]]
    BY <1>2 DEF HashFile
  <2>2. /\ \A b \in Analyzers \ {a} : hashed'[b] = hashed[b]
        /\ \A g \in SourceFiles : hashed'[a][g] = IF g = f THEN source[f] ELSE hashed[a][g]
    BY <2>1, <1>a DEF Snapshots
  <2>3. UNCHANGED <<source, loaded, started>> /\ step[a] = "key"
    BY <1>2 DEF HashFile
  <2>4. /\ f \in unread[a] /\ unread' = [unread EXCEPT ![a] = @ \ {f}]
        /\ step' = [step EXCEPT ![a] = IF unread[a] = {f} THEN "lookup" ELSE "key"]
    BY <2>1, <2>3 DEF ReadOne
  <2>5. PassInv'
    <3>1. HashedInv'
      BY <2>2, <2>3, <2>4, <1>a, <1>b
    <3>2. LoadedInv' /\ RehashedInv'
      BY <2>2, <2>3, <2>4, <1>a
    <3>3. AnsweredInv'
      BY <2>3, <2>4, <1>a
    <3> QED
      BY <3>1, <3>2, <3>3
  <2> QED
    BY <2>5
<1>3. ASSUME NEW a \in Analyzers, Lookup(a) PROVE PassInv'
  <2>1. CASE Hit(a)
    <3>1. loaded' = [loaded EXCEPT ![a] = Key(a)]
      BY <1>3, <2>1, KeyType DEF Lookup, OpenCache, Hit, CacheCoherent, TypeInv
    <3> QED
      BY <1>3, <2>1, <3>1, <1>a, <1>b DEF Lookup, OpenCache, Key
  <2>2. CASE ~Hit(a)
    <3>1. /\ step[a] = "lookup" /\ step' = [step EXCEPT ![a] = "load"]
          /\ unread' = [unread EXCEPT ![a] = SourceFiles]
          /\ UNCHANGED <<source, hashed, loaded, started>>
      BY <1>3, <2>2 DEF Lookup, OpenCache, ReadAll
    <3>2. HashedInv' /\ LoadedInv' /\ RehashedInv'
      BY <3>1, <1>a
    <3>3. AnsweredInv'
      BY <3>1, <1>a
    <3> QED
      BY <3>2, <3>3
  <2> QED
    BY <2>1, <2>2
<1>4. ASSUME NEW a \in Analyzers, LoadFile(a) PROVE PassInv'
  <2>1. PICK f \in unread[a] :
          /\ loaded' = [loaded EXCEPT ![a].files[f] = source[f]]
          /\ \/ unread[a] # {f} /\ ReadOne(a, f, "load")
             \/ unread[a] = {f} /\ ReadOne(a, f, "done")
             \/ unread[a] = {f} /\ ReadAll(a, "rekey")
    BY <1>4 DEF LoadFile
  <2>2. /\ \A b \in Analyzers : loaded'[b].opt = loaded[b].opt
        /\ \A b \in Analyzers \ {a} : loaded'[b] = loaded[b]
        /\ \A g \in SourceFiles :
             loaded'[a].files[g] = IF g = f THEN source[f] ELSE loaded[a].files[g]
    BY <2>1, <1>a DEF Models, Snapshots
  <2>3. UNCHANGED <<source, hashed, started>> /\ step[a] = "load"
    BY <1>4 DEF LoadFile
  <2>4. CASE unread[a] # {f} /\ ReadOne(a, f, "load")
    BY <2>2, <2>3, <2>4, <1>a, <1>b DEF ReadOne
  <2>5. CASE unread[a] = {f} /\ ReadOne(a, f, "done")
    BY <2>2, <2>3, <2>5, <1>a, <1>b DEF ReadOne
  <2>6. CASE unread[a] = {f} /\ ReadAll(a, "rekey")
    BY <2>2, <2>3, <2>6, <1>a, <1>b DEF ReadAll
  <2> QED
    BY <2>1, <2>4, <2>5, <2>6
<1>5. ASSUME NEW a \in Analyzers, RehashFile(a) PROVE PassInv'
  <2>1. PICK f \in unread[a] :
          \/ source[f] = hashed[a][f] /\ ReadOne(a, f, "stage")
          \/ Goto(a, "done") /\ unread' = [unread EXCEPT ![a] = {}]
    BY <1>5 DEF RehashFile, SameInput
  <2>2. UNCHANGED <<source, hashed, loaded, started>> /\ step[a] = "rekey"
    BY <1>5 DEF RehashFile
  <2>3. CASE source[f] = hashed[a][f] /\ ReadOne(a, f, "stage")
    <3>1. loaded[a].files[f] = hashed[a][f]
      <4>1. f \in SourceFiles
        BY <1>a
      <4>2. hashed[a][f] <= loaded[a].files[f] /\ loaded[a].files[f] <= hashed[a][f]
        BY <4>1, <2>2, <2>3
      <4> QED
        BY <4>1, <4>2, <1>b
    <3>2. /\ f \in unread[a] /\ unread' = [unread EXCEPT ![a] = @ \ {f}]
          /\ step' = [step EXCEPT ![a] = IF unread[a] = {f} THEN "stage" ELSE "rekey"]
      BY <2>2, <2>3 DEF ReadOne
    <3>3. HashedInv' /\ LoadedInv'
      BY <2>2, <3>2, <1>a
    <3>4. RehashedInv'
      BY <2>2, <3>1, <3>2, <1>a
    <3>5. AnsweredInv'
      BY <2>2, <3>2, <1>a
    <3> QED
      BY <3>3, <3>4, <3>5
  <2>4. CASE Goto(a, "done") /\ unread' = [unread EXCEPT ![a] = {}]
    BY <2>2, <2>4, <1>a, <1>b
  <2> QED
    BY <2>1, <2>3, <2>4
<1>6. ASSUME NEW a \in Analyzers, StageEntry(a) PROVE PassInv'
  BY <1>6, <1>a, <1>b DEF StageEntry
<1>7. ASSUME NEW a \in Analyzers, WriteEntry(a) PROVE PassInv'
  BY <1>7, <1>a, <1>b DEF WriteEntry
<1>8. ASSUME NEW a \in Analyzers, PublishEntry(a) PROVE PassInv'
  BY <1>8, <1>a, <1>b DEF PublishEntry
<1>9. ASSUME NEW a \in Analyzers, ListEntries(a) \/ InspectEntry(a) \/ Prune(a) PROVE PassInv'
  <2>1. /\ UNCHANGED <<source, unread, hashed, loaded, started>>
        /\ step[a] \in Stored /\ step'[a] \in Stored \cup {"done"}
        /\ \A b \in Analyzers \ {a} : step'[b] = step[b]
    BY <1>9, <1>a DEF ListEntries, InspectEntry, Prune
  <2>2. HashedInv' /\ LoadedInv' /\ RehashedInv'
    BY <2>1
  <2>3. AnsweredInv'
    BY <2>1
  <2> QED
    BY <2>2, <2>3
<1>10. ASSUME NEW a \in Analyzers, Fail(a) \/ Crash(a) PROVE PassInv'
  BY <1>10, <1>a, <1>b DEF Fail, Crash
<1>11. CASE Edit
  <2>1. PICK f \in SourceFiles : source' = [source EXCEPT ![f] = @ + 1]
    BY <1>11 DEF Edit
  <2>2. \A g \in SourceFiles : source'[g] \in Nat /\ source[g] <= source'[g]
    <3>1. source \in [SourceFiles -> Nat]
      BY CacheAssumption, <1>a DEF Snapshots, Versions
    <3> HIDE DEF PassInv
    <3> QED
      BY <2>1, <3>1
  <2>3. UNCHANGED <<step, unread, hashed, loaded, started>>
    BY <1>11 DEF Edit
  <2>4. HashedInv'
    <3> SUFFICES ASSUME NEW a \in Analyzers, NEW g \in SourceFiles,
                        \/ step[a] = "key" /\ g \notin unread[a]
                        \/ step[a] \in {"lookup", "load", "rekey"} \cup Writing
                 PROVE  started[a][g] <= hashed[a][g] /\ hashed[a][g] <= source'[g]
      BY <2>3
    <3>1. started[a][g] <= hashed[a][g] /\ hashed[a][g] <= source[g]
      OBVIOUS
    <3> QED
      BY <3>1, <2>2, <1>b
  <2>5. LoadedInv'
    <3> SUFFICES ASSUME NEW a \in Analyzers, NEW g \in SourceFiles,
                        \/ step[a] = "load" /\ g \notin unread[a]
                        \/ step[a] \in {"rekey"} \cup Writing
                 PROVE  hashed[a][g] <= loaded[a].files[g] /\ loaded[a].files[g] <= source'[g]
      BY <2>3
    <3>1. hashed[a][g] <= loaded[a].files[g] /\ loaded[a].files[g] <= source[g]
      OBVIOUS
    <3> QED
      BY <3>1, <2>2, <1>b
  <2>6. RehashedInv'
    BY <2>3
  <2>7. AnsweredInv'
    <3> SUFFICES ASSUME NEW a \in Analyzers, NEW g \in SourceFiles
                 PROVE  /\ started[a][g] <= source'[g]
                        /\ step[a] \in Stored \cup {"done"} =>
                             started[a][g] <= loaded[a].files[g] /\ loaded[a].files[g] <= source'[g]
      BY <2>3
    <3>1. /\ started[a][g] <= source[g]
          /\ step[a] \in Stored \cup {"done"} =>
               started[a][g] <= loaded[a].files[g] /\ loaded[a].files[g] <= source[g]
      OBVIOUS
    <3> QED
      BY <3>1, <2>2, <1>b
  <2> QED
    BY <2>4, <2>5, <2>6, <2>7
<1>12. CASE Tamper
  BY <1>12 DEF Tamper
<1>13. CASE UNCHANGED vars
  BY <1>13 DEF vars
<1> QED
  BY <1>1, <1>2, <1>3, <1>4, <1>5, <1>6, <1>7, <1>8, <1>9, <1>10, <1>11, <1>12, <1>13
     DEF Next, Analyzer

\* When the source never goes back to an earlier version, an entry holds the
\* analysis of the inputs of its key, whoever edited, raced or was killed
\* (refreshAnalysisCache of cache.go).
THEOREM Coherent == ASSUME ~Reverts PROVE Spec => []CacheCoherent
<1>1. TypeInv /\ FreshInv /\ [Next]_vars => TypeInv' /\ FreshInv'
  BY NextTypeInv, CoherentStep, PassStep DEF FreshInv
<1>2. Spec => [](TypeInv /\ FreshInv)
  BY <1>1, InitTypeInv, InitFreshInv, PTL DEF Spec
<1>3. FreshInv => CacheCoherent
  BY DEF FreshInv
<1> QED
  BY <1>2, <1>3, PTL

\* Nor does an answer, from the cache or not, hold a version of a file from
\* before the command started.
THEOREM Fresh == ASSUME ~Reverts PROVE Spec => []AnswerFresh
<1>1. TypeInv /\ FreshInv /\ [Next]_vars => TypeInv' /\ FreshInv'
  BY NextTypeInv, CoherentStep, PassStep DEF FreshInv
<1>2. Spec => [](TypeInv /\ FreshInv)
  BY <1>1, InitTypeInv, InitFreshInv, PTL DEF Spec
<1>3. FreshInv => AnswerFresh
  BY DEF FreshInv, PassInv, AnsweredInv, AnswerFresh
<1> QED
  BY <1>2, <1>3, PTL
-----------------------------------------------------------------------------
(* Who writes, and what is left.                                           *)

\* A read-only analyzer never comes to a step that writes.
WriterInv ==
  \A a \in ReadOnly :
    /\ step[a] \notin {"rekey", "stage", "write", "publish", "list", "inspect", "prune"}
    /\ temporary[a] = Absent

\* A temporary file has an analyzer that still writes it, or was killed.
LeftInv ==
  \A a \in Analyzers : temporary[a] # Absent => step[a] \in {"write", "publish", "crashed"}

\* Whether an analyzer may write is decided once, when it has analyzed the
\* files, and a temporary file goes with the step that made it.
LEMMA WriterStep == TypeOK /\ WriterInv /\ LeftInv /\ [Next]_vars => WriterInv' /\ LeftInv'
<1> SUFFICES ASSUME TypeOK, WriterInv, LeftInv, [Next]_vars PROVE WriterInv' /\ LeftInv'
  OBVIOUS
<1> USE CacheAssumption DEF TypeOK, WriterInv, LeftInv, Goto, ReadAll, ReadOne, store, history
<1>1. ASSUME NEW a \in Analyzers, Start(a) PROVE WriterInv' /\ LeftInv'
  BY <1>1 DEF Start
<1>2. ASSUME NEW a \in Analyzers, HashFile(a) PROVE WriterInv' /\ LeftInv'
  BY <1>2 DEF HashFile
<1>3. ASSUME NEW a \in Analyzers, Lookup(a) PROVE WriterInv' /\ LeftInv'
  BY <1>3 DEF Lookup
<1>4. ASSUME NEW a \in Analyzers, LoadFile(a) PROVE WriterInv' /\ LeftInv'
  BY <1>4 DEF LoadFile, Writable
<1>5. ASSUME NEW a \in Analyzers, RehashFile(a) PROVE WriterInv' /\ LeftInv'
  BY <1>5 DEF RehashFile
<1>6. ASSUME NEW a \in Analyzers, StageEntry(a) PROVE WriterInv' /\ LeftInv'
  BY <1>6 DEF StageEntry
<1>7. ASSUME NEW a \in Analyzers, WriteEntry(a) PROVE WriterInv' /\ LeftInv'
  BY <1>7 DEF WriteEntry
<1>8. ASSUME NEW a \in Analyzers, PublishEntry(a) PROVE WriterInv' /\ LeftInv'
  BY <1>8 DEF PublishEntry
<1>9. ASSUME NEW a \in Analyzers, ListEntries(a) PROVE WriterInv' /\ LeftInv'
  BY <1>9 DEF ListEntries
<1>10. ASSUME NEW a \in Analyzers, InspectEntry(a) PROVE WriterInv' /\ LeftInv'
  BY <1>10 DEF InspectEntry
<1>11. ASSUME NEW a \in Analyzers, Prune(a) PROVE WriterInv' /\ LeftInv'
  BY <1>11 DEF Prune
<1>12. ASSUME NEW a \in Analyzers, Fail(a) PROVE WriterInv' /\ LeftInv'
  BY <1>12 DEF Fail
<1>13. ASSUME NEW a \in Analyzers, Crash(a) PROVE WriterInv' /\ LeftInv'
  BY <1>13 DEF Crash
<1>14. CASE Edit
  BY <1>14 DEF Edit
<1>15. CASE Tamper
  BY <1>15 DEF Tamper
<1>16. CASE UNCHANGED vars
  BY <1>16 DEF vars
<1> QED
  BY <1>1, <1>2, <1>3, <1>4, <1>5, <1>6, <1>7, <1>8, <1>9, <1>10, <1>11, <1>12,
     <1>13, <1>14, <1>15, <1>16 DEF Next, Analyzer

LEMMA WriterInit == Init => WriterInv /\ LeftInv
BY CacheAssumption DEF Init, WriterInv, LeftInv

\* A step that changes what is stored is one of a writing analyzer that goes on.
LEMMA WriterOnly ==
  ASSUME TypeOK, WriterInv, LeftInv, [Next]_vars,
         <<directory, cache, temporary>>' # <<directory, cache, temporary>>
  PROVE  \/ tampering' # tampering
         \/ \E a \in Analyzers \ ReadOnly : step'[a] # step[a] \/ kept'[a] # kept[a]
<1> USE DEF TypeOK, WriterInv, LeftInv, store
<1> DEFINE Goal == \/ tampering' # tampering
                   \/ \E a \in Analyzers \ ReadOnly : step'[a] # step[a] \/ kept'[a] # kept[a]
<1>1. ASSUME NEW a \in Analyzers, Lookup(a) PROVE Goal
  <2>1. step'[a] # step[a]
    BY <1>1 DEF Lookup, Goto, ReadAll
  <2>2. a \notin ReadOnly
    BY <1>1 DEF Lookup, OpenCache, Writable
  <2> QED
    BY <2>1, <2>2
<1>2. ASSUME NEW a \in Analyzers, StageEntry(a) \/ WriteEntry(a) \/ PublishEntry(a) PROVE Goal
  <2>1. step'[a] # step[a] /\ a \notin ReadOnly
    BY <1>2 DEF StageEntry, WriteEntry, PublishEntry, Goto
  <2> QED
    BY <2>1
<1>3. ASSUME NEW a \in Analyzers, Prune(a) PROVE Goal
  <2>1. a \notin ReadOnly
    BY <1>3 DEF Prune
  <2>2. step'[a] # step[a] \/ kept'[a] # kept[a]
    <3>1. CASE Goto(a, "done")
      BY <1>3, <3>1 DEF Prune, Goto
    <3>2. CASE \E e \in kept[a] : kept' = [kept EXCEPT ![a] = @ \ {e}]
      BY <3>2
    <3> QED
      BY <1>3, <3>1, <3>2 DEF Prune
  <2> QED
    BY <2>1, <2>2
<1>4. ASSUME NEW a \in Analyzers, Fail(a) PROVE Goal
  <2>1. temporary[a] # Absent
    BY <1>4 DEF Fail
  <2>2. a \notin ReadOnly
    BY <2>1
  <2>3. step'[a] # step[a]
    BY <1>4 DEF Fail, Running, Goto
  <2> QED
    BY <2>2, <2>3
<1>5. CASE Tamper
  BY <1>5 DEF Tamper
<1>6. ASSUME NEW a \in Analyzers,
             \/ Start(a) \/ HashFile(a) \/ LoadFile(a) \/ RehashFile(a) \/ ListEntries(a)
             \/ InspectEntry(a) \/ Crash(a)
      PROVE  FALSE
  BY <1>6 DEF Start, HashFile, LoadFile, RehashFile, ListEntries, InspectEntry, Crash
<1>7. CASE Edit \/ UNCHANGED vars
  BY <1>7 DEF Edit, vars
<1> QED
  BY <1>1, <1>2, <1>3, <1>4, <1>5, <1>6, <1>7 DEF Next, Analyzer

\* Only a writing analyzer, or somebody else, changes what is stored: --check,
\* --dry-run and diff leave the storage as it is.
THEOREM ReadOnlyWritesNothing == Spec => ReadOnlyNeverWrites
<1>1. TypeOK /\ WriterInv /\ LeftInv /\ [Next]_vars =>
        [<<directory, cache, temporary>>' # <<directory, cache, temporary>> =>
           \/ tampering' # tampering
           \/ \E a \in Analyzers \ ReadOnly : step'[a] # step[a] \/ kept'[a] # kept[a]]_vars
  BY WriterOnly
<1> QED
  BY TypeCorrect, WriterInit, WriterStep, <1>1, PTL DEF Spec, ReadOnlyNeverWrites

-----------------------------------------------------------------------------
(* What the entries of a set have in bytes.  MapThenSumSet takes the        *)
(* elements in an order of its own; the order makes no difference.          *)

Weight(e) == Size(e.key)

First(s) == CHOOSE x \in s : TRUE

SumBody(f, s) == IF s = {} THEN 0 ELSE Weight(First(s)) + f[s \ {First(s)}]

Adds(S, f) == f = [s \in SUBSET S |-> SumBody(f, s)]

Bytes(S) == MapThenSumSet(LAMBDA e : Size(e.key), S)

\* The function the fold is defined by.
Summing(S) == CHOOSE f : Adds(S, f)

LEMMA BytesIs ==
  ASSUME NEW S
  PROVE  Bytes(S) = Summing(S)[S]
BY DEF Bytes, MapThenSumSet, MapThenFoldSet, Summing, Adds, SumBody, First, Weight

\* A set of numbers has a least one.
LEMMA LeastNumber ==
  ASSUME NEW S \in SUBSET Nat, S # {}
  PROVE  \E i \in S : \A j \in S : i <= j
<1>1. PICK i \in S : \A j \in S : ~(<<j, i>> \in OpToRel(<, Nat))
  BY NatLessThanWellFounded, WFMin
<1>2. ASSUME NEW j \in S PROVE i <= j
  <2>1. ~(j < i)
    BY <1>1 DEF OpToRel
  <2> QED
    BY <2>1
<1> QED
  BY <1>2

\* Induction on the number of elements, for a set of bad subsets.
LEMMA SmallestSet ==
  ASSUME NEW S, IsFiniteSet(S), NEW B \in SUBSET (SUBSET S), B # {}
  PROVE  \E s \in B : /\ IsFiniteSet(s)
                      /\ \A x \in s : s \ {x} \notin B
<1> DEFINE N == {n \in Nat : \E s \in B : Cardinality(s) = n}
<1>1. \A s \in B : IsFiniteSet(s) /\ Cardinality(s) \in Nat
  BY FS_Subset, FS_CardinalityType
<1>2. N \in SUBSET Nat /\ N # {}
  BY <1>1
<1>3. PICK n \in N : \A m \in N : n <= m
  BY <1>2, LeastNumber
<1>4. PICK s \in B : Cardinality(s) = n
  OBVIOUS
<1>5. ASSUME NEW x \in s, s \ {x} \in B PROVE FALSE
  <2>1. Cardinality(s \ {x}) = n - 1
    BY <1>1, <1>4, FS_RemoveElement
  <2>2. n - 1 \in N
    BY <1>1, <1>5, <2>1
  <2> QED
    BY <1>2, <1>3, <2>2
<1> QED
  BY <1>1, <1>5

\* The subsets with at most n elements.
UpTo(S, n) == {s \in SUBSET S : Cardinality(s) <= n}

AddsUpTo(S, n, f) == f = [s \in UpTo(S, n) |-> SumBody(f, s)]

LEMMA SummingGrows ==
  ASSUME NEW S, IsFiniteSet(S), NEW n \in Nat, NEW f, AddsUpTo(S, n, f)
  PROVE  \E g : AddsUpTo(S, n + 1, g)
<1> DEFINE g == [s \in UpTo(S, n + 1) |-> SumBody(f, s)]
<1>1. \A s \in SUBSET S : IsFiniteSet(s) /\ Cardinality(s) \in Nat
  BY FS_Subset, FS_CardinalityType
<1>2. ASSUME NEW s \in UpTo(S, n) PROVE g[s] = f[s]
  <2>1. s \in UpTo(S, n + 1)
    BY <1>1 DEF UpTo
  <2> QED
    BY <2>1 DEF AddsUpTo
<1>3. ASSUME NEW s \in UpTo(S, n + 1), s # {}
      PROVE  g[s \ {First(s)}] = f[s \ {First(s)}]
  <2>1. First(s) \in s /\ s \in SUBSET S /\ Cardinality(s) <= n + 1
    BY <1>3 DEF First, UpTo
  <2>2. Cardinality(s \ {First(s)}) = Cardinality(s) - 1
    BY <1>1, <2>1, FS_RemoveElement
  <2>3. s \ {First(s)} \in UpTo(S, n)
    BY <1>1, <2>1, <2>2 DEF UpTo
  <2> QED
    BY <1>2, <2>3
<1>4. \A s \in UpTo(S, n + 1) : SumBody(f, s) = SumBody(g, s)
  BY <1>3 DEF SumBody
<1>5. g = [s \in UpTo(S, n + 1) |-> SumBody(g, s)]
  BY <1>4
<1> QED
  BY <1>5 DEF AddsUpTo

LEMMA SummingExists ==
  ASSUME NEW S, IsFiniteSet(S)
  PROVE  Adds(S, Summing(S))
<1> DEFINE Bad == {n \in Nat : ~\E f : AddsUpTo(S, n, f)}
<1>1. \A s \in SUBSET S : IsFiniteSet(s) /\ Cardinality(s) \in Nat /\ Cardinality(s) <= Cardinality(S)
  BY FS_Subset, FS_CardinalityType
<1>2. 0 \notin Bad
  <2> DEFINE f == [s \in UpTo(S, 0) |-> 0]
  <2>1. \A s \in UpTo(S, 0) : s = {}
    BY <1>1, FS_EmptySet DEF UpTo
  <2>2. \A s \in UpTo(S, 0) : SumBody(f, s) = 0
    BY <2>1 DEF SumBody
  <2>3. AddsUpTo(S, 0, f)
    BY <2>2 DEF AddsUpTo
  <2> QED
    BY <2>3
<1>3. ASSUME NEW n \in Nat, n \notin Bad PROVE n + 1 \notin Bad
  BY <1>3, SummingGrows
<1>4. Bad = {}
  <2> SUFFICES ASSUME Bad # {} PROVE FALSE
    OBVIOUS
  <2>1. PICK n \in Bad : \A m \in Bad : n <= m
    BY LeastNumber
  <2> HIDE DEF Bad
  <2>2. n \in Nat /\ n # 0
    BY <1>2 DEF Bad
  <2>3. n - 1 \in Nat /\ n - 1 \notin Bad
    BY <2>1, <2>2
  <2>4. (n - 1) + 1 \notin Bad
    BY <1>3, <2>3
  <2> QED
    BY <2>2, <2>4
<1>5. PICK f : AddsUpTo(S, Cardinality(S), f)
  <2>1. Cardinality(S) \in Nat
    BY FS_CardinalityType
  <2> QED
    BY <1>4, <2>1
<1>6. UpTo(S, Cardinality(S)) = SUBSET S
  BY <1>1 DEF UpTo
<1>7. Adds(S, f)
  BY <1>5, <1>6 DEF AddsUpTo, Adds
<1> QED
  BY <1>7 DEF Summing

Weighed(S) == \A e \in S : Weight(e) \in Nat

LEMMA SummingType ==
  ASSUME NEW S, IsFiniteSet(S), Weighed(S)
  PROVE  Summing(S) \in [SUBSET S -> Nat]
<1> DEFINE f == Summing(S)
           Bad == {s \in SUBSET S : f[s] \notin Nat}
<1>1. f = [s \in SUBSET S |-> SumBody(f, s)]
  BY SummingExists DEF Adds
<1> HIDE DEF f
<1>2. Bad = {}
  <2> SUFFICES ASSUME Bad # {} PROVE FALSE
    OBVIOUS
  <2>1. PICK s \in Bad : \A x \in s : s \ {x} \notin Bad
    BY SmallestSet
  <2>2. s # {}
    BY <1>1 DEF SumBody
  <2>3. First(s) \in s
    BY <2>2 DEF First
  <2>4. f[s \ {First(s)}] \in Nat
    BY <2>1, <2>3
  <2>5. f[s] = Weight(First(s)) + f[s \ {First(s)}]
    BY <1>1, <2>2 DEF SumBody
  <2>6. Weight(First(s)) \in Nat
    BY <2>3 DEF Weighed
  <2> QED
    BY <2>4, <2>5, <2>6
<1> QED
  BY <1>1, <1>2 DEF f

\* Any element may be taken first.
LEMMA AnyFirst ==
  ASSUME NEW S, IsFiniteSet(S), Weighed(S), NEW s \in SUBSET S, NEW x \in s
  PROVE  Summing(S)[s] = Weight(x) + Summing(S)[s \ {x}]
<1> DEFINE f == Summing(S)
           Bad == {t \in SUBSET S : \E y \in t : f[t] # Weight(y) + f[t \ {y}]}
<1>1. f \in [SUBSET S -> Nat] /\ f = [t \in SUBSET S |-> SumBody(f, t)]
  BY SummingExists, SummingType DEF Adds
<1> HIDE DEF f
<1>2. Bad = {}
  <2> SUFFICES ASSUME Bad # {} PROVE FALSE
    OBVIOUS
  <2>1. PICK t \in Bad : \A y \in t : t \ {y} \notin Bad
    BY SmallestSet
  <2>2. PICK y \in t : f[t] # Weight(y) + f[t \ {y}]
    OBVIOUS
  <2> DEFINE c == First(t)
  <2>3. c \in t
    BY <2>2 DEF First
  <2>4. f[t] = Weight(c) + f[t \ {c}]
    BY <1>1, <2>2 DEF SumBody
  <2> HIDE DEF c
  <2>5. c # y
    BY <2>2, <2>4
  <2>6. f[t \ {c}] = Weight(y) + f[(t \ {c}) \ {y}]
    <3>1. t \ {c} \notin Bad /\ y \in t \ {c} /\ t \ {c} \in SUBSET S
      BY <2>1, <2>3, <2>5
    <3> QED
      BY <3>1
  <2>7. f[t \ {y}] = Weight(c) + f[(t \ {y}) \ {c}]
    <3>1. t \ {y} \notin Bad /\ c \in t \ {y} /\ t \ {y} \in SUBSET S
      BY <2>1, <2>3, <2>5
    <3> QED
      BY <3>1
  <2>8. (t \ {c}) \ {y} = (t \ {y}) \ {c}
    OBVIOUS
  <2>9. Weight(c) \in Nat /\ Weight(y) \in Nat /\ f[(t \ {c}) \ {y}] \in Nat
    <3>1. (t \ {c}) \ {y} \in SUBSET S
      OBVIOUS
    <3> QED
      BY <1>1, <2>3, <3>1 DEF Weighed
  <2> HIDE DEF Bad
  <2>10. f[t \ {y}] = Weight(c) + f[(t \ {c}) \ {y}]
    BY <2>7, <2>8
  <2>11. f[t] = Weight(y) + f[t \ {y}]
    BY <2>4, <2>6, <2>9, <2>10
  <2> QED
    BY <2>2, <2>11
<1> QED
  BY <1>2 DEF f

\* A set has no more bytes than one that has an element for each of its own.
LEMMA FewerBytes ==
  ASSUME NEW A, IsFiniteSet(A), Weighed(A), NEW B, IsFiniteSet(B), Weighed(B),
         NEW g \in [A -> B],
         \A x, y \in A : g[x] = g[y] => x = y,
         \A x \in A : Weight(x) = Weight(g[x])
  PROVE  /\ Cardinality(A) <= Cardinality(B)
         /\ Bytes(A) <= Bytes(B)
<1>1. Cardinality(A) <= Cardinality(B)
  <2>1. g \in Injection(A, B)
    BY DEF Injection, IsInjective
  <2> QED
    BY <2>1, FS_Injection
<1> DEFINE a == Summing(A)
           b == Summing(B)
           Bad == {s \in SUBSET A :
                     \E t \in SUBSET B : (\A x \in s : g[x] \in t) /\ ~(a[s] <= b[t])}
<1>2. a \in [SUBSET A -> Nat] /\ b \in [SUBSET B -> Nat]
  BY SummingType
<1>3. \A s \in SUBSET A : \A x \in s : a[s] = Weight(x) + a[s \ {x}]
  BY AnyFirst
<1>4. \A s \in SUBSET B : \A x \in s : b[s] = Weight(x) + b[s \ {x}]
  BY AnyFirst
<1>5. a[{}] = 0 /\ Bytes(A) = a[A] /\ Bytes(B) = b[B]
  BY SummingExists, BytesIs DEF Adds, SumBody
<1> HIDE DEF a, b
<1>6. Bad = {}
  <2> SUFFICES ASSUME Bad # {} PROVE FALSE
    OBVIOUS
  <2>1. PICK s \in Bad : \A x \in s : s \ {x} \notin Bad
    BY SmallestSet
  <2>2. PICK t \in SUBSET B : (\A x \in s : g[x] \in t) /\ ~(a[s] <= b[t])
    OBVIOUS
  <2>3. s # {}
    <3>1. b[t] \in Nat
      BY <1>2
    <3>2. a[{}] <= b[t]
      BY <1>5, <3>1
    <3> QED
      BY <2>2, <3>2
  <2>4. PICK x \in s : TRUE
    BY <2>3
  <2>5. x \in A /\ s \in SUBSET A /\ s \ {x} \in SUBSET A /\ t \ {g[x]} \in SUBSET B /\ g[x] \in t
    BY <2>2
  <2>6. a[s \ {x}] <= b[t \ {g[x]}]
    <3>1. s \ {x} \notin Bad
      BY <2>1, <2>4
    <3>2. \A y \in s \ {x} : g[y] \in t \ {g[x]}
      BY <2>2, <2>5
    <3> QED
      BY <2>5, <3>1, <3>2
  <2>7. a[s] = Weight(x) + a[s \ {x}] /\ b[t] = Weight(g[x]) + b[t \ {g[x]}]
    BY <1>3, <1>4, <2>4, <2>5
  <2>8. Weight(x) \in Nat /\ a[s \ {x}] \in Nat /\ b[t \ {g[x]}] \in Nat /\ Weight(x) = Weight(g[x])
    BY <1>2, <2>5 DEF Weighed
  <2> QED
    BY <2>2, <2>6, <2>7, <2>8
<1>7. a[A] <= b[B]
  BY <1>6
<1> QED
  BY <1>1, <1>5, <1>7

LEMMA BytesType ==
  ASSUME NEW S, IsFiniteSet(S), Weighed(S)
  PROVE  Bytes(S) \in Nat
BY SummingType, BytesIs

LEMMA BudgetIs ==
  ASSUME NEW S
  PROVE  OverBudget(S) <=> Cardinality(S) > MaxEntries \/ Bytes(S) > MaxBytes
BY DEF OverBudget, Bytes

-----------------------------------------------------------------------------
(* Retention.                                                              *)

LEMMA KeysFinite == IsFiniteSet(Keys)
<1> DEFINE Pairs == SourceFiles \X Versions
           g == [f \in Snapshots |-> {p \in Pairs : p[2] = f[p[1]]}]
           h == [k \in Keys |-> <<k.opt, k.files>>]
<1>1. IsFiniteSet(Options) /\ IsFiniteSet(SourceFiles) /\ MaxEdits \in Nat
  BY CacheAssumption
<1>2. IsFiniteSet(Versions)
  BY <1>1, FS_Interval DEF Versions
<1>3. IsFiniteSet(SUBSET Pairs)
  BY <1>1, <1>2, FS_Product, FS_SUBSET
<1>4. g \in Injection(Snapshots, SUBSET Pairs)
  <2>1. g \in [Snapshots -> SUBSET Pairs]
    OBVIOUS
  <2>2. ASSUME NEW e \in Snapshots, NEW f \in Snapshots, g[e] = g[f] PROVE e = f
    <3>1. e \in [SourceFiles -> Versions] /\ f \in [SourceFiles -> Versions]
      BY DEF Snapshots
    <3>2. ASSUME NEW x \in SourceFiles PROVE e[x] = f[x]
      <4>1. <<x, e[x]>> \in Pairs
        BY <3>1
      <4>2. <<x, e[x]>> \in g[e]
        BY <4>1
      <4>3. <<x, e[x]>> \in g[f]
        BY <2>2, <4>2
      <4> QED
        BY <4>3
    <3> QED
      BY <3>1, <3>2
  <2> HIDE DEF g
  <2> QED
    BY <2>1, <2>2 DEF Injection, IsInjective
<1>5. IsFiniteSet(Snapshots)
  <2> HIDE DEF g
  <2> QED
    BY <1>3, <1>4, FS_Injection
<1>6. IsFiniteSet(Options \X Snapshots)
  BY <1>1, <1>5, FS_Product
<1>7. h \in Injection(Keys, Options \X Snapshots)
  <2>1. h \in [Keys -> Options \X Snapshots]
    BY DEF Keys, Models
  <2>2. ASSUME NEW j \in Keys, NEW k \in Keys, h[j] = h[k] PROVE j = k
    BY <2>2 DEF Keys, Models
  <2> HIDE DEF h
  <2> QED
    BY <2>1, <2>2 DEF Injection, IsInjective
<1> HIDE DEF h
<1> QED
  BY <1>6, <1>7, FS_Injection

\* The entries of a set of keys, as the budgets count them.
Records(P) == {[key |-> k] : k \in P}

LEMMA RecordsType ==
  ASSUME NEW P \in SUBSET Keys
  PROVE  /\ IsFiniteSet(P) /\ IsFiniteSet(Records(P)) /\ Weighed(Records(P))
         /\ Cardinality(P) \in Nat /\ Cardinality(Records(P)) \in Nat
         /\ Bytes(Records(P)) \in Nat
<1> DEFINE g == [r \in Records(P) |-> r.key]
<1>1. IsFiniteSet(P)
  BY KeysFinite, FS_Subset
<1>2. g \in Injection(Records(P), P)
  BY DEF Records, Injection, IsInjective
<1> HIDE DEF g
<1>3. IsFiniteSet(Records(P))
  BY <1>1, <1>2, FS_Injection
<1>4. Weighed(Records(P))
  BY SizeAssumption DEF Weighed, Weight, Records
<1> QED
  BY <1>1, <1>3, <1>4, BytesType, FS_CardinalityType

\* Whoever has a record of every entry sees when they exceed a budget.
LEMMA CoveredBudget ==
  ASSUME NEW P \in SUBSET Keys, NEW K, IsFiniteSet(K), \A e \in K : e.key \in Keys,
         \A k \in P : \E e \in K : e.key = k,
         ~OverBudget(K)
  PROVE  ~OverBudget(Records(P))
<1> DEFINE A == Records(P)
           g == [r \in A |-> CHOOSE e \in K : e.key = r.key]
<1>1. Weighed(K) /\ Bytes(K) \in Nat /\ Cardinality(K) \in Nat
  <2>1. Weighed(K)
    BY SizeAssumption DEF Weighed, Weight
  <2> QED
    BY <2>1, BytesType, FS_CardinalityType
<1>2. ASSUME NEW r \in A PROVE g[r] \in K /\ g[r].key = r.key
  <2>1. \E e \in K : e.key = r.key
    BY DEF Records
  <2> QED
    BY <2>1
<1>3. g \in [A -> K]
  BY <1>2
<1>4. \A r, s \in A : r.key = s.key => r = s
  BY DEF Records
<1>5. \A r \in A : Weight(r) = Weight(g[r])
  BY <1>2 DEF Weight
<1>6. IsFiniteSet(A) /\ Weighed(A) /\ Cardinality(A) \in Nat /\ Bytes(A) \in Nat
  BY RecordsType
<1>7. \A r, s \in A : g[r] = g[s] => r = s
  BY <1>2, <1>4
<1> HIDE DEF g, A
<1>8. Cardinality(A) <= Cardinality(K) /\ Bytes(A) <= Bytes(K)
  BY <1>1, <1>3, <1>5, <1>6, <1>7, FewerBytes
<1>9. ~(Cardinality(K) > MaxEntries) /\ ~(Bytes(K) > MaxBytes)
  BY BudgetIs
<1>10. MaxEntries \in Nat /\ MaxBytes \in Nat
  BY CacheAssumption
<1>11. ~(Cardinality(A) > MaxEntries) /\ ~(Bytes(A) > MaxBytes)
  BY <1>1, <1>6, <1>8, <1>9, <1>10
<1> QED
  BY <1>11, BudgetIs DEF A

WithinBudget(P) == Cardinality(P) = 1 \/ ~OverBudget(Records(P))

LEMMA AtMostOne ==
  ASSUME NEW P \in SUBSET Keys, NEW k, P \subseteq {k}
  PROVE  WithinBudget(P)
<1>1. CASE P = {k}
  BY <1>1, FS_Singleton DEF WithinBudget
<1>2. CASE P = {}
  <2>1. Records(P) = {}
    BY <1>2 DEF Records
  <2>2. Bytes({}) = 0 /\ Cardinality({}) = 0
    <3>1. IsFiniteSet({}) /\ Cardinality({}) = 0
      BY FS_EmptySet
    <3>2. Summing({})[{}] = 0
      BY <3>1, SummingExists DEF Adds, SumBody
    <3> QED
      BY <3>1, <3>2, BytesIs
  <2> QED
    BY <2>1, <2>2, BudgetIs, CacheAssumption DEF WithinBudget
<1> QED
  BY <1>1, <1>2

LEMMA FewerWithin ==
  ASSUME NEW Q \in SUBSET Keys, NEW P \in SUBSET Q, WithinBudget(Q)
  PROVE  WithinBudget(P)
<1>1. CASE Cardinality(Q) = 1
  <2>1. \E k : Q = {k}
    BY <1>1, RecordsType, FS_Singleton
  <2> QED
    BY <2>1, AtMostOne
<1>2. CASE ~OverBudget(Records(Q))
  <2>1. IsFiniteSet(Records(Q)) /\ P \in SUBSET Keys
    BY RecordsType
  <2>2. \A e \in Records(Q) : e.key \in Keys
    BY DEF Records
  <2>3. ASSUME NEW k \in P PROVE \E e \in Records(Q) : e.key = k
    <3>1. [key |-> k] \in Records(Q) /\ [key |-> k].key = k
      BY DEF Records
    <3> QED
      BY <3>1
  <2>4. ~OverBudget(Records(P))
    BY <1>2, <2>1, <2>2, <2>3, CoveredBudget
  <2> QED
    BY <2>4 DEF WithinBudget
<1> QED
  BY <1>1, <1>2 DEF WithinBudget

\* What an analyzer has counted.
Counts(a) == {e.key : e \in kept[a]}

\* Every entry is one that a will still look at, or has counted.
Covers(a) ==
  \/ step[a] = "list"
  \/ step[a] = "inspect" /\ Present \subseteq names[a] \cup Counts(a)
  \/ step[a] = "prune" /\ Present \subseteq Counts(a)

\* After a publication the entries are within the budgets, or somebody who
\* began to prune after the last publication covers them all.
RetentionInv ==
  /\ \A a \in Analyzers : IsFiniteSet(kept[a])
  /\ published /\ faults = 0 => WithinBudget(Present) \/ \E a \in Analyzers : Covers(a)

LEMMA InitRetention == Init => RetentionInv
BY FS_EmptySet DEF Init, RetentionInv

\* A step that leaves what is counted, and takes at most some entries away.
LEMMA FewerRetained ==
  ASSUME TypeOK, RetentionInv, NEW a \in Analyzers,
         Present' \subseteq Present, UNCHANGED <<names, kept, published>>,
         faults' = 0 => faults = 0,
         step' = step \/ (step[a] \notin {"list", "inspect", "prune"} /\ step' = [step EXCEPT ![a] = step'[a]])
  PROVE  RetentionInv'
<1>1. Present \in SUBSET Keys
  BY DEF Present
<1>2. \A b \in Analyzers : Covers(b) => Covers(b)'
  BY DEF Covers, Counts, TypeOK
<1>3. WithinBudget(Present) => WithinBudget(Present')
  BY <1>1, FewerWithin
<1>4. WithinBudget(Present)' <=> WithinBudget(Present')
  BY DEF WithinBudget, Records
<1> QED
  BY <1>2, <1>3, <1>4 DEF RetentionInv

LEMMA NextRetention == TypeOK /\ RetentionInv /\ [Next]_vars => RetentionInv'
<1> SUFFICES ASSUME TypeOK, RetentionInv, [Next]_vars PROVE RetentionInv'
  OBVIOUS
<1> USE CacheAssumption DEF store, reading, pruning, budgets, history
<1>1. ASSUME NEW a \in Analyzers,
             \/ Start(a) \/ HashFile(a) \/ Lookup(a) \/ LoadFile(a)
             \/ RehashFile(a) \/ StageEntry(a) \/ WriteEntry(a)
      PROVE  RetentionInv'
  <2>1. UNCHANGED <<cache, names, kept, published, faults>>
    BY <1>1 DEF Start, HashFile, Lookup, LoadFile, RehashFile, StageEntry, WriteEntry
  <2>2. step[a] \notin {"list", "inspect", "prune"}
    BY <1>1 DEF Start, HashFile, Lookup, LoadFile, RehashFile, StageEntry, WriteEntry
  <2>3. step' = [step EXCEPT ![a] = step'[a]]
    BY <1>1 DEF Start, HashFile, Lookup, LoadFile, RehashFile, StageEntry, WriteEntry,
       ReadOne, ReadAll, Goto, TypeOK
  <2>4. Present' \subseteq Present
    BY <2>1 DEF Present
  <2> QED
    BY <2>1, <2>2, <2>3, <2>4, FewerRetained
<1>2. ASSUME NEW a \in Analyzers, PublishEntry(a) PROVE RetentionInv'
  <2>1. step'[a] = "list" /\ UNCHANGED kept
    BY <1>2 DEF PublishEntry, Goto, TypeOK
  <2> QED
    BY <2>1 DEF RetentionInv, Covers
<1>3. ASSUME NEW a \in Analyzers, ListEntries(a) PROVE RetentionInv'
  <2>1. /\ names' = [names EXCEPT ![a] = {k \in Keys : cache[k] # Absent}]
        /\ step' = [step EXCEPT ![a] = "inspect"]
        /\ UNCHANGED <<cache, kept, published, faults>>
    BY <1>3 DEF ListEntries, Goto
  <2>2. Present' = Present /\ Present \subseteq {k \in Keys : cache[k] # Absent}
    BY <2>1 DEF Present, Absent, Entries
  <2>3. Covers(a)'
    BY <2>1, <2>2 DEF Covers, TypeOK
  <2> QED
    BY <2>1, <2>3 DEF RetentionInv
<1>4. ASSUME NEW a \in Analyzers, InspectEntry(a) PROVE RetentionInv'
  <2>1. UNCHANGED <<cache, published, faults>> /\ step[a] = "inspect" /\ Present' = Present
    BY <1>4 DEF InspectEntry, Present
  <2>2. WithinBudget(Present)' <=> WithinBudget(Present)
    BY <2>1 DEF WithinBudget, Records
  <2>3. CASE names[a] = {} /\ Goto(a, "prune") /\ UNCHANGED <<names, kept>>
    <3>1. \A b \in Analyzers : Covers(b) => Covers(b)'
      BY <2>1, <2>3 DEF Covers, Counts, Goto, TypeOK
    <3> QED
      BY <2>1, <2>2, <2>3, <3>1 DEF RetentionInv
  <2>4. CASE ~(names[a] = {} /\ Goto(a, "prune") /\ UNCHANGED <<names, kept>>)
    <3>1. PICK k \in names[a] :
            /\ names' = [names EXCEPT ![a] = @ \ {k}]
            /\ kept' = IF Counted(k)
                       THEN [kept EXCEPT ![a] = @ \cup {[key |-> k, modified |-> cache[k].modified]}]
                       ELSE kept
            /\ UNCHANGED step
      BY <1>4, <2>4 DEF InspectEntry
    <3> DEFINE e == [key |-> k, modified |-> cache[k].modified]
    <3>2. CASE Counted(k)
      <4>1. kept' = [kept EXCEPT ![a] = kept[a] \cup {e}]
        BY <3>1, <3>2
      <4>2. e.key = k
        OBVIOUS
      <4> HIDE DEF e
      <4>3. IsFiniteSet(kept[a] \cup {e})
        BY FS_AddElement DEF RetentionInv
      <4>4. \A b \in Analyzers : IsFiniteSet(kept'[b])
        BY <4>1, <4>3 DEF RetentionInv, TypeOK
      <4>5. Counts(a)' = Counts(a) \cup {k} /\ names'[a] = names[a] \ {k}
        BY <3>1, <4>1, <4>2 DEF Counts, TypeOK
      <4>6. Covers(a) => Covers(a)'
        BY <2>1, <3>1, <4>5 DEF Covers
      <4>7. \A b \in Analyzers \ {a} : Covers(b) => Covers(b)'
        BY <2>1, <3>1, <4>1 DEF Covers, Counts, TypeOK
      <4> QED
        BY <2>1, <2>2, <4>4, <4>6, <4>7 DEF RetentionInv
    <3>3. CASE ~Counted(k)
      <4>1. kept' = kept /\ k \notin Present
        BY <3>1, <3>3 DEF Counted, Present
      <4>2. \A b \in Analyzers : Covers(b) => Covers(b)'
        BY <2>1, <3>1, <4>1 DEF Covers, Counts, TypeOK
      <4> QED
        BY <2>1, <2>2, <4>1, <4>2 DEF RetentionInv
    <3> QED
      BY <3>2, <3>3
  <2> QED
    BY <2>3, <2>4
<1>5. ASSUME NEW a \in Analyzers, Prune(a) PROVE RetentionInv'
  <2>1. UNCHANGED <<names, published, faults>> /\ step[a] = "prune"
    BY <1>5 DEF Prune
  <2>a. Present \in SUBSET Keys
    BY DEF Present
  <2>b. WithinBudget(Present)' <=> WithinBudget(Present')
    BY DEF WithinBudget, Records
  <2>2. CASE /\ ~OverBudget(kept[a]) \/ \A e \in kept[a] : e.key = Key(a)
             /\ Goto(a, "done")
             /\ kept' = [kept EXCEPT ![a] = {}]
             /\ UNCHANGED cache
    <3>1. Present' = Present
      BY <2>2 DEF Present
    <3>2. \A b \in Analyzers : IsFiniteSet(kept'[b])
      BY <2>2, FS_EmptySet DEF RetentionInv, TypeOK
    <3>3. \A b \in Analyzers \ {a} : Covers(b) => Covers(b)'
      BY <2>1, <2>2, <3>1 DEF Covers, Counts, Goto, TypeOK
    <3>4. ASSUME Covers(a) PROVE WithinBudget(Present)
      <4>1. \A k \in Present : \E e \in kept[a] : e.key = k
        BY <2>1, <3>4 DEF Covers, Counts
      <4>2. CASE ~OverBudget(kept[a])
        <5>1. IsFiniteSet(kept[a]) /\ \A e \in kept[a] : e.key \in Keys
          BY DEF RetentionInv, TypeOK
        <5>2. ~OverBudget(Records(Present))
          BY <2>a, <4>1, <4>2, <5>1, CoveredBudget
        <5> QED
          BY <5>2 DEF WithinBudget
      <4>3. CASE \A e \in kept[a] : e.key = Key(a)
        <5>1. Present \subseteq {Key(a)}
          BY <4>1, <4>3
        <5> QED
          BY <2>a, <5>1, AtMostOne
      <4> QED
        BY <2>2, <4>2, <4>3
    <3>5. WithinBudget(Present)' <=> WithinBudget(Present)
      BY <2>b, <3>1
    <3> QED
      BY <2>1, <3>2, <3>3, <3>4, <3>5 DEF RetentionInv
  <2>3. ASSUME NEW e \in kept[a], cache' = [cache EXCEPT ![e.key] = Absent],
               kept' = [kept EXCEPT ![a] = @ \ {e}], UNCHANGED step
        PROVE  RetentionInv'
    <3>1. e.key \in Keys
      BY DEF TypeOK
    <3>2. Present' = Present \ {e.key}
      BY <2>3, <3>1 DEF Present, TypeOK, Absent, Entries
    <3>3. IsFiniteSet(kept[a] \ {e})
      BY FS_RemoveElement DEF RetentionInv
    <3>4. \A b \in Analyzers : IsFiniteSet(kept'[b])
      BY <2>3, <3>3 DEF RetentionInv, TypeOK
    <3>5. Covers(a) => Covers(a)'
      <4>1. \A k \in Counts(a) \ {e.key} : k \in Counts(a)'
        BY <2>3 DEF Counts, TypeOK
      <4> QED
        BY <2>1, <2>3, <3>2, <4>1 DEF Covers
    <3>6. \A b \in Analyzers \ {a} : Covers(b) => Covers(b)'
      BY <2>1, <2>3, <3>2 DEF Covers, Counts, TypeOK
    <3>7. WithinBudget(Present) => WithinBudget(Present')
      BY <2>a, <3>2, FewerWithin
    <3> QED
      BY <2>1, <2>b, <3>4, <3>5, <3>6, <3>7 DEF RetentionInv
  <2> QED
    BY <1>5, <2>2, <2>3 DEF Prune
<1>6. ASSUME NEW a \in Analyzers, Fail(a) \/ Crash(a) PROVE RetentionInv'
  <2>1. faults' = faults + 1 /\ faults \in Nat /\ kept' = kept
    BY <1>6 DEF Fail, Crash, TypeOK
  <2> QED
    BY <2>1 DEF RetentionInv
<1>7. CASE Tamper
  <2>1. UNCHANGED <<step, names, kept, published, faults>>
    BY <1>7 DEF Tamper
  <2>2. Present' \subseteq Present
    BY <1>7 DEF Tamper, Present, TypeOK, Absent, Damaged, Entries
  <2>3. \A b \in Analyzers : Covers(b) => Covers(b)'
    BY <2>1, <2>2 DEF Covers, Counts
  <2>4. WithinBudget(Present) => WithinBudget(Present')
    BY <2>2, FewerWithin DEF Present
  <2>5. WithinBudget(Present)' <=> WithinBudget(Present')
    BY DEF WithinBudget, Records
  <2> QED
    BY <2>1, <2>3, <2>4, <2>5 DEF RetentionInv
<1>8. ASSUME UNCHANGED <<cache, step, names, kept, published, faults>> PROVE RetentionInv'
  BY <1>8 DEF RetentionInv, Covers, Counts, Present, WithinBudget, Records
<1>9. CASE Edit
  BY <1>8, <1>9 DEF Edit
<1>10. CASE UNCHANGED vars
  BY <1>8, <1>10 DEF vars
<1> QED
  BY <1>1, <1>2, <1>3, <1>4, <1>5, <1>6, <1>7, <1>9, <1>10 DEF Next, Analyzer

\* Once an entry was published and nobody failed, the entries are within both
\* budgets whenever nobody prunes, however the prunings ran side by side and
\* whatever they removed from under each other; and only a killed analyzer
\* leaves a temporary file (BoundedAtRest).
THEOREM RetentionHolds == Spec => []BoundedAtRest
<1>1. RetentionInv /\ LeftInv => BoundedAtRest
  <2>1. \A P : Records(P) = {[key |-> k] : k \in P}
    BY DEF Records
  <2> QED
    BY <2>1 DEF RetentionInv, LeftInv, BoundedAtRest, Bounded, WithinBudget, Covers
<1> QED
  BY TypeCorrect, WriterInit, WriterStep, InitRetention, NextRetention, <1>1, PTL DEF Spec

=============================================================================
