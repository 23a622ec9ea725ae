---------------------------- MODULE StarterPolicy ----------------------------
(***************************************************************************)
(* `otelplan init`: initCommand of src/internal/cli/init.go with the       *)
(* interactive review of init_interactive.go.                              *)
(*                                                                         *)
(* Several processes write one destination.  Nothing is locked: minutes of *)
(* analysis and of questions lie between the look at the destination and   *)
(* the write.  The user answers, or ends the input, cancels a process or   *)
(* edits the destination; an operation may fail, a process may be killed.  *)
(***************************************************************************)
EXTENDS Naturals, Sequences, FiniteSets

CONSTANTS
  Processes,  \* the init processes
  Options,    \* Options[p]: the flags p may be started with
  Rankings,   \* what the analysis may suggest, best first
  MinScore,   \* minStarterScore
  MaxRules,   \* maxStarterRules
  User,       \* a regular file of the user
  Special,    \* a directory, a link: what is not a regular file
  None,       \* no file
  MaxLines,   \* bound: lines the user types for one process
  MaxEvents   \* bound: changes of the destination by the user, processes he
              \* cancels, failed operations and killed processes, together

Flags == [force : BOOLEAN, interactive : BOOLEAN, dryRun : BOOLEAN]

Suggestions == [symbol : STRING, score : Nat]

ASSUME StarterAssumption ==
  /\ Options \in [Processes -> SUBSET Flags]
  /\ \A r \in Rankings : r \in Seq(Suggestions)
  /\ \A r \in Rankings : \A i, j \in DOMAIN r : i < j => r[i].score >= r[j].score
  /\ MinScore \in Nat /\ MaxRules \in Nat
  /\ {User, Special, None} \cap Processes = {}
  /\ Cardinality({User, Special, None}) = 3
  /\ MaxLines \in Nat /\ MaxEvents \in Nat

Words  == {"yes", "no", "other"}   \* an empty line means no
Lines  == Words \cup {"eof", "error"}
Steps  == {"inspect", "analyse", "ask", "wait", "finish", "create", "write", "sync",
           "close", "rename", "clean", "end", "crashed"}
Answers == {"pending", "refused", "unanalysed", "cancelled", "ended", "failed",
            "nothing", "invalid", "previewed", "written"}

VARIABLES
  flags,      \* process -> the flags it was started with
  step,       \* process -> what it does next
  answer,     \* process -> what it reports
  ranked,     \* process -> its candidates
  at,         \* process -> candidates it has decided
  selected,   \* process -> the candidates accepted
  reading,    \* processes whose goroutine is inside ReadString
  response,   \* process -> the lines in its response channel, at most one
  dest,       \* the file at the destination: of a process, of the user, none
  whole,      \* process -> its file has all of the policy
  temporary,  \* processes whose .otelplan-init-*.tmp exists
  typed,      \* process -> the lines read from its input so far
  cancelled,  \* processes whose context is cancelled
  events      \* what happened of all that MaxEvents bounds

\* History, for the properties only.
VARIABLES
  unremoved,  \* processes whose cleanup failed
  unheard     \* processes cancelled before their last look at the context

review == <<ranked, at, selected, reading, response>>
disk   == <<dest, whole, temporary>>
world  == <<typed, cancelled>>
vars   == <<flags, step, answer, review, disk, world, events, unremoved, unheard>>

Init ==
  /\ flags \in {f \in [Processes -> Flags] : \A p \in Processes : f[p] \in Options[p]}
  /\ step = [p \in Processes |-> "inspect"]
  /\ answer = [p \in Processes |-> "pending"]
  /\ ranked = [p \in Processes |-> <<>>]
  /\ at = [p \in Processes |-> 0]
  /\ selected = [p \in Processes |-> <<>>]
  /\ reading = {}
  /\ response = [p \in Processes |-> <<>>]
  /\ dest \in {None, User}
  /\ whole = [p \in Processes |-> FALSE]
  /\ temporary = {}
  /\ typed = [p \in Processes |-> <<>>]
  /\ cancelled = {}
  /\ events = 0
  /\ unremoved = {}
  /\ unheard = {}

-----------------------------------------------------------------------------
Goto(p, s) == step' = [step EXCEPT ![p] = s]

\* The command returns: s is "end", or "clean" where a deferred removal runs.
Report(p, a, s) == /\ Goto(p, s)
                   /\ answer' = [answer EXCEPT ![p] = a]

Continue(p, s) == Goto(p, s) /\ UNCHANGED answer

Happens == /\ events < MaxEvents
           /\ events' = events + 1

Fault == Happens

Refused(condition) == (condition /\ UNCHANGED events) \/ Fault

-----------------------------------------------------------------------------
(* Before the review.                                                      *)

\* checkStarterDestination lets the command go on.
Acceptable(p) == dest = None \/ (dest # Special /\ flags[p].force)

\* Lstat of the destination; a dry run also opens the directory.
Inspect(p) ==
  /\ step[p] = "inspect"
  /\ \/ /\ Acceptable(p)
        /\ Continue(p, "analyse")
        /\ UNCHANGED events
     \/ /\ Refused(~Acceptable(p))
        /\ Report(p, "refused", "end")
  /\ UNCHANGED <<flags, review, disk, world, unremoved, unheard>>

\* starterCandidates: the best ones, up to a number.
Candidates(r) ==
  SubSeq(r, 1, Cardinality({i \in DOMAIN r : r[i].score >= MinScore /\ i <= MaxRules}))

\* An analysis begun under a cancelled context fails, as does one of a
\* project that cannot be analysed.
Analyse(p) ==
  /\ step[p] = "analyse"
  /\ \/ /\ p \notin cancelled
        /\ \E r \in Rankings :
             /\ ranked' = [ranked EXCEPT ![p] = Candidates(r)]
             /\ IF flags[p].interactive
                THEN selected' = selected /\ Continue(p, "ask")
                ELSE selected' = [selected EXCEPT ![p] = Candidates(r)] /\ Continue(p, "finish")
     \/ /\ Report(p, "unanalysed", "end")
        /\ UNCHANGED <<ranked, selected>>
  /\ UNCHANGED <<flags, at, reading, response, disk, world, events, unremoved, unheard>>

-----------------------------------------------------------------------------
(* reviewStarterCandidates, askForStarterCandidate, readStarterAnswer.     *)

\* The prompt is written; a goroutine starts to read one line.
Ask(p) ==
  /\ step[p] = "ask"
  /\ at[p] < Len(ranked[p])
  /\ \/ /\ p \notin cancelled
        /\ reading' = reading \cup {p}
        /\ response' = [response EXCEPT ![p] = <<>>]   \* a new channel
        /\ Continue(p, "wait")
        /\ UNCHANGED events
     \/ /\ p \in cancelled
        /\ Report(p, "cancelled", "end")
        /\ UNCHANGED <<reading, response, events>>
     \/ /\ Fault
        /\ Report(p, "failed", "end")
        /\ UNCHANGED <<reading, response>>
  /\ UNCHANGED <<flags, ranked, at, selected, disk, world, unremoved, unheard>>

\* Every candidate has its answer.
Reviewed(p) ==
  /\ step[p] = "ask"
  /\ at[p] = Len(ranked[p])
  /\ Continue(p, "finish")
  /\ UNCHANGED <<flags, review, disk, world, events, unremoved, unheard>>

\* Mutant: a reader per question, whose buffer swallows the line after.
ReadAhead(p) ==
  /\ p \in reading
  /\ reading' = reading \ {p}
  /\ \E w, next \in Words :
       /\ typed' = [typed EXCEPT ![p] = @ \o <<w, next>>]
       /\ response' = [response EXCEPT ![p] = <<w>>]
  /\ UNCHANGED <<flags, step, answer, ranked, at, selected, disk, cancelled, events, unremoved, unheard>>

\* The goroutine: ReadString returns the next line the user typed (the last
\* one may lack its end), or the end of the input, or an error.  Nobody waits
\* for it once its question was cancelled.
ReadLine(p) ==
  /\ p \in reading
  /\ reading' = reading \ {p}
  /\ \/ /\ Len(typed[p]) < MaxLines
        /\ \E w \in Words : /\ typed' = [typed EXCEPT ![p] = Append(@, w)]
                            /\ response' = [response EXCEPT ![p] = <<w>>]
     \/ \E e \in {"eof", "error"} : /\ response' = [response EXCEPT ![p] = <<e>>]
                                    /\ UNCHANGED typed
  /\ UNCHANGED <<flags, step, answer, ranked, at, selected, disk, cancelled, events, unremoved, unheard>>

\* Mutant: the command waits for the answer only.
HearNothing(p) == FALSE /\ UNCHANGED vars

\* The select takes ctx.Done().
HearCancel(p) ==
  /\ step[p] = "wait"
  /\ p \in cancelled
  /\ Report(p, "cancelled", "end")
  /\ UNCHANGED <<flags, review, disk, world, events, unremoved, unheard>>

Decide(p, accepted) ==
  /\ at' = [at EXCEPT ![p] = @ + 1]
  /\ selected' = [selected EXCEPT
       ![p] = IF accepted THEN Append(@, ranked[p][at[p] + 1]) ELSE @]
  /\ Continue(p, "ask")

\* The select takes the response: what the line says.
HearAnswer(p) ==
  /\ step[p] = "wait"
  /\ response[p] # <<>>
  /\ LET line == Head(response[p]) IN
     \/ p \in cancelled /\ Report(p, "cancelled", "end") /\ UNCHANGED <<at, selected>>
     \/ /\ p \notin cancelled
        /\ \/ line = "eof" /\ Report(p, "ended", "end") /\ UNCHANGED <<at, selected>>
           \/ line = "error" /\ Report(p, "failed", "end") /\ UNCHANGED <<at, selected>>
           \/ line \in {"yes", "no"} /\ Decide(p, line = "yes")
           \/ line = "other" /\ Continue(p, "ask") /\ UNCHANGED <<at, selected>>
  /\ response' = [response EXCEPT ![p] = <<>>]
  /\ UNCHANGED <<flags, ranked, reading, disk, world, events, unremoved, unheard>>

-----------------------------------------------------------------------------
(* finishStarterPolicy and writeStarterPolicy.                             *)

\* The selection becomes a policy that has to resolve to its targets.
Finish(p) ==
  /\ step[p] = "finish"
  /\ \/ selected[p] = <<>> /\ Report(p, "nothing", "end")
     \/ selected[p] # <<>> /\ Report(p, "invalid", "end")
     \/ selected[p] # <<>> /\ p \in cancelled /\ Report(p, "cancelled", "end")
     \/ /\ selected[p] # <<>>
        /\ p \notin cancelled
        /\ IF flags[p].dryRun THEN Report(p, "previewed", "end") ELSE Continue(p, "create")
  /\ UNCHANGED <<flags, review, disk, world, events, unremoved, unheard>>

\* Mutant: the file is created or truncated.
CreateOver(p) ==
  /\ step[p] = "create"
  /\ ~flags[p].force
  /\ dest # Special
  /\ dest' = p
  /\ Continue(p, "write")
  /\ UNCHANGED <<flags, review, whole, temporary, world, events, unremoved, unheard>>

\* writeNewStarterPolicy: O_EXCL, the file is written in place.
CreateNew(p) ==
  /\ step[p] = "create"
  /\ ~flags[p].force
  /\ \/ /\ dest = None
        /\ dest' = p
        /\ Continue(p, "write")
        /\ UNCHANGED events
     \/ /\ Refused(dest # None)
        /\ Report(p, "failed", "end")
        /\ UNCHANGED dest
  /\ UNCHANGED <<flags, review, whole, temporary, world, unremoved, unheard>>

\* replaceStarterPolicy: a temporary file next to the destination.
CreateTemporary(p) ==
  /\ step[p] = "create"
  /\ flags[p].force
  /\ \/ /\ temporary' = temporary \cup {p}
        /\ Continue(p, "write")
        /\ UNCHANGED events
     \/ /\ Fault
        /\ Report(p, "failed", "end")
        /\ UNCHANGED temporary
  /\ UNCHANGED <<flags, review, dest, whole, world, unremoved, unheard>>

\* The open file is written, wherever its name is by now.
Write(p) ==
  /\ step[p] = "write"
  /\ \/ /\ whole' = [whole EXCEPT ![p] = TRUE]
        /\ Continue(p, IF flags[p].force THEN "sync" ELSE "close")
        /\ UNCHANGED events
     \/ /\ Fault
        /\ Report(p, "failed", "clean")
        /\ UNCHANGED whole
  /\ UNCHANGED <<flags, review, dest, temporary, world, unremoved, unheard>>

Sync(p) ==
  /\ step[p] = "sync"
  /\ \/ Continue(p, "close") /\ UNCHANGED events
     \/ Fault /\ Report(p, "failed", "clean")
  /\ UNCHANGED <<flags, review, disk, world, unremoved, unheard>>

\* A new file is complete; a replacement has to be renamed.
Close(p) ==
  /\ step[p] = "close"
  /\ \/ /\ IF flags[p].force THEN Continue(p, "rename") ELSE Report(p, "written", "end")
        /\ UNCHANGED events
     \/ Fault /\ Report(p, "failed", "clean")
  /\ UNCHANGED <<flags, review, disk, world, unremoved, unheard>>

\* The name may have been given to anything since it was looked at: a link
\* is replaced as a file is, a directory makes the rename fail.
Rename(p) ==
  /\ step[p] = "rename"
  /\ \/ /\ dest' = p
        /\ temporary' = temporary \ {p}
        /\ Report(p, "written", "clean")
        /\ UNCHANGED events
     \/ /\ Refused(dest = Special)
        /\ Report(p, "failed", "clean")
        /\ UNCHANGED <<dest, temporary>>
  /\ UNCHANGED <<flags, review, whole, world, unremoved, unheard>>

\* Mutant: the failed file stays.
KeepFile(p) ==
  /\ step[p] = "clean"
  /\ Continue(p, "end")
  /\ UNCHANGED <<flags, review, disk, world, events, unremoved, unheard>>

\* The deferred removals.  A creator removes the name, whatever has it now;
\* a replacer its temporary file, after the rename a name that is gone.
Clean(p) ==
  /\ step[p] = "clean"
  /\ Continue(p, "end")
  /\ \/ /\ dest' = IF flags[p].force THEN dest ELSE None
        /\ temporary' = temporary \ {p}
        /\ UNCHANGED <<events, unremoved>>
     \/ /\ ~flags[p].force \/ p \in temporary
        /\ Refused(~flags[p].force /\ dest = Special)
        /\ unremoved' = unremoved \cup {p}
        /\ UNCHANGED <<dest, temporary>>
  /\ UNCHANGED <<flags, review, whole, world, unheard>>

-----------------------------------------------------------------------------
(* Processes are killed; the user cancels and edits.                       *)

Ended(p) == step[p] \in {"end", "crashed"}

Crash(p) ==
  /\ ~Ended(p)
  /\ Fault
  /\ Continue(p, "crashed")
  /\ reading' = reading \ {p}
  /\ UNCHANGED <<flags, ranked, at, selected, response, disk, world, unremoved, unheard>>

Cancel(p) ==
  /\ ~Ended(p)
  /\ p \notin cancelled
  /\ Happens
  /\ cancelled' = cancelled \cup {p}
  /\ unheard' = IF step[p] \in {"inspect", "analyse", "ask", "wait", "finish"}
                THEN unheard \cup {p} ELSE unheard
  /\ UNCHANGED <<flags, step, answer, review, disk, typed, unremoved>>

Edit ==
  /\ Happens
  /\ dest' \in {User, Special, None}
  /\ UNCHANGED <<flags, step, answer, review, whole, temporary, world, unremoved, unheard>>

-----------------------------------------------------------------------------
Run(p) ==
  \/ Inspect(p) \/ Analyse(p) \/ Ask(p) \/ Reviewed(p)
  \/ HearCancel(p) \/ HearAnswer(p) \/ Finish(p)
  \/ CreateNew(p) \/ CreateTemporary(p) \/ Write(p) \/ Sync(p) \/ Close(p)
  \/ Rename(p) \/ Clean(p)

Outside(p) == ReadLine(p) \/ Cancel(p) \/ Crash(p)

Next == Edit \/ \E p \in Processes : Run(p) \/ Outside(p)

Spec == Init /\ [][Next]_vars

\* A process that can take a step takes one; a line need never come.
LiveSpec == Spec /\ \A p \in Processes : WF_vars(Run(p))

-----------------------------------------------------------------------------
(* Properties.                                                             *)

\* Every variable has its type.
TypeOK ==
  /\ flags \in [Processes -> Flags]
  /\ step \in [Processes -> Steps]
  /\ answer \in [Processes -> Answers]
  /\ ranked \in [Processes -> Seq(Suggestions)]
  /\ at \in [Processes -> Nat]
  /\ selected \in [Processes -> Seq(Suggestions)]
  /\ reading \subseteq Processes
  /\ response \in [Processes -> Seq(Lines)]
  /\ dest \in Processes \cup {User, Special, None}
  /\ whole \in [Processes -> BOOLEAN]
  /\ temporary \subseteq Processes
  /\ typed \in [Processes -> Seq(Words)]
  /\ cancelled \subseteq Processes
  /\ events \in 0..MaxEvents
  /\ unremoved \subseteq Processes /\ unheard \subseteq Processes

\* Where the lines that decide a candidate are.
Deciding(lines) == {i \in DOMAIN lines : lines[i] # "other"}

\* The place of i in a set of numbers, from the least on.
Place(i, S) == Cardinality({j \in S : j <= i})

\* The lines that accept one of the first n candidates.
Accepting(lines, n) ==
  {i \in Deciding(lines) : lines[i] = "yes" /\ Place(i, Deciding(lines)) <= n}

\* What was chosen is what the lines accept of the first n candidates: the
\* i-th decision is about the i-th of them.
Honours(lines, n, candidates, chosen) ==
  LET accepting == Accepting(lines, n) IN
  /\ n <= Cardinality(Deciding(lines))
  /\ Len(chosen) = Cardinality(accepting)
  /\ \A i \in accepting : chosen[Place(i, accepting)] = candidates[Place(i, Deciding(lines))]

\* The n-th decision of a review is the n-th one the user typed: no line is
\* lost between two questions, none answers two of them.
AnswersHonoured(p) ==
  /\ Len(ranked[p]) <= MaxRules
  /\ flags[p].interactive => Honours(typed[p], at[p], ranked[p], selected[p])

\* A file of p exists only if p was to write one and was told what.
Told(p) ==
  dest = p \/ p \in temporary =>
    /\ ~flags[p].dryRun
    /\ p \notin unheard
    /\ selected[p] # <<>>
    /\ flags[p].interactive => at[p] = Len(ranked[p])

\* A file of an init exists only if every candidate was decided, by the
\* answers in their order, and one was accepted; it was no dry run, and not
\* cancelled while it could still hear it (docs/CLI.md: "declining all or
\* losing input/cancellation leaves no new policy").
OnlyConsented == \A p \in Processes : AnswersHonoured(p) /\ Told(p)

\* The destination holds part of a policy only while, or because, a process
\* without --force writes it in place: it still writes, was killed, or could
\* not remove what it failed to write.  With --force a policy is whole.  An
\* init that has returned left its policy only if it says so, and no temporary
\* file, unless its cleanup failed.
PolicyWhole ==
  \A p \in Processes :
    /\ dest = p /\ ~whole[p] =>
         /\ ~flags[p].force
         /\ step[p] \in {"write", "clean", "crashed"} \/ p \in unremoved
    /\ step[p] = "end" /\ p \notin unremoved =>
         /\ dest = p => answer[p] = "written" /\ whole[p]
         /\ p \notin temporary

\* Without --force an init never takes the place of a file that is not its
\* own, though minutes pass between its look at the destination and its
\* write.  One exception, which the code has: the deferred removal after a
\* failed write goes by name, and removes what has replaced the file since.
UnforcedKeepsOthers ==
  [][\A p \in Processes :
       step[p] # step'[p] /\ ~flags[p].force /\ dest' # dest =>
         \/ dest = None /\ dest' = p
         \/ step[p] = "clean" /\ answer[p] = "failed" /\ dest' = None]_vars

\* A cancelled init returns, even while it waits for an answer that never
\* comes (select of readStarterAnswer), and so does one that asks nothing.
CancelEnds ==
  \A p \in Processes : (p \in cancelled \/ ~flags[p].interactive) ~> Ended(p)

=============================================================================
