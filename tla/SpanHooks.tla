------------------------------- MODULE SpanHooks -------------------------------
(***************************************************************************)
(* The instrumented program at run time: the lifecycle hooks RenderHooks   *)
(* generates (src/internal/backend/otelc/hooks.go, error_recording.go,     *)
(* stringer.go) around the functions the plan selects.                     *)
(*                                                                         *)
(* Goroutines call functions; a before hook starts a span from the context *)
(* the caller passed and replaces it, a deferred after hook records errors *)
(* and ends the span when the function returns, panics or exits.  The      *)
(* hooks run application code themselves: String and Error methods, which  *)
(* may call instrumented functions again or panic.                         *)
(***************************************************************************)
EXTENDS Naturals, Sequences, FiniteSets

CONSTANTS
  Goroutines, Main, \* goroutines, and the one the program starts with
  Functions,        \* functions of the application
  Targets(_),       \* Targets(fn): what a plan may say of function fn
  Results,          \* indexes of error results
  Failures,         \* bound: the sets of non-nil errors a call may end with
  MaxCalls          \* bound: calls of functions in a run

Target ==
  [selected  : BOOLEAN,                \* instrumented at all
   context   : {"argument", "root"},   \* ContextStrategy
   generic   : BOOLEAN,                \* has type parameters
   shadowed  : BOOLEAN,                \* its package redefines recover
   errors    : Seq(Results),           \* ErrorStrategy.Indexes
   arguments : Nat,                    \* Stringer attributes of arguments
   results   : Nat]                    \* Stringer attributes of results

ASSUME HooksAssumption ==
  /\ Main \in Goroutines
  /\ Functions # {} /\ "formatter" \notin Functions
  /\ \A fn \in Functions : Targets(fn) \subseteq Target
  /\ IsFiniteSet(Results) /\ Failures \subseteq SUBSET Results
  /\ MaxCalls \in Nat \ {0}

VARIABLES
  plan,     \* function -> target, as rendered into hooks
  stack,    \* goroutine -> frames, the innermost last
  spans,    \* the spans started so far
  called,   \* number of calls of functions
  crashed,  \* a panic left a goroutine
  printed   \* the trampoline reported a failed hook

vars == <<plan, stack, spans, called, crashed, printed>>

-----------------------------------------------------------------------------
(* What RenderHooks accepts, and what the trampolines cannot run.          *)

\* Mutant: the context of a generic target is replaced like any other.
RenderableGeneric(t) ==
  t.selected =>
    ~t.shadowed /\ \A i, j \in DOMAIN t.errors : t.errors[i] = t.errors[j] => i = j

\* Check and newHookRenderer, as far as a hook could fail for it at run time.  That
\* the code also refuses targets in package main or without a body, some variadic
\* parameters and indexes that do not fit the signature only makes plans fewer.
Renderable(t) ==
  t.selected =>
    /\ ~t.shadowed
    /\ t.generic => t.context = "root"
    /\ \A i, j \in DOMAIN t.errors : t.errors[i] = t.errors[j] => i = j

\* The pinned trampoline calls recover by name, and the parameter API of a generic
\* target panics.
Disturbed(t) == t.shadowed \/ (t.generic /\ t.context = "argument")

-----------------------------------------------------------------------------
(* Contexts and frames.  Span 0 is no span.                                *)

Values     == {"nil", "background", "request"}
Context    == {c \in [value : Values, span : Nat] : c.value = "nil" => c.span = 0}
NilContext == [value |-> "nil", span |-> 0]
Background == [value |-> "background", span |-> 0]
Request    == [value |-> "request", span |-> 0]

Outcomes == {"none", "return", "panic", "exit"}
Nothing  == [outcome |-> "none", failed |-> {}]
Item     == [kind : {"text"}, index : {0}] \cup [kind : {"error"}, index : Results]
Text     == [kind |-> "text", index |-> 0]

\* What a span has recorded; only its own call writes to it.
Record ==
  [recording : BOOLEAN, failed : BOOLEAN, exceptions : Nat]  \* exceptions: events
Blank(recording) == [recording |-> recording, failed |-> FALSE, exceptions |-> 0]

\* The phases of a call: entry -> before -> body -> leaving -> after -> left.
Frame ==
  [fn      : Functions \cup {"formatter"},
   phase   : {"entry", "before", "body", "leaving", "after", "left"},
   context : Context,      \* the context parameter
   data    : Nat,          \* the span kept with HookContext.SetData
   span    : Nat,          \* the span the after hook took from there
   record  : Record,       \* of that span
   todo    : Seq(Item),    \* values the running hook still has to record
   outcome : Outcomes,     \* how the body ended
   failed  : SUBSET Results,                               \* its non-nil errors
   heard   : [outcome : Outcomes, failed : SUBSET Results],\* of its last call
   trail   : Nat]          \* history: the span of the caller whose context this is

Span ==
  [parent : Nat,
   owner  : Goroutines \X Nat,  \* history: where the call's frame is
   ended  : BOOLEAN]

Selected(fn) == fn \in Functions /\ plan[fn].selected
Chained(fn)  == Selected(fn) /\ plan[fn].context = "argument"
Own(f)       == IF f.data # 0 THEN f.data ELSE f.span

NewFrame(fn, c, trail) ==
  [fn |-> fn, phase |-> IF Selected(fn) THEN "entry" ELSE "body", context |-> c,
   data |-> 0, span |-> 0, record |-> Blank(FALSE), todo |-> <<>>,
   outcome |-> "none", failed |-> {}, heard |-> Nothing, trail |-> trail]

Top(g)       == stack[g][Len(stack[g])]
At(g, phase) == ~crashed /\ stack[g] # <<>> /\ Top(g).phase = phase
WithTop(g, f) == [stack EXCEPT ![g][Len(stack[g])] = f]
Formatting(g) == \E i \in DOMAIN stack[g] : stack[g][i].fn = "formatter"

-----------------------------------------------------------------------------
Plans == {p \in [Functions -> UNION {Targets(fn) : fn \in Functions}] :
            \A fn \in Functions : p[fn] \in Targets(fn) /\ Renderable(p[fn])}

Init ==
  /\ plan \in Plans
  /\ \E fn \in Functions :
       stack = [g \in Goroutines |-> IF g = Main THEN <<NewFrame(fn, Request, 0)>> ELSE <<>>]
  /\ spans = <<>>
  /\ called = 1
  /\ crashed = FALSE
  /\ printed = FALSE

\* The application calls a function, or starts goroutine h with it.  Its context is
\* that of the caller, which goes with the caller's trail, or a fresh one.
Trail(f) == IF Chained(f.fn) THEN Own(f) ELSE f.trail

Call(g, h) ==
  /\ At(g, "body")
  /\ h = g \/ (stack[h] = <<>> /\ ~Formatting(g))
  /\ called < MaxCalls
  /\ \E fn \in Functions, c \in {Top(g).context, Background, NilContext} :
       stack' = [stack EXCEPT ![h] = Append(@,
                   NewFrame(fn, c, IF c = Top(g).context THEN Trail(Top(g)) ELSE 0))]
  /\ called' = called + 1
  /\ UNCHANGED <<plan, spans, crashed, printed>>

\* Mutant: no context.Background for nil.
StartContextAsIs(t, c) == IF t.context = "argument" THEN c ELSE Background

\* Before hook: the context to start from, and the one it leaves to the body.
StartContext(t, c) ==
  IF t.context = "argument" /\ c.value # "nil" THEN c ELSE Background

\* Mutant: SetParam hands on ctx instead of child.
BodyContextParent(t, c, s) == IF t.context = "argument" THEN StartContext(t, c) ELSE c

BodyContext(t, c, s) ==
  IF t.context = "argument" THEN [StartContext(t, c) EXCEPT !.span = s] ELSE c

StartSpan(g) ==
  /\ At(g, "entry")
  /\ LET f == Top(g)
         t == plan[f.fn]
         s == Len(spans) + 1
     IN  IF Disturbed(t)
         THEN /\ stack' = WithTop(g, [f EXCEPT !.phase = "body"])
              /\ printed' = TRUE
              /\ UNCHANGED spans
         ELSE /\ spans' = Append(spans, [parent |-> StartContext(t, f.context).span,
                                         owner |-> <<g, Len(stack[g])>>, ended |-> FALSE])
              /\ \E recording \in BOOLEAN :
                   stack' = WithTop(g, [f EXCEPT !.phase = "before", !.data = s,
                                                 !.record = Blank(recording),
                                                 !.context = BodyContext(t, f.context, s),
                                                 !.todo = [i \in 1..t.arguments |-> Text]])
              /\ UNCHANGED printed
  /\ UNCHANGED <<plan, called, crashed>>

\* A value is recorded only while the span records, an error only if it is not nil.
Needs(f, item) ==
  f.record.recording /\ (item.kind = "error" => item.index \in f.failed)

HookRuns(g) == (At(g, "before") \/ At(g, "after")) /\ Top(g).todo # <<>>

Skip(g) ==
  /\ HookRuns(g)
  /\ ~Needs(Top(g), Head(Top(g).todo))
  /\ stack' = WithTop(g, [Top(g) EXCEPT !.todo = Tail(@)])
  /\ UNCHANGED <<plan, spans, called, crashed, printed>>

\* The error status is set first; then the value's String or Error method runs.
Format(g) ==
  /\ HookRuns(g)
  /\ Needs(Top(g), Head(Top(g).todo))
  /\ LET error == Head(Top(g).todo).kind = "error"
         f     == [Top(g) EXCEPT !.record.failed = @ \/ error]
     IN  stack' = [stack EXCEPT ![g] =
                     Append([@ EXCEPT ![Len(@)] = f], NewFrame("formatter", Background, 0))]
  /\ UNCHANGED <<plan, spans, called, crashed, printed>>

\* Mutants: a formatting panic leaves no event; is tried again; the guard also recovers
\* the panic of the body.
GuardedSilently(f, outcome) ==
  [f EXCEPT !.todo = Tail(@),
            !.record.exceptions = @ + IF outcome # "panic" /\ Head(f.todo).kind = "error"
                                      THEN 1 ELSE 0]
GuardedAgain(f, outcome) ==
  [GuardedSilently(f, outcome) EXCEPT !.todo = IF outcome = "panic" THEN f.todo ELSE @]
GuardedAll(f, outcome) ==
  [f EXCEPT !.todo = Tail(@), !.outcome = IF @ = "panic" THEN "return" ELSE @]

\* The guard around it: with an error, an exception event is added whether the method
\* returned or panicked; a panic stops here and leaves everything else as it is.
Guarded(f, outcome) ==
  [f EXCEPT !.todo = Tail(@),
            !.record.exceptions = @ + IF Head(f.todo).kind = "error" THEN 1 ELSE 0]

Guard(g) ==
  /\ At(g, "left") /\ Top(g).fn = "formatter"
  /\ LET n == Len(stack[g]) - 1
         f == Guarded(stack[g][n], Top(g).outcome)
     IN  stack' = [stack EXCEPT ![g] = [SubSeq(@, 1, n) EXCEPT ![n] = f]]
  /\ UNCHANGED <<plan, spans, called, crashed, printed>>

EnterBody(g) ==
  /\ At(g, "before") /\ Top(g).todo = <<>>
  /\ stack' = WithTop(g, [Top(g) EXCEPT !.phase = "body"])
  /\ UNCHANGED <<plan, spans, called, crashed, printed>>

\* The body ends.  An exit (runtime.Goexit) is left out inside String and Error methods.
Left(f, outcome, failed) ==
  [f EXCEPT !.phase = IF Selected(f.fn) THEN "leaving" ELSE "left",
            !.outcome = outcome, !.heard = Nothing,
            !.failed = IF f.fn = "formatter" THEN {} ELSE failed]

Leave(g) ==
  /\ At(g, "body")
  /\ \E outcome \in {"return", "panic", "exit"}, failed \in Failures :
       /\ Formatting(g) => outcome # "exit"
       /\ stack' = WithTop(g, Left(Top(g), outcome, failed))
  /\ UNCHANGED <<plan, spans, called, crashed, printed>>

\* Mutant: the after hook is not deferred.
KeptOnReturn(f) == IF f.outcome = "return" THEN f.data ELSE 0

\* After hook: without a span it does nothing; otherwise it takes the span and
\* has errors and results to record.
Kept(f) == f.data

AfterItems(t) ==
  [i \in DOMAIN t.errors |-> [kind |-> "error", index |-> t.errors[i]]]
    \o [i \in 1..t.results |-> Text]

TakeSpan(g) ==
  /\ At(g, "leaving")
  /\ LET f == Top(g)
     IN  stack' = WithTop(g,
           IF Kept(f) = 0
           THEN [f EXCEPT !.phase = "left"]
           ELSE [f EXCEPT !.phase = "after", !.span = Kept(f), !.data = 0,
                          !.todo = AfterItems(plan[f.fn])])
  /\ UNCHANGED <<plan, spans, called, crashed, printed>>

\* The deferred End.
EndSpan(g) ==
  /\ At(g, "after") /\ Top(g).todo = <<>>
  /\ spans' = [spans EXCEPT ![Top(g).span].ended = TRUE]
  /\ stack' = WithTop(g, [Top(g) EXCEPT !.phase = "left"])
  /\ UNCHANGED <<plan, called, crashed, printed>>

\* What happens in the calling function: a panic may be recovered there, or ends that
\* function too, as an exit always does.
Ends(outcome) ==
  CASE outcome = "return" -> {"none"}
    [] outcome = "panic"  -> {"none", "panic"}
    [] OTHER              -> {"exit"}

Deliver(g) ==
  /\ At(g, "left") /\ Len(stack[g]) > 1 /\ Top(g).fn # "formatter"
  /\ LET n == Len(stack[g]) - 1
         f == [stack[g][n] EXCEPT !.heard = [outcome |-> Top(g).outcome, failed |-> Top(g).failed]]
     IN  \E outcome \in Ends(Top(g).outcome), failed \in Failures :
           stack' = [stack EXCEPT ![g] = [SubSeq(@, 1, n) EXCEPT ![n] =
                          IF outcome = "none" THEN f ELSE Left(f, outcome, failed)]]
  /\ UNCHANGED <<plan, spans, called, crashed, printed>>

Finish(g) ==
  /\ At(g, "left") /\ Len(stack[g]) = 1
  /\ stack' = [stack EXCEPT ![g] = <<>>]
  /\ crashed' = (Top(g).outcome = "panic")
  /\ UNCHANGED <<plan, spans, called, printed>>

Hook(g) ==
  StartSpan(g) \/ Skip(g) \/ Format(g) \/ Guard(g) \/ EnterBody(g) \/ TakeSpan(g) \/ EndSpan(g)

Next ==
  \E g \in Goroutines :
    \/ \E h \in Goroutines : Call(g, h)
    \/ Leave(g)
    \/ Deliver(g)
    \/ Finish(g)
    \/ Hook(g)

\* The hooks run; a function that a String or Error method calls, and the method
\* itself, come to an end (docs/04_POLICY_SPEC.md asks for bounded methods).
Fairness ==
  \A g \in Goroutines :
    /\ WF_vars(Hook(g))
    /\ WF_vars(Formatting(g) /\ (Leave(g) \/ Deliver(g)))

Spec     == Init /\ [][Next]_vars
FairSpec == Spec /\ Fairness

-----------------------------------------------------------------------------
(* Properties.                                                             *)

\* Type correctness; a nil context never carries a span, so Tracer.Start never
\* receives one.
TypeOK ==
  /\ plan \in Plans
  /\ stack \in [Goroutines -> Seq(Frame)]
  /\ spans \in Seq(Span)
  /\ called \in 0..MaxCalls
  /\ crashed \in BOOLEAN /\ printed \in BOOLEAN

\* Every span that is not ended belongs to exactly one call in progress, and no
\* call works on a span that is ended or another's: spans end once, and none is
\* forgotten when a function panics, recurses or runs on several goroutines.
Holds(f, s) == s # 0 /\ Own(f) = s /\ f.phase # "left"

OpenSpansAreLive ==
  /\ \A g \in Goroutines : \A i \in DOMAIN stack[g] :
       LET f == stack[g][i]
       IN  Own(f) # 0 /\ f.phase # "left" =>
             /\ Own(f) \in DOMAIN spans
             /\ spans[Own(f)].owner = <<g, i>> /\ ~spans[Own(f)].ended
  /\ \A s \in DOMAIN spans : ~spans[s].ended =>
       LET o == spans[s].owner
       IN  o[2] \in DOMAIN stack[o[1]] /\ Holds(stack[o[1]][o[2]], s)

\* A span's parent is the nearest call up the chain whose context was handed on to
\* it, over functions without hooks, recursion and new goroutines, also when that
\* call has ended meanwhile; a root target has none.
ParentIsCaller ==
  \A g \in Goroutines : \A i \in DOMAIN stack[g] :
    LET f == stack[g][i]
    IN  Own(f) # 0 => spans[Own(f)].parent = IF Chained(f.fn) THEN f.trail ELSE 0

\* A span that recorded a call has the error status exactly if a configured result
\* was a non-nil error, and one exception event for each, whatever the Error
\* methods did and however the call ended.
ErrorsRecorded ==
  \A g \in Goroutines : \A i \in DOMAIN stack[g] :
    LET f        == stack[g][i]
        errors   == {plan[f.fn].errors[k] : k \in DOMAIN plan[f.fn].errors} \cap f.failed
        recorded == IF f.record.recording THEN errors ELSE {}
    IN  f.phase = "left" /\ f.span # 0 =>
          /\ f.record.failed = (recorded # {})
          /\ f.record.exceptions = Cardinality(recorded)

\* The instrumented program is the application: hooks return values, panics, exits and
\* contexts to it unchanged, recover nothing but their own formatting, and print
\* nothing.  Methods the hooks call are invisible.
VisibleValue(f) ==
  IF f.phase = "entry" /\ Chained(f.fn) THEN StartContext(plan[f.fn], f.context).value
  ELSE f.context.value

VisibleCall(f) ==
  [fn |-> f.fn, value |-> VisibleValue(f), outcome |-> f.outcome, failed |-> f.failed,
   heard |-> f.heard]

VisibleCalls ==
  [g \in Goroutines |->
     LET formatters == {i \in DOMAIN stack[g] : stack[g][i].fn = "formatter"}
         depth      == IF formatters = {} THEN Len(stack[g])
                       ELSE (CHOOSE i \in formatters : \A j \in formatters : i <= j) - 1
     IN  [i \in 1..depth |-> VisibleCall(stack[g][i])]]

App == INSTANCE Application WITH calls <- VisibleCalls

Transparent == App!Spec

\* When the body of an instrumented call is left its span ends, unless the process
\* crashes first.
BodyLeft(s) ==
  /\ s \in DOMAIN spans
  /\ LET o == spans[s].owner
     IN  /\ o[2] \in DOMAIN stack[o[1]]
         /\ Own(stack[o[1]][o[2]]) = s
         /\ stack[o[1]][o[2]].phase \in {"leaving", "after"}

SpanEnded(s) == s \in DOMAIN spans /\ spans[s].ended

LeftSpansEnd == \A s \in 1..MaxCalls : BodyLeft(s) ~> (crashed \/ SpanEnded(s))
================================================================================
