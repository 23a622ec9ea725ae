------------------------------ MODULE Application ------------------------------
(***************************************************************************)
(* What instrumentation must not disturb: the same application without     *)
(* spans.  Goroutines call functions and hand contexts on, functions       *)
(* return, panic or exit their goroutine, callers observe how a call ended *)
(* and what it returned.  Nothing but the application's own code runs.     *)
(* SpanHooks is shown to implement this specification: docs/01_PRD.md      *)
(* ("never recover/swallow a panic"), docs/07_RUNTIME_HOOKS.md sections 7  *)
(* to 9 ("do not alter returned error", "Extraction failures must never    *)
(* change application behavior").                                          *)
(***************************************************************************)
EXTENDS Naturals, Sequences

CONSTANTS Goroutines, Main, Functions, Results

VARIABLES
  calls,    \* goroutine -> the calls in progress, the innermost last
  crashed,  \* a panic left a goroutine: the process is gone
  printed   \* something was written to stderr that no function wrote

vars == <<calls, crashed, printed>>

Values == {"nil", "background", "request"}   \* what a context carries
Nothing == [outcome |-> "none", failed |-> {}]

Call(fn, value) ==
  [fn |-> fn, value |-> value, outcome |-> "none", failed |-> {}, heard |-> Nothing]

\* A callee sees the context it was given; for nil it may find an empty one
\* (docs/07_RUNTIME_HOOKS.md section 5).
Seen(value) == {value} \cup (IF value = "nil" THEN {"background"} ELSE {})

Top(g) == calls[g][Len(calls[g])]
Runs(g) == ~crashed /\ calls[g] # <<>> /\ Top(g).outcome = "none"

Init ==
  /\ \E fn \in Functions, value \in Values, seen \in Values :
       /\ seen \in Seen(value)
       /\ calls = [g \in Goroutines |-> IF g = Main THEN <<Call(fn, seen)>> ELSE <<>>]
  /\ crashed = FALSE
  /\ printed = FALSE

\* A function calls another or starts a goroutine with its own context, an empty
\* one or nil.
Calls(g, h) ==
  /\ Runs(g)
  /\ h = g \/ calls[h] = <<>>
  /\ \E fn \in Functions, value \in {Top(g).value, "background", "nil"} :
       \E seen \in Seen(value) :
         calls' = [calls EXCEPT ![h] = Append(@, Call(fn, seen))]
  /\ UNCHANGED <<crashed, printed>>

\* It ends; the results are there whether it returns or panics.
Ends(g) ==
  /\ Runs(g)
  /\ \E outcome \in {"return", "panic", "exit"}, failed \in SUBSET Results :
       calls' = [calls EXCEPT ![g][Len(calls[g])] =
                   [@ EXCEPT !.outcome = outcome, !.failed = failed, !.heard = Nothing]]
  /\ UNCHANGED <<crashed, printed>>

\* The caller hears of it: it may recover a panic or end with it, and cannot stop an
\* exit.
Delivers(g) ==
  /\ ~crashed /\ Len(calls[g]) > 1 /\ Top(g).outcome # "none"
  /\ LET n     == Len(calls[g]) - 1
         heard == [outcome |-> Top(g).outcome, failed |-> Top(g).failed]
     IN  \E outcome \in {"none", "panic", "exit"}, failed \in SUBSET Results :
           /\ outcome \in (CASE heard.outcome = "return" -> {"none"}
                             [] heard.outcome = "panic"  -> {"none", "panic"}
                             [] heard.outcome = "exit"   -> {"exit"})
           /\ outcome = "none" => failed = {}
           /\ LET caller == [calls[g][n] EXCEPT
                               !.heard = IF outcome = "none" THEN heard ELSE Nothing,
                               !.outcome = outcome, !.failed = failed]
              IN  calls' = [calls EXCEPT ![g] = [SubSeq(@, 1, n) EXCEPT ![n] = caller]]
  /\ UNCHANGED <<crashed, printed>>

\* The goroutine ends with its first call, the process if that panicked.
Finishes(g) ==
  /\ ~crashed /\ Len(calls[g]) = 1 /\ Top(g).outcome # "none"
  /\ calls' = [calls EXCEPT ![g] = <<>>]
  /\ crashed' = (Top(g).outcome = "panic")
  /\ UNCHANGED printed

Next ==
  \E g \in Goroutines :
    \/ \E h \in Goroutines : Calls(g, h)
    \/ Ends(g)
    \/ Delivers(g)
    \/ Finishes(g)

Spec == Init /\ [][Next]_vars
================================================================================
