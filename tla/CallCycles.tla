----------------------------- MODULE CallCycles -----------------------------
(***************************************************************************)
(* Which symbols take part in a static recursive call cycle:               *)
(* addRecursionMetadata of src/internal/discovery/recursion.go.  The calls *)
(* of every declared symbol are collected, a depth-first search orders the *)
(* symbols, and the strong components are read off the reversed calls.     *)
(* The analysis may be cancelled at any moment.                            *)
(***************************************************************************)
EXTENDS Naturals, Sequences, FiniteSets

VARIABLES
  calls,      \* symbol -> the symbols its body calls, in source order
  phase,      \* "collect", "order", "mark", "component", then "marked" or "stopped"
  cancelled,  \* the context is cancelled
  edges,      \* the calls collected
  next,       \* the next symbol to collect, or to order
  seen,       \* symbols visited in this pass
  stack,      \* the calls of visit in progress: [node, rest of its callees]
  order,      \* symbols in the order their visits returned
  pending,    \* recursiveCallComponent: symbols to visit
  members,    \* recursiveCallComponent: the component so far
  recursive   \* symbols marked Recursive

search    == <<edges, next, seen, stack, order, pending, members>>
cycleVars == <<calls, phase, cancelled, search, recursive>>

Nodes == DOMAIN calls

CyclesInit(c) ==
  /\ calls = c
  /\ phase = "collect"
  /\ cancelled = FALSE
  /\ edges = [n \in DOMAIN c |-> <<>>]
  /\ next = 1
  /\ seen = {} /\ stack = <<>> /\ order = <<>>
  /\ pending = <<>> /\ members = {}
  /\ recursive = {}

\* Every loop looks at the context before it goes on.
Stop == /\ cancelled
        /\ phase' = "stopped"
        /\ UNCHANGED <<calls, cancelled, search, recursive>>

-----------------------------------------------------------------------------
\* collectStaticCalls: one declaration.  A cancelled collection just returns;
\* it is the search that notices.
Collect ==
  /\ phase = "collect"
  /\ IF next \in Nodes /\ ~cancelled
     THEN /\ edges' = [edges EXCEPT ![next] = calls[next]]
          /\ next' = next + 1
          /\ UNCHANGED phase
     ELSE /\ phase' = "order"
          /\ next' = 1
          /\ UNCHANGED edges
  /\ UNCHANGED <<calls, cancelled, seen, stack, order, pending, members, recursive>>

Enter(n) == /\ seen' = seen \cup {n}
            /\ UNCHANGED order

\* recursiveCallOrder: the next symbol no visit has reached.
VisitRoot ==
  /\ phase = "order" /\ stack = <<>> /\ next \in Nodes
  /\ \/ /\ next \in seen
        /\ UNCHANGED <<phase, seen, stack, order>>
     \/ /\ next \notin seen /\ ~cancelled
        /\ Enter(next)
        /\ stack' = << [node |-> next, rest |-> edges[next]] >>
        /\ UNCHANGED phase
  /\ next' = next + 1
  /\ UNCHANGED <<calls, cancelled, edges, pending, members, recursive>>

Top == Head(stack)

VisitCallee ==
  /\ phase = "order" /\ stack # <<>> /\ Top.rest # <<>>
  /\ LET callee == Head(Top.rest)
         later  == << [Top EXCEPT !.rest = Tail(@)] >> \o Tail(stack)
     IN  \/ /\ callee \in seen
            /\ stack' = later
            /\ UNCHANGED <<seen, order>>
         \/ /\ callee \notin seen /\ ~cancelled
            /\ Enter(callee)
            /\ stack' = << [node |-> callee, rest |-> edges[callee]] >> \o later
  /\ UNCHANGED <<calls, phase, cancelled, edges, next, pending, members, recursive>>

\* Mutant: the symbol is appended when its visit starts.
LeaveFirst ==
  /\ phase = "order" /\ stack # <<>> /\ Top.rest = <<>>
  /\ order' = <<Top.node>> \o order
  /\ stack' = Tail(stack)
  /\ UNCHANGED <<calls, phase, cancelled, edges, next, seen, pending, members, recursive>>

Leave ==
  /\ phase = "order" /\ stack # <<>> /\ Top.rest = <<>>
  /\ order' = Append(order, Top.node)
  /\ stack' = Tail(stack)
  /\ UNCHANGED <<calls, phase, cancelled, edges, next, seen, pending, members, recursive>>

Ordered ==
  /\ phase = "order" /\ stack = <<>> /\ next \notin Nodes /\ ~cancelled
  /\ phase' = "mark"
  /\ seen' = {}
  /\ UNCHANGED <<calls, cancelled, edges, next, stack, order, pending, members, recursive>>

-----------------------------------------------------------------------------
Contains(s, x) == \E i \in DOMAIN s : s[i] = x

\* markRecursiveComponents: the last symbol of the order not in a component.
NextComponent ==
  /\ phase = "mark"
  /\ \/ /\ order = <<>>
        /\ phase' = "marked"
        /\ UNCHANGED <<seen, order, pending, members>>
     \/ /\ order # <<>> /\ order[Len(order)] \in seen
        /\ order' = SubSeq(order, 1, Len(order) - 1)
        /\ UNCHANGED <<phase, seen, pending, members>>
     \/ /\ order # <<>> /\ order[Len(order)] \notin seen
        /\ phase' = "component"
        /\ pending' = <<order[Len(order)]>>
        /\ seen' = seen \cup {order[Len(order)]}
        /\ members' = {}
        /\ UNCHANGED order
  /\ UNCHANGED <<calls, cancelled, edges, next, stack, recursive>>

\* The numbers of a finite set as a sequence, the least first.
Ascending(S) ==
  [i \in 1..Cardinality(S) |-> CHOOSE n \in S : Cardinality({m \in S : m < n}) = i - 1]

\* recursiveCallComponent over the reversed calls, last in first out.
Grow ==
  /\ phase = "component" /\ pending # <<>> /\ ~cancelled
  /\ LET node    == pending[Len(pending)]
         callers == {c \in Nodes : Contains(edges[c], node) /\ c \notin seen}
     IN  /\ members' = members \cup {node}
         /\ seen' = seen \cup callers
         /\ pending' = SubSeq(pending, 1, Len(pending) - 1) \o Ascending(callers)
  /\ UNCHANGED <<calls, phase, cancelled, edges, next, stack, order, recursive>>

Mark ==
  /\ phase = "component" /\ pending = <<>>
  /\ LET start == order[Len(order)] IN
     recursive' = IF Cardinality(members) > 1 \/ Contains(edges[start], start)
                  THEN recursive \cup members ELSE recursive
  /\ phase' = "mark"
  /\ UNCHANGED <<calls, cancelled, search>>

\* The checks that find the context cancelled.
Cancelled ==
  /\ \/ /\ phase = "order" /\ stack = <<>>
        /\ next \in seen => next \notin Nodes
     \/ /\ phase = "order" /\ stack # <<>>
        /\ Top.rest # <<>> /\ Head(Top.rest) \notin seen
     \/ phase = "component" /\ pending # <<>>
  /\ Stop

MarkCycles ==
  \/ Collect \/ VisitRoot \/ VisitCallee \/ Leave \/ Ordered
  \/ NextComponent \/ Grow \/ Mark \/ Cancelled

-----------------------------------------------------------------------------
(* What it computes.                                                       *)

Callees(n) == {calls[n][i] : i \in DOMAIN calls[n]}

\* The symbols reachable from n by at least one call: those in every set that
\* has all that n calls, and all that its own members call.
Reachable(n) ==
  {m \in Nodes :
     \A S \in SUBSET Nodes : (\A x \in S \cup {n} : Callees(x) \subseteq S) => m \in S}

\* The symbols on a cycle of static calls.
OnCycle == {n \in Nodes : n \in Reachable(n)}

=============================================================================
