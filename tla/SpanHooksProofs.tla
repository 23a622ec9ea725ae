---------------------------- MODULE SpanHooksProofs ----------------------------
(***************************************************************************)
(* Proofs about the generated hooks: type correctness, one open span per   *)
(* instrumented call in progress, parents, and recorded errors, for any    *)
(* plan, any number of goroutines and any depth of calls; and that the     *)
(* instrumented program implements the application without spans           *)
(* (Application).  The refinement mapping cuts each stack at the first     *)
(* String or Error method a hook runs and shows of the frames below what   *)
(* their functions can observe.                                            *)
(***************************************************************************)
EXTENDS SpanHooks, SequenceTheorems, FiniteSetTheorems, WellFoundedInduction, TLAPS

\* The ways an action changes a stack keep it a sequence of frames.
LEMMA PushType ==
  ASSUME NEW s \in Seq(Frame), NEW f \in Frame
  PROVE  /\ Append(s, f) \in Seq(Frame)
         /\ Len(Append(s, f)) = Len(s) + 1
         /\ \A i \in 1..Len(s) : Append(s, f)[i] = s[i]
         /\ Append(s, f)[Len(s) + 1] = f
OBVIOUS

LEMMA SetTopType ==
  ASSUME NEW s \in Seq(Frame), s # <<>>, NEW f \in Frame
  PROVE  /\ [s EXCEPT ![Len(s)] = f] \in Seq(Frame)
         /\ Len([s EXCEPT ![Len(s)] = f]) = Len(s)
         /\ Len(s) \in Nat \ {0} /\ s[Len(s)] \in Frame
         /\ \A i \in 1..Len(s) : [s EXCEPT ![Len(s)] = f][i] = IF i = Len(s) THEN f ELSE s[i]
BY ExceptSeq, EmptySeq

LEMMA PopType ==
  ASSUME NEW s \in Seq(Frame), NEW n \in Nat \ {0}, Len(s) = n + 1, NEW f \in Frame
  PROVE  /\ s[n] \in Frame /\ s[n + 1] \in Frame /\ SubSeq(s, 1, n)[n] = s[n]
         /\ [SubSeq(s, 1, n) EXCEPT ![n] = f] \in Seq(Frame)
         /\ Len([SubSeq(s, 1, n) EXCEPT ![n] = f]) = n
         /\ \A i \in 1..n : [SubSeq(s, 1, n) EXCEPT ![n] = f][i] = IF i = n THEN f ELSE s[i]
<1>0. Len(s) \in Nat /\ \A i \in 1..Len(s) : s[i] \in Frame
  OBVIOUS
<1>2. s[n] \in Frame /\ s[n + 1] \in Frame /\ \A i \in 1..n : s[i] \in Frame
  BY <1>0
<1>3. /\ SubSeq(s, 1, n) \in Seq(Frame)
      /\ Len(SubSeq(s, 1, n)) = n
      /\ \A i \in 1..n : SubSeq(s, 1, n)[i] = s[i]
  BY <1>2
<1>4. /\ [SubSeq(s, 1, n) EXCEPT ![n] = f] \in Seq(Frame)
      /\ Len([SubSeq(s, 1, n) EXCEPT ![n] = f]) = n
      /\ \A i \in 1..n : [SubSeq(s, 1, n) EXCEPT ![n] = f][i] =
                          IF i = n THEN f ELSE SubSeq(s, 1, n)[i]
  <2> DEFINE t == SubSeq(s, 1, n)
  <2>1. t \in Seq(Frame) /\ Len(t) = n /\ n \in 1..Len(t)
    BY <1>3
  <2> HIDE DEF t
  <2>2. /\ [t EXCEPT ![n] = f] \in Seq(Frame) /\ Len([t EXCEPT ![n] = f]) = Len(t)
        /\ \A j \in 1..Len(t) : [t EXCEPT ![n] = f][j] = IF j = n THEN f ELSE t[j]
    BY <2>1, ExceptSeq
  <2> QED
    BY <2>1, <2>2 DEF t
<1> QED
  BY <1>2, <1>3, <1>4

-----------------------------------------------------------------------------
(* What the actions do to the stacks.                                       *)

\* The innermost frame of g becomes f.
Sets(g, f) ==
  /\ stack' \in [Goroutines -> Seq(Frame)]
  /\ \A x \in Goroutines \ {g} : stack'[x] = stack[x]
  /\ Len(stack'[g]) = Len(stack[g])
  /\ \A i \in 1..Len(stack[g]) :
       stack'[g][i] = IF i = Len(stack[g]) THEN f ELSE stack[g][i]

\* It becomes f, and calls d.
Pushes(h, f, d) ==
  /\ stack' \in [Goroutines -> Seq(Frame)]
  /\ \A x \in Goroutines \ {h} : stack'[x] = stack[x]
  /\ Len(stack'[h]) = Len(stack[h]) + 1
  /\ \A i \in 1..Len(stack[h]) :
       stack'[h][i] = IF i = Len(stack[h]) THEN f ELSE stack[h][i]
  /\ stack'[h][Len(stack[h]) + 1] = d

\* It is removed, and its caller becomes f.
Pops(g, f) ==
  /\ stack' \in [Goroutines -> Seq(Frame)]
  /\ \A x \in Goroutines \ {g} : stack'[x] = stack[x]
  /\ Len(stack[g]) > 1 /\ Len(stack'[g]) = Len(stack[g]) - 1
  /\ \A i \in 1..Len(stack[g]) - 1 :
       stack'[g][i] = IF i = Len(stack[g]) - 1 THEN f ELSE stack[g][i]

LEMMA TopFrame ==
  ASSUME TypeOK, NEW g \in Goroutines, stack[g] # <<>>
  PROVE  Len(stack[g]) \in Nat \ {0} /\ Top(g) \in Frame
<1>1. stack[g] \in Seq(Frame)
  BY DEF TypeOK
<1> QED
  BY <1>1, SetTopType DEF Top

LEMMA WithTopSets ==
  ASSUME TypeOK, NEW g \in Goroutines, stack[g] # <<>>, NEW f \in Frame, stack' = WithTop(g, f)
  PROVE  Sets(g, f)
<1>1. stack[g] \in Seq(Frame) /\ stack \in [Goroutines -> Seq(Frame)]
  BY DEF TypeOK
<1>2. stack' = [stack EXCEPT ![g] = [stack[g] EXCEPT ![Len(stack[g])] = f]]
  BY <1>1 DEF WithTop
<1>3. /\ [stack[g] EXCEPT ![Len(stack[g])] = f] \in Seq(Frame)
      /\ Len([stack[g] EXCEPT ![Len(stack[g])] = f]) = Len(stack[g])
      /\ \A i \in 1..Len(stack[g]) : [stack[g] EXCEPT ![Len(stack[g])] = f][i] =
                                    IF i = Len(stack[g]) THEN f ELSE stack[g][i]
  BY <1>1, SetTopType
<1> QED
  BY <1>1, <1>2, <1>3 DEF Sets

LEMMA AppendPushes ==
  ASSUME TypeOK, NEW h \in Goroutines, NEW d \in Frame,
         stack' = [stack EXCEPT ![h] = Append(@, d)]
  PROVE  Pushes(h, Top(h), d)
<1>1. stack[h] \in Seq(Frame) /\ stack \in [Goroutines -> Seq(Frame)]
  BY DEF TypeOK
<1>2. stack'[h] = Append(stack[h], d)
  BY <1>1
<1> QED
  BY <1>1, <1>2, PushType DEF Pushes, Top

LEMMA SetAppendPushes ==
  ASSUME TypeOK, NEW g \in Goroutines, stack[g] # <<>>, NEW f \in Frame, NEW d \in Frame,
         stack' = [stack EXCEPT ![g] = Append([@ EXCEPT ![Len(@)] = f], d)]
  PROVE  Pushes(g, f, d)
<1>1. stack[g] \in Seq(Frame) /\ stack \in [Goroutines -> Seq(Frame)]
  BY DEF TypeOK
<1> DEFINE t == [stack[g] EXCEPT ![Len(stack[g])] = f]
<1>2. /\ t \in Seq(Frame) /\ Len(t) = Len(stack[g])
      /\ \A i \in 1..Len(stack[g]) : t[i] = IF i = Len(stack[g]) THEN f ELSE stack[g][i]
  BY <1>1, SetTopType
<1>3. stack' = [stack EXCEPT ![g] = Append(t, d)]
  BY <1>1
<1> HIDE DEF t
<1>4. /\ Append(t, d) \in Seq(Frame) /\ Len(Append(t, d)) = Len(t) + 1
      /\ \A i \in 1..Len(t) : Append(t, d)[i] = t[i]
      /\ Append(t, d)[Len(t) + 1] = d
  BY <1>2, PushType
<1> QED
  BY <1>1, <1>2, <1>3, <1>4 DEF Pushes

LEMMA SubSeqPops ==
  ASSUME TypeOK, NEW g \in Goroutines, NEW n \in Nat \ {0}, Len(stack[g]) = n + 1, NEW f \in Frame,
         stack' = [stack EXCEPT ![g] = [SubSeq(@, 1, n) EXCEPT ![n] = f]]
  PROVE  Pops(g, f)
<1>1. stack[g] \in Seq(Frame) /\ stack \in [Goroutines -> Seq(Frame)]
  BY DEF TypeOK
<1> DEFINE p == [SubSeq(stack[g], 1, n) EXCEPT ![n] = f]
<1>2. stack' = [stack EXCEPT ![g] = p]
  OBVIOUS
<1>3. /\ p \in Seq(Frame) /\ Len(p) = n
      /\ \A i \in 1..n : p[i] = IF i = n THEN f ELSE stack[g][i]
  <2> DEFINE s == stack[g]
  <2>1. s \in Seq(Frame) /\ n \in Nat \ {0} /\ Len(s) = n + 1
    BY <1>1
  <2> HIDE DEF s
  <2>2. /\ [SubSeq(s, 1, n) EXCEPT ![n] = f] \in Seq(Frame)
        /\ Len([SubSeq(s, 1, n) EXCEPT ![n] = f]) = n
        /\ \A i \in 1..n : [SubSeq(s, 1, n) EXCEPT ![n] = f][i] = IF i = n THEN f ELSE s[i]
    BY <2>1, PopType
  <2> QED
    BY <2>2 DEF s
<1> HIDE DEF p
<1>4. stack'[g] = p /\ \A x \in Goroutines \ {g} : stack'[x] = stack[x]
  BY <1>1, <1>2
<1>5. stack' \in [Goroutines -> Seq(Frame)]
  BY <1>1, <1>2, <1>3
<1>6. Len(stack'[g]) = Len(stack[g]) - 1
  BY <1>3, <1>4
<1>7. ASSUME NEW i \in 1..Len(stack[g]) - 1
      PROVE  stack'[g][i] = IF i = Len(stack[g]) - 1 THEN f ELSE stack[g][i]
  BY <1>3, <1>4
<1> QED
  BY <1>4, <1>5, <1>6, <1>7 DEF Pops

LEMMA EmptyFinishes ==
  ASSUME TypeOK, NEW g \in Goroutines, stack' = [stack EXCEPT ![g] = <<>>]
  PROVE  /\ stack' \in [Goroutines -> Seq(Frame)] /\ stack'[g] = <<>>
         /\ \A x \in Goroutines \ {g} : stack'[x] = stack[x]
BY DEF TypeOK

-----------------------------------------------------------------------------
(* How the calls of a goroutine are nested.                                 *)

\* A String or Error method is called by a hook that has its value to record, every
\* other function by the body of another, and the first one is no such method.
Nesting ==
  \A g \in Goroutines :
    /\ stack[g] # <<>> => stack[g][1].fn # "formatter"
    /\ \A i \in 1..Len(stack[g]) - 1 :
         IF stack[g][i + 1].fn = "formatter"
         THEN stack[g][i].phase \in {"before", "after"} /\ stack[g][i].todo # <<>>
         ELSE stack[g][i].phase = "body"

LEMMA NestingSets ==
  ASSUME TypeOK, Nesting, NEW g \in Goroutines, stack[g] # <<>>, NEW f, f.fn = Top(g).fn,
         Sets(g, f)
  PROVE  Nesting'
<1>1. Len(stack[g]) \in Nat \ {0} /\ Top(g) = stack[g][Len(stack[g])]
  BY TopFrame DEF Top
<1>2. stack'[g] \in Seq(Frame) /\ Len(stack'[g]) = Len(stack[g])
  BY DEF Sets
<1>3. \A i \in 1..Len(stack[g]) : /\ stack'[g][i].fn = stack[g][i].fn
                                  /\ i # Len(stack[g]) => stack'[g][i] = stack[g][i]
  BY <1>1 DEF Sets
<1> SUFFICES ASSUME NEW x \in Goroutines
             PROVE  /\ stack'[x] # <<>> => stack'[x][1].fn # "formatter"
                    /\ \A i \in 1..Len(stack'[x]) - 1 :
                         IF stack'[x][i + 1].fn = "formatter"
                         THEN stack'[x][i].phase \in {"before", "after"}
                              /\ stack'[x][i].todo # <<>>
                         ELSE stack'[x][i].phase = "body"
  BY DEF Nesting
<1>4. CASE x # g
  BY <1>4 DEF Nesting, Sets
<1>5. CASE x = g
  <2>1. stack'[g][1].fn # "formatter"
    <3>1. 1 \in 1..Len(stack[g]) /\ stack[g][1].fn # "formatter"
      BY <1>1 DEF Nesting
    <3> QED
      BY <1>3, <3>1
  <2>2. ASSUME NEW i \in 1..Len(stack[g]) - 1
        PROVE  IF stack'[g][i + 1].fn = "formatter"
               THEN stack'[g][i].phase \in {"before", "after"} /\ stack'[g][i].todo # <<>>
               ELSE stack'[g][i].phase = "body"
    <3>1. i \in 1..Len(stack[g]) /\ i + 1 \in 1..Len(stack[g]) /\ i # Len(stack[g])
      BY <1>1
    <3>2. stack'[g][i] = stack[g][i] /\ stack'[g][i + 1].fn = stack[g][i + 1].fn
      BY <1>3, <3>1
    <3>3. IF stack[g][i + 1].fn = "formatter"
          THEN stack[g][i].phase \in {"before", "after"} /\ stack[g][i].todo # <<>>
          ELSE stack[g][i].phase = "body"
      BY DEF Nesting
    <3> QED
      BY <3>2, <3>3
  <2> QED
    BY <1>2, <1>5, <2>1, <2>2
<1> QED
  BY <1>4, <1>5

LEMMA NestingPushes ==
  ASSUME TypeOK, Nesting, NEW h \in Goroutines, NEW f, NEW d, Pushes(h, f, d),
         stack[h] = <<>> => d.fn # "formatter",
         stack[h] # <<>> =>
           /\ f.fn = Top(h).fn
           /\ IF d.fn = "formatter" THEN f.phase \in {"before", "after"} /\ f.todo # <<>>
              ELSE f.phase = "body"
  PROVE  Nesting'
<1> DEFINE n == Len(stack[h])
<1>1. /\ stack[h] \in Seq(Frame) /\ n \in Nat /\ (stack[h] = <<>> <=> n = 0)
      /\ Top(h) = stack[h][n]
  BY EmptySeq DEF Top, TypeOK
<1>2. stack'[h] \in Seq(Frame) /\ Len(stack'[h]) = n + 1 /\ stack'[h][n + 1] = d
  BY DEF Pushes
<1>3. \A i \in 1..n : stack'[h][i] = IF i = n THEN f ELSE stack[h][i]
  BY DEF Pushes
<1> SUFFICES ASSUME NEW x \in Goroutines
             PROVE  /\ stack'[x] # <<>> => stack'[x][1].fn # "formatter"
                    /\ \A i \in 1..Len(stack'[x]) - 1 :
                         IF stack'[x][i + 1].fn = "formatter"
                         THEN stack'[x][i].phase \in {"before", "after"}
                              /\ stack'[x][i].todo # <<>>
                         ELSE stack'[x][i].phase = "body"
  BY DEF Nesting
<1>4. CASE x # h
  BY <1>4 DEF Nesting, Pushes
<1>5. CASE x = h
  <2>1. stack'[h][1].fn # "formatter"
    <3>1. CASE n = 0
      BY <1>1, <1>2, <3>1
    <3>2. CASE n # 0
      <4>1. stack[h][1].fn # "formatter" /\ 1 \in 1..n
        BY <1>1, <3>2 DEF Nesting
      <4>2. stack'[h][1].fn = stack[h][1].fn
        BY <1>1, <1>3, <3>2, <4>1
      <4> QED
        BY <4>1, <4>2
    <3> QED
      BY <3>1, <3>2
  <2>2. ASSUME NEW i \in 1..n
        PROVE  IF stack'[h][i + 1].fn = "formatter"
               THEN stack'[h][i].phase \in {"before", "after"} /\ stack'[h][i].todo # <<>>
               ELSE stack'[h][i].phase = "body"
    <3>1. CASE i = n
      BY <1>1, <1>2, <1>3, <3>1
    <3>2. CASE i # n
      <4>1. i \in 1..n - 1 /\ i + 1 \in 1..n
        BY <1>1, <3>2
      <4>2. stack'[h][i] = stack[h][i] /\ stack'[h][i + 1].fn = stack[h][i + 1].fn
        BY <1>1, <1>3, <3>2, <4>1
      <4> QED
        BY <4>1, <4>2 DEF Nesting
    <3> QED
      BY <3>1, <3>2
  <2> QED
    BY <1>1, <1>2, <1>5, <2>1, <2>2
<1> QED
  BY <1>4, <1>5

LEMMA NestingPops ==
  ASSUME TypeOK, Nesting, NEW g \in Goroutines, NEW f, Pops(g, f),
         f.fn = stack[g][Len(stack[g]) - 1].fn
  PROVE  Nesting'
<1> DEFINE n == Len(stack[g]) - 1
<1>1. stack[g] \in Seq(Frame) /\ n \in Nat \ {0} /\ Len(stack[g]) = n + 1
  BY DEF TypeOK, Pops
<1>2. stack'[g] \in Seq(Frame) /\ Len(stack'[g]) = n
  BY DEF Pops
<1>3. \A i \in 1..n : /\ stack'[g][i].fn = stack[g][i].fn
                      /\ i # n => stack'[g][i] = stack[g][i]
  BY DEF Pops
<1> HIDE DEF n
<1> SUFFICES ASSUME NEW x \in Goroutines
             PROVE  /\ stack'[x] # <<>> => stack'[x][1].fn # "formatter"
                    /\ \A i \in 1..Len(stack'[x]) - 1 :
                         IF stack'[x][i + 1].fn = "formatter"
                         THEN stack'[x][i].phase \in {"before", "after"}
                              /\ stack'[x][i].todo # <<>>
                         ELSE stack'[x][i].phase = "body"
  BY DEF Nesting
<1>4. CASE x # g
  BY <1>4 DEF Nesting, Pops
<1>5. CASE x = g
  <2>1. stack'[g][1].fn # "formatter"
    <3>1. 1 \in 1..n /\ stack[g] # <<>>
      BY <1>1, EmptySeq
    <3>2. stack[g][1].fn # "formatter"
      BY <3>1 DEF Nesting
    <3> QED
      BY <1>3, <3>1, <3>2
  <2>2. ASSUME NEW i \in 1..n - 1
        PROVE  IF stack'[g][i + 1].fn = "formatter"
               THEN stack'[g][i].phase \in {"before", "after"} /\ stack'[g][i].todo # <<>>
               ELSE stack'[g][i].phase = "body"
    <3>1. i \in 1..n /\ i + 1 \in 1..n /\ i # n /\ i \in 1..Len(stack[g]) - 1
      BY <1>1
    <3>2. stack'[g][i] = stack[g][i] /\ stack'[g][i + 1].fn = stack[g][i + 1].fn
      BY <1>3, <3>1
    <3>3. IF stack[g][i + 1].fn = "formatter"
          THEN stack[g][i].phase \in {"before", "after"} /\ stack[g][i].todo # <<>>
          ELSE stack[g][i].phase = "body"
      BY <3>1 DEF Nesting
    <3> QED
      BY <3>2, <3>3
  <2> QED
    BY <1>2, <1>5, <2>1, <2>2
<1> QED
  BY <1>4, <1>5

-----------------------------------------------------------------------------
(* The shape of a frame.                                                    *)

\* Hooks run for selected functions only; the after hook moves the span from the hook
\* context to its own variable; the body of a chained call runs with its span.
Shaped(f) ==
  /\ f.phase \in {"entry", "before", "leaving", "after"} => Selected(f.fn)
  /\ f.phase \in {"entry", "before", "body", "leaving"} => f.span = 0
  /\ f.phase \in {"entry", "after", "left"} => f.data = 0
  /\ f.phase = "after" => f.span # 0
  /\ ~Selected(f.fn) => f.data = 0 /\ f.span = 0
  /\ f.context.span = IF Chained(f.fn) /\ f.phase # "entry" THEN Own(f) ELSE f.trail

AllShaped == \A g \in Goroutines : \A i \in 1..Len(stack[g]) : Shaped(stack[g][i])

\* The type invariant, strengthened to be inductive.
TypeInv == TypeOK /\ Nesting /\ AllShaped

\* d is frame f after a step that starts and ends no span.
Same(d, f) ==
  /\ d \in Frame /\ Shaped(d)
  /\ d.fn = f.fn /\ d.trail = f.trail /\ Own(d) = Own(f)
  /\ f.phase # "left" /\ (d.phase = "left" => Own(d) = 0)

Fresh(d) == d \in Frame /\ Shaped(d) /\ Own(d) = 0

LEMMA ShapedTop ==
  ASSUME TypeInv, NEW g \in Goroutines, stack[g] # <<>>
  PROVE  /\ Len(stack[g]) \in Nat \ {0}
         /\ Top(g) = stack[g][Len(stack[g])] /\ Top(g) \in Frame /\ Shaped(Top(g))
<1>1. Len(stack[g]) \in Nat \ {0} /\ Top(g) \in Frame
  BY TopFrame DEF TypeInv
<1> QED
  BY <1>1 DEF Top, AllShaped, TypeInv

LEMMA FrameMade ==
  ASSUME NEW fn \in Functions \cup {"formatter"}, NEW c \in Context, NEW t \in Nat
  PROVE  NewFrame(fn, c, t) \in Frame
<1>1. <<>> \in Seq(Item)
  OBVIOUS
<1> QED
  BY <1>1 DEF NewFrame, Frame, Record, Blank, Outcomes, Nothing

LEMMA ContextsTyped == NilContext \in Context /\ Background \in Context /\ Request \in Context
BY DEF NilContext, Background, Request, Context, Values

LEMMA TrailTyped == ASSUME NEW f \in Frame PROVE Own(f) \in Nat /\ Trail(f) \in Nat
BY DEF Own, Trail, Frame

LEMMA PlanTyped ==
  ASSUME TypeOK, NEW fn \in Functions
  PROVE  plan[fn] \in Target /\ Renderable(plan[fn])
BY HooksAssumption DEF TypeOK, Plans

LEMMA NoneDisturbed ==
  ASSUME TypeOK, NEW fn \in Functions, Selected(fn)
  PROVE  ~Disturbed(plan[fn])
BY PlanTyped DEF Renderable, Disturbed, Selected, Target

LEMMA BodyContextTyped ==
  ASSUME NEW t \in Target, NEW c \in Context, NEW s \in Nat
  PROVE  StartContext(t, c) \in Context /\ BodyContext(t, c, s) \in Context
BY DEF StartContext, BodyContext, Context, Background, Values

LEMMA AfterItemsTyped == ASSUME NEW t \in Target PROVE AfterItems(t) \in Seq(Item)
<1>1. [i \in DOMAIN t.errors |-> [kind |-> "error", index |-> t.errors[i]]] \in Seq(Item)
  BY DEF Target, Item
<1>2. [i \in 1..t.results |-> Text] \in Seq(Item)
  BY DEF Target, Item, Text
<1> QED
  BY <1>1, <1>2 DEF AfterItems

LEMMA ArgumentsTyped ==
  ASSUME NEW t \in Target PROVE [i \in 1..t.arguments |-> Text] \in Seq(Item)
BY DEF Target, Item, Text

LEMMA LeftTyped ==
  ASSUME NEW f \in Frame, NEW outcome \in Outcomes, NEW failed \in SUBSET Results
  PROVE  Left(f, outcome, failed) \in Frame
BY DEF Left, Frame, Nothing, Outcomes

LEMMA GuardedTyped ==
  ASSUME NEW f \in Frame, f.todo # <<>>, NEW outcome
  PROVE  Guarded(f, outcome) \in Frame
<1>1. Tail(f.todo) \in Seq(Item)
  BY DEF Frame
<1>2. f.record.exceptions + (IF Head(f.todo).kind = "error" THEN 1 ELSE 0) \in Nat
  BY DEF Frame, Record
<1> QED
  BY <1>1, <1>2 DEF Guarded, Frame, Record

LEMMA ShapedSets ==
  ASSUME TypeInv, NEW g \in Goroutines, NEW d, Sets(g, d), Shaped(d), plan' = plan
  PROVE  AllShaped'
<1> SUFFICES ASSUME NEW x \in Goroutines, NEW i \in 1..Len(stack'[x])
             PROVE  Shaped(stack'[x][i])
  BY DEF AllShaped, Shaped, Selected, Chained, Own
<1> QED
  BY DEF Sets, TypeInv, AllShaped

LEMMA ShapedPushes ==
  ASSUME TypeInv, NEW h \in Goroutines, NEW f, NEW d, Pushes(h, f, d),
         stack[h] # <<>> => Shaped(f), Shaped(d), plan' = plan
  PROVE  AllShaped'
<1> SUFFICES ASSUME NEW x \in Goroutines, NEW i \in 1..Len(stack'[x])
             PROVE  Shaped(stack'[x][i])
  BY DEF AllShaped, Shaped, Selected, Chained, Own
<1>1. CASE x # h
  BY <1>1 DEF Pushes, TypeInv, AllShaped
<1>2. CASE x = h
  <2>1. /\ stack[h] \in Seq(Frame) /\ Len(stack[h]) \in Nat
        /\ Len(stack'[h]) = Len(stack[h]) + 1
        /\ stack[h] = <<>> <=> Len(stack[h]) = 0
    BY EmptySeq DEF TypeInv, TypeOK, Pushes
  <2>2. CASE i = Len(stack[h]) + 1
    BY <1>2, <2>2 DEF Pushes
  <2>3. CASE i = Len(stack[h])
    BY <1>2, <2>1, <2>3 DEF Pushes
  <2>4. CASE i \in 1..Len(stack[h]) /\ i # Len(stack[h])
    BY <1>2, <2>4 DEF Pushes, TypeInv, AllShaped
  <2> QED
    BY <1>2, <2>1, <2>2, <2>3, <2>4
<1> QED
  BY <1>1, <1>2

LEMMA ShapedPops ==
  ASSUME TypeInv, NEW g \in Goroutines, NEW d, Pops(g, d), Shaped(d), plan' = plan
  PROVE  AllShaped'
<1>1. Len(stack[g]) \in Nat
  BY DEF TypeInv, TypeOK
<1> SUFFICES ASSUME NEW x \in Goroutines, NEW i \in 1..Len(stack'[x])
             PROVE  Shaped(stack'[x][i])
  BY DEF AllShaped, Shaped, Selected, Chained, Own
<1> QED
  BY <1>1 DEF Pops, TypeInv, AllShaped

LEMMA CallEffect ==
  ASSUME TypeInv, NEW g \in Goroutines, NEW h \in Goroutines, Call(g, h)
  PROVE  \E fn \in Functions, c \in {Top(g).context, Background, NilContext} :
           LET d == NewFrame(fn, c, IF c = Top(g).context THEN Trail(Top(g)) ELSE 0)
           IN  Fresh(d) /\ d.fn = fn /\ Pushes(h, Top(h), d)
<1>1. Top(g) \in Frame /\ Shaped(Top(g)) /\ Top(g).phase = "body"
  BY ShapedTop DEF Call, At
<1>2. PICK fn \in Functions, c \in {Top(g).context, Background, NilContext} :
        stack' = [stack EXCEPT ![h] = Append(@,
                   NewFrame(fn, c, IF c = Top(g).context THEN Trail(Top(g)) ELSE 0))]
  BY DEF Call
<1>3. NewFrame(fn, c, IF c = Top(g).context THEN Trail(Top(g)) ELSE 0) \in Frame
  <2>1. c \in Context
    BY <1>1, ContextsTyped DEF Frame
  <2> QED
    BY <1>1, <2>1, FrameMade, TrailTyped
<1>4. c.span = IF c = Top(g).context THEN Trail(Top(g)) ELSE 0
  BY <1>1 DEF Shaped, Trail, Background, NilContext
<1>5. Shaped(NewFrame(fn, c, IF c = Top(g).context THEN Trail(Top(g)) ELSE 0))
  BY <1>4 DEF Shaped, NewFrame, Own, Chained
<1> QED
  BY <1>2, <1>3, <1>5, AppendPushes DEF TypeInv, Fresh, NewFrame, Own

LEMMA StartSpanEffect ==
  ASSUME TypeInv, NEW g \in Goroutines, StartSpan(g), Selected(Top(g).fn)
  PROVE  LET f == Top(g)
             t == plan[f.fn]
             s == Len(spans) + 1
         IN  /\ f \in Frame /\ t \in Target /\ s \in Nat
             /\ spans' = Append(spans, [parent |-> StartContext(t, f.context).span,
                                        owner |-> <<g, Len(stack[g])>>, ended |-> FALSE])
             /\ \E d \in Frame :
                  /\ Sets(g, d)
                  /\ d.phase = "before" /\ d.data = s /\ d.fn = f.fn
                  /\ d.context = BodyContext(t, f.context, s)
                  /\ d.span = f.span /\ d.trail = f.trail
             /\ UNCHANGED <<plan, called, crashed, printed>>
<1> DEFINE f == Top(g)
           t == plan[f.fn]
           s == Len(spans) + 1
<1>1. f \in Frame /\ stack[g] # <<>>
  BY TopFrame DEF TypeInv, StartSpan, At
<1>2. f.fn \in Functions /\ t \in Target /\ ~Disturbed(t)
  BY PlanTyped, NoneDisturbed DEF Selected, TypeInv
<1>3. s \in Nat
  BY DEF TypeInv, TypeOK
<1>4. PICK recording \in BOOLEAN :
        stack' = WithTop(g, [f EXCEPT !.phase = "before", !.data = s,
                                      !.record = Blank(recording),
                                      !.context = BodyContext(t, f.context, s),
                                      !.todo = [i \in 1..t.arguments |-> Text]])
  BY <1>2 DEF StartSpan
<1> DEFINE d == [f EXCEPT !.phase = "before", !.data = s, !.record = Blank(recording),
                          !.context = BodyContext(t, f.context, s),
                          !.todo = [i \in 1..t.arguments |-> Text]]
<1>5. d \in Frame
  <2>1. BodyContext(t, f.context, s) \in Context
    BY <1>1, <1>2, <1>3, BodyContextTyped DEF Frame
  <2>2. [i \in 1..t.arguments |-> Text] \in Seq(Item)
    BY <1>2, ArgumentsTyped
  <2>3. Blank(recording) \in Record
    BY DEF Blank, Record
  <2> HIDE DEF f, t, s
  <2> QED
    BY <1>1, <1>3, <2>1, <2>2, <2>3 DEF Frame
<1>6. /\ d.phase = "before" /\ d.data = s /\ d.fn = f.fn
      /\ d.context = BodyContext(t, f.context, s)
      /\ d.span = f.span /\ d.trail = f.trail
  <2> HIDE DEF f, t, s
  <2> QED
    BY <1>1 DEF Frame
<1>7. Sets(g, d)
  BY <1>1, <1>4, <1>5, WithTopSets DEF TypeInv
<1>8. spans' = Append(spans, [parent |-> StartContext(t, f.context).span,
                              owner |-> <<g, Len(stack[g])>>, ended |-> FALSE])
      /\ UNCHANGED <<plan, called, crashed, printed>>
  BY <1>2 DEF StartSpan
<1> HIDE DEF d
<1> QED
  BY <1>1, <1>2, <1>3, <1>5, <1>6, <1>7, <1>8

LEMMA SetsEffect ==
  ASSUME TypeInv, NEW g \in Goroutines,
         Skip(g) \/ EnterBody(g) \/ Leave(g) \/ TakeSpan(g)
  PROVE  /\ stack[g] # <<>>
         /\ \E d : Sets(g, d) /\ Same(d, Top(g))
         /\ UNCHANGED <<plan, spans, called, crashed, printed>>
<1>1. /\ stack[g] # <<>> /\ Top(g).phase # "left"
      /\ UNCHANGED <<plan, spans, called, crashed, printed>>
  BY DEF Skip, EnterBody, Leave, TakeSpan, HookRuns, At
<1>2. Top(g) \in Frame /\ Shaped(Top(g))
  BY <1>1, ShapedTop
<1> DEFINE f == Top(g)
<1> SUFFICES \E d : stack' = WithTop(g, d) /\ Same(d, f)
  BY <1>1, WithTopSets DEF Same, TypeInv
<1>3. CASE Skip(g)
  <2> DEFINE d == [f EXCEPT !.todo = Tail(@)]
  <2>1. Tail(f.todo) \in Seq(Item)
    BY <1>2, <1>3 DEF Skip, HookRuns, Frame
  <2>2. d \in Frame
    BY <1>2, <2>1 DEF Frame
  <2>3. Shaped(d) /\ d.fn = f.fn /\ d.trail = f.trail /\ Own(d) = Own(f) /\ d.phase = f.phase
    BY <1>2 DEF Shaped, Own, Frame
  <2>4. stack' = WithTop(g, d)
    BY <1>3 DEF Skip
  <2> QED
    BY <1>1, <2>2, <2>3, <2>4 DEF Same
<1>4. CASE EnterBody(g)
  <2> DEFINE d == [f EXCEPT !.phase = "body"]
  <2>1. d \in Frame
    BY <1>2 DEF Frame
  <2>2. f.phase = "before"
    BY <1>4 DEF EnterBody, At
  <2>3. Shaped(d) /\ d.fn = f.fn /\ d.trail = f.trail /\ Own(d) = Own(f) /\ d.phase # "left"
    BY <1>2, <2>2 DEF Shaped, Own, Frame
  <2>4. stack' = WithTop(g, d)
    BY <1>4 DEF EnterBody
  <2> QED
    BY <1>1, <2>1, <2>3, <2>4 DEF Same
<1>5. CASE Leave(g)
  <2>1. PICK outcome \in {"return", "panic", "exit"}, failed \in Failures :
          stack' = WithTop(g, Left(f, outcome, failed))
    BY <1>5 DEF Leave
  <2>2. Left(f, outcome, failed) \in Frame
    BY <1>2, LeftTyped, HooksAssumption DEF Outcomes
  <2>3. f.phase = "body"
    BY <1>5 DEF Leave, At
  <2>4. Same(Left(f, outcome, failed), f)
    BY <1>2, <2>2, <2>3 DEF Same, Shaped, Left, Own, Frame
  <2> QED
    BY <2>1, <2>4
<1>6. CASE TakeSpan(g)
  <2>1. f.phase = "leaving" /\ Selected(f.fn)
    BY <1>2, <1>6 DEF TakeSpan, At, Shaped
  <2>2. CASE f.data = 0
    <3> DEFINE d == [f EXCEPT !.phase = "left"]
    <3>1. d \in Frame
      BY <1>2 DEF Frame
    <3>2. Same(d, f)
      BY <1>1, <1>2, <2>1, <2>2, <3>1 DEF Same, Shaped, Own, Frame
    <3>3. stack' = WithTop(g, d)
      BY <1>6, <2>2 DEF TakeSpan, Kept
    <3> QED
      BY <3>2, <3>3
  <2>3. CASE f.data # 0
    <3> DEFINE d == [f EXCEPT !.phase = "after", !.span = f.data, !.data = 0,
                              !.todo = AfterItems(plan[f.fn])]
    <3>1. AfterItems(plan[f.fn]) \in Seq(Item)
      BY <2>1, PlanTyped, AfterItemsTyped DEF Selected, TypeInv
    <3>2. d \in Frame
      BY <1>2, <3>1 DEF Frame
    <3>3. Same(d, f)
      BY <1>1, <1>2, <2>1, <2>3, <3>2 DEF Same, Shaped, Own, Frame
    <3>4. stack' = WithTop(g, d)
      BY <1>6, <2>3 DEF TakeSpan, Kept
    <3> QED
      BY <3>3, <3>4
  <2> QED
    BY <2>2, <2>3
<1> QED
  BY <1>3, <1>4, <1>5, <1>6

LEMMA FormatEffect ==
  ASSUME TypeInv, NEW g \in Goroutines, Format(g)
  PROVE  /\ stack[g] # <<>>
         /\ \E d, e : /\ Pushes(g, d, e) /\ Same(d, Top(g)) /\ Fresh(e)
                      /\ e.fn = "formatter" /\ d.phase \in {"before", "after"} /\ d.todo # <<>>
         /\ UNCHANGED <<plan, spans, called, crashed, printed>>
<1>1. /\ stack[g] # <<>> /\ Top(g).phase \in {"before", "after"} /\ Top(g).todo # <<>>
      /\ UNCHANGED <<plan, spans, called, crashed, printed>>
  BY DEF Format, HookRuns, At
<1>2. Top(g) \in Frame /\ Shaped(Top(g)) /\ Top(g) = stack[g][Len(stack[g])]
  BY <1>1, ShapedTop
<1> DEFINE f == Top(g)
           error == Head(f.todo).kind = "error"
           d == [f EXCEPT !.record.failed = @ \/ error]
           e == NewFrame("formatter", Background, 0)
<1>3. stack' = [stack EXCEPT ![g] = Append([@ EXCEPT ![Len(@)] = d], e)]
  BY <1>2 DEF Format
<1>4. (f.record.failed \/ error) \in BOOLEAN
  OBVIOUS
<1>5. d \in Frame /\ Same(d, f)
  <2> HIDE DEF error
  <2>1. (f.record.failed \/ error) \in BOOLEAN /\ f \in Frame
    BY <1>2
  <2>2. d = [f EXCEPT !.record = [f.record EXCEPT !.failed = f.record.failed \/ error]]
    OBVIOUS
  <2>3. [f.record EXCEPT !.failed = f.record.failed \/ error] \in Record
    BY <1>2, <1>4 DEF Frame, Record
  <2>4. d \in Frame
    BY <2>1, <2>2, <2>3 DEF Frame
  <2> QED
    BY <1>1, <1>2, <2>2, <2>3, <2>4 DEF Same, Shaped, Own, Frame
<1>6. Fresh(e) /\ e.fn = "formatter"
  <2>1. e \in Frame
    BY FrameMade, ContextsTyped
  <2>2. Shaped(e) /\ e.fn = "formatter" /\ Own(e) = 0
    BY HooksAssumption DEF Shaped, NewFrame, Own, Chained, Selected, Background
  <2> QED
    BY <2>1, <2>2 DEF Fresh
<1>7. d.phase \in {"before", "after"} /\ d.todo # <<>>
  BY <1>1, <1>2 DEF Frame
<1> HIDE DEF d, e
<1>8. Pushes(g, d, e)
  BY <1>1, <1>3, <1>5, <1>6, SetAppendPushes DEF TypeInv, Fresh
<1> QED
  BY <1>1, <1>5, <1>6, <1>7, <1>8

\* The frame under the innermost one.
LEMMA CallerFrame ==
  ASSUME TypeInv, NEW g \in Goroutines, NEW n \in Nat \ {0}, Len(stack[g]) = n + 1
  PROVE  /\ stack[g][n] \in Frame /\ Shaped(stack[g][n])
         /\ Top(g) = stack[g][n + 1]
         /\ IF Top(g).fn = "formatter"
            THEN stack[g][n].phase \in {"before", "after"} /\ stack[g][n].todo # <<>>
            ELSE stack[g][n].phase = "body"
<1>1. stack[g] \in Seq(Frame) /\ n \in 1..Len(stack[g]) /\ n \in 1..Len(stack[g]) - 1
  BY DEF TypeInv, TypeOK
<1> QED
  BY <1>1 DEF Top, TypeInv, AllShaped, Nesting

\* The first frame of a goroutine belongs to no String or Error method.
LEMMA FirstFrame ==
  ASSUME TypeInv, NEW g \in Goroutines, stack[g] # <<>>, Top(g).fn = "formatter"
  PROVE  Len(stack[g]) > 1
<1>1. Len(stack[g]) \in Nat \ {0} /\ Top(g) = stack[g][Len(stack[g])]
  BY ShapedTop
<1>2. stack[g][1].fn # "formatter"
  BY DEF TypeInv, Nesting
<1> QED
  BY <1>1, <1>2

LEMMA PopEffect ==
  ASSUME TypeInv, NEW g \in Goroutines, Guard(g) \/ Deliver(g)
  PROVE  /\ Top(g).phase = "left"
         /\ \E d : Pops(g, d) /\ Same(d, stack[g][Len(stack[g]) - 1])
         /\ UNCHANGED <<plan, spans, called, crashed, printed>>
<1> DEFINE n == Len(stack[g]) - 1
           f == stack[g][n]
<1>1. /\ stack[g] # <<>> /\ Top(g).phase = "left"
      /\ UNCHANGED <<plan, spans, called, crashed, printed>>
  BY DEF Guard, Deliver, At
<1>2. Top(g) \in Frame
  BY <1>1, ShapedTop
<1>3. Len(stack[g]) \in Nat /\ Len(stack[g]) > 1
  BY <1>1, ShapedTop, FirstFrame DEF Guard, Deliver
<1>4. n \in Nat \ {0} /\ Len(stack[g]) = n + 1
  <2>1. \A k \in Nat : k > 1 => k - 1 \in Nat \ {0} /\ k = (k - 1) + 1
    OBVIOUS
  <2> QED
    BY <1>3, <2>1
<1>5. f \in Frame /\ Shaped(f)
      /\ IF Top(g).fn = "formatter" THEN f.phase \in {"before", "after"} /\ f.todo # <<>>
         ELSE f.phase = "body"
  BY <1>4, CallerFrame
<1> HIDE DEF n
<1> SUFFICES \E d : /\ stack' = [stack EXCEPT ![g] = [SubSeq(@, 1, n) EXCEPT ![n] = d]]
                    /\ Same(d, f)
  <2> PICK d : /\ stack' = [stack EXCEPT ![g] = [SubSeq(@, 1, n) EXCEPT ![n] = d]]
               /\ Same(d, f)
    OBVIOUS
  <2>1. Pops(g, d)
    BY <1>4, SubSeqPops DEF TypeInv, Same
  <2>2. n = Len(stack[g]) - 1
    BY DEF n
  <2> QED
    BY <1>1, <2>1, <2>2
<1>6. stack[g] \in Seq(Frame) /\ SubSeq(stack[g], 1, n)[n] = f
  BY <1>4, <1>5, PopType DEF TypeInv, TypeOK
<1>7. CASE Guard(g)
  <2>1. f.phase \in {"before", "after"} /\ f.todo # <<>>
    BY <1>5, <1>7 DEF Guard
  <2>2. Guarded(f, Top(g).outcome) \in Frame
    BY <1>5, <2>1, GuardedTyped
  <2>3. Same(Guarded(f, Top(g).outcome), f)
    BY <1>5, <2>1, <2>2 DEF Same, Shaped, Guarded, Own, Frame
  <2>4. stack' = [stack EXCEPT ![g] =
                   [SubSeq(@, 1, n) EXCEPT ![n] = Guarded(f, Top(g).outcome)]]
    BY <1>6, <1>7 DEF Guard, n
  <2> QED
    BY <2>3, <2>4
<1>8. CASE Deliver(g)
  <2>1. f.phase = "body"
    BY <1>5, <1>8 DEF Deliver
  <2> DEFINE r == [f EXCEPT !.heard = [outcome |-> Top(g).outcome, failed |-> Top(g).failed]]
  <2>2. r \in Frame /\ Shaped(r) /\ Same(r, f) /\ r.phase = "body"
    <3>1. r \in Frame
      BY <1>2, <1>5 DEF Frame
    <3> QED
      BY <1>5, <2>1, <3>1 DEF Same, Shaped, Own, Frame
  <2>3. PICK outcome \in Ends(Top(g).outcome), failed \in Failures :
          stack' = [stack EXCEPT ![g] = [SubSeq(@, 1, n) EXCEPT ![n] =
                      IF outcome = "none" THEN r ELSE Left(r, outcome, failed)]]
    BY <1>8 DEF Deliver, n
  <2>4. outcome \in Outcomes
    BY DEF Ends, Outcomes
  <2> HIDE DEF r
  <2>5. Left(r, outcome, failed) \in Frame
    BY <2>2, <2>4, LeftTyped, HooksAssumption
  <2>6. Same(Left(r, outcome, failed), f)
    BY <1>5, <2>1, <2>2, <2>5 DEF Same, Shaped, Left, Own, Frame
  <2> QED
    BY <2>2, <2>3, <2>6
<1> QED
  BY <1>7, <1>8

LEMMA EndSpanEffect ==
  ASSUME TypeInv, NEW g \in Goroutines, EndSpan(g)
  PROVE  LET f == Top(g)
         IN  /\ stack[g] # <<>> /\ f \in Frame /\ f.phase = "after" /\ f.span # 0
             /\ spans' = [spans EXCEPT ![f.span].ended = TRUE]
             /\ \E d \in Frame : /\ Sets(g, d) /\ Shaped(d) /\ d.phase = "left"
                                 /\ d.fn = f.fn /\ d.trail = f.trail
                                 /\ Own(d) = Own(f) /\ Own(f) = f.span
             /\ UNCHANGED <<plan, called, crashed, printed>>
<1> DEFINE f == Top(g)
           d == [f EXCEPT !.phase = "left"]
<1>1. /\ stack[g] # <<>> /\ f.phase = "after" /\ stack' = WithTop(g, d)
      /\ spans' = [spans EXCEPT ![f.span].ended = TRUE]
      /\ UNCHANGED <<plan, called, crashed, printed>>
  BY DEF EndSpan, At
<1>2. f \in Frame /\ Shaped(f)
  BY <1>1, ShapedTop
<1>3. d \in Frame
  BY <1>2 DEF Frame
<1>4. /\ Shaped(d) /\ d.phase = "left" /\ d.fn = f.fn /\ d.trail = f.trail
      /\ Own(d) = Own(f) /\ Own(f) = f.span /\ f.span # 0
  BY <1>1, <1>2 DEF Shaped, Own, Frame
<1> HIDE DEF d
<1>5. Sets(g, d)
  BY <1>1, <1>3, WithTopSets DEF TypeInv
<1> QED
  BY <1>1, <1>2, <1>3, <1>4, <1>5

LEMMA FinishEffect ==
  ASSUME TypeInv, NEW g \in Goroutines, Finish(g)
  PROVE  /\ Len(stack[g]) = 1 /\ Top(g) = stack[g][1] /\ Top(g).phase = "left"
         /\ stack' \in [Goroutines -> Seq(Frame)] /\ Len(stack'[g]) = 0
         /\ \A x \in Goroutines \ {g} : stack'[x] = stack[x]
         /\ crashed' \in BOOLEAN
         /\ UNCHANGED <<plan, spans, called, printed>>
<1>1. /\ stack[g] # <<>> /\ Len(stack[g]) = 1 /\ Top(g).phase = "left"
      /\ stack' = [stack EXCEPT ![g] = <<>>] /\ crashed' \in BOOLEAN
      /\ UNCHANGED <<plan, spans, called, printed>>
  BY DEF Finish, At
<1>2. /\ stack' \in [Goroutines -> Seq(Frame)] /\ stack'[g] = <<>>
      /\ \A x \in Goroutines \ {g} : stack'[x] = stack[x]
  BY <1>1, EmptyFinishes DEF TypeInv
<1>3. Top(g) = stack[g][1]
  BY <1>1 DEF Top
<1> QED
  BY <1>1, <1>2, <1>3

-----------------------------------------------------------------------------
(* Type correctness.                                                        *)

LEMMA FramesMove ==
  ASSUME TypeInv, NEW g \in Goroutines, NEW d,
         \/ Sets(g, d) /\ stack[g] # <<>> /\ Same(d, Top(g))
         \/ Pops(g, d) /\ Same(d, stack[g][Len(stack[g]) - 1]),
         UNCHANGED <<plan, spans, called, crashed, printed>>
  PROVE  TypeInv'
<1>1. TypeOK'
  BY DEF TypeInv, TypeOK, Sets, Pops
<1>2. Nesting'
  BY NestingSets, NestingPops DEF TypeInv, Same
<1>3. AllShaped'
  BY ShapedSets, ShapedPops DEF TypeInv, Same
<1> QED
  BY <1>1, <1>2, <1>3 DEF TypeInv

LEMMA TypeCall ==
  ASSUME TypeInv, NEW g \in Goroutines, NEW h \in Goroutines, Call(g, h)
  PROVE  TypeInv'
<1>1. PICK d : Fresh(d) /\ d.fn \in Functions /\ Pushes(h, Top(h), d)
  BY CallEffect
<1>2. /\ called < MaxCalls /\ called' = called + 1
      /\ UNCHANGED <<plan, spans, crashed, printed>>
  BY DEF Call
<1>3. TypeOK'
  BY <1>1, <1>2, HooksAssumption DEF TypeInv, TypeOK, Pushes
<1>4. d.fn # "formatter"
  BY <1>1, HooksAssumption
<1>5. stack[h] # <<>> => Top(h).phase = "body" /\ Shaped(Top(h))
  BY ShapedTop DEF Call, At
<1>6. Nesting'
  BY <1>1, <1>4, <1>5, NestingPushes DEF TypeInv
<1>7. AllShaped'
  BY <1>1, <1>2, <1>5, ShapedPushes DEF Fresh
<1> QED
  BY <1>3, <1>6, <1>7 DEF TypeInv

LEMMA TypeFormat ==
  ASSUME TypeInv, NEW g \in Goroutines, Format(g)
  PROVE  TypeInv'
<1>1. stack[g] # <<>> /\ UNCHANGED <<plan, spans, called, crashed, printed>>
  BY FormatEffect
<1>2. PICK d, e : /\ Pushes(g, d, e) /\ Same(d, Top(g)) /\ Fresh(e)
                  /\ e.fn = "formatter" /\ d.phase \in {"before", "after"} /\ d.todo # <<>>
  BY FormatEffect
<1>3. TypeOK'
  BY <1>1, <1>2 DEF TypeInv, TypeOK, Pushes
<1>4. Nesting'
  BY <1>1, <1>2, NestingPushes DEF TypeInv, Same
<1>5. AllShaped'
  BY <1>1, <1>2, ShapedPushes DEF Same, Fresh
<1> QED
  BY <1>3, <1>4, <1>5 DEF TypeInv

\* A call that is about to start its span has none yet.
LEMMA EntryTop ==
  ASSUME TypeInv, NEW g \in Goroutines, StartSpan(g)
  PROVE  /\ stack[g] # <<>> /\ Top(g) \in Frame /\ Shaped(Top(g)) /\ Top(g).phase = "entry"
         /\ Selected(Top(g).fn) /\ Own(Top(g)) = 0 /\ Top(g).context.span = Top(g).trail
<1>1. stack[g] # <<>> /\ Top(g).phase = "entry"
  BY DEF StartSpan, At
<1>2. Top(g) \in Frame /\ Shaped(Top(g))
  BY <1>1, ShapedTop
<1> QED
  BY <1>1, <1>2 DEF Shaped, Own

LEMMA TypeStartSpan ==
  ASSUME TypeInv, NEW g \in Goroutines, StartSpan(g)
  PROVE  TypeInv'
<1> DEFINE f == Top(g)
           t == plan[f.fn]
           s == Len(spans) + 1
           new == [parent |-> StartContext(t, f.context).span,
                   owner |-> <<g, Len(stack[g])>>, ended |-> FALSE]
<1>1. /\ stack[g] # <<>> /\ f \in Frame /\ Shaped(f) /\ f.phase = "entry" /\ Selected(f.fn)
      /\ f.context.span = f.trail
  BY EntryTop
<1>2. t \in Target /\ s \in Nat /\ spans' = Append(spans, new)
      /\ UNCHANGED <<plan, called, crashed, printed>>
  BY <1>1, StartSpanEffect
<1>3. PICK d \in Frame : /\ Sets(g, d) /\ d.phase = "before" /\ d.data = s /\ d.fn = f.fn
                         /\ d.context = BodyContext(t, f.context, s)
                         /\ d.span = f.span /\ d.trail = f.trail
  BY <1>1, StartSpanEffect
<1>4. new \in Span
  <2>1. StartContext(t, f.context) \in Context
    BY <1>1, <1>2, BodyContextTyped DEF Frame
  <2>2. Len(stack[g]) \in Nat
    BY <1>1, ShapedTop
  <2>3. StartContext(t, f.context).span \in Nat
    BY <2>1 DEF Context
  <2> QED
    BY <2>2, <2>3 DEF Span
<1> HIDE DEF new
<1>5. TypeOK'
  <2>1. spans' \in Seq(Span)
    BY <1>2, <1>4 DEF TypeInv, TypeOK
  <2> QED
    BY <1>2, <1>3, <2>1 DEF TypeInv, TypeOK, Sets
<1>6. Nesting'
  BY <1>1, <1>3, NestingSets DEF TypeInv
<1>7. Shaped(d)
  <2>1. Own(d) = s /\ s # 0
    BY <1>2, <1>3 DEF Own
  <2>2. d.context.span = IF Chained(d.fn) THEN s ELSE d.trail
    <3>1. CASE t.context = "argument"
      <4>1. StartContext(t, f.context) \in Context
        BY <1>1, <1>2, BodyContextTyped DEF Frame
      <4> QED
        BY <1>1, <1>3, <3>1, <4>1 DEF BodyContext, Chained, Context
    <3>2. CASE t.context # "argument"
      BY <1>1, <1>3, <3>2 DEF BodyContext, Chained
    <3> QED
      BY <3>1, <3>2
  <2> QED
    BY <1>1, <1>3, <2>1, <2>2 DEF Shaped
<1>8. AllShaped'
  BY <1>2, <1>3, <1>7, ShapedSets
<1> QED
  BY <1>5, <1>6, <1>8 DEF TypeInv

LEMMA TypeEndSpan ==
  ASSUME TypeInv, NEW g \in Goroutines, EndSpan(g)
  PROVE  TypeInv'
<1> DEFINE f == Top(g)
<1>1. /\ stack[g] # <<>> /\ spans' = [spans EXCEPT ![f.span].ended = TRUE]
      /\ UNCHANGED <<plan, called, crashed, printed>>
  BY EndSpanEffect
<1>2. PICK d \in Frame : Sets(g, d) /\ Shaped(d) /\ d.fn = f.fn
  BY EndSpanEffect
<1>3. spans' \in Seq(Span)
  <2> DEFINE k == f.span
  <2> HIDE DEF k
  <2>1. spans \in Seq(Span) /\ spans' = [spans EXCEPT ![k].ended = TRUE]
    BY <1>1 DEF TypeInv, TypeOK, k
  <2>2. CASE k \in 1..Len(spans)
    <3>1. spans[k] \in Span
      BY <2>1, <2>2
    <3>2. [spans[k] EXCEPT !.ended = TRUE] \in Span
      BY <3>1 DEF Span
    <3>3. spans' = [spans EXCEPT ![k] = [spans[k] EXCEPT !.ended = TRUE]]
      BY <2>1
    <3> QED
      BY <2>1, <2>2, <3>2, <3>3, ExceptSeq
  <2>3. CASE k \notin 1..Len(spans)
    <3>1. DOMAIN spans = 1..Len(spans)
      BY <2>1
    <3>2. spans = [i \in DOMAIN spans |-> spans[i]]
      BY <2>1
    <3>3. spans' = spans
      BY <2>1, <2>3, <3>1, <3>2
    <3> QED
      BY <2>1, <3>3
  <2> QED
    BY <2>2, <2>3
<1>4. TypeOK'
  BY <1>1, <1>2, <1>3 DEF TypeInv, TypeOK, Sets
<1>5. Nesting'
  BY <1>1, <1>2, NestingSets DEF TypeInv
<1>6. AllShaped'
  BY <1>1, <1>2, ShapedSets
<1> QED
  BY <1>4, <1>5, <1>6 DEF TypeInv

LEMMA TypeFinish ==
  ASSUME TypeInv, NEW g \in Goroutines, Finish(g)
  PROVE  TypeInv'
<1>1. TypeOK'
  BY FinishEffect DEF TypeInv, TypeOK
<1>2. stack'[g] = <<>>
  BY <1>1, FinishEffect, EmptySeq DEF TypeOK
<1>3. Nesting'
  <2> SUFFICES ASSUME NEW x \in Goroutines
               PROVE  /\ stack'[x] # <<>> => stack'[x][1].fn # "formatter"
                      /\ \A i \in 1..Len(stack'[x]) - 1 :
                           IF stack'[x][i + 1].fn = "formatter"
                           THEN stack'[x][i].phase \in {"before", "after"}
                                /\ stack'[x][i].todo # <<>>
                           ELSE stack'[x][i].phase = "body"
    BY DEF Nesting
  <2>1. CASE x = g
    BY <1>2, <2>1, FinishEffect
  <2>2. CASE x # g
    BY <2>2, FinishEffect DEF Nesting, TypeInv
  <2> QED
    BY <2>1, <2>2
<1>4. AllShaped'
  BY FinishEffect DEF AllShaped, TypeInv, Shaped, Selected, Chained, Own
<1> QED
  BY <1>1, <1>3, <1>4 DEF TypeInv

LEMMA TypeInit == Init => TypeInv
<1> SUFFICES ASSUME Init PROVE TypeInv
  OBVIOUS
<1>1. PICK fn \in Functions :
        stack = [g \in Goroutines |-> IF g = Main THEN <<NewFrame(fn, Request, 0)>> ELSE <<>>]
  BY DEF Init
<1> DEFINE f == NewFrame(fn, Request, 0)
<1>2. f \in Frame /\ f.fn = fn
  BY FrameMade, ContextsTyped DEF NewFrame
<1>3. Shaped(f)
  BY HooksAssumption DEF Shaped, NewFrame, Own, Chained, Selected, Request
<1> HIDE DEF f
<1>4. \A g \in Goroutines : /\ stack[g] \in Seq(Frame)
                            /\ Len(stack[g]) \in {0, 1}
                            /\ Len(stack[g]) # 0 => stack[g] = <<f>>
  <2>1. stack = [g \in Goroutines |-> IF g = Main THEN <<f>> ELSE <<>>]
    BY <1>1 DEF f
  <2>2. /\ <<f>> \in Seq(Frame) /\ Len(<<f>>) = 1
        /\ <<>> \in Seq(Frame) /\ Len(<<>>) = 0
    BY <1>2
  <2> QED
    BY <2>1, <2>2
<1>5. TypeOK
  <2>1. stack \in [Goroutines -> Seq(Frame)]
    BY <1>1, <1>4
  <2> QED
    <3>1. plan \in Plans /\ spans = <<>> /\ called = 1 /\ crashed = FALSE /\ printed = FALSE
      BY DEF Init
    <3>2. <<>> \in Seq(Span) /\ 1 \in 0..MaxCalls
      BY HooksAssumption
    <3> QED
      BY <2>1, <3>1, <3>2 DEF TypeOK
<1>6. \A g \in Goroutines : \A i \in 1..Len(stack[g]) : stack[g] = <<f>> /\ i = 1
  <2> SUFFICES ASSUME NEW g \in Goroutines, NEW i \in 1..Len(stack[g])
               PROVE  stack[g] = <<f>> /\ i = 1
    OBVIOUS
  <2> DEFINE n == Len(stack[g])
  <2>1. n \in {0, 1} /\ (n # 0 => stack[g] = <<f>>) /\ i \in 1..n
    BY <1>4
  <2> HIDE DEF n
  <2> QED
    BY <2>1
<1>7. Nesting
  BY <1>2, <1>4, HooksAssumption DEF Nesting
<1>8. AllShaped
  BY <1>3, <1>6 DEF AllShaped
<1> QED
  BY <1>5, <1>7, <1>8 DEF TypeInv

LEMMA TypeNext == TypeInv /\ [Next]_vars => TypeInv'
<1> SUFFICES ASSUME TypeInv, [Next]_vars PROVE TypeInv'
  OBVIOUS
<1>1. CASE UNCHANGED vars
  BY <1>1 DEF vars, TypeInv, TypeOK, Nesting, AllShaped, Shaped, Selected, Chained, Own
<1>2. ASSUME NEW g \in Goroutines, NEW h \in Goroutines, Call(g, h) PROVE TypeInv'
  BY <1>2, TypeCall
<1>3. ASSUME NEW g \in Goroutines, Skip(g) \/ EnterBody(g) \/ Leave(g) \/ TakeSpan(g)
      PROVE  TypeInv'
  BY <1>3, SetsEffect, FramesMove
<1>4. ASSUME NEW g \in Goroutines, Guard(g) \/ Deliver(g) PROVE TypeInv'
  BY <1>4, PopEffect, FramesMove
<1>5. ASSUME NEW g \in Goroutines, Finish(g) PROVE TypeInv'
  BY <1>5, TypeFinish
<1>6. ASSUME NEW g \in Goroutines, StartSpan(g) PROVE TypeInv'
  BY <1>6, TypeStartSpan
<1>7. ASSUME NEW g \in Goroutines, Format(g) PROVE TypeInv'
  BY <1>7, TypeFormat
<1>8. ASSUME NEW g \in Goroutines, EndSpan(g) PROVE TypeInv'
  BY <1>8, TypeEndSpan
<1> QED
  BY <1>1, <1>2, <1>3, <1>4, <1>5, <1>6, <1>7, <1>8 DEF Next, Hook

LEMMA TypeInvariant == Spec => []TypeInv
BY TypeInit, TypeNext, PTL DEF Spec

\* The hooks and the functions they wrap never leave their states: in particular no
\* nil context carries a span, so Tracer.Start never receives one, for any plan.
THEOREM TypeCorrect == Spec => []TypeOK
<1>1. TypeInv => TypeOK
  BY DEF TypeInv
<1> QED
  BY <1>1, TypeInvariant, PTL

-----------------------------------------------------------------------------
(* Spans.                                                                   *)

\* A call's span exists and has the parent its context stands for.
Linked ==
  \A g \in Goroutines : \A i \in 1..Len(stack[g]) :
    LET f == stack[g][i]
    IN  Own(f) # 0 =>
          /\ Own(f) \in 1..Len(spans)
          /\ spans[Own(f)].parent = IF Chained(f.fn) THEN f.trail ELSE 0

\* A call that is not left works on its own open span, ...
Owned ==
  \A g \in Goroutines : \A i \in 1..Len(stack[g]) :
    LET f == stack[g][i]
    IN  Own(f) # 0 /\ f.phase # "left" =>
          spans[Own(f)].owner = <<g, i>> /\ ~spans[Own(f)].ended

\* ... and every open span belongs to a call that is not left.
Live ==
  \A s \in 1..Len(spans) : ~spans[s].ended =>
    \E g \in Goroutines : \E i \in 1..Len(stack[g]) :
      spans[s].owner = <<g, i>> /\ Holds(stack[g][i], s)

SpanInv == TypeInv /\ Linked /\ Owned /\ Live

\* The calls go on with the spans they have: no call gets one, none loses one before
\* it is left.
Carries(x) ==
  /\ \A i \in 1..Len(stack'[x]) : Own(stack'[x][i]) # 0 =>
       /\ i \in 1..Len(stack[x])
       /\ Own(stack'[x][i]) = Own(stack[x][i])
       /\ stack'[x][i].fn = stack[x][i].fn /\ stack'[x][i].trail = stack[x][i].trail
       /\ stack'[x][i].phase # "left" => stack[x][i].phase # "left"
  /\ \A i \in 1..Len(stack[x]) : Own(stack[x][i]) # 0 /\ stack[x][i].phase # "left" =>
       /\ i \in 1..Len(stack'[x])
       /\ Own(stack'[x][i]) = Own(stack[x][i]) /\ stack'[x][i].phase # "left"

Continues == \A x \in Goroutines : Carries(x)

LEMMA ContinuesKeeps ==
  ASSUME SpanInv, Continues, plan' = plan, spans' = spans, TypeInv'
  PROVE  SpanInv'
<1>1. Linked'
  BY DEF SpanInv, Continues, Carries, Linked, Chained, Selected
<1>2. Owned'
  BY DEF SpanInv, Continues, Carries, Owned
<1>3. Live'
  <2> SUFFICES ASSUME NEW s \in 1..Len(spans), ~spans[s].ended
               PROVE  \E g \in Goroutines : \E i \in 1..Len(stack'[g]) :
                        spans[s].owner = <<g, i>> /\ Holds(stack'[g][i], s)
    BY DEF Live, Holds, Own
  <2>1. PICK g, i :
          g \in Goroutines /\ i \in 1..Len(stack[g]) /\ spans[s].owner = <<g, i>> /\ Holds(stack[g][i], s)
    BY DEF SpanInv, Live
  <2>2. i \in 1..Len(stack'[g]) /\ Holds(stack'[g][i], s)
    BY <2>1 DEF Continues, Carries, Holds
  <2> QED
    BY <2>1, <2>2
<1> QED
  BY <1>1, <1>2, <1>3 DEF SpanInv

LEMMA SetsContinues ==
  ASSUME TypeInv, NEW g \in Goroutines, stack[g] # <<>>, NEW d, Sets(g, d), Same(d, Top(g))
  PROVE  Continues
<1>1. Len(stack[g]) \in Nat \ {0} /\ Top(g) = stack[g][Len(stack[g])]
  BY ShapedTop
<1> QED
  BY <1>1 DEF Sets, Same, Continues, Carries

LEMMA PushesContinues ==
  ASSUME TypeInv, NEW h \in Goroutines, NEW f, NEW d, Pushes(h, f, d), Fresh(d),
         f = Top(h) \/ Same(f, Top(h))
  PROVE  Continues
<1>1. Len(stack[h]) \in Nat /\ Top(h) = stack[h][Len(stack[h])]
  BY DEF TypeInv, TypeOK, Top
<1> SUFFICES ASSUME NEW x \in Goroutines PROVE Carries(x)
  BY DEF Continues
<1>2. CASE x # h
  BY <1>2 DEF Pushes, Carries
<1>3. CASE x = h
  <2> DEFINE n == Len(stack[h])
  <2>1. n \in Nat /\ Len(stack'[h]) = n + 1 /\ Own(stack'[h][n + 1]) = 0
    BY <1>1 DEF Pushes, Fresh
  <2>2. \A i \in 1..n : stack'[h][i] = IF i = n THEN f ELSE stack[h][i]
    BY DEF Pushes
  <2>3. /\ f.fn = stack[h][n].fn /\ f.trail = stack[h][n].trail /\ Own(f) = Own(stack[h][n])
        /\ f.phase # "left" => stack[h][n].phase # "left"
        /\ Own(f) # 0 /\ stack[h][n].phase # "left" => f.phase # "left"
    BY <1>1 DEF Same
  <2> HIDE DEF n
  <2>4. n = Len(stack[h])
    BY DEF n
  <2> QED
    BY <1>3, <2>1, <2>2, <2>3, <2>4 DEF Carries
<1> QED
  BY <1>2, <1>3

LEMMA PopsContinues ==
  ASSUME TypeInv, NEW g \in Goroutines, NEW d, Pops(g, d), Top(g).phase = "left",
         Same(d, stack[g][Len(stack[g]) - 1])
  PROVE  Continues
<1>1. Len(stack[g]) \in Nat /\ Top(g) = stack[g][Len(stack[g])]
  BY DEF TypeInv, TypeOK, Top
<1> SUFFICES ASSUME NEW x \in Goroutines PROVE Carries(x)
  BY DEF Continues
<1>2. CASE x # g
  BY <1>2 DEF Pops, Carries
<1>3. CASE x = g
  <2> DEFINE n == Len(stack[g]) - 1
             f == stack[g][n]
  <2>1. n \in Nat \ {0} /\ Len(stack[g]) = n + 1 /\ Len(stack'[g]) = n
        /\ stack[g][n + 1].phase = "left"
    BY <1>1 DEF Pops
  <2>2. \A i \in 1..n : stack'[g][i] = IF i = n THEN d ELSE stack[g][i]
    BY DEF Pops
  <2>3. /\ d.fn = f.fn /\ d.trail = f.trail /\ Own(d) = Own(f)
        /\ f.phase # "left" /\ (d.phase = "left" => Own(d) = 0)
    BY DEF Same
  <2> HIDE DEF n, f
  <2>4. f = stack[g][n]
    BY DEF f
  <2> QED
    BY <1>3, <2>1, <2>2, <2>3, <2>4 DEF Carries
<1> QED
  BY <1>2, <1>3

LEMMA FinishContinues ==
  ASSUME TypeInv, NEW g \in Goroutines, Finish(g)
  PROVE  Continues
BY FinishEffect DEF Continues, Carries

LEMMA SpanStart ==
  ASSUME SpanInv, NEW g \in Goroutines, StartSpan(g)
  PROVE  SpanInv'
<1> DEFINE f == Top(g)
           t == plan[f.fn]
           n == Len(stack[g])
           s == Len(spans) + 1
           new == [parent |-> StartContext(t, f.context).span,
                   owner |-> <<g, n>>, ended |-> FALSE]
<1>0. TypeInv
  BY DEF SpanInv
<1>1. /\ stack[g] # <<>> /\ f \in Frame /\ Shaped(f) /\ f.phase = "entry" /\ Selected(f.fn)
      /\ Own(f) = 0 /\ f.context.span = f.trail
  BY <1>0, EntryTop
<1>2. s \in Nat /\ spans' = Append(spans, new) /\ plan' = plan
  BY <1>0, <1>1, StartSpanEffect
<1>3. PICK d \in Frame : /\ Sets(g, d) /\ d.phase = "before" /\ d.data = s /\ d.fn = f.fn
                         /\ d.trail = f.trail
  BY <1>0, <1>1, StartSpanEffect
<1>4. n \in Nat \ {0} /\ f = stack[g][n]
  BY <1>0, <1>1, ShapedTop
<1>5. Own(d) = s /\ s \in Nat \ {0}
  BY <1>0, <1>2, <1>3 DEF Own, TypeInv, TypeOK
<1>6. new.parent = IF Chained(d.fn) THEN d.trail ELSE 0
  <2>1. f.context \in Context
    BY <1>1 DEF Frame
  <2> QED
    BY <1>1, <1>3, <2>1 DEF StartContext, Background, Chained, Context
<1>7. /\ new.owner = <<g, n>> /\ new.ended = FALSE
      /\ spans \in Seq(Span) /\ Len(spans) \in Nat /\ s = Len(spans) + 1
  BY <1>0 DEF TypeInv, TypeOK
<1> HIDE DEF new, s
<1>8. /\ Len(spans') = s /\ spans'[s] = new
      /\ \A k \in 1..Len(spans) : spans'[k] = spans[k]
  BY <1>2, <1>7
<1>9. \A x \in Goroutines : Len(stack'[x]) = Len(stack[x])
  BY <1>3 DEF Sets
<1>10. stack'[g][n] = d /\ \A x \in Goroutines : \A i \in 1..Len(stack[x]) :
         ~(x = g /\ i = n) => stack'[x][i] = stack[x][i]
  BY <1>3, <1>4 DEF Sets
<1> HIDE DEF n, f
<1>11. Linked'
  <2> SUFFICES ASSUME NEW x \in Goroutines, NEW i \in 1..Len(stack[x]),
                      Own(stack'[x][i]) # 0
               PROVE  /\ Own(stack'[x][i]) \in 1..Len(spans')
                      /\ spans'[Own(stack'[x][i])].parent =
                           IF Chained(stack'[x][i].fn) THEN stack'[x][i].trail ELSE 0
    BY <1>2, <1>9 DEF Linked, Own, Chained, Selected
  <2>1. CASE x = g /\ i = n
    BY <1>5, <1>6, <1>8, <1>10, <2>1
  <2>2. CASE ~(x = g /\ i = n)
    BY <1>7, <1>8, <1>10, <2>2 DEF SpanInv, Linked
  <2> QED
    BY <2>1, <2>2
<1>12. Owned'
  <2> SUFFICES ASSUME NEW x \in Goroutines, NEW i \in 1..Len(stack[x]),
                      Own(stack'[x][i]) # 0, stack'[x][i].phase # "left"
               PROVE  /\ spans'[Own(stack'[x][i])].owner = <<x, i>>
                      /\ ~spans'[Own(stack'[x][i])].ended
    BY <1>9 DEF Owned, Own
  <2>1. CASE x = g /\ i = n
    BY <1>5, <1>7, <1>8, <1>10, <2>1
  <2>2. CASE ~(x = g /\ i = n)
    <3>1. stack'[x][i] = stack[x][i]
      BY <1>10, <2>2
    <3>2. Own(stack[x][i]) \in 1..Len(spans)
      BY <3>1 DEF SpanInv, Linked
    <3> QED
      BY <1>8, <3>1, <3>2 DEF SpanInv, Owned
  <2> QED
    BY <2>1, <2>2
<1>13. Live'
  <2> SUFFICES ASSUME NEW k \in 1..Len(spans'), ~spans'[k].ended
               PROVE  \E x \in Goroutines : \E i \in 1..Len(stack'[x]) :
                        spans'[k].owner = <<x, i>> /\ Holds(stack'[x][i], k)
    BY DEF Live, Holds, Own
  <2>1. CASE k = s
    <3>1. Holds(d, s) /\ n \in 1..Len(stack'[g])
      BY <1>3, <1>4, <1>5, <1>9 DEF Holds, n
    <3> QED
      BY <1>7, <1>8, <1>10, <2>1, <3>1
  <2>2. CASE k # s
    <3>1. k \in 1..Len(spans) /\ spans'[k] = spans[k]
      BY <1>7, <1>8, <2>2
    <3>2. PICK x, i :
            x \in Goroutines /\ i \in 1..Len(stack[x]) /\ spans[k].owner = <<x, i>> /\ Holds(stack[x][i], k)
      BY <3>1 DEF SpanInv, Live
    <3>3. ~(x = g /\ i = n)
      BY <1>1, <1>4, <3>2 DEF Holds
    <3> QED
      BY <1>9, <1>10, <3>1, <3>2, <3>3
  <2> QED
    BY <2>1, <2>2
<1> QED
  BY <1>0, <1>11, <1>12, <1>13, TypeStartSpan DEF SpanInv

LEMMA SpanEnd ==
  ASSUME SpanInv, NEW g \in Goroutines, EndSpan(g)
  PROVE  SpanInv'
<1> DEFINE f == Top(g)
           n == Len(stack[g])
           s == f.span
<1>0. TypeInv
  BY DEF SpanInv
<1>1. /\ stack[g] # <<>> /\ f.phase = "after" /\ s # 0
      /\ spans' = [spans EXCEPT ![s].ended = TRUE] /\ plan' = plan
  BY <1>0, EndSpanEffect
<1>2. PICK d \in Frame : /\ Sets(g, d) /\ d.phase = "left" /\ d.fn = f.fn
                         /\ d.trail = f.trail /\ Own(d) = s /\ Own(f) = s
  BY <1>0, EndSpanEffect
<1>3. n \in Nat \ {0} /\ f = stack[g][n] /\ n \in 1..Len(stack[g])
  BY <1>0, <1>1, ShapedTop
<1>4. spans \in Seq(Span)
  BY <1>0 DEF TypeInv, TypeOK
<1> HIDE DEF s, n, f
<1>5. s \in 1..Len(spans) /\ spans[s].owner = <<g, n>>
  BY <1>1, <1>2, <1>3 DEF SpanInv, Linked, Owned
<1>6. /\ Len(spans') = Len(spans) /\ spans'[s].ended
      /\ \A k \in 1..Len(spans) : /\ spans'[k].parent = spans[k].parent
                                  /\ spans'[k].owner = spans[k].owner
                                  /\ k # s => spans'[k] = spans[k]
  <2>1. spans' = [spans EXCEPT ![s] = [spans[s] EXCEPT !.ended = TRUE]]
    BY <1>1
  <2>2. spans[s] \in Span
    BY <1>4, <1>5
  <2>3. /\ [spans[s] EXCEPT !.ended = TRUE] \in Span
        /\ [spans[s] EXCEPT !.ended = TRUE].parent = spans[s].parent
        /\ [spans[s] EXCEPT !.ended = TRUE].owner = spans[s].owner
        /\ [spans[s] EXCEPT !.ended = TRUE].ended
    BY <2>2 DEF Span
  <2> QED
    BY <1>4, <1>5, <2>1, <2>3, ExceptSeq
<1>7. \A x \in Goroutines : Len(stack'[x]) = Len(stack[x])
  BY <1>2 DEF Sets
<1>8. stack'[g][n] = d /\ \A x \in Goroutines : \A i \in 1..Len(stack[x]) :
        ~(x = g /\ i = n) => stack'[x][i] = stack[x][i]
  BY <1>2, <1>3 DEF Sets, n
<1>9. Linked'
  <2> SUFFICES ASSUME NEW x \in Goroutines, NEW i \in 1..Len(stack[x]),
                      Own(stack'[x][i]) # 0
               PROVE  /\ Own(stack'[x][i]) \in 1..Len(spans')
                      /\ spans'[Own(stack'[x][i])].parent =
                           IF Chained(stack'[x][i].fn) THEN stack'[x][i].trail ELSE 0
    BY <1>1, <1>7 DEF Linked, Own, Chained, Selected
  <2>1. /\ Own(stack'[x][i]) = Own(stack[x][i]) /\ stack'[x][i].fn = stack[x][i].fn
        /\ stack'[x][i].trail = stack[x][i].trail
    BY <1>2, <1>3, <1>8
  <2> QED
    BY <1>6, <2>1 DEF SpanInv, Linked
<1>10. Owned'
  <2> SUFFICES ASSUME NEW x \in Goroutines, NEW i \in 1..Len(stack[x]),
                      Own(stack'[x][i]) # 0, stack'[x][i].phase # "left"
               PROVE  /\ spans'[Own(stack'[x][i])].owner = <<x, i>>
                      /\ ~spans'[Own(stack'[x][i])].ended
    BY <1>7 DEF Owned, Own
  <2>1. ~(x = g /\ i = n)
    BY <1>2, <1>8
  <2>2. stack'[x][i] = stack[x][i]
    BY <1>8, <2>1
  <2>3. /\ Own(stack[x][i]) \in 1..Len(spans) /\ spans[Own(stack[x][i])].owner = <<x, i>>
        /\ ~spans[Own(stack[x][i])].ended
    BY <2>2 DEF SpanInv, Linked, Owned
  <2>4. Own(stack[x][i]) # s
    BY <1>5, <2>1, <2>3
  <2> QED
    BY <1>6, <2>2, <2>3, <2>4
<1>11. Live'
  <2> SUFFICES ASSUME NEW k \in 1..Len(spans'), ~spans'[k].ended
               PROVE  \E x \in Goroutines : \E i \in 1..Len(stack'[x]) :
                        spans'[k].owner = <<x, i>> /\ Holds(stack'[x][i], k)
    BY DEF Live, Holds, Own
  <2>1. k \in 1..Len(spans) /\ k # s /\ spans'[k] = spans[k]
    BY <1>6
  <2>2. PICK x, i :
          x \in Goroutines /\ i \in 1..Len(stack[x]) /\ spans[k].owner = <<x, i>> /\ Holds(stack[x][i], k)
    BY <2>1 DEF SpanInv, Live
  <2>3. ~(x = g /\ i = n)
    BY <1>2, <1>3, <2>1, <2>2 DEF Holds
  <2> QED
    BY <1>7, <1>8, <2>1, <2>2, <2>3
<1> QED
  BY <1>0, <1>9, <1>10, <1>11, TypeEndSpan DEF SpanInv

LEMMA SpanInit == Init => SpanInv
<1> SUFFICES ASSUME Init PROVE SpanInv
  OBVIOUS
<1>1. PICK fn \in Functions :
        stack = [g \in Goroutines |-> IF g = Main THEN <<NewFrame(fn, Request, 0)>> ELSE <<>>]
  BY DEF Init
<1>2. \A g \in Goroutines : \A i \in 1..Len(stack[g]) : Own(stack[g][i]) = 0
  BY <1>1 DEF NewFrame, Own
<1>3. Linked /\ Owned
  BY <1>2 DEF Linked, Owned
<1>4. Live
  BY DEF Live, Init
<1> QED
  BY <1>3, <1>4, TypeInit DEF SpanInv

LEMMA SpanNext == SpanInv /\ [Next]_vars => SpanInv'
<1> SUFFICES ASSUME SpanInv, [Next]_vars PROVE SpanInv'
  OBVIOUS
<1>1. TypeInv /\ TypeInv'
  BY TypeNext DEF SpanInv
<1>2. CASE UNCHANGED vars
  BY <1>1, <1>2 DEF vars, SpanInv, Linked, Owned, Live, Holds, Own, Chained, Selected
<1>3. ASSUME NEW g \in Goroutines, NEW h \in Goroutines, Call(g, h) PROVE SpanInv'
  <2>1. plan' = plan /\ spans' = spans
    BY <1>3 DEF Call
  <2>2. Continues
    BY <1>1, <1>3, CallEffect, PushesContinues
  <2> QED
    BY <1>1, <2>1, <2>2, ContinuesKeeps
<1>4. ASSUME NEW g \in Goroutines, Skip(g) \/ EnterBody(g) \/ Leave(g) \/ TakeSpan(g)
      PROVE  SpanInv'
  BY <1>1, <1>4, SetsEffect, SetsContinues, ContinuesKeeps
<1>5. ASSUME NEW g \in Goroutines, Guard(g) \/ Deliver(g) PROVE SpanInv'
  BY <1>1, <1>5, PopEffect, PopsContinues, ContinuesKeeps
<1>6. ASSUME NEW g \in Goroutines, Finish(g) PROVE SpanInv'
  BY <1>1, <1>6, FinishEffect, FinishContinues, ContinuesKeeps
<1>7. ASSUME NEW g \in Goroutines, Format(g) PROVE SpanInv'
  BY <1>1, <1>7, FormatEffect, PushesContinues, ContinuesKeeps
<1>8. ASSUME NEW g \in Goroutines, StartSpan(g) PROVE SpanInv'
  BY <1>8, SpanStart
<1>9. ASSUME NEW g \in Goroutines, EndSpan(g) PROVE SpanInv'
  BY <1>9, SpanEnd
<1> QED
  BY <1>2, <1>3, <1>4, <1>5, <1>6, <1>7, <1>8, <1>9 DEF Next, Hook

LEMMA SpanInvariant == Spec => []SpanInv
BY SpanInit, SpanNext, PTL DEF Spec

LEMMA Domains ==
  ASSUME TypeOK
  PROVE  /\ DOMAIN spans = 1..Len(spans)
         /\ \A g \in Goroutines : DOMAIN stack[g] = 1..Len(stack[g])
BY DEF TypeOK

\* A span that is open belongs to exactly one call in progress, and every call works on
\* its own open span: whatever the plan, however deep and on however many goroutines
\* functions call, panic, exit and recover, each span is ended once.
THEOREM OpenSpansAlwaysLive == Spec => []OpenSpansAreLive
<1>1. SpanInv => OpenSpansAreLive
  <2> SUFFICES ASSUME SpanInv PROVE OpenSpansAreLive
    OBVIOUS
  <2>1. /\ DOMAIN spans = 1..Len(spans)
        /\ \A g \in Goroutines : DOMAIN stack[g] = 1..Len(stack[g])
    BY Domains DEF SpanInv, TypeInv
  <2>2. ASSUME NEW g \in Goroutines, NEW i \in DOMAIN stack[g],
               Own(stack[g][i]) # 0, stack[g][i].phase # "left"
        PROVE  /\ Own(stack[g][i]) \in DOMAIN spans
               /\ spans[Own(stack[g][i])].owner = <<g, i>> /\ ~spans[Own(stack[g][i])].ended
    BY <2>1, <2>2 DEF SpanInv, Linked, Owned
  <2>3. ASSUME NEW s \in DOMAIN spans, ~spans[s].ended
        PROVE  LET o == spans[s].owner
               IN  o[2] \in DOMAIN stack[o[1]] /\ Holds(stack[o[1]][o[2]], s)
    <3>1. PICK g, i :
            g \in Goroutines /\ i \in 1..Len(stack[g]) /\ spans[s].owner = <<g, i>> /\ Holds(stack[g][i], s)
      BY <2>1, <2>3 DEF SpanInv, Live
    <3> QED
      BY <2>1, <3>1
  <2> QED
    BY <2>2, <2>3 DEF OpenSpansAreLive
<1> QED
  BY <1>1, SpanInvariant, PTL

\* The parent of a span is the span of the call whose context was handed on to it, and a
\* root target has none, for any chain of calls.
THEOREM ParentAlwaysCaller == Spec => []ParentIsCaller
<1>1. SpanInv => ParentIsCaller
  <2> SUFFICES ASSUME SpanInv PROVE ParentIsCaller
    OBVIOUS
  <2>1. \A g \in Goroutines : DOMAIN stack[g] = 1..Len(stack[g])
    BY Domains DEF SpanInv, TypeInv
  <2> QED
    BY <2>1 DEF SpanInv, Linked, ParentIsCaller
<1> QED
  BY <1>1, SpanInvariant, PTL

-----------------------------------------------------------------------------
(* Recorded errors.                                                         *)

\* The errors among the first j items of the after hook of a target.
Reached(t, failed, j) ==
  {t.errors[k] : k \in {k \in 1..Len(t.errors) : k <= j}} \cap failed

Counted(t, f, j) == IF f.record.recording THEN Reached(t, f.failed, j) ELSE {}

\* The after hook has dealt with its first j items.  Only while it formats an error is
\* the status ahead of the events.
Progress(t, f, j) ==
  /\ j \in Nat /\ Len(AfterItems(t)) = j + Len(f.todo)
  /\ \A i \in 1..Len(f.todo) : f.todo[i] = AfterItems(t)[j + i]
  /\ f.record.exceptions = Cardinality(Counted(t, f, j))
  /\ Counted(t, f, j) # {} => f.record.failed
  /\ f.record.failed => Counted(t, f, Len(t.errors)) # {}

\* What the span of a call has recorded in each phase.
Recorded(t, f) ==
  /\ f.phase \in {"entry", "before", "body", "leaving"} =>
       ~f.record.failed /\ f.record.exceptions = 0
  /\ f.phase = "before" => \A i \in 1..Len(f.todo) : f.todo[i].kind = "text"
  /\ f.phase = "after" => \E j \in Nat : Progress(t, f, j)
  /\ f.phase = "left" /\ f.span # 0 =>
       /\ f.record.failed = (Counted(t, f, Len(t.errors)) # {})
       /\ f.record.exceptions = Cardinality(Counted(t, f, Len(t.errors)))

\* How a body ended is known when it has, and not before.
Told(f) ==
  /\ f.phase \in {"entry", "before", "body"} => f.outcome = "none" /\ f.failed = {}
  /\ f.phase \in {"leaving", "after", "left"} => f.outcome \in {"return", "panic", "exit"}

Follows(t, f) == Recorded(t, f) /\ Told(f)

AllRecorded ==
  \A g \in Goroutines : \A i \in 1..Len(stack[g]) : Follows(plan[stack[g][i].fn], stack[g][i])

\* A method runs for a value that has to be recorded, with the status already set.
RunsFor(f) ==
  /\ Needs(f, Head(f.todo))
  /\ Head(f.todo).kind = "error" => f.record.failed

Formatted ==
  \A g \in Goroutines : \A i \in 1..Len(stack[g]) - 1 :
    stack[g][i + 1].fn = "formatter" => RunsFor(stack[g][i])

RecordInv == AllRecorded /\ Formatted

LEMMA AfterItemsAre ==
  ASSUME NEW t \in Target
  PROVE  /\ Len(t.errors) \in Nat /\ t.results \in Nat
         /\ Len(AfterItems(t)) = Len(t.errors) + t.results
         /\ \A i \in 1..Len(AfterItems(t)) :
              AfterItems(t)[i] = IF i <= Len(t.errors) THEN [kind |-> "error", index |-> t.errors[i]]
                                 ELSE Text
<1> DEFINE a == [i \in DOMAIN t.errors |-> [kind |-> "error", index |-> t.errors[i]]]
           b == [i \in 1..t.results |-> Text]
<1>1. t.errors \in Seq(Results) /\ t.results \in Nat
  BY DEF Target
<1>2. /\ a \in Seq(Item) /\ Len(a) = Len(t.errors)
      /\ \A i \in 1..Len(t.errors) : a[i] = [kind |-> "error", index |-> t.errors[i]]
  BY <1>1 DEF Item
<1>3. b \in Seq(Item) /\ Len(b) = t.results /\ \A i \in 1..t.results : b[i] = Text
  BY <1>1 DEF Item, Text
<1>4. AfterItems(t) = a \o b
  BY DEF AfterItems
<1> HIDE DEF a, b
<1>5. Len(a \o b) = Len(a) + Len(b)
      /\ \A i \in 1..Len(a) + Len(b) : (a \o b)[i] = IF i <= Len(a) THEN a[i] ELSE b[i - Len(a)]
  BY <1>2, <1>3, ConcatProperties
<1>6. ASSUME NEW i \in 1..Len(a) + Len(b)
      PROVE  (a \o b)[i] = IF i <= Len(t.errors) THEN [kind |-> "error", index |-> t.errors[i]] ELSE Text
  <2>1. Len(a) \in Nat /\ Len(b) = t.results /\ t.results \in Nat /\ Len(t.errors) \in Nat
    BY <1>1, <1>2, <1>3
  <2>2. CASE i <= Len(a)
    <3>1. i \in 1..Len(t.errors)
      BY <1>2, <2>1, <2>2
    <3> QED
      BY <1>2, <1>5, <2>2, <3>1
  <2>3. CASE ~(i <= Len(a))
    <3>1. i - Len(a) \in 1..t.results /\ ~(i <= Len(t.errors))
      BY <1>2, <2>1, <2>3
    <3> QED
      BY <1>3, <1>5, <2>3, <3>1
  <2> QED
    BY <2>2, <2>3
<1> QED
  BY <1>1, <1>2, <1>3, <1>4, <1>5, <1>6

\* A target hooks are rendered for.
Hooked(t) == t \in Target /\ t.selected /\ Renderable(t)

LEMMA ReachedFinite ==
  ASSUME NEW t, NEW failed \in SUBSET Results, NEW j
  PROVE  IsFiniteSet(Reached(t, failed, j))
BY HooksAssumption, FS_Subset DEF Reached

LEMMA ReachedBounds ==
  ASSUME NEW t \in Target, NEW failed, NEW j \in Nat
  PROVE  /\ Len(t.errors) \in Nat
         /\ Reached(t, failed, 0) = {}
         /\ Reached(t, failed, j) \subseteq Reached(t, failed, Len(t.errors))
         /\ j >= Len(t.errors) => Reached(t, failed, j) = Reached(t, failed, Len(t.errors))
<1>1. Len(t.errors) \in Nat
  BY DEF Target
<1>2. /\ {k \in 1..Len(t.errors) : k <= 0} = {}
      /\ {k \in 1..Len(t.errors) : k <= j} \subseteq {k \in 1..Len(t.errors) : k <= Len(t.errors)}
      /\ j >= Len(t.errors) =>
           {k \in 1..Len(t.errors) : k <= j} = {k \in 1..Len(t.errors) : k <= Len(t.errors)}
  BY <1>1
<1> QED
  BY <1>1, <1>2 DEF Reached

\* One item further: a configured result that failed is an error of its own, because no
\* result is configured twice.
LEMMA ReachedNext ==
  ASSUME NEW t, Hooked(t), NEW failed, NEW j \in Nat
  PROVE  /\ j + 1 > Len(t.errors) \/ t.errors[j + 1] \notin failed =>
              Reached(t, failed, j + 1) = Reached(t, failed, j)
         /\ j + 1 <= Len(t.errors) /\ t.errors[j + 1] \in failed =>
              /\ t.errors[j + 1] \notin Reached(t, failed, j)
              /\ Reached(t, failed, j + 1) = Reached(t, failed, j) \cup {t.errors[j + 1]}
<1> DEFINE n == Len(t.errors)
           K(i) == {k \in 1..n : k <= i}
<1>1. t.errors \in Seq(Results) /\ n \in Nat /\ DOMAIN t.errors = 1..n
  BY DEF Hooked, Target
<1>3. /\ (j + 1 > n => K(j + 1) = K(j))
      /\ (j + 1 <= n => K(j + 1) = K(j) \cup {j + 1} /\ j + 1 \notin K(j) /\ j + 1 \in 1..n)
  BY <1>1
<1>4. \A i, k \in 1..n : t.errors[i] = t.errors[k] => i = k
  BY <1>1 DEF Hooked, Renderable
<1> HIDE DEF n
<1>5. \A i : Reached(t, failed, i) = {t.errors[k] : k \in K(i)} \cap failed
  BY DEF Reached, n
<1>6. \A k \in K(j) : k \in 1..n
  OBVIOUS
<1> HIDE DEF K
<1>7. ASSUME j + 1 > n \/ t.errors[j + 1] \notin failed
      PROVE  Reached(t, failed, j + 1) = Reached(t, failed, j)
  <2>1. CASE j + 1 > n
    BY <1>3, <1>5, <2>1
  <2>2. CASE j + 1 <= n /\ t.errors[j + 1] \notin failed
    <3>1. {t.errors[k] : k \in K(j + 1)} = {t.errors[k] : k \in K(j)} \cup {t.errors[j + 1]}
      BY <1>3, <2>2
    <3> QED
      BY <1>5, <2>2, <3>1
  <2> QED
    BY <1>1, <1>7, <2>1, <2>2
<1>8. ASSUME j + 1 <= n, t.errors[j + 1] \in failed
      PROVE  /\ t.errors[j + 1] \notin Reached(t, failed, j)
             /\ Reached(t, failed, j + 1) = Reached(t, failed, j) \cup {t.errors[j + 1]}
  BY <1>3, <1>4, <1>5, <1>6, <1>8
<1> QED
  BY <1>7, <1>8 DEF n

\* The value at the head of the after hook is its next item.
LEMMA HeadItem ==
  ASSUME NEW t \in Target, NEW f \in Frame, f.todo # <<>>, NEW j \in Nat, Progress(t, f, j)
  PROVE  /\ j + 1 \in 1..Len(AfterItems(t))
         /\ Len(t.errors) \in Nat
         /\ j + 1 <= Len(t.errors) => Head(f.todo).kind = "error" /\ Head(f.todo).index = t.errors[j + 1]
         /\ j + 1 > Len(t.errors) => Head(f.todo).kind = "text"
         /\ Tail(f.todo) \in Seq(Item) /\ Len(AfterItems(t)) = (j + 1) + Len(Tail(f.todo))
         /\ \A i \in 1..Len(Tail(f.todo)) : Tail(f.todo)[i] = AfterItems(t)[(j + 1) + i]
<1>1. f.todo \in Seq(Item) /\ Len(f.todo) \in Nat \ {0} /\ Head(f.todo) = f.todo[1]
  BY EmptySeq DEF Frame
<1>2. /\ Tail(f.todo) \in Seq(Item) /\ Len(Tail(f.todo)) = Len(f.todo) - 1
      /\ \A i \in 1..Len(Tail(f.todo)) : Tail(f.todo)[i] = f.todo[i + 1]
  BY <1>1
<1>3. j + 1 \in 1..Len(AfterItems(t)) /\ Head(f.todo) = AfterItems(t)[j + 1]
  BY <1>1 DEF Progress
<1>4. ASSUME NEW i \in 1..Len(Tail(f.todo)) PROVE Tail(f.todo)[i] = AfterItems(t)[(j + 1) + i]
  <2>1. i + 1 \in 1..Len(f.todo) /\ j + (i + 1) = (j + 1) + i
    BY <1>1, <1>2
  <2>2. Tail(f.todo)[i] = f.todo[i + 1]
    BY <1>2
  <2>3. f.todo[i + 1] = AfterItems(t)[j + (i + 1)]
    BY <2>1 DEF Progress
  <2> QED
    BY <2>1, <2>2, <2>3
<1>5. /\ Len(t.errors) \in Nat
      /\ AfterItems(t)[j + 1] = IF j + 1 <= Len(t.errors)
                                THEN [kind |-> "error", index |-> t.errors[j + 1]] ELSE Text
  BY <1>3, AfterItemsAre
<1>6. Len(AfterItems(t)) = (j + 1) + Len(Tail(f.todo))
  <2>1. Len(AfterItems(t)) = j + Len(f.todo)
    BY DEF Progress
  <2>2. \A k, m \in Nat : k = m - 1 => j + m = (j + 1) + k
    OBVIOUS
  <2>3. Len(Tail(f.todo)) \in Nat
    BY <1>2
  <2> QED
    BY <1>1, <1>2, <2>1, <2>2, <2>3
<1>7. /\ j + 1 <= Len(t.errors) => Head(f.todo).kind = "error" /\ Head(f.todo).index = t.errors[j + 1]
      /\ j + 1 > Len(t.errors) => Head(f.todo).kind = "text"
  BY <1>3, <1>5 DEF Text
<1> QED
  BY <1>2, <1>3, <1>4, <1>5, <1>6, <1>7

\* What one item adds to what is counted.
LEMMA CountNext ==
  ASSUME NEW t, Hooked(t), NEW f \in Frame, f.todo # <<>>,
         NEW j \in Nat, Progress(t, f, j)
  PROVE  LET error == Needs(f, Head(f.todo)) /\ Head(f.todo).kind = "error"
             one   == IF error THEN 1 ELSE 0
         IN  /\ Cardinality(Counted(t, f, j + 1)) = f.record.exceptions + one
             /\ Counted(t, f, j + 1) # {} => f.record.failed \/ error
             /\ error => Counted(t, f, Len(t.errors)) # {}
<1> DEFINE n == Len(t.errors)
           R(i) == Reached(t, f.failed, i)
           h == Head(f.todo)
<1>1. /\ n \in Nat
      /\ j + 1 <= n => h.kind = "error" /\ h.index = t.errors[j + 1]
      /\ j + 1 > n => h.kind = "text"
  BY HeadItem DEF Hooked
<1>2. f.failed \in SUBSET Results /\ j + 1 \in Nat /\ f.record.recording \in BOOLEAN
  BY DEF Frame, Record
<1>a. t \in Target
  BY DEF Hooked
<1>b. IsFiniteSet(R(j))
  BY <1>2, ReachedFinite
<1>3. /\ j + 1 > n \/ t.errors[j + 1] \notin f.failed => R(j + 1) = R(j)
      /\ j + 1 <= n /\ t.errors[j + 1] \in f.failed =>
           t.errors[j + 1] \notin R(j) /\ R(j + 1) = R(j) \cup {t.errors[j + 1]}
  BY ReachedNext
<1>4. R(j + 1) \subseteq R(n)
  BY <1>2, <1>a, ReachedBounds
<1>5. /\ f.record.exceptions = Cardinality(Counted(t, f, j))
      /\ Counted(t, f, j) # {} => f.record.failed
  BY DEF Progress
<1>6. \A i : Counted(t, f, i) = IF f.record.recording THEN R(i) ELSE {}
  BY DEF Counted
<1>7. Needs(f, h) <=> f.record.recording /\ (h.kind = "error" => h.index \in f.failed)
  BY DEF Needs
<1> HIDE DEF n, R, h
<1>8. Cardinality(R(j)) \in Nat /\ Cardinality({}) = 0
  BY <1>b, FS_CardinalityType, FS_EmptySet
<1>9. CASE f.record.recording /\ h.kind = "error" /\ h.index \in f.failed
  <2>1. j + 1 <= n /\ h.index = t.errors[j + 1]
    BY <1>1, <1>9
  <2>2. h.index \notin R(j) /\ R(j + 1) = R(j) \cup {h.index}
    BY <1>3, <1>9, <2>1
  <2>3. Cardinality(R(j + 1)) = Cardinality(R(j)) + 1
    BY <1>b, <2>2, FS_AddElement
  <2> QED
    BY <1>4, <1>5, <1>6, <1>7, <1>9, <2>2, <2>3 DEF n, h
<1>10. CASE f.record.recording /\ ~(h.kind = "error" /\ h.index \in f.failed)
  <2>1. R(j + 1) = R(j)
    BY <1>1, <1>3, <1>10
  <2>2. ~(Needs(f, h) /\ h.kind = "error")
    BY <1>7, <1>10
  <2> QED
    BY <1>5, <1>6, <1>8, <1>10, <2>1, <2>2 DEF n, h
<1>11. CASE ~f.record.recording
  <2>1. ~(Needs(f, h) /\ h.kind = "error")
    BY <1>7, <1>11
  <2>2. Counted(t, f, j) = {} /\ Counted(t, f, j + 1) = {} /\ f.record.exceptions = 0
    BY <1>5, <1>6, <1>8, <1>11
  <2> QED
    <3>1. ~(Needs(f, Head(f.todo)) /\ Head(f.todo).kind = "error")
      BY <2>1 DEF h
    <3>2. Cardinality(Counted(t, f, j + 1)) = f.record.exceptions + 0
      <4>1. Cardinality(Counted(t, f, j + 1)) = Cardinality({})
        BY <2>2
      <4>2. f.record.exceptions + 0 = 0
        BY <2>2
      <4> QED
        BY <1>8, <4>1, <4>2
    <3> QED
      BY <2>2, <3>1, <3>2
<1> QED
  BY <1>9, <1>10, <1>11

LEMMA SkipRecords ==
  ASSUME NEW t, Hooked(t), NEW f \in Frame, Recorded(t, f),
         f.phase \in {"before", "after"}, f.todo # <<>>, ~Needs(f, Head(f.todo))
  PROVE  Recorded(t, [f EXCEPT !.todo = Tail(@)])
<1> DEFINE d == [f EXCEPT !.todo = Tail(@)]
<1>1. /\ d.phase = f.phase /\ d.record = f.record /\ d.failed = f.failed /\ d.span = f.span
      /\ d.todo = Tail(f.todo)
  BY DEF Frame
<1>2. f.todo \in Seq(Item) /\ Len(f.todo) \in Nat \ {0} /\ f.failed \in SUBSET Results
  BY EmptySeq DEF Frame
<1> SUFFICES Recorded(t, d)
  OBVIOUS
<1> HIDE DEF d
<1>3. CASE f.phase = "before"
  BY <1>1, <1>2, <1>3 DEF Recorded
<1>4. CASE f.phase = "after"
  <2>1. PICK j \in Nat : Progress(t, f, j)
    BY <1>4 DEF Recorded
  <2>2. \A i : Counted(t, d, i) = Counted(t, f, i)
    BY <1>1 DEF Counted
  <2>3. /\ Cardinality(Counted(t, f, j + 1)) = f.record.exceptions
        /\ Counted(t, f, j + 1) # {} => f.record.failed
    <3>1. Cardinality(Counted(t, f, j + 1)) = f.record.exceptions + 0
      BY <2>1, CountNext
    <3>2. Counted(t, f, j + 1) # {} => f.record.failed
      BY <2>1, CountNext
    <3> QED
      BY <3>1, <3>2 DEF Frame, Record
  <2>4. /\ Len(AfterItems(t)) = (j + 1) + Len(Tail(f.todo))
        /\ \A i \in 1..Len(Tail(f.todo)) : Tail(f.todo)[i] = AfterItems(t)[(j + 1) + i]
    BY <2>1, HeadItem DEF Hooked
  <2>5. Progress(t, d, j + 1)
    <3>1. d.record.failed => Counted(t, d, Len(t.errors)) # {}
      BY <1>1, <2>1, <2>2 DEF Progress
    <3>2. /\ d.record.exceptions = Cardinality(Counted(t, d, j + 1))
          /\ Counted(t, d, j + 1) # {} => d.record.failed
      BY <1>1, <2>2, <2>3
    <3>3. d.todo = Tail(f.todo) /\ j + 1 \in Nat
      BY <1>1
    <3>4. /\ j + 1 \in Nat /\ Len(AfterItems(t)) = (j + 1) + Len(d.todo)
          /\ \A i \in 1..Len(d.todo) : d.todo[i] = AfterItems(t)[(j + 1) + i]
      BY <2>4, <3>3, Zenon
    <3> QED
      BY <3>1, <3>2, <3>4 DEF Progress
  <2>6. j + 1 \in Nat
    OBVIOUS
  <2>7. \E k \in Nat : Progress(t, d, k)
    BY <2>5, <2>6
  <2> QED
    BY <1>1, <1>4, <2>7 DEF Recorded
<1> QED
  BY <1>3, <1>4

LEMMA FormatRecords ==
  ASSUME NEW t, Hooked(t), NEW f \in Frame, Recorded(t, f),
         f.phase \in {"before", "after"}, f.todo # <<>>, Needs(f, Head(f.todo)),
         NEW d \in Frame,
         d = [f EXCEPT !.record.failed = @ \/ Head(f.todo).kind = "error"]
  PROVE  Recorded(t, d) /\ RunsFor(d)
<1> DEFINE error == Head(f.todo).kind = "error"
<1>1. /\ d.phase = f.phase /\ d.failed = f.failed /\ d.span = f.span /\ d.todo = f.todo
      /\ d.record.recording = f.record.recording /\ d.record.exceptions = f.record.exceptions
      /\ d.record.failed <=> (f.record.failed \/ error)
  BY DEF Frame, Record
<1>2. f.todo \in Seq(Item) /\ Len(f.todo) \in Nat \ {0} /\ f.failed \in SUBSET Results
      /\ Head(f.todo) = f.todo[1]
  BY EmptySeq DEF Frame
<1>3. RunsFor(d)
  BY <1>1 DEF RunsFor, Needs
<1>4. CASE f.phase = "before"
  <2>1. ~error
    BY <1>2, <1>4 DEF Recorded
  <2> QED
    BY <1>1, <1>3, <1>4, <2>1 DEF Recorded
<1>5. CASE f.phase = "after"
  <2>1. PICK j \in Nat : Progress(t, f, j)
    BY <1>5 DEF Recorded
  <2>2. \A i : Counted(t, d, i) = Counted(t, f, i)
    BY <1>1 DEF Counted
  <2>3. error => Counted(t, f, Len(t.errors)) # {}
    BY <2>1, CountNext
  <2>4. Progress(t, d, j)
    BY <1>1, <2>1, <2>2, <2>3 DEF Progress
  <2> QED
    BY <1>1, <1>3, <1>5, <2>4 DEF Recorded
<1> QED
  BY <1>4, <1>5

LEMMA GuardRecords ==
  ASSUME NEW t, Hooked(t), NEW f \in Frame, Recorded(t, f),
         f.phase \in {"before", "after"}, f.todo # <<>>, RunsFor(f), NEW outcome
  PROVE  Recorded(t, Guarded(f, outcome))
<1> DEFINE d == Guarded(f, outcome)
           one == IF Head(f.todo).kind = "error" THEN 1 ELSE 0
<1>1. /\ d.phase = f.phase /\ d.failed = f.failed /\ d.span = f.span /\ d.todo = Tail(f.todo)
      /\ d.record.recording = f.record.recording /\ d.record.failed = f.record.failed
      /\ d.record.exceptions = f.record.exceptions + one
  BY DEF Guarded, Frame, Record
<1>2. f.todo \in Seq(Item) /\ Len(f.todo) \in Nat \ {0} /\ f.failed \in SUBSET Results
      /\ Head(f.todo) = f.todo[1] /\ f.record.exceptions \in Nat /\ f.record.recording
  BY EmptySeq DEF Frame, Record, RunsFor, Needs
<1> SUFFICES Recorded(t, d)
  OBVIOUS
<1> HIDE DEF d
<1>3. CASE f.phase = "before"
  <2>1. one = 0
    BY <1>2, <1>3 DEF Recorded
  <2>2. \A i \in 1..Len(d.todo) : d.todo[i] = f.todo[i + 1] /\ i + 1 \in 1..Len(f.todo)
    BY <1>1, <1>2
  <2> QED
    <3>1. d.phase = "before" /\ ~d.record.failed /\ d.record.exceptions = 0
      BY <1>1, <1>3, <2>1 DEF Recorded
    <3>2. \A i \in 1..Len(d.todo) : d.todo[i].kind = "text"
      BY <1>3, <2>2 DEF Recorded
    <3> QED
      BY <3>1, <3>2, Zenon DEF Recorded
<1>4. CASE f.phase = "after"
  <2>1. PICK j \in Nat : Progress(t, f, j)
    BY <1>4 DEF Recorded
  <2>2. \A i : Counted(t, d, i) = Counted(t, f, i)
    BY <1>1 DEF Counted
  <2>3. /\ Cardinality(Counted(t, f, j + 1)) = d.record.exceptions
        /\ Counted(t, f, j + 1) # {} => d.record.failed
    <3>1. Needs(f, Head(f.todo)) /\ (Head(f.todo).kind = "error" => f.record.failed)
      BY DEF RunsFor
    <3>2. /\ Cardinality(Counted(t, f, j + 1)) = f.record.exceptions + one
          /\ Counted(t, f, j + 1) # {} => f.record.failed
      BY <2>1, <3>1, CountNext
    <3> QED
      BY <1>1, <3>2
  <2>4. /\ Len(AfterItems(t)) = (j + 1) + Len(Tail(f.todo))
        /\ \A i \in 1..Len(Tail(f.todo)) : Tail(f.todo)[i] = AfterItems(t)[(j + 1) + i]
    BY <2>1, HeadItem DEF Hooked
  <2>5. Progress(t, d, j + 1)
    <3>1. d.record.failed => Counted(t, d, Len(t.errors)) # {}
      BY <1>1, <2>1, <2>2 DEF Progress
    <3>2. /\ d.record.exceptions = Cardinality(Counted(t, d, j + 1))
          /\ Counted(t, d, j + 1) # {} => d.record.failed
      BY <1>1, <2>2, <2>3
    <3>3. /\ j + 1 \in Nat /\ Len(AfterItems(t)) = (j + 1) + Len(d.todo)
          /\ \A i \in 1..Len(d.todo) : d.todo[i] = AfterItems(t)[(j + 1) + i]
      BY <1>1, <2>4
    <3> QED
      BY <3>1, <3>2, <3>3 DEF Progress
  <2>6. j + 1 \in Nat
    OBVIOUS
  <2>7. \E k \in Nat : Progress(t, d, k)
    BY <2>5, <2>6
  <2> QED
    BY <1>1, <1>4, <2>7 DEF Recorded
<1> QED
  BY <1>3, <1>4

LEMMA TakeRecords ==
  ASSUME NEW t, Hooked(t), NEW f \in Frame, Recorded(t, f),
         f.phase = "leaving", NEW d \in Frame, d.phase = "after",
         d.record = f.record, d.failed = f.failed, d.todo = AfterItems(t)
  PROVE  Recorded(t, d)
<1>1. Reached(t, d.failed, 0) = {} /\ Len(AfterItems(t)) \in Nat
  <2>1. t \in Target
    BY DEF Hooked
  <2>2. Reached(t, d.failed, 0) = {}
    BY <2>1, ReachedBounds
  <2> QED
    BY <2>1, <2>2, AfterItemsAre
<1>2. Counted(t, d, 0) = {}
  BY <1>1 DEF Counted
<1>3. Progress(t, d, 0)
  <2>1. ~d.record.failed /\ d.record.exceptions = 0
    BY DEF Recorded
  <2>2. \A i \in 1..Len(AfterItems(t)) : AfterItems(t)[i] = AfterItems(t)[0 + i]
    OBVIOUS
  <2> QED
    <3>1. Len(AfterItems(t)) = 0 + Len(d.todo)
      BY <1>1
    <3>2. Cardinality({}) = 0
      BY FS_EmptySet
    <3> QED
      BY <1>1, <1>2, <2>1, <2>2, <3>1, <3>2 DEF Progress
<1> QED
  BY <1>3 DEF Recorded

LEMMA EndRecords ==
  ASSUME NEW t, Hooked(t), NEW f \in Frame, Recorded(t, f),
         f.phase = "after", f.todo = <<>>
  PROVE  Recorded(t, [f EXCEPT !.phase = "left"])
<1> DEFINE d == [f EXCEPT !.phase = "left"]
<1>1. PICK j \in Nat : Progress(t, f, j)
  BY DEF Recorded
<1>2. j >= Len(t.errors)
  BY <1>1, AfterItemsAre DEF Progress, Hooked
<1>3. Counted(t, f, j) = Counted(t, f, Len(t.errors))
  BY <1>2, ReachedBounds DEF Counted, Hooked
<1>4. /\ d.phase = "left" /\ d.record = f.record /\ d.failed = f.failed
      /\ f.record.failed \in BOOLEAN
  BY DEF Frame, Record
<1> HIDE DEF d
<1>5. Counted(t, d, Len(t.errors)) = Counted(t, f, Len(t.errors))
  BY <1>4 DEF Counted
<1>6. f.record.failed = (Counted(t, f, Len(t.errors)) # {})
  BY <1>1, <1>3, <1>4 DEF Progress
<1>7. Recorded(t, d)
  BY <1>1, <1>3, <1>4, <1>5, <1>6 DEF Recorded, Progress
<1> QED
  BY <1>7 DEF d

LEMMA HookedPlan ==
  ASSUME TypeInv, NEW fn, Selected(fn)
  PROVE  Hooked(plan[fn])
BY PlanTyped DEF Hooked, Selected, TypeInv

LEMMA RecordSets ==
  ASSUME TypeInv, RecordInv, NEW g \in Goroutines, stack[g] # <<>>, NEW d, d.fn = Top(g).fn,
         Sets(g, d), Follows(plan[d.fn], d), plan' = plan
  PROVE  RecordInv'
<1>1. Len(stack[g]) \in Nat \ {0} /\ Top(g) = stack[g][Len(stack[g])]
  BY ShapedTop
<1>2. AllRecorded'
  <2> SUFFICES ASSUME NEW x \in Goroutines, NEW i \in 1..Len(stack'[x])
               PROVE  Follows(plan[stack'[x][i].fn], stack'[x][i])
    BY DEF AllRecorded
  <2> QED
    BY DEF Sets, RecordInv, AllRecorded
<1>3. Formatted'
  <2> SUFFICES ASSUME NEW x \in Goroutines, NEW i \in 1..Len(stack'[x]) - 1,
                      stack'[x][i + 1].fn = "formatter"
               PROVE  RunsFor(stack'[x][i])
    BY DEF Formatted
  <2>1. CASE x # g
    BY <2>1 DEF Sets, RecordInv, Formatted
  <2>2. CASE x = g
    <3>1. i \in 1..Len(stack[g]) - 1 /\ i \in 1..Len(stack[g]) /\ i + 1 \in 1..Len(stack[g])
          /\ i # Len(stack[g])
      BY <1>1, <2>2 DEF Sets
    <3>2. stack'[g][i] = stack[g][i] /\ stack'[g][i + 1].fn = stack[g][i + 1].fn
      BY <1>1, <3>1 DEF Sets
    <3> QED
      BY <2>2, <3>1, <3>2 DEF RecordInv, Formatted
  <2> QED
    BY <2>1, <2>2
<1> QED
  BY <1>2, <1>3 DEF RecordInv

LEMMA RecordPushes ==
  ASSUME TypeInv, RecordInv, NEW h \in Goroutines, NEW f, NEW d, Pushes(h, f, d),
         Follows(plan[d.fn], d), plan' = plan,
         stack[h] # <<>> => /\ f.fn = Top(h).fn /\ Follows(plan[f.fn], f)
                            /\ d.fn = "formatter" => RunsFor(f)
  PROVE  RecordInv'
<1> DEFINE n == Len(stack[h])
<1>1. /\ stack[h] \in Seq(Frame) /\ n \in Nat /\ (stack[h] = <<>> <=> n = 0)
      /\ Top(h) = stack[h][n]
  BY EmptySeq DEF Top, TypeInv, TypeOK
<1>2. /\ Len(stack'[h]) = n + 1 /\ stack'[h][n + 1] = d
      /\ \A i \in 1..n : stack'[h][i] = IF i = n THEN f ELSE stack[h][i]
  BY DEF Pushes
<1>3. n # 0 => /\ f.fn = stack[h][n].fn /\ Follows(plan[f.fn], f)
               /\ d.fn = "formatter" => RunsFor(f)
  BY <1>1
<1> HIDE DEF n
<1>4. n = Len(stack[h])
  BY DEF n
<1>5. AllRecorded'
  <2> SUFFICES ASSUME NEW x \in Goroutines, NEW i \in 1..Len(stack'[x])
               PROVE  Follows(plan[stack'[x][i].fn], stack'[x][i])
    BY DEF AllRecorded
  <2>1. CASE x # h
    BY <2>1 DEF Pushes, RecordInv, AllRecorded
  <2>2. CASE x = h /\ i = n + 1
    BY <1>2, <2>2
  <2>3. CASE x = h /\ i \in 1..n
    BY <1>2, <1>3, <1>4, <2>3 DEF RecordInv, AllRecorded
  <2> QED
    BY <1>1, <1>2, <2>1, <2>2, <2>3
<1>6. Formatted'
  <2> SUFFICES ASSUME NEW x \in Goroutines, NEW i \in 1..Len(stack'[x]) - 1,
                      stack'[x][i + 1].fn = "formatter"
               PROVE  RunsFor(stack'[x][i])
    BY DEF Formatted
  <2>1. CASE x # h
    BY <2>1 DEF Pushes, RecordInv, Formatted
  <2>2. CASE x = h /\ i = n
    BY <1>1, <1>2, <1>3, <2>2
  <2>3. CASE x = h /\ i # n
    <3>1. i \in 1..n - 1 /\ i \in 1..n /\ i + 1 \in 1..n
      BY <1>1, <1>2, <2>3
    <3>2. stack'[h][i] = stack[h][i] /\ stack'[h][i + 1].fn = stack[h][i + 1].fn
      BY <1>1, <1>2, <1>3, <2>3, <3>1
    <3> QED
      BY <1>4, <2>3, <3>1, <3>2 DEF RecordInv, Formatted
  <2> QED
    BY <2>1, <2>2, <2>3
<1> QED
  BY <1>5, <1>6 DEF RecordInv

LEMMA RecordPops ==
  ASSUME TypeInv, RecordInv, NEW g \in Goroutines, NEW d, Pops(g, d),
         d.fn = stack[g][Len(stack[g]) - 1].fn, Follows(plan[d.fn], d), plan' = plan
  PROVE  RecordInv'
<1> DEFINE n == Len(stack[g]) - 1
<1>1. n \in Nat \ {0} /\ Len(stack[g]) = n + 1
  BY DEF TypeInv, TypeOK, Pops
<1>2. /\ Len(stack'[g]) = n /\ d.fn = stack[g][n].fn
      /\ \A i \in 1..n : stack'[g][i] = IF i = n THEN d ELSE stack[g][i]
  BY DEF Pops
<1> HIDE DEF n
<1>3. AllRecorded'
  <2> SUFFICES ASSUME NEW x \in Goroutines, NEW i \in 1..Len(stack'[x])
               PROVE  Follows(plan[stack'[x][i].fn], stack'[x][i])
    BY DEF AllRecorded
  <2>1. CASE x # g
    BY <2>1 DEF Pops, RecordInv, AllRecorded
  <2>2. CASE x = g
    <3>1. i \in 1..n /\ i \in 1..Len(stack[g])
      BY <1>1, <1>2, <2>2
    <3> QED
      BY <1>2, <2>2, <3>1 DEF RecordInv, AllRecorded
  <2> QED
    BY <2>1, <2>2
<1>4. Formatted'
  <2> SUFFICES ASSUME NEW x \in Goroutines, NEW i \in 1..Len(stack'[x]) - 1,
                      stack'[x][i + 1].fn = "formatter"
               PROVE  RunsFor(stack'[x][i])
    BY DEF Formatted
  <2>1. CASE x # g
    BY <2>1 DEF Pops, RecordInv, Formatted
  <2>2. CASE x = g
    <3>1. i \in 1..Len(stack[g]) - 1 /\ i \in 1..n /\ i + 1 \in 1..n /\ i # n
      BY <1>1, <1>2, <2>2
    <3>2. stack'[g][i] = stack[g][i] /\ stack'[g][i + 1].fn = stack[g][i + 1].fn
      BY <1>2, <3>1
    <3> QED
      BY <2>2, <3>1, <3>2 DEF RecordInv, Formatted
  <2> QED
    BY <2>1, <2>2
<1> QED
  BY <1>3, <1>4 DEF RecordInv

\* The innermost frame and its target.
LEMMA RecordedTop ==
  ASSUME TypeInv, RecordInv, NEW g \in Goroutines, stack[g] # <<>>
  PROVE  /\ Top(g) \in Frame /\ Shaped(Top(g)) /\ Follows(plan[Top(g).fn], Top(g))
         /\ Top(g).phase \in {"entry", "before", "leaving", "after"} => Hooked(plan[Top(g).fn])
<1>1. Len(stack[g]) \in Nat \ {0} /\ Top(g) = stack[g][Len(stack[g])] /\ Top(g) \in Frame /\ Shaped(Top(g))
  BY ShapedTop
<1> QED
  BY <1>1, HookedPlan DEF RecordInv, AllRecorded, Shaped

LEMMA NewRecorded ==
  ASSUME NEW t, NEW fn, NEW c, NEW trail
  PROVE  Follows(t, NewFrame(fn, c, trail))
BY DEF Follows, Recorded, Told, NewFrame, Blank

LEMMA LeftRecorded ==
  ASSUME TypeInv, NEW f \in Frame, f.phase = "body", Shaped(f), Follows(plan[f.fn], f),
         NEW outcome \in {"return", "panic", "exit"}, NEW failed \in SUBSET Results
  PROVE  Follows(plan[f.fn], Left(f, outcome, failed))
<1> DEFINE d == Left(f, outcome, failed)
<1>1. /\ d.phase = (IF Selected(f.fn) THEN "leaving" ELSE "left")
      /\ d.record = f.record /\ d.span = f.span /\ d.outcome = outcome
  BY DEF Left, Frame
<1>2. ~f.record.failed /\ f.record.exceptions = 0 /\ (~Selected(f.fn) => f.span = 0)
  BY DEF Follows, Recorded, Shaped
<1> HIDE DEF d
<1>3. Recorded(plan[f.fn], d)
  BY <1>1, <1>2 DEF Recorded
<1>4. Told(d)
  BY <1>1 DEF Told
<1> QED
  BY <1>3, <1>4 DEF d, Follows

LEMMA RecordCall ==
  ASSUME TypeInv, RecordInv, NEW g \in Goroutines, NEW h \in Goroutines, Call(g, h)
  PROVE  RecordInv'
<1>1. PICK fn \in Functions, c \in {Top(g).context, Background, NilContext} :
        LET d == NewFrame(fn, c, IF c = Top(g).context THEN Trail(Top(g)) ELSE 0)
        IN  Fresh(d) /\ d.fn = fn /\ Pushes(h, Top(h), d)
  BY CallEffect
<1> DEFINE d == NewFrame(fn, c, IF c = Top(g).context THEN Trail(Top(g)) ELSE 0)
<1>2. Pushes(h, Top(h), d) /\ d.fn # "formatter" /\ plan' = plan
  BY <1>1, HooksAssumption DEF Call
<1>3. Follows(plan[d.fn], d)
  BY NewRecorded
<1> HIDE DEF d
<1> QED
  BY <1>2, <1>3, RecordedTop, RecordPushes

\* What is seen of a call from outside.
Argument(p, fn) == fn \in Functions /\ p[fn].selected /\ p[fn].context = "argument"

ShownValue(p, f) ==
  IF f.phase = "entry" /\ Argument(p, f.fn) THEN StartContext(p[f.fn], f.context).value
  ELSE f.context.value

Shown(p, f) ==
  [fn |-> f.fn, value |-> ShownValue(p, f), outcome |-> f.outcome, failed |-> f.failed,
   heard |-> f.heard]

\* The hook starts the span and hands on what it was given.
LEMMA RecordStart ==
  ASSUME TypeInv, RecordInv, NEW g \in Goroutines, StartSpan(g)
  PROVE  /\ stack[g] # <<>> /\ UNCHANGED <<plan, crashed, printed>>
         /\ \E d : /\ d.fn = Top(g).fn /\ Sets(g, d) /\ Follows(plan[d.fn], d)
                  /\ Shown(plan, d) = Shown(plan, Top(g))
<1> DEFINE f == Top(g)
           t == plan[f.fn]
<1>1. stack[g] # <<>> /\ f \in Frame /\ Selected(f.fn) /\ t \in Target /\ f.phase = "entry"
  BY EntryTop, HookedPlan DEF Hooked
<1>2. ~Disturbed(t)
  BY <1>1, NoneDisturbed DEF TypeInv, Selected
<1>3. PICK recording \in BOOLEAN :
        stack' = WithTop(g, [f EXCEPT !.phase = "before", !.data = Len(spans) + 1,
                                      !.record = Blank(recording),
                                      !.context = BodyContext(t, f.context, Len(spans) + 1),
                                      !.todo = [i \in 1..t.arguments |-> Text]])
  BY <1>2 DEF StartSpan
<1> DEFINE d == [f EXCEPT !.phase = "before", !.data = Len(spans) + 1, !.record = Blank(recording),
                          !.context = BodyContext(t, f.context, Len(spans) + 1),
                          !.todo = [i \in 1..t.arguments |-> Text]]
<1>4. d \in Frame
  <2>1. BodyContext(t, f.context, Len(spans) + 1) \in Context
    <3>1. Len(spans) + 1 \in Nat /\ f.context \in Context
      BY <1>1 DEF Frame, TypeInv, TypeOK
    <3> QED
      BY <1>1, <3>1, BodyContextTyped
  <2>2. [i \in 1..t.arguments |-> Text] \in Seq(Item) /\ Len(spans) + 1 \in Nat
    BY <1>1, ArgumentsTyped DEF TypeInv, TypeOK
  <2>3. Blank(recording) \in Record
    BY DEF Blank, Record
  <2> HIDE DEF f, t
  <2> QED
    BY <1>1, <2>1, <2>2, <2>3 DEF Frame
<1>5. /\ d.fn = f.fn /\ d.phase = "before" /\ d.record = Blank(recording)
      /\ d.todo = [i \in 1..t.arguments |-> Text]
      /\ d.context = BodyContext(t, f.context, Len(spans) + 1)
      /\ d.outcome = f.outcome /\ d.failed = f.failed /\ d.heard = f.heard
  BY <1>1 DEF Frame
<1>6. \A i \in 1..Len(d.todo) : d.todo[i] = Text
  BY <1>1, <1>5 DEF Target
<1>7. Sets(g, d)
  BY <1>1, <1>3, <1>4, WithTopSets DEF TypeInv
<1> HIDE DEF d
<1>8. Recorded(plan[d.fn], d)
  <2>1. ~d.record.failed /\ d.record.exceptions = 0
    BY <1>5 DEF Blank
  <2>2. \A i \in 1..Len(d.todo) : d.todo[i].kind = "text"
    BY <1>6 DEF Text
  <2> QED
    BY <1>5, <2>1, <2>2 DEF Recorded
<1>9. Told(d)
  BY <1>1, <1>5, RecordedTop DEF Told, Follows
<1>10. UNCHANGED <<plan, crashed, printed>>
  BY <1>2 DEF StartSpan
<1>11. ShownValue(plan, d) = ShownValue(plan, f)
  <2>1. f.context \in Context /\ f.fn \in Functions /\ t.selected
    BY <1>1 DEF Frame, Selected
  <2>2. StartContext(t, f.context) \in Context
    BY <1>1, <2>1, BodyContextTyped
  <2>3. CASE t.context = "argument"
    BY <1>1, <1>5, <2>1, <2>2, <2>3 DEF ShownValue, Argument, BodyContext, Context
  <2>4. CASE t.context # "argument"
    BY <1>1, <1>5, <2>1, <2>4 DEF ShownValue, Argument, BodyContext
  <2> QED
    BY <2>3, <2>4
<1>12. Shown(plan, d) = Shown(plan, f)
  BY <1>5, <1>11 DEF Shown
<1> QED
  BY <1>1, <1>5, <1>7, <1>8, <1>9, <1>10, <1>12 DEF Follows

\* The other steps of a hook that call nothing.
LEMMA RecordTop ==
  ASSUME TypeInv, RecordInv, NEW g \in Goroutines,
         Skip(g) \/ EnterBody(g) \/ TakeSpan(g) \/ EndSpan(g)
  PROVE  /\ stack[g] # <<>> /\ UNCHANGED <<plan, crashed, printed>>
         /\ \E d : /\ d.fn = Top(g).fn /\ Sets(g, d) /\ Follows(plan[d.fn], d)
                  /\ Shown(plan, d) = Shown(plan, Top(g))
<1> DEFINE f == Top(g)
           t == plan[f.fn]
<1>1. stack[g] # <<>> /\ UNCHANGED <<plan, crashed, printed>>
  BY DEF Skip, EnterBody, TakeSpan, EndSpan, HookRuns, At
<1>2. /\ f \in Frame /\ Shaped(f) /\ Recorded(t, f) /\ Told(f)
      /\ f.phase \in {"entry", "before", "leaving", "after"} => Hooked(t)
  BY <1>1, RecordedTop DEF Follows
<1> DEFINE Similar(d) ==
             /\ d.fn = f.fn /\ d.context = f.context /\ d.outcome = f.outcome
             /\ d.failed = f.failed /\ d.heard = f.heard
             /\ \/ d.phase = f.phase
                \/ f.phase = "before" /\ d.phase = "body"
                \/ f.phase \in {"leaving", "after"} /\ d.phase \in {"after", "left"}
<1>a. ASSUME NEW d, Similar(d), f.phase # "entry" PROVE Told(d) /\ Shown(plan, d) = Shown(plan, f)
  BY <1>2, <1>a DEF Told, Shown, ShownValue
<1>b. f.phase # "entry"
  BY DEF Skip, EnterBody, TakeSpan, EndSpan, HookRuns, At
<1> HIDE DEF Similar
<1> SUFFICES \E d \in Frame : stack' = WithTop(g, d) /\ Similar(d) /\ Recorded(t, d)
  <2>1. PICK d \in Frame : stack' = WithTop(g, d) /\ Similar(d) /\ Recorded(t, d)
    OBVIOUS
  <2>2. d.fn = f.fn
    BY <2>1 DEF Similar
  <2>3. Sets(g, d)
    BY <1>1, <2>1, WithTopSets DEF TypeInv
  <2>4. Follows(plan[d.fn], d) /\ Shown(plan, d) = Shown(plan, f)
    BY <1>a, <1>b, <2>1, <2>2 DEF Follows
  <2> QED
    BY <1>1, <2>2, <2>3, <2>4
<1>3. CASE Skip(g)
  <2> DEFINE d == [f EXCEPT !.todo = Tail(@)]
  <2>1. /\ f.phase \in {"before", "after"} /\ f.todo # <<>> /\ ~Needs(f, Head(f.todo))
        /\ stack' = WithTop(g, d)
    BY <1>3 DEF Skip, HookRuns, At
  <2>2. Tail(f.todo) \in Seq(Item)
    BY <1>2, <2>1 DEF Frame
  <2>3. d \in Frame /\ Similar(d)
    BY <1>2, <2>2 DEF Frame, Similar
  <2>4. Recorded(t, d)
    BY <1>2, <2>1, SkipRecords
  <2> QED
    BY <2>1, <2>3, <2>4
<1>4. CASE EnterBody(g)
  <2> DEFINE d == [f EXCEPT !.phase = "body"]
  <2>1. f.phase = "before" /\ stack' = WithTop(g, d)
    BY <1>4 DEF EnterBody, At
  <2>2. d \in Frame /\ Similar(d) /\ d.record = f.record /\ d.phase = "body"
    BY <1>2, <2>1 DEF Frame, Similar
  <2>3. Recorded(t, d)
    BY <1>2, <2>1, <2>2 DEF Recorded
  <2> QED
    BY <2>1, <2>2, <2>3
<1>6. CASE TakeSpan(g) /\ f.data = 0
  <2> DEFINE d == [f EXCEPT !.phase = "left"]
  <2>1. f.phase = "leaving" /\ stack' = WithTop(g, d)
    BY <1>6 DEF TakeSpan, At, Kept
  <2>2. d \in Frame /\ Similar(d) /\ d.phase = "left" /\ d.span = 0
    BY <1>2, <2>1 DEF Frame, Shaped, Similar
  <2>3. Recorded(t, d)
    BY <2>2 DEF Recorded
  <2> QED
    BY <2>1, <2>2, <2>3
<1>7. CASE TakeSpan(g) /\ f.data # 0
  <2> DEFINE d == [f EXCEPT !.phase = "after", !.span = f.data, !.data = 0, !.todo = AfterItems(t)]
  <2>1. f.phase = "leaving" /\ stack' = WithTop(g, d)
    BY <1>7 DEF TakeSpan, At, Kept
  <2>2. AfterItems(t) \in Seq(Item)
    BY <1>2, <2>1, AfterItemsTyped DEF Hooked
  <2>3. /\ d \in Frame /\ Similar(d) /\ d.phase = "after" /\ d.record = f.record
        /\ d.failed = f.failed /\ d.todo = AfterItems(t)
    BY <1>2, <2>1, <2>2 DEF Frame, Similar
  <2>4. Recorded(t, d)
    BY <1>2, <2>1, <2>3, TakeRecords
  <2> QED
    BY <2>1, <2>3, <2>4
<1>8. CASE EndSpan(g)
  <2> DEFINE d == [f EXCEPT !.phase = "left"]
  <2>1. f.phase = "after" /\ f.todo = <<>> /\ stack' = WithTop(g, d)
    BY <1>8 DEF EndSpan, At
  <2>2. d \in Frame /\ Similar(d)
    BY <1>2, <2>1 DEF Frame, Similar
  <2>3. Recorded(t, d)
    BY <1>2, <2>1, EndRecords
  <2> QED
    BY <2>1, <2>2, <2>3
<1> QED
  BY <1>3, <1>4, <1>6, <1>7, <1>8

\* A body ends.
LEMMA RecordLeave ==
  ASSUME TypeInv, RecordInv, NEW g \in Goroutines, Leave(g)
  PROVE  /\ stack[g] # <<>> /\ Top(g).phase = "body" /\ ~crashed /\ UNCHANGED <<plan, crashed, printed>>
         /\ \E outcome \in {"return", "panic", "exit"}, failed \in SUBSET Results :
              LET d == Left(Top(g), outcome, failed)
              IN  d.fn = Top(g).fn /\ Sets(g, d) /\ Follows(plan[d.fn], d)
<1> DEFINE f == Top(g)
<1>1. stack[g] # <<>> /\ f.phase = "body" /\ ~crashed /\ UNCHANGED <<plan, crashed, printed>>
  BY DEF Leave, At
<1>2. f \in Frame /\ Shaped(f) /\ Follows(plan[f.fn], f)
  BY <1>1, RecordedTop
<1>3. PICK outcome \in {"return", "panic", "exit"}, failed \in Failures :
        stack' = WithTop(g, Left(f, outcome, failed))
  BY DEF Leave
<1>4. outcome \in Outcomes /\ failed \in SUBSET Results
  BY HooksAssumption DEF Outcomes
<1>5. Left(f, outcome, failed) \in Frame
  BY <1>2, <1>4, LeftTyped
<1>6. Left(f, outcome, failed).fn = f.fn
  BY <1>2 DEF Left, Frame
<1>7. Follows(plan[f.fn], Left(f, outcome, failed))
  BY <1>1, <1>2, <1>4, LeftRecorded
<1>8. Sets(g, Left(f, outcome, failed))
  BY <1>1, <1>3, <1>5, WithTopSets DEF TypeInv
<1> QED
  BY <1>1, <1>4, <1>6, <1>7, <1>8

LEMMA RecordFormat ==
  ASSUME TypeInv, RecordInv, NEW g \in Goroutines, Format(g)
  PROVE  /\ stack[g] # <<>> /\ UNCHANGED <<plan, crashed, printed>>
         /\ \E d, e : /\ Pushes(g, d, e) /\ d.fn = Top(g).fn /\ e.fn = "formatter"
                     /\ Follows(plan[d.fn], d) /\ Follows(plan[e.fn], e) /\ RunsFor(d)
                     /\ Shown(plan, d) = Shown(plan, Top(g))
<1> DEFINE f == Top(g)
           t == plan[f.fn]
           error == Head(f.todo).kind = "error"
           d == [f EXCEPT !.record.failed = @ \/ Head(f.todo).kind = "error"]
           e == NewFrame("formatter", Background, 0)
<1>1. /\ stack[g] # <<>> /\ f.phase \in {"before", "after"} /\ f.todo # <<>>
      /\ Needs(f, Head(f.todo)) /\ UNCHANGED <<plan, crashed, printed>>
  BY DEF Format, HookRuns, At
<1>2. f \in Frame /\ Hooked(t) /\ Recorded(t, f) /\ Told(f) /\ f = stack[g][Len(stack[g])]
  BY <1>1, RecordedTop DEF Top, Follows
<1>3. stack' = [stack EXCEPT ![g] = Append([@ EXCEPT ![Len(@)] = d], e)]
  BY <1>2 DEF Format
<1>4. /\ d \in Frame /\ d.fn = f.fn /\ d.phase = f.phase /\ d.context = f.context
      /\ d.outcome = f.outcome /\ d.failed = f.failed /\ d.heard = f.heard
  <2>1. (f.record.failed \/ error) \in BOOLEAN
    OBVIOUS
  <2>2. d = [f EXCEPT !.record = [f.record EXCEPT !.failed = f.record.failed \/ error]]
    OBVIOUS
  <2> HIDE DEF error
  <2>3. [f.record EXCEPT !.failed = f.record.failed \/ error] \in Record
    BY <1>2, <2>1 DEF Frame, Record
  <2> QED
    BY <1>2, <2>2, <2>3 DEF Frame
<1>5. Recorded(t, d) /\ RunsFor(d)
  BY <1>1, <1>2, <1>4, FormatRecords
<1>6. e \in Frame /\ e.fn = "formatter" /\ Follows(plan[e.fn], e)
  BY FrameMade, ContextsTyped, NewRecorded DEF NewFrame
<1> HIDE DEF d, e
<1>7. Pushes(g, d, e)
  BY <1>1, <1>3, <1>4, <1>6, SetAppendPushes DEF TypeInv
<1>8. Told(d) /\ Shown(plan, d) = Shown(plan, f)
  BY <1>1, <1>2, <1>4 DEF Told, Shown, ShownValue
<1> QED
  BY <1>1, <1>4, <1>5, <1>6, <1>7, <1>8 DEF Follows

\* The frame below the innermost one.
LEMMA CallerRecorded ==
  ASSUME TypeInv, RecordInv, NEW g \in Goroutines, NEW n \in Nat \ {0}, Len(stack[g]) = n + 1
  PROVE  /\ stack[g][n] \in Frame /\ Shaped(stack[g][n])
         /\ Follows(plan[stack[g][n].fn], stack[g][n])
         /\ SubSeq(stack[g], 1, n)[n] = stack[g][n]
         /\ Top(g) \in Frame /\ Told(Top(g))
         /\ Top(g).fn = "formatter" =>
              /\ stack[g][n].phase \in {"before", "after"} /\ stack[g][n].todo # <<>>
              /\ RunsFor(stack[g][n]) /\ Hooked(plan[stack[g][n].fn])
         /\ Top(g).fn # "formatter" => stack[g][n].phase = "body"
<1>1. n \in 1..Len(stack[g]) /\ n \in 1..Len(stack[g]) - 1 /\ n + 1 \in 1..Len(stack[g])
  OBVIOUS
<1>2. stack[g] \in Seq(Frame)
  BY DEF TypeInv, TypeOK
<1>3. SubSeq(stack[g], 1, n)[n] = stack[g][n] /\ stack[g][n + 1] \in Frame
  <2> DEFINE s == stack[g]
  <2>1. s \in Seq(Frame) /\ Len(s) = n + 1
    BY <1>2
  <2> HIDE DEF s
  <2>2. \A f \in Frame : s[n + 1] \in Frame /\ SubSeq(s, 1, n)[n] = s[n]
    BY <2>1, PopType
  <2>3. s[n + 1] \in Frame
    BY <1>1, <2>1
  <2> QED
    BY <2>2, <2>3 DEF s
<1>4. /\ stack[g][n] \in Frame /\ Shaped(stack[g][n]) /\ Top(g) = stack[g][n + 1]
      /\ IF Top(g).fn = "formatter" THEN stack[g][n].phase \in {"before", "after"} /\ stack[g][n].todo # <<>>
         ELSE stack[g][n].phase = "body"
  BY CallerFrame
<1>5. /\ Follows(plan[stack[g][n].fn], stack[g][n])
      /\ Follows(plan[stack[g][n + 1].fn], stack[g][n + 1])
      /\ Top(g).fn = "formatter" => RunsFor(stack[g][n])
  BY <1>1, <1>4 DEF RecordInv, AllRecorded, Formatted
<1>6. stack[g][n].phase \in {"before", "after"} => Hooked(plan[stack[g][n].fn])
  BY <1>4, HookedPlan DEF Shaped
<1> QED
  BY <1>3, <1>4, <1>5, <1>6 DEF Follows

LEMMA RecordGuard ==
  ASSUME TypeInv, RecordInv, NEW g \in Goroutines, Guard(g)
  PROVE  /\ stack[g] # <<>> /\ Top(g).fn = "formatter" /\ UNCHANGED <<plan, crashed, printed>>
         /\ \E d : /\ Pops(g, d) /\ d.fn = stack[g][Len(stack[g]) - 1].fn
                  /\ Follows(plan[d.fn], d)
                  /\ Shown(plan, d) = Shown(plan, stack[g][Len(stack[g]) - 1])
<1> DEFINE n == Len(stack[g]) - 1
           f == stack[g][n]
           t == plan[f.fn]
           d == Guarded(f, Top(g).outcome)
<1>1. stack[g] # <<>> /\ Top(g).fn = "formatter" /\ UNCHANGED <<plan, crashed, printed>>
  BY DEF Guard, At
<1>2. Len(stack[g]) \in Nat /\ Len(stack[g]) > 1
  BY <1>1, ShapedTop, FirstFrame
<1>3. n \in Nat \ {0} /\ Len(stack[g]) = n + 1
  <2>1. \A k \in Nat : k > 1 => k - 1 \in Nat \ {0} /\ k = (k - 1) + 1
    OBVIOUS
  <2> QED
    BY <1>2, <2>1
<1>4. /\ f \in Frame /\ Shaped(f) /\ Follows(t, f) /\ SubSeq(stack[g], 1, n)[n] = f
      /\ f.phase \in {"before", "after"} /\ f.todo # <<>> /\ RunsFor(f) /\ Hooked(t)
  BY <1>1, <1>3, CallerRecorded
<1>5. stack' = [stack EXCEPT ![g] = [SubSeq(@, 1, n) EXCEPT ![n] = d]]
  BY <1>4 DEF Guard
<1>6. d \in Frame
  BY <1>4, GuardedTyped
<1>7. /\ d.fn = f.fn /\ d.phase = f.phase /\ d.context = f.context /\ d.outcome = f.outcome
      /\ d.failed = f.failed /\ d.heard = f.heard
  BY <1>4 DEF Guarded, Frame
<1>8. Recorded(t, d)
  BY <1>4, GuardRecords DEF Follows
<1>9. Told(d) /\ Shown(plan, d) = Shown(plan, f)
  BY <1>4, <1>7 DEF Follows, Told, Shown, ShownValue
<1> HIDE DEF d
<1>10. Pops(g, d)
  <2> HIDE DEF n
  <2> QED
    BY <1>3, <1>5, <1>6, SubSeqPops DEF TypeInv
<1> QED
  BY <1>1, <1>7, <1>8, <1>9, <1>10 DEF Follows

\* The caller of g hears how the innermost call ended.
Hears(g, f) == [f EXCEPT !.heard = [outcome |-> Top(g).outcome, failed |-> Top(g).failed]]

LEMMA RecordDeliver ==
  ASSUME TypeInv, RecordInv, NEW g \in Goroutines, Deliver(g)
  PROVE  LET f == stack[g][Len(stack[g]) - 1]
         IN  /\ stack[g] # <<>> /\ Len(stack[g]) > 1 /\ ~crashed /\ UNCHANGED <<plan, crashed, printed>>
             /\ Top(g).phase = "left" /\ Top(g).fn # "formatter" /\ f.phase = "body"
             /\ \E outcome \in Ends(Top(g).outcome), failed \in SUBSET Results :
                  LET d == IF outcome = "none" THEN Hears(g, f) ELSE Left(Hears(g, f), outcome, failed)
                  IN  Pops(g, d) /\ d.fn = f.fn /\ Follows(plan[d.fn], d)
<1> DEFINE n == Len(stack[g]) - 1
           f == stack[g][n]
           t == plan[f.fn]
           r == Hears(g, f)
<1>1. /\ stack[g] # <<>> /\ Len(stack[g]) > 1 /\ ~crashed /\ UNCHANGED <<plan, crashed, printed>>
      /\ Top(g).phase = "left" /\ Top(g).fn # "formatter"
  BY DEF Deliver, At
<1>2. Len(stack[g]) \in Nat
  BY <1>1, ShapedTop
<1>3. n \in Nat \ {0} /\ Len(stack[g]) = n + 1
  <2>1. \A k \in Nat : k > 1 => k - 1 \in Nat \ {0} /\ k = (k - 1) + 1
    OBVIOUS
  <2> QED
    BY <1>1, <1>2, <2>1
<1>4. /\ f \in Frame /\ Shaped(f) /\ Follows(t, f) /\ SubSeq(stack[g], 1, n)[n] = f
      /\ Top(g) \in Frame /\ Told(Top(g)) /\ f.phase = "body"
  BY <1>1, <1>3, CallerRecorded
<1>5. PICK outcome \in Ends(Top(g).outcome), failed \in Failures :
        stack' = [stack EXCEPT ![g] = [SubSeq(@, 1, n) EXCEPT ![n] =
                    IF outcome = "none" THEN r ELSE Left(r, outcome, failed)]]
  BY <1>4 DEF Deliver, Hears
<1>6. failed \in SUBSET Results /\ outcome \in Outcomes
      /\ (outcome # "none" => outcome \in {"return", "panic", "exit"})
  BY HooksAssumption DEF Ends, Outcomes
<1>7. r \in Frame /\ r.phase = "body" /\ r.fn = f.fn /\ r.record = f.record /\ r.span = f.span
      /\ r.data = f.data /\ r.trail = f.trail /\ r.context = f.context
      /\ r.outcome = f.outcome /\ r.failed = f.failed
  BY <1>4 DEF Frame, Hears
<1> HIDE DEF r
<1>8. Follows(t, r) /\ Shaped(r)
  BY <1>4, <1>7 DEF Follows, Recorded, Told, Shaped, Own
<1>9. Left(r, outcome, failed) \in Frame
  BY <1>6, <1>7, LeftTyped
<1>10. Left(r, outcome, failed).fn = f.fn
  BY <1>7 DEF Left, Frame
<1>11. outcome # "none" => Follows(t, Left(r, outcome, failed))
  BY <1>6, <1>7, <1>8, LeftRecorded
<1> DEFINE d == IF outcome = "none" THEN r ELSE Left(r, outcome, failed)
<1>12. d \in Frame /\ d.fn = f.fn /\ Follows(t, d)
  BY <1>7, <1>8, <1>9, <1>10, <1>11
<1>13. Pops(g, d)
  <2>1. stack' = [stack EXCEPT ![g] = [SubSeq(@, 1, n) EXCEPT ![n] = d]]
    BY <1>5
  <2> HIDE DEF n, d
  <2> QED
    BY <1>3, <1>12, <2>1, SubSeqPops DEF TypeInv
<1> QED
  BY <1>1, <1>4, <1>6, <1>12, <1>13 DEF r

LEMMA RecordFinish ==
  ASSUME TypeInv, RecordInv, NEW g \in Goroutines, Finish(g)
  PROVE  RecordInv'
<1>1. /\ Len(stack'[g]) = 0 /\ \A x \in Goroutines \ {g} : stack'[x] = stack[x]
      /\ plan' = plan
  BY FinishEffect
<1>2. \A i \in 1..Len(stack'[g]) : FALSE
  BY <1>1
<1>3. \A i \in 1..Len(stack'[g]) - 1 : FALSE
  BY <1>1
<1>4. AllRecorded'
  BY <1>1, <1>2 DEF RecordInv, AllRecorded
<1>5. Formatted'
  BY <1>1, <1>3 DEF RecordInv, Formatted
<1> QED
  BY <1>4, <1>5 DEF RecordInv

LEMMA RecordInit == Init => RecordInv
<1> SUFFICES ASSUME Init PROVE RecordInv
  OBVIOUS
<1>1. PICK fn \in Functions :
        stack = [g \in Goroutines |-> IF g = Main THEN <<NewFrame(fn, Request, 0)>> ELSE <<>>]
  BY DEF Init
<1> DEFINE f == NewFrame(fn, Request, 0)
<1>2. \A t : Follows(t, f)
  BY NewRecorded
<1> HIDE DEF f
<1>3. \A g \in Goroutines : \A i \in 1..Len(stack[g]) : stack[g][i] = f
  <2>1. stack = [g \in Goroutines |-> IF g = Main THEN <<f>> ELSE <<>>]
    BY <1>1 DEF f
  <2>2. Len(<<f>>) = 1 /\ Len(<<>>) = 0 /\ <<f>>[1] = f
    OBVIOUS
  <2> QED
    BY <2>1, <2>2
<1>4. \A g \in Goroutines : \A i \in 1..Len(stack[g]) - 1 : FALSE
  <2>1. stack = [g \in Goroutines |-> IF g = Main THEN <<f>> ELSE <<>>]
    BY <1>1 DEF f
  <2>2. Len(<<f>>) = 1 /\ Len(<<>>) = 0
    OBVIOUS
  <2> QED
    BY <2>1, <2>2
<1> QED
  BY <1>2, <1>3, <1>4 DEF RecordInv, AllRecorded, Formatted

LEMMA RecordNext == TypeInv /\ RecordInv /\ [Next]_vars => RecordInv'
<1> SUFFICES ASSUME TypeInv, RecordInv, [Next]_vars PROVE RecordInv'
  OBVIOUS
<1>1. CASE UNCHANGED vars
  BY <1>1 DEF vars, RecordInv, AllRecorded, Formatted
<1>2. ASSUME NEW g \in Goroutines, NEW h \in Goroutines, Call(g, h) PROVE RecordInv'
  BY <1>2, RecordCall
<1>3. ASSUME NEW g \in Goroutines, Skip(g) \/ EnterBody(g) \/ TakeSpan(g) \/ EndSpan(g)
      PROVE  RecordInv'
  BY <1>3, RecordTop, RecordSets
<1>4. ASSUME NEW g \in Goroutines, StartSpan(g) PROVE RecordInv'
  BY <1>4, RecordStart, RecordSets
<1>5. ASSUME NEW g \in Goroutines, Leave(g) PROVE RecordInv'
  BY <1>5, RecordLeave, RecordSets
<1>6. ASSUME NEW g \in Goroutines, Format(g) PROVE RecordInv'
  BY <1>6, RecordFormat, RecordPushes
<1>7. ASSUME NEW g \in Goroutines, Guard(g) PROVE RecordInv'
  BY <1>7, RecordGuard, RecordPops
<1>8. ASSUME NEW g \in Goroutines, Deliver(g) PROVE RecordInv'
  BY <1>8, RecordDeliver, RecordPops
<1>9. ASSUME NEW g \in Goroutines, Finish(g) PROVE RecordInv'
  BY <1>9, RecordFinish
<1> QED
  BY <1>1, <1>2, <1>3, <1>4, <1>5, <1>6, <1>7, <1>8, <1>9 DEF Next, Hook

\* A span that recorded a call has the error status exactly if a configured result was a
\* non-nil error, and one exception event for each: for any plan, any formatting
\* methods, panics and exits (recordErrors of error_recording.go).
THEOREM ErrorsAlwaysRecorded == Spec => []ErrorsRecorded
<1>1. TypeInv /\ RecordInv /\ [Next]_vars => TypeInv' /\ RecordInv'
  BY TypeNext, RecordNext
<1>2. Spec => [](TypeInv /\ RecordInv)
  BY <1>1, TypeInit, RecordInit, PTL DEF Spec
<1>3. TypeInv /\ RecordInv => ErrorsRecorded
  <2> SUFFICES ASSUME TypeInv, RecordInv, NEW g \in Goroutines, NEW i \in DOMAIN stack[g],
                      stack[g][i].phase = "left", stack[g][i].span # 0
               PROVE  LET f        == stack[g][i]
                          errors   == {plan[f.fn].errors[k] : k \in DOMAIN plan[f.fn].errors} \cap f.failed
                          recorded == IF f.record.recording THEN errors ELSE {}
                      IN  /\ f.record.failed = (recorded # {})
                          /\ f.record.exceptions = Cardinality(recorded)
    BY DEF ErrorsRecorded
  <2> DEFINE f == stack[g][i]
             t == plan[f.fn]
  <2>1. i \in 1..Len(stack[g])
    BY Domains DEF TypeInv
  <2>2. Recorded(t, f) /\ Selected(f.fn)
    BY <2>1 DEF RecordInv, AllRecorded, Follows, TypeInv, AllShaped, Shaped
  <2>3. t.errors \in Seq(Results)
    BY <2>2, HookedPlan DEF Hooked, Target
  <2>4. {t.errors[k] : k \in DOMAIN t.errors} \cap f.failed = Reached(t, f.failed, Len(t.errors))
    <3>1. DOMAIN t.errors = {k \in 1..Len(t.errors) : k <= Len(t.errors)}
      BY <2>3
    <3> QED
      BY <3>1 DEF Reached
  <2> QED
    BY <2>2, <2>4 DEF Recorded, Counted
<1> QED
  BY <1>2, <1>3, PTL

-----------------------------------------------------------------------------
(* What is seen of a stack from outside: its frames up to the first method a *)
(* hook runs.                                                                *)

IsDepth(s, n) ==
  /\ n \in 0..Len(s)
  /\ \A i \in 1..n : s[i].fn # "formatter"
  /\ n < Len(s) => s[n + 1].fn = "formatter"

FormattersOf(s) == {i \in DOMAIN s : s[i].fn = "formatter"}

Depth(s) ==
  IF FormattersOf(s) = {} THEN Len(s)
  ELSE (CHOOSE i \in FormattersOf(s) : \A j \in FormattersOf(s) : i <= j) - 1

View(p, s) == [i \in 1..Depth(s) |-> Shown(p, s[i])]

\* A set of numbers has a least one.
LEMMA LeastNumber ==
  ASSUME NEW S \in SUBSET Nat, S # {}
  PROVE  \E i \in S : \A j \in S : i <= j
<1>1. \E i \in S : \A j \in S : ~(<<j, i>> \in OpToRel(<, Nat))
  BY NatLessThanWellFounded, WFMin
<1>2. PICK i \in S : \A j \in S : ~(<<j, i>> \in OpToRel(<, Nat))
  BY <1>1
<1>3. ASSUME NEW j \in S PROVE i <= j
  <2>1. ~(j < i)
    BY <1>2 DEF OpToRel
  <2> QED
    BY <2>1
<1> QED
  BY <1>3

LEMMA DepthIs ==
  ASSUME NEW s \in Seq(Frame)
  PROVE  IsDepth(s, Depth(s))
<1>1. Len(s) \in Nat /\ DOMAIN s = 1..Len(s)
  OBVIOUS
<1>2. CASE FormattersOf(s) = {}
  <2>1. \A i \in 1..Len(s) : s[i].fn # "formatter"
    BY <1>1, <1>2 DEF FormattersOf
  <2> QED
    BY <1>1, <1>2, <2>1 DEF Depth, IsDepth
<1>3. CASE FormattersOf(s) # {}
  <2> DEFINE S == FormattersOf(s)
             m == CHOOSE i \in S : \A j \in S : i <= j
  <2>1. S \in SUBSET Nat /\ \A i \in S : i \in 1..Len(s) /\ s[i].fn = "formatter"
    BY <1>1 DEF FormattersOf
  <2>2. \E i \in S : \A j \in S : i <= j
    BY <1>3, <2>1, LeastNumber
  <2>3. m \in S /\ \A j \in S : m <= j
    BY <2>2
  <2>4. Depth(s) = m - 1
    BY <1>3 DEF Depth
  <2> HIDE DEF m
  <2>5. m \in 1..Len(s) /\ s[m].fn = "formatter" /\ m - 1 \in 0..Len(s) /\ (m - 1) + 1 = m
    BY <1>1, <2>1, <2>3
  <2>6. ASSUME NEW i \in 1..m - 1 PROVE s[i].fn # "formatter"
    <3>1. i \in 1..Len(s) /\ ~(m <= i)
      BY <1>1, <2>5
    <3> QED
      BY <1>1, <2>3, <3>1 DEF FormattersOf
  <2> QED
    BY <2>4, <2>5, <2>6 DEF IsDepth
<1> QED
  BY <1>2, <1>3

LEMMA DepthUnique ==
  ASSUME NEW s \in Seq(Frame), NEW n, IsDepth(s, n)
  PROVE  Depth(s) = n
<1> DEFINE d == Depth(s)
<1>1. IsDepth(s, d)
  BY DepthIs
<1> HIDE DEF d
<1>2. Len(s) \in Nat /\ n \in Nat /\ d \in Nat /\ n <= Len(s) /\ d <= Len(s)
  BY <1>1 DEF IsDepth
<1>3. ~(d < n)
  <2> SUFFICES ASSUME d < n PROVE FALSE
    OBVIOUS
  <2>1. d + 1 \in 1..n /\ d < Len(s)
    BY <1>2
  <2> QED
    BY <1>1, <2>1 DEF IsDepth
<1>4. ~(n < d)
  <2> SUFFICES ASSUME n < d PROVE FALSE
    OBVIOUS
  <2>1. n + 1 \in 1..d /\ n < Len(s)
    BY <1>2
  <2> QED
    BY <1>1, <2>1 DEF IsDepth
<1> QED
  BY <1>2, <1>3, <1>4 DEF d

\* The refinement mapping, goroutine by goroutine.
ViewsAre == VisibleCalls = [g \in Goroutines |-> View(plan, stack[g])]

LEMMA Views == ViewsAre
<1>1. \A f : VisibleCall(f) = Shown(plan, f)
  BY DEF VisibleCall, VisibleValue, Shown, ShownValue, Argument, Chained, Selected
<1> QED
  BY <1>1 DEF ViewsAre, VisibleCalls, View, Depth, FormattersOf

LEMMA ViewsNext == ViewsAre'
BY Views, PTL

-----------------------------------------------------------------------------
(* Sequences as views.                                                      *)

AsView(u, n) == n \in Nat /\ u = [i \in 1..n |-> u[i]]

LEMMA ViewSeq ==
  ASSUME NEW u, NEW n, AsView(u, n), NEW x
  PROVE  u \in Seq({u[i] : i \in 1..n} \cup {x}) /\ Len(u) = n
<1> DEFINE S == {u[i] : i \in 1..n} \cup {x}
<1>1. n \in Nat /\ u = [i \in 1..n |-> u[i]] /\ \A i \in 1..n : u[i] \in S
  BY DEF AsView
<1> HIDE DEF S
<1>2. u \in [1..n -> S]
  BY <1>1
<1>3. u \in Seq(S)
  BY <1>1, <1>2, SeqDef
<1>4. Len(u) = n
  BY <1>1, <1>2, <1>3, LenProperties
<1> QED
  BY <1>3, <1>4 DEF S

LEMMA SameViews ==
  ASSUME NEW u, NEW v, NEW n, AsView(u, n), AsView(v, n), \A i \in 1..n : u[i] = v[i]
  PROVE  u = v
BY DEF AsView

\* v is u with x appended, with x at k, or its first k elements.
Grows(u, n, x, v) ==
  AsView(v, n + 1) /\ v[n + 1] = x /\ \A i \in 1..n : v[i] = u[i]

Changes(u, n, k, x, v) ==
  AsView(v, n) /\ \A i \in 1..n : v[i] = IF i = k THEN x ELSE u[i]

Starts(u, k, v) == AsView(v, k) /\ \A i \in 1..k : v[i] = u[i]

LEMMA ViewAppend ==
  ASSUME NEW u, NEW n, AsView(u, n), NEW x
  PROVE  Grows(u, n, x, Append(u, x))
<1> DEFINE S == {u[i] : i \in 1..n} \cup {x}
<1>1. u \in Seq(S) /\ Len(u) = n /\ x \in S /\ n \in Nat
  BY ViewSeq DEF AsView
<1> HIDE DEF S
<1>2. /\ Append(u, x) \in Seq(S) /\ Len(Append(u, x)) = n + 1 /\ Append(u, x)[n + 1] = x
      /\ \A i \in 1..n : Append(u, x)[i] = u[i]
  BY <1>1, AppendProperties
<1>3. Append(u, x) = [i \in 1..n + 1 |-> Append(u, x)[i]]
  BY <1>2, LenProperties
<1> QED
  BY <1>1, <1>2, <1>3 DEF AsView, Grows

LEMMA ViewExcept ==
  ASSUME NEW u, NEW n, AsView(u, n), NEW k \in 1..n, NEW x
  PROVE  Changes(u, n, k, x, [u EXCEPT ![k] = x])
BY DEF AsView, Changes

LEMMA ViewPrefix ==
  ASSUME NEW u, NEW n, AsView(u, n), NEW k \in 1..n
  PROVE  Starts(u, k, SubSeq(u, 1, k))
<1> DEFINE S == {u[i] : i \in 1..n} \cup {0}
<1>1. u \in Seq(S) /\ Len(u) = n /\ n \in Nat /\ k \in Nat
  BY ViewSeq DEF AsView
<1> HIDE DEF S
<1>2. /\ SubSeq(u, 1, k) \in Seq(S) /\ Len(SubSeq(u, 1, k)) = k
      /\ \A i \in 1..k : SubSeq(u, 1, k)[i] = u[i]
  BY <1>1
<1>3. SubSeq(u, 1, k) = [i \in 1..k |-> SubSeq(u, 1, k)[i]]
  BY <1>1, <1>2, LenProperties
<1> QED
  BY <1>1, <1>2, <1>3 DEF AsView, Starts

LEMMA ViewTyped ==
  ASSUME NEW p, NEW s \in Seq(Frame)
  PROVE  /\ AsView(View(p, s), Depth(s)) /\ Len(View(p, s)) = Depth(s) /\ Depth(s) \in Nat
         /\ \A i \in 1..Depth(s) : View(p, s)[i] = Shown(p, s[i])
<1>1. Depth(s) \in Nat
  BY DepthIs DEF IsDepth
<1>2. AsView(View(p, s), Depth(s))
  BY <1>1 DEF AsView, View
<1> QED
  BY <1>1, <1>2, ViewSeq DEF View

-----------------------------------------------------------------------------
(* What the moves of a stack do to its view.                                *)

\* The innermost frame changes: it shows only when no formatting method is below it.
LEMMA ViewSets ==
  ASSUME NEW p, NEW s \in Seq(Frame), NEW r \in Seq(Frame), NEW n \in Nat \ {0}, Len(s) = n,
         Len(r) = n, NEW d, d.fn = s[n].fn, \A i \in 1..n : r[i] = IF i = n THEN d ELSE s[i]
  PROVE  /\ Shown(p, d) = Shown(p, s[n]) \/ Depth(s) < n => View(p, r) = View(p, s)
         /\ Depth(s) = n => View(p, r) = [View(p, s) EXCEPT ![n] = Shown(p, d)]
<1> DEFINE k == Depth(s)
<1>1. /\ IsDepth(s, k) /\ k \in Nat /\ k <= n
      /\ AsView(View(p, s), k) /\ \A i \in 1..k : View(p, s)[i] = Shown(p, s[i])
  <2>1. IsDepth(s, k)
    BY DepthIs
  <2>2. AsView(View(p, s), k) /\ k \in Nat /\ \A i \in 1..k : View(p, s)[i] = Shown(p, s[i])
    BY ViewTyped
  <2>3. k \in 0..Len(s)
    BY <2>1 DEF IsDepth
  <2>4. k <= n
    BY <2>3
  <2> QED
    BY <2>1, <2>2, <2>4
<1> HIDE DEF k
<1>2. \A i \in 1..n : r[i].fn = s[i].fn
  OBVIOUS
<1>3. IsDepth(r, k)
  BY <1>1, <1>2 DEF IsDepth
<1>4. Depth(r) = k
  BY <1>3, DepthUnique
<1>5. AsView(View(p, r), k) /\ \A i \in 1..k : View(p, r)[i] = Shown(p, r[i])
  BY <1>4, ViewTyped
<1>6. ASSUME Shown(p, d) = Shown(p, s[n]) \/ k < n PROVE View(p, r) = View(p, s)
  <2>1. \A i \in 1..k : Shown(p, r[i]) = Shown(p, s[i])
    BY <1>1, <1>6
  <2>2. \A i \in 1..k : View(p, r)[i] = View(p, s)[i]
    BY <1>1, <1>5, <2>1
  <2> QED
    BY <1>1, <1>5, <2>2, SameViews
<1>7. ASSUME k = n PROVE View(p, r) = [View(p, s) EXCEPT ![n] = Shown(p, d)]
  <2> DEFINE v == [View(p, s) EXCEPT ![n] = Shown(p, d)]
  <2>0. n \in 1..k
    BY <1>7
  <2>1. AsView(v, k) /\ \A i \in 1..k : v[i] = IF i = n THEN Shown(p, d) ELSE View(p, s)[i]
    <3>1. Changes(View(p, s), k, n, Shown(p, d), v)
      BY <1>1, <2>0, ViewExcept
    <3> HIDE DEF v
    <3> QED
      BY <3>1 DEF Changes
  <2>2. \A i \in 1..k : View(p, r)[i] = v[i]
    BY <1>1, <1>5, <1>7, <2>1
  <2> HIDE DEF v
  <2>3. View(p, r) = v
    BY <1>5, <2>1, <2>2, SameViews
  <2> QED
    BY <2>3 DEF v
<1> QED
  BY <1>6, <1>7 DEF k

\* A call, or a formatting method: a call shows when no formatting method makes it.
LEMMA ViewPushes ==
  ASSUME NEW p, NEW s \in Seq(Frame), NEW r \in Seq(Frame), NEW n \in Nat, Len(s) = n,
         Len(r) = n + 1, NEW f, NEW d, n # 0 => f.fn = s[n].fn /\ Shown(p, f) = Shown(p, s[n]),
         \A i \in 1..n : r[i] = IF i = n THEN f ELSE s[i], r[n + 1] = d
  PROVE  /\ d.fn = "formatter" \/ Depth(s) < n => View(p, r) = View(p, s)
         /\ d.fn # "formatter" /\ Depth(s) = n => View(p, r) = Append(View(p, s), Shown(p, d))
<1> DEFINE k == Depth(s)
<1>1. /\ IsDepth(s, k) /\ k \in Nat /\ k <= n
      /\ AsView(View(p, s), k) /\ \A i \in 1..k : View(p, s)[i] = Shown(p, s[i])
  <2>1. IsDepth(s, k)
    BY DepthIs
  <2>2. AsView(View(p, s), k) /\ k \in Nat /\ \A i \in 1..k : View(p, s)[i] = Shown(p, s[i])
    BY ViewTyped
  <2>3. k \in 0..Len(s)
    BY <2>1 DEF IsDepth
  <2>4. k <= n
    BY <2>3
  <2> QED
    BY <2>1, <2>2, <2>4
<1> HIDE DEF k
<1>2. \A i \in 1..n : r[i].fn = s[i].fn /\ Shown(p, r[i]) = Shown(p, s[i])
  OBVIOUS
<1>3. ASSUME d.fn = "formatter" \/ k < n PROVE View(p, r) = View(p, s)
  <2>1. k + 1 \in 1..n + 1 /\ (k < n => k + 1 \in 1..n) /\ (k = n \/ k < n) /\ k \in 0..n + 1
    BY <1>1
  <2>2. r[k + 1].fn = "formatter"
    BY <1>1, <1>2, <1>3, <2>1 DEF IsDepth
  <2>3. \A i \in 1..k : i \in 1..n
    BY <1>1
  <2>4. IsDepth(r, k)
    BY <1>1, <1>2, <2>1, <2>2, <2>3 DEF IsDepth
  <2>5. Depth(r) = k
    BY <2>4, DepthUnique
  <2>6. AsView(View(p, r), k) /\ \A i \in 1..k : View(p, r)[i] = Shown(p, r[i])
    BY <2>5, ViewTyped
  <2>7. \A i \in 1..k : View(p, r)[i] = View(p, s)[i]
    BY <1>1, <1>2, <2>3, <2>6
  <2> QED
    BY <1>1, <2>6, <2>7, SameViews
<1>4. ASSUME d.fn # "formatter", k = n PROVE View(p, r) = Append(View(p, s), Shown(p, d))
  <2>1. ASSUME NEW i \in 1..n + 1 PROVE r[i].fn # "formatter"
    <3>1. CASE i = n + 1
      BY <1>4, <3>1
    <3>2. CASE i # n + 1
      <4>1. i \in 1..n
        BY <3>2
      <4> QED
        BY <1>1, <1>2, <1>4, <4>1 DEF IsDepth
    <3> QED
      BY <3>1, <3>2
  <2>2. IsDepth(r, n + 1)
    BY <2>1 DEF IsDepth
  <2>3. Depth(r) = n + 1
    BY <2>2, DepthUnique
  <2>4. AsView(View(p, r), n + 1) /\ \A i \in 1..n + 1 : View(p, r)[i] = Shown(p, r[i])
    BY <2>3, ViewTyped
  <2> DEFINE v == Append(View(p, s), Shown(p, d))
  <2>5. /\ AsView(v, n + 1) /\ v[n + 1] = Shown(p, d)
        /\ \A i \in 1..n : v[i] = View(p, s)[i]
    <3>1. AsView(View(p, s), n)
      BY <1>1, <1>4
    <3>2. Grows(View(p, s), n, Shown(p, d), v)
      BY <3>1, ViewAppend
    <3> HIDE DEF v
    <3> QED
      BY <3>2 DEF Grows
  <2> HIDE DEF v
  <2>6. ASSUME NEW i \in 1..n + 1 PROVE View(p, r)[i] = v[i]
    <3>1. CASE i = n + 1
      BY <2>4, <2>5, <3>1
    <3>2. CASE i # n + 1
      <4>1. i \in 1..n
        BY <3>2
      <4> QED
        BY <1>1, <1>2, <1>4, <2>4, <2>5, <4>1
    <3> QED
      BY <3>1, <3>2
  <2>7. View(p, r) = v
    BY <2>4, <2>5, <2>6, SameViews
  <2> QED
    BY <2>7 DEF v
<1> QED
  BY <1>3, <1>4 DEF k

Cut(v, n, x) == [SubSeq(v, 1, n) EXCEPT ![n] = x]

\* The innermost frame is gone: what its caller becomes shows unless it runs in a
\* formatting method.
LEMMA ViewPops ==
  ASSUME NEW p, NEW s \in Seq(Frame), NEW r \in Seq(Frame), NEW n \in Nat \ {0}, Len(s) = n + 1,
         Len(r) = n, NEW d, d.fn = s[n].fn, \A i \in 1..n : r[i] = IF i = n THEN d ELSE s[i]
  PROVE  /\ s[n + 1].fn = "formatter" /\ Shown(p, d) = Shown(p, s[n]) => View(p, r) = View(p, s)
         /\ s[n + 1].fn # "formatter" /\ Depth(s) < n + 1 => View(p, r) = View(p, s)
         /\ Depth(s) = n + 1 => View(p, r) = Cut(View(p, s), n, Shown(p, d))
<1> DEFINE k == Depth(s)
<1>1. /\ IsDepth(s, k) /\ k \in Nat /\ k <= n + 1
      /\ AsView(View(p, s), k) /\ \A i \in 1..k : View(p, s)[i] = Shown(p, s[i])
  <2>1. IsDepth(s, k)
    BY DepthIs
  <2>2. AsView(View(p, s), k) /\ k \in Nat /\ \A i \in 1..k : View(p, s)[i] = Shown(p, s[i])
    BY ViewTyped
  <2>3. k \in 0..Len(s)
    BY <2>1 DEF IsDepth
  <2>4. k <= n + 1
    BY <2>3
  <2> QED
    BY <2>1, <2>2, <2>4
<1> HIDE DEF k
<1>2. \A i \in 1..n : r[i].fn = s[i].fn
  OBVIOUS
<1>3. ASSUME k <= n,
             \/ Shown(p, d) = Shown(p, s[n])
             \/ k < n
      PROVE  View(p, r) = View(p, s)
  <2>1. \A i \in 1..k : i \in 1..n
    BY <1>1, <1>3
  <2>2. k < n => r[k + 1].fn = "formatter"
    <3>1. k < n => k + 1 \in 1..n /\ k < n + 1
      BY <1>1
    <3> QED
      BY <1>1, <1>2, <3>1 DEF IsDepth
  <2>3. IsDepth(r, k)
    BY <1>1, <1>2, <1>3, <2>1, <2>2 DEF IsDepth
  <2>4. Depth(r) = k
    BY <2>3, DepthUnique
  <2>5. AsView(View(p, r), k) /\ \A i \in 1..k : View(p, r)[i] = Shown(p, r[i])
    BY <2>4, ViewTyped
  <2>6. \A i \in 1..k : Shown(p, r[i]) = Shown(p, s[i])
    BY <1>1, <1>3, <2>1
  <2>7. \A i \in 1..k : View(p, r)[i] = View(p, s)[i]
    BY <1>1, <2>5, <2>6
  <2> QED
    BY <1>1, <2>5, <2>7, SameViews
<1>4. s[n + 1].fn = "formatter" => k <= n
  <2>1. n + 1 \in 1..n + 1 /\ (~(k <= n) => k = n + 1)
    BY <1>1
  <2> QED
    BY <1>1, <2>1 DEF IsDepth
<1>5. s[n + 1].fn # "formatter" /\ k < n + 1 => k < n
  <2>1. k < n + 1 /\ ~(k < n) => k = n /\ n < n + 1
    BY <1>1
  <2> QED
    BY <1>1, <2>1 DEF IsDepth
<1>6. k < n => k <= n
  BY <1>1
<1>7. ASSUME k = n + 1
      PROVE  View(p, r) = Cut(View(p, s), n, Shown(p, d))
  <2>1. \A i \in 1..n : i \in 1..k
    BY <1>7
  <2>2. IsDepth(r, n)
    BY <1>1, <1>2, <2>1 DEF IsDepth
  <2>3. Depth(r) = n
    BY <2>2, DepthUnique
  <2>4. AsView(View(p, r), n) /\ \A i \in 1..n : View(p, r)[i] = Shown(p, r[i])
    BY <2>3, ViewTyped
  <2> DEFINE u == SubSeq(View(p, s), 1, n)
             v == [u EXCEPT ![n] = Shown(p, d)]
  <2>5. n \in 1..k /\ n \in 1..n
    BY <1>7
  <2>6. AsView(u, n) /\ \A i \in 1..n : u[i] = View(p, s)[i]
    BY <1>1, <2>5, ViewPrefix DEF Starts
  <2> HIDE DEF u
  <2>7. AsView(v, n) /\ \A i \in 1..n : v[i] = IF i = n THEN Shown(p, d) ELSE u[i]
    BY <2>5, <2>6, ViewExcept DEF Changes
  <2> HIDE DEF v
  <2>8. \A i \in 1..n : View(p, r)[i] = v[i]
    BY <1>1, <2>1, <2>4, <2>6, <2>7
  <2>9. View(p, r) = v
    BY <2>4, <2>7, <2>8, SameViews
  <2> QED
    BY <2>9 DEF u, v, Cut
<1> QED
  BY <1>3, <1>4, <1>5, <1>6, <1>7 DEF k

-----------------------------------------------------------------------------
(* What the moves do to the calls that show.                                *)

\* Only goroutine g moves, and what shows of it becomes v.
Becomes(g, v) ==
  /\ plan' = plan
  /\ \A x \in Goroutines \ {g} : stack'[x] = stack[x]
  /\ View(plan, stack'[g]) = v

LEMMA BecomesVisible ==
  ASSUME NEW g \in Goroutines, NEW v, Becomes(g, v)
  PROVE  /\ VisibleCalls[g] = View(plan, stack[g])
         /\ VisibleCalls' = [VisibleCalls EXCEPT ![g] = v]
<1>1. VisibleCalls = [x \in Goroutines |-> View(plan, stack[x])]
  BY Views DEF ViewsAre
<1>2. VisibleCalls' = [x \in Goroutines |-> View(plan, stack'[x])]
  BY ViewsNext DEF ViewsAre, Becomes
<1>3. VisibleCalls' = [x \in Goroutines |-> IF x = g THEN v ELSE View(plan, stack[x])]
  BY <1>2 DEF Becomes
<1> QED
  BY <1>1, <1>3

LEMMA NothingShows ==
  ASSUME NEW g \in Goroutines, Becomes(g, View(plan, stack[g])), UNCHANGED <<crashed, printed>>
  PROVE  UNCHANGED App!vars
<1>1. /\ VisibleCalls[g] = View(plan, stack[g])
      /\ VisibleCalls' = [VisibleCalls EXCEPT ![g] = View(plan, stack[g])]
  BY BecomesVisible
<1>2. VisibleCalls = [x \in Goroutines |-> View(plan, stack[x])]
  BY Views DEF ViewsAre
<1>3. VisibleCalls' = VisibleCalls
  BY <1>1, <1>2
<1> QED
  BY <1>3 DEF App!vars

\* A goroutine that formats nothing shows all its frames.
LEMMA AllShows ==
  ASSUME TypeInv, NEW g \in Goroutines
  PROVE  /\ stack[g] \in Seq(Frame) /\ Depth(stack[g]) \in Nat
         /\ Len(stack[g]) \in Nat /\ (stack[g] = <<>> <=> Len(stack[g]) = 0)
         /\ Formatting(g) => Depth(stack[g]) < Len(stack[g])
         /\ ~Formatting(g) => Depth(stack[g]) = Len(stack[g])
<1>1. stack[g] \in Seq(Frame)
  BY DEF TypeInv, TypeOK
<1>2. Len(stack[g]) \in Nat /\ DOMAIN stack[g] = 1..Len(stack[g]) /\ (stack[g] = <<>> <=> Len(stack[g]) = 0)
  BY <1>1, EmptySeq
<1> DEFINE k == Depth(stack[g])
           n == Len(stack[g])
<1>3. IsDepth(stack[g], k)
  BY <1>1, DepthIs
<1>4. Formatting(g) <=> \E i \in 1..n : stack[g][i].fn = "formatter"
  BY <1>2 DEF Formatting
<1>5. n \in Nat
  BY <1>2
<1>6. /\ k \in 0..n /\ \A i \in 1..k : stack[g][i].fn # "formatter"
      /\ k < n => stack[g][k + 1].fn = "formatter"
  BY <1>3 DEF IsDepth
<1> HIDE DEF k, n
<1>7. k < n => k + 1 \in 1..n
  BY <1>5, <1>6
<1>8. k = n \/ k < n
  BY <1>5, <1>6
<1>9. (Formatting(g) => k < n) /\ (~Formatting(g) => k = n)
  BY <1>4, <1>6, <1>7, <1>8
<1> QED
  BY <1>1, <1>2, <1>5, <1>6, <1>9 DEF k, n

LEMMA TopShows ==
  ASSUME TypeInv, NEW g \in Goroutines, ~Formatting(g), stack[g] # <<>>
  PROVE  /\ VisibleCalls[g] = View(plan, stack[g]) /\ VisibleCalls[g] # <<>>
         /\ Len(VisibleCalls[g]) = Len(stack[g])
         /\ App!Top(g) = Shown(plan, Top(g)) /\ Top(g).fn # "formatter"
         /\ \A i \in 1..Len(stack[g]) : VisibleCalls[g][i] = Shown(plan, stack[g][i])
<1>1. VisibleCalls[g] = View(plan, stack[g])
  BY Views DEF ViewsAre
<1>2. stack[g] \in Seq(Frame) /\ Len(stack[g]) \in Nat \ {0} /\ Depth(stack[g]) = Len(stack[g])
  BY AllShows
<1>3. /\ Len(View(plan, stack[g])) = Len(stack[g])
      /\ \A i \in 1..Len(stack[g]) : View(plan, stack[g])[i] = Shown(plan, stack[g][i])
  BY <1>2, ViewTyped
<1>4. Len(stack[g]) \in 1..Len(stack[g]) /\ DOMAIN stack[g] = 1..Len(stack[g])
  BY <1>2
<1>5. App!Top(g) = Shown(plan, Top(g))
  BY <1>1, <1>3, <1>4 DEF App!Top, Top
<1>6. Top(g).fn # "formatter"
  BY <1>4 DEF Top, Formatting
<1>7. VisibleCalls[g] # <<>>
  <2>1. Len(<<>>) = 0
    OBVIOUS
  <2> QED
    BY <1>1, <1>2, <1>3, <2>1
<1> QED
  BY <1>1, <1>3, <1>5, <1>6, <1>7

LEMMA ShownSets ==
  ASSUME TypeInv, NEW g \in Goroutines, stack[g] # <<>>, NEW d, d.fn = Top(g).fn, Sets(g, d),
         plan' = plan
  PROVE  /\ Shown(plan, d) = Shown(plan, Top(g)) \/ Formatting(g) => Becomes(g, View(plan, stack[g]))
         /\ ~Formatting(g) =>
              Becomes(g, [View(plan, stack[g]) EXCEPT ![Len(stack[g])] = Shown(plan, d)])
<1> DEFINE s == stack[g]
           r == stack'[g]
           n == Len(stack[g])
<1>1. s \in Seq(Frame) /\ n \in Nat \ {0} /\ Len(s) = n /\ Top(g) = s[n]
  BY AllShows DEF Top
<1>2. r \in Seq(Frame) /\ Len(r) = n /\ \A i \in 1..n : r[i] = IF i = n THEN d ELSE s[i]
  BY DEF Sets
<1>3. (Formatting(g) => Depth(s) < n) /\ (~Formatting(g) => Depth(s) = n)
  BY AllShows
<1>4. d.fn = s[n].fn
  BY <1>1
<1> HIDE DEF s, r, n
<1>5. /\ Shown(plan, d) = Shown(plan, s[n]) \/ Depth(s) < n => View(plan, r) = View(plan, s)
      /\ Depth(s) = n => View(plan, r) = [View(plan, s) EXCEPT ![n] = Shown(plan, d)]
  BY <1>1, <1>2, <1>4, ViewSets
<1> QED
  BY <1>1, <1>3, <1>5 DEF Becomes, Sets, s, r, n

LEMMA ShownPushes ==
  ASSUME TypeInv, NEW h \in Goroutines, NEW f, NEW d, Pushes(h, f, d), plan' = plan,
         stack[h] # <<>> => f.fn = Top(h).fn /\ Shown(plan, f) = Shown(plan, Top(h))
  PROVE  /\ d.fn = "formatter" \/ Formatting(h) => Becomes(h, View(plan, stack[h]))
         /\ d.fn # "formatter" /\ ~Formatting(h) =>
              Becomes(h, Append(View(plan, stack[h]), Shown(plan, d)))
<1> DEFINE s == stack[h]
           r == stack'[h]
           n == Len(stack[h])
<1>1. s \in Seq(Frame) /\ n \in Nat /\ Len(s) = n /\ Top(h) = s[n] /\ (s = <<>> <=> n = 0)
  BY AllShows DEF Top
<1>2. /\ r \in Seq(Frame) /\ Len(r) = n + 1 /\ \A i \in 1..n : r[i] = IF i = n THEN f ELSE s[i]
      /\ r[n + 1] = d
  BY DEF Pushes
<1>3. (Formatting(h) => Depth(s) < n) /\ (~Formatting(h) => Depth(s) = n)
  BY AllShows
<1>4. n # 0 => f.fn = s[n].fn /\ Shown(plan, f) = Shown(plan, s[n])
  BY <1>1
<1> HIDE DEF s, r, n
<1>5. /\ d.fn = "formatter" \/ Depth(s) < n => View(plan, r) = View(plan, s)
      /\ d.fn # "formatter" /\ Depth(s) = n =>
           View(plan, r) = Append(View(plan, s), Shown(plan, d))
  BY <1>1, <1>2, <1>4, ViewPushes
<1> QED
  BY <1>3, <1>5 DEF Becomes, Pushes, s, r, n

LEMMA ShownPops ==
  ASSUME TypeInv, NEW g \in Goroutines, NEW n \in Nat \ {0}, Len(stack[g]) = n + 1,
         NEW d, Pops(g, d), d.fn = stack[g][n].fn, plan' = plan
  PROVE  /\ Top(g).fn = "formatter" /\ Shown(plan, d) = Shown(plan, stack[g][n]) =>
              Becomes(g, View(plan, stack[g]))
         /\ Top(g).fn # "formatter" /\ Formatting(g) => Becomes(g, View(plan, stack[g]))
         /\ ~Formatting(g) =>
              Becomes(g, Cut(View(plan, stack[g]), n, Shown(plan, d)))
<1> DEFINE s == stack[g]
           r == stack'[g]
<1>1. s \in Seq(Frame) /\ Len(s) = n + 1 /\ Top(g) = s[n + 1] /\ Len(stack[g]) - 1 = n
  BY AllShows DEF Top
<1>2. r \in Seq(Frame) /\ Len(r) = n /\ \A i \in 1..n : r[i] = IF i = n THEN d ELSE s[i]
  BY <1>1 DEF Pops
<1>3. (Formatting(g) => Depth(s) < n + 1) /\ (~Formatting(g) => Depth(s) = n + 1)
  BY AllShows
<1>4. d.fn = s[n].fn
  OBVIOUS
<1> HIDE DEF s, r
<1>5. /\ s[n + 1].fn = "formatter" /\ Shown(plan, d) = Shown(plan, s[n]) => View(plan, r) = View(plan, s)
      /\ s[n + 1].fn # "formatter" /\ Depth(s) < n + 1 => View(plan, r) = View(plan, s)
      /\ Depth(s) = n + 1 =>
           View(plan, r) = Cut(View(plan, s), n, Shown(plan, d))
  BY <1>1, <1>2, <1>4, ViewPops
<1> QED
  BY <1>1, <1>3, <1>5 DEF Becomes, Pops, s, r

-----------------------------------------------------------------------------
(* Every step is a step of the application or not seen by it.               *)

Shows == App!Next \/ UNCHANGED App!vars

\* A frame that has started its body passes its own context on; a new one that of its
\* caller, except that a hook may have to start from an empty one for nil.
LEMMA NewShown ==
  ASSUME NEW fn \in Functions, NEW c \in Context, NEW trail
  PROVE  LET d == NewFrame(fn, c, trail)
         IN  /\ ShownValue(plan, d) \in App!Seen(c.value)
             /\ Shown(plan, d) = App!Call(fn, ShownValue(plan, d))
<1> DEFINE d == NewFrame(fn, c, trail)
<1>1. /\ d.fn = fn /\ d.context = c /\ d.outcome = "none" /\ d.failed = {} /\ d.heard = Nothing
  BY DEF NewFrame
<1> HIDE DEF d
<1>2. Argument(plan, fn) => StartContext(plan[fn], c).value \in App!Seen(c.value)
  BY DEF StartContext, App!Seen, Background, Argument
<1>3. c.value \in App!Seen(c.value)
  BY DEF App!Seen
<1>4. ShownValue(plan, d) \in App!Seen(c.value)
  BY <1>1, <1>2, <1>3 DEF ShownValue
<1>5. Shown(plan, d) = App!Call(fn, ShownValue(plan, d))
  BY <1>1 DEF Shown, App!Call, App!Nothing, Nothing
<1> QED
  BY <1>4, <1>5 DEF d

LEMMA RunsShown ==
  ASSUME TypeInv, RecordInv, NEW g \in Goroutines, At(g, "body"), ~Formatting(g)
  PROVE  App!Runs(g) /\ App!Top(g) = Shown(plan, Top(g)) /\ Top(g) \in Frame /\ Told(Top(g))
<1>1. stack[g] # <<>> /\ ~crashed /\ Top(g).phase = "body"
  BY DEF At
<1>2. VisibleCalls[g] # <<>> /\ App!Top(g) = Shown(plan, Top(g))
  BY <1>1, TopShows
<1>3. Top(g) \in Frame /\ Told(Top(g))
  BY <1>1, RecordedTop DEF Follows
<1>4. App!Top(g).outcome = "none"
  BY <1>1, <1>2, <1>3 DEF Told, Shown
<1> QED
  BY <1>1, <1>2, <1>3, <1>4 DEF App!Runs

LEMMA CallShows ==
  ASSUME TypeInv, RecordInv, NEW g \in Goroutines, NEW h \in Goroutines, Call(g, h)
  PROVE  App!Calls(g, h) \/ UNCHANGED App!vars
<1>1. PICK fn \in Functions, c \in {Top(g).context, Background, NilContext} :
        LET d == NewFrame(fn, c, IF c = Top(g).context THEN Trail(Top(g)) ELSE 0)
        IN  Fresh(d) /\ d.fn = fn /\ Pushes(h, Top(h), d)
  BY CallEffect
<1> DEFINE d == NewFrame(fn, c, IF c = Top(g).context THEN Trail(Top(g)) ELSE 0)
           seen == ShownValue(plan, d)
<1>2. /\ At(g, "body") /\ stack[g] # <<>> /\ (h = g \/ (stack[h] = <<>> /\ ~Formatting(g)))
      /\ UNCHANGED <<plan, crashed, printed>>
  BY DEF Call, At
<1>3. Pushes(h, Top(h), d) /\ d.fn = fn /\ fn # "formatter" /\ d.fn # "formatter"
  BY <1>1, HooksAssumption
<1>4. Top(g) \in Frame /\ c \in Context
  BY <1>2, ShapedTop, ContextsTyped DEF Frame
<1>5. seen \in App!Seen(c.value) /\ Shown(plan, d) = App!Call(fn, seen)
  BY <1>4, NewShown
<1> HIDE DEF d, seen
<1>6. /\ d.fn = "formatter" \/ Formatting(h) => Becomes(h, View(plan, stack[h]))
      /\ d.fn # "formatter" /\ ~Formatting(h) =>
           Becomes(h, Append(View(plan, stack[h]), Shown(plan, d)))
  BY <1>2, <1>3, ShownPushes
<1>7. CASE Formatting(g)
  <2>1. h = g /\ Becomes(h, View(plan, stack[h]))
    BY <1>2, <1>6, <1>7
  <2> QED
    BY <1>2, <2>1, NothingShows
<1>8. CASE ~Formatting(g)
  <2>1. ~Formatting(h)
    <3>1. stack[h] = <<>> => DOMAIN stack[h] = {}
      OBVIOUS
    <3> QED
      BY <1>2, <1>8, <3>1 DEF Formatting
  <2>2. Becomes(h, Append(View(plan, stack[h]), Shown(plan, d)))
    BY <1>3, <1>6, <2>1
  <2>3. /\ VisibleCalls[h] = View(plan, stack[h])
        /\ VisibleCalls' = [VisibleCalls EXCEPT ![h] = Append(View(plan, stack[h]), Shown(plan, d))]
    BY <2>2, BecomesVisible
  <2>4. VisibleCalls' = [VisibleCalls EXCEPT ![h] = Append(@, App!Call(fn, seen))]
    BY <1>5, <2>3
  <2>5. App!Runs(g) /\ App!Top(g) = Shown(plan, Top(g))
    BY <1>2, <1>8, RunsShown
  <2>6. h = g \/ VisibleCalls[h] = <<>>
    <3>1. stack[h] = <<>> => VisibleCalls[h] = <<>>
      <4> SUFFICES ASSUME stack[h] = <<>> PROVE VisibleCalls[h] = <<>>
        OBVIOUS
      <4>1. Depth(stack[h]) = 0
        BY <2>1, AllShows
      <4>2. View(plan, stack[h]) = [i \in 1..0 |-> Shown(plan, stack[h][i])]
        BY <4>1 DEF View
      <4>3. [i \in 1..0 |-> Shown(plan, stack[h][i])] = <<>>
        OBVIOUS
      <4> QED
        BY <2>3, <4>2, <4>3
    <3> QED
      BY <1>2, <3>1
  <2>7. c.value \in {App!Top(g).value, "background", "nil"}
    <3>1. App!Top(g).value = Top(g).context.value
      BY <1>2, <2>5 DEF Shown, ShownValue, At
    <3> QED
      BY <3>1 DEF Background, NilContext
  <2>8. \E value \in {App!Top(g).value, "background", "nil"} : \E s \in App!Seen(value) :
          VisibleCalls' = [VisibleCalls EXCEPT ![h] = Append(@, App!Call(fn, s))]
    BY <1>5, <2>4, <2>7
  <2> QED
    BY <1>2, <2>5, <2>6, <2>8 DEF App!Calls
<1> QED
  BY <1>7, <1>8

\* A call that shows, with another end.
Showing(fn, value, outcome, failed, heard) ==
  [fn |-> fn, value |-> value, outcome |-> outcome, failed |-> failed, heard |-> heard]

Ended(c, outcome, failed, heard) ==
  [c EXCEPT !.outcome = outcome, !.failed = failed, !.heard = heard]

Resumed(c, heard, outcome, failed) ==
  [c EXCEPT !.heard = heard, !.outcome = outcome, !.failed = failed]

LEMMA ShowingChanges ==
  ASSUME NEW fn, NEW value, NEW o, NEW failed, NEW h, NEW o1, NEW failed1, NEW h1
  PROVE  /\ Ended(Showing(fn, value, o, failed, h), o1, failed1, h1)
              = Showing(fn, value, o1, failed1, h1)
         /\ Resumed(Showing(fn, value, o, failed, h), h1, o1, failed1)
              = Showing(fn, value, o1, failed1, h1)
<1> DEFINE r(x, y, z) == Showing(fn, value, x, y, z)
           c == r(o, failed, h)
<1>1. /\ [r(o, failed, h) EXCEPT !.outcome = o1] = r(o1, failed, h)
      /\ [r(o1, failed, h) EXCEPT !.failed = failed1] = r(o1, failed1, h)
      /\ [r(o1, failed1, h) EXCEPT !.heard = h1] = r(o1, failed1, h1)
      /\ [r(o, failed, h) EXCEPT !.heard = h1] = r(o, failed, h1)
      /\ [r(o, failed, h1) EXCEPT !.outcome = o1] = r(o1, failed, h1)
      /\ [r(o1, failed, h1) EXCEPT !.failed = failed1] = r(o1, failed1, h1)
  BY DEF Showing
<1> HIDE DEF r
<1>2. [c EXCEPT !.outcome = o1, !.failed = failed1, !.heard = h1]
        = [[[c EXCEPT !.outcome = o1] EXCEPT !.failed = failed1] EXCEPT !.heard = h1]
  OBVIOUS
<1>3. [c EXCEPT !.heard = h1, !.outcome = o1, !.failed = failed1]
        = [[[c EXCEPT !.heard = h1] EXCEPT !.outcome = o1] EXCEPT !.failed = failed1]
  OBVIOUS
<1>4. [c EXCEPT !.outcome = o1, !.failed = failed1, !.heard = h1] = r(o1, failed1, h1)
  BY <1>1, <1>2
<1>5. [c EXCEPT !.heard = h1, !.outcome = o1, !.failed = failed1] = r(o1, failed1, h1)
  BY <1>1, <1>3
<1> QED
  BY <1>4, <1>5, Zenon DEF r, Ended, Resumed

LEMMA LeaveShows ==
  ASSUME TypeInv, RecordInv, NEW g \in Goroutines, Leave(g)
  PROVE  App!Ends(g) \/ UNCHANGED App!vars
<1> DEFINE f == Top(g)
<1>1. stack[g] # <<>> /\ f.phase = "body" /\ ~crashed /\ UNCHANGED <<plan, crashed, printed>>
  BY RecordLeave
<1>2. PICK outcome \in {"return", "panic", "exit"}, failed \in SUBSET Results :
        Left(f, outcome, failed).fn = f.fn /\ Sets(g, Left(f, outcome, failed))
  BY RecordLeave
<1> DEFINE d == Left(f, outcome, failed)
<1>3. /\ Shown(plan, d) = Shown(plan, f) \/ Formatting(g) => Becomes(g, View(plan, stack[g]))
      /\ ~Formatting(g) => Becomes(g, [View(plan, stack[g]) EXCEPT ![Len(stack[g])] = Shown(plan, d)])
  <2>1. d.fn = f.fn /\ Sets(g, d)
    BY <1>2
  <2> HIDE DEF d
  <2> QED
    BY <1>1, <2>1, ShownSets
<1>4. CASE Formatting(g)
  BY <1>1, <1>3, <1>4, NothingShows
<1>5. CASE ~Formatting(g)
  <2>1. /\ App!Runs(g) /\ App!Top(g) = Shown(plan, f) /\ f \in Frame
        /\ Len(VisibleCalls[g]) = Len(stack[g]) /\ f.fn # "formatter"
    BY <1>1, <1>5, RunsShown, TopShows DEF At
  <2>2. Shown(plan, d) = [Shown(plan, f) EXCEPT !.outcome = outcome, !.failed = failed,
                                                !.heard = App!Nothing]
    <3>1. /\ d.fn = f.fn /\ d.context = f.context /\ d.outcome = outcome /\ d.failed = failed
          /\ d.heard = Nothing /\ d.phase \in {"leaving", "left"}
      BY <2>1 DEF Left, Frame
    <3> HIDE DEF d
    <3>2. ShownValue(plan, d) = f.context.value /\ ShownValue(plan, f) = f.context.value
      BY <1>1, <3>1 DEF ShownValue
    <3>3. /\ Shown(plan, d) = Showing(f.fn, f.context.value, outcome, failed, App!Nothing)
          /\ Shown(plan, f) = Showing(f.fn, f.context.value, f.outcome, f.failed, f.heard)
      BY <3>1, <3>2 DEF Shown, Showing, Nothing, App!Nothing
    <3>4. Shown(plan, d) = Ended(Shown(plan, f), outcome, failed, App!Nothing)
      BY <3>3, ShowingChanges
    <3> QED
      BY <3>4 DEF Ended
  <2> HIDE DEF d
  <2>3. Becomes(g, [View(plan, stack[g]) EXCEPT ![Len(stack[g])] = Shown(plan, d)])
    BY <1>3, <1>5
  <2>4. /\ VisibleCalls[g] = View(plan, stack[g])
        /\ VisibleCalls' = [VisibleCalls EXCEPT ![g] =
                              [View(plan, stack[g]) EXCEPT ![Len(stack[g])] = Shown(plan, d)]]
    BY <2>3, BecomesVisible
  <2>5. VisibleCalls[g][Len(VisibleCalls[g])] = Shown(plan, f)
    BY <2>1 DEF App!Top
  <2>6. VisibleCalls' = [VisibleCalls EXCEPT ![g][Len(VisibleCalls[g])] =
                           [@ EXCEPT !.outcome = outcome, !.failed = failed, !.heard = App!Nothing]]
    BY <2>1, <2>2, <2>4, <2>5
  <2> QED
    BY <1>1, <2>1, <2>6 DEF App!Ends
<1> QED
  BY <1>4, <1>5

LEMMA DeliverShows ==
  ASSUME TypeInv, RecordInv, NEW g \in Goroutines, Deliver(g)
  PROVE  App!Delivers(g) \/ UNCHANGED App!vars
<1> DEFINE n == Len(stack[g]) - 1
           f == stack[g][n]
           heard == [outcome |-> Top(g).outcome, failed |-> Top(g).failed]
<1>1. /\ stack[g] # <<>> /\ Len(stack[g]) > 1 /\ ~crashed /\ UNCHANGED <<plan, crashed, printed>>
      /\ Top(g).phase = "left" /\ Top(g).fn # "formatter" /\ f.phase = "body"
  BY RecordDeliver
<1>2. PICK outcome \in Ends(Top(g).outcome), failed \in SUBSET Results :
        LET d == IF outcome = "none" THEN Hears(g, f) ELSE Left(Hears(g, f), outcome, failed)
        IN  Pops(g, d) /\ d.fn = f.fn
  BY RecordDeliver
<1> DEFINE d == IF outcome = "none" THEN Hears(g, f) ELSE Left(Hears(g, f), outcome, failed)
<1>3. n \in Nat \ {0} /\ Len(stack[g]) = n + 1
  <2>1. \A k \in Nat : k > 1 => k - 1 \in Nat \ {0} /\ k = (k - 1) + 1
    OBVIOUS
  <2> QED
    BY <1>1, <2>1, AllShows
<1>4. f \in Frame /\ Follows(plan[f.fn], f) /\ Top(g) \in Frame /\ Told(Top(g))
  BY <1>3, CallerRecorded
<1>5. Pops(g, d) /\ d.fn = f.fn
  BY <1>2
<1>6. /\ Formatting(g) => Becomes(g, View(plan, stack[g]))
      /\ ~Formatting(g) => Becomes(g, Cut(View(plan, stack[g]), n, Shown(plan, d)))
  <2> HIDE DEF d, n
  <2>1. d.fn = stack[g][n].fn
    BY <1>5
  <2> QED
    BY <1>1, <1>3, <1>5, <2>1, ShownPops
<1>7. CASE Formatting(g)
  BY <1>1, <1>6, <1>7, NothingShows
<1>8. CASE ~Formatting(g)
  <2> DEFINE fails == IF outcome = "none" THEN {} ELSE failed
  <2>1. /\ VisibleCalls[g] = View(plan, stack[g]) /\ Len(VisibleCalls[g]) = n + 1
        /\ App!Top(g) = Shown(plan, Top(g))
        /\ \A i \in 1..n + 1 : VisibleCalls[g][i] = Shown(plan, stack[g][i])
    BY <1>1, <1>3, <1>8, TopShows
  <2>2. f.fn # "formatter"
    <3> HIDE DEF n
    <3>1. stack[g] \in Seq(Frame) /\ n \in 1..Len(stack[g])
      BY <1>3, AllShows
    <3>2. n \in DOMAIN stack[g]
      BY <3>1
    <3> QED
      BY <1>8, <3>2 DEF Formatting
  <2>3. App!Top(g).outcome = Top(g).outcome /\ App!Top(g).failed = Top(g).failed
    BY <2>1 DEF Shown
  <2>4. Top(g).outcome \in {"return", "panic", "exit"}
    BY <1>1, <1>4 DEF Told
  <2>5. /\ outcome \in {"none", "panic", "exit"}
        /\ outcome \in (CASE heard.outcome = "return" -> {"none"}
                          [] heard.outcome = "panic"  -> {"none", "panic"}
                          [] heard.outcome = "exit"   -> {"exit"})
    <3>1. CASE Top(g).outcome = "return"
      BY <3>1 DEF Ends
    <3>2. CASE Top(g).outcome = "panic"
      BY <3>2 DEF Ends
    <3>3. CASE Top(g).outcome = "exit"
      BY <3>3 DEF Ends
    <3> QED
      BY <2>4, <3>1, <3>2, <3>3
  <2>6. Shown(plan, d) = [Shown(plan, f) EXCEPT !.heard = IF outcome = "none" THEN heard ELSE App!Nothing,
                                                !.outcome = outcome, !.failed = fails]
    <3>1. /\ Hears(g, f).fn = f.fn /\ Hears(g, f).context = f.context /\ Hears(g, f).phase = "body"
          /\ Hears(g, f).heard = heard /\ Hears(g, f).outcome = "none" /\ Hears(g, f).failed = {}
          /\ Hears(g, f) \in Frame
      BY <1>1, <1>4 DEF Hears, Frame, Follows, Told
    <3>2. /\ d.fn = f.fn /\ d.context = f.context /\ d.outcome = outcome /\ d.failed = fails
          /\ d.heard = (IF outcome = "none" THEN heard ELSE App!Nothing)
          /\ d.phase \in {"body", "leaving", "left"}
      <4>1. CASE outcome = "none"
        BY <3>1, <4>1
      <4>2. CASE outcome # "none"
        <5> DEFINE r == Hears(g, f)
        <5>1. r \in Frame /\ r.fn = f.fn /\ r.fn # "formatter" /\ r.context = f.context
          BY <2>2, <3>1
        <5> HIDE DEF r
        <5>2. /\ Left(r, outcome, failed).fn = f.fn /\ Left(r, outcome, failed).context = f.context
              /\ Left(r, outcome, failed).outcome = outcome
              /\ Left(r, outcome, failed).failed = failed
              /\ Left(r, outcome, failed).heard = Nothing
              /\ Left(r, outcome, failed).phase \in {"leaving", "left"}
          BY <5>1 DEF Left, Frame
        <5> QED
          BY <4>2, <5>2 DEF r, Nothing, App!Nothing
      <4> QED
        BY <4>1, <4>2
    <3> HIDE DEF d, fails, heard
    <3>3. ShownValue(plan, d) = f.context.value /\ ShownValue(plan, f) = f.context.value
      BY <1>1, <3>2 DEF ShownValue
    <3> DEFINE h == IF outcome = "none" THEN heard ELSE App!Nothing
    <3>4. /\ Shown(plan, d) = Showing(f.fn, f.context.value, outcome, fails, h)
          /\ Shown(plan, f) = Showing(f.fn, f.context.value, f.outcome, f.failed, f.heard)
      BY <3>2, <3>3 DEF Shown, Showing
    <3> HIDE DEF h
    <3>5. Shown(plan, d) = [Shown(plan, f) EXCEPT !.heard = h, !.outcome = outcome, !.failed = fails]
      <4>1. Shown(plan, d) = Resumed(Shown(plan, f), h, outcome, fails)
        BY <3>4, ShowingChanges
      <4> QED
        BY <4>1 DEF Resumed
    <3> QED
      BY <3>5 DEF h
  <2> HIDE DEF d, n, heard, fails
  <2>7. Becomes(g, Cut(View(plan, stack[g]), n, Shown(plan, d)))
    BY <1>6, <1>8
  <2>8. VisibleCalls' = [VisibleCalls EXCEPT ![g] = Cut(View(plan, stack[g]), n, Shown(plan, d))]
    BY <2>7, BecomesVisible
  <2>9. VisibleCalls[g][n] = Shown(plan, f)
    BY <1>3, <2>1
  <2>10. LET caller == [VisibleCalls[g][n] EXCEPT
                          !.heard = IF outcome = "none" THEN heard ELSE App!Nothing,
                          !.outcome = outcome, !.failed = fails]
         IN  VisibleCalls' = [VisibleCalls EXCEPT ![g] = [SubSeq(@, 1, n) EXCEPT ![n] = caller]]
    <3> DEFINE caller == [VisibleCalls[g][n] EXCEPT
                            !.heard = IF outcome = "none" THEN heard ELSE App!Nothing,
                            !.outcome = outcome, !.failed = fails]
    <3>1. caller = Shown(plan, d)
      BY <2>6, <2>9
    <3> HIDE DEF caller
    <3>2. VisibleCalls' = [VisibleCalls EXCEPT ![g] = [SubSeq(@, 1, n) EXCEPT ![n] = caller]]
      BY <2>1, <2>8, <3>1 DEF Cut
    <3> QED
      BY <3>2 DEF caller
  <2>11. fails \in SUBSET Results /\ (outcome = "none" => fails = {})
    BY DEF fails
  <2>12. n = Len(VisibleCalls[g]) - 1 /\ Len(VisibleCalls[g]) > 1
    BY <1>3, <2>1
  <2>13. heard = [outcome |-> App!Top(g).outcome, failed |-> App!Top(g).failed]
    BY <2>3 DEF heard
  <2>14. App!Top(g).outcome # "none"
    BY <2>3, <2>4
  <2> QED
    BY <1>1, <2>5, <2>10, <2>11, <2>12, <2>13, <2>14 DEF App!Delivers
<1> QED
  BY <1>7, <1>8

LEMMA FinishShows ==
  ASSUME TypeInv, RecordInv, NEW g \in Goroutines, Finish(g)
  PROVE  App!Finishes(g)
<1>1. /\ At(g, "left") /\ stack[g] # <<>> /\ Top(g).phase = "left" /\ ~crashed
      /\ stack' = [stack EXCEPT ![g] = <<>>] /\ crashed' = (Top(g).outcome = "panic")
      /\ UNCHANGED <<plan, printed>> /\ Len(stack[g]) = 1
  BY DEF Finish, At
<1>2. ~Formatting(g)
  <2>1. stack[g] \in Seq(Frame) /\ Top(g) = stack[g][1]
    BY <1>1, AllShows DEF Top
  <2>2. Top(g).fn # "formatter"
    <3>1. Top(g).fn = "formatter" => Len(stack[g]) > 1
      BY <1>1, FirstFrame
    <3>2. ~(1 > 1)
      OBVIOUS
    <3> QED
      BY <1>1, <3>1, <3>2
  <2>3. DOMAIN stack[g] = {1}
    BY <1>1, <2>1
  <2> QED
    BY <2>1, <2>2, <2>3 DEF Formatting
<1>3. Top(g) \in Frame /\ Told(Top(g))
  BY <1>1, RecordedTop DEF Follows
<1>4. /\ VisibleCalls[g] = View(plan, stack[g]) /\ Len(VisibleCalls[g]) = 1
      /\ App!Top(g) = Shown(plan, Top(g))
  BY <1>1, <1>2, TopShows
<1>5. App!Top(g).outcome = Top(g).outcome /\ Top(g).outcome # "none"
  BY <1>1, <1>3, <1>4 DEF Shown, Told
<1>6. View(plan, stack'[g]) = <<>>
  <2>1. stack'[g] = <<>>
    BY <1>1 DEF TypeInv, TypeOK
  <2>2. IsDepth(<<>>, 0) /\ <<>> \in Seq(Frame)
    BY DEF IsDepth
  <2>3. Depth(<<>>) = 0
    BY <2>2, DepthUnique
  <2>4. View(plan, <<>>) = [i \in 1..0 |-> Shown(plan, <<>>[i])]
    BY <2>3 DEF View
  <2>5. [i \in 1..0 |-> Shown(plan, <<>>[i])] = <<>>
    OBVIOUS
  <2> QED
    BY <2>1, <2>4, <2>5
<1>7. Becomes(g, <<>>)
  BY <1>1, <1>6 DEF Becomes, TypeInv, TypeOK
<1>8. VisibleCalls' = [VisibleCalls EXCEPT ![g] = <<>>]
  BY <1>7, BecomesVisible
<1> QED
  BY <1>1, <1>4, <1>5, <1>8 DEF App!Finishes

\* The hooks, and the methods they run, leave no trace in the application.
LEMMA HookShows ==
  ASSUME TypeInv, RecordInv, NEW g \in Goroutines, Hook(g)
  PROVE  UNCHANGED App!vars
<1>1. CASE StartSpan(g) \/ Skip(g) \/ EnterBody(g) \/ TakeSpan(g) \/ EndSpan(g)
  <2>1. /\ stack[g] # <<>> /\ UNCHANGED <<plan, crashed, printed>>
        /\ \E d : /\ d.fn = Top(g).fn /\ Sets(g, d) /\ Follows(plan[d.fn], d)
                  /\ Shown(plan, d) = Shown(plan, Top(g))
    BY <1>1, RecordStart, RecordTop
  <2>2. PICK d : d.fn = Top(g).fn /\ Sets(g, d) /\ Shown(plan, d) = Shown(plan, Top(g))
    BY <2>1
  <2>3. Becomes(g, View(plan, stack[g]))
    BY <2>1, <2>2, ShownSets
  <2> QED
    BY <2>1, <2>3, NothingShows
<1>2. CASE Format(g)
  <2>1. stack[g] # <<>> /\ UNCHANGED <<plan, crashed, printed>>
    BY <1>2, RecordFormat
  <2>2. PICK d, e : /\ Pushes(g, d, e) /\ d.fn = Top(g).fn /\ e.fn = "formatter"
                    /\ Shown(plan, d) = Shown(plan, Top(g))
    BY <1>2, RecordFormat
  <2>3. Becomes(g, View(plan, stack[g]))
    BY <2>1, <2>2, ShownPushes
  <2> QED
    BY <2>1, <2>3, NothingShows
<1>3. CASE Guard(g)
  <2> DEFINE n == Len(stack[g]) - 1
  <2>1. stack[g] # <<>> /\ Top(g).fn = "formatter" /\ UNCHANGED <<plan, crashed, printed>>
    BY <1>3, RecordGuard
  <2>2. PICK d : /\ Pops(g, d) /\ d.fn = stack[g][n].fn
                 /\ Shown(plan, d) = Shown(plan, stack[g][n])
    BY <1>3, RecordGuard
  <2>3. Len(stack[g]) \in Nat /\ Len(stack[g]) > 1
    BY <2>1, FirstFrame, AllShows
  <2>4. n \in Nat \ {0} /\ Len(stack[g]) = n + 1
    <3>1. \A k \in Nat : k > 1 => k - 1 \in Nat \ {0} /\ k = (k - 1) + 1
      OBVIOUS
    <3> QED
      BY <2>3, <3>1
  <2> HIDE DEF n
  <2>5. Becomes(g, View(plan, stack[g]))
    BY <2>1, <2>2, <2>4, ShownPops
  <2> QED
    BY <2>1, <2>5, NothingShows
<1> QED
  BY <1>1, <1>2, <1>3 DEF Hook

LEMMA InitShows == Init => App!Init
<1> SUFFICES ASSUME Init PROVE App!Init
  OBVIOUS
<1>1. PICK fn \in Functions :
        stack = [g \in Goroutines |-> IF g = Main THEN <<NewFrame(fn, Request, 0)>> ELSE <<>>]
  BY DEF Init
<1> DEFINE f == NewFrame(fn, Request, 0)
           seen == ShownValue(plan, f)
<1>2. seen \in App!Seen("request") /\ Shown(plan, f) = App!Call(fn, seen)
  BY ContextsTyped, NewShown DEF Request
<1>3. "request" \in App!Values /\ seen \in App!Values
  BY <1>2 DEF App!Values, App!Seen
<1>4. f \in Frame /\ f.fn # "formatter"
  BY FrameMade, ContextsTyped, HooksAssumption DEF NewFrame
<1> HIDE DEF f, seen
<1>5. View(plan, <<f>>) = <<App!Call(fn, seen)>>
  <2>1. <<f>> \in Seq(Frame) /\ Len(<<f>>) = 1 /\ <<f>>[1] = f
    BY <1>4
  <2>2. IsDepth(<<f>>, 1)
    BY <1>4, <2>1 DEF IsDepth
  <2>3. Depth(<<f>>) = 1
    BY <2>1, <2>2, DepthUnique
  <2>4. AsView(View(plan, <<f>>), 1) /\ \A i \in 1..1 : View(plan, <<f>>)[i] = Shown(plan, <<f>>[i])
    BY <2>1, <2>3, ViewTyped
  <2> DEFINE u == View(plan, <<f>>)
             v == <<App!Call(fn, seen)>>
  <2>5. v = [i \in 1..1 |-> v[i]] /\ v[1] = App!Call(fn, seen)
    OBVIOUS
  <2>6. u[1] = v[1]
    BY <1>2, <2>1, <2>4, <2>5
  <2>7. AsView(u, 1) /\ AsView(v, 1)
    BY <2>4, <2>5 DEF AsView
  <2> HIDE DEF u, v
  <2>8. \A i \in 1..1 : u[i] = v[i]
    BY <2>6
  <2>9. u = v
    BY <2>7, <2>8, SameViews
  <2> QED
    BY <2>9 DEF u, v
<1>6. View(plan, <<>>) = <<>>
  <2>1. IsDepth(<<>>, 0) /\ <<>> \in Seq(Frame)
    BY DEF IsDepth
  <2>2. Depth(<<>>) = 0
    BY <2>1, DepthUnique
  <2>3. View(plan, <<>>) = [i \in 1..0 |-> Shown(plan, <<>>[i])]
    BY <2>2 DEF View
  <2>4. [i \in 1..0 |-> Shown(plan, <<>>[i])] = <<>>
    OBVIOUS
  <2> QED
    BY <2>3, <2>4
<1>7. VisibleCalls = [g \in Goroutines |-> IF g = Main THEN <<App!Call(fn, seen)>> ELSE <<>>]
  <2>1. VisibleCalls = [g \in Goroutines |-> View(plan, stack[g])]
    BY Views DEF ViewsAre
  <2>2. \A g \in Goroutines : stack[g] = IF g = Main THEN <<f>> ELSE <<>>
    BY <1>1 DEF f
  <2> QED
    BY <1>5, <1>6, <2>1, <2>2
<1>8. crashed = FALSE /\ printed = FALSE
  BY DEF Init
<1> QED
  BY <1>2, <1>3, <1>7, <1>8 DEF App!Init

LEMMA StepShows == TypeInv /\ RecordInv /\ [Next]_vars => [App!Next]_(App!vars)
<1> SUFFICES ASSUME TypeInv, RecordInv, [Next]_vars PROVE Shows
  BY DEF Shows
<1>1. CASE UNCHANGED vars
  <2>1. VisibleCalls = [g \in Goroutines |-> View(plan, stack[g])]
    BY Views DEF ViewsAre
  <2>2. VisibleCalls' = [g \in Goroutines |-> View(plan', stack'[g])]
    BY ViewsNext DEF ViewsAre
  <2> QED
    BY <1>1, <2>1, <2>2 DEF vars, App!vars, Shows
<1>2. ASSUME NEW g \in Goroutines, NEW h \in Goroutines, Call(g, h) PROVE Shows
  BY <1>2, CallShows DEF Shows, App!Next
<1>3. ASSUME NEW g \in Goroutines, Leave(g) PROVE Shows
  BY <1>3, LeaveShows DEF Shows, App!Next
<1>4. ASSUME NEW g \in Goroutines, Deliver(g) PROVE Shows
  BY <1>4, DeliverShows DEF Shows, App!Next
<1>5. ASSUME NEW g \in Goroutines, Finish(g) PROVE Shows
  BY <1>5, FinishShows DEF Shows, App!Next
<1>6. ASSUME NEW g \in Goroutines, Hook(g) PROVE Shows
  BY <1>6, HookShows DEF Shows
<1> QED
  BY <1>1, <1>2, <1>3, <1>4, <1>5, <1>6 DEF Next

\* The instrumented program is the application: whatever the plan says and the methods
\* the hooks call do, values, panics, exits and contexts reach the application
\* unchanged, and nothing is printed.
THEOREM AlwaysTransparent == Spec => Transparent
<1>1. TypeInv /\ RecordInv /\ [Next]_vars => TypeInv' /\ RecordInv'
  BY TypeNext, RecordNext
<1>2. Spec => [](TypeInv /\ RecordInv)
  BY <1>1, TypeInit, RecordInit, PTL DEF Spec
<1> QED
  BY InitShows, StepShows, <1>2, PTL DEF Spec, Transparent, App!Spec
================================================================================
