---------------------------- MODULE PlanningProofs ----------------------------
(***************************************************************************)
(* The symbols of a plan are marked recursive exactly when they are on a   *)
(* cycle of calls, for every graph of calls: addRecursionMetadata finds    *)
(* the strong components of the graph, and a command that was interrupted  *)
(* does not go on with what it found.                                      *)
(*                                                                         *)
(* The first pass leaves the symbols in an order in which, of all that a   *)
(* symbol reaches, the last reaches it back.  The second takes the last    *)
(* symbol left: whatever is left and reaches it is in its component, and   *)
(* what is left then has no call into what is done.                        *)
(***************************************************************************)
EXTENDS Planning, TLAPS, FiniteSetTheorems, SequenceTheorems

-----------------------------------------------------------------------------
(* Graphs of calls.                                                        *)

IsGraph(E) == E \in [DOMAIN E -> Seq(DOMAIN E)]

Called(E, x) == Elements(E[x])

\* A set that calls do not leave.
Shut(E, S) == \A x \in S : Called(E, x) \subseteq S

\* By any number of calls, or none.
Reaches(E, x, y) == \A S \in SUBSET DOMAIN E : x \in S /\ Shut(E, S) => y \in S

LEMMA CalledType ==
  ASSUME NEW E, IsGraph(E), NEW x \in DOMAIN E
  PROVE  Called(E, x) \subseteq DOMAIN E
<1>1. E[x] \in Seq(DOMAIN E)
  BY DEF IsGraph
<1> QED
  BY <1>1, ElementOfSeq, LenProperties DEF Called, Elements

LEMMA ReachesSelf ==
  ASSUME NEW E, NEW x
  PROVE  Reaches(E, x, x)
BY DEF Reaches

LEMMA ReachesCalled ==
  ASSUME NEW E, IsGraph(E), NEW x \in DOMAIN E, NEW y \in Called(E, x)
  PROVE  Reaches(E, x, y) /\ y \in DOMAIN E
BY CalledType DEF Reaches, Shut

LEMMA ReachesOn ==
  ASSUME NEW E, NEW x, NEW y, NEW z, Reaches(E, x, y), Reaches(E, y, z)
  PROVE  Reaches(E, x, z)
BY DEF Reaches

LEMMA ReachesType ==
  ASSUME NEW E, IsGraph(E), NEW x \in DOMAIN E, NEW y, Reaches(E, x, y)
  PROVE  y \in DOMAIN E
BY CalledType DEF Reaches, Shut

\* What is reached by some calls is reached after the first of them.
LEMMA FirstCall ==
  ASSUME NEW E, IsGraph(E), NEW x \in DOMAIN E, NEW y, Reaches(E, x, y), x # y
  PROVE  \E z \in Called(E, x) : Reaches(E, z, y)
<1> DEFINE S == {x} \cup {w \in DOMAIN E : \E z \in Called(E, x) : Reaches(E, z, w)}
<1>1. S \in SUBSET DOMAIN E
  OBVIOUS
<1>2. ASSUME NEW v \in S, NEW w \in Called(E, v) PROVE w \in S
  <2>1. Reaches(E, v, w) /\ w \in DOMAIN E
    BY <1>1, <1>2, ReachesCalled
  <2>2. CASE v = x
    BY <1>2, <2>1, <2>2, ReachesSelf
  <2>3. CASE v # x
    <3>1. PICK z \in Called(E, x) : Reaches(E, z, v)
      BY <1>2, <2>3
    <3>2. Reaches(E, z, w)
      BY <2>1, <3>1, ReachesOn
    <3> QED
      BY <2>1, <3>2
  <2> QED
    BY <2>2, <2>3
<1>3. Shut(E, S)
  BY <1>2 DEF Shut
<1>4. y \in S
  BY <1>1, <1>3 DEF Reaches
<1> QED
  BY <1>4

\* OnCycle: a symbol that reaches itself by one call or more.
LEMMA OnCycleIs ==
  ASSUME IsGraph(calls)
  PROVE  OnCycle = {n \in Nodes : \E z \in Called(calls, n) : Reaches(calls, z, n)}
<1> SUFFICES ASSUME NEW n \in Nodes
             PROVE  n \in Reachable(n) <=> \E z \in Called(calls, n) : Reaches(calls, z, n)
  BY DEF OnCycle
<1>1. \A x : Callees(x) = Called(calls, x)
  BY DEF Callees, Called, Elements
<1>2. ASSUME n \in Reachable(n) PROVE \E z \in Called(calls, n) : Reaches(calls, z, n)
  <2> DEFINE S == {w \in Nodes : \E z \in Called(calls, n) : Reaches(calls, z, w)}
  <2>1. S \in SUBSET Nodes
    OBVIOUS
  <2>2. ASSUME NEW x \in S \cup {n}, NEW w \in Callees(x) PROVE w \in S
    <3>1. x \in Nodes /\ w \in Called(calls, x)
      BY <1>1, <2>2
    <3>2. Reaches(calls, x, w) /\ w \in Nodes
      BY <3>1, ReachesCalled DEF Nodes
    <3>3. CASE x \in S
      <4>1. PICK z \in Called(calls, n) : Reaches(calls, z, x)
        BY <3>3
      <4>2. Reaches(calls, z, w)
        BY <3>2, <4>1, ReachesOn
      <4> QED
        BY <3>2, <4>2
    <3>4. CASE x = n
      BY <3>1, <3>2, <3>4, ReachesSelf
    <3> QED
      BY <2>2, <3>3, <3>4
  <2> HIDE DEF S
  <2>3. n \in S
    BY <1>2, <2>1, <2>2 DEF Reachable
  <2> QED
    BY <2>3 DEF S
<1>3. ASSUME NEW z \in Called(calls, n), Reaches(calls, z, n) PROVE n \in Reachable(n)
  <2> SUFFICES ASSUME NEW S \in SUBSET Nodes, \A x \in S \cup {n} : Callees(x) \subseteq S
               PROVE  n \in S
    BY DEF Reachable
  <2>1. z \in S /\ Shut(calls, S)
    BY <1>1, <1>3 DEF Shut
  <2> QED
    BY <1>3, <2>1 DEF Reaches, Nodes
<1> QED
  BY <1>2, <1>3

-----------------------------------------------------------------------------
(* The depth-first search.                                                 *)

Frames(N) == [node : N, rest : Seq(N)]

Opened(st) == {st[i].node : i \in DOMAIN st}

\* Where the search stands, but for the calls of X: what is seen has returned
\* or is open; what an open visit calls is seen or to come; what has returned
\* calls only what is seen; and an open visit reaches those above it.
Searching(E, st, ord, sn, X) ==
  /\ st \in Seq(Frames(DOMAIN E)) /\ ord \in Seq(DOMAIN E)
  /\ sn = Elements(ord) \cup Opened(st)
  /\ Elements(ord) \cap Opened(st) = {}
  /\ \A i, j \in DOMAIN st : i # j => st[i].node # st[j].node
  /\ \A i \in DOMAIN st : Called(E, st[i].node) \subseteq sn \cup X \cup Elements(st[i].rest)
  /\ \A i \in DOMAIN st : Elements(st[i].rest) \subseteq Called(E, st[i].node)
  /\ \A x \in Elements(ord) : Called(E, x) \subseteq sn
  /\ \A i, j \in DOMAIN st : i <= j => Reaches(E, st[j].node, st[i].node)

\* All that x reaches has returned.
Settled(E, ord, x) == \A y : Reaches(E, x, y) => y \in Elements(ord)

\* What has returned is settled, or on a cycle with an open visit; and of all
\* that a settled one reaches, the last to return reaches it.
Forefathers(E, st, ord) ==
  /\ \A x \in Elements(ord) :
       \/ Settled(E, ord, x)
       \/ \E w \in Opened(st) : Reaches(E, x, w) /\ Reaches(E, w, x)
  /\ \A x \in Elements(ord) : \A i \in DOMAIN ord :
       /\ Settled(E, ord, x)
       /\ Reaches(E, x, ord[i])
       /\ \A j \in DOMAIN ord : j > i => ~Reaches(E, x, ord[j])
       => Reaches(E, ord[i], x)

LEMMA PushedIs ==
  ASSUME NEW T, NEW e \in T, NEW s \in Seq(T)
  PROVE  /\ <<e>> \o s \in Seq(T)
         /\ DOMAIN s = 1..Len(s) /\ Len(s) \in Nat
         /\ DOMAIN (<<e>> \o s) = 1..Len(s) + 1
         /\ (<<e>> \o s)[1] = e
         /\ \A i \in 1..Len(s) : (<<e>> \o s)[i + 1] = s[i]
         /\ \A i \in 1..Len(s) + 1 : i # 1 => i - 1 \in 1..Len(s) /\ (<<e>> \o s)[i] = s[i - 1]
<1>1. Len(s) \in Nat /\ DOMAIN s = 1..Len(s)
  BY LenProperties
<1>2. <<e>> \in Seq(T) /\ Len(<<e>>) = 1 /\ <<e>>[1] = e
  OBVIOUS
<1>3. /\ <<e>> \o s \in Seq(T) /\ Len(<<e>> \o s) = 1 + Len(s)
      /\ \A i \in 1..1 + Len(s) : (<<e>> \o s)[i] = IF i <= 1 THEN <<e>>[i] ELSE s[i - 1]
  BY <1>2, ConcatProperties
<1>4. DOMAIN (<<e>> \o s) = 1..Len(s) + 1
  BY <1>1, <1>3, LenProperties
<1> QED
  BY <1>1, <1>2, <1>3, <1>4

LEMMA TailIs ==
  ASSUME NEW T, NEW s \in Seq(T), s # <<>>
  PROVE  /\ Tail(s) \in Seq(T) /\ Head(s) = s[1] /\ s[1] \in T
         /\ DOMAIN s = 1..Len(s) /\ Len(s) \in Nat /\ Len(s) >= 1
         /\ DOMAIN Tail(s) = 1..Len(s) - 1
         /\ \A i \in 1..Len(s) - 1 : i + 1 \in 1..Len(s) /\ Tail(s)[i] = s[i + 1]
         /\ \A i \in 1..Len(s) : i # 1 => i - 1 \in 1..Len(s) - 1 /\ Tail(s)[i - 1] = s[i]
<1>1. Len(s) \in Nat /\ DOMAIN s = 1..Len(s) /\ Len(s) # 0
  BY LenProperties, EmptySeq
<1>2. Head(s) = s[1] /\ s[1] \in T
  BY <1>1, HeadTailProperties, ElementOfSeq
<1>3. /\ Tail(s) \in Seq(T) /\ Len(Tail(s)) = Len(s) - 1
      /\ \A i \in 1..Len(Tail(s)) : Tail(s)[i] = s[i + 1]
  BY HeadTailProperties
<1> QED
  BY <1>1, <1>2, <1>3, LenProperties

LEMMA AppendIs ==
  ASSUME NEW T, NEW s \in Seq(T), NEW e \in T
  PROVE  /\ Append(s, e) \in Seq(T)
         /\ Len(s) \in Nat /\ DOMAIN s = 1..Len(s)
         /\ DOMAIN Append(s, e) = 1..Len(s) + 1
         /\ \A i \in 1..Len(s) : Append(s, e)[i] = s[i]
         /\ Append(s, e)[Len(s) + 1] = e
         /\ Elements(Append(s, e)) = Elements(s) \cup {e}
<1>1. Len(s) \in Nat /\ DOMAIN s = 1..Len(s)
  BY LenProperties
<1>2. /\ Append(s, e) \in Seq(T) /\ Len(Append(s, e)) = Len(s) + 1
      /\ \A i \in 1..Len(s) : Append(s, e)[i] = s[i]
      /\ Append(s, e)[Len(s) + 1] = e
  BY AppendProperties
<1>3. DOMAIN Append(s, e) = 1..Len(s) + 1
  BY <1>2, LenProperties
<1> HIDE DEF Elements
<1> DEFINE a == Append(s, e)
<1>4. /\ a[Len(s) + 1] = e
      /\ \A i \in 1..Len(s) : a[i] = s[i]
      /\ DOMAIN a = 1..Len(s) + 1
  BY <1>2, <1>3
<1>5. Elements(a) = Elements(s) \cup {e}
  <2> HIDE DEF a
  <2> QED
    BY <1>1, <1>4 DEF Elements
<1> QED
  BY <1>1, <1>2, <1>3, <1>5

LEMMA OpenedPushed ==
  ASSUME NEW N, NEW e \in Frames(N), NEW s \in Seq(Frames(N))
  PROVE  Opened(<<e>> \o s) = {e.node} \cup Opened(s)
<1> DEFINE p == <<e>> \o s
<1>1. /\ DOMAIN s = 1..Len(s) /\ Len(s) \in Nat
      /\ DOMAIN p = 1..Len(s) + 1
      /\ p[1] = e
      /\ \A i \in 1..Len(s) : p[i + 1] = s[i]
      /\ \A i \in 1..Len(s) + 1 : i # 1 => i - 1 \in 1..Len(s) /\ p[i] = s[i - 1]
  BY PushedIs
<1> HIDE DEF p
<1>2. Opened(p) \subseteq {e.node} \cup Opened(s)
  <2> SUFFICES ASSUME NEW i \in DOMAIN p, i # 1 PROVE p[i].node \in Opened(s)
    BY <1>1 DEF Opened
  <2>1. i - 1 \in DOMAIN s /\ s[i - 1] = p[i]
    BY <1>1
  <2> QED
    BY <2>1 DEF Opened
<1>3. e.node \in Opened(p)
  BY <1>1 DEF Opened
<1>4. Opened(s) \subseteq Opened(p)
  <2> SUFFICES ASSUME NEW i \in DOMAIN s PROVE s[i].node \in Opened(p)
    BY DEF Opened
  <2>1. i + 1 \in DOMAIN p /\ p[i + 1] = s[i]
    BY <1>1
  <2> QED
    BY <2>1 DEF Opened
<1> QED
  BY <1>2, <1>3, <1>4 DEF p

LEMMA OpenedTail ==
  ASSUME NEW N, NEW s \in Seq(Frames(N)), s # <<>>
  PROVE  Opened(s) = {s[1].node} \cup Opened(Tail(s))
<1> DEFINE t == Tail(s)
<1>1. /\ DOMAIN s = 1..Len(s) /\ Len(s) \in Nat /\ Len(s) >= 1
      /\ DOMAIN t = 1..Len(s) - 1
      /\ \A i \in 1..Len(s) - 1 : i + 1 \in 1..Len(s) /\ t[i] = s[i + 1]
      /\ \A i \in 1..Len(s) : i # 1 => i - 1 \in 1..Len(s) - 1 /\ t[i - 1] = s[i]
  BY TailIs
<1> HIDE DEF t
<1>2. Opened(s) \subseteq {s[1].node} \cup Opened(t)
  BY <1>1 DEF Opened
<1>3. s[1].node \in Opened(s)
  BY <1>1 DEF Opened
<1>4. Opened(t) \subseteq Opened(s)
  <2> SUFFICES ASSUME NEW i \in DOMAIN t PROVE t[i].node \in Opened(s)
    BY DEF Opened
  <2>1. i + 1 \in DOMAIN s /\ s[i + 1] = t[i]
    BY <1>1
  <2> QED
    BY <2>1 DEF Opened
<1> QED
  BY <1>2, <1>3, <1>4 DEF t

\* A visit is entered: of the root, or of what the visit on top calls.
LEMMA Push ==
  ASSUME NEW E, IsGraph(E), NEW st, NEW ord, NEW sn, NEW X,
         Searching(E, st, ord, sn, X), NEW n \in DOMAIN E \ sn, X \subseteq {n},
         st # <<>> => Reaches(E, st[1].node, n)
  PROVE  Searching(E, << [node |-> n, rest |-> E[n]] >> \o st, ord, sn \cup {n}, {})
<1> DEFINE e == [node |-> n, rest |-> E[n]]
           p == <<e>> \o st
<1>1. st \in Seq(Frames(DOMAIN E)) /\ ord \in Seq(DOMAIN E) /\ sn = Elements(ord) \cup Opened(st)
  BY DEF Searching
<1>2. e \in Frames(DOMAIN E) /\ e.node = n /\ e.rest = E[n]
  BY DEF IsGraph, Frames
<1> HIDE DEF e
<1>3. /\ p \in Seq(Frames(DOMAIN E))
      /\ DOMAIN st = 1..Len(st) /\ Len(st) \in Nat
      /\ DOMAIN p = 1..Len(st) + 1
      /\ p[1] = e
      /\ \A i \in 1..Len(st) + 1 : i # 1 => i - 1 \in 1..Len(st) /\ p[i] = st[i - 1]
  BY <1>1, <1>2, PushedIs
<1>4. Opened(p) = {n} \cup Opened(st)
  BY <1>1, <1>2, OpenedPushed
<1> HIDE DEF p
<1>5. sn \cup {n} = Elements(ord) \cup Opened(p) /\ Elements(ord) \cap Opened(p) = {}
  BY <1>1, <1>4 DEF Searching
<1>6. \A i, j \in DOMAIN p : i # j => p[i].node # p[j].node
  <2> SUFFICES ASSUME NEW i \in DOMAIN p, NEW j \in DOMAIN p, i # j
               PROVE  p[i].node # p[j].node
    OBVIOUS
  <2>1. \A k \in DOMAIN st : st[k].node # n
    BY <1>1 DEF Opened
  <2>2. CASE i = 1
    BY <1>2, <1>3, <2>1, <2>2
  <2>3. CASE j = 1
    BY <1>2, <1>3, <2>1, <2>3
  <2>4. CASE i # 1 /\ j # 1
    <3>1. /\ i - 1 \in DOMAIN st /\ p[i] = st[i - 1]
          /\ j - 1 \in DOMAIN st /\ p[j] = st[j - 1] /\ i - 1 # j - 1
      BY <1>3, <2>4
    <3> QED
      BY <3>1 DEF Searching
  <2> QED
    BY <2>2, <2>3, <2>4
<1>7. \A i \in DOMAIN p : /\ Called(E, p[i].node) \subseteq sn \cup {n} \cup Elements(p[i].rest)
                          /\ Elements(p[i].rest) \subseteq Called(E, p[i].node)
  <2> SUFFICES ASSUME NEW i \in DOMAIN p
               PROVE  /\ Called(E, p[i].node) \subseteq sn \cup {n} \cup Elements(p[i].rest)
                      /\ Elements(p[i].rest) \subseteq Called(E, p[i].node)
    OBVIOUS
  <2>1. CASE i = 1
    BY <1>2, <1>3, <2>1 DEF Called
  <2>2. CASE i # 1
    <3>1. i - 1 \in DOMAIN st /\ p[i] = st[i - 1]
      BY <1>3, <2>2
    <3> QED
      BY <3>1 DEF Searching
  <2> QED
    BY <2>1, <2>2
<1>8. \A x \in Elements(ord) : Called(E, x) \subseteq sn \cup {n}
  BY DEF Searching
<1>9. \A i, j \in DOMAIN p : i <= j => Reaches(E, p[j].node, p[i].node)
  <2> SUFFICES ASSUME NEW i \in DOMAIN p, NEW j \in DOMAIN p, i <= j
               PROVE  Reaches(E, p[j].node, p[i].node)
    OBVIOUS
  <2>1. CASE j = 1
    <3>1. i = 1
      BY <1>3, <2>1
    <3> QED
      BY <2>1, <3>1, ReachesSelf
  <2>2. CASE j # 1 /\ i # 1
    <3>1. /\ i - 1 \in DOMAIN st /\ p[i] = st[i - 1]
          /\ j - 1 \in DOMAIN st /\ p[j] = st[j - 1] /\ i - 1 <= j - 1
      BY <1>3, <2>2
    <3> QED
      BY <3>1 DEF Searching
  <2>3. CASE j # 1 /\ i = 1
    <3>1. j - 1 \in DOMAIN st /\ p[j] = st[j - 1] /\ 1 \in DOMAIN st /\ 1 <= j - 1
      BY <1>3, <2>3
    <3>2. Reaches(E, st[j - 1].node, st[1].node)
      BY <3>1 DEF Searching
    <3>3. st # <<>>
      BY <3>1, <1>3
    <3>4. Reaches(E, st[j - 1].node, n)
      BY <3>2, <3>3, ReachesOn
    <3> QED
      BY <1>2, <1>3, <2>3, <3>1, <3>4
  <2> QED
    BY <2>1, <2>2, <2>3
<1>10. Searching(E, p, ord, sn \cup {n}, {})
  BY <1>1, <1>3, <1>5, <1>6, <1>7, <1>8, <1>9 DEF Searching
<1> QED
  BY <1>10 DEF p, e

\* The visit on top goes on to its next callee.
LEMMA Advance ==
  ASSUME NEW E, IsGraph(E), NEW st, NEW ord, NEW sn,
         Searching(E, st, ord, sn, {}), st # <<>>, Head(st).rest # <<>>,
         NEW later, later = << [Head(st) EXCEPT !.rest = Tail(@)] >> \o Tail(st)
  PROVE  /\ Searching(E, later, ord, sn, {Head(Head(st).rest)})
         /\ later # <<>> /\ later[1].node = st[1].node
         /\ Opened(later) = Opened(st)
         /\ Head(Head(st).rest) \in DOMAIN E
         /\ Reaches(E, st[1].node, Head(Head(st).rest))
<1> DEFINE e == [Head(st) EXCEPT !.rest = Tail(@)]
           c == Head(Head(st).rest)
           r == Head(st).rest
<1>1. st \in Seq(Frames(DOMAIN E)) /\ ord \in Seq(DOMAIN E) /\ sn = Elements(ord) \cup Opened(st)
  BY DEF Searching
<1>2. /\ Tail(st) \in Seq(Frames(DOMAIN E)) /\ Head(st) = st[1] /\ st[1] \in Frames(DOMAIN E)
      /\ DOMAIN st = 1..Len(st) /\ Len(st) \in Nat /\ Len(st) >= 1
      /\ DOMAIN Tail(st) = 1..Len(st) - 1
      /\ \A i \in 1..Len(st) - 1 : i + 1 \in 1..Len(st) /\ Tail(st)[i] = st[i + 1]
  BY <1>1, TailIs
<1>3. r \in Seq(DOMAIN E) /\ r # <<>>
  BY <1>2 DEF Frames
<1>4. /\ Tail(r) \in Seq(DOMAIN E) /\ c = r[1] /\ c \in DOMAIN E
      /\ Elements(r) = {c} \cup Elements(Tail(r))
  <2> HIDE DEF r
  <2> DEFINE q == Tail(r)
  <2>1. /\ q \in Seq(DOMAIN E) /\ Head(r) = r[1] /\ r[1] \in DOMAIN E
        /\ DOMAIN r = 1..Len(r) /\ Len(r) \in Nat /\ Len(r) >= 1
        /\ DOMAIN q = 1..Len(r) - 1
        /\ \A i \in 1..Len(r) - 1 : i + 1 \in 1..Len(r) /\ q[i] = r[i + 1]
        /\ \A i \in 1..Len(r) : i # 1 => i - 1 \in 1..Len(r) - 1 /\ q[i - 1] = r[i]
    BY <1>3, TailIs
  <2>2. Elements(r) \subseteq {r[1]} \cup Elements(q)
    <3> HIDE DEF q
    <3> SUFFICES ASSUME NEW i \in DOMAIN r, i # 1 PROVE r[i] \in Elements(q)
      BY DEF Elements
    <3>1. i - 1 \in DOMAIN q /\ q[i - 1] = r[i]
      BY <2>1
    <3> QED
      BY <3>1 DEF Elements
  <2>3. Elements(q) \subseteq Elements(r)
    <3> HIDE DEF q
    <3> SUFFICES ASSUME NEW i \in DOMAIN q PROVE q[i] \in Elements(r)
      BY DEF Elements
    <3>1. i + 1 \in DOMAIN r /\ r[i + 1] = q[i]
      BY <2>1
    <3> QED
      BY <3>1 DEF Elements
  <2>4. r[1] \in Elements(r)
    BY <2>1 DEF Elements
  <2> QED
    BY <2>1, <2>2, <2>3, <2>4 DEF r
<1>5. e \in Frames(DOMAIN E) /\ e.node = st[1].node /\ e.rest = Tail(r)
  BY <1>2, <1>4 DEF Frames
<1> HIDE DEF e
<1> DEFINE t == Tail(st)
<1>6. /\ <<e>> \o t \in Seq(Frames(DOMAIN E))
      /\ DOMAIN t = 1..Len(t) /\ Len(t) \in Nat
      /\ DOMAIN (<<e>> \o t) = 1..Len(t) + 1
      /\ (<<e>> \o t)[1] = e
      /\ \A i \in 1..Len(t) + 1 : i # 1 => i - 1 \in 1..Len(t) /\ (<<e>> \o t)[i] = t[i - 1]
  BY <1>2, <1>5, PushedIs
<1>7. later = <<e>> \o t
  BY DEF e
<1>8. Len(t) = Len(st) - 1
  BY <1>2, <1>6
<1>9. /\ later \in Seq(Frames(DOMAIN E)) /\ DOMAIN later = DOMAIN st
      /\ later[1] = e
      /\ \A i \in DOMAIN st : i # 1 => later[i] = st[i]
  <2>a. later \in Seq(Frames(DOMAIN E)) /\ later[1] = e /\ DOMAIN later = 1..Len(t) + 1
    BY <1>6, <1>7
  <2>b. DOMAIN later = DOMAIN st
    BY <1>2, <1>8, <2>a
  <2> SUFFICES ASSUME NEW i \in DOMAIN st, i # 1 PROVE later[i] = st[i]
    BY <2>a, <2>b
  <2>1. i \in 1..Len(t) + 1 /\ i - 1 \in 1..Len(st) - 1
    BY <1>2, <1>8
  <2>2. later[i] = t[i - 1]
    BY <1>6, <1>7, <2>1
  <2>3. t[i - 1] = st[i]
    BY <1>2, <2>1
  <2> QED
    BY <2>2, <2>3
<1>10. 1 \in DOMAIN st
  BY <1>2
<1>11. \A i \in DOMAIN st : later[i].node = st[i].node
  BY <1>5, <1>9
<1>12. Opened(later) = Opened(st)
  BY <1>9, <1>11 DEF Opened
<1>13. Elements(st[1].rest) = {c} \cup Elements(later[1].rest)
  BY <1>2, <1>4, <1>5, <1>9
<1>14. \A i \in DOMAIN st :
         /\ Elements(st[i].rest) \subseteq {c} \cup Elements(later[i].rest)
         /\ Elements(later[i].rest) \subseteq Elements(st[i].rest)
  BY <1>9, <1>13
<1>15. Reaches(E, st[1].node, c)
  <2>1. c \in Called(E, st[1].node)
    BY <1>10, <1>13 DEF Searching
  <2>2. st[1].node \in DOMAIN E
    BY <1>2 DEF Frames
  <2> QED
    BY <2>1, <2>2, ReachesCalled
<1>16. Searching(E, later, ord, sn, {c})
  <2> HIDE DEF c, r, t
  <2>1. \A i \in DOMAIN later : Called(E, later[i].node) \subseteq sn \cup {c} \cup Elements(later[i].rest)
    BY <1>9, <1>11, <1>14 DEF Searching
  <2>2. \A i \in DOMAIN later : Elements(later[i].rest) \subseteq Called(E, later[i].node)
    BY <1>9, <1>11, <1>14 DEF Searching
  <2>3. \A i, j \in DOMAIN later : i # j => later[i].node # later[j].node
    <3> SUFFICES ASSUME NEW i \in DOMAIN st, NEW j \in DOMAIN st, i # j
                 PROVE  later[i].node # later[j].node
      BY <1>9
    <3>1. st[i].node # st[j].node
      BY DEF Searching
    <3>2. later[i].node = st[i].node /\ later[j].node = st[j].node
      BY <1>11
    <3> QED
      BY <3>1, <3>2
  <2>4. \A i, j \in DOMAIN later : i <= j => Reaches(E, later[j].node, later[i].node)
    <3> SUFFICES ASSUME NEW i \in DOMAIN st, NEW j \in DOMAIN st, i <= j
                 PROVE  Reaches(E, later[j].node, later[i].node)
      BY <1>9
    <3>1. Reaches(E, st[j].node, st[i].node)
      BY DEF Searching
    <3>2. later[i].node = st[i].node /\ later[j].node = st[j].node
      BY <1>11
    <3> QED
      BY <3>1, <3>2
  <2> QED
    BY <1>1, <1>9, <1>12, <2>1, <2>2, <2>3, <2>4 DEF Searching
<1>17. later[1].node = st[1].node
  BY <1>10, <1>11
<1>18. later # <<>>
  <2>1. DOMAIN later # {}
    BY <1>9, <1>10
  <2> HIDE DEF t
  <2> QED
    BY <1>9, <2>1
<1> QED
  BY <1>4, <1>12, <1>15, <1>16, <1>17, <1>18

LEMMA SearchingOn ==
  ASSUME NEW E, NEW st, NEW ord, NEW sn, NEW c \in sn, Searching(E, st, ord, sn, {c})
  PROVE  Searching(E, st, ord, sn, {})
<1>1. sn \cup {c} = sn \cup {}
  OBVIOUS
<1>2. \A i \in DOMAIN st : Called(E, st[i].node) \subseteq sn \cup {} \cup Elements(st[i].rest)
  BY <1>1 DEF Searching
<1> QED
  BY <1>2 DEF Searching

\* More open visits leave what is known of those that returned.
LEMMA ForefathersKept ==
  ASSUME NEW E, NEW st, NEW ord, NEW later, Forefathers(E, st, ord),
         Opened(st) \subseteq Opened(later)
  PROVE  Forefathers(E, later, ord)
BY DEF Forefathers

\* The visit on top returns.
LEMMA Leaving ==
  ASSUME NEW E, IsGraph(E), NEW st, NEW ord, NEW sn, Searching(E, st, ord, sn, {}),
         Forefathers(E, st, ord), st # <<>>, Head(st).rest = <<>>
  PROVE  /\ Searching(E, Tail(st), Append(ord, Head(st).node), sn, {})
         /\ Forefathers(E, Tail(st), Append(ord, Head(st).node))
<1> DEFINE t == Head(st).node
           below == Tail(st)
           now == Append(ord, t)
<1>1. st \in Seq(Frames(DOMAIN E)) /\ ord \in Seq(DOMAIN E) /\ sn = Elements(ord) \cup Opened(st)
  BY DEF Searching
<1>2. /\ below \in Seq(Frames(DOMAIN E)) /\ Head(st) = st[1] /\ st[1] \in Frames(DOMAIN E)
      /\ DOMAIN st = 1..Len(st) /\ Len(st) \in Nat /\ Len(st) >= 1
      /\ DOMAIN below = 1..Len(st) - 1
      /\ \A i \in 1..Len(st) - 1 : i + 1 \in 1..Len(st) /\ below[i] = st[i + 1]
  BY <1>1, TailIs
<1>3. t \in DOMAIN E /\ t = st[1].node /\ st[1].rest = <<>> /\ 1 \in DOMAIN st
  BY <1>2 DEF Frames
<1>4. Opened(st) = {t} \cup Opened(below)
  BY <1>1, <1>3, OpenedTail
<1>5. /\ now \in Seq(DOMAIN E) /\ Elements(now) = Elements(ord) \cup {t}
      /\ Len(ord) \in Nat /\ DOMAIN ord = 1..Len(ord)
      /\ DOMAIN now = 1..Len(ord) + 1
      /\ \A i \in 1..Len(ord) : now[i] = ord[i]
      /\ now[Len(ord) + 1] = t
  BY <1>1, <1>3, AppendIs
<1>6. \A i \in DOMAIN below : i + 1 \in DOMAIN st /\ below[i] = st[i + 1] /\ i + 1 # 1
  BY <1>2
<1>7. t \notin Opened(below)
  <2> SUFFICES ASSUME NEW i \in DOMAIN below PROVE below[i].node # t
    BY DEF Opened
  <2> QED
    BY <1>3, <1>6 DEF Searching
<1>8. t \in Opened(st) /\ t \notin Elements(ord)
  BY <1>4 DEF Searching
<1>9. \A w \in Opened(below) : Reaches(E, w, t)
  <2> SUFFICES ASSUME NEW i \in DOMAIN below PROVE Reaches(E, below[i].node, t)
    BY DEF Opened
  <2>1. i + 1 \in DOMAIN st /\ below[i] = st[i + 1] /\ 1 <= i + 1
    BY <1>2
  <2> QED
    BY <1>3, <2>1 DEF Searching
<1>10. Called(E, t) \subseteq sn
  <2>1. Elements(<<>>) = {}
    BY DEF Elements
  <2> QED
    BY <1>3, <2>1 DEF Searching
<1>11. \A x \in Elements(ord) : Called(E, x) \subseteq sn /\ x \in DOMAIN E
  <2>1. \A x \in Elements(ord) : x \in DOMAIN E
    BY <1>1, <1>5, ElementOfSeq DEF Elements
  <2> QED
    BY <2>1 DEF Searching
<1> HIDE DEF t, below, now
<1>12. Searching(E, below, now, sn, {})
  <2>1. sn = Elements(now) \cup Opened(below) /\ Elements(now) \cap Opened(below) = {}
    BY <1>1, <1>4, <1>5, <1>7 DEF Searching
  <2>2. \A i, j \in DOMAIN below : i # j => below[i].node # below[j].node
    <3> SUFFICES ASSUME NEW i \in DOMAIN below, NEW j \in DOMAIN below, i # j
                 PROVE  below[i].node # below[j].node
      OBVIOUS
    <3>1. i + 1 \in DOMAIN st /\ j + 1 \in DOMAIN st /\ i + 1 # j + 1
      BY <1>2
    <3> QED
      BY <1>6, <3>1 DEF Searching
  <2>3. \A i \in DOMAIN below : /\ Called(E, below[i].node) \subseteq sn \cup {} \cup Elements(below[i].rest)
                                /\ Elements(below[i].rest) \subseteq Called(E, below[i].node)
    BY <1>6 DEF Searching
  <2>4. \A x \in Elements(now) : Called(E, x) \subseteq sn
    BY <1>5, <1>10, <1>11
  <2>5. \A i, j \in DOMAIN below : i <= j => Reaches(E, below[j].node, below[i].node)
    <3> SUFFICES ASSUME NEW i \in DOMAIN below, NEW j \in DOMAIN below, i <= j
                 PROVE  Reaches(E, below[j].node, below[i].node)
      OBVIOUS
    <3>1. i + 1 \in DOMAIN st /\ j + 1 \in DOMAIN st /\ i + 1 <= j + 1
      BY <1>2
    <3>2. Reaches(E, st[j + 1].node, st[i + 1].node)
      BY <3>1 DEF Searching
    <3> QED
      BY <1>6, <3>2
  <2> QED
    BY <1>2, <1>5, <2>1, <2>2, <2>3, <2>4, <2>5 DEF Searching
<1>13. \/ \E w \in Opened(below) : Reaches(E, t, w) /\ Reaches(E, w, t)
       \/ Settled(E, now, t)
  <2> SUFFICES ASSUME \A w \in Opened(below) : ~Reaches(E, t, w)
               PROVE  Settled(E, now, t)
    BY <1>9
  <2> DEFINE S == {y \in Elements(now) : Reaches(E, t, y)}
  <2>1. S \in SUBSET DOMAIN E
    BY <1>3, <1>5, <1>11
  <2>2. t \in S
    BY <1>5, ReachesSelf
  <2>3. ASSUME NEW y \in S, NEW z \in Called(E, y) PROVE z \in S
    <3>1. y \in DOMAIN E
      BY <2>1
    <3>2. Reaches(E, y, z)
      BY <3>1, <2>3, ReachesCalled
    <3>3. Reaches(E, t, z)
      BY <3>2, ReachesOn
    <3>4. z \in sn
      BY <1>5, <1>10, <1>11, <2>3
    <3>5. z \in Elements(ord) \cup {t}
      BY <1>1, <1>4, <3>3, <3>4
    <3> QED
      BY <1>5, <3>3, <3>5
  <2>4. Shut(E, S)
    BY <2>3 DEF Shut
  <2>5. \A y : Reaches(E, t, y) => y \in S
    <3> HIDE DEF S
    <3> QED
      BY <2>1, <2>2, <2>4 DEF Reaches
  <2> QED
    BY <2>5 DEF Settled
<1>14. ASSUME NEW x \in Elements(ord)
       PROVE  Settled(E, ord, x) \/ \E w \in Opened(st) : Reaches(E, x, w) /\ Reaches(E, w, x)
  BY DEF Forefathers
<1>15. ASSUME NEW x \in Elements(now)
       PROVE  Settled(E, now, x) \/ \E w \in Opened(below) : Reaches(E, x, w) /\ Reaches(E, w, x)
  <2>1. ASSUME x = t \/ (Reaches(E, x, t) /\ Reaches(E, t, x))
        PROVE  Settled(E, now, x) \/ \E w \in Opened(below) : Reaches(E, x, w) /\ Reaches(E, w, x)
    <3>0. Reaches(E, x, t) /\ Reaches(E, t, x)
      BY <2>1, ReachesSelf
    <3>1. CASE Settled(E, now, t)
      <4>1. \A y : Reaches(E, x, y) => Reaches(E, t, y)
        BY <3>0, ReachesOn
      <4> QED
        BY <3>1, <4>1 DEF Settled
    <3>2. ASSUME NEW w \in Opened(below), Reaches(E, t, w), Reaches(E, w, t)
          PROVE  Reaches(E, x, w) /\ Reaches(E, w, x)
      BY <3>0, <3>2, ReachesOn
    <3> QED
      BY <1>13, <3>1, <3>2
  <2>2. CASE x # t
    <3>1. x \in Elements(ord)
      BY <1>5, <2>2
    <3>2. CASE Settled(E, ord, x)
      BY <1>5, <3>2 DEF Settled
    <3>3. ASSUME NEW w \in Opened(st), Reaches(E, x, w), Reaches(E, w, x)
          PROVE  Settled(E, now, x) \/ \E v \in Opened(below) : Reaches(E, x, v) /\ Reaches(E, v, x)
      BY <1>4, <2>1, <3>3
    <3> QED
      BY <1>14, <3>1, <3>2, <3>3
  <2> QED
    BY <2>1, <2>2
<1>16. ASSUME NEW x \in Elements(now), NEW i \in DOMAIN now, Settled(E, now, x),
              Reaches(E, x, now[i]), \A j \in DOMAIN now : j > i => ~Reaches(E, x, now[j])
       PROVE  Reaches(E, now[i], x)
  <2>1. CASE x = t \/ ~Settled(E, ord, x)
    <3>1. Reaches(E, x, t) /\ Reaches(E, t, x)
      <4>1. CASE x = t
        BY <4>1, ReachesSelf
      <4>2. CASE x # t
        <5>1. PICK w \in Opened(st) : Reaches(E, x, w) /\ Reaches(E, w, x)
          BY <1>5, <1>14, <2>1, <4>2
        <5>2. w \in Elements(now)
          BY <1>16, <5>1 DEF Settled
        <5>3. w \notin Elements(ord)
          BY <5>1 DEF Searching
        <5> QED
          BY <1>5, <5>1, <5>2, <5>3
      <4> QED
        BY <4>1, <4>2
    <3>2. Len(ord) + 1 \in DOMAIN now /\ i \in 1..Len(ord) + 1
      BY <1>5
    <3>3. ~(Len(ord) + 1 > i)
      BY <1>5, <1>16, <3>1, <3>2
    <3>4. i = Len(ord) + 1
      BY <1>5, <3>2, <3>3
    <3> QED
      BY <1>5, <3>1, <3>4
  <2>2. CASE x # t /\ Settled(E, ord, x)
    <3>1. x \in Elements(ord)
      BY <1>5, <2>2
    <3>2. ~Reaches(E, x, t)
      BY <1>8, <2>2 DEF Settled
    <3>3. i # Len(ord) + 1
      BY <1>5, <1>16, <3>2
    <3>4. i \in DOMAIN ord /\ now[i] = ord[i]
      BY <1>5, <3>3
    <3>5. \A j \in DOMAIN ord : j > i => ~Reaches(E, x, ord[j])
      <4> SUFFICES ASSUME NEW j \in DOMAIN ord, j > i PROVE ~Reaches(E, x, ord[j])
        OBVIOUS
      <4>1. j \in DOMAIN now /\ now[j] = ord[j]
        BY <1>5
      <4> QED
        BY <1>16, <4>1
    <3> QED
      BY <1>16, <2>2, <3>1, <3>4, <3>5 DEF Forefathers
  <2> QED
    BY <2>1, <2>2
<1>17. Forefathers(E, below, now)
  BY <1>15, <1>16 DEF Forefathers
<1> QED
  BY <1>12, <1>17 DEF t, below, now

-----------------------------------------------------------------------------
(* Sequences and the numbers of a set.                                     *)

\* A sequence without its last element.
LEMMA ShorterIs ==
  ASSUME NEW T, NEW s \in Seq(T), s # <<>>
  PROVE  /\ Len(s) \in Nat /\ Len(s) >= 1 /\ DOMAIN s = 1..Len(s) /\ s[Len(s)] \in T
         /\ SubSeq(s, 1, Len(s) - 1) \in Seq(T)
         /\ DOMAIN SubSeq(s, 1, Len(s) - 1) = 1..Len(s) - 1
         /\ \A i \in 1..Len(s) - 1 : SubSeq(s, 1, Len(s) - 1)[i] = s[i]
         /\ Elements(s) = Elements(SubSeq(s, 1, Len(s) - 1)) \cup {s[Len(s)]}
<1> DEFINE q == SubSeq(s, 1, Len(s) - 1)
<1>1. Len(s) \in Nat /\ DOMAIN s = 1..Len(s) /\ Len(s) >= 1
  BY LenProperties, EmptySeq
<1>2. s[Len(s)] \in T /\ \A i \in 1..Len(s) - 1 : s[i] \in T
  BY <1>1, ElementOfSeq
<1>3. 1 \in Int /\ Len(s) - 1 \in Int
  BY <1>1
<1>4. /\ q \in Seq(T)
      /\ Len(q) = IF 1 <= Len(s) - 1 THEN (Len(s) - 1) - 1 + 1 ELSE 0
      /\ \A i \in 1..(Len(s) - 1) - 1 + 1 : q[i] = s[1 + i - 1]
  BY <1>2, <1>3, SubSeqProperties
<1> HIDE DEF q
<1>a. (Len(s) - 1) - 1 + 1 = Len(s) - 1 /\ Len(q) = Len(s) - 1
  <2>1. Len(q) = IF 1 <= Len(s) - 1 THEN (Len(s) - 1) - 1 + 1 ELSE 0
    BY <1>4
  <2>2. \A n \in Nat : n >= 1 => (IF 1 <= n - 1 THEN (n - 1) - 1 + 1 ELSE 0) = n - 1
    OBVIOUS
  <2>3. (Len(s) - 1) - 1 + 1 = Len(s) - 1
    BY <1>1
  <2> QED
    BY <1>1, <2>1, <2>2, <2>3
<1>b. DOMAIN q = 1..Len(q)
  BY <1>4, LenProperties
<1>5. DOMAIN q = 1..Len(s) - 1
  BY <1>a, <1>b
<1>6. \A i \in 1..Len(s) - 1 : q[i] = s[i]
  <2> SUFFICES ASSUME NEW i \in 1..Len(s) - 1 PROVE q[i] = s[i]
    OBVIOUS
  <2>1. q[i] = s[1 + i - 1]
    BY <1>4, <1>a
  <2>2. 1 + i - 1 = i
    BY <1>1
  <2> QED
    BY <2>1, <2>2
<1>7. Elements(s) = Elements(q) \cup {s[Len(s)]}
  BY <1>1, <1>5, <1>6 DEF Elements
<1> QED
  BY <1>1, <1>2, <1>4, <1>5, <1>6, <1>7 DEF q

LEMMA ElementsJoined ==
  ASSUME NEW T, NEW s \in Seq(T), NEW t \in Seq(T)
  PROVE  s \o t \in Seq(T) /\ Elements(s \o t) = Elements(s) \cup Elements(t)
<1> DEFINE j == s \o t
<1>1. /\ Len(s) \in Nat /\ DOMAIN s = 1..Len(s)
      /\ Len(t) \in Nat /\ DOMAIN t = 1..Len(t)
  BY LenProperties
<1>2. /\ j \in Seq(T) /\ Len(j) = Len(s) + Len(t)
      /\ \A i \in 1..Len(s) + Len(t) : j[i] = IF i <= Len(s) THEN s[i] ELSE t[i - Len(s)]
  BY ConcatProperties
<1>3. DOMAIN j = 1..Len(s) + Len(t)
  BY <1>2, LenProperties
<1> HIDE DEF j
<1>4. Elements(j) \subseteq Elements(s) \cup Elements(t)
  <2> SUFFICES ASSUME NEW i \in DOMAIN j PROVE j[i] \in Elements(s) \cup Elements(t)
    BY DEF Elements
  <2>1. CASE i <= Len(s)
    <3>1. i \in DOMAIN s /\ j[i] = s[i]
      BY <1>1, <1>2, <1>3, <2>1
    <3> QED
      BY <3>1 DEF Elements
  <2>2. CASE ~(i <= Len(s))
    <3>1. i - Len(s) \in DOMAIN t /\ j[i] = t[i - Len(s)]
      BY <1>1, <1>2, <1>3, <2>2
    <3> QED
      BY <3>1 DEF Elements
  <2> QED
    BY <2>1, <2>2
<1>5. Elements(s) \subseteq Elements(j)
  <2> SUFFICES ASSUME NEW i \in DOMAIN s PROVE s[i] \in Elements(j)
    BY DEF Elements
  <2>1. i \in DOMAIN j /\ j[i] = s[i]
    BY <1>1, <1>2, <1>3
  <2> QED
    BY <2>1 DEF Elements
<1>6. Elements(t) \subseteq Elements(j)
  <2> SUFFICES ASSUME NEW i \in DOMAIN t PROVE t[i] \in Elements(j)
    BY DEF Elements
  <2>1. i + Len(s) \in DOMAIN j
    BY <1>1, <1>3
  <2>2. ~(i + Len(s) <= Len(s)) /\ (i + Len(s)) - Len(s) = i
    BY <1>1
  <2>3. j[i + Len(s)] = t[i]
    BY <1>2, <1>3, <2>1, <2>2
  <2> QED
    BY <2>1, <2>3 DEF Elements
<1> QED
  BY <1>2, <1>4, <1>5, <1>6 DEF j

LEMMA ContainsIs ==
  ASSUME NEW s, NEW x
  PROVE  Contains(s, x) <=> x \in Elements(s)
BY DEF Contains, Elements

\* Each number of the set has the place of its rank, and each place a number.
LEMMA AscendingIs ==
  ASSUME NEW S \in SUBSET Nat, IsFiniteSet(S)
  PROVE  /\ Ascending(S) \in Seq(S) /\ Elements(Ascending(S)) = S
         /\ \A i, j \in DOMAIN Ascending(S) : i < j => Ascending(S)[i] < Ascending(S)[j]
<1> DEFINE below(x) == {m \in S : m < x}
           n == Cardinality(S)
           rank == [x \in S |-> Cardinality(below(x))]
           A == [i \in 1..n |-> CHOOSE x \in S : Cardinality(below(x)) = i - 1]
<1>1. n \in Nat
  BY FS_CardinalityType
<1>2. \A x \in S : IsFiniteSet(below(x)) /\ Cardinality(below(x)) \in 0..n - 1
  <2> SUFFICES ASSUME NEW x \in S
               PROVE  IsFiniteSet(below(x)) /\ Cardinality(below(x)) \in 0..n - 1
    OBVIOUS
  <2>1. IsFiniteSet(S \ {x}) /\ Cardinality(S \ {x}) = n - 1
    BY FS_RemoveElement
  <2>2. below(x) \in SUBSET (S \ {x})
    OBVIOUS
  <2>3. IsFiniteSet(below(x)) /\ Cardinality(below(x)) <= Cardinality(S \ {x})
    BY <2>1, <2>2, FS_Subset
  <2>4. Cardinality(below(x)) \in Nat
    BY <2>3, FS_CardinalityType
  <2> HIDE DEF below, n
  <2> QED
    BY <1>1, <2>1, <2>3, <2>4
<1>3. ASSUME NEW x \in S, NEW y \in S, x < y
      PROVE  Cardinality(below(x)) < Cardinality(below(y))
  <2>1. below(x) \cup {x} \in SUBSET below(y) /\ x \notin below(x)
    <3>1. x \in Nat /\ y \in Nat /\ ~(x < x)
      OBVIOUS
    <3>2. \A m \in S : m < x => m < y
      <4> SUFFICES ASSUME NEW m \in S, m < x PROVE m < y
        OBVIOUS
      <4>1. m \in Nat
        OBVIOUS
      <4> QED
        BY <1>3, <3>1, <4>1
    <3> QED
      BY <1>3, <3>1, <3>2
  <2>2. Cardinality(below(x) \cup {x}) = Cardinality(below(x)) + 1
    BY <1>2, <2>1, FS_AddElement
  <2>3. Cardinality(below(x) \cup {x}) <= Cardinality(below(y))
    BY <1>2, <2>1, FS_Subset
  <2>4. Cardinality(below(x)) \in 0..n - 1 /\ Cardinality(below(y)) \in 0..n - 1
    BY <1>2
  <2> HIDE DEF below, n
  <2> QED
    BY <1>1, <2>2, <2>3, <2>4
<1>4. \A x, y \in S : Cardinality(below(x)) = Cardinality(below(y)) => x = y
  <2> SUFFICES ASSUME NEW x \in S, NEW y \in S, x # y
               PROVE  Cardinality(below(x)) # Cardinality(below(y))
    OBVIOUS
  <2>1. Cardinality(below(x)) \in 0..n - 1 /\ Cardinality(below(y)) \in 0..n - 1
    BY <1>2
  <2>2. x < y => Cardinality(below(x)) < Cardinality(below(y))
    BY <1>3
  <2>3. y < x => Cardinality(below(y)) < Cardinality(below(x))
    BY <1>3
  <2>4. x < y \/ y < x
    OBVIOUS
  <2> HIDE DEF below, n
  <2> QED
    BY <1>1, <2>1, <2>2, <2>3, <2>4
<1>5. rank \in Injection(S, 0..n - 1)
  <2>1. rank \in [S -> 0..n - 1]
    BY <1>2
  <2>2. \A x, y \in S : rank[x] = rank[y] => x = y
    BY <1>4
  <2> HIDE DEF rank, n
  <2> QED
    BY <2>1, <2>2 DEF Injection, IsInjective
<1>6. IsFiniteSet(0..n - 1) /\ Cardinality(0..n - 1) = n
  <2> HIDE DEF n
  <2>1. 0 \in Int /\ n - 1 \in Int /\ (0 > n - 1 <=> n = 0) /\ (n - 1) - 0 + 1 = n
    BY <1>1
  <2> QED
    BY <1>1, <2>1, FS_Interval
<1>7. rank \in Surjection(S, 0..n - 1)
  <2> HIDE DEF rank
  <2> QED
    BY <1>5, <1>6, FS_Injection
<1>8. \A i \in 1..n : \E x \in S : Cardinality(below(x)) = i - 1
  <2> SUFFICES ASSUME NEW i \in 1..n PROVE \E x \in S : Cardinality(below(x)) = i - 1
    OBVIOUS
  <2>1. i - 1 \in 0..n - 1
    BY <1>1
  <2>2. \E x \in S : rank[x] = i - 1
    <3> HIDE DEF rank, n
    <3> QED
      BY <1>7, <2>1 DEF Surjection
  <2> QED
    BY <2>2
<1>9. \A i \in 1..n : A[i] \in S /\ Cardinality(below(A[i])) = i - 1
  <2> SUFFICES ASSUME NEW i \in 1..n PROVE A[i] \in S /\ Cardinality(below(A[i])) = i - 1
    OBVIOUS
  <2>1. A[i] = CHOOSE x \in S : Cardinality(below(x)) = i - 1
    OBVIOUS
  <2> HIDE DEF A, below, n
  <2> QED
    BY <1>8, <2>1
<1>10. DOMAIN A = 1..n
  OBVIOUS
<1>11. A = Ascending(S)
  BY DEF Ascending
<1>12. S \subseteq Elements(A)
  <2> SUFFICES ASSUME NEW x \in S PROVE x \in Elements(A)
    OBVIOUS
  <2>1. Cardinality(below(x)) \in 0..n - 1
    BY <1>2
  <2> DEFINE i == Cardinality(below(x)) + 1
  <2>2. i \in 1..n /\ i - 1 = Cardinality(below(x))
    <3> HIDE DEF below, n
    <3> QED
      BY <1>1, <2>1
  <2> HIDE DEF i
  <2>3. A[i] \in S /\ Cardinality(below(A[i])) = Cardinality(below(x))
    <3> HIDE DEF A, below, n
    <3> QED
      BY <1>9, <2>2
  <2>4. A[i] = x
    <3> HIDE DEF A, below, n
    <3> QED
      BY <1>4, <2>3
  <2> HIDE DEF A
  <2> QED
    BY <1>10, <2>2, <2>4 DEF Elements
<1>13. A \in Seq(S)
  <2>1. \A i \in 1..n : (CHOOSE x \in S : Cardinality(below(x)) = i - 1) \in S
    <3> HIDE DEF n, below
    <3> QED
      BY <1>8
  <2>2. A \in [1..n -> S]
    BY <2>1
  <2> HIDE DEF A, n
  <2> QED
    BY <1>1, <2>2
<1>14. Elements(A) \subseteq S
  <2> HIDE DEF A, n, below
  <2> QED
    BY <1>9, <1>10 DEF Elements
<1>15. \A i, j \in DOMAIN A : i < j => A[i] < A[j]
  <2> SUFFICES ASSUME NEW i \in 1..n, NEW j \in 1..n, i < j PROVE A[i] < A[j]
    BY <1>10
  <2>1. /\ A[i] \in S /\ Cardinality(below(A[i])) = i - 1
        /\ A[j] \in S /\ Cardinality(below(A[j])) = j - 1
    <3> HIDE DEF A, n, below
    <3> QED
      BY <1>9
  <2>2. i \in Nat /\ j \in Nat /\ i - 1 # j - 1 /\ ~(j - 1 < i - 1)
    BY <1>1
  <2>3. A[i] \in Nat /\ A[j] \in Nat
    BY <2>1
  <2> HIDE DEF A, n
  <2>4. A[j] < A[i] => Cardinality(below(A[j])) < Cardinality(below(A[i]))
    BY <1>3, <2>1
  <2> HIDE DEF below
  <2>5. A[i] # A[j] /\ ~(A[j] < A[i])
    BY <2>1, <2>2, <2>4
  <2> QED
    BY <2>3, <2>5
<1> QED
  BY <1>11, <1>12, <1>13, <1>14, <1>15

-----------------------------------------------------------------------------
(* The components.                                                         *)

Component(E, s) == {x \in DOMAIN E : Reaches(E, x, s) /\ Reaches(E, s, x)}

OnCycleOf(E) == {n \in DOMAIN E : \E z \in Called(E, n) : Reaches(E, z, n)}

\* Where the marking stands when the components of D are done: what is left is
\* not left by calls and still in the order, and of all that a symbol left
\* reaches, the last in the order reaches it.
Remaining(E, ord, D) ==
  /\ ord \in Seq(DOMAIN E) /\ D \subseteq DOMAIN E
  /\ Shut(E, DOMAIN E \ D)
  /\ DOMAIN E \ D \subseteq Elements(ord)
  /\ \A x \in DOMAIN E \ D : \A i \in DOMAIN ord :
       /\ Reaches(E, x, ord[i])
       /\ \A j \in DOMAIN ord : j > i => ~Reaches(E, x, ord[j])
       => Reaches(E, ord[i], x)

\* Where the component of s stands: it has the symbols of mem and of todo, all
\* reach s, and what calls one of mem is seen.
Growing(E, D, s, todo, mem, sn) ==
  /\ s \in mem \cup todo /\ mem \cup todo \subseteq sn /\ sn \subseteq DOMAIN E
  /\ D = sn \ (mem \cup todo)
  /\ \A x \in mem \cup todo : Reaches(E, x, s)
  /\ \A x \in mem : \A c \in DOMAIN E : x \in Called(E, c) => c \in sn

LEMMA RemainingAll ==
  ASSUME NEW E, IsGraph(E), NEW ord, NEW sn, Searching(E, <<>>, ord, sn, {}),
         Forefathers(E, <<>>, ord), DOMAIN E \subseteq sn
  PROVE  Remaining(E, ord, {})
<1>1. Opened(<<>>) = {}
  BY DEF Opened
<1>2. ord \in Seq(DOMAIN E) /\ DOMAIN E \subseteq Elements(ord)
  BY <1>1 DEF Searching
<1>3. Shut(E, DOMAIN E \ {})
  BY CalledType DEF Shut
<1>4. \A x \in Elements(ord) : Settled(E, ord, x)
  BY <1>1 DEF Forefathers
<1>5. \A x \in DOMAIN E \ {} : \A i \in DOMAIN ord :
        /\ Reaches(E, x, ord[i])
        /\ \A j \in DOMAIN ord : j > i => ~Reaches(E, x, ord[j])
        => Reaches(E, ord[i], x)
  BY <1>2, <1>4 DEF Forefathers
<1> QED
  BY <1>2, <1>3, <1>5 DEF Remaining

\* Nothing left reaches what is done.
LEMMA DoneUnreached ==
  ASSUME NEW E, NEW ord, NEW D, Remaining(E, ord, D), NEW x \in DOMAIN E \ D, NEW y,
         Reaches(E, x, y)
  PROVE  y \in DOMAIN E \ D
<1>1. DOMAIN E \ D \in SUBSET DOMAIN E /\ Shut(E, DOMAIN E \ D)
  BY DEF Remaining
<1> QED
  BY <1>1 DEF Reaches

LEMMA RemainingShorter ==
  ASSUME NEW E, NEW ord, NEW D, Remaining(E, ord, D), ord # <<>>, ord[Len(ord)] \in D
  PROVE  Remaining(E, SubSeq(ord, 1, Len(ord) - 1), D)
<1> DEFINE q == SubSeq(ord, 1, Len(ord) - 1)
<1>1. /\ Len(ord) \in Nat /\ Len(ord) >= 1 /\ DOMAIN ord = 1..Len(ord)
      /\ q \in Seq(DOMAIN E) /\ DOMAIN q = 1..Len(ord) - 1
      /\ \A i \in 1..Len(ord) - 1 : q[i] = ord[i]
      /\ Elements(ord) = Elements(q) \cup {ord[Len(ord)]}
  BY ShorterIs DEF Remaining
<1> HIDE DEF q
<1>2. DOMAIN E \ D \subseteq Elements(q)
  BY <1>1 DEF Remaining
<1>3. ASSUME NEW x \in DOMAIN E \ D, NEW i \in DOMAIN q, Reaches(E, x, q[i]),
             \A j \in DOMAIN q : j > i => ~Reaches(E, x, q[j])
      PROVE  Reaches(E, q[i], x)
  <2>1. i \in DOMAIN ord /\ q[i] = ord[i]
    BY <1>1
  <2>2. ASSUME NEW j \in DOMAIN ord, j > i PROVE ~Reaches(E, x, ord[j])
    <3>1. CASE j = Len(ord)
      BY <3>1, DoneUnreached
    <3>2. CASE j # Len(ord)
      <4>1. j \in DOMAIN q /\ q[j] = ord[j]
        BY <1>1, <3>2
      <4> QED
        BY <1>3, <2>2, <4>1
    <3> QED
      BY <3>1, <3>2
  <2> QED
    BY <1>3, <2>1, <2>2 DEF Remaining
<1>4. Remaining(E, q, D)
  BY <1>1, <1>2, <1>3 DEF Remaining
<1> QED
  BY <1>4 DEF q

\* What is left and reaches the last of the order is in its component.
LEMMA LastReached ==
  ASSUME NEW E, NEW ord, NEW D, Remaining(E, ord, D), ord # <<>>, ord[Len(ord)] \notin D
  PROVE  /\ ord[Len(ord)] \in DOMAIN E
         /\ \A x \in DOMAIN E \ D :
              Reaches(E, x, ord[Len(ord)]) => x \in Component(E, ord[Len(ord)])
         /\ Component(E, ord[Len(ord)]) \subseteq DOMAIN E \ D
<1>1. /\ Len(ord) \in Nat /\ Len(ord) >= 1 /\ DOMAIN ord = 1..Len(ord)
      /\ ord[Len(ord)] \in DOMAIN E
  BY ShorterIs DEF Remaining
<1>2. Len(ord) \in DOMAIN ord /\ \A j \in DOMAIN ord : ~(j > Len(ord))
  BY <1>1
<1>3. \A x \in DOMAIN E \ D :
        Reaches(E, x, ord[Len(ord)]) => x \in Component(E, ord[Len(ord)])
  BY <1>2 DEF Remaining, Component
<1>4. Component(E, ord[Len(ord)]) \subseteq DOMAIN E \ D
  BY <1>1, DoneUnreached DEF Component
<1> QED
  BY <1>1, <1>3, <1>4

LEMMA ComponentFound ==
  ASSUME NEW E, NEW ord, NEW D, Remaining(E, ord, D), ord # <<>>, ord[Len(ord)] \notin D,
         NEW mem, NEW sn, Growing(E, D, ord[Len(ord)], {}, mem, sn)
  PROVE  mem = Component(E, ord[Len(ord)])
<1> DEFINE s == ord[Len(ord)]
<1>1. mem \subseteq DOMAIN E \ D
  BY DEF Growing
<1>2. mem \subseteq Component(E, s)
  BY <1>1, LastReached DEF Growing
<1>3. ASSUME NEW x \in Component(E, s), x \notin mem PROVE FALSE
  <2> DEFINE S == DOMAIN E \ sn
  <2>1. sn = D \cup mem
    BY DEF Growing
  <2>2. x \in S
    BY <1>3, <2>1, LastReached
  <2>3. ASSUME NEW y \in S, NEW z \in Called(E, y) PROVE z \in S
    <3>1. z \in DOMAIN E \ D
      BY <2>1, <2>3 DEF Remaining, Shut
    <3>2. z \notin mem
      BY <2>3 DEF Growing
    <3> QED
      BY <2>1, <3>1, <3>2
  <2>4. S \in SUBSET DOMAIN E /\ Shut(E, S)
    BY <2>3 DEF Shut
  <2>5. Reaches(E, x, s)
    BY <1>3 DEF Component
  <2>6. s \in S
    <3> HIDE DEF S
    <3> QED
      BY <2>2, <2>4, <2>5 DEF Reaches
  <2> QED
    BY <2>1, <2>6 DEF Growing
<1> QED
  BY <1>2, <1>3

LEMMA RemainingLess ==
  ASSUME NEW E, IsGraph(E), NEW ord, NEW D, Remaining(E, ord, D), ord # <<>>,
         ord[Len(ord)] \notin D
  PROVE  Remaining(E, ord, D \cup Component(E, ord[Len(ord)]))
<1> DEFINE s == ord[Len(ord)]
           C == Component(E, s)
<1>1. C \subseteq DOMAIN E
  BY DEF Component
<1>2. ASSUME NEW x \in DOMAIN E \ (D \cup C), NEW y \in Called(E, x)
      PROVE  y \in DOMAIN E \ (D \cup C)
  <2>1. y \in DOMAIN E \ D
    BY <1>2 DEF Remaining, Shut
  <2>2. y \notin C
    <3> SUFFICES ASSUME y \in C PROVE FALSE
      OBVIOUS
    <3>1. Reaches(E, x, y)
      BY <1>2, ReachesCalled
    <3>2. Reaches(E, x, s)
      BY <3>1, ReachesOn DEF Component
    <3> QED
      BY <1>2, <3>2, LastReached
  <2> QED
    BY <2>1, <2>2
<1> HIDE DEF C
<1>3. Shut(E, DOMAIN E \ (D \cup C))
  BY <1>2 DEF Shut
<1>4. Remaining(E, ord, D \cup C)
  BY <1>1, <1>3 DEF Remaining
<1> QED
  BY <1>4 DEF C

\* A component is on cycles when it has two symbols, or one that calls itself.
LEMMA ComponentCycles ==
  ASSUME NEW E, IsGraph(E), IsFiniteSet(DOMAIN E), NEW s \in DOMAIN E
  PROVE  Component(E, s) \cap OnCycleOf(E) =
           IF Cardinality(Component(E, s)) > 1 \/ s \in Called(E, s) THEN Component(E, s) ELSE {}
<1> DEFINE C == Component(E, s)
<1>1. C \in SUBSET DOMAIN E /\ s \in C
  BY ReachesSelf DEF Component
<1>2. IsFiniteSet(C) /\ Cardinality(C) \in Nat
  BY <1>1, FS_Subset, FS_CardinalityType
<1>3. \A x, y \in C : Reaches(E, x, y)
  BY ReachesOn DEF Component
<1>4. ASSUME NEW x \in C, NEW y \in C, x # y PROVE x \in OnCycleOf(E)
  <2>1. Reaches(E, x, y) /\ Reaches(E, y, x) /\ x \in DOMAIN E
    BY <1>1, <1>3
  <2>2. PICK z \in Called(E, x) : Reaches(E, z, y)
    BY <1>4, <2>1, FirstCall
  <2>3. Reaches(E, z, x)
    BY <2>1, <2>2, ReachesOn
  <2> QED
    BY <2>1, <2>2, <2>3 DEF OnCycleOf
<1>5. CASE Cardinality(C) > 1
  <2>1. Cardinality(C) # 1
    BY <1>2, <1>5
  <2>2. \A x : C # {x}
    BY <1>2, <2>1, FS_Singleton
  <2>3. \A x \in C : \E y \in C : x # y
    BY <2>2
  <2>4. C \subseteq OnCycleOf(E)
    BY <1>4, <2>3
  <2> QED
    BY <1>5, <2>4
<1>6. CASE ~(Cardinality(C) > 1)
  <2>1. Cardinality(C) # 0
    BY <1>1, <1>2, FS_EmptySet
  <2>2. Cardinality(C) = 1
    BY <1>2, <1>6, <2>1
  <2>3. C = {s}
    BY <1>1, <1>2, <2>2, FS_Singleton
  <2>4. s \in OnCycleOf(E) <=> s \in Called(E, s)
    <3>1. ASSUME s \in Called(E, s) PROVE s \in OnCycleOf(E)
      BY <3>1, ReachesSelf DEF OnCycleOf
    <3>2. ASSUME s \in OnCycleOf(E) PROVE s \in Called(E, s)
      <4>1. PICK z \in Called(E, s) : Reaches(E, z, s)
        BY <3>2 DEF OnCycleOf
      <4>2. Reaches(E, s, z) /\ z \in DOMAIN E
        BY <4>1, ReachesCalled
      <4>3. z \in C
        BY <4>1, <4>2 DEF Component
      <4> QED
        BY <2>3, <4>1, <4>3
    <3> QED
      BY <3>1, <3>2
  <2> QED
    BY <1>6, <2>3, <2>4
<1> QED
  BY <1>5, <1>6

-----------------------------------------------------------------------------
(* The invariant of the search for cycles.                                 *)

\* The symbols whose components are marked.
Done == IF phase = "component" THEN seen \ (members \cup Elements(pending)) ELSE seen

TypesInv ==
  /\ calls \in Seq(Seq(DOMAIN calls))
  /\ edges \in [Nodes -> Seq(Nodes)]
  /\ next \in Nat /\ next >= 1
  /\ cancelled \in BOOLEAN

CollectInv == phase = "collect" =>
  /\ \A n \in Nodes : n < next => edges[n] = calls[n]
  /\ seen = {} /\ stack = <<>> /\ order = <<>> /\ recursive = {}

\* A cancelled collection has left calls out; the search will stop.
OrderInv == phase = "order" =>
  /\ cancelled \/ edges = calls
  /\ Searching(edges, stack, order, seen, {})
  /\ Forefathers(edges, stack, order)
  /\ \A n \in Nodes : n < next => n \in seen
  /\ recursive = {}

MarkInv == phase \in {"mark", "component"} =>
  /\ edges = calls
  /\ Remaining(calls, order, Done)
  /\ recursive = OnCycleOf(calls) \cap Done

ComponentInv == phase = "component" =>
  /\ pending \in Seq(Nodes) /\ members \subseteq Nodes
  /\ order # <<>> /\ order[Len(order)] \notin Done
  /\ Growing(calls, Done, order[Len(order)], Elements(pending), members, seen)

MarkedInv == phase = "marked" => recursive = OnCycleOf(calls)

CycleInv == TypesInv /\ CollectInv /\ OrderInv /\ MarkInv /\ ComponentInv /\ MarkedInv

LEMMA GraphOfCalls ==
  ASSUME TypesInv
  PROVE  /\ IsGraph(calls) /\ IsGraph(edges) /\ DOMAIN edges = Nodes
         /\ Nodes = 1..Len(calls) /\ Len(calls) \in Nat
         /\ IsFiniteSet(Nodes) /\ Nodes \in SUBSET Nat
<1>1. /\ Len(calls) \in Nat /\ Nodes = 1..Len(calls)
      /\ calls \in [1..Len(calls) -> Seq(Nodes)]
  BY LenProperties DEF TypesInv, Nodes
<1>2. IsGraph(calls)
  BY <1>1 DEF IsGraph, Nodes
<1>3. IsGraph(edges) /\ DOMAIN edges = Nodes
  BY DEF TypesInv, IsGraph
<1>4. IsFiniteSet(Nodes)
  BY <1>1, FS_Interval
<1> QED
  BY <1>1, <1>2, <1>3, <1>4

LEMMA CollectKeeps ==
  ASSUME CycleInv, Collect
  PROVE  CycleInv'
<1>1. TypesInv /\ CollectInv /\ phase = "collect" /\ Nodes' = Nodes /\ calls' = calls
  BY DEF CycleInv, Collect, Nodes
<1>2. /\ \A n \in Nodes : n < next => edges[n] = calls[n]
      /\ seen = {} /\ stack = <<>> /\ order = <<>> /\ recursive = {}
  BY <1>1 DEF CollectInv
<1>3. /\ edges \in [Nodes -> Seq(Nodes)] /\ next \in Nat /\ next >= 1 /\ cancelled \in BOOLEAN
      /\ calls \in Seq(Seq(Nodes))
  BY <1>1 DEF TypesInv, Nodes
<1>4. /\ IsGraph(calls) /\ IsGraph(edges) /\ DOMAIN edges = Nodes
      /\ Nodes = 1..Len(calls) /\ Len(calls) \in Nat
  BY <1>1, GraphOfCalls
<1>5. UNCHANGED <<calls, cancelled, seen, stack, order, pending, members, recursive>>
  BY DEF Collect
<1>6. CASE next \in Nodes /\ ~cancelled
  <2>1. edges' = [edges EXCEPT ![next] = calls[next]] /\ next' = next + 1 /\ phase' = "collect"
    BY <1>1, <1>6 DEF Collect
  <2>2. calls[next] \in Seq(Nodes)
    BY <1>4, <1>6 DEF IsGraph, Nodes
  <2>3. TypesInv'
    <3>1. edges' \in [Nodes -> Seq(Nodes)]
      BY <1>3, <2>1, <2>2
    <3>2. next' \in Nat /\ next' >= 1
      BY <1>3, <2>1
    <3>3. calls' \in Seq(Seq(DOMAIN calls')) /\ cancelled' \in BOOLEAN
      BY <1>3, <1>5 DEF Nodes
    <3> QED
      BY <1>1, <3>1, <3>2, <3>3 DEF TypesInv
  <2>4. \A n \in Nodes : n < next + 1 => edges'[n] = calls[n]
    BY <1>2, <1>3, <1>4, <2>1
  <2>5. CollectInv'
    BY <1>1, <1>2, <1>5, <2>1, <2>4 DEF CollectInv
  <2> QED
    BY <2>1, <2>3, <2>5 DEF CycleInv, OrderInv, MarkInv, ComponentInv, MarkedInv
<1>7. CASE ~(next \in Nodes /\ ~cancelled)
  <2>1. edges' = edges /\ next' = 1 /\ phase' = "order"
    BY <1>1, <1>7 DEF Collect
  <2>2. TypesInv'
    BY <1>1, <1>3, <1>5, <2>1 DEF TypesInv, Nodes
  <2>3. cancelled \/ edges = calls
    <3> SUFFICES ASSUME next \notin Nodes PROVE edges = calls
      BY <1>7
    <3>1. \A n \in Nodes : edges[n] = calls[n]
      BY <1>2, <1>3, <1>4
    <3>2. calls \in [Nodes -> Seq(Nodes)]
      BY <1>4 DEF IsGraph, Nodes
    <3> QED
      BY <1>3, <3>1, <3>2
  <2>4. Searching(edges, <<>>, <<>>, {}, {})
    <3>1. <<>> \in Seq(Frames(DOMAIN edges)) /\ <<>> \in Seq(DOMAIN edges)
      OBVIOUS
    <3>2. Opened(<<>>) = {} /\ Elements(<<>>) = {} /\ DOMAIN <<>> = {}
      BY DEF Opened, Elements
    <3> QED
      BY <3>1, <3>2 DEF Searching
  <2>5. Forefathers(edges, <<>>, <<>>)
    <3>1. Elements(<<>>) = {}
      BY DEF Elements
    <3> QED
      BY <3>1 DEF Forefathers
  <2>6. \A n \in Nodes : ~(n < 1)
    BY <1>4
  <2>7. OrderInv'
    BY <1>1, <1>2, <1>5, <2>1, <2>3, <2>4, <2>5, <2>6 DEF OrderInv
  <2> QED
    BY <2>1, <2>2, <2>7 DEF CycleInv, CollectInv, MarkInv, ComponentInv, MarkedInv
<1> QED
  BY <1>6, <1>7

\* What holds while the symbols are ordered.
LEMMA WhenOrdering ==
  ASSUME CycleInv, phase = "order"
  PROVE  /\ cancelled \/ edges = calls
         /\ Searching(edges, stack, order, seen, {})
         /\ Forefathers(edges, stack, order)
         /\ \A n \in Nodes : n < next => n \in seen
         /\ recursive = {}
         /\ IsGraph(edges) /\ DOMAIN edges = Nodes /\ next \in Nat /\ next >= 1
         /\ Nodes = 1..Len(calls) /\ Len(calls) \in Nat
<1>1. TypesInv /\ OrderInv
  BY DEF CycleInv
<1> QED
  BY <1>1, GraphOfCalls DEF OrderInv, TypesInv

\* The frame of the steps of the ordering.
LEMMA OrderingKeeps ==
  ASSUME CycleInv, phase = "order",
         UNCHANGED <<calls, phase, cancelled, edges, recursive>>,
         next' \in Nat, next' >= 1,
         Searching(edges, stack', order', seen', {}),
         Forefathers(edges, stack', order'),
         \A n \in Nodes : n < next' => n \in seen'
  PROVE  CycleInv'
<1>1. TypesInv /\ OrderInv /\ Nodes' = Nodes
  BY DEF CycleInv, Nodes
<1>2. TypesInv'
  BY <1>1 DEF TypesInv
<1>3. OrderInv'
  BY <1>1 DEF OrderInv
<1> QED
  BY <1>2, <1>3 DEF CycleInv, CollectInv, MarkInv, ComponentInv, MarkedInv

LEMMA VisitRootKeeps ==
  ASSUME CycleInv, VisitRoot
  PROVE  CycleInv'
<1>1. /\ phase = "order" /\ stack = <<>> /\ next \in Nodes /\ next' = next + 1
      /\ phase' = phase /\ UNCHANGED <<calls, cancelled, edges, recursive>>
  BY DEF VisitRoot
<1>2. /\ Searching(edges, stack, order, seen, {}) /\ Forefathers(edges, stack, order)
      /\ \A n \in Nodes : n < next => n \in seen
      /\ IsGraph(edges) /\ DOMAIN edges = Nodes /\ next \in Nat /\ next >= 1
      /\ Nodes = 1..Len(calls) /\ Len(calls) \in Nat
  BY <1>1, WhenOrdering
<1>3. next' \in Nat /\ next' >= 1 /\ \A n \in Nodes : n < next' => n < next \/ n = next
  BY <1>1, <1>2
<1>4. CASE next \in seen /\ UNCHANGED <<phase, seen, stack, order>>
  <2>1. \A n \in Nodes : n < next' => n \in seen'
    BY <1>2, <1>3, <1>4
  <2> QED
    BY <1>1, <1>2, <1>3, <1>4, <2>1, OrderingKeeps
<1>5. CASE /\ next \notin seen /\ Enter(next)
           /\ stack' = << [node |-> next, rest |-> edges[next]] >>
  <2>1. seen' = seen \cup {next} /\ order' = order
    BY <1>5 DEF Enter
  <2> DEFINE e == [node |-> next, rest |-> edges[next]]
  <2>2. Searching(edges, <<e>> \o <<>>, order, seen \cup {next}, {})
    <3>1. Searching(edges, stack, order, seen, {}) /\ next \in DOMAIN edges \ seen
      BY <1>1, <1>2, <1>5
    <3>2. {} \subseteq {next} /\ (stack # <<>> => Reaches(edges, stack[1].node, next))
      BY <1>1
    <3>3. Searching(edges, <<e>> \o stack, order, seen \cup {next}, {})
      BY <1>2, <3>1, <3>2, Push
    <3> QED
      BY <1>1, <3>3
  <2>3. e \in Frames(Nodes)
    BY <1>1, <1>2 DEF IsGraph, Frames
  <2> HIDE DEF e
  <2>4. <<e>> \o <<>> = <<e>>
    BY ConcatEmptySeq
  <2>5. Searching(edges, stack', order', seen', {})
    BY <1>5, <2>1, <2>2, <2>4 DEF e
  <2>6. Opened(stack) = {}
    BY <1>1 DEF Opened
  <2>7. Forefathers(edges, stack', order')
    BY <1>2, <2>1, <2>6, ForefathersKept
  <2>8. \A n \in Nodes : n < next' => n \in seen'
    BY <1>2, <1>3, <2>1
  <2> QED
    BY <1>1, <1>3, <2>5, <2>7, <2>8, OrderingKeeps
<1> QED
  BY <1>4, <1>5 DEF VisitRoot

LEMMA VisitCalleeKeeps ==
  ASSUME CycleInv, VisitCallee
  PROVE  CycleInv'
<1> DEFINE callee == Head(Top.rest)
           later  == << [Top EXCEPT !.rest = Tail(@)] >> \o Tail(stack)
           e      == [node |-> callee, rest |-> edges[callee]]
<1>1. /\ phase = "order" /\ stack # <<>> /\ Top.rest # <<>>
      /\ UNCHANGED <<calls, phase, cancelled, edges, next, recursive>>
  BY DEF VisitCallee
<1>2. /\ Searching(edges, stack, order, seen, {}) /\ Forefathers(edges, stack, order)
      /\ \A n \in Nodes : n < next => n \in seen
      /\ IsGraph(edges) /\ DOMAIN edges = Nodes /\ next \in Nat /\ next >= 1
  BY <1>1, WhenOrdering
<1>3. /\ Searching(edges, later, order, seen, {callee})
      /\ later # <<>> /\ later[1].node = stack[1].node /\ Opened(later) = Opened(stack)
      /\ callee \in Nodes /\ Reaches(edges, stack[1].node, callee)
  <2> HIDE DEF later
  <2>1. later = << [Head(stack) EXCEPT !.rest = Tail(@)] >> \o Tail(stack)
    BY DEF later, Top
  <2>2. /\ Searching(edges, later, order, seen, {Head(Head(stack).rest)})
        /\ later # <<>> /\ later[1].node = stack[1].node /\ Opened(later) = Opened(stack)
        /\ Head(Head(stack).rest) \in DOMAIN edges
        /\ Reaches(edges, stack[1].node, Head(Head(stack).rest))
    BY <1>1, <1>2, <2>1, Advance DEF Top
  <2> QED
    BY <1>2, <2>2 DEF Top
<1>4. \/ callee \in seen /\ stack' = later /\ UNCHANGED <<seen, order>>
      \/ callee \notin seen /\ Enter(callee) /\ stack' = <<e>> \o later
  BY DEF VisitCallee
<1> HIDE DEF later, callee
<1>5. CASE callee \in seen /\ stack' = later /\ UNCHANGED <<seen, order>>
  <2>1. Searching(edges, later, order, seen, {})
    BY <1>3, <1>5, SearchingOn
  <2>2. Forefathers(edges, later, order)
    BY <1>2, <1>3, ForefathersKept
  <2> QED
    BY <1>1, <1>2, <1>5, <2>1, <2>2, OrderingKeeps
<1>6. CASE callee \notin seen /\ Enter(callee) /\ stack' = <<e>> \o later
  <2>1. seen' = seen \cup {callee} /\ order' = order
    BY <1>6 DEF Enter
  <2>2. Searching(edges, <<e>> \o later, order, seen \cup {callee}, {})
    BY <1>2, <1>3, <1>6, Push
  <2>3. later \in Seq(Frames(Nodes)) /\ e \in Frames(Nodes)
    BY <1>2, <1>3 DEF Searching, IsGraph, Frames
  <2> HIDE DEF e
  <2>4. Opened(later) \subseteq Opened(<<e>> \o later)
    BY <2>3, OpenedPushed
  <2>5. Forefathers(edges, stack', order')
    BY <1>2, <1>3, <1>6, <2>1, <2>4, ForefathersKept
  <2>6. \A n \in Nodes : n < next' => n \in seen'
    BY <1>1, <1>2, <2>1
  <2>7. Searching(edges, stack', order', seen', {})
    BY <1>6, <2>1, <2>2
  <2> QED
    BY <1>1, <1>2, <2>5, <2>6, <2>7, OrderingKeeps
<1> QED
  BY <1>4, <1>5, <1>6

LEMMA LeaveKeeps ==
  ASSUME CycleInv, Leave
  PROVE  CycleInv'
<1>1. /\ phase = "order" /\ stack # <<>> /\ Head(stack).rest = <<>>
      /\ order' = Append(order, Head(stack).node) /\ stack' = Tail(stack)
      /\ UNCHANGED <<calls, phase, cancelled, edges, next, seen, recursive>>
  BY DEF Leave, Top
<1>2. /\ Searching(edges, stack, order, seen, {}) /\ Forefathers(edges, stack, order)
      /\ \A n \in Nodes : n < next => n \in seen
      /\ IsGraph(edges) /\ next \in Nat /\ next >= 1
  BY <1>1, WhenOrdering
<1>3. /\ Searching(edges, Tail(stack), Append(order, Head(stack).node), seen, {})
      /\ Forefathers(edges, Tail(stack), Append(order, Head(stack).node))
  BY <1>1, <1>2, Leaving
<1> QED
  BY <1>1, <1>2, <1>3, OrderingKeeps

LEMMA OrderedKeeps ==
  ASSUME CycleInv, Ordered
  PROVE  CycleInv'
<1>1. /\ phase = "order" /\ stack = <<>> /\ next \notin Nodes /\ ~cancelled
      /\ phase' = "mark" /\ seen' = {}
      /\ UNCHANGED <<calls, cancelled, edges, next, stack, order, pending, members, recursive>>
  BY DEF Ordered
<1>2. /\ cancelled \/ edges = calls
      /\ Searching(edges, stack, order, seen, {}) /\ Forefathers(edges, stack, order)
      /\ \A n \in Nodes : n < next => n \in seen
      /\ recursive = {}
      /\ IsGraph(edges) /\ DOMAIN edges = Nodes /\ next \in Nat /\ next >= 1
      /\ Nodes = 1..Len(calls) /\ Len(calls) \in Nat
  BY <1>1, WhenOrdering
<1>3. Nodes \subseteq seen
  BY <1>1, <1>2
<1>4. Remaining(edges, order, {})
  BY <1>1, <1>2, <1>3, RemainingAll
<1>5. Done' = {}
  BY <1>1 DEF Done
<1>6. MarkInv'
  BY <1>1, <1>2, <1>4, <1>5 DEF MarkInv
<1>7. TypesInv'
  BY <1>1 DEF CycleInv, TypesInv, Nodes
<1> QED
  BY <1>1, <1>6, <1>7 DEF CycleInv, CollectInv, OrderInv, ComponentInv, MarkedInv

\* What holds while the components are marked.
LEMMA WhenMarking ==
  ASSUME CycleInv, phase \in {"mark", "component"}
  PROVE  /\ edges = calls /\ Remaining(calls, order, Done)
         /\ recursive = OnCycleOf(calls) \cap Done
         /\ IsGraph(calls) /\ IsFiniteSet(Nodes) /\ Nodes \in SUBSET Nat
<1>1. TypesInv /\ MarkInv
  BY DEF CycleInv
<1> QED
  BY <1>1, GraphOfCalls DEF MarkInv

LEMMA MarkingTypes ==
  ASSUME CycleInv, UNCHANGED <<calls, cancelled, edges, next>>
  PROVE  TypesInv'
BY DEF CycleInv, TypesInv, Nodes

LEMMA NextComponentKeeps ==
  ASSUME CycleInv, NextComponent
  PROVE  CycleInv'
<1>1. phase = "mark" /\ UNCHANGED <<calls, cancelled, edges, next, stack, recursive>>
  BY DEF NextComponent
<1>2. /\ edges = calls /\ Remaining(calls, order, Done) /\ Done = seen
      /\ recursive = OnCycleOf(calls) \cap Done /\ IsGraph(calls)
  BY <1>1, WhenMarking DEF Done
<1>3. TypesInv'
  BY <1>1, MarkingTypes
<1>4. CASE order = <<>> /\ phase' = "marked"
  <2>1. Elements(<<>>) = {}
    BY DEF Elements
  <2>2. DOMAIN calls \subseteq Done
    BY <1>2, <1>4, <2>1 DEF Remaining
  <2>3. recursive = OnCycleOf(calls)
    BY <1>2, <2>2 DEF OnCycleOf
  <2>4. MarkedInv'
    BY <1>1, <2>3 DEF MarkedInv
  <2> QED
    BY <1>3, <1>4, <2>4 DEF CycleInv, CollectInv, OrderInv, MarkInv, ComponentInv
<1>5. CASE /\ order # <<>> /\ order[Len(order)] \in seen
           /\ order' = SubSeq(order, 1, Len(order) - 1)
           /\ UNCHANGED <<phase, seen, pending, members>>
  <2>1. Remaining(calls, order', Done)
    BY <1>2, <1>5, RemainingShorter
  <2>2. Done' = Done /\ phase' = "mark"
    BY <1>1, <1>5 DEF Done
  <2>3. MarkInv'
    BY <1>1, <1>2, <2>1, <2>2 DEF MarkInv
  <2> QED
    BY <1>3, <2>2, <2>3 DEF CycleInv, CollectInv, OrderInv, ComponentInv, MarkedInv
<1>6. CASE /\ order # <<>> /\ order[Len(order)] \notin seen
           /\ phase' = "component"
           /\ pending' = <<order[Len(order)]>>
           /\ seen' = seen \cup {order[Len(order)]}
           /\ members' = {}
           /\ UNCHANGED order
  <2> DEFINE s == order[Len(order)]
  <2>1. s \in Nodes /\ seen \subseteq Nodes
    BY <1>2, <1>6, LastReached DEF Remaining, Nodes
  <2> HIDE DEF s
  <2>2. Elements(<<s>>) = {s}
    BY DEF Elements
  <2>3. Done' = seen
    <3>1. Done' = (seen \cup {s}) \ ({} \cup Elements(<<s>>))
      BY <1>6 DEF Done, s
    <3> QED
      BY <1>6, <2>2, <3>1 DEF s
  <2>4. MarkInv'
    BY <1>1, <1>2, <1>6, <2>3 DEF MarkInv
  <2>5. Growing(calls, seen, s, {s}, {}, seen \cup {s})
    <3>1. seen = (seen \cup {s}) \ ({} \cup {s})
      BY <1>6 DEF s
    <3> QED
      BY <2>1, <3>1, ReachesSelf DEF Growing, Nodes
  <2>6. pending' \in Seq(Nodes)
    BY <1>6, <2>1 DEF s
  <2>7. ComponentInv'
    <3>1. Nodes' = Nodes /\ order'[Len(order')] = s /\ order' # <<>> /\ s \notin Done'
      BY <1>1, <1>6, <2>3 DEF s, Nodes
    <3>2. Growing(calls', Done', s, Elements(pending'), members', seen')
      BY <1>1, <1>6, <2>2, <2>3, <2>5 DEF s
    <3> QED
      BY <1>6, <2>6, <3>1, <3>2 DEF ComponentInv
  <2> QED
    BY <1>3, <1>6, <2>4, <2>7 DEF CycleInv, CollectInv, OrderInv, MarkedInv
<1> QED
  BY <1>4, <1>5, <1>6 DEF NextComponent

LEMMA GrowKeeps ==
  ASSUME CycleInv, Grow
  PROVE  CycleInv'
<1> DEFINE node    == pending[Len(pending)]
           callers == {c \in Nodes : Contains(edges[c], node) /\ c \notin seen}
           less    == SubSeq(pending, 1, Len(pending) - 1)
           s       == order[Len(order)]
<1>1. /\ phase = "component" /\ pending # <<>>
      /\ members' = members \cup {node} /\ seen' = seen \cup callers
      /\ pending' = less \o Ascending(callers)
      /\ UNCHANGED <<calls, phase, cancelled, edges, next, stack, order, recursive>>
  BY DEF Grow
<1>2. /\ edges = calls /\ Remaining(calls, order, Done)
      /\ recursive = OnCycleOf(calls) \cap Done
      /\ IsGraph(calls) /\ IsFiniteSet(Nodes) /\ Nodes \in SUBSET Nat
  BY <1>1, WhenMarking
<1>3. /\ pending \in Seq(Nodes) /\ members \subseteq Nodes
      /\ order # <<>> /\ s \notin Done
      /\ Growing(calls, Done, s, Elements(pending), members, seen)
  BY <1>1 DEF CycleInv, ComponentInv
<1>4. /\ node \in Nodes /\ less \in Seq(Nodes)
      /\ Elements(pending) = Elements(less) \cup {node}
  BY <1>1, <1>3, ShorterIs
<1>5. callers = {c \in Nodes : node \in Called(calls, c) /\ c \notin seen}
  BY <1>2, ContainsIs DEF Called
<1> HIDE DEF node, callers, less, s
<1>6. callers \in SUBSET Nodes /\ callers \in SUBSET Nat /\ IsFiniteSet(callers)
  <2>1. callers \in SUBSET Nodes
    BY <1>5
  <2>2. IsFiniteSet(callers)
    BY <1>2, <2>1, FS_Subset
  <2> QED
    BY <1>2, <2>1, <2>2
<1>7. pending' \in Seq(Nodes) /\ Elements(pending') = Elements(less) \cup callers
  <2>1. Ascending(callers) \in Seq(callers) /\ Elements(Ascending(callers)) = callers
    BY <1>6, AscendingIs
  <2>2. Ascending(callers) \in Seq(Nodes)
    BY <1>6, <2>1, SeqMonotonic
  <2> QED
    BY <1>1, <1>4, <2>1, <2>2, ElementsJoined
<1>8. members' \cup Elements(pending') = members \cup Elements(pending) \cup callers
  BY <1>1, <1>4, <1>7
<1>9. Done = seen \ (members \cup Elements(pending)) /\ Done' = Done
  <2>1. Done = seen \ (members \cup Elements(pending))
    BY <1>1 DEF Done
  <2>2. Done' = seen' \ (members' \cup Elements(pending'))
    BY <1>1 DEF Done
  <2>3. callers \cap seen = {}
    BY <1>5
  <2> QED
    BY <1>1, <1>8, <2>1, <2>2, <2>3
<1>10. Growing(calls, Done, s, Elements(pending'), members', seen')
  <2> DEFINE U == members \cup Elements(pending)
             V == members' \cup Elements(pending')
  <2>1. /\ s \in U /\ U \subseteq seen /\ seen \subseteq Nodes
        /\ \A x \in U : Reaches(calls, x, s)
        /\ \A x \in members : \A c \in Nodes : x \in Called(calls, c) => c \in seen
    BY <1>3 DEF Growing, Nodes
  <2>2. V = U \cup callers
    BY <1>8
  <2>3. \A x \in V : Reaches(calls, x, s)
    <3> SUFFICES ASSUME NEW x \in callers PROVE Reaches(calls, x, s)
      BY <2>1, <2>2
    <3>1. x \in DOMAIN calls /\ node \in Called(calls, x)
      BY <1>5 DEF Nodes
    <3>2. Reaches(calls, x, node)
      BY <1>2, <3>1, ReachesCalled
    <3>3. Reaches(calls, node, s)
      BY <1>4, <2>1
    <3> QED
      BY <3>2, <3>3, ReachesOn
  <2>4. \A x \in members' : \A c \in Nodes : x \in Called(calls, c) => c \in seen'
    <3> SUFFICES ASSUME NEW x \in members', NEW c \in Nodes, x \in Called(calls, c)
                 PROVE  c \in seen'
      OBVIOUS
    <3>1. CASE x \in members
      BY <1>1, <2>1, <3>1
    <3>2. CASE x = node
      BY <1>1, <1>5, <3>2
    <3> QED
      BY <1>1, <3>1, <3>2
  <2>5. s \in V /\ V \subseteq seen' /\ seen' \subseteq Nodes
    BY <1>1, <1>6, <2>1, <2>2
  <2>6. Done = seen' \ V
    <3>1. Done' = seen' \ (members' \cup Elements(pending'))
      BY <1>1 DEF Done
    <3> QED
      BY <1>9, <3>1
  <2> QED
    BY <2>3, <2>4, <2>5, <2>6 DEF Growing, Nodes
<1>11. members' \subseteq Nodes
  BY <1>1, <1>3, <1>4
<1>12. ComponentInv'
  <2>1. Nodes' = Nodes /\ order'[Len(order')] = s /\ order' # <<>> /\ s \notin Done'
    BY <1>1, <1>3, <1>9 DEF s, Nodes
  <2>2. Growing(calls', Done', s, Elements(pending'), members', seen')
    BY <1>1, <1>9, <1>10
  <2> QED
    BY <1>7, <1>11, <2>1, <2>2 DEF ComponentInv
<1>13. MarkInv'
  BY <1>1, <1>2, <1>9 DEF MarkInv
<1>14. TypesInv'
  BY <1>1, MarkingTypes
<1> QED
  BY <1>1, <1>12, <1>13, <1>14 DEF CycleInv, CollectInv, OrderInv, MarkedInv

LEMMA MarkKeeps ==
  ASSUME CycleInv, Mark
  PROVE  CycleInv'
<1> DEFINE s == order[Len(order)]
<1>1. /\ phase = "component" /\ pending = <<>> /\ phase' = "mark"
      /\ recursive' = IF Cardinality(members) > 1 \/ Contains(edges[s], s)
                      THEN recursive \cup members ELSE recursive
      /\ UNCHANGED <<calls, cancelled, edges, next, seen, order>>
  BY DEF Mark, search
<1>2. /\ edges = calls /\ Remaining(calls, order, Done)
      /\ recursive = OnCycleOf(calls) \cap Done
      /\ IsGraph(calls) /\ IsFiniteSet(Nodes)
  BY <1>1, WhenMarking
<1>3. /\ order # <<>> /\ s \notin Done
      /\ Growing(calls, Done, s, Elements(pending), members, seen)
  BY <1>1 DEF CycleInv, ComponentInv
<1>4. Elements(pending) = {}
  BY <1>1 DEF Elements
<1> HIDE DEF s
<1>5. members = Component(calls, s)
  BY <1>2, <1>3, <1>4, ComponentFound DEF s
<1>6. s \in Nodes
  BY <1>2, <1>3, LastReached DEF s, Nodes
<1>7. Remaining(calls, order, Done \cup members)
  BY <1>2, <1>3, <1>5, RemainingLess DEF s
<1>8. Done' = Done \cup members
  <2>1. Done' = seen
    BY <1>1 DEF Done
  <2>2. Done = seen \ (members \cup Elements(pending)) /\ members \subseteq seen
    BY <1>3 DEF Growing
  <2> QED
    BY <1>4, <2>1, <2>2
<1>9. members \cap OnCycleOf(calls) =
        IF Cardinality(members) > 1 \/ s \in Called(calls, s) THEN members ELSE {}
  BY <1>2, <1>5, <1>6, ComponentCycles DEF Nodes
<1>10. Contains(edges[s], s) <=> s \in Called(calls, s)
  BY <1>2, ContainsIs DEF Called
<1>11. recursive' = OnCycleOf(calls) \cap (Done \cup members)
  <2>1. OnCycleOf(calls) \cap (Done \cup members) = recursive \cup (members \cap OnCycleOf(calls))
    BY <1>2
  <2> QED
    BY <1>1, <1>9, <1>10, <2>1
<1>12. MarkInv'
  BY <1>1, <1>2, <1>7, <1>8, <1>11 DEF MarkInv
<1>13. TypesInv'
  BY <1>1, MarkingTypes
<1> QED
  BY <1>1, <1>12, <1>13 DEF CycleInv, CollectInv, OrderInv, ComponentInv, MarkedInv

LEMMA CancelledKeeps ==
  ASSUME CycleInv, Cancelled
  PROVE  CycleInv'
<1>1. phase' = "stopped" /\ UNCHANGED <<calls, cancelled, edges, next>>
  BY DEF Cancelled, Stop, search
<1>2. TypesInv'
  BY <1>1, MarkingTypes
<1> QED
  BY <1>1, <1>2 DEF CycleInv, CollectInv, OrderInv, MarkInv, ComponentInv, MarkedInv

\* The context may be cancelled at any moment.
LEMMA InterruptKeeps ==
  ASSUME CycleInv, cancelled' \in BOOLEAN, cancelled => cancelled',
         UNCHANGED <<calls, phase, search, recursive>>
  PROVE  CycleInv'
<1>1. UNCHANGED <<calls, phase, edges, next, seen, stack, order, pending, members, recursive>>
  BY DEF search
<1>2. Nodes' = Nodes /\ Done' = Done
  BY <1>1 DEF Nodes, Done
<1>3. TypesInv' /\ CollectInv' /\ OrderInv'
  BY <1>1, <1>2 DEF CycleInv, TypesInv, CollectInv, OrderInv
<1>4. MarkInv' /\ ComponentInv' /\ MarkedInv'
  BY <1>1, <1>2 DEF CycleInv, MarkInv, ComponentInv, MarkedInv
<1> QED
  BY <1>3, <1>4 DEF CycleInv

LEMMA MarkCyclesKeeps ==
  ASSUME CycleInv, MarkCycles
  PROVE  CycleInv'
BY CollectKeeps, VisitRootKeeps, VisitCalleeKeeps, LeaveKeeps, OrderedKeeps,
   NextComponentKeeps, GrowKeeps, MarkKeeps, CancelledKeeps DEF MarkCycles

-----------------------------------------------------------------------------
(* The command.                                                            *)

\* A command goes on only when the search has finished.
StageInv ==
  /\ stage # "done" => exit = -1
  /\ stage \in {"prepare", "resolve", "validate"} \/ exit \in {0, 5, 7} => phase = "marked"

RecursionInv == CycleInv /\ StageInv

LEMMA RecursionInit == Init => RecursionInv
<1> SUFFICES ASSUME Init PROVE RecursionInv
  OBVIOUS
<1>1. PICK family \in Families : project \in family
  BY DEF Init
<1>2. project.calls \in Seq(Seq(DOMAIN project.calls))
  BY <1>1, PlanningAssumption DEF Discovered
<1>3. /\ calls = project.calls /\ phase = "collect" /\ cancelled = FALSE
      /\ edges = [n \in DOMAIN calls |-> <<>>] /\ next = 1
      /\ seen = {} /\ stack = <<>> /\ order = <<>> /\ recursive = {}
  BY DEF Init, CyclesInit
<1>4. TypesInv
  <2>1. <<>> \in Seq(DOMAIN calls)
    OBVIOUS
  <2>2. edges \in [DOMAIN calls -> Seq(DOMAIN calls)]
    BY <1>3, <2>1
  <2>3. calls \in Seq(Seq(DOMAIN calls))
    BY <1>2, <1>3
  <2>4. next \in Nat /\ next >= 1
    BY <1>3
  <2>5. cancelled \in BOOLEAN
    BY <1>3, Zenon
  <2> QED
    BY <2>2, <2>3, <2>4, <2>5 DEF TypesInv, Nodes
<1>5. CollectInv
  <2>1. Nodes = 1..Len(calls) /\ Len(calls) \in Nat
    BY <1>4, GraphOfCalls
  <2>2. \A n \in Nodes : ~(n < next)
    BY <1>3, <2>1
  <2> QED
    BY <1>3, <2>2 DEF CollectInv
<1>6. CycleInv
  BY <1>3, <1>4, <1>5 DEF CycleInv, OrderInv, MarkInv, ComponentInv, MarkedInv
<1>7. StageInv
  BY DEF Init, StageInv
<1> QED
  BY <1>6, <1>7 DEF RecursionInv

LEMMA RecursionNext == RecursionInv /\ [Next]_vars => RecursionInv'
<1> SUFFICES ASSUME RecursionInv, [Next]_vars PROVE RecursionInv'
  OBVIOUS
<1>1. CycleInv /\ StageInv /\ cancelled \in BOOLEAN
  BY DEF RecursionInv, CycleInv, TypesInv
<1>2. ASSUME UNCHANGED cycleVars PROVE CycleInv'
  <2>1. cancelled' = cancelled /\ UNCHANGED <<calls, phase, search, recursive>>
    BY <1>2 DEF cycleVars
  <2> QED
    BY <1>1, <2>1, InterruptKeeps
<1>3. UNCHANGED cycleVars => phase' = phase
  BY DEF cycleVars
<1>4. CASE ParseOptions
  BY <1>1, <1>2, <1>3, <1>4 DEF ParseOptions, Exits, StageInv, RecursionInv
<1>5. CASE LoadPolicy
  BY <1>1, <1>2, <1>3, <1>5 DEF LoadPolicy, Exits, StageInv, RecursionInv
<1>6. CASE Analyse
  <2>1. stage = "analyse" /\ MarkCycles /\ stage' = stage /\ exit' = exit
    BY <1>6 DEF Analyse
  <2>2. CycleInv'
    BY <1>1, <2>1, MarkCyclesKeeps
  <2> QED
    BY <1>1, <2>1, <2>2 DEF StageInv, RecursionInv
<1>7. CASE Analysed
  BY <1>1, <1>2, <1>3, <1>7 DEF Analysed, Exits, StageInv, RecursionInv
<1>8. CASE Prepare
  <2>1. /\ stage = "prepare" /\ stage' \in {"validate", "resolve"}
        /\ exit' = exit /\ UNCHANGED cycleVars
    BY <1>8 DEF Prepare
  <2> QED
    BY <1>1, <1>2, <1>3, <2>1 DEF StageInv, RecursionInv
<1>9. CASE ResolveSymbol
  <2>1. stage' = stage /\ exit' = exit /\ UNCHANGED cycleVars
    BY <1>9 DEF ResolveSymbol
  <2> QED
    BY <1>1, <1>2, <1>3, <2>1 DEF StageInv, RecursionInv
<1>10. CASE Summarise
  <2>1. stage = "resolve" /\ stage' = "validate" /\ exit' = exit /\ UNCHANGED cycleVars
    BY <1>10 DEF Summarise
  <2> QED
    BY <1>1, <1>2, <1>3, <2>1 DEF StageInv, RecursionInv
<1>11. CASE Validate
  <2>1. stage = "validate" /\ stage' = "done" /\ UNCHANGED cycleVars
    BY <1>11 DEF Validate, Exits
  <2> QED
    BY <1>1, <1>2, <1>3, <2>1 DEF StageInv, RecursionInv
<1>12. CASE Cancel
  <2>1. /\ cancelled' = TRUE /\ stage' = stage /\ exit' = exit
        /\ UNCHANGED <<calls, phase, search, recursive>>
    BY <1>12 DEF Cancel
  <2>2. CycleInv'
    BY <1>1, <2>1, InterruptKeeps
  <2> QED
    BY <1>1, <2>1, <2>2 DEF StageInv, RecursionInv
<1>13. CASE UNCHANGED vars
  <2>1. stage' = stage /\ exit' = exit /\ UNCHANGED cycleVars
    BY <1>13 DEF vars
  <2> QED
    BY <1>1, <1>2, <1>3, <2>1 DEF StageInv, RecursionInv
<1> QED
  BY <1>4, <1>5, <1>6, <1>7, <1>8, <1>9, <1>10, <1>11, <1>12, <1>13 DEF Next

LEMMA RecursionTells == RecursionInv => RecursiveExactly
<1> SUFFICES ASSUME RecursionInv,
                    stage \in {"prepare", "resolve", "validate"} \/ exit \in {0, 5, 7}
             PROVE  recursive = OnCycle
  BY DEF RecursiveExactly
<1>1. phase = "marked" /\ TypesInv /\ MarkedInv
  BY DEF RecursionInv, StageInv, CycleInv
<1>2. OnCycle = OnCycleOf(calls)
  BY <1>1, GraphOfCalls, OnCycleIs DEF OnCycleOf, Nodes
<1> QED
  BY <1>1, <1>2 DEF MarkedInv

\* Symbols that go into a plan are marked recursive exactly when they are on a
\* cycle of calls, for every graph of calls and wherever the command is
\* interrupted (addRecursionMetadata).
THEOREM AlwaysRecursiveExactly == Spec => []RecursiveExactly
<1>1. Init => RecursionInv
  BY RecursionInit
<1>2. RecursionInv /\ [Next]_vars => RecursionInv'
  BY RecursionNext
<1>3. RecursionInv => RecursiveExactly
  BY RecursionTells
<1> QED
  BY <1>1, <1>2, <1>3, PTL DEF Spec

=============================================================================
