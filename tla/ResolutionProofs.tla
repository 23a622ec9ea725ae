--------------------------- MODULE ResolutionProofs ---------------------------
(***************************************************************************)
(* Proofs about the resolution of a policy, for every project, policy and  *)
(* set of flags that discovery, the decoder and the parser can hand over:  *)
(*                                                                         *)
(*   - Glob, a memoized search that is a table here, decides whether a     *)
(*     pattern covers a value (GlobCovers);                                *)
(*   - the plan is what the policy declares as a set of rules and          *)
(*     exclusions (AlwaysResolvedAsDeclared).  The inductive invariant     *)
(*     says what targets, skipped, matched, effective and diagnostics are  *)
(*     for the symbols processed so far (ResolvedFor) and that those come  *)
(*     before the remaining ones in the order of identifiers;              *)
(*   - a command that goes on has checked what it must                     *)
(*     (AlwaysAcceptedOnlySafe);                                           *)
(*   - the layered search of lookupField finds the shallowest exported     *)
(*     field (FieldTypeIs), because a shortest path meets no struct twice, *)
(*     so that an attribute is refused exactly when its path does not lead *)
(*     to one scalar that way (AlwaysLookupIsSelector).                    *)
(***************************************************************************)
EXTENDS PlanningProofs, WellFoundedInduction

-----------------------------------------------------------------------------
(* Items in the order of their identifiers.                                *)

\* Items of which no two have the same identifier.
Identified(items) ==
  /\ IsSequence(items)
  /\ \A i \in DOMAIN items : items[i].id \in Nat
  /\ \A i, j \in DOMAIN items : items[i].id = items[j].id => i = j

InOrder(items) == \A i, j \in DOMAIN items : i < j => items[i].id < items[j].id

\* A set of numbers has a least one.
LEMMA LeastNumber ==
  ASSUME NEW S \in SUBSET Nat, S # {}
  PROVE  \E i \in S : \A j \in S : i <= j
<1>1. \E i \in S : \A j \in S : ~(<<j, i>> \in OpToRel(<, Nat))
  BY NatLessThanWellFounded, WFMin
<1>2. PICK i \in S : \A j \in S : ~(<<j, i>> \in OpToRel(<, Nat))
  BY <1>1
<1>3. ASSUME NEW j \in S PROVE i <= j
  <2>1. ~(j < i)
    BY <1>2 DEF OpToRel
  <2> QED
    BY <2>1
<1> QED
  BY <1>3

LEMMA FiniteNumbers ==
  ASSUME NEW n \in Nat, NEW f, DOMAIN f = 1..n
  PROVE  IsFiniteSet({f[i] : i \in 1..n})
<1> DEFINE T == {f[i] : i \in 1..n}
           g == [i \in 1..n |-> f[i]]
<1>1. g \in [1..n -> T] /\ \A t \in T : \E i \in 1..n : g[i] = t
  OBVIOUS
<1> HIDE DEF g, T
<1>2. g \in Surjection(1..n, T)
  BY <1>1 DEF Surjection
<1>3. IsFiniteSet(1..n)
  BY FS_Interval
<1>4. IsFiniteSet(T)
  BY <1>2, <1>3, FS_Surjection
<1> QED
  BY <1>4 DEF T

LEMMA ByIDIs ==
  ASSUME NEW items, Identified(items)
  PROVE  /\ IsSequence(ByID(items))
         /\ Elements(ByID(items)) = Elements(items)
         /\ \A i \in DOMAIN ByID(items) : ByID(items)[i].id \in Nat
         /\ InOrder(ByID(items))
<1> DEFINE S == {items[i].id : i \in DOMAIN items}
           ids == Ascending(S)
           Item(n) == CHOOSE item \in Elements(items) : item.id = n
           B == [i \in DOMAIN ids |-> Item(ids[i])]
           f == [i \in DOMAIN items |-> items[i].id]
<1>1. Len(items) \in Nat /\ DOMAIN items = 1..Len(items)
  BY DEF Identified, IsSequence
<1>2. S \in SUBSET Nat
  BY DEF Identified
<1>3. IsFiniteSet(S)
  <2>1. IsFiniteSet({f[i] : i \in 1..Len(items)})
    <3>1. DOMAIN f = 1..Len(items)
      BY <1>1
    <3> HIDE DEF f
    <3> QED
      BY <1>1, <3>1, FiniteNumbers
  <2>2. {f[i] : i \in 1..Len(items)} = S
    BY <1>1
  <2> QED
    BY <2>1, <2>2
<1>4. /\ ids \in Seq(S) /\ Elements(ids) = S
      /\ \A i, j \in DOMAIN ids : i < j => ids[i] < ids[j]
  <2> HIDE DEF S
  <2> QED
    BY <1>2, <1>3, AscendingIs
<1>5. \A n \in S : Item(n) \in Elements(items) /\ Item(n).id = n
  <2> SUFFICES ASSUME NEW n \in S PROVE Item(n) \in Elements(items) /\ Item(n).id = n
    OBVIOUS
  <2>1. \E item \in Elements(items) : item.id = n
    BY DEF Elements
  <2> QED
    BY <2>1
<1>6. \A i \in DOMAIN items : Item(items[i].id) = items[i]
  <2> SUFFICES ASSUME NEW i \in DOMAIN items PROVE Item(items[i].id) = items[i]
    OBVIOUS
  <2>1. Item(items[i].id) \in Elements(items) /\ Item(items[i].id).id = items[i].id
    BY <1>5
  <2> HIDE DEF Item
  <2>2. PICK j \in DOMAIN items : Item(items[i].id) = items[j]
    BY <2>1 DEF Elements
  <2>3. i = j
    BY <2>1, <2>2 DEF Identified
  <2> QED
    BY <2>2, <2>3
<1>7. B = ByID(items)
  BY DEF ByID
<1> HIDE DEF Item, S
<1>8. \A i \in DOMAIN ids : ids[i] \in S
  BY <1>4
<1>9. DOMAIN B = DOMAIN ids /\ \A i \in DOMAIN ids : B[i] \in Elements(items) /\ B[i].id = ids[i]
  BY <1>5, <1>8
<1>10. Len(ids) \in Nat /\ DOMAIN ids = 1..Len(ids)
  BY <1>4
<1>11. B \in Seq(Elements(items))
  <2>1. B \in [1..Len(ids) -> Elements(items)]
    BY <1>5, <1>8, <1>10
  <2> HIDE DEF B, ids
  <2> QED
    BY <1>10, <2>1
<1>12. Elements(items) \subseteq Elements(B)
  <2> SUFFICES ASSUME NEW i \in DOMAIN items PROVE items[i] \in Elements(B)
    BY DEF Elements
  <2>1. items[i].id \in S
    BY DEF S
  <2>2. PICK k \in DOMAIN ids : ids[k] = items[i].id
    BY <1>4, <2>1 DEF Elements
  <2>3. B[k] = items[i]
    BY <1>6, <2>2
  <2> HIDE DEF B, ids
  <2> QED
    BY <1>9, <2>2, <2>3 DEF Elements
<1>13. Elements(B) \subseteq Elements(items)
  <2> HIDE DEF B, ids
  <2> QED
    BY <1>9 DEF Elements
<1>14. Elements(B) = Elements(items)
  BY <1>12, <1>13
<1>15. \A i \in DOMAIN B : B[i].id \in Nat
  <2> HIDE DEF B, ids
  <2> QED
    BY <1>2, <1>8, <1>9
<1>16. InOrder(B)
  <2> HIDE DEF B, ids
  <2> QED
    BY <1>4, <1>9 DEF InOrder
<1> HIDE DEF B
<1> QED
  BY <1>7, <1>11, <1>14, <1>15, <1>16 DEF IsSequence

LEMMA KeptIs ==
  ASSUME NEW items, IsSequence(items), NEW places \in SUBSET DOMAIN items
  PROVE  /\ IsSequence(Kept(items, places))
         /\ Elements(Kept(items, places)) = {items[i] : i \in places}
         /\ (\A i \in DOMAIN items : items[i].id \in Nat) /\ InOrder(items)
              => InOrder(Kept(items, places))
         /\ Kept(items, places) = <<>> <=> places = {}
<1> DEFINE at == Ascending(places)
           K == [i \in DOMAIN at |-> items[at[i]]]
<1>1. Len(items) \in Nat /\ DOMAIN items = 1..Len(items)
  BY DEF IsSequence
<1>2. places \in SUBSET Nat /\ IsFiniteSet(places)
  <2>1. IsFiniteSet(1..Len(items))
    BY <1>1, FS_Interval
  <2>2. places \in SUBSET (1..Len(items))
    BY <1>1
  <2> QED
    BY <1>1, <2>1, <2>2, FS_Subset
<1>3. /\ at \in Seq(places) /\ Elements(at) = places
      /\ \A i, j \in DOMAIN at : i < j => at[i] < at[j]
  BY <1>2, AscendingIs
<1>4. K = Kept(items, places)
  BY DEF Kept
<1>5. Len(at) \in Nat /\ DOMAIN at = 1..Len(at) /\ \A i \in DOMAIN at : at[i] \in places
  BY <1>3
<1>6. DOMAIN K = DOMAIN at /\ \A i \in DOMAIN at : K[i] = items[at[i]]
  OBVIOUS
<1>7. Elements(K) = {items[i] : i \in places}
  <2>1. \A i \in places : \E k \in DOMAIN at : at[k] = i
    BY <1>3 DEF Elements
  <2> HIDE DEF K, at
  <2> QED
    BY <1>5, <1>6, <2>1 DEF Elements
<1>8. K \in Seq(Elements(K))
  <2>1. \A i \in DOMAIN at : items[at[i]] \in Elements(K)
    BY <1>5, <1>7
  <2>2. K \in [1..Len(at) -> Elements(K)]
    <3>1. \A i \in 1..Len(at) : items[at[i]] \in Elements(K)
      BY <1>5, <2>1
    <3>2. K = [i \in 1..Len(at) |-> items[at[i]]]
      BY <1>5
    <3> HIDE DEF K, at
    <3> QED
      BY <3>1, <3>2
  <2> HIDE DEF K, at
  <2> QED
    BY <1>5, <2>2
<1>9. (\A i \in DOMAIN items : items[i].id \in Nat) /\ InOrder(items) => InOrder(K)
  <2> HIDE DEF K, at
  <2> QED
    BY <1>3, <1>5, <1>6 DEF InOrder
<1>10. K = <<>> <=> places = {}
  <2>1. places = {} => K = <<>>
    <3> SUFFICES ASSUME places = {} PROVE K = <<>>
      OBVIOUS
    <3>1. DOMAIN at = {}
      BY <1>5
    <3>2. DOMAIN K = {}
      BY <1>6, <3>1
    <3> HIDE DEF K, at
    <3> QED
      BY <1>8, <3>2
  <2>2. places # {} => DOMAIN K # {}
    <3> HIDE DEF K, at
    <3> QED
      BY <1>3, <1>6 DEF Elements
  <2> HIDE DEF K, at
  <2> QED
    BY <2>1, <2>2
<1> HIDE DEF K
<1> QED
  BY <1>4, <1>7, <1>8, <1>9, <1>10 DEF IsSequence

-----------------------------------------------------------------------------
(* Globs.  The search of Glob in match.go fills a table: an entry says     *)
(* whether the rest of the pattern covers the rest of the value.           *)

\* cut covers value, from v, by the parts of pattern, from p.
Cuts(pattern, value, p, v, cut) ==
  /\ cut \in [p - 1..Len(pattern) -> 0..Len(value)]
  /\ cut[p - 1] = v - 1 /\ cut[Len(pattern)] = Len(value)
  /\ \A i \in p..Len(pattern) :
       IF pattern[i].kind = "**" THEN cut[i] >= cut[i - 1]
       ELSE cut[i] = cut[i - 1] + 1 /\ value[cut[i]] \in pattern[i].accepts

CoversFrom(pattern, value, p, v) == \E cut : Cuts(pattern, value, p, v, cut)

LEMMA CoversIs ==
  ASSUME NEW pattern, IsSequence(pattern), NEW value
  PROVE  Covers(pattern, value) <=> CoversFrom(pattern, value, 1, 1)
<1>1. /\ Len(pattern) \in Nat /\ DOMAIN pattern = 1..Len(pattern)
      /\ 1 - 1 = 0
  BY DEF IsSequence
<1> QED
  BY <1>1 DEF Covers, CoversFrom, Cuts

LEMMA CoversEnd ==
  ASSUME NEW pattern, IsSequence(pattern), NEW value, IsSequence(value),
         NEW v \in 1..Len(value) + 1
  PROVE  CoversFrom(pattern, value, Len(pattern) + 1, v) <=> v = Len(value) + 1
<1> DEFINE n == Len(pattern)
           k == Len(value)
           cut == [i \in n..n |-> k]
<1>1. n \in Nat /\ k \in Nat
  BY DEF IsSequence
<1>2. n + 1 - 1 = n
  BY <1>1
<1>3. CoversFrom(pattern, value, n + 1, v) => v = k + 1
  <2> SUFFICES ASSUME NEW c, Cuts(pattern, value, n + 1, v, c) PROVE v = k + 1
    BY DEF CoversFrom
  <2>1. c[n + 1 - 1] = v - 1 /\ c[n] = k
    BY DEF Cuts
  <2>2. v - 1 = k
    BY <1>2, <2>1
  <2> QED
    BY <1>1, <2>2
<1>4. v = k + 1 => Cuts(pattern, value, n + 1, v, cut)
  <2>1. cut \in [n..n -> 0..k] /\ cut[n] = k
    BY <1>1
  <2>2. \A i \in n + 1..n : FALSE
    BY <1>1
  <2>3. v = k + 1 => k = v - 1
    BY <1>1
  <2> HIDE DEF cut
  <2> QED
    BY <1>2, <2>1, <2>2, <2>3 DEF Cuts
<1> QED
  BY <1>3, <1>4 DEF CoversFrom

\* One part more, that covers the value up to w.
LEMMA CutsMore ==
  ASSUME NEW pattern, IsSequence(pattern), NEW value, IsSequence(value),
         NEW p \in DOMAIN pattern, NEW v \in 1..Len(value) + 1, NEW w \in v..Len(value) + 1,
         IF pattern[p].kind = "**" THEN TRUE ELSE w = v + 1 /\ value[v] \in pattern[p].accepts,
         CoversFrom(pattern, value, p + 1, w)
  PROVE  CoversFrom(pattern, value, p, v)
<1> DEFINE n == Len(pattern)
           k == Len(value)
<1>1. /\ n \in Nat /\ k \in Nat /\ p \in 1..n /\ v \in 1..k + 1 /\ w \in v..k + 1
      /\ p + 1 - 1 = p
  BY DEF IsSequence
<1>2. PICK c : Cuts(pattern, value, p + 1, w, c)
  BY DEF CoversFrom
<1>3. /\ c \in [p..n -> 0..k] /\ c[p] = w - 1 /\ c[n] = k
      /\ \A i \in p + 1..n :
           IF pattern[i].kind = "**" THEN c[i] >= c[i - 1]
           ELSE c[i] = c[i - 1] + 1 /\ value[c[i]] \in pattern[i].accepts
  BY <1>1, <1>2 DEF Cuts
<1> DEFINE cut == [i \in p - 1..n |-> IF i = p - 1 THEN v - 1 ELSE c[i]]
<1> HIDE DEF n, k
<1>4. cut \in [p - 1..n -> 0..k]
  <2> SUFFICES ASSUME NEW i \in p - 1..n
               PROVE  (IF i = p - 1 THEN v - 1 ELSE c[i]) \in 0..k
    OBVIOUS
  <2>1. v - 1 \in 0..k
    BY <1>1
  <2>2. i # p - 1 => i \in p..n
    BY <1>1
  <2> QED
    BY <1>3, <2>1, <2>2
<1>5. cut[p - 1] = v - 1 /\ \A i \in p..n : cut[i] = c[i]
  BY <1>1
<1>6. n \in p..n
  BY <1>1
<1>7. \A i \in p..n : IF pattern[i].kind = "**" THEN cut[i] >= cut[i - 1]
                      ELSE cut[i] = cut[i - 1] + 1 /\ value[cut[i]] \in pattern[i].accepts
  <2> HIDE DEF cut
  <2> SUFFICES ASSUME NEW i \in p..n
               PROVE  IF pattern[i].kind = "**" THEN cut[i] >= cut[i - 1]
                      ELSE cut[i] = cut[i - 1] + 1 /\ value[cut[i]] \in pattern[i].accepts
    OBVIOUS
  <2>1. CASE i = p
    <3>1. cut[p] = w - 1 /\ cut[p - 1] = v - 1 /\ p \in p..n
      BY <1>1, <1>3, <1>5
    <3>2. w - 1 >= v - 1 /\ (w = v + 1 => w - 1 = v - 1 + 1 /\ w - 1 = v)
      BY <1>1
    <3> QED
      BY <2>1, <3>1, <3>2
  <2>2. CASE i # p
    <3>1. i \in p + 1..n /\ i - 1 \in p..n
      BY <1>1, <2>2
    <3> QED
      BY <1>3, <1>5, <3>1
  <2> QED
    BY <2>1, <2>2
<1>8. Cuts(pattern, value, p, v, cut)
  <2> HIDE DEF cut
  <2> QED
    BY <1>3, <1>4, <1>5, <1>6, <1>7 DEF Cuts, n, k
<1> QED
  BY <1>8 DEF CoversFrom

\* What the first part of a cut covers.
LEMMA CutsFirst ==
  ASSUME NEW pattern, IsSequence(pattern), NEW value, IsSequence(value),
         NEW p \in DOMAIN pattern, NEW v \in 1..Len(value) + 1,
         CoversFrom(pattern, value, p, v)
  PROVE  \E w \in v..Len(value) + 1 :
           /\ CoversFrom(pattern, value, p + 1, w)
           /\ pattern[p].kind # "**" => w = v + 1 /\ value[v] \in pattern[p].accepts
<1> DEFINE n == Len(pattern)
           k == Len(value)
<1>1. n \in Nat /\ k \in Nat /\ p \in 1..n /\ v \in 1..k + 1 /\ p + 1 - 1 = p
  BY DEF IsSequence
<1>2. PICK c : Cuts(pattern, value, p, v, c)
  BY DEF CoversFrom
<1>3. /\ c \in [p - 1..n -> 0..k] /\ c[p - 1] = v - 1 /\ c[n] = k
      /\ \A i \in p..n :
           IF pattern[i].kind = "**" THEN c[i] >= c[i - 1]
           ELSE c[i] = c[i - 1] + 1 /\ value[c[i]] \in pattern[i].accepts
  BY <1>2 DEF Cuts
<1> DEFINE cut == [i \in p..n |-> c[i]]
           w == c[p] + 1
<1> HIDE DEF n, k
<1>4. p \in p..n /\ n \in p..n /\ p \in p - 1..n /\ (\A i \in p..n : i \in p - 1..n)
  BY <1>1
<1>5. c[p] \in 0..k /\ c[p - 1] = v - 1
  BY <1>3, <1>4
<1>6. /\ c[p] >= v - 1
      /\ pattern[p].kind # "**" => c[p] = v - 1 + 1 /\ value[c[p]] \in pattern[p].accepts
  <2>1. IF pattern[p].kind = "**" THEN c[p] >= c[p - 1]
        ELSE c[p] = c[p - 1] + 1 /\ value[c[p]] \in pattern[p].accepts
    BY <1>3, <1>4
  <2> QED
    BY <1>1, <1>5, <2>1
<1>7. w \in v..k + 1 /\ (pattern[p].kind # "**" => w = v + 1 /\ value[v] \in pattern[p].accepts)
  <2>1. v - 1 + 1 = v
    BY <1>1
  <2>2. pattern[p].kind # "**" => c[p] = v
    BY <1>6, <2>1
  <2>3. c[p] + 1 \in v..k + 1
    BY <1>1, <1>5, <1>6
  <2> QED
    BY <1>6, <2>2, <2>3
<1>8. Cuts(pattern, value, p + 1, w, cut)
  <2>1. cut \in [p..n -> 0..k]
    BY <1>3, <1>4
  <2>2. \A i \in p..n : cut[i] = c[i]
    OBVIOUS
  <2>3. w - 1 = c[p]
    BY <1>5
  <2>4. \A i \in p + 1..n : i \in p..n /\ i - 1 \in p..n
    BY <1>1
  <2> HIDE DEF cut, w
  <2>5. \A i \in p + 1..n :
           IF pattern[i].kind = "**" THEN cut[i] >= cut[i - 1]
           ELSE cut[i] = cut[i - 1] + 1 /\ value[cut[i]] \in pattern[i].accepts
    BY <1>3, <2>2, <2>4
  <2> QED
    BY <1>1, <1>3, <1>4, <2>1, <2>2, <2>3, <2>5 DEF Cuts, n, k
<1> HIDE DEF w
<1> QED
  BY <1>7, <1>8 DEF CoversFrom, k

\* The table that the memo of Glob stands for.
Entry(pattern, value, m, p, v) ==
  IF p = Len(pattern) + 1 THEN v = Len(value) + 1
  ELSE IF pattern[p].kind = "**"
       THEN m[<<p + 1, v>>] \/ (v < Len(value) + 1 /\ m[<<p, v + 1>>])
       ELSE v < Len(value) + 1 /\ value[v] \in pattern[p].accepts /\ m[<<p + 1, v + 1>>]

IsTable(pattern, value, m) ==
  m = [at \in (1..Len(pattern) + 1) \X (1..Len(value) + 1) |->
         Entry(pattern, value, m, at[1], at[2])]

LEMMA GlobIsEntry ==
  ASSUME NEW pattern, NEW value
  PROVE  Glob(pattern, value) = (CHOOSE m : IsTable(pattern, value, m))[<<1, 1>>]
BY DEF Glob, IsTable, Entry

LEMMA CoversEntry ==
  ASSUME NEW pattern, IsSequence(pattern), NEW value, IsSequence(value),
         NEW p \in 1..Len(pattern) + 1, NEW v \in 1..Len(value) + 1,
         NEW m,
         \A q \in 1..Len(pattern) + 1, w \in 1..Len(value) + 1 :
           q + w > p + v => (m[<<q, w>>] <=> CoversFrom(pattern, value, q, w))
  PROVE  Entry(pattern, value, m, p, v) <=> CoversFrom(pattern, value, p, v)
<1> DEFINE n == Len(pattern)
           k == Len(value)
           Rest(q, w) == CoversFrom(pattern, value, q, w)
<1>1. n \in Nat /\ k \in Nat /\ DOMAIN pattern = 1..n
  BY DEF IsSequence
<1>2. CASE p = n + 1
  BY <1>2, CoversEnd DEF Entry
<1>3. CASE p # n + 1
  <2>1. p \in DOMAIN pattern /\ p \in 1..n /\ p + 1 \in 1..n + 1
    BY <1>1, <1>3
  <2>2. m[<<p + 1, v>>] <=> Rest(p + 1, v)
    <3>1. p + 1 + v > p + v
      BY <1>1
    <3> QED
      BY <2>1, <3>1
  <2>3. v < k + 1 => /\ v + 1 \in 1..k + 1
                     /\ m[<<p, v + 1>>] <=> Rest(p, v + 1)
                     /\ m[<<p + 1, v + 1>>] <=> Rest(p + 1, v + 1)
    <3> SUFFICES ASSUME v < k + 1
                 PROVE  /\ v + 1 \in 1..k + 1
                        /\ m[<<p, v + 1>>] <=> Rest(p, v + 1)
                        /\ m[<<p + 1, v + 1>>] <=> Rest(p + 1, v + 1)
      OBVIOUS
    <3>1. v + 1 \in 1..k + 1 /\ p + (v + 1) > p + v /\ p + 1 + (v + 1) > p + v
      BY <1>1
    <3>2. m[<<p, v + 1>>] <=> Rest(p, v + 1)
      BY <3>1
    <3>3. m[<<p + 1, v + 1>>] <=> Rest(p + 1, v + 1)
      BY <2>1, <3>1
    <3> QED
      BY <3>1, <3>2, <3>3
  <2>4. CASE pattern[p].kind = "**"
    <3>1. v \in v..k + 1 /\ (v < k + 1 => v + 1 \in v..k + 1)
      BY <1>1
    <3>2. Rest(p + 1, v) => Rest(p, v)
      BY <2>1, <2>4, <3>1, CutsMore
    <3>3. v < k + 1 /\ Rest(p, v + 1) => Rest(p, v)
      <4> SUFFICES ASSUME v < k + 1, Rest(p, v + 1) PROVE Rest(p, v)
        OBVIOUS
      <4>1. v + 1 \in 1..k + 1
        BY <2>3
      <4>2. PICK w \in v + 1..k + 1 : Rest(p + 1, w)
        BY <2>1, <4>1, CutsFirst
      <4>3. w \in v..k + 1
        BY <1>1
      <4> QED
        BY <2>1, <2>4, <4>2, <4>3, CutsMore
    <3>4. Rest(p, v) => Rest(p + 1, v) \/ (v < k + 1 /\ Rest(p, v + 1))
      <4> SUFFICES ASSUME Rest(p, v)
                   PROVE  Rest(p + 1, v) \/ (v < k + 1 /\ Rest(p, v + 1))
        OBVIOUS
      <4>1. PICK w \in v..k + 1 : Rest(p + 1, w)
        BY <2>1, CutsFirst
      <4>2. CASE w = v
        BY <4>1, <4>2
      <4>3. CASE w # v
        <5>1. v < k + 1 /\ v + 1 \in 1..k + 1 /\ w \in v + 1..k + 1
          BY <1>1, <4>3
        <5> QED
          BY <2>1, <2>4, <4>1, <5>1, CutsMore
      <4> QED
        BY <4>2, <4>3
    <3> QED
      BY <1>3, <2>2, <2>3, <2>4, <3>2, <3>3, <3>4 DEF Entry
  <2>5. CASE pattern[p].kind # "**"
    <3>1. v < k + 1 /\ value[v] \in pattern[p].accepts /\ Rest(p + 1, v + 1) => Rest(p, v)
      <4> SUFFICES ASSUME v < k + 1, value[v] \in pattern[p].accepts, Rest(p + 1, v + 1)
                   PROVE  Rest(p, v)
        OBVIOUS
      <4>1. v + 1 \in v..k + 1
        BY <1>1
      <4> QED
        BY <2>1, <4>1, CutsMore
    <3>2. Rest(p, v) => v < k + 1 /\ value[v] \in pattern[p].accepts /\ Rest(p + 1, v + 1)
      <4> SUFFICES ASSUME Rest(p, v)
                   PROVE  v < k + 1 /\ value[v] \in pattern[p].accepts /\ Rest(p + 1, v + 1)
        OBVIOUS
      <4>1. PICK w \in v..k + 1 :
              Rest(p + 1, w) /\ w = v + 1 /\ value[v] \in pattern[p].accepts
        BY <2>1, <2>5, CutsFirst
      <4>2. v < k + 1
        BY <1>1, <4>1
      <4> QED
        BY <4>1, <4>2
    <3> QED
      BY <1>3, <2>3, <2>5, <3>1, <3>2 DEF Entry
  <2> QED
    BY <2>4, <2>5
<1> QED
  BY <1>2, <1>3

LEMMA TableCovers ==
  ASSUME NEW pattern, IsSequence(pattern), NEW value, IsSequence(value),
         NEW m, IsTable(pattern, value, m)
  PROVE  \A p \in 1..Len(pattern) + 1, v \in 1..Len(value) + 1 :
           m[<<p, v>>] <=> CoversFrom(pattern, value, p, v)
<1> DEFINE n == Len(pattern)
           k == Len(value)
           Wrong(p, v) == ~(m[<<p, v>>] <=> CoversFrom(pattern, value, p, v))
           D == {d \in 0..n + k + 2 :
                   \E p \in 1..n + 1, v \in 1..k + 1 : Wrong(p, v) /\ d = n + k + 2 - (p + v)}
<1>1. n \in Nat /\ k \in Nat
  BY DEF IsSequence
<1>2. \A p \in 1..n + 1, v \in 1..k + 1 : m[<<p, v>>] = Entry(pattern, value, m, p, v)
  BY DEF IsTable
<1>3. SUFFICES ASSUME NEW a \in 1..n + 1, NEW b \in 1..k + 1, Wrong(a, b) PROVE FALSE
  OBVIOUS
<1>4. D \in SUBSET Nat /\ D # {}
  <2>1. n + k + 2 - (a + b) \in 0..n + k + 2
    BY <1>1
  <2>2. n + k + 2 - (a + b) \in D
    BY <1>3, <2>1
  <2>3. D \subseteq 0..n + k + 2
    OBVIOUS
  <2> HIDE DEF D
  <2>4. 0..n + k + 2 \subseteq Nat
    BY <1>1
  <2> QED
    BY <2>2, <2>3, <2>4
<1>5. PICK d \in D : \A e \in D : d <= e
  <2> HIDE DEF D
  <2> QED
    BY <1>4, LeastNumber
<1>6. PICK p \in 1..n + 1, v \in 1..k + 1 : Wrong(p, v) /\ d = n + k + 2 - (p + v)
  OBVIOUS
<1>7. ASSUME NEW q \in 1..n + 1, NEW w \in 1..k + 1, q + w > p + v
      PROVE  m[<<q, w>>] <=> CoversFrom(pattern, value, q, w)
  <2> SUFFICES ASSUME Wrong(q, w) PROVE FALSE
    OBVIOUS
  <2> DEFINE e == n + k + 2 - (q + w)
  <2>1. e \in 0..n + k + 2 /\ e < d
    BY <1>1, <1>6, <1>7
  <2>2. e \in D
    BY <2>1
  <2>3. d \in Nat /\ e \in Nat
    BY <1>4, <2>2
  <2> HIDE DEF D, e
  <2> QED
    BY <1>5, <2>1, <2>2, <2>3
<1>8. Entry(pattern, value, m, p, v) <=> CoversFrom(pattern, value, p, v)
  BY <1>7, CoversEntry
<1>9. m[<<p, v>>] = Entry(pattern, value, m, p, v)
  BY <1>2
<1> QED
  BY <1>6, <1>8, <1>9, Zenon

LEMMA TableExists ==
  ASSUME NEW pattern, IsSequence(pattern), NEW value, IsSequence(value)
  PROVE  \E m : IsTable(pattern, value, m)
<1> DEFINE n == Len(pattern)
           k == Len(value)
           m == [at \in (1..n + 1) \X (1..k + 1) |-> CoversFrom(pattern, value, at[1], at[2])]
<1>1. \A p \in 1..n + 1, v \in 1..k + 1 : m[<<p, v>>] <=> CoversFrom(pattern, value, p, v)
  OBVIOUS
<1>2. \A p \in 1..n + 1, v \in 1..k + 1 :
        Entry(pattern, value, m, p, v) <=> CoversFrom(pattern, value, p, v)
  <2> HIDE DEF m
  <2> QED
    BY <1>1, CoversEntry
<1>3. \A p \in 1..n + 1, v \in 1..k + 1 :
        Entry(pattern, value, m, p, v) = CoversFrom(pattern, value, p, v)
  <2> SUFFICES ASSUME NEW p \in 1..n + 1, NEW v \in 1..k + 1
               PROVE  Entry(pattern, value, m, p, v) = CoversFrom(pattern, value, p, v)
    OBVIOUS
  <2>1. Entry(pattern, value, m, p, v) <=> CoversFrom(pattern, value, p, v)
    BY <1>2
  <2>2. Entry(pattern, value, m, p, v) \in BOOLEAN
    BY DEF Entry
  <2>3. CoversFrom(pattern, value, p, v) \in BOOLEAN
    BY DEF CoversFrom
  <2> QED
    BY <2>1, <2>2, <2>3
<1>4. m = [at \in (1..n + 1) \X (1..k + 1) |-> Entry(pattern, value, m, at[1], at[2])]
  BY <1>3
<1> QED
  BY <1>4 DEF IsTable

\* What Glob memoizes says of every pattern and value whether the parts
\* of the pattern cover the segments of the value, "**" any run of them.
THEOREM GlobCovers ==
  ASSUME NEW pattern, IsSequence(pattern), NEW value, IsSequence(value)
  PROVE  Glob(pattern, value) <=> Covers(pattern, value)
<1> DEFINE m == CHOOSE m : IsTable(pattern, value, m)
<1>1. IsTable(pattern, value, m)
  BY TableExists
<1>2. Glob(pattern, value) = m[<<1, 1>>]
  BY GlobIsEntry
<1> HIDE DEF m
<1>3. 1 \in 1..Len(pattern) + 1 /\ 1 \in 1..Len(value) + 1
  BY DEF IsSequence
<1>4. m[<<1, 1>>] <=> CoversFrom(pattern, value, 1, 1)
  BY <1>1, <1>3, TableCovers
<1> QED
  BY <1>2, <1>4, CoversIs, Zenon

-----------------------------------------------------------------------------
(* What a selector matches, and the rules that apply to a symbol.          *)

LEMMA SelectsIs ==
  ASSUME NEW bindings, NEW symbol, NEW match,
         \A f \in GlobFields : IsSequence(FieldValue(symbol)[f]),
         \A f \in GlobFields : \A p \in match[f] : IsSequence(p)
  PROVE  Matches(bindings, symbol, match) <=> Selects(bindings, symbol, match)
<1>1. \A f \in GlobFields : \A p \in match[f] :
        Glob(p, FieldValue(symbol)[f]) <=> Covers(p, FieldValue(symbol)[f])
  BY GlobCovers
<1>2. MatchesGlobFields(symbol, match) <=>
        \A f \in GlobFields :
          match[f] # {} => FieldValue(symbol)[f] # <<>>
                           /\ \E p \in match[f] : Covers(p, FieldValue(symbol)[f])
  BY <1>1 DEF MatchesGlobFields
<1> QED
  BY <1>2 DEF Matches, Selects

\* The project is one the command may be run on.
Given == \E family \in Families : project \in family

LEMMA GivenIs ==
  ASSUME Given
  PROVE  Discovered(project) /\ Decoded(policy) /\ Parsed(options)
BY PlanningAssumption DEF Given, policy, options

LEMMA DenotedIs ==
  ASSUME Given, NEW s \in Elements(symbols)
  PROVE  /\ \A r \in Elements(policy.rules) : \A m \in {r.match} \cup r.exclude :
              MatchesOf(s, m) <=> Denoted(s, m)
         /\ \A x \in Elements(policy.exclusions) : MatchesOf(s, x.match) <=> Denoted(s, x.match)
<1>1. Discovered(project) /\ Decoded(policy)
  BY GivenIs
<1>2. \A f \in GlobFields : IsSequence(FieldValue(s)[f])
  BY <1>1 DEF Discovered, symbols
<1>3. \A r \in Elements(policy.rules) : \A m \in {r.match} \cup r.exclude :
        \A f \in GlobFields : \A p \in m[f] : IsSequence(p)
  BY <1>1 DEF Decoded
<1>4. \A x \in Elements(policy.exclusions) : \A f \in GlobFields : \A p \in x.match[f] : IsSequence(p)
  BY <1>1 DEF Decoded
<1>5. \A r \in Elements(policy.rules) : \A m \in {r.match} \cup r.exclude :
        MatchesOf(s, m) <=> Denoted(s, m)
  <2> SUFFICES ASSUME NEW r \in Elements(policy.rules), NEW m \in {r.match} \cup r.exclude
               PROVE  MatchesOf(s, m) <=> Denoted(s, m)
    OBVIOUS
  <2>1. \A f \in GlobFields : \A p \in m[f] : IsSequence(p)
    BY <1>3
  <2> QED
    BY <1>2, <2>1, SelectsIs DEF MatchesOf, Denoted
<1>6. \A x \in Elements(policy.exclusions) : MatchesOf(s, x.match) <=> Denoted(s, x.match)
  <2> SUFFICES ASSUME NEW x \in Elements(policy.exclusions)
               PROVE  MatchesOf(s, x.match) <=> Denoted(s, x.match)
    OBVIOUS
  <2>1. \A f \in GlobFields : \A p \in x.match[f] : IsSequence(p)
    BY <1>4
  <2> QED
    BY <1>2, <2>1, SelectsIs DEF MatchesOf, Denoted
<1> QED
  BY <1>5, <1>6

\* Validate lets through no identifier twice.
LEMMA PolicyIdentified ==
  ASSUME Given, ValidPolicy(policy)
  PROVE  Identified(policy.rules) /\ Identified(policy.exclusions)
<1> DEFINE R == policy.rules
           X == policy.exclusions
           all == R \o X
<1>1. Decoded(policy) /\ ValidIDs(policy)
  BY GivenIs DEF ValidPolicy
<1>2. IsSequence(R) /\ IsSequence(X)
  BY <1>1 DEF Decoded
<1>3. /\ \A i \in DOMAIN R : R[i].id \in Nat
      /\ \A i \in DOMAIN X : X[i].id \in Nat
  BY <1>1 DEF Decoded, Elements
<1>4. \A i, j \in DOMAIN all : all[i].id = all[j].id => i = j
  BY <1>1 DEF ValidIDs
<1> HIDE DEF R, X
<1>5. /\ Len(R) \in Nat /\ Len(X) \in Nat
      /\ DOMAIN R = 1..Len(R) /\ DOMAIN X = 1..Len(X)
      /\ DOMAIN all = 1..Len(R) + Len(X)
      /\ \A i \in 1..Len(R) + Len(X) : all[i] = IF i <= Len(R) THEN R[i] ELSE X[i - Len(R)]
  BY <1>2 DEF IsSequence
<1> HIDE DEF all
<1>6. \A i \in DOMAIN R : i \in DOMAIN all /\ all[i] = R[i]
  BY <1>5
<1>7. \A i \in DOMAIN X : Len(R) + i \in DOMAIN all /\ all[Len(R) + i] = X[i]
  <2> SUFFICES ASSUME NEW i \in 1..Len(X)
               PROVE  Len(R) + i \in DOMAIN all /\ all[Len(R) + i] = X[i]
    BY <1>5
  <2>1. Len(R) + i \in 1..Len(R) + Len(X) /\ ~(Len(R) + i <= Len(R)) /\ Len(R) + i - Len(R) = i
    BY <1>5
  <2> QED
    BY <1>5, <2>1
<1>8. \A i, j \in DOMAIN R : R[i].id = R[j].id => i = j
  BY <1>4, <1>6
<1>9. \A i, j \in DOMAIN X : X[i].id = X[j].id => i = j
  <2> SUFFICES ASSUME NEW i \in DOMAIN X, NEW j \in DOMAIN X, X[i].id = X[j].id PROVE i = j
    OBVIOUS
  <2>1. Len(R) + i = Len(R) + j
    BY <1>4, <1>7
  <2> QED
    BY <1>5, <2>1
<1> QED
  BY <1>2, <1>3, <1>8, <1>9 DEF Identified, R, X

LEMMA RulesAre ==
  ASSUME Given, ValidPolicy(policy)
  PROVE  /\ IsSequence(Rules) /\ Elements(Rules) = Elements(policy.rules)
         /\ \A i \in DOMAIN Rules : Rules[i].id \in Nat
         /\ InOrder(Rules)
         /\ IsSequence(Exclusions) /\ Elements(Exclusions) = Elements(policy.exclusions)
BY PolicyIdentified, ByIDIs DEF Rules, Exclusions

Included(s)   == {i \in DOMAIN Rules : MatchesOf(s, Rules[i].match)}
Local(s)      == {i \in Included(s) : \E m \in Rules[i].exclude : MatchesOf(s, m)}
Candidates(s) == Kept(Rules, Included(s) \ Local(s))
Barring(s)    == {i \in DOMAIN Exclusions :
                    Candidates(s) # <<>> /\ MatchesOf(s, Exclusions[i].match)}

LEMMA RuleDenoted ==
  ASSUME Given, ValidPolicy(policy), NEW s \in Elements(symbols), NEW i \in DOMAIN Rules
  PROVE  /\ Rules[i] \in Elements(policy.rules)
         /\ i \in Included(s) <=> Denoted(s, Rules[i].match)
         /\ i \in Local(s) <=> /\ Denoted(s, Rules[i].match)
                               /\ \E m \in Rules[i].exclude : Denoted(s, m)
         /\ i \in Included(s) \ Local(s) <=> Rules[i] \in Applicable(s)
<1>1. Rules[i] \in Elements(policy.rules)
  BY RulesAre DEF Elements
<1>2. \A m \in {Rules[i].match} \cup Rules[i].exclude : MatchesOf(s, m) <=> Denoted(s, m)
  BY <1>1, DenotedIs
<1> QED
  BY <1>1, <1>2 DEF Included, Local, Applicable

LEMMA CandidatesAre ==
  ASSUME Given, ValidPolicy(policy), NEW s \in Elements(symbols)
  PROVE  /\ IsSequence(Candidates(s)) /\ Elements(Candidates(s)) = Applicable(s)
         /\ InOrder(Candidates(s))
         /\ Candidates(s) = <<>> <=> Applicable(s) = {}
         /\ \A i \in DOMAIN Candidates(s) : Candidates(s)[i].id \in Nat
<1> DEFINE P == Included(s) \ Local(s)
           K == Kept(Rules, P)
<1>1. /\ IsSequence(Rules) /\ Elements(Rules) = Elements(policy.rules)
      /\ \A i \in DOMAIN Rules : Rules[i].id \in Nat
      /\ InOrder(Rules)
  BY RulesAre
<1>2. P \in SUBSET DOMAIN Rules
  BY DEF Included
<1>3. \A i \in DOMAIN Rules : i \in P <=> Rules[i] \in Applicable(s)
  BY RuleDenoted
<1>4. \A r \in Applicable(s) : \E i \in DOMAIN Rules : Rules[i] = r
  BY <1>1 DEF Applicable, Elements
<1> HIDE DEF P
<1>5. {Rules[i] : i \in P} = Applicable(s)
  BY <1>2, <1>3, <1>4
<1>6. /\ IsSequence(K) /\ Elements(K) = {Rules[i] : i \in P}
      /\ InOrder(K) /\ (K = <<>> <=> P = {})
  BY <1>1, <1>2, KeptIs
<1>7. P = {} <=> Applicable(s) = {}
  BY <1>5
<1> HIDE DEF K
<1>8. \A i \in DOMAIN K : K[i].id \in Nat
  <2>1. \A i \in DOMAIN K : K[i] \in Elements(K)
    BY DEF Elements
  <2> QED
    BY <1>1, <1>2, <1>6, <2>1
<1>9. K = Candidates(s)
  BY DEF K, P, Candidates
<1> QED
  BY <1>5, <1>6, <1>7, <1>8, <1>9

LEMMA BarringIs ==
  ASSUME Given, ValidPolicy(policy), NEW s \in Elements(symbols)
  PROVE  /\ Barring(s) # {} \/ Candidates(s) = <<>> <=> ~Wanted(s)
         /\ Barring(s) = {} /\ Candidates(s) # <<>> <=> Wanted(s)
<1>1. Candidates(s) = <<>> <=> Applicable(s) = {}
  BY CandidatesAre
<1>2. \A i \in DOMAIN Exclusions :
        Exclusions[i] \in Elements(policy.exclusions)
          /\ (MatchesOf(s, Exclusions[i].match) <=> Denoted(s, Exclusions[i].match))
  BY RulesAre, DenotedIs DEF Elements
<1>3. \A x \in Elements(policy.exclusions) : \E i \in DOMAIN Exclusions : Exclusions[i] = x
  BY RulesAre DEF Elements
<1>4. Candidates(s) # <<>> => (Barring(s) # {} <=> ExcludedGlobally(s))
  BY <1>2, <1>3 DEF Barring, ExcludedGlobally
<1> QED
  BY <1>1, <1>4 DEF Wanted

-----------------------------------------------------------------------------
(* The choice of a target.                                                 *)

LEMMA SameButRule ==
  ASSUME NEW S, "rule" \in S, NEW t, NEW u,
         t = [f \in S |-> t[f]], u = [f \in S |-> u[f]]
  PROVE  [t EXCEPT !.rule = u.rule] = u <=> [t EXCEPT !.rule = 0] = [u EXCEPT !.rule = 0]
<1>1. DOMAIN t = S /\ DOMAIN u = S
  OBVIOUS
<1>2. ASSUME [t EXCEPT !.rule = u.rule] = u
      PROVE  [t EXCEPT !.rule = 0] = [u EXCEPT !.rule = 0]
  <2>1. \A f \in S : f # "rule" => t[f] = u[f]
    <3> SUFFICES ASSUME NEW f \in S, f # "rule" PROVE t[f] = u[f]
      OBVIOUS
    <3>1. [t EXCEPT !.rule = u.rule][f] = t[f]
      BY <1>1
    <3> QED
      BY <1>2, <3>1
  <2> QED
    BY <1>1, <2>1
<1>3. ASSUME [t EXCEPT !.rule = 0] = [u EXCEPT !.rule = 0]
      PROVE  [t EXCEPT !.rule = u.rule] = u
  <2>1. \A f \in S : f # "rule" => t[f] = u[f]
    <3> SUFFICES ASSUME NEW f \in S, f # "rule" PROVE t[f] = u[f]
      OBVIOUS
    <3>1. [t EXCEPT !.rule = 0][f] = t[f] /\ [u EXCEPT !.rule = 0][f] = u[f]
      BY <1>1
    <3> QED
      BY <1>3, <3>1
  <2>2. [t EXCEPT !.rule = u.rule] = [f \in S |-> u[f]]
    BY <1>1, <2>1
  <2> QED
    BY <2>2
<1> QED
  BY <1>2, <1>3

LEMMA TargetSame ==
  ASSUME NEW s, NEW r, NEW o
  PROVE  /\ [Target(r, s) EXCEPT !.rule = o.id] = Target(o, s)
              <=> [Target(r, s) EXCEPT !.rule = 0] = [Target(o, s) EXCEPT !.rule = 0]
         /\ Target(r, s).symbol = s.id
<1> DEFINE t == Target(r, s)
           u == Target(o, s)
           S == {"symbol", "rule", "name", "context", "record", "errors", "attributes"}
<1>1. t = [f \in S |-> t[f]] /\ t.symbol = s.id
  BY DEF Target
<1>2. u = [f \in S |-> u[f]] /\ u.rule = o.id
  BY DEF Target
<1> HIDE DEF t, u
<1>3. "rule" \in S
  OBVIOUS
<1> HIDE DEF S
<1>4. [t EXCEPT !.rule = u.rule] = u <=> [t EXCEPT !.rule = 0] = [u EXCEPT !.rule = 0]
  BY <1>1, <1>2, <1>3, SameButRule
<1> QED
  BY <1>1, <1>2, <1>4 DEF t, u

ResolutionCodes == {"MissingContext", "MultipleContexts", "UnknownTemplateVar", "ConflictingRules"}

LEMMA ChoiceProblem ==
  ASSUME NEW s, NEW c
  PROVE  \A d : d \in ChoiceProblems(s, c) <=>
                 \/ \E i \in DOMAIN c : d \in TargetProblems(c[i], s)
                 \/ \E i \in Sound(s, c) :
                      /\ [Chosen(s, c) EXCEPT !.rule = c[i].id] # Target(c[i], s)
                      /\ d = Problem("ConflictingRules", c[i].id, s.id)
<1> DEFINE D    == DOMAIN c
           T(i) == TargetProblems(c[i], s)
           C(i) == [Chosen(s, c) EXCEPT !.rule = c[i].id] # Target(c[i], s)
           E(i) == Problem("ConflictingRules", c[i].id, s.id)
           S    == Sound(s, c)
<1>1. ChoiceProblems(s, c) = (UNION {T(i) : i \in D}) \cup {E(i) : i \in {k \in S : C(k)}}
  BY DEF ChoiceProblems
<1> HIDE DEF D, T, C, E, S
<1>2. \A d : d \in ChoiceProblems(s, c) <=>
               (\E i \in D : d \in T(i)) \/ (\E i \in S : C(i) /\ d = E(i))
  BY <1>1
<1> QED
  BY <1>2 DEF D, T, C, E, S

\* What is wrong with the choice is an error of the symbol.
LEMMA ChoiceErrors ==
  ASSUME NEW s, NEW candidates
  PROVE  \A d \in ChoiceProblems(s, candidates) :
           d.severity = "error" /\ d.symbol = s.id /\ d.code \in ResolutionCodes
<1>1. ASSUME NEW r
      PROVE  \A d \in TargetProblems(r, s) :
               d.severity = "error" /\ d.symbol = s.id /\ d.code \in ResolutionCodes
  BY DEF TargetProblems, When, Problem, ResolutionCodes
<1>2. ASSUME NEW r
      PROVE  LET d == Problem("ConflictingRules", r, s.id) IN
             d.severity = "error" /\ d.symbol = s.id /\ d.code \in ResolutionCodes
  BY DEF Problem, ResolutionCodes
<1> SUFFICES ASSUME NEW d \in ChoiceProblems(s, candidates)
             PROVE  d.severity = "error" /\ d.symbol = s.id /\ d.code \in ResolutionCodes
  OBVIOUS
<1>3. \/ \E i \in DOMAIN candidates : d \in TargetProblems(candidates[i], s)
      \/ \E i \in DOMAIN candidates : d = Problem("ConflictingRules", candidates[i].id, s.id)
  <2>1. Sound(s, candidates) \subseteq DOMAIN candidates
    BY DEF Sound
  <2> QED
    BY <2>1, ChoiceProblem
<1>4. CASE \E i \in DOMAIN candidates : d \in TargetProblems(candidates[i], s)
  BY <1>1, <1>4
<1>5. CASE \E i \in DOMAIN candidates : d = Problem("ConflictingRules", candidates[i].id, s.id)
  BY <1>2, <1>5
<1> QED
  BY <1>3, <1>4, <1>5

\* There is nothing wrong when the rules agree, and then the first has its way.
LEMMA ChoiceIs ==
  ASSUME Given, ValidPolicy(policy), NEW s \in Elements(symbols), Wanted(s)
  PROVE  /\ ChoiceProblems(s, Candidates(s)) = {} <=> Agreed(s)
         /\ Agreed(s) => Chosen(s, Candidates(s)) = Agreement(s)
         /\ Agreement(s).symbol = s.id
<1> DEFINE c == Candidates(s)
           Apt(r) == TargetProblems(r, s) = {}
           Same(r, o) == [Target(r, s) EXCEPT !.rule = 0] = [Target(o, s) EXCEPT !.rule = 0]
           Asks(r, o) == [Target(r, s) EXCEPT !.rule = o.id] = Target(o, s)
<1>1. /\ IsSequence(c) /\ Elements(c) = Applicable(s) /\ InOrder(c) /\ c # <<>>
      /\ \A i \in DOMAIN c : c[i].id \in Nat
  BY CandidatesAre DEF Wanted
<1> HIDE DEF c
<1>2. Len(c) \in Nat /\ DOMAIN c = 1..Len(c) /\ 1 \in DOMAIN c
  BY <1>1 DEF IsSequence
<1>3. \A r : r \in Applicable(s) <=> \E i \in DOMAIN c : r = c[i]
  BY <1>1 DEF Elements
<1>4. Agreed(s) <=> /\ \A i \in DOMAIN c : Apt(c[i])
                    /\ \A i, j \in DOMAIN c : Same(c[i], c[j])
  BY <1>3 DEF Agreed
<1>5. \A r, o : Asks(r, o) <=> Same(r, o)
  BY TargetSame
<1>6. (\A i \in DOMAIN c : Apt(c[i])) => Chosen(s, c) = Target(c[1], s) /\ Sound(s, c) = DOMAIN c
  <2> SUFFICES ASSUME \A i \in DOMAIN c : Apt(c[i])
               PROVE  Chosen(s, c) = Target(c[1], s) /\ Sound(s, c) = DOMAIN c
    OBVIOUS
  <2>1. Sound(s, c) = DOMAIN c
    BY DEF Sound
  <2> DEFINE first == CHOOSE i \in DOMAIN c : \A j \in DOMAIN c : i <= j
  <2>2. \E i \in DOMAIN c : \A j \in DOMAIN c : i <= j
    BY <1>2
  <2>3. first \in DOMAIN c /\ \A j \in DOMAIN c : first <= j
    BY <2>2
  <2>4. Chosen(s, c) = Target(c[first], s)
    BY <2>1 DEF Chosen
  <2> HIDE DEF first
  <2>5. first = 1
    BY <1>2, <2>3
  <2> QED
    BY <2>1, <2>4, <2>5
<1> HIDE DEF Same, Asks
<1>7. ChoiceProblems(s, c) = {} <=>
        /\ \A i \in DOMAIN c : Apt(c[i])
        /\ \A i \in DOMAIN c : Asks(c[1], c[i])
  <2>1. ChoiceProblems(s, c) = {} => \A i \in DOMAIN c : Apt(c[i])
    BY DEF ChoiceProblems
  <2> SUFFICES ASSUME \A i \in DOMAIN c : Apt(c[i])
               PROVE  ChoiceProblems(s, c) = {} <=> \A i \in DOMAIN c : Asks(c[1], c[i])
    BY <2>1
  <2>2. Chosen(s, c) = Target(c[1], s) /\ Sound(s, c) = DOMAIN c
    BY <1>6
  <2>3. \A d : d \in ChoiceProblems(s, c) <=>
                 \E i \in DOMAIN c : ~Asks(c[1], c[i]) /\ d = Problem("ConflictingRules", c[i].id, s.id)
    <3>1. \A d : ~\E i \in DOMAIN c : d \in TargetProblems(c[i], s)
      OBVIOUS
    <3> QED
      BY <2>2, <3>1, ChoiceProblem DEF Asks
  <2>4. ChoiceProblems(s, c) = {} => \A i \in DOMAIN c : Asks(c[1], c[i])
    BY <2>3
  <2>5. (\A i \in DOMAIN c : Asks(c[1], c[i])) => ChoiceProblems(s, c) = {}
    BY <2>3
  <2> QED
    BY <2>4, <2>5
<1>8. (\A i \in DOMAIN c : Same(c[1], c[i])) <=> \A i, j \in DOMAIN c : Same(c[i], c[j])
  BY <1>2 DEF Same
<1>9. ChoiceProblems(s, c) = {} <=> Agreed(s)
  BY <1>4, <1>5, <1>7, <1>8
<1>10. Agreement(s) = Target(c[1], s)
  <2> DEFINE rule == CHOOSE r \in Applicable(s) : \A o \in Applicable(s) : r.id <= o.id
  <2>1. c[1] \in Applicable(s)
    BY <1>2, <1>3
  <2>2. \A j \in DOMAIN c : c[1].id <= c[j].id
    <3> SUFFICES ASSUME NEW j \in DOMAIN c PROVE c[1].id <= c[j].id
      OBVIOUS
    <3>1. j = 1 \/ 1 < j
      BY <1>2
    <3>2. 1 < j => c[1].id < c[j].id
      BY <1>1, <1>2 DEF InOrder
    <3>3. c[1].id \in Nat /\ c[j].id \in Nat
      BY <1>1, <1>2
    <3> QED
      BY <3>1, <3>2, <3>3
  <2>3. \A o \in Applicable(s) : c[1].id <= o.id
    BY <1>3, <2>2
  <2>4. rule \in Applicable(s) /\ \A o \in Applicable(s) : rule.id <= o.id
    BY <2>1, <2>3
  <2>5. Agreement(s) = Target(rule, s)
    BY DEF Agreement
  <2> HIDE DEF rule
  <2>6. PICK j \in DOMAIN c : rule = c[j]
    BY <1>3, <2>4
  <2>7. c[j].id <= c[1].id /\ c[1].id \in Nat /\ c[j].id \in Nat
    BY <1>1, <1>2, <2>1, <2>4, <2>6
  <2>8. ~(1 < j)
    BY <1>1, <1>2, <2>7 DEF InOrder
  <2>9. j = 1
    BY <1>2, <2>8
  <2> QED
    BY <2>5, <2>6, <2>9
<1>11. Agreed(s) => Chosen(s, c) = Agreement(s)
  BY <1>4, <1>6, <1>10
<1>12. Agreement(s).symbol = s.id
  BY <1>10, TargetSame
<1> QED
  BY <1>9, <1>11, <1>12 DEF c

-----------------------------------------------------------------------------
(* One symbol.                                                             *)

Touched(s) == {r \in Elements(policy.rules) : Denoted(s, r.match)}

ExcludedEntry(items, s) ==
  \E i \in DOMAIN items : items[i].symbol = s.id /\ items[i].reason = "excluded"

LEMMA JoinedHas ==
  ASSUME NEW a, IsSequence(a), NEW b, IsSequence(b), NEW s
  PROVE  /\ IsSequence(a \o b)
         /\ ExcludedEntry(a \o b, s) <=> ExcludedEntry(a, s) \/ ExcludedEntry(b, s)
<1> DEFINE c == a \o b
<1>1. /\ Len(a) \in Nat /\ Len(b) \in Nat
      /\ DOMAIN a = 1..Len(a) /\ DOMAIN b = 1..Len(b)
      /\ DOMAIN c = 1..Len(a) + Len(b)
      /\ \A i \in 1..Len(a) + Len(b) : c[i] = IF i <= Len(a) THEN a[i] ELSE b[i - Len(a)]
  BY DEF IsSequence
<1>2. c = [i \in 1..Len(a) + Len(b) |-> c[i]]
  <2> DEFINE U == Elements(a) \cup Elements(b)
  <2>1. a \in [1..Len(a) -> U] /\ b \in [1..Len(b) -> U]
    BY <1>1 DEF IsSequence
  <2>2. a \in Seq(U) /\ b \in Seq(U)
    BY <1>1, <2>1
  <2> HIDE DEF U
  <2>3. c \in Seq(U)
    BY <2>2
  <2> HIDE DEF c
  <2> QED
    BY <1>1, <2>3
<1> HIDE DEF c
<1>3. c \in Seq(Elements(c))
  <2>1. \A i \in 1..Len(a) + Len(b) : c[i] \in Elements(c)
    BY <1>1 DEF Elements
  <2>2. c \in [1..Len(a) + Len(b) -> Elements(c)] /\ Len(a) + Len(b) \in Nat
    BY <1>1, <1>2, <2>1
  <2> QED
    BY <2>2
<1>4. \A i \in DOMAIN a : i \in DOMAIN c /\ c[i] = a[i]
  BY <1>1
<1>5. \A i \in DOMAIN b : i + Len(a) \in DOMAIN c /\ c[i + Len(a)] = b[i]
  BY <1>1
<1>6. \A i \in DOMAIN c : (\E j \in DOMAIN a : c[i] = a[j]) \/ (\E j \in DOMAIN b : c[i] = b[j])
  <2> SUFFICES ASSUME NEW i \in DOMAIN c
               PROVE  (\E j \in DOMAIN a : c[i] = a[j]) \/ (\E j \in DOMAIN b : c[i] = b[j])
    OBVIOUS
  <2>1. i <= Len(a) => i \in DOMAIN a /\ c[i] = a[i]
    BY <1>1
  <2>2. ~(i <= Len(a)) => i - Len(a) \in DOMAIN b /\ c[i] = b[i - Len(a)]
    BY <1>1
  <2> QED
    BY <2>1, <2>2
<1>7. ExcludedEntry(c, s) <=> ExcludedEntry(a, s) \/ ExcludedEntry(b, s)
  BY <1>4, <1>5, <1>6 DEF ExcludedEntry
<1> QED
  BY <1>3, <1>7 DEF c, IsSequence

\* The entries of some items.
LEMMA SkipIs ==
  ASSUME NEW s, NEW items, IsSequence(items), NEW reason, NEW skip,
         skip = [i \in DOMAIN items |-> [symbol |-> s.id, rule |-> items[i].id, reason |-> reason]]
  PROVE  /\ IsSequence(skip)
         /\ reason = "excluded" /\ items # <<>> => ExcludedEntry(skip, s)
<1>1. Len(items) \in Nat /\ DOMAIN items = 1..Len(items) /\ DOMAIN skip = DOMAIN items
  BY DEF IsSequence
<1>2. \A i \in 1..Len(items) : skip[i] \in Elements(skip)
  BY <1>1 DEF Elements
<1>3. skip \in [1..Len(items) -> Elements(skip)]
  BY <1>1, <1>2
<1>4. \A i \in DOMAIN items : skip[i].symbol = s.id /\ skip[i].reason = reason
  OBVIOUS
<1>5. items # <<>> => 1 \in DOMAIN items
  BY <1>1 DEF IsSequence
<1> QED
  BY <1>1, <1>3, <1>4, <1>5 DEF IsSequence, ExcludedEntry

LEMMA MatchedIs ==
  ASSUME Given, ValidPolicy(policy), NEW s \in Elements(symbols)
  PROVE  /\ {Rules[i].id : i \in Included(s)} = {r.id : r \in Touched(s)}
         /\ Included(s) \in SUBSET DOMAIN Rules /\ Local(s) \in SUBSET DOMAIN Rules
         /\ Barring(s) \in SUBSET DOMAIN Exclusions
         /\ Touched(s) # {} /\ Applicable(s) = {} => Local(s) # {}
<1>1. \A i \in DOMAIN Rules :
        /\ Rules[i] \in Elements(policy.rules)
        /\ i \in Included(s) <=> Denoted(s, Rules[i].match)
        /\ i \in Included(s) \ Local(s) <=> Rules[i] \in Applicable(s)
  BY RuleDenoted
<1>2. \A r \in Elements(policy.rules) : \E i \in DOMAIN Rules : Rules[i] = r
  BY RulesAre DEF Elements
<1>3. /\ Included(s) \in SUBSET DOMAIN Rules /\ Local(s) \in SUBSET DOMAIN Rules
      /\ Barring(s) \in SUBSET DOMAIN Exclusions
  BY DEF Included, Local, Barring
<1>4. {Rules[i].id : i \in Included(s)} = {r.id : r \in Touched(s)}
  <2>1. \A i \in Included(s) : Rules[i] \in Touched(s)
    BY <1>1, <1>3 DEF Touched
  <2>2. \A r \in Touched(s) : \E i \in Included(s) : Rules[i] = r
    BY <1>1, <1>2 DEF Touched
  <2> QED
    BY <2>1, <2>2
<1>5. Touched(s) # {} /\ Applicable(s) = {} => Local(s) # {}
  BY <1>1, <1>2 DEF Touched
<1> QED
  BY <1>3, <1>4, <1>5

\* What candidateRules, applyGlobalExclusions and chooseTarget come to.
LEMMA ResolveSymbolIs ==
  ASSUME Given, ValidPolicy(policy), ResolveSymbol, IsSequence(skipped),
         NEW s \in Elements(symbols), s = Head(remaining)
  PROVE  /\ matched' = matched \cup {r.id : r \in Touched(s)}
         /\ effective' = IF Wanted(s) THEN effective \cup {r.id : r \in Applicable(s)} ELSE effective
         /\ targets' = IF Wanted(s) /\ Agreed(s) THEN Append(targets, Agreement(s)) ELSE targets
         /\ \E ps : /\ diagnostics' = diagnostics \cup ps
                    /\ ps # {} <=> Wanted(s) /\ ~Agreed(s)
                    /\ \A d \in ps : /\ d.severity = "error" /\ d.symbol = s.id
                                     /\ d.code \in ResolutionCodes
         /\ IsSequence(skipped')
         /\ \A o : ExcludedEntry(skipped, o) => ExcludedEntry(skipped', o)
         /\ Touched(s) # {} /\ ~Wanted(s) => ExcludedEntry(skipped', s)
<1> DEFINE Skip(items, reason) ==
             [i \in DOMAIN items |-> [symbol |-> s.id, rule |-> items[i].id, reason |-> reason]]
           problems    == ChoiceProblems(s, Candidates(s))
           contextless == problems # {} /\ s.contexts = <<>> /\ policy.mode # "root"
           excluded    == skipped \o Skip(Kept(Rules, Local(s)), "excluded")
           barred      == Skip(Kept(Exclusions, Barring(s)), "excluded")
           missing     == Skip(<<Candidates(s)[1]>>, "missingContext")
<1>1. /\ matched' = matched \cup {Rules[i].id : i \in Included(s)}
      /\ \/ /\ Barring(s) # {} \/ Candidates(s) = <<>>
            /\ skipped' = excluded \o barred
            /\ UNCHANGED <<targets, effective, diagnostics>>
         \/ /\ Barring(s) = {} /\ Candidates(s) # <<>>
            /\ effective' = effective \cup {r.id : r \in Elements(Candidates(s))}
            /\ targets' = IF problems = {} THEN Append(targets, Chosen(s, Candidates(s))) ELSE targets
            /\ diagnostics' = diagnostics \cup problems
            /\ skipped' = IF contextless THEN excluded \o missing ELSE excluded
  BY DEF ResolveSymbol, Included, Local, Candidates, Barring
<1>2. PICK e : e = excluded
  OBVIOUS
<1>3. PICK b : b = barred
  OBVIOUS
<1>4. PICK m : m = missing
  OBVIOUS
<1>5. PICK k : k = Skip(Kept(Rules, Local(s)), "excluded")
  OBVIOUS
<1>6. /\ IsSequence(Kept(Rules, Local(s))) /\ (Kept(Rules, Local(s)) = <<>> <=> Local(s) = {})
      /\ IsSequence(Kept(Exclusions, Barring(s)))
      /\ (Kept(Exclusions, Barring(s)) = <<>> <=> Barring(s) = {})
  BY RulesAre, MatchedIs, KeptIs
<1>7. IsSequence(<<Candidates(s)[1]>>)
  BY DEF IsSequence, Elements
<1>8. IsSequence(k) /\ (Local(s) # {} => ExcludedEntry(k, s))
  BY <1>5, <1>6, SkipIs
<1>9. IsSequence(b) /\ (Barring(s) # {} => ExcludedEntry(b, s))
  BY <1>3, <1>6, SkipIs
<1>10. IsSequence(m)
  BY <1>4, <1>7, SkipIs
<1>11. e = skipped \o k
  BY <1>2, <1>5
<1>12. /\ IsSequence(e) /\ (Local(s) # {} => ExcludedEntry(e, s))
       /\ \A o : ExcludedEntry(skipped, o) => ExcludedEntry(e, o)
  BY <1>8, <1>11, JoinedHas
<1>13. /\ IsSequence(e \o b) /\ IsSequence(e \o m)
       /\ \A o : ExcludedEntry(e, o) \/ ExcludedEntry(b, o) => ExcludedEntry(e \o b, o)
       /\ \A o : ExcludedEntry(e, o) => ExcludedEntry(e \o m, o)
  BY <1>9, <1>10, <1>12, JoinedHas
<1>14. /\ {Rules[i].id : i \in Included(s)} = {r.id : r \in Touched(s)}
       /\ Touched(s) # {} /\ Applicable(s) = {} => Local(s) # {}
  BY MatchedIs
<1>15. /\ Barring(s) # {} \/ Candidates(s) = <<>> <=> ~Wanted(s)
       /\ Barring(s) = {} /\ Candidates(s) # <<>> <=> Wanted(s)
       /\ Candidates(s) = <<>> <=> Applicable(s) = {}
       /\ Elements(Candidates(s)) = Applicable(s)
  BY BarringIs, CandidatesAre
<1>16. matched' = matched \cup {r.id : r \in Touched(s)}
  BY <1>1, <1>14
<1>17. \A d \in problems : d.severity = "error" /\ d.symbol = s.id /\ d.code \in ResolutionCodes
  BY ChoiceErrors
<1>18. Wanted(s) => (problems = {} <=> Agreed(s)) /\ (Agreed(s) => Chosen(s, Candidates(s)) = Agreement(s))
  BY ChoiceIs
<1> HIDE DEF Skip, problems, contextless, excluded, barred, missing
<1>19. CASE Wanted(s)
  <2>1. /\ effective' = effective \cup {r.id : r \in Elements(Candidates(s))}
        /\ targets' = IF problems = {} THEN Append(targets, Chosen(s, Candidates(s))) ELSE targets
        /\ diagnostics' = diagnostics \cup problems
        /\ skipped' = IF contextless THEN excluded \o missing ELSE excluded
    BY <1>1, <1>15, <1>19
  <2>2. skipped' = e \o m \/ skipped' = e
    BY <1>2, <1>4, <2>1
  <2>3. IsSequence(skipped') /\ \A o : ExcludedEntry(skipped, o) => ExcludedEntry(skipped', o)
    BY <1>12, <1>13, <2>2
  <2>4. effective' = effective \cup {r.id : r \in Applicable(s)}
    BY <1>15, <2>1
  <2>5. targets' = IF Agreed(s) THEN Append(targets, Agreement(s)) ELSE targets
    BY <1>18, <1>19, <2>1
  <2>6. problems # {} <=> Wanted(s) /\ ~Agreed(s)
    BY <1>18, <1>19
  <2> QED
    BY <1>16, <1>17, <1>19, <2>1, <2>3, <2>4, <2>5, <2>6
<1>20. CASE ~Wanted(s)
  <2>1. /\ skipped' = excluded \o barred
        /\ targets' = targets /\ effective' = effective /\ diagnostics' = diagnostics
    BY <1>1, <1>15, <1>20
  <2>2. skipped' = e \o b
    BY <1>2, <1>3, <2>1
  <2>3. IsSequence(skipped') /\ \A o : ExcludedEntry(skipped, o) => ExcludedEntry(skipped', o)
    BY <1>12, <1>13, <2>2
  <2>4. Touched(s) # {} => ExcludedEntry(skipped', s)
    BY <1>9, <1>12, <1>13, <1>14, <1>15, <1>20, <2>2
  <2>5. diagnostics' = diagnostics \cup {}
    BY <2>1
  <2>6. \E ps : /\ diagnostics' = diagnostics \cup ps
                /\ ps # {} <=> Wanted(s) /\ ~Agreed(s)
                /\ \A d \in ps : /\ d.severity = "error" /\ d.symbol = s.id
                                 /\ d.code \in ResolutionCodes
    <3>1. PICK none : none = {}
      OBVIOUS
    <3>2. /\ diagnostics' = diagnostics \cup none
          /\ none # {} <=> Wanted(s) /\ ~Agreed(s)
          /\ \A d \in none : /\ d.severity = "error" /\ d.symbol = s.id
                             /\ d.code \in ResolutionCodes
      BY <1>20, <2>5, <3>1
    <3> QED
      BY <3>2, Zenon
  <2> QED
    BY <1>16, <1>20, <2>1, <2>3, <2>4, <2>6
<1> QED
  BY <1>19, <1>20

-----------------------------------------------------------------------------
(* The symbols that have been resolved.                                    *)

Meant(D)   == {r \in Elements(policy.rules) : \E s \in D : r \in Touched(s)}
Working(D) == {r \in Elements(policy.rules) : \E s \in D : Wanted(s) /\ r \in Applicable(s)}

\* What resolving the symbols of D has come to.
ResolvedFor(D, ts, sk, ma, ef, ds) ==
  /\ IsSequence(ts) /\ IsSequence(sk)
  /\ Elements(ts) = {Agreement(s) : s \in {s \in D : Wanted(s) /\ Agreed(s)}}
  /\ \A i, j \in DOMAIN ts : i < j => ts[i].symbol < ts[j].symbol
  /\ \A d \in ds : /\ d.severity = "error" /\ d.code \in ResolutionCodes
                   /\ \E s \in D : Wanted(s) /\ ~Agreed(s) /\ d.symbol = s.id
  /\ \A s \in D : Wanted(s) /\ ~Agreed(s) => \E d \in ds : d.symbol = s.id
  /\ \A s \in D : Touched(s) # {} /\ ~Wanted(s) => ExcludedEntry(sk, s)
  /\ ma = {r.id : r \in Meant(D)}
  /\ ef = {r.id : r \in Working(D)}

LEMMA ResolvedOneMore ==
  ASSUME Given, ValidPolicy(policy), ResolveSymbol,
         NEW s \in Elements(symbols), s = Head(remaining),
         NEW D \in SUBSET Elements(symbols), s.id \in Nat,
         \A o \in D : o.id \in Nat /\ o.id < s.id,
         ResolvedFor(D, targets, skipped, matched, effective, diagnostics)
  PROVE  ResolvedFor(D \cup {s}, targets', skipped', matched', effective', diagnostics')
<1> DEFINE E == D \cup {s}
           Good(S) == {o \in S : Wanted(o) /\ Agreed(o)}
<1>1. /\ IsSequence(targets) /\ IsSequence(skipped)
      /\ Elements(targets) = {Agreement(o) : o \in Good(D)}
      /\ \A i, j \in DOMAIN targets : i < j => targets[i].symbol < targets[j].symbol
      /\ \A d \in diagnostics : /\ d.severity = "error" /\ d.code \in ResolutionCodes
                                /\ \E o \in D : Wanted(o) /\ ~Agreed(o) /\ d.symbol = o.id
      /\ \A o \in D : Wanted(o) /\ ~Agreed(o) => \E d \in diagnostics : d.symbol = o.id
      /\ \A o \in D : Touched(o) # {} /\ ~Wanted(o) => ExcludedEntry(skipped, o)
      /\ matched = {r.id : r \in Meant(D)}
      /\ effective = {r.id : r \in Working(D)}
  BY DEF ResolvedFor
<1>2. /\ matched' = matched \cup {r.id : r \in Touched(s)}
      /\ effective' = IF Wanted(s) THEN effective \cup {r.id : r \in Applicable(s)} ELSE effective
      /\ targets' = IF Wanted(s) /\ Agreed(s) THEN Append(targets, Agreement(s)) ELSE targets
      /\ IsSequence(skipped')
      /\ \A o : ExcludedEntry(skipped, o) => ExcludedEntry(skipped', o)
      /\ Touched(s) # {} /\ ~Wanted(s) => ExcludedEntry(skipped', s)
  BY <1>1, ResolveSymbolIs
<1>3. PICK ps : /\ diagnostics' = diagnostics \cup ps
                /\ ps # {} <=> Wanted(s) /\ ~Agreed(s)
                /\ \A d \in ps : /\ d.severity = "error" /\ d.symbol = s.id
                                 /\ d.code \in ResolutionCodes
  BY <1>1, ResolveSymbolIs
<1>4. \A d \in diagnostics' : /\ d.severity = "error" /\ d.code \in ResolutionCodes
                              /\ \E o \in E : Wanted(o) /\ ~Agreed(o) /\ d.symbol = o.id
  <2> SUFFICES ASSUME NEW d \in diagnostics'
               PROVE  /\ d.severity = "error" /\ d.code \in ResolutionCodes
                      /\ \E o \in E : Wanted(o) /\ ~Agreed(o) /\ d.symbol = o.id
    OBVIOUS
  <2>1. CASE d \in diagnostics
    BY <1>1, <2>1
  <2>2. CASE d \in ps
    BY <1>3, <2>2
  <2> QED
    BY <1>3, <2>1, <2>2
<1>5. \A o \in E : Wanted(o) /\ ~Agreed(o) => \E d \in diagnostics' : d.symbol = o.id
  <2>1. \A o \in D : Wanted(o) /\ ~Agreed(o) => \E d \in diagnostics' : d.symbol = o.id
    BY <1>1, <1>3
  <2>2. Wanted(s) /\ ~Agreed(s) => \E d \in diagnostics' : d.symbol = s.id
    BY <1>3
  <2> QED
    BY <2>1, <2>2
<1>6. \A o \in E : Touched(o) # {} /\ ~Wanted(o) => ExcludedEntry(skipped', o)
  BY <1>1, <1>2
<1>7. matched' = {r.id : r \in Meant(E)}
  <2>1. Touched(s) \subseteq Elements(policy.rules)
    BY DEF Touched
  <2>2. Meant(E) = Meant(D) \cup Touched(s)
    BY <2>1 DEF Meant
  <2>3. {r.id : r \in Meant(D) \cup Touched(s)} = {r.id : r \in Meant(D)} \cup {r.id : r \in Touched(s)}
    OBVIOUS
  <2> QED
    BY <1>1, <1>2, <2>2, <2>3
<1>8. effective' = {r.id : r \in Working(E)}
  <2>1. Applicable(s) \subseteq Elements(policy.rules)
    BY DEF Applicable
  <2>2. Working(E) = IF Wanted(s) THEN Working(D) \cup Applicable(s) ELSE Working(D)
    BY <2>1 DEF Working
  <2>3. {r.id : r \in Working(D) \cup Applicable(s)}
          = {r.id : r \in Working(D)} \cup {r.id : r \in Applicable(s)}
    OBVIOUS
  <2> QED
    BY <1>1, <1>2, <2>2, <2>3
<1>9. /\ IsSequence(targets') /\ Elements(targets') = {Agreement(o) : o \in Good(E)}
      /\ \A i, j \in DOMAIN targets' : i < j => targets'[i].symbol < targets'[j].symbol
  <2>1. CASE Wanted(s) /\ Agreed(s)
    <3> DEFINE t == Agreement(s)
               U == Elements(targets) \cup {t}
    <3>1. targets' = Append(targets, t)
      BY <1>2, <2>1
    <3>2. Good(E) = Good(D) \cup {s}
      BY <2>1
    <3>3. {Agreement(o) : o \in Good(D) \cup {s}} = {Agreement(o) : o \in Good(D)} \cup {t}
      <4> HIDE DEF Good
      <4> QED
        OBVIOUS
    <3>4. t.symbol = s.id
      BY <2>1, ChoiceIs
    <3>5. \A u \in Elements(targets) : u.symbol < s.id
      <4> SUFFICES ASSUME NEW o \in D, Wanted(o), Agreed(o) PROVE Agreement(o).symbol < s.id
        BY <1>1
      <4>1. Agreement(o).symbol = o.id
        BY ChoiceIs
      <4> QED
        BY <4>1
    <3> HIDE DEF t, Good
    <3>6. targets \in Seq(U) /\ t \in U
      <4>1. targets \in Seq(Elements(targets)) /\ Elements(targets) \subseteq U
        BY <1>1 DEF IsSequence
      <4> HIDE DEF U
      <4> QED
        BY <4>1 DEF U
    <3> HIDE DEF U
    <3>7. /\ Append(targets, t) \in Seq(U)
          /\ Len(targets) \in Nat /\ DOMAIN targets = 1..Len(targets)
          /\ DOMAIN Append(targets, t) = 1..Len(targets) + 1
          /\ \A i \in 1..Len(targets) : Append(targets, t)[i] = targets[i]
          /\ Append(targets, t)[Len(targets) + 1] = t
          /\ Elements(Append(targets, t)) = Elements(targets) \cup {t}
      BY <3>6, AppendIs
    <3>8. PICK a : a = Append(targets, t)
      OBVIOUS
    <3>9. Elements(a) = {Agreement(o) : o \in Good(E)}
      BY <1>1, <3>2, <3>3, <3>7, <3>8
    <3>10. IsSequence(a)
      BY <3>7, <3>8 DEF IsSequence, U
    <3>11. \A i, j \in DOMAIN a : i < j => a[i].symbol < a[j].symbol
      <4> SUFFICES ASSUME NEW i \in DOMAIN a, NEW j \in DOMAIN a, i < j
                   PROVE  a[i].symbol < a[j].symbol
        OBVIOUS
      <4>1. i \in 1..Len(targets) /\ a[i] = targets[i]
        BY <3>7, <3>8
      <4>2. CASE j \in 1..Len(targets)
        BY <1>1, <3>7, <3>8, <4>1, <4>2
      <4>3. CASE j = Len(targets) + 1
        <5>1. targets[i] \in Elements(targets)
          BY <3>7, <4>1 DEF Elements
        <5>2. a[j] = t
          BY <3>7, <3>8, <4>3
        <5> QED
          BY <3>4, <3>5, <4>1, <5>1, <5>2
      <4> QED
        BY <3>7, <3>8, <4>2, <4>3
    <3> QED
      BY <3>1, <3>8, <3>9, <3>10, <3>11
  <2>2. CASE ~(Wanted(s) /\ Agreed(s))
    <3>1. targets' = targets
      BY <1>2, <2>2
    <3>2. Good(E) = Good(D)
      BY <2>2
    <3> QED
      BY <1>1, <3>1, <3>2
  <2> QED
    BY <2>1, <2>2
<1> QED
  BY <1>2, <1>4, <1>5, <1>6, <1>7, <1>8, <1>9 DEF ResolvedFor

-----------------------------------------------------------------------------
(* What the policy means does not change while it is resolved.             *)

LEMMA MeaningKept ==
  ASSUME project' = project
  PROVE  /\ policy' = policy /\ symbols' = symbols /\ options' = options
         /\ InvalidSelectors' = InvalidSelectors
         /\ \A s : /\ Wanted(s)' <=> Wanted(s)
                   /\ Agreed(s)' <=> Agreed(s)
                   /\ Agreement(s)' = Agreement(s)
                   /\ Applicable(s)' = Applicable(s)
                   /\ Touched(s)' = Touched(s)
<1>1. policy' = policy /\ symbols' = symbols /\ options' = options
  BY DEF policy, symbols, options
<1>2. \A s, m : Denoted(s, m)' <=> Denoted(s, m)
  BY DEF Denoted
<1>3. \A s : Applicable(s)' = Applicable(s) /\ Touched(s)' = Touched(s)
  BY <1>1, <1>2 DEF Applicable, Touched
<1>4. \A s : Wanted(s)' <=> Wanted(s)
  BY <1>1, <1>2, <1>3 DEF Wanted, ExcludedGlobally
<1>5. \A r, s : /\ TargetProblems(r, s)' = TargetProblems(r, s)
                /\ Target(r, s)' = Target(r, s)
  BY <1>1 DEF TargetProblems, Target, TemplateOf
<1>6. \A s : (Agreed(s)' <=> Agreed(s)) /\ Agreement(s)' = Agreement(s)
  BY <1>3, <1>5 DEF Agreed, Agreement
<1>7. \A id, m : SelectorProblems(id, m)' = SelectorProblems(id, m)
  BY <1>1 DEF SelectorProblems
<1>8. Rules' = Rules /\ Exclusions' = Exclusions
  BY <1>1 DEF Rules, Exclusions
<1>9. InvalidSelectors' = InvalidSelectors
  BY <1>7, <1>8 DEF InvalidSelectors
<1> QED
  BY <1>1, <1>3, <1>4, <1>6, <1>9

-----------------------------------------------------------------------------
(* The inductive invariant of the resolution.                              *)

Processed == Elements(symbols) \ Elements(remaining)

ResolveInv == stage = "resolve" =>
  /\ InvalidSelectors = {}
  /\ IsSequence(remaining) /\ InOrder(remaining)
  /\ Elements(remaining) \subseteq Elements(symbols)
  /\ \A s \in Processed : \A o \in Elements(remaining) : s.id < o.id
  /\ ResolvedFor(Processed, targets, skipped, matched, effective, diagnostics)

LEMMA SymbolIds ==
  ASSUME Given
  PROVE  /\ Identified(symbols)
         /\ \A s \in Elements(symbols) : s.id \in Nat /\ s.id # 0
         /\ \A s, o \in Elements(symbols) : s.id = o.id => s = o
<1>1. Discovered(project)
  BY GivenIs
<1>2. /\ IsSequence(symbols)
      /\ \A i, j \in DOMAIN symbols : symbols[i].id = symbols[j].id => i = j
      /\ \A s \in Elements(symbols) : s.id \in Nat \ {0}
  BY <1>1 DEF Discovered, symbols
<1>3. \A i \in DOMAIN symbols : symbols[i].id \in Nat
  BY <1>2 DEF Elements
<1>4. \A s, o \in Elements(symbols) : s.id = o.id => s = o
  BY <1>2 DEF Elements
<1> QED
  BY <1>2, <1>3, <1>4 DEF Identified

LEMMA HeadIs ==
  ASSUME NEW q, IsSequence(q), InOrder(q), q # <<>>, \A s \in Elements(q) : s.id \in Nat
  PROVE  /\ Head(q) \in Elements(q)
         /\ IsSequence(Tail(q)) /\ InOrder(Tail(q))
         /\ Elements(Tail(q)) = Elements(q) \ {Head(q)}
         /\ \A s \in Elements(Tail(q)) : Head(q).id < s.id
<1> DEFINE t == Tail(q)
<1>1. /\ t \in Seq(Elements(q)) /\ Head(q) = q[1]
      /\ DOMAIN q = 1..Len(q) /\ Len(q) \in Nat /\ Len(q) >= 1
      /\ DOMAIN t = 1..Len(q) - 1
      /\ \A i \in 1..Len(q) - 1 : i + 1 \in 1..Len(q) /\ t[i] = q[i + 1]
      /\ \A i \in 1..Len(q) : i # 1 => i - 1 \in 1..Len(q) - 1 /\ t[i - 1] = q[i]
  BY TailIs DEF IsSequence
<1> HIDE DEF t
<1>2. 1 \in DOMAIN q
  BY <1>1
<1>3. \A i \in DOMAIN t : q[1].id < t[i].id
  <2> SUFFICES ASSUME NEW i \in 1..Len(q) - 1 PROVE q[1].id < t[i].id
    BY <1>1
  <2>1. i + 1 \in DOMAIN q /\ 1 < i + 1 /\ t[i] = q[i + 1]
    BY <1>1
  <2> QED
    BY <1>2, <2>1 DEF InOrder
<1>4. \A i \in DOMAIN t : t[i] \in Elements(q) /\ t[i] # q[1]
  <2> SUFFICES ASSUME NEW i \in DOMAIN t PROVE t[i] \in Elements(q) /\ t[i] # q[1]
    OBVIOUS
  <2>1. t[i] \in Elements(q)
    BY <1>1 DEF Elements
  <2>2. q[1].id < t[i].id /\ t[i].id \in Nat
    BY <1>3, <2>1
  <2> QED
    BY <2>1, <2>2
<1>5. Elements(t) = Elements(q) \ {q[1]}
  <2>1. \A i \in DOMAIN q : q[i] # q[1] => q[i] \in Elements(t)
    <3> SUFFICES ASSUME NEW i \in 1..Len(q), q[i] # q[1] PROVE q[i] \in Elements(t)
      BY <1>1
    <3>1. i - 1 \in DOMAIN t /\ t[i - 1] = q[i]
      BY <1>1
    <3> QED
      BY <3>1 DEF Elements
  <2> QED
    BY <1>4, <2>1 DEF Elements
<1>6. IsSequence(t)
  <2>1. \A i \in DOMAIN t : t[i] \in Elements(t)
    BY DEF Elements
  <2>2. Len(t) \in Nat /\ DOMAIN t = 1..Len(t) /\ t \in [1..Len(t) -> Elements(q)]
    <3> DEFINE X == Elements(q)
    <3>1. t \in Seq(X)
      BY <1>1
    <3> HIDE DEF X
    <3>2. Len(t) \in Nat /\ DOMAIN t = 1..Len(t) /\ t \in [1..Len(t) -> X]
      BY <3>1
    <3> QED
      BY <3>2 DEF X
  <2>3. t \in [1..Len(t) -> Elements(t)]
    BY <2>1, <2>2
  <2> QED
    BY <2>2, <2>3 DEF IsSequence
<1>7. InOrder(t)
  <2> SUFFICES ASSUME NEW i \in 1..Len(q) - 1, NEW j \in 1..Len(q) - 1, i < j
               PROVE  t[i].id < t[j].id
    BY <1>1 DEF InOrder
  <2>1. i + 1 \in DOMAIN q /\ j + 1 \in DOMAIN q /\ i + 1 < j + 1
    BY <1>1
  <2> QED
    BY <1>1, <2>1 DEF InOrder
<1> QED
  BY <1>1, <1>2, <1>3, <1>5, <1>6, <1>7 DEF t, Elements

LEMMA ResolvePrime ==
  ASSUME project' = project, NEW D, D = Processed',
         ResolvedFor(D, targets', skipped', matched', effective', diagnostics')
  PROVE  ResolvedFor(Processed, targets, skipped, matched, effective, diagnostics)'
BY MeaningKept DEF ResolvedFor, Meant, Working

\* What ruleMatchDiagnostics says of the rules.
Unmet ==
  {Problem("UnresolvedSymbol", r.id, 0) : r \in {r \in Elements(Rules) : r.id \notin matched}}
    \cup {Warning("RuleFullyExcluded", r.id, 0) :
            r \in {r \in Elements(Rules) : r.id \in matched \ effective}}

\* The diagnostics the resolution ends with.
Outcome(ds) ==
  \/ /\ InvalidSelectors # {}
     /\ targets = <<>>
     /\ ds = InvalidSelectors
  \/ /\ InvalidSelectors = {}
     /\ \E found : /\ ResolvedFor(Elements(symbols), targets, skipped, matched, effective, found)
                   /\ ds = found \cup Unmet

LEMMA ResolveStarts ==
  ASSUME Given, ValidPolicy(policy), Prepare,
         targets = <<>>, skipped = <<>>, matched = {}, effective = {}
  PROVE  ResolveInv' /\ (stage' = "validate" => Outcome(diagnostics)')
<1>1. /\ project' = project /\ diagnostics' = InvalidSelectors
      /\ targets' = <<>> /\ skipped' = <<>> /\ matched' = {} /\ effective' = {}
      /\ \/ HasErrors(InvalidSelectors) /\ stage' = "validate"
         \/ ~HasErrors(InvalidSelectors) /\ stage' = "resolve" /\ remaining' = ByID(symbols)
  BY DEF Prepare
<1>2. InvalidSelectors' = InvalidSelectors /\ symbols' = symbols /\ policy' = policy
  BY <1>1, MeaningKept
<1>3. HasErrors(InvalidSelectors) <=> InvalidSelectors # {}
  <2>1. \A id, m : \A d \in SelectorProblems(id, m) : d.severity = "error"
    BY DEF SelectorProblems, When, Problem
  <2>2. \A d \in InvalidSelectors : d.severity = "error"
    BY <2>1 DEF InvalidSelectors
  <2> QED
    BY <2>2 DEF HasErrors
<1>4. stage' = "validate" => Outcome(diagnostics)'
  BY <1>1, <1>2, <1>3 DEF Outcome
<1>5. ASSUME stage' = "resolve" PROVE ResolveInv'
  <2>1. remaining' = ByID(symbols) /\ InvalidSelectors' = {} /\ diagnostics' = {}
    BY <1>1, <1>2, <1>3, <1>5
  <2>2. /\ IsSequence(ByID(symbols)) /\ Elements(ByID(symbols)) = Elements(symbols)
        /\ InOrder(ByID(symbols))
    BY SymbolIds, ByIDIs
  <2>3. Processed' = {}
    BY <1>2, <2>1, <2>2 DEF Processed
  <2>4. ResolvedFor({}, targets', skipped', matched', effective', diagnostics')
    <3>1. Elements(<<>>) = {} /\ IsSequence(<<>>) /\ DOMAIN <<>> = {}
      BY DEF Elements, IsSequence
    <3>2. Meant({}) = {} /\ Working({}) = {}
      BY DEF Meant, Working
    <3> QED
      BY <1>1, <2>1, <3>1, <3>2 DEF ResolvedFor
  <2>5. ResolvedFor(Processed, targets, skipped, matched, effective, diagnostics)'
    BY <1>1, <2>3, <2>4, ResolvePrime
  <2> QED
    BY <1>2, <2>1, <2>2, <2>3, <2>5 DEF ResolveInv
<1>6. stage' # "resolve" => ResolveInv'
  BY DEF ResolveInv
<1> QED
  BY <1>4, <1>5, <1>6

LEMMA ResolveGoesOn ==
  ASSUME Given, ValidPolicy(policy), ResolveInv, ResolveSymbol
  PROVE  ResolveInv'
<1> DEFINE s == Head(remaining)
           D == Processed
<1>1. /\ stage = "resolve" /\ remaining # <<>> /\ remaining' = Tail(remaining)
      /\ project' = project /\ stage' = stage
  BY DEF ResolveSymbol
<1>2. /\ InvalidSelectors = {}
      /\ IsSequence(remaining) /\ InOrder(remaining)
      /\ Elements(remaining) \subseteq Elements(symbols)
      /\ \A o \in D : \A n \in Elements(remaining) : o.id < n.id
      /\ ResolvedFor(D, targets, skipped, matched, effective, diagnostics)
  BY <1>1 DEF ResolveInv
<1>3. \A o \in Elements(symbols) : o.id \in Nat
  BY SymbolIds
<1>4. /\ s \in Elements(remaining)
      /\ IsSequence(Tail(remaining)) /\ InOrder(Tail(remaining))
      /\ Elements(Tail(remaining)) = Elements(remaining) \ {s}
      /\ \A n \in Elements(Tail(remaining)) : s.id < n.id
  BY <1>1, <1>2, <1>3, HeadIs
<1>5. symbols' = symbols /\ InvalidSelectors' = InvalidSelectors
  BY <1>1, MeaningKept
<1>6. D \in SUBSET Elements(symbols) /\ s \in Elements(symbols)
  BY <1>2, <1>4 DEF Processed
<1>7. Processed' = D \cup {s}
  BY <1>1, <1>4, <1>5, <1>6 DEF Processed
<1>8. PICK h : h = s
  OBVIOUS
<1> HIDE DEF s, D
<1>9. /\ h \in Elements(symbols) /\ h = Head(remaining) /\ h.id \in Nat
      /\ \A o \in D : o.id \in Nat /\ o.id < h.id
  BY <1>2, <1>3, <1>4, <1>6, <1>8 DEF s
<1>10. ResolvedFor(D \cup {h}, targets', skipped', matched', effective', diagnostics')
  BY <1>2, <1>6, <1>9, ResolvedOneMore
<1>11. ResolvedFor(Processed, targets, skipped, matched, effective, diagnostics)'
  <2>1. PICK E : E = D \cup {h}
    OBVIOUS
  <2>2. E = Processed' /\ ResolvedFor(E, targets', skipped', matched', effective', diagnostics')
    BY <1>7, <1>8, <1>10, <2>1
  <2> QED
    BY <1>1, <2>2, ResolvePrime
<1>12. \A o \in Processed' : \A n \in Elements(Tail(remaining)) : o.id < n.id
  BY <1>2, <1>4, <1>7
<1> QED
  BY <1>1, <1>2, <1>4, <1>5, <1>11, <1>12 DEF ResolveInv

LEMMA ResolveEnds ==
  ASSUME Given, ValidPolicy(policy), ResolveInv, Summarise
  PROVE  Outcome(diagnostics)'
<1>1. /\ stage = "resolve" /\ remaining = <<>> /\ diagnostics' = diagnostics \cup Unmet
      /\ UNCHANGED <<project, targets, skipped, matched, effective>>
  BY DEF Summarise, Unmet, resolution
<1>2. /\ InvalidSelectors = {}
      /\ ResolvedFor(Processed, targets, skipped, matched, effective, diagnostics)
  BY <1>1 DEF ResolveInv
<1>3. Elements(remaining) = {}
  BY <1>1 DEF Elements
<1>4. Processed = Elements(symbols)
  BY <1>3 DEF Processed
<1>5. ResolvedFor(Elements(symbols), targets, skipped, matched, effective, diagnostics)
  BY <1>2, <1>4
<1>6. InvalidSelectors' = {} /\ symbols' = symbols /\ policy' = policy
  BY <1>1, <1>2, MeaningKept
<1>7. Unmet' = Unmet
  BY <1>1, <1>6 DEF Unmet, Rules
<1>8. PICK found : found = diagnostics
  OBVIOUS
<1>9. ResolvedFor(Elements(symbols), targets, skipped, matched, effective, found)'
  BY <1>1, <1>5, <1>6, <1>8, MeaningKept DEF ResolvedFor, Meant, Working
<1>10. diagnostics' = found \cup Unmet'
  BY <1>1, <1>7, <1>8
<1> QED
  BY <1>6, <1>9, <1>10 DEF Outcome

LEMMA OutcomeKept ==
  ASSUME UNCHANGED <<project, targets, skipped, matched, effective>>, NEW ds, Outcome(ds)
  PROVE  Outcome(ds)'
<1>1. InvalidSelectors' = InvalidSelectors /\ symbols' = symbols /\ policy' = policy
  BY MeaningKept
<1>2. Unmet' = Unmet
  BY <1>1 DEF Unmet, Rules
<1>3. CASE InvalidSelectors # {}
  BY <1>1, <1>3 DEF Outcome
<1>4. CASE InvalidSelectors = {}
  <2>1. PICK found :
          /\ ResolvedFor(Elements(symbols), targets, skipped, matched, effective, found)
          /\ ds = found \cup Unmet
    BY <1>4 DEF Outcome
  <2>2. ResolvedFor(Elements(symbols), targets, skipped, matched, effective, found)'
    BY <1>1, <2>1, MeaningKept DEF ResolvedFor, Meant, Working
  <2> QED
    BY <1>1, <1>2, <1>4, <2>1, <2>2 DEF Outcome
<1> QED
  BY <1>3, <1>4

LEMMA RuleIds ==
  ASSUME Given, ValidPolicy(policy)
  PROVE  /\ \A r, o \in Elements(policy.rules) : r.id = o.id => r = o
         /\ Elements(Rules) = Elements(policy.rules)
<1>1. Identified(policy.rules) /\ Elements(Rules) = Elements(policy.rules)
  BY PolicyIdentified, RulesAre
<1> QED
  BY <1>1 DEF Identified, Elements

LEMMA UnmetAre ==
  ASSUME NEW d \in Unmet
  PROVE  /\ d.symbol = 0
         /\ \/ d.severity = "error" /\ d.code = "UnresolvedSymbol"
            \/ d.severity = "warning" /\ d.code = "RuleFullyExcluded"
BY DEF Unmet, Problem, Warning

LEMMA UnmetHas ==
  ASSUME Given, ValidPolicy(policy), NEW r \in Elements(policy.rules)
  PROVE  /\ Problem("UnresolvedSymbol", r.id, 0) \in Unmet <=> r.id \notin matched
         /\ Warning("RuleFullyExcluded", r.id, 0) \in Unmet <=> r.id \in matched \ effective
<1> DEFINE P(n) == Problem("UnresolvedSymbol", n, 0)
           W(n) == Warning("RuleFullyExcluded", n, 0)
           lost == {o \in Elements(Rules) : o.id \notin matched}
           idle == {o \in Elements(Rules) : o.id \in matched \ effective}
<1>1. Unmet = {P(o.id) : o \in lost} \cup {W(o.id) : o \in idle}
  BY DEF Unmet
<1>2. r \in Elements(Rules)
  BY RuleIds
<1>3. \A m, n : P(m) = P(n) => m = n
  <2> SUFFICES ASSUME NEW m, NEW n, P(m) = P(n) PROVE m = n
    OBVIOUS
  <2>1. P(m).rule = m /\ P(n).rule = n
    BY DEF Problem
  <2> QED
    BY <2>1
<1>4. \A m, n : W(m) = W(n) => m = n
  <2> SUFFICES ASSUME NEW m, NEW n, W(m) = W(n) PROVE m = n
    OBVIOUS
  <2>1. W(m).rule = m /\ W(n).rule = n
    BY DEF Warning
  <2> QED
    BY <2>1
<1>5. \A m, n : P(m) # W(n)
  <2> SUFFICES ASSUME NEW m, NEW n, P(m) = W(n) PROVE FALSE
    OBVIOUS
  <2>1. P(m).severity = "error" /\ W(n).severity = "warning"
    BY DEF Problem, Warning
  <2> QED
    BY <2>1
<1> HIDE DEF P, W
<1>6. P(r.id) \in Unmet <=> r.id \notin matched
  BY <1>1, <1>2, <1>3, <1>5
<1>7. W(r.id) \in Unmet <=> r.id \in matched \ effective
  BY <1>1, <1>2, <1>4, <1>5
<1> QED
  BY <1>6, <1>7 DEF P, W

\* The outcome is what the policy declares.
LEMMA OutcomeTells ==
  ASSUME Given, ValidPolicy(policy), InvalidSelectors = {}, NEW ds, Outcome(ds)
  PROVE  /\ Elements(targets) = {Agreement(s) : s \in {s \in Elements(symbols) : Wanted(s) /\ Agreed(s)}}
         /\ \A i, j \in DOMAIN targets : i < j => targets[i].symbol < targets[j].symbol
         /\ \A s \in Elements(symbols) :
              Wanted(s) /\ ~Agreed(s) <=> \E d \in ds : d.severity = "error" /\ d.symbol = s.id
         /\ \A s \in Elements(symbols) : Touched(s) # {} => Wanted(s) \/ ExcludedEntry(skipped, s)
         /\ \A r \in Elements(policy.rules) :
              /\ (\A s \in Elements(symbols) : r \notin Touched(s))
                   <=> Problem("UnresolvedSymbol", r.id, 0) \in ds
              /\ (\E s \in Elements(symbols) : r \in Touched(s))
                   /\ (\A s \in Elements(symbols) :
                         r \in Touched(s) => ExcludedGlobally(s) \/ r \notin Applicable(s))
                   <=> Warning("RuleFullyExcluded", r.id, 0) \in ds
         /\ \A d \in ds : d.code \in ResolutionCodes \cup {"UnresolvedSymbol", "RuleFullyExcluded"}
<1> DEFINE S == Elements(symbols)
<1>1. PICK found : /\ ResolvedFor(S, targets, skipped, matched, effective, found)
                   /\ ds = found \cup Unmet
  BY DEF Outcome
<1>2. /\ Elements(targets) = {Agreement(s) : s \in {s \in S : Wanted(s) /\ Agreed(s)}}
      /\ \A i, j \in DOMAIN targets : i < j => targets[i].symbol < targets[j].symbol
      /\ \A d \in found : /\ d.severity = "error" /\ d.code \in ResolutionCodes
                          /\ \E s \in S : Wanted(s) /\ ~Agreed(s) /\ d.symbol = s.id
      /\ \A s \in S : Wanted(s) /\ ~Agreed(s) => \E d \in found : d.symbol = s.id
      /\ \A s \in S : Touched(s) # {} /\ ~Wanted(s) => ExcludedEntry(skipped, s)
      /\ matched = {r.id : r \in Meant(S)}
      /\ effective = {r.id : r \in Working(S)}
  BY <1>1 DEF ResolvedFor
<1>3. /\ \A s \in S : s.id # 0
      /\ \A s, o \in S : s.id = o.id => s = o
  BY SymbolIds
<1> HIDE DEF S
<1>4. \A s \in S : Wanted(s) /\ ~Agreed(s) <=> \E d \in ds : d.severity = "error" /\ d.symbol = s.id
  <2> SUFFICES ASSUME NEW s \in S
               PROVE  Wanted(s) /\ ~Agreed(s) <=> \E d \in ds : d.severity = "error" /\ d.symbol = s.id
    OBVIOUS
  <2>1. Wanted(s) /\ ~Agreed(s) => \E d \in ds : d.severity = "error" /\ d.symbol = s.id
    BY <1>1, <1>2
  <2>2. ASSUME NEW d \in ds, d.symbol = s.id PROVE Wanted(s) /\ ~Agreed(s)
    <3>1. d \notin Unmet
      BY <1>3, <2>2, UnmetAre
    <3>2. PICK o \in S : Wanted(o) /\ ~Agreed(o) /\ d.symbol = o.id
      BY <1>1, <1>2, <2>2, <3>1
    <3>3. o = s
      BY <1>3, <2>2, <3>2
    <3> QED
      BY <3>2, <3>3
  <2> QED
    BY <2>1, <2>2
<1>5. \A d \in ds : d.code \in ResolutionCodes \cup {"UnresolvedSymbol", "RuleFullyExcluded"}
  <2> SUFFICES ASSUME NEW d \in ds
               PROVE  d.code \in ResolutionCodes \cup {"UnresolvedSymbol", "RuleFullyExcluded"}
    OBVIOUS
  <2>1. CASE d \in found
    BY <1>2, <2>1
  <2>2. CASE d \in Unmet
    BY <2>2, UnmetAre
  <2> QED
    BY <1>1, <2>1, <2>2
<1>6. \A n : Problem("UnresolvedSymbol", n, 0) \notin found /\ Warning("RuleFullyExcluded", n, 0) \notin found
  <2> SUFFICES ASSUME NEW n
               PROVE  /\ Problem("UnresolvedSymbol", n, 0) \notin found
                      /\ Warning("RuleFullyExcluded", n, 0) \notin found
    OBVIOUS
  <2>1. /\ Problem("UnresolvedSymbol", n, 0).code = "UnresolvedSymbol"
        /\ Warning("RuleFullyExcluded", n, 0).severity = "warning"
        /\ "UnresolvedSymbol" \notin ResolutionCodes
    BY DEF Problem, Warning, ResolutionCodes
  <2> QED
    BY <1>2, <2>1
<1>7. ASSUME NEW r \in Elements(policy.rules)
      PROVE  /\ (\A s \in S : r \notin Touched(s)) <=> Problem("UnresolvedSymbol", r.id, 0) \in ds
             /\ (\E s \in S : r \in Touched(s))
                  /\ (\A s \in S : r \in Touched(s) => ExcludedGlobally(s) \/ r \notin Applicable(s))
                  <=> Warning("RuleFullyExcluded", r.id, 0) \in ds
  <2>1. \A o \in Elements(policy.rules) : r.id = o.id => r = o
    BY RuleIds
  <2>2. r.id \in matched <=> \E s \in S : r \in Touched(s)
    <3>1. Meant(S) \subseteq Elements(policy.rules) /\ (r \in Meant(S) <=> \E s \in S : r \in Touched(s))
      BY DEF Meant
    <3>2. r.id \in matched <=> r \in Meant(S)
      BY <1>2, <2>1, <3>1
    <3> QED
      BY <3>1, <3>2
  <2>3. r.id \in effective <=> \E s \in S : Wanted(s) /\ r \in Applicable(s)
    <3>1. /\ Working(S) \subseteq Elements(policy.rules)
          /\ r \in Working(S) <=> \E s \in S : Wanted(s) /\ r \in Applicable(s)
      BY DEF Working
    <3>2. r.id \in effective <=> r \in Working(S)
      BY <1>2, <2>1, <3>1
    <3> QED
      BY <3>1, <3>2
  <2>4. \A s \in S : Wanted(s) /\ r \in Applicable(s) <=> r \in Touched(s) /\ ~ExcludedGlobally(s) /\ r \in Applicable(s)
    BY DEF Wanted, Touched, Applicable
  <2>5. Problem("UnresolvedSymbol", r.id, 0) \in ds <=> r.id \notin matched
    BY <1>1, <1>6, UnmetHas
  <2>6. Warning("RuleFullyExcluded", r.id, 0) \in ds <=> r.id \in matched \ effective
    BY <1>1, <1>6, UnmetHas
  <2> QED
    BY <2>2, <2>3, <2>4, <2>5, <2>6
<1> QED
  BY <1>2, <1>4, <1>5, <1>7 DEF S

LEMMA OutcomeDeclared ==
  ASSUME Given, ValidPolicy(policy), Outcome(diagnostics)
  PROVE  ResolvedAsDeclared
<1> SUFFICES ASSUME InvalidSelectors = {}
             PROVE  LET wanted == {s \in Elements(symbols) : Wanted(s)} IN
    /\ Elements(targets) = {Agreement(s) : s \in {s \in wanted : Agreed(s)}}
    /\ \A i, j \in DOMAIN targets : i < j => targets[i].symbol < targets[j].symbol
    /\ \A s \in Elements(symbols) :
         s \in wanted /\ ~Agreed(s) <=>
           \E d \in diagnostics : d.severity = "error" /\ d.symbol = s.id
    /\ \A s \in Elements(symbols) :
         (\E r \in Elements(policy.rules) : Denoted(s, r.match)) =>
           \/ s \in wanted
           \/ \E i \in DOMAIN skipped : skipped[i].symbol = s.id /\ skipped[i].reason = "excluded"
    /\ \A r \in Elements(policy.rules) :
         LET touched == {s \in Elements(symbols) : Denoted(s, r.match)} IN
         /\ touched = {} <=> Problem("UnresolvedSymbol", r.id, 0) \in diagnostics
         /\ touched # {} /\ (\A s \in touched : ExcludedGlobally(s) \/ r \notin Applicable(s))
              <=> Warning("RuleFullyExcluded", r.id, 0) \in diagnostics
  BY DEF ResolvedAsDeclared, Resolved
<1> DEFINE S == Elements(symbols)
           wanted == {s \in S : Wanted(s)}
<1>1. {s \in wanted : Agreed(s)} = {s \in S : Wanted(s) /\ Agreed(s)}
  OBVIOUS
<1>2. \A s \in S : s \in wanted <=> Wanted(s)
  OBVIOUS
<1>3. \A s, r : r \in Touched(s) <=> r \in Elements(policy.rules) /\ Denoted(s, r.match)
  BY DEF Touched
<1>4. /\ Elements(targets) = {Agreement(s) : s \in {s \in S : Wanted(s) /\ Agreed(s)}}
      /\ \A i, j \in DOMAIN targets : i < j => targets[i].symbol < targets[j].symbol
      /\ \A s \in S : Wanted(s) /\ ~Agreed(s) <=>
                        \E d \in diagnostics : d.severity = "error" /\ d.symbol = s.id
      /\ \A s \in S : Touched(s) # {} => Wanted(s) \/ ExcludedEntry(skipped, s)
      /\ \A r \in Elements(policy.rules) :
           /\ (\A s \in S : r \notin Touched(s))
                <=> Problem("UnresolvedSymbol", r.id, 0) \in diagnostics
           /\ (\E s \in S : r \in Touched(s))
                /\ (\A s \in S : r \in Touched(s) => ExcludedGlobally(s) \/ r \notin Applicable(s))
                <=> Warning("RuleFullyExcluded", r.id, 0) \in diagnostics
  BY OutcomeTells
<1> HIDE DEF S, wanted
<1>5. \A s \in S : s \in wanted /\ ~Agreed(s) <=>
                     \E d \in diagnostics : d.severity = "error" /\ d.symbol = s.id
  BY <1>2, <1>4
<1>6. \A s \in S : (\E r \in Elements(policy.rules) : Denoted(s, r.match)) =>
           \/ s \in wanted
           \/ \E i \in DOMAIN skipped : skipped[i].symbol = s.id /\ skipped[i].reason = "excluded"
  BY <1>2, <1>3, <1>4 DEF ExcludedEntry
<1>7. ASSUME NEW r \in Elements(policy.rules)
      PROVE  LET touched == {s \in S : Denoted(s, r.match)} IN
         /\ touched = {} <=> Problem("UnresolvedSymbol", r.id, 0) \in diagnostics
         /\ touched # {} /\ (\A s \in touched : ExcludedGlobally(s) \/ r \notin Applicable(s))
              <=> Warning("RuleFullyExcluded", r.id, 0) \in diagnostics
  <2> DEFINE touched == {s \in S : Denoted(s, r.match)}
  <2>1. \A s : s \in touched <=> s \in S /\ r \in Touched(s)
    BY <1>3
  <2> HIDE DEF touched
  <2>2. touched = {} <=> \A s \in S : r \notin Touched(s)
    BY <2>1
  <2>3. (\A s \in touched : ExcludedGlobally(s) \/ r \notin Applicable(s))
          <=> \A s \in S : r \in Touched(s) => ExcludedGlobally(s) \/ r \notin Applicable(s)
    BY <2>1
  <2>4. /\ touched = {} <=> Problem("UnresolvedSymbol", r.id, 0) \in diagnostics
        /\ touched # {} /\ (\A s \in touched : ExcludedGlobally(s) \/ r \notin Applicable(s))
             <=> Warning("RuleFullyExcluded", r.id, 0) \in diagnostics
    BY <1>4, <2>2, <2>3
  <2> QED
    BY <2>4 DEF touched
<1> QED
  BY <1>1, <1>4, <1>5, <1>6, <1>7 DEF S, wanted

-----------------------------------------------------------------------------
(* The inductive invariant of the command.                                 *)

\* The diagnostics of the last stage.
Checks ==
  PlanSize(Len(targets)) \cup BackendProblems
    \cup UNION {TargetDiagnostics(t) : t \in Elements(targets)}

Status ==
  IF BackendProblems # {} THEN 7
  ELSE IF HasErrors(diagnostics) \/ (options.strict /\ HasWarnings(diagnostics)) THEN 5 ELSE 0

LEMMA ChecksKept ==
  ASSUME UNCHANGED <<project, targets, recursive>>
  PROVE  Checks' = Checks /\ BackendProblems' = BackendProblems
<1>1. policy' = policy /\ symbols' = symbols /\ options' = options
  BY MeaningKept
<1>2. \A id : IndexOf(id)' = IndexOf(id) /\ SymbolOf(id)' = SymbolOf(id)
  BY <1>1 DEF IndexOf, SymbolOf
<1>3. \A t : TargetWarnings(t)' = TargetWarnings(t)
  BY <1>2 DEF TargetWarnings
<1>4. \A t : TargetDiagnostics(t)' = TargetDiagnostics(t)
  BY <1>1, <1>2, <1>3 DEF TargetDiagnostics
<1>5. \A n : PlanSize(n)' = PlanSize(n)
  BY <1>1 DEF PlanSize
<1>6. \A s, a : GenericCapture(s, a)' <=> GenericCapture(s, a)
  BY DEF GenericCapture
<1>7. \A t : Unsupported(t)' <=> Unsupported(t)
  BY <1>2, <1>6 DEF Unsupported
<1>8. BackendProblems' = BackendProblems
  BY <1>1, <1>7 DEF BackendProblems
<1> QED
  BY <1>4, <1>5, <1>8 DEF Checks

PolicyInv ==
  /\ stage # "done" => exit = -1
  /\ stage \in {"usage", "load", "analyse", "prepare"} =>
       targets = <<>> /\ skipped = <<>> /\ matched = {} /\ effective = {}
  /\ stage \in {"load", "analyse", "prepare", "resolve", "validate"} \/ exit \in {0, 5, 7} =>
       UsableLimits
  /\ stage \in {"analyse", "prepare", "resolve", "validate"} \/ exit \in {0, 5, 7} =>
       ValidPolicy(policy)

OutcomeInv ==
  /\ stage = "validate" => Outcome(diagnostics)
  /\ exit \in {0, 5, 7} =>
       /\ exit = Status
       /\ \E ds : Outcome(ds) /\ diagnostics = ds \cup Checks

CommandInv == Given /\ PolicyInv /\ ResolveInv /\ OutcomeInv

LEMMA PolicyKept ==
  ASSUME project' = project
  PROVE  /\ Given' <=> Given
         /\ UsableLimits' <=> UsableLimits
         /\ ValidPolicy(policy)' <=> ValidPolicy(policy)
BY MeaningKept DEF Given, UsableLimits

LEMMA ResolveKept ==
  ASSUME UNCHANGED <<project, stage, resolution, diagnostics>>, ResolveInv
  PROVE  ResolveInv'
<1> SUFFICES ASSUME stage = "resolve" PROVE ResolveInv'
  BY DEF ResolveInv
<1>1. /\ project' = project /\ remaining' = remaining /\ targets' = targets /\ skipped' = skipped
      /\ matched' = matched /\ effective' = effective /\ diagnostics' = diagnostics
  BY DEF resolution
<1>2. symbols' = symbols /\ InvalidSelectors' = InvalidSelectors
  BY <1>1, MeaningKept
<1>3. Processed' = Processed
  BY <1>1, <1>2 DEF Processed
<1>4. PICK D : D = Processed
  OBVIOUS
<1>5. /\ InvalidSelectors = {}
      /\ IsSequence(remaining) /\ InOrder(remaining)
      /\ Elements(remaining) \subseteq Elements(symbols)
      /\ \A s \in Processed : \A o \in Elements(remaining) : s.id < o.id
      /\ ResolvedFor(Processed, targets, skipped, matched, effective, diagnostics)
  BY DEF ResolveInv
<1>6. ResolvedFor(D, targets', skipped', matched', effective', diagnostics')
  BY <1>1, <1>4, <1>5
<1>7. ResolvedFor(Processed, targets, skipped, matched, effective, diagnostics)'
  BY <1>1, <1>3, <1>4, <1>6, ResolvePrime
<1> QED
  BY <1>1, <1>2, <1>3, <1>5, <1>7 DEF ResolveInv

LEMMA OutcomeHeld ==
  ASSUME UNCHANGED <<project, stage, resolution, diagnostics, exit, recursive>>, OutcomeInv
  PROVE  OutcomeInv'
<1>1. UNCHANGED <<project, targets, skipped, matched, effective>>
  BY DEF resolution
<1>2. Checks' = Checks /\ BackendProblems' = BackendProblems /\ options' = options
  BY ChecksKept, MeaningKept, <1>1
<1>3. Status' = Status
  BY <1>2 DEF Status, HasErrors, HasWarnings
<1>4. \A ds : Outcome(ds) => Outcome(ds)'
  BY <1>1, OutcomeKept
<1>5. stage = "validate" => Outcome(diagnostics)'
  <2>1. PICK ds : ds = diagnostics
    OBVIOUS
  <2>2. stage = "validate" => Outcome(ds)'
    BY <1>4, <2>1 DEF OutcomeInv
  <2>3. diagnostics' = ds
    BY <2>1
  <2> QED
    BY <2>2, <2>3 DEF Outcome
<1>6. exit \in {0, 5, 7} => \E ds : Outcome(ds)' /\ diagnostics' = ds \cup Checks'
  BY <1>2, <1>4 DEF OutcomeInv
<1> QED
  BY <1>3, <1>5, <1>6 DEF OutcomeInv

LEMMA CommandInit == Init => CommandInv
<1> SUFFICES ASSUME Init PROVE CommandInv
  OBVIOUS
<1>1. /\ stage = "usage" /\ exit = -1
      /\ targets = <<>> /\ skipped = <<>> /\ matched = {} /\ effective = {}
      /\ \E family \in Families : project \in family
  BY DEF Init
<1> QED
  BY <1>1 DEF CommandInv, Given, PolicyInv, ResolveInv, OutcomeInv

LEMMA CommandNext == CommandInv /\ [Next]_vars => CommandInv'
<1> SUFFICES ASSUME CommandInv, [Next]_vars PROVE CommandInv'
  OBVIOUS
<1>1. Given /\ PolicyInv /\ ResolveInv /\ OutcomeInv
  BY DEF CommandInv
<1>2. CASE ParseOptions
  <2>1. /\ stage = "usage" /\ exit = -1
        /\ UNCHANGED <<project, targets, skipped, matched, effective>>
        /\ \/ UsableLimits /\ stage' = "load" /\ exit' = exit
           \/ stage' = "done" /\ exit' = 2
    BY <1>1, <1>2 DEF ParseOptions, Exits, resolution, PolicyInv
  <2> QED
    BY <1>1, <2>1, PolicyKept DEF CommandInv, PolicyInv, ResolveInv, OutcomeInv
<1>3. CASE LoadPolicy
  <2>1. /\ stage = "load" /\ exit = -1
        /\ UNCHANGED <<project, targets, skipped, matched, effective>>
        /\ \/ ValidPolicy(policy) /\ stage' = "analyse" /\ exit' = exit
           \/ stage' = "done" /\ exit' = 3
    BY <1>1, <1>3 DEF LoadPolicy, Exits, resolution, PolicyInv
  <2> QED
    BY <1>1, <2>1, PolicyKept DEF CommandInv, PolicyInv, ResolveInv, OutcomeInv
<1>4. CASE Analyse
  <2>1. /\ stage = "analyse" /\ exit = -1
        /\ UNCHANGED <<project, targets, skipped, matched, effective, stage, exit>>
    BY <1>1, <1>4 DEF Analyse, resolution, PolicyInv
  <2> QED
    BY <1>1, <2>1, PolicyKept DEF CommandInv, PolicyInv, ResolveInv, OutcomeInv
<1>5. CASE Analysed
  <2>1. /\ stage = "analyse" /\ exit = -1
        /\ UNCHANGED <<project, targets, skipped, matched, effective>>
        /\ \/ stage' = "prepare" /\ exit' = exit
           \/ stage' = "done" /\ exit' = 4
    BY <1>1, <1>5 DEF Analysed, Exits, resolution, PolicyInv
  <2> QED
    BY <1>1, <2>1, PolicyKept DEF CommandInv, PolicyInv, ResolveInv, OutcomeInv
<1>6. CASE Prepare
  <2>1. /\ stage = "prepare" /\ exit = -1 /\ UsableLimits /\ ValidPolicy(policy)
        /\ targets = <<>> /\ skipped = <<>> /\ matched = {} /\ effective = {}
        /\ project' = project /\ exit' = exit /\ stage' \in {"validate", "resolve"}
    BY <1>1, <1>6 DEF Prepare, PolicyInv
  <2>2. ResolveInv' /\ (stage' = "validate" => Outcome(diagnostics)')
    BY <1>1, <1>6, <2>1, ResolveStarts
  <2>3. PolicyInv'
    BY <2>1, PolicyKept DEF PolicyInv
  <2>4. OutcomeInv'
    BY <2>1, <2>2 DEF OutcomeInv
  <2> QED
    BY <1>1, <2>1, <2>2, <2>3, <2>4, PolicyKept DEF CommandInv
<1>7. CASE ResolveSymbol
  <2>1. /\ stage = "resolve" /\ exit = -1 /\ UsableLimits /\ ValidPolicy(policy)
        /\ project' = project /\ exit' = exit /\ stage' = stage
    BY <1>1, <1>7 DEF ResolveSymbol, PolicyInv
  <2>2. ResolveInv'
    BY <1>1, <1>7, <2>1, ResolveGoesOn
  <2> QED
    BY <1>1, <2>1, <2>2, PolicyKept DEF CommandInv, PolicyInv, OutcomeInv
<1>8. CASE Summarise
  <2>1. /\ stage = "resolve" /\ exit = -1 /\ UsableLimits /\ ValidPolicy(policy)
        /\ project' = project /\ exit' = exit /\ stage' = "validate"
    BY <1>1, <1>8 DEF Summarise, PolicyInv
  <2>2. Outcome(diagnostics)'
    BY <1>1, <1>8, <2>1, ResolveEnds
  <2>3. OutcomeInv'
    BY <2>1, <2>2 DEF OutcomeInv
  <2> QED
    BY <1>1, <2>1, <2>3, PolicyKept DEF CommandInv, PolicyInv, ResolveInv
<1>9. CASE Validate
  <2>1. /\ stage = "validate" /\ UsableLimits /\ ValidPolicy(policy)
        /\ UNCHANGED <<project, targets, skipped, matched, effective, recursive>>
        /\ stage' = "done"
        /\ diagnostics' = diagnostics \cup Checks
        /\ exit' = IF BackendProblems # {} THEN 7
                   ELSE IF HasErrors(diagnostics') \/ (options.strict /\ HasWarnings(diagnostics'))
                   THEN 5 ELSE 0
    BY <1>1, <1>9 DEF Validate, Exits, resolution, PolicyInv, Checks, cycleVars
  <2>2. Checks' = Checks /\ BackendProblems' = BackendProblems /\ options' = options
    BY <2>1, ChecksKept, MeaningKept
  <2>3. exit' = Status'
    BY <2>1, <2>2 DEF Status, HasErrors, HasWarnings
  <2>4. PICK ds : ds = diagnostics
    OBVIOUS
  <2>5. Outcome(ds)'
    <3>1. Outcome(ds)
      BY <1>1, <2>1, <2>4 DEF OutcomeInv
    <3> QED
      BY <2>1, <3>1, OutcomeKept
  <2>6. diagnostics' = ds \cup Checks'
    BY <2>1, <2>2, <2>4
  <2>7. OutcomeInv'
    BY <2>1, <2>3, <2>5, <2>6 DEF OutcomeInv
  <2>8. PolicyInv'
    BY <2>1, PolicyKept DEF PolicyInv
  <2> QED
    BY <1>1, <2>1, <2>7, <2>8, PolicyKept DEF CommandInv, ResolveInv
<1>10. CASE Cancel \/ UNCHANGED vars
  <2>1. UNCHANGED <<project, stage, resolution, diagnostics, exit, recursive>>
    BY <1>10 DEF Cancel, vars, cycleVars
  <2>2. UNCHANGED <<targets, skipped, matched, effective>>
    BY <2>1 DEF resolution
  <2>3. ResolveInv' /\ OutcomeInv'
    BY <1>1, <2>1, ResolveKept, OutcomeHeld
  <2>4. PolicyInv'
    BY <1>1, <2>1, <2>2, PolicyKept DEF PolicyInv
  <2> QED
    BY <1>1, <2>1, <2>3, <2>4, PolicyKept DEF CommandInv
<1> QED
  BY <1>2, <1>3, <1>4, <1>5, <1>6, <1>7, <1>8, <1>9, <1>10 DEF Next

\* However the rules and the exclusions are ordered in the file and whichever of
\* them overlap, resolve.Resolve leaves the plan, the skipped entries and the
\* diagnostics that the policy means as a set: one target for each symbol that is
\* wanted and agreed on, in the order of the identifiers, and an error, an entry
\* or a warning for everything else.
THEOREM AlwaysResolvedAsDeclared == Spec => []ResolvedAsDeclared
<1>1. CommandInv => ResolvedAsDeclared
  <2> SUFFICES ASSUME CommandInv, stage = "validate" PROVE ResolvedAsDeclared
    BY DEF ResolvedAsDeclared, Resolved
  <2>1. Given /\ ValidPolicy(policy) /\ Outcome(diagnostics)
    BY DEF CommandInv, PolicyInv, OutcomeInv
  <2> QED
    BY <2>1, OutcomeDeclared
<1> QED
  BY <1>1, CommandInit, CommandNext, PTL DEF Spec

-----------------------------------------------------------------------------
(* What a command that goes on has checked.                                *)

LEMMA SymbolFound ==
  ASSUME Given, NEW s \in Elements(symbols)
  PROVE  SymbolOf(s.id) = s
<1>1. PICK i \in DOMAIN symbols : symbols[i] = s
  BY DEF Elements
<1>2. \A j, k \in DOMAIN symbols : symbols[j].id = symbols[k].id => j = k
  BY SymbolIds DEF Identified
<1>3. IndexOf(s.id) = i
  BY <1>1, <1>2 DEF IndexOf
<1> QED
  BY <1>1, <1>3 DEF SymbolOf

LEMMA InvalidTells ==
  ASSUME NEW d \in InvalidSelectors
  PROVE  d.severity = "error" /\ d.code \in {"InvalidSelector", "UnresolvedSymbol"}
<1>1. \A id, m : \A x \in SelectorProblems(id, m) :
        x.severity = "error" /\ x.code \in {"InvalidSelector", "UnresolvedSymbol"}
  BY DEF SelectorProblems, When, Problem
<1> QED
  BY <1>1 DEF InvalidSelectors

\* Which of the last checks call a plan too broad.
LEMMA ChecksTell ==
  Problem("BroadPlan", 0, 0) \in Checks <=> Problem("BroadPlan", 0, 0) \in PlanSize(Len(targets))
<1> DEFINE P == Problem("BroadPlan", 0, 0)
<1>1. P.severity = "error" /\ P.code = "BroadPlan"
  BY DEF Problem
<1>2. \A d \in BackendProblems : d.code # "BroadPlan"
  BY DEF BackendProblems, Problem
<1>3. ASSUME NEW t, NEW d \in TargetDiagnostics(t) PROVE d # P
  <2>1. CASE \E c : d = Warning(c, t.rule, t.symbol)
    <3>1. d.severity = "warning"
      BY <2>1 DEF Warning
    <3> QED
      BY <1>1, <3>1
  <2>2. ASSUME NEW c, c \in UNION {AttributeErrors(project.types, SymbolOf(t.symbol), a, policy.deny) :
                                     a \in t.attributes},
               d = Problem(c, t.rule, t.symbol)
        PROVE  d # P
    <3>1. c \in {"CaptureNotAllowed", "SecretAttribute"}
      BY <2>2 DEF AttributeErrors
    <3>2. d.code = c
      BY <2>2 DEF Problem
    <3> QED
      BY <1>1, <3>1, <3>2
  <2> QED
    BY <1>3, <2>1, <2>2 DEF TargetDiagnostics
<1> HIDE DEF P
<1>4. P \in Checks <=> P \in PlanSize(Len(targets))
  BY <1>1, <1>2, <1>3 DEF Checks
<1> QED
  BY <1>4 DEF P

LEMMA SizeTells ==
  ASSUME Given, UsableLimits, NEW n \in Nat
  PROVE  Problem("BroadPlan", 0, 0) \notin PlanSize(n)
           <=> IF options.maximumSet THEN n <= options.maximum
               ELSE n <= DefaultMaximum \/ options.allowLarge
<1> DEFINE limit == OrDefault(options.maximum, DefaultMaximum)
<1>1. Problem("BroadPlan", 0, 0) # Warning("BroadPlan", 0, 0)
  <2>1. /\ Problem("BroadPlan", 0, 0).severity = "error"
        /\ Warning("BroadPlan", 0, 0).severity = "warning"
    BY DEF Problem, Warning
  <2> QED
    BY <2>1
<1>2. Problem("BroadPlan", 0, 0) \in PlanSize(n)
        <=> n > limit /\ (options.maximumSet \/ ~options.allowLarge)
  BY <1>1 DEF PlanSize, When
<1>3. /\ options.maximum \in Int /\ DefaultMaximum \in Nat /\ DefaultMaximum > 0
      /\ options.maximumSet => options.limitsSet
      /\ ~options.maximumSet => options.maximum = DefaultMaximum
  BY GivenIs, PlanningAssumption DEF Parsed
<1>4. options.maximumSet => options.maximum > 0
  BY <1>3 DEF UsableLimits
<1>5. /\ options.maximumSet => limit = options.maximum
      /\ ~options.maximumSet => limit = DefaultMaximum
  BY <1>3, <1>4 DEF OrDefault
<1> HIDE DEF limit
<1>6. CASE options.maximumSet
  <2>1. n > limit <=> ~(n <= options.maximum)
    BY <1>3, <1>5, <1>6
  <2> QED
    BY <1>2, <1>6, <2>1
<1>7. CASE ~options.maximumSet
  <2>1. n > limit <=> ~(n <= DefaultMaximum)
    BY <1>3, <1>5, <1>7
  <2> QED
    BY <1>2, <1>7, <2>1
<1> QED
  BY <1>6, <1>7

LEMMA OutcomeSize ==
  ASSUME Given, ValidPolicy(policy), UsableLimits, NEW ds, Outcome(ds), diagnostics = ds \cup Checks
  PROVE  LET count == Len(targets)
             within == IF options.maximumSet THEN count <= options.maximum
                       ELSE count <= DefaultMaximum \/ options.allowLarge
         IN  Problem("BroadPlan", 0, 0) \notin diagnostics <=> within
<1>1. Problem("BroadPlan", 0, 0).code = "BroadPlan"
  BY DEF Problem
<1>2. Problem("BroadPlan", 0, 0) \notin ds
  <2>1. CASE InvalidSelectors # {}
    BY <1>1, <2>1, InvalidTells DEF Outcome
  <2>2. CASE InvalidSelectors = {}
    <3>1. \A d \in ds : d.code \in ResolutionCodes \cup {"UnresolvedSymbol", "RuleFullyExcluded"}
      BY <2>2, OutcomeTells
    <3>2. "BroadPlan" \notin ResolutionCodes \cup {"UnresolvedSymbol", "RuleFullyExcluded"}
      BY DEF ResolutionCodes
    <3> QED
      BY <1>1, <3>1, <3>2
  <2> QED
    BY <2>1, <2>2
<1>3. Len(targets) \in Nat
  <2>1. targets = <<>> \/ IsSequence(targets)
    BY DEF Outcome, ResolvedFor
  <2> QED
    BY <2>1 DEF IsSequence
<1>4. PICK n \in Nat : n = Len(targets)
  BY <1>3
<1>5. Problem("BroadPlan", 0, 0) \notin PlanSize(n)
           <=> IF options.maximumSet THEN n <= options.maximum
               ELSE n <= DefaultMaximum \/ options.allowLarge
  BY SizeTells
<1> QED
  BY <1>2, <1>4, <1>5, ChecksTell

\* What is refused of a target keeps the command from going on.
LEMMA OutcomeAccepted ==
  ASSUME Given, ValidPolicy(policy), RecursiveExactly, NEW ds, Outcome(ds),
         diagnostics = ds \cup Checks, exit = 0, exit = Status
  PROVE  /\ InvalidSelectors = {}
         /\ BackendProblems = {}
         /\ \A d \in diagnostics : d.severity # "error" /\ (options.strict => d.severity # "warning")
         /\ \A s \in Elements(symbols) : Wanted(s) => Agreed(s)
<1>1. BackendProblems = {} /\ ~HasErrors(diagnostics) /\ ~(options.strict /\ HasWarnings(diagnostics))
  BY DEF Status
<1>2. \A d \in diagnostics : d.severity # "error" /\ (options.strict => d.severity # "warning")
  BY <1>1 DEF HasErrors, HasWarnings
<1>3. InvalidSelectors = {}
  BY <1>2, InvalidTells DEF Outcome
<1>4. \A s \in Elements(symbols) : Wanted(s) /\ ~Agreed(s) => \E d \in ds : d.severity = "error"
  BY <1>3, OutcomeTells
<1> QED
  BY <1>1, <1>2, <1>3, <1>4

LEMMA AgreedContext ==
  ASSUME Given, NEW s \in Elements(symbols), Wanted(s), Agreed(s)
  PROVE  Len(s.contexts) = 1 \/ (s.contexts = <<>> /\ policy.mode = "root")
<1>1. PICK r \in Applicable(s) : TargetProblems(r, s) = {}
  BY DEF Wanted, Agreed
<1>2. IsSequence(s.contexts)
  BY GivenIs DEF Discovered, symbols
<1>3. ~(s.contexts = <<>> /\ policy.mode # "root") /\ ~(Len(s.contexts) > 1)
  BY <1>1 DEF TargetProblems, When
<1>4. Len(s.contexts) \in Nat /\ (Len(s.contexts) = 0 => s.contexts = <<>>)
  <2>1. PICK c : c = s.contexts
    OBVIOUS
  <2>2. c \in Seq(Elements(c))
    BY <1>2, <2>1 DEF IsSequence
  <2>3. Len(c) \in Nat /\ (Len(c) = 0 => c = <<>>)
    BY <2>2
  <2> QED
    BY <2>1, <2>3
<1>5. PICK n \in Nat : n = Len(s.contexts)
  BY <1>4
<1>6. ~(n > 1) /\ (n = 0 => s.contexts = <<>>)
  BY <1>3, <1>4, <1>5
<1>7. n = 0 \/ n = 1
  BY <1>6
<1> QED
  BY <1>3, <1>5, <1>6, <1>7, Zenon

LEMMA TargetAccepted ==
  ASSUME Given, RecursiveExactly, exit = 0,
         \A d \in diagnostics : d.severity # "error" /\ (options.strict => d.severity # "warning"),
         NEW t, TargetDiagnostics(t) \subseteq diagnostics
  PROVE  /\ options.strict =>
              /\ IndexOf(t.symbol) \notin OnCycle
              /\ ~SymbolOf(t.symbol).generated /\ ~SymbolOf(t.symbol).testFile
              /\ ~SymbolOf(t.symbol).manualSpan
              /\ t.context # <<>>
         /\ \A a \in t.attributes :
              MatchesAny(a, SecretPatterns \cup policy.deny) => a.classification = "secret" /\ a.allow
<1> DEFINE s == SymbolOf(t.symbol)
<1>1. recursive = OnCycle
  BY DEF RecursiveExactly
<1>2. \A c : Warning(c, t.rule, t.symbol).severity = "warning" /\ Problem(c, t.rule, t.symbol).severity = "error"
  BY DEF Warning, Problem
<1>3. \A c \in TargetWarnings(t) : Warning(c, t.rule, t.symbol) \in diagnostics
  BY DEF TargetDiagnostics
<1>4. \A a \in t.attributes : \A c \in AttributeErrors(project.types, s, a, policy.deny) :
        Problem(c, t.rule, t.symbol) \in diagnostics
  BY DEF TargetDiagnostics
<1>5. options.strict => TargetWarnings(t) = {}
  BY <1>2, <1>3
<1>6. \A a \in t.attributes : AttributeErrors(project.types, s, a, policy.deny) = {}
  BY <1>2, <1>4
<1>7. ASSUME TargetWarnings(t) = {}
      PROVE  /\ IndexOf(t.symbol) \notin OnCycle
             /\ ~s.generated /\ ~s.testFile /\ ~s.manualSpan
             /\ t.context # <<>>
  <2>1. "BroadPlan" \notin TargetWarnings(t) /\ "RecursiveTarget" \notin TargetWarnings(t)
        /\ "ManualSpan" \notin TargetWarnings(t) /\ "MissingContext" \notin TargetWarnings(t)
    BY <1>7
  <2> QED
    BY <1>1, <2>1 DEF TargetWarnings
<1>8. ASSUME NEW a \in t.attributes, MatchesAny(a, SecretPatterns \cup policy.deny)
      PROVE  a.classification = "secret" /\ a.allow
  <2>1. ~UnacknowledgedSecret(a, policy.deny)
    BY <1>6 DEF AttributeErrors
  <2> QED
    BY <1>8, <2>1 DEF UnacknowledgedSecret
<1> QED
  BY <1>5, <1>7, <1>8

LEMMA AcceptedTells == RecursiveExactly /\ CommandInv => AcceptedOnlySafe
<1> SUFFICES ASSUME RecursiveExactly, CommandInv, exit \in {0, 5, 7} PROVE AcceptedOnlySafe
  BY DEF AcceptedOnlySafe
<1>1. /\ Given /\ ValidPolicy(policy) /\ UsableLimits
      /\ exit = Status
      /\ \E ds : Outcome(ds) /\ diagnostics = ds \cup Checks
  BY DEF CommandInv, PolicyInv, OutcomeInv
<1>2. PICK ds : Outcome(ds) /\ diagnostics = ds \cup Checks
  BY <1>1
<1>3. LET count == Len(targets)
          within == IF options.maximumSet THEN count <= options.maximum
                    ELSE count <= DefaultMaximum \/ options.allowLarge
      IN  Problem("BroadPlan", 0, 0) \notin diagnostics <=> within
  BY <1>1, <1>2, OutcomeSize
<1>4. ASSUME exit = 0
      PROVE  /\ \A t \in Elements(targets) :
                  LET s == SymbolOf(t.symbol) IN
                  /\ Len(s.contexts) = 1 \/ (s.contexts = <<>> /\ policy.mode = "root")
                  /\ options.strict => /\ IndexOf(t.symbol) \notin OnCycle
                                       /\ ~s.generated /\ ~s.testFile /\ ~s.manualSpan
                                       /\ s.contexts # <<>>
                  /\ \A a \in t.attributes :
                       MatchesAny(a, SecretPatterns \cup policy.deny) =>
                         a.classification = "secret" /\ a.allow
             /\ \A r \in Elements(policy.rules) : \E s \in Elements(symbols) : Denoted(s, r.match)
             /\ \A s \in Elements(symbols) : Wanted(s) => \E t \in Elements(targets) : t.symbol = s.id
             /\ policy.backendVersion = SupportedVersion
  <2>1. /\ InvalidSelectors = {} /\ BackendProblems = {}
        /\ \A d \in diagnostics : d.severity # "error" /\ (options.strict => d.severity # "warning")
        /\ \A s \in Elements(symbols) : Wanted(s) => Agreed(s)
    BY <1>1, <1>2, <1>4, OutcomeAccepted
  <2>2. /\ Elements(targets) =
             {Agreement(s) : s \in {s \in Elements(symbols) : Wanted(s) /\ Agreed(s)}}
        /\ \A r \in Elements(policy.rules) :
             (\A s \in Elements(symbols) : r \notin Touched(s))
               <=> Problem("UnresolvedSymbol", r.id, 0) \in ds
    BY <1>1, <1>2, <2>1, OutcomeTells
  <2>3. ASSUME NEW t \in Elements(targets)
        PROVE  LET s == SymbolOf(t.symbol) IN
                  /\ Len(s.contexts) = 1 \/ (s.contexts = <<>> /\ policy.mode = "root")
                  /\ options.strict => /\ IndexOf(t.symbol) \notin OnCycle
                                       /\ ~s.generated /\ ~s.testFile /\ ~s.manualSpan
                                       /\ s.contexts # <<>>
                  /\ \A a \in t.attributes :
                       MatchesAny(a, SecretPatterns \cup policy.deny) =>
                         a.classification = "secret" /\ a.allow
    <3>1. PICK o \in Elements(symbols) : Wanted(o) /\ Agreed(o) /\ t = Agreement(o)
      BY <2>2
    <3>2. t.symbol = o.id
      BY <1>1, <3>1, ChoiceIs
    <3>3. SymbolOf(t.symbol) = o
      BY <1>1, <3>2, SymbolFound
    <3>4. Len(o.contexts) = 1 \/ (o.contexts = <<>> /\ policy.mode = "root")
      BY <1>1, <3>1, AgreedContext
    <3>5. t.context # <<>> => o.contexts # <<>>
      BY <3>1 DEF Agreement, Target
    <3>6. TargetDiagnostics(t) \subseteq diagnostics
      BY <1>2 DEF Checks
    <3>7. /\ options.strict =>
               /\ IndexOf(t.symbol) \notin OnCycle
               /\ ~SymbolOf(t.symbol).generated /\ ~SymbolOf(t.symbol).testFile
               /\ ~SymbolOf(t.symbol).manualSpan
               /\ t.context # <<>>
          /\ \A a \in t.attributes :
               MatchesAny(a, SecretPatterns \cup policy.deny) => a.classification = "secret" /\ a.allow
      BY <1>1, <1>4, <2>1, <3>6, TargetAccepted
    <3> QED
      BY <3>3, <3>4, <3>5, <3>7
  <2>4. ASSUME NEW r \in Elements(policy.rules)
        PROVE  \E s \in Elements(symbols) : Denoted(s, r.match)
    <3>1. Problem("UnresolvedSymbol", r.id, 0).severity = "error"
      BY DEF Problem
    <3>2. Problem("UnresolvedSymbol", r.id, 0) \notin ds
      BY <1>2, <2>1, <3>1
    <3> QED
      BY <2>2, <3>2 DEF Touched
  <2>5. ASSUME NEW s \in Elements(symbols), Wanted(s)
        PROVE  \E t \in Elements(targets) : t.symbol = s.id
    <3>1. Agreement(s) \in Elements(targets)
      BY <2>1, <2>2, <2>5
    <3>2. Agreement(s).symbol = s.id
      BY <1>1, <2>5, ChoiceIs
    <3> QED
      BY <3>1, <3>2
  <2>6. policy.backendVersion = SupportedVersion
    BY <2>1 DEF BackendProblems
  <2> QED
    BY <2>3, <2>4, <2>5, <2>6
<1> QED
  BY <1>3, <1>4 DEF AcceptedOnlySafe

\* A policy command exits with 0 only if every target has its context and its
\* sensitive attributes acknowledged, every rule its symbols and every wanted
\* symbol its target, and under -strict none is recursive, generated, of a test or
\* manually traced; and planSizeDiagnostics refuses a plan exactly when it exceeds
\* the limit that binds it.
THEOREM AlwaysAcceptedOnlySafe == Spec => []AcceptedOnlySafe
<1>1. RecursionInv => RecursiveExactly
  BY RecursionTells
<1> QED
  BY <1>1, RecursionInit, RecursionNext, CommandInit, CommandNext, AcceptedTells, PTL DEF Spec

-----------------------------------------------------------------------------
(* The search for a field.  A layer holds the paths of its length that do  *)
(* not meet a type twice; a shortest path to a name does not, because what *)
(* lies between two meetings can be cut out.                               *)

\* The type before the next step of a path.
TypeAt(root, p, i) == IF i = 0 THEN root ELSE p[i].type

\* What fieldStruct looks at.
Shape(types, t) == IF t \in DOMAIN types /\ types[t].kind = "pointer" THEN types[t].element ELSE t

LEMMA StructIs ==
  ASSUME NEW types, NEW t, NEW f \in Struct(types, t)
  PROVE  /\ Shape(types, t) \in DOMAIN types /\ types[Shape(types, t)].kind = "struct"
         /\ f \in AllFields(types)
BY DEF Struct, Shape, AllFields

LEMMA SameStruct ==
  ASSUME NEW types, NEW t, NEW u, Shape(types, t) = Shape(types, u)
  PROVE  Struct(types, t) = Struct(types, u)
BY DEF Struct, Shape

\* A path of d embedded fields.
Walk(types, root, p, d) ==
  /\ p \in [1..d -> AllFields(types)]
  /\ \A i \in 1..d : /\ p[i].exported /\ p[i].embedded
                     /\ p[i] \in Struct(types, TypeAt(root, p, i - 1))
  /\ \A i, j \in 0..d - 1 : i < j => TypeAt(root, p, i) # TypeAt(root, p, j)

EntryOf(root, p, d) ==
  [type |-> TypeAt(root, p, d), path |-> p, visited |-> {TypeAt(root, p, j) : j \in 0..d - 1}]

Walks(types, root, d) ==
  {EntryOf(root, p, d) : p \in {p \in [1..d -> AllFields(types)] : Walk(types, root, p, d)}}

\* One field more.
LEMMA Longer ==
  ASSUME NEW types, NEW d \in Nat,
         NEW p \in [1..d -> AllFields(types)], NEW f \in AllFields(types)
  PROVE  /\ Append(p, f) \in [1..d + 1 -> AllFields(types)]
         /\ Append(p, f)[d + 1] = f
         /\ \A i \in 1..d : Append(p, f)[i] = p[i]
<1> DEFINE A == AllFields(types)
<1>1. p \in Seq(A) /\ Len(p) = d
  OBVIOUS
<1>2. /\ Append(p, f) \in Seq(A) /\ Len(Append(p, f)) = d + 1
      /\ \A i \in 1..d : Append(p, f)[i] = p[i]
      /\ Append(p, f)[d + 1] = f
  BY <1>1, AppendProperties
<1>3. Append(p, f) \in [1..d + 1 -> A]
  BY <1>2, LenProperties
<1> QED
  BY <1>2, <1>3

LEMMA LongerType ==
  ASSUME NEW types, NEW d \in Nat,
         NEW p \in [1..d -> AllFields(types)], NEW f \in AllFields(types),
         NEW root, NEW i \in 0..d
  PROVE  TypeAt(root, Append(p, f), i) = TypeAt(root, p, i)
<1>1. Append(p, f)[d + 1] = f /\ \A k \in 1..d : Append(p, f)[k] = p[k]
  BY Longer
<1>2. i # 0 => i \in 1..d
  OBVIOUS
<1> QED
  BY <1>1, <1>2 DEF TypeAt

LEMMA LongerEntry ==
  ASSUME NEW types, NEW d \in Nat,
         NEW p \in [1..d -> AllFields(types)], NEW f \in AllFields(types), NEW root
  PROVE  EntryOf(root, Append(p, f), d + 1) = Step(EntryOf(root, p, d), f)
<1>1. PICK q : q = Append(p, f)
  OBVIOUS
<1>2. q[d + 1] = f /\ \A i \in 1..d : q[i] = p[i]
  BY <1>1, Longer
<1>3. \A i \in 0..d : TypeAt(root, q, i) = TypeAt(root, p, i)
  BY <1>1, LongerType
<1>4. TypeAt(root, q, d + 1) = f.type
  <2>1. d + 1 # 0
    OBVIOUS
  <2> QED
    BY <1>2, <2>1 DEF TypeAt
<1> DEFINE U == {TypeAt(root, q, j) : j \in 0..d + 1 - 1}
           V == {TypeAt(root, p, j) : j \in 0..d - 1}
<1>5. U = V \cup {TypeAt(root, p, d)}
  <2>1. 0..d + 1 - 1 = (0..d - 1) \cup {d}
    OBVIOUS
  <2>2. \A j \in (0..d - 1) \cup {d} : TypeAt(root, q, j) = TypeAt(root, p, j)
    BY <1>3
  <2> QED
    BY <2>1, <2>2
<1>6. EntryOf(root, q, d + 1) = [type |-> TypeAt(root, q, d + 1), path |-> q, visited |-> U]
  BY DEF EntryOf
<1>7. EntryOf(root, p, d) = [type |-> TypeAt(root, p, d), path |-> p, visited |-> V]
  BY DEF EntryOf
<1> HIDE DEF U, V
<1>8. EntryOf(root, q, d + 1) = Step(EntryOf(root, p, d), f)
  <2>1. PICK e : e = EntryOf(root, p, d)
    OBVIOUS
  <2>2. e.type = TypeAt(root, p, d) /\ e.path = p /\ e.visited = V
    BY <1>7, <2>1
  <2>3. Step(e, f) = [type |-> f.type, path |-> Append(p, f), visited |-> V \cup {TypeAt(root, p, d)}]
    BY <2>2 DEF Step
  <2> QED
    BY <1>1, <1>4, <1>5, <1>6, <2>1, <2>3
<1> QED
  BY <1>1, <1>3, <1>8

\* Every path of d + 1 fields is one of d fields and a last one.
LEMMA Last ==
  ASSUME NEW types, NEW d \in Nat, NEW q \in [1..d + 1 -> AllFields(types)]
  PROVE  \E p \in [1..d -> AllFields(types)] :
           q[d + 1] \in AllFields(types) /\ q = Append(p, q[d + 1])
<1> DEFINE A == AllFields(types)
           p == [i \in 1..d |-> q[i]]
           f == q[d + 1]
<1>1. d + 1 \in 1..d + 1 /\ \A i \in 1..d : i \in 1..d + 1
  OBVIOUS
<1>2. p \in [1..d -> A] /\ f \in A /\ \A i \in 1..d : p[i] = q[i]
  BY <1>1
<1> HIDE DEF p
<1> HIDE DEF f
<1>3. /\ Append(p, f) \in [1..d + 1 -> A] /\ Append(p, f)[d + 1] = f
      /\ \A i \in 1..d : Append(p, f)[i] = p[i]
  BY <1>2, Longer
<1>4. \A i \in 1..d + 1 : i = d + 1 \/ i \in 1..d
  OBVIOUS
<1>5. \A i \in 1..d + 1 : Append(p, f)[i] = q[i]
  BY <1>2, <1>3, <1>4 DEF f
<1>6. Append(p, f) = q
  BY <1>3, <1>5
<1> QED
  BY <1>2, <1>6 DEF f

\* What a path of d + 1 fields has over its first d.
LEMMA WalkMore ==
  ASSUME NEW types, NEW root, NEW d \in Nat,
         NEW p \in [1..d -> AllFields(types)], NEW f \in AllFields(types)
  PROVE  Walk(types, root, Append(p, f), d + 1) <=>
           /\ Walk(types, root, p, d)
           /\ f \in ExportedFields(types, EntryOf(root, p, d)) /\ f.embedded
<1> DEFINE A == AllFields(types)
           t == TypeAt(root, p, d)
<1>1. PICK q : q = Append(p, f)
  OBVIOUS
<1>2. /\ q \in [1..d + 1 -> A] /\ q[d + 1] = f
      /\ \A i \in 1..d : q[i] = p[i]
      /\ \A i \in 0..d : TypeAt(root, q, i) = TypeAt(root, p, i)
  <2>1. /\ Append(p, f) \in [1..d + 1 -> A] /\ Append(p, f)[d + 1] = f
        /\ \A i \in 1..d : Append(p, f)[i] = p[i]
    BY Longer
  <2>2. \A i \in 0..d : TypeAt(root, Append(p, f), i) = TypeAt(root, p, i)
    BY LongerType
  <2> QED
    BY <1>1, <2>1, <2>2
<1>3. f \in ExportedFields(types, EntryOf(root, p, d)) <=>
        /\ f \in Struct(types, t) /\ f.exported
        /\ \A i \in 0..d - 1 : TypeAt(root, p, i) # t
  BY DEF ExportedFields, EntryOf
<1>4. (\A i \in 1..d + 1 : /\ q[i].exported /\ q[i].embedded
                           /\ q[i] \in Struct(types, TypeAt(root, q, i - 1)))
        <=> /\ \A i \in 1..d : /\ p[i].exported /\ p[i].embedded
                               /\ p[i] \in Struct(types, TypeAt(root, p, i - 1))
            /\ f.exported /\ f.embedded /\ f \in Struct(types, t)
  <2>1. 1..d + 1 = (1..d) \cup {d + 1} /\ d + 1 - 1 = d /\ d \in 0..d
    OBVIOUS
  <2>2. \A i \in 1..d : i - 1 \in 0..d
    OBVIOUS
  <2>3. \A i \in 1..d : TypeAt(root, q, i - 1) = TypeAt(root, p, i - 1)
    BY <1>2, <2>2
  <2>4. TypeAt(root, q, d + 1 - 1) = t
    BY <1>2, <2>1
  <2> QED
    BY <1>2, <2>1, <2>3, <2>4
<1>5. (\A i, j \in 0..d + 1 - 1 : i < j => TypeAt(root, q, i) # TypeAt(root, q, j))
        <=> /\ \A i, j \in 0..d - 1 : i < j => TypeAt(root, p, i) # TypeAt(root, p, j)
            /\ \A i \in 0..d - 1 : TypeAt(root, p, i) # t
  <2>1. (\A i, j \in 0..d + 1 - 1 : i < j => TypeAt(root, q, i) # TypeAt(root, q, j))
          <=> \A i, j \in 0..d : i < j => TypeAt(root, p, i) # TypeAt(root, p, j)
    <3>1. 0..d + 1 - 1 = 0..d
      OBVIOUS
    <3> QED
      BY <1>2, <3>1
  <2>2. /\ \A i, j \in 0..d : i < j => i \in 0..d - 1 /\ (j \in 0..d - 1 \/ j = d)
        /\ \A i \in 0..d - 1 : i \in 0..d /\ i < d
        /\ d \in 0..d
    OBVIOUS
  <2> QED
    BY <2>1, <2>2
<1> HIDE DEF t
<1>6. Walk(types, root, q, d + 1) <=>
        /\ \A i \in 1..d + 1 : /\ q[i].exported /\ q[i].embedded
                               /\ q[i] \in Struct(types, TypeAt(root, q, i - 1))
        /\ \A i, j \in 0..d + 1 - 1 : i < j => TypeAt(root, q, i) # TypeAt(root, q, j)
  BY <1>2 DEF Walk
<1>7. Walk(types, root, p, d) <=>
        /\ \A i \in 1..d : /\ p[i].exported /\ p[i].embedded
                           /\ p[i] \in Struct(types, TypeAt(root, p, i - 1))
        /\ \A i, j \in 0..d - 1 : i < j => TypeAt(root, p, i) # TypeAt(root, p, j)
  BY DEF Walk
<1>8. Walk(types, root, q, d + 1) <=>
           /\ Walk(types, root, p, d)
           /\ f \in ExportedFields(types, EntryOf(root, p, d)) /\ f.embedded
  BY <1>3, <1>4, <1>5, <1>6, <1>7
<1> QED
  BY <1>1, <1>8

\* The candidates after those of a layer.
After(types, entries) ==
  UNION {{Step(entry, f) : f \in {g \in ExportedFields(types, entry) : g.embedded}} :
           entry \in entries}

LEMMA WalksAfter ==
  ASSUME NEW types, NEW root, NEW d \in Nat
  PROVE  Walks(types, root, d + 1) = After(types, Walks(types, root, d))
<1> DEFINE A == AllFields(types)
<1>1. ASSUME NEW e \in Walks(types, root, d + 1) PROVE e \in After(types, Walks(types, root, d))
  <2>1. PICK q \in [1..d + 1 -> A] : Walk(types, root, q, d + 1) /\ e = EntryOf(root, q, d + 1)
    BY DEF Walks
  <2>2. PICK p \in [1..d -> A] : q[d + 1] \in A /\ q = Append(p, q[d + 1])
    BY Last
  <2>3. PICK f \in A : f = q[d + 1] /\ q = Append(p, f)
    BY <2>2
  <2>4. /\ Walk(types, root, p, d)
        /\ f \in ExportedFields(types, EntryOf(root, p, d)) /\ f.embedded
    BY <2>1, <2>3, WalkMore
  <2>5. EntryOf(root, Append(p, f), d + 1) = Step(EntryOf(root, p, d), f)
    BY LongerEntry
  <2>6. EntryOf(root, p, d) \in Walks(types, root, d)
    BY <2>4 DEF Walks
  <2> QED
    BY <2>1, <2>3, <2>4, <2>5, <2>6 DEF After
<1>2. ASSUME NEW e \in After(types, Walks(types, root, d)) PROVE e \in Walks(types, root, d + 1)
  <2>1. PICK n \in Walks(types, root, d) :
          \E f \in ExportedFields(types, n) : f.embedded /\ e = Step(n, f)
    BY DEF After
  <2>2. PICK f \in ExportedFields(types, n) : f.embedded /\ e = Step(n, f)
    BY <2>1
  <2>3. PICK p \in [1..d -> A] : Walk(types, root, p, d) /\ n = EntryOf(root, p, d)
    BY DEF Walks
  <2>4. f \in A
    BY StructIs DEF ExportedFields
  <2>5. Walk(types, root, Append(p, f), d + 1)
    BY <2>2, <2>3, <2>4, WalkMore
  <2>6. EntryOf(root, Append(p, f), d + 1) = Step(EntryOf(root, p, d), f)
    BY <2>4, LongerEntry
  <2>7. Append(p, f) \in [1..d + 1 -> A]
    BY <2>4, Longer
  <2> QED
    BY <2>2, <2>3, <2>5, <2>6, <2>7 DEF Walks
<1> QED
  BY <1>1, <1>2

\* The layers of lookupField.
Start(root) == [type |-> root, path |-> <<>>, visited |-> {}]

IsLayers(types, root, m) ==
  m = [depth \in Nat |-> IF depth = 0 THEN {Start(root)} ELSE After(types, m[depth - 1])]

LEMMA LayerIsLayers ==
  ASSUME NEW types, NEW root
  PROVE  Layer(types, root) = CHOOSE m : IsLayers(types, root, m)
BY DEF Layer, IsLayers, After, Start

LEMMA NoWalk ==
  ASSUME NEW types, NEW root
  PROVE  Walks(types, root, 0) = {Start(root)}
<1> DEFINE A == AllFields(types)
<1>1. 1..0 = {} /\ 0..0 - 1 = {}
  OBVIOUS
<1>2. <<>> \in [1..0 -> A] /\ \A p \in [1..0 -> A] : p = <<>>
  BY <1>1
<1>3. Walk(types, root, <<>>, 0)
  BY <1>1, <1>2 DEF Walk
<1>4. EntryOf(root, <<>>, 0) = Start(root)
  BY <1>1 DEF EntryOf, Start, TypeAt
<1> QED
  BY <1>2, <1>3, <1>4 DEF Walks

LEMMA LayersAreWalks ==
  ASSUME NEW types, NEW root, NEW m, IsLayers(types, root, m)
  PROVE  \A d \in Nat : m[d] = Walks(types, root, d)
<1> DEFINE D == {d \in Nat : m[d] # Walks(types, root, d)}
<1>1. /\ m[0] = {Start(root)}
      /\ \A d \in Nat : d # 0 => m[d] = After(types, m[d - 1])
  BY DEF IsLayers
<1>2. SUFFICES ASSUME D # {} PROVE FALSE
  OBVIOUS
<1>3. PICK d \in D : \A e \in D : d <= e
  <2>1. D \in SUBSET Nat
    OBVIOUS
  <2> HIDE DEF D
  <2> QED
    BY <1>2, <2>1, LeastNumber
<1>4. d \in Nat /\ d # 0 /\ m[d] # Walks(types, root, d)
  BY <1>1, NoWalk
<1>5. d - 1 \in Nat /\ d - 1 + 1 = d /\ ~(d <= d - 1)
  BY <1>4
<1>6. m[d - 1] = Walks(types, root, d - 1)
  BY <1>3, <1>5
<1>7. PICK c \in Nat : c = d - 1
  BY <1>5
<1>8. Walks(types, root, c + 1) = After(types, Walks(types, root, c))
  BY WalksAfter
<1> QED
  BY <1>1, <1>4, <1>5, <1>6, <1>7, <1>8

LEMMA LayerIs ==
  ASSUME NEW types, NEW root, NEW d \in Nat
  PROVE  Layer(types, root)[d] = Walks(types, root, d)
<1> DEFINE m == [depth \in Nat |-> Walks(types, root, depth)]
<1>1. \A depth \in Nat :
        m[depth] = IF depth = 0 THEN {Start(root)} ELSE After(types, m[depth - 1])
  <2> SUFFICES ASSUME NEW depth \in Nat
               PROVE  m[depth] = IF depth = 0 THEN {Start(root)} ELSE After(types, m[depth - 1])
    OBVIOUS
  <2>1. CASE depth = 0
    BY <2>1, NoWalk
  <2>2. CASE depth # 0
    <3>1. PICK c \in Nat : c = depth - 1 /\ depth = c + 1
      BY <2>2
    <3>2. Walks(types, root, c + 1) = After(types, Walks(types, root, c))
      BY WalksAfter
    <3>3. m[c] = Walks(types, root, c) /\ m[depth] = Walks(types, root, depth)
      OBVIOUS
    <3> HIDE DEF m
    <3> QED
      BY <2>2, <3>1, <3>2, <3>3
  <2> QED
    BY <2>1, <2>2
<1>2. \E layers : IsLayers(types, root, layers)
  <2>1. m = [depth \in Nat |-> m[depth]]
    OBVIOUS
  <2> HIDE DEF m
  <2>2. m = [depth \in Nat |-> IF depth = 0 THEN {Start(root)} ELSE After(types, m[depth - 1])]
    BY <1>1, <2>1
  <2> QED
    BY <2>2 DEF IsLayers
<1>3. PICK layers : layers = CHOOSE n : IsLayers(types, root, n)
  OBVIOUS
<1>4. IsLayers(types, root, layers)
  BY <1>2, <1>3
<1> QED
  BY <1>3, <1>4, LayerIsLayers, LayersAreWalks

\* The paths of n fields that denote a name.
PathsOf(types, root, name, n) ==
  {p \in [1..n -> AllFields(types)] : Denotes(types, root, p, name)}

\* No type is met twice.
Fresh(root, p, d) == \A i, j \in 0..d : i < j => TypeAt(root, p, i) # TypeAt(root, p, j)

\* q has n fields, each of the type before it, the last with the name.
HasLength(types, q, n) == q \in [1..n -> AllFields(types)]

Chain(types, root, q, name, n) ==
  /\ \A i \in 1..n : /\ q[i].exported /\ q[i] \in Struct(types, TypeAt(root, q, i - 1))
                     /\ i < n => q[i].embedded
  /\ q[n].name = name

LEMMA DenotesIs ==
  ASSUME NEW types, NEW root, NEW name, NEW n \in Nat \ {0}, NEW q, HasLength(types, q, n)
  PROVE  Denotes(types, root, q, name) <=> Chain(types, root, q, name, n)
<1> USE DEF HasLength
<1>1. q \in Seq(AllFields(types)) /\ Len(q) = n /\ DOMAIN q = 1..n
  OBVIOUS
<1>2. \A i \in 1..n : TypeAt(root, q, i - 1) = IF i = 1 THEN root ELSE q[i - 1].type
  BY DEF TypeAt
<1> QED
  BY <1>1, <1>2 DEF Denotes, Chain

LEMMA FoundIs ==
  ASSUME NEW types, NEW root, NEW name, NEW d \in Nat
  PROVE  Found(types, root, name, d) = {q \in PathsOf(types, root, name, d + 1) : Fresh(root, q, d)}
<1> DEFINE A == AllFields(types)
<1>1. Found(types, root, name, d) =
        UNION {{Step(entry, f).path : f \in {g \in ExportedFields(types, entry) : g.name = name}} :
                 entry \in Walks(types, root, d)}
  BY LayerIs DEF Found
<1>2. \A p, f : Step(EntryOf(root, p, d), f).path = Append(p, f)
  BY DEF Step, EntryOf
<1>3. ASSUME NEW p \in [1..d -> A], NEW f \in A
      PROVE  Walk(types, root, p, d) /\ f \in ExportedFields(types, EntryOf(root, p, d)) /\ f.name = name
               <=> Denotes(types, root, Append(p, f), name) /\ Fresh(root, Append(p, f), d)
  <2>1. PICK q : q = Append(p, f)
    OBVIOUS
  <2>2. /\ q \in [1..d + 1 -> A] /\ q[d + 1] = f
        /\ \A i \in 1..d : q[i] = p[i]
        /\ \A i \in 0..d : TypeAt(root, q, i) = TypeAt(root, p, i)
    <3>1. /\ Append(p, f) \in [1..d + 1 -> A] /\ Append(p, f)[d + 1] = f
          /\ \A i \in 1..d : Append(p, f)[i] = p[i]
      BY Longer
    <3>2. \A i \in 0..d : TypeAt(root, Append(p, f), i) = TypeAt(root, p, i)
      BY LongerType
    <3> QED
      BY <2>1, <3>1, <3>2
  <2>3. f \in ExportedFields(types, EntryOf(root, p, d)) <=>
          /\ f \in Struct(types, TypeAt(root, p, d)) /\ f.exported
          /\ \A i \in 0..d - 1 : TypeAt(root, p, i) # TypeAt(root, p, d)
    BY DEF ExportedFields, EntryOf
  <2>4. Denotes(types, root, q, name) <=>
          /\ \A i \in 1..d : /\ p[i].exported /\ p[i].embedded
                             /\ p[i] \in Struct(types, TypeAt(root, p, i - 1))
          /\ f.exported /\ f \in Struct(types, TypeAt(root, p, d)) /\ f.name = name
    <3>1. 1..d + 1 = (1..d) \cup {d + 1} /\ d + 1 - 1 = d /\ d \in 0..d
      OBVIOUS
    <3>2. \A i \in 1..d : i - 1 \in 0..d
      OBVIOUS
    <3>3. \A i \in 1..d : TypeAt(root, q, i - 1) = TypeAt(root, p, i - 1)
      BY <2>2, <3>2
    <3>4. TypeAt(root, q, d + 1 - 1) = TypeAt(root, p, d)
      BY <2>2, <3>1
    <3>5. Denotes(types, root, q, name) <=>
           /\ \A i \in 1..d + 1 : q[i].exported /\ q[i] \in Struct(types, TypeAt(root, q, i - 1))
           /\ \A i \in 1..d : q[i].embedded
           /\ q[d + 1].name = name
      <4>1. PICK n \in Nat \ {0} : n = d + 1
        OBVIOUS
      <4>2. HasLength(types, q, n)
        BY <2>2, <4>1 DEF HasLength
      <4>3. Denotes(types, root, q, name) <=> Chain(types, root, q, name, n)
        BY <4>2, DenotesIs
      <4>4. /\ \A i \in 1..n : i < n <=> i \in 1..d
            /\ \A i \in 1..d : i \in 1..n
        BY <4>1
      <4>5. Denotes(types, root, q, name) <=>
           /\ \A i \in 1..n : q[i].exported /\ q[i] \in Struct(types, TypeAt(root, q, i - 1))
           /\ \A i \in 1..d : q[i].embedded
           /\ q[n].name = name
        BY <4>3, <4>4 DEF Chain
      <4> QED
        BY <4>1, <4>5
    <3> QED
      BY <2>2, <3>1, <3>3, <3>4, <3>5
  <2>5. Fresh(root, q, d) <=>
          /\ \A i, j \in 0..d - 1 : i < j => TypeAt(root, p, i) # TypeAt(root, p, j)
          /\ \A i \in 0..d - 1 : TypeAt(root, p, i) # TypeAt(root, p, d)
    <3>1. Fresh(root, q, d) <=> \A i, j \in 0..d : i < j => TypeAt(root, p, i) # TypeAt(root, p, j)
      BY <2>2 DEF Fresh
    <3>2. /\ \A i, j \in 0..d : i < j => i \in 0..d - 1 /\ (j \in 0..d - 1 \/ j = d)
          /\ \A i \in 0..d - 1 : i \in 0..d /\ i < d
          /\ d \in 0..d
      OBVIOUS
    <3> QED
      BY <3>1, <3>2
  <2>6. Walk(types, root, p, d) <=>
          /\ \A i \in 1..d : /\ p[i].exported /\ p[i].embedded
                             /\ p[i] \in Struct(types, TypeAt(root, p, i - 1))
          /\ \A i, j \in 0..d - 1 : i < j => TypeAt(root, p, i) # TypeAt(root, p, j)
    BY DEF Walk
  <2> QED
    BY <2>1, <2>3, <2>4, <2>5, <2>6
<1>4. ASSUME NEW q \in Found(types, root, name, d)
      PROVE  q \in PathsOf(types, root, name, d + 1) /\ Fresh(root, q, d)
  <2>1. PICK n \in Walks(types, root, d) :
          \E f \in ExportedFields(types, n) : f.name = name /\ q = Step(n, f).path
    BY <1>1
  <2>2. PICK f \in ExportedFields(types, n) : f.name = name /\ q = Step(n, f).path
    BY <2>1
  <2>3. PICK p \in [1..d -> A] : Walk(types, root, p, d) /\ n = EntryOf(root, p, d)
    BY DEF Walks
  <2>4. f \in A
    BY StructIs DEF ExportedFields
  <2>5. q = Append(p, f) /\ q \in [1..d + 1 -> A]
    BY <1>2, <2>2, <2>3, <2>4, Longer
  <2> QED
    BY <1>3, <2>2, <2>3, <2>4, <2>5 DEF PathsOf
<1>5. ASSUME NEW q \in PathsOf(types, root, name, d + 1), Fresh(root, q, d)
      PROVE  q \in Found(types, root, name, d)
  <2>1. q \in [1..d + 1 -> A] /\ Denotes(types, root, q, name)
    BY DEF PathsOf
  <2>2. PICK p \in [1..d -> A] : q[d + 1] \in A /\ q = Append(p, q[d + 1])
    BY <2>1, Last
  <2>3. PICK f \in A : q = Append(p, f)
    BY <2>2
  <2>4. Walk(types, root, p, d) /\ f \in ExportedFields(types, EntryOf(root, p, d)) /\ f.name = name
    BY <1>3, <1>5, <2>1, <2>3
  <2>5. EntryOf(root, p, d) \in Walks(types, root, d)
    BY <2>4 DEF Walks
  <2>6. q = Step(EntryOf(root, p, d), f).path
    BY <1>2, <2>3
  <2> QED
    BY <1>1, <2>4, <2>5, <2>6
<1> QED
  BY <1>4, <1>5

\* A path that comes back to a shape is not a shortest one.
LEMMA Shorter ==
  ASSUME NEW types, NEW root, NEW name, NEW d \in Nat,
         NEW q \in PathsOf(types, root, name, d + 1),
         NEW i \in 0..d, NEW j \in 0..d, i < j,
         Shape(types, TypeAt(root, q, i)) = Shape(types, TypeAt(root, q, j))
  PROVE  \E e \in Nat : e < d /\ PathsOf(types, root, name, e + 1) # {}
<1> DEFINE A == AllFields(types)
           c == j - i
           e == d - c
           r == [k \in 1..e + 1 |-> IF k <= i THEN q[k] ELSE q[k + c]]
<1>1. c \in Nat /\ c >= 1 /\ e \in Nat /\ e < d /\ i <= e /\ j = i + c /\ e + c = d
  OBVIOUS
<1>2. /\ q \in [1..d + 1 -> A]
      /\ \A k \in 1..d + 1 : q[k].exported /\ q[k] \in Struct(types, TypeAt(root, q, k - 1))
      /\ \A k \in 1..d : q[k].embedded
      /\ q[d + 1].name = name
  <2>1. q \in [1..d + 1 -> AllFields(types)] /\ Denotes(types, root, q, name)
    BY DEF PathsOf
  <2>2. PICK n \in Nat \ {0} : n = d + 1
    OBVIOUS
  <2>3. HasLength(types, q, n)
    BY <2>1, <2>2 DEF HasLength
  <2>4. Chain(types, root, q, name, n)
    BY <2>1, <2>3, DenotesIs
  <2>5. \A k \in 1..d : k \in 1..n /\ k < n
    BY <2>2
  <2> QED
    BY <2>1, <2>2, <2>4, <2>5 DEF Chain
<1> HIDE DEF c, e
<1>3. \A k \in 1..e + 1 : k \in 1..d + 1 /\ k + c \in 1..d + 1
  BY <1>1
<1>4. r \in [1..e + 1 -> A]
  BY <1>2, <1>3
<1>5. \A k \in 1..e + 1 : r[k] = IF k <= i THEN q[k] ELSE q[k + c]
  OBVIOUS
<1> HIDE DEF r
<1>6. \A k \in 0..i : TypeAt(root, r, k) = TypeAt(root, q, k)
  <2>1. \A k \in 0..i : k # 0 => k \in 1..e + 1 /\ k <= i
    BY <1>1
  <2> QED
    BY <1>5, <2>1 DEF TypeAt
<1>7. \A k \in i + 1..e + 1 : TypeAt(root, r, k) = TypeAt(root, q, k + c)
  <2> SUFFICES ASSUME NEW k \in i + 1..e + 1 PROVE TypeAt(root, r, k) = TypeAt(root, q, k + c)
    OBVIOUS
  <2>1. k # 0 /\ k + c # 0 /\ k \in 1..e + 1 /\ ~(k <= i)
    BY <1>1
  <2> QED
    BY <1>5, <2>1 DEF TypeAt
<1>8. ASSUME NEW k \in 1..e + 1
      PROVE  r[k].exported /\ r[k] \in Struct(types, TypeAt(root, r, k - 1))
  <2>1. CASE k <= i
    <3>1. k - 1 \in 0..i /\ r[k] = q[k]
      BY <1>5, <2>1
    <3> QED
      BY <1>2, <1>3, <1>6, <3>1
  <2>2. CASE k = i + 1
    <3>1. r[k] = q[k + c] /\ k - 1 = i /\ k + c - 1 = j /\ i \in 0..i
      BY <1>1, <1>5, <2>2
    <3>2. Struct(types, TypeAt(root, q, i)) = Struct(types, TypeAt(root, q, j))
      BY SameStruct
    <3>3. q[k + c].exported /\ q[k + c] \in Struct(types, TypeAt(root, q, k + c - 1))
      <4>1. k + c \in 1..d + 1
        BY <1>3
      <4> QED
        BY <1>1, <1>2, <4>1
    <3>4. TypeAt(root, r, k - 1) = TypeAt(root, q, i)
      BY <1>6, <3>1
    <3> QED
      BY <3>1, <3>2, <3>3, <3>4
  <2>3. CASE k > i + 1
    <3>1. r[k] = q[k + c] /\ k - 1 \in i + 1..e + 1 /\ k - 1 + c = k + c - 1
      BY <1>1, <1>5, <2>3
    <3>2. TypeAt(root, r, k - 1) = TypeAt(root, q, k + c - 1)
      BY <1>7, <3>1
    <3>3. q[k + c].exported /\ q[k + c] \in Struct(types, TypeAt(root, q, k + c - 1))
      <4>1. k + c \in 1..d + 1
        BY <1>3
      <4> QED
        BY <1>1, <1>2, <4>1
    <3> QED
      BY <3>1, <3>2, <3>3
  <2> QED
    BY <2>1, <2>2, <2>3
<1>9. \A k \in 1..e : r[k].embedded
  <2> SUFFICES ASSUME NEW k \in 1..e PROVE r[k].embedded
    OBVIOUS
  <2>1. k \in 1..e + 1 /\ k \in 1..d /\ k + c \in 1..d
    BY <1>1
  <2> QED
    BY <1>2, <1>5, <2>1
<1>10. r[e + 1].name = name
  <2>1. e + 1 \in 1..e + 1 /\ ~(e + 1 <= i) /\ e + 1 + c = d + 1
    BY <1>1
  <2> QED
    BY <1>2, <1>5, <2>1
<1>11. Denotes(types, root, r, name)
  <2>1. PICK n \in Nat \ {0} : n = e + 1
    BY <1>1
  <2>2. HasLength(types, r, n)
    BY <1>4, <2>1 DEF HasLength
  <2>3. \A k \in 1..n : k < n => k \in 1..e
    BY <1>1, <2>1
  <2>4. Chain(types, root, r, name, n)
    BY <1>8, <1>9, <1>10, <2>1, <2>3 DEF Chain
  <2> QED
    BY <2>2, <2>4, DenotesIs
<1>12. r \in PathsOf(types, root, name, e + 1)
  BY <1>4, <1>11 DEF PathsOf
<1> QED
  BY <1>1, <1>12

-----------------------------------------------------------------------------
\* d + 1 is the length of the shortest paths to the name.
Shortest(types, root, name, d) ==
  /\ PathsOf(types, root, name, d + 1) # {}
  /\ \A e \in Nat : e < d => PathsOf(types, root, name, e + 1) = {}

Structs(types) == {t \in DOMAIN types : types[t].kind = "struct"}

LEMMA ShortestShapes ==
  ASSUME NEW types, NEW root, NEW name, NEW d \in Nat, Shortest(types, root, name, d),
         NEW q \in PathsOf(types, root, name, d + 1),
         NEW i \in 0..d, NEW j \in 0..d, i < j
  PROVE  Shape(types, TypeAt(root, q, i)) # Shape(types, TypeAt(root, q, j))
<1> SUFFICES ASSUME Shape(types, TypeAt(root, q, i)) = Shape(types, TypeAt(root, q, j)) PROVE FALSE
  OBVIOUS
<1>1. \E e \in Nat : e < d /\ PathsOf(types, root, name, e + 1) # {}
  BY Shorter
<1> QED
  BY <1>1 DEF Shortest

LEMMA ShortestFresh ==
  ASSUME NEW types, NEW root, NEW name, NEW d \in Nat, Shortest(types, root, name, d),
         NEW q \in PathsOf(types, root, name, d + 1)
  PROVE  Fresh(root, q, d)
<1> SUFFICES ASSUME NEW i \in 0..d, NEW j \in 0..d, i < j
             PROVE  TypeAt(root, q, i) # TypeAt(root, q, j)
  BY DEF Fresh
<1>1. Shape(types, TypeAt(root, q, i)) # Shape(types, TypeAt(root, q, j))
  BY ShortestShapes
<1> QED
  BY <1>1

\* There are as many structs as a shortest path has fields.
LEMMA ShortestBound ==
  ASSUME NEW types, IsFiniteSet(DOMAIN types), NEW root, NEW name, NEW d \in Nat,
         Shortest(types, root, name, d)
  PROVE  /\ Cardinality(Structs(types)) \in Nat /\ Cardinality(DOMAIN types) \in Nat
         /\ d + 1 <= Cardinality(Structs(types))
         /\ d + 1 <= Cardinality(DOMAIN types)
<1>1. PICK q : q \in PathsOf(types, root, name, d + 1)
  BY DEF Shortest
<1>2. PICK n \in Nat \ {0} : n = d + 1
  OBVIOUS
<1>3. HasLength(types, q, n) /\ Denotes(types, root, q, name)
  BY <1>1, <1>2 DEF PathsOf, HasLength
<1>4. Chain(types, root, q, name, n)
  BY <1>3, DenotesIs
<1> DEFINE f == [i \in 0..d |-> Shape(types, TypeAt(root, q, i))]
<1>5. ASSUME NEW i \in 0..d PROVE Shape(types, TypeAt(root, q, i)) \in Structs(types)
  <2>1. PICK k \in 1..n : i = k - 1
    <3>1. i + 1 \in 1..n /\ i = i + 1 - 1
      BY <1>2
    <3> QED
      BY <3>1
  <2>2. q[k] \in Struct(types, TypeAt(root, q, k - 1))
    BY <1>4 DEF Chain
  <2> QED
    BY <2>1, <2>2, StructIs DEF Structs
<1>6. \A i, j \in 0..d : f[i] = f[j] => i = j
  <2> SUFFICES ASSUME NEW i \in 0..d, NEW j \in 0..d, i # j PROVE f[i] # f[j]
    OBVIOUS
  <2>1. CASE i < j
    BY <1>1, <2>1, ShortestShapes
  <2>2. CASE j < i
    BY <1>1, <2>2, ShortestShapes
  <2> QED
    BY <2>1, <2>2
<1>7. f \in [0..d -> Structs(types)]
  BY <1>5
<1> HIDE DEF f
<1>8. f \in Injection(0..d, Structs(types))
  BY <1>6, <1>7 DEF Injection, IsInjective
<1>9. Structs(types) \in SUBSET DOMAIN types
  BY DEF Structs
<1>10. IsFiniteSet(Structs(types)) /\ Cardinality(Structs(types)) <= Cardinality(DOMAIN types)
  BY <1>9, FS_Subset
<1>11. Cardinality(Structs(types)) \in Nat /\ Cardinality(DOMAIN types) \in Nat
  BY <1>10, FS_CardinalityType
<1>12. Cardinality(0..d) <= Cardinality(Structs(types))
  BY <1>8, <1>10, FS_Injection
<1>13. Cardinality(0..d) = d + 1
  <2>1. Cardinality(0..d) = IF 0 > d THEN 0 ELSE d - 0 + 1
    BY FS_Interval
  <2> QED
    BY <2>1
<1> QED
  BY <1>10, <1>11, <1>12, <1>13

\* The search and the rule look at the same paths.
LEMMA LookupNothing ==
  ASSUME NEW types, NEW root, NEW name, IsFiniteSet(DOMAIN types),
         \A d \in Nat : PathsOf(types, root, name, d + 1) = {}
  PROVE  FieldType(types, root, name) = Unreadable /\ SelectorType(types, root, name) = Unreadable
<1>1. \A d \in Nat : Found(types, root, name, d) = {}
  BY FoundIs
<1>2. LookupField(types, root, name) = {}
  BY <1>1 DEF LookupField
<1>3. FieldType(types, root, name) = Unreadable
  BY <1>2 DEF FieldType, Unambiguous
<1>4. ASSUME NEW n \in Nat \ {0}
      PROVE  {p \in [1..n -> AllFields(types)] : Denotes(types, root, p, name)} = {}
  <2>1. PICK d \in Nat : n = d + 1
    <3>1. n - 1 \in Nat /\ n = n - 1 + 1
      OBVIOUS
    <3> QED
      BY <3>1
  <2> QED
    BY <2>1 DEF PathsOf
<1>5. Structs(types) \in SUBSET DOMAIN types
  BY DEF Structs
<1>6. Cardinality(Structs(types)) \in Nat
  BY <1>5, FS_Subset, FS_CardinalityType
<1>7. {n \in 1..Cardinality(Structs(types)) :
         {p \in [1..n -> AllFields(types)] : Denotes(types, root, p, name)} # {}} = {}
  BY <1>4, <1>6
<1>8. SelectorType(types, root, name) = Unreadable
  BY <1>7 DEF SelectorType, Structs
<1> QED
  BY <1>3, <1>8

LEMMA LookupShortest ==
  ASSUME NEW types, IsFiniteSet(DOMAIN types), NEW root, NEW name, NEW d \in Nat,
         Shortest(types, root, name, d)
  PROVE  LookupField(types, root, name) = PathsOf(types, root, name, d + 1)
<1>1. Found(types, root, name, d) = PathsOf(types, root, name, d + 1)
  BY FoundIs, ShortestFresh
<1>2. \A e \in Nat : e < d => Found(types, root, name, e) = {}
  BY FoundIs DEF Shortest
<1>3. Found(types, root, name, d) # {}
  BY <1>1 DEF Shortest
<1>4. d \in 0..Cardinality(DOMAIN types)
  BY ShortestBound
<1> DEFINE D == {e \in 0..Cardinality(DOMAIN types) : Found(types, root, name, e) # {}}
<1>5. d \in D /\ \A e \in D : e \in Nat /\ d <= e
  BY <1>2, <1>3, <1>4
<1> HIDE DEF D
<1>6. (CHOOSE e \in D : \A g \in D : e <= g) = d
  <2>1. \A e \in D : (\A g \in D : e <= g) => e = d
    BY <1>5
  <2> QED
    BY <1>5, <2>1
<1>7. D # {}
  BY <1>5
<1>8. LookupField(types, root, name) =
        IF D = {} THEN {}
        ELSE Found(types, root, name, CHOOSE e \in D : \A g \in D : e <= g)
  BY DEF LookupField, D
<1> QED
  BY <1>1, <1>6, <1>7, <1>8

LEMMA SelectorShortest ==
  ASSUME NEW types, IsFiniteSet(DOMAIN types), NEW root, NEW name, NEW d \in Nat,
         Shortest(types, root, name, d)
  PROVE  SelectorType(types, root, name) =
           IF Unambiguous(PathsOf(types, root, name, d + 1))
           THEN TypeBehind(PathsOf(types, root, name, d + 1)) ELSE Unreadable
<1> DEFINE D == {n \in 1..Cardinality(Structs(types)) : PathsOf(types, root, name, n) # {}}
<1>1. d + 1 \in 1..Cardinality(Structs(types))
  BY ShortestBound
<1>2. \A n \in D : n \in Nat /\ d + 1 <= n
  <2> SUFFICES ASSUME NEW n \in D, ~(d + 1 <= n) PROVE FALSE
    BY ShortestBound
  <2>1. n \in Nat /\ n # 0 /\ PathsOf(types, root, name, n) # {}
    BY ShortestBound
  <2>2. PICK e \in Nat : n = e + 1
    <3>1. n - 1 \in Nat /\ n = n - 1 + 1
      BY <2>1
    <3> QED
      BY <3>1
  <2>3. e < d
    BY <2>2
  <2> QED
    BY <2>1, <2>2, <2>3 DEF Shortest
<1>3. d + 1 \in D
  BY <1>1 DEF Shortest
<1>4. SelectorType(types, root, name) =
        LET shallowest == CHOOSE n \in D : \A m \in D : n <= m
        IN  IF D = {} \/ ~Unambiguous(PathsOf(types, root, name, shallowest)) THEN Unreadable
            ELSE TypeBehind(PathsOf(types, root, name, shallowest))
  BY DEF SelectorType, PathsOf, Structs
<1> HIDE DEF D
<1>5. (CHOOSE n \in D : \A m \in D : n <= m) = d + 1
  <2>1. \A n \in D : (\A m \in D : n <= m) => n = d + 1
    BY <1>2, <1>3
  <2> QED
    BY <1>2, <1>3, <2>1
<1>6. D # {}
  BY <1>3
<1> QED
  BY <1>4, <1>5, <1>6

\* Whatever the types, in cycles or not, lookupField finds the field that the rule
\* of Go for selectors denotes, and none where that denotes none or is ambiguous, as
\* long as only exported fields and exported embedded structs are looked at, and no
\* methods: it neither stops too early nor loses a field where it drops a path that
\* meets a type again.
THEOREM FieldTypeIs ==
  ASSUME NEW types, IsFiniteSet(DOMAIN types), NEW root, NEW name
  PROVE  FieldType(types, root, name) = SelectorType(types, root, name)
<1> DEFINE D == {d \in Nat : PathsOf(types, root, name, d + 1) # {}}
<1>1. CASE D = {}
  <2>1. \A d \in Nat : PathsOf(types, root, name, d + 1) = {}
    BY <1>1
  <2> QED
    BY <2>1, LookupNothing
<1>2. CASE D # {}
  <2>1. PICK d \in D : \A e \in D : d <= e
    <3>1. D \in SUBSET Nat
      OBVIOUS
    <3> HIDE DEF D
    <3> QED
      BY <1>2, <3>1, LeastNumber
  <2>2. d \in Nat /\ Shortest(types, root, name, d)
    BY <2>1 DEF Shortest
  <2>3. LookupField(types, root, name) = PathsOf(types, root, name, d + 1)
    BY <2>2, LookupShortest
  <2>4. SelectorType(types, root, name) =
           IF Unambiguous(PathsOf(types, root, name, d + 1))
           THEN TypeBehind(PathsOf(types, root, name, d + 1)) ELSE Unreadable
    BY <2>2, SelectorShortest
  <2> QED
    BY <2>3, <2>4 DEF FieldType
<1> QED
  BY <1>1, <1>2

\* lookupField ends: whatever embeds whatever, there is nothing left to look at after
\* as many layers as there are types, so that bounding the search by their number, as
\* LookupField does, loses nothing.
THEOREM LayersEnd ==
  ASSUME NEW types, IsFiniteSet(DOMAIN types), NEW root, NEW d \in Nat,
         d > Cardinality(DOMAIN types)
  PROVE  Layer(types, root)[d] = {}
<1>1. SUFFICES ASSUME NEW p \in [1..d -> AllFields(types)], Walk(types, root, p, d) PROVE FALSE
  BY LayerIs DEF Walks
<1> DEFINE f == [i \in 0..d - 1 |-> TypeAt(root, p, i)]
<1>2. ASSUME NEW i \in 0..d - 1 PROVE TypeAt(root, p, i) \in DOMAIN types
  <2>1. PICK k \in 1..d : i = k - 1
    <3>1. i + 1 \in 1..d /\ i = i + 1 - 1
      OBVIOUS
    <3> QED
      BY <3>1
  <2>2. Struct(types, TypeAt(root, p, k - 1)) # {}
    BY <1>1 DEF Walk
  <2> QED
    BY <2>1, <2>2 DEF Struct
<1>3. \A i, j \in 0..d - 1 : f[i] = f[j] => i = j
  <2> SUFFICES ASSUME NEW i \in 0..d - 1, NEW j \in 0..d - 1, i # j PROVE f[i] # f[j]
    OBVIOUS
  <2>1. i < j \/ j < i
    OBVIOUS
  <2>2. \A k, l \in 0..d - 1 : k < l => TypeAt(root, p, k) # TypeAt(root, p, l)
    BY <1>1 DEF Walk
  <2> QED
    BY <2>1, <2>2
<1>4. f \in [0..d - 1 -> DOMAIN types]
  BY <1>2
<1> HIDE DEF f
<1>5. f \in Injection(0..d - 1, DOMAIN types)
  BY <1>3, <1>4 DEF Injection, IsInjective
<1>6. Cardinality(0..d - 1) <= Cardinality(DOMAIN types)
  BY <1>5, FS_Injection
<1>7. Cardinality(DOMAIN types) \in Nat
  BY FS_CardinalityType
<1>8. Cardinality(0..d - 1) = d
  <2>1. PICK e \in Int : e = d - 1
    OBVIOUS
  <2>2. Cardinality(0..e) = IF 0 > e THEN 0 ELSE e - 0 + 1
    BY FS_Interval
  <2> QED
    BY <1>7, <2>1, <2>2
<1> QED
  BY <1>6, <1>7, <1>8

-----------------------------------------------------------------------------
\* A dotted path leads where the rule of Go for selectors leads.
LEMMA ResolveIs ==
  ASSUME IsFiniteSet(DOMAIN project.types), NEW root, NEW names
  PROVE  Resolve(project.types, root, names) = SelectedType(root, names)
<1> DEFINE F(at) == [i \in 0..Len(names) |->
                       IF i = 0 THEN root
                       ELSE IF at[i - 1] = Unreadable THEN Unreadable
                       ELSE FieldType(project.types, at[i - 1], names[i])]
           G(at) == [i \in 0..Len(names) |->
                       IF i = 0 THEN root
                       ELSE IF at[i - 1] = Unreadable THEN Unreadable
                       ELSE SelectorType(project.types, at[i - 1], names[i])]
<1>1. \A at : F(at) = G(at)
  BY FieldTypeIs
<1>2. Resolve(project.types, root, names) = (CHOOSE at : at = F(at))[Len(names)]
  BY DEF Resolve
<1>3. SelectedType(root, names) = (CHOOSE at : at = G(at))[Len(names)]
  BY DEF SelectedType
<1> HIDE DEF F, G
<1>4. (CHOOSE at : at = F(at)) = (CHOOSE at : at = G(at))
  BY <1>1, Zenon
<1> QED
  BY <1>2, <1>3, <1>4

\* An attribute with a path has no other source.
LEMMA PathAlone ==
  ASSUME NEW from, SourceCount(from) = 1, Path(from) # <<>>
  PROVE  /\ from.argument # <<>> \/ from.result # <<>>
         /\ from.constant = {} /\ from.symbol = "" /\ from.errorType = ""
<1> DEFINE A == {f \in {"argument", "result"} : from[f] # <<>>}
           B == {f \in {"symbol", "errorType"} : from[f] # ""}
<1>1. from.argument # <<>> \/ from.result # <<>>
  BY DEF Path
<1>2. IsFiniteSet({"argument", "result"}) /\ IsFiniteSet({"symbol", "errorType"})
  <2>1. \A x, y : IsFiniteSet({x} \cup {y})
    BY FS_Singleton, FS_AddElement
  <2>2. \A x, y : IsFiniteSet({x, y})
    <3> SUFFICES ASSUME NEW x, NEW y PROVE IsFiniteSet({x, y})
      OBVIOUS
    <3>1. {x} \cup {y} = {x, y}
      OBVIOUS
    <3>2. IsFiniteSet({x} \cup {y})
      BY <2>1
    <3> QED
      BY <3>1, <3>2
  <2> QED
    BY <2>2
<1>3. A \in SUBSET {"argument", "result"} /\ B \in SUBSET {"symbol", "errorType"}
  OBVIOUS
<1>4. A # {}
  BY <1>1
<1>5. B = {} => from.symbol = "" /\ from.errorType = ""
  OBVIOUS
<1>6. Cardinality(A) + (IF from.constant # {} THEN 1 ELSE 0) + Cardinality(B) = 1
  BY DEF SourceCount
<1> HIDE DEF A, B
<1>7. IsFiniteSet(A) /\ IsFiniteSet(B)
  BY <1>2, <1>3, FS_Subset
<1>8. Cardinality(A) \in Nat /\ Cardinality(B) \in Nat
  BY <1>7, FS_CardinalityType
<1>9. Cardinality(A) # 0 /\ (Cardinality(B) = 0 => B = {})
  BY <1>4, <1>7, FS_EmptySet
<1>10. Cardinality(B) = 0 /\ from.constant = {}
  BY <1>6, <1>8, <1>9
<1> QED
  BY <1>1, <1>5, <1>9, <1>10

LEMMA ReadableIs ==
  ASSUME IsFiniteSet(DOMAIN project.types), NEW s, NEW a, SourceCount(a.from) = 1
  PROVE  Readable(s, a) <=> Accessible(project.types, s, a)
<1> DEFINE from  == a.from
           index == SourceIndex(Values(s, from), Path(from)[1])
           root  == Values(s, from)[index].type
           type  == SelectedType(root, Tail(Path(from)))
<1>1. CASE Path(from) = <<>> \/ a.stringer \/ index = 0
  BY <1>1 DEF Readable
<1>2. CASE ~(Path(from) = <<>> \/ a.stringer \/ index = 0)
  <2>1. /\ from.argument # <<>> \/ from.result # <<>>
        /\ from.constant = {} /\ from.symbol = "" /\ from.errorType = ""
    BY <1>2, PathAlone
  <2>2. Accessible(project.types, s, a) <=> ValueReadable(project.types, s, a)
    BY <1>2, <2>1 DEF Accessible
  <2>3. Resolve(project.types, root, Tail(Path(from))) = type
    BY ResolveIs
  <2>4. ValueReadable(project.types, s, a) <=>
          type \in DOMAIN project.types /\ project.types[type].kind \in Scalars
    BY <1>2, <2>3 DEF ValueReadable
  <2>5. Readable(s, a) <=> type \in DOMAIN project.types /\ project.types[type].kind \in Scalars
    BY <1>2 DEF Readable
  <2> QED
    BY <2>2, <2>4, <2>5
<1> QED
  BY <1>1, <1>2

-----------------------------------------------------------------------------
\* A target comes from a rule of the policy.
LEMMA AgreementRule ==
  ASSUME Given, NEW s \in Elements(symbols), Wanted(s)
  PROVE  \E r \in Elements(policy.rules) : Agreement(s) = Target(r, s)
<1> DEFINE I == {r.id : r \in Applicable(s)}
<1>1. Applicable(s) \subseteq Elements(policy.rules) /\ Applicable(s) # {}
  BY DEF Applicable, Wanted
<1>2. \A r \in Elements(policy.rules) : r.id \in Nat
  BY GivenIs DEF Decoded
<1>3. I \in SUBSET Nat /\ I # {}
  BY <1>1, <1>2
<1>4. PICK i \in I : \A j \in I : i <= j
  <2> HIDE DEF I
  <2> QED
    BY <1>3, LeastNumber
<1>5. \E r \in Applicable(s) : \A o \in Applicable(s) : r.id <= o.id
  BY <1>4
<1> DEFINE r == CHOOSE r \in Applicable(s) : \A o \in Applicable(s) : r.id <= o.id
<1>6. r \in Applicable(s)
  BY <1>5
<1>7. Agreement(s) = Target(r, s)
  BY DEF Agreement
<1> QED
  BY <1>1, <1>6, <1>7

LEMMA TargetsAre ==
  ASSUME Given, ValidPolicy(policy), NEW ds, Outcome(ds), NEW t \in Elements(targets)
  PROVE  /\ InvalidSelectors = {}
         /\ \E s \in Elements(symbols) : Wanted(s) /\ t = Agreement(s) /\ t.symbol = s.id
<1>1. InvalidSelectors = {}
  <2>1. targets # <<>>
    BY DEF Elements
  <2> QED
    BY <2>1 DEF Outcome
<1>2. PICK s \in Elements(symbols) : Wanted(s) /\ t = Agreement(s)
  BY <1>1, OutcomeTells
<1>3. t.symbol = s.id
  BY <1>2, ChoiceIs
<1> QED
  BY <1>1, <1>2, <1>3

LEMMA CaptureFromTarget ==
  ASSUME NEW t, NEW u
  PROVE  Problem("CaptureNotAllowed", t.rule, t.symbol) \in TargetDiagnostics(u) <=>
           /\ u.rule = t.rule /\ u.symbol = t.symbol
           /\ \E a \in u.attributes : ~Accessible(project.types, SymbolOf(u.symbol), a)
<1> DEFINE P == Problem("CaptureNotAllowed", t.rule, t.symbol)
           C == UNION {AttributeErrors(project.types, SymbolOf(u.symbol), a, policy.deny) :
                         a \in u.attributes}
<1>1. \A c, r, s : Warning(c, r, s) # P
  <2>1. \A c, r, s : Warning(c, r, s).severity = "warning"
    BY DEF Warning
  <2>2. P.severity = "error"
    BY DEF Problem
  <2> QED
    BY <2>1, <2>2
<1>2. \A c : Problem(c, u.rule, u.symbol) = P <=>
               c = "CaptureNotAllowed" /\ u.rule = t.rule /\ u.symbol = t.symbol
  BY DEF Problem
<1>3. "CaptureNotAllowed" \in C <=>
        \E a \in u.attributes : ~Accessible(project.types, SymbolOf(u.symbol), a)
  <2>1. \A a : "CaptureNotAllowed" \in AttributeErrors(project.types, SymbolOf(u.symbol), a, policy.deny)
                 <=> ~Accessible(project.types, SymbolOf(u.symbol), a)
    BY DEF AttributeErrors
  <2> QED
    BY <2>1
<1> HIDE DEF P
<1>4. P \in TargetDiagnostics(u) <=> \E c \in C : P = Problem(c, u.rule, u.symbol)
  BY <1>1 DEF TargetDiagnostics
<1> HIDE DEF C
<1>5. P \in TargetDiagnostics(u) <=>
        "CaptureNotAllowed" \in C /\ u.rule = t.rule /\ u.symbol = t.symbol
  BY <1>2, <1>4
<1> QED
  BY <1>3, <1>5 DEF P

\* The attributes that cannot be read are the ones reported.
LEMMA CaptureTells ==
  ASSUME Given, ValidPolicy(policy), NEW ds, Outcome(ds), diagnostics = ds \cup Checks,
         NEW t \in Elements(targets)
  PROVE  Problem("CaptureNotAllowed", t.rule, t.symbol) \in diagnostics
           <=> \E a \in t.attributes : ~Accessible(project.types, SymbolOf(t.symbol), a)
<1> DEFINE P == Problem("CaptureNotAllowed", t.rule, t.symbol)
<1>1. P.code = "CaptureNotAllowed"
  BY DEF Problem
<1>2. PICK s \in Elements(symbols) : t = Agreement(s) /\ t.symbol = s.id
  BY TargetsAre
<1>3. P \notin ds
  <2>1. \A d \in ds : d.code \in ResolutionCodes \cup {"UnresolvedSymbol", "RuleFullyExcluded"}
    BY OutcomeTells, TargetsAre
  <2> QED
    BY <1>1, <2>1 DEF ResolutionCodes
<1>4. P \notin PlanSize(Len(targets))
  <2>1. \A d \in PlanSize(Len(targets)) : d.code = "BroadPlan"
    BY DEF PlanSize, When, Problem, Warning
  <2> QED
    BY <1>1, <2>1
<1>5. P \notin BackendProblems
  BY <1>1 DEF BackendProblems, Problem
<1>6. ASSUME NEW u \in Elements(targets), u.symbol = t.symbol PROVE u = t
  <2>1. PICK o \in Elements(symbols) : u = Agreement(o) /\ u.symbol = o.id
    BY TargetsAre
  <2>2. o = s
    BY <1>2, <1>6, <2>1, SymbolFound
  <2> QED
    BY <1>2, <2>1, <2>2
<1> HIDE DEF P
<1>7. P \in diagnostics <=> \E u \in Elements(targets) : P \in TargetDiagnostics(u)
  BY <1>3, <1>4, <1>5 DEF Checks
<1>8. P \in diagnostics <=> P \in TargetDiagnostics(t)
  BY <1>6, <1>7, CaptureFromTarget DEF P
<1> QED
  BY <1>8, CaptureFromTarget DEF P

LEMMA LookupTells == CommandInv => LookupIsSelector
<1> SUFFICES ASSUME CommandInv, exit \in {0, 5, 7}, NEW t \in Elements(targets)
             PROVE  Problem("CaptureNotAllowed", t.rule, t.symbol) \in diagnostics
                      <=> \E a \in t.attributes : ~Readable(SymbolOf(t.symbol), a)
  BY DEF LookupIsSelector
<1>1. Given /\ ValidPolicy(policy) /\ \E ds : Outcome(ds) /\ diagnostics = ds \cup Checks
  BY DEF CommandInv, PolicyInv, OutcomeInv
<1>2. PICK ds : Outcome(ds) /\ diagnostics = ds \cup Checks
  BY <1>1
<1>3. IsFiniteSet(DOMAIN project.types)
  BY <1>1, GivenIs DEF Discovered
<1>4. PICK s \in Elements(symbols) : Wanted(s) /\ t = Agreement(s) /\ t.symbol = s.id
  BY <1>1, <1>2, TargetsAre
<1>5. PICK r \in Elements(policy.rules) : t = Target(r, s)
  BY <1>1, <1>4, AgreementRule
<1>6. ASSUME NEW a \in t.attributes PROVE SourceCount(a.from) = 1
  <2>1. a \in Elements(r.attributes)
    BY <1>5 DEF Target
  <2>2. ValidRule(r)
    BY <1>1 DEF ValidPolicy, Elements
  <2> QED
    BY <2>1, <2>2 DEF ValidRule, ValidAttribute, Elements
<1>7. \A a \in t.attributes :
        Readable(SymbolOf(t.symbol), a) <=> Accessible(project.types, SymbolOf(t.symbol), a)
  BY <1>3, <1>6, ReadableIs
<1>8. Problem("CaptureNotAllowed", t.rule, t.symbol) \in diagnostics
        <=> \E a \in t.attributes : ~Accessible(project.types, SymbolOf(t.symbol), a)
  BY <1>1, <1>2, CaptureTells
<1> QED
  BY <1>7, <1>8

\* An attribute of a target with a dotted path is reported exactly when the path,
\* read with the rule of Go for selectors over exported fields and exported embedded
\* structs alone, does not end in one scalar, whatever the types are: the layers of
\* lookupField meet every shortest path, although they cut a path short where it
\* meets a type twice.
THEOREM AlwaysLookupIsSelector == Spec => []LookupIsSelector
BY CommandInit, CommandNext, LookupTells, PTL DEF Spec

=============================================================================
