------------------------- MODULE ImportApply_proofs -------------------------
(***************************************************************************)
(* What an import promises, for any nodes, limits and number of applies:   *)
(* placement gives every node one place, which it shares only where all    *)
(* the numbers are taken; the applies keep one live page at a path, and    *)
(* none makes the page of a node twice while the reviewer leaves the items *)
(* where they were placed.                                                 *)
(***************************************************************************)
EXTENDS ImportApply, FiniteSetTheorems, WellFoundedInduction, TLAPS

----------------------------------------------------------------------------
(* Least and greatest elements, and induction over a set of numbers.       *)
LEMMA LeastOf ==
  ASSUME NEW S \in SUBSET Nat, S # {}
  PROVE  Min(S) \in S /\ \A m \in S : Min(S) =< m
<1>1. PICK x \in S : \A y \in S : ~(<<y, x>> \in OpToRel(<, Nat))
  BY NatLessThanWellFounded, WFMin
<1>2. \A y \in S : ~(y < x)
  BY <1>1 DEF OpToRel
<1>3. \A y \in S : x =< y
  BY <1>2
<1>. QED
  BY <1>3 DEF Min

LEMMA GreatestOf ==
  ASSUME NEW n \in Nat, NEW S \in SUBSET (0 .. n), S # {}
  PROVE  Max(S) \in S /\ \A m \in S : m =< Max(S)
<1> DEFINE T == {n - m : m \in S}
<1>0. S # {} /\ \A m \in S : m \in Nat /\ n - m \in Nat
  OBVIOUS
<1>1. T \in SUBSET Nat /\ T # {}
  BY <1>0
<1>2. Min(T) \in T /\ \A y \in T : Min(T) =< y
  BY <1>1, LeastOf
<1>4. PICK k \in S : Min(T) = n - k
  BY <1>2
<1>5. ASSUME NEW m \in S PROVE m =< k
  <2>1. n - k =< n - m
    BY <1>2, <1>4
  <2>. QED
    BY <2>1
<1>. QED
  BY <1>0, <1>4, <1>5 DEF Max

LEMMA AllNumbers ==
  ASSUME NEW n \in Nat, NEW S, 0 \in S, \A k \in 0 .. n : k < n /\ k \in S => k + 1 \in S
  PROVE  \A k \in 0 .. n : k \in S
<1> DEFINE T == (0 .. n) \ S
<1>1. SUFFICES ASSUME T # {} PROVE FALSE
  OBVIOUS
<1>2. T \in SUBSET Nat
  OBVIOUS
<1>3. Min(T) \in T /\ \A m \in T : Min(T) =< m
  BY <1>1, <1>2, LeastOf
<1>4. Min(T) - 1 \in 0 .. n /\ Min(T) - 1 < n /\ Min(T) - 1 \notin T
  BY <1>3
<1>. QED
  BY <1>3, <1>4

(* As many names as there are places are not all in use by fewer of them.  *)
LEMMA NotAllTaken ==
  ASSUME NEW n \in Nat, NEW k \in 0 .. n, k < n, NEW f, DOMAIN f = 1 .. k
  PROVE  ~(1 .. n \subseteq Range(f))
<1>1. SUFFICES ASSUME 1 .. n \subseteq Range(f) PROVE FALSE
  OBVIOUS
<1> DEFINE g == [m \in 1 .. n |-> CHOOSE p \in 1 .. k : f[p] = m]
<1>2. \A m \in 1 .. n : g[m] \in 1 .. k /\ f[g[m]] = m
  BY <1>1 DEF Range
<1> HIDE DEF g
<1>3. g \in [1 .. n -> 1 .. k]
  BY <1>2 DEF g
<1>4. IsFiniteSet(1 .. n) /\ Cardinality(1 .. n) = n
  BY FS_Interval
<1>5. IsFiniteSet(1 .. k) /\ Cardinality(1 .. k) = k
  BY FS_Interval
<1>6. \E a, b \in 1 .. n : a # b /\ g[a] = g[b]
  BY <1>3, <1>4, <1>5, FS_PigeonHole
<1>. QED
  BY <1>2, <1>6

----------------------------------------------------------------------------
(* The order of placement.                                                 *)
ParsedNode == [title : Title, parent : Nat]
NodeList == Seq(ParsedNode)

(* What no root leads to is a ring of its own.                             *)
LEMMA LostClosed ==
  ASSUME NEW nodes \in NodeList
  PROVE  /\ Lost(nodes) \subseteq DOMAIN nodes
         /\ \A i \in Lost(nodes) : Upper(nodes, i) \in Lost(nodes)
         /\ \A S \in SUBSET DOMAIN nodes :
              (\A i \in S : Upper(nodes, i) \in S) => S \subseteq Lost(nodes)
  BY DEF Lost

(* A start of the order: no node twice, and what a root leads to comes     *)
(* after what is above it.                                                 *)
StartOfOrder(nodes, done) ==
    /\ done \in Seq(DOMAIN nodes)
    /\ \A p, q \in DOMAIN done : done[p] = done[q] => p = q
    /\ \A p \in DOMAIN done :
         \/ done[p] \in Lost(nodes)
         \/ Upper(nodes, done[p]) = 0
         \/ \E q \in 1 .. p - 1 : Upper(nodes, done[p]) = done[q]

(* The next node is one that is not there yet, below one that is.          *)
LEMMA NextOfOrder ==
  ASSUME NEW nodes \in NodeList, NEW done, StartOfOrder(nodes, done), Len(done) < Len(nodes)
  PROVE  /\ NextNode(nodes, done) \in DOMAIN nodes \ Range(done)
         /\ \/ NextNode(nodes, done) \in Lost(nodes)
            \/ Upper(nodes, NextNode(nodes, done)) = 0
            \/ \E q \in DOMAIN done : Upper(nodes, NextNode(nodes, done)) = done[q]
<1> DEFINE todo == DOMAIN nodes \ Range(done)
           child(q) == {i \in todo \ Lost(nodes) : Upper(nodes, i) = q}
           from == {k \in DOMAIN done : child(done[k]) # {}}
<1>1. Len(nodes) \in Nat /\ DOMAIN nodes = 1 .. Len(nodes)
      /\ Len(done) \in Nat /\ DOMAIN done = 1 .. Len(done)
  BY DEF NodeList, StartOfOrder
<1>2. todo \in SUBSET Nat /\ todo # {}
  BY <1>1, NotAllTaken
<1>3. from \in SUBSET (0 .. Len(done))
  BY <1>1
<1>4. \A q : child(q) \in SUBSET Nat
  BY <1>2
<1>5. NextNode(nodes, done) = CASE todo \subseteq Lost(nodes) -> Min(todo)
                                [] from # {} -> Min(child(done[Max(from)]))
                                [] OTHER -> Min(child(0))
  BY DEF NextNode
<1>6. CASE todo \subseteq Lost(nodes)
  <2>1. Min(todo) \in todo
    BY <1>2, LeastOf
  <2>. QED
    BY <1>5, <1>6, <2>1
<1>7. CASE ~(todo \subseteq Lost(nodes)) /\ from # {}
  <2>1. Max(from) \in from
    BY <1>1, <1>3, <1>7, GreatestOf
  <2>2. Min(child(done[Max(from)])) \in child(done[Max(from)])
    BY <1>4, <2>1, LeastOf
  <2>3. NextNode(nodes, done) = Min(child(done[Max(from)]))
    BY <1>5, <1>7
  <2>. QED
    BY <2>1, <2>2, <2>3
<1>8. CASE ~(todo \subseteq Lost(nodes)) /\ from = {}
  <2>1. child(0) # {}
    <3>1. SUFFICES ASSUME child(0) = {} PROVE FALSE
      OBVIOUS
    <3> DEFINE T == Lost(nodes) \cup todo
    <3>2. \A i \in todo \ Lost(nodes) : Upper(nodes, i) \in todo
      <4>1. TAKE i \in todo \ Lost(nodes)
      <4>2. Upper(nodes, i) # 0
        BY <3>1, <4>1
      <4>3. Upper(nodes, i) \in DOMAIN nodes
        BY <4>2 DEF Upper
      <4>4. \A k \in DOMAIN done : Upper(nodes, i) # done[k]
        BY <1>8, <4>1
      <4>. QED
        BY <4>3, <4>4 DEF Range
    <3>3. \A i \in T : Upper(nodes, i) \in T
      BY <3>2, LostClosed
    <3>4. T \in SUBSET DOMAIN nodes
      BY LostClosed
    <3>5. todo \subseteq T
      OBVIOUS
    <3> HIDE DEF T
    <3>6. T \subseteq Lost(nodes)
      BY <3>3, <3>4, LostClosed, Zenon
    <3>. QED
      BY <1>8, <3>5, <3>6
  <2>2. Min(child(0)) \in child(0)
    BY <1>4, <2>1, LeastOf
  <2>3. NextNode(nodes, done) = Min(child(0))
    BY <1>5, <1>8
  <2>. QED
    BY <2>2, <2>3
<1>. QED
  BY <1>6, <1>7, <1>8

(* The order, as far as it has been made, is there.                        *)
OrderUpTo(nodes, n, order) ==
    order = [k \in 0 .. n |-> IF k = 0 THEN <<>>
                              ELSE Append(order[k - 1], NextNode(nodes, order[k - 1]))]

LEMMA OrderIsMade ==
  ASSUME NEW nodes \in NodeList
  PROVE  \E order : OrderUpTo(nodes, Len(nodes), order) /\ OrderForPlacement(nodes) = order[Len(nodes)]
<1> DEFINE N == Len(nodes)
           S == {n \in 0 .. N : \E order : OrderUpTo(nodes, n, order)}
<1>0. N \in Nat
  BY DEF NodeList
<1>1. 0 \in S
  <2>1. OrderUpTo(nodes, 0, [k \in 0 .. 0 |-> <<>>])
    BY DEF OrderUpTo
  <2>. QED
    BY <1>0, <2>1
<1>2. \A n \in 0 .. N : n < N /\ n \in S => n + 1 \in S
  <2>1. SUFFICES ASSUME NEW n \in 0 .. N, n < N, NEW g, OrderUpTo(nodes, n, g)
                 PROVE  \E order : OrderUpTo(nodes, n + 1, order)
    OBVIOUS
  <2> DEFINE v == Append(g[n], NextNode(nodes, g[n]))
             h == [k \in 0 .. n + 1 |-> IF k = n + 1 THEN v ELSE g[k]]
  <2> HIDE DEF v
  <2>2. \A k \in 0 .. n + 1 : h[k] = IF k = 0 THEN <<>> ELSE Append(h[k - 1], NextNode(nodes, h[k - 1]))
    <3>1. TAKE k \in 0 .. n + 1
    <3>2. CASE k = n + 1
      BY <2>1, <3>2 DEF v
    <3>3. CASE k \in 0 .. n
      <4>1. g[k] = IF k = 0 THEN <<>> ELSE Append(g[k - 1], NextNode(nodes, g[k - 1]))
        BY <2>1, <3>3 DEF OrderUpTo
      <4>2. h[k] = g[k] /\ (k # 0 => h[k - 1] = g[k - 1])
        BY <2>1, <3>3
      <4> HIDE DEF h
      <4>. QED
        BY <4>1, <4>2
    <3>. QED
      BY <2>1, <3>2, <3>3
  <2>3. OrderUpTo(nodes, n + 1, h)
    BY <2>2 DEF OrderUpTo
  <2>. QED
    BY <2>3
<1> HIDE DEF S
<1> HIDE DEF N
<1>3. \A n \in 0 .. N : n \in S
  BY <1>0, <1>1, <1>2, AllNumbers, Zenon
<1>4. N \in 0 .. N
  BY <1>0
<1> USE DEF S, N
<1>. QED
  BY <1>3, <1>4 DEF OrderUpTo, OrderForPlacement

(* Every node comes once, rings last.                                      *)
LEMMA OrderWell ==
  ASSUME NEW nodes \in NodeList
  PROVE  /\ StartOfOrder(nodes, OrderForPlacement(nodes))
         /\ Len(OrderForPlacement(nodes)) = Len(nodes)
         /\ Range(OrderForPlacement(nodes)) = DOMAIN nodes
<1> DEFINE N == Len(nodes)
<1>0. N \in Nat /\ DOMAIN nodes = 1 .. N
  BY DEF NodeList
<1>1. PICK order : OrderUpTo(nodes, N, order) /\ OrderForPlacement(nodes) = order[N]
  BY OrderIsMade
<1> DEFINE S == {k \in 0 .. N : StartOfOrder(nodes, order[k]) /\ Len(order[k]) = k}
<1>2. 0 \in S
  <2>1. order[0] = <<>>
    BY <1>0, <1>1 DEF OrderUpTo
  <2>2. <<>> \in Seq(DOMAIN nodes) /\ DOMAIN <<>> = {} /\ Len(<<>>) = 0
    OBVIOUS
  <2>3. StartOfOrder(nodes, <<>>)
    BY <2>2 DEF StartOfOrder
  <2>. QED
    BY <1>0, <2>1, <2>2, <2>3
<1>3. \A k \in 0 .. N : k < N /\ k \in S => k + 1 \in S
  <2>1. SUFFICES ASSUME NEW k \in 0 .. N, k < N, StartOfOrder(nodes, order[k]), Len(order[k]) = k
                 PROVE  StartOfOrder(nodes, order[k + 1]) /\ Len(order[k + 1]) = k + 1
    BY <1>0
  <2> DEFINE done == order[k]
             i == NextNode(nodes, done)
  <2>a. k + 1 \in 0 .. N /\ k + 1 # 0 /\ (k + 1) - 1 = k
    BY <1>0, <2>1
  <2>b. order[k + 1] = Append(order[(k + 1) - 1], NextNode(nodes, order[(k + 1) - 1]))
    BY <1>1, <2>a DEF OrderUpTo
  <2>2. order[k + 1] = Append(done, i)
    BY <2>a, <2>b
  <2> HIDE DEF done, i
  <2>3. StartOfOrder(nodes, done) /\ Len(done) = k /\ i = NextNode(nodes, done)
    BY <2>1 DEF done, i
  <2>4. /\ i \in DOMAIN nodes /\ i \notin Range(done)
        /\ \/ i \in Lost(nodes)
           \/ Upper(nodes, i) = 0
           \/ \E q \in DOMAIN done : Upper(nodes, i) = done[q]
    BY <2>1, <2>3, NextOfOrder
  <2>5. done \in Seq(DOMAIN nodes) /\ DOMAIN done = 1 .. k
    BY <2>3 DEF StartOfOrder
  <2> DEFINE more == Append(done, i)
  <2>6. more \in Seq(DOMAIN nodes) /\ Len(more) = k + 1 /\ DOMAIN more = 1 .. k + 1 /\ more[k + 1] = i
        /\ \A p \in 1 .. k : more[p] = done[p]
    BY <2>3, <2>4, <2>5
  <2> HIDE DEF more
  <2>7. \A p, q \in DOMAIN more : more[p] = more[q] => p = q
    BY <2>3, <2>4, <2>5, <2>6 DEF StartOfOrder, Range
  <2>8. ASSUME NEW p \in DOMAIN more
        PROVE  \/ more[p] \in Lost(nodes)
               \/ Upper(nodes, more[p]) = 0
               \/ \E q \in 1 .. p - 1 : Upper(nodes, more[p]) = more[q]
    <3>1. CASE p = k + 1
      BY <2>4, <2>5, <2>6, <3>1
    <3>2. CASE p \in 1 .. k
      <4>1. \A q \in 1 .. p - 1 : q \in 1 .. k
        BY <3>2
      <4>. QED
        BY <2>3, <2>5, <2>6, <3>2, <4>1 DEF StartOfOrder
    <3>. QED
      BY <2>6, <3>1, <3>2
  <2>9. StartOfOrder(nodes, more) /\ Len(more) = k + 1
    BY <2>6, <2>7, <2>8 DEF StartOfOrder
  <2>. QED
    BY <2>2, <2>9 DEF more
<1> HIDE DEF S
<1> HIDE DEF N
<1>4a. \A k \in 0 .. N : k \in S
  BY <1>0, <1>2, <1>3, AllNumbers, Zenon
<1>4b. N \in 0 .. N
  BY <1>0
<1> USE DEF S, N
<1>4. N \in S
  BY <1>4a, <1>4b
<1> DEFINE o == OrderForPlacement(nodes)
<1>5. StartOfOrder(nodes, o) /\ Len(o) = N
  BY <1>1, <1>4
<1> HIDE DEF o
<1>a. o \in Seq(1 .. N) /\ \A p, q \in DOMAIN o : o[p] = o[q] => p = q
  BY <1>0, <1>5 DEF StartOfOrder
<1>b. DOMAIN o = 1 .. N
  BY <1>0, <1>5, <1>a
<1>6. o \in [1 .. N -> 1 .. N] /\ \A p, q \in 1 .. N : o[p] = o[q] => p = q
  BY <1>a, <1>b
<1>7. o \in Injection(1 .. N, 1 .. N)
  BY <1>6 DEF Injection, IsInjective
<1>8. IsFiniteSet(1 .. N)
  BY <1>0, FS_Interval
<1>9. o \in Surjection(1 .. N, 1 .. N)
  BY <1>7, <1>8, FS_Injection
<1>10. Range(o) = 1 .. N
  <2>1. \A m \in 1 .. N : \E k \in 1 .. N : o[k] = m
    BY <1>9 DEF Surjection
  <2>2. Range(o) \subseteq 1 .. N
    BY <1>b, <1>6 DEF Range
  <2>3. 1 .. N \subseteq Range(o)
    BY <1>b, <2>1, Zenon DEF Range
  <2>. QED
    BY <2>2, <2>3
<1>. QED
  BY <1>0, <1>5, <1>10 DEF o

----------------------------------------------------------------------------
(* Places.  A path is a sequence of segments, no deeper than the limit.    *)
Segment == [name : Title, n : Nat]
ImportPath == {s \in Seq(Segment) : Len(s) \in 1 .. ImportDepth}
Item == [node : 1 .. MaxNodes, parent : Nat, title : Title, decision : Decision, path : ImportPath]

(* Right below a path, or beside it if that is as deep as the limit.       *)
Under(path, above) ==
    \/ Front(path) = above
    \/ Len(above) = ImportDepth /\ Front(path) = Front(above)

LEMMA FrontOfAppend ==
  ASSUME NEW T, NEW s \in Seq(T), NEW e \in T
  PROVE  /\ Append(s, e) \in Seq(T) /\ Len(Append(s, e)) = Len(s) + 1
         /\ Front(Append(s, e)) = s
         /\ Append(s, e)[Len(s) + 1] = e /\ Last(Append(s, e)) = e
  BY DEF Front, Last

(* All the numbers there are to try for the name of a path are taken.      *)
Crowded(its, path) ==
    \A m \in 1 .. MaxAttempts :
        \E r \in DOMAIN its : its[r].path = Append(Front(path), Seg(Last(path).name, m))

(* No two have one path, unless it is crowded there.                       *)
Distinct(its) == \A p, q \in DOMAIN its : its[p].path = its[q].path => p = q
Spaced(its) ==
    /\ \A p, q \in DOMAIN its : p # q /\ its[p].path = its[q].path => Crowded(its, its[p].path)
    /\ Len(its) =< MaxAttempts => Distinct(its)

(* A start of the placement: each is spaced from the others, and under the *)
(* path its parent was given before.                                       *)
StartOfPlacing(nodes, order, placed) ==
    /\ placed \in Seq(Item)
    /\ \A p \in DOMAIN placed :
         /\ placed[p].node = order[p]
         /\ placed[p].parent = nodes[order[p]].parent
    /\ Spaced(placed)
    /\ \A p, q \in DOMAIN placed :
         q < p /\ placed[p].parent = placed[q].node => Under(placed[p].path, placed[q].path)

(* A number is left for the name.                                          *)
LEMMA NumberLeft ==
  ASSUME NEW N \in Nat, NEW placed \in Seq(Item), Len(placed) < N,
         NEW base \in Seq(Segment), NEW t \in Title
  PROVE  \E m \in 1 .. N : Append(base, Seg(t, m)) \notin {placed[k].path : k \in DOMAIN placed}
<1> DEFINE used == {placed[k].path : k \in DOMAIN placed}
           left == {m \in 1 .. N : Append(base, Seg(t, m)) \notin used}
           f == [p \in 1 .. Len(placed) |-> placed[p].path[Len(base) + 1].n]
<1>1. left # {}
  <2>1. SUFFICES ASSUME left = {} PROVE FALSE
    OBVIOUS
  <2>2. ASSUME NEW m \in 1 .. N PROVE \E p \in 1 .. Len(placed) : f[p] = m
    <3>1. PICK p \in 1 .. Len(placed) : placed[p].path = Append(base, Seg(t, m))
      BY <2>1
    <3>2. Seg(t, m) \in Segment /\ Seg(t, m).n = m
      BY DEF Seg, Segment
    <3>3. Append(base, Seg(t, m))[Len(base) + 1] = Seg(t, m)
      BY <3>2, FrontOfAppend
    <3>. QED
      BY <3>1, <3>2, <3>3
  <2> HIDE DEF f
  <2>3. DOMAIN f = 1 .. Len(placed)
    BY DEF f
  <2>4. 1 .. N \subseteq Range(f)
    BY <2>2, <2>3, Zenon DEF Range
  <2>5. Len(placed) \in 0 .. N
    OBVIOUS
  <2>. QED
    BY <2>3, <2>4, <2>5, NotAllTaken
<1>. QED
  BY <1>1

(* The next place keeps all of it.                                         *)
LEMMA PlaceOneWell ==
  ASSUME NEW nodes \in NodeList, NEW order, NEW placed, Len(nodes) =< MaxNodes,
         StartOfOrder(nodes, order), Len(order) = Len(nodes),
         StartOfPlacing(nodes, order, placed), Len(placed) < Len(nodes),
         NEW i, i = order[Len(placed) + 1]
  PROVE  /\ StartOfPlacing(nodes, order, PlaceOne(nodes, placed, i))
         /\ Len(PlaceOne(nodes, placed, i)) = Len(placed) + 1
<1> DEFINE over == {k \in DOMAIN placed : placed[k].node = nodes[i].parent}
           above == IF over = {} THEN <<>> ELSE placed[CHOOSE k \in over : TRUE].path
           base == IF Len(above) >= ImportDepth THEN SubSeq(above, 1, ImportDepth - 1) ELSE above
           t == nodes[i].title
           used == {placed[k].path : k \in DOMAIN placed}
           left == {m \in 1 .. MaxAttempts : Append(base, Seg(t, m)) \notin used}
           n == IF left # {} THEN Min(left) ELSE MaxAttempts + 1 + Spread[i]
           it == [node |-> i, parent |-> nodes[i].parent, title |-> t,
                  decision |-> "create", path |-> Append(base, Seg(t, n))]
<1>1. /\ placed \in Seq(Item) /\ DOMAIN placed = 1 .. Len(placed) /\ Len(placed) \in Nat
      /\ DOMAIN nodes = 1 .. Len(nodes) /\ Len(nodes) \in Nat
      /\ order \in Seq(DOMAIN nodes) /\ DOMAIN order = 1 .. Len(nodes)
  BY DEF StartOfPlacing, StartOfOrder, NodeList
<1>2. i \in DOMAIN nodes /\ i \in 1 .. MaxNodes /\ t \in Title /\ nodes[i].parent \in Nat
  <2>1. Len(placed) + 1 \in 1 .. Len(nodes)
    BY <1>1
  <2>2. i \in DOMAIN nodes
    BY <1>1, <2>1
  <2>3. nodes[i] \in ParsedNode
    BY <1>1, <2>2 DEF NodeList
  <2>4. i \in 1 .. MaxNodes
    BY <1>1, <2>2, ImportAssumption
  <2>. QED
    BY <2>2, <2>3, <2>4 DEF ParsedNode
<1>3. above \in Seq(Segment) /\ Len(above) =< ImportDepth
  <2>1. CASE over = {}
    BY <2>1, ImportAssumption
  <2>2. CASE over # {}
    <3>1. PICK k \in over : above = placed[k].path
      BY <2>2
    <3>2. placed[k] \in Item
      BY <1>1, <3>1
    <3>3. above \in ImportPath
      BY <3>1, <3>2 DEF Item
    <3>. QED
      BY <3>3 DEF ImportPath
  <2>. QED
    BY <2>1, <2>2
<1>4. \A k \in over : above = placed[k].path
  <2>1. ASSUME NEW k \in over PROVE above = placed[k].path
    <3>1. (CHOOSE j \in over : TRUE) \in over
      BY <2>1
    <3>2. \A j \in over : j = k
      <4>1. TAKE j \in over
      <4>2. order[j] = placed[j].node /\ order[k] = placed[k].node
        BY <2>1 DEF StartOfPlacing
      <4>3. order[j] = order[k] /\ j \in DOMAIN order /\ k \in DOMAIN order
        BY <1>1, <2>1, <4>1, <4>2
      <4>. QED
        BY <4>3 DEF StartOfOrder
    <3>. QED
      BY <2>1, <3>1, <3>2
  <2>. QED
    BY <2>1
<1> HIDE DEF above
<1>5. /\ base \in Seq(Segment) /\ Len(base) < ImportDepth
      /\ base = above \/ (Len(above) = ImportDepth /\ base = Front(above))
  <2>1. CASE Len(above) >= ImportDepth
    BY <1>3, <2>1, ImportAssumption DEF Front
  <2>2. CASE ~(Len(above) >= ImportDepth)
    BY <1>3, <2>2, ImportAssumption
  <2>. QED
    BY <2>1, <2>2
<1> HIDE DEF base, t
<1>6. MaxAttempts \in Nat /\ Spread[i] \in Nat
  BY <1>2, ImportAssumption
<1>7. Len(placed) < MaxAttempts => left # {}
  BY <1>1, <1>2, <1>5, <1>6, NumberLeft
<1>8. PlaceOne(nodes, placed, i) = Append(placed, it)
  BY DEF PlaceOne, above, base, t
<1> DEFINE path == Append(base, Seg(t, n))
<1>9. n \in Nat /\ (left # {} => n \in left)
  <2>1. CASE left # {}
    <3>1. left \in SUBSET Nat
      BY <1>6
    <3> HIDE DEF left
    <3>2. Min(left) \in left
      BY <2>1, <3>1, LeastOf
    <3>. QED
      BY <2>1, <3>1, <3>2
  <2>2. CASE left = {}
    BY <1>6, <2>2
  <2>. QED
    BY <2>1, <2>2
<1>10. path \notin used \/ left = {}
  BY <1>9
<1> HIDE DEF n
<1>11. Seg(t, n) \in Segment
  BY <1>2, <1>9 DEF Seg, Segment
<1>12. path \in ImportPath /\ Front(path) = base /\ Last(path).name = t
  <2>1. /\ path \in Seq(Segment) /\ Len(path) = Len(base) + 1
        /\ Front(path) = base /\ Last(path) = Seg(t, n)
    BY <1>5, <1>11, FrontOfAppend
  <2>2. Len(path) \in 1 .. ImportDepth
    BY <1>5, <2>1, ImportAssumption
  <2>. QED
    BY <2>1, <2>2 DEF ImportPath, Seg
<1> HIDE DEF path
<1>13. it \in Item /\ it.node = i /\ it.parent = nodes[i].parent /\ it.path = path
  BY <1>2, <1>12 DEF Item, Decision, path
<1> HIDE DEF it
<1> DEFINE more == Append(placed, it)
<1>14. /\ more \in Seq(Item) /\ Len(more) = Len(placed) + 1 /\ DOMAIN more = 1 .. Len(placed) + 1
       /\ \A p \in DOMAIN placed : more[p] = placed[p]
       /\ more[Len(placed) + 1] = it
  BY <1>1, <1>13
<1> HIDE DEF more
<1>15. \A p \in DOMAIN more : p \in DOMAIN placed \/ p = Len(placed) + 1
  BY <1>1, <1>14
<1>16. \A p \in DOMAIN more : more[p].node = order[p] /\ more[p].parent = nodes[order[p]].parent
  BY <1>13, <1>14, <1>15 DEF StartOfPlacing
<1>17. ASSUME NEW p \in DOMAIN placed, placed[p].path = path
       PROVE  Crowded(more, path) /\ ~(Len(more) =< MaxAttempts)
  <2>1. left = {} /\ ~(Len(placed) < MaxAttempts)
    BY <1>7, <1>10, <1>17
  <2>2. \A m \in 1 .. MaxAttempts : \E r \in DOMAIN placed : placed[r].path = Append(base, Seg(t, m))
    BY <2>1
  <2>3. ASSUME NEW m \in 1 .. MaxAttempts
        PROVE  \E r \in DOMAIN more : more[r].path = Append(Front(path), Seg(Last(path).name, m))
    <3>1. PICK r \in DOMAIN placed : placed[r].path = Append(base, Seg(t, m))
      BY <2>2
    <3>2. DOMAIN placed \subseteq DOMAIN more
      BY <1>1, <1>14
    <3>3. r \in DOMAIN more /\ more[r] = placed[r]
      BY <1>14, <3>2
    <3>4. Append(Front(path), Seg(Last(path).name, m)) = Append(base, Seg(t, m))
      BY <1>12
    <3>. QED
      BY <3>1, <3>3, <3>4
  <2>4. Crowded(more, path)
    BY <2>3 DEF Crowded
  <2>. QED
    BY <1>1, <1>6, <1>14, <2>1, <2>4
<1>18. Spaced(more)
  <2>1. ASSUME NEW p \in DOMAIN more, NEW q \in DOMAIN more, p # q, more[p].path = more[q].path
        PROVE  Crowded(more, more[p].path) /\ ~(Len(more) =< MaxAttempts)
    <3>1. CASE p \in DOMAIN placed /\ q \in DOMAIN placed
      <4>1. placed[p].path = placed[q].path /\ more[p] = placed[p]
        BY <1>14, <2>1, <3>1
      <4>2. Crowded(placed, placed[p].path) /\ ~(Len(placed) =< MaxAttempts)
        BY <2>1, <3>1, <4>1 DEF StartOfPlacing, Spaced, Distinct
      <4>3. DOMAIN placed \subseteq DOMAIN more
        BY <1>1, <1>14
      <4>4. Crowded(more, placed[p].path)
        BY <1>14, <4>2, <4>3 DEF Crowded
      <4>. QED
        BY <1>1, <1>6, <1>14, <4>1, <4>2, <4>4
    <3>2. CASE p = Len(placed) + 1
      <4>1. more[p].path = path /\ q \in DOMAIN placed /\ placed[q].path = path
        BY <1>13, <1>14, <1>15, <2>1, <3>2
      <4>. QED
        BY <1>17, <4>1
    <3>3. CASE q = Len(placed) + 1
      <4>1. more[p].path = path /\ p \in DOMAIN placed /\ placed[p].path = path
        BY <1>13, <1>14, <1>15, <2>1, <3>3
      <4>. QED
        BY <1>17, <4>1
    <3>. QED
      BY <1>15, <3>1, <3>2, <3>3
  <2>. QED
    BY <2>1 DEF Spaced, Distinct
<1>19. ASSUME NEW p \in DOMAIN more, NEW q \in DOMAIN more, q < p, more[p].parent = more[q].node
       PROVE  Under(more[p].path, more[q].path)
  <2>1. q \in DOMAIN placed
    BY <1>1, <1>14, <1>19
  <2>2. CASE p \in DOMAIN placed
    BY <1>14, <1>19, <2>1, <2>2 DEF StartOfPlacing
  <2>3. CASE p = Len(placed) + 1
    <3>1. placed[q].node = nodes[i].parent
      BY <1>13, <1>14, <1>19, <2>1, <2>3
    <3>2. above = placed[q].path
      BY <1>4, <2>1, <3>1
    <3>. QED
      BY <1>5, <1>12, <1>13, <1>14, <2>1, <2>3, <3>2 DEF Under
  <2>. QED
    BY <1>15, <2>2, <2>3
<1>20. StartOfPlacing(nodes, order, more)
  BY <1>14, <1>16, <1>18, <1>19 DEF StartOfPlacing
<1>. QED
  BY <1>8, <1>14, <1>20 DEF more

(* The placement, as far as it has been made, is there.                    *)
PlacedUpTo(nodes, order, n, placed) ==
    placed = [k \in 0 .. n |-> IF k = 0 THEN <<>> ELSE PlaceOne(nodes, placed[k - 1], order[k])]

LEMMA PlacingIsMade ==
  ASSUME NEW nodes \in NodeList
  PROVE  \E placed : /\ PlacedUpTo(nodes, OrderForPlacement(nodes), Len(nodes), placed)
                     /\ PlaceNodes(nodes) = placed[Len(nodes)]
<1> DEFINE N == Len(nodes)
           o == OrderForPlacement(nodes)
           S == {n \in 0 .. N : \E placed : PlacedUpTo(nodes, o, n, placed)}
<1> HIDE DEF o
<1>0. N \in Nat
  BY DEF NodeList
<1>1. 0 \in S
  <2>1. PlacedUpTo(nodes, o, 0, [k \in 0 .. 0 |-> <<>>])
    BY DEF PlacedUpTo
  <2>. QED
    BY <1>0, <2>1
<1>2. \A n \in 0 .. N : n < N /\ n \in S => n + 1 \in S
  <2>1. SUFFICES ASSUME NEW n \in 0 .. N, n < N, NEW g, PlacedUpTo(nodes, o, n, g)
                 PROVE  \E placed : PlacedUpTo(nodes, o, n + 1, placed)
    OBVIOUS
  <2> DEFINE v == PlaceOne(nodes, g[n], o[n + 1])
             h == [k \in 0 .. n + 1 |-> IF k = n + 1 THEN v ELSE g[k]]
  <2> HIDE DEF v
  <2>2. \A k \in 0 .. n + 1 : h[k] = IF k = 0 THEN <<>> ELSE PlaceOne(nodes, h[k - 1], o[k])
    <3>1. TAKE k \in 0 .. n + 1
    <3>2. CASE k = n + 1
      BY <2>1, <3>2 DEF v
    <3>3. CASE k \in 0 .. n
      <4>1. g[k] = IF k = 0 THEN <<>> ELSE PlaceOne(nodes, g[k - 1], o[k])
        BY <2>1, <3>3 DEF PlacedUpTo
      <4>2. h[k] = g[k] /\ (k # 0 => h[k - 1] = g[k - 1])
        BY <2>1, <3>3
      <4> HIDE DEF h
      <4>. QED
        BY <4>1, <4>2
    <3>. QED
      BY <2>1, <3>2, <3>3
  <2>3. PlacedUpTo(nodes, o, n + 1, h)
    BY <2>2 DEF PlacedUpTo
  <2>. QED
    BY <2>3
<1> HIDE DEF N, S
<1>3. \A n \in 0 .. N : n \in S
  BY <1>0, <1>1, <1>2, AllNumbers, Zenon
<1>4. N \in 0 .. N
  BY <1>0
<1> USE DEF S, N, o
<1>. QED
  BY <1>3, <1>4 DEF PlacedUpTo, PlaceNodes

LEMMA PlacingWell ==
  ASSUME NEW nodes \in NodeList, Len(nodes) =< MaxNodes
  PROVE  /\ StartOfPlacing(nodes, OrderForPlacement(nodes), PlaceNodes(nodes))
         /\ Len(PlaceNodes(nodes)) = Len(nodes)
<1> DEFINE N == Len(nodes)
           o == OrderForPlacement(nodes)
<1>0. N \in Nat
  BY DEF NodeList
<1>1. PICK placed : PlacedUpTo(nodes, o, N, placed) /\ PlaceNodes(nodes) = placed[N]
  BY PlacingIsMade
<1> HIDE DEF o
<1> DEFINE S == {k \in 0 .. N : StartOfPlacing(nodes, o, placed[k]) /\ Len(placed[k]) = k}
<1>2. 0 \in S
  <2>1. placed[0] = <<>>
    BY <1>0, <1>1 DEF PlacedUpTo
  <2>2. <<>> \in Seq(Item) /\ DOMAIN <<>> = {} /\ Len(<<>>) = 0
    OBVIOUS
  <2>3. StartOfPlacing(nodes, o, <<>>)
    BY <2>2 DEF StartOfPlacing, Spaced, Distinct
  <2>. QED
    BY <1>0, <2>1, <2>2, <2>3
<1>3. \A k \in 0 .. N : k < N /\ k \in S => k + 1 \in S
  <2>1. SUFFICES ASSUME NEW k \in 0 .. N, k < N, StartOfPlacing(nodes, o, placed[k]), Len(placed[k]) = k
                 PROVE  StartOfPlacing(nodes, o, placed[k + 1]) /\ Len(placed[k + 1]) = k + 1
    BY <1>0
  <2>2. k + 1 \in 0 .. N /\ k + 1 # 0 /\ (k + 1) - 1 = k
    BY <1>0, <2>1
  <2>3. placed[k + 1] = PlaceOne(nodes, placed[(k + 1) - 1], o[k + 1])
    BY <1>1, <2>2 DEF PlacedUpTo
  <2>4. placed[k + 1] = PlaceOne(nodes, placed[k], o[k + 1])
    BY <2>2, <2>3
  <2>5. StartOfOrder(nodes, o) /\ Len(o) = Len(nodes)
    BY OrderWell DEF o
  <2>. QED
    BY <2>1, <2>4, <2>5, PlaceOneWell
<1> HIDE DEF S, N
<1>4a. \A k \in 0 .. N : k \in S
  BY <1>0, <1>2, <1>3, AllNumbers, Zenon
<1>4b. N \in 0 .. N
  BY <1>0
<1> USE DEF S, N, o
<1>. QED
  BY <1>1, <1>4a, <1>4b

----------------------------------------------------------------------------
(* A list of items as it was placed.                                       *)
Ring(its, S) == \A s \in S : \E r \in S : its[s].parent = its[r].node

Places(its) ==
    /\ {its[k].node : k \in DOMAIN its} = DOMAIN its
    /\ \A k, j \in DOMAIN its : its[k].node = its[j].node => k = j
    /\ Spaced(its)
    /\ \A k, j \in DOMAIN its :
         j < k /\ its[k].parent = its[j].node => Under(its[k].path, its[j].path)
    /\ \A k, j \in DOMAIN its :
         k =< j /\ its[k].parent = its[j].node =>
             \E S \in SUBSET DOMAIN its : k \in S /\ Ring(its, S)

(* The same places, whatever has been decided about them.                  *)
Same(its, those) ==
    /\ Len(its) = Len(those)
    /\ \A k \in DOMAIN those : /\ its[k].node = those[k].node
                               /\ its[k].parent = those[k].parent
                               /\ its[k].path = those[k].path

LEMMA SamePlaces ==
  ASSUME NEW its \in Seq(Item), NEW those \in Seq(Item), Same(its, those), Places(those)
  PROVE  Places(its)
<1>1. DOMAIN its = DOMAIN those
  BY DEF Same
<1>2. \A k \in DOMAIN its : /\ its[k].node = those[k].node
                            /\ its[k].parent = those[k].parent
                            /\ its[k].path = those[k].path
  BY <1>1 DEF Same
<1>3. {its[k].node : k \in DOMAIN its} = {those[k].node : k \in DOMAIN those}
  BY <1>1, <1>2
<1>4. \A S \in SUBSET DOMAIN its : Ring(those, S) => Ring(its, S)
  BY <1>1, <1>2 DEF Ring
<1>5. Spaced(its)
  <2>1. Spaced(those) /\ Len(its) = Len(those)
    BY DEF Places, Same
  <2>2. \A path : Crowded(those, path) => Crowded(its, path)
    BY <1>1, <1>2 DEF Crowded
  <2>. QED
    BY <1>1, <1>2, <2>1, <2>2 DEF Spaced, Distinct
<1>. QED
  BY <1>1, <1>2, <1>3, <1>4, <1>5 DEF Places

(* orderForPlacement and placeNodes, for any nodes: each gets one place,   *)
(* within the limit and under its parent's unless its parents go in a      *)
(* circle, and two get one path only if all the numbers tried for the name *)
(* are taken there - never with no more nodes than numbers.                *)
THEOREM StagedPlaces ==
  ASSUME NEW nodes \in NodeLists
  PROVE  /\ PlaceNodes(nodes) \in Seq(Item) /\ PlaceNodes(nodes) # <<>>
         /\ Places(PlaceNodes(nodes))
<1> DEFINE o == OrderForPlacement(nodes)
           its == PlaceNodes(nodes)
<1>1. nodes \in NodeList /\ Len(nodes) \in 1 .. MaxNodes /\ DOMAIN nodes = 1 .. Len(nodes)
  <2>1. PICK n \in 1 .. MaxNodes : nodes \in [1 .. n -> [title : Title, parent : 0 .. n + 1]]
    BY DEF NodeLists
  <2>2. n \in Nat /\ n =< MaxNodes /\ DOMAIN nodes = 1 .. n
    BY <2>1, ImportAssumption
  <2>3. \A i \in 1 .. n : nodes[i] \in ParsedNode
    BY <2>1, <2>2 DEF ParsedNode
  <2>4. nodes \in [1 .. n -> ParsedNode]
    BY <2>1, <2>3
  <2>5. nodes \in Seq(ParsedNode) /\ Len(nodes) = n
    BY <2>2, <2>4
  <2>. QED
    BY <2>1, <2>2, <2>5 DEF NodeList
<1>2. /\ StartOfOrder(nodes, o) /\ Len(o) = Len(nodes) /\ Range(o) = DOMAIN nodes
      /\ StartOfPlacing(nodes, o, its) /\ Len(its) = Len(nodes)
  BY <1>1, ImportAssumption, OrderWell, PlacingWell
<1> HIDE DEF o, its
<1>3. /\ o \in Seq(DOMAIN nodes) /\ its \in Seq(Item)
      /\ \A p, q \in DOMAIN o : o[p] = o[q] => p = q
      /\ \A p \in DOMAIN its : its[p].node = o[p] /\ its[p].parent = nodes[o[p]].parent
      /\ Spaced(its)
  BY <1>2 DEF StartOfOrder, StartOfPlacing
<1>4. DOMAIN o = 1 .. Len(nodes) /\ DOMAIN its = 1 .. Len(nodes) /\ DOMAIN its = DOMAIN o
      /\ DOMAIN its = DOMAIN nodes
  BY <1>1, <1>2, <1>3
<1>5. {its[k].node : k \in DOMAIN its} = DOMAIN its
  <2>1. {its[k].node : k \in DOMAIN its} = {o[k] : k \in DOMAIN o}
    BY <1>3, <1>4
  <2>. QED
    BY <1>2, <1>4, <2>1 DEF Range
<1>6. ASSUME NEW k \in DOMAIN its, NEW j \in DOMAIN its, j < k, its[k].parent = its[j].node
      PROVE  Under(its[k].path, its[j].path)
  BY <1>2, <1>6 DEF StartOfPlacing
<1>7. ASSUME NEW k \in DOMAIN its, NEW j \in DOMAIN its, k =< j, its[k].parent = its[j].node
      PROVE  \E S \in SUBSET DOMAIN its : k \in S /\ Ring(its, S)
  <2>1. CASE k = j
    <3>1. Ring(its, {k})
      BY <1>7, <2>1 DEF Ring
    <3>. QED
      BY <3>1
  <2>2. CASE k # j
    <3> DEFINE S == {s \in DOMAIN its : o[s] \in Lost(nodes)}
    <3>1. nodes[o[k]].parent = o[j] /\ o[j] \in DOMAIN nodes /\ o[j] # o[k]
      BY <1>3, <1>4, <1>7, <2>2
    <3>2. Upper(nodes, o[k]) = o[j] /\ o[j] # 0
      BY <1>1, <3>1 DEF Upper
    <3>3. \A q \in 1 .. k - 1 : o[q] # o[j]
      <4>1. TAKE q \in 1 .. k - 1
      <4>2. q \in DOMAIN o /\ q # j
        BY <1>4, <1>7, <4>1
      <4>. QED
        BY <1>3, <1>4, <4>2
    <3>4. o[k] \in Lost(nodes)
      BY <1>2, <1>4, <3>2, <3>3 DEF StartOfOrder
    <3>5. ASSUME NEW s \in S PROVE \E r \in S : its[s].parent = its[r].node
      <4>1. Upper(nodes, o[s]) \in Lost(nodes) /\ Lost(nodes) \subseteq DOMAIN nodes
        BY <1>1, <3>5, LostClosed
      <4>2. Upper(nodes, o[s]) = nodes[o[s]].parent
        BY <1>1, <4>1 DEF Upper
      <4>3. PICK r \in DOMAIN o : o[r] = Upper(nodes, o[s])
        BY <1>2, <4>1 DEF Range
      <4>4. r \in S
        BY <1>4, <4>1, <4>3
      <4>. QED
        BY <1>3, <1>4, <4>2, <4>3, <4>4
    <3>6. Ring(its, S)
      BY <3>5 DEF Ring
    <3>. QED
      BY <3>4, <3>6
  <2>. QED
    BY <2>1, <2>2
<1>8. \A k, j \in DOMAIN its : its[k].node = its[j].node => k = j
  BY <1>3, <1>4
<1>9. Places(its)
  BY <1>3, <1>5, <1>6, <1>7, <1>8 DEF Places
<1>10. its # <<>>
  BY <1>1, <1>2
<1>. QED
  BY <1>3, <1>9, <1>10 DEF its

----------------------------------------------------------------------------
(* Types.                                                                  *)
Page == [live : BOOLEAN, node : 0 .. MaxNodes, path : ImportPath, meant : ImportPath]
Known == UNION {[S -> ImportId] : S \in SUBSET ImportPath}
Run == [pc : {"idle", "checked", "applying", "done"}, items : Seq(Item),
        plan : Seq(ImportId \cup {NoPage}), known : Known, next : Nat \ {0}]
Edit == [item : Nat, decision : Decision, path : ImportPath]

StatusOK == status \in {"none", "running", "review", "failed", "applied", "cancelled", "deleted"}
ItemsOK == items \in Seq(Item)
EditOK == edit = NoEdit \/ (edit \in Edit /\ edit.item \in DOMAIN items)
CountsOK == edits \in 0 .. MaxEdits /\ repathed \subseteq 1 .. MaxNodes
RunOK == /\ run \in [Applier -> Run]
         /\ \A w \in Applier : Len(run[w].plan) = Len(run[w].items)
StockOK == /\ stock \in [DOMAIN stock -> Page] /\ DOMAIN stock \subseteq ImportId
           /\ \A p, q \in Here : stock[p].path = stock[q].path => p = q

ImportTyped == StatusOK /\ ItemsOK /\ EditOK /\ CountsOK /\ RunOK /\ StockOK

(* What is about to be staged is placed, and nothing is staged twice.      *)
StagingOK ==
    /\ staging.pc \in {"none", "parsing", "placed", "inserted"}
    /\ status = "none" => staging.pc = "none" /\ items = <<>>
    /\ staging.pc \in {"parsing", "placed"} => items = <<>>
    /\ staging.pc = "placed" =>
         staging.items \in Seq(Item) /\ staging.items # <<>> /\ Places(staging.items)
    /\ staging.pc = "inserted" => items # <<>>

(* No page is none, and people's is not an import's.                       *)
LEMMA IdsApart ==
  /\ NoPage \notin ImportId /\ <<"person", 1>> \in ImportId
  /\ \A w \in Applier, n \in 1 .. MaxNodes : <<w, n>> \in ImportId /\ <<w, n>> # <<"person", 1>>
  BY ImportAssumption DEF NoPage, ImportId

LEMMA StockAtWell ==
  ASSUME StockOK, NEW path
  PROVE  \/ /\ StockAt(path) \in Here /\ StockAt(path) \in ImportId /\ StockAt(path) # NoPage
            /\ stock[StockAt(path)].path = path
         \/ StockAt(path) = NoPage /\ \A p \in Here : stock[p].path # path
<1>1. Here \subseteq ImportId
  BY DEF StockOK, Here
<1>2. CASE \E p \in Here : stock[p].path = path
  <2>1. StockAt(path) \in Here /\ stock[StockAt(path)].path = path
    BY <1>2 DEF StockAt
  <2>. QED
    BY <1>1, <2>1, IdsApart
<1>3. CASE ~ \E p \in Here : stock[p].path = path
  BY <1>3 DEF StockAt
<1>. QED
  BY <1>2, <1>3

(* A page is put in the stock.                                             *)
Puts(p, page) ==
    /\ DOMAIN stock' = DOMAIN stock \cup {p} /\ stock' = [x \in DOMAIN stock' |-> stock'[x]]
    /\ stock'[p] = page
    /\ \A x \in DOMAIN stock \ {p} : stock'[x] = stock[x]

LEMMA PutIn ==
  ASSUME NEW p, NEW page, stock' = WithPage(p, page)
  PROVE  Puts(p, page)
  BY DEF WithPage, Puts

LEMMA PutTyped ==
  ASSUME StockOK, NEW p \in ImportId, NEW page \in Page, Puts(p, page),
         \A q \in Here : stock[q].path # page.path
  PROVE  StockOK'
<1>1. stock' \in [DOMAIN stock' -> Page] /\ DOMAIN stock' \subseteq ImportId
  BY DEF Puts, StockOK
<1>2. \A q \in Here' : q = p \/ (q \in Here /\ stock'[q] = stock[q])
  BY DEF Here, Puts
<1>3. ASSUME NEW q \in Here', NEW r \in Here', stock'[q].path = stock'[r].path PROVE q = r
  BY <1>2, <1>3 DEF StockOK, Puts
<1>. QED
  BY <1>1, <1>3 DEF StockOK

LEMMA ImportStart ==
  ASSUME ImportInit
  PROVE  ImportTyped
<1>1. StatusOK /\ ItemsOK /\ EditOK /\ CountsOK
  BY ImportAssumption DEF ImportInit, StatusOK, ItemsOK, EditOK, CountsOK
<1>2. RunOK
  <2>1. <<>> \in Known
    <3>1. <<>> \in [{} -> ImportId] /\ {} \in SUBSET ImportPath
      OBVIOUS
    <3>. QED
      BY <3>1 DEF Known
  <2>2. NoRun \in Run /\ Len(NoRun.plan) = Len(NoRun.items)
    BY <2>1 DEF NoRun, Run
  <2>. QED
    BY <2>2 DEF ImportInit, RunOK
<1>3. StockOK
  BY DEF ImportInit, StockOK, Here
<1>. QED
  BY <1>1, <1>2, <1>3 DEF ImportTyped

LEMMA NoRunTyped == NoRun \in Run /\ [NoRun EXCEPT !.pc = "done"] \in Run
<1>1. <<>> \in [{} -> ImportId] /\ {} \in SUBSET ImportPath
  OBVIOUS
<1>2. <<>> \in Known
  BY <1>1 DEF Known
<1>3. NoRun \in Run
  BY <1>2 DEF NoRun, Run
<1>4. [NoRun EXCEPT !.pc = "done"] \in Run
  BY <1>3 DEF Run
<1>. QED
  BY <1>3, <1>4

(* A run is changed.                                                       *)
LEMMA RunSet ==
  ASSUME RunOK, NEW w \in Applier, NEW r \in Run, Len(r.plan) = Len(r.items),
         run' = [run EXCEPT ![w] = r]
  PROVE  /\ RunOK' /\ run'[w] = r /\ DOMAIN run' = DOMAIN run
         /\ \A v \in Applier \ {w} : run'[v] = run[v]
  BY DEF RunOK

(* What WriteItem does.                                                    *)
Wrote(w, item, p) ==
    /\ item \in Item /\ p \in ImportId
    /\ run[w].next \in DOMAIN run[w].items
    /\ item = run[w].items[run[w].next] /\ p = run[w].plan[run[w].next]

Remembers(w, item, k, there) ==
    /\ there \in ImportId
    /\ LET r == [run[w] EXCEPT !.next = k + 1, !.known = Learned(w, item.path, there)]
       IN r \in Run /\ run' = [run EXCEPT ![w] = r]

MadePage(w, item, p) ==
    /\ KnownAt(w, item.path) = NoPage
    /\ PlannedParent(w, item) \in Here \cup {NoPage}
    /\ Destination(w, item) \in ImportPath
    /\ \A q \in Here : stock[q].path # Destination(w, item)
    /\ Puts(p, [live |-> TRUE, node |-> item.node, path |-> Destination(w, item), meant |-> item.path])

LEMMA WriteItemDoes ==
  ASSUME ImportTyped, NEW w \in Applier, WriteItem(w)
  PROVE  \E item, p, there : /\ Wrote(w, item, p) /\ Remembers(w, item, run[w].next, there)
                             /\ UNCHANGED stock \/ MadePage(w, item, p)
<1> DEFINE k == run[w].next
           item == run[w].items[k]
           p == run[w].plan[k]
<1>1. RunOK /\ StockOK
  BY DEF ImportTyped
<1>2. run[w] \in Run /\ Len(run[w].plan) = Len(run[w].items)
  BY <1>1 DEF RunOK
<1>3. k \in Nat \ {0} /\ run[w].items \in Seq(Item) /\ run[w].plan \in Seq(ImportId \cup {NoPage})
      /\ run[w].known \in Known
  BY <1>2 DEF Run
<1>4. k =< Len(run[w].items) /\ p # NoPage
  BY DEF WriteItem
<1>5. k \in DOMAIN run[w].items /\ k \in DOMAIN run[w].plan
  BY <1>2, <1>3, <1>4
<1>6. item \in Item /\ p \in ImportId
  BY <1>3, <1>4, <1>5
<1>7. Wrote(w, item, p)
  BY <1>5, <1>6 DEF Wrote
<1>8. item.path \in ImportPath
  BY <1>6 DEF Item
<1>9. ASSUME NEW there \in ImportId, run' = [run EXCEPT ![w].next = k + 1, ![w].known = Learned(w, item.path, there)]
      PROVE  Remembers(w, item, k, there)
  <2> DEFINE L == Learned(w, item.path, there)
             r == [run[w] EXCEPT !.next = k + 1, !.known = L]
  <2>1. L \in Known
    <3>1. PICK S \in SUBSET ImportPath : run[w].known \in [S -> ImportId]
      BY <1>3 DEF Known
    <3>2. L \in [S \cup {item.path} -> ImportId]
      BY <1>9, <3>1 DEF Learned
    <3>3. S \cup {item.path} \in SUBSET ImportPath
      BY <1>8
    <3>. QED
      BY <3>2, <3>3 DEF Known
  <2> HIDE DEF L
  <2>a. k + 1 \in Nat \ {0}
    BY <1>3
  <2>b. \A n \in Nat \ {0} : [run[w] EXCEPT !.next = n, !.known = L] \in Run
    BY <1>2, <2>1 DEF Run
  <2>2. r \in Run
    BY <2>a, <2>b
  <2>3. run' = [run EXCEPT ![w] = r]
    BY <1>9 DEF L
  <2>. QED
    BY <1>9, <2>2, <2>3 DEF Remembers, L
<1>10. KnownAt(w, item.path) \in ImportId \/ KnownAt(w, item.path) = NoPage
  BY <1>3 DEF Known, KnownAt
<1> DEFINE there == KnownAt(w, item.path)
<1>11. CASE /\ there # NoPage
            /\ run' = [run EXCEPT ![w].next = k + 1, ![w].known = Learned(w, item.path, there)]
            /\ UNCHANGED stock
  <2>1. Remembers(w, item, k, there)
    BY <1>9, <1>10, <1>11
  <2>. QED
    BY <1>7, <1>11, <2>1
<1>12. CASE /\ there = NoPage
            /\ PlannedParent(w, item) \in Here \cup {NoPage}
            /\ Len(Destination(w, item)) =< ImportDepth /\ PathFree(Destination(w, item))
            /\ stock' = WithPage(p, [live |-> TRUE, node |-> item.node,
                                     path |-> Destination(w, item), meant |-> item.path])
            /\ run' = [run EXCEPT ![w].next = k + 1, ![w].known = Learned(w, item.path, p)]
  <2>1. Remembers(w, item, k, p)
    BY <1>6, <1>9, <1>12
  <2>2. Puts(p, [live |-> TRUE, node |-> item.node, path |-> Destination(w, item), meant |-> item.path])
    BY <1>12, PutIn
  <2>3. \A q \in Here : stock[q].path # Destination(w, item)
    <3>1. StockAt(Destination(w, item)) = NoPage
      BY <1>12 DEF PathFree
    <3>. QED
      BY <1>1, <3>1, StockAtWell
  <2>4. Destination(w, item) \in ImportPath
    <3>1. CASE PlannedParent(w, item) = NoPage
      BY <1>8, <3>1 DEF Destination
    <3>2. CASE PlannedParent(w, item) # NoPage
      <4> DEFINE up == stock[PlannedParent(w, item)].path
                 last == item.path[Len(item.path)]
      <4>1. PlannedParent(w, item) \in DOMAIN stock
        BY <1>12, <3>2 DEF Here
      <4>2. stock[PlannedParent(w, item)] \in Page
        BY <1>1, <4>1 DEF StockOK
      <4>3. up \in Seq(Segment)
        BY <4>2 DEF Page, ImportPath
      <4>4. last \in Segment
        BY <1>8 DEF ImportPath
      <4>5. Destination(w, item) = Append(up, last)
        BY <3>2 DEF Destination
      <4> HIDE DEF up, last
      <4>6. Append(up, last) \in Seq(Segment) /\ Len(Append(up, last)) = Len(up) + 1 /\ Len(up) \in Nat
        BY <4>3, <4>4
      <4>7. Len(Append(up, last)) =< ImportDepth
        BY <1>12, <4>5
      <4>. QED
        BY <4>5, <4>6, <4>7, ImportAssumption DEF ImportPath
    <3>. QED
      BY <3>1, <3>2
  <2>5. MadePage(w, item, p)
    BY <1>12, <2>2, <2>3, <2>4 DEF MadePage
  <2>. QED
    BY <1>7, <2>1, <2>5
<1>. QED
  BY <1>11, <1>12 DEF WriteItem

LEMMA PlainPath ==
  ASSUME NEW path \in Plain
  PROVE  path \in ImportPath
<1>1. PICK t \in Title : path = <<Seg(t, 1)>>
  BY DEF Plain
<1>2. Seg(t, 1) \in Segment
  BY DEF Seg, Segment
<1>3. path \in Seq(Segment) /\ Len(path) = 1
  BY <1>1, <1>2
<1>4. 1 \in 1 .. ImportDepth
  BY ImportAssumption
<1>. QED
  BY <1>3, <1>4 DEF ImportPath

(* What the other actions do to the items, the runs and the stock.         *)
LEMMA StageDoes ==
  ASSUME StageRead
  PROVE  LET made == staging'.items
         IN staging'.pc = "placed" /\ made \in Seq(Item) /\ made # <<>> /\ Places(made)
<1> DEFINE made == staging'.items
<1>1. PICK nodes \in Parsed :
        staging' = [pc |-> "placed", items |-> [k \in DOMAIN PlaceNodes(nodes) |->
                   [PlaceNodes(nodes)[k] EXCEPT !.decision =
                      IF StockAt(PlaceNodes(nodes)[k].path) = NoPage THEN "create" ELSE "skip"]]]
  BY DEF StageRead
<1> DEFINE its == PlaceNodes(nodes)
           d(k) == IF StockAt(its[k].path) = NoPage THEN "create" ELSE "skip"
<1>2. its \in Seq(Item) /\ its # <<>> /\ Places(its)
  BY StagedPlaces, ImportAssumption
<1>3. made = [k \in DOMAIN its |-> [its[k] EXCEPT !.decision = d(k)]] /\ staging'.pc = "placed"
  BY <1>1
<1>4. \A k : d(k) \in Decision
  BY DEF Decision
<1> HIDE DEF its, d, made
<1>5. DOMAIN its = 1 .. Len(its) /\ Len(its) \in Nat
  BY <1>2
<1>6. \A k \in 1 .. Len(its) : /\ made[k] \in Item /\ made[k].node = its[k].node
                               /\ made[k].parent = its[k].parent /\ made[k].path = its[k].path
  <2>1. TAKE k \in 1 .. Len(its)
  <2>2. its[k] \in Item
    BY <1>2
  <2>3. made[k] = [its[k] EXCEPT !.decision = d(k)]
    BY <1>3, <1>5
  <2>. QED
    BY <1>4, <2>2, <2>3 DEF Item
<1>7. made \in [1 .. Len(its) -> Item]
  BY <1>3, <1>5, <1>6
<1>8. made \in Seq(Item) /\ Len(made) = Len(its)
  BY <1>5, <1>7
<1>9. Same(made, its)
  BY <1>5, <1>6, <1>8 DEF Same
<1>10. Places(made)
  BY <1>2, <1>8, <1>9, SamePlaces
<1>11. made # <<>>
  BY <1>2, <1>8
<1>. QED
  BY <1>3, <1>8, <1>10, <1>11 DEF made

LEMMA EditDoes ==
  ASSUME ImportTyped, EditWrite
  PROVE  /\ items' \in Seq(Item) /\ Len(items') = Len(items) /\ edit.item \in DOMAIN items
         /\ repathed \subseteq repathed' /\ repathed' \subseteq 1 .. MaxNodes
         /\ repathed' = {} => Same(items', items)
<1>1. edit \in Edit /\ edit.item \in DOMAIN items /\ items \in Seq(Item)
  BY DEF ImportTyped, EditOK, EditWrite, ItemsOK
<1> DEFINE k == edit.item
<1>2. k \in 1 .. Len(items) /\ Len(items) \in Nat /\ items[k] \in Item
  BY <1>1
<1>3. items[k].node \in 1 .. MaxNodes
  BY <1>2 DEF Item
<1>4. repathed \subseteq repathed' /\ repathed' \subseteq 1 .. MaxNodes
  BY <1>3 DEF EditWrite, ImportTyped, CountsOK
<1>5. repathed' = {} => edit.path = items[k].path
  BY DEF EditWrite
<1>6. CASE status = "deleted"
  <2>1. items' = items
    BY <1>6 DEF EditWrite
  <2>. QED
    BY <1>1, <1>4, <2>1 DEF Same
<1>7. CASE status # "deleted"
  <2> DEFINE it == [items[k] EXCEPT !.decision = edit.decision, !.path = edit.path]
  <2>1. items' = [items EXCEPT ![k] = it]
    BY <1>1, <1>7 DEF EditWrite
  <2>2. it \in Item /\ it.node = items[k].node /\ it.parent = items[k].parent /\ it.path = edit.path
    BY <1>1, <1>2 DEF Item, Edit
  <2> HIDE DEF it
  <2>3. items' \in Seq(Item) /\ Len(items') = Len(items)
    BY <1>1, <1>2, <2>1, <2>2
  <2>4. \A j \in DOMAIN items : items'[j] = IF j = k THEN it ELSE items[j]
    BY <2>1
  <2>5. repathed' = {} => Same(items', items)
    BY <1>5, <2>2, <2>3, <2>4 DEF Same
  <2>. QED
    BY <1>1, <1>4, <2>3, <2>5
<1>. QED
  BY <1>6, <1>7

Starts(w, mine, r) ==
    /\ mine = IF status = "deleted" THEN <<>> ELSE items
    /\ r \in Run /\ r.pc = "applying" /\ r.items = mine /\ Len(r.plan) = Len(mine)
    /\ \A k \in DOMAIN mine : r.plan[k] = PlanOf(w, mine[k])
    /\ DOMAIN r.known = {stock[p].path : p \in Here}
    /\ run' = [run EXCEPT ![w] = r]

LEMMA BeginDoes ==
  ASSUME ImportTyped, NEW w \in Applier, ApplyBegin(w)
  PROVE  \E mine, r : Starts(w, mine, r)
<1> DEFINE mine == IF status = "deleted" THEN <<>> ELSE items
           plan == [k \in DOMAIN mine |-> PlanOf(w, mine[k])]
           known == [path \in {stock[p].path : p \in Here} |-> StockAt(path)]
           r == [run[w] EXCEPT !.pc = "applying", !.items = mine, !.plan = plan, !.known = known]
<1>1. StockOK /\ run[w] \in Run
  BY DEF ImportTyped, RunOK
<1>2. mine \in Seq(Item) /\ DOMAIN mine = 1 .. Len(mine) /\ Len(mine) \in Nat
  BY DEF ImportTyped, ItemsOK
<1> HIDE DEF mine
<1>3. ASSUME NEW k \in 1 .. Len(mine) PROVE PlanOf(w, mine[k]) \in ImportId \cup {NoPage}
  <2>1. mine[k] \in Item
    BY <1>2
  <2>2. <<w, mine[k].node>> \in ImportId
    BY <2>1, IdsApart DEF Item
  <2>3. StockAt(mine[k].path) \in ImportId \cup {NoPage}
    BY <1>1, StockAtWell
  <2>. QED
    BY <2>2, <2>3 DEF PlanOf
<1>4. plan \in [1 .. Len(mine) -> ImportId \cup {NoPage}]
  BY <1>2, <1>3
<1>5. \A k \in DOMAIN mine : plan[k] = PlanOf(w, mine[k])
  OBVIOUS
<1> HIDE DEF plan
<1>6. plan \in Seq(ImportId \cup {NoPage}) /\ Len(plan) = Len(mine)
  BY <1>2, <1>4
<1>7. known \in Known /\ DOMAIN known = {stock[p].path : p \in Here}
  <2> DEFINE S == {stock[p].path : p \in Here}
  <2>1. S \in SUBSET ImportPath
    <3>1. \A p \in Here : stock[p] \in Page
      BY <1>1 DEF StockOK, Here
    <3>. QED
      BY <3>1 DEF Page
  <2>2. \A path \in S : StockAt(path) \in ImportId
    <3>1. TAKE path \in S
    <3>2. \E p \in Here : stock[p].path = path
      BY <3>1
    <3>. QED
      BY <1>1, <3>2, StockAtWell
  <2> HIDE DEF S
  <2>3. [path \in S |-> StockAt(path)] \in [S -> ImportId]
    BY <2>2
  <2>. QED
    BY <2>1, <2>3 DEF Known, S
<1> HIDE DEF known
<1>8. r \in Run /\ r.pc = "applying" /\ r.items = mine /\ r.plan = plan /\ r.known = known
  BY <1>1, <1>2, <1>6, <1>7 DEF Run
<1>9. run' = [run EXCEPT ![w] = r]
  BY DEF ApplyBegin, mine, plan, known
<1> HIDE DEF r
<1>10. Starts(w, mine, r)
  BY <1>5, <1>6, <1>7, <1>8, <1>9 DEF Starts, mine
<1>. QED
  BY <1>10

(* The other actions of a run leave it with the same items, or with none.  *)
Goes(w, r) ==
    /\ r \in Run /\ run' = [run EXCEPT ![w] = r]
    /\ \/ /\ r.items = run[w].items /\ r.plan = run[w].plan /\ r.known = run[w].known
          /\ r.pc = "applying" \/ (r.pc = "checked" /\ InReview)
       \/ r.items = <<>> /\ r.plan = <<>> /\ r.pc = "done"

LEMMA OthersDo ==
  ASSUME ImportTyped, NEW w \in Applier,
         ApplyCheck(w) \/ SkipItem(w) \/ ApplyEnd(w) \/ ApplyDies(w)
  PROVE  \E r : Goes(w, r)
<1>1. run[w] \in Run
  BY DEF ImportTyped, RunOK
<1>2. CASE ApplyCheck(w)
  <2> DEFINE r == [run[w] EXCEPT !.pc = "checked"]
  <2>1. r \in Run /\ r.items = run[w].items /\ r.plan = run[w].plan /\ r.known = run[w].known /\ r.pc = "checked"
    BY <1>1 DEF Run
  <2>2. run' = [run EXCEPT ![w] = r] /\ InReview
    BY <1>2 DEF ApplyCheck
  <2> HIDE DEF r
  <2>3. Goes(w, r)
    BY <2>1, <2>2 DEF Goes
  <2>. QED
    BY <2>3
<1>3. CASE SkipItem(w)
  <2> DEFINE n == run[w].next + 1
             r == [run[w] EXCEPT !.next = n]
  <2>1. n \in Nat \ {0}
    BY <1>1 DEF Run
  <2>2. run' = [run EXCEPT ![w] = r] /\ run[w].pc = "applying"
    BY <1>3 DEF SkipItem
  <2> HIDE DEF n
  <2>3. r \in Run /\ r.items = run[w].items /\ r.plan = run[w].plan /\ r.known = run[w].known /\ r.pc = run[w].pc
    BY <1>1, <2>1 DEF Run
  <2> HIDE DEF r
  <2>4. Goes(w, r)
    BY <2>2, <2>3 DEF Goes
  <2>. QED
    BY <2>4
<1>4. CASE ApplyEnd(w) \/ ApplyDies(w)
  <2> DEFINE r == [NoRun EXCEPT !.pc = "done"]
  <2>1. r \in Run /\ r.items = <<>> /\ r.plan = <<>> /\ r.pc = "done"
    BY NoRunTyped DEF NoRun
  <2>2. run' = [run EXCEPT ![w] = r]
    BY <1>4 DEF ApplyEnd, ApplyDies
  <2> HIDE DEF r
  <2>3. Goes(w, r)
    BY <2>1, <2>2 DEF Goes
  <2>. QED
    BY <2>3
<1>. QED
  BY <1>2, <1>3, <1>4

LEMMA DeleteDoes ==
  ASSUME StockOK, NEW p, PersonDeletes(p)
  PROVE  /\ StockOK' /\ DOMAIN stock' = DOMAIN stock
         /\ \A x \in DOMAIN stock : stock'[x].path = stock[x].path /\ stock'[x].node = stock[x].node
<1> DEFINE d(x) == stock[x].live /\ x \notin Beneath(p)
<1>1. stock' = [x \in DOMAIN stock |-> [stock[x] EXCEPT !.live = d(x)]]
  BY DEF PersonDeletes
<1>2. \A x : (d(x) \in BOOLEAN) /\ (d(x) => stock[x].live)
  OBVIOUS
<1> HIDE DEF d
<1>3. ASSUME NEW x \in DOMAIN stock
      PROVE  /\ stock'[x] \in Page /\ stock'[x].path = stock[x].path /\ stock'[x].node = stock[x].node
             /\ stock'[x].live = d(x)
  <2>1. stock[x] \in Page
    BY <1>3 DEF StockOK
  <2>2. stock'[x] = [stock[x] EXCEPT !.live = d(x)]
    BY <1>1
  <2>. QED
    BY <1>2, <2>1, <2>2 DEF Page
<1>4. DOMAIN stock' = DOMAIN stock
  BY <1>1
<1>5. stock' \in [DOMAIN stock' -> Page] /\ DOMAIN stock' \subseteq ImportId
  BY <1>1, <1>3, <1>4 DEF StockOK
<1>6. Here' \subseteq Here
  BY <1>2, <1>3, <1>4, Zenon DEF Here
<1>7. \A q, r \in Here' : stock'[q].path = stock'[r].path => q = r
  <2>1. \A q \in Here' : q \in Here /\ stock'[q].path = stock[q].path
    BY <1>3, <1>6 DEF Here
  <2>. QED
    BY <2>1 DEF StockOK
<1>8. StockOK'
  BY <1>5, <1>7 DEF StockOK
<1>. QED
  BY <1>3, <1>4, <1>8

LEMMA StagingStart == ASSUME ImportInit PROVE StagingOK
  BY DEF ImportInit, NoStaging, StagingOK

LEMMA StagingStep ==
  ASSUME ImportTyped, StagingOK, [ImportNext]_importVars
  PROVE  StagingOK'
<1>1. ASSUME UNCHANGED <<staging, items>>, status' = "none" => status = "none" PROVE StagingOK'
  BY <1>1 DEF StagingOK
<1>2. CASE CreateImport
  BY <1>2 DEF CreateImport, StagingOK, NoStaging
<1>3. CASE StageRead
  BY <1>3, StageDoes DEF StageRead, StagingOK
<1>4. CASE StageInsert
  BY <1>4 DEF StageInsert, StagingOK, NoStaging
<1>5. CASE StageDone \/ StageFailed
  BY <1>5 DEF StageDone, StageFailed, StagingEnds, SetStatus, StagingOK, NoStaging
<1>6. CASE EditWrite
  <2>1. items' \in Seq(Item) /\ Len(items') = Len(items) /\ items \in Seq(Item)
    BY <1>6, EditDoes DEF ImportTyped, ItemsOK
  <2>2. items # <<>> /\ items' # <<>>
    <3>1. edit.item \in DOMAIN items
      BY <1>6 DEF EditWrite, ImportTyped, EditOK
    <3>. QED
      BY <2>1, <3>1
  <2>. QED
    BY <1>6, <2>2 DEF EditWrite, StagingOK
<1>7. ASSUME NEW w \in Applier, ApplyCheck(w) \/ ApplyBegin(w) \/ WriteItem(w) \/ SkipItem(w) \/ ApplyEnd(w) \/ ApplyDies(w)
      PROVE  StagingOK'
  BY <1>1, <1>7 DEF ApplyCheck, ApplyBegin, WriteItem, SkipItem, ApplyEnd, ApplyDies, SetStatus
<1>8. CASE \/ CancelImport \/ DeleteImport \/ UNCHANGED importVars
           \/ (\E k \in DOMAIN items, d \in Decision : \E path \in Plain \cup {items[k].path} :
                 EditCheck(k, d, path))
           \/ (\E path \in Plain : PersonCreates(path)) \/ (\E p \in ImportId : PersonDeletes(p))
  BY <1>1, <1>8 DEF CancelImport, DeleteImport, EditCheck, PersonCreates, PersonDeletes,
                    importVars, UnchangedImport
<1>. QED
  BY <1>2, <1>3, <1>4, <1>5, <1>6, <1>7, <1>8 DEF ImportNext

LEMMA ImportTypedStep ==
  ASSUME ImportTyped, StagingOK, [ImportNext]_importVars
  PROVE  ImportTyped'
<1>0. StatusOK /\ ItemsOK /\ EditOK /\ CountsOK /\ RunOK /\ StockOK
  BY DEF ImportTyped
<1>1. ASSUME UNCHANGED <<items, edit, edits, run, stock, repathed>>, StatusOK' PROVE ImportTyped'
  BY <1>0, <1>1 DEF ImportTyped, ItemsOK, EditOK, CountsOK, RunOK, StockOK, Here
<1>2. CASE CreateImport \/ StageRead \/ StageDone \/ StageFailed \/ CancelImport \/ DeleteImport
  <2>1. UNCHANGED <<items, edit, edits, run, stock, repathed>>
    BY <1>2 DEF CreateImport, StageRead, StageDone, StageFailed, CancelImport, DeleteImport,
                StagingEnds, UnchangedImport
  <2>2. StatusOK'
    BY <1>0, <1>2 DEF CreateImport, StageRead, StageDone, StageFailed, CancelImport, DeleteImport,
                      SetStatus, StatusOK
  <2>. QED
    BY <1>1, <2>1, <2>2
<1>3. CASE StageInsert
  <2>1. items = <<>> /\ items' \in Seq(Item)
    BY <1>3 DEF StageInsert, StagingOK
  <2>2. edit = NoEdit
    BY <1>0, <2>1 DEF EditOK
  <2>. QED
    BY <1>0, <1>3, <2>1, <2>2
       DEF StageInsert, ImportTyped, StatusOK, ItemsOK, EditOK, CountsOK, RunOK, StockOK, Here
<1>4. ASSUME NEW k \in DOMAIN items, NEW d \in Decision, NEW path \in Plain \cup {items[k].path},
             EditCheck(k, d, path)
      PROVE  ImportTyped'
  <2>1. items \in Seq(Item) /\ k \in Nat
    BY <1>0, <1>4 DEF ItemsOK
  <2>2. path \in ImportPath
    <3>1. CASE path = items[k].path
      <4>1. items[k] \in Item
        BY <1>4, <2>1
      <4>. QED
        BY <3>1, <4>1 DEF Item
    <3>2. CASE path \in Plain
      BY <3>2, PlainPath
    <3>. QED
      BY <3>1, <3>2
  <2>3. edit' \in Edit /\ edit'.item = k
    BY <1>4, <2>1, <2>2 DEF EditCheck, Edit
  <2>4. CountsOK'
    BY <1>0, <1>4, ImportAssumption DEF CountsOK, EditCheck
  <2>. QED
    BY <1>0, <1>4, <2>3, <2>4 DEF EditCheck, ImportTyped, StatusOK, ItemsOK, EditOK, RunOK, StockOK, Here
<1>5. CASE EditWrite
  <2>1. ItemsOK' /\ CountsOK'
    BY <1>0, <1>5, EditDoes DEF ImportTyped, ItemsOK, CountsOK, EditWrite
  <2>. QED
    BY <1>0, <1>5, <2>1 DEF EditWrite, ImportTyped, StatusOK, EditOK, RunOK, StockOK, Here
<1>6. ASSUME NEW w \in Applier, NEW r \in Run, Len(r.plan) = Len(r.items), run' = [run EXCEPT ![w] = r],
             UNCHANGED <<items, edit, edits, stock, repathed>>, StatusOK'
      PROVE  ImportTyped'
  <2>1. RunOK'
    BY <1>0, <1>6, RunSet
  <2>. QED
    BY <1>0, <1>6, <2>1 DEF ImportTyped, ItemsOK, EditOK, CountsOK, StockOK, Here
<1>7. ASSUME NEW w \in Applier, ApplyCheck(w) \/ SkipItem(w) \/ ApplyEnd(w) \/ ApplyDies(w) PROVE ImportTyped'
  <2>1. PICK r : Goes(w, r)
    BY <1>7, OthersDo
  <2>2. Len(r.plan) = Len(r.items)
    BY <1>0, <2>1 DEF Goes, RunOK
  <2>3. StatusOK' /\ UNCHANGED <<items, edit, edits, stock, repathed>>
    BY <1>0, <1>7 DEF ApplyCheck, SkipItem, ApplyEnd, ApplyDies, SetStatus, StatusOK
  <2>. QED
    BY <1>6, <2>1, <2>2, <2>3 DEF Goes
<1>8. ASSUME NEW w \in Applier, ApplyBegin(w) PROVE ImportTyped'
  <2>1. PICK mine, r : Starts(w, mine, r)
    BY <1>8, BeginDoes
  <2>2. StatusOK' /\ UNCHANGED <<items, edit, edits, stock, repathed>>
    BY <1>0, <1>8 DEF ApplyBegin, SetStatus, StatusOK
  <2>. QED
    BY <1>6, <2>1, <2>2 DEF Starts
<1>9. ASSUME NEW w \in Applier, WriteItem(w) PROVE ImportTyped'
  <2>1. PICK item, p, there : /\ Wrote(w, item, p) /\ Remembers(w, item, run[w].next, there)
                              /\ UNCHANGED stock \/ MadePage(w, item, p)
    BY <1>9, WriteItemDoes
  <2> DEFINE r == [run[w] EXCEPT !.next = run[w].next + 1, !.known = Learned(w, item.path, there)]
  <2>2. r \in Run /\ run' = [run EXCEPT ![w] = r]
    BY <2>1 DEF Remembers
  <2>3. r.plan = run[w].plan /\ r.items = run[w].items
    BY <1>0 DEF RunOK, Run
  <2> HIDE DEF r
  <2>4. RunOK'
    <3>1. Len(r.plan) = Len(r.items)
      BY <1>0, <2>3 DEF RunOK
    <3>. QED
      BY <1>0, <2>2, <3>1, RunSet
  <2>5. StockOK'
    <3>1. CASE UNCHANGED stock
      BY <1>0, <3>1 DEF StockOK, Here
    <3>2. CASE MadePage(w, item, p)
      <4> DEFINE page == [live |-> TRUE, node |-> item.node, path |-> Destination(w, item), meant |-> item.path]
      <4>1. Destination(w, item) \in ImportPath /\ item \in Item /\ p \in ImportId
        BY <2>1, <3>2 DEF MadePage, Wrote
      <4>2. item.node \in 0 .. MaxNodes /\ item.path \in ImportPath
        BY <4>1, ImportAssumption DEF Item
      <4>3. page \in Page /\ page.path = Destination(w, item)
        BY <4>1, <4>2 DEF Page
      <4>4. Puts(p, page) /\ \A q \in Here : stock[q].path # Destination(w, item)
        BY <3>2 DEF MadePage
      <4> HIDE DEF page
      <4>. QED
        BY <1>0, <4>1, <4>3, <4>4, PutTyped
    <3>. QED
      BY <2>1, <3>1, <3>2
  <2>. QED
    BY <1>0, <1>9, <2>4, <2>5 DEF WriteItem, ImportTyped, StatusOK, ItemsOK, EditOK, CountsOK
<1>10. ASSUME NEW path \in Plain, PersonCreates(path) PROVE ImportTyped'
  <2> DEFINE page == [live |-> TRUE, node |-> 0, path |-> path, meant |-> path]
  <2>3. path \in ImportPath
    BY PlainPath
  <2>4. page \in Page /\ page.path = path
    BY <2>3, ImportAssumption DEF Page
  <2>5. Puts(<<"person", 1>>, page)
    BY <1>10, PutIn DEF PersonCreates
  <2>6. \A q \in Here : stock[q].path # path
    BY <1>0, <1>10, StockAtWell DEF PersonCreates, PathFree
  <2> HIDE DEF page
  <2>7. StockOK'
    BY <1>0, <2>4, <2>5, <2>6, PutTyped, IdsApart
  <2>. QED
    BY <1>0, <1>10, <2>7 DEF PersonCreates, ImportTyped, StatusOK, ItemsOK, EditOK, CountsOK, RunOK
<1>11. ASSUME NEW p \in ImportId, PersonDeletes(p) PROVE ImportTyped'
  <2>1. StockOK'
    BY <1>0, <1>11, DeleteDoes
  <2>. QED
    BY <1>0, <1>11, <2>1 DEF PersonDeletes, ImportTyped, StatusOK, ItemsOK, EditOK, CountsOK, RunOK
<1>12. CASE UNCHANGED importVars
  BY <1>0, <1>1, <1>12 DEF importVars, UnchangedImport, StatusOK
<1>. QED
  BY <1>2, <1>3, <1>4, <1>5, <1>7, <1>8, <1>9, <1>10, <1>11, <1>12 DEF ImportNext

(* Statuses, decisions, counts and runs stay in their types; every page of *)
(* the space has a path of its own, no deeper than the limit.              *)
THEOREM ImportTypeCorrect == ImportSpec => []ImportTypeOK
<1>1. ImportInit => ImportTyped /\ StagingOK
  BY ImportStart, StagingStart
<1>2. ImportTyped /\ StagingOK /\ [ImportNext]_importVars => ImportTyped' /\ StagingOK'
  BY ImportTypedStep, StagingStep
<1>3. ImportTyped /\ StagingOK => ImportTypeOK
  <2>1. SUFFICES ASSUME ImportTyped, StagingOK PROVE ImportTypeOK
    OBVIOUS
  <2>2. \A k \in DOMAIN items : items[k].decision \in Decision
    <3>1. TAKE k \in DOMAIN items
    <3>2. items[k] \in Item
      BY <2>1, <3>1 DEF ImportTyped, ItemsOK
    <3>. QED
      BY <3>2 DEF Item
  <2>3. \A w \in Applier : run[w].pc \in {"idle", "checked", "applying", "done"}
    BY <2>1 DEF ImportTyped, RunOK, Run
  <2>4. \A p \in DOMAIN stock : p \in ImportId /\ Len(stock[p].path) \in 1 .. ImportDepth
    <3>1. TAKE p \in DOMAIN stock
    <3>2. stock[p] \in Page /\ p \in ImportId
      BY <2>1, <3>1 DEF ImportTyped, StockOK
    <3>. QED
      BY <3>2 DEF Page, ImportPath
  <2>. QED
    BY <2>1, <2>2, <2>3, <2>4 DEF ImportTypeOK, ImportTyped, StagingOK, StatusOK, CountsOK, StockOK
<1>. QED
  BY <1>1, <1>2, <1>3, PTL DEF ImportSpec

----------------------------------------------------------------------------
(* Placement, as it is staged and reviewed.                                *)
(* The items stand where they were placed until one is given another path, *)
(* and an edit under way counts.                                           *)
PlacesOK ==
    /\ repathed = {} => Places(items)
    /\ edits = 0 => edit = NoEdit /\ repathed = {}
    /\ status = "review" => items # <<>>

LEMMA PlacesStart ==
  ASSUME ImportInit
  PROVE  PlacesOK
<1>1. items = <<>> /\ DOMAIN items = {}
  BY DEF ImportInit
<1>2. Places(items)
  BY <1>1 DEF Places, Spaced, Distinct
<1>. QED
  BY <1>2 DEF ImportInit, PlacesOK

LEMMA PlacesStep ==
  ASSUME ImportTyped, StagingOK, PlacesOK, [ImportNext]_importVars
  PROVE  PlacesOK'
<1>1. ASSUME UNCHANGED <<items, edit, edits, repathed>>, status' = "review" => status = "review" \/ items # <<>>
      PROVE  PlacesOK'
  <2>1. repathed' = {} => Places(items')
    BY <1>1 DEF PlacesOK
  <2>. QED
    BY <1>1, <2>1 DEF PlacesOK
<1>2. CASE StageInsert
  BY <1>2 DEF PlacesOK, StageInsert, StagingOK
<1>3. CASE \E k \in DOMAIN items, d \in Decision : \E path \in Plain \cup {items[k].path} :
             EditCheck(k, d, path)
  <2>1. edits' = edits + 1 /\ edits \in Nat /\ UNCHANGED <<status, items, repathed>>
    BY <1>3 DEF EditCheck, ImportTyped, CountsOK
  <2>2. edits' # 0
    BY <2>1
  <2>3. repathed = {} => Places(items')
    BY <2>1 DEF PlacesOK
  <2>. QED
    BY <2>1, <2>2, <2>3 DEF PlacesOK
<1>4. CASE EditWrite
  <2>1. /\ items' \in Seq(Item) /\ Len(items') = Len(items) /\ items \in Seq(Item)
        /\ repathed \subseteq repathed' /\ (repathed' = {} => Same(items', items))
    BY <1>4, EditDoes DEF ImportTyped, ItemsOK
  <2>2. repathed' = {} => Places(items')
    BY <2>1, SamePlaces DEF PlacesOK
  <2>3. edits' # 0 /\ status' = status
    BY <1>4 DEF EditWrite, PlacesOK
  <2>4. status = "review" => items' # <<>>
    BY <2>1 DEF PlacesOK
  <2>. QED
    BY <2>2, <2>3, <2>4 DEF PlacesOK
<1>5. ASSUME NEW w \in Applier, ApplyCheck(w) \/ ApplyBegin(w) \/ WriteItem(w) \/ SkipItem(w) \/ ApplyEnd(w) \/ ApplyDies(w)
      PROVE  PlacesOK'
  BY <1>1, <1>5 DEF ApplyCheck, ApplyBegin, WriteItem, SkipItem, ApplyEnd, ApplyDies, SetStatus
<1>6. CASE \/ CreateImport \/ StageRead \/ StageDone \/ StageFailed \/ CancelImport \/ DeleteImport
           \/ (\E path \in Plain : PersonCreates(path)) \/ (\E p \in ImportId : PersonDeletes(p))
           \/ UNCHANGED importVars
  BY <1>1, <1>6 DEF CreateImport, StageRead, StageDone, StageFailed, CancelImport, DeleteImport,
                    PersonCreates, PersonDeletes, importVars, UnchangedImport, StagingEnds, SetStatus,
                    StagingOK
<1>. QED
  BY <1>2, <1>3, <1>4, <1>5, <1>6 DEF ImportNext

(* Until something is edited every node has one place, two have the same   *)
(* only if all the numbers tried for the name are taken, none is too deep, *)
(* and a node is under its parent unless its parents go in a circle: for   *)
(* any node lists, limit and spread.                                       *)
THEOREM PlacementAlwaysWell == ImportSpec => []PlacedWell
<1>1. ImportInit => ImportTyped /\ StagingOK /\ PlacesOK
  BY ImportStart, StagingStart, PlacesStart
<1>2. ImportTyped /\ StagingOK /\ PlacesOK /\ [ImportNext]_importVars => ImportTyped' /\ StagingOK' /\ PlacesOK'
  BY ImportTypedStep, StagingStep, PlacesStep
<1>3. ImportTyped /\ PlacesOK => PlacedWell
  <2>1. SUFFICES ASSUME ImportTyped, PlacesOK, edits = 0 
                 PROVE  /\ {items[k].node : k \in DOMAIN items} = DOMAIN items
                        /\ \A k, j \in DOMAIN items :
                             /\ k # j /\ items[k].path = items[j].path => Crowded(items, items[k].path)
                             /\ Len(items[k].path) =< ImportDepth
                             /\ items[k].parent = items[j].node /\ j < k =>
                                  Under(items[k].path, items[j].path)
                        /\ \A k, j \in DOMAIN items :
                             k =< j /\ items[k].parent = items[j].node =>
                               \E S \in SUBSET DOMAIN items : k \in S /\ Ring(items, S)
    BY DEF PlacedWell, Under, Ring, Crowded
  <2>2. Places(items) /\ items \in Seq(Item)
    BY <2>1 DEF PlacesOK, ImportTyped, ItemsOK
  <2>3. ASSUME NEW k \in DOMAIN items PROVE Len(items[k].path) =< ImportDepth
    <3>1. items[k] \in Item
      BY <2>2, <2>3
    <3>. QED
      BY <3>1, ImportAssumption DEF Item, ImportPath
  <2>. QED
    BY <2>2, <2>3 DEF Places, Spaced
<1>. QED
  BY <1>1, <1>2, <1>3, PTL DEF ImportSpec

----------------------------------------------------------------------------
(* One page for a node.  What is below what, rings apart:                  *)
Settled(its) ==
    \A k, j \in DOMAIN its : its[k].parent = its[j].node => Under(its[k].path, its[j].path)

(* A run goes by the items as they are placed.                             *)
RunsOK ==
    \A w \in Applier :
      /\ run[w].pc = "checked" => items # <<>> /\ Settled(items)
      /\ run[w].items # <<>> => Same(run[w].items, items) /\ Settled(items)

(* A page of the import is where its item was to go.                       *)
PageOK(p) ==
    \/ p = <<"person", 1>> /\ stock[p].node = 0
    \/ /\ p # <<"person", 1>>
       /\ \E k \in DOMAIN items : /\ items[k].node = p[2] /\ stock[p].node = p[2]
                                  /\ stock[p].path = items[k].path
PagesOK == \A p \in DOMAIN stock : PageOK(p)

(* A planned page is a new one, or one that was at the path before.        *)
PlannedOK(w, k) ==
    LET p == run[w].plan[k]
    IN \/ p = NoPage
       \/ p = <<w, run[w].items[k].node>>
       \/ /\ p \in DOMAIN stock /\ stock[p].path = run[w].items[k].path
          /\ run[w].items[k].path \in DOMAIN run[w].known
PlansOK == \A w \in Applier : \A k \in DOMAIN run[w].items : PlannedOK(w, k)

InPlace == repathed = {} => RunsOK /\ PagesOK /\ PlansOK

(* No list of nodes that is reviewed has parents that go in a circle.      *)
NoRings ==
    \A nodes \in Reviewed : \A S \in SUBSET DOMAIN nodes :
      (\A i \in S : nodes[i].parent \in S) => S = {}

LEMMA ReviewSettled ==
  ASSUME NoRings, ItemsOK, Places(items), InReview
  PROVE  Settled(items)
<1>1. PICK nodes \in Reviewed :
        /\ Len(nodes) = Len(items)
        /\ \A k \in DOMAIN items :
             nodes[items[k].node] = [title |-> items[k].title, parent |-> items[k].parent]
  BY DEF InReview
<1>2. DOMAIN nodes = DOMAIN items
  <2>1. nodes \in Seq([title : Title, parent : Nat]) /\ items \in Seq(Item)
    BY ImportAssumption DEF ItemsOK
  <2>. QED
    BY <1>1, <2>1
<1>3. SUFFICES ASSUME NEW k \in DOMAIN items, NEW j \in DOMAIN items, items[k].parent = items[j].node
               PROVE  Under(items[k].path, items[j].path)
  BY DEF Settled
<1>4. k \in Nat /\ j \in Nat
  BY DEF ItemsOK
<1>5. CASE j < k
  BY <1>3, <1>5 DEF Places
<1>6. CASE k =< j
  <2>1. PICK S \in SUBSET DOMAIN items : k \in S /\ Ring(items, S)
    BY <1>3, <1>6 DEF Places
  <2> DEFINE T == {items[s].node : s \in S}
  <2>2. T \in SUBSET DOMAIN nodes
    BY <1>2 DEF Places
  <2>3. ASSUME NEW i \in T PROVE nodes[i].parent \in T
    <3>1. PICK s \in S : i = items[s].node
      BY <2>3
    <3>2. nodes[i].parent = items[s].parent
      <4>1. nodes[items[s].node] = [title |-> items[s].title, parent |-> items[s].parent]
        BY <1>1
      <4>. QED
        BY <3>1, <4>1
    <3>3. PICK r \in S : items[s].parent = items[r].node
      BY <2>1, <3>1 DEF Ring
    <3>. QED
      BY <3>2, <3>3
  <2>4. items[k].node \in T
    BY <2>1
  <2> HIDE DEF T
  <2>5. T = {}
    BY <1>1, <2>2, <2>3 DEF NoRings
  <2>. QED
    BY <2>4, <2>5
<1>. QED
  BY <1>4, <1>5, <1>6

(* What is not where it was keeps its place.                               *)
LEMMA SameSettled ==
  ASSUME NEW its \in Seq(Item), NEW those \in Seq(Item), Same(its, those), Settled(those)
  PROVE  Settled(its)
<1>1. DOMAIN its = DOMAIN those
  BY DEF Same
<1>. QED
  BY <1>1 DEF Same, Settled

StockGrows ==
    /\ DOMAIN stock \subseteq DOMAIN stock'
    /\ \A p \in DOMAIN stock : stock'[p].path = stock[p].path

LEMMA PlansKept ==
  ASSUME PlansOK, StockGrows, UNCHANGED run
  PROVE  PlansOK'
  BY DEF PlansOK, PlannedOK, StockGrows

(* A run is changed: the others still go by the items, and it does.        *)
LEMMA RunsKept ==
  ASSUME ImportTyped, RunsOK, PlansOK, StockGrows, UNCHANGED items,
         NEW w \in Applier, NEW r \in Run, Len(r.plan) = Len(r.items), run' = [run EXCEPT ![w] = r],
         r.pc = "checked" => items # <<>> /\ Settled(items),
         r.items # <<>> => Same(r.items, items) /\ Settled(items),
         \A k \in DOMAIN r.items : PlannedOK(w, k)'
  PROVE  RunsOK' /\ PlansOK'
<1>1. run'[w] = r /\ \A v \in Applier \ {w} : run'[v] = run[v]
  BY RunSet DEF ImportTyped
<1>2. RunsOK'
  <2>1. SUFFICES ASSUME NEW v \in Applier
                 PROVE  /\ run'[v].pc = "checked" => items # <<>> /\ Settled(items)
                        /\ run'[v].items # <<>> => Same(run'[v].items, items) /\ Settled(items)
    BY DEF RunsOK, Settled, Same
  <2>2. CASE v = w
    BY <1>1, <2>2
  <2>3. CASE v # w
    BY <1>1, <2>3 DEF RunsOK
  <2>. QED
    BY <2>2, <2>3
<1>3. PlansOK'
  <2>1. SUFFICES ASSUME NEW v \in Applier, NEW k \in DOMAIN run'[v].items PROVE PlannedOK(v, k)'
    BY DEF PlansOK
  <2>2. CASE v = w
    BY <1>1, <2>1, <2>2
  <2>3. CASE v # w
    <3>1. run'[v] = run[v]
      BY <1>1, <2>3
    <3>2. PlannedOK(v, k)
      BY <2>1, <3>1 DEF PlansOK
    <3>. QED
      BY <3>1, <3>2 DEF PlannedOK, StockGrows
  <2>. QED
    BY <2>2, <2>3
<1>. QED
  BY <1>2, <1>3

(* While the items stand where they were placed, what a run writes goes to *)
(* the path of its item, for a page of its own.                            *)
LEMMA WritesInPlace ==
  ASSUME ImportTyped, Places(items), RunsOK, PagesOK, PlansOK,
         NEW w \in Applier, NEW item, NEW p, Wrote(w, item, p), MadePage(w, item, p)
  PROVE  /\ p = <<w, item.node>> /\ Destination(w, item) = item.path
         /\ \E k \in DOMAIN items : items[k].node = item.node /\ items[k].path = item.path
<1> DEFINE n == run[w].next
           its == run[w].items
<1>1. /\ run[w] \in Run /\ its \in Seq(Item) /\ items \in Seq(Item)
      /\ n \in DOMAIN its /\ item = its[n] /\ p = run[w].plan[n]
      /\ p \in ImportId /\ p # NoPage
  BY IdsApart DEF ImportTyped, RunOK, Run, ItemsOK, Wrote
<1>2. its # <<>>
  BY <1>1
<1>3. Same(its, items) /\ Settled(items)
  BY <1>2 DEF RunsOK
<1>4. /\ DOMAIN its = DOMAIN items
      /\ \A k \in DOMAIN items : /\ its[k].node = items[k].node
                                 /\ its[k].parent = items[k].parent
                                 /\ its[k].path = items[k].path
  BY <1>1, <1>3 DEF Same
<1>5. item.node = items[n].node /\ item.parent = items[n].parent /\ item.path = items[n].path
      /\ n \in DOMAIN items
  BY <1>1, <1>4
<1>6. p = <<w, item.node>>
  <2>1. item.path \notin DOMAIN run[w].known
    <3>1. SUFFICES ASSUME item.path \in DOMAIN run[w].known PROVE FALSE
      OBVIOUS
    <3>2. run[w].known[item.path] \in ImportId
      BY <1>1, <3>1 DEF Run, Known
    <3>. QED
      BY <3>1, <3>2, IdsApart DEF MadePage, KnownAt
  <2>2. PlannedOK(w, n)
    BY <1>1 DEF PlansOK
  <2>. QED
    BY <1>1, <2>1, <2>2 DEF PlannedOK
<1>7. Destination(w, item) = item.path
  <2>1. CASE PlannedParent(w, item) = NoPage
    BY <2>1 DEF Destination
  <2>2. CASE PlannedParent(w, item) # NoPage
    <3> DEFINE up == PlannedParent(w, item)
               over == {k \in DOMAIN its : its[k].node = item.parent}
    <3>1. up \in DOMAIN stock /\ up \in ImportId
      BY <2>2 DEF MadePage, Here, ImportTyped, StockOK
    <3>2. PICK k \in DOMAIN its : its[k].node = item.parent /\ up = run[w].plan[k]
      <4>1. over # {} /\ up = run[w].plan[CHOOSE k \in over : TRUE]
        BY <2>2 DEF PlannedParent
      <4>2. (CHOOSE k \in over : TRUE) \in over
        BY <4>1
      <4>. QED
        BY <4>1, <4>2
    <3>3. items[n].parent = items[k].node /\ k \in DOMAIN items
      BY <1>4, <1>5, <3>2
    <3>4. Under(item.path, items[k].path)
      BY <1>3, <1>5, <3>3 DEF Settled
    <3>5. stock[up].path = items[k].path
      <4>1. PlannedOK(w, k)
        BY <3>2 DEF PlansOK
      <4>2. CASE up = <<w, its[k].node>>
        <5>1. its[k].node \in 1 .. MaxNodes
          <6>1. its[k] \in Item
            BY <1>1, <3>2
          <6>. QED
            BY <6>1 DEF Item
        <5>2. up # <<"person", 1>>
          BY <4>2, <5>1, IdsApart
        <5>3. PICK j \in DOMAIN items : items[j].node = up[2] /\ stock[up].path = items[j].path
          BY <3>1, <5>2 DEF PagesOK, PageOK
        <5>4. items[j].node = items[k].node
          BY <1>4, <3>3, <4>2, <5>3
        <5>5. j = k
          BY <3>3, <5>4 DEF Places
        <5>. QED
          BY <5>3, <5>5
      <4>3. CASE stock[up].path = its[k].path
        BY <1>4, <3>3, <4>3
      <4>. QED
        BY <2>2, <3>2, <4>1, <4>2, <4>3 DEF PlannedOK
    <3> DEFINE above == stock[up].path
               last == item.path[Len(item.path)]
    <3>6. Destination(w, item) = Append(above, last)
      BY <2>2 DEF Destination
    <3>7. /\ item.path \in Seq(Segment) /\ Len(item.path) \in Nat \ {0}
          /\ above \in Seq(Segment) /\ Len(above) \in Nat
      <4>1. items[n] \in Item /\ stock[up] \in Page
        BY <1>1, <1>5, <3>1 DEF ImportTyped, StockOK
      <4>2. item.path \in ImportPath /\ above \in ImportPath
        BY <1>5, <4>1 DEF Item, Page
      <4>. QED
        BY <4>2 DEF ImportPath
    <3>8. Len(Append(above, last)) =< ImportDepth
      BY <3>6, ImportAssumption DEF MadePage, ImportPath
    <3>9. above = items[k].path
      BY <3>5
    <3> HIDE DEF above, up
    <3>10. Len(above) # ImportDepth
      BY <3>7, <3>8, ImportAssumption
    <3>11. Front(item.path) = above
      BY <3>4, <3>9, <3>10 DEF Under
    <3>12. item.path = Append(Front(item.path), last)
      BY <3>7 DEF Front
    <3>. QED
      BY <3>6, <3>11, <3>12
  <2>. QED
    BY <2>1, <2>2
<1>. QED
  BY <1>5, <1>6, <1>7

LEMMA PageKept ==
  ASSUME PagesOK, NEW p \in DOMAIN stock, stock'[p].path = stock[p].path, stock'[p].node = stock[p].node,
         items \in Seq(Item), items' \in Seq(Item), Same(items', items)
  PROVE  PageOK(p)'
<1>1. DOMAIN items' = DOMAIN items
  BY DEF Same
<1>2. PageOK(p)
  BY DEF PagesOK
<1>3. CASE p = <<"person", 1>>
  BY <1>2, <1>3 DEF PageOK
<1>4. CASE p # <<"person", 1>>
  <2>1. PICK k \in DOMAIN items : /\ items[k].node = p[2] /\ stock[p].node = p[2]
                                  /\ stock[p].path = items[k].path
    BY <1>2, <1>4 DEF PageOK
  <2>2. items'[k].node = items[k].node /\ items'[k].path = items[k].path
    BY DEF Same
  <2>. QED
    BY <1>1, <1>4, <2>1, <2>2 DEF PageOK
<1>. QED
  BY <1>3, <1>4

LEMMA InPlaceStart ==
  ASSUME ImportInit
  PROVE  InPlace
<1>1. DOMAIN stock = {} /\ \A w \in Applier : run[w].items = <<>> /\ run[w].pc = "idle"
  BY DEF ImportInit, NoRun
<1>. QED
  BY <1>1 DEF InPlace, RunsOK, PagesOK, PlansOK

LEMMA InPlaceStep ==
  ASSUME NoRings, ImportTyped, StagingOK, PlacesOK, InPlace, [ImportNext]_importVars
  PROVE  InPlace'
<1>1. SUFFICES ASSUME repathed' = {} PROVE RunsOK' /\ PagesOK' /\ PlansOK'
  BY DEF InPlace
<1>2. items \in Seq(Item) /\ ItemsOK /\ StockOK /\ RunOK
  BY DEF ImportTyped, ItemsOK
<1>3. Same(items, items)
  BY DEF Same
<1>a. ASSUME repathed = {} PROVE RunsOK /\ PagesOK /\ PlansOK /\ Places(items)
  BY <1>a DEF InPlace, PlacesOK
<1>b. ASSUME UNCHANGED <<items, stock>>, PagesOK PROVE PagesOK' /\ StockGrows
  BY <1>b DEF PagesOK, PageOK, StockGrows
<1>4. ASSUME UNCHANGED <<items, run, stock, repathed>> PROVE RunsOK' /\ PagesOK' /\ PlansOK'
  <2>1. RunsOK /\ PagesOK /\ PlansOK
    BY <1>1, <1>4, <1>a
  <2>2. RunsOK'
    BY <1>4, <2>1 DEF RunsOK, Same, Settled
  <2>. QED
    BY <1>4, <1>b, <2>1, <2>2, PlansKept
<1>5. CASE \/ CreateImport \/ StageRead \/ StageDone \/ StageFailed \/ CancelImport \/ DeleteImport \/ UNCHANGED importVars
           \/ \E k \in DOMAIN items, d \in Decision : \E path \in Plain \cup {items[k].path} :
                EditCheck(k, d, path)
  BY <1>4, <1>5 DEF CreateImport, StageRead, StageDone, StageFailed, StagingEnds, CancelImport,
                    DeleteImport, importVars, UnchangedImport, EditCheck
<1>6. CASE StageInsert
  <2>1. RunsOK /\ PagesOK /\ PlansOK
    BY <1>1, <1>6, <1>a DEF StageInsert
  <2>a. items = <<>> /\ UNCHANGED <<run, stock>>
    BY <1>6 DEF StageInsert, StagingOK
  <2>2. items = <<>> /\ DOMAIN items = {} /\ UNCHANGED <<run, stock>>
    BY <2>a
  <2>3. \A w \in Applier : run[w].pc # "checked" /\ run[w].items = <<>>
    <3>1. TAKE w \in Applier
    <3>2. run[w].items \in Seq(Item)
      BY <1>2 DEF RunOK, Run
    <3>3. run[w].items # <<>> => Len(run[w].items) = 0
      BY <2>1, <2>2 DEF RunsOK, Same
    <3>. QED
      BY <2>1, <2>2, <3>2, <3>3 DEF RunsOK
  <2>4. RunsOK'
    BY <2>2, <2>3 DEF RunsOK
  <2>5. PagesOK'
    BY <2>1, <2>2 DEF PagesOK, PageOK
  <2>6. PlansOK'
    BY <2>1, <2>2, PlansKept DEF StockGrows
  <2>. QED
    BY <2>4, <2>5, <2>6
<1>7. CASE EditWrite
  <2>1. items' \in Seq(Item) /\ Same(items', items) /\ repathed = {} /\ UNCHANGED <<run, stock>>
    BY <1>1, <1>7, EditDoes DEF EditWrite
  <2>2. RunsOK /\ PagesOK /\ PlansOK
    BY <2>1, <1>a
  <2>3. Settled(items) => Settled(items')
    BY <1>2, <2>1, SameSettled
  <2>4. items # <<>> => items' # <<>>
    BY <1>2, <2>1 DEF Same
  <2>5. \A w \in Applier : Same(run[w].items, items) => Same(run[w].items, items')
    <3>1. DOMAIN items' = DOMAIN items
      BY <1>2, <2>1 DEF Same
    <3>. QED
      BY <2>1, <3>1 DEF Same
  <2>6. RunsOK'
    <3>1. SUFFICES ASSUME NEW w \in Applier
                   PROVE  /\ run[w].pc = "checked" => items' # <<>> /\ Settled(items')
                          /\ run[w].items # <<>> => Same(run[w].items, items') /\ Settled(items')
      BY <2>1 DEF RunsOK, Same, Settled
    <3>. QED
      BY <2>2, <2>3, <2>4, <2>5 DEF RunsOK
  <2>7. PagesOK'
    BY <1>2, <2>1, <2>2, PageKept DEF PagesOK
  <2>8. PlansOK'
    BY <2>1, <2>2, PlansKept DEF StockGrows
  <2>. QED
    BY <2>6, <2>7, <2>8
<1>8. ASSUME NEW w \in Applier, ApplyCheck(w) \/ SkipItem(w) \/ ApplyEnd(w) \/ ApplyDies(w)
      PROVE  RunsOK' /\ PagesOK' /\ PlansOK'
  <2>1. PICK r : Goes(w, r)
    BY <1>8, OthersDo
  <2>2. UNCHANGED <<items, stock, repathed>>
    BY <1>8 DEF ApplyCheck, SkipItem, ApplyEnd, ApplyDies
  <2>3. RunsOK /\ PagesOK /\ PlansOK /\ Places(items)
    BY <1>1, <1>a, <2>2
  <2>4. r \in Run /\ run' = [run EXCEPT ![w] = r] /\ Len(r.plan) = Len(r.items)
    BY <1>2, <2>1 DEF Goes, RunOK
  <2>5. run'[w] = r
    BY <1>2, <2>4, RunSet
  <2>6. r.pc = "checked" => items # <<>> /\ Settled(items)
    <3>1. InReview => Settled(items)
      BY <1>2, <2>3, ReviewSettled
    <3>2. InReview => items # <<>>
      BY DEF InReview, PlacesOK
    <3>. QED
      BY <2>1, <3>1, <3>2 DEF Goes
  <2>7. r.items # <<>> => Same(r.items, items) /\ Settled(items)
    BY <2>1, <2>3 DEF Goes, RunsOK
  <2>8. \A k \in DOMAIN r.items : PlannedOK(w, k)'
    <3>1. CASE r.items = run[w].items /\ r.plan = run[w].plan /\ r.known = run[w].known
      BY <2>2, <2>3, <2>5, <3>1 DEF PlansOK, PlannedOK
    <3>2. CASE r.items = <<>>
      BY <3>2
    <3>. QED
      BY <2>1, <3>1, <3>2 DEF Goes
  <2>. QED
    BY <1>b, <2>2, <2>3, <2>4, <2>6, <2>7, <2>8, RunsKept
<1>9. ASSUME NEW w \in Applier, ApplyBegin(w) PROVE RunsOK' /\ PagesOK' /\ PlansOK'
  <2>1. PICK mine, r : Starts(w, mine, r)
    BY <1>9, BeginDoes
  <2>2. UNCHANGED <<items, stock, repathed>> /\ run[w].pc = "checked"
    BY <1>9 DEF ApplyBegin
  <2>3. RunsOK /\ PagesOK /\ PlansOK /\ Places(items)
    BY <1>1, <1>a, <2>2
  <2>4. /\ r \in Run /\ run' = [run EXCEPT ![w] = r] /\ Len(r.plan) = Len(r.items)
        /\ r.items = mine /\ r.pc = "applying"
    BY <2>1 DEF Starts
  <2>5. run'[w] = r
    BY <1>2, <2>4, RunSet
  <2>6. Settled(items)
    BY <2>2, <2>3 DEF RunsOK
  <2>7. r.items # <<>> => Same(r.items, items) /\ Settled(items)
    BY <1>3, <2>1, <2>4, <2>6 DEF Starts
  <2>8. ASSUME NEW k \in DOMAIN r.items PROVE PlannedOK(w, k)'
    <3> DEFINE there == StockAt(r.items[k].path)
    <3>1. r.plan[k] = PlanOf(w, r.items[k]) /\ DOMAIN r.known = {stock[p].path : p \in Here}
      BY <2>1, <2>4, <2>8 DEF Starts
    <3>2. \/ r.plan[k] = NoPage
          \/ r.plan[k] = <<w, r.items[k].node>>
          \/ r.plan[k] = there /\ there # NoPage
      BY <3>1 DEF PlanOf
    <3>3. there # NoPage => /\ there \in DOMAIN stock /\ stock[there].path = r.items[k].path
                            /\ r.items[k].path \in DOMAIN r.known
      <4>1. there # NoPage => there \in Here /\ stock[there].path = r.items[k].path
        BY <1>2, StockAtWell
      <4>. QED
        BY <3>1, <4>1 DEF Here
    <3> HIDE DEF there
    <3>. QED
      BY <2>2, <2>5, <3>2, <3>3 DEF PlannedOK
  <2>. QED
    BY <1>b, <2>2, <2>3, <2>4, <2>7, <2>8, RunsKept
<1>10. ASSUME NEW w \in Applier, WriteItem(w) PROVE RunsOK' /\ PagesOK' /\ PlansOK'
  <2>1. PICK item, p, there : /\ Wrote(w, item, p) /\ Remembers(w, item, run[w].next, there)
                              /\ UNCHANGED stock \/ MadePage(w, item, p)
    BY <1>10, WriteItemDoes
  <2>2. UNCHANGED <<items, repathed>>
    BY <1>10 DEF WriteItem
  <2>3. RunsOK /\ PagesOK /\ PlansOK /\ Places(items)
    BY <1>1, <1>a, <2>2
  <2> DEFINE L == Learned(w, item.path, there)
             r == [run[w] EXCEPT !.next = run[w].next + 1, !.known = L]
  <2>4. r \in Run /\ run' = [run EXCEPT ![w] = r]
    BY <2>1 DEF Remembers
  <2>5. r.plan = run[w].plan /\ r.items = run[w].items /\ r.known = L /\ r.pc = run[w].pc
    BY <1>2 DEF RunOK, Run
  <2>6. DOMAIN run[w].known \subseteq DOMAIN L
    BY DEF Learned
  <2> HIDE DEF r, L
  <2>7. run'[w] = r /\ Len(r.plan) = Len(r.items)
    <3>1. Len(r.plan) = Len(r.items)
      BY <1>2, <2>5 DEF RunOK
    <3>. QED
      BY <1>2, <2>4, <3>1, RunSet
  <2>8. PagesOK' /\ StockGrows
    <3>1. CASE UNCHANGED stock
      BY <1>b, <2>2, <2>3, <3>1
    <3>2. CASE MadePage(w, item, p)
      <4>1. /\ p = <<w, item.node>> /\ Destination(w, item) = item.path
            /\ \E k \in DOMAIN items : items[k].node = item.node /\ items[k].path = item.path
        BY <2>1, <2>3, <3>2, WritesInPlace
      <4>2. PICK k \in DOMAIN items : items[k].node = item.node /\ items[k].path = item.path
        BY <4>1
      <4>3. Puts(p, [live |-> TRUE, node |-> item.node, path |-> item.path, meant |-> item.path])
        BY <3>2, <4>1 DEF MadePage
      <4>4. item.node \in 1 .. MaxNodes
        BY <2>1 DEF Wrote, Item
      <4>5. p[2] = item.node /\ p # <<"person", 1>>
        BY <4>1, <4>4, IdsApart
      <4>6. stock'[p].node = item.node /\ stock'[p].path = item.path
        BY <4>3 DEF Puts
      <4>7. PageOK(p)'
        BY <2>2, <4>2, <4>5, <4>6 DEF PageOK
      <4>8. ASSUME NEW q \in DOMAIN stock
            PROVE  stock'[q].path = stock[q].path /\ stock'[q].node = stock[q].node
        <5>1. CASE q = p
          <6>1. PICK j \in DOMAIN items : /\ items[j].node = p[2] /\ stock[p].node = p[2]
                                          /\ stock[p].path = items[j].path
            BY <2>3, <4>5, <4>8, <5>1 DEF PagesOK, PageOK
          <6>2. j = k
            BY <2>3, <4>2, <4>5, <6>1 DEF Places
          <6>. QED
            BY <4>2, <4>5, <4>6, <5>1, <6>1, <6>2
        <5>2. CASE q # p
          BY <4>3, <4>8, <5>2 DEF Puts
        <5>. QED
          BY <5>1, <5>2
      <4>9. DOMAIN stock' = DOMAIN stock \cup {p}
        BY <4>3 DEF Puts
      <4>10. \A q \in DOMAIN stock : PageOK(q)'
        BY <1>2, <1>3, <2>2, <2>3, <4>8, PageKept
      <4>. QED
        BY <4>7, <4>8, <4>9, <4>10 DEF PagesOK, StockGrows
    <3>. QED
      BY <2>1, <3>1, <3>2
  <2>9. r.pc = "checked" => items # <<>> /\ Settled(items)
    BY <2>3, <2>5 DEF RunsOK
  <2>10. r.items # <<>> => Same(r.items, items) /\ Settled(items)
    BY <2>3, <2>5 DEF RunsOK
  <2>11. \A k \in DOMAIN r.items : PlannedOK(w, k)'
    BY <2>3, <2>5, <2>6, <2>7, <2>8 DEF PlansOK, PlannedOK, StockGrows
  <2>. QED
    BY <2>2, <2>3, <2>4, <2>7, <2>8, <2>9, <2>10, <2>11, RunsKept
<1>11. ASSUME NEW path \in Plain, PersonCreates(path) PROVE RunsOK' /\ PagesOK' /\ PlansOK'
  <2> DEFINE p == <<"person", 1>>
             page == [live |-> TRUE, node |-> 0, path |-> path, meant |-> path]
  <2>1. Puts(p, page) /\ p \notin DOMAIN stock /\ UNCHANGED <<items, run, repathed>>
    BY <1>11, PutIn DEF PersonCreates
  <2>2. page.node = 0
    OBVIOUS
  <2> HIDE DEF page
  <2>3. RunsOK /\ PagesOK /\ PlansOK
    BY <1>1, <1>a, <2>1
  <2>4. /\ DOMAIN stock' = DOMAIN stock \cup {p} /\ stock'[p].node = 0
        /\ \A q \in DOMAIN stock : stock'[q] = stock[q]
    BY <2>1, <2>2 DEF Puts
  <2>5. PageOK(p)'
    BY <2>4 DEF PageOK
  <2>6. \A q \in DOMAIN stock : PageOK(q)'
    BY <1>2, <1>3, <2>1, <2>3, <2>4, PageKept
  <2>7. StockGrows
    BY <2>4 DEF StockGrows
  <2>8. RunsOK'
    BY <2>1, <2>3 DEF RunsOK, Same, Settled
  <2>. QED
    BY <2>1, <2>3, <2>4, <2>5, <2>6, <2>7, <2>8, PlansKept DEF PagesOK
<1>12. ASSUME NEW p \in ImportId, PersonDeletes(p) PROVE RunsOK' /\ PagesOK' /\ PlansOK'
  <2>1. UNCHANGED <<items, run, repathed>>
    BY <1>12 DEF PersonDeletes
  <2>2. RunsOK /\ PagesOK /\ PlansOK
    BY <1>1, <1>a, <2>1
  <2>3. /\ DOMAIN stock' = DOMAIN stock
        /\ \A x \in DOMAIN stock : stock'[x].path = stock[x].path /\ stock'[x].node = stock[x].node
    BY <1>2, <1>12, DeleteDoes
  <2>4. PagesOK'
    BY <1>2, <1>3, <2>1, <2>2, <2>3, PageKept DEF PagesOK
  <2>5. RunsOK'
    BY <2>1, <2>2 DEF RunsOK, Same, Settled
  <2>. QED
    BY <2>1, <2>2, <2>3, <2>4, <2>5, PlansKept DEF StockGrows
<1>. QED
  BY <1>5, <1>6, <1>7, <1>8, <1>9, <1>10, <1>11, <1>12 DEF ImportNext

(* However many applies run at once, and whatever people make and delete   *)
(* in the space, no two live pages are made of one node, as long as the    *)
(* reviewer leaves the items where they were placed and the nodes have no  *)
(* parents in a circle.                                                    *)
THEOREM CreatedOnceAlways == NoRings => (ImportSpec => []CreatedOnce)
<1>1. SUFFICES ASSUME NoRings PROVE ImportSpec => []CreatedOnce
  OBVIOUS
<1>2. ImportInit => ImportTyped /\ StagingOK /\ PlacesOK /\ InPlace
  BY ImportStart, StagingStart, PlacesStart, InPlaceStart
<1>3. /\ ImportTyped /\ StagingOK /\ PlacesOK /\ InPlace /\ [ImportNext]_importVars
      => ImportTyped' /\ StagingOK' /\ PlacesOK' /\ InPlace'
  BY <1>1, ImportTypedStep, StagingStep, PlacesStep, InPlaceStep
<1>4. ImportTyped /\ PlacesOK /\ InPlace => CreatedOnce
  <2>1. SUFFICES ASSUME ImportTyped, PlacesOK, InPlace, repathed = {},
                        NEW p \in Here, NEW q \in Here, stock[p].node = stock[q].node
                 PROVE  p = q
    BY DEF CreatedOnce
  <2>2. PagesOK /\ Places(items) /\ items \in Seq(Item) /\ StockOK
    BY <2>1 DEF InPlace, PlacesOK, ImportTyped, ItemsOK
  <2>3. PageOK(p) /\ PageOK(q)
    BY <2>2 DEF PagesOK, Here
  <2>4. \A k \in DOMAIN items : items[k].node # 0
    <3>1. \A k \in DOMAIN items : items[k] \in Item
      BY <2>2
    <3>. QED
      BY <3>1 DEF Item
  <2>5. p = <<"person", 1>> <=> q = <<"person", 1>>
    BY <2>1, <2>3, <2>4 DEF PageOK
  <2>6. CASE p # <<"person", 1>> /\ q # <<"person", 1>>
    <3>1. PICK k \in DOMAIN items : items[k].node = stock[p].node /\ stock[p].path = items[k].path
      BY <2>3, <2>6 DEF PageOK
    <3>2. PICK j \in DOMAIN items : items[j].node = stock[q].node /\ stock[q].path = items[j].path
      BY <2>3, <2>6 DEF PageOK
    <3>3. j = k
      BY <2>1, <2>2, <3>1, <3>2 DEF Places
    <3>. QED
      BY <2>2, <3>1, <3>2, <3>3 DEF StockOK
  <2>. QED
    BY <2>5, <2>6
<1>. QED
  BY <1>2, <1>3, <1>4, PTL DEF ImportSpec

=============================================================================
