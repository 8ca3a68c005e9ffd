--------------------------- MODULE PageTree_proofs ---------------------------
(***************************************************************************)
(* Proofs about the tree of pages.                                         *)
(*                                                                         *)
(* Under any interleaving: rows and requests keep their form, the page a   *)
(* creation is about is not there yet, and pairs are mutual and of live    *)
(* pages (TreeInv).                                                        *)
(*                                                                         *)
(* As long as requests come one after another (OneByOne): a page is right  *)
(* below its parent, so that the pages a prefix finds are those the        *)
(* parents lead to; what one delete removed keeps that shape, so that a    *)
(* restore brings back whole subtrees of it; and what a request found when *)
(* it began is still so when it writes.                                    *)
(*                                                                         *)
(* Paths come first, then rows, then requests under any interleaving, then *)
(* requests one after another.                                             *)
(***************************************************************************)
EXTENDS PageTree, SequenceTheorems, WellFoundedInduction, TLAPS

----------------------------------------------------------------------------
(* Paths.  Two are equal if they are equal name by name.                   *)
LEMMA SamePath ==
  ASSUME NEW v \in PathOf, NEW w \in PathOf, Len(v) = Len(w),
         \A i \in 1 .. Len(v) : v[i] = w[i]
  PROVE  v = w
  BY SeqEqual DEF PathOf

LEMMA Names ==
  ASSUME NEW w \in PathOf
  PROVE  /\ Len(w) \in Nat
         /\ \A i \in 1 .. Len(w) : w[i] \in Segment
         /\ w # <<>> => Len(w) >= 1
  BY LenProperties, EmptySeq, ElementOfSeq DEF PathOf

LEMMA OneLess ==
  ASSUME NEW n \in Nat, n >= 1
  PROVE  /\ n # 1 => 1 <= n - 1
         /\ n - 1 - 1 + 1 = n - 1
         /\ \A i \in 1 .. n - 1 : i \in 1 .. n - 1 - 1 + 1 /\ 1 + i - 1 = i
  OBVIOUS

LEMMA AboveIs ==
  ASSUME NEW w \in PathOf, w # <<>>
  PROVE  /\ Above(w) \in PathOf /\ Len(Above(w)) = Len(w) - 1
         /\ \A i \in 1 .. Len(w) - 1 : Above(w)[i] = w[i]
<1>0. Len(w) \in Nat /\ Len(w) >= 1
  BY Names
<1>1. Len(w) \in Nat /\ Len(w) >= 1 /\ \A i \in 1 .. Len(w) - 1 : w[i] \in Segment
  BY Names
<1>2. /\ Above(w) \in Seq(Segment)
      /\ Len(Above(w)) = IF 1 <= Len(w) - 1 THEN Len(w) - 1 - 1 + 1 ELSE 0
      /\ \A i \in 1 .. Len(w) - 1 - 1 + 1 : Above(w)[i] = w[1 + i - 1]
  BY <1>1, SubSeqProperties DEF Above
<1>3. Len(Above(w)) = Len(w) - 1
  <2>1. CASE Len(w) = 1
    BY <1>2, <2>1
  <2>2. CASE Len(w) # 1
    <3>1. 1 <= Len(w) - 1 /\ Len(w) - 1 - 1 + 1 = Len(w) - 1
      BY <1>0, <2>2, OneLess, Zenon
    <3>. QED
      BY <1>2, <3>1
  <2>. QED
    BY <2>1, <2>2
<1>4. \A i \in 1 .. Len(w) - 1 : i \in 1 .. Len(w) - 1 - 1 + 1 /\ 1 + i - 1 = i
  BY <1>1
<1>5. \A i \in 1 .. Len(w) - 1 : Above(w)[i] = w[i]
  BY <1>2, <1>4
<1>. QED
  BY <1>2, <1>3, <1>5 DEF PathOf

LEMMA BelowIs ==
  ASSUME NEW w \in PathOf, NEW r \in PathOf
  PROVE  Below(w, r) <=> Len(r) < Len(w) /\ \A i \in 1 .. Len(r) : w[i] = r[i]
<1>1. Len(w) \in Nat /\ Len(r) \in Nat /\ \A i \in 1 .. Len(w) : w[i] \in Segment
  BY Names
<1>2. ASSUME Len(r) < Len(w)
      PROVE  /\ SubSeq(w, 1, Len(r)) \in PathOf /\ Len(SubSeq(w, 1, Len(r))) = Len(r)
             /\ \A i \in 1 .. Len(r) : SubSeq(w, 1, Len(r))[i] = w[i]
  <2>1. \A i \in 1 .. Len(r) : w[i] \in Segment
    BY <1>1, <1>2
  <2>. QED
    BY <1>1, <1>2, <2>1, SubSeqProperties DEF PathOf
<1>3. ASSUME Len(r) < Len(w), \A i \in 1 .. Len(r) : w[i] = r[i]
      PROVE  SubSeq(w, 1, Len(r)) = r
  BY <1>2, <1>3, SamePath
<1>. QED
  BY <1>2, <1>3 DEF Below

(* What is right below a path is below it, and what is below a path is     *)
(* right below it or below something that is below it.                     *)
LEMMA BelowByOne ==
  ASSUME NEW w \in PathOf, NEW r \in PathOf, w # <<>>
  PROVE  Below(w, r) <=> Above(w) = r \/ Below(Above(w), r)
<1>1. /\ Len(w) \in Nat /\ Len(r) \in Nat /\ Len(w) >= 1
      /\ Above(w) \in PathOf /\ Len(Above(w)) = Len(w) - 1
      /\ \A i \in 1 .. Len(w) - 1 : Above(w)[i] = w[i]
  BY Names, AboveIs
<1>2. ASSUME Below(w, r), Len(r) = Len(w) - 1 PROVE Above(w) = r
  <2>1. \A i \in 1 .. Len(Above(w)) : Above(w)[i] = r[i]
    BY <1>1, <1>2, BelowIs
  <2>. QED
    BY <1>1, <1>2, <2>1, SamePath
<1>3. ASSUME Below(w, r), Len(r) < Len(w) - 1 PROVE Below(Above(w), r)
  BY <1>1, <1>3, BelowIs
<1>4. Below(w, r) => Len(r) < Len(w)
  BY BelowIs
<1>5. ASSUME Above(w) = r \/ Below(Above(w), r) PROVE Below(w, r)
  BY <1>1, <1>5, BelowIs
<1>. QED
  BY <1>1, <1>2, <1>3, <1>4, <1>5

LEMMA NotBelowEachOther ==
  ASSUME NEW w \in PathOf, NEW r \in PathOf, Below(w, r)
  PROVE  ~Below(r, w) /\ w # r /\ w # <<>>
<1>1. Len(w) \in Nat /\ Len(r) \in Nat /\ Len(r) < Len(w)
  BY Names, BelowIs
<1>2. w # <<>>
  BY <1>1, EmptySeq
<1>3. ~Below(r, w)
  BY <1>1, BelowIs
<1>. QED
  BY <1>1, <1>2, <1>3

(* A path that has its prefix replaced.                                    *)
LEMMA RebasedIs ==
  ASSUME NEW w \in PathOf, NEW old \in PathOf, NEW new \in PathOf, Len(old) =< Len(w)
  PROVE  /\ Rebased(w, old, new) \in PathOf
         /\ Len(Rebased(w, old, new)) = Len(new) + Len(w) - Len(old)
         /\ \A i \in 1 .. Len(new) : Rebased(w, old, new)[i] = new[i]
         /\ \A i \in Len(new) + 1 .. Len(new) + Len(w) - Len(old) :
              Rebased(w, old, new)[i] = w[i - Len(new) + Len(old)]
<1> DEFINE rest == SubSeq(w, Len(old) + 1, Len(w))
<1>1. Len(w) \in Nat /\ Len(old) \in Nat /\ Len(new) \in Nat /\ \A i \in 1 .. Len(w) : w[i] \in Segment
  BY Names
<1>2. \A i \in Len(old) + 1 .. Len(w) : w[i] \in Segment
  BY <1>1
<1>3. /\ rest \in Seq(Segment) /\ Len(rest) = Len(w) - Len(old)
      /\ \A i \in 1 .. Len(w) - Len(old) : rest[i] = w[Len(old) + i]
  <2>1. /\ rest \in Seq(Segment)
        /\ Len(rest) = IF Len(old) + 1 <= Len(w) THEN Len(w) - (Len(old) + 1) + 1 ELSE 0
        /\ \A i \in 1 .. Len(w) - (Len(old) + 1) + 1 : rest[i] = w[Len(old) + 1 + i - 1]
    BY <1>1, <1>2, SubSeqProperties
  <2>. QED
    BY <1>1, <2>1
<1> HIDE DEF rest
<1>4. /\ new \o rest \in Seq(Segment) /\ Len(new \o rest) = Len(new) + Len(rest)
      /\ \A i \in 1 .. Len(new) + Len(rest) :
           (new \o rest)[i] = IF i <= Len(new) THEN new[i] ELSE rest[i - Len(new)]
  BY <1>3, ConcatProperties DEF PathOf
<1>5. Rebased(w, old, new) = new \o rest
  BY DEF Rebased, rest
<1>6. ASSUME NEW i \in Len(new) + 1 .. Len(new) + Len(w) - Len(old)
      PROVE  (new \o rest)[i] = w[i - Len(new) + Len(old)]
  <2>1. i - Len(new) \in 1 .. Len(w) - Len(old) /\ ~(i <= Len(new)) /\ i \in 1 .. Len(new) + Len(rest)
    BY <1>1, <1>3
  <2>2. (new \o rest)[i] = rest[i - Len(new)]
    BY <1>4, <2>1
  <2>3. rest[i - Len(new)] = w[Len(old) + (i - Len(new))]
    BY <1>3, <2>1
  <2>4. Len(old) + (i - Len(new)) = i - Len(new) + Len(old)
    BY <1>1, <2>1
  <2>. QED
    BY <2>2, <2>3, <2>4
<1>7. \A i \in 1 .. Len(new) : (new \o rest)[i] = new[i]
  BY <1>1, <1>3, <1>4
<1>. QED
  BY <1>1, <1>3, <1>4, <1>5, <1>6, <1>7 DEF PathOf

(* It is named after what was below the prefix, and the path above it      *)
(* moves along.                                                            *)
LEMMA RebasedAbove ==
  ASSUME NEW w \in PathOf, NEW old \in PathOf, NEW new \in PathOf, Below(w, old)
  PROVE  /\ Rebased(w, old, new) \in PathOf /\ Rebased(w, old, new) # <<>>
         /\ Above(w) = old => Above(Rebased(w, old, new)) = new
         /\ Below(Above(w), old) =>
              Above(Rebased(w, old, new)) = Rebased(Above(w), old, new)
<1> DEFINE v == Rebased(w, old, new)
<1>1. /\ Len(w) \in Nat /\ Len(old) \in Nat /\ Len(new) \in Nat /\ Len(old) < Len(w)
      /\ Len(old) =< Len(w)
  BY Names, BelowIs
<1>2. /\ v \in PathOf /\ Len(v) = Len(new) + Len(w) - Len(old)
      /\ \A i \in 1 .. Len(new) : v[i] = new[i]
      /\ \A i \in Len(new) + 1 .. Len(new) + Len(w) - Len(old) : v[i] = w[i - Len(new) + Len(old)]
  BY <1>1, RebasedIs, ZenonT(60)
<1> HIDE DEF v
<1>3. v # <<>> /\ w # <<>>
  BY <1>1, <1>2, EmptySeq
<1>4. /\ Above(v) \in PathOf /\ Len(Above(v)) = Len(v) - 1
      /\ \A i \in 1 .. Len(v) - 1 : Above(v)[i] = v[i]
  BY <1>2, <1>3, AboveIs
<1>5. /\ Above(w) \in PathOf /\ Len(Above(w)) = Len(w) - 1
      /\ \A i \in 1 .. Len(w) - 1 : Above(w)[i] = w[i]
  BY <1>3, AboveIs
<1>6. ASSUME Above(w) = old PROVE Above(v) = new
  <2>0. Len(v) = Len(new) + Len(w) - Len(old) /\ Len(Above(v)) = Len(v) - 1 /\ Len(old) = Len(w) - 1
    BY <1>2, <1>4, <1>5, <1>6
  <2>1. Len(Above(v)) = Len(new)
    BY <1>1, <2>0
  <2>2. \A i \in 1 .. Len(Above(v)) : Above(v)[i] = new[i]
    BY <1>1, <1>2, <1>4, <2>1
  <2>. QED
    BY <1>4, <2>1, <2>2, SamePath
<1>7. ASSUME Below(Above(w), old) PROVE Above(v) = Rebased(Above(w), old, new)
  <2> DEFINE u == Rebased(Above(w), old, new)
  <2>1. Len(old) < Len(Above(w)) /\ Len(old) =< Len(Above(w))
    BY <1>1, <1>5, <1>7, BelowIs
  <2>2. /\ u \in PathOf /\ Len(u) = Len(new) + Len(Above(w)) - Len(old)
        /\ \A i \in 1 .. Len(new) : u[i] = new[i]
        /\ \A i \in Len(new) + 1 .. Len(new) + Len(Above(w)) - Len(old) :
             u[i] = Above(w)[i - Len(new) + Len(old)]
    <3> DEFINE a == Above(w)
    <3>1. a \in PathOf /\ Len(old) =< Len(a)
      BY <1>5, <2>1
    <3> HIDE DEF a
    <3>2. /\ Rebased(a, old, new) \in PathOf
          /\ Len(Rebased(a, old, new)) = Len(new) + Len(a) - Len(old)
          /\ \A i \in 1 .. Len(new) : Rebased(a, old, new)[i] = new[i]
          /\ \A i \in Len(new) + 1 .. Len(new) + Len(a) - Len(old) :
               Rebased(a, old, new)[i] = a[i - Len(new) + Len(old)]
      BY <3>1, RebasedIs, ZenonT(60)
    <3>. QED
      BY <3>2 DEF a, u
  <2> HIDE DEF u
  <2>3. Len(Above(v)) = Len(u)
    BY <1>1, <1>2, <1>4, <1>5, <2>2
  <2>4. ASSUME NEW i \in 1 .. Len(u) PROVE Above(v)[i] = u[i]
    <3>1. Above(v)[i] = v[i]
      BY <1>1, <1>2, <1>4, <1>5, <2>2, <2>4
    <3>2. CASE i \in 1 .. Len(new)
      BY <1>2, <2>2, <3>1, <3>2
    <3>3. CASE i \in Len(new) + 1 .. Len(u)
      <4>1. i - Len(new) + Len(old) \in 1 .. Len(w) - 1
        BY <1>1, <1>5, <2>1, <2>2, <3>3
      <4>2. i \in Len(new) + 1 .. Len(new) + Len(Above(w)) - Len(old)
        BY <2>2, <3>3
      <4>3. u[i] = w[i - Len(new) + Len(old)]
        BY <1>5, <2>2, <4>1, <4>2
      <4>4. i \in Len(new) + 1 .. Len(new) + Len(w) - Len(old)
        BY <1>1, <1>5, <2>2, <3>3
      <4>5. v[i] = w[i - Len(new) + Len(old)]
        BY <1>2, <4>4
      <4>. QED
        BY <3>1, <4>3, <4>5
    <3>. QED
      BY <1>1, <2>2, <2>4, <3>2, <3>3
  <2>5. \A i \in 1 .. Len(Above(v)) : Above(v)[i] = u[i]
    BY <2>3, <2>4
  <2>. QED
    BY <1>4, <2>2, <2>3, <2>5, SamePath DEF u
<1>. QED
  BY <1>2, <1>3, <1>6, <1>7 DEF v

LEMMA JoinedIs ==
  ASSUME NEW w \in PathOf, NEW s \in Segment
  PROVE  Join(w, s) \in PathOf /\ Join(w, s) # <<>> /\ Above(Join(w, s)) = w
<1>1. /\ Join(w, s) \in PathOf /\ Len(Join(w, s)) = Len(w) + 1 /\ Len(w) \in Nat
      /\ \A i \in 1 .. Len(w) : Join(w, s)[i] = w[i]
  BY Names DEF Join, PathOf
<1>2. Join(w, s) # <<>>
  BY <1>1, EmptySeq
<1>3. /\ Above(Join(w, s)) \in PathOf /\ Len(Above(Join(w, s))) = Len(w)
      /\ \A i \in 1 .. Len(w) : Above(Join(w, s))[i] = w[i]
  BY <1>1, <1>2, AboveIs
<1>4. Above(Join(w, s)) = w
  BY <1>3, SamePath
<1>. QED
  BY <1>1, <1>2, <1>4

----------------------------------------------------------------------------
(* Rows keep their form when they are written.                             *)
Born(s, w, q) == [Unborn EXCEPT !.state = "live", !.space = s, !.path = w, !.parent = q]

LEMMA RowBorn ==
  ASSUME NEW s \in TreeSpace \cup {"none"}, NEW w \in PathOf, NEW q \in PageOrNone
  PROVE  /\ Born(s, w, q) \in TreeRow /\ Born(s, w, q).state = "live" /\ Born(s, w, q).at = 0
         /\ Born(s, w, q).link = "none" /\ Born(s, w, q).space = s /\ Born(s, w, q).path = w
         /\ Born(s, w, q).parent = q
<1>1. <<>> \in PathOf
  BY EmptySeq DEF PathOf
<1>. QED
  BY <1>1 DEF Born, Unborn, TreeRow, PageOrNone

LEMMA RowUnborn == Unborn \in TreeRow /\ Unborn.state = "unborn" /\ Unborn.at = 0 /\ Unborn.link = "none"
<1>1. <<>> \in PathOf
  BY EmptySeq DEF PathOf
<1>. QED
  BY <1>1 DEF Unborn, TreeRow, PageOrNone

LEMMA RowLinked ==
  ASSUME NEW r \in TreeRow, NEW q \in PageOrNone
  PROVE  LET v == [r EXCEPT !.link = q]
         IN  /\ v \in TreeRow /\ v.link = q /\ v.state = r.state /\ v.at = r.at
             /\ v.space = r.space /\ v.path = r.path /\ v.parent = r.parent
  BY DEF TreeRow

LEMMA RowRestored ==
  ASSUME NEW r \in TreeRow
  PROVE  /\ Restored(r) \in TreeRow /\ Restored(r).link = r.link /\ Restored(r).state = "live"
         /\ Restored(r).at = 0 /\ Restored(r).space = r.space /\ Restored(r).path = r.path
         /\ Restored(r).parent = r.parent
  BY DEF TreeRow, Restored

----------------------------------------------------------------------------
(* What the rows keep to under any interleaving.                           *)
Mutual(rows) ==
    \A p \in TreePage : rows[p].link # "none" =>
        /\ rows[p].state = "live" /\ rows[p].link \in TreePage
        /\ rows[rows[p].link].link = p

Apart(rows) == \A p \in TreePage : rows[p].parent # p /\ rows[p].link # p

WellFormed(rows) ==
    /\ rows \in [TreePage -> TreeRow]
    /\ \A p \in TreePage : rows[p].state = "deleted" <=> rows[p].at > 0
    /\ \A p \in TreePage : rows[p].state # "unborn" => rows[p].path # <<>> /\ rows[p].space \in TreeSpace
    /\ Mutual(rows) /\ Apart(rows)

(* A request is about a page; one that creates it is the only one, and the *)
(* page is not there yet.                                                  *)
RequestOK(t) ==
    /\ move[t].op # "none" => move[t].page \in TreePage
    /\ move[t].op \in {"create", "move", "space"} => move[t].path # <<>>
    /\ move[t].op \in {"create", "space"} => move[t].space \in TreeSpace
    /\ move[t].op \in {"create", "move", "space"} => move[t].parent # move[t].page
    /\ move[t].op = "move" => tree[move[t].page].state # "unborn"
    /\ move[t].op = "create" =>
         /\ tree[move[t].page].state = "unborn"
         /\ \A u \in TreeSlot : move[u].op = "create" /\ move[u].page = move[t].page => u = t

TreeInv ==
    /\ WellFormed(tree)
    /\ home \in [TreeSpace -> PageOrNone] /\ move \in [TreeSlot -> TreeRequest]
    /\ deletes \in Nat /\ asked \in Nat /\ overlapped \in BOOLEAN
    /\ \A t \in TreeSlot : RequestOK(t)

(* Everything but the pairs is as it was.                                  *)
SamePlace(v, r) ==
    v.state = r.state /\ v.at = r.at /\ v.space = r.space /\ v.path = r.path /\ v.parent = r.parent
SamePlaces(new, rows) == \A p \in TreePage : SamePlace(new[p], rows[p])

LEMMA PairingKeeps ==
  ASSUME NEW rows, WellFormed(rows), NEW p \in TreePage, NEW q \in TreePage, p # q,
         rows[p].state = "live", rows[q].state = "live"
  PROVE  WellFormed(Paired(rows, p, q)) /\ SamePlaces(Paired(rows, p, q), rows)
<1> DEFINE new == Paired(rows, p, q)
<1>1. \A x \in TreePage : rows[x] \in TreeRow
  BY DEF WellFormed
<1>2. p \in PageOrNone /\ q \in PageOrNone /\ "none" \in PageOrNone
  BY DEF PageOrNone
<1>3. ASSUME NEW x \in TreePage
      PROVE  /\ new[x] \in TreeRow /\ SamePlace(new[x], rows[x])
             /\ x = p => new[x].link = q
             /\ x = q => new[x].link = p
             /\ x \notin {p, q} => new[x].link = IF x \in Partners(rows, {p, q}) THEN "none" ELSE rows[x].link
  BY <1>1, <1>2, RowLinked DEF Paired, SamePlace
<1>4. new = [x \in TreePage |-> new[x]]
  BY DEF Paired
<1> HIDE DEF new
<1>5. new \in [TreePage -> TreeRow]
  BY <1>3, <1>4
<1>6. SamePlaces(new, rows)
  BY <1>3 DEF SamePlaces
<1>7. Mutual(new)
  <2> SUFFICES ASSUME NEW x \in TreePage, new[x].link # "none"
               PROVE  /\ new[x].state = "live" /\ new[x].link \in TreePage
                      /\ new[new[x].link].link = x
    BY DEF Mutual
  <2>1. CASE x \in {p, q}
    BY <1>3, <2>1 DEF SamePlace
  <2>2. CASE x \notin {p, q}
    <3>1. rows[x].link # "none" /\ new[x].link = rows[x].link /\ x \notin Partners(rows, {p, q})
      BY <1>3, <2>2
    <3>2. rows[x].state = "live" /\ rows[x].link \in TreePage /\ rows[rows[x].link].link = x
      BY <3>1 DEF WellFormed, Mutual
    <3> DEFINE y == rows[x].link
    <3>3. y \notin {p, q}
      BY <2>2, <3>1, <3>2, TreeAssumption DEF Partners
    <3>4. y \notin Partners(rows, {p, q})
      <4> SUFFICES ASSUME NEW z \in {p, q}, rows[z].link = y PROVE FALSE
        BY DEF Partners
      <4>1. rows[z].link # "none"
        BY <3>1
      <4>2. rows[y].link = z
        BY <4>1 DEF WellFormed, Mutual
      <4>. QED
        BY <2>2, <3>2, <4>2
    <3>. QED
      BY <1>3, <3>1, <3>2, <3>3, <3>4 DEF SamePlace
  <2>. QED
    BY <2>1, <2>2
<1>8. Apart(new)
  <2> SUFFICES ASSUME NEW x \in TreePage PROVE new[x].parent # x /\ new[x].link # x
    BY DEF Apart
  <2>1. rows[x].parent # x /\ rows[x].link # x /\ x # "none"
    BY TreeAssumption DEF WellFormed, Apart
  <2>. QED
    BY <1>3, <2>1 DEF SamePlace
<1>. QED
  BY <1>3, <1>5, <1>6, <1>7, <1>8 DEF WellFormed, SamePlace, new

(* Pairs are undone on both sides.                                         *)
LEMMA UnlinkingKeeps ==
  ASSUME NEW rows, WellFormed(rows), NEW S,
         \A p \in S \cap TreePage : rows[p].link \in S \cup {"none"}
  PROVE  WellFormed(Unlinked(rows, S)) /\ SamePlaces(Unlinked(rows, S), rows)
<1> DEFINE new == Unlinked(rows, S)
<1>1. \A x \in TreePage : rows[x] \in TreeRow
  BY DEF WellFormed
<1>2. ASSUME NEW x \in TreePage
      PROVE  /\ new[x] \in TreeRow /\ SamePlace(new[x], rows[x])
             /\ new[x].link = IF x \in S THEN "none" ELSE rows[x].link
  BY <1>1, RowLinked DEF Unlinked, SamePlace, PageOrNone
<1>3. new = [x \in TreePage |-> new[x]]
  BY DEF Unlinked
<1> HIDE DEF new
<1>4. new \in [TreePage -> TreeRow] /\ SamePlaces(new, rows)
  BY <1>2, <1>3 DEF SamePlaces
<1>5. Mutual(new)
  <2> SUFFICES ASSUME NEW x \in TreePage, new[x].link # "none"
               PROVE  /\ new[x].state = "live" /\ new[x].link \in TreePage
                      /\ new[new[x].link].link = x
    BY DEF Mutual
  <2>1. x \notin S /\ new[x].link = rows[x].link
    BY <1>2
  <2>2. rows[x].state = "live" /\ rows[x].link \in TreePage /\ rows[rows[x].link].link = x
    BY <2>1 DEF WellFormed, Mutual
  <2>3. rows[x].link \notin S
    BY <2>1, <2>2, TreeAssumption
  <2>. QED
    BY <1>2, <2>1, <2>2, <2>3 DEF SamePlace
<1>6. Apart(new)
  BY <1>2, TreeAssumption DEF WellFormed, Apart, SamePlace
<1>. QED
  BY <1>2, <1>4, <1>5, <1>6 DEF WellFormed, SamePlace, new

(* A page that was not there has no pair, and nobody has it as theirs.     *)
LEMMA BirthKeeps ==
  ASSUME NEW rows, WellFormed(rows), NEW p \in TreePage, rows[p].state = "unborn",
         NEW r \in TreeRow, r.state = "live", r.at = 0, r.link = "none", r.path # <<>>, r.space \in TreeSpace,
         r.parent # p
  PROVE  WellFormed([rows EXCEPT ![p] = r])
<1> DEFINE new == [rows EXCEPT ![p] = r]
<1>1. new \in [TreePage -> TreeRow] /\ new[p] = r /\ \A x \in TreePage \ {p} : new[x] = rows[x]
  BY DEF WellFormed
<1> HIDE DEF new
<1>2. Mutual(new)
  <2> SUFFICES ASSUME NEW x \in TreePage, new[x].link # "none"
               PROVE  /\ new[x].state = "live" /\ new[x].link \in TreePage
                      /\ new[new[x].link].link = x
    BY DEF Mutual
  <2>1. x # p /\ new[x] = rows[x]
    BY <1>1
  <2>2. rows[x].state = "live" /\ rows[x].link \in TreePage /\ rows[rows[x].link].link = x
    BY <2>1 DEF WellFormed, Mutual
  <2>3. rows[x].link # p
    BY <2>2, TreeAssumption DEF WellFormed, Mutual
  <2>. QED
    BY <1>1, <2>1, <2>2, <2>3
<1>3. Apart(new)
  BY <1>1, TreeAssumption DEF WellFormed, Apart
<1>. QED
  BY <1>1, <1>2, <1>3 DEF WellFormed, new

(* Only places change, and paths stay paths.                               *)
LEMMA PlacingKeeps ==
  ASSUME NEW rows, WellFormed(rows), NEW new \in [TreePage -> TreeRow],
         \A x \in TreePage : /\ new[x].link = rows[x].link /\ new[x].state = rows[x].state
                             /\ new[x].at = rows[x].at
                             /\ rows[x].path # <<>> => new[x].path # <<>>
                             /\ rows[x].space \in TreeSpace => new[x].space \in TreeSpace
                             /\ new[x].parent # x
  PROVE  WellFormed(new)
<1>1. Mutual(new) /\ Apart(new)
  BY DEF WellFormed, Mutual, Apart
<1>. QED
  BY <1>1 DEF WellFormed

(* What a delete removes loses its pairs on both sides.                    *)
LEMMA RemovingKeeps ==
  ASSUME NEW rows, WellFormed(rows), NEW S, NEW n \in Nat \ {0},
         \A p \in S : p \in TreePage /\ rows[p].state = "live"
  PROVE  /\ WellFormed(RemovedRows(rows, S, n))
         /\ \A p \in TreePage \ S : SamePlace(RemovedRows(rows, S, n)[p], rows[p])
         /\ \A p \in TreePage : \/ RemovedRows(rows, S, n)[p].link = "none"
                                \/ RemovedRows(rows, S, n)[p].link = rows[p].link
         /\ \A p \in S : /\ RemovedRows(rows, S, n)[p].state = "deleted"
                         /\ RemovedRows(rows, S, n)[p].at = n
                         /\ RemovedRows(rows, S, n)[p].space = rows[p].space
                         /\ RemovedRows(rows, S, n)[p].path = rows[p].path
                         /\ RemovedRows(rows, S, n)[p].parent = rows[p].parent
<1> DEFINE new == RemovedRows(rows, S, n)
<1>1. \A x \in TreePage : rows[x] \in TreeRow
  BY DEF WellFormed
<1>2. ASSUME NEW x \in TreePage, x \in S
      PROVE  /\ new[x] \in TreeRow /\ new[x].link = "none" /\ new[x].state = "deleted" /\ new[x].at = n
             /\ new[x].space = rows[x].space /\ new[x].path = rows[x].path /\ new[x].parent = rows[x].parent
  <2>1. new[x] = [rows[x] EXCEPT !.state = "deleted", !.at = n, !.link = "none"]
    BY <1>2 DEF RemovedRows
  <2>2. rows[x] \in TreeRow /\ n \in Nat
    BY <1>1
  <2> HIDE DEF new
  <2>. QED
    BY <2>1, <2>2 DEF TreeRow, PageOrNone
<1>3. ASSUME NEW x \in TreePage, x \notin S
      PROVE  /\ new[x] \in TreeRow /\ SamePlace(new[x], rows[x])
             /\ new[x].link = IF rows[x].link \in S THEN "none" ELSE rows[x].link
  BY <1>1, <1>3, RowLinked DEF RemovedRows, SamePlace, PageOrNone
<1>4. new = [x \in TreePage |-> new[x]]
  BY DEF RemovedRows
<1> HIDE DEF new
<1>5. new \in [TreePage -> TreeRow]
  BY <1>2, <1>3, <1>4
<1>6. Mutual(new)
  <2> SUFFICES ASSUME NEW x \in TreePage, new[x].link # "none"
               PROVE  /\ new[x].state = "live" /\ new[x].link \in TreePage
                      /\ new[new[x].link].link = x
    BY DEF Mutual
  <2>1. x \notin S /\ rows[x].link \notin S /\ new[x].link = rows[x].link
    BY <1>2, <1>3
  <2>2. rows[x].state = "live" /\ rows[x].link \in TreePage /\ rows[rows[x].link].link = x
    BY <2>1 DEF WellFormed, Mutual
  <2>. QED
    BY <1>3, <2>1, <2>2 DEF SamePlace
<1>7. WellFormed(new)
  <2> SUFFICES ASSUME NEW x \in TreePage
               PROVE  /\ new[x].state = "deleted" <=> new[x].at > 0
                      /\ new[x].state # "unborn" => new[x].path # <<>> /\ new[x].space \in TreeSpace
                      /\ new[x].parent # x /\ new[x].link # x
    BY <1>5, <1>6 DEF WellFormed, Apart
  <2>1. CASE x \in S
    BY <1>2, <2>1, TreeAssumption DEF WellFormed, Apart
  <2>2. CASE x \notin S
    <3>1. rows[x].parent # x /\ rows[x].link # x /\ x # "none"
      BY TreeAssumption DEF WellFormed, Apart
    <3>2. SamePlace(new[x], rows[x]) /\ new[x].link \in {"none", rows[x].link}
      BY <1>3, <2>2
    <3>. QED
      BY <3>1, <3>2 DEF WellFormed, SamePlace
  <2>. QED
    BY <2>1, <2>2
<1>. QED
  BY <1>2, <1>3, <1>7 DEF new

(* What is restored has no pair.                                           *)
BackIn(rows, S) == [q \in TreePage |-> IF q \in S THEN Restored(rows[q]) ELSE rows[q]]

LEMMA RestoringKeeps ==
  ASSUME NEW rows, WellFormed(rows), NEW S,
         \A p \in S : p \in TreePage /\ rows[p].state = "deleted"
  PROVE  /\ WellFormed(BackIn(rows, S))
         /\ \A p \in TreePage \ S : BackIn(rows, S)[p] = rows[p]
         /\ \A p \in S : /\ BackIn(rows, S)[p].state = "live"
                         /\ BackIn(rows, S)[p].space = rows[p].space
                         /\ BackIn(rows, S)[p].path = rows[p].path
                         /\ BackIn(rows, S)[p].parent = rows[p].parent
                         /\ BackIn(rows, S)[p].link = "none"
<1> DEFINE back == BackIn(rows, S)
<1>1. \A x \in TreePage : rows[x] \in TreeRow /\ (rows[x].state = "deleted" => rows[x].link = "none")
  BY DEF WellFormed, Mutual
<1>2. ASSUME NEW x \in TreePage, x \in S
      PROVE  /\ back[x] \in TreeRow /\ back[x].link = "none" /\ back[x].state = "live" /\ back[x].at = 0
             /\ back[x].space = rows[x].space /\ back[x].path = rows[x].path /\ back[x].parent = rows[x].parent
             /\ rows[x].link = "none" /\ rows[x].state = "deleted"
  BY <1>1, <1>2, RowRestored DEF BackIn
<1>3. \A x \in TreePage \ S : back[x] = rows[x]
  BY DEF BackIn
<1>4. back \in [TreePage -> TreeRow]
  <2>1. back = [x \in TreePage |-> back[x]]
    BY DEF BackIn
  <2>. QED
    BY <1>1, <1>2, <1>3, <2>1
<1> HIDE DEF back
<1>5. Mutual(back)
  <2> SUFFICES ASSUME NEW x \in TreePage, back[x].link # "none"
               PROVE  /\ back[x].state = "live" /\ back[x].link \in TreePage
                      /\ back[back[x].link].link = x
    BY DEF Mutual
  <2>1. x \notin S /\ back[x] = rows[x]
    BY <1>2, <1>3
  <2>2. rows[x].state = "live" /\ rows[x].link \in TreePage /\ rows[rows[x].link].link = x
    BY <2>1 DEF WellFormed, Mutual
  <2>3. rows[x].link \notin S
    BY <1>2, <2>2, TreeAssumption
  <2>. QED
    BY <1>3, <2>1, <2>2, <2>3
<1>6. WellFormed(back)
  <2> SUFFICES ASSUME NEW x \in TreePage
               PROVE  /\ back[x].state = "deleted" <=> back[x].at > 0
                      /\ back[x].state # "unborn" => back[x].path # <<>> /\ back[x].space \in TreeSpace
                      /\ back[x].parent # x /\ back[x].link # x
    BY <1>4, <1>5 DEF WellFormed, Apart
  <2>1. CASE x \in S
    BY <1>2, <2>1, TreeAssumption DEF WellFormed, Apart
  <2>2. CASE x \notin S
    BY <1>3, <2>2 DEF WellFormed, Apart
  <2>. QED
    BY <2>1, <2>2
<1>. QED
  BY <1>2, <1>3, <1>6 DEF back

----------------------------------------------------------------------------
(* Requests keep their form.                                               *)
LEMMA RequestNone ==
    /\ NoRequest \in TreeRequest /\ NoRequest.op = "none"
    /\ NoRequest.rows = {} /\ NoRequest.spaces = {} /\ NoRequest.found = {}
<1>1. <<>> \in PathOf
  BY EmptySeq DEF PathOf
<1>. QED
  BY <1>1 DEF NoRequest, TreeRequest, PageOrNone

(* Where requests may put a page.                                          *)
LEMMA PlacesAre ==
  ASSUME TreeInv, NEW s \in TreeSpace, NEW place \in Places(s)
  PROVE  /\ place.path \in PathOf /\ place.path # <<>> /\ place.parent \in PageOrNone
         /\ place.parent # "none" =>
              /\ place.parent \in LiveIn(s) /\ tree[place.parent].path = Above(place.path)
<1>1. \A q \in LiveIn(s) : q \in TreePage /\ q \in PageOrNone /\ tree[q].path \in PathOf /\ "none" \in PageOrNone
  BY DEF LiveIn, TreeInv, WellFormed, TreeRow, PageOrNone
<1>2. ASSUME NEW q \in LiveIn(s), NEW seg \in Segment,
             place = [path |-> Join(tree[q].path, seg), parent |-> q]
      PROVE  /\ place.path \in PathOf /\ place.path # <<>> /\ place.parent \in PageOrNone
             /\ place.parent \in LiveIn(s) /\ tree[place.parent].path = Above(place.path)
  BY <1>1, <1>2, JoinedIs
<1>3. ASSUME NEW seg \in Segment, place = [path |-> <<seg>>, parent |-> "none"]
      PROVE  place.path \in PathOf /\ place.path # <<>> /\ place.parent = "none"
  BY <1>3 DEF PathOf
<1>4. ASSUME NEW path \in Paths, place = [path |-> path, parent |-> PageAt(s, Above(path))]
      PROVE  /\ place.path \in PathOf /\ place.path # <<>> /\ place.parent \in PageOrNone
             /\ place.parent # "none" =>
                  /\ place.parent \in LiveIn(s) /\ tree[place.parent].path = Above(place.path)
  <2>1. PICK n \in 1 .. MaxDepth : path \in [1 .. n -> Segment]
    BY DEF Paths
  <2>2. n \in Nat /\ n >= 1
    BY <2>1, TreeAssumption
  <2>3. path \in PathOf /\ Len(path) = n
    BY <2>1, <2>2 DEF PathOf
  <2>4. path # <<>>
    BY <2>2, <2>3, EmptySeq
  <2>5. \/ PageAt(s, Above(path)) = "none"
        \/ PageAt(s, Above(path)) \in LiveIn(s) /\ tree[PageAt(s, Above(path))].path = Above(path)
    BY DEF PageAt
  <2>. QED
    BY <1>1, <1>4, <2>3, <2>4, <2>5 DEF PageOrNone
<1>. QED
  BY <1>2, <1>3, <1>4 DEF Places, UnderParent, AtTop, ByPath, PageOrNone

----------------------------------------------------------------------------
(* A request begins: the rows stay as they are.                            *)
LEMMA AskingKeeps ==
  ASSUME TreeInv, NEW t \in TreeSlot, NEW r \in TreeRequest, Waiting(t), Ask(t, r),
         UNCHANGED <<tree, home, deletes>>,
         r.page \in TreePage,
         r.op \in {"create", "move", "space"} => r.path # <<>>,
         r.op \in {"create", "space"} => r.space \in TreeSpace,
         r.op \in {"create", "move", "space"} => r.parent # r.page,
         r.op = "move" => tree[r.page].state # "unborn",
         r.op = "create" => tree[r.page].state = "unborn" /\ \A u \in TreeSlot : move[u].page # r.page
  PROVE  TreeInv'
<1>1. move \in [TreeSlot -> TreeRequest] /\ asked \in Nat /\ overlapped \in BOOLEAN
  BY DEF TreeInv
<1>2. move'[t] = r /\ \A u \in TreeSlot \ {t} : move'[u] = move[u]
  BY <1>1 DEF Ask
<1>3. \A u \in TreeSlot : RequestOK(u)'
  BY <1>2 DEF TreeInv, RequestOK
<1>4. move' \in [TreeSlot -> TreeRequest] /\ asked' \in Nat
  BY <1>1 DEF Ask, Asked
<1>5. overlapped' \in BOOLEAN
  BY <1>1, Zenon DEF Ask, Asked
<1>. QED
  BY <1>3, <1>4, <1>5 DEF TreeInv

(* A request ends with new rows: a page that was not there is not there    *)
(* yet, unless the request is its creation.                                *)
LEMMA LeavingKeeps ==
  ASSUME TreeInv, NEW t \in TreeSlot, Leave(t), WellFormed(tree'),
         home' \in [TreeSpace -> PageOrNone], deletes' \in Nat,
         \A p \in TreePage : tree[p].state = "unborn" =>
             tree'[p].state = "unborn" \/ (move[t].op = "create" /\ move[t].page = p),
         \A p \in TreePage : tree[p].state # "unborn" => tree'[p].state # "unborn"
  PROVE  TreeInv'
<1>1. move \in [TreeSlot -> TreeRequest] /\ \A u \in TreeSlot : RequestOK(u)
  BY DEF TreeInv
<1>2. /\ move' = [move EXCEPT ![t] = NoRequest] /\ asked' = asked /\ overlapped' = overlapped
  BY DEF Leave
<1>3. move'[t] = NoRequest /\ \A u \in TreeSlot \ {t} : move'[u] = move[u]
  BY <1>1, <1>2
<1>4. ASSUME NEW u \in TreeSlot PROVE RequestOK(u)'
  <2>1. CASE u = t
    BY <1>3, <2>1, RequestNone DEF RequestOK
  <2>2. CASE u # t
    <3>1. move'[u] = move[u] /\ RequestOK(u)
      BY <1>1, <1>3, <2>2
    <3>2. ASSUME move[u].op = "create"
          PROVE  /\ tree'[move[u].page].state = "unborn"
                 /\ \A v \in TreeSlot : move'[v].op = "create" /\ move'[v].page = move[u].page => v = u
      <4>1. move[u].page \in TreePage /\ ~(move[t].op = "create" /\ move[t].page = move[u].page)
        BY <2>2, <3>1, <3>2 DEF RequestOK
      <4>2. \A v \in TreeSlot : move'[v].op = "create" => move'[v] = move[v]
        BY <1>3, RequestNone
      <4>. QED
        BY <3>1, <3>2, <4>1, <4>2 DEF RequestOK
    <3>3. move[u].op = "move" => tree'[move[u].page].state # "unborn"
      BY <3>1 DEF RequestOK
    <3>. QED
      BY <3>1, <3>2, <3>3 DEF RequestOK
  <2>. QED
    BY <2>1, <2>2
<1>5. move' \in [TreeSlot -> TreeRequest]
  BY <1>1, <1>2, RequestNone
<1>. QED
  BY <1>2, <1>4, <1>5 DEF TreeInv

(* A request that is one step.                                             *)
LEMMA AtomicKeeps ==
  ASSUME TreeInv, Atomic, WellFormed(tree'), home' \in [TreeSpace -> PageOrNone],
         \A p \in TreePage : tree'[p].state = tree[p].state
  PROVE  TreeInv'
<1>1. \A u \in TreeSlot : RequestOK(u)'
  BY DEF TreeInv, RequestOK, Atomic
<1>2. asked' \in Nat /\ deletes' \in Nat /\ move' \in [TreeSlot -> TreeRequest]
  BY DEF TreeInv, Atomic, Asked
<1>3. overlapped' \in BOOLEAN
  BY Zenon DEF TreeInv, Atomic, Asked
<1>. QED
  BY <1>1, <1>2, <1>3 DEF TreeInv

----------------------------------------------------------------------------
LEMMA InitTree == TreeInit => TreeInv
<1> SUFFICES ASSUME TreeInit PROVE TreeInv
  OBVIOUS
<1>1. ASSUME NEW p \in TreePage
      PROVE  /\ tree[p] \in TreeRow /\ tree[p].at = 0 /\ tree[p].link = "none" /\ tree[p].state # "deleted"
             /\ tree[p].state # "unborn" => tree[p].path # <<>> /\ tree[p].space \in TreeSpace
             /\ tree[p].parent # p /\ tree[p].link # p
  <2>1. CASE FirstPath[p] = <<>>
    <3>1. tree[p] = Unborn
      BY <2>1 DEF TreeInit
    <3>. QED
      BY <3>1, RowUnborn, TreeAssumption DEF Unborn
  <2>2. CASE FirstPath[p] # <<>>
    <3>1. tree[p] = Born(FirstSpace, FirstPath[p], FirstParent[p])
      BY <2>2 DEF TreeInit, Born
    <3>2. FirstSpace \in TreeSpace /\ FirstPath[p] \in PathOf /\ FirstParent[p] \in PageOrNone
      BY TreeAssumption DEF PathOf
    <3>3. FirstParent[p] # p
      <4> SUFFICES ASSUME FirstParent[p] = p PROVE FALSE
        OBVIOUS
      <4>1. FirstPath[p] = Above(FirstPath[p])
        BY <2>2, FirstAssumption, TreeAssumption DEF Above
      <4>. QED
        BY <2>2, <3>2, <4>1, AboveIs
    <3>. QED
      BY <2>2, <3>1, <3>2, <3>3, RowBorn, TreeAssumption
  <2>. QED
    BY <2>1, <2>2
<1>2. tree \in [TreePage -> TreeRow]
  <2>1. tree = [p \in TreePage |-> tree[p]]
    BY DEF TreeInit
  <2>. QED
    BY <1>1, <2>1
<1>3. WellFormed(tree)
  BY <1>1, <1>2 DEF WellFormed, Mutual, Apart
<1>4. \A t \in TreeSlot : RequestOK(t)
  BY RequestNone DEF TreeInit, RequestOK
<1>. QED
  BY <1>3, <1>4, RequestNone DEF TreeInit, TreeInv, PageOrNone

----------------------------------------------------------------------------
(* Requests begin.                                                         *)
LEMMA CreateReadInv ==
  ASSUME TreeInv, NEW t \in TreeSlot, NEW p \in TreePage, NEW s \in TreeSpace, NEW l \in PageOrNone,
         CreateRead(t, p, s, l)
  PROVE  TreeInv'
<1>1. PICK place \in Places(s) :
        Ask(t, [NoRequest EXCEPT !.op = "create", !.page = p, !.space = s, !.path = place.path,
                                 !.parent = place.parent, !.link = l])
  BY DEF CreateRead
<1> DEFINE r == [NoRequest EXCEPT !.op = "create", !.page = p, !.space = s, !.path = place.path,
                                  !.parent = place.parent, !.link = l]
<1>2. place.path \in PathOf /\ place.path # <<>> /\ place.parent \in PageOrNone
  BY PlacesAre
<1>3. /\ r \in TreeRequest /\ r.page = p /\ r.path = place.path /\ r.space = s /\ r.op = "create"
      /\ r.parent = place.parent
  BY <1>2, RequestNone DEF TreeRequest, PageOrNone
<1>4. Ask(t, r) /\ Waiting(t)
  BY <1>1 DEF CreateRead, MayAsk
<1>5. place.parent # p
  BY PlacesAre, TreeAssumption DEF CreateRead, LiveIn, IsLive
<1> HIDE DEF r
<1>. QED
  BY <1>2, <1>3, <1>4, <1>5, AskingKeeps DEF CreateRead

LEMMA MoveLockInv ==
  ASSUME TreeInv, NEW t \in TreeSlot, NEW p \in TreePage, MoveLock(t, p)
  PROVE  TreeInv'
<1>1. IsLive(p) /\ tree[p].space \in TreeSpace /\ tree[p].state # "unborn"
  BY DEF MoveLock, TreeInv, WellFormed, IsLive
<1>2. PICK place \in Places(tree[p].space) :
        /\ NotBelowItself(p, place)
        /\ Ask(t, [NoRequest EXCEPT !.op = "move", !.page = p, !.rows = {p},
                                    !.path = place.path, !.parent = place.parent])
  BY DEF MoveLock
<1> DEFINE r == [NoRequest EXCEPT !.op = "move", !.page = p, !.rows = {p},
                                  !.path = place.path, !.parent = place.parent]
<1>3. place.path \in PathOf /\ place.path # <<>> /\ place.parent \in PageOrNone
  BY <1>1, PlacesAre
<1>4. r \in TreeRequest /\ r.page = p /\ r.path = place.path /\ r.op = "move" /\ r.parent = place.parent
  BY <1>3, RequestNone DEF TreeRequest, PageOrNone
<1>5. Ask(t, r) /\ Waiting(t)
  BY <1>2 DEF MoveLock, MayAsk
<1> HIDE DEF r
<1>. QED
  BY <1>1, <1>2, <1>3, <1>4, <1>5, AskingKeeps DEF MoveLock, NotBelowItself

LEMMA SpaceLockInv ==
  ASSUME TreeInv, NEW t \in TreeSlot, NEW p \in TreePage, NEW s \in TreeSpace, NEW q \in PageOrNone,
         SpaceLock(t, p, s, q)
  PROVE  TreeInv'
<1> DEFINE root == Join(IF q = "none" THEN <<>> ELSE tree[q].path, LastOf(tree[p].path))
           r == [NoRequest EXCEPT !.op = "space", !.page = p, !.space = s, !.path = root,
                                  !.rows = SubtreeOf(p) \cup ({q} \ {"none"}),
                                  !.spaces = {tree[p].space, s},
                                  !.parent = q, !.found = SubtreeOf(p)]
<1>1. Ask(t, r) /\ Waiting(t)
  BY DEF SpaceLock, MayAsk
<1>2. tree[p].path \in PathOf /\ tree[p].path # <<>> /\ tree[p].space \in TreeSpace
  BY DEF SpaceLock, TreeInv, WellFormed, TreeRow, IsLive
<1>3. LastOf(tree[p].path) \in Segment
  BY <1>2, Names DEF LastOf
<1>4. (IF q = "none" THEN <<>> ELSE tree[q].path) \in PathOf
  BY EmptySeq DEF TreeInv, WellFormed, TreeRow, PageOrNone, PathOf
<1>5. root \in PathOf /\ root # <<>>
  BY <1>3, <1>4, JoinedIs
<1>6. SubtreeOf(p) \subseteq TreePage
  BY DEF SubtreeOf, LiveIn
<1> HIDE DEF root
<1>7. /\ r \in TreeRequest /\ r.page = p /\ r.path = root /\ r.op = "space" /\ r.space = s
      /\ r.parent = q
  BY <1>2, <1>5, <1>6, RequestNone DEF TreeRequest, PageOrNone
<1>8. q # p
  BY TreeAssumption DEF SpaceLock, LiveIn
<1> HIDE DEF r
<1>. QED
  BY <1>1, <1>5, <1>7, <1>8, AskingKeeps DEF SpaceLock

LEMMA DeleteLockInv ==
  ASSUME TreeInv, NEW t \in TreeSlot, NEW p \in TreePage, DeleteLock(t, p)
  PROVE  TreeInv'
<1> DEFINE r == [NoRequest EXCEPT !.op = "delete", !.page = p, !.rows = {p}]
<1>1. r \in TreeRequest /\ r.page = p /\ r.op = "delete"
  BY RequestNone DEF TreeRequest, PageOrNone
<1>2. Ask(t, r) /\ Waiting(t)
  BY DEF DeleteLock, MayAsk
<1> HIDE DEF r
<1>. QED
  BY <1>1, <1>2, AskingKeeps DEF DeleteLock

(* What a restore finds.                                                   *)
RemovedWith(p) ==
    {q \in TreePage : /\ tree[q].state = "deleted" /\ tree[q].at = tree[p].at
                      /\ tree[q].space = tree[p].space
                      /\ q = p \/ Below(tree[q].path, tree[p].path)}

LEMMA RestoreLockInv ==
  ASSUME TreeInv, NEW t \in TreeSlot, NEW p \in TreePage, RestoreLock(t, p)
  PROVE  TreeInv'
<1> DEFINE r == [NoRequest EXCEPT !.op = "restore", !.page = p, !.found = RemovedWith(p),
                                  !.rows = {p, tree[p].parent} \ {"none"}]
<1>1. tree[p].parent \in PageOrNone /\ RemovedWith(p) \subseteq TreePage
  BY DEF TreeInv, WellFormed, TreeRow, RemovedWith
<1>2. r \in TreeRequest /\ r.page = p /\ r.op = "restore"
  BY <1>1, RequestNone DEF TreeRequest, PageOrNone
<1>3. Ask(t, r) /\ Waiting(t)
  BY DEF RestoreLock, MayAsk, RemovedWith
<1> HIDE DEF r
<1>. QED
  BY <1>2, <1>3, AskingKeeps DEF RestoreLock

----------------------------------------------------------------------------
(* Requests end.                                                           *)
LEMMA CreateInsertInv == ASSUME TreeInv, NEW t \in TreeSlot, CreateInsert(t) PROVE TreeInv'
<1> DEFINE r == move[t]
           p == r.page
           born == [tree EXCEPT ![p] = Born(r.space, r.path, r.parent)]
<1>1. /\ r \in TreeRequest /\ r.op = "create" /\ p \in TreePage /\ r.path \in PathOf /\ r.path # <<>>
      /\ r.space \in TreeSpace /\ r.parent \in PageOrNone /\ tree[p].state = "unborn"
      /\ r.parent # p
  BY DEF CreateInsert, TreeInv, RequestOK, TreeRequest
<1>2. /\ Born(r.space, r.path, r.parent) \in TreeRow
      /\ Born(r.space, r.path, r.parent).state = "live" /\ Born(r.space, r.path, r.parent).at = 0
      /\ Born(r.space, r.path, r.parent).link = "none" /\ Born(r.space, r.path, r.parent).path = r.path
      /\ Born(r.space, r.path, r.parent).space = r.space
      /\ Born(r.space, r.path, r.parent).parent = r.parent
  BY <1>1, RowBorn
<1>3. WellFormed(born)
  BY <1>1, <1>2, BirthKeeps DEF TreeInv
<1>4. born[p].state = "live" /\ \A x \in TreePage \ {p} : born[x] = tree[x]
  BY <1>1, <1>2 DEF TreeInv, WellFormed
<1>5. tree' = IF r.link = "none" THEN born ELSE Paired(born, p, r.link)
  BY Zenon DEF CreateInsert, Born
<1>6. r.link # "none" => r.link \in TreePage /\ r.link # p /\ tree[r.link].state = "live"
  BY <1>1 DEF CreateInsert, LiveIn, IsLive
<1> HIDE DEF born, p, r
<1>7. WellFormed(tree') /\ \A x \in TreePage \ {p} : tree'[x].state = tree[x].state
  <2>1. CASE r.link = "none"
    BY <1>3, <1>4, <1>5, <2>1
  <2>2. CASE r.link # "none"
    <3>1. born[r.link].state = "live"
      BY <1>4, <1>6, <2>2
    <3>2. WellFormed(Paired(born, p, r.link)) /\ SamePlaces(Paired(born, p, r.link), born)
      BY <1>1, <1>3, <1>4, <1>6, <2>2, <3>1, PairingKeeps
    <3>. QED
      BY <1>4, <1>5, <2>2, <3>2 DEF SamePlaces, SamePlace
  <2>. QED
    BY <2>1, <2>2
<1>8. home' \in [TreeSpace -> PageOrNone] /\ deletes' \in Nat /\ Leave(t)
  BY DEF CreateInsert, TreeInv
<1>9. \A x \in TreePage : tree[x].state # "unborn" => x # p
  BY <1>1
<1>. QED
  BY <1>1, <1>7, <1>8, <1>9, LeavingKeeps DEF p, r

(* What a move does to the rows.                                           *)
LEMMA MovedIs ==
  ASSUME TreeInv, NEW p \in TreePage, NEW s \in TreeSpace, NEW w \in PathOf, w # <<>>,
         NEW q \in PageOrNone, q # p
  PROVE  LET moved == MovedRows(p, SubtreeOf(p), s, w, q)
         IN  /\ WellFormed(moved)
             /\ \A x \in TreePage :
                  /\ moved[x].state = tree[x].state /\ moved[x].at = tree[x].at /\ moved[x].link = tree[x].link
                  /\ x # p => moved[x].parent = tree[x].parent
                  /\ x \notin SubtreeOf(p) \cup {p} => moved[x] = tree[x]
                  /\ x \in SubtreeOf(p) \ {p} =>
                       moved[x].space = s /\ moved[x].path = Rebased(tree[x].path, tree[p].path, w)
             /\ moved[p].parent = q /\ moved[p].path = w /\ moved[p].space = s
<1> DEFINE moved == MovedRows(p, SubtreeOf(p), s, w, q)
<1>1. \A x \in TreePage : tree[x] \in TreeRow /\ tree[x].path \in PathOf
  BY DEF TreeInv, WellFormed, TreeRow
<1>2. /\ moved[p] \in TreeRow /\ moved[p].parent = q /\ moved[p].path = w /\ moved[p].space = s
      /\ moved[p].state = tree[p].state /\ moved[p].at = tree[p].at /\ moved[p].link = tree[p].link
  <2>1. moved[p] = [tree[p] EXCEPT !.space = s, !.path = w, !.parent = q]
    BY DEF MovedRows
  <2>. QED
    BY <1>1, <2>1 DEF TreeRow
<1>3. ASSUME NEW x \in SubtreeOf(p) \ {p}
      PROVE  /\ x \in TreePage /\ moved[x] \in TreeRow /\ moved[x].space = s
             /\ moved[x].path = Rebased(tree[x].path, tree[p].path, w) /\ moved[x].path # <<>>
             /\ moved[x].state = tree[x].state /\ moved[x].at = tree[x].at
             /\ moved[x].link = tree[x].link /\ moved[x].parent = tree[x].parent
  <2>1. x \in TreePage /\ Below(tree[x].path, tree[p].path)
    BY DEF SubtreeOf, LiveIn
  <2>2. Rebased(tree[x].path, tree[p].path, w) \in PathOf /\ Rebased(tree[x].path, tree[p].path, w) # <<>>
    BY <1>1, <2>1, RebasedAbove
  <2>3. moved[x] = [tree[x] EXCEPT !.space = s, !.path = Rebased(tree[x].path, tree[p].path, w)]
    BY <2>1 DEF MovedRows
  <2> HIDE DEF moved
  <2>. QED
    BY <1>1, <2>1, <2>2, <2>3 DEF TreeRow
<1>4. \A x \in TreePage : x \notin SubtreeOf(p) \cup {p} => moved[x] = tree[x]
  BY DEF MovedRows
<1>5. moved = [x \in TreePage |-> moved[x]]
  BY DEF MovedRows
<1> HIDE DEF moved
<1>6. moved \in [TreePage -> TreeRow]
  BY <1>1, <1>2, <1>3, <1>4, <1>5
<1>7. \A x \in TreePage : /\ moved[x].link = tree[x].link /\ moved[x].state = tree[x].state
                          /\ moved[x].at = tree[x].at
                          /\ tree[x].path # <<>> => moved[x].path # <<>>
                          /\ tree[x].space \in TreeSpace => moved[x].space \in TreeSpace
                          /\ moved[x].parent # x
  BY <1>2, <1>3, <1>4 DEF TreeInv, WellFormed, Apart
<1>8. WellFormed(moved)
  BY <1>6, <1>7, PlacingKeeps DEF TreeInv
<1>9. \A x \in TreePage : x # p => moved[x].parent = tree[x].parent
  BY <1>3, <1>4
<1>. QED
  BY <1>2, <1>3, <1>4, <1>7, <1>8, <1>9 DEF moved

LEMMA MoveCommitInv == ASSUME TreeInv, NEW t \in TreeSlot, MoveCommit(t) PROVE TreeInv'
<1> DEFINE r == move[t]
           p == r.page
<1>1. /\ r \in TreeRequest /\ r.op = "move" /\ p \in TreePage /\ r.path \in PathOf /\ r.path # <<>>
      /\ r.parent \in PageOrNone /\ r.parent # p /\ tree[p].space \in TreeSpace
  BY DEF MoveCommit, TreeInv, RequestOK, TreeRequest, WellFormed, TreeRow
<1>2. tree' = MovedRows(p, SubtreeOf(p), tree[p].space, r.path, r.parent)
  BY DEF MoveCommit
<1> HIDE DEF p, r
<1>3. WellFormed(tree') /\ \A x \in TreePage : tree'[x].state = tree[x].state
  BY <1>1, <1>2, MovedIs
<1>4. home' \in [TreeSpace -> PageOrNone] /\ deletes' \in Nat /\ Leave(t)
  BY DEF MoveCommit, TreeInv
<1>. QED
  BY <1>3, <1>4, LeavingKeeps

LEMMA SpaceCommitInv == ASSUME TreeInv, NEW t \in TreeSlot, SpaceCommit(t) PROVE TreeInv'
<1> DEFINE r == move[t]
           p == r.page
           moved == MovedRows(p, SubtreeOf(p), r.space, r.path, r.parent)
<1>1. /\ r \in TreeRequest /\ r.op = "space" /\ p \in TreePage /\ r.path \in PathOf /\ r.path # <<>>
      /\ r.parent \in PageOrNone /\ r.parent # p /\ r.space \in TreeSpace
  BY DEF SpaceCommit, TreeInv, RequestOK, TreeRequest
<1>2. tree' = Unlinked(moved, SplitPairs(r.found))
  BY DEF SpaceCommit
<1>3. r.found \subseteq TreePage
  BY <1>1 DEF TreeRequest
<1> HIDE DEF p, r
<1>4. WellFormed(moved) /\ \A x \in TreePage : moved[x].state = tree[x].state /\ moved[x].link = tree[x].link
  BY <1>1, MovedIs
<1> HIDE DEF moved
<1>5. \A x \in SplitPairs(r.found) \cap TreePage : tree[x].link \in SplitPairs(r.found) \cup {"none"}
  <2> DEFINE out == {x \in r.found : tree[x].link \notin r.found \cup {"none"}}
  <2>1. SplitPairs(r.found) = out \cup {tree[x].link : x \in out}
    BY DEF SplitPairs
  <2>2. \A x \in out : tree[tree[x].link].link = x
    BY <1>3 DEF TreeInv, WellFormed, Mutual
  <2>. QED
    BY <2>1, <2>2
<1>6. WellFormed(tree') /\ SamePlaces(tree', moved)
  BY <1>2, <1>4, <1>5, UnlinkingKeeps
<1>7. \A x \in TreePage : tree'[x].state = tree[x].state
  BY <1>4, <1>6 DEF SamePlaces, SamePlace
<1>8. home' \in [TreeSpace -> PageOrNone] /\ deletes' \in Nat /\ Leave(t)
  BY DEF SpaceCommit, TreeInv
<1>. QED
  BY <1>6, <1>7, <1>8, LeavingKeeps

LEMMA DeleteCommitInv == ASSUME TreeInv, NEW t \in TreeSlot, DeleteCommit(t) PROVE TreeInv'
<1> DEFINE S == SubtreeOf(move[t].page)
<1>1. tree' = RemovedRows(tree, S, deletes + 1) /\ deletes + 1 \in Nat \ {0} /\ deletes' \in Nat
  BY DEF DeleteCommit, TreeInv
<1>2. \A x \in S : x \in TreePage /\ tree[x].state = "live"
  BY DEF SubtreeOf, LiveIn, IsLive
<1> HIDE DEF S
<1>3. /\ WellFormed(tree') /\ \A x \in TreePage \ S : SamePlace(tree'[x], tree[x])
  BY <1>1, <1>2, RemovingKeeps DEF TreeInv
<1>4. \A x \in TreePage : tree[x].state = "unborn" <=> tree'[x].state = "unborn"
  <2>1. \A x \in S : tree'[x].state = "deleted"
    BY <1>1, <1>2, RemovingKeeps DEF TreeInv
  <2>. QED
    BY <1>2, <1>3, <2>1 DEF SamePlace
<1>5. home' \in [TreeSpace -> PageOrNone] /\ Leave(t)
  BY DEF DeleteCommit, TreeInv
<1>. QED
  BY <1>1, <1>3, <1>4, <1>5, LeavingKeeps

LEMMA RestoreCommitInv == ASSUME TreeInv, NEW t \in TreeSlot, RestoreCommit(t) PROVE TreeInv'
<1> DEFINE S == {q \in move[t].found : tree[q].state = "deleted"}
           back == BackIn(tree, S)
<1>1. tree' = back
  BY DEF RestoreCommit, BackIn
<1>2. \A x \in S : x \in TreePage /\ tree[x].state = "deleted"
  BY DEF TreeInv, TreeRequest
<1> HIDE DEF S
<1>3. /\ WellFormed(back) /\ \A x \in TreePage \ S : back[x] = tree[x]
      /\ \A x \in S : back[x].state = "live"
  BY <1>2, RestoringKeeps DEF TreeInv
<1>4. \A x \in TreePage : tree[x].state = "unborn" <=> tree'[x].state = "unborn"
  BY <1>1, <1>2, <1>3
<1>5. home' \in [TreeSpace -> PageOrNone] /\ deletes' \in Nat /\ Leave(t)
  BY DEF RestoreCommit, TreeInv
<1>. QED
  BY <1>1, <1>3, <1>4, <1>5, LeavingKeeps

----------------------------------------------------------------------------
(* Requests that are one step, and those that are given up.                *)
LEMMA LinkInv ==
  ASSUME TreeInv, NEW t \in TreeSlot, NEW p \in TreePage, NEW q \in TreePage, LinkPages(t, p, q)
  PROVE  TreeInv'
<1>1. /\ tree' = Paired(tree, p, q) /\ p # q /\ tree[p].state = "live" /\ tree[q].state = "live"
      /\ Atomic /\ home' = home
  BY DEF LinkPages, IsLive, LiveIn
<1>2. WellFormed(tree') /\ SamePlaces(tree', tree)
  BY <1>1, PairingKeeps DEF TreeInv
<1>. QED
  BY <1>1, <1>2, AtomicKeeps DEF TreeInv, SamePlaces, SamePlace

LEMMA UnlinkInv ==
  ASSUME TreeInv, NEW t \in TreeSlot, NEW p \in TreePage, UnlinkPage(t, p)
  PROVE  TreeInv'
<1>1. /\ tree' = Unlinked(tree, {p, tree[p].link}) /\ tree[p].link # "none"
      /\ Atomic /\ home' = home
  BY DEF UnlinkPage
<1>2. \A x \in {p, tree[p].link} \cap TreePage : tree[x].link \in {p, tree[p].link} \cup {"none"}
  BY <1>1 DEF TreeInv, WellFormed, Mutual
<1>3. WellFormed(tree') /\ SamePlaces(tree', tree)
  BY <1>1, <1>2, UnlinkingKeeps DEF TreeInv
<1>. QED
  BY <1>1, <1>3, AtomicKeeps DEF TreeInv, SamePlaces, SamePlace

LEMMA SetHomeInv ==
  ASSUME TreeInv, NEW t \in TreeSlot, NEW s \in TreeSpace, NEW p \in PageOrNone, SetHome(t, s, p)
  PROVE  TreeInv'
<1>1. home' \in [TreeSpace -> PageOrNone] /\ WellFormed(tree') /\ tree' = tree /\ Atomic
  BY DEF SetHome, TreeInv
<1>. QED
  BY <1>1, AtomicKeeps

LEMMA AbortInv == ASSUME TreeInv, NEW t \in TreeSlot, AbortTree(t) PROVE TreeInv'
<1>1. /\ home' \in [TreeSpace -> PageOrNone] /\ WellFormed(tree') /\ deletes' \in Nat
      /\ tree' = tree /\ Leave(t)
  BY DEF AbortTree, TreeInv
<1>. QED
  BY <1>1, LeavingKeeps

LEMMA TreeStep == TreeInv /\ [TreeNext]_treeVars => TreeInv'
<1> SUFFICES ASSUME TreeInv, [TreeNext]_treeVars PROVE TreeInv'
  OBVIOUS
<1>1. CASE UNCHANGED treeVars
  BY <1>1 DEF treeVars, TreeInv, RequestOK
<1>2. CASE TreeNext
  <2>1. PICK t \in TreeSlot :
        \/ \E p \in TreePage, s \in TreeSpace, l \in PageOrNone : CreateRead(t, p, s, l)
        \/ \E p \in TreePage, s \in TreeSpace, q \in PageOrNone : SpaceLock(t, p, s, q)
        \/ \E p \in TreePage : MoveLock(t, p) \/ DeleteLock(t, p) \/ RestoreLock(t, p) \/ UnlinkPage(t, p)
        \/ CreateInsert(t) \/ MoveCommit(t) \/ SpaceCommit(t) \/ DeleteCommit(t) \/ RestoreCommit(t)
        \/ \E p, q \in TreePage : LinkPages(t, p, q)
        \/ \E s \in TreeSpace, p \in PageOrNone : SetHome(t, s, p)
        \/ AbortTree(t)
    BY <1>2 DEF TreeNext
  <2>. QED
    BY <2>1, CreateReadInv, SpaceLockInv, MoveLockInv, DeleteLockInv, RestoreLockInv, UnlinkInv,
       CreateInsertInv, MoveCommitInv, SpaceCommitInv, DeleteCommitInv, RestoreCommitInv, LinkInv,
       SetHomeInv, AbortInv
<1>. QED
  BY <1>1, <1>2

(* The rows and requests keep to their form under any interleaving.        *)
THEOREM TreeHolds == TreeSpec => []TreeInv
  BY InitTree, TreeStep, PTL DEF TreeSpec

(* Types, and no page is the parent or the counterpart of itself, however  *)
(* requests interleave.                                                    *)
THEOREM TreeTypes == TreeSpec => []TreeTypeOK
<1>1. TreeInv => TreeTypeOK
  BY DEF TreeInv, TreeTypeOK, WellFormed, Apart
<1>. QED
  BY <1>1, TreeHolds, PTL

(* Pairs are mutual and of live pages, however requests interleave.        *)
THEOREM PairsArePairs == TreeSpec => []PairsMutual
<1>1. TreeInv => PairsMutual
  BY DEF TreeInv, WellFormed, Mutual, PairsMutual
<1>. QED
  BY <1>1, TreeHolds, PTL

----------------------------------------------------------------------------
(***************************************************************************)
(* Requests one after another.  Shape is what the rows then keep to: every *)
(* live page is right below its parent; what one delete removed keeps its  *)
(* shape too, so that it can be restored as it was.                        *)
(***************************************************************************)
RightBelow(rows, p) ==
    /\ rows[p].parent \in TreePage
    /\ rows[rows[p].parent].state = rows[p].state /\ rows[rows[p].parent].at = rows[p].at
    /\ rows[rows[p].parent].space = rows[p].space
    /\ rows[rows[p].parent].path = Above(rows[p].path)

KeptIn(rows) ==
    \A p \in TreePage :
        rows[p].state = "live" /\ rows[p].parent # "none" => RightBelow(rows, p)

(* All that was deleted with a page is below it.                           *)
GroupRoot(rows, p) ==
    \A q \in TreePage \ {p} : rows[q].state = "deleted" /\ rows[q].at = rows[p].at =>
        rows[q].space = rows[p].space /\ Below(rows[q].path, rows[p].path)

GroupsIn(rows, n) ==
    \A p \in TreePage : rows[p].state = "deleted" =>
        /\ rows[p].at =< n
        /\ rows[p].parent = "none" \/ GroupRoot(rows, p) \/ RightBelow(rows, p)
        /\ \A q \in TreePage : /\ rows[q].state = "deleted" /\ rows[q].at = rows[p].at
                               /\ rows[q].path = rows[p].path
                               => p = q

ApartIn(rows, h) ==
    /\ \A p \in TreePage : rows[p].link # "none" => rows[rows[p].link].space = rows[p].space
    /\ \A s \in TreeSpace : h[s] # "none" => rows[h[s]].space = s /\ rows[h[s]].state # "unborn"

Shape(rows, h, n) == UniquePaths(rows) /\ KeptIn(rows) /\ GroupsIn(rows, n) /\ ApartIn(rows, h)

(* What a request found is still so.                                       *)
OnTop(s, path, q) == q # "none" => IsLive(q) /\ tree[q].space = s /\ tree[q].path = Above(path)

Fits(r) ==
    /\ r.op = "create" => OnTop(r.space, r.path, r.parent)
    /\ r.op = "move" =>
         /\ IsLive(r.page) /\ OnTop(tree[r.page].space, r.path, r.parent)
         /\ r.parent # r.page /\ ~Below(r.path, tree[r.page].path)
    /\ r.op = "space" =>
         /\ IsLive(r.page) /\ OnTop(r.space, r.path, r.parent) /\ r.space # tree[r.page].space
         /\ r.found = SubtreeOf(r.page) /\ home[tree[r.page].space] \notin r.found
    /\ r.op = "delete" => IsLive(r.page)
    /\ r.op = "restore" =>
         /\ tree[r.page].state = "deleted" /\ ParentInPlace(r.page) /\ r.found = RemovedWith(r.page)

OneByOne ==
    ~overlapped =>
        /\ Shape(tree, home, deletes)
        /\ \A t, u \in TreeSlot : ~Waiting(t) /\ ~Waiting(u) => t = u
        /\ \A t \in TreeSlot : Fits(move[t])

----------------------------------------------------------------------------
(* Rows that differ in their pairs only have the same shape, as long as    *)
(* the pairs stay in their spaces.                                         *)
LEMMA SameShape ==
  ASSUME NEW rows, NEW new, NEW h, NEW n, Shape(rows, h, n), SamePlaces(new, rows),
         \A p \in TreePage : new[p].link # "none" =>
             new[p].link \in TreePage /\ rows[new[p].link].space = rows[p].space,
         \A s \in TreeSpace : h[s] \in PageOrNone
  PROVE  Shape(new, h, n)
<1>1. \A p \in TreePage : /\ new[p].state = rows[p].state /\ new[p].at = rows[p].at
                          /\ new[p].space = rows[p].space /\ new[p].path = rows[p].path
                          /\ new[p].parent = rows[p].parent
  BY DEF SamePlaces, SamePlace
<1>2. \A p \in TreePage : RightBelow(rows, p) => RightBelow(new, p)
  BY <1>1 DEF RightBelow
<1>3. \A p \in TreePage : GroupRoot(rows, p) => GroupRoot(new, p)
  BY <1>1 DEF GroupRoot
<1>4. UniquePaths(new)
  BY <1>1 DEF Shape, UniquePaths
<1>5. KeptIn(new)
  BY <1>1, <1>2 DEF Shape, KeptIn
<1>6. GroupsIn(new, n)
  BY <1>1, <1>2, <1>3 DEF Shape, GroupsIn
<1>7. ApartIn(new, h)
  BY <1>1 DEF Shape, ApartIn, PageOrNone
<1>. QED
  BY <1>4, <1>5, <1>6, <1>7 DEF Shape

(* Deleted pages that are left alone keep their shape.                     *)
LEMMA SameGroups ==
  ASSUME NEW rows, NEW new, NEW n, GroupsIn(rows, n),
         \A p \in TreePage : new[p].state = "deleted" <=> rows[p].state = "deleted",
         \A p \in TreePage : rows[p].state = "deleted" => SamePlace(new[p], rows[p])
  PROVE  GroupsIn(new, n)
<1> SUFFICES ASSUME NEW p \in TreePage, new[p].state = "deleted"
             PROVE  /\ new[p].at =< n
                    /\ new[p].parent = "none" \/ GroupRoot(new, p) \/ RightBelow(new, p)
                    /\ \A q \in TreePage : /\ new[q].state = "deleted" /\ new[q].at = new[p].at
                                           /\ new[q].path = new[p].path
                                           => p = q
  BY DEF GroupsIn
<1>1. \A q \in TreePage : rows[q].state = "deleted" =>
        /\ new[q].state = rows[q].state /\ new[q].at = rows[q].at /\ new[q].space = rows[q].space
        /\ new[q].path = rows[q].path /\ new[q].parent = rows[q].parent
  BY DEF SamePlace
<1>2. RightBelow(rows, p) => RightBelow(new, p)
  BY <1>1 DEF RightBelow
<1>3. GroupRoot(rows, p) => GroupRoot(new, p)
  BY <1>1 DEF GroupRoot
<1>. QED
  BY <1>1, <1>2, <1>3 DEF GroupsIn

(* A live page is in the subtree of another if its parent is, and the      *)
(* other way round.                                                        *)
LEMMA SubtreesAreParents ==
  ASSUME TreeInv, UniquePaths(tree), KeptIn(tree), NEW p \in TreePage, IsLive(p),
         NEW q \in TreePage, IsLive(q), q # p, tree[q].parent # "none"
  PROVE  /\ tree[q].parent \in TreePage /\ IsLive(tree[q].parent)
         /\ tree[tree[q].parent].space = tree[q].space
         /\ tree[tree[q].parent].path = Above(tree[q].path)
         /\ q \in SubtreeOf(p) <=> tree[q].parent \in SubtreeOf(p)
         /\ q \in SubtreeOf(p) /\ tree[q].parent # p =>
              Below(Above(tree[q].path), tree[p].path)
<1> DEFINE x == tree[q].parent
<1>1. /\ x \in TreePage /\ IsLive(x) /\ tree[x].space = tree[q].space
      /\ tree[x].path = Above(tree[q].path)
  BY DEF KeptIn, RightBelow, IsLive
<1>2. tree[q].path \in PathOf /\ tree[p].path \in PathOf /\ tree[q].path # <<>>
  BY DEF TreeInv, WellFormed, TreeRow, IsLive
<1>3. Below(tree[q].path, tree[p].path) <=>
        Above(tree[q].path) = tree[p].path \/ Below(Above(tree[q].path), tree[p].path)
  BY <1>2, BelowByOne
<1>4. \A y \in TreePage : y \in SubtreeOf(p) <=>
        /\ IsLive(y) /\ tree[y].space = tree[p].space
        /\ y = p \/ Below(tree[y].path, tree[p].path)
  BY DEF SubtreeOf, LiveIn
<1>5. tree[x].space = tree[p].space /\ tree[x].path = tree[p].path => x = p
  BY <1>1 DEF UniquePaths, IsLive
<1> HIDE DEF x
<1>6. q \in SubtreeOf(p) <=> x \in SubtreeOf(p)
  BY <1>1, <1>3, <1>4, <1>5
<1>7. q \in SubtreeOf(p) /\ x # p => Below(Above(tree[q].path), tree[p].path)
  BY <1>1, <1>3, <1>4, <1>5
<1>. QED
  BY <1>1, <1>6, <1>7 DEF x

(* A subtree that moves takes the places of its pages along.               *)
LEMMA MovedKept ==
  ASSUME TreeInv, UniquePaths(tree), KeptIn(tree), NEW p \in TreePage, IsLive(p),
         NEW s \in TreeSpace, NEW w \in PathOf, w # <<>>, NEW q \in PageOrNone,
         OnTop(s, w, q), q \notin SubtreeOf(p)
  PROVE  KeptIn(MovedRows(p, SubtreeOf(p), s, w, q))
<1> DEFINE S == SubtreeOf(p)
           moved == MovedRows(p, SubtreeOf(p), s, w, q)
<1>1. /\ \A x \in TreePage :
           /\ moved[x].state = tree[x].state /\ moved[x].at = tree[x].at
           /\ x # p => moved[x].parent = tree[x].parent
           /\ x \notin S \cup {p} => moved[x] = tree[x]
           /\ x \in S \ {p} => moved[x].space = s /\ moved[x].path = Rebased(tree[x].path, tree[p].path, w)
      /\ moved[p].parent = q /\ moved[p].path = w /\ moved[p].space = s
  <2>1. q # p
    BY DEF SubtreeOf, LiveIn
  <2>. QED
    BY <2>1, MovedIs
<1> HIDE DEF moved
<1>2. p \in S /\ \A x \in S : x \in TreePage /\ IsLive(x)
  BY DEF SubtreeOf, LiveIn, IsLive
<1>3. \A x \in TreePage : IsLive(x) => tree[x].at = 0
  BY DEF IsLive, TreeInv, WellFormed, TreeRow
<1> SUFFICES ASSUME NEW x \in TreePage, moved[x].state = "live", moved[x].parent # "none"
             PROVE  RightBelow(moved, x)
  BY DEF KeptIn, moved
<1>4. IsLive(x) /\ moved[x].at = 0
  BY <1>1, <1>3 DEF IsLive
<1>5. CASE x = p
  <2>1. q # "none" /\ IsLive(q) /\ tree[q].space = s /\ tree[q].path = Above(w)
    BY <1>1, <1>5 DEF OnTop
  <2>2. q \in TreePage /\ moved[q] = tree[q]
    BY <1>1, <1>2, <2>1 DEF IsLive
  <2>3. moved[q].state = "live" /\ moved[q].at = 0
    BY <1>3, <2>1, <2>2 DEF IsLive
  <2>. QED
    BY <1>1, <1>4, <1>5, <2>1, <2>2, <2>3 DEF RightBelow
<1>6. CASE x # p
  <2> DEFINE y == tree[x].parent
  <2>1. moved[x].parent = y /\ y # "none"
    BY <1>1, <1>6
  <2>2. /\ y \in TreePage /\ IsLive(y) /\ tree[y].space = tree[x].space /\ tree[y].path = Above(tree[x].path)
        /\ x \in S <=> y \in S
        /\ x \in S /\ y # p => Below(Above(tree[x].path), tree[p].path)
    BY <1>4, <1>6, <2>1, SubtreesAreParents
  <2> HIDE DEF y
  <2>3. moved[y].state = moved[x].state /\ moved[y].at = moved[x].at
    BY <1>1, <1>3, <1>4, <2>2 DEF IsLive
  <2>4. CASE x \notin S
    <3>1. moved[x] = tree[x] /\ moved[y] = tree[y]
      BY <1>1, <1>2, <1>6, <2>2, <2>4
    <3>. QED
      BY <2>1, <2>2, <2>3, <3>1 DEF RightBelow
  <2>5. CASE x \in S
    <3>1. moved[x].space = s /\ moved[x].path = Rebased(tree[x].path, tree[p].path, w)
      BY <1>1, <1>6, <2>5
    <3>2. /\ tree[x].path \in PathOf /\ tree[p].path \in PathOf
          /\ Below(tree[x].path, tree[p].path)
      BY <1>6, <2>5 DEF TreeInv, WellFormed, TreeRow, SubtreeOf
    <3>3. CASE y = p
      <4>1. Above(moved[x].path) = w
        BY <2>2, <3>1, <3>2, <3>3, RebasedAbove
      <4>. QED
        BY <1>1, <2>1, <2>2, <2>3, <3>1, <3>3, <4>1 DEF RightBelow
    <3>4. CASE y # p
      <4>1. Above(moved[x].path) = Rebased(Above(tree[x].path), tree[p].path, w)
        BY <2>2, <2>5, <3>1, <3>2, <3>4, RebasedAbove
      <4>2. moved[y].space = s /\ moved[y].path = Rebased(tree[y].path, tree[p].path, w)
        BY <1>1, <2>2, <2>5, <3>4
      <4>. QED
        BY <2>1, <2>2, <2>3, <3>1, <4>1, <4>2 DEF RightBelow
    <3>. QED
      BY <3>3, <3>4
  <2>. QED
    BY <2>4, <2>5
<1>. QED
  BY <1>5, <1>6

(* What was deleted stays where it is.                                     *)
LEMMA MovedGroups ==
  ASSUME TreeInv, GroupsIn(tree, deletes), NEW p \in TreePage, IsLive(p),
         NEW s \in TreeSpace, NEW w \in PathOf, w # <<>>, NEW q \in PageOrNone, q # p
  PROVE  GroupsIn(MovedRows(p, SubtreeOf(p), s, w, q), deletes)
<1> DEFINE moved == MovedRows(p, SubtreeOf(p), s, w, q)
<1>1. \A x \in TreePage : /\ moved[x].state = tree[x].state
                          /\ x \notin SubtreeOf(p) \cup {p} => moved[x] = tree[x]
  BY MovedIs
<1> HIDE DEF moved
<1>2. \A x \in TreePage : tree[x].state = "deleted" => x \notin SubtreeOf(p) \cup {p}
  BY DEF SubtreeOf, LiveIn, IsLive
<1>3. \A x \in TreePage : tree[x].state = "deleted" => SamePlace(moved[x], tree[x])
  BY <1>1, <1>2 DEF SamePlace
<1>. QED
  BY <1>1, <1>3, SameGroups DEF moved

(* A place that is right above cannot be below: a page never goes below    *)
(* itself.                                                                 *)
LEMMA NotIntoItself ==
  ASSUME TreeInv, NEW p \in TreePage, IsLive(p), NEW w \in PathOf, w # <<>>, NEW q \in PageOrNone,
         OnTop(tree[p].space, w, q), q # p, ~Below(w, tree[p].path)
  PROVE  q \notin SubtreeOf(p)
<1> SUFFICES ASSUME q \in SubtreeOf(p) PROVE FALSE
  OBVIOUS
<1>1. q \in TreePage /\ Below(tree[q].path, tree[p].path)
  BY DEF SubtreeOf, LiveIn
<1>2. tree[q].path = Above(w)
  BY <1>1, TreeAssumption DEF OnTop
<1>3. tree[p].path \in PathOf
  BY DEF TreeInv, WellFormed, TreeRow
<1>. QED
  BY <1>1, <1>2, <1>3, BelowByOne

----------------------------------------------------------------------------
LEMMA MoveShape ==
  ASSUME TreeInv, Shape(tree, home, deletes), NEW t \in TreeSlot, MoveCommit(t), Fits(move[t])
  PROVE  Shape(tree', home', deletes')
<1> DEFINE r == move[t]
           p == r.page
           moved == MovedRows(p, SubtreeOf(p), tree[p].space, r.path, r.parent)
<1>1. /\ r \in TreeRequest /\ r.op = "move" /\ p \in TreePage /\ r.path \in PathOf /\ r.path # <<>>
      /\ r.parent \in PageOrNone /\ r.parent # p /\ tree[p].space \in TreeSpace
  BY DEF MoveCommit, TreeInv, RequestOK, TreeRequest, WellFormed, TreeRow
<1>2. /\ tree' = moved /\ home' = home /\ deletes' = deletes /\ UniquePaths(moved)
  BY DEF MoveCommit
<1>3. /\ IsLive(p) /\ OnTop(tree[p].space, r.path, r.parent) /\ r.parent # p
      /\ ~Below(r.path, tree[p].path)
  BY <1>1 DEF Fits
<1> HIDE DEF p, r
<1>4. r.parent \notin SubtreeOf(p)
  BY <1>1, <1>3, NotIntoItself
<1>5. KeptIn(moved)
  BY <1>1, <1>3, <1>4, MovedKept DEF Shape
<1>6. GroupsIn(moved, deletes)
  BY <1>1, <1>3, MovedGroups DEF Shape
<1>7. \A x \in TreePage : /\ moved[x].link = tree[x].link /\ moved[x].space = tree[x].space
                          /\ moved[x].state = tree[x].state
  <2>1. \A x \in SubtreeOf(p) : tree[x].space = tree[p].space
    BY DEF SubtreeOf, LiveIn
  <2>2. /\ \A x \in TreePage :
             /\ moved[x].state = tree[x].state /\ moved[x].link = tree[x].link
             /\ x \notin SubtreeOf(p) \cup {p} => moved[x] = tree[x]
             /\ x \in SubtreeOf(p) \ {p} => moved[x].space = tree[p].space
        /\ moved[p].space = tree[p].space
    BY <1>1, MovedIs
  <2>. QED
    BY <2>1, <2>2
<1> HIDE DEF moved
<1>8. ApartIn(moved, home)
  <2>1. \A x \in TreePage : tree[x].link # "none" =>
          tree[x].link \in TreePage /\ tree[tree[x].link].space = tree[x].space
    BY DEF TreeInv, WellFormed, Mutual, Shape, ApartIn
  <2>2. \A s \in TreeSpace : home[s] # "none" =>
          home[s] \in TreePage /\ tree[home[s]].space = s /\ tree[home[s]].state # "unborn"
    BY DEF TreeInv, PageOrNone, Shape, ApartIn
  <2>. QED
    BY <1>7, <2>1, <2>2 DEF ApartIn
<1>. QED
  BY <1>2, <1>5, <1>6, <1>8 DEF Shape

LEMMA SpaceShape ==
  ASSUME TreeInv, Shape(tree, home, deletes), NEW t \in TreeSlot, SpaceCommit(t), Fits(move[t])
  PROVE  Shape(tree', home', deletes')
<1> DEFINE r == move[t]
           p == r.page
           S == SubtreeOf(p)
           moved == MovedRows(p, SubtreeOf(p), r.space, r.path, r.parent)
<1>1. /\ r \in TreeRequest /\ r.op = "space" /\ p \in TreePage /\ r.path \in PathOf /\ r.path # <<>>
      /\ r.parent \in PageOrNone /\ r.parent # p /\ r.space \in TreeSpace
  BY DEF SpaceCommit, TreeInv, RequestOK, TreeRequest
<1>2. /\ tree' = Unlinked(moved, SplitPairs(r.found)) /\ home' = home /\ deletes' = deletes
      /\ UniquePaths(moved)
  BY DEF SpaceCommit
<1>3. /\ IsLive(p) /\ OnTop(r.space, r.path, r.parent) /\ r.space # tree[p].space
      /\ r.found = S /\ home[tree[p].space] \notin S
  BY <1>1 DEF Fits
<1>4. p \in S /\ \A x \in S : x \in TreePage /\ IsLive(x) /\ tree[x].space = tree[p].space
  BY <1>1, <1>3 DEF SubtreeOf, LiveIn
<1> HIDE DEF p, r
<1>5. r.parent \notin SubtreeOf(p)
  BY <1>1, <1>3, <1>4, TreeAssumption DEF OnTop
<1>6. KeptIn(moved) /\ GroupsIn(moved, deletes)
  BY <1>1, <1>3, <1>5, MovedKept, MovedGroups DEF Shape
<1>7. \A x \in TreePage : /\ moved[x].link = tree[x].link /\ moved[x].state = tree[x].state
                          /\ x \in S => moved[x].space = r.space
                          /\ x \notin S => moved[x].space = tree[x].space
  <2>1. /\ \A x \in TreePage :
             /\ moved[x].state = tree[x].state /\ moved[x].link = tree[x].link
             /\ x \notin SubtreeOf(p) \cup {p} => moved[x] = tree[x]
             /\ x \in SubtreeOf(p) \ {p} => moved[x].space = r.space
        /\ moved[p].space = r.space
    BY <1>1, MovedIs
  <2>. QED
    BY <1>4, <2>1
<1>8. WellFormed(moved)
  BY <1>1, MovedIs
<1> HIDE DEF moved, S
<1> DEFINE out == {x \in S : tree[x].link \notin S \cup {"none"}}
<1>9. SplitPairs(r.found) = out \cup {tree[x].link : x \in out}
  BY <1>3 DEF SplitPairs
<1>10. \A x \in TreePage : /\ SamePlace(tree'[x], moved[x])
                           /\ tree'[x].link = IF x \in SplitPairs(r.found) THEN "none" ELSE moved[x].link
  BY <1>2, <1>8, RowLinked DEF Unlinked, WellFormed, SamePlace, PageOrNone
<1>11. \A x \in TreePage : tree[x].link # "none" =>
         tree[x].link \in TreePage /\ tree[tree[x].link].link = x /\ tree[tree[x].link].space = tree[x].space
  BY DEF TreeInv, WellFormed, Mutual, Shape, ApartIn
<1>12. ASSUME NEW x \in TreePage, tree'[x].link # "none"
       PROVE  tree'[x].link \in TreePage /\ tree'[tree'[x].link].space = tree'[x].space
  <2> DEFINE y == tree[x].link
  <2>1. x \notin SplitPairs(r.found) /\ tree'[x].link = y /\ y # "none"
    BY <1>7, <1>10, <1>12
  <2>2. y \in TreePage /\ tree[y].link = x /\ tree[y].space = tree[x].space
    BY <1>11, <2>1
  <2> HIDE DEF y
  <2>3. x \in S <=> y \in S
    BY <1>9, <2>1, <2>2, TreeAssumption DEF y
  <2>4. tree'[x].space = moved[x].space /\ tree'[y].space = moved[y].space
    BY <1>10, <2>2 DEF SamePlace
  <2>. QED
    BY <1>7, <2>1, <2>2, <2>3, <2>4
<1>13. ASSUME NEW s \in TreeSpace, home[s] # "none"
       PROVE  tree'[home[s]].space = s /\ tree'[home[s]].state # "unborn"
  <2>1. home[s] \in TreePage /\ tree[home[s]].space = s /\ tree[home[s]].state # "unborn"
    BY <1>13 DEF TreeInv, PageOrNone, Shape, ApartIn
  <2>2. home[s] \notin S
    BY <1>3, <1>4, <2>1
  <2>. QED
    BY <1>7, <1>10, <2>1, <2>2 DEF SamePlace
<1>14. SamePlaces(tree', moved)
  BY <1>10 DEF SamePlaces
<1>15. UniquePaths(tree')
  BY <1>2, <1>10 DEF UniquePaths, SamePlace
<1>16. KeptIn(tree')
  BY <1>6, <1>10 DEF KeptIn, RightBelow, SamePlace
<1>17. GroupsIn(tree', deletes)
  BY <1>6, <1>10, SameGroups DEF SamePlace
<1>18. ApartIn(tree', home)
  BY <1>12, <1>13 DEF ApartIn
<1>. QED
  BY <1>2, <1>15, <1>16, <1>17, <1>18 DEF Shape

----------------------------------------------------------------------------
(* Pages of one space are paired.                                          *)
LEMMA PairingShape ==
  ASSUME NEW rows, WellFormed(rows), NEW h, NEW n, Shape(rows, h, n),
         \A s \in TreeSpace : h[s] \in PageOrNone,
         NEW p \in TreePage, NEW q \in TreePage, p # q,
         rows[p].state = "live", rows[q].state = "live", rows[q].space = rows[p].space
  PROVE  Shape(Paired(rows, p, q), h, n)
<1> DEFINE new == Paired(rows, p, q)
<1>1. SamePlaces(new, rows)
  BY PairingKeeps
<1>2. ASSUME NEW x \in TreePage, new[x].link # "none"
      PROVE  new[x].link \in TreePage /\ rows[new[x].link].space = rows[x].space
  <2>1. rows[x] \in TreeRow
    BY DEF WellFormed
  <2>2. \/ x = p /\ new[x].link = q
        \/ x = q /\ new[x].link = p
        \/ new[x].link = rows[x].link
    BY <1>2, <2>1 DEF Paired, TreeRow
  <2>3. rows[x].link # "none" => rows[x].link \in TreePage /\ rows[rows[x].link].space = rows[x].space
    BY DEF WellFormed, Mutual, Shape, ApartIn
  <2> HIDE DEF new
  <2>. QED
    BY <1>2, <2>2, <2>3
<1> HIDE DEF new
<1>3. Shape(new, h, n)
  BY <1>1, <1>2, SameShape
<1>. QED
  BY <1>3 DEF new

LEMMA CreateShape ==
  ASSUME TreeInv, Shape(tree, home, deletes), NEW t \in TreeSlot, CreateInsert(t), Fits(move[t])
  PROVE  Shape(tree', home', deletes')
<1> DEFINE r == move[t]
           p == r.page
           row == Born(r.space, r.path, r.parent)
           born == [tree EXCEPT ![p] = row]
<1>1. /\ r \in TreeRequest /\ r.op = "create" /\ p \in TreePage /\ r.path \in PathOf /\ r.path # <<>>
      /\ r.space \in TreeSpace /\ r.parent \in PageOrNone /\ tree[p].state = "unborn"
      /\ r.parent # p
      /\ OnTop(r.space, r.path, r.parent)
  BY DEF CreateInsert, TreeInv, RequestOK, TreeRequest, Fits
<1>2. /\ row \in TreeRow /\ row.state = "live" /\ row.at = 0 /\ row.link = "none"
      /\ row.path = r.path /\ row.space = r.space /\ row.parent = r.parent
  BY <1>1, RowBorn
<1>3. /\ tree' = IF r.link = "none" THEN born ELSE Paired(born, p, r.link)
      /\ UniquePaths(born) /\ home' = home /\ deletes' = deletes
  BY Zenon DEF CreateInsert, Born
<1>4. r.link # "none" => /\ r.link \in TreePage /\ r.link # p /\ tree[r.link].state = "live"
                         /\ tree[r.link].space = r.space
  BY <1>1 DEF CreateInsert, LiveIn, IsLive
<1> HIDE DEF p, r, row
<1>5. born[p] = row /\ \A x \in TreePage \ {p} : born[x] = tree[x]
  BY <1>1, <1>2 DEF TreeInv, WellFormed
<1>6. WellFormed(born)
  BY <1>1, <1>2, BirthKeeps DEF TreeInv
<1> HIDE DEF born
<1>7. ASSUME NEW x \in TreePage \ {p}, RightBelow(tree, x), tree[x].state # "unborn"
      PROVE  RightBelow(born, x)
  BY <1>1, <1>5, <1>7 DEF RightBelow
<1>8. KeptIn(born)
  <2> SUFFICES ASSUME NEW x \in TreePage, born[x].state = "live", born[x].parent # "none"
               PROVE  RightBelow(born, x)
    BY DEF KeptIn
  <2>1. CASE x = p
    <3>1. /\ r.parent \in TreePage /\ tree[r.parent].state = "live" /\ tree[r.parent].space = r.space
          /\ tree[r.parent].path = Above(r.path)
      BY <1>2, <1>5, <2>1, <1>1 DEF OnTop, IsLive
    <3>2. r.parent # p /\ tree[r.parent].at = 0
      BY <1>1, <3>1 DEF TreeInv, WellFormed, TreeRow
    <3>. QED
      BY <1>2, <1>5, <2>1, <3>1, <3>2 DEF RightBelow
  <2>2. CASE x # p
    BY <1>5, <1>7, <2>2 DEF Shape, KeptIn
  <2>. QED
    BY <2>1, <2>2
<1>9. GroupsIn(born, deletes)
  <2>1. \A x \in TreePage : born[x].state = "deleted" <=> tree[x].state = "deleted"
    BY <1>1, <1>2, <1>5
  <2>2. \A x \in TreePage : tree[x].state = "deleted" => SamePlace(born[x], tree[x])
    BY <1>1, <1>5 DEF SamePlace
  <2>. QED
    BY <2>1, <2>2, SameGroups DEF Shape
<1>10. \A x \in TreePage : tree[x].link # "none" =>
         /\ tree[x].link \in TreePage /\ tree[tree[x].link].space = tree[x].space
         /\ x # p /\ tree[x].link # p
  BY <1>1, TreeAssumption DEF TreeInv, WellFormed, Mutual, Shape, ApartIn
<1>11. \A s \in TreeSpace : home[s] # "none" =>
         /\ home[s] \in TreePage /\ tree[home[s]].space = s /\ tree[home[s]].state # "unborn"
         /\ home[s] # p
  BY <1>1 DEF TreeInv, PageOrNone, Shape, ApartIn
<1>12. ApartIn(born, home)
  BY <1>2, <1>5, <1>10, <1>11 DEF ApartIn
<1>13. Shape(born, home, deletes)
  BY <1>3, <1>8, <1>9, <1>12 DEF Shape
<1>14. CASE r.link = "none"
  BY <1>3, <1>13, <1>14
<1>15. CASE r.link # "none"
  <2>1. born[p].state = "live" /\ born[r.link].state = "live" /\ born[r.link].space = born[p].space
    BY <1>2, <1>4, <1>5, <1>15
  <2>2. \A s \in TreeSpace : home[s] \in PageOrNone
    BY DEF TreeInv
  <2>. QED
    BY <1>1, <1>3, <1>4, <1>6, <1>13, <1>15, <2>1, <2>2, PairingShape
<1>. QED
  BY <1>14, <1>15

(* What is deleted together keeps its shape under a new date.              *)
LEMMA DeleteShape ==
  ASSUME TreeInv, Shape(tree, home, deletes), NEW t \in TreeSlot, DeleteCommit(t), Fits(move[t])
  PROVE  Shape(tree', home', deletes')
<1> DEFINE p == move[t].page
           S == SubtreeOf(p)
           n == deletes + 1
<1>1. /\ IsLive(p) /\ p \in TreePage /\ tree' = RemovedRows(tree, S, n) /\ home' = home /\ deletes' = n
      /\ n \in Nat \ {0} /\ deletes \in Nat /\ deletes < n
  BY DEF DeleteCommit, Fits, TreeInv, IsLive
<1>2. p \in S /\ \A x \in S : /\ x \in TreePage /\ IsLive(x) /\ tree[x].state = "live"
                              /\ tree[x].space = tree[p].space
                              /\ x = p \/ Below(tree[x].path, tree[p].path)
  BY <1>1 DEF SubtreeOf, LiveIn, IsLive
<1> HIDE DEF p, n
<1> DEFINE new == RemovedRows(tree, S, n)
<1>3. /\ \A x \in TreePage \ S : SamePlace(new[x], tree[x])
      /\ \A x \in TreePage : new[x].link = "none" \/ new[x].link = tree[x].link
      /\ \A x \in S : /\ new[x].state = "deleted" /\ new[x].at = n /\ new[x].space = tree[x].space
                      /\ new[x].path = tree[x].path /\ new[x].parent = tree[x].parent
  BY <1>1, <1>2, RemovingKeeps DEF TreeInv
<1> HIDE DEF new
<1>4. \A x \in TreePage : /\ new[x].space = tree[x].space /\ new[x].path = tree[x].path
                          /\ new[x].parent = tree[x].parent
  BY <1>3 DEF SamePlace
<1>5. \A x \in TreePage \ S : new[x].state = tree[x].state /\ new[x].at = tree[x].at
  BY <1>3 DEF SamePlace
<1>6. \A x \in TreePage : IsLive(x) /\ tree[x].parent # "none" =>
        /\ tree[x].parent \in TreePage /\ IsLive(tree[x].parent)
        /\ tree[tree[x].parent].space = tree[x].space
        /\ tree[tree[x].parent].path = Above(tree[x].path)
        /\ x # p => (x \in S <=> tree[x].parent \in S)
  <2> SUFFICES ASSUME NEW x \in TreePage, IsLive(x), tree[x].parent # "none"
               PROVE  /\ tree[x].parent \in TreePage /\ IsLive(tree[x].parent)
                      /\ tree[tree[x].parent].space = tree[x].space
                      /\ tree[tree[x].parent].path = Above(tree[x].path)
                      /\ x # p => (x \in S <=> tree[x].parent \in S)
    OBVIOUS
  <2>1. /\ tree[x].parent \in TreePage /\ IsLive(tree[x].parent)
        /\ tree[tree[x].parent].space = tree[x].space
        /\ tree[tree[x].parent].path = Above(tree[x].path)
    BY DEF Shape, KeptIn, RightBelow, IsLive
  <2>2. x # p => (x \in S <=> tree[x].parent \in S)
    BY <1>1, SubtreesAreParents DEF Shape
  <2>. QED
    BY <2>1, <2>2
<1>7. \A x \in TreePage : new[x].state = "live" <=> IsLive(x) /\ x \notin S
  BY <1>3, <1>5 DEF IsLive
<1>8. \A x \in TreePage : tree[x].state = "deleted" =>
        x \notin S /\ tree[x].at < n /\ tree[x].at =< n
  <2> SUFFICES ASSUME NEW x \in TreePage, tree[x].state = "deleted"
               PROVE  x \notin S /\ tree[x].at < n /\ tree[x].at =< n
    OBVIOUS
  <2>1. tree[x].at \in Nat /\ tree[x].at =< deletes
    BY DEF Shape, GroupsIn, TreeInv, WellFormed, TreeRow
  <2>2. tree[x].at < n /\ tree[x].at =< n
    BY <1>1, <2>1
  <2>. QED
    BY <1>2, <2>2
<1>9. UniquePaths(new)
  BY <1>4, <1>7 DEF Shape, UniquePaths, IsLive
<1>10. KeptIn(new)
  <2> SUFFICES ASSUME NEW x \in TreePage, new[x].state = "live", new[x].parent # "none"
               PROVE  RightBelow(new, x)
    BY DEF KeptIn
  <2>1. x \notin S /\ x # p /\ IsLive(x) /\ tree[x].parent # "none"
    BY <1>2, <1>4, <1>7
  <2>2. tree[x].parent \in TreePage \ S
    BY <1>6, <2>1
  <2>3. RightBelow(tree, x)
    BY <2>1 DEF Shape, KeptIn, IsLive
  <2>. QED
    BY <1>4, <1>5, <2>1, <2>2, <2>3 DEF RightBelow
<1>11. GroupsIn(new, n)
  <2> SUFFICES ASSUME NEW x \in TreePage, new[x].state = "deleted"
               PROVE  /\ new[x].at =< n
                      /\ new[x].parent = "none" \/ GroupRoot(new, x) \/ RightBelow(new, x)
                      /\ \A y \in TreePage : /\ new[y].state = "deleted" /\ new[y].at = new[x].at
                                             /\ new[y].path = new[x].path
                                             => x = y
    BY DEF GroupsIn
  <2>1. CASE x \in S
    <3>1. \A y \in TreePage : new[y].state = "deleted" /\ new[y].at = n => y \in S
      BY <1>1, <1>5, <1>8
    <3>2. \A y \in TreePage : /\ new[y].state = "deleted" /\ new[y].at = new[x].at
                              /\ new[y].path = new[x].path
                              => x = y
      BY <1>2, <1>3, <1>4, <2>1, <3>1 DEF Shape, UniquePaths
    <3>3. CASE x = p
      <4>1. GroupRoot(new, x)
        BY <1>2, <1>3, <3>1, <3>3 DEF GroupRoot
      <4>. QED
        BY <1>1, <1>3, <2>1, <3>2, <4>1
    <3>4. CASE x # p
      <4>1. tree[x].parent # "none" => RightBelow(new, x)
        BY <1>2, <1>3, <1>4, <1>6, <2>1, <3>4 DEF RightBelow
      <4>. QED
        BY <1>1, <1>3, <1>4, <2>1, <3>2, <4>1
    <3>. QED
      BY <3>3, <3>4
  <2>2. CASE x \notin S
    <3>1. tree[x].state = "deleted" /\ new[x].at = tree[x].at /\ tree[x].at < n /\ tree[x].at =< n
      BY <1>5, <1>8, <2>2
    <3>2. \A y \in TreePage : new[y].state = "deleted" /\ new[y].at = new[x].at =>
            y \notin S /\ tree[y].state = "deleted" /\ tree[y].at = tree[x].at
      BY <1>1, <1>3, <1>5, <3>1
    <3>3. tree[x].parent = "none" \/ GroupRoot(tree, x) \/ RightBelow(tree, x)
      BY <3>1 DEF Shape, GroupsIn
    <3>4. GroupRoot(tree, x) => GroupRoot(new, x)
      BY <1>4, <3>2 DEF GroupRoot
    <3>5. RightBelow(tree, x) => RightBelow(new, x)
      BY <1>4, <1>5, <1>8, <2>2, <3>1 DEF RightBelow
    <3>6. \A y \in TreePage : /\ new[y].state = "deleted" /\ new[y].at = new[x].at
                              /\ new[y].path = new[x].path
                              => x = y
      BY <1>4, <3>1, <3>2 DEF Shape, GroupsIn
    <3>. QED
      BY <1>1, <1>4, <3>1, <3>3, <3>4, <3>5, <3>6
  <2>. QED
    BY <2>1, <2>2
<1>12. ApartIn(new, home)
  <2>1. \A x \in TreePage : tree[x].link # "none" =>
          tree[x].link \in TreePage /\ tree[tree[x].link].space = tree[x].space
    BY DEF TreeInv, WellFormed, Mutual, Shape, ApartIn
  <2>2. \A s \in TreeSpace : home[s] # "none" =>
          home[s] \in TreePage /\ tree[home[s]].space = s /\ tree[home[s]].state # "unborn"
    BY DEF TreeInv, PageOrNone, Shape, ApartIn
  <2>3. \A x \in TreePage : tree[x].state # "unborn" => new[x].state # "unborn"
    BY <1>3, <1>5
  <2>. QED
    BY <1>3, <1>4, <2>1, <2>2, <2>3 DEF ApartIn
<1>. QED
  BY <1>1, <1>9, <1>10, <1>11, <1>12 DEF Shape, new

(* What comes back was removed by one delete, and is everything it removed *)
(* below the page: what stays behind keeps its shape.                      *)
LEMMA RestoreShape ==
  ASSUME TreeInv, Shape(tree, home, deletes), NEW t \in TreeSlot, RestoreCommit(t), Fits(move[t])
  PROVE  Shape(tree', home', deletes')
<1> DEFINE p == move[t].page
           S == RemovedWith(p)
           back == BackIn(tree, S)
<1>1. /\ p \in TreePage /\ tree[p].state = "deleted" /\ ParentInPlace(p) /\ move[t].found = S
      /\ home' = home /\ deletes' = deletes
  BY DEF RestoreCommit, Fits, TreeInv, RequestOK
<1>2. /\ p \in S
      /\ \A x \in TreePage : x \in S <=> /\ tree[x].state = "deleted" /\ tree[x].at = tree[p].at
                                         /\ tree[x].space = tree[p].space
                                         /\ x = p \/ Below(tree[x].path, tree[p].path)
      /\ \A x \in S : x \in TreePage /\ tree[x].state = "deleted"
  BY <1>1 DEF RemovedWith
<1>3. {q \in move[t].found : tree[q].state = "deleted"} = S
  BY <1>1, <1>2
<1>4. tree' = back /\ UniquePaths(back)
  BY <1>3, Zenon DEF RestoreCommit, BackIn
<1> HIDE DEF p, S
<1>5. /\ WellFormed(back) /\ \A x \in TreePage \ S : back[x] = tree[x]
      /\ \A x \in S : /\ back[x].state = "live" /\ back[x].space = tree[x].space
                      /\ back[x].path = tree[x].path /\ back[x].parent = tree[x].parent
                      /\ back[x].link = "none"
  BY <1>2, RestoringKeeps DEF TreeInv
<1> HIDE DEF back
<1>6. /\ \A x \in S : back[x].at = 0
      /\ \A x \in TreePage : tree[x].state = "live" => tree[x].at = 0
  <2>1. \A x \in TreePage : back[x].at \in Nat /\ (back[x].state = "deleted" <=> back[x].at > 0)
    BY <1>5 DEF WellFormed, TreeRow
  <2>2. \A x \in TreePage : tree[x].at \in Nat /\ (tree[x].state = "deleted" <=> tree[x].at > 0)
    BY DEF TreeInv, WellFormed, TreeRow
  <2>. QED
    BY <1>2, <1>5, <2>1, <2>2
<1>7. \A x \in TreePage : /\ back[x].space = tree[x].space /\ back[x].path = tree[x].path
                          /\ back[x].parent = tree[x].parent
  BY <1>5
<1>8. \A x \in TreePage : tree[x].state # "unborn" => tree[x].path \in PathOf /\ tree[x].path # <<>>
  BY DEF TreeInv, WellFormed, TreeRow
<1>9. ASSUME NEW x \in TreePage, tree[x].state = "deleted", RightBelow(tree, x)
      PROVE  x \in S \ {p} <=> tree[x].parent \in S
  <2> DEFINE y == tree[x].parent
  <2>1. /\ y \in TreePage /\ tree[y].state = "deleted" /\ tree[y].at = tree[x].at
        /\ tree[y].space = tree[x].space /\ tree[y].path = Above(tree[x].path)
    BY <1>9 DEF RightBelow
  <2> HIDE DEF y
  <2>2. Below(tree[x].path, tree[p].path) <=>
          tree[y].path = tree[p].path \/ Below(tree[y].path, tree[p].path)
    BY <1>1, <1>8, <1>9, <2>1, BelowByOne
  <2>3. tree[y].at = tree[p].at /\ tree[y].path = tree[p].path => y = p
    BY <1>1, <2>1 DEF Shape, GroupsIn
  <2>4. ~Below(tree[p].path, tree[p].path)
    BY <1>1, <1>8, NotBelowEachOther
  <2>5. x \in S \ {p} <=> /\ tree[x].at = tree[p].at /\ tree[x].space = tree[p].space
                         /\ Below(tree[x].path, tree[p].path)
    BY <1>2, <1>9, <2>4
  <2>6. ASSUME x \in S \ {p} PROVE y \in S
    <3>1. /\ tree[y].at = tree[p].at /\ tree[y].space = tree[p].space
          /\ tree[y].path = tree[p].path \/ Below(tree[y].path, tree[p].path)
      BY <2>1, <2>2, <2>5, <2>6
    <3>2. y = p \/ Below(tree[y].path, tree[p].path)
      BY <2>3, <3>1
    <3>. QED
      BY <1>2, <2>1, <3>1, <3>2
  <2>7. ASSUME y \in S PROVE x \in S \ {p}
    <3>1. /\ tree[y].at = tree[p].at /\ tree[y].space = tree[p].space
          /\ y = p \/ Below(tree[y].path, tree[p].path)
      BY <1>2, <2>7
    <3>2. tree[y].path = tree[p].path \/ Below(tree[y].path, tree[p].path)
      BY <3>1
    <3>. QED
      BY <2>1, <2>2, <2>5, <3>1, <3>2
  <2>. QED
    BY <2>6, <2>7 DEF y
<1>10. KeptIn(back)
  <2> SUFFICES ASSUME NEW x \in TreePage, back[x].state = "live", back[x].parent # "none"
               PROVE  RightBelow(back, x)
    BY DEF KeptIn
  <2>1. CASE x = p
    <3>1. /\ tree[p].parent \in TreePage /\ tree[tree[p].parent].state = "live"
          /\ tree[tree[p].parent].space = tree[p].space
          /\ tree[tree[p].parent].path = Above(tree[p].path)
      BY <1>1, <1>7, <2>1 DEF ParentInPlace, IsLive
    <3>2. tree[p].parent \notin S
      BY <1>2, <3>1
    <3>. QED
      BY <1>2, <1>5, <1>6, <1>7, <2>1, <3>1, <3>2 DEF RightBelow
  <2>2. CASE x \in S \ {p}
    <3>1. /\ x \in TreePage /\ tree[x].state = "deleted" /\ tree[x].at = tree[p].at
          /\ Below(tree[x].path, tree[p].path) /\ tree[x].parent # "none"
      BY <1>2, <1>7, <2>2
    <3>2. ~GroupRoot(tree, x)
      <4>1. ~Below(tree[p].path, tree[x].path)
        BY <1>1, <1>8, <3>1, NotBelowEachOther
      <4>. QED
        BY <1>1, <2>2, <3>1, <4>1 DEF GroupRoot
    <3>3. RightBelow(tree, x)
      BY <3>1, <3>2 DEF Shape, GroupsIn
    <3>4. tree[x].parent \in S
      BY <1>9, <2>2, <3>1, <3>3
    <3>. QED
      BY <1>5, <1>6, <1>7, <2>2, <3>3, <3>4 DEF RightBelow
  <2>3. CASE x \notin S
    <3>1. tree[x].state = "live" /\ tree[x].parent # "none" /\ back[x] = tree[x]
      BY <1>5, <1>7, <2>3
    <3>2. RightBelow(tree, x)
      BY <3>1 DEF Shape, KeptIn
    <3>3. tree[x].parent \notin S
      BY <1>2, <3>1, <3>2 DEF RightBelow
    <3>. QED
      BY <1>5, <3>1, <3>2, <3>3 DEF RightBelow
  <2>. QED
    BY <2>1, <2>2, <2>3
<1>11. GroupsIn(back, deletes)
  <2>1. \A x \in TreePage : back[x].state = "deleted" =>
          tree[x].state = "deleted" /\ x \notin S /\ back[x] = tree[x]
    BY <1>5
  <2> SUFFICES ASSUME NEW x \in TreePage, back[x].state = "deleted"
               PROVE  /\ back[x].at =< deletes
                      /\ back[x].parent = "none" \/ GroupRoot(back, x) \/ RightBelow(back, x)
                      /\ \A y \in TreePage : /\ back[y].state = "deleted" /\ back[y].at = back[x].at
                                             /\ back[y].path = back[x].path
                                             => x = y
    BY DEF GroupsIn
  <2>2. tree[x].state = "deleted" /\ x \notin S /\ back[x] = tree[x]
    BY <2>1
  <2>3. tree[x].parent = "none" \/ GroupRoot(tree, x) \/ RightBelow(tree, x)
    BY <2>2 DEF Shape, GroupsIn
  <2>4. GroupRoot(tree, x) => GroupRoot(back, x)
    BY <2>1, <2>2 DEF GroupRoot
  <2>5. ASSUME RightBelow(tree, x) PROVE RightBelow(back, x)
    <3>1. tree[x].parent \in TreePage \ S
      BY <1>9, <2>2, <2>5 DEF RightBelow
    <3>. QED
      BY <1>5, <2>2, <2>5, <3>1 DEF RightBelow
  <2>. QED
    BY <2>1, <2>2, <2>3, <2>4, <2>5 DEF Shape, GroupsIn
<1>12. ApartIn(back, home)
  <2>1. \A x \in TreePage : tree[x].link # "none" =>
          tree[x].link \in TreePage /\ tree[tree[x].link].space = tree[x].space
    BY DEF TreeInv, WellFormed, Mutual, Shape, ApartIn
  <2>2. \A s \in TreeSpace : home[s] # "none" =>
          home[s] \in TreePage /\ tree[home[s]].space = s /\ tree[home[s]].state # "unborn"
    BY DEF TreeInv, PageOrNone, Shape, ApartIn
  <2>3. \A x \in TreePage : back[x].link = "none" \/ back[x].link = tree[x].link
    BY <1>5
  <2>4. \A x \in TreePage : tree[x].state # "unborn" => back[x].state # "unborn"
    BY <1>5
  <2>. QED
    BY <1>7, <2>1, <2>2, <2>3, <2>4 DEF ApartIn
<1>. QED
  BY <1>1, <1>4, <1>10, <1>11, <1>12 DEF Shape

LEMMA LinkShape ==
  ASSUME TreeInv, Shape(tree, home, deletes),
         NEW t \in TreeSlot, NEW p \in TreePage, NEW q \in TreePage, LinkPages(t, p, q)
  PROVE  Shape(tree', home', deletes')
<1>1. /\ tree' = Paired(tree, p, q) /\ home' = home /\ deletes' = deletes /\ p # q
      /\ tree[p].state = "live" /\ tree[q].state = "live" /\ tree[q].space = tree[p].space
  BY DEF LinkPages, Atomic, LiveIn, IsLive
<1>2. WellFormed(tree) /\ \A s \in TreeSpace : home[s] \in PageOrNone
  BY DEF TreeInv
<1>. QED
  BY <1>1, <1>2, PairingShape

LEMMA UnlinkShape ==
  ASSUME TreeInv, Shape(tree, home, deletes),
         NEW t \in TreeSlot, NEW p \in TreePage, UnlinkPage(t, p)
  PROVE  Shape(tree', home', deletes')
<1> DEFINE new == Unlinked(tree, {p, tree[p].link})
<1>1. tree' = new /\ tree[p].link # "none" /\ home' = home /\ deletes' = deletes
  BY DEF UnlinkPage, Atomic
<1>2. \A x \in {p, tree[p].link} \cap TreePage : tree[x].link \in {p, tree[p].link} \cup {"none"}
  BY <1>1 DEF TreeInv, WellFormed, Mutual
<1>3. SamePlaces(new, tree)
  BY <1>2, UnlinkingKeeps DEF TreeInv
<1>4. ASSUME NEW x \in TreePage, new[x].link # "none"
      PROVE  new[x].link \in TreePage /\ tree[new[x].link].space = tree[x].space
  <2>1. tree[x] \in TreeRow
    BY DEF TreeInv, WellFormed
  <2>2. new[x].link = tree[x].link
    BY <1>4, <2>1 DEF Unlinked, TreeRow
  <2>3. tree[x].link # "none" => tree[x].link \in TreePage /\ tree[tree[x].link].space = tree[x].space
    BY DEF TreeInv, WellFormed, Mutual, Shape, ApartIn
  <2> HIDE DEF new
  <2>. QED
    BY <1>4, <2>2, <2>3
<1>5. \A s \in TreeSpace : home[s] \in PageOrNone
  BY DEF TreeInv
<1> HIDE DEF new
<1>. QED
  BY <1>1, <1>3, <1>4, <1>5, SameShape

LEMMA HomeShape ==
  ASSUME TreeInv, Shape(tree, home, deletes),
         NEW t \in TreeSlot, NEW s \in TreeSpace, NEW p \in PageOrNone, SetHome(t, s, p)
  PROVE  Shape(tree', home', deletes')
<1>1. /\ tree' = tree /\ deletes' = deletes /\ home' = [home EXCEPT ![s] = p]
      /\ p # "none" => tree[p].space = s /\ tree[p].state = "live"
  BY DEF SetHome, Atomic, LiveIn, IsLive
<1>2. home'[s] = p /\ \A z \in TreeSpace \ {s} : home'[z] = home[z]
  BY <1>1 DEF TreeInv
<1>3. ApartIn(tree, home')
  BY <1>1, <1>2 DEF Shape, ApartIn
<1>. QED
  BY <1>1, <1>3 DEF Shape

----------------------------------------------------------------------------
(* What each request finds.                                                *)
LEMMA CreateFinds ==
  ASSUME TreeInv, NEW t \in TreeSlot, NEW p \in TreePage, NEW s \in TreeSpace, NEW l \in PageOrNone,
         CreateRead(t, p, s, l)
  PROVE  Fits(move'[t])
<1>1. PICK place \in Places(s) :
        Ask(t, [NoRequest EXCEPT !.op = "create", !.page = p, !.space = s, !.path = place.path,
                                 !.parent = place.parent, !.link = l])
  BY DEF CreateRead
<1>2. OnTop(s, place.path, place.parent)
  BY PlacesAre DEF OnTop, LiveIn
<1>3. move'[t] = [NoRequest EXCEPT !.op = "create", !.page = p, !.space = s, !.path = place.path,
                                   !.parent = place.parent, !.link = l]
  BY <1>1 DEF Ask, TreeInv
<1>. QED
  BY <1>2, <1>3 DEF NoRequest, Fits

LEMMA MoveFinds ==
  ASSUME TreeInv, NEW t \in TreeSlot, NEW p \in TreePage, MoveLock(t, p)
  PROVE  Fits(move'[t])
<1>1. IsLive(p) /\ tree[p].space \in TreeSpace
  BY DEF MoveLock, TreeInv, WellFormed, IsLive
<1>2. PICK place \in Places(tree[p].space) :
        /\ NotBelowItself(p, place)
        /\ Ask(t, [NoRequest EXCEPT !.op = "move", !.page = p, !.rows = {p},
                                    !.path = place.path, !.parent = place.parent])
  BY DEF MoveLock
<1>3. OnTop(tree[p].space, place.path, place.parent)
  BY <1>1, PlacesAre DEF OnTop, LiveIn
<1>4. move'[t] = [NoRequest EXCEPT !.op = "move", !.page = p, !.rows = {p},
                                   !.path = place.path, !.parent = place.parent]
  BY <1>2 DEF Ask, TreeInv
<1>. QED
  BY <1>1, <1>2, <1>3, <1>4 DEF NoRequest, Fits, NotBelowItself

LEMMA SpaceFinds ==
  ASSUME TreeInv, NEW t \in TreeSlot, NEW p \in TreePage, NEW s \in TreeSpace, NEW q \in PageOrNone,
         SpaceLock(t, p, s, q)
  PROVE  Fits(move'[t])
<1> DEFINE top  == IF q = "none" THEN <<>> ELSE tree[q].path
           root == Join(top, LastOf(tree[p].path))
<1>1. /\ IsLive(p) /\ tree[p].space # s /\ home[tree[p].space] \notin SubtreeOf(p)
      /\ q = "none" \/ q \in LiveIn(s)
  BY DEF SpaceLock
<1>2. tree[p].path \in PathOf /\ tree[p].path # <<>> /\ top \in PathOf
  BY <1>1, EmptySeq DEF TreeInv, WellFormed, TreeRow, IsLive, PageOrNone, PathOf
<1>3. LastOf(tree[p].path) \in Segment
  BY <1>2, Names DEF LastOf
<1>4. Above(root) = top
  BY <1>2, <1>3, JoinedIs
<1>5. OnTop(s, root, q)
  BY <1>1, <1>4 DEF OnTop, LiveIn
<1>6. move'[t] = [NoRequest EXCEPT !.op = "space", !.page = p, !.space = s, !.path = root,
                                   !.rows = SubtreeOf(p) \cup ({q} \ {"none"}),
                                   !.spaces = {tree[p].space, s},
                                   !.parent = q, !.found = SubtreeOf(p)]
  BY DEF SpaceLock, Ask, TreeInv
<1> HIDE DEF root
<1>. QED
  BY <1>1, <1>5, <1>6 DEF NoRequest, Fits

LEMMA DeleteFinds ==
  ASSUME TreeInv, NEW t \in TreeSlot, NEW p \in TreePage, DeleteLock(t, p)
  PROVE  Fits(move'[t])
<1>1. IsLive(p) /\ move'[t] = [NoRequest EXCEPT !.op = "delete", !.page = p, !.rows = {p}]
  BY DEF DeleteLock, Ask, TreeInv
<1>. QED
  BY <1>1 DEF NoRequest, Fits

LEMMA RestoreFinds ==
  ASSUME TreeInv, NEW t \in TreeSlot, NEW p \in TreePage, RestoreLock(t, p)
  PROVE  Fits(move'[t])
<1>1. /\ tree[p].state = "deleted" /\ ParentInPlace(p)
      /\ move'[t] = [NoRequest EXCEPT !.op = "restore", !.page = p, !.found = RemovedWith(p),
                                       !.rows = {p, tree[p].parent} \ {"none"}]
  BY DEF RestoreLock, Ask, TreeInv, RemovedWith
<1>. QED
  BY <1>1 DEF NoRequest, Fits

----------------------------------------------------------------------------
(* A request that begins while no other is under way.                      *)
LEMMA OneAsks ==
  ASSUME TreeInv, OneByOne, NEW t \in TreeSlot, NEW r, Ask(t, r), Waiting(t),
         UNCHANGED <<tree, home, deletes>>, Fits(move'[t])
  PROVE  OneByOne'
<1> SUFFICES ASSUME ~overlapped'
             PROVE  /\ Shape(tree, home, deletes)'
                    /\ \A u, v \in TreeSlot : ~Waiting(u)' /\ ~Waiting(v)' => u = v
                    /\ \A u \in TreeSlot : Fits(move[u])'
  BY DEF OneByOne
<1>1. ~overlapped /\ \A u \in TreeSlot : move[u].op = "none"
  BY DEF Ask, Asked, Alone, Waiting
<1>2. \A u \in TreeSlot \ {t} : move'[u] = move[u]
  BY DEF Ask, TreeInv
<1>3. \A u, v \in TreeSlot : ~Waiting(u)' /\ ~Waiting(v)' => u = v
  BY <1>1, <1>2 DEF Waiting
<1>4. Fits(move[t])'
  BY DEF Fits, OnTop, IsLive, SubtreeOf, LiveIn, ParentInPlace, RemovedWith
<1>5. \A u \in TreeSlot \ {t} : Fits(move[u])'
  BY <1>1, <1>2 DEF Fits
<1>6. Shape(tree, home, deletes)'
  BY <1>1 DEF OneByOne
<1>. QED
  BY <1>3, <1>4, <1>5, <1>6

(* A request that ends: none is under way.                                 *)
LEMMA OneLeaves ==
  ASSUME TreeInv, OneByOne, NEW t \in TreeSlot, ~Waiting(t), Leave(t),
         ~overlapped => Shape(tree', home', deletes')
  PROVE  OneByOne'
<1> SUFFICES ASSUME ~overlapped'
             PROVE  /\ Shape(tree, home, deletes)'
                    /\ \A u, v \in TreeSlot : ~Waiting(u)' /\ ~Waiting(v)' => u = v
                    /\ \A u \in TreeSlot : Fits(move[u])'
  BY DEF OneByOne
<1>1. ~overlapped
  BY DEF Leave
<1>2. move'[t] = NoRequest /\ \A u \in TreeSlot \ {t} : move'[u] = move[u]
  BY DEF Leave, TreeInv
<1>3. \A u \in TreeSlot : move'[u].op = "none"
  BY <1>1, <1>2, RequestNone DEF OneByOne, Waiting
<1>4. \A u, v \in TreeSlot : ~Waiting(u)' /\ ~Waiting(v)' => u = v
  BY <1>3 DEF Waiting
<1>5. \A u \in TreeSlot : Fits(move[u])'
  BY <1>3 DEF Fits
<1>6. Shape(tree, home, deletes)'
  BY <1>1
<1>. QED
  BY <1>4, <1>5, <1>6

(* A request of one step while no other is under way.                      *)
LEMMA OneAtomic ==
  ASSUME TreeInv, OneByOne, Atomic, ~overlapped => Shape(tree', home', deletes')
  PROVE  OneByOne'
<1> SUFFICES ASSUME ~overlapped'
             PROVE  /\ Shape(tree, home, deletes)'
                    /\ \A u, v \in TreeSlot : ~Waiting(u)' /\ ~Waiting(v)' => u = v
                    /\ \A u \in TreeSlot : Fits(move[u])'
  BY DEF OneByOne
<1>1. ~overlapped /\ \A u \in TreeSlot : move'[u].op = "none"
  BY DEF Atomic, Asked, Alone, Waiting
<1>2. \A u, v \in TreeSlot : ~Waiting(u)' /\ ~Waiting(v)' => u = v
  BY <1>1 DEF Waiting
<1>3. \A u \in TreeSlot : Fits(move[u])'
  BY <1>1 DEF Fits
<1>4. Shape(tree, home, deletes)'
  BY <1>1
<1>. QED
  BY <1>2, <1>3, <1>4

LEMMA InitOne == TreeInit => OneByOne
<1> SUFFICES ASSUME TreeInit PROVE OneByOne
  OBVIOUS
<1>1. ASSUME NEW p \in TreePage
      PROVE  /\ tree[p].at = 0 /\ tree[p].link = "none" /\ tree[p].state # "deleted"
             /\ tree[p].state = "live" <=> FirstPath[p] # <<>>
             /\ FirstPath[p] # <<>> =>
                  tree[p].path = FirstPath[p] /\ tree[p].parent = FirstParent[p] /\ tree[p].space = FirstSpace
  <2>1. CASE FirstPath[p] = <<>>
    <3>1. tree[p] = Unborn
      BY <2>1 DEF TreeInit
    <3>. QED
      BY <2>1, <3>1, RowUnborn
  <2>2. CASE FirstPath[p] # <<>>
    <3>1. tree[p] = Born(FirstSpace, FirstPath[p], FirstParent[p])
      BY <2>2 DEF TreeInit, Born
    <3>2. FirstSpace \in TreeSpace /\ FirstPath[p] \in PathOf /\ FirstParent[p] \in PageOrNone
      BY TreeAssumption DEF PathOf
    <3>. QED
      BY <2>2, <3>1, <3>2, RowBorn
  <2>. QED
    BY <2>1, <2>2
<1>2. UniquePaths(tree)
  BY <1>1, FirstAssumption DEF UniquePaths
<1>3. KeptIn(tree)
  <2> SUFFICES ASSUME NEW p \in TreePage, tree[p].state = "live", tree[p].parent # "none"
               PROVE  RightBelow(tree, p)
    BY DEF KeptIn
  <2>1. FirstPath[p] # <<>> /\ tree[p].parent = FirstParent[p] /\ FirstParent[p] \in TreePage
    BY <1>1, TreeAssumption DEF PageOrNone
  <2>2. /\ FirstPath[FirstParent[p]] # <<>>
        /\ FirstPath[FirstParent[p]] = Above(FirstPath[p])
    BY <2>1, FirstAssumption DEF Above
  <2>. QED
    BY <1>1, <2>1, <2>2 DEF RightBelow
<1>4. GroupsIn(tree, deletes) /\ ApartIn(tree, home)
  BY <1>1 DEF TreeInit, GroupsIn, ApartIn
<1>5. \A t \in TreeSlot : Waiting(t) /\ Fits(move[t])
  BY RequestNone DEF TreeInit, Waiting, Fits
<1>. QED
  BY <1>2, <1>3, <1>4, <1>5 DEF OneByOne, Shape

LEMMA OneStep == TreeInv /\ OneByOne /\ [TreeNext]_treeVars => OneByOne'
<1> SUFFICES ASSUME TreeInv, OneByOne, [TreeNext]_treeVars PROVE OneByOne'
  OBVIOUS
<1>1. CASE UNCHANGED treeVars
  BY <1>1 DEF treeVars, OneByOne, Waiting, Fits, OnTop, IsLive, SubtreeOf, LiveIn, ParentInPlace, RemovedWith
<1>2. CASE TreeNext
  <2>0. PICK t \in TreeSlot :
        \/ \E p \in TreePage, s \in TreeSpace, l \in PageOrNone : CreateRead(t, p, s, l)
        \/ \E p \in TreePage, s \in TreeSpace, q \in PageOrNone : SpaceLock(t, p, s, q)
        \/ \E p \in TreePage : MoveLock(t, p) \/ DeleteLock(t, p) \/ RestoreLock(t, p) \/ UnlinkPage(t, p)
        \/ CreateInsert(t) \/ MoveCommit(t) \/ SpaceCommit(t) \/ DeleteCommit(t) \/ RestoreCommit(t)
        \/ \E p, q \in TreePage : LinkPages(t, p, q)
        \/ \E s \in TreeSpace, p \in PageOrNone : SetHome(t, s, p)
        \/ AbortTree(t)
    BY <1>2 DEF TreeNext
  <2>1. ~overlapped => Shape(tree, home, deletes) /\ Fits(move[t])
    BY DEF OneByOne
  <2>2. ASSUME NEW p \in TreePage, NEW s \in TreeSpace, NEW l \in PageOrNone, CreateRead(t, p, s, l)
        PROVE  OneByOne'
    <3>1. \E r : Ask(t, r)
      BY <2>2 DEF CreateRead
    <3>. QED
      BY <2>2, <3>1, CreateFinds, OneAsks DEF CreateRead, MayAsk
  <2>3. ASSUME NEW p \in TreePage, NEW s \in TreeSpace, NEW q \in PageOrNone, SpaceLock(t, p, s, q)
        PROVE  OneByOne'
    <3>1. \E r : Ask(t, r)
      BY <2>3, Zenon DEF SpaceLock
    <3>2. Waiting(t) /\ UNCHANGED <<tree, home, deletes>>
      BY <2>3 DEF SpaceLock, MayAsk
    <3>. QED
      BY <2>3, <3>1, <3>2, SpaceFinds, OneAsks
  <2>4. ASSUME NEW p \in TreePage, MoveLock(t, p) PROVE OneByOne'
    <3>1. \E r : Ask(t, r)
      BY <2>4 DEF MoveLock
    <3>. QED
      BY <2>4, <3>1, MoveFinds, OneAsks DEF MoveLock, MayAsk
  <2>5. ASSUME NEW p \in TreePage, DeleteLock(t, p) PROVE OneByOne'
    <3>1. \E r : Ask(t, r)
      BY <2>5 DEF DeleteLock
    <3>. QED
      BY <2>5, <3>1, DeleteFinds, OneAsks DEF DeleteLock, MayAsk
  <2>6. ASSUME NEW p \in TreePage, RestoreLock(t, p) PROVE OneByOne'
    <3>1. \E r : Ask(t, r)
      BY <2>6, Zenon DEF RestoreLock
    <3>2. Waiting(t) /\ UNCHANGED <<tree, home, deletes>>
      BY <2>6 DEF RestoreLock, MayAsk
    <3>. QED
      BY <2>6, <3>1, <3>2, RestoreFinds, OneAsks
  <2>7. CASE CreateInsert(t)
    <3>1. ~Waiting(t) /\ Leave(t)
      BY <2>7 DEF CreateInsert, Waiting
    <3>. QED
      BY <2>1, <2>7, <3>1, CreateShape, OneLeaves
  <2>8. CASE MoveCommit(t)
    <3>1. ~Waiting(t) /\ Leave(t)
      BY <2>8 DEF MoveCommit, Waiting
    <3>. QED
      BY <2>1, <2>8, <3>1, MoveShape, OneLeaves
  <2>9. CASE SpaceCommit(t)
    <3>1. ~Waiting(t) /\ Leave(t)
      BY <2>9 DEF SpaceCommit, Waiting
    <3>. QED
      BY <2>1, <2>9, <3>1, SpaceShape, OneLeaves
  <2>10. CASE DeleteCommit(t)
    <3>1. ~Waiting(t) /\ Leave(t)
      BY <2>10 DEF DeleteCommit, Waiting
    <3>. QED
      BY <2>1, <2>10, <3>1, DeleteShape, OneLeaves
  <2>11. CASE RestoreCommit(t)
    <3>1. ~Waiting(t) /\ Leave(t)
      BY <2>11 DEF RestoreCommit, Waiting
    <3>. QED
      BY <2>1, <2>11, <3>1, RestoreShape, OneLeaves
  <2>12. ASSUME NEW p \in TreePage, NEW q \in TreePage, LinkPages(t, p, q) PROVE OneByOne'
    BY <2>1, <2>12, LinkShape, OneAtomic DEF LinkPages
  <2>13. ASSUME NEW p \in TreePage, UnlinkPage(t, p) PROVE OneByOne'
    BY <2>1, <2>13, UnlinkShape, OneAtomic DEF UnlinkPage
  <2>14. ASSUME NEW s \in TreeSpace, NEW p \in PageOrNone, SetHome(t, s, p) PROVE OneByOne'
    BY <2>1, <2>14, HomeShape, OneAtomic DEF SetHome
  <2>15. CASE AbortTree(t)
    <3>1. ~Waiting(t) /\ Leave(t) /\ tree' = tree /\ home' = home /\ deletes' = deletes
      BY <2>15 DEF AbortTree
    <3>. QED
      BY <2>1, <3>1, OneLeaves
  <2>. QED
    BY <2>0, <2>2, <2>3, <2>4, <2>5, <2>6, <2>7, <2>8, <2>9, <2>10, <2>11, <2>12, <2>13, <2>14, <2>15
<1>. QED
  BY <1>1, <1>2

(* As long as requests come one after another, the live pages are trees by *)
(* their parents and by their paths alike, and what one delete removed is  *)
(* still the tree it was.                                                  *)
THEOREM OneByOneHolds == TreeSpec => []OneByOne
  BY InitOne, OneStep, TreeHolds, PTL DEF TreeSpec

(* Then a live page with a parent has it live, in its own space, right     *)
(* above its path.                                                         *)
THEOREM TreeStaysInStep == TreeSpec => []KeptInStep
<1>1. OneByOne => KeptInStep
  BY DEF OneByOne, Shape, KeptIn, RightBelow, KeptInStep, IsLive
<1>. QED
  BY <1>1, OneByOneHolds, PTL

(* Then pairs do not span spaces, and a space designates a page of its own. *)
THEOREM SpacesStayApart == TreeSpec => []SpacesApart
<1>1. OneByOne => SpacesApart
  BY DEF OneByOne, Shape, ApartIn, SpacesApart
<1>. QED
  BY <1>1, OneByOneHolds, PTL

----------------------------------------------------------------------------
(* And then no page is below itself by its parents, whatever has been      *)
(* deleted: a deleted page's parent is live, or went later, or with it.    *)
Outlives(rows, p) ==
    /\ rows[p].parent \in TreePage
    /\ \/ rows[rows[p].parent].state = "live"
       \/ /\ rows[rows[p].parent].state = "deleted"
          /\ \/ rows[rows[p].parent].at > rows[p].at
             \/ /\ rows[rows[p].parent].at = rows[p].at
                /\ rows[rows[p].parent].path = Above(rows[p].path)

ParentsOutlive ==
    ~overlapped => \A p \in TreePage : tree[p].state # "live" /\ tree[p].parent # "none" =>
                       tree[p].state = "deleted" /\ Outlives(tree, p)

(* Nothing is deleted, and what is not live is as it was.                  *)
NoneGoes == \A p \in TreePage : tree'[p].state # "live" => SamePlace(tree'[p], tree[p])

LEMMA OutlivesKept ==
  ASSUME ParentsOutlive, NoneGoes, overlapped => overlapped'
  PROVE  ParentsOutlive'
<1> SUFFICES ASSUME ~overlapped', NEW p \in TreePage, tree'[p].state # "live", tree'[p].parent # "none"
             PROVE  tree'[p].state = "deleted" /\ Outlives(tree', p)
  BY DEF ParentsOutlive
<1>1. /\ tree'[p].state = tree[p].state /\ tree'[p].at = tree[p].at
      /\ tree'[p].path = tree[p].path /\ tree'[p].parent = tree[p].parent
  BY DEF NoneGoes, SamePlace
<1>2. tree[p].state = "deleted" /\ Outlives(tree, p)
  BY <1>1 DEF ParentsOutlive
<1> DEFINE q == tree[p].parent
<1>3. q \in TreePage
  BY <1>2 DEF Outlives
<1>4. CASE tree'[q].state = "live"
  BY <1>1, <1>2, <1>3, <1>4 DEF Outlives
<1>5. CASE tree'[q].state # "live"
  <2>1. tree[q].state = "deleted" /\ SamePlace(tree'[q], tree[q])
    BY <1>2, <1>3, <1>5 DEF Outlives, NoneGoes, SamePlace
  <2>. QED
    BY <1>1, <1>2, <2>1 DEF Outlives, SamePlace
<1>. QED
  BY <1>4, <1>5

(* A delete takes nobody's parent and leaves the page: what goes with its  *)
(* parent is right below it, and what had gone before has an older date.   *)
LEMMA OutlivesDelete ==
  ASSUME TreeInv, Shape(tree, home, deletes), ParentsOutlive, NEW t \in TreeSlot, DeleteCommit(t)
  PROVE  ParentsOutlive'
<1> DEFINE S == SubtreeOf(move[t].page)
           n == deletes + 1
<1>1. /\ tree' = RemovedRows(tree, S, n) /\ n \in Nat \ {0} /\ deletes \in Nat /\ deletes < n
      /\ overlapped' = overlapped
  BY DEF DeleteCommit, TreeInv, Leave
<1>2. \A x \in S : x \in TreePage /\ tree[x].state = "live"
  BY DEF SubtreeOf, LiveIn, IsLive
<1> HIDE DEF n, S
<1>3. /\ \A x \in TreePage \ S : SamePlace(tree'[x], tree[x])
      /\ \A x \in S : /\ tree'[x].state = "deleted" /\ tree'[x].at = n
                      /\ tree'[x].path = tree[x].path /\ tree'[x].parent = tree[x].parent
  BY <1>1, <1>2, RemovingKeeps DEF TreeInv
<1> SUFFICES ASSUME ~overlapped', NEW p \in TreePage, tree'[p].state # "live", tree'[p].parent # "none"
             PROVE  tree'[p].state = "deleted" /\ Outlives(tree', p)
  BY DEF ParentsOutlive
<1>4. CASE p \in S
  <2>1. RightBelow(tree, p)
    BY <1>2, <1>3, <1>4 DEF Shape, KeptIn
  <2>2. CASE tree[p].parent \in S
    BY <1>3, <1>4, <2>1, <2>2 DEF Outlives, RightBelow
  <2>3. CASE tree[p].parent \notin S
    BY <1>2, <1>3, <1>4, <2>1, <2>3 DEF Outlives, RightBelow, SamePlace
  <2>. QED
    BY <2>2, <2>3
<1>5. CASE p \notin S
  <2>1. /\ tree'[p].state = tree[p].state /\ tree'[p].at = tree[p].at
        /\ tree'[p].path = tree[p].path /\ tree'[p].parent = tree[p].parent
    BY <1>3, <1>5 DEF SamePlace
  <2>2. tree[p].state = "deleted" /\ Outlives(tree, p)
    BY <1>1, <2>1 DEF ParentsOutlive
  <2>3. n > tree[p].at
    <3>1. tree[p].at \in Nat /\ tree[p].at =< deletes
      BY <2>2 DEF TreeInv, WellFormed, TreeRow, Shape, GroupsIn
    <3>. QED
      BY <1>1, <3>1
  <2>4. CASE tree[p].parent \in S
    BY <1>3, <1>5, <2>1, <2>2, <2>3, <2>4 DEF Outlives
  <2>5. CASE tree[p].parent \notin S
    BY <1>3, <2>1, <2>2, <2>5 DEF Outlives, SamePlace
  <2>. QED
    BY <2>4, <2>5
<1>. QED
  BY <1>4, <1>5

(* The other writes delete nothing.                                        *)
LEMMA CreateNoneGoes ==
  ASSUME TreeInv, NEW t \in TreeSlot, CreateInsert(t)
  PROVE  NoneGoes
<1> DEFINE r == move[t]
           p == r.page
           row == Born(r.space, r.path, r.parent)
           born == [tree EXCEPT ![p] = row]
<1>1. /\ r \in TreeRequest /\ r.op = "create" /\ p \in TreePage /\ r.path \in PathOf /\ r.path # <<>>
      /\ r.space \in TreeSpace /\ r.parent \in PageOrNone /\ tree[p].state = "unborn"
      /\ r.parent # p
  BY DEF CreateInsert, TreeInv, RequestOK, TreeRequest
<1>2. /\ row \in TreeRow /\ row.state = "live" /\ row.at = 0 /\ row.link = "none"
      /\ row.path = r.path /\ row.space = r.space /\ row.parent = r.parent
  BY <1>1, RowBorn
<1>3. tree' = IF r.link = "none" THEN born ELSE Paired(born, p, r.link)
  BY Zenon DEF CreateInsert, Born
<1>4. r.link # "none" => r.link \in TreePage /\ r.link # p /\ tree[r.link].state = "live"
  BY <1>1 DEF CreateInsert, LiveIn, IsLive
<1> HIDE DEF p, r, row
<1>5. born[p] = row /\ \A x \in TreePage \ {p} : born[x] = tree[x]
  BY <1>1, <1>2 DEF TreeInv, WellFormed
<1>6. WellFormed(born)
  BY <1>1, <1>2, BirthKeeps DEF TreeInv
<1> HIDE DEF born
<1>7. SamePlaces(tree', born)
  <2>1. CASE r.link = "none"
    BY <1>3, <2>1 DEF SamePlaces, SamePlace
  <2>2. CASE r.link # "none"
    <3>1. born[r.link].state = "live"
      BY <1>4, <1>5, <2>2
    <3>. QED
      BY <1>1, <1>2, <1>3, <1>4, <1>5, <1>6, <2>2, <3>1, PairingKeeps
  <2>. QED
    BY <2>1, <2>2
<1>8. tree'[p].state = "live" /\ \A x \in TreePage \ {p} : SamePlace(tree'[x], tree[x])
  BY <1>1, <1>2, <1>5, <1>7 DEF SamePlaces, SamePlace
<1>. QED
  BY <1>1, <1>8 DEF NoneGoes, SamePlace

LEMMA MoveNoneGoes ==
  ASSUME TreeInv, NEW p \in TreePage, NEW s \in TreeSpace, NEW w \in PathOf, w # <<>>, NEW q \in PageOrNone,
         q # p, IsLive(p), SamePlaces(tree', MovedRows(p, SubtreeOf(p), s, w, q))
  PROVE  NoneGoes
<1> DEFINE moved == MovedRows(p, SubtreeOf(p), s, w, q)
<1>1. \A x \in TreePage : /\ moved[x].state = tree[x].state
                          /\ x \notin SubtreeOf(p) \cup {p} => moved[x] = tree[x]
  BY MovedIs
<1>2. SamePlaces(tree', moved)
  OBVIOUS
<1> HIDE DEF moved
<1>3. \A x \in TreePage : tree[x].state # "live" => x \notin SubtreeOf(p) \cup {p}
  BY DEF SubtreeOf, LiveIn, IsLive
<1>. QED
  BY <1>1, <1>2, <1>3 DEF SamePlaces, SamePlace, NoneGoes

LEMMA RestoreNoneGoes ==
  ASSUME TreeInv, NEW t \in TreeSlot, RestoreCommit(t)
  PROVE  NoneGoes
<1> DEFINE S == {q \in move[t].found : tree[q].state = "deleted"}
<1>1. tree' = BackIn(tree, S)
  BY DEF RestoreCommit, BackIn
<1>2. \A x \in S : x \in TreePage /\ tree[x].state = "deleted"
  BY DEF TreeInv, TreeRequest
<1> HIDE DEF S
<1>3. /\ \A x \in TreePage \ S : tree'[x] = tree[x]
      /\ \A x \in S : tree'[x].state = "live"
  BY <1>1, <1>2, RestoringKeeps DEF TreeInv
<1>. QED
  BY <1>2, <1>3 DEF NoneGoes, SamePlace

LEMMA OutlivesStep == TreeInv /\ OneByOne /\ ParentsOutlive /\ [TreeNext]_treeVars => ParentsOutlive'
<1> SUFFICES ASSUME TreeInv, OneByOne, ParentsOutlive, [TreeNext]_treeVars, ~overlapped' PROVE ParentsOutlive'
  BY DEF ParentsOutlive
<1>1. ASSUME tree' = tree, overlapped => overlapped' PROVE ParentsOutlive'
  <2>1. NoneGoes
    BY <1>1 DEF NoneGoes, SamePlace
  <2>. QED
    BY <1>1, <2>1, OutlivesKept
<1>2. CASE UNCHANGED treeVars
  BY <1>1, <1>2 DEF treeVars
<1>3. CASE TreeNext
  <2>0. PICK t \in TreeSlot :
        \/ \E p \in TreePage, s \in TreeSpace, l \in PageOrNone : CreateRead(t, p, s, l)
        \/ \E p \in TreePage, s \in TreeSpace, q \in PageOrNone : SpaceLock(t, p, s, q)
        \/ \E p \in TreePage : MoveLock(t, p) \/ DeleteLock(t, p) \/ RestoreLock(t, p) \/ UnlinkPage(t, p)
        \/ CreateInsert(t) \/ MoveCommit(t) \/ SpaceCommit(t) \/ DeleteCommit(t) \/ RestoreCommit(t)
        \/ \E p, q \in TreePage : LinkPages(t, p, q)
        \/ \E s \in TreeSpace, p \in PageOrNone : SetHome(t, s, p)
        \/ AbortTree(t)
    BY <1>3 DEF TreeNext
  <2>1. ~overlapped => Shape(tree, home, deletes) /\ Fits(move[t])
    BY DEF OneByOne
  <2>2. CASE \/ \E p \in TreePage, s \in TreeSpace, l \in PageOrNone : CreateRead(t, p, s, l)
             \/ \E p \in TreePage : MoveLock(t, p) \/ DeleteLock(t, p) \/ RestoreLock(t, p)
             \/ \E s \in TreeSpace, p \in PageOrNone : SetHome(t, s, p)
             \/ AbortTree(t)
    BY <1>1, <2>2 DEF CreateRead, MoveLock, DeleteLock, RestoreLock, SetHome, AbortTree, Ask, Asked, Atomic, Leave
  <2>3. ASSUME NEW p \in TreePage, NEW s \in TreeSpace, NEW q \in PageOrNone, SpaceLock(t, p, s, q)
        PROVE  ParentsOutlive'
    <3>1. tree' = tree /\ \E r : Ask(t, r)
      BY <2>3, Zenon DEF SpaceLock
    <3>. QED
      BY <1>1, <3>1 DEF Ask, Asked
  <2>4. CASE CreateInsert(t)
    BY <2>4, CreateNoneGoes, OutlivesKept DEF CreateInsert, Leave
  <2>5. CASE MoveCommit(t)
    <3>1. /\ move[t] \in TreeRequest /\ move[t].op = "move" /\ move[t].page \in TreePage
          /\ move[t].path \in PathOf /\ move[t].path # <<>>
          /\ move[t].parent \in PageOrNone /\ tree[move[t].page].space \in TreeSpace
          /\ move[t].parent # move[t].page
      BY <2>5 DEF MoveCommit, TreeInv, RequestOK, TreeRequest, WellFormed, TreeRow
    <3>2. /\ tree' = MovedRows(move[t].page, SubtreeOf(move[t].page), tree[move[t].page].space,
                               move[t].path, move[t].parent)
          /\ overlapped' = overlapped
      BY <2>5 DEF MoveCommit, Leave
    <3>3. IsLive(move[t].page)
      BY <2>1, <3>1, <3>2 DEF Fits
    <3>4. SamePlaces(tree', tree')
      BY DEF SamePlaces, SamePlace
    <3>. QED
      BY <3>1, <3>2, <3>3, <3>4, MoveNoneGoes, OutlivesKept
  <2>6. CASE SpaceCommit(t)
    <3> DEFINE moved == MovedRows(move[t].page, SubtreeOf(move[t].page), move[t].space,
                                  move[t].path, move[t].parent)
    <3>1. /\ move[t] \in TreeRequest /\ move[t].op = "space" /\ move[t].page \in TreePage
          /\ move[t].path \in PathOf /\ move[t].path # <<>>
          /\ move[t].parent \in PageOrNone /\ move[t].space \in TreeSpace
          /\ move[t].parent # move[t].page
      BY <2>6 DEF SpaceCommit, TreeInv, RequestOK, TreeRequest
    <3>2. /\ tree' = Unlinked(moved, SplitPairs(move[t].found))
          /\ overlapped' = overlapped
      BY <2>6 DEF SpaceCommit, Leave
    <3>3. IsLive(move[t].page)
      BY <2>1, <3>1, <3>2 DEF Fits
    <3>4. WellFormed(moved)
      BY <3>1, MovedIs
    <3>5. SamePlaces(tree', moved)
      <4> HIDE DEF moved
      <4>. QED
        BY <3>2, <3>4, RowLinked DEF Unlinked, WellFormed, SamePlaces, SamePlace, PageOrNone
    <3>. QED
      BY <3>1, <3>2, <3>3, <3>5, MoveNoneGoes, OutlivesKept
  <2>7. CASE DeleteCommit(t)
    <3>1. ~overlapped
      BY <2>7 DEF DeleteCommit, Leave
    <3>. QED
      BY <2>1, <2>7, <3>1, OutlivesDelete
  <2>8. CASE RestoreCommit(t)
    BY <2>8, RestoreNoneGoes, OutlivesKept DEF RestoreCommit, Leave
  <2>9. ASSUME NEW p \in TreePage, NEW q \in TreePage, LinkPages(t, p, q) PROVE ParentsOutlive'
    <3>1. /\ tree' = Paired(tree, p, q) /\ p # q /\ tree[p].state = "live" /\ tree[q].state = "live"
          /\ overlapped => overlapped'
      BY <2>9 DEF LinkPages, IsLive, LiveIn, Atomic, Asked
    <3>2. SamePlaces(tree', tree)
      BY <3>1, PairingKeeps DEF TreeInv
    <3>. QED
      BY <3>1, <3>2, OutlivesKept DEF SamePlaces, SamePlace, NoneGoes
  <2>10. ASSUME NEW p \in TreePage, UnlinkPage(t, p) PROVE ParentsOutlive'
    <3>1. tree' = Unlinked(tree, {p, tree[p].link}) /\ tree[p].link # "none" /\ (overlapped => overlapped')
      BY <2>10 DEF UnlinkPage, Atomic, Asked
    <3>2. \A x \in {p, tree[p].link} \cap TreePage : tree[x].link \in {p, tree[p].link} \cup {"none"}
      BY <3>1 DEF TreeInv, WellFormed, Mutual
    <3>3. SamePlaces(tree', tree)
      BY <3>1, <3>2, UnlinkingKeeps DEF TreeInv
    <3>. QED
      BY <3>1, <3>3, OutlivesKept DEF SamePlaces, SamePlace, NoneGoes
  <2>. QED
    BY <2>0, <2>2, <2>3, <2>4, <2>5, <2>6, <2>7, <2>8, <2>9, <2>10
<1>. QED
  BY <1>2, <1>3

(* A set of numbers has a least one, and a greatest if it is bounded.      *)
LEMMA LeastNumber ==
  ASSUME NEW N \in SUBSET Nat, N # {}
  PROVE  \E n \in N : \A m \in N : n =< m
<1>1. PICK n \in N : \A m \in N : ~(<<m, n>> \in OpToRel(<, Nat))
  BY NatLessThanWellFounded, WFMin
<1>2. \A m \in N : ~(m < n)
  BY <1>1 DEF OpToRel
<1>3. \A m \in N : n =< m
  BY <1>2
<1>. QED
  BY <1>3

LEMMA GreatestNumber ==
  ASSUME NEW N \in SUBSET Nat, N # {}, NEW b \in Nat, \A n \in N : n =< b
  PROVE  \E n \in N : \A m \in N : m =< n
<1> DEFINE D == {b - n : n \in N}
<1>0. N # {} /\ \A n \in N : n \in Nat /\ b - n \in Nat
  OBVIOUS
<1>1. D \in SUBSET Nat /\ D # {}
  BY <1>0
<1>2. PICK d \in D : \A e \in D : d =< e
  BY <1>1, LeastNumber
<1>3. PICK n \in N : d = b - n
  BY <1>2
<1>4. ASSUME NEW m \in N PROVE m =< n
  <2>1. b - n =< b - m
    BY <1>2, <1>3
  <2>. QED
    BY <1>0, <2>1
<1>. QED
  BY <1>4

(* Pages right below pages of their own set lead down for ever.            *)
LEMMA NoneRightBelow ==
  ASSUME TreeInv, NEW T \in SUBSET TreePage, T # {}, \A p \in T : tree[p].state # "unborn",
         \A p \in T : tree[p].parent \in T /\ tree[tree[p].parent].path = Above(tree[p].path)
  PROVE  FALSE
<1>1. \A p \in T : tree[p].path \in PathOf /\ tree[p].path # <<>> /\ Len(tree[p].path) \in Nat
  BY Names DEF TreeInv, WellFormed, TreeRow
<1> DEFINE N == {Len(tree[p].path) : p \in T}
<1>0. N \in SUBSET Nat /\ N # {}
  BY <1>1
<1>2. PICK n \in N : \A m \in N : n =< m
  BY <1>0, LeastNumber
<1>3. PICK p \in T : n = Len(tree[p].path)
  BY <1>2
<1>4. Len(tree[tree[p].parent].path) = n - 1 /\ n \in Nat
  BY <1>1, <1>3, AboveIs
<1>5. n - 1 \in N
  BY <1>3, <1>4
<1> HIDE DEF N
<1>. QED
  BY <1>2, <1>4, <1>5

(* A set of pages that holds the parent of each of its pages is empty: the *)
(* live among them, or else those that went last, are right below others   *)
(* of them.                                                                *)
LEMMA NoRing ==
  ASSUME TreeInv, Shape(tree, home, deletes), ParentsOutlive, ~overlapped
  PROVE  NoCycle
<1> SUFFICES ASSUME NEW S \in SUBSET TreePage, S # {}, \A p \in S : tree[p].parent \in S
             PROVE  FALSE
  BY DEF NoCycle
<1>1. \A p \in S : p \in TreePage /\ tree[p].parent \in TreePage /\ tree[p].parent # "none"
  BY TreeAssumption
<1>2. CASE \E p \in S : tree[p].state = "live"
  <2> DEFINE T == {p \in S : tree[p].state = "live"}
  <2>1. \A p \in T : tree[p].parent \in T /\ tree[tree[p].parent].path = Above(tree[p].path)
    BY <1>1 DEF Shape, KeptIn, RightBelow
  <2>. QED
    BY <1>2, <2>1, NoneRightBelow
<1>3. CASE \A p \in S : tree[p].state # "live"
  <2>1. \A p \in S : tree[p].state = "deleted" /\ Outlives(tree, p)
    BY <1>1, <1>3 DEF ParentsOutlive
  <2>2. deletes \in Nat /\ \A p \in S : tree[p].at \in Nat /\ tree[p].at =< deletes
    BY <2>1 DEF TreeInv, WellFormed, TreeRow, Shape, GroupsIn
  <2> DEFINE N == {tree[p].at : p \in S}
  <2>3. N \in SUBSET Nat /\ N # {} /\ \A n \in N : n =< deletes
    BY <2>2
  <2>4. PICK n \in N : \A m \in N : m =< n
    BY <2>2, <2>3, GreatestNumber
  <2> DEFINE T == {p \in S : tree[p].at = n}
  <2>5. T # {} /\ n \in Nat
    BY <2>3, <2>4
  <2>6. \A p \in S : tree[p].at =< n
    BY <2>4
  <2> HIDE DEF N
  <2>7. ASSUME NEW p \in T
        PROVE  tree[p].parent \in T /\ tree[tree[p].parent].path = Above(tree[p].path)
    <3>1. tree[p].parent \in S /\ tree[tree[p].parent].at =< n /\ tree[p].at = n
      BY <2>6
    <3>2. ~(tree[tree[p].parent].at > n)
      BY <2>2, <2>5, <3>1
    <3>. QED
      BY <1>3, <2>1, <3>1, <3>2 DEF Outlives
  <2>. QED
    BY <2>1, <2>5, <2>7, NoneRightBelow
<1>. QED
  BY <1>2, <1>3

(* As long as requests come one after another, no page is below itself:    *)
(* the ring that two moves can make takes both of them at once.            *)
THEOREM NoRingOneByOne == TreeSpec => [](~overlapped => NoCycle)
<1>1. ASSUME TreeInit PROVE ParentsOutlive
  <2>1. ASSUME NEW p \in TreePage, tree[p].state # "live" PROVE tree[p].parent = "none"
    <3>1. FirstPath[p] = <<>>
      BY <1>1, <2>1 DEF TreeInit, Unborn
    <3>. QED
      BY <1>1, <3>1 DEF TreeInit, Unborn
  <2>. QED
    BY <2>1 DEF ParentsOutlive
<1>2. TreeInv /\ OneByOne /\ ParentsOutlive => (~overlapped => NoCycle)
  BY NoRing DEF OneByOne
<1>. QED
  BY <1>1, <1>2, OutlivesStep, OneByOneHolds, TreeHolds, PTL DEF TreeSpec

=============================================================================
