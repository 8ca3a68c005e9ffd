------------------------------ MODULE PageTree ------------------------------
(***************************************************************************)
(* The tree of pages: creations, moves inside a space and between spaces,  *)
(* deletes and restores of subtrees, pairs, and the page a space           *)
(* designates as its home.                                                 *)
(*                                                                         *)
(* A page has its place twice: as a parent, and as a path that spells out  *)
(* every ancestor's name.  Subtrees are found by the path, and every       *)
(* operation has to keep the two in step.                                  *)
(*                                                                         *)
(* A request reads and locks rows in one step and writes in the next, so   *)
(* that others come between the two.  A statement waits until nobody else  *)
(* has the rows it changes, and then takes effect at one instant; a        *)
(* request that cannot go on, or dies, is rolled back.  A row written with *)
(* a reference needs the row it refers to free: the foreign key's check    *)
(* waits for whoever has that row FOR UPDATE.                              *)
(*                                                                         *)
(* Texts, kinds, claims and archived spaces are left out.                  *)
(***************************************************************************)
EXTENDS Naturals, Sequences, FiniteSets

CONSTANTS
    TreePage,      \* page ids
    TreeSpace,
    Segment,       \* names, the last part of a path
    MaxDepth,      \* segments in a path
    TreeSlot,      \* requests in flight at once (bound)
    MaxRequests,   \* requests altogether (bound)
    Sequential,    \* how many of them come one after another at first (bound)
    FirstPath,     \* the pages there are at first, in one space and unpaired,
    FirstParent,   \* by their path, empty for a page yet to be made, and parent
    FirstSpace

PageOrNone == TreePage \cup {"none"}

ASSUME TreeAssumption ==
    /\ MaxDepth \in Nat /\ MaxRequests \in Nat /\ Sequential \in Nat
    /\ "none" \notin TreePage /\ FirstSpace \in TreeSpace
    /\ FirstPath \in [TreePage -> Seq(Segment)]
    /\ FirstParent \in [TreePage -> PageOrNone]

(* The first pages are a tree.                                             *)
ASSUME FirstAssumption ==
    \A p \in TreePage : FirstPath[p] # <<>> =>
        /\ \A q \in TreePage \ {p} : FirstPath[q] # FirstPath[p]
        /\ FirstParent[p] # "none" =>
             /\ FirstPath[FirstParent[p]] # <<>>
             /\ FirstPath[FirstParent[p]] = SubSeq(FirstPath[p], 1, Len(FirstPath[p]) - 1)

VARIABLES
    tree,          \* the rows of pages
    home,          \* the page each space designates
    deletes,       \* deletes so far, which dates them
    move,          \* the requests in flight
    asked,         \* requests so far
    overlapped     \* whether two requests have ever been under way at once

treeVars == <<tree, home, deletes, move, asked, overlapped>>

PathOf == Seq(Segment)

(* at dates the delete; link is the other half of a pair.                  *)
TreeRow == [state : {"unborn", "live", "deleted"}, at : Nat, space : TreeSpace \cup {"none"},
            path : PathOf, parent : PageOrNone, link : PageOrNone]
Unborn == [state |-> "unborn", at |-> 0, space |-> "none", path |-> <<>>,
           parent |-> "none", link |-> "none"]

(* A request and what it read: the page it is about, the rows and spaces   *)
(* it has FOR UPDATE, the place it found for the page, and the pages it    *)
(* found below it.                                                         *)
TreeRequest == [op : {"none", "create", "move", "space", "delete", "restore"},
                page : PageOrNone, rows : SUBSET TreePage, spaces : SUBSET TreeSpace,
                space : TreeSpace \cup {"none"}, path : PathOf, parent : PageOrNone,
                link : PageOrNone, found : SUBSET TreePage]
NoRequest == [op |-> "none", page |-> "none", rows |-> {}, spaces |-> {}, space |-> "none",
              path |-> <<>>, parent |-> "none", link |-> "none", found |-> {}]

TreeInit ==
    /\ tree = [p \in TreePage |->
                 IF FirstPath[p] = <<>> THEN Unborn
                 ELSE [Unborn EXCEPT !.state = "live", !.space = FirstSpace,
                                     !.path = FirstPath[p], !.parent = FirstParent[p]]]
    /\ home = [s \in TreeSpace |-> "none"]
    /\ move = [t \in TreeSlot |-> NoRequest]
    /\ deletes = 0 /\ asked = 0 /\ overlapped = FALSE

IsLive(p) == p \in TreePage /\ tree[p].state = "live"
LiveIn(s) == {p \in TreePage : IsLive(p) /\ tree[p].space = s}

(* Paths: joinPath, parentPathOf, isDescendantPath.                        *)
Join(path, seg) == Append(path, seg)
Above(path) == SubSeq(path, 1, Len(path) - 1)
LastOf(path) == path[Len(path)]
Below(path, root) == Len(root) < Len(path) /\ SubSeq(path, 1, Len(root)) = root
Rebased(path, old, new) == new \o SubSeq(path, Len(old) + 1, Len(path))

(* The prefix match by which an operation finds a subtree.                 *)
SubtreeOf(p) == {q \in LiveIn(tree[p].space) : q = p \/ Below(tree[q].path, tree[p].path)}

(* At most one live page has a path in a space: the unique index.          *)
UniquePaths(rows) ==
    \A p, q \in TreePage :
        (/\ p # q /\ rows[p].state = "live" /\ rows[q].state = "live"
         /\ rows[p].space = rows[q].space) => rows[p].path # rows[q].path

(* The page that has a path, or "none".                                    *)
PageAt(s, path) ==
    IF \E p \in LiveIn(s) : tree[p].path = path
      THEN CHOOSE p \in LiveIn(s) : tree[p].path = path
      ELSE "none"

(* Row locks.                                                              *)
FreeRows(t, S) == \A u \in TreeSlot \ {t} : move[u].rows \cap S = {}
FreeSpaces(t, S) == \A u \in TreeSlot \ {t} : move[u].spaces \cap S = {}

Waiting(t) == move[t].op = "none"
Alone == \A u \in TreeSlot : Waiting(u)
MayAsk(t) == Waiting(t) /\ asked < MaxRequests /\ (Alone \/ asked >= Sequential)
Asked == asked' = asked + 1 /\ overlapped' = (overlapped \/ ~Alone)
Ask(t, r) == Asked /\ move' = [move EXCEPT ![t] = r]
Leave(t) == move' = [move EXCEPT ![t] = NoRequest] /\ UNCHANGED <<asked, overlapped>>

----------------------------------------------------------------------------
(* Where a page is to go.  With a parent the path gives the last name      *)
(* only; a path alone places the page, and the page above it, if there is  *)
(* one, becomes the parent.                                                *)
Paths == UNION {[1 .. n -> Segment] : n \in 1 .. MaxDepth}
UnderParent(s) == {[path |-> Join(tree[q].path, seg), parent |-> q] : q \in LiveIn(s), seg \in Segment}
AtTop          == {[path |-> <<seg>>, parent |-> "none"] : seg \in Segment}
ByPath(s)      == {[path |-> path, parent |-> PageAt(s, Above(path))] : path \in Paths}
Places(s)      == {place \in UnderParent(s) \cup AtTop \cup ByPath(s) : Len(place.path) =< MaxDepth}

(* createPage looks everything up before its transaction, without a lock.  *)
CreateRead(t, p, s, link) ==
    /\ MayAsk(t)
    /\ tree[p].state = "unborn" /\ \A u \in TreeSlot : move[u].page # p
    /\ link \in {"none"} \cup {q \in TreePage : tree[q].state # "unborn"}
    /\ \E place \in Places(s) :
         Ask(t, [NoRequest EXCEPT !.op = "create", !.page = p, !.space = s, !.path = place.path,
                                  !.parent = place.parent, !.link = link])
    /\ UNCHANGED <<tree, home, deletes>>

(* Pairing p with q leaves the pages they were paired with alone.          *)
Partners(rows, S) == {rows[p].link : p \in S} \ {"none"}
Paired(rows, p, q) ==
    [x \in TreePage |->
       IF x = p THEN [rows[p] EXCEPT !.link = q]
       ELSE IF x = q THEN [rows[q] EXCEPT !.link = p]
       ELSE IF x \in Partners(rows, {p, q}) THEN [rows[x] EXCEPT !.link = "none"]
       ELSE rows[x]]

CreateInsert(t) ==
    LET r == move[t]
        p == r.page
        born == [tree EXCEPT ![p] = [Unborn EXCEPT !.state = "live", !.space = r.space,
                                                   !.path = r.path, !.parent = r.parent]]
    IN /\ r.op = "create"
       /\ FreeRows(t, {r.parent, r.link}) /\ FreeSpaces(t, {r.space})
       /\ UniquePaths(born)
       /\ IF r.link = "none" THEN tree' = born
          ELSE /\ r.link \in LiveIn(r.space) /\ FreeRows(t, Partners(tree, {r.link}))
               /\ tree' = Paired(born, p, r.link)
       /\ Leave(t)
       /\ UNCHANGED <<home, deletes>>

(* updatePage with a parent or a path: the page is locked, its new place   *)
(* is read without a lock.                                                 *)
AnyPlace(p, place) == TRUE
NotBelowItself(p, place) == place.parent # p /\ ~Below(place.path, tree[p].path)

MoveLock(t, p) ==
    /\ MayAsk(t)
    /\ IsLive(p) /\ FreeRows(t, {p})
    /\ \E place \in Places(tree[p].space) :
         /\ NotBelowItself(p, place)
         /\ place # [path |-> tree[p].path, parent |-> tree[p].parent]
         /\ Ask(t, [NoRequest EXCEPT !.op = "move", !.page = p, !.rows = {p},
                                     !.path = place.path, !.parent = place.parent])
    /\ UNCHANGED <<tree, home, deletes>>

(* Then the page gets its path and parent, and every live row below its    *)
(* old path has that prefix replaced.                                      *)
MovedRows(p, S, space, path, parent) ==
    [q \in TreePage |->
       IF q = p THEN [tree[p] EXCEPT !.space = space, !.path = path, !.parent = parent]
       ELSE IF q \in S THEN [tree[q] EXCEPT !.space = space, !.path = Rebased(@, tree[p].path, path)]
       ELSE tree[q]]

MoveCommit(t) ==
    LET r == move[t]
        p == r.page
        moved == MovedRows(p, SubtreeOf(p), tree[p].space, r.path, r.parent)
    IN /\ r.op = "move"
       /\ FreeRows(t, SubtreeOf(p))
       /\ r.parent = tree[p].parent \/ FreeRows(t, {r.parent})
       /\ UniquePaths(moved)
       /\ tree' = moved
       /\ Leave(t)
       /\ UNCHANGED <<home, deletes>>

----------------------------------------------------------------------------
(* movePageToSpace has the page, both spaces, everything below the page    *)
(* and the new parent FOR UPDATE, and refuses a page its space designates, *)
(* a path too deep and a place that is taken.                              *)
SpaceLock(t, p, s, parent) ==
    LET from  == tree[p].space
        below == SubtreeOf(p)
        root  == Join(IF parent = "none" THEN <<>> ELSE tree[parent].path, LastOf(tree[p].path))
    IN /\ MayAsk(t) /\ IsLive(p) /\ from # s
       /\ FreeRows(t, below \cup {parent}) /\ FreeSpaces(t, {from, s})
       /\ home[from] \notin below
       /\ parent = "none" \/ parent \in LiveIn(s)
       /\ \A q \in below : Len(Rebased(tree[q].path, tree[p].path, root)) =< MaxDepth
       /\ \A q \in LiveIn(s) : tree[q].path # root /\ ~Below(tree[q].path, root)
       /\ Ask(t, [NoRequest EXCEPT !.op = "space", !.page = p, !.space = s, !.path = root,
                                   !.rows = below \cup ({parent} \ {"none"}), !.spaces = {from, s},
                                   !.parent = parent, !.found = below])
       /\ UNCHANGED <<tree, home, deletes>>

(* The pairs it splits are undone on both sides; what it moves is found by *)
(* the path once more.  The mutated form stands before, as in the other    *)
(* modules.                                                                *)
SplitOnMovedSide(found) == {p \in found : tree[p].link \notin found \cup {"none"}}
SplitPairs(found) ==
    LET out == {p \in found : tree[p].link \notin found \cup {"none"}}
    IN  out \cup {tree[p].link : p \in out}
Unlinked(rows, S) == [p \in TreePage |-> IF p \in S THEN [rows[p] EXCEPT !.link = "none"] ELSE rows[p]]

SpaceCommit(t) ==
    LET r == move[t]
        moved == MovedRows(r.page, SubtreeOf(r.page), r.space, r.path, r.parent)
    IN /\ r.op = "space"
       /\ FreeRows(t, SubtreeOf(r.page) \cup SplitPairs(r.found))
       /\ UniquePaths(moved)
       /\ tree' = Unlinked(moved, SplitPairs(r.found))
       /\ Leave(t)
       /\ UNCHANGED <<home, deletes>>

----------------------------------------------------------------------------
(* deletePage dates everything below the page and undoes its pairs.        *)
DeleteLock(t, p) ==
    /\ MayAsk(t)
    /\ IsLive(p) /\ FreeRows(t, {p})
    /\ Ask(t, [NoRequest EXCEPT !.op = "delete", !.page = p, !.rows = {p}])
    /\ UNCHANGED <<tree, home, deletes>>

RemovedOnly(rows, S, n) ==
    [p \in TreePage |->
       IF p \in S THEN [rows[p] EXCEPT !.state = "deleted", !.at = n, !.link = "none"] ELSE rows[p]]
RemovedRows(rows, S, n) ==
    [p \in TreePage |->
       IF p \in S THEN [rows[p] EXCEPT !.state = "deleted", !.at = n, !.link = "none"]
       ELSE IF rows[p].link \in S THEN [rows[p] EXCEPT !.link = "none"]
       ELSE rows[p]]

DeleteCommit(t) ==
    LET S == SubtreeOf(move[t].page)
    IN /\ move[t].op = "delete"
       /\ FreeRows(t, S \cup {p \in TreePage : tree[p].link \in S})
       /\ tree' = RemovedRows(tree, S, deletes + 1)
       /\ deletes' = deletes + 1
       /\ Leave(t)
       /\ UNCHANGED home

(* restorePage wants the parent live and still right above, and takes what *)
(* the same delete removed below the page.                                 *)
ParentBack(p) == tree[p].parent = "none" \/ IsLive(tree[p].parent)
ParentInPlace(p) ==
    \/ tree[p].parent = "none"
    \/ /\ IsLive(tree[p].parent)
       /\ tree[tree[p].parent].space = tree[p].space
       /\ tree[tree[p].parent].path = Above(tree[p].path)

RestoreLock(t, p) ==
    LET S == {q \in TreePage :
                /\ tree[q].state = "deleted" /\ tree[q].at = tree[p].at
                /\ tree[q].space = tree[p].space
                /\ q = p \/ Below(tree[q].path, tree[p].path)}
    IN /\ MayAsk(t) /\ tree[p].state = "deleted"
       /\ FreeRows(t, {p, tree[p].parent}) /\ ParentInPlace(p)
       /\ \A q \in S, r \in LiveIn(tree[p].space) : tree[q].path # tree[r].path
       /\ Ask(t, [NoRequest EXCEPT !.op = "restore", !.page = p, !.found = S,
                                   !.rows = {p, tree[p].parent} \ {"none"}])
       /\ UNCHANGED <<tree, home, deletes>>

Restored(row) == [row EXCEPT !.state = "live", !.at = 0]

RestoreCommit(t) ==
    LET S == {q \in move[t].found : tree[q].state = "deleted"}
        back == [q \in TreePage |-> IF q \in S THEN Restored(tree[q]) ELSE tree[q]]
    IN /\ move[t].op = "restore"
       /\ FreeRows(t, S) /\ UniquePaths(back)
       /\ tree' = back
       /\ Leave(t)
       /\ UNCHANGED <<home, deletes>>

----------------------------------------------------------------------------
(* linkPages and updateSpace hold every row they change until they are     *)
(* done: one step each.                                                    *)
Atomic == Asked /\ UNCHANGED <<move, deletes>>

LinkPages(t, p, q) ==
    /\ MayAsk(t)
    /\ IsLive(p) /\ q \in LiveIn(tree[p].space) \ {p}
    /\ FreeRows(t, {p, q} \cup Partners(tree, {p, q}))
    /\ tree' = Paired(tree, p, q)
    /\ Atomic /\ UNCHANGED home

UnlinkPage(t, p) ==
    /\ MayAsk(t)
    /\ IsLive(p) /\ tree[p].link # "none"
    /\ FreeRows(t, {p, tree[p].link})
    /\ tree' = Unlinked(tree, {p, tree[p].link})
    /\ Atomic /\ UNCHANGED home

(* updateSpace designates a live page of the space, or none.  It reads the *)
(* page without a lock; the foreign key's check comes after that, may wait *)
(* and decides nothing, so the wait is left out.                           *)
SetHome(t, s, p) ==
    /\ MayAsk(t)
    /\ FreeSpaces(t, {s})
    /\ p = "none" \/ p \in LiveIn(s)
    /\ home' = [home EXCEPT ![s] = p]
    /\ Atomic /\ UNCHANGED tree

(* A refusal, a lost deadlock, the end of the process.                     *)
AbortTree(t) ==
    /\ ~Waiting(t) /\ Leave(t)
    /\ UNCHANGED <<tree, home, deletes>>

TreeNext ==
    \E t \in TreeSlot :
        \/ \E p \in TreePage, s \in TreeSpace, l \in PageOrNone : CreateRead(t, p, s, l)
        \/ \E p \in TreePage, s \in TreeSpace, q \in PageOrNone : SpaceLock(t, p, s, q)
        \/ \E p \in TreePage : MoveLock(t, p) \/ DeleteLock(t, p) \/ RestoreLock(t, p) \/ UnlinkPage(t, p)
        \/ CreateInsert(t) \/ MoveCommit(t) \/ SpaceCommit(t) \/ DeleteCommit(t) \/ RestoreCommit(t)
        \/ \E p, q \in TreePage : LinkPages(t, p, q)
        \/ \E s \in TreeSpace, p \in PageOrNone : SetHome(t, s, p)
        \/ AbortTree(t)

TreeSpec == TreeInit /\ [][TreeNext]_treeVars

----------------------------------------------------------------------------
(* Types of the rows and of the requests in flight; no page is the parent  *)
(* or the counterpart of itself.                                           *)
TreeTypeOK ==
    /\ tree \in [TreePage -> TreeRow]
    /\ \A p \in TreePage : tree[p].parent # p /\ tree[p].link # p
    /\ home \in [TreeSpace -> PageOrNone]
    /\ move \in [TreeSlot -> TreeRequest]
    /\ deletes \in Nat /\ asked \in Nat /\ overlapped \in BOOLEAN

(* A pair is a pair from both sides and of live pages, however requests    *)
(* interleave.                                                             *)
PairsMutual ==
    \A p \in TreePage : tree[p].link # "none" =>
        /\ tree[p].state = "live"
        /\ tree[p].link \in TreePage
        /\ tree[tree[p].link].link = p

(* As long as requests come one after another, a page with a parent has it *)
(* live, in its own space, right above its path, after any sequence of     *)
(* creations, moves, deletes and restores.                                 *)
KeptInStep ==
    ~overlapped => \A p \in TreePage : IsLive(p) /\ tree[p].parent # "none" =>
        /\ IsLive(tree[p].parent)
        /\ tree[tree[p].parent].space = tree[p].space
        /\ tree[tree[p].parent].path = Above(tree[p].path)

(* As long as requests come one after another, pairs do not span spaces    *)
(* and a space designates a page of its own.                               *)
SpacesApart ==
    ~overlapped =>
        /\ \A p \in TreePage : tree[p].link # "none" => tree[tree[p].link].space = tree[p].space
        /\ \A s \in TreeSpace : home[s] # "none" => tree[home[s]].space = s

(* updatePage: "A page cannot be moved below itself" - the parents above a *)
(* page never lead back to it.                                             *)
NoCycle ==
    \A S \in (SUBSET TreePage) \ {{}} :
        \E p \in S : tree[p].parent \notin S

=============================================================================
