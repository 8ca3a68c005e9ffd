---------------------------- MODULE ImportApply ----------------------------
(***************************************************************************)
(* An import: its nodes are placed and staged, a reviewer decides on them, *)
(* and it is applied to a space where people go on working.                *)
(*                                                                         *)
(* The status is read before it is set and nothing holds it, so two        *)
(* applies may run side by side; each draws the ids of its pages first and *)
(* then writes item after item, every item in a transaction of its own.    *)
(* One edit is under way at a time.                                        *)
(*                                                                         *)
(* A segment is a name and the number that keeps it apart.  Bodies, links, *)
(* images and files are left out; the files are FileStore's.               *)
(***************************************************************************)
EXTENDS Naturals, Sequences, FiniteSets, SequencesExt

CONSTANTS
    Title,           \* names titles come down to
    MaxNodes,        \* nodes of an import (bound)
    Parsed,          \* the node lists there are to stage (bound)
    Reviewed,        \* the node lists that are edited and applied (bound)
    ImportDepth,     \* MAX_PATH_DEPTH
    MaxAttempts,     \* numbers tried for a name, 500 in the code
    Spread,          \* hashOf, a number for every node
    Applier,         \* applies, each of which runs once (bound)
    MaxEdits         \* edits by the reviewer (bound)

NodeLists == UNION {[1 .. n -> [title : Title, parent : 0 .. n + 1]] : n \in 1 .. MaxNodes}

ASSUME ImportAssumption ==
    /\ MaxNodes \in Nat /\ MaxEdits \in Nat
    /\ ImportDepth \in Nat \ {0, 1} /\ "person" \notin Applier
    /\ MaxAttempts \in Nat \ {0} /\ Spread \in [1 .. MaxNodes -> Nat]
    /\ Parsed \subseteq NodeLists /\ Reviewed \subseteq Seq([title : Title, parent : Nat])

VARIABLES
    status,          \* of the row of imports
    staging,         \* how far createImport is, and what it is to stage
    items,           \* import_items, in placement order
    edit,            \* an edit that was let through and is yet to be written
    edits,           \* edits so far
    run,             \* the applies
    stock,           \* the pages of the space, by id
    repathed         \* the nodes the reviewer has given another path

importVars == <<status, staging, items, edit, edits, run, stock, repathed>>

Seg(t, n) == [name |-> t, n |-> n]
Decision == {"create", "skip", "overwrite"}
Plain == {<<Seg(t, 1)>> : t \in Title}

(* A page the import made has the number of its node, and where the item   *)
(* was to go; a person's page has 0.                                       *)
ImportId == Applier \X (1 .. MaxNodes) \cup {<<"person", 1>>}
NoPage == <<"none", 0>>
NoEdit == [item |-> 0, decision |-> "skip", path |-> <<>>]
NoStaging == [pc |-> "none", items |-> <<>>]
NoRun == [pc |-> "idle", items |-> <<>>, plan |-> <<>>, known |-> <<>>, next |-> 1]

ImportInit ==
    /\ status = "none" /\ staging = NoStaging /\ items = <<>>
    /\ edit = NoEdit /\ edits = 0
    /\ run = [w \in Applier |-> NoRun]
    /\ stock = << >> /\ repathed = {}

UnchangedImport == UNCHANGED <<staging, items, edit, edits, run, stock, repathed>>

----------------------------------------------------------------------------
(* orderForPlacement: below the root or below its parent, depth first; a   *)
(* parent that is missing, or the node itself, counts as the root, and     *)
(* what no root leads to, because its parents go in a circle, comes last,  *)
(* in the order of the source.  The mutated form stands before.            *)
InSourceOrder(nodes) == [i \in DOMAIN nodes |-> i]

Upper(nodes, i) == IF nodes[i].parent \in DOMAIN nodes \ {i} THEN nodes[i].parent ELSE 0
Lost(nodes) == UNION {S \in SUBSET DOMAIN nodes : \A i \in S : Upper(nodes, i) \in S}
NextNode(nodes, done) ==
    LET todo == DOMAIN nodes \ Range(done)
        child(q) == {i \in todo \ Lost(nodes) : Upper(nodes, i) = q}
        from == {k \in DOMAIN done : child(done[k]) # {}}
    IN CASE todo \subseteq Lost(nodes) -> Min(todo)
         [] from # {} -> Min(child(done[Max(from)]))
         [] OTHER -> Min(child(0))

OrderForPlacement(nodes) ==
    LET order[k \in 0 .. Len(nodes)] ==
            IF k = 0 THEN <<>> ELSE Append(order[k - 1], NextNode(nodes, order[k - 1]))
    IN order[Len(nodes)]

(* placeNodes: a node is joined onto the path its parent was given, or as  *)
(* deep as the limit allows, and numbered until nobody has the path.  When *)
(* every number there is to try is taken it gets one of its own beyond     *)
(* them, and whether somebody has that path is not looked at.              *)
PlaceOne(nodes, placed, i) ==
    LET used  == {placed[k].path : k \in DOMAIN placed}
        over  == {k \in DOMAIN placed : placed[k].node = nodes[i].parent}
        above == IF over = {} THEN <<>> ELSE placed[CHOOSE k \in over : TRUE].path
        base  == IF Len(above) >= ImportDepth THEN SubSeq(above, 1, ImportDepth - 1) ELSE above
        left  == {m \in 1 .. MaxAttempts : Append(base, Seg(nodes[i].title, m)) \notin used}
        n     == IF left # {} THEN Min(left) ELSE MaxAttempts + 1 + Spread[i]
    IN Append(placed, [node |-> i, parent |-> nodes[i].parent, title |-> nodes[i].title,
                       decision |-> "create", path |-> Append(base, Seg(nodes[i].title, n))])

PlaceNodes(nodes) ==
    LET order == OrderForPlacement(nodes)
        placed[k \in 0 .. Len(nodes)] ==
            IF k = 0 THEN <<>> ELSE PlaceOne(nodes, placed[k - 1], order[k])
    IN placed[Len(nodes)]

(* The live page of the space at a path, or none.                          *)
Here == {p \in DOMAIN stock : stock[p].live}
StockAt(path) == IF \E p \in Here : stock[p].path = path
                 THEN CHOOSE p \in Here : stock[p].path = path
                 ELSE NoPage

(* createImport: the row; then what was parsed is placed and compared with *)
(* the pages there are, inserted, and the import ends in review whatever   *)
(* became of its status in between.  Items need the row they belong to.    *)
CreateImport ==
    /\ status = "none" /\ status' = "running"
    /\ staging' = [NoStaging EXCEPT !.pc = "parsing"]
    /\ UNCHANGED <<items, edit, edits, run, stock, repathed>>

StageRead ==
    /\ staging.pc = "parsing"
    /\ \E nodes \in Parsed :
         LET placed == PlaceNodes(nodes)
         IN staging' = [pc |-> "placed", items |-> [k \in DOMAIN placed |->
              [placed[k] EXCEPT !.decision = IF StockAt(placed[k].path) = NoPage THEN "create" ELSE "skip"]]]
    /\ UNCHANGED <<status, items, edit, edits, run, stock, repathed>>

StageInsert ==
    /\ staging.pc = "placed" /\ status # "deleted"
    /\ items' = staging.items /\ staging' = [NoStaging EXCEPT !.pc = "inserted"]
    /\ UNCHANGED <<status, edit, edits, run, stock, repathed>>

StagingEnds == staging' = NoStaging /\ UNCHANGED <<items, edit, edits, run, stock, repathed>>
SetStatus(new) == status' = IF status = "deleted" THEN status ELSE new

StageDone == staging.pc = "inserted" /\ SetStatus("review") /\ StagingEnds

(* An error is recorded, the end of the process is not.                    *)
StageFailed ==
    /\ staging.pc # "none"
    /\ SetStatus("failed") \/ UNCHANGED status
    /\ StagingEnds

----------------------------------------------------------------------------
(* What is staged is what was parsed, in another order.                    *)
InReview ==
    /\ status = "review"
    /\ \E nodes \in Reviewed :
         /\ Len(nodes) = Len(items)
         /\ \A k \in DOMAIN items :
              nodes[items[k].node] = [title |-> items[k].title, parent |-> items[k].parent]

(* updateImportItem: the status and the path are looked at, then written.  *)
EditCheck(k, decision, path) ==
    /\ InReview /\ edits < MaxEdits /\ edit = NoEdit
    /\ k \in DOMAIN items
    /\ path = items[k].path \/ \A j \in DOMAIN items : items[j].path # path
    /\ edit' = [item |-> k, decision |-> decision, path |-> path] /\ edits' = edits + 1
    /\ UNCHANGED <<status, staging, items, run, stock, repathed>>

EditWrite ==
    /\ edit # NoEdit
    /\ items' = IF status = "deleted" THEN items
                ELSE [items EXCEPT ![edit.item].decision = edit.decision, ![edit.item].path = edit.path]
    /\ edit' = NoEdit
    /\ repathed' = IF edit.path = items[edit.item].path THEN repathed
                   ELSE repathed \cup {items[edit.item].node}
    /\ UNCHANGED <<status, staging, edits, run, stock>>

(* cancelImport reads the status, refuses one that is applied, and sets it *)
(* later: by then the import may have become anything, so that what it     *)
(* read says nothing.  deleteImport and the purge take the row and items.  *)
CancelImport ==
    /\ status \notin {"none", "deleted"} /\ status' = "cancelled"
    /\ UnchangedImport

DeleteImport ==
    /\ status \notin {"none", "deleted"} /\ status' = "deleted"
    /\ UnchangedImport

----------------------------------------------------------------------------
(* applyImport: the status, and then the items and the pages there are.    *)
ApplyCheck(w) ==
    /\ InReview /\ run[w].pc = "idle"
    /\ run' = [run EXCEPT ![w].pc = "checked"]
    /\ UNCHANGED <<status, staging, items, edit, edits, stock, repathed>>

(* An item is planned unless it is skipped or its path is taken; to        *)
(* overwrite a page is to plan that page.                                  *)
PlanOf(w, item) ==
    LET there == StockAt(item.path)
    IN CASE item.decision = "skip" -> NoPage
         [] item.decision = "create" /\ there # NoPage -> NoPage
         [] item.decision = "overwrite" /\ there # NoPage -> there
         [] OTHER -> <<w, item.node>>

ApplyBegin(w) ==
    LET mine == IF status = "deleted" THEN <<>> ELSE items
    IN /\ run[w].pc = "checked"
       /\ SetStatus("running")
       /\ run' = [run EXCEPT ![w].pc = "applying", ![w].items = mine,
                             ![w].plan = [k \in DOMAIN mine |-> PlanOf(w, mine[k])],
                             ![w].known = [path \in {stock[p].path : p \in Here} |-> StockAt(path)]]
       /\ UNCHANGED <<staging, items, edit, edits, stock, repathed>>

(* The run's own idea of what is at a path, from its start and its writes. *)
KnownAt(w, path) == IF path \in DOMAIN run[w].known THEN run[w].known[path] ELSE NoPage
Learned(w, path, p) ==
    [x \in DOMAIN run[w].known \cup {path} |-> IF x = path THEN p ELSE run[w].known[x]]

(* The page planned for an item's parent, if there is such an item.        *)
PlannedParent(w, item) ==
    LET over == {k \in DOMAIN run[w].items : run[w].items[k].node = item.parent}
    IN IF over = {} THEN NoPage ELSE run[w].plan[CHOOSE k \in over : TRUE]

(* createPage: with a parent the path only gives the last segment.         *)
Destination(w, item) ==
    LET parent == PlannedParent(w, item)
    IN IF parent = NoPage THEN item.path
       ELSE Append(stock[parent].path, item.path[Len(item.path)])

(* The pages with one more, or with another in its place.                  *)
WithPage(p, page) == [x \in DOMAIN stock \cup {p} |-> IF x = p THEN page ELSE stock[x]]

PathFreeAlways(path) == TRUE
PathFree(path) == StockAt(path) = NoPage

WriteItem(w) ==
    LET k == run[w].next
        item == run[w].items[k]
        there == KnownAt(w, item.path)
        p == run[w].plan[k]
    IN /\ run[w].pc = "applying" /\ k =< Len(run[w].items)
       /\ item.decision # "skip" /\ p # NoPage
       /\ \/ /\ item.decision = "overwrite" /\ there # NoPage
             /\ there \in Here
             /\ run' = [run EXCEPT ![w].next = k + 1, ![w].known = Learned(w, item.path, there)]
             /\ UNCHANGED stock
          \/ /\ there = NoPage
             /\ PlannedParent(w, item) \in Here \cup {NoPage}
             /\ Len(Destination(w, item)) =< ImportDepth /\ PathFree(Destination(w, item))
             /\ stock' = WithPage(p, [live |-> TRUE, node |-> item.node,
                                      path |-> Destination(w, item), meant |-> item.path])
             /\ run' = [run EXCEPT ![w].next = k + 1, ![w].known = Learned(w, item.path, p)]
       /\ UNCHANGED <<status, staging, items, edit, edits, repathed>>

(* An item is left out: by decision, for a conflict, a claim or an error.  *)
SkipItem(w) ==
    /\ run[w].pc = "applying" /\ run[w].next =< Len(run[w].items)
    /\ run' = [run EXCEPT ![w].next = @ + 1]
    /\ UNCHANGED <<status, staging, items, edit, edits, stock, repathed>>

ApplyEnd(w) ==
    /\ run[w].pc = "applying" /\ run[w].next > Len(run[w].items)
    /\ SetStatus("applied")
    /\ run' = [run EXCEPT ![w] = [NoRun EXCEPT !.pc = "done"]]
    /\ UNCHANGED <<staging, items, edit, edits, stock, repathed>>

(* The process ends; what was written stays.                               *)
ApplyDies(w) ==
    /\ run[w].pc \in {"checked", "applying"}
    /\ run' = [run EXCEPT ![w] = [NoRun EXCEPT !.pc = "done"]]
    /\ UNCHANGED <<status, staging, items, edit, edits, stock, repathed>>

----------------------------------------------------------------------------
(* People create and delete pages in the space meanwhile (one page of      *)
(* theirs: a bound).  That they may move them, too, is left out.           *)
Beneath(p) == {q \in Here : IsPrefix(stock[p].path, stock[q].path)}

PersonCreates(path) ==
    /\ <<"person", 1>> \notin DOMAIN stock /\ PathFree(path)
    /\ stock' = WithPage(<<"person", 1>>, [live |-> TRUE, node |-> 0, path |-> path, meant |-> path])
    /\ UNCHANGED <<status, staging, items, edit, edits, run, repathed>>

PersonDeletes(p) ==
    /\ p \in Here
    /\ stock' = [x \in DOMAIN stock |-> [stock[x] EXCEPT !.live = @ /\ x \notin Beneath(p)]]
    /\ UNCHANGED <<status, staging, items, edit, edits, run, repathed>>

ImportNext ==
    \/ CreateImport \/ StageRead \/ StageInsert \/ StageDone \/ StageFailed
    \/ \E k \in DOMAIN items, d \in Decision : \E path \in Plain \cup {items[k].path} :
         EditCheck(k, d, path)
    \/ EditWrite \/ CancelImport \/ DeleteImport
    \/ \E w \in Applier :
         ApplyCheck(w) \/ ApplyBegin(w) \/ WriteItem(w) \/ SkipItem(w) \/ ApplyEnd(w) \/ ApplyDies(w)
    \/ \E path \in Plain : PersonCreates(path)
    \/ \E p \in ImportId : PersonDeletes(p)

ImportSpec == ImportInit /\ [][ImportNext]_importVars

----------------------------------------------------------------------------
(* Types of the import, its items and its applies; every page has a path   *)
(* of its own and no deeper than the limit.                                *)
ImportTypeOK ==
    /\ status \in {"none", "running", "review", "failed", "applied", "cancelled", "deleted"}
    /\ staging.pc \in {"none", "parsing", "placed", "inserted"}
    /\ \A k \in DOMAIN items : items[k].decision \in Decision
    /\ repathed \subseteq 1 .. MaxNodes /\ edits \in 0 .. MaxEdits
    /\ \A w \in Applier : run[w].pc \in {"idle", "checked", "applying", "done"}
    /\ \A p \in DOMAIN stock : p \in ImportId /\ Len(stock[p].path) \in 1 .. ImportDepth
    /\ \A p, q \in Here : stock[p].path = stock[q].path => p = q

(* placeNodes: every node has one place, two have the same only if all the *)
(* numbers for that name beside them are taken, none is too deep, and a    *)
(* node is right below its parent, or beside it at the limit, unless its   *)
(* parents go in a circle.                                                 *)
PlacedWell ==
    edits = 0 =>
        /\ {items[k].node : k \in DOMAIN items} = DOMAIN items
        /\ \A k, j \in DOMAIN items :
             /\ k # j /\ items[k].path = items[j].path =>
                  \A m \in 1 .. MaxAttempts : \E i \in DOMAIN items :
                      items[i].path = Append(Front(items[k].path), Seg(Last(items[k].path).name, m))
             /\ Len(items[k].path) =< ImportDepth
             /\ items[k].parent = items[j].node /\ j < k =>
                  LET up == Front(items[k].path)
                  IN up = items[j].path \/ (Len(items[j].path) = ImportDepth /\ up = Front(items[j].path))
        /\ \A k, j \in DOMAIN items :
             k =< j /\ items[k].parent = items[j].node =>
                 \E S \in SUBSET DOMAIN items :
                     k \in S /\ \A s \in S : \E r \in S : items[s].parent = items[r].node

(* schema: "an import that is applied twice does not create the same page  *)
(* twice".  It does not, also when the two applies run at once, as long as *)
(* the reviewer has left the items where they were placed.                 *)
CreatedOnce ==
    repathed = {} => \A p, q \in Here : stock[p].node = stock[q].node => p = q

(* "The reviewer decides: leave it out, replace what is there, or move it" *)
(* - a page is made where the reviewer moved its item.                     *)
LandsWhereReviewed ==
    \A p \in Here : stock[p].node \in repathed => stock[p].path = stock[p].meant

=============================================================================
