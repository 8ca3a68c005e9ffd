----------------------------- MODULE MCServices -----------------------------
(* Small instances of the services beside the claims and the rooms.  They  *)
(* share no state, so a behaviour is a behaviour of one of them: which one *)
(* is chosen at the start, and the others stay as they begin.              *)
EXTENDS FileStore, PageTree, Discussion, ImportApply, Review, Members, Limits, TLC

CONSTANTS
    Parts,         \* the services a run looks at
    t1, t2,        \* the requests in flight, in every service
    x, y,          \* contents, bodies, decision pages, people and invitations
    p1, p2, p3, s1 \* pages, and the space they are in at first

VARIABLE part

servicesVars == <<part, fileVars, treeVars, threadVars, importVars, reviewVars, memberVars, limitVars>>

ServicesInit ==
    /\ part \in Parts
    /\ FilesInit /\ TreeInit /\ ThreadInit /\ ImportInit /\ ReviewInit /\ MembersInit /\ LimitsInit

ServicesNext ==
    /\ UNCHANGED part
    /\ \/ /\ part = "files" /\ FilesNext
          /\ UNCHANGED <<treeVars, threadVars, importVars, reviewVars, memberVars, limitVars>>
       \/ /\ part = "tree" /\ TreeNext
          /\ UNCHANGED <<fileVars, threadVars, importVars, reviewVars, memberVars, limitVars>>
       \/ /\ part = "threads" /\ ThreadNext
          /\ UNCHANGED <<fileVars, treeVars, importVars, reviewVars, memberVars, limitVars>>
       \/ /\ part = "imports" /\ ImportNext
          /\ UNCHANGED <<fileVars, treeVars, threadVars, reviewVars, memberVars, limitVars>>
       \/ /\ part = "reviews" /\ ReviewNext
          /\ UNCHANGED <<fileVars, treeVars, threadVars, importVars, memberVars, limitVars>>
       \/ /\ part = "members" /\ MembersNext
          /\ UNCHANGED <<fileVars, treeVars, threadVars, importVars, reviewVars, limitVars>>
       \/ /\ part = "limits" /\ LimitsNext
          /\ UNCHANGED <<fileVars, treeVars, threadVars, importVars, reviewVars, memberVars>>

ServicesSpec == ServicesInit /\ [][ServicesNext]_servicesVars

(* A page, one below it, and a third: to be made, or beside the first.     *)
MCParent == [p \in TreePage |-> IF p = p2 THEN p1 ELSE "none"]
MCOneUnborn == [p \in TreePage |-> CASE p = p1 -> <<"a">> [] p = p2 -> <<"a", "b">> [] OTHER -> <<>>]
MCAllBorn == [p \in TreePage |-> CASE p = p1 -> <<"a">> [] p = p2 -> <<"a", "b">> [] OTHER -> <<"b">>]

(* Every list of up to three nodes, and four of one name.                  *)
ListsOf(n, names, above) == [1 .. n -> [title : names, parent : above]]
MCParsed == UNION {ListsOf(n, Title, 0 .. n + 1) : n \in 1 .. 3} \cup ListsOf(4, {"a"}, 0 .. 2)

(* The import that is reviewed and applied: a page and one below it.       *)
MCReviewed == {<<[title |-> "a", parent |-> 0], [title |-> "b", parent |-> 1]>>}

(* Whatever is numbered beyond the numbers that are tried gets the same.   *)
MCSpread == [i \in 1 .. MaxNodes |-> 0]

(* Requests are interchangeable, and so are the things they are about.     *)
Alike == Permutations({t1, t2}) \cup Permutations({x, y})
=============================================================================
