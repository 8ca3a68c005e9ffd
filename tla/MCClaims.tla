------------------------------ MODULE MCClaims ------------------------------
(* Small instances of ClaimProtocol: a page and, where the run has two, the*)
(* page below it.                                                          *)
EXTENDS ClaimProtocol, TLC

CONSTANTS top, child

MCSubtree == [p \in Page |-> IF p = top THEN Page ELSE {p}]

(* The page and the page below it are each other's counterparts.           *)
MCLink == [p \in Page |-> IF Page = {top} THEN None ELSE CHOOSE q \in Page : q # p]

(* Claim ids, requests and actors are interchangeable.                     *)
Interchangeable == Permutations(ClaimId) \cup Permutations(Slot) \cup Permutations(Actor)
=============================================================================
