----------------------------- MODULE PageLease -----------------------------
(***************************************************************************)
(* What the claims of a wiki promise, without transactions, locks, clocks  *)
(* or reads: a lease is granted on a live page when nothing overlaps it,   *)
(* a page is written only under a lease on it, and a page goes away        *)
(* together with its leases.                                               *)
(***************************************************************************)
EXTENDS Naturals

CONSTANTS Actor, Page, Section, ClaimId, Whole, None

VARIABLES
    lease,      \* claim id -> the lease while it is active, None otherwise
    used,       \* the claim ids ever granted
    version,    \* page -> version
    live        \* the pages that are not deleted

vars == <<lease, used, version, live>>

Clear(l, p, s) ==
    \A c \in ClaimId : l[c] # None /\ l[c].page = p
                          => l[c].sect # s /\ l[c].sect # Whole /\ s # Whole

Without(S) == [c \in ClaimId |-> IF c \in S THEN None ELSE lease[c]]

Init ==
    /\ lease = [c \in ClaimId |-> None]
    /\ used = {}
    /\ version = [p \in Page |-> 1]
    /\ live = Page

(* A lease is granted over the leases S, which end with the grant.         *)
Grant(c, p, s, a, S) ==
    /\ c \notin used /\ p \in live
    /\ Clear(Without(S), p, s)
    /\ lease' = [Without(S) EXCEPT ![c] = [page |-> p, sect |-> s, holder |-> a]]
    /\ used' = used \cup {c}
    /\ UNCHANGED <<version, live>>

End(S) ==
    /\ lease' = Without(S)
    /\ UNCHANGED <<used, version, live>>

Write(p) ==
    /\ p \in live
    /\ \E c \in ClaimId : lease[c] # None /\ lease[c].page = p
    /\ version' = [version EXCEPT ![p] = @ + 1]
    /\ UNCHANGED <<lease, used, live>>

Delete(P) ==
    /\ live' = live \ P
    /\ lease' = Without({c \in ClaimId : lease[c] # None /\ lease[c].page \in P})
    /\ UNCHANGED <<used, version>>

Restore(P) ==
    /\ live' = live \cup P
    /\ UNCHANGED <<lease, used, version>>

Next ==
    \/ \E c \in ClaimId, p \in Page, s \in Section \cup {Whole}, a \in Actor,
          S \in SUBSET ClaimId : Grant(c, p, s, a, S)
    \/ \E S \in SUBSET ClaimId : End(S)
    \/ \E p \in Page : Write(p)
    \/ \E P \in SUBSET Page : Delete(P) \/ Restore(P)

Spec == Init /\ [][Next]_vars
=============================================================================
