----------------------- MODULE ClaimProtocol_proofs -----------------------
(***************************************************************************)
(* Theorems about ClaimProtocol for any number of actors, pages, claims    *)
(* and requests in flight, and any clock.                                  *)
(*                                                                         *)
(* Exclusion is not inductive: an insert is safe only because of what its  *)
(* request read a step earlier.  The inductive invariant says what a       *)
(* request may still rely on while it holds its locks.                     *)
(***************************************************************************)
EXTENDS ClaimProtocol, TLAPS

Waiting == {"idle", "begun"}
Taking  == {"insert", "heartbeat"}
Deleting == {"delete", "override"}
Restoring == {"restore", "restoring"}
Locked  == {"acquire", "insert", "heartbeat", "write"} \cup Deleting \cup Restoring

(* Two requests never hold the lock of one page row.                       *)
LocksExclusive ==
    \A t, u \in Slot : t # u => Held(t) \cap Held(u) = {}

(* Under the lock the row is still what the request read, and it is live   *)
(* for every request but a restore.                                        *)
SeenIsCurrent ==
    \A t \in Slot : txn[t].pc \in Locked =>
        /\ txn[t].page \in Page
        /\ txn[t].seen = page[txn[t].page]
        /\ txn[t].pc \notin Restoring => txn[t].who \in Actor /\ Live(txn[t].page)

(* The rows a request has set out to expire are locked by it alone: they   *)
(* are still active when it commits.                                       *)
LapsedAreHeld ==
    /\ \A t \in Slot : \A c \in txn[t].lapsed : Unreleased(c)
    /\ \A t, u \in Slot : t # u => txn[t].lapsed \cap txn[u].lapsed = {}

(* A claim about to be extended exists; a claim about to be inserted does  *)
(* not, no other request is about to insert it, and nothing overlaps it    *)
(* but what its own transaction ends.                                      *)
TakingIsSafe ==
    \A t \in Slot :
        /\ txn[t].pc \in Taking \cup {"acquire"} => txn[t].sect \in Target
        /\ txn[t].pc \in Taking => txn[t].claim \in ClaimId
        /\ txn[t].pc \notin Taking => txn[t].claim = None
        /\ txn[t].pc = "heartbeat" => claim[txn[t].claim] # None
        /\ txn[t].pc = "insert" =>
             /\ claim[txn[t].claim] = None
             /\ \A u \in Slot \ {t} : txn[u].claim # txn[t].claim
             /\ \A c \in ClaimId :
                  (/\ Unreleased(c) /\ claim[c].page = txn[t].page
                   /\ TargetsOverlap(claim[c].sect, txn[t].sect))
                      => c \in txn[t].lapsed

Committing == LocksExclusive /\ SeenIsCurrent /\ LapsedAreHeld /\ TakingIsSafe

IInv ==
    /\ TypeOK
    /\ Committing
    /\ Exclusion
    /\ LeaseBaseCurrent
    /\ NotesFollowClaims
    /\ NoClaimOnDeletedPage

----------------------------------------------------------------------------
(* The initial state is within the invariant.                              *)
LEMMA InitIInv == Init => IInv
  <1> SUFFICES ASSUME Init PROVE IInv
    OBVIOUS
  <1> USE ConstantsAssumption
  <1>1. TypeOK
    BY DEF Init, TypeOK, PageRow, Request, Idle
  <1>2. Committing
    BY DEF Init, Committing, LocksExclusive, SeenIsCurrent, LapsedAreHeld, TakingIsSafe,
           Idle, Locked, Taking, Deleting, Restoring, Held
  <1>3. Exclusion /\ LeaseBaseCurrent /\ NotesFollowClaims /\ NoClaimOnDeletedPage
    BY DEF Init, Exclusion, LeaseBaseCurrent, NotesFollowClaims, NoClaimOnDeletedPage,
           Unreleased
  <1> QED BY <1>1, <1>2, <1>3 DEF IInv

(* A request that ends leaves its slot idle and the others alone.          *)
LEMMA FinishFrees ==
  ASSUME TypeOK, NEW t \in Slot, Finish(t)
  PROVE  /\ txn' \in [Slot -> Request]
         /\ txn'[t] = Idle
         /\ \A u \in Slot \ {t} : txn'[u] = txn[u]
  BY ConstantsAssumption DEF TypeOK, Finish, Idle, Request

(* A slot taken over by a well-formed request leaves the others alone.     *)
LEMMA SlotTaken ==
  ASSUME TypeOK, NEW t \in Slot, NEW r \in Request, txn' = [txn EXCEPT ![t] = r]
  PROVE  /\ txn' \in [Slot -> Request]
         /\ txn'[t] = r
         /\ \A u \in Slot \ {t} : txn'[u] = txn[u]
  BY DEF TypeOK

LEMMA EndClaimsType ==
  ASSUME TypeOK, NEW S \in SUBSET ClaimId, NEW why \in Reason,
         \A c \in S : claim[c] # None
  PROVE  /\ EndClaims(S, why) \in [ClaimId -> ClaimRow \cup {None}]
         /\ \A c \in S : /\ EndClaims(S, why)[c] \in ClaimRow
                          /\ EndClaims(S, why)[c].reason = why
                          /\ EndClaims(S, why)[c].page = claim[c].page
                          /\ EndClaims(S, why)[c].sect = claim[c].sect
         /\ \A c \in ClaimId \ S : EndClaims(S, why)[c] = claim[c]
         /\ DropNotes(S) \in [ClaimId -> Nat \cup {None}]
         /\ \A c \in S : DropNotes(S)[c] = None
         /\ \A c \in ClaimId \ S : DropNotes(S)[c] = note[c]
  BY DEF TypeOK, EndClaims, DropNotes, ClaimRow

----------------------------------------------------------------------------
(* Most steps only let go: a slot keeps its request or drops its locks, no *)
(* claim comes into being, revives or moves, and neither the page under    *)
(* another request's lock nor the rows it is about to expire are touched.  *)
Unlocked(r) == /\ r.pc \in Waiting /\ r.page = None /\ r.also = {}
               /\ r.lapsed = {} /\ r.claim = None

LetsGo ==
    /\ \A u \in Slot : txn'[u] = txn[u] \/ Unlocked(txn'[u])
    /\ \A c \in ClaimId : claim'[c] = None <=> claim[c] = None
    /\ \A c \in ClaimId : Unreleased(c)' =>
         Unreleased(c) /\ claim'[c].page = claim[c].page /\ claim'[c].sect = claim[c].sect
    /\ \A u \in Slot : \A c \in txn'[u].lapsed : Unreleased(c)'
    /\ \A u \in Slot : txn'[u].pc \in Locked => page'[txn'[u].page] = page[txn'[u].page]

LEMMA IdleUnlocked == Unlocked(Idle) /\ Idle.lapsed = {} /\ Idle.pc \notin Locked
  BY DEF Unlocked, Idle, Waiting, Locked, Deleting, Restoring

(* A request keeps the rows it holds to itself.                            *)
LEMMA OwnRows ==
  ASSUME IInv, NEW t \in Slot, txn[t].pc \in Locked
  PROVE  /\ txn[t].page \in Page /\ PageFree(t, txn[t].page)
         /\ \A q \in txn[t].also : PageFree(t, q)
         /\ \A u \in Slot \ {t} : txn[u].page # txn[t].page /\ txn[u].page \notin txn[t].also
  <1> USE ConstantsAssumption
  <1>1. txn[t].page \in Page /\ None \notin Page /\ txn[t].also \subseteq Page
    BY DEF IInv, TypeOK, Request, Committing, SeenIsCurrent
  <1>2. txn[t].page \in Held(t) /\ txn[t].also \subseteq Held(t)
    BY <1>1 DEF Held
  <1>3. \A u \in Slot \ {t} : Held(t) \cap Held(u) = {}
    BY DEF IInv, Committing, LocksExclusive
  <1>4. \A u \in Slot \ {t} : txn[u].page # None => txn[u].page \in Held(u)
    BY DEF Held
  <1> QED BY <1>1, <1>2, <1>3, <1>4 DEF PageFree

(* What a request that goes on under its locks may still rely on.          *)
LEMMA StillHeld ==
  ASSUME IInv, NEW t \in Slot, txn[t].pc \in Locked
  PROVE  /\ txn[t] \in Request /\ txn[t].page \in Page /\ txn[t].seen = page[txn[t].page]
         /\ txn[t].pc \notin Restoring => txn[t].who \in Actor /\ Live(txn[t].page)
         /\ PageFree(t, txn[t].page) /\ \A q \in txn[t].also : PageFree(t, q)
         /\ \A c \in txn[t].lapsed : Unreleased(c) /\ ClaimFree(t, c)
         /\ txn[t].pc \notin Taking => txn[t].claim = None
         /\ txn[t].pc \in Taking \cup {"acquire"} => txn[t].sect \in Target
  <1>1. PageFree(t, txn[t].page) /\ \A q \in txn[t].also : PageFree(t, q)
    BY OwnRows
  <1>2. \A c \in txn[t].lapsed : Unreleased(c) /\ ClaimFree(t, c)
    BY DEF IInv, Committing, LapsedAreHeld, ClaimFree
  <1> QED BY <1>1, <1>2 DEF IInv, TypeOK, Committing, SeenIsCurrent, TakingIsSafe

LEMMA LettingGo ==
  ASSUME IInv, LetsGo
  PROVE  Committing' /\ Exclusion'
  <1> USE ConstantsAssumption
  <1>1. LocksExclusive'
    <2>1. \A u \in Slot : Held(u)' \subseteq Held(u)
      BY DEF LetsGo, Unlocked, Held
    <2> QED BY <2>1 DEF IInv, Committing, LocksExclusive
  <1>2. SeenIsCurrent'
    <2> SUFFICES ASSUME NEW u \in Slot, txn'[u].pc \in Locked
                 PROVE  /\ txn'[u].page \in Page
                        /\ txn'[u].seen = page'[txn'[u].page]
                        /\ txn'[u].pc \notin Restoring =>
                             txn'[u].who \in Actor /\ page'[txn'[u].page].deleted = None
      BY DEF SeenIsCurrent, Live
    <2>1. txn'[u] = txn[u]
      BY DEF LetsGo, Unlocked, Waiting, Locked, Deleting, Restoring
    <2> QED BY <2>1 DEF LetsGo, IInv, Committing, SeenIsCurrent, Live
  <1>3. LapsedAreHeld'
    BY DEF LetsGo, IInv, Committing, LapsedAreHeld, Unlocked
  <1>4. TakingIsSafe'
    <2> SUFFICES ASSUME NEW u \in Slot
                 PROVE  /\ txn'[u].pc \in Taking \cup {"acquire"} => txn'[u].sect \in Target
                        /\ txn'[u].pc \in Taking => txn'[u].claim \in ClaimId
                        /\ txn'[u].pc \notin Taking => txn'[u].claim = None
                        /\ txn'[u].pc = "heartbeat" => claim'[txn'[u].claim] # None
                        /\ txn'[u].pc = "insert" =>
                             /\ claim'[txn'[u].claim] = None
                             /\ \A v \in Slot \ {u} : txn'[v].claim # txn'[u].claim
                             /\ \A c \in ClaimId :
                                  (/\ Unreleased(c)' /\ claim'[c].page = txn'[u].page
                                   /\ TargetsOverlap(claim'[c].sect, txn'[u].sect))
                                      => c \in txn'[u].lapsed
      BY DEF TakingIsSafe
    <2>1. /\ txn[u].pc \in Taking \cup {"acquire"} => txn[u].sect \in Target
          /\ txn[u].pc \in Taking => txn[u].claim \in ClaimId
          /\ txn[u].pc \notin Taking => txn[u].claim = None
          /\ txn[u].pc = "heartbeat" => claim[txn[u].claim] # None
          /\ txn[u].pc = "insert" =>
               /\ claim[txn[u].claim] = None
               /\ \A v \in Slot \ {u} : txn[v].claim # txn[u].claim
               /\ \A c \in ClaimId :
                    (/\ Unreleased(c) /\ claim[c].page = txn[u].page
                     /\ TargetsOverlap(claim[c].sect, txn[u].sect))
                        => c \in txn[u].lapsed
      BY DEF IInv, Committing, TakingIsSafe
    <2>2. CASE Unlocked(txn'[u])
      BY <2>2 DEF Unlocked, Waiting, Taking
    <2>3. CASE txn'[u] = txn[u] /\ txn[u].pc \notin Taking
      BY <2>1, <2>3 DEF Taking
    <2>4. CASE txn'[u] = txn[u] /\ txn[u].pc \in Taking
      <3>1. \A v \in Slot \ {u} : txn[v].claim # txn[u].claim => txn'[v].claim # txn'[u].claim
        BY <2>1, <2>4 DEF LetsGo, Unlocked
      <3>2. claim'[txn'[u].claim] = None <=> claim[txn[u].claim] = None
        BY <2>1, <2>4 DEF LetsGo
      <3> QED BY <2>1, <2>4, <3>1, <3>2 DEF LetsGo
    <2> QED BY <2>2, <2>3, <2>4 DEF LetsGo
  <1>5. Exclusion'
    BY DEF LetsGo, IInv, Exclusion
  <1> QED BY <1>1, <1>2, <1>3, <1>4, <1>5 DEF Committing

(* Steps that change neither a page, a claim nor a note.                   *)
LEMMA RowsUnchanged ==
  ASSUME IInv, UNCHANGED <<page, claim, note>>
  PROVE  (Exclusion /\ LeaseBaseCurrent /\ NotesFollowClaims /\ NoClaimOnDeletedPage)'
  BY DEF IInv, Exclusion, LeaseBaseCurrent, NotesFollowClaims, NoClaimOnDeletedPage,
         Unreleased, Live

LEMMA BeginIInv ==
  ASSUME IInv, NEW t \in Slot, Begin(t)
  PROVE  IInv'
  <1> USE ConstantsAssumption
  <1> DEFINE r == [Idle EXCEPT !.pc = "begun", !.stamp = now]
  <1>1. r \in Request /\ Unlocked(r)
    BY DEF IInv, TypeOK, Idle, Request, Unlocked, Waiting
  <1>2. /\ txn' \in [Slot -> Request]
        /\ txn'[t] = r
        /\ \A u \in Slot \ {t} : txn'[u] = txn[u]
    BY <1>1, SlotTaken DEF Begin, IInv
  <1>3. TypeOK'
    BY <1>2 DEF Begin, IInv, TypeOK
  <1> HIDE DEF r
  <1>4. LetsGo
    <2>1. UNCHANGED <<now, page, claim, note>>
      BY DEF Begin
    <2>2. \A u \in Slot : txn'[u] = txn[u] \/ Unlocked(txn'[u])
      BY <1>1, <1>2
    <2>3. \A u \in Slot : \A c \in txn'[u].lapsed : Unreleased(c)'
      BY <2>1, <2>2 DEF IInv, Committing, LapsedAreHeld, Unreleased, Unlocked
    <2> QED BY <2>1, <2>2, <2>3 DEF LetsGo, Unreleased
  <1> QED BY <1>3, <1>4, LettingGo, RowsUnchanged DEF Begin, IInv

LEMMA TickIInv ==
  ASSUME IInv, Tick
  PROVE  IInv'
  <1>1. TypeOK'
    BY DEF Tick, IInv, TypeOK
  <1>2. LetsGo
    BY DEF Tick, LetsGo, IInv, Committing, LapsedAreHeld, Unreleased
  <1> QED BY <1>1, <1>2, LettingGo, RowsUnchanged DEF Tick, IInv

(* Aborted and refused requests: the slot is freed and nothing is written. *)
LEMMA DropIInv ==
  ASSUME IInv, NEW t \in Slot, Finish(t), UNCHANGED <<now, page, claim, note>>
  PROVE  IInv'
  <1>1. /\ txn' \in [Slot -> Request]
        /\ txn'[t] = Idle
        /\ \A u \in Slot \ {t} : txn'[u] = txn[u]
    BY FinishFrees DEF IInv
  <1>2. TypeOK'
    BY <1>1 DEF IInv, TypeOK
  <1>3. Unlocked(Idle)
    BY DEF Unlocked, Idle, Waiting
  <1>4. LetsGo
    BY <1>1, <1>3 DEF LetsGo, IInv, Committing, LapsedAreHeld, Unreleased, Unlocked
  <1> QED BY <1>2, <1>4, LettingGo, RowsUnchanged DEF IInv

(* Ending unlocked claims and their notes: the sweep and a release.        *)
LEMMA EndingIInv ==
  ASSUME IInv, NEW S \in SUBSET ClaimId, NEW why \in Reason \ {"none"},
         \A c \in S : Unreleased(c) /\ \A u \in Slot : c \notin txn[u].lapsed,
         claim' = EndClaims(S, why), note' = DropNotes(S), UNCHANGED <<now, page, txn>>
  PROVE  IInv'
  <1> USE ConstantsAssumption
  <1>1. \A c \in S : claim[c] # None
    BY DEF Unreleased
  <1>2. /\ claim' \in [ClaimId -> ClaimRow \cup {None}]
        /\ note' \in [ClaimId -> Nat \cup {None}]
        /\ \A c \in S : claim'[c] \in ClaimRow /\ claim'[c].reason = why /\ note'[c] = None
        /\ \A c \in ClaimId \ S : claim'[c] = claim[c] /\ note'[c] = note[c]
    BY <1>1, EndClaimsType DEF IInv
  <1>3. TypeOK'
    BY <1>2 DEF IInv, TypeOK
  <1>4. \A c \in ClaimId : Unreleased(c)' => c \notin S /\ Unreleased(c) /\ claim'[c] = claim[c]
    BY <1>2 DEF Unreleased
  <1>5. LetsGo
    <2>1. \A u \in Slot : \A c \in txn[u].lapsed : Unreleased(c)'
      BY <1>2 DEF IInv, TypeOK, Request, Committing, LapsedAreHeld, Unreleased
    <2> QED BY <1>1, <1>2, <1>4, <2>1 DEF LetsGo
  <1>6. (LeaseBaseCurrent /\ NoClaimOnDeletedPage)'
    BY <1>4 DEF IInv, LeaseBaseCurrent, NoClaimOnDeletedPage, Live
  <1>7. NotesFollowClaims'
    BY <1>2 DEF IInv, NotesFollowClaims, Unreleased
  <1> QED BY <1>3, <1>5, <1>6, <1>7, LettingGo DEF IInv

LEMMA ExpireIInv ==
  ASSUME IInv, ExpireStaleClaims
  PROVE  IInv'
  <1> DEFINE stale == Stale
  <1>1. \A c \in stale : Unreleased(c) /\ \A u \in Slot : c \notin txn[u].lapsed
    BY DEF ExpireStaleClaims, Stale
  <1>2. /\ claim' = EndClaims(stale, "expired") /\ note' = DropNotes(stale)
        /\ UNCHANGED <<now, page, txn>>
    BY DEF ExpireStaleClaims
  <1>3. "expired" \in Reason \ {"none"} /\ stale \in SUBSET ClaimId
    BY DEF Reason, Stale
  <1> QED BY <1>1, <1>2, <1>3, EndingIInv

LEMMA ReleaseIInv ==
  ASSUME IInv, NEW a \in Actor, NEW c \in ClaimId, ReleaseClaim(a, c)
  PROVE  IInv'
  <1> DEFINE why == IF Holds(c, a) THEN "released" ELSE "forced"
  <1>1. \A d \in {c} : Unreleased(d) /\ \A u \in Slot : d \notin txn[u].lapsed
    BY DEF ReleaseClaim
  <1>2. /\ claim' = EndClaims({c}, why) /\ note' = DropNotes({c})
        /\ UNCHANGED <<now, page, txn>>
    BY DEF ReleaseClaim
  <1>3. why \in Reason \ {"none"} /\ {c} \in SUBSET ClaimId
    BY DEF Reason
  <1> HIDE DEF why
  <1> QED BY <1>1, <1>2, <1>3, EndingIInv

(* Pages come back without claims, and only pages no other request has     *)
(* locked.                                                                 *)
LEMMA RestoreIInv ==
  ASSUME IInv, NEW t \in Slot, RestoreCommit(t)
  PROVE  IInv'
  <1> USE ConstantsAssumption
  <1> DEFINE back == txn[t].found
  <1>1. /\ back \subseteq Page /\ txn[t].pc \in Locked
        /\ \A q \in back, u \in Slot \ {t} : txn[u].page # q
    BY DEF RestoreCommit, PageFree, Held, IInv, TypeOK, Request, Locked, Restoring
  <1>2. /\ txn' \in [Slot -> Request]
        /\ txn'[t] = Idle
        /\ \A u \in Slot \ {t} : txn'[u] = txn[u]
    BY FinishFrees DEF RestoreCommit, IInv
  <1>3. \A q \in Page : /\ page'[q] = IF q \in back THEN [page[q] EXCEPT !.deleted = None]
                                                   ELSE page[q]
                        /\ page'[q].hash = page[q].hash
                        /\ Live(q) => Live(q)'
    BY DEF RestoreCommit, IInv, TypeOK, PageRow, Live
  <1>4. page' \in [Page -> PageRow] /\ UNCHANGED <<now, claim, note>>
    BY <1>1 DEF RestoreCommit, IInv, TypeOK, PageRow
  <1> HIDE DEF back
  <1>5. TypeOK'
    BY <1>2, <1>4 DEF IInv, TypeOK
  <1>6. LetsGo
    BY <1>1, <1>2, <1>3, <1>4, IdleUnlocked
       DEF LetsGo, IInv, Committing, LapsedAreHeld, SeenIsCurrent, Unreleased
  <1>7. \A c \in ClaimId : Unreleased(c) => claim[c].page \in Page
    BY DEF IInv, TypeOK, ClaimRow, Unreleased
  <1>8. (LeaseBaseCurrent /\ NotesFollowClaims /\ NoClaimOnDeletedPage)'
    BY <1>3, <1>4, <1>7 DEF IInv, LeaseBaseCurrent, NotesFollowClaims,
                            NoClaimOnDeletedPage, Unreleased, Live
  <1> QED BY <1>5, <1>6, <1>8, LettingGo DEF IInv

(* Pages go with every lease on them, and only pages no other request has  *)
(* locked; so do the counterparts that are unlinked.                       *)
LEMMA DeleteIInv ==
  ASSUME IInv, NEW t \in Slot, DeleteCommit(t)
  PROVE  IInv'
  <1> USE ConstantsAssumption
  <1> DEFINE removed == txn[t].also
             others == Counterparts(removed)
             ended == {c \in ClaimId : Unreleased(c) /\ claim[c].page \in removed}
  <1>1. /\ removed \subseteq Page /\ others \subseteq Page \ removed
        /\ txn[t].stamp \in Nat /\ txn[t].pc \in Locked
    BY DEF DeleteCommit, Counterparts, IInv, TypeOK, Request, Locked, Deleting
  <1>2. /\ \A p \in removed \cup others, u \in Slot \ {t} : txn[u].page # p
        /\ \A c \in ended, u \in Slot \ {t} : c \notin txn[u].lapsed
    <2>1. \A p \in others, u \in Slot \ {t} : p \notin Held(u)
      BY DEF DeleteCommit, PageFree
    <2>2. \A p \in others, u \in Slot \ {t} : txn[u].page # p
      BY <1>1, <2>1 DEF Held
    <2> QED BY <1>1, <2>2, OwnRows DEF DeleteCommit, ClaimFree
  <1>3. /\ txn' \in [Slot -> Request]
        /\ txn'[t] = Idle
        /\ \A u \in Slot \ {t} : txn'[u] = txn[u]
    BY FinishFrees DEF DeleteCommit, IInv
  <1>4. \A p \in Page : page'[p] =
          IF p \in removed THEN [page[p] EXCEPT !.deleted = txn[t].stamp, !.link = None]
          ELSE IF p \in others THEN [page[p] EXCEPT !.link = None] ELSE page[p]
    BY DEF DeleteCommit
  <1>5. /\ page' \in [Page -> PageRow]
        /\ \A p \in Page \ (removed \cup others) : page'[p] = page[p]
        /\ \A p \in Page \ removed : page'[p].deleted = page[p].deleted
        /\ \A p \in Page : page'[p].hash = page[p].hash
    <2>1. DOMAIN page' = Page /\ page' = [p \in Page |-> page'[p]]
      BY DEF DeleteCommit
    <2>2. \A p \in Page : /\ page'[p] \in PageRow /\ page'[p].hash = page[p].hash
                          /\ p \notin removed => page'[p].deleted = page[p].deleted
      <3> SUFFICES ASSUME NEW p \in Page
                   PROVE  /\ page'[p] \in PageRow /\ page'[p].hash = page[p].hash
                          /\ p \notin removed => page'[p].deleted = page[p].deleted
        OBVIOUS
      <3>1. page[p] \in PageRow
        BY DEF IInv, TypeOK
      <3> HIDE DEF removed, others
      <3>2. CASE p \in removed
        <4>1. page'[p] = [page[p] EXCEPT !.deleted = txn[t].stamp, !.link = None]
          BY <1>4, <3>2
        <4> QED BY <1>1, <3>1, <3>2, <4>1 DEF PageRow
      <3>3. CASE p \in others \ removed
        <4>1. page'[p] = [page[p] EXCEPT !.link = None]
          BY <1>4, <3>3
        <4> QED BY <3>1, <3>3, <4>1 DEF PageRow
      <3>4. CASE p \notin others \cup removed
        BY <1>4, <3>1, <3>4
      <3> QED BY <3>2, <3>3, <3>4
    <2> QED BY <1>4, <2>1, <2>2
  <1>6. ended \in SUBSET ClaimId /\ "forced" \in Reason /\ \A c \in ended : claim[c] # None
    BY DEF Reason, Unreleased
  <1>7. claim' = EndClaims(ended, "forced") /\ note' = DropNotes(ended) /\ now' = now
    BY DEF DeleteCommit
  <1> HIDE DEF removed, ended, others
  <1>8. /\ claim' \in [ClaimId -> ClaimRow \cup {None}]
        /\ note' \in [ClaimId -> Nat \cup {None}]
        /\ \A c \in ended : claim'[c] \in ClaimRow /\ claim'[c].reason = "forced" /\ note'[c] = None
        /\ \A c \in ClaimId \ ended : claim'[c] = claim[c] /\ note'[c] = note[c]
    BY <1>6, <1>7, EndClaimsType DEF IInv
  <1>9. TypeOK'
    BY <1>3, <1>5, <1>7, <1>8 DEF IInv, TypeOK
  <1>10. \A c \in ClaimId : Unreleased(c)' =>
          Unreleased(c) /\ claim'[c] = claim[c] /\ claim[c].page \in Page \ removed
    <2> SUFFICES ASSUME NEW c \in ClaimId, Unreleased(c)'
                 PROVE  Unreleased(c) /\ claim'[c] = claim[c] /\ claim[c].page \in Page \ removed
      OBVIOUS
    <2>1. c \notin ended
      BY <1>8 DEF Unreleased
    <2>2. Unreleased(c) /\ claim'[c] = claim[c]
      BY <1>8, <2>1 DEF Unreleased
    <2>3. claim[c].page \in Page
      BY <2>2 DEF IInv, TypeOK, ClaimRow, Unreleased
    <2> QED BY <2>1, <2>2, <2>3 DEF ended
  <1>11. LetsGo
    <2>1. Unlocked(Idle) /\ Idle.lapsed = {} /\ Idle.pc \notin Locked
      BY IdleUnlocked
    <2>2. \A u \in Slot : \A c \in txn'[u].lapsed : Unreleased(c)'
      BY <1>2, <1>3, <1>8, <2>1 DEF IInv, TypeOK, Request, Committing, LapsedAreHeld, Unreleased
    <2>3. \A c \in ClaimId : claim'[c] = None <=> claim[c] = None
      BY <1>6, <1>8
    <2>4. \A u \in Slot : txn'[u].pc \in Locked => page'[txn'[u].page] = page[txn'[u].page]
      BY <1>2, <1>3, <1>5, <2>1 DEF IInv, Committing, SeenIsCurrent
    <2> QED BY <1>3, <1>10, <2>1, <2>2, <2>3, <2>4 DEF LetsGo
  <1>12. (LeaseBaseCurrent /\ NoClaimOnDeletedPage)'
    BY <1>5, <1>10 DEF IInv, LeaseBaseCurrent, NoClaimOnDeletedPage, Live
  <1>13. NotesFollowClaims'
    BY <1>8 DEF IInv, NotesFollowClaims, Unreleased
  <1> QED BY <1>9, <1>11, <1>12, <1>13, LettingGo DEF IInv

(* Extending a claim and its notes together: renewals.                     *)
LEMMA RenewIInv ==
  ASSUME IInv, NEW t \in Slot, NEW a \in Actor, NEW c \in ClaimId, NEW ttl \in Ttl,
         RenewClaim(t, a, c, ttl)
  PROVE  IInv'
  <1> USE ConstantsAssumption
  <1> DEFINE until == txn[t].stamp + ttl
  <1>1. Finish(t) /\ UNCHANGED <<now, page>> /\ claim[c] # None
    BY DEF RenewClaim
  <1>2. CASE UNCHANGED <<claim, note>>
    BY <1>1, <1>2, DropIInv
  <1>3. CASE Extend(c, until)
    <2>1. until \in Nat
      BY DEF IInv, TypeOK, Request
    <2> HIDE DEF until
    <2>2. /\ txn' \in [Slot -> Request]
          /\ txn'[t] = Idle
          /\ \A u \in Slot \ {t} : txn'[u] = txn[u]
      BY <1>1, FinishFrees DEF IInv
    <2>3. /\ claim' \in [ClaimId -> ClaimRow \cup {None}]
          /\ \A d \in ClaimId \ {c} : claim'[d] = claim[d] /\ note'[d] = note[d]
          /\ claim'[c] = [claim[c] EXCEPT !.expires = until] /\ claim'[c] \in ClaimRow
          /\ note' \in [ClaimId -> Nat \cup {None}]
          /\ note'[c] = IF note[c] = None THEN None ELSE until
      BY <1>1, <1>3, <2>1 DEF Extend, IInv, TypeOK, ClaimRow
    <2>4. TypeOK'
      BY <1>1, <2>2, <2>3 DEF IInv, TypeOK
    <2>5. \A d \in ClaimId : /\ claim'[d] = None <=> claim[d] = None
                             /\ claim[d] # None => /\ claim'[d].page = claim[d].page
                                                  /\ claim'[d].sect = claim[d].sect
                                                  /\ claim'[d].base = claim[d].base
                                                  /\ claim'[d].reason = claim[d].reason
      BY <1>1, <2>3 DEF IInv, TypeOK, ClaimRow
    <2>6. LetsGo
      <3>1. Unlocked(Idle) /\ Idle.lapsed = {} /\ Idle.pc \notin Locked
        BY IdleUnlocked
      <3>2. \A u \in Slot : \A d \in txn'[u].lapsed : Unreleased(d)'
        BY <2>2, <2>5, <3>1 DEF IInv, TypeOK, Request, Committing, LapsedAreHeld, Unreleased
      <3> QED BY <1>1, <2>2, <2>5, <3>1, <3>2 DEF LetsGo, Unreleased
    <2>7. (LeaseBaseCurrent /\ NoClaimOnDeletedPage)'
      BY <1>1, <2>5 DEF IInv, LeaseBaseCurrent, NoClaimOnDeletedPage, Unreleased, Live
    <2>8. NotesFollowClaims'
      BY <2>1, <2>3 DEF IInv, NotesFollowClaims, Unreleased, TypeOK, ClaimRow
    <2> QED BY <2>4, <2>6, <2>7, <2>8, LettingGo DEF IInv
  <1> QED BY <1>2, <1>3 DEF RenewClaim

LEMMA PostNoteIInv ==
  ASSUME IInv, NEW t \in Slot, NEW a \in Actor, NEW c \in ClaimId, PostNote(t, a, c)
  PROVE  IInv'
  <1> USE ConstantsAssumption
  <1>1. Finish(t) /\ UNCHANGED <<now, page, claim>> /\ claim[c] # None
    BY DEF PostNote
  <1>2. /\ txn' \in [Slot -> Request]
        /\ txn'[t] = Idle
        /\ \A u \in Slot \ {t} : txn'[u] = txn[u]
    BY <1>1, FinishFrees DEF IInv
  <1>3. /\ note' \in [ClaimId -> Nat \cup {None}]
        /\ \A d \in ClaimId \ {c} : note'[d] = note[d]
        /\ note'[c] = note[c] \/ (Unreleased(c) /\ note'[c] = claim[c].expires)
    <2>1. claim[c].expires \in Nat
      BY <1>1 DEF IInv, TypeOK, ClaimRow
    <2>2. CASE Unreleased(c) /\ Holds(c, a) /\ ~IsExpired(c, txn[t].stamp)
      <3>1. note' = [note EXCEPT ![c] = claim[c].expires]
        BY <2>2 DEF PostNote
      <3> QED BY <2>1, <2>2, <3>1 DEF IInv, TypeOK
    <2>3. CASE ~(Unreleased(c) /\ Holds(c, a) /\ ~IsExpired(c, txn[t].stamp))
      <3>1. note' = [note EXCEPT ![c] = note[c]]
        BY <2>3 DEF PostNote
      <3> QED BY <3>1 DEF IInv, TypeOK
    <2> QED BY <2>2, <2>3
  <1>4. TypeOK'
    BY <1>1, <1>2, <1>3 DEF IInv, TypeOK
  <1>5. LetsGo
    <2>1. Unlocked(Idle) /\ Idle.lapsed = {} /\ Idle.pc \notin Locked
      BY IdleUnlocked
    <2> QED BY <1>1, <1>2, <2>1 DEF LetsGo, IInv, Committing, LapsedAreHeld, Unreleased
  <1>6. NotesFollowClaims'
    BY <1>1, <1>3 DEF IInv, NotesFollowClaims, Unreleased
  <1>7. (LeaseBaseCurrent /\ NoClaimOnDeletedPage)'
    BY <1>1 DEF IInv, LeaseBaseCurrent, NoClaimOnDeletedPage, Unreleased, Live
  <1> QED BY <1>4, <1>5, <1>6, <1>7, LettingGo DEF IInv

(* A write moves its own lease along with the page, and by Exclusion no    *)
(* other claim of the whole page is left behind.                           *)
LEMMA WriteIInv ==
  ASSUME IInv, NEW t \in Slot, NEW c \in ClaimId, NEW base \in Hash, NEW hash \in Hash,
         WritePage(t, c, base, hash)
  PROVE  IInv'
  <1> USE ConstantsAssumption
  <1> DEFINE p == txn[t].page
  <1>1. /\ p \in Page /\ txn[t].seen = page[p] /\ Live(p)
        /\ \A u \in Slot \ {t} : txn[u].page # p
    <2>1. txn[t].pc \in Locked \ Restoring
      BY DEF WritePage, Locked, Restoring
    <2> QED BY <2>1, StillHeld, OwnRows
  <1>2. Unreleased(c) /\ claim[c].page = p
    BY DEF WritePage, MayWrite
  <1> HIDE DEF p
  <1>3. /\ txn' \in [Slot -> Request]
        /\ txn'[t] = Idle
        /\ \A u \in Slot \ {t} : txn'[u] = txn[u]
    BY FinishFrees DEF WritePage, IInv
  <1>4. /\ page' \in [Page -> PageRow]
        /\ \A q \in Page \ {p} : page'[q] = page[q]
        /\ page'[p].hash = hash /\ page'[p].deleted = page[p].deleted
    BY <1>1 DEF WritePage, IInv, TypeOK, PageRow, p
  <1>5. /\ claim' \in [ClaimId -> ClaimRow \cup {None}]
        /\ \A d \in ClaimId \ {c} : claim'[d] = claim[d]
        /\ claim'[c] = [claim[c] EXCEPT !.base = hash] /\ claim'[c] \in ClaimRow
        /\ claim[c] \in ClaimRow
    BY <1>2 DEF WritePage, IInv, TypeOK, ClaimRow, Unreleased
  <1>6. \A d \in ClaimId : /\ claim'[d] = None <=> claim[d] = None
                           /\ claim[d] # None => /\ claim'[d].page = claim[d].page
                                                /\ claim'[d].sect = claim[d].sect
                                                /\ claim'[d].expires = claim[d].expires
                                                /\ claim'[d].reason = claim[d].reason
    BY <1>5 DEF ClaimRow
  <1>7. now' = now /\ note' = note
    BY DEF WritePage
  <1>8. TypeOK'
    BY <1>3, <1>4, <1>5, <1>7 DEF IInv, TypeOK
  <1>9. LetsGo
    <2>1. Unlocked(Idle) /\ Idle.lapsed = {} /\ Idle.pc \notin Locked
      BY IdleUnlocked
    <2>2. \A u \in Slot : \A d \in txn'[u].lapsed : Unreleased(d)'
      BY <1>3, <1>6, <2>1 DEF IInv, TypeOK, Request, Committing, LapsedAreHeld, Unreleased
    <2>3. \A u \in Slot : txn'[u].pc \in Locked => page'[txn'[u].page] = page[txn'[u].page]
      BY <1>1, <1>3, <1>4, <2>1 DEF IInv, Committing, SeenIsCurrent
    <2> QED BY <1>3, <1>6, <2>1, <2>2, <2>3 DEF LetsGo, Unreleased
  <1>10. LeaseBaseCurrent'
    <2> SUFFICES ASSUME NEW d \in ClaimId, Unreleased(d)', claim'[d].sect = Whole
                 PROVE  claim'[d].base = page'[claim'[d].page].hash
      BY DEF LeaseBaseCurrent
    <2>1. Unreleased(d) /\ claim'[d].page = claim[d].page /\ claim[d].sect = Whole
          /\ claim[d].page \in Page
      BY <1>6 DEF Unreleased, IInv, TypeOK, ClaimRow
    <2>2. CASE d = c
      BY <1>2, <1>4, <1>5, <2>1, <2>2 DEF ClaimRow
    <2>3. CASE d # c
      <3>1. claim[d].page # p
        BY <1>2, <2>1, <2>3 DEF IInv, Exclusion, TargetsOverlap
      <3> QED BY <1>4, <1>5, <2>1, <2>3, <3>1 DEF IInv, LeaseBaseCurrent
    <2> QED BY <2>2, <2>3
  <1>11. NotesFollowClaims'
    BY <1>6, <1>7 DEF IInv, NotesFollowClaims, Unreleased
  <1>12. NoClaimOnDeletedPage'
    BY <1>4, <1>6 DEF IInv, NoClaimOnDeletedPage, Unreleased, Live, TypeOK, ClaimRow
  <1> QED BY <1>8, <1>9, <1>10, <1>11, <1>12, LettingGo DEF IInv

----------------------------------------------------------------------------
(* The commit of a re-claim extends one claim and expires others.          *)
LEMMA HeartbeatIInv ==
  ASSUME IInv, NEW t \in Slot, NEW ttl \in Ttl, AcquireHeartbeat(t, ttl)
  PROVE  IInv'
  <1> USE ConstantsAssumption
  <1> DEFINE L == txn[t].lapsed
             h == txn[t].claim
             until == txn[t].stamp + ttl
  <1>1. /\ L \in SUBSET ClaimId /\ h \in ClaimId /\ claim[h] # None /\ until \in Nat
        /\ \A c \in L : claim[c] # None
        /\ \A u \in Slot \ {t} : L \cap txn[u].lapsed = {} /\ h \notin txn[u].lapsed
    BY DEF AcquireHeartbeat, IInv, TypeOK, Request, Committing, TakingIsSafe, LapsedAreHeld,
           Taking, Unreleased, ClaimFree
  <1>2. /\ claim' = [EndClaims(L, "expired") EXCEPT ![h].expires = until]
        /\ note' = [DropNotes(L) EXCEPT ![h] = IF DropNotes(L)[h] = None THEN None ELSE until]
        /\ Finish(t) /\ now' = now /\ page' = page
    BY DEF AcquireHeartbeat
  <1> HIDE DEF L, h, until
  <1>3. /\ txn' \in [Slot -> Request]
        /\ txn'[t] = Idle
        /\ \A u \in Slot \ {t} : txn'[u] = txn[u]
    BY <1>2, FinishFrees DEF IInv
  <1> DEFINE E == EndClaims(L, "expired")
             D == DropNotes(L)
  <1>4. /\ E \in [ClaimId -> ClaimRow \cup {None}]
        /\ D \in [ClaimId -> Nat \cup {None}]
        /\ \A c \in L : E[c] \in ClaimRow /\ E[c].reason = "expired" /\ D[c] = None
        /\ \A c \in ClaimId \ L : E[c] = claim[c] /\ D[c] = note[c]
    BY <1>1, EndClaimsType DEF IInv, Reason
  <1>5. /\ claim' = [E EXCEPT ![h].expires = until]
        /\ note' = [D EXCEPT ![h] = IF D[h] = None THEN None ELSE until]
    BY <1>2
  <1> HIDE DEF E, D
  <1>6. E[h] \in ClaimRow
    BY <1>1, <1>4 DEF IInv, TypeOK
  <1>7. /\ claim' \in [ClaimId -> ClaimRow \cup {None}]
        /\ \A c \in ClaimId \ {h} : claim'[c] = E[c] /\ note'[c] = D[c]
        /\ claim'[h] = [E[h] EXCEPT !.expires = until] /\ claim'[h] \in ClaimRow
        /\ note' \in [ClaimId -> Nat \cup {None}]
        /\ note'[h] = IF D[h] = None THEN None ELSE until
    BY <1>1, <1>4, <1>5, <1>6 DEF ClaimRow
  <1>8. TypeOK'
    BY <1>2, <1>3, <1>7 DEF IInv, TypeOK
  <1>9. \A c \in ClaimId : Unreleased(c)' =>
          /\ c \notin L /\ Unreleased(c)
          /\ claim'[c].page = claim[c].page /\ claim'[c].sect = claim[c].sect
          /\ claim'[c].base = claim[c].base
    BY <1>4, <1>6, <1>7 DEF Unreleased, ClaimRow
  <1>10. LetsGo
    <2>1. Unlocked(Idle) /\ Idle.lapsed = {} /\ Idle.pc \notin Locked
      BY IdleUnlocked
    <2>2. \A u \in Slot : \A c \in txn'[u].lapsed : Unreleased(c)'
      <3> SUFFICES ASSUME NEW u \in Slot, NEW c \in txn'[u].lapsed
                   PROVE  Unreleased(c)'
        OBVIOUS
      <3>1. u # t /\ txn'[u] = txn[u]
        BY <1>3, <2>1
      <3>2. c \in ClaimId \ (L \cup {h}) /\ Unreleased(c)
        BY <1>1, <3>1 DEF IInv, TypeOK, Request, Committing, LapsedAreHeld
      <3> QED BY <1>4, <1>7, <3>2 DEF Unreleased
    <2>3. \A c \in ClaimId : claim'[c] = None <=> claim[c] = None
      BY <1>1, <1>4, <1>7
    <2> QED BY <1>2, <1>3, <1>9, <2>1, <2>2, <2>3 DEF LetsGo
  <1>11. (LeaseBaseCurrent /\ NoClaimOnDeletedPage)'
    BY <1>2, <1>9 DEF IInv, LeaseBaseCurrent, NoClaimOnDeletedPage, Live
  <1>12. NotesFollowClaims'
    <2> SUFFICES ASSUME NEW c \in ClaimId, note'[c] # None
                 PROVE  Unreleased(c)' /\ note'[c] = claim'[c].expires
      BY DEF NotesFollowClaims
    <2>1. c \notin L /\ D[c] = note[c] /\ note[c] # None /\ E[c] = claim[c]
      BY <1>4, <1>7
    <2>2. Unreleased(c) /\ note[c] = claim[c].expires
      BY <2>1 DEF IInv, NotesFollowClaims
    <2> QED BY <1>1, <1>6, <1>7, <2>1, <2>2 DEF Unreleased, ClaimRow
  <1> QED BY <1>8, <1>10, <1>11, <1>12, LettingGo DEF IInv

(* The commit of a new claim: nothing overlaps it any more, its base is    *)
(* the page as it is, and the page is live.                                *)
LEMMA InsertIInv ==
  ASSUME IInv, NEW t \in Slot, NEW ttl \in Ttl, AcquireInsert(t, ttl)
  PROVE  IInv'
  <1> USE ConstantsAssumption
  <1> DEFINE r == txn[t]
             L == r.lapsed
             n == r.claim
             row == [page |-> r.page, sect |-> r.sect, holder |-> r.who, base |-> r.seen.hash,
                     expires |-> r.stamp + ttl, reason |-> "none"]
  <1>1. /\ r \in Request /\ L \in SUBSET ClaimId /\ n \in ClaimId /\ claim[n] = None
        /\ \A c \in L : Unreleased(c)
        /\ \A u \in Slot \ {t} : L \cap txn[u].lapsed = {} /\ txn[u].claim # n
        /\ \A c \in ClaimId : (/\ Unreleased(c) /\ claim[c].page = r.page
                               /\ TargetsOverlap(claim[c].sect, r.sect)) => c \in L
        /\ r.page \in Page /\ r.sect \in Target /\ r.who \in Actor
        /\ r.seen = page[r.page] /\ Live(r.page)
        /\ \A u \in Slot \ {t} : txn[u].page # r.page
    <2>1. r.pc = "insert" /\ r \in Request
      BY DEF AcquireInsert, IInv, TypeOK
    <2>2. r.page \in Page /\ r.seen = page[r.page] /\ r.who \in Actor /\ Live(r.page)
      BY <2>1 DEF IInv, Committing, SeenIsCurrent, Locked, Restoring
    <2>3. \A u \in Slot \ {t} : txn[u].page # r.page
      BY <2>1, <2>2, OwnRows DEF Locked
    <2> QED BY <2>1, <2>2, <2>3 DEF IInv, Request, Committing, TakingIsSafe, LapsedAreHeld,
                                    Taking
  <1>2. /\ claim' = [EndClaims(L, "expired") EXCEPT ![n] = row]
        /\ note' = DropNotes(L)
        /\ Finish(t) /\ now' = now /\ page' = page
    BY DEF AcquireInsert
  <1>3. /\ row \in ClaimRow /\ row # None /\ row.page = r.page /\ row.sect = r.sect
        /\ row.base = page[r.page].hash /\ row.reason = "none"
    BY <1>1 DEF IInv, TypeOK, Request, ClaimRow, PageRow, Reason
  <1> HIDE DEF row, L, n
  <1>4. /\ txn' \in [Slot -> Request]
        /\ txn'[t] = Idle
        /\ \A u \in Slot \ {t} : txn'[u] = txn[u]
    BY <1>2, FinishFrees DEF IInv
  <1>5. \A c \in L : claim[c] # None
    BY <1>1 DEF Unreleased
  <1>6. /\ n \notin L
        /\ claim' \in [ClaimId -> ClaimRow \cup {None}]
        /\ note' \in [ClaimId -> Nat \cup {None}]
        /\ claim'[n] = row
        /\ \A c \in L : claim'[c] \in ClaimRow /\ claim'[c].reason = "expired" /\ note'[c] = None
        /\ \A c \in ClaimId \ (L \cup {n}) : claim'[c] = claim[c]
        /\ \A c \in ClaimId \ L : note'[c] = note[c]
    BY <1>1, <1>2, <1>3, <1>5, EndClaimsType DEF IInv, Reason
  <1>7. TypeOK'
    BY <1>2, <1>4, <1>6 DEF IInv, TypeOK
  <1>8. \A c \in ClaimId \ {n} : Unreleased(c)' => Unreleased(c) /\ c \notin L /\ claim'[c] = claim[c]
    BY <1>6 DEF Unreleased
  <1>9. Unlocked(Idle) /\ Idle.lapsed = {} /\ Idle.pc \notin Locked /\ Idle.pc \notin Taking
        /\ Idle.page = None /\ Idle.claim = None
    BY IdleUnlocked DEF Unlocked, Idle, Taking
  <1> HIDE DEF r
  <1>10. LocksExclusive'
    BY <1>4, <1>9 DEF IInv, Committing, LocksExclusive, Held, Unlocked
  <1>11. SeenIsCurrent'
    BY <1>2, <1>4, <1>9 DEF IInv, Committing, SeenIsCurrent, Live
  <1>12. LapsedAreHeld'
    <2>1. \A u \in Slot : \A c \in txn'[u].lapsed : Unreleased(c)'
      <3> SUFFICES ASSUME NEW u \in Slot, NEW c \in txn'[u].lapsed
                   PROVE  Unreleased(c)'
        OBVIOUS
      <3>1. u # t /\ txn'[u] = txn[u]
        BY <1>4, <1>9
      <3>2. c \in ClaimId \ (L \cup {n}) /\ Unreleased(c)
        BY <1>1, <3>1 DEF IInv, TypeOK, Request, Committing, LapsedAreHeld, Unreleased
      <3> QED BY <1>6, <3>2 DEF Unreleased
    <2> QED BY <1>4, <1>9, <2>1 DEF IInv, Committing, LapsedAreHeld
  <1>13. TakingIsSafe'
    <2> SUFFICES ASSUME NEW u \in Slot
                 PROVE  /\ txn'[u].pc \in Taking \cup {"acquire"} => txn'[u].sect \in Target
                        /\ txn'[u].pc \in Taking => txn'[u].claim \in ClaimId
                        /\ txn'[u].pc \notin Taking => txn'[u].claim = None
                        /\ txn'[u].pc = "heartbeat" => claim'[txn'[u].claim] # None
                        /\ txn'[u].pc = "insert" =>
                             /\ claim'[txn'[u].claim] = None
                             /\ \A v \in Slot \ {u} : txn'[v].claim # txn'[u].claim
                             /\ \A c \in ClaimId :
                                  (/\ Unreleased(c)' /\ claim'[c].page = txn'[u].page
                                   /\ TargetsOverlap(claim'[c].sect, txn'[u].sect))
                                      => c \in txn'[u].lapsed
      BY DEF TakingIsSafe
    <2>1. CASE u = t
      BY <1>4, <1>9, <2>1 DEF Taking, Waiting, Unlocked
    <2>2. CASE u # t
      <3>1. txn'[u] = txn[u]
        BY <1>4, <2>2
      <3>2. /\ txn[u].pc \in Taking \cup {"acquire"} => txn[u].sect \in Target
            /\ txn[u].pc \in Taking => txn[u].claim \in ClaimId
            /\ txn[u].pc \notin Taking => txn[u].claim = None
            /\ txn[u].pc = "heartbeat" => claim[txn[u].claim] # None
            /\ txn[u].pc = "insert" =>
                 /\ claim[txn[u].claim] = None
                 /\ \A v \in Slot \ {u} : txn[v].claim # txn[u].claim
                 /\ \A c \in ClaimId :
                      (/\ Unreleased(c) /\ claim[c].page = txn[u].page
                       /\ TargetsOverlap(claim[c].sect, txn[u].sect))
                          => c \in txn[u].lapsed
        BY DEF IInv, Committing, TakingIsSafe
      <3>3. txn[u].claim # n /\ txn[u].page # r.page
        BY <1>1, <2>2
      <3>4. txn[u].pc = "heartbeat" => claim'[txn[u].claim] # None
        BY <1>6, <3>2, <3>3 DEF Taking
      <3>5. ASSUME txn[u].pc = "insert" PROVE claim'[txn[u].claim] = None
        BY <1>5, <1>6, <3>2, <3>3, <3>5 DEF Taking
      <3>6. ASSUME txn[u].pc = "insert", NEW v \in Slot \ {u}
            PROVE  txn'[v].claim # txn[u].claim
        BY <1>4, <1>9, <3>2, <3>6 DEF Taking
      <3>7. ASSUME txn[u].pc = "insert", NEW c \in ClaimId, Unreleased(c)',
                   claim'[c].page = txn[u].page, TargetsOverlap(claim'[c].sect, txn[u].sect)
            PROVE  c \in txn[u].lapsed
        <4>1. c # n
          BY <1>3, <1>6, <3>3, <3>7
        <4> QED BY <1>8, <3>2, <3>7, <4>1
      <3> QED BY <3>1, <3>2, <3>4, <3>5, <3>6, <3>7
    <2> QED BY <2>1, <2>2
  <1>14. Exclusion'
    <2>1. ASSUME NEW c \in ClaimId, c # n, Unreleased(c)', claim'[c].page = r.page
          PROVE  ~TargetsOverlap(claim'[c].sect, r.sect)
      BY <1>1, <1>8, <2>1
    <2> SUFFICES ASSUME NEW c \in ClaimId, NEW d \in ClaimId, c # d, Unreleased(c)',
                        Unreleased(d)', claim'[c].page = claim'[d].page
                 PROVE  ~TargetsOverlap(claim'[c].sect, claim'[d].sect)
      BY DEF Exclusion
    <2>2. CASE c = n
      BY <1>3, <1>6, <2>1, <2>2 DEF TargetsOverlap
    <2>3. CASE d = n
      BY <1>3, <1>6, <2>1, <2>3 DEF TargetsOverlap
    <2>4. CASE c # n /\ d # n
      BY <1>8, <2>4 DEF IInv, Exclusion
    <2> QED BY <2>2, <2>3, <2>4
  <1>15. (LeaseBaseCurrent /\ NoClaimOnDeletedPage)'
    BY <1>1, <1>2, <1>3, <1>6, <1>8 DEF IInv, LeaseBaseCurrent, NoClaimOnDeletedPage, Live
  <1>16. NotesFollowClaims'
    BY <1>1, <1>6 DEF IInv, NotesFollowClaims, Unreleased
  <1> QED BY <1>7, <1>10, <1>11, <1>12, <1>13, <1>14, <1>15, <1>16 DEF IInv, Committing

(* A request takes row locks, or goes on under those it has, and records   *)
(* what it read under them.                                                *)
LEMMA LockIInv ==
  ASSUME IInv, NEW t \in Slot, NEW r \in Request, txn' = [txn EXCEPT ![t] = r],
         UNCHANGED <<now, page, claim, note>>,
         r.pc \in Locked, r.page \in Page, r.seen = page[r.page],
         r.pc \notin Restoring => r.who \in Actor /\ Live(r.page),
         PageFree(t, r.page), \A q \in r.also : PageFree(t, q),
         \A c \in r.lapsed : Unreleased(c) /\ ClaimFree(t, c),
         r.pc \notin Taking => r.claim = None,
         r.pc \in Taking \cup {"acquire"} => r.sect \in Target,
         r.pc \in Taking => r.claim \in ClaimId,
         r.pc = "heartbeat" => claim[r.claim] # None,
         r.pc = "insert" =>
           /\ claim[r.claim] = None
           /\ \A u \in Slot : txn[u].claim # r.claim
           /\ \A c \in ClaimId :
                (/\ Unreleased(c) /\ claim[c].page = r.page
                 /\ TargetsOverlap(claim[c].sect, r.sect)) => c \in r.lapsed
  PROVE  IInv'
  <1> USE ConstantsAssumption
  <1>1. /\ txn' \in [Slot -> Request]
        /\ txn'[t] = r
        /\ \A u \in Slot \ {t} : txn'[u] = txn[u]
    BY SlotTaken DEF IInv
  <1>2. TypeOK'
    BY <1>1 DEF IInv, TypeOK
  <1>3. LocksExclusive'
    <2>1. \A u \in Slot \ {t} : Held(u)' = Held(u)
      BY <1>1 DEF Held
    <2>2. \A u \in Slot \ {t} : Held(t)' \cap Held(u) = {}
      BY <1>1 DEF Held, PageFree
    <2> QED BY <2>1, <2>2 DEF IInv, Committing, LocksExclusive
  <1>4. SeenIsCurrent'
    BY <1>1 DEF IInv, Committing, SeenIsCurrent, Live
  <1>5. LapsedAreHeld'
    BY <1>1 DEF IInv, Committing, LapsedAreHeld, Unreleased, ClaimFree
  <1>6. TakingIsSafe'
    <2> SUFFICES ASSUME NEW u \in Slot
                 PROVE  /\ txn'[u].pc \in Taking \cup {"acquire"} => txn'[u].sect \in Target
                        /\ txn'[u].pc \in Taking => txn'[u].claim \in ClaimId
                        /\ txn'[u].pc \notin Taking => txn'[u].claim = None
                        /\ txn'[u].pc = "heartbeat" => claim[txn'[u].claim] # None
                        /\ txn'[u].pc = "insert" =>
                             /\ claim[txn'[u].claim] = None
                             /\ \A v \in Slot \ {u} : txn'[v].claim # txn'[u].claim
                             /\ \A c \in ClaimId :
                                  (/\ Unreleased(c) /\ claim[c].page = txn'[u].page
                                   /\ TargetsOverlap(claim[c].sect, txn'[u].sect))
                                      => c \in txn'[u].lapsed
      BY DEF TakingIsSafe, Unreleased
    <2>1. CASE u = t
      BY <1>1, <2>1
    <2>2. CASE u # t
      <3>1. txn'[u] = txn[u]
        BY <1>1, <2>2
      <3>2. /\ txn[u].pc \in Taking \cup {"acquire"} => txn[u].sect \in Target
            /\ txn[u].pc \in Taking => txn[u].claim \in ClaimId
            /\ txn[u].pc \notin Taking => txn[u].claim = None
            /\ txn[u].pc = "heartbeat" => claim[txn[u].claim] # None
            /\ txn[u].pc = "insert" =>
                 /\ claim[txn[u].claim] = None
                 /\ \A v \in Slot \ {u} : txn[v].claim # txn[u].claim
                 /\ \A c \in ClaimId :
                      (/\ Unreleased(c) /\ claim[c].page = txn[u].page
                       /\ TargetsOverlap(claim[c].sect, txn[u].sect))
                          => c \in txn[u].lapsed
        BY DEF IInv, Committing, TakingIsSafe
      <3>3. txn[u].pc = "insert" => r.claim # txn[u].claim
        BY <3>2 DEF Taking
      <3> QED BY <1>1, <3>1, <3>2, <3>3
    <2> QED BY <2>1, <2>2
  <1> QED BY <1>2, <1>3, <1>4, <1>5, <1>6, RowsUnchanged DEF IInv, Committing

(* A request that locks its first page row.                                *)
LEMMA FirstLockIInv ==
  ASSUME IInv, NEW t \in Slot, NEW r \in Request, txn' = [txn EXCEPT ![t] = r],
         UNCHANGED <<now, page, claim, note>>,
         r.pc \in Locked \ Taking, r.page \in Page, r.seen = page[r.page],
         r.pc \notin Restoring => r.who \in Actor /\ Live(r.page),
         PageFree(t, r.page), r.also = {}, r.lapsed = {}, r.claim = None,
         r.pc = "acquire" => r.sect \in Target
  PROVE  IInv'
  <1>1. r.pc # "heartbeat" /\ r.pc # "insert"
    BY DEF Taking
  <1> QED BY <1>1, LockIInv

LEMMA WriteLockIInv ==
  ASSUME IInv, NEW t \in Slot, NEW a \in Actor, NEW p \in Page, WriteLock(t, a, p)
  PROVE  IInv'
  <1> USE ConstantsAssumption
  <1> DEFINE r == [Idle EXCEPT !.pc = "write", !.stamp = now,
                               !.who = a, !.page = p, !.seen = page[p]]
  <1>1. r \in Request
    BY DEF IInv, TypeOK, Idle, Request
  <1>2. /\ r.pc = "write" /\ r.who = a /\ r.page = p /\ r.seen = page[p]
        /\ r.also = {} /\ r.lapsed = {} /\ r.claim = None
    BY DEF Idle
  <1>3. /\ txn' = [txn EXCEPT ![t] = r] /\ UNCHANGED <<now, page, claim, note>>
        /\ PageFree(t, p) /\ Live(p)
    BY DEF WriteLock
  <1> HIDE DEF r
  <1>4. r.pc \in Locked \ Taking /\ r.pc # "acquire"
    BY <1>2 DEF Locked, Taking
  <1> QED BY <1>1, <1>2, <1>3, <1>4, FirstLockIInv

LEMMA DeleteLockIInv ==
  ASSUME IInv, NEW t \in Slot, NEW a \in Actor, NEW p \in Page, DeleteLock(t, a, p)
  PROVE  IInv'
  <1> USE ConstantsAssumption
  <1> DEFINE R(pc) == [Idle EXCEPT !.pc = pc, !.stamp = now, !.who = a,
                                   !.page = p, !.seen = page[p]]
  <1>1. PICK pc \in {"delete", "override"} : txn' = [txn EXCEPT ![t] = R(pc)]
    BY DEF DeleteLock
  <1> DEFINE r == R(pc)
  <1>2. r \in Request
    BY DEF IInv, TypeOK, Idle, Request
  <1>3. /\ r.pc \in {"delete", "override"} /\ r.who = a /\ r.page = p /\ r.seen = page[p]
        /\ r.also = {} /\ r.lapsed = {} /\ r.claim = None
    BY DEF Idle
  <1>4. /\ txn' = [txn EXCEPT ![t] = r] /\ UNCHANGED <<now, page, claim, note>>
        /\ PageFree(t, p) /\ Live(p)
    BY <1>1 DEF DeleteLock
  <1> HIDE DEF r
  <1>5. r.pc \in Locked \ Taking /\ r.pc # "acquire"
    BY <1>3 DEF Locked, Taking, Deleting
  <1> QED BY <1>2, <1>3, <1>4, <1>5, FirstLockIInv

LEMMA RestoreLockIInv ==
  ASSUME IInv, NEW t \in Slot, NEW p \in Page, RestoreLock(t, p)
  PROVE  IInv'
  <1> USE ConstantsAssumption
  <1> DEFINE r == [Idle EXCEPT !.pc = "restore", !.stamp = now, !.page = p, !.seen = page[p]]
  <1>1. r \in Request
    BY DEF IInv, TypeOK, Idle, Request
  <1>2. /\ r.pc = "restore" /\ r.page = p /\ r.seen = page[p]
        /\ r.also = {} /\ r.lapsed = {} /\ r.claim = None
    BY DEF Idle
  <1>3. /\ txn' = [txn EXCEPT ![t] = r] /\ UNCHANGED <<now, page, claim, note>>
        /\ PageFree(t, p)
    BY DEF RestoreLock
  <1> HIDE DEF r
  <1>4. r.pc \in Locked \ Taking /\ r.pc # "acquire" /\ r.pc \in Restoring
    BY <1>2 DEF Locked, Taking, Restoring
  <1> QED BY <1>1, <1>2, <1>3, <1>4, FirstLockIInv

LEMMA AcquireLockIInv ==
  ASSUME IInv, NEW t \in Slot, NEW a \in Actor, NEW p \in Page, NEW s \in Target,
         AcquireLock(t, a, p, s)
  PROVE  IInv'
  <1> USE ConstantsAssumption
  <1> DEFINE r == [Idle EXCEPT !.pc = "acquire", !.stamp = txn[t].stamp, !.who = a,
                               !.page = p, !.sect = s, !.seen = page[p]]
  <1>1. CASE Finish(t)
    BY <1>1, DropIInv DEF AcquireLock
  <1>2. CASE Live(p) /\ txn' = [txn EXCEPT ![t] = r]
    <2>1. r \in Request
      BY DEF IInv, TypeOK, Idle, Request
    <2>2. /\ r.pc = "acquire" /\ r.who = a /\ r.page = p /\ r.sect = s /\ r.seen = page[p]
          /\ r.also = {} /\ r.lapsed = {} /\ r.claim = None
      BY DEF Idle
    <2>3. /\ txn' = [txn EXCEPT ![t] = r] /\ UNCHANGED <<now, page, claim, note>>
          /\ PageFree(t, p) /\ Live(p)
      BY <1>2 DEF AcquireLock
    <2> HIDE DEF r
    <2>4. r.pc \in Locked \ Taking
      BY <2>2 DEF Locked, Taking
    <2> QED BY <2>1, <2>2, <2>3, <2>4, FirstLockIInv
  <1> QED BY <1>1, <1>2 DEF AcquireLock

(* Under the page's lock an acquire decides on what nobody else can change *)
(* any more: the claims of the page.                                       *)
LEMMA AcquireExpireIInv ==
  ASSUME IInv, NEW t \in Slot, AcquireExpire(t)
  PROVE  IInv'
  <1> USE ConstantsAssumption
  <1> DEFINE q == txn[t]
             L == LapsedOn(q.page, q.stamp)
             rivals == {c \in ClaimId \ L : Unreleased(c) /\ claim[c].page = q.page
                                             /\ TargetsOverlap(claim[c].sect, q.sect)}
             R(pc, c) == [q EXCEPT !.pc = pc, !.claim = c, !.lapsed = L]
  <1>1. /\ q.pc = "acquire" /\ (\A c \in L : ClaimFree(t, c))
        /\ UNCHANGED <<now, page, claim, note>>
    BY DEF AcquireExpire
  <1>2. L \subseteq ClaimId /\ (\A c \in L : Unreleased(c))
    BY DEF LapsedOn
  <1>3. /\ q \in Request /\ q.page \in Page /\ q.seen = page[q.page] /\ q.sect \in Target
        /\ q.who \in Actor /\ Live(q.page)
        /\ PageFree(t, q.page) /\ \A p \in q.also : PageFree(t, p)
    <2>1. q.pc \in Locked /\ q.pc \notin Restoring
      BY <1>1 DEF Locked, Restoring
    <2> QED BY <1>1, <2>1, StillHeld
  <1>4. \A pc \in Taking, c \in ClaimId :
          /\ R(pc, c) \in Request /\ R(pc, c).pc = pc /\ R(pc, c).claim = c
          /\ R(pc, c).lapsed = L /\ R(pc, c).page = q.page /\ R(pc, c).sect = q.sect
          /\ R(pc, c).who = q.who /\ R(pc, c).seen = q.seen /\ R(pc, c).also = q.also
    BY <1>2, <1>3 DEF Request, Taking
  <1>5. CASE Finish(t)
    BY <1>1, <1>5, DropIInv
  <1>6. ASSUME rivals = {}, NEW c \in Unused, txn' = [txn EXCEPT ![t] = R("insert", c)]
        PROVE  IInv'
    <2> DEFINE r == R("insert", c)
    <2>1. c \in ClaimId /\ claim[c] = None /\ \A u \in Slot : txn[u].claim # c
      BY DEF Unused
    <2>2. /\ r \in Request /\ r.pc = "insert" /\ r.who = q.who /\ r.page = q.page
          /\ r.seen = page[q.page] /\ r.lapsed = L /\ r.claim = c /\ r.sect = q.sect
          /\ r.also = q.also
      BY <1>3, <1>4, <2>1 DEF Taking
    <2>3. \A d \in ClaimId : (/\ Unreleased(d) /\ claim[d].page = q.page
                              /\ TargetsOverlap(claim[d].sect, q.sect)) => d \in L
      BY <1>6
    <2>4. txn' = [txn EXCEPT ![t] = r]
      BY <1>6
    <2> HIDE DEF r, L, rivals, q, R
    <2>5. r.pc \in Locked /\ r.pc \in Taking
      BY <2>2 DEF Locked, Taking
    <2> QED BY <1>1, <1>2, <1>3, <2>1, <2>2, <2>3, <2>4, <2>5, LockIInv
  <1>7. ASSUME NEW c \in rivals, txn' = [txn EXCEPT ![t] = R("heartbeat", c)]
        PROVE  IInv'
    <2> DEFINE r == R("heartbeat", c)
    <2>1. c \in ClaimId /\ claim[c] # None
      BY DEF Unreleased
    <2>2. /\ r \in Request /\ r.pc = "heartbeat" /\ r.who = q.who /\ r.page = q.page
          /\ r.seen = page[q.page] /\ r.lapsed = L /\ r.claim = c /\ r.sect = q.sect
          /\ r.also = q.also
      BY <1>3, <1>4, <2>1 DEF Taking
    <2>3. txn' = [txn EXCEPT ![t] = r]
      BY <1>7
    <2> HIDE DEF r, L, rivals, q, R
    <2>4. r.pc \in Locked /\ r.pc \in Taking
      BY <2>2 DEF Locked, Taking
    <2> QED BY <1>1, <1>2, <1>3, <2>1, <2>2, <2>3, <2>4, LockIInv
  <1>8. \/ Finish(t)
        \/ rivals = {} /\ \E c \in Unused : txn' = [txn EXCEPT ![t] = R("insert", c)]
        \/ \E c \in rivals : txn' = [txn EXCEPT ![t] = R("heartbeat", c)]
    BY DEF AcquireExpire
  <1> QED BY <1>5, <1>6, <1>7, <1>8

(* A delete locks the rows below its root.                                 *)
LEMMA DeletePagesIInv ==
  ASSUME IInv, NEW t \in Slot, DeletePages(t)
  PROVE  IInv'
  <1> USE ConstantsAssumption
  <1> DEFINE q == txn[t]
             r == [q EXCEPT !.also = Removed(q.page)]
  <1>1. /\ q.pc \in Locked \ (Taking \cup Restoring) /\ q.pc # "acquire"
        /\ \A p \in Removed(q.page) : PageFree(t, p)
        /\ UNCHANGED <<now, page, claim, note>>
    BY DEF DeletePages, Locked, Deleting, Taking, Restoring
  <1>2. /\ q \in Request /\ q.page \in Page /\ q.seen = page[q.page] /\ q.who \in Actor
        /\ Live(q.page) /\ PageFree(t, q.page) /\ q.claim = None
        /\ \A c \in q.lapsed : Unreleased(c) /\ ClaimFree(t, c)
    BY <1>1, StillHeld
  <1>3. txn' = [txn EXCEPT ![t] = r]
    BY DEF DeletePages, IInv, TypeOK
  <1>4. Removed(q.page) \subseteq Page
    BY <1>2 DEF Removed
  <1> HIDE DEF q
  <1>5. /\ r \in Request /\ r.pc = q.pc /\ r.page = q.page /\ r.seen = q.seen /\ r.who = q.who
        /\ r.claim = q.claim /\ r.lapsed = q.lapsed /\ r.also = Removed(q.page)
    BY <1>2, <1>4 DEF Request
  <1> HIDE DEF r
  <1>6. r.pc # "heartbeat" /\ r.pc # "insert" /\ r.pc \notin Taking \cup {"acquire"}
    BY <1>1, <1>5 DEF Taking
  <1>7. /\ r.pc \in Locked /\ r.page \in Page /\ r.seen = page[r.page]
        /\ r.who \in Actor /\ Live(r.page) /\ PageFree(t, r.page)
        /\ \A p \in r.also : PageFree(t, p)
        /\ \A c \in r.lapsed : Unreleased(c) /\ ClaimFree(t, c)
        /\ r.claim = None
    BY <1>1, <1>2, <1>5
  <1> QED BY <1>1, <1>3, <1>5, <1>6, <1>7, LockIInv

(* A restore locks the page above it, or gives up.                         *)
LEMMA RestoreParentIInv ==
  ASSUME IInv, NEW t \in Slot, RestoreParent(t)
  PROVE  IInv'
  <1> USE ConstantsAssumption
  <1> DEFINE q == txn[t]
             up == Parents(q.page)
             back == {p \in Subtree[q.page] : page[p].deleted = q.seen.deleted}
             r == [q EXCEPT !.pc = "restoring", !.also = up, !.found = back]
  <1>1. /\ q.pc = "restore" /\ (\A p \in up : PageFree(t, p))
        /\ UNCHANGED <<now, page, claim, note>>
    BY DEF RestoreParent
  <1>2. /\ q \in Request /\ q.page \in Page /\ q.seen = page[q.page]
        /\ PageFree(t, q.page) /\ q.claim = None
        /\ \A c \in q.lapsed : Unreleased(c) /\ ClaimFree(t, c)
    <2>1. q.pc \in Locked \ Taking
      BY <1>1 DEF Locked, Restoring, Taking
    <2> QED BY <2>1, StillHeld
  <1>3. up \subseteq Page /\ back \subseteq Page
    BY <1>2 DEF Parents
  <1>4. CASE Finish(t)
    BY <1>1, <1>4, DropIInv
  <1>5. CASE txn' = [txn EXCEPT ![t] = r]
    <2> HIDE DEF q, up, back
    <2>1. /\ r \in Request /\ r.pc = "restoring" /\ r.page = q.page /\ r.seen = q.seen
          /\ r.claim = q.claim /\ r.lapsed = q.lapsed /\ r.also = up
      BY <1>2, <1>3 DEF Request
    <2> HIDE DEF r
    <2>2. /\ r.pc \in Locked /\ r.pc \in Restoring /\ r.pc \notin Taking \cup {"acquire"}
          /\ r.pc # "heartbeat" /\ r.pc # "insert"
      BY <2>1 DEF Locked, Restoring, Taking
    <2> QED BY <1>1, <1>2, <1>5, <2>1, <2>2, LockIInv
  <1> QED BY <1>4, <1>5 DEF RestoreParent

----------------------------------------------------------------------------
(* The steps of a slot, one by one.                                        *)
LEMMA NextCases ==
  ASSUME Next
  PROVE  \/ \E t \in Slot : \/ Begin(t) \/ AcquireExpire(t) \/ DeletePages(t) \/ DeleteCommit(t)
                            \/ RestoreParent(t) \/ RestoreCommit(t) \/ Victim(t) \/ Abort(t)
                            \/ \E p \in Page : RestoreLock(t, p)
                            \/ \E a \in Actor, p \in Page, s \in Target : AcquireLock(t, a, p, s)
                            \/ \E a \in Actor, p \in Page : WriteLock(t, a, p) \/ DeleteLock(t, a, p)
                            \/ \E a \in Actor, c \in ClaimId : PostNote(t, a, c)
                            \/ \E a \in Actor, c \in ClaimId, ttl \in Ttl : RenewClaim(t, a, c, ttl)
                            \/ \E ttl \in Ttl : AcquireInsert(t, ttl) \/ AcquireHeartbeat(t, ttl)
                            \/ \E c \in ClaimId, base \in Hash : WriteRefused(t, c, base)
                            \/ \E c \in ClaimId, base \in Hash, hash \in Hash :
                                 WritePage(t, c, base, hash)
         \/ \E a \in Actor, c \in ClaimId : ReleaseClaim(a, c)
         \/ ExpireStaleClaims
         \/ Tick
  BY DEF Next, Proceed, Locking, OnClaim, AcquireCommit, WriteCommit

LEMMA NextIInv == IInv /\ [Next]_vars => IInv'
  <1> SUFFICES ASSUME IInv, [Next]_vars PROVE IInv'
    OBVIOUS
  <1>1. CASE UNCHANGED vars
    BY <1>1 DEF vars, IInv, TypeOK, Committing, LocksExclusive, SeenIsCurrent, LapsedAreHeld,
                TakingIsSafe, Exclusion, LeaseBaseCurrent, NotesFollowClaims,
                NoClaimOnDeletedPage, Unreleased, Live, Held
  <1>2. CASE Next
    <2>1. ASSUME NEW t \in Slot, Begin(t) PROVE IInv'
      BY <2>1, BeginIInv
    <2>2. ASSUME NEW t \in Slot, DeletePages(t) \/ DeleteCommit(t) PROVE IInv'
      BY <2>2, DeletePagesIInv, DeleteIInv
    <2>3. ASSUME NEW t \in Slot, Abort(t) \/ Victim(t) PROVE IInv'
      BY <2>3, DropIInv DEF Abort, Victim
    <2>4. ASSUME NEW t \in Slot, NEW a \in Actor, NEW p \in Page, NEW s \in Target,
                 AcquireLock(t, a, p, s)
          PROVE  IInv'
      BY <2>4, AcquireLockIInv
    <2>15. ASSUME NEW t \in Slot, AcquireExpire(t) PROVE IInv'
      BY <2>15, AcquireExpireIInv
    <2>5. ASSUME NEW t \in Slot, NEW a \in Actor, NEW p \in Page,
                 WriteLock(t, a, p) \/ DeleteLock(t, a, p)
          PROVE  IInv'
      BY <2>5, WriteLockIInv, DeleteLockIInv
    <2>6. ASSUME NEW t \in Slot, NEW a \in Actor, NEW c \in ClaimId, PostNote(t, a, c)
          PROVE  IInv'
      BY <2>6, PostNoteIInv
    <2>7. ASSUME NEW t \in Slot, NEW a \in Actor, NEW c \in ClaimId, NEW ttl \in Ttl,
                 RenewClaim(t, a, c, ttl)
          PROVE  IInv'
      BY <2>7, RenewIInv
    <2>8. ASSUME NEW t \in Slot, NEW ttl \in Ttl, AcquireInsert(t, ttl) \/ AcquireHeartbeat(t, ttl)
          PROVE  IInv'
      BY <2>8, InsertIInv, HeartbeatIInv
    <2>9. ASSUME NEW t \in Slot, NEW c \in ClaimId, NEW base \in Hash, WriteRefused(t, c, base)
          PROVE  IInv'
      BY <2>9, DropIInv DEF WriteRefused
    <2>10. ASSUME NEW t \in Slot, NEW c \in ClaimId, NEW base \in Hash, NEW hash \in Hash,
                  WritePage(t, c, base, hash)
           PROVE  IInv'
      BY <2>10, WriteIInv
    <2>11. ASSUME NEW a \in Actor, NEW c \in ClaimId, ReleaseClaim(a, c) PROVE IInv'
      BY <2>11, ReleaseIInv
    <2>12. ASSUME NEW t \in Slot, RestoreParent(t) \/ RestoreCommit(t) PROVE IInv'
      BY <2>12, RestoreParentIInv, RestoreIInv
    <2>16. ASSUME NEW t \in Slot, NEW p \in Page, RestoreLock(t, p) PROVE IInv'
      BY <2>16, RestoreLockIInv
    <2>13. CASE ExpireStaleClaims
      BY <2>13, ExpireIInv
    <2>14. CASE Tick
      BY <2>14, TickIInv
    <2> QED BY <1>2, NextCases, <2>1, <2>2, <2>3, <2>4, <2>5, <2>6, <2>7, <2>8, <2>9, <2>10,
               <2>11, <2>12, <2>13, <2>14, <2>15, <2>16
  <1> QED BY <1>1, <1>2

(* The invariant holds whatever requests are in flight: the page lock and  *)
(* what was read under it are enough, no unique index is needed.           *)
THEOREM Invariant == Spec => []IInv
  <1>1. Init => IInv
    BY InitIInv
  <1>2. IInv /\ [Next]_vars => IInv'
    BY NextIInv
  <1> QED BY <1>1, <1>2, PTL DEF Spec

(* Rows and requests keep the shape of their tables.                       *)
THEOREM TypeCorrect == Spec => []TypeOK
  <1>1. IInv => TypeOK
    BY DEF IInv
  <1> QED BY <1>1, Invariant, PTL

(* Rule 1 of the claim service (acquireClaim): overlapping claims are      *)
(* never active together.                                                  *)
THEOREM MutualExclusion == Spec => []Exclusion
  <1>1. IInv => Exclusion
    BY DEF IInv
  <1> QED BY <1>1, Invariant, PTL

(* No lost update under a whole page's lease (runUpdatePage): its base is  *)
(* the page as it is.                                                      *)
THEOREM NoLostUpdate == Spec => []LeaseBaseCurrent
  <1>1. IInv => LeaseBaseCurrent
    BY DEF IInv
  <1> QED BY <1>1, Invariant, PTL

(* Notes end with the claim they hang on and share its deadline.           *)
THEOREM NotesLiveWithClaims == Spec => []NotesFollowClaims
  <1>1. IInv => NotesFollowClaims
    BY DEF IInv
  <1> QED BY <1>1, Invariant, PTL

(* A delete leaves no active claim behind, however it interleaves with     *)
(* requests for claims below the deleted page.                             *)
THEOREM NoOrphanedClaims == Spec => []NoClaimOnDeletedPage
  <1>1. IInv => NoClaimOnDeletedPage
    BY DEF IInv
  <1> QED BY <1>1, Invariant, PTL

----------------------------------------------------------------------------
(* ClaimProtocol implements PageLease, and ended claims stay ended.        *)

(* A step in which claims at most end is a step of PageLease that ends     *)
(* leases.                                                                 *)
OnlyEnds ==
    /\ \A c \in ClaimId : claim'[c] = None <=> claim[c] = None
    /\ \A c \in ClaimId : Unreleased(c)' =>
         /\ Unreleased(c) /\ claim'[c].page = claim[c].page
         /\ claim'[c].sect = claim[c].sect /\ claim'[c].holder = claim[c].holder
    /\ \A p \in Page : page'[p].version = page[p].version /\ page'[p].deleted = page[p].deleted

LEMMA OnlyEndsRefines ==
  ASSUME OnlyEnds
  PROVE  Lease!Next
  <1> DEFINE S == {c \in ClaimId : ~Unreleased(c)'}
  <1>1. usedIds' = usedIds
    BY DEF OnlyEnds, usedIds
  <1>2. versionOf' = versionOf
    BY DEF OnlyEnds, versionOf
  <1>3. livePages' = livePages
    BY DEF OnlyEnds, livePages, Live
  <1>4. leaseOf' = [c \in ClaimId |-> IF c \in S THEN None ELSE leaseOf[c]]
    BY DEF OnlyEnds, leaseOf
  <1>5. Lease!End(S)
    BY <1>1, <1>2, <1>3, <1>4 DEF Lease!End, Lease!Without
  <1> QED BY <1>5 DEF Lease!Next

LEMMA SameRowsRefine ==
  ASSUME UNCHANGED <<page, claim>>
  PROVE  UNCHANGED Lease!vars
  BY DEF Lease!vars, leaseOf, usedIds, versionOf, livePages, Unreleased, Live

LEMMA EndClaimsRefines ==
  ASSUME IInv, NEW S \in SUBSET ClaimId, NEW why \in Reason \ {"none"},
         \A c \in S : Unreleased(c),
         claim' = EndClaims(S, why), UNCHANGED page
  PROVE  OnlyEnds
  <1> USE ConstantsAssumption
  <1>0. (\A c \in S : claim[c] # None) /\ why \in Reason /\ TypeOK
    BY DEF IInv, Unreleased
  <1>1. /\ claim' \in [ClaimId -> ClaimRow \cup {None}]
        /\ \A c \in S : claim'[c] \in ClaimRow /\ claim'[c].reason = why
        /\ \A c \in ClaimId \ S : claim'[c] = claim[c]
    BY <1>0 DEF EndClaims, TypeOK, ClaimRow
  <1> QED BY <1>0, <1>1 DEF OnlyEnds, Unreleased

LEMMA RenewRefines ==
  ASSUME IInv, NEW t \in Slot, NEW a \in Actor, NEW c \in ClaimId, NEW ttl \in Ttl,
         RenewClaim(t, a, c, ttl)
  PROVE  OnlyEnds
  <1> USE ConstantsAssumption
  <1>1. claim[c] \in ClaimRow /\ page' = page /\ txn[t].stamp + ttl \in Nat
    BY DEF RenewClaim, IInv, TypeOK, Request
  <1>2. /\ claim' \in [ClaimId -> ClaimRow \cup {None}]
        /\ \A d \in ClaimId \ {c} : claim'[d] = claim[d]
        /\ claim'[c] \in ClaimRow
        /\ claim'[c].page = claim[c].page /\ claim'[c].sect = claim[c].sect
        /\ claim'[c].holder = claim[c].holder /\ claim'[c].reason = claim[c].reason
    BY <1>1 DEF RenewClaim, Extend, IInv, TypeOK, ClaimRow
  <1> QED BY <1>1, <1>2 DEF OnlyEnds, Unreleased

LEMMA HeartbeatRefines ==
  ASSUME IInv, NEW t \in Slot, NEW ttl \in Ttl, AcquireHeartbeat(t, ttl)
  PROVE  OnlyEnds
  <1> USE ConstantsAssumption
  <1> DEFINE L == txn[t].lapsed
             h == txn[t].claim
             until == txn[t].stamp + ttl
  <1>1. /\ L \in SUBSET ClaimId /\ h \in ClaimId /\ claim[h] # None /\ until \in Nat
        /\ (\A c \in L : claim[c] # None) /\ page' = page
        /\ claim' = [EndClaims(L, "expired") EXCEPT ![h].expires = until]
    BY DEF AcquireHeartbeat, IInv, TypeOK, Request, Committing, TakingIsSafe, LapsedAreHeld,
           Taking, Unreleased
  <1> HIDE DEF L, h, until
  <1> DEFINE E == EndClaims(L, "expired")
  <1>2. /\ E \in [ClaimId -> ClaimRow \cup {None}]
        /\ \A c \in L : E[c] \in ClaimRow /\ E[c].reason = "expired"
        /\ \A c \in ClaimId \ L : E[c] = claim[c]
    BY <1>1, EndClaimsType DEF IInv, Reason
  <1>2_. claim' = [E EXCEPT ![h].expires = until]
    BY <1>1
  <1> HIDE DEF E
  <1>3. E[h] \in ClaimRow
    BY <1>1, <1>2 DEF IInv, TypeOK
  <1>4. /\ \A c \in ClaimId \ {h} : claim'[c] = E[c]
        /\ claim'[h] = [E[h] EXCEPT !.expires = until]
    BY <1>1, <1>2, <1>2_
  <1>5. /\ claim'[h] \in ClaimRow /\ claim'[h].page = E[h].page /\ claim'[h].sect = E[h].sect
        /\ claim'[h].holder = E[h].holder /\ claim'[h].reason = E[h].reason
    BY <1>1, <1>3, <1>4 DEF ClaimRow
  <1>6. \A c \in ClaimId : claim'[c] = None <=> claim[c] = None
    BY <1>1, <1>2, <1>4, <1>5
  <1>7. \A c \in ClaimId : Unreleased(c)' =>
          /\ Unreleased(c) /\ claim'[c].page = claim[c].page
          /\ claim'[c].sect = claim[c].sect /\ claim'[c].holder = claim[c].holder
    <2> SUFFICES ASSUME NEW c \in ClaimId, Unreleased(c)'
                 PROVE  /\ Unreleased(c) /\ claim'[c].page = claim[c].page
                        /\ claim'[c].sect = claim[c].sect /\ claim'[c].holder = claim[c].holder
      OBVIOUS
    <2>1. c \notin L /\ E[c] = claim[c]
      BY <1>2, <1>4, <1>5 DEF Unreleased
    <2>2. CASE c = h
      BY <1>1, <1>5, <2>1, <2>2 DEF Unreleased
    <2>3. CASE c # h
      BY <1>4, <2>1, <2>3 DEF Unreleased
    <2> QED BY <2>2, <2>3
  <1> QED BY <1>1, <1>6, <1>7 DEF OnlyEnds

----------------------------------------------------------------------------
LEMMA InsertRefines ==
  ASSUME IInv, NEW t \in Slot, NEW ttl \in Ttl, AcquireInsert(t, ttl)
  PROVE  Lease!Next
  <1> USE ConstantsAssumption
  <1> DEFINE r == txn[t]
             L == r.lapsed
             n == r.claim
             row == [page |-> r.page, sect |-> r.sect, holder |-> r.who, base |-> r.seen.hash,
                     expires |-> r.stamp + ttl, reason |-> "none"]
  <1>1. /\ r \in Request /\ L \in SUBSET ClaimId /\ n \in ClaimId /\ claim[n] = None
        /\ \A c \in L : claim[c] # None
        /\ \A c \in ClaimId : (/\ Unreleased(c) /\ claim[c].page = r.page
                               /\ TargetsOverlap(claim[c].sect, r.sect)) => c \in L
        /\ r.page \in Page /\ r.sect \in Target /\ r.who \in Actor
        /\ r.seen = page[r.page] /\ Live(r.page)
    <2>1. r.pc = "insert" /\ r.pc \in Locked \ Restoring
      BY DEF AcquireInsert, Locked, Restoring
    <2>2. /\ r \in Request /\ r.page \in Page /\ r.seen = page[r.page] /\ r.who \in Actor
          /\ Live(r.page) /\ \A c \in L : Unreleased(c)
      BY <2>1, StillHeld
    <2> QED BY <2>1, <2>2 DEF IInv, Request, Committing, TakingIsSafe, Taking, Unreleased
  <1>2. claim' = [EndClaims(L, "expired") EXCEPT ![n] = row] /\ page' = page
    BY DEF AcquireInsert
  <1>3. /\ row \in ClaimRow /\ row # None /\ row.page = r.page /\ row.sect = r.sect
        /\ row.holder = r.who /\ row.reason = "none"
    BY <1>1 DEF IInv, TypeOK, Request, ClaimRow, PageRow, Reason
  <1> HIDE DEF row, L, n, r
  <1>4. /\ claim'[n] = row
        /\ \A c \in L \ {n} : claim'[c] \in ClaimRow /\ claim'[c].reason = "expired"
        /\ \A c \in ClaimId \ (L \cup {n}) : claim'[c] = claim[c]
    BY <1>1, <1>2, <1>3, EndClaimsType DEF IInv, Reason
  <1>5. n \notin usedIds /\ usedIds' = usedIds \cup {n}
    BY <1>1, <1>3, <1>4 DEF usedIds
  <1>6. versionOf' = versionOf /\ livePages' = livePages /\ r.page \in livePages
    BY <1>1, <1>2 DEF versionOf, livePages, Live
  <1>7. Lease!Clear(Lease!Without(L), r.page, r.sect)
    <2> SUFFICES ASSUME NEW c \in ClaimId, c \notin L, leaseOf[c] # None, leaseOf[c].page = r.page
                 PROVE  leaseOf[c].sect # r.sect /\ leaseOf[c].sect # Whole /\ r.sect # Whole
      BY DEF Lease!Clear, Lease!Without
    <2>1. Unreleased(c) /\ claim[c].page = r.page /\ leaseOf[c].sect = claim[c].sect
      BY DEF leaseOf
    <2> QED BY <1>1, <2>1 DEF TargetsOverlap
  <1>8. leaseOf' = [Lease!Without(L) EXCEPT ![n] =
                      [page |-> r.page, sect |-> r.sect, holder |-> r.who]]
    <2>1. \A c \in ClaimId \ {n} : leaseOf'[c] = IF c \in L THEN None ELSE leaseOf[c]
      BY <1>4 DEF leaseOf, Unreleased
    <2>2. leaseOf'[n] = [page |-> r.page, sect |-> r.sect, holder |-> r.who]
      BY <1>1, <1>3, <1>4 DEF leaseOf, Unreleased
    <2>3. leaseOf' = [c \in ClaimId |-> leaseOf'[c]]
      BY DEF leaseOf
    <2> QED BY <1>1, <2>1, <2>2, <2>3 DEF Lease!Without
  <1>9. Lease!Grant(n, r.page, r.sect, r.who, L)
    BY <1>5, <1>6, <1>7, <1>8 DEF Lease!Grant
  <1> QED BY <1>1, <1>9 DEF Lease!Next, Target

LEMMA WriteRefines ==
  ASSUME IInv, NEW t \in Slot, NEW c \in ClaimId, NEW base \in Hash, NEW hash \in Hash,
         WritePage(t, c, base, hash)
  PROVE  Lease!Next
  <1> USE ConstantsAssumption
  <1> DEFINE p == txn[t].page
  <1>1. p \in Page /\ txn[t].seen = page[p] /\ Live(p) /\ Unreleased(c) /\ claim[c].page = p
    <2>1. txn[t].pc \in Locked \ Restoring
      BY DEF WritePage, Locked, Restoring
    <2> QED BY <2>1, StillHeld DEF WritePage, MayWrite
  <1>2. /\ page' = [page EXCEPT ![p].version = page[p].version + 1, ![p].hash = hash]
        /\ claim' = [claim EXCEPT ![c].base = hash]
    BY <1>1 DEF WritePage
  <1> HIDE DEF p
  <1>3. /\ \A d \in ClaimId \ {c} : claim'[d] = claim[d]
        /\ claim'[c] = [claim[c] EXCEPT !.base = hash] /\ claim'[c] \in ClaimRow
        /\ claim[c] \in ClaimRow
    BY <1>1, <1>2 DEF IInv, TypeOK, ClaimRow, Unreleased
  <1>4. \A d \in ClaimId : /\ claim'[d] = None <=> claim[d] = None
                           /\ claim[d] # None => /\ claim'[d].page = claim[d].page
                                                /\ claim'[d].sect = claim[d].sect
                                                /\ claim'[d].holder = claim[d].holder
                                                /\ claim'[d].reason = claim[d].reason
    BY <1>3 DEF ClaimRow
  <1>5. leaseOf' = leaseOf /\ usedIds' = usedIds
    BY <1>4 DEF leaseOf, usedIds, Unreleased
  <1>6. /\ \A q \in Page \ {p} : page'[q] = page[q]
        /\ page'[p].version = page[p].version + 1 /\ page'[p].deleted = page[p].deleted
    BY <1>1, <1>2 DEF IInv, TypeOK, PageRow
  <1>7. versionOf' = [versionOf EXCEPT ![p] = @ + 1]
    BY <1>1, <1>6 DEF versionOf
  <1>8. livePages' = livePages /\ p \in livePages
    BY <1>1, <1>6 DEF livePages, Live
  <1>9. leaseOf[c] # None /\ leaseOf[c].page = p
    <2>1. leaseOf[c] = [page |-> claim[c].page, sect |-> claim[c].sect, holder |-> claim[c].holder]
      BY <1>1 DEF leaseOf
    <2>2. leaseOf[c] \in [page : Page, sect : Target, holder : Actor]
      BY <1>3, <2>1 DEF ClaimRow
    <2> QED BY <1>1, <2>1, <2>2
  <1>10. Lease!Write(p)
    BY <1>5, <1>7, <1>8, <1>9 DEF Lease!Write
  <1> QED BY <1>1, <1>10 DEF Lease!Next

LEMMA DeleteRefines ==
  ASSUME IInv, NEW t \in Slot, DeleteCommit(t)
  PROVE  Lease!Next
  <1> USE ConstantsAssumption
  <1> DEFINE removed == txn[t].also
             ended == {c \in ClaimId : Unreleased(c) /\ claim[c].page \in removed}
             under == {c \in ClaimId : leaseOf[c] # None /\ leaseOf[c].page \in removed}
  <1>1. removed \in SUBSET Page /\ txn[t].stamp \in Nat
    BY DEF IInv, TypeOK, Request
  <1>2. \A p \in Page : /\ page'[p].version = page[p].version
                        /\ p \in removed => page'[p].deleted # None
                        /\ p \notin removed => page'[p].deleted = page[p].deleted
    <2> SUFFICES ASSUME NEW p \in Page
                 PROVE  /\ page'[p].version = page[p].version
                        /\ p \in removed => page'[p].deleted # None
                        /\ p \notin removed => page'[p].deleted = page[p].deleted
      OBVIOUS
    <2>1. page[p] \in PageRow
      BY DEF IInv, TypeOK
    <2>2. page'[p] = IF p \in removed
                     THEN [page[p] EXCEPT !.deleted = txn[t].stamp, !.link = None]
                     ELSE IF p \in Counterparts(removed) THEN [page[p] EXCEPT !.link = None]
                     ELSE page[p]
      BY DEF DeleteCommit
    <2> QED BY <1>1, <2>1, <2>2 DEF PageRow
  <1>3. claim' = EndClaims(ended, "forced")
    BY DEF DeleteCommit
  <1>4. \A c \in ended : claim[c] \in ClaimRow
    BY DEF IInv, TypeOK, Unreleased
  <1>5. \A c \in ClaimId : leaseOf[c] # None <=> Unreleased(c)
    BY DEF leaseOf, IInv, TypeOK, ClaimRow, Unreleased
  <1>6. \A c \in ClaimId : Unreleased(c) => leaseOf[c].page = claim[c].page
    BY DEF leaseOf
  <1>7. under = ended
    BY <1>5, <1>6
  <1> HIDE DEF removed, ended
  <1>8. /\ ended \in SUBSET ClaimId
        /\ \A c \in ended : claim'[c] \in ClaimRow /\ claim'[c].reason = "forced"
        /\ \A c \in ClaimId \ ended : claim'[c] = claim[c]
    BY <1>3, <1>4 DEF EndClaims, ended, ClaimRow, Reason
  <1>9. leaseOf' = Lease!Without(ended)
    BY <1>8 DEF leaseOf, Lease!Without, Unreleased
  <1>10. usedIds' = usedIds
    BY <1>4, <1>8 DEF usedIds
  <1>11. versionOf' = versionOf /\ livePages' = livePages \ removed
    BY <1>1, <1>2 DEF versionOf, livePages, Live
  <1>12. Lease!Delete(removed)
    BY <1>7, <1>9, <1>10, <1>11 DEF Lease!Delete
  <1> QED BY <1>1, <1>12 DEF Lease!Next

LEMMA RestoreRefines ==
  ASSUME IInv, NEW t \in Slot, RestoreCommit(t)
  PROVE  Lease!Next
  <1> USE ConstantsAssumption
  <1> DEFINE back == txn[t].found
  <1>1. back \in SUBSET Page /\ claim' = claim
    BY DEF RestoreCommit, IInv, TypeOK, Request
  <1>2. \A q \in Page : /\ page'[q].version = page[q].version
                        /\ q \in back => page'[q].deleted = None
                        /\ q \notin back => page'[q].deleted = page[q].deleted
    BY <1>1 DEF RestoreCommit, IInv, TypeOK, PageRow
  <1> HIDE DEF back
  <1>3. leaseOf' = leaseOf /\ usedIds' = usedIds
    BY <1>1 DEF leaseOf, usedIds, Unreleased
  <1>4. versionOf' = versionOf /\ livePages' = livePages \cup back
    BY <1>1, <1>2 DEF versionOf, livePages, Live
  <1>5. Lease!Restore(back)
    BY <1>3, <1>4 DEF Lease!Restore
  <1> QED BY <1>1, <1>5 DEF Lease!Next

----------------------------------------------------------------------------
LEMMA StepRefines == IInv /\ [Next]_vars => [Lease!Next]_(Lease!vars)
  <1> SUFFICES ASSUME IInv, [Next]_vars PROVE Lease!Next \/ UNCHANGED Lease!vars
    OBVIOUS
  <1>1. CASE UNCHANGED <<page, claim>>
    BY <1>1, SameRowsRefine
  <1>2. CASE Next
    <2>1. ASSUME NEW t \in Slot, DeleteCommit(t) PROVE Lease!Next
      BY <2>1, DeleteRefines
    <2>2. ASSUME NEW t \in Slot, NEW ttl \in Ttl, AcquireInsert(t, ttl) PROVE Lease!Next
      BY <2>2, InsertRefines
    <2>3. ASSUME NEW t \in Slot, NEW ttl \in Ttl, AcquireHeartbeat(t, ttl) PROVE Lease!Next
      BY <2>3, HeartbeatRefines, OnlyEndsRefines
    <2>4. ASSUME NEW t \in Slot, NEW a \in Actor, NEW c \in ClaimId, NEW ttl \in Ttl,
                 RenewClaim(t, a, c, ttl)
          PROVE  Lease!Next
      BY <2>4, RenewRefines, OnlyEndsRefines
    <2>5. ASSUME NEW t \in Slot, NEW c \in ClaimId, NEW base \in Hash, NEW hash \in Hash,
                 WritePage(t, c, base, hash)
          PROVE  Lease!Next
      BY <2>5, WriteRefines
    <2>6. ASSUME NEW a \in Actor, NEW c \in ClaimId, ReleaseClaim(a, c) PROVE Lease!Next
      <3> DEFINE why == IF Holds(c, a) THEN "released" ELSE "forced"
      <3>1. /\ why \in Reason \ {"none"} /\ {c} \in SUBSET ClaimId
            /\ (\A d \in {c} : Unreleased(d)) /\ claim' = EndClaims({c}, why) /\ UNCHANGED page
        BY <2>6 DEF ReleaseClaim, Reason
      <3> HIDE DEF why
      <3> QED BY <3>1, EndClaimsRefines, OnlyEndsRefines
    <2>7. ASSUME NEW t \in Slot, RestoreCommit(t) PROVE Lease!Next
      BY <2>7, RestoreRefines
    <2>8. CASE ExpireStaleClaims
      <3> DEFINE stale == Stale
      <3>1. /\ "expired" \in Reason \ {"none"} /\ stale \in SUBSET ClaimId
            /\ (\A c \in stale : Unreleased(c)) /\ claim' = EndClaims(stale, "expired")
            /\ UNCHANGED page
        BY <2>8 DEF ExpireStaleClaims, Stale, Reason
      <3> HIDE DEF stale
      <3> QED BY <3>1, EndClaimsRefines, OnlyEndsRefines
    <2>9. ASSUME NEW t \in Slot,
                 \/ Begin(t) \/ AcquireExpire(t) \/ DeletePages(t) \/ RestoreParent(t)
                 \/ Victim(t) \/ Abort(t)
                 \/ \E p \in Page : RestoreLock(t, p)
                 \/ \E a \in Actor, p \in Page, s \in Target : AcquireLock(t, a, p, s)
                 \/ \E a \in Actor, p \in Page : WriteLock(t, a, p) \/ DeleteLock(t, a, p)
                 \/ \E a \in Actor, c \in ClaimId : PostNote(t, a, c)
                 \/ \E c \in ClaimId, base \in Hash : WriteRefused(t, c, base)
          PROVE  UNCHANGED <<page, claim>>
      BY <2>9 DEF Begin, Abort, Victim, AcquireLock, AcquireExpire, WriteLock, DeleteLock,
                      DeletePages, RestoreLock, RestoreParent, PostNote, WriteRefused
    <2>10. CASE Tick
      BY <1>1, <2>10 DEF Tick
    <2> QED BY <1>1, <1>2, NextCases, <2>1, <2>2, <2>3, <2>4, <2>5, <2>6, <2>7, <2>8, <2>9, <2>10
  <1>3. CASE UNCHANGED vars
    BY <1>1, <1>3 DEF vars
  <1> QED BY <1>2, <1>3

LEMMA InitRefines == Init => Lease!Init
  <1> SUFFICES ASSUME Init PROVE Lease!Init
    OBVIOUS
  <1>1. leaseOf = [c \in ClaimId |-> None] /\ usedIds = {}
    BY DEF Init, leaseOf, usedIds, Unreleased
  <1>2. versionOf = [p \in Page |-> 1] /\ livePages = Page
    BY DEF Init, versionOf, livePages, Live
  <1> QED BY <1>1, <1>2 DEF Lease!Init

(* The claim service, its writes, deletes and restores implement a system  *)
(* that grants, uses and ends leases in single steps: reading and locking  *)
(* a step before committing shows nobody anything else.                    *)
THEOREM Implements == Spec => Leases
  <1>1. Init => Lease!Init
    BY InitRefines
  <1>2. IInv /\ [Next]_vars => [Lease!Next]_(Lease!vars)
    BY StepRefines
  <1> QED BY <1>1, <1>2, Invariant, PTL DEF Spec, Leases, Lease!Spec

----------------------------------------------------------------------------
(* One step leaves an ended claim ended, for the reason it ended.          *)
KeepsEnded ==
    \A c \in ClaimId : (claim[c] # None /\ ~Unreleased(c))
        => claim'[c] # None /\ claim'[c].reason = claim[c].reason

LEMMA EndClaimsKeeps ==
  ASSUME IInv, NEW S \in SUBSET ClaimId, NEW why \in Reason,
         \A c \in S : Unreleased(c), claim' = EndClaims(S, why)
  PROVE  KeepsEnded
  BY DEF KeepsEnded, EndClaims

LEMMA InsertKeeps ==
  ASSUME IInv, NEW t \in Slot, NEW ttl \in Ttl, AcquireInsert(t, ttl)
  PROVE  KeepsEnded
  <1> DEFINE L == txn[t].lapsed
             n == txn[t].claim
  <1>1. (\A c \in L : Unreleased(c)) /\ claim[n] = None
    BY DEF AcquireInsert, IInv, Committing, TakingIsSafe, LapsedAreHeld
  <1>2. \A c \in ClaimId \ {n} : claim'[c] = EndClaims(L, "expired")[c]
    BY DEF AcquireInsert, EndClaims
  <1> HIDE DEF L, n
  <1>3. \A c \in ClaimId \ L : EndClaims(L, "expired")[c] = claim[c]
    BY DEF EndClaims
  <1> QED BY <1>1, <1>2, <1>3 DEF KeepsEnded

LEMMA HeartbeatKeeps ==
  ASSUME IInv, NEW t \in Slot, NEW ttl \in Ttl, AcquireHeartbeat(t, ttl)
  PROVE  KeepsEnded
  <1> USE ConstantsAssumption
  <1> DEFINE L == txn[t].lapsed
             h == txn[t].claim
             until == txn[t].stamp + ttl
  <1>1. (\A c \in L : Unreleased(c)) /\ claim[h] # None /\ h \in ClaimId /\ until \in Nat
    BY DEF AcquireHeartbeat, IInv, TypeOK, Request, Committing, TakingIsSafe, LapsedAreHeld, Taking
  <1>2. claim' = [EndClaims(L, "expired") EXCEPT ![h].expires = until]
    BY DEF AcquireHeartbeat
  <1> HIDE DEF L, h, until
  <1>3. \A c \in ClaimId \ L : EndClaims(L, "expired")[c] = claim[c]
    BY DEF EndClaims
  <1>4. \A c \in ClaimId \ {h} : claim'[c] = EndClaims(L, "expired")[c]
    BY <1>2 DEF EndClaims
  <1>5. ASSUME ~Unreleased(h) PROVE claim'[h] # None /\ claim'[h].reason = claim[h].reason
    <2>1. claim'[h] = [claim[h] EXCEPT !.expires = until]
      BY <1>1, <1>2, <1>3, <1>5 DEF EndClaims
    <2>2. claim[h] \in ClaimRow
      BY <1>1 DEF IInv, TypeOK
    <2>3. claim'[h] \in ClaimRow /\ claim'[h].reason = claim[h].reason
      BY <1>1, <2>1, <2>2 DEF ClaimRow
    <2> QED BY <2>3
  <1> QED BY <1>1, <1>3, <1>4, <1>5 DEF KeepsEnded

LEMMA StepKeeps == IInv /\ [Next]_vars => KeepsEnded
  <1> SUFFICES ASSUME IInv, [Next]_vars PROVE KeepsEnded
    OBVIOUS
  <1> USE ConstantsAssumption
  <1>1. CASE UNCHANGED claim
    BY <1>1 DEF KeepsEnded
  <1>2. CASE Next
    <2>1. ASSUME NEW t \in Slot, DeleteCommit(t) PROVE KeepsEnded
      <3> DEFINE ended == {c \in ClaimId : Unreleased(c) /\ claim[c].page \in txn[t].also}
      <3>1. ended \in SUBSET ClaimId /\ (\A c \in ended : Unreleased(c)) /\ "forced" \in Reason
            /\ claim' = EndClaims(ended, "forced")
        BY <2>1 DEF DeleteCommit, Reason
      <3> HIDE DEF ended
      <3> QED BY <3>1, EndClaimsKeeps
    <2>2. ASSUME NEW t \in Slot, NEW ttl \in Ttl, AcquireInsert(t, ttl) \/ AcquireHeartbeat(t, ttl)
          PROVE  KeepsEnded
      BY <2>2, InsertKeeps, HeartbeatKeeps
    <2>3. ASSUME NEW t \in Slot, NEW a \in Actor, NEW c \in ClaimId, NEW ttl \in Ttl,
                 RenewClaim(t, a, c, ttl)
          PROVE  KeepsEnded
      <3>1. CASE UNCHANGED claim
        BY <1>1, <3>1
      <3>2. CASE Unreleased(c) /\ Extend(c, txn[t].stamp + ttl)
        BY <3>2 DEF Extend, KeepsEnded, IInv, TypeOK
      <3> QED BY <2>3, <3>1, <3>2 DEF RenewClaim
    <2>4. ASSUME NEW t \in Slot, NEW c \in ClaimId, NEW base \in Hash, NEW hash \in Hash,
                 WritePage(t, c, base, hash)
          PROVE  KeepsEnded
      BY <2>4 DEF WritePage, MayWrite, KeepsEnded, IInv, TypeOK
    <2>5. ASSUME NEW a \in Actor, NEW c \in ClaimId, ReleaseClaim(a, c) PROVE KeepsEnded
      <3> DEFINE why == IF Holds(c, a) THEN "released" ELSE "forced"
      <3>1. /\ why \in Reason /\ {c} \in SUBSET ClaimId
            /\ (\A d \in {c} : Unreleased(d)) /\ claim' = EndClaims({c}, why)
        BY <2>5 DEF ReleaseClaim, Reason
      <3> HIDE DEF why
      <3> QED BY <3>1, EndClaimsKeeps
    <2>6. CASE ExpireStaleClaims
      <3> DEFINE stale == Stale
      <3>1. /\ "expired" \in Reason /\ stale \in SUBSET ClaimId
            /\ (\A c \in stale : Unreleased(c)) /\ claim' = EndClaims(stale, "expired")
        BY <2>6 DEF ExpireStaleClaims, Stale, Reason
      <3> HIDE DEF stale
      <3> QED BY <3>1, EndClaimsKeeps
    <2>7. ASSUME NEW t \in Slot,
                 \/ Begin(t) \/ AcquireExpire(t) \/ DeletePages(t) \/ RestoreParent(t)
                 \/ Victim(t) \/ Abort(t)
                 \/ \E p \in Page : RestoreLock(t, p)
                 \/ \E a \in Actor, p \in Page, s \in Target : AcquireLock(t, a, p, s)
                 \/ \E a \in Actor, p \in Page : WriteLock(t, a, p) \/ DeleteLock(t, a, p)
                 \/ \E a \in Actor, c \in ClaimId : PostNote(t, a, c)
                 \/ \E c \in ClaimId, base \in Hash : WriteRefused(t, c, base)
          PROVE  UNCHANGED claim
      BY <2>7 DEF Begin, Abort, Victim, AcquireLock, AcquireExpire, WriteLock, DeleteLock,
                      DeletePages, RestoreLock, RestoreParent, PostNote, WriteRefused
    <2>8. ASSUME NEW t \in Slot, RestoreCommit(t) PROVE UNCHANGED claim
      BY <2>8 DEF RestoreCommit
    <2>9. CASE Tick
      BY <1>1, <2>9 DEF Tick
    <2> QED BY <1>1, <1>2, NextCases, <2>1, <2>2, <2>3, <2>4, <2>5, <2>6, <2>7, <2>8, <2>9
  <1>3. CASE UNCHANGED vars
    BY <1>1, <1>3 DEF vars
  <1> QED BY <1>2, <1>3

(* A claim ends once: no late heartbeat, renewal, sweep or delete revives  *)
(* it or gives it another reason.                                          *)
THEOREM EndsOnce == Spec => EndedIsFinal
  <1>1. IInv /\ [Next]_vars =>
          [\A c \in ClaimId : (claim[c] # None /\ ~Unreleased(c))
               => claim'[c] # None /\ claim'[c].reason = claim[c].reason]_vars
    BY StepKeeps DEF KeepsEnded
  <1> QED BY <1>1, Invariant, PTL DEF Spec, EndedIsFinal

=============================================================================
