--------------------------- MODULE ClaimProtocol ---------------------------
(***************************************************************************)
(* The write protocol of the wiki: page leases (claims), the writes made   *)
(* under them, and the deletes and restores that end them.                 *)
(*                                                                         *)
(* Every request is a PostgreSQL transaction at READ COMMITTED.  A slot of *)
(* txn is one request in flight.  A step ends where the request waits for  *)
(* a row lock or has read something another request can still change: one  *)
(* step for a renewal, release, note or sweep, two for a write (lock the   *)
(* page and read, then decide and commit), three for an acquire, a delete  *)
(* and a restore.  Nothing a transaction wrote is visible before it        *)
(* commits: the rows an acquire has expired (lapsed) and those a delete    *)
(* has removed (also) are kept in its slot and reach the tables with its   *)
(* commit, or never.  Requests that wait for each other's page rows in a   *)
(* ring lose one of them to the database's deadlock detector.              *)
(***************************************************************************)
EXTENDS Naturals

CONSTANTS
    Actor,      \* people and agents, and the shared identities of live rooms
    Admin,      \* the actors that may force a release or override a delete
    Page,       \* page rows
    Subtree,    \* page -> the page and every page below it
    FirstLink,  \* page -> its counterpart at the start, None if it has none
    Section,    \* section identifiers of a page
    ClaimId,    \* claim rows that can ever be inserted (bound)
    Hash,       \* content hashes
    FirstHash,  \* the hash every page starts with
    Slot,       \* requests in flight at once (bound)
    Ttl,        \* lease lengths a request may ask for, in ticks
    Horizon,    \* last tick of the clock (bound)
    MaxVersion, \* last version a page can reach (bound)
    Faults,     \* TRUE if a transaction may be lost before it commits
    Whole,      \* section_id null: the claim covers the page
    None        \* SQL null

Target  == Section \cup {Whole}
Reason  == {"none", "released", "expired", "forced"}
PageRow == [version : Nat, hash : Hash, deleted : Nat \cup {None},
            link : Page \cup {None}]
ClaimRow == [page : Page, sect : Target, holder : Actor, base : Hash,
             expires : Nat, reason : Reason]

ASSUME ConstantsAssumption ==
    /\ Admin \subseteq Actor
    /\ Subtree \in [Page -> SUBSET Page]
    /\ \A p \in Page : p \in Subtree[p]
    /\ FirstLink \in [Page -> Page \cup {None}]
    /\ FirstHash \in Hash
    /\ Ttl \subseteq Nat \ {0}
    /\ Horizon \in Nat /\ MaxVersion \in Nat
    /\ Faults \in BOOLEAN
    /\ Whole \notin Section
    /\ None \notin Actor \cup Page \cup Target \cup ClaimId \cup Nat \cup PageRow \cup ClaimRow
    /\ None \notin [page : Page, sect : Target, holder : Actor]

VARIABLES
    now,        \* the application's clock
    page,       \* page -> its row
    claim,      \* claim id -> its row, None before it is inserted
    note,       \* claim id -> expires_at of its notes, None while it has none
    txn         \* slot -> the request in flight

vars == <<now, page, claim, note, txn>>

(* page is set exactly while the request holds that page's row lock, and   *)
(* seen is the row it read under it; also are the page rows it holds       *)
(* besides, found the rows a restore has read and will bring back; claim   *)
(* is the row it will write, and stamp the value its `new Date()` returned.*)
Request == [pc : {"idle", "begun", "acquire", "insert", "heartbeat", "write",
                  "delete", "override", "restore", "restoring"},
            stamp : Nat, who : Actor \cup {None}, page : Page \cup {None},
            sect : Target \cup {None}, claim : ClaimId \cup {None},
            seen : PageRow \cup {None}, lapsed : SUBSET ClaimId,
            also : SUBSET Page, found : SUBSET Page]

Idle == [pc |-> "idle", stamp |-> 0, who |-> None, page |-> None, sect |-> None,
         claim |-> None, seen |-> None, lapsed |-> {}, also |-> {}, found |-> {}]

Unreleased(c) == claim[c] # None /\ claim[c].reason = "none"
IsExpired(c, at) == claim[c].expires <= at

(* Faulty variants, named for what they leave out, stand before what they  *)
(* would replace; nothing else uses them.                                  *)
TargetsOverlap(s, u) == s = Whole \/ u = Whole \/ s = u
LapsedOrEndedOn(p, at) ==
    {c \in ClaimId : claim[c] # None /\ claim[c].page = p /\ IsExpired(c, at)}
LapsedOn(p, at) ==
    {c \in ClaimId : Unreleased(c) /\ claim[c].page = p /\ IsExpired(c, at)}
IsParent(q, p) == /\ q # p /\ p \in Subtree[q]
                  /\ \A r \in Page \ {p, q} : ~(r \in Subtree[q] /\ p \in Subtree[r])
Holds(c, a) == claim[c].holder = a
Live(p) == page[p].deleted = None

StaleWithNotes == {c \in ClaimId : Unreleased(c) /\ note[c] # None /\ IsExpired(c, now)}
Stale == {c \in ClaimId : Unreleased(c) /\ IsExpired(c, now)}
RemovedByAnyPrefix(root) ==
    {p \in Page : (p \in Subtree[root] \/ root \in Subtree[p]) /\ Live(p)}
Removed(root) == {p \in Subtree[root] : Live(p)}

(* select ... for update: the row is free of every other request.          *)
Held(t) == ({txn[t].page} \cup txn[t].also) \ {None}
NoRowLock(t, p) == TRUE
FreeOfItselfToo(t, p) == \A u \in Slot : p \notin Held(u)
PageFree(t, p)  == \A u \in Slot \ {t} : p \notin Held(u)
ClaimFree(t, c) == \A u \in Slot \ {t} : c \notin txn[u].lapsed
Finish(t) == txn' = [txn EXCEPT ![t] = Idle]

(* The claims of S end for a reason, and their notes are deleted with them.*)
EndClaims(S, why) ==
    [c \in ClaimId |-> IF c \in S THEN [claim[c] EXCEPT !.reason = why] ELSE claim[c]]
KeepNotes(S) == note
DropNotes(S) == [c \in ClaimId |-> IF c \in S THEN None ELSE note[c]]

(* Notes expire with the claim they hang on.                               *)
ExtendToNull(c, until) == claim' = [claim EXCEPT ![c].expires = None] /\ note' = note
Extend(c, until) ==
    /\ claim' = [claim EXCEPT ![c].expires = until]
    /\ note'  = [note EXCEPT ![c] = IF note[c] = None THEN None ELSE until]

Init ==
    /\ now = 0
    /\ page = [p \in Page |-> [version |-> 1, hash |-> FirstHash, deleted |-> None,
                             link |-> FirstLink[p]]]
    /\ claim = [c \in ClaimId |-> None]
    /\ note = [c \in ClaimId |-> None]
    /\ txn = [t \in Slot |-> Idle]

----------------------------------------------------------------------------
(* Acquire, renew and note take their timestamp first and wait for their   *)
(* row lock afterwards; the rest of the request is chosen when it matters. *)
Begin(t) ==
    /\ txn[t].pc = "idle"
    /\ txn' = [txn EXCEPT ![t] = [Idle EXCEPT !.pc = "begun", !.stamp = now]]
    /\ UNCHANGED <<now, page, claim, note>>

Unused == {c \in ClaimId : claim[c] = None /\ \A u \in Slot : txn[u].claim # c}

(* acquireClaim: lock the page and read it.                                *)
AcquireLock(t, a, p, s) ==
    /\ txn[t].pc = "begun" /\ PageFree(t, p)
    /\ \/ /\ Live(p)
          /\ txn' = [txn EXCEPT ![t] = [Idle EXCEPT
                !.pc = "acquire", !.stamp = txn[t].stamp, !.who = a, !.page = p,
                !.sect = s, !.seen = page[p]]]
       \/ ~Live(p) /\ Finish(t)                          \* not_found
    /\ UNCHANGED <<now, page, claim, note>>

(* Under the page's lock: wait for the rows that have lapsed on it and end *)
(* them, read what is still active, compare.  A refusal rolls the whole    *)
(* transaction back, the expiry included.                                  *)
AcquireExpire(t) ==
    LET r == txn[t]
        lapsed == LapsedOn(r.page, r.stamp)
        rivals == {c \in ClaimId \ lapsed : Unreleased(c) /\ claim[c].page = r.page
                                             /\ TargetsOverlap(claim[c].sect, r.sect)}
        Go(pc, c) == txn' = [txn EXCEPT ![t] = [r EXCEPT !.pc = pc, !.claim = c,
                                                         !.lapsed = lapsed]]
    IN  /\ r.pc = "acquire"
        /\ \A c \in lapsed : ClaimFree(t, c)
        /\ \/ rivals = {} /\ \E c \in Unused : Go("insert", c)
           \/ rivals = {} /\ Unused = {} /\ Finish(t)   \* bound: no claim id is left
           \/ \E held \in rivals :
                 IF Holds(held, r.who) /\ claim[held].sect = r.sect
                 THEN Go("heartbeat", held)
                 ELSE Finish(t)                          \* conflict
        /\ UNCHANGED <<now, page, claim, note>>

AcquireInsert(t, ttl) ==
    LET r == txn[t] IN
    /\ r.pc = "insert"
    /\ claim' = [EndClaims(r.lapsed, "expired") EXCEPT ![r.claim] =
                   [page |-> r.page, sect |-> r.sect, holder |-> r.who,
                    base |-> r.seen.hash, expires |-> r.stamp + ttl, reason |-> "none"]]
    /\ note' = DropNotes(r.lapsed)
    /\ Finish(t)
    /\ UNCHANGED <<now, page>>

(* Re-claiming extends the row the request read, whatever became of it     *)
(* while the request waited: the update names the id and nothing else.     *)
AcquireHeartbeat(t, ttl) ==
    LET r == txn[t] until == r.stamp + ttl IN
    /\ r.pc = "heartbeat"
    /\ ClaimFree(t, r.claim)
    /\ claim' = [EndClaims(r.lapsed, "expired") EXCEPT ![r.claim].expires = until]
    /\ note' = [DropNotes(r.lapsed) EXCEPT ![r.claim] = IF @ = None THEN None ELSE until]
    /\ Finish(t)
    /\ UNCHANGED <<now, page>>

(* renewClaim.  A lease past its deadline is refused, and the refusal      *)
(* rolls back the expiry the same transaction had just written.            *)
RenewClaim(t, a, c, ttl) ==
    LET ok == Unreleased(c) /\ Holds(c, a) /\ ~IsExpired(c, txn[t].stamp) IN
    /\ txn[t].pc = "begun" /\ claim[c] # None /\ ClaimFree(t, c)
    /\ \/ ok /\ Extend(c, txn[t].stamp + ttl)
       \/ ~ok /\ UNCHANGED <<claim, note>>
    /\ Finish(t)
    /\ UNCHANGED <<now, page>>

(* releaseClaim, by the holder or forced by an administrator.  Releasing   *)
(* what has already ended answers success and changes nothing.             *)
ReleaseClaim(a, c) ==
    /\ Unreleased(c) /\ (\A u \in Slot : c \notin txn[u].lapsed)
    /\ Holds(c, a) \/ a \in Admin
    /\ claim' = EndClaims({c}, IF Holds(c, a) THEN "released" ELSE "forced")
    /\ note' = DropNotes({c})
    /\ UNCHANGED <<now, page, txn>>

PostNote(t, a, c) ==
    LET ok == Unreleased(c) /\ Holds(c, a) /\ ~IsExpired(c, txn[t].stamp) IN
    /\ txn[t].pc = "begun" /\ claim[c] # None /\ ClaimFree(t, c)
    /\ note' = [note EXCEPT ![c] = IF ok THEN claim[c].expires ELSE @]
    /\ Finish(t)
    /\ UNCHANGED <<now, page, claim>>

----------------------------------------------------------------------------
(* updatePage: lock the page row and read it, then take the claim's row    *)
(* lock and run requireClaimForWrite.                                      *)
WriteLock(t, a, p) ==
    /\ txn[t].pc = "idle" /\ PageFree(t, p) /\ Live(p) /\ page[p].version < MaxVersion
    /\ txn' = [txn EXCEPT ![t] = [Idle EXCEPT !.pc = "write", !.stamp = now,
                                  !.who = a, !.page = p, !.seen = page[p]]]
    /\ UNCHANGED <<now, page, claim, note>>

MayWriteAnyPage(t, c, base) ==
    LET r == txn[t] IN
    Unreleased(c) /\ Holds(c, r.who) /\ ~IsExpired(c, r.stamp) /\ base = r.seen.hash
MayWrite(t, c, base) ==
    LET r == txn[t] IN
    /\ Unreleased(c) /\ claim[c].page = r.page /\ Holds(c, r.who)
    /\ ~IsExpired(c, r.stamp)
    /\ base = r.seen.hash

WritePage(t, c, base, hash) ==
    LET r == txn[t] IN
    /\ r.pc = "write" /\ ClaimFree(t, c)
    /\ MayWrite(t, c, base)
    /\ page' = [page EXCEPT ![r.page].version = r.seen.version + 1, ![r.page].hash = hash]
    /\ claim' = [claim EXCEPT ![c].base = hash]
    /\ Finish(t)
    /\ UNCHANGED <<now, note>>

WriteRefused(t, c, base) ==
    /\ txn[t].pc = "write" /\ ClaimFree(t, c)
    /\ ~MayWrite(t, c, base)
    /\ Finish(t)
    /\ UNCHANGED <<now, page, claim, note>>

(* deletePage: the row lock is on the root only; the leases of the subtree *)
(* are read under it, then every row of the subtree is updated and with it *)
(* locked, then the counterparts the removed pages had elsewhere.          *)
DeleteLock(t, a, p) ==
    /\ txn[t].pc = "idle" /\ PageFree(t, p) /\ Live(p)
    /\ \E pc \in {"delete", "override"} :
         /\ pc = "override" => a \in Admin
         /\ pc = "delete" => \A c \in ClaimId :
              (Unreleased(c) /\ claim[c].page \in Subtree[p] /\ Live(claim[c].page)
                 /\ ~IsExpired(c, now)) => Holds(c, a)
         /\ txn' = [txn EXCEPT ![t] = [Idle EXCEPT !.pc = pc, !.stamp = now, !.who = a,
                                                    !.page = p, !.seen = page[p]]]
    /\ UNCHANGED <<now, page, claim, note>>

DeletePages(t) ==
    LET r == txn[t] removed == Removed(r.page) IN
    /\ r.pc \in {"delete", "override"} /\ r.also = {}
    /\ \A p \in removed : PageFree(t, p)
    /\ txn' = [txn EXCEPT ![t].also = removed]
    /\ UNCHANGED <<now, page, claim, note>>

(* The counterparts are unlinked and the leases end with the same commit.  *)
(* Nobody who holds a claim row waits for a page row, so that waiting for  *)
(* both kinds at once hides no ring.                                       *)
Counterparts(S) == {q \in Page \ S : page[q].link \in S}
DeleteCommit(t) ==
    LET r == txn[t]
        ended == {c \in ClaimId : Unreleased(c) /\ claim[c].page \in r.also}
    IN  /\ r.pc \in {"delete", "override"} /\ r.also # {}
        /\ \A q \in Counterparts(r.also) : PageFree(t, q)
        /\ \A c \in ended : ClaimFree(t, c)
        /\ page' = [p \in Page |->
              IF p \in r.also THEN [page[p] EXCEPT !.deleted = r.stamp, !.link = None]
              ELSE IF p \in Counterparts(r.also) THEN [page[p] EXCEPT !.link = None]
              ELSE page[p]]
        /\ claim' = EndClaims(ended, "forced")
        /\ note' = DropNotes(ended)
        /\ Finish(t)
        /\ UNCHANGED now

(* restorePage: the page is locked first, then its parent, and last the    *)
(* rows below it that went at the same moment.  The counterpart is not     *)
(* linked again.                                                           *)
RestoreLock(t, p) ==
    /\ txn[t].pc = "idle" /\ PageFree(t, p) /\ ~Live(p)
    /\ txn' = [txn EXCEPT ![t] = [Idle EXCEPT !.pc = "restore", !.stamp = now,
                                              !.page = p, !.seen = page[p]]]
    /\ UNCHANGED <<now, page, claim, note>>

(* It is refused if the parent is deleted, and also if a path is taken or  *)
(* the parent has moved: paths are PageTree's, so that a refusal is always *)
(* possible here.                                                          *)
Parents(p) == {q \in Page : IsParent(q, p)}
RestoreParent(t) ==
    LET r == txn[t] IN
    /\ r.pc = "restore"
    /\ \A q \in Parents(r.page) : PageFree(t, q)
    /\ \/ /\ \A q \in Parents(r.page) : Live(q)
          /\ txn' = [txn EXCEPT ![t] = [r EXCEPT
                !.pc = "restoring", !.also = Parents(r.page),
                !.found = {q \in Subtree[r.page] : page[q].deleted = r.seen.deleted}]]
       \/ Finish(t)
    /\ UNCHANGED <<now, page, claim, note>>

RestoreCommit(t) ==
    LET r == txn[t] IN
    /\ r.pc = "restoring"
    /\ \A q \in r.found : PageFree(t, q)
    /\ page' = [q \in Page |->
          IF q \in r.found THEN [page[q] EXCEPT !.deleted = None] ELSE page[q]]
    /\ Finish(t)
    /\ UNCHANGED <<now, claim, note>>

(* The periodic sweep.                                                     *)
ExpireStaleClaims ==
    /\ Stale # {}
    /\ \A c \in Stale, u \in Slot : c \notin txn[u].lapsed
    /\ claim' = EndClaims(Stale, "expired")
    /\ note' = DropNotes(Stale)
    /\ UNCHANGED <<now, page, txn>>

Tick == now < Horizon /\ now' = now + 1 /\ UNCHANGED <<page, claim, note, txn>>

(* The process or its connection dies before the commit: nothing happened. *)
Abort(t) ==
    /\ Faults /\ txn[t].pc # "idle"
    /\ Finish(t)
    /\ UNCHANGED <<now, page, claim, note>>

(* Two requests may wait for page rows in a ring: a delete goes down from  *)
(* its root and then to the counterparts, a restore goes up to the parent  *)
(* and then down.  PostgreSQL looks for rings among those who wait and     *)
(* rolls one of them back.                                                 *)
WantsRows(t) ==
    LET r == txn[t] IN
    CASE r.pc \in {"delete", "override"} /\ r.also = {} -> Removed(r.page)
      [] r.pc \in {"delete", "override"} /\ r.also # {} -> Counterparts(r.also)
      [] r.pc = "restore"   -> Parents(r.page)
      [] r.pc = "restoring" -> r.found
      [] OTHER              -> {}
Waits(t, u) == t # u /\ WantsRows(t) \cap Held(u) # {}
InRing(t) ==
    \E S \in SUBSET Slot : /\ t \in S
                           /\ \E next \in [S -> S] : /\ {next[u] : u \in S} = S
                                                      /\ \A u \in S : Waits(u, next[u])
Victim(t) == InRing(t) /\ Finish(t) /\ UNCHANGED <<now, page, claim, note>>

----------------------------------------------------------------------------
AcquireCommit(t) == \E ttl \in Ttl : AcquireInsert(t, ttl) \/ AcquireHeartbeat(t, ttl)
WriteCommit(t) ==
    \E c \in ClaimId, base \in Hash :
        WriteRefused(t, c, base) \/ \E hash \in Hash : WritePage(t, c, base, hash)
Locking(t) ==
    \E a \in Actor, p \in Page :
        \/ \E s \in Target : AcquireLock(t, a, p, s)
        \/ WriteLock(t, a, p)
        \/ DeleteLock(t, a, p)
        \/ RestoreLock(t, p)
Proceed(t) ==
    \/ AcquireExpire(t) \/ AcquireCommit(t) \/ WriteCommit(t)
    \/ DeletePages(t) \/ DeleteCommit(t)
    \/ RestoreParent(t) \/ RestoreCommit(t)
OnClaim(t) ==
    \E a \in Actor, c \in ClaimId :
        PostNote(t, a, c) \/ \E ttl \in Ttl : RenewClaim(t, a, c, ttl)

Next ==
    \/ \E t \in Slot : \/ Begin(t) \/ Locking(t) \/ OnClaim(t) \/ Proceed(t)
                        \/ Victim(t) \/ Abort(t)
    \/ \E a \in Actor, c \in ClaimId : ReleaseClaim(a, c)
    \/ ExpireStaleClaims
    \/ Tick

Spec == Init /\ [][Next]_vars

(* A statement that waits for a row lock gets it in the order it asked, so *)
(* a lock that is free again and again is granted; a request that holds    *)
(* locks is never kept from the database for ever, the sweep timer keeps   *)
(* firing, and a ring that lasts is found (deadlock_timeout).              *)
Fairness ==
    /\ SF_vars(ExpireStaleClaims)
    /\ \A t \in Slot : SF_vars(Proceed(t)) /\ WF_vars(Victim(t))

FairSpec == Spec /\ Fairness

----------------------------------------------------------------------------
(* Types: rows and requests have the shape of their tables.  A claim a     *)
(* request has set out to expire or extend is a row that exists.           *)
TypeOK ==
    /\ now \in Nat
    /\ page \in [Page -> PageRow]
    /\ claim \in [ClaimId -> ClaimRow \cup {None}]
    /\ note \in [ClaimId -> Nat \cup {None}]
    /\ txn \in [Slot -> Request]

(* Rule 1 of the claim service: two claims that overlap on a page are      *)
(* never active together, whatever requests race for it, although the page *)
(* lock and not an index is all that keeps a section from its whole page.  *)
Exclusion ==
    \A c, d \in ClaimId :
        (/\ c # d /\ Unreleased(c) /\ Unreleased(d)
         /\ claim[c].page = claim[d].page)
            => ~TargetsOverlap(claim[c].sect, claim[d].sect)

(* No lost update: the holder of a whole page's lease holds the hash of    *)
(* what the page says now, so nobody else has written under it, and its    *)
(* own writes, deletes and restores have not left it behind.               *)
LeaseBaseCurrent ==
    \A c \in ClaimId : (Unreleased(c) /\ claim[c].sect = Whole)
                          => claim[c].base = page[claim[c].page].hash

(* Notes live exactly as long as the claim they hang on: none outlives its *)
(* claim, and none has another deadline than its claim.                    *)
NotesFollowClaims ==
    \A c \in ClaimId : note[c] # None => Unreleased(c) /\ note[c] = claim[c].expires

(* No active claim points at a deleted page, though a claim can be asked   *)
(* for, extended or released while the delete is under way.                *)
NoClaimOnDeletedPage ==
    \A c \in ClaimId : Unreleased(c) => Live(claim[c].page)

(* A claim that has ended stays ended, for the reason it ended: a late     *)
(* heartbeat or renewal does not revive it, and no second sweep, release   *)
(* or delete ends it again.                                                *)
EndedIsFinal ==
    [][\A c \in ClaimId : (claim[c] # None /\ ~Unreleased(c))
           => claim'[c] # None /\ claim'[c].reason = claim[c].reason]_vars

(* The lease of another actor, read as live, survives a delete that was    *)
(* not an administrator's override (deletePage's comment, service.ts       *)
(* 1462-1467).                                                             *)
DeleteSparesOthers ==
    [][\A t \in Slot, c \in ClaimId :
         (/\ txn[t].pc = "delete" /\ txn'[t].pc = "idle"
          /\ Unreleased(c) /\ ~IsExpired(c, now)
          /\ ~Holds(c, txn[t].who))
             => claim'[c].reason # "forced"]_vars

(* Rule 2 of the claim service under fairness: a lease past its deadline   *)
(* is released or extended in the end, also when nobody asks about it.     *)
LapsedEnds ==
    \A c \in ClaimId : (Unreleased(c) /\ IsExpired(c, now))
                          ~> ~(Unreleased(c) /\ IsExpired(c, now))

(* A request that holds a page's row lock finishes.  Deletes and restores  *)
(* take page rows in different orders and do wait for each other; every    *)
(* ring is one of page rows, which the database sees and breaks by rolling *)
(* one request back, and everyone else gets done.                          *)
LockHoldersFinish == \A t \in Slot : txn[t].page # None ~> txn[t].page = None

----------------------------------------------------------------------------
(* What all this implements: leases that are granted, written under and    *)
(* ended in one step each.                                                 *)
leaseOf == [c \in ClaimId |->
    IF Unreleased(c)
    THEN [page |-> claim[c].page, sect |-> claim[c].sect, holder |-> claim[c].holder]
    ELSE None]
usedIds == {c \in ClaimId : claim[c] # None}
versionOf == [p \in Page |-> page[p].version]
livePages == {p \in Page : Live(p)}

Lease == INSTANCE PageLease WITH
             lease <- leaseOf, used <- usedIds, version <- versionOf, live <- livePages
Leases == Lease!Spec
=============================================================================
