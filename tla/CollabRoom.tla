----------------------------- MODULE CollabRoom -----------------------------
(***************************************************************************)
(* The live editing session of one page: the room in the server's memory,  *)
(* the browsers connected to it, the one claim it holds for all of them,   *)
(* and the unsaved document it leaves in the database.                     *)
(*                                                                         *)
(* The server is one event loop.  A handler runs without interruption from *)
(* one await to the next, so a step of the model is what it does between   *)
(* two awaits, and everything it read before an await may be out of date   *)
(* after it.  A claim is taken in the database by a step of its own; any   *)
(* other database call takes effect together with the code before or after *)
(* its await.                                                              *)
(*                                                                         *)
(* A document is a CRDT: the builds it was made from (a page's text turned *)
(* into a document by one browser, different from every other build of the *)
(* same text) and the edits typed into it; two documents merge by union.   *)
(* A page is the set of things written into it, which stands for its hash. *)
(***************************************************************************)
EXTENDS Naturals, FiniteSets

CONSTANTS
    Browser,     \* tabs with the page's editor open
    Edit,        \* what people can type, each once (bound)
    Outside,     \* what others, agents say, can write under a claim of theirs (bound)
    RoomId,      \* room objects the server can ever make (bound)
    Slot,        \* handlers in flight at once (bound)
    ClaimId,     \* claims told apart at one time (bound)
    Reconnect,   \* TRUE if a browser may come back with the document it has
    None

ASSUME RoomAssumption ==
    /\ Reconnect \in BOOLEAN
    /\ Edit \cap Outside = {}
    /\ None \notin RoomId \cup Browser \cup ClaimId

Text  == SUBSET (Edit \cup Outside)
Build == [by : Browser, room : RoomId, text : Text]
Doc   == [built : SUBSET Build, typed : SUBSET Edit]

Empty == [built |-> {}, typed |-> {}]
Merge(d, e)   == [built |-> d.built \cup e.built, typed |-> d.typed \cup e.typed]
Covers(d, e)  == e.built \subseteq d.built /\ e.typed \subseteq d.typed
Serialise(d)  == d.typed \cup UNION {x.text : x \in d.built}

VARIABLES
    page,       \* the page's text
    row,        \* page_collab_states: the unsaved document and the text it was typed over
    claim,      \* the active claim on the page
    live,       \* the room the server's map holds for the page
    room,       \* every room object
    browser,    \* every browser
    req         \* the handlers in flight

vars == <<page, row, claim, live, room, browser, req>>

Room == [base : Text, doc : Doc, seeded : BOOLEAN, seeder : Browser \cup {None},
         claim : ClaimId \cup {None, "no id"}, status : {"live", "paused"}, dirty : BOOLEAN,
         clients : SUBSET Browser, timer : BOOLEAN, persisting : BOOLEAN, made : BOOLEAN]

Unmade == [base |-> {}, doc |-> Empty, seeded |-> FALSE, seeder |-> None, claim |-> None,
           status |-> "paused", dirty |-> FALSE, clients |-> {}, timer |-> FALSE,
           persisting |-> FALSE, made |-> FALSE]

(* at is the room whose stream the browser reads, ready says that it may   *)
(* edit, and asked that it has been told to build the document.            *)
Tab == [doc : Doc, at : RoomId \cup {None}, ready : BOOLEAN, asked : BOOLEAN]
Fresh == [doc |-> Empty, at |-> None, ready |-> FALSE, asked |-> FALSE]

(* doc is the document sent with the request, text the page it has read,   *)
(* reply the claim it was granted.                                         *)
Handler == [pc : {"idle", "load", "hold", "held", "reset", "drop", "read", "written", "close"},
            kind : {"join", "seed", "update", "save", "leave", "renew", "evict", "none"},
            by : Browser \cup {None}, room : RoomId \cup {None}, doc : Doc,
            text : Text, covered : BOOLEAN,
            reply : [id : ClaimId, base : Text] \cup {None}]

Idle == [pc |-> "idle", kind |-> "none", by |-> None, room |-> None, doc |-> Empty,
         text |-> {}, covered |-> FALSE, reply |-> None]

Init ==
    /\ page = {} /\ row = None /\ claim = None /\ live = None
    /\ room = [r \in RoomId |-> Unmade]
    /\ browser = [b \in Browser |-> Fresh]
    /\ req = [t \in Slot |-> Idle]

Finish(t) == req' = [req EXCEPT ![t] = Idle]
Start(t, kind, b, r, pc, d) ==
    /\ req[t].pc = "idle"
    /\ req' = [req EXCEPT ![t] =
                 [Idle EXCEPT !.pc = pc, !.kind = kind, !.by = b, !.room = r, !.doc = d]]

(* requireClient: the page has a room and the browser is in it.            *)
Connected(b) == live # None /\ b \in room[live].clients

(* persist writes nothing for a document that is not built or has nothing  *)
(* unsaved.                                                                *)
Persisted(rm) ==
    IF rm.seeded /\ rm.dirty THEN [base |-> rm.base, doc |-> rm.doc] ELSE row

(* destroyRoom stops the clocks and forgets whatever room the map holds for*)
(* the page.  A handler still in flight goes on with the object; without   *)
(* one it is out of reach.                                                 *)
Destroy(t, r) ==
    /\ room' = [room EXCEPT ![r] =
         IF \E u \in Slot \ {t} : req[u].room = r THEN [@ EXCEPT !.timer = FALSE, !.persisting = FALSE]
                                                  ELSE [Unmade EXCEPT !.made = TRUE]]
    /\ live' = None

(* dropClaim releases the claim the room thinks it has, if it has one.  A  *)
(* faulty variant stands before each definition it would replace.          *)
DroppingUnchecked(rm) == [id |-> rm.claim, base |-> {}]
Dropping(rm) == IF rm.claim \in ClaimId THEN [id |-> rm.claim, base |-> {}] ELSE None

(* releaseClaim by its id, and only a claim of the session's own.          *)
Release(id) ==
    claim' = IF claim # None /\ claim.holder = "session" /\ claim.id = id THEN None ELSE claim

----------------------------------------------------------------------------
(* joinRoom: read the page, look the room up, make it if there is none.    *)
Enter(t, b, r) ==
    req' = [req EXCEPT ![t] = [Idle EXCEPT !.pc = "hold", !.kind = "join", !.by = b, !.room = r]]

Join(t, b) ==
    /\ req[t].pc = "idle" /\ browser[b].at = None
    /\ \A u \in Slot : ~(req[u].kind = "join" /\ req[u].by = b)
    /\ \/ /\ live # None
          /\ room' = [room EXCEPT ![live].clients = @ \cup {b}]
          /\ Enter(t, b, live)
       \/ /\ live = None
          /\ req' = [req EXCEPT ![t] =
                [Idle EXCEPT !.pc = "load", !.kind = "join", !.by = b, !.text = page]]
          /\ UNCHANGED room
    /\ UNCHANGED <<page, row, claim, live, browser>>

(* The persisted document is taken up only over the text it was typed over.*)
ResumableOverAny(text) == row # None
Resumable(text) == row # None /\ row.base = text
NewRoom(text, b) ==
    [Unmade EXCEPT !.made = TRUE, !.base = text, !.clients = {b},
        !.doc = IF Resumable(text) THEN row.doc ELSE Empty,
        !.seeded = Resumable(text), !.dirty = Resumable(text)]

OpenRoom(t) ==
    LET text == req[t].text  b == req[t].by IN
    /\ req[t].pc = "load"
    /\ row' = IF Resumable(text) THEN row ELSE None
    /\ \/ /\ live # None                       \* another request made it first
          /\ room' = [room EXCEPT ![live].clients = @ \cup {b}]
          /\ Enter(t, b, live)
          /\ UNCHANGED live
       \/ /\ live = None
          /\ \E r \in RoomId :
                /\ ~room[r].made
                /\ room' = [room EXCEPT ![r] = NewRoom(text, b)]
                /\ live' = r
                /\ Enter(t, b, r)
    /\ UNCHANGED <<page, claim, browser>>

----------------------------------------------------------------------------
(* holdClaim: acquire under the session's identity, which every room of    *)
(* the page shares, then compare what the claim covers with the room.      *)
InUse(c) == \/ claim # None /\ claim.id = c
            \/ \E r \in RoomId : room[r].claim = c
            \/ \E t \in Slot : req[t].reply # None /\ req[t].reply.id = c

AcquireClaim(t) ==
    /\ req[t].pc = "hold"
    /\ \/ /\ claim = None
          /\ \E c \in ClaimId :
                /\ ~InUse(c)
                /\ claim' = [holder |-> "session", id |-> c, base |-> page]
                /\ req' = [req EXCEPT ![t].pc = "held", ![t].reply = [id |-> c, base |-> page]]
       \/ /\ claim # None
          /\ req' = [req EXCEPT ![t].pc = "held", ![t].reply =
                IF claim.holder = "session" THEN [id |-> claim.id, base |-> claim.base] ELSE None]
          /\ UNCHANGED claim
    /\ UNCHANGED <<page, row, live, room, browser>>

(* The answer has come, and the claim does not start from another text.    *)
Answered(t, kinds) ==
    /\ req[t].pc = "held" /\ req[t].kind \in kinds
    /\ req[t].reply # None => req[t].reply.base = room[req[t].room].base
Granted(t) == req[t].reply # None
Holding(t) ==
    LET rm == room[req[t].room] IN
    IF Granted(t) THEN [rm EXCEPT !.claim = req[t].reply.id, !.status = "live"]
                  ELSE [rm EXCEPT !.claim = None, !.status = "paused"]

(* It does: give the claim back and reset the room.                        *)
HoldMismatch(t) ==
    /\ req[t].pc = "held" /\ req[t].reply # None
    /\ req[t].reply.base # room[req[t].room].base
    /\ req' = [req EXCEPT ![t].pc = "reset"]
    /\ UNCHANGED <<page, row, claim, live, room, browser>>

(* resetRoom: whoever reads the room, or is about to, loads the page again.*)
Reads(b, r) ==
    \/ browser[b].at = r
    \/ \E t \in Slot : req[t].kind = "join" /\ req[t].by = b /\ req[t].room = r

ResetRoom(t) ==
    LET r == req[t].room IN
    /\ req[t].pc = "reset"
    /\ Release(req[t].reply.id)
    /\ browser' = [b \in Browser |->
                     IF b \in room[r].clients /\ Reads(b, r) THEN Fresh ELSE browser[b]]
    /\ row' = None
    /\ Destroy(t, r)
    /\ Finish(t)
    /\ UNCHANGED <<page>>

(* The rest of joinRoom: unless the page has no room any more, start the   *)
(* clock, choose who builds the document, and greet the browser, which     *)
(* merges what it is sent into the document it has.                        *)
Greet(t) ==
    LET r == req[t].room
        b == req[t].by
        held == Holding(t)
        seeder == IF ~held.seeded /\ held.seeder = None THEN b ELSE held.seeder
    IN  /\ Answered(t, {"join"})
        /\ \/ /\ live = None
              /\ room' = [room EXCEPT ![r] = held]
              /\ UNCHANGED browser
           \/ /\ live # None
              /\ room' = [room EXCEPT ![r] = [held EXCEPT !.timer = TRUE, !.seeder = seeder]]
              /\ browser' = [browser EXCEPT ![b] =
                   [doc |-> IF held.seeded THEN Merge(@.doc, held.doc) ELSE @.doc,
                    at |-> r, ready |-> held.seeded, asked |-> seeder = b]]
        /\ Finish(t)
        /\ UNCHANGED <<page, row, claim, live>>

----------------------------------------------------------------------------
(* applyRoomUpdate.  A room that is not live takes its claim back first;   *)
(* what was checked before that await is not checked again after it.       *)
Applied(rm, kind, d) ==
    IF kind = "seed"
    THEN [rm EXCEPT !.doc = Merge(@, d), !.seeded = TRUE, !.seeder = None]
    ELSE [rm EXCEPT !.doc = Merge(@, d), !.dirty = TRUE, !.persisting = TRUE]

ApplyOrHold(t, kind, b, d) ==
    \/ /\ room[live].status = "live"
       /\ room' = [room EXCEPT ![live] = Applied(@, kind, d)]
       /\ UNCHANGED req
    \/ /\ room[live].status = "paused"
       /\ Start(t, kind, b, live, "hold", d)
       /\ UNCHANGED room

(* The browser that was asked builds the document, or offers its own.      *)
Built(b) ==
    IF browser[b].doc # Empty THEN browser[b].doc
    ELSE [built |-> {[by |-> b, room |-> browser[b].at, text |-> room[browser[b].at].base]},
          typed |-> {}]

MayBuild(b) == ~room[live].seeded /\ room[live].seeder = b
Seed(t, b) ==
    /\ browser[b].asked /\ ~browser[b].ready /\ Connected(b)
    /\ \/ /\ MayBuild(b)
          /\ ApplyOrHold(t, "seed", b, Built(b))
          /\ browser' = [browser EXCEPT ![b].asked = FALSE, ![b].doc = Built(b),
                                         ![b].ready = room[live].status = "live"]
       \/ /\ ~MayBuild(b)
          /\ browser' = [browser EXCEPT ![b].asked = FALSE, ![b].doc = Built(b),
                                         ![b].ready = TRUE]
          /\ UNCHANGED <<room, req>>
    /\ UNCHANGED <<page, row, claim, live>>

Type(b, e) ==
    /\ browser[b].ready /\ browser[b].at = live
    /\ \A c \in Browser : e \notin browser[c].doc.typed
    /\ e \notin page
    /\ \A r \in RoomId : e \notin room[r].doc.typed
    /\ browser' = [browser EXCEPT ![b].doc.typed = @ \cup {e}]
    /\ UNCHANGED <<page, row, claim, live, room, req>>

Send(t, b) ==
    /\ browser[b].ready /\ Connected(b) /\ room[live].seeded
    /\ ~Covers(room[live].doc, browser[b].doc)
    /\ ApplyOrHold(t, "update", b, browser[b].doc)
    /\ UNCHANGED <<page, row, claim, live, browser>>

(* The stream brings a browser up to the document of the room it reads.    *)
Receive(b) ==
    LET r == browser[b].at IN
    /\ r # None /\ room[r].seeded /\ ~Covers(browser[b].doc, room[r].doc)
    /\ browser' = [browser EXCEPT ![b].doc = Merge(@, room[r].doc)]
    /\ UNCHANGED <<page, row, claim, live, room, req>>

(* The claim is back, or is not, for an update that waited for it.         *)
Apply(t) ==
    LET r == req[t].room  b == req[t].by  kind == req[t].kind IN
    /\ Answered(t, {"seed", "update"})
    /\ IF Granted(t) /\ live # None
       THEN /\ room' = [room EXCEPT ![r] = Applied(Holding(t), kind, req[t].doc)]
            /\ browser' = [browser EXCEPT ![b].ready =
                 @ \/ (browser[b].at = r /\ Covers(browser[b].doc, req[t].doc))]
       ELSE room' = [room EXCEPT ![r] = Holding(t)] /\ UNCHANGED browser
    /\ Finish(t)
    /\ UNCHANGED <<page, row, claim, live>>

(* resumeRoom on request, and the rest of a handler that only holds.       *)
Resume(t, b) ==
    /\ Connected(b) /\ room[live].status = "paused"
    /\ Start(t, "renew", None, live, "hold", Empty)
    /\ UNCHANGED <<page, row, claim, live, room, browser>>

Held(t) ==
    /\ Answered(t, {"renew"})
    /\ room' = [room EXCEPT ![req[t].room] = Holding(t)]
    /\ Finish(t)
    /\ UNCHANGED <<page, row, claim, live, browser>>

----------------------------------------------------------------------------
(* saveRoom: decide whether the sender's document covers the room's, read  *)
(* the page, write it if it would change, and only then note the result.  A*)
(* room that is live without a claim, which it is just giving back, refuses*)
(* the save.                                                               *)
Save(t, b) ==
    /\ browser[b].ready /\ Connected(b)
    /\ LET rm == room[live] d == browser[b].doc IN
       \/ /\ rm.status = "live" /\ rm.claim # None /\ req[t].pc = "idle"
          /\ req' = [req EXCEPT ![t] =
               [Idle EXCEPT !.pc = "read", !.kind = "save", !.by = b, !.room = live, !.doc = d,
                            !.covered = Covers(d, rm.doc), !.text = page]]
       \/ rm.status = "paused" /\ Start(t, "save", b, live, "hold", d)
    /\ UNCHANGED <<page, row, claim, live, room, browser>>

SaveHeld(t) ==
    LET r == req[t].room IN
    /\ Answered(t, {"save"})
    /\ room' = [room EXCEPT ![r] = Holding(t)]
    /\ IF Granted(t) /\ live # None
       THEN req' = [req EXCEPT ![t].pc = "read", ![t].text = page, ![t].reply = None,
                               ![t].covered = Covers(req[t].doc, room[r].doc)]
       ELSE Finish(t)
    /\ UNCHANGED <<page, row, claim, live, browser>>

Cleaned(rm, covered) == IF covered THEN [rm EXCEPT !.dirty = FALSE] ELSE rm

SaveUnchanged(t) ==
    LET r == req[t].room IN
    /\ req[t].pc = "read" /\ Serialise(req[t].doc) = req[t].text
    /\ room' = [room EXCEPT ![r] = Cleaned(@, req[t].covered)]
    /\ row' = IF req[t].covered THEN None ELSE row
    /\ Finish(t)
    /\ UNCHANGED <<page, claim, live, browser>>

(* updatePage under the room's claim and over the room's base.             *)
MayWrite(r) ==
    /\ claim # None /\ claim.holder = "session" /\ claim.id = room[r].claim
    /\ room[r].base = page
SaveWrites(t) ==
    LET r == req[t].room  body == Serialise(req[t].doc) IN
    /\ req[t].pc = "read" /\ body # req[t].text
    /\ IF MayWrite(r)
       THEN /\ page' = body
            /\ claim' = [claim EXCEPT !.base = body]
            /\ req' = [req EXCEPT ![t].pc = "written"]
       ELSE Finish(t) /\ UNCHANGED <<page, claim>>
    /\ UNCHANGED <<row, live, room, browser>>

(* A claim dropped meanwhile leaves an object that has no id.              *)
Saved(t) ==
    LET r == req[t].room
        saved == Cleaned([room[r] EXCEPT !.base = Serialise(req[t].doc),
                                         !.claim = IF @ = None THEN "no id" ELSE @], req[t].covered)
    IN  /\ req[t].pc = "written"
        /\ room' = [room EXCEPT ![r] = saved]
        /\ row' = IF req[t].covered THEN None ELSE Persisted(saved)
        /\ Finish(t)
        /\ UNCHANGED <<page, claim, live, browser>>

----------------------------------------------------------------------------
(* A browser goes: its tab is closed, or its stream drops and it keeps the *)
(* document to come back with.                                             *)
Gone(b) == {Fresh} \cup
    (IF Reconnect THEN {[Fresh EXCEPT !.doc = browser[b].doc]} ELSE {})

Left(rm, b) ==
    LET stay == rm.clients \ {b} IN
    [rm EXCEPT !.clients = stay, !.seeder = IF @ = b THEN None ELSE @]

(* The job of building the document goes to somebody who is left.          *)
NobodyNext(rm, b) == {IF rm.seeder = b THEN None ELSE rm.seeder}
NextSeeder(rm, b) ==
    IF rm.seeder # b THEN {rm.seeder}
    ELSE IF rm.seeded \/ rm.clients = {b} THEN {None} ELSE rm.clients \ {b}

LeaveOthers(t, b) ==
    /\ browser[b].at # None /\ browser[b].at = live
    /\ room[live].clients # {b}
    /\ \E s \in NextSeeder(room[live], b), gone \in Gone(b) :
         /\ room' = [room EXCEPT ![live] = [Left(@, b) EXCEPT !.seeder = s]]
         /\ browser' = [c \in Browser |->
               IF c = b THEN gone
               ELSE IF c = s /\ room[live].seeder # s /\ browser[c].at = live
                    THEN [browser[c] EXCEPT !.asked = TRUE] ELSE browser[c]]
    /\ IF room[live].status = "live" THEN Start(t, "renew", None, live, "hold", Empty)
                                     ELSE UNCHANGED req
    /\ UNCHANGED <<page, row, claim, live>>

(* The last one out: unsaved text is written down, or the claim is given   *)
(* back; the room is destroyed after that await.                           *)
LeaveLast(t, b) ==
    /\ browser[b].at # None /\ browser[b].at = live
    /\ room[live].clients = {b}
    /\ \E gone \in Gone(b) : browser' = [browser EXCEPT ![b] = gone]
    /\ LET rm == Left(room[live], b) IN
       \/ /\ rm.dirty
          /\ row' = Persisted(rm)
          /\ room' = [room EXCEPT ![live] = rm]
          /\ Start(t, "leave", None, live, "close", Empty)
       \/ /\ ~rm.dirty
          /\ room' = [room EXCEPT ![live] = [rm EXCEPT !.claim = None]]
          /\ req[t].pc = "idle"
          /\ req' = [req EXCEPT ![t] =
               [Idle EXCEPT !.pc = "drop", !.kind = "leave", !.room = live,
                 !.reply = Dropping(rm)]]
          /\ UNCHANGED row
    /\ UNCHANGED <<page, claim, live>>

(* A stream whose room is gone ends without the server noticing.           *)
LeaveNothing(b) ==
    /\ browser[b].at # None /\ browser[b].at # live
    /\ \E gone \in Gone(b) : browser' = [browser EXCEPT ![b] = gone]
    /\ UNCHANGED <<page, row, claim, live, room, req>>

(* renewRoom: a room nobody types in gives the page back.                  *)
Renew(t, r) ==
    /\ room[r].timer /\ room[r].status = "live"
    /\ \/ /\ Start(t, "renew", None, r, "hold", Empty)
          /\ UNCHANGED room
       \/ /\ ~room[r].dirty /\ req[t].pc = "idle"
          /\ room' = [room EXCEPT ![r].claim = None]
          /\ req' = [req EXCEPT ![t] =
               [Idle EXCEPT !.pc = "drop", !.kind = "renew", !.room = r,
                 !.reply = Dropping(room[r])]]
    /\ UNCHANGED <<page, row, claim, live, browser>>

(* What follows dropClaim: a pause after a turn of the clock, the end of   *)
(* the room after the last one has left.                                   *)
Dropped(t) ==
    LET r == req[t].room IN
    /\ req[t].pc = "drop"
    /\ IF req[t].reply = None THEN UNCHANGED claim ELSE Release(req[t].reply.id)
    /\ IF req[t].kind = "renew"
       THEN room' = [room EXCEPT ![r].status = "paused"] /\ UNCHANGED live
       ELSE Destroy(t, r)
    /\ Finish(t)
    /\ UNCHANGED <<page, row, browser>>

(* closeRoomsInSpace and closeRoomsForPages: persist, then disconnect.     *)
Evict(t) ==
    /\ live # None
    /\ row' = Persisted(room[live])
    /\ Start(t, "evict", None, live, "close", Empty)
    /\ UNCHANGED <<page, claim, live, room, browser>>

Close(t) ==
    LET r == req[t].room IN
    /\ req[t].pc = "close"
    /\ Destroy(t, r)
    /\ \E back \in [Browser -> UNION {Gone(b) : b \in Browser}] :
         /\ \A b \in Browser : back[b] \in Gone(b)
         /\ browser' = [b \in Browser |->
              IF req[t].kind = "evict" /\ b \in room[r].clients /\ browser[b].at = r
              THEN back[b] ELSE browser[b]]
    /\ Finish(t)
    /\ UNCHANGED <<page, row, claim>>

(* The timer an update has set; an update that comes late sets it for a    *)
(* room that is no longer in the map.                                      *)
Persist(r) ==
    /\ room[r].persisting
    /\ room' = [room EXCEPT ![r].persisting = FALSE]
    /\ row' = Persisted(room[r])
    /\ UNCHANGED <<page, claim, live, browser, req>>

(* The process dies: rooms and handlers are gone, streams drop.            *)
Crash ==
    /\ live # None \/ req # [t \in Slot |-> Idle]
    /\ live' = None
    /\ room' = [r \in RoomId |-> [Unmade EXCEPT !.made = room[r].made]]
    /\ req' = [t \in Slot |-> Idle]
    /\ \E back \in [Browser -> UNION {Gone(b) : b \in Browser}] :
         /\ \A b \in Browser : back[b] \in Gone(b)
         /\ browser' = back
    /\ UNCHANGED <<page, row, claim>>

----------------------------------------------------------------------------
(* Everybody else: a claim on the page, a write under it, and its end.     *)
(* The session's own claim may end too: by its deadline when the server is *)
(* slow or down, or by an administrator.                                   *)
OutsideClaims ==
    /\ claim = None
    /\ claim' = [holder |-> "outside", id |-> None, base |-> page]
    /\ UNCHANGED <<page, row, live, room, browser, req>>

OutsideWrites(w) ==
    /\ claim # None /\ claim.holder = "outside" /\ w \notin page
    /\ page' = page \cup {w}
    /\ claim' = [claim EXCEPT !.base = page']
    /\ UNCHANGED <<row, live, room, browser, req>>

ClaimEnds ==
    /\ claim # None /\ claim' = None
    /\ UNCHANGED <<page, row, live, room, browser, req>>

Requests(t) ==
    \E b \in Browser :
        Join(t, b) \/ Seed(t, b) \/ Send(t, b) \/ Resume(t, b) \/ Save(t, b)
        \/ LeaveOthers(t, b) \/ LeaveLast(t, b)
Continues(t) ==
    \/ OpenRoom(t) \/ AcquireClaim(t) \/ HoldMismatch(t) \/ ResetRoom(t)
    \/ Greet(t) \/ Apply(t) \/ Held(t) \/ SaveHeld(t) \/ SaveUnchanged(t)
    \/ SaveWrites(t) \/ Saved(t) \/ Dropped(t) \/ Close(t)
Clock(t) == Evict(t) \/ \E r \in RoomId : Renew(t, r)

Next ==
    \/ \E t \in Slot : Requests(t) \/ Continues(t) \/ Clock(t)
    \/ \E b \in Browser : Receive(b) \/ LeaveNothing(b) \/ \E e \in Edit : Type(b, e)
    \/ \E r \in RoomId : Persist(r)
    \/ \E w \in Outside : OutsideWrites(w)
    \/ OutsideClaims \/ ClaimEnds \/ Crash

Spec == Init /\ [][Next]_vars

----------------------------------------------------------------------------
(* Rooms, browsers, handlers and the persisted row are of their types: a   *)
(* handler releases only a claim it has an id for, though the room it      *)
(* works on may have lost its claim, or its place in the map, meanwhile.   *)
TypeOK ==
    /\ page \in Text
    /\ row \in [base : Text, doc : Doc] \cup {None}
    /\ claim \in [holder : {"session", "outside"}, id : ClaimId \cup {None}, base : Text] \cup {None}
    /\ live \in RoomId \cup {None}
    /\ room \in [RoomId -> Room]
    /\ browser \in [Browser -> Tab]
    /\ req \in [Slot -> Handler]

(* What others have written under a claim of theirs is never undone by a   *)
(* save of the session.  saveRoom replaces the whole page: the base hash   *)
(* that updatePage compares, the reset of a room whose claim starts from   *)
(* another text, and the refusal to take up a row typed over another text  *)
(* are together what keeps it from writing an old document over a new page.*)
OutsideWritesSurvive == [][page \cap Outside \subseteq page']_vars

(* The document of a room is built once.  applyRoomUpdate takes a seed only*)
(* from the client that was asked, and only while nothing has been built:  *)
(* building it twice would double the page.                                *)
BuiltOnce == \A r \in RoomId : Cardinality(room[r].doc.built) <= 1

(* While the document is still to be built, a connected client has the job:*)
(* joinRoom gives it to the first, and leaveRoom hands it on.  Without it  *)
(* nobody in the session could ever edit.                                  *)
SomebodyBuilds ==
    \A b \in Browser :
        (live # None /\ browser[b].at = live /\ ~room[live].seeded)
            => room[live].seeder \in room[live].clients

(* A room at rest whose document has more than the page it saved says that *)
(* it is unsaved: dirty is what persists it, and what keeps the idle clock *)
(* and the last leave from giving the page back.                           *)
UnsavedIsDirty ==
    \A r \in RoomId :
        (/\ r = live /\ room[r].seeded
         /\ \A t \in Slot : req[t].room # r)
            => Serialise(room[r].doc) \subseteq room[r].base \/ room[r].dirty
=============================================================================
