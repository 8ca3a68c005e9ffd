-------------------------- MODULE CollabRoom_proofs --------------------------
(***************************************************************************)
(* Proofs about CollabRoom, for any number of browsers, rooms, handlers    *)
(* and claims.                                                             *)
(***************************************************************************)
EXTENDS CollabRoom, TLAPS

Record == [base : Text, doc : Doc]
Reply == [id : ClaimId, base : Text]
Claim == [holder : {"session", "outside"}, id : ClaimId \cup {None}, base : Text]

ClaimOK == claim # None /\ claim.holder = "session" => claim.id \in ClaimId

(* A request in flight, by how far it is.                                  *)
RequestOK(q) ==
    /\ q.pc = "idle" <=> q.kind = "none"
    /\ q.pc = "idle" => q.room = None
    /\ q.pc = "load" => q.kind = "join" /\ q.room = None
    /\ q.pc \notin {"idle", "load"} => q.room \in RoomId
    /\ q.kind \in {"join", "seed", "update"} => q.by \in Browser
    /\ q.kind = "join" => q.pc \in {"load", "hold", "held", "reset"}
    /\ q.pc \in {"read", "written"} => q.kind = "save"
    /\ q.pc = "reset" => q.reply # None

(* A browser that reads no room has nothing to do.                         *)
TabOK(x) == x.at = None => ~x.ready /\ ~x.asked

RowOK   == row \in Record \cup {None}
LiveOK  == live \in RoomId \cup {None}
RoomsOK == room \in [RoomId -> Room]
TabsOK  == browser \in [Browser -> Tab] /\ \A b \in Browser : TabOK(browser[b])
RequestsOK == req \in [Slot -> Handler] /\ \A t \in Slot : RequestOK(req[t])

Typed ==
    /\ page \in Text /\ RowOK /\ claim \in Claim \cup {None} /\ ClaimOK /\ LiveOK
    /\ RoomsOK /\ TabsOK /\ RequestsOK

LEMMA TypedType == Typed => TypeOK
  BY DEF Typed, TypeOK, RowOK, LiveOK, RoomsOK, TabsOK, RequestsOK, Record, Claim

----------------------------------------------------------------------------
(* Values of the types.                                                    *)
LEMMA DocTypes ==
    /\ Empty \in Doc
    /\ \A d, e \in Doc : Merge(d, e) \in Doc
    /\ \A d \in Doc : Serialise(d) \in Text
  BY SMTT(30) DEF Doc, Empty, Merge, Serialise, Text, Build

LEMMA ValueTypes ==
    /\ Unmade \in Room /\ [Unmade EXCEPT !.made = TRUE] \in Room
    /\ Fresh \in Tab /\ TabOK(Fresh)
    /\ Idle \in Handler /\ RequestOK(Idle)
    /\ {} \in Text
  <1> {} \in Text
    BY DEF Text
  <1> QED
    BY RoomAssumption, DocTypes DEF Room, Unmade, Tab, Fresh, TabOK, Handler, Idle, RequestOK

LEMMA RoomParts ==
    ASSUME NEW rm \in Room
    PROVE  /\ rm.base \in Text /\ rm.doc \in Doc /\ rm.seeded \in BOOLEAN
           /\ rm.seeder \in Browser \cup {None} /\ rm.claim \in ClaimId \cup {None, "no id"}
           /\ rm.status \in {"live", "paused"} /\ rm.dirty \in BOOLEAN
           /\ rm.clients \in SUBSET Browser /\ rm.timer \in BOOLEAN
           /\ rm.persisting \in BOOLEAN /\ rm.made \in BOOLEAN
  BY DEF Room

LEMMA TabParts ==
    ASSUME NEW x \in Tab
    PROVE  x.doc \in Doc /\ x.at \in RoomId \cup {None} /\ x.ready \in BOOLEAN /\ x.asked \in BOOLEAN
  BY DEF Tab

LEMMA RequestParts ==
    ASSUME NEW q \in Handler
    PROVE  /\ q.by \in Browser \cup {None} /\ q.room \in RoomId \cup {None} /\ q.doc \in Doc
           /\ q.text \in Text /\ q.covered \in BOOLEAN /\ q.reply \in Reply \cup {None}
  BY DEF Handler, Reply

(* Writing one entry of a table of well-typed values.                      *)
LEMMA RoomSet ==
    ASSUME RoomsOK, NEW r \in RoomId, NEW v \in Room, room' = [room EXCEPT ![r] = v]
    PROVE  RoomsOK'
  BY DEF RoomsOK

LEMMA TabSet ==
    ASSUME TabsOK, NEW b \in Browser, NEW v \in Tab, TabOK(v), browser' = [browser EXCEPT ![b] = v]
    PROVE  TabsOK'
  BY DEF TabsOK

LEMMA RequestSet ==
    ASSUME RequestsOK, NEW t \in Slot, NEW v \in Handler, RequestOK(v), req' = [req EXCEPT ![t] = v]
    PROVE  RequestsOK'
  BY DEF RequestsOK

LEMMA FinishSet ==
    ASSUME RequestsOK, NEW t \in Slot, Finish(t)
    PROVE  RequestsOK'
  BY ValueTypes, RequestSet DEF Finish

LEMMA StartSet ==
    ASSUME RequestsOK, NEW t \in Slot, NEW kind, NEW b, NEW r \in RoomId, NEW pc, NEW d \in Doc,
           b \in Browser \cup {None},
           kind \in {"seed", "update", "save", "leave", "renew", "evict"},
           kind \in {"seed", "update"} => b \in Browser,
           pc \in {"hold", "close"},
           Start(t, kind, b, r, pc, d)
    PROVE  RequestsOK'
  <1> DEFINE v == [Idle EXCEPT !.pc = pc, !.kind = kind, !.by = b, !.room = r, !.doc = d]
  <1>1. v \in Handler
    BY ValueTypes DEF Handler, Idle
  <1>2. RequestOK(v)
    BY DEF RequestOK, Idle
  <1>3. req' = [req EXCEPT ![t] = v]
    BY DEF Start
  <1> HIDE DEF v
  <1> QED
    BY <1>1, <1>2, <1>3, RequestSet

(* What the helpers of the model make of a room.                           *)
LEMMA HeldType ==
    ASSUME RoomsOK, RequestsOK, NEW t \in Slot, req[t].pc = "held"
    PROVE  /\ req[t].room \in RoomId
           /\ Holding(t) \in Room
           /\ room[req[t].room] \in Room
  <1>1. req[t] \in Handler /\ RequestOK(req[t])
    BY DEF RequestsOK
  <1>2. req[t].room \in RoomId
    BY <1>1 DEF RequestOK
  <1>3. room[req[t].room] \in Room
    BY <1>2 DEF RoomsOK
  <1>4. req[t].reply # None => req[t].reply.id \in ClaimId
    BY <1>1, RequestParts DEF Reply
  <1> DEFINE rm == room[req[t].room]
  <1>5. ASSUME NEW c \in ClaimId \cup {None}, NEW s \in {"live", "paused"}
        PROVE  [rm EXCEPT !.claim = c, !.status = s] \in Room
    BY <1>3 DEF Room
  <1>6. Holding(t) \in Room
    BY <1>4, <1>5 DEF Holding, Granted
  <1> QED
    BY <1>2, <1>3, <1>6

LEMMA AppliedType ==
    ASSUME NEW rm \in Room, NEW kind, NEW d \in Doc
    PROVE  Applied(rm, kind, d) \in Room
  <1>1. Merge(rm.doc, d) \in Doc
    BY DocTypes, RoomParts
  <1> QED
    BY <1>1 DEF Applied, Room

LEMMA NewRoomType ==
    ASSUME RowOK, NEW text \in Text, NEW b \in Browser
    PROVE  NewRoom(text, b) \in Room
  <1>1. Resumable(text) => row.doc \in Doc
    BY DEF RowOK, Record, Resumable
  <1>2. Resumable(text) \in BOOLEAN
    BY DEF Resumable
  <1>3. (IF Resumable(text) THEN row.doc ELSE Empty) \in Doc
    BY <1>1, DocTypes
  <1>4. ASSUME NEW d \in Doc, NEW s \in BOOLEAN
        PROVE  [Unmade EXCEPT !.made = TRUE, !.base = text, !.clients = {b}, !.doc = d,
                              !.seeded = s, !.dirty = s] \in Room
    BY ValueTypes DEF Room, Unmade
  <1> QED
    BY <1>2, <1>3, <1>4 DEF NewRoom

LEMMA CleanedType ==
    ASSUME NEW rm \in Room, NEW covered
    PROVE  Cleaned(rm, covered) \in Room
  BY DEF Cleaned, Room

LEMMA LeftType ==
    ASSUME NEW rm \in Room, NEW b \in Browser
    PROVE  Left(rm, b) \in Room
  <1>1. rm.clients \ {b} \in SUBSET Browser
    BY DEF Room
  <1> QED
    BY <1>1 DEF Left, Room

LEMMA PersistedType ==
    ASSUME RowOK, NEW rm \in Room
    PROVE  Persisted(rm) \in Record \cup {None}
  BY RoomParts DEF Persisted, RowOK, Record

LEMMA DestroyType ==
    ASSUME RoomsOK, NEW t, NEW r \in RoomId, Destroy(t, r)
    PROVE  RoomsOK' /\ LiveOK'
  <1> DEFINE v == IF \E u \in Slot \ {t} : req[u].room = r
                  THEN [room[r] EXCEPT !.timer = FALSE, !.persisting = FALSE]
                  ELSE [Unmade EXCEPT !.made = TRUE]
  <1>1. room' = [room EXCEPT ![r] = v]
    BY DEF Destroy
  <1>2. [room[r] EXCEPT !.timer = FALSE, !.persisting = FALSE] \in Room
    BY DEF RoomsOK, Room
  <1>3. v \in Room
    BY <1>2, ValueTypes
  <1> HIDE DEF v
  <1> QED
    BY <1>1, <1>3, RoomSet DEF Destroy, LiveOK

LEMMA ReleaseType ==
    ASSUME claim \in Claim \cup {None}, ClaimOK, NEW id, Release(id)
    PROVE  claim' \in Claim \cup {None} /\ ClaimOK'
  BY DEF Release, ClaimOK

LEMMA GoneType ==
    ASSUME TabsOK, NEW b \in Browser, NEW x \in Gone(b)
    PROVE  x \in Tab /\ TabOK(x) /\ x.at = None /\ ~x.ready /\ ~x.asked
  <1>1. x = Fresh \/ x = [Fresh EXCEPT !.doc = browser[b].doc]
    BY DEF Gone
  <1>2. browser[b].doc \in Doc
    BY TabParts DEF TabsOK
  <1>3. ASSUME NEW d \in Doc
        PROVE  LET y == [Fresh EXCEPT !.doc = d]
               IN  y \in Tab /\ TabOK(y) /\ y.at = None /\ ~y.ready /\ ~y.asked
    BY DEF Fresh, Tab, TabOK
  <1>4. Fresh.at = None /\ ~Fresh.ready /\ ~Fresh.asked
    BY DEF Fresh
  <1> QED
    BY <1>1, <1>2, <1>3, <1>4, ValueTypes

LEMMA BuiltType ==
    ASSUME TabsOK, RoomsOK, NEW b \in Browser, browser[b].asked
    PROVE  Built(b) \in Doc
  <1>1. browser[b].doc \in Doc /\ browser[b].at \in RoomId
    BY TabParts DEF TabsOK, TabOK
  <1>2. room[browser[b].at].base \in Text
    BY <1>1, RoomParts DEF RoomsOK
  <1>3. [by |-> b, room |-> browser[b].at, text |-> room[browser[b].at].base] \in Build
    BY <1>1, <1>2 DEF Build
  <1> QED
    BY <1>1, <1>3 DEF Built, Doc

LEMMA ApplyOrHoldType ==
    ASSUME RoomsOK, RequestsOK, LiveOK, live # None, NEW t \in Slot, NEW kind \in {"seed", "update"},
           NEW b \in Browser, NEW d \in Doc, ApplyOrHold(t, kind, b, d)
    PROVE  RoomsOK' /\ RequestsOK'
  <1>1. live \in RoomId /\ room[live] \in Room
    BY DEF LiveOK, RoomsOK
  <1>2. CASE room' = [room EXCEPT ![live] = Applied(room[live], kind, d)] /\ UNCHANGED req
    BY <1>1, <1>2, AppliedType, RoomSet DEF RequestsOK
  <1>3. CASE Start(t, kind, b, live, "hold", d) /\ UNCHANGED room
    BY <1>1, <1>3, StartSet DEF RoomsOK
  <1> QED
    BY <1>2, <1>3 DEF ApplyOrHold

LEMMA EnterSet ==
    ASSUME RequestsOK, NEW t \in Slot, NEW b \in Browser, NEW r \in RoomId, Enter(t, b, r)
    PROVE  RequestsOK'
  <1> DEFINE v == [Idle EXCEPT !.pc = "hold", !.kind = "join", !.by = b, !.room = r]
  <1>1. v \in Handler /\ RequestOK(v)
    BY ValueTypes DEF Handler, Idle, RequestOK
  <1>2. req' = [req EXCEPT ![t] = v]
    BY DEF Enter
  <1> HIDE DEF v
  <1> QED
    BY <1>1, <1>2, RequestSet

LEMMA DropSet ==
    ASSUME RequestsOK, NEW t \in Slot, NEW kind \in {"leave", "renew"}, NEW r \in RoomId, NEW rm \in Room,
           req' = [req EXCEPT ![t] = [Idle EXCEPT !.pc = "drop", !.kind = kind, !.room = r,
                                                  !.reply = Dropping(rm)]]
    PROVE  RequestsOK'
  <1>1. Dropping(rm) \in Reply \cup {None}
    BY ValueTypes DEF Dropping, Reply
  <1>2. ASSUME NEW x \in Reply \cup {None}
        PROVE  LET v == [Idle EXCEPT !.pc = "drop", !.kind = kind, !.room = r, !.reply = x]
               IN  v \in Handler /\ RequestOK(v)
    BY ValueTypes DEF Handler, Reply, Idle, RequestOK
  <1> QED
    BY <1>1, <1>2, RequestSet

LEMMA WithClient ==
    ASSUME RoomsOK, NEW r \in RoomId, NEW b \in Browser,
           room' = [room EXCEPT ![r].clients = @ \cup {b}]
    PROVE  RoomsOK'
  <1>1. [room[r] EXCEPT !.clients = @ \cup {b}] \in Room
    BY DEF RoomsOK, Room
  <1> QED
    BY <1>1, RoomSet

----------------------------------------------------------------------------
(* The type invariant is inductive.                                        *)
LEMMA TypedInit == Init => Typed
  BY ValueTypes DEF Init, Typed, RowOK, ClaimOK, LiveOK, RoomsOK, TabsOK, RequestsOK

LEMMA TypedRequests ==
    ASSUME Typed, NEW t \in Slot, Requests(t)
    PROVE  Typed'
  <1> USE DEF Typed, LiveOK
  <1>0. PICK b \in Browser :
           Join(t, b) \/ Seed(t, b) \/ Send(t, b) \/ Resume(t, b) \/ Save(t, b)
           \/ LeaveOthers(t, b) \/ LeaveLast(t, b)
    BY DEF Requests
  <1>a. browser[b] \in Tab /\ TabOK(browser[b]) /\ browser[b].doc \in Doc
    BY TabParts DEF TabsOK
  <1>b. live # None => live \in RoomId /\ room[live] \in Room
    BY DEF RoomsOK
  <1>c. UNCHANGED row => RowOK'
    BY DEF RowOK
  <1>d. UNCHANGED claim => ClaimOK'
    BY DEF ClaimOK
  <1>e. UNCHANGED room => RoomsOK'
    BY DEF RoomsOK
  <1>f. UNCHANGED browser => TabsOK'
    BY DEF TabsOK
  <1>g. UNCHANGED req => RequestsOK'
    BY DEF RequestsOK
  <1>1. CASE Join(t, b)
    <2>1. CASE live # None /\ room' = [room EXCEPT ![live].clients = @ \cup {b}] /\ Enter(t, b, live)
      <3>1. RoomsOK'
        BY <2>1, <1>b, WithClient
      <3>2. RequestsOK'
        BY <2>1, <1>b, EnterSet
      <3> QED
        BY <1>1, <3>1, <3>2, <1>c, <1>d, <1>f DEF Join
    <2>2. CASE live = None
      <3> DEFINE v == [Idle EXCEPT !.pc = "load", !.kind = "join", !.by = b, !.text = page]
      <3>1. req' = [req EXCEPT ![t] = v] /\ UNCHANGED room
        BY <1>1, <2>2 DEF Join
      <3>2. v \in Handler /\ RequestOK(v)
        BY ValueTypes DEF Handler, Idle, RequestOK
      <3> HIDE DEF v
      <3>3. RequestsOK'
        BY <3>1, <3>2, RequestSet
      <3> QED
        BY <1>1, <3>1, <3>3, <1>c, <1>d, <1>e, <1>f DEF Join
    <2> QED
      BY <1>1, <2>1, <2>2 DEF Join
  <1>2. CASE Seed(t, b)
    <2>1. Built(b) \in Doc /\ live # None /\ browser[b].at \in RoomId
      BY <1>2, <1>a, BuiltType, TabParts DEF Seed, Connected, TabOK
    <2>2. PICK y \in BOOLEAN :
             browser' = [browser EXCEPT ![b].asked = FALSE, ![b].doc = Built(b), ![b].ready = y]
      BY <1>2 DEF Seed
    <2>3. TabsOK'
      <3> DEFINE v == [browser[b] EXCEPT !.asked = FALSE, !.doc = Built(b), !.ready = y]
      <3>1. v \in Tab /\ TabOK(v)
        BY <2>1, <1>a, RoomAssumption DEF Tab, TabOK
      <3>2. browser' = [browser EXCEPT ![b] = v]
        BY <2>2
      <3> HIDE DEF v
      <3> QED
        BY <3>1, <3>2, TabSet
    <2>4. RoomsOK' /\ RequestsOK'
      BY <1>2, <2>1, <1>e, <1>g, ApplyOrHoldType DEF Seed
    <2> QED
      BY <1>2, <2>3, <2>4, <1>c, <1>d DEF Seed
  <1>3. CASE Send(t, b)
    <2>1. RoomsOK' /\ RequestsOK'
      BY <1>3, <1>a, ApplyOrHoldType DEF Send, Connected
    <2> QED
      BY <1>3, <2>1, <1>c, <1>d, <1>f DEF Send
  <1>4. CASE Resume(t, b)
    <2>1. RequestsOK'
      BY <1>4, <1>b, DocTypes, StartSet DEF Resume, Connected
    <2> QED
      BY <1>4, <2>1, <1>c, <1>d, <1>e, <1>f DEF Resume
  <1>5. CASE Save(t, b)
    <2>1. live \in RoomId
      BY <1>5, <1>b DEF Save, Connected
    <2>2. RequestsOK'
      <3>1. CASE Start(t, "save", b, live, "hold", browser[b].doc)
        BY <3>1, <2>1, <1>a, StartSet
      <3>2. CASE req' = [req EXCEPT ![t] =
               [Idle EXCEPT !.pc = "read", !.kind = "save", !.by = b, !.room = live,
                            !.doc = browser[b].doc,
                            !.covered = Covers(browser[b].doc, room[live].doc), !.text = page]]
        <4> DEFINE v == [Idle EXCEPT !.pc = "read", !.kind = "save", !.by = b, !.room = live,
                            !.doc = browser[b].doc,
                            !.covered = Covers(browser[b].doc, room[live].doc), !.text = page]
        <4>1. Covers(browser[b].doc, room[live].doc) \in BOOLEAN
          BY DEF Covers
        <4>2. v \in Handler
          BY <4>1, <2>1, <1>a, ValueTypes DEF Handler, Idle
        <4>3. RequestOK(v)
          BY <2>1 DEF Idle, RequestOK
        <4> HIDE DEF v
        <4>4. req' = [req EXCEPT ![t] = v]
          BY <3>2 DEF v
        <4> QED
          BY <4>2, <4>3, <4>4, RequestSet
      <3> QED
        BY <1>5, <3>1, <3>2 DEF Save
    <2> QED
      BY <1>5, <2>2, <1>c, <1>d, <1>e, <1>f DEF Save
  <1>6. CASE LeaveOthers(t, b)
    <2>1. live \in RoomId /\ live # None /\ room[live] \in Room
      BY <1>6, <1>b DEF LeaveOthers
    <2>2. PICK s \in NextSeeder(room[live], b), gone \in Gone(b) :
           /\ room' = [room EXCEPT ![live] = [Left(@, b) EXCEPT !.seeder = s]]
           /\ browser' = [c \in Browser |->
                 IF c = b THEN gone
                 ELSE IF c = s /\ room[live].seeder # s /\ browser[c].at = live
                      THEN [browser[c] EXCEPT !.asked = TRUE] ELSE browser[c]]
      BY <1>6 DEF LeaveOthers
    <2>3. s \in Browser \cup {None}
      BY <2>1, RoomParts DEF NextSeeder
    <2>4. RoomsOK'
      <3> DEFINE v == [Left(room[live], b) EXCEPT !.seeder = s]
      <3>1. v \in Room
        BY <2>1, <2>3, LeftType DEF Room
      <3>2. room' = [room EXCEPT ![live] = v]
        BY <2>2
      <3> HIDE DEF v
      <3> QED
        BY <2>1, <3>1, <3>2, RoomSet
    <2>5. TabsOK'
      <3>1. gone \in Tab /\ TabOK(gone)
        BY GoneType
      <3>2. ASSUME NEW c \in Browser, browser[c].at = live
            PROVE  [browser[c] EXCEPT !.asked = TRUE] \in Tab /\ TabOK([browser[c] EXCEPT !.asked = TRUE])
        BY <3>2, <2>1 DEF TabsOK, Tab, TabOK
      <3> QED
        BY <2>2, <3>1, <3>2 DEF TabsOK
    <2>6. RequestsOK'
      BY <1>6, <2>1, <1>g, DocTypes, StartSet DEF LeaveOthers
    <2> QED
      BY <1>6, <2>4, <2>5, <2>6, <1>c, <1>d DEF LeaveOthers
  <1>7. CASE LeaveLast(t, b)
    <2>1. live \in RoomId /\ live # None /\ room[live] \in Room
      BY <1>7, <1>b DEF LeaveLast
    <2> DEFINE rm == Left(room[live], b)
    <2>2. rm \in Room
      BY <2>1, LeftType
    <2>3. TabsOK'
      BY <1>7, GoneType, TabSet DEF LeaveLast
    <2>4. CASE rm.dirty /\ row' = Persisted(rm) /\ room' = [room EXCEPT ![live] = rm]
               /\ Start(t, "leave", None, live, "close", Empty)
      <3> HIDE DEF rm
      <3>1. RoomsOK'
        BY <2>1, <2>2, <2>4, RoomSet
      <3>2. RequestsOK'
        BY <2>1, <2>4, DocTypes, StartSet
      <3>3. RowOK'
        BY <2>2, <2>4, PersistedType DEF RowOK
      <3> QED
        BY <1>7, <2>3, <3>1, <3>2, <3>3, <1>d DEF LeaveLast
    <2>5. CASE /\ room' = [room EXCEPT ![live] = [rm EXCEPT !.claim = None]]
               /\ req' = [req EXCEPT ![t] = [Idle EXCEPT !.pc = "drop", !.kind = "leave", !.room = live,
                                                         !.reply = Dropping(rm)]]
               /\ UNCHANGED row
      <3> HIDE DEF rm
      <3>1. RoomsOK'
        <4>1. [rm EXCEPT !.claim = None] \in Room
          BY <2>2 DEF Room
        <4> QED
          BY <2>1, <2>5, <4>1, RoomSet
      <3>2. RequestsOK'
        BY <2>1, <2>2, <2>5, DropSet
      <3> QED
        BY <1>7, <2>3, <2>5, <3>1, <3>2, <1>c, <1>d DEF LeaveLast
    <2> QED
      BY <1>7, <2>4, <2>5 DEF LeaveLast
  <1> QED
    BY <1>0, <1>1, <1>2, <1>3, <1>4, <1>5, <1>6, <1>7

LEMMA TypedContinues ==
    ASSUME Typed, NEW t \in Slot, Continues(t)
    PROVE  Typed'
  <1> USE DEF Typed
  <1> DEFINE q == req[t]
             r == q.room
  <1>0. q \in Handler /\ RequestOK(q) /\ q.doc \in Doc /\ q.text \in Text /\ q.reply \in Reply \cup {None}
    BY RequestParts DEF RequestsOK
  <1>r. q.pc \notin {"idle", "load"} => r \in RoomId /\ room[r] \in Room
    BY <1>0 DEF RequestOK, RoomsOK
  <1>b. live # None => live \in RoomId /\ room[live] \in Room
    BY DEF RoomsOK, LiveOK
  <1>c. UNCHANGED row => RowOK'
    BY DEF RowOK
  <1>d. UNCHANGED claim => ClaimOK'
    BY DEF ClaimOK
  <1>e. UNCHANGED room => RoomsOK'
    BY DEF RoomsOK
  <1>f. UNCHANGED browser => TabsOK'
    BY DEF TabsOK
  <1>g. Finish(t) => RequestsOK'
    BY FinishSet
  <1>h. UNCHANGED live => LiveOK'
    BY DEF LiveOK
  <1>i. row' = None => RowOK'
    BY DEF RowOK
  <1>1. CASE OpenRoom(t)
    <2> DEFINE b == q.by
    <2>1. b \in Browser /\ q.pc = "load"
      BY <1>1, <1>0 DEF OpenRoom, RequestOK
    <2>2. RowOK'
      BY <1>1 DEF OpenRoom, RowOK
    <2>3. CASE live # None
      <3>1. RoomsOK' /\ RequestsOK'
        BY <1>1, <2>1, <2>3, <1>b, WithClient, EnterSet DEF OpenRoom
      <3> QED
        BY <1>1, <2>2, <2>3, <3>1, <1>d, <1>f, <1>h DEF OpenRoom
    <2>4. CASE live = None
      <3>1. PICK n \in RoomId : /\ room' = [room EXCEPT ![n] = NewRoom(q.text, b)]
                                /\ live' = n /\ Enter(t, b, n)
        BY <1>1, <2>4 DEF OpenRoom
      <3>2. NewRoom(q.text, b) \in Room
        BY <1>0, <2>1, NewRoomType
      <3>3. RoomsOK' /\ RequestsOK' /\ LiveOK'
        BY <2>1, <3>1, <3>2, RoomSet, EnterSet DEF LiveOK
      <3> QED
        BY <1>1, <2>2, <3>3, <1>d, <1>f DEF OpenRoom
    <2> QED
      BY <2>3, <2>4
  <1>2. CASE AcquireClaim(t)
    <2>1. ASSUME NEW x \in Reply \cup {None}, req' = [req EXCEPT ![t].pc = "held", ![t].reply = x], q.pc = "hold"
          PROVE  RequestsOK'
      <3> DEFINE v == [q EXCEPT !.pc = "held", !.reply = x]
      <3>1. v \in Handler /\ RequestOK(v)
        BY <2>1, <1>0 DEF Handler, Reply, RequestOK
      <3>2. req' = [req EXCEPT ![t] = v]
        BY <2>1
      <3> HIDE DEF v
      <3> QED
        BY <3>1, <3>2, RequestSet
    <2>2. CASE claim = None
      <3>1. PICK c \in ClaimId :
               /\ claim' = [holder |-> "session", id |-> c, base |-> page]
               /\ req' = [req EXCEPT ![t].pc = "held", ![t].reply = [id |-> c, base |-> page]]
        BY <1>2, <2>2 DEF AcquireClaim
      <3>2. [id |-> c, base |-> page] \in Reply
        BY DEF Reply
      <3>3. claim' \in Claim \cup {None} /\ ClaimOK'
        BY <3>1 DEF Claim, ClaimOK
      <3>4. RequestsOK'
        BY <1>2, <2>1, <3>1, <3>2 DEF AcquireClaim
      <3> QED
        BY <1>2, <3>3, <3>4, <1>c, <1>e, <1>f, <1>h DEF AcquireClaim
    <2>3. CASE claim # None
      <3>1. (IF claim.holder = "session" THEN [id |-> claim.id, base |-> claim.base] ELSE None)
               \in Reply \cup {None}
        BY <2>3 DEF Reply, Claim, ClaimOK
      <3>2. RequestsOK'
        BY <1>2, <2>1, <2>3, <3>1 DEF AcquireClaim
      <3> QED
        BY <1>2, <2>3, <3>2, <1>c, <1>d, <1>e, <1>f, <1>h DEF AcquireClaim
    <2> QED
      BY <2>2, <2>3
  <1>3. CASE HoldMismatch(t)
    <2> DEFINE v == [q EXCEPT !.pc = "reset"]
    <2>1. v \in Handler /\ RequestOK(v)
      BY <1>3, <1>0 DEF HoldMismatch, Handler, RequestOK
    <2>2. req' = [req EXCEPT ![t] = v]
      BY <1>3 DEF HoldMismatch
    <2> HIDE DEF v
    <2>3. RequestsOK'
      BY <2>1, <2>2, RequestSet
    <2> QED
      BY <1>3, <2>3, <1>c, <1>d, <1>e, <1>f, <1>h DEF HoldMismatch
  <1>4. CASE ResetRoom(t)
    <2>1. r \in RoomId
      BY <1>4, <1>r DEF ResetRoom
    <2>2. TabsOK'
      BY <1>4, ValueTypes DEF ResetRoom, TabsOK
    <2>3. RoomsOK' /\ LiveOK'
      BY <1>4, <2>1, DestroyType DEF ResetRoom
    <2>4. claim' \in Claim \cup {None} /\ ClaimOK'
      BY <1>4, ReleaseType DEF ResetRoom
    <2> QED
      BY <1>4, <2>2, <2>3, <2>4, <1>g, <1>i DEF ResetRoom
  <1>5. CASE Greet(t)
    <2> DEFINE b == q.by
               held == Holding(t)
               seeder == IF ~held.seeded /\ held.seeder = None THEN b ELSE held.seeder
    <2>1. b \in Browser /\ q.pc = "held"
      BY <1>5, <1>0 DEF Greet, Answered, RequestOK
    <2>2. r \in RoomId /\ held \in Room
      BY <2>1, HeldType
    <2>3. seeder \in Browser \cup {None}
      BY <2>1, <2>2, RoomParts
    <2>4. CASE live = None /\ room' = [room EXCEPT ![r] = held] /\ UNCHANGED browser
      <3> HIDE DEF held
      <3>1. RoomsOK'
        BY <2>2, <2>4, RoomSet
      <3> QED
        BY <1>5, <2>4, <3>1, <1>c, <1>d, <1>f, <1>g, <1>h DEF Greet
    <2>5. CASE /\ room' = [room EXCEPT ![r] = [held EXCEPT !.timer = TRUE, !.seeder = seeder]]
               /\ browser' = [browser EXCEPT ![b] =
                   [doc |-> IF held.seeded THEN Merge(@.doc, held.doc) ELSE @.doc,
                    at |-> r, ready |-> held.seeded, asked |-> seeder = b]]
      <3>1. RoomsOK'
        <4> HIDE DEF held, seeder
        <4>1. [held EXCEPT !.timer = TRUE, !.seeder = seeder] \in Room
          BY <2>2, <2>3 DEF Room
        <4> QED
          BY <2>2, <2>5, <4>1, RoomSet
      <3>2. TabsOK'
        <4> HIDE DEF held, seeder, b
        <4> DEFINE d == IF held.seeded THEN Merge(browser[b].doc, held.doc) ELSE browser[b].doc
                   v == [doc |-> d, at |-> r, ready |-> held.seeded, asked |-> seeder = b]
        <4>1. browser[b].doc \in Doc
          BY <2>1, TabParts DEF TabsOK
        <4>2. d \in Doc
          BY <2>2, <4>1, DocTypes, RoomParts
        <4>3. held.seeded \in BOOLEAN
          BY <2>2, RoomParts
        <4>4. browser' = [browser EXCEPT ![b] = v]
          BY <2>5
        <4> HIDE DEF d
        <4>5. v \in Tab /\ TabOK(v)
          BY <4>2, <4>3, <2>2, RoomAssumption DEF Tab, TabOK
        <4> HIDE DEF v
        <4> QED
          BY <2>1, <4>4, <4>5, TabSet
      <3> QED
        BY <1>5, <3>1, <3>2, <1>c, <1>d, <1>g, <1>h DEF Greet
    <2> QED
      BY <1>5, <2>4, <2>5 DEF Greet
  <1>6. CASE Apply(t)
    <2> DEFINE b == q.by
    <2>1. b \in Browser /\ q.pc = "held"
      BY <1>6, <1>0 DEF Apply, Answered, RequestOK
    <2>2. r \in RoomId /\ Holding(t) \in Room
      BY <2>1, HeldType
    <2>3. CASE /\ room' = [room EXCEPT ![r] = Applied(Holding(t), q.kind, q.doc)]
               /\ browser' = [browser EXCEPT ![b].ready =
                   @ \/ (browser[b].at = r /\ Covers(browser[b].doc, q.doc))]
      <3>1. Applied(Holding(t), q.kind, q.doc) \in Room
        BY <2>2, <1>0, AppliedType
      <3>2. RoomsOK'
        BY <2>2, <2>3, <3>1, RoomSet
      <3>3. TabsOK'
        <4> DEFINE v == [browser[b] EXCEPT !.ready = @ \/ (browser[b].at = r /\ Covers(browser[b].doc, q.doc))]
        <4>1. v \in Tab /\ TabOK(v)
          BY <2>1, <2>2, RoomAssumption DEF Tab, TabOK, TabsOK, Covers
        <4>2. browser' = [browser EXCEPT ![b] = v]
          BY <2>3
        <4> HIDE DEF v, b
        <4> QED
          BY <2>1, <4>1, <4>2, TabSet
      <3> QED
        BY <1>6, <3>2, <3>3, <1>c, <1>d, <1>g, <1>h DEF Apply
    <2>4. CASE room' = [room EXCEPT ![r] = Holding(t)] /\ UNCHANGED browser
      <3>1. RoomsOK'
        BY <2>2, <2>4, RoomSet
      <3> QED
        BY <1>6, <2>4, <3>1, <1>c, <1>d, <1>f, <1>g, <1>h DEF Apply
    <2> QED
      BY <1>6, <2>3, <2>4 DEF Apply
  <1>7. CASE Held(t)
    <2>1. RoomsOK'
      BY <1>7, HeldType, RoomSet DEF Held, Answered
    <2> QED
      BY <1>7, <2>1, <1>c, <1>d, <1>f, <1>g, <1>h DEF Held
  <1>8. CASE SaveHeld(t)
    <2>1. RoomsOK' /\ r \in RoomId
      BY <1>8, HeldType, RoomSet DEF SaveHeld, Answered
    <2>2. RequestsOK'
      <3>1. CASE Finish(t)
        BY <3>1, <1>g
      <3>2. CASE req' = [req EXCEPT ![t].pc = "read", ![t].text = page, ![t].reply = None,
                               ![t].covered = Covers(req[t].doc, room[r].doc)]
        <4> DEFINE v == [q EXCEPT !.pc = "read", !.text = page, !.reply = None,
                               !.covered = Covers(req[t].doc, room[r].doc)]
        <4>1. Covers(req[t].doc, room[r].doc) \in BOOLEAN
          BY DEF Covers
        <4>2. q.kind = "save"
          BY <1>8 DEF SaveHeld, Answered
        <4>3. v \in Handler /\ RequestOK(v)
          BY <1>0, <2>1, <4>1, <4>2 DEF Handler, RequestOK
        <4>4. req' = [req EXCEPT ![t] = v]
          BY <3>2
        <4> HIDE DEF v
        <4> QED
          BY <4>3, <4>4, RequestSet
      <3> QED
        BY <1>8, <3>1, <3>2 DEF SaveHeld
    <2> QED
      BY <1>8, <2>1, <2>2, <1>c, <1>d, <1>f, <1>h DEF SaveHeld
  <1>9. CASE SaveUnchanged(t)
    <2>1. RoomsOK'
      BY <1>9, <1>r, CleanedType, RoomSet DEF SaveUnchanged
    <2> QED
      BY <1>9, <2>1, <1>c, <1>d, <1>f, <1>g, <1>h, <1>i DEF SaveUnchanged
  <1>10. CASE SaveWrites(t)
    <2> DEFINE body == Serialise(q.doc)
    <2>1. body \in Text
      BY <1>0, DocTypes
    <2>2. CASE ~MayWrite(r)
      BY <1>10, <2>2, <1>c, <1>d, <1>e, <1>f, <1>g, <1>h DEF SaveWrites
    <2>3. CASE MayWrite(r)
      <3>1. page' = body /\ claim' = [claim EXCEPT !.base = body] /\ req' = [req EXCEPT ![t].pc = "written"]
        BY <1>10, <2>3 DEF SaveWrites
      <3> HIDE DEF body
      <3>2. claim' \in Claim \cup {None} /\ ClaimOK'
        BY <2>1, <2>3, <3>1 DEF MayWrite, Claim, ClaimOK
      <3> DEFINE v == [q EXCEPT !.pc = "written"]
      <3>3. v \in Handler /\ RequestOK(v)
        BY <1>10, <1>0 DEF SaveWrites, Handler, RequestOK
      <3>4. req' = [req EXCEPT ![t] = v]
        BY <3>1
      <3> HIDE DEF v
      <3>5. RequestsOK'
        BY <3>3, <3>4, RequestSet
      <3> QED
        BY <1>10, <2>1, <3>1, <3>2, <3>5, <1>c, <1>e, <1>f, <1>h DEF SaveWrites
    <2> QED
      BY <2>2, <2>3
  <1>11. CASE Saved(t)
    <2> DEFINE kept == [room[r] EXCEPT !.base = Serialise(q.doc), !.claim = IF @ = None THEN "no id" ELSE @]
               saved == Cleaned(kept, q.covered)
    <2>1. r \in RoomId /\ room[r] \in Room
      BY <1>11, <1>r DEF Saved
    <2>2. kept \in Room
      BY <2>1, <1>0, DocTypes DEF Room
    <2>3. saved \in Room
      <3> HIDE DEF kept
      <3> QED
        BY <2>2, CleanedType
    <2>4. /\ room' = [room EXCEPT ![r] = saved]
          /\ row' = IF q.covered THEN None ELSE Persisted(saved)
      BY <1>11 DEF Saved
    <2> HIDE DEF saved
    <2>5. RoomsOK' /\ RowOK'
      BY <2>1, <2>3, <2>4, RoomSet, PersistedType DEF RowOK
    <2> QED
      BY <1>11, <2>5, <1>d, <1>f, <1>g, <1>h DEF Saved
  <1>12. CASE Dropped(t)
    <2>1. r \in RoomId /\ room[r] \in Room
      BY <1>12, <1>r DEF Dropped
    <2>2. RoomsOK' /\ LiveOK'
      <3>1. CASE room' = [room EXCEPT ![r].status = "paused"] /\ UNCHANGED live
        <4>1. [room[r] EXCEPT !.status = "paused"] \in Room
          BY <2>1 DEF Room
        <4> QED
          BY <2>1, <3>1, <4>1, <1>h, RoomSet
      <3>2. CASE Destroy(t, r)
        BY <2>1, <3>2, DestroyType
      <3> QED
        BY <1>12, <3>1, <3>2 DEF Dropped
    <2>3. claim' \in Claim \cup {None} /\ ClaimOK'
      BY <1>12, <1>d, ReleaseType DEF Dropped
    <2> QED
      BY <1>12, <2>2, <2>3, <1>c, <1>f, <1>g DEF Dropped
  <1>13. CASE Close(t)
    <2>1. r \in RoomId
      BY <1>13, <1>r DEF Close
    <2>2. RoomsOK' /\ LiveOK'
      BY <1>13, <2>1, DestroyType DEF Close
    <2>3. TabsOK'
      BY <1>13, GoneType DEF Close, TabsOK
    <2> QED
      BY <1>13, <2>2, <2>3, <1>c, <1>d, <1>g DEF Close
  <1> QED
    BY <1>1, <1>2, <1>3, <1>4, <1>5, <1>6, <1>7, <1>8, <1>9, <1>10, <1>11, <1>12, <1>13 DEF Continues

LEMMA TypedClock ==
    ASSUME Typed, NEW t \in Slot, Clock(t)
    PROVE  Typed'
  <1> USE DEF Typed
  <1>b. live # None => live \in RoomId /\ room[live] \in Room
    BY DEF RoomsOK, LiveOK
  <1>d. UNCHANGED claim => ClaimOK'
    BY DEF ClaimOK
  <1>e. UNCHANGED room => RoomsOK'
    BY DEF RoomsOK
  <1>f. UNCHANGED browser => TabsOK'
    BY DEF TabsOK
  <1>h. UNCHANGED live => LiveOK'
    BY DEF LiveOK
  <1>1. CASE Evict(t)
    <2>1. RowOK'
      BY <1>1, <1>b, PersistedType DEF Evict, RowOK
    <2>2. RequestsOK'
      BY <1>1, <1>b, DocTypes, StartSet DEF Evict
    <2> QED
      BY <1>1, <2>1, <2>2, <1>d, <1>e, <1>f, <1>h DEF Evict
  <1>2. ASSUME NEW r \in RoomId, Renew(t, r) PROVE Typed'
    <2>1. room[r] \in Room
      BY DEF RoomsOK
    <2>2. CASE Start(t, "renew", None, r, "hold", Empty) /\ UNCHANGED room
      <3>1. RequestsOK'
        BY <2>2, DocTypes, StartSet
      <3> QED
        BY <1>2, <2>2, <3>1, <1>d, <1>e, <1>f, <1>h DEF Renew, RowOK
    <2>3. CASE /\ room' = [room EXCEPT ![r].claim = None]
               /\ req' = [req EXCEPT ![t] = [Idle EXCEPT !.pc = "drop", !.kind = "renew", !.room = r,
                                                         !.reply = Dropping(room[r])]]
      <3>1. [room[r] EXCEPT !.claim = None] \in Room
        BY <2>1 DEF Room
      <3>2. RoomsOK'
        BY <2>3, <3>1, RoomSet
      <3>3. RequestsOK'
        BY <2>1, <2>3, DropSet
      <3> QED
        BY <1>2, <3>2, <3>3, <1>d, <1>f, <1>h DEF Renew, RowOK
    <2> QED
      BY <1>2, <2>2, <2>3 DEF Renew
  <1> QED
    BY <1>1, <1>2 DEF Clock

LEMMA TypedOthers ==
    ASSUME Typed,
           \/ \E b \in Browser : Receive(b) \/ LeaveNothing(b) \/ \E e \in Edit : Type(b, e)
           \/ \E r \in RoomId : Persist(r)
           \/ \E w \in Outside : OutsideWrites(w)
           \/ OutsideClaims \/ ClaimEnds \/ Crash
    PROVE  Typed'
  <1> USE DEF Typed
  <1>c. UNCHANGED row => RowOK'
    BY DEF RowOK
  <1>d. UNCHANGED claim => ClaimOK'
    BY DEF ClaimOK
  <1>e. UNCHANGED room => RoomsOK'
    BY DEF RoomsOK
  <1>f. UNCHANGED browser => TabsOK'
    BY DEF TabsOK
  <1>g. UNCHANGED req => RequestsOK'
    BY DEF RequestsOK
  <1>h. UNCHANGED live => LiveOK'
    BY DEF LiveOK
  <1>i. ASSUME NEW b \in Browser, NEW d \in Doc, browser' = [browser EXCEPT ![b].doc = d]
        PROVE  TabsOK'
    <2>1. [browser[b] EXCEPT !.doc = d] \in Tab /\ TabOK([browser[b] EXCEPT !.doc = d])
      BY DEF TabsOK, Tab, TabOK
    <2> QED
      BY <1>i, <2>1, TabSet
  <1>1. ASSUME NEW b \in Browser, Receive(b) PROVE Typed'
    <2> DEFINE r == browser[b].at
    <2>1. r \in RoomId
      BY <1>1, TabParts DEF Receive, TabsOK
    <2>2. Merge(browser[b].doc, room[r].doc) \in Doc
      BY <2>1, DocTypes, TabParts, RoomParts DEF TabsOK, RoomsOK
    <2>3. TabsOK'
      BY <1>1, <2>2, <1>i DEF Receive
    <2> QED
      BY <1>1, <2>3, <1>c, <1>d, <1>e, <1>g, <1>h DEF Receive
  <1>2. ASSUME NEW b \in Browser, LeaveNothing(b) PROVE Typed'
    <2>1. TabsOK'
      BY <1>2, GoneType, TabSet DEF LeaveNothing
    <2> QED
      BY <1>2, <2>1, <1>c, <1>d, <1>e, <1>g, <1>h DEF LeaveNothing
  <1>3. ASSUME NEW b \in Browser, NEW e \in Edit, Type(b, e) PROVE Typed'
    <2> DEFINE d == [browser[b].doc EXCEPT !.typed = @ \cup {e}]
    <2>1. d \in Doc
      BY TabParts DEF TabsOK, Doc
    <2>2. browser' = [browser EXCEPT ![b].doc = d]
      BY <1>3 DEF Type, TabsOK, Tab
    <2> HIDE DEF d
    <2>3. TabsOK'
      BY <2>1, <2>2, <1>i
    <2> QED
      BY <1>3, <2>3, <1>c, <1>d, <1>e, <1>g, <1>h DEF Type
  <1>4. ASSUME NEW r \in RoomId, Persist(r) PROVE Typed'
    <2>1. [room[r] EXCEPT !.persisting = FALSE] \in Room /\ room[r] \in Room
      BY DEF RoomsOK, Room
    <2>2. RoomsOK' /\ RowOK'
      BY <1>4, <2>1, RoomSet, PersistedType DEF Persist, RowOK
    <2> QED
      BY <1>4, <2>2, <1>d, <1>f, <1>g, <1>h DEF Persist
  <1>5. ASSUME NEW w \in Outside, OutsideWrites(w) PROVE Typed'
    <2>1. page' \in Text
      BY <1>5 DEF OutsideWrites, Text
    <2>2. claim' \in Claim \cup {None} /\ ClaimOK'
      BY <1>5, <2>1 DEF OutsideWrites, Claim, ClaimOK
    <2> QED
      BY <1>5, <2>1, <2>2, <1>c, <1>e, <1>f, <1>g, <1>h DEF OutsideWrites
  <1>6. CASE OutsideClaims
    <2>1. claim' \in Claim \cup {None} /\ ClaimOK'
      BY <1>6 DEF OutsideClaims, Claim, ClaimOK
    <2> QED
      BY <1>6, <2>1, <1>c, <1>e, <1>f, <1>g, <1>h DEF OutsideClaims
  <1>7. CASE ClaimEnds
    BY <1>7, <1>c, <1>e, <1>f, <1>g, <1>h DEF ClaimEnds, ClaimOK
  <1>8. CASE Crash
    <2>1. RoomsOK'
      <3>1. ASSUME NEW y \in BOOLEAN PROVE [Unmade EXCEPT !.made = y] \in Room
        BY ValueTypes DEF Room
      <3>2. \A r \in RoomId : room[r].made \in BOOLEAN
        BY RoomParts DEF RoomsOK
      <3> QED
        BY <1>8, <3>1, <3>2 DEF Crash, RoomsOK
    <2>2. TabsOK'
      <3>1. \A b \in Browser : browser'[b] \in Tab /\ TabOK(browser'[b])
        BY <1>8, GoneType DEF Crash
      <3> QED
        BY <1>8, <3>1 DEF Crash, TabsOK
    <2>3. RequestsOK' /\ LiveOK'
      BY <1>8, ValueTypes DEF Crash, RequestsOK, LiveOK
    <2> QED
      BY <1>8, <2>1, <2>2, <2>3, <1>c, <1>d DEF Crash
  <1> QED
    BY <1>1, <1>2, <1>3, <1>4, <1>5, <1>6, <1>7, <1>8

LEMMA TypedStep == Typed /\ [Next]_vars => Typed'
  <1>1. Typed /\ UNCHANGED vars => Typed'
    BY DEF vars, Typed, RowOK, ClaimOK, LiveOK, RoomsOK, TabsOK, RequestsOK
  <1> QED
    BY <1>1, TypedRequests, TypedContinues, TypedClock, TypedOthers DEF Next

(* Rooms, browsers, handlers and the persisted row keep their types.       *)
THEOREM RoomTypeCorrect == Spec => []TypeOK
  <1>1. Init => Typed
    BY TypedInit
  <1>2. Typed /\ [Next]_vars => Typed'
    BY TypedStep
  <1>3. Typed => TypeOK
    BY TypedType
  <1> QED
    BY <1>1, <1>2, <1>3, PTL DEF Spec

----------------------------------------------------------------------------
(* What the helpers of the model leave of a room as it was.                *)
LEMMA HeldKeeps ==
    ASSUME RoomsOK, RequestsOK, NEW t \in Slot, req[t].pc = "held"
    PROVE  LET rm == room[req[t].room]  held == Holding(t)
           IN  /\ held.base = rm.base /\ held.doc = rm.doc /\ held.seeded = rm.seeded
               /\ held.seeder = rm.seeder /\ held.clients = rm.clients /\ held.made = rm.made
  BY HeldType DEF Holding, Room

LEMMA AppliedKeeps ==
    ASSUME NEW rm \in Room, NEW kind, NEW d \in Doc
    PROVE  LET new == Applied(rm, kind, d)
           IN  /\ new.base = rm.base /\ new.doc = Merge(rm.doc, d)
               /\ new.clients = rm.clients /\ new.made = rm.made
               /\ kind = "seed" => new.seeded /\ new.seeder = None
               /\ kind # "seed" => new.seeded = rm.seeded /\ new.seeder = rm.seeder
  BY DEF Applied, Room

LEMMA CleanedKeeps ==
    ASSUME NEW rm \in Room, NEW covered
    PROVE  LET new == Cleaned(rm, covered)
           IN  /\ new.base = rm.base /\ new.doc = rm.doc /\ new.seeded = rm.seeded
               /\ new.seeder = rm.seeder /\ new.clients = rm.clients /\ new.made = rm.made
  BY DEF Cleaned, Room

LEMMA LeftKeeps ==
    ASSUME NEW rm \in Room, NEW b
    PROVE  LET new == Left(rm, b)
           IN  /\ new.base = rm.base /\ new.doc = rm.doc /\ new.seeded = rm.seeded
               /\ new.made = rm.made /\ new.clients = rm.clients \ {b}
  BY DEF Left, Room

LEMMA SeederKeeps ==
    ASSUME NEW rm \in Room, NEW s
    PROVE  LET new == [rm EXCEPT !.seeder = s]
           IN  /\ new.base = rm.base /\ new.doc = rm.doc /\ new.seeded = rm.seeded
               /\ new.seeder = s /\ new.clients = rm.clients /\ new.made = rm.made
  BY DEF Room

LEMMA ClientKeeps ==
    ASSUME NEW rm \in Room, NEW b
    PROVE  LET new == [rm EXCEPT !.clients = @ \cup {b}]
           IN  /\ new.base = rm.base /\ new.doc = rm.doc /\ new.seeded = rm.seeded
               /\ new.seeder = rm.seeder /\ new.clients = rm.clients \cup {b} /\ new.made = rm.made
  BY DEF Room

(* The room that Saved leaves behind.                                      *)
Saving(rm, base, covered) ==
    Cleaned([rm EXCEPT !.base = base, !.claim = IF @ = None THEN "no id" ELSE @], covered)

LEMMA SavedKeeps ==
    ASSUME NEW rm \in Room, NEW base, NEW covered
    PROVE  LET new == Saving(rm, base, covered)
           IN  /\ new.base = base /\ new.doc = rm.doc /\ new.seeded = rm.seeded
               /\ new.seeder = rm.seeder /\ new.clients = rm.clients /\ new.made = rm.made
  BY DEF Saving, Cleaned, Room

LEMMA DestroyedKeeps ==
    ASSUME RoomsOK, NEW t, NEW r \in RoomId, Destroy(t, r)
    PROVE  /\ live' = None
           /\ \A s \in RoomId : s # r => room'[s] = room[s]
           /\ \/ /\ room'[r].base = room[r].base /\ room'[r].doc = room[r].doc
                 /\ room'[r].seeded = room[r].seeded /\ room'[r].made = room[r].made
              \/ /\ \A u \in Slot \ {t} : req[u].room # r
                 /\ room'[r] = [Unmade EXCEPT !.made = TRUE]
  <1>1. CASE \E u \in Slot \ {t} : req[u].room = r
    <2>1. room' = [room EXCEPT ![r] = [@ EXCEPT !.timer = FALSE, !.persisting = FALSE]]
      BY <1>1 DEF Destroy
    <2>2. room'[r] = [room[r] EXCEPT !.timer = FALSE, !.persisting = FALSE]
      BY <2>1 DEF RoomsOK
    <2>3. room[r] \in Room
      BY DEF RoomsOK
    <2>4. /\ room'[r].base = room[r].base /\ room'[r].doc = room[r].doc
          /\ room'[r].seeded = room[r].seeded /\ room'[r].made = room[r].made
      BY <2>2, <2>3 DEF Room
    <2>5. live' = None /\ \A s \in RoomId : s # r => room'[s] = room[s]
      BY <2>1 DEF Destroy, RoomsOK
    <2> QED
      BY <2>4, <2>5
  <1>2. CASE ~ \E u \in Slot \ {t} : req[u].room = r
    <2>1. room' = [room EXCEPT ![r] = [Unmade EXCEPT !.made = TRUE]]
      BY <1>2 DEF Destroy
    <2> QED
      BY <1>2, <2>1 DEF Destroy, RoomsOK
  <1> QED
    BY <1>1, <1>2

----------------------------------------------------------------------------
(* A room number in use belongs to a room that has been made.              *)
MadeRooms == \A r \in RoomId : room[r].timer \/ room[r].persisting => room[r].made
MadeLive  == live # None => room[live].made
MadeReqs  == \A t \in Slot : req[t].room # None => room[req[t].room].made
MadeTabs  == \A b \in Browser : browser[b].at # None => room[browser[b].at].made
Made == MadeRooms /\ MadeLive /\ MadeReqs /\ MadeTabs

LEMMA MadeInit == Init => Made
  BY DEF Init, Made, MadeRooms, MadeLive, MadeReqs, MadeTabs, Unmade, Idle, Fresh

(* Made is kept if rooms stay made and what refers to a room refers to one *)
(* that it referred to before, or to a room that is made.                  *)
LEMMA MadeKept ==
    ASSUME Typed, Made,
           \A r \in RoomId : room'[r] = room[r] \/ room'[r].made,
           \A r \in RoomId : room[r].made => room'[r].made,
           \/ live' \in {live, None}
           \/ live' \in RoomId /\ room'[live'].made,
           \A t \in Slot : \/ req'[t].room \in {req[t].room, None}
                           \/ req'[t].room \in RoomId /\ room'[req'[t].room].made,
           \A b \in Browser : \/ browser'[b].at \in {browser[b].at, None}
                              \/ browser'[b].at \in RoomId /\ room'[browser'[b].at].made
    PROVE  Made'
  <1>1. /\ live \in RoomId \cup {None} /\ \A t \in Slot : req[t].room \in RoomId \cup {None}
        /\ \A b \in Browser : browser[b].at \in RoomId \cup {None}
    BY TabParts, RequestParts DEF Typed, LiveOK, TabsOK, RequestsOK
  <1>2. MadeRooms'
    BY DEF Made, MadeRooms
  <1>3. MadeLive'
    BY <1>1 DEF Made, MadeLive
  <1>4. MadeReqs'
    BY <1>1 DEF Made, MadeReqs
  <1>5. MadeTabs'
    BY <1>1 DEF Made, MadeTabs
  <1> QED
    BY <1>2, <1>3, <1>4, <1>5 DEF Made

(* Rewriting a made room by a made one.                                    *)
LEMMA MadePut ==
    ASSUME RoomsOK, NEW r \in RoomId, NEW v, room[r].made, v.made, room' = [room EXCEPT ![r] = v]
    PROVE  /\ \A s \in RoomId : room'[s] = room[s] \/ room'[s].made
           /\ \A s \in RoomId : room[s].made => room'[s].made
  BY DEF RoomsOK

LEMMA MadeDestroy ==
    ASSUME RoomsOK, NEW t, NEW r \in RoomId, room[r].made, Destroy(t, r)
    PROVE  /\ \A s \in RoomId : room'[s] = room[s] \/ room'[s].made
           /\ \A s \in RoomId : room[s].made => room'[s].made
           /\ live' = None
  <1>1. room'[r].made
    BY DestroyedKeeps, ValueTypes DEF Unmade
  <1> QED
    BY <1>1, DestroyedKeeps

LEMMA OneRequest ==
    ASSUME RequestsOK, NEW t \in Slot, NEW v, req' = [req EXCEPT ![t] = v]
    PROVE  \A u \in Slot : req'[u] = IF u = t THEN v ELSE req[u]
  BY DEF RequestsOK

LEMMA StartRooms ==
    ASSUME RequestsOK, NEW t \in Slot, NEW kind, NEW b, NEW r, NEW pc, NEW d, Start(t, kind, b, r, pc, d)
    PROVE  \A u \in Slot : req'[u].room \in {req[u].room, r}
  BY DEF Start, RequestsOK, Idle

LEMMA FinishRooms ==
    ASSUME RequestsOK, NEW t \in Slot, Finish(t)
    PROVE  \A u \in Slot : req'[u].room \in {req[u].room, None}
  BY DEF Finish, RequestsOK, Idle

LEMMA MadeRequests ==
    ASSUME Typed, Made, NEW t \in Slot, Requests(t)
    PROVE  Made'
  <1> USE DEF Typed
  <1>0. PICK b \in Browser :
           Join(t, b) \/ Seed(t, b) \/ Send(t, b) \/ Resume(t, b) \/ Save(t, b)
           \/ LeaveOthers(t, b) \/ LeaveLast(t, b)
    BY DEF Requests
  <1>1. live # None => live \in RoomId /\ room[live] \in Room /\ room[live].made
    BY DEF RoomsOK, LiveOK, Made, MadeLive
  <1>2. UNCHANGED room => /\ \A r \in RoomId : room'[r] = room[r] \/ room'[r].made
                          /\ \A r \in RoomId : room[r].made => room'[r].made
    OBVIOUS
  <1>4. ASSUME NEW kind, NEW d \in Doc, live # None, ApplyOrHold(t, kind, b, d), UNCHANGED live,
               \A c \in Browser : browser'[c].at = browser[c].at
        PROVE  Made'
    <2>1. \A r \in RoomId : room'[r] = room[r] \/ room'[r].made
      BY <1>4, <1>1, <1>2, MadePut, AppliedKeeps DEF ApplyOrHold
    <2>2. \A r \in RoomId : room[r].made => room'[r].made
      BY <1>4, <1>1, <1>2, MadePut, AppliedKeeps DEF ApplyOrHold
    <2>3. \A u \in Slot : req'[u].room \in {req[u].room, live}
      BY <1>4, StartRooms DEF ApplyOrHold
    <2> QED
      BY <1>4, <1>1, <2>1, <2>2, <2>3, MadeKept
  <1>5. CASE Join(t, b)
    <2>1. /\ \A r \in RoomId : room'[r] = room[r] \/ room'[r].made
          /\ \A r \in RoomId : room[r].made => room'[r].made
      <3>1. CASE live # None /\ room' = [room EXCEPT ![live].clients = @ \cup {b}]
        <4>1. [room[live] EXCEPT !.clients = @ \cup {b}].made
          BY <1>1, <3>1, ClientKeeps
        <4> QED
          BY <1>1, <3>1, <4>1, MadePut
      <3> QED
        BY <1>5, <1>2, <3>1 DEF Join
    <2>2. \A u \in Slot : req'[u].room \in {req[u].room, live, None}
      <3>1. CASE Enter(t, b, live)
        BY <3>1 DEF Enter, RequestsOK, Idle
      <3>2. CASE req' = [req EXCEPT ![t] =
                [Idle EXCEPT !.pc = "load", !.kind = "join", !.by = b, !.text = page]]
        BY <3>2 DEF RequestsOK, Idle
      <3> QED
        BY <1>5, <3>1, <3>2 DEF Join
    <2> QED
      BY <1>5, <1>1, <2>1, <2>2, MadeKept DEF Join
  <1>6. CASE Seed(t, b)
    <2>1. Built(b) \in Doc /\ live # None
      BY <1>6, BuiltType DEF Seed, Connected
    <2>2. \A c \in Browser : browser'[c].at = browser[c].at
      BY <1>6 DEF Seed, TabsOK, Tab
    <2>3. CASE UNCHANGED <<room, req>>
      BY <1>6, <1>2, <2>2, <2>3, MadeKept DEF Seed
    <2>4. CASE ApplyOrHold(t, "seed", b, Built(b))
      BY <1>6, <1>4, <2>1, <2>2, <2>4 DEF Seed
    <2> QED
      BY <1>6, <2>3, <2>4 DEF Seed
  <1>7. CASE Send(t, b)
    BY <1>7, <1>4, TabParts DEF Send, Connected, TabsOK
  <1>8. CASE Resume(t, b)
    BY <1>8, <1>1, <1>2, StartRooms, MadeKept DEF Resume, Connected
  <1>9. CASE Save(t, b)
    <2>1. \A u \in Slot : req'[u].room \in {req[u].room, live}
      <3>1. ASSUME NEW c,
                   req' = [req EXCEPT ![t] =
                     [Idle EXCEPT !.pc = "read", !.kind = "save", !.by = b, !.room = live,
                                  !.doc = browser[b].doc, !.covered = c, !.text = page]]
            PROVE  \A u \in Slot : req'[u].room \in {req[u].room, live}
        BY <3>1 DEF RequestsOK, Idle
      <3>2. CASE Start(t, "save", b, live, "hold", browser[b].doc)
        BY <3>2, StartRooms
      <3> QED
        BY <1>9, <3>1, <3>2 DEF Save
    <2> QED
      BY <1>9, <1>1, <1>2, <2>1, MadeKept DEF Save, Connected
  <1>10. CASE LeaveOthers(t, b)
    <2>1. PICK s \in NextSeeder(room[live], b), gone \in Gone(b) :
           /\ room' = [room EXCEPT ![live] = [Left(@, b) EXCEPT !.seeder = s]]
           /\ browser' = [c \in Browser |->
                 IF c = b THEN gone
                 ELSE IF c = s /\ room[live].seeder # s /\ browser[c].at = live
                      THEN [browser[c] EXCEPT !.asked = TRUE] ELSE browser[c]]
      BY <1>10 DEF LeaveOthers
    <2>2. live # None
      BY <1>10 DEF LeaveOthers
    <2>3. [Left(room[live], b) EXCEPT !.seeder = s].made
      BY <1>1, <2>2, LeftType, LeftKeeps, SeederKeeps
    <2>4. /\ \A r \in RoomId : room'[r] = room[r] \/ room'[r].made
          /\ \A r \in RoomId : room[r].made => room'[r].made
      BY <1>1, <2>1, <2>2, <2>3, MadePut
    <2>5. \A c \in Browser : browser'[c].at \in {browser[c].at, None}
      BY <2>1, GoneType DEF TabsOK, Tab
    <2>6. \A u \in Slot : req'[u].room \in {req[u].room, live}
      BY <1>10, StartRooms DEF LeaveOthers
    <2> QED
      BY <1>10, <1>1, <2>2, <2>4, <2>5, <2>6, MadeKept DEF LeaveOthers
  <1>11. CASE LeaveLast(t, b)
    <2> DEFINE rm == Left(room[live], b)
    <2>1. live # None
      BY <1>11 DEF LeaveLast
    <2>2. rm \in Room /\ rm.made
      BY <1>1, <2>1, LeftType, LeftKeeps
    <2>3. [rm EXCEPT !.claim = None].made
      BY <2>2 DEF Room
    <2>4. room' = [room EXCEPT ![live] = rm] \/ room' = [room EXCEPT ![live] = [rm EXCEPT !.claim = None]]
      BY <1>11 DEF LeaveLast
    <2> HIDE DEF rm
    <2>5. /\ \A r \in RoomId : room'[r] = room[r] \/ room'[r].made
          /\ \A r \in RoomId : room[r].made => room'[r].made
      BY <1>1, <2>1, <2>2, <2>3, <2>4, MadePut
    <2>6. \A c \in Browser : browser'[c].at \in {browser[c].at, None}
      BY <1>11, GoneType DEF LeaveLast, TabsOK
    <2>7. \A u \in Slot : req'[u].room \in {req[u].room, live}
      <3>1. CASE Start(t, "leave", None, live, "close", Empty)
        BY <3>1, StartRooms
      <3>2. CASE \E x : req' = [req EXCEPT ![t] = [Idle EXCEPT !.pc = "drop", !.kind = "leave", !.room = live,
                                                        !.reply = x]]
        BY <3>2 DEF RequestsOK, Idle
      <3> QED
        BY <1>11, <3>1, <3>2 DEF LeaveLast
    <2> QED
      BY <1>11, <1>1, <2>1, <2>5, <2>6, <2>7, MadeKept DEF LeaveLast
  <1> QED
    BY <1>0, <1>5, <1>6, <1>7, <1>8, <1>9, <1>10, <1>11

LEMMA MadeContinues ==
    ASSUME Typed, Made, NEW t \in Slot, Continues(t)
    PROVE  Made'
  <1> USE DEF Typed
  <1> DEFINE q == req[t]
             r == q.room
  <1>0. q \in Handler /\ RequestOK(q) /\ q.doc \in Doc /\ q.text \in Text
    BY RequestParts DEF RequestsOK
  <1>1. live # None => live \in RoomId /\ room[live] \in Room /\ room[live].made
    BY DEF RoomsOK, LiveOK, Made, MadeLive
  <1>2. q.pc \notin {"idle", "load"} => /\ r \in RoomId /\ r # None /\ room[r] \in Room /\ room[r].made
    BY <1>0, RoomAssumption DEF RequestOK, RoomsOK, Made, MadeReqs
  <1>3. UNCHANGED room => /\ \A s \in RoomId : room'[s] = room[s] \/ room'[s].made
                          /\ \A s \in RoomId : room[s].made => room'[s].made
    OBVIOUS
  <1>4. Finish(t) => \A u \in Slot : req'[u].room \in {req[u].room, None}
    BY FinishRooms
  <1>5. q.pc = "held" => Holding(t).made
    BY <1>2, HeldKeeps
  <1>6. CASE OpenRoom(t)
    <2>1. CASE live # None
      <3>1. /\ \A s \in RoomId : room'[s] = room[s] \/ room'[s].made
            /\ \A s \in RoomId : room[s].made => room'[s].made
        BY <1>6, <1>1, <2>1 DEF OpenRoom, RoomsOK, Room
      <3>2. \A u \in Slot : req'[u].room \in {req[u].room, live}
        BY <1>6, <2>1 DEF OpenRoom, Enter, RequestsOK, Idle
      <3> QED
        BY <1>6, <1>1, <2>1, <3>1, <3>2, MadeKept DEF OpenRoom
    <2>2. CASE live = None
      <3>1. PICK n \in RoomId : /\ ~room[n].made /\ room' = [room EXCEPT ![n] = NewRoom(q.text, q.by)]
                                /\ live' = n /\ Enter(t, q.by, n)
        BY <1>6, <2>2 DEF OpenRoom
      <3>2. NewRoom(q.text, q.by).made
        BY DEF NewRoom, Unmade
      <3>3. \A u \in Slot : req'[u].room \in {req[u].room, n}
        BY <3>1 DEF Enter, RequestsOK, Idle
      <3>4. /\ \A s \in RoomId : room'[s] = room[s] \/ room'[s].made
            /\ \A s \in RoomId : room[s].made => room'[s].made
            /\ room'[n].made
        BY <3>1, <3>2 DEF RoomsOK
      <3> QED
        BY <1>6, <3>1, <3>3, <3>4, MadeKept DEF OpenRoom
    <2> QED
      BY <2>1, <2>2
  <1>7. CASE AcquireClaim(t)
    <2>1. \A u \in Slot : req'[u].room = req[u].room
      BY <1>7 DEF AcquireClaim, RequestsOK, Handler
    <2> QED
      BY <1>7, <1>3, <2>1, MadeKept DEF AcquireClaim
  <1>8. CASE HoldMismatch(t)
    <2>1. \A u \in Slot : req'[u].room = req[u].room
      BY <1>8 DEF HoldMismatch, RequestsOK, Handler
    <2> QED
      BY <1>8, <1>3, <2>1, MadeKept DEF HoldMismatch
  <1>9. CASE ResetRoom(t)
    <2>1. \A b \in Browser : browser'[b].at \in {browser[b].at, None}
      BY <1>9 DEF ResetRoom, TabsOK, Fresh
    <2>2. /\ \A s \in RoomId : room'[s] = room[s] \/ room'[s].made
          /\ \A s \in RoomId : room[s].made => room'[s].made
          /\ live' = None
      BY <1>9, <1>2, MadeDestroy DEF ResetRoom
    <2> QED
      BY <1>9, <1>4, <2>1, <2>2, MadeKept DEF ResetRoom
  <1>10. CASE Greet(t)
    <2>1. Holding(t) \in Room /\ Holding(t).made
      BY <1>10, <1>5, HeldType DEF Greet, Answered
    <2>2. \A s : [Holding(t) EXCEPT !.timer = TRUE, !.seeder = s].made
      BY <2>1 DEF Room
    <2>3. \/ room' = [room EXCEPT ![r] = Holding(t)]
          \/ \E s : room' = [room EXCEPT ![r] = [Holding(t) EXCEPT !.timer = TRUE, !.seeder = s]]
      BY <1>10 DEF Greet
    <2>4. /\ \A s \in RoomId : room'[s] = room[s] \/ room'[s].made
          /\ \A s \in RoomId : room[s].made => room'[s].made
      BY <1>10, <1>2, <2>1, <2>2, <2>3, MadePut DEF Greet, Answered
    <2>5. \A b \in Browser : browser'[b].at \in {browser[b].at, r}
      BY <1>10 DEF Greet, TabsOK, Tab
    <2> QED
      BY <1>10, <1>2, <1>4, <2>4, <2>5, MadeKept DEF Greet, Answered
  <1>11. CASE Apply(t)
    <2>1. Holding(t) \in Room /\ Holding(t).made
      BY <1>11, <1>5, HeldType DEF Apply, Answered
    <2>2. Applied(Holding(t), q.kind, q.doc).made
      BY <1>0, <2>1, AppliedKeeps
    <2>3. \/ room' = [room EXCEPT ![r] = Holding(t)]
          \/ room' = [room EXCEPT ![r] = Applied(Holding(t), q.kind, q.doc)]
      BY <1>11 DEF Apply
    <2>4. /\ \A s \in RoomId : room'[s] = room[s] \/ room'[s].made
          /\ \A s \in RoomId : room[s].made => room'[s].made
      BY <1>11, <1>2, <2>1, <2>2, <2>3, MadePut DEF Apply, Answered
    <2>5. \A b \in Browser : browser'[b].at = browser[b].at
      BY <1>11 DEF Apply, TabsOK, Tab
    <2> QED
      BY <1>11, <1>4, <2>4, <2>5, MadeKept DEF Apply
  <1>12. CASE Held(t)
    <2>1. /\ \A s \in RoomId : room'[s] = room[s] \/ room'[s].made
          /\ \A s \in RoomId : room[s].made => room'[s].made
      BY <1>12, <1>2, <1>5, MadePut DEF Held, Answered
    <2> QED
      BY <1>12, <1>4, <2>1, MadeKept DEF Held
  <1>13. CASE SaveHeld(t)
    <2>1. /\ \A s \in RoomId : room'[s] = room[s] \/ room'[s].made
          /\ \A s \in RoomId : room[s].made => room'[s].made
      BY <1>13, <1>2, <1>5, MadePut DEF SaveHeld, Answered
    <2>2. \A u \in Slot : req'[u].room \in {req[u].room, None}
      BY <1>13, <1>4 DEF SaveHeld, RequestsOK, Handler
    <2> QED
      BY <1>13, <2>1, <2>2, MadeKept DEF SaveHeld
  <1>14. CASE SaveUnchanged(t)
    <2>1. Cleaned(room[r], q.covered).made
      BY <1>14, <1>2, CleanedKeeps DEF SaveUnchanged
    <2>2. /\ \A s \in RoomId : room'[s] = room[s] \/ room'[s].made
          /\ \A s \in RoomId : room[s].made => room'[s].made
      BY <1>14, <1>2, <2>1, MadePut DEF SaveUnchanged
    <2> QED
      BY <1>14, <1>4, <2>2, MadeKept DEF SaveUnchanged
  <1>15. CASE SaveWrites(t)
    <2>1. \A u \in Slot : req'[u].room \in {req[u].room, None}
      BY <1>15, <1>4 DEF SaveWrites, RequestsOK, Handler
    <2> QED
      BY <1>15, <1>3, <2>1, MadeKept DEF SaveWrites
  <1>16. CASE Saved(t)
    <2> DEFINE saved == Saving(room[r], Serialise(q.doc), q.covered)
    <2>1. saved.made
      BY <1>16, <1>2, SavedKeeps DEF Saved
    <2>2. room' = [room EXCEPT ![r] = saved]
      BY <1>16 DEF Saved, Saving
    <2> HIDE DEF saved
    <2>3. /\ \A s \in RoomId : room'[s] = room[s] \/ room'[s].made
          /\ \A s \in RoomId : room[s].made => room'[s].made
      BY <1>16, <1>2, <2>1, <2>2, MadePut DEF Saved
    <2> QED
      BY <1>16, <1>4, <2>3, MadeKept DEF Saved
  <1>17. CASE Dropped(t)
    <2>1. /\ \A s \in RoomId : room'[s] = room[s] \/ room'[s].made
          /\ \A s \in RoomId : room[s].made => room'[s].made
          /\ live' \in {live, None}
      <3>1. CASE Destroy(t, r)
        BY <1>17, <1>2, <3>1, MadeDestroy DEF Dropped
      <3>2. CASE room' = [room EXCEPT ![r].status = "paused"] /\ UNCHANGED live
        <4>1. [room[r] EXCEPT !.status = "paused"].made
          BY <1>17, <1>2 DEF Dropped, Room
        <4> QED
          BY <1>17, <1>2, <3>2, <4>1, MadePut DEF Dropped
      <3> QED
        BY <1>17, <3>1, <3>2 DEF Dropped
    <2> QED
      BY <1>17, <1>4, <2>1, MadeKept DEF Dropped
  <1>18. CASE Close(t)
    <2>1. \A b \in Browser : browser'[b].at \in {browser[b].at, None}
      BY <1>18, GoneType DEF Close, TabsOK
    <2>2. /\ \A s \in RoomId : room'[s] = room[s] \/ room'[s].made
          /\ \A s \in RoomId : room[s].made => room'[s].made
          /\ live' = None
      BY <1>18, <1>2, MadeDestroy DEF Close
    <2> QED
      BY <1>18, <1>4, <2>1, <2>2, MadeKept DEF Close
  <1> QED
    BY <1>6, <1>7, <1>8, <1>9, <1>10, <1>11, <1>12, <1>13, <1>14, <1>15, <1>16, <1>17, <1>18 DEF Continues

LEMMA MadeOthers ==
    ASSUME Typed, Made,
           \/ \E t \in Slot : Clock(t)
           \/ \E b \in Browser : Receive(b) \/ LeaveNothing(b) \/ \E e \in Edit : Type(b, e)
           \/ \E r \in RoomId : Persist(r)
           \/ \E w \in Outside : OutsideWrites(w)
           \/ OutsideClaims \/ ClaimEnds \/ Crash
    PROVE  Made'
  <1> USE DEF Typed
  <1>1. live # None => live \in RoomId /\ room[live] \in Room /\ room[live].made
    BY DEF RoomsOK, LiveOK, Made, MadeLive
  <1>2. UNCHANGED room => /\ \A s \in RoomId : room'[s] = room[s] \/ room'[s].made
                          /\ \A s \in RoomId : room[s].made => room'[s].made
    OBVIOUS
  <1>3. ASSUME NEW t \in Slot, Evict(t) PROVE Made'
    BY <1>3, <1>1, <1>2, StartRooms, MadeKept DEF Evict
  <1>4. ASSUME NEW t \in Slot, NEW r \in RoomId, Renew(t, r) PROVE Made'
    <2>1. room[r] \in Room /\ room[r].made
      BY <1>4 DEF Renew, Made, MadeRooms, RoomsOK
    <2>2. [room[r] EXCEPT !.claim = None].made
      BY <2>1 DEF Room
    <2>3. /\ \A s \in RoomId : room'[s] = room[s] \/ room'[s].made
          /\ \A s \in RoomId : room[s].made => room'[s].made
      BY <1>4, <1>2, <2>1, <2>2, MadePut DEF Renew
    <2>4. \A u \in Slot : req'[u].room \in {req[u].room, r}
      BY <1>4, StartRooms DEF Renew, RequestsOK, Idle
    <2> QED
      BY <1>4, <2>1, <2>3, <2>4, MadeKept DEF Renew
  <1>5. ASSUME NEW b \in Browser, Receive(b) \/ LeaveNothing(b) \/ \E e \in Edit : Type(b, e)
        PROVE  Made'
    <2>1. \A c \in Browser : browser'[c].at \in {browser[c].at, None}
      BY <1>5, GoneType DEF Receive, LeaveNothing, Type, TabsOK, Tab
    <2> QED
      BY <1>5, <1>2, <2>1, MadeKept DEF Receive, LeaveNothing, Type
  <1>6. ASSUME NEW r \in RoomId, Persist(r) PROVE Made'
    <2>1. room[r] \in Room /\ room[r].made
      BY <1>6 DEF Persist, Made, MadeRooms, RoomsOK
    <2>2. [room[r] EXCEPT !.persisting = FALSE].made
      BY <2>1 DEF Room
    <2>3. /\ \A s \in RoomId : room'[s] = room[s] \/ room'[s].made
          /\ \A s \in RoomId : room[s].made => room'[s].made
      BY <1>6, <2>1, <2>2, MadePut DEF Persist
    <2> QED
      BY <1>6, <2>3, MadeKept DEF Persist
  <1>7. ASSUME NEW w \in Outside, OutsideWrites(w) PROVE Made'
    BY <1>7, <1>2, MadeKept DEF OutsideWrites
  <1>8. CASE OutsideClaims \/ ClaimEnds
    BY <1>8, <1>2, MadeKept DEF OutsideClaims, ClaimEnds
  <1>9. CASE Crash
    <2>1. \A b \in Browser : browser'[b].at = None
      BY <1>9, GoneType DEF Crash
    <2>2. \A t \in Slot : req'[t].room = None
      BY <1>9 DEF Crash, Idle
    <2>3. \A r \in RoomId : ~room'[r].timer /\ ~room'[r].persisting
      BY <1>9 DEF Crash, Unmade
    <2> QED
      BY <1>9, <2>1, <2>2, <2>3 DEF Crash, Made, MadeRooms, MadeLive, MadeReqs, MadeTabs
  <1> QED
    BY <1>3, <1>4, <1>5, <1>6, <1>7, <1>8, <1>9 DEF Clock

LEMMA MadeStep == Typed /\ Made /\ [Next]_vars => Made'
  <1>1. Made /\ UNCHANGED vars => Made'
    BY DEF vars, Made, MadeRooms, MadeLive, MadeReqs, MadeTabs
  <1> QED
    BY <1>1, MadeRequests, MadeContinues, MadeOthers DEF Next

----------------------------------------------------------------------------
(* Who sits in the room the page has: a browser joins once at a time, reads*)
(* nothing while it does, and is a client of the room from the moment it is*)
(* let in; a client reads the room or is on its way in.                    *)
Joining(t, b) == req[t].kind = "join" /\ req[t].by = b

SeatJoin   == \A t \in Slot, b \in Browser : Joining(t, b) => browser[b].at = None
SeatOnce   == \A t, u \in Slot, b \in Browser : Joining(t, b) /\ Joining(u, b) => t = u
SeatWaits  == live # None =>
                 \A t \in Slot, b \in Browser :
                    Joining(t, b) /\ req[t].room = live => b \in room[live].clients
SeatSeeder == live # None => room[live].seeder \in room[live].clients \cup {None}
SeatReader == live # None =>
                 \A b \in Browser : browser[b].at = live =>
                    b \in room[live].clients /\ (room[live].seeded \/ room[live].seeder # None)
SeatClient == live # None =>
                 \A b \in room[live].clients :
                    browser[b].at = live \/ \E t \in Slot : Joining(t, b) /\ req[t].room = live
Seats == SeatJoin /\ SeatOnce /\ SeatWaits /\ SeatSeeder /\ SeatReader /\ SeatClient

LEMMA SeatsInit == Init => Seats
  BY DEF Init, Seats, SeatJoin, SeatOnce, SeatWaits, SeatSeeder, SeatReader, SeatClient, Joining, Idle

(* A step that moves nobody: it may finish the build of the document, and a*)
(* browser may leave a room that is not the page's.                        *)
TabsQuiet  == \A b \in Browser : \/ browser'[b].at = browser[b].at
                                 \/ browser[b].at # live /\ browser'[b].at = None
JoinsQuiet == \A t \in Slot : /\ req'[t].kind = "join" <=> req[t].kind = "join"
                              /\ req[t].kind = "join" => req'[t].by = req[t].by /\ req'[t].room = req[t].room
RoomQuiet  == live # None =>
                 /\ room'[live].clients = room[live].clients
                 /\ \/ room'[live].seeded = room[live].seeded /\ room'[live].seeder = room[live].seeder
                    \/ room'[live].seeded /\ room'[live].seeder = None

LEMMA SeatsQuiet ==
    ASSUME Typed, Seats, UNCHANGED live, TabsQuiet, JoinsQuiet, RoomQuiet
    PROVE  Seats'
  <1> USE DEF Seats, TabsQuiet, JoinsQuiet, RoomQuiet, Joining
  <1>0. live # None => room[live].clients \subseteq Browser
    BY RoomParts DEF Typed, LiveOK, RoomsOK
  <1>1. SeatJoin'
    BY DEF SeatJoin
  <1>2. SeatOnce'
    BY DEF SeatOnce
  <1>3. SeatWaits'
    BY DEF SeatWaits
  <1>4. SeatSeeder'
    BY DEF SeatSeeder
  <1>5. SeatReader'
    BY RoomAssumption DEF SeatReader, Typed, LiveOK
  <1>6. SeatClient'
    BY <1>0 DEF SeatClient
  <1> QED
    BY <1>1, <1>2, <1>3, <1>4, <1>5, <1>6

(* The page is left without a room.                                        *)
LEMMA SeatsClosed ==
    ASSUME Seats, live' = None,
           \A b \in Browser : browser'[b].at \in {browser[b].at, None},
           \A t \in Slot : req'[t].kind = "join" => req[t].kind = "join" /\ req'[t].by = req[t].by
    PROVE  Seats'
  BY DEF Seats, SeatJoin, SeatOnce, SeatWaits, SeatSeeder, SeatReader, SeatClient, Joining

LEMMA QuietPut ==
    ASSUME RoomsOK, NEW r \in RoomId, NEW v, room' = [room EXCEPT ![r] = v],
           v.clients = room[r].clients,
           \/ v.seeded = room[r].seeded /\ v.seeder = room[r].seeder
           \/ v.seeded /\ v.seeder = None
    PROVE  RoomQuiet
  <1>1. CASE live = r
    BY <1>1 DEF RoomsOK, RoomQuiet
  <1>2. CASE live # r
    BY <1>2 DEF RoomsOK, RoomQuiet
  <1> QED
    BY <1>1, <1>2

LEMMA QuietStart ==
    ASSUME RequestsOK, NEW t \in Slot, NEW kind, NEW b, NEW r, NEW pc, NEW d,
           kind # "join", Start(t, kind, b, r, pc, d)
    PROVE  JoinsQuiet
  <1>1. req[t].kind # "join"
    BY DEF Start, RequestsOK, RequestOK
  <1> QED
    BY <1>1 DEF Start, RequestsOK, Idle, JoinsQuiet

LEMMA QuietDrop ==
    ASSUME RequestsOK, NEW t \in Slot, NEW kind, NEW r, NEW x, kind # "join", req[t].pc = "idle",
           req' = [req EXCEPT ![t] = [Idle EXCEPT !.pc = "drop", !.kind = kind, !.room = r, !.reply = x]]
    PROVE  JoinsQuiet
  <1>1. req[t].kind # "join"
    BY DEF RequestsOK, RequestOK
  <1> QED
    BY <1>1 DEF RequestsOK, Idle, JoinsQuiet

LEMMA QuietFinish ==
    ASSUME RequestsOK, NEW t \in Slot, req[t].kind # "join", Finish(t)
    PROVE  JoinsQuiet
  BY DEF Finish, RequestsOK, Idle, JoinsQuiet

LEMMA FinishJoins ==
    ASSUME RequestsOK, NEW t \in Slot, Finish(t)
    PROVE  /\ req'[t].kind # "join"
           /\ \A u \in Slot : u # t => req'[u] = req[u]
           /\ \A u \in Slot : req'[u].kind = "join" => req[u].kind = "join" /\ req'[u].by = req[u].by
  BY DEF Finish, RequestsOK, Idle

LEMMA SeatsRequests ==
    ASSUME Typed, Made, Seats, NEW t \in Slot, Requests(t)
    PROVE  Seats'
  <1> USE DEF Typed
  <1>0. PICK b \in Browser :
           Join(t, b) \/ Seed(t, b) \/ Send(t, b) \/ Resume(t, b) \/ Save(t, b)
           \/ LeaveOthers(t, b) \/ LeaveLast(t, b)
    BY DEF Requests
  <1>1. live # None => live \in RoomId /\ room[live] \in Room /\ room[live].clients \subseteq Browser
    BY RoomParts DEF RoomsOK, LiveOK
  <1>2. UNCHANGED room => RoomQuiet
    BY DEF RoomQuiet
  <1>3. UNCHANGED browser => TabsQuiet
    BY DEF TabsQuiet
  <1>4. UNCHANGED req => JoinsQuiet
    BY DEF JoinsQuiet
  <1>5. ASSUME NEW kind \in {"seed", "update"}, NEW d \in Doc, live # None, ApplyOrHold(t, kind, b, d)
        PROVE  RoomQuiet /\ JoinsQuiet
    <2>1. RoomQuiet
      BY <1>5, <1>1, <1>2, AppliedKeeps, QuietPut DEF ApplyOrHold
    <2>2. JoinsQuiet
      BY <1>5, <1>4, QuietStart DEF ApplyOrHold
    <2> QED
      BY <2>1, <2>2
  <1>6. CASE Join(t, b)
    <2>1. /\ \A c \in Browser : browser'[c].at = browser[c].at
          /\ browser[b].at = None /\ req[t].pc = "idle" /\ UNCHANGED live
          /\ \A u \in Slot : ~Joining(u, b)
      BY <1>6 DEF Join, Joining
    <2>2. req[t].kind # "join"
      BY <2>1 DEF RequestsOK, RequestOK
    <2>3. PICK v : /\ req' = [req EXCEPT ![t] = v] /\ v.kind = "join" /\ v.by = b
                   /\ v.room = live
                   /\ live # None => room' = [room EXCEPT ![live].clients = @ \cup {b}]
      <3>1. CASE live # None
        <4>1. [Idle EXCEPT !.pc = "hold", !.kind = "join", !.by = b, !.room = live].kind = "join"
          BY DEF Idle
        <4>2. [Idle EXCEPT !.pc = "hold", !.kind = "join", !.by = b, !.room = live].by = b
          BY DEF Idle
        <4>3. [Idle EXCEPT !.pc = "hold", !.kind = "join", !.by = b, !.room = live].room = live
          BY DEF Idle
        <4> QED
          BY <1>6, <3>1, <4>1, <4>2, <4>3 DEF Join, Enter
      <3>2. CASE live = None
        <4> DEFINE w == [Idle EXCEPT !.pc = "load", !.kind = "join", !.by = b, !.text = page]
        <4>1. w.kind = "join" /\ w.by = b /\ w.room = None
          BY DEF Idle
        <4>2. req' = [req EXCEPT ![t] = w]
          BY <1>6, <3>2 DEF Join
        <4> HIDE DEF w
        <4> QED
          BY <3>2, <4>1, <4>2
      <3> QED
        BY <3>1, <3>2
    <2>4. \A u \in Slot : req'[u] = IF u = t THEN v ELSE req[u]
      BY <2>3, OneRequest
    <2>5. live # None => /\ room'[live].clients = room[live].clients \cup {b}
                         /\ room'[live].seeded = room[live].seeded
                         /\ room'[live].seeder = room[live].seeder
      <3> SUFFICES ASSUME live # None
                   PROVE  LET new == room'[live]
                          IN  /\ new.clients = room[live].clients \cup {b}
                              /\ new.seeded = room[live].seeded /\ new.seeder = room[live].seeder
        OBVIOUS
      <3>1. room'[live] = [room[live] EXCEPT !.clients = @ \cup {b}]
        BY <2>3, <1>1 DEF RoomsOK
      <3> QED
        BY <3>1, <1>1, ClientKeeps
    <2>6. \A u \in Slot, c \in Browser :
             Joining(u, c)' <=> Joining(u, c) \/ (u = t /\ c = b)
      BY <2>2, <2>3, <2>4 DEF Joining
    <2>7. SeatJoin' /\ SeatOnce'
      BY <2>1, <2>6 DEF Seats, SeatJoin, SeatOnce
    <2>8. SeatWaits'
      BY <2>1, <2>2, <2>3, <2>4, <2>5 DEF Seats, SeatWaits, Joining
    <2>9. SeatSeeder' /\ SeatReader'
      BY <2>1, <2>5 DEF Seats, SeatSeeder, SeatReader
    <2>10. SeatClient'
      BY <1>1, <2>1, <2>2, <2>3, <2>4, <2>5 DEF Seats, SeatClient, Joining
    <2> QED
      BY <2>7, <2>8, <2>9, <2>10 DEF Seats
  <1>7. CASE Seed(t, b)
    <2>1. Built(b) \in Doc /\ live # None /\ UNCHANGED live
      BY <1>7, BuiltType DEF Seed, Connected
    <2>2. TabsQuiet
      BY <1>7 DEF Seed, TabsQuiet, TabsOK, Tab
    <2>3. RoomQuiet /\ JoinsQuiet
      BY <1>7, <1>2, <1>4, <1>5, <2>1 DEF Seed
    <2> QED
      BY <2>1, <2>2, <2>3, SeatsQuiet
  <1>8. CASE Send(t, b)
    <2>1. browser[b].doc \in Doc /\ live # None /\ UNCHANGED <<live, browser>>
      BY <1>8, TabParts DEF Send, Connected, TabsOK
    <2>2. RoomQuiet /\ JoinsQuiet
      BY <1>8, <1>5, <2>1 DEF Send
    <2> QED
      BY <1>3, <2>1, <2>2, SeatsQuiet
  <1>9. CASE Resume(t, b)
    <2>1. JoinsQuiet
      BY <1>9, QuietStart DEF Resume
    <2> QED
      BY <1>9, <1>2, <1>3, <2>1, SeatsQuiet DEF Resume
  <1>10. CASE Save(t, b)
    <2>1. JoinsQuiet
      <3>1. CASE Start(t, "save", b, live, "hold", browser[b].doc)
        BY <3>1, QuietStart
      <3>2. CASE req[t].pc = "idle" /\ \E cov : req' = [req EXCEPT ![t] =
               [Idle EXCEPT !.pc = "read", !.kind = "save", !.by = b, !.room = live,
                            !.doc = browser[b].doc, !.covered = cov, !.text = page]]
        <4>1. req[t].kind # "join"
          BY <3>2 DEF RequestsOK, RequestOK
        <4> QED
          BY <3>2, <4>1 DEF RequestsOK, Idle, JoinsQuiet
      <3> QED
        BY <1>10, <3>1, <3>2 DEF Save
    <2> QED
      BY <1>10, <1>2, <1>3, <2>1, SeatsQuiet DEF Save
  <1>11. CASE LeaveOthers(t, b)
    <2>0. live # None /\ UNCHANGED live /\ browser[b].at = live /\ browser[b].at # None
      BY <1>11 DEF LeaveOthers
    <2> DEFINE rm == room[live]
    <2>1. PICK s \in NextSeeder(room[live], b), gone \in Gone(b) :
           /\ room' = [room EXCEPT ![live] = [Left(@, b) EXCEPT !.seeder = s]]
           /\ browser' = [c \in Browser |->
                 IF c = b THEN gone
                 ELSE IF c = s /\ room[live].seeder # s /\ browser[c].at = live
                      THEN [browser[c] EXCEPT !.asked = TRUE] ELSE browser[c]]
      BY <1>11 DEF LeaveOthers
    <2>2. JoinsQuiet
      BY <1>11, <1>4, QuietStart DEF LeaveOthers
    <2>3. \A c \in Browser : browser'[c].at = IF c = b THEN None ELSE browser[c].at
      BY <2>1, GoneType DEF TabsOK, Tab
    <2>4. /\ room'[live].clients = rm.clients \ {b}
          /\ room'[live].seeded = rm.seeded /\ room'[live].seeder = s
      <3>1. room'[live] = [Left(rm, b) EXCEPT !.seeder = s]
        BY <1>1, <2>0, <2>1 DEF RoomsOK
      <3>2. Left(rm, b) \in Room
        BY <1>1, <2>0, LeftType
      <3> HIDE DEF rm
      <3>3. LET new == [Left(rm, b) EXCEPT !.seeder = s]
            IN  /\ new.clients = Left(rm, b).clients /\ new.seeded = Left(rm, b).seeded
                /\ new.seeder = s
        BY <3>2, SeederKeeps
      <3>4. Left(rm, b).clients = rm.clients \ {b} /\ Left(rm, b).seeded = rm.seeded
        BY <1>1, <2>0, LeftKeeps DEF rm
      <3> QED
        BY <3>1, <3>3, <3>4
    <2>5. s \in (rm.clients \ {b}) \cup {None}
      BY <2>0 DEF NextSeeder, Seats, SeatSeeder
    <2>6. \A c \in Browser : c # b /\ browser[c].at = live => rm.seeded \/ s # None
      BY <1>1, <2>0, RoomAssumption DEF NextSeeder, Seats, SeatReader
    <2>7. SeatJoin' /\ SeatOnce'
      BY <2>2, <2>3 DEF JoinsQuiet, Joining, Seats, SeatJoin, SeatOnce
    <2>8. SeatWaits'
      BY <2>0, <2>2, <2>4 DEF JoinsQuiet, Joining, Seats, SeatWaits, SeatJoin
    <2>9. SeatSeeder'
      BY <2>0, <2>4, <2>5 DEF SeatSeeder
    <2>10. SeatReader'
      BY <2>0, <2>3, <2>4, <2>6 DEF Seats, SeatReader
    <2>11. SeatClient'
      BY <1>1, <2>0, <2>2, <2>3, <2>4 DEF JoinsQuiet, Joining, Seats, SeatClient
    <2> QED
      BY <2>7, <2>8, <2>9, <2>10, <2>11 DEF Seats
  <1>12. CASE LeaveLast(t, b)
    <2> DEFINE rm == Left(room[live], b)
    <2>0. live # None /\ UNCHANGED live /\ browser[b].at = live /\ room[live].clients = {b}
      BY <1>12 DEF LeaveLast
    <2>1. rm \in Room /\ rm.clients = {}
      BY <1>1, <2>0, LeftType, LeftKeeps
    <2>2. rm.seeder = None
      <3>1. room[live].seeder \in {b, None} /\ room[live] \in Room
        BY <1>1, <2>0 DEF Seats, SeatSeeder
      <3> QED
        BY <3>1 DEF Left, Room
    <2>3. JoinsQuiet
      <3>1. CASE Start(t, "leave", None, live, "close", Empty)
        BY <3>1, QuietStart
      <3>2. CASE /\ req[t].pc = "idle"
                 /\ \E x : req' = [req EXCEPT ![t] = [Idle EXCEPT !.pc = "drop", !.kind = "leave",
                                                                !.room = live, !.reply = x]]
        BY <3>2, QuietDrop
      <3> QED
        BY <1>12, <3>1, <3>2 DEF LeaveLast
    <2>4. \A c \in Browser : browser'[c].at = IF c = b THEN None ELSE browser[c].at
      BY <1>12, GoneType DEF LeaveLast, TabsOK
    <2>5. room'[live].clients = {} /\ room'[live].seeder = None
      <3>1. room'[live] = rm \/ room'[live] = [rm EXCEPT !.claim = None]
        BY <1>12, <1>1, <2>0 DEF LeaveLast, RoomsOK
      <3> HIDE DEF rm
      <3>2. LET new == [rm EXCEPT !.claim = None] IN new.clients = rm.clients /\ new.seeder = rm.seeder
        BY <2>1 DEF Room
      <3> QED
        BY <2>1, <2>2, <3>1, <3>2
    <2> HIDE DEF rm
    <2>6. SeatJoin' /\ SeatOnce'
      BY <2>3, <2>4 DEF JoinsQuiet, Joining, Seats, SeatJoin, SeatOnce
    <2>7. SeatWaits'
      BY <2>0, <2>3, <2>5 DEF JoinsQuiet, Joining, Seats, SeatWaits, SeatJoin
    <2>8. SeatSeeder'
      BY <2>0, <2>5 DEF SeatSeeder
    <2>9. SeatReader'
      BY <2>0, <2>4 DEF Seats, SeatReader
    <2>10. SeatClient'
      BY <2>0, <2>5 DEF SeatClient
    <2> QED
      BY <2>6, <2>7, <2>8, <2>9, <2>10 DEF Seats
  <1> QED
    BY <1>0, <1>6, <1>7, <1>8, <1>9, <1>10, <1>11, <1>12

LEMMA SeatsContinues ==
    ASSUME Typed, Made, Seats, NEW t \in Slot, Continues(t)
    PROVE  Seats'
  <1> USE DEF Typed
  <1> DEFINE q == req[t]
             r == q.room
  <1>0. q \in Handler /\ RequestOK(q) /\ q.doc \in Doc /\ q.text \in Text
    BY RequestParts DEF RequestsOK
  <1>1. live # None => live \in RoomId /\ room[live] \in Room /\ room[live].clients \subseteq Browser
    BY RoomParts DEF RoomsOK, LiveOK
  <1>2. q.pc \notin {"idle", "load"} => r \in RoomId /\ room[r] \in Room
    BY <1>0 DEF RequestOK, RoomsOK
  <1>3. UNCHANGED room => RoomQuiet
    BY DEF RoomQuiet
  <1>4. UNCHANGED browser => TabsQuiet
    BY DEF TabsQuiet
  <1>5. Finish(t) /\ q.kind # "join" => JoinsQuiet
    BY QuietFinish
  <1>6. q.pc = "held" /\ room' = [room EXCEPT ![r] = Holding(t)] => RoomQuiet
    BY <1>2, HeldKeeps, QuietPut
  <1>7. CASE OpenRoom(t)
    <2> DEFINE b == q.by
    <2>1. b \in Browser /\ q.pc = "load" /\ q.kind = "join" /\ UNCHANGED browser
      BY <1>7, <1>0 DEF OpenRoom, RequestOK
    <2>2. ASSUME NEW n, Enter(t, b, n)
          PROVE  /\ req'[t].kind = "join" /\ req'[t].by = b /\ req'[t].room = n
                 /\ \A u \in Slot : u # t => req'[u] = req[u]
      BY <2>2 DEF Enter, RequestsOK, Idle
    <2>3. ASSUME NEW n, Enter(t, b, n) PROVE SeatJoin' /\ SeatOnce'
      BY <2>1, <2>2, <2>3 DEF Seats, SeatJoin, SeatOnce, Joining
    <2>4. CASE live # None
      <3>1. /\ room' = [room EXCEPT ![live].clients = @ \cup {b}] /\ Enter(t, b, live)
            /\ UNCHANGED live
        BY <1>7, <2>4 DEF OpenRoom
      <3>2. room'[live] = [room[live] EXCEPT !.clients = @ \cup {b}]
        BY <1>1, <2>4, <3>1 DEF RoomsOK
      <3>3. /\ room'[live].clients = room[live].clients \cup {b}
            /\ room'[live].seeded = room[live].seeded /\ room'[live].seeder = room[live].seeder
        BY <1>1, <2>4, <3>2, ClientKeeps
      <3>4. SeatWaits'
        BY <2>2, <3>1, <3>3 DEF Seats, SeatWaits, Joining
      <3>5. SeatSeeder' /\ SeatReader'
        BY <2>1, <3>1, <3>3 DEF Seats, SeatSeeder, SeatReader
      <3>6. SeatClient'
        BY <1>1, <2>1, <2>2, <3>1, <3>3 DEF Seats, SeatClient, Joining
      <3> QED
        BY <2>3, <3>1, <3>4, <3>5, <3>6 DEF Seats
    <2>5. CASE live = None
      <3>1. PICK n \in RoomId : /\ ~room[n].made /\ room' = [room EXCEPT ![n] = NewRoom(q.text, b)]
                                /\ live' = n /\ Enter(t, b, n)
        BY <1>7, <2>5 DEF OpenRoom
      <3>2. NewRoom(q.text, b).clients = {b} /\ NewRoom(q.text, b).seeder = None
        BY DEF NewRoom, Unmade
      <3>3. room'[n].clients = {b} /\ room'[n].seeder = None
        BY <3>1, <3>2 DEF RoomsOK
      <3>4. /\ \A u \in Slot : req[u].room # n
            /\ \A c \in Browser : browser[c].at # n
        BY <3>1, RoomAssumption DEF Made, MadeReqs, MadeTabs
      <3>5. SeatWaits'
        BY <2>2, <3>1, <3>3, <3>4 DEF SeatWaits, Joining
      <3>6. SeatSeeder' /\ SeatReader'
        BY <2>1, <3>1, <3>3, <3>4 DEF SeatSeeder, SeatReader
      <3>7. SeatClient'
        BY <2>1, <2>2, <3>1, <3>3 DEF SeatClient, Joining
      <3> QED
        BY <2>3, <3>1, <3>5, <3>6, <3>7 DEF Seats
    <2> QED
      BY <2>4, <2>5
  <1>8. CASE AcquireClaim(t)
    <2>1. JoinsQuiet
      BY <1>8 DEF AcquireClaim, JoinsQuiet, RequestsOK, Handler
    <2> QED
      BY <1>8, <1>3, <1>4, <2>1, SeatsQuiet DEF AcquireClaim
  <1>9. CASE HoldMismatch(t)
    <2>1. JoinsQuiet
      BY <1>9 DEF HoldMismatch, JoinsQuiet, RequestsOK, Handler
    <2> QED
      BY <1>9, <1>3, <1>4, <2>1, SeatsQuiet DEF HoldMismatch
  <1>10. CASE ResetRoom(t)
    <2>1. \A b \in Browser : browser'[b].at \in {browser[b].at, None}
      BY <1>10 DEF ResetRoom, TabsOK, Fresh
    <2> QED
      BY <1>10, <2>1, FinishJoins, SeatsClosed DEF ResetRoom, Destroy
  <1>11. CASE Greet(t)
    <2> DEFINE b == q.by
               held == Holding(t)
               seeder == IF ~held.seeded /\ held.seeder = None THEN b ELSE held.seeder
    <2>1. b \in Browser /\ q.pc = "held" /\ q.kind = "join" /\ UNCHANGED live /\ Finish(t)
      BY <1>11, <1>0 DEF Greet, Answered, RequestOK
    <2>2. r \in RoomId /\ held \in Room /\ room[r] \in Room
      BY <2>1, HeldType
    <2>3. /\ held.seeded = room[r].seeded /\ held.seeder = room[r].seeder
          /\ held.clients = room[r].clients
      BY <2>1, HeldKeeps
    <2>4. /\ \A c \in Browser : ~Joining(t, c)'
          /\ \A u \in Slot : u # t => req'[u] = req[u]
          /\ Joining(t, b) /\ browser[b].at = None
      BY <2>1, FinishJoins DEF Joining, Seats, SeatJoin
    <2>5. CASE live = None
      <3>1. UNCHANGED browser
        BY <1>11, <2>5 DEF Greet
      <3> QED
        BY <2>1, <2>5, <3>1, FinishJoins, SeatsClosed
    <2>6. CASE live # None
      <3>1. /\ room' = [room EXCEPT ![r] = [held EXCEPT !.timer = TRUE, !.seeder = seeder]]
            /\ browser' = [browser EXCEPT ![b] =
                   [doc |-> IF held.seeded THEN Merge(@.doc, held.doc) ELSE @.doc,
                    at |-> r, ready |-> held.seeded, asked |-> seeder = b]]
        BY <1>11, <2>6 DEF Greet
      <3>2. \A c \in Browser : browser'[c].at = IF c = b THEN r ELSE browser[c].at
        BY <2>1, <3>1 DEF TabsOK
      <3>3. LET new == [held EXCEPT !.timer = TRUE, !.seeder = seeder]
            IN  new.clients = held.clients /\ new.seeded = held.seeded /\ new.seeder = seeder
        <4> HIDE DEF held, seeder
        <4> QED
          BY <2>2 DEF Room
      <3>4. /\ room'[r].clients = room[r].clients /\ room'[r].seeded = room[r].seeded
            /\ room'[r].seeder = seeder
            /\ \A s \in RoomId : s # r => room'[s] = room[s]
        <4> HIDE DEF held, seeder
        <4> QED
          BY <2>2, <2>3, <3>1, <3>3 DEF RoomsOK
      <3>5. room[r].seeded \/ seeder # None
        BY <2>1, <2>3, RoomAssumption
      <3>6. r = live => b \in room[r].clients
        BY <2>1, <2>4, <2>6 DEF Seats, SeatWaits
      <3>7. seeder \in {b, room[r].seeder}
        BY <2>3
      <3> HIDE DEF held, seeder
      <3>8. SeatJoin'
        BY <2>1, <2>4, <3>2 DEF Seats, SeatJoin, SeatOnce, Joining
      <3>9. SeatOnce'
        BY <2>4 DEF Seats, SeatOnce, Joining
      <3>10. SeatWaits'
        BY <1>1, <2>1, <2>4, <3>4 DEF Seats, SeatWaits, Joining
      <3>11. SeatSeeder'
        BY <1>1, <2>1, <3>4, <3>6, <3>7 DEF Seats, SeatSeeder
      <3>12. SeatReader'
        BY <1>1, <2>1, <2>4, <3>2, <3>4, <3>5, <3>6 DEF Seats, SeatReader
      <3>13. SeatClient'
        BY <1>1, <2>1, <2>4, <3>2, <3>4 DEF Seats, SeatClient, Joining
      <3> QED
        BY <3>8, <3>9, <3>10, <3>11, <3>12, <3>13 DEF Seats
    <2> QED
      BY <2>5, <2>6
  <1>12. CASE Apply(t)
    <2>1. q.pc = "held" /\ q.kind \in {"seed", "update"} /\ UNCHANGED live /\ Finish(t)
      BY <1>12 DEF Apply, Answered
    <2>2. TabsQuiet
      BY <1>12 DEF Apply, TabsQuiet, TabsOK, Tab
    <2>3. RoomQuiet
      <3>1. CASE room' = [room EXCEPT ![r] = Holding(t)]
        BY <2>1, <3>1, <1>6
      <3>2. CASE room' = [room EXCEPT ![r] = Applied(Holding(t), q.kind, q.doc)]
        <4> DEFINE held == Holding(t)
                   v == Applied(held, q.kind, q.doc)
        <4>1. r \in RoomId /\ held \in Room
          BY <2>1, HeldType
        <4>2. /\ held.clients = room[r].clients /\ held.seeded = room[r].seeded
              /\ held.seeder = room[r].seeder
          BY <2>1, HeldKeeps
        <4> HIDE DEF held
        <4>3. /\ v.clients = held.clients
              /\ \/ v.seeded = held.seeded /\ v.seeder = held.seeder
                 \/ v.seeded /\ v.seeder = None
          BY <4>1, <1>0, AppliedKeeps
        <4>4. room' = [room EXCEPT ![r] = v]
          BY <3>2 DEF held
        <4> HIDE DEF v
        <4> QED
          BY <4>1, <4>2, <4>3, <4>4, QuietPut
      <3> QED
        BY <1>12, <3>1, <3>2 DEF Apply
    <2> QED
      BY <1>5, <2>1, <2>2, <2>3, SeatsQuiet
  <1>13. CASE Held(t)
    BY <1>13, <1>4, <1>5, <1>6, SeatsQuiet DEF Held, Answered
  <1>14. CASE SaveHeld(t)
    <2>1. JoinsQuiet
      <3>1. CASE Finish(t)
        BY <1>14, <3>1, <1>5 DEF SaveHeld, Answered
      <3>2. CASE req' = [req EXCEPT ![t].pc = "read", ![t].text = page, ![t].reply = None,
                               ![t].covered = Covers(req[t].doc, room[r].doc)]
        BY <3>2 DEF JoinsQuiet, RequestsOK, Handler
      <3> QED
        BY <1>14, <3>1, <3>2 DEF SaveHeld
    <2> QED
      BY <1>14, <1>4, <1>6, <2>1, SeatsQuiet DEF SaveHeld, Answered
  <1>15. CASE SaveUnchanged(t)
    <2>1. RoomQuiet
      BY <1>15, <1>2, CleanedKeeps, QuietPut DEF SaveUnchanged
    <2>2. q.kind # "join"
      BY <1>15, <1>0 DEF SaveUnchanged, RequestOK
    <2> QED
      BY <1>15, <1>4, <1>5, <2>1, <2>2, SeatsQuiet DEF SaveUnchanged
  <1>16. CASE SaveWrites(t)
    <2>1. q.kind # "join"
      BY <1>16, <1>0 DEF SaveWrites, RequestOK
    <2>2. JoinsQuiet
      <3>1. CASE Finish(t)
        BY <2>1, <3>1, <1>5
      <3>2. CASE req' = [req EXCEPT ![t].pc = "written"]
        BY <3>2 DEF JoinsQuiet, RequestsOK, Handler
      <3> QED
        BY <1>16, <3>1, <3>2 DEF SaveWrites
    <2> QED
      BY <1>16, <1>3, <1>4, <2>2, SeatsQuiet DEF SaveWrites
  <1>17. CASE Saved(t)
    <2> DEFINE saved == Saving(room[r], Serialise(q.doc), q.covered)
    <2>0. r \in RoomId /\ room[r] \in Room
      BY <1>17, <1>2 DEF Saved
    <2>1. /\ saved.seeded = room[r].seeded /\ saved.seeder = room[r].seeder
          /\ saved.clients = room[r].clients
      BY <2>0, SavedKeeps
    <2>2. room' = [room EXCEPT ![r] = saved]
      BY <1>17 DEF Saved, Saving
    <2> HIDE DEF saved
    <2>3. RoomQuiet
      BY <2>0, <2>1, <2>2, QuietPut
    <2>4. q.kind # "join"
      BY <1>17, <1>0 DEF Saved, RequestOK
    <2> QED
      BY <1>17, <1>4, <1>5, <2>3, <2>4, SeatsQuiet DEF Saved
  <1>18. CASE Dropped(t)
    <2>1. q.kind # "join" /\ Finish(t) /\ UNCHANGED browser /\ r \in RoomId /\ room[r] \in Room
      BY <1>18, <1>0, <1>2 DEF Dropped, RequestOK
    <2>2. CASE Destroy(t, r)
      BY <2>1, <2>2, FinishJoins, SeatsClosed DEF Destroy
    <2>3. CASE room' = [room EXCEPT ![r].status = "paused"] /\ UNCHANGED live
      <3>1. LET new == [room[r] EXCEPT !.status = "paused"]
            IN  /\ new.seeded = room[r].seeded /\ new.seeder = room[r].seeder
                /\ new.clients = room[r].clients
        BY <2>1 DEF Room
      <3>2. RoomQuiet
        BY <2>1, <2>3, <3>1, QuietPut
      <3> QED
        BY <1>4, <1>5, <2>1, <2>3, <3>2, SeatsQuiet
    <2> QED
      BY <1>18, <2>2, <2>3 DEF Dropped
  <1>19. CASE Close(t)
    <2>1. \A b \in Browser : browser'[b].at \in {browser[b].at, None}
      BY <1>19, GoneType DEF Close, TabsOK
    <2> QED
      BY <1>19, <2>1, FinishJoins, SeatsClosed DEF Close, Destroy
  <1> QED
    BY <1>7, <1>8, <1>9, <1>10, <1>11, <1>12, <1>13, <1>14, <1>15, <1>16, <1>17, <1>18, <1>19 DEF Continues

LEMMA SeatsOthers ==
    ASSUME Typed, Seats,
           \/ \E t \in Slot : Clock(t)
           \/ \E b \in Browser : Receive(b) \/ LeaveNothing(b) \/ \E e \in Edit : Type(b, e)
           \/ \E r \in RoomId : Persist(r)
           \/ \E w \in Outside : OutsideWrites(w)
           \/ OutsideClaims \/ ClaimEnds \/ Crash
    PROVE  Seats'
  <1> USE DEF Typed
  <1>1. UNCHANGED room => RoomQuiet
    BY DEF RoomQuiet
  <1>2. UNCHANGED browser => TabsQuiet
    BY DEF TabsQuiet
  <1>3. UNCHANGED req => JoinsQuiet
    BY DEF JoinsQuiet
  <1>4. ASSUME NEW t \in Slot, Evict(t) PROVE Seats'
    <2>1. JoinsQuiet
      BY <1>4, QuietStart DEF Evict
    <2> QED
      BY <1>4, <1>1, <1>2, <2>1, SeatsQuiet DEF Evict
  <1>5. ASSUME NEW t \in Slot, NEW r \in RoomId, Renew(t, r) PROVE Seats'
    <2>1. room[r] \in Room
      BY DEF RoomsOK
    <2>2. LET new == [room[r] EXCEPT !.claim = None]
          IN  /\ new.seeded = room[r].seeded /\ new.seeder = room[r].seeder
              /\ new.clients = room[r].clients
      BY <2>1 DEF Room
    <2>3. RoomQuiet
      BY <1>5, <1>1, <2>2, QuietPut DEF Renew
    <2>4. JoinsQuiet
      <3>1. CASE Start(t, "renew", None, r, "hold", Empty)
        BY <3>1, QuietStart
      <3>2. CASE /\ req[t].pc = "idle"
                 /\ \E x : req' = [req EXCEPT ![t] = [Idle EXCEPT !.pc = "drop", !.kind = "renew",
                                                                !.room = r, !.reply = x]]
        BY <3>2, QuietDrop
      <3> QED
        BY <1>5, <3>1, <3>2 DEF Renew
    <2> QED
      BY <1>5, <1>2, <2>3, <2>4, SeatsQuiet DEF Renew
  <1>6. ASSUME NEW b \in Browser, Receive(b) \/ LeaveNothing(b) \/ \E e \in Edit : Type(b, e)
        PROVE  Seats'
    <2>1. TabsQuiet
      <3>1. CASE LeaveNothing(b)
        BY <3>1, GoneType DEF LeaveNothing, TabsQuiet, TabsOK
      <3>2. CASE Receive(b)
        BY <3>2 DEF Receive, TabsQuiet, TabsOK, Tab
      <3>3. CASE \E e \in Edit : Type(b, e)
        BY <3>3 DEF Type, TabsQuiet, TabsOK, Tab
      <3> QED
        BY <1>6, <3>1, <3>2, <3>3
    <2>2. UNCHANGED <<live, room, req>>
      BY <1>6 DEF Receive, LeaveNothing, Type
    <2> QED
      BY <1>1, <1>3, <2>1, <2>2, SeatsQuiet
  <1>7. ASSUME NEW r \in RoomId, Persist(r) PROVE Seats'
    <2>1. room[r] \in Room
      BY DEF RoomsOK
    <2>2. LET new == [room[r] EXCEPT !.persisting = FALSE]
          IN  /\ new.seeded = room[r].seeded /\ new.seeder = room[r].seeder
              /\ new.clients = room[r].clients
      BY <2>1 DEF Room
    <2>3. RoomQuiet
      BY <1>7, <2>2, QuietPut DEF Persist
    <2> QED
      BY <1>7, <1>2, <1>3, <2>3, SeatsQuiet DEF Persist
  <1>8. ASSUME (\E w \in Outside : OutsideWrites(w)) \/ OutsideClaims \/ ClaimEnds PROVE Seats'
    <2>1. UNCHANGED <<live, room, req, browser>>
      BY <1>8 DEF OutsideWrites, OutsideClaims, ClaimEnds
    <2> QED
      BY <1>1, <1>2, <1>3, <2>1, SeatsQuiet
  <1>9. CASE Crash
    <2>1. \A b \in Browser : browser'[b].at = None
      BY <1>9, GoneType DEF Crash
    <2>2. \A t \in Slot : req'[t].kind # "join"
      BY <1>9 DEF Crash, Idle
    <2> QED
      BY <1>9, <2>1, <2>2, SeatsClosed DEF Crash
  <1> QED
    BY <1>4, <1>5, <1>6, <1>7, <1>8, <1>9 DEF Clock

LEMMA SeatsStep == Typed /\ Made /\ Seats /\ [Next]_vars => Seats'
  <1>1. Seats /\ UNCHANGED vars => Seats'
    BY DEF vars, Seats, SeatJoin, SeatOnce, SeatWaits, SeatSeeder, SeatReader, SeatClient, Joining
  <1> QED
    BY <1>1, SeatsRequests, SeatsContinues, SeatsOthers DEF Next

(* While the document is still to be built, a connected client has the job.*)
THEOREM SomebodyBuildsAlways == Spec => []SomebodyBuilds
  <1> DEFINE Inv == Typed /\ Made /\ Seats
  <1>1. Init => Inv
    BY TypedInit, MadeInit, SeatsInit
  <1>2. Inv /\ [Next]_vars => Inv'
    BY TypedStep, MadeStep, SeatsStep
  <1>3. Inv => SomebodyBuilds
    BY DEF Seats, SeatSeeder, SeatReader, SomebodyBuilds
  <1> QED
    BY <1>1, <1>2, <1>3, PTL DEF Spec

----------------------------------------------------------------------------
(* What is written in the documents, if a browser comes back with nothing. *)
(* A document was built from texts with the same outside writes as the text*)
(* its room is based on; what is loaded, sent, seeded or ready was built.  *)
Carries(q) == q.kind \in {"seed", "update", "save"}
Over(d, base) == \A x \in d.built : x.text \cap Outside = base \cap Outside

TabText(x) ==
    /\ x.at = None => x.doc = Empty
    /\ x.doc.built = {} => x.doc.typed = {}
    /\ x.ready => x.doc.built # {}
RoomText(rm) ==
    /\ rm.seeded => rm.doc.built # {}
    /\ Over(rm.doc, rm.base)

TextTabs  == \A b \in Browser : TabText(browser[b])
TextRooms == \A r \in RoomId : RoomText(room[r])
TextRow   == row # None => row.doc.built # {} /\ Over(row.doc, row.base)
TextReqs  == \A t \in Slot : Carries(req[t]) =>
                req[t].doc.built # {} /\ Over(req[t].doc, room[req[t].room].base)
TextLive  == live # None =>
                \A b \in Browser : browser[b].at = live => Over(browser[b].doc, room[live].base)
Texts == TextTabs /\ TextRooms /\ TextRow /\ TextReqs /\ TextLive

LEMMA OverMerge ==
    ASSUME NEW d, NEW e, NEW base, Over(d, base), Over(e, base)
    PROVE  Over(Merge(d, e), base)
  BY DEF Over, Merge

LEMMA OverEmpty == \A base : Over(Empty, base)
  BY DEF Over, Empty

LEMMA OverSame ==
    ASSUME NEW d, NEW base, NEW new, Over(d, base), new \cap Outside = base \cap Outside
    PROVE  Over(d, new)
  BY DEF Over

(* Saved over its room's text, a document keeps what others wrote there.   *)
LEMMA OverSerialise ==
    ASSUME NEW d \in Doc, NEW base \in Text, d.built # {}, Over(d, base)
    PROVE  Serialise(d) \cap Outside = base \cap Outside
  <1>1. d.typed \cap Outside = {}
    BY RoomAssumption DEF Doc
  <1>2. PICK x \in d.built : x.text \cap Outside = base \cap Outside
    BY DEF Over
  <1>3. ASSUME NEW w \in Outside, w \in Serialise(d) PROVE w \in base
    <2>1. PICK y \in d.built : w \in y.text
      BY <1>1, <1>3 DEF Serialise
    <2> QED
      BY <2>1 DEF Over
  <1>4. ASSUME NEW w \in Outside, w \in base PROVE w \in Serialise(d)
    BY <1>2, <1>4 DEF Serialise
  <1> QED
    BY <1>3, <1>4

(* Steps that leave documents, and what rooms are based on, as they were.  *)
BasesStay  == \A r \in RoomId : room'[r].base \cap Outside = room[r].base \cap Outside
RoomsStill == \A r \in RoomId : /\ room'[r].base = room[r].base /\ room'[r].doc = room[r].doc
                                /\ room'[r].seeded => room[r].seeded
TabsStill  == \A b \in Browser : \/ browser'[b] = Fresh
                                 \/ /\ browser'[b].doc = browser[b].doc /\ browser'[b].at = browser[b].at
                                    /\ browser'[b].ready => browser[b].ready
ReqsStill  == \A t \in Slot : Carries(req'[t]) =>
                 Carries(req[t]) /\ req'[t].doc = req[t].doc /\ req'[t].room = req[t].room
RowStill   == \/ row' \in {row, None}
              \/ \E rm \in Room : RoomText(rm) /\ row' = Persisted(rm)

LEMMA StillRooms == RoomsStill /\ TextRooms => TextRooms' /\ BasesStay
  BY DEF RoomsStill, TextRooms, RoomText, BasesStay

LEMMA StillTabs == TabsStill /\ TextTabs => TextTabs'
  <1>1. TabText(Fresh)
    BY DEF TabText, Fresh, Empty
  <1> QED
    BY <1>1 DEF TabsStill, TextTabs, TabText

LEMMA StillLive ==
    ASSUME LiveOK, TextLive, TabsStill, BasesStay, UNCHANGED live
    PROVE  TextLive'
  <1> SUFFICES ASSUME live # None, NEW b \in Browser, browser'[b].at = live
               PROVE  Over(browser'[b].doc, room'[live].base)
    BY DEF TextLive
  <1>1. live \in RoomId
    BY DEF LiveOK
  <1>2. Fresh.at = None
    BY DEF Fresh
  <1>3. browser'[b].doc = browser[b].doc /\ browser[b].at = live
    BY <1>2 DEF TabsStill
  <1> QED
    BY <1>1, <1>3, OverSame DEF TextLive, BasesStay

LEMMA StillReqs ==
    ASSUME RequestsOK, TextReqs, ReqsStill, BasesStay
    PROVE  TextReqs'
  <1> SUFFICES ASSUME NEW t \in Slot, Carries(req'[t])
               PROVE  req'[t].doc.built # {} /\ Over(req'[t].doc, room'[req'[t].room].base)
    BY DEF TextReqs
  <1>1. Carries(req[t]) /\ req'[t].doc = req[t].doc /\ req'[t].room = req[t].room
    BY DEF ReqsStill
  <1>2. req[t].room \in RoomId
    BY <1>1 DEF Carries, RequestsOK, RequestOK
  <1> QED
    BY <1>1, <1>2, OverSame DEF TextReqs, BasesStay

LEMMA StillRow == RowStill /\ TextRow => TextRow'
  <1>1. ASSUME NEW rm \in Room, RoomText(rm), row' = Persisted(rm), TextRow
        PROVE  TextRow'
    BY <1>1 DEF TextRow, Persisted, RoomText
  <1> QED
    BY <1>1 DEF RowStill, TextRow

LEMMA AllStill ==
    ASSUME Typed, Texts, RoomsStill, TabsStill, ReqsStill, RowStill,
           live' \in {live, None}
    PROVE  Texts'
  <1>1. TextRooms' /\ BasesStay
    BY StillRooms DEF Texts
  <1>2. TextLive'
    <2>1. CASE live' = None
      BY <2>1 DEF TextLive
    <2> QED
      BY <1>1, <2>1, StillLive DEF Typed, Texts
  <1> QED
    BY <1>1, <1>2, StillTabs, StillReqs, StillRow DEF Typed, Texts

LEMMA IdleCarries == ~Carries(Idle)
  BY DEF Carries, Idle

LEMMA TextsInit == Init => Texts
  <1>1. TabText(Fresh)
    BY DEF TabText, Fresh, Empty
  <1>2. RoomText(Unmade)
    BY OverEmpty DEF RoomText, Unmade
  <1> QED
    BY <1>1, <1>2, IdleCarries DEF Init, Texts, TextTabs, TextRooms, TextRow, TextReqs, TextLive

LEMMA StillFinish ==
    ASSUME RequestsOK, NEW t \in Slot, Finish(t)
    PROVE  ReqsStill
  BY IdleCarries DEF Finish, RequestsOK, ReqsStill

LEMMA StillSet ==
    ASSUME RequestsOK, NEW t \in Slot, NEW v, req' = [req EXCEPT ![t] = v],
           Carries(v) => Carries(req[t]) /\ v.doc = req[t].doc /\ v.room = req[t].room
    PROVE  ReqsStill
  BY DEF RequestsOK, ReqsStill

LEMMA StillStart ==
    ASSUME RequestsOK, NEW t \in Slot, NEW kind, NEW b, NEW r, NEW pc, NEW d,
           kind \notin {"seed", "update", "save"}, Start(t, kind, b, r, pc, d)
    PROVE  ReqsStill
  <1>1. ~Carries([Idle EXCEPT !.pc = pc, !.kind = kind, !.by = b, !.room = r, !.doc = d])
    BY DEF Carries, Idle
  <1> QED
    BY <1>1, StillSet DEF Start

LEMMA StillDrop ==
    ASSUME RequestsOK, NEW t \in Slot, NEW kind \in {"leave", "renew"}, NEW r, NEW x,
           req' = [req EXCEPT ![t] = [Idle EXCEPT !.pc = "drop", !.kind = kind, !.room = r, !.reply = x]]
    PROVE  ReqsStill
  <1>1. ~Carries([Idle EXCEPT !.pc = "drop", !.kind = kind, !.room = r, !.reply = x])
    BY DEF Carries, Idle
  <1> QED
    BY <1>1, StillSet

(* One room rewritten without a change of its document.                    *)
LEMMA StillPut ==
    ASSUME RoomsOK, NEW r \in RoomId, NEW v, room' = [room EXCEPT ![r] = v],
           v.base = room[r].base, v.doc = room[r].doc, v.seeded = room[r].seeded
    PROVE  RoomsStill
  BY DEF RoomsOK, RoomsStill

(* A request that carries a document for the room of the page.             *)
LEMMA CarryStart ==
    ASSUME Typed, TextReqs, live # None, BasesStay, NEW t \in Slot, NEW q,
           req' = [req EXCEPT ![t] = q], q.room = live,
           q.doc.built # {}, Over(q.doc, room[live].base)
    PROVE  TextReqs'
  <1> SUFFICES ASSUME NEW u \in Slot, Carries(req'[u])
               PROVE  req'[u].doc.built # {} /\ Over(req'[u].doc, room'[req'[u].room].base)
    BY DEF TextReqs
  <1>1. CASE u = t
    <2>1. req'[u] = q
      BY <1>1 DEF Typed, RequestsOK
    <2>2. Over(q.doc, room'[live].base)
      BY OverSame DEF BasesStay, Typed, LiveOK
    <2> QED
      BY <2>1, <2>2
  <1>2. CASE u # t
    <2>1. req'[u] = req[u] /\ req[u].room \in RoomId
      BY <1>2 DEF Typed, RequestsOK, RequestOK, Carries
    <2> QED
      BY <2>1, OverSame DEF TextReqs, BasesStay
  <1> QED
    BY <1>1, <1>2

(* An update or a seed that the room takes, or that waits for the claim.   *)
LEMMA TextsApply ==
    ASSUME Typed, Texts, live # None, NEW t \in Slot, NEW kind \in {"seed", "update"}, NEW b \in Browser,
           NEW d \in Doc, d.built # {}, Over(d, room[live].base), ApplyOrHold(t, kind, b, d)
    PROVE  TextRooms' /\ TextReqs' /\ BasesStay
  <1>0. live \in RoomId /\ room[live] \in Room /\ RoomText(room[live])
    BY DEF Typed, LiveOK, RoomsOK, Texts, TextRooms
  <1>1. CASE room' = [room EXCEPT ![live] = Applied(room[live], kind, d)] /\ UNCHANGED req
    <2> DEFINE v == Applied(room[live], kind, d)
    <2>1. v.base = room[live].base /\ v.doc = Merge(room[live].doc, d)
      BY <1>0, AppliedKeeps
    <2> HIDE DEF v
    <2>2. RoomText(v)
      <3>1. Over(v.doc, v.base)
        BY <1>0, <2>1, OverMerge DEF RoomText
      <3>2. v.doc.built # {}
        BY <2>1 DEF Merge
      <3> QED
        BY <3>1, <3>2 DEF RoomText
    <2>3. TextRooms' /\ BasesStay
      BY <1>0, <1>1, <2>1, <2>2 DEF v, Typed, RoomsOK, Texts, TextRooms, BasesStay
    <2>4. ReqsStill
      BY <1>1 DEF ReqsStill
    <2> QED
      BY <2>3, <2>4, StillReqs DEF Typed, Texts
  <1>2. CASE Start(t, kind, b, live, "hold", d) /\ UNCHANGED room
    <2> DEFINE q == [Idle EXCEPT !.pc = "hold", !.kind = kind, !.by = b, !.room = live, !.doc = d]
    <2>1. q.room = live /\ q.doc = d
      BY DEF Idle
    <2>2. req' = [req EXCEPT ![t] = q]
      BY <1>2 DEF Start
    <2> HIDE DEF q
    <2>3. TextRooms' /\ BasesStay
      BY <1>2 DEF Texts, TextRooms, BasesStay
    <2> QED
      BY <2>1, <2>2, <2>3, CarryStart DEF Texts
  <1> QED
    BY <1>1, <1>2 DEF ApplyOrHold

(* A handler ends by destroying its room.                                  *)
LEMMA TextsDestroy ==
    ASSUME Typed, Texts, NEW t \in Slot, NEW r \in RoomId, Destroy(t, r), Finish(t)
    PROVE  TextRooms' /\ TextReqs' /\ TextLive'
  <1> USE DEF Typed
  <1>1. RoomText([Unmade EXCEPT !.made = TRUE])
    BY OverEmpty DEF RoomText, Unmade
  <1>2. TextRooms'
    <2> SUFFICES ASSUME NEW s \in RoomId PROVE RoomText(room'[s])
      BY DEF TextRooms
    <2>1. RoomText(room[s])
      BY DEF Texts, TextRooms
    <2> QED
      BY <1>1, <2>1, DestroyedKeeps DEF RoomText
  <1>3. TextReqs'
    <2> SUFFICES ASSUME NEW u \in Slot, Carries(req'[u])
                 PROVE  req'[u].doc.built # {} /\ Over(req'[u].doc, room'[req'[u].room].base)
      BY DEF TextReqs
    <2>1. u # t /\ req'[u] = req[u]
      BY IdleCarries DEF Finish, RequestsOK
    <2>2. req[u].room \in RoomId
      BY <2>1 DEF Carries, RequestsOK, RequestOK
    <2>3. room'[req[u].room].base = room[req[u].room].base
      BY <2>1, <2>2, DestroyedKeeps
    <2> QED
      BY <2>1, <2>3 DEF Texts, TextReqs
  <1>4. TextLive'
    BY DEF TextLive, Destroy
  <1> QED
    BY <1>2, <1>3, <1>4

LEMMA TextsRequests ==
    ASSUME ~Reconnect, Typed, Seats, Texts, NEW t \in Slot, Requests(t)
    PROVE  Texts'
  <1> USE DEF Typed
  <1>0. PICK b \in Browser :
           Join(t, b) \/ Seed(t, b) \/ Send(t, b) \/ Resume(t, b) \/ Save(t, b)
           \/ LeaveOthers(t, b) \/ LeaveLast(t, b)
    BY DEF Requests
  <1>1. live # None => live \in RoomId /\ room[live] \in Room /\ RoomText(room[live])
    BY DEF RoomsOK, LiveOK, Texts, TextRooms
  <1>2. browser[b] \in Tab /\ TabOK(browser[b]) /\ browser[b].doc \in Doc /\ TabText(browser[b])
    BY TabParts DEF TabsOK, Texts, TextTabs
  <1>3. UNCHANGED room => RoomsStill
    BY DEF RoomsStill
  <1>4. UNCHANGED browser => TabsStill
    BY DEF TabsStill
  <1>5. UNCHANGED row => RowStill
    BY DEF RowStill
  <1>6. UNCHANGED req => ReqsStill
    BY DEF ReqsStill
  <1>7. Gone(b) = {Fresh}
    BY DEF Gone
  <1>8. Connected(b) /\ (browser[b].ready \/ browser[b].asked) =>
           live # None /\ browser[b].at = live /\ Over(browser[b].doc, room[live].base)
    BY <1>2 DEF Connected, TabOK, Seats, SeatClient, SeatJoin, Texts, TextLive
  <1>9. CASE Join(t, b)
    <2>1. CASE live # None
      <3>1. room' = [room EXCEPT ![live] = [room[live] EXCEPT !.clients = @ \cup {b}]]
        BY <1>9, <2>1 DEF Join
      <3>2. RoomsStill
        BY <1>1, <2>1, <3>1, ClientKeeps, StillPut
      <3>3. ~Carries([Idle EXCEPT !.pc = "hold", !.kind = "join", !.by = b, !.room = live])
        BY DEF Carries, Idle
      <3>4. ReqsStill
        BY <1>9, <2>1, <3>3, StillSet DEF Join, Enter
      <3> QED
        BY <1>9, <1>4, <1>5, <3>2, <3>4, AllStill DEF Join
    <2>2. CASE live = None
      <3>1. ~Carries([Idle EXCEPT !.pc = "load", !.kind = "join", !.by = b, !.text = page])
        BY DEF Carries, Idle
      <3>2. ReqsStill
        BY <1>9, <2>2, <3>1, StillSet DEF Join
      <3> QED
        BY <1>9, <2>2, <1>3, <1>4, <1>5, <3>2, AllStill DEF Join
    <2> QED
      BY <2>1, <2>2
  <1>10. CASE Seed(t, b)
    <2>1. /\ live # None /\ browser[b].at = live /\ Over(browser[b].doc, room[live].base)
          /\ Built(b) \in Doc /\ UNCHANGED <<row, live>>
      BY <1>10, <1>8, BuiltType DEF Seed
    <2>2. Built(b).built # {} /\ Over(Built(b), room[live].base)
      <3>1. CASE browser[b].doc # Empty
        <4>1. browser[b].doc.built # {}
          BY <1>2, <3>1 DEF TabText, Doc, Empty
        <4> QED
          BY <2>1, <3>1, <4>1 DEF Built
      <3>2. CASE browser[b].doc = Empty
        <4>1. Built(b).built = {[by |-> b, room |-> live, text |-> room[live].base]}
          BY <2>1, <3>2 DEF Built
        <4> QED
          BY <4>1 DEF Over
      <3> QED
        BY <3>1, <3>2
    <2>3. PICK y \in BOOLEAN :
             browser' = [browser EXCEPT ![b].asked = FALSE, ![b].doc = Built(b), ![b].ready = y]
      BY <1>10 DEF Seed
    <2>4. /\ browser'[b].doc = Built(b) /\ browser'[b].at = live
          /\ \A c \in Browser : c # b => browser'[c] = browser[c]
      BY <2>1, <2>3, <1>2 DEF TabsOK, Tab
    <2>5. TextTabs'
      BY <2>1, <2>2, <2>4 DEF TextTabs, TabText, Texts
    <2>6. TextRooms' /\ TextReqs' /\ BasesStay
      <3>1. CASE UNCHANGED <<room, req>>
        BY <1>3, <1>6, <3>1, StillRooms, StillReqs DEF Texts
      <3>2. CASE ApplyOrHold(t, "seed", b, Built(b))
        BY <2>1, <2>2, <3>2, TextsApply
      <3> QED
        BY <1>10, <3>1, <3>2 DEF Seed
    <2>7. TextLive'
      <3> SUFFICES ASSUME NEW c \in Browser, browser'[c].at = live
                   PROVE  Over(browser'[c].doc, room'[live].base)
        BY <2>1 DEF TextLive
      <3>1. Over(browser'[c].doc, room[live].base)
        BY <2>1, <2>2, <2>4 DEF Texts, TextLive
      <3> QED
        BY <1>1, <2>1, <2>6, <3>1, OverSame DEF BasesStay
    <2>8. TextRow'
      BY <2>1 DEF Texts, TextRow
    <2> QED
      BY <2>5, <2>6, <2>7, <2>8 DEF Texts
  <1>11. CASE Send(t, b)
    <2>1. /\ live # None /\ Over(browser[b].doc, room[live].base) /\ browser[b].doc.built # {}
          /\ UNCHANGED <<row, live, browser>>
      BY <1>11, <1>2, <1>8 DEF Send, TabText
    <2>2. TextRooms' /\ TextReqs' /\ BasesStay
      BY <1>2, <1>11, <2>1, TextsApply DEF Send
    <2>3. TextTabs' /\ TextLive' /\ TextRow'
      BY <2>1, <2>2, <1>4, <1>5, StillTabs, StillLive, StillRow DEF Texts
    <2> QED
      BY <2>2, <2>3 DEF Texts
  <1>12. CASE Resume(t, b)
    <2>1. ReqsStill
      BY <1>12, StillStart DEF Resume
    <2> QED
      BY <1>12, <1>3, <1>4, <1>5, <2>1, AllStill DEF Resume
  <1>13. CASE Save(t, b)
    <2>1. /\ live # None /\ Over(browser[b].doc, room[live].base) /\ browser[b].doc.built # {}
          /\ UNCHANGED <<row, live, browser, room>>
      BY <1>13, <1>2, <1>8 DEF Save, TabText
    <2>2. TextRooms' /\ BasesStay /\ TextTabs' /\ TextLive' /\ TextRow'
      BY <2>1, <1>3, <1>4, <1>5, StillRooms, StillTabs, StillLive, StillRow DEF Texts
    <2>3. TextReqs'
      <3>1. CASE Start(t, "save", b, live, "hold", browser[b].doc)
        <4> DEFINE q == [Idle EXCEPT !.pc = "hold", !.kind = "save", !.by = b, !.room = live, !.doc = browser[b].doc]
        <4>1. q.room = live /\ q.doc = browser[b].doc
          BY DEF Idle
        <4>2. req' = [req EXCEPT ![t] = q]
          BY <3>1 DEF Start
        <4> HIDE DEF q
        <4> QED
          BY <2>1, <2>2, <4>1, <4>2, CarryStart DEF Texts
      <3>2. CASE req' = [req EXCEPT ![t] =
               [Idle EXCEPT !.pc = "read", !.kind = "save", !.by = b, !.room = live,
                            !.doc = browser[b].doc,
                            !.covered = Covers(browser[b].doc, room[live].doc), !.text = page]]
        <4> DEFINE q == [Idle EXCEPT !.pc = "read", !.kind = "save", !.by = b, !.room = live,
                            !.doc = browser[b].doc,
                            !.covered = Covers(browser[b].doc, room[live].doc), !.text = page]
        <4>1. q.room = live /\ q.doc = browser[b].doc
          BY DEF Idle
        <4>2. req' = [req EXCEPT ![t] = q]
          BY <3>2
        <4> HIDE DEF q
        <4> QED
          BY <2>1, <2>2, <4>1, <4>2, CarryStart DEF Texts
      <3> QED
        BY <1>13, <3>1, <3>2 DEF Save
    <2> QED
      BY <2>2, <2>3 DEF Texts
  <1>14. CASE LeaveOthers(t, b)
    <2>0. live # None /\ UNCHANGED <<row, live>>
      BY <1>14 DEF LeaveOthers
    <2>1. PICK s \in NextSeeder(room[live], b), gone \in Gone(b) :
           /\ room' = [room EXCEPT ![live] = [Left(@, b) EXCEPT !.seeder = s]]
           /\ browser' = [c \in Browser |->
                 IF c = b THEN gone
                 ELSE IF c = s /\ room[live].seeder # s /\ browser[c].at = live
                      THEN [browser[c] EXCEPT !.asked = TRUE] ELSE browser[c]]
      BY <1>14 DEF LeaveOthers
    <2>2. TabsStill
      BY <1>7, <2>1 DEF TabsStill, TabsOK, Tab
    <2>3. RoomsStill
      <3> DEFINE v == [Left(room[live], b) EXCEPT !.seeder = s]
      <3>1. Left(room[live], b) \in Room
        BY <1>1, <2>0, LeftType
      <3>2. /\ v.base = Left(room[live], b).base /\ v.doc = Left(room[live], b).doc
            /\ v.seeded = Left(room[live], b).seeded
        BY <3>1, SeederKeeps
      <3>3. v.base = room[live].base /\ v.doc = room[live].doc /\ v.seeded = room[live].seeded
        <4> HIDE DEF v
        <4> QED
          BY <1>1, <2>0, <3>2, LeftKeeps
      <3>4. room' = [room EXCEPT ![live] = v]
        BY <2>1
      <3> HIDE DEF v
      <3> QED
        BY <1>1, <2>0, <3>3, <3>4, StillPut
    <2>4. ReqsStill
      BY <1>14, <1>6, StillStart DEF LeaveOthers
    <2> QED
      BY <2>0, <1>5, <2>2, <2>3, <2>4, AllStill
  <1>15. CASE LeaveLast(t, b)
    <2> DEFINE rm == Left(room[live], b)
    <2>0. live # None /\ UNCHANGED live
      BY <1>15 DEF LeaveLast
    <2>1. TabsStill
      BY <1>7, <1>15 DEF LeaveLast, TabsStill, TabsOK
    <2>2. /\ rm \in Room /\ rm.base = room[live].base /\ rm.doc = room[live].doc
          /\ rm.seeded = room[live].seeded
      BY <1>1, <2>0, LeftType, LeftKeeps
    <2>3. RoomText(rm)
      <3> HIDE DEF rm
      <3> QED
        BY <1>1, <2>0, <2>2 DEF RoomText
    <2>4. RowStill
      BY <1>5, <1>15, <2>2, <2>3 DEF LeaveLast, RowStill
    <2>5. RoomsStill
      <3> HIDE DEF rm
      <3>1. LET new == [rm EXCEPT !.claim = None]
            IN  new.base = rm.base /\ new.doc = rm.doc /\ new.seeded = rm.seeded
        BY <2>2 DEF Room
      <3>2. room' = [room EXCEPT ![live] = rm] \/ room' = [room EXCEPT ![live] = [rm EXCEPT !.claim = None]]
        BY <1>15 DEF LeaveLast, rm
      <3> QED
        BY <1>1, <2>0, <2>2, <3>1, <3>2, StillPut
    <2>6. ReqsStill
      <3>1. CASE Start(t, "leave", None, live, "close", Empty)
        BY <3>1, StillStart
      <3>2. CASE \E x : req' = [req EXCEPT ![t] = [Idle EXCEPT !.pc = "drop", !.kind = "leave",
                                                                !.room = live, !.reply = x]]
        BY <3>2, StillDrop
      <3> QED
        BY <1>15, <3>1, <3>2 DEF LeaveLast
    <2> QED
      BY <2>0, <2>1, <2>4, <2>5, <2>6, AllStill
  <1> QED
    BY <1>0, <1>9, <1>10, <1>11, <1>12, <1>13, <1>14, <1>15

LEMMA TextsContinues ==
    ASSUME ~Reconnect, Typed, Made, Seats, Texts, NEW t \in Slot, Continues(t)
    PROVE  Texts'
  <1> USE DEF Typed
  <1> DEFINE q == req[t]
             r == q.room
  <1>0. q \in Handler /\ RequestOK(q) /\ q.doc \in Doc /\ q.text \in Text
    BY RequestParts DEF RequestsOK
  <1>1. live # None => live \in RoomId /\ room[live] \in Room
    BY DEF RoomsOK, LiveOK
  <1>2. q.pc \notin {"idle", "load"} => r \in RoomId /\ room[r] \in Room /\ RoomText(room[r])
    BY <1>0 DEF RequestOK, RoomsOK, Texts, TextRooms
  <1>3. UNCHANGED room => RoomsStill
    BY DEF RoomsStill
  <1>4. UNCHANGED browser => TabsStill
    BY DEF TabsStill
  <1>5. row' \in {row, None} => RowStill
    BY DEF RowStill
  <1>6. Finish(t) => ReqsStill
    BY StillFinish
  <1>7. q.pc = "held" /\ room' = [room EXCEPT ![r] = Holding(t)] => RoomsStill
    BY <1>2, HeldKeeps, StillPut
  <1>8. Carries(q) => q.doc.built # {} /\ Over(q.doc, room[r].base)
    BY DEF Texts, TextReqs
  <1>9. CASE OpenRoom(t)
    <2> DEFINE b == q.by
    <2>1. UNCHANGED browser /\ TabsStill /\ RowStill
      BY <1>9, <1>4, <1>5 DEF OpenRoom
    <2>2. ASSUME NEW n, Enter(t, b, n) PROVE ReqsStill
      <3>1. ~Carries([Idle EXCEPT !.pc = "hold", !.kind = "join", !.by = b, !.room = n])
        BY DEF Carries, Idle
      <3> QED
        BY <2>2, <3>1, StillSet DEF Enter
    <2>3. CASE live # None
      <3>1. /\ room' = [room EXCEPT ![live] = [room[live] EXCEPT !.clients = @ \cup {b}]]
            /\ Enter(t, b, live) /\ UNCHANGED live
        BY <1>9, <2>3 DEF OpenRoom
      <3>2. RoomsStill
        BY <1>1, <2>3, <3>1, ClientKeeps, StillPut
      <3> QED
        BY <2>1, <2>2, <3>1, <3>2, AllStill
    <2>4. CASE live = None
      <3>1. PICK n \in RoomId : /\ ~room[n].made /\ room' = [room EXCEPT ![n] = NewRoom(q.text, b)]
                                /\ live' = n /\ Enter(t, b, n)
        BY <1>9, <2>4 DEF OpenRoom
      <3>2. /\ \A u \in Slot : req[u].room # n
            /\ \A c \in Browser : browser[c].at # n
        BY <3>1, RoomAssumption DEF Made, MadeReqs, MadeTabs
      <3>3. RoomText(NewRoom(q.text, b))
        <4>1. CASE Resumable(q.text)
          <5>1. /\ NewRoom(q.text, b).doc = row.doc /\ NewRoom(q.text, b).base = q.text
            BY <4>1 DEF NewRoom, Unmade
          <5>2. row # None /\ row.base = q.text
            BY <4>1 DEF Resumable
          <5>3. row.doc.built # {} /\ Over(row.doc, q.text)
            BY <5>2 DEF Texts, TextRow
          <5> QED
            BY <5>1, <5>3 DEF RoomText
        <4>2. CASE ~Resumable(q.text)
          <5>1. NewRoom(q.text, b).doc = Empty /\ ~NewRoom(q.text, b).seeded
            BY <4>2 DEF NewRoom, Unmade
          <5> QED
            BY <5>1, OverEmpty DEF RoomText
        <4> QED
          BY <4>1, <4>2
      <3>4. TextRooms'
        BY <3>1, <3>3 DEF TextRooms, Texts, RoomsOK
      <3>5. TextReqs'
        <4> SUFFICES ASSUME NEW u \in Slot, Carries(req'[u])
                     PROVE  req'[u].doc.built # {} /\ Over(req'[u].doc, room'[req'[u].room].base)
          BY DEF TextReqs
        <4>1. Carries(req[u]) /\ req'[u].doc = req[u].doc /\ req'[u].room = req[u].room
          BY <2>2, <3>1 DEF ReqsStill
        <4>2. req[u].room \in RoomId /\ req[u].room # n
          BY <3>2, <4>1 DEF Carries, RequestsOK, RequestOK
        <4>3. room'[req[u].room] = room[req[u].room]
          BY <3>1, <4>2 DEF RoomsOK
        <4> QED
          BY <4>1, <4>3 DEF Texts, TextReqs
      <3>6. TextLive'
        BY <2>1, <3>1, <3>2 DEF TextLive
      <3>7. TextTabs' /\ TextRow'
        BY <2>1, StillTabs, StillRow DEF Texts
      <3> QED
        BY <3>4, <3>5, <3>6, <3>7 DEF Texts
    <2> QED
      BY <2>3, <2>4
  <1>10. CASE AcquireClaim(t)
    <2>1. ReqsStill
      BY <1>10 DEF AcquireClaim, ReqsStill, RequestsOK, Handler, Carries
    <2> QED
      BY <1>10, <1>3, <1>4, <1>5, <2>1, AllStill DEF AcquireClaim
  <1>11. CASE HoldMismatch(t)
    <2>1. ReqsStill
      BY <1>11 DEF HoldMismatch, ReqsStill, RequestsOK, Handler, Carries
    <2> QED
      BY <1>11, <1>3, <1>4, <1>5, <2>1, AllStill DEF HoldMismatch
  <1>12. CASE ResetRoom(t)
    <2>1. TextRooms' /\ TextReqs' /\ TextLive'
      BY <1>12, <1>2, TextsDestroy DEF ResetRoom
    <2>2. TabsStill /\ RowStill
      BY <1>12, <1>5 DEF ResetRoom, TabsStill
    <2> QED
      BY <2>1, <2>2, StillTabs, StillRow DEF Texts
  <1>13. CASE Greet(t)
    <2> DEFINE b == q.by
               held == Holding(t)
               seeder == IF ~held.seeded /\ held.seeder = None THEN b ELSE held.seeder
    <2>1. b \in Browser /\ q.pc = "held" /\ q.kind = "join" /\ UNCHANGED <<row, live>> /\ Finish(t)
      BY <1>13, <1>0 DEF Greet, Answered, RequestOK
    <2>2. r \in RoomId /\ r # None /\ held \in Room /\ room[r] \in Room
      BY <2>1, HeldType, RoomAssumption
    <2>3. held.seeded = room[r].seeded /\ held.doc = room[r].doc /\ held.base = room[r].base
      BY <2>1, HeldKeeps
    <2>4. CASE live = None
      BY <1>13, <1>4, <1>5, <1>6, <1>7, <2>1, <2>4, AllStill DEF Greet
    <2>5. CASE live # None
      <3>1. /\ room' = [room EXCEPT ![r] = [held EXCEPT !.timer = TRUE, !.seeder = seeder]]
            /\ browser' = [browser EXCEPT ![b] =
                   [doc |-> IF held.seeded THEN Merge(@.doc, held.doc) ELSE @.doc,
                    at |-> r, ready |-> held.seeded, asked |-> seeder = b]]
        BY <1>13, <2>5 DEF Greet
      <3>2. LET new == [held EXCEPT !.timer = TRUE, !.seeder = seeder]
            IN  new.base = held.base /\ new.doc = held.doc /\ new.seeded = held.seeded
        <4> HIDE DEF held, seeder
        <4> QED
          BY <2>2 DEF Room
      <3>3. RoomsStill
        <4> HIDE DEF held, seeder
        <4> QED
          BY <2>2, <2>3, <3>1, <3>2, StillPut
      <3>4. browser[b].doc = Empty
        BY <2>1 DEF Seats, SeatJoin, Joining, Texts, TextTabs, TabText
      <3>5. /\ browser'[b].at = r /\ browser'[b].ready = room[r].seeded
            /\ browser'[b].doc = IF room[r].seeded THEN Merge(Empty, room[r].doc) ELSE Empty
            /\ \A c \in Browser : c # b => browser'[c] = browser[c]
        <4> HIDE DEF held, seeder
        <4> QED
          BY <2>1, <2>3, <3>1, <3>4 DEF TabsOK
      <3>6. RoomText(room[r])
        BY <1>2, <2>1
      <3>7. Over(browser'[b].doc, room[r].base)
        BY <3>5, <3>6, OverEmpty, OverMerge DEF RoomText
      <3>8. TabText(browser'[b])
        <4>1. CASE room[r].seeded
          BY <2>2, <3>5, <3>6, <4>1 DEF TabText, RoomText, Merge
        <4>2. CASE ~room[r].seeded
          BY <2>2, <3>5, <4>2 DEF TabText, Empty
        <4> QED
          BY <4>1, <4>2
      <3>9. TextTabs'
        BY <2>1, <3>5, <3>8 DEF TextTabs, Texts
      <3>10. TextRooms' /\ BasesStay
        BY <3>3, StillRooms DEF Texts
      <3>11. TextLive'
        <4> SUFFICES ASSUME NEW c \in Browser, browser'[c].at = live
                     PROVE  Over(browser'[c].doc, room'[live].base)
          BY <2>1 DEF TextLive
        <4>1. Over(browser'[c].doc, room[live].base)
          BY <2>5, <3>5, <3>7 DEF Texts, TextLive
        <4> QED
          BY <1>1, <2>5, <3>10, <4>1, OverSame DEF BasesStay
      <3> QED
        BY <2>1, <1>5, <1>6, <3>9, <3>10, <3>11, StillReqs, StillRow DEF Texts
    <2> QED
      BY <2>4, <2>5
  <1>14. CASE Apply(t)
    <2> DEFINE b == q.by
    <2>1. /\ b \in Browser /\ q.pc = "held" /\ UNCHANGED <<row, live>> /\ Finish(t)
          /\ q.doc.built # {} /\ Over(q.doc, room[r].base)
      BY <1>14, <1>0, <1>8 DEF Apply, Answered, RequestOK, Carries
    <2>2. CASE room' = [room EXCEPT ![r] = Holding(t)] /\ UNCHANGED browser
      BY <1>4, <1>5, <1>6, <1>7, <2>1, <2>2, AllStill
    <2>3. CASE /\ room' = [room EXCEPT ![r] = Applied(Holding(t), q.kind, q.doc)]
               /\ browser' = [browser EXCEPT ![b].ready =
                   @ \/ (browser[b].at = r /\ Covers(browser[b].doc, q.doc))]
      <3> DEFINE held == Holding(t)
                 v == Applied(held, q.kind, q.doc)
      <3>1. r \in RoomId /\ held \in Room /\ RoomText(room[r])
        BY <1>2, <2>1, HeldType
      <3>2. held.base = room[r].base /\ held.doc = room[r].doc
        BY <2>1, HeldKeeps
      <3> HIDE DEF held
      <3>3. v.base = room[r].base /\ v.doc = Merge(room[r].doc, q.doc)
        BY <1>0, <3>1, <3>2, AppliedKeeps
      <3>4. room' = [room EXCEPT ![r] = v]
        BY <2>3 DEF held
      <3> HIDE DEF v
      <3>5. RoomText(v)
        <4>1. Over(v.doc, v.base)
          BY <2>1, <3>1, <3>3, OverMerge DEF RoomText
        <4>2. v.doc.built # {}
          BY <2>1, <3>3 DEF Merge
        <4> QED
          BY <4>1, <4>2 DEF RoomText
      <3>6. TextRooms' /\ BasesStay
        BY <3>1, <3>3, <3>4, <3>5 DEF TextRooms, Texts, RoomsOK, BasesStay
      <3>7. /\ browser'[b].doc = browser[b].doc /\ browser'[b].at = browser[b].at
            /\ browser'[b].ready => browser[b].ready \/ Covers(browser[b].doc, q.doc)
            /\ \A c \in Browser : c # b => browser'[c] = browser[c]
        BY <2>1, <2>3 DEF TabsOK, Tab
      <3>8. TextTabs'
        BY <2>1, <3>7 DEF Texts, TextTabs, TabText, Covers
      <3>9. TextLive'
        <4> SUFFICES ASSUME live # None, NEW c \in Browser, browser'[c].at = live
                     PROVE  Over(browser'[c].doc, room'[live].base)
          BY <2>1 DEF TextLive
        <4>1. Over(browser'[c].doc, room[live].base)
          BY <3>7 DEF Texts, TextLive
        <4> QED
          BY <1>1, <3>6, <4>1, OverSame DEF BasesStay
      <3> QED
        BY <2>1, <1>5, <1>6, <3>6, <3>8, <3>9, StillReqs, StillRow DEF Texts
    <2> QED
      BY <1>14, <2>2, <2>3 DEF Apply
  <1>15. CASE Held(t)
    BY <1>15, <1>4, <1>5, <1>6, <1>7, AllStill DEF Held, Answered
  <1>16. CASE SaveHeld(t)
    <2>1. ReqsStill
      <3>1. CASE req' = [req EXCEPT ![t].pc = "read", ![t].text = page, ![t].reply = None,
                               ![t].covered = Covers(req[t].doc, room[r].doc)]
        BY <3>1 DEF ReqsStill, RequestsOK, Handler, Carries
      <3> QED
        BY <1>6, <1>16, <3>1 DEF SaveHeld
    <2> QED
      BY <1>16, <1>4, <1>5, <1>7, <2>1, AllStill DEF SaveHeld, Answered
  <1>17. CASE SaveUnchanged(t)
    <2>1. RoomsStill
      BY <1>17, <1>2, CleanedKeeps, StillPut DEF SaveUnchanged
    <2> QED
      BY <1>17, <1>4, <1>5, <1>6, <2>1, AllStill DEF SaveUnchanged
  <1>18. CASE SaveWrites(t)
    <2>1. ReqsStill
      <3>1. CASE req' = [req EXCEPT ![t].pc = "written"]
        BY <3>1 DEF ReqsStill, RequestsOK, Handler, Carries
      <3> QED
        BY <1>6, <1>18, <3>1 DEF SaveWrites
    <2> QED
      BY <1>18, <1>3, <1>4, <1>5, <2>1, AllStill DEF SaveWrites
  <1>19. CASE Saved(t)
    <2> DEFINE saved == Saving(room[r], Serialise(q.doc), q.covered)
    <2>0. r \in RoomId /\ room[r] \in Room /\ RoomText(room[r]) /\ Carries(q)
      BY <1>19, <1>0, <1>2 DEF Saved, RequestOK, Carries
    <2>1. /\ saved.base = Serialise(q.doc) /\ saved.doc = room[r].doc
          /\ saved.seeded = room[r].seeded
      BY <2>0, SavedKeeps
    <2>2. /\ room' = [room EXCEPT ![r] = saved]
          /\ row' = IF q.covered THEN None ELSE Persisted(saved)
      BY <1>19 DEF Saved, Saving
    <2>3. Serialise(q.doc) \cap Outside = room[r].base \cap Outside
      BY <1>0, <1>8, <2>0, RoomParts, OverSerialise
    <2>4. saved \in Room
      <3>1. LET new == [room[r] EXCEPT !.base = Serialise(q.doc), !.claim = IF @ = None THEN "no id" ELSE @]
            IN  new \in Room
        BY <1>0, <2>0, DocTypes DEF Room
      <3> QED
        BY <3>1, CleanedType DEF Saving
    <2> HIDE DEF saved
    <2>5. RoomText(saved)
      BY <2>0, <2>1, <2>3, OverSame DEF RoomText
    <2>6. TextRooms'
      BY <2>0, <2>2, <2>5 DEF TextRooms, Texts, RoomsOK
    <2>7. BasesStay
      BY <2>0, <2>1, <2>2, <2>3 DEF RoomsOK, BasesStay
    <2>8. RowStill
      BY <2>2, <2>4, <2>5 DEF RowStill
    <2>9. TabsStill /\ ReqsStill /\ UNCHANGED live
      BY <1>19, <1>4, <1>6 DEF Saved
    <2> QED
      BY <2>6, <2>7, <2>8, <2>9, StillTabs, StillReqs, StillRow, StillLive DEF Texts
  <1>20. CASE Dropped(t)
    <2>1. r \in RoomId /\ room[r] \in Room /\ Finish(t) /\ UNCHANGED <<row, browser>>
      BY <1>20, <1>2 DEF Dropped
    <2>2. CASE Destroy(t, r)
      <3>1. TextRooms' /\ TextReqs' /\ TextLive'
        BY <2>1, <2>2, TextsDestroy
      <3> QED
        BY <1>4, <1>5, <2>1, <3>1, StillTabs, StillRow DEF Texts
    <2>3. CASE room' = [room EXCEPT ![r].status = "paused"] /\ UNCHANGED live
      <3>1. LET new == [room[r] EXCEPT !.status = "paused"]
            IN  new.base = room[r].base /\ new.doc = room[r].doc /\ new.seeded = room[r].seeded
        BY <2>1 DEF Room
      <3>2. RoomsStill
        BY <2>1, <2>3, <3>1, StillPut
      <3> QED
        BY <1>4, <1>5, <1>6, <2>1, <2>3, <3>2, AllStill
    <2> QED
      BY <1>20, <2>2, <2>3 DEF Dropped
  <1>21. CASE Close(t)
    <2>1. TextRooms' /\ TextReqs' /\ TextLive'
      BY <1>21, <1>2, TextsDestroy DEF Close
    <2>2. TabsStill
      BY <1>21 DEF Close, TabsStill, Gone
    <2> QED
      BY <1>21, <1>5, <2>1, <2>2, StillTabs, StillRow DEF Close, Texts
  <1> QED
    BY <1>9, <1>10, <1>11, <1>12, <1>13, <1>14, <1>15, <1>16, <1>17, <1>18, <1>19, <1>20, <1>21 DEF Continues

LEMMA TextsOthers ==
    ASSUME ~Reconnect, Typed, Texts,
           \/ \E t \in Slot : Clock(t)
           \/ \E b \in Browser : Receive(b) \/ LeaveNothing(b) \/ \E e \in Edit : Type(b, e)
           \/ \E r \in RoomId : Persist(r)
           \/ \E w \in Outside : OutsideWrites(w)
           \/ OutsideClaims \/ ClaimEnds \/ Crash
    PROVE  Texts'
  <1> USE DEF Typed
  <1>1. UNCHANGED room => RoomsStill
    BY DEF RoomsStill
  <1>2. UNCHANGED browser => TabsStill
    BY DEF TabsStill
  <1>3. UNCHANGED req => ReqsStill
    BY DEF ReqsStill
  <1>4. UNCHANGED row => RowStill
    BY DEF RowStill
  <1>5. ASSUME NEW t \in Slot, Evict(t) PROVE Texts'
    <2>1. live \in RoomId /\ room[live] \in Room /\ RoomText(room[live])
      BY <1>5 DEF Evict, LiveOK, RoomsOK, Texts, TextRooms
    <2>2. RowStill
      BY <1>5, <2>1 DEF Evict, RowStill
    <2>3. ReqsStill
      BY <1>5, StillStart DEF Evict
    <2> QED
      BY <1>5, <1>1, <1>2, <2>2, <2>3, AllStill DEF Evict
  <1>6. ASSUME NEW t \in Slot, NEW r \in RoomId, Renew(t, r) PROVE Texts'
    <2>1. room[r] \in Room
      BY DEF RoomsOK
    <2>2. LET new == [room[r] EXCEPT !.claim = None]
          IN  new.base = room[r].base /\ new.doc = room[r].doc /\ new.seeded = room[r].seeded
      BY <2>1 DEF Room
    <2>3. RoomsStill
      BY <1>6, <1>1, <2>2, StillPut DEF Renew
    <2>4. ReqsStill
      <3>1. CASE Start(t, "renew", None, r, "hold", Empty)
        BY <3>1, StillStart
      <3>2. CASE \E x : req' = [req EXCEPT ![t] = [Idle EXCEPT !.pc = "drop", !.kind = "renew",
                                                                !.room = r, !.reply = x]]
        BY <3>2, StillDrop
      <3> QED
        BY <1>6, <3>1, <3>2 DEF Renew
    <2> QED
      BY <1>6, <1>2, <1>4, <2>3, <2>4, AllStill DEF Renew
  <1>7. ASSUME NEW b \in Browser, LeaveNothing(b) PROVE Texts'
    <2>1. TabsStill
      BY <1>7 DEF LeaveNothing, TabsStill, TabsOK, Gone
    <2> QED
      BY <1>7, <1>1, <1>3, <1>4, <2>1, AllStill DEF LeaveNothing
  <1>8. ASSUME NEW b \in Browser, Receive(b) \/ \E e \in Edit : Type(b, e) PROVE Texts'
    <2>1. UNCHANGED <<row, live, room, req>>
      BY <1>8 DEF Receive, Type
    <2>2. /\ browser'[b].at = browser[b].at /\ browser'[b].ready = browser[b].ready
          /\ \A c \in Browser : c # b => browser'[c] = browser[c]
      <3>1. CASE Receive(b)
        BY <3>1 DEF Receive, TabsOK, Tab
      <3>2. CASE \E e \in Edit : Type(b, e)
        BY <3>2 DEF Type, TabsOK, Tab
      <3> QED
        BY <1>8, <3>1, <3>2
    <2>3. /\ browser[b].at # None /\ browser'[b].doc.built # {}
          /\ \/ browser'[b].doc.built = browser[b].doc.built
             \/ /\ browser'[b].doc = Merge(browser[b].doc, room[browser[b].at].doc)
                /\ browser[b].at \in RoomId
      <3>1. CASE Receive(b)
        <4>1. browser[b].at \in RoomId /\ room[browser[b].at].seeded
          BY <3>1, TabParts DEF Receive, TabsOK
        <4>2. browser'[b].doc = Merge(browser[b].doc, room[browser[b].at].doc)
          BY <3>1 DEF Receive, TabsOK, Tab
        <4>3. room[browser[b].at].doc.built # {}
          BY <4>1 DEF Texts, TextRooms, RoomText
        <4>4. browser'[b].doc.built # {}
          BY <4>2, <4>3 DEF Merge
        <4> QED
          BY <3>1, <4>1, <4>2, <4>4 DEF Receive
      <3>2. ASSUME NEW e \in Edit, Type(b, e)
            PROVE  /\ browser[b].at # None /\ browser[b].doc.built # {}
                   /\ browser'[b].doc.built = browser[b].doc.built
        <4>1. browser[b].ready
          BY <3>2 DEF Type
        <4>2. browser'[b].doc.built = browser[b].doc.built
          <5>1. browser'[b].doc = [browser[b].doc EXCEPT !.typed = @ \cup {e}]
            BY <3>2 DEF Type, TabsOK, Tab
          <5>2. browser[b].doc \in Doc
            BY TabParts DEF TabsOK
          <5> QED
            BY <5>1, <5>2 DEF Doc
        <4> QED
          BY <4>1, <4>2 DEF TabsOK, TabOK, Texts, TextTabs, TabText
      <3> QED
        BY <1>8, <3>1, <3>2
    <2>4. TextTabs'
      BY <2>2, <2>3 DEF Texts, TextTabs, TabText
    <2>5. TextLive'
      <3> SUFFICES ASSUME live # None, NEW c \in Browser, browser'[c].at = live
                   PROVE  Over(browser'[c].doc, room[live].base)
        BY <2>1 DEF TextLive
      <3>1. CASE c # b
        BY <2>2, <3>1 DEF Texts, TextLive
      <3>2. CASE c = b
        <4>1. Over(browser[b].doc, room[live].base) /\ browser[b].at = live
          BY <2>2, <3>2 DEF Texts, TextLive
        <4>2. live \in RoomId => Over(room[live].doc, room[live].base)
          BY DEF Texts, TextRooms, RoomText
        <4>3. CASE browser'[b].doc.built = browser[b].doc.built
          BY <3>2, <4>1, <4>3 DEF Over
        <4>4. CASE browser'[b].doc = Merge(browser[b].doc, room[browser[b].at].doc) /\ browser[b].at \in RoomId
          BY <3>2, <4>1, <4>2, <4>4, OverMerge
        <4> QED
          BY <2>3, <4>3, <4>4
      <3> QED
        BY <3>1, <3>2
    <2> QED
      BY <2>1, <2>4, <2>5 DEF Texts, TextRooms, TextRow, TextReqs
  <1>9. ASSUME NEW r \in RoomId, Persist(r) PROVE Texts'
    <2>1. room[r] \in Room /\ RoomText(room[r])
      BY DEF RoomsOK, Texts, TextRooms
    <2>2. LET new == [room[r] EXCEPT !.persisting = FALSE]
          IN  new.base = room[r].base /\ new.doc = room[r].doc /\ new.seeded = room[r].seeded
      BY <2>1 DEF Room
    <2>3. RoomsStill
      BY <1>9, <2>2, StillPut DEF Persist
    <2>4. RowStill
      BY <1>9, <2>1 DEF Persist, RowStill
    <2> QED
      BY <1>9, <1>2, <1>3, <2>3, <2>4, AllStill DEF Persist
  <1>10. ASSUME (\E w \in Outside : OutsideWrites(w)) \/ OutsideClaims \/ ClaimEnds PROVE Texts'
    <2>1. UNCHANGED <<row, live, room, req, browser>>
      BY <1>10 DEF OutsideWrites, OutsideClaims, ClaimEnds
    <2> QED
      BY <1>1, <1>2, <1>3, <1>4, <2>1, AllStill
  <1>11. CASE Crash
    <2>1. TabsStill
      BY <1>11 DEF Crash, TabsStill, Gone
    <2>2. TextRooms'
      <3>1. \A r \in RoomId : ~room'[r].seeded /\ room'[r].doc = Empty
        BY <1>11 DEF Crash, Unmade
      <3> QED
        BY <3>1, OverEmpty DEF TextRooms, RoomText
    <2>3. TextReqs' /\ TextLive'
      BY <1>11, IdleCarries DEF Crash, TextReqs, TextLive
    <2> QED
      BY <1>11, <1>4, <2>1, <2>2, <2>3, StillTabs, StillRow DEF Crash, Texts
  <1> QED
    BY <1>5, <1>6, <1>7, <1>8, <1>9, <1>10, <1>11 DEF Clock

LEMMA TextsStep == ~Reconnect /\ Typed /\ Made /\ Seats /\ Texts /\ [Next]_vars => Texts'
  <1>1. Texts /\ UNCHANGED vars => Texts'
    BY DEF vars, Texts, TextTabs, TextRooms, TextRow, TextReqs, TextLive
  <1> QED
    BY <1>1, TextsRequests, TextsContinues, TextsOthers DEF Next

(* A save writes over the text its room is based on, so it keeps what      *)
(* others wrote there.                                                     *)
LEMMA SurviveStep == Typed /\ Texts /\ [Next]_vars => page \cap Outside \subseteq page'
  <1> SUFFICES ASSUME Typed, Texts, [Next]_vars PROVE page \cap Outside \subseteq page'
    OBVIOUS
  <1>1. ASSUME NEW t \in Slot, SaveWrites(t) PROVE page \cap Outside \subseteq page'
    <2> DEFINE r == req[t].room
    <2>1. CASE UNCHANGED page
      BY <2>1
    <2>2. CASE MayWrite(r) /\ page' = Serialise(req[t].doc)
      <3>1. req[t] \in Handler /\ RequestOK(req[t]) /\ req[t].doc \in Doc
        BY RequestParts DEF Typed, RequestsOK
      <3>2. Carries(req[t]) /\ r \in RoomId
        BY <1>1, <3>1 DEF SaveWrites, RequestOK, Carries
      <3>3. room[r].base = page /\ room[r].base \in Text
        BY <2>2, <3>2, RoomParts DEF MayWrite, Typed, RoomsOK
      <3>4. Serialise(req[t].doc) \cap Outside = page \cap Outside
        BY <3>1, <3>2, <3>3, OverSerialise DEF Texts, TextReqs
      <3> QED
        BY <2>2, <3>4
    <2> QED
      BY <1>1, <2>1, <2>2 DEF SaveWrites
  <1>2. ASSUME NEW w \in Outside, OutsideWrites(w) PROVE page \cap Outside \subseteq page'
    BY <1>2 DEF OutsideWrites
  <1>3. ASSUME NEW t \in Slot, Requests(t) PROVE UNCHANGED page
    BY <1>3 DEF Requests, Join, Seed, Send, Resume, Save, LeaveOthers, LeaveLast
  <1>4. ASSUME NEW t \in Slot, Continues(t) PROVE SaveWrites(t) \/ UNCHANGED page
    BY <1>4 DEF Continues, OpenRoom, AcquireClaim, HoldMismatch, ResetRoom, Greet, Apply, Held, SaveHeld,
               SaveUnchanged, Saved, Dropped, Close
  <1>5. ASSUME NEW t \in Slot, Clock(t) PROVE UNCHANGED page
    BY <1>5 DEF Clock, Evict, Renew
  <1>6. ASSUME \/ \E b \in Browser : Receive(b) \/ LeaveNothing(b) \/ \E e \in Edit : Type(b, e)
               \/ \E r \in RoomId : Persist(r)
               \/ OutsideClaims \/ ClaimEnds \/ Crash
        PROVE  UNCHANGED page
    BY <1>6 DEF Receive, LeaveNothing, Type, Persist, OutsideClaims, ClaimEnds, Crash
  <1> QED
    BY <1>1, <1>2, <1>3, <1>4, <1>5, <1>6 DEF Next, vars

(* If a browser that lost its stream starts again with nothing, no save of *)
(* the session undoes what others have written under a claim of theirs.    *)
THEOREM OutsideWritesAlwaysSurvive == ~Reconnect => (Spec => OutsideWritesSurvive)
  <1> SUFFICES ASSUME ~Reconnect PROVE Spec => OutsideWritesSurvive
    OBVIOUS
  <1> DEFINE Inv == Typed /\ Made /\ Seats /\ Texts
  <1>1. Init => Inv
    BY TypedInit, MadeInit, SeatsInit, TextsInit
  <1>2. Inv /\ [Next]_vars => Inv'
    BY TypedStep, MadeStep, SeatsStep, TextsStep
  <1>3. Inv /\ [Next]_vars => [page \cap Outside \subseteq page']_vars
    BY SurviveStep
  <1> QED
    BY <1>1, <1>2, <1>3, PTL DEF Spec, OutsideWritesSurvive

=============================================================================
