-------------------------- MODULE Services_proofs --------------------------
(***************************************************************************)
(* What three services beside the claims promise: discussions, reviews,    *)
(* and the limits on requests and on audit rows.  They share no state, and *)
(* each has an invariant of its own.                                       *)
(***************************************************************************)
EXTENDS Discussion, Review, Limits, WellFoundedInduction, TLAPS

----------------------------------------------------------------------------
(***************************************************************************)
(* Discussion, for any threads, decision pages and requests.               *)
(*                                                                         *)
(* One invariant carries it all: a sweep that has closed a thread holds    *)
(* the row of an open thread, alone; a thread that is open has never been  *)
(* closed by anybody; a request that is to mark a thread has written its   *)
(* decision page.                                                          *)
(***************************************************************************)
Closing(w, d) == d \in talk[w].closing

OneCloses == \A d \in Thread, v, w \in Talker : Closing(v, d) /\ Closing(w, d) => v = w
ClosesOpen == \A d \in Thread, w \in Talker : Closing(w, d) => thread[d].status = "open"
OpenIsFresh ==
    \A d \in Thread : thread[d].status \in {"none", "open"} =>
        closings[d] = 0 /\ thread[d].by = "none" /\ thread[d].page = "none"
MarksWritten == \A w \in Talker : talk[w].op = "mark" => talk[w].page \in written

ThreadInv ==
    /\ ThreadTypeOK /\ OneCloses /\ ClosesOpen /\ OpenIsFresh /\ MarksWritten
    /\ ClosedOnce /\ PersonWroteIt /\ DecisionWritten

----------------------------------------------------------------------------
(* The rows keep their form when they are written, and so do the requests. *)
LEMMA RowNone == NoThread \in ThreadRow
  BY DiscussionAssumption DEF ThreadRow, NoThread

LEMMA RowOpened ==
  ASSUME NEW r \in ThreadRow
  PROVE  [r EXCEPT !.status = "open", !.messages = 1] \in ThreadRow
<1>1. 1 \in 0 .. MaxMessages
  BY DiscussionAssumption
<1>. QED
  BY <1>1 DEF ThreadRow

LEMMA RowPosted ==
  ASSUME NEW r \in ThreadRow, r.messages < MaxMessages
  PROVE  [r EXCEPT !.messages = @ + 1, !.due = FALSE] \in ThreadRow
<1>1. r.messages + 1 \in 0 .. MaxMessages
  BY DiscussionAssumption DEF ThreadRow
<1>. QED
  BY <1>1 DEF ThreadRow

LEMMA RowElapsed ==
  ASSUME NEW r \in ThreadRow
  PROVE  [r EXCEPT !.due = TRUE] \in ThreadRow
  BY DEF ThreadRow

LEMMA RowDeleted ==
  ASSUME NEW r \in ThreadRow
  PROVE  [r EXCEPT !.status = "deleted"] \in ThreadRow
  BY DEF ThreadRow

LEMMA RowClosed ==
  ASSUME NEW r \in ThreadRow
  PROVE  /\ ClosedRow(r) \in ThreadRow
         /\ ClosedRow(r).status = "resolved" /\ ClosedRow(r).by = "system"
         /\ ClosedRow(r).page = r.page
  BY DEF ThreadRow, ClosedRow

LEMMA RowMarked ==
  ASSUME NEW r \in ThreadRow, NEW g \in DecisionPage \cup {"none"}
  PROVE  [r EXCEPT !.status = "resolved", !.by = "person", !.page = g, !.due = FALSE] \in ThreadRow
  BY DEF ThreadRow

LEMMA TalkSilent == Silent \in TalkRequest
  BY DEF TalkRequest, Silent

----------------------------------------------------------------------------
LEMMA ThreadInitInv == ThreadInit => ThreadInv
<1> SUFFICES ASSUME ThreadInit PROVE ThreadInv
  OBVIOUS
<1>1. ThreadTypeOK
  BY RowNone, TalkSilent DEF ThreadInit, ThreadTypeOK
<1>2. \A w \in Talker : talk[w].closing = {} /\ talk[w].op = "none"
  BY DEF ThreadInit, Silent
<1>3. \A d \in Thread : thread[d] = NoThread /\ closings[d] = 0
  BY DEF ThreadInit
<1>4. \A d \in Thread : thread[d].by = "none" /\ thread[d].page = "none" /\ thread[d].status = "none"
  BY <1>3 DEF NoThread
<1>. QED
  BY <1>1, <1>2, <1>3, <1>4
  DEF ThreadInv, OneCloses, ClosesOpen, Closing, OpenIsFresh, MarksWritten,
      ClosedOnce, PersonWroteIt, DecisionWritten

(* A step that writes one row, keeps the requests and the pages, and       *)
(* neither makes a thread open again nor touches what is being closed,     *)
(* nor changes who closed it and on which page.                            *)
LEMMA OneRow ==
  ASSUME ThreadInv, NEW d \in Thread, NEW r \in ThreadRow,
         thread' = [thread EXCEPT ![d] = r],
         UNCHANGED <<decisions, written, closings, talk>>,
         r.by = thread[d].by, r.page = thread[d].page,
         r.status \in {"none", "open"} => thread[d].status \in {"none", "open"},
         \A w \in Talker : Closing(w, d) => r.status = "open"
  PROVE  ThreadInv'
<1>1. thread \in [Thread -> ThreadRow]
  BY DEF ThreadInv, ThreadTypeOK
<1>2. thread'[d] = r /\ \A e \in Thread \ {d} : thread'[e] = thread[e]
  BY <1>1
<1>3. ThreadTypeOK'
  BY <1>1 DEF ThreadInv, ThreadTypeOK
<1>4. (OneCloses /\ ClosesOpen)'
  BY <1>2 DEF ThreadInv, OneCloses, ClosesOpen, Closing
<1>5. OpenIsFresh'
  BY <1>2 DEF ThreadInv, OpenIsFresh
<1>6. (MarksWritten /\ ClosedOnce)'
  BY DEF ThreadInv, MarksWritten, ClosedOnce
<1>7. (PersonWroteIt /\ DecisionWritten)'
  BY <1>2 DEF ThreadInv, PersonWroteIt, DecisionWritten
<1>. QED
  BY <1>3, <1>4, <1>5, <1>6, <1>7 DEF ThreadInv

(* A step of one request that leaves the threads alone, closes nothing     *)
(* somebody else is closing, and closes open threads only; decision pages  *)
(* are only ever added to those there have been.                           *)
LEMMA OneTalks ==
  ASSUME ThreadInv, NEW w \in Talker, NEW r \in TalkRequest,
         talk' = [talk EXCEPT ![w] = r],
         UNCHANGED <<thread, closings>>,
         written \subseteq written', decisions' \subseteq written', written' \subseteq DecisionPage,
         \A d \in r.closing : /\ thread[d].status = "open"
                              /\ \A v \in Talker \ {w} : d \notin talk[v].closing,
         r.op = "mark" => r.page \in written'
  PROVE  ThreadInv'
<1>1. talk \in [Talker -> TalkRequest]
  BY DEF ThreadInv, ThreadTypeOK
<1>2. talk'[w] = r /\ \A v \in Talker \ {w} : talk'[v] = talk[v]
  BY <1>1
<1>3. ThreadTypeOK'
  BY <1>1 DEF ThreadInv, ThreadTypeOK
<1>4. OneCloses'
  BY <1>2 DEF ThreadInv, OneCloses, Closing
<1>5. ClosesOpen'
  BY <1>2 DEF ThreadInv, ClosesOpen, Closing
<1>6. MarksWritten'
  BY <1>2 DEF ThreadInv, MarksWritten
<1>7. (OpenIsFresh /\ ClosedOnce /\ PersonWroteIt /\ DecisionWritten)'
  BY DEF ThreadInv, OpenIsFresh, ClosedOnce, PersonWroteIt, DecisionWritten
<1>. QED
  BY <1>3, <1>4, <1>5, <1>6, <1>7 DEF ThreadInv

----------------------------------------------------------------------------
LEMMA OpenInv == ASSUME ThreadInv, NEW d \in Thread, OpenDiscussion(d) PROVE ThreadInv'
<1> DEFINE r == [thread[d] EXCEPT !.status = "open", !.messages = 1]
<1>1. thread[d] \in ThreadRow
  BY DEF ThreadInv, ThreadTypeOK
<1>2. r \in ThreadRow /\ r.by = thread[d].by /\ r.page = thread[d].page /\ r.status = "open"
  BY <1>1, RowOpened DEF ThreadRow
<1>3. thread' = [thread EXCEPT ![d] = r]
  BY DEF OpenDiscussion
<1>. QED
  BY <1>2, <1>3, OneRow DEF OpenDiscussion

LEMMA PostInv == ASSUME ThreadInv, NEW d \in Thread, PostMessage(d) PROVE ThreadInv'
<1> DEFINE r == [thread[d] EXCEPT !.messages = @ + 1, !.due = FALSE]
<1>1. thread[d] \in ThreadRow
  BY DEF ThreadInv, ThreadTypeOK
<1>2. r \in ThreadRow
  BY <1>1, RowPosted DEF PostMessage, MayPost
<1>3. r.by = thread[d].by /\ r.page = thread[d].page /\ r.status = thread[d].status
  BY <1>1 DEF ThreadRow
<1>4. thread' = [thread EXCEPT ![d] = r]
  BY DEF PostMessage
<1>5. thread[d].status = "open"
  BY DEF PostMessage, MayPost
<1>. QED
  BY <1>2, <1>3, <1>4, <1>5, OneRow DEF PostMessage

LEMMA ElapseInv == ASSUME ThreadInv, NEW d \in Thread, Elapse(d) PROVE ThreadInv'
<1> DEFINE r == [thread[d] EXCEPT !.due = TRUE]
<1>1. thread[d] \in ThreadRow
  BY DEF ThreadInv, ThreadTypeOK
<1>2. r \in ThreadRow /\ r.by = thread[d].by /\ r.page = thread[d].page /\ r.status = thread[d].status
  BY <1>1, RowElapsed DEF ThreadRow
<1>3. thread' = [thread EXCEPT ![d] = r]
  BY DEF Elapse
<1>4. \A w \in Talker : Closing(w, d) => thread[d].status = "open"
  BY DEF ThreadInv, ClosesOpen
<1>. QED
  BY <1>2, <1>3, <1>4, OneRow DEF Elapse

LEMMA DeleteInv == ASSUME ThreadInv, NEW d \in Thread, DeleteDiscussion(d) PROVE ThreadInv'
<1> DEFINE r == [thread[d] EXCEPT !.status = "deleted"]
<1>1. thread[d] \in ThreadRow
  BY DEF ThreadInv, ThreadTypeOK
<1>2. r \in ThreadRow /\ r.by = thread[d].by /\ r.page = thread[d].page /\ r.status = "deleted"
  BY <1>1, RowDeleted DEF ThreadRow
<1>3. thread' = [thread EXCEPT ![d] = r]
  BY DEF DeleteDiscussion
<1>4. \A w \in Talker : ~Closing(w, d)
  BY DEF DeleteDiscussion, ThreadFree, Closing
<1>. QED
  BY <1>2, <1>3, <1>4, OneRow DEF DeleteDiscussion

----------------------------------------------------------------------------
LEMMA SweepDueInv == ASSUME ThreadInv, NEW w \in Talker, SweepDue(w) PROVE ThreadInv'
<1> DEFINE r == [Silent EXCEPT !.op = "sweep", !.todo = DueIn("open")]
<1>1. r \in TalkRequest /\ r.closing = {} /\ r.op = "sweep"
  BY DEF TalkRequest, Silent, DueIn
<1>2. decisions' \subseteq written' /\ written' \subseteq DecisionPage /\ written \subseteq written'
  BY DEF ThreadInv, ThreadTypeOK, SweepDue
<1>. QED
  BY <1>1, <1>2, OneTalks DEF SweepDue

LEMMA SweepCloseInv ==
  ASSUME ThreadInv, NEW w \in Talker, NEW d \in Thread, SweepClose(w, d) PROVE ThreadInv'
<1> DEFINE C == IF StillOpen(d) THEN talk[w].closing \cup {d} ELSE talk[w].closing
           r == [talk[w] EXCEPT !.todo = @ \ {d}, !.closing = C]
<1>1. talk[w] \in TalkRequest
  BY DEF ThreadInv, ThreadTypeOK
<1>2. r \in TalkRequest /\ r.closing = C /\ r.op = talk[w].op /\ r.page = talk[w].page
  BY <1>1 DEF TalkRequest
<1>3. talk' = [talk EXCEPT ![w] = r]
  BY Zenon DEF SweepClose
<1>4. \A e \in C : thread[e].status = "open" /\ \A v \in Talker \ {w} : e \notin talk[v].closing
  <2>1. \A e \in talk[w].closing :
          thread[e].status = "open" /\ \A v \in Talker \ {w} : e \notin talk[v].closing
    BY <1>1 DEF ThreadInv, ClosesOpen, OneCloses, Closing, TalkRequest
  <2>2. \A v \in Talker : d \notin talk[v].closing
    BY DEF SweepClose, ThreadFree
  <2>. QED
    BY <2>1, <2>2 DEF StillOpen
<1>5. decisions' \subseteq written' /\ written' \subseteq DecisionPage /\ written \subseteq written'
  BY DEF ThreadInv, ThreadTypeOK, SweepClose
<1>6. r.op # "mark"
  BY <1>2 DEF SweepClose
<1>7. \A e \in r.closing :
        thread[e].status = "open" /\ \A v \in Talker \ {w} : e \notin talk[v].closing
  BY <1>2, <1>4
<1>8. UNCHANGED <<thread, closings>>
  BY DEF SweepClose
<1> HIDE DEF r, C
<1>. QED
  BY <1>2, <1>3, <1>5, <1>6, <1>7, <1>8, OneTalks

LEMMA SweepResolvedInv == ASSUME ThreadInv, NEW w \in Talker, SweepResolved(w) PROVE ThreadInv'
<1> DEFINE r == [talk[w] EXCEPT !.op = "delete", !.todo = DueIn("resolved")]
<1>1. talk[w] \in TalkRequest
  BY DEF ThreadInv, ThreadTypeOK
<1>2. r \in TalkRequest /\ r.closing = talk[w].closing /\ r.op = "delete"
  BY <1>1 DEF TalkRequest, DueIn
<1>3. talk' = [talk EXCEPT ![w] = r]
  BY DEF SweepResolved
<1>4. \A e \in r.closing :
        thread[e].status = "open" /\ \A v \in Talker \ {w} : e \notin talk[v].closing
  BY <1>1, <1>2 DEF ThreadInv, ClosesOpen, OneCloses, Closing, TalkRequest
<1>5. decisions' \subseteq written' /\ written' \subseteq DecisionPage /\ written \subseteq written'
  BY DEF ThreadInv, ThreadTypeOK, SweepResolved
<1>6. UNCHANGED <<thread, closings>>
  BY DEF SweepResolved
<1> HIDE DEF r
<1>. QED
  BY <1>2, <1>3, <1>4, <1>5, <1>6, OneTalks

(* The commit closes what the sweep holds and deletes what is resolved.    *)
LEMMA SweepCommitInv == ASSUME ThreadInv, NEW w \in Talker, SweepCommit(w) PROVE ThreadInv'
<1> DEFINE C == talk[w].closing
           D == {d \in talk[w].todo : thread[d].status = "resolved"}
<1>1. /\ thread \in [Thread -> ThreadRow] /\ talk \in [Talker -> TalkRequest]
      /\ closings \in [Thread -> Nat]
  BY DEF ThreadInv, ThreadTypeOK
<1>2. talk' = [talk EXCEPT ![w] = Silent]
  BY DEF SweepCommit, Silenced
<1>3. /\ talk'[w].closing = {} /\ talk'[w].op = "none"
      /\ \A v \in Talker \ {w} : talk'[v] = talk[v]
  BY <1>1, <1>2 DEF Silent
<1>4. ASSUME NEW d \in Thread
      PROVE  /\ d \in C => thread'[d] = ClosedRow(thread[d]) /\ closings'[d] = closings[d] + 1
             /\ d \notin C => closings'[d] = closings[d]
             /\ d \in D \ C => thread'[d] = [thread[d] EXCEPT !.status = "deleted"]
             /\ d \notin D \cup C => thread'[d] = thread[d]
  BY DEF SweepCommit
<1>5. \A d \in C : /\ thread[d].status = "open" /\ closings[d] = 0 /\ thread[d].page = "none"
                   /\ \A v \in Talker \ {w} : d \notin talk[v].closing
  BY <1>1 DEF ThreadInv, ClosesOpen, OneCloses, Closing, OpenIsFresh, TalkRequest
<1>0. \A d \in D : thread[d].status = "resolved"
  OBVIOUS
<1> HIDE DEF C, D
<1>6. ASSUME NEW d \in Thread
      PROVE  /\ thread'[d] \in ThreadRow
             /\ d \in C => thread'[d].status = "resolved" /\ thread'[d].by = "system" /\ thread'[d].page = "none"
             /\ d \in D \ C => /\ thread'[d].status = "deleted" /\ thread'[d].by = thread[d].by
                               /\ thread'[d].page = thread[d].page
  <2>1. thread[d] \in ThreadRow
    BY <1>1
  <2>2. CASE d \in C
    <3>1. thread'[d] = ClosedRow(thread[d]) /\ thread[d].page = "none"
      BY <2>2, <1>4, <1>5
    <3>. QED
      BY <2>1, <2>2, <3>1, RowClosed
  <2>3. CASE d \in D \ C
    <3>1. thread'[d] = [thread[d] EXCEPT !.status = "deleted"]
      BY <2>3, <1>4, ZenonT(60)
    <3>2. [thread[d] EXCEPT !.status = "deleted"] \in ThreadRow
      BY <2>1, RowDeleted
    <3>. QED
      BY <2>1, <2>3, <3>1, <3>2 DEF ThreadRow
  <2>4. CASE d \notin D \cup C
    BY <2>1, <2>4, <1>4
  <2>. QED
    BY <2>2, <2>3, <2>4
<1>7. ThreadTypeOK'
  <2>1. thread' \in [Thread -> ThreadRow]
    <3>1. thread' = [d \in Thread |-> thread'[d]]
      BY DEF SweepCommit
    <3>. QED
      BY <3>1, <1>6
  <2>2. closings' \in [Thread -> Nat]
    BY <1>1 DEF SweepCommit
  <2>3. talk' \in [Talker -> TalkRequest]
    BY <1>1, <1>2, TalkSilent
  <2>. QED
    BY <2>1, <2>2, <2>3 DEF ThreadInv, ThreadTypeOK, SweepCommit
<1>8. OneCloses'
  BY <1>3 DEF ThreadInv, OneCloses, Closing
<1>9. ClosesOpen'
  <2> SUFFICES ASSUME NEW d \in Thread, NEW v \in Talker, d \in talk'[v].closing
               PROVE  thread'[d].status = "open"
    BY DEF ClosesOpen, Closing
  <2>1. v # w /\ d \in talk[v].closing
    BY <1>3
  <2>2. thread[d].status = "open" /\ d \notin C
    BY <2>1, <1>5 DEF ThreadInv, ClosesOpen, Closing
  <2>. QED
    BY <2>2, <1>0, <1>4
<1>10. OpenIsFresh'
  <2> SUFFICES ASSUME NEW d \in Thread, thread'[d].status \in {"none", "open"}
               PROVE  closings'[d] = 0 /\ thread'[d].by = "none" /\ thread'[d].page = "none"
    BY DEF OpenIsFresh
  <2>1. d \notin D \cup C
    BY <1>6
  <2>. QED
    BY <2>1, <1>4 DEF ThreadInv, OpenIsFresh
<1>11. MarksWritten'
  BY <1>3 DEF ThreadInv, MarksWritten, SweepCommit
<1>12. ClosedOnce'
  <2> SUFFICES ASSUME NEW d \in Thread PROVE closings'[d] =< 1
    BY DEF ClosedOnce
  <2>1. CASE d \in C
    <3>1. closings[d] = 0
      BY <2>1, <1>5
    <3>2. closings'[d] = closings[d] + 1
      BY <2>1, <1>4
    <3>. QED
      BY <3>1, <3>2
  <2>2. CASE d \notin C
    BY <2>2, <1>4 DEF ThreadInv, ClosedOnce
  <2>. QED
    BY <2>1, <2>2
<1>13. (PersonWroteIt /\ DecisionWritten)'
  <2> SUFFICES ASSUME NEW d \in Thread
               PROVE  /\ thread'[d].by = "system" => thread'[d].page = "none"
                      /\ thread'[d].by = "person" => thread'[d].page \in written'
    BY DEF PersonWroteIt, DecisionWritten
  <2>1. written' = written
    BY DEF SweepCommit
  <2>2. CASE d \in C
    BY <2>2, <1>6
  <2>3. CASE d \in D \ C
    BY <2>1, <2>3, <1>6 DEF ThreadInv, PersonWroteIt, DecisionWritten
  <2>4. CASE d \notin D \cup C
    BY <2>1, <2>4, <1>4 DEF ThreadInv, PersonWroteIt, DecisionWritten
  <2>. QED
    BY <2>2, <2>3, <2>4
<1>. QED
  BY <1>7, <1>8, <1>9, <1>10, <1>11, <1>12, <1>13 DEF ThreadInv

----------------------------------------------------------------------------
LEMMA ResolveBeginInv ==
  ASSUME ThreadInv, NEW w \in Talker, NEW d \in Thread, ResolveBegin(w, d) PROVE ThreadInv'
<1> DEFINE r == [Silent EXCEPT !.op = "resolve", !.of = d, !.page = thread[d].page]
<1>1. thread[d].page \in DecisionPage \cup {"none"}
  BY DEF ThreadInv, ThreadTypeOK, ThreadRow
<1>2. r \in TalkRequest /\ r.closing = {} /\ r.op = "resolve"
  BY <1>1 DEF TalkRequest, Silent
<1>3. decisions' \subseteq written' /\ written' \subseteq DecisionPage /\ written \subseteq written'
  BY DEF ThreadInv, ThreadTypeOK, ResolveBegin
<1>. QED
  BY <1>2, <1>3, OneTalks DEF ResolveBegin

LEMMA ResolveWriteInv ==
  ASSUME ThreadInv, NEW w \in Talker, NEW g \in DecisionPage, ResolveWrite(w, g) PROVE ThreadInv'
<1> DEFINE r == [talk[w] EXCEPT !.op = "mark", !.page = g]
<1>1. talk[w] \in TalkRequest
  BY DEF ThreadInv, ThreadTypeOK
<1>2. r \in TalkRequest /\ r.closing = talk[w].closing /\ r.page = g
  BY <1>1 DEF TalkRequest
<1>3. talk' = [talk EXCEPT ![w] = r]
  BY DEF ResolveWrite
<1>4. \A e \in r.closing :
        thread[e].status = "open" /\ \A v \in Talker \ {w} : e \notin talk[v].closing
  BY <1>1, <1>2 DEF ThreadInv, ClosesOpen, OneCloses, Closing, TalkRequest
<1>5. /\ decisions' \subseteq written' /\ written' \subseteq DecisionPage
      /\ written \subseteq written' /\ g \in written'
  BY DEF ThreadInv, ThreadTypeOK, ResolveWrite
<1>6. UNCHANGED <<thread, closings>>
  BY DEF ResolveWrite
<1> HIDE DEF r
<1>. QED
  BY <1>2, <1>3, <1>4, <1>5, <1>6, OneTalks

(* The thread is marked with the page that was written for it.             *)
LEMMA ResolveMarkInv == ASSUME ThreadInv, NEW w \in Talker, ResolveMark(w) PROVE ThreadInv'
<1> DEFINE d == talk[w].of
           r == [thread[d] EXCEPT !.status = "resolved", !.by = "person",
                                  !.page = talk[w].page, !.due = FALSE]
<1>1. thread \in [Thread -> ThreadRow] /\ talk \in [Talker -> TalkRequest]
  BY DEF ThreadInv, ThreadTypeOK
<1>2. talk[w].page \in written /\ \A v \in Talker : d \notin talk[v].closing
  BY DEF ThreadInv, MarksWritten, ResolveMark, ReadyToMark, ThreadFree
<1>3. thread' = [thread EXCEPT ![d] = r] /\ talk' = [talk EXCEPT ![w] = Silent]
  BY DEF ResolveMark, Silenced
<1>4. d \in Thread \/ thread' = thread
  BY <1>1, <1>3
<1>5. /\ talk'[w].closing = {} /\ talk'[w].op = "none"
      /\ \A v \in Talker \ {w} : talk'[v] = talk[v]
  BY <1>1, <1>3 DEF Silent
<1>6. d \in Thread => /\ r \in ThreadRow /\ r.status = "resolved" /\ r.by = "person"
                      /\ r.page = talk[w].page
  <2>1. talk[w].page \in DecisionPage \cup {"none"}
    BY <1>1 DEF TalkRequest
  <2>2. SUFFICES ASSUME d \in Thread
                 PROVE  r \in ThreadRow /\ r.status = "resolved" /\ r.by = "person" /\ r.page = talk[w].page
    OBVIOUS
  <2>3. thread[d] \in ThreadRow
    BY <1>1, <2>2
  <2>4. r \in ThreadRow
    BY <2>1, <2>3, RowMarked
  <2>. QED
    BY <2>3, <2>4 DEF ThreadRow
<1>7. d \in Thread => thread'[d] = r
  BY <1>1, <1>3
<1>8. \A e \in Thread \ {d} : thread'[e] = thread[e]
  BY <1>1, <1>3
<1>9. ThreadTypeOK'
  <2> HIDE DEF r
  <2>1. thread' \in [Thread -> ThreadRow]
    BY <1>1, <1>3, <1>4, <1>6
  <2>2. talk' \in [Talker -> TalkRequest]
    BY <1>1, <1>3, TalkSilent
  <2>. QED
    BY <2>1, <2>2 DEF ThreadInv, ThreadTypeOK, ResolveMark
<1>10. (OneCloses /\ ClosesOpen)'
  BY <1>2, <1>5, <1>8 DEF ThreadInv, OneCloses, ClosesOpen, Closing
<1>11. (MarksWritten /\ ClosedOnce)'
  BY <1>5 DEF ThreadInv, MarksWritten, ClosedOnce, ResolveMark
<1>12. OpenIsFresh'
  BY <1>6, <1>7, <1>8 DEF ThreadInv, OpenIsFresh, ResolveMark
<1>13. (PersonWroteIt /\ DecisionWritten)'
  <2> SUFFICES ASSUME NEW e \in Thread
               PROVE  /\ thread'[e].by = "system" => thread'[e].page = "none"
                      /\ thread'[e].by = "person" => thread'[e].page \in written'
    BY DEF PersonWroteIt, DecisionWritten
  <2>1. written' = written
    BY DEF ResolveMark
  <2>2. CASE e = d
    BY <1>2, <1>6, <1>7, <2>1, <2>2
  <2>3. CASE e # d
    BY <1>8, <2>1, <2>3 DEF ThreadInv, PersonWroteIt, DecisionWritten
  <2>. QED
    BY <2>2, <2>3
<1>. QED
  BY <1>9, <1>10, <1>11, <1>12, <1>13 DEF ThreadInv

LEMMA AbortInv == ASSUME ThreadInv, NEW w \in Talker, AbortTalk(w) PROVE ThreadInv'
<1>1. decisions' \subseteq written' /\ written' \subseteq DecisionPage /\ written \subseteq written'
  BY DEF ThreadInv, ThreadTypeOK, AbortTalk
<1>2. Silent.closing = {} /\ Silent.op = "none"
  BY DEF Silent
<1>. QED
  BY <1>1, <1>2, TalkSilent, OneTalks DEF AbortTalk, Silenced

LEMMA DeleteDecisionInv == ASSUME ThreadInv, NEW g \in DecisionPage, DeleteDecision(g) PROVE ThreadInv'
  BY DEF DeleteDecision, ThreadInv, ThreadTypeOK, OneCloses, ClosesOpen, Closing, OpenIsFresh,
         MarksWritten, ClosedOnce, PersonWroteIt, DecisionWritten

----------------------------------------------------------------------------
LEMMA ThreadStepInv == ThreadInv /\ [ThreadNext]_threadVars => ThreadInv'
<1> SUFFICES ASSUME ThreadInv, [ThreadNext]_threadVars PROVE ThreadInv'
  OBVIOUS
<1>1. CASE UNCHANGED threadVars
  BY <1>1 DEF threadVars, ThreadInv, ThreadTypeOK, OneCloses, ClosesOpen, Closing, OpenIsFresh,
              MarksWritten, ClosedOnce, PersonWroteIt, DecisionWritten
<1>2. CASE ThreadNext
  BY <1>2, OpenInv, PostInv, ElapseInv, DeleteInv, SweepDueInv, SweepCloseInv, SweepResolvedInv,
     SweepCommitInv, ResolveBeginInv, ResolveWriteInv, ResolveMarkInv, AbortInv, DeleteDecisionInv
  DEF ThreadNext
<1>. QED
  BY <1>1, <1>2

(* Threads, requests and decision pages keep to their invariant.           *)
THEOREM ThreadsHold == ThreadSpec => []ThreadInv
  BY ThreadInitInv, ThreadStepInv, PTL DEF ThreadSpec

(* Threads and requests keep their types; decision pages were written.     *)
THEOREM ThreadTypes == ThreadSpec => []ThreadTypeOK
<1>1. ThreadInv => ThreadTypeOK
  BY DEF ThreadInv
<1>. QED
  BY <1>1, ThreadsHold, PTL

(* expireDiscussions: a thread is closed for inactivity once, for any      *)
(* number of sweeps at once.                                               *)
THEOREM SweepsCloseOnce == ThreadSpec => []ClosedOnce
<1>1. ThreadInv => ClosedOnce
  BY DEF ThreadInv
<1>. QED
  BY <1>1, ThreadsHold, PTL

(* wasClosedForInactivity never takes a person's decision for the sweep's. *)
THEOREM SweepsSpareDecisions == ThreadSpec => []PersonWroteIt
<1>1. ThreadInv => PersonWroteIt
  BY DEF ThreadInv
<1>. QED
  BY <1>1, ThreadsHold, PTL

(* resolveDiscussion: a thread a person resolved has a page that was       *)
(* written first.                                                          *)
THEOREM DecisionsAreWritten == ThreadSpec => []DecisionWritten
<1>1. ThreadInv => DecisionWritten
  BY DEF ThreadInv
<1>. QED
  BY <1>1, ThreadsHold, PTL

----------------------------------------------------------------------------
(***************************************************************************)
(* Review, for any reviewers, bodies and number of revisions.              *)
(*                                                                         *)
(* A revert is safe because the claim it writes under started from the     *)
(* body its reviewer looked at and is still the page's.  An acceptance     *)
(* covers nothing unseen because it ends at the version looked at, and     *)
(* nothing newer is there.  The rest is bookkeeping of what has been       *)
(* looked at: a desk's version and every decision are no newer.            *)
(***************************************************************************)
(* A reviewer at work has looked at a version, and reverts to an older one.*)
DeskOK(d, seen) ==
    /\ d \in AtDesk
    /\ d.pc # "away" => d.head \in 1 .. seen
    /\ d.pc \in {"read", "claimed", "record"} => d.baseline \in 1 .. d.head - 1

LeaseOK == lease \in [by : Reviewer \cup {"agent"}, base : Body] \cup {Nobody}

(* What a revision undoes is older, and right below it is the same body.   *)
SparesAt(v) ==
    /\ revisions[v].undoes \in 0 .. v - 1
    /\ revisions[v].undoes # 0 => revisions[v - 1].body = revisions[revisions[v].undoes].body

HistoryOK == revisions \in Seq(Revision) /\ Current =< MaxRevisions /\ \A v \in 1 .. Current : SparesAt(v)

DecidedOK ==
    decided \in SUBSET Decided /\ \A d \in decided : d.from < d.to /\ d.to =< viewed

ReviewInv ==
    /\ HistoryOK /\ LeaseOK /\ DecidedOK /\ viewed \in 0 .. Current
    /\ desk \in [Reviewer -> AtDesk] /\ \A r \in Reviewer : DeskOK(desk[r], viewed)

----------------------------------------------------------------------------
(* The newest of some versions is one of them.                             *)
LEMMA NewestOf ==
  ASSUME NEW n \in Nat, NEW S \in SUBSET (0 .. n), S # {}
  PROVE  MaxOf(S) \in S /\ \A m \in S : m =< MaxOf(S)
<1> DEFINE T == {n - m : m \in S}
<1>0. S # {} /\ \A m \in S : m \in Nat /\ n - m \in Nat
  OBVIOUS
<1>1. T \subseteq Nat /\ T # {}
  BY <1>0
<1>2. PICK x \in T : \A y \in T : ~(<<y, x>> \in OpToRel(<, Nat))
  BY <1>1, NatLessThanWellFounded, WFMin
<1>3. \A y \in T : ~(y < x)
  BY <1>1, <1>2 DEF OpToRel
<1>4. PICK k \in S : x = n - k
  OBVIOUS
<1>5. \A m \in S : m =< k
  BY <1>1, <1>3, <1>4
<1>. QED
  BY <1>4, <1>5 DEF MaxOf

(* The baseline is no older than any version by a person, nor than what    *)
(* has been accepted.                                                      *)
LEMMA Baseline ==
  ASSUME HistoryOK, DecidedOK, viewed \in 0 .. Current
  PROVE  /\ Current \in Nat /\ BaselineVersion \in 0 .. Current
         /\ \/ BaselineVersion = 0
            \/ BaselineVersion \in 1 .. Current /\ revisions[BaselineVersion].author = "user"
            \/ BaselineVersion =< viewed
<1> DEFINE U == {v \in 1 .. Current : revisions[v].author = "user"}
           A == {d.to : d \in {x \in decided : x.decision = "accepted"}}
<1>1. Current \in Nat
  BY DEF HistoryOK, Current
<1>2. \A a \in A : a \in 0 .. Current /\ a =< viewed
  BY <1>1, ReviewAssumption DEF DecidedOK, Decided, Versions
<1>3. {0} \cup U \cup A \in SUBSET (0 .. Current) /\ {0} \cup U \cup A # {}
  BY <1>1, <1>2
<1>4. BaselineVersion = MaxOf({0} \cup U \cup A)
  BY DEF BaselineVersion
<1> HIDE DEF A
<1>5. BaselineVersion \in {0} \cup U \cup A
  BY <1>1, <1>3, <1>4, NewestOf
<1>. QED
  BY <1>1, <1>2, <1>5

(* A revision added to the history.                                        *)
LEMMA Adding ==
  ASSUME HistoryOK, Current < MaxRevisions,
         NEW a \in {"user", "agent"}, NEW b \in Body, NEW u \in 0 .. Current,
         u # 0 => Newest.body = revisions[u].body,
         revisions' = Appended(a, b, u)
  PROVE  HistoryOK' /\ Current' = Current + 1
<1> DEFINE x == [author |-> a, body |-> b, undoes |-> u]
<1>1. Current \in Nat /\ revisions \in Seq(Revision) /\ MaxRevisions \in Nat
  BY ReviewAssumption DEF HistoryOK, Current
<1>2. x \in Revision
  BY <1>1 DEF Revision
<1>3. revisions' = Append(revisions, x)
  BY DEF Appended
<1>4. revisions' \in Seq(Revision) /\ Current' = Current + 1
  BY <1>1, <1>2, <1>3 DEF Current
<1>5. \A v \in 1 .. Current : revisions'[v] = revisions[v]
  BY <1>1, <1>2, <1>3 DEF Current
<1>6. revisions'[Current + 1] = x
  BY <1>1, <1>2, <1>3 DEF Current
<1>7. ASSUME NEW v \in 1 .. Current + 1 PROVE SparesAt(v)'
  <2>1. CASE v = Current + 1
    <3>1. revisions'[v].undoes = u
      BY <1>6, <2>1
    <3>2. u # 0 => revisions'[v - 1] = Newest /\ revisions'[u] = revisions[u]
      BY <1>1, <1>5, <2>1 DEF Newest
    <3>. QED
      BY <1>1, <2>1, <3>1, <3>2 DEF SparesAt
  <2>2. CASE v # Current + 1
    <3>1. v \in 1 .. Current /\ SparesAt(v)
      BY <1>1, <2>2 DEF HistoryOK
    <3>2. revisions'[v] = revisions[v] /\ revisions[v].undoes \in 0 .. v - 1
      BY <1>5, <3>1 DEF SparesAt
    <3>3. revisions[v].undoes # 0 =>
            /\ revisions'[v - 1] = revisions[v - 1]
            /\ revisions'[revisions[v].undoes] = revisions[revisions[v].undoes]
      BY <1>1, <1>5, <3>1, <3>2
    <3>. QED
      BY <3>1, <3>2, <3>3 DEF SparesAt
  <2>. QED
    BY <2>1, <2>2
<1>. QED
  BY <1>1, <1>4, <1>7 DEF HistoryOK, Current

----------------------------------------------------------------------------
LEMMA AwayOK == (\A n : DeskOK(Away, n)) /\ Away \in AtDesk
  BY ReviewAssumption DEF DeskOK, AtDesk, Away

LEMMA ReviewInitInv == ReviewInit => ReviewInv
<1> SUFFICES ASSUME ReviewInit PROVE ReviewInv
  OBVIOUS
<1>1. HistoryOK /\ Current = 0
  BY ReviewAssumption DEF ReviewInit, HistoryOK, Current
<1>2. LeaseOK /\ DecidedOK
  BY DEF ReviewInit, LeaseOK, DecidedOK
<1>3. desk \in [Reviewer -> AtDesk] /\ \A r \in Reviewer : DeskOK(desk[r], viewed)
  BY AwayOK DEF ReviewInit
<1>. QED
  BY <1>1, <1>2, <1>3 DEF ReviewInv, ReviewInit

(* One desk changes; what has been looked at only grows.                   *)
LEMMA OneDesk ==
  ASSUME ReviewInv, NEW r \in Reviewer, NEW d, DeskOK(d, viewed'),
         desk' = [desk EXCEPT ![r] = d], viewed' \in Nat, viewed =< viewed'
  PROVE  (desk \in [Reviewer -> AtDesk] /\ \A q \in Reviewer : DeskOK(desk[q], viewed))'
<1>1. desk \in [Reviewer -> AtDesk] /\ viewed \in Nat
  BY DEF ReviewInv
<1>2. d \in AtDesk
  BY DEF DeskOK
<1>3. desk'[r] = d /\ \A q \in Reviewer \ {r} : desk'[q] = desk[q]
  BY <1>1
<1>4. ASSUME NEW q \in Reviewer \ {r} PROVE DeskOK(desk[q], viewed)'
  <2>1. DeskOK(desk[q], viewed) /\ desk[q].head \in Nat
    BY <1>1, ReviewAssumption DEF ReviewInv, AtDesk
  <2>. QED
    BY <1>1, <1>3, <2>1 DEF DeskOK
<1>. QED
  BY <1>1, <1>2, <1>3, <1>4

(* The desks stay.                                                         *)
LEMMA DesksStay ==
  ASSUME ReviewInv, UNCHANGED <<desk, viewed>>
  PROVE  (desk \in [Reviewer -> AtDesk] /\ \A q \in Reviewer : DeskOK(desk[q], viewed))'
  BY DEF ReviewInv, DeskOK

LEMMA HistoryStays ==
  ASSUME HistoryOK, UNCHANGED revisions
  PROVE  HistoryOK' /\ Current' = Current
  BY DEF HistoryOK, Current, SparesAt

LEMMA NewestBody ==
  ASSUME ReviewInv, NEW v \in 1 .. Current
  PROVE  revisions[v].body \in Body /\ (Current > 0 => Newest.body \in Body)
<1>1. Current \in Nat /\ revisions \in Seq(Revision)
  BY DEF ReviewInv, HistoryOK, Current
<1>2. \A n \in 1 .. Current : revisions[n] \in Revision
  BY <1>1 DEF Current
<1>. QED
  BY <1>1, <1>2 DEF Revision, Newest

----------------------------------------------------------------------------
LEMMA WriteInv ==
  ASSUME ReviewInv, NEW a \in {"user", "agent"}, NEW b \in Body, WritePage(a, b)
  PROVE  ReviewInv'
<1>1. Current = 0 /\ Current < MaxRevisions
  BY ReviewAssumption DEF WritePage, Current
<1>2. HistoryOK' /\ Current' = 1
  BY <1>1, Adding DEF ReviewInv, WritePage
<1>3. (LeaseOK /\ DecidedOK)' /\ viewed' \in 0 .. Current'
  BY <1>1, <1>2 DEF ReviewInv, WritePage, LeaseOK, DecidedOK
<1>. QED
  BY <1>2, <1>3, DesksStay DEF ReviewInv, WritePage

LEMMA TakeInv ==
  ASSUME ReviewInv, NEW w \in Reviewer \cup {"agent"}, TakeLease(w)
  PROVE  ReviewInv'
<1>1. Current \in Nat /\ Current > 0
  BY DEF TakeLease, ReviewInv, HistoryOK, Current
<1>2. Newest.body \in Body
  BY <1>1, NewestBody
<1>3. LeaseOK'
  BY <1>2 DEF TakeLease, LeaseOK
<1>4. HistoryOK' /\ Current' = Current /\ DecidedOK'
  BY HistoryStays DEF TakeLease, ReviewInv, DecidedOK
<1>. QED
  BY <1>3, <1>4, DesksStay DEF ReviewInv, TakeLease

LEMMA SaveInv ==
  ASSUME ReviewInv, NEW w \in Reviewer \cup {"agent"}, NEW b \in Body, SaveUnder(w, b)
  PROVE  ReviewInv'
<1>1. Current \in Nat /\ viewed \in 0 .. Current
  BY DEF ReviewInv, HistoryOK, Current
<1>2. HistoryOK' /\ Current' = Current + 1
  BY <1>1, Adding DEF ReviewInv, SaveUnder
<1>3. LeaseOK'
  <2>1. lease \in [by : Reviewer \cup {"agent"}, base : Body] \/ lease = Nobody
    BY DEF ReviewInv, LeaseOK
  <2>2. lease # Nobody \/ w = "none"
    BY DEF SaveUnder, Nobody
  <2>3. CASE lease = Nobody
    BY <2>3 DEF SaveUnder, LeaseOK, Nobody
  <2>4. CASE lease \in [by : Reviewer \cup {"agent"}, base : Body]
    BY <2>4 DEF SaveUnder, LeaseOK
  <2>. QED
    BY <2>1, <2>3, <2>4
<1>4. DecidedOK' /\ viewed' \in 0 .. Current'
  BY <1>1, <1>2 DEF ReviewInv, SaveUnder, DecidedOK
<1>. QED
  BY <1>2, <1>3, <1>4, DesksStay DEF ReviewInv, SaveUnder

LEMMA EndInv == ASSUME ReviewInv, EndLease PROVE ReviewInv'
<1>1. HistoryOK' /\ Current' = Current /\ (DecidedOK /\ LeaseOK)'
  BY HistoryStays DEF EndLease, ReviewInv, DecidedOK, LeaseOK
<1>. QED
  BY <1>1, DesksStay DEF ReviewInv, EndLease

----------------------------------------------------------------------------
LEMMA LookInv == ASSUME ReviewInv, NEW r \in Reviewer, Look(r) PROVE ReviewInv'
<1> DEFINE d == [Away EXCEPT !.pc = "looking", !.head = Current]
<1>1. Current \in Nat \ {0} /\ Current =< MaxRevisions /\ viewed \in 0 .. Current /\ viewed' = Current
  BY DEF ReviewInv, HistoryOK, Look, Current
<1>2. d \in AtDesk /\ d.pc = "looking" /\ d.head = Current
  <2>1. Current \in 0 .. MaxRevisions /\ 0 \in 0 .. MaxRevisions
    BY <1>1, ReviewAssumption
  <2>. QED
    BY <2>1, AwayOK DEF AtDesk
<1>6. desk' = [desk EXCEPT ![r] = d]
  BY DEF Look
<1> HIDE DEF d
<1>7. DeskOK(d, viewed')
  BY <1>1, <1>2 DEF DeskOK
<1>3. HistoryOK' /\ Current' = Current /\ LeaseOK'
  BY HistoryStays DEF Look, ReviewInv, LeaseOK
<1>4. DecidedOK'
  BY <1>1, ReviewAssumption DEF Look, ReviewInv, DecidedOK, Decided, Versions
<1>5. (desk \in [Reviewer -> AtDesk] /\ \A q \in Reviewer : DeskOK(desk[q], viewed))'
  <2>1. viewed' \in Nat /\ viewed =< viewed'
    BY <1>1
  <2>. QED
    BY <1>6, <1>7, <2>1, OneDesk
<1>. QED
  BY <1>1, <1>3, <1>4, <1>5 DEF ReviewInv

(* A step of one reviewer that leaves the history and what has been looked *)
(* at alone.                                                               *)
LEMMA OneReviewer ==
  ASSUME ReviewInv, NEW r \in Reviewer, NEW d, DeskOK(d, viewed'),
         desk' = [desk EXCEPT ![r] = d],
         UNCHANGED <<revisions, viewed>>, LeaseOK', DecidedOK'
  PROVE  ReviewInv'
<1>1. HistoryOK' /\ Current' = Current
  BY HistoryStays DEF ReviewInv
<1>2. viewed' \in Nat /\ viewed =< viewed' /\ viewed' \in 0 .. Current'
  BY <1>1 DEF ReviewInv
<1>3. (desk \in [Reviewer -> AtDesk] /\ \A q \in Reviewer : DeskOK(desk[q], viewed))'
  BY <1>2, OneDesk
<1>. QED
  BY <1>1, <1>2, <1>3 DEF ReviewInv

(* What a reviewer's desk says of itself.                                  *)
LEMMA DeskFacts ==
  ASSUME ReviewInv, NEW r \in Reviewer
  PROVE  /\ desk[r] \in AtDesk /\ DeskOK(desk[r], viewed) /\ desk[r].head \in Nat /\ desk[r].baseline \in Nat
         /\ viewed \in Nat /\ viewed =< Current /\ Current \in Nat /\ Current =< MaxRevisions
         /\ MaxRevisions \in Nat
  BY ReviewAssumption DEF ReviewInv, HistoryOK, Current, AtDesk

LEMMA AcceptInv == ASSUME ReviewInv, NEW r \in Reviewer, AcceptPageChanges(r) PROVE ReviewInv'
<1> DEFINE d == [decision |-> "accepted", from |-> BaselineVersion, to |-> Current]
<1>1. BaselineVersion \in 0 .. Current /\ BaselineVersion < Current /\ Current \in Nat
  BY Baseline DEF ReviewInv, AcceptPageChanges, IsPending
<1>2. Current =< viewed /\ Current =< MaxRevisions /\ MaxRevisions \in Nat
  BY DeskFacts DEF AcceptPageChanges, StillHead, DeskOK
<1>3. d \in Decided /\ d.from < d.to /\ d.to =< viewed
  BY <1>1, <1>2 DEF Decided, Versions
<1>4. DecidedOK'
  BY <1>3 DEF ReviewInv, DecidedOK, AcceptPageChanges
<1>5. LeaseOK' /\ DeskOK(Away, viewed')
  BY AwayOK DEF ReviewInv, LeaseOK, AcceptPageChanges, DeskOK, Away
<1>. QED
  BY <1>4, <1>5, OneReviewer DEF AcceptPageChanges

LEMMA RevertReadInv == ASSUME ReviewInv, NEW r \in Reviewer, RevertRead(r) PROVE ReviewInv'
<1> DEFINE d == [desk[r] EXCEPT !.pc = "read", !.baseline = BaselineVersion]
<1>1. BaselineVersion \in 0 .. Current /\ BaselineVersion < Current /\ BaselineVersion > 0
  BY Baseline DEF ReviewInv, RevertRead, IsPending
<1>2. desk' = [desk EXCEPT ![r] = d]
  BY Zenon DEF RevertRead
<1>3. /\ d \in AtDesk /\ d.head = desk[r].head /\ d.baseline = BaselineVersion
      /\ desk[r].head = Current /\ desk[r].head \in 1 .. viewed
  <2>1. desk[r].head = Current /\ desk[r].head \in 1 .. viewed
    BY DeskFacts DEF RevertRead, StillHead, DeskOK
  <2>2. BaselineVersion \in 0 .. MaxRevisions
    BY <1>1, DeskFacts
  <2>3. d \in AtDesk /\ d.head = desk[r].head /\ d.baseline = BaselineVersion
    BY <2>2, DeskFacts DEF AtDesk
  <2>. QED
    BY <2>1, <2>3
<1>4. DeskOK(d, viewed')
  BY <1>1, <1>3, DeskFacts DEF DeskOK, RevertRead
<1>5. LeaseOK' /\ DecidedOK'
  BY DEF ReviewInv, LeaseOK, DecidedOK, RevertRead
<1> HIDE DEF d
<1>. QED
  BY <1>2, <1>4, <1>5, OneReviewer DEF RevertRead

LEMMA RevertClaimInv == ASSUME ReviewInv, NEW r \in Reviewer, RevertClaim(r) PROVE ReviewInv'
<1> DEFINE d == [desk[r] EXCEPT !.pc = "claimed", !.base = lease'.base, !.created = (lease = Nobody)]
<1>1. LeaseOK' /\ lease'.base \in Body \cup {"none"}
  <2>1. desk[r].head \in 1 .. Current
    BY DeskFacts DEF RevertClaim, DeskOK
  <2>2. Newest.body \in Body
    BY <2>1, NewestBody, DeskFacts
  <2>3. lease \in [by : Reviewer \cup {"agent"}, base : Body] \/ lease = Nobody
    BY DEF ReviewInv, LeaseOK
  <2>. QED
    BY <2>2, <2>3 DEF RevertClaim, LeaseOK, Nobody
<1>2. desk' = [desk EXCEPT ![r] = d]
  BY Zenon DEF RevertClaim
<1>3. d \in AtDesk /\ d.head = desk[r].head /\ d.baseline = desk[r].baseline /\ d.pc = "claimed"
  BY <1>1, DeskFacts DEF AtDesk
<1>4. desk[r].head \in 1 .. viewed /\ desk[r].baseline \in 1 .. desk[r].head - 1
  BY DeskFacts DEF RevertClaim, DeskOK
<1> HIDE DEF d
<1>5. DeskOK(d, viewed')
  BY <1>3, <1>4 DEF DeskOK, RevertClaim
<1>6. DecidedOK'
  BY DEF ReviewInv, DecidedOK, RevertClaim
<1>. QED
  BY <1>1, <1>2, <1>5, <1>6, OneReviewer DEF RevertClaim

(* The write: the claim's body is the one looked at, and the page's.       *)
LEMMA RevertWriteInv == ASSUME ReviewInv, NEW r \in Reviewer, RevertWrite(r) PROVE ReviewInv'
<1> DEFINE d == [desk[r] EXCEPT !.pc = "record"]
           target == revisions[desk[r].baseline].body
<1>1. /\ desk[r].head \in 1 .. viewed /\ desk[r].baseline \in 1 .. desk[r].head - 1
      /\ desk[r].head \in 1 .. Current /\ desk[r].baseline \in 1 .. Current
      /\ Current \in Nat /\ viewed \in 0 .. Current
  BY DeskFacts DEF RevertWrite, DeskOK
<1>2. target \in Body
  BY <1>1, NewestBody
<1>3. Newest.body = revisions[desk[r].head].body
  BY DEF RevertWrite, SawBase
<1>4. revisions' = Appended("user", target, desk[r].head) /\ Current < MaxRevisions
  BY DEF RevertWrite
<1> HIDE DEF target
<1>5. HistoryOK' /\ Current' = Current + 1
  BY <1>1, <1>2, <1>3, <1>4, Adding DEF ReviewInv
<1>6. desk' = [desk EXCEPT ![r] = d]
  BY DEF RevertWrite
<1>7. d \in AtDesk /\ d.head = desk[r].head /\ d.baseline = desk[r].baseline
  BY DeskFacts DEF AtDesk
<1> HIDE DEF d
<1>8. DeskOK(d, viewed')
  BY <1>1, <1>7 DEF DeskOK, RevertWrite
<1>9. (desk \in [Reviewer -> AtDesk] /\ \A q \in Reviewer : DeskOK(desk[q], viewed))'
  <2>1. viewed' \in Nat /\ viewed =< viewed'
    BY <1>1 DEF RevertWrite
  <2>. QED
    BY <1>6, <1>8, <2>1, OneDesk
<1>10. LeaseOK'
  <2>1. lease' = IF desk[r].created THEN Nobody ELSE [lease EXCEPT !.base = target]
    BY DEF RevertWrite, target
  <2>2. lease \in [by : Reviewer \cup {"agent"}, base : Body] \/ lease = Nobody
    BY DEF ReviewInv, LeaseOK
  <2>3. lease # Nobody
    BY ReviewAssumption, <1>1 DEF RevertWrite, Nobody
  <2>. QED
    BY <1>2, <2>1, <2>2, <2>3 DEF LeaseOK
<1>11. DecidedOK' /\ viewed' \in 0 .. Current'
  BY <1>1, <1>5 DEF ReviewInv, DecidedOK, RevertWrite
<1>. QED
  BY <1>5, <1>9, <1>10, <1>11 DEF ReviewInv

LEMMA RevertRecordInv == ASSUME ReviewInv, NEW r \in Reviewer, RevertRecord(r) PROVE ReviewInv'
<1> DEFINE d == [decision |-> "reverted", from |-> desk[r].baseline, to |-> desk[r].head]
<1>1. desk[r].head \in 1 .. viewed /\ desk[r].baseline \in 1 .. desk[r].head - 1
  BY DeskFacts DEF RevertRecord, DeskOK
<1>2. d \in Decided /\ d.from < d.to /\ d.to =< viewed
  BY <1>1, DeskFacts DEF Decided, Versions
<1>3. DecidedOK'
  BY <1>2 DEF ReviewInv, DecidedOK, RevertRecord
<1>4. LeaseOK' /\ DeskOK(Away, viewed')
  BY AwayOK DEF ReviewInv, LeaseOK, RevertRecord, DeskOK, Away
<1>. QED
  BY <1>3, <1>4, OneReviewer DEF RevertRecord

LEMMA RefusedInv == ASSUME ReviewInv, NEW r \in Reviewer, RevertRefused(r) PROVE ReviewInv'
<1>1. DecidedOK' /\ DeskOK(Away, viewed')
  BY AwayOK DEF ReviewInv, DecidedOK, RevertRefused, DeskOK, Away
<1>2. LeaseOK'
  BY DEF ReviewInv, LeaseOK, RevertRefused
<1>. QED
  BY <1>1, <1>2, OneReviewer DEF RevertRefused

LEMMA DiesInv == ASSUME ReviewInv, NEW r \in Reviewer, ReviewerDies(r) PROVE ReviewInv'
<1>1. LeaseOK' /\ DecidedOK' /\ DeskOK(Away, viewed')
  BY AwayOK DEF ReviewInv, LeaseOK, DecidedOK, ReviewerDies, DeskOK, Away
<1>. QED
  BY <1>1, OneReviewer DEF ReviewerDies

----------------------------------------------------------------------------
LEMMA ReviewStepInv == ReviewInv /\ [ReviewNext]_reviewVars => ReviewInv'
<1> SUFFICES ASSUME ReviewInv, [ReviewNext]_reviewVars PROVE ReviewInv'
  OBVIOUS
<1>1. CASE UNCHANGED reviewVars
  <2>1. HistoryOK' /\ Current' = Current /\ (DecidedOK /\ LeaseOK)'
    BY <1>1, HistoryStays DEF reviewVars, ReviewInv, DecidedOK, LeaseOK
  <2>. QED
    BY <1>1, <2>1, DesksStay DEF ReviewInv, reviewVars
<1>2. CASE ReviewNext
  BY <1>2, WriteInv, TakeInv, SaveInv, EndInv, LookInv, AcceptInv, RevertReadInv, RevertClaimInv,
     RevertWriteInv, RevertRecordInv, RefusedInv, DiesInv
  DEF ReviewNext
<1>. QED
  BY <1>1, <1>2

(* The history, the claim, the decisions and the desks keep to their       *)
(* invariant.                                                              *)
THEOREM ReviewsHold == ReviewSpec => []ReviewInv
  BY ReviewInitInv, ReviewStepInv, PTL DEF ReviewSpec

(* Everything keeps its type, and decisions cover versions there are.      *)
THEOREM ReviewTypes == ReviewSpec => []ReviewTypeOK
<1>1. ReviewInv => ReviewTypeOK
  <2> SUFFICES ASSUME ReviewInv PROVE ReviewTypeOK
    OBVIOUS
  <2>1. \A d \in decided : d.from < d.to /\ d.to =< Current
    BY ReviewAssumption DEF ReviewInv, HistoryOK, Current, DecidedOK, Decided, Versions
  <2>. QED
    BY <2>1 DEF ReviewInv, ReviewTypeOK, HistoryOK, LeaseOK, DecidedOK
<1>. QED
  BY <1>1, ReviewsHold, PTL

(* revertPageChanges: "the revert would silently take their write with it" *)
(* never happens.                                                          *)
THEOREM RevertsTakeNothingNewer == ReviewSpec => []RevertSparesBodies
<1>1. ReviewInv => RevertSparesBodies
  BY DEF ReviewInv, HistoryOK, SparesAt, RevertSparesBodies
<1>. QED
  BY <1>1, ReviewsHold, PTL

(* "A decision about a page that has changed since is a decision about     *)
(* something the reviewer has not seen": no such decision is made.         *)
THEOREM NothingUnseenIsDecided == ReviewSpec => []UnseenStaysPending
<1>1. ReviewInv => UnseenStaysPending
  <2> SUFFICES ASSUME ReviewInv, NEW v \in 1 .. Current,
                      revisions[v].author # "user", ~(viewed >= v),
                      ~(\E n \in v .. Current : revisions[n].author = "user")
               PROVE  RevisionStatus(v) = "pending"
    BY DEF UnseenStaysPending
  <2>1. revisions[v].author = "agent"
    <3>1. revisions[v] \in Revision
      BY DEF ReviewInv, HistoryOK, Current
    <3>. QED
      BY <3>1 DEF Revision
  <2>2. v > BaselineVersion
    BY Baseline DEF ReviewInv
  <2>. QED
    BY <2>1, <2>2 DEF RevisionStatus
<1>. QED
  BY <1>1, ReviewsHold, PTL

----------------------------------------------------------------------------
(***************************************************************************)
(* Limits, for any capacity, any window and any number of events.          *)
(*                                                                         *)
(* SameDecision is inductive by itself once one sees that a bucket acts by *)
(* its level alone: a tick and a request turn equal levels into equal      *)
(* ones, and a bucket idle for a window is full.  BurstsCounted follows    *)
(* from EntryOK: an entry that is there agrees with what was left out, and *)
(* one that is gone has been idle for two windows.                         *)
(***************************************************************************)
Timed(b) == b \in [tokens : 0 .. Full, idle : 0 .. Forever]

EntryOK ==
    /\ entry \in [suppressed : Nat, age : 0 .. Forever, kept : BOOLEAN]
    /\ missed \in 0 .. MaxMissed /\ sinceRow \in 0 .. Forever
    /\ entry.kept => entry.suppressed = missed /\ entry.age = sinceRow
    /\ ~entry.kept => entry.suppressed = 0 /\ sinceRow = Forever

LimitsInv == Timed(bucket) /\ Timed(shadow) /\ SameDecision /\ EntryOK

----------------------------------------------------------------------------
LEMMA Ranges == Full \in Nat /\ Forever \in Nat /\ Window =< Full /\ Capacity =< Full
<1>1. Capacity \in Nat \ {0} /\ Window \in Nat \ {0}
  BY LimitsAssumption
<1>2. Capacity * Window \in Nat /\ Window =< Capacity * Window /\ Capacity =< Capacity * Window
  BY <1>1
<1>. QED
  BY <1>1, <1>2 DEF Full, Forever

(* The parts a bucket gains while it is idle.                              *)
LEMMA Gains ==
  ASSUME NEW n \in 0 .. Forever
  PROVE  /\ n * Capacity \in Nat
         /\ (n + 1) * Capacity = n * Capacity + Capacity
         /\ n >= Window => n * Capacity >= Full
<1>1. Capacity \in Nat \ {0} /\ Window \in Nat \ {0} /\ n \in Nat
  BY LimitsAssumption, Ranges
<1>2. n * Capacity \in Nat /\ (n + 1) * Capacity = n * Capacity + Capacity
  BY <1>1
<1>3. ASSUME n >= Window PROVE n * Capacity >= Capacity * Window
  <2>1. PICK k \in Nat : n = Window + k
    BY <1>1, <1>3
  <2>2. n * Capacity = Capacity * Window + k * Capacity /\ k * Capacity \in Nat
    BY <1>1, <2>1
  <2>. QED
    BY <1>1, <1>2, <2>2
<1>. QED
  BY <1>2, <1>3 DEF Full

LEMMA LevelRange ==
  ASSUME NEW b, Timed(b)
  PROVE  Level(b) \in 0 .. Full
  BY Ranges, Gains DEF Timed, Level

(* A bucket idle for a window is full.                                     *)
LEMMA FullAgain ==
  ASSUME NEW b, Timed(b), IdleForAWindow(b)
  PROVE  Level(b) = Full
<1>1. b.tokens \in 0 .. Full /\ b.idle \in 0 .. Forever
  BY DEF Timed
<1>2. b.idle * Capacity \in Nat /\ b.idle * Capacity >= Full
  BY <1>1, Gains DEF IdleForAWindow
<1>. QED
  BY <1>1, <1>2, Ranges DEF Level

(* A tick raises the level by the capacity, as far as there is room.       *)
LEMMA Refilled ==
  ASSUME NEW b, Timed(b)
  PROVE  LET c == [b EXCEPT !.idle = Later(@)]
         IN  /\ Timed(c)
             /\ Level(c) = IF Level(b) + Capacity > Full THEN Full ELSE Level(b) + Capacity
<1> DEFINE c == [b EXCEPT !.idle = Later(@)]
<1>1. b.tokens \in 0 .. Full /\ b.idle \in 0 .. Forever
  BY DEF Timed
<1>2. Later(b.idle) \in 0 .. Forever /\ c.tokens = b.tokens /\ c.idle = Later(b.idle) /\ Timed(c)
  BY <1>1, Ranges DEF Timed, Later
<1>3. Capacity \in Nat /\ Window \in Nat \ {0} /\ Full \in Nat
  BY LimitsAssumption, Ranges
<1>4. b.idle * Capacity \in Nat /\ (b.idle + 1) * Capacity = b.idle * Capacity + Capacity
  BY <1>1, Gains
<1>5. CASE b.idle < Forever
  <2>1. c.idle * Capacity = b.idle * Capacity + Capacity
    BY <1>2, <1>4, <1>5 DEF Later
  <2>. QED
    BY <1>1, <1>2, <1>3, <1>4, <2>1 DEF Level
<1>6. CASE ~(b.idle < Forever)
  <2>1. b.idle >= Window /\ c.idle >= Window
    BY <1>1, <1>2, <1>3, <1>6 DEF Forever, Later
  <2>2. Level(b) = Full /\ Level(c) = Full
    BY <1>2, <2>1, FullAgain DEF IdleForAWindow
  <2>. QED
    BY <1>2, <1>3, <2>2
<1>. QED
  BY <1>2, <1>5, <1>6

(* A request leaves what its level says.                                   *)
LEMMA SpentOK ==
  ASSUME NEW b, Timed(b)
  PROVE  Timed(Spent(b))
<1>1. Level(b) \in 0 .. Full /\ Full \in Nat /\ Window \in Nat /\ Forever \in Nat
  BY LevelRange, Ranges, LimitsAssumption
<1>. QED
  BY <1>1 DEF Timed, Spent

----------------------------------------------------------------------------
LEMMA LimitsStart == LimitsInit => LimitsInv
<1> SUFFICES ASSUME LimitsInit PROVE LimitsInv
  OBVIOUS
<1>1. Timed(NoBucket)
  BY Ranges DEF Timed, NoBucket
<1>2. EntryOK
  BY Ranges, LimitsAssumption DEF LimitsInit, EntryOK, NoEntry
<1>. QED
  BY <1>1, <1>2 DEF LimitsInit, LimitsInv, SameDecision

LEMMA TickInv == LimitsInv /\ Tick => LimitsInv'
<1> SUFFICES ASSUME LimitsInv, Tick PROVE LimitsInv'
  OBVIOUS
<1>1. Timed(bucket)' /\ Timed(shadow)' /\ SameDecision'
  BY Refilled DEF LimitsInv, Tick, SameDecision, Timed
<1>2. EntryOK'
  <2>1. entry' = [entry EXCEPT !.age = Later(@)] /\ sinceRow' = Later(sinceRow) /\ missed' = missed
    BY DEF Tick
  <2>2. Forever \in Nat
    BY Ranges
  <2>3. entry'.age = Later(entry.age) /\ entry'.kept = entry.kept /\ entry'.suppressed = entry.suppressed
        /\ Later(entry.age) \in 0 .. Forever /\ Later(sinceRow) \in 0 .. Forever
        /\ (sinceRow = Forever => Later(sinceRow) = Forever)
    BY <2>1, <2>2 DEF LimitsInv, EntryOK, Later
  <2>4. entry' \in [suppressed : Nat, age : 0 .. Forever, kept : BOOLEAN]
    BY <2>1, <2>3 DEF LimitsInv, EntryOK
  <2>. QED
    BY <2>1, <2>3, <2>4 DEF LimitsInv, EntryOK
<1>. QED
  BY <1>1, <1>2 DEF LimitsInv

LEMMA ConsumeInv == LimitsInv /\ Consume => LimitsInv'
<1> SUFFICES ASSUME LimitsInv, Consume PROVE LimitsInv'
  OBVIOUS
<1>1. Timed(bucket)' /\ Timed(shadow)'
  BY SpentOK DEF LimitsInv, Consume, Timed
<1>2. Spent(bucket) = Spent(shadow)
  BY DEF LimitsInv, SameDecision, Spent
<1>3. SameDecision'
  BY <1>2 DEF Consume, SameDecision
<1>4. EntryOK'
  BY DEF LimitsInv, Consume, EntryOK
<1>. QED
  BY <1>1, <1>3, <1>4 DEF LimitsInv

LEMMA PruneBucketsInv == LimitsInv /\ PruneBuckets => LimitsInv'
<1> SUFFICES ASSUME LimitsInv, PruneBuckets PROVE LimitsInv'
  OBVIOUS
<1>1. Timed(NoBucket) /\ NoBucket.idle >= Window
  BY Ranges, LimitsAssumption DEF Timed, NoBucket, Forever
<1>2. Level(bucket) = Full /\ Level(NoBucket) = Full
  BY <1>1, FullAgain DEF LimitsInv, PruneBuckets, IdleForAWindow
<1>3. SameDecision'
  BY <1>2 DEF LimitsInv, PruneBuckets, SameDecision
<1>4. Timed(bucket)' /\ Timed(shadow)' /\ EntryOK'
  BY <1>1 DEF LimitsInv, PruneBuckets, EntryOK, Timed
<1>. QED
  BY <1>3, <1>4 DEF LimitsInv

LEMMA PruneEntriesInv == LimitsInv /\ PruneEntries => LimitsInv'
<1> SUFFICES ASSUME LimitsInv, PruneEntries PROVE LimitsInv'
  OBVIOUS
<1>1. entry.age = Forever /\ sinceRow = Forever
  BY Ranges DEF LimitsInv, PruneEntries, OldEntry, EntryOK, Forever
<1>2. EntryOK'
  BY <1>1, Ranges DEF LimitsInv, PruneEntries, EntryOK, NoEntry
<1>. QED
  BY <1>2 DEF LimitsInv, PruneEntries, Timed, SameDecision

LEMMA SampleInv == ASSUME NEW pruning \in BOOLEAN, LimitsInv, Sample(pruning) PROVE LimitsInv'
<1> DEFINE e == Found(pruning)
<1>1. Timed(bucket)' /\ Timed(shadow)' /\ SameDecision'
  BY DEF LimitsInv, Sample, Timed, SameDecision
<1>2. CASE e.kept /\ e.age < Window
  <2>1. e = entry
    BY <1>2 DEF Found, NoEntry
  <2>2. /\ missed < MaxMissed /\ missed' = missed + 1 /\ sinceRow' = sinceRow
        /\ entry' = [entry EXCEPT !.suppressed = @ + 1]
    BY <1>2, <2>1 DEF Sample
  <2>. QED
    BY <1>1, <2>1, <2>2, <1>2, LimitsAssumption DEF LimitsInv, EntryOK
<1>3. CASE ~(e.kept /\ e.age < Window)
  <2>1. /\ missed' = 0 /\ sinceRow' = 0
        /\ entry' = [suppressed |-> 0, age |-> 0, kept |-> TRUE]
    BY <1>3 DEF Sample
  <2>. QED
    BY <1>1, <2>1, Ranges, LimitsAssumption DEF LimitsInv, EntryOK
<1>. QED
  BY <1>2, <1>3

LEMMA LimitsStep == LimitsInv /\ [LimitsNext]_limitVars => LimitsInv'
<1> SUFFICES ASSUME LimitsInv, [LimitsNext]_limitVars PROVE LimitsInv'
  OBVIOUS
<1>1. CASE UNCHANGED limitVars
  BY <1>1 DEF limitVars, LimitsInv, Timed, SameDecision, EntryOK
<1>2. CASE LimitsNext
  BY <1>2, TickInv, ConsumeInv, PruneBucketsInv, PruneEntriesInv, SampleInv DEF LimitsNext
<1>. QED
  BY <1>1, <1>2

(* The counters keep to their invariant.                                   *)
THEOREM LimitsHold == LimitsSpec => []LimitsInv
  BY LimitsStart, LimitsStep, PTL DEF LimitsSpec

(* consume never overdraws a bucket and never fills it over its capacity.  *)
THEOREM LimitsTypes == LimitsSpec => []LimitsTypeOK
<1>1. LimitsInv => LimitsTypeOK
  BY LimitsAssumption, Ranges DEF LimitsInv, LimitsTypeOK, EntryOK, Timed, Bucket
<1>. QED
  BY <1>1, LimitsHold, PTL

(* "Forgetting them changes no decision": prune leaves every bucket where  *)
(* it would be had nothing ever been pruned.                               *)
THEOREM ForgettingChangesNothing == LimitsSpec => []SameDecision
<1>1. LimitsInv => SameDecision
  BY DEF LimitsInv
<1>. QED
  BY <1>1, LimitsHold, PTL

(* "So its count reaches the next row, if one comes": what the sampler has *)
(* left out within two windows is counted in its entry.                    *)
THEOREM CountsReachTheNextRow == LimitsSpec => []BurstsCounted
<1>1. LimitsInv => BurstsCounted
  BY Ranges DEF LimitsInv, EntryOK, BurstsCounted, Forever
<1>. QED
  BY <1>1, LimitsHold, PTL

=============================================================================
