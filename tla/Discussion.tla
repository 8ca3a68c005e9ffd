----------------------------- MODULE Discussion -----------------------------
(***************************************************************************)
(* Discussion threads: they are opened, posted to, resolved into a         *)
(* decision page, closed when nobody has spoken for a while, and deleted   *)
(* some time after they were resolved.                                     *)
(*                                                                         *)
(* A thread has one deadline.  It stands here as `due`: it has passed.     *)
(* Everybody's sweep is one transaction that reads what is due and acts on *)
(* it afterwards; resolving a thread is three steps in three transactions. *)
(***************************************************************************)
EXTENDS Naturals, FiniteSets

CONSTANTS
    Thread,
    DecisionPage,     \* pages resolutions can create (bound)
    Talker,           \* requests and sweeps in flight at once (bound)
    MaxMessages       \* messages a thread takes

ASSUME DiscussionAssumption == MaxMessages \in Nat \ {0} /\ "none" \notin DecisionPage

VARIABLES
    thread,           \* the rows of discussions, each with its messages counted
    decisions,        \* the decision pages there are
    written,          \* the decision pages there have ever been
    closings,         \* how many sweeps have reported closing a thread
    talk              \* the requests in flight

threadVars == <<thread, decisions, written, closings, talk>>

ThreadRow == [status : {"none", "open", "resolved", "deleted"}, due : BOOLEAN,
              by : {"none", "person", "system"}, page : DecisionPage \cup {"none"},
              messages : 0 .. MaxMessages]
NoThread == [status |-> "none", due |-> FALSE, by |-> "none", page |-> "none", messages |-> 0]

TalkRequest == [op : {"none", "sweep", "delete", "resolve", "mark"}, of : Thread \cup {"none"},
                page : DecisionPage \cup {"none"}, todo : SUBSET Thread, closing : SUBSET Thread]
Silent == [op |-> "none", of |-> "none", page |-> "none", todo |-> {}, closing |-> {}]

ThreadInit ==
    /\ thread = [d \in Thread |-> NoThread]
    /\ decisions = {} /\ written = {}
    /\ closings = [d \in Thread |-> 0]
    /\ talk = [w \in Talker |-> Silent]

(* A sweep holds the rows it has closed until it commits.                  *)
ThreadFree(d) == \A v \in Talker : d \notin talk[v].closing
Silenced(w) == talk' = [talk EXCEPT ![w] = Silent]
Exists(d) == thread[d].status \in {"open", "resolved"}
DueIn(status) == {d \in Thread : thread[d].status = status /\ thread[d].due}

----------------------------------------------------------------------------
(* openDiscussion writes the row and its first message.                    *)
OpenDiscussion(d) ==
    /\ thread[d].status = "none"
    /\ thread' = [thread EXCEPT ![d].status = "open", ![d].messages = 1]
    /\ UNCHANGED <<decisions, written, closings, talk>>

(* A message under the row's lock puts the deadline off.                   *)
MayPostAny(d) == thread[d].status = "open"
MayPost(d) == thread[d].status = "open" /\ thread[d].messages < MaxMessages

PostMessage(d) ==
    /\ MayPost(d) /\ ThreadFree(d)
    /\ thread' = [thread EXCEPT ![d].messages = @ + 1, ![d].due = FALSE]
    /\ UNCHANGED <<decisions, written, closings, talk>>

(* The window of the state a thread is in runs out.                        *)
Elapse(d) ==
    /\ Exists(d) /\ ~thread[d].due
    /\ thread' = [thread EXCEPT ![d].due = TRUE]
    /\ UNCHANGED <<decisions, written, closings, talk>>

(* deleteDiscussion, by its opener or an administrator.                    *)
DeleteDiscussion(d) ==
    /\ Exists(d) /\ ThreadFree(d)
    /\ thread' = [thread EXCEPT ![d].status = "deleted"]
    /\ UNCHANGED <<decisions, written, closings, talk>>

----------------------------------------------------------------------------
(* expireDiscussions, from the timer or before a space is read.            *)
SweepDue(w) ==
    /\ talk[w].op = "none" /\ \E d \in Thread : Exists(d) /\ thread[d].due
    /\ talk' = [talk EXCEPT ![w] = [Silent EXCEPT !.op = "sweep", !.todo = DueIn("open")]]
    /\ UNCHANGED <<thread, decisions, written, closings>>

(* Each update waits for the row and looks at the status once more.  The   *)
(* mutated form stands before.                                             *)
StillOpenUnchecked(d) == Exists(d)
StillOpen(d) == thread[d].status = "open"

SweepClose(w, d) ==
    /\ talk[w].op = "sweep" /\ d \in talk[w].todo /\ ThreadFree(d)
    /\ talk' = [talk EXCEPT ![w].todo = @ \ {d},
                            ![w].closing = IF StillOpen(d) THEN @ \cup {d} ELSE @]
    /\ UNCHANGED <<thread, decisions, written, closings>>

SweepResolved(w) ==
    /\ talk[w].op = "sweep" /\ talk[w].todo = {}
    /\ talk' = [talk EXCEPT ![w].op = "delete", ![w].todo = DueIn("resolved")]
    /\ UNCHANGED <<thread, decisions, written, closings>>

(* What it closed is resolved by the system; what is still resolved of     *)
(* what was due is deleted, and everything commits together.               *)
ClosedRow(row) == [row EXCEPT !.status = "resolved", !.by = "system", !.due = FALSE]

SweepCommit(w) ==
    LET doomed == {d \in talk[w].todo : thread[d].status = "resolved"}
    IN /\ talk[w].op = "delete" /\ \A d \in doomed : ThreadFree(d)
       /\ thread' = [d \in Thread |->
                       IF d \in talk[w].closing THEN ClosedRow(thread[d])
                       ELSE IF d \in doomed THEN [thread[d] EXCEPT !.status = "deleted"]
                       ELSE thread[d]]
       /\ closings' = [d \in Thread |-> IF d \in talk[w].closing THEN closings[d] + 1 ELSE closings[d]]
       /\ Silenced(w)
       /\ UNCHANGED <<decisions, written>>

----------------------------------------------------------------------------
(* resolveDiscussion reads the thread whatever its state, then writes the  *)
(* page, then marks the thread without looking at it again.                *)
ResolveBegin(w, d) ==
    /\ talk[w].op = "none" /\ Exists(d)
    /\ talk' = [talk EXCEPT ![w] = [Silent EXCEPT !.op = "resolve", !.of = d, !.page = thread[d].page]]
    /\ UNCHANGED <<thread, decisions, written, closings>>

(* The thread's decision page is rewritten if it still exists, else a new  *)
(* one is created.                                                         *)
ResolveWrite(w, g) ==
    /\ talk[w].op = "resolve"
    /\ IF talk[w].page \in decisions THEN g = talk[w].page ELSE g \notin written
    /\ decisions' = decisions \cup {g} /\ written' = written \cup {g}
    /\ talk' = [talk EXCEPT ![w].op = "mark", ![w].page = g]
    /\ UNCHANGED <<thread, closings>>

(* The page is written before the thread is marked, so marking needs one.  *)
ReadyToMarkAnyTime(w) == talk[w].op \in {"resolve", "mark"}
ReadyToMark(w) == talk[w].op = "mark"

ResolveMark(w) ==
    LET d == talk[w].of
    IN /\ ReadyToMark(w)
       /\ Exists(d) /\ ThreadFree(d)
       /\ thread' = [thread EXCEPT ![d].status = "resolved", ![d].by = "person",
                                   ![d].page = talk[w].page, ![d].due = FALSE]
       /\ Silenced(w)
       /\ UNCHANGED <<decisions, written, closings>>

(* A claim on the page, an archived space, a thread that is gone, an error.*)
AbortTalk(w) ==
    /\ talk[w].op # "none" /\ Silenced(w)
    /\ UNCHANGED <<thread, decisions, written, closings>>

(* Somebody deletes a decision page: it is a page like any other.          *)
DeleteDecision(g) ==
    /\ g \in decisions
    /\ decisions' = decisions \ {g}
    /\ UNCHANGED <<thread, written, closings, talk>>

ThreadNext ==
    \/ \E d \in Thread : OpenDiscussion(d) \/ PostMessage(d) \/ Elapse(d) \/ DeleteDiscussion(d)
    \/ \E w \in Talker, d \in Thread : SweepClose(w, d) \/ ResolveBegin(w, d)
    \/ \E w \in Talker : SweepDue(w) \/ SweepResolved(w) \/ SweepCommit(w) \/ ResolveMark(w) \/ AbortTalk(w)
    \/ \E w \in Talker, g \in DecisionPage : ResolveWrite(w, g)
    \/ \E g \in DecisionPage : DeleteDecision(g)

ThreadSpec == ThreadInit /\ [][ThreadNext]_threadVars

----------------------------------------------------------------------------
(* Types of the threads and of the requests in flight.                     *)
ThreadTypeOK ==
    /\ thread \in [Thread -> ThreadRow]
    /\ decisions \subseteq written /\ written \subseteq DecisionPage
    /\ closings \in [Thread -> Nat]
    /\ talk \in [Talker -> TalkRequest]

(* expireDiscussions: however many sweeps run at once, a thread is closed  *)
(* for inactivity once.                                                    *)
ClosedOnce == \A d \in Thread : closings[d] =< 1

(* A thread somebody has resolved is never marked as closed by the system, *)
(* whatever sweep was under way: wasClosedForInactivity can tell.          *)
PersonWroteIt == \A d \in Thread : thread[d].by = "system" => thread[d].page = "none"

(* A thread resolved by a person has a decision page that was written.     *)
DecisionWritten == \A d \in Thread : thread[d].by = "person" => thread[d].page \in written

=============================================================================
