------------------------------- MODULE Review -------------------------------
(***************************************************************************)
(* One page whose agent changes wait for a person: reviewers accept what   *)
(* they looked at or put the page back, while agents and people write.     *)
(*                                                                         *)
(* Accepting is one transaction under the page's row lock.  Reverting is   *)
(* several: the page and its baseline are read, a claim is taken, the page *)
(* is written under it, and the decision is recorded at the end.           *)
(*                                                                         *)
(* A body stands for its hash; titles are left out, and so a write that    *)
(* changes the title only leaves the body as it was.                       *)
(***************************************************************************)
EXTENDS Naturals, Sequences, FiniteSets

CONSTANTS
    Reviewer,
    Body,
    MaxRevisions      \* revisions of the page (bound)

ASSUME ReviewAssumption ==
    MaxRevisions \in Nat \ {0} /\ "agent" \notin Reviewer /\ "none" \notin Reviewer

VARIABLES
    revisions,        \* page_revisions: who wrote each, what, and what it undoes
    lease,            \* the claim on the page, with the body it started from
    decided,          \* page_reviews
    viewed,           \* the newest version a reviewer has looked at
    desk              \* what each reviewer is about

reviewVars == <<revisions, lease, decided, viewed, desk>>

Versions == 1 .. MaxRevisions
Revision == [author : {"user", "agent"}, body : Body, undoes : 0 .. MaxRevisions]
Decided == [decision : {"accepted", "reverted"}, from : 0 .. MaxRevisions, to : Versions]
Nobody == [by |-> "none", base |-> "none"]

(* The version looked at, the baseline found, the body the claim started   *)
(* from, and whether the claim was taken for the revert.                   *)
AtDesk == [pc : {"away", "looking", "read", "claimed", "record"}, head : 0 .. MaxRevisions,
           baseline : 0 .. MaxRevisions, base : Body \cup {"none"}, created : BOOLEAN]
Away == [pc |-> "away", head |-> 0, baseline |-> 0, base |-> "none", created |-> FALSE]

(* The page is a person's or an agent's at first.                          *)
ReviewInit ==
    /\ revisions = <<>> /\ lease = Nobody
    /\ decided = {} /\ viewed = 0
    /\ desk = [r \in Reviewer |-> Away]

Current == Len(revisions)
Newest == revisions[Current]

(* baselineVersion: the newest version a person wrote or accepted.         *)
MaxOf(S) == CHOOSE n \in S : \A m \in S : m =< n
BaselineVersion ==
    MaxOf({0} \cup {v \in 1 .. Current : revisions[v].author = "user"}
              \cup {d.to : d \in {x \in decided : x.decision = "accepted"}})

PendingByAuthor == Current > 0 /\ Newest.author = "agent"
IsPending == Current > 0 /\ Newest.author = "agent" /\ Current > BaselineVersion

(* revisionStatus: a revert of a range outlives an acceptance of it.       *)
RevisionStatus(v) ==
    LET covering == {d \in decided : d.from < v /\ v =< d.to}
    IN CASE revisions[v].author = "user" -> "none"
         [] v > BaselineVersion /\ revisions[v].author = "agent" -> "pending"
         [] OTHER -> IF \E d \in covering : d.decision = "reverted" THEN "reverted"
                     ELSE IF covering # {} THEN "accepted" ELSE "edited"

----------------------------------------------------------------------------
(* A page comes with its first revision; later ones are written under a    *)
(* claim whose body is still the page's.                                   *)
Appended(author, body, undoes) ==
    Append(revisions, [author |-> author, body |-> body, undoes |-> undoes])

WritePage(author, body) ==
    /\ revisions = <<>>
    /\ revisions' = Appended(author, body, 0)
    /\ UNCHANGED <<lease, decided, viewed, desk>>

(* Agents and people take claims, save under them and give them back; a    *)
(* claim runs out, too.                                                    *)
TakeLease(who) ==
    /\ Current > 0 /\ lease = Nobody
    /\ lease' = [by |-> who, base |-> Newest.body]
    /\ UNCHANGED <<revisions, decided, viewed, desk>>

SaveUnder(who, body) ==
    /\ lease.by = who /\ lease.base = Newest.body /\ Current < MaxRevisions
    /\ revisions' = Appended(IF who = "agent" THEN "agent" ELSE "user", body, 0)
    /\ lease' = [lease EXCEPT !.base = body]
    /\ UNCHANGED <<decided, viewed, desk>>

EndLease ==
    /\ lease # Nobody /\ lease' = Nobody
    /\ UNCHANGED <<revisions, decided, viewed, desk>>

----------------------------------------------------------------------------
(* A reviewer looks at the newest version.                                 *)
Look(r) ==
    /\ Current > 0 /\ desk[r] # [Away EXCEPT !.pc = "looking", !.head = Current]
    /\ desk[r].pc \in {"away", "looking"}
    /\ desk' = [desk EXCEPT ![r] = [Away EXCEPT !.pc = "looking", !.head = Current]]
    /\ viewed' = Current
    /\ UNCHANGED <<revisions, lease, decided>>

(* A decision is about the version that was looked at.  The mutated form   *)
(* stands before.                                                          *)
AnyHead(r) == TRUE
StillHead(r) == desk[r].head = Current

AcceptPageChanges(r) ==
    /\ desk[r].pc = "looking" /\ StillHead(r) /\ IsPending
    /\ decided' = decided \cup {[decision |-> "accepted", from |-> BaselineVersion, to |-> Current]}
    /\ desk' = [desk EXCEPT ![r] = Away]
    /\ UNCHANGED <<revisions, lease, viewed>>

(* revertPageChanges: the page and the baseline, without a lock.           *)
RevertRead(r) ==
    /\ desk[r].pc = "looking" /\ StillHead(r) /\ IsPending /\ BaselineVersion > 0
    /\ desk' = [desk EXCEPT ![r].pc = "read", ![r].baseline = BaselineVersion]
    /\ UNCHANGED <<revisions, lease, decided, viewed>>

(* The claim; one the reviewer has already is extended and kept.           *)
RevertClaim(r) ==
    /\ desk[r].pc = "read" /\ lease.by \in {"none", r}
    /\ lease' = IF lease = Nobody THEN [by |-> r, base |-> Newest.body] ELSE lease
    /\ desk' = [desk EXCEPT ![r].pc = "claimed", ![r].base = lease'.base, ![r].created = lease = Nobody]
    /\ UNCHANGED <<revisions, decided, viewed>>

(* "If somebody wrote in between, the lease starts from their hash and not *)
(* from the one the reviewer saw."                                         *)
AnyBase(r) == TRUE
SawBase(r) == desk[r].base = revisions[desk[r].head].body

(* The write, and the claim back if it was taken for it.                   *)
RevertWrite(r) ==
    /\ desk[r].pc = "claimed" /\ SawBase(r) /\ Current < MaxRevisions
    /\ lease.by = r /\ desk[r].base = Newest.body
    /\ LET target == revisions[desk[r].baseline].body
       IN /\ revisions' = Appended("user", target, desk[r].head)
          /\ lease' = IF desk[r].created THEN Nobody ELSE [lease EXCEPT !.base = target]
    /\ desk' = [desk EXCEPT ![r].pc = "record"]
    /\ UNCHANGED <<decided, viewed>>

RevertRecord(r) ==
    /\ desk[r].pc = "record"
    /\ decided' = decided \cup
         {[decision |-> "reverted", from |-> desk[r].baseline, to |-> desk[r].head]}
    /\ desk' = [desk EXCEPT ![r] = Away]
    /\ UNCHANGED <<revisions, lease, viewed>>

(* A refusal or an error gives the claim back; the end of the process does *)
(* not.                                                                    *)
RevertRefused(r) ==
    /\ desk[r].pc \in {"read", "claimed"}
    /\ lease' = IF desk[r].created /\ lease.by = r THEN Nobody ELSE lease
    /\ desk' = [desk EXCEPT ![r] = Away]
    /\ UNCHANGED <<revisions, decided, viewed>>

ReviewerDies(r) ==
    /\ desk[r].pc \in {"read", "claimed", "record"}
    /\ desk' = [desk EXCEPT ![r] = Away]
    /\ UNCHANGED <<revisions, lease, decided, viewed>>

ReviewNext ==
    \/ \E author \in {"user", "agent"}, b \in Body : WritePage(author, b)
    \/ \E who \in Reviewer \cup {"agent"} : TakeLease(who) \/ \E b \in Body : SaveUnder(who, b)
    \/ EndLease
    \/ \E r \in Reviewer :
         \/ Look(r) \/ AcceptPageChanges(r) \/ RevertRead(r) \/ RevertClaim(r)
         \/ RevertWrite(r) \/ RevertRecord(r) \/ RevertRefused(r) \/ ReviewerDies(r)

ReviewSpec == ReviewInit /\ [][ReviewNext]_reviewVars

----------------------------------------------------------------------------
(* Types of the history, the claim, the decisions and the desks; a         *)
(* decision covers versions there are.                                     *)
ReviewTypeOK ==
    /\ revisions \in Seq(Revision) /\ Current =< MaxRevisions
    /\ lease \in [by : Reviewer \cup {"agent"}, base : Body] \cup {Nobody}
    /\ decided \in SUBSET Decided /\ \A d \in decided : d.from < d.to /\ d.to =< Current
    /\ viewed \in 0 .. Current
    /\ desk \in [Reviewer -> AtDesk]

(* "The revert would silently take their write with it": a revert is       *)
(* written over the body its reviewer looked at, never over a newer one,   *)
(* whoever wrote, took or lost claims in between.                          *)
RevertSparesBodies ==
    \A v \in 1 .. Current :
        revisions[v].undoes # 0 => revisions[v - 1].body = revisions[revisions[v].undoes].body

(* "A decision about a page that has changed since is a decision about     *)
(* something the reviewer has not seen": what an agent wrote waits until a *)
(* person has written after it, or looked at it or at something newer.     *)
UnseenStaysPending ==
    \A v \in 1 .. Current :
        \/ revisions[v].author = "user" \/ RevisionStatus(v) = "pending"
        \/ viewed >= v \/ \E n \in v .. Current : revisions[n].author = "user"

=============================================================================
