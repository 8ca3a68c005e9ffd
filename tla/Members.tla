------------------------------ MODULE Members ------------------------------
(***************************************************************************)
(* The members of one workspace: the first one from /setup, the others by  *)
(* invitation, and their roles and removal.                                *)
(*                                                                         *)
(* An account is made by the authentication library, which owns that       *)
(* write; the membership follows in a transaction of its own, and if it    *)
(* fails the account is deleted again.  An invitation is claimed before,   *)
(* so that a link opened twice makes one account.                          *)
(*                                                                         *)
(* Other workspaces, sessions, tokens and sign-in providers are left out:  *)
(* an account that is removed here is removed for good.                    *)
(***************************************************************************)
EXTENDS Naturals, FiniteSets

CONSTANTS
    Person,
    Invite,         \* invitations that will be made (bound)
    Clerk           \* requests in flight at once (bound)

ASSUME MembersAssumption == "none" \notin Person \cup Invite

VARIABLES
    account,        \* the people with an account
    role,           \* memberships
    invite,         \* the rows of invitations, with how many joined by each
    founders,       \* who became a member through /setup
    robbed,         \* whether an undo has deleted the account of a member
    clerk           \* the requests in flight

memberVars == <<account, role, invite, founders, robbed, clerk>>

Role == {"member", "admin"}
InviteRow == [state : {"none", "open", "expired"}, email : Person \cup {"none"}, role : Role,
              accepted : BOOLEAN, revoked : BOOLEAN, joins : Nat]
NoInvite == [state |-> "none", email |-> "none", role |-> "member",
             accepted |-> FALSE, revoked |-> FALSE, joins |-> 0]

(* What a request is about: a person, an invitation, the role to give.     *)
ClerkRequest == [op : {"none", "setup", "accept", "join", "change", "remove"},
                 pc : {"idle", "begun", "claimed", "signed", "undone"},
                 who : Person \cup {"none"}, link : Invite \cup {"none"}, role : Role]
Idle == [op |-> "none", pc |-> "idle", who |-> "none", link |-> "none", role |-> "member"]

MembersInit ==
    /\ account = {} /\ founders = {} /\ robbed = FALSE
    /\ role = [p \in Person |-> "none"]
    /\ invite = [i \in Invite |-> NoInvite]
    /\ clerk = [w \in Clerk |-> Idle]

Start(w, op, p, i, r) ==
    /\ clerk[w] = Idle
    /\ clerk' = [clerk EXCEPT ![w] = [op |-> op, pc |-> "begun", who |-> p, link |-> i, role |-> r]]
GoTo(w, pc) == clerk' = [clerk EXCEPT ![w].pc = pc]
Done(w) == clerk' = [clerk EXCEPT ![w] = Idle]
At(w, op, pc) == clerk[w].op = op /\ clerk[w].pc = pc

Admins == {p \in Person : role[p] = "admin"}

----------------------------------------------------------------------------
(* completeSetup holds an advisory lock from its look at the accounts to   *)
(* its end.  The mutated forms stand before what they would replace.       *)
SetupFreeAlways(w) == TRUE
SetupFree(w) == \A v \in Clerk \ {w} : clerk[v].op # "setup"

SetupBegin(w, p) ==
    /\ SetupFree(w) /\ account = {}
    /\ Start(w, "setup", p, "none", "admin")
    /\ UNCHANGED <<account, role, invite, founders, robbed>>

SignUp(w) ==
    /\ At(w, "setup", "begun") \/ At(w, "accept", "claimed")
    /\ clerk[w].who \notin account
    /\ account' = account \cup {clerk[w].who}
    /\ GoTo(w, "signed")
    /\ UNCHANGED <<role, invite, founders, robbed>>

SetupJoin(w) ==
    /\ At(w, "setup", "signed") /\ clerk[w].who \in account /\ role[clerk[w].who] = "none"
    /\ role' = [role EXCEPT ![clerk[w].who] = "admin"]
    /\ founders' = founders \cup {clerk[w].who}
    /\ Done(w)
    /\ UNCHANGED <<account, invite, robbed>>

----------------------------------------------------------------------------
(* createInvitation, for an address that is no member's yet; a link made   *)
(* for it before is revoked unless somebody has just claimed it.           *)
CreateInvitation(i, p, r) ==
    /\ Admins # {} /\ invite[i].state = "none" /\ role[p] = "none"
    /\ invite' = [j \in Invite |->
         IF j = i THEN [NoInvite EXCEPT !.state = "open", !.email = p, !.role = r]
         ELSE IF invite[j].email = p /\ ~invite[j].accepted THEN [invite[j] EXCEPT !.revoked = TRUE]
         ELSE invite[j]]
    /\ UNCHANGED <<account, role, founders, robbed, clerk>>

RevokeInvitation(i) ==
    /\ invite[i].state # "none" /\ ~invite[i].accepted /\ ~invite[i].revoked
    /\ invite' = [invite EXCEPT ![i].revoked = TRUE]
    /\ UNCHANGED <<account, role, founders, robbed, clerk>>

ExpireInvitation(i) ==
    /\ invite[i].state = "open"
    /\ invite' = [invite EXCEPT ![i].state = "expired"]
    /\ UNCHANGED <<account, role, founders, robbed, clerk>>

(* findOpenInvitation, for a new account or for one that is signed in.     *)
Unclaimed(i) == ~invite[i].accepted /\ ~invite[i].revoked

AcceptBegin(w, i) ==
    /\ invite[i].state = "open" /\ Unclaimed(i)
    /\ Start(w, IF invite[i].email \in account THEN "join" ELSE "accept",
             invite[i].email, i, invite[i].role)
    /\ UNCHANGED <<account, role, invite, founders, robbed>>

(* The claim looks once more.                                              *)
ClaimableRevokedOnly(i) == ~invite[i].revoked
Claimable(i) == Unclaimed(i)

AcceptClaim(w) ==
    /\ At(w, "accept", "begun") /\ Claimable(clerk[w].link)
    /\ invite' = [invite EXCEPT ![clerk[w].link].accepted = TRUE]
    /\ GoTo(w, "claimed")
    /\ UNCHANGED <<account, role, founders, robbed>>

AcceptJoin(w) ==
    /\ At(w, "accept", "signed") /\ clerk[w].who \in account /\ role[clerk[w].who] = "none"
    /\ role' = [role EXCEPT ![clerk[w].who] = clerk[w].role]
    /\ invite' = [invite EXCEPT ![clerk[w].link].joins = @ + 1]
    /\ Done(w)
    /\ UNCHANGED <<account, founders, robbed>>

(* acceptInvitationAsMember claims and joins in one transaction.           *)
JoinAsMember(w) ==
    /\ At(w, "join", "begun") /\ Claimable(clerk[w].link)
    /\ clerk[w].who \in account /\ role[clerk[w].who] = "none"
    /\ role' = [role EXCEPT ![clerk[w].who] = clerk[w].role]
    /\ invite' = [invite EXCEPT ![clerk[w].link].accepted = TRUE, ![clerk[w].link].joins = @ + 1]
    /\ Done(w)
    /\ UNCHANGED <<account, founders, robbed>>

(* The membership was refused: the account goes, whatever has become of it *)
(* meanwhile, and then the invitation is handed back; so it is when there  *)
(* could be no account, or the one that was made could not be marked as    *)
(* verified - that one stays, as it does in a setup, which just stops.     *)
UndoAccount(w) ==
    /\ clerk[w].pc = "signed"
    /\ account' = account \ {clerk[w].who}
    /\ role' = [role EXCEPT ![clerk[w].who] = "none"]
    /\ robbed' = (robbed \/ role[clerk[w].who] # "none")
    /\ IF clerk[w].op = "setup" THEN Done(w) ELSE GoTo(w, "undone")
    /\ UNCHANGED <<invite, founders>>

Release(w) ==
    /\ clerk[w].op = "accept" /\ clerk[w].pc \in {"claimed", "signed", "undone"}
    /\ invite' = [invite EXCEPT ![clerk[w].link].accepted = FALSE]
    /\ Done(w)
    /\ UNCHANGED <<account, role, founders, robbed>>

----------------------------------------------------------------------------
(* changeMemberRole and removeMember lock every membership, count, and     *)
(* then write: "one decision".                                             *)
MembersFreeAlways(w) == TRUE
MembersFree(w) == \A v \in Clerk \ {w} : clerk[v].op \notin {"change", "remove"}

NotTheLast(p) == role[p] = "admin" => \E q \in Admins : q # p

ChangeBegin(w, p, r) ==
    /\ MembersFree(w) /\ role[p] \in Role \ {r} /\ NotTheLast(p)
    /\ Start(w, "change", p, "none", r)
    /\ UNCHANGED <<account, role, invite, founders, robbed>>

(* Another administrator removes somebody.                                 *)
RemoveBegin(w, p) ==
    /\ MembersFree(w) /\ role[p] \in Role /\ \E q \in Admins : q # p
    /\ Start(w, "remove", p, "none", "member")
    /\ UNCHANGED <<account, role, invite, founders, robbed>>

ChangeCommit(w) ==
    /\ At(w, "change", "begun")
    /\ role' = [role EXCEPT ![clerk[w].who] = IF @ = "none" THEN @ ELSE clerk[w].role]
    /\ Done(w)
    /\ UNCHANGED <<account, invite, founders, robbed>>

RemoveAccountOnly(w) ==
    /\ At(w, "remove", "begun")
    /\ account' = account \ {clerk[w].who}
    /\ Done(w)
    /\ UNCHANGED <<role, invite, founders, robbed>>
RemoveCommit(w) ==
    /\ At(w, "remove", "begun")
    /\ role' = [role EXCEPT ![clerk[w].who] = "none"]
    /\ account' = account \ {clerk[w].who}
    /\ Done(w)
    /\ UNCHANGED <<invite, founders, robbed>>

(* A request is refused, or its process ends, wherever it is.              *)
ClerkStops(w) ==
    /\ clerk[w] # Idle /\ Done(w)
    /\ UNCHANGED <<account, role, invite, founders, robbed>>

MembersNext ==
    \/ \E w \in Clerk :
         \/ \E p \in Person : SetupBegin(w, p) \/ RemoveBegin(w, p) \/ \E r \in Role : ChangeBegin(w, p, r)
         \/ \E i \in Invite : AcceptBegin(w, i)
         \/ SignUp(w) \/ SetupJoin(w) \/ AcceptClaim(w) \/ AcceptJoin(w) \/ JoinAsMember(w)
         \/ UndoAccount(w) \/ Release(w) \/ ChangeCommit(w) \/ RemoveCommit(w) \/ ClerkStops(w)
    \/ \E i \in Invite : RevokeInvitation(i) \/ ExpireInvitation(i)
    \/ \E i \in Invite, p \in Person, r \in Role : CreateInvitation(i, p, r)

MembersSpec == MembersInit /\ [][MembersNext]_memberVars

----------------------------------------------------------------------------
(* Types of the accounts, the invitations and the requests in flight; a    *)
(* member has an account, and an invitation and a request are for somebody.*)
MembersTypeOK ==
    /\ account \subseteq Person /\ founders \subseteq Person /\ robbed \in BOOLEAN
    /\ role \in [Person -> Role \cup {"none"}]
    /\ invite \in [Invite -> InviteRow]
    /\ clerk \in [Clerk -> ClerkRequest]
    /\ \A p \in Person : role[p] # "none" => p \in account
    /\ \A i \in Invite : invite[i].state # "none" => invite[i].email # "none"
    /\ \A w \in Clerk : clerk[w].op # "none" => clerk[w].who # "none"

(* "Is this the last one?": once there has been an administrator there is  *)
(* always one, however changes and removals meet - unless an acceptance    *)
(* that failed has deleted an account which had joined by another link.    *)
LastAdmin == founders # {} /\ ~robbed => Admins # {}

(* "A link opened twice at once makes one account": nobody, or one person, *)
(* ever joins by an invitation.                                            *)
OneAccountPerLink == \A i \in Invite : invite[i].joins =< 1

(* "Two first visits cannot both pass the 'no users yet' check": one       *)
(* person at most becomes a member through /setup, with the same reserve.  *)
FoundedOnce == ~robbed => \A p, q \in founders : p = q

=============================================================================
