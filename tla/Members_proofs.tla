--------------------------- MODULE Members_proofs ---------------------------
(***************************************************************************)
(* What Members promises, for any people, invitations and requests.        *)
(*                                                                         *)
(* LastAdmin and FoundedOnce rest on one invariant, RolesInv: one request  *)
(* at a time changes roles and has seen an administrator who stays, and a  *)
(* setup under way is the first.  OneAccountPerLink rests on LinksInv: an  *)
(* invitation is held by one request, or nobody has joined by it.          *)
(***************************************************************************)
EXTENDS Members, TLAPS

Disturbs(w) == clerk[w].op \in {"change", "remove"}
Holds(w, i) ==
    clerk[w].op = "accept" /\ clerk[w].pc \in {"claimed", "signed", "undone"} /\ clerk[w].link = i

(* One request at a time changes or removes, one at a time sets up.        *)
OneDisturbs == \A v, w \in Clerk : Disturbs(v) /\ Disturbs(w) => v = w
OneSetsUp == \A v, w \in Clerk : clerk[v].op = "setup" /\ clerk[w].op = "setup" => v = w

(* A request that is to take an administrator's place away has seen        *)
(* another one, who is still there.                                        *)
AnotherIsLeft ==
    ~robbed => \A w \in Clerk :
        Disturbs(w) => \/ clerk[w].op = "change" /\ clerk[w].role = "admin"
                       \/ \E q \in Admins : q # clerk[w].who

(* A setup under way is the first.                                         *)
NobodyYet == ~robbed => \A w \in Clerk : clerk[w].op = "setup" => founders = {}

RolesInv ==
    /\ MembersTypeOK /\ OneDisturbs /\ OneSetsUp
    /\ AnotherIsLeft /\ NobodyYet /\ LastAdmin /\ FoundedOnce

(* An invitation somebody works with has been made; one request at most    *)
(* has claimed it, and then nobody has joined by it.                       *)
LinksOK ==
    /\ \A w \in Clerk : clerk[w].link # "none" => invite[clerk[w].link].state # "none"
    /\ \A i \in Invite :
         /\ \A v, w \in Clerk : Holds(v, i) /\ Holds(w, i) => v = w
         /\ \A w \in Clerk : Holds(w, i) => invite[i].accepted /\ invite[i].joins = 0
         /\ ~invite[i].accepted => invite[i].joins = 0
         /\ invite[i].joins =< 1
LinksInv == MembersTypeOK /\ LinksOK

----------------------------------------------------------------------------
(* The rows of invitations keep their form when they are written.          *)
LEMMA RowAccepted ==
  ASSUME NEW v \in InviteRow, NEW b \in BOOLEAN
  PROVE  [v EXCEPT !.accepted = b] \in InviteRow
  BY DEF InviteRow

LEMMA RowRevoked ==
  ASSUME NEW v \in InviteRow
  PROVE  [v EXCEPT !.revoked = TRUE] \in InviteRow
  BY DEF InviteRow

LEMMA RowJoined ==
  ASSUME NEW v \in InviteRow
  PROVE  [v EXCEPT !.joins = @ + 1] \in InviteRow
  BY DEF InviteRow

LEMMA RowAcceptedAndJoined ==
  ASSUME NEW v \in InviteRow
  PROVE  [v EXCEPT !.accepted = TRUE, !.joins = @ + 1] \in InviteRow
<1>1. [v EXCEPT !.accepted = TRUE].joins = v.joins
  BY DEF InviteRow
<1>2. [v EXCEPT !.accepted = TRUE, !.joins = @ + 1]
        = [[v EXCEPT !.accepted = TRUE] EXCEPT !.joins = @ + 1]
  BY <1>1, Zenon DEF InviteRow
<1>. QED
  BY RowAccepted, RowJoined, <1>2, Zenon

LEMMA RowMade ==
  ASSUME NEW p \in Person, NEW r \in Role
  PROVE  [NoInvite EXCEPT !.state = "open", !.email = p, !.role = r] \in InviteRow
  BY DEF InviteRow, NoInvite, Role

LEMMA RowNone == NoInvite \in InviteRow
  BY DEF InviteRow, NoInvite, Role

(* The requests keep theirs.                                               *)
LEMMA IdleRequest == Idle \in ClerkRequest
  BY DEF ClerkRequest, Idle, Role

----------------------------------------------------------------------------
LEMMA TypeInit == MembersInit => MembersTypeOK
<1> SUFFICES ASSUME MembersInit PROVE MembersTypeOK
  OBVIOUS
<1>1. invite \in [Invite -> InviteRow]
  BY RowNone DEF MembersInit
<1>2. clerk \in [Clerk -> ClerkRequest]
  BY IdleRequest DEF MembersInit
<1>3. account \subseteq Person /\ founders \subseteq Person
      /\ role \in [Person -> Role \cup {"none"}] /\ \A p \in Person : role[p] # "none" => p \in account
  BY DEF MembersInit
<1>4. robbed \in BOOLEAN
  BY DEF MembersInit
<1>5. \A i \in Invite : invite[i].state = "none"
  BY DEF MembersInit, NoInvite
<1>6. \A w \in Clerk : clerk[w].op = "none"
  BY DEF MembersInit, Idle
<1>. QED
  BY <1>1, <1>2, <1>3, <1>4, <1>5, <1>6 DEF MembersTypeOK

LEMMA TypeStep == MembersTypeOK /\ [MembersNext]_memberVars => MembersTypeOK'
<1> SUFFICES ASSUME MembersTypeOK, [MembersNext]_memberVars PROVE MembersTypeOK'
  OBVIOUS
<1> USE MembersAssumption
<1>1. CASE UNCHANGED memberVars
  BY <1>1 DEF memberVars, MembersTypeOK
<1>2. ASSUME NEW w \in Clerk, NEW p \in Person, SetupBegin(w, p)
      PROVE  MembersTypeOK'
  BY <1>2 DEF SetupBegin, MembersTypeOK, ClerkRequest, Role, Idle, Start, GoTo, Done, At
<1>3. ASSUME NEW w \in Clerk, NEW p \in Person, RemoveBegin(w, p)
      PROVE  MembersTypeOK'
  BY <1>3 DEF RemoveBegin, MembersTypeOK, ClerkRequest, Role, Idle, Start, GoTo, Done, At
<1>4. ASSUME NEW w \in Clerk, NEW p \in Person, NEW r \in Role, ChangeBegin(w, p, r)
      PROVE  MembersTypeOK'
  BY <1>4 DEF ChangeBegin, MembersTypeOK, ClerkRequest, Role, Idle, Start, GoTo, Done, At
<1>5. ASSUME NEW w \in Clerk, NEW i \in Invite, AcceptBegin(w, i)
      PROVE  MembersTypeOK'
  <2>1. clerk' \in [Clerk -> ClerkRequest]
    BY <1>5 DEF AcceptBegin, MembersTypeOK, ClerkRequest, Role, Idle, Start, GoTo, Done, At, InviteRow
  <2>2. role' \in [Person -> Role \cup {"none"}]
    BY <1>5 DEF AcceptBegin, MembersTypeOK, ClerkRequest, Role, Idle, Start, GoTo, Done, At
  <2>3. account' \subseteq Person /\ founders' \subseteq Person
    BY <1>5 DEF AcceptBegin, MembersTypeOK, ClerkRequest, Role, Idle, Start, GoTo, Done, At
  <2>4. invite' \in [Invite -> InviteRow]
    BY <1>5 DEF AcceptBegin, MembersTypeOK
  <2>5. robbed' \in BOOLEAN
    BY <1>5 DEF AcceptBegin, MembersTypeOK
  <2>6. \A q \in Person : role'[q] # "none" => q \in account'
    BY <1>5 DEF AcceptBegin, MembersTypeOK, ClerkRequest, Role, Idle, Start, GoTo, Done, At
  <2>7. \A j \in Invite : invite'[j].state # "none" => invite'[j].email # "none"
    BY <1>5 DEF AcceptBegin, MembersTypeOK, InviteRow, NoInvite, At, ClerkRequest
  <2>8. \A v \in Clerk : clerk'[v].op # "none" => clerk'[v].who # "none"
    BY <1>5 DEF AcceptBegin, MembersTypeOK, ClerkRequest, Role, Idle, Start, GoTo, Done, At
  <2>. QED
    BY <2>1, <2>2, <2>3, <2>4, <2>5, <2>6, <2>7, <2>8 DEF MembersTypeOK
<1>6. ASSUME NEW w \in Clerk, SignUp(w)
      PROVE  MembersTypeOK'
  BY <1>6 DEF SignUp, MembersTypeOK, ClerkRequest, Role, Idle, Start, GoTo, Done, At
<1>7. ASSUME NEW w \in Clerk, SetupJoin(w)
      PROVE  MembersTypeOK'
  <2>1. clerk' \in [Clerk -> ClerkRequest]
    BY <1>7 DEF SetupJoin, MembersTypeOK, ClerkRequest, Role, Idle, Start, GoTo, Done, At
  <2>2. role' \in [Person -> Role \cup {"none"}]
    BY <1>7 DEF SetupJoin, MembersTypeOK, ClerkRequest, Role, Idle, Start, GoTo, Done, At
  <2>3. account' \subseteq Person /\ founders' \subseteq Person
    BY <1>7 DEF SetupJoin, MembersTypeOK, ClerkRequest, Role, Idle, Start, GoTo, Done, At
  <2>4. invite' \in [Invite -> InviteRow]
    BY <1>7 DEF SetupJoin, MembersTypeOK
  <2>5. robbed' \in BOOLEAN
    BY <1>7 DEF SetupJoin, MembersTypeOK
  <2>6. \A q \in Person : role'[q] # "none" => q \in account'
    BY <1>7 DEF SetupJoin, MembersTypeOK, ClerkRequest, Role, Idle, Start, GoTo, Done, At
  <2>7. \A j \in Invite : invite'[j].state # "none" => invite'[j].email # "none"
    BY <1>7 DEF SetupJoin, MembersTypeOK, InviteRow, NoInvite, At, ClerkRequest
  <2>8. \A v \in Clerk : clerk'[v].op # "none" => clerk'[v].who # "none"
    BY <1>7 DEF SetupJoin, MembersTypeOK, ClerkRequest, Role, Idle, Start, GoTo, Done, At
  <2>. QED
    BY <2>1, <2>2, <2>3, <2>4, <2>5, <2>6, <2>7, <2>8 DEF MembersTypeOK
<1>8. ASSUME NEW w \in Clerk, AcceptClaim(w)
      PROVE  MembersTypeOK'
  <2>1. clerk' \in [Clerk -> ClerkRequest]
    BY <1>8 DEF AcceptClaim, MembersTypeOK, ClerkRequest, Role, Idle, Start, GoTo, Done, At
  <2>2. role' \in [Person -> Role \cup {"none"}]
    BY <1>8 DEF AcceptClaim, MembersTypeOK, ClerkRequest, Role, Idle, Start, GoTo, Done, At
  <2>3. account' \subseteq Person /\ founders' \subseteq Person
    BY <1>8 DEF AcceptClaim, MembersTypeOK, ClerkRequest, Role, Idle, Start, GoTo, Done, At
  <2>4. invite' \in [Invite -> InviteRow]
    BY <1>8, RowAccepted DEF AcceptClaim, MembersTypeOK, ClerkRequest, At
  <2>5. robbed' \in BOOLEAN
    BY <1>8 DEF AcceptClaim, MembersTypeOK
  <2>6. \A q \in Person : role'[q] # "none" => q \in account'
    BY <1>8 DEF AcceptClaim, MembersTypeOK, ClerkRequest, Role, Idle, Start, GoTo, Done, At
  <2>7. \A j \in Invite : invite'[j].state # "none" => invite'[j].email # "none"
    BY <1>8 DEF AcceptClaim, MembersTypeOK, InviteRow, NoInvite, At, ClerkRequest
  <2>8. \A v \in Clerk : clerk'[v].op # "none" => clerk'[v].who # "none"
    BY <1>8 DEF AcceptClaim, MembersTypeOK, ClerkRequest, Role, Idle, Start, GoTo, Done, At
  <2>. QED
    BY <2>1, <2>2, <2>3, <2>4, <2>5, <2>6, <2>7, <2>8 DEF MembersTypeOK
<1>9. ASSUME NEW w \in Clerk, AcceptJoin(w)
      PROVE  MembersTypeOK'
  <2>1. clerk' \in [Clerk -> ClerkRequest]
    BY <1>9 DEF AcceptJoin, MembersTypeOK, ClerkRequest, Role, Idle, Start, GoTo, Done, At
  <2>2. role' \in [Person -> Role \cup {"none"}]
    BY <1>9 DEF AcceptJoin, MembersTypeOK, ClerkRequest, Role, Idle, Start, GoTo, Done, At
  <2>3. account' \subseteq Person /\ founders' \subseteq Person
    BY <1>9 DEF AcceptJoin, MembersTypeOK, ClerkRequest, Role, Idle, Start, GoTo, Done, At
  <2>4. invite' \in [Invite -> InviteRow]
    BY <1>9, RowJoined DEF AcceptJoin, MembersTypeOK, ClerkRequest, At
  <2>5. robbed' \in BOOLEAN
    BY <1>9 DEF AcceptJoin, MembersTypeOK
  <2>6. \A q \in Person : role'[q] # "none" => q \in account'
    BY <1>9 DEF AcceptJoin, MembersTypeOK, ClerkRequest, Role, Idle, Start, GoTo, Done, At
  <2>7. \A j \in Invite : invite'[j].state # "none" => invite'[j].email # "none"
    BY <1>9 DEF AcceptJoin, MembersTypeOK, InviteRow, NoInvite, At, ClerkRequest
  <2>8. \A v \in Clerk : clerk'[v].op # "none" => clerk'[v].who # "none"
    BY <1>9 DEF AcceptJoin, MembersTypeOK, ClerkRequest, Role, Idle, Start, GoTo, Done, At
  <2>. QED
    BY <2>1, <2>2, <2>3, <2>4, <2>5, <2>6, <2>7, <2>8 DEF MembersTypeOK
<1>10. ASSUME NEW w \in Clerk, JoinAsMember(w)
      PROVE  MembersTypeOK'
  <2>1. clerk' \in [Clerk -> ClerkRequest]
    BY <1>10 DEF JoinAsMember, MembersTypeOK, ClerkRequest, Role, Idle, Start, GoTo, Done, At
  <2>2. role' \in [Person -> Role \cup {"none"}]
    BY <1>10 DEF JoinAsMember, MembersTypeOK, ClerkRequest, Role, Idle, Start, GoTo, Done, At
  <2>3. account' \subseteq Person /\ founders' \subseteq Person
    BY <1>10 DEF JoinAsMember, MembersTypeOK, ClerkRequest, Role, Idle, Start, GoTo, Done, At
  <2>4. invite' \in [Invite -> InviteRow]
    BY <1>10, RowAcceptedAndJoined DEF JoinAsMember, MembersTypeOK, ClerkRequest, At
  <2>5. robbed' \in BOOLEAN
    BY <1>10 DEF JoinAsMember, MembersTypeOK
  <2>6. \A q \in Person : role'[q] # "none" => q \in account'
    BY <1>10 DEF JoinAsMember, MembersTypeOK, ClerkRequest, Role, Idle, Start, GoTo, Done, At
  <2>7. \A j \in Invite : invite'[j].state # "none" => invite'[j].email # "none"
    BY <1>10 DEF JoinAsMember, MembersTypeOK, InviteRow, NoInvite, At, ClerkRequest
  <2>8. \A v \in Clerk : clerk'[v].op # "none" => clerk'[v].who # "none"
    BY <1>10 DEF JoinAsMember, MembersTypeOK, ClerkRequest, Role, Idle, Start, GoTo, Done, At
  <2>. QED
    BY <2>1, <2>2, <2>3, <2>4, <2>5, <2>6, <2>7, <2>8 DEF MembersTypeOK
<1>11. ASSUME NEW w \in Clerk, UndoAccount(w)
      PROVE  MembersTypeOK'
  <2>1. clerk' \in [Clerk -> ClerkRequest]
    BY <1>11 DEF UndoAccount, MembersTypeOK, ClerkRequest, Role, Idle, Start, GoTo, Done, At
  <2>2. role' \in [Person -> Role \cup {"none"}]
    BY <1>11 DEF UndoAccount, MembersTypeOK, ClerkRequest, Role, Idle, Start, GoTo, Done, At
  <2>3. account' \subseteq Person /\ founders' \subseteq Person
    BY <1>11 DEF UndoAccount, MembersTypeOK, ClerkRequest, Role, Idle, Start, GoTo, Done, At
  <2>4. invite' \in [Invite -> InviteRow]
    BY <1>11 DEF UndoAccount, MembersTypeOK
  <2>5. robbed' \in BOOLEAN
    BY <1>11 DEF UndoAccount, MembersTypeOK
  <2>6. \A q \in Person : role'[q] # "none" => q \in account'
    BY <1>11 DEF UndoAccount, MembersTypeOK, ClerkRequest, Role, Idle, Start, GoTo, Done, At
  <2>7. \A j \in Invite : invite'[j].state # "none" => invite'[j].email # "none"
    BY <1>11 DEF UndoAccount, MembersTypeOK, InviteRow, NoInvite, At, ClerkRequest
  <2>8. \A v \in Clerk : clerk'[v].op # "none" => clerk'[v].who # "none"
    BY <1>11 DEF UndoAccount, MembersTypeOK, ClerkRequest, Role, Idle, Start, GoTo, Done, At
  <2>. QED
    BY <2>1, <2>2, <2>3, <2>4, <2>5, <2>6, <2>7, <2>8 DEF MembersTypeOK
<1>12. ASSUME NEW w \in Clerk, Release(w)
      PROVE  MembersTypeOK'
  <2>1. clerk' \in [Clerk -> ClerkRequest]
    BY <1>12 DEF Release, MembersTypeOK, ClerkRequest, Role, Idle, Start, GoTo, Done, At
  <2>2. role' \in [Person -> Role \cup {"none"}]
    BY <1>12 DEF Release, MembersTypeOK, ClerkRequest, Role, Idle, Start, GoTo, Done, At
  <2>3. account' \subseteq Person /\ founders' \subseteq Person
    BY <1>12 DEF Release, MembersTypeOK, ClerkRequest, Role, Idle, Start, GoTo, Done, At
  <2>4. invite' \in [Invite -> InviteRow]
    BY <1>12, RowAccepted DEF Release, MembersTypeOK, ClerkRequest, At
  <2>5. robbed' \in BOOLEAN
    BY <1>12 DEF Release, MembersTypeOK
  <2>6. \A q \in Person : role'[q] # "none" => q \in account'
    BY <1>12 DEF Release, MembersTypeOK, ClerkRequest, Role, Idle, Start, GoTo, Done, At
  <2>7. \A j \in Invite : invite'[j].state # "none" => invite'[j].email # "none"
    BY <1>12 DEF Release, MembersTypeOK, InviteRow, NoInvite, At, ClerkRequest
  <2>8. \A v \in Clerk : clerk'[v].op # "none" => clerk'[v].who # "none"
    BY <1>12 DEF Release, MembersTypeOK, ClerkRequest, Role, Idle, Start, GoTo, Done, At
  <2>. QED
    BY <2>1, <2>2, <2>3, <2>4, <2>5, <2>6, <2>7, <2>8 DEF MembersTypeOK
<1>13. ASSUME NEW w \in Clerk, ChangeCommit(w)
      PROVE  MembersTypeOK'
  <2>1. clerk' \in [Clerk -> ClerkRequest]
    BY <1>13 DEF ChangeCommit, MembersTypeOK, ClerkRequest, Role, Idle, Start, GoTo, Done, At
  <2>2. role' \in [Person -> Role \cup {"none"}]
    BY <1>13 DEF ChangeCommit, MembersTypeOK, ClerkRequest, Role, Idle, Start, GoTo, Done, At
  <2>3. account' \subseteq Person /\ founders' \subseteq Person
    BY <1>13 DEF ChangeCommit, MembersTypeOK, ClerkRequest, Role, Idle, Start, GoTo, Done, At
  <2>4. invite' \in [Invite -> InviteRow]
    BY <1>13 DEF ChangeCommit, MembersTypeOK
  <2>5. robbed' \in BOOLEAN
    BY <1>13 DEF ChangeCommit, MembersTypeOK
  <2>6. \A q \in Person : role'[q] # "none" => q \in account'
    BY <1>13 DEF ChangeCommit, MembersTypeOK, ClerkRequest, Role, Idle, Start, GoTo, Done, At
  <2>7. \A j \in Invite : invite'[j].state # "none" => invite'[j].email # "none"
    BY <1>13 DEF ChangeCommit, MembersTypeOK, InviteRow, NoInvite, At, ClerkRequest
  <2>8. \A v \in Clerk : clerk'[v].op # "none" => clerk'[v].who # "none"
    BY <1>13 DEF ChangeCommit, MembersTypeOK, ClerkRequest, Role, Idle, Start, GoTo, Done, At
  <2>. QED
    BY <2>1, <2>2, <2>3, <2>4, <2>5, <2>6, <2>7, <2>8 DEF MembersTypeOK
<1>14. ASSUME NEW w \in Clerk, RemoveCommit(w)
      PROVE  MembersTypeOK'
  <2>1. clerk' \in [Clerk -> ClerkRequest]
    BY <1>14 DEF RemoveCommit, MembersTypeOK, ClerkRequest, Role, Idle, Start, GoTo, Done, At
  <2>2. role' \in [Person -> Role \cup {"none"}]
    BY <1>14 DEF RemoveCommit, MembersTypeOK, ClerkRequest, Role, Idle, Start, GoTo, Done, At
  <2>3. account' \subseteq Person /\ founders' \subseteq Person
    BY <1>14 DEF RemoveCommit, MembersTypeOK, ClerkRequest, Role, Idle, Start, GoTo, Done, At
  <2>4. invite' \in [Invite -> InviteRow]
    BY <1>14 DEF RemoveCommit, MembersTypeOK
  <2>5. robbed' \in BOOLEAN
    BY <1>14 DEF RemoveCommit, MembersTypeOK
  <2>6. \A q \in Person : role'[q] # "none" => q \in account'
    BY <1>14 DEF RemoveCommit, MembersTypeOK, ClerkRequest, Role, Idle, Start, GoTo, Done, At
  <2>7. \A j \in Invite : invite'[j].state # "none" => invite'[j].email # "none"
    BY <1>14 DEF RemoveCommit, MembersTypeOK, InviteRow, NoInvite, At, ClerkRequest
  <2>8. \A v \in Clerk : clerk'[v].op # "none" => clerk'[v].who # "none"
    BY <1>14 DEF RemoveCommit, MembersTypeOK, ClerkRequest, Role, Idle, Start, GoTo, Done, At
  <2>. QED
    BY <2>1, <2>2, <2>3, <2>4, <2>5, <2>6, <2>7, <2>8 DEF MembersTypeOK
<1>15. ASSUME NEW w \in Clerk, ClerkStops(w)
      PROVE  MembersTypeOK'
  BY <1>15 DEF ClerkStops, MembersTypeOK, ClerkRequest, Role, Idle, Start, GoTo, Done, At
<1>16. ASSUME NEW i \in Invite, RevokeInvitation(i)
      PROVE  MembersTypeOK'
  <2>1. clerk' \in [Clerk -> ClerkRequest]
    BY <1>16 DEF RevokeInvitation, MembersTypeOK, ClerkRequest, Role, Idle, Start, GoTo, Done, At
  <2>2. role' \in [Person -> Role \cup {"none"}]
    BY <1>16 DEF RevokeInvitation, MembersTypeOK, ClerkRequest, Role, Idle, Start, GoTo, Done, At
  <2>3. account' \subseteq Person /\ founders' \subseteq Person
    BY <1>16 DEF RevokeInvitation, MembersTypeOK, ClerkRequest, Role, Idle, Start, GoTo, Done, At
  <2>4. invite' \in [Invite -> InviteRow]
    BY <1>16, RowRevoked DEF RevokeInvitation, MembersTypeOK
  <2>5. robbed' \in BOOLEAN
    BY <1>16 DEF RevokeInvitation, MembersTypeOK
  <2>6. \A q \in Person : role'[q] # "none" => q \in account'
    BY <1>16 DEF RevokeInvitation, MembersTypeOK, ClerkRequest, Role, Idle, Start, GoTo, Done, At
  <2>7. \A j \in Invite : invite'[j].state # "none" => invite'[j].email # "none"
    BY <1>16 DEF RevokeInvitation, MembersTypeOK, InviteRow, NoInvite, At, ClerkRequest
  <2>8. \A v \in Clerk : clerk'[v].op # "none" => clerk'[v].who # "none"
    BY <1>16 DEF RevokeInvitation, MembersTypeOK, ClerkRequest, Role, Idle, Start, GoTo, Done, At
  <2>. QED
    BY <2>1, <2>2, <2>3, <2>4, <2>5, <2>6, <2>7, <2>8 DEF MembersTypeOK
<1>17. ASSUME NEW i \in Invite, ExpireInvitation(i)
      PROVE  MembersTypeOK'
  <2>1. clerk' \in [Clerk -> ClerkRequest]
    BY <1>17 DEF ExpireInvitation, MembersTypeOK, ClerkRequest, Role, Idle, Start, GoTo, Done, At
  <2>2. role' \in [Person -> Role \cup {"none"}]
    BY <1>17 DEF ExpireInvitation, MembersTypeOK, ClerkRequest, Role, Idle, Start, GoTo, Done, At
  <2>3. account' \subseteq Person /\ founders' \subseteq Person
    BY <1>17 DEF ExpireInvitation, MembersTypeOK, ClerkRequest, Role, Idle, Start, GoTo, Done, At
  <2>4. invite' \in [Invite -> InviteRow]
    BY <1>17 DEF ExpireInvitation, MembersTypeOK, InviteRow
  <2>5. robbed' \in BOOLEAN
    BY <1>17 DEF ExpireInvitation, MembersTypeOK
  <2>6. \A q \in Person : role'[q] # "none" => q \in account'
    BY <1>17 DEF ExpireInvitation, MembersTypeOK, ClerkRequest, Role, Idle, Start, GoTo, Done, At
  <2>7. \A j \in Invite : invite'[j].state # "none" => invite'[j].email # "none"
    BY <1>17 DEF ExpireInvitation, MembersTypeOK, InviteRow, NoInvite, At, ClerkRequest
  <2>8. \A v \in Clerk : clerk'[v].op # "none" => clerk'[v].who # "none"
    BY <1>17 DEF ExpireInvitation, MembersTypeOK, ClerkRequest, Role, Idle, Start, GoTo, Done, At
  <2>. QED
    BY <2>1, <2>2, <2>3, <2>4, <2>5, <2>6, <2>7, <2>8 DEF MembersTypeOK
<1>18. ASSUME NEW i \in Invite, NEW p \in Person, NEW r \in Role, CreateInvitation(i, p, r)
      PROVE  MembersTypeOK'
  <2>1. clerk' \in [Clerk -> ClerkRequest]
    BY <1>18 DEF CreateInvitation, MembersTypeOK, ClerkRequest, Role, Idle, Start, GoTo, Done, At
  <2>2. role' \in [Person -> Role \cup {"none"}]
    BY <1>18 DEF CreateInvitation, MembersTypeOK, ClerkRequest, Role, Idle, Start, GoTo, Done, At
  <2>3. account' \subseteq Person /\ founders' \subseteq Person
    BY <1>18 DEF CreateInvitation, MembersTypeOK, ClerkRequest, Role, Idle, Start, GoTo, Done, At
  <2>4. invite' \in [Invite -> InviteRow]
    BY <1>18, RowMade, RowRevoked DEF CreateInvitation, MembersTypeOK
  <2>5. robbed' \in BOOLEAN
    BY <1>18 DEF CreateInvitation, MembersTypeOK
  <2>6. \A q \in Person : role'[q] # "none" => q \in account'
    BY <1>18 DEF CreateInvitation, MembersTypeOK, ClerkRequest, Role, Idle, Start, GoTo, Done, At
  <2>7. \A j \in Invite : invite'[j].state # "none" => invite'[j].email # "none"
    BY <1>18 DEF CreateInvitation, MembersTypeOK, InviteRow, NoInvite, At, ClerkRequest
  <2>8. \A v \in Clerk : clerk'[v].op # "none" => clerk'[v].who # "none"
    BY <1>18 DEF CreateInvitation, MembersTypeOK, ClerkRequest, Role, Idle, Start, GoTo, Done, At
  <2>. QED
    BY <2>1, <2>2, <2>3, <2>4, <2>5, <2>6, <2>7, <2>8 DEF MembersTypeOK
<1>. QED
  BY <1>1, <1>2, <1>3, <1>4, <1>5, <1>6, <1>7, <1>8, <1>9, <1>10, <1>11,
     <1>12, <1>13, <1>14, <1>15, <1>16, <1>17, <1>18 DEF MembersNext

(* Every request, invitation, membership and account keeps its form, and a  *)
(* member has an account, whatever requests meet and wherever they stop.    *)
THEOREM MembersTypes == MembersSpec => []MembersTypeOK
  BY TypeInit, TypeStep, PTL DEF MembersSpec

----------------------------------------------------------------------------
LEMMA RolesInit == MembersInit => RolesInv
<1> SUFFICES ASSUME MembersInit PROVE RolesInv
  OBVIOUS
<1>1. MembersTypeOK
  BY TypeInit
<1>2. OneDisturbs /\ OneSetsUp /\ AnotherIsLeft /\ NobodyYet
  BY DEF MembersInit, Idle, OneDisturbs, OneSetsUp, AnotherIsLeft, NobodyYet, Disturbs
<1>3. LastAdmin /\ FoundedOnce
  BY DEF MembersInit, LastAdmin, FoundedOnce
<1>. QED
  BY <1>1, <1>2, <1>3 DEF RolesInv

LEMMA RolesStep == RolesInv /\ [MembersNext]_memberVars => RolesInv'
<1> SUFFICES ASSUME RolesInv, [MembersNext]_memberVars
             PROVE  OneDisturbs' /\ OneSetsUp' /\ AnotherIsLeft' /\ NobodyYet' /\ LastAdmin' /\ FoundedOnce'
  BY TypeStep DEF RolesInv
<1> USE MembersAssumption DEF RolesInv
<1>1. CASE UNCHANGED memberVars
  BY <1>1 DEF memberVars, OneDisturbs, OneSetsUp, Disturbs, AnotherIsLeft, NobodyYet, LastAdmin,
     FoundedOnce, Admins
<1>2. ASSUME NEW w \in Clerk, NEW p \in Person, SetupBegin(w, p)
      PROVE  OneDisturbs' /\ OneSetsUp' /\ AnotherIsLeft' /\ NobodyYet' /\ LastAdmin' /\ FoundedOnce'
  <2>1. OneDisturbs'
    BY <1>2 DEF SetupBegin, MembersTypeOK, ClerkRequest, Idle, Start, GoTo, Done, At, OneDisturbs, Disturbs
  <2>2. OneSetsUp'
    BY <1>2 DEF SetupBegin, MembersTypeOK, ClerkRequest, Idle, Start, GoTo, Done, At, OneSetsUp, SetupFree
  <2>3. AnotherIsLeft'
    BY <1>2 DEF SetupBegin, MembersTypeOK, ClerkRequest, Idle, Start, GoTo, Done, At, AnotherIsLeft, Disturbs, Admins
  <2>4. NobodyYet'
    BY <1>2 DEF SetupBegin, MembersTypeOK, ClerkRequest, Idle, Start, GoTo, Done, At, NobodyYet, LastAdmin, Admins
  <2>5. LastAdmin'
    BY <1>2 DEF SetupBegin, MembersTypeOK, ClerkRequest, Idle, Start, GoTo, Done, At, LastAdmin, Admins
  <2>6. FoundedOnce'
    BY <1>2 DEF SetupBegin, MembersTypeOK, ClerkRequest, Idle, Start, GoTo, Done, At, FoundedOnce
  <2>. QED
    BY <2>1, <2>2, <2>3, <2>4, <2>5, <2>6
<1>3. ASSUME NEW w \in Clerk, NEW p \in Person, RemoveBegin(w, p)
      PROVE  OneDisturbs' /\ OneSetsUp' /\ AnotherIsLeft' /\ NobodyYet' /\ LastAdmin' /\ FoundedOnce'
  <2>1. OneDisturbs'
    BY <1>3 DEF RemoveBegin, MembersTypeOK, ClerkRequest, Idle, Start, GoTo, Done, At, OneDisturbs, Disturbs, MembersFree
  <2>2. OneSetsUp'
    BY <1>3 DEF RemoveBegin, MembersTypeOK, ClerkRequest, Idle, Start, GoTo, Done, At, OneSetsUp
  <2>3. AnotherIsLeft'
    BY <1>3 DEF RemoveBegin, MembersTypeOK, ClerkRequest, Idle, Start, GoTo, Done, At, AnotherIsLeft, Disturbs, Admins, MembersFree, OneDisturbs
  <2>4. NobodyYet'
    BY <1>3 DEF RemoveBegin, MembersTypeOK, ClerkRequest, Idle, Start, GoTo, Done, At, NobodyYet
  <2>5. LastAdmin'
    BY <1>3 DEF RemoveBegin, MembersTypeOK, ClerkRequest, Idle, Start, GoTo, Done, At, LastAdmin, Admins
  <2>6. FoundedOnce'
    BY <1>3 DEF RemoveBegin, MembersTypeOK, ClerkRequest, Idle, Start, GoTo, Done, At, FoundedOnce
  <2>. QED
    BY <2>1, <2>2, <2>3, <2>4, <2>5, <2>6
<1>4. ASSUME NEW w \in Clerk, NEW p \in Person, NEW r \in Role, ChangeBegin(w, p, r)
      PROVE  OneDisturbs' /\ OneSetsUp' /\ AnotherIsLeft' /\ NobodyYet' /\ LastAdmin' /\ FoundedOnce'
  <2>1. OneDisturbs'
    BY <1>4 DEF ChangeBegin, MembersTypeOK, ClerkRequest, Idle, Start, GoTo, Done, At, OneDisturbs, Disturbs, MembersFree
  <2>2. OneSetsUp'
    BY <1>4 DEF ChangeBegin, MembersTypeOK, ClerkRequest, Idle, Start, GoTo, Done, At, OneSetsUp
  <2>3. AnotherIsLeft'
    BY <1>4 DEF ChangeBegin, MembersTypeOK, ClerkRequest, Idle, Start, GoTo, Done, At, AnotherIsLeft, Disturbs, Admins, MembersFree, NotTheLast, Role, OneDisturbs
  <2>4. NobodyYet'
    BY <1>4 DEF ChangeBegin, MembersTypeOK, ClerkRequest, Idle, Start, GoTo, Done, At, NobodyYet
  <2>5. LastAdmin'
    BY <1>4 DEF ChangeBegin, MembersTypeOK, ClerkRequest, Idle, Start, GoTo, Done, At, LastAdmin, Admins
  <2>6. FoundedOnce'
    BY <1>4 DEF ChangeBegin, MembersTypeOK, ClerkRequest, Idle, Start, GoTo, Done, At, FoundedOnce
  <2>. QED
    BY <2>1, <2>2, <2>3, <2>4, <2>5, <2>6
<1>5. ASSUME NEW w \in Clerk, NEW i \in Invite, AcceptBegin(w, i)
      PROVE  OneDisturbs' /\ OneSetsUp' /\ AnotherIsLeft' /\ NobodyYet' /\ LastAdmin' /\ FoundedOnce'
  <2>1. OneDisturbs'
    BY <1>5 DEF AcceptBegin, MembersTypeOK, ClerkRequest, Idle, Start, GoTo, Done, At, OneDisturbs, Disturbs
  <2>2. OneSetsUp'
    BY <1>5 DEF AcceptBegin, MembersTypeOK, ClerkRequest, Idle, Start, GoTo, Done, At, OneSetsUp
  <2>3. AnotherIsLeft'
    BY <1>5 DEF AcceptBegin, MembersTypeOK, ClerkRequest, Idle, Start, GoTo, Done, At, AnotherIsLeft, Disturbs, Admins
  <2>4. NobodyYet'
    BY <1>5 DEF AcceptBegin, MembersTypeOK, ClerkRequest, Idle, Start, GoTo, Done, At, NobodyYet
  <2>5. LastAdmin'
    BY <1>5 DEF AcceptBegin, MembersTypeOK, ClerkRequest, Idle, Start, GoTo, Done, At, LastAdmin, Admins
  <2>6. FoundedOnce'
    BY <1>5 DEF AcceptBegin, MembersTypeOK, ClerkRequest, Idle, Start, GoTo, Done, At, FoundedOnce
  <2>. QED
    BY <2>1, <2>2, <2>3, <2>4, <2>5, <2>6
<1>6. ASSUME NEW w \in Clerk, SignUp(w)
      PROVE  OneDisturbs' /\ OneSetsUp' /\ AnotherIsLeft' /\ NobodyYet' /\ LastAdmin' /\ FoundedOnce'
  <2>1. OneDisturbs'
    BY <1>6 DEF SignUp, MembersTypeOK, ClerkRequest, Idle, Start, GoTo, Done, At, OneDisturbs, Disturbs
  <2>2. OneSetsUp'
    BY <1>6 DEF SignUp, MembersTypeOK, ClerkRequest, Idle, Start, GoTo, Done, At, OneSetsUp
  <2>3. AnotherIsLeft'
    BY <1>6 DEF SignUp, MembersTypeOK, ClerkRequest, Idle, Start, GoTo, Done, At, AnotherIsLeft, Disturbs, Admins
  <2>4. NobodyYet'
    BY <1>6 DEF SignUp, MembersTypeOK, ClerkRequest, Idle, Start, GoTo, Done, At, NobodyYet
  <2>5. LastAdmin'
    BY <1>6 DEF SignUp, MembersTypeOK, ClerkRequest, Idle, Start, GoTo, Done, At, LastAdmin, Admins
  <2>6. FoundedOnce'
    BY <1>6 DEF SignUp, MembersTypeOK, ClerkRequest, Idle, Start, GoTo, Done, At, FoundedOnce
  <2>. QED
    BY <2>1, <2>2, <2>3, <2>4, <2>5, <2>6
<1>7. ASSUME NEW w \in Clerk, SetupJoin(w)
      PROVE  OneDisturbs' /\ OneSetsUp' /\ AnotherIsLeft' /\ NobodyYet' /\ LastAdmin' /\ FoundedOnce'
  <2>1. OneDisturbs'
    BY <1>7 DEF SetupJoin, MembersTypeOK, ClerkRequest, Idle, Start, GoTo, Done, At, OneDisturbs, Disturbs
  <2>2. OneSetsUp'
    BY <1>7 DEF SetupJoin, MembersTypeOK, ClerkRequest, Idle, Start, GoTo, Done, At, OneSetsUp
  <2>3. AnotherIsLeft'
    BY <1>7 DEF SetupJoin, MembersTypeOK, ClerkRequest, Idle, Start, GoTo, Done, At, AnotherIsLeft, Disturbs, Admins
  <2>4. NobodyYet'
    BY <1>7 DEF SetupJoin, MembersTypeOK, ClerkRequest, Idle, Start, GoTo, Done, At, NobodyYet, OneSetsUp
  <2>5. LastAdmin'
    BY <1>7 DEF SetupJoin, MembersTypeOK, ClerkRequest, Idle, Start, GoTo, Done, At, LastAdmin, Admins
  <2>6. FoundedOnce'
    BY <1>7 DEF SetupJoin, MembersTypeOK, ClerkRequest, Idle, Start, GoTo, Done, At, FoundedOnce, NobodyYet
  <2>. QED
    BY <2>1, <2>2, <2>3, <2>4, <2>5, <2>6
<1>8. ASSUME NEW w \in Clerk, AcceptClaim(w)
      PROVE  OneDisturbs' /\ OneSetsUp' /\ AnotherIsLeft' /\ NobodyYet' /\ LastAdmin' /\ FoundedOnce'
  <2>1. OneDisturbs'
    BY <1>8 DEF AcceptClaim, MembersTypeOK, ClerkRequest, Idle, Start, GoTo, Done, At, OneDisturbs, Disturbs
  <2>2. OneSetsUp'
    BY <1>8 DEF AcceptClaim, MembersTypeOK, ClerkRequest, Idle, Start, GoTo, Done, At, OneSetsUp
  <2>3. AnotherIsLeft'
    BY <1>8 DEF AcceptClaim, MembersTypeOK, ClerkRequest, Idle, Start, GoTo, Done, At, AnotherIsLeft, Disturbs, Admins
  <2>4. NobodyYet'
    BY <1>8 DEF AcceptClaim, MembersTypeOK, ClerkRequest, Idle, Start, GoTo, Done, At, NobodyYet
  <2>5. LastAdmin'
    BY <1>8 DEF AcceptClaim, MembersTypeOK, ClerkRequest, Idle, Start, GoTo, Done, At, LastAdmin, Admins
  <2>6. FoundedOnce'
    BY <1>8 DEF AcceptClaim, MembersTypeOK, ClerkRequest, Idle, Start, GoTo, Done, At, FoundedOnce
  <2>. QED
    BY <2>1, <2>2, <2>3, <2>4, <2>5, <2>6
<1>9. ASSUME NEW w \in Clerk, AcceptJoin(w)
      PROVE  OneDisturbs' /\ OneSetsUp' /\ AnotherIsLeft' /\ NobodyYet' /\ LastAdmin' /\ FoundedOnce'
  <2>1. OneDisturbs'
    BY <1>9 DEF AcceptJoin, MembersTypeOK, ClerkRequest, Idle, Start, GoTo, Done, At, OneDisturbs, Disturbs
  <2>2. OneSetsUp'
    BY <1>9 DEF AcceptJoin, MembersTypeOK, ClerkRequest, Idle, Start, GoTo, Done, At, OneSetsUp
  <2>3. AnotherIsLeft'
    BY <1>9 DEF AcceptJoin, MembersTypeOK, ClerkRequest, Idle, Start, GoTo, Done, At, AnotherIsLeft, Disturbs, Admins
  <2>4. NobodyYet'
    BY <1>9 DEF AcceptJoin, MembersTypeOK, ClerkRequest, Idle, Start, GoTo, Done, At, NobodyYet
  <2>5. LastAdmin'
    BY <1>9 DEF AcceptJoin, MembersTypeOK, ClerkRequest, Idle, Start, GoTo, Done, At, LastAdmin, Admins
  <2>6. FoundedOnce'
    BY <1>9 DEF AcceptJoin, MembersTypeOK, ClerkRequest, Idle, Start, GoTo, Done, At, FoundedOnce
  <2>. QED
    BY <2>1, <2>2, <2>3, <2>4, <2>5, <2>6
<1>10. ASSUME NEW w \in Clerk, JoinAsMember(w)
      PROVE  OneDisturbs' /\ OneSetsUp' /\ AnotherIsLeft' /\ NobodyYet' /\ LastAdmin' /\ FoundedOnce'
  <2>1. OneDisturbs'
    BY <1>10 DEF JoinAsMember, MembersTypeOK, ClerkRequest, Idle, Start, GoTo, Done, At, OneDisturbs, Disturbs
  <2>2. OneSetsUp'
    BY <1>10 DEF JoinAsMember, MembersTypeOK, ClerkRequest, Idle, Start, GoTo, Done, At, OneSetsUp
  <2>3. AnotherIsLeft'
    BY <1>10 DEF JoinAsMember, MembersTypeOK, ClerkRequest, Idle, Start, GoTo, Done, At, AnotherIsLeft, Disturbs, Admins
  <2>4. NobodyYet'
    BY <1>10 DEF JoinAsMember, MembersTypeOK, ClerkRequest, Idle, Start, GoTo, Done, At, NobodyYet
  <2>5. LastAdmin'
    BY <1>10 DEF JoinAsMember, MembersTypeOK, ClerkRequest, Idle, Start, GoTo, Done, At, LastAdmin, Admins
  <2>6. FoundedOnce'
    BY <1>10 DEF JoinAsMember, MembersTypeOK, ClerkRequest, Idle, Start, GoTo, Done, At, FoundedOnce
  <2>. QED
    BY <2>1, <2>2, <2>3, <2>4, <2>5, <2>6
<1>11. ASSUME NEW w \in Clerk, UndoAccount(w)
      PROVE  OneDisturbs' /\ OneSetsUp' /\ AnotherIsLeft' /\ NobodyYet' /\ LastAdmin' /\ FoundedOnce'
  <2>1. OneDisturbs'
    BY <1>11 DEF UndoAccount, MembersTypeOK, ClerkRequest, Idle, Start, GoTo, Done, At, OneDisturbs, Disturbs
  <2>2. OneSetsUp'
    BY <1>11 DEF UndoAccount, MembersTypeOK, ClerkRequest, Idle, Start, GoTo, Done, At, OneSetsUp
  <2>3. AnotherIsLeft'
    <3> SUFFICES ASSUME ~robbed', NEW v \in Clerk, Disturbs(v)'
                 PROVE  \/ clerk'[v].op = "change" /\ clerk'[v].role = "admin"
                        \/ \E q \in Admins' : q # clerk'[v].who
      BY DEF AnotherIsLeft
    <3>1. ~robbed /\ role' = role
      BY <1>11 DEF UndoAccount, MembersTypeOK
    <3>2. clerk'[v].op = clerk[v].op /\ clerk'[v].who = clerk[v].who /\ clerk'[v].role = clerk[v].role
      <4>1. CASE v = w
        BY <4>1, <1>11 DEF UndoAccount, MembersTypeOK, ClerkRequest, Idle, Start, GoTo, Done, At, Disturbs
      <4>2. CASE v # w
        BY <4>2, <1>11 DEF UndoAccount, MembersTypeOK, ClerkRequest, Idle, Start, GoTo, Done, At
      <4>. QED
        BY <4>1, <4>2
    <3>. QED
      BY <3>1, <3>2 DEF AnotherIsLeft, Admins, Disturbs
  <2>4. NobodyYet'
    BY <1>11 DEF UndoAccount, MembersTypeOK, ClerkRequest, Idle, Start, GoTo, Done, At, NobodyYet
  <2>5. LastAdmin'
    BY <1>11 DEF UndoAccount, MembersTypeOK, ClerkRequest, Idle, Start, GoTo, Done, At, LastAdmin, Admins
  <2>6. FoundedOnce'
    BY <1>11 DEF UndoAccount, MembersTypeOK, ClerkRequest, Idle, Start, GoTo, Done, At, FoundedOnce
  <2>. QED
    BY <2>1, <2>2, <2>3, <2>4, <2>5, <2>6
<1>12. ASSUME NEW w \in Clerk, Release(w)
      PROVE  OneDisturbs' /\ OneSetsUp' /\ AnotherIsLeft' /\ NobodyYet' /\ LastAdmin' /\ FoundedOnce'
  <2>1. OneDisturbs'
    BY <1>12 DEF Release, MembersTypeOK, ClerkRequest, Idle, Start, GoTo, Done, At, OneDisturbs, Disturbs
  <2>2. OneSetsUp'
    BY <1>12 DEF Release, MembersTypeOK, ClerkRequest, Idle, Start, GoTo, Done, At, OneSetsUp
  <2>3. AnotherIsLeft'
    BY <1>12 DEF Release, MembersTypeOK, ClerkRequest, Idle, Start, GoTo, Done, At, AnotherIsLeft, Disturbs, Admins
  <2>4. NobodyYet'
    BY <1>12 DEF Release, MembersTypeOK, ClerkRequest, Idle, Start, GoTo, Done, At, NobodyYet
  <2>5. LastAdmin'
    BY <1>12 DEF Release, MembersTypeOK, ClerkRequest, Idle, Start, GoTo, Done, At, LastAdmin, Admins
  <2>6. FoundedOnce'
    BY <1>12 DEF Release, MembersTypeOK, ClerkRequest, Idle, Start, GoTo, Done, At, FoundedOnce
  <2>. QED
    BY <2>1, <2>2, <2>3, <2>4, <2>5, <2>6
<1>13. ASSUME NEW w \in Clerk, ChangeCommit(w)
      PROVE  OneDisturbs' /\ OneSetsUp' /\ AnotherIsLeft' /\ NobodyYet' /\ LastAdmin' /\ FoundedOnce'
  <2>1. OneDisturbs'
    BY <1>13 DEF ChangeCommit, MembersTypeOK, ClerkRequest, Idle, Start, GoTo, Done, At, OneDisturbs, Disturbs
  <2>2. OneSetsUp'
    BY <1>13 DEF ChangeCommit, MembersTypeOK, ClerkRequest, Idle, Start, GoTo, Done, At, OneSetsUp
  <2>3. AnotherIsLeft'
    BY <1>13 DEF ChangeCommit, MembersTypeOK, ClerkRequest, Idle, Start, GoTo, Done, At, AnotherIsLeft, Disturbs, Admins, OneDisturbs, Role
  <2>4. NobodyYet'
    BY <1>13 DEF ChangeCommit, MembersTypeOK, ClerkRequest, Idle, Start, GoTo, Done, At, NobodyYet
  <2>5. LastAdmin'
    BY <1>13 DEF ChangeCommit, MembersTypeOK, ClerkRequest, Idle, Start, GoTo, Done, At, LastAdmin, Admins, AnotherIsLeft, Disturbs, Role
  <2>6. FoundedOnce'
    BY <1>13 DEF ChangeCommit, MembersTypeOK, ClerkRequest, Idle, Start, GoTo, Done, At, FoundedOnce
  <2>. QED
    BY <2>1, <2>2, <2>3, <2>4, <2>5, <2>6
<1>14. ASSUME NEW w \in Clerk, RemoveCommit(w)
      PROVE  OneDisturbs' /\ OneSetsUp' /\ AnotherIsLeft' /\ NobodyYet' /\ LastAdmin' /\ FoundedOnce'
  <2>1. OneDisturbs'
    BY <1>14 DEF RemoveCommit, MembersTypeOK, ClerkRequest, Idle, Start, GoTo, Done, At, OneDisturbs, Disturbs
  <2>2. OneSetsUp'
    BY <1>14 DEF RemoveCommit, MembersTypeOK, ClerkRequest, Idle, Start, GoTo, Done, At, OneSetsUp
  <2>3. AnotherIsLeft'
    BY <1>14 DEF RemoveCommit, MembersTypeOK, ClerkRequest, Idle, Start, GoTo, Done, At, AnotherIsLeft, Disturbs, Admins, OneDisturbs
  <2>4. NobodyYet'
    BY <1>14 DEF RemoveCommit, MembersTypeOK, ClerkRequest, Idle, Start, GoTo, Done, At, NobodyYet
  <2>5. LastAdmin'
    BY <1>14 DEF RemoveCommit, MembersTypeOK, ClerkRequest, Idle, Start, GoTo, Done, At, LastAdmin, Admins, AnotherIsLeft, Disturbs, Role
  <2>6. FoundedOnce'
    BY <1>14 DEF RemoveCommit, MembersTypeOK, ClerkRequest, Idle, Start, GoTo, Done, At, FoundedOnce
  <2>. QED
    BY <2>1, <2>2, <2>3, <2>4, <2>5, <2>6
<1>15. ASSUME NEW w \in Clerk, ClerkStops(w)
      PROVE  OneDisturbs' /\ OneSetsUp' /\ AnotherIsLeft' /\ NobodyYet' /\ LastAdmin' /\ FoundedOnce'
  <2>1. OneDisturbs'
    BY <1>15 DEF ClerkStops, MembersTypeOK, ClerkRequest, Idle, Start, GoTo, Done, At, OneDisturbs, Disturbs
  <2>2. OneSetsUp'
    BY <1>15 DEF ClerkStops, MembersTypeOK, ClerkRequest, Idle, Start, GoTo, Done, At, OneSetsUp
  <2>3. AnotherIsLeft'
    BY <1>15 DEF ClerkStops, MembersTypeOK, ClerkRequest, Idle, Start, GoTo, Done, At, AnotherIsLeft, Disturbs, Admins
  <2>4. NobodyYet'
    BY <1>15 DEF ClerkStops, MembersTypeOK, ClerkRequest, Idle, Start, GoTo, Done, At, NobodyYet
  <2>5. LastAdmin'
    BY <1>15 DEF ClerkStops, MembersTypeOK, ClerkRequest, Idle, Start, GoTo, Done, At, LastAdmin, Admins
  <2>6. FoundedOnce'
    BY <1>15 DEF ClerkStops, MembersTypeOK, ClerkRequest, Idle, Start, GoTo, Done, At, FoundedOnce
  <2>. QED
    BY <2>1, <2>2, <2>3, <2>4, <2>5, <2>6
<1>16. ASSUME NEW i \in Invite, RevokeInvitation(i)
      PROVE  OneDisturbs' /\ OneSetsUp' /\ AnotherIsLeft' /\ NobodyYet' /\ LastAdmin' /\ FoundedOnce'
  <2>1. OneDisturbs'
    BY <1>16 DEF RevokeInvitation, MembersTypeOK, ClerkRequest, Idle, Start, GoTo, Done, At, OneDisturbs, Disturbs
  <2>2. OneSetsUp'
    BY <1>16 DEF RevokeInvitation, MembersTypeOK, ClerkRequest, Idle, Start, GoTo, Done, At, OneSetsUp
  <2>3. AnotherIsLeft'
    BY <1>16 DEF RevokeInvitation, MembersTypeOK, ClerkRequest, Idle, Start, GoTo, Done, At, AnotherIsLeft, Disturbs, Admins
  <2>4. NobodyYet'
    BY <1>16 DEF RevokeInvitation, MembersTypeOK, ClerkRequest, Idle, Start, GoTo, Done, At, NobodyYet
  <2>5. LastAdmin'
    BY <1>16 DEF RevokeInvitation, MembersTypeOK, ClerkRequest, Idle, Start, GoTo, Done, At, LastAdmin, Admins
  <2>6. FoundedOnce'
    BY <1>16 DEF RevokeInvitation, MembersTypeOK, ClerkRequest, Idle, Start, GoTo, Done, At, FoundedOnce
  <2>. QED
    BY <2>1, <2>2, <2>3, <2>4, <2>5, <2>6
<1>17. ASSUME NEW i \in Invite, ExpireInvitation(i)
      PROVE  OneDisturbs' /\ OneSetsUp' /\ AnotherIsLeft' /\ NobodyYet' /\ LastAdmin' /\ FoundedOnce'
  <2>1. OneDisturbs'
    BY <1>17 DEF ExpireInvitation, MembersTypeOK, ClerkRequest, Idle, Start, GoTo, Done, At, OneDisturbs, Disturbs
  <2>2. OneSetsUp'
    BY <1>17 DEF ExpireInvitation, MembersTypeOK, ClerkRequest, Idle, Start, GoTo, Done, At, OneSetsUp
  <2>3. AnotherIsLeft'
    BY <1>17 DEF ExpireInvitation, MembersTypeOK, ClerkRequest, Idle, Start, GoTo, Done, At, AnotherIsLeft, Disturbs, Admins
  <2>4. NobodyYet'
    BY <1>17 DEF ExpireInvitation, MembersTypeOK, ClerkRequest, Idle, Start, GoTo, Done, At, NobodyYet
  <2>5. LastAdmin'
    BY <1>17 DEF ExpireInvitation, MembersTypeOK, ClerkRequest, Idle, Start, GoTo, Done, At, LastAdmin, Admins
  <2>6. FoundedOnce'
    BY <1>17 DEF ExpireInvitation, MembersTypeOK, ClerkRequest, Idle, Start, GoTo, Done, At, FoundedOnce
  <2>. QED
    BY <2>1, <2>2, <2>3, <2>4, <2>5, <2>6
<1>18. ASSUME NEW i \in Invite, NEW p \in Person, NEW r \in Role, CreateInvitation(i, p, r)
      PROVE  OneDisturbs' /\ OneSetsUp' /\ AnotherIsLeft' /\ NobodyYet' /\ LastAdmin' /\ FoundedOnce'
  <2>1. OneDisturbs'
    BY <1>18 DEF CreateInvitation, MembersTypeOK, ClerkRequest, Idle, Start, GoTo, Done, At, OneDisturbs, Disturbs
  <2>2. OneSetsUp'
    BY <1>18 DEF CreateInvitation, MembersTypeOK, ClerkRequest, Idle, Start, GoTo, Done, At, OneSetsUp
  <2>3. AnotherIsLeft'
    BY <1>18 DEF CreateInvitation, MembersTypeOK, ClerkRequest, Idle, Start, GoTo, Done, At, AnotherIsLeft, Disturbs, Admins
  <2>4. NobodyYet'
    BY <1>18 DEF CreateInvitation, MembersTypeOK, ClerkRequest, Idle, Start, GoTo, Done, At, NobodyYet
  <2>5. LastAdmin'
    BY <1>18 DEF CreateInvitation, MembersTypeOK, ClerkRequest, Idle, Start, GoTo, Done, At, LastAdmin, Admins
  <2>6. FoundedOnce'
    BY <1>18 DEF CreateInvitation, MembersTypeOK, ClerkRequest, Idle, Start, GoTo, Done, At, FoundedOnce
  <2>. QED
    BY <2>1, <2>2, <2>3, <2>4, <2>5, <2>6
<1>. QED
  BY <1>1, <1>2, <1>3, <1>4, <1>5, <1>6, <1>7, <1>8, <1>9, <1>10, <1>11,
     <1>12, <1>13, <1>14, <1>15, <1>16, <1>17, <1>18 DEF MembersNext

(* One request at a time changes roles and sees who stays: what the last   *)
(* administrator and the first one rest on.                                *)
THEOREM RolesHold == MembersSpec => []RolesInv
  BY RolesInit, RolesStep, PTL DEF MembersSpec

(* Once there has been an administrator there is always one, however role  *)
(* changes and removals meet, unless a failed acceptance has deleted the   *)
(* account of somebody who had joined by another link.                     *)
THEOREM NeverWithoutAnAdmin == MembersSpec => []LastAdmin
<1>1. RolesInv => LastAdmin
  BY DEF RolesInv
<1>. QED
  BY <1>1, RolesHold, PTL

(* One person at most becomes a member through /setup, with the same       *)
(* reserve.                                                                *)
THEOREM OneFounder == MembersSpec => []FoundedOnce
<1>1. RolesInv => FoundedOnce
  BY DEF RolesInv
<1>. QED
  BY <1>1, RolesHold, PTL

----------------------------------------------------------------------------
LEMMA LinksInit == MembersInit => LinksInv
<1> SUFFICES ASSUME MembersInit PROVE LinksInv
  OBVIOUS
<1>1. MembersTypeOK
  BY TypeInit
<1>. QED
  BY <1>1 DEF MembersInit, LinksInv, LinksOK, Holds, Idle, NoInvite

LEMMA LinksStep == LinksInv /\ [MembersNext]_memberVars => LinksInv'
<1> SUFFICES ASSUME LinksInv, [MembersNext]_memberVars PROVE LinksOK'
  BY TypeStep DEF LinksInv
<1> USE MembersAssumption DEF LinksInv, LinksOK
<1>1. CASE UNCHANGED memberVars
  BY <1>1 DEF memberVars, Holds
<1>2. ASSUME NEW w \in Clerk, NEW p \in Person, SetupBegin(w, p)
      PROVE  LinksOK'
  <2>1. \A v \in Clerk : clerk'[v].link # "none" => invite'[clerk'[v].link].state # "none"
    BY <1>2 DEF SetupBegin, MembersTypeOK, ClerkRequest, Idle, Start, GoTo, Done, At
  <2>2. \A j \in Invite, u, v \in Clerk : Holds(u, j)' /\ Holds(v, j)' => u = v
    BY <1>2 DEF SetupBegin, MembersTypeOK, ClerkRequest, Idle, Start, GoTo, Done, At, Holds
  <2>3. \A j \in Invite, v \in Clerk : Holds(v, j)' => invite'[j].accepted /\ invite'[j].joins = 0
    BY <1>2 DEF SetupBegin, MembersTypeOK, ClerkRequest, Idle, Start, GoTo, Done, At, Holds
  <2>4. \A j \in Invite : (~invite'[j].accepted => invite'[j].joins = 0) /\ invite'[j].joins =< 1
    BY <1>2 DEF SetupBegin, MembersTypeOK, ClerkRequest, Idle, Start, GoTo, Done, At, Holds
  <2>. QED
    BY <2>1, <2>2, <2>3, <2>4
<1>3. ASSUME NEW w \in Clerk, NEW p \in Person, RemoveBegin(w, p)
      PROVE  LinksOK'
  <2>1. \A v \in Clerk : clerk'[v].link # "none" => invite'[clerk'[v].link].state # "none"
    BY <1>3 DEF RemoveBegin, MembersTypeOK, ClerkRequest, Idle, Start, GoTo, Done, At
  <2>2. \A j \in Invite, u, v \in Clerk : Holds(u, j)' /\ Holds(v, j)' => u = v
    BY <1>3 DEF RemoveBegin, MembersTypeOK, ClerkRequest, Idle, Start, GoTo, Done, At, Holds
  <2>3. \A j \in Invite, v \in Clerk : Holds(v, j)' => invite'[j].accepted /\ invite'[j].joins = 0
    BY <1>3 DEF RemoveBegin, MembersTypeOK, ClerkRequest, Idle, Start, GoTo, Done, At, Holds
  <2>4. \A j \in Invite : (~invite'[j].accepted => invite'[j].joins = 0) /\ invite'[j].joins =< 1
    BY <1>3 DEF RemoveBegin, MembersTypeOK, ClerkRequest, Idle, Start, GoTo, Done, At, Holds
  <2>. QED
    BY <2>1, <2>2, <2>3, <2>4
<1>4. ASSUME NEW w \in Clerk, NEW p \in Person, NEW r \in Role, ChangeBegin(w, p, r)
      PROVE  LinksOK'
  <2>1. \A v \in Clerk : clerk'[v].link # "none" => invite'[clerk'[v].link].state # "none"
    BY <1>4 DEF ChangeBegin, MembersTypeOK, ClerkRequest, Idle, Start, GoTo, Done, At
  <2>2. \A j \in Invite, u, v \in Clerk : Holds(u, j)' /\ Holds(v, j)' => u = v
    BY <1>4 DEF ChangeBegin, MembersTypeOK, ClerkRequest, Idle, Start, GoTo, Done, At, Holds
  <2>3. \A j \in Invite, v \in Clerk : Holds(v, j)' => invite'[j].accepted /\ invite'[j].joins = 0
    BY <1>4 DEF ChangeBegin, MembersTypeOK, ClerkRequest, Idle, Start, GoTo, Done, At, Holds
  <2>4. \A j \in Invite : (~invite'[j].accepted => invite'[j].joins = 0) /\ invite'[j].joins =< 1
    BY <1>4 DEF ChangeBegin, MembersTypeOK, ClerkRequest, Idle, Start, GoTo, Done, At, Holds
  <2>. QED
    BY <2>1, <2>2, <2>3, <2>4
<1>5. ASSUME NEW w \in Clerk, NEW i \in Invite, AcceptBegin(w, i)
      PROVE  LinksOK'
  <2>1. \A v \in Clerk : clerk'[v].link # "none" => invite'[clerk'[v].link].state # "none"
    BY <1>5 DEF AcceptBegin, MembersTypeOK, ClerkRequest, Idle, Start, GoTo, Done, At
  <2>2. \A j \in Invite, u, v \in Clerk : Holds(u, j)' /\ Holds(v, j)' => u = v
    BY <1>5 DEF AcceptBegin, MembersTypeOK, ClerkRequest, Idle, Start, GoTo, Done, At, Holds
  <2>3. \A j \in Invite, v \in Clerk : Holds(v, j)' => invite'[j].accepted /\ invite'[j].joins = 0
    BY <1>5 DEF AcceptBegin, MembersTypeOK, ClerkRequest, Idle, Start, GoTo, Done, At, Holds
  <2>4. \A j \in Invite : (~invite'[j].accepted => invite'[j].joins = 0) /\ invite'[j].joins =< 1
    BY <1>5 DEF AcceptBegin, MembersTypeOK, ClerkRequest, Idle, Start, GoTo, Done, At, Holds
  <2>. QED
    BY <2>1, <2>2, <2>3, <2>4
<1>6. ASSUME NEW w \in Clerk, SignUp(w)
      PROVE  LinksOK'
  <2>1. \A v \in Clerk : clerk'[v].link # "none" => invite'[clerk'[v].link].state # "none"
    BY <1>6 DEF SignUp, MembersTypeOK, ClerkRequest, Idle, Start, GoTo, Done, At
  <2>2. \A j \in Invite, u, v \in Clerk : Holds(u, j)' /\ Holds(v, j)' => u = v
    BY <1>6 DEF SignUp, MembersTypeOK, ClerkRequest, Idle, Start, GoTo, Done, At, Holds
  <2>3. \A j \in Invite, v \in Clerk : Holds(v, j)' => invite'[j].accepted /\ invite'[j].joins = 0
    BY <1>6 DEF SignUp, MembersTypeOK, ClerkRequest, Idle, Start, GoTo, Done, At, Holds
  <2>4. \A j \in Invite : (~invite'[j].accepted => invite'[j].joins = 0) /\ invite'[j].joins =< 1
    BY <1>6 DEF SignUp, MembersTypeOK, ClerkRequest, Idle, Start, GoTo, Done, At, Holds
  <2>. QED
    BY <2>1, <2>2, <2>3, <2>4
<1>7. ASSUME NEW w \in Clerk, SetupJoin(w)
      PROVE  LinksOK'
  <2>1. \A v \in Clerk : clerk'[v].link # "none" => invite'[clerk'[v].link].state # "none"
    BY <1>7 DEF SetupJoin, MembersTypeOK, ClerkRequest, Idle, Start, GoTo, Done, At
  <2>2. \A j \in Invite, u, v \in Clerk : Holds(u, j)' /\ Holds(v, j)' => u = v
    BY <1>7 DEF SetupJoin, MembersTypeOK, ClerkRequest, Idle, Start, GoTo, Done, At, Holds
  <2>3. \A j \in Invite, v \in Clerk : Holds(v, j)' => invite'[j].accepted /\ invite'[j].joins = 0
    BY <1>7 DEF SetupJoin, MembersTypeOK, ClerkRequest, Idle, Start, GoTo, Done, At, Holds
  <2>4. \A j \in Invite : (~invite'[j].accepted => invite'[j].joins = 0) /\ invite'[j].joins =< 1
    BY <1>7 DEF SetupJoin, MembersTypeOK, ClerkRequest, Idle, Start, GoTo, Done, At, Holds
  <2>. QED
    BY <2>1, <2>2, <2>3, <2>4
<1>8. ASSUME NEW w \in Clerk, AcceptClaim(w)
      PROVE  LinksOK'
  <2>1. \A v \in Clerk : clerk'[v].link # "none" => invite'[clerk'[v].link].state # "none"
    BY <1>8 DEF AcceptClaim, MembersTypeOK, ClerkRequest, Idle, Start, GoTo, Done, At, InviteRow, Claimable, Unclaimed
  <2>2. \A j \in Invite, u, v \in Clerk : Holds(u, j)' /\ Holds(v, j)' => u = v
    BY <1>8 DEF AcceptClaim, MembersTypeOK, ClerkRequest, Idle, Start, GoTo, Done, At, Holds, Claimable, Unclaimed
  <2>3. \A j \in Invite, v \in Clerk : Holds(v, j)' => invite'[j].accepted /\ invite'[j].joins = 0
    BY <1>8 DEF AcceptClaim, MembersTypeOK, ClerkRequest, Idle, Start, GoTo, Done, At, Holds, InviteRow, Claimable, Unclaimed
  <2>4. \A j \in Invite : (~invite'[j].accepted => invite'[j].joins = 0) /\ invite'[j].joins =< 1
    BY <1>8 DEF AcceptClaim, MembersTypeOK, ClerkRequest, Idle, Start, GoTo, Done, At, Holds, InviteRow, Claimable, Unclaimed
  <2>. QED
    BY <2>1, <2>2, <2>3, <2>4
<1>9. ASSUME NEW w \in Clerk, AcceptJoin(w)
      PROVE  LinksOK'
  <2>1. \A v \in Clerk : clerk'[v].link # "none" => invite'[clerk'[v].link].state # "none"
    BY <1>9 DEF AcceptJoin, MembersTypeOK, ClerkRequest, Idle, Start, GoTo, Done, At, InviteRow
  <2>2. \A j \in Invite, u, v \in Clerk : Holds(u, j)' /\ Holds(v, j)' => u = v
    BY <1>9 DEF AcceptJoin, MembersTypeOK, ClerkRequest, Idle, Start, GoTo, Done, At, Holds
  <2>3. \A j \in Invite, v \in Clerk : Holds(v, j)' => invite'[j].accepted /\ invite'[j].joins = 0
    BY <1>9 DEF AcceptJoin, MembersTypeOK, ClerkRequest, Idle, Start, GoTo, Done, At, Holds, InviteRow
  <2>4. \A j \in Invite : (~invite'[j].accepted => invite'[j].joins = 0) /\ invite'[j].joins =< 1
    BY <1>9 DEF AcceptJoin, MembersTypeOK, ClerkRequest, Idle, Start, GoTo, Done, At, Holds, InviteRow
  <2>. QED
    BY <2>1, <2>2, <2>3, <2>4
<1>10. ASSUME NEW w \in Clerk, JoinAsMember(w)
      PROVE  LinksOK'
  <2>1. \A v \in Clerk : clerk'[v].link # "none" => invite'[clerk'[v].link].state # "none"
    BY <1>10 DEF JoinAsMember, MembersTypeOK, ClerkRequest, Idle, Start, GoTo, Done, At, InviteRow, Claimable, Unclaimed
  <2>2. \A j \in Invite, u, v \in Clerk : Holds(u, j)' /\ Holds(v, j)' => u = v
    BY <1>10 DEF JoinAsMember, MembersTypeOK, ClerkRequest, Idle, Start, GoTo, Done, At, Holds
  <2>3. \A j \in Invite, v \in Clerk : Holds(v, j)' => invite'[j].accepted /\ invite'[j].joins = 0
    BY <1>10 DEF JoinAsMember, MembersTypeOK, ClerkRequest, Idle, Start, GoTo, Done, At, Holds, InviteRow, Claimable, Unclaimed
  <2>4. \A j \in Invite : (~invite'[j].accepted => invite'[j].joins = 0) /\ invite'[j].joins =< 1
    BY <1>10 DEF JoinAsMember, MembersTypeOK, ClerkRequest, Idle, Start, GoTo, Done, At, Holds, InviteRow, Claimable, Unclaimed
  <2>. QED
    BY <2>1, <2>2, <2>3, <2>4
<1>11. ASSUME NEW w \in Clerk, UndoAccount(w)
      PROVE  LinksOK'
  <2>1. \A v \in Clerk : clerk'[v].link # "none" => invite'[clerk'[v].link].state # "none"
    BY <1>11 DEF UndoAccount, MembersTypeOK, ClerkRequest, Idle, Start, GoTo, Done, At
  <2>2. \A j \in Invite, u, v \in Clerk : Holds(u, j)' /\ Holds(v, j)' => u = v
    BY <1>11 DEF UndoAccount, MembersTypeOK, ClerkRequest, Idle, Start, GoTo, Done, At, Holds
  <2>3. \A j \in Invite, v \in Clerk : Holds(v, j)' => invite'[j].accepted /\ invite'[j].joins = 0
    BY <1>11 DEF UndoAccount, MembersTypeOK, ClerkRequest, Idle, Start, GoTo, Done, At, Holds
  <2>4. \A j \in Invite : (~invite'[j].accepted => invite'[j].joins = 0) /\ invite'[j].joins =< 1
    BY <1>11 DEF UndoAccount, MembersTypeOK, ClerkRequest, Idle, Start, GoTo, Done, At, Holds
  <2>. QED
    BY <2>1, <2>2, <2>3, <2>4
<1>12. ASSUME NEW w \in Clerk, Release(w)
      PROVE  LinksOK'
  <2>1. \A v \in Clerk : clerk'[v].link # "none" => invite'[clerk'[v].link].state # "none"
    BY <1>12 DEF Release, MembersTypeOK, ClerkRequest, Idle, Start, GoTo, Done, At, InviteRow
  <2>2. \A j \in Invite, u, v \in Clerk : Holds(u, j)' /\ Holds(v, j)' => u = v
    BY <1>12 DEF Release, MembersTypeOK, ClerkRequest, Idle, Start, GoTo, Done, At, Holds
  <2>3. \A j \in Invite, v \in Clerk : Holds(v, j)' => invite'[j].accepted /\ invite'[j].joins = 0
    BY <1>12 DEF Release, MembersTypeOK, ClerkRequest, Idle, Start, GoTo, Done, At, Holds, InviteRow
  <2>4. \A j \in Invite : (~invite'[j].accepted => invite'[j].joins = 0) /\ invite'[j].joins =< 1
    BY <1>12 DEF Release, MembersTypeOK, ClerkRequest, Idle, Start, GoTo, Done, At, Holds, InviteRow
  <2>. QED
    BY <2>1, <2>2, <2>3, <2>4
<1>13. ASSUME NEW w \in Clerk, ChangeCommit(w)
      PROVE  LinksOK'
  <2>1. \A v \in Clerk : clerk'[v].link # "none" => invite'[clerk'[v].link].state # "none"
    BY <1>13 DEF ChangeCommit, MembersTypeOK, ClerkRequest, Idle, Start, GoTo, Done, At
  <2>2. \A j \in Invite, u, v \in Clerk : Holds(u, j)' /\ Holds(v, j)' => u = v
    BY <1>13 DEF ChangeCommit, MembersTypeOK, ClerkRequest, Idle, Start, GoTo, Done, At, Holds
  <2>3. \A j \in Invite, v \in Clerk : Holds(v, j)' => invite'[j].accepted /\ invite'[j].joins = 0
    BY <1>13 DEF ChangeCommit, MembersTypeOK, ClerkRequest, Idle, Start, GoTo, Done, At, Holds
  <2>4. \A j \in Invite : (~invite'[j].accepted => invite'[j].joins = 0) /\ invite'[j].joins =< 1
    BY <1>13 DEF ChangeCommit, MembersTypeOK, ClerkRequest, Idle, Start, GoTo, Done, At, Holds
  <2>. QED
    BY <2>1, <2>2, <2>3, <2>4
<1>14. ASSUME NEW w \in Clerk, RemoveCommit(w)
      PROVE  LinksOK'
  <2>1. \A v \in Clerk : clerk'[v].link # "none" => invite'[clerk'[v].link].state # "none"
    BY <1>14 DEF RemoveCommit, MembersTypeOK, ClerkRequest, Idle, Start, GoTo, Done, At
  <2>2. \A j \in Invite, u, v \in Clerk : Holds(u, j)' /\ Holds(v, j)' => u = v
    BY <1>14 DEF RemoveCommit, MembersTypeOK, ClerkRequest, Idle, Start, GoTo, Done, At, Holds
  <2>3. \A j \in Invite, v \in Clerk : Holds(v, j)' => invite'[j].accepted /\ invite'[j].joins = 0
    BY <1>14 DEF RemoveCommit, MembersTypeOK, ClerkRequest, Idle, Start, GoTo, Done, At, Holds
  <2>4. \A j \in Invite : (~invite'[j].accepted => invite'[j].joins = 0) /\ invite'[j].joins =< 1
    BY <1>14 DEF RemoveCommit, MembersTypeOK, ClerkRequest, Idle, Start, GoTo, Done, At, Holds
  <2>. QED
    BY <2>1, <2>2, <2>3, <2>4
<1>15. ASSUME NEW w \in Clerk, ClerkStops(w)
      PROVE  LinksOK'
  <2>1. \A v \in Clerk : clerk'[v].link # "none" => invite'[clerk'[v].link].state # "none"
    BY <1>15 DEF ClerkStops, MembersTypeOK, ClerkRequest, Idle, Start, GoTo, Done, At
  <2>2. \A j \in Invite, u, v \in Clerk : Holds(u, j)' /\ Holds(v, j)' => u = v
    BY <1>15 DEF ClerkStops, MembersTypeOK, ClerkRequest, Idle, Start, GoTo, Done, At, Holds
  <2>3. \A j \in Invite, v \in Clerk : Holds(v, j)' => invite'[j].accepted /\ invite'[j].joins = 0
    BY <1>15 DEF ClerkStops, MembersTypeOK, ClerkRequest, Idle, Start, GoTo, Done, At, Holds
  <2>4. \A j \in Invite : (~invite'[j].accepted => invite'[j].joins = 0) /\ invite'[j].joins =< 1
    BY <1>15 DEF ClerkStops, MembersTypeOK, ClerkRequest, Idle, Start, GoTo, Done, At, Holds
  <2>. QED
    BY <2>1, <2>2, <2>3, <2>4
<1>16. ASSUME NEW i \in Invite, RevokeInvitation(i)
      PROVE  LinksOK'
  <2>1. \A v \in Clerk : clerk'[v].link # "none" => invite'[clerk'[v].link].state # "none"
    BY <1>16 DEF RevokeInvitation, MembersTypeOK, ClerkRequest, Idle, Start, GoTo, Done, At, InviteRow
  <2>2. \A j \in Invite, u, v \in Clerk : Holds(u, j)' /\ Holds(v, j)' => u = v
    BY <1>16 DEF RevokeInvitation, MembersTypeOK, ClerkRequest, Idle, Start, GoTo, Done, At, Holds
  <2>3. \A j \in Invite, v \in Clerk : Holds(v, j)' => invite'[j].accepted /\ invite'[j].joins = 0
    BY <1>16 DEF RevokeInvitation, MembersTypeOK, ClerkRequest, Idle, Start, GoTo, Done, At, Holds, InviteRow
  <2>4. \A j \in Invite : (~invite'[j].accepted => invite'[j].joins = 0) /\ invite'[j].joins =< 1
    BY <1>16 DEF RevokeInvitation, MembersTypeOK, ClerkRequest, Idle, Start, GoTo, Done, At, Holds, InviteRow
  <2>. QED
    BY <2>1, <2>2, <2>3, <2>4
<1>17. ASSUME NEW i \in Invite, ExpireInvitation(i)
      PROVE  LinksOK'
  <2>1. \A v \in Clerk : clerk'[v].link # "none" => invite'[clerk'[v].link].state # "none"
    BY <1>17 DEF ExpireInvitation, MembersTypeOK, ClerkRequest, Idle, Start, GoTo, Done, At, InviteRow
  <2>2. \A j \in Invite, u, v \in Clerk : Holds(u, j)' /\ Holds(v, j)' => u = v
    BY <1>17 DEF ExpireInvitation, MembersTypeOK, ClerkRequest, Idle, Start, GoTo, Done, At, Holds
  <2>3. \A j \in Invite, v \in Clerk : Holds(v, j)' => invite'[j].accepted /\ invite'[j].joins = 0
    BY <1>17 DEF ExpireInvitation, MembersTypeOK, ClerkRequest, Idle, Start, GoTo, Done, At, Holds, InviteRow
  <2>4. \A j \in Invite : (~invite'[j].accepted => invite'[j].joins = 0) /\ invite'[j].joins =< 1
    BY <1>17 DEF ExpireInvitation, MembersTypeOK, ClerkRequest, Idle, Start, GoTo, Done, At, Holds, InviteRow
  <2>. QED
    BY <2>1, <2>2, <2>3, <2>4
<1>18. ASSUME NEW i \in Invite, NEW p \in Person, NEW r \in Role, CreateInvitation(i, p, r)
      PROVE  LinksOK'
  <2>1. \A v \in Clerk : clerk'[v].link # "none" => invite'[clerk'[v].link].state # "none"
    BY <1>18 DEF CreateInvitation, MembersTypeOK, ClerkRequest, Idle, Start, GoTo, Done, At, InviteRow, NoInvite
  <2>2. \A j \in Invite, u, v \in Clerk : Holds(u, j)' /\ Holds(v, j)' => u = v
    BY <1>18 DEF CreateInvitation, MembersTypeOK, ClerkRequest, Idle, Start, GoTo, Done, At, Holds
  <2>3. \A j \in Invite, v \in Clerk : Holds(v, j)' => invite'[j].accepted /\ invite'[j].joins = 0
    BY <1>18 DEF CreateInvitation, MembersTypeOK, ClerkRequest, Idle, Start, GoTo, Done, At, Holds, InviteRow, NoInvite
  <2>4. \A j \in Invite : (~invite'[j].accepted => invite'[j].joins = 0) /\ invite'[j].joins =< 1
    BY <1>18 DEF CreateInvitation, MembersTypeOK, ClerkRequest, Idle, Start, GoTo, Done, At, Holds, InviteRow, NoInvite
  <2>. QED
    BY <2>1, <2>2, <2>3, <2>4
<1>. QED
  BY <1>1, <1>2, <1>3, <1>4, <1>5, <1>6, <1>7, <1>8, <1>9, <1>10, <1>11,
     <1>12, <1>13, <1>14, <1>15, <1>16, <1>17, <1>18 DEF MembersNext

(* One request at a time holds an invitation, and then nobody has joined by *)
(* it: what one account per link rests on.                                 *)
THEOREM LinksHold == MembersSpec => []LinksInv
  BY LinksInit, LinksStep, PTL DEF MembersSpec

(* Nobody, or one person, ever joins by an invitation, however often its   *)
(* link is opened at once and its acceptance fails, is undone and retried. *)
THEOREM OneJoinsByALink == MembersSpec => []OneAccountPerLink
<1>1. LinksInv => OneAccountPerLink
  BY DEF LinksInv, LinksOK, OneAccountPerLink
<1>. QED
  BY <1>1, LinksHold, PTL

=============================================================================
