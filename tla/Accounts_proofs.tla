---------------------------- MODULE Accounts_proofs ----------------------------
(***************************************************************************)
(* That invitations are accounted for and that a spent one stays spent,    *)
(* for any number of addresses, invitations and requests in flight; and,   *)
(* of the client an account works with, that its screen shows one deck,    *)
(* for any number of decks and handlers.                                   *)
(***************************************************************************)
EXTENDS Accounts, Workspace, FiniteSetTheorems, TLAPS

Rows ==
    /\ users \in [Emails -> User \cup {NoUser}]
    /\ invitations \in [Invitations -> Invitation \cup {NoInvitation}]
    /\ sessions \in [Emails -> 0 .. MaxSessions]
    /\ failures \in [Emails -> Nat]
    /\ requests \in [Requests -> Request \cup {Idle}]

\* A request in flight is about a row that exists: none is ever removed.
RequestsAreApt ==
    \A r \in Requests :
        /\ requests[r].kind = "accept" => invitations[requests[r].invitation] # NoInvitation
        /\ requests[r].kind = "patch" => requests[r].email \in Accounts

SigningIn(e) == {r \in Requests : requests[r].kind = "login" /\ requests[r].email = e}

\* What can still fail is counted with what failed.
ThrottleHolds ==
    \A e \in Emails :
        failures[e] + Cardinality(SigningIn(e)) <= MaxFailed - 1 + Cardinality(Requests)

AccountsComeFromInvitations ==
    /\ InvitedAccounts = {invitations[i].email : i \in Accepted}
    /\ \A i, j \in Accepted : i # j => invitations[i].email # invitations[j].email
    /\ \A i \in Accepted : users[invitations[i].email].role = invitations[i].role

AccountsInv == Rows /\ RequestsAreApt /\ ThrottleHolds /\ AccountsComeFromInvitations

-----------------------------------------------------------------------------
(* What the records say of themselves *)

\* A request of a kind has the fields of that kind.
LEMMA Fields ==
    ASSUME Rows, NEW r \in Requests
    PROVE  /\ requests[r].kind = "setup" => requests[r].email \in Emails
           /\ requests[r].kind = "accept" => requests[r].invitation \in Invitations
           /\ requests[r].kind = "login" => /\ requests[r].email \in Emails
                                            /\ requests[r].opens \in BOOLEAN
           /\ requests[r].kind = "invite" => /\ requests[r].email \in Emails
                                             /\ requests[r].role \in Roles
           /\ requests[r].kind = "patch" => /\ requests[r].email \in Emails
                                            /\ requests[r].status \in Statuses
<1>1. requests[r] \in Request \cup {Idle}
  BY DEF Rows
<1> QED
  BY <1>1 DEF Request, Idle

\* An invitation with a status is a row.
LEMMA RowsOfInvitations ==
    ASSUME Rows, NEW i \in Invitations,
           invitations[i] # NoInvitation \/ invitations[i].status # "none"
    PROVE  invitations[i] \in Invitation
  BY DEF Rows, NoInvitation

\* An address with an account names a row of users.
LEMMA RowsOfAccounts == ASSUME Rows, NEW e \in Accounts PROVE users[e] \in User
  BY DEF Rows, Accounts

\* The row insertUser writes is a row, and not the absence of one.
LEMMA NewUserIsUser ==
    ASSUME NEW role \in Roles, NEW invited \in BOOLEAN
    PROVE  NewUser(role, invited) \in User /\ NewUser(role, invited) # NoUser
  BY DEF NewUser, User, NoUser, Statuses

\* Opening a session keeps the count of each account within its bound.
LEMMA OpenSessionType ==
    ASSUME Rows, NEW e \in Emails, OpenSession(e)
    PROVE  sessions' \in [Emails -> 0 .. MaxSessions]
  BY AccountsAssumption DEF Rows, OpenSession

-----------------------------------------------------------------------------
(* The parts of the invariant, step by step *)

\* Every handler leaves rows of their types.
LEMMA RowsStep ==
    ASSUME Rows, RequestsAreApt, [Next]_vars
    PROVE  Rows'
<1> USE DEF Rows
<1>1. CASE UNCHANGED vars
  BY <1>1 DEF vars
<1>2. ASSUME NEW r \in Requests, NEW e \in Emails, BeginSetup(r, e) PROVE Rows'
  BY <1>2 DEF BeginSetup, Start, Request
<1>3. ASSUME NEW r \in Requests, NEW a \in Emails, NEW e \in Emails, NEW role \in Roles,
             BeginInvite(r, a, e, role)
      PROVE  Rows'
  BY <1>3 DEF BeginInvite, Start, Request
<1>4. ASSUME NEW r \in Requests, NEW i \in Invitations, BeginAccept(r, i) PROVE Rows'
  BY <1>4 DEF BeginAccept, Start, Request
<1>5. ASSUME NEW r \in Requests, NEW e \in Emails, NEW right \in BOOLEAN,
             BeginLogin(r, e, right)
      PROVE  Rows'
  <2>1. (right /\ e \in Accounts /\ users[e].status = "active") \in BOOLEAN
    BY DEF Accounts
  <2> DEFINE opens == right /\ e \in Accounts /\ users[e].status = "active"
  <2> HIDE DEF opens
  <2>2. [kind |-> "login", email |-> e, opens |-> opens] \in Request
    BY <2>1 DEF opens, Request
  <2>3. requests' = [requests EXCEPT ![r] = [kind |-> "login", email |-> e, opens |-> opens]]
    BY <1>5 DEF BeginLogin, Start, opens
  <2> QED
    BY <1>5, <2>2, <2>3 DEF BeginLogin
<1>6. ASSUME NEW r \in Requests, NEW a \in Emails, NEW e \in Emails, NEW status \in Statuses,
             BeginPatch(r, a, e, status)
      PROVE  Rows'
  BY <1>6 DEF BeginPatch, Start, Request
<1>7. ASSUME NEW r \in Requests, FinishSetup(r) PROVE Rows'
  <2> DEFINE e == requests[r].email
  <2>1. e \in Emails
    BY <1>7, Fields DEF FinishSetup
  <2>2. users' \in [Emails -> User \cup {NoUser}]
    BY <1>7, <2>1, NewUserIsUser DEF FinishSetup, Roles
  <2>3. sessions' \in [Emails -> 0 .. MaxSessions]
    BY <1>7, <2>1, OpenSessionType DEF FinishSetup
  <2> QED
    BY <1>7, <2>2, <2>3 DEF FinishSetup, Answered
<1>8. ASSUME NEW r \in Requests, NEW i \in Invitations, FinishInvite(r, i) PROVE Rows'
  <2>1. requests[r].email \in Emails /\ requests[r].role \in Roles
    BY <1>8, Fields DEF FinishInvite
  <2>2. [email |-> requests[r].email, role |-> requests[r].role, status |-> "pending"]
           \in Invitation
    BY <2>1 DEF Invitation
  <2> QED
    BY <1>8, <2>2 DEF FinishInvite, Answered
<1>9. ASSUME NEW r \in Requests, FinishAccept(r) PROVE Rows'
  <2> DEFINE i == requests[r].invitation
             e == invitations[i].email
  <2>1. i \in Invitations
    BY <1>9, Fields DEF FinishAccept
  <2>2. CASE invitations[i].status = "pending" /\ e \notin Accounts
    <3>1. invitations[i] \in Invitation
      BY <2>1, <2>2, RowsOfInvitations
    <3>2. e \in Emails /\ invitations[i].role \in Roles
      BY <3>1 DEF Invitation
    <3>3. [invitations[i] EXCEPT !.status = "accepted"] \in Invitation
      BY <3>1 DEF Invitation
    <3>4. sessions' \in [Emails -> 0 .. MaxSessions]
      BY <1>9, <2>2, <3>2, OpenSessionType DEF FinishAccept
    <3>5. NewUser(invitations[i].role, TRUE) \in User
      BY <3>2, NewUserIsUser
    <3> QED
      BY <1>9, <2>1, <2>2, <3>2, <3>3, <3>4, <3>5 DEF FinishAccept, Answered
  <2>3. CASE ~(invitations[i].status = "pending" /\ e \notin Accounts)
    BY <1>9, <2>3 DEF FinishAccept, Answered
  <2> QED
    BY <2>2, <2>3
<1>10. ASSUME NEW r \in Requests, FinishLogin(r) PROVE Rows'
  <2>1. requests[r].email \in Emails
    BY <1>10, Fields DEF FinishLogin
  <2>2. sessions' \in [Emails -> 0 .. MaxSessions]
    BY <1>10, <2>1, OpenSessionType DEF FinishLogin
  <2> QED
    BY <1>10, <2>1, <2>2 DEF FinishLogin, Answered
<1>11. ASSUME NEW r \in Requests, FinishPatch(r) PROVE Rows'
  <2> DEFINE e == requests[r].email
  <2>1. e \in Accounts /\ e \in Emails /\ requests[r].status \in Statuses
    BY <1>11, Fields DEF FinishPatch, RequestsAreApt
  <2>2. [users[e] EXCEPT !.status = requests[r].status] \in User
    BY <2>1, RowsOfAccounts DEF User
  <2>3. users' \in [Emails -> User \cup {NoUser}]
    BY <1>11, <2>1, <2>2 DEF FinishPatch
  <2>4. sessions' \in [Emails -> 0 .. MaxSessions]
    BY <1>11, <2>1, AccountsAssumption DEF FinishPatch
  <2> QED
    BY <1>11, <2>3, <2>4 DEF FinishPatch, Answered
<1>12. ASSUME NEW i \in Invitations, InvitationExpires(i) PROVE Rows'
  BY <1>12, RowsOfInvitations DEF InvitationExpires, Invitation
<1>13. ASSUME NEW a \in Emails, NEW i \in Invitations, Revoke(a, i) PROVE Rows'
  BY <1>13, RowsOfInvitations DEF Revoke, Invitation
<1>14. ASSUME NEW e \in Emails, SessionExpires(e) \/ Logout(e) PROVE Rows'
  BY <1>14, AccountsAssumption DEF SessionExpires, Logout, MayAct
<1>15. ASSUME NEW e \in Emails, AttemptAges(e) PROVE Rows'
  BY <1>15 DEF AttemptAges
<1>16. CASE Restart
  BY <1>16 DEF Restart
<1> QED
  BY <1>1, <1>2, <1>3, <1>4, <1>5, <1>6, <1>7, <1>8, <1>9, <1>10, <1>11, <1>12, <1>13, <1>14,
     <1>15, <1>16
  DEF Next, Begin, Finish, TimePasses

\* Rows are added and never removed, and a request in flight keeps its record.
LEMMA AptStep ==
    ASSUME Rows, RequestsAreApt, [Next]_vars
    PROVE  RequestsAreApt'
<1>1. Accounts \subseteq Accounts'
  <2>1. ASSUME NEW e \in Emails, users[e] # NoUser, [Next]_vars PROVE users'[e] # NoUser
    <3>1. users[e] \in User
      BY <2>1 DEF Rows
    <3>2. CASE UNCHANGED users
      BY <2>1, <3>2
    <3>3. ASSUME NEW r \in Requests, FinishSetup(r) \/ FinishAccept(r)
          PROVE  users'[e] # NoUser
      BY <2>1, <3>3 DEF FinishSetup, FinishAccept, Accounts, Rows, NewUser, NoUser
    <3>4. ASSUME NEW r \in Requests, FinishPatch(r) PROVE users'[e] # NoUser
      <4>1. users'[e] = users[e] \/ users'[e] = [users[e] EXCEPT !.status = requests[r].status]
        BY <3>4 DEF FinishPatch, Rows
      <4> QED
        BY <2>1, <3>1, <4>1 DEF User, NoUser
    <3> QED
      BY <2>1, <3>2, <3>3, <3>4
      DEF Next, Begin, Finish, TimePasses, vars, BeginSetup, BeginInvite, BeginAccept, BeginLogin,
          BeginPatch, FinishInvite, FinishLogin, InvitationExpires, Revoke, SessionExpires, Logout,
          AttemptAges, Restart
  <2> QED
    BY <2>1 DEF Accounts
<1>2. ASSUME NEW i \in Invitations, invitations[i] # NoInvitation
      PROVE  invitations'[i] # NoInvitation
  <2>1. invitations[i] \in Invitation
    BY <1>2, RowsOfInvitations
  <2>2. CASE UNCHANGED invitations
    BY <1>2, <2>2
  <2>3. ASSUME NEW j \in Invitations, NEW t, invitations' = [invitations EXCEPT ![j].status = t]
        PROVE  invitations'[i] # NoInvitation
    BY <1>2, <2>1, <2>3 DEF Invitation, NoInvitation, Rows
  <2>4. ASSUME NEW r \in Requests, FinishAccept(r) PROVE invitations'[i] # NoInvitation
    <3>1. requests[r].invitation \in Invitations
      BY <2>4, Fields DEF FinishAccept
    <3> QED
      BY <1>2, <2>3, <2>4, <3>1 DEF FinishAccept
  <2>5. ASSUME NEW r \in Requests, NEW j \in Invitations, FinishInvite(r, j)
        PROVE  invitations'[i] # NoInvitation
    BY <1>2, <2>5 DEF FinishInvite, Rows
  <2>6. ASSUME NEW j \in Invitations, NEW a \in Emails, Revoke(a, j)
        PROVE  invitations'[i] # NoInvitation
    BY <2>3, <2>6 DEF Revoke
  <2>7. ASSUME NEW j \in Invitations, InvitationExpires(j) PROVE invitations'[i] # NoInvitation
    BY <2>3, <2>7 DEF InvitationExpires
  <2> QED
    BY <2>2, <2>4, <2>5, <2>6, <2>7
    DEF Next, Begin, Finish, TimePasses, vars, BeginSetup, BeginInvite, BeginAccept, BeginLogin,
        BeginPatch, FinishSetup, FinishLogin, FinishPatch, SessionExpires, Logout, AttemptAges,
        Restart
<1>3. ASSUME NEW r \in Requests
      PROVE  \/ requests'[r] = requests[r]
             \/ requests'[r] = Idle
             \/ \E i \in Invitations : /\ invitations[i] # NoInvitation
                                       /\ requests'[r] = [kind |-> "accept", invitation |-> i]
             \/ \E a \in Emails, e \in Accounts, status \in Statuses :
                    requests'[r] = [kind |-> "patch", actor |-> a, email |-> e, status |-> status]
             \/ requests'[r].kind \in {"setup", "invite", "login"}
  <2>1. ASSUME NEW q \in Requests, Begin(q)
        PROVE  \/ requests'[r] = requests[r]
               \/ \E i \in Invitations : /\ invitations[i] # NoInvitation
                                         /\ requests'[r] = [kind |-> "accept", invitation |-> i]
               \/ \E a \in Emails, e \in Accounts, status \in Statuses :
                      requests'[r] = [kind |-> "patch", actor |-> a, email |-> e, status |-> status]
               \/ requests'[r].kind \in {"setup", "invite", "login"}
    BY <2>1 DEF Begin, BeginSetup, BeginInvite, BeginAccept, BeginLogin, BeginPatch, Start, Rows
  <2>2. ASSUME NEW q \in Requests, Finish(q) PROVE requests'[r] \in {requests[r], Idle}
    BY <2>2 DEF Finish, FinishSetup, FinishInvite, FinishAccept, FinishLogin, FinishPatch, Answered,
       Rows
  <2>3. CASE UNCHANGED requests
    BY <2>3
  <2>4. CASE Restart
    BY <2>4 DEF Restart
  <2>5. \/ \E q \in Requests : Begin(q) \/ Finish(q)
        \/ Restart \/ UNCHANGED requests
    BY DEF Next, TimePasses, vars, InvitationExpires, Revoke, SessionExpires, Logout, AttemptAges
  <2> QED
    BY <2>1, <2>2, <2>3, <2>4, <2>5
<1>4. ASSUME NEW r \in Requests
      PROVE  /\ requests'[r].kind = "accept" => invitations'[requests'[r].invitation] # NoInvitation
             /\ requests'[r].kind = "patch" => requests'[r].email \in Accounts'
  <2>1. CASE requests'[r] = requests[r]
    BY <1>1, <1>2, <2>1, Fields DEF RequestsAreApt
  <2>2. CASE requests'[r] = Idle
    BY <2>2 DEF Idle
  <2>3. ASSUME NEW i \in Invitations, invitations[i] # NoInvitation,
               requests'[r] = [kind |-> "accept", invitation |-> i]
        PROVE  /\ requests'[r].kind = "accept" /\ requests'[r].invitation = i
               /\ invitations'[i] # NoInvitation
    BY <1>2, <2>3
  <2>4. ASSUME NEW a \in Emails, NEW e \in Accounts, NEW status \in Statuses,
               requests'[r] = [kind |-> "patch", actor |-> a, email |-> e, status |-> status]
        PROVE  requests'[r].kind = "patch" /\ requests'[r].email \in Accounts'
    BY <1>1, <2>4
  <2>5. CASE requests'[r].kind \in {"setup", "invite", "login"}
    BY <2>5
  <2>6. ASSUME NEW i \in Invitations, invitations[i] # NoInvitation,
               requests'[r] = [kind |-> "accept", invitation |-> i]
        PROVE  /\ invitations'[requests'[r].invitation] # NoInvitation
               /\ requests'[r].kind # "patch"
    BY <2>3, <2>6
  <2> QED
    BY <1>3, <2>1, <2>2, <2>4, <2>5, <2>6
<1> QED
  BY <1>4 DEF RequestsAreApt

\* A sign-in is admitted below the limit, and one that fails gives its place in
\* the count to its failure.
LEMMA ThrottleStep ==
    ASSUME Rows, ThrottleHolds, [Next]_vars
    PROVE  ThrottleHolds'
<1> SUFFICES ASSUME NEW e \in Emails
             PROVE  failures'[e] + Cardinality(SigningIn(e)')
                      <= MaxFailed - 1 + Cardinality(Requests)
  BY DEF ThrottleHolds, SigningIn
<1> DEFINE before == SigningIn(e)
           after == SigningIn(e)'
<1>1. /\ before \subseteq Requests /\ after \subseteq Requests
      /\ IsFiniteSet(before) /\ IsFiniteSet(after)
      /\ Cardinality(before) \in Nat /\ Cardinality(after) \in Nat /\ Cardinality(Requests) \in Nat
      /\ Cardinality(after) <= Cardinality(Requests)
  <2>1. before \subseteq Requests /\ after \subseteq Requests
    BY DEF SigningIn
  <2> QED
    BY <2>1, AccountsAssumption, FS_Subset, FS_CardinalityType
<1>2. failures[e] \in Nat /\ MaxFailed \in Nat
      /\ failures[e] + Cardinality(before) <= MaxFailed - 1 + Cardinality(Requests)
  BY AccountsAssumption DEF Rows, ThrottleHolds
<1> HIDE DEF before, after
<1>3. ASSUME after \subseteq before, failures'[e] \in Nat, failures'[e] <= failures[e]
      PROVE  failures'[e] + Cardinality(after) <= MaxFailed - 1 + Cardinality(Requests)
  <2>1. Cardinality(after) <= Cardinality(before)
    BY <1>1, <1>3, FS_Subset
  <2> QED
    BY <1>1, <1>2, <1>3, <2>1
<1>4. ASSUME NEW r \in Requests, NEW f \in Emails, NEW right \in BOOLEAN, BeginLogin(r, f, right)
      PROVE  failures'[e] + Cardinality(after) <= MaxFailed - 1 + Cardinality(Requests)
  <2>1. failures'[e] = failures[e]
    BY <1>4 DEF BeginLogin
  <2>2. CASE f = e
    <3>1. failures[e] < MaxFailed
      BY <1>4, <2>2 DEF BeginLogin
    <3> QED
      BY <1>1, <1>2, <2>1, <3>1
  <2>3. CASE f # e
    <3>1. after \subseteq before
      BY <1>4, <2>3 DEF BeginLogin, Start, Rows, SigningIn, before, after
    <3> QED
      BY <1>2, <1>3, <2>1, <3>1
  <2> QED
    BY <2>2, <2>3
<1>5. ASSUME NEW r \in Requests, FinishLogin(r)
      PROVE  failures'[e] + Cardinality(after) <= MaxFailed - 1 + Cardinality(Requests)
  <2>1. after = before \ {r}
    BY <1>5 DEF FinishLogin, Answered, Rows, SigningIn, Idle, before, after
  <2>2. CASE requests[r].email = e /\ ~requests[r].opens
    <3>1. r \in before /\ failures'[e] = failures[e] + 1
      BY <1>5, <2>2 DEF FinishLogin, SigningIn, Rows, before
    <3>2. Cardinality(after) = Cardinality(before) - 1
      BY <1>1, <2>1, <3>1, FS_RemoveElement
    <3> QED
      BY <1>1, <1>2, <3>1, <3>2
  <2>3. CASE ~(requests[r].email = e /\ ~requests[r].opens)
    <3>1. failures'[e] \in {0, failures[e]}
      BY <1>5, <2>3 DEF FinishLogin, Rows
    <3> QED
      BY <1>2, <1>3, <2>1, <3>1
  <2> QED
    BY <2>2, <2>3
<1>6. ASSUME NEW r \in Requests, Finish(r), ~FinishLogin(r)
      PROVE  after \subseteq before /\ UNCHANGED failures
  <2>1. requests' = [requests EXCEPT ![r] = Idle] /\ UNCHANGED failures
    BY <1>6 DEF Finish, FinishSetup, FinishInvite, FinishAccept, FinishPatch, Answered
  <2>2. \A q \in Requests : requests'[q] \in {requests[q], Idle}
    BY <2>1 DEF Rows
  <2> QED
    BY <2>1, <2>2 DEF SigningIn, Idle, before, after
<1>7. ASSUME NEW r \in Requests, Begin(r),
             \A f \in Emails, right \in BOOLEAN : ~BeginLogin(r, f, right)
      PROVE  after \subseteq before /\ UNCHANGED failures
  BY <1>7 DEF Begin, BeginSetup, BeginInvite, BeginAccept, BeginPatch, Start, Rows, SigningIn,
     before, after
<1>8. ASSUME NEW f \in Emails, AttemptAges(f)
      PROVE  after \subseteq before /\ failures'[e] \in Nat /\ failures'[e] <= failures[e]
  BY <1>8 DEF AttemptAges, Rows, SigningIn, before, after
<1>9. CASE Restart
  <2>1. after = {} /\ UNCHANGED failures
    BY <1>9 DEF Restart, SigningIn, Idle, after
  <2> QED
    BY <1>2, <1>3, <2>1 DEF after
<1>10. CASE after \subseteq before /\ UNCHANGED failures
  BY <1>2, <1>3, <1>10 DEF after
<1>11. CASE UNCHANGED <<requests, failures>>
  <2>1. after = before
    BY <1>11 DEF SigningIn, before, after
  <2> QED
    BY <1>10, <1>11, <2>1
<1>12. \/ \E r \in Requests : Begin(r) \/ Finish(r)
       \/ \E f \in Emails : AttemptAges(f)
       \/ Restart \/ UNCHANGED <<requests, failures>>
  BY DEF Next, TimePasses, vars, InvitationExpires, Revoke, SessionExpires, Logout
<1> QED
  BY <1>3, <1>4, <1>5, <1>6, <1>7, <1>8, <1>9, <1>10, <1>11, <1>12 DEF after

\* Only an acceptance makes an invited account or consumes an invitation, and
\* it does both at once, for an address that has none.
LEMMA AccountingStep ==
    ASSUME Rows, RequestsAreApt, AccountsComeFromInvitations, [Next]_vars
    PROVE  AccountsComeFromInvitations'
<1>1. ASSUME InvitedAccounts' = InvitedAccounts, Accepted' = Accepted,
             \A i \in Accepted : /\ invitations'[i].email = invitations[i].email
                                /\ invitations'[i].role = invitations[i].role,
             \A e \in InvitedAccounts : users'[e].role = users[e].role
      PROVE  AccountsComeFromInvitations'
  BY <1>1 DEF AccountsComeFromInvitations
<1>2. CASE UNCHANGED <<users, invitations>>
  BY <1>2 DEF AccountsComeFromInvitations, InvitedAccounts, Accepted, Accounts
<1>3. ASSUME NEW i \in Invitations, NEW t \in {"expired", "revoked"},
             invitations[i].status \in {"pending", "expired"},
             invitations' = [invitations EXCEPT ![i].status = t], UNCHANGED users
      PROVE  AccountsComeFromInvitations'
  <2>1. invitations[i] \in Invitation
    BY <1>3, RowsOfInvitations
  <2>2. \A j \in Invitations : j # i => invitations'[j] = invitations[j]
    BY <1>3 DEF Rows
  <2>3. invitations'[i].status = t /\ i \notin Accepted
    BY <1>3, <2>1 DEF Rows, Invitation, Accepted
  <2>4. Accepted' = Accepted
    BY <1>3, <2>2, <2>3 DEF Accepted
  <2>5. InvitedAccounts' = InvitedAccounts
    BY <1>3 DEF InvitedAccounts, Accounts
  <2> QED
    BY <1>1, <1>3, <2>2, <2>3, <2>4, <2>5 DEF Accepted
<1>4. ASSUME NEW r \in Requests, NEW i \in Invitations, FinishInvite(r, i)
      PROVE  AccountsComeFromInvitations'
  <2>1. \A j \in Invitations : j # i => invitations'[j] = invitations[j]
    BY <1>4 DEF FinishInvite, Rows
  <2>2. i \notin Accepted /\ invitations'[i].status # "accepted"
    BY <1>4 DEF FinishInvite, Rows, NoInvitation, Accepted
  <2>3. Accepted' = Accepted /\ InvitedAccounts' = InvitedAccounts /\ UNCHANGED users
    BY <1>4, <2>1, <2>2 DEF Accepted, FinishInvite, InvitedAccounts, Accounts
  <2> QED
    BY <1>1, <2>1, <2>2, <2>3 DEF Accepted
<1>5. ASSUME NEW r \in Requests, FinishSetup(r) PROVE AccountsComeFromInvitations'
  <2> DEFINE e == requests[r].email
  <2>1. CASE e \in Accounts
    BY <1>2, <1>5, <2>1 DEF FinishSetup
  <2>2. CASE e \notin Accounts
    <3>1. /\ users' = [users EXCEPT ![e] = NewUser("admin", FALSE)]
          /\ UNCHANGED invitations /\ e \in Emails
      BY <1>5, <2>2, Fields DEF FinishSetup
    <3>2. \A f \in Emails : f # e => users'[f] = users[f]
      BY <3>1 DEF Rows
    <3>3. users'[e] = NewUser("admin", FALSE) /\ ~users'[e].invited
      BY <3>1 DEF Rows, NewUser
    <3>4. InvitedAccounts' = InvitedAccounts
      BY <2>2, <3>2, <3>3 DEF InvitedAccounts, Accounts
    <3>5. e \notin InvitedAccounts
      BY <2>2 DEF InvitedAccounts
    <3> QED
      BY <1>1, <3>1, <3>2, <3>4, <3>5 DEF InvitedAccounts, Accounts, Accepted
  <2> QED
    BY <2>1, <2>2
<1>6. ASSUME NEW r \in Requests, FinishPatch(r) PROVE AccountsComeFromInvitations'
  <2> DEFINE e == requests[r].email
  <2>1. e \in Accounts /\ e \in Emails /\ users[e] \in User /\ requests[r].status \in Statuses
    BY <1>6, Fields, RowsOfAccounts DEF FinishPatch, RequestsAreApt
  <2>2. CASE UNCHANGED users
    BY <1>2, <1>6, <2>2 DEF FinishPatch
  <2>3. CASE users' = [users EXCEPT ![e].status = requests[r].status]
    <3>1. \A f \in Emails : f # e => users'[f] = users[f]
      BY <2>3 DEF Rows
    <3>2. users'[e] = [users[e] EXCEPT !.status = requests[r].status]
      BY <2>1, <2>3 DEF Rows
    <3>3. /\ users'[e] \in User
          /\ users'[e].invited = users[e].invited /\ users'[e].role = users[e].role
      BY <2>1, <3>2 DEF User
    <3>4. \A u \in User : u # NoUser
      BY DEF User, NoUser
    <3>5. InvitedAccounts' = InvitedAccounts
      BY <2>1, <3>1, <3>3, <3>4 DEF InvitedAccounts, Accounts
    <3> QED
      BY <1>1, <1>6, <3>1, <3>3, <3>5 DEF FinishPatch, InvitedAccounts, Accounts, Accepted
  <2> QED
    BY <1>6, <2>2, <2>3 DEF FinishPatch
<1>7. ASSUME NEW r \in Requests, FinishAccept(r) PROVE AccountsComeFromInvitations'
  <2> DEFINE i == requests[r].invitation
             e == invitations[i].email
  <2>1. i \in Invitations
    BY <1>7, Fields DEF FinishAccept
  <2>2. CASE ~(invitations[i].status = "pending" /\ e \notin Accounts)
    BY <1>2, <1>7, <2>2 DEF FinishAccept
  <2>3. CASE invitations[i].status = "pending" /\ e \notin Accounts
    <3>1. /\ invitations[i] \in Invitation
          /\ e \in Emails /\ invitations[i].role \in Roles
      BY <2>1, <2>3, RowsOfInvitations DEF Invitation
    <3>2. /\ users' = [users EXCEPT ![e] = NewUser(invitations[i].role, TRUE)]
          /\ invitations' = [invitations EXCEPT ![i].status = "accepted"]
      BY <1>7, <2>3 DEF FinishAccept
    <3>3. \A f \in Emails : f # e => users'[f] = users[f]
      BY <3>2 DEF Rows
    <3>4. users'[e] = NewUser(invitations[i].role, TRUE)
      BY <3>1, <3>2 DEF Rows
    <3>5. users'[e].invited /\ users'[e] # NoUser /\ users'[e].role = invitations[i].role
      <4>1. users'[e].invited /\ users'[e].role = invitations[i].role
        BY <3>4 DEF NewUser
      <4>2. TRUE \in BOOLEAN
        OBVIOUS
      <4>3. NewUser(invitations[i].role, TRUE) # NoUser
        BY <3>1, <4>2, NewUserIsUser
      <4> QED
        BY <3>4, <4>1, <4>3
    <3>6. \A j \in Invitations : j # i => invitations'[j] = invitations[j]
      BY <3>2 DEF Rows
    <3>7. /\ invitations'[i].status = "accepted" /\ invitations'[i].email = e
          /\ invitations'[i].role = invitations[i].role
      BY <2>1, <3>1, <3>2 DEF Rows, Invitation
    <3>8. InvitedAccounts' = InvitedAccounts \cup {e}
      BY <3>1, <3>3, <3>5 DEF InvitedAccounts, Accounts
    <3>9. Accepted' = Accepted \cup {i}
      BY <2>1, <3>6, <3>7 DEF Accepted
    <3>10. i \notin Accepted /\ e \notin InvitedAccounts
      BY <2>3 DEF Accepted, InvitedAccounts
    <3>11. \A j \in Accepted : invitations'[j] = invitations[j] /\ invitations[j].email # e
      <4>1. \A j \in Accepted : invitations[j].email \in InvitedAccounts
        BY DEF AccountsComeFromInvitations
      <4> QED
        BY <3>6, <3>10, <4>1 DEF Accepted
    <3>12. InvitedAccounts' = {invitations'[j].email : j \in Accepted'}
      BY <3>7, <3>8, <3>9, <3>11 DEF AccountsComeFromInvitations
    <3>13. \A j, k \in Accepted' : j # k => invitations'[j].email # invitations'[k].email
      BY <3>7, <3>9, <3>11 DEF AccountsComeFromInvitations
    <3>14. \A j \in Accepted' : users'[invitations'[j].email].role = invitations'[j].role
      <4>1. \A j \in Accepted : invitations[j].email \in Emails
        BY DEF AccountsComeFromInvitations, InvitedAccounts, Accounts
      <4> QED
        BY <3>3, <3>5, <3>7, <3>9, <3>11, <4>1 DEF AccountsComeFromInvitations
    <3> QED
      BY <3>12, <3>13, <3>14 DEF AccountsComeFromInvitations
  <2> QED
    BY <2>2, <2>3
<1>8. ASSUME NEW i \in Invitations, NEW a \in Emails, InvitationExpires(i) \/ Revoke(a, i)
      PROVE  AccountsComeFromInvitations'
  BY <1>3, <1>8 DEF InvitationExpires, Revoke
<1>9. ASSUME NEW i \in Invitations, InvitationExpires(i) PROVE AccountsComeFromInvitations'
  BY <1>3, <1>9 DEF InvitationExpires
<1>10. \/ \E r \in Requests : \/ FinishSetup(r) \/ FinishPatch(r) \/ FinishAccept(r)
                              \/ \E i \in Invitations : FinishInvite(r, i)
       \/ \E i \in Invitations : InvitationExpires(i) \/ \E a \in Emails : Revoke(a, i)
       \/ UNCHANGED <<users, invitations>>
  BY DEF Next, Begin, Finish, TimePasses, vars, BeginSetup, BeginInvite, BeginAccept, BeginLogin,
     BeginPatch, FinishLogin, SessionExpires, Logout, AttemptAges, Restart
<1> QED
  BY <1>2, <1>4, <1>5, <1>6, <1>7, <1>8, <1>9, <1>10

-----------------------------------------------------------------------------
(* The theorems *)

\* The strengthening: the rows are typed, requests are about rows that exist,
\* the throttle counts what can still fail, and every invited account has its
\* invitation.
THEOREM SpecAccountsInv == Spec => []AccountsInv
<1>1. Init => AccountsInv
  <2> SUFFICES ASSUME Init PROVE AccountsInv
    OBVIOUS
  <2>1. Rows
    BY AccountsAssumption DEF Init, Rows
  <2>2. RequestsAreApt
    BY DEF Init, RequestsAreApt, Idle
  <2>3. Accounts = {} /\ Accepted = {}
    BY DEF Init, Accounts, Accepted, NoInvitation
  <2>4. AccountsComeFromInvitations
    BY <2>3 DEF AccountsComeFromInvitations, InvitedAccounts
  <2>5. \A e \in Emails : SigningIn(e) = {}
    BY DEF Init, SigningIn, Idle
  <2>6. ThrottleHolds
    BY <2>5, AccountsAssumption, FS_EmptySet, FS_CardinalityType DEF Init, ThrottleHolds
  <2> QED
    BY <2>1, <2>2, <2>4, <2>6 DEF AccountsInv
<1>2. AccountsInv /\ [Next]_vars => AccountsInv'
  BY RowsStep, AptStep, ThrottleStep, AccountingStep DEF AccountsInv
<1> QED
  BY <1>1, <1>2, PTL DEF Spec

\* Every invited account comes from exactly one consumed invitation, with the
\* role it offered, and every consumed invitation has its account; and the
\* throttle lets through at most the requests in flight beyond its limit.
THEOREM SpecInvitationsAreAccountedFor == Spec => []InvitationsAreAccountedFor
<1>1. AccountsInv => InvitationsAreAccountedFor
  <2> SUFFICES ASSUME AccountsInv PROVE InvitationsAreAccountedFor
    OBVIOUS
  <2>1. ASSUME NEW e \in Emails
        PROVE  failures[e] \in 0 .. (MaxFailed + Cardinality(Requests) - 1)
    <3>1. Cardinality(SigningIn(e)) \in Nat /\ Cardinality(Requests) \in Nat
      <4>1. SigningIn(e) \subseteq Requests
        BY DEF SigningIn
      <4> QED
        BY <4>1, AccountsAssumption, FS_Subset, FS_CardinalityType
    <3>2. failures[e] + Cardinality(SigningIn(e)) <= MaxFailed - 1 + Cardinality(Requests)
      BY DEF AccountsInv, ThrottleHolds
    <3> QED
      BY <3>1, <3>2, AccountsAssumption DEF AccountsInv, Rows
  <2>2. TypeOK
    BY <2>1 DEF AccountsInv, Rows, TypeOK
  <2> QED
    BY <2>2 DEF AccountsInv, AccountsComeFromInvitations, InvitationsAreAccountedFor
<1> QED
  BY <1>1, SpecAccountsInv, PTL

\* An invitation that was revoked, has expired or was used is never used again.
THEOREM SpecSpentInvitationStaysSpent == Spec => SpentInvitationStaysSpent
<1>1. ASSUME AccountsInv, [Next]_vars, NEW i \in Invitations,
             invitations[i].status \in {"expired", "accepted", "revoked"}
      PROVE  /\ invitations'[i].status \in {invitations[i].status, "revoked"}
             /\ invitations[i].status = "accepted" => invitations'[i] = invitations[i]
  <2>1. Rows /\ invitations[i] \in Invitation
    BY <1>1, RowsOfInvitations DEF AccountsInv
  <2>2. CASE UNCHANGED invitations
    BY <2>2
  <2>3. ASSUME NEW r \in Requests, FinishAccept(r) PROVE invitations'[i] = invitations[i]
    <3>1. requests[r].invitation \in Invitations
      BY <2>1, <2>3, Fields DEF FinishAccept
    <3> QED
      BY <1>1, <2>1, <2>3, <3>1 DEF FinishAccept, Rows
  <2>4. ASSUME NEW r \in Requests, NEW j \in Invitations, FinishInvite(r, j)
        PROVE  invitations'[i] = invitations[i]
    BY <1>1, <2>1, <2>4 DEF FinishInvite, Rows, NoInvitation
  <2>5. ASSUME NEW j \in Invitations, InvitationExpires(j) PROVE invitations'[i] = invitations[i]
    BY <1>1, <2>1, <2>5 DEF InvitationExpires, Rows
  <2>6. ASSUME NEW a \in Emails, NEW j \in Invitations, Revoke(a, j)
        PROVE  \/ invitations'[i] = invitations[i]
               \/ invitations[i].status # "accepted" /\ invitations'[i].status = "revoked"
    BY <1>1, <2>1, <2>6 DEF Revoke, Rows, Invitation
  <2> QED
    BY <1>1, <2>2, <2>3, <2>4, <2>5, <2>6
    DEF Next, Begin, Finish, TimePasses, vars, BeginSetup, BeginInvite, BeginAccept, BeginLogin,
        BeginPatch, FinishSetup, FinishLogin, FinishPatch, SessionExpires, Logout, AttemptAges,
        Restart
<1>2. AccountsInv /\ [Next]_vars
         => [\A i \in Invitations :
               invitations[i].status \in {"expired", "accepted", "revoked"}
                 => invitations'[i].status \in {invitations[i].status, "revoked"}
                    /\ (invitations[i].status = "accepted" => invitations'[i] = invitations[i])
            ]_vars
  BY <1>1
<1> QED
  BY <1>2, SpecAccountsInv, PTL DEF Spec, SpentInvitationStaysSpent

-----------------------------------------------------------------------------
(* The screen.                                                               *)

Handlers == {"open", "upload", "run", "delete"}
Places == {"document", "cards", "source", "store", "reload", "queued", "poll", "job", "result",
           "open", "other"}

\* What a handler may await, and on which decks.
Awaits(c) ==
    \/ c.handler = "open" /\ c.at \in {"document", "source"} /\ c.deck \in Decks \ ForStudy
    \/ c.handler = "open" /\ c.at = "cards"
    \/ c.handler = "upload" /\ c.at \in {"store", "reload"} /\ c.deck \in New
    \/ /\ c.handler = "run" /\ c.at \in {"queued", "poll", "job", "result", "reload"}
       /\ c.deck \in Own \cup New
    \/ c.handler = "delete" /\ c.at \in {"open", "other"} /\ c.deck \in Own \cup New

ScreenTypes ==
    /\ deck \in Decks \cup {Nothing}
    /\ pages \in Parts /\ source \in Parts /\ cards \in Parts /\ panel \in Parts
    /\ activeDeckRef \in Decks \cup {Nothing}
    /\ latestRun \in Nat /\ begun \in Nat /\ latestRun <= begun /\ begun <= MaxBegun
    /\ calls \subseteq [handler : Handlers, deck : Decks, at : Places, run : 0 .. latestRun]
    /\ \A c \in calls : Awaits(c)
    /\ stored \subseteq Decks

\* The deck of the handler is on screen already, and this answer is not.
Opening(c, S) == c.handler = "open" /\ c.at \in S /\ (c.at = "document" => c.deck \in Lent)
Awaited(S) == \E c \in calls : Opening(c, S)

OneAtATime == \A c, d \in calls : "run" \in {c.handler, d.handler} \/ c = d

RunsAreOnScreen == \A c \in calls : c.handler = "run" /\ c.at \in {"job", "reload"} => c.deck = deck

HandlersKnowTheScreen ==
    \A c \in calls :
      /\ Opening(c, {"document", "cards", "source"}) => deck = c.deck
      /\ c.handler = "upload" /\ c.at = "store" =>
           /\ deck = Nothing /\ panel = Empty /\ cards = Empty
           /\ pages.of = c.deck /\ source.of = c.deck
      /\ c.handler = "upload" /\ c.at = "reload" => deck = c.deck
      /\ c.handler = "delete" => (c.at = "open" <=> deck = c.deck)

DocumentIsShown ==
    /\ deck \in ForStudy => pages = Empty /\ source = Empty
    /\ deck \in Decks \ ForStudy /\ ~Awaited({"document"}) => pages.of = deck
    /\ deck # Nothing /\ ~Awaited({"document", "cards", "source"}) => source.of \in {deck, Nothing}

CardsAreShown ==
    /\ deck = Nothing => cards.of = Nothing
    /\ deck # Nothing /\ ~Awaited({"document", "cards"}) =>
         cards.of = deck \/ (deck \in New /\ cards.of = Nothing)
    /\ deck # Nothing => panel.of \in {deck, Nothing}

ScreenInv ==
    /\ ScreenTypes
    /\ raced = {} => OneAtATime /\ RunsAreOnScreen /\ HandlersKnowTheScreen /\ DocumentIsShown /\ CardsAreShown

-----------------------------------------------------------------------------

LEMMA PartsAreRead ==
  /\ Empty \in Parts
  /\ \A k \in Decks, by \in {"open", "upload", "run"} : Part(k, by) \in Parts
  /\ \A p \in Parts : p.of \in Decks \cup {Nothing}
  /\ \A k, by : Part(k, by).of = k
  /\ Empty.of = Nothing
<1>1. Empty \in Parts
  BY DEF Parts
<1>2. ASSUME NEW k \in Decks, NEW by \in {"open", "upload", "run"} PROVE Part(k, by) \in Parts
  BY DEF Parts
<1>3. ASSUME NEW k, NEW by PROVE Part(k, by).of = k
  BY DEF Part
<1>4. Empty.of = Nothing
  BY DEF Empty, Part
<1>5. ASSUME NEW p \in Parts PROVE p.of \in Decks \cup {Nothing}
  BY <1>3, <1>4 DEF Parts
<1> QED BY <1>1, <1>2, <1>3, <1>4, <1>5

LEMMA KindsOfDeck ==
  /\ Nothing \notin Decks
  /\ \A k : ~(k \in New /\ k \in ForStudy) /\ ~(k \in New /\ k \in Lent) /\ ~(k \in New /\ k \in Own)
  /\ \A k : ~(k \in Own /\ k \in ForStudy) /\ ~(k \in Own /\ k \in Lent) /\ ~(k \in Lent /\ k \in ForStudy)
BY WorkspaceAssumption DEF Decks

LEMMA CallsAreRecords ==
  ASSUME NEW k, NEW h, NEW at, NEW r
  PROVE  /\ Call(h, k, at, r).handler = h /\ Call(h, k, at, r).deck = k
         /\ Call(h, k, at, r).at = at /\ Call(h, k, at, r).run = r
BY DEF Call

LEMMA MovedOn ==
  ASSUME ScreenTypes, NEW c \in calls, NEW at
  PROVE  LET d == [c EXCEPT !.at = at]
         IN  d.handler = c.handler /\ d.deck = c.deck /\ d.run = c.run /\ d.at = at
BY DEF ScreenTypes

LEMMA InitScreenInv == ScreenInit => ScreenInv
<1> SUFFICES ASSUME ScreenInit PROVE ScreenInv
  OBVIOUS
<1>1. ScreenTypes
  BY PartsAreRead, WorkspaceAssumption DEF ScreenInit, ScreenTypes, Decks
<1>2. OneAtATime /\ RunsAreOnScreen /\ HandlersKnowTheScreen
  BY DEF ScreenInit, OneAtATime, RunsAreOnScreen, HandlersKnowTheScreen
<1>3. DocumentIsShown /\ CardsAreShown
  BY PartsAreRead, KindsOfDeck DEF ScreenInit, DocumentIsShown, CardsAreShown, Decks
<1> QED BY <1>1, <1>2, <1>3 DEF ScreenInv

-----------------------------------------------------------------------------
(* What a step does to the handlers in flight. *)

\* A step that begins a handler, moves one on or ends one keeps the rest.
LEMMA CallsThatBegin ==
  ASSUME ScreenTypes, NEW h \in Handlers, NEW k \in Decks, NEW at \in Places,
         NEW r \in 0 .. latestRun', latestRun' \in Nat, latestRun <= latestRun',
         Awaits(Call(h, k, at, r)), Begins(Call(h, k, at, r))
  PROVE  /\ calls' \subseteq [handler : Handlers, deck : Decks, at : Places, run : 0 .. latestRun']
         /\ \A c \in calls' : Awaits(c)
         /\ begun' \in Nat /\ begun' = begun + 1 /\ begun' <= MaxBegun
<1>1. Call(h, k, at, r) \in [handler : Handlers, deck : Decks, at : Places, run : 0 .. latestRun']
  BY DEF Call
<1>2. calls \subseteq [handler : Handlers, deck : Decks, at : Places, run : 0 .. latestRun']
  BY DEF ScreenTypes
<1> QED BY <1>1, <1>2, WorkspaceAssumption DEF Begins, ScreenTypes

LEMMA CallsThatGoOn ==
  ASSUME ScreenTypes, NEW c \in calls, NEW at \in Places, Goes(c, at),
         Awaits([c EXCEPT !.at = at]), latestRun' = latestRun
  PROVE  /\ calls' \subseteq [handler : Handlers, deck : Decks, at : Places, run : 0 .. latestRun']
         /\ \A d \in calls' : Awaits(d)
<1>1. [c EXCEPT !.at = at] \in [handler : Handlers, deck : Decks, at : Places, run : 0 .. latestRun]
  BY DEF ScreenTypes
<1> QED BY <1>1 DEF Goes, ScreenTypes

LEMMA CallsThatEnd ==
  ASSUME ScreenTypes, NEW c \in calls, Ends(c), latestRun' = latestRun
  PROVE  /\ calls' \subseteq [handler : Handlers, deck : Decks, at : Places, run : 0 .. latestRun']
         /\ \A d \in calls' : Awaits(d)
BY DEF ScreenTypes, Ends

LEMMA StepKeepsTypes == ScreenTypes /\ Step => ScreenTypes'
<1> SUFFICES ASSUME ScreenTypes, Step PROVE ScreenTypes'
  OBVIOUS
<1> USE PartsAreRead, KindsOfDeck
<1>1. CASE Render
  BY <1>1 DEF Render, ScreenTypes
<1>2. CASE StartRun
  <2>1. /\ deck \in Decks /\ latestRun + 1 \in 0 .. latestRun' /\ latestRun' \in Nat
        /\ latestRun' = latestRun + 1
    BY <1>2 DEF StartRun, ScreenTypes, Decks
  <2>2. Awaits(Call("run", deck, "queued", latestRun + 1))
    BY <1>2, CallsAreRecords DEF StartRun, Awaits
  <2>3. Begins(Call("run", deck, "queued", latestRun + 1))
    BY <1>2 DEF StartRun
  <2>4. /\ calls' \subseteq [handler : Handlers, deck : Decks, at : Places, run : 0 .. latestRun']
        /\ \A c \in calls' : Awaits(c)
        /\ begun' \in Nat /\ begun' = begun + 1 /\ begun' <= MaxBegun
    <3>1. "run" \in Handlers /\ "queued" \in Places /\ latestRun <= latestRun'
      BY <2>1 DEF Handlers, Places, ScreenTypes
    <3> QED BY <2>1, <2>2, <2>3, <3>1, CallsThatBegin
  <2> QED BY <1>2, <2>1, <2>4 DEF StartRun, ScreenTypes
<1>3. ASSUME NEW k \in Decks, BeginOpenStored(k) PROVE ScreenTypes'
  <2>1. Awaits(Call("open", k, "document", 0))
    BY <1>3, CallsAreRecords DEF BeginOpenStored, Awaits, Decks
  <2>2. "open" \in Handlers /\ "document" \in Places /\ 0 \in 0 .. latestRun'
        /\ latestRun' \in Nat /\ latestRun <= latestRun'
    BY <1>3 DEF Handlers, Places, ScreenTypes, BeginOpenStored
  <2>3. /\ calls' \subseteq [handler : Handlers, deck : Decks, at : Places, run : 0 .. latestRun']
        /\ \A c \in calls' : Awaits(c)
        /\ begun' \in Nat /\ begun' = begun + 1 /\ begun' <= MaxBegun
    BY <1>3, <2>1, <2>2, CallsThatBegin DEF BeginOpenStored
  <2> QED BY <1>3, <2>3 DEF BeginOpenStored, ScreenTypes
<1>4. ASSUME NEW k \in Decks, BeginOpenShared(k) PROVE ScreenTypes'
  <2> DEFINE at == IF k \in Lent THEN "document" ELSE "cards"
  <2>1. Awaits(Call("open", k, at, 0))
    BY <1>4, CallsAreRecords DEF BeginOpenShared, Awaits, Decks
  <2>2. "open" \in Handlers /\ at \in Places /\ 0 \in 0 .. latestRun'
        /\ latestRun' \in Nat /\ latestRun <= latestRun' /\ Begins(Call("open", k, at, 0))
    BY <1>4 DEF Handlers, Places, ScreenTypes, BeginOpenShared
  <2>3. /\ calls' \subseteq [handler : Handlers, deck : Decks, at : Places, run : 0 .. latestRun']
        /\ \A c \in calls' : Awaits(c)
        /\ begun' \in Nat /\ begun' = begun + 1 /\ begun' <= MaxBegun
    <3> HIDE DEF at
    <3> QED BY <2>1, <2>2, CallsThatBegin
  <2> QED BY <1>4, <2>3 DEF BeginOpenShared, ScreenTypes
<1>5. ASSUME NEW k \in Decks, Upload(k) PROVE ScreenTypes'
  <2>1. Awaits(Call("upload", k, "store", 0))
    BY <1>5, CallsAreRecords DEF Upload, Awaits
  <2>2. "upload" \in Handlers /\ "store" \in Places /\ 0 \in 0 .. latestRun'
        /\ latestRun' \in Nat /\ latestRun <= latestRun'
    BY <1>5 DEF Handlers, Places, ScreenTypes, Upload
  <2>3. /\ calls' \subseteq [handler : Handlers, deck : Decks, at : Places, run : 0 .. latestRun']
        /\ \A c \in calls' : Awaits(c)
        /\ begun' \in Nat /\ begun' = begun + 1 /\ begun' <= MaxBegun
    BY <1>5, <2>1, <2>2, CallsThatBegin DEF Upload
  <2> QED BY <1>5, <2>3 DEF Upload, ScreenTypes
<1>6. ASSUME NEW k \in Decks, BeginDelete(k) PROVE ScreenTypes'
  <2> DEFINE at == IF deck = k THEN "open" ELSE "other"
  <2>1. Awaits(Call("delete", k, at, 0))
    BY <1>6, CallsAreRecords DEF BeginDelete, Awaits
  <2>2. "delete" \in Handlers /\ at \in Places /\ 0 \in 0 .. latestRun'
        /\ latestRun' \in Nat /\ latestRun <= latestRun' /\ Begins(Call("delete", k, at, 0))
    BY <1>6 DEF Handlers, Places, ScreenTypes, BeginDelete
  <2>3. /\ calls' \subseteq [handler : Handlers, deck : Decks, at : Places, run : 0 .. latestRun']
        /\ \A c \in calls' : Awaits(c)
        /\ begun' \in Nat /\ begun' = begun + 1 /\ begun' <= MaxBegun
    <3> HIDE DEF at
    <3> QED BY <2>1, <2>2, CallsThatBegin
  <2> QED BY <1>6, <2>3 DEF BeginDelete, ScreenTypes
<1>7. ASSUME NEW c \in calls,
             \/ ShowDocument(c) \/ ShowCards(c) \/ ShowSource(c)
             \/ UploadStored(c) \/ ReloadAfterUpload(c)
             \/ FollowRun(c) \/ ShowJob(c) \/ ShowResult(c) \/ ReloadAfterRun(c)
             \/ DeckDeleted(c)
      PROVE  ScreenTypes'
  <2>1. c.deck \in Decks /\ Awaits(c) /\ latestRun' = latestRun /\ begun' = begun
    BY <1>7 DEF ScreenTypes, ShowDocument, ShowCards, ShowSource, UploadStored, ReloadAfterUpload,
                FollowRun, ShowJob, ShowResult, ReloadAfterRun, DeckDeleted
  <2>2. PICK at \in Places :
             \/ Ends(c)
             \/ Goes(c, at) /\ Awaits([c EXCEPT !.at = at])
             \/ calls' = calls
    <3> DEFINE On(at) == [c EXCEPT !.at = at]
    <3>1. \A at : On(at).handler = c.handler /\ On(at).deck = c.deck /\ On(at).at = at
      BY MovedOn
    <3> HIDE DEF On
    <3> SUFFICES \E at \in Places : Ends(c) \/ (Goes(c, at) /\ Awaits(On(at))) \/ calls' = calls
      BY DEF On
    <3>2. {"cards", "source", "reload", "poll", "job", "result"} \subseteq Places
      BY DEF Places
    <3>3. CASE ShowDocument(c)
      <4>1. Goes(c, "cards") /\ Awaits(On("cards"))
        BY <3>3, <3>1, <2>1 DEF ShowDocument, Awaits
      <4> QED BY <4>1, <3>2
    <3>4. CASE ShowCards(c)
      <4>1. Ends(c) \/ (Goes(c, "source") /\ Awaits(On("source")))
        BY <3>4, <3>1, <2>1 DEF ShowCards, Awaits
      <4> QED BY <4>1, <3>2
    <3>5. CASE UploadStored(c)
      <4>1. Goes(c, "reload") /\ Awaits(On("reload"))
        BY <3>5, <3>1, <2>1 DEF UploadStored, Awaits
      <4> QED BY <4>1, <3>2
    <3>6. CASE FollowRun(c)
      <4>1. Ends(c) \/ (Goes(c, "poll") /\ Awaits(On("poll"))) \/ (Goes(c, "job") /\ Awaits(On("job")))
        BY <3>6, <3>1, <2>1 DEF FollowRun, Awaits
      <4> QED BY <4>1, <3>2
    <3>7. CASE ShowJob(c)
      <4>1. Ends(c) \/ (Goes(c, "poll") /\ Awaits(On("poll"))) \/ (Goes(c, "result") /\ Awaits(On("result")))
        BY <3>7, <3>1, <2>1 DEF ShowJob, Awaits
      <4> QED BY <4>1, <3>2
    <3>8. CASE ShowResult(c)
      <4>1. Ends(c) \/ (Goes(c, "reload") /\ Awaits(On("reload")))
        BY <3>8, <3>1, <2>1 DEF ShowResult, Awaits
      <4> QED BY <4>1, <3>2
    <3>9. CASE ShowSource(c) \/ ReloadAfterUpload(c) \/ ReloadAfterRun(c) \/ DeckDeleted(c)
      BY <3>9, <3>2 DEF ShowSource, ReloadAfterUpload, ReloadAfterRun, DeckDeleted
    <3> QED BY <1>7, <3>3, <3>4, <3>5, <3>6, <3>7, <3>8, <3>9
  <2>3. /\ calls' \subseteq [handler : Handlers, deck : Decks, at : Places, run : 0 .. latestRun']
        /\ \A d \in calls' : Awaits(d)
    BY <2>1, <2>2, CallsThatGoOn, CallsThatEnd DEF ScreenTypes
  <2>4. /\ deck' \in Decks \cup {Nothing} /\ activeDeckRef' \in Decks \cup {Nothing}
        /\ stored' \subseteq Decks
    BY <1>7, <2>1 DEF ScreenTypes, ShowDocument, ShowCards, ShowSource, UploadStored, ReloadAfterUpload,
                      FollowRun, ShowJob, ShowResult, ReloadAfterRun, DeckDeleted
  <2>5. pages' \in Parts /\ source' \in Parts /\ cards' \in Parts /\ panel' \in Parts
    BY <1>7, <2>1 DEF ScreenTypes, ShowDocument, ShowCards, ShowSource, UploadStored, ReloadAfterUpload,
                      FollowRun, ShowJob, ShowResult, ReloadAfterRun, DeckDeleted
  <2> QED BY <2>1, <2>3, <2>4, <2>5 DEF ScreenTypes
<1> QED BY <1>1, <1>2, <1>3, <1>4, <1>5, <1>6, <1>7 DEF Step

-----------------------------------------------------------------------------
(* The screen, while nothing raced. *)

OnScreen == OneAtATime /\ RunsAreOnScreen /\ HandlersKnowTheScreen /\ DocumentIsShown /\ CardsAreShown

\* A step that records no race leaves one handler besides the runs, every run
\* whose answer is written blindly on its deck, and no look was passed late.
LEMMA NoRace ==
  ASSUME Step, raced' = raced \cup Races, raced' = {}
  PROVE  /\ raced = {}
         /\ OneAtATime' /\ RunsAreOnScreen'
         /\ \A c \in calls \ calls' : c.handler = "run" => ~Stale(c)
<1>1. raced = {} /\ Races = {}
  OBVIOUS
<1>2. "overlap" \notin Races /\ "late" \notin Races /\ "lag" \notin Races
  BY <1>1
<1>3. OneAtATime'
  <2>1. ~ \E c, d \in calls' : c # d /\ "run" \notin {c.handler, d.handler}
    BY <1>2 DEF Races
  <2> QED BY <2>1 DEF OneAtATime
<1>4. RunsAreOnScreen'
  <2>1. ~ \E c \in calls' : c.handler = "run" /\ c.at \in {"job", "reload"} /\ c.deck # deck'
    BY <1>2 DEF Races
  <2> QED BY <2>1 DEF RunsAreOnScreen
<1>5. ~ \E c \in calls \ calls' : c.handler = "run" /\ Stale(c)
  BY <1>2 DEF Races
<1> QED BY <1>1, <1>3, <1>4, <1>5

\* The handler that begins or goes on is then the only one besides the runs.
LEMMA TheHandlerInFlight ==
  ASSUME OneAtATime', NEW e \in calls', e.handler # "run"
  PROVE  /\ \A d \in calls' : d.handler = "run" \/ d = e
         /\ \A S : Awaited(S)' <=> Opening(e, S)
<1>1. \A d \in calls' : d.handler = "run" \/ d = e
  BY DEF OneAtATime
<1> QED BY <1>1 DEF Awaited, Opening

LEMMA NoHandlerInFlight ==
  ASSUME OneAtATime, NEW c \in calls, c.handler # "run", Ends(c)
  PROVE  /\ \A d \in calls' : d.handler = "run"
         /\ \A S : ~Awaited(S)'
<1>1. \A d \in calls' : d.handler = "run"
  BY DEF OneAtATime, Ends
<1> QED BY <1>1 DEF Awaited, Opening

LEMMA RunsAreNoHandlers ==
  ASSUME calls \ calls' \subseteq {c \in calls : c.handler = "run"},
         calls' \ calls \subseteq {c \in calls' : c.handler = "run"}
  PROVE  /\ \A d \in calls' : d.handler = "run" \/ d \in calls
         /\ \A S : Awaited(S)' <=> Awaited(S)
BY DEF Awaited, Opening

LEMMA StepKeepsScreen ==
  ASSUME ScreenTypes, OnScreen, Step, raced' = raced \cup Races, raced' = {}
  PROVE  OnScreen'
<1> DEFINE Shown == HandlersKnowTheScreen' /\ DocumentIsShown' /\ CardsAreShown'
<1> USE PartsAreRead, KindsOfDeck, NoRace
<1>0. SUFFICES Shown
  BY DEF OnScreen
<1>1. CASE Render
  BY <1>1 DEF Render, OnScreen, HandlersKnowTheScreen, DocumentIsShown, CardsAreShown, Awaited
<1>2. CASE StartRun
  <2> DEFINE c == Call("run", deck, "queued", latestRun + 1)
  <2>1. calls' = calls \cup {c} /\ c.handler = "run"
    BY <1>2, CallsAreRecords DEF StartRun, Begins
  <2> HIDE DEF c
  <2>2. /\ \A d \in calls' : d.handler = "run" \/ d \in calls
        /\ \A S : Awaited(S)' <=> Awaited(S)
    BY <2>1, RunsAreNoHandlers
  <2>3. deck # Nothing /\ UNCHANGED <<deck, pages, source, cards>> /\ panel' = Empty
    BY <1>2 DEF StartRun, Decks
  <2>4. HandlersKnowTheScreen'
    BY <2>2, <2>3 DEF OnScreen, HandlersKnowTheScreen, Opening
  <2>5. DocumentIsShown'
    BY <2>2, <2>3 DEF OnScreen, DocumentIsShown
  <2>6. CardsAreShown'
    BY <2>2, <2>3 DEF OnScreen, CardsAreShown
  <2> QED BY <2>4, <2>5, <2>6
<1>3. ASSUME NEW k \in Decks, BeginOpenStored(k) PROVE Shown
  <2> DEFINE e == Call("open", k, "document", 0)
  <2>1. e \in calls' /\ e.handler = "open" /\ e.deck = k /\ e.at = "document" /\ k \notin Lent
    BY <1>3, CallsAreRecords DEF BeginOpenStored, Begins
  <2>2. \A S : ~Opening(e, S)
    BY <2>1 DEF Opening
  <2> HIDE DEF e
  <2>3. /\ \A d \in calls' : d.handler = "run" \/ d = e
        /\ \A S : ~Awaited(S)'
    BY <2>1, <2>2, TheHandlerInFlight
  <2>4. UNCHANGED <<deck, pages, source, cards, panel>>
    BY <1>3 DEF BeginOpenStored
  <2>5. HandlersKnowTheScreen'
    BY <2>1, <2>2, <2>3 DEF HandlersKnowTheScreen, Opening
  <2>6. OneAtATime /\ \A S : ~Awaited(S)
    BY <1>3, <2>3 DEF OnScreen, BeginOpenStored, Begins, Awaited
  <2>7. DocumentIsShown'
    BY <2>3, <2>4, <2>6 DEF OnScreen, DocumentIsShown
  <2>8. CardsAreShown'
    BY <2>3, <2>4, <2>6 DEF OnScreen, CardsAreShown
  <2> QED BY <2>5, <2>7, <2>8
<1>4. ASSUME NEW k \in Decks, BeginOpenShared(k) PROVE Shown
  <2> DEFINE e == Call("open", k, IF k \in Lent THEN "document" ELSE "cards", 0)
  <2>1. /\ e \in calls' /\ e.handler = "open" /\ e.deck = k
        /\ e.at = (IF k \in Lent THEN "document" ELSE "cards")
    BY <1>4, CallsAreRecords DEF BeginOpenShared, Begins
  <2>2. Opening(e, {"document", "cards", "source"}) /\ Opening(e, {"document", "cards"})
        /\ (k \in Lent => Opening(e, {"document"}))
    BY <2>1 DEF Opening
  <2> HIDE DEF e
  <2>3. /\ \A d \in calls' : d.handler = "run" \/ d = e
        /\ \A S : Awaited(S)' <=> Opening(e, S)
    BY <2>1, TheHandlerInFlight
  <2>4. HandlersKnowTheScreen'
    BY <1>4, <2>1, <2>3 DEF HandlersKnowTheScreen, BeginOpenShared, Opening
  <2>5. DocumentIsShown'
    BY <1>4, <2>2, <2>3 DEF DocumentIsShown, BeginOpenShared
  <2>6. CardsAreShown'
    BY <1>4, <2>2, <2>3 DEF CardsAreShown, BeginOpenShared
  <2> QED BY <2>4, <2>5, <2>6
<1>5. ASSUME NEW k \in Decks, Upload(k) PROVE Shown
  <2> DEFINE e == Call("upload", k, "store", 0)
  <2>1. e \in calls' /\ e.handler = "upload" /\ e.deck = k /\ e.at = "store"
    BY <1>5, CallsAreRecords DEF Upload, Begins
  <2> HIDE DEF e
  <2>3. \A d \in calls' : d.handler = "run" \/ d = e
    BY <2>1, TheHandlerInFlight
  <2>4. deck' = Nothing /\ pages'.of = k /\ source'.of = k /\ cards' = Empty /\ panel' = Empty
    BY <1>5 DEF Upload
  <2>5. HandlersKnowTheScreen'
    BY <2>1, <2>3, <2>4 DEF HandlersKnowTheScreen, Opening
  <2>6. DocumentIsShown' /\ CardsAreShown'
    BY <2>4 DEF DocumentIsShown, CardsAreShown, Decks
  <2> QED BY <2>5, <2>6
<1>6. ASSUME NEW k \in Decks, BeginDelete(k) PROVE Shown
  <2> DEFINE e == Call("delete", k, IF deck = k THEN "open" ELSE "other", 0)
  <2>1. e \in calls' /\ e.handler = "delete" /\ e.deck = k /\ (e.at = "open" <=> deck = k)
    BY <1>6, CallsAreRecords DEF BeginDelete, Begins
  <2>2. \A S : ~Opening(e, S)
    BY <2>1 DEF Opening
  <2> HIDE DEF e
  <2>3. /\ \A d \in calls' : d.handler = "run" \/ d = e
        /\ \A S : ~Awaited(S)'
    BY <2>1, <2>2, TheHandlerInFlight
  <2>4. UNCHANGED <<deck, pages, source, cards, panel>>
    BY <1>6 DEF BeginDelete
  <2>5. HandlersKnowTheScreen'
    BY <2>1, <2>2, <2>3, <2>4 DEF HandlersKnowTheScreen, Opening
  <2>6. \A S : ~Awaited(S)
    BY <1>6, <2>3 DEF BeginDelete, Begins, Awaited
  <2>7. DocumentIsShown'
    BY <2>3, <2>4, <2>6 DEF OnScreen, DocumentIsShown
  <2>8. CardsAreShown'
    BY <2>3, <2>4, <2>6 DEF OnScreen, CardsAreShown
  <2> QED BY <2>5, <2>7, <2>8
<1>7. ASSUME NEW c \in calls, ShowDocument(c) PROVE Shown
  <2> DEFINE e == [c EXCEPT !.at = "cards"]
  <2>1. e \in calls' /\ e.handler = "open" /\ e.deck = c.deck /\ e.at = "cards"
    BY <1>7, MovedOn DEF ShowDocument, Goes
  <2>2. Opening(e, {"document", "cards", "source"}) /\ Opening(e, {"document", "cards"})
    BY <2>1 DEF Opening
  <2> HIDE DEF e
  <2>3. /\ \A d \in calls' : d.handler = "run" \/ d = e
        /\ \A S : Awaited(S)' <=> Opening(e, S)
    BY <2>1, TheHandlerInFlight
  <2>4. /\ c.deck \in Decks \ ForStudy /\ c.deck # Nothing
        /\ c.deck \in Lent => deck = c.deck
    BY <1>7 DEF ScreenTypes, Awaits, OnScreen, HandlersKnowTheScreen, Opening, ShowDocument
  <2>5. /\ deck' = c.deck /\ pages'.of = c.deck /\ UNCHANGED <<source, cards>>
        /\ panel'.of \in {c.deck, Nothing}
    <3>1. c.deck \in Lent => UNCHANGED <<deck, panel>> /\ panel.of \in {deck, Nothing}
      BY <1>7, <2>4 DEF ShowDocument, OnScreen, CardsAreShown
    <3> QED BY <1>7, <2>4, <3>1 DEF ShowDocument
  <2>6. HandlersKnowTheScreen'
    BY <2>1, <2>3, <2>5 DEF HandlersKnowTheScreen, Opening
  <2>7. DocumentIsShown'
    BY <2>2, <2>3, <2>4, <2>5 DEF DocumentIsShown
  <2>8. CardsAreShown'
    BY <2>2, <2>3, <2>4, <2>5 DEF CardsAreShown
  <2> QED BY <2>6, <2>7, <2>8
<1>8. ASSUME NEW c \in calls, ShowCards(c) PROVE Shown
  <2>1. /\ c.deck \in Decks /\ deck = c.deck /\ deck # Nothing
        /\ cards'.of = deck /\ UNCHANGED <<deck, pages, source, panel>>
    BY <1>8 DEF ScreenTypes, OnScreen, HandlersKnowTheScreen, Opening, ShowCards
  <2>2. ~Awaited({"document"})
    BY <1>8 DEF OnScreen, OneAtATime, Awaited, Opening, ShowCards
  <2>3. CardsAreShown'
    BY <2>1 DEF OnScreen, CardsAreShown
  <2>4. CASE c.deck \in ForStudy
    <3>1. \A d \in calls' : d.handler = "run"
      BY <1>8, <2>4, NoHandlerInFlight DEF OnScreen, ShowCards
    <3>2. HandlersKnowTheScreen'
      BY <3>1 DEF HandlersKnowTheScreen, Opening
    <3>3. DocumentIsShown'
      BY <2>1, <2>4 DEF OnScreen, DocumentIsShown
    <3> QED BY <2>3, <3>2, <3>3
  <2>5. CASE c.deck \notin ForStudy
    <3> DEFINE e == [c EXCEPT !.at = "source"]
    <3>1. e \in calls' /\ e.handler = "open" /\ e.deck = c.deck /\ e.at = "source"
      BY <1>8, <2>5, MovedOn DEF ShowCards, Goes
    <3>2. Opening(e, {"document", "cards", "source"})
      BY <3>1 DEF Opening
    <3> HIDE DEF e
    <3>3. /\ \A d \in calls' : d.handler = "run" \/ d = e
          /\ \A S : Awaited(S)' <=> Opening(e, S)
      BY <3>1, TheHandlerInFlight
    <3>4. HandlersKnowTheScreen'
      BY <2>1, <3>1, <3>3 DEF HandlersKnowTheScreen, Opening
    <3>5. DocumentIsShown'
      BY <2>1, <2>2, <2>5, <3>2, <3>3 DEF OnScreen, DocumentIsShown
    <3> QED BY <2>3, <3>4, <3>5
  <2> QED BY <2>4, <2>5
<1>9. ASSUME NEW c \in calls, ShowSource(c) PROVE Shown
  <2>1. /\ c.deck \in Decks \ ForStudy /\ deck = c.deck /\ deck # Nothing
        /\ source'.of = deck /\ UNCHANGED <<deck, pages, cards, panel>>
    BY <1>9 DEF ScreenTypes, Awaits, OnScreen, HandlersKnowTheScreen, Opening, ShowSource
  <2>2. ~Awaited({"document"}) /\ ~Awaited({"document", "cards"})
    BY <1>9 DEF OnScreen, OneAtATime, Awaited, Opening, ShowSource
  <2>3. \A d \in calls' : d.handler = "run"
    BY <1>9, NoHandlerInFlight DEF OnScreen, ShowSource
  <2>4. HandlersKnowTheScreen'
    BY <2>3 DEF HandlersKnowTheScreen, Opening
  <2>5. DocumentIsShown'
    BY <2>1, <2>2 DEF OnScreen, DocumentIsShown
  <2>6. CardsAreShown'
    BY <2>1, <2>2 DEF OnScreen, CardsAreShown
  <2> QED BY <2>4, <2>5, <2>6
<1>10. ASSUME NEW c \in calls, UploadStored(c) PROVE Shown
  <2> DEFINE e == [c EXCEPT !.at = "reload"]
  <2>1. e \in calls' /\ e.handler = "upload" /\ e.deck = c.deck /\ e.at = "reload"
    BY <1>10, MovedOn DEF UploadStored, Goes
  <2> HIDE DEF e
  <2>2. \A d \in calls' : d.handler = "run" \/ d = e
    BY <2>1, TheHandlerInFlight
  <2>3. /\ c.deck \in New /\ c.deck \in Decks /\ panel = Empty /\ cards = Empty
        /\ pages.of = c.deck /\ source.of = c.deck
        /\ deck' = c.deck /\ UNCHANGED <<pages, source, cards, panel>>
    BY <1>10 DEF ScreenTypes, Awaits, OnScreen, HandlersKnowTheScreen, UploadStored
  <2>4. HandlersKnowTheScreen'
    BY <2>1, <2>2, <2>3 DEF HandlersKnowTheScreen, Opening
  <2>5. DocumentIsShown' /\ CardsAreShown'
    BY <2>3 DEF DocumentIsShown, CardsAreShown
  <2> QED BY <2>4, <2>5
<1>11. ASSUME NEW c \in calls, ReloadAfterUpload(c) PROVE Shown
  <2>1. /\ deck = c.deck /\ c.deck \in New /\ pages'.of = deck
        /\ UNCHANGED <<deck, source, cards, panel>>
    BY <1>11 DEF ScreenTypes, Awaits, OnScreen, HandlersKnowTheScreen, ReloadAfterUpload
  <2>2. \A S : ~Awaited(S)
    BY <1>11 DEF OnScreen, OneAtATime, Awaited, Opening, ReloadAfterUpload
  <2>3. \A d \in calls' : d.handler = "run"
    BY <1>11, NoHandlerInFlight DEF OnScreen, ReloadAfterUpload
  <2>4. HandlersKnowTheScreen'
    BY <2>3 DEF HandlersKnowTheScreen, Opening
  <2>5. DocumentIsShown' /\ CardsAreShown'
    BY <2>1, <2>2 DEF OnScreen, DocumentIsShown, CardsAreShown
  <2> QED BY <2>4, <2>5
<1>12. ASSUME NEW c \in calls, DeckDeleted(c) PROVE Shown
  <2>1. \A S : ~Awaited(S)
    BY <1>12 DEF OnScreen, OneAtATime, Awaited, Opening, DeckDeleted
  <2>2. \A d \in calls' : d.handler = "run"
    BY <1>12, NoHandlerInFlight DEF OnScreen, DeckDeleted
  <2>3. HandlersKnowTheScreen'
    BY <2>2 DEF HandlersKnowTheScreen, Opening
  <2>4. CASE c.at = "open"
    BY <1>12, <2>3, <2>4 DEF DeckDeleted, DocumentIsShown, CardsAreShown, Decks
  <2>5. CASE c.at # "open"
    BY <1>12, <2>1, <2>3, <2>5 DEF DeckDeleted, OnScreen, DocumentIsShown, CardsAreShown
  <2> QED BY <2>4, <2>5
<1>13. ASSUME NEW c \in calls,
              FollowRun(c) \/ ShowJob(c) \/ ShowResult(c) \/ ReloadAfterRun(c)
       PROVE  Shown
  <2>1. c.handler = "run" /\ c.deck \in Own \cup New /\ c.deck \in Decks
    BY <1>13 DEF FollowRun, ShowJob, ShowResult, ReloadAfterRun, ScreenTypes, Awaits
  <2>2. /\ \A d \in calls' : d.handler = "run" \/ d \in calls
        /\ \A S : Awaited(S)' <=> Awaited(S)
        /\ c \notin calls' 
    <3>1. \A at : [c EXCEPT !.at = at].handler = "run"
      BY <2>1, MovedOn
    <3>2. Ends(c) \/ \E at : Goes(c, at) /\ at # c.at
      BY <1>13 DEF FollowRun, ShowJob, ShowResult, ReloadAfterRun
    <3>3. ASSUME NEW at, [c EXCEPT !.at = at] = c PROVE at = c.at
      <4> DEFINE e == [c EXCEPT !.at = at]
      <4>1. e.at = at
        BY MovedOn
      <4>2. e = c
        BY <3>3
      <4> HIDE DEF e
      <4> QED BY <4>1, <4>2
    <3>4. c \notin calls'
      BY <3>2, <3>3 DEF Ends, Goes
    <3>5. calls \ calls' \subseteq {d \in calls : d.handler = "run"}
      BY <2>1, <3>2 DEF Ends, Goes
    <3>6. calls' \ calls \subseteq {d \in calls' : d.handler = "run"}
      BY <2>1, <3>1, <3>2 DEF Ends, Goes
    <3> QED BY <3>4, <3>5, <3>6, RunsAreNoHandlers
  <2>3. UNCHANGED <<deck, source>>
    BY <1>13 DEF FollowRun, ShowJob, ShowResult, ReloadAfterRun
  <2>4. StillCurrent(c) => deck = c.deck
    BY <2>1, <2>2 DEF Stale
  <2>5. /\ pages' = pages \/ (deck = c.deck /\ pages'.of = deck)
        /\ cards' = cards \/ (deck = c.deck /\ cards'.of = deck)
        /\ panel' = panel \/ (deck = c.deck /\ panel'.of = deck)
    BY <1>13, <2>4 DEF FollowRun, ShowJob, ShowResult, ReloadAfterRun, OnScreen, RunsAreOnScreen
  <2>6. HandlersKnowTheScreen'
    <3>1. (\E d \in calls : d.handler = "upload" /\ d.at = "store") =>
            deck = Nothing /\ UNCHANGED <<pages, cards, panel>>
      BY <2>1, <2>5 DEF OnScreen, HandlersKnowTheScreen
    <3> QED BY <2>2, <2>3, <3>1 DEF OnScreen, HandlersKnowTheScreen, Opening
  <2>7. DocumentIsShown'
    BY <2>1, <2>2, <2>3, <2>5 DEF OnScreen, DocumentIsShown
  <2>8. CardsAreShown'
    BY <2>1, <2>2, <2>3, <2>5 DEF OnScreen, CardsAreShown
  <2> QED BY <2>6, <2>7, <2>8
<1> QED BY <1>1, <1>2, <1>3, <1>4, <1>5, <1>6, <1>7, <1>8, <1>9, <1>10, <1>11, <1>12, <1>13 DEF Step

LEMMA NextScreenInv == ScreenInv /\ [ScreenNext]_screenVars => ScreenInv'
<1> SUFFICES ASSUME ScreenInv, [ScreenNext]_screenVars PROVE ScreenInv'
  OBVIOUS
<1>1. CASE Step /\ raced' = raced \cup Races
  <2>1. ScreenTypes'
    BY <1>1, StepKeepsTypes DEF ScreenInv
  <2>2. ASSUME raced' = {} PROVE OnScreen'
    <3>1. raced = {}
      BY <1>1, <2>2
    <3> QED BY <1>1, <2>2, <3>1, StepKeepsScreen DEF ScreenInv, OnScreen
  <2> QED BY <2>1, <2>2 DEF ScreenInv, OnScreen
<1>2. ASSUME NEW c \in calls, Fail(c),
             raced' = raced \cup (IF c.handler = "run" THEN {} ELSE {"failed"})
      PROVE  ScreenInv'
  <2>1. ScreenTypes'
    BY <1>2, CallsThatEnd DEF Fail, ScreenInv, ScreenTypes
  <2>2. ASSUME raced' = {} PROVE OnScreen'
    <3>1. raced = {} /\ c.handler = "run"
      BY <1>2, <2>2
    <3>2. calls' \subseteq calls /\ UNCHANGED <<deck, pages, source, cards, panel>>
      BY <1>2 DEF Fail, Ends
    <3>3. \A S : Awaited(S)' <=> Awaited(S)
      BY <1>2, <3>1 DEF Fail, Ends, Awaited, Opening
    <3>4. OneAtATime' /\ RunsAreOnScreen' /\ HandlersKnowTheScreen'
      BY <3>1, <3>2 DEF ScreenInv, OneAtATime, RunsAreOnScreen, HandlersKnowTheScreen, Opening
    <3>5. DocumentIsShown' /\ CardsAreShown'
      BY <3>1, <3>2, <3>3 DEF ScreenInv, DocumentIsShown, CardsAreShown
    <3> QED BY <3>4, <3>5 DEF OnScreen
  <2> QED BY <2>1, <2>2 DEF ScreenInv, OnScreen
<1>3. CASE UNCHANGED screenVars
  BY <1>3 DEF screenVars, ScreenInv, ScreenTypes, OneAtATime, RunsAreOnScreen, HandlersKnowTheScreen,
              DocumentIsShown, CardsAreShown, Awaited, Opening
<1> QED BY <1>1, <1>2, <1>3 DEF ScreenNext

LEMMA ScreenInvShows == ScreenInv => ScreenShowsOneDeck
<1> SUFFICES ASSUME ScreenInv PROVE ScreenShowsOneDeck
  OBVIOUS
<1>1. ScreenTypeOK
  <2>1. latestRun \in 0 .. MaxBegun
    BY WorkspaceAssumption DEF ScreenInv, ScreenTypes
  <2>2. \A c \in calls : c.deck \in Decks /\ c.run \in 0 .. latestRun
    BY DEF ScreenInv, ScreenTypes
  <2> QED BY <2>1, <2>2 DEF ScreenInv, ScreenTypes, ScreenTypeOK
<1>2. ASSUME Quiet, raced = {} PROVE \A S : ~Awaited(S)
  BY <1>2 DEF Quiet, Awaited
<1>3. ASSUME Quiet, raced = {}
      PROVE  /\ OfDeckOnScreen(cards)
             /\ deck # Nothing => OfDeckOnScreen(pages) /\ OfDeckOnScreen(source) /\ OfDeckOnScreen(panel)
             /\ deck \in Decks => cards.of = deck \/ deck \in New
             /\ deck \in ForStudy => pages = Empty /\ source = Empty
             /\ deck \in Decks \ ForStudy => pages.of = deck
  <2>1. DocumentIsShown /\ CardsAreShown /\ deck \in Decks \cup {Nothing}
    BY <1>3 DEF ScreenInv, ScreenTypes
  <2>2. ~Awaited({"document"}) /\ ~Awaited({"document", "cards"}) /\ ~Awaited({"document", "cards", "source"})
    BY <1>2, <1>3
  <2> QED BY <2>1, <2>2, PartsAreRead, KindsOfDeck DEF DocumentIsShown, CardsAreShown, OfDeckOnScreen
<1> QED BY <1>1, <1>3 DEF ScreenShowsOneDeck

\* For any decks and any number of handlers: at rest, and unless one of the
\* named races happened, everything on the screen is of the deck that is open
\* (App.tsx:197-201).
THEOREM SpecScreenShowsOneDeck == ScreenSpec => []ScreenShowsOneDeck
BY InitScreenInv, NextScreenInv, ScreenInvShows, PTL DEF ScreenSpec
=============================================================================
