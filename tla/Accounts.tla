------------------------------ MODULE Accounts ------------------------------
(***************************************************************************)
(* Accounts, invitations, sessions and the throttle on signing in          *)
(* (apps/api/src/auth, routes/public.ts and the account routes of          *)
(* routes/admin.ts).                                                       *)
(*                                                                         *)
(* The API is one process: a handler runs alone until it awaits the body   *)
(* of its request or the hash of a password.  What a handler decides       *)
(* before that await is an action Begin..., which keeps what it read in    *)
(* the record of the request; what it does after it is Finish....  A       *)
(* handler that never awaits after its first read is one action.           *)
(*                                                                         *)
(* An account is named by its address, which users.email makes unique and  *)
(* no code changes or removes.  Spend limits are in Budget; tokens,        *)
(* cookies, CSRF and origins are taken to be right.                        *)
(***************************************************************************)
EXTENDS Naturals, FiniteSets

CONSTANTS
    Emails,         \* the addresses that may have an account
    Invitations,    \* rows of invitations
    Requests,       \* requests the API can have in flight at once
    MaxFailed,      \* MAX_FAILED_ATTEMPTS (throttle.ts:7)
    MaxSessions     \* bound on the open sessions of one account

ASSUME AccountsAssumption ==
    /\ MaxFailed \in Nat \ {0}
    /\ MaxSessions \in Nat \ {0}
    /\ IsFiniteSet(Requests)

VARIABLES
    users,          \* users: the account of an address
    invitations,    \* invitations
    sessions,       \* sessions neither revoked nor expired, by account
    failures,       \* login_attempts that failed within LOGIN_WINDOW_SECONDS
    requests        \* handlers waiting for a body or a hash

vars == <<users, invitations, sessions, failures, requests>>

Roles == {"admin", "member"}
Statuses == {"active", "disabled"}

NoUser == [role |-> "none"]
NoInvitation == [status |-> "none"]
Idle == [kind |-> "idle"]

User == [role : Roles, status : Statuses, invited : BOOLEAN]

Invitation == [email : Emails, role : Roles,
               status : {"pending", "expired", "accepted", "revoked"}]

Request ==
    [kind : {"setup"}, email : Emails]
        \cup [kind : {"accept"}, invitation : Invitations]
        \cup [kind : {"login"}, email : Emails, opens : BOOLEAN]
        \cup [kind : {"invite"}, email : Emails, role : Roles]
        \cup [kind : {"patch"}, actor : Emails, email : Emails, status : Statuses]

TypeOK ==
    /\ users \in [Emails -> User \cup {NoUser}]
    /\ invitations \in [Invitations -> Invitation \cup {NoInvitation}]
    /\ sessions \in [Emails -> 0 .. MaxSessions]
    /\ failures \in [Emails -> 0 .. (MaxFailed + Cardinality(Requests) - 1)]
    /\ requests \in [Requests -> Request \cup {Idle}]

Init ==
    /\ users = [e \in Emails |-> NoUser]
    /\ invitations = [i \in Invitations |-> NoInvitation]
    /\ sessions = [e \in Emails |-> 0]
    /\ failures = [e \in Emails |-> 0]
    /\ requests = [r \in Requests |-> Idle]

-----------------------------------------------------------------------------
(* What handlers read *)

Accounts == {e \in Emails : users[e] # NoUser}

\* resolveSession: a session that is not revoked and not expired, of an
\* account that is active when it is asked.
MayAct(e) == e \in Accounts /\ users[e].status = "active" /\ sessions[e] > 0

\* requireAdmin
MayAdminister(e) == MayAct(e) /\ users[e].role = "admin"

\* The row insertUser writes; a second row for an address is refused by the
\* unique index.
NewUser(role, invited) == [role |-> role, status |-> "active", invited |-> invited]

\* createSession.  At the bound, the oldest session of the account has expired.
OpenSession(e) ==
    sessions' = [sessions EXCEPT ![e] = IF @ < MaxSessions THEN @ + 1 ELSE @]

Start(r, request) ==
    /\ requests[r] = Idle
    /\ requests' = [requests EXCEPT ![r] = request]

Answered(r) == requests' = [requests EXCEPT ![r] = Idle]

-----------------------------------------------------------------------------
(* POST /api/bootstrap *)

\* bootstrapAdministrator up to the hash: refused once an account exists.
BeginSetup(r, e) ==
    /\ Accounts = {}
    /\ Start(r, [kind |-> "setup", email |-> e])
    /\ UNCHANGED <<users, invitations, sessions, failures>>

\* The insert does not look again at whether accounts exist.
FinishSetup(r) ==
    /\ requests[r].kind = "setup"
    /\ LET e == requests[r].email
       IN  IF e \in Accounts
             THEN UNCHANGED <<users, sessions>>
             ELSE /\ users' = [users EXCEPT ![e] = NewUser("admin", FALSE)]
                  /\ OpenSession(e)
    /\ Answered(r)
    /\ UNCHANGED <<invitations, failures>>

-----------------------------------------------------------------------------
(* Invitations *)

\* POST /api/admin/invitations: the administrator is checked, then the body
\* is awaited.
BeginInvite(r, a, e, role) ==
    /\ MayAdminister(a)
    /\ Start(r, [kind |-> "invite", email |-> e, role |-> role])
    /\ UNCHANGED <<users, invitations, sessions, failures>>

\* issueInvitation: refused for an address that has an account.
FinishInvite(r, i) ==
    /\ requests[r].kind = "invite"
    /\ invitations[i] = NoInvitation
    /\ invitations' =
         IF requests[r].email \in Accounts
           THEN invitations
           ELSE [invitations EXCEPT ![i] =
                   [email |-> requests[r].email, role |-> requests[r].role,
                    status |-> "pending"]]
    /\ Answered(r)
    /\ UNCHANGED <<users, sessions, failures>>

\* revokeInvitation: reads and writes without an await between them.  Rows
\* past expires_at are still 'pending' to it.
Revoke(a, i) ==
    /\ MayAdminister(a)
    /\ invitations[i].status \in {"pending", "expired"}
    /\ invitations' = [invitations EXCEPT ![i].status = "revoked"]
    /\ UNCHANGED <<users, sessions, failures, requests>>

\* expires_at of a pending invitation passes.
InvitationExpires(i) ==
    /\ invitations[i].status = "pending"
    /\ invitations' = [invitations EXCEPT ![i].status = "expired"]
    /\ UNCHANGED <<users, sessions, failures, requests>>

\* acceptInvitation up to the hash: only that the token names a row.
BeginAccept(r, i) ==
    /\ invitations[i] # NoInvitation
    /\ Start(r, [kind |-> "accept", invitation |-> i])
    /\ UNCHANGED <<users, invitations, sessions, failures>>

\* Variant: the acceptance trusts the row it read before hashing, as if it
\* had been pending, and consumes whatever is there now.
FinishAcceptOfTheRowReadFirst(r) ==
    /\ requests[r].kind = "accept"
    /\ LET i == requests[r].invitation
           e == invitations[i].email
       IN  IF e \notin Accounts
             THEN /\ users' = [users EXCEPT ![e] = NewUser(invitations[i].role, TRUE)]
                  /\ invitations' = [invitations EXCEPT ![i].status = "accepted"]
                  /\ OpenSession(e)
             ELSE UNCHANGED <<users, invitations, sessions>>
    /\ Answered(r)
    /\ UNCHANGED failures

\* Variant: only the invitation is read again, and not the address.
FinishAcceptOfAnyAddress(r) ==
    /\ requests[r].kind = "accept"
    /\ LET i == requests[r].invitation
           e == invitations[i].email
       IN  IF invitations[i].status = "pending"
             THEN /\ users' = [users EXCEPT ![e] = NewUser(invitations[i].role, TRUE)]
                  /\ invitations' = [invitations EXCEPT ![i].status = "accepted"]
                  /\ OpenSession(e)
             ELSE UNCHANGED <<users, invitations, sessions>>
    /\ Answered(r)
    /\ UNCHANGED failures

\* The transaction of acceptInvitation and the session of its handler: the
\* row is read again, the address must be free, and the conditional UPDATE
\* consumes the invitation or everything is rolled back.
FinishAccept(r) ==
    /\ requests[r].kind = "accept"
    /\ LET i == requests[r].invitation
           e == invitations[i].email
       IN  IF invitations[i].status = "pending" /\ e \notin Accounts
             THEN /\ users' = [users EXCEPT ![e] = NewUser(invitations[i].role, TRUE)]
                  /\ invitations' = [invitations EXCEPT ![i].status = "accepted"]
                  /\ OpenSession(e)
             ELSE UNCHANGED <<users, invitations, sessions>>
    /\ Answered(r)
    /\ UNCHANGED failures

-----------------------------------------------------------------------------
(* Signing in and out *)

\* A failure leaves the window of assertLoginNotThrottled.
AttemptAges(e) ==
    /\ failures[e] > 0
    /\ failures' = [failures EXCEPT ![e] = @ - 1]
    /\ UNCHANGED <<users, invitations, sessions, requests>>

\* POST /api/auth/login up to the password's hash: the throttle, and the row
\* of the account as it is now.
BeginLogin(r, e, right) ==
    /\ failures[e] < MaxFailed
    /\ Start(r, [kind |-> "login", email |-> e,
                 opens |-> right /\ e \in Accounts /\ users[e].status = "active"])
    /\ UNCHANGED <<users, invitations, sessions, failures>>

\* The rest of it decides by the row read before the hash.
FinishLogin(r) ==
    /\ requests[r].kind = "login"
    /\ LET e == requests[r].email
       IN  IF requests[r].opens
             THEN /\ failures' = [failures EXCEPT ![e] = 0]
                  /\ OpenSession(e)
             ELSE /\ failures' = [failures EXCEPT ![e] = @ + 1]
                  /\ UNCHANGED sessions
    /\ Answered(r)
    /\ UNCHANGED <<users, invitations>>

\* POST /api/auth/logout, through a session that still resolves.
Logout(e) ==
    /\ MayAct(e)
    /\ sessions' = [sessions EXCEPT ![e] = @ - 1]
    /\ UNCHANGED <<users, invitations, failures, requests>>

\* expires_at of a session passes (SESSION_TTL_SECONDS).
SessionExpires(e) ==
    /\ sessions[e] > 0
    /\ sessions' = [sessions EXCEPT ![e] = @ - 1]
    /\ UNCHANGED <<users, invitations, failures, requests>>

-----------------------------------------------------------------------------
(* PATCH /api/admin/users/:id *)

BeginPatch(r, a, e, status) ==
    /\ MayAdminister(a)
    /\ e \in Accounts
    /\ Start(r, [kind |-> "patch", actor |-> a, email |-> e, status |-> status])
    /\ UNCHANGED <<users, invitations, sessions, failures>>

\* disableUser revokes every session in the transaction that disables the
\* account; enableUser writes the account alone.  Neither asks again whether
\* the actor may act.
FinishPatch(r) ==
    /\ requests[r].kind = "patch"
    /\ LET e == requests[r].email
           status == requests[r].status
       IN  IF status = "disabled" /\ requests[r].actor = e
             THEN UNCHANGED <<users, sessions>>
             ELSE /\ users' = [users EXCEPT ![e].status = status]
                  /\ sessions' = IF status = "disabled"
                                   THEN [sessions EXCEPT ![e] = 0]
                                   ELSE sessions
    /\ Answered(r)
    /\ UNCHANGED <<invitations, failures>>

\* The process stops and is started again: rows stay, requests are lost.
Restart ==
    /\ requests' = [r \in Requests |-> Idle]
    /\ UNCHANGED <<users, invitations, sessions, failures>>

-----------------------------------------------------------------------------

Finish(r) ==
    \/ FinishSetup(r)
    \/ \E i \in Invitations : FinishInvite(r, i)
    \/ FinishAccept(r)
    \/ FinishLogin(r)
    \/ FinishPatch(r)

Begin(r) ==
    \/ \E e \in Emails : BeginSetup(r, e)
    \/ \E a, e \in Emails, role \in Roles : BeginInvite(r, a, e, role)
    \/ \E i \in Invitations : BeginAccept(r, i)
    \/ \E e \in Emails, right \in BOOLEAN : BeginLogin(r, e, right)
    \/ \E a, e \in Emails, status \in Statuses : BeginPatch(r, a, e, status)

TimePasses ==
    \/ \E i \in Invitations : InvitationExpires(i)
    \/ \E e \in Emails : SessionExpires(e) \/ AttemptAges(e)

Next ==
    \/ \E r \in Requests : Begin(r) \/ Finish(r)
    \/ \E a \in Emails, i \in Invitations : Revoke(a, i)
    \/ \E e \in Emails : Logout(e)
    \/ TimePasses
    \/ Restart

Spec == Init /\ [][Next]_vars

-----------------------------------------------------------------------------
(* Properties *)

InvitedAccounts == {e \in Accounts : users[e].invited}
Accepted == {i \in Invitations : invitations[i].status = "accepted"}

\* However acceptances of the same token, of two invitations for one address,
\* revocations and expiries interleave with hashing, every invited account
\* comes from exactly one consumed invitation, with the role it offered, and
\* every consumed invitation has its account (invitations.ts:200-208).
InvitationsAreAccountedFor ==
    /\ TypeOK
    /\ InvitedAccounts = {invitations[i].email : i \in Accepted}
    /\ \A i, j \in Accepted : i # j => invitations[i].email # invitations[j].email
    /\ \A i \in Accepted : users[invitations[i].email].role = invitations[i].role

\* An invitation that was revoked, has expired or was used is never used
\* (again), whatever an acceptance read before it hashed the password
\* (invitations.ts:233-242).
SpentInvitationStaysSpent ==
    [][\A i \in Invitations :
         invitations[i].status \in {"expired", "accepted", "revoked"}
           => invitations'[i].status \in {invitations[i].status, "revoked"}
              /\ (invitations[i].status = "accepted" => invitations'[i] = invitations[i])
      ]_vars

SetupAccounts == {e \in Accounts : ~users[e].invited}

\* Setup makes one administrator, whatever setups overlap across the hash of a
\* password: "bootstrap just created the only account, and it cannot run again"
\* (public.ts:116-117), and the first administrator is created "once"
\* (bootstrap.ts:42).
SetupMakesOneAccount == Cardinality(SetupAccounts) <= 1

=============================================================================
