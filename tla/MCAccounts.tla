----------------------------- MODULE MCAccounts -----------------------------
(* Two addresses, two invitations and two requests in flight. *)
EXTENDS Accounts, TLC

CONSTANTS a, b, i1, i2, r1, r2

TwoEmails == {a, b}
TwoInvitations == {i1, i2}
TwoRequests == {r1, r2}

Rows == Permutations(TwoEmails) \cup Permutations(TwoInvitations)
            \cup Permutations(TwoRequests)
=============================================================================
