------------------------------ MODULE MCBudget ------------------------------
(* Instances of Budget for TLC.                                              *)
EXTENDS Budget, TLC

CONSTANTS alice, bob, h1, h2, h3

TwoUsers == {alice, bob}

ThreeHolds == {h1, h2, h3}

\* Accounts and reservations are told apart by nothing but their ids.
Ids == Permutations(Users) \cup Permutations(Holds)
=============================================================================
