---------------------------- MODULE MCPaidCalls ----------------------------
(* Instances of PaidCalls for TLC: two worker processes beside the API.      *)
EXTENDS PaidCalls, TLC

CONSTANTS w1, w2, h1, h2, h3

TwoWorkers == {w1, w2}
NoneInApi  == {}

\* Attempt ids are told apart by nothing but their identity, and so are the
\* workers, none of which shares the API's process.
Ids == Permutations(Holds) \cup Permutations(Workers)
=============================================================================
