----------------------------- MODULE MCJobQueue -----------------------------
(* Instances of JobQueue for TLC: the deployments docker-compose.yml and     *)
(* run.ts document.                                                          *)
EXTENDS JobQueue, TLC

CONSTANTS w1, w2, id1, id2, r1, r2

OneJob  == {1}
TwoJobs == {1, 2}

OneWorker  == {w1}
TwoWorkers == {w1, w2}
NoneInApi  == {}

\* Each process with a worker_id of its own, or both started with the same one.
OwnIds    == [w \in Workers |-> IF w = w1 THEN id1 ELSE id2]
SharedIds == [w \in Workers |-> id1]

\* One configuration for every process, or one each.
SameRules  == [w \in Workers |-> r1]
OtherRules == [w \in Workers |-> IF w = w1 THEN r1 ELSE r2]

\* Renaming the workers and their configurations alike renames the behaviours,
\* when it also leaves every worker its worker id.
Exchanges == {p \in Permutations(Workers \cup Rules) :
                 \A w \in Workers : /\ p[w] \in Workers
                                    /\ p[RulesOf[w]] = RulesOf[p[w]]
                                    /\ IdOf[p[w]] = IdOf[w]}
=============================================================================
