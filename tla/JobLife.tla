------------------------------- MODULE JobLife -------------------------------
(***************************************************************************)
(* What a generation run promises whoever asked for it, without workers,   *)
(* leases, requests or processes: its life.  It is queued, attempts at it  *)
(* follow one another, each numbered, the work it keeps only grows, and it *)
(* ends published, or cancelled, or stopped until it is resumed.  Runs do  *)
(* not affect one another, and one step moves one run.                     *)
(*                                                                         *)
(* JobQueue implements it.                                                 *)
(***************************************************************************)
EXTENDS Naturals

CONSTANT Jobs

VARIABLE life   \* life[j]: where run j is in its life

States == {"absent", "pending", "processing", "stopped", "cancelled", "completed"}

\* epoch counts the attempts begun, progress the batches whose work is kept,
\* published the times the cards have been committed.
Life == [state : States, epoch : Nat, progress : Nat, published : Nat]

Unborn == [state |-> "absent", epoch |-> 0, progress |-> 0, published |-> 0]

Init == life = [j \in Jobs |-> Unborn]

\* Run j, in one of the states from, comes to be as r says.
Move(j, from, r) == life[j].state \in from /\ life' = [life EXCEPT ![j] = r]

\* The owner asks for the run.
Submit(j) == Move(j, {"absent"}, [life[j] EXCEPT !.state = "pending"])

\* An attempt begins; one that is under way may have been abandoned.
Begin(j) == Move(j, {"pending", "processing"},
                 [life[j] EXCEPT !.state = "processing", !.epoch = @ + 1])

\* The attempt keeps one more batch.
Advance(j) == Move(j, {"processing"}, [life[j] EXCEPT !.progress = @ + 1])

\* The attempt failed and another is to follow.
Retry(j) == Move(j, {"processing"}, [life[j] EXCEPT !.state = "pending"])

\* The run failed, or its owner paused it.
Stop(j) == Move(j, {"pending", "processing"}, [life[j] EXCEPT !.state = "stopped"])

\* The owner resumes it.
Resume(j) == Move(j, {"stopped"}, [life[j] EXCEPT !.state = "pending"])

\* The owner cancels it, wherever it is.
Cancel(j) == Move(j, {"pending", "processing", "stopped"},
                  [life[j] EXCEPT !.state = "cancelled"])

\* The cards are committed, once, by the step that ends the run.
Publish(j) == Move(j, {"processing"},
                   [life[j] EXCEPT !.state = "completed", !.progress = 0, !.published = 1])

Next == \E j \in Jobs : \/ Submit(j) \/ Begin(j) \/ Advance(j) \/ Retry(j)
                        \/ Stop(j) \/ Resume(j) \/ Cancel(j) \/ Publish(j)

Spec == Init /\ [][Next]_life
=============================================================================
