------------------------------ MODULE JobQueue ------------------------------
(***************************************************************************)
(* The durable job queue of apps/worker/src/queue.ts, the worker loop that *)
(* drains it (worker.ts), the points at which a run touches its job row    *)
(* (pipeline.ts) and the API routes that act on the same row.              *)
(*                                                                         *)
(* The grain of an action is one SQL statement or one immediate            *)
(* transaction, because that is what SQLite makes atomic: the API process  *)
(* and a standalone worker process (run.ts) share one database file, so    *)
(* whatever one of them decides from a SELECT may be stale when its UPDATE *)
(* runs.  Inside one process the JavaScript thread runs a synchronous      *)
(* handler to its end; InApi and MidHandler express that.                  *)
(*                                                                         *)
(* A job row is a record.  A nullable timestamp is either a flag (was a    *)
(* stop requested?) or, for lease_expires_at, the time left: NoLease for   *)
(* NULL, 0 for an instant that has passed, n > 0 for one n ticks away.     *)
(*                                                                         *)
(* A definition whose comment begins "Variant:" is not part of the model.  *)
(* It is the definition that follows it with one plausible mistake in it,  *)
(* kept to show that the properties at the end can tell the difference.    *)
(***************************************************************************)
EXTENDS Integers, FiniteSets

CONSTANTS
    Jobs,          \* the jobs; the number is the order of created_at
    Workers,       \* GenerationWorker instances, one per process
    InApi,         \* the worker the API process runs in-process, if any
    WorkerIds,     \* the values of worker_id
    IdOf,          \* the worker_id of each worker (JEVDECK_WORKER_ID or random)
    Rules,         \* what a checkpoint's fingerprint can say: models, prompts, ...
    RulesOf,       \* the rules each worker's process was configured with
    Lease,         \* LEASE_SECONDS, in ticks
    Backoff,       \* RETRY_BACKOFF_SECONDS, in ticks
    MaxAttempts,   \* DEFAULT_MAX_ATTEMPTS and RESUME_ATTEMPT_ALLOWANCE
    Batches,       \* provider batches in a run's plan
    Refusals,      \* whether a generate request may be refused after its INSERT
    MaxFaults,     \* bound: crashes and stalls in a behaviour
    MaxRequests,   \* bound: owner requests in a behaviour
    NoWorker, NoRules

ASSUME JobsAssumption    == Jobs \subseteq Nat \ {0}
ASSUME WorkersAssumption == /\ InApi \subseteq Workers
                            /\ \A v, w \in InApi : v = w
                            /\ IdOf \in [Workers -> WorkerIds]
                            /\ NoWorker \notin WorkerIds
ASSUME RulesAssumption   == RulesOf \in [Workers -> Rules] /\ NoRules \notin Rules
ASSUME BoundsAssumption  == /\ Lease \in Nat \ {0} /\ Backoff \in Nat
                            /\ MaxAttempts \in Nat \ {0} /\ Batches \in Nat \ {0}
                            /\ Refusals \in BOOLEAN
                            /\ MaxFaults \in Nat /\ MaxRequests \in Nat

VARIABLES
    job,        \* generation_jobs: the row of each job
    published,  \* how many times a job's cards have been committed
    worker,     \* what each worker is doing, and the claim it does it under
    stalled,    \* workers whose process is not being scheduled
    api,        \* the request the API process is in the middle of
    faults,     \* faults left
    requests    \* requests left

vars == <<job, published, worker, stalled, api, faults, requests>>

NoLease == -1
NoJob   == 0

States == {"absent", "pending", "processing", "completed", "failed", "paused"}
Codes  == {"none", "cancelled_by_user", "paused_by_user", "error", "refused"}

\* absent is a row that has not been inserted; ckpt is the number of batches
\* the stored checkpoint holds, 0 standing for NULL, and ckptRules its fingerprint.
Row == [state : States, attempts : Nat, maxAttempts : Nat,
        worker : WorkerIds \cup {NoWorker}, epoch : Nat, lease : Nat \cup {NoLease},
        code : Codes, cancel : BOOLEAN, pause : BOOLEAN,
        ckpt : Nat, ckptRules : Rules \cup {NoRules}, rules : Rules \cup {NoRules}]

NewRow == [state |-> "absent", attempts |-> 0, maxAttempts |-> MaxAttempts,
           worker |-> NoWorker, epoch |-> 0, lease |-> NoLease,
           code |-> "none", cancel |-> FALSE, pause |-> FALSE,
           ckpt |-> 0, ckptRules |-> NoRules, rules |-> NoRules]

Phases == {"down", "idle", "recovering", "selected",
           "claimed", "reading", "running", "calling", "settling"}
Working == {"claimed", "reading", "running", "calling", "settling"}
Plans  == {"none", "cancel", "pause", "retry", "fail"}

\* job, epoch and IdOf are the ClaimIdentity; done is the progress in memory and
\* from the fingerprint of the checkpoint it was loaded with; found is what
\* recoverAbandonedStops has read; plan is the UPDATE that failJob or
\* recordFailure has decided on and not yet run.
WorkerState == [phase : Phases, job : Jobs \cup {NoJob}, epoch : Nat,
                done : Nat, from : Rules \cup {NoRules},
                found : SUBSET [job : Jobs, cancel : BOOLEAN], plan : Plans]

Idle == [phase |-> "idle", job |-> NoJob, epoch |-> 0, done |-> 0, from |-> NoRules,
         found |-> {}, plan |-> "none"]
Down == [Idle EXCEPT !.phase = "down"]

Ops == {"none", "refuse", "cancel", "cancelFlag", "pause", "pauseFlag", "resume"}
ApiState == [op : Ops, job : Jobs \cup {NoJob}, seen : States]
NoRequest == [op |-> "none", job |-> NoJob, seen |-> "absent"]

Init == /\ job = [j \in Jobs |-> NewRow]
        /\ published = [j \in Jobs |-> 0]
        /\ worker = [w \in Workers |-> Idle]
        /\ stalled = {}
        /\ api = NoRequest
        /\ faults = MaxFaults
        /\ requests = MaxRequests

-----------------------------------------------------------------------------
(* The conditions the statements share.                                    *)

\* Variant: the worker id alone is taken for the identity of a claim.
HoldsByWorkerId(w) == LET r == job[worker[w].job] IN
                         /\ worker[w].job \in Jobs
                         /\ r.state = "processing"
                         /\ r.worker = IdOf[w]

\* The claim a worker writes under is the one the row carries.
Holds(w) == LET r == job[worker[w].job] IN
               /\ worker[w].job \in Jobs
               /\ r.state = "processing"
               /\ r.worker = IdOf[w]
               /\ r.epoch = worker[w].epoch

\* The WHERE clause of every write a run makes to its row: the claim, and a
\* lease that has not run out.
Gate(w) == Holds(w) /\ job[worker[w].job].lease > 0

\* Variant: a job whose worker died is not handed out again.
ClaimablePendingOnly(j) == ~job[j].cancel /\ job[j].state = "pending" /\ job[j].lease <= 0

Claimable(j) == /\ ~job[j].cancel
                /\ \/ job[j].state = "pending" /\ job[j].lease <= 0
                   \/ job[j].state = "processing" /\ job[j].lease = 0

\* Variant: a cancellation left behind by a dead worker is not looked for.
AbandonedPauseOnly(j) == job[j].state = "processing" /\ job[j].lease = 0 /\ job[j].pause

Abandoned(j) == /\ job[j].state = "processing" /\ job[j].lease = 0
                /\ job[j].cancel \/ job[j].pause

IsCancelled(r) == r.state = "failed" /\ r.code = "cancelled_by_user"

\* Variant: the fingerprints are not compared.
NeverIncompatible(ckpt, ckptRules, rules) == FALSE

\* checkpointFor: progress exists and was produced under other rules than r's.
Incompatible(ckpt, ckptRules, rules) ==
    ckpt > 0 /\ rules # NoRules /\ ckptRules # rules

-----------------------------------------------------------------------------
(* The row each UPDATE leaves.                                             *)

Cancelled(r) == [r EXCEPT !.state = "failed", !.code = "cancelled_by_user",
                          !.cancel = TRUE, !.lease = NoLease, !.worker = NoWorker]

\* Variant: the pause drops the checkpoint as a completion does.
PausedWithoutProgress(r) == [r EXCEPT !.state = "paused", !.code = "paused_by_user",
                                      !.pause = TRUE, !.lease = NoLease,
                                      !.worker = NoWorker, !.ckpt = 0]

Paused(r) == [r EXCEPT !.state = "paused", !.code = "paused_by_user",
                       !.pause = TRUE, !.lease = NoLease, !.worker = NoWorker]

Claimed(r, w) == [r EXCEPT !.state = "processing", !.attempts = @ + 1,
                           !.worker = IdOf[w], !.epoch = @ + 1, !.lease = Lease]

Failed(r) == [r EXCEPT !.state = "failed", !.code = "error",
                       !.lease = NoLease, !.worker = NoWorker]

Retried(r) == [r EXCEPT !.state = "pending", !.code = "error",
                        !.lease = Backoff, !.worker = NoWorker]

Resumed(r) == [r EXCEPT !.state = "pending", !.pause = FALSE, !.lease = NoLease,
                        !.worker = NoWorker, !.code = "none",
                        !.maxAttempts = IF @ >= r.attempts + MaxAttempts
                                        THEN @ ELSE r.attempts + MaxAttempts]

\* Variant: the completion is left to a transaction after the publication's.
CompletedSeparately(r) == r

Completed(r) == [r EXCEPT !.state = "completed", !.code = "none",
                          !.lease = NoLease, !.ckpt = 0, !.ckptRules = NoRules]

Refused(r) == [r EXCEPT !.state = "failed", !.code = "refused", !.lease = NoLease]

Renewed(r) == [r EXCEPT !.lease = Lease]

-----------------------------------------------------------------------------
(* Processes and their threads.                                            *)

\* Between two statements of one synchronous handler.
MidHandler(w) == worker[w].phase \in {"recovering", "selected", "settling"}

\* A worker may take its next step: it is up and scheduled, and if it shares
\* the API's thread the API is not in the middle of a request.
Scheduled(w) == /\ w \notin stalled
                /\ w \in InApi => api.op = "none"

\* The API may take its next step, by the same rule.
ApiScheduled == \A w \in InApi : w \notin stalled /\ ~MidHandler(w)

SetRow(j, r) == job' = [job EXCEPT ![j] = r]
Become(w, s) == worker' = [worker EXCEPT ![w] = s]
OnlyWorker   == UNCHANGED <<published, stalled, api, faults, requests>>
OnlyApi      == UNCHANGED <<published, worker, stalled, faults>>

-----------------------------------------------------------------------------
(* Claiming: claimNextJob, one action per statement.                       *)

\* recoverAbandonedStops' SELECT.
Poll(w) ==
    /\ worker[w].phase = "idle" /\ Scheduled(w)
    /\ Become(w, [Idle EXCEPT !.phase = "recovering",
                    !.found = {[job |-> j, cancel |-> job[j].cancel] :
                                  j \in {i \in Jobs : Abandoned(i)}}])
    /\ UNCHANGED job /\ OnlyWorker

\* One iteration of its loop.  The UPDATE re-checks the state and the lease;
\* which of the two stops it writes was decided by the SELECT.
RecoverAbandonedStop(w) ==
    /\ worker[w].phase = "recovering" /\ Scheduled(w)
    /\ \E f \in worker[w].found :
          /\ \A g \in worker[w].found : f.job <= g.job
          /\ IF job[f.job].state = "processing" /\ job[f.job].lease = 0
             THEN SetRow(f.job, IF f.cancel THEN Cancelled(job[f.job])
                                ELSE [Paused(job[f.job]) EXCEPT !.pause = job[f.job].pause])
             ELSE UNCHANGED job
          /\ Become(w, [worker[w] EXCEPT !.found = @ \ {f}])
    /\ OnlyWorker

SelectCandidate(w) ==
    /\ worker[w].phase = "recovering" /\ worker[w].found = {} /\ Scheduled(w)
    /\ \/ /\ \A j \in Jobs : ~Claimable(j)
          /\ Become(w, Idle)
       \/ \E j \in Jobs :
             /\ Claimable(j)
             /\ \A i \in Jobs : Claimable(i) => j <= i
             /\ Become(w, [Idle EXCEPT !.phase = "selected", !.job = j])
    /\ UNCHANGED job /\ OnlyWorker

\* Variant: the UPDATE trusts the SELECT.
ClaimAsSelected(w) ==
    /\ worker[w].phase = "selected" /\ Scheduled(w)
    /\ LET j == worker[w].job IN
          /\ SetRow(j, Claimed(job[j], w))
          /\ Become(w, [Idle EXCEPT !.phase = "claimed", !.job = j,
                                    !.epoch = job[j].epoch + 1])
    /\ OnlyWorker

\* The conditional UPDATE; no affected row means the race was lost.
Claim(w) ==
    /\ worker[w].phase = "selected" /\ Scheduled(w)
    /\ LET j == worker[w].job IN
          IF Claimable(j)
          THEN /\ SetRow(j, Claimed(job[j], w))
               /\ Become(w, [Idle EXCEPT !.phase = "claimed", !.job = j,
                                         !.epoch = job[j].epoch + 1])
          ELSE UNCHANGED job /\ Become(w, Idle)
    /\ OnlyWorker

-----------------------------------------------------------------------------
(* Running a claimed job.                                                  *)

\* Variant: a failure is judged without looking for a cancellation.
PlanForIgnoringCancel(r, retryable) ==
    IF r.pause THEN "pause"
    ELSE IF retryable /\ r.attempts < r.maxAttempts THEN "retry" ELSE "fail"

\* The SELECT of failJob, folded into the step that raised: what its UPDATE
\* will write.  failJob reads the row whoever holds it.
PlanFor(r, retryable) ==
    IF r.cancel THEN "cancel"
    ELSE IF r.pause THEN "pause"
    ELSE IF retryable /\ r.attempts < r.maxAttempts THEN "retry" ELSE "fail"

Settling(w, plan) == [worker[w] EXCEPT !.phase = "settling", !.plan = plan]

\* loadCheckpoint, judged by the identity columns of the row.
LoadCheckpoint(w) ==
    /\ worker[w].phase = "claimed" /\ Scheduled(w)
    /\ LET r == job[worker[w].job] IN
          Become(w, IF Incompatible(r.ckpt, r.ckptRules, r.rules)
                    THEN Settling(w, PlanFor(r, FALSE))
                    ELSE [worker[w] EXCEPT !.phase = "reading", !.done = r.ckpt,
                                           !.from = r.ckptRules])
    /\ UNCHANGED job /\ OnlyWorker

\* After the reading phase: recordJobProvider, whose UPDATE names the job only,
\* so that no claim guards it, and the comparison of the loaded fingerprint
\* with the one this process works under.
RecordProvider(w) ==
    /\ worker[w].phase = "reading" /\ Scheduled(w)
    /\ LET j == worker[w].job IN
          /\ SetRow(j, [job[j] EXCEPT !.rules = RulesOf[w]])
          /\ Become(w, IF Incompatible(worker[w].done, worker[w].from, RulesOf[w])
                       THEN Settling(w, PlanFor(job[j], FALSE))
                       ELSE [worker[w] EXCEPT !.phase = "running", !.from = NoRules])
    /\ OnlyWorker

\* The heartbeat's renewLease.  A refused renewal sets Heartbeat.lost, which
\* the next boundary turns into the claim being lost; the gate it failed stays
\* shut for this claim (RefusedClaimStaysRefused), so the flag is not kept here.
Heartbeat(w) ==
    /\ worker[w].phase \in {"claimed", "reading", "running", "calling"} /\ Scheduled(w)
    /\ Gate(w)
    /\ SetRow(worker[w].job, Renewed(job[worker[w].job]))
    /\ UNCHANGED worker /\ OnlyWorker

\* assertNotStopped, then assertOwned, before a page is read and before a
\* provider call: either ends the run.
StopAtBoundary(w) ==
    /\ \/ worker[w].phase = "reading"
       \/ worker[w].phase = "running" /\ worker[w].done < Batches
    /\ Scheduled(w)
    /\ LET r == job[worker[w].job] IN
          \/ /\ r.cancel \/ r.pause
             /\ Become(w, Settling(w, IF r.cancel THEN "cancel" ELSE "pause"))
          \/ /\ ~r.cancel /\ ~r.pause /\ ~Gate(w)
             /\ Become(w, Idle)
    /\ UNCHANGED job /\ OnlyWorker

\* Neither does, and the call goes out; assertOwned has renewed the lease.  A
\* call of the reading phase is part of that phase and renews as Heartbeat does.
DispatchCall(w) ==
    /\ worker[w].phase = "running" /\ worker[w].done < Batches /\ Scheduled(w)
    /\ LET r == job[worker[w].job] IN
          /\ ~r.cancel /\ ~r.pause /\ Gate(w)
          /\ SetRow(worker[w].job, Renewed(r))
    /\ Become(w, [worker[w] EXCEPT !.phase = "calling"])
    /\ OnlyWorker

\* Variant: progress is written whoever holds the run by then.
SaveUngated(w) ==
    /\ worker[w].phase = "calling" /\ Scheduled(w)
    /\ SetRow(worker[w].job,
              [job[worker[w].job] EXCEPT !.ckpt = worker[w].done + 1, !.ckptRules = RulesOf[w]])
    /\ Become(w, [worker[w] EXCEPT !.phase = "running", !.done = @ + 1])
    /\ OnlyWorker

\* The answer arrives and the batch is complete: saveCheckpoint.
SaveCheckpoint(w) ==
    /\ worker[w].phase = "calling" /\ Scheduled(w)
    /\ IF Gate(w)
       THEN /\ SetRow(worker[w].job,
                      [job[worker[w].job] EXCEPT !.ckpt = worker[w].done + 1,
                                                 !.ckptRules = RulesOf[w]])
            /\ Become(w, [worker[w] EXCEPT !.phase = "running", !.done = @ + 1])
       ELSE UNCHANGED job /\ Become(w, Idle)
    /\ OnlyWorker

\* A missing source, a provider failure, a refused budget, or an exception the
\* worker loop catches; retryable or not, failJob is called.
Fail(w) ==
    /\ worker[w].phase \in {"claimed", "reading", "running", "calling"} /\ Scheduled(w)
    /\ \E retryable \in BOOLEAN :
          Become(w, Settling(w, PlanFor(job[worker[w].job], retryable)))
    /\ UNCHANGED job /\ OnlyWorker

Settled(r, plan) == IF plan = "cancel" THEN Cancelled(r)
                    ELSE IF plan = "pause" THEN Paused(r)
                    ELSE IF plan = "retry" THEN Retried(r)
                    ELSE Failed(r)

\* The UPDATE of failJob, finaliseCancellation or finalisePause.  Refused or
\* not, the worker is done with the run.
Settle(w) ==
    /\ worker[w].phase = "settling" /\ Scheduled(w)
    /\ IF Gate(w)
       THEN SetRow(worker[w].job, Settled(job[worker[w].job], worker[w].plan))
       ELSE UNCHANGED job
    /\ Become(w, Idle)
    /\ OnlyWorker

\* finaliseWithPublication: one immediate transaction.
Finalise(w) ==
    /\ worker[w].phase = "running" /\ worker[w].done = Batches /\ Scheduled(w)
    /\ LET j == worker[w].job
           r == job[j]
       IN \/ /\ Gate(w) /\ ~r.cancel /\ ~r.pause
             /\ SetRow(j, Completed(r))
             /\ published' = [published EXCEPT ![j] = @ + 1]
             /\ Become(w, Idle)
          \/ /\ Holds(w) /\ (r.cancel \/ r.pause)
             /\ Become(w, Settling(w, IF r.cancel THEN "cancel" ELSE "pause"))
             /\ UNCHANGED <<job, published>>
          \/ /\ ~Holds(w) \/ (~Gate(w) /\ ~r.cancel /\ ~r.pause)
             /\ Become(w, Idle)
             /\ UNCHANGED <<job, published>>
    /\ UNCHANGED <<stalled, api, faults, requests>>

-----------------------------------------------------------------------------
(* The routes that act on a job.  Starting one spends a request.           *)

Serve(req) == /\ api' = req
              /\ requests' = requests - 1
CanServe   == api.op = "none" /\ requests > 0 /\ ApiScheduled
Answered   == api' = NoRequest /\ UNCHANGED requests

\* POST /decks/:id/generate: the INSERT, followed by recordJobRefusal when the
\* installation has no provider or the account no headroom.
Enqueue(j) ==
    /\ CanServe
    /\ job[j].state = "absent"
    /\ \A i \in Jobs : i < j => job[i].state # "absent"
    /\ \/ /\ SetRow(j, [NewRow EXCEPT !.state = "pending"])
          /\ Serve(NoRequest)
       \/ /\ Refusals
          /\ SetRow(j, [NewRow EXCEPT !.state = "pending", !.maxAttempts = 1])
          /\ Serve([op |-> "refuse", job |-> j, seen |-> "pending"])
    /\ OnlyApi

\* recordJobRefusal: its UPDATE names the job and nothing else.
RecordRefusal ==
    /\ api.op = "refuse" /\ ApiScheduled
    /\ SetRow(api.job, Refused(job[api.job]))
    /\ Answered /\ OnlyApi

\* Variant: a paused or failed run is only sent the request.
RequestCancellationByFlag(j) ==
    /\ CanServe
    /\ job[j].state \notin {"absent", "completed"} /\ ~IsCancelled(job[j])
    /\ Serve([op |-> IF job[j].state = "pending" THEN "cancel" ELSE "cancelFlag",
              job |-> j, seen |-> job[j].state])
    /\ UNCHANGED job /\ OnlyApi

\* requestCancellation's SELECT.  A finished or already cancelled run is
\* answered from it; otherwise it decides which UPDATE runs.
RequestCancellation(j) ==
    /\ CanServe
    /\ job[j].state \notin {"absent", "completed"} /\ ~IsCancelled(job[j])
    /\ Serve([op |-> IF job[j].state = "processing" THEN "cancelFlag" ELSE "cancel",
              job |-> j, seen |-> job[j].state])
    /\ UNCHANGED job /\ OnlyApi

CancelOutright ==
    /\ api.op = "cancel" /\ ApiScheduled
    /\ LET r == job[api.job] IN
          IF r.state = api.seen /\ ~r.cancel
          THEN SetRow(api.job, Cancelled(r)) /\ Answered
          ELSE /\ api' = [api EXCEPT !.op = "cancelFlag"]
               /\ UNCHANGED <<job, requests>>
    /\ OnlyApi

\* The last statement of requestCancellation; the answer is 'requested'
\* whether or not it affected a row.
FlagCancellation ==
    /\ api.op = "cancelFlag" /\ ApiScheduled
    /\ IF job[api.job].state = "processing"
       THEN SetRow(api.job, [job[api.job] EXCEPT !.cancel = TRUE])
       ELSE UNCHANGED job
    /\ Answered /\ OnlyApi

RequestPause(j) ==
    /\ CanServe
    /\ job[j].state \in {"pending", "processing"}
    /\ Serve([op |-> IF job[j].state = "processing" THEN "pauseFlag" ELSE "pause",
              job |-> j, seen |-> job[j].state])
    /\ UNCHANGED job /\ OnlyApi

PauseOutright ==
    /\ api.op = "pause" /\ ApiScheduled
    /\ LET r == job[api.job] IN
          IF r.state = api.seen /\ ~r.pause
          THEN SetRow(api.job, Paused(r)) /\ Answered
          ELSE /\ api' = [api EXCEPT !.op = "pauseFlag"]
               /\ UNCHANGED <<job, requests>>
    /\ OnlyApi

FlagPause ==
    /\ api.op = "pauseFlag" /\ ApiScheduled
    /\ IF job[api.job].state = "processing"
       THEN SetRow(api.job, [job[api.job] EXCEPT !.pause = TRUE])
       ELSE UNCHANGED job
    /\ Answered /\ OnlyApi

\* resumeJob's SELECT; progress made under other rules is answered
\* restart_required and nothing is written.
RequestResume(j) ==
    /\ CanServe
    /\ job[j].state \in {"failed", "paused"} /\ ~IsCancelled(job[j])
    /\ ~Incompatible(job[j].ckpt, job[j].ckptRules, job[j].rules)
    /\ Serve([op |-> "resume", job |-> j, seen |-> job[j].state])
    /\ UNCHANGED job /\ OnlyApi

\* resumeJob's conditional UPDATE of the row.
ResumeWrite ==
    /\ api.op = "resume" /\ ApiScheduled
    /\ LET r == job[api.job] IN
          IF r.state = api.seen /\ r.code # "cancelled_by_user"
          THEN SetRow(api.job, Resumed(r)) ELSE UNCHANGED job
    /\ Answered /\ OnlyApi

-----------------------------------------------------------------------------
(* Time and faults.                                                        *)

\* A worker whose process runs renews in time: the heartbeat fires at a third
\* of the lease, so only a stalled or dead worker lets its lease run out.
MustRenewFirst(w) == /\ w \notin stalled
                     /\ worker[w].phase \notin {"down", "idle", "recovering", "selected"}
                     /\ Gate(w) /\ job[worker[w].job].lease = 1

Tick ==
    /\ \A w \in Workers : ~MustRenewFirst(w)
    /\ job' = [j \in Jobs |-> [job[j] EXCEPT !.lease = IF @ > 0 THEN @ - 1 ELSE @]]
    /\ UNCHANGED <<published, worker, stalled, api, faults, requests>>

\* A process dies (the signal handler calls process.exit in the middle of a
\* run): everything in memory is gone.
CrashWorker(w) ==
    /\ w \notin InApi
    /\ faults > 0 /\ worker[w].phase # "down"
    /\ faults' = faults - 1
    /\ Become(w, Down)
    /\ stalled' = stalled \ {w}
    /\ UNCHANGED <<job, published, api, requests>>

\* The API process takes its request and its in-process worker with it.
CrashApi ==
    /\ faults > 0
    /\ api.op # "none" \/ \E w \in InApi : worker[w].phase # "down"
    /\ faults' = faults - 1
    /\ worker' = [w \in Workers |-> IF w \in InApi THEN Down ELSE worker[w]]
    /\ stalled' = stalled \ InApi
    /\ api' = NoRequest
    /\ UNCHANGED <<job, published, requests>>

Restart(w) ==
    /\ worker[w].phase = "down"
    /\ Become(w, Idle)
    /\ UNCHANGED job /\ OnlyWorker

\* The process stops being scheduled for a while (a suspended machine, a
\* blocked event loop) and later carries on where it was.
Stall(w) ==
    /\ faults > 0 /\ worker[w].phase # "down" /\ w \notin stalled
    /\ faults' = faults - 1
    /\ stalled' = stalled \cup {w}
    /\ UNCHANGED <<job, published, worker, api, requests>>

Wake(w) ==
    /\ w \in stalled
    /\ stalled' = stalled \ {w}
    /\ UNCHANGED <<job, published, worker, api, faults, requests>>

-----------------------------------------------------------------------------

\* What a worker does of its own accord, the heartbeat apart.
WorkerStep(w) ==
    \/ Poll(w) \/ RecoverAbandonedStop(w) \/ SelectCandidate(w) \/ Claim(w)
    \/ LoadCheckpoint(w) \/ RecordProvider(w) \/ StopAtBoundary(w) \/ DispatchCall(w)
    \/ SaveCheckpoint(w) \/ Fail(w) \/ Settle(w) \/ Finalise(w)

\* What the API process does to finish a request it has begun.
ApiStep == \/ RecordRefusal \/ CancelOutright \/ FlagCancellation
           \/ PauseOutright \/ FlagPause \/ ResumeWrite

Request(j) == Enqueue(j) \/ RequestCancellation(j) \/ RequestPause(j) \/ RequestResume(j)

Next == \/ \E w \in Workers : WorkerStep(w) \/ Heartbeat(w)
        \/ \E w \in Workers : CrashWorker(w) \/ Restart(w) \/ Stall(w) \/ Wake(w)
        \/ CrashApi
        \/ \E j \in Jobs : Request(j)
        \/ ApiStep
        \/ Tick

Spec == Init /\ [][Next]_vars

\* The poll timer, the heartbeat timer and the event loop keep running; a
\* provider call returns or times out; the container restarts a process that
\* died (restart: unless-stopped); a suspended machine wakes up; time passes.
Fairness == /\ \A w \in Workers : /\ WF_vars(WorkerStep(w)) /\ WF_vars(Heartbeat(w))
                                  /\ WF_vars(Restart(w)) /\ WF_vars(Wake(w))
            /\ WF_vars(ApiStep)
            /\ WF_vars(Tick)

FairSpec == Spec /\ Fairness
-----------------------------------------------------------------------------
(* Properties.                                                             *)

TypeOK == /\ job \in [Jobs -> Row]
          /\ published \in [Jobs -> Nat]
          /\ worker \in [Workers -> WorkerState]
          /\ stalled \subseteq Workers
          /\ api \in ApiState
          /\ faults \in Nat /\ requests \in Nat

\* Whoever is between two statements of a claim, a run or a request is so on
\* behalf of a job.
JobsAreKnown == /\ \A w \in Workers : worker[w].phase \in Working \cup {"selected"}
                                          => worker[w].job \in Jobs
                /\ api.op # "none" => api.job \in Jobs

\* The claims on a job are told apart by the epoch they were given under: each
\* is one the row has reached, no two are equal, and a worker outside a run has
\* none (claimIdentityOf; the epoch column is raised by claimNextJob alone).
ClaimsAreDistinct ==
    /\ \A w \in Workers :
          IF worker[w].phase \in Working
          THEN 1 <= worker[w].epoch /\ worker[w].epoch <= job[worker[w].job].epoch
          ELSE worker[w].epoch = 0
    /\ \A v, w \in Workers :
          /\ v # w /\ worker[v].phase \in Working /\ worker[w].phase \in Working
          /\ worker[v].job = worker[w].job
          => worker[v].epoch # worker[w].epoch
    /\ \A j \in Jobs : job[j].state = "processing" => job[j].epoch >= 1

\* What a row's state says about the rest of it.
RowsAreCoherent ==
    \A j \in Jobs : /\ job[j].state = "absent" => job[j] = NewRow
                    /\ IsCancelled(job[j]) => job[j].cancel /\ job[j].lease = NoLease
                    /\ job[j].state = "completed" => job[j].lease = NoLease

\* What a route has read of a run that exists, and what it may do about it.
RequestsAreApt ==
    /\ api.op # "none" => job[api.job].state # "absent"
    /\ api.op = "refuse" => Refusals
    /\ api.op = "cancel" => api.seen \in {"pending", "failed", "paused"}
    /\ api.op = "pause" => api.seen = "pending"
    /\ api.op = "resume" => api.seen \in {"failed", "paused"}

\* The progress of the newest claim is the progress on the row.
ProgressIsShared ==
    \A w \in Workers :
       /\ worker[w].phase \in {"reading", "running", "calling"}
       /\ worker[w].epoch = job[worker[w].job].epoch
       => LET r == job[worker[w].job] IN
             /\ worker[w].done = r.ckpt
             /\ worker[w].phase = "reading" => worker[w].from = r.ckptRules
             /\ worker[w].phase # "reading" /\ r.ckpt > 0 => r.ckptRules = RulesOf[w]

\* Two workers never both pass the claim check on one job, not even two
\* processes started with the same JEVDECK_WORKER_ID: the epoch tells their
\* claims apart (the ClaimIdentity of queue.ts).
OneHolder == \A v, w \in Workers :
                v # w /\ Gate(v) /\ Gate(w) => worker[v].job # worker[w].job

\* The progress a running holder carries in memory is the progress stored, so
\* what it saves next extends the checkpoint by the batch it has just paid for
\* and neither repeats nor skips one (runClaimedJob, saveCheckpoint).
HolderExtendsCheckpoint ==
    \A w \in Workers :
       /\ Holds(w) /\ worker[w].phase \in {"reading", "running", "calling"}
          => worker[w].done = job[worker[w].job].ckpt
       /\ Holds(w) /\ worker[w].phase \in {"running", "calling"} /\ worker[w].done > 0
          => job[worker[w].job].ckptRules = RulesOf[w]

\* Cards are committed exactly once, by the step that completes the run: a run
\* is unfinished and unpublished or finished and published, with no state in
\* between (finaliseWithPublication).
PublishedIffCompleted ==
    \A j \in Jobs : published[j] = IF job[j].state = "completed" THEN 1 ELSE 0

\* No step takes a job away from a worker whose lease is live: the UPDATE of
\* claimNextJob, not its SELECT, decides.
LiveClaimIsNotTaken ==
    [][\A w \in Workers :
          Gate(w) /\ worker[w]' = worker[w] => Holds(w)']_vars

\* A claim that a write has once been refused under is refused for ever: no
\* renewal, resume or recovery brings an expired or superseded claim back
\* (renewLease: "renewal must never revive an expired claim").
RefusedClaimStaysRefused ==
    [][\A w \in Workers :
          /\ worker[w].phase \in Working /\ worker[w].phase' \in Working
          /\ ~Gate(w)
          => ~Gate(w)']_vars

\* Stored progress only grows, one batch at a time, until publication drops it:
\* no failure, stop, takeover or resume loses what was paid for.
ProgressIsKept ==
    [][\A j \in Jobs :
          job[j].state' # "completed" => job[j].ckpt' \in {job[j].ckpt, job[j].ckpt + 1}]_vars

\* A checkpoint never holds batches made under two sets of rules, although
\* workers configured differently take turns on the run.
RulesAreNotMixed ==
    [][\A j \in Jobs :
          job[j].ckpt > 0 /\ job[j].ckpt' > 0
             => job[j].ckptRules' = job[j].ckptRules]_vars

\* The row with the column recordJobProvider writes without a claim left out.
Outcome(r) == [r EXCEPT !.rules = NoRules]

\* A cancelled run is never requeued, resumed, published or rewritten.
CancelledIsFinal ==
    [][\A j \in Jobs : IsCancelled(job[j]) => Outcome(job[j]') = Outcome(job[j])]_vars

\* A completed run's record is never rewritten.
CompletedIsFinal ==
    [][\A j \in Jobs :
          job[j].state = "completed" => Outcome(job[j]') = Outcome(job[j])]_vars

\* A retryable failure raised after a stop was requested does not put the job
\* back to pending, "leaving a run nobody can retry and nobody will collect"
\* (queue.ts, failJob; decisions/0008).
NoUncollectableRun == \A j \in Jobs : ~(job[j].state = "pending" /\ job[j].cancel)

\* Cancelling a run that has stopped for another reason makes it terminal
\* (requestCancellation; decisions/0008).
StoppedRunIsMadeTerminal ==
    [][/\ api.op \in {"cancel", "cancelFlag"} /\ api.seen \in {"paused", "failed"}
       /\ api.op' = "none" /\ faults' = faults
       => LET r == job'[api.job] IN r.state \in {"paused", "failed"} => IsCancelled(r)]_vars

\* A stop asked of a processing run takes effect: it leaves processing, by its
\* worker's next boundary or, when the worker is gone, by recoverAbandonedStops.
StopIsHonoured ==
    \A j \in Jobs : job[j].state = "processing" /\ (job[j].cancel \/ job[j].pause)
                       ~> job[j].state # "processing"

\* A queued run ends: completed, failed with a reason, or paused by its owner.
EveryRunSettles ==
    \A j \in Jobs : job[j].state \in {"pending", "processing"}
                       ~> job[j].state \in {"completed", "failed", "paused"}

\* The life of a run as its row tells it.  A failure that is not a cancellation
\* and a pause are both a stop the owner may resume from.
LifeState(r) == IF IsCancelled(r) THEN "cancelled"
                ELSE IF r.state \in {"failed", "paused"} THEN "stopped" ELSE r.state

LifeOf(j) == [state |-> LifeState(job[j]), epoch |-> job[j].epoch,
              progress |-> job[j].ckpt, published |-> published[j]]

Lives == INSTANCE JobLife WITH life <- [j \in Jobs |-> LifeOf(j)]

\* Every run lives as JobLife says, whatever the workers, the API and their
\* failures do to its row: each statement is one step of one life, or none.
RunsLiveAsSpecified == Lives!Spec
=============================================================================
