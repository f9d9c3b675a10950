--------------------------- MODULE JobQueue_proofs ---------------------------
(***************************************************************************)
(* What JobQueue guarantees for every number of jobs, workers, batches and *)
(* ticks, whatever the bounds on faults and requests.                      *)
(***************************************************************************)
EXTENDS JobQueue, TLAPS

-----------------------------------------------------------------------------
(* Every UPDATE leaves a well-formed row, every step a well-formed worker.  *)

\* The row each UPDATE of queue.ts leaves has the columns' types.
LEMMA RowUpdates ==
    ASSUME NEW r \in Row
    PROVE  /\ Cancelled(r) \in Row /\ Paused(r) \in Row
           /\ \A w \in Workers : Claimed(r, w) \in Row
           /\ Failed(r) \in Row /\ Retried(r) \in Row /\ Resumed(r) \in Row
           /\ Completed(r) \in Row /\ Refused(r) \in Row /\ Renewed(r) \in Row
           /\ \A plan \in Plans : Settled(r, plan) \in Row
  <1>0. /\ \A w \in Workers : IdOf[w] \in WorkerIds
        /\ NoWorker \in WorkerIds \cup {NoWorker}
        /\ Lease \in Nat /\ Backoff \in Nat
        /\ r.attempts + 1 \in Nat /\ r.epoch + 1 \in Nat
    BY WorkersAssumption, BoundsAssumption DEF Row
  <1> USE <1>0 DEF Row, States, Codes, NoLease
  <1>1. Cancelled(r) \in Row
    BY DEF Cancelled
  <1>2. Paused(r) \in Row
    BY DEF Paused
  <1>3. \A w \in Workers : Claimed(r, w) \in Row
    BY DEF Claimed
  <1>4. Failed(r) \in Row
    BY DEF Failed
  <1>5. Retried(r) \in Row
    BY DEF Retried
  <1>6. Resumed(r) \in Row
    <2> DEFINE n == IF r.maxAttempts >= r.attempts + MaxAttempts
                    THEN r.maxAttempts ELSE r.attempts + MaxAttempts
    <2>1. n \in Nat
      BY BoundsAssumption
    <2>2. Resumed(r) = [r EXCEPT !.state = "pending", !.pause = FALSE, !.lease = NoLease,
                                 !.worker = NoWorker, !.code = "none", !.maxAttempts = n]
      BY DEF Resumed
    <2> HIDE DEF n
    <2>3. QED
      BY <2>1, <2>2
  <1>7. Completed(r) \in Row
    BY DEF Completed
  <1>8. Refused(r) \in Row
    BY DEF Refused
  <1>9. Renewed(r) \in Row
    BY DEF Renewed
  <1>10. \A plan \in Plans : Settled(r, plan) \in Row
    BY <1>1, <1>2, <1>4, <1>5 DEF Settled
  <1>11. QED
    BY <1>1, <1>2, <1>3, <1>4, <1>5, <1>6, <1>7, <1>8, <1>9, <1>10

LEMMA NewRowType == NewRow \in Row
  BY WorkersAssumption, RulesAssumption, BoundsAssumption
     DEF NewRow, Row, States, Codes, NoLease

LEMMA WorkerStates ==
    /\ Idle \in WorkerState /\ Down \in WorkerState
    /\ \A w \in Workers, plan \in Plans :
          worker[w] \in WorkerState => Settling(w, plan) \in WorkerState
  BY DEF Idle, Down, Settling, WorkerState, Phases, Plans, NoJob

\* failJob always decides on one of the four outcomes.
LEMMA PlanType == \A r, b : PlanFor(r, b) \in Plans
  BY DEF PlanFor, Plans

-----------------------------------------------------------------------------
(* Types.                                                                  *)

TypeInv == TypeOK /\ JobsAreKnown

LEMMA SetRowType ==
    ASSUME TypeOK, NEW j \in Jobs, NEW r \in Row, SetRow(j, r)
    PROVE  job' \in [Jobs -> Row]
  BY DEF TypeOK, SetRow

LEMMA BecomeType ==
    ASSUME TypeInv, NEW w \in Workers, NEW s \in WorkerState, Become(w, s),
           s.phase \in Working \cup {"selected"} => s.job \in Jobs
    PROVE  /\ worker' \in [Workers -> WorkerState]
           /\ \A v \in Workers : worker'[v].phase \in Working \cup {"selected"}
                                     => worker'[v].job \in Jobs
  BY DEF TypeInv, TypeOK, JobsAreKnown, Become

\* A worker in the middle of a run: its job is a job, the job's row is a row.
LEMMA WorkingType ==
    ASSUME TypeInv, NEW w \in Workers, worker[w].phase \in Working \cup {"selected"}
    PROVE  /\ worker[w].job \in Jobs /\ job[worker[w].job] \in Row
           /\ worker[w] \in WorkerState
  BY DEF TypeInv, TypeOK, JobsAreKnown

LEMMA TypeInit == Init => TypeInv
  <1> SUFFICES ASSUME Init PROVE TypeInv
    OBVIOUS
  <1>1. job \in [Jobs -> Row]
    BY NewRowType DEF Init
  <1>2. /\ worker \in [Workers -> WorkerState]
        /\ \A w \in Workers : worker[w].phase \notin Working \cup {"selected"}
    BY WorkerStates DEF Init, Idle, Working
  <1>3. api \in ApiState /\ api.op = "none"
    BY DEF Init, NoRequest, ApiState, Ops, States, NoJob
  <1>4. QED
    BY <1>1, <1>2, <1>3, BoundsAssumption DEF Init, TypeInv, TypeOK, JobsAreKnown

\* What is left to show of a worker's step, and of an API step.
LEMMA WorkerFrame ==
    ASSUME TypeInv, OnlyWorker, job' \in [Jobs -> Row],
           worker' \in [Workers -> WorkerState],
           \A v \in Workers : worker'[v].phase \in Working \cup {"selected"}
                                 => worker'[v].job \in Jobs
    PROVE  TypeInv'
  BY DEF TypeInv, TypeOK, JobsAreKnown, OnlyWorker

LEMMA ApiFrame ==
    ASSUME TypeInv, OnlyApi, job' \in [Jobs -> Row], api' \in ApiState,
           api'.op # "none" => api'.job \in Jobs, requests' \in Nat
    PROVE  TypeInv'
  BY DEF TypeInv, TypeOK, JobsAreKnown, OnlyApi

LEMMA ClaimingType ==
    ASSUME TypeInv, NEW w \in Workers,
           Poll(w) \/ RecoverAbandonedStop(w) \/ SelectCandidate(w) \/ Claim(w)
    PROVE  TypeInv'
  <1>0. job \in [Jobs -> Row] /\ worker[w] \in WorkerState
    BY DEF TypeInv, TypeOK
  <1>1. CASE Poll(w)
    <2> DEFINE found == {[job |-> j, cancel |-> job[j].cancel] :
                            j \in {i \in Jobs : Abandoned(i)}}
               s == [Idle EXCEPT !.phase = "recovering", !.found = found]
    <2>1. found \in SUBSET [job : Jobs, cancel : BOOLEAN]
      BY <1>0 DEF Row
    <2>2. s \in WorkerState /\ s.phase \notin Working \cup {"selected"}
      <3> HIDE DEF found
      <3> QED BY <2>1, WorkerStates DEF WorkerState, Idle, Phases, Working
    <2>3. Become(w, s)
      BY <1>1 DEF Poll
    <2> HIDE DEF s
    <2>4. QED
      BY <1>0, <1>1, <2>2, <2>3, BecomeType, WorkerFrame DEF Poll
  <1>2. CASE RecoverAbandonedStop(w)
    <2>1. PICK f \in worker[w].found :
             /\ IF job[f.job].state = "processing" /\ job[f.job].lease = 0
                THEN SetRow(f.job, IF f.cancel THEN Cancelled(job[f.job])
                                   ELSE [Paused(job[f.job]) EXCEPT !.pause = job[f.job].pause])
                ELSE UNCHANGED job
             /\ Become(w, [worker[w] EXCEPT !.found = @ \ {f}])
      BY <1>2 DEF RecoverAbandonedStop
    <2>2. f.job \in Jobs /\ job[f.job] \in Row
      BY <1>0, <2>1 DEF WorkerState
    <2>3. /\ Cancelled(job[f.job]) \in Row
          /\ [Paused(job[f.job]) EXCEPT !.pause = job[f.job].pause] \in Row
      <3>1. Cancelled(job[f.job]) \in Row /\ Paused(job[f.job]) \in Row
        BY <2>2, RowUpdates
      <3>2. QED
        BY <2>2, <3>1 DEF Row
    <2>4. job' \in [Jobs -> Row]
      BY <1>0, <2>1, <2>2, <2>3, SetRowType DEF TypeInv
    <2> DEFINE s == [worker[w] EXCEPT !.found = @ \ {f}]
    <2>5. s \in WorkerState /\ s.phase \notin Working \cup {"selected"}
      BY <1>0, <1>2 DEF WorkerState, RecoverAbandonedStop, Working
    <2>6. Become(w, s)
      BY <2>1
    <2> HIDE DEF s
    <2>7. QED
      BY <1>2, <2>4, <2>5, <2>6, BecomeType, WorkerFrame DEF RecoverAbandonedStop
  <1>3. CASE SelectCandidate(w)
    <2>1. PICK s \in WorkerState :
             Become(w, s) /\ (s.phase \in Working \cup {"selected"} => s.job \in Jobs)
      <3>1. CASE Become(w, Idle)
        BY <3>1, WorkerStates DEF Idle, Working
      <3>2. CASE \E j \in Jobs : Become(w, [Idle EXCEPT !.phase = "selected", !.job = j])
        <4>1. PICK j \in Jobs : Become(w, [Idle EXCEPT !.phase = "selected", !.job = j])
          BY <3>2
        <4>2. /\ [Idle EXCEPT !.phase = "selected", !.job = j] \in WorkerState
              /\ [Idle EXCEPT !.phase = "selected", !.job = j].job \in Jobs
          BY WorkerStates DEF Idle, WorkerState, Phases
        <4>3. QED
          BY <4>1, <4>2
      <3>3. QED
        BY <1>3, <3>1, <3>2 DEF SelectCandidate
    <2>2. QED
      BY <1>0, <1>3, <2>1, BecomeType, WorkerFrame DEF SelectCandidate
  <1>4. CASE Claim(w)
    <2> DEFINE j == worker[w].job
               s == [Idle EXCEPT !.phase = "claimed", !.job = j, !.epoch = job[j].epoch + 1]
    <2>1. j \in Jobs /\ job[j] \in Row
      BY <1>4, WorkingType DEF Claim
    <2>2. s \in WorkerState /\ s.job \in Jobs /\ Idle.phase \notin Working \cup {"selected"}
      <3>1. job[j].epoch + 1 \in Nat /\ j \in Jobs
        BY <2>1 DEF Row
      <3> HIDE DEF j
      <3>2. QED
        BY <3>1, WorkerStates DEF WorkerState, Idle, Phases, Working
    <2>3. \/ SetRow(j, Claimed(job[j], w)) /\ Become(w, s)
          \/ UNCHANGED job /\ Become(w, Idle)
      BY <1>4 DEF Claim
    <2> HIDE DEF j, s
    <2>4. job' \in [Jobs -> Row]
      BY <1>0, <2>1, <2>3, RowUpdates, SetRowType DEF TypeInv
    <2>5. QED
      BY <1>4, <2>2, <2>3, <2>4, BecomeType, WorkerStates, WorkerFrame DEF Claim
  <1>5. QED
    BY <1>1, <1>2, <1>3, <1>4

\* Every step of a run ends in one of three ways: the row and the worker are
\* replaced, only one of them is, or neither.
LEMMA RunFrame ==
    ASSUME TypeInv, NEW w \in Workers, OnlyWorker,
           NEW s \in WorkerState, s.phase \in Working \cup {"selected"} => s.job \in Jobs,
           Become(w, s),
           UNCHANGED job \/ (\E j \in Jobs, r \in Row : SetRow(j, r))
    PROVE  TypeInv'
  <1>1. job' \in [Jobs -> Row]
    BY SetRowType DEF TypeInv, TypeOK
  <1>2. QED
    BY <1>1, BecomeType, WorkerFrame

LEMMA SettlingType ==
    ASSUME TypeInv, NEW w \in Workers, worker[w].phase \in Working, NEW plan \in Plans
    PROVE  /\ Settling(w, plan) \in WorkerState
           /\ Settling(w, plan).phase \in Working \cup {"selected"}
                 => Settling(w, plan).job \in Jobs
  BY WorkingType DEF Settling, WorkerState, Phases, Working

LEMMA RunningType ==
    ASSUME TypeInv, NEW w \in Workers,
           \/ LoadCheckpoint(w) \/ RecordProvider(w) \/ Heartbeat(w) \/ StopAtBoundary(w)
           \/ DispatchCall(w) \/ SaveCheckpoint(w) \/ Fail(w) \/ Settle(w)
    PROVE  TypeInv'
  <1> DEFINE j == worker[w].job
  <1>0. /\ j \in Jobs /\ job[j] \in Row /\ worker[w] \in WorkerState
        /\ worker[w].phase \in Working
    <2>1. worker[w].phase \in Working
      BY DEF LoadCheckpoint, RecordProvider, Heartbeat, StopAtBoundary, DispatchCall,
             SaveCheckpoint, Fail, Settle, Working
    <2>2. QED
      BY <2>1, WorkingType
  <1>i. Idle \in WorkerState /\ Idle.phase \notin Working \cup {"selected"}
    BY WorkerStates DEF Idle, Working
  <1>r. RulesOf[w] \in Rules /\ NoRules \in Rules \cup {NoRules}
    BY RulesAssumption
  <1>1. CASE LoadCheckpoint(w)
    <2> DEFINE s == [worker[w] EXCEPT !.phase = "reading", !.done = job[j].ckpt,
                                      !.from = job[j].ckptRules]
    <2>1. s \in WorkerState /\ s.job \in Jobs
      BY <1>0 DEF WorkerState, Phases, Row
    <2>2. Become(w, s) \/ (\E plan \in Plans : Become(w, Settling(w, plan)))
      BY <1>1, PlanType DEF LoadCheckpoint
    <2> HIDE DEF s
    <2>3. QED
      BY <1>0, <1>1, <2>1, <2>2, SettlingType, RunFrame DEF LoadCheckpoint
  <1>2. CASE RecordProvider(w)
    <2> DEFINE s == [worker[w] EXCEPT !.phase = "running", !.from = NoRules]
               r == [job[j] EXCEPT !.rules = RulesOf[w]]
    <2>1. s \in WorkerState /\ s.job \in Jobs
      BY <1>0 DEF WorkerState, Phases
    <2>2. r \in Row
      BY <1>0, <1>r DEF Row
    <2>3. /\ SetRow(j, r)
          /\ Become(w, s) \/ (\E plan \in Plans : Become(w, Settling(w, plan)))
      BY <1>2, PlanType DEF RecordProvider
    <2> HIDE DEF s, r, j
    <2>4. QED
      BY <1>0, <1>2, <2>1, <2>2, <2>3, SettlingType, RunFrame DEF RecordProvider
  <1>3. CASE Heartbeat(w)
    <2>1. Become(w, worker[w]) /\ SetRow(j, Renewed(job[j]))
      BY <1>3 DEF Heartbeat, Become, TypeInv, TypeOK
    <2>2. QED
      BY <1>0, <1>3, <2>1, RowUpdates, RunFrame DEF Heartbeat
  <1>4. CASE StopAtBoundary(w)
    <2>1. Become(w, Idle) \/ (\E plan \in Plans : Become(w, Settling(w, plan)))
      BY <1>4 DEF StopAtBoundary, Plans
    <2>2. QED
      BY <1>0, <1>i, <1>4, <2>1, SettlingType, RunFrame DEF StopAtBoundary
  <1>5. CASE DispatchCall(w)
    <2> DEFINE s == [worker[w] EXCEPT !.phase = "calling"]
    <2>1. s \in WorkerState /\ s.job \in Jobs
      BY <1>0 DEF WorkerState, Phases
    <2>2. SetRow(j, Renewed(job[j])) /\ Become(w, s)
      BY <1>5 DEF DispatchCall
    <2> HIDE DEF s
    <2>3. QED
      BY <1>0, <1>5, <2>1, <2>2, RowUpdates, RunFrame DEF DispatchCall
  <1>6. CASE SaveCheckpoint(w)
    <2> DEFINE s == [worker[w] EXCEPT !.phase = "running", !.done = @ + 1]
               r == [job[j] EXCEPT !.ckpt = worker[w].done + 1, !.ckptRules = RulesOf[w]]
    <2>0. worker[w].done + 1 \in Nat
      BY <1>0 DEF WorkerState
    <2>1. s \in WorkerState /\ s.job \in Jobs
      BY <1>0, <2>0 DEF WorkerState, Phases
    <2>2. r \in Row
      BY <1>0, <1>r, <2>0 DEF Row
    <2>3. \/ SetRow(j, r) /\ Become(w, s)
          \/ UNCHANGED job /\ Become(w, Idle)
      BY <1>6 DEF SaveCheckpoint
    <2> HIDE DEF s, r, j
    <2>4. QED
      BY <1>0, <1>i, <1>6, <2>1, <2>2, <2>3, RunFrame DEF SaveCheckpoint
  <1>7. CASE Fail(w)
    <2>1. \E plan \in Plans : Become(w, Settling(w, plan))
      BY <1>7, PlanType DEF Fail
    <2>2. QED
      BY <1>0, <1>7, <2>1, SettlingType, RunFrame DEF Fail
  <1>8. CASE Settle(w)
    <2>1. worker[w].plan \in Plans
      BY <1>0 DEF WorkerState
    <2>2. /\ UNCHANGED job \/ SetRow(j, Settled(job[j], worker[w].plan))
          /\ Become(w, Idle)
      BY <1>8 DEF Settle
    <2>3. QED
      BY <1>0, <1>i, <1>8, <2>1, <2>2, RowUpdates, RunFrame DEF Settle
  <1>9. QED
    BY <1>1, <1>2, <1>3, <1>4, <1>5, <1>6, <1>7, <1>8

LEMMA FinaliseType ==
    ASSUME TypeInv, NEW w \in Workers, Finalise(w)
    PROVE  TypeInv'
  <1> DEFINE j == worker[w].job
  <1>1. /\ j \in Jobs /\ job[j] \in Row /\ worker[w].phase \in Working
    BY WorkingType DEF Finalise, Working
  <1>2. Idle \in WorkerState /\ Idle.phase \notin Working \cup {"selected"}
    BY WorkerStates DEF Idle, Working
  <1>3. /\ UNCHANGED job \/ SetRow(j, Completed(job[j]))
        /\ Become(w, Idle) \/ (\E plan \in Plans : Become(w, Settling(w, plan)))
        /\ UNCHANGED published \/ published' = [published EXCEPT ![j] = @ + 1]
        /\ UNCHANGED <<stalled, api, faults, requests>>
    BY DEF Finalise, Plans
  <1>4. published' \in [Jobs -> Nat]
    BY <1>1, <1>3 DEF TypeInv, TypeOK
  <1>5. job' \in [Jobs -> Row]
    BY <1>1, <1>3, RowUpdates, SetRowType DEF TypeInv, TypeOK
  <1>6. /\ worker' \in [Workers -> WorkerState]
        /\ \A v \in Workers : worker'[v].phase \in Working \cup {"selected"}
                                  => worker'[v].job \in Jobs
    BY <1>1, <1>2, <1>3, SettlingType, BecomeType
  <1>7. QED
    BY <1>3, <1>4, <1>5, <1>6 DEF TypeInv, TypeOK, JobsAreKnown

LEMMA RequestType ==
    ASSUME TypeInv, NEW j \in Jobs, Request(j)
    PROVE  TypeInv'
  <1>1. requests' \in Nat
    BY DEF Request, Enqueue, RequestCancellation, RequestPause, RequestResume, Serve,
           CanServe, TypeInv, TypeOK
  <1>2. job' \in [Jobs -> Row]
    <2>1. CASE UNCHANGED job
      BY <2>1 DEF TypeInv, TypeOK
    <2>2. CASE Enqueue(j)
      <3>1. /\ [NewRow EXCEPT !.state = "pending"] \in Row
            /\ [NewRow EXCEPT !.state = "pending", !.maxAttempts = 1] \in Row
        BY NewRowType DEF Row, States
      <3>2. QED
        BY <2>2, <3>1, SetRowType DEF Enqueue, TypeInv
    <2>3. QED
      BY <2>1, <2>2 DEF Request, RequestCancellation, RequestPause, RequestResume
  <1>3. api' \in ApiState /\ (api'.op # "none" => api'.job \in Jobs)
    <2>1. job[j].state \in States
      BY DEF TypeInv, TypeOK, Row
    <2>2. \/ api' = NoRequest
          \/ \E op \in Ops, seen \in States : api' = [op |-> op, job |-> j, seen |-> seen]
      BY <2>1 DEF Request, Enqueue, RequestCancellation, RequestPause, RequestResume,
                  Serve, Ops, States
    <2>3. QED
      BY <2>2 DEF NoRequest, ApiState, Ops, States, NoJob
  <1>4. OnlyApi
    BY DEF Request, Enqueue, RequestCancellation, RequestPause, RequestResume
  <1>5. QED
    BY <1>1, <1>2, <1>3, <1>4, ApiFrame

LEMMA ApiStepType ==
    ASSUME TypeInv, ApiStep
    PROVE  TypeInv'
  <1> DEFINE j == api.job
  <1>1. j \in Jobs /\ job[j] \in Row /\ api \in ApiState
    BY DEF ApiStep, RecordRefusal, CancelOutright, FlagCancellation, PauseOutright,
           FlagPause, ResumeWrite, TypeInv, TypeOK, JobsAreKnown
  <1>2. /\ [job[j] EXCEPT !.cancel = TRUE] \in Row
        /\ [job[j] EXCEPT !.pause = TRUE] \in Row
        /\ Refused(job[j]) \in Row /\ Cancelled(job[j]) \in Row
        /\ Paused(job[j]) \in Row /\ Resumed(job[j]) \in Row
    <2>1. /\ [job[j] EXCEPT !.cancel = TRUE] \in Row
          /\ [job[j] EXCEPT !.pause = TRUE] \in Row
      BY <1>1 DEF Row
    <2>2. QED
      BY <1>1, <2>1, RowUpdates
  <1>3. UNCHANGED job \/ (\E r \in Row : SetRow(j, r))
    BY <1>2 DEF ApiStep, RecordRefusal, CancelOutright, FlagCancellation,
                PauseOutright, FlagPause, ResumeWrite
  <1>4. job' \in [Jobs -> Row]
    BY <1>1, <1>3, SetRowType DEF TypeInv, TypeOK
  <1>5. \/ api' = NoRequest
        \/ api' = [api EXCEPT !.op = "cancelFlag"] \/ api' = [api EXCEPT !.op = "pauseFlag"]
    BY DEF ApiStep, RecordRefusal, CancelOutright, FlagCancellation, PauseOutright,
           FlagPause, ResumeWrite, Answered
  <1>6. api' \in ApiState /\ (api'.op # "none" => api'.job \in Jobs)
    BY <1>1, <1>5 DEF NoRequest, ApiState, Ops, States, NoJob
  <1>7. requests' \in Nat /\ OnlyApi
    BY DEF ApiStep, RecordRefusal, CancelOutright, FlagCancellation, PauseOutright,
           FlagPause, ResumeWrite, Answered, TypeInv, TypeOK
  <1>8. QED
    BY <1>4, <1>6, <1>7, ApiFrame

\* Time, crashes, restarts and stalls.
LEMMA EnvironmentType ==
    ASSUME TypeInv,
           \/ \E w \in Workers : CrashWorker(w) \/ Restart(w) \/ Stall(w) \/ Wake(w)
           \/ CrashApi \/ Tick
    PROVE  TypeInv'
  <1>d. /\ Down \in WorkerState /\ Down.phase \notin Working \cup {"selected"}
        /\ Idle \in WorkerState /\ Idle.phase \notin Working \cup {"selected"}
    BY WorkerStates DEF Down, Idle, Working
  <1>1. CASE Tick
    <2>1. \A j \in Jobs : [job[j] EXCEPT !.lease = IF @ > 0 THEN @ - 1 ELSE @] \in Row
      <3> TAKE j \in Jobs
      <3>1. job[j] \in Row
        BY DEF TypeInv, TypeOK
      <3>2. (IF job[j].lease > 0 THEN job[j].lease - 1 ELSE job[j].lease) \in Nat \cup {NoLease}
        BY <3>1 DEF Row, NoLease
      <3>3. QED
        BY <3>1, <3>2 DEF Row
    <2>2. job' \in [Jobs -> Row]
      BY <1>1, <2>1 DEF Tick
    <2>3. QED
      BY <1>1, <2>2 DEF Tick, TypeInv, TypeOK, JobsAreKnown
  <1>2. CASE CrashApi
    <2>1. /\ worker' \in [Workers -> WorkerState]
          /\ \A v \in Workers : worker'[v].phase \in Working \cup {"selected"}
                                    => worker'[v].job \in Jobs
      BY <1>2, <1>d DEF CrashApi, TypeInv, TypeOK, JobsAreKnown
    <2>2. api' \in ApiState /\ api'.op = "none"
      BY <1>2 DEF CrashApi, NoRequest, ApiState, Ops, States, NoJob
    <2>3. faults' \in Nat /\ stalled' \subseteq Workers
      BY <1>2 DEF CrashApi, TypeInv, TypeOK
    <2>4. QED
      BY <1>2, <2>1, <2>2, <2>3 DEF CrashApi, TypeInv, TypeOK, JobsAreKnown
  <1>3. ASSUME NEW w \in Workers, CrashWorker(w) \/ Restart(w)
        PROVE  TypeInv'
    <2>1. Become(w, Down) \/ Become(w, Idle)
      BY <1>3 DEF CrashWorker, Restart
    <2>2. /\ worker' \in [Workers -> WorkerState]
          /\ \A v \in Workers : worker'[v].phase \in Working \cup {"selected"}
                                    => worker'[v].job \in Jobs
      BY <2>1, <1>d, BecomeType
    <2>3. faults' \in Nat /\ stalled' \subseteq Workers
      BY <1>3 DEF CrashWorker, Restart, OnlyWorker, TypeInv, TypeOK
    <2>4. QED
      BY <1>3, <2>2, <2>3 DEF CrashWorker, Restart, OnlyWorker, TypeInv, TypeOK, JobsAreKnown
  <1>4. ASSUME NEW w \in Workers, Stall(w) \/ Wake(w)
        PROVE  TypeInv'
    BY <1>4 DEF Stall, Wake, TypeInv, TypeOK, JobsAreKnown
  <1>5. QED
    BY <1>1, <1>2, <1>3, <1>4

LEMMA TypeNext ==
    ASSUME TypeInv, [Next]_vars
    PROVE  TypeInv'
  <1>1. CASE UNCHANGED vars
    BY <1>1 DEF vars, TypeInv, TypeOK, JobsAreKnown
  <1>2. ASSUME NEW w \in Workers, WorkerStep(w) \/ Heartbeat(w)
        PROVE  TypeInv'
    BY <1>2, ClaimingType, RunningType, FinaliseType DEF WorkerStep
  <1>3. QED
    BY <1>1, <1>2, EnvironmentType, RequestType, ApiStepType DEF Next

\* Every reachable state is well typed, and whoever is between two statements
\* of a claim, a run or a request is there for a job.
THEOREM SpecTypeOK == Spec => [](TypeOK /\ JobsAreKnown)
  <1>1. Spec => []TypeInv
    BY TypeInit, TypeNext, PTL DEF Spec
  <1>2. TypeInv => TypeOK /\ JobsAreKnown
    BY DEF TypeInv
  <1>3. QED
    BY <1>1, <1>2, PTL

-----------------------------------------------------------------------------
(* The inductive invariant.  What a step does to a row and to a worker is    *)
(* said once, in RowMove and WorkerMove, and the rest is argued from there.  *)

Inv == /\ TypeInv
       /\ ClaimsAreDistinct
       /\ RowsAreCoherent
       /\ RequestsAreApt
       /\ ProgressIsShared

\* What the holder of a run may write to its row, the completion apart.
HolderWrites(w, r, q) ==
    \/ q = Renewed(r)
    \/ worker'[w] = Idle /\ \E plan \in Plans : q = Settled(r, plan)
    \/ /\ worker[w].phase = "calling"
       /\ q = [r EXCEPT !.ckpt = worker[w].done + 1, !.ckptRules = RulesOf[w]]
       /\ worker'[w].phase = "running" /\ worker'[w].done = worker[w].done + 1

\* What a step may do to the row of a job, by whom and in which state of it.
Kept(j) == job'[j] = job[j] /\ published'[j] = published[j]

Completes(j) ==
    /\ published'[j] = published[j] + 1
    /\ \E w \in Workers : /\ Gate(w) /\ worker[w].job = j /\ worker'[w] = Idle
                          /\ job'[j] = Completed(job[j])

NewRows == {[NewRow EXCEPT !.state = "pending"],
            [NewRow EXCEPT !.state = "pending", !.maxAttempts = 1]}

Inserted(j) == job[j].state = "absent" /\ job'[j] \in NewRows

Reconfigured(j) ==
    /\ job[j].state # "absent"
    /\ \E rules \in Rules : job'[j] = [job[j] EXCEPT !.rules = rules]

Taken(j) == Claimable(j) /\ \E w \in Workers : job'[j] = Claimed(job[j], w)

WrittenByHolder(j) ==
    \E w \in Workers : Gate(w) /\ worker[w].job = j /\ HolderWrites(w, job[j], job'[j])

Recovered(j) ==
    /\ job[j].state = "processing" /\ job[j].lease = 0
    /\ job'[j] \in {Cancelled(job[j]), [Paused(job[j]) EXCEPT !.pause = job[j].pause]}

StoppedOutright(j) ==
    \/ /\ job[j].state \in {"pending", "failed", "paused"} /\ ~job[j].cancel
       /\ job'[j] = Cancelled(job[j])
    \/ job[j].state = "pending" /\ job'[j] = Paused(job[j])

AskedToStop(j) ==
    /\ job[j].state = "processing"
    /\ job'[j] \in {[job[j] EXCEPT !.cancel = TRUE], [job[j] EXCEPT !.pause = TRUE]}

Requeued(j) ==
    /\ job[j].state \in {"failed", "paused"} /\ job[j].code # "cancelled_by_user"
    /\ job'[j] = Resumed(job[j])

RefusedLate(j) == Refusals /\ job[j].state # "absent" /\ job'[j] = Refused(job[j])

Aged(j) == job'[j] = [job[j] EXCEPT !.lease = IF @ > 0 THEN @ - 1 ELSE @]

RowMove(j) ==
    \/ Kept(j) \/ Completes(j)
    \/ /\ published'[j] = published[j]
       /\ \/ Inserted(j) \/ Reconfigured(j) \/ Taken(j) \/ WrittenByHolder(j) \/ Recovered(j)
          \/ StoppedOutright(j) \/ AskedToStop(j) \/ Requeued(j) \/ RefusedLate(j) \/ Aged(j)

\* A worker in the middle of a run works on a row that exists.
LEMMA WorkingRow ==
    ASSUME Inv, NEW w \in Workers, worker[w].phase \in Working
    PROVE  /\ worker[w].job \in Jobs /\ job[worker[w].job] \in Row
           /\ job[worker[w].job].state # "absent"
           /\ worker[w].epoch \in Nat /\ worker[w].epoch >= 1
           /\ worker[w].epoch <= job[worker[w].job].epoch
  <1>1. /\ worker[w].job \in Jobs /\ job[worker[w].job] \in Row
        /\ worker[w].epoch \in Nat
    BY WorkingType DEF Inv, WorkerState
  <1>2. worker[w].epoch >= 1 /\ worker[w].epoch <= job[worker[w].job].epoch
    BY DEF Inv, ClaimsAreDistinct
  <1>3. job[worker[w].job].epoch \in Nat
    BY <1>1 DEF Row
  <1>4. job[worker[w].job].epoch # 0
    BY <1>1, <1>2, <1>3
  <1>5. NewRow.epoch = 0
    BY DEF NewRow
  <1>6. QED
    BY <1>1, <1>2, <1>4, <1>5 DEF Inv, RowsAreCoherent

LEMMA SetRowMoves ==
    ASSUME TypeInv, NEW k \in Jobs, NEW q, SetRow(k, q), NEW j \in Jobs
    PROVE  job'[j] = IF j = k THEN q ELSE job[j]
  BY DEF TypeInv, TypeOK, SetRow

\* A step that writes one row is judged by what it does to that row.
LEMMA OneRowMoves ==
    ASSUME TypeInv, NEW k \in Jobs, NEW q, SetRow(k, q), UNCHANGED published,
           job'[k] = q => RowMove(k), NEW j \in Jobs
    PROVE  RowMove(j)
  <1>1. CASE j = k
    BY <1>1, SetRowMoves
  <1>2. CASE j # k
    BY <1>2, SetRowMoves DEF RowMove, Kept
  <1>3. QED
    BY <1>1, <1>2

\* A step changes a row only as the statements of the code do.
LEMMA RowMoves ==
    ASSUME Inv, [Next]_vars, NEW j \in Jobs
    PROVE  RowMove(j)
  <1>t. TypeInv
    BY DEF Inv
  <1>1. CASE UNCHANGED <<job, published>>
    BY <1>1 DEF RowMove, Kept
  <1>2. ASSUME NEW w \in Workers, RecoverAbandonedStop(w)
        PROVE  RowMove(j)
    <2>1. PICK f \in worker[w].found :
             IF job[f.job].state = "processing" /\ job[f.job].lease = 0
             THEN SetRow(f.job, IF f.cancel THEN Cancelled(job[f.job])
                                ELSE [Paused(job[f.job]) EXCEPT !.pause = job[f.job].pause])
             ELSE UNCHANGED job
      BY <1>2 DEF RecoverAbandonedStop
    <2>2. f.job \in Jobs
      BY <1>t, <2>1 DEF TypeInv, TypeOK, WorkerState
    <2>3. published' = published
      BY <1>2 DEF RecoverAbandonedStop, OnlyWorker
    <2>4. CASE UNCHANGED job
      BY <1>1, <2>3, <2>4
    <2>5. CASE job[f.job].state = "processing" /\ job[f.job].lease = 0
      <3> DEFINE q == IF f.cancel THEN Cancelled(job[f.job])
                      ELSE [Paused(job[f.job]) EXCEPT !.pause = job[f.job].pause]
      <3>1. SetRow(f.job, q)
        BY <2>1, <2>5
      <3>2. job'[f.job] = q => Recovered(f.job)
        BY <2>5 DEF Recovered
      <3> HIDE DEF q
      <3>3. QED
        BY <1>t, <2>2, <2>3, <3>1, <3>2, OneRowMoves DEF RowMove
    <2>6. QED
      BY <2>1, <2>4, <2>5
  <1>3. ASSUME NEW w \in Workers, Claim(w)
        PROVE  RowMove(j)
    <2> DEFINE k == worker[w].job
    <2>1. k \in Jobs /\ published' = published
      BY <1>3, <1>t, WorkingType DEF Claim, OnlyWorker
    <2>2. CASE UNCHANGED job
      BY <1>1, <2>1, <2>2
    <2>3. CASE Claimable(k) /\ SetRow(k, Claimed(job[k], w))
      <3>1. job'[k] = Claimed(job[k], w) => Taken(k)
        BY <2>3 DEF Taken
      <3>2. QED
        BY <1>t, <2>1, <2>3, <3>1, OneRowMoves DEF RowMove
    <2>4. QED
      BY <1>3, <2>2, <2>3 DEF Claim
  <1>4. ASSUME NEW w \in Workers, RecordProvider(w)
        PROVE  RowMove(j)
    <2> DEFINE k == worker[w].job
               q == [job[k] EXCEPT !.rules = RulesOf[w]]
    <2>1. /\ k \in Jobs /\ job[k].state # "absent" /\ RulesOf[w] \in Rules
          /\ published' = published /\ SetRow(k, q)
      BY <1>4, WorkingRow, RulesAssumption DEF RecordProvider, Working, OnlyWorker
    <2>2. job'[k] = q => Reconfigured(k)
      BY <2>1 DEF Reconfigured
    <2> HIDE DEF q
    <2>3. QED
      BY <1>t, <2>1, <2>2, OneRowMoves DEF RowMove
  <1>5. ASSUME NEW w \in Workers, Heartbeat(w) \/ DispatchCall(w)
        PROVE  RowMove(j)
    <2> DEFINE k == worker[w].job
    <2>1. /\ k \in Jobs /\ Gate(w) /\ published' = published
          /\ SetRow(k, Renewed(job[k]))
      BY <1>5 DEF Heartbeat, DispatchCall, Gate, Holds, OnlyWorker
    <2>2. job'[k] = Renewed(job[k]) => WrittenByHolder(k)
      BY <2>1 DEF HolderWrites, WrittenByHolder
    <2>3. QED
      BY <1>t, <2>1, <2>2, OneRowMoves DEF RowMove
  <1>6. ASSUME NEW w \in Workers, SaveCheckpoint(w)
        PROVE  RowMove(j)
    <2> DEFINE k == worker[w].job
               q == [job[k] EXCEPT !.ckpt = worker[w].done + 1, !.ckptRules = RulesOf[w]]
               s == [worker[w] EXCEPT !.phase = "running", !.done = @ + 1]
    <2>0. published' = published /\ worker[w].phase = "calling"
      BY <1>6 DEF SaveCheckpoint, OnlyWorker
    <2>1. CASE UNCHANGED job
      BY <1>1, <2>0, <2>1
    <2>2. CASE Gate(w)
      <3>1. k \in Jobs
        BY <2>2 DEF Gate, Holds
      <3>2. SetRow(k, q) /\ Become(w, s)
        BY <1>6, <2>2 DEF SaveCheckpoint
      <3>3. s.phase = "running" /\ s.done = worker[w].done + 1
        BY <1>t DEF TypeInv, TypeOK, WorkerState
      <3>4. worker'[w] = s
        <4> HIDE DEF s
        <4> QED BY <1>t, <3>2 DEF Become, TypeInv, TypeOK
      <3>5. job'[k] = q => WrittenByHolder(k)
        <4>1. job'[k] = q => HolderWrites(w, job[k], job'[k])
          BY <2>0, <3>3, <3>4 DEF HolderWrites
        <4>2. QED
          BY <2>2, <4>1 DEF WrittenByHolder
      <3> HIDE DEF q, s
      <3>6. QED
        BY <1>t, <2>0, <3>1, <3>2, <3>5, OneRowMoves DEF RowMove
    <2>3. QED
      BY <1>6, <2>1, <2>2 DEF SaveCheckpoint
  <1>7. ASSUME NEW w \in Workers, Settle(w)
        PROVE  RowMove(j)
    <2> DEFINE k == worker[w].job
               q == Settled(job[k], worker[w].plan)
    <2>1. k \in Jobs /\ worker[w].plan \in Plans /\ published' = published
      BY <1>7, <1>t, WorkingType DEF Settle, Working, WorkerState, OnlyWorker
    <2>2. CASE Gate(w)
      <3>1. SetRow(k, q) /\ worker'[w] = Idle
        BY <1>7, <1>t, <2>2 DEF Settle, Become, TypeInv, TypeOK
      <3>2. job'[k] = q => WrittenByHolder(k)
        BY <2>1, <2>2, <3>1 DEF HolderWrites, WrittenByHolder
      <3> HIDE DEF q
      <3>3. QED
        BY <1>t, <2>1, <3>1, <3>2, OneRowMoves DEF RowMove
    <2>3. QED
      BY <1>1, <1>7, <2>1, <2>2 DEF Settle
  <1>8. ASSUME NEW w \in Workers, Finalise(w)
        PROVE  RowMove(j)
    <2> DEFINE k == worker[w].job
    <2>1. CASE UNCHANGED <<job, published>>
      BY <1>1, <2>1
    <2>2. CASE /\ Gate(w) /\ SetRow(k, Completed(job[k]))
               /\ published' = [published EXCEPT ![k] = @ + 1]
               /\ Become(w, Idle)
      <3>1. k \in Jobs
        BY <2>2 DEF Gate, Holds
      <3>2. /\ published'[j] = IF j = k THEN published[j] + 1 ELSE published[j]
            /\ worker'[w] = Idle
        BY <1>t, <2>2 DEF Become, TypeInv, TypeOK
      <3>3. job'[j] = IF j = k THEN Completed(job[k]) ELSE job[j]
        BY <1>t, <2>2, <3>1, SetRowMoves
      <3>4. CASE j = k
        BY <2>2, <3>2, <3>3, <3>4 DEF RowMove, Completes
      <3>5. CASE j # k
        BY <3>2, <3>3, <3>5 DEF RowMove, Kept
      <3>6. QED
        BY <3>4, <3>5
    <2>3. QED
      BY <1>8, <2>1, <2>2 DEF Finalise
  <1>9. CASE \E i \in Jobs : Request(i)
    <2>1. PICK i \in Jobs : Request(i)
      BY <1>9
    <2>2. CASE Enqueue(i)
      <3>1. PICK q \in NewRows : SetRow(i, q)
        BY <2>2 DEF Enqueue, NewRows
      <3>2. job[i].state = "absent" /\ published' = published
        BY <2>2 DEF Enqueue, OnlyApi
      <3>3. job'[i] = q => Inserted(i)
        BY <3>1, <3>2 DEF Inserted
      <3>4. QED
        BY <1>t, <3>1, <3>2, <3>3, OneRowMoves DEF RowMove
    <2>3. QED
      BY <1>1, <2>1, <2>2
         DEF Request, RequestCancellation, RequestPause, RequestResume, OnlyApi
  <1>10. CASE ApiStep
    <2> DEFINE k == api.job
    <2>1. k \in Jobs /\ published' = published
      BY <1>t, <1>10 DEF ApiStep, RecordRefusal, CancelOutright, FlagCancellation,
           PauseOutright, FlagPause, ResumeWrite, OnlyApi, TypeInv, JobsAreKnown
    <2>2. CASE UNCHANGED job
      BY <1>1, <2>1, <2>2
    <2>3. CASE RecordRefusal
      <3>1. /\ Refusals /\ job[k].state # "absent"
            /\ SetRow(k, Refused(job[k]))
        BY <2>3 DEF Inv, RequestsAreApt, RecordRefusal
      <3>2. job'[k] = Refused(job[k]) => RefusedLate(k)
        BY <3>1 DEF RefusedLate
      <3>3. QED
        BY <1>t, <2>1, <3>1, <3>2, OneRowMoves DEF RowMove
    <2>4. CASE CancelOutright /\ ~UNCHANGED job
      <3>1. /\ job[k].state \in {"pending", "failed", "paused"} /\ ~job[k].cancel
            /\ SetRow(k, Cancelled(job[k]))
        BY <2>4 DEF Inv, RequestsAreApt, CancelOutright
      <3>2. job'[k] = Cancelled(job[k]) => StoppedOutright(k)
        BY <3>1 DEF StoppedOutright
      <3>3. QED
        BY <1>t, <2>1, <3>1, <3>2, OneRowMoves DEF RowMove
    <2>5. CASE PauseOutright /\ ~UNCHANGED job
      <3>1. job[k].state = "pending" /\ SetRow(k, Paused(job[k]))
        BY <2>5 DEF Inv, RequestsAreApt, PauseOutright
      <3>2. job'[k] = Paused(job[k]) => StoppedOutright(k)
        BY <3>1 DEF StoppedOutright
      <3>3. QED
        BY <1>t, <2>1, <3>1, <3>2, OneRowMoves DEF RowMove
    <2>6. CASE ResumeWrite /\ ~UNCHANGED job
      <3>1. /\ job[k].state \in {"failed", "paused"} /\ job[k].code # "cancelled_by_user"
            /\ SetRow(k, Resumed(job[k]))
        BY <2>6 DEF Inv, RequestsAreApt, ResumeWrite
      <3>2. job'[k] = Resumed(job[k]) => Requeued(k)
        BY <3>1 DEF Requeued
      <3>3. QED
        BY <1>t, <2>1, <3>1, <3>2, OneRowMoves DEF RowMove
    <2>7. CASE (FlagCancellation \/ FlagPause) /\ ~UNCHANGED job
      <3>1. PICK q \in {[job[k] EXCEPT !.cancel = TRUE], [job[k] EXCEPT !.pause = TRUE]} :
               job[k].state = "processing" /\ SetRow(k, q)
        BY <2>7 DEF FlagCancellation, FlagPause
      <3>2. job'[k] = q => AskedToStop(k)
        BY <3>1 DEF AskedToStop
      <3>3. QED
        BY <1>t, <2>1, <3>1, <3>2, OneRowMoves DEF RowMove
    <2>8. QED
      BY <1>10, <2>2, <2>3, <2>4, <2>5, <2>6, <2>7 DEF ApiStep
  <1>11. CASE Tick
    BY <1>11 DEF Tick, RowMove, Aged
  <1>12. CASE CrashApi \/ (\E w \in Workers : CrashWorker(w) \/ Restart(w) \/ Stall(w) \/ Wake(w))
    BY <1>1, <1>12 DEF CrashApi, CrashWorker, Restart, Stall, Wake, OnlyWorker
  <1>13. ASSUME NEW w \in Workers,
                Poll(w) \/ SelectCandidate(w) \/ LoadCheckpoint(w) \/ StopAtBoundary(w) \/ Fail(w)
         PROVE  RowMove(j)
    BY <1>1, <1>13 DEF Poll, SelectCandidate, LoadCheckpoint, StopAtBoundary, Fail, OnlyWorker
  <1>14. ASSUME NEW w \in Workers, WorkerStep(w) \/ Heartbeat(w)
         PROVE  RowMove(j)
    BY <1>2, <1>3, <1>4, <1>5, <1>6, <1>7, <1>8, <1>13, <1>14 DEF WorkerStep
  <1>15. CASE UNCHANGED vars
    BY <1>1, <1>15 DEF vars
  <1>16. QED
    BY <1>9, <1>10, <1>11, <1>12, <1>14, <1>15 DEF Next

\* What a step may do to a worker and the claim it holds.
Left(w) == worker'[w].phase \notin Working /\ worker'[w].epoch = 0

OthersKept(w) == \A v \in Workers \ {w} : worker'[v] = worker[v]

Claims(w) ==
    /\ worker[w].phase = "selected" /\ OthersKept(w)
    /\ worker[w].job \in Jobs /\ Claimable(worker[w].job)
    /\ worker'[w].phase = "claimed" /\ worker'[w].job = worker[w].job
    /\ worker'[w].epoch = job[worker[w].job].epoch + 1
    /\ job'[worker[w].job] = Claimed(job[worker[w].job], w)

SameClaim(w) ==
    /\ worker[w].phase \in Working /\ worker'[w].phase \in Working
    /\ worker'[w].job = worker[w].job /\ worker'[w].epoch = worker[w].epoch
    /\ OthersKept(w)

Loads(w) == /\ worker'[w].phase = "reading" /\ UNCHANGED job
            /\ worker'[w].done = job[worker[w].job].ckpt
            /\ worker'[w].from = job[worker[w].job].ckptRules

Starts(w) == /\ worker[w].phase = "reading" /\ worker'[w].phase = "running"
             /\ worker'[w].done = worker[w].done
             /\ ~Incompatible(worker[w].done, worker[w].from, RulesOf[w])
             /\ job'[worker[w].job] = [job[worker[w].job] EXCEPT !.rules = RulesOf[w]]

Dispatches(w) == /\ worker[w].phase = "running" /\ worker'[w].phase = "calling"
                 /\ worker'[w].done = worker[w].done
                 /\ job'[worker[w].job] = Renewed(job[worker[w].job])

Saves(w) == /\ Gate(w) /\ worker[w].phase = "calling" /\ worker'[w].phase = "running"
            /\ worker'[w].done = worker[w].done + 1
            /\ job'[worker[w].job] = [job[worker[w].job] EXCEPT !.ckpt = worker[w].done + 1,
                                                               !.ckptRules = RulesOf[w]]

WorkerMove(w) ==
    \/ worker'[w] = worker[w] \/ Left(w) \/ Claims(w)
    \/ /\ SameClaim(w)
       /\ worker'[w].phase = "settling" \/ Loads(w) \/ Starts(w) \/ Dispatches(w) \/ Saves(w)

LEMMA BecomeMoves ==
    ASSUME TypeInv, NEW w \in Workers, NEW s, Become(w, s)
    PROVE  worker'[w] = s /\ OthersKept(w)
  BY DEF TypeInv, TypeOK, Become, OthersKept

LEMMA SettlingMoves ==
    ASSUME TypeInv, NEW w \in Workers, worker[w].phase \in Working,
           NEW plan, Become(w, Settling(w, plan))
    PROVE  SameClaim(w) /\ worker'[w].phase = "settling"
  <1>1. /\ Settling(w, plan).phase = "settling"
        /\ Settling(w, plan).job = worker[w].job /\ Settling(w, plan).epoch = worker[w].epoch
    BY DEF TypeInv, TypeOK, WorkerState, Settling
  <1>2. QED
    BY <1>1, BecomeMoves DEF SameClaim, Working

\* A worker enters a run by claiming it, keeps its claim while it works and has
\* none when it leaves; whoever does not act is left alone.
LEMMA WorkerMoves ==
    ASSUME Inv, [Next]_vars, NEW w \in Workers
    PROVE  WorkerMove(w)
  <1>t. TypeInv
    BY DEF Inv
  <1>i. /\ Idle.phase \notin Working /\ Idle.epoch = 0
        /\ Down.phase \notin Working /\ Down.epoch = 0
    BY DEF Idle, Down, Working
  <1>1. CASE worker'[w] = worker[w]
    BY <1>1 DEF WorkerMove
  <1>2. CASE worker'[w] \in {Idle, Down}
    BY <1>2, <1>i DEF WorkerMove, Left
  <1>3. CASE Poll(w)
    <2> DEFINE found == {[job |-> j, cancel |-> job[j].cancel] :
                            j \in {i \in Jobs : Abandoned(i)}}
               s == [Idle EXCEPT !.phase = "recovering", !.found = found]
    <2>1. s.phase \notin Working /\ s.epoch = 0
      BY DEF Idle, Working
    <2>2. Become(w, s)
      BY <1>3 DEF Poll
    <2> HIDE DEF s
    <2>3. QED
      BY <1>t, <2>1, <2>2, BecomeMoves DEF WorkerMove, Left
  <1>4. CASE RecoverAbandonedStop(w)
    <2>1. PICK f \in worker[w].found : Become(w, [worker[w] EXCEPT !.found = @ \ {f}])
      BY <1>4 DEF RecoverAbandonedStop
    <2> DEFINE s == [worker[w] EXCEPT !.found = @ \ {f}]
    <2>2. s.phase = "recovering" /\ s.epoch = 0
      <3>1. worker[w].epoch = 0 /\ worker[w].phase = "recovering"
        BY <1>4 DEF RecoverAbandonedStop, Inv, ClaimsAreDistinct, Working
      <3>2. QED
        BY <1>t, <3>1 DEF TypeInv, TypeOK, WorkerState
    <2>3. Become(w, s)
      BY <2>1
    <2> HIDE DEF s
    <2>4. QED
      BY <1>t, <2>2, <2>3, BecomeMoves DEF WorkerMove, Left, Working
  <1>5. CASE SelectCandidate(w)
    <2>1. CASE Become(w, Idle)
      BY <1>t, <1>2, <2>1, BecomeMoves
    <2>2. CASE \E j \in Jobs : Become(w, [Idle EXCEPT !.phase = "selected", !.job = j])
      <3>1. PICK j \in Jobs : Become(w, [Idle EXCEPT !.phase = "selected", !.job = j])
        BY <2>2
      <3> DEFINE s == [Idle EXCEPT !.phase = "selected", !.job = j]
      <3>2. s.phase \notin Working /\ s.epoch = 0
        BY DEF Idle, Working
      <3>3. Become(w, s)
        BY <3>1
      <3> HIDE DEF s
      <3>4. QED
        BY <1>t, <3>2, <3>3, BecomeMoves DEF WorkerMove, Left
    <2>3. QED
      BY <1>5, <2>1, <2>2 DEF SelectCandidate
  <1>6. CASE Claim(w)
    <2> DEFINE k == worker[w].job
               s == [Idle EXCEPT !.phase = "claimed", !.job = k, !.epoch = job[k].epoch + 1]
    <2>1. CASE Become(w, Idle)
      BY <1>t, <1>2, <2>1, BecomeMoves
    <2>2. CASE Claimable(k) /\ SetRow(k, Claimed(job[k], w)) /\ Become(w, s)
      <3>1. k \in Jobs /\ worker[w].phase = "selected"
        BY <1>t, <1>6, WorkingType DEF Claim
      <3>2. s.phase = "claimed" /\ s.job = k /\ s.epoch = job[k].epoch + 1
        BY DEF Idle
      <3> HIDE DEF s
      <3>3. worker'[w] = s /\ OthersKept(w) /\ job'[k] = Claimed(job[k], w)
        BY <1>t, <2>2, <3>1, BecomeMoves, SetRowMoves
      <3>4. Claims(w)
        BY <2>2, <3>1, <3>2, <3>3 DEF Claims
      <3>5. QED
        BY <3>4 DEF WorkerMove
    <2>3. QED
      BY <1>6, <2>1, <2>2 DEF Claim
  <1>7. CASE LoadCheckpoint(w)
    <2> DEFINE k == worker[w].job
               s == [worker[w] EXCEPT !.phase = "reading", !.done = job[k].ckpt,
                                      !.from = job[k].ckptRules]
    <2>0. worker[w].phase \in Working /\ UNCHANGED job
      BY <1>7 DEF LoadCheckpoint, Working
    <2>1. CASE Become(w, s)
      <3>1. /\ s.phase = "reading" /\ s.job = k /\ s.epoch = worker[w].epoch
            /\ s.done = job[k].ckpt /\ s.from = job[k].ckptRules
        BY <1>t DEF TypeInv, TypeOK, WorkerState
      <3> HIDE DEF s
      <3>2. SameClaim(w) /\ Loads(w)
        BY <1>t, <2>0, <2>1, <3>1, BecomeMoves DEF SameClaim, Loads, Working
      <3>3. QED
        BY <3>2 DEF WorkerMove
    <2>2. CASE \E plan \in Plans : Become(w, Settling(w, plan))
      BY <1>t, <2>0, <2>2, SettlingMoves DEF WorkerMove
    <2>3. QED
      BY <1>7, <2>1, <2>2, PlanType DEF LoadCheckpoint
  <1>8. CASE RecordProvider(w)
    <2> DEFINE k == worker[w].job
               s == [worker[w] EXCEPT !.phase = "running", !.from = NoRules]
    <2>0. /\ worker[w].phase \in Working /\ worker[w].phase = "reading" /\ k \in Jobs
          /\ job'[k] = [job[k] EXCEPT !.rules = RulesOf[w]]
      BY <1>t, <1>8, WorkingType, SetRowMoves DEF RecordProvider, Working
    <2>1. CASE ~Incompatible(worker[w].done, worker[w].from, RulesOf[w]) /\ Become(w, s)
      <3>1. /\ s.phase = "running" /\ s.job = k /\ s.epoch = worker[w].epoch
            /\ s.done = worker[w].done
        BY <1>t DEF TypeInv, TypeOK, WorkerState
      <3> HIDE DEF s
      <3>2. SameClaim(w) /\ Starts(w)
        BY <1>t, <2>0, <2>1, <3>1, BecomeMoves DEF SameClaim, Starts, Working
      <3>3. QED
        BY <3>2 DEF WorkerMove
    <2>2. CASE \E plan \in Plans : Become(w, Settling(w, plan))
      BY <1>t, <2>0, <2>2, SettlingMoves DEF WorkerMove
    <2>3. QED
      BY <1>8, <2>1, <2>2, PlanType DEF RecordProvider
  <1>9. CASE StopAtBoundary(w)
    <2>1. worker[w].phase \in Working
      BY <1>9 DEF StopAtBoundary, Working
    <2>2. Become(w, Idle) \/ (\E plan \in Plans : Become(w, Settling(w, plan)))
      BY <1>9 DEF StopAtBoundary, Plans
    <2>3. QED
      BY <1>t, <1>2, <2>1, <2>2, BecomeMoves, SettlingMoves DEF WorkerMove
  <1>10. CASE DispatchCall(w)
    <2> DEFINE k == worker[w].job
               s == [worker[w] EXCEPT !.phase = "calling"]
    <2>0. /\ worker[w].phase \in Working /\ worker[w].phase = "running" /\ k \in Jobs
          /\ job'[k] = Renewed(job[k]) /\ Become(w, s)
      BY <1>t, <1>10, WorkingType, SetRowMoves DEF DispatchCall, Working
    <2>1. /\ s.phase = "calling" /\ s.job = k /\ s.epoch = worker[w].epoch
          /\ s.done = worker[w].done
      BY <1>t DEF TypeInv, TypeOK, WorkerState
    <2> HIDE DEF s
    <2>2. SameClaim(w) /\ Dispatches(w)
      BY <1>t, <2>0, <2>1, BecomeMoves DEF SameClaim, Dispatches, Working
    <2>3. QED
      BY <2>2 DEF WorkerMove
  <1>11. CASE SaveCheckpoint(w)
    <2> DEFINE k == worker[w].job
               s == [worker[w] EXCEPT !.phase = "running", !.done = @ + 1]
    <2>1. CASE Become(w, Idle)
      BY <1>t, <1>2, <2>1, BecomeMoves
    <2>2. CASE Gate(w)
      <3>1. k \in Jobs /\ worker[w].phase \in Working /\ worker[w].phase = "calling"
        BY <1>t, <1>11, WorkingType DEF SaveCheckpoint, Working
      <3>2. /\ SetRow(k, [job[k] EXCEPT !.ckpt = worker[w].done + 1, !.ckptRules = RulesOf[w]])
            /\ Become(w, s)
        BY <1>11, <2>2 DEF SaveCheckpoint
      <3>3. /\ s.phase = "running" /\ s.job = k /\ s.epoch = worker[w].epoch
            /\ s.done = worker[w].done + 1
        BY <1>t DEF TypeInv, TypeOK, WorkerState
      <3> HIDE DEF s
      <3>4. job'[k] = [job[k] EXCEPT !.ckpt = worker[w].done + 1, !.ckptRules = RulesOf[w]]
        BY <1>t, <3>1, <3>2, SetRowMoves
      <3>5. SameClaim(w) /\ Saves(w)
        BY <1>t, <2>2, <3>1, <3>2, <3>3, <3>4, BecomeMoves DEF SameClaim, Saves, Working
      <3>6. QED
        BY <3>5 DEF WorkerMove
    <2>3. QED
      BY <1>11, <2>1, <2>2 DEF SaveCheckpoint
  <1>12. CASE Fail(w)
    <2>1. worker[w].phase \in Working
      BY <1>12 DEF Fail, Working
    <2>2. QED
      BY <1>t, <1>12, <2>1, PlanType, SettlingMoves DEF Fail, WorkerMove
  <1>13. CASE Settle(w) \/ Restart(w) \/ CrashWorker(w)
    BY <1>t, <1>2, <1>13, BecomeMoves DEF Settle, Restart, CrashWorker
  <1>14. CASE Finalise(w)
    <2>1. worker[w].phase \in Working
      BY <1>14 DEF Finalise, Working
    <2>2. Become(w, Idle) \/ (\E plan \in Plans : Become(w, Settling(w, plan)))
      BY <1>14 DEF Finalise, Plans
    <2>3. QED
      BY <1>t, <1>2, <2>1, <2>2, BecomeMoves, SettlingMoves DEF WorkerMove
  <1>15. CASE WorkerStep(w) \/ Heartbeat(w) \/ CrashWorker(w) \/ Restart(w) \/ Stall(w) \/ Wake(w)
    BY <1>1, <1>3, <1>4, <1>5, <1>6, <1>7, <1>8, <1>9, <1>10, <1>11, <1>12, <1>13, <1>14, <1>15
       DEF WorkerStep, Heartbeat, Stall, Wake
  <1>16. ASSUME NEW v \in Workers, v # w, WorkerStep(v) \/ CrashWorker(v) \/ Restart(v)
         PROVE  WorkerMove(w)
    <2>1. \E s : Become(v, s)
      BY <1>16 DEF WorkerStep, Poll, RecoverAbandonedStop, SelectCandidate, Claim, LoadCheckpoint,
         RecordProvider, StopAtBoundary, DispatchCall, SaveCheckpoint, Fail, Settle, Finalise,
         CrashWorker, Restart
    <2>2. OthersKept(v)
      BY <1>t, <2>1, BecomeMoves
    <2>3. QED
      BY <1>1, <1>16, <2>2 DEF OthersKept
  <1>17. CASE CrashApi
    <2>1. worker'[w] = Down \/ worker'[w] = worker[w]
      BY <1>17 DEF CrashApi
    <2>2. QED
      BY <1>1, <1>2, <2>1
  <1>18. CASE UNCHANGED worker
    BY <1>1, <1>18
  <1>19. CASE (\E j \in Jobs : Request(j)) \/ ApiStep \/ Tick \/ UNCHANGED vars
    BY <1>18, <1>19 DEF Request, Enqueue, RequestCancellation, RequestPause, RequestResume,
       ApiStep, RecordRefusal, CancelOutright, FlagCancellation, PauseOutright, FlagPause,
       ResumeWrite, OnlyApi, Tick, vars
  <1>20. ASSUME NEW v \in Workers, v # w, Heartbeat(v) \/ Stall(v) \/ Wake(v)
         PROVE  WorkerMove(w)
    BY <1>18, <1>20 DEF Heartbeat, Stall, Wake
  <1>21. QED
    BY <1>15, <1>16, <1>17, <1>19, <1>20 DEF Next

-----------------------------------------------------------------------------
(* Each part of the invariant is kept.                                     *)

\* The fields of the row each move leaves that the invariant speaks of.
LEMMA MovedFields ==
    ASSUME Inv, [Next]_vars, NEW j \in Jobs
    PROVE  /\ \/ job'[j].epoch = job[j].epoch
              \/ Taken(j) /\ job'[j].epoch = job[j].epoch + 1
           /\ \/ job'[j].ckpt = job[j].ckpt /\ job'[j].ckptRules = job[j].ckptRules
              \/ Completes(j)
              \/ \E w \in Workers :
                    /\ Gate(w) /\ worker[w].job = j
                    /\ worker[w].phase = "calling" /\ worker'[w].phase = "running"
                    /\ job'[j].ckpt = worker[w].done + 1 /\ job'[j].ckptRules = RulesOf[w]
           /\ job'[j].state = "processing" => job[j].state = "processing" \/ Taken(j)
           /\ job'[j].state = "absent" => job[j].state = "absent"
  <1> DEFINE r == job[j]
             q == job'[j]
  <1>0. r \in Row /\ NewRow \in Row /\ (r.state = "absent" => r = NewRow)
    BY NewRowType DEF Inv, TypeInv, TypeOK, RowsAreCoherent
  <1>1. CASE Kept(j)
    BY <1>1 DEF Kept
  <1>2. CASE Completes(j)
    <2>1. q.epoch = r.epoch /\ q.state = "completed"
      BY <1>0, <1>2 DEF Completes, Completed, Row
    <2>2. QED
      BY <1>2, <2>1
  <1>3. CASE Inserted(j)
    <2>1. /\ q.epoch = NewRow.epoch /\ q.ckpt = NewRow.ckpt /\ q.ckptRules = NewRow.ckptRules
          /\ q.state = "pending"
      BY <1>3 DEF Inserted, NewRows, NewRow
    <2>2. r = NewRow
      BY <1>0, <1>3 DEF Inserted
    <2>3. QED
      BY <2>1, <2>2
  <1>4. CASE Reconfigured(j) \/ AskedToStop(j) \/ Aged(j)
    <2>1. /\ q.epoch = r.epoch /\ q.ckpt = r.ckpt /\ q.ckptRules = r.ckptRules
          /\ q.state = r.state
      BY <1>0, <1>4 DEF Reconfigured, AskedToStop, Aged, Row
    <2>2. QED
      BY <2>1
  <1>5. CASE Taken(j)
    <2>1. /\ q.epoch = r.epoch + 1 /\ q.ckpt = r.ckpt /\ q.ckptRules = r.ckptRules
          /\ q.state = "processing"
      BY <1>0, <1>5 DEF Taken, Claimed, Row
    <2>2. QED
      BY <1>5, <2>1
  <1>6. CASE Recovered(j) \/ StoppedOutright(j) \/ Requeued(j) \/ RefusedLate(j)
    <2>1. /\ q.epoch = r.epoch /\ q.ckpt = r.ckpt /\ q.ckptRules = r.ckptRules
          /\ q.state \notin {"processing", "absent"}
      <3>1. CASE q \in {Cancelled(r), Paused(r), Refused(r), Resumed(r)}
        BY <1>0, <3>1 DEF Row, Cancelled, Paused, Refused, Resumed
      <3>2. CASE q = [Paused(r) EXCEPT !.pause = r.pause]
        BY <1>0, <3>2 DEF Row, Paused
      <3>3. QED
        BY <1>6, <3>1, <3>2 DEF Recovered, StoppedOutright, Requeued, RefusedLate
    <2>2. QED
      BY <2>1
  <1>7. CASE WrittenByHolder(j)
    <2>1. PICK w \in Workers : Gate(w) /\ worker[w].job = j /\ HolderWrites(w, r, q)
      BY <1>7 DEF WrittenByHolder
    <2>2. r.state = "processing"
      BY <2>1 DEF Gate, Holds
    <2>3. CASE q = Renewed(r) \/ (\E plan \in Plans : q = Settled(r, plan))
      <3>1. q.epoch = r.epoch /\ q.ckpt = r.ckpt /\ q.ckptRules = r.ckptRules /\ q.state # "absent"
        <4>1. q \in {Renewed(r), Cancelled(r), Paused(r), Retried(r), Failed(r)}
          BY <2>3 DEF Settled
        <4>2. CASE q = Renewed(r)
          BY <1>0, <2>2, <4>2 DEF Row, Renewed
        <4>3. CASE q \in {Cancelled(r), Paused(r)}
          BY <1>0, <4>3 DEF Row, Cancelled, Paused
        <4>4. CASE q \in {Retried(r), Failed(r)}
          BY <1>0, <4>4 DEF Row, Retried, Failed
        <4>5. QED
          BY <4>1, <4>2, <4>3, <4>4
      <3>2. QED
        BY <2>2, <3>1
    <2>4. CASE /\ worker[w].phase = "calling"
               /\ q = [r EXCEPT !.ckpt = worker[w].done + 1, !.ckptRules = RulesOf[w]]
               /\ worker'[w].phase = "running" /\ worker'[w].done = worker[w].done + 1
      <3>1. /\ q.epoch = r.epoch /\ q.ckpt = worker[w].done + 1 /\ q.ckptRules = RulesOf[w]
            /\ q.state = r.state
        BY <1>0, <2>4 DEF Row
      <3>2. QED
        BY <2>1, <2>2, <2>4, <3>1
    <2>5. QED
      BY <2>1, <2>3, <2>4 DEF HolderWrites
  <1>8. QED
    BY <1>1, <1>2, <1>3, <1>4, <1>5, <1>6, <1>7, RowMoves DEF RowMove

\* An epoch never falls: whoever has a claim has one the row has reached.
LEMMA EpochsRise ==
    ASSUME Inv, [Next]_vars, NEW j \in Jobs
    PROVE  /\ job[j].epoch \in Nat /\ job'[j].epoch \in Nat
           /\ job'[j].epoch >= job[j].epoch
  <1>1. job[j].epoch \in Nat
    BY DEF Inv, TypeInv, TypeOK, Row
  <1>2. QED
    BY <1>1, MovedFields

LEMMA ClaimsStayDistinct ==
    ASSUME Inv, [Next]_vars
    PROVE  ClaimsAreDistinct'
  <1>1. ASSUME NEW w \in Workers
        PROVE  IF worker'[w].phase \in Working
               THEN 1 <= worker'[w].epoch /\ worker'[w].epoch <= job'[worker'[w].job].epoch
               ELSE worker'[w].epoch = 0
    <2>1. CASE worker[w].phase \in Working /\ worker'[w].phase \in Working
               /\ worker'[w].job = worker[w].job /\ worker'[w].epoch = worker[w].epoch
      <3>1. /\ worker[w].job \in Jobs /\ worker[w].epoch \in Nat /\ 1 <= worker[w].epoch
            /\ worker[w].epoch <= job[worker[w].job].epoch
        BY <2>1, WorkingRow
      <3>2. QED
        BY <2>1, <3>1, EpochsRise
    <2>2. CASE worker[w].phase \notin Working /\ worker'[w] = worker[w]
      BY <2>2 DEF Inv, ClaimsAreDistinct
    <2>3. CASE Left(w)
      BY <2>3 DEF Left
    <2>4. CASE Claims(w)
      <3> DEFINE k == worker[w].job
      <3>1. k \in Jobs /\ job'[k].epoch = job[k].epoch + 1 /\ job[k].epoch \in Nat
        BY <2>4 DEF Claims, Claimed, Inv, TypeInv, TypeOK, Row
      <3>2. /\ worker'[w].phase = "claimed" /\ worker'[w].job = k
            /\ worker'[w].epoch = job[k].epoch + 1
        BY <2>4 DEF Claims
      <3>3. QED
        BY <3>1, <3>2 DEF Working
    <2>5. QED
      BY <2>1, <2>2, <2>3, <2>4, WorkerMoves DEF WorkerMove, SameClaim
  <1>2. ASSUME NEW v \in Workers, NEW w \in Workers, v # w,
               worker'[v].phase \in Working, worker'[w].phase \in Working,
               worker'[v].job = worker'[w].job
        PROVE  worker'[v].epoch # worker'[w].epoch
    <2>1. ASSUME NEW x \in Workers, NEW y \in Workers, Claims(x), x # y,
                 worker'[y].phase \in Working, worker'[x].job = worker'[y].job
          PROVE  worker'[x].epoch # worker'[y].epoch
      <3>1. worker'[y] = worker[y]
        BY <2>1 DEF Claims, OthersKept
      <3>2. /\ worker[y].epoch \in Nat /\ worker[y].epoch <= job[worker[y].job].epoch
            /\ worker[y].job \in Jobs
        BY <2>1, <3>1, WorkingRow
      <3>3. worker'[x].epoch = job[worker[y].job].epoch + 1
        BY <2>1, <3>1 DEF Claims
      <3>4. job[worker[y].job].epoch \in Nat
        BY <3>2 DEF Inv, TypeInv, TypeOK, Row
      <3>5. QED
        BY <3>1, <3>2, <3>3, <3>4
    <2>2. CASE Claims(v) \/ Claims(w)
      BY <1>2, <2>1, <2>2
    <2>3. CASE ~Claims(v) /\ ~Claims(w)
      <3>1. ASSUME NEW x \in Workers, ~Claims(x), worker'[x].phase \in Working
            PROVE  /\ worker[x].phase \in Working /\ worker'[x].job = worker[x].job
                   /\ worker'[x].epoch = worker[x].epoch
        BY <3>1, WorkerMoves DEF WorkerMove, Left, SameClaim
      <3>2. QED
        BY <1>2, <2>3, <3>1 DEF Inv, ClaimsAreDistinct
    <2>4. QED
      BY <2>2, <2>3
  <1>3. ASSUME NEW j \in Jobs, job'[j].state = "processing"
        PROVE  job'[j].epoch >= 1
    <2>1. job[j].epoch \in Nat /\ (job[j].state = "processing" => job[j].epoch >= 1)
      BY DEF Inv, TypeInv, TypeOK, Row, ClaimsAreDistinct
    <2>2. CASE job[j].state = "processing"
      BY <2>1, <2>2, EpochsRise
    <2>3. CASE Taken(j)
      <3>1. job'[j].epoch = job[j].epoch + 1
        BY <2>3 DEF Taken, Claimed, Inv, TypeInv, TypeOK, Row
      <3>2. QED
        BY <2>1, <3>1
    <2>4. QED
      BY <1>3, <2>2, <2>3, MovedFields
  <1>4. QED
    BY <1>1, <1>2, <1>3 DEF ClaimsAreDistinct

\* Two workers never both pass the claim check on one job.
LEMMA HoldersAreWorking ==
    ASSUME Inv, NEW w \in Workers, Holds(w)
    PROVE  worker[w].phase \in Working /\ worker[w].epoch = job[worker[w].job].epoch
  <1>1. /\ worker[w].job \in Jobs /\ job[worker[w].job].state = "processing"
        /\ job[worker[w].job].epoch = worker[w].epoch
    BY DEF Holds
  <1>2. worker[w].epoch # 0
    BY <1>1 DEF Inv, ClaimsAreDistinct
  <1>3. QED
    BY <1>1, <1>2 DEF Inv, ClaimsAreDistinct

LEMMA InvOneHolder ==
    ASSUME Inv
    PROVE  OneHolder
  <1>1. SUFFICES ASSUME NEW v \in Workers, NEW w \in Workers, v # w, Gate(v), Gate(w),
                        worker[v].job = worker[w].job
                 PROVE  FALSE
    BY DEF OneHolder
  <1>2. Holds(v) /\ Holds(w)
    BY <1>1 DEF Gate
  <1>3. QED
    BY <1>1, <1>2, HoldersAreWorking DEF Inv, ClaimsAreDistinct

LEMMA RowsStayCoherent ==
    ASSUME Inv, [Next]_vars
    PROVE  RowsAreCoherent'
  <1> SUFFICES ASSUME NEW j \in Jobs
               PROVE  /\ job'[j].state = "absent" => job'[j] = NewRow
                      /\ IsCancelled(job'[j]) => job'[j].cancel /\ job'[j].lease = NoLease
                      /\ job'[j].state = "completed" => job'[j].lease = NoLease
    BY DEF RowsAreCoherent
  <1> DEFINE r == job[j]
             q == job'[j]
  <1>0. /\ r \in Row /\ NewRow \in Row /\ (r.state = "absent" => r = NewRow)
        /\ IsCancelled(r) => r.cancel /\ r.lease = NoLease
        /\ r.state = "completed" => r.lease = NoLease
        /\ NewRow.lease = NoLease
    BY NewRowType DEF Inv, TypeInv, TypeOK, RowsAreCoherent, NewRow
  <1>1. CASE Kept(j)
    BY <1>0, <1>1 DEF Kept
  <1>2. CASE Inserted(j) \/ Taken(j) \/ Requeued(j)
    <2>1. q.state \in {"pending", "processing"}
      BY <1>0, <1>2 DEF Inserted, NewRows, NewRow, Taken, Claimed, Requeued, Resumed, Row
    <2>2. QED
      BY <2>1 DEF IsCancelled
  <1>3. CASE Completes(j)
    <2>1. q.state = "completed" /\ q.lease = NoLease
      BY <1>0, <1>3 DEF Completes, Completed, Row
    <2>2. QED
      BY <2>1 DEF IsCancelled
  <1>4. CASE Reconfigured(j)
    <2>1. /\ q.state = r.state /\ q.code = r.code /\ q.cancel = r.cancel /\ q.lease = r.lease
          /\ q.state # "absent"
      BY <1>0, <1>4 DEF Reconfigured, Row
    <2>2. QED
      BY <1>0, <2>1 DEF IsCancelled
  <1>5. CASE AskedToStop(j)
    <2>1. q.state = "processing"
      BY <1>0, <1>5 DEF AskedToStop, Row
    <2>2. QED
      BY <2>1 DEF IsCancelled
  <1>6. CASE Recovered(j) \/ StoppedOutright(j)
    <2>1. \/ q.state = "failed" /\ q.cancel /\ q.lease = NoLease
          \/ q.state = "paused"
      <3>1. CASE q = Cancelled(r)
        BY <1>0, <3>1 DEF Row, Cancelled
      <3>2. CASE q \in {Paused(r), [Paused(r) EXCEPT !.pause = r.pause]}
        BY <1>0, <3>2 DEF Row, Paused
      <3>3. QED
        BY <1>6, <3>1, <3>2 DEF Recovered, StoppedOutright
    <2>2. QED
      BY <2>1 DEF IsCancelled
  <1>7. CASE RefusedLate(j)
    <2>1. q.state = "failed" /\ q.code = "refused"
      BY <1>0, <1>7 DEF RefusedLate, Refused, Row
    <2>2. QED
      BY <2>1 DEF IsCancelled
  <1>8. CASE Aged(j)
    <2>1. /\ q.state = r.state /\ q.code = r.code /\ q.cancel = r.cancel
          /\ r.lease = NoLease => q = r
      BY <1>0, <1>8 DEF Aged, Row, NoLease
    <2>2. QED
      BY <1>0, <2>1 DEF IsCancelled
  <1>9. CASE WrittenByHolder(j)
    <2>1. PICK w \in Workers : r.state = "processing" /\ HolderWrites(w, r, q)
      BY <1>9 DEF WrittenByHolder, Gate, Holds
    <2>2. CASE q = Renewed(r) \/ q = Paused(r) \/ q = Retried(r)
      <3>1. q.state \in {"processing", "paused", "pending"}
        BY <1>0, <2>1, <2>2 DEF Row, Renewed, Paused, Retried
      <3>2. QED
        BY <3>1 DEF IsCancelled
    <2>3. CASE q = Cancelled(r)
      <3>1. q.state = "failed" /\ q.cancel /\ q.lease = NoLease
        BY <1>0, <2>3 DEF Row, Cancelled
      <3>2. QED
        BY <3>1
    <2>4. CASE q = Failed(r)
      <3>1. q.state = "failed" /\ q.code = "error"
        BY <1>0, <2>4 DEF Row, Failed
      <3>2. QED
        BY <3>1 DEF IsCancelled
    <2>5. CASE q = [r EXCEPT !.ckpt = worker[w].done + 1, !.ckptRules = RulesOf[w]]
      <3>1. q.state = "processing"
        BY <1>0, <2>1, <2>5 DEF Row
      <3>2. QED
        BY <3>1 DEF IsCancelled
    <2>6. QED
      BY <2>1, <2>2, <2>3, <2>4, <2>5 DEF HolderWrites, Settled
  <1>10. QED
    BY <1>1, <1>2, <1>3, <1>4, <1>5, <1>6, <1>7, <1>8, <1>9, RowMoves DEF RowMove

LEMMA RequestsStayApt ==
    ASSUME Inv, [Next]_vars
    PROVE  RequestsAreApt'
  <1>0. /\ api.op # "none" => api.job \in Jobs
        /\ api.op # "none" => job[api.job].state # "absent"
        /\ api \in ApiState /\ \A j \in Jobs : job[j].state \in States
    BY DEF Inv, RequestsAreApt, TypeInv, TypeOK, JobsAreKnown, Row
  <1>1. CASE api' = api
    <2>1. api.op # "none" => job'[api.job].state # "absent"
      BY <1>0, MovedFields
    <2>2. QED
      BY <1>1, <2>1 DEF Inv, RequestsAreApt
  <1>2. CASE api'.op = "none"
    BY <1>2 DEF RequestsAreApt
  <1>3. CASE \E j \in Jobs : Request(j)
    <2>1. PICK j \in Jobs : Request(j)
      BY <1>3
    <2>2. CASE Enqueue(j)
      <3>1. job'[j].state = "pending"
        <4>1. PICK q \in NewRows : SetRow(j, q)
          BY <2>2 DEF Enqueue, NewRows
        <4>2. job'[j] = q
          BY <4>1, SetRowMoves DEF Inv
        <4>3. QED
          BY <4>1, <4>2 DEF NewRows, NewRow
      <3>2. \/ api' = NoRequest
            \/ Refusals /\ api' = [op |-> "refuse", job |-> j, seen |-> "pending"]
        BY <2>2 DEF Enqueue, Serve
      <3>3. QED
        BY <3>1, <3>2 DEF RequestsAreApt, NoRequest
    <2>3. CASE RequestCancellation(j) \/ RequestPause(j) \/ RequestResume(j)
      <3>1. UNCHANGED job /\ job[j].state # "absent"
        BY <2>3 DEF RequestCancellation, RequestPause, RequestResume
      <3>2. CASE RequestCancellation(j)
        <4>1. \/ api' = [op |-> "cancelFlag", job |-> j, seen |-> job[j].state]
              \/ /\ api' = [op |-> "cancel", job |-> j, seen |-> job[j].state]
                 /\ job[j].state \in {"pending", "failed", "paused"}
          BY <1>0, <3>2 DEF RequestCancellation, Serve, States
        <4>2. QED
          BY <3>1, <4>1 DEF RequestsAreApt
      <3>3. CASE RequestPause(j)
        <4>1. \/ api' = [op |-> "pauseFlag", job |-> j, seen |-> job[j].state]
              \/ /\ api' = [op |-> "pause", job |-> j, seen |-> job[j].state]
                 /\ job[j].state = "pending"
          BY <1>0, <3>3 DEF RequestPause, Serve
        <4>2. QED
          BY <3>1, <4>1 DEF RequestsAreApt
      <3>4. CASE RequestResume(j)
        <4>1. /\ api' = [op |-> "resume", job |-> j, seen |-> job[j].state]
              /\ job[j].state \in {"failed", "paused"}
          BY <3>4 DEF RequestResume, Serve
        <4>2. QED
          BY <3>1, <4>1 DEF RequestsAreApt
      <3>5. QED
        BY <2>3, <3>2, <3>3, <3>4
    <2>4. QED
      BY <2>1, <2>2, <2>3 DEF Request
  <1>4. CASE ApiStep
    <2>1. \/ api' = NoRequest
          \/ /\ api.op \in {"cancel", "pause"} /\ UNCHANGED job
             /\ \/ api' = [api EXCEPT !.op = "cancelFlag"]
                \/ api' = [api EXCEPT !.op = "pauseFlag"]
      BY <1>4 DEF ApiStep, RecordRefusal, CancelOutright, FlagCancellation,
                  PauseOutright, FlagPause, ResumeWrite, Answered
    <2>2. CASE api' = NoRequest
      BY <1>2, <2>2 DEF NoRequest
    <2>3. CASE /\ api.op \in {"cancel", "pause"} /\ UNCHANGED job
               /\ api'.op \in {"cancelFlag", "pauseFlag"} /\ api'.job = api.job
      BY <1>0, <2>3 DEF RequestsAreApt
    <2>4. QED
      BY <1>0, <2>1, <2>2, <2>3 DEF ApiState
  <1>5. CASE CrashApi
    BY <1>2, <1>5 DEF CrashApi, NoRequest
  <1>6. CASE Tick \/ UNCHANGED vars
    BY <1>1, <1>6 DEF Tick, vars
  <1>7. ASSUME NEW w \in Workers,
               \/ WorkerStep(w) \/ Heartbeat(w)
               \/ CrashWorker(w) \/ Restart(w) \/ Stall(w) \/ Wake(w)
        PROVE  RequestsAreApt'
    <2>1. UNCHANGED api
      BY <1>7 DEF WorkerStep, Heartbeat, CrashWorker, Restart, Stall, Wake, OnlyWorker, Finalise,
         Poll, RecoverAbandonedStop, SelectCandidate, Claim, LoadCheckpoint, RecordProvider,
         StopAtBoundary, DispatchCall, SaveCheckpoint, Fail, Settle
    <2>2. QED
      BY <1>1, <2>1
  <1>8. QED
    BY <1>3, <1>4, <1>5, <1>6, <1>7 DEF Next

\* Whoever holds the newest claim knows the progress on the row: only it may
\* have written there since it read it.
LEMMA ProgressStaysShared ==
    ASSUME Inv, [Next]_vars
    PROVE  ProgressIsShared'
  <1> SUFFICES ASSUME NEW w \in Workers,
                      worker'[w].phase \in {"reading", "running", "calling"},
                      worker'[w].epoch = job'[worker'[w].job].epoch
               PROVE  /\ worker'[w].done = job'[worker'[w].job].ckpt
                      /\ worker'[w].phase = "reading"
                            => worker'[w].from = job'[worker'[w].job].ckptRules
                      /\ worker'[w].phase # "reading" /\ job'[worker'[w].job].ckpt > 0
                            => job'[worker'[w].job].ckptRules = RulesOf[w]
    BY DEF ProgressIsShared
  <1> DEFINE k == worker[w].job
  <1>0. worker'[w].phase \in Working
    BY DEF Working
  <1>1. CASE worker'[w] = worker[w]
    <2>1. k \in Jobs /\ job[k].epoch \in Nat /\ worker[w].epoch <= job[k].epoch
      BY <1>0, <1>1, WorkingRow, EpochsRise
    <2>2. job'[k].epoch = job[k].epoch /\ worker[w].epoch = job[k].epoch
      BY <1>1, <2>1, EpochsRise
    <2>3. ASSUME NEW v \in Workers, Gate(v), worker[v].job = k
          PROVE  v = w
      <3>1. worker[v].phase \in Working /\ worker[v].epoch = job[k].epoch
        BY <2>3, HoldersAreWorking DEF Gate
      <3>2. QED
        BY <1>0, <1>1, <2>2, <2>3, <3>1 DEF Inv, ClaimsAreDistinct
    <2>4. ~Completes(k)
      <3>1. Completes(k) => worker'[w] = Idle
        BY <2>3 DEF Completes
      <3>2. QED
        BY <1>0, <3>1 DEF Idle, Working
    <2>5. job'[k].ckpt = job[k].ckpt /\ job'[k].ckptRules = job[k].ckptRules
      BY <1>1, <2>1, <2>3, <2>4, MovedFields
    <2>6. QED
      BY <1>1, <2>2, <2>5 DEF Inv, ProgressIsShared
  <1>2. CASE SameClaim(w) /\ (Loads(w) \/ Starts(w) \/ Dispatches(w) \/ Saves(w))
    <2>1. /\ k \in Jobs /\ job[k] \in Row /\ worker'[w].job = k /\ worker[w].epoch = worker'[w].epoch
          /\ job[k].ckpt \in Nat
      BY <1>2, WorkingRow DEF SameClaim, Row
    <2>2. CASE Loads(w)
      BY <2>1, <2>2 DEF Loads
    <2>3. CASE Starts(w)
      <3>1. /\ job'[k].ckpt = job[k].ckpt /\ job'[k].ckptRules = job[k].ckptRules
            /\ job'[k].epoch = job[k].epoch
        BY <2>1, <2>3 DEF Starts, Row
      <3>2. worker[w].done = job[k].ckpt /\ worker[w].from = job[k].ckptRules
        BY <2>1, <2>3, <3>1 DEF Starts, Inv, ProgressIsShared
      <3>3. job[k].ckpt > 0 => job[k].ckptRules = RulesOf[w]
        BY <2>3, <3>2, RulesAssumption DEF Starts, Incompatible
      <3>4. QED
        BY <2>1, <2>3, <3>1, <3>2, <3>3 DEF Starts
    <2>4. CASE Dispatches(w)
      <3>1. /\ job'[k].ckpt = job[k].ckpt /\ job'[k].ckptRules = job[k].ckptRules
            /\ job'[k].epoch = job[k].epoch
        BY <2>1, <2>4 DEF Dispatches, Renewed, Row
      <3>2. QED
        BY <2>1, <2>4, <3>1 DEF Dispatches, Inv, ProgressIsShared
    <2>5. CASE Saves(w)
      <3>1. job'[k].ckpt = worker[w].done + 1 /\ job'[k].ckptRules = RulesOf[w]
        BY <2>1, <2>5 DEF Saves, Row
      <3>2. QED
        BY <2>1, <2>5, <3>1 DEF Saves
    <2>6. QED
      BY <1>2, <2>2, <2>3, <2>4, <2>5
  <1>3. QED
    BY <1>0, <1>1, <1>2, WorkerMoves DEF WorkerMove, Left, Claims

LEMMA InvInit == Init => Inv
  <1> SUFFICES ASSUME Init PROVE Inv
    OBVIOUS
  <1>1. /\ NewRow.state = "absent" /\ ~IsCancelled(NewRow)
        /\ Idle.phase = "idle" /\ Idle.epoch = 0 /\ NoRequest.op = "none"
    BY DEF NewRow, IsCancelled, Idle, NoRequest
  <1>2. TypeInv
    BY TypeInit
  <1>3. ClaimsAreDistinct
    BY <1>1 DEF Init, ClaimsAreDistinct, Working
  <1>4. RowsAreCoherent
    BY <1>1 DEF Init, RowsAreCoherent
  <1>5. RequestsAreApt /\ ProgressIsShared
    BY <1>1 DEF Init, RequestsAreApt, ProgressIsShared
  <1>6. QED
    BY <1>2, <1>3, <1>4, <1>5 DEF Inv

LEMMA InvNext ==
    ASSUME Inv, [Next]_vars
    PROVE  Inv'
  <1>1. TypeInv'
    BY TypeNext DEF Inv
  <1>2. QED
    BY <1>1, ClaimsStayDistinct, RowsStayCoherent, RequestsStayApt, ProgressStaysShared DEF Inv

THEOREM SpecInv == Spec => []Inv
  BY InvInit, InvNext, PTL DEF Spec

-----------------------------------------------------------------------------
(* The properties of JobQueue.                                              *)

\* Claims exclude each other: for any number of processes, whatever ids they
\* were started with, however they crash, stall and wake up.
THEOREM SpecOneHolder == Spec => []OneHolder
  <1>1. Inv => OneHolder
    BY InvOneHolder
  <1>2. QED
    BY <1>1, SpecInv, PTL

\* The holder's progress is the progress stored, made under its own rules.
THEOREM SpecHolderExtendsCheckpoint == Spec => []HolderExtendsCheckpoint
  <1>1. ASSUME Inv PROVE HolderExtendsCheckpoint
    <2>1. ASSUME NEW w \in Workers, Holds(w),
                 worker[w].phase \in {"reading", "running", "calling"}
          PROVE  /\ worker[w].done = job[worker[w].job].ckpt
                 /\ worker[w].phase # "reading" /\ worker[w].done > 0
                       => job[worker[w].job].ckptRules = RulesOf[w]
      <3>1. worker[w].epoch = job[worker[w].job].epoch
        BY <1>1, <2>1, HoldersAreWorking
      <3>2. QED
        BY <1>1, <2>1, <3>1 DEF Inv, ProgressIsShared
    <2>2. QED
      BY <2>1 DEF HolderExtendsCheckpoint
  <1>2. QED
    BY <1>1, SpecInv, PTL

\* What a row outside processing keeps, whoever moves it, when no refusal can
\* come late: a finished or cancelled run only ever has its rules rewritten.
LEMMA SettledRowsStay ==
    ASSUME Inv, [Next]_vars, ~Refusals, NEW j \in Jobs,
           job[j].state = "completed" \/ IsCancelled(job[j])
    PROVE  Outcome(job'[j]) = Outcome(job[j]) /\ job'[j].state = job[j].state
           /\ published'[j] = published[j]
  <1> DEFINE r == job[j]
             q == job'[j]
  <1>0. /\ r \in Row /\ r.state \in {"completed", "failed"} /\ r.lease = NoLease
        /\ r.state = "failed" => r.code = "cancelled_by_user" /\ r.cancel
    BY DEF Inv, TypeInv, TypeOK, RowsAreCoherent, IsCancelled
  <1>1. Kept(j) \/ Reconfigured(j) \/ Aged(j)
    <2>1. /\ ~Completes(j) /\ ~Inserted(j) /\ ~Taken(j) /\ ~WrittenByHolder(j)
          /\ ~Recovered(j) /\ ~StoppedOutright(j) /\ ~AskedToStop(j) /\ ~Requeued(j)
          /\ ~RefusedLate(j)
      BY <1>0 DEF Completes, Gate, Holds, Inserted, Taken, Claimable, WrittenByHolder, Recovered,
                  StoppedOutright, AskedToStop, Requeued, RefusedLate
    <2>2. QED
      BY <2>1, RowMoves DEF RowMove
  <1>2. published'[j] = published[j]
    <2>1. ~Completes(j)
      BY <1>0 DEF Completes, Gate, Holds
    <2>2. QED
      BY <2>1, RowMoves DEF RowMove, Kept
  <1>3. CASE Kept(j)
    BY <1>2, <1>3 DEF Kept
  <1>4. CASE Reconfigured(j)
    <2>1. PICK rules \in Rules : q = [r EXCEPT !.rules = rules]
      BY <1>4 DEF Reconfigured
    <2>2. Outcome(q) = Outcome(r) /\ q.state = r.state
      BY <1>0, <2>1 DEF Outcome, Row
    <2>3. QED
      BY <1>2, <2>2
  <1>5. CASE Aged(j)
    <2>1. q = r
      BY <1>0, <1>5 DEF Aged, NoLease, Row
    <2>2. QED
      BY <1>2, <2>1
  <1>6. QED
    BY <1>1, <1>3, <1>4, <1>5

\* A cancelled run is never requeued, resumed, published or rewritten, where
\* no generate request is refused after its INSERT.
THEOREM SpecCancelledIsFinal ==
    ASSUME ~Refusals
    PROVE  Spec => CancelledIsFinal
  <1>1. ASSUME Inv, [Next]_vars
        PROVE  \A j \in Jobs : IsCancelled(job[j]) => Outcome(job[j]') = Outcome(job[j])
    BY <1>1, SettledRowsStay
  <1>2. QED
    BY <1>1, SpecInv, PTL DEF CancelledIsFinal, Spec

\* Nor is a completed run's record.
THEOREM SpecCompletedIsFinal ==
    ASSUME ~Refusals
    PROVE  Spec => CompletedIsFinal
  <1>1. ASSUME Inv, [Next]_vars
        PROVE  \A j \in Jobs : job[j].state = "completed" => Outcome(job[j]') = Outcome(job[j])
    BY <1>1, SettledRowsStay
  <1>2. QED
    BY <1>1, SpecInv, PTL DEF CompletedIsFinal, Spec

\* Cards are committed once, in the step that completes the run.
THEOREM SpecPublishedIffCompleted ==
    ASSUME ~Refusals
    PROVE  Spec => []PublishedIffCompleted
  <1>1. Init => PublishedIffCompleted
    BY DEF Init, PublishedIffCompleted, NewRow
  <1>2. ASSUME Inv, [Next]_vars, PublishedIffCompleted
        PROVE  PublishedIffCompleted'
    <2> SUFFICES ASSUME NEW j \in Jobs
                 PROVE  published'[j] = IF job'[j].state = "completed" THEN 1 ELSE 0
      BY DEF PublishedIffCompleted
    <2> DEFINE r == job[j]
               q == job'[j]
    <2>0. r \in Row /\ published[j] = IF r.state = "completed" THEN 1 ELSE 0
      BY <1>2 DEF Inv, TypeInv, TypeOK, PublishedIffCompleted
    <2>1. CASE r.state = "completed"
      BY <1>2, <2>0, <2>1, SettledRowsStay
    <2>2. CASE Completes(j)
      <3>1. r.state = "processing" /\ q.state = "completed"
        BY <2>0, <2>2 DEF Completes, Gate, Holds, Completed, Row
      <3>2. QED
        BY <2>0, <2>2, <3>1 DEF Completes
    <2>3. CASE r.state # "completed" /\ ~Completes(j)
      <3>1. published'[j] = published[j]
        BY <1>2, <2>3, RowMoves DEF RowMove, Kept
      <3>2. q.state # "completed"
        <4>1. CASE Kept(j) \/ Reconfigured(j) \/ AskedToStop(j) \/ Aged(j)
          BY <2>0, <2>3, <4>1 DEF Kept, Reconfigured, AskedToStop, Aged, Row
        <4>2. CASE Inserted(j) \/ Taken(j) \/ Requeued(j)
          BY <2>0, <4>2 DEF Inserted, NewRows, NewRow, Taken, Claimed, Requeued, Resumed, Row
        <4>3. CASE Recovered(j) \/ StoppedOutright(j) \/ RefusedLate(j)
          <5>1. q.state \in {"failed", "paused"}
            <6>1. CASE q \in {Cancelled(r), Paused(r), Refused(r)}
              BY <2>0, <6>1 DEF Row, Cancelled, Paused, Refused
            <6>2. CASE q = [Paused(r) EXCEPT !.pause = r.pause]
              BY <2>0, <6>2 DEF Row, Paused
            <6>3. QED
              BY <4>3, <6>1, <6>2 DEF Recovered, StoppedOutright, RefusedLate
          <5>2. QED
            BY <5>1
        <4>4. CASE WrittenByHolder(j)
          <5>1. PICK w \in Workers : r.state = "processing" /\ HolderWrites(w, r, q)
            BY <4>4 DEF WrittenByHolder, Gate, Holds
          <5>2. CASE q = [r EXCEPT !.ckpt = worker[w].done + 1, !.ckptRules = RulesOf[w]]
            BY <2>0, <5>1, <5>2 DEF Row
          <5>3. CASE q \in {Renewed(r), Cancelled(r), Paused(r), Retried(r), Failed(r)}
            <6>1. CASE q \in {Renewed(r), Retried(r), Failed(r)}
              BY <2>0, <5>1, <6>1 DEF Row, Renewed, Retried, Failed
            <6>2. CASE q \in {Cancelled(r), Paused(r)}
              BY <2>0, <6>2 DEF Row, Cancelled, Paused
            <6>3. QED
              BY <5>3, <6>1, <6>2
          <5>4. QED
            BY <5>1, <5>2, <5>3 DEF HolderWrites, Settled
        <4>5. QED
          BY <1>2, <2>3, <4>1, <4>2, <4>3, <4>4, RowMoves DEF RowMove
      <3>3. QED
        BY <2>0, <2>3, <3>1, <3>2
    <2>4. QED
      BY <2>1, <2>2, <2>3
  <1>3. ASSUME PublishedIffCompleted, UNCHANGED vars
        PROVE  PublishedIffCompleted'
    BY <1>3 DEF PublishedIffCompleted, vars
  <1>4. QED
    BY <1>1, <1>2, SpecInv, PTL DEF Spec

\* What was paid for is kept: progress grows by the batch saved, by its holder.
THEOREM SpecProgressIsKept == Spec => ProgressIsKept
  <1>1. ASSUME Inv, [Next]_vars
        PROVE  \A j \in Jobs :
                  job[j].state' # "completed" => job[j].ckpt' \in {job[j].ckpt, job[j].ckpt + 1}
    <2> SUFFICES ASSUME NEW j \in Jobs, job'[j].state # "completed"
                 PROVE  job'[j].ckpt \in {job[j].ckpt, job[j].ckpt + 1}
      OBVIOUS
    <2>1. ~Completes(j)
      <3>1. job[j] \in Row
        BY <1>1 DEF Inv, TypeInv, TypeOK
      <3>2. Completes(j) => job'[j].state = "completed"
        BY <3>1 DEF Completes, Completed, Row
      <3>3. QED
        BY <3>2
    <2>2. ASSUME NEW w \in Workers, Gate(w), worker[w].job = j, worker[w].phase = "calling"
          PROVE  worker[w].done = job[j].ckpt
      <3>1. worker[w].epoch = job[j].epoch
        BY <1>1, <2>2, HoldersAreWorking DEF Gate
      <3>2. QED
        BY <1>1, <2>2, <3>1 DEF Inv, ProgressIsShared
    <2>3. QED
      BY <1>1, <2>1, <2>2, MovedFields
  <1>2. QED
    BY <1>1, SpecInv, PTL DEF ProgressIsKept, Spec

\* A checkpoint is made under one set of rules, whoever takes turns on it.
THEOREM SpecRulesAreNotMixed == Spec => RulesAreNotMixed
  <1>1. ASSUME Inv, [Next]_vars
        PROVE  \A j \in Jobs : job[j].ckpt > 0 /\ job[j].ckpt' > 0
                                  => job[j].ckptRules' = job[j].ckptRules
    <2> SUFFICES ASSUME NEW j \in Jobs, job[j].ckpt > 0, job'[j].ckpt > 0
                 PROVE  job'[j].ckptRules = job[j].ckptRules
      OBVIOUS
    <2>1. ~Completes(j)
      <3>1. job[j] \in Row
        BY <1>1 DEF Inv, TypeInv, TypeOK
      <3>2. Completes(j) => job'[j].ckpt = 0
        BY <3>1 DEF Completes, Completed, Row
      <3>3. QED
        BY <3>2
    <2>2. ASSUME NEW w \in Workers, Gate(w), worker[w].job = j, worker[w].phase = "calling"
          PROVE  job[j].ckptRules = RulesOf[w]
      <3>1. worker[w].epoch = job[j].epoch
        BY <1>1, <2>2, HoldersAreWorking DEF Gate
      <3>2. QED
        BY <1>1, <2>2, <3>1 DEF Inv, ProgressIsShared
    <2>3. QED
      BY <1>1, <2>1, <2>2, MovedFields
  <1>2. QED
    BY <1>1, SpecInv, PTL DEF RulesAreNotMixed, Spec

\* No step takes a job away from a worker whose lease is live.
THEOREM SpecLiveClaimIsNotTaken ==
    ASSUME ~Refusals
    PROVE  Spec => LiveClaimIsNotTaken
  <1>1. ASSUME Inv, [Next]_vars, NEW w \in Workers, Gate(w), worker'[w] = worker[w]
        PROVE  Holds(w)'
    <2> DEFINE k == worker[w].job
               r == job[k]
               q == job'[k]
    <2>0. /\ k \in Jobs /\ r \in Row /\ r.state = "processing" /\ r.worker = IdOf[w]
          /\ r.epoch = worker[w].epoch /\ r.lease > 0 /\ r.lease # 0
          /\ worker[w].phase \in Working
      BY <1>1, HoldersAreWorking DEF Gate, Holds, Inv, TypeInv, TypeOK
    <2>1. ASSUME NEW v \in Workers, Gate(v), worker[v].job = k
          PROVE  v = w
      BY <1>1, <2>1, InvOneHolder DEF OneHolder
    <2>2. worker'[w] # Idle
      BY <1>1, <2>0 DEF Idle, Working
    <2>3. /\ ~Completes(k) /\ ~Inserted(k) /\ ~Taken(k) /\ ~Recovered(k)
          /\ ~StoppedOutright(k) /\ ~Requeued(k) /\ ~RefusedLate(k)
      BY <2>0, <2>1, <2>2 DEF Completes, Inserted, Taken, Claimable, Recovered,
                              StoppedOutright, Requeued, RefusedLate
    <2>4. q.state = "processing" /\ q.worker = IdOf[w] /\ q.epoch = worker[w].epoch
      <3>1. CASE Kept(k) \/ Reconfigured(k) \/ AskedToStop(k) \/ Aged(k)
        BY <2>0, <3>1 DEF Kept, Reconfigured, AskedToStop, Aged, Row
      <3>2. CASE WrittenByHolder(k)
        <4>1. HolderWrites(w, r, q)
          BY <2>1, <3>2 DEF WrittenByHolder
        <4>2. q = Renewed(r)
          BY <1>1, <2>2, <4>1 DEF HolderWrites
        <4>3. QED
          BY <2>0, <4>2 DEF Renewed, Row
      <3>3. QED
        BY <1>1, <2>0, <2>3, <3>1, <3>2, RowMoves DEF RowMove
    <2>5. QED
      BY <1>1, <2>0, <2>4 DEF Holds
  <1>2. ASSUME Inv, [Next]_vars
        PROVE  \A w \in Workers : Gate(w) /\ worker[w]' = worker[w] => Holds(w)'
    BY <1>1, <1>2
  <1>3. QED
    BY <1>2, SpecInv, PTL DEF LiveClaimIsNotTaken, Spec

\* A claim that expired or was superseded never passes the check again.
THEOREM SpecRefusedClaimStaysRefused == Spec => RefusedClaimStaysRefused
  <1>1. ASSUME Inv, [Next]_vars, NEW w \in Workers,
               worker[w].phase \in Working, worker'[w].phase \in Working, Gate(w)'
        PROVE  Gate(w)
    <2> DEFINE k == worker[w].job
               r == job[k]
               q == job'[k]
    <2>1. worker'[w].job = k /\ worker'[w].epoch = worker[w].epoch
      <3>1. ~Left(w) /\ ~Claims(w)
        BY <1>1 DEF Left, Claims, Working
      <3>2. QED
        BY <1>1, <3>1, WorkerMoves DEF WorkerMove, SameClaim
    <2>2. /\ k \in Jobs /\ r \in Row /\ worker[w].epoch \in Nat
          /\ worker[w].epoch <= r.epoch
      BY <1>1, WorkingRow
    <2>3. /\ q.state = "processing" /\ q.worker = IdOf[w]
          /\ q.epoch = worker[w].epoch /\ q.lease > 0
      BY <1>1, <2>1 DEF Gate, Holds
    <2>4. r.epoch = worker[w].epoch /\ q.epoch = r.epoch
      BY <1>1, <2>2, <2>3, EpochsRise
    <2>5. ~Taken(k)
      <3>1. Taken(k) => q.epoch = r.epoch + 1
        BY <2>2 DEF Taken, Claimed, Row
      <3>2. r.epoch \in Nat
        BY <2>2 DEF Row
      <3>3. QED
        BY <2>4, <3>1, <3>2
    <2>6. r.state = "processing"
      BY <1>1, <2>2, <2>3, <2>5, MovedFields
    <2>7. CASE Kept(k) \/ Reconfigured(k) \/ AskedToStop(k) \/ Aged(k)
      <3>1. r.worker = IdOf[w] /\ r.lease > 0
        <4>1. CASE Kept(k) \/ Reconfigured(k) \/ AskedToStop(k)
          BY <2>2, <2>3, <4>1 DEF Kept, Reconfigured, AskedToStop, Row
        <4>2. CASE Aged(k)
          BY <2>2, <2>3, <4>2 DEF Aged, Row, NoLease
        <4>3. QED
          BY <2>7, <4>1, <4>2
      <3>2. QED
        BY <2>2, <2>4, <2>6, <3>1 DEF Gate, Holds
    <2>8. CASE WrittenByHolder(k)
      <3>1. PICK v \in Workers : Gate(v) /\ worker[v].job = k
        BY <2>8 DEF WrittenByHolder
      <3>2. worker[v].phase \in Working /\ worker[v].epoch = r.epoch
        BY <1>1, <3>1, HoldersAreWorking DEF Gate
      <3>3. v = w
        BY <1>1, <2>4, <3>1, <3>2 DEF Inv, ClaimsAreDistinct
      <3>4. QED
        BY <3>1, <3>3
    <2>9. /\ ~Completes(k) /\ ~Inserted(k) /\ ~Recovered(k)
          /\ ~StoppedOutright(k) /\ ~Requeued(k) /\ ~RefusedLate(k)
      <3>1. Completes(k) => q.state = "completed"
        BY <2>2 DEF Completes, Completed, Row
      <3>2. Recovered(k) => q.state # "processing"
        <4>1. CASE q = Cancelled(r)
          BY <2>2, <4>1 DEF Cancelled, Row
        <4>2. CASE q = [Paused(r) EXCEPT !.pause = r.pause]
          BY <2>2, <4>2 DEF Paused, Row
        <4>3. QED
          BY <4>1, <4>2 DEF Recovered
      <3>3. RefusedLate(k) => q.state = "failed"
        BY <2>2 DEF RefusedLate, Refused, Row
      <3>4. QED
        BY <2>3, <2>6, <3>1, <3>2, <3>3 DEF Inserted, StoppedOutright, Requeued
    <2>10. QED
      BY <1>1, <2>2, <2>5, <2>7, <2>8, <2>9, RowMoves DEF RowMove
  <1>2. ASSUME Inv, [Next]_vars
        PROVE  \A w \in Workers :
                  /\ worker[w].phase \in Working /\ worker[w].phase' \in Working
                  /\ ~Gate(w)
                  => ~Gate(w)'
    BY <1>1, <1>2
  <1>3. QED
    BY <1>2, SpecInv, PTL DEF RefusedClaimStaysRefused, Spec

-----------------------------------------------------------------------------
(* A server that runs its own worker: what one thread decides of a stop it *)
(* has read, it writes before the next request is served.                  *)

StopKept(r) == r.cancel => r.state = "processing" \/ IsCancelled(r)

\* A cancellation is either still being honoured or has made its run terminal;
\* what a worker has decided on, or found abandoned, is true of the row until
\* it is written; and the API and the worker are never both half-way through.
StopsAreCurrent ==
    /\ \A j \in Jobs : StopKept(job[j])
    /\ \A w \in Workers :
          worker[w].phase = "settling" /\ worker[w].plan # "cancel" /\ Holds(w)
             => ~job[worker[w].job].cancel
    /\ \A w \in Workers : worker[w].phase = "recovering" =>
          \A f \in worker[w].found : f.cancel = job[f.job].cancel
    /\ api.op = "refuse" => ~job[api.job].cancel
    /\ api.op # "none" => \A w \in Workers : ~MidHandler(w)

\* The rows that keep a stop: every UPDATE of a row that has none, and those
\* that do not touch the flag of a row that is not handed back.
LEMMA StopKeptRows ==
    ASSUME NEW r \in Row
    PROVE  /\ StopKept(Cancelled(r))
           /\ ~r.cancel => /\ ~Paused(r).cancel /\ ~Failed(r).cancel /\ ~Retried(r).cancel
                           /\ ~Resumed(r).cancel /\ ~Refused(r).cancel /\ ~Completed(r).cancel
           /\ \A w \in Workers : StopKept(Claimed(r, w)) /\ Claimed(r, w).cancel = r.cancel
           /\ Renewed(r).cancel = r.cancel
           /\ StopKept(r) => StopKept(Renewed(r))
           /\ \A q \in Row : q.cancel = r.cancel /\ q.state = r.state /\ q.code = r.code
                             /\ StopKept(r) => StopKept(q)
  BY DEF Row, StopKept, IsCancelled, Cancelled, Paused, Failed, Retried, Resumed, Refused,
         Completed, Claimed, Renewed

\* One row written with its stop kept, or none, leaves every stop kept.
LEMMA WrittenStopsAreKept ==
    ASSUME Inv, StopsAreCurrent, NEW k \in Jobs,
           UNCHANGED job \/ \E q : SetRow(k, q) /\ StopKept(q)
    PROVE  \A j \in Jobs : StopKept(job'[j])
  BY DEF Inv, TypeInv, TypeOK, StopsAreCurrent, SetRow

\* What is left to show of a worker's step: it is the only worker there is.
LEMMA StopsAfterWork ==
    ASSUME StopsAreCurrent, InApi = Workers, NEW w \in Workers, Scheduled(w), api' = api,
           \A j \in Jobs : StopKept(job'[j]),
           worker'[w].phase = "settling" /\ worker'[w].plan # "cancel" /\ Holds(w)'
              => ~job'[worker'[w].job].cancel,
           worker'[w].phase = "recovering" =>
              \A f \in worker'[w].found : f.cancel = job'[f.job].cancel
    PROVE  StopsAreCurrent'
  <1>1. api'.op = "none"
    BY DEF Scheduled
  <1>2. \A v \in Workers : v = w
    BY WorkersAssumption
  <1>3. QED
    BY <1>1, <1>2 DEF StopsAreCurrent

\* A decision about the row as it is, written by whoever holds it.
LEMMA StopsAfterDeciding ==
    ASSUME Inv, StopsAreCurrent, InApi = Workers, NEW w \in Workers, Scheduled(w), api' = api,
           worker[w].phase \in Working, UNCHANGED job,
           \/ worker'[w].phase \notin {"settling", "recovering"}
           \/ \E plan \in Plans :
                 /\ worker'[w] = Settling(w, plan)
                 /\ plan # "cancel" => ~job[worker[w].job].cancel
    PROVE  StopsAreCurrent'
  <1>1. worker[w] \in WorkerState
    BY DEF Inv, TypeInv, TypeOK
  <1>2. \A j \in Jobs : StopKept(job'[j])
    BY DEF StopsAreCurrent
  <1>3. CASE worker'[w].phase \notin {"settling", "recovering"}
    BY <1>2, <1>3, StopsAfterWork
  <1>4. CASE \E plan \in Plans : /\ worker'[w] = Settling(w, plan)
                                 /\ plan # "cancel" => ~job[worker[w].job].cancel
    <2>1. PICK plan \in Plans : /\ worker'[w] = Settling(w, plan)
                                /\ plan # "cancel" => ~job[worker[w].job].cancel
      BY <1>4
    <2>2. /\ worker'[w].phase = "settling" /\ worker'[w].plan = plan
          /\ worker'[w].job = worker[w].job
      BY <1>1, <2>1 DEF Settling, WorkerState
    <2>3. QED
      BY <1>2, <2>1, <2>2, StopsAfterWork
  <1>5. QED
    BY <1>3, <1>4

LEMMA StopsAfterClaiming ==
    ASSUME Inv, StopsAreCurrent, InApi = Workers, NEW w \in Workers,
           Poll(w) \/ RecoverAbandonedStop(w) \/ SelectCandidate(w) \/ Claim(w)
    PROVE  StopsAreCurrent'
  <1>0. /\ job \in [Jobs -> Row] /\ worker \in [Workers -> WorkerState] /\ api' = api
        /\ Scheduled(w)
    BY DEF Inv, TypeInv, TypeOK, Poll, RecoverAbandonedStop, SelectCandidate, Claim, OnlyWorker
  <1>1. CASE Poll(w)
    <2> DEFINE found == {[job |-> j, cancel |-> job[j].cancel] :
                            j \in {i \in Jobs : Abandoned(i)}}
    <2>1. \A f \in found : f.cancel = job[f.job].cancel
      OBVIOUS
    <2> HIDE DEF found
    <2>2. worker'[w].phase = "recovering" /\ worker'[w].found = found /\ UNCHANGED job
      BY <1>0, <1>1 DEF Poll, Become, Idle, found
    <2>3. QED
      BY <1>0, <2>1, <2>2, StopsAfterWork DEF StopsAreCurrent
  <1>2. CASE RecoverAbandonedStop(w)
    <2>1. PICK f \in worker[w].found :
             /\ IF job[f.job].state = "processing" /\ job[f.job].lease = 0
                THEN SetRow(f.job, IF f.cancel THEN Cancelled(job[f.job])
                                   ELSE [Paused(job[f.job]) EXCEPT !.pause = job[f.job].pause])
                ELSE UNCHANGED job
             /\ Become(w, [worker[w] EXCEPT !.found = @ \ {f}])
      BY <1>2 DEF RecoverAbandonedStop
    <2>2. worker[w].phase = "recovering"
      BY <1>2 DEF RecoverAbandonedStop
    <2>3. /\ f.job \in Jobs /\ f = [job |-> f.job, cancel |-> f.cancel]
          /\ \A g \in worker[w].found : g.cancel = job[g.job].cancel
                                        /\ g = [job |-> g.job, cancel |-> g.cancel]
      BY <1>0, <2>2 DEF WorkerState, StopsAreCurrent
    <2>4. /\ worker'[w].phase = "recovering" /\ worker'[w].found = worker[w].found \ {f}
      BY <1>0, <2>1, <2>2 DEF Become, WorkerState
    <2>5. \A g \in worker'[w].found : g.job # f.job
      BY <2>3, <2>4
    <2>6. \A j \in Jobs \ {f.job} : job'[j] = job[j]
      BY <1>0, <2>1, <2>3 DEF SetRow
    <2>7. \A g \in worker'[w].found : g.job \in Jobs /\ g.cancel = job'[g.job].cancel
      BY <1>0, <2>2, <2>3, <2>4, <2>5, <2>6 DEF WorkerState
    <2>8. \A j \in Jobs : StopKept(job'[j])
      <3>1. CASE f.cancel
        BY <1>0, <2>1, <2>3, <3>1, StopKeptRows, WrittenStopsAreKept
      <3>2. CASE ~f.cancel
        <4> DEFINE r == job[f.job]
                   q == [Paused(r) EXCEPT !.pause = r.pause]
        <4>1. r \in Row /\ ~r.cancel
          BY <1>0, <2>3, <3>2
        <4>2. q.cancel = r.cancel
          BY <4>1 DEF Row, Paused
        <4>3. StopKept(q)
          BY <4>1, <4>2 DEF StopKept
        <4>4. SetRow(f.job, q) \/ UNCHANGED job
          BY <2>1, <3>2
        <4>5. QED
          BY <2>3, <4>3, <4>4, WrittenStopsAreKept
      <3>3. QED
        BY <3>1, <3>2
    <2>9. QED
      BY <1>0, <2>4, <2>7, <2>8, StopsAfterWork
  <1>3. CASE SelectCandidate(w)
    <2>1. UNCHANGED job
      BY <1>3 DEF SelectCandidate
    <2>2. worker'[w].phase \in {"idle", "selected"}
      <3>1. Idle.phase = "idle"
            /\ \A j \in Jobs : [Idle EXCEPT !.phase = "selected", !.job = j].phase = "selected"
        BY DEF Idle
      <3>2. \E t : Become(w, t) /\ t.phase \in {"idle", "selected"}
        BY <1>3, <3>1 DEF SelectCandidate
      <3>3. QED
        BY <1>0, <3>2 DEF Become
    <2>3. QED
      BY <1>0, <2>1, <2>2, StopsAfterWork DEF StopsAreCurrent
  <1>4. CASE Claim(w)
    <2>1. worker[w].job \in Jobs /\ worker'[w].phase \in {"idle", "claimed"}
      <3>1. worker[w].job \in Jobs
        BY <1>4 DEF Claim, Inv, TypeInv, JobsAreKnown
      <3>2. /\ Idle.phase = "idle"
            /\ \A j, e : [Idle EXCEPT !.phase = "claimed", !.job = j, !.epoch = e].phase = "claimed"
        BY DEF Idle
      <3>3. \E t : Become(w, t) /\ t.phase \in {"idle", "claimed"}
        <4> DEFINE e == job[worker[w].job].epoch + 1
                   t == [Idle EXCEPT !.phase = "claimed", !.job = worker[w].job, !.epoch = e]
        <4>1. Become(w, t) \/ Become(w, Idle)
          BY <1>4 DEF Claim
        <4>2. t.phase = "claimed"
          BY <3>2
        <4>3. QED
          BY <3>2, <4>1, <4>2
      <3>4. QED
        BY <1>0, <3>1, <3>3 DEF Become
    <2>2. UNCHANGED job \/ SetRow(worker[w].job, Claimed(job[worker[w].job], w))
      BY <1>4 DEF Claim
    <2>3. \A j \in Jobs : StopKept(job'[j])
      BY <1>0, <2>1, <2>2, StopKeptRows, WrittenStopsAreKept
    <2>4. QED
      BY <1>0, <2>1, <2>3, StopsAfterWork
  <1>5. QED
    BY <1>1, <1>2, <1>3, <1>4

\* What failJob decides is never to give back a run with a cancellation.
LEMMA PlansHeedCancels == \A r, b : PlanFor(r, b) # "cancel" => ~r.cancel
  BY DEF PlanFor

LEMMA StopsAfterRunning ==
    ASSUME Inv, StopsAreCurrent, InApi = Workers, NEW w \in Workers,
           \/ LoadCheckpoint(w) \/ RecordProvider(w) \/ StopAtBoundary(w) \/ DispatchCall(w)
           \/ SaveCheckpoint(w) \/ Fail(w) \/ Heartbeat(w)
    PROVE  StopsAreCurrent'
  <1> DEFINE k == worker[w].job
             r == job[k]
  <1>0. /\ job \in [Jobs -> Row] /\ worker \in [Workers -> WorkerState] /\ api' = api
        /\ Scheduled(w) /\ worker[w].phase \in Working
    BY DEF Inv, TypeInv, TypeOK, LoadCheckpoint, RecordProvider, StopAtBoundary, DispatchCall,
           SaveCheckpoint, Fail, Heartbeat, OnlyWorker, Working
  <1>01. k \in Jobs /\ r \in Row /\ worker[w] \in WorkerState /\ StopKept(r)
    BY <1>0 DEF Inv, TypeInv, JobsAreKnown, StopsAreCurrent
  <1>1. CASE LoadCheckpoint(w)
    <2>1. \/ worker'[w].phase = "reading"
          \/ worker'[w] = Settling(w, PlanFor(r, FALSE))
      BY <1>0, <1>01, <1>1 DEF LoadCheckpoint, Become, WorkerState
    <2>2. QED
      BY <1>0, <1>1, <2>1, PlansHeedCancels, PlanType, StopsAfterDeciding DEF LoadCheckpoint
  <1>2. CASE RecordProvider(w)
    <2> DEFINE q == [r EXCEPT !.rules = RulesOf[w]]
    <2>1. q \in Row /\ q.cancel = r.cancel /\ q.state = r.state /\ q.code = r.code
      BY <1>01, RulesAssumption DEF Row
    <2>2. SetRow(k, q) /\ StopKept(q)
      BY <1>2, <1>01, <2>1 DEF RecordProvider, StopKept, IsCancelled
    <2>3. job'[k] = q
      BY <1>0, <1>01, <2>2 DEF SetRow
    <2>4. CASE worker'[w].phase \notin {"settling", "recovering"}
      BY <1>0, <1>01, <2>2, <2>4, StopsAfterWork, WrittenStopsAreKept
    <2>5. CASE worker'[w] = Settling(w, PlanFor(r, FALSE))
      <3>1. /\ worker'[w].phase = "settling" /\ worker'[w].plan = PlanFor(r, FALSE)
            /\ worker'[w].job = k
        BY <1>01, <2>5 DEF Settling, WorkerState
      <3>2. worker'[w].plan # "cancel" => ~job'[worker'[w].job].cancel
        BY <2>1, <2>3, <3>1, PlansHeedCancels
      <3>3. QED
        BY <1>0, <1>01, <2>2, <3>1, <3>2, StopsAfterWork, WrittenStopsAreKept
    <2>6. QED
      BY <1>0, <1>01, <1>2, <2>4, <2>5 DEF RecordProvider, Become, WorkerState
  <1>3. CASE StopAtBoundary(w)
    <2>1. \/ worker'[w].phase = "idle"
          \/ worker'[w] = Settling(w, "cancel")
          \/ ~r.cancel /\ worker'[w] = Settling(w, "pause")
      BY <1>0, <1>3 DEF StopAtBoundary, Become, Idle
    <2>2. {"cancel", "pause"} \subseteq Plans
      BY DEF Plans
    <2>3. QED
      BY <1>0, <1>3, <2>1, <2>2, StopsAfterDeciding DEF StopAtBoundary
  <1>4. CASE DispatchCall(w)
    <2>1. SetRow(k, Renewed(r)) /\ worker'[w].phase = "calling"
      BY <1>0, <1>01, <1>4 DEF DispatchCall, Become, WorkerState
    <2>2. QED
      BY <1>0, <1>01, <2>1, StopKeptRows, StopsAfterWork, WrittenStopsAreKept
  <1>5. CASE SaveCheckpoint(w)
    <2> DEFINE q == [r EXCEPT !.ckpt = worker[w].done + 1, !.ckptRules = RulesOf[w]]
    <2>0. worker[w].done + 1 \in Nat /\ RulesOf[w] \in Rules
      BY <1>01, RulesAssumption DEF WorkerState
    <2>1. q \in Row /\ q.cancel = r.cancel /\ q.state = r.state /\ q.code = r.code
      BY <1>01, <2>0 DEF Row
    <2>2. StopKept(q)
      BY <1>01, <2>1 DEF StopKept, IsCancelled
    <2>3. SetRow(k, q) \/ UNCHANGED job
      BY <1>5 DEF SaveCheckpoint
    <2>4. worker'[w].phase \in {"running", "idle"}
      <3>1. /\ Idle.phase = "idle"
            /\ \A d : [worker[w] EXCEPT !.phase = "running", !.done = d].phase = "running"
        BY <1>01 DEF Idle, WorkerState
      <3>2. \E t : Become(w, t) /\ t.phase \in {"running", "idle"}
        BY <1>5, <3>1 DEF SaveCheckpoint
      <3>3. QED
        BY <1>0, <3>2 DEF Become
    <2>5. QED
      BY <1>0, <1>01, <2>2, <2>3, <2>4, StopsAfterWork, WrittenStopsAreKept
  <1>6. CASE Fail(w)
    <2>1. \E b \in BOOLEAN : worker'[w] = Settling(w, PlanFor(r, b))
      BY <1>0, <1>6 DEF Fail, Become
    <2>2. QED
      BY <1>0, <1>6, <2>1, PlansHeedCancels, PlanType, StopsAfterDeciding DEF Fail
  <1>7. CASE Heartbeat(w)
    <2>1. SetRow(k, Renewed(r)) /\ worker'[w].phase \notin {"settling", "recovering"}
      BY <1>7 DEF Heartbeat
    <2>2. QED
      BY <1>0, <1>01, <2>1, StopKeptRows, StopsAfterWork, WrittenStopsAreKept
  <1>8. QED
    BY <1>1, <1>2, <1>3, <1>4, <1>5, <1>6, <1>7

LEMMA StopsAfterSettling ==
    ASSUME Inv, StopsAreCurrent, InApi = Workers, NEW w \in Workers, Settle(w) \/ Finalise(w)
    PROVE  StopsAreCurrent'
  <1> DEFINE k == worker[w].job
             r == job[k]
  <1>0. /\ job \in [Jobs -> Row] /\ worker \in [Workers -> WorkerState] /\ api' = api
        /\ Scheduled(w) /\ worker[w].phase \in Working
    BY DEF Inv, TypeInv, TypeOK, Settle, Finalise, OnlyWorker, Working
  <1>01. k \in Jobs /\ r \in Row /\ worker[w] \in WorkerState
    BY <1>0 DEF Inv, TypeInv, JobsAreKnown
  <1>1. CASE Settle(w)
    <2>1. worker'[w].phase = "idle"
      BY <1>0, <1>1 DEF Settle, Become, Idle
    <2>2. CASE Gate(w)
      <3>1. SetRow(k, Settled(r, worker[w].plan))
        BY <1>1, <2>2 DEF Settle
      <3>2. worker[w].plan # "cancel" => ~r.cancel
        BY <1>1, <2>2 DEF Settle, Gate, StopsAreCurrent
      <3>3. StopKept(Settled(r, worker[w].plan))
        BY <1>01, <3>2, StopKeptRows DEF Settled, StopKept
      <3>4. QED
        BY <1>0, <1>01, <2>1, <3>1, <3>3, StopsAfterWork, WrittenStopsAreKept
    <2>3. CASE ~Gate(w)
      BY <1>0, <1>01, <1>1, <2>1, <2>3, StopsAfterWork, WrittenStopsAreKept DEF Settle
    <2>4. QED
      BY <2>2, <2>3
  <1>2. CASE Finalise(w)
    <2>1. CASE Gate(w) /\ ~r.cancel /\ ~r.pause /\ SetRow(k, Completed(r)) /\ Become(w, Idle)
      <3>1. StopKept(Completed(r)) /\ worker'[w].phase = "idle"
        BY <1>0, <1>01, <2>1, StopKeptRows DEF StopKept, Become, Idle
      <3>2. QED
        BY <1>0, <1>01, <2>1, <3>1, StopsAfterWork, WrittenStopsAreKept
    <2>2. CASE /\ UNCHANGED job
               /\ Become(w, Settling(w, IF r.cancel THEN "cancel" ELSE "pause"))
      <3>1. \/ worker'[w] = Settling(w, "cancel")
            \/ ~r.cancel /\ worker'[w] = Settling(w, "pause")
        BY <1>0, <2>2 DEF Become
      <3>2. {"cancel", "pause"} \subseteq Plans
        BY DEF Plans
      <3>3. QED
        BY <1>0, <2>2, <3>1, <3>2, StopsAfterDeciding
    <2>3. CASE UNCHANGED job /\ Become(w, Idle)
      <3>1. worker'[w].phase = "idle"
        BY <1>0, <2>3 DEF Become, Idle
      <3>2. QED
        BY <1>0, <2>3, <3>1, StopsAfterDeciding
    <2>4. QED
      BY <1>2, <2>1, <2>2, <2>3 DEF Finalise
  <1>3. QED
    BY <1>1, <1>2

\* What is left to show of a step of the API: no worker is half-way through.
LEMMA StopsAfterRequest ==
    ASSUME StopsAreCurrent, InApi = Workers, ApiScheduled, worker' = worker,
           \A j \in Jobs : StopKept(job'[j]),
           api'.op = "refuse" => ~job'[api'.job].cancel
    PROVE  StopsAreCurrent'
  <1>1. \A w \in Workers : ~MidHandler(w)
    BY DEF ApiScheduled
  <1>2. \A w \in Workers : worker'[w].phase \notin {"recovering", "selected", "settling"}
    BY <1>1 DEF MidHandler
  <1>3. QED
    BY <1>2 DEF StopsAreCurrent, MidHandler

LEMMA StopsAfterApi ==
    ASSUME Inv, StopsAreCurrent, InApi = Workers, ApiStep \/ \E j \in Jobs : Request(j)
    PROVE  StopsAreCurrent'
  <1>0. /\ job \in [Jobs -> Row] /\ worker' = worker /\ ApiScheduled /\ api \in ApiState
        /\ \A j \in Jobs : StopKept(job[j])
    BY DEF Inv, TypeInv, TypeOK, StopsAreCurrent, ApiStep, Request, OnlyApi, Enqueue,
           RequestCancellation, RequestPause, RequestResume, RecordRefusal, CancelOutright,
           FlagCancellation, PauseOutright, FlagPause, ResumeWrite, CanServe
  <1>1. ASSUME NEW j \in Jobs, Request(j)
        PROVE  StopsAreCurrent'
    <2>1. CASE Enqueue(j)
      <3>1. PICK q \in Row : /\ SetRow(j, q) /\ ~q.cancel
                             /\ api'.op = "refuse" => api'.job = j
        <4>1. NewRow \in Row /\ NoRequest.op = "none"
          BY NewRowType DEF NoRequest
        <4>2. /\ [NewRow EXCEPT !.state = "pending"] \in Row
              /\ ~[NewRow EXCEPT !.state = "pending"].cancel
              /\ [NewRow EXCEPT !.state = "pending", !.maxAttempts = 1] \in Row
              /\ ~[NewRow EXCEPT !.state = "pending", !.maxAttempts = 1].cancel
          BY <4>1 DEF Row, NewRow, States
        <4>3. CASE SetRow(j, [NewRow EXCEPT !.state = "pending"]) /\ Serve(NoRequest)
          BY <4>1, <4>2, <4>3 DEF Serve
        <4>4. CASE /\ SetRow(j, [NewRow EXCEPT !.state = "pending", !.maxAttempts = 1])
                   /\ Serve([op |-> "refuse", job |-> j, seen |-> "pending"])
          BY <4>2, <4>4 DEF Serve
        <4>5. QED
          BY <2>1, <4>3, <4>4 DEF Enqueue
      <3>2. job'[j] = q
        BY <1>0, <3>1 DEF SetRow
      <3>3. QED
        BY <1>0, <3>1, <3>2, StopsAfterRequest, WrittenStopsAreKept DEF StopKept
    <2>2. CASE ~Enqueue(j)
      <3>1. UNCHANGED job /\ api'.op # "refuse"
        BY <1>1, <2>2 DEF Request, RequestCancellation, RequestPause, RequestResume, Serve
      <3>2. QED
        BY <1>0, <3>1, StopsAfterRequest
    <2>3. QED
      BY <2>1, <2>2
  <1>2. CASE ApiStep
    <2> DEFINE k == api.job
               r == job[k]
    <2>1. k \in Jobs /\ r \in Row /\ StopKept(r)
      BY <1>0, <1>2 DEF Inv, TypeInv, JobsAreKnown, ApiStep, RecordRefusal, CancelOutright,
            FlagCancellation, PauseOutright, FlagPause, ResumeWrite
    <2>2. api'.op # "refuse"
      BY <1>0, <1>2 DEF ApiStep, RecordRefusal, CancelOutright, FlagCancellation,
            PauseOutright, FlagPause, ResumeWrite, Answered, NoRequest, ApiState
    <2>3. UNCHANGED job \/ \E q : SetRow(k, q) /\ StopKept(q)
      <3>1. CASE RecordRefusal
        <4>1. ~r.cancel
          BY <3>1 DEF RecordRefusal, StopsAreCurrent
        <4>2. QED
          BY <2>1, <3>1, <4>1, StopKeptRows DEF RecordRefusal, StopKept
      <3>2. CASE CancelOutright
        BY <2>1, <3>2, StopKeptRows DEF CancelOutright
      <3>3. CASE FlagCancellation
        <4>1. r.state = "processing" => StopKept([r EXCEPT !.cancel = TRUE])
          BY <2>1 DEF StopKept, Row
        <4>2. QED
          BY <3>3, <4>1 DEF FlagCancellation
      <3>4. CASE PauseOutright
        <4>1. r.state = api.seen /\ api.seen = "pending" => ~r.cancel
          BY <2>1 DEF StopKept, IsCancelled
        <4>2. api.seen = "pending"
          BY <3>4 DEF PauseOutright, Inv, RequestsAreApt
        <4>3. QED
          BY <2>1, <3>4, <4>1, <4>2, StopKeptRows DEF PauseOutright, StopKept
      <3>5. CASE FlagPause
        <4>1. StopKept([r EXCEPT !.pause = TRUE])
          BY <2>1 DEF StopKept, IsCancelled, Row
        <4>2. QED
          BY <3>5, <4>1 DEF FlagPause
      <3>6. CASE ResumeWrite
        <4>1. api.seen \in {"failed", "paused"}
          BY <3>6 DEF ResumeWrite, Inv, RequestsAreApt
        <4>2. r.state = api.seen /\ r.code # "cancelled_by_user" => ~r.cancel
          BY <2>1, <4>1 DEF StopKept, IsCancelled
        <4>3. QED
          BY <2>1, <3>6, <4>2, StopKeptRows DEF ResumeWrite, StopKept
      <3>7. QED
        BY <1>2, <3>1, <3>2, <3>3, <3>4, <3>5, <3>6 DEF ApiStep
    <2>4. QED
      BY <1>0, <2>1, <2>2, <2>3, StopsAfterRequest, WrittenStopsAreKept
  <1>3. QED
    BY <1>1, <1>2

\* Time only ages leases, and a process that dies takes everything it had
\* decided on with it: the API and the worker are one process.
LEMMA StopsAfterFaults ==
    ASSUME Inv, StopsAreCurrent, InApi = Workers,
           \/ Tick \/ CrashApi \/ UNCHANGED vars
           \/ \E w \in Workers : CrashWorker(w) \/ Restart(w) \/ Stall(w) \/ Wake(w)
    PROVE  StopsAreCurrent'
  <1>0. job \in [Jobs -> Row] /\ worker \in [Workers -> WorkerState]
    BY DEF Inv, TypeInv, TypeOK
  <1>1. CASE Tick
    <2>1. \A j \in Jobs : /\ job'[j].cancel = job[j].cancel /\ job'[j].state = job[j].state
                          /\ job'[j].code = job[j].code /\ job'[j].worker = job[j].worker
                          /\ job'[j].epoch = job[j].epoch
      BY <1>0, <1>1 DEF Tick, Row
    <2>2. \A j \in Jobs : StopKept(job'[j])
      BY <2>1 DEF StopsAreCurrent, StopKept, IsCancelled
    <2>3. worker' = worker /\ api' = api
      BY <1>1 DEF Tick
    <2>4. \A w \in Workers : /\ worker[w].phase = "recovering" =>
                                   \A f \in worker[w].found : f.job \in Jobs
                             /\ worker[w].phase = "settling" => worker[w].job \in Jobs
      BY <1>0 DEF WorkerState, Inv, TypeInv, JobsAreKnown, Working
    <2>5. \A w \in Workers :
             worker[w].phase = "settling" /\ worker[w].plan # "cancel" /\ Holds(w)'
                => ~job'[worker[w].job].cancel
      BY <2>1, <2>3, <2>4 DEF StopsAreCurrent, Holds
    <2>6. \A w \in Workers : worker[w].phase = "recovering" =>
             \A f \in worker[w].found : f.cancel = job'[f.job].cancel
      BY <2>1, <2>4 DEF StopsAreCurrent
    <2>7. api.op # "none" => api.job \in Jobs
      BY DEF Inv, TypeInv, JobsAreKnown
    <2>8. QED
      BY <2>1, <2>2, <2>3, <2>5, <2>6, <2>7 DEF StopsAreCurrent, MidHandler
  <1>2. CASE CrashApi
    <2>1. UNCHANGED job /\ api'.op = "none" /\ \A w \in Workers : worker'[w] = Down
      BY <1>2 DEF CrashApi, NoRequest
    <2>2. Down.phase = "down"
      BY DEF Down, Idle
    <2>3. QED
      BY <2>1, <2>2 DEF StopsAreCurrent
  <1>3. CASE UNCHANGED vars
    BY <1>3 DEF vars, StopsAreCurrent, Holds, MidHandler
  <1>4. ASSUME NEW w \in Workers, CrashWorker(w) \/ Restart(w) \/ Stall(w) \/ Wake(w)
        PROVE  StopsAreCurrent'
    <2>1. ~CrashWorker(w)
      BY DEF CrashWorker
    <2>2. CASE Restart(w)
      <3>1. \A v \in Workers : worker'[v] = worker[v] \/ worker'[v].phase = "idle"
        BY <1>0, <2>2 DEF Restart, Become, Idle
      <3>2. UNCHANGED <<job, api>>
        BY <2>2 DEF Restart, OnlyWorker
      <3>3. QED
        BY <3>1, <3>2 DEF StopsAreCurrent, Holds, MidHandler
    <2>3. CASE Stall(w) \/ Wake(w)
      BY <2>3 DEF Stall, Wake, StopsAreCurrent, Holds, MidHandler
    <2>4. QED
      BY <1>4, <2>1, <2>2, <2>3
  <1>5. QED
    BY <1>1, <1>2, <1>3, <1>4

LEMMA StopsNext ==
    ASSUME Inv, StopsAreCurrent, InApi = Workers, [Next]_vars
    PROVE  StopsAreCurrent'
  <1>1. ASSUME NEW w \in Workers, WorkerStep(w) \/ Heartbeat(w)
        PROVE  StopsAreCurrent'
    BY <1>1, StopsAfterClaiming, StopsAfterRunning, StopsAfterSettling DEF WorkerStep
  <1>2. QED
    BY <1>1, StopsAfterApi, StopsAfterFaults DEF Next

LEMMA StopsInit == Init => StopsAreCurrent
  <1> SUFFICES ASSUME Init PROVE StopsAreCurrent
    OBVIOUS
  <1>1. \A j \in Jobs : ~job[j].cancel
    BY DEF Init, NewRow
  <1>2. \A w \in Workers : worker[w].phase = "idle"
    BY DEF Init, Idle
  <1>3. api.op = "none"
    BY DEF Init, NoRequest
  <1>4. QED
    BY <1>1, <1>2, <1>3 DEF StopsAreCurrent, StopKept

\* Where the server runs the only worker, no run is left that nobody can retry
\* and nobody will collect: a cancellation is never found on a pending row, for
\* any number of jobs, stops, failures, retries, resumes and crashes.
THEOREM SpecNoUncollectableRun ==
    ASSUME InApi = Workers
    PROVE  Spec => []NoUncollectableRun
  <1>1. Init => StopsAreCurrent
    BY StopsInit
  <1>2. StopsAreCurrent => NoUncollectableRun
    BY DEF StopsAreCurrent, StopKept, IsCancelled, NoUncollectableRun
  <1>3. Inv /\ StopsAreCurrent /\ [Next]_vars => StopsAreCurrent'
    BY StopsNext
  <1>4. QED
    BY <1>1, <1>2, <1>3, SpecInv, PTL DEF Spec

\* What a cancellation has read of a stopped run is still so when it writes.
CancelIsFresh ==
    api.op \in {"cancel", "cancelFlag"} /\ api.seen \in {"paused", "failed"} =>
        /\ api.op = "cancel"
        /\ job[api.job].state = api.seen /\ ~job[api.job].cancel

LEMMA CancelsStayFresh ==
    ASSUME Inv, StopsAreCurrent, CancelIsFresh, InApi = Workers, [Next]_vars
    PROVE  CancelIsFresh'
  <1>0. job \in [Jobs -> Row] /\ api \in ApiState
    BY DEF Inv, TypeInv, TypeOK
  <1>1. ASSUME NEW w \in Workers, WorkerStep(w) \/ Heartbeat(w)
        PROVE  CancelIsFresh'
    <2>1. Scheduled(w) /\ api' = api
      BY <1>1 DEF WorkerStep, Poll, RecoverAbandonedStop, SelectCandidate, Claim,
            LoadCheckpoint, RecordProvider, StopAtBoundary, DispatchCall, SaveCheckpoint,
            Fail, Settle, Finalise, Heartbeat, OnlyWorker
    <2>2. QED
      BY <2>1 DEF Scheduled, CancelIsFresh
  <1>2. ASSUME NEW j \in Jobs, Request(j)
        PROVE  CancelIsFresh'
    <2>1. CASE RequestCancellation(j)
      <3>1. StopKept(job[j]) /\ ~IsCancelled(job[j])
        BY <2>1 DEF RequestCancellation, StopsAreCurrent
      <3>2. /\ UNCHANGED job /\ api'.job = j /\ api'.seen = job[j].state
            /\ api'.op = IF job[j].state = "processing" THEN "cancelFlag" ELSE "cancel"
        BY <2>1 DEF RequestCancellation, Serve
      <3>3. QED
        BY <3>1, <3>2 DEF CancelIsFresh, StopKept
    <2>2. CASE ~RequestCancellation(j)
      <3>1. api'.op \notin {"cancel", "cancelFlag"}
        BY <1>2, <2>2 DEF Request, Enqueue, RequestPause, RequestResume, Serve, NoRequest
      <3>2. QED
        BY <3>1 DEF CancelIsFresh
    <2>3. QED
      BY <2>1, <2>2
  <1>3. CASE ApiStep
    <2>1. CASE CancelOutright
      <3>1. CASE api.seen \in {"paused", "failed"}
        <4>1. api'.op = "none"
          BY <2>1, <3>1 DEF CancelOutright, CancelIsFresh, Answered, NoRequest
        <4>2. QED
          BY <4>1 DEF CancelIsFresh
      <3>2. CASE api.seen \notin {"paused", "failed"}
        <4>1. api'.op = "none" \/ api'.seen = api.seen
          BY <1>0, <2>1 DEF CancelOutright, Answered, NoRequest, ApiState
        <4>2. QED
          BY <3>2, <4>1 DEF CancelIsFresh
      <3>3. QED
        BY <3>1, <3>2
    <2>2. CASE ~CancelOutright
      <3>1. api'.op \notin {"cancel", "cancelFlag"}
        BY <1>0, <1>3, <2>2 DEF ApiStep, RecordRefusal, FlagCancellation, PauseOutright,
              FlagPause, ResumeWrite, Answered, NoRequest, ApiState
      <3>2. QED
        BY <3>1 DEF CancelIsFresh
    <2>3. QED
      BY <2>1, <2>2
  <1>4. CASE Tick
    <2>1. \A j \in Jobs : job'[j].state = job[j].state /\ job'[j].cancel = job[j].cancel
      BY <1>0, <1>4 DEF Tick, Row
    <2>2. api' = api /\ (api.op # "none" => api.job \in Jobs)
      BY <1>4 DEF Tick, Inv, TypeInv, JobsAreKnown
    <2>3. QED
      BY <2>1, <2>2 DEF CancelIsFresh
  <1>5. CASE CrashApi
    BY <1>5 DEF CrashApi, NoRequest, CancelIsFresh
  <1>6. ASSUME NEW w \in Workers, CrashWorker(w) \/ Restart(w) \/ Stall(w) \/ Wake(w)
        PROVE  CancelIsFresh'
    <2>1. UNCHANGED <<job, api>>
      BY <1>6 DEF CrashWorker, Restart, Stall, Wake, OnlyWorker
    <2>2. QED
      BY <2>1 DEF CancelIsFresh
  <1>7. CASE UNCHANGED vars
    BY <1>7 DEF vars, CancelIsFresh
  <1>8. QED
    BY <1>1, <1>2, <1>3, <1>4, <1>5, <1>6, <1>7 DEF Next

\* Where the server runs the only worker, a cancellation of a paused or failed
\* run that is not cut short by a crash has made it terminal when it is answered.
THEOREM SpecStoppedRunIsMadeTerminal ==
    ASSUME InApi = Workers
    PROVE  Spec => StoppedRunIsMadeTerminal
  <1> DEFINE MadeTerminal ==
               /\ api.op \in {"cancel", "cancelFlag"} /\ api.seen \in {"paused", "failed"}
               /\ api.op' = "none" /\ faults' = faults
               => LET r == job'[api.job] IN r.state \in {"paused", "failed"} => IsCancelled(r)
  <1>1. Init => StopsAreCurrent /\ CancelIsFresh
    <2>1. Init => CancelIsFresh
      BY DEF Init, CancelIsFresh, NoRequest
    <2>2. QED
      BY <2>1, StopsInit
  <1>2. ASSUME Inv, StopsAreCurrent, CancelIsFresh, [Next]_vars
        PROVE  StopsAreCurrent' /\ CancelIsFresh' /\ MadeTerminal
    <2>1. SUFFICES ASSUME api.op \in {"cancel", "cancelFlag"}, api.seen \in {"paused", "failed"},
                          api.op' = "none", faults' = faults
                   PROVE  IsCancelled(job'[api.job])
      BY <1>2, StopsNext, CancelsStayFresh
    <2>2. /\ job \in [Jobs -> Row] /\ api.job \in Jobs /\ faults \in Nat
          /\ api.op = "cancel" /\ job[api.job].state = api.seen /\ ~job[api.job].cancel
      BY <1>2, <2>1 DEF CancelIsFresh, Inv, TypeInv, TypeOK, JobsAreKnown
    <2>3. CancelOutright
      <3>1. ~ \E w \in Workers : WorkerStep(w) \/ Heartbeat(w)
        BY <2>1, <2>2 DEF WorkerStep, Poll, RecoverAbandonedStop, SelectCandidate, Claim,
              LoadCheckpoint, RecordProvider, StopAtBoundary, DispatchCall, SaveCheckpoint,
              Fail, Settle, Finalise, Heartbeat, OnlyWorker
      <3>2. ~ \E j \in Jobs : Request(j)
        BY <2>2 DEF Request, Enqueue, RequestCancellation, RequestPause, RequestResume, CanServe
      <3>3. ~CrashApi
        BY <2>1, <2>2 DEF CrashApi
      <3>4. ~ \E w \in Workers : CrashWorker(w) \/ Restart(w) \/ Stall(w) \/ Wake(w)
        BY <2>1, <2>2 DEF CrashWorker, Restart, Stall, Wake, OnlyWorker
      <3>5. ~Tick /\ ~UNCHANGED vars
        BY <2>1, <2>2 DEF Tick, vars
      <3>6. QED
        BY <1>2, <2>2, <3>1, <3>2, <3>3, <3>4, <3>5 DEF Next, ApiStep, RecordRefusal,
              FlagCancellation, PauseOutright, FlagPause, ResumeWrite
    <2>4. job'[api.job] = Cancelled(job[api.job])
      BY <2>2, <2>3 DEF CancelOutright, SetRow
    <2>5. QED
      BY <2>2, <2>4 DEF Cancelled, IsCancelled, Row
  <1>3. Inv /\ StopsAreCurrent /\ CancelIsFresh /\ [Next]_vars =>
            StopsAreCurrent' /\ CancelIsFresh' /\ [MadeTerminal]_vars
    BY <1>2
  <1>4. QED
    BY <1>1, <1>3, SpecInv, PTL DEF Spec, StoppedRunIsMadeTerminal

-----------------------------------------------------------------------------
(***************************************************************************)
(* JobQueue implements JobLife: a step of the queue, its workers and the   *)
(* API is one step of one run's life, or none, for any number of jobs and  *)
(* processes, where requests are not refused after their INSERT.           *)
(*                                                                         *)
(* RowMoves says what a step may do to a row; LifeMoves reads it as a step *)
(* of the run's life; OneRowChanges says it happens to one run at a time.  *)
(***************************************************************************)

\* Life b is in state s, has begun e attempts, kept p batches and published n times.
Is(b, s, e, p, n) == b.state = s /\ b.epoch = e /\ b.progress = p /\ b.published = n

\* The steps of JobLife, as what they do to one run.
LifeMove(a, b) ==
    \/ /\ a.state \in {"absent", "processing", "stopped"}
       /\ Is(b, "pending", a.epoch, a.progress, a.published)
    \/ /\ a.state \in {"pending", "processing"}
       /\ \/ Is(b, "processing", a.epoch + 1, a.progress, a.published)
          \/ Is(b, "stopped", a.epoch, a.progress, a.published)
    \/ /\ a.state = "processing"
       /\ \/ Is(b, "processing", a.epoch, a.progress + 1, a.published)
          \/ Is(b, "completed", a.epoch, 0, 1)
    \/ /\ a.state \in {"pending", "processing", "stopped"}
       /\ Is(b, "cancelled", a.epoch, a.progress, a.published)

\* A row's step that its life does not show, and one that it does.
Same(r, q) == LifeState(q) = LifeState(r) /\ q.epoch = r.epoch /\ q.ckpt = r.ckpt

RowLives(r, q) ==
    LET s == LifeState(r)
        t == LifeState(q)
    IN  \/ s \in {"pending", "processing"} /\ t = "processing"
              /\ q.epoch = r.epoch + 1 /\ q.ckpt = r.ckpt
        \/ s = "processing" /\ t = "processing" /\ q.epoch = r.epoch /\ q.ckpt = r.ckpt + 1
        \/ /\ q.epoch = r.epoch /\ q.ckpt = r.ckpt
           /\ \/ s \in {"absent", "processing", "stopped"} /\ t = "pending"
              \/ s \in {"pending", "processing"} /\ t = "stopped"
              \/ s \in {"pending", "processing", "stopped"} /\ t = "cancelled"

\* Lives are told apart by their four parts.
LEMMA LivesAreTheirParts ==
    ASSUME NEW a \in Lives!Life, NEW b \in Lives!Life,
           Is(b, a.state, a.epoch, a.progress, a.published)
    PROVE  a = b
  BY DEF Lives!Life, Is

\* What an update of a life leaves.
LEMMA LifeUpdates ==
    ASSUME NEW a \in Lives!Life, NEW b \in Lives!Life,
           NEW t \in Lives!States, NEW f \in Nat
    PROVE  /\ Is(b, t, a.epoch, a.progress, a.published) => b = [a EXCEPT !.state = t]
           /\ Is(b, t, f, a.progress, a.published) => b = [a EXCEPT !.state = t, !.epoch = f]
           /\ Is(b, a.state, a.epoch, f, a.published) => b = [a EXCEPT !.progress = f]
           /\ Is(b, t, a.epoch, 0, 1)
                 => b = [a EXCEPT !.state = t, !.progress = 0, !.published = 1]
  <1> DEFINE c == [a EXCEPT !.state = t]
             d == [a EXCEPT !.state = t, !.epoch = f]
             g == [a EXCEPT !.progress = f]
             h == [a EXCEPT !.state = t, !.progress = 0, !.published = 1]
  <1>1. c \in Lives!Life /\ Is(c, t, a.epoch, a.progress, a.published)
    BY DEF Lives!Life, Is
  <1>2. d \in Lives!Life /\ Is(d, t, f, a.progress, a.published)
    BY DEF Lives!Life, Is
  <1>3. g \in Lives!Life /\ Is(g, a.state, a.epoch, f, a.published)
    BY DEF Lives!Life, Is
  <1>4. h \in Lives!Life /\ Is(h, t, a.epoch, 0, 1)
    BY DEF Lives!Life, Is
  <1> HIDE DEF c, d, g, h
  <1>5. /\ Is(b, t, a.epoch, a.progress, a.published) => b = c
        /\ Is(b, t, f, a.progress, a.published) => b = d
        /\ Is(b, a.state, a.epoch, f, a.published) => b = g
        /\ Is(b, t, a.epoch, 0, 1) => b = h
    BY <1>1, <1>2, <1>3, <1>4, LivesAreTheirParts DEF Is
  <1>6. QED
    BY <1>5 DEF c, d, g, h

\* A step that leaves the lives of all runs but one alone, and moves that one,
\* is a step of JobLife.
LEMMA MoveIsLivesStep ==
    ASSUME NEW k \in Jobs, LifeOf(k) \in Lives!Life, LifeOf(k)' \in Lives!Life,
           LifeMove(LifeOf(k), LifeOf(k)'),
           \A j \in Jobs \ {k} : LifeOf(j)' = LifeOf(j)
    PROVE  Lives!Next
  <1> DEFINE a == LifeOf(k)
             b == LifeOf(k)'
  <1>1. \A from : Lives!Move(k, from, b) <=> a.state \in from
    BY DEF Lives!Move
  <1>2. [j \in Jobs |-> LifeOf(j)][k] = a
    OBVIOUS
  <1>3. /\ \A t \in Lives!States :
              Is(b, t, a.epoch, a.progress, a.published) => b = [a EXCEPT !.state = t]
        /\ Is(b, "processing", a.epoch + 1, a.progress, a.published)
              => b = [a EXCEPT !.state = "processing", !.epoch = a.epoch + 1]
        /\ Is(b, a.state, a.epoch, a.progress + 1, a.published)
              => b = [a EXCEPT !.progress = a.progress + 1]
        /\ Is(b, "completed", a.epoch, 0, 1)
              => b = [a EXCEPT !.state = "completed", !.progress = 0, !.published = 1]
    <2>1. a.epoch + 1 \in Nat /\ a.progress + 1 \in Nat /\ 0 \in Nat
      BY DEF Lives!Life
    <2>2. "processing" \in Lives!States /\ "completed" \in Lives!States
      BY DEF Lives!States
    <2> HIDE DEF a, b
    <2>3. a \in Lives!Life /\ b \in Lives!Life
      BY DEF a, b
    <2>4. QED
      BY <2>1, <2>2, <2>3, LifeUpdates
  <1>4. LifeMove(a, b) /\ {"pending", "stopped", "cancelled"} \subseteq Lives!States
    BY DEF Lives!States
  <1> HIDE DEF a, b
  <1>5. CASE Is(b, "pending", a.epoch, a.progress, a.published)
             /\ a.state \in {"absent", "processing", "stopped"}
    <2>1. b = [a EXCEPT !.state = "pending"]
      BY <1>3, <1>4, <1>5
    <2>2. Lives!Submit(k) \/ Lives!Retry(k) \/ Lives!Resume(k)
      BY <1>1, <1>2, <1>5, <2>1 DEF Lives!Submit, Lives!Retry, Lives!Resume
    <2>3. QED
      BY <2>2 DEF Lives!Next
  <1>6. CASE Is(b, "processing", a.epoch + 1, a.progress, a.published)
             /\ a.state \in {"pending", "processing"}
    <2> DEFINE c == [a EXCEPT !.state = "processing", !.epoch = a.epoch + 1]
    <2>1. b = c
      BY <1>3, <1>6
    <2>2. Lives!Begin(k) <=> Lives!Move(k, {"pending", "processing"}, c)
      BY Zenon, <1>2 DEF Lives!Begin
    <2> HIDE DEF c
    <2>3. QED
      BY <1>1, <1>6, <2>1, <2>2 DEF Lives!Next
  <1>7. CASE Is(b, "stopped", a.epoch, a.progress, a.published)
             /\ a.state \in {"pending", "processing"}
    <2>1. b = [a EXCEPT !.state = "stopped"]
      BY <1>3, <1>4, <1>7
    <2>2. QED
      BY <1>1, <1>2, <1>7, <2>1 DEF Lives!Next, Lives!Stop
  <1>8. CASE Is(b, "processing", a.epoch, a.progress + 1, a.published)
             /\ a.state = "processing"
    BY <1>1, <1>2, <1>3, <1>8 DEF Lives!Next, Lives!Advance
  <1>9. CASE Is(b, "completed", a.epoch, 0, 1) /\ a.state = "processing"
    <2> DEFINE c == [a EXCEPT !.state = "completed", !.progress = 0, !.published = 1]
    <2>1. b = c
      BY <1>3, <1>9
    <2>2. Lives!Publish(k) <=> Lives!Move(k, {"processing"}, c)
      BY Zenon, <1>2 DEF Lives!Publish
    <2> HIDE DEF c
    <2>3. QED
      BY <1>1, <1>9, <2>1, <2>2 DEF Lives!Next
  <1>10. CASE Is(b, "cancelled", a.epoch, a.progress, a.published)
              /\ a.state \in {"pending", "processing", "stopped"}
    <2>1. b = [a EXCEPT !.state = "cancelled"]
      BY <1>3, <1>4, <1>10
    <2>2. QED
      BY <1>1, <1>2, <1>10, <2>1 DEF Lives!Next, Lives!Cancel
  <1>11. QED
    BY <1>4, <1>5, <1>6, <1>7, <1>8, <1>9, <1>10 DEF LifeMove

\* What RowMoves allows a row, read as a step of the run's life.
LEMMA LifeMoves ==
    ASSUME Inv, PublishedIffCompleted, ~Refusals, [Next]_vars, NEW j \in Jobs
    PROVE  LifeOf(j)' = LifeOf(j) \/ LifeMove(LifeOf(j), LifeOf(j)')
  <1> DEFINE r == job[j]
             q == job'[j]
             a == LifeOf(j)
             b == LifeOf(j)'
  <1>0. r \in Row /\ published[j] \in Nat
    BY DEF Inv, TypeInv, TypeOK
  <1>1. /\ a = [state |-> LifeState(r), epoch |-> r.epoch, progress |-> r.ckpt,
                published |-> published[j]]
        /\ b = [state |-> LifeState(q), epoch |-> q.epoch, progress |-> q.ckpt,
                published |-> published'[j]]
    BY DEF LifeOf
  <1>2. CASE published'[j] = published[j] /\ Same(r, q)
    BY <1>1, <1>2 DEF Same
  <1>r. Is(a, LifeState(r), r.epoch, r.ckpt, published[j])
        /\ Is(b, LifeState(q), q.epoch, q.ckpt, published'[j])
    BY <1>1 DEF Is
  <1>3. CASE Completes(j)
    <2>1. r.state = "processing" /\ q = Completed(r) /\ published'[j] = published[j] + 1
      BY <1>3 DEF Completes, Gate, Holds
    <2>2. published[j] = 0
      BY <2>1 DEF PublishedIffCompleted
    <2>3. LifeState(r) = "processing"
      BY <2>1 DEF LifeState, IsCancelled
    <2>4. /\ q.state = "completed" /\ LifeState(q) = "completed"
          /\ q.epoch = r.epoch /\ q.ckpt = 0
      BY <1>0, <2>1 DEF Completed, Row, LifeState, IsCancelled
    <2>5. QED
      BY <1>r, <2>1, <2>2, <2>3, <2>4 DEF LifeMove, Is
  <1>4. ASSUME published'[j] = published[j], RowLives(r, q)
        PROVE  LifeMove(a, b)
    BY <1>r, <1>4 DEF RowLives, LifeMove, Is
  <1>5. CASE published'[j] = published[j] /\ Inserted(j)
    <2>1. r = NewRow
      BY <1>5 DEF Inserted, Inv, RowsAreCoherent
    <2>2. /\ LifeState(r) = "absent" /\ LifeState(q) = "pending"
          /\ q.epoch = r.epoch /\ q.ckpt = r.ckpt
      BY <1>0, <1>5, <2>1 DEF Inserted, NewRows, Row, LifeState, IsCancelled
    <2>3. QED
      BY <1>4, <1>5, <2>2 DEF RowLives
  <1>6. CASE published'[j] = published[j] /\ Taken(j)
    <2>1. LifeState(r) \in {"pending", "processing"}
      BY <1>6 DEF Taken, Claimable, LifeState, IsCancelled
    <2>2. LifeState(q) = "processing" /\ q.epoch = r.epoch + 1 /\ q.ckpt = r.ckpt
      BY <1>0, <1>6 DEF Taken, Claimed, Row, LifeState, IsCancelled
    <2>3. QED
      BY <1>4, <1>6, <2>1, <2>2 DEF RowLives
  <1>7. CASE published'[j] = published[j] /\ WrittenByHolder(j)
    <2>1. PICK w \in Workers : Gate(w) /\ worker[w].job = j /\ HolderWrites(w, r, q)
      BY <1>7 DEF WrittenByHolder
    <2>2. r.state = "processing" /\ LifeState(r) = "processing"
      BY <2>1 DEF Gate, Holds, LifeState, IsCancelled
    <2>3. CASE q = Renewed(r)
      <3>1. Same(r, q)
        BY <1>0, <2>3 DEF Renewed, Same, Row, LifeState, IsCancelled
      <3>2. QED
        BY <1>2, <1>7, <3>1
    <2>4. CASE \E plan \in Plans : q = Settled(r, plan)
      <3>1. /\ LifeState(q) \in {"cancelled", "stopped", "pending"}
            /\ q.epoch = r.epoch /\ q.ckpt = r.ckpt
        BY <1>0, <2>4 DEF Settled, Cancelled, Paused, Retried, Failed, Row,
                          LifeState, IsCancelled
      <3>2. QED
        BY <1>4, <1>7, <2>2, <3>1 DEF RowLives
    <2>5. CASE /\ worker[w].phase = "calling"
               /\ q = [r EXCEPT !.ckpt = worker[w].done + 1, !.ckptRules = RulesOf[w]]
      <3>1. worker[w].done = r.ckpt
        BY <2>1, <2>5 DEF Inv, ProgressIsShared, Gate, Holds
      <3>2. LifeState(q) = "processing" /\ q.epoch = r.epoch /\ q.ckpt = r.ckpt + 1
        BY <1>0, <2>2, <2>5, <3>1 DEF Row, LifeState, IsCancelled
      <3>3. QED
        BY <1>4, <1>7, <2>2, <3>2 DEF RowLives
    <2>6. QED
      BY <2>1, <2>3, <2>4, <2>5 DEF HolderWrites
  <1>8. CASE published'[j] = published[j] /\ (Recovered(j) \/ StoppedOutright(j))
    <2>1. LifeState(r) \in {"pending", "processing", "stopped"}
      <3>1. CASE Recovered(j)
        BY <3>1 DEF Recovered, LifeState, IsCancelled
      <3>2. CASE StoppedOutright(j)
        BY <3>2 DEF StoppedOutright, LifeState, IsCancelled, Inv, RowsAreCoherent
      <3>3. QED
        BY <1>8, <3>1, <3>2
    <2>2. CASE q = Cancelled(r)
      <3>1. LifeState(q) = "cancelled" /\ q.epoch = r.epoch /\ q.ckpt = r.ckpt
        BY <1>0, <2>2 DEF Cancelled, Row, LifeState, IsCancelled
      <3>2. QED
        BY <1>4, <1>8, <2>1, <3>1 DEF RowLives
    <2>3. CASE /\ q \in {Paused(r), [Paused(r) EXCEPT !.pause = r.pause]}
               /\ r.state \in {"pending", "processing"}
      <3>1. LifeState(q) = "stopped" /\ q.epoch = r.epoch /\ q.ckpt = r.ckpt
        BY <1>0, <2>3 DEF Paused, Row, LifeState, IsCancelled
      <3>2. LifeState(r) \in {"pending", "processing"}
        BY <2>3 DEF LifeState, IsCancelled
      <3>3. QED
        BY <1>4, <1>8, <3>1, <3>2 DEF RowLives
    <2>4. QED
      BY <1>8, <2>2, <2>3 DEF Recovered, StoppedOutright
  <1>9. CASE published'[j] = published[j] /\ Requeued(j)
    <2>1. LifeState(r) = "stopped"
      BY <1>9 DEF Requeued, LifeState, IsCancelled
    <2>2. LifeState(q) = "pending" /\ q.epoch = r.epoch /\ q.ckpt = r.ckpt
      BY <1>0, <1>9 DEF Requeued, Resumed, Row, LifeState, IsCancelled
    <2>3. QED
      BY <1>4, <1>9, <2>1, <2>2 DEF RowLives
  <1>10. CASE /\ published'[j] = published[j]
              /\ Kept(j) \/ Reconfigured(j) \/ AskedToStop(j) \/ Aged(j)
    <2>1. Same(r, q)
      BY <1>0, <1>10 DEF Kept, Reconfigured, AskedToStop, Aged, Same, Row,
                         LifeState, IsCancelled
    <2>2. QED
      BY <1>2, <1>10, <2>1
  <1>11. QED
    BY <1>3, <1>5, <1>6, <1>7, <1>8, <1>9, <1>10, RowMoves
       DEF RowMove, RefusedLate, Kept

\* A step other than the passing of time touches the row of one job at most,
\* and time shows in no life.
LEMMA OneLifeMoves ==
    ASSUME Inv, [Next]_vars
    PROVE  \/ \A j \in Jobs : LifeOf(j)' = LifeOf(j)
           \/ \E k \in Jobs : \A j \in Jobs \ {k} : LifeOf(j)' = LifeOf(j)
  <1> DEFINE OneRow == \E k \in Jobs : \A j \in Jobs \ {k} : Kept(j)
  <1>t. TypeInv
    BY DEF Inv
  <1>1. CASE UNCHANGED <<job, published>>
    BY <1>1 DEF LifeOf
  <1>2. ASSUME NEW k \in Jobs, NEW q, SetRow(k, q), UNCHANGED published
        PROVE  OneRow
    BY <1>t, <1>2, SetRowMoves DEF Kept
  <1>3. ASSUME NEW w \in Workers, WorkerStep(w) \/ Heartbeat(w), ~UNCHANGED <<job, published>>
        PROVE  OneRow
    <2>1. CASE RecoverAbandonedStop(w)
      <3>1. PICK f \in worker[w].found : \E q : SetRow(f.job, q)
        BY <1>3, <2>1 DEF RecoverAbandonedStop, OnlyWorker
      <3>2. f.job \in Jobs /\ UNCHANGED published
        BY <1>t, <2>1, <3>1 DEF TypeInv, TypeOK, WorkerState, RecoverAbandonedStop, OnlyWorker
      <3>3. QED
        BY <1>2, <3>1, <3>2
    <2>2. CASE Claim(w) \/ RecordProvider(w) \/ Heartbeat(w) \/ DispatchCall(w)
               \/ SaveCheckpoint(w) \/ Settle(w)
      <3>1. worker[w].job \in Jobs
        BY <1>t, <2>2, WorkingType
           DEF Claim, RecordProvider, Heartbeat, DispatchCall, SaveCheckpoint, Settle,
               Working, Gate, Holds
      <3>2. UNCHANGED published /\ \E q : SetRow(worker[w].job, q)
        BY <1>3, <2>2 DEF Claim, RecordProvider, Heartbeat, DispatchCall, SaveCheckpoint,
                          Settle, OnlyWorker
      <3>3. QED
        BY <1>2, <3>1, <3>2
    <2>3. CASE Finalise(w)
      <3> DEFINE k == worker[w].job
      <3>1. /\ k \in Jobs /\ SetRow(k, Completed(job[k]))
            /\ published' = [published EXCEPT ![k] = @ + 1]
        BY <1>3, <2>3 DEF Finalise, Gate, Holds
      <3>2. \A j \in Jobs \ {k} : job'[j] = job[j] /\ published'[j] = published[j]
        BY <1>t, <3>1, SetRowMoves DEF TypeInv, TypeOK
      <3>3. QED
        BY <3>1, <3>2 DEF Kept
    <2>4. CASE Poll(w) \/ SelectCandidate(w) \/ LoadCheckpoint(w) \/ StopAtBoundary(w) \/ Fail(w)
      BY <1>3, <2>4 DEF Poll, SelectCandidate, LoadCheckpoint, StopAtBoundary, Fail, OnlyWorker
    <2>5. QED
      BY <1>3, <2>1, <2>2, <2>3, <2>4 DEF WorkerStep
  <1>4. ASSUME NEW k \in Jobs, Request(k), ~UNCHANGED <<job, published>>
        PROVE  OneRow
    <2>1. UNCHANGED published /\ \E q : SetRow(k, q)
      BY <1>4 DEF Request, Enqueue, RequestCancellation, RequestPause, RequestResume, OnlyApi
    <2>2. QED
      BY <1>2, <2>1
  <1>5. ASSUME ApiStep, ~UNCHANGED <<job, published>>
        PROVE  OneRow
    <2>1. api.job \in Jobs /\ UNCHANGED published /\ \E q : SetRow(api.job, q)
      BY <1>t, <1>5 DEF ApiStep, RecordRefusal, CancelOutright, FlagCancellation, PauseOutright,
           FlagPause, ResumeWrite, OnlyApi, TypeInv, JobsAreKnown
    <2>2. QED
      BY <1>2, <2>1
  <1>6. CASE Tick
    <2>1. ASSUME NEW j \in Jobs
          PROVE  LifeOf(j)' = LifeOf(j)
      <3>1. job[j] \in Row /\ Aged(j) /\ published' = published
        BY <1>t, <1>6 DEF Tick, Aged, TypeInv, TypeOK
      <3>2. LifeState(job'[j]) = LifeState(job[j]) /\ job'[j].epoch = job[j].epoch
            /\ job'[j].ckpt = job[j].ckpt
        BY <3>1 DEF Aged, Row, LifeState, IsCancelled
      <3>3. QED
        BY <3>1, <3>2 DEF LifeOf
    <2>2. QED
      BY <2>1
  <1>7. CASE OneRow
    BY <1>7 DEF Kept, LifeOf
  <1>8. CASE CrashApi \/ \E w \in Workers : CrashWorker(w) \/ Restart(w) \/ Stall(w) \/ Wake(w)
    BY <1>1, <1>8 DEF CrashApi, CrashWorker, Restart, Stall, Wake, OnlyWorker
  <1>9. QED
    BY <1>1, <1>3, <1>4, <1>5, <1>6, <1>7, <1>8 DEF Next, vars

\* A step of the queue is a step of one life, or of none.
LEMMA StepLives ==
    ASSUME Inv, PublishedIffCompleted, PublishedIffCompleted', Inv', ~Refusals, [Next]_vars
    PROVE  [Lives!Next]_([j \in Jobs |-> LifeOf(j)])
  <1>1. CASE \A j \in Jobs : LifeOf(j)' = LifeOf(j)
    BY <1>1
  <1>2. ASSUME NEW k \in Jobs, \A j \in Jobs \ {k} : LifeOf(j)' = LifeOf(j),
               LifeOf(k)' # LifeOf(k)
        PROVE  Lives!Next
    <2>1. LifeMove(LifeOf(k), LifeOf(k)')
      BY <1>2, LifeMoves
    <2>2. LifeOf(k) \in Lives!Life
      BY DEF Inv, TypeInv, TypeOK, LifeOf, LifeState, Row, States, Lives!Life, Lives!States
    <2>3. LifeOf(k)' \in Lives!Life
      BY DEF Inv, TypeInv, TypeOK, LifeOf, LifeState, Row, States, Lives!Life, Lives!States
    <2>4. QED
      BY <1>2, <2>1, <2>2, <2>3, MoveIsLivesStep
  <1>3. QED
    BY <1>1, <1>2, OneLifeMoves

LEMMA InitLives == Init => Lives!Init
  BY DEF Init, Lives!Init, Lives!Unborn, LifeOf, NewRow, LifeState, IsCancelled

\* The queue, its workers and the API, through every interleaving, crash and
\* stall, make of each run the life JobLife describes.
THEOREM SpecRunsLiveAsSpecified ==
    ASSUME ~Refusals
    PROVE  Spec => RunsLiveAsSpecified
  <1>1. Inv /\ PublishedIffCompleted /\ PublishedIffCompleted' /\ Inv' /\ [Next]_vars
           => [Lives!Next]_([j \in Jobs |-> LifeOf(j)])
    BY StepLives
  <1>2. QED
    BY <1>1, InitLives, SpecInv, SpecPublishedIffCompleted, PTL
       DEF RunsLiveAsSpecified, Lives!Spec, Spec
=============================================================================
