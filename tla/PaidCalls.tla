------------------------------ MODULE PaidCalls ------------------------------
(***************************************************************************)
(* The paid calls of one generation run: attempt of                        *)
(* apps/worker/src/pipeline.ts over the durable results of operations.ts,  *)
(* the holds of budget.ts and the resume of queue.ts.                      *)
(*                                                                         *)
(* Two components are composed.  The run's row moves as JobLife says,      *)
(* which JobQueue implements, and a claim is what JobQueue proves of one:  *)
(* an epoch nobody else has, good while the row is processing under it and *)
(* its lease lives.  Money moves as Budget says.                           *)
(*                                                                         *)
(* An action is one statement or transaction.  The gate of operations.ts   *)
(* is two: renewLease, and then the write it guards.                       *)
(*                                                                         *)
(* A definition whose comment begins "Variant:" is not part of the model:  *)
(* it is the definition that follows it with one plausible mistake in it.  *)
(***************************************************************************)
EXTENDS Integers

CONSTANTS
    Run, Owner,    \* the run, and the account that pays for it
    NumOps,        \* the logical operations of the run, made in order
    Workers,       \* the worker of each process
    InApi,         \* the one that shares the API's process, if any
    Holds, Amounts, EnvLimit, \* see Budget
    Freezes,       \* whether a process can be suspended for a whole lease
                   \* between renewLease and the write that follows it
    MaxEpochs,     \* bound: attempts at the run
    MaxLapses,     \* bound: leases that run out
    MaxCrashes,    \* bound: processes that die
    MaxRequests,   \* bound: requests of the owner
    NoAttempt, NoOwner

ASSUME CallsAssumption == /\ NumOps \in Nat \ {0}
                          /\ InApi \subseteq Workers /\ \A v, w \in InApi : v = w
                          /\ NoAttempt \notin Holds /\ NoOwner # Owner
                          /\ Amounts \subseteq Nat /\ Amounts # {} /\ EnvLimit \in Nat
                          /\ Freezes \in BOOLEAN
                          /\ MaxEpochs \in Nat /\ MaxLapses \in Nat
                          /\ MaxCrashes \in Nat /\ MaxRequests \in Nat

VARIABLES
    life,          \* the run's row, as JobLife has it
    live,          \* whether its lease has time left
    op,            \* operation_results: the row of each logical operation
    call,          \* what each worker is doing
    bill,          \* what the provider makes of the request sent under each hold
    resuming,      \* resumeJob has requeued the run and not yet superseded its calls
    accepted,      \* attempts that were unresolved when the owner chose to continue
    hold, ledger, over, policy, userLimit, period, \* see Budget
    faults, requests \* what is left of the bounds

Life  == INSTANCE JobLife WITH Jobs <- {Run}
Books == INSTANCE Budget WITH Users <- {Owner}, Limits <- {0}, LastPeriod <- 1,
                              NoUser <- NoOwner

books == <<hold, ledger, over, policy, userLimit, period>>
vars  == <<life, live, op, call, bill, resuming, accepted, faults, requests, books>>

Ops == 1..NumOps

Statuses == {"none", "dispatched", "succeeded", "failed", "unusable", "superseded"}

\* One logical operation; none is a row that does not exist.
Operation == [status : Statuses, attempt : Holds \cup {NoAttempt}]
NoOperation == [status |-> "none", attempt |-> NoAttempt]

\* The steps of attempt that run to their end without an await, in its order;
\* only in sent is the worker waiting, for the provider.
Synchronous == {"unresolved", "dispatching", "holding", "recording", "releasing",
                "answered", "failing", "settled", "storing", "unsettled", "raising"}
Phases == Synchronous \cup {"down", "idle", "ready", "sent"}

Outcomes == {"charged", "released", "reconciling"}

\* epoch is the claim; next the operation the run has come to; result and
\* outcome what became of the call; final whether its error is not retryable.
Call == [phase : Phases, epoch : Nat, next : 1..NumOps + 1, hold : Holds \cup {NoAttempt},
         result : {"succeeded", "unusable", "failed"}, outcome : Outcomes,
         final : BOOLEAN]
Idle == [phase |-> "idle", epoch |-> 0, next |-> 1, hold |-> NoAttempt,
         result |-> "succeeded", outcome |-> "charged", final |-> FALSE]

Init == /\ Life!Init /\ Books!Init
        /\ live = FALSE
        /\ op = [o \in Ops |-> NoOperation]
        /\ call = [w \in Workers |-> Idle]
        /\ bill = [h \in Holds |-> "unsent"]
        /\ resuming = FALSE
        /\ accepted = {}
        /\ faults = [lapse |-> MaxLapses, crash |-> MaxCrashes]
        /\ requests = MaxRequests

-----------------------------------------------------------------------------

State == life[Run].state

Held(w) == State = "processing" /\ call[w].epoch = life[Run].epoch

\* Variant: the claim is compared and its lease is not.
GateWithoutLease(w) == Held(w)

\* renewLease: the claim is the row's, and its lease has time left.
Gate(w) == Held(w) /\ live

\* A worker in the API's process waits while a request is half served, and the
\* API while that worker is between two awaits.
Scheduled(w) == w \in InApi => ~resuming
ApiScheduled == \A w \in InApi : call[w].phase \notin Synchronous

At(w, phase) == call[w].phase = phase /\ Scheduled(w)
Become(w, c) == call' = [call EXCEPT ![w] = c]
Goes(w, phase) == Become(w, [call[w] EXCEPT !.phase = phase])

RunUnchanged == UNCHANGED <<life, live>>
SameEnvironment == UNCHANGED <<resuming, accepted, faults, requests>>

\* A step of a worker in memory, or one that reads.
OnlyCall == RunUnchanged /\ UNCHANGED <<op, bill, books>> /\ SameEnvironment

-----------------------------------------------------------------------------
(* A worker's attempt at the run.                                          *)

\* claimNextJob, of a queued run or an abandoned one.
ClaimRun(w) ==
    /\ At(w, "idle")
    /\ State = "pending" \/ ~live
    /\ life[Run].epoch < MaxEpochs
    /\ Life!Begin(Run)
    /\ live' = TRUE
    /\ Become(w, [Idle EXCEPT !.phase = "ready", !.epoch = life'[Run].epoch])
    /\ UNCHANGED <<op, bill, books>> /\ SameEnvironment

\* assertOwned, and decideDispatch for the next operation: an answer that is
\* stored is used, and a call that was sent and never resolved is not repeated.
Decide(w) ==
    /\ At(w, "ready") /\ call[w].next \in Ops
    /\ LET o == op[call[w].next] IN
          \/ ~Gate(w) /\ Become(w, Idle)
          \/ /\ Gate(w) /\ o.status = "succeeded"
             /\ Become(w, [call[w] EXCEPT !.next = @ + 1])
          \/ /\ Gate(w) /\ o.status = "dispatched"
             /\ Become(w, [call[w] EXCEPT !.phase = "unresolved", !.hold = o.attempt])
          \/ /\ Gate(w) /\ o.status \notin {"succeeded", "dispatched"}
             /\ Goes(w, "dispatching")
    /\ OnlyCall

\* markDispatchUncertain, and ChargeConfirmationRequiredError.
MarkUncertain(w) ==
    /\ At(w, "unresolved")
    /\ Books!Settle(call[w].hold, "reconciling", hold[call[w].hold].amount)
    /\ Become(w, [call[w] EXCEPT !.phase = "raising", !.final = TRUE])
    /\ RunUnchanged /\ UNCHANGED <<op, bill>> /\ SameEnvironment

\* Variant: the headroom found when the job was admitted is relied on.
TakeHoldUnchecked(w) ==
    /\ At(w, "dispatching")
    /\ \E h \in Holds, a \in Amounts :
          /\ hold[h].state = "none"
          /\ hold' = [hold EXCEPT ![h] = [state |-> "reserved", user |-> Owner,
                         period |-> period, amount |-> a, resolved |-> FALSE]]
          /\ UNCHANGED <<ledger, over, policy, userLimit, period>>
          /\ Become(w, [call[w] EXCEPT !.phase = "holding", !.hold = h])
    /\ RunUnchanged /\ UNCHANGED <<op, bill>> /\ SameEnvironment

\* reserveBudget, under a new attempt id.
TakeHold(w) ==
    /\ At(w, "dispatching")
    /\ \E h \in Holds, a \in Amounts :
          /\ Books!Reserve(Owner, h, a)
          /\ Become(w, [call[w] EXCEPT !.phase = "holding", !.hold = h])
    /\ RunUnchanged /\ UNCHANGED <<op, bill>> /\ SameEnvironment

\* BudgetExceededError: nothing is sent.
RefuseHold(w) ==
    /\ At(w, "dispatching")
    /\ \E a \in Amounts : ~Books!Headroom(Owner, a)
    /\ Become(w, [call[w] EXCEPT !.phase = "raising", !.final = TRUE])
    /\ OnlyCall

\* Variant: a claim that is gone ends the attempt and leaves the hold.
RenewForDispatchOrLeave(w) ==
    /\ At(w, "holding")
    /\ IF Gate(w) THEN Goes(w, "recording") ELSE Become(w, Idle)
    /\ OnlyCall

\* recordDispatch's gate.
RenewForDispatch(w) ==
    /\ At(w, "holding")
    /\ Goes(w, IF Gate(w) THEN "recording" ELSE "releasing")
    /\ OnlyCall

\* Its write, after which the request goes out.
RecordDispatch(w) ==
    /\ At(w, "recording")
    /\ op' = [op EXCEPT ![call[w].next] = [status |-> "dispatched", attempt |-> call[w].hold]]
    /\ bill' = [bill EXCEPT ![call[w].hold] = "open"]
    /\ Goes(w, "sent")
    /\ RunUnchanged /\ UNCHANGED books /\ SameEnvironment

\* Nothing was sent, so the hold is released.
ReleaseHold(w) ==
    /\ At(w, "releasing")
    /\ Books!Settle(call[w].hold, "released", 0)
    /\ Become(w, Idle)
    /\ RunUnchanged /\ UNCHANGED <<op, bill>> /\ SameEnvironment

Billed(w, b) == bill' = [bill EXCEPT ![call[w].hold] = b]

\* The provider answers, and the answer can be used or not.
Answer(w) ==
    /\ At(w, "sent")
    /\ Billed(w, "billed")
    /\ \E r \in {"succeeded", "unusable"} :
          Become(w, [call[w] EXCEPT !.phase = "answered", !.result = r,
                                       !.outcome = "charged"])
    /\ RunUnchanged /\ UNCHANGED <<op, books>> /\ SameEnvironment

\* Variant: a call that timed out is taken to have cost nothing.
OutcomeOfTimeout(b) == IF b = "billed" THEN "charged" ELSE "released"

\* outcomeForBilling: what the failure says of the bill decides what the hold
\* becomes.  open: the request may have been processed, or be still.
outcomeForBilling(b) == CASE b = "free"   -> "released"
                          [] b = "billed" -> "charged"
                          [] b = "open"   -> "reconciling"

\* The call fails.
FailCall(w) ==
    /\ At(w, "sent")
    /\ \E b \in {"free", "billed", "open"} :
          /\ Billed(w, b)
          /\ Become(w, [call[w] EXCEPT !.phase = "failing", !.result = "failed",
                                       !.outcome = outcomeForBilling(b)])
    /\ RunUnchanged /\ UNCHANGED <<op, books>> /\ SameEnvironment

\* The charge is settled before the answer is parsed.
SettleAnswer(w) ==
    /\ At(w, "answered")
    /\ \E a \in Amounts : Books!Settle(call[w].hold, "charged", a)
    /\ Goes(w, "settled")
    /\ RunUnchanged /\ UNCHANGED <<op, bill>> /\ SameEnvironment

\* What follows once the result has been stored, or its write refused: an
\* answer is used either way.
AfterStoring(w) ==
    CASE call[w].result = "succeeded" -> [call[w] EXCEPT !.phase = "ready", !.next = @ + 1]
      [] call[w].result = "unusable"  -> [call[w] EXCEPT !.phase = "raising"]
      [] call[w].result = "failed"    -> [call[w] EXCEPT !.phase = "unsettled"]

\* The gate of recordSuccess or recordOperationFailure.
RenewForResult(w) ==
    /\ At(w, "settled") \/ At(w, "failing")
    /\ IF Gate(w) THEN Goes(w, "storing") ELSE Become(w, AfterStoring(w))
    /\ OnlyCall

\* Its write, which finds no row once a run that completed has deleted them.
StoreResult(w) ==
    /\ At(w, "storing")
    /\ LET o == op[call[w].next] IN
          op' = [op EXCEPT ![call[w].next] =
                    IF o.status = "none" THEN o ELSE [o EXCEPT !.status = call[w].result]]
    /\ Become(w, AfterStoring(w))
    /\ RunUnchanged /\ UNCHANGED <<bill, books>> /\ SameEnvironment

\* A failed call's hold is settled last.
SettleFailure(w) ==
    /\ At(w, "unsettled")
    /\ \E a \in CASE call[w].outcome = "charged"     -> Amounts
                  [] call[w].outcome = "released"    -> {0}
                  [] call[w].outcome = "reconciling" -> {hold[call[w].hold].amount} :
          Books!Settle(call[w].hold, call[w].outcome, a)
    /\ Goes(w, "raising")
    /\ RunUnchanged /\ UNCHANGED <<op, bill>> /\ SameEnvironment

\* The attempt ends: on an error, or between two calls for a reason of the run's
\* own.  failJob and the stops it may turn into are JobQueue's; an error that is
\* not retryable does not return the run to the queue.
EndAttempt(w) ==
    /\ At(w, "raising") \/ At(w, "ready")
    /\ IF Gate(w)
       THEN \/ ~call[w].final /\ Life!Retry(Run)
            \/ Life!Stop(Run) \/ Life!Cancel(Run)
       ELSE UNCHANGED life
    /\ live' = (live /\ ~Gate(w))
    /\ Become(w, Idle)
    /\ UNCHANGED <<op, bill, books>> /\ SameEnvironment

\* finaliseWithPublication, whose transaction deletes the run's results.
Publish(w) ==
    /\ At(w, "ready") /\ call[w].next \notin Ops
    /\ IF Gate(w)
       THEN /\ Life!Publish(Run)
            /\ live' = FALSE
            /\ op' = [o \in Ops |-> NoOperation]
       ELSE RunUnchanged /\ UNCHANGED op
    /\ Become(w, Idle)
    /\ UNCHANGED <<bill, books>> /\ SameEnvironment

\* recoverAbandonedStops, which a worker runs before it claims.
Recover(w) ==
    /\ At(w, "idle")
    /\ State = "processing" /\ ~live
    /\ Life!Stop(Run) \/ Life!Cancel(Run)
    /\ UNCHANGED <<live, op, call, bill, books>> /\ SameEnvironment

-----------------------------------------------------------------------------
(* The owner, an administrator, time and faults.                           *)

CanServe == ~resuming /\ ApiScheduled
OwnerAsks == CanServe /\ requests > 0 /\ requests' = requests - 1
OnlyRun == UNCHANGED <<live, op, call, bill, accepted, faults, books>>

Submit == OwnerAsks /\ Life!Submit(Run) /\ OnlyRun /\ UNCHANGED resuming

\* Of a run no worker has; one that is running ends where its worker sees the
\* request, or where a later one recovers it.
StopRun == /\ OwnerAsks /\ State \in {"pending", "stopped"}
           /\ \/ Life!Stop(Run)
              \/ Life!Cancel(Run)
           /\ OnlyRun /\ UNCHANGED resuming

Unresolved == {o \in Ops : op[o].status = "dispatched"}

\* resumeJob's first UPDATE.  The owner continues in the knowledge of what is
\* unresolved now.
Resume == /\ OwnerAsks
          /\ Life!Resume(Run)
          /\ resuming' = TRUE
          /\ accepted' = accepted \cup {op[o].attempt : o \in Unresolved}
          /\ UNCHANGED <<live, op, call, bill, faults, books>>

\* Its second, of every call that is unresolved by then.
Supersede == /\ resuming /\ ApiScheduled
             /\ op' = [o \in Ops |-> IF o \in Unresolved
                                     THEN [op[o] EXCEPT !.status = "superseded"]
                                     ELSE op[o]]
             /\ resuming' = FALSE
             /\ RunUnchanged
             /\ UNCHANGED <<call, bill, accepted, faults, requests, books>>

\* An administrator settles an uncertain charge.
Reconcile == /\ CanServe
             /\ \E h \in Holds :
                   \/ \E a \in Amounts : Books!Reconcile(h, "charged", a)
                   \/ Books!Reconcile(h, "released", 0)
             /\ RunUnchanged /\ UNCHANGED <<op, call, bill>> /\ SameEnvironment

BetweenGateAndWrite(w) == Gate(w) /\ call[w].phase \in {"recording", "storing"}

\* The lease runs out: its worker was suspended, or is no more.
Lapse == /\ State = "processing" /\ live /\ faults.lapse > 0
         /\ Freezes \/ \A w \in Workers : ~BetweenGateAndWrite(w)
         /\ live' = FALSE
         /\ faults' = [faults EXCEPT !.lapse = @ - 1]
         /\ UNCHANGED <<life, op, call, bill, resuming, accepted, requests, books>>

\* A process dies; what it was waiting for is nobody's.
Crash(w) ==
    /\ call[w].phase # "down" /\ faults.crash > 0
    /\ faults' = [faults EXCEPT !.crash = @ - 1]
    /\ Become(w, [Idle EXCEPT !.phase = "down"])
    /\ resuming' = (resuming /\ w \notin InApi)
    /\ RunUnchanged /\ UNCHANGED <<op, bill, accepted, requests, books>>

\* The API's own process, where no worker shares it.
CrashApi ==
    /\ resuming /\ InApi = {} /\ faults.crash > 0
    /\ faults' = [faults EXCEPT !.crash = @ - 1]
    /\ resuming' = FALSE
    /\ RunUnchanged /\ UNCHANGED <<op, call, bill, accepted, requests, books>>

Restart(w) ==
    /\ call[w].phase = "down"
    /\ Become(w, Idle)
    /\ OnlyCall

-----------------------------------------------------------------------------

\* attempt, from its decision to its end.
MakeCall(w) ==
    \/ Decide(w) \/ MarkUncertain(w) \/ TakeHold(w) \/ RefuseHold(w)
    \/ RenewForDispatch(w) \/ RecordDispatch(w) \/ ReleaseHold(w)
    \/ Answer(w) \/ FailCall(w) \/ SettleAnswer(w)
    \/ RenewForResult(w) \/ StoreResult(w) \/ SettleFailure(w)

Next == \/ \E w \in Workers : \/ ClaimRun(w) \/ MakeCall(w) \/ EndAttempt(w)
                              \/ Publish(w) \/ Recover(w)
        \/ Submit \/ StopRun \/ Resume \/ Supersede \/ Reconcile
        \/ Lapse \/ CrashApi
        \/ \E w \in Workers : Crash(w) \/ Restart(w)

Spec == Init /\ [][Next]_vars

-----------------------------------------------------------------------------
(* Properties.                                                             *)

TypeOK == /\ life \in [{Run} -> Life!Life]
          /\ live \in BOOLEAN
          /\ op \in [Ops -> Operation]
          /\ call \in [Workers -> Call]
          /\ bill \in [Holds -> {"unsent", "open", "billed", "free"}]
          /\ resuming \in BOOLEAN
          /\ accepted \subseteq Holds
          /\ Books!TypeOK
          /\ faults \in [lapse : Nat, crash : Nat] /\ requests \in Nat

\* "A dispatched call is never written off for free" (attempt): while a request
\* has been billed, or may be, its hold counts against the caps, whatever its
\* worker, its claim and its run have come to, unless a person released it.
BilledIsCounted ==
    \A h \in Holds : bill[h] \in {"open", "billed"} =>
        hold[h].state \in Books!Counted \/ hold[h].resolved

\* A call that was sent and never resolved is repeated only when the owner, told
\* of that call, has chosen to continue.
NoSilentRepeat ==
    [][\A o \in Ops :
          /\ op[o].status = "dispatched"
          /\ op'[o].status = "superseded" \/ op'[o].attempt \notin {op[o].attempt, NoAttempt}
          => op[o].attempt \in accepted]_vars

\* An answer that was paid for and stored is there until the run is published:
\* nobody sends the request again.
StoredAnswerIsKept ==
    [][\A o \in Ops : op[o].status = "succeeded" =>
          op'[o] = op[o] \/ life'[Run].state = "completed"]_vars

\* A call that a worker is making, or that the next attempt will find unresolved.
IsAttended(h) ==
    \/ \E w \in Workers : call[w].hold = h /\ call[w].phase # "down"
    \/ \E o \in Unresolved : op[o].attempt = h /\ State \notin {"cancelled", "completed"}

\* Until a process dies no hold is left behind: one that is neither settled nor
\* listed for a person to settle belongs to a call that is attended to, through
\* every loss of a claim and every refusal (attempt).
NoHoldIsLeftBehind ==
    faults.crash = MaxCrashes =>
        \A h \in Holds : hold[h].state = "reserved" => IsAttended(h)

\* "leaving it `reserved` would leave it invisible to the person who can settle it"
\* (attempt): a request that may have been billed, and that nothing attends to any
\* more, is among the charges an administrator is shown.
UncertainCallIsListed ==
    \A h \in Holds : bill[h] = "open" /\ hold[h].state = "reserved" => IsAttended(h)

\* Every step moves money as Budget allows, or moves none.
KeepsTheBooks == Books!Spec
=============================================================================
