------------------------------- MODULE Budget -------------------------------
(***************************************************************************)
(* Spending: apps/worker/src/budget.ts and the administrator's routes that *)
(* change what it enforces.                                                *)
(*                                                                         *)
(* Before a provider call a hold is taken against the caps, and afterwards *)
(* it is settled: charged, released, or reconciling when nobody knows      *)
(* whether the provider billed the call.  Rows of the ledger are only ever *)
(* added, so what a hold has put there is a running total.                 *)
(*                                                                         *)
(* Each action is one transaction of the code, and any process takes it.   *)
(* A failed or refused transaction changes nothing and is not an action.   *)
(*                                                                         *)
(* A definition whose comment begins "Variant:" is not part of the model:  *)
(* it is the definition that follows it with one plausible mistake in it.  *)
(***************************************************************************)
EXTENDS Integers, FiniteSetsExt

CONSTANTS
    Users,         \* the accounts
    Holds,         \* the rows budget_reservations may come to have
    Amounts,       \* the figures a call is held or billed at, in minor units
    Limits,        \* the caps an administrator sets; 0 asks for none
    EnvLimit,      \* JEVDECK_BUDGET_INSTALLATION_LIMIT_MINOR; 0 or absent: none
    LastPeriod,    \* bound: months in a behaviour
    NoUser

ASSUME AmountsAssumption == Amounts \subseteq Nat /\ Limits \subseteq Nat
ASSUME CapsAssumption    == EnvLimit \in Nat /\ LastPeriod \in Nat \ {0}
ASSUME UsersAssumption   == NoUser \notin Users

VARIABLES
    hold,       \* budget_reservations
    ledger,     \* the sum of the usage_records written for each hold
    over,       \* the sum of over_minor in the budget_incidents of each hold
    policy,     \* the installation's row of budget_policies; 0: there is none
    userLimit,  \* users.monthly_spend_limit_minor; 0: none
    period      \* the current period_key

vars == <<hold, ledger, over, policy, userLimit, period>>

\* resolved: a person settled it (reconciled_by).
Hold == [state : {"none", "reserved", "charged", "released", "reconciling"},
         user : Users \cup {NoUser}, period : Nat, amount : Nat, resolved : BOOLEAN]

NoHold == [state |-> "none", user |-> NoUser, period |-> 0, amount |-> 0,
           resolved |-> FALSE]

Init == /\ hold = [h \in Holds |-> NoHold]
        /\ ledger = [h \in Holds |-> 0]
        /\ over = [h \in Holds |-> 0]
        /\ policy = 0
        /\ userLimit \in [Users -> Limits]
        /\ period = 1

-----------------------------------------------------------------------------
(* What the caps are, and what counts against them.                        *)

\* A stored policy wins over the environment.
InstallationLimit == IF policy > 0 THEN policy ELSE EnvLimit

Open    == {"reserved", "reconciling"}
Counted == Open \cup {"charged"}

Total(S) == MapThenSumSet(LAMBDA h : hold[h].amount, S)

\* committedMinor of readUsageTotals, for the installation and for one user.
CountedHolds(p) == {h \in Holds : hold[h].state \in Counted /\ hold[h].period = p}
CommittedBy(u, p) == Total({h \in CountedHolds(p) : hold[h].user = u})
Committed(p) == Total(CountedHolds(p))

\* Variant: a call is only compared with the cap, not with what is left of it.
FitsAlone(limit, committed, a) == limit = 0 \/ a <= limit

Fits(limit, committed, a) == limit = 0 \/ committed + a <= limit

\* Both caps have headroom for a hold of a by user u: what reserveBudget asks.
Headroom(u, a) == /\ Fits(userLimit[u], CommittedBy(u, period), a)
                  /\ Fits(InstallationLimit, Committed(period), a)

-----------------------------------------------------------------------------
(* Holds.                                                                  *)

\* reserveBudget, which computes the totals and inserts the row in one
\* immediate transaction.
Reserve(u, h, a) ==
    /\ hold[h].state = "none"
    /\ Headroom(u, a)
    /\ hold' = [hold EXCEPT ![h] = [state |-> "reserved", user |-> u, period |-> period,
                                    amount |-> a, resolved |-> FALSE]]
    /\ UNCHANGED <<ledger, over, policy, userLimit, period>>

\* The figure settled: a release owes nothing.
Owed(outcome, a) == IF outcome = "released" THEN 0 ELSE a

\* Variant: the estimate stays in the ledger beside what was established.
NotReversed(h) == 0

\* The ledger row that takes back what was written while the charge was uncertain.
Reversed(h) == IF hold[h].state = "reconciling" THEN hold[h].amount ELSE 0

\* The incident recorded when the fact is larger than the bound.
Excess(h, a) == IF a > hold[h].amount THEN a - hold[h].amount ELSE 0

Settleable(h) == hold[h].state \in Open

\* The body of settleReservation where the hold is still open.
SettleOpen(h, outcome, a, byPerson) ==
    LET owed == Owed(outcome, a) IN
    /\ hold' = [hold EXCEPT ![h] = [@ EXCEPT !.state = outcome, !.amount = owed,
                                             !.resolved = byPerson]]
    /\ ledger' = [ledger EXCEPT ![h] = @ - Reversed(h) + owed]
    /\ over' = [over EXCEPT ![h] = @ + Excess(h, owed)]

\* settleReservation: of a hold that is settled already it changes nothing.
Settle(h, outcome, a) ==
    /\ IF Settleable(h)
       THEN SettleOpen(h, outcome, a, FALSE)
       ELSE UNCHANGED <<hold, ledger, over>>
    /\ UNCHANGED <<policy, userLimit, period>>

\* What a call ends as: charged at the figure the provider reports, released when
\* nothing was processed, kept at the hold's own figure when nobody knows.
SettleCall(h) ==
    /\ hold[h].state # "none"
    /\ \/ \E a \in Amounts : Settle(h, "charged", a)
       \/ Settle(h, "released", 0)
       \/ Settle(h, "reconciling", hold[h].amount)

\* reconcileReservation: a person settles an uncertain charge, and only that.
Reconcile(h, outcome, a) ==
    /\ hold[h].state = "reconciling"
    /\ outcome \in {"charged", "released"}
    /\ SettleOpen(h, outcome, a, TRUE)
    /\ UNCHANGED <<policy, userLimit, period>>

-----------------------------------------------------------------------------
(* The caps, and the month.                                                *)

\* setInstallationLimit: the row is deleted, and inserted again unless limit is 0.
SetInstallationLimit(limit) ==
    /\ policy' = limit
    /\ UNCHANGED <<hold, ledger, over, userLimit, period>>

SetUserLimit(u, limit) ==
    /\ userLimit' = [userLimit EXCEPT ![u] = limit]
    /\ UNCHANGED <<hold, ledger, over, policy, period>>

NextPeriod == /\ period < LastPeriod
              /\ period' = period + 1
              /\ UNCHANGED <<hold, ledger, over, policy, userLimit>>

Next == \/ \E u \in Users, h \in Holds, a \in Amounts : Reserve(u, h, a)
        \/ \E h \in Holds : SettleCall(h)
        \/ \E h \in Holds, o \in {"charged", "released"}, a \in Amounts : Reconcile(h, o, a)
        \/ \E limit \in Limits : SetInstallationLimit(limit)
        \/ \E u \in Users, limit \in Limits : SetUserLimit(u, limit)
        \/ NextPeriod

Spec == Init /\ [][Next]_vars

-----------------------------------------------------------------------------
(* Properties.                                                             *)

\* Every row stays within its column's type.
TypeOK == /\ hold \in [Holds -> Hold]
          /\ ledger \in [Holds -> Int]
          /\ over \in [Holds -> Nat]
          /\ policy \in Nat
          /\ userLimit \in [Users -> Nat]
          /\ period \in 1..LastPeriod

\* What settleReservation has written to the append-only ledger is, through every
\* uncertain charge and its resolution, what the hold says is owed: nothing until
\* something is known, and nothing after a release.
LedgerMatchesHolds ==
    \A h \in Holds :
        ledger[h] = IF hold[h].state \in {"charged", "reconciling"} THEN hold[h].amount ELSE 0

\* A charge that has been settled stays as it was settled, in the table and in the
\* ledger, however often and by whomever it is settled again: a retry of the
\* bookkeeping, a late answer, a person.
SettledIsFinal ==
    [][\A h \in Holds : hold[h].state \in {"charged", "released"} =>
          /\ hold'[h] = hold[h] /\ ledger'[h] = ledger[h] /\ over'[h] = over[h]]_vars

\* The excess the incidents name, over the holds of one user or of all of them.
Named(us) == MapThenSumSet(LAMBDA h : over[h], {h \in Holds : hold[h].user \in us})

\* Spending passes a cap only by as much as an incident names.  While the caps
\* stand, a step that takes the committed total of an account or of the
\* installation above its cap records the whole increase as an overspend.
CapsArePassedOnlyByNamedExcess ==
    [][(UNCHANGED <<policy, userLimit>>) =>
          /\ \A u \in Users, p \in 1..LastPeriod :
                userLimit[u] > 0 /\ CommittedBy(u, p)' > userLimit[u] =>
                    CommittedBy(u, p)' - CommittedBy(u, p) <= Named({u})' - Named({u})
          /\ \A p \in 1..LastPeriod :
                InstallationLimit > 0 /\ Committed(p)' > InstallationLimit =>
                    Committed(p)' - Committed(p) <= Named(Users)' - Named(Users)]_vars
=============================================================================
