-------------------------- MODULE PaidCalls_proofs --------------------------
(***************************************************************************)
(* What PaidCalls promises of the paid calls of a run, for any number of   *)
(* operations, workers, holds, crashes and lost leases.                    *)
(*                                                                         *)
(* That a request which may have been billed stays counted cannot be seen  *)
(* from the table of holds alone: a hold is released by a worker that only *)
(* remembers what it did with it.  The invariant therefore ties each step  *)
(* of a call to its hold and to its bill, and says that the hold a worker  *)
(* is using is nobody else's.                                              *)
(***************************************************************************)
EXTENDS PaidCalls, TLAPS

\* The steps of a call, and among them those that have a hold of their own:
\* before the request goes out, while it is out, and afterwards.
BeforeSend == {"holding", "recording", "releasing"}
AfterSend  == {"answered", "failing", "settled", "storing", "unsettled"}
Own        == BeforeSend \cup {"sent"} \cup AfterSend
InCall     == Own \cup {"unresolved", "dispatching"}

\* What a worker that is at c knows of the operation, the hold and the bill.
Knows(c) ==
    /\ c.phase \in InCall => c.next \in Ops
    /\ c.phase \in Own \cup {"unresolved"} =>
          c.hold \in Holds /\ hold[c.hold].state # "none"
    /\ c.phase \in BeforeSend =>
          bill[c.hold] = "unsent" /\ hold[c.hold].state = "reserved"
    /\ c.phase = "sent" => bill[c.hold] = "open"
    /\ c.phase \in AfterSend \cup {"unresolved"} => bill[c.hold] # "unsent"
    /\ c.phase \in AfterSend /\ c.outcome = "released" => bill[c.hold] = "free"

WorkersKnow == \A w \in Workers : Knows(call[w])

HoldsAreOwn ==
    \A v, w \in Workers :
        /\ call[v].phase \in Own /\ call[w].phase \in Own
        /\ call[v].hold = call[w].hold
        => v = w

\* Nothing was sent under a hold that was never taken.
UntakenIsUnsent == \A h \in Holds : hold[h].state = "none" => bill[h] = "unsent"

\* A dispatched operation names the hold its request went out under.
DispatchesAreHeld ==
    \A o \in Ops : op[o].status = "dispatched" =>
        op[o].attempt \in Holds /\ bill[op[o].attempt] # "unsent"

Accounts == /\ WorkersKnow /\ HoldsAreOwn
            /\ UntakenIsUnsent /\ DispatchesAreHeld /\ BilledIsCounted

Inv == TypeOK /\ Accounts

-----------------------------------------------------------------------------

LEMMA InitInv == Init => Inv
<1> SUFFICES ASSUME Init PROVE Inv
    OBVIOUS
<1> USE DEF Init, Idle
<1>1. Books!TypeOK
  <2>1. Books!NoHold \in Books!Hold
      BY DEF Books!NoHold, Books!Hold
  <2>2. 1 \in 1..1 /\ userLimit \in [{Owner} -> Nat]
      BY DEF Books!Init
  <2> QED
      BY <2>1, <2>2 DEF Books!Init, Books!TypeOK
<1>2. life \in [{Run} -> Life!Life]
    BY DEF Life!Init, Life!Unborn, Life!Life, Life!States
<1>3. Idle \in Call
    BY CallsAssumption DEF Idle, Call, Phases, Outcomes
<1>4. NoOperation \in Operation
    BY DEF NoOperation, Operation, Statuses
<1>5. TypeOK
    BY <1>1, <1>2, <1>3, <1>4, CallsAssumption DEF TypeOK
<1>6. \A w \in Workers : call[w].phase = "idle"
    OBVIOUS
<1>7. WorkersKnow /\ HoldsAreOwn
    BY <1>6 DEF WorkersKnow, HoldsAreOwn, Knows, InCall, Own, BeforeSend, AfterSend
<1>8. UntakenIsUnsent /\ DispatchesAreHeld /\ BilledIsCounted
    BY DEF UntakenIsUnsent, DispatchesAreHeld, BilledIsCounted, NoOperation
<1> QED
    BY <1>5, <1>7, <1>8 DEF Inv, Accounts

-----------------------------------------------------------------------------
(* Money: what a settlement and a new hold change.                         *)

LEMMA SettledOpen ==
    ASSUME Books!TypeOK, NEW h \in Holds, NEW o \in Outcomes, NEW a \in Nat,
           NEW byPerson \in BOOLEAN, Books!SettleOpen(h, o, a, byPerson),
           UNCHANGED <<policy, userLimit, period>>
    PROVE  /\ Books!TypeOK'
           /\ \A g \in Holds : g # h => hold'[g] = hold[g]
           /\ hold'[h].state = o /\ hold'[h].resolved = byPerson
<1>1. Books!Owed(o, a) \in Nat
    BY DEF Books!Owed
<1>2. hold[h] \in Books!Hold /\ ledger[h] \in Int /\ over[h] \in Nat
    BY DEF Books!TypeOK
<1>3. Books!Reversed(h) \in Nat /\ Books!Excess(h, Books!Owed(o, a)) \in Nat
    BY <1>1, <1>2 DEF Books!Reversed, Books!Excess, Books!Hold
<1>4. hold'[h] = [hold[h] EXCEPT !.state = o, !.amount = Books!Owed(o, a),
                                 !.resolved = byPerson]
    BY DEF Books!SettleOpen, Books!TypeOK
<1>5. /\ hold'[h] \in Books!Hold
      /\ hold'[h].state = o /\ hold'[h].resolved = byPerson
    BY <1>1, <1>2, <1>4 DEF Books!Hold, Outcomes
<1>6. /\ \A g \in Holds : g # h => hold'[g] = hold[g] /\ ledger'[g] = ledger[g]
                                                     /\ over'[g] = over[g]
      /\ ledger'[h] \in Int /\ over'[h] \in Nat
      /\ DOMAIN hold' = Holds
    BY <1>1, <1>2, <1>3 DEF Books!SettleOpen, Books!TypeOK
<1>7. hold' \in [Holds -> Books!Hold]
  <2>1. hold' = [g \in Holds |-> hold'[g]]
      BY DEF Books!SettleOpen, Books!TypeOK
  <2>2. \A g \in Holds : hold'[g] \in Books!Hold
      BY <1>5, <1>6 DEF Books!TypeOK
  <2> QED
      BY <2>1, <2>2
<1>8. ledger' \in [Holds -> Int] /\ over' \in [Holds -> Nat]
    BY <1>1, <1>2, <1>3 DEF Books!SettleOpen, Books!TypeOK
<1> QED
    BY <1>5, <1>6, <1>7, <1>8 DEF Books!TypeOK

LEMMA SettledHold ==
    ASSUME Books!TypeOK, NEW h \in Holds, NEW o \in Outcomes, NEW a \in Nat,
           Books!Settle(h, o, a)
    PROVE  /\ Books!TypeOK'
           /\ \A g \in Holds : g # h => hold'[g] = hold[g]
           /\ \/ hold'[h] = hold[h] /\ hold[h].state \notin Books!Open
              \/ hold[h].state \in Books!Open /\ hold'[h].state = o
<1>1. CASE hold[h].state \in Books!Open
    BY <1>1, SettledOpen DEF Books!Settle, Books!Settleable
<1>2. CASE hold[h].state \notin Books!Open
    BY <1>2 DEF Books!Settle, Books!Settleable, Books!TypeOK
<1> QED
    BY <1>1, <1>2

LEMMA ReservedHold ==
    ASSUME Books!TypeOK, NEW h \in Holds, NEW a \in Amounts, Books!Reserve(Owner, h, a)
    PROVE  /\ Books!TypeOK'
           /\ \A g \in Holds : g # h => hold'[g] = hold[g]
           /\ hold[h].state = "none" /\ hold'[h].state = "reserved"
<1>1. a \in Nat /\ period \in Nat
    BY CallsAssumption DEF Books!TypeOK
<1> QED
    BY <1>1 DEF Books!Reserve, Books!TypeOK, Books!Hold

-----------------------------------------------------------------------------
(* Steps of a worker.                                                      *)

\* Only w's call changes.
OnlyMoves(w) == \A v \in Workers : v # w => call'[v] = call[v]

\* A hold that changes was in use, and is still counted where its request may
\* have been billed.  If that request has not gone out, w is done with it.
HoldsMove(w) ==
    \A h \in Holds :
        \/ hold'[h] = hold[h]
        \/ /\ hold[h].state # "none" /\ hold'[h].state # "none"
           /\ bill[h] \in {"open", "billed"} =>
                 hold'[h].state \in Books!Counted \/ hold'[h].resolved
           /\ \/ bill[h] # "unsent"
              \/ /\ call[w].phase \in BeforeSend /\ call[w].hold = h
                 /\ call'[w].phase \notin BeforeSend

\* A worker may drop its hold; it takes no other.
KeepsItsHold(w) ==
    call'[w].phase \in Own => call[w].phase \in Own /\ call'[w].hold = call[w].hold

LEMMA WorkerMoves ==
    ASSUME TypeOK, Accounts, NEW w \in Workers, OnlyMoves(w), UNCHANGED bill,
           \A o \in Ops : op'[o].status = "dispatched" => op'[o] = op[o],
           HoldsMove(w), KeepsItsHold(w), Knows(call[w])'
    PROVE  Accounts'
<1>1. \A v \in Workers : v # w => call'[v] = call[v]
    BY DEF OnlyMoves
<1>2. WorkersKnow'
  <2> SUFFICES ASSUME NEW v \in Workers PROVE Knows(call[v])'
      BY DEF WorkersKnow
  <2>1. CASE v = w
      BY <2>1
  <2>2. CASE v # w
    <3>1. call'[v] = call[v] /\ Knows(call[v])
        BY <1>1, <2>2 DEF Accounts, WorkersKnow
    <3>2. call[v].phase \in BeforeSend => hold'[call[v].hold] = hold[call[v].hold]
      <4> SUFFICES ASSUME call[v].phase \in BeforeSend
                   PROVE  hold'[call[v].hold] = hold[call[v].hold]
          OBVIOUS
      <4>1. call[v].hold \in Holds /\ bill[call[v].hold] = "unsent"
          BY <3>1 DEF Knows, Own
      <4>2. call[w].phase \in BeforeSend => call[w].hold # call[v].hold
          BY <2>2 DEF Accounts, HoldsAreOwn, Own
      <4> QED
          BY <4>1, <4>2 DEF HoldsMove
    <3>3. \A h \in Holds : hold[h].state # "none" => hold'[h].state # "none"
        BY DEF HoldsMove
    <3> QED
        BY <3>1, <3>2, <3>3 DEF Knows, InCall, Own
  <2> QED
      BY <2>1, <2>2
<1>3. HoldsAreOwn'
    BY <1>1 DEF HoldsAreOwn, Accounts, KeepsItsHold
<1>4. UntakenIsUnsent'
    BY DEF UntakenIsUnsent, Accounts, HoldsMove
<1>5. DispatchesAreHeld'
    BY DEF DispatchesAreHeld, Accounts
<1>6. BilledIsCounted'
    BY DEF BilledIsCounted, Accounts, HoldsMove
<1> QED
    BY <1>2, <1>3, <1>4, <1>5, <1>6 DEF Accounts

-----------------------------------------------------------------------------
(* Typing of the parts a step changes.                                     *)

LEMMA Becomes ==
    ASSUME TypeOK, NEW w \in Workers, NEW c \in Call, Become(w, c)
    PROVE  call' \in [Workers -> Call] /\ call'[w] = c /\ OnlyMoves(w)
BY DEF TypeOK, Become, OnlyMoves

LEMMA GoesOn ==
    ASSUME TypeOK, NEW w \in Workers, NEW p \in Phases, Goes(w, p)
    PROVE  /\ call' \in [Workers -> Call] /\ OnlyMoves(w)
           /\ call'[w].phase = p
           /\ call'[w].epoch = call[w].epoch /\ call'[w].next = call[w].next
           /\ call'[w].hold = call[w].hold /\ call'[w].result = call[w].result
           /\ call'[w].outcome = call[w].outcome
<1>1. [call[w] EXCEPT !.phase = p] \in Call
    BY DEF TypeOK, Call
<1>2. call[w] \in Call
    BY DEF TypeOK
<1> QED
    BY <1>1, <1>2, Becomes DEF Goes, Call

LEMMA BooksKept == TypeOK /\ UNCHANGED books => Books!TypeOK'
BY DEF TypeOK, books, Books!TypeOK

LEMMA BegunLife ==
    ASSUME NEW l \in Life!Life, NEW e \in Nat
    PROVE  [l EXCEPT !.state = "processing", !.epoch = e] \in Life!Life
BY DEF Life!Life, Life!States

\* A move of the row.
LEMMA LifeTyped ==
    ASSUME TypeOK,
           \/ Life!Submit(Run) \/ Life!Begin(Run) \/ Life!Advance(Run) \/ Life!Retry(Run)
           \/ Life!Stop(Run) \/ Life!Resume(Run) \/ Life!Cancel(Run) \/ Life!Publish(Run)
    PROVE  life' \in [{Run} -> Life!Life]
<1>1. life[Run] \in Life!Life
    BY DEF TypeOK
<1>2. SUFFICES life'[Run] \in Life!Life
    BY DEF TypeOK, Life!Move, Life!Submit, Life!Begin, Life!Advance, Life!Retry,
           Life!Stop, Life!Resume, Life!Cancel, Life!Publish
<1> USE <1>1 DEF TypeOK, Life!Move, Life!Life, Life!States
<1>3. CASE Life!Submit(Run) \/ Life!Retry(Run) \/ Life!Stop(Run) \/ Life!Resume(Run)
           \/ Life!Cancel(Run)
    BY <1>3 DEF Life!Submit, Life!Retry, Life!Stop, Life!Resume, Life!Cancel
<1>4. CASE Life!Begin(Run)
  <2> DEFINE r == [life[Run] EXCEPT !.state = "processing", !.epoch = @ + 1]
  <2>1. life[Run].epoch + 1 \in Nat
      BY <1>1
  <2>2. r \in Life!Life
      BY <1>1, <2>1, BegunLife
  <2> HIDE DEF r
  <2>3. life' = [life EXCEPT ![Run] = r]
      BY <1>4 DEF Life!Begin, r
  <2> QED
      BY <2>2, <2>3
<1>5. CASE Life!Advance(Run)
    BY <1>5 DEF Life!Advance
<1>6. CASE Life!Publish(Run)
    BY <1>6 DEF Life!Publish
<1> QED
    BY <1>3, <1>4, <1>5, <1>6

LEMMA IdleTyped == Idle \in Call /\ Idle.phase = "idle"
BY CallsAssumption DEF Idle, Call, Phases, Synchronous, Outcomes

LEMMA ClaimedTyped ==
    ASSUME NEW e \in Nat
    PROVE  /\ [Idle EXCEPT !.phase = "ready", !.epoch = e] \in Call
           /\ [Idle EXCEPT !.phase = "ready", !.epoch = e].phase = "ready"
<1>1. "ready" \in Phases
    BY DEF Phases
<1> QED
    BY <1>1, IdleTyped DEF Call

\* A worker that ends its attempt knows nothing, whatever has changed.
LEMMA IdleKnows ==
    ASSUME NEW w \in Workers, call'[w].phase \in {"idle", "down", "ready", "raising"}
    PROVE  Knows(call[w])' /\ KeepsItsHold(w)
BY DEF Knows, KeepsItsHold, InCall, Own, BeforeSend, AfterSend

-----------------------------------------------------------------------------
(* A worker's attempt, up to the call: no bill changes.                    *)

\* Typing where the worker's call and what it holds are all that moves.
LEMMA CallTyped ==
    ASSUME TypeOK, call' \in [Workers -> Call], Books!TypeOK',
           UNCHANGED <<life, live, op, bill>>, SameEnvironment
    PROVE  TypeOK'
BY DEF TypeOK, SameEnvironment

LEMMA ClaimRunKeepsInv ==
    ASSUME Inv, NEW w \in Workers, ClaimRun(w)
    PROVE  Inv'
<1> USE DEF Inv
<1>1. life' \in [{Run} -> Life!Life]
    BY LifeTyped DEF ClaimRun
<1> DEFINE c == [Idle EXCEPT !.phase = "ready", !.epoch = life'[Run].epoch]
<1>2. c \in Call /\ c.phase = "ready"
  <2>1. life'[Run].epoch \in Nat
      BY <1>1 DEF Life!Life
  <2> QED
      BY <2>1, ClaimedTyped
<1> HIDE DEF c
<1>3. Become(w, c)
    BY DEF ClaimRun, c
<1>4. call' \in [Workers -> Call] /\ call'[w].phase = "ready" /\ OnlyMoves(w)
    BY <1>2, <1>3, Becomes
<1>5. TypeOK'
    BY <1>1, <1>4, BooksKept DEF ClaimRun, TypeOK, SameEnvironment
<1>6. HoldsMove(w)
    BY DEF ClaimRun, HoldsMove, books
<1>7. Accounts'
    BY <1>4, <1>6, IdleKnows, WorkerMoves DEF ClaimRun
<1> QED
    BY <1>5, <1>7

\* A step that moves no money, and after which w knows what it has to know.
LEMMA QuietStep ==
    ASSUME Inv, NEW w \in Workers, OnlyCall, call' \in [Workers -> Call], OnlyMoves(w),
           KeepsItsHold(w), Knows(call[w])'
    PROVE  Inv'
<1>1. TypeOK'
    BY BooksKept, CallTyped DEF Inv, OnlyCall, RunUnchanged
<1>2. HoldsMove(w) /\ UNCHANGED <<op, bill>>
    BY DEF OnlyCall, HoldsMove, books
<1>3. Accounts'
    BY <1>2, WorkerMoves DEF Inv
<1> QED
    BY <1>1, <1>3 DEF Inv

LEMMA DecideKeepsInv ==
    ASSUME Inv, NEW w \in Workers, Decide(w)
    PROVE  Inv'
<1> USE DEF Inv
<1> DEFINE o == op[call[w].next]
<1>1. call[w] \in Call /\ call[w].phase = "ready" /\ call[w].next \in Ops /\ o \in Operation
    BY DEF Decide, At, TypeOK
<1>2. OnlyCall
    BY DEF Decide
<1>3. CASE Become(w, Idle)
    BY <1>2, <1>3, IdleTyped, IdleKnows, Becomes, QuietStep
<1>4. CASE Become(w, [call[w] EXCEPT !.next = @ + 1])
  <2> DEFINE c == [call[w] EXCEPT !.next = @ + 1]
  <2>1. call[w].next + 1 \in 1..NumOps + 1
      BY <1>1, CallsAssumption DEF Ops
  <2>2. c \in Call /\ c.phase = "ready"
      BY <1>1, <2>1 DEF Call
  <2> HIDE DEF c
  <2>3. Become(w, c)
      BY <1>4 DEF c
  <2> QED
      BY <1>2, <2>2, <2>3, IdleKnows, Becomes, QuietStep
<1>5. CASE /\ o.status = "dispatched"
           /\ Become(w, [call[w] EXCEPT !.phase = "unresolved", !.hold = o.attempt])
  <2> DEFINE c == [call[w] EXCEPT !.phase = "unresolved", !.hold = o.attempt]
  <2>1. o.attempt \in Holds /\ bill[o.attempt] # "unsent"
      BY <1>1, <1>5 DEF Accounts, DispatchesAreHeld
  <2>2. hold[o.attempt].state # "none"
      BY <2>1 DEF Accounts, UntakenIsUnsent
  <2>3. /\ c \in Call /\ c.phase = "unresolved"
        /\ c.hold = o.attempt /\ c.next = call[w].next
      BY <1>1, <2>1 DEF Call, Phases, Synchronous
  <2> HIDE DEF c
  <2>4. Become(w, c)
      BY <1>5 DEF c
  <2>5. call' \in [Workers -> Call] /\ call'[w] = c /\ OnlyMoves(w)
      BY <2>3, <2>4, Becomes
  <2>6. KeepsItsHold(w)
      BY <2>3, <2>5 DEF KeepsItsHold, Own, BeforeSend, AfterSend
  <2>7. UNCHANGED <<hold, bill>>
      BY <1>2 DEF OnlyCall, books
  <2>8. Knows(call[w])'
      BY <1>1, <2>1, <2>2, <2>3, <2>5, <2>7 DEF Knows, Own, BeforeSend, AfterSend
  <2> QED
      BY <1>2, <2>5, <2>6, <2>8, QuietStep
<1>6. CASE Goes(w, "dispatching")
  <2>1. "dispatching" \in Phases
      BY DEF Phases, Synchronous
  <2>2. /\ call' \in [Workers -> Call] /\ OnlyMoves(w)
        /\ call'[w].phase = "dispatching" /\ call'[w].next = call[w].next
      BY <1>6, <2>1, GoesOn
  <2>3. KeepsItsHold(w) /\ Knows(call[w])'
      BY <1>1, <2>2 DEF KeepsItsHold, Knows, Own, BeforeSend, AfterSend
  <2> QED
      BY <1>2, <2>2, <2>3, QuietStep
<1> QED
    BY <1>3, <1>4, <1>5, <1>6 DEF Decide

\* A step of w that settles h.  It releases h only where nothing was billed, and
\* settles one whose request has not gone out only where it is w's own.
LEMMA SettleStep ==
    ASSUME Inv, NEW w \in Workers, NEW h \in Holds, NEW o \in Outcomes, NEW a \in Nat,
           Books!Settle(h, o, a), RunUnchanged, UNCHANGED <<op, bill>>, SameEnvironment,
           call' \in [Workers -> Call], OnlyMoves(w), KeepsItsHold(w), Knows(call[w])',
           bill[h] \in {"open", "billed"} => o # "released",
           \/ bill[h] # "unsent"
           \/ /\ call[w].phase \in BeforeSend /\ call[w].hold = h
              /\ call'[w].phase \notin BeforeSend
    PROVE  Inv'
<1>1. /\ Books!TypeOK'
      /\ \A g \in Holds : g # h => hold'[g] = hold[g]
      /\ \/ hold'[h] = hold[h]
         \/ hold[h].state \in Books!Open /\ hold'[h].state = o
    BY SettledHold DEF Inv, TypeOK
<1>2. TypeOK'
    BY <1>1, CallTyped DEF Inv, RunUnchanged
<1>3. HoldsMove(w)
    BY <1>1 DEF HoldsMove, Books!Open, Books!Counted, Outcomes
<1>4. Accounts'
    BY <1>3, WorkerMoves DEF Inv
<1> QED
    BY <1>2, <1>4 DEF Inv

LEMMA MarkUncertainKeepsInv ==
    ASSUME Inv, NEW w \in Workers, MarkUncertain(w)
    PROVE  Inv'
<1> DEFINE c == [call[w] EXCEPT !.phase = "raising", !.final = TRUE]
           h == call[w].hold
<1>1. call[w].phase = "unresolved" /\ call[w] \in Call
    BY DEF MarkUncertain, At, Inv, TypeOK
<1>2. h \in Holds /\ bill[h] # "unsent"
    BY <1>1 DEF Inv, Accounts, WorkersKnow, Knows
<1>3. hold[h].amount \in Nat
    BY <1>2 DEF Inv, TypeOK, Books!TypeOK, Books!Hold
<1>4. c \in Call /\ c.phase = "raising"
    BY <1>1 DEF Call, Phases, Synchronous
<1> HIDE DEF c
<1>5. Become(w, c)
    BY DEF MarkUncertain, c
<1>6. call' \in [Workers -> Call] /\ OnlyMoves(w) /\ call'[w].phase = "raising"
    BY <1>4, <1>5, Becomes DEF Inv
<1>7. KeepsItsHold(w) /\ Knows(call[w])'
    BY <1>6, IdleKnows
<1>8. Books!Settle(h, "reconciling", hold[h].amount) /\ "reconciling" \in Outcomes
    BY DEF MarkUncertain, Outcomes
<1> QED
    BY <1>2, <1>3, <1>6, <1>7, <1>8, SettleStep DEF MarkUncertain

LEMMA TakeHoldKeepsInv ==
    ASSUME Inv, NEW w \in Workers, TakeHold(w)
    PROVE  Inv'
<1>1. PICK h \in Holds, a \in Amounts :
          /\ Books!Reserve(Owner, h, a)
          /\ Become(w, [call[w] EXCEPT !.phase = "holding", !.hold = h])
    BY DEF TakeHold
<1> DEFINE c == [call[w] EXCEPT !.phase = "holding", !.hold = h]
<1>2. call[w].phase = "dispatching" /\ call[w] \in Call
    BY DEF TakeHold, At, Inv, TypeOK
<1>3. call[w].next \in Ops
    BY <1>2 DEF Inv, Accounts, WorkersKnow, Knows, InCall
<1>4. /\ c \in Call /\ c.phase = "holding" /\ c.hold = h /\ c.next = call[w].next
    BY <1>2 DEF Call, Phases, Synchronous
<1> HIDE DEF c
<1>5. Become(w, c)
    BY <1>1 DEF c
<1>6. call' \in [Workers -> Call] /\ OnlyMoves(w) /\ call'[w] = c
    BY <1>4, <1>5, Becomes DEF Inv
<1>7. /\ Books!TypeOK'
      /\ \A g \in Holds : g # h => hold'[g] = hold[g]
      /\ hold[h].state = "none" /\ hold'[h].state = "reserved"
    BY <1>1, ReservedHold DEF Inv, TypeOK
<1>8. UNCHANGED <<op, bill>>
    BY DEF TakeHold
<1>9. bill[h] = "unsent"
    BY <1>7 DEF Inv, Accounts, UntakenIsUnsent
<1>10. TypeOK'
    BY <1>6, <1>7, CallTyped DEF Inv, TakeHold, RunUnchanged
<1>11. \A v \in Workers : call[v].phase \in Own \cup {"unresolved"} => call[v].hold # h
    BY <1>7 DEF Inv, Accounts, WorkersKnow, Knows
<1>12. \A v \in Workers : v # w => call'[v] = call[v]
    BY <1>6 DEF OnlyMoves
<1>13. WorkersKnow'
  <2> SUFFICES ASSUME NEW v \in Workers PROVE Knows(call[v])'
      BY DEF WorkersKnow
  <2>1. CASE v = w
      BY <2>1, <1>3, <1>4, <1>6, <1>7, <1>8, <1>9
         DEF Knows, InCall, Own, BeforeSend, AfterSend
  <2>2. CASE v # w
    <3>1. call'[v] = call[v] /\ Knows(call[v])
        BY <1>12, <2>2 DEF Inv, Accounts, WorkersKnow
    <3>2. call[v].phase \in Own \cup {"unresolved"} => hold'[call[v].hold] = hold[call[v].hold]
        BY <1>7, <1>11, <3>1 DEF Knows
    <3> QED
        BY <1>8, <3>1, <3>2 DEF Knows, InCall, Own
  <2> QED
      BY <2>1, <2>2
<1>14. HoldsAreOwn'
  <2> SUFFICES ASSUME NEW u \in Workers, NEW v \in Workers,
                      call'[u].phase \in Own, call'[v].phase \in Own,
                      call'[u].hold = call'[v].hold, u # v
               PROVE  FALSE
      BY DEF HoldsAreOwn
  <2>1. CASE u = w \/ v = w
      BY <2>1, <1>4, <1>6, <1>11, <1>12
  <2>2. CASE u # w /\ v # w
      BY <2>2, <1>12 DEF Inv, Accounts, HoldsAreOwn
  <2> QED
      BY <2>1, <2>2
<1>15. UntakenIsUnsent' /\ BilledIsCounted'
    BY <1>7, <1>8, <1>9 DEF Inv, Accounts, UntakenIsUnsent, BilledIsCounted
<1>16. DispatchesAreHeld'
    BY <1>8 DEF Inv, Accounts, DispatchesAreHeld
<1> QED
    BY <1>10, <1>13, <1>14, <1>15, <1>16 DEF Inv, Accounts

LEMMA RefuseHoldKeepsInv ==
    ASSUME Inv, NEW w \in Workers, RefuseHold(w)
    PROVE  Inv'
<1> DEFINE c == [call[w] EXCEPT !.phase = "raising", !.final = TRUE]
<1>1. c \in Call /\ c.phase = "raising"
    BY DEF Inv, TypeOK, Call, Phases, Synchronous
<1> HIDE DEF c
<1>2. Become(w, c)
    BY DEF RefuseHold, c
<1> QED
    BY <1>1, <1>2, Becomes, IdleKnows, QuietStep DEF Inv, RefuseHold

LEMMA RenewForDispatchKeepsInv ==
    ASSUME Inv, NEW w \in Workers, RenewForDispatch(w)
    PROVE  Inv'
<1>1. PICK p \in {"recording", "releasing"} : Goes(w, p)
    BY DEF RenewForDispatch
<1>2. p \in Phases
    BY DEF Phases, Synchronous
<1>3. /\ call' \in [Workers -> Call] /\ OnlyMoves(w) /\ call'[w].phase = p
      /\ call'[w].next = call[w].next /\ call'[w].hold = call[w].hold
    BY <1>1, <1>2, GoesOn DEF Inv
<1>4. call[w].phase = "holding" /\ Knows(call[w]) /\ OnlyCall /\ UNCHANGED <<hold, bill>>
    BY DEF RenewForDispatch, At, Inv, Accounts, WorkersKnow, OnlyCall, books
<1>5. KeepsItsHold(w) /\ Knows(call[w])'
    BY <1>3, <1>4 DEF KeepsItsHold, Knows, InCall, Own, BeforeSend, AfterSend
<1> QED
    BY <1>3, <1>4, <1>5, QuietStep

LEMMA ReleaseHoldKeepsInv ==
    ASSUME Inv, NEW w \in Workers, ReleaseHold(w)
    PROVE  Inv'
<1> DEFINE h == call[w].hold
<1>1. call[w].phase = "releasing" /\ Knows(call[w])
    BY DEF ReleaseHold, At, Inv, Accounts, WorkersKnow
<1>2. h \in Holds /\ bill[h] = "unsent" /\ call[w].phase \in BeforeSend
    BY <1>1 DEF Knows, Own, BeforeSend
<1>3. call' \in [Workers -> Call] /\ OnlyMoves(w) /\ call'[w].phase = "idle"
    BY IdleTyped, Becomes DEF Inv, ReleaseHold
<1>4. KeepsItsHold(w) /\ Knows(call[w])'
    BY <1>3, IdleKnows
<1>5. Books!Settle(h, "released", 0) /\ "released" \in Outcomes /\ 0 \in Nat
    BY DEF ReleaseHold, Outcomes
<1> QED
    BY <1>2, <1>3, <1>4, <1>5, SettleStep DEF ReleaseHold, BeforeSend

-----------------------------------------------------------------------------
(* The call itself: the bill of the worker's own hold changes.             *)

\* What is sent, answered or failed under w's own hold is no one else's affair.
\* Only the operation w has come to may become dispatched, and under that hold.
LEMMA BillStep ==
    ASSUME Inv, NEW w \in Workers, NEW b \in {"open", "billed", "free"},
           Billed(w, b), call[w].phase \in Own,
           call[w].phase = "recording" \/ bill[call[w].hold] = "open",
           RunUnchanged, UNCHANGED books, SameEnvironment,
           op' \in [Ops -> Operation],
           \A o \in Ops : op'[o].status = "dispatched" =>
                             op'[o] = op[o] \/ op'[o].attempt = call[w].hold,
           call' \in [Workers -> Call], OnlyMoves(w), KeepsItsHold(w), Knows(call[w])'
    PROVE  Inv'
<1> DEFINE h == call[w].hold
<1>1. h \in Holds /\ hold[h].state # "none"
    BY DEF Inv, Accounts, WorkersKnow, Knows
<1>2. /\ bill' \in [Holds -> {"unsent", "open", "billed", "free"}]
      /\ bill'[h] = b /\ b # "unsent"
      /\ \A g \in Holds : g # h => bill'[g] = bill[g]
    BY <1>1 DEF Billed, Inv, TypeOK
<1>3. UNCHANGED hold
    BY DEF books
<1>4. TypeOK'
    BY <1>2, BooksKept DEF Inv, TypeOK, RunUnchanged, SameEnvironment
<1>5. \A v \in Workers : v # w => call'[v] = call[v]
    BY DEF OnlyMoves
<1>6. WorkersKnow'
  <2> SUFFICES ASSUME NEW v \in Workers, v # w PROVE Knows(call[v])'
      BY DEF WorkersKnow
  <2>1. call'[v] = call[v] /\ Knows(call[v])
      BY <1>5 DEF Inv, Accounts, WorkersKnow
  <2>2. CASE call[v].phase \in Own
    <3>1. call[v].hold # h /\ call[v].hold \in Holds
        BY <2>1, <2>2 DEF Inv, Accounts, HoldsAreOwn, Knows
    <3> QED
        BY <1>2, <1>3, <2>1, <2>2, <3>1 DEF Knows, Own, BeforeSend, AfterSend
  <2>3. CASE call[v].phase \notin Own
      BY <1>2, <1>3, <2>1, <2>3 DEF Knows, Own, BeforeSend, AfterSend
  <2> QED
      BY <2>2, <2>3
<1>7. HoldsAreOwn'
    BY <1>5 DEF HoldsAreOwn, Inv, Accounts, KeepsItsHold
<1>8. UntakenIsUnsent'
    BY <1>1, <1>2, <1>3 DEF Inv, Accounts, UntakenIsUnsent
<1>9. DispatchesAreHeld'
    BY <1>1, <1>2 DEF Inv, Accounts, DispatchesAreHeld
<1>10. hold[h].state \in Books!Counted \/ hold[h].resolved
  <2>1. CASE call[w].phase = "recording"
      BY <2>1 DEF Inv, Accounts, WorkersKnow, Knows, BeforeSend, Books!Counted, Books!Open
  <2>2. CASE bill[h] = "open"
      BY <2>2, <1>1 DEF Inv, Accounts, BilledIsCounted
  <2> QED
      BY <2>1, <2>2
<1>11. BilledIsCounted'
    BY <1>2, <1>3, <1>10 DEF Inv, Accounts, BilledIsCounted
<1> QED
    BY <1>4, <1>6, <1>7, <1>8, <1>9, <1>11 DEF Inv, Accounts

LEMMA RecordDispatchKeepsInv ==
    ASSUME Inv, NEW w \in Workers, RecordDispatch(w)
    PROVE  Inv'
<1> DEFINE n == [status |-> "dispatched", attempt |-> call[w].hold]
<1>1. call[w].phase = "recording" /\ Knows(call[w])
    BY DEF RecordDispatch, At, Inv, Accounts, WorkersKnow
<1>2. call[w].next \in Ops /\ call[w].hold \in Holds /\ call[w].phase \in Own
    BY <1>1 DEF Knows, InCall, Own, BeforeSend
<1>3. n \in Operation /\ n.attempt = call[w].hold
    BY <1>2 DEF Operation, Statuses
<1> HIDE DEF n
<1>4. op' = [op EXCEPT ![call[w].next] = n]
    BY DEF RecordDispatch, n
<1>5. /\ op' \in [Ops -> Operation]
      /\ \A o \in Ops : op'[o] = op[o] \/ op'[o].attempt = call[w].hold
    BY <1>2, <1>3, <1>4 DEF Inv, TypeOK
<1>6. Billed(w, "open")
    BY DEF RecordDispatch, Billed
<1>7. /\ call' \in [Workers -> Call] /\ OnlyMoves(w) /\ call'[w].phase = "sent"
      /\ call'[w].hold = call[w].hold /\ call'[w].next = call[w].next
    BY GoesOn DEF Inv, RecordDispatch, Phases
<1>8. bill'[call[w].hold] = "open" /\ UNCHANGED hold
    BY <1>2, <1>6 DEF Billed, Inv, TypeOK, RecordDispatch, books
<1>9. KeepsItsHold(w) /\ Knows(call[w])'
    BY <1>1, <1>2, <1>7, <1>8 DEF KeepsItsHold, Knows, InCall, Own, BeforeSend, AfterSend
<1> QED
    BY <1>1, <1>2, <1>5, <1>6, <1>7, <1>9, BillStep DEF RecordDispatch

\* What Answer and FailCall have in common: the call comes to be c, billed at b.
LEMMA CallEnds ==
    ASSUME Inv, NEW w \in Workers, NEW b \in {"billed", "free", "open"}, NEW c \in Call,
           call[w].phase = "sent", Billed(w, b), Become(w, c),
           c.phase \in {"answered", "failing"}, c.hold = call[w].hold, c.next = call[w].next,
           c.outcome = "released" => b = "free",
           RunUnchanged, UNCHANGED <<op, books>>, SameEnvironment
    PROVE  Inv'
<1>1. Knows(call[w]) /\ call[w].phase \in Own
    BY DEF Inv, Accounts, WorkersKnow, Own
<1>2. bill[call[w].hold] = "open" /\ call[w].hold \in Holds
    BY <1>1 DEF Knows
<1>3. call' \in [Workers -> Call] /\ OnlyMoves(w) /\ call'[w] = c
    BY Becomes DEF Inv
<1>4. bill'[call[w].hold] = b /\ UNCHANGED hold
    BY <1>2 DEF Billed, Inv, TypeOK, books
<1>5. KeepsItsHold(w)
    BY <1>1, <1>3 DEF KeepsItsHold
<1>6. Knows(call[w])'
    BY <1>1, <1>3, <1>4 DEF Knows, InCall, Own, BeforeSend, AfterSend
<1>7. op' \in [Ops -> Operation] /\ \A o \in Ops : op'[o] = op[o]
    BY DEF Inv, TypeOK
<1> QED
    BY <1>1, <1>2, <1>3, <1>5, <1>6, <1>7, BillStep

LEMMA AnswerKeepsInv ==
    ASSUME Inv, NEW w \in Workers, Answer(w)
    PROVE  Inv'
<1>1. PICK r \in {"succeeded", "unusable"} :
          Become(w, [call[w] EXCEPT !.phase = "answered", !.result = r, !.outcome = "charged"])
    BY DEF Answer
<1> DEFINE c == [call[w] EXCEPT !.phase = "answered", !.result = r, !.outcome = "charged"]
<1>2. "answered" \in Phases /\ "charged" \in Outcomes
    BY DEF Phases, Synchronous, Outcomes
<1>3. /\ c \in Call /\ c.phase = "answered" /\ c.outcome = "charged"
      /\ c.hold = call[w].hold /\ c.next = call[w].next
    BY <1>2 DEF Inv, TypeOK, Call
<1> HIDE DEF c
<1>4. Become(w, c)
    BY <1>1 DEF c
<1> QED
    BY <1>3, <1>4, CallEnds DEF Answer, At

LEMMA FailCallKeepsInv ==
    ASSUME Inv, NEW w \in Workers, FailCall(w)
    PROVE  Inv'
<1>1. PICK b \in {"free", "billed", "open"} :
          /\ Billed(w, b)
          /\ Become(w, [call[w] EXCEPT !.phase = "failing", !.result = "failed",
                                       !.outcome = outcomeForBilling(b)])
    BY DEF FailCall
<1> DEFINE c == [call[w] EXCEPT !.phase = "failing", !.result = "failed",
                               !.outcome = outcomeForBilling(b)]
<1>2. /\ "failing" \in Phases /\ outcomeForBilling(b) \in Outcomes
      /\ outcomeForBilling(b) = "released" => b = "free"
    BY DEF Phases, Synchronous, Outcomes, outcomeForBilling
<1>3. /\ c \in Call /\ c.phase = "failing" /\ c.outcome = outcomeForBilling(b)
      /\ c.hold = call[w].hold /\ c.next = call[w].next
    BY <1>2 DEF Inv, TypeOK, Call
<1> HIDE DEF c
<1>4. Become(w, c)
    BY <1>1 DEF c
<1> QED
    BY <1>1, <1>2, <1>3, <1>4, CallEnds DEF FailCall, At

-----------------------------------------------------------------------------
(* After the call.                                                         *)

LEMMA SettleAnswerKeepsInv ==
    ASSUME Inv, NEW w \in Workers, SettleAnswer(w)
    PROVE  Inv'
<1>1. PICK a \in Amounts : Books!Settle(call[w].hold, "charged", a)
    BY DEF SettleAnswer
<1>2. call[w].phase = "answered" /\ Knows(call[w])
    BY DEF SettleAnswer, At, Inv, Accounts, WorkersKnow
<1>3. /\ call[w].hold \in Holds /\ bill[call[w].hold] # "unsent"
      /\ hold[call[w].hold].state # "none"
    BY <1>2 DEF Knows, Own, AfterSend
<1>4. /\ call' \in [Workers -> Call] /\ OnlyMoves(w) /\ call'[w].phase = "settled"
      /\ call'[w].hold = call[w].hold /\ call'[w].next = call[w].next
      /\ call'[w].outcome = call[w].outcome
    BY GoesOn DEF Inv, SettleAnswer, Phases, Synchronous
<1>5. a \in Nat /\ "charged" \in Outcomes
    BY CallsAssumption DEF Outcomes
<1>6. hold'[call[w].hold].state # "none"
    BY <1>1, <1>3, <1>5, SettledHold DEF Inv, TypeOK
<1>7. KeepsItsHold(w) /\ Knows(call[w])'
    BY <1>2, <1>3, <1>4, <1>6
       DEF SettleAnswer, KeepsItsHold, Knows, InCall, Own, BeforeSend, AfterSend
<1> QED
    BY <1>1, <1>3, <1>4, <1>5, <1>7, SettleStep DEF SettleAnswer

LEMMA Stored ==
    ASSUME Inv, NEW w \in Workers, call[w].phase \in {"settled", "failing", "storing"}
    PROVE  /\ AfterStoring(w) \in Call
           /\ AfterStoring(w).phase \in {"ready", "raising", "unsettled"}
           /\ AfterStoring(w).epoch = call[w].epoch
           /\ AfterStoring(w).phase = "unsettled" =>
                 /\ AfterStoring(w).hold = call[w].hold
                 /\ AfterStoring(w).next = call[w].next
                 /\ AfterStoring(w).outcome = call[w].outcome
<1>1. call[w] \in Call /\ call[w].next \in Ops
    BY DEF Inv, TypeOK, Accounts, WorkersKnow, Knows, InCall, Own, AfterSend
<1>2. {"ready", "raising", "unsettled"} \subseteq Phases
    BY DEF Phases, Synchronous
<1>3. call[w].next + 1 \in 1..NumOps + 1
    BY <1>1, CallsAssumption DEF Ops
<1>4. CASE call[w].result = "succeeded"
  <2> DEFINE c == [call[w] EXCEPT !.phase = "ready", !.next = @ + 1]
  <2>1. c \in Call /\ c.phase = "ready" /\ c.epoch = call[w].epoch
      BY <1>1, <1>2, <1>3 DEF Call
  <2> HIDE DEF c
  <2>2. AfterStoring(w) = c
      BY <1>4 DEF AfterStoring, c
  <2> QED
      BY <2>1, <2>2
<1>5. CASE call[w].result \in {"unusable", "failed"}
  <2>1. PICK p \in {"raising", "unsettled"} :
            AfterStoring(w) = [call[w] EXCEPT !.phase = p]
      BY <1>5 DEF AfterStoring
  <2> QED
      BY <1>1, <1>2, <2>1 DEF Call
<1> QED
    BY <1>1, <1>4, <1>5 DEF Call

\* The result is stored, or its write refused.
LEMMA AfterStoringKeeps ==
    ASSUME Inv, NEW w \in Workers, call[w].phase \in {"settled", "failing", "storing"},
           Become(w, AfterStoring(w)), UNCHANGED <<hold, bill>>
    PROVE  /\ call' \in [Workers -> Call] /\ OnlyMoves(w)
           /\ KeepsItsHold(w) /\ Knows(call[w])'
<1>1. call' \in [Workers -> Call] /\ OnlyMoves(w) /\ call'[w] = AfterStoring(w)
    BY Stored, Becomes DEF Inv
<1>2. Knows(call[w]) /\ call[w].phase \in AfterSend
    BY DEF Inv, Accounts, WorkersKnow, AfterSend
<1>3. CASE AfterStoring(w).phase = "unsettled"
    BY <1>1, <1>2, <1>3, Stored DEF KeepsItsHold, Knows, InCall, Own, BeforeSend, AfterSend
<1>4. CASE AfterStoring(w).phase \in {"ready", "raising"}
    BY <1>1, <1>4, IdleKnows
<1> QED
    BY <1>1, <1>3, <1>4, Stored

LEMMA RenewForResultKeepsInv ==
    ASSUME Inv, NEW w \in Workers, RenewForResult(w)
    PROVE  Inv'
<1>1. call[w].phase \in {"settled", "failing"} /\ Knows(call[w])
    BY DEF RenewForResult, At, Inv, Accounts, WorkersKnow
<1>2. OnlyCall /\ UNCHANGED <<hold, bill>>
    BY DEF RenewForResult, OnlyCall, books
<1>3. CASE Goes(w, "storing")
  <2>1. /\ call' \in [Workers -> Call] /\ OnlyMoves(w) /\ call'[w].phase = "storing"
        /\ call'[w].hold = call[w].hold /\ call'[w].next = call[w].next
        /\ call'[w].outcome = call[w].outcome
      BY <1>3, GoesOn DEF Inv, Phases, Synchronous
  <2>2. KeepsItsHold(w) /\ Knows(call[w])'
      BY <1>1, <1>2, <2>1 DEF KeepsItsHold, Knows, InCall, Own, BeforeSend, AfterSend
  <2> QED
      BY <1>2, <2>1, <2>2, QuietStep
<1>4. CASE Become(w, AfterStoring(w))
    BY <1>1, <1>2, <1>4, AfterStoringKeeps, QuietStep
<1> QED
    BY <1>3, <1>4 DEF RenewForResult

LEMMA StoreResultKeepsInv ==
    ASSUME Inv, NEW w \in Workers, StoreResult(w)
    PROVE  Inv'
<1> DEFINE o == op[call[w].next]
           n == IF o.status = "none" THEN o ELSE [o EXCEPT !.status = call[w].result]
<1>1. call[w].phase = "storing" /\ call[w].next \in Ops /\ call[w] \in Call
    BY DEF StoreResult, At, Inv, TypeOK, Accounts, WorkersKnow, Knows, InCall, Own, AfterSend
<1>2. n \in Operation /\ n.status # "dispatched"
    BY <1>1 DEF Inv, TypeOK, Operation, Statuses, Call
<1> HIDE DEF n
<1>3. op' = [op EXCEPT ![call[w].next] = n]
    BY DEF StoreResult, n
<1>4. /\ op' \in [Ops -> Operation]
      /\ \A p \in Ops : op'[p].status = "dispatched" => op'[p] = op[p]
    BY <1>1, <1>2, <1>3 DEF Inv, TypeOK
<1>5. UNCHANGED <<hold, bill>>
    BY DEF StoreResult, books
<1>6. /\ call' \in [Workers -> Call] /\ OnlyMoves(w)
      /\ KeepsItsHold(w) /\ Knows(call[w])'
    BY <1>1, <1>5, AfterStoringKeeps DEF StoreResult
<1>7. TypeOK'
    BY <1>4, <1>5, <1>6, BooksKept DEF Inv, TypeOK, StoreResult, RunUnchanged, SameEnvironment
<1>8. HoldsMove(w)
    BY <1>5 DEF HoldsMove
<1>9. Accounts'
    BY <1>4, <1>5, <1>6, <1>8, WorkerMoves DEF Inv
<1> QED
    BY <1>7, <1>9 DEF Inv

LEMMA SettleFailureKeepsInv ==
    ASSUME Inv, NEW w \in Workers, SettleFailure(w)
    PROVE  Inv'
<1> DEFINE h == call[w].hold
<1>1. call[w].phase = "unsettled" /\ Knows(call[w]) /\ call[w].outcome \in Outcomes
    BY DEF SettleFailure, At, Inv, Accounts, WorkersKnow, TypeOK, Call
<1>2. /\ h \in Holds /\ bill[h] # "unsent"
      /\ call[w].outcome = "released" => bill[h] = "free"
    BY <1>1 DEF Knows, Own, AfterSend
<1>3. hold[h].amount \in Nat /\ Amounts \subseteq Nat
    BY <1>2, CallsAssumption DEF Inv, TypeOK, Books!TypeOK, Books!Hold
<1>4. PICK a \in Nat : Books!Settle(h, call[w].outcome, a)
    BY <1>1, <1>3 DEF SettleFailure, Outcomes
<1>5. /\ call' \in [Workers -> Call] /\ OnlyMoves(w) /\ call'[w].phase = "raising"
    BY GoesOn DEF Inv, SettleFailure, Phases, Synchronous
<1>6. KeepsItsHold(w) /\ Knows(call[w])'
    BY <1>5, IdleKnows
<1> QED
    BY <1>1, <1>2, <1>4, <1>5, <1>6, SettleStep DEF SettleFailure

-----------------------------------------------------------------------------
(* The end of an attempt, the owner, time and faults.                      *)

\* A step that leaves calls, bills and holds alone, and dispatches nothing.
LEMMA OutsideMoves ==
    ASSUME Inv, UNCHANGED <<call, bill, hold>>,
           \A o \in Ops : op'[o].status = "dispatched" => op'[o] = op[o]
    PROVE  Accounts'
BY DEF Inv, Accounts, WorkersKnow, Knows, HoldsAreOwn, UntakenIsUnsent, DispatchesAreHeld,
       BilledIsCounted

LEMMA EndAttemptKeepsInv ==
    ASSUME Inv, NEW w \in Workers, EndAttempt(w)
    PROVE  Inv'
<1>1. call' \in [Workers -> Call] /\ OnlyMoves(w) /\ call'[w].phase = "idle"
    BY IdleTyped, Becomes DEF Inv, EndAttempt
<1>2. life' \in [{Run} -> Life!Life]
    BY LifeTyped DEF Inv, EndAttempt, TypeOK
<1>3. Gate(w) \in BOOLEAN /\ live' \in BOOLEAN
    BY DEF EndAttempt, Gate, Held, Inv, TypeOK
<1>4. TypeOK'
    BY <1>1, <1>2, <1>3, BooksKept DEF Inv, TypeOK, EndAttempt, SameEnvironment
<1>5. HoldsMove(w)
    BY DEF HoldsMove, EndAttempt, books
<1>6. Accounts'
    BY <1>1, <1>5, IdleKnows, WorkerMoves DEF Inv, EndAttempt
<1> QED
    BY <1>4, <1>6 DEF Inv

LEMMA PublishKeepsInv ==
    ASSUME Inv, NEW w \in Workers, Publish(w)
    PROVE  Inv'
<1>1. call' \in [Workers -> Call] /\ OnlyMoves(w) /\ call'[w].phase = "idle"
    BY IdleTyped, Becomes DEF Inv, Publish
<1>2. life' \in [{Run} -> Life!Life] /\ live' \in BOOLEAN
    BY LifeTyped DEF Inv, Publish, TypeOK, RunUnchanged
<1>3. NoOperation \in Operation /\ NoOperation.status = "none"
    BY DEF NoOperation, Operation, Statuses
<1>4. /\ op' \in [Ops -> Operation]
      /\ \A o \in Ops : op'[o].status = "dispatched" => op'[o] = op[o]
    BY <1>3 DEF Publish, Inv, TypeOK
<1>5. TypeOK'
    BY <1>1, <1>2, <1>4, BooksKept DEF Inv, TypeOK, Publish, SameEnvironment
<1>6. HoldsMove(w) /\ UNCHANGED bill
    BY DEF HoldsMove, Publish, books
<1>7. Accounts'
    BY <1>1, <1>4, <1>6, IdleKnows, WorkerMoves DEF Inv
<1> QED
    BY <1>5, <1>7 DEF Inv

\* Recover, Submit, StopRun, Resume and Lapse: the run moves, or its lease ends.
LEMMA RunStepKeepsInv ==
    ASSUME Inv, \/ \E w \in Workers : Recover(w)
                \/ Submit \/ StopRun \/ Resume \/ Lapse
    PROVE  Inv'
<1>1. life' \in [{Run} -> Life!Life]
    BY LifeTyped DEF Inv, Recover, Submit, StopRun, Resume, Lapse, TypeOK
<1>2. UNCHANGED <<op, call, bill, books>> /\ live' \in BOOLEAN
    BY DEF Recover, Submit, StopRun, Resume, Lapse, OnlyRun, Inv, TypeOK
<1>3. accepted' \subseteq Holds
  <2>1. \A o \in Unresolved : op[o].attempt \in Holds
      BY DEF Unresolved, Inv, Accounts, DispatchesAreHeld
  <2> QED
      BY <2>1 DEF Recover, Submit, StopRun, Resume, Lapse, OnlyRun, SameEnvironment,
                  Inv, TypeOK
<1>4. resuming' \in BOOLEAN
    BY DEF Recover, Submit, StopRun, Resume, Lapse, SameEnvironment, Inv, TypeOK
<1>5. requests' \in Nat
  <2>1. CASE OwnerAsks
      BY <2>1 DEF OwnerAsks, Inv, TypeOK
  <2>2. CASE ~OwnerAsks
      BY <2>2 DEF Recover, Submit, StopRun, Resume, Lapse, SameEnvironment, Inv, TypeOK
  <2> QED
      BY <2>1, <2>2
<1>6. faults' \in [lapse : Nat, crash : Nat]
  <2>1. CASE Lapse
      BY <2>1 DEF Lapse, Inv, TypeOK
  <2>2. CASE ~Lapse
      BY <2>2 DEF Recover, Submit, StopRun, Resume, OnlyRun, SameEnvironment, Inv, TypeOK
  <2> QED
      BY <2>1, <2>2
<1>7. TypeOK'
    BY <1>1, <1>2, <1>3, <1>4, <1>5, <1>6, BooksKept DEF Inv, TypeOK
<1>8. Accounts'
    BY <1>2, OutsideMoves DEF books
<1> QED
    BY <1>7, <1>8 DEF Inv

LEMMA SupersedeKeepsInv ==
    ASSUME Inv, Supersede
    PROVE  Inv'
<1>1. /\ op' \in [Ops -> Operation]
      /\ \A o \in Ops : op'[o].status = "dispatched" => op'[o] = op[o]
  <2> SUFFICES ASSUME NEW o \in Ops
               PROVE  /\ op'[o] \in Operation
                      /\ op'[o].status = "dispatched" => op'[o] = op[o]
      BY DEF Supersede
  <2>1. op[o] \in Operation
      BY DEF Inv, TypeOK
  <2>2. [op[o] EXCEPT !.status = "superseded"] \in Operation
      BY <2>1 DEF Operation, Statuses
  <2>3. op'[o] = IF o \in Unresolved THEN [op[o] EXCEPT !.status = "superseded"] ELSE op[o]
      BY DEF Supersede
  <2> QED
      BY <2>1, <2>2, <2>3 DEF Operation
<1>2. TypeOK'
    BY <1>1, BooksKept DEF Inv, TypeOK, Supersede, RunUnchanged
<1>3. Accounts'
    BY <1>1, OutsideMoves DEF Supersede, books
<1> QED
    BY <1>2, <1>3 DEF Inv

\* A person settles an uncertain charge; one that is released is resolved by them.
LEMMA ReconcileKeepsInv ==
    ASSUME Inv, Reconcile
    PROVE  Inv'
<1>1. PICK h \in Holds, o \in {"charged", "released"}, a \in Nat : Books!Reconcile(h, o, a)
    BY CallsAssumption DEF Reconcile
<1>2. hold[h].state = "reconciling" /\ o \in Outcomes
    BY <1>1 DEF Books!Reconcile, Outcomes
<1>3. /\ Books!TypeOK'
      /\ \A g \in Holds : g # h => hold'[g] = hold[g]
      /\ hold'[h].state = o /\ hold'[h].resolved = TRUE
    BY <1>1, <1>2, SettledOpen DEF Books!Reconcile, Inv, TypeOK
<1>4. TypeOK'
    BY <1>3 DEF Inv, TypeOK, Reconcile, RunUnchanged, SameEnvironment
<1>5. UNCHANGED <<op, call, bill>>
    BY DEF Reconcile
<1>6. WorkersKnow'
  <2> SUFFICES ASSUME NEW w \in Workers PROVE Knows(call[w])'
      BY DEF WorkersKnow
  <2>1. Knows(call[w])
      BY DEF Inv, Accounts, WorkersKnow
  <2>2. CASE call[w].phase \in BeforeSend
    <3>1. call[w].hold \in Holds /\ call[w].hold # h
        BY <1>2, <2>1, <2>2 DEF Knows, Own
    <3> QED
        BY <1>3, <1>5, <2>1, <3>1 DEF Knows, InCall, Own
  <2>3. CASE call[w].phase \notin BeforeSend
      BY <1>2, <1>3, <1>5, <2>1, <2>3 DEF Knows, Outcomes
  <2> QED
      BY <2>2, <2>3
<1>7. HoldsAreOwn' /\ DispatchesAreHeld'
    BY <1>5 DEF Inv, Accounts, HoldsAreOwn, DispatchesAreHeld
<1>8. UntakenIsUnsent' /\ BilledIsCounted'
    BY <1>2, <1>3, <1>5 DEF Inv, Accounts, UntakenIsUnsent, BilledIsCounted, Outcomes
<1> QED
    BY <1>4, <1>6, <1>7, <1>8 DEF Inv, Accounts

LEMMA FaultKeepsInv ==
    ASSUME Inv, CrashApi \/ \E w \in Workers : Crash(w) \/ Restart(w)
    PROVE  Inv'
<1>1. CASE CrashApi
  <2>1. resuming' \in BOOLEAN /\ faults' \in [lapse : Nat, crash : Nat]
    <3>1. resuming' \in BOOLEAN
        BY <1>1 DEF CrashApi
    <3>2. faults' \in [lapse : Nat, crash : Nat]
        BY <1>1 DEF CrashApi, Inv, TypeOK
    <3> QED
        BY <3>1, <3>2
  <2>2. TypeOK'
      BY <1>1, <2>1, BooksKept DEF CrashApi, Inv, TypeOK, RunUnchanged
  <2>3. Accounts'
      BY <1>1, OutsideMoves DEF CrashApi, books
  <2> QED
      BY <2>2, <2>3 DEF Inv
<1>2. ASSUME NEW w \in Workers, Crash(w) PROVE Inv'
  <2> DEFINE c == [Idle EXCEPT !.phase = "down"]
  <2>1. c \in Call /\ c.phase = "down"
      BY IdleTyped DEF Call, Phases
  <2> HIDE DEF c
  <2>2. Become(w, c)
      BY <1>2 DEF Crash, c
  <2>3. call' \in [Workers -> Call] /\ OnlyMoves(w) /\ call'[w].phase = "down"
      BY <2>1, <2>2, Becomes DEF Inv
  <2>4. resuming' \in BOOLEAN /\ faults' \in [lapse : Nat, crash : Nat]
      BY <1>2 DEF Crash, Inv, TypeOK
  <2>5. TypeOK'
      BY <1>2, <2>3, <2>4, BooksKept DEF Crash, Inv, TypeOK, RunUnchanged
  <2>6. HoldsMove(w)
      BY <1>2 DEF HoldsMove, Crash, books
  <2>7. Accounts'
      BY <1>2, <2>3, <2>6, IdleKnows, WorkerMoves DEF Inv, Crash
  <2> QED
      BY <2>5, <2>7 DEF Inv
<1>3. ASSUME NEW w \in Workers, Restart(w) PROVE Inv'
    BY <1>3, IdleTyped, IdleKnows, Becomes, QuietStep DEF Restart, Inv
<1> QED
    BY <1>1, <1>2, <1>3

LEMMA NextInv == Inv /\ [Next]_vars => Inv'
<1> SUFFICES ASSUME Inv, [Next]_vars PROVE Inv'
    OBVIOUS
<1>1. ASSUME NEW w \in Workers, MakeCall(w) PROVE Inv'
    BY <1>1, DecideKeepsInv, MarkUncertainKeepsInv, TakeHoldKeepsInv, RefuseHoldKeepsInv,
       RenewForDispatchKeepsInv, RecordDispatchKeepsInv, ReleaseHoldKeepsInv,
       AnswerKeepsInv, FailCallKeepsInv, SettleAnswerKeepsInv, RenewForResultKeepsInv,
       StoreResultKeepsInv, SettleFailureKeepsInv DEF MakeCall
<1>2. ASSUME NEW w \in Workers, ClaimRun(w) \/ EndAttempt(w) \/ Publish(w) PROVE Inv'
    BY <1>2, ClaimRunKeepsInv, EndAttemptKeepsInv, PublishKeepsInv
<1>3. CASE (\E w \in Workers : Recover(w)) \/ Submit \/ StopRun \/ Resume \/ Lapse
    BY <1>3, RunStepKeepsInv
<1>4. CASE Supersede \/ Reconcile
    BY <1>4, SupersedeKeepsInv, ReconcileKeepsInv
<1>5. CASE CrashApi \/ \E w \in Workers : Crash(w) \/ Restart(w)
    BY <1>5, FaultKeepsInv
<1>6. CASE UNCHANGED vars
  <2>1. TypeOK'
      BY <1>6, BooksKept DEF vars, Inv, TypeOK
  <2>2. Accounts'
      BY <1>6, OutsideMoves DEF vars, books
  <2> QED
      BY <2>1, <2>2 DEF Inv
<1> QED
    BY <1>1, <1>2, <1>3, <1>4, <1>5, <1>6 DEF Next

\* The invariant of every behaviour.
LEMMA SpecInv == Spec => []Inv
BY InitInv, NextInv, PTL DEF Spec

\* Every step leaves the rows, the calls and the books within their types.
THEOREM SpecTypeOK == Spec => []TypeOK
<1>1. Inv => TypeOK
    BY DEF Inv
<1> QED
    BY <1>1, SpecInv, PTL

\* Whatever crashes, lost leases, resumes and retries a run goes through, a request
\* that has been billed, or may be, counts against the caps until a person has
\* settled it.
THEOREM SpecBilledIsCounted == Spec => []BilledIsCounted
<1>1. Inv => BilledIsCounted
    BY DEF Inv, Accounts
<1> QED
    BY <1>1, SpecInv, PTL

-----------------------------------------------------------------------------
(* Money moves as Budget says.                                             *)

LEMMA SettleIsBudgets ==
    ASSUME NEW h \in Holds, NEW o \in Outcomes, NEW a,
           hold[h].state # "none", Books!Settle(h, o, a),
           \/ o = "charged" /\ a \in Amounts
           \/ o = "released" /\ a = 0
           \/ o = "reconciling" /\ a = hold[h].amount
    PROVE  Books!Next
<1>1. Books!SettleCall(h)
    BY DEF Books!SettleCall
<1> QED
    BY <1>1 DEF Books!Next

LEMMA CallMovesMoney ==
    ASSUME Inv, NEW w \in Workers, MakeCall(w)
    PROVE  Books!Next \/ UNCHANGED books
<1> DEFINE h == call[w].hold
<1>1. CASE MarkUncertain(w) \/ ReleaseHold(w) \/ SettleAnswer(w) \/ SettleFailure(w)
  <2>1. call[w].phase \in Own \cup {"unresolved"}
      BY <1>1 DEF MarkUncertain, ReleaseHold, SettleAnswer, SettleFailure, At,
                  Own, BeforeSend, AfterSend
  <2>2. h \in Holds /\ hold[h].state # "none"
      BY <2>1 DEF Inv, Accounts, WorkersKnow, Knows
  <2>3. CASE MarkUncertain(w)
      BY <2>2, <2>3, SettleIsBudgets DEF MarkUncertain, Outcomes
  <2>4. CASE ReleaseHold(w)
      BY <2>2, <2>4, SettleIsBudgets DEF ReleaseHold, Outcomes
  <2>5. CASE SettleAnswer(w)
    <3>1. PICK a \in Amounts : Books!Settle(h, "charged", a)
        BY <2>5 DEF SettleAnswer
    <3> QED
        BY <2>2, <3>1, SettleIsBudgets DEF Outcomes
  <2>6. CASE SettleFailure(w)
    <3>1. call[w].outcome \in Outcomes
        BY DEF Inv, TypeOK, Call
    <3>2. PICK a \in CASE call[w].outcome = "charged"     -> Amounts
                        [] call[w].outcome = "released"    -> {0}
                        [] call[w].outcome = "reconciling" -> {hold[h].amount} :
                  Books!Settle(h, call[w].outcome, a)
        BY <2>6 DEF SettleFailure
    <3>3. \/ call[w].outcome = "charged" /\ a \in Amounts
          \/ call[w].outcome = "released" /\ a = 0
          \/ call[w].outcome = "reconciling" /\ a = hold[h].amount
        BY <3>1, <3>2 DEF Outcomes
    <3> QED
        BY <2>2, <3>1, <3>2, <3>3, SettleIsBudgets
  <2> QED
      BY <1>1, <2>3, <2>4, <2>5, <2>6
<1>2. CASE TakeHold(w)
    BY <1>2 DEF TakeHold, Books!Next
<1>3. CASE ~(MarkUncertain(w) \/ ReleaseHold(w) \/ SettleAnswer(w) \/ SettleFailure(w)
             \/ TakeHold(w))
    BY <1>3 DEF MakeCall, Decide, RefuseHold, RenewForDispatch, RecordDispatch, Answer,
                FailCall, RenewForResult, StoreResult, OnlyCall
<1> QED
    BY <1>1, <1>2, <1>3

LEMMA StepKeepsTheBooks == Inv /\ [Next]_vars => [Books!Next]_(Books!vars)
<1> SUFFICES ASSUME Inv, [Next]_vars PROVE Books!Next \/ UNCHANGED books
    BY DEF books, Books!vars
<1>1. ASSUME NEW w \in Workers, MakeCall(w) PROVE Books!Next \/ UNCHANGED books
    BY <1>1, CallMovesMoney
<1>2. CASE Reconcile
  <2>1. PICK h \in Holds : \/ \E a \in Amounts : Books!Reconcile(h, "charged", a)
                           \/ Books!Reconcile(h, "released", 0)
      BY <1>2 DEF Reconcile
  <2>2. CASE \E a \in Amounts : Books!Reconcile(h, "charged", a)
      BY <2>2 DEF Books!Next
  <2>3. CASE Books!Reconcile(h, "released", 0)
    <3>1. PICK a \in Amounts : TRUE
        BY CallsAssumption
    <3>2. Books!Reconcile(h, "released", a)
        BY <2>3 DEF Books!Reconcile, Books!SettleOpen, Books!Owed
    <3> QED
        BY <3>2 DEF Books!Next
  <2> QED
      BY <2>1, <2>2, <2>3
<1>3. CASE (\E w \in Workers : ClaimRun(w) \/ EndAttempt(w) \/ Publish(w) \/ Recover(w))
           \/ Submit \/ StopRun \/ Resume \/ Supersede \/ Lapse \/ CrashApi
           \/ \E w \in Workers : Crash(w) \/ Restart(w)
    BY <1>3 DEF ClaimRun, EndAttempt, Publish, Recover, Submit, StopRun, Resume, Supersede,
                Lapse, CrashApi, Crash, Restart, OnlyRun, OnlyCall
<1>4. CASE UNCHANGED vars
    BY <1>4 DEF vars
<1> QED
    BY <1>1, <1>2, <1>3, <1>4 DEF Next

\* Whatever the calls of a run do with money is what Budget allows, so what is proved
\* of Budget holds while they are made.
THEOREM SpecKeepsTheBooks == Spec => KeepsTheBooks
<1>1. Init => Books!Init
    BY DEF Init
<1> QED
    BY <1>1, SpecInv, StepKeepsTheBooks, PTL DEF Spec, KeepsTheBooks, Books!Spec

-----------------------------------------------------------------------------
(* How a call goes on.                                                     *)

\* From step p of a call to step q of the same call.
GoesFrom(w, p, q) == /\ call[w].phase = p /\ call'[w].phase = q
                     /\ call'[w].next = call[w].next /\ call'[w].epoch = call[w].epoch

\* The order of attempt's steps, and what two of them require.
NextStep(w) ==
    \/ call'[w].phase \notin InCall /\ call'[w].epoch \in {call[w].epoch, 0}
    \/ /\ GoesFrom(w, "ready", "dispatching")
       /\ Gate(w) /\ op[call[w].next].status \notin {"succeeded", "dispatched"}
    \/ /\ GoesFrom(w, "ready", "unresolved")
       /\ op[call[w].next].status = "dispatched"
    \/ GoesFrom(w, "dispatching", "holding")
    \/ GoesFrom(w, "holding", "recording") /\ Gate(w)
    \/ GoesFrom(w, "holding", "releasing")
    \/ GoesFrom(w, "recording", "sent")
    \/ GoesFrom(w, "sent", "answered") \/ GoesFrom(w, "sent", "failing")
    \/ GoesFrom(w, "answered", "settled")
    \/ (GoesFrom(w, "settled", "storing") \/ GoesFrom(w, "failing", "storing")) /\ Gate(w)
    \/ /\ call[w].phase \in AfterSend /\ call'[w].phase = "unsettled"
       /\ call'[w].epoch = call[w].epoch

\* The steps of attempt take it from one step to the next.
LEMMA CallGoesOn ==
    ASSUME Inv, NEW w \in Workers, MakeCall(w)
    PROVE  NextStep(w) /\ OnlyMoves(w)
<1> USE DEF Inv
<1>1. call[w] \in Call
    BY DEF TypeOK
<1>2. {"dispatching", "unresolved", "holding", "recording", "releasing", "sent", "answered",
       "failing", "settled", "storing", "unsettled", "raising"} \subseteq Phases
    BY DEF Phases, Synchronous
<1>3. \A p \in {"idle", "ready", "raising"} : p \notin InCall
    BY DEF InCall, Own, BeforeSend, AfterSend
<1>4. CASE Decide(w)
  <2> DEFINE o == op[call[w].next]
  <2>1. CASE Become(w, Idle)
      BY <1>3, <2>1, IdleTyped, Becomes DEF NextStep, Idle
  <2>2. CASE Become(w, [call[w] EXCEPT !.next = @ + 1])
    <3> DEFINE c == [call[w] EXCEPT !.next = @ + 1]
    <3>1. call[w].next + 1 \in 1..NumOps + 1
        BY <1>4, CallsAssumption DEF Decide, Ops
    <3>2. c \in Call /\ c.phase = "ready" /\ c.epoch = call[w].epoch
        BY <1>1, <1>4, <3>1 DEF Call, Decide, At
    <3> HIDE DEF c
    <3>3. Become(w, c)
        BY <2>2 DEF c
    <3> QED
        BY <1>3, <3>2, <3>3, Becomes DEF NextStep
  <2>3. CASE /\ o.status = "dispatched"
             /\ Become(w, [call[w] EXCEPT !.phase = "unresolved", !.hold = o.attempt])
    <3> DEFINE c == [call[w] EXCEPT !.phase = "unresolved", !.hold = o.attempt]
    <3>1. o.attempt \in Holds \cup {NoAttempt}
        BY <1>4 DEF Decide, TypeOK, Operation
    <3>2. c \in Call /\ c.phase = "unresolved" /\ c.next = call[w].next /\ c.epoch = call[w].epoch
        BY <1>1, <1>2, <3>1 DEF Call
    <3> HIDE DEF c
    <3>3. Become(w, c)
        BY <2>3 DEF c
    <3> QED
        BY <1>4, <2>3, <3>2, <3>3, Becomes DEF NextStep, GoesFrom, Decide, At
  <2>4. CASE /\ Gate(w) /\ o.status \notin {"succeeded", "dispatched"}
             /\ Goes(w, "dispatching")
      BY <1>2, <1>4, <2>4, GoesOn DEF NextStep, GoesFrom, Decide, At
  <2> QED
      BY <1>4, <2>1, <2>2, <2>3, <2>4 DEF Decide
<1>5. CASE TakeHold(w)
  <2>1. PICK h \in Holds : Become(w, [call[w] EXCEPT !.phase = "holding", !.hold = h])
      BY <1>5 DEF TakeHold
  <2> DEFINE c == [call[w] EXCEPT !.phase = "holding", !.hold = h]
  <2>2. c \in Call /\ c.phase = "holding" /\ c.next = call[w].next /\ c.epoch = call[w].epoch
      BY <1>1, <1>2 DEF Call
  <2> HIDE DEF c
  <2>3. Become(w, c)
      BY <2>1 DEF c
  <2> QED
      BY <1>5, <2>2, <2>3, Becomes DEF NextStep, GoesFrom, TakeHold, At
<1>6. CASE RenewForDispatch(w)
    BY <1>2, <1>6, GoesOn DEF RenewForDispatch, At, NextStep, GoesFrom
<1>7. CASE RecordDispatch(w)
    BY <1>2, <1>7, GoesOn DEF RecordDispatch, At, NextStep, GoesFrom
<1>8. CASE Answer(w) \/ FailCall(w)
  <2>1. PICK p \in {"answered", "failing"}, r \in {"succeeded", "unusable", "failed"},
             o \in Outcomes :
            Become(w, [call[w] EXCEPT !.phase = p, !.result = r, !.outcome = o])
      BY <1>8 DEF Answer, FailCall, outcomeForBilling, Outcomes
  <2> DEFINE c == [call[w] EXCEPT !.phase = p, !.result = r, !.outcome = o]
  <2>2. c \in Call /\ c.phase = p /\ c.next = call[w].next /\ c.epoch = call[w].epoch
      BY <1>1, <1>2 DEF Call
  <2> HIDE DEF c
  <2>3. Become(w, c)
      BY <2>1 DEF c
  <2> QED
      BY <1>8, <2>2, <2>3, Becomes DEF NextStep, GoesFrom, Answer, FailCall, At
<1>9. CASE SettleAnswer(w)
    BY <1>2, <1>9, GoesOn DEF SettleAnswer, At, NextStep, GoesFrom
<1>10. CASE RenewForResult(w) \/ StoreResult(w)
  <2>1. call[w].phase \in {"settled", "failing", "storing"}
      BY <1>10 DEF RenewForResult, StoreResult, At
  <2>2. CASE Become(w, AfterStoring(w))
      BY <1>3, <2>1, <2>2, Stored, Becomes DEF NextStep, AfterSend
  <2>3. CASE RenewForResult(w) /\ Gate(w) /\ Goes(w, "storing")
      BY <1>2, <2>3, GoesOn DEF RenewForResult, At, NextStep, GoesFrom
  <2> QED
      BY <1>10, <2>2, <2>3 DEF RenewForResult, StoreResult
<1>11. CASE MarkUncertain(w) \/ RefuseHold(w)
  <2> DEFINE c == [call[w] EXCEPT !.phase = "raising", !.final = TRUE]
  <2>1. c \in Call /\ c.phase = "raising" /\ c.epoch = call[w].epoch
      BY <1>1, <1>2 DEF Call
  <2> HIDE DEF c
  <2>2. Become(w, c)
      BY <1>11 DEF MarkUncertain, RefuseHold, c
  <2> QED
      BY <1>3, <2>1, <2>2, Becomes DEF NextStep
<1>12. CASE ReleaseHold(w)
    BY <1>3, <1>12, IdleTyped, Becomes DEF ReleaseHold, NextStep, Idle
<1>13. CASE SettleFailure(w)
    BY <1>2, <1>3, <1>13, GoesOn DEF SettleFailure, NextStep
<1> QED
    BY <1>4, <1>5, <1>6, <1>7, <1>8, <1>9, <1>10, <1>11, <1>12, <1>13 DEF MakeCall

\* What w writes of the operation it has come to: that its request goes out, or
\* what became of it.
WritesOp(w) ==
    /\ call[w].next \in Ops
    /\ \A o \in Ops : o # call[w].next => op'[o] = op[o]
    /\ \/ call[w].phase = "recording" /\ op'[call[w].next].status = "dispatched"
       \/ /\ call[w].phase = "storing"
          /\ op'[call[w].next].attempt = op[call[w].next].attempt
          /\ op'[call[w].next].status \in {op[call[w].next].status, call[w].result}

LEMMA CallWrites ==
    ASSUME Inv, NEW w \in Workers, MakeCall(w)
    PROVE  UNCHANGED op \/ WritesOp(w)
<1>1. op \in [Ops -> Operation]
    BY DEF Inv, TypeOK
<1>2. call[w].phase \in {"recording", "storing"} => call[w].next \in Ops
    BY DEF Inv, Accounts, WorkersKnow, Knows, InCall, Own, BeforeSend, AfterSend
<1>3. CASE RecordDispatch(w)
    BY <1>1, <1>2, <1>3 DEF RecordDispatch, At, WritesOp
<1>4. CASE StoreResult(w)
  <2> DEFINE o == op[call[w].next]
             n == IF o.status = "none" THEN o ELSE [o EXCEPT !.status = call[w].result]
  <2>1. call[w].phase = "storing" /\ call[w].next \in Ops
      BY <1>2, <1>4 DEF StoreResult, At
  <2>2. n.attempt = o.attempt /\ n.status \in {o.status, call[w].result}
      BY <1>1, <2>1 DEF Operation
  <2> HIDE DEF n
  <2>3. op' = [op EXCEPT ![call[w].next] = n]
      BY <1>4 DEF StoreResult, n
  <2> QED
      BY <1>1, <2>1, <2>2, <2>3 DEF WritesOp
<1>5. CASE ~(RecordDispatch(w) \/ StoreResult(w))
    BY <1>5 DEF MakeCall, Decide, MarkUncertain, TakeHold, RefuseHold, RenewForDispatch,
                ReleaseHold, Answer, FailCall, SettleAnswer, RenewForResult, SettleFailure,
                OnlyCall
<1> QED
    BY <1>3, <1>4, <1>5

\* A worker that claims, ends or publishes the run, dies or comes back is not in a call.
LEMMA NotInCall ==
    ASSUME Inv, NEW w \in Workers,
           ClaimRun(w) \/ EndAttempt(w) \/ Publish(w) \/ Crash(w) \/ Restart(w)
    PROVE  /\ call'[w].phase \notin InCall /\ OnlyMoves(w)
           /\ call'[w].epoch = IF ClaimRun(w) THEN life'[Run].epoch ELSE 0
<1>1. {"idle", "ready", "down"} \cap InCall = {}
    BY DEF InCall, Own, BeforeSend, AfterSend
<1>2. Idle \in Call /\ Idle.epoch = 0
    BY IdleTyped DEF Idle
<1>3. CASE ClaimRun(w)
  <2> DEFINE c == [Idle EXCEPT !.phase = "ready", !.epoch = life'[Run].epoch]
  <2>1. life'[Run].epoch \in Nat
      BY <1>3, LifeTyped DEF ClaimRun, Inv, Life!Life
  <2>2. c \in Call /\ c.phase = "ready"
      BY <2>1, ClaimedTyped
  <2>3. c.epoch = life'[Run].epoch
      BY <1>2, <2>1 DEF Call
  <2> HIDE DEF c
  <2>4. Become(w, c)
      BY <1>3 DEF ClaimRun, c
  <2> QED
      BY <1>1, <1>3, <2>2, <2>3, <2>4, Becomes DEF Inv
<1>4. CASE EndAttempt(w) \/ Publish(w) \/ Restart(w)
  <2>1. Become(w, Idle)
      BY <1>4 DEF EndAttempt, Publish, Restart
  <2>2. call'[w] = Idle /\ OnlyMoves(w)
      BY <1>2, <2>1, Becomes DEF Inv
  <2> QED
      BY <1>1, <1>2, <1>3, <2>2, IdleTyped
<1>5. CASE Crash(w)
  <2> DEFINE c == [Idle EXCEPT !.phase = "down"]
  <2>1. c \in Call /\ c.phase = "down" /\ c.epoch = 0
      BY <1>2 DEF Call, Phases
  <2> HIDE DEF c
  <2>2. Become(w, c)
      BY <1>5 DEF Crash, c
  <2> QED
      BY <1>1, <1>3, <2>1, <2>2, Becomes DEF Inv
<1> QED
    BY <1>3, <1>4, <1>5

-----------------------------------------------------------------------------
(* One process: nothing is repeated that the owner was not told of.        *)

\* What resumeJob is about to supersede is what was unresolved when it was asked.
ResumeKnows == resuming => \A o \in Unresolved : op[o].attempt \in accepted

\* No worker is about to send a call that was sent and never resolved.
DispatchIsNew ==
    \A w \in Workers : call[w].phase \in {"dispatching", "holding", "recording"} =>
                           op[call[w].next].status # "dispatched"

NotSilently == ResumeKnows /\ DispatchIsNew

\* What NoSilentRepeat asks of a step.
RepeatsKnowingly ==
    \A o \in Ops :
        /\ op[o].status = "dispatched"
        /\ op'[o].status = "superseded" \/ op'[o].attempt \notin {op[o].attempt, NoAttempt}
        => op[o].attempt \in accepted

\* A step of the worker, which only moves while no request is half served.
LEMMA WorkerRepeatsKnowingly ==
    ASSUME InApi = Workers, Inv, NotSilently, NEW w \in Workers,
           ClaimRun(w) \/ MakeCall(w) \/ EndAttempt(w) \/ Publish(w)
    PROVE  NotSilently' /\ RepeatsKnowingly
<1>1. \A v \in Workers : v = w
    BY CallsAssumption
<1>2. ~resuming /\ UNCHANGED resuming
    BY DEF ClaimRun, MakeCall, Decide, MarkUncertain, TakeHold, RefuseHold, RenewForDispatch,
           RecordDispatch, ReleaseHold, Answer, FailCall, SettleAnswer, RenewForResult,
           StoreResult, SettleFailure, EndAttempt, Publish, OnlyCall, SameEnvironment, At,
           Scheduled
<1>3. ResumeKnows'
    BY <1>2 DEF ResumeKnows
<1>4. op \in [Ops -> Operation] /\ call[w] \in Call
    BY DEF Inv, TypeOK
<1>5. CASE MakeCall(w)
  <2>1. NextStep(w) /\ (UNCHANGED op \/ WritesOp(w))
      BY <1>5, CallGoesOn, CallWrites
  <2>2. RepeatsKnowingly
    <3>1. CASE UNCHANGED op
        BY <1>4, <3>1 DEF RepeatsKnowingly
    <3>2. CASE WritesOp(w) /\ call[w].phase = "recording"
        BY <3>2 DEF RepeatsKnowingly, WritesOp, NotSilently, DispatchIsNew
    <3>3. CASE WritesOp(w) /\ call[w].phase = "storing"
        BY <1>4, <3>3 DEF RepeatsKnowingly, WritesOp, Call
    <3> QED
        BY <2>1, <3>1, <3>2, <3>3 DEF WritesOp
  <2>3. DispatchIsNew'
    <3> SUFFICES ASSUME call'[w].phase \in {"dispatching", "holding", "recording"}
                 PROVE  op'[call'[w].next].status # "dispatched"
        BY <1>1 DEF DispatchIsNew
    <3>1. /\ call[w].phase \in {"ready", "dispatching", "holding"}
          /\ call'[w].next = call[w].next
          /\ op[call[w].next].status # "dispatched"
        BY <2>1 DEF NextStep, GoesFrom, InCall, Own, BeforeSend, NotSilently, DispatchIsNew
    <3>2. UNCHANGED op
        BY <2>1, <3>1 DEF WritesOp
    <3> QED
        BY <3>1, <3>2
  <2> QED
      BY <1>3, <2>2, <2>3 DEF NotSilently
<1>6. CASE ClaimRun(w) \/ EndAttempt(w) \/ Publish(w)
  <2>1. \A o \in Ops : op'[o] = op[o] \/ op'[o] = NoOperation
      BY <1>6 DEF ClaimRun, EndAttempt, Publish
  <2>2. RepeatsKnowingly
      BY <1>4, <2>1 DEF RepeatsKnowingly, NoOperation
  <2>3. call'[w].phase \notin InCall
      BY <1>6, NotInCall
  <2>4. DispatchIsNew'
      BY <1>1, <2>3 DEF DispatchIsNew, InCall, Own, BeforeSend
  <2> QED
      BY <1>3, <2>2, <2>4 DEF NotSilently
<1> QED
    BY <1>5, <1>6

LEMMA StepRepeatsKnowingly ==
    ASSUME InApi = Workers, Inv, NotSilently, [Next]_vars
    PROVE  NotSilently' /\ RepeatsKnowingly
<1>1. op \in [Ops -> Operation] /\ call \in [Workers -> Call]
    BY DEF Inv, TypeOK
<1>2. ASSUME UNCHANGED <<op, call>>, resuming' => resuming /\ accepted' = accepted
      PROVE  NotSilently' /\ RepeatsKnowingly
    BY <1>1, <1>2 DEF NotSilently, ResumeKnows, DispatchIsNew, Unresolved, RepeatsKnowingly
<1>3. CASE (\E w \in Workers : Recover(w)) \/ Submit \/ StopRun \/ Reconcile \/ Lapse
           \/ CrashApi \/ UNCHANGED vars
    BY <1>2, <1>3 DEF Recover, Submit, StopRun, Reconcile, Lapse, CrashApi, OnlyRun,
                      SameEnvironment, vars
<1>4. CASE \E w \in Workers : ClaimRun(w) \/ MakeCall(w) \/ EndAttempt(w) \/ Publish(w)
    BY <1>4, WorkerRepeatsKnowingly
<1>5. CASE Resume
  <2>1. UNCHANGED <<op, call>> /\ accepted' = accepted \cup {op[o].attempt : o \in Unresolved}
      BY <1>5 DEF Resume
  <2>2. RepeatsKnowingly
      BY <1>1, <2>1 DEF RepeatsKnowingly
  <2> QED
      BY <2>1, <2>2 DEF NotSilently, ResumeKnows, DispatchIsNew, Unresolved
<1>6. CASE Supersede
  <2>1. /\ resuming /\ ~resuming' /\ UNCHANGED call
        /\ \A o \in Ops : /\ o \notin Unresolved => op'[o] = op[o]
                          /\ op'[o].status # "dispatched"
      BY <1>1, <1>6 DEF Supersede, Unresolved, Operation
  <2>2. RepeatsKnowingly
      BY <2>1 DEF RepeatsKnowingly, NotSilently, ResumeKnows, Unresolved
  <2>3. \A w \in Workers : call[w].phase \in {"dispatching", "holding", "recording"} =>
            call[w].next \in Ops
      BY DEF Inv, Accounts, WorkersKnow, Knows, InCall, Own, BeforeSend
  <2> QED
      BY <2>1, <2>2, <2>3 DEF NotSilently, ResumeKnows, DispatchIsNew
<1>7. CASE \E w \in Workers : Crash(w) \/ Restart(w)
  <2>1. PICK w \in Workers : Crash(w) \/ Restart(w)
      BY <1>7
  <2>2. call'[w].phase \notin InCall /\ \A v \in Workers : v = w
      BY <2>1, NotInCall, CallsAssumption
  <2>3. UNCHANGED op /\ (resuming' => resuming /\ accepted' = accepted)
    <3>1. UNCHANGED <<op, accepted>>
        BY <2>1 DEF Crash, Restart, OnlyCall, SameEnvironment
    <3>2. resuming' => resuming
        BY <2>1, Zenon DEF Crash, Restart, OnlyCall, SameEnvironment
    <3> QED
        BY <3>1, <3>2
  <2>4. RepeatsKnowingly
      BY <1>1, <2>3 DEF RepeatsKnowingly
  <2> QED
      BY <2>2, <2>3, <2>4
         DEF NotSilently, ResumeKnows, DispatchIsNew, Unresolved, InCall, Own, BeforeSend
<1> QED
    BY <1>3, <1>4, <1>5, <1>6, <1>7 DEF Next

\* With the worker in the API's process, a call whose outcome is not known is sent
\* again only where the owner, told of it, chose to continue.
THEOREM SpecNoSilentRepeat ==
    ASSUME InApi = Workers
    PROVE  Spec => NoSilentRepeat
<1>1. Init => NotSilently
    BY DEF Init, Idle, NotSilently, ResumeKnows, DispatchIsNew
<1>2. Inv /\ NotSilently /\ [Next]_vars => NotSilently' /\ RepeatsKnowingly
    BY StepRepeatsKnowingly
<1>3. Inv /\ NotSilently /\ [Next]_vars =>
          [\A o \in Ops :
              /\ op[o].status = "dispatched"
              /\ op'[o].status = "superseded" \/ op'[o].attempt \notin {op[o].attempt, NoAttempt}
              => op[o].attempt \in accepted]_vars
    BY <1>2 DEF RepeatsKnowingly
<1> QED
    BY <1>1, <1>2, <1>3, SpecInv, PTL DEF Spec, NoSilentRepeat

-----------------------------------------------------------------------------
(* Where no process outsleeps its lease between the gate and the write, an *)
(* answer that is stored is kept.                                          *)

\* Whose attempt it is: an epoch is one worker's, and no later than the run's.
EpochsAreOwn ==
    /\ State = "processing" => life[Run].epoch > 0
    /\ \A w \in Workers : call[w].epoch <= life[Run].epoch
    /\ \A v, w \in Workers : call[v].epoch = call[w].epoch /\ call[w].epoch > 0 => v = w

\* A worker that is about to write has the run.
WritersHold == \A w \in Workers : call[w].phase \in {"recording", "storing"} => Gate(w)

\* The steps of a call between its decision and the storing of its result.
Paying == {"dispatching", "sent", "answered", "failing", "settled", "storing"} \cup BeforeSend

\* Whoever has the run is not paying for an answer that is stored.
PaysForNoStoredAnswer ==
    \A w \in Workers : call[w].phase \in Paying /\ call[w].epoch = life[Run].epoch =>
                           op[call[w].next].status # "succeeded"

Exclusive == EpochsAreOwn /\ WritersHold /\ PaysForNoStoredAnswer

\* What StoredAnswerIsKept asks of a step.
KeepsAnswers == \A o \in Ops : op[o].status = "succeeded" =>
                    op'[o] = op[o] \/ life'[Run].state = "completed"

LEMMA LifeEpoch ==
    ASSUME TypeOK
    PROVE  /\ Life!Begin(Run) => /\ life'[Run].epoch = life[Run].epoch + 1
                                 /\ life'[Run].state = "processing"
           /\ (\/ Life!Submit(Run) \/ Life!Retry(Run) \/ Life!Stop(Run)
               \/ Life!Resume(Run) \/ Life!Cancel(Run) \/ Life!Publish(Run)) =>
                  /\ life'[Run].epoch = life[Run].epoch
                  /\ life'[Run].state # "processing"
           /\ Life!Publish(Run) => life'[Run].state = "completed"
<1>1. life[Run] \in Life!Life
    BY DEF TypeOK
<1> USE DEF TypeOK, Life!Move, Life!Life
<1>2. Life!Begin(Run) => /\ life'[Run].epoch = life[Run].epoch + 1
                         /\ life'[Run].state = "processing"
    BY <1>1 DEF Life!Begin
<1>3. (\/ Life!Submit(Run) \/ Life!Retry(Run) \/ Life!Stop(Run)
       \/ Life!Resume(Run) \/ Life!Cancel(Run)) =>
          /\ life'[Run].epoch = life[Run].epoch
          /\ life'[Run].state # "processing"
    BY <1>1 DEF Life!Submit, Life!Retry, Life!Stop, Life!Resume, Life!Cancel
<1>4. Life!Publish(Run) => /\ life'[Run].epoch = life[Run].epoch
                           /\ life'[Run].state = "completed"
    BY <1>1 DEF Life!Publish
<1> QED
    BY <1>2, <1>3, <1>4

\* The claim is one worker's.
LEMMA OneHolder ==
    ASSUME Inv, EpochsAreOwn, NEW v \in Workers, NEW w \in Workers,
           Gate(v), call[w].epoch = life[Run].epoch
    PROVE  v = w
BY DEF EpochsAreOwn, Gate, Held, State

LEMMA EpochsTyped ==
    ASSUME Inv
    PROVE  life[Run].epoch \in Nat /\ \A w \in Workers : call[w].epoch \in Nat
BY DEF Inv, TypeOK, Life!Life, Call

LEMMA CallKeepsAnswers ==
    ASSUME Inv, Exclusive, NEW w \in Workers, MakeCall(w)
    PROVE  Exclusive' /\ KeepsAnswers
<1>1. NextStep(w) /\ OnlyMoves(w) /\ (UNCHANGED op \/ WritesOp(w))
    BY CallGoesOn, CallWrites
<1>2. UNCHANGED <<life, live>>
    BY DEF MakeCall, Decide, MarkUncertain, TakeHold, RefuseHold, RenewForDispatch,
           RecordDispatch, ReleaseHold, Answer, FailCall, SettleAnswer, RenewForResult,
           StoreResult, SettleFailure, OnlyCall, RunUnchanged
<1>3. call'[w].epoch \in {call[w].epoch, 0}
    BY <1>1 DEF NextStep, GoesFrom
<1>4. \A v \in Workers : v # w => call'[v] = call[v]
    BY <1>1 DEF OnlyMoves
<1>5. WritesOp(w) => Gate(w) /\ call[w].epoch = life[Run].epoch
                     /\ op[call[w].next].status # "succeeded"
    BY DEF WritesOp, Exclusive, WritersHold, PaysForNoStoredAnswer, Paying, BeforeSend,
           Gate, Held
<1>6. EpochsAreOwn'
    BY <1>2, <1>3, <1>4, EpochsTyped DEF Exclusive, EpochsAreOwn, State
<1>7. WritersHold'
  <2> SUFFICES ASSUME NEW v \in Workers, call'[v].phase \in {"recording", "storing"}
               PROVE  Gate(v)'
      BY DEF WritersHold
  <2>1. CASE v = w
    <3>1. Gate(w) /\ call'[w].epoch = call[w].epoch
        BY <1>1, <2>1 DEF NextStep, GoesFrom, InCall, Own, BeforeSend, AfterSend
    <3> QED
        BY <1>2, <2>1, <3>1 DEF Gate, Held, State
  <2>2. CASE v # w
      BY <1>2, <1>4, <2>2 DEF Exclusive, WritersHold, Gate, Held, State
  <2> QED
      BY <2>1, <2>2
<1>8. PaysForNoStoredAnswer'
  <2> SUFFICES ASSUME NEW v \in Workers, call'[v].phase \in Paying,
                      call'[v].epoch = life[Run].epoch
               PROVE  op'[call'[v].next].status # "succeeded"
      BY <1>2 DEF PaysForNoStoredAnswer
  <2>1. CASE v = w
    <3>1. /\ call'[w].next = call[w].next /\ call'[w].epoch = call[w].epoch
          /\ \/ call[w].phase = "ready" /\ op[call[w].next].status # "succeeded"
             \/ call[w].phase \in Paying /\ call[w].phase # "storing"
        BY <1>1, <2>1 DEF NextStep, GoesFrom, Paying, InCall, Own, BeforeSend, AfterSend
    <3>2. op[call[w].next].status # "succeeded"
        BY <2>1, <3>1 DEF Exclusive, PaysForNoStoredAnswer
    <3>3. UNCHANGED op \/ op'[call[w].next].status = "dispatched"
        BY <1>1, <3>1 DEF WritesOp
    <3> QED
        BY <2>1, <3>1, <3>2, <3>3
  <2>2. CASE v # w
    <3>1. call[v].epoch = life[Run].epoch /\ call[v].phase \in Paying
        BY <1>4, <2>2
    <3>2. ~WritesOp(w)
        BY <1>5, <2>2, <3>1, OneHolder DEF Exclusive
    <3> QED
        BY <1>1, <1>4, <2>2, <3>1, <3>2 DEF Exclusive, PaysForNoStoredAnswer
  <2> QED
      BY <2>1, <2>2
<1>9. KeepsAnswers
    BY <1>1, <1>5 DEF KeepsAnswers, WritesOp
<1> QED
    BY <1>6, <1>7, <1>8, <1>9 DEF Exclusive

\* A claim is taken when nobody has the run, under an epoch nobody has had.
LEMMA ClaimKeepsAnswers ==
    ASSUME Inv, Exclusive, NEW w \in Workers, ClaimRun(w)
    PROVE  Exclusive' /\ KeepsAnswers
<1>1. /\ life'[Run].epoch = life[Run].epoch + 1
      /\ call'[w].epoch = life'[Run].epoch
    BY LifeEpoch, NotInCall DEF ClaimRun, Inv
<1>2. call'[w].phase \notin InCall /\ \A v \in Workers : v # w => call'[v] = call[v]
    BY NotInCall DEF OnlyMoves
<1>3. \A v \in Workers : ~Gate(v)
    BY DEF ClaimRun, Gate, Held
<1>4. EpochsAreOwn'
    BY <1>1, <1>2, EpochsTyped DEF Exclusive, EpochsAreOwn
<1>5. WritersHold'
    BY <1>2, <1>3 DEF Exclusive, WritersHold, InCall, Own, BeforeSend, AfterSend
<1>6. PaysForNoStoredAnswer'
  <2>1. Paying \subseteq InCall
      BY DEF Paying, InCall, Own, AfterSend
  <2>2. \A v \in Workers : v # w => call'[v].epoch # life'[Run].epoch
      BY <1>1, <1>2, EpochsTyped DEF Exclusive, EpochsAreOwn
  <2> QED
      BY <1>2, <2>1, <2>2 DEF PaysForNoStoredAnswer
<1>7. KeepsAnswers
    BY DEF ClaimRun, KeepsAnswers
<1> QED
    BY <1>4, <1>5, <1>6, <1>7 DEF Exclusive

\* A worker that has left its call, whatever it does to the run as its holder.
LEMMA LeavingKeepsAnswers ==
    ASSUME Inv, Exclusive, NEW w \in Workers,
           EndAttempt(w) \/ Publish(w) \/ Crash(w) \/ Restart(w), ~ClaimRun(w)
    PROVE  Exclusive' /\ KeepsAnswers
<1>1. /\ call'[w].phase \notin InCall /\ call'[w].epoch = 0
      /\ \A v \in Workers : v # w => call'[v] = call[v]
    BY NotInCall DEF OnlyMoves
<1>2. \/ UNCHANGED <<life, live>>
      \/ /\ Gate(w) /\ call[w].phase \in {"raising", "ready"}
         /\ life'[Run].epoch = life[Run].epoch /\ life'[Run].state # "processing"
  <2>1. CASE EndAttempt(w)
      BY <2>1, LifeEpoch DEF EndAttempt, At, Inv, TypeOK
  <2>2. CASE Publish(w)
      BY <2>2, LifeEpoch DEF Publish, At, Inv, RunUnchanged
  <2>3. CASE Crash(w) \/ Restart(w)
      BY <2>3 DEF Crash, Restart, OnlyCall, RunUnchanged
  <2> QED
      BY <2>1, <2>2, <2>3
<1>3. \A o \in Ops : \/ op'[o] = op[o]
                     \/ op'[o] = NoOperation /\ life'[Run].state = "completed"
    BY LifeEpoch DEF EndAttempt, Publish, Crash, Restart, OnlyCall, Inv
<1>4. EpochsAreOwn'
    BY <1>1, <1>2, EpochsTyped DEF Exclusive, EpochsAreOwn, State
<1>5. WritersHold'
  <2> SUFFICES ASSUME NEW v \in Workers, call'[v].phase \in {"recording", "storing"}
               PROVE  Gate(v)'
      BY DEF WritersHold
  <2>1. v # w /\ call'[v] = call[v] /\ Gate(v)
      BY <1>1 DEF Exclusive, WritersHold, InCall, Own, BeforeSend, AfterSend
  <2>2. ~Gate(w)
      BY <2>1, OneHolder DEF Exclusive, Gate, Held
  <2> QED
      BY <1>2, <2>1, <2>2 DEF Gate, Held, State
<1>6. PaysForNoStoredAnswer'
  <2> SUFFICES ASSUME NEW v \in Workers, call'[v].phase \in Paying,
                      call'[v].epoch = life'[Run].epoch
               PROVE  op'[call'[v].next].status # "succeeded"
      BY DEF PaysForNoStoredAnswer
  <2>1. v # w /\ call'[v] = call[v]
      BY <1>1 DEF Paying, InCall, Own, AfterSend
  <2>2. call[v].next \in Ops
      BY <2>1 DEF Inv, Accounts, WorkersKnow, Knows, Paying, InCall, Own, AfterSend
  <2>3. call[v].epoch = life[Run].epoch
      BY <1>2, <2>1
  <2>4. op[call[v].next].status # "succeeded"
      BY <2>1, <2>3 DEF Exclusive, PaysForNoStoredAnswer
  <2> QED
      BY <1>3, <2>1, <2>2, <2>4 DEF NoOperation
<1>7. KeepsAnswers
    BY <1>3 DEF KeepsAnswers
<1> QED
    BY <1>4, <1>5, <1>6, <1>7 DEF Exclusive

\* The run moves, or its lease ends, while no worker is about to write.
LEMMA RunStepKeepsAnswers ==
    ASSUME ~Freezes, Inv, Exclusive,
           \/ \E w \in Workers : Recover(w)
           \/ Submit \/ StopRun \/ Resume \/ Lapse
    PROVE  Exclusive' /\ KeepsAnswers
<1>1. UNCHANGED <<op, call>> /\ life'[Run].epoch = life[Run].epoch
    BY LifeEpoch DEF Inv, Recover, Submit, StopRun, Resume, Lapse, OnlyRun
<1>2. State' = "processing" => State = "processing"
    BY LifeEpoch DEF Inv, Recover, Submit, StopRun, Resume, Lapse, State
<1>3. \A w \in Workers : call[w].phase \notin {"recording", "storing"}
  <2>1. CASE Lapse
      BY <2>1 DEF Lapse, BetweenGateAndWrite, Exclusive, WritersHold
  <2>2. CASE ~Lapse
    <3>1. \A w \in Workers : ~Gate(w)
        BY <2>2 DEF Recover, Submit, StopRun, Resume, Gate, Held, State,
                    Life!Submit, Life!Resume, Life!Move
    <3> QED
        BY <3>1 DEF Exclusive, WritersHold
  <2> QED
      BY <2>1, <2>2
<1>4. EpochsAreOwn'
    BY <1>1, <1>2 DEF Exclusive, EpochsAreOwn
<1> QED
    BY <1>1, <1>3, <1>4 DEF Exclusive, WritersHold, PaysForNoStoredAnswer, KeepsAnswers

LEMMA StepKeepsAnswers ==
    ASSUME ~Freezes, Inv, Exclusive, [Next]_vars
    PROVE  Exclusive' /\ KeepsAnswers
<1>1. CASE \E w \in Workers : ClaimRun(w)
    BY <1>1, ClaimKeepsAnswers
<1>2. CASE \E w \in Workers : MakeCall(w)
    BY <1>2, CallKeepsAnswers
<1>3. CASE /\ \E w \in Workers : EndAttempt(w) \/ Publish(w) \/ Crash(w) \/ Restart(w)
           /\ ~\E w \in Workers : ClaimRun(w)
    BY <1>3, LeavingKeepsAnswers
<1>4. CASE (\E w \in Workers : Recover(w)) \/ Submit \/ StopRun \/ Resume \/ Lapse
    BY <1>4, RunStepKeepsAnswers
<1>5. CASE Supersede
  <2>1. /\ UNCHANGED <<life, live, call>>
        /\ \A o \in Ops : \/ op'[o] = op[o]
                          \/ op[o].status = "dispatched" /\ op'[o].status = "superseded"
      BY <1>5 DEF Supersede, RunUnchanged, Unresolved, Inv, TypeOK, Operation
  <2>2. \A w \in Workers : call[w].phase \in Paying => call[w].next \in Ops
      BY DEF Inv, Accounts, WorkersKnow, Knows, Paying, InCall, Own, AfterSend
  <2> QED
      BY <2>1, <2>2 DEF Exclusive, EpochsAreOwn, WritersHold, PaysForNoStoredAnswer, KeepsAnswers,
                        Gate, Held, State
<1>6. CASE Reconcile \/ CrashApi \/ UNCHANGED vars
  <2>1. UNCHANGED <<life, live, op, call>>
      BY <1>6 DEF Reconcile, CrashApi, RunUnchanged, vars
  <2> QED
      BY <2>1 DEF Exclusive, EpochsAreOwn, WritersHold, PaysForNoStoredAnswer, KeepsAnswers,
                  Gate, Held, State
<1> QED
    BY <1>1, <1>2, <1>3, <1>4, <1>5, <1>6 DEF Next

\* Where a process is never suspended for a whole lease between renewLease and the
\* write it guards, nobody pays again for an answer that is stored.
THEOREM SpecStoredAnswerIsKept ==
    ASSUME ~Freezes
    PROVE  Spec => StoredAnswerIsKept
<1>1. Init => Exclusive
  <2> SUFFICES ASSUME Init PROVE Exclusive
      OBVIOUS
  <2>1. life[Run] = Life!Unborn /\ Life!Unborn.epoch = 0 /\ Life!Unborn.state = "absent"
      BY DEF Init, Life!Init, Life!Unborn
  <2>2. \A w \in Workers : call[w].epoch = 0 /\ call[w].phase = "idle"
      BY DEF Init, Idle
  <2> QED
      BY <2>1, <2>2 DEF Exclusive, EpochsAreOwn, WritersHold, PaysForNoStoredAnswer, State,
                        Paying, BeforeSend
<1>2. Inv /\ Exclusive /\ [Next]_vars => Exclusive' /\ KeepsAnswers
    BY StepKeepsAnswers
<1>3. Inv /\ Exclusive /\ [Next]_vars =>
          [\A o \in Ops : op[o].status = "succeeded" =>
              op'[o] = op[o] \/ life'[Run].state = "completed"]_vars
    BY <1>2 DEF KeepsAnswers
<1> QED
    BY <1>1, <1>2, <1>3, SpecInv, PTL DEF Spec, StoredAnswerIsKept

-----------------------------------------------------------------------------
(* No hold is left behind.                                                 *)

\* A call at c will settle h: before the request goes out and until its answer
\* comes, and afterwards when the call has failed, whose hold is settled last.
Attends(c, h) ==
    /\ c.hold = h
    /\ \/ c.phase \in BeforeSend \cup {"sent", "answered"}
       \/ c.phase \in {"failing", "storing", "unsettled"} /\ c.result = "failed"

\* Until a process dies a hold that nobody has settled is in a worker's hands.
ReservedAreAttended ==
    /\ faults.crash <= MaxCrashes
    /\ faults.crash = MaxCrashes =>
          \A h \in Holds : hold[h].state = "reserved" =>
              \E w \in Workers : Attends(call[w], h)

\* A step of w takes holds it attends to, and lets go only of settled ones.
LetsGoOfSettled(w) ==
    \A h \in Holds : hold'[h].state = "reserved" =>
        \/ Attends(call'[w], h)
        \/ hold[h].state = "reserved" /\ ~Attends(call[w], h)

LEMMA AttendsBeforeSend ==
    ASSUME Inv, NEW w \in Workers,
           \/ Decide(w) \/ MarkUncertain(w) \/ TakeHold(w) \/ RefuseHold(w)
           \/ RenewForDispatch(w) \/ RecordDispatch(w) \/ ReleaseHold(w)
    PROVE  LetsGoOfSettled(w)
<1> USE DEF Inv
<1>1. TypeOK /\ Books!TypeOK /\ call[w] \in Call
    BY DEF TypeOK
<1>2. {"recording", "releasing", "sent"} \subseteq Phases
    BY DEF Phases, Synchronous
<1>3. CASE Decide(w) \/ RefuseHold(w)
  <2>1. /\ UNCHANGED hold /\ call[w].phase \in {"ready", "dispatching"}
      BY <1>3 DEF Decide, RefuseHold, OnlyCall, books, At
  <2> QED
      BY <2>1 DEF LetsGoOfSettled, Attends, BeforeSend
<1>4. CASE MarkUncertain(w)
  <2>1. call[w].phase = "unresolved" /\ call[w].hold \in Holds
      BY <1>4 DEF MarkUncertain, At, Accounts, WorkersKnow, Knows
  <2>2. /\ "reconciling" \in Outcomes /\ hold[call[w].hold].amount \in Nat
        /\ Books!Settle(call[w].hold, "reconciling", hold[call[w].hold].amount)
      BY <1>1, <1>4, <2>1 DEF MarkUncertain, Outcomes, Books!TypeOK, Books!Hold
  <2>3. \A h \in Holds : hold'[h] = hold[h] \/ hold'[h].state = "reconciling"
      BY <1>1, <2>1, <2>2, SettledHold
  <2> QED
      BY <2>1, <2>3 DEF LetsGoOfSettled, Attends, BeforeSend
<1>5. CASE TakeHold(w)
  <2>1. PICK h \in Holds, a \in Amounts :
            /\ Books!Reserve(Owner, h, a)
            /\ Become(w, [call[w] EXCEPT !.phase = "holding", !.hold = h])
      BY <1>5 DEF TakeHold
  <2> DEFINE c == [call[w] EXCEPT !.phase = "holding", !.hold = h]
  <2>2. c \in Call /\ c.phase = "holding" /\ c.hold = h
      BY <1>1 DEF Call, Phases, Synchronous
  <2> HIDE DEF c
  <2>3. call'[w] = c
      BY <1>1, <2>1, <2>2, Becomes DEF c
  <2>4. call[w].phase = "dispatching" /\ \A g \in Holds : g # h => hold'[g] = hold[g]
      BY <1>1, <1>5, <2>1, ReservedHold DEF TakeHold, At
  <2> QED
      BY <2>2, <2>3, <2>4 DEF LetsGoOfSettled, Attends, BeforeSend
<1>6. CASE RenewForDispatch(w) \/ RecordDispatch(w)
  <2>1. PICK p \in {"recording", "releasing", "sent"} : Goes(w, p)
      BY <1>6 DEF RenewForDispatch, RecordDispatch
  <2>2. /\ call'[w].phase = p /\ call'[w].hold = call[w].hold
        /\ call[w].phase \in BeforeSend
      BY <1>1, <1>2, <1>6, <2>1, GoesOn DEF RenewForDispatch, RecordDispatch, At, BeforeSend
  <2>3. UNCHANGED hold
      BY <1>6 DEF RenewForDispatch, RecordDispatch, OnlyCall, books
  <2> QED
      BY <2>2, <2>3 DEF LetsGoOfSettled, Attends, BeforeSend
<1>7. CASE ReleaseHold(w)
  <2>1. call[w].hold \in Holds
      BY <1>7 DEF ReleaseHold, At, Accounts, WorkersKnow, Knows, Own, BeforeSend
  <2>2. "released" \in Outcomes /\ Books!Settle(call[w].hold, "released", 0)
      BY <1>7 DEF ReleaseHold, Outcomes
  <2>3. /\ \A h \in Holds : h # call[w].hold => hold'[h] = hold[h]
        /\ hold'[call[w].hold].state # "reserved"
      BY <1>1, <2>1, <2>2, SettledHold DEF Books!Open
  <2> QED
      BY <2>1, <2>3 DEF LetsGoOfSettled, Attends
<1> QED
    BY <1>3, <1>4, <1>5, <1>6, <1>7

LEMMA AttendsAfterSend ==
    ASSUME Inv, NEW w \in Workers,
           \/ Answer(w) \/ FailCall(w) \/ SettleAnswer(w)
           \/ RenewForResult(w) \/ StoreResult(w) \/ SettleFailure(w)
    PROVE  LetsGoOfSettled(w)
<1> USE DEF Inv
<1>1. TypeOK /\ Books!TypeOK /\ call[w] \in Call
    BY DEF TypeOK
<1>2. {"answered", "failing", "storing"} \subseteq Phases
    BY DEF Phases, Synchronous
<1>3. CASE Answer(w) \/ FailCall(w)
  <2>1. PICK p \in {"answered", "failing"}, r \in {"succeeded", "unusable", "failed"},
             o \in Outcomes :
            /\ Become(w, [call[w] EXCEPT !.phase = p, !.result = r, !.outcome = o])
            /\ p = "failing" => r = "failed"
      BY <1>3 DEF Answer, FailCall, outcomeForBilling, Outcomes
  <2> DEFINE c == [call[w] EXCEPT !.phase = p, !.result = r, !.outcome = o]
  <2>2. c \in Call /\ c.phase = p /\ c.result = r /\ c.hold = call[w].hold
      BY <1>1, <1>2 DEF Call
  <2> HIDE DEF c
  <2>3. call'[w] = c
      BY <1>1, <2>1, <2>2, Becomes DEF c
  <2>4. UNCHANGED hold /\ call[w].phase = "sent"
      BY <1>3 DEF Answer, FailCall, books, At
  <2> QED
      BY <2>1, <2>2, <2>3, <2>4 DEF LetsGoOfSettled, Attends
<1>4. CASE SettleAnswer(w) \/ SettleFailure(w)
  <2>1. call[w].hold \in Holds
      BY <1>4 DEF SettleAnswer, SettleFailure, At, Accounts, WorkersKnow, Knows, Own, AfterSend
  <2>2. \A a \in Amounts : a \in Nat
      BY CallsAssumption
  <2>3. hold[call[w].hold].amount \in Nat
      BY <1>1, <2>1 DEF Books!TypeOK, Books!Hold
  <2>4. \E o \in Outcomes, a \in Nat : Books!Settle(call[w].hold, o, a)
    <3>1. CASE SettleAnswer(w)
        BY <2>2, <3>1 DEF SettleAnswer, Outcomes
    <3>2. CASE SettleFailure(w)
      <4>1. PICK a \in CASE call[w].outcome = "charged"     -> Amounts
                         [] call[w].outcome = "released"    -> {0}
                         [] call[w].outcome = "reconciling" -> {hold[call[w].hold].amount} :
                    Books!Settle(call[w].hold, call[w].outcome, a)
          BY <3>2 DEF SettleFailure
      <4>2. call[w].outcome \in Outcomes
          BY <1>1 DEF Call
      <4>3. a \in Nat
          BY <2>2, <2>3, <4>1, <4>2 DEF Outcomes
      <4> QED
          BY <4>1, <4>2, <4>3
    <3> QED
        BY <1>4, <3>1, <3>2
  <2>5. /\ \A h \in Holds : h # call[w].hold => hold'[h] = hold[h]
        /\ hold'[call[w].hold].state # "reserved"
      BY <1>1, <2>1, <2>4, SettledHold DEF Books!Open, Outcomes
  <2> QED
      BY <2>1, <2>5 DEF LetsGoOfSettled, Attends
<1>5. CASE RenewForResult(w) \/ StoreResult(w)
  <2>1. /\ UNCHANGED hold
        /\ call[w].phase \in {"settled", "failing", "storing"}
      BY <1>5 DEF RenewForResult, StoreResult, OnlyCall, books, At
  <2>2. CASE Goes(w, "storing")
    <3>1. /\ call'[w].phase = "storing" /\ call'[w].hold = call[w].hold
          /\ call'[w].result = call[w].result
        BY <1>1, <1>2, <2>2, GoesOn
    <3> QED
        BY <2>1, <3>1 DEF LetsGoOfSettled, Attends, BeforeSend
  <2>3. CASE Become(w, AfterStoring(w))
    <3>1. call'[w] = AfterStoring(w)
        BY <1>1, <2>1, <2>3, Stored, Becomes
    <3>2. call[w].result = "failed" =>
              /\ AfterStoring(w).phase = "unsettled" /\ AfterStoring(w).hold = call[w].hold
              /\ AfterStoring(w).result = "failed"
        BY <1>1 DEF AfterStoring, Call
    <3> QED
        BY <2>1, <3>1, <3>2 DEF LetsGoOfSettled, Attends, BeforeSend
  <2> QED
      BY <1>5, <2>2, <2>3 DEF RenewForResult, StoreResult
<1> QED
    BY <1>3, <1>4, <1>5

LEMMA StepKeepsAttended ==
    ASSUME Inv, ReservedAreAttended, [Next]_vars
    PROVE  ReservedAreAttended'
<1>1. faults \in [lapse : Nat, crash : Nat] /\ MaxCrashes \in Nat
    BY CallsAssumption DEF Inv, TypeOK
<1>2. ASSUME NEW w \in Workers, MakeCall(w)
      PROVE  ReservedAreAttended'
  <2>1. LetsGoOfSettled(w) /\ OnlyMoves(w)
      BY <1>2, AttendsBeforeSend, AttendsAfterSend, CallGoesOn DEF MakeCall
  <2>2. UNCHANGED faults
      BY <1>2 DEF MakeCall, Decide, MarkUncertain, TakeHold, RefuseHold, RenewForDispatch,
                  RecordDispatch, ReleaseHold, Answer, FailCall, SettleAnswer,
                  RenewForResult, StoreResult, SettleFailure, OnlyCall, SameEnvironment
  <2> QED
      BY <2>1, <2>2 DEF ReservedAreAttended, LetsGoOfSettled, OnlyMoves
<1>3. ASSUME NEW w \in Workers,
             ClaimRun(w) \/ EndAttempt(w) \/ Publish(w) \/ Recover(w) \/ Restart(w)
      PROVE  ReservedAreAttended'
  <2>1. UNCHANGED <<hold, faults>>
      BY <1>3 DEF ClaimRun, EndAttempt, Publish, Recover, Restart, OnlyCall,
                  SameEnvironment, books
  <2>2. \A v \in Workers, h \in Holds : Attends(call[v], h) => call'[v] = call[v]
    <3>1. CASE Recover(w)
        BY <3>1 DEF Recover
    <3>2. CASE ~Recover(w)
      <4>1. OnlyMoves(w)
          BY <1>3, <3>2, NotInCall
      <4>2. call[w].phase \in {"idle", "raising", "ready", "down"}
          BY <1>3, <3>2 DEF ClaimRun, EndAttempt, Publish, Restart, At
      <4> QED
          BY <4>1, <4>2 DEF OnlyMoves, Attends, BeforeSend
    <3> QED
        BY <3>1, <3>2
  <2> QED
      BY <2>1, <2>2 DEF ReservedAreAttended
<1>4. CASE Submit \/ StopRun \/ Resume \/ Supersede \/ UNCHANGED vars
  <2>1. UNCHANGED <<hold, call, faults>>
      BY <1>4 DEF Submit, StopRun, Resume, Supersede, OnlyRun, books, vars
  <2> QED
      BY <2>1 DEF ReservedAreAttended
<1>5. CASE Lapse
  <2>1. UNCHANGED <<hold, call>> /\ faults'.crash = faults.crash
      BY <1>1, <1>5 DEF Lapse, books
  <2> QED
      BY <2>1 DEF ReservedAreAttended
<1>6. CASE Reconcile
  <2>1. UNCHANGED <<call, faults>>
      BY <1>6 DEF Reconcile, SameEnvironment
  <2>2. PICK h \in Holds, a \in Amounts \cup {0}, o \in {"charged", "released"} :
            Books!Reconcile(h, o, a)
      BY <1>6 DEF Reconcile
  <2>3. a \in Nat /\ o \in Outcomes /\ Books!TypeOK
      BY CallsAssumption DEF Outcomes, Inv, TypeOK
  <2>4. /\ \A g \in Holds : g # h => hold'[g] = hold[g]
        /\ hold'[h].state = o
      BY <2>2, <2>3, SettledOpen DEF Books!Reconcile
  <2> QED
      BY <2>1, <2>2, <2>4 DEF ReservedAreAttended
<1>7. CASE CrashApi \/ \E w \in Workers : Crash(w)
  <2>1. faults'.crash = faults.crash - 1
      BY <1>1, <1>7 DEF CrashApi, Crash
  <2> QED
      BY <1>1, <2>1 DEF ReservedAreAttended
<1> QED
    BY <1>2, <1>3, <1>4, <1>5, <1>6, <1>7 DEF Next

\* For any number of workers, calls, lost claims, refusals and reconciliations,
\* until a process dies every hold that is neither settled nor listed is in the
\* hands of a call that will settle it.
THEOREM SpecNoHoldIsLeftBehind == Spec => []NoHoldIsLeftBehind
<1>1. Init => ReservedAreAttended
  <2> SUFFICES ASSUME Init PROVE ReservedAreAttended
      OBVIOUS
  <2>1. \A h \in Holds : hold[h].state = "none"
      BY DEF Init, Books!Init, Books!NoHold
  <2>2. faults.crash = MaxCrashes
      BY DEF Init
  <2> QED
      BY <2>1, <2>2, CallsAssumption DEF ReservedAreAttended
<1>2. ReservedAreAttended => NoHoldIsLeftBehind
    BY DEF ReservedAreAttended, NoHoldIsLeftBehind, IsAttended, Attends, BeforeSend
<1>3. Inv /\ ReservedAreAttended /\ [Next]_vars => ReservedAreAttended'
    BY StepKeepsAttended
<1> QED
    BY <1>1, <1>2, <1>3, SpecInv, PTL DEF Spec
=============================================================================
