---------------------------- MODULE Budget_proofs ----------------------------
(***************************************************************************)
(* What Budget promises of each hold, for any number of accounts, holds,   *)
(* figures and caps.                                                       *)
(*                                                                         *)
(* LedgerMatchesHolds is not preserved by a settlement on its own: the row *)
(* that reverses an estimate is right only because the ledger held exactly *)
(* that estimate, and nothing for a hold that was never settled.  That is  *)
(* the same formula read in the state before, so with typing it is         *)
(* inductive, and settlement is the one case.                              *)
(*                                                                         *)
(* CapsArePassedOnlyByNamedExcess compares sums over all rows before and   *)
(* after a step.  A step moves at most one row, so each sum moves by that  *)
(* row's term (OneTerm); what is left is one row's arithmetic, and that    *)
(* only finitely many rows have been taken, each by an account (Accounted).*)
(***************************************************************************)
EXTENDS Budget, FiniteSetTheorems, WellFoundedInduction, TLAPS

Inv == TypeOK /\ LedgerMatchesHolds

\* The three ways a hold that is open can be settled, and what it owes then.
Outcomes == {"charged", "released", "reconciling"}

\* A settlement as a change of one hold: its state, its figure, its ledger.
Settled(h, outcome, a, byPerson) ==
    /\ h \in Holds /\ outcome \in Outcomes /\ a \in Nat /\ byPerson \in BOOLEAN
    /\ hold[h].state \in Open
    /\ SettleOpen(h, outcome, a, byPerson)

\* The same as TypeOK, for the three variables a settlement changes.
HoldsTyped == /\ hold \in [Holds -> Hold]
              /\ ledger \in [Holds -> Int]
              /\ over \in [Holds -> Nat]

-----------------------------------------------------------------------------

\* The empty tables are typed and agree.
LEMMA InitInv == Init => Inv
<1> SUFFICES ASSUME Init PROVE Inv
    OBVIOUS
<1>1. NoHold \in Hold
    BY DEF NoHold, Hold
<1>2. 1 \in 1..LastPeriod
    BY CapsAssumption
<1>3. userLimit \in [Users -> Nat]
    BY AmountsAssumption DEF Init
<1>4. TypeOK
    BY <1>1, <1>2, <1>3 DEF Init, TypeOK
<1>5. LedgerMatchesHolds
    BY DEF Init, LedgerMatchesHolds, NoHold
<1> QED
    BY <1>4, <1>5 DEF Inv

\* What a settlement makes of the hold it settles.
LEMMA SettledHold ==
    ASSUME TypeOK, NEW h \in Holds, NEW outcome \in Outcomes, NEW a \in Nat,
           NEW byPerson \in BOOLEAN, SettleOpen(h, outcome, a, byPerson)
    PROVE  /\ hold'[h] \in Hold
           /\ hold'[h].state = outcome
           /\ hold'[h].amount = IF outcome = "released" THEN 0 ELSE a
           /\ ledger'[h] = ledger[h] - Reversed(h) + hold'[h].amount
           /\ ledger'[h] \in Int
           /\ over'[h] \in Nat
<1>1. hold[h] \in Hold /\ ledger[h] \in Int /\ over[h] \in Nat
    BY DEF TypeOK
<1>2. Owed(outcome, a) \in Nat
    BY DEF Owed
<1>3. hold'[h] = [hold[h] EXCEPT !.state = outcome, !.amount = Owed(outcome, a),
                                 !.resolved = byPerson]
    BY DEF SettleOpen, TypeOK
<1>4. hold'[h] \in Hold /\ hold'[h].state = outcome /\ hold'[h].amount = Owed(outcome, a)
    BY <1>1, <1>2, <1>3 DEF Hold, Outcomes
<1>5. ledger'[h] = ledger[h] - Reversed(h) + Owed(outcome, a)
    BY DEF SettleOpen, TypeOK
<1>6. Reversed(h) \in Nat
    BY <1>1 DEF Reversed, Hold
<1>7. over'[h] = over[h] + Excess(h, Owed(outcome, a))
    BY DEF SettleOpen, TypeOK
<1>8. hold[h].amount \in Nat
    BY <1>1 DEF Hold
<1>9. Excess(h, Owed(outcome, a)) \in Nat
    BY <1>2, <1>8 DEF Excess
<1> QED
    BY <1>1, <1>2, <1>4, <1>5, <1>6, <1>7, <1>9 DEF Owed

\* It leaves the others alone.
LEMMA OthersUnsettled ==
    ASSUME TypeOK, NEW h \in Holds, NEW outcome, NEW a, NEW byPerson,
           SettleOpen(h, outcome, a, byPerson), NEW g \in Holds, g # h
    PROVE  hold'[g] = hold[g] /\ ledger'[g] = ledger[g] /\ over'[g] = over[g]
BY DEF SettleOpen, TypeOK

\* A settlement keeps both parts of the invariant: whatever the ledger held for
\* the hold is what it reverses.
LEMMA SettlementKeepsInv ==
    ASSUME Inv, NEW h \in Holds, NEW outcome \in Outcomes, NEW a \in Nat,
           NEW byPerson \in BOOLEAN, Settled(h, outcome, a, byPerson)
    PROVE  HoldsTyped' /\ LedgerMatchesHolds'
<1> TypeOK /\ LedgerMatchesHolds
    BY DEF Inv
<1>1. SettleOpen(h, outcome, a, byPerson) /\ hold[h].state \in Open
    BY DEF Settled
<1>2. /\ hold'[h] \in Hold /\ hold'[h].state = outcome
      /\ hold'[h].amount = IF outcome = "released" THEN 0 ELSE a
      /\ ledger'[h] = ledger[h] - Reversed(h) + hold'[h].amount
      /\ ledger'[h] \in Int /\ over'[h] \in Nat
    BY <1>1, SettledHold
<1>3. ASSUME NEW g \in Holds, g # h
      PROVE  hold'[g] = hold[g] /\ ledger'[g] = ledger[g] /\ over'[g] = over[g]
    BY <1>1, <1>3, OthersUnsettled
<1>4. HoldsTyped'
    <2>1. \A g \in Holds : hold'[g] \in Hold /\ ledger'[g] \in Int /\ over'[g] \in Nat
        BY <1>2, <1>3 DEF TypeOK
    <2>2. /\ DOMAIN hold' = Holds /\ DOMAIN ledger' = Holds /\ DOMAIN over' = Holds
          /\ hold' = [g \in DOMAIN hold' |-> hold'[g]]
          /\ ledger' = [g \in DOMAIN ledger' |-> ledger'[g]]
          /\ over' = [g \in DOMAIN over' |-> over'[g]]
        BY <1>1 DEF SettleOpen, TypeOK
    <2> QED
        BY <2>1, <2>2 DEF HoldsTyped
<1>5. ledger[h] = Reversed(h)
    BY <1>1 DEF LedgerMatchesHolds, Reversed, Open
<1>6. hold[h].amount \in Nat /\ hold'[h].amount \in Nat
    BY <1>2 DEF TypeOK, Hold
<1>7. ledger'[h] = hold'[h].amount
    BY <1>2, <1>5, <1>6 DEF Reversed
<1>8. ASSUME NEW g \in Holds
      PROVE  ledger'[g] = IF hold'[g].state \in {"charged", "reconciling"}
                          THEN hold'[g].amount ELSE 0
    <2>1. CASE g = h
        BY <1>2, <1>7, <2>1 DEF Outcomes
    <2>2. CASE g # h
        BY <1>3, <2>2 DEF LedgerMatchesHolds
    <2> QED
        BY <2>1, <2>2
<1> QED
    BY <1>4, <1>8 DEF LedgerMatchesHolds

\* Each way a step can settle a hold is a settlement.
LEMMA CallsSettle ==
    ASSUME TypeOK, NEW h \in Holds, SettleCall(h)
    PROVE  \/ UNCHANGED <<hold, ledger, over>>
           \/ \E outcome \in Outcomes, a \in Nat : Settled(h, outcome, a, FALSE)
<1>1. hold[h].amount \in Nat
    BY DEF TypeOK, Hold
<1>2. ASSUME NEW outcome \in Outcomes, NEW a \in Nat, Settle(h, outcome, a)
      PROVE  \/ UNCHANGED <<hold, ledger, over>>
             \/ Settled(h, outcome, a, FALSE)
    BY <1>2 DEF Settle, Settleable, Settled
<1>3. CASE \E a \in Amounts : Settle(h, "charged", a)
    <2>1. PICK a \in Amounts : Settle(h, "charged", a)
        BY <1>3
    <2>2. a \in Nat /\ "charged" \in Outcomes
        BY AmountsAssumption DEF Outcomes
    <2> QED
        BY <1>2, <2>1, <2>2
<1>4. CASE Settle(h, "released", 0)
    <2>1. 0 \in Nat /\ "released" \in Outcomes
        BY DEF Outcomes
    <2> QED
        BY <1>2, <1>4, <2>1
<1>5. CASE Settle(h, "reconciling", hold[h].amount)
    <2>1. "reconciling" \in Outcomes
        BY DEF Outcomes
    <2> QED
        BY <1>1, <1>2, <1>5, <2>1
<1> QED
    BY <1>3, <1>4, <1>5 DEF SettleCall

\* Every step, a settlement or not, keeps the invariant.
LEMMA NextInv == Inv /\ [Next]_vars => Inv'
<1> SUFFICES ASSUME Inv, [Next]_vars PROVE Inv'
    OBVIOUS
<1> TypeOK /\ LedgerMatchesHolds
    BY DEF Inv
<1>1. ASSUME NEW u \in Users, NEW h \in Holds, NEW a \in Amounts, Reserve(u, h, a)
      PROVE  Inv'
    <2> DEFINE taken == [state |-> "reserved", user |-> u, period |-> period,
                         amount |-> a, resolved |-> FALSE]
    <2>1. taken \in Hold
        BY AmountsAssumption, CapsAssumption DEF Hold, TypeOK
    <2>2. /\ hold[h].state = "none" /\ hold' = [hold EXCEPT ![h] = taken]
          /\ UNCHANGED <<ledger, over, policy, userLimit, period>>
        BY <1>1 DEF Reserve
    <2>3. TypeOK'
        BY <2>1, <2>2 DEF TypeOK
    <2>4. ASSUME NEW g \in Holds
          PROVE  ledger'[g] = IF hold'[g].state \in {"charged", "reconciling"}
                              THEN hold'[g].amount ELSE 0
        <3>1. CASE g = h
            BY <2>2, <3>1 DEF LedgerMatchesHolds, TypeOK
        <3>2. CASE g # h
            BY <2>2, <3>2 DEF LedgerMatchesHolds, TypeOK
        <3> QED
            BY <3>1, <3>2
    <2> QED
        BY <2>3, <2>4 DEF Inv, LedgerMatchesHolds
<1>2. ASSUME NEW h \in Holds, SettleCall(h) PROVE Inv'
    <2>1. UNCHANGED <<policy, userLimit, period>>
        BY <1>2 DEF SettleCall, Settle
    <2>2. CASE UNCHANGED <<hold, ledger, over>>
        BY <2>1, <2>2 DEF Inv, TypeOK, LedgerMatchesHolds
    <2>3. CASE \E outcome \in Outcomes, a \in Nat : Settled(h, outcome, a, FALSE)
        <3>1. PICK outcome \in Outcomes, a \in Nat : Settled(h, outcome, a, FALSE)
            BY <2>3
        <3>2. HoldsTyped' /\ LedgerMatchesHolds'
            BY <3>1, SettlementKeepsInv
        <3> QED
            BY <2>1, <3>2 DEF Inv, TypeOK, HoldsTyped
    <2> QED
        BY <1>2, <2>2, <2>3, CallsSettle
<1>3. ASSUME NEW h \in Holds, NEW outcome \in {"charged", "released"}, NEW a \in Amounts,
             Reconcile(h, outcome, a)
      PROVE  Inv'
    <2>1. Settled(h, outcome, a, TRUE) /\ outcome \in Outcomes /\ a \in Nat
        BY <1>3, AmountsAssumption DEF Reconcile, Settled, Open, Outcomes
    <2>2. HoldsTyped' /\ LedgerMatchesHolds'
        BY <2>1, SettlementKeepsInv
    <2>3. UNCHANGED <<policy, userLimit, period>>
        BY <1>3 DEF Reconcile
    <2> QED
        BY <2>2, <2>3 DEF Inv, TypeOK, HoldsTyped
<1>4. ASSUME NEW limit \in Limits, SetInstallationLimit(limit) PROVE Inv'
    BY <1>4, AmountsAssumption DEF SetInstallationLimit, Inv, TypeOK, LedgerMatchesHolds
<1>5. ASSUME NEW u \in Users, NEW limit \in Limits, SetUserLimit(u, limit) PROVE Inv'
    <2>1. limit \in Nat
        BY AmountsAssumption
    <2>2. userLimit' \in [Users -> Nat]
        BY <1>5, <2>1 DEF SetUserLimit, TypeOK
    <2> QED
        BY <1>5, <2>2 DEF SetUserLimit, Inv, TypeOK, LedgerMatchesHolds
<1>6. CASE NextPeriod
    <2>1. period' \in 1..LastPeriod
        BY <1>6, CapsAssumption DEF NextPeriod, TypeOK
    <2> QED
        BY <1>6, <2>1 DEF NextPeriod, Inv, TypeOK, LedgerMatchesHolds
<1>7. CASE UNCHANGED vars
    BY <1>7 DEF vars, Inv, TypeOK, LedgerMatchesHolds
<1> QED
    BY <1>1, <1>2, <1>3, <1>4, <1>5, <1>6, <1>7 DEF Next

\* The invariant holds always.
LEMMA SpecInv == Spec => []Inv
BY InitInv, NextInv, PTL DEF Spec

\* Every column stays within its type.
THEOREM SpecTypeOK == Spec => []TypeOK
<1>1. Inv => TypeOK
    BY DEF Inv
<1> QED
    BY <1>1, SpecInv, PTL

\* The ledger's own total for a hold is always what the hold says is owed,
\* whatever sequence of settlements, retries and resolutions it went through.
THEOREM SpecLedgerMatchesHolds == Spec => []LedgerMatchesHolds
<1>1. Inv => LedgerMatchesHolds
    BY DEF Inv
<1> QED
    BY <1>1, SpecInv, PTL

\* A settled charge is never settled again.
THEOREM SpecSettledIsFinal == Spec => SettledIsFinal
<1> DEFINE Kept(g) == hold'[g] = hold[g] /\ ledger'[g] = ledger[g] /\ over'[g] = over[g]
           Closed(g) == hold[g].state \in {"charged", "released"}
<1>1. Inv /\ [Next]_vars =>
      [\A h \in Holds : hold[h].state \in {"charged", "released"} =>
          /\ hold'[h] = hold[h] /\ ledger'[h] = ledger[h] /\ over'[h] = over[h]]_vars
    <2> SUFFICES ASSUME Inv, [Next]_vars, NEW g \in Holds, Closed(g) PROVE Kept(g)
        OBVIOUS
    <2> TypeOK
        BY DEF Inv
    <2>1. ASSUME NEW h \in Holds, NEW outcome, NEW a, NEW byPerson, hold[h].state \in Open,
                 SettleOpen(h, outcome, a, byPerson)
          PROVE  Kept(g)
        <3>1. g # h
            BY <2>1 DEF Open
        <3> QED
            BY <2>1, <3>1, OthersUnsettled
    <2>2. ASSUME NEW u \in Users, NEW h \in Holds, NEW a \in Amounts, Reserve(u, h, a)
          PROVE  Kept(g)
        <3>1. g # h
            BY <2>2 DEF Reserve
        <3> QED
            BY <2>2, <3>1 DEF Reserve, TypeOK
    <2>3. ASSUME NEW h \in Holds, SettleCall(h) PROVE Kept(g)
        <3>1. ASSUME NEW outcome, NEW a, Settle(h, outcome, a) PROVE Kept(g)
            <4>1. CASE Settleable(h)
                BY <2>1, <3>1, <4>1 DEF Settle, Settleable
            <4>2. CASE ~Settleable(h)
                BY <3>1, <4>2 DEF Settle
            <4> QED
                BY <4>1, <4>2
        <3> QED
            BY <2>3, <3>1 DEF SettleCall
    <2>4. ASSUME NEW h \in Holds, NEW outcome \in {"charged", "released"}, NEW a \in Amounts,
                 Reconcile(h, outcome, a)
          PROVE  Kept(g)
        <3>1. hold[h].state \in Open /\ SettleOpen(h, outcome, a, TRUE)
            BY <2>4 DEF Reconcile, Open
        <3> QED
            BY <2>1, <3>1
    <2>5. ASSUME UNCHANGED <<hold, ledger, over>> PROVE Kept(g)
        BY <2>5
    <2> QED
        BY <2>2, <2>3, <2>4, <2>5
        DEF Next, vars, SetInstallationLimit, SetUserLimit, NextPeriod
<1> QED
    BY <1>1, SpecInv, PTL DEF Spec, SettledIsFinal

-----------------------------------------------------------------------------
(* Sums over finite sets, which are what the caps are compared with.       *)

\* A set of numbers has a least one.
LEMMA LeastNumber ==
    ASSUME NEW S \in SUBSET Nat, S # {}
    PROVE  \E m \in S : \A n \in S : m <= n
<1>1. IsWellFoundedOn(OpToRel(<, Nat), Nat)
    BY NatLessThanWellFounded
<1>2. PICK m \in S : \A n \in S : <<n, m>> \notin OpToRel(<, Nat)
    BY <1>1, WFMin
<1>3. \A n \in S : ~(n < m)
    BY <1>2 DEF OpToRel
<1> QED
    BY <1>3

\* A family of finite sets has one that no other is smaller than.
LEMMA SmallestSet ==
    ASSUME NEW F, F # {}, \A s \in F : IsFiniteSet(s)
    PROVE  \E s \in F : \A t \in F : Cardinality(s) <= Cardinality(t)
<1> DEFINE Sizes == {Cardinality(s) : s \in F}
<1>1. Sizes \in SUBSET Nat /\ Sizes # {}
    BY FS_CardinalityType
<1>2. PICK m \in Sizes : \A n \in Sizes : m <= n
  <2> HIDE DEF Sizes
  <2> QED
      BY <1>1, LeastNumber
<1> QED
    BY <1>2

\* The sum of f over S, as MapThenSumSet takes it: one member after another.
Some(s) == CHOOSE x \in s : TRUE
SumStep(f, sum, s) == IF s = {} THEN 0 ELSE f[Some(s)] + sum[s \ {Some(s)}]
IsSum(f, sum, S) == sum = [s \in SUBSET S |-> SumStep(f, sum, s)]
Sum(f, S) == (CHOOSE sum : IsSum(f, sum, S))[S]

LEMMA SomeIsMember == ASSUME NEW s, s # {} PROVE Some(s) \in s
BY DEF Some

\* A smaller set to sum over first.
LEMMA WithoutSome ==
    ASSUME NEW s, IsFiniteSet(s), s # {}
    PROVE  /\ IsFiniteSet(s \ {Some(s)})
           /\ Cardinality(s) \in Nat
           /\ Cardinality(s \ {Some(s)}) = Cardinality(s) - 1
BY SomeIsMember, FS_RemoveElement, FS_CardinalityType

\* The recursion has a solution: by the size of the sets it is asked for.
LEMMA SumsExist ==
    ASSUME NEW f, NEW S, IsFiniteSet(S)
    PROVE  \E sum : IsSum(f, sum, S)
<1> DEFINE Upto(n) == {s \in SUBSET S : Cardinality(s) <= n}
           Solves(sum, n) == sum = [s \in Upto(n) |-> SumStep(f, sum, s)]
           Unsolved == {n \in Nat : ~ \E sum : Solves(sum, n)}
<1>0. /\ \A s \in SUBSET S : IsFiniteSet(s) /\ Cardinality(s) \in Nat
                             /\ Cardinality(s) <= Cardinality(S)
      /\ Cardinality(S) \in Nat
    BY FS_Subset, FS_CardinalityType
<1>1. \E sum : Solves(sum, 0)
  <2> DEFINE sum == [s \in Upto(0) |-> 0]
  <2>1. \A s \in Upto(0) : s = {}
      BY <1>0, FS_EmptySet
  <2>2. \A s \in Upto(0) : SumStep(f, sum, s) = 0
      BY <2>1 DEF SumStep
  <2>3. Solves(sum, 0)
      BY <2>2
  <2> QED
      BY <2>3
<1>2. ASSUME NEW n \in Nat, NEW sum, Solves(sum, n)
      PROVE  \E next : Solves(next, n + 1)
  <2> DEFINE next == [s \in Upto(n + 1) |-> SumStep(f, sum, s)]
  <2>1. \A s \in Upto(n + 1) : s # {} => s \ {Some(s)} \in Upto(n)
      BY <1>0, WithoutSome
  <2>2. \A s \in Upto(n) : s \in Upto(n + 1) /\ next[s] = sum[s]
    <3>1. \A s \in Upto(n) : s \in Upto(n + 1)
        BY <1>0
    <3>2. \A s \in Upto(n) : sum[s] = SumStep(f, sum, s)
        BY <1>2
    <3> QED
        BY <3>1, <3>2
  <2>3. \A s \in Upto(n + 1) : SumStep(f, next, s) = SumStep(f, sum, s)
    <3> HIDE DEF next, Upto
    <3> QED
        BY <2>1, <2>2 DEF SumStep
  <2>4. Solves(next, n + 1)
    <3> HIDE DEF Upto
    <3> QED
        BY <2>3
  <2> QED
      BY <2>4
<1>3. Unsolved = {}
  <2> SUFFICES ASSUME Unsolved # {} PROVE FALSE
      OBVIOUS
  <2>1. PICK m \in Unsolved : \A n \in Unsolved : m <= n
      BY LeastNumber
  <2>2. m \in Nat /\ m # 0
      BY <1>1
  <2>3. m - 1 \in Nat /\ m - 1 \notin Unsolved
    <3> HIDE DEF Unsolved
    <3> QED
        BY <2>1, <2>2
  <2>4. PICK sum : Solves(sum, m - 1)
      BY <2>3
  <2>5. \E next : Solves(next, m - 1 + 1)
    <3> HIDE DEF Solves
    <3> QED
        BY <1>2, <2>3, <2>4
  <2>6. \E next : Solves(next, m)
    <3>1. m - 1 + 1 = m
        BY <2>2
    <3> HIDE DEF Solves
    <3> QED
        BY <2>5, <3>1
  <2>7. ~ \E next : Solves(next, m)
      OBVIOUS
  <2> QED
      BY <2>6, <2>7
<1>4. PICK sum : Solves(sum, Cardinality(S))
    BY <1>0, <1>3
<1>5. Upto(Cardinality(S)) = SUBSET S
    BY <1>0
<1> QED
    BY <1>4, <1>5 DEF IsSum

\* Two recursions agree on what both are asked for.
LEMMA SumsAgree ==
    ASSUME NEW f, NEW g, NEW S, NEW T, IsFiniteSet(S), S \subseteq T,
           \A x \in S : f[x] = g[x],
           NEW a, NEW b, IsSum(f, a, S), IsSum(g, b, T)
    PROVE  a[S] = b[S]
<1> DEFINE Differ == {s \in SUBSET S : a[s] # b[s]}
<1> SUFFICES ASSUME Differ # {} PROVE FALSE
    OBVIOUS
<1>1. \A s \in Differ : IsFiniteSet(s) /\ Cardinality(s) \in Nat
    BY FS_Subset, FS_CardinalityType
<1>2. PICK s \in Differ : \A t \in Differ : Cardinality(s) <= Cardinality(t)
  <2> HIDE DEF Differ
  <2> QED
      BY <1>1, SmallestSet
<1>3. a[s] = SumStep(f, a, s) /\ b[s] = SumStep(g, b, s)
  <2>1. a = [u \in SUBSET S |-> SumStep(f, a, u)] /\ b = [u \in SUBSET T |-> SumStep(g, b, u)]
      BY DEF IsSum
  <2>2. s \in SUBSET S /\ s \in SUBSET T
      OBVIOUS
  <2> QED
      BY ONLY <2>1, <2>2
<1>4. s # {}
    BY <1>3 DEF SumStep
<1> DEFINE r == s \ {Some(s)}
<1>5. r \in SUBSET S /\ Cardinality(r) < Cardinality(s) /\ Some(s) \in S
  <2>1. Cardinality(r) = Cardinality(s) - 1 /\ Cardinality(s) \in Nat
      BY <1>1, <1>4, WithoutSome
  <2> QED
      BY <1>4, <2>1, SomeIsMember
<1>6. a[r] = b[r]
  <2>1. r \notin Differ
    <3>1. IsFiniteSet(r) /\ Cardinality(r) \in Nat /\ Cardinality(s) \in Nat
        BY <1>1, <1>5, FS_Subset, FS_CardinalityType
    <3> HIDE DEF Differ, r
    <3> QED
        BY <1>2, <1>5, <3>1
  <2> QED
      BY <1>5, <2>1
<1> QED
    BY <1>3, <1>4, <1>5, <1>6 DEF SumStep

LEMMA SumIsSum ==
    ASSUME NEW f, NEW S, IsFiniteSet(S)
    PROVE  IsSum(f, CHOOSE sum : IsSum(f, sum, S), S)
BY SumsExist

\* Equal terms, equal sums.
LEMMA SameSum ==
    ASSUME NEW f, NEW g, NEW S, IsFiniteSet(S), \A x \in S : f[x] = g[x]
    PROVE  Sum(f, S) = Sum(g, S)
<1> DEFINE a == CHOOSE sum : IsSum(f, sum, S)
           b == CHOOSE sum : IsSum(g, sum, S)
<1>1. IsSum(f, a, S) /\ IsSum(g, b, S)
    BY SumIsSum
<1> HIDE DEF a, b
<1>2. a[S] = b[S]
    BY <1>1, SumsAgree
<1> QED
    BY <1>2 DEF Sum, a, b

\* The sum over nothing, and over a set with one member first.
LEMMA SumSteps ==
    ASSUME NEW f, NEW S, IsFiniteSet(S)
    PROVE  Sum(f, S) = IF S = {} THEN 0 ELSE f[Some(S)] + Sum(f, S \ {Some(S)})
<1> DEFINE R == S \ {Some(S)}
           a == CHOOSE sum : IsSum(f, sum, S)
           b == CHOOSE sum : IsSum(f, sum, R)
<1>1. IsFiniteSet(R)
    BY FS_Subset
<1>2. IsSum(f, a, S) /\ IsSum(f, b, R)
    BY <1>1, SumIsSum
<1>3. Sum(f, S) = a[S] /\ Sum(f, R) = b[R]
    BY DEF Sum
<1> HIDE DEF a, b
<1>4. a[S] = SumStep(f, a, S)
  <2>1. a = [s \in SUBSET S |-> SumStep(f, a, s)]
      BY <1>2 DEF IsSum
  <2>2. S \in SUBSET S
      OBVIOUS
  <2> QED
      BY ONLY <2>1, <2>2
<1>5. b[R] = a[R]
    BY <1>1, <1>2, SumsAgree
<1> QED
    BY <1>3, <1>4, <1>5 DEF SumStep

\* A sum is a number, and any member can be taken first.
LEMMA SumTakes ==
    ASSUME NEW f, NEW S, IsFiniteSet(S), \A x \in S : f[x] \in Int
    PROVE  /\ Sum(f, S) \in Int
           /\ \A x \in S : Sum(f, S) = f[x] + Sum(f, S \ {x})
<1> DEFINE Good(s) == /\ Sum(f, s) \in Int
                      /\ \A x \in s : Sum(f, s) = f[x] + Sum(f, s \ {x})
           Bad == {s \in SUBSET S : ~Good(s)}
<1> SUFFICES ASSUME Bad # {} PROVE FALSE
    OBVIOUS
<1>1. \A s \in SUBSET S : IsFiniteSet(s) /\ Cardinality(s) \in Nat
    BY FS_Subset, FS_CardinalityType
<1>2. PICK s \in Bad : \A t \in Bad : Cardinality(s) <= Cardinality(t)
  <2>1. \A t \in Bad : IsFiniteSet(t)
      BY <1>1
  <2> HIDE DEF Bad
  <2> QED
      BY <2>1, SmallestSet
<1>3. ASSUME NEW x \in s PROVE Good(s \ {x})
  <2>1. s \ {x} \in SUBSET S /\ Cardinality(s \ {x}) = Cardinality(s) - 1
      BY <1>1, FS_RemoveElement
  <2>2. Cardinality(s) \in Nat
      BY <1>1
  <2>3. s \ {x} \notin Bad
    <3> HIDE DEF Bad
    <3> QED
        BY <1>2, <2>1, <2>2
  <2> HIDE DEF Good
  <2> QED
      BY <2>1, <2>3
<1>4. IsFiniteSet(s) /\ s \in SUBSET S
    BY <1>1
<1>5. s # {}
  <2>1. Sum(f, {}) = 0
      BY SumSteps, FS_EmptySet
  <2>2. Good({})
      BY <2>1
  <2>3. ~Good(s)
      OBVIOUS
  <2> HIDE DEF Good
  <2> QED
      BY <2>2, <2>3
<1> DEFINE y == Some(s)
<1>6. y \in s /\ f[y] \in Int /\ Sum(f, s) = f[y] + Sum(f, s \ {y})
    BY <1>4, <1>5, SomeIsMember, SumSteps
<1> HIDE DEF y
<1>7. Sum(f, s \ {y}) \in Int
    BY <1>3, <1>6
<1>8. ASSUME NEW x \in s PROVE Sum(f, s) = f[x] + Sum(f, s \ {x})
  <2>1. CASE x = y
      BY <1>6, <2>1
  <2>2. CASE x # y
    <3>1. f[x] \in Int /\ x \in s \ {y} /\ y \in s \ {x}
        BY <1>4, <1>6, <2>2
    <3>2. Sum(f, s \ {y}) = f[x] + Sum(f, (s \ {y}) \ {x})
        BY <1>3, <1>6, <3>1
    <3>3. Sum(f, s \ {x}) = f[y] + Sum(f, (s \ {x}) \ {y})
        BY <1>3, <3>1
    <3>4. (s \ {y}) \ {x} = (s \ {x}) \ {y}
        OBVIOUS
    <3>5. Sum(f, (s \ {y}) \ {x}) \in Int
      <4>1. Sum(f, s \ {y}) \in Int /\ Sum(f, s \ {x}) \in Int
          BY <1>3, <1>6
      <4>2. IsFiniteSet((s \ {y}) \ {x}) /\ (s \ {y}) \ {x} \in SUBSET S
          BY <1>4, FS_Subset
      <4>3. Cardinality((s \ {y}) \ {x}) < Cardinality(s)
        <5>1. /\ IsFiniteSet(s \ {y}) /\ Cardinality(s \ {y}) = Cardinality(s) - 1
              /\ Cardinality(s) \in Nat
            BY <1>1, <1>4, <1>6, FS_RemoveElement
        <5>2. Cardinality((s \ {y}) \ {x}) = Cardinality(s \ {y}) - 1
            BY <3>1, <5>1, FS_RemoveElement
        <5> QED
            BY <5>1, <5>2
      <4>4. Cardinality((s \ {y}) \ {x}) \in Nat /\ Cardinality(s) \in Nat
          BY <1>1, <1>4, <4>2
      <4>5. (s \ {y}) \ {x} \notin Bad
        <5> HIDE DEF Bad
        <5> QED
            BY <1>2, <4>3, <4>4
      <4> QED
          BY <4>2, <4>5
    <3> DEFINE rest == Sum(f, (s \ {y}) \ {x})
    <3>6. Sum(f, s \ {x}) = f[y] + rest /\ Sum(f, s \ {y}) = f[x] + rest
        BY <3>2, <3>3, <3>4
    <3>7. rest \in Int /\ f[x] \in Int /\ f[y] \in Int
        BY <1>6, <3>1, <3>5
    <3>8. Sum(f, s) = f[y] + Sum(f, s \ {y})
        BY <1>6
    <3> HIDE DEF rest
    <3> QED
        BY ONLY <3>6, <3>7, <3>8
  <2> QED
      BY <2>1, <2>2
<1>9. Sum(f, s) \in Int
    BY <1>6, <1>7
<1> QED
    BY <1>8, <1>9

\* Two sums that differ in the terms of h alone.
LEMMA OneTerm ==
    ASSUME NEW A, NEW B, IsFiniteSet(A), IsFiniteSet(B), NEW h, A \ {h} = B \ {h},
           NEW f, NEW g, \A x \in A : f[x] \in Int, \A x \in B : g[x] \in Int,
           \A x \in A \ {h} : f[x] = g[x]
    PROVE  /\ Sum(f, A) \in Int /\ Sum(g, B) \in Int
           /\ Sum(g, B) - Sum(f, A) = (IF h \in B THEN g[h] ELSE 0) - (IF h \in A THEN f[h] ELSE 0)
<1> DEFINE C == A \ {h}
<1>1. IsFiniteSet(C) /\ Sum(f, C) = Sum(g, C)
    BY FS_Subset, SameSum
<1>2. Sum(f, C) \in Int
    BY <1>1, SumTakes
<1>3. Sum(f, A) \in Int /\ Sum(f, A) = (IF h \in A THEN f[h] ELSE 0) + Sum(f, C)
  <2>1. CASE h \in A
      BY <1>2, <2>1, SumTakes
  <2>2. CASE h \notin A
    <3>1. A = C
        BY <2>2
    <3> HIDE DEF C
    <3> QED
        BY <1>2, <2>2, <3>1
  <2> QED
      BY <2>1, <2>2
<1>4. Sum(g, B) \in Int /\ Sum(g, B) = (IF h \in B THEN g[h] ELSE 0) + Sum(g, C)
  <2>0. B \ {h} = C
      OBVIOUS
  <2>1. CASE h \in B
      BY <1>2, <2>0, <2>1, SumTakes
  <2>2. CASE h \notin B
    <3>1. B = C
        BY <2>2
    <3> HIDE DEF C
    <3> QED
        BY <1>1, <1>2, <2>2, <3>1
  <2> QED
      BY <2>1, <2>2
<1>5. /\ h \in A => f[h] \in Int
      /\ h \in B => g[h] \in Int
    OBVIOUS
<1> QED
    BY <1>1, <1>2, <1>3, <1>4, <1>5

-----------------------------------------------------------------------------
(* Caps.                                                                   *)

Amount == [h \in Holds |-> hold[h].amount]

OwnHolds(u, p) == {h \in CountedHolds(p) : hold[h].user = u}
NamedHolds(us) == {h \in Holds : hold[h].user \in us}

\* There are only finitely many rows, and a row is one that an account has.
Accounted == /\ IsFiniteSet({h \in Holds : hold[h].state # "none"})
             /\ \A h \in Holds : hold[h].state # "none" <=> hold[h].user \in Users

CapInv == Inv /\ Accounted

\* The totals are such sums, before a step and after it.
LEMMA CommittedIsSum ==
    ASSUME NEW p
    PROVE  /\ Committed(p) = Sum(Amount, CountedHolds(p))
           /\ Committed(p)' = Sum(Amount', CountedHolds(p)')
<1>1. CountedHolds(p) \subseteq Holds /\ CountedHolds(p)' \subseteq Holds
    BY DEF CountedHolds
<1>2. Committed(p) = Sum(Amount, CountedHolds(p))
    BY <1>1 DEF Committed, Total, MapThenSumSet, MapThenFoldSet, Sum, IsSum, SumStep, Some, Amount
<1>3. Committed(p)' = Sum(Amount', CountedHolds(p)')
    BY <1>1 DEF Committed, Total, MapThenSumSet, MapThenFoldSet, Sum, IsSum, SumStep, Some, Amount
<1> QED
    BY <1>2, <1>3

LEMMA OwnIsSum ==
    ASSUME NEW u, NEW p
    PROVE  /\ CommittedBy(u, p) = Sum(Amount, OwnHolds(u, p))
           /\ CommittedBy(u, p)' = Sum(Amount', OwnHolds(u, p)')
<1>1. OwnHolds(u, p) \subseteq Holds /\ OwnHolds(u, p)' \subseteq Holds
    BY DEF CountedHolds, OwnHolds
<1>2. /\ CommittedBy(u, p) = Total(OwnHolds(u, p))
      /\ CommittedBy(u, p)' = Total(OwnHolds(u, p))'
    BY DEF CommittedBy, OwnHolds
<1>3. Total(OwnHolds(u, p)) = Sum(Amount, OwnHolds(u, p))
    BY <1>1 DEF Total, MapThenSumSet, MapThenFoldSet, Sum, IsSum, SumStep, Some, Amount
<1>4. Total(OwnHolds(u, p))' = Sum(Amount', OwnHolds(u, p)')
    BY <1>1 DEF Total, MapThenSumSet, MapThenFoldSet, Sum, IsSum, SumStep, Some, Amount
<1> QED
    BY <1>2, <1>3, <1>4

LEMMA NamedIsSum ==
    ASSUME NEW us
    PROVE  /\ Named(us) = Sum(over, NamedHolds(us))
           /\ Named(us)' = Sum(over', NamedHolds(us)')
<1>1. NamedHolds(us) \subseteq Holds /\ NamedHolds(us)' \subseteq Holds
    BY DEF NamedHolds
<1>2. Named(us) = Sum(over, NamedHolds(us))
    BY DEF Named, NamedHolds, MapThenSumSet, MapThenFoldSet, Sum, IsSum, SumStep, Some
<1>3. Named(us)' = Sum(over', NamedHolds(us)')
    BY DEF Named, NamedHolds, MapThenSumSet, MapThenFoldSet, Sum, IsSum, SumStep, Some
<1> QED
    BY <1>2, <1>3

\* What is summed over is finite: each of its rows has an account.
LEMMA SummedAreFinite ==
    ASSUME Accounted
    PROVE  /\ \A p : IsFiniteSet(CountedHolds(p))
           /\ \A u, p : IsFiniteSet(OwnHolds(u, p))
           /\ \A us \in SUBSET Users : IsFiniteSet(NamedHolds(us))
<1> DEFINE Taken == {h \in Holds : hold[h].state # "none"}
<1>1. IsFiniteSet(Taken)
    BY DEF Accounted
<1>2. \A p : CountedHolds(p) \subseteq Taken
    BY DEF CountedHolds, Counted, Open
<1>3. \A u, p : OwnHolds(u, p) \subseteq CountedHolds(p)
    BY DEF OwnHolds
<1>4. \A us \in SUBSET Users : NamedHolds(us) \subseteq Taken
    BY DEF Accounted, NamedHolds
<1> HIDE DEF Taken
<1> QED
    BY <1>1, <1>2, <1>3, <1>4, FS_Subset

LEMMA SummedStayFinite ==
    ASSUME Accounted'
    PROVE  /\ \A p : IsFiniteSet(CountedHolds(p)')
           /\ \A u, p : IsFiniteSet(OwnHolds(u, p)')
           /\ \A us \in SUBSET Users : IsFiniteSet(NamedHolds(us)')
<1> DEFINE Taken == {h \in Holds : hold'[h].state # "none"}
<1>1. IsFiniteSet(Taken)
    BY DEF Accounted
<1>2. \A p : CountedHolds(p)' \subseteq Taken
    BY DEF CountedHolds, Counted, Open
<1>3. \A u, p : OwnHolds(u, p)' \subseteq CountedHolds(p)'
    BY DEF OwnHolds
<1>4. \A us \in SUBSET Users : NamedHolds(us)' \subseteq Taken
    BY DEF Accounted, NamedHolds
<1> HIDE DEF Taken
<1> QED
    BY <1>1, <1>2, <1>3, <1>4, FS_Subset

\* The term a row contributes to each.
Counts(h, p) == IF h \in CountedHolds(p) THEN hold[h].amount ELSE 0
CountsFor(h, u, p) == IF h \in OwnHolds(u, p) THEN hold[h].amount ELSE 0
Names(h, us) == IF h \in NamedHolds(us) THEN over[h] ELSE 0

\* Where one row moves, each total moves by as much as the row's term does.
LEMMA OneRowMoves ==
    ASSUME TypeOK, TypeOK', Accounted, Accounted', NEW h \in Holds,
           \A g \in Holds \ {h} : hold'[g] = hold[g] /\ over'[g] = over[g]
    PROVE  /\ \A p : /\ Committed(p) \in Int /\ Committed(p)' \in Int
                     /\ Committed(p)' - Committed(p) = Counts(h, p)' - Counts(h, p)
           /\ \A u, p : /\ CommittedBy(u, p) \in Int /\ CommittedBy(u, p)' \in Int
                        /\ CommittedBy(u, p)' - CommittedBy(u, p)
                              = CountsFor(h, u, p)' - CountsFor(h, u, p)
           /\ \A us \in SUBSET Users :
                /\ Named(us) \in Int /\ Named(us)' \in Int
                /\ Named(us)' - Named(us) = Names(h, us)' - Names(h, us)
<1>1. \A g \in Holds : /\ Amount[g] = hold[g].amount /\ Amount'[g] = hold'[g].amount
                       /\ Amount[g] \in Int /\ Amount'[g] \in Int
                       /\ over[g] \in Int /\ over'[g] \in Int
    BY DEF Amount, TypeOK, Hold
<1>2. \A g \in Holds \ {h} : Amount'[g] = Amount[g]
    BY <1>1
<1>3. ASSUME NEW p
      PROVE  /\ Committed(p) \in Int /\ Committed(p)' \in Int
             /\ Committed(p)' - Committed(p) = Counts(h, p)' - Counts(h, p)
  <2> DEFINE A == CountedHolds(p)
             B == CountedHolds(p)'
  <2>1. IsFiniteSet(A) /\ IsFiniteSet(B)
      BY SummedAreFinite, SummedStayFinite
  <2>2. A \subseteq Holds /\ B \subseteq Holds /\ A \ {h} = B \ {h}
      BY DEF CountedHolds
  <2>3. /\ Counts(h, p) = IF h \in A THEN Amount[h] ELSE 0
        /\ Counts(h, p)' = IF h \in B THEN Amount'[h] ELSE 0
      BY <1>1 DEF Counts
  <2>4. Committed(p) = Sum(Amount, A) /\ Committed(p)' = Sum(Amount', B)
      BY CommittedIsSum
  <2> HIDE DEF A, B
  <2>5. /\ Sum(Amount, A) \in Int /\ Sum(Amount', B) \in Int
        /\ Sum(Amount', B) - Sum(Amount, A)
              = (IF h \in B THEN Amount'[h] ELSE 0) - (IF h \in A THEN Amount[h] ELSE 0)
      BY <1>1, <1>2, <2>1, <2>2, OneTerm
  <2> QED
      BY <2>3, <2>4, <2>5
<1>4. ASSUME NEW u, NEW p
      PROVE  /\ CommittedBy(u, p) \in Int /\ CommittedBy(u, p)' \in Int
             /\ CommittedBy(u, p)' - CommittedBy(u, p)
                   = CountsFor(h, u, p)' - CountsFor(h, u, p)
  <2> DEFINE A == OwnHolds(u, p)
             B == OwnHolds(u, p)'
  <2>1. IsFiniteSet(A) /\ IsFiniteSet(B)
      BY SummedAreFinite, SummedStayFinite
  <2>2. A \subseteq Holds /\ B \subseteq Holds /\ A \ {h} = B \ {h}
      BY DEF CountedHolds, OwnHolds
  <2>3. /\ CountsFor(h, u, p) = IF h \in A THEN Amount[h] ELSE 0
        /\ CountsFor(h, u, p)' = IF h \in B THEN Amount'[h] ELSE 0
      BY <1>1 DEF CountsFor
  <2>4. CommittedBy(u, p) = Sum(Amount, A) /\ CommittedBy(u, p)' = Sum(Amount', B)
      BY OwnIsSum
  <2> HIDE DEF A, B
  <2>5. /\ Sum(Amount, A) \in Int /\ Sum(Amount', B) \in Int
        /\ Sum(Amount', B) - Sum(Amount, A)
              = (IF h \in B THEN Amount'[h] ELSE 0) - (IF h \in A THEN Amount[h] ELSE 0)
      BY <1>1, <1>2, <2>1, <2>2, OneTerm
  <2> QED
      BY <2>3, <2>4, <2>5
<1>5. ASSUME NEW us \in SUBSET Users
      PROVE  /\ Named(us) \in Int /\ Named(us)' \in Int
             /\ Named(us)' - Named(us) = Names(h, us)' - Names(h, us)
  <2> DEFINE A == NamedHolds(us)
             B == NamedHolds(us)'
  <2>1. IsFiniteSet(A) /\ IsFiniteSet(B)
      BY SummedAreFinite, SummedStayFinite
  <2>2. A \subseteq Holds /\ B \subseteq Holds /\ A \ {h} = B \ {h}
      BY DEF NamedHolds
  <2>3. /\ Names(h, us) = IF h \in A THEN over[h] ELSE 0
        /\ Names(h, us)' = IF h \in B THEN over'[h] ELSE 0
      BY DEF Names
  <2>4. Named(us) = Sum(over, A) /\ Named(us)' = Sum(over', B)
      BY NamedIsSum
  <2> HIDE DEF A, B
  <2>5. /\ Sum(over, A) \in Int /\ Sum(over', B) \in Int
        /\ Sum(over', B) - Sum(over, A)
              = (IF h \in B THEN over'[h] ELSE 0) - (IF h \in A THEN over[h] ELSE 0)
      BY <1>1, <2>1, <2>2, OneTerm
  <2> QED
      BY <2>3, <2>4, <2>5
<1> QED
    BY <1>3, <1>4, <1>5

\* The tables begin empty.
LEMMA InitCapInv == Init => CapInv
<1> SUFFICES ASSUME Init PROVE CapInv
    OBVIOUS
<1>1. {h \in Holds : hold[h].state # "none"} = {}
    BY DEF Init, NoHold
<1>2. \A h \in Holds : hold[h].state = "none" /\ hold[h].user \notin Users
    BY UsersAssumption DEF Init, NoHold
<1>3. Accounted
    BY <1>1, <1>2, FS_EmptySet DEF Accounted
<1> QED
    BY <1>3, InitInv DEF CapInv

\* What a step does to the rows: it takes one, settles one, or leaves all alone.
Takes(h, u, a) == /\ hold[h].state = "none" /\ hold'[h].user = u
                  /\ hold'[h].state = "reserved" /\ hold'[h].period = period
                  /\ hold'[h].amount = a /\ over'[h] = over[h]
                  /\ Headroom(u, a)

Closes(h) == /\ hold[h].state \in Open /\ hold'[h].state \in Outcomes
             /\ hold'[h].user = hold[h].user /\ hold'[h].period = hold[h].period
             /\ over'[h] = over[h] + Excess(h, hold'[h].amount)

OnlyOf(h) == \A g \in Holds \ {h} : hold'[g] = hold[g] /\ over'[g] = over[g]

LEMMA SettlesOneRow ==
    ASSUME TypeOK, NEW h \in Holds, NEW outcome \in Outcomes, NEW a \in Nat,
           NEW byPerson \in BOOLEAN, Settled(h, outcome, a, byPerson)
    PROVE  OnlyOf(h) /\ Closes(h)
<1>1. SettleOpen(h, outcome, a, byPerson) /\ hold[h].state \in Open
    BY DEF Settled
<1>2. hold'[h] = [hold[h] EXCEPT !.state = outcome, !.amount = Owed(outcome, a),
                                 !.resolved = byPerson]
    BY <1>1 DEF SettleOpen, TypeOK
<1>3. hold[h] \in Hold
    BY DEF TypeOK
<1>4. /\ hold'[h].state = outcome /\ hold'[h].amount = Owed(outcome, a)
      /\ hold'[h].user = hold[h].user /\ hold'[h].period = hold[h].period
    BY <1>2, <1>3 DEF Hold
<1>5. over'[h] = over[h] + Excess(h, Owed(outcome, a))
    BY <1>1 DEF SettleOpen, TypeOK
<1>6. OnlyOf(h)
    BY <1>1, OthersUnsettled DEF OnlyOf
<1> QED
    BY <1>1, <1>4, <1>5, <1>6 DEF Closes

LEMMA StepMovesOneRow ==
    ASSUME TypeOK, [Next]_vars
    PROVE  \/ UNCHANGED <<hold, over>>
           \/ \E h \in Holds : /\ OnlyOf(h)
                               /\ Closes(h) \/ \E u \in Users, a \in Nat : Takes(h, u, a)
<1>1. ASSUME NEW u \in Users, NEW h \in Holds, NEW a \in Amounts, Reserve(u, h, a)
      PROVE  OnlyOf(h) /\ Takes(h, u, a) /\ a \in Nat
    BY <1>1, AmountsAssumption DEF Reserve, TypeOK, OnlyOf, Takes
<1>2. ASSUME NEW h \in Holds, SettleCall(h)
      PROVE  UNCHANGED <<hold, over>> \/ (OnlyOf(h) /\ Closes(h))
  <2>1. CASE \E outcome \in Outcomes, a \in Nat : Settled(h, outcome, a, FALSE)
      BY <2>1, SettlesOneRow
  <2> QED
      BY <1>2, <2>1, CallsSettle
<1>3. ASSUME NEW h \in Holds, NEW outcome \in {"charged", "released"}, NEW a \in Amounts,
             Reconcile(h, outcome, a)
      PROVE  OnlyOf(h) /\ Closes(h)
  <2>1. Settled(h, outcome, a, TRUE) /\ outcome \in Outcomes /\ a \in Nat
      BY <1>3, AmountsAssumption DEF Reconcile, Settled, Open, Outcomes
  <2> QED
      BY <2>1, SettlesOneRow
<1> QED
    BY <1>1, <1>2, <1>3 DEF Next, vars, SetInstallationLimit, SetUserLimit, NextPeriod

\* A row is taken for an account, and stays that account's.
LEMMA NextAccounted == TypeOK /\ Accounted /\ [Next]_vars => Accounted'
<1> SUFFICES ASSUME TypeOK, Accounted, [Next]_vars PROVE Accounted'
    OBVIOUS
<1> DEFINE Taken == {h \in Holds : hold[h].state # "none"}
           Later == {h \in Holds : hold'[h].state # "none"}
<1>1. CASE UNCHANGED <<hold, over>>
    BY <1>1 DEF Accounted
<1>2. ASSUME NEW h \in Holds, OnlyOf(h),
             Closes(h) \/ \E u \in Users, a \in Nat : Takes(h, u, a)
      PROVE  Accounted'
  <2>1. hold'[h].state # "none" /\ hold'[h].user \in Users
      BY <1>2 DEF Closes, Takes, Outcomes, Open, Accounted
  <2>2. \A g \in Holds : hold'[g].state # "none" <=> hold'[g].user \in Users
      BY <1>2, <2>1 DEF OnlyOf, Accounted
  <2>3. Later = Taken \cup {h}
      BY <1>2, <2>1 DEF OnlyOf
  <2>4. IsFiniteSet(Later)
    <3>1. IsFiniteSet(Taken)
        BY DEF Accounted
    <3> HIDE DEF Taken, Later
    <3> QED
        BY <2>3, <3>1, FS_AddElement
  <2> QED
      BY <2>2, <2>4 DEF Accounted
<1> QED
    BY <1>1, <1>2, StepMovesOneRow

LEMMA NextCapInv == CapInv /\ [Next]_vars => CapInv'
BY NextInv, NextAccounted DEF CapInv, Inv

LEMMA SpecCapInv == Spec => []CapInv
BY InitCapInv, NextCapInv, PTL DEF Spec

\* What is left of a cap after a hold that fits it is taken.
LEMMA TakingKeepsUnder ==
    ASSUME CapInv, CapInv', NEW h \in Holds, NEW u \in Users, NEW a \in Nat,
           OnlyOf(h), Takes(h, u, a)
    PROVE  /\ \A v \in Users, p \in 1..LastPeriod :
                userLimit[v] > 0 /\ CommittedBy(v, p)' > userLimit[v] =>
                    CommittedBy(v, p)' - CommittedBy(v, p) <= Named({v})' - Named({v})
           /\ \A p \in 1..LastPeriod :
                InstallationLimit > 0 /\ Committed(p)' > InstallationLimit =>
                    Committed(p)' - Committed(p) <= Named(Users)' - Named(Users)
<1>1. TypeOK /\ TypeOK' /\ Accounted /\ Accounted'
    BY DEF CapInv, Inv
<1>2. \A g \in Holds \ {h} : hold'[g] = hold[g] /\ over'[g] = over[g]
    BY DEF OnlyOf
<1>3. \A us \in SUBSET Users : /\ Named(us) \in Int /\ Named(us)' \in Int
                               /\ Named(us)' - Named(us) >= 0
  <2>1. \A us \in SUBSET Users : /\ Named(us) \in Int /\ Named(us)' \in Int
                                 /\ Named(us)' - Named(us) = Names(h, us)' - Names(h, us)
      BY <1>1, <1>2, OneRowMoves
  <2>2. \A us \in SUBSET Users : Names(h, us) = 0
      BY <1>1 DEF Names, NamedHolds, Takes, Accounted
  <2>3. \A us \in SUBSET Users : Names(h, us)' \in Nat
      BY <1>1 DEF Names, TypeOK
  <2> QED
      BY <2>1, <2>2, <2>3
<1>4. ASSUME NEW v \in Users, NEW p \in 1..LastPeriod, userLimit[v] > 0,
             CommittedBy(v, p)' > userLimit[v]
      PROVE  CommittedBy(v, p)' - CommittedBy(v, p) <= Named({v})' - Named({v})
  <2>1. /\ CommittedBy(v, p) \in Int /\ CommittedBy(v, p)' \in Int
        /\ CommittedBy(v, p)' - CommittedBy(v, p)
              = CountsFor(h, v, p)' - CountsFor(h, v, p)
      BY <1>1, <1>2, OneRowMoves
  <2>2. CountsFor(h, v, p) = 0
      BY DEF CountsFor, OwnHolds, CountedHolds, Counted, Open, Takes
  <2>3. v # u \/ p # period
    <3> SUFFICES ASSUME v = u, p = period PROVE FALSE
        OBVIOUS
    <3>1. CountsFor(h, v, p)' = a
        BY DEF CountsFor, OwnHolds, CountedHolds, Counted, Open, Takes
    <3>2. CommittedBy(v, p) + a <= userLimit[v]
        BY <1>4 DEF Takes, Headroom, Fits
    <3>3. userLimit[v] \in Nat
        BY <1>1 DEF TypeOK
    <3> QED
        BY <1>4, <2>1, <2>2, <3>1, <3>2, <3>3
  <2>4. CountsFor(h, v, p)' = 0
      BY <2>3 DEF CountsFor, OwnHolds, CountedHolds, Takes
  <2>5. /\ Named({v}) \in Int /\ Named({v})' \in Int
        /\ Named({v})' - Named({v}) >= 0
      BY <1>3
  <2> QED
      BY <2>1, <2>2, <2>4, <2>5
<1>5. ASSUME NEW p \in 1..LastPeriod, InstallationLimit > 0,
             Committed(p)' > InstallationLimit
      PROVE  Committed(p)' - Committed(p) <= Named(Users)' - Named(Users)
  <2>1. /\ Committed(p) \in Int /\ Committed(p)' \in Int
        /\ Committed(p)' - Committed(p) = Counts(h, p)' - Counts(h, p)
      BY <1>1, <1>2, OneRowMoves
  <2>2. Counts(h, p) = 0
      BY DEF Counts, CountedHolds, Counted, Open, Takes
  <2>3. p # period
    <3> SUFFICES ASSUME p = period PROVE FALSE
        OBVIOUS
    <3>1. Counts(h, p)' = a
        BY DEF Counts, CountedHolds, Counted, Open, Takes
    <3>2. Committed(p) + a <= InstallationLimit
        BY <1>5 DEF Takes, Headroom, Fits
    <3>3. InstallationLimit \in Nat
        BY <1>1, CapsAssumption DEF TypeOK, InstallationLimit
    <3> QED
        BY <1>5, <2>1, <2>2, <3>1, <3>2, <3>3
  <2>4. Counts(h, p)' = 0
      BY <2>3 DEF Counts, CountedHolds, Takes
  <2>5. /\ Named(Users) \in Int /\ Named(Users)' \in Int
        /\ Named(Users)' - Named(Users) >= 0
      BY <1>3
  <2> QED
      BY <2>1, <2>2, <2>4, <2>5
<1> QED
    BY <1>4, <1>5

\* A settlement names all that it adds to a total.
LEMMA ClosingNamesIncrease ==
    ASSUME CapInv, CapInv', NEW h \in Holds, OnlyOf(h), Closes(h)
    PROVE  /\ \A v \in Users, p \in 1..LastPeriod :
                CommittedBy(v, p)' - CommittedBy(v, p) <= Named({v})' - Named({v})
           /\ \A p \in 1..LastPeriod :
                Committed(p)' - Committed(p) <= Named(Users)' - Named(Users)
<1>1. TypeOK /\ TypeOK' /\ Accounted /\ Accounted'
    BY DEF CapInv, Inv
<1>2. \A g \in Holds \ {h} : hold'[g] = hold[g] /\ over'[g] = over[g]
    BY DEF OnlyOf
<1>3. /\ hold[h].amount \in Nat /\ hold'[h].amount \in Nat
      /\ over[h] \in Nat /\ over'[h] \in Nat
    BY <1>1 DEF TypeOK, Hold
<1>4. /\ hold'[h].amount - hold[h].amount <= over'[h] - over[h]
      /\ 0 <= over'[h] - over[h]
  <2>1. over'[h] = over[h] + Excess(h, hold'[h].amount)
      BY DEF Closes
  <2> QED
      BY <1>3, <2>1 DEF Excess
<1>5. ASSUME NEW v \in Users, NEW p \in 1..LastPeriod
      PROVE  CommittedBy(v, p)' - CommittedBy(v, p) <= Named({v})' - Named({v})
  <2>1. /\ CommittedBy(v, p)' - CommittedBy(v, p)
              = CountsFor(h, v, p)' - CountsFor(h, v, p)
        /\ Named({v})' - Named({v}) = Names(h, {v})' - Names(h, {v})
      BY <1>1, <1>2, OneRowMoves
  <2>2. CASE hold[h].user = v
    <3>1. Names(h, {v}) = over[h] /\ Names(h, {v})' = over'[h]
        BY <2>2 DEF Names, NamedHolds, Closes
    <3>2. CASE hold[h].period = p
      <4>1. CountsFor(h, v, p) = hold[h].amount
          BY <2>2, <3>2 DEF CountsFor, OwnHolds, CountedHolds, Counted, Closes
      <4>2. CountsFor(h, v, p)' = hold'[h].amount \/ CountsFor(h, v, p)' = 0
          BY DEF CountsFor
      <4> QED
          BY <1>3, <1>4, <2>1, <3>1, <4>1, <4>2
    <3>3. CASE hold[h].period # p
      <4>1. CountsFor(h, v, p) = 0 /\ CountsFor(h, v, p)' = 0
          BY <3>3 DEF CountsFor, OwnHolds, CountedHolds, Closes
      <4> QED
          BY <1>3, <1>4, <2>1, <3>1, <4>1
    <3> QED
        BY <3>2, <3>3
  <2>3. CASE hold[h].user # v
    <3>1. CountsFor(h, v, p) = 0 /\ CountsFor(h, v, p)' = 0
        BY <2>3 DEF CountsFor, OwnHolds, Closes
    <3>2. Names(h, {v}) = 0 /\ Names(h, {v})' = 0
        BY <2>3 DEF Names, NamedHolds, Closes
    <3> QED
        BY <2>1, <3>1, <3>2
  <2> QED
      BY <2>2, <2>3
<1>6. ASSUME NEW p \in 1..LastPeriod
      PROVE  Committed(p)' - Committed(p) <= Named(Users)' - Named(Users)
  <2>1. /\ Committed(p)' - Committed(p) = Counts(h, p)' - Counts(h, p)
        /\ Named(Users)' - Named(Users) = Names(h, Users)' - Names(h, Users)
      BY <1>1, <1>2, OneRowMoves
  <2>2. Names(h, Users) = over[h] /\ Names(h, Users)' = over'[h]
      BY <1>1 DEF Names, NamedHolds, Closes, Accounted, Open
  <2>3. CASE hold[h].period = p
    <3>1. Counts(h, p) = hold[h].amount
        BY <2>3 DEF Counts, CountedHolds, Counted, Closes
    <3>2. Counts(h, p)' = hold'[h].amount \/ Counts(h, p)' = 0
        BY DEF Counts
    <3> QED
        BY <1>3, <1>4, <2>1, <2>2, <3>1, <3>2
  <2>4. CASE hold[h].period # p
    <3>1. Counts(h, p) = 0 /\ Counts(h, p)' = 0
        BY <2>4 DEF Counts, CountedHolds, Closes
    <3> QED
        BY <1>3, <1>4, <2>1, <2>2, <3>1
  <2> QED
      BY <2>3, <2>4
<1> QED
    BY <1>5, <1>6

\* A step that leaves the rows alone leaves the totals.
LEMMA UnmovedTotals ==
    ASSUME Accounted, TypeOK, UNCHANGED <<hold, over>>
    PROVE  /\ \A v \in Users, p \in 1..LastPeriod :
                CommittedBy(v, p)' - CommittedBy(v, p) <= Named({v})' - Named({v})
           /\ \A p \in 1..LastPeriod :
                Committed(p)' - Committed(p) <= Named(Users)' - Named(Users)
<1>1. Amount' = Amount /\ over' = over
    BY DEF Amount
<1>2. \A p : CountedHolds(p)' = CountedHolds(p)
    BY DEF CountedHolds
<1>3. \A u, p : OwnHolds(u, p)' = OwnHolds(u, p)
    BY <1>2 DEF OwnHolds
<1>4. \A us : NamedHolds(us)' = NamedHolds(us)
    BY DEF NamedHolds
<1>5. /\ \A p : IsFiniteSet(CountedHolds(p)) /\ CountedHolds(p) \subseteq Holds
      /\ \A u, p : IsFiniteSet(OwnHolds(u, p)) /\ OwnHolds(u, p) \subseteq Holds
      /\ \A us \in SUBSET Users : IsFiniteSet(NamedHolds(us)) /\ NamedHolds(us) \subseteq Holds
    BY SummedAreFinite DEF CountedHolds, OwnHolds, NamedHolds
<1>6. \A g \in Holds : Amount[g] \in Int /\ over[g] \in Int
    BY DEF Amount, TypeOK, Hold
<1>7. /\ \A p : Committed(p)' = Committed(p) /\ Committed(p) \in Int
      /\ \A u, p : CommittedBy(u, p)' = CommittedBy(u, p) /\ CommittedBy(u, p) \in Int
      /\ \A us \in SUBSET Users : Named(us)' = Named(us) /\ Named(us) \in Int
  <2>1. ASSUME NEW p PROVE Committed(p)' = Committed(p) /\ Committed(p) \in Int
    <3>1. Sum(Amount, CountedHolds(p)) \in Int
        BY <1>5, <1>6, SumTakes
    <3> QED
        BY <1>1, <1>2, <3>1, CommittedIsSum
  <2>2. ASSUME NEW u, NEW p
        PROVE  CommittedBy(u, p)' = CommittedBy(u, p) /\ CommittedBy(u, p) \in Int
    <3>1. Sum(Amount, OwnHolds(u, p)) \in Int
        BY <1>5, <1>6, SumTakes
    <3> QED
        BY <1>1, <1>3, <3>1, OwnIsSum
  <2>3. ASSUME NEW us \in SUBSET Users PROVE Named(us)' = Named(us) /\ Named(us) \in Int
    <3>1. Sum(over, NamedHolds(us)) \in Int
        BY <1>5, <1>6, SumTakes
    <3> QED
        BY <1>1, <1>4, <3>1, NamedIsSum
  <2> QED
      BY <2>1, <2>2, <2>3
<1>8. \A v \in Users : {v} \in SUBSET Users
    OBVIOUS
<1>9. Users \in SUBSET Users
    OBVIOUS
<1> QED
    BY <1>7, <1>8, <1>9

\* While the caps stand, no step takes a committed total above its cap by more
\* than the incidents it writes name: a call that is let in fits what is left,
\* and only a bill larger than its hold can pass the cap, by what is written down.
THEOREM SpecCapsArePassedOnlyByNamedExcess == Spec => CapsArePassedOnlyByNamedExcess
<1> DEFINE Named1 ==
        /\ \A u \in Users, p \in 1..LastPeriod :
              userLimit[u] > 0 /\ CommittedBy(u, p)' > userLimit[u] =>
                  CommittedBy(u, p)' - CommittedBy(u, p) <= Named({u})' - Named({u})
        /\ \A p \in 1..LastPeriod :
              InstallationLimit > 0 /\ Committed(p)' > InstallationLimit =>
                  Committed(p)' - Committed(p) <= Named(Users)' - Named(Users)
<1>1. CapInv /\ [Next]_vars => Named1
  <2> SUFFICES ASSUME CapInv, [Next]_vars PROVE Named1
      OBVIOUS
  <2>1. TypeOK /\ Accounted /\ CapInv'
      BY NextCapInv DEF CapInv, Inv
  <2>2. CASE UNCHANGED <<hold, over>>
      BY <2>1, <2>2, UnmovedTotals
  <2>3. ASSUME NEW h \in Holds, OnlyOf(h), Closes(h) PROVE Named1
      BY <2>1, <2>3, ClosingNamesIncrease
  <2>4. ASSUME NEW h \in Holds, OnlyOf(h), NEW u \in Users, NEW a \in Nat, Takes(h, u, a)
        PROVE  Named1
      BY <2>1, <2>4, TakingKeepsUnder
  <2> HIDE DEF Named1
  <2> QED
      BY <2>1, <2>2, <2>3, <2>4, StepMovesOneRow
<1>2. CapInv /\ [Next]_vars => [(UNCHANGED <<policy, userLimit>>) => Named1]_vars
    BY <1>1
<1> QED
    BY <1>2, SpecCapInv, PTL DEF Spec, CapsArePassedOnlyByNamedExcess
=============================================================================
