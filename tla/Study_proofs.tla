----------------------------- MODULE Study_proofs -----------------------------
(***************************************************************************)
(* What an account keeps, lends and studies, for any accounts, decks,      *)
(* cards, ratings and days.  A schedule is recomputed from the reviews     *)
(* behind it, so what it says is proved by induction over their history.   *)
(***************************************************************************)
EXTENDS Study, SequenceTheorems, FiniteSetTheorems, WellFoundedInduction, TLAPS

-----------------------------------------------------------------------------
(* Induction over numbers, as a fact about sets of them.                     *)

\* A set of numbers has a least one.
LEMMA LeastNumber ==
    ASSUME NEW S \in SUBSET Nat, S # {}
    PROVE  \E m \in S : \A n \in S : m <= n
<1>1. IsWellFoundedOn(OpToRel(<, Nat), Nat)
  BY NatLessThanWellFounded
<1>2. PICK m \in S : \A n \in S : <<n, m>> \notin OpToRel(<, Nat)
  BY <1>1, WFMin
<1>3. \A n \in S : ~(n < m)
  BY <1>2 DEF OpToRel
<1>4. QED
  BY <1>3

\* A set that has 0, and with each number up to a bound the next, has them all.
LEMMA NumbersUpTo ==
    ASSUME NEW top \in Nat, NEW S, 0 \in S,
           \A n \in 0 .. top - 1 : n \in S => n + 1 \in S
    PROVE  0 .. top \subseteq S
<1> SUFFICES ASSUME (0 .. top) \ S # {}
             PROVE  FALSE
  OBVIOUS
<1>1. PICK m \in (0 .. top) \ S : \A n \in (0 .. top) \ S : m <= n
  BY LeastNumber, (0 .. top) \ S \in SUBSET Nat
<1>2. m # 0 /\ m - 1 \in 0 .. top - 1 /\ m - 1 \notin (0 .. top) \ S
  BY <1>1
<1>3. m - 1 \in S
  BY <1>2
<1>4. QED
  BY <1>1, <1>2, <1>3

-----------------------------------------------------------------------------
(* Passes over rows and reviews.                                             *)

\* One step of a pass that keeps members of S.
Keep(S, before, c) == IF c \in S THEN Append(before, c) ELSE before

\* One step of a replay.
Replay(s, e) == IF e.counts THEN Scheduled(s, e.rating, e.day) ELSE s

\* What a pass keeps is defined: its recursion has a solution.
LEMMA KeptExists ==
    ASSUME NEW S, NEW T, NEW seq \in Seq(T)
    PROVE  \E f : f = [n \in 0 .. Len(seq) |-> IF n = 0 THEN <<>> ELSE Keep(S, f[n - 1], seq[n])]
<1> DEFINE Solves(f, m) == f = [n \in 0 .. m |-> IF n = 0 THEN <<>> ELSE Keep(S, f[n - 1], seq[n])]
           Solved == {m \in Nat : \E f : Solves(f, m)}
<1> Len(seq) \in Nat
  OBVIOUS
<1>1. 0 \in Solved
  <2> DEFINE f == [n \in 0 .. 0 |-> <<>>]
  <2>1. Solves(f, 0)
    OBVIOUS
  <2>2. QED
    BY <2>1
<1>2. ASSUME NEW m \in 0 .. Len(seq) - 1, m \in Solved
      PROVE  m + 1 \in Solved
  <2>1. PICK f : Solves(f, m)
    BY <1>2
  <2> DEFINE g == [n \in 0 .. m + 1 |-> IF n = m + 1 THEN Keep(S, f[m], seq[m + 1]) ELSE f[n]]
  <2>2. \A n \in 0 .. m : g[n] = f[n]
    OBVIOUS
  <2>3. \A n \in 0 .. m : f[n] = IF n = 0 THEN <<>> ELSE Keep(S, f[n - 1], seq[n])
    BY <2>1
  <2>4. \A n \in 0 .. m + 1 : g[n] = IF n = 0 THEN <<>> ELSE Keep(S, g[n - 1], seq[n])
    BY <2>2, <2>3
  <2>5. Solves(g, m + 1)
    BY <2>4
  <2>6. QED
    <3> HIDE DEF Solves, g
    <3>1. QED
      BY <2>5
<1>3. Len(seq) \in Solved
  <2> HIDE DEF Solved
  <2>1. 0 .. Len(seq) \subseteq Solved
    BY <1>1, <1>2, NumbersUpTo
  <2>2. QED
    BY <2>1
<1>4. QED
  BY <1>3

\* A pass keeps nothing of nothing, and then decides about one member at a time.
LEMMA KeptSteps ==
    ASSUME NEW S, NEW T, NEW seq \in Seq(T)
    PROVE  /\ KeptOf(S, seq)[0] = <<>>
           /\ \A n \in 1 .. Len(seq) : KeptOf(S, seq)[n] = Keep(S, KeptOf(S, seq)[n - 1], seq[n])
<1> DEFINE f == KeptOf(S, seq)
<1>1. f = CHOOSE g : g = [n \in 0 .. Len(seq) |-> IF n = 0 THEN <<>> ELSE Keep(S, g[n - 1], seq[n])]
  BY DEF KeptOf, Keep
<1>2. f = [n \in 0 .. Len(seq) |-> IF n = 0 THEN <<>> ELSE Keep(S, f[n - 1], seq[n])]
  <2> HIDE DEF f
  <2>1. QED
    BY <1>1, KeptExists
<1>3. QED
  <2> HIDE DEF f
  <2> Len(seq) \in Nat
    OBVIOUS
  <2>1. f[0] = <<>> /\ \A n \in 1 .. Len(seq) : f[n] = Keep(S, f[n - 1], seq[n])
    BY <1>2
  <2>2. QED
    BY <2>1 DEF f

\* What a pass keeps are members of S.
LEMMA OnlyFacts ==
    ASSUME NEW S, NEW T, NEW seq \in Seq(T)
    PROVE  /\ Only(S, seq) \in Seq(T)
           /\ \A i \in 1 .. Len(Only(S, seq)) :
                Only(S, seq)[i] \in S /\ \E j \in 1 .. Len(seq) : Only(S, seq)[i] = seq[j]
<1> DEFINE f == KeptOf(S, seq)
           Good(m) == /\ f[m] \in Seq(T)
                      /\ \A i \in 1 .. Len(f[m]) :
                           f[m][i] \in S /\ \E j \in 1 .. Len(seq) : f[m][i] = seq[j]
           Goods == {m \in Nat : Good(m)}
<1> Len(seq) \in Nat
  OBVIOUS
<1>1. f[0] = <<>> /\ \A m \in 1 .. Len(seq) : f[m] = Keep(S, f[m - 1], seq[m])
  BY KeptSteps
<1> HIDE DEF f
<1>2. 0 \in Goods
  <2>1. Good(0)
    BY <1>1
  <2>2. QED
    BY <2>1
<1>3. ASSUME NEW m \in 0 .. Len(seq) - 1, m \in Goods
      PROVE  m + 1 \in Goods
  <2>1. /\ Good(m) /\ f[m + 1] = Keep(S, f[m], seq[m + 1])
        /\ m + 1 \in 1 .. Len(seq) /\ seq[m + 1] \in T
    BY <1>1, <1>3
  <2>2. CASE f[m + 1] = f[m]
    BY <2>1, <2>2
  <2>3. CASE f[m + 1] # f[m]
    <3>1. f[m + 1] = Append(f[m], seq[m + 1]) /\ seq[m + 1] \in S
      BY <2>1, <2>3 DEF Keep
    <3>2. /\ f[m + 1] \in Seq(T) /\ Len(f[m + 1]) = Len(f[m]) + 1 /\ Len(f[m]) \in Nat
          /\ \A i \in 1 .. Len(f[m]) : f[m + 1][i] = f[m][i]
          /\ f[m + 1][Len(f[m]) + 1] = seq[m + 1]
      <4>1. f[m] \in Seq(T) /\ seq[m + 1] \in T
        BY <2>1
      <4>2. QED
        BY ONLY <3>1, <4>1, AppendProperties
    <3>3. Good(m + 1)
      BY <2>1, <3>1, <3>2
    <3>4. QED
      BY <3>3
  <2>4. QED
    BY <2>2, <2>3
<1>4. 0 .. Len(seq) \subseteq Goods
  <2> HIDE DEF Goods
  <2>1. QED
    BY <1>2, <1>3, NumbersUpTo
<1>5. Good(Len(seq))
  BY <1>4
<1>6. QED
  BY <1>5 DEF f, Only

\* A replay is defined: its recursion has a solution.
LEMMA ReplayExists ==
    ASSUME NEW h \in Seq(Reviews)
    PROVE  \E f : f = [n \in 0 .. Len(h) |-> IF n = 0 THEN Fresh ELSE Replay(f[n - 1], h[n])]
<1> DEFINE Solves(f, m) == f = [n \in 0 .. m |-> IF n = 0 THEN Fresh ELSE Replay(f[n - 1], h[n])]
           Solved == {m \in Nat : \E f : Solves(f, m)}
<1> Len(h) \in Nat
  OBVIOUS
<1>1. 0 \in Solved
  <2> DEFINE f == [n \in 0 .. 0 |-> Fresh]
  <2>1. Solves(f, 0)
    OBVIOUS
  <2>2. QED
    BY <2>1
<1>2. ASSUME NEW m \in 0 .. Len(h) - 1, m \in Solved
      PROVE  m + 1 \in Solved
  <2>1. PICK f : Solves(f, m)
    BY <1>2
  <2> DEFINE g == [n \in 0 .. m + 1 |-> IF n = m + 1 THEN Replay(f[m], h[m + 1]) ELSE f[n]]
  <2>2. \A n \in 0 .. m : g[n] = f[n]
    OBVIOUS
  <2>3. \A n \in 0 .. m : f[n] = IF n = 0 THEN Fresh ELSE Replay(f[n - 1], h[n])
    BY <2>1
  <2>4. \A n \in 0 .. m + 1 : g[n] = IF n = 0 THEN Fresh ELSE Replay(g[n - 1], h[n])
    BY <2>2, <2>3
  <2>5. Solves(g, m + 1)
    BY <2>4
  <2>6. QED
    <3> HIDE DEF Solves, g
    <3>1. QED
      BY <2>5
<1>3. Len(h) \in Solved
  <2> HIDE DEF Solved
  <2>1. 0 .. Len(h) \subseteq Solved
    BY <1>1, <1>2, NumbersUpTo
  <2>2. QED
    BY <2>1
<1>4. QED
  BY <1>3

\* A replay begins with no schedule and takes one review at a time.
LEMMA ReplaySteps ==
    ASSUME NEW h \in Seq(Reviews)
    PROVE  /\ ScheduleAfter(h)[0] = Fresh
           /\ \A n \in 1 .. Len(h) : ScheduleAfter(h)[n] = Replay(ScheduleAfter(h)[n - 1], h[n])
<1> DEFINE f == ScheduleAfter(h)
<1>1. f = CHOOSE g : g = [n \in 0 .. Len(h) |-> IF n = 0 THEN Fresh ELSE Replay(g[n - 1], h[n])]
  BY DEF ScheduleAfter, Replay
<1>2. f = [n \in 0 .. Len(h) |-> IF n = 0 THEN Fresh ELSE Replay(f[n - 1], h[n])]
  <2> HIDE DEF f
  <2>1. QED
    BY <1>1, ReplayExists
<1>3. QED
  <2> HIDE DEF f
  <2> Len(h) \in Nat
    OBVIOUS
  <2>1. f[0] = Fresh /\ \A n \in 1 .. Len(h) : f[n] = Replay(f[n - 1], h[n])
    BY <1>2
  <2>2. QED
    BY <2>1 DEF f

-----------------------------------------------------------------------------
(***************************************************************************)
(* Schedules.  A schedule fits a history of reviews that counted when it   *)
(* says what ScheduleIsTheHistory says of one: each review keeps this, and *)
(* so does the replay of any history.                                      *)
(***************************************************************************)

\* The last n reviews of a history passed, and the one before failed.
IsStreak(h, n) ==
    /\ n \in 0 .. Len(h)
    /\ \A i \in Len(h) - n + 1 .. Len(h) : h[i].rating >= 3
    /\ n < Len(h) => h[Len(h) - n].rating < 3

Counting == {e \in Reviews : e.counts}

Schedules == [repetition : Nat, interval : Nat, ease : Nat, due : Nat \cup {Never}]

Fits(s, h) ==
    /\ s \in Schedules
    /\ IsStreak(h, s.repetition)
    /\ s.ease >= 130
    /\ h = <<>> => s.interval = 0 /\ s.due = Never
    /\ h # <<>> =>
         /\ s.due = h[Len(h)].day + s.interval
         /\ s.repetition <= 1 => s.interval = 1
         /\ s.repetition = 2 => s.interval = 6
         /\ s.repetition > 2 => s.interval > 6

\* The fields of a review.
LEMMA ReviewFacts ==
    ASSUME NEW e \in Reviews
    PROVE  /\ e.rating \in 1 .. 5 /\ e.rating \in Nat
           /\ e.day \in 0 .. LastDay /\ e.day \in Nat /\ LastDay \in Nat
<1>1. Ratings \subseteq 1 .. 5 /\ LastDay \in Nat
  BY StudyAssumption
<1> DEFINE rating == e.rating
           day == e.day
<1>2. rating \in Ratings /\ day \in 0 .. LastDay
  BY DEF Reviews
<1> HIDE DEF rating, day
<1>3. rating \in 1 .. 5 /\ rating \in Nat
  BY <1>1, <1>2
<1>4. day \in 0 .. LastDay /\ day \in Nat
  BY <1>1, <1>2
<1>5. QED
  BY <1>1, <1>3, <1>4 DEF rating, day

\* A history has one streak.
LEMMA StreakIsOne ==
    ASSUME NEW h \in Seq(Reviews), NEW n, IsStreak(h, n)
    PROVE  Streak(h) = n
<1>1. Len(h) \in Nat /\ \A i \in 1 .. Len(h) : h[i].rating \in Nat
  BY ReviewFacts, \A i \in 1 .. Len(h) : h[i] \in Reviews
<1>2. ASSUME NEW m, IsStreak(h, m)
      PROVE  m = n
  <2>1. m \in 0 .. Len(h) /\ n \in 0 .. Len(h)
    BY <1>2 DEF IsStreak
  <2>2. ~(m < n)
    <3> SUFFICES ASSUME m < n
                 PROVE  FALSE
      OBVIOUS
    <3>1. Len(h) - m \in Len(h) - n + 1 .. Len(h) /\ Len(h) - m \in 1 .. Len(h) /\ m < Len(h)
      BY <1>1, <2>1
    <3>2. h[Len(h) - m].rating >= 3 /\ h[Len(h) - m].rating < 3
      BY <1>2, <3>1 DEF IsStreak
    <3>3. QED
      BY <1>1, <3>1, <3>2
  <2>3. ~(n < m)
    <3> SUFFICES ASSUME n < m
                 PROVE  FALSE
      OBVIOUS
    <3>1. Len(h) - n \in Len(h) - m + 1 .. Len(h) /\ Len(h) - n \in 1 .. Len(h) /\ n < Len(h)
      BY <1>1, <2>1
    <3>2. h[Len(h) - n].rating >= 3 /\ h[Len(h) - n].rating < 3
      BY <1>2, <3>1 DEF IsStreak
    <3>3. QED
      BY <1>1, <3>1, <3>2
  <2>4. QED
    BY <1>1, <2>1, <2>2, <2>3
<1>3. Streak(h) = CHOOSE m : IsStreak(h, m)
  BY DEF Streak, IsStreak
<1>4. QED
  BY <1>2, <1>3

\* A review that passed makes a streak longer, one that failed ends it.
LEMMA StreakGoesOn ==
    ASSUME NEW h \in Seq(Reviews), NEW n, IsStreak(h, n), NEW e \in Reviews
    PROVE  IsStreak(Append(h, e), IF e.rating >= 3 THEN n + 1 ELSE 0)
<1> DEFINE long == Append(h, e)
<1>1. /\ Len(long) = Len(h) + 1 /\ Len(h) \in Nat /\ n \in 0 .. Len(h)
      /\ \A i \in 1 .. Len(h) : long[i] = h[i]
      /\ long[Len(h) + 1] = e
  BY AppendProperties DEF IsStreak
<1> HIDE DEF long
<1>2. e.rating \in Nat
  BY ReviewFacts
<1>3. CASE e.rating >= 3
  <2>1. \A i \in Len(long) - (n + 1) + 1 .. Len(long) : long[i].rating >= 3
    <3> SUFFICES ASSUME NEW i \in Len(long) - (n + 1) + 1 .. Len(long)
                 PROVE  long[i].rating >= 3
      OBVIOUS
    <3>1. i = Len(h) + 1 \/ (i \in Len(h) - n + 1 .. Len(h) /\ i \in 1 .. Len(h))
      BY <1>1
    <3>2. QED
      BY <1>1, <1>3, <3>1 DEF IsStreak
  <2>2. n + 1 < Len(long) => long[Len(long) - (n + 1)].rating < 3
    <3> SUFFICES ASSUME n + 1 < Len(long)
                 PROVE  long[Len(long) - (n + 1)].rating < 3
      OBVIOUS
    <3>1. Len(long) - (n + 1) = Len(h) - n /\ Len(h) - n \in 1 .. Len(h) /\ n < Len(h)
      BY <1>1
    <3>2. QED
      BY <1>1, <3>1 DEF IsStreak
  <2>3. QED
    BY <1>1, <1>3, <2>1, <2>2 DEF IsStreak, long
<1>4. CASE ~(e.rating >= 3)
  <2>1. Len(long) - 0 = Len(h) + 1
    BY <1>1
  <2>2. IsStreak(long, 0)
    BY <1>1, <1>2, <1>4, <2>1 DEF IsStreak
  <2>3. QED
    BY <1>4, <2>2 DEF long
<1>5. QED
  BY <1>3, <1>4

\* An interval of six days or more is longer after another review that passed.
LEMMA IntervalGrows ==
    ASSUME NEW i \in Nat, NEW ease \in Nat, i >= 6, ease >= 130
    PROVE  Rounded(i * ease) \in Nat /\ Rounded(i * ease) > 6
<1>1. i * ease \in Nat /\ i * ease >= 780
  OBVIOUS
<1> DEFINE n == i * ease
<1> HIDE DEF n
<1>2. n \in Nat /\ n >= 780 => (n + 50) \div 100 \in Nat /\ (n + 50) \div 100 > 6
  OBVIOUS
<1>3. QED
  BY <1>1, <1>2 DEF n, Rounded

\* The ease stays a number of at least 130.
LEMMA EaseIsBounded ==
    ASSUME NEW s \in Schedules, NEW rating \in 1 .. 5
    PROVE  NextEase(s, rating) \in Nat /\ NextEase(s, rating) >= 130
<1> DEFINE missed == 5 - rating
           ease == s.ease + 10 - missed * (8 + missed * 2)
<1>1. s.ease \in Nat
  BY DEF Schedules
<1>2. missed \in 0 .. 4
  OBVIOUS
<1>3. missed * (8 + missed * 2) \in {0, 10, 24, 42, 64}
  <2>1. missed = 0 \/ missed = 1 \/ missed = 2 \/ missed = 3 \/ missed = 4
    BY <1>2
  <2> HIDE DEF missed
  <2>2. QED
    BY <2>1
<1>4. ease \in Int
  BY <1>1, <1>3
<1>5. NextEase(s, rating) = IF ease < 130 THEN 130 ELSE ease
  BY DEF NextEase
<1> HIDE DEF ease
<1>6. QED
  BY <1>4, <1>5

\* A schedule that fits a history fits it with one more review.
LEMMA ReviewFits ==
    ASSUME NEW h \in Seq(Reviews), NEW s, Fits(s, h), NEW e \in Reviews
    PROVE  Fits(Scheduled(s, e.rating, e.day), Append(h, e))
<1> DEFINE next == NextInterval(s, e.rating)
           t == Scheduled(s, e.rating, e.day)
           long == Append(h, e)
<1>1. /\ s \in Schedules /\ s.repetition \in Nat /\ s.interval \in Nat /\ s.ease \in Nat
      /\ s.ease >= 130 /\ IsStreak(h, s.repetition) /\ s.repetition \in 0 .. Len(h)
      /\ h # <<>> /\ s.repetition = 2 => s.interval = 6
      /\ h # <<>> /\ s.repetition > 2 => s.interval > 6
  BY DEF Fits, Schedules, IsStreak
<1>2. e.rating \in 1 .. 5 /\ e.day \in Nat
  BY ReviewFacts
<1>3. long # <<>> /\ Len(long) = Len(h) + 1 /\ long[Len(long)] = e /\ Len(h) \in Nat
  BY AppendProperties
<1>4. s.repetition >= 2 => s.interval >= 6
  <2>1. h = <<>> => s.repetition = 0
    BY <1>1
  <2>2. QED
    BY <1>1, <2>1
<1>5. /\ next \in Nat
      /\ e.rating < 3 \/ s.repetition = 0 => next = 1
      /\ e.rating >= 3 /\ s.repetition = 1 => next = 6
      /\ e.rating >= 3 /\ s.repetition >= 2 => next > 6
  <2>1. CASE e.rating < 3 \/ s.repetition = 0
    <3>1. next = 1
      BY <1>1, <1>2, <2>1 DEF NextInterval
    <3> HIDE DEF next
    <3>2. QED
      BY <1>1, <1>2, <2>1, <3>1
  <2>2. CASE e.rating >= 3 /\ s.repetition = 1
    <3>1. next = 6
      BY <1>1, <1>2, <2>2 DEF NextInterval
    <3> HIDE DEF next
    <3>2. QED
      BY <1>1, <1>2, <2>2, <3>1
  <2>3. CASE e.rating >= 3 /\ s.repetition >= 2
    <3>1. next = Rounded(s.interval * s.ease)
      BY <1>1, <1>2, <2>3 DEF NextInterval
    <3>2. Rounded(s.interval * s.ease) \in Nat /\ Rounded(s.interval * s.ease) > 6
      BY <1>1, <1>4, <2>3, IntervalGrows
    <3> HIDE DEF next
    <3>3. QED
      BY <1>1, <1>2, <2>3, <3>1, <3>2
  <2>4. QED
    BY <1>1, <1>2, <2>1, <2>2, <2>3
<1>6. NextEase(s, e.rating) \in Nat /\ NextEase(s, e.rating) >= 130
  BY <1>1, <1>2, EaseIsBounded
<1>7. /\ t.repetition = IF e.rating >= 3 THEN s.repetition + 1 ELSE 0
      /\ t.interval = next /\ t.ease = NextEase(s, e.rating) /\ t.due = e.day + next
  BY DEF Scheduled
<1>8. t \in Schedules
  <2>1. (IF e.rating >= 3 THEN s.repetition + 1 ELSE 0) \in Nat /\ e.day + next \in Nat
    BY <1>1, <1>2, <1>5
  <2>2. QED
    BY <1>5, <1>6, <2>1 DEF Scheduled, Schedules
<1>9. IsStreak(long, t.repetition)
  BY <1>1, <1>7, StreakGoesOn
<1> HIDE DEF t, next, long
<1>10. /\ t.due = long[Len(long)].day + t.interval
       /\ t.repetition <= 1 => t.interval = 1
       /\ t.repetition = 2 => t.interval = 6
       /\ t.repetition > 2 => t.interval > 6
  BY <1>1, <1>2, <1>3, <1>5, <1>7
<1>11. QED
  BY <1>3, <1>6, <1>7, <1>8, <1>9, <1>10 DEF Fits, t, long

\* What a replay makes of a history fits the reviews of it that counted.
LEMMA ReplayedFits ==
    ASSUME NEW h \in Seq(Reviews)
    PROVE  Fits(Replayed(h), Only(Counting, h)) /\ Only(Counting, h) \in Seq(Reviews)
<1> DEFINE f == ScheduleAfter(h)
           k == KeptOf(Counting, h)
           Fitting == {m \in Nat : k[m] \in Seq(Reviews) /\ Fits(f[m], k[m])}
<1> Len(h) \in Nat
  OBVIOUS
<1>1. f[0] = Fresh /\ \A m \in 1 .. Len(h) : f[m] = Replay(f[m - 1], h[m])
  BY ReplaySteps
<1>2. k[0] = <<>> /\ \A m \in 1 .. Len(h) : k[m] = Keep(Counting, k[m - 1], h[m])
  BY KeptSteps
<1> HIDE DEF f, k
<1>3. 0 \in Fitting
  <2>1. Fresh \in Schedules
    BY DEF Fresh, Schedules
  <2>2. IsStreak(<<>>, 0)
    BY DEF IsStreak
  <2>3. Fits(Fresh, <<>>)
    BY <2>1, <2>2 DEF Fits, Fresh
  <2>4. k[0] \in Seq(Reviews) /\ Fits(f[0], k[0])
    BY <1>1, <1>2, <2>3
  <2>5. QED
    BY <2>4
<1>4. ASSUME NEW m \in 0 .. Len(h) - 1, m \in Fitting
      PROVE  m + 1 \in Fitting
  <2>1. /\ f[m + 1] = Replay(f[m], h[m + 1]) /\ k[m + 1] = Keep(Counting, k[m], h[m + 1])
        /\ m + 1 \in 1 .. Len(h) /\ h[m + 1] \in Reviews
        /\ k[m] \in Seq(Reviews) /\ Fits(f[m], k[m])
    BY <1>1, <1>2, <1>4
  <2>2. CASE h[m + 1].counts
    <3>1. /\ f[m + 1] = Scheduled(f[m], h[m + 1].rating, h[m + 1].day)
          /\ k[m + 1] = Append(k[m], h[m + 1])
      BY <2>1, <2>2 DEF Replay, Keep, Counting
    <3>2. Fits(f[m + 1], k[m + 1])
      BY <2>1, <3>1, ReviewFits
    <3>3. k[m + 1] \in Seq(Reviews)
      BY <2>1, <3>1
    <3>4. QED
      BY <3>2, <3>3
  <2>3. CASE ~h[m + 1].counts
    <3>1. f[m + 1] = f[m] /\ k[m + 1] = k[m]
      BY <2>1, <2>3 DEF Replay, Keep, Counting
    <3>2. QED
      BY <2>1, <3>1
  <2>4. QED
    BY <2>2, <2>3
<1>5. 0 .. Len(h) \subseteq Fitting
  <2> HIDE DEF Fitting
  <2>1. QED
    BY <1>3, <1>4, NumbersUpTo
<1>6. k[Len(h)] \in Seq(Reviews) /\ Fits(f[Len(h)], k[Len(h)])
  BY <1>5
<1>7. QED
  BY <1>6 DEF f, k, Replayed, Only

-----------------------------------------------------------------------------
(***************************************************************************)
(* The invariant.  To keep what exists together the library needs that     *)
(* each deck that exists is of a stored document; to keep a schedule what  *)
(* its history makes it, that the row is the replay of all its events,     *)
(* and that there is no row only where there is no event.                  *)
(***************************************************************************)

LibraryInv ==
    /\ LibraryTypeOK
    /\ \A k \in Decks : Exists(k) => decks[k] \in documents
    /\ \A i \in DOMAIN shares : Exists(shares[i].deck)
    /\ \A c \in cards : Exists(DeckOf[c])

RowReplays(r, h) ==
    LET s == Replayed(h)
    IN  /\ r.repetition = s.repetition
        /\ r.interval = s.interval
        /\ r.ease = s.ease
        /\ r.due = s.due

\* Events h and row r of one account and card, on a day.
PairIs(h, r, day) ==
    /\ h \in Seq(Reviews) /\ Len(h) <= MaxReviews
    /\ \A i \in 1 .. Len(h) : h[i].day <= day
    /\ r \in Rows \cup {NoRow}
    /\ r # NoRow => RowReplays(r, h)
    /\ r = NoRow => h = <<>>

PairsInv ==
    /\ today \in 0 .. LastDay
    /\ events \in [Pairs -> Seq(Reviews)]
    /\ row \in [Pairs -> Rows \cup {NoRow}]
    /\ \A p \in Pairs :
         /\ PairIs(events[p], row[p], today)
         /\ events[p] # <<>> \/ row[p] # NoRow => p[2] \in cards

StudyInv == LibraryInv /\ PairsInv

-----------------------------------------------------------------------------
(* The library.                                                              *)

\* Rows of shares that are kept are rows there were.
LEMMA SharesKept ==
    ASSUME LibraryInv, NEW S
    PROVE  /\ Only(S, shares) \in Seq(ShareRows)
           /\ \A i \in DOMAIN Only(S, shares) :
                Only(S, shares)[i] \in S /\ Exists(Only(S, shares)[i].deck)
<1>1. shares \in Seq(ShareRows) /\ \A i \in 1 .. Len(shares) : Exists(shares[i].deck)
  BY DEF LibraryInv, LibraryTypeOK
<1> DEFINE kept == Only(S, shares)
<1>2. /\ kept \in Seq(ShareRows)
      /\ \A i \in 1 .. Len(kept) : kept[i] \in S /\ \E j \in 1 .. Len(shares) : kept[i] = shares[j]
  BY <1>1, OnlyFacts
<1> HIDE DEF kept
<1>3. DOMAIN kept = 1 .. Len(kept)
  BY <1>2
<1>4. QED
  BY <1>1, <1>2, <1>3 DEF kept

\* A document is stored, a deck is made of one.
LEMMA DocumentsKeepLibrary ==
    ASSUME LibraryInv, NEW u \in Users,
           \E d \in Documents : StoreDocument(u, d) \/ (\E k \in Decks : MakeDeck(u, k, d))
    PROVE  LibraryInv'
<1>1. CASE \E d \in Documents : StoreDocument(u, d)
  BY <1>1 DEF StoreDocument, LibraryInv, LibraryTypeOK, Exists
<1>2. CASE \E d \in Documents, k \in Decks : MakeDeck(u, k, d)
  <2>1. PICK d \in Documents, k \in Decks : MakeDeck(u, k, d)
    BY <1>2
  <2>2. d \notin {NotMade, Deleted}
    BY LibraryAssumption
  <2>3. decks' \in [Decks -> Documents \cup {NotMade, Deleted}] /\ decks'[k] = d
        /\ \A j \in Decks : j # k => decks'[j] = decks[j]
    BY <2>1 DEF MakeDeck, LibraryInv, LibraryTypeOK
  <2>4. \A j \in Decks : Exists(j) => Exists(j)'
    BY <2>2, <2>3 DEF Exists
  <2>5. LibraryTypeOK'
    BY <2>1, <2>3 DEF MakeDeck, LibraryInv, LibraryTypeOK
  <2>6. \A j \in Decks : Exists(j)' => decks'[j] \in documents'
    BY <2>1, <2>3 DEF MakeDeck, LibraryInv, Exists
  <2>7. shares' = shares /\ cards' = cards
    BY <2>1 DEF MakeDeck
  <2>8. \A i \in DOMAIN shares : shares[i].deck \in Decks
    <3>1. shares \in Seq(ShareRows)
      BY DEF LibraryInv, LibraryTypeOK
    <3>2. \A i \in DOMAIN shares : shares[i] \in ShareRows
      BY <3>1
    <3>3. QED
      BY <3>2 DEF ShareRows
  <2>9. \A c \in cards : DeckOf[c] \in Decks
    BY LibraryAssumption DEF LibraryInv, LibraryTypeOK
  <2>10. QED
    BY <2>4, <2>5, <2>6, <2>7, <2>8, <2>9 DEF LibraryInv
<1>3. QED
  BY <1>1, <1>2

\* A deck that is deleted takes its shares and its cards with it.
LEMMA DeleteDeckKeepsLibrary ==
    ASSUME LibraryInv, NEW u \in Users, NEW k \in Decks, DeleteDeck(u, k)
    PROVE  LibraryInv'
<1>1. /\ decks' = [decks EXCEPT ![k] = Deleted] /\ cards' = cards \ CardsOfDeck(k)
      /\ shares' = Only({r \in ShareRows : r.deck # k}, shares)
      /\ UNCHANGED <<documents, asked, disabled>>
  BY DEF DeleteDeck
<1>2. decks' \in [Decks -> Documents \cup {NotMade, Deleted}] /\ decks'[k] = Deleted
      /\ \A j \in Decks : j # k => decks'[j] = decks[j]
  BY <1>1 DEF LibraryInv, LibraryTypeOK
<1>3. /\ shares' \in Seq(ShareRows)
      /\ \A i \in DOMAIN shares' :
           shares'[i] \in {r \in ShareRows : r.deck # k} /\ Exists(shares'[i].deck)
  BY <1>1, SharesKept
<1>4. (\A i \in DOMAIN shares : Exists(shares[i].deck))'
  BY <1>2, <1>3 DEF Exists, ShareRows
<1>5. \A c \in cards' : Exists(DeckOf[c])'
  BY <1>1, <1>2, LibraryAssumption DEF LibraryInv, LibraryTypeOK, CardsOfDeck, Exists
<1>6. \A j \in Decks : Exists(j)' => decks'[j] \in documents'
  BY <1>1, <1>2 DEF LibraryInv, Exists
<1>7. LibraryTypeOK'
  BY <1>1, <1>2, <1>3 DEF LibraryInv, LibraryTypeOK
<1>8. QED
  BY <1>4, <1>5, <1>6, <1>7 DEF LibraryInv

\* A request that takes effect lends a deck that exists.
LEMMA FinishShareKeepsLibrary ==
    ASSUME LibraryInv, NEW request \in Requests, FinishShare(request)
    PROVE  LibraryInv'
<1>1. asked' = asked \ {request} /\ UNCHANGED <<documents, decks, cards, disabled>>
  BY DEF FinishShare
<1>2. CASE shares' = shares
  BY <1>1, <1>2 DEF LibraryInv, LibraryTypeOK, Exists
<1>3. CASE shares' # shares
  <2> DEFINE kept == Only({r \in ShareRows : ~(r.deck = request.deck /\ r.to = request.to)}, shares)
  <2>1. shares' = Append(kept, Granted(request)) /\ Exists(request.deck)
    BY <1>3 DEF FinishShare
  <2>2. kept \in Seq(ShareRows) /\ \A i \in DOMAIN kept : Exists(kept[i].deck)
    BY SharesKept
  <2> HIDE DEF kept
  <2>3. Granted(request) \in ShareRows /\ Granted(request).deck = request.deck
    BY DEF Granted, ShareRows, Requests
  <2>4. /\ shares' \in Seq(ShareRows) /\ DOMAIN shares' = 1 .. Len(kept) + 1
        /\ Len(kept) \in Nat /\ DOMAIN kept = 1 .. Len(kept)
        /\ \A i \in 1 .. Len(kept) : shares'[i] = kept[i]
        /\ shares'[Len(kept) + 1] = Granted(request)
    BY <2>1, <2>2, <2>3, AppendProperties
  <2>5. \A i \in DOMAIN shares' : Exists(shares'[i].deck)
    <3> SUFFICES ASSUME NEW i \in DOMAIN shares'
                 PROVE  Exists(shares'[i].deck)
      OBVIOUS
    <3>1. i \in DOMAIN kept \/ i = Len(kept) + 1
      BY <2>4
    <3>2. QED
      BY <2>1, <2>2, <2>3, <2>4, <3>1
  <2>6. QED
    BY <1>1, <2>4, <2>5 DEF LibraryInv, LibraryTypeOK, Exists
<1>4. QED
  BY <1>2, <1>3

\* The rest of what is done with shares and accounts.
LEMMA SharesKeepLibrary ==
    ASSUME LibraryInv, NEW u \in Users,
           \/ \E request \in Requests : BeginShare(u, request)
           \/ \E k \in Decks, to \in Users : Revoke(u, k, to)
           \/ u \in Closable /\ SetStatus(u)
    PROVE  LibraryInv'
<1>1. CASE \E request \in Requests : BeginShare(u, request)
  BY <1>1 DEF BeginShare, LibraryInv, LibraryTypeOK, Exists
<1>2. CASE \E k \in Decks, to \in Users : Revoke(u, k, to)
  <2>1. PICK k \in Decks, to \in Users : Revoke(u, k, to)
    BY <1>2
  <2>2. /\ shares \in Seq(ShareRows) /\ Len(shares) \in Nat /\ DOMAIN shares = 1 .. Len(shares)
        /\ \A i \in 1 .. Len(shares) : shares[i] \in ShareRows
    BY DEF LibraryInv, LibraryTypeOK
  <2>3. UNCHANGED <<documents, decks, asked, cards, disabled>>
        /\ shares' = [i \in 1 .. Len(shares) |->
                        IF i \in LiveRowsOf(k, to) THEN [shares[i] EXCEPT !.live = FALSE] ELSE shares[i]]
    BY <2>1, <2>2 DEF Revoke
  <2>4. \A i \in 1 .. Len(shares) : shares'[i] \in ShareRows /\ shares'[i].deck = shares[i].deck
    BY <2>2, <2>3 DEF ShareRows
  <2>5. shares' \in Seq(ShareRows) /\ DOMAIN shares' = 1 .. Len(shares)
    BY <2>2, <2>3, <2>4, IsASeq
  <2>6. QED
    BY <2>2, <2>3, <2>4, <2>5 DEF LibraryInv, LibraryTypeOK, Exists
<1>3. CASE u \in Closable /\ SetStatus(u)
  BY <1>3 DEF SetStatus, LibraryInv, LibraryTypeOK, Exists
<1>4. QED
  BY <1>1, <1>2, <1>3

\* Every step of the library keeps its part.
LEMMA LibraryStep ==
    ASSUME LibraryInv, LibraryNext \/ UNCHANGED libraryVars
    PROVE  LibraryInv'
<1>1. CASE UNCHANGED libraryVars
  BY <1>1 DEF libraryVars, LibraryInv, LibraryTypeOK, Exists
<1>2. CASE \E u \in Users :
             \/ \E d \in Documents : StoreDocument(u, d) \/ (\E k \in Decks : MakeDeck(u, k, d))
             \/ \E k \in Decks : DeleteDeck(u, k)
             \/ \E request \in Requests : BeginShare(u, request)
             \/ \E k \in Decks, to \in Users : Revoke(u, k, to)
             \/ u \in Closable /\ SetStatus(u)
  BY <1>2, DocumentsKeepLibrary, DeleteDeckKeepsLibrary, SharesKeepLibrary
<1>3. CASE \E request \in Requests : FinishShare(request)
  BY <1>3, FinishShareKeepsLibrary
<1>4. CASE \E c \in Cards : PublishCard(c)
  BY <1>4 DEF PublishCard, LibraryInv, LibraryTypeOK, Exists
<1>5. QED
  BY <1>1, <1>2, <1>3, <1>4 DEF LibraryNext

-----------------------------------------------------------------------------
(* Studying.                                                                 *)

\* The row made by a replay is the replay's, suspended or not.
LEMMA StoredIs ==
    ASSUME NEW h \in Seq(Reviews), Len(h) <= MaxReviews, NEW day \in Nat,
           \A i \in 1 .. Len(h) : h[i].day <= day, NEW suspended \in BOOLEAN
    PROVE  PairIs(h, Stored(Replayed(h), suspended), day)
<1> DEFINE s == Replayed(h)
           r == Stored(s, suspended)
<1>1. s \in Schedules
  BY ReplayedFits DEF Fits
<1> HIDE DEF s
<1>2. r \in Rows /\ r.repetition = s.repetition /\ r.interval = s.interval
      /\ r.ease = s.ease /\ r.due = s.due
  BY <1>1 DEF Stored, Schedules, Rows
<1>3. r # NoRow
  BY <1>2, StudyAssumption
<1> HIDE DEF r
<1>4. QED
  BY <1>2, <1>3 DEF PairIs, RowReplays, r, s

\* No reviews make no schedule.
LEMMA NothingReplayed == Replayed(<<>>) = Fresh
<1>1. <<>> \in Seq(Reviews) /\ Len(<<>>) = 0
  OBVIOUS
<1>2. QED
  BY <1>1, ReplaySteps DEF Replayed

\* Suspension changes nothing else of a row, and makes one of no reviews.
LEMMA SuspensionIs ==
    ASSUME NEW p \in Pairs, PairIs(events[p], row[p], today),
           NEW suspended \in BOOLEAN
    PROVE  PairIs(events[p], [ScheduleOf(p) EXCEPT !.suspended = suspended], today)
<1> DEFINE before == ScheduleOf(p)
           after == [before EXCEPT !.suspended = suspended]
<1>1. before \in Rows /\ RowReplays(before, events[p])
  <2>1. CASE row[p] # NoRow
    BY <2>1 DEF PairIs, ScheduleOf
  <2>2. CASE row[p] = NoRow
    <3>1. before = Stored(Fresh, FALSE) /\ events[p] = <<>>
      BY <2>2 DEF PairIs, ScheduleOf
    <3>2. Stored(Fresh, FALSE) \in Rows /\ RowReplays(Stored(Fresh, FALSE), <<>>)
      BY NothingReplayed DEF Stored, Fresh, Rows, RowReplays
    <3>3. QED
      BY <3>1, <3>2
  <2>3. QED
    BY <2>1, <2>2
<1> HIDE DEF before
<1>2. /\ after \in Rows /\ after.repetition = before.repetition
      /\ after.interval = before.interval /\ after.ease = before.ease /\ after.due = before.due
  BY <1>1 DEF Rows
<1>3. after # NoRow
  BY <1>2, StudyAssumption
<1> HIDE DEF after
<1>4. RowReplays(after, events[p])
  BY <1>1, <1>2 DEF RowReplays
<1>5. QED
  BY <1>2, <1>3, <1>4 DEF PairIs, after, before

\* A step of one account with one card that exists.
LEMMA PairChanges ==
    ASSUME StudyInv, NEW p \in Pairs, p[2] \in cards, NEW h, NEW r, PairIs(h, r, today),
           events' = [events EXCEPT ![p] = h], row' = [row EXCEPT ![p] = r],
           UNCHANGED <<libraryVars, today>>
    PROVE  StudyInv'
<1>1. LibraryInv' /\ cards' = cards /\ today' = today
  BY LibraryStep DEF StudyInv, libraryVars
<1>2. events \in [Pairs -> Seq(Reviews)] /\ row \in [Pairs -> Rows \cup {NoRow}]
      /\ h \in Seq(Reviews) /\ r \in Rows \cup {NoRow}
  BY DEF StudyInv, PairsInv, PairIs
<1>3. events' \in [Pairs -> Seq(Reviews)] /\ row' \in [Pairs -> Rows \cup {NoRow}]
      /\ \A q \in Pairs : IF q = p THEN events'[q] = h /\ row'[q] = r
                          ELSE events'[q] = events[q] /\ row'[q] = row[q]
  BY <1>2
<1>4. \A q \in Pairs : /\ PairIs(events'[q], row'[q], today)
                       /\ events'[q] # <<>> \/ row'[q] # NoRow => q[2] \in cards
  BY <1>3 DEF StudyInv, PairsInv
<1>5. PairsInv'
  BY <1>1, <1>3, <1>4 DEF StudyInv, PairsInv, PairIs
<1>6. QED
  BY <1>1, <1>5 DEF StudyInv

\* What the invariant says of one account and card.
LEMMA PairFacts ==
    ASSUME StudyInv, NEW p \in Pairs
    PROVE  /\ events[p] \in Seq(Reviews) /\ Len(events[p]) \in Nat /\ Len(events[p]) <= MaxReviews
           /\ \A i \in 1 .. Len(events[p]) : events[p][i].day <= today
           /\ PairIs(events[p], row[p], today)
           /\ today \in 0 .. LastDay /\ today \in Nat /\ LastDay \in Nat /\ MaxReviews \in Nat
           /\ Suspended(p) \in BOOLEAN
<1>1. LastDay \in Nat /\ MaxReviews \in Nat
  BY StudyAssumption
<1>2. today \in 0 .. LastDay /\ today \in Nat
  BY <1>1 DEF StudyInv, PairsInv
<1>3. PairIs(events[p], row[p], today)
  BY DEF StudyInv, PairsInv
<1>4. Suspended(p) \in BOOLEAN
  BY <1>3 DEF Suspended, PairIs, Rows
<1>5. /\ events[p] \in Seq(Reviews) /\ Len(events[p]) \in Nat /\ Len(events[p]) <= MaxReviews
      /\ \A i \in 1 .. Len(events[p]) : events[p][i].day <= today
  BY <1>3 DEF PairIs
<1>6. QED
  BY <1>1, <1>2, <1>3, <1>4, <1>5

\* A review is put down and the schedule recomputed.
LEMMA ReviewKeepsStudy ==
    ASSUME StudyInv, NEW u \in Students, NEW c \in Cards,
           NEW rating \in Ratings, NEW counts \in BOOLEAN, Review(u, c, rating, counts)
    PROVE  StudyInv'
<1> DEFINE p == <<u, c>>
           e == [rating |-> rating, counts |-> counts, day |-> today]
           h == Append(events[p], e)
<1>1. p \in Pairs /\ p[2] \in cards
  BY StudyAssumption DEF Pairs, Review, MayStudy
<1>2. /\ events[p] \in Seq(Reviews) /\ Len(events[p]) \in Nat /\ today \in 0 .. LastDay /\ today \in Nat
      /\ \A i \in 1 .. Len(events[p]) : events[p][i].day <= today
      /\ Suspended(p) \in BOOLEAN /\ MaxReviews \in Nat
  BY <1>1, PairFacts
<1>3. e \in Reviews /\ e.day = today
  BY <1>2 DEF Reviews
<1>4. /\ Len(events[p]) < MaxReviews
      /\ events' = [events EXCEPT ![p] = h]
      /\ row' = [row EXCEPT ![p] = Stored(Replayed(h), Suspended(p))]
      /\ UNCHANGED <<libraryVars, today>>
  BY DEF Review
<1> HIDE DEF e
<1>5. /\ h \in Seq(Reviews) /\ Len(h) = Len(events[p]) + 1
      /\ \A i \in 1 .. Len(events[p]) : h[i] = events[p][i]
      /\ h[Len(events[p]) + 1] = e
  BY <1>2, <1>3, AppendProperties
<1> HIDE DEF h
<1>6. Len(h) <= MaxReviews /\ \A i \in 1 .. Len(h) : h[i].day <= today
  <2> DEFINE n == Len(events[p])
  <2>1. n \in Nat /\ n < MaxReviews /\ MaxReviews \in Nat /\ Len(h) = n + 1
    BY <1>2, <1>4, <1>5
  <2>2. h[n + 1].day <= today
    BY <1>2, <1>3, <1>5
  <2>3. \A i \in 1 .. n : h[i].day <= today
    BY <1>2, <1>5
  <2> HIDE DEF n
  <2>4. QED
    BY <2>1, <2>2, <2>3
<1>7. PairIs(h, Stored(Replayed(h), Suspended(p)), today)
  BY <1>2, <1>5, <1>6, StoredIs
<1> HIDE DEF p
<1>8. QED
  BY <1>1, <1>4, <1>7, PairChanges

\* The last review is taken back and the schedule recomputed.
LEMMA UndoKeepsStudy ==
    ASSUME StudyInv, NEW u \in Students, NEW c \in Cards, Undo(u, c)
    PROVE  StudyInv'
<1> DEFINE p == <<u, c>>
           h == Front(events[p])
<1>1. p \in Pairs /\ p[2] \in cards
  BY StudyAssumption DEF Pairs, Undo, MayStudy
<1>2. /\ events[p] \in Seq(Reviews) /\ Len(events[p]) \in Nat /\ today \in Nat
      /\ Len(events[p]) <= MaxReviews /\ MaxReviews \in Nat
      /\ \A i \in 1 .. Len(events[p]) : events[p][i].day <= today
      /\ Suspended(p) \in BOOLEAN
  BY <1>1, PairFacts
<1>3. /\ events[p] # <<>>
      /\ events' = [events EXCEPT ![p] = h]
      /\ row' = [row EXCEPT ![p] = Stored(Replayed(h), Suspended(p))]
      /\ UNCHANGED <<libraryVars, today>>
  BY DEF Undo
<1>4. /\ h \in Seq(Reviews) /\ Len(h) = Len(events[p]) - 1
      /\ \A i \in 1 .. Len(h) : h[i] = events[p][i]
  <2>1. Len(events[p]) - 1 \in 0 .. Len(events[p])
    BY <1>2, <1>3, EmptySeq
  <2>2. h = SubSeq(events[p], 1, Len(events[p]) - 1)
    BY DEF Front
  <2> DEFINE n == Len(events[p]) - 1
             short == SubSeq(events[p], 1, n)
  <2>3. \A i \in 1 .. n : events[p][i] \in Reviews
    BY <1>2, <2>1
  <2>4. short \in Seq(Reviews) /\ Len(short) = n /\ \A i \in 1 .. n : short[i] = events[p][i]
    BY <1>2, <2>1, <2>3, SubSeqProperties
  <2>5. QED
    BY <2>2, <2>4
<1> HIDE DEF h
<1>5. Len(h) <= MaxReviews /\ \A i \in 1 .. Len(h) : h[i].day <= today
  <2> DEFINE n == Len(events[p])
  <2>1. n \in Nat /\ n <= MaxReviews /\ MaxReviews \in Nat /\ Len(h) = n - 1
    BY <1>2, <1>4
  <2>2. \A i \in 1 .. n - 1 : h[i].day <= today
    <3>1. \A i \in 1 .. n - 1 : i \in 1 .. n
      BY <2>1
    <3>2. QED
      BY <1>2, <1>4, <2>1, <3>1
  <2> HIDE DEF n
  <2>3. QED
    BY <2>1, <2>2
<1>6. PairIs(h, Stored(Replayed(h), Suspended(p)), today)
  BY <1>2, <1>4, <1>5, StoredIs
<1> HIDE DEF p
<1>7. QED
  BY <1>1, <1>3, <1>6, PairChanges

\* A card is suspended or resumed.
LEMMA SuspendKeepsStudy ==
    ASSUME StudyInv, NEW u \in Students, NEW c \in Cards, Suspend(u, c)
    PROVE  StudyInv'
<1> DEFINE p == <<u, c>>
           suspended == ~Suspended(p)
           r == [ScheduleOf(p) EXCEPT !.suspended = suspended]
<1>1. p \in Pairs /\ p[2] \in cards
  BY StudyAssumption DEF Pairs, Suspend, MayStudy
<1>2. PairIs(events[p], row[p], today) /\ suspended \in BOOLEAN
  BY <1>1, PairFacts
<1>3. row' = [row EXCEPT ![p] = r] /\ UNCHANGED <<libraryVars, today, events>>
  BY DEF Suspend
<1> HIDE DEF suspended
<1>4. PairIs(events[p], r, today)
  BY <1>1, <1>2, SuspensionIs
<1>5. events' = [events EXCEPT ![p] = events[p]]
  BY <1>1, <1>3 DEF StudyInv, PairsInv
<1> HIDE DEF p, r
<1>6. QED
  BY <1>1, <1>3, <1>4, <1>5, PairChanges

\* A day passes.
LEMMA NewDayKeepsStudy ==
    ASSUME StudyInv, NewDay
    PROVE  StudyInv'
<1>1. UNCHANGED <<libraryVars, events, row>> /\ today' = today + 1 /\ today < LastDay
  BY DEF NewDay
<1>2. LibraryInv' /\ cards' = cards /\ events' = events /\ row' = row
  BY <1>1, LibraryStep DEF StudyInv, libraryVars
<1>3. today \in Nat /\ LastDay \in Nat /\ today' \in 0 .. LastDay /\ today <= today'
  BY <1>1, StudyAssumption DEF StudyInv, PairsInv
<1>4. ASSUME NEW p \in Pairs
      PROVE  PairIs(events[p], row[p], today')
  <2>1. /\ events[p] \in Seq(Reviews) /\ PairIs(events[p], row[p], today)
        /\ \A i \in 1 .. Len(events[p]) : events[p][i].day <= today
    BY PairFacts
  <2>2. \A i \in 1 .. Len(events[p]) : events[p][i].day \in Nat
    BY <2>1, ReviewFacts
  <2>3. \A i \in 1 .. Len(events[p]) : events[p][i].day <= today'
    BY <1>3, <2>1, <2>2
  <2>4. QED
    BY <2>1, <2>3 DEF PairIs
<1>5. PairsInv'
  BY <1>2, <1>3, <1>4 DEF StudyInv, PairsInv
<1>6. QED
  BY <1>2, <1>5 DEF StudyInv

\* What becomes of the library becomes of the study rows of its cards.
LEMMA CascadeKeepsStudy ==
    ASSUME StudyInv, LibraryNext, Cascade, UNCHANGED today
    PROVE  StudyInv'
<1>1. LibraryInv'
  BY LibraryStep DEF StudyInv
<1>2. /\ events' = [p \in Pairs |-> IF p[2] \in cards /\ p[2] \notin cards' THEN <<>> ELSE events[p]]
      /\ row' = [p \in Pairs |-> IF p[2] \in cards /\ p[2] \notin cards' THEN NoRow ELSE row[p]]
      /\ today' = today
  BY DEF Cascade
<1>3. PairIs(<<>>, NoRow, today)
  <2>1. <<>> \in Seq(Reviews) /\ Len(<<>>) = 0
    OBVIOUS
  <2>2. QED
    BY <2>1, StudyAssumption DEF PairIs
<1>4. ASSUME NEW p \in Pairs
      PROVE  /\ PairIs(events'[p], row'[p], today)
             /\ events'[p] # <<>> \/ row'[p] # NoRow => p[2] \in cards'
             /\ events'[p] \in Seq(Reviews) /\ row'[p] \in Rows \cup {NoRow}
  <2>1. CASE p[2] \in cards /\ p[2] \notin cards'
    <3>1. events'[p] = <<>> /\ row'[p] = NoRow
      BY <1>2, <2>1
    <3>2. QED
      BY <1>3, <3>1
  <2>2. CASE ~(p[2] \in cards /\ p[2] \notin cards')
    <3>1. events'[p] = events[p] /\ row'[p] = row[p]
      BY <1>2, <2>2
    <3>2. QED
      BY <2>2, <3>1 DEF StudyInv, PairsInv, PairIs
  <2>3. QED
    BY <2>1, <2>2
<1>5. events' \in [Pairs -> Seq(Reviews)] /\ row' \in [Pairs -> Rows \cup {NoRow}]
  BY <1>2, <1>4
<1>6. PairsInv'
  BY <1>2, <1>4, <1>5 DEF StudyInv, PairsInv
<1>7. QED
  BY <1>1, <1>6 DEF StudyInv

\* There is nothing to begin with.
LEMMA InitStudy == Init => StudyInv
<1> SUFFICES ASSUME Init
             PROVE  StudyInv
  OBVIOUS
<1>1. <<>> \in Seq(Reviews) /\ Len(<<>>) = 0 /\ <<>> \in Seq(ShareRows) /\ DOMAIN <<>> = {}
  OBVIOUS
<1>2. LibraryInv
  BY <1>1 DEF Init, LibraryInit, LibraryInv, LibraryTypeOK, Exists
<1>3. MaxReviews \in Nat /\ LastDay \in Nat
  BY StudyAssumption
<1>4. PairIs(<<>>, NoRow, today)
  BY <1>1, <1>3 DEF PairIs
<1>5. today \in 0 .. LastDay
  BY <1>3 DEF Init
<1>6. events \in [Pairs -> Seq(Reviews)] /\ row \in [Pairs -> Rows \cup {NoRow}]
      /\ \A p \in Pairs : events[p] = <<>> /\ row[p] = NoRow
  BY <1>1 DEF Init
<1>7. QED
  BY <1>2, <1>4, <1>5, <1>6 DEF StudyInv, PairsInv

\* Every step keeps the invariant.
LEMMA NextStudy == StudyInv /\ [Next]_studyVars => StudyInv'
<1> SUFFICES ASSUME StudyInv, [Next]_studyVars
             PROVE  StudyInv'
  OBVIOUS
<1>1. CASE UNCHANGED studyVars
  <2>1. LibraryInv'
    BY <1>1, LibraryStep DEF studyVars, libraryVars, StudyInv
  <2>2. PairsInv'
    BY <1>1 DEF studyVars, StudyInv, PairsInv
  <2>3. QED
    BY <2>1, <2>2 DEF StudyInv
<1>2. CASE Next
  BY <1>2, CascadeKeepsStudy, ReviewKeepsStudy, UndoKeepsStudy, SuspendKeepsStudy,
     NewDayKeepsStudy DEF Next
<1>3. QED
  BY <1>1, <1>2

\* Whatever is lent, deleted, reviewed and undone, StudyInv holds.
THEOREM SpecStudyInv == Spec => []StudyInv
  BY InitStudy, NextStudy, PTL DEF Spec

-----------------------------------------------------------------------------
(* What the invariant says.                                                  *)

\* The rows of the library and of study are what the schema declares.
THEOREM SpecTypeOK == Spec => []TypeOK
<1>1. ASSUME StudyInv
      PROVE  TypeOK
  <2>1. \A p \in Pairs : \A i \in DOMAIN events[p] : events[p][i].day <= today
    <3> SUFFICES ASSUME NEW p \in Pairs
                 PROVE  \A i \in DOMAIN events[p] : events[p][i].day <= today
      OBVIOUS
    <3>1. events[p] \in Seq(Reviews) /\ \A i \in 1 .. Len(events[p]) : events[p][i].day <= today
      BY <1>1, PairFacts
    <3>2. DOMAIN events[p] = 1 .. Len(events[p])
      BY <3>1
    <3>3. QED
      BY <3>1, <3>2
  <2>2. QED
    BY <1>1, <2>1 DEF StudyInv, LibraryInv, PairsInv, TypeOK
<1>2. QED
  BY <1>1, SpecStudyInv, PTL

\* Whatever is in flight when a deck is deleted, no share, card, review or
\* schedule of it is left or comes back.
THEOREM SpecNothingOutlivesItsDeck == Spec => []NothingOutlivesItsDeck
<1>1. ASSUME StudyInv, TypeOK
      PROVE  NothingOutlivesItsDeck
  BY <1>1 DEF StudyInv, LibraryInv, PairsInv, NothingOutlivesItsDeck
<1>2. QED
  BY <1>1, SpecStudyInv, SpecTypeOK, PTL

\* In any mix of reviews, cram reviews, undos and suspensions the schedule that
\* is stored is the one its history makes.
THEOREM SpecScheduleIsTheHistory == Spec => []ScheduleIsTheHistory
<1>1. ASSUME StudyInv, NEW p \in Pairs, row[p] # NoRow
      PROVE  LET history == Only({e \in Reviews : e.counts}, events[p])
                 streak == Streak(history)
             IN  /\ row[p].repetition = streak
                 /\ row[p].ease >= 130
                 /\ history = <<>> => (row[p].interval = 0 /\ row[p].due = Never)
                 /\ history # <<>> =>
                      /\ row[p].due = Last(history).day + row[p].interval
                      /\ streak <= 1 => row[p].interval = 1
                      /\ streak = 2 => row[p].interval = 6
                      /\ streak > 2 => row[p].interval > 6
  <2> DEFINE history == Only(Counting, events[p])
             s == Replayed(events[p])
  <2>1. events[p] \in Seq(Reviews) /\ RowReplays(row[p], events[p])
    BY <1>1, PairFacts DEF PairIs
  <2>2. Fits(s, history) /\ history \in Seq(Reviews)
    BY <2>1, ReplayedFits
  <2>3. /\ row[p].repetition = s.repetition /\ row[p].interval = s.interval
        /\ row[p].ease = s.ease /\ row[p].due = s.due
    BY <2>1 DEF RowReplays
  <2> HIDE DEF s, history
  <2>4. Streak(history) = s.repetition
    BY <2>2, StreakIsOne DEF Fits
  <2>5. Last(history) = history[Len(history)]
    BY DEF Last
  <2>6. /\ row[p].repetition = Streak(history)
        /\ row[p].ease >= 130
        /\ history = <<>> => (row[p].interval = 0 /\ row[p].due = Never)
        /\ history # <<>> =>
             /\ row[p].due = Last(history).day + row[p].interval
             /\ Streak(history) <= 1 => row[p].interval = 1
             /\ Streak(history) = 2 => row[p].interval = 6
             /\ Streak(history) > 2 => row[p].interval > 6
    BY <2>2, <2>3, <2>4, <2>5 DEF Fits
  <2>7. QED
    BY <2>6 DEF history, Counting
<1>2. StudyInv => \A p \in Pairs : row[p] = NoRow => events[p] = <<>>
  BY DEF StudyInv, PairsInv, PairIs
<1>3. StudyInv => ScheduleIsTheHistory
  BY <1>1, <1>2 DEF ScheduleIsTheHistory
<1>4. QED
  BY <1>3, SpecStudyInv, PTL

\* A card is introduced on one day, the first on which a review of it counted.
LEMMA IntroductionIsOnce ==
    ASSUME StudyInv, NEW u \in Users, NEW k \in Decks
    PROVE  /\ \A a, b \in 0 .. LastDay : a # b => Introduced(u, k, a) \cap Introduced(u, k, b) = {}
           /\ UNION {Introduced(u, k, day) : day \in 0 .. LastDay}
                = {p \in InDeck(u, k) : \E i \in DOMAIN events[p] : events[p][i].counts}
<1>1. ASSUME NEW p \in InDeck(u, k)
      PROVE  /\ p \in Pairs /\ events[p] \in Seq(Reviews)
             /\ \A i \in DOMAIN events[p] : events[p][i].day \in 0 .. LastDay
             /\ LastDay \in Nat
  <2>1. p \in Pairs
    BY DEF InDeck
  <2>2. events[p] \in Seq(Reviews)
    BY <2>1, PairFacts
  <2>3. \A i \in DOMAIN events[p] : events[p][i] \in Reviews
    BY <2>2
  <2>4. QED
    BY <2>1, <2>2, <2>3, ReviewFacts, StudyAssumption
<1>2. ASSUME NEW a \in 0 .. LastDay, NEW b \in 0 .. LastDay, a < b,
             NEW p \in Introduced(u, k, a), p \in Introduced(u, k, b)
      PROVE  FALSE
  <2>1. p \in InDeck(u, k) /\ Counted(p, a) # {} /\ CountedBefore(p, b) = {}
    BY <1>2 DEF Introduced
  <2>2. PICK i \in DOMAIN events[p] : events[p][i].counts /\ events[p][i].day = a
    BY <2>1 DEF Counted
  <2>3. i \in CountedBefore(p, b)
    BY <1>2, <2>2 DEF CountedBefore
  <2>4. QED
    BY <2>1, <2>3
<1>3. ASSUME NEW p \in InDeck(u, k), NEW i \in DOMAIN events[p], events[p][i].counts
      PROVE  \E day \in 0 .. LastDay : p \in Introduced(u, k, day)
  <2> DEFINE Days == {day \in 0 .. LastDay : Counted(p, day) # {}}
  <2>1. events[p][i].day \in Days
    BY <1>1, <1>3 DEF Counted
  <2>2. Days \in SUBSET Nat /\ Days # {}
    BY <1>1, <2>1
  <2>3. PICK first \in Days : \A day \in Days : first <= day
    BY <2>2, LeastNumber
  <2>4. CountedBefore(p, first) = {}
    <3> SUFFICES ASSUME NEW j \in CountedBefore(p, first)
                 PROVE  FALSE
      OBVIOUS
    <3>1. /\ j \in DOMAIN events[p] /\ events[p][j].counts /\ events[p][j].day < first
          /\ events[p][j].day \in 0 .. LastDay
      BY <1>1 DEF CountedBefore
    <3>2. events[p][j].day \in Days
      BY <3>1 DEF Counted
    <3>3. first <= events[p][j].day
      BY <2>3, <3>2
    <3>4. first \in Nat /\ events[p][j].day \in Nat
      BY <1>1, <2>2, <3>1
    <3>5. QED
      BY <3>1, <3>3, <3>4
  <2>5. p \in Introduced(u, k, first) /\ first \in 0 .. LastDay
    BY <2>3, <2>4 DEF Introduced
  <2>6. QED
    BY <2>5
<1>4. \A a, b \in 0 .. LastDay : a # b => Introduced(u, k, a) \cap Introduced(u, k, b) = {}
  <2>1. \A a, b \in 0 .. LastDay : a < b \/ b < a \/ a = b
    BY StudyAssumption
  <2>2. QED
    BY <1>2, <2>1
<1>5. \A day \in 0 .. LastDay : \A p \in Introduced(u, k, day) :
        p \in InDeck(u, k) /\ \E i \in DOMAIN events[p] : events[p][i].counts
  BY DEF Introduced, Counted
<1>6. QED
  BY <1>3, <1>4, <1>5

\* The cards introduced in a day are no more than its reviews.
LEMMA IntroducedAreReviewed ==
    ASSUME StudyInv, NEW u \in Users, NEW k \in Decks, NEW day \in 0 .. LastDay
    PROVE  Cardinality(Introduced(u, k, day)) <= Cardinality(Reviewed(u, k, day))
<1> DEFINE In == Introduced(u, k, day)
           Re == Reviewed(u, k, day)
           f == [p \in In |-> <<p, CHOOSE i \in Counted(p, day) : TRUE>>]
<1>1. IsFiniteSet(Re)
  <2>1. IsFiniteSet(Users) /\ IsFiniteSet(Cards) /\ MaxReviews \in Nat
    BY StudyAssumption
  <2>2. IsFiniteSet(Users \X Cards)
    BY <2>1, FS_Product
  <2>3. IsFiniteSet(InDeck(u, k))
    BY <2>2, FS_Subset DEF InDeck, Pairs
  <2>4. IsFiniteSet(1 .. MaxReviews)
    BY <2>1, FS_Interval
  <2>5. IsFiniteSet(InDeck(u, k) \X (1 .. MaxReviews))
    BY <2>3, <2>4, FS_Product
  <2>6. QED
    BY <2>5, FS_Subset DEF Reviewed
<1>2. ASSUME NEW p \in In
      PROVE  f[p] \in Re /\ f[p][1] = p
  <2>1. p \in InDeck(u, k) /\ Counted(p, day) # {}
    BY DEF Introduced
  <2>2. PICK i : i = (CHOOSE j \in Counted(p, day) : TRUE)
    OBVIOUS
  <2>3. i \in Counted(p, day) /\ f[p] = <<p, i>>
    BY <2>1, <2>2
  <2>4. Len(events[p]) \in Nat /\ Len(events[p]) <= MaxReviews /\ MaxReviews \in Nat
        /\ events[p] \in Seq(Reviews)
    BY <2>1, PairFacts DEF InDeck
  <2>5. i \in 1 .. MaxReviews
    BY <2>3, <2>4 DEF Counted
  <2>6. QED
    BY <2>1, <2>3, <2>5 DEF Reviewed
<1>3. f \in Injection(In, Re)
  <2> DEFINE g == f
  <2>1. f \in [In -> Re]
    BY <1>2
  <2>2. \A p, q \in In : f[p] = f[q] => p = q
    BY <1>2
  <2> HIDE DEF f, In, Re
  <2>3. QED
    BY <2>1, <2>2 DEF Injection, IsInjective
<1> HIDE DEF In, Re, f
<1>4. Cardinality(In) <= Cardinality(Re)
  BY <1>1, <1>3, FS_Injection
<1>5. QED
  BY <1>4 DEF In, Re

\* Over the days each card that was scheduled is counted as introduced once.
THEOREM SpecEachCardIsIntroducedOnce == Spec => []EachCardIsIntroducedOnce
<1>1. StudyInv => EachCardIsIntroducedOnce
  BY IntroductionIsOnce, IntroducedAreReviewed DEF EachCardIsIntroducedOnce
<1>2. QED
  BY <1>1, SpecStudyInv, PTL

\* When a share takes effect what the reader may open of the document is what
\* it says, whatever older shares of the document the reader has.
THEOREM SpecNewestShareDecides == Spec => NewestShareDecides
<1>1. ASSUME LibraryInv, NEW request \in Requests,
             FinishShare(request), Grantable(request), Exists(request.deck)
      PROVE  MayOpenDocument(request.to, decks[request.deck])'
               <=> request.scope = "study_and_source"
  <2> DEFINE u == request.to
             d == decks[request.deck]
             kept == Only({r \in ShareRows : ~(r.deck = request.deck /\ r.to = request.to)}, shares)
             n == Len(kept) + 1
             new == Granted(request)
  <2>1. shares' = Append(kept, new) /\ UNCHANGED <<documents, decks>>
    BY <1>1 DEF FinishShare
  <2>2. kept \in Seq(ShareRows)
    BY <1>1, SharesKept
  <2> HIDE DEF kept
  <2>3. new \in ShareRows /\ new.deck = request.deck /\ new.to = u
        /\ new.scope = request.scope /\ new.live = TRUE
    BY DEF Granted, ShareRows, Requests
  <2>4. /\ shares' \in Seq(ShareRows) /\ DOMAIN shares' = 1 .. n /\ n \in Nat \ {0}
        /\ shares'[n] = new
    BY <2>2, <2>3, AppendProperties, <2>1
  <2> HIDE DEF n, new
  <2>5. d \in documents' /\ OwnerOf[d] # u
    BY <1>1, <2>1 DEF LibraryInv, Grantable, DeckOwner, Requests
  <2> DEFINE Found == {i \in DOMAIN shares' : /\ shares'[i].to = u /\ shares'[i].live
                                              /\ decks[shares'[i].deck] = d}
  <2>6. n \in Found /\ \A i \in Found : i \in Nat /\ i <= n
    BY <2>3, <2>4
  <2>7. MayOpenDocument(u, d)' <=>
          \E i \in Found : (\A j \in Found : j <= i) /\ shares'[i].scope = "study_and_source"
    BY <2>1, <2>5 DEF MayOpenDocument, SharesOfDocument
  <2>8. \A i \in Found : (\A j \in Found : j <= i) <=> i = n
    BY <2>4, <2>6
  <2>9. QED
    BY <2>3, <2>4, <2>6, <2>7, <2>8
<1>2. StudyInv =>
        [\A request \in Requests :
           (FinishShare(request) /\ Grantable(request) /\ Exists(request.deck)) =>
             (MayOpenDocument(request.to, decks[request.deck])'
                <=> request.scope = "study_and_source")]_libraryVars
  BY <1>1 DEF StudyInv
<1>3. QED
  BY <1>2, SpecStudyInv, PTL DEF NewestShareDecides
=============================================================================
