-------------------------- MODULE RunPipeline_proofs --------------------------
(***************************************************************************)
(* What a run's progress and report say, for any concepts, batches and     *)
(* coverage, and however often the run is stopped, lost and continued.     *)
(***************************************************************************)
EXTENDS RunPipeline, SequenceTheorems, WellFoundedInduction, TLAPS

-----------------------------------------------------------------------------
(* Induction over numbers, as a fact about sets of them.                     *)

\* A set of numbers has a least one.
LEMMA LeastNumber ==
    ASSUME NEW S \in SUBSET Nat, S # {}
    PROVE  \E m \in S : \A n \in S : m <= n
<1>1. IsWellFoundedOn(OpToRel(<, Nat), Nat)
  BY NatLessThanWellFounded
<1>2. PICK m \in S : \A n \in S : <<n, m>> \notin OpToRel(<, Nat)
  BY <1>1, WFMin
<1>3. \A n \in S : ~(n < m)
  BY <1>2 DEF OpToRel
<1>4. QED
  BY <1>3

\* A set that has 0, and with each number up to a bound the next, has them all.
LEMMA NumbersUpTo ==
    ASSUME NEW top \in Nat, NEW S, 0 \in S,
           \A n \in 0 .. top - 1 : n \in S => n + 1 \in S
    PROVE  0 .. top \subseteq S
<1> SUFFICES ASSUME (0 .. top) \ S # {}
             PROVE  FALSE
  OBVIOUS
<1>1. PICK m \in (0 .. top) \ S : \A n \in (0 .. top) \ S : m <= n
  BY LeastNumber, (0 .. top) \ S \in SUBSET Nat
<1>2. m # 0 /\ m - 1 \in 0 .. top - 1 /\ m - 1 \notin (0 .. top) \ S
  BY <1>1
<1>3. m - 1 \in S
  BY <1>2
<1>4. QED
  BY <1>1, <1>2, <1>3

-----------------------------------------------------------------------------
(* Passes over a sequence.                                                   *)

\* One step of a pass, from what it has kept to what it keeps.
Pass(pairs, S, before, c) ==
    IF c \in S /\ ~ReadsLike(pairs, before, c) THEN Append(before, c) ELSE before

\* What a pass keeps is defined: its recursion has a solution.
LEMMA PassExists ==
    ASSUME NEW pairs, NEW S, NEW T, NEW seq \in Seq(T)
    PROVE  \E f : f = [n \in 0 .. Len(seq) |->
                         IF n = 0 THEN <<>> ELSE Pass(pairs, S, f[n - 1], seq[n])]
<1> DEFINE Solves(f, m) == f = [n \in 0 .. m |->
                         IF n = 0 THEN <<>> ELSE Pass(pairs, S, f[n - 1], seq[n])]
           Solved == {m \in Nat : \E f : Solves(f, m)}
<1> Len(seq) \in Nat
  OBVIOUS
<1>1. 0 \in Solved
  <2> DEFINE f == [n \in 0 .. 0 |-> <<>>]
  <2>1. Solves(f, 0)
    OBVIOUS
  <2>2. QED
    BY <2>1
<1>2. ASSUME NEW m \in 0 .. Len(seq) - 1, m \in Solved
      PROVE  m + 1 \in Solved
  <2>1. PICK f : Solves(f, m)
    BY <1>2
  <2> DEFINE g == [n \in 0 .. m + 1 |->
                     IF n = m + 1 THEN Pass(pairs, S, f[m], seq[m + 1]) ELSE f[n]]
  <2>2. \A n \in 0 .. m : g[n] = f[n]
    OBVIOUS
  <2>3. \A n \in 0 .. m : f[n] = IF n = 0 THEN <<>> ELSE Pass(pairs, S, f[n - 1], seq[n])
    BY <2>1
  <2>4. \A n \in 0 .. m + 1 :
          g[n] = IF n = 0 THEN <<>> ELSE Pass(pairs, S, g[n - 1], seq[n])
    BY <2>2, <2>3
  <2>5. Solves(g, m + 1)
    BY <2>4
  <2>6. QED
    <3> HIDE DEF Solves, g
    <3>1. QED
      BY <2>5
<1>3. Len(seq) \in Solved
  <2> HIDE DEF Solved
  <2>1. 0 .. Len(seq) \subseteq Solved
    BY <1>1, <1>2, NumbersUpTo
  <2>2. QED
    BY <2>1
<1>4. QED
  BY <1>3

\* A pass keeps nothing of nothing, and then decides about one member at a time.
LEMMA FirstsSteps ==
    ASSUME NEW pairs, NEW S, NEW T, NEW seq \in Seq(T)
    PROVE  /\ Firsts(pairs, S, seq)[0] = <<>>
           /\ \A n \in 1 .. Len(seq) :
                Firsts(pairs, S, seq)[n] = Pass(pairs, S, Firsts(pairs, S, seq)[n - 1], seq[n])
<1> DEFINE f == Firsts(pairs, S, seq)
<1>1. f = CHOOSE g : g = [n \in 0 .. Len(seq) |->
                            IF n = 0 THEN <<>> ELSE Pass(pairs, S, g[n - 1], seq[n])]
  BY DEF Firsts, Pass
<1>2. f = [n \in 0 .. Len(seq) |-> IF n = 0 THEN <<>> ELSE Pass(pairs, S, f[n - 1], seq[n])]
  <2> HIDE DEF f
  <2>1. QED
    BY <1>1, PassExists
<1>3. QED
  <2> HIDE DEF f
  <2> Len(seq) \in Nat
    OBVIOUS
  <2>1. f[0] = <<>> /\ \A n \in 1 .. Len(seq) : f[n] = Pass(pairs, S, f[n - 1], seq[n])
    BY <1>2
  <2>2. QED
    BY <2>1 DEF f

\* The first n members of a sequence.
FirstOf(n, seq) == {seq[i] : i \in 1 .. n}

\* The empty sequence, as a fact about members.
LEMMA Nothing ==
    /\ \A T : <<>> \in Seq(T)
    /\ Len(<<>>) = 0 /\ ToSet(<<>>) = {} /\ IsInjective(<<>>)
  BY DEF ToSet, IsInjective

\* Adding a member at the end, as a fact about members.
LEMMA Appended ==
    ASSUME NEW T, NEW seq \in Seq(T), NEW c \in T
    PROVE  /\ Append(seq, c) \in Seq(T)
           /\ Len(Append(seq, c)) = Len(seq) + 1
           /\ ToSet(Append(seq, c)) = ToSet(seq) \cup {c}
           /\ IsInjective(seq) /\ c \notin ToSet(seq) => IsInjective(Append(seq, c))
<1> DEFINE long == Append(seq, c)
<1>1. /\ long \in Seq(T) /\ Len(long) = Len(seq) + 1 /\ Len(seq) \in Nat
      /\ DOMAIN long = 1 .. Len(seq) + 1 /\ DOMAIN seq = 1 .. Len(seq)
      /\ \A i \in 1 .. Len(seq) : long[i] = seq[i]
      /\ long[Len(seq) + 1] = c
  BY AppendProperties
<1> HIDE DEF long
<1>2. ToSet(long) = ToSet(seq) \cup {c}
  BY <1>1 DEF ToSet
<1>3. IsInjective(seq) /\ c \notin ToSet(seq) => IsInjective(long)
  BY <1>1 DEF ToSet, IsInjective
<1>4. QED
  BY <1>1, <1>2, <1>3 DEF long

\* What a pass has kept are members of S among those it has seen, none twice.
LEMMA FirstsFacts ==
    ASSUME NEW pairs, NEW S, NEW T, NEW seq \in Seq(T), NEW n \in 0 .. Len(seq)
    PROVE  /\ Firsts(pairs, S, seq)[n] \in Seq(T)
           /\ IsInjective(Firsts(pairs, S, seq)[n])
           /\ Len(Firsts(pairs, S, seq)[n]) <= n
           /\ ToSet(Firsts(pairs, S, seq)[n]) \subseteq S \cap FirstOf(n, seq)
<1> DEFINE f == Firsts(pairs, S, seq)
           Good(m) == /\ f[m] \in Seq(T) /\ IsInjective(f[m]) /\ Len(f[m]) <= m
                      /\ ToSet(f[m]) \subseteq S \cap FirstOf(m, seq)
           Goods == {m \in Nat : Good(m)}
<1> Len(seq) \in Nat
  OBVIOUS
<1>1. f[0] = <<>> /\ \A m \in 1 .. Len(seq) : f[m] = Pass(pairs, S, f[m - 1], seq[m])
  BY FirstsSteps
<1> HIDE DEF f
<1>2. 0 \in Goods
  <2>1. Good(0)
    BY <1>1, Nothing
  <2>2. QED
    BY <2>1
<1>3. ASSUME NEW m \in 0 .. Len(seq) - 1, m \in Goods
      PROVE  m + 1 \in Goods
  <2>1. /\ Good(m) /\ f[m + 1] = Pass(pairs, S, f[m], seq[m + 1])
        /\ m + 1 \in 1 .. Len(seq) /\ seq[m + 1] \in T
    BY <1>1, <1>3
  <2>2. FirstOf(m, seq) \subseteq FirstOf(m + 1, seq) /\ seq[m + 1] \in FirstOf(m + 1, seq)
    BY <2>1 DEF FirstOf
  <2>3. CASE f[m + 1] = f[m]
    BY <2>1, <2>2, <2>3
  <2>4. CASE f[m + 1] # f[m]
    <3>1. /\ f[m + 1] = Append(f[m], seq[m + 1])
          /\ seq[m + 1] \in S /\ seq[m + 1] \notin ToSet(f[m])
      BY <2>1, <2>4 DEF Pass, ReadsLike
    <3>2. /\ f[m + 1] \in Seq(T) /\ Len(f[m + 1]) = Len(f[m]) + 1
          /\ ToSet(f[m + 1]) = ToSet(f[m]) \cup {seq[m + 1]} /\ IsInjective(f[m + 1])
      <4>1. f[m] \in Seq(T) /\ seq[m + 1] \in T /\ IsInjective(f[m])
        BY <2>1
      <4>2. QED
        BY ONLY <3>1, <4>1, Appended
    <3>3. Len(f[m]) \in Nat
      BY <2>1
    <3>4. Good(m + 1)
      BY <2>1, <2>2, <3>1, <3>2, <3>3
    <3>5. QED
      BY <3>4
  <2>5. QED
    BY <2>3, <2>4
<1>4. 0 .. Len(seq) \subseteq Goods
  <2> HIDE DEF Goods
  <2>1. QED
    BY <1>2, <1>3, NumbersUpTo
<1>5. QED
  BY <1>4 DEF f

\* With no likeness but its own a pass keeps all the members of S it has seen.
LEMMA FirstsOfThose ==
    ASSUME NEW S, NEW T, NEW seq \in Seq(T), NEW n \in 0 .. Len(seq)
    PROVE  ToSet(Firsts({}, S, seq)[n]) = S \cap FirstOf(n, seq)
<1> DEFINE f == Firsts({}, S, seq)
           Full == {m \in Nat : S \cap FirstOf(m, seq) \subseteq ToSet(f[m])}
<1> Len(seq) \in Nat
  OBVIOUS
<1>1. f[0] = <<>> /\ \A m \in 1 .. Len(seq) : f[m] = Pass({}, S, f[m - 1], seq[m])
  BY FirstsSteps
<1>2. \A m \in 0 .. Len(seq) : f[m] \in Seq(T) /\ ToSet(f[m]) \subseteq S \cap FirstOf(m, seq)
  BY FirstsFacts
<1> HIDE DEF f
<1>3. 0 \in Full
  BY DEF FirstOf
<1>4. ASSUME NEW m \in 0 .. Len(seq) - 1, m \in Full
      PROVE  m + 1 \in Full
  <2>1. /\ f[m + 1] = Pass({}, S, f[m], seq[m + 1])
        /\ m \in 0 .. Len(seq) /\ m + 1 \in 1 .. Len(seq) /\ seq[m + 1] \in T
        /\ f[m] \in Seq(T)
    BY <1>1, <1>2, <1>4
  <2>2. FirstOf(m + 1, seq) = FirstOf(m, seq) \cup {seq[m + 1]}
    BY <2>1 DEF FirstOf
  <2>3. CASE seq[m + 1] \in S /\ seq[m + 1] \notin ToSet(f[m])
    <3>1. f[m + 1] = Append(f[m], seq[m + 1])
      BY <2>1, <2>3 DEF Pass, ReadsLike
    <3>2. ToSet(f[m + 1]) = ToSet(f[m]) \cup {seq[m + 1]}
      <4>1. f[m] \in Seq(T) /\ seq[m + 1] \in T
        BY <2>1
      <4>2. QED
        BY ONLY <3>1, <4>1, Appended
    <3>3. QED
      BY <1>4, <2>2, <3>2
  <2>4. CASE ~(seq[m + 1] \in S /\ seq[m + 1] \notin ToSet(f[m]))
    <3>1. f[m + 1] = f[m]
      BY <2>1, <2>4 DEF Pass, ReadsLike
    <3>2. QED
      BY <1>4, <2>2, <2>4, <3>1
  <2>5. QED
    BY <2>3, <2>4
<1>5. 0 .. Len(seq) \subseteq Full
  <2> HIDE DEF Full
  <2>1. QED
    BY <1>3, <1>4, NumbersUpTo
<1>6. QED
  BY <1>2, <1>5 DEF f

\* What a pass keeps depends on the members of S it has seen, and on no others.
LEMMA FirstsAgree ==
    ASSUME NEW pairs, NEW S, NEW R, NEW T, NEW seq \in Seq(T), NEW n \in 0 .. Len(seq),
           S \cap FirstOf(n, seq) = R \cap FirstOf(n, seq)
    PROVE  Firsts(pairs, S, seq)[n] = Firsts(pairs, R, seq)[n]
<1> DEFINE f == Firsts(pairs, S, seq)
           g == Firsts(pairs, R, seq)
           Equal == {m \in Nat : f[m] = g[m]}
<1> Len(seq) \in Nat
  OBVIOUS
<1>1. /\ f[0] = <<>> /\ \A m \in 1 .. Len(seq) : f[m] = Pass(pairs, S, f[m - 1], seq[m])
      /\ g[0] = <<>> /\ \A m \in 1 .. Len(seq) : g[m] = Pass(pairs, R, g[m - 1], seq[m])
  BY FirstsSteps
<1> HIDE DEF f, g
<1>2. 0 \in Equal
  BY <1>1
<1>3. ASSUME NEW m \in 0 .. n - 1, m \in Equal
      PROVE  m + 1 \in Equal
  <2>1. m + 1 \in 1 .. Len(seq) /\ m + 1 \in 1 .. n
    OBVIOUS
  <2>2. seq[m + 1] \in S <=> seq[m + 1] \in R
    BY <2>1 DEF FirstOf
  <2>3. f[m + 1] = Pass(pairs, S, f[m], seq[m + 1]) /\ g[m + 1] = Pass(pairs, R, g[m], seq[m + 1])
    BY <1>1, <2>1
  <2>4. QED
    BY <1>3, <2>2, <2>3 DEF Pass
<1>4. 0 .. n \subseteq Equal
  <2> HIDE DEF Equal
  <2>1. QED
    BY <1>2, <1>3, NumbersUpTo
<1>5. QED
  BY <1>4 DEF f, g

-----------------------------------------------------------------------------
(* The concepts of a run.                                                    *)

\* The beginning of a sequence, as a fact about members.
LEMMA Beginning ==
    ASSUME NEW T, NEW seq \in Seq(T), NEW n \in 0 .. Len(seq)
    PROVE  /\ SubSeq(seq, 1, n) \in Seq(T)
           /\ Len(SubSeq(seq, 1, n)) = n
           /\ \A i \in 1 .. n : SubSeq(seq, 1, n)[i] = seq[i]
           /\ ToSet(SubSeq(seq, 1, n)) = FirstOf(n, seq)
           /\ IsInjective(seq) => IsInjective(SubSeq(seq, 1, n))
<1> DEFINE short == SubSeq(seq, 1, n)
<1>1. /\ short \in Seq(T) /\ Len(short) = n /\ \A i \in 1 .. n : short[i] = seq[i]
      /\ DOMAIN short = 1 .. n /\ DOMAIN seq = 1 .. Len(seq) /\ Len(seq) \in Nat
  BY SubSeqProperties
<1> HIDE DEF short
<1>2. ToSet(short) = FirstOf(n, seq)
  BY <1>1 DEF ToSet, FirstOf
<1>3. IsInjective(seq) => IsInjective(short)
  BY <1>1 DEF IsInjective
<1>4. QED
  BY <1>1, <1>2, <1>3 DEF short

\* All of a sequence.
LEMMA Whole ==
    ASSUME NEW T, NEW seq \in Seq(T)
    PROVE  Len(seq) \in Nat /\ FirstOf(Len(seq), seq) = ToSet(seq) /\ ToSet(seq) \subseteq T
  BY DEF ToSet, FirstOf

\* The concepts known after so many batches, and that they only grow.
LEMMA KnownFacts ==
    ASSUME NEW b \in 0 .. Len(BatchEnds)
    PROVE  /\ Known(b) \in Seq(Concepts)
           /\ Len(Known(b)) \in 0 .. Len(Candidates)
           /\ ToSet(Known(0)) = {}
           /\ b < Len(BatchEnds) => ToSet(Known(b)) \subseteq ToSet(Known(b + 1))
<1>1. /\ Candidates \in Seq(Concepts) /\ Len(Candidates) \in Nat
      /\ Len(BatchEnds) \in Nat
      /\ \A e \in 1 .. Len(BatchEnds) : BatchEnds[e] \in 0 .. Len(Candidates)
      /\ \A e \in 1 .. Len(BatchEnds) - 1 : BatchEnds[e] <= BatchEnds[e + 1]
  BY PipelineAssumption
<1>2. \A e \in 1 .. Len(BatchEnds) :
        /\ Known(e) \in Seq(Concepts)
        /\ Len(Known(e)) = BatchEnds[e]
        /\ ToSet(Known(e)) = FirstOf(BatchEnds[e], Candidates)
  BY <1>1, Beginning DEF Known
<1>3. Known(0) \in Seq(Concepts) /\ Len(Known(0)) = 0 /\ ToSet(Known(0)) = {}
  <2>1. Known(0) = <<>>
    BY DEF Known
  <2>2. QED
    BY ONLY <2>1, Nothing
<1>4. ASSUME b < Len(BatchEnds), b # 0
      PROVE  ToSet(Known(b)) \subseteq ToSet(Known(b + 1))
  <2>1. BatchEnds[b] <= BatchEnds[b + 1] /\ b \in 1 .. Len(BatchEnds) /\ b + 1 \in 1 .. Len(BatchEnds)
    BY <1>1, <1>4
  <2>2. FirstOf(BatchEnds[b], Candidates) \subseteq FirstOf(BatchEnds[b + 1], Candidates)
    BY <1>1, <2>1 DEF FirstOf
  <2>3. QED
    BY <1>2, <2>1, <2>2
<1>5. CASE b = 0
  BY <1>1, <1>3, <1>5
<1>6. CASE b # 0
  <2>1. b \in 1 .. Len(BatchEnds)
    BY <1>6
  <2>2. QED
    BY <1>1, <1>2, <1>3, <1>4, <1>6, <2>1
<1>7. QED
  BY <1>5, <1>6

\* The concepts included are some of those known, each once.
LEMMA IncludedFacts ==
    ASSUME NEW b \in 0 .. Len(BatchEnds)
    PROVE  /\ Included[b] \in Seq(Concepts)
           /\ IsInjective(Included[b])
           /\ Len(Included[b]) \in 0 .. Len(Candidates)
           /\ ToSet(Included[b]) \subseteq ToSet(Known(b))
<1> DEFINE known == Known(b)
           eligible == FirstOfEach(Restates, Verified, known)
           central == Those(Central, eligible)
           cut == IF MaxConcepts < Len(central) THEN MaxConcepts ELSE Len(central)
<1>1. known \in Seq(Concepts) /\ Len(known) \in 0 .. Len(Candidates) /\ Len(Candidates) \in Nat
  BY KnownFacts, PipelineAssumption
<1>2. Included[b] = SubSeq(central, 1, cut)
  BY DEF Included, UpTo
<1> HIDE DEF known
<1>3. eligible \in Seq(Concepts) /\ Len(eligible) <= Len(known) /\ ToSet(eligible) \subseteq ToSet(known)
  BY <1>1, FirstsFacts, Whole DEF FirstOfEach
<1> HIDE DEF eligible
<1>4. /\ central \in Seq(Concepts) /\ IsInjective(central) /\ Len(central) <= Len(eligible)
      /\ ToSet(central) \subseteq ToSet(eligible)
  BY <1>3, FirstsFacts, Whole DEF FirstOfEach, Those
<1>5. MaxConcepts \in Nat
  BY PipelineAssumption
<1> HIDE DEF central
<1>6. cut \in 0 .. Len(central) /\ Len(central) \in Nat /\ Len(eligible) \in Nat
  BY <1>3, <1>4, <1>5
<1>7. /\ Included[b] \in Seq(Concepts) /\ IsInjective(Included[b]) /\ Len(Included[b]) = cut
      /\ ToSet(Included[b]) = FirstOf(cut, central)
  BY <1>2, <1>4, <1>6, Beginning
<1>8. FirstOf(cut, central) \subseteq ToSet(central)
  BY <1>4, <1>6 DEF FirstOf, ToSet
<1>9. QED
  BY <1>1, <1>3, <1>4, <1>6, <1>7, <1>8 DEF known

\* Extraction goes on before LastBatch, and no further.
LEMMA LastBatchFacts ==
    /\ LastBatch \in 0 .. Len(BatchEnds)
    /\ LastBatch = Len(BatchEnds) \/ Len(Known(LastBatch)) >= MaxConcepts
    /\ \A b \in 0 .. LastBatch - 1 : b < Len(BatchEnds) /\ Len(Known(b)) < MaxConcepts
<1> DEFINE Lasts == {b \in 0 .. Len(BatchEnds) : b = Len(BatchEnds) \/ Len(Known(b)) >= MaxConcepts}
<1>1. Len(BatchEnds) \in Nat /\ MaxConcepts \in Nat
  BY PipelineAssumption
<1>2. Len(BatchEnds) \in Lasts /\ Lasts \in SUBSET Nat
  BY <1>1
<1>3. LastBatch \in Lasts /\ \A b \in Lasts : LastBatch <= b
  <2>1. \E m \in Lasts : \A n \in Lasts : m <= n
    BY <1>2, LeastNumber
  <2>2. LastBatch = CHOOSE m \in Lasts : \A n \in Lasts : m <= n
    BY DEF LastBatch, Min
  <2>3. QED
    BY <2>1, <2>2
<1>4. ASSUME NEW b \in 0 .. LastBatch - 1
      PROVE  b < Len(BatchEnds) /\ Len(Known(b)) < MaxConcepts
  <2>1. b \in 0 .. Len(BatchEnds) /\ b \notin Lasts
    BY <1>1, <1>3
  <2>2. Len(Known(b)) \in Nat
    BY <2>1, KnownFacts, PipelineAssumption
  <2>3. QED
    BY <1>1, <2>1, <2>2
<1>5. QED
  BY <1>3, <1>4

\* The concepts that are due: some of those known when extraction ends.
LEMMA DueFacts ==
    /\ Due \in Seq(Concepts)
    /\ IsInjective(Due)
    /\ Len(Due) \in 0 .. Len(Candidates) /\ Len(Due) \in Nat
    /\ ToSet(Due) \subseteq ToSet(Known(LastBatch))
  BY LastBatchFacts, IncludedFacts, PipelineAssumption DEF Due

\* Where the n-th card batch ends.
BatchEnd(n) == IF n * CardBatchSize < Len(Due) THEN n * CardBatchSize ELSE Len(Due)

\* Card batches follow each other, and there is none past the concepts due.
LEMMA BatchEndFacts ==
    ASSUME NEW n \in Nat
    PROVE  /\ BatchEnd(0) = 0
           /\ BatchEnd(n) \in 0 .. Len(Due)
           /\ BatchEnd(n) <= BatchEnd(n + 1)
           /\ n * CardBatchSize < Len(Due) =>
                /\ BatchEnd(n) = n * CardBatchSize /\ BatchEnd(n) < BatchEnd(n + 1)
           /\ ~(n * CardBatchSize < Len(Due)) => BatchEnd(n) = Len(Due)
<1>1. CardBatchSize \in Nat \ {0} /\ Len(Due) \in Nat
  BY PipelineAssumption, DueFacts
<1> DEFINE at == n * CardBatchSize
<1>2. at \in Nat /\ (n + 1) * CardBatchSize = at + CardBatchSize /\ 0 * CardBatchSize = 0
  BY <1>1
<1> HIDE DEF at
<1>3. BatchEnd(n) = IF at < Len(Due) THEN at ELSE Len(Due)
  BY DEF BatchEnd, at
<1>4. BatchEnd(n + 1) = IF at + CardBatchSize < Len(Due) THEN at + CardBatchSize ELSE Len(Due)
  BY <1>2 DEF BatchEnd
<1>5. BatchEnd(0) = 0
  BY <1>1, <1>2 DEF BatchEnd
<1>6. /\ BatchEnd(n) \in 0 .. Len(Due) /\ BatchEnd(n) <= BatchEnd(n + 1)
      /\ at < Len(Due) => BatchEnd(n) = at /\ BatchEnd(n) < BatchEnd(n + 1)
      /\ ~(at < Len(Due)) => BatchEnd(n) = Len(Due)
  BY <1>1, <1>2, <1>3, <1>4
<1>7. QED
  BY <1>5, <1>6 DEF at

\* A batch lies before each later one.
LEMMA BatchEndGrows ==
    ASSUME NEW n \in Nat, NEW m \in Nat, m <= n
    PROVE  BatchEnd(m) <= BatchEnd(n)
<1> DEFINE Past == {d \in Nat : BatchEnd(m) <= BatchEnd(m + d)}
<1>1. 0 \in Past
  BY BatchEndFacts
<1>2. ASSUME NEW d \in 0 .. (n - m) - 1, d \in Past
      PROVE  d + 1 \in Past
  <2>1. BatchEnd(m + d) <= BatchEnd((m + d) + 1) /\ BatchEnd(m) <= BatchEnd(m + d)
    BY <1>2, BatchEndFacts
  <2>2. /\ BatchEnd(m) \in 0 .. Len(Due) /\ BatchEnd(m + d) \in 0 .. Len(Due)
        /\ BatchEnd((m + d) + 1) \in 0 .. Len(Due) /\ (m + d) + 1 = m + (d + 1)
    BY BatchEndFacts
  <2>3. QED
    BY <2>1, <2>2, DueFacts
<1>3. 0 .. n - m \subseteq Past
  <2> HIDE DEF Past
  <2>1. QED
    BY <1>1, <1>2, NumbersUpTo
<1>4. QED
  BY <1>3, m + (n - m) = n

\* A card batch of a run is the concepts due from the end of the one before.
LEMMA CardBatchFacts ==
    ASSUME NEW n \in Nat
    PROVE  /\ n * CardBatchSize < Len(Due) =>
                /\ CardBatch(LastBatch, n + 1) = SubSeq(Due, BatchEnd(n) + 1, BatchEnd(n + 1))
                /\ CardBatch(LastBatch, n + 1) # <<>>
           /\ ~(n * CardBatchSize < Len(Due)) => CardBatch(LastBatch, n + 1) = <<>>
<1> DEFINE at == n * CardBatchSize
           all == SubSeq(Due, 1, BatchEnd(n + 1))
<1>1. CardBatchSize \in Nat \ {0} /\ Len(Due) \in Nat /\ Due \in Seq(Concepts)
  BY PipelineAssumption, DueFacts
<1>2. /\ BatchEnd(n) \in 0 .. Len(Due) /\ BatchEnd(n + 1) \in 0 .. Len(Due)
      /\ at \in Nat
      /\ at < Len(Due) => BatchEnd(n) = at /\ BatchEnd(n) < BatchEnd(n + 1)
      /\ ~(at < Len(Due)) => BatchEnd(n) = Len(Due)
  <2>1. at \in Nat
    BY <1>1
  <2>2. BatchEnd(n + 1) \in 0 .. Len(Due)
    BY ONLY n + 1 \in Nat, BatchEndFacts
  <2>3. /\ BatchEnd(n) \in 0 .. Len(Due)
        /\ at < Len(Due) => BatchEnd(n) = at /\ BatchEnd(n) < BatchEnd(n + 1)
        /\ ~(at < Len(Due)) => BatchEnd(n) = Len(Due)
    BY ONLY n \in Nat, BatchEndFacts DEF at
  <2>4. QED
    BY <2>1, <2>2, <2>3
<1>3. all \in Seq(Concepts) /\ Len(all) = BatchEnd(n + 1) /\ \A i \in 1 .. BatchEnd(n + 1) : all[i] = Due[i]
  BY <1>1, <1>2, Beginning
<1>4. CardBatch(LastBatch, n + 1) = SubSeq(all, at + 1, BatchEnd(n + 1))
  <2>1. CardBatch(LastBatch, n + 1) =
          SubSeq(UpTo((n + 1) * CardBatchSize, Due), ((n + 1) - 1) * CardBatchSize + 1,
                 Len(UpTo((n + 1) * CardBatchSize, Due)))
    BY DEF CardBatch, Due
  <2>2. UpTo((n + 1) * CardBatchSize, Due) = all /\ (n + 1) - 1 = n
    BY DEF UpTo, BatchEnd
  <2>3. QED
    BY <1>3, <2>1, <2>2
<1> HIDE DEF all, at
<1>5. ASSUME at < Len(Due)
      PROVE  /\ CardBatch(LastBatch, n + 1) = SubSeq(Due, BatchEnd(n) + 1, BatchEnd(n + 1))
             /\ CardBatch(LastBatch, n + 1) # <<>>
  <2> DEFINE one == SubSeq(all, at + 1, BatchEnd(n + 1))
             two == SubSeq(Due, at + 1, BatchEnd(n + 1))
  <2>1. /\ one \in Seq(Concepts) /\ Len(one) = BatchEnd(n + 1) - at
        /\ \A i \in 1 .. BatchEnd(n + 1) - at : one[i] = all[at + i]
    BY <1>2, <1>3, <1>5, SubSeqProperties, \A i \in at + 1 .. BatchEnd(n + 1) : all[i] \in Concepts
  <2>2. /\ two \in Seq(Concepts) /\ Len(two) = BatchEnd(n + 1) - at
        /\ \A i \in 1 .. BatchEnd(n + 1) - at : two[i] = Due[at + i]
    BY <1>1, <1>2, <1>5, SubSeqProperties, \A i \in at + 1 .. BatchEnd(n + 1) : Due[i] \in Concepts
  <2>3. \A i \in 1 .. BatchEnd(n + 1) - at : all[at + i] = Due[at + i]
    BY <1>2, <1>3, <1>5
  <2> HIDE DEF one, two
  <2>4. one = two
    BY <2>1, <2>2, <2>3, SeqEqual
  <2>5. one # <<>>
    BY <1>2, <1>5, <2>1
  <2>6. QED
    BY <1>2, <1>4, <1>5, <2>4, <2>5 DEF one, two
<1>6. ASSUME ~(at < Len(Due))
      PROVE  CardBatch(LastBatch, n + 1) = <<>>
  <2>1. BatchEnd(n + 1) < at + 1 /\ at + 1 \in Int /\ BatchEnd(n + 1) \in Int
    BY <1>1, <1>2, <1>6
  <2>2. SubSeq(all, at + 1, BatchEnd(n + 1)) = <<>>
    BY ONLY <2>1, SubSeqEmpty
  <2>3. QED
    BY <1>4, <2>2
<1>7. QED
  BY <1>5, <1>6 DEF at

-----------------------------------------------------------------------------
(***************************************************************************)
(* The invariant.  Progress is at j when the first j concepts due, and no  *)
(* others, have been decided, each as its fate has it unless a repair was   *)
(* disturbed, and the cards are those of the accepted ones in their order.  *)
(* CheckpointCoheres is not inductive, since the row's progress comes from  *)
(* an attempt's: an attempt is at j somewhere between the ends of two card  *)
(* batches, and what it has left to do is the rest of the batch.            *)
(***************************************************************************)

With(d, status) == {c \in Concepts : d.outcomes[c] = status}

Good == {"good", "mended"}

ProgressIsAt(f, d, j) ==
    /\ d.batches <= LastBatch
    /\ d.cardBatches > 0 \/ j > 0 => d.batches = LastBatch
    /\ \A c \in Concepts :
          /\ d.outcomes[c] # "none" <=> c \in ToSet(Known(d.batches))
          /\ d.outcomes[c] \in Decided <=> c \in FirstOf(j, Due)
          /\ d.outcomes[c] = "accepted" => f[c] \in Good
          /\ d.outcomes[c] = "withheld" => f[c] \notin Good
    /\ d.accepted = Firsts({}, With(d, "accepted"), Due)[j]

\* Attempt a is at j: between two batches, or within one.
BetweenBatches(a, j) ==
    /\ a.phase \in {"concepts", "extracted", "cards", "finish"}
    /\ j = BatchEnd(a.done.cardBatches)
    /\ a.todo = <<>>
    /\ a.phase = "extracted" \/ (a.phase = "concepts" /\ a.sent) => a.done.batches < LastBatch
    /\ a.phase \in {"cards", "finish"} => a.done.batches = LastBatch
    /\ a.phase = "cards" => a.done.cardBatches * CardBatchSize < Len(Due)
    /\ a.phase = "finish" => j = Len(Due)
    /\ a.sent => a.phase \in {"concepts", "cards"}

WithinBatch(f, a, j) ==
    /\ a.phase \in {"check", "repair", "support"}
    /\ a.done.batches = LastBatch
    /\ a.done.cardBatches * CardBatchSize < Len(Due)
    /\ BatchEnd(a.done.cardBatches) <= j /\ j <= BatchEnd(a.done.cardBatches + 1)
    /\ a.todo = SubSeq(Due, j + 1, BatchEnd(a.done.cardBatches + 1))
    /\ a.phase # "check" => a.todo # <<>>
    /\ a.phase = "repair" => f[Head(a.todo)] \in {"mended", "broken"}
    /\ a.phase = "support" => f[Head(a.todo)] \in {"good", "refused", "mended"}
    /\ a.sent => a.phase \in {"repair", "support"}

AttemptIsAt(f, a, j) == ProgressIsAt(f, a.done, j) /\ (BetweenBatches(a, j) \/ WithinBatch(f, a, j))

RowCoheres == ProgressIsAt(fate, row.saved, BatchEnd(row.saved.cardBatches))

AttemptCoheres ==
    Running => row.state = "processing" /\ \E j \in 0 .. Len(Due) : AttemptIsAt(fate, run, j)

ReportCoheres ==
    row.state = "completed" =>
        \E d \in Progress : ProgressIsAt(fate, d, Len(Due)) /\ report = ReportOf(d)

RunInv == TypeOK /\ RowCoheres /\ AttemptCoheres /\ ReportCoheres

-----------------------------------------------------------------------------
(* Progress.                                                                 *)

\* A run begins with no progress, which is at 0.
LEMMA NoProgressIsAtStart ==
    ASSUME NEW f
    PROVE  NoProgress \in Progress /\ ProgressIsAt(f, NoProgress, BatchEnd(NoProgress.cardBatches))
<1>1. /\ LastBatch \in 0 .. Len(BatchEnds) /\ Len(BatchEnds) \in Nat
      /\ BatchEnd(0) = 0 /\ ToSet(Known(0)) = {} /\ FirstOf(0, Due) = {}
  <2>1. LastBatch \in 0 .. Len(BatchEnds) /\ Len(BatchEnds) \in Nat /\ 0 \in 0 .. Len(BatchEnds)
    BY LastBatchFacts, PipelineAssumption
  <2>2. BatchEnd(0) = 0 /\ ToSet(Known(0)) = {}
    BY <2>1, 0 \in Nat, BatchEndFacts, KnownFacts
  <2>3. FirstOf(0, Due) = {}
    BY DEF FirstOf
  <2>4. QED
    BY <2>1, <2>2, <2>3
<1>2. Firsts({}, With(NoProgress, "accepted"), Due)[0] = <<>>
  BY DueFacts, FirstsSteps
<1>3. NoProgress \in Progress
  BY <1>1 DEF NoProgress, Progress, Statuses
<1>4. ProgressIsAt(f, NoProgress, 0)
  BY <1>1, <1>2 DEF NoProgress, ProgressIsAt, Decided
<1>5. QED
  BY <1>1, <1>3, <1>4 DEF NoProgress

\* A checkpoint at j has an outcome for every candidate, so it is resumed as it is.
LEMMA ResumedAsSaved ==
    ASSUME NEW f, NEW j, NEW d \in Progress, ProgressIsAt(f, d, j)
    PROVE  ResumeFrom(d) = d
<1>1. [c \in Concepts |-> IF d.outcomes[c] = "none" /\ c \in ToSet(Known(d.batches))
                             THEN "pending" ELSE d.outcomes[c]] = d.outcomes
  BY DEF ProgressIsAt, Progress
<1>2. ResumeFrom(d) = [d EXCEPT !.outcomes = d.outcomes]
  BY <1>1 DEF ResumeFrom
<1>3. QED
  BY <1>2 DEF Progress

\* A checkpoint at j holds together: its cards are its accepted concepts, none twice.
LEMMA SavedIsCoherent ==
    ASSUME NEW f, NEW j \in 0 .. Len(Due), NEW d \in Progress, ProgressIsAt(f, d, j)
    PROVE  Coherent(d)
<1>1. /\ IsInjective(d.accepted) /\ d.accepted \in Seq(Concepts)
      /\ ToSet(d.accepted) = With(d, "accepted") \cap FirstOf(j, Due)
  BY DueFacts, FirstsFacts, FirstsOfThose DEF ProgressIsAt
<1>2. With(d, "accepted") \subseteq FirstOf(j, Due)
  BY DEF ProgressIsAt, With, Decided
<1>3. d.batches <= Len(BatchEnds)
  BY PipelineAssumption DEF Progress
<1>4. QED
  BY <1>1, <1>2, <1>3 DEF Coherent, With

\* Extracting a batch before the last leaves progress where it is: at 0.
LEMMA ExtractionIsAt ==
    ASSUME NEW f, NEW d \in Progress, ProgressIsAt(f, d, BatchEnd(d.cardBatches)),
           d.batches < LastBatch,
           NEW e, e = ResumeFrom([d EXCEPT !.batches = @ + 1])
    PROVE  e \in Progress /\ ProgressIsAt(f, e, BatchEnd(e.cardBatches))
<1> DEFINE b == d.batches
           j == BatchEnd(d.cardBatches)
<1>1. b \in 0 .. Len(BatchEnds) /\ b + 1 \in 0 .. Len(BatchEnds) /\ Len(BatchEnds) \in Nat
      /\ LastBatch \in 0 .. Len(BatchEnds)
  BY LastBatchFacts, PipelineAssumption DEF Progress
<1>2. d.cardBatches = 0 /\ j = 0
  BY BatchEndFacts, <1>1 DEF ProgressIsAt, Progress
<1>3. ToSet(Known(b)) \subseteq ToSet(Known(b + 1))
  BY <1>1, KnownFacts
<1>4. /\ e.batches = b + 1 /\ e.cardBatches = 0 /\ e.accepted = d.accepted
      /\ e.outcomes = [c \in Concepts |-> IF d.outcomes[c] = "none" /\ c \in ToSet(Known(b + 1))
                                             THEN "pending" ELSE d.outcomes[c]]
      /\ DOMAIN e = DOMAIN d
      /\ e = [batches |-> b + 1, cardBatches |-> 0, accepted |-> d.accepted, outcomes |-> e.outcomes]
  BY <1>2 DEF ResumeFrom, Progress
<1>5. e \in Progress
  <2>1. e.outcomes \in [Concepts -> Statuses]
    BY <1>4 DEF Progress, Statuses
  <2>2. QED
    BY <1>1, <1>4, <2>1 DEF Progress
<1>6. With(e, "accepted") = With(d, "accepted")
  BY <1>4 DEF With
<1>7. \A c \in Concepts :
          /\ e.outcomes[c] # "none" <=> c \in ToSet(Known(e.batches))
          /\ e.outcomes[c] \in Decided <=> d.outcomes[c] \in Decided
          /\ e.outcomes[c] = "accepted" => d.outcomes[c] = "accepted"
          /\ e.outcomes[c] = "withheld" => d.outcomes[c] = "withheld"
  BY <1>3, <1>4 DEF ProgressIsAt, Decided
<1>8. ProgressIsAt(f, e, 0)
  BY <1>1, <1>2, <1>4, <1>6, <1>7 DEF ProgressIsAt
<1>9. QED
  BY <1>2, <1>4, <1>5, <1>8

\* Deciding the next concept due takes progress from j to j + 1.
LEMMA DecisionIsAt ==
    ASSUME NEW f, NEW j \in 0 .. Len(Due), j < Len(Due),
           NEW d \in Progress, ProgressIsAt(f, d, j), d.batches = LastBatch,
           NEW status \in Decided,
           status = "accepted" => f[Due[j + 1]] \in Good,
           status = "withheld" => f[Due[j + 1]] \notin Good,
           NEW e \in Progress,
           e.batches = d.batches, e.cardBatches = d.cardBatches,
           e.outcomes = [d.outcomes EXCEPT ![Due[j + 1]] = status],
           e.accepted = IF status = "accepted" THEN Append(d.accepted, Due[j + 1]) ELSE d.accepted
    PROVE  ProgressIsAt(f, e, j + 1)
<1> DEFINE c == Due[j + 1]
           before == With(d, "accepted")
           after == With(e, "accepted")
           kept == Firsts({}, before, Due)[j]
<1>1. /\ Due \in Seq(Concepts) /\ Len(Due) \in Nat /\ IsInjective(Due) /\ DOMAIN Due = 1 .. Len(Due)
      /\ j + 1 \in 1 .. Len(Due) /\ j + 1 \in 0 .. Len(Due) /\ j \in Nat /\ c \in Concepts
  BY DueFacts
<1>2. c \in ToSet(Known(LastBatch))
  BY <1>1, DueFacts DEF ToSet
<1>3. FirstOf(j + 1, Due) = FirstOf(j, Due) \cup {c} /\ c \notin FirstOf(j, Due)
  BY <1>1 DEF FirstOf, IsInjective
<1>4. \A x \in Concepts : e.outcomes[x] = IF x = c THEN status ELSE d.outcomes[x]
  BY DEF Progress
<1>5. /\ d.outcomes[c] \notin Decided /\ d.outcomes[c] # "none"
  BY <1>1, <1>2, <1>3 DEF ProgressIsAt
<1>6. after = IF status = "accepted" THEN before \cup {c} ELSE before
  <2>1. c \notin before
    BY <1>5 DEF With, Decided
  <2>2. QED
    BY <1>1, <1>4, <2>1 DEF With
<1>7. d.accepted = kept
  BY DEF ProgressIsAt
<1>8. /\ Firsts({}, after, Due)[j + 1] = Pass({}, after, Firsts({}, after, Due)[j], c)
      /\ Firsts({}, after, Due)[j] = kept
  <2>1. after \cap FirstOf(j, Due) = before \cap FirstOf(j, Due)
    BY <1>3, <1>6
  <2>2. Firsts({}, after, Due)[j] = kept
    BY <1>1, <2>1, FirstsAgree
  <2>3. \A n \in 1 .. Len(Due) : Firsts({}, after, Due)[n] = Pass({}, after, Firsts({}, after, Due)[n - 1], Due[n])
    BY <1>1, FirstsSteps
  <2>4. (j + 1) - 1 = j
    BY <1>1
  <2>5. QED
    BY <1>1, <2>2, <2>3, <2>4
<1>9. c \notin ToSet(kept)
  BY <1>1, <1>3, FirstsFacts
<1> HIDE DEF kept, before, after
<1>10. Pass({}, after, kept, c) = IF status = "accepted" THEN Append(kept, c) ELSE kept
  <2>1. c \in after <=> status = "accepted"
    <3>1. c \notin before
      BY <1>5 DEF before, With, Decided
    <3>2. QED
      BY <1>6, <3>1
  <2>2. ~ReadsLike({}, kept, c)
    BY <1>9 DEF ReadsLike
  <2>3. QED
    BY <2>1, <2>2 DEF Pass
<1>11. e.accepted = Firsts({}, With(e, "accepted"), Due)[j + 1]
  BY <1>7, <1>8, <1>10 DEF after
<1>12. \A x \in Concepts :
          /\ e.outcomes[x] # "none" <=> x \in ToSet(Known(e.batches))
          /\ e.outcomes[x] \in Decided <=> x \in FirstOf(j + 1, Due)
          /\ e.outcomes[x] = "accepted" => f[x] \in Good
          /\ e.outcomes[x] = "withheld" => f[x] \notin Good
  <2> SUFFICES ASSUME NEW x \in Concepts
               PROVE  /\ e.outcomes[x] # "none" <=> x \in ToSet(Known(e.batches))
                      /\ e.outcomes[x] \in Decided <=> x \in FirstOf(j + 1, Due)
                      /\ e.outcomes[x] = "accepted" => f[x] \in Good
                      /\ e.outcomes[x] = "withheld" => f[x] \notin Good
    OBVIOUS
  <2>1. CASE x = c
    BY <1>2, <1>3, <1>4, <2>1 DEF Decided
  <2>2. CASE x # c
    BY <1>3, <1>4, <2>2 DEF ProgressIsAt
  <2>3. QED
    BY <2>1, <2>2
<1>13. e.batches <= LastBatch /\ e.batches = LastBatch
  BY LastBatchFacts
<1>14. QED
  BY <1>11, <1>12, <1>13 DEF ProgressIsAt

\* The end of a card batch is the beginning of the next.
LEMMA BatchDoneIsAt ==
    ASSUME NEW f, NEW d \in Progress, ProgressIsAt(f, d, BatchEnd(d.cardBatches + 1)),
           d.batches = LastBatch,
           NEW e, e = [d EXCEPT !.cardBatches = @ + 1]
    PROVE  e \in Progress /\ e.cardBatches = d.cardBatches + 1 /\ e.batches = LastBatch
           /\ ProgressIsAt(f, e, BatchEnd(e.cardBatches))
<1>1. e.cardBatches = d.cardBatches + 1 /\ e.batches = d.batches /\ e.outcomes = d.outcomes
      /\ e.accepted = d.accepted /\ e \in Progress
  BY DEF Progress
<1>2. With(e, "accepted") = With(d, "accepted")
  BY <1>1 DEF With
<1>3. QED
  BY <1>1, <1>2 DEF ProgressIsAt

-----------------------------------------------------------------------------
(* What a step does to an attempt and to the row.                            *)

\* What is left of a card batch begins with the next concept due.
LEMMA RestOfBatch ==
    ASSUME NEW f, NEW a \in Attempt, NEW j \in 0 .. Len(Due), WithinBatch(f, a, j)
    PROVE  /\ a.todo = <<>> => j = BatchEnd(a.done.cardBatches + 1)
           /\ a.todo # <<>> =>
                /\ j < Len(Due) /\ j + 1 <= BatchEnd(a.done.cardBatches + 1)
                /\ Head(a.todo) = Due[j + 1] /\ Due[j + 1] \in Concepts
                /\ Due[j + 1] \in ToSet(Due)
                /\ Tail(a.todo) = SubSeq(Due, j + 2, BatchEnd(a.done.cardBatches + 1))
                /\ Tail(a.todo) \in Seq(Concepts)
<1> DEFINE end == BatchEnd(a.done.cardBatches + 1)
<1>1. a.done.cardBatches \in Nat /\ a.done.cardBatches + 1 \in Nat
  BY DEF Attempt, Progress
<1>2. end \in 0 .. Len(Due) /\ Due \in Seq(Concepts) /\ Len(Due) \in Nat
  BY <1>1, BatchEndFacts, DueFacts
<1>3. j <= end /\ a.todo = SubSeq(Due, j + 1, end) /\ a.todo \in Seq(Concepts)
  BY DEF WithinBatch, Attempt
<1> HIDE DEF end
<1>4. CASE j = end
  <2>1. end < j + 1 /\ j + 1 \in Int /\ end \in Int
    BY <1>2, <1>4
  <2>2. a.todo = <<>>
    BY ONLY <1>3, <2>1, SubSeqEmpty
  <2>3. QED
    BY <1>4, <2>2 DEF end
<1>5. CASE j < end
  <2>1. j + 1 \in 1 .. Len(Due) /\ end \in (j + 1) .. Len(Due)
    BY <1>2, <1>5
  <2>2. Head(a.todo) = Due[j + 1] /\ Tail(a.todo) = SubSeq(Due, (j + 1) + 1, end)
    BY <1>2, <1>3, <2>1, HeadTailOfSubSeq
  <2>3. Len(a.todo) = end - j
    BY <1>2, <1>3, <1>5, SubSeqProperties, \A i \in j + 1 .. end : Due[i] \in Concepts
  <2>4. a.todo # <<>>
    BY <1>2, <1>5, <2>3
  <2>5. Tail(a.todo) \in Seq(Concepts) /\ (j + 1) + 1 = j + 2
    BY <1>3, <2>4
  <2>6. Due[j + 1] \in Concepts /\ Due[j + 1] \in ToSet(Due)
    BY <1>2, <2>1 DEF ToSet
  <2>7. QED
    BY <1>2, <1>5, <2>1, <2>2, <2>4, <2>5, <2>6 DEF end
<1>6. j = end \/ j < end
  BY <1>2, <1>3
<1>7. QED
  BY <1>4, <1>5, <1>6

\* A decision, field by field.
LEMMA DecideFields ==
    ASSUME run \in Attempt, NEW c \in Concepts, NEW status \in Decided,
           Tail(run.todo) \in Seq(Concepts),
           NEW a, a = Decide(c, status)
    PROVE  /\ a \in Attempt
           /\ a.phase = "check" /\ a.sent = FALSE /\ a.todo = Tail(run.todo)
           /\ a.done.batches = run.done.batches /\ a.done.cardBatches = run.done.cardBatches
           /\ a.done.outcomes = [run.done.outcomes EXCEPT ![c] = status]
           /\ a.done.accepted = run.done.accepted
<1>1. run.done \in Progress /\ [run.done.outcomes EXCEPT ![c] = status] \in [Concepts -> Statuses]
  BY DEF Attempt, Progress, Statuses, Decided
<1>2. /\ a.phase = "check" /\ a.sent = FALSE /\ a.todo = Tail(run.todo)
      /\ a.done = [run.done EXCEPT !.outcomes[c] = status]
      /\ DOMAIN a = DOMAIN run
  BY DEF Decide, Attempt
<1>3. /\ a.done.batches = run.done.batches /\ a.done.cardBatches = run.done.cardBatches
      /\ a.done.outcomes = [run.done.outcomes EXCEPT ![c] = status]
      /\ a.done.accepted = run.done.accepted
      /\ a.done \in Progress
  BY <1>1, <1>2 DEF Progress
<1>4. a \in Attempt
  BY <1>1, <1>3 DEF Decide, Attempt
<1>5. QED
  BY <1>2, <1>3, <1>4

\* An acceptance is a decision that also stores the card.
LEMMA AcceptFields ==
    ASSUME NEW b \in Attempt, NEW c \in Concepts,
           NEW a, a = [b EXCEPT !.done.accepted = Append(@, c)]
    PROVE  /\ a \in Attempt
           /\ a.phase = b.phase /\ a.sent = b.sent /\ a.todo = b.todo
           /\ a.done.batches = b.done.batches /\ a.done.cardBatches = b.done.cardBatches
           /\ a.done.outcomes = b.done.outcomes
           /\ a.done.accepted = Append(b.done.accepted, c)
<1>1. b.done \in Progress /\ Append(b.done.accepted, c) \in Seq(Concepts)
  BY DEF Attempt, Progress
<1>2. /\ a.phase = b.phase /\ a.sent = b.sent /\ a.todo = b.todo
      /\ a.done = [b.done EXCEPT !.accepted = Append(@, c)]
  BY DEF Attempt
<1>3. /\ a.done.batches = b.done.batches /\ a.done.cardBatches = b.done.cardBatches
      /\ a.done.outcomes = b.done.outcomes
      /\ a.done.accepted = Append(b.done.accepted, c)
      /\ a.done \in Progress
  BY <1>1, <1>2 DEF Progress
<1>4. a \in Attempt
  BY <1>1, <1>3 DEF Attempt
<1>5. QED
  BY <1>2, <1>3, <1>4

\* The bounds stay what they are, whichever is used.
LEMMA UsesKeepsType ==
    ASSUME left \in [requests : Nat, lapses : Nat, failures : Nat],
           NEW bound \in {"requests", "lapses", "failures"}, Uses(bound)
    PROVE  left' \in [requests : Nat, lapses : Nat, failures : Nat]
  BY DEF Uses

\* The next concept is withheld: the attempt has moved on by one.
LEMMA WithheldIsAt ==
    ASSUME run \in Attempt, NEW j \in 0 .. Len(Due),
           ProgressIsAt(fate, run.done, j), WithinBatch(fate, run, j), run.todo # <<>>,
           NEW status \in {"withheld", "disturbed"},
           status = "withheld" => fate[Head(run.todo)] \notin Good
    PROVE  LET a == Decide(Head(run.todo), status)
           IN  a \in Attempt /\ j + 1 \in 0 .. Len(Due) /\ AttemptIsAt(fate, a, j + 1)
<1> DEFINE c == Due[j + 1]
           a == Decide(c, status)
<1>1. /\ j < Len(Due) /\ j + 1 <= BatchEnd(run.done.cardBatches + 1)
      /\ Head(run.todo) = c /\ c \in Concepts
      /\ Tail(run.todo) = SubSeq(Due, j + 2, BatchEnd(run.done.cardBatches + 1))
      /\ Tail(run.todo) \in Seq(Concepts)
  BY RestOfBatch
<1>2. Len(Due) \in Nat /\ j + 1 \in 0 .. Len(Due) /\ (j + 1) + 1 = j + 2
  BY <1>1, DueFacts
<1>3. status \in Decided /\ status # "accepted"
  BY DEF Decided
<1>4. /\ a \in Attempt
      /\ a.phase = "check" /\ a.sent = FALSE /\ a.todo = Tail(run.todo)
      /\ a.done.batches = run.done.batches /\ a.done.cardBatches = run.done.cardBatches
      /\ a.done.outcomes = [run.done.outcomes EXCEPT ![c] = status]
      /\ a.done.accepted = run.done.accepted
  BY <1>1, <1>3, DecideFields
<1> HIDE DEF a
<1>5. /\ run.done.batches = LastBatch
      /\ BatchEnd(run.done.cardBatches) <= j /\ run.done.cardBatches * CardBatchSize < Len(Due)
      /\ run.done.cardBatches \in Nat /\ run.done \in Progress /\ a.done \in Progress
  BY <1>4 DEF WithinBatch, Attempt, Progress
<1>6. BatchEnd(run.done.cardBatches) \in 0 .. Len(Due)
  BY <1>5, BatchEndFacts
<1>7. ProgressIsAt(fate, a.done, j + 1)
  BY <1>1, <1>3, <1>4, <1>5, DecisionIsAt
<1>8. WithinBatch(fate, a, j + 1)
  BY <1>1, <1>2, <1>4, <1>5, <1>6 DEF WithinBatch
<1>9. QED
  BY <1>1, <1>2, <1>4, <1>7, <1>8 DEF AttemptIsAt, a

\* The next concept gets its card: the attempt has moved on by one.
LEMMA AcceptedIsAt ==
    ASSUME run \in Attempt, NEW j \in 0 .. Len(Due),
           ProgressIsAt(fate, run.done, j), WithinBatch(fate, run, j), run.todo # <<>>,
           fate[Head(run.todo)] \in Good
    PROVE  LET a == [Decide(Head(run.todo), "accepted")
                        EXCEPT !.done.accepted = Append(@, Head(run.todo))]
           IN  a \in Attempt /\ j + 1 \in 0 .. Len(Due) /\ AttemptIsAt(fate, a, j + 1)
<1> DEFINE c == Due[j + 1]
           b == Decide(c, "accepted")
           a == [b EXCEPT !.done.accepted = Append(@, c)]
<1>1. /\ j < Len(Due) /\ j + 1 <= BatchEnd(run.done.cardBatches + 1)
      /\ Head(run.todo) = c /\ c \in Concepts
      /\ Tail(run.todo) = SubSeq(Due, j + 2, BatchEnd(run.done.cardBatches + 1))
      /\ Tail(run.todo) \in Seq(Concepts)
  BY RestOfBatch
<1>2. Len(Due) \in Nat /\ j + 1 \in 0 .. Len(Due) /\ (j + 1) + 1 = j + 2
  BY <1>1, DueFacts
<1>3. "accepted" \in Decided
  BY DEF Decided
<1>4. /\ b \in Attempt
      /\ b.phase = "check" /\ b.sent = FALSE /\ b.todo = Tail(run.todo)
      /\ b.done.batches = run.done.batches /\ b.done.cardBatches = run.done.cardBatches
      /\ b.done.outcomes = [run.done.outcomes EXCEPT ![c] = "accepted"]
      /\ b.done.accepted = run.done.accepted
  BY <1>1, <1>3, DecideFields
<1> HIDE DEF b
<1>5. /\ a \in Attempt
      /\ a.phase = b.phase /\ a.sent = b.sent /\ a.todo = b.todo
      /\ a.done.batches = b.done.batches /\ a.done.cardBatches = b.done.cardBatches
      /\ a.done.outcomes = b.done.outcomes
      /\ a.done.accepted = Append(b.done.accepted, c)
  BY <1>1, <1>4, AcceptFields
<1> HIDE DEF a
<1>6. /\ run.done.batches = LastBatch
      /\ BatchEnd(run.done.cardBatches) <= j /\ run.done.cardBatches * CardBatchSize < Len(Due)
      /\ run.done.cardBatches \in Nat /\ run.done \in Progress /\ a.done \in Progress
  BY <1>5 DEF WithinBatch, Attempt, Progress
<1>7. BatchEnd(run.done.cardBatches) \in 0 .. Len(Due)
  BY <1>6, BatchEndFacts
<1>8. ProgressIsAt(fate, a.done, j + 1)
  <2>1. /\ a.done.batches = run.done.batches /\ a.done.cardBatches = run.done.cardBatches
        /\ a.done.outcomes = [run.done.outcomes EXCEPT ![c] = "accepted"]
        /\ a.done.accepted = Append(run.done.accepted, c)
    BY <1>4, <1>5
  <2>2. fate[c] \in Good /\ j < Len(Due) /\ run.done.batches = LastBatch
        /\ run.done \in Progress /\ a.done \in Progress
        /\ ProgressIsAt(fate, run.done, j) /\ j \in 0 .. Len(Due)
    BY <1>1, <1>6
  <2>3. QED
    BY ONLY <1>3, <2>1, <2>2, DecisionIsAt
<1>9. WithinBatch(fate, a, j + 1)
  BY <1>1, <1>2, <1>4, <1>5, <1>6, <1>7 DEF WithinBatch
<1>10. QED
  BY <1>1, <1>2, <1>5, <1>8, <1>9 DEF AttemptIsAt, a, b

\* A stop or a failure changes the state of the row and not what it saved.
LEMMA RowEnds ==
    ASSUME NEW r \in Row, NEW retryable \in BOOLEAN
    PROVE  /\ Stopped(r) \in Row /\ Stopped(r).saved = r.saved /\ Stopped(r).state # "completed"
           /\ Failed(r, retryable) \in Row /\ Failed(r, retryable).saved = r.saved
           /\ Failed(r, retryable).state # "completed"
  BY DEF Stopped, Failed, Row

\* What every step keeps of the variables no other invariant is about.
OthersTyped ==
    /\ answers \in [Calls -> {"none", "sent", "failed", "succeeded"}]
    /\ deck \in BOOLEAN
    /\ left \in [requests : Nat, lapses : Nat, failures : Nat]

\* A step that leaves the progress alone and keeps the attempt or ends it.
LEMMA AttemptStaysOrEnds ==
    ASSUME RunInv, fate' = fate, report' = report, OthersTyped',
           row' \in Row, row'.saved = row.saved,
           row'.state = "completed" => row.state = "completed",
           \/ run' = NoAttempt
           \/ run' = run /\ (Running => row'.state = row.state)
    PROVE  RunInv'
<1>1. TypeOK'
  BY DEF RunInv, TypeOK, OthersTyped
<1>2. RowCoheres'
  BY DEF RunInv, RowCoheres
<1>3. AttemptCoheres'
  BY DEF RunInv, AttemptCoheres, Running
<1>4. ReportCoheres'
  BY DEF RunInv, ReportCoheres
<1>5. QED
  BY <1>1, <1>2, <1>3, <1>4 DEF RunInv

\* A step of the attempt in its own memory.
LEMMA AttemptGoesOn ==
    ASSUME RunInv, Running, fate' = fate, report' = report, row' = row, OthersTyped',
           run' \in Attempt, NEW j \in 0 .. Len(Due), AttemptIsAt(fate, run', j)
    PROVE  RunInv'
<1>1. TypeOK'
  BY DEF RunInv, TypeOK, OthersTyped
<1>2. RowCoheres'
  BY DEF RunInv, RowCoheres
<1>3. AttemptCoheres'
  BY DEF RunInv, AttemptCoheres, Running
<1>4. ReportCoheres'
  BY DEF RunInv, ReportCoheres
<1>5. QED
  BY <1>1, <1>2, <1>3, <1>4 DEF RunInv

\* A step that saves the progress it has made, between two batches.
LEMMA ProgressIsSaved ==
    ASSUME RunInv, Running, fate' = fate, report' = report, OthersTyped',
           run' \in Attempt, row' = [row EXCEPT !.saved = run'.done],
           AttemptIsAt(fate, run', BatchEnd(run'.done.cardBatches))
    PROVE  RunInv'
<1>1. run'.done \in Progress /\ run'.done.cardBatches \in Nat
  BY DEF Attempt, Progress
<1>2. row' \in Row /\ row'.state = row.state /\ row'.saved = run'.done /\ row.state = "processing"
  BY <1>1 DEF RunInv, TypeOK, Row, AttemptCoheres
<1>3. TypeOK'
  BY <1>2 DEF RunInv, TypeOK, OthersTyped
<1>4. RowCoheres'
  BY <1>2 DEF RowCoheres, AttemptIsAt
<1>5. AttemptCoheres'
  BY <1>1, <1>2, BatchEndFacts DEF AttemptCoheres
<1>6. ReportCoheres'
  BY <1>2 DEF ReportCoheres
<1>7. QED
  BY <1>3, <1>4, <1>5, <1>6 DEF RunInv

-----------------------------------------------------------------------------
(* The steps.                                                                *)

\* An attempt in hand is at some j, and the row is in its hands.
LEMMA AttemptInHand ==
    ASSUME RunInv, Running
    PROVE  /\ run \in Attempt /\ row \in Row /\ row.state = "processing" /\ OthersTyped
           /\ report \in [cards : Seq(Concepts), withheld : SUBSET Concepts, disturbed : SUBSET Concepts]
           /\ fate \in [ToSet(Due) -> Fates]
           /\ run.done \in Progress /\ run.done.cardBatches \in Nat /\ run.done.batches \in Nat
           /\ \E j \in 0 .. Len(Due) : AttemptIsAt(fate, run, j)
  BY DEF RunInv, TypeOK, AttemptCoheres, Running, OthersTyped, Attempt, Progress

\* The run is submitted with no progress.
LEMMA InitRun == Init => RunInv
<1> SUFFICES ASSUME Init
             PROVE  RunInv
  OBVIOUS
<1>1. NoProgress \in Progress /\ ProgressIsAt(fate, NoProgress, BatchEnd(NoProgress.cardBatches))
  BY NoProgressIsAtStart
<1>2. row \in Row
  BY <1>1, PipelineAssumption DEF Init, Row
<1>3. TypeOK
  <2>1. OthersTyped
    BY PipelineAssumption DEF Init, OthersTyped
  <2>2. report \in [cards : Seq(Concepts), withheld : SUBSET Concepts, disturbed : SUBSET Concepts]
    BY Nothing DEF Init, NoReport
  <2>3. QED
    BY <1>2, <2>1, <2>2 DEF Init, TypeOK, OthersTyped
<1>4. RowCoheres
  BY <1>1 DEF Init, RowCoheres
<1>5. AttemptCoheres /\ ReportCoheres
  BY DEF Init, AttemptCoheres, ReportCoheres, Running
<1>6. QED
  BY <1>3, <1>4, <1>5 DEF RunInv

\* An attempt begins with the progress the row has saved.
LEMMA ClaimKeepsRun ==
    ASSUME RunInv, Claim
    PROVE  RunInv'
<1>1. /\ row \in Row /\ row.saved \in Progress /\ OthersTyped /\ ~Running
      /\ ProgressIsAt(fate, row.saved, BatchEnd(row.saved.cardBatches))
      /\ BatchEnd(row.saved.cardBatches) \in 0 .. Len(Due)
  BY BatchEndFacts DEF RunInv, TypeOK, RowCoheres, Row, Progress, OthersTyped, Claim
<1>2. ResumeFrom(row.saved) = row.saved
  BY <1>1, ResumedAsSaved
<1> DEFINE next == row.attempts + 1
           counted == [row EXCEPT !.state = "processing", !.attempts = next]
<1>3. next \in Nat
  BY <1>1 DEF Row
<1>4. /\ UNCHANGED <<fate, answers, deck, report, left>>
      /\ \/ row' = counted /\ Starts
         \/ row' = Failed(counted, FALSE) /\ Ends
  BY DEF Claim
<1> HIDE DEF next
<1>5. counted \in Row /\ counted.saved = row.saved /\ counted.state = "processing"
  BY <1>1, <1>3 DEF Row
<1>6. OthersTyped'
  BY <1>1, <1>4 DEF OthersTyped
<1> HIDE DEF counted
<1>7. CASE row' = counted /\ Starts
  <2>1. run' = [phase |-> "concepts", sent |-> FALSE, todo |-> <<>>, done |-> row.saved]
    BY <1>2, <1>7 DEF Starts
  <2>2. run' \in Attempt
    BY <1>1, <2>1 DEF Attempt
  <2>3. AttemptIsAt(fate, run', BatchEnd(row.saved.cardBatches))
    <3>1. BetweenBatches(run', BatchEnd(row.saved.cardBatches))
      BY <2>1 DEF BetweenBatches
    <3>2. QED
      BY <1>1, <2>1, <3>1 DEF AttemptIsAt
  <2>4. TypeOK'
    BY <1>4, <1>5, <1>6, <1>7, <2>2 DEF RunInv, TypeOK, OthersTyped
  <2>5. RowCoheres' /\ AttemptCoheres' /\ ReportCoheres'
    BY <1>1, <1>4, <1>5, <1>7, <2>2, <2>3 DEF RowCoheres, AttemptCoheres, ReportCoheres
  <2>6. QED
    BY <2>4, <2>5 DEF RunInv
<1>8. CASE row' = Failed(counted, FALSE) /\ Ends
  <2>1. row' \in Row /\ row'.saved = row.saved /\ row'.state # "completed"
    BY <1>5, <1>8, RowEnds
  <2>2. QED
    BY <1>4, <1>6, <1>8, <2>1, AttemptStaysOrEnds DEF Ends
<1>9. QED
  BY <1>4, <1>7, <1>8

\* The end of an attempt, and the settlement of a stop nobody saw to.
LEMMA EndsKeepRun ==
    ASSUME RunInv,
           \/ SettleAbandonedStop \/ Lapse \/ StopAtBoundary \/ StopBeforePublication
           \/ PublishWithoutDeck \/ FindNoBudget
    PROVE  RunInv'
<1>1. row \in Row /\ OthersTyped
  BY DEF RunInv, TypeOK, OthersTyped
<1>2. /\ fate' = fate /\ report' = report /\ answers' = answers /\ deck' = deck
      /\ left' = left \/ Uses("lapses") \/ Uses("failures")
      /\ \/ row' = row \/ row' = Stopped(row)
         \/ row' = Failed(row, TRUE) \/ row' = Failed(row, FALSE)
      /\ run' = NoAttempt \/ (run' = run /\ ~Running)
  BY DEF SettleAbandonedStop, Lapse, StopAtBoundary, StopBeforePublication, PublishWithoutDeck,
         FindNoBudget, FailRun, Ends
<1>3. OthersTyped'
  BY <1>1, <1>2, UsesKeepsType DEF OthersTyped
<1>4. row' \in Row /\ row'.saved = row.saved /\ (row'.state = "completed" => row.state = "completed")
  BY <1>1, <1>2, RowEnds
<1>5. QED
  BY <1>2, <1>3, <1>4, AttemptStaysOrEnds

\* What the owner asks for.
LEMMA OwnerKeepsRun ==
    ASSUME RunInv, RequestPause \/ RequestCancellation \/ RequestResume \/ DeleteDeck
    PROVE  RunInv'
<1>1. row \in Row /\ OthersTyped /\ (Running => row.state = "processing")
  BY DEF RunInv, TypeOK, OthersTyped, AttemptCoheres
<1>2. fate' = fate /\ report' = report /\ run' = run /\ Uses("requests")
  BY DEF RequestPause, RequestCancellation, RequestResume, DeleteDeck
<1>3. OthersTyped'
  BY <1>1, <1>2, UsesKeepsType
     DEF OthersTyped, RequestPause, RequestCancellation, RequestResume, DeleteDeck
<1>4. /\ row' \in Row /\ row'.saved = row.saved
      /\ row'.state = "completed" => row.state = "completed"
      /\ Running => row'.state = row.state
  <2>1. CASE RequestPause
    BY <1>1, <2>1 DEF RequestPause, Row
  <2>2. CASE RequestCancellation
    BY <1>1, <2>2 DEF RequestCancellation, Row
  <2>3. CASE RequestResume
    <3> DEFINE raised == IF row.allowed < row.attempts + Allowance
                           THEN row.attempts + Allowance ELSE row.allowed
    <3>1. raised \in Nat
      BY <1>1, PipelineAssumption DEF Row
    <3>2. row' = [row EXCEPT !.state = "pending", !.pause = FALSE, !.allowed = raised]
      BY <2>3 DEF RequestResume
    <3>3. ~Running
      BY <1>1, <2>3 DEF RequestResume
    <3> HIDE DEF raised
    <3>4. QED
      BY <1>1, <3>1, <3>2, <3>3 DEF Row
  <2>4. CASE DeleteDeck
    BY <1>1, <2>4 DEF DeleteDeck
  <2>5. QED
    BY <2>1, <2>2, <2>3, <2>4
<1>5. QED
  BY <1>2, <1>3, <1>4, AttemptStaysOrEnds

\* An answer, stored or new, brings the attempt to the next stage.
LEMMA AnsweredIsAt ==
    ASSUME RunInv, Running, AtCall \/ run.sent
    PROVE  Answered \in Attempt /\ \E j \in 0 .. Len(Due) : AttemptIsAt(fate, Answered, j)
<1> DEFINE c == Head(run.todo)
           k == run.done.cardBatches
<1>1. /\ run \in Attempt /\ run.done \in Progress /\ k \in Nat /\ run.done.batches \in Nat
      /\ fate \in [ToSet(Due) -> Fates]
  BY AttemptInHand
<1>2. PICK j \in 0 .. Len(Due) : AttemptIsAt(fate, run, j)
  BY AttemptInHand
<1>3. ProgressIsAt(fate, run.done, j) /\ (BetweenBatches(run, j) \/ WithinBatch(fate, run, j))
  BY <1>2 DEF AttemptIsAt
<1>4. CASE At("concepts")
  <2>1. BetweenBatches(run, j)
    BY <1>3, <1>4 DEF At, WithinBatch
  <2>2. run.done.batches < LastBatch
    <3>1. CASE run.sent
      BY <1>4, <2>1, <3>1 DEF At, BetweenBatches
    <3>2. CASE ~run.sent
      <4>1. run.done.batches < Len(BatchEnds) /\ Len(Known(run.done.batches)) < MaxConcepts
        BY <1>4, <3>2 DEF AtCall, At, MoreToExtract
      <4>2. run.done.batches <= LastBatch
        BY <1>3 DEF ProgressIsAt
      <4>3. run.done.batches # LastBatch
        <5>1. run.done.batches \in 0 .. Len(BatchEnds) /\ Len(Candidates) \in Nat /\ MaxConcepts \in Nat
          BY <1>1, PipelineAssumption DEF Progress
        <5>2. Len(Known(run.done.batches)) \in Nat
          BY <5>1, KnownFacts
        <5>3. QED
          BY <4>1, <5>1, <5>2, LastBatchFacts
      <4>4. QED
        BY <1>1, <4>2, <4>3, LastBatchFacts
    <3>3. QED
      BY <3>1, <3>2
  <2>3. Answered = [run EXCEPT !.phase = "extracted", !.sent = FALSE]
    BY <1>4 DEF Answered
  <2>4. /\ Answered \in Attempt /\ Answered.phase = "extracted" /\ Answered.sent = FALSE
        /\ Answered.done = run.done /\ Answered.todo = run.todo
    BY <1>1, <2>3 DEF Attempt
  <2>5. AttemptIsAt(fate, Answered, j)
    BY <1>3, <2>1, <2>2, <2>4 DEF AttemptIsAt, BetweenBatches
  <2>6. QED
    BY <2>4, <2>5
<1>5. CASE At("cards")
  <2>1. BetweenBatches(run, j)
    BY <1>3, <1>5 DEF At, WithinBatch
  <2>2. run.done.batches = LastBatch /\ k * CardBatchSize < Len(Due) /\ j = BatchEnd(k)
    BY <1>5, <2>1 DEF At, BetweenBatches
  <2> DEFINE batch == SubSeq(Due, j + 1, BatchEnd(k + 1))
  <2>3. CardBatch(LastBatch, k + 1) = batch /\ batch # <<>>
    BY <1>1, <2>2, CardBatchFacts
  <2>4. /\ BatchEnd(k) \in 0 .. Len(Due) /\ BatchEnd(k + 1) \in 0 .. Len(Due)
        /\ BatchEnd(k) <= BatchEnd(k + 1)
    <3>1. k \in Nat /\ k + 1 \in Nat
      BY <1>1
    <3> HIDE DEF k
    <3>2. QED
      BY <3>1, BatchEndFacts
  <2>5. batch \in Seq(Concepts)
    <3>1. Due \in Seq(Concepts) /\ Len(Due) \in Nat
      BY DueFacts
    <3> DEFINE end == BatchEnd(k + 1)
    <3>2. end \in 0 .. Len(Due) /\ j \in 0 .. Len(Due)
      BY <2>4
    <3> HIDE DEF end
    <3>3. \A i \in j + 1 .. end : Due[i] \in Concepts
      BY <3>1, <3>2
    <3>4. SubSeq(Due, j + 1, end) \in Seq(Concepts)
      BY <3>1, <3>2, <3>3, SubSeqProperties
    <3>5. QED
      BY <3>4 DEF end
  <2> HIDE DEF batch
  <2>6. Answered = [run EXCEPT !.phase = "check", !.sent = FALSE, !.todo = batch]
    BY <1>5, <2>2, <2>3 DEF Answered, At
  <2>7. /\ Answered \in Attempt /\ Answered.phase = "check" /\ Answered.sent = FALSE
        /\ Answered.done = run.done /\ Answered.todo = batch
    BY <1>1, <2>5, <2>6 DEF Attempt
  <2>8. WithinBatch(fate, Answered, j)
    BY <2>2, <2>4, <2>7 DEF WithinBatch, batch
  <2>9. QED
    BY <1>3, <2>7, <2>8 DEF AttemptIsAt
<1>6. CASE At("repair") \/ At("support")
  <2>1. WithinBatch(fate, run, j) /\ run.todo # <<>>
    BY <1>3, <1>6 DEF At, BetweenBatches, WithinBatch
  <2>2. /\ At("repair") => fate[c] \in {"mended", "broken"}
        /\ At("support") => fate[c] \in {"good", "refused", "mended"}
    BY <2>1 DEF At, WithinBatch
  <2>3. CASE At("repair") /\ fate[c] = "mended"
    <3>1. Answered = [run EXCEPT !.phase = "support", !.sent = FALSE]
      BY <2>3 DEF Answered, At
    <3>2. /\ Answered \in Attempt /\ Answered.phase = "support" /\ Answered.sent = FALSE
          /\ Answered.done = run.done /\ Answered.todo = run.todo
      BY <1>1, <3>1 DEF Attempt
    <3>3. WithinBatch(fate, Answered, j)
      BY <2>1, <2>3, <3>2 DEF WithinBatch
    <3>4. QED
      BY <1>3, <3>2, <3>3 DEF AttemptIsAt
  <2>4. CASE (At("repair") /\ fate[c] # "mended") \/ (At("support") /\ fate[c] = "refused")
    <3>1. Answered = Decide(c, "withheld")
      BY <2>4 DEF Answered, At
    <3>2. fate[c] \notin Good
      BY <2>2, <2>4 DEF Good
    <3>3. Answered \in Attempt /\ j + 1 \in 0 .. Len(Due) /\ AttemptIsAt(fate, Answered, j + 1)
      BY <1>1, <1>3, <2>1, <3>1, <3>2, WithheldIsAt
    <3>4. QED
      BY <3>3
  <2>5. CASE At("support") /\ fate[c] # "refused"
    <3>1. Answered = [Decide(c, "accepted") EXCEPT !.done.accepted = Append(@, c)]
      BY <2>5 DEF Answered, At
    <3>2. fate[c] \in Good
      BY <2>2, <2>5 DEF Good
    <3>3. Answered \in Attempt /\ j + 1 \in 0 .. Len(Due) /\ AttemptIsAt(fate, Answered, j + 1)
      BY <1>1, <1>3, <2>1, <3>1, <3>2, AcceptedIsAt
    <3>4. QED
      BY <3>3
  <2>6. QED
    BY <1>6, <2>3, <2>4, <2>5
<1>7. At("concepts") \/ At("cards") \/ At("repair") \/ At("support")
  BY <1>3 DEF AtCall, At, BetweenBatches, WithinBatch
<1>8. QED
  BY <1>4, <1>5, <1>6, <1>7

\* An answer that is stored, and one that comes.
LEMMA AnswersKeepRun ==
    ASSUME RunInv, Reuse \/ Answer
    PROVE  RunInv'
<1>1. /\ Running /\ (AtCall \/ run.sent) /\ run' = Answered
      /\ fate' = fate /\ report' = report /\ row' = row /\ deck' = deck /\ left' = left
      /\ answers' = answers \/ answers' = [answers EXCEPT ![Call] = "succeeded"]
  BY DEF Reuse, Answer, AtCall
<1>2. OthersTyped /\ OthersTyped'
  BY <1>1, AttemptInHand DEF OthersTyped
<1>3. run' \in Attempt /\ \E j \in 0 .. Len(Due) : AttemptIsAt(fate, run', j)
  BY <1>1, AnsweredIsAt
<1>4. QED
  BY <1>1, <1>2, <1>3, AttemptGoesOn

\* An exception in a repair withholds its card, and a call that is sent changes
\* nothing else.
LEMMA DisturbancesKeepRun ==
    ASSUME RunInv, PauseInRepair \/ MeetUnresolved \/ CallFails \/ Send
    PROVE  RunInv'
<1>1. /\ Running /\ fate' = fate /\ report' = report /\ deck' = deck
      /\ left' = left \/ Uses("failures")
      /\ \/ answers' = answers
         \/ answers' = [answers EXCEPT ![Call] = "failed"]
         \/ answers' = [answers EXCEPT ![Call] = "sent"]
      /\ \/ At("repair") /\ row' = row /\ run' = Decide(Head(run.todo), "disturbed")
         \/ run' = NoAttempt /\ \E retryable \in BOOLEAN : row' = Failed(row, retryable)
         \/ row' = row /\ run' = [run EXCEPT !.sent = TRUE] /\ AtCall
  BY DEF PauseInRepair, MeetUnresolved, CallFails, Send, FailRun, Ends, AtCall
<1>2. /\ run \in Attempt /\ row \in Row /\ OthersTyped
      /\ \E j \in 0 .. Len(Due) : AttemptIsAt(fate, run, j)
  BY <1>1, AttemptInHand
<1>3. OthersTyped'
  BY <1>1, <1>2, UsesKeepsType DEF OthersTyped
<1>4. PICK j \in 0 .. Len(Due) : AttemptIsAt(fate, run, j)
  BY <1>2
<1>5. CASE At("repair") /\ row' = row /\ run' = Decide(Head(run.todo), "disturbed")
  <2>1. ProgressIsAt(fate, run.done, j) /\ WithinBatch(fate, run, j) /\ run.todo # <<>>
    BY <1>4, <1>5 DEF AttemptIsAt, At, BetweenBatches, WithinBatch
  <2>2. run' \in Attempt /\ j + 1 \in 0 .. Len(Due) /\ AttemptIsAt(fate, run', j + 1)
    BY <1>2, <1>5, <2>1, WithheldIsAt
  <2>3. QED
    BY <1>1, <1>3, <1>5, <2>2, AttemptGoesOn
<1>6. CASE run' = NoAttempt /\ \E retryable \in BOOLEAN : row' = Failed(row, retryable)
  <2>1. row' \in Row /\ row'.saved = row.saved /\ row'.state # "completed"
    BY <1>2, <1>6, RowEnds
  <2>2. QED
    BY <1>1, <1>3, <1>6, <2>1, AttemptStaysOrEnds
<1>7. CASE row' = row /\ run' = [run EXCEPT !.sent = TRUE] /\ AtCall
  <2>1. /\ run' \in Attempt /\ run'.phase = run.phase /\ run'.sent = TRUE
        /\ run'.done = run.done /\ run'.todo = run.todo
    BY <1>2, <1>7 DEF Attempt
  <2>2. run.phase \in {"concepts", "cards", "repair", "support"}
    BY <1>7 DEF AtCall, At
  <2>3. run.phase = "concepts" /\ AttemptIsAt(fate, run, j) => run.done.batches < LastBatch
    <3> SUFFICES ASSUME run.phase = "concepts", AttemptIsAt(fate, run, j)
                 PROVE  run.done.batches < LastBatch
      OBVIOUS
    <3>1. MoreToExtract /\ run.done.batches <= LastBatch
      BY <1>7 DEF AtCall, At, AttemptIsAt, ProgressIsAt
    <3>2. /\ run.done.batches \in 0 .. Len(BatchEnds) /\ Len(BatchEnds) \in Nat
          /\ Len(Candidates) \in Nat /\ MaxConcepts \in Nat
      BY <1>2, PipelineAssumption DEF Attempt, Progress
    <3>3. Len(Known(run.done.batches)) \in Nat
      BY <3>2, KnownFacts
    <3>4. run.done.batches # LastBatch
      BY <3>1, <3>2, <3>3, LastBatchFacts DEF MoreToExtract
    <3>5. QED
      BY <3>1, <3>2, <3>4, LastBatchFacts
  <2>4. AttemptIsAt(fate, run', j)
    BY <1>4, <2>1, <2>2, <2>3 DEF AttemptIsAt, BetweenBatches, WithinBatch
  <2>5. QED
    BY <1>1, <1>3, <1>7, <2>1, <2>4, AttemptGoesOn
<1>8. QED
  BY <1>1, <1>5, <1>6, <1>7

\* Between two batches the attempt goes to the next one, or to publication.
LEMMA NextBatchIsAt ==
    ASSUME NEW f, NEW d \in Progress, d.batches = LastBatch,
           ProgressIsAt(f, d, BatchEnd(d.cardBatches)),
           NEW a \in Attempt, a.phase = NextBatch(d), a.done = d, a.todo = <<>>, a.sent = FALSE
    PROVE  AttemptIsAt(f, a, BatchEnd(d.cardBatches))
<1> DEFINE k == d.cardBatches
           more == k * CardBatchSize < Len(Due)
<1>1. k \in Nat
  BY DEF Progress
<1>2. a.phase = IF more THEN "cards" ELSE "finish"
  <2> HIDE DEF k
  <2>1. CardBatch(LastBatch, k + 1) = <<>> <=> ~more
    BY <1>1, CardBatchFacts
  <2>2. QED
    BY <2>1 DEF NextBatch, k
<1>3. ~more => BatchEnd(k) = Len(Due)
  <2> HIDE DEF k
  <2>1. QED
    BY <1>1, BatchEndFacts
<1>4. BetweenBatches(a, BatchEnd(k))
  BY <1>2, <1>3 DEF BetweenBatches
<1>5. QED
  BY <1>4 DEF AttemptIsAt

\* The concepts of a batch, and the plan when there are no more.
LEMMA ConceptsKeepRun ==
    ASSUME RunInv, SaveConcepts \/ PlanCards
    PROVE  RunInv'
<1>1. /\ Running /\ fate' = fate /\ report' = report /\ deck' = deck
      /\ left' = left /\ answers' = answers
  BY DEF SaveConcepts, PlanCards
<1>2. /\ run \in Attempt /\ row \in Row /\ OthersTyped /\ run.done \in Progress
      /\ \E j \in 0 .. Len(Due) : AttemptIsAt(fate, run, j)
  BY <1>1, AttemptInHand
<1>3. OthersTyped'
  BY <1>1, <1>2 DEF OthersTyped
<1>4. PICK j \in 0 .. Len(Due) : AttemptIsAt(fate, run, j)
  BY <1>2
<1>5. /\ ProgressIsAt(fate, run.done, j) /\ j = BatchEnd(run.done.cardBatches)
      /\ run.todo = <<>> /\ run.done.batches <= LastBatch
  BY <1>4 DEF SaveConcepts, PlanCards, At, AttemptIsAt, BetweenBatches, WithinBatch, ProgressIsAt
<1>6. CASE SaveConcepts
  <2>1. run.done.batches < LastBatch /\ run.sent = FALSE
    BY <1>2, <1>4, <1>6 DEF SaveConcepts, At, AttemptIsAt, BetweenBatches, WithinBatch, Attempt
  <2> DEFINE e == ResumeFrom([run.done EXCEPT !.batches = @ + 1])
  <2>2. e \in Progress /\ ProgressIsAt(fate, e, BatchEnd(e.cardBatches))
    BY <1>2, <1>5, <2>1, ExtractionIsAt
  <2>3. row' = [row EXCEPT !.saved = e] /\ run' = [run EXCEPT !.phase = "concepts", !.done = e]
    BY <1>6 DEF SaveConcepts
  <2> HIDE DEF e
  <2>4. /\ run' \in Attempt /\ run'.phase = "concepts" /\ run'.sent = FALSE
        /\ run'.done = e /\ run'.todo = <<>>
    BY <1>2, <1>5, <2>1, <2>2, <2>3 DEF Attempt
  <2>5. BetweenBatches(run', BatchEnd(e.cardBatches))
    BY <2>4 DEF BetweenBatches
  <2>6. AttemptIsAt(fate, run', BatchEnd(run'.done.cardBatches))
    BY <2>2, <2>4, <2>5 DEF AttemptIsAt
  <2>7. QED
    BY <1>1, <1>3, <2>3, <2>4, <2>6, ProgressIsSaved
<1>7. CASE PlanCards
  <2>1. run.sent = FALSE /\ ~MoreToExtract /\ row' = row
    BY <1>2, <1>7 DEF PlanCards, Attempt
  <2>2. run.done.batches = LastBatch
    <3>1. /\ run.done.batches \in 0 .. Len(BatchEnds) /\ Len(BatchEnds) \in Nat
          /\ LastBatch \in 0 .. Len(BatchEnds)
      BY <1>2, PipelineAssumption, LastBatchFacts DEF Progress
    <3>2. ~(run.done.batches < LastBatch)
      BY <2>1, <3>1, LastBatchFacts DEF MoreToExtract
    <3>3. QED
      BY <1>5, <3>1, <3>2
  <2>3. run' = [run EXCEPT !.phase = NextBatch(run.done)]
    BY <1>7 DEF PlanCards, Goes
  <2>4. NextBatch(run.done) \in {"cards", "finish"}
    BY DEF NextBatch
  <2>5. /\ run' \in Attempt /\ run'.phase = NextBatch(run.done) /\ run'.sent = FALSE
        /\ run'.done = run.done /\ run'.todo = <<>>
    BY <1>2, <1>5, <2>1, <2>3, <2>4 DEF Attempt
  <2>6. AttemptIsAt(fate, run', j)
    BY <1>2, <1>5, <2>2, <2>5, NextBatchIsAt
  <2>7. QED
    BY <1>1, <1>3, <2>1, <2>5, <2>6, AttemptGoesOn
<1>8. QED
  BY <1>6, <1>7

\* The checks of the next card that make no call.
LEMMA CheckKeepsRun ==
    ASSUME RunInv, CheckCard
    PROVE  RunInv'
<1> DEFINE c == Head(run.todo)
<1>1. /\ Running /\ fate' = fate /\ report' = report /\ deck' = deck /\ row' = row
      /\ left' = left /\ answers' = answers /\ run.todo # <<>> /\ run.phase = "check"
  BY DEF CheckCard, At
<1>2. /\ run \in Attempt /\ OthersTyped /\ run.done \in Progress
      /\ fate \in [ToSet(Due) -> Fates]
      /\ \E j \in 0 .. Len(Due) : AttemptIsAt(fate, run, j)
  BY <1>1, AttemptInHand
<1>3. OthersTyped'
  BY <1>1, <1>2 DEF OthersTyped
<1>4. PICK j \in 0 .. Len(Due) : AttemptIsAt(fate, run, j)
  BY <1>2
<1>5. ProgressIsAt(fate, run.done, j) /\ WithinBatch(fate, run, j) /\ run.sent = FALSE
  BY <1>1, <1>2, <1>4 DEF AttemptIsAt, BetweenBatches, WithinBatch, Attempt
<1>6. fate[c] \in AllFates
  <2>1. c \in ToSet(Due)
    BY <1>1, <1>2, <1>5, RestOfBatch
  <2>2. QED
    BY <1>2, <2>1, PipelineAssumption
<1>7. CASE fate[c] \in {"unanswered", "malformed"}
  <2>1. run' = Decide(c, "withheld") /\ fate[c] \notin Good
    BY <1>7 DEF CheckCard, Good
  <2>2. run' \in Attempt /\ j + 1 \in 0 .. Len(Due) /\ AttemptIsAt(fate, run', j + 1)
    BY <1>1, <1>2, <1>5, <2>1, WithheldIsAt
  <2>3. QED
    BY <1>1, <1>3, <2>2, AttemptGoesOn
<1>8. ASSUME NEW phase \in {"repair", "support"}, run' = [run EXCEPT !.phase = phase],
             phase = "repair" => fate[c] \in {"mended", "broken"},
             phase = "support" => fate[c] \in {"good", "refused"}
      PROVE  RunInv'
  <2>1. /\ run' \in Attempt /\ run'.phase = phase /\ run'.sent = FALSE
        /\ run'.done = run.done /\ run'.todo = run.todo
    BY <1>2, <1>5, <1>8 DEF Attempt
  <2>2. WithinBatch(fate, run', j)
    BY <1>1, <1>5, <1>8, <2>1 DEF WithinBatch
  <2>3. AttemptIsAt(fate, run', j)
    BY <1>5, <2>1, <2>2 DEF AttemptIsAt
  <2>4. QED
    BY <1>1, <1>3, <2>1, <2>3, AttemptGoesOn
<1>9. CASE fate[c] \in {"mended", "broken"}
  <2>1. run' = [run EXCEPT !.phase = "repair"]
    BY <1>9 DEF CheckCard
  <2>2. QED
    BY <1>8, <1>9, <2>1
<1>10. CASE fate[c] \in {"good", "refused"}
  <2>1. run' = [run EXCEPT !.phase = "support"]
    BY <1>10 DEF CheckCard
  <2>2. QED
    BY <1>8, <1>10, <2>1
<1>11. QED
  BY <1>6, <1>7, <1>9, <1>10 DEF AllFates

\* The cards of a finished batch are saved with its outcomes.
LEMMA SaveCardsKeepsRun ==
    ASSUME RunInv, SaveCards
    PROVE  RunInv'
<1>1. /\ Running /\ fate' = fate /\ report' = report /\ deck' = deck
      /\ left' = left /\ answers' = answers /\ run.todo = <<>> /\ run.phase = "check"
  BY DEF SaveCards, At
<1>2. /\ run \in Attempt /\ row \in Row /\ OthersTyped /\ run.done \in Progress
      /\ \E j \in 0 .. Len(Due) : AttemptIsAt(fate, run, j)
  BY <1>1, AttemptInHand
<1>3. OthersTyped'
  BY <1>1, <1>2 DEF OthersTyped
<1>4. PICK j \in 0 .. Len(Due) : AttemptIsAt(fate, run, j)
  BY <1>2
<1>5. ProgressIsAt(fate, run.done, j) /\ WithinBatch(fate, run, j) /\ run.sent = FALSE
  BY <1>1, <1>2, <1>4 DEF AttemptIsAt, BetweenBatches, WithinBatch, Attempt
<1>6. j = BatchEnd(run.done.cardBatches + 1) /\ run.done.batches = LastBatch
  BY <1>1, <1>2, <1>5, RestOfBatch DEF WithinBatch
<1> DEFINE e == [run.done EXCEPT !.cardBatches = @ + 1]
<1>7. e \in Progress /\ e.batches = LastBatch /\ ProgressIsAt(fate, e, BatchEnd(e.cardBatches))
  <2>1. ProgressIsAt(fate, run.done, BatchEnd(run.done.cardBatches + 1))
    BY <1>5, <1>6
  <2>2. QED
    BY <1>2, <1>6, <2>1, BatchDoneIsAt
<1>8. row' = [row EXCEPT !.saved = e] /\ run' = [run EXCEPT !.phase = NextBatch(e), !.done = e]
  BY DEF SaveCards
<1> HIDE DEF e
<1>9. NextBatch(e) \in {"cards", "finish"}
  BY DEF NextBatch
<1>10. /\ run' \in Attempt /\ run'.phase = NextBatch(e) /\ run'.sent = FALSE
       /\ run'.done = e /\ run'.todo = <<>>
  BY <1>1, <1>2, <1>5, <1>7, <1>8, <1>9 DEF Attempt
<1>11. AttemptIsAt(fate, run', BatchEnd(run'.done.cardBatches))
  BY <1>7, <1>10, NextBatchIsAt
<1>12. QED
  BY <1>1, <1>3, <1>8, <1>10, <1>11, ProgressIsSaved

\* The report is made of progress that is complete.
LEMMA PublishKeepsRun ==
    ASSUME RunInv, Publish
    PROVE  RunInv'
<1>1. /\ Running /\ run.phase = "finish" /\ fate' = fate /\ deck' = deck /\ left' = left
      /\ row' = [row EXCEPT !.state = "completed", !.saved = NoProgress]
      /\ report' = ReportOf(run.done) /\ answers' = [c \in Calls |-> "none"]
      /\ run' = NoAttempt
  BY DEF Publish, At, Ends
<1>2. /\ run \in Attempt /\ row \in Row /\ OthersTyped /\ run.done \in Progress
      /\ fate \in [ToSet(Due) -> Fates]
      /\ \E j \in 0 .. Len(Due) : AttemptIsAt(fate, run, j)
  BY <1>1, AttemptInHand
<1>3. PICK j \in 0 .. Len(Due) : AttemptIsAt(fate, run, j)
  BY <1>2
<1>4. j = Len(Due) /\ ProgressIsAt(fate, run.done, Len(Due))
  BY <1>1, <1>3 DEF AttemptIsAt, BetweenBatches, WithinBatch
<1>5. NoProgress \in Progress /\ ProgressIsAt(fate, NoProgress, BatchEnd(NoProgress.cardBatches))
  BY NoProgressIsAtStart
<1>6. row' \in Row /\ row'.saved = NoProgress
  BY <1>1, <1>2, <1>5 DEF Row
<1>7. report' \in [cards : Seq(Concepts), withheld : SUBSET Concepts, disturbed : SUBSET Concepts]
  <2>1. run.done.accepted \in Seq(Concepts)
    BY <1>2 DEF Progress
  <2>2. Kept(run.done.accepted) \in Seq(Concepts) /\ ToSet(run.done.accepted) \subseteq Concepts
    BY <2>1, FirstsFacts, Whole DEF Kept, FirstOfEach
  <2>3. QED
    BY <1>1, <2>2 DEF ReportOf
<1>8. TypeOK'
  BY <1>1, <1>2, <1>6, <1>7 DEF TypeOK, OthersTyped
<1>9. RowCoheres' /\ AttemptCoheres'
  BY <1>1, <1>5, <1>6 DEF RowCoheres, AttemptCoheres, Running
<1>10. ReportCoheres'
  BY <1>1, <1>2, <1>4 DEF ReportCoheres
<1>11. QED
  BY <1>8, <1>9, <1>10 DEF RunInv

\* Every step keeps the invariant.
LEMMA NextRun == RunInv /\ [Next]_vars => RunInv'
<1> SUFFICES ASSUME RunInv, [Next]_vars
             PROVE  RunInv'
  OBVIOUS
<1>1. CASE UNCHANGED vars
  BY <1>1 DEF vars, RunInv, TypeOK, RowCoheres, AttemptCoheres, ReportCoheres, Running
<1>2. CASE Next
  BY <1>2, ClaimKeepsRun, EndsKeepRun, OwnerKeepsRun, AnswersKeepRun, DisturbancesKeepRun,
     ConceptsKeepRun, CheckKeepsRun, SaveCardsKeepsRun, PublishKeepsRun DEF Next, Work
<1>3. QED
  BY <1>1, <1>2

\* Whatever happens to its attempts, a run is in hand as RunInv has it.
THEOREM SpecRunInv == Spec => []RunInv
  BY InitRun, NextRun, PTL DEF Spec

\* The rows, attempts and reports of a run are what the code declares.
THEOREM SpecTypeOK == Spec => []TypeOK
<1>1. RunInv => TypeOK
  BY DEF RunInv
<1>2. QED
  BY <1>1, SpecRunInv, PTL

-----------------------------------------------------------------------------
(* What the invariant says of checkpoints and reports.                       *)

\* A checkpoint whose card batches are done has decided the concepts of each.
LEMMA FinishedBatchesAreDecided ==
    ASSUME NEW f, NEW d \in Progress, ProgressIsAt(f, d, BatchEnd(d.cardBatches)),
           NEW n \in 1 .. d.cardBatches, NEW c \in ToSet(CardBatch(d.batches, n))
    PROVE  d.outcomes[c] \in Decided
<1> DEFINE m == n - 1
           start == BatchEnd(m)
           end == BatchEnd(n)
           last == BatchEnd(d.cardBatches)
<1>1. d.cardBatches \in Nat /\ n \in Nat /\ m \in Nat /\ m + 1 = n /\ n <= d.cardBatches
  BY DEF Progress
<1>2. d.batches = LastBatch
  BY <1>1 DEF ProgressIsAt
<1>3. ToSet(<<>>) = {}
  BY Nothing
<1>4. CardBatch(LastBatch, n) = SubSeq(Due, start + 1, end)
  <2>1. m * CardBatchSize < Len(Due) => CardBatch(LastBatch, m + 1) = SubSeq(Due, start + 1, BatchEnd(m + 1))
    BY <1>1, CardBatchFacts
  <2>2. ~(m * CardBatchSize < Len(Due)) => CardBatch(LastBatch, m + 1) = <<>>
    BY <1>1, CardBatchFacts
  <2>3. CardBatch(LastBatch, n) # <<>>
    BY <1>2, <1>3
  <2>4. QED
    BY <1>1, <2>1, <2>2, <2>3
<1>5. /\ start \in 0 .. Len(Due) /\ end \in 0 .. Len(Due) /\ start <= end
      /\ last \in 0 .. Len(Due) /\ end <= last
      /\ Due \in Seq(Concepts) /\ Len(Due) \in Nat
  <2>1. start \in 0 .. Len(Due) /\ start <= BatchEnd(m + 1)
    BY <1>1, BatchEndFacts
  <2>2. end \in 0 .. Len(Due) /\ last \in 0 .. Len(Due)
    BY <1>1, BatchEndFacts
  <2>3. end <= last
    BY <1>1, BatchEndGrows
  <2>4. QED
    BY <1>1, <2>1, <2>2, <2>3, DueFacts
<1> HIDE DEF start, end, last
<1>6. PICK i \in start + 1 .. end : c = Due[i]
  <2> DEFINE part == SubSeq(Due, start + 1, end)
  <2>1. \A i \in start + 1 .. end : Due[i] \in Concepts
    BY <1>5
  <2>2. /\ part \in Seq(Concepts) /\ DOMAIN part = 1 .. Len(part)
        /\ start + 1 <= end + 1 => Len(part) = end + 1 - (start + 1)
        /\ \A i \in 1 .. end + 1 - (start + 1) : part[i] = Due[start + 1 + i - 1]
    BY <1>5, <2>1, SubSeqProperties
  <2>3. Len(part) = end - start
    BY <1>5, <2>2
  <2> HIDE DEF part
  <2>4. PICK i \in 1 .. end - start : c = part[i]
    BY <1>2, <1>4, <2>2, <2>3 DEF ToSet, part
  <2>5. c = Due[start + i]
    BY <1>5, <2>2, <2>4
  <2>6. start + i \in start + 1 .. end
    BY <1>5, <2>4
  <2>7. QED
    BY <2>5, <2>6
<1>7. c \in Concepts /\ c \in FirstOf(last, Due)
  BY <1>5, <1>6 DEF FirstOf
<1>8. QED
  BY <1>7 DEF ProgressIsAt, last

\* Wherever a run was interrupted, the progress it saved holds together: what is left for a
\* continuation to refuse it for is a candidate its selection does not name.
THEOREM SpecCheckpointCoheres == Spec => []CheckpointCoheres
<1>1. ASSUME RunInv
      PROVE  CheckpointCoheres
  <2> DEFINE saved == row.saved
             j == BatchEnd(saved.cardBatches)
  <2>1. TypeOK /\ saved \in Progress /\ ProgressIsAt(fate, saved, j)
    BY <1>1 DEF RunInv, TypeOK, RowCoheres, Row
  <2>2. saved.cardBatches \in Nat /\ saved.batches \in 0 .. Len(BatchEnds)
    BY <2>1 DEF Progress
  <2>3. j \in 0 .. Len(Due)
    BY <2>2, BatchEndFacts
  <2> HIDE DEF saved, j
  <2>4. Coherent(saved)
    BY <2>1, <2>3, SavedIsCoherent
  <2>5. ToSet(Known(saved.batches)) \subseteq Concepts
    BY <2>2, KnownFacts, Whole
  <2>6. {c \in Concepts : saved.outcomes[c] # "none"} = ToSet(Known(saved.batches))
    BY <2>1, <2>5 DEF ProgressIsAt
  <2>7. \A n \in 1 .. saved.cardBatches :
          \A c \in ToSet(CardBatch(saved.batches, n)) : saved.outcomes[c] \in Decided
    BY <2>1, FinishedBatchesAreDecided DEF j
  <2>8. QED
    BY <2>1, <2>4, <2>6, <2>7 DEF CheckpointCoheres, saved
<1>2. QED
  BY <1>1, SpecRunInv, PTL

\* Complete progress: what it accepted, and that all that is due was decided.
LEMMA CompleteProgress ==
    ASSUME NEW f, NEW d \in Progress, ProgressIsAt(f, d, Len(Due))
    PROVE  /\ d.accepted = FirstOfEach({}, With(d, "accepted"), Due)
           /\ d.accepted \in Seq(Concepts)
           /\ ToSet(d.accepted) = With(d, "accepted")
           /\ ToSet(Due) = With(d, "accepted") \cup With(d, "withheld") \cup With(d, "disturbed")
           /\ \A c \in ToSet(Due) : d.outcomes[c] = "accepted" => f[c] \in Good
           /\ \A c \in ToSet(Due) : d.outcomes[c] = "withheld" => f[c] \notin Good
<1>1. /\ Due \in Seq(Concepts) /\ Len(Due) \in Nat /\ Len(Due) \in 0 .. Len(Due)
      /\ FirstOf(Len(Due), Due) = ToSet(Due) /\ ToSet(Due) \subseteq Concepts
  BY DueFacts, Whole
<1>2. d.accepted = FirstOfEach({}, With(d, "accepted"), Due)
  BY DEF ProgressIsAt, FirstOfEach
<1>3. /\ d.accepted \in Seq(Concepts)
      /\ ToSet(d.accepted) = With(d, "accepted") \cap ToSet(Due)
  BY <1>1, <1>2, FirstsFacts, FirstsOfThose DEF FirstOfEach
<1>4. \A c \in Concepts : d.outcomes[c] \in Decided <=> c \in ToSet(Due)
  BY <1>1 DEF ProgressIsAt
<1>5. ToSet(Due) = With(d, "accepted") \cup With(d, "withheld") \cup With(d, "disturbed")
  BY <1>1, <1>4 DEF With, Decided
<1>6. QED
  BY <1>1, <1>2, <1>3, <1>5 DEF ProgressIsAt

\* What a run shows counts every concept due once, and no refused card.
THEOREM SpecReportIsComplete == Spec => []ReportIsComplete
<1>1. ASSUME RunInv, row.state = "completed"
      PROVE  LET cards == ToSet(report.cards)
             IN  /\ cards \cup report.withheld = ToSet(Due)
                 /\ cards \cap report.withheld = {}
                 /\ cards \subseteq ToSet(CardsDue)
  <2>1. PICK d \in Progress : ProgressIsAt(fate, d, Len(Due)) /\ report = ReportOf(d)
    BY <1>1 DEF RunInv, ReportCoheres
  <2> DEFINE cards == ToSet(Kept(d.accepted))
             good == {c \in ToSet(Due) : fate[c] \in {"good", "mended"}}
  <2>2. /\ d.accepted \in Seq(Concepts) /\ ToSet(d.accepted) = With(d, "accepted")
        /\ ToSet(Due) = With(d, "accepted") \cup With(d, "withheld") \cup With(d, "disturbed")
        /\ \A c \in ToSet(Due) : d.outcomes[c] = "accepted" => fate[c] \in Good
    BY <2>1, CompleteProgress
  <2>3. cards \subseteq ToSet(d.accepted)
    BY <2>2, FirstsFacts, Whole DEF Kept, FirstOfEach
  <2>4. report.cards = Kept(d.accepted)
        /\ report.withheld = With(d, "withheld") \cup With(d, "disturbed")
                                 \cup (ToSet(d.accepted) \ cards)
    BY <2>1 DEF ReportOf, With
  <2>5. With(d, "accepted") \cap (With(d, "withheld") \cup With(d, "disturbed")) = {}
    BY DEF With
  <2>6. ToSet(CardsDue) = good
    BY DueFacts, FirstsOfThose, Whole DEF CardsDue, Those, FirstOfEach
  <2>7. With(d, "accepted") \subseteq good
    BY <2>2 DEF With, Good
  <2> HIDE DEF cards, good
  <2>8. QED
    BY <2>2, <2>3, <2>4, <2>5, <2>6, <2>7 DEF cards
<1>2. RunInv => ReportIsComplete
  BY <1>1 DEF ReportIsComplete
<1>3. QED
  BY <1>2, SpecRunInv, PTL

\* A run stopped, lost and continued in any order shows what it would have shown
\* in one go, unless a repair was disturbed.
THEOREM SpecOnlyDisturbedRepairsShow == Spec => []OnlyDisturbedRepairsShow
<1>1. ASSUME RunInv, row.state = "completed", report.disturbed = {}
      PROVE  report.cards = Kept(CardsDue)
  <2>1. PICK d \in Progress : ProgressIsAt(fate, d, Len(Due)) /\ report = ReportOf(d)
    BY <1>1 DEF RunInv, ReportCoheres
  <2> DEFINE good == {c \in ToSet(Due) : fate[c] \in {"good", "mended"}}
  <2>2. /\ d.accepted = FirstOfEach({}, With(d, "accepted"), Due)
        /\ ToSet(Due) = With(d, "accepted") \cup With(d, "withheld") \cup With(d, "disturbed")
        /\ \A c \in ToSet(Due) : d.outcomes[c] = "accepted" => fate[c] \in Good
        /\ \A c \in ToSet(Due) : d.outcomes[c] = "withheld" => fate[c] \notin Good
    BY <2>1, CompleteProgress
  <2>3. report.cards = Kept(d.accepted) /\ report.disturbed = With(d, "disturbed")
    BY <2>1 DEF ReportOf, With
  <2>4. With(d, "accepted") = good
    BY <1>1, <2>2, <2>3 DEF With, Good
  <2>5. CardsDue = FirstOfEach({}, good, Due)
    BY DEF CardsDue, Those
  <2>6. QED
    BY <2>2, <2>3, <2>4, <2>5
<1>2. RunInv => OnlyDisturbedRepairsShow
  BY <1>1 DEF OnlyDisturbedRepairsShow
<1>3. QED
  BY <1>2, SpecRunInv, PTL

=============================================================================
