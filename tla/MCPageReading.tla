--------------------------- MODULE MCPageReading ---------------------------
(* Instances of PageReading for TLC.                                        *)
EXTENDS PageReading, TLC

CONSTANTS a, b, s, t, r1, r2, w1, w2

\* Two scans, each a section of its own, and a page whose picture was not kept.
Apart == [p \in Pages |-> IF p = 1 THEN s ELSE t]
\* The same, all in one section.
Together == [p \in Pages |-> s]

\* Readings, runs and readers are told apart by nothing but their identity.
Ids == Permutations(Texts) \cup Permutations(Runs) \cup Permutations(Readers)
=============================================================================
