----------------------------- MODULE CardRules ------------------------------
(***************************************************************************)
(* The rules a candidate card passes before it is published: its structure *)
(* against the passage it cites, the support of its claim, the answer of   *)
(* the judge, and the duplicates dropped at the end.                       *)
(*                                                                         *)
(* Text is what the rules tell apart.  A sentence is [words, negated,      *)
(* figures, hedged]: which wording it has, whether it carries a negation,  *)
(* the figures it states and whether it hedges; a page is a sequence of    *)
(* sentences.  A card is [format, words, prompt, answer, absolute, cites]: *)
(* the wording of its claim; the negation and figures of its question or   *)
(* cloze sentence, and of its answer; whether the answer is absolute; and  *)
(* the places of the sentences its excerpt covers, none when the excerpt   *)
(* is not on the page.                                                     *)
(***************************************************************************)
EXTENDS Naturals, Sequences, SequencesExt

CONSTANTS
    Wordings,   \* the wordings of sentences and claims
    Alike       \* pairs of wordings above the similarity of duplicates

ASSUME CardRulesAssumption ==
    /\ Alike \subseteq Wordings \X Wordings
    /\ \A w \in Wordings : <<w, w>> \in Alike
    /\ \A pair \in Alike : <<pair[2], pair[1]>> \in Alike

Sides     == [negated : BOOLEAN, figures : SUBSET Nat]
Sentences == [words : Wordings, negated : BOOLEAN, figures : SUBSET Nat, hedged : BOOLEAN]
Cards     == [format : {"qa", "cloze"}, words : Wordings, prompt : Sides, answer : Sides,
              absolute : BOOLEAN, cites : SUBSET Nat]

Cited(card, page) == {page[i] : i \in card.cites}
FiguresIn(sentences) == UNION {s.figures : s \in sentences}

\* What a card asserts: the question and the answer together, or the cloze
\* sentence with its deletion written back.
ClaimNegated(card) == card.prompt.negated \/ card.answer.negated
ClaimFigures(card) == card.prompt.figures \cup card.answer.figures

-----------------------------------------------------------------------------
(* Structure and support *)

\* The excerpt as a whole is negated, or hedged, when any of it is.  The code
\* tests the text of the excerpt, which may begin or end within a sentence;
\* here it is the sentences it touches, whole.
ValidateCardStructure(card, excerpt) ==
    CASE card.format = "qa" ->
            /\ card.answer.figures \subseteq FiguresIn(excerpt)
            /\ card.answer.negated <=> \E s \in excerpt : s.negated
            /\ ~(card.absolute /\ \E s \in excerpt : s.hedged)
      [] card.format = "cloze" ->
            \E s \in excerpt : /\ s.words = card.words
                               /\ s.negated = card.prompt.negated
                               /\ s.figures = card.prompt.figures

\* Variant: the polarity of the claim is compared with the whole page.
PageWidePolarity(card, page) ==
    IF \/ card.cites = {}
       \/ ~(ClaimFigures(card) \subseteq FiguresIn(ToSet(page)))
       \/ ~ClaimNegated(card) /\ \E s \in ToSet(page) : s.negated
    THEN "contradicted"
    ELSE "inconclusive"

\* Variant: a card that restates its passage is not compared with it.
WordingOnly(card, page) ==
    IF card.cites = {} \/ ~(ClaimFigures(card) \subseteq FiguresIn(ToSet(page)))
    THEN "contradicted"
    ELSE "inconclusive"

\* Only what the source proves is a contradiction: an excerpt that is not
\* there, a figure it states nowhere, a restatement with the opposite
\* polarity of every sentence it cites.
ValidateClaimSupport(card, page) ==
    LET cited     == Cited(card, page)
        restates  == \E s \in cited : s.words = card.words
        opposite  == \/ (\A s \in cited : s.negated) /\ ~ClaimNegated(card)
                     \/ (\A s \in cited : ~s.negated) /\ ClaimNegated(card)
    IN  IF \/ card.cites = {}
           \/ ~(ClaimFigures(card) \subseteq FiguresIn(ToSet(page)))
           \/ restates /\ opposite
        THEN "contradicted"
        ELSE "inconclusive"

\* A contradiction is final, and an answer that never came is not support.
CombineSupportFindings(verdict, judge) ==
    verdict # "contradicted" /\ judge = "supported"

\* The judge is asked only about a card no rule has refused.
ReachesTheJudge(card, page) ==
    /\ ValidateCardStructure(card, Cited(card, page))
    /\ ValidateClaimSupport(card, page) # "contradicted"

VerifyCard(card, page, judge) ==
    /\ ReachesTheJudge(card, page)
    /\ CombineSupportFindings(ValidateClaimSupport(card, page), judge)

-----------------------------------------------------------------------------
(* Duplicates *)

\* Two cards read alike by their questions or cloze sentences; opposite
\* polarity or other figures make them different facts.
MeaningfulDifference(a, b) == a.prompt # b.prompt

DetectDuplicate(a, b) ==
    /\ <<a.words, b.words>> \in Alike
    /\ ~MeaningfulDifference(a, b)

\* Variant: a card is compared with every earlier card, dropped or not.
CompareWithAll(cards) ==
    {j \in DOMAIN cards : \A i \in 1 .. (j - 1) : ~DetectDuplicate(cards[i], cards[j])}

\* The places of the cards kept: a card goes when a card kept before it
\* states the same.
DropDuplicateCards(cards) ==
    FoldLeft(LAMBDA kept, j :
                IF \E i \in kept : DetectDuplicate(cards[i], cards[j])
                THEN kept ELSE kept \cup {j},
             {}, [j \in DOMAIN cards |-> j])

=============================================================================
