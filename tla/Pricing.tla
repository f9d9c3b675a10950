------------------------------- MODULE Pricing -------------------------------
(***************************************************************************)
(* What a provider call is held at before it is sent and charged at after  *)
(* it has answered: estimateAttemptMinor and costForTokens of              *)
(* apps/worker/src/budget.ts, as attempt in pipeline.ts uses them.  All    *)
(* figures are integers, and a part of a minor unit is rounded up.         *)
(***************************************************************************)
EXTENDS Integers

CONSTANTS
    Million,       \* the number of tokens a price is for: 1 000 000
    Prices,        \* minor units per Million tokens
    CharsPerToken, \* JEVDECK_BUDGET_CHARS_PER_TOKEN, at least 1
    Sizes          \* characters of a request, and counts of tokens

ASSUME PricingAssumption == /\ Million \in Nat \ {0}
                            /\ CharsPerToken \in Nat \ {0}
                            /\ Prices \subseteq Nat /\ Sizes \subseteq Nat

VARIABLES
    request,   \* the prepared call
    held,      \* reservedMinor
    answer,    \* the usage the provider reports
    charged    \* what the hold is settled at

vars == <<request, held, answer, charged>>

\* The provider's own count of the input, or none.
NoCount == -1

NotYet == -1

Request == [chars : Nat, counted : Nat \cup {NoCount}, maxOutput : Nat,
            inputPrice : Nat, outputPrice : Nat]

Ceil(n, d) == (n + d - 1) \div d

AtLeastOne(n) == IF n < 1 THEN 1 ELSE n

\* The input the hold is for: the count, or a bound from the size of the request.
BoundedInput(r) == IF r.counted # NoCount THEN r.counted
                   ELSE Ceil(r.chars, CharsPerToken)

Minor(r, input, output) == Ceil(input * r.inputPrice, Million)
                             + Ceil(output * r.outputPrice, Million)

\* Variant: the parts are added before they are rounded.
EstimateRoundedOnce(r) == Ceil(BoundedInput(r) * r.inputPrice
                                 + AtLeastOne(r.maxOutput) * r.outputPrice, Million)

estimateAttemptMinor(r) == Minor(r, BoundedInput(r), AtLeastOne(r.maxOutput))

costForTokens(r, u) == Minor(r, u.input, u.output)

\* A provider that reports no usage leaves the hold as the only figure.
ChargeFor(r, u, hold) == IF u.input > 0 \/ u.output > 0 THEN costForTokens(r, u) ELSE hold

Init == /\ request \in [chars : Sizes, counted : Sizes \cup {NoCount}, maxOutput : Sizes,
                        inputPrice : Prices, outputPrice : Prices]
        /\ held = NotYet
        /\ answer = [input |-> 0, output |-> 0]
        /\ charged = NotYet

Hold == /\ held = NotYet
        /\ held' = estimateAttemptMinor(request)
        /\ UNCHANGED <<request, answer, charged>>

Charge == /\ held # NotYet /\ charged = NotYet
          /\ answer' \in [input : Sizes, output : Sizes]
          /\ charged' = ChargeFor(request, answer', held)
          /\ UNCHANGED <<request, held>>

Next == Hold \/ Charge

Spec == Init /\ [][Next]_vars

-----------------------------------------------------------------------------
(* Properties.                                                             *)

TypeOK == /\ request \in Request
          /\ held \in Nat \cup {NotYet} /\ charged \in Nat \cup {NotYet}
          /\ answer \in [input : Nat, output : Nat]

\* What was counted or bounded was what the request turned out to be, and the
\* provider kept to the ceiling it was sent.
WithinBounds == /\ answer.input <= BoundedInput(request)
                /\ answer.output <= AtLeastOne(request.maxOutput)

\* "The most a call of this size can cost" (estimateAttemptMinor): a call within
\* its bounds is never charged more than was held for it, however the two round.
HoldBoundsCharge == charged # NotYet /\ WithinBounds => charged <= held

\* "cannot slip past a cap by rounding to zero": where any part of a call has a
\* price, neither its hold nor its charge is nothing, though the provider may
\* report no usage at all.
NoPaidCallIsFree ==
    /\ held # NotYet /\ request.outputPrice > 0 => held > 0
    /\ charged # NotYet /\ request.inputPrice > 0 /\ request.outputPrice > 0 => charged > 0
=============================================================================
