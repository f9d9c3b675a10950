------------------------------ MODULE MCStudy ------------------------------
(* An owner with one document, two decks of it and a card of one, and a    *)
(* reader both decks may be lent to.                                        *)
EXTENDS Study

CONSTANTS owner, reader, paper, d1, d2, card

OwnerOfPaper == [d \in {paper} |-> owner]
CardDecks == card :> d1
=============================================================================
