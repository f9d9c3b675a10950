--------------------------- MODULE MCRunPipeline ---------------------------
(* Six concepts and three extraction batches, the last over the limit of     *)
(* five: three of the concepts are included, in two card batches.  p restates *)
(* k, q is not in the source, and the cards of k and m state one fact.  The   *)
(* selection names the sections of all, or those of the first batch alone:   *)
(* p, m and r are then from a section below a selected one.                  *)
EXTENDS RunPipeline

CONSTANTS k, l, m, p, q, r

SixConcepts == {k, l, m, p, q, r}
Reported == <<k, q, l, p, m, r>>
ThreeEnds == <<3, 5, 6>>
InSource == {k, l, m, p, r}
InCoverage == {k, l, m, p, r}
OneRestatement == {<<p, k>>}
OneCardRestatement == {<<m, k>>}
AllOrTheFirst == {SixConcepts, {k, q, l}}
TheFirst == {{k, q, l}}
=============================================================================
