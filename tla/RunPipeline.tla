----------------------------- MODULE RunPipeline -----------------------------
(***************************************************************************)
(* One generation run from its first attempt to its report: the stages of  *)
(* runClaimedJob, repairCard, verifyCard and recordFailure in               *)
(* apps/worker/src/pipeline.ts, with the records of cards.ts, the progress  *)
(* of checkpoint.ts and the inventory of packages/generation/concepts.ts.   *)
(*                                                                         *)
(* Who holds the run is JobQueue's subject and what its calls cost is       *)
(* PaidCalls'.  Here an attempt that loses its claim, its process or its    *)
(* machine simply ends (Lapse): none of its later writes is accepted.  The  *)
(* owner's requests are single steps here, and interleave in JobQueue.      *)
(*                                                                         *)
(* What each model answers about a concept is chosen once, as its fate:     *)
(* the same request gets the same answer.                                   *)
(***************************************************************************)
EXTENDS Naturals, Sequences, SequencesExt

CONSTANTS
    Concepts,
    Candidates,     \* the concepts extraction reports, in their order
    BatchEnds,      \* how many of them are known after each extraction batch
    Verified,       \* those whose excerpt and section are in the source
    Central,        \* those the coverage mode keeps
    Restates,       \* pairs of concepts that read alike
    CardRestates,   \* pairs whose cards state the same fact
    MaxConcepts,    \* MAX_CONCEPTS
    CardBatchSize,  \* CARD_BATCH_SIZE
    Allowance,      \* MAX_ATTEMPTS and RESUME_ATTEMPT_ALLOWANCE
    Admissible,     \* what validCandidate may admit of them, by the run's selection
    Fates,          \* bound: the answers a concept can meet
    MaxRequests,    \* bound: what the owner asks for
    MaxLapses,      \* bound: attempts that are lost
    MaxFailures     \* bound: calls that fail or find no budget

AllFates == {"good", "refused", "malformed", "unanswered", "mended", "broken"}

ASSUME PipelineAssumption ==
    /\ Candidates \in Seq(Concepts)
    /\ BatchEnds \in Seq(0 .. Len(Candidates))
    /\ \A b \in 1 .. Len(BatchEnds) - 1 : BatchEnds[b] <= BatchEnds[b + 1]
    /\ Restates \subseteq Concepts \X Concepts
    /\ CardRestates \subseteq Concepts \X Concepts
    /\ {MaxConcepts, CardBatchSize, Allowance} \subseteq Nat \ {0}
    /\ Admissible \subseteq SUBSET Concepts
    /\ Fates \subseteq AllFates
    /\ {MaxRequests, MaxLapses, MaxFailures} \subseteq Nat

VARIABLES
    fate,       \* what the models say of each concept
    answers,    \* operation_results of the run
    row,        \* generation_jobs: the run's row, with its checkpoint
    run,        \* the attempt a worker is making, in its memory
    deck,       \* whether the deck of the run exists
    report,     \* what finished runs show: the cards and the omissions
    left        \* what is left of the bounds

vars == <<fate, answers, row, run, deck, report, left>>

-----------------------------------------------------------------------------
(* Concepts and cards *)

Known(batches) ==
    IF batches = 0 THEN <<>> ELSE SubSeq(Candidates, 1, BatchEnds[batches])

\* A text reads like itself.  (One without an ASCII word does not, concepts.ts:89: the
\* candidates have one.)
ReadsLike(pairs, seq, c) ==
    \E d \in ToSet(seq) : d = c \/ <<c, d>> \in pairs \/ <<d, c>> \in pairs

\* What a pass over seq has kept after n of its members: those of S, and of
\* those that are alike the first.
Firsts(pairs, S, seq) ==
    LET kept[n \in 0 .. Len(seq)] ==
          IF n = 0 THEN <<>>
          ELSE LET before == kept[n - 1]
               IN  IF seq[n] \in S /\ ~ReadsLike(pairs, before, seq[n])
                     THEN Append(before, seq[n]) ELSE before
    IN  kept

\* dedupe and dropDuplicateCards: the first of those that are alike stays.
FirstOfEach(pairs, S, seq) == Firsts(pairs, S, seq)[Len(seq)]

\* The members of S, in their order, each once.
Those(S, seq) == FirstOfEach({}, S, seq)

UpTo(n, seq) == SubSeq(seq, 1, IF n < Len(seq) THEN n ELSE Len(seq))

\* buildInventory and applyCoverage on the concepts known after so many batches,
\* cut to MAX_CONCEPTS.  A restatement of a concept that coverage then leaves
\* out is itself left out.
Included ==
    [batches \in 0 .. Len(BatchEnds) |->
        LET eligible == FirstOfEach(Restates, Verified, Known(batches))
        IN  UpTo(MaxConcepts, Those(Central, eligible))]

CardBatch(batches, n) ==
    LET all == UpTo(n * CardBatchSize, Included[batches])
    IN  SubSeq(all, (n - 1) * CardBatchSize + 1, Len(all))

Kept(accepted) == FirstOfEach(CardRestates, Concepts, accepted)

\* The batches extraction ends with, and the concepts that are owed a card or a
\* reason.
LastBatch ==
    Min({b \in 0 .. Len(BatchEnds) : b = Len(BatchEnds) \/ Len(Known(b)) >= MaxConcepts})

Due == Included[LastBatch]

-----------------------------------------------------------------------------
(* Rows and attempts *)

Statuses == {"none", "pending", "accepted", "withheld", "disturbed"}

\* A candidate and the concept verified from it are one key here.  "disturbed"
\* is withheld with the code of the exception that ended its repair.
Progress == [batches : 0 .. Len(BatchEnds), outcomes : [Concepts -> Statuses],
             cardBatches : Nat, accepted : Seq(Concepts)]

NoProgress == [batches |-> 0, outcomes |-> [c \in Concepts |-> "none"],
               cardBatches |-> 0, accepted |-> <<>>]

Calls == {<<"concepts", b>> : b \in DOMAIN BatchEnds}
            \cup {<<"cards", n>> : n \in 1 .. Len(Candidates)}
            \cup {<<phase, c>> : phase \in {"repair", "support"}, c \in Concepts}

\* admits stands for selected_section_ids: the candidates in a section it names itself, on a
\* page from 1 on.  Extraction reads the sections below those as well (pipeline.ts:1065).
Row == [state : {"pending", "processing", "paused", "failed", "cancelled", "completed"},
        cancel : BOOLEAN, pause : BOOLEAN, attempts : Nat, allowed : Nat, saved : Progress,
        admits : Admissible]

\* todo is the rest of the card batch at hand, sent whether its call is out.
Attempt == [phase : {"concepts", "extracted", "cards", "check", "repair", "support", "finish"},
            sent : BOOLEAN, todo : Seq(Concepts), done : Progress]

NoAttempt == [phase |-> "none"]
NoReport == [cards |-> <<>>, withheld |-> {}, disturbed |-> {}]

TypeOK ==
    /\ fate \in [ToSet(Due) -> Fates]
    /\ answers \in [Calls -> {"none", "sent", "failed", "succeeded"}]
    /\ row \in Row
    /\ run \in Attempt \cup {NoAttempt}
    /\ deck \in BOOLEAN
    /\ report \in [cards : Seq(Concepts), withheld : SUBSET Concepts, disturbed : SUBSET Concepts]
    /\ left \in [requests : Nat, lapses : Nat, failures : Nat]

Init ==
    /\ fate \in [ToSet(Due) -> Fates]
    /\ answers = [c \in Calls |-> "none"]
    /\ \E named \in Admissible :
          row = [state |-> "pending", cancel |-> FALSE, pause |-> FALSE, attempts |-> 0,
                 allowed |-> Allowance, saved |-> NoProgress, admits |-> named]
    /\ run = NoAttempt
    /\ deck = TRUE
    /\ report = NoReport
    /\ left = [requests |-> MaxRequests, lapses |-> MaxLapses, failures |-> MaxFailures]

Running == run # NoAttempt
At(phase) == run.phase = phase
Goes(phase) == run' = [run EXCEPT !.phase = phase]
Ends == run' = NoAttempt

Uses(bound) == left[bound] > 0 /\ left' = [left EXCEPT ![bound] = @ - 1]

\* finaliseCancellation, finalisePause: a cancellation comes before a pause.
StopRequested == row.cancel \/ row.pause
Stopped(r) == [r EXCEPT !.state = IF r.cancel THEN "cancelled" ELSE "paused"]

\* failJob.
Failed(r, retryable) ==
    IF r.cancel \/ r.pause THEN Stopped(r)
    ELSE [r EXCEPT !.state = IF retryable /\ r.attempts < r.allowed THEN "pending" ELSE "failed"]

FailRun(retryable) == row' = Failed(row, retryable) /\ Ends

-----------------------------------------------------------------------------
(* An attempt begins *)

\* contentsProblem without its candidates.  No more batches than were planned, no
\* card stored twice, and the cards are those of the concepts recorded as accepted.
Coherent(saved) ==
    /\ saved.batches <= Len(BatchEnds)
    /\ saved.accepted \in Seq(Concepts) /\ IsInjective(saved.accepted)
    /\ ToSet(saved.accepted) = {c \in Concepts : saved.outcomes[c] = "accepted"}

\* checkpointFor: the progress a run will build on.  Every candidate, and with them
\* the concepts of the cards, is one validCandidate admits.
Acceptable(r) == Coherent(r.saved) /\ ToSet(Known(r.saved.batches)) \subseteq r.admits

\* Variant: the cards are taken from the checkpoint, the outcomes are not.
ResumeWithoutOutcomes(saved) ==
    [saved EXCEPT !.outcomes =
        [c \in Concepts |-> IF c \in ToSet(Known(saved.batches)) THEN "pending" ELSE "none"]]

\* The candidates, outcomes and cards a checkpoint holds; a candidate without
\* an outcome is owed one.
ResumeFrom(saved) ==
    [saved EXCEPT !.outcomes =
        [c \in Concepts |-> IF @[c] = "none" /\ c \in ToSet(Known(saved.batches))
                              THEN "pending" ELSE @[c]]]

Starts == run' = [phase |-> "concepts", sent |-> FALSE, todo |-> <<>>,
                  done |-> ResumeFrom(row.saved)]

\* Variant: an attempt is not counted when it begins.
ClaimUncounted ==
    /\ ~Running /\ row.state \in {"pending", "processing"} /\ ~StopRequested
    /\ row' = [row EXCEPT !.state = "processing"]
    /\ Starts
    /\ UNCHANGED <<fate, answers, deck, report, left>>

\* claimNextJob, and runClaimedJob up to the first batch.  A processing run
\* without an attempt has let its lease lapse.  Progress that is refused ends
\* the run: its owner is told to start another.
Claim ==
    /\ ~Running /\ row.state \in {"pending", "processing"} /\ ~StopRequested
    /\ LET counted == [row EXCEPT !.state = "processing", !.attempts = @ + 1]
       IN  IF Acceptable(row)
             THEN row' = counted /\ Starts
             ELSE row' = Failed(counted, FALSE) /\ Ends
    /\ UNCHANGED <<fate, answers, deck, report, left>>

\* recoverAbandonedStops.
SettleAbandonedStop ==
    /\ ~Running /\ row.state = "processing" /\ StopRequested
    /\ row' = Stopped(row)
    /\ UNCHANGED <<fate, answers, run, deck, report, left>>

Lapse ==
    /\ Running /\ Uses("lapses")
    /\ Ends
    /\ UNCHANGED <<fate, answers, row, deck, report>>

-----------------------------------------------------------------------------
(* Calls: attempt *)

MoreToExtract ==
    /\ run.done.batches < Len(BatchEnds)
    /\ Len(Known(run.done.batches)) < MaxConcepts

\* The call the attempt comes to next, if it is at one.
AtCall ==
    /\ Running /\ ~run.sent
    /\ \/ At("concepts") /\ MoreToExtract
       \/ run.phase \in {"cards", "repair", "support"}

Call ==
    IF At("concepts") THEN <<"concepts", run.done.batches + 1>>
    ELSE IF At("cards") THEN <<"cards", run.done.cardBatches + 1>>
    ELSE <<run.phase, Head(run.todo)>>

Decide(c, status) == [run EXCEPT !.phase = "check", !.todo = Tail(@), !.sent = FALSE,
                                 !.done.outcomes[c] = status]

\* What the attempt makes of the answer to its call, stored or new.
Answered ==
    LET c == Head(run.todo)
    IN  IF At("concepts") THEN [run EXCEPT !.phase = "extracted", !.sent = FALSE]
        ELSE IF At("cards")
          THEN [run EXCEPT !.phase = "check", !.sent = FALSE,
                           !.todo = CardBatch(run.done.batches, run.done.cardBatches + 1)]
        ELSE IF At("repair")
          THEN IF fate[c] = "mended"
                 THEN [run EXCEPT !.phase = "support", !.sent = FALSE]
                 ELSE Decide(c, "withheld")
        ELSE IF fate[c] = "refused" THEN Decide(c, "withheld")
        ELSE [Decide(c, "accepted") EXCEPT !.done.accepted = Append(@, c)]

\* assertNotStopped, where its exception reaches recordFailure: before every
\* call but a repair, and between the two paid stages.  A repair lets only a
\* cancellation through.
StopAtBoundary ==
    /\ Running /\ ~run.sent
    /\ \/ StopRequested /\ run.phase \in {"concepts", "cards", "support"}
       \/ row.cancel /\ At("repair")
    /\ row' = Stopped(row) /\ Ends
    /\ UNCHANGED <<fate, answers, deck, report, left>>

\* The catch of repairCard: a failed call, a pause and a call that needs the
\* owner's confirmation withhold the card and nothing else.
PauseInRepair ==
    /\ Running /\ At("repair") /\ ~run.sent /\ row.pause /\ ~row.cancel
    /\ run' = Decide(Head(run.todo), "disturbed")
    /\ UNCHANGED <<fate, answers, row, deck, report, left>>

\* decideDispatch: an answer that is stored is used.
Reuse ==
    /\ AtCall /\ ~StopRequested /\ answers[Call] = "succeeded"
    /\ run' = Answered
    /\ UNCHANGED <<fate, answers, row, deck, report, left>>

\* decideDispatch: a call sent by an attempt that ended before its answer.
MeetUnresolved ==
    /\ AtCall /\ ~StopRequested /\ answers[Call] = "sent"
    /\ IF At("repair")
         THEN run' = Decide(Head(run.todo), "disturbed") /\ UNCHANGED row
         ELSE FailRun(FALSE)
    /\ UNCHANGED <<fate, answers, deck, report, left>>

\* reserveBudget refuses, which a repair lets through.
FindNoBudget ==
    /\ AtCall /\ ~StopRequested /\ answers[Call] \in {"none", "failed"}
    /\ Uses("failures")
    /\ FailRun(FALSE)
    /\ UNCHANGED <<fate, answers, deck, report>>

Send ==
    /\ AtCall /\ ~StopRequested /\ answers[Call] \in {"none", "failed"}
    /\ answers' = [answers EXCEPT ![Call] = "sent"]
    /\ run' = [run EXCEPT !.sent = TRUE]
    /\ UNCHANGED <<fate, row, deck, report, left>>

\* recordSuccess.
Answer ==
    /\ Running /\ run.sent
    /\ answers' = [answers EXCEPT ![Call] = "succeeded"]
    /\ run' = Answered
    /\ UNCHANGED <<fate, row, deck, report, left>>

\* Variant: a support check that fails withholds its card, as an unsupported
\* answer does.
FailedCheckWithholds ==
    /\ Running /\ run.sent /\ Uses("failures")
    /\ answers' = [answers EXCEPT ![Call] = "failed"]
    /\ CASE At("repair") -> run' = Decide(Head(run.todo), "disturbed") /\ UNCHANGED row
         [] At("support") -> run' = Decide(Head(run.todo), "withheld") /\ UNCHANGED row
         [] OTHER -> \E retryable \in BOOLEAN : FailRun(retryable)
    /\ UNCHANGED <<fate, deck, report>>

\* The call fails, or its answer cannot be read.
CallFails ==
    /\ Running /\ run.sent /\ Uses("failures")
    /\ answers' = [answers EXCEPT ![Call] = "failed"]
    /\ IF At("repair")
         THEN run' = Decide(Head(run.todo), "disturbed") /\ UNCHANGED row
         ELSE \E retryable \in BOOLEAN : FailRun(retryable)
    /\ UNCHANGED <<fate, deck, report>>

-----------------------------------------------------------------------------
(* Concepts, cards and the report *)

\* The concepts of an extraction batch are saved, each owed an outcome.
SaveConcepts ==
    /\ Running /\ At("extracted")
    /\ LET done == ResumeFrom([run.done EXCEPT !.batches = @ + 1])
       IN  /\ row' = [row EXCEPT !.saved = done]
           /\ run' = [run EXCEPT !.phase = "concepts", !.done = done]
    /\ UNCHANGED <<fate, answers, deck, report, left>>

NextBatch(done) ==
    IF CardBatch(done.batches, done.cardBatches + 1) = <<>> THEN "finish" ELSE "cards"

\* The inventory and its coverage: no call.
PlanCards ==
    /\ Running /\ At("concepts") /\ ~run.sent /\ ~MoreToExtract /\ ~StopRequested
    /\ Goes(NextBatch(run.done))
    /\ UNCHANGED <<fate, answers, row, deck, report, left>>

\* toCandidateCard, and the two stages of verifyCard that make no call.
CheckCard ==
    /\ Running /\ At("check") /\ run.todo # <<>>
    /\ LET c == Head(run.todo)
       IN  run' = CASE fate[c] \in {"unanswered", "malformed"} -> Decide(c, "withheld")
                    [] fate[c] \in {"mended", "broken"} -> [run EXCEPT !.phase = "repair"]
                    [] OTHER -> [run EXCEPT !.phase = "support"]
    /\ UNCHANGED <<fate, answers, row, deck, report, left>>

\* Variant: the outcomes are saved, the cards are left for the end.
SaveOutcomesAlone ==
    /\ Running /\ At("check") /\ run.todo = <<>>
    /\ LET done == [run.done EXCEPT !.cardBatches = @ + 1]
       IN  /\ row' = [row EXCEPT !.saved = [done EXCEPT !.accepted = row.saved.accepted]]
           /\ run' = [run EXCEPT !.phase = NextBatch(done), !.done = done]
    /\ UNCHANGED <<fate, answers, deck, report, left>>

\* The end of a card batch.
SaveCards ==
    /\ Running /\ At("check") /\ run.todo = <<>>
    /\ LET done == [run.done EXCEPT !.cardBatches = @ + 1]
       IN  /\ row' = [row EXCEPT !.saved = done]
           /\ run' = [run EXCEPT !.phase = NextBatch(done), !.done = done]
    /\ UNCHANGED <<fate, answers, deck, report, left>>

\* dropDuplicateCards and totalsFromOutcomes.
ReportOf(done) ==
    LET cards == Kept(done.accepted)
    IN  [cards |-> cards,
         withheld |-> {c \in Concepts : done.outcomes[c] \in {"withheld", "disturbed"}}
                          \cup (ToSet(done.accepted) \ ToSet(cards)),
         disturbed |-> {c \in Concepts : done.outcomes[c] = "disturbed"}]

\* finaliseWithPublication.  A card needs the deck's row.
Publish ==
    /\ Running /\ At("finish") /\ ~StopRequested
    /\ deck \/ Kept(run.done.accepted) = <<>>
    /\ row' = [row EXCEPT !.state = "completed", !.saved = NoProgress]
    /\ report' = ReportOf(run.done)
    /\ answers' = [c \in Calls |-> "none"]
    /\ Ends
    /\ UNCHANGED <<fate, deck, left>>

\* The transaction is rolled back, and the worker records a pipeline_error.
PublishWithoutDeck ==
    /\ Running /\ At("finish") /\ ~StopRequested
    /\ ~deck /\ Kept(run.done.accepted) # <<>>
    /\ FailRun(TRUE)
    /\ UNCHANGED <<fate, answers, deck, report, left>>

StopBeforePublication ==
    /\ Running /\ At("finish") /\ StopRequested
    /\ row' = Stopped(row) /\ Ends
    /\ UNCHANGED <<fate, answers, deck, report, left>>

-----------------------------------------------------------------------------
(* The owner *)

RequestPause ==
    /\ row.state \in {"pending", "processing"} /\ ~row.pause /\ Uses("requests")
    /\ row' = [row EXCEPT !.pause = TRUE,
                          !.state = IF @ = "pending" THEN "paused" ELSE @]
    /\ UNCHANGED <<fate, answers, run, deck, report>>

RequestCancellation ==
    /\ row.state \notin {"completed", "cancelled"} /\ ~row.cancel /\ Uses("requests")
    /\ row' = [row EXCEPT !.cancel = TRUE,
                          !.state = IF @ = "processing" THEN @ ELSE "cancelled"]
    /\ UNCHANGED <<fate, answers, run, deck, report>>

\* resumeJob: its owner accepts that calls without an outcome are repeated.  Progress
\* that is refused is answered restart_required, and nothing changes.
RequestResume ==
    /\ row.state \in {"paused", "failed"} /\ Acceptable(row) /\ Uses("requests")
    /\ row' = [row EXCEPT !.state = "pending", !.pause = FALSE,
                          !.allowed = IF @ < row.attempts + Allowance
                                        THEN row.attempts + Allowance ELSE @]
    /\ answers' = [c \in Calls |-> IF answers[c] = "sent" THEN "failed" ELSE answers[c]]
    /\ UNCHANGED <<fate, run, deck, report>>

DeleteDeck ==
    /\ deck /\ Uses("requests")
    /\ deck' = FALSE
    /\ UNCHANGED <<fate, answers, row, run, report>>

-----------------------------------------------------------------------------

Work ==
    \/ Claim \/ SettleAbandonedStop
    \/ StopAtBoundary \/ PauseInRepair \/ Reuse \/ MeetUnresolved \/ Send \/ Answer
    \/ SaveConcepts \/ PlanCards \/ CheckCard \/ SaveCards
    \/ Publish \/ PublishWithoutDeck \/ StopBeforePublication

Next ==
    \/ Work
    \/ Lapse \/ FindNoBudget \/ CallFails
    \/ RequestPause \/ RequestCancellation \/ RequestResume \/ DeleteDeck

\* The poll timer and the event loop keep running, a provider call returns or
\* times out (an answer or CallFails), and a lapsed run is claimed again.
Spec == Init /\ [][Next]_vars /\ WF_vars(Work)

-----------------------------------------------------------------------------
(* Properties *)

Decided == {"accepted", "withheld", "disturbed"}

\* Whatever interrupts the run and wherever, the progress it saved holds together: the
\* cards are exactly the concepts recorded as accepted, none twice, every candidate
\* has an outcome, and every concept of a finished card batch was decided
\* (checkpoint.ts:238-290, pipeline.ts:1232-1237).  So a run refuses its own
\* progress for one reason alone: a candidate that its selection does not name itself,
\* or whose page is below 1 (StoredProgressIsAccepted).
CheckpointCoheres ==
    LET saved == row.saved
    IN  /\ TypeOK
        /\ Coherent(saved)
        /\ {c \in Concepts : saved.outcomes[c] # "none"} = ToSet(Known(saved.batches))
        /\ \A n \in 1 .. saved.cardBatches :
              \A c \in ToSet(CardBatch(saved.batches, n)) :
                  saved.outcomes[c] \in Decided

\* A run accepts the progress it stored, as a pause and a resume are said to do
\* (README.md:53).  The code refuses what it extracted from a section below a selected one
\* (checkpoint.ts:160, against pipeline.ts:1065).
StoredProgressIsAccepted == Acceptable(row)

CardsDue == Those({c \in ToSet(Due) : fate[c] \in {"good", "mended"}}, Due)

\* However many attempts a run took, its report counts every included concept
\* once, as a card or as an omission, and shows no card the models refused
\* (cards.ts:171-187, pipeline.ts:1468-1472).
ReportIsComplete ==
    row.state = "completed" =>
        LET cards == ToSet(report.cards)
        IN  /\ cards \cup report.withheld = ToSet(Due)
            /\ cards \cap report.withheld = {}
            /\ cards \subseteq ToSet(CardsDue)

\* Under a worker that keeps working, a run comes to rest: also one whose deck
\* was deleted, which fails at each publication until its attempts are used up
\* (worker.ts:123-140, queue.ts:610-612).
RunSettles == <>[](row.state \in {"completed", "failed", "cancelled", "paused"})

\* A run that was paused, lost, failed and continued, in whatever order, shows
\* the cards the same run would have shown in one go (pipeline.ts:1230-1231,
\* 1470-1472), unless a repair met an exception: those cards stay withheld
\* (pipeline.ts:1741-1750).
OnlyDisturbedRepairsShow ==
    row.state = "completed" /\ report.disturbed = {} => report.cards = Kept(CardsDue)

=============================================================================
