----------------------------- MODULE PageReading -----------------------------
(***************************************************************************)
(* The pages of one document version whose content is a picture, and the   *)
(* runs that read them: ocr.ts, readUnreadPages and the start of           *)
(* runClaimedJob in apps/worker/src/pipeline.ts.                           *)
(*                                                                         *)
(* Runs share nothing but the rows of source_blocks.  A run claims a page  *)
(* before it pays for a reading, and works afterwards from a copy of the   *)
(* document's text that it holds in memory.                                *)
(*                                                                         *)
(* An action is one statement.  A gate (assertOwned) is an action of its   *)
(* own: a process may be suspended between it and the write it guards.     *)
(*                                                                         *)
(* A definition whose comment begins "Variant:" is not part of the model:  *)
(* it is the definition that follows it with one plausible mistake in it.  *)
(***************************************************************************)
EXTENDS Integers, FiniteSets

CONSTANTS
    Pages,         \* the pages the runs selected, by their index
    OwnText,       \* those with text of their own
    Pictured,      \* those with a stored picture
    Sections,
    SectionOf,     \* the section each page lies in
    Texts, NoText, \* what a page can hold; NoText is the empty text
    Readers,       \* the worker of each process
    Runs, NoReader, NoRun,
    Stale,         \* OCR_CLAIM_STALE_MS
    PageLimit,     \* MAX_OCR_PAGES_PER_RUN
    MaxTime,       \* bound: the last moment
    MaxAttempts,   \* bound: attempts at runs
    MaxLapses      \* bound: claims lost to the clock

ASSUME PagesAssumption == /\ Pages \subseteq Nat
                          /\ OwnText \subseteq Pages /\ Pictured \subseteq Pages
                          /\ SectionOf \in [Pages -> Sections]
                          /\ Texts # {} /\ NoText \notin Texts
                          /\ NoReader \notin Readers /\ NoRun \notin Runs
                          /\ Stale \in Nat \ {0} /\ PageLimit \in Nat
                          /\ MaxTime \in Nat /\ MaxAttempts \in Nat /\ MaxLapses \in Nat

VARIABLES
    page,          \* source_blocks: the row of each page
    run,           \* each run: who has it, and the progress it has saved
    answer,        \* operation_results: each run's reading of each page
    reader,        \* what each worker is doing, and the text it works from
    now,           \* the clock
    left           \* what is left of the bounds

vars == <<page, run, answer, reader, now, left>>

\* text is raw_text, and NoText as long as the kind is image-only.  A claim is
\* known by its time.
Page == [status : {"null", "running", "succeeded", "failed", "unavailable"},
         text : Texts \cup {NoText}, started : Nat]

\* seen is the pages that had text when the progress was saved, of which its
\* fingerprint records the batch plan; done the sections whose concepts it has.
\* No section is done where no progress is saved.  sent, which no row holds, is
\* the pages an extractor was given.
Run == [owner : Readers \cup {NoReader}, state : {"open", "refused", "completed"},
        seen : SUBSET Pages, done : SUBSET Sections, sent : SUBSET Pages]
Unstarted == [owner |-> NoReader, state |-> "open", seen |-> {}, done |-> {}, sent |-> {}]

\* An answer with no words on it is the empty text.
Answers == Texts \cup {NoText}
Unasked == [status |-> "none", text |-> NoText]

Phases == {"idle", "loaded", "reading", "claiming", "claimed", "asked", "answered",
           "failed", "storing", "excusing", "extracting"}

\* todo is the planned pages not yet come to; page, started and text the one at
\* hand, the time of its claim and its reading; source the document in memory.
Reader == [phase : Phases, run : Runs \cup {NoRun}, todo : SUBSET Pages,
           page : Nat, started : Nat, text : Answers, source : [Pages -> Answers]]
Idle == [phase |-> "idle", run |-> NoRun, todo |-> {}, page |-> 0, started |-> 0,
         text |-> NoText, source |-> [p \in Pages |-> NoText]]

Init == /\ page \in [Pages -> [status : {"null"}, text : Answers, started : {0}]]
        /\ \A p \in Pages : page[p].text # NoText <=> p \in OwnText
        /\ run = [r \in Runs |-> Unstarted]
        /\ answer = [r \in Runs |-> [p \in Pages |-> Unasked]]
        /\ reader = [w \in Readers |-> Idle]
        /\ now = 0
        /\ left = [attempt |-> MaxAttempts, lapse |-> MaxLapses]

-----------------------------------------------------------------------------

At(w, phase) == reader[w].phase = phase
Become(w, c) == reader' = [reader EXCEPT ![w] = c]
Goes(w, phase) == Become(w, [reader[w] EXCEPT !.phase = phase])

\* The claim on the run, which JobQueue is about.
Owns(w) == reader[w].run \in Runs /\ run[reader[w].run].owner = w

\* A page no run has read, and no reader who is presumed alive is reading.
Available(p) == /\ page[p].text = NoText
                /\ \/ page[p].status \in {"null", "failed"}
                   \/ page[p].status = "running" /\ page[p].started + Stale <= now

Written(source) == {p \in Pages : source[p] # NoText}

\* planConceptBatches and batchPlanIdOf: the plan's identity is the sections that
\* have text, by their page ranges.  A batch is one of them here; the code puts
\* neighbours together up to a number of characters.
PlanOf(pages) == {SectionOf[p] : p \in pages}

-----------------------------------------------------------------------------
(* An attempt at a run, and its reading phase.                             *)

\* loadStoredSource.
LoadSource == [p \in Pages |-> page[p].text]

\* A worker claims a run, and loads its document.  An owner who resumes the run
\* may have accepted the calls of it that are unresolved.
Start(w, r) ==
    /\ At(w, "idle") /\ run[r].state = "open" /\ run[r].owner = NoReader
    /\ left.attempt > 0
    /\ left' = [left EXCEPT !.attempt = @ - 1]
    /\ run' = [run EXCEPT ![r].owner = w]
    /\ \/ UNCHANGED answer
       \/ answer' = [answer EXCEPT ![r] =
              [p \in Pages |-> IF @[p].status = "dispatched" THEN Unasked ELSE @[p]]]
    /\ Become(w, [Idle EXCEPT !.phase = "loaded", !.run = r, !.source = LoadSource])
    /\ UNCHANGED <<page, now>>

\* planPageOcr: as many pictures as the limits allow; the limits on bytes may
\* leave any of them for another run.  A page with nothing to read is marked.
Plan(w) ==
    /\ At(w, "loaded")
    /\ \E chosen \in SUBSET {p \in Pictured : Available(p)} :
          /\ Cardinality(chosen) <= PageLimit
          /\ Become(w, [reader[w] EXCEPT !.phase = "reading", !.todo = chosen])
    /\ page' = [p \in Pages |->
          IF p \notin Pictured /\ page[p].text = NoText /\ page[p].status = "null"
          THEN [page[p] EXCEPT !.status = "unavailable"] ELSE page[p]]
    /\ UNCHANGED <<run, answer, now, left>>

\* assertNotStopped and assertOwned, before the next page.
NextPage(w) ==
    /\ At(w, "reading") /\ Owns(w)
    /\ \E p \in reader[w].todo :
          /\ \A q \in reader[w].todo : p <= q
          /\ Become(w, [reader[w] EXCEPT !.phase = "claiming", !.page = p,
                                         !.todo = @ \ {p}])
    /\ UNCHANGED <<page, run, answer, now, left>>

\* Variant: the plan found the page available, so the claim is not conditional.
ClaimPlannedPage(w) ==
    /\ At(w, "claiming")
    /\ LET p == reader[w].page IN
          \/ /\ page[p].text = NoText
             /\ page' = [page EXCEPT ![p].status = "running", ![p].started = now]
             /\ Become(w, [reader[w] EXCEPT !.phase = "claimed", !.started = now])
          \/ page[p].text # NoText /\ Goes(w, "reading") /\ UNCHANGED page
    /\ UNCHANGED <<run, answer, now, left>>

\* claimOcrPage.  A page that was lost to another run is left alone.
ClaimPage(w) ==
    /\ At(w, "claiming")
    /\ LET p == reader[w].page IN
          \/ /\ Available(p)
             /\ page' = [page EXCEPT ![p].status = "running", ![p].started = now]
             /\ Become(w, [reader[w] EXCEPT !.phase = "claimed", !.started = now])
          \/ ~Available(p) /\ Goes(w, "reading") /\ UNCHANGED page
    /\ UNCHANGED <<run, answer, now, left>>

\* attempt, as far as the call: an answer the run has is used again.  Refusals of
\* the budget, unresolved calls and a lost claim are Leave.
Ask(w) ==
    /\ At(w, "claimed") /\ Owns(w)
    /\ LET r == reader[w].run  p == reader[w].page IN
          \/ /\ answer[r][p].status = "succeeded"
             /\ Become(w, [reader[w] EXCEPT !.phase = "answered", !.text = answer[r][p].text])
             /\ UNCHANGED answer
          \/ /\ answer[r][p].status = "none"
             /\ answer' = [answer EXCEPT ![r][p].status = "dispatched"]
             /\ Goes(w, "asked")
    /\ UNCHANGED <<page, run, now, left>>

\* recordSuccess or recordOperationFailure: gated on the claim.
Record(w, result) ==
    answer' = IF Owns(w) THEN [answer EXCEPT ![reader[w].run][reader[w].page] = result]
                         ELSE answer

\* The provider reads the picture; two readings of one picture may differ.
Receive(w) ==
    /\ At(w, "asked")
    /\ \E t \in Answers :
          /\ Record(w, [status |-> "succeeded", text |-> t])
          /\ Become(w, [reader[w] EXCEPT !.phase = "answered", !.text = t])
    /\ UNCHANGED <<page, run, now, left>>

\* The call fails, or its answer cannot be used.
FailCall(w) ==
    /\ At(w, "asked")
    /\ Record(w, Unasked)
    /\ Goes(w, "failed")
    /\ UNCHANGED <<page, run, now, left>>

\* assertOwned, before either outcome is written.
RenewForStore(w) ==
    /\ At(w, "answered") \/ At(w, "failed")
    /\ IF Owns(w) THEN Goes(w, IF At(w, "answered") THEN "storing" ELSE "excusing")
                  ELSE Become(w, Idle)
    /\ UNCHANGED <<page, run, answer, now, left>>

\* The page is still under the claim this worker took on it.
StillClaimed(w) == LET p == reader[w].page IN
                   page[p].status = "running" /\ page[p].started = reader[w].started

Keep(w, t) == Become(w, [reader[w] EXCEPT !.phase = "reading",
                             !.source[reader[w].page] = IF t = NoText THEN @ ELSE t])

\* Variant: the answer this run paid for is the one it works from.
StoreOwnReading(w) ==
    /\ At(w, "storing")
    /\ page' = IF StillClaimed(w)
               THEN [page EXCEPT ![reader[w].page].status = "succeeded",
                                 ![reader[w].page].text = reader[w].text]
               ELSE page
    /\ Keep(w, reader[w].text)
    /\ UNCHANGED <<run, answer, now, left>>

\* storeOcrRead or storeOcrEmpty, and applyOcrReading.  Where the page is somebody
\* else's by now, what it holds is taken (readPageReading), if it holds anything.
StoreReading(w) ==
    /\ At(w, "storing")
    /\ LET p == reader[w].page IN
          \/ /\ StillClaimed(w)
             /\ page' = [page EXCEPT ![p].status = "succeeded", ![p].text = reader[w].text]
             /\ Keep(w, reader[w].text)
          \/ ~StillClaimed(w) /\ Keep(w, page[p].text) /\ UNCHANGED page
    /\ UNCHANGED <<run, answer, now, left>>

\* storeOcrFailure.  The run carries on without the page.
StoreFailure(w) ==
    /\ At(w, "excusing")
    /\ page' = IF StillClaimed(w) THEN [page EXCEPT ![reader[w].page].status = "failed"]
                                  ELSE page
    /\ Goes(w, "reading")
    /\ UNCHANGED <<run, answer, now, left>>

-----------------------------------------------------------------------------
(* What the run makes of the text.                                         *)

\* The plan is made from the text; saved progress of another plan is refused, and
\* the run with it (restart_required).
FinishReading(w) ==
    /\ At(w, "reading") /\ reader[w].todo = {} /\ Owns(w)
    /\ LET r == reader[w].run
           moved == /\ run[r].done # {}
                    /\ PlanOf(run[r].seen) # PlanOf(Written(reader[w].source)) IN
          \/ ~moved /\ Goes(w, "extracting") /\ UNCHANGED run
          \/ /\ moved /\ Become(w, Idle)
             /\ run' = [run EXCEPT ![r].state = "refused", ![r].owner = NoReader]
    /\ UNCHANGED <<page, answer, now, left>>

Remaining(w) == PlanOf(Written(reader[w].source)) \ run[reader[w].run].done

\* A batch of concepts is extracted, and the progress saved.  The code takes the
\* batches in order; here any that is left may be next.
Extract(w) ==
    /\ At(w, "extracting") /\ Owns(w)
    /\ \E s \in Remaining(w) :
          LET r == reader[w].run  pages == Written(reader[w].source) IN
          run' = [run EXCEPT ![r].seen = pages, ![r].done = @ \cup {s},
                             ![r].sent = @ \cup {p \in pages : SectionOf[p] = s}]
    /\ UNCHANGED <<page, answer, reader, now, left>>

\* finaliseWithPublication, which deletes the run's results.
Publish(w) ==
    /\ At(w, "extracting") /\ Owns(w) /\ Remaining(w) = {}
    /\ run' = [run EXCEPT ![reader[w].run].state = "completed",
                          ![reader[w].run].owner = NoReader]
    /\ answer' = [answer EXCEPT ![reader[w].run] = [p \in Pages |-> Unasked]]
    /\ Become(w, Idle)
    /\ UNCHANGED <<page, now, left>>

\* The attempt ends for a reason of the run's own: a stop, the budget, a call that
\* needs confirmation, an error, a claim found lost.  The page at hand is left as
\* it is.  The run can be continued.
Leave(w) ==
    /\ \E phase \in {"reading", "claimed", "extracting"} : At(w, phase)
    /\ run' = IF Owns(w) THEN [run EXCEPT ![reader[w].run].owner = NoReader] ELSE run
    /\ Become(w, Idle)
    /\ UNCHANGED <<page, answer, now, left>>

-----------------------------------------------------------------------------
(* Time and faults.                                                        *)

\* A worker's lease on its run runs out; it is not told.
Lapse(r) == /\ left.lapse > 0 /\ run[r].owner # NoReader
            /\ left' = [left EXCEPT !.lapse = @ - 1]
            /\ run' = [run EXCEPT ![r].owner = NoReader]
            /\ UNCHANGED <<page, answer, reader, now>>

\* A worker's process dies and is started again; its lease runs out by itself.
Crash(w) == /\ ~At(w, "idle")
            /\ run' = IF Owns(w) THEN [run EXCEPT ![reader[w].run].owner = NoReader] ELSE run
            /\ Become(w, Idle)
            /\ UNCHANGED <<page, answer, now, left>>

Tick == now < MaxTime /\ now' = now + 1 /\ UNCHANGED <<page, run, answer, reader, left>>

ReadPage(w) == \/ NextPage(w) \/ ClaimPage(w) \/ Ask(w) \/ Receive(w) \/ FailCall(w)
               \/ RenewForStore(w) \/ StoreReading(w) \/ StoreFailure(w)

Next == \/ \E w \in Readers : \/ \E r \in Runs : Start(w, r)
                              \/ Plan(w) \/ ReadPage(w) \/ FinishReading(w)
                              \/ Extract(w) \/ Publish(w) \/ Leave(w) \/ Crash(w)
        \/ \E r \in Runs : Lapse(r)
        \/ Tick

Spec == Init /\ [][Next]_vars

-----------------------------------------------------------------------------
(* Properties.                                                             *)

TypeOK == /\ page \in [Pages -> Page]
          /\ run \in [Runs -> Run]
          /\ answer \in [Runs -> [Pages -> [status : {"none", "dispatched", "succeeded"},
                                            text : Answers]]]
          /\ reader \in [Readers -> Reader]
          /\ now \in Nat
          /\ left \in [attempt : Nat, lapse : Nat]

\* Once a page is read it keeps that reading, and a picture found to have no words
\* stays found so, however late another answer, another failure or another plan
\* comes to it (storeOcrRead, storeOcrEmpty, storeOcrFailure).
FirstReadingIsKept ==
    [][\A p \in Pages : page[p].status = "succeeded" => page'[p] = page[p]]_vars

\* The text a run works from is the text the document holds: no card cites words
\* that are not in the page, whoever read it (applyOcrReading, readPageReading).
RunWorksFromTheRow ==
    \A w \in Readers : \A p \in Pages :
        reader[w].source[p] # NoText => reader[w].source[p] = page[p].text

\* Two runs pay for readings of one page at once only when the claim of the first
\* was stale before the second began (claimOcrPage).
OneReadingAtATime ==
    \A v, w \in Readers :
        /\ v # w /\ reader[v].page = reader[w].page
        /\ reader[v].phase \in {"claimed", "asked"}
        /\ reader[w].phase \in {"claimed", "asked"}
        => \/ reader[v].started + Stale <= reader[w].started
           \/ reader[w].started + Stale <= reader[v].started

\* A run refuses the progress it saved only where a page that had no text then has
\* some now: one whose pages were all settled can always be continued
\* (runClaimedJob).
OnlyNewTextStrandsARun ==
    \A r \in Runs : run[r].state = "refused" =>
        \E p \in Pages : page[p].text # NoText /\ p \notin run[r].seen

\* "a reading that arrives after the plan was made would either be sent to nobody
\* or shift the plan" (readUnreadPages): by the time a run is published, every page
\* with text that it works from has been sent to an extractor.
EveryReadingIsSent ==
    \A w \in Readers : At(w, "extracting") /\ Owns(w) /\ Remaining(w) = {} =>
        Written(reader[w].source) \subseteq run[reader[w].run].sent
=============================================================================
