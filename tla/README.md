# A verification project for JevDeck

JevDeck turns documents into flashcard decks. A web client reads a file and uploads
its text; a Node server (`apps/api`) keeps everything in one SQLite file; a worker
(`apps/worker`), in the API process or in processes of its own, runs the generation
jobs: it sends paid calls to model providers, saves what each call returned, and
publishes the cards at the end. The cards are studied on a spaced schedule, and a deck
can be lent to other accounts. This directory holds TLA+ models of the parts of that
program whose correctness is hard to see and hard to test, the TLC instances that check
them, and TLAPS proofs.

## 1. Inventory

Paths are relative to `src/`.

| Component | State it keeps | Operations | Models |
|---|---|---|---|
| Job queue: `apps/worker/src/queue.ts` | `generation_jobs` rows: state, attempts, claim (worker_id, claim_epoch, lease_expires_at), stop requests, checkpoint, configuration columns | enqueue, claim, renew, finalise, fail, cancel, pause, resume, refuse, recover abandoned stops | `JobQueue` |
| Worker loop: `worker.ts`, `run.ts`; API shutdown: `apps/api/src/index.ts` | which job, if any, is running | poll, run one job, start, stop | `JobQueue` |
| Run pipeline: `pipeline.ts`, `cards.ts` | in memory: progress, attempt, heartbeat; in the row: the checkpoint | read the pages, extract, choose, generate, check, repair, save, stop at a boundary, publish, record failures | `RunPipeline` (its stages), `JobQueue` (its accesses to the row), `PaidCalls` (one call), `PageReading` (the pages) |
| Paid calls: `operations.ts`, `attempt()` in `pipeline.ts` | `operation_results`: per logical call dispatched / succeeded / failed / unusable / superseded | decide, reserve, dispatch, settle, record, reuse, supersede on resume | `PaidCalls` |
| Provider transports: `packages/providers` | none | send, time out, read status and usage, say what may have been billed | `Transport` |
| Budget and ledger: `budget.ts`, `routes/admin.ts` | `budget_reservations`, `usage_records`, `budget_incidents`, `budget_policies`, a limit on each user | reserve, settle, release, mark uncertain, reconcile, set limits; estimate and price a call | `Budget`, `Pricing` |
| Checkpoint compatibility: `checkpoint.ts` | none (pure) | parse, compare fingerprints, check coherence | `JobQueue!Incompatible`, `RunPipeline!Coherent` and `Acceptable` |
| Page reading: `ocr.ts`, `readUnreadPages` in `pipeline.ts` | `source_blocks`: per-page claim and text; in memory: a copy of the text | plan, claim, read, store, find empty, give up | `PageReading` |
| Ingestion: `packages/ingestion`, `pdfParser.ts`, `source.ts`, `batches.ts`, `readReport.ts` | none (pure); `documents`, `document_sections`, `source_blocks`, media once stored | sections of a document, kinds of pages, pictures, counts; the selection and the batches made of it | `Outline`, `Extraction` |
| Concepts, validation, duplicates: `packages/generation`, `packages/validation`, `cards.ts` | none (pure) | dedupe, validate structure and claim, drop duplicates | `CardRules` (the decisions), `RunPipeline` (their place in a run) |
| Accounts, invitations, sessions: `apps/api/src/auth`, `routes/public.ts` | users, sessions, invitations, login attempts | bootstrap, invite, accept, revoke, log in and out, disable, expire | `Accounts` |
| Documents, decks, sharing: `routes/resources.ts` | documents, decks, cards, deck_shares | upload, make a deck, share, revoke, delete, read | `Library` |
| Study: `packages/scheduling`, `routes/resources.ts`, `study/accounting.ts` | review_events, user_card_state | review, cram, undo, suspend; the allowance and the queue of a day | `Study` on `Library`, `StudyQueue` |
| Migrations, backup, restore: `apps/api/src/db` | schema_migrations, the database file and its log, backups | migrate at start, back up, restore, verify | `Storage` |
| Web client: `App.tsx`, `useSession.ts` | the deck, pages, original, cards and run on screen | open, upload, generate, follow, delete | `Workspace` (and the selection in `Outline`, the session of a day in `StudyQueue`) |
| HTTP dispatch, Anki export, evaluation reports | – | – | not modelled: section 7 |

**How they interact.** The API routes and the workers share nothing but the
database. A route inserts a job; a worker polls, claims it with a conditional
UPDATE, and from then on every write it makes names its claim (worker id, epoch,
live lease). The owner's stop requests are columns of the same row, which the
worker reads at its boundaries. Money moves in the same database: a hold before a
call, a settlement after it. There is no lock beside SQLite's own, and no message. The
client talks to the API alone, and polls.

**What is hard.** Two processes read and then write the same row; a process is
suspended past its lease and carries on; a process dies between a provider's
answer and the statement that records it; a stop request arrives in any of those
gaps; a resume is asked of a run that is being claimed; what was paid for must
survive all of it without being paid for again in silence. A handler awaits a body or a
password hash between what it read and what it writes; a screen awaits an answer while
another deck is opened; two processes migrate one file. And several rules written in
different packages must agree on the same document: what is selected, planned, counted
and sent. `PROJECT.json` lists these hazards at their lines, with the properties that
cover them.

What makes each component correct, in a sentence:

- **Queue**: a run is in one worker's hands at a time, keeps the progress that was
  paid for, is published once, and ends where its owner or its own outcome put it.
- **Pipeline**: progress a run stored holds together, so that it can be built on, and its
  report accounts for every concept once, as if nothing had interrupted it.
- **Paid calls**: a request the provider may have billed stays counted until a person
  says otherwise, is not repeated in silence, and a stored answer is not paid for again.
- **Budget**: a cap is passed only by an overspend that is on record, and the ledger
  says what the holds say.
- **Page reading**: a page is read by one reader at a time and keeps its first good reading.
- **Ingestion**: what is ticked is what is sent, once, and every count of the same pages agrees.
- **Cards**: a card is judged by the sentence it cites, and no fact is lost to a duplicate.
- **Accounts**: an invitation makes at most one account, and what is spent stays spent.
- **Sharing**: the newest share decides, and nothing of a deck outlives it.
- **Study**: a schedule is what the remaining reviews explain, and a day keeps its limits.
- **Migrations, backup**: every process serves one schema, applied once, and a restore that
  ends leaves the backup's contents.
- **Screen**: at rest it shows one deck.

## 2. Plan

The order is that of what a failure would cost: the run and its money first.

| Step | Modules | Composition | State |
|---|---|---|---|
| 1 | `JobLife`, `JobQueue` | `JobQueue` implements `JobLife` | done, proved |
| 2 | `Budget`, `Pricing` | | done, proved |
| 3 | `PaidCalls` | instantiates `JobLife` for the run's row and `Budget` for the money | done, proved |
| 4 | `PageReading` | | done, proved |
| 5 | `RunPipeline`: every stage of a run, with stops, failures, lost attempts, resumes, a deck deleted under it | | done, proved |
| 6 | `Accounts` | | done, proved |
| 7 | `Library`, `Study` | `Study` extends `Library` | done, proved |
| 8 | `Storage` | | done, proved |
| 9 | `Workspace` | | done, proved |
| 10 | `Outline`, `Extraction`, `CardRules`, `StudyQueue`, `Transport` | `Rules` extends them, `Pricing` and `Storage` | done, proved |

"Proved" is said of the safety properties the runs check: all of them are. Liveness stays with
TLC. Left: `RunPipeline` could be shown to implement `JobLife`; today the two meet through
`JobQueue`, whose abstraction of a batch is a whole stage here.

## 3. What models what

An action is one SQL statement, or one immediate transaction: that is what SQLite
makes atomic. Between two of them another *process* may run. Inside a process a
synchronous handler runs to its end, so a worker that shares the API's process cannot
come between two statements of a route: `InApi` and the guards `Scheduled` and
`ApiScheduled` say so. Two deployments follow, and the runs on the queue are about one or the
other:

- **one process**: the worker lives in the API (the default of
  `docker-compose.yml`): `Workers = InApi = {w1}`;
- **two processes**: `JEVDECK_WORKER_ENABLED=false` and a worker service (`run.ts`),
  any number of them: `InApi = {}`.

Routes that never touch a job run in one API process: there an action is what happens
between two awaits (`Accounts`, `Library`, `Study`).

Definitions marked *Variant:* are not part of the model. Each is the definition after
it with one plausible mistake in it; put in its place, it violates the property
`PROJECT.json` pairs it with.

### JobQueue

State: `job[j]`, a row of `generation_jobs` (a nullable timestamp is a flag, the lease
is the time left on it, the checkpoint is the number of its batches and its
fingerprint); `worker[w]`, what a process remembers: the claim (`job`, `epoch`), the
progress, and between two statements what the first one read; `api`, the request the
API is in the middle of; `stalled`, processes the machine does not schedule.

| Code | Actions |
|---|---|
| `claimNextJob`, `recoverAbandonedStops` | `Poll` (SELECT), `RecoverAbandonedStop` (each UPDATE), `SelectCandidate` (SELECT), `Claim` (UPDATE) |
| `runClaimedJob`: checkpoint, provider, batches | `LoadCheckpoint`, `RecordProvider`, `StopAtBoundary`, `DispatchCall`, `SaveCheckpoint` |
| `startHeartbeat` / `renewLease` | `Heartbeat` |
| `failJob`, `recordFailure`, stops found at a boundary | `Fail` or the raising step decides `plan`, `Settle` is the UPDATE |
| `finaliseWithPublication` | `Finalise` |
| generate route, `recordJobRefusal` | `Enqueue`, `RecordRefusal` |
| `requestCancellation`, `requestPause`, `resumeJob` | `RequestX` (SELECT), then `CancelOutright`, `PauseOutright`, `FlagX`, `ResumeWrite` (UPDATE) |
| shutdown, container restart, suspension, time | `CrashWorker`, `CrashApi`, `Restart`, `Stall`, `Wake`, `Tick` |

Folded, and why it loses nothing. `requireJob` re-reads the row after the claim: the
claim's own result is used, and what others may change in it (the stop requests) is read
again at the boundary where it is acted on. The SELECT of
`failJob` is part of the step that raised the error: both run without an await. The
reads of `assertNotStopped` and the renewal of `assertOwned` are one step, for the same
reason within a process; across processes a stop that lands between them is seen at the
next boundary. The calls of one batch are one call: their own steps are `PaidCalls`'.
The calls of the reading phase are part of the phase. The flag `Heartbeat.lost` is left
out: it shortens the time to the next refusal, and `RefusedClaimStaysRefused` says that
refusal is certain. The renewal before `finaliseWithPublication` is a `Heartbeat`. The
columns that identify the rules of a checkpoint are judged at `LoadCheckpoint`. `now` is
read just before the statement that uses it. The second UPDATE of `resumeJob` and the
deletion of `operation_results` belong to `PaidCalls`.

### JobLife

What a run promises without any of that machinery: submitted, begun, advanced,
retried, stopped, resumed, cancelled, published, one run at a time. `JobQueue!Lives`
instantiates it with the mapping `LifeOf` (a failure that is no cancellation, and a pause,
are both a life that has *stopped*).

### Budget and Pricing

`Budget` has `budget_reservations` (`hold`), the sums of the append-only tables per
hold (`ledger`, `over`), the caps and the month. `Reserve`, `SettleCall`, `Reconcile`,
`SetInstallationLimit`, `SetUserLimit` and `NextPeriod` are transactions of `budget.ts`,
`admin.ts` and `users.ts`, each atomic, taken by any process. `Pricing` has the integer
arithmetic of a hold and a charge; `Million`, a literal of the code, is a constant there so
that TLC can make roundings happen on small numbers.

### PaidCalls

One run, its operations in order, and every statement of `attempt()` between the
decision about a call and its end. The row is a `JobLife` life with a flag `live` for the
lease: what `JobQueue` is proved to implement. The money is `Budget`'s. The gate of
`operations.ts` is two statements (`renewLease`, then the write it guards), so it is two
actions (`RenewForDispatch`/`RecordDispatch`, `RenewForResult`/`StoreResult`).
`bill[h]` is the one thing no table holds: what the provider makes of the request sent
under hold `h`. `unsent`, then `open` once sent, then `billed` or `free`; an error whose
billing is unknown leaves it open. Calls of a run are sequential in the code, and here.

| Code | Actions |
|---|---|
| `decideDispatch`, `markDispatchUncertain`, `ChargeConfirmationRequiredError` | `Decide`, `MarkUncertain` |
| `reserveBudget`, `BudgetExceededError` | `TakeHold`, `RefuseHold` |
| `recordDispatch`, and the hold of a call not sent | `RenewForDispatch`, `RecordDispatch`, `ReleaseHold` |
| the provider | `Answer`, `FailCall` with `outcomeForBilling` |
| settlement, `recordSuccess`, `recordOperationFailure` | `SettleAnswer`, `RenewForResult`, `StoreResult`, `SettleFailure` |
| `resumeJob`'s two UPDATEs | `Resume`, `Supersede` |
| claim, end, stop, recovery, publication | `ClaimRun`, `EndAttempt`, `StopRun`, `Recover`, `Publish` |
| admin reconciliation | `Reconcile` |
| time and faults | `Lapse`, `Crash`, `CrashApi`, `Restart` |

### PageReading

`page[p]` is the row of a page in `source_blocks` (`text` is `raw_text`, empty as long as the
kind is image-only; a claim is known by its time, as in the code), `run[r]` who has the run and
the progress it saved, `answer` its rows of `operation_results`, and `reader[w]` what a worker
is doing with which page, with `source`, the copy of the document it works from.

| Code | Actions |
|---|---|
| `runClaimedJob`: load the source; make the plan, compare fingerprints; extract; publish | `Start`, `FinishReading`, `Extract`, `Publish` |
| `planPageOcr`, `storeOcrUnavailable` | `Plan` |
| loop of `readUnreadPages`: gate, `claimOcrPage`, call, gate | `NextPage`, `ClaimPage`, `Ask`, `Receive` or `FailCall`, `RenewForStore` |
| `storeOcrRead`, `storeOcrEmpty`, `applyOcrReading`, `readPageReading` | `StoreReading` |
| `storeOcrFailure` | `StoreFailure` |
| errors that are about the run | `Leave` |
| time and faults | `Lapse`, `Crash`, `Tick` |

What is simpler than the code. `PageLimit` is the page limit, and the limits on bytes may leave
any picture out, so a plan is any small enough set of available pictures. A batch is a section
(the code packs neighbours together up to a number of characters, which changes neither
which sections have text nor the identity of the plan where the packing is the same), and the
batches may come in any order. The claim on the run, its settlement and its resume are
`JobQueue`'s: here it has an owner or none. What a call costs is `PaidCalls`'; `Start` may
have been preceded by a resume that accepts unresolved calls. The cap on concepts
(`MAX_CONCEPTS`), which can end extraction early, is left out.

### RunPipeline

State: `fate[c]`, what the models say of a concept (chosen once: the same request gets the
same answer); `answers`, the run's rows of `operation_results`; `row`, its row with the
checkpoint and with `admits`, the concepts whose section its selection names; `run`, what the
attempt has in memory; `deck`; `report`, what a finished run shows. An attempt goes through the phases `concepts`, `extracted`, `cards`, `check`,
`repair`, `support`, `finish`.

| Code | Actions |
|---|---|
| claim, contents of the checkpoint | `Claim` (`Acceptable`), `SettleAbandonedStop` |
| extraction batch | `Send`, `Answer`, `SaveConcepts` |
| inventory and coverage | `Included`, `PlanCards` |
| card batch, `verifyCard`, `repairCard` | `CheckCard`, `Send`, `Answer`, `PauseInRepair`, `SaveCards` |
| `decideDispatch`, `reserveBudget`, errors | `Reuse`, `MeetUnresolved`, `FindNoBudget`, `CallFails` |
| stops, publication | `StopAtBoundary`, `StopBeforePublication`, `Publish`, `PublishWithoutDeck` |
| the owner, faults | `RequestPause`, `RequestCancellation`, `RequestResume`, `DeleteDeck`, `Lapse` |

Two things make progress acceptable. It is `Coherent`: cards and outcomes say the same. And
`validCandidate` admits each of its concepts, which it does by the selection as the row has it,
while extraction reads the expanded one. `row.admits` is therefore any of the sets in
`Admissible`: all concepts where the selection names every section it reaches, fewer where only a
chapter is ticked, none where nothing is. `JobQueue`, `PaidCalls` and `PageReading` are about
selections of the first kind.

Left out: the reading phase (`PageReading`) and its report, the settings of a run kept for
display, and wording. A repair that meets an exception is *disturbed*: the model says which
cards, because section 6 is about them. A loop that keeps the first of what reads alike
(concepts of the inventory, accepted cards) is `Firsts`, a function from the number of items seen to
what was kept of them.

### Accounts

State: rows of users and invitations, the count of open sessions and of recent failures of
each address, and `requests`, handlers that wait for a body or a hash, with what they read before.
`BeginX` is a handler up to its await, `FinishX` the rest; a handler that never waits after its
first read is one action. Tokens, cookies and origins are taken to be right.

### Library and Study

`Library` has documents, decks, shares (a sequence, oldest first), share requests whose body is
awaited, cards, and disabled accounts; `Study` adds review events and `user_card_state` per
account and card. `DELETE` of a deck is one action with its cascades (`Cascade`). A review
writes an event and the schedule; `Undo` deletes the newest event and replays the rest
(`Replayed`, the last value of `ScheduleAfter`). Days stand for instants.

### Workspace

State: what is on each part of the screen, each with the deck it was read for; the refs an effect
sets after a render (`Render`); the handlers in flight, each at the request it awaits. An action is
what a handler does between two awaits; a request may fail at any of them (`Fail`). The history
variable `raced` names the races after which a mixed screen is possible, so that the property
says that there are no others. The kinds of decks (own, lent, lent for study, yet to upload) exclude each
other: a deck belongs to one account, and a share has its source or not.

### Storage

State: the rows of `schema_migrations` and how often each migration ran, where each process stands
in its start, the main file, the write-ahead log beside it (with the contents it was written over),
the backup and the restore tool. A migration is one immediate transaction; a restore is check, copy,
remove the log, verify, and may be cut short between them. Assumed: the server is stopped during a
restore, the backup has the same migrations, and contents are the number of writes committed.

### Rules, and the rules

Pure code, each question asked and answered: `Outline` (a reader's outline or headings to
sections, stored rows, the expanded selection, scopes, batches), `Extraction` (kinds of pages,
pictures, what reading them changes, four places that count pages, figures matched with
citations), `CardRules` (structure, support, judge, duplicates), `StudyQueue` (the queue and the
allowances of a day, with the reviews that change them), `Transport` (what an exchange with a
provider says about its bill and its retry). Their inputs are finite sets that `MCRules` enumerates
whole. A card of `StudyQueue` has the schedule the screen holds, which is not the server's: the answer
to an undo changes it (`UndoReview`, of the newest review of a card), and opening the deck again
replaces it (`Reopen`); `unstudied` and `today` are what the server counts with.
`Rules` puts them side by side: a behaviour is about one subject, and `Pricing`,
`StudyQueue` and `Storage` take steps of their own in it. It composes nothing: it is
where they are checked.

Recursions of the code are recursive functions over the places of a sequence, and its sorts the one
sequence that is in order (`InOrder`: each order is total, by its last key). A chain of early returns is
an IF chain, since the value of a CASE whose arms overlap is not determined by their order. `Rules`
assumes of the inputs what the code that makes them sees to: an entry of an outline is on a page of
its document or on none, headings are on pages in reading order (`text.ts` makes both as it walks
the pages), a file has one of the five formats and shows
pictures it contains, a page has finitely many figures, a card cites sentences of its page.

What is given and not modelled: which texts are alike, negated, cited or quantities; file formats.

## 4. What the runs show

All finish in under five minutes with two workers. A passing run explores its whole
state space; a run that expects a violation ends at its trace.

| Run | Instance | Question |
|---|---|---|
| `two_processes` | 1 job, 2 workers of the same id and different rules, 2 batches, 2 faults, 3 requests | Do claims exclude each other, is progress kept and never mixed, is publication once and final, whatever two processes do to one row? Does the run live as `JobLife` says? |
| `one_process` | 2 jobs, 1 worker in the API, refusals, 1 fault, 4 requests, fair | Do the promises that two processes break hold in the default deployment? Is every stop honoured, does every run settle? |
| `caps` | 2 accounts, 3 holds, 2 months | Do ledger, holds, caps and incidents agree through every settlement? |
| `paid_two_processes` | 1 call, 2 workers, 3 holds, cap 3, 1 crash, 2 lapses, 2 requests | Is what may be billed counted, is a stored answer kept, is no hold left behind until a process dies? |
| `shared_pages` | 2 runs, 2 readers, 2 scans and a page without a picture, claims stale after 2 ticks, 3 attempts, 1 lost lease, any number of crashes | Is a page read by one at a time, and is what a run works from what the page holds? |
| `accounts` | 2 addresses, 2 invitations, 2 requests in flight, throttle of 1, 1 session each | Does an invitation make one account, does a spent one stay spent? |
| `pipeline` | 6 concepts in 3 extraction and 2 card batches, one unverified, one restated, two cards alike, 5 of the 6 fates, a selection that names all sections or those of the first batch, 3 requests, 1 lost attempt, 1 failure, allowance of 2 | Does stored progress hold together, is the report complete, does interruption change it, does the run come to rest? |
| `library` | an owner with 2 decks of 1 document, a reader, 1 card, 3 days, 3 reviews | Does the newest share decide, does nothing outlive its deck, is a schedule its history, is a card introduced once? |
| `screens` | 5 decks of four kinds, 4 handlers | Does the screen at rest show one deck, outside the races it names? |
| `rules` | every document of 3 pages and up to 3 entries, file of 3 pages with 2 pictures, card on a page of 2 sentences, deck of 4 cards, exchange with a provider, price 0–9 per 4 tokens; days of 3 cards; 2 starting processes, 2 migrations, 2 writes, 2 deaths | Do rules written in different places agree? |
| `silent_repeat` | `paid_two_processes` with one price, no cap and a third request | Is a call repeated without the owner's word? Yes: section 6 |
| `child_section` | `pipeline` with a selection that names the first batch alone | Does a run accept what it stored? No: section 6 |

**Bounds, and why they are enough.** Every hazard of a row is a race of at most two
claimants, or of a claimant and a route, so one job and two workers reach it; two jobs
matter only to the order of claiming and to a failure that blocks the queue, which
`one_process` has. Two batches tell a repeated batch from a skipped one. Two faults are
enough to lose a lease and die under the next; three requests to submit, pause and
resume (or cancel). A lease of two ticks can be renewed, or half gone, or gone. Three holds
are two attempts and a bystander. A page is contested by two readers, and its claim goes stale once
within the clock; a third attempt is a continuation that meets what the first two left, and the
page without a picture is what a plan marks.

An acceptance races another of the same invitation, one of another invitation for the same
address, a revocation or an expiry: two rows and two requests have all of them. Three
extraction batches have one that fails between two others, and one past `MAX_CONCEPTS`; two card
batches have one done before the interruption and one after; a selection that names the first
extraction batch alone leaves concepts below it; the sixth fate of a concept
(`malformed`) takes the very steps of `unanswered`. Three requests stop, continue
and stop again. Two decks of one document are what makes an older share matter; three reviews
reach the interval that depends on the ease, and an undo between two others. Four handlers are two
that overlap, one that follows, and the run; a fifth meets a screen that four have left in a state
already reached. Three entries nest twice or follow, three pages are a gap, a shared page or a tail; four cards
are what a chain of likenesses that is not transitive needs. Two processes and two migrations have one
process behind the other, and one in the middle. What the bounds cut is more of the same; the safety
theorems of section 5 have none of them.

`two_processes` is reduced by the exchange of its two workers together with their rules, the
`Budget`, `PaidCalls`, `PageReading` and `Accounts` runs by the permutations of ids that nothing but
equality looks at; none of these runs checks liveness.

**Deadlock** is checked for the queue, the budget and the accounts. `Rules` answers and stops. A
`PaidCalls` or `RunPipeline` behaviour stops where the run has come to rest and the bounds are used
up, a `PageReading` behaviour where every run has ended, `Study` and `Workspace` where their bounds
are used up.

**Fairness.** `FairSpec` of `JobQueue` (in `one_process`): weak fairness of a worker's steps (its
poll timer re-arms after every pass, and a call has a timeout), of its heartbeat, of a
restart (`restart: unless-stopped`) and of waking up, of the API's half-done request and of time.
`Spec` of `RunPipeline`: weak fairness of `Work`, the steps of an attempt and the claim that
begins one, for the same reason. None is assumed of the owner, of crashes, of stalls or of
failures. A bound on faults stands behind `EveryRunSettles` and `RunSettles`: a run whose every worker
dies is claimed again for ever. That a call returns or times out is an assumption: section 6 has the
body for which the code does not see to it.

## 5. What is proved

Eight modules hold proofs, all checked by TLAPS to the last leaf: one for each of `JobQueue`
(with its refinement of `JobLife`), `Budget`, `PaidCalls`, `PageReading`, `RunPipeline` and `Study`;
`Accounts_proofs` for `Accounts` and `Workspace`; `Rules_proofs` for `Pricing`, `Storage` and the
rules. They assume of the constants what the ASSUMEs of the modules say and nothing of their
size, and, where it is named below, which deployment they are about.

**JobQueue.** `Inv` is the conjunction of `TypeInv`, `ClaimsAreDistinct` (each claim has an
epoch the row has reached, and no two are equal), `RowsAreCoherent`, `RequestsAreApt` (what a
route remembers of a run still bounds what the run may be) and `ProgressIsShared` (the
newest claim knows the stored progress). `OneHolder` alone is not inductive: it is the
epochs that keep a worker that wakes up from passing for the holder. The proof says
once what any step may do to a row (`RowMove`) and to a worker (`WorkerMove`), shows
that every action is such a move, and argues each property from the moves. Without further
assumption: `SpecTypeOK`, `SpecOneHolder`, `SpecHolderExtendsCheckpoint`,
`SpecRefusedClaimStaysRefused`, `SpecProgressIsKept`, `SpecRulesAreNotMixed`.
Under `~Refusals`: `SpecLiveClaimIsNotTaken`, `SpecPublishedIffCompleted`,
`SpecCancelledIsFinal`, `SpecCompletedIsFinal`, and the refinement
`SpecRunsLiveAsSpecified`. The assumption is needed: with refusals and two processes they
are false: a worker process claims a run between its INSERT and its refusal (section 6).

Under `InApi = Workers`, the deployment where the server runs the only worker:
`SpecNoUncollectableRun` and `SpecStoppedRunIsMadeTerminal`. With two processes both are false
(section 6), so their invariant is about the one thread: `StopsAreCurrent` says that what a worker
has read of a stop request is still true of the row when it writes, that a cancellation on a row
is being honoured or has ended the run, and that the API and the worker are never both half-way
through; `CancelIsFresh` that what a cancellation has read of a stopped run is too.

**Budget.** `LedgerMatchesHolds` is inductive with the types once it is seen that a settlement
takes back exactly what the ledger has for a reconciling hold, and nothing for a reserved one.
`SpecCapsArePassedOnlyByNamedExcess` is about totals, sums over sets of holds. The lemmas on sums
(they exist, take one more member, and differ by the one term in which two of them differ) are proved from the
definition of a fold over a finite set; the invariant `CapInv` adds that the rows are finitely many and that
each is of an account, and the theorem compares, for a step that leaves a total above its cap, what
the total grew by with what the incidents grew by.

**Pricing.** Rounding up is monotone, so the two parts are bounded part by part; rounding
their sum once would not be.

**PaidCalls.** `BilledIsCounted` cannot be seen from the tables: a hold is released by a worker
that only remembers what it did with it. The invariant ties every step of a call to its
hold and its bill (`WorkersKnow`), says that the hold in use is nobody else's
(`HoldsAreOwn`), and that a dispatched operation names a hold something was sent under.
`SpecKeepsTheBooks` maps every step to a step of `Budget` or to none, and with it
`Budget`'s theorems hold here. `SpecNoSilentRepeat` assumes `InApi = Workers`:
with a worker elsewhere it is false (`silent_repeat`). `SpecStoredAnswerIsKept` assumes
`~Freezes`: with a suspension of a whole lease between gate and write it is false
(section 6); it uses epochs and a gate remembered across two actions.
`SpecNoHoldIsLeftBehind` needs the count of crashes in its invariant (`ReservedAreAttended`): as long as no
process died, a reserved hold has a worker attending to it, and each step of a call keeps the hold it
attends to or settles it.

**PageReading.** Two inductive invariants. `ClaimInv` says that the
page a reader has claimed is still under its claim, or was taken over a stale window after it, and
that of two readers at one page the claims lie a stale window apart: a claim is known by its time
alone, and this is why the time is enough. `SpecOneReadingAtATime` and `SpecFirstReadingIsKept`
follow. `TextInv`
says that text, once there, does not change, so that a copy of it stays right and the pages that had
text when progress was saved still have it: `SpecRunWorksFromTheRow` and `SpecOnlyNewTextStrandsARun`.
The proofs say first what a step may do to a page (keep its claim, take it, end it), to a
reader's copy and to a run's progress, and argue from that. None needs an assumption
about processes: any number of runs, readers, crashes and lost leases.

**RunPipeline.** `CheckpointCoheres` is a property of the row, and the row is written from an attempt's memory.
`RunInv` therefore says where an attempt *is*: at a number `j` of the concepts that are due, between two
card batches or within one (`AttemptIsAt`), so that exactly the first `j` have been decided, each as its fate
has it unless its repair was disturbed, and the accepted ones are the cards in their order
(`ProgressIsAt`). The row is at the end of a batch (`RowCoheres`), which is why what it stores
holds together, and a completed run is at the end of the last (`ReportCoheres`). From it
`SpecCheckpointCoheres`, `SpecReportIsComplete` and `SpecOnlyDisturbedRepairsShow`, for any
candidates, likenesses, batches, coverage and interruptions.

**Library and Study.** `StudyInv` has the library's rows (a share, a card or a schedule is of a deck that exists)
and, for each account and card, that the row replays its events (`PairIs`). A review extends the
replay by one, an undo is the replay of a prefix, and the rest leaves both alone. From it
`SpecNothingOutlivesItsDeck`, `SpecScheduleIsTheHistory`, `SpecEachCardIsIntroducedOnce`, and for a step
`SpecNewestShareDecides`, which compares the rows of a pair before and after each route: what a pass
over the share rows keeps, keeps its order, so the newest stays the newest.

**Storage.** `StorageInv` adds to the property what a process in the middle of its start
knows (`StartsFollowTheRows`: it has read no migration that is not applied, and those it has come
past are applied, whoever applied them) and what a restore relies on (`RestoreHasTheFile`: from its check to its
end it has the file alone, and each step leaves what the next one needs). From it
`SpecMigrationsApplyOnce` and `SpecRestoreLeavesTheBackup`, the latter for a step, since it
compares the file with the backup when the restore ends.

**Accounts.** `AccountsInv` has four parts: the rows are typed; a request in flight is about a row that
exists, which no handler removes (`RequestsAreApt`); what can still fail is counted with what
failed, so that sign-ins admitted below the limit pass it by at most the requests in flight
(`ThrottleHolds`, by the cardinality of the sign-ins of an address); and
`AccountsComeFromInvitations`, which only an acceptance disturbs, and both sides of it at once. From it
`SpecInvitationsAreAccountedFor` and `SpecSpentInvitationStaysSpent`.

**Workspace.** `ScreenShowsOneDeck` speaks of a screen at rest; `ScreenInv` says what it is like while
answers are awaited. Unless a race was recorded, one handler besides the runs is in flight
(`OneAtATime`), a run whose next answer is written blindly is on its deck (`RunsAreOnScreen`), each
handler knows what is open (`HandlersKnowTheScreen`), and a part of the screen is of the open deck or
is exactly what the handler in flight has yet to bring (`DocumentIsShown`, `CardsAreShown`). A race
ends the claim for the rest of the behaviour, as in the property.

**Rules.** A question is answered in one step, so its properties are theorems about the functions that
answer it (`Asked` ties the two). The card rules: `SpecPolarityIsJudgedByTheCitation`,
`SpecNoStatementIsLost` (by induction over the places of the deck, with the kept places as the loop
invariant `KeptBy`) and `SpecLoneFigureHasOneCard`. `SpecOnlyUnusedCallsAreFree` goes through every way an
exchange can end. `SpecReportsAgreeOnCoverage` counts: each format's reading is a reading
(`IsReading`), its pages fall into the four kinds (`KindsPartition`), and what is stored, listed and opened
counts the same sets, before and after pictures were read. `SpecDayKeepsToItsLimits` has an invariant over the
reviews of a day: a card whose review counted is not fresh again until that review is undone and the
deck opened again (`CountedStayIntroduced`), and a fresh card is one the server has no review of
(`FreshAreUnstudied`). So the reviews of new cards are no more than the cards the day introduced, and
neither kind exceeds its limit (`WithinLimits`).

**Outline.** `SpecPlanSendsTheSelection` and `SpecPagesAreSentOnce` follow a document through six
functions, each by what it keeps. Whatever the reader, the sections are a forest in the order of their ids,
on the pages of the document; they cover it from the first one on, and two of which neither is below
the other overlap only where the entries make them (`IsSectioned`, `DocumentSectioned`; an entry between two
sections, that ends the first or is missing, is what `SomethingBetween` finds). Listing a forest loses
none and repeats none (`FlattenedForest`), so the stored rows are the same forest. What is below
sections is the least closed set around them (`GrowthIsLeast`): the search of `expandSelectedSections`
ends there, which is also what makes `Chosen` of the property, written with all closed sets, the
set it expands (`ExpandedFacts`). Taking the pages of those below from a section loses none, because the
chosen section of the greatest id that has a page keeps it, and leaves it none of theirs
(`ScopesFacts`). A call being packed knows its size and carries every scope seen (`CarriesSeen`).

**Induction.** The library's induction rules cannot be used here, and are not needed: that a set of
numbers has a least member (`LeastNumber`, from the well-foundedness of `<`), or a set of finite sets a
smallest one, is enough. A recursive function is first shown to exist (`FoldsExist`, `PassExists`,
`KeptExists`, `SumsExist`, `ListedStep`), which gives its equations; a formula about its first `i` values then holds of all,
or fails first where it held just before.

**Only model-checked.** Liveness under fairness, which is out of the prover's reach: `StopIsHonoured`,
`EveryRunSettles`, `RunSettles`. Every other property of a passing run is stated by a theorem of the
specification. The two runs that expect a violation show what no theorem can.

## 6. Where the code and its words part

Two are runs with a counterexample, quoted in `PROJECT.json` under findings:

1. `silent_repeat`: a resume accepts the repetition of a call made after it was given.
2. `child_section`: a run with only a chapter ticked, or nothing, which means all, extracts from the
   sections below and refuses every concept it stored of them (`checkpoint.ts:160`, 381, against
   `pipeline.ts:1065`): pause it, and it cannot be resumed.

The others were met while modelling. Where a definition is named, a configuration that
checks it shows the trace.

*Runs and money.*
- A cancellation recorded between `failJob`'s SELECT and its UPDATE (`queue.ts:610`) leaves a pending
  run that nobody can claim, cancel or resume, against `queue.ts:595-596`: `NoUncollectableRun` in the
  instance of `two_processes`.
- A run that stopped with a cancel request on its row cannot be made terminal
  (`queue.ts:764`, against `queue.ts:681`): `StoppedRunIsMadeTerminal` there.
- `withClaim` (`operations.ts:160`) renews the lease in one statement and writes in another that
  names the operation only, although `docs/architecture.md:186` says every write is gated on the
  claim: a process suspended for a whole lease in between overwrites its successor's answer.
  `StoredAnswerIsKept` with `Freezes = TRUE`.
- A process that dies between recording a failure and settling its hold
  (`pipeline.ts:558`) leaves a charge on no list, against `docs/self-hosting.md:261`:
  `UncertainCallIsListed`.
- A page read on a continuation, in a section whose concepts the run already has, is paid for,
  counted as read, and sent to no extractor (`pipeline.ts:723`, against 886-888): `EveryReadingIsSent` with
  `SectionOf <- Together`, two pages, one reader and a clock of 3.
- The catch of `repairCard` (`pipeline.ts:1741-1750`) lets only a budget refusal, a cancellation and a
  lost claim through. A pause, or a call that needs the owner's confirmation, during a repair
  withholds the card for good, against `pipeline.ts:1230-1231`, 1470-1472 and
  `operations.ts:17-18`, 30-33. `OnlyDisturbedRepairsShow` without its premise.
- The generate route inserts a job as pending and refuses it in a second statement whose WHERE
  names the job only (`queue.ts:1382`), although `routes/resources.ts:1621` says a refused job never
  reaches a worker. `PublishedIffCompleted` with `Refusals = TRUE` and `InApi = {}`.
- A page left `running` by a refused budget, an unresolved call or a crash is, until its claim is
  stale, neither a candidate nor deferred nor unavailable in the report of the next attempt, against
  `pipeline.ts:883`. `Available` shows which pages `Plan` passes over.
- `requestCancellation` and `requestPause` answer *requested* without reading the affected
  rows of their last UPDATE (`queue.ts:715`), against `docs/architecture.md:112`.
- `recordJobProvider` (`queue.ts:1356`) writes the run's configuration without its claim, against
  `pipeline.ts:1041`.
- `claimNextJob` does not compare attempts with `max_attempts`, so a run whose worker dies
  each time loops, which `0002_generation_pipeline.sql:12` rules out.
- `setInstallationLimit(0)` removes the stored cap and lets the environment's apply again
  (`budget.ts:1079`), where `budget.ts:1066` says it clears the cap.
- The timer of a call is cleared when its headers arrive (`transport.ts:137`), and the body is read
  without one: a body that never ends holds the run, while the heartbeat renews the lease. A
  connection cut inside the body becomes an error that is not retried, though `errors.ts:52-55` says it
  is one event with a refused connection.
- A claimed run whose stored progress does not apply fails with `restart_required`
  (`pipeline.ts:1129`), where `docs/architecture.md:167` says it ignores it and re-derives.
- Two concepts whose labels have no ASCII word are never deduplicated (`concepts.ts:89`), and the
  checkpoint that holds both is refused as storing the same concept twice.

*Accounts and sharing.*
- Two setups whose hashes overlap make two administrators: the insert does not count again
  (`bootstrap.ts:61`, against `public.ts:116-117`). `SetupMakesOneAccount` in the instance of
  `accounts`.
- A sign-in opens a session for an account disabled during the hash (`public.ts:184`); it
  opens nothing, because every request resolves the account again.
- Two administrators may disable each other (`admin.ts:155`); a PATCH that disables and carries an
  invalid limit disables and then fails (`admin.ts:173`).
- Of two decks of one document, the one shared later for study alone closes the source that the row of the
  other still offers. `RowsOfferOnlyWhatIsServed`.
- `corsHeaders` omits PUT, which `/api/admin/budget` needs; `pruneLoginAttempts` is never called.

*Documents and cards.*
- `expandSelectedSections` (`source.ts:134`) adds every section below a selected one, so a subsection
  that was unticked is sent when its chapter is ticked, against `App.tsx:81-83`:
  `ExcludedSectionsAreNotSent` in the instance of `rules`.
- `resources.ts:1597` reads 500 selected sections, and a document may have 5000.
- Sections that open on one page, and a last subsection and its chapter's successor, both claim the
  pages that follow; entries whose destination does not resolve are sent with their parent and alone
  (`source.ts:166-173`); a heading's subsection may lie outside its chapter (`text.ts:175-177`); pages
  before the first heading are in no section. `PagesAreSentOnce` says which documents are exempt.
- A page past `MAX_FIGURE_PAGES`, or whose pictures were skipped, is called blank; the client's
  report counts pictures where the others count pages; pages whose pictures held no words are still
  said to be readable by a run.
- `validateCardStructure` compares the answer's negation with the whole excerpt; duplicates are compared
  by their question alone.
- The export selects cards without their section, so its title is always missing.

*Study, storage and screens.*
- The screen keeps `lastStudiedAt` after an undo of a card's only review (`App.tsx:722`), so the card
  is offered as due beside the new one that takes its place, and a day introduces more cards than its
  limit, against `study.ts:13-14`: `NewCardsKeepToTheirLimit` in the instance of `rules`.
- Each limit of a day counts its own kind of card, so the reviews of a day may reach the sum of
  both. The session's index skips a due card after an undo (`StudyInterface.tsx:106-111`).
- `createBackup` removes the earlier backup before it writes the new one;
  `docs/self-hosting.md:210-215` restores with `--force` inside the running server's container; a restore cut
  short before it removes the log (`backup.ts:271-274`) leaves it beside the new file;
  `sameContents` compares counts of rows.
- The answer of a poll and the source reloaded after a run are written without a second look at what
  is open (`App.tsx:1034`, 1085, 987-993, against 192 and 197-200): `RunStaysOnItsDeck`. A failed open
  leaves the previous deck's cards; deleting a deck leaves its run's panel; signing out leaves the
  pages, cards and deck in memory (`useSession.ts:120-134`), and a refresh answered late can overwrite a
  sign-in.

## 7. What is not modelled

- **HTTP server and routing**: stateless dispatch. That a handler runs alone between two awaits
  is what the grain of the actions rests on.
- **Anki export**: a pure encoder of stored rows into a package; a model would repeat the encoder.
- **Evaluation**: read-only statistics over finished runs.
- **File formats, text scoring, prompts, the strict reading of an answer, rendering and forms**: no
  state, and nothing a bounded instance says better than a test. Where their outcome matters (a page has
  text, two statements are alike, an answer is malformed) it is an input of the models.
- Of modelled components: the attempt log, listings and other read-only routes, the fields of
  cards and documents, `scripts/`, time zones and the clock of the client.

Assumptions about what is outside the repository: SQLite's immediate transactions are
serialised and durable; clocks of processes on one machine agree (the lease compares `now` with a
timestamp another process wrote); a provider answers the same request alike (`fate`), which only
`OnlyDisturbedRepairsShow` and `ReportIsComplete` need.
