------------------------- MODULE PageReading_proofs -------------------------
(***************************************************************************)
(* Proofs about PageReading, for any document, any number of runs and of   *)
(* readers, and any limits.                                                *)
(*                                                                         *)
(* The argument for the claims: a reader that took its claim at time s     *)
(* finds the page either under that claim still, or under one that is at   *)
(* least Stale younger.  That the text of a page never changes once it has *)
(* one is seen from the rows alone.                                        *)
(***************************************************************************)
EXTENDS PageReading, TLAPS

\* From the claim on a page to the record of what became of it.
Claiming == {"claimed", "asked", "answered", "failed", "storing", "excusing"}

\* A worker at work has a run, and one with a page at hand a page.
ReadersHaveWork ==
    \A w \in Readers : /\ ~At(w, "idle") => reader[w].run \in Runs
                       /\ At(w, "claiming") \/ reader[w].phase \in Claiming
                             => reader[w].page \in Pages

\* A page under a claim, or given up, has no text; nothing is claimed in the future.
RowsAreCoherent ==
    \A p \in Pages : /\ page[p].status \in {"running", "failed", "unavailable"}
                           => page[p].text = NoText
                     /\ page[p].started <= now

\* The page a reader has claimed is under its claim, or its claim was taken over
\* when it was stale.
ClaimStandsOrIsStale(w) ==
    LET p == reader[w].page IN
    reader[w].phase \in Claiming =>
        /\ reader[w].started <= now
        /\ StillClaimed(w) \/ reader[w].started + Stale <= page[p].started

ClaimsStandOrAreStale == \A w \in Readers : ClaimStandsOrIsStale(w)

ClaimsAreApart ==
    \A v, w \in Readers :
        /\ v # w /\ reader[v].page = reader[w].page
        /\ reader[v].phase \in Claiming /\ reader[w].phase \in Claiming
        => \/ reader[v].started + Stale <= reader[w].started
           \/ reader[w].started + Stale <= reader[v].started

\* Progress was made from pages that have text, and whoever has the run knows them.
ProgressIsRead ==
    /\ \A r \in Runs : \A p \in run[r].seen : page[p].text # NoText
    /\ \A w \in Readers : ~At(w, "idle") /\ Owns(w) =>
          \A p \in run[reader[w].run].seen : reader[w].source[p] # NoText

\* A run that is over is nobody's.
EndedRunsAreFree ==
    \A r \in Runs : run[r].state # "open" => run[r].owner = NoReader

ClaimInv == TypeOK /\ ReadersHaveWork /\ RowsAreCoherent /\ ClaimsStandOrAreStale
                   /\ ClaimsAreApart
TextInv  == /\ TypeOK /\ ReadersHaveWork /\ RowsAreCoherent
            /\ RunWorksFromTheRow /\ ProgressIsRead /\ EndedRunsAreFree
            /\ OnlyNewTextStrandsARun

-----------------------------------------------------------------------------
(* Types.                                                                  *)

LEMMA InitTypeOK == Init => TypeOK
  BY PagesAssumption DEF Init, TypeOK, Page, Run, Unstarted, Answers, Unasked, Reader,
     Idle, Phases

ReadingOf == [status : {"none", "dispatched", "succeeded"}, text : Answers]

LEMMA InitialValues ==
    /\ Idle \in Reader /\ Unasked \in ReadingOf /\ NoText \in Answers
    /\ \A p \in Pages : page \in [Pages -> Page] => page[p].text \in Answers
  BY DEF Idle, Reader, Phases, Answers, Unasked, ReadingOf, Page

\* What an update of one field of one row or reader leaves typed.
LEMMA RunUpdates ==
    ASSUME run \in [Runs -> Run], NEW r \in Runs
    PROVE  /\ \A w \in Readers \cup {NoReader} : [run EXCEPT ![r].owner = w] \in [Runs -> Run]
           /\ \A e \in {"refused", "completed"} :
                 [run EXCEPT ![r].state = e, ![r].owner = NoReader] \in [Runs -> Run]
  BY DEF Run

LEMMA PageUpdates ==
    ASSUME page \in [Pages -> Page], NEW p \in Pages
    PROVE  /\ \A t \in Nat : [page EXCEPT ![p].status = "running", ![p].started = t]
                                \in [Pages -> Page]
           /\ \A t \in Answers : [page EXCEPT ![p].status = "succeeded", ![p].text = t]
                                    \in [Pages -> Page]
           /\ [page EXCEPT ![p].status = "failed"] \in [Pages -> Page]
  BY DEF Page, Answers

LEMMA ReaderUpdates ==
    ASSUME NEW c \in Reader
    PROVE  /\ \A f \in Phases : [c EXCEPT !.phase = f] \in Reader
           /\ \A t \in SUBSET Pages : [c EXCEPT !.phase = "reading", !.todo = t] \in Reader
           /\ \A p \in c.todo :
                 [c EXCEPT !.phase = "claiming", !.page = p, !.todo = @ \ {p}] \in Reader
           /\ \A t \in Nat : [c EXCEPT !.phase = "claimed", !.started = t] \in Reader
           /\ \A t \in Answers : [c EXCEPT !.phase = "answered", !.text = t] \in Reader
           /\ \A t \in Answers :
                 [c EXCEPT !.phase = "reading", !.source[c.page] = IF t = NoText THEN @ ELSE t]
                    \in Reader
           /\ \A r \in Runs, s \in [Pages -> Answers] :
                 [c EXCEPT !.phase = "loaded", !.run = r, !.source = s] \in Reader
  <1>1. \A f \in Phases : [c EXCEPT !.phase = f] \in Reader
    BY DEF Reader
  <1>2. \A t \in SUBSET Pages : [c EXCEPT !.phase = "reading", !.todo = t] \in Reader
    BY DEF Reader, Phases
  <1>3. ASSUME NEW p \in c.todo
        PROVE  [c EXCEPT !.phase = "claiming", !.page = p, !.todo = @ \ {p}] \in Reader
    <2>1. p \in Nat
      BY PagesAssumption DEF Reader
    <2>. QED BY <2>1 DEF Reader, Phases
  <1>4. \A t \in Nat : [c EXCEPT !.phase = "claimed", !.started = t] \in Reader
    BY DEF Reader, Phases
  <1>5. \A t \in Answers : [c EXCEPT !.phase = "answered", !.text = t] \in Reader
    BY DEF Reader, Phases
  <1>6. ASSUME NEW t \in Answers
        PROVE  [c EXCEPT !.phase = "reading", !.source[c.page] = IF t = NoText THEN @ ELSE t]
                  \in Reader
    <2> DEFINE u == [c.source EXCEPT ![c.page] = IF t = NoText THEN @ ELSE t]
    <2>1. c.source \in [Pages -> Answers]
      BY DEF Reader
    <2>2. u \in [Pages -> Answers]
      BY <2>1
    <2>3. [c EXCEPT !.phase = "reading", !.source = u] \in Reader
      BY <2>2 DEF Reader, Phases
    <2>. QED BY <2>3
  <1>7. \A r \in Runs, s \in [Pages -> Answers] :
           [c EXCEPT !.phase = "loaded", !.run = r, !.source = s] \in Reader
    BY DEF Reader, Phases
  <1>. QED BY <1>1, <1>2, <1>3, <1>4, <1>5, <1>6, <1>7

LEMMA AnswerUpdates ==
    ASSUME answer \in [Runs -> [Pages -> ReadingOf]], NEW r \in Runs, NEW p \in Pages
    PROVE  /\ \A a \in ReadingOf : [answer EXCEPT ![r][p] = a] \in [Runs -> [Pages -> ReadingOf]]
           /\ [answer EXCEPT ![r][p].status = "dispatched"] \in [Runs -> [Pages -> ReadingOf]]
           /\ [answer EXCEPT ![r] = [q \in Pages |-> Unasked]] \in [Runs -> [Pages -> ReadingOf]]
  <1>1. [answer[r][p] EXCEPT !.status = "dispatched"] \in ReadingOf
    BY DEF ReadingOf
  <1>. QED BY <1>1, InitialValues

LEMMA BecomeTyped ==
    ASSUME reader \in [Readers -> Reader], NEW w \in Readers, NEW c \in Reader, Become(w, c)
    PROVE  reader' \in [Readers -> Reader]
  BY DEF Become

LEMMA OwnsRun == ASSUME NEW w \in Readers, Owns(w) PROVE reader[w].run \in Runs
  BY DEF Owns

LEMMA NextTypeOK == TypeOK /\ ReadersHaveWork /\ [Next]_vars => TypeOK'
<1> SUFFICES ASSUME TypeOK, ReadersHaveWork, [Next]_vars PROVE TypeOK'
    OBVIOUS
<1>a. /\ page \in [Pages -> Page] /\ run \in [Runs -> Run]
      /\ answer \in [Runs -> [Pages -> ReadingOf]]
      /\ reader \in [Readers -> Reader] /\ now \in Nat
      /\ left \in [attempt : Nat, lapse : Nat]
    BY DEF TypeOK, ReadingOf
<1>b. ASSUME page' \in [Pages -> Page], run' \in [Runs -> Run],
             answer' \in [Runs -> [Pages -> ReadingOf]],
             reader' \in [Readers -> Reader], now' \in Nat,
             left' \in [attempt : Nat, lapse : Nat]
      PROVE  TypeOK'
    BY <1>b DEF TypeOK, ReadingOf
<1>1. ASSUME NEW w \in Readers, NEW r \in Runs, Start(w, r) PROVE TypeOK'
  <2>1. run' = [run EXCEPT ![r].owner = w] /\ page' = page /\ now' = now
    BY <1>1 DEF Start
  <2>2. run' \in [Runs -> Run]
    BY <1>a, <2>1, RunUpdates
  <2>3. answer' \in [Runs -> [Pages -> ReadingOf]]
    <3>1. CASE UNCHANGED answer
      BY <1>a, <3>1
    <3>2. CASE answer' = [answer EXCEPT ![r] =
                 [p \in Pages |-> IF @[p].status = "dispatched" THEN Unasked ELSE @[p]]]
      BY <1>a, <3>2, InitialValues
    <3>. QED BY <1>1, <3>1, <3>2 DEF Start
  <2>4. LoadSource \in [Pages -> Answers]
    BY <1>a, InitialValues DEF LoadSource
  <2>5. Become(w, [Idle EXCEPT !.phase = "loaded", !.run = r, !.source = LoadSource])
    BY <1>1 DEF Start
  <2>6. reader' \in [Readers -> Reader]
    BY <1>a, <2>4, <2>5, InitialValues, ReaderUpdates, BecomeTyped
  <2>7. left' = [left EXCEPT !.attempt = @ - 1] /\ left.attempt > 0
    BY <1>1 DEF Start
  <2>8. left' \in [attempt : Nat, lapse : Nat]
    BY <1>a, <2>7
  <2>. QED BY <1>a, <1>b, <2>1, <2>2, <2>3, <2>6, <2>8
<1>2. ASSUME NEW w \in Readers, Plan(w) PROVE TypeOK'
  <2>1. PICK chosen \in SUBSET {p \in Pictured : Available(p)} :
           Become(w, [reader[w] EXCEPT !.phase = "reading", !.todo = chosen])
    BY <1>2 DEF Plan
  <2>2. chosen \in SUBSET Pages
    BY PagesAssumption
  <2>3. reader' \in [Readers -> Reader]
    BY <1>a, <2>1, <2>2, ReaderUpdates, BecomeTyped
  <2>4. page' = [p \in Pages |->
                   IF p \notin Pictured /\ page[p].text = NoText /\ page[p].status = "null"
                   THEN [page[p] EXCEPT !.status = "unavailable"] ELSE page[p]]
    BY <1>2 DEF Plan
  <2>5. page' \in [Pages -> Page]
    BY <1>a, <2>4 DEF Page
  <2>. QED BY <1>a, <1>b, <1>2, <2>3, <2>5 DEF Plan
<1>3. ASSUME NEW w \in Readers, NextPage(w) PROVE TypeOK'
  <2>1. PICK p \in reader[w].todo :
           Become(w, [reader[w] EXCEPT !.phase = "claiming", !.page = p, !.todo = @ \ {p}])
    BY <1>3 DEF NextPage
  <2>2. reader' \in [Readers -> Reader]
    BY <1>a, <2>1, ReaderUpdates, BecomeTyped
  <2>. QED BY <1>a, <1>b, <1>3, <2>2 DEF NextPage
<1>c. ASSUME NEW w \in Readers, NEW phase \in Phases, Goes(w, phase)
      PROVE  reader' \in [Readers -> Reader]
    BY <1>a, <1>c, ReaderUpdates, BecomeTyped DEF Goes
<1>d. ASSUME NEW w \in Readers, Become(w, Idle) PROVE reader' \in [Readers -> Reader]
    BY <1>a, <1>d, InitialValues, BecomeTyped
<1>e. ASSUME NEW w \in Readers, reader[w].phase \in Claiming \cup {"claiming"}
      PROVE  reader[w].page \in Pages /\ reader[w].run \in Runs
    BY <1>e DEF ReadersHaveWork, At, Claiming
<1>4. ASSUME NEW w \in Readers, ClaimPage(w) PROVE TypeOK'
  <2>1. reader[w].page \in Pages
    BY <1>4, <1>e DEF ClaimPage, At
  <2>2. CASE /\ page' = [page EXCEPT ![reader[w].page].status = "running",
                                     ![reader[w].page].started = now]
             /\ Become(w, [reader[w] EXCEPT !.phase = "claimed", !.started = now])
    <3>1. page' \in [Pages -> Page]
      BY <1>a, <2>1, <2>2, PageUpdates
    <3>2. reader' \in [Readers -> Reader]
      BY <1>a, <2>2, ReaderUpdates, BecomeTyped
    <3>. QED BY <1>a, <1>b, <1>4, <3>1, <3>2 DEF ClaimPage
  <2>3. CASE Goes(w, "reading") /\ UNCHANGED page
    BY <1>a, <1>b, <1>c, <1>4, <2>3 DEF ClaimPage, Phases
  <2>. QED BY <1>4, <2>2, <2>3 DEF ClaimPage
<1>5. ASSUME NEW w \in Readers, Ask(w) PROVE TypeOK'
  <2>1. reader[w].run \in Runs /\ reader[w].page \in Pages
    BY <1>5, <1>e DEF Ask, At, Claiming
  <2>2. CASE /\ Become(w, [reader[w] EXCEPT !.phase = "answered",
                              !.text = answer[reader[w].run][reader[w].page].text])
             /\ UNCHANGED answer
    <3>1. answer[reader[w].run][reader[w].page].text \in Answers
      BY <1>a, <2>1 DEF ReadingOf
    <3>2. reader' \in [Readers -> Reader]
      BY <1>a, <2>2, <3>1, ReaderUpdates, BecomeTyped
    <3>. QED BY <1>a, <1>b, <1>5, <2>2, <3>2 DEF Ask
  <2>3. CASE /\ answer' = [answer EXCEPT ![reader[w].run][reader[w].page].status = "dispatched"]
             /\ Goes(w, "asked")
    <3>1. answer' \in [Runs -> [Pages -> ReadingOf]]
      BY <1>a, <2>1, <2>3, AnswerUpdates
    <3>2. reader' \in [Readers -> Reader]
      BY <1>c, <2>3 DEF Phases
    <3>. QED BY <1>a, <1>b, <1>5, <3>1, <3>2 DEF Ask
  <2>. QED BY <1>5, <2>2, <2>3 DEF Ask
<1>6. ASSUME NEW w \in Readers, NEW a \in ReadingOf, Record(w, a), reader[w].phase = "asked"
      PROVE  answer' \in [Runs -> [Pages -> ReadingOf]]
  <2>1. reader[w].run \in Runs /\ reader[w].page \in Pages
    BY <1>6, <1>e DEF Claiming
  <2>2. [answer EXCEPT ![reader[w].run][reader[w].page] = a] \in [Runs -> [Pages -> ReadingOf]]
    BY <1>a, <2>1, AnswerUpdates
  <2>. QED BY <1>a, <1>6, <2>2 DEF Record
<1>7. ASSUME NEW w \in Readers, Receive(w) PROVE TypeOK'
  <2>1. PICK t \in Answers :
           /\ Record(w, [status |-> "succeeded", text |-> t])
           /\ Become(w, [reader[w] EXCEPT !.phase = "answered", !.text = t])
    BY <1>7 DEF Receive
  <2>2. reader' \in [Readers -> Reader]
    BY <1>a, <2>1, ReaderUpdates, BecomeTyped
  <2>3. [status |-> "succeeded", text |-> t] \in ReadingOf
    BY DEF ReadingOf
  <2>4. answer' \in [Runs -> [Pages -> ReadingOf]]
    BY <1>6, <1>7, <2>1, <2>3 DEF Receive, At
  <2>. QED BY <1>a, <1>b, <1>7, <2>2, <2>4 DEF Receive
<1>8. ASSUME NEW w \in Readers, FailCall(w) PROVE TypeOK'
  <2>1. reader' \in [Readers -> Reader]
    BY <1>8, <1>c DEF FailCall, Phases
  <2>2. answer' \in [Runs -> [Pages -> ReadingOf]]
    BY <1>6, <1>8, InitialValues DEF FailCall, At
  <2>. QED BY <1>a, <1>b, <1>8, <2>1, <2>2 DEF FailCall
<1>9. ASSUME NEW w \in Readers, RenewForStore(w) PROVE TypeOK'
  <2>1. CASE Goes(w, "storing") \/ Goes(w, "excusing")
    BY <1>a, <1>b, <1>c, <1>9, <2>1 DEF RenewForStore, Phases
  <2>2. CASE Become(w, Idle)
    BY <1>a, <1>b, <1>d, <1>9, <2>2 DEF RenewForStore
  <2>. QED BY <1>9, <2>1, <2>2 DEF RenewForStore
<1>10. ASSUME NEW w \in Readers, NEW t \in Answers, Keep(w, t)
       PROVE reader' \in [Readers -> Reader]
  BY <1>a, <1>10, ReaderUpdates, BecomeTyped DEF Keep
<1>11. ASSUME NEW w \in Readers, StoreReading(w) PROVE TypeOK'
  <2>1. reader[w].page \in Pages /\ reader[w].text \in Answers
    BY <1>a, <1>11, <1>e DEF StoreReading, At, Claiming, Reader
  <2>2. CASE /\ page' = [page EXCEPT ![reader[w].page].status = "succeeded",
                                     ![reader[w].page].text = reader[w].text]
             /\ Keep(w, reader[w].text)
    <3>1. page' \in [Pages -> Page]
      BY <1>a, <2>1, <2>2, PageUpdates
    <3>2. reader' \in [Readers -> Reader]
      BY <1>10, <2>1, <2>2
    <3>. QED BY <1>a, <1>b, <1>11, <3>1, <3>2 DEF StoreReading
  <2>3. CASE Keep(w, page[reader[w].page].text) /\ UNCHANGED page
    <3>1. reader' \in [Readers -> Reader]
      BY <1>a, <1>10, <2>1, <2>3, InitialValues
    <3>. QED BY <1>a, <1>b, <1>11, <2>3, <3>1 DEF StoreReading
  <2>. QED BY <1>11, <2>2, <2>3 DEF StoreReading
<1>12. ASSUME NEW w \in Readers, StoreFailure(w) PROVE TypeOK'
  <2>1. reader[w].page \in Pages
    BY <1>12, <1>e DEF StoreFailure, At, Claiming
  <2>2. reader' \in [Readers -> Reader]
    BY <1>12, <1>c DEF StoreFailure, Phases
  <2>3. page' \in [Pages -> Page]
    BY <1>a, <1>12, <2>1, PageUpdates DEF StoreFailure
  <2>. QED BY <1>a, <1>b, <1>12, <2>2, <2>3 DEF StoreFailure
<1>13. ASSUME NEW w \in Readers, FinishReading(w) PROVE TypeOK'
  <2>1. reader[w].run \in Runs
    BY <1>13, OwnsRun DEF FinishReading
  <2>2. CASE Goes(w, "extracting") /\ UNCHANGED run
    BY <1>a, <1>b, <1>c, <1>13, <2>2 DEF FinishReading, Phases
  <2>3. CASE /\ Become(w, Idle)
             /\ run' = [run EXCEPT ![reader[w].run].state = "refused",
                                   ![reader[w].run].owner = NoReader]
    <3>1. run' \in [Runs -> Run]
      BY <1>a, <2>1, <2>3, RunUpdates
    <3>2. reader' \in [Readers -> Reader]
      BY <1>d, <2>3
    <3>. QED BY <1>a, <1>b, <1>13, <3>1, <3>2 DEF FinishReading
  <2>. QED BY <1>13, <2>2, <2>3 DEF FinishReading
<1>14. ASSUME NEW w \in Readers, Extract(w) PROVE TypeOK'
  <2> DEFINE r == reader[w].run
             W == Written(reader[w].source)
  <2>1. PICK s \in Remaining(w) :
          run' = [run EXCEPT ![r].seen = W, ![r].done = @ \cup {s},
                             ![r].sent = @ \cup {p \in W : SectionOf[p] = s}]
    BY <1>14 DEF Extract
  <2>2. r \in Runs
    BY <1>14, OwnsRun DEF Extract
  <2>3. s \in Sections /\ W \subseteq Pages
    BY PagesAssumption DEF Remaining, PlanOf, Written
  <2> DEFINE e == [run[r] EXCEPT !.seen = W, !.done = @ \cup {s},
                                 !.sent = @ \cup {p \in W : SectionOf[p] = s}]
  <2>4. run' = [run EXCEPT ![r] = e]
    BY <2>1
  <2> HIDE DEF W, r
  <2>5. e \in Run
    BY <1>a, <2>2, <2>3 DEF Run
  <2> HIDE DEF e
  <2>6. run' \in [Runs -> Run]
    BY <1>a, <2>2, <2>4, <2>5
  <2>. QED BY <1>a, <1>b, <1>14, <2>6 DEF Extract
<1>15. ASSUME NEW w \in Readers, Publish(w) PROVE TypeOK'
  <2>1. reader[w].run \in Runs
    BY <1>15, OwnsRun DEF Publish
  <2>2. run' = [run EXCEPT ![reader[w].run].state = "completed",
                           ![reader[w].run].owner = NoReader]
    BY <1>15 DEF Publish
  <2>3. run' \in [Runs -> Run]
    BY <1>a, <2>1, <2>2, RunUpdates
  <2>4. answer' \in [Runs -> [Pages -> ReadingOf]]
    BY <1>a, <1>15, InitialValues DEF Publish
  <2>5. reader' \in [Readers -> Reader]
    BY <1>15, <1>d DEF Publish
  <2>. QED BY <1>a, <1>b, <1>15, <2>3, <2>4, <2>5 DEF Publish
<1>16. ASSUME NEW w \in Readers, Leave(w) \/ Crash(w) PROVE TypeOK'
  <2>1. run' = IF Owns(w) THEN [run EXCEPT ![reader[w].run].owner = NoReader] ELSE run
    BY <1>16 DEF Leave, Crash
  <2>2. run' \in [Runs -> Run]
    BY <1>a, <2>1, OwnsRun, RunUpdates
  <2>3. reader' \in [Readers -> Reader]
    BY <1>16, <1>d DEF Leave, Crash
  <2>. QED BY <1>a, <1>b, <1>16, <2>2, <2>3 DEF Leave, Crash
<1>17. ASSUME NEW r \in Runs, Lapse(r) PROVE TypeOK'
  <2>1. run' = [run EXCEPT ![r].owner = NoReader] /\ left.lapse > 0
        /\ left' = [left EXCEPT !.lapse = @ - 1]
    BY <1>17 DEF Lapse
  <2>2. run' \in [Runs -> Run]
    BY <1>a, <2>1, RunUpdates
  <2>3. left' \in [attempt : Nat, lapse : Nat]
    BY <1>a, <2>1
  <2>. QED BY <1>a, <1>b, <1>17, <2>2, <2>3 DEF Lapse
<1>18. CASE Tick
  BY <1>a, <1>b, <1>18 DEF Tick
<1>19. CASE UNCHANGED vars
  BY <1>a, <1>b, <1>19 DEF vars
<1>. QED BY <1>1, <1>2, <1>3, <1>4, <1>5, <1>7, <1>8, <1>9, <1>11, <1>12, <1>13, <1>14,
            <1>15, <1>16, <1>17, <1>18, <1>19 DEF Next, ReadPage

-----------------------------------------------------------------------------
(* What a step may do to the pages and to the claims on them.              *)

\* A page is marked for having nothing to read, at most, and claims are dropped.
KeepsClaims ==
    /\ \A p \in Pages : \/ page'[p] = page[p]
                        \/ /\ page[p].status = "null" /\ page[p].text = NoText
                           /\ page'[p] = [page[p] EXCEPT !.status = "unavailable"]
    /\ \A w \in Readers : reader'[w].phase \in Claiming =>
          /\ reader[w].phase \in Claiming
          /\ reader'[w].page = reader[w].page /\ reader'[w].started = reader[w].started
    /\ now <= now'

TakesClaim(w) ==
    /\ At(w, "claiming") /\ Available(reader[w].page)
    /\ page' = [page EXCEPT ![reader[w].page].status = "running",
                            ![reader[w].page].started = now]
    /\ reader' = [reader EXCEPT ![w] = [@ EXCEPT !.phase = "claimed", !.started = now]]
    /\ now' = now

EndsClaim(w) ==
    /\ reader[w].phase \in Claiming /\ StillClaimed(w)
    /\ \E t \in Answers :
          \/ page' = [page EXCEPT ![reader[w].page].status = "succeeded",
                                  ![reader[w].page].text = t]
          \/ page' = [page EXCEPT ![reader[w].page].status = "failed"]
    /\ reader'[w].phase \notin Claiming
    /\ \A v \in Readers \ {w} : reader'[v] = reader[v]
    /\ now' = now

\* No reader but w is touched, and w is left without a claim or with the one it had.
OnlyReader(w) ==
    /\ \A v \in Readers \ {w} : reader'[v] = reader[v]
    /\ reader'[w].phase \in Claiming =>
          /\ reader[w].phase \in Claiming
          /\ reader'[w].page = reader[w].page /\ reader'[w].started = reader[w].started

LEMMA BecomeIsLocal ==
    ASSUME reader \in [Readers -> Reader], NEW w \in Readers, NEW c, Become(w, c)
    PROVE  reader'[w] = c /\ \A v \in Readers \ {w} : reader'[v] = reader[v]
  BY DEF Become

\* What the updates of a reader leave as it was.
LEMMA ReaderFields ==
    ASSUME NEW c \in Reader
    PROVE  /\ \A t : [c EXCEPT !.phase = "reading", !.todo = t].phase = "reading"
           /\ \A p : [c EXCEPT !.phase = "claiming", !.page = p, !.todo = @ \ {p}].phase
                        = "claiming"
           /\ \A t : [c EXCEPT !.phase = "reading",
                               !.source[c.page] = IF t = NoText THEN @ ELSE t].phase = "reading"
  BY DEF Reader

LEMMA KeptClaims ==
    ASSUME TypeOK, NEW w \in Readers, OnlyReader(w), page' = page, now' = now
    PROVE  KeepsClaims
  BY DEF KeepsClaims, OnlyReader, TypeOK

LEMMA PageSteps ==
    TypeOK /\ ReadersHaveWork /\ [Next]_vars =>
        KeepsClaims \/ \E w \in Readers : TakesClaim(w) \/ EndsClaim(w)
<1> SUFFICES ASSUME TypeOK, ReadersHaveWork, [Next]_vars
             PROVE  KeepsClaims \/ \E w \in Readers : TakesClaim(w) \/ EndsClaim(w)
    OBVIOUS
<1>a. reader \in [Readers -> Reader] /\ page \in [Pages -> Page] /\ now \in Nat
    BY DEF TypeOK
<1>b. ASSUME NEW w \in Readers, NEW c, Become(w, c),
             c.phase \in Claiming => /\ reader[w].phase \in Claiming
                                     /\ c.page = reader[w].page
                                     /\ c.started = reader[w].started
      PROVE  OnlyReader(w) /\ reader'[w] = c
    BY <1>a, <1>b, BecomeIsLocal DEF OnlyReader
<1>1. ASSUME NEW w \in Readers, NEW r \in Runs, Start(w, r) PROVE KeepsClaims
  <2>1. OnlyReader(w)
    BY <1>b, <1>1 DEF Start, Claiming, Idle
  <2>. QED BY <1>1, <2>1, KeptClaims DEF Start
<1>2. ASSUME NEW w \in Readers, Plan(w) PROVE KeepsClaims
  <2>1. OnlyReader(w)
    BY <1>a, <1>b, <1>2, ReaderFields DEF Plan, Claiming
  <2>2. \A p \in Pages : \/ page'[p] = page[p]
                         \/ /\ page[p].status = "null" /\ page[p].text = NoText
                            /\ page'[p] = [page[p] EXCEPT !.status = "unavailable"]
    BY <1>2 DEF Plan
  <2>. QED BY <1>a, <1>2, <2>1, <2>2 DEF Plan, KeepsClaims, OnlyReader
<1>3. ASSUME NEW w \in Readers, NextPage(w) PROVE KeepsClaims
  <2>1. OnlyReader(w)
    BY <1>a, <1>b, <1>3, ReaderFields DEF NextPage, Claiming
  <2>. QED BY <1>3, <2>1, KeptClaims DEF NextPage
<1>c. ASSUME NEW w \in Readers, NEW f \in Phases, Goes(w, f),
             reader[w].phase \in Claiming \/ f \notin Claiming
      PROVE  OnlyReader(w)
    BY <1>a, <1>c, BecomeIsLocal DEF Goes, OnlyReader, Reader
<1>d. ASSUME NEW w \in Readers, Become(w, Idle) PROVE OnlyReader(w)
    BY <1>a, <1>d, BecomeIsLocal DEF OnlyReader, Idle, Claiming
<1>e. ASSUME NEW w \in Readers, reader[w].phase \in Claiming,
             NEW t, Become(w, [reader[w] EXCEPT !.phase = "answered", !.text = t])
      PROVE  OnlyReader(w)
  <2> DEFINE c == [reader[w] EXCEPT !.phase = "answered", !.text = t]
  <2>1. c.page = reader[w].page /\ c.started = reader[w].started
    BY <1>a DEF Reader
  <2>2. Become(w, c)
    BY <1>e
  <2> HIDE DEF c
  <2>. QED BY <1>b, <1>e, <2>1, <2>2
<1>4. ASSUME NEW w \in Readers, ClaimPage(w) PROVE KeepsClaims \/ TakesClaim(w)
  <2>1. CASE Available(reader[w].page)
    BY <1>4, <2>1 DEF ClaimPage, TakesClaim, Become
  <2>2. CASE ~Available(reader[w].page)
    BY <1>4, <1>c, <2>2, KeptClaims DEF ClaimPage, Phases, Claiming
  <2>. QED BY <2>1, <2>2
<1>5. ASSUME NEW w \in Readers, Ask(w) PROVE KeepsClaims
  <2>1. OnlyReader(w)
    <3>1. CASE Goes(w, "asked")
      BY <1>5, <1>c, <3>1 DEF Ask, At, Phases, Claiming
    <3>2. CASE \E t : Become(w, [reader[w] EXCEPT !.phase = "answered", !.text = t])
      BY <1>5, <1>e, <3>2 DEF Ask, At, Claiming
    <3>. QED BY <1>5, <3>1, <3>2 DEF Ask
  <2>. QED BY <1>5, <2>1, KeptClaims DEF Ask
<1>6. ASSUME NEW w \in Readers, Receive(w) PROVE KeepsClaims
  <2>1. OnlyReader(w)
    BY <1>6, <1>e DEF Receive, At, Claiming
  <2>. QED BY <1>6, <2>1, KeptClaims DEF Receive
<1>7. ASSUME NEW w \in Readers, FailCall(w) PROVE KeepsClaims
  BY <1>7, <1>c, KeptClaims DEF FailCall, At, Phases, Claiming
<1>8. ASSUME NEW w \in Readers, RenewForStore(w) PROVE KeepsClaims
  <2>1. OnlyReader(w)
    BY <1>8, <1>c, <1>d DEF RenewForStore, At, Phases, Claiming
  <2>. QED BY <1>8, <2>1, KeptClaims DEF RenewForStore
<1>9. ASSUME NEW w \in Readers, NEW t, Keep(w, t)
      PROVE  OnlyReader(w) /\ reader'[w].phase \notin Claiming
  <2> DEFINE c == [reader[w] EXCEPT !.phase = "reading",
                       !.source[reader[w].page] = IF t = NoText THEN @ ELSE t]
  <2>1. c.phase = "reading"
    BY <1>a, ReaderFields
  <2>2. Become(w, c)
    BY <1>9 DEF Keep
  <2> HIDE DEF c
  <2>. QED BY <1>b, <2>1, <2>2 DEF Claiming
<1>10. ASSUME NEW w \in Readers, StoreReading(w) PROVE KeepsClaims \/ EndsClaim(w)
  <2>1. CASE StillClaimed(w)
    <3>1. reader[w].text \in Answers /\ reader[w].phase \in Claiming
      BY <1>a, <1>10 DEF StoreReading, At, Reader, Claiming
    <3>2. page' = [page EXCEPT ![reader[w].page].status = "succeeded",
                               ![reader[w].page].text = reader[w].text]
      BY <1>10, <2>1 DEF StoreReading
    <3>3. \A v \in Readers \ {w} : reader'[v] = reader[v]
      BY <1>9, <1>10, <2>1 DEF StoreReading, OnlyReader
    <3>4. reader'[w].phase \notin Claiming
      BY <1>9, <1>10, <2>1 DEF StoreReading
    <3>. QED BY <1>10, <2>1, <3>1, <3>2, <3>3, <3>4 DEF StoreReading, EndsClaim
  <2>2. CASE ~StillClaimed(w)
    <3>1. OnlyReader(w) /\ page' = page /\ now' = now
      BY <1>9, <1>10, <2>2 DEF StoreReading
    <3>. QED BY <3>1, KeptClaims
  <2>. QED BY <2>1, <2>2
<1>11. ASSUME NEW w \in Readers, StoreFailure(w) PROVE KeepsClaims \/ EndsClaim(w)
  <2>1. OnlyReader(w)
    BY <1>11, <1>c DEF StoreFailure, Phases, Claiming
  <2>2. reader'[w].phase \notin Claiming /\ reader[w].phase \in Claiming
    BY <1>a, <1>11, BecomeIsLocal DEF StoreFailure, Goes, At, Reader, Claiming
  <2>3. CASE StillClaimed(w)
    BY <1>11, <2>1, <2>2, <2>3, InitialValues DEF StoreFailure, EndsClaim, OnlyReader
  <2>4. CASE ~StillClaimed(w)
    BY <1>11, <2>1, <2>4, KeptClaims DEF StoreFailure
  <2>. QED BY <2>3, <2>4
<1>12. ASSUME NEW w \in Readers, FinishReading(w) PROVE KeepsClaims
  <2>1. OnlyReader(w)
    BY <1>12, <1>c, <1>d DEF FinishReading, Phases, Claiming
  <2>. QED BY <1>12, <2>1, KeptClaims DEF FinishReading
<1>13. ASSUME NEW w \in Readers, Publish(w) \/ Leave(w) \/ Crash(w) PROVE KeepsClaims
  <2>1. OnlyReader(w) /\ page' = page /\ now' = now
    BY <1>13, <1>d DEF Publish, Leave, Crash
  <2>. QED BY <2>1, KeptClaims
<1>14. ASSUME UNCHANGED <<page, reader>>, now' = now \/ now' = now + 1 PROVE KeepsClaims
  BY <1>a, <1>14 DEF KeepsClaims
<1>15. ASSUME NEW w \in Readers, Extract(w) PROVE KeepsClaims
  BY <1>14, <1>15 DEF Extract
<1>16. ASSUME NEW r \in Runs, Lapse(r) PROVE KeepsClaims
  BY <1>14, <1>16 DEF Lapse
<1>17. CASE Tick
  BY <1>14, <1>17 DEF Tick
<1>18. CASE UNCHANGED vars
  BY <1>14, <1>18 DEF vars
<1>. QED BY <1>1, <1>2, <1>3, <1>4, <1>5, <1>6, <1>7, <1>8, <1>10, <1>11, <1>12, <1>13,
            <1>15, <1>16, <1>17, <1>18 DEF Next, ReadPage

-----------------------------------------------------------------------------
(* Workers at work.                                                        *)

LEMMA NextReadersHaveWork ==
    TypeOK /\ ReadersHaveWork /\ [Next]_vars => ReadersHaveWork'
<1> SUFFICES ASSUME TypeOK, ReadersHaveWork, [Next]_vars,
                    NEW v \in Readers
             PROVE  /\ reader'[v].phase # "idle" => reader'[v].run \in Runs
                    /\ reader'[v].phase \in Claiming \cup {"claiming"}
                          => reader'[v].page \in Pages
    BY DEF ReadersHaveWork, At
<1> DEFINE Works == /\ reader'[v].phase # "idle" => reader'[v].run \in Runs
                    /\ reader'[v].phase \in Claiming \cup {"claiming"}
                          => reader'[v].page \in Pages
<1>a. reader \in [Readers -> Reader]
    BY DEF TypeOK
<1>b. \A w \in Readers :
         /\ reader[w].phase # "idle" => reader[w].run \in Runs
         /\ reader[w].phase \in Claiming \cup {"claiming"} => reader[w].page \in Pages
    BY DEF ReadersHaveWork, At
<1>c. ASSUME reader'[v] = reader[v] PROVE Works
    BY <1>b, <1>c
<1>d. ASSUME NEW w \in Readers, NEW c, Become(w, c),
             c.phase # "idle" => c.run \in Runs,
             c.phase \in Claiming \cup {"claiming"} => c.page \in Pages
      PROVE  Works
    BY <1>a, <1>c, <1>d, BecomeIsLocal
<1>e. ASSUME NEW w \in Readers, NEW f, Goes(w, f), reader[w].phase # "idle",
             f \in Claiming \cup {"claiming"}
                => reader[w].phase \in Claiming \cup {"claiming"}
      PROVE  Works
    BY <1>a, <1>b, <1>d, <1>e DEF Goes, Reader
<1>f. ASSUME NEW w \in Readers, Become(w, Idle) PROVE Works
    BY <1>d, <1>f DEF Idle, Claiming
<1>1. ASSUME NEW w \in Readers, NEW r \in Runs, Start(w, r) PROVE Works
    BY <1>d, <1>1 DEF Start, Idle, Claiming
<1>2. ASSUME NEW w \in Readers, Plan(w) PROVE Works
    BY <1>a, <1>b, <1>d, <1>2 DEF Plan, Reader, At, Claiming
<1>3. ASSUME NEW w \in Readers, NextPage(w) PROVE Works
  <2>1. PICK p \in reader[w].todo :
           Become(w, [reader[w] EXCEPT !.phase = "claiming", !.page = p, !.todo = @ \ {p}])
    BY <1>3 DEF NextPage
  <2>2. p \in Pages
    BY <1>a DEF Reader
  <2>. QED BY <1>a, <1>b, <1>d, <1>3, <2>1, <2>2 DEF NextPage, Reader, At
<1>4. ASSUME NEW w \in Readers, ClaimPage(w) PROVE Works
  <2>1. reader[w].page \in Pages /\ reader[w].run \in Runs
    BY <1>b, <1>4 DEF ClaimPage, At
  <2>2. CASE Become(w, [reader[w] EXCEPT !.phase = "claimed", !.started = now])
    BY <1>a, <1>d, <2>1, <2>2 DEF Reader
  <2>3. CASE Goes(w, "reading")
    BY <1>4, <1>e, <2>3 DEF ClaimPage, At, Claiming
  <2>. QED BY <1>4, <2>2, <2>3 DEF ClaimPage
<1>5. ASSUME NEW w \in Readers, reader[w].phase \in Claiming,
             NEW t, Become(w, [reader[w] EXCEPT !.phase = "answered", !.text = t])
      PROVE  Works
    BY <1>a, <1>b, <1>d, <1>5 DEF Reader, Claiming
<1>6. ASSUME NEW w \in Readers, Ask(w) PROVE Works
  <2>1. CASE Goes(w, "asked")
    BY <1>6, <1>e, <2>1 DEF Ask, At, Claiming
  <2>2. CASE \E t : Become(w, [reader[w] EXCEPT !.phase = "answered", !.text = t])
    BY <1>5, <1>6, <2>2 DEF Ask, At, Claiming
  <2>. QED BY <1>6, <2>1, <2>2 DEF Ask
<1>7. ASSUME NEW w \in Readers, Receive(w) PROVE Works
    BY <1>5, <1>7 DEF Receive, At, Claiming
<1>8. ASSUME NEW w \in Readers, FailCall(w) PROVE Works
    BY <1>e, <1>8 DEF FailCall, At, Claiming
<1>9. ASSUME NEW w \in Readers, RenewForStore(w) PROVE Works
    BY <1>e, <1>f, <1>9 DEF RenewForStore, At, Claiming
<1>10. ASSUME NEW w \in Readers, reader[w].phase = "storing", NEW t, Keep(w, t) PROVE Works
    BY <1>a, <1>b, <1>d, <1>10 DEF Keep, Reader, Claiming
<1>11. ASSUME NEW w \in Readers, StoreReading(w) PROVE Works
    BY <1>10, <1>11 DEF StoreReading, At
<1>12. ASSUME NEW w \in Readers, StoreFailure(w) PROVE Works
    BY <1>e, <1>12 DEF StoreFailure, At, Claiming
<1>13. ASSUME NEW w \in Readers, FinishReading(w) PROVE Works
    BY <1>e, <1>f, <1>13 DEF FinishReading, At, Claiming
<1>14. ASSUME NEW w \in Readers, Publish(w) \/ Leave(w) \/ Crash(w) PROVE Works
    BY <1>f, <1>14 DEF Publish, Leave, Crash
<1>15. ASSUME UNCHANGED reader PROVE Works
    BY <1>c, <1>15
<1>. QED BY <1>1, <1>2, <1>3, <1>4, <1>6, <1>7, <1>8, <1>9, <1>11, <1>12, <1>13, <1>14,
            <1>15 DEF Next, ReadPage, Extract, Lapse, Tick, vars

-----------------------------------------------------------------------------
(* The rows and the claims on them.                                        *)

LEMMA NextRowsAreCoherent ==
    TypeOK /\ ReadersHaveWork /\ RowsAreCoherent /\ [Next]_vars => RowsAreCoherent'
<1> SUFFICES ASSUME TypeOK, ReadersHaveWork, RowsAreCoherent, [Next]_vars,
                    NEW p \in Pages
             PROVE  /\ page'[p].status \in {"running", "failed", "unavailable"}
                          => page'[p].text = NoText
                    /\ page'[p].started <= now'
    BY DEF RowsAreCoherent
<1>a. /\ page \in [Pages -> Page] /\ now \in Nat /\ now' \in Nat
      /\ page[p].started \in Nat /\ reader \in [Readers -> Reader]
    BY NextTypeOK DEF TypeOK, Page
<1>b. /\ page[p].status \in {"running", "failed", "unavailable"} => page[p].text = NoText
      /\ page[p].started <= now
    BY DEF RowsAreCoherent
<1>1. CASE KeepsClaims
  <2>1. CASE page'[p] = page[p]
    BY <1>a, <1>b, <1>1, <2>1 DEF KeepsClaims
  <2>2. CASE /\ page[p].text = NoText
             /\ page'[p] = [page[p] EXCEPT !.status = "unavailable"]
    <3>1. page'[p].text = NoText /\ page'[p].started = page[p].started
      BY <1>a, <2>2 DEF Page
    <3>. QED BY <1>a, <1>b, <1>1, <3>1 DEF KeepsClaims
  <2>. QED BY <1>1, <2>1, <2>2 DEF KeepsClaims
<1>2. ASSUME NEW w \in Readers, TakesClaim(w)
      PROVE  /\ page'[p].status \in {"running", "failed", "unavailable"}
                   => page'[p].text = NoText
             /\ page'[p].started <= now'
  <2>1. CASE p = reader[w].page
    <3>1. page'[p].text = page[p].text /\ page'[p].started = now
      BY <1>a, <1>2, <2>1 DEF TakesClaim, Page
    <3>. QED BY <1>a, <1>2, <2>1, <3>1 DEF TakesClaim, Available
  <2>2. CASE p # reader[w].page
    BY <1>a, <1>b, <1>2, <2>2 DEF TakesClaim
  <2>. QED BY <2>1, <2>2
<1>3. ASSUME NEW w \in Readers, EndsClaim(w)
      PROVE  /\ page'[p].status \in {"running", "failed", "unavailable"}
                   => page'[p].text = NoText
             /\ page'[p].started <= now'
  <2>1. CASE p = reader[w].page
    <3>1. \/ page'[p].status = "succeeded"
          \/ page'[p].status = "failed" /\ page'[p].text = page[p].text
      BY <1>a, <1>3, <2>1 DEF EndsClaim, Page
    <3>2. page'[p].started = page[p].started
      BY <1>a, <1>3, <2>1 DEF EndsClaim, Page
    <3>. QED BY <1>a, <1>b, <1>3, <2>1, <3>1, <3>2 DEF EndsClaim, StillClaimed
  <2>2. CASE p # reader[w].page
    BY <1>a, <1>b, <1>3, <2>2 DEF EndsClaim
  <2>. QED BY <2>1, <2>2
<1>. QED BY <1>1, <1>2, <1>3, PageSteps

LEMMA NextClaimsStandOrAreStale ==
    ClaimInv /\ [Next]_vars => ClaimsStandOrAreStale'
<1> SUFFICES ASSUME ClaimInv, [Next]_vars, NEW v \in Readers,
                    reader'[v].phase \in Claiming
             PROVE  /\ reader'[v].started <= now'
                    /\ \/ /\ page'[reader'[v].page].status = "running"
                          /\ page'[reader'[v].page].started = reader'[v].started
                       \/ reader'[v].started + Stale <= page'[reader'[v].page].started
    BY DEF ClaimsStandOrAreStale, ClaimStandsOrIsStale, StillClaimed
<1> DEFINE q == reader[v].page
           StandsOrStale == /\ reader'[v].started <= now'
                            /\ \/ /\ page'[reader'[v].page].status = "running"
                                  /\ page'[reader'[v].page].started = reader'[v].started
                               \/ reader'[v].started + Stale <= page'[reader'[v].page].started
<1>a. /\ page \in [Pages -> Page] /\ now \in Nat /\ now' \in Nat /\ Stale \in Nat \ {0}
      /\ reader \in [Readers -> Reader] /\ ReadersHaveWork /\ TypeOK
      /\ reader[v].started \in Nat
    BY NextTypeOK, PagesAssumption DEF ClaimInv, TypeOK, Reader
<1>b. ASSUME reader[v].phase \in Claiming
      PROVE  /\ q \in Pages /\ reader[v].started <= now
             /\ \/ page[q].status = "running" /\ page[q].started = reader[v].started
                \/ reader[v].started + Stale <= page[q].started
    BY <1>b DEF ClaimInv, ClaimsStandOrAreStale, ClaimStandsOrIsStale, StillClaimed,
                ReadersHaveWork
<1>1. CASE KeepsClaims
  <2>1. /\ reader[v].phase \in Claiming /\ reader'[v].page = q
        /\ reader'[v].started = reader[v].started /\ now <= now'
    BY <1>1 DEF KeepsClaims
  <2>2. /\ page'[q].started = page[q].started
        /\ page[q].status = "running" => page'[q].status = "running"
    BY <1>a, <1>b, <1>1, <2>1 DEF KeepsClaims, Page
  <2>. QED BY <1>a, <1>b, <2>1, <2>2
<1>2. ASSUME NEW w \in Readers, TakesClaim(w) PROVE StandsOrStale
  <2>0. reader[w].page \in Pages
    BY <1>a, <1>2 DEF TakesClaim, ReadersHaveWork
  <2>t. /\ page'[reader[w].page].status = "running"
        /\ page'[reader[w].page].started = now
        /\ \A p \in Pages : p # reader[w].page => page'[p] = page[p]
    BY <1>a, <1>2, <2>0 DEF TakesClaim, Page
  <2>1. CASE v = w
    <3>1. reader'[v].page = reader[w].page /\ reader'[v].started = now
      BY <1>a, <1>2, <2>1 DEF TakesClaim, Reader
    <3>2. now' = now
      BY <1>2 DEF TakesClaim
    <3>. QED BY <1>a, <2>t, <3>1, <3>2
  <2>2. CASE v # w
    <3>1. reader'[v] = reader[v] /\ now' = now
      BY <1>a, <1>2, <2>2 DEF TakesClaim
    <3>2. CASE q = reader[w].page
      <4>1. page[q].status = "running" => page[q].started + Stale <= now
        BY <1>2, <3>2 DEF TakesClaim, Available
      <4>2. page[q].started \in Nat /\ page[q].started <= now
        BY <1>a, <1>b, <3>1 DEF Page, ClaimInv, RowsAreCoherent
      <4>. QED BY <1>a, <1>b, <2>t, <3>1, <3>2, <4>1, <4>2
    <3>3. CASE q # reader[w].page
      BY <1>a, <1>b, <2>t, <3>1, <3>3
    <3>. QED BY <3>2, <3>3
  <2>. QED BY <2>1, <2>2
<1>3. ASSUME NEW w \in Readers, EndsClaim(w) PROVE StandsOrStale
  <2>1. v # w
    BY <1>3 DEF EndsClaim
  <2>2. reader'[v] = reader[v] /\ now' = now
    BY <1>3, <2>1 DEF EndsClaim
  <2>3. reader[w].page \in Pages /\ reader[w].started \in Nat
    BY <1>a, <1>3 DEF EndsClaim, ReadersHaveWork, Reader
  <2>4. CASE q = reader[w].page
    <3>1. page'[q].started = page[q].started
      BY <1>a, <1>3, <2>3, <2>4 DEF EndsClaim, Page
    <3>2. \/ reader[v].started + Stale <= reader[w].started
          \/ reader[w].started + Stale <= reader[v].started
      BY <1>3, <2>1, <2>2, <2>4 DEF EndsClaim, ClaimInv, ClaimsAreApart
    <3>3. page[q].started = reader[w].started
      BY <1>3, <2>4 DEF EndsClaim, StillClaimed
    <3>4. reader[v].started + Stale <= page[q].started
      BY <1>a, <1>b, <2>2, <2>3, <3>2, <3>3
    <3>. QED BY <1>b, <2>2, <3>1, <3>4
  <2>5. CASE q # reader[w].page
    <3>1. page'[q] = page[q]
      BY <1>a, <1>b, <1>3, <2>2, <2>5 DEF EndsClaim
    <3>. QED BY <1>b, <2>2, <3>1
  <2>. QED BY <2>4, <2>5
<1>. QED BY <1>a, <1>1, <1>2, <1>3, PageSteps

LEMMA NextClaimsAreApart ==
    ClaimInv /\ [Next]_vars => ClaimsAreApart'
<1> SUFFICES ASSUME ClaimInv, [Next]_vars, NEW u \in Readers, NEW v \in Readers, u # v,
                    reader'[u].page = reader'[v].page,
                    reader'[u].phase \in Claiming, reader'[v].phase \in Claiming
             PROVE  \/ reader'[u].started + Stale <= reader'[v].started
                    \/ reader'[v].started + Stale <= reader'[u].started
    BY DEF ClaimsAreApart
<1> DEFINE Apart == \/ reader'[u].started + Stale <= reader'[v].started
                    \/ reader'[v].started + Stale <= reader'[u].started
<1>a. /\ page \in [Pages -> Page] /\ now \in Nat /\ Stale \in Nat \ {0}
      /\ reader \in [Readers -> Reader] /\ ReadersHaveWork /\ TypeOK
    BY PagesAssumption DEF ClaimInv, TypeOK
<1>b. ASSUME reader[u].phase \in Claiming, reader[v].phase \in Claiming,
             reader'[u].page = reader[u].page, reader'[u].started = reader[u].started,
             reader'[v].page = reader[v].page, reader'[v].started = reader[v].started
      PROVE  Apart
    BY <1>b DEF ClaimInv, ClaimsAreApart
\* A claim that is taken on a page is Stale younger than any other on it.
<1>c. ASSUME NEW w \in Readers, NEW x \in Readers, w # x, TakesClaim(w),
             reader'[x].phase \in Claiming, reader'[w].page = reader'[x].page
      PROVE  reader'[x].started + Stale <= reader'[w].started
  <2>1. reader'[x] = reader[x] /\ reader'[w].started = now
        /\ reader'[w].page = reader[w].page
    BY <1>a, <1>c DEF TakesClaim, Reader
  <2>2. Available(reader[x].page)
    BY <1>c, <2>1 DEF TakesClaim
  <2>3. reader[x].page \in Pages
    BY <1>a, <1>c, <2>1 DEF ReadersHaveWork
  <2>4. ClaimStandsOrIsStale(x) /\ page[reader[x].page].started <= now
    BY <2>3 DEF ClaimInv, ClaimsStandOrAreStale, RowsAreCoherent
  <2>5. page[reader[x].page].started \in Nat /\ reader[x].started \in Nat
    BY <1>a, <2>3 DEF Page, Reader
  <2>6. CASE StillClaimed(x)
    BY <2>1, <2>2, <2>6 DEF StillClaimed, Available
  <2>7. CASE reader[x].started + Stale <= page[reader[x].page].started
    BY <1>a, <2>1, <2>4, <2>5, <2>7
  <2>. QED BY <1>c, <2>1, <2>4, <2>6, <2>7 DEF ClaimStandsOrIsStale
<1>1. CASE KeepsClaims
  BY <1>b, <1>1 DEF KeepsClaims
<1>2. ASSUME NEW w \in Readers, TakesClaim(w) PROVE Apart
  <2>1. CASE u = w
    BY <1>c, <1>2, <2>1
  <2>2. CASE v = w
    BY <1>c, <1>2, <2>2
  <2>3. CASE u # w /\ v # w
    BY <1>a, <1>b, <1>2, <2>3 DEF TakesClaim
  <2>. QED BY <2>1, <2>2, <2>3
<1>3. ASSUME NEW w \in Readers, EndsClaim(w) PROVE Apart
  <2>1. u # w /\ v # w
    BY <1>3 DEF EndsClaim
  <2>. QED BY <1>b, <1>3, <2>1 DEF EndsClaim
<1>. QED BY <1>a, <1>1, <1>2, <1>3, PageSteps

LEMMA InitClaimInv == Init => ClaimInv
<1> SUFFICES ASSUME Init PROVE ClaimInv
    OBVIOUS
<1>1. TypeOK
    BY InitTypeOK
<1>2. \A w \in Readers : reader[w].phase = "idle"
    BY DEF Init, Idle
<1>3. \A p \in Pages : page[p].status = "null" /\ page[p].started = 0
    BY DEF Init
<1>4. now = 0
    BY DEF Init
<1>. QED BY <1>1, <1>2, <1>3, <1>4 DEF ClaimInv, ReadersHaveWork, At, RowsAreCoherent,
     ClaimsStandOrAreStale, ClaimStandsOrIsStale, ClaimsAreApart, Claiming

LEMMA NextClaimInv == ClaimInv /\ [Next]_vars => ClaimInv'
  BY NextTypeOK, NextReadersHaveWork, NextRowsAreCoherent, NextClaimsStandOrAreStale,
     NextClaimsAreApart DEF ClaimInv

LEMMA SpecClaimInv == Spec => []ClaimInv
  BY InitClaimInv, NextClaimInv, PTL DEF Spec

\* Every step leaves the rows, the runs and the readers within their types, whatever
\* the document, the runs and the limits (ocr.ts, runClaimedJob).
THEOREM SpecTypeOK == Spec => []TypeOK
  <1>1. ClaimInv => TypeOK
    BY DEF ClaimInv
  <1>. QED BY <1>1, SpecClaimInv, PTL

\* Two readers are at one page only where the claim of one was stale before the other
\* claimed it, whatever becomes of their runs (claimOcrPage).
THEOREM SpecOneReadingAtATime == Spec => []OneReadingAtATime
  <1>1. ClaimInv => OneReadingAtATime
    BY DEF ClaimInv, ClaimsAreApart, OneReadingAtATime, Claiming
  <1>. QED BY <1>1, SpecClaimInv, PTL

\* Nothing that comes after a page's first reading changes what the page holds: no
\* late answer, no failure, no plan (storeOcrRead, storeOcrEmpty, storeOcrFailure).
THEOREM SpecFirstReadingIsKept == Spec => FirstReadingIsKept
<1>1. ASSUME TypeOK, ReadersHaveWork, [Next]_vars, NEW p \in Pages,
             page[p].status = "succeeded"
      PROVE  page'[p] = page[p]
  <2>a. page \in [Pages -> Page]
    BY <1>1 DEF TypeOK
  <2>1. CASE KeepsClaims
    BY <1>1, <2>1 DEF KeepsClaims
  <2>2. ASSUME NEW w \in Readers, TakesClaim(w) PROVE page'[p] = page[p]
    <3>1. ~Available(p)
      BY <1>1 DEF Available
    <3>. QED BY <2>a, <2>2, <3>1 DEF TakesClaim
  <2>3. ASSUME NEW w \in Readers, EndsClaim(w) PROVE page'[p] = page[p]
    <3>1. p # reader[w].page
      BY <1>1, <2>3 DEF EndsClaim, StillClaimed
    <3>. QED BY <2>a, <2>3, <3>1 DEF EndsClaim
  <2>. QED BY <1>1, <2>1, <2>2, <2>3, PageSteps
<1>2. ClaimInv /\ [Next]_vars =>
         [\A p \in Pages : page[p].status = "succeeded" => page'[p] = page[p]]_vars
  BY <1>1 DEF ClaimInv
<1>. QED BY <1>2, SpecClaimInv, PTL DEF Spec, FirstReadingIsKept

-----------------------------------------------------------------------------
(* The text, and the progress made from it.                                *)

LEMMA TextIsKept ==
    ASSUME TypeOK, ReadersHaveWork, RowsAreCoherent, [Next]_vars,
           NEW p \in Pages, page[p].text # NoText
    PROVE  page'[p].text = page[p].text
<1>a. page \in [Pages -> Page]
    BY DEF TypeOK
<1>1. CASE KeepsClaims
    BY <1>1 DEF KeepsClaims
<1>2. ASSUME NEW w \in Readers, TakesClaim(w) PROVE page'[p].text = page[p].text
    BY <1>a, <1>2 DEF TakesClaim, Page
<1>3. ASSUME NEW w \in Readers, EndsClaim(w) PROVE page'[p].text = page[p].text
  <2>1. p # reader[w].page
    BY <1>3 DEF EndsClaim, StillClaimed, RowsAreCoherent
  <2>. QED BY <1>a, <1>3, <2>1 DEF EndsClaim
<1>. QED BY <1>1, <1>2, <1>3, PageSteps

\* A reader's text grows by what the rows hold; at the start it is what they hold.
SourceMoves ==
    \A w \in Readers :
        \/ reader'[w].phase = "idle" /\ \A p \in Pages : reader'[w].source[p] = NoText
        \/ /\ reader[w].phase # "idle" /\ reader'[w].run = reader[w].run
           /\ \A p \in Pages : \/ reader'[w].source[p] = reader[w].source[p]
                               \/ /\ reader'[w].source[p] # NoText
                                  /\ reader'[w].source[p] = page'[p].text
        \/ /\ reader[w].phase = "idle" /\ reader'[w].run \in Runs
           /\ \A p \in Pages : reader'[w].source[p] = page'[p].text
        \/ reader'[w] = reader[w]

LEMMA SourceSteps == TypeOK /\ ReadersHaveWork /\ [Next]_vars => SourceMoves
<1> SUFFICES ASSUME TypeOK, ReadersHaveWork, [Next]_vars, NEW v \in Readers
             PROVE  \/ reader'[v].phase = "idle" /\ \A p \in Pages : reader'[v].source[p] = NoText
                    \/ /\ reader[v].phase # "idle" /\ reader'[v].run = reader[v].run
                       /\ \A p \in Pages : \/ reader'[v].source[p] = reader[v].source[p]
                                           \/ /\ reader'[v].source[p] # NoText
                                              /\ reader'[v].source[p] = page'[p].text
                    \/ /\ reader[v].phase = "idle" /\ reader'[v].run \in Runs
                       /\ \A p \in Pages : reader'[v].source[p] = page'[p].text
                    \/ reader'[v] = reader[v]
    BY DEF SourceMoves
<1> DEFINE Moves ==
       \/ reader'[v].phase = "idle" /\ \A p \in Pages : reader'[v].source[p] = NoText
       \/ /\ reader[v].phase # "idle" /\ reader'[v].run = reader[v].run
          /\ \A p \in Pages : \/ reader'[v].source[p] = reader[v].source[p]
                              \/ /\ reader'[v].source[p] # NoText
                                 /\ reader'[v].source[p] = page'[p].text
       \/ /\ reader[v].phase = "idle" /\ reader'[v].run \in Runs
          /\ \A p \in Pages : reader'[v].source[p] = page'[p].text
       \/ reader'[v] = reader[v]
<1>a. reader \in [Readers -> Reader] /\ page \in [Pages -> Page]
    BY DEF TypeOK
\* A step that leaves the text of its reader alone.
<1>b. ASSUME NEW w \in Readers, NEW c, Become(w, c), reader[w].phase # "idle",
             c.run = reader[w].run, c.source = reader[w].source
      PROVE  Moves
    BY <1>a, <1>b, BecomeIsLocal
<1>c. ASSUME NEW w \in Readers, NEW f, Goes(w, f), reader[w].phase # "idle"
      PROVE  Moves
  <2> DEFINE c == [reader[w] EXCEPT !.phase = f]
  <2>1. c.run = reader[w].run /\ c.source = reader[w].source
    BY <1>a DEF Reader
  <2>2. Become(w, c)
    BY <1>c DEF Goes
  <2> HIDE DEF c
  <2>. QED BY <1>b, <1>c, <2>1, <2>2
<1>d. ASSUME NEW w \in Readers, Become(w, Idle) PROVE Moves
  <2>1. Idle.phase = "idle" /\ \A p \in Pages : Idle.source[p] = NoText
    BY DEF Idle
  <2>. QED BY <1>a, <1>d, <2>1, BecomeIsLocal
<1>1. ASSUME NEW w \in Readers, NEW r \in Runs, Start(w, r) PROVE Moves
  <2> DEFINE c == [Idle EXCEPT !.phase = "loaded", !.run = r, !.source = LoadSource]
  <2>1. c.run = r /\ c.source = LoadSource
    BY DEF Idle
  <2>2. Become(w, c) /\ page' = page /\ reader[w].phase = "idle"
    BY <1>1 DEF Start, At
  <2>3. \A p \in Pages : LoadSource[p] = page[p].text
    BY DEF LoadSource
  <2> HIDE DEF c
  <2>. QED BY <1>a, <2>1, <2>2, <2>3, BecomeIsLocal
<1>2. ASSUME NEW w \in Readers, Plan(w) PROVE Moves
  <2>1. PICK t : Become(w, [reader[w] EXCEPT !.phase = "reading", !.todo = t])
    BY <1>2 DEF Plan
  <2> DEFINE c == [reader[w] EXCEPT !.phase = "reading", !.todo = t]
  <2>2. c.run = reader[w].run /\ c.source = reader[w].source
    BY <1>a DEF Reader
  <2>3. Become(w, c)
    BY <2>1
  <2> HIDE DEF c
  <2>. QED BY <1>b, <1>2, <2>2, <2>3 DEF Plan, At
<1>3. ASSUME NEW w \in Readers, NextPage(w) PROVE Moves
  <2>1. PICK q : Become(w, [reader[w] EXCEPT !.phase = "claiming", !.page = q,
                                             !.todo = @ \ {q}])
    BY <1>3 DEF NextPage
  <2> DEFINE c == [reader[w] EXCEPT !.phase = "claiming", !.page = q, !.todo = @ \ {q}]
  <2>2. c.run = reader[w].run /\ c.source = reader[w].source
    BY <1>a DEF Reader
  <2>3. Become(w, c)
    BY <2>1
  <2> HIDE DEF c
  <2>. QED BY <1>b, <1>3, <2>2, <2>3 DEF NextPage, At
<1>4. ASSUME NEW w \in Readers, ClaimPage(w) PROVE Moves
  <2>1. CASE Goes(w, "reading")
    BY <1>c, <1>4, <2>1 DEF ClaimPage, At
  <2>2. CASE Become(w, [reader[w] EXCEPT !.phase = "claimed", !.started = now])
    <3> DEFINE c == [reader[w] EXCEPT !.phase = "claimed", !.started = now]
    <3>1. c.run = reader[w].run /\ c.source = reader[w].source
      BY <1>a DEF Reader
    <3>2. Become(w, c)
      BY <2>2
    <3> HIDE DEF c
    <3>. QED BY <1>b, <1>4, <3>1, <3>2 DEF ClaimPage, At
  <2>. QED BY <1>4, <2>1, <2>2 DEF ClaimPage
<1>e. ASSUME NEW w \in Readers, reader[w].phase # "idle",
             NEW t, Become(w, [reader[w] EXCEPT !.phase = "answered", !.text = t])
      PROVE  Moves
  <2> DEFINE c == [reader[w] EXCEPT !.phase = "answered", !.text = t]
  <2>1. c.run = reader[w].run /\ c.source = reader[w].source
    BY <1>a DEF Reader
  <2>2. Become(w, c)
    BY <1>e
  <2> HIDE DEF c
  <2>. QED BY <1>b, <1>e, <2>1, <2>2
<1>5. ASSUME NEW w \in Readers, Ask(w) PROVE Moves
    BY <1>c, <1>e, <1>5 DEF Ask, At
<1>6. ASSUME NEW w \in Readers, Receive(w) PROVE Moves
    BY <1>e, <1>6 DEF Receive, At
<1>7. ASSUME NEW w \in Readers, FailCall(w) PROVE Moves
    BY <1>c, <1>7 DEF FailCall, At
<1>8. ASSUME NEW w \in Readers, RenewForStore(w) PROVE Moves
    BY <1>c, <1>d, <1>8 DEF RenewForStore, At
<1>9. ASSUME NEW w \in Readers, NEW t, Keep(w, t), reader[w].phase # "idle",
             t # NoText => page'[reader[w].page].text = t
      PROVE  Moves
  <2> DEFINE q == reader[w].page
             u == [reader[w].source EXCEPT ![q] = IF t = NoText THEN @ ELSE t]
             c == [reader[w] EXCEPT !.phase = "reading", !.source = u]
  <2>1. Become(w, c)
    BY <1>9 DEF Keep
  <2>2. c.run = reader[w].run /\ c.source = u
    BY <1>a DEF Reader
  <2>3. reader[w].source \in [Pages -> Answers]
    BY <1>a DEF Reader
  <2>4. ASSUME NEW p \in Pages
        PROVE  u[p] = reader[w].source[p] \/ (u[p] # NoText /\ u[p] = page'[p].text)
    <3>1. CASE p = q /\ t # NoText
      BY <1>9, <2>3, <3>1
    <3>2. CASE p # q \/ t = NoText
      BY <2>3, <3>2
    <3>. QED BY <3>1, <3>2
  <2> HIDE DEF c, u
  <2>5. reader'[w] = c /\ (v # w => reader'[v] = reader[v])
    BY <1>a, <2>1, BecomeIsLocal
  <2>. QED BY <1>9, <2>2, <2>4, <2>5
<1>10. ASSUME NEW w \in Readers, StoreReading(w) PROVE Moves
  <2>1. reader[w].page \in Pages
    BY <1>10 DEF StoreReading, ReadersHaveWork, At, Claiming
  <2>2. CASE StillClaimed(w)
    <3>1. page' = [page EXCEPT ![reader[w].page].status = "succeeded",
                               ![reader[w].page].text = reader[w].text]
      BY <1>10, <2>2 DEF StoreReading
    <3>2. page'[reader[w].page].text = reader[w].text
      BY <1>a, <2>1, <3>1 DEF Page
    <3>3. Keep(w, reader[w].text) /\ reader[w].phase = "storing"
      BY <1>10, <2>2 DEF StoreReading, At
    <3>. QED BY <1>9, <3>2, <3>3
  <2>3. CASE ~StillClaimed(w)
    BY <1>9, <1>10, <2>3 DEF StoreReading, At
  <2>. QED BY <2>2, <2>3
<1>11. ASSUME NEW w \in Readers, StoreFailure(w) PROVE Moves
    BY <1>c, <1>11 DEF StoreFailure, At
<1>12. ASSUME NEW w \in Readers, FinishReading(w) PROVE Moves
    BY <1>c, <1>d, <1>12 DEF FinishReading, At
<1>13. ASSUME NEW w \in Readers, Publish(w) \/ Leave(w) \/ Crash(w) PROVE Moves
    BY <1>d, <1>13 DEF Publish, Leave, Crash
<1>14. ASSUME UNCHANGED reader PROVE Moves
    BY <1>14
<1>. QED BY <1>1, <1>2, <1>3, <1>4, <1>5, <1>6, <1>7, <1>8, <1>10, <1>11, <1>12, <1>13,
            <1>14 DEF Next, ReadPage, Extract, Lapse, Tick, vars

LEMMA NextRunWorksFromTheRow ==
    TextInv /\ [Next]_vars => RunWorksFromTheRow'
<1> SUFFICES ASSUME TextInv, [Next]_vars, NEW w \in Readers, NEW p \in Pages,
                    reader'[w].source[p] # NoText
             PROVE  reader'[w].source[p] = page'[p].text
    BY DEF RunWorksFromTheRow
<1>1. SourceMoves
    BY SourceSteps DEF TextInv
<1>2. CASE reader'[w].source[p] = page'[p].text
    BY <1>2
<1>3. CASE reader'[w].source[p] = reader[w].source[p]
  <2>1. reader[w].source[p] = page[p].text
    BY <1>3 DEF TextInv, RunWorksFromTheRow
  <2>2. page[p].text # NoText
    BY <1>3, <2>1
  <2>. QED BY <1>3, <2>1, <2>2, TextIsKept DEF TextInv
<1>. QED BY <1>1, <1>2, <1>3 DEF SourceMoves

\* A run is given up or ended, taken by a reader who has the text of the rows, or
\* makes progress from the text of the reader who has it.
RunMove(r) ==
    \/ /\ run'[r].seen = run[r].seen /\ run'[r].state = run[r].state
       /\ run'[r].owner \in {run[r].owner, NoReader}
    \/ /\ run'[r].seen = run[r].seen /\ run'[r].owner = NoReader
       /\ run'[r].state = "refused" =>
             \E p \in Pages : p \notin run[r].seen /\ page[p].text # NoText
    \/ /\ run'[r].seen = run[r].seen /\ run[r].state = "open" /\ run'[r].state = "open"
       /\ \E w \in Readers : /\ run'[r].owner = w
                             /\ \A p \in Pages : reader'[w].source[p] = page[p].text
    \/ \E w \in Readers : /\ run[r].owner = w /\ run'[r].owner = w
                          /\ run'[r].state = run[r].state
                          /\ run'[r].seen = Written(reader[w].source)
                          /\ reader' = reader

LEMMA RunSteps ==
    ASSUME TextInv, [Next]_vars, NEW r \in Runs
    PROVE  RunMove(r)
<1>a. run \in [Runs -> Run] /\ reader \in [Readers -> Reader]
    BY DEF TextInv, TypeOK
<1>b. ASSUME run'[r] = run[r] PROVE RunMove(r)
    BY <1>b DEF RunMove
<1>c. ASSUME NEW q \in Runs, run' = [run EXCEPT ![q].owner = NoReader] PROVE RunMove(r)
  <2>1. CASE q = r
    BY <1>a, <1>c, <2>1 DEF RunMove, Run
  <2>2. CASE q # r
    BY <1>a, <1>b, <1>c, <2>2
  <2>. QED BY <2>1, <2>2
<1>1. ASSUME NEW w \in Readers, NEW q \in Runs, Start(w, q) PROVE RunMove(r)
  <2>1. run' = [run EXCEPT ![q].owner = w] /\ run[q].state = "open"
    BY <1>1 DEF Start
  <2>2. \A p \in Pages : reader'[w].source[p] = page[p].text
    <3> DEFINE c == [Idle EXCEPT !.phase = "loaded", !.run = q, !.source = LoadSource]
    <3>1. c.source = LoadSource
      BY DEF Idle
    <3>2. Become(w, c)
      BY <1>1 DEF Start
    <3> HIDE DEF c
    <3>. QED BY <1>a, <3>1, <3>2, BecomeIsLocal DEF LoadSource
  <2>3. CASE q = r
    <3>1. run'[r].seen = run[r].seen /\ run'[r].state = run[r].state /\ run'[r].owner = w
      BY <1>a, <2>1, <2>3 DEF Run
    <3>. QED BY <2>1, <2>2, <2>3, <3>1 DEF RunMove
  <2>4. CASE q # r
    BY <1>a, <1>b, <2>1, <2>4
  <2>. QED BY <2>3, <2>4
<1>2. ASSUME NEW w \in Readers, FinishReading(w) PROVE RunMove(r)
  <2> DEFINE q == reader[w].run
  <2>1. q \in Runs /\ Owns(w) /\ reader[w].phase = "reading"
    BY <1>2, OwnsRun DEF FinishReading, At
  <2>2. CASE UNCHANGED run
    BY <1>b, <2>2
  <2>3. CASE /\ PlanOf(run[q].seen) # PlanOf(Written(reader[w].source))
             /\ run' = [run EXCEPT ![q].state = "refused", ![q].owner = NoReader]
    <3>1. run[q].seen \subseteq Written(reader[w].source)
      BY <1>a, <2>1 DEF TextInv, ProgressIsRead, At, Written, Run
    <3>2. PICK p \in Written(reader[w].source) : p \notin run[q].seen
      BY <2>3, <3>1 DEF PlanOf
    <3>3. p \in Pages /\ page[p].text # NoText
      BY <3>2 DEF Written, TextInv, RunWorksFromTheRow
    <3>4. CASE q = r
      BY <1>a, <2>3, <3>2, <3>3, <3>4 DEF RunMove, Run
    <3>5. CASE q # r
      BY <1>a, <1>b, <2>1, <2>3, <3>5
    <3>. QED BY <3>4, <3>5
  <2>. QED BY <1>2, <2>2, <2>3 DEF FinishReading
<1>3. ASSUME NEW w \in Readers, Extract(w) PROVE RunMove(r)
  <2> DEFINE q == reader[w].run
             W == Written(reader[w].source)
  <2>1. PICK s \in Remaining(w) :
          run' = [run EXCEPT ![q].seen = W, ![q].done = @ \cup {s},
                             ![q].sent = @ \cup {p \in W : SectionOf[p] = s}]
    BY <1>3 DEF Extract
  <2>2. q \in Runs /\ run[q].owner = w /\ reader' = reader
    BY <1>3, OwnsRun DEF Extract, Owns
  <2>3. CASE q = r
    <3>1. run'[r].seen = W /\ run'[r].owner = w /\ run'[r].state = run[r].state
      BY <1>a, <2>1, <2>2, <2>3 DEF Run
    <3>. QED BY <2>2, <2>3, <3>1 DEF RunMove
  <2>4. CASE q # r
    BY <1>a, <1>b, <2>1, <2>2, <2>4
  <2>. QED BY <2>3, <2>4
<1>4. ASSUME NEW w \in Readers, Publish(w) PROVE RunMove(r)
  <2> DEFINE q == reader[w].run
  <2>1. q \in Runs
    BY <1>4, OwnsRun DEF Publish
  <2>2. run' = [run EXCEPT ![q].state = "completed", ![q].owner = NoReader]
    BY <1>4 DEF Publish
  <2>3. CASE q = r
    BY <1>a, <2>1, <2>2, <2>3 DEF RunMove, Run
  <2>4. CASE q # r
    BY <1>a, <1>b, <2>1, <2>2, <2>4
  <2>. QED BY <2>3, <2>4
<1>5. ASSUME NEW w \in Readers, Leave(w) \/ Crash(w) PROVE RunMove(r)
  <2>1. CASE Owns(w)
    BY <1>c, <1>5, <2>1, OwnsRun DEF Leave, Crash
  <2>2. CASE ~Owns(w)
    BY <1>b, <1>5, <2>2 DEF Leave, Crash
  <2>. QED BY <2>1, <2>2
<1>6. ASSUME NEW q \in Runs, Lapse(q) PROVE RunMove(r)
    BY <1>c, <1>6 DEF Lapse
<1>7. ASSUME UNCHANGED run PROVE RunMove(r)
    BY <1>b, <1>7
<1>. QED BY <1>1, <1>2, <1>3, <1>4, <1>5, <1>6, <1>7
         DEF Next, ReadPage, Plan, NextPage, ClaimPage, Ask, Receive, FailCall,
             RenewForStore, StoreReading, StoreFailure, Tick, vars

LEMMA NextRunInv ==
    TextInv /\ [Next]_vars => ProgressIsRead' /\ EndedRunsAreFree' /\ OnlyNewTextStrandsARun'
<1> SUFFICES ASSUME TextInv, [Next]_vars
             PROVE  ProgressIsRead' /\ EndedRunsAreFree' /\ OnlyNewTextStrandsARun'
    OBVIOUS
<1>a. /\ TypeOK /\ ReadersHaveWork /\ RowsAreCoherent /\ RunWorksFromTheRow
      /\ ProgressIsRead /\ EndedRunsAreFree /\ OnlyNewTextStrandsARun
      /\ run \in [Runs -> Run]
    BY DEF TextInv, TypeOK
<1>b. \A p \in Pages : page[p].text # NoText => page'[p].text = page[p].text
    BY <1>a, TextIsKept
<1>c. \A r \in Runs : RunMove(r)
    BY RunSteps
<1>d. SourceMoves
    BY <1>a, SourceSteps
<1>e. \A r \in Runs : run[r].seen \subseteq Pages /\ run[r].owner \in Readers \cup {NoReader}
    BY <1>a DEF Run
<1>1. ASSUME NEW r \in Runs, NEW p \in run'[r].seen PROVE page'[p].text # NoText
  <2>1. CASE run'[r].seen = run[r].seen
    BY <1>a, <1>b, <1>e, <1>1, <2>1 DEF ProgressIsRead
  <2>2. CASE \E w \in Readers : run'[r].seen = Written(reader[w].source)
    BY <1>a, <1>b, <1>1, <2>2 DEF Written, RunWorksFromTheRow
  <2>. QED BY <1>c, <2>1, <2>2 DEF RunMove
<1>2. ASSUME NEW w \in Readers, reader'[w].phase # "idle",
             reader'[w].run \in Runs, run'[reader'[w].run].owner = w,
             NEW p \in run'[reader'[w].run].seen
      PROVE  reader'[w].source[p] # NoText
  <2> DEFINE r == reader'[w].run
  <2>0. w # NoReader
    BY PagesAssumption
  <2>1. CASE run'[r].seen = run[r].seen /\ run'[r].owner = run[r].owner
    <3>0. p \in Pages /\ page[p].text # NoText
      BY <1>a, <1>e, <1>2, <2>1 DEF ProgressIsRead
    <3>1. CASE \A q \in Pages : reader'[w].source[q] = page'[q].text
      BY <1>b, <3>0, <3>1
    <3>2. CASE reader[w].phase # "idle" /\ reader[w].run = r
      <4>1. reader[w].source[p] # NoText
        BY <1>a, <1>2, <2>1, <3>2 DEF ProgressIsRead, At, Owns
      <4>. QED BY <1>d, <1>2, <3>0, <3>1, <4>1 DEF SourceMoves
    <3>. QED BY <1>d, <1>2, <3>1, <3>2 DEF SourceMoves
  <2>2. CASE /\ run'[r].seen = run[r].seen
             /\ \A q \in Pages : reader'[w].source[q] = page[q].text
    BY <1>a, <1>e, <1>2, <2>2 DEF ProgressIsRead
  <2>3. CASE run'[r].seen = Written(reader[w].source) /\ reader' = reader
    BY <1>2, <2>3 DEF Written
  <2>. QED BY <1>c, <1>2, <2>0, <2>1, <2>2, <2>3 DEF RunMove
<1>3. ProgressIsRead'
    BY <1>1, <1>2 DEF ProgressIsRead, At, Owns
<1>4. EndedRunsAreFree'
  <2> SUFFICES ASSUME NEW r \in Runs, run'[r].state # "open" PROVE run'[r].owner = NoReader
      BY DEF EndedRunsAreFree
  <2>1. run[r].state # "open" => run[r].owner = NoReader
    BY <1>a DEF EndedRunsAreFree
  <2>2. NoReader \notin Readers
    BY PagesAssumption
  <2>. QED BY <1>c, <2>1, <2>2 DEF RunMove
<1>5. OnlyNewTextStrandsARun'
  <2> SUFFICES ASSUME NEW r \in Runs, run'[r].state = "refused"
               PROVE  \E p \in Pages : page'[p].text # NoText /\ p \notin run'[r].seen
      BY DEF OnlyNewTextStrandsARun
  <2>1. run[r].state = "refused" =>
           \E p \in Pages : page'[p].text # NoText /\ p \notin run[r].seen
    BY <1>a, <1>b DEF OnlyNewTextStrandsARun
  <2>2. run[r].state = "refused" => run[r].owner = NoReader
    BY <1>a DEF EndedRunsAreFree
  <2>3. NoReader \notin Readers
    BY PagesAssumption
  <2>. QED BY <1>b, <1>c, <2>1, <2>2, <2>3 DEF RunMove
<1>. QED BY <1>3, <1>4, <1>5

LEMMA InitTextInv == Init => TextInv
<1> SUFFICES ASSUME Init PROVE TextInv
    OBVIOUS
<1>1. TypeOK /\ ReadersHaveWork /\ RowsAreCoherent
    BY InitClaimInv DEF ClaimInv
<1>2. \A w \in Readers : reader[w].phase = "idle" /\ \A p \in Pages : reader[w].source[p] = NoText
    BY DEF Init, Idle
<1>3. \A r \in Runs : /\ run[r].seen = {} /\ run[r].state = "open"
    BY DEF Init, Unstarted
<1>. QED BY <1>1, <1>2, <1>3 DEF TextInv, RunWorksFromTheRow, ProgressIsRead, At,
     EndedRunsAreFree, OnlyNewTextStrandsARun

LEMMA NextTextInv == TextInv /\ [Next]_vars => TextInv'
  BY NextTypeOK, NextReadersHaveWork, NextRowsAreCoherent, NextRunWorksFromTheRow,
     NextRunInv DEF TextInv

LEMMA SpecTextInv == Spec => []TextInv
  BY InitTextInv, NextTextInv, PTL DEF Spec

\* What a run sends to its extractors is what the document holds, even where another
\* run read the page in its place (applyOcrReading, readPageReading).
THEOREM SpecRunWorksFromTheRow == Spec => []RunWorksFromTheRow
  <1>1. TextInv => RunWorksFromTheRow
    BY DEF TextInv
  <1>. QED BY <1>1, SpecTextInv, PTL

\* A run whose pages were all read, or found to hold nothing, when it saved its
\* progress can be continued: only a page that gained text can strand it
\* (runClaimedJob, planPageOcr).
THEOREM SpecOnlyNewTextStrandsARun == Spec => []OnlyNewTextStrandsARun
  <1>1. TextInv => OnlyNewTextStrandsARun
    BY DEF TextInv
  <1>. QED BY <1>1, SpecTextInv, PTL
=============================================================================
