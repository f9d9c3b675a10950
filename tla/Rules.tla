-------------------------------- MODULE Rules --------------------------------
(***************************************************************************)
(* The pure rules of the system put to the test, side by side.  A          *)
(* behaviour is about one subject.  For a document, a file, the figures of *)
(* a page, a candidate card, the cards of a deck or an exchange with a     *)
(* provider a question is asked and answered in one step; the price of a   *)
(* call, a day of study and the database file take the steps of their own  *)
(* modules.                                                                *)
(***************************************************************************)
EXTENDS Pricing, Outline, Extraction, CardRules, StudyQueue, Storage, Transport

CONSTANTS
    Documents,      \* documents and the sections ticked in them
    Files,          \* files, and the pages whose pictures hold words
    FigurePages,    \* figures and citations
    Candidates,     \* cards, the page they cite and what the judge says
    Decks           \* sequences of accepted cards

ASSUME DocumentsAssumption ==
    \A asked \in Documents :
        LET document == asked.document
        IN  /\ document.reader \in {"outline", "headings"}
            /\ document.chars \in Seq(Nat)
            /\ document.entries \in Seq([page : 0 .. PageCount(document), level : Nat])
            /\ document.reader = "headings" =>
                  \A i, j \in DOMAIN document.entries :
                      i <= j => 0 < document.entries[i].page
                                /\ document.entries[i].page <= document.entries[j].page

ASSUME FilesAssumption ==
    \A asked \in Files :
        /\ asked.file.format \in Formats
        /\ asked.file.pages \in Seq([text : BOOLEAN, shows : SUBSET PicturesOf(asked.file)])

ASSUME FigurePagesAssumption ==
    \A asked \in FigurePages : IsFiniteSet(DOMAIN asked.figures \cup DOMAIN asked.citations)

ASSUME CandidatesAssumption ==
    \A asked \in Candidates : /\ asked.card \in Cards
                              /\ asked.page \in Seq(Sentences)
                              /\ asked.card.cites \subseteq DOMAIN asked.page

ASSUME DecksAssumption == Decks \subseteq Seq([words : Wordings, prompt : Sides])

VARIABLES
    subject,        \* what the behaviour is about
    question,       \* what was asked
    result          \* what the rules answer, in a sequence empty before

rulesVars == <<subject, question, result>>
Unanswered == <<>>
NoQuestion == [about |-> "nothing"]

Questions ==
    [about : {"document"}, asked : Documents] \cup [about : {"file"}, asked : Files]
    \cup [about : {"figures"}, asked : FigurePages] \cup [about : {"card"}, asked : Candidates]
    \cup [about : {"deck"}, asked : Decks] \cup [about : {"call"}, asked : Exchanges]

\* The client reads a file, the server stores it, and runs read the pictures
\* of the pages that hold words.
LifeOfFile(file, worded) ==
    LET reading == ReadingOf(file)
        blocks  == StoredBlocks(reading)
    IN  [reading |-> reading,
         blocks  |-> blocks,
         later   |-> AfterOcr(blocks, worded \cap OcrCandidates(blocks, reading.media))]

AnswerTo(about, asked) ==
    CASE about = "document" -> PlanOf(asked.document, asked.ticked)
      [] about = "file"     -> LifeOfFile(asked.file, asked.worded)
      [] about = "figures"  -> FiguresByEvidence(asked.figures, asked.citations)
      [] about = "card"     -> [judged    |-> ReachesTheJudge(asked.card, asked.page),
                                published |-> VerifyCard(asked.card, asked.page, asked.judge)]
      [] about = "deck"     -> DropDuplicateCards(asked)
      [] about = "call"     -> Attempted(asked)

-----------------------------------------------------------------------------
PricingIdle == request = NotYet /\ held = NotYet /\ answer = NotYet /\ charged = NotYet
StudyIdle ==
    /\ StudyInit
    /\ schedule = [card \in StudyCards |-> NewCard]
StorageIdle == StorageInit /\ migrated = {}

RulesInit ==
    /\ result = Unanswered
    /\ \/ /\ subject = "question"
          /\ question \in Questions
          /\ PricingIdle /\ StudyIdle /\ StorageIdle
       \/ /\ subject = "price"
          /\ question = NoQuestion
          /\ Init /\ StudyIdle /\ StorageIdle
       \/ /\ subject = "study"
          /\ question = NoQuestion
          /\ PricingIdle /\ StudyInit /\ StorageIdle
       \/ /\ subject = "storage"
          /\ question = NoQuestion
          /\ PricingIdle /\ StudyIdle /\ StorageInit

Answer ==
    /\ subject = "question"
    /\ result = Unanswered
    /\ result' = <<AnswerTo(question.about, question.asked)>>
    /\ UNCHANGED <<subject, question, vars, studyVars, storageVars>>

RulesNext ==
    \/ Answer
    \/ subject = "price" /\ Next /\ UNCHANGED <<rulesVars, studyVars, storageVars>>
    \/ subject = "study" /\ StudyNext /\ UNCHANGED <<rulesVars, vars, storageVars>>
    \/ subject = "storage" /\ StorageNext /\ UNCHANGED <<rulesVars, vars, studyVars>>

RulesSpec == RulesInit /\ [][RulesNext]_<<rulesVars, vars, studyVars, storageVars>>

-----------------------------------------------------------------------------
(* Properties *)

Answered(about) == result # Unanswered /\ question.about = about
Said == result[1]

Document == question.asked.document
Rows == ToSet(StoredRows(Document))
Ids == {row.id : row \in Rows}
RowOf(id) == CHOOSE row \in Rows : row.id = id
Ticked == question.asked.ticked \cap Ids
SentScopes == UNION {ToSet(batch) : batch \in ToSet(Said)}
Sent == UNION {scope.pages : scope \in SentScopes}
Worded == {p \in DOMAIN Document.chars : Document.chars[p] > 0}

\* A section is in what the owner chose when it or a section around it is
\* ticked: when no set that has those ticked and, with a section, those whose
\* stored row names it as their parent, is without it.
Chosen(id) ==
    \/ Ticked = {}
    \/ \A S \in SUBSET Ids :
          Ticked \subseteq S /\ (\A row \in Rows : row.parent \in S => row.id \in S) => id \in S

\* A run sends exactly the pages with text of the sections chosen - those
\* ticked and those below them - whichever reader made the sections, in
\* whatever order and nesting their entries come and however the pages are
\* packed into calls; and with every section ticked no page with text is
\* left out from the first section on.  (pdfParser.ts, text.ts, source.ts
\* and batches.ts: a page no section claims, or one lost when a call is
\* full, would never be read, and nothing would say so.)
PlanSendsTheSelection ==
    Answered("document") /\ Cardinality(Ticked) <= MaxSelected =>
        /\ Sent = Worded \cap UNION {PagesIn(row) : row \in {r \in Rows : Chosen(r.id)}}
        /\ Ticked = Ids =>
              \A p \in Worded : p >= Min({row.start : row \in Rows}) => p \in Sent
        /\ \A batch \in ToSet(Said) :
              Len(batch) > 1 =>
                  SumOf([i \in DOMAIN batch |-> batch[i].characters]) <= CharsPerCall

\* A page is paid for once: it is never sent for a section and again for
\* one below it; two sections from headings share no page but one on which
\* one of them opens; and two from an outline share none at all when the
\* entries all resolve, each to a later page than the one before.
\* (source.ts:166-173: "the same page would be sent twice and the extractor
\* would report the same concepts twice".)
PagesAreSentOnce ==
    Answered("document") =>
        \A a, b \in SentScopes : a # b /\ a.pages \cap b.pages # {} =>
            /\ a.id \notin Below(StoredRows(Document), {b.id})
            /\ Document.reader = "headings" =>
                  a.pages \cap b.pages \subseteq {RowOf(a.id).start, RowOf(b.id).start}
            /\ Document.reader = "outline" =>
                  \E i, j \in DOMAIN Document.entries :
                      i < j /\ Document.entries[j].page <= Document.entries[i].page

\* A section the owner unticked is not sent.  (App.tsx:81-83: "the server
\* expands a selected parent, but a parent cannot be made to stand in for a
\* child somebody wants excluded".)
ExcludedSectionsAreNotSent ==
    Answered("document") /\ Ticked # {} => {scope.id : scope \in SentScopes} \subseteq Ticked

Adds(counts, pages) == counts.readable + counts.blank + counts.unread = pages

\* The parse, the document list, the opened document and the client's
\* report say the same of what can be read, before and after pictures are
\* read; their counts add up to the pages; reading pictures turns unread
\* pages into readable ones and nothing else; the report splits the unread
\* pages into those a run can read and those it cannot; and a page called
\* blank has no picture stored for it.  (Four counts of the same rows in
\* ingestion/index.ts, resources.ts and readReport.ts: "reopening a document
\* cannot reveal more coverage than the parse actually achieved".)
ReportsAgreeOnCoverage ==
    Answered("file") =>
        LET media    == Said.reading.media
            opened   == OpenedDocument(Said.blocks, media)
            reopened == OpenedDocument(Said.later, media)
            report   == ReadReportFromStored(opened)
            reported == ReadReportFromStored(reopened)
            read     == {p \in DOMAIN Said.blocks : Said.later[p] # Said.blocks[p]}
        IN  /\ SummariseExtraction(Said.reading) = ListedCounts(Said.blocks)
            /\ opened.counts = ListedCounts(Said.blocks)
            /\ report.counts = ListedCounts(Said.blocks)
            /\ reopened.counts = ListedCounts(Said.later)
            /\ reported.counts = ListedCounts(Said.later)
            /\ Adds(ListedCounts(Said.blocks), Len(Said.blocks))
            /\ Adds(ListedCounts(Said.later), Len(Said.blocks))
            /\ ListedCounts(Said.later).readable
                  = ListedCounts(Said.blocks).readable + Cardinality(read)
            /\ reported.unreadPictures = report.unreadPictures - Cardinality(read)
            /\ reported.unreadWithoutPicture = report.unreadWithoutPicture
            /\ \A row \in media : row[1] # 0 => Said.reading.kinds[row[1]] # "blank"

\* A figure that shares no words with a citation is shown by one citation
\* at most, the only one of its page, and never beside another figure; and
\* no figure is shown for another page.  (figures.ts:223-250: the "bounded
\* exception: one figure, one claim, nothing else either could mean".)
LoneFigureHasOneCard ==
    Answered("figures") =>
        LET figures   == question.asked.figures
            citations == question.asked.citations
        IN  \A c \in DOMAIN citations : \A f \in Said[c] :
                /\ figures[f].page = citations[c].page
                /\ figures[f].terms \cap citations[c].terms = {} /\ ~figures[f].scan =>
                      /\ \A d \in DOMAIN citations \ {c} : f \notin Said[d]
                      /\ \A g \in DOMAIN figures \ {f} : g \notin Said[c]

\* The polarity of a card is judged by what it cites.  A card that says what
\* its sentences say reaches the judge whatever else stands on the page, and
\* one that says the opposite is never published, whatever the judge says.
\* (validation/index.ts:505-545: the version before "cut both ways at once":
\* a true statement was withheld for an unrelated sentence, and a claim that
\* negated the sentence it cited passed.)
PolarityIsJudgedByTheCitation ==
    Answered("card") =>
        LET card     == question.asked.card
            cited    == Cited(card, question.asked.page)
            restated == {s \in cited : s.words = card.words}
            uniform  == \A s, t \in cited : s.negated = t.negated
        IN  /\ /\ \E s \in restated : /\ s.figures = card.prompt.figures
                                      /\ s.figures = ClaimFigures(card)
                                      /\ s.negated = ClaimNegated(card)
                                      /\ s.negated = (IF card.format = "qa"
                                                      THEN card.answer.negated
                                                      ELSE card.prompt.negated)
               /\ uniform
               /\ ~card.absolute
               => Said.judged
            /\ uniform /\ (\E s \in restated : s.negated # ClaimNegated(card))
               => ~Said.published

\* Dropping duplicates loses no statement: a card goes only when a kept card
\* reads like it with the same polarity and figures, and no two kept cards
\* do.  Reading alike is not transitive, so what a dropped card was like is
\* not enough.  (cards.ts:126-163: "dropping the second one would silently
\* lose a fact the document teaches".)
NoStatementIsLost ==
    Answered("deck") =>
        LET cards == question.asked
            same(i, j) == <<cards[i].words, cards[j].words>> \in Alike
                          /\ cards[i].prompt = cards[j].prompt
        IN  /\ \A j \in DOMAIN cards \ Said : \E i \in Said : i < j /\ same(i, j)
            /\ \A i, j \in Said : i # j => ~same(i, j)

\* A hold is given up only for a call that cost nothing, and a charge is the
\* provider's own figure whenever a readable envelope carries one, whatever
\* the rest of it is worth; a call that was charged is not repeated by itself.
\* (pipeline.ts:280-286: "the request was on the wire, so writing it off
\* would be a guess in the expensive direction"; transport.ts:159-165.)
OnlyUnusedCallsAreFree ==
    Answered("call") =>
        LET call == question.asked
        IN  /\ call.worked => Said.outcome # "released"
            /\ /\ call.connection = "kept" /\ call.status = "ok"
               /\ call.body = "envelope" /\ call.usage = "figures"
               => Said.outcome = "charged" /\ Said.figure = "reported"
            /\ Said.outcome = "charged" => call.worked /\ ~Said.retryable

=============================================================================
