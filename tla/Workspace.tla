----------------------------- MODULE Workspace -----------------------------
(***************************************************************************)
(* The screens of the web client (apps/web/src/App.tsx): the deck that is   *)
(* open, the pages and the original of its document, its cards and the run  *)
(* being followed.  Each is a piece of React state written where a handler  *)
(* has an answer in hand; a handler is a chain of requests with an await at *)
(* each, several handlers may be in flight, and a request may fail at any   *)
(* of them.  followRun looks again, after an answer, at whether its deck is *)
(* still the one on screen, through a ref that an effect sets after the     *)
(* render (App.tsx:275-277).                                                *)
(*                                                                          *)
(* Each piece of the screen carries the deck it was read for and the kind   *)
(* of handler that wrote it.                                                *)
(***************************************************************************)
EXTENDS Naturals

CONSTANTS
    Own,            \* decks of this account with a stored document
    Lent,           \* decks shared with it, with their source
    ForStudy,       \* decks shared with it for study alone
    New,            \* decks of documents this account has yet to upload
    Nothing,        \* nothing on that part of the screen
    MaxBegun        \* how many handlers are begun (a bound)

ASSUME WorkspaceAssumption ==
    /\ Own \cap Lent = {} /\ ForStudy \cap (Own \cup Lent) = {}
    /\ New \cap (Own \cup Lent \cup ForStudy) = {}
    /\ MaxBegun \in Nat
    /\ Nothing \notin Own \cup Lent \cup ForStudy \cup New

Decks == Own \cup Lent \cup ForStudy \cup New

VARIABLES
    deck,           \* activeDeckId
    pages,          \* pages, sections and the read report
    source,         \* pdfBytes, the original file
    cards,          \* cards, with their schedule
    panel,          \* generation: the run shown
    activeDeckRef,  \* activeDeckIdRef.current
    latestRun,      \* generationRunRef.current
    calls,          \* handlers in flight, each at the request it awaits
    stored,         \* the decks the server has
    begun,          \* how many handlers were begun
    raced           \* history: what may have left the screen mixed

screenVars == <<deck, pages, source, cards, panel, activeDeckRef, latestRun, calls, stored, begun, raced>>

Part(k, by) == [of |-> k, by |-> by]
Empty == Part(Nothing, "none")
Call(handler, k, at, run) == [handler |-> handler, deck |-> k, at |-> at, run |-> run]

ScreenInit ==
    /\ deck = Nothing
    /\ pages = Empty /\ source = Empty /\ cards = Empty /\ panel = Empty
    /\ activeDeckRef = Nothing
    /\ latestRun = 0
    /\ calls = {}
    /\ stored = Own \cup Lent \cup ForStudy
    /\ begun = 0
    /\ raced = {}

-----------------------------------------------------------------------------

Begins(c) ==
    /\ begun < MaxBegun
    /\ begun' = begun + 1
    /\ calls' = calls \cup {c}

Goes(c, at) == calls' = (calls \ {c}) \cup {[c EXCEPT !.at = at]}
Ends(c) == calls' = calls \ {c}

\* The effect after a render.
Render ==
    /\ activeDeckRef # deck
    /\ activeDeckRef' = deck
    /\ UNCHANGED <<deck, pages, source, cards, panel, latestRun, calls, stored, begun>>

\* A request is refused or never answered: every handler's catch reports it
\* and leaves the screen as the handler had made it so far.
Fail(c) ==
    /\ c \in calls
    /\ Ends(c)
    /\ UNCHANGED <<deck, pages, source, cards, panel, activeDeckRef, latestRun, stored, begun>>

-----------------------------------------------------------------------------
(* handleOpenStoredDocument: nothing changes before the document is read; a  *)
(* document without a deck is given one.                                     *)

BeginOpenStored(k) ==
    /\ k \in Own \cup (New \cap stored)
    /\ Begins(Call("open", k, "document", 0))
    /\ UNCHANGED <<deck, pages, source, cards, panel, activeDeckRef, latestRun, stored>>

ShowDocument(c) ==
    /\ c \in calls /\ c.handler = "open" /\ c.at = "document"
    /\ c.deck \in Lent => c.deck \in stored
    /\ stored' = stored \cup {c.deck}
    /\ pages' = Part(c.deck, "open")
    /\ IF c.deck \in Lent THEN UNCHANGED <<deck, panel>>
       ELSE deck' = c.deck /\ panel' = Empty
    /\ Goes(c, "cards")
    /\ UNCHANGED <<source, cards, activeDeckRef, latestRun, begun>>

\* loadDeckCards.
ShowCards(c) ==
    /\ c \in calls /\ c.handler = "open" /\ c.at = "cards"
    /\ c.deck \in stored
    /\ cards' = Part(c.deck, "open")
    /\ IF c.deck \in ForStudy THEN Ends(c) ELSE Goes(c, "source")
    /\ UNCHANGED <<deck, pages, source, panel, activeDeckRef, latestRun, stored, begun>>

ShowSource(c) ==
    /\ c \in calls /\ c.handler = "open" /\ c.at = "source"
    /\ c.deck \in stored
    /\ source' = Part(c.deck, "open")
    /\ Ends(c)
    /\ UNCHANGED <<deck, pages, cards, panel, activeDeckRef, latestRun, stored, begun>>

\* handleOpenSharedDeck: the deck is shown at once; without the source, the
\* document of whatever was open before is taken off the screen.
BeginOpenShared(k) ==
    /\ k \in Lent \cup ForStudy
    /\ Begins(Call("open", k, IF k \in Lent THEN "document" ELSE "cards", 0))
    /\ deck' = k
    /\ panel' = Empty
    /\ IF k \in Lent THEN UNCHANGED <<pages, source>>
       ELSE pages' = Empty /\ source' = Empty
    /\ UNCHANGED <<cards, activeDeckRef, latestRun, stored>>

-----------------------------------------------------------------------------
(* handleDocumentUploaded and persistDocument.                               *)

Upload(k) ==
    /\ k \in New \ stored
    /\ \A c \in calls : c.handler = "upload" => c.deck # k
    /\ Begins(Call("upload", k, "store", 0))
    /\ deck' = Nothing
    /\ pages' = Part(k, "upload") /\ source' = Part(k, "upload")
    /\ cards' = Empty /\ panel' = Empty
    /\ UNCHANGED <<activeDeckRef, latestRun, stored>>

UploadStored(c) ==
    /\ c \in calls /\ c.handler = "upload" /\ c.at = "store"
    /\ stored' = stored \cup {c.deck}
    /\ deck' = c.deck
    /\ Goes(c, "reload")
    /\ UNCHANGED <<pages, source, cards, panel, activeDeckRef, latestRun, begun>>

\* reloadStoredSource, for an upload and at the end of a run.
ReloadAfterUpload(c) ==
    /\ c \in calls /\ c.handler = "upload" /\ c.at = "reload"
    /\ pages' = Part(c.deck, "upload")
    /\ Ends(c)
    /\ UNCHANGED <<deck, source, cards, panel, activeDeckRef, latestRun, stored, begun>>

-----------------------------------------------------------------------------
(* handleStartGeneration and followRun.                                      *)

StillCurrent(c) == latestRun = c.run /\ activeDeckRef = c.deck

\* The check was passed on a deck that is no longer open, its effect pending.
Stale(c) == StillCurrent(c) /\ deck # c.deck

StartRun ==
    /\ deck \in Own \cup New
    /\ pages # Empty
    /\ latestRun' = latestRun + 1
    /\ Begins(Call("run", deck, "queued", latestRun + 1))
    /\ panel' = Empty
    /\ UNCHANGED <<deck, pages, source, cards, activeDeckRef, stored>>

\* The job is queued, or the wait between two polls is over.
FollowRun(c) ==
    /\ c \in calls /\ c.handler = "run" /\ c.at \in {"queued", "poll"}
    /\ IF ~StillCurrent(c) THEN Ends(c) /\ UNCHANGED panel
       ELSE IF c.at = "queued" THEN Goes(c, "poll") /\ panel' = Part(c.deck, "run")
       ELSE Goes(c, "job") /\ UNCHANGED panel
    /\ UNCHANGED <<deck, pages, source, cards, activeDeckRef, latestRun, stored, begun>>

\* The job is shown as it is; it goes on, or it is completed, or it stopped.
ShowJob(c) ==
    /\ c \in calls /\ c.handler = "run" /\ c.at = "job"
    /\ panel' = Part(c.deck, "run")
    /\ Goes(c, "poll") \/ Goes(c, "result") \/ Ends(c)
    /\ UNCHANGED <<deck, pages, source, cards, activeDeckRef, latestRun, stored, begun>>

\* Variant: the cards of a completed run are shown on whatever deck is open.
ShowResultAnywhere(c) ==
    /\ c \in calls /\ c.handler = "run" /\ c.at = "result"
    /\ cards' = Part(c.deck, "run")
    /\ IF StillCurrent(c) THEN Goes(c, "reload") ELSE Ends(c)
    /\ UNCHANGED <<deck, pages, source, panel, activeDeckRef, latestRun, stored, begun>>

\* The concepts and the cards of a completed run.
ShowResult(c) ==
    /\ c \in calls /\ c.handler = "run" /\ c.at = "result"
    /\ IF StillCurrent(c) THEN cards' = Part(c.deck, "run") /\ Goes(c, "reload")
       ELSE Ends(c) /\ UNCHANGED cards
    /\ UNCHANGED <<deck, pages, source, panel, activeDeckRef, latestRun, stored, begun>>

ReloadAfterRun(c) ==
    /\ c \in calls /\ c.handler = "run" /\ c.at = "reload"
    /\ pages' = Part(c.deck, "run")
    /\ Ends(c)
    /\ UNCHANGED <<deck, source, cards, panel, activeDeckRef, latestRun, stored, begun>>

-----------------------------------------------------------------------------
(* handleDeleteDeckRow: the deck open when the button was pressed is the one *)
(* the answer is compared with.                                              *)

BeginDelete(k) ==
    /\ k \in (Own \cup New) \cap stored
    /\ Begins(Call("delete", k, IF deck = k THEN "open" ELSE "other", 0))
    /\ UNCHANGED <<deck, pages, source, cards, panel, activeDeckRef, latestRun, stored>>

DeckDeleted(c) ==
    /\ c \in calls /\ c.handler = "delete"
    /\ stored' = stored \ {c.deck}
    /\ IF c.at = "open"
         THEN deck' = Nothing /\ pages' = Empty /\ source' = Empty /\ cards' = Empty
         ELSE UNCHANGED <<deck, pages, source, cards>>
    /\ Ends(c)
    /\ UNCHANGED <<panel, activeDeckRef, latestRun, begun>>

-----------------------------------------------------------------------------

Step ==
    \/ Render
    \/ StartRun
    \/ \E k \in Decks : BeginOpenStored(k) \/ BeginOpenShared(k) \/ Upload(k) \/ BeginDelete(k)
    \/ \E c \in calls :
         \/ ShowDocument(c) \/ ShowCards(c) \/ ShowSource(c)
         \/ UploadStored(c) \/ ReloadAfterUpload(c)
         \/ FollowRun(c) \/ ShowJob(c) \/ ShowResult(c) \/ ReloadAfterRun(c)
         \/ DeckDeleted(c)

\* What may leave the screen mixed: two handlers other than a run at once; a
\* run's answer that is written without a second look, awaited while another
\* deck is open; a look passed on a deck no longer open, the effect after its
\* render still to come; a request of a handler other than a run that failed.
Races ==
    {race \in {"overlap", "late", "lag"} :
       CASE race = "overlap" -> \E c, d \in calls' : c # d /\ "run" \notin {c.handler, d.handler}
         [] race = "late" -> \E c \in calls' : /\ c.handler = "run" /\ c.at \in {"job", "reload"}
                                              /\ c.deck # deck'
         [] race = "lag" -> \E c \in calls \ calls' : c.handler = "run" /\ Stale(c)}

ScreenNext ==
    \/ Step /\ raced' = raced \cup Races
    \/ \E c \in calls : Fail(c) /\ raced' = raced \cup (IF c.handler = "run" THEN {} ELSE {"failed"})

ScreenSpec == ScreenInit /\ [][ScreenNext]_screenVars

-----------------------------------------------------------------------------
(* Properties.                                                               *)

Parts == {Empty} \cup {Part(k, by) : k \in Decks, by \in {"open", "upload", "run"}}

ScreenTypeOK ==
    /\ deck \in Decks \cup {Nothing}
    /\ {pages, source, cards, panel} \subseteq Parts
    /\ activeDeckRef \in Decks \cup {Nothing}
    /\ latestRun \in 0 .. MaxBegun
    /\ \A c \in calls : c.deck \in Decks /\ c.run \in 0 .. latestRun
    /\ stored \subseteq Decks

Quiet == calls = {} /\ activeDeckRef = deck

OfDeckOnScreen(part) == part.of \in {deck, Nothing}

\* At rest, everything on the screen belongs to the deck that is open, and a
\* study-only share shows no document: for any sequence of opens, uploads,
\* deletions and runs, a run being followed across any of them, as long as no
\* request of an open fails and no answer that is written without a second
\* look was awaited while something else was begun, or passed its look before
\* the effect that follows a change of deck ("the cross-document leak
\* the requirements forbid", App.tsx:197-201).
ScreenShowsOneDeck ==
    /\ ScreenTypeOK
    /\ (Quiet /\ raced = {}) =>
         /\ OfDeckOnScreen(cards)
         /\ deck # Nothing => OfDeckOnScreen(pages) /\ OfDeckOnScreen(source) /\ OfDeckOnScreen(panel)
         /\ deck \in Decks => cards.of = deck \/ deck \in New
         /\ deck \in ForStudy => pages = Empty /\ source = Empty
         /\ deck \in Decks \ ForStudy => pages.of = deck

\* "Identifies the current run, so a superseded poll cannot write over a newer
\* one" (App.tsx:192) and what a run brings never shows on another deck.  The
\* code does not keep this: the poll's answer and the reloaded source are
\* written without a second look (App.tsx:1033-1034, 987-993, 1085).
RunStaysOnItsDeck ==
    (Quiet /\ raced \subseteq {"late"} /\ deck # Nothing) =>
        /\ panel.by = "run" => panel.of = deck
        /\ pages.by = "run" => pages.of = deck
=============================================================================
