------------------------------ MODULE Library ------------------------------
(***************************************************************************)
(* What an account keeps on the server and what it lends: stored documents, *)
(* the decks generated from them, the cards of a deck, and the shares that  *)
(* let another account read a deck, and its source when the scope says so   *)
(* (apps/api/src/routes/resources.ts).  A handler that awaits its body      *)
(* before it looks at anything is one step; POST /api/decks/:id/shares      *)
(* checks the owner, awaits the body and only then reads and writes, so it  *)
(* is two, and anything may happen between them.  The cards of a deck are   *)
(* written by a finished run (RunPipeline), here in one step.               *)
(***************************************************************************)
EXTENDS Naturals, Sequences, FiniteSets

CONSTANTS
    Users,          \* accounts
    Documents,      \* documents that may be uploaded
    Decks,          \* decks that may be made; an identifier is used once
    Cards,          \* cards that runs may store
    OwnerOf,        \* [Documents -> Users]: who uploads each document
    DeckOf,         \* [Cards -> Decks]: the deck each card is made for
    Closable,       \* the accounts an administrator may disable (a bound)
    MaxAsked,       \* the most share requests in flight at once (a bound)
    SourceKept,     \* the documents whose original, or a figure of it, is kept
    NotMade,        \* a deck nobody has made yet
    Deleted         \* a deck that was deleted

ASSUME LibraryAssumption ==
    /\ OwnerOf \in [Documents -> Users]
    /\ DeckOf \in [Cards -> Decks]
    /\ SourceKept \subseteq Documents
    /\ Closable \subseteq Users
    /\ {NotMade, Deleted} \cap Documents = {}
    /\ NotMade # Deleted

VARIABLES
    documents,      \* the documents stored
    decks,          \* for each deck, the document it is generated from
    shares,         \* the rows of deck_shares, the latest created_at last
    asked,          \* share requests whose body is still awaited
    cards,          \* the cards stored
    disabled        \* the accounts an administrator has disabled

libraryVars == <<documents, decks, shares, asked, cards, disabled>>

Scopes == {"study", "study_and_source"}
ShareRows == [deck : Decks, to : Users, scope : Scopes, live : BOOLEAN]
Requests == [deck : Decks, to : Users, scope : Scopes]

LibraryInit ==
    /\ documents = {}
    /\ decks = [k \in Decks |-> NotMade]
    /\ shares = <<>>
    /\ asked = {}
    /\ cards = {}
    /\ disabled = {}

\* What a pass over seq has kept after n of its members: those of S.
KeptOf(S, seq) ==
    LET kept[n \in 0 .. Len(seq)] ==
          IF n = 0 THEN <<>>
          ELSE IF seq[n] \in S THEN Append(kept[n - 1], seq[n]) ELSE kept[n - 1]
    IN  kept

\* The members of seq that are in S, in their order.
Only(S, seq) == KeptOf(S, seq)[Len(seq)]

-----------------------------------------------------------------------------
(* Who may read what.                                                        *)

Exists(k) == decks[k] \notin {NotMade, Deleted}

DeckOwner(k) == OwnerOf[decks[k]]

RowsOf(k, u) == {i \in DOMAIN shares : shares[i].deck = k /\ shares[i].to = u}

LiveRowsOf(k, u) == {i \in RowsOf(k, u) : shares[i].live}

\* requireReadableDeck: the owner, or a share of it that is not revoked.
MayReadDeck(u, k) == Exists(k) /\ (DeckOwner(k) = u \/ LiveRowsOf(k, u) # {})

\* requireOwnedDeck.
MayChangeDeck(u, k) == Exists(k) /\ DeckOwner(k) = u

\* The live shares through which u might reach document d.
SharesOfDocument(u, d) ==
    {i \in DOMAIN shares : /\ shares[i].to = u
                           /\ shares[i].live
                           /\ decks[shares[i].deck] = d}

\* requireDocumentAccess: the owner; or the newest live share of any deck of
\* the document, when that one carries the source.
MayOpenDocument(u, d) ==
    /\ d \in documents
    /\ \/ OwnerOf[d] = u
       \/ \E i \in SharesOfDocument(u, d) :
            /\ \A j \in SharesOfDocument(u, d) : j <= i
            /\ shares[i].scope = "study_and_source"

\* publicDeck: what the row of deck k says to u of its source.
RowOffersSource(u, k) ==
    \/ DeckOwner(k) = u
    \/ \E i \in LiveRowsOf(k, u) : shares[i].scope = "study_and_source"

\* deckHasShareableSource: the join finds nothing for a deck that is gone.
HasShareableSource(k) == Exists(k) /\ decks[k] \in SourceKept

-----------------------------------------------------------------------------
(* Documents, decks and cards.                                               *)

StoreDocument(u, d) ==
    /\ u \notin disabled
    /\ OwnerOf[d] = u
    /\ d \notin documents
    /\ documents' = documents \cup {d}
    /\ UNCHANGED <<decks, shares, asked, cards, disabled>>

MakeDeck(u, k, d) ==
    /\ u \notin disabled
    /\ decks[k] = NotMade
    /\ d \in documents
    /\ OwnerOf[d] = u
    /\ decks' = [decks EXCEPT ![k] = d]
    /\ UNCHANGED <<documents, shares, asked, cards, disabled>>

\* A run of the deck publishes a card, in the run's own transaction.
PublishCard(c) ==
    /\ Exists(DeckOf[c])
    /\ c \notin cards
    /\ cards' = cards \cup {c}
    /\ UNCHANGED <<documents, decks, shares, asked, disabled>>

CardsOfDeck(k) == {c \in cards : DeckOf[c] = k}

\* The schema's ON DELETE CASCADE takes the cards and the shares with the deck.
DeleteDeck(u, k) ==
    /\ u \notin disabled
    /\ MayChangeDeck(u, k)
    /\ decks' = [decks EXCEPT ![k] = Deleted]
    /\ cards' = cards \ CardsOfDeck(k)
    /\ shares' = Only({row \in ShareRows : row.deck # k}, shares)
    /\ UNCHANGED <<documents, asked, disabled>>

-----------------------------------------------------------------------------
(* Shares.                                                                   *)

BeginShare(u, request) ==
    /\ u \notin disabled
    /\ MayChangeDeck(u, request.deck)
    /\ request \notin asked /\ Cardinality(asked) < MaxAsked
    /\ asked' = asked \cup {request}
    /\ UNCHANGED <<documents, decks, shares, cards, disabled>>

Grantable(request) ==
    /\ request.scope = "study_and_source" => HasShareableSource(request.deck)
    /\ request.to \notin disabled
    /\ Exists(request.deck) => request.to # DeckOwner(request.deck)

Granted(request) == [deck |-> request.deck, to |-> request.to,
                     scope |-> request.scope, live |-> TRUE]

\* Variant: re-sharing restores the row and leaves created_at alone.
FinishShareInPlace(request) ==
    /\ request \in asked
    /\ asked' = asked \ {request}
    /\ shares' = IF ~(Grantable(request) /\ Exists(request.deck)) THEN shares
                 ELSE IF RowsOf(request.deck, request.to) = {} THEN Append(shares, Granted(request))
                 ELSE [i \in DOMAIN shares |-> IF i \in RowsOf(request.deck, request.to)
                                                 THEN Granted(request) ELSE shares[i]]
    /\ UNCHANGED <<documents, decks, cards, disabled>>

\* Variant: the row is inserted with foreign keys left off.
FinishShareOfADeletedDeck(request) ==
    /\ request \in asked
    /\ asked' = asked \ {request}
    /\ shares' = IF Grantable(request) THEN Append(shares, Granted(request)) ELSE shares
    /\ UNCHANGED <<documents, decks, cards, disabled>>

\* The row of the pair is rewritten, with a new created_at, or made.  A deck
\* deleted meanwhile leaves nothing to refer to, and the insert fails.
FinishShare(request) ==
    /\ request \in asked
    /\ asked' = asked \ {request}
    /\ shares' = IF Grantable(request) /\ Exists(request.deck)
                   THEN LET others == {row \in ShareRows : ~(row.deck = request.deck /\ row.to = request.to)}
                        IN  Append(Only(others, shares), Granted(request))
                   ELSE shares
    /\ UNCHANGED <<documents, decks, cards, disabled>>

Revoke(u, k, to) ==
    /\ u \notin disabled
    /\ MayChangeDeck(u, k)
    /\ LiveRowsOf(k, to) # {}
    /\ shares' = [i \in DOMAIN shares |->
                    IF i \in LiveRowsOf(k, to) THEN [shares[i] EXCEPT !.live = FALSE] ELSE shares[i]]
    /\ UNCHANGED <<documents, decks, asked, cards, disabled>>

\* An administrator disables or enables an account (Accounts has the rest).
SetStatus(u) ==
    /\ disabled' = IF u \in disabled THEN disabled \ {u} ELSE disabled \cup {u}
    /\ UNCHANGED <<documents, decks, shares, asked, cards>>

LibraryNext ==
    \/ \E u \in Users :
         \/ \E d \in Documents : StoreDocument(u, d) \/ (\E k \in Decks : MakeDeck(u, k, d))
         \/ \E k \in Decks : DeleteDeck(u, k)
         \/ \E request \in Requests : BeginShare(u, request)
         \/ \E k \in Decks, to \in Users : Revoke(u, k, to)
         \/ u \in Closable /\ SetStatus(u)
    \/ \E request \in Requests : FinishShare(request)
    \/ \E c \in Cards : PublishCard(c)

-----------------------------------------------------------------------------
(* Properties.                                                               *)

LibraryTypeOK ==
    /\ documents \subseteq Documents
    /\ decks \in [Decks -> Documents \cup {NotMade, Deleted}]
    /\ shares \in Seq(ShareRows)
    /\ asked \subseteq Requests
    /\ cards \subseteq Cards
    /\ disabled \subseteq Users

\* A grant decides: when an owner's request takes effect, what the reader may
\* open of that document is what the scope just granted says, whatever older
\* shares of it the reader has (resources.ts:1464-1509 and requireDocumentAccess,
\* 473-487).
NewestShareDecides ==
    [][\A request \in Requests :
         (FinishShare(request) /\ Grantable(request) /\ Exists(request.deck)) =>
           (MayOpenDocument(request.to, decks[request.deck])'
              <=> request.scope = "study_and_source")]_libraryVars

\* A row of the deck list that offers the source is one the server will serve
\* ("opening the viewer and *then* failing would be a screen that offers
\* something the server refuses", publicDeck).  The code does not keep this: of
\* two decks of one document, the one shared later for study alone closes the
\* source the other one's row still offers.
RowsOfferOnlyWhatIsServed ==
    \A u \in Users, k \in Decks :
      (MayReadDeck(u, k) /\ RowOffersSource(u, k)) => MayOpenDocument(u, decks[k])
=============================================================================
