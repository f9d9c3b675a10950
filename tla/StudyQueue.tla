----------------------------- MODULE StudyQueue -----------------------------
(***************************************************************************)
(* A day of study in one deck: the queue of a session, recomputed from the *)
(* schedules and from what was reviewed today, and the reviews and undos   *)
(* that change both.                                                       *)
(*                                                                         *)
(* A card's schedule is what the screen holds of it, [due, fresh]: the day *)
(* it is due and whether the screen knows of no review.  Today's reviews   *)
(* are the rows the server holds, a sequence of [card, state, mode, counts, *)
(* before]: the card, what it was in the queue, the mode of the session,   *)
(* whether the review moved the schedule, and the schedule the card had.   *)
(***************************************************************************)
EXTENDS Naturals, Sequences, SequencesExt, FiniteSetsExt

CONSTANTS
    StudyCards,     \* the cards of the deck, naturals: the order of their ids
    CreatedAt,      \* when each card was created
    NewLimit,       \* newLimitPerDay
    ReviewLimit,    \* reviewLimitPerDay
    Now,            \* the day of study
    MaxReviewsToday \* bound: reviews of the day

ASSUME StudyQueueAssumption ==
    /\ StudyCards \subseteq Nat /\ IsFiniteSet(StudyCards)
    /\ CreatedAt \in [StudyCards -> Nat]
    /\ {NewLimit, ReviewLimit, Now, MaxReviewsToday} \subseteq Nat

VARIABLES
    schedule,       \* the schedule of each card
    suspended,      \* the cards taken out of rotation
    unstudied,      \* the cards no review before this day counted for
    today           \* the reviews of the day, oldest first

studyVars == <<schedule, suspended, unstudied, today>>

CardStudyState(card) ==
    IF card \in suspended THEN "suspended"
    ELSE IF schedule[card].fresh THEN "new"
    ELSE IF schedule[card].due <= Now THEN "due" ELSE "later"

InState(state) == {card \in StudyCards : CardStudyState(card) = state}

\* Due cards go by their date; cards of one date, and new cards, by when
\* they were created and then by their ids.
OlderCard(a, b) ==
    \/ CreatedAt[a] < CreatedAt[b]
    \/ CreatedAt[a] = CreatedAt[b] /\ a < b
MoreOverdue(a, b) ==
    \/ schedule[a].due < schedule[b].due
    \/ schedule[a].due = schedule[b].due /\ OlderCard(a, b)

\* The sequence of a set in an order that is total on it.
InOrder(S, Before(_, _)) ==
    CHOOSE seq \in [1 .. Cardinality(S) -> S] :
        \A i, j \in 1 .. Cardinality(S) : i < j => Before(seq[i], seq[j])

First(n, seq) == SubSeq(seq, 1, Min({n, Len(seq)}))

\* readDailyStudyActivity.  Reviews that moved the schedule count, and the cards they
\* introduced are those no earlier one counted for.
ReviewEventsToday == Cardinality({i \in DOMAIN today : today[i].counts})
StudiedToday == {today[i].card : i \in {j \in DOMAIN today : today[j].counts}}
NewCardsIntroducedToday == Cardinality(StudiedToday \cap unstudied)

\* What a limit leaves for the day.
Room(limit, used) == IF used < limit THEN limit - used ELSE 0

\* Variant: the reviews of the day are not taken off the limit.
WholeLimitQueue(mode) ==
    LET due   == InOrder(InState("due"), MoreOverdue)
        fresh == InOrder(InState("new"), OlderCard)
    IN  IF mode = "cram"
        THEN due \o fresh \o InOrder(InState("later"), <)
        ELSE First(ReviewLimit, due) \o First(Room(NewLimit, NewCardsIntroducedToday), fresh)

\* The queue of a session.
SelectStudyQueue(mode) ==
    LET due   == InOrder(InState("due"), MoreOverdue)
        fresh == InOrder(InState("new"), OlderCard)
    IN  IF mode = "cram"
        THEN due \o fresh \o InOrder(InState("later"), <)
        ELSE First(Room(ReviewLimit, ReviewEventsToday), due)
             \o First(Room(NewLimit, NewCardsIntroducedToday), fresh)

\* The counts the screen shows for the normal queue.
DeferredReview == Cardinality(InState("due")) - Min({Room(ReviewLimit, ReviewEventsToday),
                                                     Cardinality(InState("due"))})
DeferredNew == Cardinality(InState("new")) - Min({Room(NewLimit, NewCardsIntroducedToday),
                                                  Cardinality(InState("new"))})
Eligible == Len(SelectStudyQueue("normal"))

-----------------------------------------------------------------------------
\* A card is due at once when it is made.
NewCard == [due |-> Now, fresh |-> TRUE]

StudyInit ==
    /\ schedule \in [StudyCards -> {NewCard} \cup [due : (Now - 1) .. (Now + 1), fresh : {FALSE}]]
    /\ suspended = {}
    /\ unstudied = {card \in StudyCards : schedule[card].fresh}
    /\ today = <<>>

\* A card of the queue is rated.  Every rating moves it to a later day; a
\* cram review may leave the schedule alone.
Rate(card, mode, counts) ==
    /\ Len(today) < MaxReviewsToday
    /\ card \in ToSet(SelectStudyQueue(mode))
    /\ mode = "normal" => counts
    /\ today' = Append(today, [card   |-> card,
                               state  |-> CardStudyState(card),
                               mode   |-> mode,
                               counts |-> counts,
                               before |-> schedule[card]])
    /\ schedule' = IF counts
                   THEN [schedule EXCEPT ![card] = [due |-> Now + 1, fresh |-> FALSE]]
                   ELSE schedule
    /\ UNCHANGED <<suspended, unstudied>>

\* No date, which is before any other (dueTime), of a card the screen still takes for studied.
Undated == [due |-> 0, fresh |-> FALSE]

\* The newest review of a card is deleted, and the server replays the rest.  The
\* screen takes over the schedule but keeps lastStudiedAt when the replay has
\* none (applyCardState).  The screen offers only cards rated in its session.
UndoReview(card) ==
    \E i \in DOMAIN today :
        /\ today[i].card = card
        /\ \A j \in DOMAIN today : today[j].card = card => j <= i
        /\ today' = RemoveAt(today, i)
        /\ schedule' = IF today[i].counts
                       THEN [schedule EXCEPT ![card] =
                               IF today[i].before.fresh THEN Undated ELSE today[i].before]
                       ELSE schedule
        /\ UNCHANGED <<suspended, unstudied>>

\* loadDeckCards: the deck is opened again, and the screen has the rows of the server.
Reopen ==
    /\ schedule' = [card \in StudyCards |->
          IF card \in unstudied \ StudiedToday THEN NewCard ELSE schedule[card]]
    /\ UNCHANGED <<suspended, unstudied, today>>

ToggleSuspend(card) ==
    /\ suspended' = IF card \in suspended THEN suspended \ {card} ELSE suspended \cup {card}
    /\ UNCHANGED <<schedule, unstudied, today>>

StudyNext ==
    \/ \E card \in StudyCards, mode \in {"normal", "cram"}, counts \in BOOLEAN :
           Rate(card, mode, counts)
    \/ \E card \in StudyCards : UndoReview(card) \/ ToggleSuspend(card)
    \/ Reopen

StudySpec == StudyInit /\ [][StudyNext]_studyVars

-----------------------------------------------------------------------------
(* Properties *)

\* Over a day of sessions, cram reviews, undos, suspensions and reopenings the
\* normal queue lets no more cards be reviewed as due than the review limit
\* and no more as new than its own; it never shows a suspended card, keeps
\* back only cards less overdue than those it shows, and every card is
\* shown, deferred, later or suspended.  (study.ts:112-205: the limits are
\* recomputed from the day's reviews each time.)  A new card whose only
\* review was undone is shown as due until the deck is opened again: what
\* that does to the limit of new cards is NewCardsKeepToTheirLimit.
DayKeepsToItsLimits ==
    LET normal(state) == {i \in DOMAIN today : today[i].mode = "normal"
                                               /\ today[i].state = state}
        shown == ToSet(SelectStudyQueue("normal"))
    IN  /\ Cardinality(normal("due")) <= ReviewLimit
        /\ Cardinality(normal("new")) <= NewLimit
        /\ shown \cap suspended = {}
        /\ \A card \in shown, back \in InState("due") \ shown :
              ~schedule[card].fresh => schedule[card].due <= schedule[back].due
        /\ Eligible + DeferredReview + DeferredNew
              + Cardinality(InState("later")) + Cardinality(suspended)
           = Cardinality(StudyCards)

\* The normal queue introduces no more cards in a day than the limit of new
\* cards, whatever was undone.  (study.ts:13-14: "a limit the queue does not
\* respect is not a limit".  The screen keeps lastStudiedAt after an undo,
\* App.tsx:722, so the card is offered beside the new one that takes its place.)
NewCardsKeepToTheirLimit ==
    Cardinality({today[i].card : i \in {j \in DOMAIN today : today[j].mode = "normal"}}
                    \cap unstudied) <= NewLimit

=============================================================================
