------------------------------- MODULE Study -------------------------------
(***************************************************************************)
(* Studying the cards of a deck: review events, the schedule each account   *)
(* keeps for each card, undo, suspension and the day's allowance            *)
(* (apps/api/src/routes/resources.ts:1931-2340, study/accounting.ts and     *)
(* packages/scheduling).  The events are the record and the schedule row is *)
(* recomputed from them, so it must never say anything they do not.         *)
(* Days stand for instants: reviews of one day keep the order they were     *)
(* made in, as rowid does.  Ease is kept in hundredths, as it is rounded.   *)
(***************************************************************************)
EXTENDS Library, Integers, SequencesExt

CONSTANTS
    Students,       \* the accounts that study in the instance (a bound)
    Ratings,        \* the ratings given
    LastDay,        \* the last day of the instance
    MaxReviews,     \* the most events kept for one account and card
    MaxEvents,      \* the most events kept in all
    NoRow,          \* no user_card_state row
    Never           \* no due date

VARIABLES
    today,
    events,         \* review_events of each account and card, in order
    row             \* user_card_state of each account and card

studyVars == <<documents, decks, shares, asked, cards, disabled, today, events, row>>

Reviews == [rating : Ratings, counts : BOOLEAN, day : 0 .. LastDay]
Rows == [repetition : Nat, interval : Nat, ease : Nat, due : Nat \cup {Never}, suspended : BOOLEAN]

ASSUME StudyAssumption ==
    /\ Ratings \subseteq 1 .. 5
    /\ LastDay \in Nat /\ MaxReviews \in Nat
    /\ Students \subseteq Users
    /\ NoRow \notin Rows
    /\ IsFiniteSet(Users) /\ IsFiniteSet(Cards)

Pairs == Users \X Cards

Fresh == [repetition |-> 0, interval |-> 0, ease |-> 250, due |-> Never]

Init ==
    /\ LibraryInit
    /\ today = 0
    /\ events = [p \in Pairs |-> <<>>]
    /\ row = [p \in Pairs |-> NoRow]

-----------------------------------------------------------------------------
(* The scheduler.                                                            *)

Rounded(n) == (n + 50) \div 100

\* calculateSM2.
NextInterval(s, rating) ==
    CASE rating < 3 -> 1
      [] rating >= 3 /\ s.repetition = 0 -> 1
      [] rating >= 3 /\ s.repetition = 1 -> 6
      [] OTHER -> Rounded(s.interval * s.ease)

NextEase(s, rating) ==
    LET missed == 5 - rating
        ease == s.ease + 10 - missed * (8 + missed * 2)
    IN IF ease < 130 THEN 130 ELSE ease

Scheduled(s, rating, day) ==
    [repetition |-> IF rating >= 3 THEN s.repetition + 1 ELSE 0,
     interval   |-> NextInterval(s, rating),
     ease       |-> NextEase(s, rating),
     due        |-> day + NextInterval(s, rating)]

\* Variant: a cram review moves the schedule whatever the learner asked.
ScheduleAfterEveryReview(history) ==
    LET after[n \in 0 .. Len(history)] ==
          IF n = 0 THEN Fresh ELSE Scheduled(after[n - 1], history[n].rating, history[n].day)
    IN  after

\* The schedule after n reviews: an isolated cram review is passed over.
ScheduleAfter(history) ==
    LET after[n \in 0 .. Len(history)] ==
          IF n = 0 THEN Fresh
          ELSE IF history[n].counts THEN Scheduled(after[n - 1], history[n].rating, history[n].day)
          ELSE after[n - 1]
    IN  after

\* replayCardSchedule.
Replayed(history) == ScheduleAfter(history)[Len(history)]

\* upsertCardState, for the fields a replay gives and for suspension alone.
Suspended(p) == row[p] # NoRow /\ row[p].suspended

Stored(s, suspended) ==
    [repetition |-> s.repetition, interval |-> s.interval, ease |-> s.ease,
     due |-> s.due, suspended |-> suspended]

ScheduleOf(p) == IF row[p] = NoRow THEN Stored(Fresh, FALSE) ELSE row[p]

-----------------------------------------------------------------------------
(* The day's allowance.                                                      *)

InDeck(u, k) == {p \in Pairs : p[1] = u /\ DeckOf[p[2]] = k}

Counted(p, day) == {i \in DOMAIN events[p] : events[p][i].counts /\ events[p][i].day = day}

CountedBefore(p, day) == {i \in DOMAIN events[p] : events[p][i].counts /\ events[p][i].day < day}

\* readDailyStudyActivity: reviews that moved a schedule, and the cards whose
\* first such review is of the day.
Reviewed(u, k, day) == {r \in InDeck(u, k) \X (1 .. MaxReviews) : r[2] \in Counted(r[1], day)}

\* Variant: every card reviewed in the day is new to it.
IntroducedAgain(u, k, day) == {p \in InDeck(u, k) : Counted(p, day) # {}}

Introduced(u, k, day) ==
    {p \in InDeck(u, k) : Counted(p, day) # {} /\ CountedBefore(p, day) = {}}

-----------------------------------------------------------------------------
(* The handlers.  Each awaits its body, if any, before it reads a row.       *)

MayStudy(u, c) == u \notin disabled /\ c \in cards /\ MayReadDeck(u, DeckOf[c])

Total == FoldFunctionOnSet(LAMBDA h, n : Len(h) + n, 0, events, Pairs)

Review(u, c, rating, counts) ==
    LET e == [rating |-> rating, counts |-> counts, day |-> today]
    IN /\ MayStudy(u, c)
       /\ Len(events[<<u, c>>]) < MaxReviews /\ Total < MaxEvents
       /\ events' = [events EXCEPT ![<<u, c>>] = Append(@, e)]
       /\ row' = [row EXCEPT ![<<u, c>>] =
                    Stored(Replayed(Append(events[<<u, c>>], e)), Suspended(<<u, c>>))]
       /\ UNCHANGED <<libraryVars, today>>

\* Variant: undo takes the event back and leaves the schedule it made.
UndoWithoutReplay(u, c) ==
    /\ MayStudy(u, c)
    /\ events[<<u, c>>] # <<>>
    /\ events' = [events EXCEPT ![<<u, c>>] = Front(@)]
    /\ UNCHANGED <<libraryVars, today, row>>

Undo(u, c) ==
    /\ MayStudy(u, c)
    /\ events[<<u, c>>] # <<>>
    /\ events' = [events EXCEPT ![<<u, c>>] = Front(@)]
    /\ row' = [row EXCEPT ![<<u, c>>] = Stored(Replayed(Front(events[<<u, c>>])), Suspended(<<u, c>>))]
    /\ UNCHANGED <<libraryVars, today>>

Suspend(u, c) ==
    /\ MayStudy(u, c)
    /\ row' = [row EXCEPT ![<<u, c>>] = [ScheduleOf(<<u, c>>) EXCEPT !.suspended = ~Suspended(<<u, c>>)]]
    /\ UNCHANGED <<libraryVars, today, events>>

NewDay ==
    /\ today < LastDay
    /\ today' = today + 1
    /\ UNCHANGED <<libraryVars, events, row>>

\* What a library step does to the study rows: those of a card go with it.
Cascade ==
    /\ events' = [p \in Pairs |-> IF p[2] \in cards /\ p[2] \notin cards' THEN <<>> ELSE events[p]]
    /\ row' = [p \in Pairs |-> IF p[2] \in cards /\ p[2] \notin cards' THEN NoRow ELSE row[p]]

Next ==
    \/ LibraryNext /\ Cascade /\ UNCHANGED today
    \/ \E u \in Students, c \in Cards :
         \/ \E rating \in Ratings, counts \in BOOLEAN : Review(u, c, rating, counts)
         \/ Undo(u, c)
         \/ Suspend(u, c)
    \/ NewDay

Spec == Init /\ [][Next]_studyVars

-----------------------------------------------------------------------------
(* Properties.                                                               *)

TypeOK ==
    /\ LibraryTypeOK
    /\ today \in 0 .. LastDay
    /\ events \in [Pairs -> Seq(Reviews)]
    /\ \A p \in Pairs : \A i \in DOMAIN events[p] : events[p][i].day <= today
    /\ row \in [Pairs -> Rows \cup {NoRow}]

\* What is said of a deck, a share, a card, a review or a schedule is said of
\* one that exists: nothing a request in flight or a reader holds outlives the
\* owner's deletion (resources.ts:1349-1357, 1464-1509; the schema's cascades).
NothingOutlivesItsDeck ==
    /\ TypeOK
    /\ \A i \in DOMAIN shares : Exists(shares[i].deck)
    /\ \A c \in cards : Exists(DeckOf[c])
    /\ \A p \in Pairs : (events[p] # <<>> \/ row[p] # NoRow) => p[2] \in cards

\* The reviews after the last failed one.
Streak(history) ==
    CHOOSE n \in 0 .. Len(history) :
      /\ \A i \in Len(history) - n + 1 .. Len(history) : history[i].rating >= 3
      /\ n < Len(history) => history[Len(history) - n].rating < 3

\* The schedule stored is the one its reviews make, in any mix of reviews,
\* isolated cram reviews, undos and suspensions: as many repetitions as
\* passed reviews since the last failure, the first two intervals of one and
\* six days, and a due date that interval after the last review that counted
\* (replayCardSchedule, resources.ts:2207-2267; calculateSM2).
ScheduleIsTheHistory ==
    \A p \in Pairs :
      LET history == Only({e \in Reviews : e.counts}, events[p])
          streak == Streak(history)
      IN IF row[p] = NoRow THEN events[p] = <<>>
         ELSE /\ row[p].repetition = streak
              /\ row[p].ease >= 130
              /\ history = <<>> => (row[p].interval = 0 /\ row[p].due = Never)
              /\ history # <<>> =>
                   /\ row[p].due = Last(history).day + row[p].interval
                   /\ streak <= 1 => row[p].interval = 1
                   /\ streak = 2 => row[p].interval = 6
                   /\ streak > 2 => row[p].interval > 6

\* A card enters the schedule on one day only: over the days, the cards counted
\* as introduced are the cards that have been scheduled, each of them once
\* (readDailyStudyActivity, study/accounting.ts:38-78).
EachCardIsIntroducedOnce ==
    \A u \in Users, k \in Decks :
      /\ \A a, b \in 0 .. LastDay : a # b => Introduced(u, k, a) \cap Introduced(u, k, b) = {}
      /\ UNION {Introduced(u, k, day) : day \in 0 .. LastDay}
           = {p \in InDeck(u, k) : \E i \in DOMAIN events[p] : events[p][i].counts}
      /\ \A day \in 0 .. LastDay : Cardinality(Introduced(u, k, day)) <= Cardinality(Reviewed(u, k, day))
=============================================================================
