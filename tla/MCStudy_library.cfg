CONSTANTS
  owner = owner
  reader = reader
  paper = paper
  d1 = d1
  d2 = d2
  card = card
  NotMade = NotMade
  Deleted = Deleted
  NoRow = NoRow
  Never = Never
  Users = {owner, reader}
  Documents = {paper}
  Decks = {d1, d2}
  Cards = {card}
  OwnerOf <- OwnerOfPaper
  DeckOf <- CardDecks
  Closable = {reader}
  MaxAsked = 1
  Students = {reader}
  SourceKept = {paper}
  Ratings = {2, 5}
  LastDay = 2
  MaxReviews = 3
  MaxEvents = 3
SPECIFICATION Spec
CHECK_DEADLOCK FALSE
INVARIANTS
  NothingOutlivesItsDeck
  ScheduleIsTheHistory
  EachCardIsIntroducedOnce
PROPERTIES
  NewestShareDecides
