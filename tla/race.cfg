CONSTANTS
  mug = mug
  pen = pen
  fill = fill
  refill = refill
  a = a
  b = b
  c = c
  d = d
  look = look
  other = other
  Products = {mug, pen}
  Requests = {fill, refill, other, a, b, c, d, look}
  Ask <- Asks
  Expected <- Pins
  Targets = {"naive", "optimistic", "pessimistic", "actor"}
  SeedsRace = FALSE
  Retries = 1
  Everything = Everything
  Mailbox = 2
  MaxRequests <- Sent
  Nobody = Nobody
  MaxHangUps = 1
SPECIFICATION FairSpec
INVARIANTS
  NoOversell
  NeverUndersells
  RejectionIsHonest
  OneWinnerPerVersion
  PinnedIsExact
  ConflictIsEarned
  HandledInArrivalOrder
PROPERTIES
  ImplementsShelf
  EveryRequestIsAnswered
CHECK_DEADLOCK FALSE
