CONSTANTS
  mug = mug
  pen = pen
  fill = fill
  refill = refill
  a = a
  b = b
  c = c
  d = d
  look = look
  other = other
  Products = {mug, pen}
  Requests = {fill, refill, a, b, d}
  Ask <- Asks
  Expected <- Pins
  Targets = {"optimistic"}
  SeedsRace = TRUE
  Retries = 1
  Everything = Everything
  Mailbox = 2
  MaxRequests <- Sent
  Nobody = Nobody
  MaxHangUps = 1
SPECIFICATION Spec
INVARIANT NoOversell
CHECK_DEADLOCK FALSE
