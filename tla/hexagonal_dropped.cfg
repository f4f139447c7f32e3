CONSTANTS
  ann = ann
  eve = eve
  mug = mug
  pen = pen
  Users = {ann, eve}
  Products = {mug, pen}
  Width = 3
  basket = basket
  create = create
  lower = lower
  free = free
  nothing = nothing
  Email <- Emails
  Malformed = {}
  Calls = {create, lower, free, nothing}
  Call <- CallOf
  MaxUnsent = 1
  Baskets = {basket}
  Basket <- BasketOf
  MaxDowntime = 1
  order = order
  pay = pay
  payAgain = payAgain
  ship = ship
  cancel = cancel
  OrderIds = {order}
  Commands = {pay, payAgain, ship, cancel}
  Command <- CommandOf
  Prices = {1, 2}
  MaxCommands = 3
  MaxGone = 1
  MaxQueryRestarts = 1
  Providers = {"catalog", "partner", "archive"}
  Specs <- ProviderSpecs
  Corpus <- Indexes
  Queries = {"", "mug", "lamp"}
  Matches <- Containing
  Blank = ""
  Key <- Keys
  Serves <- ServedBy
  Wire = {0, 2}
  LatencyTicks = 1
  Budget = 2
  Lag = 1
  viaWeb = viaWeb
  direct = direct
  viaMobile = viaMobile
  detail = detail
  summary = summary
  Checkouts = {viaWeb, direct, viaMobile}
  Checkout <- CheckoutOf
  Pages = {detail, summary}
  Page <- PageOf
  Price <- PriceIs
  CountWidth = 1
  MaxHiccups = 1
  MaxRestarts = 1
  Placements = {"a", "b", "bad"}
  ByCli = {}
  Unacceptable = {"bad"}
  HangUpPoints = {"inserting", "loading", "truncating", "writing"}
  MaxDropped = 1
  MaxCrashes = 1
  MaxDiskFailures = 1
  Amounts = {10, 25}
  MaxOrders = 3
  MaxFaults = 3
SPECIFICATION Spec
INVARIANT MutexKeepsOrders
CHECK_DEADLOCK FALSE
