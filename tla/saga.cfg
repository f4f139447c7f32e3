CONSTANTS
  mug = mug
  pen = pen
  Orders = {o1, o2}
  Products = {mug}
  Users = {u1}
  Carts <- MugCarts
  Nothing = Nothing
  StartingStock = 5
  UnitWord = 16
  StartingBalance = 20
  Redeliverable <- ButReserve
  MaxRedeliveries = 1
  MaxLosses = 1
SPECIFICATION FairSpec
INVARIANTS
  ConfirmedIsPaidAndReserved
  FailedIsNeverCharged
  FailedHoldsNoStock
  OneOutcomeEmail
  BooksBalance
PROPERTIES
  ImplementsContract
  EveryBuyerIsTold
CHECK_DEADLOCK FALSE
