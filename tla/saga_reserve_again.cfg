CONSTANTS
  mug = mug
  pen = pen
  Orders = {o1, o2}
  Products = {mug}
  Users = {u1}
  Carts <- MugCarts
  Nothing = Nothing
  StartingStock = 5
  UnitWord = 16
  StartingBalance = 20
  Redeliverable <- AllSagaSubjects
  MaxRedeliveries = 1
  MaxLosses = 0
SPECIFICATION Spec
INVARIANT FailedHoldsNoStock
CHECK_DEADLOCK FALSE
