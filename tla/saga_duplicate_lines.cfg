CONSTANTS
  mug = mug
  pen = pen
  Orders = {o1, o2}
  Products = {mug, pen}
  Users = {u1}
  Carts <- MixedCarts
  Nothing = Nothing
  StartingStock = 5
  UnitWord = 16
  StartingBalance = 20
  Redeliverable <- NoSubjects
  MaxRedeliveries = 0
  MaxLosses = 0
SPECIFICATION Spec
INVARIANT InsufficientStockFails
CHECK_DEADLOCK FALSE
