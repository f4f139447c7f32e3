CONSTANTS
  mug = mug
  Orders = {o1, o2}
  Products = {mug}
  Users = {u1}
  Carts <- MugCarts
  Nothing = Nothing
  Nobody = Nobody
  StartingStock = 5
  UnitWord = 16
  StartingBalance = 20
  MaxLoad = 2
SPECIFICATION FairSpec
INVARIANTS
  BooksBalance
  OneTrueEmail
PROPERTIES
  ImplementsContract
  EveryOrderIsSettled
CHECK_DEADLOCK FALSE
