CONSTANTS
  mug = mug
  Orders = {o1}
  Products = {mug}
  Users = {u1}
  Carts <- MugCarts
  Nothing = Nothing
  Nobody = Nobody
  StartingStock = 5
  UnitWord = 16
  StartingBalance = 20
  MaxLoad = 1
SPECIFICATION FairSpec
PROPERTY TrackerCatchesUp
CHECK_DEADLOCK FALSE
