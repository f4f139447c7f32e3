CONSTANTS
  small = small
  medium = medium
  large = large
  Orders = {small, medium, large}
  Units <- UnitsAsked
  StartingStock = 5
  MaxSeeds = 1
  MaxRepeats = 2
SPECIFICATION Spec
INVARIANTS
  NoPartialReservation
CHECK_DEADLOCK FALSE
