CONSTANTS
  small = small
  medium = medium
  large = large
  Orders = {small, medium, large}
  Units <- UnitsAsked
  StartingStock = 5
  MaxSeeds = 1
  MaxRepeats = 0
SPECIFICATION FairSpec
PROPERTY EveryCommandIsAnswered
CHECK_DEADLOCK FALSE
