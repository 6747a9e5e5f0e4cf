CONSTANTS
  MaxParts = 3
  MaxUsize = 5
  MaxObject = 4
  BodySizes <- MCBodySizes
  PartLimits <- MCPartLimits
  TotalLimits <- MCTotalLimits
  ReadLimits <- MCReadLimits
SPECIFICATION Spec
INVARIANTS
  TypeOK
  HandedOverWhole
  LimitsHold
  RefusedOnlyForSize
  RetentionBounded
PROPERTY NeverTruncated
CHECK_DEADLOCK FALSE
