CONSTANTS
  OverRead <- Behind
  Keys <- OddKeys
  ExtendedKeys <- CursorKeys
  MaxPresses = 3
  MaxReplugs = 2
  WireCapacity = 6
SPECIFICATION Spec
INVARIANT TypeOK DamageBounded
CHECK_DEADLOCK FALSE
