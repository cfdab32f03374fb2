CONSTANTS
  OverRead = {}
  Keys <- TypingKeys
  ExtendedKeys <- CursorKeys
  MaxPresses = 3
  WireCapacity = 3
  RINGBUF_SIZE = 3
  MaxTicks = 1
SPECIFICATION FairSpec
INVARIANT NothingLost NoStuckShift
PROPERTY EventSpec EveryKeyShown
