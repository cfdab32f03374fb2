CONSTANTS
  Byte = {a}
  Nul = Nul
  Stray = Stray
  RINGBUF_SIZE = 4
  MaxBacklog = 4
  MaxTicks = 2
SPECIFICATION FairSpec
INVARIANT ReadConfined
PROPERTY EveryByteTaken
