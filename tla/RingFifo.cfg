CONSTANTS
  Byte = {a, b, c}
  Nul = Nul
  Stray = Stray
  RINGBUF_SIZE = 4
  MaxBacklog = 3
  MaxTicks = 0
SPECIFICATION Spec
INVARIANT TypeOK
PROPERTY FifoSpec
