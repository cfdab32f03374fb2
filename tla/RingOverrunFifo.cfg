CONSTANTS
  Byte = {a, b, c}
  Nul = Nul
  Stray = Stray
  RINGBUF_SIZE = 4
  MaxBacklog = 4
  MaxTicks = 0
SPECIFICATION Spec
PROPERTY FifoSpec
