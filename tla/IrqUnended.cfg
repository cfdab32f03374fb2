CONSTANTS
  Devices = {4}
  Faults = {}
SPECIFICATION Spec
INVARIANT EveryIrqEnded
