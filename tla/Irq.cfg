CONSTANTS
  Devices = {4, 12, 14}
  Faults = {13}
SPECIFICATION FairSpec
INVARIANT TypeOK ServedNotBlocked GateThere ConfigSafe BootDamage
PROPERTY EoiIsOwn EveryByteRead InitEnds
