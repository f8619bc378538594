CONSTANTS
  Slots = {s1, s2}
  AnySlot = AnySlot
  Managers = {m1, m2}
  Pushers = {m1}
  Boot = Boot
  MaxRows = 2
SPECIFICATION FairSpec
INVARIANTS
  TypeOK
  ProfileIdsDiffer
  
PROPERTIES
  BootSparesManaged
  PendingIsDecided
