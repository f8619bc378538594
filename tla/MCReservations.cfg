CONSTANTS
  Connectors = {c1, c2}
  Tags = {t1}
  NoTag = NoTag
  Managers = {m1}
  MaxRows = 2
SYMMETRY Alike
SPECIFICATION Spec
INVARIANTS
  TypeOK
  LiveIdsDiffer
  HeldIsLive
PROPERTIES
  UsedIsNotWithdrawn
  TerminatedStays
