CONSTANTS
  Keys = {k1}
  Values = {default, factory}
  NoValue = NoValue
  Default = default
  Factory = factory
  MaxBoots = 2
  MaxCalls = 2
SPECIFICATION Spec
PROPERTY LockedIsSent
