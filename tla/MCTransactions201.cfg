CONSTANTS
  Place <- Distinct
  OmitsEvse = TRUE
  MaxTxs = 2
  MaxMeter = 1
SPECIFICATION Spec
INVARIANTS
  TypeOK
  OneActivePerNumber
  ActiveIsShown
PROPERTIES
  LedgerIsKept
  EndedKeepsEnergy
