CONSTANTS
  ChargePoint = {cp1}
  Connector = {k1, k2}
  NoChargePoint = NoChargePoint
  NoConnector = NoConnector
  KeepsMemory = FALSE
  MaxTxs = 2
  MaxMeter = 2
SPECIFICATION Spec
SYMMETRY Connectors
INVARIANTS
  TypeOK
  OneActivePerConnector
  StopKeepsEnergy
  EnergyIsMetered
PROPERTIES
  LedgerIsKept
