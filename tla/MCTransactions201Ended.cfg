CONSTANTS
  Place <- Distinct
  OmitsEvse = FALSE
  MaxTxs = 2
  MaxMeter = 1
SPECIFICATION Spec
PROPERTIES
  EndedClosesWhatIsOver
