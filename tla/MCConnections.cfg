CONSTANTS
  Identity = {cp1}
  Client = {k1, k2}
  NoClient = NoClient
  NoIdentity = NoIdentity
  FlapThreshold = 2
  UnknownPolicy = "pending"
  MaxRowId = 2
SPECIFICATION FairSpec
INVARIANTS
  TypeOK
  OneServingClient
  RowMirrorsConnection
  TransactionsMatchProtocol
  RevokedIsClosing
PROPERTIES
  OwnCloseOnly
  PresenceNeverLies
  UnresponsiveIsDropped
  OfflineIsAnnounced
