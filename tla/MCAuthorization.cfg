CONSTANTS
  Sites = {s1, s2}
  NoSite = NoSite
  Users = {u1}
  NoUser = NoUser
  iso = iso
  mac = mac
  Types = {iso, mac}
  NoType = NoType
  NoRow = NoRow
  Written <- Rows
  Threshold = 2
SPECIFICATION Spec
INVARIANTS
  TypeOK
  VerdictIsRight
  RepeatsAreTold
