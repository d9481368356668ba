SPECIFICATION Spec
CONSTANTS
  Providers = {"ga4", "google_ads"}
  Requests = {r1, r2}
  NoRequest = NoRequest
  MaxGrants = 2
  MaxRemote = 2
  MaxLate = 1
SYMMETRY Symmetry
INVARIANTS
  TypeInvariant
  NoDuplicates
  DisconnectStands
  RefreshTokenStays
CHECK_DEADLOCK FALSE
