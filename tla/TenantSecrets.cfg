SPECIFICATION Spec
CONSTANTS
  Credentials = {c}
  Channels = {n}
  MetaRows = {m}
  Rotators = {r1}
  Editors = {e1, e2}
  MaxKeys = 2
  MaxGrants = 2
SYMMETRY Symmetry
INVARIANTS
  TypeOK
  OnlyOverlapsLoseSecrets
  OnlyOverlapsBringBackTokens
CHECK_DEADLOCK FALSE
