SPECIFICATION Spec
CONSTANTS
  Conn = {c1, c2}
  Session = {s1, s2}
  User = {u1, u2}
  Doc = {}
  Handler = {h1, h2}
  NoConn = NoConn
  NoSession = NoSession
  NoUser = NoUser
  NoDoc = NoDoc
  NoField = NoField
  RedisMayFail = TRUE
  MayStop = TRUE
  MaxOpen = 0
CHECK_DEADLOCK FALSE
SYMMETRY Symmetry
INVARIANTS EvictedOnlyByOwnTab UserListExact MisroutedOnlyAfterRelogin
