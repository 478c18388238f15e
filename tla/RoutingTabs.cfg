SPECIFICATION RSpec
CONSTANTS
  Conn = {c1, c2}
  Session = {s1, s2}
  User = {u1}
  Doc = {}
  Handler = {h1}
  Event = {e1}
  NoConn = NoConn
  NoSession = NoSession
  NoUser = NoUser
  NoDoc = NoDoc
  NoField = NoField
  NoTarget = NoTarget
  NoEvent = NoEvent
  MayFail = TRUE
  RedisMayFail = FALSE
  MayStop = FALSE
  MaxOpen = 0
CHECK_DEADLOCK FALSE
SYMMETRY Symmetry
INVARIANTS RTypeOK RoutedAsListed OnceToItsTarget GotOrMissed
