SPECIFICATION RSpec
CONSTANTS
  Conn = {c1}
  Session = {s1}
  User = {u1}
  Doc = {d1, d2}
  Handler = {h1, h2}
  Event = {e1}
  NoConn = NoConn
  NoSession = NoSession
  NoUser = NoUser
  NoDoc = NoDoc
  NoField = NoField
  NoTarget = NoTarget
  NoEvent = NoEvent
  MayFail = FALSE
  RedisMayFail = FALSE
  MayStop = FALSE
  MaxOpen = 2
CHECK_DEADLOCK FALSE
SYMMETRY Symmetry
INVARIANTS LeftForgotten RedisSessionCurrent  RoutedAsListed OnceToItsTarget GotOrMissed
