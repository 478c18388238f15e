SPECIFICATION FairSpec
CONSTANTS
  Conn = {c1, c2}
  Session = {s1}
  User = {u1}
  Doc = {d1}
  Handler = {h1}
  NoConn = NoConn
  NoSession = NoSession
  NoUser = NoUser
  NoDoc = NoDoc
  NoField = NoField
  RedisMayFail = FALSE
  MayStop = FALSE
  MaxOpen = 1
CHECK_DEADLOCK FALSE
PROPERTY DeadConnectionForgotten
