SPECIFICATION Spec
CONSTANTS
 User = {u1, u2}
 Socket = {s1, s2}
 NoUser = NoUser
 NoSocket = NoSocket
 MaxAttempts = 2
 MaxTimers = 2
INVARIANTS TypeOK RightUser NoStray
PROPERTIES Reconnects LoggedOutQuiet
