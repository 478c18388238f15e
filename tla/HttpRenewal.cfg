SPECIFICATION Spec
CONSTANTS
 User = {u1}
 Password = {p1}
 NoPassword = NoPassword
 Idle = Idle
 Agent = {a1}
 Request = {r1}
 TTL = 1
 MaxTime = 3
 MaxRows = 2
INVARIANT RenewedOnlyWithSession
CHECK_DEADLOCK FALSE
