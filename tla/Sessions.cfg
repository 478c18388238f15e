SPECIFICATION Spec
CONSTANTS
 User = {u1}
 Password = {p1, p2}
 NoPassword = NoPassword
 Idle = Idle
 Agent = {a1, a2}
 Request = {r1, r2}
 TTL = 1
 MaxTime = 3
 MaxRows = 3
INVARIANTS TypeOK OneSessionEach RegistrationKept SessionKept
SYMMETRY Symmetry
CHECK_DEADLOCK FALSE
