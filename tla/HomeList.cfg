SPECIFICATION HomeSpec
CONSTANTS
    User = {u1, u2, u3}
    File = {f1}
    Request = {r1, r2}
    NoUser = NoUser
    NoFile = NoFile
    Unloaded = Unloaded
    MayFail = TRUE
    MayDrop = TRUE
    MaxRequests = 5
SYMMETRY Symmetry
INVARIANTS TypeOK HomeTypeOK OneOwner 
PROPERTY OnlyItsOwnerDeletes
CHECK_DEADLOCK FALSE
