CONSTANTS
    Users = {u1}
    Main = u1
    Workers = {w1, w2}
    Keys = {k1, k2}
    Passwords = {p1}
    Requests <- OverlapRequests
    Cameras = {"rgb"}
    MaxSamples = 1
    MinObs = 1
    Absent = Absent
    Bad = Bad
    NoKey = NoKey
    NoUser = NoUser
SPECIFICATION Spec
SYMMETRY Symmetry
CHECK_DEADLOCK FALSE
INVARIANTS CachedKeySealed
