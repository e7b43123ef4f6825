CONSTANTS
    Users = {u1, u2}
    Main = u1
    Workers = {w1}
    Keys = {k1, k2}
    Passwords = {p1}
    Requests <- SerialRequests
    Cameras = {"rgb"}
    MaxSamples = 1
    MinObs = 1
    Absent = Absent
    Bad = Bad
    NoKey = NoKey
    NoUser = NoUser
SPECIFICATION SerialSpec
SYMMETRY Symmetry
CONSTRAINT FewBad
CHECK_DEADLOCK FALSE
INVARIANTS OneKeyPerProfile RecoveryRestores DeleteErases KeyIsolation
