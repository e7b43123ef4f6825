CONSTANTS
    Workers = {w1}
    Slots = {s1, s2}
    HostKeys = {k1, k2}
    OnStates = {on1, on2}
    OffStates = {off1}
    Absent = Absent
    Bad = Bad
    NoKey = NoKey
    NoEnv = NoEnv
SPECIFICATION SerialSpec
SYMMETRY Symmetry
CHECK_DEADLOCK FALSE
INVARIANTS Healable SelfHeals
