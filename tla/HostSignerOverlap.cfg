CONSTANTS
    Workers = {w1, w2}
    Slots = {s1}
    HostKeys = {k1, k2}
    OnStates = {on1}
    OffStates = {off1}
    Absent = Absent
    Bad = Bad
    NoKey = NoKey
    NoEnv = NoEnv
SPECIFICATION Spec
SYMMETRY Symmetry
CHECK_DEADLOCK FALSE
INVARIANTS NeverBlessed WithheldWithoutSecureBoot
