CONSTANTS
    Families = {"Arch", "Debian", "Fedora"}
    Greeters = {"sddm"}
    Originals <- MCOriginals
    MaxOps = 3
    MaxFaults = 1
    MaxEdits = 1
SPECIFICATION Spec
CHECK_DEADLOCK FALSE
INVARIANTS PasswordKept DisableUndoes EnableWires
