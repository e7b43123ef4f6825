CONSTANTS
    Versions = {9, 10}
    Formats = {"pkg", "deb", "copr", "source"}
    MaxOps = 3
    MaxFetches = 1
    MaxFaults = 1
    MaxNews = 1
SPECIFICATION Spec
CHECK_DEADLOCK FALSE
INVARIANTS BuildsTrustedOnly UpdatedIsTag ModuleKept UninstallErases
