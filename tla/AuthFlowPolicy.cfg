CONSTANTS
    Users = {alice}
    Others = {}
    Root = Root
    Clients = {c1}
    Tasks = {t1}
    Services = {"greeter", "elevation", "remote", "unknown", "Verify", "UnsealPassword", "missing"}
    Bindings = {"rgb", "ir"}
    Policies <- AllPolicies
    Settings <- NoSettings
    Nobody = Nobody
    NoTask = NoTask
    Closed = Closed
    NoWrite = NoWrite
SPECIFICATION Spec
CHECK_DEADLOCK FALSE
INVARIANTS SecretToRoot NoIrNoUnlock ObeysPolicy
