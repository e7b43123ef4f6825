CONSTANTS
    Users = {alice}
    Others = {bob}
    Root = Root
    Clients = {c1}
    Tasks = {t1}
    Services = {"greeter"}
    Bindings = {"ir"}
    Policies <- OnePolicy
    Settings <- MethodSettings
    Nobody = Nobody
    NoTask = NoTask
    Closed = Closed
    NoWrite = NoWrite
SPECIFICATION FairSpec
CHECK_DEADLOCK FALSE
INVARIANTS GrantedToPresent
PROPERTIES KeepsPromise
