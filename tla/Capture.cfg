SPECIFICATION Spec
CONSTANTS
    Handlers = {h1, h2}
    h1 = h1
    Requests <- RequestsMC
    RGB_TIMEOUT = 1
    IR_TIMEOUT = 1
    ENUMERATE_TIMEOUT = 1
    RESOLVE_TTL = 1
    Setups <- SetupsMC
    Signals <- SignalsMC
    Grid <- GridMC
    MaxEvents = 2
CHECK_DEADLOCK FALSE
INVARIANTS OneStream AnsweredInTime IrOfThisRequest ReportAgrees FairGate
PROPERTIES Answered
