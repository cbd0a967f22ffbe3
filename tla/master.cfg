SPECIFICATION FairSpec

CONSTANTS
    FifoSize = 4
    MaxLength = 6
    MAX_MASTER_READ_LENGTH = 5
    Lengths <- AllLengths
    SendStop = {TRUE}
    Faults = {"NAK"}
    PatientCaller = FALSE
    PatientRestart = TRUE
    PromptISR = TRUE
    PromptCaller = TRUE

INVARIANTS
    TypeOK
    Complete
    NakReported
    FifosEmptyAtStart
    NoFifoError
    NoInterruptStorm

PROPERTIES
    StaysFinished
    BufferReleased
    CallEnds
    KeepsPromise
