SPECIFICATION RetrySpec

CONSTANTS
    FifoSize = 4
    MaxLength = 6
    MAX_MASTER_READ_LENGTH = 5
    Lengths <- FewLengths
    SendStop = {TRUE, FALSE}
    Faults = {"NAK", "ALF", "PLTF"}
    PatientCaller = FALSE
    PatientRestart = FALSE
    PromptISR = TRUE
    PromptCaller = TRUE

INVARIANTS
    BufferInBounds
    OneStart

PROPERTY RetryRecovers
