SPECIFICATION FairSpec

CONSTANTS
    FifoSize = 4
    MaxLength = 6
    MAX_MASTER_READ_LENGTH = 5
    Lengths <- AllLengths
    SendStop = {TRUE}
    Faults = {"NAK", "ALF"}
    PatientCaller = TRUE
    PatientRestart = TRUE
    PromptISR = TRUE
    PromptCaller = TRUE

PROPERTY CallEnds
CHECK_DEADLOCK FALSE
