SPECIFICATION SpecClients

CONSTANTS
    FifoSize = 4
    MaxLength = 4
    MAX_MASTER_READ_LENGTH = 2
    Lengths = {0, 1, 2, 3, 4}
    SendStop = {TRUE, FALSE}
    Faults = {"NAK", "ALF"}
    PatientCaller = FALSE
    PatientRestart = TRUE
    PromptISR = TRUE
    PromptCaller = TRUE
    AvoidsStop = TRUE
    Sizes = {0, 2, 3}
    BufferLength = 2
    Quantities = {0, 3}
    Fillings = {{"loop"}, {"callbacks"}}

PROPERTY NoStaleData
