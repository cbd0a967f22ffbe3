SPECIFICATION FairSpec

CONSTANTS
    Addresses = {1}
    MaxFrame = 3
    MaxSize = 2
    Faults = {}
    Sizes = {1, 2}
    CallbackSizes = {}
    PatientApp = FALSE
    PromptISR = TRUE

INVARIANT CursorsInArrays
