SPECIFICATION FairSpec

CONSTANTS
    Addresses = {1, 2}
    MaxFrame = 3
    MaxSize = 2
    Faults = {"BEF"}
    Sizes = {0, 2}
    CallbackSizes = {1}
    PatientApp = TRUE
    PromptISR = FALSE

INVARIANTS
    TypeOK
    CursorsInArrays
    RightByte
    ErrorIsTrue

PROPERTIES
    CallbacksAreDue
    ClockReleased
