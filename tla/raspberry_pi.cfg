SPECIFICATION Spec
CONSTANTS
    TestSize = 4
    ReportInterval = 2
    MessageLength = 30
    MaxFaults = 3
    MaxInterrupts = 2
INVARIANTS CountsAreFaults DamageIsCounted FinalCountsReported
PROPERTY RunEnds
