SPECIFICATION Spec
CONSTANTS
    Frequencies = {100000, 200000, 399999, 400000, 999999, 1000000, 3400000}
    RiseTimes = {3, 40, 90, 97, 100}
    MaxEdges = 6
INVARIANTS MeetsSpecification NotFasterThanAsked CalculatorAgrees WorstCaseBound
CHECK_DEADLOCK FALSE
