SPECIFICATION Spec
CONSTANTS
    Drivers = {1, 2}
    None = None
    MODES <- AllModes
    ALGORITHMS <- AllAlgorithms
    DATATYPES <- AllDatatypes
    MS <- SomeMs
    NS <- SomeNs
    NUM_REPS = 2
    ArgChoices <- TwoLines
    MaxFaults = 1
    MaxCrashes = 1
INVARIANTS
    Comparable
    EndsMeasured
    OnlyDeathsHurt
PROPERTIES
    ResultsKept
    DriverEnds
\* The drivers stop once every instance has a file.
CHECK_DEADLOCK FALSE
