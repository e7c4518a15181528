\* Three-bit integers: every argument from -4 to 3; answers of up to ten words.
SPECIFICATION MCSpec
CONSTANTS
    MaxInt = 3
    PriceUnit = 3
INVARIANTS
    AdmissionIsExact
    CostIsLeastCover
    ScoresAreSound
CHECK_DEADLOCK FALSE
