\* Four engines; jeff takes two rows at a time, kev pads to multiples of four.
SPECIFICATION Spec
CONSTANTS
    Contents <- MCContents
    Outcomes <- MCOutcomes
    Codes <- MCCodes
    Levels <- MCLevels
    Words <- MCWords
    BatchSize = 2
    Fine = 30
    Unit = 8
    TiesUp <- MCTiesUp
    MaxState = 6
    MaxBranch = 23
    Bucket = 4
    None = None
    NaN = NaN
INVARIANTS
    TypeOK BatchIsInvisible ReadUnderItsKey OptionsUnforgeable FormsAgree AnswersAddUp AllOrNothing
