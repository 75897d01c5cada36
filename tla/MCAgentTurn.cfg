SPECIFICATION TurnSpec
CONSTANTS
    FileTarget <- FileA
    WITNESS_LIMIT = 8
    Turns <- MCTurns
    Answers <- MCAnswers
INVARIANTS
    RetriesAreBounded
    UncertifiedWritesAreHeld
    StaleReadsAreHeld
PROPERTIES
    TurnEnds
CHECK_DEADLOCK FALSE
