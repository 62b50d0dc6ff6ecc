CONSTANTS
    MaxLines = 3
    Commands = {1, 3}
    Posts = {9}
    Texts <- MCTexts
    MaxLength = 3
    MaxFaults = 1
CHECK_DEADLOCK FALSE
SPECIFICATION FairSpec
INVARIANTS
    TypeOK
    AnsweredOnce
    CutBetweenWords
    NothingIsLeftOut
    RecordedInOrder
PROPERTIES
    EveryCommandIsAnswered
