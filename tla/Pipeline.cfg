CONSTANTS
    Chats = {m1, m2}
    Commands = {c1}
    ChatHandlers = {h1}
    CommandHandlers = {k1}
    NoMessage = NoMessage
    BatchSize = 2
    MaxFaults = 1
SPECIFICATION FairSpec
CHECK_DEADLOCK FALSE
INVARIANTS
    TypeOK
    NoMessageCountsTwice
    AckedIsPersisted
    CommandRunsAtMostOnce
    AckedIsExecuted
    CountsAreExact
PROPERTIES
    OutcomeIsFinal
    EveryMessageIsAcked
