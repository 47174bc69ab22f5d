CONSTANTS
    Tasks = {t1, t2}
    AppPackets <- SomeAppPackets
    StackPackets <- SomeStackPackets
    Remote <- SomeRemote
    VPort = 10000
    Answers <- SomeAnswers
    MTU = 43
    MaxIn = 2
    MaxOut = 1
SPECIFICATION FairPlaneSpec
INVARIANTS NeverPastTheEnd PacketsAreWellFormed AnswersGoHome
PROPERTY QueriesAreAnswered
