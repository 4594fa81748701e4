SPECIFICATION EventsSpec
CONSTANTS
    NClients = 2
    KindChoices <- MCKindChoices
INVARIANTS ClosedOnce TopicsFed
PROPERTIES CreationEnds LeavesNothing
CHECK_DEADLOCK FALSE
