CONSTANTS
    Questions = {q1}
    Documents = {d1, d2}
    Slots = 2
    Searches = {s1, s2}
    MaxDeaths = 1
    Installs = TRUE
SPECIFICATION Spec
INVARIANTS Inv AnswersAreOwn
PROPERTIES AllOrNothing EveryCallerAnswered NoSearchQueues
CHECK_DEADLOCK FALSE
