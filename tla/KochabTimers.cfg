CONSTANTS
    N = 2
    AppSignals = {s1}
    TASK_TIMER = TASK_TIMER
    NumUserTimers = 2
    TicksAbsoluteMod = 3
    TicksTimeoutMod = 3
    NumMutexes = 0
    NumSems = 0
    SemValueMod = 4
    SemEnableMax = FALSE
    NumEvents = 0
    EventTask <- OwnTask
    EventSignals <- AllSignals
    Calls <- TimerCalls
    UserTimerInit <- TimerInit
    Timeouts = {0, 1}
    TickReturns = {TRUE}
SPECIFICATION Spec
INVARIANTS TypeOK TimersFireInRange
