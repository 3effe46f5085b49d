CONSTANTS
    N = 2
    AppSignals = {s1}
    TASK_TIMER = TASK_TIMER
    NumUserTimers = 0
    TicksAbsoluteMod = 4
    TicksTimeoutMod = 4
    NumMutexes = 1
    NumSems = 0
    SemValueMod = 4
    SemEnableMax = FALSE
    NumEvents = 0
    EventTask <- OwnTask
    EventSignals <- AllSignals
    Calls <- SleepCalls
    UserTimerInit <- TimerInit
    Timeouts = {1}
    TickReturns = {TRUE}
SPECIFICATION Spec
INVARIANT LateWaitIsOver
