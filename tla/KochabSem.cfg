CONSTANTS
    N = 3
    AppSignals = {s1}
    TASK_TIMER = TASK_TIMER
    NumUserTimers = 0
    TicksAbsoluteMod = 2
    TicksTimeoutMod = 2
    NumMutexes = 0
    NumSems = 1
    SemValueMod = 4
    SemEnableMax = TRUE
    NumEvents = 1
    EventTask <- OwnTask
    EventSignals <- AllSignals
    Calls <- SemCalls
    UserTimerInit <- TimerInit
    Timeouts = {1}
    TickReturns = {TRUE, FALSE}
SPECIFICATION Spec
INVARIANTS SemWaitersRegistered SemValueWithinMax NoLostPreemption IdleHasNoWork
PROPERTY SemValueIsKept
