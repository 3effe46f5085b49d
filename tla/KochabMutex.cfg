CONSTANTS
    N = 3
    AppSignals = {s1}
    TASK_TIMER = TASK_TIMER
    NumUserTimers = 0
    TicksAbsoluteMod = 4
    TicksTimeoutMod = 4
    NumMutexes = 2
    NumSems = 0
    SemValueMod = 4
    SemEnableMax = FALSE
    NumEvents = 1
    EventTask <- OwnTask
    EventSignals <- AllSignals
    Calls <- MutexCalls
    UserTimerInit <- TimerInit
    Timeouts = {}
    TickReturns = {}
SPECIFICATION Spec
INVARIANTS RunningIsScheduled BlockedOnIsExact PriorityInheritance MutexWaitersRegistered DivergesOnlyInDeadlock
