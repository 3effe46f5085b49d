CONSTANTS
    N = 2
    AppSignals = {s1}
    TASK_TIMER = TASK_TIMER
    NumUserTimers = 0
    TicksAbsoluteMod = 4
    TicksTimeoutMod = 2
    NumMutexes = 1
    NumSems = 1
    SemValueMod = 2
    SemEnableMax = FALSE
    NumEvents = 1
    EventTask <- OwnTask
    EventSignals <- AllSignals
    Calls <- TimeoutCalls
    UserTimerInit <- TimerInit
    Timeouts = {1}
    TickReturns = {TRUE}
SPECIFICATION FairSpec
INVARIANTS BlockedOnIsExact SemWaitersRegistered TimedWaitsArmed
PROPERTIES TimedWaitEnds UrgentEventsHandled
