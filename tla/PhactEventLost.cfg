CONSTANTS
    N = 2
    AppSignals = {s1}
    TASK_TIMER = TASK_TIMER
    NumUserTimers = 0
    TicksAbsoluteMod = 2
    TicksTimeoutMod = 2
    NumMutexes = 0
    task_to_index <- TaskIndex
    mutex_to_index <- MutexIndex
    NumEvents = 2
    EventTask <- OwnTask
    EventSignals <- AllSignals
    Calls <- EventCalls
    TaskMutexes <- SharedMutexes
    Recipients = {1}
    Timeouts = {0, 1}
    TickReturns = {TRUE}
SPECIFICATION Spec
INVARIANT RaisedEventIsKept
