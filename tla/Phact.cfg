CONSTANTS
    N = 3
    AppSignals = {s1}
    TASK_TIMER = TASK_TIMER
    NumUserTimers = 0
    TicksAbsoluteMod = 2
    TicksTimeoutMod = 2
    NumMutexes = 2
    task_to_index <- TaskIndex
    mutex_to_index <- MutexIndex
    NumEvents = 1
    EventTask <- OwnTask
    EventSignals <- AllSignals
    Calls <- ThreeCalls
    TaskMutexes <- SharedMutexes
    Recipients = {1}
    Timeouts = {0, 1}
    TickReturns = {TRUE}
SPECIFICATION Spec
INVARIANTS TypeOK CeilingProtocol MutexWaitersRegistered PreemptionFlags RaisedEventIsKept BlockedTaskOnlyWaits TimedWaitsArmed
PROPERTY CeilingAvoidsBlocking
