CONSTANTS
    N = 3
    AppSignals = {RTOS_UTIL}
    TASK_TIMER = TASK_TIMER
    RTOS_UTIL = RTOS_UTIL
    NumUserTimers = 0
    TicksAbsoluteMod = 2
    TicksTimeoutMod = 2
    NumMutexes = 1
    NumQueues = 2
    QueueLength <- LengthTwo
    Messages = {m1, m2}
    NoMessage = NoMessage
    NumEvents = 0
    EventTask <- OwnTask
    EventSignals <- AllSignals
    Calls <- QueueCalls
    TaskQueues <- FirstQueue
    Recipients = {1}
    Timeouts = {0, 1}
    StartTasks = {0, 1, 2}
    TickInUse = TRUE
SPECIFICATION Spec
INVARIANTS TypeOK ReceiversWoken SendersWoken TimerSignalIsExpected MutexWaitersRegistered TimedWaitsArmed IdleHasNoWork
PROPERTY ImplementsFifo
SYMMETRY MessagePermutations
