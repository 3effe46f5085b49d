CONSTANTS
    N = 3
    AppSignals = {RTOS_UTIL}
    TASK_TIMER = TASK_TIMER
    RTOS_UTIL = RTOS_UTIL
    NumUserTimers = 0
    TicksAbsoluteMod = 2
    TicksTimeoutMod = 2
    NumMutexes = 0
    NumQueues = 1
    QueueLength <- LengthTwo
    Messages = {m1}
    NoMessage = NoMessage
    NumEvents = 0
    EventTask <- OwnTask
    EventSignals <- AllSignals
    Calls <- QueueCalls
    TaskQueues <- FirstQueue
    Recipients = {1}
    Timeouts = {1}
    StartTasks = {0, 1, 2}
    TickInUse = TRUE
SPECIFICATION Spec
INVARIANT SendersWoken
