CONSTANTS
    N = 2
    AppSignals = {RTOS_UTIL, s1}
    TASK_TIMER = TASK_TIMER
    RTOS_UTIL = RTOS_UTIL
    NumUserTimers = 0
    TicksAbsoluteMod = 2
    TicksTimeoutMod = 2
    NumMutexes = 0
    NumQueues = 1
    QueueLength <- LengthOne
    Messages = {m1}
    NoMessage = NoMessage
    NumEvents = 1
    EventTask <- OwnTask
    EventSignals <- AllSignals
    Calls <- ApiCalls
    TaskQueues <- AnyQueue
    Recipients = {1}
    Timeouts = {0, 1}
    StartTasks = {0}
    TickInUse = TRUE
SPECIFICATION FairSpec
PROPERTIES RunnableTaskRuns TimedWaitEnds
