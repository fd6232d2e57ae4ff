CONSTANTS
    w1 = w1
    k1 = k1
    k2 = k2
    k3 = k3
    k4 = k4
    Workers = {w1, w2}
    Clients = {c1}
    Owner = Owner
    Tasks = {k1}
    CallbackTasks <- MCCallbackTasks
    Priority <- MCPriority
    Cached = FALSE
    initThreadSize = 2
    maxThreadCount = 2
    maxTaskQueueSize = 1
    None = None
SPECIFICATION FairSpec
CHECK_DEADLOCK FALSE
PROPERTY DestructorReturns
