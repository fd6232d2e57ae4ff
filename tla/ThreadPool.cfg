CONSTANTS
    w1 = w1
    k1 = k1
    k2 = k2
    k3 = k3
    k4 = k4
    Workers = {w1, w2}
    Clients = {c1, c2}
    Owner = Owner
    Tasks = {k1, k2, k3, k4}
    CallbackTasks <- MCCallbackTasks
    Priority <- MCPriority
    Cached = TRUE
    initThreadSize = 1
    maxThreadCount = 2
    maxTaskQueueSize = 2
    None = None
SPECIFICATION FairSpec
CHECK_DEADLOCK FALSE
ACTION_CONSTRAINT Canonical
INVARIANTS
    NoLostWakeup NoLostRoom CallbacksComplete
    CountersAgree NoStrandedTask AtRestWhenDestroyed
PROPERTIES ImplementsTaskQueue TaskEventuallyRuns
