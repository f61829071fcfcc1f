CONSTANTS
    Workers = {w1, w2}
    Tasks = {t1, t2, t3, t4, t5}
    MaxTasks = 4
    NoTask = NoTask
SPECIFICATION FairSpec
CHECK_DEADLOCK FALSE
INVARIANTS WorkersNotMissed IdleWaiterNotMissed OneHandler
PROPERTIES WaiterServed DestroyReturns
