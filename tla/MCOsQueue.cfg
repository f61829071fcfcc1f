CONSTANTS
    Producers = {p1, p2, p3}
    Consumers = {c1, c2}
    Items = {x1, x2, x3}
    Size = 2
    Nil = Nil
SPECIFICATION FairSpec
INVARIANTS ConsumersNotMissed ProducersNotMissed
PROPERTIES ImplementsFifo QueuedIsDelivered ShutdownReleasesCallers
