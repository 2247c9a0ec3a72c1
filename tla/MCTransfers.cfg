\* The queue: two producers, two consumers, two closers that wait.
SPECIFICATION MCSpec
CONSTANTS
    MaxSize = 1
    Items = {"a", "b", "c"}
    Producers = {"p1", "p2"}
    Consumers = {"c1", "c2"}
    Closers = {"k1", "k2"}
    Waiting = {"k1", "k2"}
    Work <- WorkOfTwo
INVARIANTS
    ScanAllOrNothing
    
    CollectionsAddUp
    
    NoTaskLeftBehind
PROPERTIES
    QueueImplements
    
    SuccessMeansProcessed
    StopReturns
    EventuallySynchronised
CHECK_DEADLOCK FALSE
