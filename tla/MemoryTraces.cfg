SPECIFICATION Spec
CONSTANTS
    critical = critical
    trigger = trigger
    other = other
    victim = victim
    observer = observer
    Memory = {critical, trigger, other}
    Protected = {critical}
    Valid <- MCValid
    Query <- MCQuery
    Policy <- MCPolicy
    InitialPolicy <- Pure
    Note = {"note"}
    None = None
    Rejected = Rejected
    MaxSequence = 5
    MaxTime = 1
INVARIANTS
    TypeOK
    TraceVerifies
    ReplayReconstructs
    RemovalHasCause
    ProtectedAsControl
