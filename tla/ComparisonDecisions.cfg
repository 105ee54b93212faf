SPECIFICATION ComparisonSpec
CONSTANTS
    norm = norm
    rule = rule
    old = old
    close = close
    canary = canary
    sham = sham
    alpha = alpha
    omega = omega
    decider = decider
    victim = victim
    observer = observer
    Memory = {norm, rule, old, close, canary, sham, alpha, omega}
    Protected = {norm, rule, old}
    Valid <- MCValid
    Query = {}
    Policy <- MCPolicy
    InitialPolicy <- Pure
    Note = {}
    None = None
    Rejected = Rejected
    MaxSequence = 0
    MaxTime = 0
    Scenario <- RisiScenarios
    Reads <- MCReads
INVARIANT RecoveredOnlyWhenSafe
