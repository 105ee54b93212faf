SPECIFICATION Spec
CONSTANTS
    Powers <- MCPowers
    Sizes <- MCSizes
    Rounds = 8
    Run <- MCRun
    Authors <- MCAuthors
    Disturbed <- MCDisturbed
    MaxChanges = 2
INVARIANTS
    TypeOK
    SizeIsFound
    AcceptedWasIntact
    UndisturbedIsAccepted
    ResultIsOfOneRun
    EqualMeansSame
