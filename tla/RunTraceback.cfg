SPECIFICATION Spec
CONSTANTS
    Run = {r1, r2}
    None = None
    Scenario <- MCScenario
    Manifest <- MCManifest
    Approval <- MCApproval
    File = {f1, f2}
    Inventory = Inventory
    EvidenceBytes = {1, 3}
    Edited <- MCEdited
    MaxEdits = 1
INVARIANT
    ExitIsDocumented
