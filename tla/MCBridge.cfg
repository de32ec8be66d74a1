SPECIFICATION MCSpec
CONSTANTS
    Calls = {c1, c2}
    Transports = {"stdio", "sse"}
    MetricsPorts = {"none", "shared"}
    MaxStarts = 2
    Tools = {"helixon_cancel_job"}
    Texts = {"job-1"}
    PositiveTexts = {}
    Free = Free
    MaxFaults = 0
INVARIANTS ServerTypeOK BridgeTypeOK Audited TruthfulAudit
PROPERTIES EndsForAReason PromiseToClient Settles
CHECK_DEADLOCK FALSE
