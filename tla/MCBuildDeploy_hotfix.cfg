CONSTANTS
    MaxRows = 4
    MaxTries = 4
    Ports = {1, 2}
    HasSchedules = FALSE
    Requests = {"upload", "sync", "deploy"}
    MaxMishaps = 0
SPECIFICATION DeploySpec
INVARIANT HotfixKept
CHECK_DEADLOCK FALSE
