SPECIFICATION Spec
CONSTANTS
    MaxClients = 2
    MaxRequests = 1
    MaxExits = 0
    MaxSettings = 1
    MaxFaults = 1
INVARIANT FailedApplyLeavesStopped
CHECK_DEADLOCK FALSE
