SPECIFICATION Spec
CONSTANTS
    MaxClients = 2
    MaxRequests = 3
    MaxExits = 2
    MaxSettings = 1
    MaxFaults = 2
INVARIANTS OneClient Obeyed
PROPERTY ComesBack
CHECK_DEADLOCK FALSE
