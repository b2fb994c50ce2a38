SPECIFICATION Spec
CONSTANTS
    Users = {"ann"}
    Registered = {"ann"}
    Browsers = {"home"}
    Calls <- DoubleClick
    Purposes <- MCPurposes
    From <- MCFrom
    For <- MCFor
    AccessTTL = 1
    RefreshTTL = 2
    Horizon = 1
    MaxFaults = 0
PROPERTIES SessionSaved
