SPECIFICATION Spec
CONSTANTS
    Users = {"ann", "bob"}
    Registered = {"bob"}
    Browsers = {"home", "phone"}
    Calls <- Evening
    Purposes <- MCPurposes
    From <- MCFrom
    For <- MCFor
    AccessTTL = 1
    RefreshTTL = 2
    Horizon = 3
    MaxFaults = 1
INVARIANTS
    TypeOK
    OneSession
    CookiesAgree
PROPERTIES
    RevokedStaysRevoked
    OnlyPasswordsOpen
