SPECIFICATION Spec
CONSTANTS
    fast = fast free = free
    Keys = {fast, free}
    Rpm <- Limits
    Steps = {10, 15}
    MaxTime = 80
    MaxRestarts = 1
INVARIANTS TypeOK RateBounded
PROPERTIES DeniedOnlySoonAfterGrant
