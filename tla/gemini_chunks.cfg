SPECIFICATION Spec
CONSTANTS
    Handlers = {1}
    Apis = {"gemini"}
    Capacity = 2
    HeldUntilSent = TRUE
    Reports <- GrowingReports
    MaxLines = 2
INVARIANT BilledAsReported
