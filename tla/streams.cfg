SPECIFICATION FairSpec
CONSTANTS
    Handlers = {1, 2, 3}
    Apis = {"openai", "anthropic", "gemini", "plain"}
    Capacity = 2
    HeldUntilSent = TRUE
    Reports <- GrowingReports
    MaxLines = 2
INVARIANTS TypeOK BilledAsLegible CircleNeedsStreams
PROPERTIES CallsEnd
