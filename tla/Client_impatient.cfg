\* The shipped limits in seconds, and a cycle of a single request.
SPECIFICATION Spec
CONSTANTS
    MaxAttempts = 3
    AttemptTime = 25
    MaxRetryAfter = 120
    Suggestions <- ShippedSuggestions
    NoHeader = NoHeader
    LongestDelay = 120
    Requests = 1
    MaxWork = 0
    StopTimeout = 90
INVARIANTS
    StopIsPolite
