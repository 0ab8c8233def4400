\* Few attempts and short delays, two requests a cycle, a stop at any moment,
\* a supervisor that waits for one request but not for every two.
SPECIFICATION FairSpec
CONSTANTS
    MaxAttempts = 3
    AttemptTime = 2
    MaxRetryAfter = 4
    Suggestions <- SmallSuggestions
    NoHeader = NoHeader
    LongestDelay = 4
    Requests = 2
    MaxWork = 1
    StopTimeout = 20
INVARIANTS
    RequestTimeBounded
    EndsAtTheVerdict
PROPERTIES
    StopInTimeExits
