\* Every chain over five uneven strikes with malformed rows, every kind of spot.
SPECIFICATION Spec
CONSTANTS
    Quotes <- MCQuotes
    Chains <- MCChains
    Missing = Missing
    EachSide = 2
    Tolerance = 0
INVARIANTS
    AtmIsNearest
    WindowIsCentred
    WindowIsQuotable
