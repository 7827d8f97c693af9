CONSTANTS
    Bits = 8
    Docs <- MCDocs
    Gaps <- MCGaps
    Keys <- MCKeys
    Items <- MCItems
    MaxOps = 5
SPECIFICATION Spec
INVARIANTS
    ParseExact
    RoundTrip
    LookupExact
CHECK_DEADLOCK FALSE
