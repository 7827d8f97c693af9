CONSTANTS
    Starting <- MCStarting
    Texts <- MCTexts
    Value <- MCValue
    Queries <- MCQueries
    Ids = {1, 2, 4097}
    Synonyms <- MCSynonyms
    Marked = {2, 4097}
    MaxEdits = 2
SPECIFICATION Spec
INVARIANTS
    IndexExact
    ImageExact
    QueryExact
    ImageQueryExact
CHECK_DEADLOCK FALSE
