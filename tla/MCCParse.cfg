CONSTANTS
    Tags <- MCTags
    Grammar <- MCGrammar
    Texts <- MCTexts
    Filenames = {"a.c"}
    Enabled = {}
    MaxUnits = 2
    MaxElements = 10
    MaxDepth = 12
    MaxPieces = 2
SPECIFICATION CcSpec
INVARIANTS
    StackFollowsOpen
    EndsMatch
    FnNameExact
    BlocksChained
\* The program ends after the document, or where a check fails.
CHECK_DEADLOCK FALSE
