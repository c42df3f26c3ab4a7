CONSTANTS
    Tags <- MCTags
    Grammar <- MCGrammar
    Texts <- MCTexts
    StaticSpelling <- MCStaticSpelling
    FlagSets <- MCFlagSets
    Word = 65536
    Filenames = {"a.c"}
    Enabled = {"MND", "RFU"}
    MaxUnits = 1
    MaxElements = 10
    MaxDepth = 6
    MaxPieces = 1
SPECIFICATION MetricsSpec
INVARIANTS
    CallGraphComplete
\* The program ends after the document.
CHECK_DEADLOCK FALSE
