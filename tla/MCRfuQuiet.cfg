CONSTANTS
    Tags <- MCTags
    Grammar <- MCGrammar
    Texts <- MCTexts
    StaticSpelling <- MCStaticSpelling
    FlagSets <- MCHidden
    Word = 65536
    Filenames = {"a.c", "b.c"}
    Enabled = {"MND", "RFU"}
    MaxUnits = 1
    MaxElements = 4
    MaxDepth = 6
    MaxPieces = 1
SPECIFICATION MetricsSpec
INVARIANTS
    CallGraphGenerated
\* The program ends after the document, or where a check fails.
CHECK_DEADLOCK FALSE
