CONSTANTS
    Tags <- MCTags
    Grammar <- MCGrammar
    Texts <- MCTexts
    StaticSpelling <- MCStaticSpelling
    FlagSets <- MCFlagSets
    Word = 65536
    Filenames = {"a.c", "b.c"}
    Enabled = {"MND", "RFU"}
    MaxUnits = 2
    MaxElements = 10
    MaxDepth = 6
    MaxPieces = 1
SPECIFICATION MetricsSpec
INVARIANTS
    ReadersAgree
    EdgesAreCalls
    CallsAreEdges
PROPERTIES
    RfuImplementsCallGraph
\* The program ends after the document.
CHECK_DEADLOCK FALSE
