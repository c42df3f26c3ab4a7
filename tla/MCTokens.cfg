CONSTANTS
    Tags <- MCTags
    Grammar <- MCGrammar
    Texts <- MCTexts
    StaticSpelling <- MCStaticSpelling
    FlagSets <- MCNoFlags
    Word = 65536
    Filenames = {"a.c"}
    Enabled = {"ABC", "HSM"}
    MaxUnits = 2
    MaxElements = 7
    MaxDepth = 6
    MaxPieces = 2
SPECIFICATION MetricsSpec
INVARIANTS
    OperatorByItsText
    StackFollowsExprs
    OperatorTextExact
    OperandsNest
    HsmLevelsAgree
PROPERTIES
    AbcImplementsCount
\* The program ends after the document.
CHECK_DEADLOCK FALSE
