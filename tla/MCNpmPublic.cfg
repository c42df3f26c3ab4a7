CONSTANTS
    Tags <- MCTags
    Grammar <- MCOneSpecifier
    Texts <- MCOtherTexts
    StaticSpelling <- MCStaticSpelling
    FlagSets <- MCNoFlags
    Word = 65536
    Filenames = {"a.c"}
    Enabled = {"NPM"}
    MaxUnits = 2
    MaxElements = 6
    MaxDepth = 6
    MaxPieces = 1
SPECIFICATION MetricsSpec
PROPERTIES
    NpmImplementsPublicCount
\* The program ends after the document.
CHECK_DEADLOCK FALSE
