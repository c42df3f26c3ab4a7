CONSTANTS
    Tags <- MCTags
    Grammar <- MCGrammar
    Texts <- MCTexts
    StaticSpelling <- MCStaticSpelling
    FlagSets <- MCNoFlags
    Word = 65536
    Filenames = {"a.c"}
    Enabled = {"ABC", "AMS", "HSM", "MC", "MND", "NPM", "SLOC"}
    MaxUnits = 2
    MaxElements = 8
    MaxDepth = 6
    MaxPieces = 1
SPECIFICATION MetricsSpec
INVARIANTS
    MndTypeOK
    NestingFollowsBlocks
    SubjectsAgree
PROPERTIES
    MndImplementsNestingDepth
    SlocImplementsLineCount
    NpmImplementsPublicCount
\* The program ends after the document.
CHECK_DEADLOCK FALSE
