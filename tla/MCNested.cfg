CONSTANTS
    Tags <- MCTags
    Grammar <- MCNested
    Texts <- MCOtherTexts
    StaticSpelling <- MCStaticSpelling
    FlagSets <- MCNoFlags
    Word = 65536
    Filenames = {"a.c", "b.c"}
    Enabled = {"AMS", "MC", "NPM", "SLOC"}
    MaxUnits = 2
    MaxElements = 9
    MaxDepth = 6
    MaxPieces = 2
SPECIFICATION MetricsSpec
INVARIANTS
    TypeOK
    StartUnitAssert
    AppendsReachFn
    FnNamedAsDeclared
    KeysSpellSubjects
    SlocStateSound
    AmsSizesRecorded
    AmsAgreesWithSloc
    AmsAveragesSloc
    NpmTypeOK
    DiscountsCounted
PROPERTIES
    OnlyFnNameGrows
\* The program ends after the document.
CHECK_DEADLOCK FALSE
