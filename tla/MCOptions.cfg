CONSTANTS
    Words <- MCWords
    Lex <- MCLex
    BadMetric <- MCBadMetric
    Lists <- MCLists
    Existing <- MCExisting
    MaxArgs = 3
SPECIFICATION Spec
INVARIANTS
    ReportsEveryFile
    SuccessReports
    MetricsAsAsked
    ShownAsAsked
PROPERTIES
    Terminates
\* The program ends.
CHECK_DEADLOCK FALSE
