CONSTANTS
    Words <- MCWords
    Lex <- MCLex
    BadMetric <- MCBadMetric
    Lists <- MCLists
    Existing <- MCExisting
    MaxArgs = 2
SPECIFICATION Spec
INVARIANTS
    AllShowsMetrics
\* The program ends.
CHECK_DEADLOCK FALSE
