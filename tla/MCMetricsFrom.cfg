CONSTANTS
    Words <- MCWords
    Lex <- MCLex
    BadMetric <- MCBadMetric
    Lists <- MCLists
    Existing <- MCExisting
    MaxArgs = 2
SPECIFICATION Spec
INVARIANTS
    MetricsFromHonoured
\* The program ends.
CHECK_DEADLOCK FALSE
