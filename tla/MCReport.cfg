CONSTANTS
    Reports <- MCReports
    Statistics <- MCStatistics
    Unreported = {"RFU"}
    Outfile = TRUE
SPECIFICATION Spec
INVARIANTS
    WritesInOrder
PROPERTIES
    Ends
\* The program ends after the report.
CHECK_DEADLOCK FALSE
