------------------------------- MODULE Report -------------------------------
(***************************************************************************)
(* reportCsv, src/srcmetrics/report.c: the rows of the enabled metrics are *)
(* written one after the other to a file or to standard output.  A row is  *)
(* four writes, each of which may fail and end the report.                 *)
(***************************************************************************)
EXTENDS Integers, SequencesExt

CONSTANTS
    Reports,      \* REPORTS: the accessors, by their metric, or "NULL"
    Statistics,   \* the rows in the map of each metric
    Unreported,   \* metrics whose accessor returns NULL, as that of a quiet RFU
    Outfile       \* whether options.outfile is set

ASSUME ReportAssumption ==
    /\ "NULL" \notin DOMAIN Statistics
    /\ Unreported \subseteq DOMAIN Statistics
    /\ Reports \in Seq(DOMAIN Statistics \cup {"NULL"})
    /\ \A m \in DOMAIN Statistics : Statistics[m] \in Seq(Range(Statistics[m]))

VARIABLES
    enabledMetrics,   \* the bits that are still set, counted from the first
    report,           \* the accessor of the lowest bit
    mapping,          \* the row to write, in the metric's map
    part,             \* what to write of it
    output,           \* what has been written
    stage             \* "open", "rows", or how reportCsv returned

reportVars == <<enabledMetrics, report, mapping, part, output, stage>>

Parts == <<"key", "delimiter", "value", "row end">>

(* The rows that the loop over mappings goes through. *)
Rows(i) ==
    IF Reports[i] = "NULL" \/ Reports[i] \in Unreported \/ i \notin enabledMetrics
    THEN <<>> ELSE Statistics[Reports[i]]

Init ==
    /\ enabledMetrics \in SUBSET DOMAIN Reports
    /\ report = 1
    /\ mapping = 1
    /\ part = 1
    /\ output = <<>>
    /\ stage = "open"

OpenOutput ==
    /\ stage = "open"
    /\ stage' \in IF Outfile THEN {"rows", "failed"} ELSE {"rows"}
    /\ UNCHANGED <<enabledMetrics, report, mapping, part, output>>

(* Slip: a metric without rows is asked again. *)
NextReport_stays ==
    /\ stage = "rows"
    /\ \E i \in enabledMetrics : i >= report
    /\ mapping > Len(Rows(report))
    /\ report' = IF Rows(report) = <<>> THEN report ELSE report + 1
    /\ mapping' = 1
    /\ UNCHANGED <<enabledMetrics, part, output, stage>>

(* The loop's step, after the rows of a metric or past one without any.    *)
NextReport ==
    /\ stage = "rows"
    /\ \E i \in enabledMetrics : i >= report
    /\ mapping > Len(Rows(report))
    /\ report' = report + 1
    /\ mapping' = 1
    /\ UNCHANGED <<enabledMetrics, part, output, stage>>

(* Slip: the row is left before its end is written. *)
Write_movesEarly ==
    /\ stage = "rows"
    /\ \E i \in enabledMetrics : i >= report
    /\ mapping <= Len(Rows(report))
    /\ output' = Append(output, <<Rows(report)[mapping], Parts[part]>>)
    /\ part' = (part % Len(Parts)) + 1
    /\ mapping' = IF part = Len(Parts) - 1 THEN mapping + 1 ELSE mapping
    /\ UNCHANGED <<enabledMetrics, report, stage>>

Write ==
    /\ stage = "rows"
    /\ \E i \in enabledMetrics : i >= report
    /\ mapping <= Len(Rows(report))
    /\ output' = Append(output, <<Rows(report)[mapping], Parts[part]>>)
    /\ part' = (part % Len(Parts)) + 1
    /\ mapping' = IF part = Len(Parts) THEN mapping + 1 ELSE mapping
    /\ UNCHANGED <<enabledMetrics, report, stage>>

WriteFails ==
    /\ stage = "rows"
    /\ \E i \in enabledMetrics : i >= report
    /\ mapping <= Len(Rows(report))
    /\ stage' = "failed"
    /\ UNCHANGED <<enabledMetrics, report, mapping, part, output>>

(* No bit is set any more.  Only a file is closed, and that may fail.      *)
CloseOutput ==
    /\ stage = "rows"
    /\ ~\E i \in enabledMetrics : i >= report
    /\ stage' \in IF Outfile THEN {"ok", "failed"} ELSE {"ok"}
    /\ UNCHANGED <<enabledMetrics, report, mapping, part, output>>

Next == OpenOutput \/ NextReport \/ Write \/ WriteFails \/ CloseOutput

(* One thread: while the function can take a step it does.                 *)
Spec == Init /\ [][Next]_reportVars /\ WF_reportVars(Next)

-----------------------------------------------------------------------------
(* Properties.                                                             *)

(* The writes of the rows of a metric when the bits are set: row by row,   *)
(* each in its parts.                                                      *)
Written(bits, i) ==
    LET rows == IF i \in bits /\ Reports[i] \in DOMAIN Statistics \ Unreported
                THEN Statistics[Reports[i]] ELSE <<>>
        n == Len(Parts)
    IN  [k \in 1..n * Len(rows) |-> <<rows[((k - 1) \div n) + 1], Parts[((k - 1) % n) + 1]>>]

(* The report of the first i metrics: metrics in the order of the table,   *)
(* rows in the order they were inserted.                                   *)
ReportUpTo(bits) ==
    LET upto[i \in 0..Len(Reports)] ==
            IF i = 0 THEN <<>> ELSE upto[i - 1] \o Written(bits, i)
    IN  upto

WholeReport == ReportUpTo(enabledMetrics)[Len(Reports)]

(* What has been written is the beginning of the report, also where a      *)
(* write failed: no row is out of its place or written twice.  A report    *)
(* that succeeds is complete.                                              *)
WritesInOrder ==
    /\ IsPrefix(output, WholeReport)
    /\ stage = "ok" => output = WholeReport

(* The report ends, whatever is enabled.                                   *)
Ends == <>(stage \in {"ok", "failed"})
==============================================================================
