------------------------------ MODULE MCReport ------------------------------
(***************************************************************************)
(* Metrics with rows, without rows (CC), and one that is not shown (RFU),  *)
(* with bits over the metrics, as after --all-metrics.                     *)
(***************************************************************************)
EXTENDS Report

MCReports == <<"ABC", "CC", "RFU", "SLOC", "NULL", "NULL">>

MCStatistics == [ABC  |-> <<"ABC_a.c", "ABC">>,
                 CC   |-> <<>>,
                 RFU  |-> <<"RFU">>,
                 SLOC |-> <<"SLOC_a.c", "SLOC">>]
==============================================================================
