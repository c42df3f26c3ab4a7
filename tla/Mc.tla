---------------------------------- MODULE Mc ---------------------------------
(***************************************************************************)
(* Method Count, src/srcmetrics/metrics/mc.c.                              *)
(***************************************************************************)
EXTENDS Event

VARIABLES
    mc_overall,    \* functions of the document
    mc_unit,       \* functions of the unit
    mc_statistics  \* the rows to report, in order of insertion

mcVars == <<mc_overall, mc_unit, mc_statistics>>

McInsert(key, val) ==
    mc_statistics' = Append(mc_statistics, [key |-> <<"MC">> \o key, value |-> val])

McInit ==
    /\ mc_overall = 0
    /\ mc_unit = 0
    /\ mc_statistics = <<>>

event_startDocument_mc ==
    /\ mc_overall' = 0
    /\ mc_statistics' = <<>>
    /\ UNCHANGED mc_unit

event_endDocument_mc ==
    /\ McInsert(<<>>, mc_overall)
    /\ UNCHANGED <<mc_overall, mc_unit>>

event_startUnit_mc ==
    /\ mc_unit' = 0
    /\ UNCHANGED <<mc_overall, mc_statistics>>

event_endUnit_mc ==
    /\ McInsert(<<"_">> \o get_chunk(strings, currentUnit_id), mc_unit)
    /\ UNCHANGED <<mc_overall, mc_unit>>

event_startElement_mc(localname) ==
    /\ IF localname = "function"
       THEN mc_overall' = mc_overall + 1 /\ mc_unit' = mc_unit + 1
       ELSE UNCHANGED <<mc_overall, mc_unit>>
    /\ UNCHANGED mc_statistics
==============================================================================
