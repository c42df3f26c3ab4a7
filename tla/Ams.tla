--------------------------------- MODULE Ams ---------------------------------
(***************************************************************************)
(* Average Method Size, src/srcmetrics/metrics/ams.c.  The handlers keep   *)
(* the size of every method in two arrays, one for the unit and one for    *)
(* the document, that are allocated once, never cleared, and grown by      *)
(* reallocation.  An average is the pair of the sum and the count: the     *)
(* code divides the two as floats, also when the count is zero.            *)
(***************************************************************************)
EXTENDS Event, Integers

VARIABLES
    ams_read_state,        \* where the reader is
    method_count_unit,     \* methods that started in the unit
    method_count_overall,  \* methods that started in the document
    method_size,           \* size of the method so far
    ms_unit_list,          \* the unit's array, index 1 first
    ms_overall_list,       \* the document's array
    ams_statistics         \* the rows to report, in order of insertion

amsVars == <<ams_read_state, method_count_unit, method_count_overall, method_size,
             ms_unit_list, ms_overall_list, ams_statistics>>

(* Slip: one statement is missing from the list. *)
AmsSimple_noGoto == {"expr_stmt", "decl_stmt", "return", "break", "continue", "label",
                     "default", "case", "directive", "macro"}

AmsSimple == {"expr_stmt", "decl_stmt", "return", "break", "continue", "label",
              "goto", "default", "case", "directive", "macro"}
AmsBlock  == {"for", "while", "switch", "if_stmt", "typedef", "struct", "union"}

(* What malloc and realloc leave in a cell that was never written: no size. *)
Garbage == -1

(* list[n - 1] = size, after REALLOC_IF_NECESSARY. *)
MsWrite(list, n, size) ==
    [i \in 1..(IF n > Len(list) THEN n ELSE Len(list)) |->
        IF i = n THEN size ELSE IF i \in DOMAIN list THEN list[i] ELSE Garbage]

(* The loops that sum list[count - 1] down to list[0]. *)
MsSum(list, count) ==
    LET sum[n \in 0..count] == IF n = 0 THEN 0 ELSE sum[n - 1] + list[n] IN sum[count]

AmsInsert(key, list, count) ==
    ams_statistics' = Append(ams_statistics,
        [key |-> <<"AMS">> \o key, value |-> [sum |-> MsSum(list, count), count |-> count]])

AmsInit ==
    /\ ams_read_state = "WAITING_METHOD"
    /\ method_count_unit = 0
    /\ method_count_overall = 0
    /\ method_size = 0
    /\ ms_unit_list = <<>>
    /\ ms_overall_list = <<>>
    /\ ams_statistics = <<>>

event_startDocument_ams ==
    /\ ams_read_state' = "WAITING_METHOD"
    /\ method_count_overall' = 0
    /\ ams_statistics' = <<>>
    /\ UNCHANGED <<method_count_unit, method_size, ms_unit_list, ms_overall_list>>

event_endDocument_ams ==
    /\ AmsInsert(<<>>, ms_overall_list, method_count_overall)
    /\ UNCHANGED <<ams_read_state, method_count_unit, method_count_overall, method_size,
                   ms_unit_list, ms_overall_list>>

(* Slip: the unit's methods are not forgotten. *)
event_startUnit_ams_noReset ==
    /\ ams_read_state' = "WAITING_METHOD"
    /\ UNCHANGED <<method_count_unit, method_count_overall, method_size, ms_unit_list,
                   ms_overall_list, ams_statistics>>

event_startUnit_ams ==
    /\ ams_read_state' = "WAITING_METHOD"
    /\ method_count_unit' = 0
    /\ UNCHANGED <<method_count_overall, method_size, ms_unit_list, ms_overall_list,
                   ams_statistics>>

event_endUnit_ams ==
    /\ AmsInsert(<<"_">> \o get_chunk(strings, currentUnit_id), ms_unit_list, method_count_unit)
    /\ UNCHANGED <<ams_read_state, method_count_unit, method_count_overall, method_size,
                   ms_unit_list, ms_overall_list>>

AmsMethod(localname) ==
    /\ ams_read_state = "WAITING_METHOD"
    /\ localname = "function"
    /\ ams_read_state' = "READING_METHOD"
    /\ method_size' = 0
    /\ method_count_unit' = method_count_unit + 1
    /\ method_count_overall' = method_count_overall + 1

AmsStatement(localname) ==
    /\ ams_read_state = "READING_METHOD"
    /\ localname \in AmsSimple
    /\ ams_read_state' = "READING_STATEMENT"
    /\ method_size' = method_size + 1
    /\ UNCHANGED <<method_count_unit, method_count_overall>>

AmsCompound(localname) ==
    /\ ams_read_state = "READING_METHOD"
    /\ localname \in AmsBlock
    /\ method_size' = method_size + 1
    /\ UNCHANGED <<ams_read_state, method_count_unit, method_count_overall>>

AmsSkipsStart(localname) ==
    /\ ~(ams_read_state = "WAITING_METHOD" /\ localname = "function")
    /\ ~(ams_read_state = "READING_METHOD" /\ localname \in AmsSimple \cup AmsBlock)
    /\ UNCHANGED <<ams_read_state, method_count_unit, method_count_overall, method_size>>

event_startElement_ams(localname) ==
    /\ \/ AmsMethod(localname)
       \/ AmsStatement(localname)
       \/ AmsCompound(localname)
       \/ AmsSkipsStart(localname)
    /\ UNCHANGED <<ms_unit_list, ms_overall_list, ams_statistics>>

(* Slip: the unit's array is indexed with the document's count. *)
AmsMethodEnds_swappedIndex(localname) ==
    /\ ams_read_state = "READING_METHOD"
    /\ localname = "function"
    /\ ams_read_state' = "WAITING_METHOD"
    /\ ms_overall_list' = MsWrite(ms_overall_list, method_count_overall, method_size)
    /\ ms_unit_list' = MsWrite(ms_unit_list, method_count_overall, method_size)

AmsMethodEnds(localname) ==
    /\ ams_read_state = "READING_METHOD"
    /\ localname = "function"
    /\ ams_read_state' = "WAITING_METHOD"
    /\ ms_overall_list' = MsWrite(ms_overall_list, method_count_overall, method_size)
    /\ ms_unit_list' = MsWrite(ms_unit_list, method_count_unit, method_size)

AmsStatementEnds(localname) ==
    /\ ams_read_state = "READING_STATEMENT"
    /\ localname \in AmsSimple
    /\ ams_read_state' = "READING_METHOD"
    /\ UNCHANGED <<ms_unit_list, ms_overall_list>>

AmsSkipsEnd(localname) ==
    /\ ~(ams_read_state = "READING_METHOD" /\ localname = "function")
    /\ ~(ams_read_state = "READING_STATEMENT" /\ localname \in AmsSimple)
    /\ UNCHANGED <<ams_read_state, ms_unit_list, ms_overall_list>>

event_endElement_ams(localname) ==
    /\ \/ AmsMethodEnds(localname)
       \/ AmsStatementEnds(localname)
       \/ AmsSkipsEnd(localname)
    /\ UNCHANGED <<method_count_unit, method_count_overall, method_size, ams_statistics>>

-----------------------------------------------------------------------------
(* Whenever no function is open, the unit's array holds, in cells 1 to     *)
(* method_count_unit, the sizes of exactly the unit's functions: the end   *)
(* of the document's array.  No cell that endUnit or endDocument sums is   *)
(* uninitialised or left over from an earlier unit.                        *)
AmsSizesRecorded ==
    "function" \notin OpenTags =>
        /\ method_count_overall <= Len(ms_overall_list)
        /\ \A i \in 1..method_count_overall : ms_overall_list[i] # Garbage
        /\ \A i \in 1..method_count_unit :
              /\ i <= Len(ms_unit_list)
              /\ ms_unit_list[i] = ms_overall_list[method_count_overall - method_count_unit + i]
==============================================================================
