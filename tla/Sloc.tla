-------------------------------- MODULE Sloc ---------------------------------
(***************************************************************************)
(* Source Lines of Code, src/srcmetrics/metrics/sloc.c: the handlers that  *)
(* the dispatcher calls, one per event.  sloc_state is a flag of one       *)
(* level: the end of ANY simple statement leaves the statement, nested or  *)
(* not.                                                                    *)
(***************************************************************************)
EXTENDS Event

VARIABLES
    sloc_state,      \* where the reader is
    sloc_overall,    \* lines of the document
    sloc_unit,       \* lines of the unit
    sloc_fn,         \* lines of the function
    sloc_statistics  \* the rows to report, in order of insertion

slocVars == <<sloc_state, sloc_overall, sloc_unit, sloc_fn, sloc_statistics>>

SlocStates == {"WAITING_UNIT", "READING_UNIT", "READING_METHOD",
               "READING_UNIT_STATEMENT", "READING_METHOD_STATEMENT"}

SlocSimple == {"expr_stmt", "decl_stmt", "return", "break", "continue", "label",
               "goto", "default", "case", "directive", "macro"}
SlocBlock  == {"for", "while", "switch", "if_stmt", "typedef", "struct", "union"}

(* insert_map: every key is a string of its own, so nothing is overwritten. *)
SlocInsert(key, val) ==
    sloc_statistics' = Append(sloc_statistics, [key |-> <<"SLOC">> \o key, value |-> val])

SlocInit ==
    /\ sloc_state = "WAITING_UNIT"
    /\ sloc_overall = 0
    /\ sloc_unit = 0
    /\ sloc_fn = 0
    /\ sloc_statistics = <<>>

event_startDocument_sloc ==
    /\ sloc_overall' = 0
    /\ sloc_state' = "WAITING_UNIT"
    /\ sloc_statistics' = <<>>
    /\ UNCHANGED <<sloc_unit, sloc_fn>>

event_endDocument_sloc ==
    /\ SlocInsert(<<>>, sloc_overall)
    /\ UNCHANGED <<sloc_state, sloc_overall, sloc_unit, sloc_fn>>

event_startUnit_sloc ==
    /\ sloc_unit' = 0
    /\ sloc_state' = "READING_UNIT"
    /\ UNCHANGED <<sloc_overall, sloc_fn, sloc_statistics>>

event_endUnit_sloc ==
    /\ SlocInsert(<<"_">> \o get_chunk(strings, currentUnit_id), sloc_unit)
    /\ sloc_state' = "WAITING_UNIT"
    /\ UNCHANGED <<sloc_overall, sloc_unit, sloc_fn>>

(* One more line: of the document and of the unit. *)
SlocLine ==
    /\ sloc_overall' = sloc_overall + 1
    /\ sloc_unit' = sloc_unit + 1

SlocFunction(localname) ==
    /\ localname = "function"
    /\ SlocLine
    /\ sloc_fn' = 0
    /\ sloc_state' = "READING_METHOD"

SlocUnitStatement(localname) ==
    /\ localname \in SlocSimple
    /\ sloc_state = "READING_UNIT"
    /\ SlocLine
    /\ sloc_state' = "READING_UNIT_STATEMENT"
    /\ UNCHANGED sloc_fn

SlocMethodStatement(localname) ==
    /\ localname \in SlocSimple
    /\ sloc_state = "READING_METHOD"
    /\ SlocLine
    /\ sloc_fn' = sloc_fn + 1
    /\ sloc_state' = "READING_METHOD_STATEMENT"

SlocMethodBlock(localname) ==
    /\ localname \in SlocBlock
    /\ sloc_state = "READING_METHOD"
    /\ SlocLine
    /\ sloc_fn' = sloc_fn + 1
    /\ UNCHANGED sloc_state

SlocNoLine(localname) ==
    /\ localname # "function"
    /\ ~(localname \in SlocSimple /\ sloc_state \in {"READING_UNIT", "READING_METHOD"})
    /\ ~(localname \in SlocBlock /\ sloc_state = "READING_METHOD")
    /\ UNCHANGED <<sloc_state, sloc_overall, sloc_unit, sloc_fn>>

event_startElement_sloc(localname) ==
    /\ \/ SlocFunction(localname)
       \/ SlocUnitStatement(localname)
       \/ SlocMethodStatement(localname)
       \/ SlocMethodBlock(localname)
       \/ SlocNoLine(localname)
    /\ UNCHANGED sloc_statistics

(* Slip: the method is not left. *)
SlocFunctionEnds_stays(localname) ==
    /\ localname = "function"
    /\ SlocInsert(<<"_">> \o get_chunk(strings, currentFn_id), sloc_fn)
    /\ UNCHANGED sloc_state

(* Slip: the row of the function has the key of the unit. *)
SlocFunctionEnds_unitKey(localname) ==
    /\ localname = "function"
    /\ sloc_state' = "READING_UNIT"
    /\ SlocInsert(<<"_">> \o get_chunk(strings, currentUnit_id), sloc_fn)

SlocFunctionEnds(localname) ==
    /\ localname = "function"
    /\ sloc_state' = "READING_UNIT"
    /\ SlocInsert(<<"_">> \o get_chunk(strings, currentFn_id), sloc_fn)

(* Slip: every statement ends in a method. *)
SlocStatementEnds_inMethod(localname) ==
    /\ localname \in SlocSimple
    /\ sloc_state' = "READING_METHOD"
    /\ UNCHANGED sloc_statistics

SlocStatementEnds(localname) ==
    /\ localname \in SlocSimple
    /\ sloc_state' = CASE sloc_state = "READING_METHOD_STATEMENT" -> "READING_METHOD"
                       [] sloc_state = "READING_UNIT_STATEMENT" -> "READING_UNIT"
                       [] OTHER -> sloc_state
    /\ UNCHANGED sloc_statistics

SlocOtherEnds(localname) ==
    /\ localname # "function"
    /\ localname \notin SlocSimple
    /\ UNCHANGED <<sloc_state, sloc_statistics>>

event_endElement_sloc(localname) ==
    /\ \/ SlocFunctionEnds(localname)
       \/ SlocStatementEnds(localname)
       \/ SlocOtherEnds(localname)
    /\ UNCHANGED <<sloc_overall, sloc_unit, sloc_fn>>

-----------------------------------------------------------------------------
(* Properties.                                                             *)

Lines == INSTANCE LineCount WITH
    overall <- sloc_overall,
    unit <- sloc_unit,
    fn <- sloc_fn,
    rows <- [i \in DOMAIN sloc_statistics |-> sloc_statistics[i].value]

(* On a flat stream (no simple statement inside another, no function       *)
(* inside one) the counters and the reported rows are those that the       *)
(* structure of the code defines.                                          *)
SlocImplementsLineCount == Lines!LineSpec

(* In every stream a statement is only being read while a simple statement *)
(* is open, and a method while a function is.                              *)
SlocStateSound ==
    /\ sloc_state \in {"READING_UNIT_STATEMENT", "READING_METHOD_STATEMENT"} =>
           SlocSimple \cap OpenTags # {}
    /\ sloc_state \in {"READING_METHOD", "READING_METHOD_STATEMENT"} =>
           "function" \in OpenTags
    /\ sloc_state = "WAITING_UNIT" <=> phase # "unit"
==============================================================================
