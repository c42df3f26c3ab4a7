--------------------------------- MODULE Mnd ---------------------------------
(***************************************************************************)
(* Maximum Nesting Depth, src/srcmetrics/metrics/mnd.c.  nd follows the    *)
(* open block elements, inside functions and outside them; three maxima of *)
(* it are kept, of the document, of the unit and of the function.          *)
(***************************************************************************)
EXTENDS Event, FiniteSetsExt

VARIABLES
    mnd_read_state,  \* whether a function is being read
    mnd_overall,     \* deepest nesting of the document
    mnd_unit,        \* deepest nesting of the unit
    mnd_fn,          \* deepest nesting of the function
    nd,              \* the nesting now
    mnd_statistics   \* the rows to report, in order of insertion

mndVars == <<mnd_read_state, mnd_overall, mnd_unit, mnd_fn, nd, mnd_statistics>>

MndInsert(key, val) ==
    mnd_statistics' = Append(mnd_statistics, [key |-> <<"MND">> \o key, value |-> val])

Larger(a, b) == IF a > b THEN a ELSE b

MndTypeOK ==
    /\ mnd_read_state \in {"WAITING_METHOD", "READING_METHOD"}
    /\ {mnd_overall, mnd_unit, mnd_fn, nd} \subseteq Nat

MndInit ==
    /\ mnd_read_state = "WAITING_METHOD"
    /\ mnd_overall = 0
    /\ mnd_unit = 0
    /\ mnd_fn = 0
    /\ nd = 0
    /\ mnd_statistics = <<>>

event_startDocument_mnd ==
    /\ mnd_statistics' = <<>>
    /\ mnd_overall' = 0
    /\ mnd_read_state' = "WAITING_METHOD"
    /\ UNCHANGED <<mnd_unit, mnd_fn, nd>>

event_endDocument_mnd ==
    /\ MndInsert(<<>>, mnd_overall)
    /\ UNCHANGED <<mnd_read_state, mnd_overall, mnd_unit, mnd_fn, nd>>

(* Slip: the unit's depth is not reset. *)
event_startUnit_mnd_noReset ==
    /\ mnd_read_state' = "WAITING_METHOD"
    /\ nd' = 0
    /\ UNCHANGED <<mnd_overall, mnd_unit, mnd_fn, mnd_statistics>>

event_startUnit_mnd ==
    /\ mnd_read_state' = "WAITING_METHOD"
    /\ mnd_unit' = 0
    /\ nd' = 0
    /\ UNCHANGED <<mnd_overall, mnd_fn, mnd_statistics>>

event_endUnit_mnd ==
    /\ MndInsert(<<"_">> \o get_chunk(strings, currentUnit_id), mnd_unit)
    /\ UNCHANGED <<mnd_read_state, mnd_overall, mnd_unit, mnd_fn, nd>>

MndFunction(localname) ==
    /\ localname = "function"
    /\ mnd_read_state' = "READING_METHOD"
    /\ mnd_fn' = nd
    /\ UNCHANGED <<mnd_overall, mnd_unit, nd>>

(* Slip: only blocks of methods are entered, every block is left. *)
MndBlock_inMethods(localname) ==
    /\ localname = "block"
    /\ nd' = IF mnd_read_state = "READING_METHOD" THEN nd + 1 ELSE nd
    /\ mnd_overall' = Larger(nd', mnd_overall)
    /\ mnd_unit' = Larger(nd', mnd_unit)
    /\ mnd_fn' = Larger(nd', mnd_fn)
    /\ UNCHANGED mnd_read_state

MndBlock(localname) ==
    /\ localname = "block"
    /\ nd' = nd + 1
    /\ mnd_overall' = Larger(nd', mnd_overall)
    /\ mnd_unit' = Larger(nd', mnd_unit)
    /\ mnd_fn' = IF mnd_read_state = "READING_METHOD" THEN Larger(nd', mnd_fn) ELSE mnd_fn
    /\ UNCHANGED mnd_read_state

event_startElement_mnd(localname) ==
    /\ \/ MndFunction(localname)
       \/ MndBlock(localname)
       \/ /\ localname \notin {"function", "block"}
          /\ UNCHANGED <<mnd_read_state, mnd_overall, mnd_unit, mnd_fn, nd>>
    /\ UNCHANGED mnd_statistics

MndFunctionEnds(localname) ==
    /\ localname = "function"
    /\ MndInsert(<<"_">> \o get_chunk(strings, currentFn_id), mnd_fn)
    /\ mnd_read_state' = "WAITING_METHOD"
    /\ UNCHANGED nd

(* Slip: only blocks of methods are left. *)
MndBlockEnds_inMethods(localname) ==
    /\ localname = "block"
    /\ nd' = IF mnd_read_state = "READING_METHOD" THEN nd - 1 ELSE nd
    /\ UNCHANGED <<mnd_read_state, mnd_statistics>>

MndBlockEnds(localname) ==
    /\ localname = "block"
    /\ nd' = nd - 1
    /\ UNCHANGED <<mnd_read_state, mnd_statistics>>

event_endElement_mnd(localname) ==
    /\ \/ MndFunctionEnds(localname)
       \/ MndBlockEnds(localname)
       \/ /\ localname \notin {"function", "block"}
          /\ UNCHANGED <<mnd_read_state, nd, mnd_statistics>>
    /\ UNCHANGED <<mnd_overall, mnd_unit, mnd_fn>>

-----------------------------------------------------------------------------
(* MND on its own under the dispatcher.                                    *)

MndSystemInit == Init /\ MndInit

MndNext ==
    \/ event_startDocument /\ event_startDocument_mnd
    \/ event_startRoot /\ UNCHANGED mndVars
    \/ \E filename \in Filenames : event_startUnit(filename) /\ event_startUnit_mnd
    \/ \E localname \in Tags :
          event_startElement(localname) /\ event_startElement_mnd(localname)
    \/ \E localname \in Tags :
          event_endElement(localname) /\ event_endElement_mnd(localname)
    \/ \E ch \in Text : event_charactersUnit(ch) /\ UNCHANGED mndVars
    \/ event_endUnit /\ event_endUnit_mnd
    \/ event_endRoot /\ UNCHANGED mndVars
    \/ event_endDocument /\ event_endDocument_mnd

MndSpec == MndSystemInit /\ [][MndNext]_<<vars, mndVars>>

-----------------------------------------------------------------------------
(* Properties.                                                             *)

(* The depth now is that of the open blocks, also after a unit, a function *)
(* or a type at the top of the unit ended, so nd never wraps below zero;   *)
(* and the maxima have seen it.                                            *)
NestingFollowsBlocks ==
    phase = "unit" =>
        /\ nd = Cardinality(OpenOf("block"))
        /\ nd <= mnd_unit
        /\ "function" \in OpenTags => nd <= mnd_fn

Nesting == INSTANCE NestingDepth WITH
    overall <- mnd_overall,
    unit <- mnd_unit,
    fn <- mnd_fn,
    rows <- [i \in DOMAIN mnd_statistics |-> mnd_statistics[i].value]

(* Counting up and down at block elements reports the depths that the      *)
(* structure of the code defines, of each function, unit and document.     *)
MndImplementsNestingDepth == Nesting!DepthSpec
==============================================================================
