--------------------------------- MODULE Rfu ---------------------------------
(***************************************************************************)
(* Response for Unit and the call graph, src/srcmetrics/metrics/rfu.c.  A  *)
(* reader of its own, beside the dispatcher's, finds the names of          *)
(* functions and of what they call.  Functions are keys of one ChunkSet by *)
(* their names; two GraphMatrices say which unit owns which function and   *)
(* which function calls which.  A ChunkSet is the sequence of its keys, a  *)
(* GraphMatrix the set of its edges.                                       *)
(*                                                                         *)
(* The matrices and sets are constructed only while RFU is shown.  On one  *)
(* that is not, and for an invalid identifier, padkit's operations fail,   *)
(* and the checks around them end the program.                             *)
(***************************************************************************)
EXTENDS Event, SequencesExt

CONSTANT FlagSets   \* what the command line may have set of options.flags

ASSUME RfuAssumption == FlagSets \subseteq SUBSET {"RFU_SHOW", "RFU_SIMPLE", "CG_ENABLE", "CG_NO_EXTERNAL"}

VARIABLES
    flags,            \* options.flags, as main has left it
    rfu_read_state,   \* what the reader waits for or reads
    rfu_units,        \* names of the units
    fns,              \* names of the functions, defined or called
    ownerGraph,       \* function and unit
    callGraph,        \* caller and callee
    unit_id,          \* the unit, or NoId
    fn_id,            \* the function being read, or NoId
    name_chunk,       \* the name so far
    rfu_statistics,   \* the rows to report, in order of insertion
    cg_edges,         \* the edges written to the files of the call graph
    rfu_terminated    \* a check has ended the program

rfuVars == <<flags, rfu_read_state, rfu_units, fns, ownerGraph, callGraph, unit_id, fn_id,
             name_chunk, rfu_statistics, cg_edges, rfu_terminated>>

RfuQuiet     == "RFU_SHOW" \notin flags
RfuSimple    == "RFU_SIMPLE" \in flags
CGEnabled    == "CG_ENABLE" \in flags
CGNoExternal == "CG_NO_EXTERNAL" \in flags

RfuReadStates == {"WAITING_METHOD", "READING_METHOD", "WAITING_METHOD_NAME",
                  "WAITING_CALL_NAME", "READING_METHOD_NAME", "READING_CALL_NAME",
                  "READING_METHOD_TYPE"}

(* addKey_cset and getKeyId_cset.                                          *)
WithKey(cset, key) == IF Contains(cset, key) THEN cset ELSE Append(cset, key)
KeyId(cset, key)   == CHOOSE i \in DOMAIN cset : cset[i] = key

Sinks(graph, source) == {e[2] : e \in {d \in graph : d[1] = source}}
Sources(graph, sink) == {e[1] : e \in {d \in graph : d[2] = sink}}

DirectCalls(ids) == ids \cup UNION {Sinks(callGraph, id) : id \in ids}

(* unique_calls.  The code goes along a set that grows while it adds the   *)
(* callees of each member, to its end; here each pass adds those of all    *)
(* members.  No chain of calls has more links than there are functions, so *)
(* after as many passes both have the same set, and its size is the row.   *)
UniqueCalls(ids) ==
    LET grown[n \in 0..Len(fns)] ==
            IF n = 0 THEN DirectCalls(ids) ELSE DirectCalls(grown[n - 1]) IN
    IF RfuSimple THEN grown[0] ELSE grown[Len(fns)]

RfuInsert(key, val) ==
    rfu_statistics' = Append(rfu_statistics, [key |-> <<"RFU">> \o key, value |-> val])

RfuInit ==
    /\ flags \in FlagSets
    /\ rfu_read_state = "WAITING_METHOD"
    /\ rfu_units = <<>>
    /\ fns = <<>>
    /\ ownerGraph = {}
    /\ callGraph = {}
    /\ unit_id = NoId
    /\ fn_id = NoId
    /\ name_chunk = <<>>
    /\ rfu_statistics = <<>>
    /\ cg_edges = {}
    /\ rfu_terminated = FALSE

event_startDocument_rfu ==
    /\ IF RfuQuiet
       THEN UNCHANGED <<rfu_statistics, callGraph, ownerGraph, rfu_units, fns, name_chunk>>
       ELSE /\ rfu_statistics' = <<>>
            /\ callGraph' = {}
            /\ ownerGraph' = {}
            /\ rfu_units' = <<>>
            /\ fns' = <<>>
            /\ name_chunk' = <<>>
    /\ unit_id' = NoId
    /\ UNCHANGED <<flags, rfu_read_state, fn_id, cg_edges, rfu_terminated>>

-----------------------------------------------------------------------------
(* The files of the call graph.  The same loops write the .dot file and    *)
(* the .xml file; at least one of the two is enabled with the graph.  The  *)
(* names of the files are added to `strings` then, where nothing looks at  *)
(* them any more, and are left out.                                        *)

(* Slip: the callee is drawn in the caller's unit. *)
EdgesFrom_callersUnit(u, f) ==
    IF <<f, f>> \in callGraph THEN {<<u, f, u, f>>}
    ELSE {<<u, f, v, g>> : v \in {u}, g \in Sinks(callGraph, f)}

(* Slip: only callees of the caller's unit are drawn. *)
EdgesFrom_sameUnit(u, f) ==
    IF <<f, f>> \in callGraph THEN {<<u, f, u, f>>}
    ELSE {<<u, f, u, g>> : g \in {h \in Sinks(callGraph, f) : <<h, u>> \in ownerGraph}}

(* Edges from function f of unit u.  A callee that no unit owns is drawn   *)
(* outside all units (NoId), if such callees are drawn.  A function that   *)
(* calls itself gets that edge and no other.                               *)
EdgesFrom(u, f) ==
    IF <<f, f>> \in callGraph THEN {<<u, f, u, f>>}
    ELSE UNION {LET owners == Sinks(ownerGraph, g) IN
                IF owners = {} /\ ~CGNoExternal THEN {<<u, f, NoId, g>>}
                ELSE {<<u, f, v, g>> : v \in owners} : g \in Sinks(callGraph, f)}

generateDot == UNION {EdgesFrom(o[2], o[1]) : o \in ownerGraph}

event_endDocument_rfu ==
    /\ IF CGEnabled
       THEN cg_edges' = generateDot /\ unit_id' = NoId /\ fn_id' = NoId
       ELSE UNCHANGED <<cg_edges, unit_id, fn_id>>
    /\ IF RfuQuiet THEN UNCHANGED rfu_statistics ELSE RfuInsert(<<>>, Len(fns))
    /\ UNCHANGED <<flags, rfu_read_state, rfu_units, fns, ownerGraph, callGraph, name_chunk,
                   rfu_terminated>>

-----------------------------------------------------------------------------
event_startUnit_rfu(filename) ==
    /\ IF RfuQuiet
       THEN rfu_terminated' = TRUE /\ UNCHANGED <<rfu_units, unit_id>>
       ELSE /\ rfu_units' = WithKey(rfu_units, <<filename>>)
            /\ unit_id' = KeyId(rfu_units', <<filename>>)
            /\ UNCHANGED rfu_terminated
    /\ UNCHANGED <<flags, rfu_read_state, fns, ownerGraph, callGraph, fn_id, name_chunk,
                   rfu_statistics, cg_edges>>

(* fn_id is the variable of the loop over the unit's functions. *)
event_endUnit_rfu ==
    /\ IF RfuQuiet THEN UNCHANGED <<fn_id, rfu_statistics>>
       ELSE /\ RfuInsert(<<"_">> \o rfu_units[unit_id],
                         Cardinality(UniqueCalls(Sources(ownerGraph, unit_id))))
            /\ fn_id' = NoId
    /\ UNCHANGED <<flags, rfu_read_state, rfu_units, fns, ownerGraph, callGraph, unit_id,
                   name_chunk, cg_edges, rfu_terminated>>

(* Slip: a call is awaited, whatever the reader was doing. *)
RfuStarts_anyCall(localname) ==
    \/ rfu_read_state = "WAITING_METHOD" /\ localname = "function"
       /\ rfu_read_state' = "READING_METHOD"
    \/ localname = "call" /\ rfu_read_state' = "WAITING_METHOD_NAME"
    \/ rfu_read_state = "READING_METHOD" /\ localname = "type"
       /\ rfu_read_state' = "READING_METHOD_TYPE"
    \/ rfu_read_state = "WAITING_METHOD_NAME" /\ localname = "name"
       /\ rfu_read_state' = "READING_METHOD_NAME"
    \/ rfu_read_state = "WAITING_CALL_NAME" /\ localname = "name"
       /\ rfu_read_state' = "READING_CALL_NAME"

(* The transitions at the start of an element. *)
RfuStarts(localname) ==
    \/ rfu_read_state = "WAITING_METHOD" /\ localname = "function"
       /\ rfu_read_state' = "READING_METHOD"
    \/ rfu_read_state = "WAITING_METHOD" /\ localname = "call"
       /\ rfu_read_state' = "WAITING_CALL_NAME"
    \/ rfu_read_state = "READING_METHOD" /\ localname = "type"
       /\ rfu_read_state' = "READING_METHOD_TYPE"
    \/ rfu_read_state = "WAITING_METHOD_NAME" /\ localname = "name"
       /\ rfu_read_state' = "READING_METHOD_NAME"
    \/ rfu_read_state = "WAITING_CALL_NAME" /\ localname = "name"
       /\ rfu_read_state' = "READING_CALL_NAME"

RfuStartIgnored(localname) ==
    /\ \/ localname \notin {"function", "call", "type", "name"}
       \/ localname \in {"function", "call"} /\ rfu_read_state # "WAITING_METHOD"
       \/ localname = "type" /\ rfu_read_state # "READING_METHOD"
       \/ localname = "name"
          /\ rfu_read_state \notin {"WAITING_METHOD_NAME", "WAITING_CALL_NAME"}
    /\ UNCHANGED rfu_read_state

event_startElement_rfu(localname) ==
    /\ RfuStarts(localname) \/ RfuStartIgnored(localname)
    /\ UNCHANGED <<flags, rfu_units, fns, ownerGraph, callGraph, unit_id, fn_id, name_chunk,
                   rfu_statistics, cg_edges, rfu_terminated>>

(* A function without a name ends the program. *)
RfuMethodEnds(localname) ==
    /\ localname = "function"
    /\ IF RfuQuiet THEN UNCHANGED <<rfu_statistics, rfu_terminated>>
       ELSE IF fn_id = NoId THEN rfu_terminated' = TRUE /\ UNCHANGED rfu_statistics
       ELSE /\ RfuInsert(<<"_">> \o rfu_units[unit_id] \o <<"::">> \o fns[fn_id] \o <<"()">>,
                         Cardinality(UniqueCalls({fn_id})))
            /\ UNCHANGED rfu_terminated
    /\ fn_id' = NoId
    /\ UNCHANGED <<rfu_read_state, fns, ownerGraph, callGraph, name_chunk>>

RfuMethodTypeEnds(localname) ==
    /\ localname = "type"
    /\ rfu_read_state = "READING_METHOD_TYPE"
    /\ rfu_read_state' = "WAITING_METHOD_NAME"
    /\ UNCHANGED <<fns, ownerGraph, callGraph, fn_id, name_chunk, rfu_statistics,
                   rfu_terminated>>

RfuMethodNameEnds(localname) ==
    /\ localname = "name"
    /\ rfu_read_state = "READING_METHOD_NAME"
    /\ fns' = WithKey(fns, name_chunk)
    /\ fn_id' = KeyId(fns', name_chunk)
    /\ ownerGraph' = ownerGraph \cup {<<fn_id', unit_id>>}
    /\ rfu_read_state' = "WAITING_METHOD"
    /\ name_chunk' = <<>>
    /\ UNCHANGED <<callGraph, rfu_statistics, rfu_terminated>>

(* Slip: the name of the callee is kept for the next one. *)
RfuCallNameEnds_noFlush(localname) ==
    /\ localname = "name"
    /\ rfu_read_state = "READING_CALL_NAME"
    /\ fns' = WithKey(fns, name_chunk)
    /\ callGraph' = callGraph \cup {<<fn_id, KeyId(fns', name_chunk)>>}
    /\ rfu_read_state' = "WAITING_METHOD"
    /\ UNCHANGED <<ownerGraph, fn_id, name_chunk, rfu_statistics, rfu_terminated>>

(* A call outside functions has no caller to connect. *)
RfuCallNameEnds(localname) ==
    /\ localname = "name"
    /\ rfu_read_state = "READING_CALL_NAME"
    /\ fns' = WithKey(fns, name_chunk)
    /\ IF fn_id = NoId THEN rfu_terminated' = TRUE /\ UNCHANGED callGraph
       ELSE /\ callGraph' = callGraph \cup {<<fn_id, KeyId(fns', name_chunk)>>}
            /\ UNCHANGED rfu_terminated
    /\ rfu_read_state' = "WAITING_METHOD"
    /\ name_chunk' = <<>>
    /\ UNCHANGED <<ownerGraph, fn_id, rfu_statistics>>

RfuEndIgnored(localname) ==
    /\ localname # "function"
    /\ ~(localname = "type" /\ rfu_read_state = "READING_METHOD_TYPE")
    /\ ~(localname = "name" /\ rfu_read_state \in {"READING_METHOD_NAME", "READING_CALL_NAME"})
    /\ UNCHANGED <<rfu_read_state, fns, ownerGraph, callGraph, fn_id, name_chunk,
                   rfu_statistics, rfu_terminated>>

event_endElement_rfu(localname) ==
    /\ \/ RfuMethodEnds(localname)
       \/ RfuMethodTypeEnds(localname)
       \/ RfuMethodNameEnds(localname)
       \/ RfuCallNameEnds(localname)
       \/ RfuEndIgnored(localname)
    /\ UNCHANGED <<flags, rfu_units, unit_id, cg_edges>>

event_charactersUnit_rfu(ch) ==
    /\ name_chunk' = IF rfu_read_state \in {"READING_METHOD_NAME", "READING_CALL_NAME"}
                     THEN Append(name_chunk, ch) ELSE name_chunk
    /\ UNCHANGED <<flags, rfu_read_state, rfu_units, fns, ownerGraph, callGraph, unit_id, fn_id,
                   rfu_statistics, cg_edges, rfu_terminated>>

-----------------------------------------------------------------------------
(* RFU on its own under the dispatcher.                                    *)

RfuSystemInit == Init /\ RfuInit

RfuNext ==
    /\ ~rfu_terminated
    /\ \/ event_startDocument /\ event_startDocument_rfu
       \/ event_startRoot /\ UNCHANGED rfuVars
       \/ \E filename \in Filenames : event_startUnit(filename) /\ event_startUnit_rfu(filename)
       \/ \E localname \in Tags :
             event_startElement(localname) /\ event_startElement_rfu(localname)
       \/ \E localname \in Tags :
             event_endElement(localname) /\ event_endElement_rfu(localname)
       \/ \E ch \in Text : event_charactersUnit(ch) /\ event_charactersUnit_rfu(ch)
       \/ event_endUnit /\ event_endUnit_rfu
       \/ event_endRoot /\ UNCHANGED rfuVars
       \/ event_endDocument /\ event_endDocument_rfu

RfuSpec == RfuSystemInit /\ [][RfuNext]_<<vars, rfuVars>>

-----------------------------------------------------------------------------
(* Properties.                                                             *)

(* Two readers of the same names agree: the string of the function in the  *)
(* dispatcher's Chunk is that of the unit and the function that RFU knows, *)
(* so RFU's rows have the keys that the rows of other metrics have.        *)
ReadersAgree ==
    "function" \in OpenTags /\ function_read_state = 5 =>
        /\ fn_id # NoId
        /\ strings[currentFn_id] = rfu_units[unit_id] \o <<"::">> \o fns[fn_id] \o <<"()">>

(* "srcmetrics --cg examples/cg examples/*.c" (README): the call graph can *)
(* be had, though --cg hides RFU.                                          *)
CallGraphGenerated == CGEnabled => ~rfu_terminated

Graph == INSTANCE CallGraph WITH
    simple <- RfuSimple,
    file <- IF phase = "unit" /\ ~rfu_terminated THEN rfu_units[unit_id] ELSE <<>>,
    definitions <- {<<rfu_units[o[2]], fns[o[1]]>> : o \in ownerGraph},
    calls <- {<<fns[e[1]], fns[e[2]]>> : e \in callGraph},
    responses <- [i \in DOMAIN rfu_statistics |-> rfu_statistics[i].value]

(* The matrices hold the definitions and calls of the source files, and    *)
(* the rows count what is reachable in them when they are reported.        *)
RfuImplementsCallGraph == Graph!GraphSpec

(* The file of the graph has no edge that is not a call, and between       *)
(* units only those between their own functions.                           *)
EdgesAreCalls ==
    \A e \in cg_edges :
        /\ <<e[2], e[4]>> \in callGraph
        /\ <<e[2], e[1]>> \in ownerGraph
        /\ e[3] = NoId <=> Sinks(ownerGraph, e[4]) = {}
        /\ e[3] # NoId => <<e[4], e[3]>> \in ownerGraph

(* Every call between functions of the given files is an edge of the file, *)
(* if the caller does not call itself; CallGraphComplete asks for those of *)
(* the callers that do.                                                    *)
CallsAreEdges ==
    phase = "end" /\ CGEnabled =>
        \A c \in callGraph : \A u \in Sinks(ownerGraph, c[1]), v \in Sinks(ownerGraph, c[2]) :
            <<c[1], c[1]>> \in callGraph \/ <<u, c[1], v, c[2]>> \in cg_edges

(* "Computes one overall call graph" (help, --cg): every call between      *)
(* functions of the given files is an edge of the file.                    *)
CallGraphComplete ==
    phase = "end" /\ CGEnabled =>
        \A c \in callGraph : \A u \in Sinks(ownerGraph, c[1]), v \in Sinks(ownerGraph, c[2]) :
            <<u, c[1], v, c[2]>> \in cg_edges
==============================================================================
