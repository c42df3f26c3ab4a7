----------------------------- MODULE SizeMetrics -----------------------------
(***************************************************************************)
(* The dispatcher with three metrics that measure the same functions: AMS, *)
(* MC and SLOC.  They share the stream, the identifiers and nothing else,  *)
(* so what they report about one unit must fit together.                   *)
(***************************************************************************)
EXTENDS Sloc, Ams, Mc

sizeVars == <<vars, slocVars, amsVars, mcVars>>

SizeInit == Init /\ SlocInit /\ AmsInit /\ McInit

SizeNext ==
    \/ /\ event_startDocument
       /\ event_startDocument_ams /\ event_startDocument_mc /\ event_startDocument_sloc
    \/ event_startRoot /\ UNCHANGED <<slocVars, amsVars, mcVars>>
    \/ \E filename \in Filenames :
          /\ event_startUnit(filename)
          /\ event_startUnit_ams /\ event_startUnit_mc /\ event_startUnit_sloc
    \/ \E localname \in Tags :
          /\ event_startElement(localname)
          /\ event_startElement_ams(localname)
          /\ event_startElement_mc(localname)
          /\ event_startElement_sloc(localname)
    \/ \E localname \in Tags :
          /\ event_endElement(localname)
          /\ event_endElement_ams(localname)
          /\ event_endElement_sloc(localname)
          /\ UNCHANGED mcVars
    \/ \E ch \in Text :
          event_charactersUnit(ch) /\ UNCHANGED <<slocVars, amsVars, mcVars>>
    \/ /\ event_endUnit
       /\ event_endUnit_ams /\ event_endUnit_mc /\ event_endUnit_sloc
    \/ event_endRoot /\ UNCHANGED <<slocVars, amsVars, mcVars>>
    \/ /\ event_endDocument
       /\ event_endDocument_ams /\ event_endDocument_mc /\ event_endDocument_sloc

SizeSpec == SizeInit /\ [][SizeNext]_sizeVars

-----------------------------------------------------------------------------
(* Functions that were measured: how many, and their lines together.       *)
NoFunctions == [sum |-> 0, count |-> 0]

WithFunction(tally, row) == [sum |-> tally.sum + row.value, count |-> tally.count + 1]

(* What the rows of SLOC say of the functions of the unit and of the       *)
(* document, and the averages that follow from it.                         *)
NothingRead == [unit |-> NoFunctions, document |-> NoFunctions, averages |-> <<>>]

(* One more row: SLOC_<unit> has a key of three pieces and closes a unit,  *)
(* the document's has one, a function's more.                              *)
ReadRow(before, row) ==
    IF Len(row.key) > 3
    THEN [unit     |-> WithFunction(before.unit, row),
          document |-> WithFunction(before.document, row),
          averages |-> before.averages]
    ELSE IF Len(row.key) = 3
    THEN [unit     |-> NoFunctions,
          document |-> before.document,
          averages |-> Append(before.averages, before.unit)]
    ELSE [unit     |-> before.unit,
          document |-> before.document,
          averages |-> Append(before.averages, before.document)]

RowsRead(rows) ==
    LET read[i \in 0..Len(rows)] ==
            IF i = 0 THEN NothingRead ELSE ReadRow(read[i - 1], rows[i])
    IN  read[Len(rows)]

Values(rows) == [i \in DOMAIN rows |-> rows[i].value]

(* Two readers of the same function agree on its size at every moment:     *)
(* ams.c and sloc.c keep separate state machines and separate tag lists.   *)
AmsAgreesWithSloc == "function" \in OpenTags => method_size = sloc_fn

(* The average that AMS reports for a unit is over exactly the functions   *)
(* whose lines SLOC reported for that unit, as many as MC counted, and the *)
(* document's average is over all of them.                                 *)
AmsAveragesSloc ==
    LET averages == RowsRead(sloc_statistics).averages IN
    /\ Values(ams_statistics) = averages
    /\ Values(mc_statistics) = [i \in DOMAIN averages |-> averages[i].count]
==============================================================================
