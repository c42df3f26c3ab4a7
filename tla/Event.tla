-------------------------------- MODULE Event --------------------------------
(***************************************************************************)
(* The event dispatcher of src/srcmetrics/event.c.  It follows the stream, *)
(* gives every unit and every function an identifier in the global Chunk   *)
(* `strings`, spells the function's name there piece by piece, and calls   *)
(* the handlers of the enabled metrics with those identifiers.             *)
(*                                                                         *)
(* The handlers of one event run to completion, one after another, before  *)
(* the library delivers the next event, so one event is one step.  What    *)
(* the handlers compute is the matter of the metric modules; what they do  *)
(* to the SHARED state, adding the keys of their report rows to `strings`, *)
(* is part of the step here.                                               *)
(***************************************************************************)
EXTENDS SaxStream, Chunk

CONSTANT Enabled   \* options.enabledMetrics, as a set of abbreviations

(* The metrics that report rows: every one but CC.  An RFU that is hidden   *)
(* ends the program at the first unit, before any row (see Rfu).           *)
ModelledMetrics == {"ABC", "AMS", "HSM", "MC", "MND", "NPM", "RFU", "SLOC"}

ASSUME EnabledAssumption == Enabled \subseteq ModelledMetrics

VARIABLES
    function_read_state,  \* 0 none, 1 function, 2 type, 3 after type, 4 name, 5 named
    currentUnit_id,       \* the unit's string, or NoId
    currentFn_id,         \* the function's string, or NoId
    strings               \* the global Chunk

eventVars == <<function_read_state, currentUnit_id, currentFn_id, strings>>
vars == <<saxVars, eventVars>>

-----------------------------------------------------------------------------
(* Report keys.  Every enabled metric adds one string per row it reports,  *)
(* in the order of METRICS, at the end of each function (five metrics), of *)
(* each unit and of the document.                                          *)

AbcNames == <<"ABC-A", "ABC-B", "ABC-C", "ABC">>
HsmNames == <<"HSM-V", "HSM-D", "HSM-E", "HSM-B", "HSM-T">>

(* The other metrics have one row, of their own name. *)
RowNames == [
    ABC  |-> AbcNames,
    AMS  |-> <<"AMS">>,
    HSM  |-> HsmNames,
    MC   |-> <<"MC">>,
    MND  |-> <<"MND">>,
    NPM  |-> <<"NPM">>,
    RFU  |-> <<"RFU">>,
    SLOC |-> <<"SLOC">> ]

RowsOf(metrics) ==
    LET Rows(m) == IF m \in Enabled \cap metrics THEN RowNames[m] ELSE <<>> IN
    Rows("ABC") \o Rows("AMS") \o Rows("HSM") \o Rows("MC") \o
    Rows("MND") \o Rows("NPM") \o Rows("RFU") \o Rows("SLOC")

FnRows   == RowsOf({"ABC", "HSM", "MND", "RFU", "SLOC"})
UnitRows == RowsOf(ModelledMetrics)

(* add_chunk of each row name, followed by appendIndex_chunk of id: the    *)
(* keys of a unit's rows and of a function's.  Each metric inserts its row *)
(* under the key it has just added; the module of the metric has the row.  *)
WithKeys(chunk, rows, id) ==
    chunk \o [i \in DOMAIN rows |-> <<rows[i], "_">> \o get_chunk(chunk, id)]

(* The pieces that strings are put together from. *)
Piece == Filenames \cup Text \cup {"::", "()", "_"} \cup
         {"ABC-A", "ABC-B", "ABC-C", "ABC", "AMS", "HSM-V", "HSM-D", "HSM-E",
          "HSM-B", "HSM-T", "MC", "MND", "NPM", "RFU", "SLOC"}

-----------------------------------------------------------------------------
TypeOK ==
    /\ SaxTypeOK
    /\ function_read_state \in 0..5
    /\ strings \in Seq(Seq(Piece))
    /\ currentUnit_id \in 0..Len(strings)
    /\ currentFn_id \in 0..Len(strings)

Init ==
    /\ SaxInit
    /\ function_read_state = 0
    /\ currentUnit_id = NoId
    /\ currentFn_id = NoId
    /\ strings = <<>>

event_startDocument ==
    /\ SaxStartDocument
    /\ currentUnit_id' = NoId
    /\ currentFn_id' = NoId
    /\ UNCHANGED <<function_read_state, strings>>

event_startRoot ==
    /\ SaxStartRoot
    /\ UNCHANGED eventVars

event_startUnit(filename) ==
    /\ SaxStartUnit
    /\ strings' = add_chunk(strings, <<filename>>)
    /\ currentUnit_id' = Len(strings) + 1
    /\ UNCHANGED <<function_read_state, currentFn_id>>

(* Slip: the identifier is taken after the string was added. *)
FunctionStarts_idAfterAdd(localname) ==
    /\ localname = "function"
    /\ function_read_state' = 1
    /\ strings' = append_chunk(addIndex_chunk(strings, currentUnit_id), <<"::">>)
    /\ currentFn_id' = Len(strings') + 1

(* Slip: the identifier is that of the string before. *)
FunctionStarts_idBefore(localname) ==
    /\ localname = "function"
    /\ function_read_state' = 1
    /\ strings' = append_chunk(addIndex_chunk(strings, currentUnit_id), <<"::">>)
    /\ currentFn_id' = Len(strings)

FunctionStarts(localname) ==
    /\ localname = "function"
    /\ function_read_state' = 1
    /\ strings' = append_chunk(addIndex_chunk(strings, currentUnit_id), <<"::">>)
    /\ currentFn_id' = Len(strings) + 1

TypeStarts(localname) ==
    /\ localname = "type"
    /\ function_read_state = 1
    /\ function_read_state' = 2
    /\ UNCHANGED <<currentFn_id, strings>>

NameStarts(localname) ==
    /\ localname = "name"
    /\ function_read_state = 3
    /\ function_read_state' = 4
    /\ UNCHANGED <<currentFn_id, strings>>

OtherStarts(localname) ==
    /\ localname # "function"
    /\ ~(localname = "type" /\ function_read_state = 1)
    /\ ~(localname = "name" /\ function_read_state = 3)
    /\ UNCHANGED <<function_read_state, currentFn_id, strings>>

event_startElement(localname) ==
    /\ SaxStartElement(localname)
    /\ \/ FunctionStarts(localname)
       \/ TypeStarts(localname)
       \/ NameStarts(localname)
       \/ OtherStarts(localname)
    /\ UNCHANGED currentUnit_id

(* Slip: the machine is not reset at the end of a function. *)
FunctionEnds_noReset(localname) ==
    /\ localname = "function"
    /\ strings' = WithKeys(strings, FnRows, currentFn_id)
    /\ currentFn_id' = NoId
    /\ UNCHANGED function_read_state

(* The handlers still see currentFn_id; it is forgotten after they ran. *)
FunctionEnds(localname) ==
    /\ localname = "function"
    /\ function_read_state' = 0
    /\ strings' = WithKeys(strings, FnRows, currentFn_id)
    /\ currentFn_id' = NoId

TypeEnds(localname) ==
    /\ localname = "type"
    /\ function_read_state = 2
    /\ function_read_state' = 3
    /\ UNCHANGED <<currentFn_id, strings>>

(* Slip: the next name is read as the function's too. *)
NameEnds_again(localname) ==
    /\ localname = "name"
    /\ function_read_state = 4
    /\ strings' = append_chunk(strings, <<"()">>)
    /\ function_read_state' = 3
    /\ UNCHANGED currentFn_id

(* Slip: the name is left open. *)
NameEnds_noParentheses(localname) ==
    /\ localname = "name"
    /\ function_read_state = 4
    /\ function_read_state' = 5
    /\ UNCHANGED <<currentFn_id, strings>>

NameEnds(localname) ==
    /\ localname = "name"
    /\ function_read_state = 4
    /\ strings' = append_chunk(strings, <<"()">>)
    /\ function_read_state' = 5
    /\ UNCHANGED currentFn_id

OtherEnds(localname) ==
    /\ localname # "function"
    /\ ~(localname = "type" /\ function_read_state = 2)
    /\ ~(localname = "name" /\ function_read_state = 4)
    /\ UNCHANGED <<function_read_state, currentFn_id, strings>>

event_endElement(localname) ==
    /\ SaxEndElement(localname)
    /\ \/ FunctionEnds(localname)
       \/ TypeEnds(localname)
       \/ NameEnds(localname)
       \/ OtherEnds(localname)
    /\ UNCHANGED currentUnit_id

(* Slip: characters are also gathered after the name. *)
event_charactersUnit_late(ch) ==
    /\ SaxCharacters(ch)
    /\ strings' = IF function_read_state >= 4 THEN append_chunk(strings, <<ch>>)
                  ELSE strings
    /\ UNCHANGED <<function_read_state, currentUnit_id, currentFn_id>>

event_charactersUnit(ch) ==
    /\ SaxCharacters(ch)
    /\ strings' = IF function_read_state = 4 THEN append_chunk(strings, <<ch>>)
                  ELSE strings
    /\ UNCHANGED <<function_read_state, currentUnit_id, currentFn_id>>

event_endUnit ==
    /\ SaxEndUnit
    /\ strings' = WithKeys(strings, UnitRows, currentUnit_id)
    /\ currentUnit_id' = NoId
    /\ UNCHANGED <<function_read_state, currentFn_id>>

event_endRoot ==
    /\ SaxEndRoot
    /\ UNCHANGED eventVars

event_endDocument ==
    /\ SaxEndDocument
    /\ strings' = strings \o [i \in DOMAIN UnitRows |-> <<UnitRows[i]>>]
    /\ UNCHANGED <<function_read_state, currentUnit_id, currentFn_id>>

Next ==
    \/ event_startDocument
    \/ event_startRoot
    \/ \E filename \in Filenames : event_startUnit(filename)
    \/ \E localname \in Tags : event_startElement(localname)
    \/ \E localname \in Tags : event_endElement(localname)
    \/ \E ch \in Text : event_charactersUnit(ch)
    \/ event_endUnit
    \/ event_endRoot
    \/ event_endDocument

Spec == Init /\ [][Next]_vars

-----------------------------------------------------------------------------
(* What the dispatcher promises the metrics.                               *)

(* event.c:149 asserts that no function is being read when a unit starts;  *)
(* the machine relies on every function element ending inside its unit.    *)
StartUnitAssert == phase = "root" => function_read_state = 0

(* append_chunk extends the LAST string of the Chunk.  While a function's  *)
(* name is being put together the last string must be the one currentFn_id *)
(* names, whatever the metrics have added to the Chunk before.             *)
AppendsReachFn ==
    function_read_state \in 1..4 =>
        currentFn_id # NoId /\ currentFn_id = Len(strings)

(* From the end of its name element to its own end, a function's string is *)
(* unit::name(), with the name the function itself declares, not the name  *)
(* of its type, of a parameter or of a local declaration.                  *)
FnNamedAsDeclared ==
    \A i \in DOMAIN open :
        open[i].tag = "function" /\ open[i].name # <<>> =>
            get_chunk(strings, currentFn_id) =
                get_chunk(strings, currentUnit_id) \o <<"::">> \o open[i].name \o <<"()">>

(* Every row key a metric has added is its prefix followed by a string     *)
(* that was in the Chunk before it: a unit's, or a finished function's.    *)
(* A string that still grew after its key was made would break this.       *)
KeysSpellSubjects ==
    \A i \in DOMAIN strings :
        Len(strings[i]) > 1 /\ strings[i][2] = "_" =>
            \E j \in 1..i - 1 :
                /\ strings[i] = <<strings[i][1], "_">> \o strings[j]
                /\ strings[j][Len(strings[j])] = "()" \/ Len(strings[j]) = 1

(* Identifiers given to the metrics stay good: a step changes no string    *)
(* that exists, except the name of the function being read, while it is    *)
(* inside its name element.                                                *)
OnlyFnNameGrows ==
    [][\A i \in DOMAIN strings :
          strings'[i] # strings[i] => i = currentFn_id /\ function_read_state = 4]_vars
==============================================================================
