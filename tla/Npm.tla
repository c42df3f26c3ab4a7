--------------------------------- MODULE Npm ---------------------------------
(***************************************************************************)
(* Number of Public Methods, src/srcmetrics/metrics/npm.c.  A function is  *)
(* counted at its start and discounted when a specifier of its type turns  *)
(* out to be static; the specifier's text is gathered in specifier_chunk.  *)
(*                                                                         *)
(* A specifier that is not static leaves the reader in READING_SPECIFIER.  *)
(* Only a static specifier and the next unit lead out of that state.       *)
(***************************************************************************)
EXTENDS Event, Integers

CONSTANT StaticSpelling   \* the pieces of character data that spell static

ASSUME StaticAssumption == StaticSpelling \in Seq(Text)

VARIABLES
    npm_read_state,   \* where the reader is
    npm_overall,      \* public functions of the document
    npm_unit,         \* public functions of the unit
    specifier_chunk,  \* the last string of specifier_chunk
    npm_statistics    \* the rows to report, in order of insertion

npmVars == <<npm_read_state, npm_overall, npm_unit, specifier_chunk, npm_statistics>>

NpmInsert(key, val) ==
    npm_statistics' = Append(npm_statistics, [key |-> <<"NPM">> \o key, value |-> val])

(* The counters are unsigned: being in Nat says that they never wrap.      *)
NpmTypeOK ==
    /\ npm_read_state \in {"WAITING_METHOD", "READING_METHOD", "READING_TYPE",
                           "READING_SPECIFIER"}
    /\ {npm_overall, npm_unit} \subseteq Nat
    /\ \A i \in DOMAIN specifier_chunk : specifier_chunk[i] \in Text

NpmInit ==
    /\ npm_read_state = "WAITING_METHOD"
    /\ npm_overall = 0
    /\ npm_unit = 0
    /\ specifier_chunk = <<>>
    /\ npm_statistics = <<>>

event_startDocument_npm ==
    /\ npm_statistics' = <<>>
    /\ specifier_chunk' = <<>>
    /\ npm_overall' = 0
    /\ npm_read_state' = "WAITING_METHOD"
    /\ UNCHANGED npm_unit

event_endDocument_npm ==
    /\ NpmInsert(<<>>, npm_overall)
    /\ UNCHANGED <<npm_read_state, npm_overall, npm_unit, specifier_chunk>>

(* Slip: the reader stays where the last unit left it. *)
event_startUnit_npm_noReset ==
    /\ npm_unit' = 0
    /\ UNCHANGED <<npm_read_state, npm_overall, specifier_chunk, npm_statistics>>

event_startUnit_npm ==
    /\ npm_read_state' = "WAITING_METHOD"
    /\ npm_unit' = 0
    /\ UNCHANGED <<npm_overall, specifier_chunk, npm_statistics>>

event_endUnit_npm ==
    /\ NpmInsert(<<"_">> \o get_chunk(strings, currentUnit_id), npm_unit)
    /\ UNCHANGED <<npm_read_state, npm_overall, npm_unit, specifier_chunk>>

NpmFunction(localname) ==
    /\ npm_read_state = "WAITING_METHOD"
    /\ localname = "function"
    /\ npm_read_state' = "READING_METHOD"
    /\ npm_overall' = npm_overall + 1
    /\ npm_unit' = npm_unit + 1

(* From the function into its type, and from the type into a specifier. *)
NpmDescends(localname) ==
    /\ \/ /\ npm_read_state = "READING_METHOD"
          /\ localname = "type"
          /\ npm_read_state' = "READING_TYPE"
       \/ /\ npm_read_state = "READING_TYPE"
          /\ localname = "specifier"
          /\ npm_read_state' = "READING_SPECIFIER"
    /\ UNCHANGED <<npm_overall, npm_unit>>

NpmSkipsStart(localname) ==
    /\ ~(npm_read_state = "WAITING_METHOD" /\ localname = "function")
    /\ ~(npm_read_state = "READING_METHOD" /\ localname = "type")
    /\ ~(npm_read_state = "READING_TYPE" /\ localname = "specifier")
    /\ UNCHANGED <<npm_read_state, npm_overall, npm_unit>>

event_startElement_npm(localname) ==
    /\ \/ NpmFunction(localname)
       \/ NpmDescends(localname)
       \/ NpmSkipsStart(localname)
    /\ UNCHANGED <<specifier_chunk, npm_statistics>>

(* Slip: the specifier's text is kept for the next one. *)
NpmStaticEnds_noFlush(localname) ==
    /\ npm_read_state = "READING_SPECIFIER"
    /\ localname = "specifier"
    /\ specifier_chunk = StaticSpelling
    /\ npm_read_state' = "WAITING_METHOD"
    /\ npm_overall' = npm_overall - 1
    /\ npm_unit' = npm_unit - 1
    /\ UNCHANGED specifier_chunk

(* flush_chunk runs whichever specifier it was. *)
NpmStaticEnds(localname) ==
    /\ npm_read_state = "READING_SPECIFIER"
    /\ localname = "specifier"
    /\ specifier_chunk = StaticSpelling
    /\ npm_read_state' = "WAITING_METHOD"
    /\ npm_overall' = npm_overall - 1
    /\ npm_unit' = npm_unit - 1
    /\ specifier_chunk' = <<>>

(* Slip: every specifier makes the function private. *)
NpmOtherSpecifierEnds_discounts(localname) ==
    /\ npm_read_state = "READING_SPECIFIER"
    /\ localname = "specifier"
    /\ specifier_chunk # StaticSpelling
    /\ specifier_chunk' = <<>>
    /\ npm_overall' = npm_overall - 1
    /\ npm_unit' = npm_unit - 1
    /\ UNCHANGED npm_read_state

NpmOtherSpecifierEnds(localname) ==
    /\ npm_read_state = "READING_SPECIFIER"
    /\ localname = "specifier"
    /\ specifier_chunk # StaticSpelling
    /\ specifier_chunk' = <<>>
    /\ UNCHANGED <<npm_read_state, npm_overall, npm_unit>>

NpmWaits(localname) ==
    /\ \/ npm_read_state = "READING_TYPE" /\ localname = "type"
       \/ npm_read_state \in {"WAITING_METHOD", "READING_METHOD"} /\ localname = "function"
    /\ npm_read_state' = "WAITING_METHOD"
    /\ UNCHANGED <<npm_overall, npm_unit, specifier_chunk>>

NpmSkipsEnd(localname) ==
    /\ ~(npm_read_state = "READING_SPECIFIER" /\ localname = "specifier")
    /\ ~(npm_read_state = "READING_TYPE" /\ localname = "type")
    /\ ~(npm_read_state \in {"WAITING_METHOD", "READING_METHOD"} /\ localname = "function")
    /\ UNCHANGED <<npm_read_state, npm_overall, npm_unit, specifier_chunk>>

event_endElement_npm(localname) ==
    /\ \/ NpmStaticEnds(localname)
       \/ NpmOtherSpecifierEnds(localname)
       \/ NpmWaits(localname)
       \/ NpmSkipsEnd(localname)
    /\ UNCHANGED npm_statistics

event_charactersUnit_npm(ch) ==
    /\ specifier_chunk' = IF npm_read_state = "READING_SPECIFIER"
                          THEN Append(specifier_chunk, ch) ELSE specifier_chunk
    /\ UNCHANGED <<npm_read_state, npm_overall, npm_unit, npm_statistics>>

-----------------------------------------------------------------------------
(* NPM on its own under the dispatcher.                                    *)

NpmSystemInit == Init /\ NpmInit

NpmNext ==
    \/ event_startDocument /\ event_startDocument_npm
    \/ event_startRoot /\ UNCHANGED npmVars
    \/ \E filename \in Filenames : event_startUnit(filename) /\ event_startUnit_npm
    \/ \E localname \in Tags :
          event_startElement(localname) /\ event_startElement_npm(localname)
    \/ \E localname \in Tags :
          event_endElement(localname) /\ event_endElement_npm(localname)
    \/ \E ch \in Text : event_charactersUnit(ch) /\ event_charactersUnit_npm(ch)
    \/ event_endUnit /\ event_endUnit_npm
    \/ event_endRoot /\ UNCHANGED npmVars
    \/ event_endDocument /\ event_endDocument_npm

NpmSpec == NpmSystemInit /\ [][NpmNext]_<<vars, npmVars>>

-----------------------------------------------------------------------------
(* Properties.                                                             *)

Public == INSTANCE PublicCount WITH
    overall <- npm_overall,
    unit <- npm_unit,
    rows <- [i \in DOMAIN npm_statistics |-> npm_statistics[i].value]

(* "Number of Public Methods" (metrics.h): the counters and the rows are   *)
(* those of the functions that are not static.                             *)
NpmImplementsPublicCount == Public!CountSpec

(* A function is only taken back after it was counted, once, and in the    *)
(* unit that counted it: while a discount is possible there is something   *)
(* to discount, so the unsigned counters never wrap below zero.            *)
DiscountsCounted ==
    /\ npm_read_state # "WAITING_METHOD" =>
           npm_overall > 0 /\ (phase = "unit" => npm_unit > 0)
    /\ phase = "unit" => npm_overall >= npm_unit
==============================================================================
