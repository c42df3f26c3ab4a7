------------------------------- MODULE CParse -------------------------------
(***************************************************************************)
(* The C parser of Cyclomatic Complexity, languages/c.c, as the handlers   *)
(* of src/srcmetrics/metrics/cc.c drive it.  It keeps a stack of the open  *)
(* elements it knows, because unlike the other metrics it needs to know    *)
(* the parent; a Chunk of strings with one interpretation each; and the    *)
(* edges between the blocks of a function.                                 *)
(*                                                                         *)
(* The element `if` with the attribute type="elseif" is the tag "elseif".  *)
(* padkit's debug checks are on: where one fails the program ends, and     *)
(* cc_error is the element at whose start or end it did.  Left out is what *)
(* nothing reads: the stack of loops, the tables of labels and of first    *)
(* statements, the counts, which are all 0, and the tables of units and    *)
(* functions.  Those are filled at the end of a name that finds the        *)
(* function on top of the stack, where the pop that follows fails.         *)
(***************************************************************************)
EXTENDS Event, SequencesExt

VARIABLES
    parse,           \* CPARSE_CHUNK_PARSE with its interpretations
    callCount,       \* number of strings in CPARSE_CHUNK_CALLS
    elementStack,    \* CPARSE_STACK_ELEMENTS
    incomingStack,   \* CPARSE_STACK_INCOMING
    edges,           \* CPARSE_MAP_EDGES
    current_unit,    \* tracked_id[CPARSE_CURRENT_UNIT]
    current_fn,      \* tracked_id[CPARSE_CURRENT_FN]
    first_stmt,      \* tracked_id[CPARSE_CURRENT_FN_FIRST_STMT]
    cc_error         \* where a check has ended the program, or "none"

ccVars == <<parse, callCount, elementStack, incomingStack, edges, current_unit,
            current_fn, first_stmt, cc_error>>

C_ELEMENT_TAGS ==
    {"block_content", "break", "call", "case", "condition", "continue", "control",
     "decl_stmt", "default", "do", "else", "elseif", "empty_stmt", "expr_stmt", "for",
     "function", "goto", "if", "if_stmt", "incr", "init", "label", "name",
     "parameter_list", "return", "switch", "type", "while"}

C_INTERPRETATION_NAMES ==
    {"C_CALL_NAME", "C_COND", "C_FN_NAME", "C_FN_PARAMS", "C_FN_TYPE", "C_SPURIOUS",
     "C_STMT", "C_UNIT"}

(* peekStack_cparse of the elements. *)
PeekElement == IF elementStack = <<>> THEN "none" ELSE Last(elementStack)

Parsed(string, interpretation) ==
    Append(parse, [text |-> string, interpretation |-> interpretation])

parse_cparse(string, interpretation) == parse' = Parsed(string, interpretation)

PushElement(tag) == elementStack' = Append(elementStack, tag)

(* A check fails at the element, and nothing happens any more.             *)
Stop(tag) ==
    /\ cc_error' = tag
    /\ UNCHANGED <<parse, callCount, elementStack, incomingStack, edges, current_unit,
                   current_fn, first_stmt>>

CcTypeOK ==
    /\ parse \in Seq([text : Seq(Piece), interpretation : C_INTERPRETATION_NAMES])
    /\ callCount \in Nat
    /\ elementStack \in Seq(C_ELEMENT_TAGS)
    /\ incomingStack \in Seq(1..Len(parse))
    /\ edges \subseteq (1..Len(parse)) \X (1..Len(parse))
    /\ {current_unit, current_fn, first_stmt} \subseteq 0..Len(parse)
    /\ cc_error \in C_ELEMENT_TAGS \cup {"none", "unit"}

CcInit ==
    /\ parse = <<>>
    /\ callCount = 0
    /\ elementStack = <<>>
    /\ incomingStack = <<>>
    /\ edges = {}
    /\ current_unit = NoId
    /\ current_fn = NoId
    /\ first_stmt = NoId
    /\ cc_error = "none"

(* constructEmpty_cparse the first time, flush_cparse later.               *)
event_startDocument_cc ==
    /\ parse' = <<>>
    /\ callCount' = 0
    /\ elementStack' = <<>>
    /\ incomingStack' = <<>>
    /\ edges' = {}
    /\ current_unit' = NoId
    /\ current_fn' = NoId
    /\ first_stmt' = NoId
    /\ UNCHANGED cc_error

(* generateDot_cparse writes nothing.  With --cfg and .dot enabled the     *)
(* name of its file is added to `strings` first (cc.c:59-69); that is left *)
(* out, as in Rfu: it is a string of its own, at which nothing looks any   *)
(* more.                                                                   *)
event_endDocument_cc == UNCHANGED ccVars

event_startUnit_cc(filename) ==
    IF current_unit # NoId THEN Stop("unit")
    ELSE /\ parse_cparse(<<filename>>, "C_UNIT")
         /\ current_unit' = Len(parse')
         /\ UNCHANGED <<callCount, elementStack, incomingStack, edges, current_fn,
                        first_stmt, cc_error>>

event_endUnit_cc ==
    /\ current_unit' = NoId
    /\ UNCHANGED <<parse, callCount, elementStack, incomingStack, edges, current_fn,
                   first_stmt, cc_error>>

-----------------------------------------------------------------------------
(* C_ELEMENT_STARTERS.                                                     *)

(* Elements that only go onto the stack. *)
start_other_cparse(tag) ==
    /\ tag \in C_ELEMENT_TAGS \ {"block_content", "break", "call", "decl_stmt", "empty_stmt",
                                 "expr_stmt", "return", "function", "name",
                                 "parameter_list", "type"}
    /\ PushElement(tag)
    /\ UNCHANGED <<parse, callCount, incomingStack, edges, current_fn, first_stmt, cc_error>>

(* A statement is recorded unless it is one of a block. *)
start_stmt_cparse(tag) ==
    /\ tag \in {"decl_stmt", "empty_stmt", "expr_stmt", "return"}
    /\ IF PeekElement = "block_content" THEN UNCHANGED parse
       ELSE parse_cparse(<<>>, "C_STMT")
    /\ PushElement(tag)
    /\ UNCHANGED <<callCount, incomingStack, edges, current_fn, first_stmt, cc_error>>

(* Slip: the block before stays on the stack of incoming blocks. *)
start_block_content_cparse_noPop(tag) ==
    /\ tag = "block_content"
    /\ parse_cparse(<<>>, "C_SPURIOUS")
    /\ first_stmt' = IF PeekElement = "function" THEN Len(parse') ELSE first_stmt
    /\ edges' = edges \cup
                    (IF incomingStack = <<>> THEN {}
                     ELSE {<<Last(incomingStack), Len(parse')>>})
    /\ incomingStack' = Append(incomingStack, Len(parse'))
    /\ PushElement(tag)
    /\ UNCHANGED <<callCount, current_fn, cc_error>>

(* A block follows the block that was entered before it. *)
start_block_content_cparse(tag) ==
    /\ tag = "block_content"
    /\ IF PeekElement = "function" /\ (incomingStack # <<>> \/ first_stmt # NoId)
       THEN Stop(tag)
       ELSE /\ parse_cparse(<<>>, "C_SPURIOUS")
            /\ first_stmt' = IF PeekElement = "function" THEN Len(parse') ELSE first_stmt
            /\ edges' = edges \cup
                            (IF incomingStack = <<>> THEN {}
                             ELSE {<<Last(incomingStack), Len(parse')>>})
            /\ incomingStack' = Append(IF incomingStack = <<>> THEN <<>>
                                       ELSE Front(incomingStack), Len(parse'))
            /\ PushElement(tag)
            /\ UNCHANGED <<callCount, current_fn, cc_error>>

(* Slip: the element is recorded and not pushed. *)
start_break_cparse_noPush(tag) ==
    /\ tag = "break"
    /\ parse_cparse(<<>>, "C_SPURIOUS")
    /\ UNCHANGED <<callCount, elementStack, incomingStack, edges, current_fn, first_stmt,
                   cc_error>>

start_break_cparse(tag) ==
    /\ tag = "break"
    /\ IF PeekElement # "block_content" THEN UNCHANGED <<parse, elementStack>>
       ELSE parse_cparse(<<>>, "C_SPURIOUS") /\ PushElement(tag)
    /\ UNCHANGED <<callCount, incomingStack, edges, current_fn, first_stmt, cc_error>>

start_call_cparse(tag) ==
    /\ tag = "call"
    /\ IF Last(parse).interpretation # "C_STMT" THEN UNCHANGED <<callCount, elementStack>>
       ELSE callCount' = callCount + 1 /\ PushElement(tag)
    /\ UNCHANGED <<parse, incomingStack, edges, current_fn, first_stmt, cc_error>>

start_fn_cparse(tag) ==
    /\ tag = "function"
    /\ IF elementStack # <<>> \/ current_fn # NoId THEN Stop(tag)
       ELSE /\ PushElement(tag)
            /\ UNCHANGED <<parse, callCount, incomingStack, edges, current_fn, first_stmt,
                           cc_error>>

start_name_cparse(tag) ==
    /\ tag = "name"
    /\ IF PeekElement # "function"
       THEN PushElement(tag) /\ UNCHANGED <<parse, current_fn, cc_error>>
       ELSE IF current_fn # NoId
       THEN cc_error' = tag /\ UNCHANGED <<parse, current_fn, elementStack>>
       ELSE /\ parse_cparse(<<>>, "C_FN_NAME")
            /\ current_fn' = Len(parse')
            /\ PushElement(tag)
            /\ UNCHANGED cc_error
    /\ UNCHANGED <<callCount, incomingStack, edges, first_stmt>>

(* Slip: no string for the parameters, which then go to the string before. *)
start_params_cparse_noParse(tag) ==
    /\ tag \in {"parameter_list", "type"}
    /\ IF PeekElement # "function" \/ tag = "parameter_list" THEN UNCHANGED parse
       ELSE parse_cparse(<<>>, "C_FN_TYPE")
    /\ PushElement(tag)
    /\ UNCHANGED <<callCount, incomingStack, edges, current_fn, first_stmt, cc_error>>

(* start_params_cparse and start_type_cparse. *)
start_params_cparse(tag) ==
    /\ tag \in {"parameter_list", "type"}
    /\ IF PeekElement # "function" THEN UNCHANGED parse
       ELSE parse_cparse(<<>>, IF tag = "type" THEN "C_FN_TYPE" ELSE "C_FN_PARAMS")
    /\ PushElement(tag)
    /\ UNCHANGED <<callCount, incomingStack, edges, current_fn, first_stmt, cc_error>>

CcStartIgnored(tag) == tag \notin C_ELEMENT_TAGS /\ UNCHANGED ccVars

(* The attribute decides which element is started. *)
event_startElement_cc(tag) ==
    /\ \/ start_other_cparse(tag)
       \/ start_stmt_cparse(tag)
       \/ start_block_content_cparse(tag)
       \/ start_break_cparse(tag)
       \/ start_call_cparse(tag)
       \/ start_fn_cparse(tag)
       \/ start_name_cparse(tag)
       \/ start_params_cparse(tag)
       \/ CcStartIgnored(tag)
    /\ UNCHANGED current_unit

-----------------------------------------------------------------------------
(* C_ELEMENT_ENDERS.                                                       *)

(* The check on what popStack_cparse returns. *)
PopElement(tag) ==
    IF PeekElement # tag THEN Stop(tag)
    ELSE /\ elementStack' = Front(elementStack)
         /\ UNCHANGED <<parse, callCount, incomingStack, edges, current_unit, current_fn,
                        first_stmt, cc_error>>

(* Slip: a condition is missing in the table of enders. *)
end_other_cparse_noCondition(tag) ==
    /\ tag \in C_ELEMENT_TAGS \ {"function", "name"}
    /\ IF tag = "condition" THEN UNCHANGED ccVars ELSE PopElement(tag)

(* Elements that only take their own tag off the stack.                    *)
end_other_cparse(tag) == tag \in C_ELEMENT_TAGS \ {"function", "name"} /\ PopElement(tag)

(* Where it fills the tables, the function is on top and the check fails.  *)
end_name_cparse(tag) == tag = "name" /\ PopElement(tag)

(* The end of a function asks for an empty stack and then for the function *)
(* on top of it.                                                           *)
end_fn_cparse(tag) ==
    /\ tag = "function"
    /\ Stop(tag)

CcEndIgnored(tag) == tag \notin C_ELEMENT_TAGS /\ UNCHANGED ccVars

(* The name alone decides which element is ended. *)
event_endElement_cc(tag) ==
    LET localname == IF tag = "elseif" THEN "if" ELSE tag IN
    \/ end_other_cparse(localname)
    \/ end_name_cparse(localname)
    \/ end_fn_cparse(localname)
    \/ CcEndIgnored(localname)

(* appendIfPossible_cparse: the text goes to the last string, whatever     *)
(* that is about.                                                          *)
event_charactersUnit_cc(ch) ==
    /\ IF ch # ";" /\ PeekElement \in {"condition", "decl_stmt", "expr_stmt", "incr", "init",
                                       "name", "return", "type"}
       THEN parse' = [parse EXCEPT ![Len(parse)].text = Append(@, ch)]
       ELSE UNCHANGED parse
    /\ UNCHANGED <<callCount, elementStack, incomingStack, edges, current_unit, current_fn,
                   first_stmt, cc_error>>

-----------------------------------------------------------------------------
(* CC on its own under the dispatcher.                                     *)

CcSystemInit == Init /\ CcInit

CcNext ==
    /\ cc_error = "none"
    /\ \/ event_startDocument /\ event_startDocument_cc
       \/ event_startRoot /\ UNCHANGED ccVars
       \/ \E filename \in Filenames :
             event_startUnit(filename) /\ event_startUnit_cc(filename)
       \/ \E tag \in Tags : event_startElement(tag) /\ event_startElement_cc(tag)
       \/ \E tag \in Tags : event_endElement(tag) /\ event_endElement_cc(tag)
       \/ \E ch \in Text : event_charactersUnit(ch) /\ event_charactersUnit_cc(ch)
       \/ event_endUnit /\ event_endUnit_cc
       \/ event_endRoot /\ UNCHANGED ccVars
       \/ event_endDocument /\ event_endDocument_cc

CcSpec == CcSystemInit /\ [][CcNext]_<<vars, ccVars>>

-----------------------------------------------------------------------------
(* Properties.                                                             *)

(* The elements of a path that are always on the stack, one after another. *)
KnownIn(path) ==
    LET known[n \in 0..Len(path)] ==
            IF n = 0 THEN <<>>
            ELSE IF path[n] \in C_ELEMENT_TAGS \ {"call"} THEN Append(known[n - 1], path[n])
            ELSE known[n - 1]
    IN  known

OpenPath == [i \in DOMAIN open |-> open[i].tag]

(* While the program runs the stack is the path of open elements from the  *)
(* unit to the event, except that calls are on it or not.                  *)
StackFollowsOpen ==
    cc_error = "none" =>
        KnownIn(elementStack)[Len(elementStack)] = KnownIn(OpenPath)[Len(open)]

(* Every element finds its own tag on top of the stack at its end, but for *)
(* calls and functions, and for an `if` that was started as an `elseif`.   *)
EndsMatch ==
    /\ cc_error \in {"none", "function", "call", "if"}
    /\ cc_error = "if" => PeekElement = "elseif"

(* The text of the function's name is the string that is tracked as its    *)
(* name, and no text that follows goes there.                              *)
FnNameExact ==
    current_fn # NoId /\ cc_error = "none" =>
        /\ parse[current_fn].interpretation = "C_FN_NAME"
        /\ \E i \in DOMAIN open :
              /\ open[i].tag = "function"
              /\ parse[current_fn].text =
                     IF i < Len(open) /\ open[i + 1].tag = "name" THEN open[i + 1].text
                     ELSE open[i].name

(* The blocks make one chain in the order they are entered: edges go from  *)
(* earlier blocks to later ones, no two edges share an end, and each goes  *)
(* to the block that was entered last or to one that has a successor.      *)
BlocksChained ==
    /\ Len(incomingStack) <= 1
    /\ edges # {} => incomingStack # <<>>
    /\ \A e \in edges :
          /\ e[1] < e[2]
          /\ e[2] <= incomingStack[1]
          /\ e[2] = incomingStack[1] \/ \E d \in edges : d[1] = e[2]
    /\ \A d, e \in edges : d[1] = e[1] \/ d[2] = e[2] => d = e
==============================================================================
