--------------------------------- MODULE Abc ---------------------------------
(***************************************************************************)
(* Assignments, Branches, Conditionals, src/srcmetrics/metrics/abc.c.  One *)
(* reader with four states tells initialisers of declarations from other   *)
(* ones and gathers the text of operators.  The nine counters a_, b_ and   *)
(* c_ of the document, of the unit and of the function are three records.  *)
(***************************************************************************)
EXTENDS Event, FiniteSetsExt

CONSTANT Word   \* one more than the largest unsigned

ASSUME WordAssumption == Word \in Nat \ {0}

VARIABLES
    ac_read_state,   \* what the reader expects or reads
    abc_overall,     \* counts of the document
    abc_unit,        \* counts of the unit
    abc_fn,          \* counts of the function
    op_chunk,        \* the characters of the operator so far
    abc_statistics   \* the rows to report, in order of insertion

abcVars == <<ac_read_state, abc_overall, abc_unit, abc_fn, op_chunk, abc_statistics>>

AbcReadStates == {"WAITING_FOR_OPERATOR", "COMMENT", "READING_OPERATOR", "DECLARATION"}
AbcZero == [A |-> 0, B |-> 0, C |-> 0]

(* The operators that endElement compares op_chunk with. *)
AbcConditional == {<<"!", "=">>, <<"=", "=">>, <<">", "=">>, <<"<", "=">>, <<">">>, <<"<">>}
AbcAssigning ==
    {<<"+", "+">>, <<"-", "-">>, <<"^", "=">>, <<"|", "=">>, <<"&", "=">>,
     <<">", ">", "=">>, <<"<", "<", "=">>, <<"-", "=">>, <<"+", "=">>, <<"%", "=">>,
     <<"/", "=">>, <<"*", "=">>, <<"=">>}

(* The unsigned number whose root is the fourth row.                       *)
AbcSquare(count) ==
    (count.A * count.A + count.B * count.B + count.C * count.C) % Word

AbcInsert(suffix, count) ==
    abc_statistics' = abc_statistics \o
        << [key |-> <<"ABC-A">> \o suffix, value |-> count.A],
           [key |-> <<"ABC-B">> \o suffix, value |-> count.B],
           [key |-> <<"ABC-C">> \o suffix, value |-> count.C],
           [key |-> <<"ABC">> \o suffix, value |-> AbcSquare(count)] >>

AbcInit ==
    /\ ac_read_state = "WAITING_FOR_OPERATOR"
    /\ abc_overall = AbcZero
    /\ abc_unit = AbcZero
    /\ abc_fn = AbcZero
    /\ op_chunk = <<>>
    /\ abc_statistics = <<>>

event_startDocument_abc ==
    /\ ac_read_state' = "WAITING_FOR_OPERATOR"
    /\ abc_overall' = AbcZero
    /\ op_chunk' = <<>>
    /\ abc_statistics' = <<>>
    /\ UNCHANGED <<abc_unit, abc_fn>>

event_endDocument_abc ==
    /\ AbcInsert(<<>>, abc_overall)
    /\ UNCHANGED <<ac_read_state, abc_overall, abc_unit, abc_fn, op_chunk>>

event_startUnit_abc ==
    /\ ac_read_state' = "WAITING_FOR_OPERATOR"
    /\ abc_unit' = AbcZero
    /\ UNCHANGED <<abc_overall, abc_fn, op_chunk, abc_statistics>>

event_endUnit_abc ==
    /\ AbcInsert(<<"_">> \o get_chunk(strings, currentUnit_id), abc_unit)
    /\ UNCHANGED <<ac_read_state, abc_overall, abc_unit, abc_fn, op_chunk>>

(* One more of a kind for the document, the unit and the function there are. *)
AbcCount(kind) ==
    /\ abc_overall' = [abc_overall EXCEPT ![kind] = @ + 1]
    /\ abc_unit' = IF currentUnit_id # NoId THEN [abc_unit EXCEPT ![kind] = @ + 1] ELSE abc_unit
    /\ abc_fn' = IF currentFn_id # NoId THEN [abc_fn EXCEPT ![kind] = @ + 1] ELSE abc_fn

(* Slip: the function's counters go on from the function before. *)
AbcFunction_noReset(localname) ==
    /\ localname = "function"
    /\ UNCHANGED <<ac_read_state, abc_overall, abc_unit, abc_fn>>

AbcFunction(localname) ==
    /\ localname = "function"
    /\ abc_fn' = AbcZero
    /\ UNCHANGED <<ac_read_state, abc_overall, abc_unit>>

AbcBranch(localname) ==
    /\ localname \in {"call", "goto"}
    /\ AbcCount("B")
    /\ UNCHANGED ac_read_state

AbcAlternative(localname) ==
    /\ localname \in {"else", "case", "default", "ternary"}
    /\ AbcCount("C")
    /\ UNCHANGED ac_read_state

AbcReads(localname) ==
    /\ \/ localname = "comment" /\ ac_read_state' = "COMMENT"
       \/ localname = "operator" /\ ac_read_state' = "READING_OPERATOR"
       \/ localname = "decl_stmt" /\ ac_read_state' = "DECLARATION"
    /\ UNCHANGED <<abc_overall, abc_unit, abc_fn>>

(* Only the first initialiser after the start of a declaration is seen. *)
AbcInitialiser(localname) ==
    /\ localname = "init"
    /\ ac_read_state = "DECLARATION"
    /\ AbcCount("A")
    /\ ac_read_state' = "WAITING_FOR_OPERATOR"

AbcSkipsStart(localname) ==
    /\ localname \notin {"function", "call", "goto", "else", "case", "default", "ternary",
                         "comment", "operator", "decl_stmt"}
    /\ ~(localname = "init" /\ ac_read_state = "DECLARATION")
    /\ UNCHANGED <<ac_read_state, abc_overall, abc_unit, abc_fn>>

event_startElement_abc(localname) ==
    /\ \/ AbcFunction(localname)
       \/ AbcBranch(localname)
       \/ AbcAlternative(localname)
       \/ AbcReads(localname)
       \/ AbcInitialiser(localname)
       \/ AbcSkipsStart(localname)
    /\ UNCHANGED <<op_chunk, abc_statistics>>

AbcFunctionEnds(localname) ==
    /\ localname = "function"
    /\ AbcInsert(<<"_">> \o get_chunk(strings, currentFn_id), abc_fn)
    /\ UNCHANGED <<ac_read_state, abc_overall, abc_unit, abc_fn, op_chunk>>

AbcCommentEnds(localname) ==
    /\ localname = "comment"
    /\ ac_read_state' = "WAITING_FOR_OPERATOR"
    /\ UNCHANGED <<abc_overall, abc_unit, abc_fn, op_chunk, abc_statistics>>

(* Slip: the text is kept for the next operator. *)
AbcOperatorEnds_noFlush(localname) ==
    /\ localname = "operator"
    /\ \/ op_chunk \in AbcConditional /\ AbcCount("C")
       \/ op_chunk \in AbcAssigning /\ AbcCount("A")
       \/ op_chunk \notin AbcConditional \cup AbcAssigning
          /\ UNCHANGED <<abc_overall, abc_unit, abc_fn>>
    /\ ac_read_state' = "WAITING_FOR_OPERATOR"
    /\ UNCHANGED <<op_chunk, abc_statistics>>

AbcOperatorEnds(localname) ==
    /\ localname = "operator"
    /\ \/ op_chunk \in AbcConditional /\ AbcCount("C")
       \/ op_chunk \in AbcAssigning /\ AbcCount("A")
       \/ op_chunk \notin AbcConditional \cup AbcAssigning
          /\ UNCHANGED <<abc_overall, abc_unit, abc_fn>>
    /\ ac_read_state' = "WAITING_FOR_OPERATOR"
    /\ op_chunk' = <<>>
    /\ UNCHANGED abc_statistics

event_endElement_abc(localname) ==
    \/ AbcFunctionEnds(localname)
    \/ AbcCommentEnds(localname)
    \/ AbcOperatorEnds(localname)
    \/ localname \notin {"function", "comment", "operator"} /\ UNCHANGED abcVars

event_charactersUnit_abc(ch) ==
    /\ op_chunk' = IF ac_read_state = "READING_OPERATOR" THEN Append(op_chunk, ch) ELSE op_chunk
    /\ UNCHANGED <<ac_read_state, abc_overall, abc_unit, abc_fn, abc_statistics>>

-----------------------------------------------------------------------------
(* ABC on its own under the dispatcher.                                    *)

AbcSystemInit == Init /\ AbcInit

AbcNext ==
    \/ event_startDocument /\ event_startDocument_abc
    \/ event_startRoot /\ UNCHANGED abcVars
    \/ \E filename \in Filenames : event_startUnit(filename) /\ event_startUnit_abc
    \/ \E localname \in Tags :
          event_startElement(localname) /\ event_startElement_abc(localname)
    \/ \E localname \in Tags :
          event_endElement(localname) /\ event_endElement_abc(localname)
    \/ \E ch \in Text : event_charactersUnit(ch) /\ event_charactersUnit_abc(ch)
    \/ event_endUnit /\ event_endUnit_abc
    \/ event_endRoot /\ UNCHANGED abcVars
    \/ event_endDocument /\ event_endDocument_abc

AbcSpec == AbcSystemInit /\ [][AbcNext]_<<vars, abcVars>>

-----------------------------------------------------------------------------
(* Properties.                                                             *)

(* An operator is judged by its own characters, however many pieces they   *)
(* come in, and nothing outside operators is gathered.                     *)
OperatorByItsText ==
    op_chunk = IF phase = "unit" /\ Top.tag = "operator" THEN Top.text ELSE <<>>

Count == INSTANCE AbcCount WITH
    overall <- abc_overall,
    unit <- abc_unit,
    fn <- abc_fn,
    rows <- [i \in 1..(Len(abc_statistics) \div 4) |->
                [A |-> abc_statistics[4 * i - 3].value,
                 B |-> abc_statistics[4 * i - 2].value,
                 C |-> abc_statistics[4 * i - 1].value]]

(* The reader's state machine counts what the structure of the code says,  *)
(* at each of the three levels: each initialiser of a declaration, each    *)
(* assigning operator, each comparison, each call.                         *)
AbcImplementsCount == Count!CountSpec
==============================================================================
