--------------------------------- MODULE Hsm ---------------------------------
(***************************************************************************)
(* Halstead Software Metrics, src/srcmetrics/metrics/hsm.c.  Every operator *)
(* element is an operator and every expr element, with all the text in it, *)
(* is an operand.  Both are counted, and their texts kept as sets, for the *)
(* document, the unit and the function.  The text of the operands that are *)
(* open is gathered in a stack of chunks over the chunk of the operator.   *)
(*                                                                         *)
(* A reported number is modelled by the natural numbers it is computed     *)
(* from; logarithm and division are left out.                              *)
(***************************************************************************)
EXTENDS Event, SequencesExt

VARIABLES
    hsm_read_state,   \* whether an operator is being read
    operators,        \* the distinct operators of each level
    operands,         \* the distinct operands of each level
    n1,               \* how many operators each level has
    n2,               \* how many operands each level has
    chunk_stack,      \* the operator's text, then that of each open operand
    hsm_statistics    \* the rows to report, in order of insertion

hsmVars == <<hsm_read_state, operators, operands, n1, n2, chunk_stack, hsm_statistics>>

Levels == {"OVERALL", "UNIT", "FN"}

(* The levels that an element belongs to.                                  *)
Current == {"OVERALL"}
           \cup (IF currentUnit_id # NoId THEN {"UNIT"} ELSE {})
           \cup (IF currentFn_id # NoId THEN {"FN"} ELSE {})

nu1 == [l \in Levels |-> Cardinality(operators[l])]
nu2 == [l \in Levels |-> Cardinality(operands[l])]

(* The five rows of a level, whose Halstead length is n.                   *)
HsmInsert(suffix, level, n) ==
    LET volume     == <<n, nu1[level] + nu2[level]>>
        difficulty == <<nu1[level] * n2[level], nu2[level]>>
        Row(name, value) == [key |-> <<name>> \o suffix, value |-> value] IN
    hsm_statistics' = hsm_statistics \o
        << Row("HSM-V", volume), Row("HSM-D", difficulty),
           Row("HSM-E", volume \o difficulty), Row("HSM-B", volume),
           Row("HSM-T", volume \o difficulty) >>

HsmTypeOK ==
    /\ hsm_read_state \in {"WAITING", "READING_OPERATOR"}
    /\ {operators, operands} \subseteq [Levels -> SUBSET Seq(Text)]
    /\ {n1, n2} \subseteq [Levels -> Nat]
    /\ chunk_stack \in Seq(Seq(Text))

HsmInit ==
    /\ hsm_read_state = "WAITING"
    /\ operators = [l \in Levels |-> {}]
    /\ operands = [l \in Levels |-> {}]
    /\ n1 = [l \in Levels |-> 0]
    /\ n2 = [l \in Levels |-> 0]
    /\ chunk_stack = <<>>
    /\ hsm_statistics = <<>>

event_startDocument_hsm ==
    /\ hsm_read_state' = "WAITING"
    /\ operators' = [l \in Levels |-> {}]
    /\ operands' = [l \in Levels |-> {}]
    /\ n1' = [n1 EXCEPT !["OVERALL"] = 0]
    /\ n2' = [n2 EXCEPT !["OVERALL"] = 0]
    /\ chunk_stack' = << <<>> >>
    /\ hsm_statistics' = <<>>

event_endDocument_hsm ==
    /\ HsmInsert(<<>>, "OVERALL", n1["OVERALL"] + n2["OVERALL"])
    /\ UNCHANGED <<hsm_read_state, operators, operands, n1, n2, chunk_stack>>

(* Slip: the counts start anew, the sets go on. *)
HsmRestart_countsOnly(level) ==
    /\ n1' = [n1 EXCEPT ![level] = 0]
    /\ n2' = [n2 EXCEPT ![level] = 0]
    /\ UNCHANGED <<operators, operands>>

(* A unit or a function starts with nothing counted. *)
HsmRestart(level) ==
    /\ operators' = [operators EXCEPT ![level] = {}]
    /\ operands' = [operands EXCEPT ![level] = {}]
    /\ n1' = [n1 EXCEPT ![level] = 0]
    /\ n2' = [n2 EXCEPT ![level] = 0]

event_startUnit_hsm ==
    /\ HsmRestart("UNIT")
    /\ UNCHANGED <<hsm_read_state, chunk_stack, hsm_statistics>>

(* The distinct operands, not the operands, are added to the operators. *)
event_endUnit_hsm ==
    /\ HsmInsert(<<"_">> \o get_chunk(strings, currentUnit_id), "UNIT",
                 n1["UNIT"] + nu2["UNIT"])
    /\ UNCHANGED <<hsm_read_state, operators, operands, n1, n2, chunk_stack>>

HsmFunction(localname) ==
    /\ localname = "function"
    /\ HsmRestart("FN")
    /\ UNCHANGED <<hsm_read_state, chunk_stack>>

(* Slip: the operand of a nested expression reuses the open chunk. *)
HsmOperand_noPush(localname) ==
    /\ localname = "expr"
    /\ n2' = [l \in Levels |-> IF l \in Current THEN n2[l] + 1 ELSE n2[l]]
    /\ chunk_stack' = IF Len(chunk_stack) > 1 THEN chunk_stack ELSE Append(chunk_stack, <<>>)
    /\ UNCHANGED <<hsm_read_state, operators, operands, n1>>

HsmOperand(localname) ==
    /\ localname = "expr"
    /\ n2' = [l \in Levels |-> IF l \in Current THEN n2[l] + 1 ELSE n2[l]]
    /\ chunk_stack' = Append(chunk_stack, <<>>)
    /\ UNCHANGED <<hsm_read_state, operators, operands, n1>>

HsmOperator(localname) ==
    /\ localname = "operator"
    /\ n1' = [l \in Levels |-> IF l \in Current THEN n1[l] + 1 ELSE n1[l]]
    /\ hsm_read_state' = "READING_OPERATOR"
    /\ UNCHANGED <<operators, operands, n2, chunk_stack>>

event_startElement_hsm(localname) ==
    /\ \/ HsmFunction(localname)
       \/ HsmOperand(localname)
       \/ HsmOperator(localname)
       \/ /\ localname \notin {"function", "expr", "operator"}
          /\ UNCHANGED <<hsm_read_state, operators, operands, n1, n2, chunk_stack>>
    /\ UNCHANGED hsm_statistics

HsmFunctionEnds(localname) ==
    /\ localname = "function"
    /\ HsmInsert(<<"_">> \o get_chunk(strings, currentFn_id), "FN", n1["FN"] + nu2["FN"])
    /\ UNCHANGED <<hsm_read_state, operators, operands, chunk_stack>>

(* TERMINATE_ERROR without an open operand: see StackFollowsExprs.  It is  *)
(* an error too if the operand has no text.                                *)
HsmOperandEnds(localname) ==
    /\ localname = "expr"
    /\ operands' = [l \in Levels |-> IF l \in Current THEN operands[l] \cup {Last(chunk_stack)}
                                     ELSE operands[l]]
    /\ chunk_stack' = Front(chunk_stack)
    /\ UNCHANGED <<hsm_read_state, operators, hsm_statistics>>

(* Slip: the operator's text is kept. *)
HsmOperatorEnds_noFlush(localname) ==
    /\ localname = "operator"
    /\ operators' = [l \in Levels |-> IF l \in Current THEN operators[l] \cup {Head(chunk_stack)}
                                      ELSE operators[l]]
    /\ hsm_read_state' = "WAITING"
    /\ UNCHANGED <<operands, chunk_stack, hsm_statistics>>

HsmOperatorEnds(localname) ==
    /\ localname = "operator"
    /\ operators' = [l \in Levels |-> IF l \in Current THEN operators[l] \cup {Head(chunk_stack)}
                                      ELSE operators[l]]
    /\ hsm_read_state' = "WAITING"
    /\ chunk_stack' = [chunk_stack EXCEPT ![1] = <<>>]
    /\ UNCHANGED <<operands, hsm_statistics>>

event_endElement_hsm(localname) ==
    /\ \/ HsmFunctionEnds(localname)
       \/ HsmOperandEnds(localname)
       \/ HsmOperatorEnds(localname)
       \/ /\ localname \notin {"function", "expr", "operator"}
          /\ UNCHANGED <<hsm_read_state, operators, operands, chunk_stack, hsm_statistics>>
    /\ UNCHANGED <<n1, n2>>

(* Slip: only the innermost open operand takes the characters. *)
event_charactersUnit_hsm_innermost(ch) ==
    /\ chunk_stack' = [k \in DOMAIN chunk_stack |->
                          IF (k > 1 /\ k = Len(chunk_stack))
                             \/ (k = 1 /\ hsm_read_state = "READING_OPERATOR")
                          THEN Append(chunk_stack[k], ch) ELSE chunk_stack[k]]
    /\ UNCHANGED <<hsm_read_state, operators, operands, n1, n2, hsm_statistics>>

(* Every open operand takes the characters, and the operator being read.   *)
event_charactersUnit_hsm(ch) ==
    /\ chunk_stack' = [k \in DOMAIN chunk_stack |->
                          IF k > 1 \/ hsm_read_state = "READING_OPERATOR"
                          THEN Append(chunk_stack[k], ch) ELSE chunk_stack[k]]
    /\ UNCHANGED <<hsm_read_state, operators, operands, n1, n2, hsm_statistics>>

-----------------------------------------------------------------------------
(* HSM on its own under the dispatcher.                                    *)

HsmSystemInit == Init /\ HsmInit

HsmNext ==
    \/ event_startDocument /\ event_startDocument_hsm
    \/ event_startRoot /\ UNCHANGED hsmVars
    \/ \E filename \in Filenames : event_startUnit(filename) /\ event_startUnit_hsm
    \/ \E localname \in Tags :
          event_startElement(localname) /\ event_startElement_hsm(localname)
    \/ \E localname \in Tags :
          event_endElement(localname) /\ event_endElement_hsm(localname)
    \/ \E ch \in Text : event_charactersUnit(ch) /\ event_charactersUnit_hsm(ch)
    \/ event_endUnit /\ event_endUnit_hsm
    \/ event_endRoot /\ UNCHANGED hsmVars
    \/ event_endDocument /\ event_endDocument_hsm

HsmSpec == HsmSystemInit /\ [][HsmNext]_<<vars, hsmVars>>

-----------------------------------------------------------------------------
(* Properties.                                                             *)

(* One chunk for each open expression, above the operator's: the check for *)
(* an empty stack at the end of an expression never fails.                 *)
StackFollowsExprs ==
    phase # "start" => Len(chunk_stack) = 1 + Cardinality(OpenOf("expr"))

(* Bottom chunk: the characters of the open operator and nothing else.     *)
OperatorTextExact ==
    phase # "start" =>
        Head(chunk_stack) =
            IF phase = "unit" /\ Top.tag = "operator" THEN Top.text ELSE <<>>

(* An operand has all the text inside its expression: that of the operands *)
(* inside it, which is the end of it while they are open, and that of the  *)
(* element being read.                                                     *)
OperandsNest ==
    /\ \A k \in 2..Len(chunk_stack) - 1 : IsSuffix(chunk_stack[k + 1], chunk_stack[k])
    /\ Len(chunk_stack) > 1 /\ Top.slot = 0 => IsSuffix(Top.text, Last(chunk_stack))

(* The three levels fit together: what a function has, its unit has, what  *)
(* a unit has, the document has; as many distinct texts as tokens at most; *)
(* and a document of one unit has the sets and the counts of that unit.    *)
(* The volumes computed from them may differ (hsm.c:160, 221).             *)
HsmLevelsAgree ==
    LET Below(l, m) ==
            /\ operators[l] \subseteq operators[m] /\ operands[l] \subseteq operands[m]
            /\ n1[l] <= n1[m] /\ n2[l] <= n2[m] IN
    phase = "unit" =>
        /\ Below("UNIT", "OVERALL")
        /\ "function" \in OpenTags => Below("FN", "UNIT")
        /\ \A l \in {"UNIT", "OVERALL"} :
              /\ nu1[l] + Cardinality(OpenOf("operator")) <= n1[l]
              /\ nu2[l] + Cardinality(OpenOf("expr")) <= n2[l]
        /\ units = 1 => Below("OVERALL", "UNIT")
==============================================================================
