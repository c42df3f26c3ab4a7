----------------------------- MODULE TokenProofs ------------------------------
(***************************************************************************)
(* Proofs about ABC and HSM, the metrics that read operators and operands, *)
(* for every grammar and bound: HSM's stack of texts follows the open      *)
(* expressions, the texts nest as these do, and its three levels fit       *)
(* together; both judge an operator by its own characters; and where a     *)
(* declaration has one initialiser, ABC implements AbcCount.               *)
(***************************************************************************)
EXTENDS Abc, Hsm, EventProofs

-----------------------------------------------------------------------------
(* The open operator.  In srcML it has characters and no elements.         *)

OperatorsAreLeaves == "operator" \in Tags => Grammar["operator"] = <<>>

ReadsOperator == phase = "unit" /\ Top.tag = "operator"

(* The characters of the open operator so far.                             *)
OperatorText == IF ReadsOperator THEN Top.text ELSE <<>>

(* An operator is only open as the innermost element.                      *)
OperatorInnermost == \A i \in DOMAIN open : open[i].tag = "operator" => i = Len(open)

(* No element starts in an operator.                                       *)
LEMMA OperatorStarts ==
    ASSUME OperatorsAreLeaves, SaxTypeOK, StreamShape, OperatorInnermost,
           NEW t \in Tags, SaxStartElement(t)
    PROVE  /\ OperatorInnermost'
           /\ ~ReadsOperator /\ OperatorText = <<>>
           /\ ReadsOperator' <=> t = "operator"
           /\ OperatorText' = <<>>
  <1>1. PICK k \in DOMAIN Grammar[Top.tag] :
            open' = Append([open EXCEPT ![Len(open)].slot = k], Fresh(t))
    BY DEF SaxStartElement
  <1>2. /\ open \in Seq(Element) /\ Len(open) \in DOMAIN open
        /\ Top \in Element /\ phase = "unit" /\ phase' = "unit"
    BY DEF SaxTypeOK, StreamShape, SaxStartElement, Top
  <1>3. Top.tag # "operator"
    <2>1. SUFFICES ASSUME Top.tag = "operator" PROVE FALSE
      OBVIOUS
    <2>2. "operator" \in Tags
      BY <1>2, <2>1 DEF Element
    <2>3. DOMAIN Grammar[Top.tag] = {}
      BY <2>1, <2>2 DEF OperatorsAreLeaves
    <2> QED
      BY <1>1, <2>3
  <1>4. /\ Len(open') = Len(open) + 1 /\ DOMAIN open' = 1..Len(open')
        /\ \A i \in DOMAIN open : open'[i].tag = open[i].tag
        /\ open'[Len(open')].tag = t
    BY StartKeepsOpen DEF SaxTypeOK
  <1>5. open'[Len(open')] = Fresh(t)
    <2> DEFINE before == [open EXCEPT ![Len(open)].slot = k]
    <2>1. DOMAIN before = 1..Len(open) /\ open' = Append(before, Fresh(t))
      BY <1>1, <1>2
    <2> HIDE DEF before
    <2>2. Len(before) = Len(open)
      BY <1>2, <2>1
    <2> QED
      BY <2>1, <2>2
  <1>6. OperatorInnermost'
    BY <1>2, <1>3, <1>4 DEF OperatorInnermost, Top
  <1>7. Top'.tag = t /\ Top'.text = <<>>
    BY <1>4, <1>5 DEF Top, Fresh
  <1> QED
    BY <1>2, <1>3, <1>6, <1>7 DEF ReadsOperator, OperatorText

(* After an element ends an operator is not open; only its end ends it.    *)
LEMMA OperatorEnds ==
    ASSUME SaxTypeOK, StreamShape, OperatorInnermost, NEW t \in Tags, SaxEndElement(t)
    PROVE  /\ OperatorInnermost'
           /\ ReadsOperator <=> t = "operator"
           /\ ~ReadsOperator' /\ OperatorText' = <<>>
  <1>1. /\ Len(open) \in Nat /\ Len(open) > 1 /\ DOMAIN open = 1..Len(open)
        /\ Top.tag = t /\ phase = "unit" /\ phase' = "unit"
    BY DEF SaxTypeOK, SaxEndElement
  <1>2. /\ Len(open') = Len(open) - 1 /\ DOMAIN open' = 1..Len(open')
        /\ \A i \in DOMAIN open' : open'[i].tag = open[i].tag
    BY EndKeepsOpen DEF SaxTypeOK
  <1>3. \A i \in DOMAIN open' : open'[i].tag # "operator"
    BY <1>1, <1>2 DEF OperatorInnermost
  <1>4. Len(open') \in DOMAIN open'
    BY <1>1, <1>2
  <1> QED
    BY <1>1, <1>3, <1>4 DEF OperatorInnermost, ReadsOperator, OperatorText, Top

(* Characters in an operator are its own.                                  *)
LEMMA OperatorGrows ==
    ASSUME SaxTypeOK, StreamShape, OperatorInnermost, NEW ch \in Text, SaxCharacters(ch)
    PROVE  /\ OperatorInnermost'
           /\ ReadsOperator' <=> ReadsOperator
           /\ OperatorText' = IF ReadsOperator THEN Append(OperatorText, ch) ELSE OperatorText
  <1>1. /\ open \in Seq(Element) /\ Len(open) \in DOMAIN open
        /\ Top \in Element /\ phase = "unit" /\ phase' = "unit"
        /\ open' = [open EXCEPT ![Len(open)].text = Append(@, ch)]
    BY DEF SaxTypeOK, StreamShape, SaxCharacters, Top
  <1>2. /\ Len(open') = Len(open) /\ DOMAIN open' = DOMAIN open
        /\ \A i \in DOMAIN open : open'[i].tag = open[i].tag
    BY CharactersKeepOpen DEF SaxTypeOK
  <1>3. Top'.tag = Top.tag /\ Top'.text = Append(Top.text, ch)
    BY <1>1, <1>2 DEF Top, Element
  <1> QED
    BY <1>1, <1>2, <1>3 DEF OperatorInnermost, ReadsOperator, OperatorText

(* Outside elements there is no operator.                                  *)
LEMMA NoOperator ==
    ASSUME StreamShape
    PROVE  /\ phase # "unit" => OperatorInnermost /\ ~ReadsOperator /\ OperatorText = <<>>
           /\ SaxStartUnit =>
                  OperatorInnermost' /\ ~ReadsOperator' /\ OperatorText' = <<>>
           /\ SaxEndUnit => ~ReadsOperator /\ OperatorText = <<>>
  <1>1. phase # "unit" => OperatorInnermost /\ ~ReadsOperator /\ OperatorText = <<>>
    BY DEF StreamShape, OperatorInnermost, ReadsOperator, OperatorText
  <1>2. SaxStartUnit => OperatorInnermost' /\ ~ReadsOperator' /\ OperatorText' = <<>>
    BY DEF SaxStartUnit, Fresh, OperatorInnermost, ReadsOperator, OperatorText, Top
  <1>3. SaxEndUnit => ~ReadsOperator /\ OperatorText = <<>>
    BY DEF SaxEndUnit, StreamShape, ReadsOperator, OperatorText, Top
  <1> QED
    BY <1>1, <1>2, <1>3

-----------------------------------------------------------------------------
(* ABC.                                                                    *)

(* The reader is in an operator when one is open, and then only.           *)
AbcIInv ==
    /\ SaxTypeOK
    /\ StreamShape
    /\ OperatorInnermost
    /\ ac_read_state = "READING_OPERATOR" <=> ReadsOperator
    /\ op_chunk = OperatorText

(* An element starts.                                                      *)
LEMMA AbcElementStarts ==
    ASSUME OperatorsAreLeaves, AbcIInv, NEW t \in Tags, SaxStartElement(t),
           event_startElement_abc(t)
    PROVE  AbcIInv'
  <1>1. SaxTypeOK' /\ StreamShape'
    BY StartKeepsOpen DEF AbcIInv
  <1>2. /\ OperatorInnermost'
        /\ ~ReadsOperator /\ OperatorText = <<>>
        /\ ReadsOperator' <=> t = "operator"
        /\ OperatorText' = <<>>
    BY OperatorStarts DEF AbcIInv
  <1>3. op_chunk' = op_chunk
    BY DEF event_startElement_abc
  <1>4. ac_read_state' = "READING_OPERATOR" <=> t = "operator"
    BY <1>2 DEF AbcIInv, event_startElement_abc, AbcFunction, AbcBranch, AbcAlternative,
                AbcReads, AbcInitialiser, AbcSkipsStart
  <1> QED
    BY <1>1, <1>2, <1>3, <1>4 DEF AbcIInv

(* An element ends, and its text with it if it is an operator.             *)
LEMMA AbcElementEnds ==
    ASSUME AbcIInv, NEW t \in Tags, SaxEndElement(t), event_endElement_abc(t)
    PROVE  AbcIInv'
  <1>1. SaxTypeOK' /\ StreamShape'
    BY EndKeepsOpen DEF AbcIInv
  <1>2. /\ OperatorInnermost'
        /\ ReadsOperator <=> t = "operator"
        /\ ~ReadsOperator' /\ OperatorText' = <<>>
    BY OperatorEnds DEF AbcIInv
  <1>3. ac_read_state' # "READING_OPERATOR" /\ op_chunk' = <<>>
    BY <1>2 DEF AbcIInv, OperatorText, event_endElement_abc, AbcFunctionEnds,
                AbcCommentEnds, AbcOperatorEnds, abcVars
  <1> QED
    BY <1>1, <1>2, <1>3 DEF AbcIInv

(* A character in an operator goes to its text, another nowhere.           *)
LEMMA AbcCharacter ==
    ASSUME AbcIInv, NEW ch \in Text, SaxCharacters(ch), event_charactersUnit_abc(ch)
    PROVE  AbcIInv'
  <1>1. SaxTypeOK' /\ StreamShape'
    BY CharactersKeepOpen DEF AbcIInv
  <1>2. /\ OperatorInnermost'
        /\ ReadsOperator' <=> ReadsOperator
        /\ OperatorText' = IF ReadsOperator THEN Append(OperatorText, ch) ELSE OperatorText
    BY OperatorGrows DEF AbcIInv
  <1>3. op_chunk' = OperatorText'
    BY <1>2 DEF AbcIInv, event_charactersUnit_abc
  <1> QED
    BY <1>1, <1>2, <1>3 DEF AbcIInv, event_charactersUnit_abc

(* The invariant is inductive.                                             *)
LEMMA AbcStep == OperatorsAreLeaves /\ AbcIInv /\ [AbcNext]_<<vars, abcVars>> => AbcIInv'
  <1> SUFFICES ASSUME OperatorsAreLeaves, AbcIInv, [AbcNext]_<<vars, abcVars>>
               PROVE  AbcIInv'
    OBVIOUS
  <1>1. SaxTypeOK /\ StreamShape
    BY DEF AbcIInv
  <1>2. ASSUME NEW from, NEW to \in Phases, SaxMove(from, to), from # "unit", to # "unit",
               ac_read_state' \in {ac_read_state, "WAITING_FOR_OPERATOR"},
               op_chunk' \in {op_chunk, <<>>}
        PROVE  AbcIInv'
    <2>1. SaxTypeOK' /\ StreamShape' /\ phase # "unit" /\ phase' # "unit"
      BY <1>1, <1>2, MoveKeepsShape DEF SaxMove
    <2>2. /\ OperatorInnermost' /\ ~ReadsOperator' /\ OperatorText' = <<>>
          /\ ~ReadsOperator /\ OperatorText = <<>>
      BY <1>1, <2>1, NoOperator DEF StreamShape, OperatorInnermost, ReadsOperator, OperatorText
    <2> QED
      BY <1>2, <2>1, <2>2 DEF AbcIInv
  <1>3. CASE event_startDocument /\ event_startDocument_abc
    BY <1>2, <1>3 DEF event_startDocument, SaxStartDocument, Phases, event_startDocument_abc
  <1>4. CASE event_startRoot /\ UNCHANGED abcVars
    BY <1>2, <1>4 DEF event_startRoot, SaxStartRoot, Phases, abcVars
  <1>5. ASSUME NEW filename \in Filenames, event_startUnit(filename), event_startUnit_abc
        PROVE  AbcIInv'
    <2>1. SaxStartUnit /\ phase # "unit"
      BY <1>5 DEF event_startUnit, SaxStartUnit
    <2>2. SaxTypeOK' /\ StreamShape'
      BY <1>1, <2>1, UnitOpens
    <2> QED
      BY <1>1, <1>5, <2>1, <2>2, NoOperator DEF AbcIInv, event_startUnit_abc
  <1>6. ASSUME NEW t \in Tags, event_startElement(t), event_startElement_abc(t)
        PROVE  AbcIInv'
    BY <1>6, AbcElementStarts DEF event_startElement
  <1>7. ASSUME NEW t \in Tags, event_endElement(t), event_endElement_abc(t)
        PROVE  AbcIInv'
    BY <1>7, AbcElementEnds DEF event_endElement
  <1>8. ASSUME NEW ch \in Text, event_charactersUnit(ch), event_charactersUnit_abc(ch)
        PROVE  AbcIInv'
    BY <1>8, AbcCharacter DEF event_charactersUnit
  <1>9. CASE event_endUnit /\ event_endUnit_abc
    <2>1. SaxEndUnit /\ phase' # "unit"
      BY <1>9 DEF event_endUnit, SaxEndUnit
    <2>2. SaxTypeOK' /\ StreamShape' /\ ~ReadsOperator /\ OperatorText = <<>>
      BY <1>1, <2>1, UnitCloses, NoOperator
    <2>3. OperatorInnermost' /\ ~ReadsOperator' /\ OperatorText' = <<>>
      BY <2>1, <2>2 DEF StreamShape, OperatorInnermost, ReadsOperator, OperatorText
    <2> QED
      BY <1>9, <2>2, <2>3 DEF AbcIInv, event_endUnit_abc
  <1>10. CASE event_endRoot /\ UNCHANGED abcVars
    BY <1>2, <1>10 DEF event_endRoot, SaxEndRoot, Phases, abcVars
  <1>11. CASE event_endDocument /\ event_endDocument_abc
    BY <1>2, <1>11 DEF event_endDocument, SaxEndDocument, Phases, event_endDocument_abc
  <1>12. CASE UNCHANGED <<vars, abcVars>>
    BY <1>12 DEF AbcIInv, SaxTypeOK, StreamShape, OperatorInnermost, ReadsOperator,
                 OperatorText, Top, vars, saxVars, abcVars
  <1> QED
    BY <1>3, <1>4, <1>5, <1>6, <1>7, <1>8, <1>9, <1>10, <1>11, <1>12 DEF AbcNext

(* ABC judges an operator by its own characters and by all of them.        *)
THEOREM OperatorsAreRead == OperatorsAreLeaves /\ AbcSpec => []OperatorByItsText
  <1>1. AbcSystemInit => AbcIInv
    BY DEF AbcSystemInit, Init, SaxInit, AbcInit, AbcIInv, SaxTypeOK, StreamShape, Phases,
           OperatorInnermost, ReadsOperator, OperatorText
  <1>2. AbcIInv => OperatorByItsText
    BY DEF AbcIInv, OperatorByItsText, OperatorText, ReadsOperator
  <1>3. OperatorsAreLeaves /\ AbcSpec => []AbcIInv
    <2>1. SUFFICES ASSUME OperatorsAreLeaves PROVE AbcSpec => []AbcIInv
      OBVIOUS
    <2>2. AbcIInv /\ [AbcNext]_<<vars, abcVars>> => AbcIInv'
      BY <2>1, AbcStep
    <2> QED
      BY <1>1, <2>2, PTL DEF AbcSpec
  <1> QED
    BY <1>2, <1>3, PTL

-----------------------------------------------------------------------------
(* HSM: the stack of texts.                                                *)

(* One chunk for each open expression over the operator's, once there is a *)
(* document.                                                               *)
HsmIInv ==
    /\ SaxTypeOK
    /\ StreamShape
    /\ HsmTypeOK
    /\ phase # "start" => Len(chunk_stack) = 1 + OpenCount("expr")

(* An element starts: the counters of its levels grow, and the stack if it *)
(* is an expression.                                                       *)
LEMMA HsmElementStarts ==
    ASSUME HsmIInv, NEW t \in Tags, SaxStartElement(t), event_startElement_hsm(t)
    PROVE  HsmIInv'
  <1>1. /\ SaxTypeOK' /\ StreamShape'
        /\ phase = "unit" /\ phase' = "unit"
    BY StartKeepsOpen DEF HsmIInv, SaxStartElement
  <1>2. /\ OpenCount("expr") \in Nat
        /\ OpenCount("expr")' = IF t = "expr" THEN OpenCount("expr") + 1 ELSE OpenCount("expr")
    BY OneOpens, OpenFinite DEF HsmIInv
  <1>3. HsmTypeOK'
    <2>1. CASE HsmFunction(t)
      BY <2>1 DEF HsmIInv, HsmTypeOK, HsmFunction, HsmRestart, Levels
    <2>2. CASE HsmOperand(t)
      <3>1. chunk_stack' \in Seq(Seq(Text))
        BY <2>2 DEF HsmIInv, HsmTypeOK, HsmOperand
      <3> QED
        BY <2>2, <3>1 DEF HsmIInv, HsmTypeOK, HsmOperand
    <2>3. CASE HsmOperator(t)
      BY <2>3 DEF HsmIInv, HsmTypeOK, HsmOperator
    <2>4. CASE UNCHANGED <<hsm_read_state, operators, operands, n1, n2, chunk_stack>>
      BY <2>4 DEF HsmIInv, HsmTypeOK
    <2> QED
      BY <2>1, <2>2, <2>3, <2>4 DEF event_startElement_hsm
  <1>4. Len(chunk_stack') = IF t = "expr" THEN Len(chunk_stack) + 1 ELSE Len(chunk_stack)
    BY DEF HsmIInv, HsmTypeOK, event_startElement_hsm, HsmFunction, HsmOperand, HsmOperator
  <1> QED
    BY <1>1, <1>2, <1>3, <1>4 DEF HsmIInv

(* An element ends: an expression has a chunk to give up over that of the  *)
(* operator, and the text of an expression or operator joins the sets.     *)
LEMMA HsmElementEnds ==
    ASSUME HsmIInv, NEW t \in Tags, SaxEndElement(t), event_endElement_hsm(t)
    PROVE  HsmIInv'
  <1>1. /\ SaxTypeOK' /\ StreamShape'
        /\ phase = "unit" /\ phase' = "unit"
    BY EndKeepsOpen DEF HsmIInv, SaxEndElement
  <1>2. /\ OpenCount("expr")' \in Nat
        /\ OpenCount("expr") = IF t = "expr" THEN OpenCount("expr")' + 1 ELSE OpenCount("expr")'
    BY OneCloses, OpenLeft DEF HsmIInv
  <1>3. /\ chunk_stack \in Seq(Seq(Text)) /\ Len(chunk_stack) = 1 + OpenCount("expr")
        /\ Len(chunk_stack) \in Nat /\ Len(chunk_stack) > 0
        /\ t = "expr" => Len(chunk_stack) > 1
    BY <1>1, <1>2 DEF HsmIInv, HsmTypeOK
  <1>4. Head(chunk_stack) \in Seq(Text) /\ Last(chunk_stack) \in Seq(Text)
    BY <1>3 DEF Last
  <1>5. /\ chunk_stack' \in Seq(Seq(Text))
        /\ Len(chunk_stack') = IF t = "expr" THEN Len(chunk_stack) - 1 ELSE Len(chunk_stack)
    <2>1. CASE HsmOperandEnds(t)
      BY <1>3, <2>1 DEF HsmOperandEnds, Front
    <2>2. CASE HsmOperatorEnds(t)
      <3>1. <<>> \in Seq(Text)
        OBVIOUS
      <3> QED
        BY <1>3, <2>2, <3>1 DEF HsmOperatorEnds
    <2>3. CASE t \notin {"expr", "operator"} /\ UNCHANGED chunk_stack
      BY <1>3, <2>3
    <2> QED
      BY <2>1, <2>2, <2>3 DEF event_endElement_hsm, HsmFunctionEnds
  <1>6. HsmTypeOK'
    <2>1. CASE HsmFunctionEnds(t)
      BY <1>5, <2>1 DEF HsmIInv, HsmTypeOK, HsmFunctionEnds, event_endElement_hsm
    <2>2. CASE HsmOperandEnds(t)
      BY <1>4, <1>5, <2>2 DEF HsmIInv, HsmTypeOK, HsmOperandEnds, event_endElement_hsm
    <2>3. CASE HsmOperatorEnds(t)
      BY <1>4, <1>5, <2>3 DEF HsmIInv, HsmTypeOK, HsmOperatorEnds, event_endElement_hsm
    <2>4. CASE UNCHANGED <<hsm_read_state, operators, operands, chunk_stack>>
      BY <1>5, <2>4 DEF HsmIInv, HsmTypeOK, event_endElement_hsm
    <2> QED
      BY <2>1, <2>2, <2>3, <2>4 DEF event_endElement_hsm
  <1> QED
    BY <1>1, <1>2, <1>3, <1>5, <1>6 DEF HsmIInv

(* Characters go to chunks and make no new one.                            *)
LEMMA HsmCharacter ==
    ASSUME HsmIInv, NEW ch \in Text, SaxCharacters(ch), event_charactersUnit_hsm(ch)
    PROVE  /\ HsmIInv'
           /\ chunk_stack # <<>> =>
                 chunk_stack'[1] = IF hsm_read_state = "READING_OPERATOR"
                                   THEN Append(chunk_stack[1], ch) ELSE chunk_stack[1]
  <1>1. /\ SaxTypeOK' /\ StreamShape' /\ OpenCount("expr")' = OpenCount("expr")
        /\ phase' = phase
    BY CharactersKeepOpen, SameCount DEF HsmIInv, SaxCharacters
  <1>2. chunk_stack \in Seq(Seq(Text)) /\ DOMAIN chunk_stack = 1..Len(chunk_stack)
    BY DEF HsmIInv, HsmTypeOK
  <1>3. \A k \in 1..Len(chunk_stack) : chunk_stack[k] \in Seq(Text)
                                        /\ Append(chunk_stack[k], ch) \in Seq(Text)
    BY <1>2
  <1> DEFINE grown(k) == IF k > 1 \/ hsm_read_state = "READING_OPERATOR"
                         THEN Append(chunk_stack[k], ch) ELSE chunk_stack[k]
  <1>4. \A k \in 1..Len(chunk_stack) : grown(k) \in Seq(Text)
    BY <1>3
  <1>5. chunk_stack' = [k \in 1..Len(chunk_stack) |-> grown(k)]
    BY <1>2 DEF event_charactersUnit_hsm
  <1>6. chunk_stack # <<>> =>
            chunk_stack'[1] = IF hsm_read_state = "READING_OPERATOR"
                              THEN Append(chunk_stack[1], ch) ELSE chunk_stack[1]
    BY <1>2, <1>5
  <1> HIDE DEF grown
  <1>7. chunk_stack' \in Seq(Seq(Text)) /\ Len(chunk_stack') = Len(chunk_stack)
    BY <1>2, <1>4, <1>5
  <1> QED
    BY <1>1, <1>6, <1>7 DEF HsmIInv, HsmTypeOK, event_charactersUnit_hsm

(* The invariant is inductive.                                             *)
LEMMA HsmStep == HsmIInv /\ [HsmNext]_<<vars, hsmVars>> => HsmIInv'
  <1> SUFFICES ASSUME HsmIInv, [HsmNext]_<<vars, hsmVars>> PROVE HsmIInv'
    OBVIOUS
  <1>1. SaxTypeOK /\ StreamShape /\ HsmTypeOK
    BY DEF HsmIInv
  <1>2. ASSUME NEW from, NEW to \in Phases, SaxMove(from, to), from # "unit", to # "unit",
               HsmTypeOK', chunk_stack' = chunk_stack, phase # "start"
        PROVE  HsmIInv'
    <2>1. SaxTypeOK' /\ StreamShape' /\ open' = open
      BY <1>1, <1>2, MoveKeepsShape DEF SaxMove
    <2>2. OpenCount("expr")' = OpenCount("expr")
      BY <2>1 DEF OpenCount, OpenOf
    <2> QED
      BY <1>2, <2>1, <2>2 DEF HsmIInv
  <1>3. CASE event_startDocument /\ event_startDocument_hsm
    <2>1. SaxMove("start", "document") /\ "document" \in Phases
      BY <1>3 DEF event_startDocument, SaxStartDocument, Phases
    <2>2. SaxTypeOK' /\ StreamShape' /\ phase' = "document"
      BY <1>1, <2>1, MoveKeepsShape DEF SaxMove
    <2>3. OpenCount("expr")' = 0
      BY <2>2, FS_EmptySet DEF StreamShape, OpenCount, OpenOf
    <2>4. chunk_stack' = << <<>> >> /\ <<>> \in Seq(Text)
      BY <1>3 DEF event_startDocument_hsm
    <2>5. chunk_stack' \in Seq(Seq(Text)) /\ Len(chunk_stack') = 1
      BY <2>4
    <2> QED
      BY <1>1, <1>3, <2>2, <2>3, <2>5 DEF HsmIInv, HsmTypeOK, event_startDocument_hsm, Levels
  <1>4. CASE event_startRoot /\ UNCHANGED hsmVars
    BY <1>1, <1>2, <1>4
    DEF event_startRoot, SaxStartRoot, SaxMove, Phases, HsmTypeOK, hsmVars
  <1>5. ASSUME NEW filename \in Filenames, event_startUnit(filename), event_startUnit_hsm
        PROVE  HsmIInv'
    <2>1. SaxStartUnit /\ phase = "root"
      BY <1>5 DEF event_startUnit, SaxStartUnit
    <2>2. SaxTypeOK' /\ StreamShape' /\ OpenCount("expr") = 0 /\ OpenCount("expr")' = 0
      BY <1>1, <2>1, UnitOpens, NoneAtEnds
    <2>3. HsmTypeOK' /\ chunk_stack' = chunk_stack
      BY <1>1, <1>5 DEF HsmTypeOK, event_startUnit_hsm, HsmRestart, Levels
    <2> QED
      BY <2>1, <2>2, <2>3 DEF HsmIInv
  <1>6. ASSUME NEW t \in Tags, event_startElement(t), event_startElement_hsm(t)
        PROVE  HsmIInv'
    BY <1>6, HsmElementStarts DEF event_startElement
  <1>7. ASSUME NEW t \in Tags, event_endElement(t), event_endElement_hsm(t)
        PROVE  HsmIInv'
    BY <1>7, HsmElementEnds DEF event_endElement
  <1>8. ASSUME NEW ch \in Text, event_charactersUnit(ch), event_charactersUnit_hsm(ch)
        PROVE  HsmIInv'
    BY <1>8, HsmCharacter DEF event_charactersUnit
  <1>9. CASE event_endUnit /\ event_endUnit_hsm
    <2>1. SaxEndUnit /\ phase = "unit"
      BY <1>9 DEF event_endUnit, SaxEndUnit
    <2>2. SaxTypeOK' /\ StreamShape' /\ OpenCount("expr") = 0 /\ OpenCount("expr")' = 0
      BY <1>1, <2>1, UnitCloses, NoneAtEnds
    <2>3. HsmTypeOK' /\ chunk_stack' = chunk_stack
      BY <1>1, <1>9 DEF HsmTypeOK, event_endUnit_hsm
    <2> QED
      BY <2>1, <2>2, <2>3 DEF HsmIInv
  <1>10. CASE event_endRoot /\ UNCHANGED hsmVars
    BY <1>1, <1>2, <1>10 DEF event_endRoot, SaxEndRoot, SaxMove, Phases, HsmTypeOK, hsmVars
  <1>11. CASE event_endDocument /\ event_endDocument_hsm
    BY <1>1, <1>2, <1>11
    DEF event_endDocument, SaxEndDocument, SaxMove, Phases, HsmTypeOK, event_endDocument_hsm
  <1>12. CASE UNCHANGED <<vars, hsmVars>>
    BY <1>12 DEF HsmIInv, HsmTypeOK, SaxTypeOK, StreamShape, OpenCount, OpenOf, vars,
                 saxVars, hsmVars
  <1> QED
    BY <1>3, <1>4, <1>5, <1>6, <1>7, <1>8, <1>9, <1>10, <1>11, <1>12 DEF HsmNext

(* The invariant holds of every run.                                       *)
LEMMA HsmInvariance == HsmSpec => []HsmIInv
  <1>1. HsmSystemInit => HsmIInv
    BY DEF HsmSystemInit, Init, SaxInit, HsmInit, HsmIInv, SaxTypeOK, StreamShape, Phases,
           HsmTypeOK, Levels
  <1> QED
    BY <1>1, HsmStep, PTL DEF HsmSpec

(* HSM's state keeps its types: the sets hold texts, the counters numbers. *)
THEOREM HsmTypeCorrect == HsmSpec => []HsmTypeOK
  <1>1. HsmIInv => HsmTypeOK
    BY DEF HsmIInv
  <1> QED
    BY HsmInvariance, <1>1, PTL

(* Expressions may nest as they like: no end of one finds the stack empty  *)
(* or takes the operator's chunk.                                          *)
THEOREM StackHoldsExprs == HsmSpec => []StackFollowsExprs
  <1>1. HsmIInv => StackFollowsExprs
    BY DEF HsmIInv, StackFollowsExprs, OpenCount
  <1> QED
    BY HsmInvariance, <1>1, PTL

-----------------------------------------------------------------------------
(* HSM: the text of an operator.                                           *)

(* The lowest chunk is the open operator's.                                *)
HsmReads ==
    /\ OperatorInnermost
    /\ hsm_read_state = "READING_OPERATOR" <=> ReadsOperator
    /\ phase # "start" => chunk_stack[1] = OperatorText

(* Operands come and go over the operator's chunk, which takes the         *)
(* operator's characters and is empty again after it.                      *)
LEMMA HsmReadsStep ==
    OperatorsAreLeaves /\ HsmIInv /\ HsmReads /\ [HsmNext]_<<vars, hsmVars>> => HsmReads'
  <1> SUFFICES ASSUME OperatorsAreLeaves, HsmIInv, HsmReads, [HsmNext]_<<vars, hsmVars>>
               PROVE  HsmReads'
    OBVIOUS
  <1>1. SaxTypeOK /\ StreamShape /\ OperatorInnermost
    BY DEF HsmIInv, HsmReads
  <1>2. HsmIInv'
    BY HsmStep
  <1>3. ASSUME phase = "unit"
        PROVE  chunk_stack \in Seq(Seq(Text)) /\ Len(chunk_stack) \in Nat /\ Len(chunk_stack) > 0
    <2>1. OpenCount("expr") \in Nat
      BY <1>1, OpenFinite
    <2> QED
      BY <1>3, <2>1 DEF HsmIInv, HsmTypeOK
  <1>4. ASSUME NEW t \in Tags, event_startElement(t), event_startElement_hsm(t)
        PROVE  HsmReads'
    <2>1. SaxStartElement(t) /\ phase = "unit"
      BY <1>4 DEF event_startElement, SaxStartElement
    <2>2. /\ OperatorInnermost'
          /\ ~ReadsOperator /\ OperatorText = <<>>
          /\ ReadsOperator' <=> t = "operator"
          /\ OperatorText' = <<>>
      BY <1>1, <2>1, OperatorStarts
    <2>3. chunk_stack'[1] = chunk_stack[1]
      BY SMTT(30), <1>3, <1>4, <2>1
      DEF event_startElement_hsm, HsmFunction, HsmOperand, HsmOperator
    <2>4. hsm_read_state' = "READING_OPERATOR" <=> t = "operator"
      BY <1>4, <2>2
      DEF HsmReads, event_startElement_hsm, HsmFunction, HsmOperand, HsmOperator
    <2> QED
      BY <2>1, <2>2, <2>3, <2>4 DEF HsmReads
  <1>5. ASSUME NEW t \in Tags, event_endElement(t), event_endElement_hsm(t)
        PROVE  HsmReads'
    <2>1. SaxEndElement(t) /\ phase = "unit"
      BY <1>5 DEF event_endElement, SaxEndElement
    <2>2. /\ OperatorInnermost'
          /\ ReadsOperator <=> t = "operator"
          /\ ~ReadsOperator' /\ OperatorText' = <<>>
      BY <1>1, <2>1, OperatorEnds
    <2>3. chunk_stack'[1] = <<>>
      <3>1. CASE HsmOperandEnds(t)
        <4>1. OpenCount("expr") = OpenCount("expr")' + 1 /\ OpenCount("expr")' \in Nat
          BY <1>1, <2>1, <3>1, OneCloses, OpenLeft DEF HsmOperandEnds
        <4>2. Len(chunk_stack) > 1
          BY <1>3, <2>1, <4>1 DEF HsmIInv
        <4> QED
          BY <1>3, <2>1, <2>2, <3>1, <4>2 DEF HsmReads, HsmOperandEnds, Front, OperatorText
      <3>2. CASE HsmOperatorEnds(t)
        BY <1>3, <2>1, <3>2 DEF HsmOperatorEnds
      <3>3. CASE t # "operator" /\ UNCHANGED chunk_stack
        BY <2>1, <2>2, <3>3 DEF HsmReads, OperatorText
      <3> QED
        BY <1>5, <3>1, <3>2, <3>3 DEF event_endElement_hsm, HsmFunctionEnds
    <2>4. hsm_read_state' # "READING_OPERATOR"
      BY <1>5, <2>2 DEF HsmReads, event_endElement_hsm, HsmFunctionEnds, HsmOperandEnds,
                        HsmOperatorEnds
    <2> QED
      BY <2>2, <2>3, <2>4 DEF HsmReads
  <1>6. ASSUME NEW ch \in Text, event_charactersUnit(ch), event_charactersUnit_hsm(ch)
        PROVE  HsmReads'
    <2>1. SaxCharacters(ch) /\ phase = "unit"
      BY <1>6 DEF event_charactersUnit, SaxCharacters
    <2>2. /\ OperatorInnermost'
          /\ ReadsOperator' <=> ReadsOperator
          /\ OperatorText' = IF ReadsOperator THEN Append(OperatorText, ch) ELSE OperatorText
      BY <1>1, <2>1, OperatorGrows
    <2>3. chunk_stack'[1] = IF hsm_read_state = "READING_OPERATOR"
                            THEN Append(chunk_stack[1], ch) ELSE chunk_stack[1]
      BY <1>3, <1>6, <2>1, HsmCharacter
    <2>4. hsm_read_state' = hsm_read_state
      BY <1>6 DEF event_charactersUnit_hsm
    <2> QED
      BY <2>1, <2>2, <2>3, <2>4 DEF HsmReads
  <1>7. ASSUME phase # "unit" \/ SaxEndUnit, phase' # "unit" \/ SaxStartUnit, phase' # "start",
               hsm_read_state' = hsm_read_state \/ hsm_read_state' = "WAITING",
               (chunk_stack' = chunk_stack /\ phase # "start") \/ chunk_stack' = << <<>> >>
        PROVE  HsmReads'
    <2>1. ~ReadsOperator /\ OperatorText = <<>>
      BY <1>1, <1>7, NoOperator
    <2>2. OperatorInnermost' /\ ~ReadsOperator' /\ OperatorText' = <<>>
      <3>1. CASE SaxStartUnit
        BY <1>1, <3>1, NoOperator
      <3>2. CASE phase' # "unit"
        BY <1>2, <3>2 DEF HsmIInv, StreamShape, OperatorInnermost, ReadsOperator, OperatorText
      <3> QED
        BY <1>7, <3>1, <3>2
    <2> QED
      BY <1>7, <2>1, <2>2 DEF HsmReads
  <1>8. CASE UNCHANGED <<vars, hsmVars>>
    BY <1>8 DEF HsmReads, OperatorInnermost, ReadsOperator, OperatorText, Top, vars,
                saxVars, hsmVars
  <1>9. ASSUME NEW filename, event_startUnit(filename), event_startUnit_hsm PROVE HsmReads'
    BY <1>7, <1>9 DEF event_startUnit, SaxStartUnit, event_startUnit_hsm
  <1>10. CASE event_startDocument /\ event_startDocument_hsm
    BY <1>7, <1>10 DEF event_startDocument, SaxStartDocument, SaxMove, event_startDocument_hsm
  <1>11. CASE event_startRoot /\ UNCHANGED hsmVars
    BY <1>7, <1>11 DEF event_startRoot, SaxStartRoot, SaxMove, hsmVars
  <1>12. CASE event_endUnit /\ event_endUnit_hsm
    BY <1>7, <1>12 DEF event_endUnit, SaxEndUnit, event_endUnit_hsm
  <1>13. CASE event_endRoot /\ UNCHANGED hsmVars
    BY <1>7, <1>13 DEF event_endRoot, SaxEndRoot, SaxMove, hsmVars
  <1>14. CASE event_endDocument /\ event_endDocument_hsm
    BY <1>7, <1>14 DEF event_endDocument, SaxEndDocument, SaxMove, event_endDocument_hsm
  <1> QED
    BY <1>4, <1>5, <1>6, <1>8, <1>9, <1>10, <1>11, <1>12, <1>13, <1>14 DEF HsmNext

(* HSM's operators are the texts of the operator elements, however many    *)
(* pieces these come in and whatever operands are open around them.        *)
THEOREM OperatorTextsExact == OperatorsAreLeaves /\ HsmSpec => []OperatorTextExact
  <1>1. HsmSystemInit => HsmReads
    BY DEF HsmSystemInit, Init, SaxInit, HsmInit, HsmReads, OperatorInnermost, ReadsOperator
  <1>2. HsmIInv /\ HsmReads => OperatorTextExact
    <2>1. SUFFICES ASSUME HsmIInv, HsmReads, phase # "start"
                   PROVE  Head(chunk_stack) = OperatorText
      BY DEF OperatorTextExact, OperatorText, ReadsOperator
    <2>2. OpenCount("expr") \in Nat
      BY <2>1, OpenFinite DEF HsmIInv
    <2>3. chunk_stack \in Seq(Seq(Text)) /\ Len(chunk_stack) > 0
      BY <2>1, <2>2 DEF HsmIInv, HsmTypeOK
    <2> QED
      BY <2>1, <2>3 DEF HsmReads
  <1>3. OperatorsAreLeaves /\ HsmSpec => []HsmReads
    <2>1. SUFFICES ASSUME OperatorsAreLeaves PROVE HsmSpec => []HsmReads
      OBVIOUS
    <2>2. HsmIInv /\ HsmReads /\ [HsmNext]_<<vars, hsmVars>> => HsmReads'
      BY <2>1, HsmReadsStep
    <2> QED
      BY <1>1, <2>2, HsmInvariance, PTL DEF HsmSpec
  <1> QED
    BY <1>2, <1>3, HsmInvariance, PTL
-----------------------------------------------------------------------------
(* HSM: the levels.                                                        *)

(* What a level has, the other has.                                        *)
Within(l, m) ==
    /\ operators[l] \subseteq operators[m] /\ operands[l] \subseteq operands[m]
    /\ n1[l] <= n1[m] /\ n2[l] <= n2[m]

(* A level has at most one text for each token that ended.                 *)
TextsBound(l) ==
    /\ Cardinality(operators[l]) + OpenCount("operator") <= n1[l]
    /\ Cardinality(operands[l]) + OpenCount("expr") <= n2[l]

(* The document's level goes from one unit to the next, so that what is    *)
(* said of it must hold outside units too.                                 *)
LevelsIInv ==
    /\ \A l \in Levels : IsFiniteSet(operators[l]) /\ IsFiniteSet(operands[l])
    /\ TextsBound("UNIT") /\ TextsBound("OVERALL")
    /\ units = 0 => /\ phase # "unit"
                    /\ operators["OVERALL"] = {} /\ operands["OVERALL"] = {}
                    /\ n1["OVERALL"] = 0 /\ n2["OVERALL"] = 0
    /\ phase = "unit" => /\ Within("UNIT", "OVERALL")
                         /\ units = 1 => Within("OVERALL", "UNIT")
    /\ "function" \in OpenTags => Within("FN", "UNIT")

(* HSM sees the runs of the dispatcher.                                    *)
LEMMA HsmRunsDispatcher == HsmSpec => Spec
  <1>1. HsmSystemInit => Init
    BY DEF HsmSystemInit
  <1>2. [HsmNext]_<<vars, hsmVars>> => [Next]_vars
    BY DEF HsmNext, Next
  <1> QED
    BY <1>1, <1>2, PTL DEF HsmSpec, Spec

(* Inside a unit, all that is counted is counted for the unit and for the  *)
(* document.                                                               *)
LEMMA UnitIsCurrent == IInv /\ phase = "unit" => {"UNIT", "OVERALL"} \subseteq Current
  BY DEF IInv, UnitHasId, Current

(* The texts of a level can be counted.                                    *)
LEMMA TextsFinite ==
    ASSUME HsmTypeOK, LevelsIInv, NEW l \in Levels
    PROVE  /\ Cardinality(operators[l]) \in Nat /\ Cardinality(operands[l]) \in Nat
           /\ n1[l] \in Nat /\ n2[l] \in Nat
  BY FS_CardinalityType DEF LevelsIInv, HsmTypeOK

(* An element starts.                                                      *)
LEMMA LevelsStart ==
    ASSUME IInv, HsmIInv, LevelsIInv, NEW t \in Tags, SaxStartElement(t),
           event_startElement_hsm(t)
    PROVE  LevelsIInv'
  <1>1. /\ SaxTypeOK /\ StreamShape /\ HsmTypeOK
        /\ phase = "unit" /\ phase' = "unit" /\ units' = units
    BY DEF HsmIInv, SaxStartElement
  <1>2. /\ OpenTags' = OpenTags \cup {t}
        /\ \A tag \in {"operator", "expr"} :
              /\ OpenCount(tag) \in Nat
              /\ OpenCount(tag)' = IF t = tag THEN OpenCount(tag) + 1 ELSE OpenCount(tag)
    BY <1>1, OpenedTag, OneOpens, OpenFinite
  <1>3. /\ \A l \in Levels : /\ Cardinality(operators[l]) \in Nat
                             /\ Cardinality(operands[l]) \in Nat
                             /\ n1[l] \in Nat /\ n2[l] \in Nat
        /\ {operators, operands} \subseteq [Levels -> SUBSET Seq(Text)]
        /\ {n1, n2} \subseteq [Levels -> Nat]
    BY <1>1, TextsFinite DEF HsmTypeOK
  <1>4. /\ "UNIT" \in Current /\ "OVERALL" \in Current
        /\ "UNIT" \in Levels /\ "OVERALL" \in Levels /\ "FN" \in Levels
    BY <1>1, UnitIsCurrent DEF Levels
  <1>5. CASE HsmFunction(t)
    <2>1. /\ operators' = [operators EXCEPT !["FN"] = {}]
          /\ operands' = [operands EXCEPT !["FN"] = {}]
          /\ n1' = [n1 EXCEPT !["FN"] = 0] /\ n2' = [n2 EXCEPT !["FN"] = 0]
          /\ t = "function"
      BY <1>5 DEF HsmFunction, HsmRestart
    <2>2. \A l \in {"UNIT", "OVERALL"} :
              /\ operators'[l] = operators[l] /\ operands'[l] = operands[l]
              /\ n1'[l] = n1[l] /\ n2'[l] = n2[l]
      BY <1>3, <1>4, <2>1
    <2>3. /\ operators'["FN"] = {} /\ operands'["FN"] = {}
          /\ n1'["FN"] = 0 /\ n2'["FN"] = 0
      BY <1>3, <1>4, <2>1
    <2>4. \A l \in Levels : IsFiniteSet(operators'[l]) /\ IsFiniteSet(operands'[l])
      BY <2>2, <2>3, FS_EmptySet DEF LevelsIInv, Levels
    <2>5. Within("FN", "UNIT")'
      BY <1>3, <1>4, <2>2, <2>3 DEF Within
    <2> QED
      BY <1>1, <1>2, <2>1, <2>2, <2>4, <2>5 DEF LevelsIInv, TextsBound, Within
  <1>6. CASE /\ operators' = operators /\ operands' = operands /\ t # "function"
             /\ \A l \in {"UNIT", "OVERALL"} :
                   /\ n1'[l] = IF t = "operator" THEN n1[l] + 1 ELSE n1[l]
                   /\ n2'[l] = IF t = "expr" THEN n2[l] + 1 ELSE n2[l]
             /\ n1'["FN"] = n1["FN"] \/ (t = "operator" /\ n1'["FN"] = n1["FN"] + 1)
             /\ n2'["FN"] = n2["FN"] \/ (t = "expr" /\ n2'["FN"] = n2["FN"] + 1)
    <2>1. TextsBound("UNIT")' /\ TextsBound("OVERALL")'
      <3>1. ASSUME NEW l \in {"UNIT", "OVERALL"} PROVE TextsBound(l)'
        <4>1. /\ Cardinality(operators[l]) + OpenCount("operator") <= n1[l]
              /\ Cardinality(operands[l]) + OpenCount("expr") <= n2[l]
          BY DEF LevelsIInv, TextsBound
        <4>2. /\ Cardinality(operators[l]) \in Nat /\ Cardinality(operands[l]) \in Nat
              /\ n1[l] \in Nat /\ n2[l] \in Nat
          BY <1>3, <1>4
        <4>3. Cardinality(operators'[l]) + OpenCount("operator")' <= n1'[l]
          BY <1>2, <1>6, <4>1, <4>2
        <4>4. Cardinality(operands'[l]) + OpenCount("expr")' <= n2'[l]
          BY <1>2, <1>6, <4>1, <4>2
        <4> QED
          BY <4>3, <4>4 DEF TextsBound
      <3> QED
        BY <3>1
    <2>2. Within("UNIT", "OVERALL")' /\ (units = 1 => Within("OVERALL", "UNIT")')
      BY <1>1, <1>3, <1>4, <1>6 DEF LevelsIInv, Within
    <2>3. "function" \in OpenTags' => Within("FN", "UNIT")'
      BY SMTT(30), <1>2, <1>3, <1>4, <1>6 DEF LevelsIInv, Within
    <2> QED
      BY <1>1, <1>6, <2>1, <2>2, <2>3 DEF LevelsIInv
  <1>7. CASE HsmOperand(t)
    <2>1. /\ n2' = [l \in Levels |-> IF l \in Current THEN n2[l] + 1 ELSE n2[l]]
          /\ UNCHANGED <<operators, operands, n1>> /\ t = "expr"
      BY <1>7 DEF HsmOperand
    <2> QED
      BY <1>4, <1>6, <2>1
  <1>8. CASE HsmOperator(t)
    <2>1. /\ n1' = [l \in Levels |-> IF l \in Current THEN n1[l] + 1 ELSE n1[l]]
          /\ UNCHANGED <<operators, operands, n2>> /\ t = "operator"
      BY <1>8 DEF HsmOperator
    <2> QED
      BY <1>4, <1>6, <2>1
  <1>9. CASE /\ t \notin {"function", "expr", "operator"}
             /\ UNCHANGED <<operators, operands, n1, n2>>
    BY <1>6, <1>9
  <1> QED
    BY <1>5, <1>7, <1>8, <1>9 DEF event_startElement_hsm

(* One text more is one at most.                                           *)
LEMMA OneMoreText ==
    ASSUME NEW S, IsFiniteSet(S), NEW x
    PROVE  /\ IsFiniteSet(S \cup {x}) /\ Cardinality(S) \in Nat
           /\ Cardinality(S \cup {x}) \in Nat
           /\ Cardinality(S \cup {x}) <= Cardinality(S) + 1
  BY FS_AddElement, FS_CardinalityType

(* An element ends.                                                        *)
LEMMA LevelsEnd ==
    ASSUME IInv, HsmIInv, LevelsIInv, NEW t \in Tags, SaxEndElement(t),
           event_endElement_hsm(t)
    PROVE  LevelsIInv'
  <1>1. /\ SaxTypeOK /\ StreamShape /\ HsmTypeOK
        /\ phase = "unit" /\ phase' = "unit" /\ units' = units
    BY DEF HsmIInv, SaxEndElement
  <1>2. /\ OpenTags' \subseteq OpenTags
        /\ \A tag \in {"operator", "expr"} :
              /\ OpenCount(tag)' \in Nat
              /\ OpenCount(tag) = IF t = tag THEN OpenCount(tag)' + 1 ELSE OpenCount(tag)'
    BY <1>1, ClosedTag, OneCloses, OpenLeft
  <1>3. /\ \A l \in Levels : /\ Cardinality(operators[l]) \in Nat
                             /\ Cardinality(operands[l]) \in Nat
                             /\ n1[l] \in Nat /\ n2[l] \in Nat
        /\ n1' = n1 /\ n2' = n2
    BY <1>1, TextsFinite DEF event_endElement_hsm
  <1>4. /\ "UNIT" \in Current /\ "OVERALL" \in Current
        /\ "UNIT" \in Levels /\ "OVERALL" \in Levels /\ "FN" \in Levels
    BY <1>1, UnitIsCurrent DEF Levels
  <1>5. CASE HsmOperandEnds(t)
    <2> DEFINE x == Last(chunk_stack)
    <2>1. /\ operators' = operators /\ t = "expr"
          /\ operands' = [l \in Levels |-> IF l \in Current THEN operands[l] \cup {x}
                                           ELSE operands[l]]
      BY <1>5 DEF HsmOperandEnds
    <2> HIDE DEF x
    <2>2. /\ operands'["UNIT"] = operands["UNIT"] \cup {x}
          /\ operands'["OVERALL"] = operands["OVERALL"] \cup {x}
          /\ operands'["FN"] \in {operands["FN"] \cup {x}, operands["FN"]}
          /\ \A l \in Levels : operands'[l] \in {operands[l] \cup {x}, operands[l]}
      BY <1>4, <2>1
    <2>3. ASSUME NEW l \in Levels PROVE IsFiniteSet(operands'[l])
      <3>1. IsFiniteSet(operands[l])
        BY DEF LevelsIInv
      <3>2. IsFiniteSet(operands[l] \cup {x})
        BY <3>1, OneMoreText
      <3> QED
        BY <2>2, <3>1, <3>2
    <2>4. \A l \in {"UNIT", "OVERALL"} :
              /\ Cardinality(operands'[l]) \in Nat
              /\ Cardinality(operands'[l]) <= Cardinality(operands[l]) + 1
      BY <1>4, <2>2, OneMoreText DEF LevelsIInv
    <2>5. TextsBound("UNIT")' /\ TextsBound("OVERALL")'
      BY <1>2, <1>3, <1>4, <2>1, <2>4 DEF LevelsIInv, TextsBound
    <2>6. /\ Within("UNIT", "OVERALL")' /\ (units = 1 => Within("OVERALL", "UNIT")')
          /\ "function" \in OpenTags' => Within("FN", "UNIT")'
      BY <1>1, <1>2, <1>3, <2>1, <2>2 DEF LevelsIInv, Within
    <2>7. units # 0
      BY <1>1 DEF LevelsIInv
    <2> QED
      BY <1>1, <2>1, <2>3, <2>5, <2>6, <2>7 DEF LevelsIInv
  <1>6. CASE HsmOperatorEnds(t)
    <2> DEFINE x == Head(chunk_stack)
    <2>1. /\ operands' = operands /\ t = "operator"
          /\ operators' = [l \in Levels |-> IF l \in Current THEN operators[l] \cup {x}
                                            ELSE operators[l]]
      BY <1>6 DEF HsmOperatorEnds
    <2> HIDE DEF x
    <2>2. /\ operators'["UNIT"] = operators["UNIT"] \cup {x}
          /\ operators'["OVERALL"] = operators["OVERALL"] \cup {x}
          /\ operators'["FN"] \in {operators["FN"] \cup {x}, operators["FN"]}
          /\ \A l \in Levels : operators'[l] \in {operators[l] \cup {x}, operators[l]}
      BY <1>4, <2>1
    <2>3. ASSUME NEW l \in Levels PROVE IsFiniteSet(operators'[l])
      <3>1. IsFiniteSet(operators[l])
        BY DEF LevelsIInv
      <3>2. IsFiniteSet(operators[l] \cup {x})
        BY <3>1, OneMoreText
      <3> QED
        BY <2>2, <3>1, <3>2
    <2>4. \A l \in {"UNIT", "OVERALL"} :
              /\ Cardinality(operators'[l]) \in Nat
              /\ Cardinality(operators'[l]) <= Cardinality(operators[l]) + 1
      BY <1>4, <2>2, OneMoreText DEF LevelsIInv
    <2>5. TextsBound("UNIT")' /\ TextsBound("OVERALL")'
      BY <1>2, <1>3, <1>4, <2>1, <2>4 DEF LevelsIInv, TextsBound
    <2>6. /\ Within("UNIT", "OVERALL")' /\ (units = 1 => Within("OVERALL", "UNIT")')
          /\ "function" \in OpenTags' => Within("FN", "UNIT")'
      BY <1>1, <1>2, <1>3, <2>1, <2>2 DEF LevelsIInv, Within
    <2>7. units # 0
      BY <1>1 DEF LevelsIInv
    <2> QED
      BY <1>1, <2>1, <2>3, <2>5, <2>6, <2>7 DEF LevelsIInv
  <1>7. CASE t \notin {"expr", "operator"} /\ UNCHANGED <<operators, operands>>
    <2>1. OpenCount("operator")' = OpenCount("operator") /\ OpenCount("expr")' = OpenCount("expr")
      BY <1>2, <1>7
    <2> QED
      BY <1>1, <1>2, <1>3, <1>7, <2>1 DEF LevelsIInv, TextsBound, Within
  <1> QED
    BY <1>5, <1>6, <1>7 DEF event_endElement_hsm, HsmFunctionEnds

(* Steps that count nothing and open or close no element.                  *)
LEMMA LevelsStay ==
    ASSUME LevelsIInv, UNCHANGED <<operators, operands, n1, n2>>,
           OpenCount("operator")' = OpenCount("operator"), OpenCount("expr")' = OpenCount("expr"),
           OpenTags' \subseteq OpenTags, phase' = "unit" => phase = "unit", units' = units
    PROVE  LevelsIInv'
  BY DEF LevelsIInv, TextsBound, Within

(* The document starts, with nothing counted.                              *)
LEMMA LevelsDocument ==
    ASSUME HsmIInv, LevelsIInv, event_startDocument, event_startDocument_hsm
    PROVE  LevelsIInv'
  <1>1. /\ StreamShape /\ phase = "start" /\ phase' = "document" /\ units' = units /\ open' = open
    BY DEF HsmIInv, event_startDocument, SaxStartDocument, SaxMove
  <1>2. /\ OpenCount("operator")' = 0 /\ OpenCount("expr")' = 0 /\ OpenTags' = {}
    <2>1. open' = <<>>
      BY <1>1 DEF StreamShape
    <2> QED
      BY <2>1, FS_EmptySet DEF OpenCount, OpenOf, OpenTags
  <1>3. /\ \A l \in Levels : operators'[l] = {} /\ operands'[l] = {}
        /\ n1' = [n1 EXCEPT !["OVERALL"] = 0] /\ n2' = [n2 EXCEPT !["OVERALL"] = 0]
        /\ {n1, n2} \subseteq [Levels -> Nat]
    BY DEF event_startDocument_hsm, HsmIInv, HsmTypeOK
  <1>4. /\ n1'["OVERALL"] = 0 /\ n2'["OVERALL"] = 0
        /\ n1'["UNIT"] \in Nat /\ n2'["UNIT"] \in Nat
        /\ "UNIT" \in Levels /\ "OVERALL" \in Levels
    BY <1>3 DEF Levels
  <1>5. IsFiniteSet({}) /\ Cardinality({}) = 0
    BY FS_EmptySet
  <1>6. TextsBound("UNIT")' /\ TextsBound("OVERALL")'
    <2>1. /\ Cardinality(operators'["UNIT"]) = 0 /\ Cardinality(operators'["OVERALL"]) = 0
          /\ Cardinality(operands'["UNIT"]) = 0 /\ Cardinality(operands'["OVERALL"]) = 0
      BY <1>3, <1>4, <1>5
    <2> QED
      BY <1>2, <1>4, <2>1 DEF TextsBound
  <1> QED
    BY <1>1, <1>2, <1>3, <1>4, <1>5, <1>6 DEF LevelsIInv

(* A unit starts, with nothing counted for it.                             *)
LEMMA LevelsUnit ==
    ASSUME HsmIInv, LevelsIInv, SaxStartUnit, event_startUnit_hsm
    PROVE  LevelsIInv'
  <1>1. /\ StreamShape /\ SaxTypeOK /\ phase = "root" /\ phase' = "unit" /\ units' = units + 1
        /\ units \in Nat
    BY DEF HsmIInv, SaxTypeOK, SaxStartUnit
  <1>2. /\ OpenCount("operator")' = 0 /\ OpenCount("expr")' = 0
        /\ OpenCount("operator") = 0 /\ OpenCount("expr") = 0
        /\ OpenTags' = {"unit"}
    BY <1>1, NoneAtEnds, NothingOpen
  <1>3. /\ operators' = [operators EXCEPT !["UNIT"] = {}]
        /\ operands' = [operands EXCEPT !["UNIT"] = {}]
        /\ n1' = [n1 EXCEPT !["UNIT"] = 0] /\ n2' = [n2 EXCEPT !["UNIT"] = 0]
        /\ {operators, operands} \subseteq [Levels -> SUBSET Seq(Text)]
        /\ {n1, n2} \subseteq [Levels -> Nat]
    BY DEF event_startUnit_hsm, HsmRestart, HsmIInv, HsmTypeOK
  <1>4. /\ operators'["UNIT"] = {} /\ operands'["UNIT"] = {}
        /\ n1'["UNIT"] = 0 /\ n2'["UNIT"] = 0
        /\ \A l \in {"FN", "OVERALL"} :
              /\ operators'[l] = operators[l] /\ operands'[l] = operands[l]
              /\ n1'[l] = n1[l] /\ n2'[l] = n2[l]
        /\ n1["OVERALL"] \in Nat /\ n2["OVERALL"] \in Nat
    BY <1>3 DEF Levels
  <1>5. IsFiniteSet({}) /\ Cardinality({}) = 0
    BY FS_EmptySet
  <1>6. TextsBound("UNIT")' /\ TextsBound("OVERALL")'
    BY <1>2, <1>4, <1>5 DEF LevelsIInv, TextsBound
  <1>7. Within("UNIT", "OVERALL")'
    BY <1>4 DEF Within
  <1>8. units' = 1 => Within("OVERALL", "UNIT")'
    BY <1>1, <1>4 DEF Within, LevelsIInv
  <1>9. \A l \in Levels : IsFiniteSet(operators'[l]) /\ IsFiniteSet(operands'[l])
    BY <1>4, <1>5 DEF LevelsIInv, Levels
  <1> QED
    BY <1>1, <1>2, <1>6, <1>7, <1>8, <1>9 DEF LevelsIInv

(* The invariant is inductive.                                             *)
LEMMA LevelsStep == IInv /\ HsmIInv /\ LevelsIInv /\ [HsmNext]_<<vars, hsmVars>> => LevelsIInv'
  <1> SUFFICES ASSUME IInv, HsmIInv, LevelsIInv, [HsmNext]_<<vars, hsmVars>>
               PROVE  LevelsIInv'
    OBVIOUS
  <1>1. SaxTypeOK /\ StreamShape
    BY DEF HsmIInv
  <1>2. ASSUME NEW from, NEW to, SaxMove(from, to), to # "unit",
               UNCHANGED <<operators, operands, n1, n2>>
        PROVE  LevelsIInv'
    BY <1>2, LevelsStay DEF SaxMove, OpenCount, OpenOf, OpenTags
  <1>3. ASSUME NEW t \in Tags, event_startElement(t), event_startElement_hsm(t)
        PROVE  LevelsIInv'
    BY <1>3, LevelsStart DEF event_startElement
  <1>4. ASSUME NEW t \in Tags, event_endElement(t), event_endElement_hsm(t)
        PROVE  LevelsIInv'
    BY <1>4, LevelsEnd DEF event_endElement
  <1>5. ASSUME NEW ch \in Text, event_charactersUnit(ch), event_charactersUnit_hsm(ch)
        PROVE  LevelsIInv'
    <2>1. SaxCharacters(ch) /\ UNCHANGED <<operators, operands, n1, n2>>
      BY <1>5 DEF event_charactersUnit, event_charactersUnit_hsm
    <2>2. /\ OpenCount("operator")' = OpenCount("operator")
          /\ OpenCount("expr")' = OpenCount("expr") /\ OpenTags' = OpenTags
      BY <1>1, <2>1, SameCount, SameTags
    <2> QED
      BY <2>1, <2>2, LevelsStay DEF SaxCharacters
  <1>6. ASSUME NEW filename, event_startUnit(filename), event_startUnit_hsm
        PROVE  LevelsIInv'
    BY <1>6, LevelsUnit DEF event_startUnit
  <1>7. CASE event_endUnit /\ event_endUnit_hsm
    <2>1. SaxEndUnit /\ UNCHANGED <<operators, operands, n1, n2>>
      BY <1>7 DEF event_endUnit, event_endUnit_hsm
    <2>2. /\ OpenCount("operator")' = OpenCount("operator")
          /\ OpenCount("expr")' = OpenCount("expr") /\ OpenTags' = {}
      BY <1>1, <2>1, NoneAtEnds, NothingOpen
    <2> QED
      BY <2>1, <2>2, LevelsStay DEF SaxEndUnit
  <1>8. CASE event_startDocument /\ event_startDocument_hsm
    BY <1>8, LevelsDocument
  <1>9. CASE event_startRoot /\ UNCHANGED hsmVars
    BY <1>2, <1>9 DEF event_startRoot, SaxStartRoot, hsmVars
  <1>10. CASE event_endRoot /\ UNCHANGED hsmVars
    BY <1>2, <1>10 DEF event_endRoot, SaxEndRoot, hsmVars
  <1>11. CASE event_endDocument /\ event_endDocument_hsm
    BY <1>2, <1>11 DEF event_endDocument, SaxEndDocument, event_endDocument_hsm
  <1>12. CASE UNCHANGED <<vars, hsmVars>>
    BY <1>12, LevelsStay DEF vars, saxVars, hsmVars, OpenCount, OpenOf, OpenTags
  <1> QED
    BY <1>3, <1>4, <1>5, <1>6, <1>7, <1>8, <1>9, <1>10, <1>11, <1>12 DEF HsmNext

(* What a function has, its unit has, and what a unit has, the document;   *)
(* no level has more texts than tokens; and one unit is all the document   *)
(* there is.                                                               *)
THEOREM LevelsFitTogether == HsmSpec => []HsmLevelsAgree
  <1>1. HsmSystemInit => LevelsIInv
    <2> SUFFICES ASSUME HsmSystemInit PROVE LevelsIInv
      OBVIOUS
    <2>1. /\ OpenCount("operator") = 0 /\ OpenCount("expr") = 0 /\ OpenTags = {}
      BY FS_EmptySet DEF HsmSystemInit, Init, SaxInit, OpenCount, OpenOf, OpenTags
    <2>2. \A l \in Levels : /\ operators[l] = {} /\ operands[l] = {}
                            /\ n1[l] = 0 /\ n2[l] = 0
      BY DEF HsmSystemInit, HsmInit
    <2>3. phase # "unit" /\ "UNIT" \in Levels /\ "OVERALL" \in Levels
      BY DEF HsmSystemInit, Init, SaxInit, Levels
    <2>4. IsFiniteSet({}) /\ Cardinality({}) = 0
      BY FS_EmptySet
    <2>5. /\ Cardinality(operators["UNIT"]) = 0 /\ Cardinality(operators["OVERALL"]) = 0
          /\ Cardinality(operands["UNIT"]) = 0 /\ Cardinality(operands["OVERALL"]) = 0
      BY <2>2, <2>3, <2>4
    <2>6. TextsBound("UNIT") /\ TextsBound("OVERALL")
      BY <2>1, <2>2, <2>3, <2>5 DEF TextsBound
    <2> QED
      BY <2>1, <2>2, <2>3, <2>4, <2>6 DEF LevelsIInv
  <1>2. LevelsIInv => HsmLevelsAgree
    <2> SUFFICES ASSUME LevelsIInv, phase = "unit" PROVE HsmLevelsAgree
      BY DEF HsmLevelsAgree
    <2>1. \A l \in {"UNIT", "OVERALL"} :
              /\ nu1[l] = Cardinality(operators[l]) /\ nu2[l] = Cardinality(operands[l])
      BY DEF nu1, nu2, Levels
    <2>2. \A l \in {"UNIT", "OVERALL"} :
              /\ nu1[l] + Cardinality(OpenOf("operator")) <= n1[l]
              /\ nu2[l] + Cardinality(OpenOf("expr")) <= n2[l]
      BY <2>1 DEF LevelsIInv, TextsBound, OpenCount
    <2> QED
      BY <2>2 DEF LevelsIInv, HsmLevelsAgree, Within
  <1> QED
    BY <1>1, <1>2, LevelsStep, HsmInvariance, HsmRunsDispatcher, Invariance, PTL DEF HsmSpec
-----------------------------------------------------------------------------
(* HSM: the text of an operand.                                            *)

(* s is the end of t, place by place.                                      *)
Ends(s, t) ==
    /\ Len(s) <= Len(t)
    /\ \A i \in 1..Len(s) : s[i] = t[Len(t) - Len(s) + i]

(* Then it is a suffix.                                                    *)
LEMMA EndsIsSuffix ==
    ASSUME NEW s \in Seq(Text), NEW t \in Seq(Text), Ends(s, t)
    PROVE  IsSuffix(s, t)
  <1>1. Len(s) \in Nat /\ Len(t) \in Nat /\ Len(s) <= Len(t)
    BY DEF Ends
  <1> DEFINE rs == [i \in 1..Len(s) |-> s[(Len(s) - i) + 1]]
             rt == [i \in 1..Len(t) |-> t[(Len(t) - i) + 1]]
  <1>2. rs \in Seq(Text) /\ Len(rs) = Len(s)
    <2>1. \A i \in 1..Len(s) : s[(Len(s) - i) + 1] \in Text
      BY <1>1
    <2> QED
      BY <1>1, <2>1
  <1>3. rt \in Seq(Text) /\ Len(rt) = Len(t)
    <2>1. \A i \in 1..Len(t) : t[(Len(t) - i) + 1] \in Text
      BY <1>1
    <2> QED
      BY <1>1, <2>1
  <1>4. \A i \in 1..Len(s) : rs[i] = rt[i]
    <2>1. SUFFICES ASSUME NEW i \in 1..Len(s) PROVE rs[i] = rt[i]
      OBVIOUS
    <2>2. /\ i \in 1..Len(t) /\ (Len(s) - i) + 1 \in 1..Len(s)
          /\ Len(t) - Len(s) + ((Len(s) - i) + 1) = (Len(t) - i) + 1
      BY <1>1
    <2>3. s[(Len(s) - i) + 1] = t[(Len(t) - i) + 1]
      BY <2>2 DEF Ends
    <2> QED
      BY <2>2, <2>3
  <1>5. Reverse(s) = rs /\ Reverse(t) = rt
    BY DEF Reverse
  <1> HIDE DEF rs, rt
  <1>6. SubSeq(rs, 1, Len(rs)) = SubSeq(rt, 1, Len(rs))
    BY <1>1, <1>2, <1>3, <1>4
  <1> QED
    BY <1>1, <1>2, <1>3, <1>5, <1>6 DEF IsSuffix, IsPrefix

(* A piece that both take changes nothing about it, and nothing is the end *)
(* of everything.                                                          *)
LEMMA EndsGrow ==
    ASSUME NEW s \in Seq(Text), NEW t \in Seq(Text), NEW ch \in Text
    PROVE  /\ Ends(s, t) => Ends(Append(s, ch), Append(t, ch))
           /\ Ends(<<>>, t)
  <1>1. Ends(<<>>, t)
    BY DEF Ends
  <1>2. ASSUME Ends(s, t) PROVE Ends(Append(s, ch), Append(t, ch))
    <2>1. /\ Len(s) \in Nat /\ Len(t) \in Nat /\ Len(s) <= Len(t)
          /\ Len(Append(s, ch)) = Len(s) + 1 /\ Len(Append(t, ch)) = Len(t) + 1
      BY <1>2 DEF Ends
    <2>2. ASSUME NEW i \in 1..Len(s) + 1
          PROVE  Append(s, ch)[i] = Append(t, ch)[Len(t) + 1 - (Len(s) + 1) + i]
      <3>1. CASE i = Len(s) + 1
        BY <2>1, <3>1
      <3>2. CASE i # Len(s) + 1
        <4>1. i \in 1..Len(s) /\ Len(t) - Len(s) + i \in 1..Len(t)
              /\ Len(t) + 1 - (Len(s) + 1) + i = Len(t) - Len(s) + i
          BY <2>1, <3>2
        <4>2. s[i] = t[Len(t) - Len(s) + i]
          BY <1>2, <4>1 DEF Ends
        <4> QED
          BY <4>1, <4>2
      <3> QED
        BY <3>1, <3>2
    <2> QED
      BY SMTT(30), <2>1, <2>2 DEF Ends
  <1> QED
    BY <1>1, <1>2

(* An element that another one is in has given a slot to it: only the      *)
(* innermost one can be without children.                                  *)
NestIInv ==
    /\ phase = "start" => chunk_stack = <<>>
    /\ \A i \in 1..Len(open) - 1 : open[i].slot # 0
    /\ \A k \in 2..Len(chunk_stack) - 1 : Ends(chunk_stack[k + 1], chunk_stack[k])
    /\ phase = "unit" /\ Len(chunk_stack) > 1 /\ Top.slot = 0 =>
          Ends(Top.text, chunk_stack[Len(chunk_stack)])

(* The stack of an open unit is a sequence of texts.                       *)
LEMMA StackInUnit ==
    ASSUME HsmIInv, phase = "unit"
    PROVE  /\ chunk_stack \in Seq(Seq(Text)) /\ Len(chunk_stack) \in Nat
           /\ Len(chunk_stack) > 0 /\ Len(chunk_stack) = 1 + OpenCount("expr")
           /\ open \in Seq(Element) /\ Len(open) \in 1..Len(open) /\ Top \in Element
           /\ SaxTypeOK /\ StreamShape
  <1>1. OpenCount("expr") \in Nat
    BY OpenFinite DEF HsmIInv
  <1> QED
    BY <1>1 DEF HsmIInv, HsmTypeOK, SaxTypeOK, StreamShape, Top

(* An element starts with no text and no child.                            *)
LEMMA NestStart ==
    ASSUME HsmIInv, NestIInv, NEW t \in Tags, SaxStartElement(t), event_startElement_hsm(t)
    PROVE  NestIInv'
  <1>1. phase = "unit" /\ phase' = "unit"
    BY DEF SaxStartElement
  <1>2. /\ chunk_stack \in Seq(Seq(Text)) /\ Len(chunk_stack) \in Nat /\ Len(chunk_stack) > 0
        /\ Len(open) \in 1..Len(open) /\ Top \in Element /\ SaxTypeOK /\ StreamShape
    BY <1>1, StackInUnit
  <1>3. HsmIInv'
    BY HsmElementStarts
  <1>4. /\ \A i \in 1..Len(open) - 1 : open'[i] = open[i]
        /\ Top' = Fresh(t) /\ Len(open') = Len(open) + 1
    BY <1>2, Started, StartKeepsOpen
  <1>5. open'[Len(open)].slot # 0
    <2>1. PICK k \in DOMAIN Grammar[Top.tag] : open'[Len(open)] = [Top EXCEPT !.slot = k]
      BY <1>2, Started
    <2>2. Top.tag \in Tags \cup {"unit"}
      BY <1>2 DEF Element
    <2>3. Grammar[Top.tag] \in Seq(Slot)
      BY <2>2, StreamAssumption
    <2>4. k # 0
      BY <2>1, <2>3
    <2> QED
      BY <1>2, <2>1, <2>4 DEF Element
  <1>6. \A i \in 1..Len(open') - 1 : open'[i].slot # 0
    BY <1>2, <1>4, <1>5 DEF NestIInv
  <1>7. /\ chunk_stack' \in Seq(Seq(Text))
        /\ Len(chunk_stack') \in {Len(chunk_stack), Len(chunk_stack) + 1}
        /\ \A k \in 1..Len(chunk_stack) : chunk_stack'[k] = chunk_stack[k]
        /\ Len(chunk_stack') = Len(chunk_stack) + 1 => chunk_stack'[Len(chunk_stack')] = <<>>
    <2>1. CASE HsmOperand(t)
      <3>1. chunk_stack' = Append(chunk_stack, <<>>) /\ <<>> \in Seq(Text)
        BY <2>1 DEF HsmOperand
      <3> QED
        BY <1>2, <3>1
    <2>2. CASE chunk_stack' = chunk_stack
      BY <1>2, <2>2
    <2> QED
      BY <2>1, <2>2 DEF event_startElement_hsm, HsmFunction, HsmOperator
  <1>8. ASSUME NEW k \in 2..Len(chunk_stack') - 1
        PROVE  Ends(chunk_stack'[k + 1], chunk_stack'[k])
    <2>1. CASE k + 1 = Len(chunk_stack) + 1
      <3>1. chunk_stack'[k + 1] = <<>> /\ chunk_stack'[k] \in Seq(Text)
        BY <1>2, <1>7, <2>1
      <3> QED
        BY <3>1 DEF Ends
    <2>2. CASE k + 1 # Len(chunk_stack) + 1
      <3>1. k \in 2..Len(chunk_stack) - 1 /\ k \in 1..Len(chunk_stack)
            /\ k + 1 \in 1..Len(chunk_stack)
        BY <1>2, <1>7, <2>2
      <3>2. chunk_stack'[k + 1] = chunk_stack[k + 1] /\ chunk_stack'[k] = chunk_stack[k]
        BY <1>7, <3>1
      <3> QED
        BY <3>1, <3>2 DEF NestIInv
    <2> QED
      BY <2>1, <2>2
  <1>9. ASSUME Len(chunk_stack') > 1
        PROVE  Ends(Top'.text, chunk_stack'[Len(chunk_stack')])
    <2>1. chunk_stack'[Len(chunk_stack')] \in Seq(Text) /\ Top'.text = <<>>
      BY <1>4, <1>7, <1>9 DEF Fresh
    <2> QED
      BY <2>1 DEF Ends
  <1> QED
    BY <1>1, <1>6, <1>8, <1>9 DEF NestIInv

(* An element ends, and the element it was in has a child.                 *)
LEMMA NestEnd ==
    ASSUME HsmIInv, NestIInv, NEW t \in Tags, SaxEndElement(t), event_endElement_hsm(t)
    PROVE  NestIInv'
  <1>1. phase = "unit" /\ phase' = "unit" /\ Len(open) > 1
    BY DEF SaxEndElement
  <1>2. /\ chunk_stack \in Seq(Seq(Text)) /\ Len(chunk_stack) \in Nat /\ Len(chunk_stack) > 0
        /\ Len(chunk_stack) = 1 + OpenCount("expr")
        /\ open \in Seq(Element) /\ Len(open) \in Nat /\ SaxTypeOK /\ StreamShape
    BY <1>1, StackInUnit
  <1>3. /\ \A i \in 1..Len(open) - 2 : open'[i] = open[i]
        /\ Len(open') = Len(open) - 1
        /\ Top' = IF t = "name" /\ open[Len(open) - 1].tag = "function"
                  THEN [open[Len(open) - 1] EXCEPT !.name = Top.text]
                  ELSE open[Len(open) - 1]
    BY <1>2, Ended, EndKeepsOpen
  <1>4. Top'.slot # 0
    <2>1. Len(open) - 1 \in 1..Len(open) - 1 /\ open[Len(open) - 1] \in Element
      BY <1>1, <1>2
    <2>2. open[Len(open) - 1].slot # 0
      BY <2>1 DEF NestIInv
    <2> QED
      BY <1>3, <2>1, <2>2 DEF Element
  <1>5. \A i \in 1..Len(open') - 1 : open'[i].slot # 0
    BY <1>1, <1>2, <1>3 DEF NestIInv
  <1>6. /\ Len(chunk_stack') \in Nat /\ Len(chunk_stack') <= Len(chunk_stack)
        /\ \A k \in 2..Len(chunk_stack') : chunk_stack'[k] = chunk_stack[k]
    <2>1. CASE HsmOperandEnds(t)
      <3>1. OpenCount("expr") = OpenCount("expr")' + 1 /\ OpenCount("expr")' \in Nat
        BY <1>2, <2>1, OneCloses, OpenLeft DEF HsmOperandEnds
      <3> QED
        BY <1>2, <2>1, <3>1 DEF HsmOperandEnds, Front
    <2>2. CASE HsmOperatorEnds(t)
      BY <1>2, <2>2 DEF HsmOperatorEnds
    <2>3. CASE chunk_stack' = chunk_stack
      BY <1>2, <2>3
    <2> QED
      BY <2>1, <2>2, <2>3 DEF event_endElement_hsm, HsmFunctionEnds
  <1>7. ASSUME NEW k \in 2..Len(chunk_stack') - 1
        PROVE  Ends(chunk_stack'[k + 1], chunk_stack'[k])
    <2>1. /\ k \in 2..Len(chunk_stack') /\ k + 1 \in 2..Len(chunk_stack')
          /\ k \in 2..Len(chunk_stack) - 1
      BY <1>2, <1>6
    <2> QED
      BY <1>6, <2>1 DEF NestIInv
  <1> QED
    BY <1>1, <1>4, <1>5, <1>7 DEF NestIInv

(* Characters go to the innermost element and to every open operand.       *)
LEMMA NestCharacter ==
    ASSUME HsmIInv, NestIInv, NEW ch \in Text, SaxCharacters(ch), event_charactersUnit_hsm(ch)
    PROVE  NestIInv'
  <1>1. phase = "unit" /\ phase' = "unit"
    BY DEF SaxCharacters
  <1>2. /\ chunk_stack \in Seq(Seq(Text)) /\ Len(chunk_stack) \in Nat /\ Len(chunk_stack) > 0
        /\ Len(open) \in 1..Len(open) /\ Top \in Element /\ SaxTypeOK /\ StreamShape
    BY <1>1, StackInUnit
  <1>3. /\ \A i \in 1..Len(open) - 1 : open'[i] = open[i]
        /\ Top' = [Top EXCEPT !.text = Append(Top.text, ch)]
        /\ Len(open') = Len(open)
    BY <1>2, Grown, CharactersKeepOpen
  <1>4. /\ Len(chunk_stack') = Len(chunk_stack)
        /\ \A k \in 2..Len(chunk_stack) : chunk_stack'[k] = Append(chunk_stack[k], ch)
    <2>1. HsmIInv'
      BY HsmCharacter
    <2>2. DOMAIN chunk_stack' = 1..Len(chunk_stack)
      BY <1>2 DEF event_charactersUnit_hsm
    <2>3. Len(chunk_stack') = Len(chunk_stack)
      <3>1. DOMAIN chunk_stack' = 1..Len(chunk_stack') /\ Len(chunk_stack') \in Nat
        BY <2>1 DEF HsmIInv, HsmTypeOK
      <3> QED
        BY <1>2, <2>2, <3>1
    <2>4. ASSUME NEW k \in 2..Len(chunk_stack)
          PROVE  chunk_stack'[k] = Append(chunk_stack[k], ch)
      <3>1. k \in DOMAIN chunk_stack /\ k > 1
        BY <1>2, <2>4
      <3> QED
        BY <3>1 DEF event_charactersUnit_hsm
    <2> QED
      BY <2>3, <2>4
  <1>5. ASSUME NEW k \in 2..Len(chunk_stack') - 1
        PROVE  Ends(chunk_stack'[k + 1], chunk_stack'[k])
    <2>1. /\ k \in 2..Len(chunk_stack) /\ k + 1 \in 2..Len(chunk_stack)
          /\ k \in 2..Len(chunk_stack) - 1
      BY <1>2, <1>4
    <2>2. chunk_stack[k] \in Seq(Text) /\ chunk_stack[k + 1] \in Seq(Text)
      BY <1>2, <2>1
    <2>3. Ends(chunk_stack[k + 1], chunk_stack[k])
      BY <2>1 DEF NestIInv
    <2>4. Ends(Append(chunk_stack[k + 1], ch), Append(chunk_stack[k], ch))
      BY <2>2, <2>3, EndsGrow
    <2> QED
      BY <1>4, <2>1, <2>4
  <1>6. ASSUME Len(chunk_stack') > 1, Top'.slot = 0
        PROVE  Ends(Top'.text, chunk_stack'[Len(chunk_stack')])
    <2> DEFINE n == Len(chunk_stack)
    <2>1. Top.slot = 0 /\ Top'.text = Append(Top.text, ch) /\ Top.text \in Seq(Text)
      BY <1>2, <1>3, <1>6 DEF Element
    <2>2. n \in 2..n /\ chunk_stack[n] \in Seq(Text)
      BY <1>2, <1>4, <1>6
    <2>3. Ends(Top.text, chunk_stack[n])
      BY <1>1, <1>4, <1>6, <2>1 DEF NestIInv
    <2>4. Ends(Append(Top.text, ch), Append(chunk_stack[n], ch))
      BY <2>1, <2>2, <2>3, EndsGrow
    <2> QED
      BY <1>4, <2>1, <2>2, <2>4
  <1>7. \A i \in 1..Len(open') - 1 : open'[i].slot # 0
    BY <1>2, <1>3 DEF NestIInv
  <1> QED
    BY <1>1, <1>5, <1>6, <1>7 DEF NestIInv

(* The invariant is inductive: outside elements there is no operand.       *)
LEMMA NestStep == HsmIInv /\ NestIInv /\ [HsmNext]_<<vars, hsmVars>> => NestIInv'
  <1> SUFFICES ASSUME HsmIInv, NestIInv, [HsmNext]_<<vars, hsmVars>> PROVE NestIInv'
    OBVIOUS
  <1>1. HsmIInv'
    BY HsmStep
  <1>2. ASSUME NEW t \in Tags, event_startElement(t), event_startElement_hsm(t)
        PROVE  NestIInv'
    BY <1>2, NestStart DEF event_startElement
  <1>3. ASSUME NEW t \in Tags, event_endElement(t), event_endElement_hsm(t)
        PROVE  NestIInv'
    BY <1>3, NestEnd DEF event_endElement
  <1>4. ASSUME NEW ch \in Text, event_charactersUnit(ch), event_charactersUnit_hsm(ch)
        PROVE  NestIInv'
    BY <1>4, NestCharacter DEF event_charactersUnit
  <1>5. ASSUME phase' # "unit", phase' # "start"
        PROVE  NestIInv'
    <2>1. Len(chunk_stack') = 1 /\ Len(open') = 0
      <3>1. open' = <<>>
        BY <1>1, <1>5 DEF HsmIInv, StreamShape
      <3>2. OpenCount("expr")' = 0
        BY <3>1, FS_EmptySet DEF OpenCount, OpenOf
      <3> QED
        BY <1>1, <1>5, <3>1, <3>2 DEF HsmIInv
    <2> QED
      BY <1>5, <2>1 DEF NestIInv
  <1>6. ASSUME SaxStartUnit PROVE NestIInv'
    <2>1. OpenCount("expr")' = 0 /\ phase' = "unit" /\ open' = <<Fresh("unit")>>
      BY <1>6, NoneAtEnds DEF HsmIInv, SaxStartUnit
    <2>2. Len(chunk_stack') = 1
      BY <1>1, <2>1 DEF HsmIInv
    <2> QED
      BY <2>1, <2>2 DEF NestIInv
  <1>7. CASE UNCHANGED <<vars, hsmVars>>
    BY <1>7 DEF NestIInv, Ends, Top, vars, saxVars, hsmVars
  <1> QED
    BY <1>2, <1>3, <1>4, <1>5, <1>6, <1>7
    DEF HsmNext, event_startDocument, event_startRoot, event_startUnit, event_endUnit,
        event_endRoot, event_endDocument, SaxStartDocument, SaxStartRoot, SaxEndUnit,
        SaxEndRoot, SaxEndDocument, SaxMove

(* The text of an open operand ends in the texts of those inside it, and   *)
(* in that of the element being read.                                      *)
THEOREM OperandTextsNest == HsmSpec => []OperandsNest
  <1>1. HsmSystemInit => NestIInv
    BY DEF HsmSystemInit, Init, SaxInit, HsmInit, NestIInv
  <1>2. HsmIInv /\ NestIInv => OperandsNest
    <2> SUFFICES ASSUME HsmIInv, NestIInv PROVE OperandsNest
      OBVIOUS
    <2>1. chunk_stack \in Seq(Seq(Text)) /\ Len(chunk_stack) \in Nat
      BY DEF HsmIInv, HsmTypeOK
    <2>2. ASSUME NEW k \in 2..Len(chunk_stack) - 1
          PROVE  IsSuffix(chunk_stack[k + 1], chunk_stack[k])
      <3>1. k \in 1..Len(chunk_stack) /\ k + 1 \in 1..Len(chunk_stack)
        BY <2>1
      <3>2. chunk_stack[k] \in Seq(Text) /\ chunk_stack[k + 1] \in Seq(Text)
        BY <2>1, <3>1
      <3>3. Ends(chunk_stack[k + 1], chunk_stack[k])
        BY DEF NestIInv
      <3> QED
        BY <3>2, <3>3, EndsIsSuffix
    <2>3. ASSUME Len(chunk_stack) > 1, Top.slot = 0
          PROVE  IsSuffix(Top.text, Last(chunk_stack))
      <3>1. phase = "unit"
        <4>1. CASE phase = "start"
          BY <2>3, <4>1 DEF NestIInv
        <4>2. CASE phase \notin {"start", "unit"}
          <5>1. OpenCount("expr") = 0
            BY <4>2, NoneAtEnds DEF HsmIInv
          <5> QED
            BY <2>3, <4>2, <5>1 DEF HsmIInv
        <4> QED
          BY <4>1, <4>2
      <3>2. Top.text \in Seq(Text)
        BY <3>1, StackInUnit DEF Element
      <3>3. Last(chunk_stack) = chunk_stack[Len(chunk_stack)] /\ Last(chunk_stack) \in Seq(Text)
        BY <2>1, <2>3 DEF Last
      <3>4. Ends(Top.text, Last(chunk_stack))
        BY <2>3, <3>1, <3>3 DEF NestIInv
      <3> QED
        BY <3>2, <3>3, <3>4, EndsIsSuffix
    <2> QED
      BY <2>2, <2>3 DEF OperandsNest
  <1> QED
    BY <1>1, <1>2, NestStep, HsmInvariance, PTL DEF HsmSpec

-----------------------------------------------------------------------------
(* ABC: the counts are those of the structure of the code.                 *)

(* Only a declaration has an initialiser, one at most, and before it only  *)
(* elements that have no comment, operator, declaration or initialiser in  *)
(* them: quiet is a set of such elements, last the place of the slot.      *)
QuietUntil(quiet, last) ==
    /\ quiet \cap {"comment", "operator", "decl_stmt", "init"} = {}
    /\ \A q \in quiet : \A k \in DOMAIN Grammar[q] : Grammar[q][k].tags \subseteq quiet
    /\ \A t \in Tags \cup {"unit"} : \A k \in DOMAIN Grammar[t] :
          /\ "init" \in Grammar[t][k].tags => t = "decl_stmt" /\ k = last /\ ~Grammar[t][k].many
          /\ t = "decl_stmt" /\ k < last => Grammar[t][k].tags \subseteq quiet

OneInitialiser == \E quiet \in SUBSET Tags, last \in Nat : QuietUntil(quiet, last)

(* The reader expects the initialiser of a declaration that may get one.   *)
ExpectsInit(quiet, last) ==
    \A i \in DOMAIN open :
        open[i].tag = "decl_stmt" /\ open[i].slot < last =>
            /\ ac_read_state = "DECLARATION"
            /\ \A j \in DOMAIN open : j > i => open[j].tag \in quiet

(* There is a current function when a function is open.                    *)
FnIsCurrent == currentFn_id # NoId <=> "function" \in OpenTags

Counts == [{"A", "B", "C"} -> Nat]
AbcTypeOK == abc_overall \in Counts /\ abc_unit \in Counts /\ abc_fn \in Counts

(* Four rows are inserted at a time, and none before the document starts.  *)
AbcRowsSound ==
    /\ \E S : abc_statistics \in Seq(S)
    /\ \E r \in Nat : Len(abc_statistics) = 4 * r
    /\ phase = "start" => abc_statistics = <<>> /\ abc_overall = AbcZero

AbcValues(rows) ==
    [i \in 1..(Len(rows) \div 4) |-> [A |-> rows[4 * i - 3].value,
                                      B |-> rows[4 * i - 2].value,
                                      C |-> rows[4 * i - 1].value]]

(* An element starts: an initialiser exactly where the reader expects it.  *)
LEMMA ExpectsInitStart ==
    ASSUME SaxTypeOK, StreamShape, NEW quiet \in SUBSET Tags, NEW last \in Nat,
           QuietUntil(quiet, last), ExpectsInit(quiet, last),
           NEW t \in Tags, SaxStartElement(t), event_startElement_abc(t)
    PROVE  /\ ExpectsInit(quiet, last)'
           /\ t = "init" => ac_read_state = "DECLARATION" /\ "decl_stmt" \in OpenTags
  <1> DEFINE n == Len(open)
  <1>1. /\ n \in Nat /\ n >= 1 /\ DOMAIN open = 1..n
        /\ Len(open') = n + 1 /\ DOMAIN open' = 1..(n + 1)
        /\ \A i \in 1..n : open'[i].tag = open[i].tag
        /\ open'[n + 1].tag = t
        /\ \A i \in 1..n : open[i] \in Element
    BY StartKeepsOpen DEF SaxTypeOK, StreamShape, SaxStartElement
  <1>2. \A i \in 1..(n - 1) : open'[i] = open[i]
    BY Started
  <1>3. PICK k \in DOMAIN Grammar[open[n].tag] :
            Accepts(open[n], k, t) /\ open'[n] = [open[n] EXCEPT !.slot = k]
    BY Started DEF Top
  <1>4. /\ open[n].tag \in Tags \cup {"unit"} /\ open[n].slot \in Nat /\ k \in Nat
        /\ open'[n].slot = k
    <2>1. open[n] \in Element
      BY <1>1
    <2>2. open[n].tag \in Tags \cup {"unit"} /\ open[n].slot \in Nat
      BY <2>1 DEF Element
    <2>3. Grammar[open[n].tag] \in Seq(Slot)
      BY <2>2, StreamAssumption
    <2> QED
      BY <1>3, <2>1, <2>2, <2>3 DEF Element
  <1>5. /\ t \in Grammar[open[n].tag][k].tags
        /\ k > open[n].slot \/ (k = open[n].slot /\ Grammar[open[n].tag][k].many)
    BY <1>3 DEF Accepts
  <1> HIDE DEF n
  <1>6. open[n].tag \in quiet => t \in quiet
    BY <1>3, <1>5 DEF QuietUntil
  <1>7. t \in quiet => ac_read_state' = ac_read_state
    BY DEF QuietUntil, event_startElement_abc, AbcFunction, AbcBranch, AbcAlternative,
           AbcReads, AbcInitialiser, AbcSkipsStart
  <1>8. ASSUME NEW i \in DOMAIN open', open'[i].tag = "decl_stmt", open'[i].slot < last
        PROVE  /\ ac_read_state' = "DECLARATION"
               /\ \A j \in DOMAIN open' : j > i => open'[j].tag \in quiet
    <2>1. CASE i = n + 1
      <3>1. ac_read_state' = "DECLARATION"
        BY <1>1, <1>8, <2>1
        DEF event_startElement_abc, AbcFunction, AbcBranch, AbcAlternative, AbcReads,
            AbcInitialiser, AbcSkipsStart
      <3> QED
        BY <1>1, <2>1, <3>1
    <2>2. CASE i = n
      <3>1. open[n].tag = "decl_stmt" /\ k < last /\ open[n].slot < last
        BY <1>1, <1>4, <1>5, <1>8, <2>2
      <3>2. t \in quiet
        BY <1>3, <1>4, <1>5, <3>1 DEF QuietUntil
      <3>3. n \in DOMAIN open
        BY <1>1
      <3>4. ac_read_state = "DECLARATION"
        BY <3>1, <3>3 DEF ExpectsInit
      <3>5. ac_read_state' = "DECLARATION"
        BY <1>7, <3>2, <3>4
      <3> QED
        BY <1>1, <2>2, <3>2, <3>5
    <2>3. CASE i \in 1..(n - 1)
      <3>1. /\ i \in DOMAIN open /\ n \in DOMAIN open /\ n > i
            /\ open[i].tag = "decl_stmt" /\ open[i].slot < last
        BY <1>1, <1>2, <1>8, <2>3
      <3>2. /\ ac_read_state = "DECLARATION"
            /\ \A j \in DOMAIN open : j > i => open[j].tag \in quiet
        BY <3>1 DEF ExpectsInit
      <3>3. t \in quiet
        BY <1>6, <3>1, <3>2
      <3>4. ac_read_state' = "DECLARATION"
        BY <1>7, <3>2, <3>3
      <3>5. \A j \in 1..(n + 1) : j \in 1..n \/ j = n + 1
        BY <1>1
      <3> QED
        BY <1>1, <3>2, <3>3, <3>4, <3>5
    <2> QED
      BY <1>1, <1>8, <2>1, <2>2, <2>3
  <1>9. ASSUME t = "init"
        PROVE  ac_read_state = "DECLARATION" /\ "decl_stmt" \in OpenTags
    <2>1. open[n].tag = "decl_stmt" /\ k = last /\ ~Grammar[open[n].tag][k].many
      BY <1>3, <1>4, <1>5, <1>9 DEF QuietUntil
    <2>2. open[n].slot < last /\ n \in DOMAIN open
      BY <1>1, <1>4, <1>5, <2>1
    <2> QED
      BY <2>1, <2>2 DEF ExpectsInit, OpenTags
  <1> QED
    BY <1>8, <1>9 DEF ExpectsInit

(* An element ends: no comment and no operator before the initialiser.     *)
LEMMA ExpectsInitEnd ==
    ASSUME SaxTypeOK, StreamShape, NEW quiet \in SUBSET Tags, NEW last \in Nat,
           QuietUntil(quiet, last), ExpectsInit(quiet, last),
           NEW t \in Tags, SaxEndElement(t), event_endElement_abc(t)
    PROVE  ExpectsInit(quiet, last)'
  <1> DEFINE n == Len(open)
             m == n - 1
  <1>1. /\ n \in Nat /\ n >= 2 /\ m \in Nat /\ n = m + 1 /\ m >= 1
        /\ DOMAIN open = 1..n /\ Len(open') = m /\ DOMAIN open' = 1..m
        /\ \A i \in 1..m : open'[i].tag = open[i].tag
        /\ open[n].tag = t
        /\ \A i \in 1..n : open[i] \in Element
    <2>1. n \in Nat /\ n >= 2 /\ DOMAIN open = 1..n /\ \A i \in 1..n : open[i] \in Element
      BY DEF SaxTypeOK, SaxEndElement
    <2>2. /\ Len(open') = n - 1 /\ open[n].tag = t /\ open' \in Seq(Element)
          /\ \A i \in DOMAIN open' : open'[i].tag = open[i].tag
      BY EndKeepsOpen DEF SaxTypeOK
    <2> HIDE DEF n
    <2> QED
      BY <2>1, <2>2
  <1>2. \A i \in 1..m : open'[i].slot = open[i].slot
    <2>1. /\ \A i \in 1..Len(open) - 2 : open'[i] = open[i]
          /\ Top' = IF t = "name" /\ open[Len(open) - 1].tag = "function"
                    THEN [open[Len(open) - 1] EXCEPT !.name = Top.text]
                    ELSE open[Len(open) - 1]
      BY Ended
    <2>2. open'[m].slot = open[m].slot
      BY <1>1, <2>1 DEF Top, Element
    <2> QED
      BY <1>1, <2>1, <2>2
  <1> HIDE DEF n, m
  <1>3. ASSUME NEW i \in DOMAIN open', open'[i].tag = "decl_stmt", open'[i].slot < last
        PROVE  /\ ac_read_state' = "DECLARATION"
               /\ \A j \in DOMAIN open' : j > i => open'[j].tag \in quiet
    <2>1. /\ i \in DOMAIN open /\ open[i].tag = "decl_stmt" /\ open[i].slot < last
          /\ n \in DOMAIN open /\ n > i
      BY <1>1, <1>2, <1>3
    <2>2. /\ ac_read_state = "DECLARATION"
          /\ \A j \in DOMAIN open : j > i => open[j].tag \in quiet
      BY <2>1 DEF ExpectsInit
    <2>3. t \notin {"comment", "operator"}
      BY <1>1, <2>1, <2>2 DEF QuietUntil
    <2>4. ac_read_state' = ac_read_state
      BY <2>3 DEF event_endElement_abc, AbcFunctionEnds, AbcCommentEnds, AbcOperatorEnds, abcVars
    <2> QED
      BY <1>1, <2>2, <2>4
  <1> QED
    BY <1>3 DEF ExpectsInit

(* Character data leaves the declarations alone.                           *)
LEMMA ExpectsInitCharacters ==
    ASSUME SaxTypeOK, StreamShape, NEW quiet, NEW last \in Nat, ExpectsInit(quiet, last),
           NEW ch \in Text, SaxCharacters(ch), ac_read_state' = ac_read_state
    PROVE  ExpectsInit(quiet, last)'
  <1> DEFINE n == Len(open)
  <1>1. /\ n \in Nat /\ DOMAIN open = 1..n /\ DOMAIN open' = 1..n
        /\ \A i \in 1..n : open'[i].tag = open[i].tag /\ open[i] \in Element
        /\ n >= 1 /\ Top = open[n] /\ Top' = open'[n]
    <2>1. n \in Nat /\ n >= 1 /\ DOMAIN open = 1..n /\ \A i \in 1..n : open[i] \in Element
      BY DEF SaxTypeOK, StreamShape, SaxCharacters
    <2>2. /\ Len(open') = n /\ open' \in Seq(Element)
          /\ \A i \in DOMAIN open : open'[i].tag = open[i].tag
      BY CharactersKeepOpen DEF SaxTypeOK
    <2> QED
      BY <2>1, <2>2 DEF Top
  <1>2. ASSUME NEW i \in 1..n PROVE open'[i].slot = open[i].slot
    <2>1. /\ \A j \in 1..n - 1 : open'[j] = open[j]
          /\ Top' = [Top EXCEPT !.text = Append(Top.text, ch)]
      BY Grown
    <2>2. open'[n].slot = open[n].slot
      BY <1>1, <2>1 DEF Element
    <2> HIDE DEF n
    <2>3. i = n \/ i \in 1..n - 1
      BY <1>1
    <2> QED
      BY <2>1, <2>2, <2>3
  <1> QED
    BY <1>1, <1>2 DEF ExpectsInit

(* Where no function is inside another, a function is current while one is *)
(* open: its identifier is given at its start and forgotten at its end.    *)
LEMMA FnIsCurrentStep ==
    ASSUME SaxTypeOK, StreamShape, strings \in Strings, FnIsCurrent, OneFunction, OneFunction',
           [Next]_vars
    PROVE  FnIsCurrent'
  <1>1. ASSUME NEW t \in Tags, event_startElement(t) PROVE FnIsCurrent'
    <2>1. OpenTags' = OpenTags \cup {t}
      BY <1>1, OpenedTag DEF event_startElement
    <2>2. currentFn_id' = IF t = "function" THEN Len(strings) + 1 ELSE currentFn_id
      BY <1>1 DEF event_startElement, FunctionStarts, TypeStarts, NameStarts, OtherStarts
    <2>3. Len(strings) + 1 # NoId
      BY DEF Strings, NoId
    <2> QED
      BY <2>1, <2>2, <2>3 DEF FnIsCurrent
  <1>2. ASSUME NEW t \in Tags, event_endElement(t) PROVE FnIsCurrent'
    <2>1. SaxEndElement(t) /\ OpenTags = OpenTags' \cup {t}
      BY <1>2, ClosedTag DEF event_endElement
    <2>2. t = "function" => "function" \notin OpenTags'
      BY <2>1, OnlyFunction
    <2>3. currentFn_id' = IF t = "function" THEN NoId ELSE currentFn_id
      BY <1>2 DEF event_endElement, FunctionEnds, TypeEnds, NameEnds, OtherEnds
    <2> QED
      BY <2>1, <2>2, <2>3 DEF FnIsCurrent
  <1>3. ASSUME NEW ch \in Text, event_charactersUnit(ch) PROVE FnIsCurrent'
    BY <1>3, SameTags DEF FnIsCurrent, event_charactersUnit
  <1>4. ASSUME SaxStartUnit \/ SaxEndUnit, currentFn_id' = currentFn_id PROVE FnIsCurrent'
    BY <1>4, NothingOpen DEF FnIsCurrent, SaxStartUnit
  <1>5. ASSUME UNCHANGED <<open, currentFn_id>> PROVE FnIsCurrent'
    BY <1>5 DEF FnIsCurrent, OpenTags
  <1>6. ASSUME event_startRoot \/ event_endRoot \/ event_endDocument \/ UNCHANGED vars
        PROVE  FnIsCurrent'
    BY <1>5, <1>6
    DEF vars, saxVars, eventVars, event_startRoot, event_endRoot, event_endDocument,
        SaxStartRoot, SaxEndRoot, SaxEndDocument, SaxMove
  <1>7. ASSUME NEW filename \in Filenames, event_startUnit(filename) PROVE FnIsCurrent'
    BY <1>4, <1>7 DEF event_startUnit
  <1>8. CASE event_endUnit
    BY <1>4, <1>8 DEF event_endUnit
  <1>9. CASE event_startDocument
    <2>1. currentFn_id' = NoId /\ open' = open /\ phase # "unit"
      BY <1>9 DEF event_startDocument, SaxStartDocument, SaxMove
    <2>2. OpenTags' = {}
      BY <2>1, NothingOpen DEF OpenTags
    <2> QED
      BY <2>1, <2>2 DEF FnIsCurrent
  <1> QED
    BY <1>1, <1>2, <1>3, <1>6, <1>7, <1>8, <1>9 DEF Next

(* One more of a kind is a count.                                          *)
LEMMA OneMore ==
    ASSUME NEW c \in Counts, NEW kind \in {"A", "B", "C"}
    PROVE  [c EXCEPT ![kind] = @ + 1] \in Counts
  BY DEF Counts

(* Four rows that are inserted are one count more.                         *)
LEMMA AbcRows ==
    ASSUME AbcRowsSound, NEW suffix, NEW count \in Counts, AbcInsert(suffix, count)
    PROVE  /\ \E R : abc_statistics' \in Seq(R)
           /\ \E r \in Nat : Len(abc_statistics') = 4 * r
           /\ AbcValues(abc_statistics') = Append(AbcValues(abc_statistics), count)
  <1>1. PICK S : abc_statistics \in Seq(S)
    BY DEF AbcRowsSound
  <1>2. PICK r \in Nat : Len(abc_statistics) = 4 * r
    BY DEF AbcRowsSound
  <1> DEFINE four == << [key |-> <<"ABC-A">> \o suffix, value |-> count.A],
                        [key |-> <<"ABC-B">> \o suffix, value |-> count.B],
                        [key |-> <<"ABC-C">> \o suffix, value |-> count.C],
                        [key |-> <<"ABC">> \o suffix, value |-> AbcSquare(count)] >>
             R == S \cup {four[1], four[2], four[3], four[4]}
             old == abc_statistics
             new == abc_statistics'
  <1>3. new = old \o four
    BY DEF AbcInsert
  <1>4. /\ Len(four) = 4 /\ four \in Seq({four[1], four[2], four[3], four[4]})
        /\ four[1].value = count.A /\ four[2].value = count.B /\ four[3].value = count.C
    OBVIOUS
  <1> HIDE DEF four
  <1>5. old \in Seq(R) /\ four \in Seq(R)
    BY <1>1, <1>4
  <1> HIDE DEF R
  <1>6. /\ new \in Seq(R) /\ Len(new) = 4 * r + 4
        /\ \A i \in 1..4 * r : new[i] = old[i]
        /\ \A i \in 1..4 : new[4 * r + i] = four[i]
    <2>1. new \in Seq(R) /\ Len(new) = Len(old) + Len(four)
      BY <1>3, <1>5
    <2>2. /\ \A i \in 1..Len(old) : new[i] = old[i]
          /\ \A i \in 1..Len(four) : new[Len(old) + i] = four[i]
      BY <1>3, <1>5
    <2> QED
      BY <1>2, <1>4, <2>1, <2>2
  <1> HIDE DEF old, new
  <1>7. Len(old) \div 4 = r /\ Len(new) \div 4 = r + 1
    <2>1. Len(old) = 4 * r
      BY <1>2 DEF old
    <2> QED
      BY <1>6, <2>1
  <1>8. AbcValues(new)[r + 1] = count
    <2>1. 4 * (r + 1) - 3 = 4 * r + 1 /\ 4 * (r + 1) - 2 = 4 * r + 2 /\ 4 * (r + 1) - 1 = 4 * r + 3
      OBVIOUS
    <2>2. /\ new[4 * (r + 1) - 3].value = count.A
          /\ new[4 * (r + 1) - 2].value = count.B
          /\ new[4 * (r + 1) - 1].value = count.C
      BY <1>4, <1>6, <2>1
    <2>3. r + 1 \in 1..(Len(new) \div 4)
      BY <1>7
    <2>4. AbcValues(new)[r + 1] = [A |-> count.A, B |-> count.B, C |-> count.C]
      BY <2>2, <2>3 DEF AbcValues
    <2>5. count = [A |-> count.A, B |-> count.B, C |-> count.C]
      BY DEF Counts
    <2> QED
      BY <2>4, <2>5
  <1>9. \A i \in 1..r : AbcValues(new)[i] = AbcValues(old)[i]
    <2>1. ASSUME NEW i \in 1..r PROVE AbcValues(new)[i] = AbcValues(old)[i]
      <3>1. 4 * i - 3 \in 1..4 * r /\ 4 * i - 2 \in 1..4 * r /\ 4 * i - 1 \in 1..4 * r
        OBVIOUS
      <3>2. /\ new[4 * i - 3] = old[4 * i - 3] /\ new[4 * i - 2] = old[4 * i - 2]
            /\ new[4 * i - 1] = old[4 * i - 1]
        BY <1>6, <3>1
      <3>3. i \in 1..(Len(new) \div 4) /\ i \in 1..(Len(old) \div 4)
        BY <1>7
      <3> QED
        BY <3>2, <3>3 DEF AbcValues
    <2> QED
      BY <2>1
  <1>10. AbcValues(new) = Append(AbcValues(old), count)
    <2> DEFINE V == AbcValues(new)
               U == AbcValues(old)
               T == {U[i] : i \in 1..r} \cup {count}
    <2>1. DOMAIN U = 1..r /\ DOMAIN V = 1..(r + 1)
      BY <1>7 DEF AbcValues
    <2>2. U = [i \in 1..r |-> U[i]] /\ V = [i \in 1..(r + 1) |-> V[i]]
      BY <1>7 DEF AbcValues
    <2>3. V[r + 1] = count /\ \A i \in 1..r : V[i] = U[i]
      BY <1>8, <1>9
    <2> HIDE DEF U, V
    <2>4. \A i \in 1..r : U[i] \in T
      OBVIOUS
    <2>5. count \in T
      OBVIOUS
    <2> HIDE DEF T
    <2>6. U \in Seq(T)
      BY <2>2, <2>4
    <2>7. Len(U) = r
      BY <2>1, <2>6
    <2>8. \A i \in 1..(r + 1) : V[i] \in T
      BY <2>3, <2>4, <2>5
    <2>9. V \in Seq(T)
      BY <2>2, <2>8
    <2>10. Len(V) = r + 1
      BY <2>1, <2>9
    <2>11. V = Append(U, count)
      BY <2>3, <2>5, <2>6, <2>7, <2>9, <2>10
    <2> QED
      BY <2>11 DEF U, V
  <1>11. Len(new) = 4 * (r + 1) /\ r + 1 \in Nat
    BY <1>6
  <1> QED
    BY <1>6, <1>10, <1>11 DEF old, new

(* The stream of the promise is the stream of the program, and its counts  *)
(* and operators are those of the code.                                    *)
LEMMA CountSameStream ==
    /\ SaxInit <=> Count!SaxInit
    /\ SaxStartDocument <=> Count!SaxStartDocument
    /\ SaxStartRoot <=> Count!SaxStartRoot
    /\ SaxStartUnit <=> Count!SaxStartUnit
    /\ \A t : SaxStartElement(t) <=> Count!SaxStartElement(t)
    /\ \A ch : SaxCharacters(ch) <=> Count!SaxCharacters(ch)
    /\ \A t : SaxEndElement(t) <=> Count!SaxEndElement(t)
    /\ SaxEndUnit <=> Count!SaxEndUnit
    /\ SaxEndRoot <=> Count!SaxEndRoot
    /\ SaxEndDocument <=> Count!SaxEndDocument
    /\ Text = Count!Text
    /\ OpenTags = Count!OpenTags
    /\ Top = Count!Top
  BY DEF SaxInit, SaxMove, SaxStartDocument, SaxStartRoot, SaxStartUnit, SaxStartElement,
         SaxCharacters, SaxEndElement, SaxEndUnit, SaxEndRoot, SaxEndDocument, Text, OpenTags,
         Top, Fresh, Accepts, Complete,
         Count!SaxInit, Count!SaxMove, Count!SaxStartDocument, Count!SaxStartRoot,
         Count!SaxStartUnit, Count!SaxStartElement, Count!SaxCharacters,
         Count!SaxEndElement, Count!SaxEndUnit, Count!SaxEndRoot,
         Count!SaxEndDocument, Count!Text, Count!OpenTags, Count!Top, Count!Fresh,
         Count!Accepts, Count!Complete

(* The promise has the operators of the code, in another order.            *)
LEMMA SameOperators ==
    /\ Count!Comparison = AbcConditional
    /\ Count!Assignment = AbcAssigning
    /\ Count!Zero = AbcZero
  <1>1. Count!Assignment = AbcAssigning
    <2>1. {<<o, "=">> : o \in {"^", "|", "&", "-", "+", "%", "/", "*"}}
          = {<<"^", "=">>, <<"|", "=">>, <<"&", "=">>, <<"-", "=">>, <<"+", "=">>,
             <<"%", "=">>, <<"/", "=">>, <<"*", "=">>}
      BY Zenon
    <2> QED
      BY <2>1, Zenon DEF Count!Assignment, AbcAssigning
  <1> QED
    BY <1>1 DEF Count!Comparison, AbcConditional, Count!Zero, AbcZero

(* What is counted is counted at the levels that enclose it.               *)
LEMMA CountsMore ==
    ASSUME IInv, phase = "unit", FnIsCurrent, AbcTypeOK, NEW kind \in {"A", "B", "C"},
           AbcCount(kind)
    PROVE  Count!More(kind) /\ AbcTypeOK'
  <1>1. currentUnit_id # NoId /\ (currentFn_id # NoId <=> Count!InFunction)
    BY CountSameStream DEF IInv, UnitHasId, FnIsCurrent, Count!InFunction
  <1>2. Count!More(kind)
    BY <1>1 DEF AbcCount, Count!More
  <1>3. AbcTypeOK'
    BY OneMore DEF AbcCount, AbcTypeOK
  <1> QED
    BY <1>2, <1>3

(* An element starts.                                                      *)
LEMMA AbcStartRefines ==
    ASSUME IInv, FnIsCurrent, AbcTypeOK, NEW t \in Tags, SaxStartElement(t),
           event_startElement_abc(t),
           t = "init" => ac_read_state = "DECLARATION" /\ "decl_stmt" \in OpenTags
    PROVE  Count!CountNext /\ AbcTypeOK'
  <1>1. /\ Count!SaxStartElement(t) /\ phase = "unit" /\ Count!OpenTags = OpenTags
        /\ abc_statistics' = abc_statistics
    BY CountSameStream DEF SaxStartElement, event_startElement_abc
  <1>2. CASE AbcFunction(t)
    <2>1. Count!StartFunction
      BY <1>1, <1>2, SameOperators DEF AbcFunction, Count!StartFunction
    <2>2. AbcTypeOK'
      BY <1>2 DEF AbcFunction, AbcTypeOK, AbcZero, Counts
    <2> QED
      BY <2>1, <2>2 DEF Count!CountNext
  <1>3. CASE AbcBranch(t)
    <2>1. Count!More("B") /\ AbcTypeOK'
      BY <1>1, <1>3, CountsMore DEF AbcBranch
    <2>2. Count!StartCounted(t)
      BY <1>1, <1>3, <2>1 DEF AbcBranch, Count!StartCounted, Count!Branch
    <2> QED
      BY <2>1, <2>2 DEF Count!CountNext
  <1>4. CASE AbcAlternative(t)
    <2>1. Count!More("C") /\ AbcTypeOK'
      BY <1>1, <1>4, CountsMore DEF AbcAlternative
    <2>2. Count!StartCounted(t)
      BY <1>1, <1>4, <2>1 DEF AbcAlternative, Count!StartCounted, Count!Alternative
    <2> QED
      BY <2>1, <2>2 DEF Count!CountNext
  <1>5. CASE AbcInitialiser(t)
    <2>1. Count!More("A") /\ AbcTypeOK'
      BY <1>1, <1>5, CountsMore DEF AbcInitialiser
    <2>2. Count!StartCounted(t)
      BY <1>1, <1>5, <2>1 DEF AbcInitialiser, Count!StartCounted
    <2> QED
      BY <2>1, <2>2 DEF Count!CountNext
  <1>6. CASE AbcReads(t) \/ AbcSkipsStart(t)
    <2>1. t \notin {"function", "call", "goto", "else", "case", "default", "ternary", "init"}
      BY <1>6 DEF AbcReads, AbcSkipsStart
    <2>2. UNCHANGED <<abc_overall, abc_unit, abc_fn>>
      BY <1>6 DEF AbcReads, AbcSkipsStart
    <2>3. Count!StartOther(t)
      BY <1>1, <2>1, <2>2
      DEF Count!StartOther, Count!Branch, Count!Alternative, Count!countVars
    <2> QED
      BY <2>2, <2>3 DEF AbcTypeOK, Count!CountNext
  <1> QED
    BY <1>2, <1>3, <1>4, <1>5, <1>6 DEF event_startElement_abc

(* An element ends: an operator is judged by its text, as in the promise.  *)
LEMMA AbcEndRefines ==
    ASSUME IInv, AbcIInv, FnIsCurrent, AbcTypeOK, AbcRowsSound, NEW t \in Tags,
           SaxEndElement(t), event_endElement_abc(t)
    PROVE  Count!CountNext /\ AbcTypeOK' /\ AbcRowsSound'
  <1>1. /\ Count!SaxEndElement(t) /\ phase = "unit" /\ phase' # "start" /\ Top.tag = t
        /\ Count!Top = Top
    BY CountSameStream DEF SaxEndElement
  <1>2. CASE AbcFunctionEnds(t)
    <2>1. UNCHANGED <<abc_overall, abc_unit, abc_fn>> /\ abc_fn \in Counts
      BY <1>2 DEF AbcFunctionEnds, AbcTypeOK
    <2>2. PICK suffix : AbcInsert(suffix, abc_fn)
      BY <1>2 DEF AbcFunctionEnds
    <2>3. /\ \E R : abc_statistics' \in Seq(R)
          /\ \E r \in Nat : Len(abc_statistics') = 4 * r
          /\ AbcValues(abc_statistics') = Append(AbcValues(abc_statistics), abc_fn)
      BY <2>1, <2>2, AbcRows
    <2>4. Count!FinishFunction
      BY <1>1, <1>2, <2>1, <2>3 DEF AbcFunctionEnds, AbcValues, Count!FinishFunction
    <2> QED
      BY <1>1, <2>1, <2>3, <2>4 DEF AbcTypeOK, AbcRowsSound, Count!CountNext
  <1>3. CASE AbcOperatorEnds(t)
    <2>1. op_chunk = Top.text
      BY <1>1, <1>3 DEF AbcOperatorEnds, AbcIInv, OperatorText, ReadsOperator
    <2>2. abc_statistics' = abc_statistics
      BY <1>3 DEF AbcOperatorEnds
    <2>3. /\ \/ Top.text \in AbcConditional /\ Count!More("C")
             \/ Top.text \in AbcAssigning /\ Count!More("A")
             \/ /\ Top.text \notin AbcConditional \cup AbcAssigning
                /\ UNCHANGED <<abc_overall, abc_unit, abc_fn>>
          /\ AbcTypeOK'
      <3>1. CASE op_chunk \in AbcConditional /\ AbcCount("C")
        BY <1>1, <2>1, <3>1, CountsMore
      <3>2. CASE op_chunk \in AbcAssigning /\ AbcCount("A")
        BY <1>1, <2>1, <3>2, CountsMore
      <3>3. CASE /\ op_chunk \notin AbcConditional \cup AbcAssigning
                 /\ UNCHANGED <<abc_overall, abc_unit, abc_fn>>
        BY <2>1, <3>3 DEF AbcTypeOK
      <3> QED
        BY <1>3, <3>1, <3>2, <3>3 DEF AbcOperatorEnds
    <2>4. Count!FinishOperator
      BY <1>1, <1>3, <2>2, <2>3, SameOperators DEF AbcOperatorEnds, Count!FinishOperator
    <2> QED
      BY <1>1, <2>2, <2>3, <2>4 DEF AbcRowsSound, Count!CountNext
  <1>4. CASE t \notin {"function", "operator"} /\ UNCHANGED <<abc_overall, abc_unit, abc_fn,
                                                              abc_statistics>>
    <2>1. Count!FinishOther(t)
      BY <1>1, <1>4 DEF Count!FinishOther, Count!countVars
    <2> QED
      BY <1>1, <1>4, <2>1 DEF AbcTypeOK, AbcRowsSound, Count!CountNext
  <1> QED
    BY <1>2, <1>3, <1>4 DEF event_endElement_abc, AbcCommentEnds, abcVars

(* ABC sees the runs of the dispatcher.                                    *)
LEMMA AbcRunsDispatcher == AbcSpec => Spec
  <1>1. AbcSystemInit => Init
    BY DEF AbcSystemInit
  <1>2. [AbcNext]_<<vars, abcVars>> => [Next]_vars
    BY DEF AbcNext, Next
  <1> QED
    BY <1>1, <1>2, PTL DEF AbcSpec, Spec

(* Every step is a step of the promise, or leaves it alone.                *)
LEMMA AbcStepRefines ==
    ASSUME NEW quiet \in SUBSET Tags, NEW last \in Nat, QuietUntil(quiet, last)
    PROVE  /\ IInv /\ AbcIInv /\ FnIsCurrent /\ AbcTypeOK /\ AbcRowsSound
           /\ ExpectsInit(quiet, last) /\ OneFunction /\ OneFunction'
           /\ [AbcNext]_<<vars, abcVars>>
           => /\ FnIsCurrent' /\ AbcTypeOK' /\ AbcRowsSound' /\ ExpectsInit(quiet, last)'
              /\ [Count!CountNext]_<<Count!saxVars, Count!countVars>>
  <1> SUFFICES ASSUME IInv, AbcIInv, FnIsCurrent, AbcTypeOK, AbcRowsSound,
                      ExpectsInit(quiet, last), OneFunction, OneFunction',
                      [AbcNext]_<<vars, abcVars>>
               PROVE  /\ FnIsCurrent' /\ AbcTypeOK' /\ AbcRowsSound' /\ ExpectsInit(quiet, last)'
                      /\ [Count!CountNext]_<<Count!saxVars, Count!countVars>>
    OBVIOUS
  <1>1. SaxTypeOK /\ StreamShape
    BY DEF IInv, TypeOK
  <1>2. FnIsCurrent'
    <2>1. strings \in Strings
      BY DEF IInv, TypeOK, Strings
    <2>2. [Next]_vars
      BY DEF AbcNext, Next
    <2> QED
      BY <1>1, <2>1, <2>2, FnIsCurrentStep
  <1>3. SUFFICES /\ AbcTypeOK' /\ AbcRowsSound' /\ ExpectsInit(quiet, last)'
                  /\ [Count!CountNext]_<<Count!saxVars, Count!countVars>>
    BY <1>2
  <1>4. ASSUME NEW t \in Tags, event_startElement(t), event_startElement_abc(t)
        PROVE  AbcTypeOK' /\ AbcRowsSound' /\ ExpectsInit(quiet, last)' /\ Count!CountNext
    <2>1. SaxStartElement(t) /\ phase' # "start" /\ abc_statistics' = abc_statistics
      BY <1>4 DEF event_startElement, SaxStartElement, event_startElement_abc
    <2>2. /\ ExpectsInit(quiet, last)'
          /\ t = "init" => ac_read_state = "DECLARATION" /\ "decl_stmt" \in OpenTags
      BY <1>1, <1>4, <2>1, ExpectsInitStart
    <2>3. Count!CountNext /\ AbcTypeOK'
      BY <1>4, <2>1, <2>2, AbcStartRefines
    <2>4. AbcRowsSound'
      BY <2>1 DEF AbcRowsSound
    <2> QED
      BY <2>2, <2>3, <2>4
  <1>5. ASSUME NEW t \in Tags, event_endElement(t), event_endElement_abc(t)
        PROVE  AbcTypeOK' /\ AbcRowsSound' /\ ExpectsInit(quiet, last)' /\ Count!CountNext
    <2>1. SaxEndElement(t)
      BY <1>5 DEF event_endElement
    <2>2. ExpectsInit(quiet, last)'
      BY <1>1, <1>5, <2>1, ExpectsInitEnd
    <2>3. Count!CountNext /\ AbcTypeOK' /\ AbcRowsSound'
      BY <1>5, <2>1, AbcEndRefines
    <2> QED
      BY <2>2, <2>3
  <1>6. ASSUME NEW ch \in Text, event_charactersUnit(ch), event_charactersUnit_abc(ch)
        PROVE  AbcTypeOK' /\ AbcRowsSound' /\ ExpectsInit(quiet, last)' /\ Count!CountNext
    <2>1. SaxCharacters(ch) /\ phase' # "start" /\ ac_read_state' = ac_read_state
      BY <1>6 DEF event_charactersUnit, SaxCharacters, event_charactersUnit_abc
    <2>2. UNCHANGED <<abc_overall, abc_unit, abc_fn, abc_statistics>>
      BY <1>6 DEF event_charactersUnit_abc
    <2>3. ExpectsInit(quiet, last)'
      BY <1>1, <2>1, ExpectsInitCharacters
    <2>4. Count!Silent
      BY <2>1, <2>2, CountSameStream DEF Count!Silent, Count!countVars
    <2> QED
      BY <2>1, <2>2, <2>3, <2>4 DEF AbcTypeOK, AbcRowsSound, Count!CountNext
  <1>7. ASSUME SaxStartDocument \/ SaxStartRoot \/ SaxStartUnit \/ SaxEndUnit \/ SaxEndRoot
               \/ SaxEndDocument
        PROVE  ExpectsInit(quiet, last)'
    <2>1. OpenTags' \in {{}, {"unit"}}
      <3>1. CASE SaxStartUnit \/ SaxEndUnit
        BY <1>1, <3>1, NothingOpen
      <3>2. CASE SaxStartDocument \/ SaxStartRoot \/ SaxEndRoot \/ SaxEndDocument
        BY <1>1, <3>2, NothingOpen
        DEF OpenTags, SaxStartDocument, SaxStartRoot, SaxEndRoot, SaxEndDocument, SaxMove
      <3> QED
        BY <1>7, <3>1, <3>2
    <2>2. \A i \in DOMAIN open' : open'[i].tag # "decl_stmt"
      BY <2>1 DEF OpenTags
    <2> QED
      BY <2>2 DEF ExpectsInit
  <1>8. CASE SaxStartUnit /\ event_startUnit_abc
    <2>1. AbcTypeOK' /\ AbcRowsSound'
      BY <1>8
      DEF AbcTypeOK, AbcRowsSound, AbcZero, Counts, SaxStartUnit, event_startUnit_abc
    <2>2. Count!StartUnit
      BY <1>8, CountSameStream, SameOperators DEF event_startUnit_abc, Count!StartUnit
    <2> QED
      BY <1>7, <1>8, <2>1, <2>2 DEF Count!CountNext
  <1>9. ASSUME NEW count \in {abc_unit, abc_overall}, NEW suffix, AbcInsert(suffix, count),
               UNCHANGED <<abc_overall, abc_unit, abc_fn>>, phase' # "start"
        PROVE  /\ AbcTypeOK' /\ AbcRowsSound'
               /\ AbcValues(abc_statistics') = Append(AbcValues(abc_statistics), count)
    <2>1. count \in Counts
      BY <1>9 DEF AbcTypeOK
    <2>2. /\ \E R : abc_statistics' \in Seq(R)
          /\ \E r \in Nat : Len(abc_statistics') = 4 * r
          /\ AbcValues(abc_statistics') = Append(AbcValues(abc_statistics), count)
      BY <1>9, <2>1, AbcRows
    <2> QED
      BY <1>9, <2>2 DEF AbcTypeOK, AbcRowsSound
  <1>10. CASE SaxEndUnit /\ event_endUnit_abc
    <2>1. PICK suffix : AbcInsert(suffix, abc_unit)
      BY <1>10 DEF event_endUnit_abc
    <2>2. /\ UNCHANGED <<abc_overall, abc_unit, abc_fn>> /\ phase' # "start"
      BY <1>10 DEF event_endUnit_abc, SaxEndUnit
    <2>3. /\ AbcTypeOK' /\ AbcRowsSound'
          /\ AbcValues(abc_statistics') = Append(AbcValues(abc_statistics), abc_unit)
      BY <1>9, <2>1, <2>2
    <2>4. Count!FinishUnit
      BY <1>10, <2>2, <2>3, CountSameStream DEF AbcValues, Count!FinishUnit
    <2> QED
      BY <1>7, <1>10, <2>3, <2>4 DEF Count!CountNext
  <1>11. CASE SaxEndDocument /\ event_endDocument_abc
    <2>1. PICK suffix : AbcInsert(suffix, abc_overall)
      BY <1>11 DEF event_endDocument_abc
    <2>2. /\ UNCHANGED <<abc_overall, abc_unit, abc_fn>> /\ phase' # "start"
      BY <1>11 DEF event_endDocument_abc, SaxEndDocument, SaxMove
    <2>3. /\ AbcTypeOK' /\ AbcRowsSound'
          /\ AbcValues(abc_statistics') = Append(AbcValues(abc_statistics), abc_overall)
      BY <1>9, <2>1, <2>2
    <2>4. Count!FinishDocument
      BY <1>11, <2>2, <2>3, CountSameStream DEF AbcValues, Count!FinishDocument
    <2> QED
      BY <1>7, <1>11, <2>3, <2>4 DEF Count!CountNext
  <1>12. CASE SaxStartDocument /\ event_startDocument_abc
    <2>1. phase = "start" /\ phase' = "document"
      BY <1>12 DEF SaxStartDocument, SaxMove
    <2>2. UNCHANGED <<abc_overall, abc_unit, abc_fn, abc_statistics>>
      BY <1>12, <2>1 DEF AbcRowsSound, event_startDocument_abc
    <2>3. Count!Silent
      BY <1>12, <2>2, CountSameStream DEF Count!Silent, Count!countVars
    <2> QED
      BY <1>7, <1>12, <2>1, <2>2, <2>3 DEF AbcTypeOK, AbcRowsSound, Count!CountNext
  <1>13. CASE (SaxStartRoot \/ SaxEndRoot) /\ UNCHANGED abcVars
    <2>1. AbcTypeOK' /\ AbcRowsSound'
      BY <1>13 DEF AbcTypeOK, AbcRowsSound, SaxStartRoot, SaxEndRoot, SaxMove, abcVars
    <2>2. Count!Silent
      BY <1>13, CountSameStream DEF abcVars, Count!Silent, Count!countVars
    <2> QED
      BY <1>7, <1>13, <2>1, <2>2 DEF Count!CountNext
  <1>14. CASE UNCHANGED <<vars, abcVars>>
    <2>1. UNCHANGED <<phase, open, units, elements>> /\ UNCHANGED abcVars
      BY <1>14 DEF vars, saxVars
    <2>2. AbcTypeOK' /\ AbcRowsSound' /\ ExpectsInit(quiet, last)'
      BY <2>1 DEF AbcTypeOK, AbcRowsSound, ExpectsInit, abcVars
    <2> QED
      BY <2>1, <2>2 DEF abcVars, Count!saxVars, Count!countVars
  <1> QED
    BY <1>4, <1>5, <1>6, <1>8, <1>10, <1>11, <1>12, <1>13, <1>14
    DEF AbcNext, event_startDocument, event_startRoot, event_startUnit, event_endUnit,
        event_endRoot, event_endDocument

(* Where a declaration has one initialiser at most, and no function is     *)
(* inside another, the one reader of ABC counts at each of the three       *)
(* levels what the structure of the code says.                             *)
THEOREM AbcReportsCount ==
    OperatorsAreLeaves /\ OneInitialiser /\ AbcSpec /\ []OneFunction => AbcImplementsCount
  <1>1. SUFFICES ASSUME OperatorsAreLeaves, OneInitialiser
                 PROVE  AbcSpec /\ []OneFunction => AbcImplementsCount
    OBVIOUS
  <1>2. PICK quiet \in SUBSET Tags, last \in Nat : QuietUntil(quiet, last)
    BY <1>1 DEF OneInitialiser
  <1>3. AbcSystemInit => Count!CountInit
    BY CountSameStream, SameOperators DEF AbcSystemInit, Init, AbcInit, Count!CountInit
  <1>4. AbcSystemInit =>
            AbcIInv /\ FnIsCurrent /\ AbcTypeOK /\ AbcRowsSound /\ ExpectsInit(quiet, last)
    <2>1. <<>> \in Seq({}) /\ Len(<<>>) = 4 * 0
      OBVIOUS
    <2>2. AbcSystemInit => AbcIInv
      BY DEF AbcSystemInit, Init, SaxInit, AbcInit, AbcIInv, SaxTypeOK, StreamShape, Phases,
             OperatorInnermost, ReadsOperator, OperatorText
    <2>3. AbcSystemInit => FnIsCurrent /\ AbcTypeOK /\ ExpectsInit(quiet, last)
      BY DEF AbcSystemInit, Init, SaxInit, AbcInit, FnIsCurrent, OpenTags, NoId, AbcTypeOK,
             AbcZero, Counts, ExpectsInit
    <2>4. AbcSystemInit => AbcRowsSound
      BY <2>1 DEF AbcSystemInit, AbcInit, AbcRowsSound
    <2> QED
      BY <2>2, <2>3, <2>4
  <1>5. AbcIInv /\ [AbcNext]_<<vars, abcVars>> => AbcIInv'
    BY <1>1, AbcStep
  <1>6. /\ IInv /\ AbcIInv /\ FnIsCurrent /\ AbcTypeOK /\ AbcRowsSound
        /\ ExpectsInit(quiet, last) /\ OneFunction /\ OneFunction'
        /\ [AbcNext]_<<vars, abcVars>>
        => /\ FnIsCurrent' /\ AbcTypeOK' /\ AbcRowsSound' /\ ExpectsInit(quiet, last)'
           /\ [Count!CountNext]_<<Count!saxVars, Count!countVars>>
    BY <1>2, AbcStepRefines
  <1> QED
    BY <1>3, <1>4, <1>5, <1>6, AbcRunsDispatcher, Invariance, PTL
    DEF AbcSpec, AbcImplementsCount, Count!CountSpec
===============================================================================
