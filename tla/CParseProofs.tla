----------------------------- MODULE CParseProofs -----------------------------
(***************************************************************************)
(* Proofs about the C parser, for every grammar and bound, up to the end   *)
(* of the program at a check that fails: what it records is of the right   *)
(* kind, and the blocks of the documents make one chain; its stack is the  *)
(* path of the open elements, every end but three finds its start there,   *)
(* and the string tracked as the name of a function has that name.         *)
(***************************************************************************)
EXTENDS CParse, EventProofs, Recurrence

Record == [text : Seq(Piece), interpretation : C_INTERPRETATION_NAMES]

CcIInv == CcTypeOK /\ BlocksChained

(* A string that is parsed is one more.                                    *)
LEMMA ParsedString ==
    ASSUME parse \in Seq(Record), NEW s \in Seq(Piece), NEW i \in C_INTERPRETATION_NAMES
    PROVE  /\ Parsed(s, i) \in Seq(Record)
           /\ Len(Parsed(s, i)) = Len(parse) + 1
  <1>1. [text |-> s, interpretation |-> i] \in Record
    BY DEF Record
  <1> QED
    BY <1>1 DEF Parsed

(* No text is a piece of nothing.                                          *)
LEMMA NoText == <<>> \in Seq(Piece)
  OBVIOUS

(* An element that is pushed is one of the elements the parser knows.      *)
LEMMA Pushed ==
    ASSUME elementStack \in Seq(C_ELEMENT_TAGS), NEW tag \in C_ELEMENT_TAGS,
           PushElement(tag)
    PROVE  elementStack' \in Seq(C_ELEMENT_TAGS)
  BY DEF PushElement

(* What keeps the blocks and adds strings at most keeps the invariant.     *)
LEMMA BlocksKept ==
    ASSUME CcIInv, UNCHANGED <<incomingStack, edges>>,
           parse' \in Seq(Record), Len(parse') >= Len(parse),
           callCount' \in Nat, elementStack' \in Seq(C_ELEMENT_TAGS),
           {current_unit', current_fn', first_stmt'} \subseteq 0..Len(parse'),
           cc_error' \in C_ELEMENT_TAGS \cup {"none", "unit"}
    PROVE  CcIInv'
  <1>1. BlocksChained'
    BY DEF CcIInv, BlocksChained
  <1>2. /\ parse \in Seq(Record) /\ Len(parse) \in Nat /\ Len(parse') \in Nat
        /\ 1..Len(parse) \subseteq 1..Len(parse')
    BY DEF CcIInv, CcTypeOK, Record
  <1>3. incomingStack' \in Seq(1..Len(parse'))
    BY <1>2 DEF CcIInv, CcTypeOK
  <1>4. edges' \subseteq (1..Len(parse')) \X (1..Len(parse'))
    BY <1>2 DEF CcIInv, CcTypeOK
  <1> QED
    BY <1>1, <1>3, <1>4 DEF CcIInv, CcTypeOK, Record

(* A check that fails leaves everything as it is.                          *)
LEMMA Stopped ==
    ASSUME CcIInv, NEW tag \in C_ELEMENT_TAGS \cup {"unit"}, Stop(tag)
    PROVE  CcIInv'
  <1>1. Len(parse') >= Len(parse)
    BY DEF CcIInv, CcTypeOK, Stop
  <1> QED
    BY <1>1, BlocksKept DEF CcIInv, CcTypeOK, Record, Stop

(* An element that is parsed, pushed, or both.                             *)
LEMMA ElementPushed ==
    ASSUME CcIInv, NEW tag \in C_ELEMENT_TAGS,
           elementStack' = elementStack \/ PushElement(tag),
           parse' \in Seq(Record), Len(parse') >= Len(parse),
           UNCHANGED <<incomingStack, edges, current_unit, first_stmt>>,
           callCount' \in Nat,
           current_fn' \in {current_fn, Len(parse')},
           cc_error' \in {cc_error, tag}
    PROVE  CcIInv'
  <1>1. elementStack' \in Seq(C_ELEMENT_TAGS)
    <2>1. elementStack \in Seq(C_ELEMENT_TAGS)
      BY DEF CcIInv, CcTypeOK
    <2> QED
      BY <2>1, Pushed
  <1>2. Len(parse) \in Nat /\ Len(parse') \in Nat
    BY DEF CcIInv, CcTypeOK
  <1>3. {current_unit', current_fn', first_stmt'} \subseteq 0..Len(parse')
    BY <1>2 DEF CcIInv, CcTypeOK
  <1>4. cc_error' \in C_ELEMENT_TAGS \cup {"none", "unit"}
    BY DEF CcIInv, CcTypeOK
  <1>5. UNCHANGED <<incomingStack, edges>>
    OBVIOUS
  <1> QED
    BY <1>1, <1>3, <1>4, <1>5, BlocksKept

(* A block follows the one that was entered before it, which had no        *)
(* successor: edges to it are edges from earlier blocks.                   *)
LEMMA BlockEntered ==
    ASSUME CcIInv, NEW tag, start_block_content_cparse(tag), UNCHANGED current_unit
    PROVE  CcIInv'
  <1>1. tag = "block_content" /\ tag \in C_ELEMENT_TAGS
    BY DEF start_block_content_cparse, C_ELEMENT_TAGS
  <1>2. CASE PeekElement = "function" /\ (incomingStack # <<>> \/ first_stmt # NoId)
    BY <1>1, <1>2, Stopped DEF start_block_content_cparse
  <1>3. CASE ~(PeekElement = "function" /\ (incomingStack # <<>> \/ first_stmt # NoId))
    <2> DEFINE n == Len(parse) + 1
    <2>1. /\ parse' \in Seq(Record) /\ Len(parse') = n /\ Len(parse) \in Nat
          /\ first_stmt' \in {first_stmt, n}
      <3>1. parse \in Seq(Record) /\ parse' = Parsed(<<>>, "C_SPURIOUS")
        BY <1>3 DEF CcIInv, CcTypeOK, Record, start_block_content_cparse, parse_cparse
      <3>2. "C_SPURIOUS" \in C_INTERPRETATION_NAMES
        BY DEF C_INTERPRETATION_NAMES
      <3>3. parse' \in Seq(Record) /\ Len(parse') = n
        BY <3>1, <3>2, NoText, ParsedString
      <3> QED
        BY <1>3, <3>1, <3>3 DEF start_block_content_cparse
    <2>2. /\ incomingStack \in Seq(1..Len(parse)) /\ Len(incomingStack) <= 1
          /\ edges \subseteq (1..Len(parse)) \X (1..Len(parse))
      BY DEF CcIInv, CcTypeOK, BlocksChained
    <2>3. elementStack' \in Seq(C_ELEMENT_TAGS)
      <3>1. elementStack \in Seq(C_ELEMENT_TAGS) /\ PushElement(tag)
        BY <1>3 DEF CcIInv, CcTypeOK, start_block_content_cparse
      <3> QED
        BY <1>1, <3>1, Pushed
    <2>4. incomingStack' = <<n>>
      <3>1. CASE incomingStack = <<>>
        BY <1>3, <2>1, <3>1 DEF start_block_content_cparse
      <3>2. CASE incomingStack # <<>>
        <4>1. Front(incomingStack) = <<>>
          BY <2>2, <3>2 DEF Front
        <4>2. incomingStack' = Append(Front(incomingStack), Len(parse'))
          BY <1>3, <3>2 DEF start_block_content_cparse
        <4> QED
          BY <2>1, <4>1, <4>2
      <3> QED
        BY <3>1, <3>2
    <2>5. edges' = edges \cup (IF incomingStack = <<>> THEN {} ELSE {<<incomingStack[1], n>>})
      <3>1. incomingStack # <<>> => Last(incomingStack) = incomingStack[1]
        BY <2>2 DEF Last
      <3> QED
        BY <1>3, <2>1, <3>1 DEF start_block_content_cparse
    <2>6. /\ edges # {} => incomingStack # <<>>
          /\ \A e \in edges : /\ e[1] \in Nat /\ e[2] \in Nat
                              /\ e[1] < e[2] /\ e[2] <= incomingStack[1]
          /\ incomingStack # <<>> =>
                incomingStack[1] \in 1..Len(parse) /\ incomingStack[1] < n
      BY <2>1, <2>2 DEF CcIInv, BlocksChained
    <2>7. BlocksChained'
      <3>1. Len(incomingStack') <= 1 /\ (edges' # {} => incomingStack' # <<>>)
        BY <2>4
      <3>2. \A e \in edges' : e[1] < e[2] /\ e[2] <= incomingStack'[1]
        BY <2>1, <2>4, <2>5, <2>6
      <3>3. \A e \in edges' : e[2] = incomingStack'[1] \/ \E d \in edges' : d[1] = e[2]
        <4>1. SUFFICES ASSUME NEW e \in edges
                       PROVE  e[2] = n \/ \E d \in edges' : d[1] = e[2]
          BY <2>4, <2>5
        <4>2. e[2] = incomingStack[1] \/ \E d \in edges : d[1] = e[2]
          BY <4>1 DEF CcIInv, BlocksChained
        <4>3. <<incomingStack[1], n>> \in edges'
          BY <2>5, <2>6, <4>1
        <4> QED
          BY <2>5, <4>2, <4>3
      <3>4. \A d, e \in edges' : d[1] = e[1] \/ d[2] = e[2] => d = e
        <4>1. \A d, e \in edges : d[1] = e[1] \/ d[2] = e[2] => d = e
          BY DEF CcIInv, BlocksChained
        <4>2. ASSUME NEW d \in edges, incomingStack # <<>>
              PROVE  d[1] # incomingStack[1] /\ d[2] # n
          BY <2>1, <2>6, <4>2
        <4> QED
          BY <2>5, <4>1, <4>2
      <3> QED
        BY <3>1, <3>2, <3>3, <3>4 DEF BlocksChained
    <2>8. CcTypeOK'
      <3>1. 1..Len(parse) \subseteq 1..n /\ n \in 1..n
        BY <2>1
      <3>2. incomingStack' \in Seq(1..n) /\ edges' \subseteq (1..n) \X (1..n)
        BY <2>2, <2>4, <2>5, <2>6, <3>1
      <3>3. {current_unit', current_fn', first_stmt'} \subseteq 0..n
        BY <1>3, <2>1 DEF CcIInv, CcTypeOK, start_block_content_cparse
      <3> QED
        BY <1>3, <2>1, <2>3, <3>2, <3>3
        DEF CcIInv, CcTypeOK, Record, start_block_content_cparse
    <2> QED
      BY <2>7, <2>8 DEF CcIInv
  <1> QED
    BY <1>2, <1>3

(* A string that may be parsed at the start of an element.                 *)
LEMMA MaybeParsed ==
    ASSUME CcIInv, NEW i \in C_INTERPRETATION_NAMES,
           UNCHANGED parse \/ parse_cparse(<<>>, i)
    PROVE  parse' \in Seq(Record) /\ Len(parse') >= Len(parse)
  <1>1. parse \in Seq(Record) /\ Len(parse) \in Nat
    BY DEF CcIInv, CcTypeOK, Record
  <1>2. CASE UNCHANGED parse
    BY <1>1, <1>2
  <1>3. CASE parse_cparse(<<>>, i)
    <2>1. Parsed(<<>>, i) \in Seq(Record) /\ Len(Parsed(<<>>, i)) = Len(parse) + 1
      BY <1>1, NoText, ParsedString
    <2>2. parse' = Parsed(<<>>, i)
      BY <1>3 DEF parse_cparse
    <2> QED
      BY <1>1, <2>1, <2>2
  <1> QED
    BY <1>2, <1>3

(* The start of an element.                                                *)
LEMMA CcElementStarts ==
    ASSUME CcIInv, NEW tag, event_startElement_cc(tag)
    PROVE  CcIInv'
  <1>1. parse \in Seq(Record) /\ Len(parse) \in Nat /\ callCount \in Nat
    BY DEF CcIInv, CcTypeOK, Record
  <1>2. UNCHANGED current_unit
    BY DEF event_startElement_cc
  <1>3. CASE start_other_cparse(tag)
    BY <1>1, <1>2, <1>3, ElementPushed DEF start_other_cparse
  <1>4. CASE start_stmt_cparse(tag)
    <2>1. /\ tag \in C_ELEMENT_TAGS /\ "C_STMT" \in C_INTERPRETATION_NAMES
          /\ UNCHANGED parse \/ parse_cparse(<<>>, "C_STMT")
      BY <1>4 DEF start_stmt_cparse, C_ELEMENT_TAGS, C_INTERPRETATION_NAMES
    <2>2. parse' \in Seq(Record) /\ Len(parse') >= Len(parse)
      BY <2>1, MaybeParsed
    <2> QED
      BY <1>1, <1>2, <1>4, <2>1, <2>2, ElementPushed DEF start_stmt_cparse
  <1>5. CASE start_block_content_cparse(tag)
    BY <1>2, <1>5, BlockEntered
  <1>6. CASE start_break_cparse(tag)
    <2>1. /\ tag \in C_ELEMENT_TAGS /\ "C_SPURIOUS" \in C_INTERPRETATION_NAMES
          /\ UNCHANGED parse \/ parse_cparse(<<>>, "C_SPURIOUS")
      BY <1>6 DEF start_break_cparse, C_ELEMENT_TAGS, C_INTERPRETATION_NAMES
    <2>2. parse' \in Seq(Record) /\ Len(parse') >= Len(parse)
      BY <2>1, MaybeParsed
    <2> QED
      BY <1>1, <1>2, <1>6, <2>1, <2>2, ElementPushed DEF start_break_cparse
  <1>7. CASE start_call_cparse(tag)
    BY <1>1, <1>2, <1>7, ElementPushed DEF start_call_cparse, C_ELEMENT_TAGS
  <1>8. CASE start_fn_cparse(tag)
    <2>1. tag \in C_ELEMENT_TAGS
      BY <1>8 DEF start_fn_cparse, C_ELEMENT_TAGS
    <2>2. CASE Stop(tag)
      BY <2>1, <2>2, Stopped
    <2>3. CASE ~Stop(tag)
      BY <1>1, <1>2, <1>8, <2>1, <2>3, ElementPushed DEF start_fn_cparse
    <2> QED
      BY <2>2, <2>3
  <1>9. CASE start_name_cparse(tag)
    <2>1. /\ tag \in C_ELEMENT_TAGS /\ "C_FN_NAME" \in C_INTERPRETATION_NAMES
          /\ UNCHANGED parse \/ parse_cparse(<<>>, "C_FN_NAME")
          /\ elementStack' = elementStack \/ PushElement(tag)
          /\ current_fn' \in {current_fn, Len(parse')}
          /\ cc_error' \in {cc_error, tag}
          /\ UNCHANGED <<callCount, incomingStack, edges, current_unit, first_stmt>>
      BY <1>2, <1>9 DEF start_name_cparse, C_ELEMENT_TAGS, C_INTERPRETATION_NAMES
    <2>2. parse' \in Seq(Record) /\ Len(parse') >= Len(parse)
      BY <2>1, MaybeParsed
    <2> QED
      BY <1>1, <2>1, <2>2, ElementPushed
  <1>10. CASE start_params_cparse(tag)
    <2>1. PICK i \in C_INTERPRETATION_NAMES :
              UNCHANGED parse \/ parse_cparse(<<>>, i)
      <3>1. {"C_FN_TYPE", "C_FN_PARAMS"} \subseteq C_INTERPRETATION_NAMES
        BY DEF C_INTERPRETATION_NAMES
      <3> QED
        BY <1>10, <3>1 DEF start_params_cparse
    <2>2. tag \in C_ELEMENT_TAGS
      BY <1>10 DEF start_params_cparse, C_ELEMENT_TAGS
    <2>3. parse' \in Seq(Record) /\ Len(parse') >= Len(parse)
      BY <2>1, MaybeParsed
    <2> QED
      BY <1>1, <1>2, <1>10, <2>2, <2>3, ElementPushed DEF start_params_cparse
  <1>11. CASE CcStartIgnored(tag)
    <2>1. Len(parse') >= Len(parse) /\ UNCHANGED ccVars
      BY <1>1, <1>11 DEF CcStartIgnored, ccVars
    <2> QED
      BY <2>1, BlocksKept DEF CcIInv, CcTypeOK, Record, ccVars
  <1> QED
    BY <1>3, <1>4, <1>5, <1>6, <1>7, <1>8, <1>9, <1>10, <1>11 DEF event_startElement_cc

(* The end of an element takes one off the stack, which has one then, or   *)
(* ends the program.                                                       *)
LEMMA CcElementEnds ==
    ASSUME CcIInv, NEW tag, event_endElement_cc(tag)
    PROVE  CcIInv'
  <1>1. /\ parse \in Seq(Record) /\ Len(parse) \in Nat
        /\ elementStack \in Seq(C_ELEMENT_TAGS)
    BY DEF CcIInv, CcTypeOK, Record
  <1>2. ASSUME NEW t \in C_ELEMENT_TAGS, PopElement(t) PROVE CcIInv'
    <2>1. CASE PeekElement # t
      BY <1>2, <2>1, Stopped DEF PopElement
    <2>2. CASE PeekElement = t
      <3>1. elementStack # <<>>
        BY <2>2 DEF PeekElement, C_ELEMENT_TAGS
      <3>2. Front(elementStack) \in Seq(C_ELEMENT_TAGS)
        BY <1>1, <3>1 DEF Front
      <3>3. Len(parse') >= Len(parse) /\ elementStack' \in Seq(C_ELEMENT_TAGS)
        BY <1>1, <1>2, <2>2, <3>2 DEF PopElement
      <3> QED
        BY <1>2, <2>2, <3>3, BlocksKept DEF CcIInv, CcTypeOK, Record, PopElement
    <2> QED
      BY <2>1, <2>2
  <1>3. ASSUME NEW t, end_fn_cparse(t) PROVE CcIInv'
    BY <1>3, Stopped DEF end_fn_cparse, C_ELEMENT_TAGS
  <1>4. ASSUME UNCHANGED ccVars PROVE CcIInv'
    <2>1. Len(parse') >= Len(parse)
      BY <1>1, <1>4 DEF ccVars
    <2> QED
      BY <1>4, <2>1, BlocksKept DEF CcIInv, CcTypeOK, Record, ccVars
  <1>5. "name" \in C_ELEMENT_TAGS
    BY DEF C_ELEMENT_TAGS
  <1> QED
    BY <1>2, <1>3, <1>4, <1>5
    DEF event_endElement_cc, end_other_cparse, end_name_cparse, CcEndIgnored

(* Text changes a string and makes no new one.                             *)
LEMMA CcCharacter ==
    ASSUME CcIInv, NEW ch \in Text, event_charactersUnit_cc(ch)
    PROVE  CcIInv'
  <1>1. parse \in Seq(Record) /\ Len(parse) \in Nat
    BY DEF CcIInv, CcTypeOK, Record
  <1>2. ch \in Piece
    BY DEF Piece
  <1>3. \A r \in Record : [r EXCEPT !.text = Append(r.text, ch)] \in Record
    <2>1. \A s \in Seq(Piece) : Append(s, ch) \in Seq(Piece)
      BY <1>2
    <2> QED
      BY <2>1 DEF Record
  <1>4. parse' \in Seq(Record) /\ Len(parse') = Len(parse)
    <2>1. CASE UNCHANGED parse
      BY <1>1, <2>1
    <2>2. CASE parse' = [parse EXCEPT ![Len(parse)].text = Append(@, ch)]
      <3> DEFINE n == Len(parse)
                 last == [parse[n] EXCEPT !.text = Append(parse[n].text, ch)]
      <3>1. parse' = [parse EXCEPT ![n] = last]
        BY <2>2
      <3>2. n > 0 => last \in Record
        BY <1>1, <1>3
      <3> HIDE DEF last
      <3>3. /\ parse' = [k \in 1..n |-> IF k = n THEN last ELSE parse[k]]
            /\ \A k \in 1..n : (IF k = n THEN last ELSE parse[k]) \in Record
        <4>1. DOMAIN parse = 1..n /\ \A k \in 1..n : parse[k] \in Record
          BY <1>1
        <4>2. \A k \in 1..n : k = n => last \in Record
          BY <1>1, <3>2
        <4>3. parse' = [k \in 1..n |-> IF k = n THEN last ELSE parse[k]]
          BY <3>1, <4>1, Zenon
        <4> QED
          BY <4>1, <4>2, <4>3
      <3>4. n \in Nat
        BY <1>1
      <3> HIDE DEF n
      <3>5. parse' \in Seq(Record) /\ Len(parse') = n
        BY <3>3, <3>4
      <3> QED
        BY <3>5 DEF n
    <2> QED
      BY <2>1, <2>2 DEF event_charactersUnit_cc
  <1>5. Len(parse') >= Len(parse)
    BY <1>1, <1>4
  <1> QED
    BY <1>4, <1>5, BlocksKept DEF CcIInv, CcTypeOK, event_charactersUnit_cc

(* The invariant is inductive, whatever the dispatcher does beside.        *)
LEMMA CcStep == CcIInv /\ [CcNext]_<<vars, ccVars>> => CcIInv'
  <1> SUFFICES ASSUME CcIInv, [CcNext]_<<vars, ccVars>> PROVE CcIInv'
    OBVIOUS
  <1>1. parse \in Seq(Record) /\ Len(parse) \in Nat
    BY DEF CcIInv, CcTypeOK, Record
  <1>2. ASSUME UNCHANGED ccVars PROVE CcIInv'
    <2>1. Len(parse') >= Len(parse)
      BY <1>1, <1>2 DEF ccVars
    <2> QED
      BY <1>2, <2>1, BlocksKept DEF CcIInv, CcTypeOK, Record, ccVars
  <1>3. CASE event_startDocument_cc
    <2>1. <<>> \in Seq(Record) /\ <<>> \in Seq(C_ELEMENT_TAGS) /\ <<>> \in Seq(1..0)
          /\ Len(<<>>) = 0
      OBVIOUS
    <2>2. /\ parse' = <<>> /\ elementStack' = <<>> /\ incomingStack' = <<>> /\ edges' = {}
          /\ callCount' = 0 /\ cc_error' = cc_error
          /\ current_unit' = 0 /\ current_fn' = 0 /\ first_stmt' = 0
      BY <1>3 DEF event_startDocument_cc, NoId
    <2>3. BlocksChained'
      BY <2>1, <2>2 DEF BlocksChained
    <2>4. CcTypeOK'
      BY <2>1, <2>2 DEF CcIInv, CcTypeOK, Record
    <2> QED
      BY <2>3, <2>4 DEF CcIInv
  <1>4. ASSUME NEW filename \in Filenames, event_startUnit_cc(filename) PROVE CcIInv'
    <2>1. CASE current_unit # NoId
      BY <1>4, <2>1, Stopped DEF event_startUnit_cc
    <2>2. CASE current_unit = NoId
      <3>1. <<filename>> \in Seq(Piece)
        <4>1. filename \in Piece
          BY DEF Piece
        <4> QED
          BY <4>1
      <3>2. "C_UNIT" \in C_INTERPRETATION_NAMES
        BY DEF C_INTERPRETATION_NAMES
      <3>3. parse' \in Seq(Record) /\ Len(parse') = Len(parse) + 1
        <4>1. parse' = Parsed(<<filename>>, "C_UNIT")
          BY <1>4, <2>2 DEF event_startUnit_cc, parse_cparse
        <4> QED
          BY <1>1, <3>1, <3>2, <4>1, ParsedString
      <3>4. {current_unit', current_fn', first_stmt'} \subseteq 0..Len(parse')
        BY <1>1, <1>4, <2>2, <3>3 DEF CcIInv, CcTypeOK, event_startUnit_cc
      <3>5. Len(parse') >= Len(parse)
        BY <1>1, <3>3
      <3> QED
        BY <1>4, <2>2, <3>3, <3>4, <3>5, BlocksKept DEF CcIInv, CcTypeOK, event_startUnit_cc
    <2> QED
      BY <2>1, <2>2
  <1>5. CASE event_endUnit_cc
    <2>1. Len(parse') >= Len(parse) /\ current_unit' = 0
      BY <1>1, <1>5 DEF event_endUnit_cc, NoId
    <2>2. {current_unit', current_fn', first_stmt'} \subseteq 0..Len(parse')
      BY <1>1, <1>5, <2>1 DEF CcIInv, CcTypeOK, event_endUnit_cc
    <2> QED
      BY <1>5, <2>1, <2>2, BlocksKept DEF CcIInv, CcTypeOK, Record, event_endUnit_cc
  <1>6. CASE UNCHANGED <<vars, ccVars>>
    BY <1>2, <1>6
  <1> QED
    BY <1>2, <1>3, <1>4, <1>5, <1>6, CcElementStarts, CcElementEnds, CcCharacter
    DEF CcNext, event_endDocument_cc

(* The invariant holds of every run.                                       *)
LEMMA CcInvariance == CcSpec => []CcIInv
  <1>1. CcSystemInit => CcIInv
    <2>1. <<>> \in Seq(Record) /\ <<>> \in Seq(C_ELEMENT_TAGS) /\ <<>> \in Seq(1..0)
          /\ Len(<<>>) = 0
      OBVIOUS
    <2> QED
      BY <2>1 DEF CcSystemInit, CcInit, CcIInv, CcTypeOK, BlocksChained, Record, NoId
  <1> QED
    BY <1>1, CcStep, PTL DEF CcSpec

(* What the parser keeps is of its types; in particular every block and    *)
(* every tracked string exists in the Chunk.                               *)
THEOREM CcTypeCorrect == CcSpec => []CcTypeOK
  <1>1. CcIInv => CcTypeOK
    BY DEF CcIInv
  <1> QED
    BY CcInvariance, <1>1, PTL

(* However blocks nest or follow each other, in whatever function or unit, *)
(* they make one chain: the stack of incoming blocks has one block at      *)
(* most, so an alternative or a loop never joins two.                      *)
THEOREM BlocksMakeOneChain == CcSpec => []BlocksChained
  <1>1. CcIInv => BlocksChained
    BY DEF CcIInv
  <1> QED
    BY CcInvariance, <1>1, PTL

-----------------------------------------------------------------------------
(* The stack and the open elements.                                        *)

KnownTags == C_ELEMENT_TAGS \ {"call"}

(* The elements of the stack are open, in this order, and those open       *)
(* elements that are always pushed are among them.                         *)
Places(place) ==
    /\ place \in [1..Len(elementStack) -> 1..Len(open)]
    /\ \A i, j \in 1..Len(elementStack) : i < j => place[i] < place[j]
    /\ \A i \in 1..Len(elementStack) : open[place[i]].tag = elementStack[i]
    /\ \A q \in 1..Len(open) :
          open[q].tag \in KnownTags => \E i \in 1..Len(elementStack) : place[i] = q

StackOnOpen == \E place : Places(place)

(* The innermost open element, where it is always pushed, is on top.       *)
LEMMA TopIsPushed ==
    ASSUME open \in Seq(Element), elementStack \in Seq(C_ELEMENT_TAGS),
           NEW place, Places(place), open # <<>>, Top.tag \in KnownTags
    PROVE  /\ elementStack # <<>> /\ PeekElement = Top.tag
           /\ place[Len(elementStack)] = Len(open)
  <1> DEFINE m == Len(elementStack)
             n == Len(open)
  <1>1. m \in Nat /\ n \in Nat /\ n \in 1..n
    OBVIOUS
  <1>2. PICK i \in 1..m : place[i] = n
    BY <1>1 DEF Places, Top
  <1>3. m \in 1..m /\ place[m] \in 1..n
    BY <1>1, <1>2 DEF Places
  <1>4. i < m => place[i] < place[m]
    BY <1>1, <1>2, <1>3 DEF Places
  <1>5. i = m
    BY <1>1, <1>2, <1>3, <1>4
  <1>6. elementStack[m] = Top.tag
    BY <1>2, <1>3, <1>5 DEF Places, Top
  <1>7. elementStack # <<>>
    BY <1>3
  <1> QED
    BY <1>2, <1>5, <1>6, <1>7 DEF PeekElement, Last

(* An element that starts is pushed, or is none of those that always are.  *)
LEMMA StartFollows ==
    ASSUME CcTypeOK, SaxTypeOK, StreamShape, StackOnOpen,
           NEW t \in Tags, SaxStartElement(t),
           PushElement(t) \/ (UNCHANGED elementStack /\ t \notin KnownTags)
    PROVE  StackOnOpen'
  <1> DEFINE m == Len(elementStack)
             n == Len(open)
  <1>1. /\ m \in Nat /\ n \in Nat /\ elementStack \in Seq(C_ELEMENT_TAGS)
        /\ DOMAIN open = 1..n
    BY DEF CcTypeOK, SaxTypeOK
  <1>2. /\ Len(open') = n + 1 /\ open'[n + 1].tag = t
        /\ \A i \in 1..n : open'[i].tag = open[i].tag
    BY <1>1, StartKeepsOpen
  <1>3. PICK place : Places(place)
    BY DEF StackOnOpen
  <1>4. /\ place \in [1..m -> 1..n]
        /\ \A i, j \in 1..m : i < j => place[i] < place[j]
        /\ \A i \in 1..m : open[place[i]].tag = elementStack[i]
        /\ \A q \in 1..n : open[q].tag \in KnownTags => \E i \in 1..m : place[i] = q
    BY <1>3 DEF Places
  <1>5. CASE UNCHANGED elementStack /\ t \notin KnownTags
    <2>1. /\ place \in [1..m -> 1..(n + 1)]
          /\ \A i \in 1..m : open'[place[i]].tag = elementStack[i]
      BY <1>1, <1>2, <1>4
    <2>2. \A q \in 1..(n + 1) : open'[q].tag \in KnownTags => \E i \in 1..m : place[i] = q
      <3>1. \A q \in 1..(n + 1) : q = n + 1 \/ q \in 1..n
        BY <1>1
      <3> QED
        BY <1>2, <1>4, <1>5, <3>1
    <2>3. Places(place)'
      BY <1>2, <1>4, <1>5, <2>1, <2>2 DEF Places, KnownTags, C_ELEMENT_TAGS
    <2> QED
      BY <2>3 DEF StackOnOpen
  <1>6. CASE PushElement(t)
    <2>1. /\ Len(elementStack') = m + 1 /\ elementStack'[m + 1] = t
          /\ \A i \in 1..m : elementStack'[i] = elementStack[i]
      BY <1>1, <1>6 DEF PushElement
    <2>2. PICK next :
              /\ next[m + 1] = n + 1 /\ \A i \in 1..m : next[i] = place[i] /\ place[i] \in 1..n
              /\ next \in [1..(m + 1) -> 1..(n + 1)]
      <3>1. m \in Nat /\ n \in Nat /\ place \in [1..m -> 1..n]
        BY <1>1, <1>4
      <3> HIDE DEF m, n
      <3> DEFINE more == [i \in 1..(m + 1) |-> IF i = m + 1 THEN n + 1 ELSE place[i]]
      <3>2. /\ m + 1 \in 1..(m + 1) /\ n + 1 \in 1..(n + 1)
            /\ \A i \in 1..m : i \in 1..(m + 1) /\ i # m + 1 /\ place[i] \in 1..n
            /\ \A i \in 1..(m + 1) : i # m + 1 => i \in 1..m /\ place[i] \in 1..(n + 1)
        BY <3>1
      <3>3. /\ more[m + 1] = n + 1 /\ \A i \in 1..m : more[i] = place[i] /\ place[i] \in 1..n
            /\ more \in [1..(m + 1) -> 1..(n + 1)]
        BY <3>2
      <3> QED
        BY <3>3, Zenon
    <2> HIDE DEF m, n
    <2>3. \A i \in 1..(m + 1) : i = m + 1 \/ i \in 1..m
      BY <1>1
    <2>4. \A i, j \in 1..(m + 1) : i < j => next[i] < next[j]
      <3>1. ASSUME NEW i \in 1..(m + 1), NEW j \in 1..(m + 1), i < j PROVE next[i] < next[j]
        <4>1. i \in 1..m
          BY <1>1, <3>1
        <4>2. CASE j = m + 1
          BY <1>1, <2>2, <4>1, <4>2
        <4>3. CASE j \in 1..m
          BY <1>4, <2>2, <3>1, <4>1, <4>3
        <4> QED
          BY <2>3, <4>2, <4>3
      <3> QED
        BY <3>1
    <2>5. \A i \in 1..(m + 1) : open'[next[i]].tag = elementStack'[i]
      <3>1. \A i \in 1..m : open'[next[i]].tag = elementStack'[i]
        BY <1>2, <1>4, <2>1, <2>2
      <3> QED
        BY <1>2, <2>1, <2>2, <2>3, <3>1
    <2>6. \A q \in 1..(n + 1) : open'[q].tag \in KnownTags => \E i \in 1..(m + 1) : next[i] = q
      <3>1. ASSUME NEW q \in 1..n, open'[q].tag \in KnownTags
            PROVE  \E i \in 1..(m + 1) : next[i] = q
        <4>1. PICK i \in 1..m : place[i] = q
          BY <1>2, <1>4, <3>1
        <4> QED
          BY <1>1, <2>2, <4>1
      <3>2. \A q \in 1..(n + 1) : q = n + 1 \/ q \in 1..n
        BY <1>1
      <3>3. m + 1 \in 1..(m + 1)
        BY <1>1
      <3> QED
        BY <2>2, <3>1, <3>2, <3>3
    <2>7. Places(next)'
      <3>1. next \in [1..Len(elementStack') -> 1..Len(open')]
        BY <1>2, <2>1, <2>2 DEF n
      <3> QED
        BY <1>2, <2>1, <2>4, <2>5, <2>6, <3>1 DEF Places, KnownTags, C_ELEMENT_TAGS, n
    <2> QED
      BY <2>7 DEF StackOnOpen
  <1> QED
    BY <1>5, <1>6

(* An element that ends takes a tag off the stack, its own or that of a    *)
(* call, or is none of those that are on it.                               *)
LEMMA EndFollows ==
    ASSUME CcTypeOK, SaxTypeOK, StreamShape, StackOnOpen,
           NEW t \in Tags, SaxEndElement(t),
           \/ /\ elementStack # <<>> /\ elementStack' = Front(elementStack)
              /\ PeekElement = "call" \/ t \in KnownTags
           \/ UNCHANGED elementStack /\ t \notin C_ELEMENT_TAGS
    PROVE  StackOnOpen'
  <1> DEFINE m == Len(elementStack)
             n == Len(open)
  <1>1. /\ m \in Nat /\ n \in Nat /\ n > 1 /\ elementStack \in Seq(C_ELEMENT_TAGS)
        /\ DOMAIN open = 1..n /\ open \in Seq(Element) /\ Top.tag = t /\ open # <<>>
    BY DEF CcTypeOK, SaxTypeOK, SaxEndElement
  <1>2. /\ Len(open') = n - 1 /\ \A i \in 1..(n - 1) : open'[i].tag = open[i].tag
    <2>1. DOMAIN open' = 1..Len(open')
      BY EndKeepsOpen DEF SaxTypeOK
    <2> QED
      BY <1>1, <2>1, EndKeepsOpen
  <1>3. PICK place : Places(place)
    BY DEF StackOnOpen
  <1>4. /\ place \in [1..m -> 1..n]
        /\ \A i, j \in 1..m : i < j => place[i] < place[j]
        /\ \A i \in 1..m : open[place[i]].tag = elementStack[i]
        /\ \A q \in 1..n : open[q].tag \in KnownTags => \E i \in 1..m : place[i] = q
    BY <1>3 DEF Places
  <1>5. CASE UNCHANGED elementStack /\ t \notin C_ELEMENT_TAGS
    <2>1. \A i \in 1..m : place[i] # n
      BY <1>1, <1>4, <1>5 DEF Top
    <2>2. place \in [1..m -> 1..(n - 1)]
      BY <1>1, <1>4, <2>1
    <2> HIDE DEF m, n
    <2>3. \A i \in 1..m : open'[place[i]].tag = elementStack[i]
      BY <1>2, <1>4, <2>2
    <2>4. \A q \in 1..(n - 1) : open'[q].tag \in KnownTags => \E i \in 1..m : place[i] = q
      <3>1. \A q \in 1..(n - 1) : q \in 1..n
        BY <1>1
      <3> QED
        BY <1>2, <1>4, <3>1
    <2>5. Len(elementStack') = m /\ Len(open') = n - 1
      BY <1>2, <1>5 DEF m, n
    <2>6. Places(place)'
      BY <1>4, <1>5, <2>2, <2>3, <2>4, <2>5 DEF Places, KnownTags, C_ELEMENT_TAGS
    <2> QED
      BY <2>6 DEF StackOnOpen
  <1>6. CASE /\ elementStack # <<>> /\ elementStack' = Front(elementStack)
             /\ PeekElement = "call" \/ t \in KnownTags
    <2>1. /\ m \in 1..m /\ Len(elementStack') = m - 1
          /\ \A i \in 1..(m - 1) : elementStack'[i] = elementStack[i]
      <3>1. m \in 1..m /\ m - 1 \in Nat
        BY <1>1, <1>6
      <3>2. elementStack' = SubSeq(elementStack, 1, m - 1)
        BY <1>6 DEF Front
      <3> HIDE DEF m
      <3>3. /\ SubSeq(elementStack, 1, m - 1) = [i \in 1..(m - 1) |-> elementStack[i]]
            /\ Len([i \in 1..(m - 1) |-> elementStack[i]]) = m - 1
        BY <1>1, <3>1 DEF m
      <3> QED
        BY <3>1, <3>2, <3>3
    <2>2. elementStack[m] = "call" \/ place[m] = n
      <3>1. t \in KnownTags => place[m] = n
        BY <1>1, <1>3, TopIsPushed
      <3>2. PeekElement = elementStack[m]
        BY <1>6 DEF PeekElement, Last
      <3> QED
        BY <1>6, <3>1, <3>2
    <2>3. \A i \in 1..(m - 1) : i \in 1..m /\ place[i] < place[m] /\ place[i] \in 1..(n - 1)
      <3>1. ASSUME NEW i \in 1..(m - 1) PROVE i \in 1..m /\ i < m
        BY <1>1, <3>1
      <3>2. ASSUME NEW i \in 1..(m - 1) PROVE place[i] < place[m] /\ place[i] \in 1..n
        BY <1>4, <2>1, <3>1, <3>2
      <3>3. place[m] \in 1..n
        BY <1>4, <2>1
      <3> HIDE DEF m, n
      <3> QED
        BY <1>1, <3>1, <3>2, <3>3
    <2>4. PICK next : /\ next \in [1..(m - 1) -> 1..(n - 1)]
                      /\ \A i \in 1..(m - 1) : next[i] = place[i]
      <3> DEFINE less == [i \in 1..(m - 1) |-> place[i]]
      <3>1. less \in [1..(m - 1) -> 1..(n - 1)] /\ \A i \in 1..(m - 1) : less[i] = place[i]
        BY <2>3
      <3> QED
        BY <3>1, Zenon
    <2> HIDE DEF m, n
    <2>5. ASSUME NEW q \in 1..(n - 1), open'[q].tag \in KnownTags
          PROVE  \E i \in 1..(m - 1) : next[i] = q
      <3>1. q \in 1..n /\ q # n /\ open[q].tag \in KnownTags
        BY <1>1, <1>2, <2>5
      <3>2. PICK i \in 1..m : place[i] = q
        BY <1>4, <3>1
      <3>3. i # m
        BY <1>4, <2>1, <2>2, <3>1, <3>2 DEF KnownTags
      <3>4. i \in 1..(m - 1)
        BY <1>1, <3>2, <3>3
      <3> QED
        BY <2>4, <3>2, <3>4
    <2>6. /\ \A i, j \in 1..(m - 1) : i < j => next[i] < next[j]
          /\ \A i \in 1..(m - 1) : open'[next[i]].tag = elementStack'[i]
      BY <1>2, <1>4, <2>1, <2>3, <2>4
    <2>7. Places(next)'
      <3>1. Len(open') = n - 1
        BY <1>2 DEF n
      <3>2. next \in [1..Len(elementStack') -> 1..Len(open')]
        BY <2>1, <2>4, <3>1
      <3> QED
        BY <2>1, <2>5, <2>6, <3>1, <3>2 DEF Places, KnownTags, C_ELEMENT_TAGS
    <2> QED
      BY <2>7 DEF StackOnOpen
  <1> QED
    BY <1>5, <1>6

(* Character data moves nothing.                                           *)
LEMMA TextFollows ==
    ASSUME SaxTypeOK, StreamShape, StackOnOpen, UNCHANGED elementStack,
           NEW ch \in Text, SaxCharacters(ch)
    PROVE  StackOnOpen'
  <1> DEFINE n == Len(open)
  <1>1. n \in Nat /\ Len(open') = n /\ \A i \in 1..n : open'[i].tag = open[i].tag
    BY CharactersKeepOpen DEF SaxTypeOK
  <1>2. PICK place : Places(place)
    BY DEF StackOnOpen
  <1>3. Places(place)'
    BY <1>1, <1>2 DEF Places, KnownTags, C_ELEMENT_TAGS
  <1> QED
    BY <1>3 DEF StackOnOpen

-----------------------------------------------------------------------------
(* The parser runs beside the dispatcher.                                  *)

(* What is proved of the dispatcher holds beside the parser.               *)
LEMMA ParserFollowsStream == CcSpec => []IInv
  <1>1. CcSystemInit => Init
    BY DEF CcSystemInit
  <1>2. [CcNext]_<<vars, ccVars>> => [Next]_vars
    BY DEF CcNext, Next
  <1>3. CcSpec => Spec
    BY <1>1, <1>2, PTL DEF CcSpec, Spec
  <1> QED
    BY <1>3, Invariance, PTL

(* Hypothesis: a break stands in a block.                                  *)
BreaksInBlocks ==
    \A i \in DOMAIN open :
        open[i].tag = "break" => i > 1 /\ open[i - 1].tag = "block_content"

StackIInv == cc_error = "none" => StackOnOpen

(* The start of an element pushes it, or fails, unless it need not.        *)
LEMMA StackStart ==
    ASSUME IInv, CcIInv, StackIInv, BreaksInBlocks', cc_error = "none",
           NEW t \in Tags, event_startElement(t), event_startElement_cc(t)
    PROVE  StackIInv'
  <1>1. SUFFICES ASSUME cc_error' = "none" PROVE StackOnOpen'
    BY DEF StackIInv
  <1>2. /\ SaxTypeOK /\ StreamShape /\ CcTypeOK /\ StackOnOpen
        /\ SaxStartElement(t)
    BY DEF IInv, TypeOK, CcIInv, StackIInv, event_startElement
  <1>3. CASE PushElement(t) \/ (UNCHANGED elementStack /\ t \notin KnownTags)
    BY <1>2, <1>3, StartFollows
  <1>4. CASE start_break_cparse(t)
    <2>1. SUFFICES ASSUME PeekElement # "block_content" PROVE FALSE
      BY <1>3, <1>4 DEF start_break_cparse
    <2>2. open # <<>> /\ Top.tag = "block_content"
      <3>1. /\ open \in Seq(Element) /\ open # <<>> /\ open' \in Seq(Element)
            /\ Len(open') = Len(open) + 1 /\ open'[Len(open')].tag = t
            /\ \A i \in DOMAIN open : open'[i].tag = open[i].tag
        BY <1>2, StartKeepsOpen DEF SaxTypeOK, StreamShape, SaxStartElement
      <3>2. t = "break" /\ Len(open) \in DOMAIN open /\ Len(open') \in DOMAIN open'
        BY <1>4, <3>1 DEF start_break_cparse
      <3>3. open'[Len(open') - 1].tag = "block_content"
        BY <3>1, <3>2 DEF BreaksInBlocks
      <3>4. Len(open') - 1 = Len(open)
        BY <3>1
      <3>5. open[Len(open)].tag = "block_content"
        BY <3>1, <3>2, <3>3, <3>4
      <3> QED
        BY <3>1, <3>5 DEF Top
    <2>3. PICK place : Places(place)
      BY <1>2 DEF StackOnOpen
    <2>4. PeekElement = Top.tag
      <3>1. open \in Seq(Element) /\ elementStack \in Seq(C_ELEMENT_TAGS)
        BY <1>2 DEF SaxTypeOK, CcTypeOK
      <3>2. Top.tag \in KnownTags
        BY <2>2 DEF KnownTags, C_ELEMENT_TAGS
      <3> QED
        BY <2>2, <2>3, <3>1, <3>2, TopIsPushed
    <2> QED
      BY <2>1, <2>2, <2>4
  <1>5. CASE start_call_cparse(t)
    BY <1>3, <1>5 DEF start_call_cparse, KnownTags
  <1>6. CASE start_fn_cparse(t)
    BY <1>1, <1>3, <1>6 DEF start_fn_cparse, Stop
  <1>7. CASE start_name_cparse(t)
    BY <1>1, <1>3, <1>7 DEF start_name_cparse
  <1>8. CASE start_block_content_cparse(t)
    BY <1>1, <1>3, <1>8 DEF start_block_content_cparse, Stop
  <1>9. CASE CcStartIgnored(t)
    BY <1>3, <1>9 DEF CcStartIgnored, ccVars, KnownTags
  <1> QED
    BY <1>3, <1>4, <1>5, <1>6, <1>7, <1>8, <1>9
    DEF event_startElement_cc, start_other_cparse, start_stmt_cparse, start_params_cparse

(* The end of an element takes its tag or that of a call off the stack, or *)
(* fails.                                                                  *)
LEMMA StackEnd ==
    ASSUME IInv, CcIInv, StackIInv, cc_error = "none",
           NEW t \in Tags, event_endElement(t), event_endElement_cc(t)
    PROVE  StackIInv'
  <1>1. SUFFICES ASSUME cc_error' = "none" PROVE StackOnOpen'
    BY DEF StackIInv
  <1>2. /\ SaxTypeOK /\ StreamShape /\ CcTypeOK /\ StackOnOpen
        /\ SaxEndElement(t)
    BY DEF IInv, TypeOK, CcIInv, StackIInv, event_endElement
  <1> DEFINE localname == IF t = "elseif" THEN "if" ELSE t
  <1>3. ASSUME localname \in C_ELEMENT_TAGS, PopElement(localname) PROVE StackOnOpen'
    <2>1. /\ PeekElement = localname /\ elementStack' = Front(elementStack)
      BY <1>1, <1>3 DEF PopElement, Stop, C_ELEMENT_TAGS
    <2>2. elementStack # <<>>
      BY <1>3, <2>1 DEF PeekElement, C_ELEMENT_TAGS
    <2>3. PeekElement = "call" \/ t \in KnownTags
      BY <1>3, <2>1 DEF KnownTags, C_ELEMENT_TAGS
    <2> QED
      BY <1>2, <2>1, <2>2, <2>3, EndFollows
  <1>4. CASE end_fn_cparse(localname)
    BY <1>1, <1>4 DEF end_fn_cparse, Stop
  <1>5. CASE CcEndIgnored(localname)
    <2>1. UNCHANGED elementStack /\ t \notin C_ELEMENT_TAGS
      BY <1>5 DEF CcEndIgnored, ccVars, C_ELEMENT_TAGS
    <2> QED
      BY <1>2, <2>1, EndFollows
  <1>6. "name" \in C_ELEMENT_TAGS
    BY DEF C_ELEMENT_TAGS
  <1> QED
    BY <1>3, <1>4, <1>5, <1>6 DEF event_endElement_cc, end_other_cparse, end_name_cparse

(* Outside units nothing is open and nothing is on the stack.              *)
LEMMA StackOutside ==
    ASSUME CcTypeOK, StackOnOpen, open' = <<>>, UNCHANGED elementStack,
           open = <<>> \/ (Len(open) = 1 /\ open[1].tag = "unit")
    PROVE  StackOnOpen'
  <1>1. PICK place : Places(place)
    BY DEF StackOnOpen
  <1>2. elementStack \in Seq(C_ELEMENT_TAGS)
    BY DEF CcTypeOK
  <1>3. elementStack = <<>>
    <2>1. ASSUME Len(elementStack) > 0 PROVE FALSE
      <3>1. 1 \in 1..Len(elementStack) /\ elementStack[1] \in C_ELEMENT_TAGS
        BY <1>2, <2>1
      <3>2. place[1] \in 1..Len(open) /\ open[place[1]].tag = elementStack[1]
        BY <1>1, <3>1 DEF Places
      <3>3. place[1] = 1 /\ open[1].tag = "unit"
        BY <3>2
      <3> QED
        BY <3>1, <3>2, <3>3 DEF C_ELEMENT_TAGS
    <2> QED
      BY <1>2, <2>1
  <1>4. PICK none : none \in [1..0 -> 1..0]
    <2>1. [i \in 1..0 |-> i] \in [1..0 -> 1..0]
      OBVIOUS
    <2> QED
      BY <2>1
  <1>5. elementStack' = <<>> /\ Len(elementStack') = 0 /\ Len(open') = 0
    BY <1>3
  <1>6. Places(none)'
    BY <1>4, <1>5 DEF Places, KnownTags, C_ELEMENT_TAGS
  <1> QED
    BY <1>6 DEF StackOnOpen

(* Nothing on the stack is nothing that is open.                           *)
LEMMA NothingFollows ==
    ASSUME elementStack = <<>>, open = <<>>
    PROVE  StackOnOpen
  <1>1. PICK none : none \in [1..0 -> 1..0]
    <2>1. [i \in 1..0 |-> i] \in [1..0 -> 1..0]
      OBVIOUS
    <2> QED
      BY <2>1
  <1>2. Places(none)
    BY <1>1 DEF Places
  <1> QED
    BY <1>2 DEF StackOnOpen

(* The stack follows the open elements in every step.                      *)
LEMMA StackStep ==
    IInv /\ IInv' /\ CcIInv /\ BreaksInBlocks' /\ StackIInv /\ [CcNext]_<<vars, ccVars>>
        => StackIInv'
  <1> SUFFICES ASSUME IInv, IInv', CcIInv, BreaksInBlocks', StackIInv,
                      [CcNext]_<<vars, ccVars>>
               PROVE  StackIInv'
    OBVIOUS
  <1>1. /\ SaxTypeOK /\ StreamShape /\ CcTypeOK
        /\ open \in Seq(Element) /\ open' \in Seq(Element)
        /\ phase' = "unit" <=> open' # <<>>
    BY DEF IInv, TypeOK, SaxTypeOK, CcIInv, StreamShape
  <1>2. CASE UNCHANGED <<vars, ccVars>>
    <2>1. StackOnOpen => StackOnOpen'
      BY <1>2 DEF vars, saxVars, ccVars, StackOnOpen, Places, KnownTags, C_ELEMENT_TAGS
    <2> QED
      BY <1>2, <2>1 DEF StackIInv, ccVars
  <1>3. CASE CcNext
    <2>1. cc_error = "none" /\ StackOnOpen
      BY <1>3 DEF CcNext, StackIInv
    <2>2. ASSUME NEW tag \in Tags, event_startElement(tag), event_startElement_cc(tag)
          PROVE  StackIInv'
      BY <2>1, <2>2, StackStart
    <2>3. ASSUME NEW tag \in Tags, event_endElement(tag), event_endElement_cc(tag)
          PROVE  StackIInv'
      BY <2>1, <2>3, StackEnd
    <2>4. ASSUME NEW ch \in Text, event_charactersUnit(ch), event_charactersUnit_cc(ch)
          PROVE  StackIInv'
      BY <1>1, <2>1, <2>4, TextFollows
      DEF StackIInv, event_charactersUnit, event_charactersUnit_cc
    <2>5. ASSUME phase # "unit", phase' # "unit", UNCHANGED elementStack PROVE StackIInv'
      <3>1. open = <<>> /\ open' = <<>>
        BY <1>1, <2>5 DEF StreamShape
      <3> QED
        BY <1>1, <2>1, <2>5, <3>1, StackOutside DEF StackIInv
    <2>6. CASE event_startDocument /\ event_startDocument_cc
      <3>1. elementStack' = <<>> /\ phase' # "unit"
        BY <2>6 DEF event_startDocument, event_startDocument_cc, SaxStartDocument, SaxMove
      <3>2. open' = <<>>
        BY <1>1, <3>1
      <3>3. PICK none : none \in [1..0 -> 1..0]
        <4>1. [i \in 1..0 |-> i] \in [1..0 -> 1..0]
          OBVIOUS
        <4> QED
          BY <4>1
      <3>4. StackOnOpen'
        <4>1. Places(none)'
          BY <3>1, <3>2, <3>3 DEF Places, KnownTags, C_ELEMENT_TAGS
        <4> QED
          BY <4>1 DEF StackOnOpen
      <3> QED
        BY <3>4 DEF StackIInv
    <2>7. CASE event_startRoot /\ UNCHANGED ccVars
      BY <2>5, <2>7 DEF event_startRoot, SaxStartRoot, SaxMove, ccVars
    <2>8. CASE event_endRoot /\ UNCHANGED ccVars
      BY <2>5, <2>8 DEF event_endRoot, SaxEndRoot, SaxMove, ccVars
    <2>9. CASE event_endDocument /\ event_endDocument_cc
      BY <2>5, <2>9 DEF event_endDocument, event_endDocument_cc, SaxEndDocument, SaxMove, ccVars
    <2>10. CASE event_endUnit /\ event_endUnit_cc
      <3>1. /\ open' = <<>> /\ UNCHANGED elementStack /\ Len(open) = 1 /\ open[1].tag = "unit"
        BY <1>1, <2>10 DEF event_endUnit, event_endUnit_cc, SaxEndUnit, StreamShape
      <3>2. StackOnOpen'
        BY <1>1, <2>1, <3>1, StackOutside
      <3> QED
        BY <3>2 DEF StackIInv
    <2>11. ASSUME NEW filename \in Filenames, event_startUnit(filename),
                  event_startUnit_cc(filename)
           PROVE  StackIInv'
      <3>1. /\ open = <<>> /\ open' = <<Fresh("unit")>> /\ UNCHANGED elementStack
        BY <1>1, <2>11
        DEF event_startUnit, event_startUnit_cc, SaxStartUnit, StreamShape, Stop
      <3>2. elementStack = <<>>
        <4>1. PICK place : Places(place)
          BY <2>1 DEF StackOnOpen
        <4>2. place \in [1..Len(elementStack) -> 1..0] /\ elementStack \in Seq(C_ELEMENT_TAGS)
          BY <1>1, <3>1, <4>1 DEF Places, CcTypeOK
        <4>3. Len(elementStack) = 0
          <5>1. ASSUME Len(elementStack) > 0 PROVE FALSE
            <6>1. 1 \in 1..Len(elementStack)
              BY <4>2, <5>1
            <6> QED
              BY <4>2, <6>1
          <5> QED
            BY <4>2, <5>1
        <4> QED
          BY <4>2, <4>3
      <3>3. PICK none : none \in [1..0 -> 1..1]
        <4>1. [i \in 1..0 |-> i] \in [1..0 -> 1..1]
          OBVIOUS
        <4> QED
          BY <4>1
      <3>4. /\ Len(elementStack') = 0 /\ Len(open') = 1 /\ open'[1].tag = "unit"
        BY <3>1, <3>2 DEF Fresh
      <3>5. Places(none)'
        BY <3>3, <3>4 DEF Places, KnownTags, C_ELEMENT_TAGS
      <3> QED
        BY <3>5 DEF StackIInv, StackOnOpen
    <2> QED
      BY <1>3, <2>2, <2>3, <2>4, <2>6, <2>7, <2>8, <2>9, <2>10, <2>11 DEF CcNext
  <1> QED
    BY <1>2, <1>3

(* The stack follows the open elements as long as the program runs.        *)
LEMMA StackInvariance == CcSpec /\ []BreaksInBlocks => []StackIInv
  <1>1. CcSystemInit => StackIInv
    BY NothingFollows DEF CcSystemInit, CcInit, Init, SaxInit, StackIInv
  <1> QED
    BY <1>1, StackStep, CcInvariance, ParserFollowsStream, PTL DEF CcSpec

(* What KnownIn says: the known elements are taken one by one.             *)
LEMMA KnownFollows ==
    ASSUME NEW S, NEW path \in Seq(S)
    PROVE  /\ KnownIn(path)[0] = <<>>
           /\ \A n \in 1..Len(path) :
                 KnownIn(path)[n] = IF path[n] \in KnownTags
                                    THEN Append(KnownIn(path)[n - 1], path[n])
                                    ELSE KnownIn(path)[n - 1]
  <1> DEFINE len == Len(path)
             Next1(i, known) == IF path[i] \in KnownTags THEN Append(known, path[i]) ELSE known
             step == [p \in (1..len) \X Seq(S) |-> Next1(p[1], p[2])]
             Eqn(t) == t = [n \in 0..len |-> IF n = 0 THEN <<>>
                                             ELSE IF path[n] \in KnownTags
                                             THEN Append(t[n - 1], path[n]) ELSE t[n - 1]]
  <1>1. len \in Nat /\ <<>> \in Seq(S)
    OBVIOUS
  <1>2. step \in [(1..len) \X Seq(S) -> Seq(S)]
    <2>1. ASSUME NEW i \in 1..len, NEW known \in Seq(S) PROVE Next1(i, known) \in Seq(S)
      <3>1. path[i] \in S
        BY <2>1
      <3> QED
        BY <2>1, <3>1
    <2> HIDE DEF Next1
    <2> QED
      BY <2>1
  <1>3. PICK f : Carries(f, len, Seq(S), <<>>, step)
    <2> HIDE DEF len, step
    <2> QED
      BY <1>1, <1>2, Carried
  <1>4. f \in [0..len -> Seq(S)] /\ f[0] = <<>>
    BY <1>3 DEF Carries
  <1>5. ASSUME NEW i \in 1..len PROVE f[i] = Next1(i, f[i - 1])
    <2>1. i - 1 \in 0..len
      BY <1>1
    <2>2. f[i - 1] \in Seq(S)
      BY <1>4, <2>1
    <2>3. f[i] = step[<<i, f[i - 1]>>]
      BY <1>3 DEF Carries
    <2> HIDE DEF Next1, len
    <2> QED
      BY <2>2, <2>3
  <1>6. Eqn(f)
    <2>1. ASSUME NEW i \in 0..len, i # 0 PROVE f[i] = Next1(i, f[i - 1])
      BY <1>1, <1>5, <2>1
    <2> HIDE DEF len
    <2> QED
      BY <1>4, <2>1
  <1>7. Eqn(CHOOSE u : Eqn(u))
    BY <1>6
  <1>8. KnownIn(path) = CHOOSE u : Eqn(u)
    BY DEF KnownIn, KnownTags
  <1>9. Eqn(KnownIn(path))
    BY <1>7, <1>8
  <1> DEFINE u == KnownIn(path)
  <1>10. u[0] = <<>> /\ \A i \in 1..len : u[i] = Next1(i, u[i - 1])
    <2>1. Eqn(u)
      BY <1>9
    <2> HIDE DEF u, len
    <2>2. 0 \in 0..len /\ \A i \in 1..len : i \in 0..len /\ i # 0
      BY <1>1
    <2> QED
      BY <2>1, <2>2
  <1> QED
    BY <1>10

(* A function on the first numbers is a sequence.                          *)
LEMMA FiniteFunction ==
    ASSUME NEW S, NEW k \in Nat, NEW f \in [1..k -> S]
    PROVE  f \in Seq(S) /\ Len(f) = k
  OBVIOUS

(* Up to every place of the open elements, the known ones are those of the *)
(* part of the stack that is in these places.                              *)
LEMMA SameKnown ==
    ASSUME open \in Seq(Element), elementStack \in Seq(C_ELEMENT_TAGS),
           NEW place, Places(place)
    PROVE  KnownIn(elementStack)[Len(elementStack)] = KnownIn(OpenPath)[Len(open)]
  <1> DEFINE m == Len(elementStack)
             n == Len(open)
             onStack == KnownIn(elementStack)
             inOpen == KnownIn(OpenPath)
             Cut(q, k) == /\ \A i \in 1..k : place[i] <= q
                          /\ \A i \in (k + 1)..m : place[i] > q
             Bad == {q \in 0..n : \E k \in 0..m : Cut(q, k) /\ inOpen[q] # onStack[k]}
  <1>1. /\ m \in Nat /\ n \in Nat
        /\ place \in [1..m -> 1..n]
        /\ \A i, j \in 1..m : i < j => place[i] < place[j]
        /\ \A i \in 1..m : open[place[i]].tag = elementStack[i]
        /\ \A q \in 1..n : open[q].tag \in KnownTags => \E i \in 1..m : place[i] = q
    BY DEF Places
  <1>2. /\ onStack[0] = <<>>
        /\ \A k \in 1..m :
              onStack[k] = IF elementStack[k] \in KnownTags
                           THEN Append(onStack[k - 1], elementStack[k]) ELSE onStack[k - 1]
    BY KnownFollows
  <1>3. /\ inOpen[0] = <<>>
        /\ \A q \in 1..n :
              inOpen[q] = IF open[q].tag \in KnownTags
                          THEN Append(inOpen[q - 1], open[q].tag) ELSE inOpen[q - 1]
    <2>1. OpenPath = [q \in 1..n |-> open[q].tag]
      BY DEF OpenPath
    <2>2. OpenPath \in Seq(Tags \cup {"unit"}) /\ Len(OpenPath) = n
      <3>1. \A q \in 1..n : open[q] \in Element
        BY <1>1
      <3>2. \A q \in 1..n : open[q].tag \in Tags \cup {"unit"}
        BY <3>1 DEF Element
      <3>3. OpenPath \in [1..n -> Tags \cup {"unit"}]
        BY <2>1, <3>2, Zenon
      <3> QED
        BY <1>1, <3>3, FiniteFunction
    <2>3. /\ KnownIn(OpenPath)[0] = <<>>
          /\ \A q \in 1..Len(OpenPath) :
                KnownIn(OpenPath)[q] = IF OpenPath[q] \in KnownTags
                                       THEN Append(KnownIn(OpenPath)[q - 1], OpenPath[q])
                                       ELSE KnownIn(OpenPath)[q - 1]
      BY <2>2, KnownFollows, Zenon
    <2>4. \A q \in 1..n : OpenPath[q] = open[q].tag
      BY <2>1
    <2> QED
      BY <2>2, <2>3, <2>4
  <1> HIDE DEF onStack, inOpen, m, n
  <1>4. ASSUME Bad # {} PROVE FALSE
    <2>1. PICK q \in Bad : \A y \in Bad : q <= y
      <3>1. Bad \subseteq Nat
        BY <1>1
      <3> HIDE DEF Bad
      <3> QED
        BY <1>4, <3>1, NatMinimum, Zenon
    <2>2. q \in 0..n
      OBVIOUS
    <2>3. PICK k \in 0..m : Cut(q, k) /\ inOpen[q] # onStack[k]
      OBVIOUS
    <2>4. q # 0
      <3>1. ASSUME q = 0 PROVE FALSE
        <4>1. k = 0
          <5>1. ASSUME k # 0 PROVE FALSE
            <6>1. 1 \in 1..k /\ 1 \in 1..m
              BY <1>1, <2>3, <5>1
            <6>2. place[1] <= 0 /\ place[1] \in 1..n
              BY <1>1, <2>3, <3>1, <6>1
            <6> QED
              BY <1>1, <6>2
          <5> QED
            BY <5>1
        <4> QED
          BY <1>2, <1>3, <2>3, <3>1, <4>1
      <3> QED
        BY <3>1
    <2>5. q \in 1..n /\ q - 1 \in 0..n /\ q - 1 \notin Bad
      <3>1. q \in 1..n /\ q - 1 \in 0..n /\ ~(q <= q - 1)
        BY <1>1, <2>2, <2>4
      <3> QED
        BY <2>1, <3>1
    <2>6. CASE k > 0 /\ place[k] = q
      <3>1. k \in 1..m /\ k - 1 \in 0..m
        BY <1>1, <2>3, <2>6
      <3>2. Cut(q - 1, k - 1)
        <4>1. ASSUME NEW i \in 1..(k - 1) PROVE place[i] <= q - 1
          <5>1. i \in 1..m /\ i < k
            BY <1>1, <3>1, <4>1
          <5>2. place[i] < place[k] /\ place[i] \in 1..n
            BY <1>1, <3>1, <5>1
          <5> QED
            BY <1>1, <2>5, <2>6, <5>2
        <4>2. ASSUME NEW i \in ((k - 1) + 1)..m PROVE place[i] > q - 1
          <5>1. i = k \/ i \in (k + 1)..m
            BY <1>1, <3>1, <4>2
          <5>2. i \in (k + 1)..m => place[i] > q /\ place[i] \in 1..n
            <6>1. i \in (k + 1)..m => i \in 1..m
              BY <1>1, <3>1
            <6> QED
              BY <1>1, <2>3, <6>1
          <5> QED
            BY <1>1, <2>5, <2>6, <5>1, <5>2
        <4> QED
          BY <4>1, <4>2
      <3>3. inOpen[q - 1] = onStack[k - 1]
        BY <2>5, <3>1, <3>2
      <3>4. open[q].tag = elementStack[k]
        BY <1>1, <2>6, <3>1
      <3>5. inOpen[q] = onStack[k]
        BY <1>2, <1>3, <2>5, <3>1, <3>3, <3>4
      <3> QED
        BY <2>3, <3>5
    <2>7. CASE ~(k > 0 /\ place[k] = q)
      <3>1. \A i \in 1..m : place[i] # q
        <4>1. ASSUME NEW i \in 1..m, place[i] = q PROVE FALSE
          <5>1. i \in 1..k
            <6>1. i \notin (k + 1)..m
              BY <1>1, <2>3, <2>5, <4>1
            <6> QED
              BY <1>1, <2>3, <4>1, <6>1
          <5>2. k \in 1..m /\ i < k
            BY <1>1, <2>3, <2>7, <4>1, <5>1
          <5>3. place[i] < place[k] /\ place[k] <= q /\ place[k] \in 1..n
            <6>1. k \in 1..k
              BY <5>2
            <6> QED
              BY <1>1, <2>3, <4>1, <5>2, <6>1
          <5> QED
            BY <1>1, <2>5, <4>1, <5>3
        <4> QED
          BY <4>1
      <3>2. open[q].tag \notin KnownTags
        BY <1>1, <2>5, <3>1
      <3>3. Cut(q - 1, k)
        <4>1. ASSUME NEW i \in 1..k PROVE place[i] <= q - 1
          <5>1. i \in 1..m
            BY <1>1, <2>3, <4>1
          <5>2. place[i] <= q /\ place[i] # q /\ place[i] \in 1..n
            BY <1>1, <2>3, <3>1, <4>1, <5>1
          <5> QED
            BY <1>1, <2>5, <5>2
        <4>2. ASSUME NEW i \in (k + 1)..m PROVE place[i] > q - 1
          <5>1. i \in 1..m
            BY <1>1, <2>3, <4>2
          <5>2. place[i] > q /\ place[i] \in 1..n
            BY <1>1, <2>3, <4>2, <5>1
          <5> QED
            BY <1>1, <2>5, <5>2
        <4> QED
          BY <4>1, <4>2
      <3>4. inOpen[q - 1] = onStack[k]
        BY <2>3, <2>5, <3>3
      <3> QED
        BY <1>3, <2>3, <2>5, <3>2, <3>4
    <2> QED
      BY <2>6, <2>7
  <1>5. Cut(n, m) /\ n \in 0..n /\ m \in 0..m
    <2>1. \A i \in 1..m : place[i] <= n
      BY <1>1
    <2>2. (m + 1)..m = {}
      BY <1>1
    <2> QED
      BY <1>1, <2>1, <2>2
  <1>6. inOpen[n] = onStack[m]
    BY <1>4, <1>5
  <1> QED
    BY <1>6 DEF onStack, inOpen, m, n

(* Where a break stands in a block, the stack is the path of open elements *)
(* from the unit to the event as long as the program runs: handlers that   *)
(* ask for the parent find it, whatever calls are left on the stack.       *)
THEOREM StackIsPath == CcSpec /\ []BreaksInBlocks => []StackFollowsOpen
  <1>1. StackIInv /\ CcIInv /\ IInv => StackFollowsOpen
    <2>1. SUFFICES ASSUME StackIInv, CcIInv, IInv, cc_error = "none"
                   PROVE  KnownIn(elementStack)[Len(elementStack)] = KnownIn(OpenPath)[Len(open)]
      BY DEF StackFollowsOpen
    <2>2. PICK place : Places(place)
      BY <2>1 DEF StackIInv, StackOnOpen
    <2>3. open \in Seq(Element) /\ elementStack \in Seq(C_ELEMENT_TAGS)
      BY <2>1 DEF IInv, TypeOK, SaxTypeOK, CcIInv, CcTypeOK
    <2> QED
      BY <2>2, <2>3, SameKnown
  <1> QED
    BY <1>1, StackInvariance, CcInvariance, ParserFollowsStream, PTL

-----------------------------------------------------------------------------
(* The function whose name, first block and incoming block are tracked.    *)

(* Hypothesis: of the children of a function only its type, its parameters *)
(* and its body hold elements.                                             *)
FunctionParts ==
    \A i \in DOMAIN open :
        open[i].tag = "function" /\ i < Len(open) =>
            \/ open[i + 1].tag \in {"type", "parameter_list", "block_content"}
            \/ open[i + 1].tag \notin C_ELEMENT_TAGS \ {"name"} /\ Len(open) = i + 1

(* Hypothesis: blocks are the bodies of functions, or are in them.         *)
BlocksInBodies ==
    \A b \in DOMAIN open :
        open[b].tag = "block_content" =>
            \E i \in 1..(b - 1) : open[i].tag = "function" /\ open[i + 1].tag = "block_content"

(* Hypothesis: a function has one name and one body.                       *)
OneNameOneBody ==
    \A part \in {"name", "block_content"} :
        \A j, k \in DOMAIN Grammar["function"] :
            part \in Grammar["function"][j].tags /\ part \in Grammar["function"][k].tags =>
                j = k /\ ~Grammar["function"][k].many

(* Hypothesis: no name has a semicolon.                                    *)
NamesAreWords == "name" \in Tags => ";" \notin Texts["name"]

(* The element, a function, has had a child of the kind.                   *)
Got(e, part) ==
    \E k \in DOMAIN Grammar["function"] :
        part \in Grammar["function"][k].tags /\ k <= e.slot

(* While the program runs, one function has started at most, what is       *)
(* tracked is about it, and what is tracked has used up a slot of it.      *)
FnIInv ==
    /\ phase # "unit" => current_unit = NoId
    /\ \A i, j \in OpenOf("function") : i = j
    /\ OpenOf("function") = {} =>
          current_fn = NoId /\ first_stmt = NoId /\ incomingStack = <<>>
    /\ \A i \in OpenOf("function") :
          /\ \A part \in {"name", "block_content"} :
                i < Len(open) /\ open[i + 1].tag = part => Got(open[i], part)
          /\ first_stmt # NoId \/ incomingStack # <<>> => Got(open[i], "block_content")
          /\ current_fn # NoId => Got(open[i], "name")

(* The function's name is the last string as long as its name element is   *)
(* open, and then only until another child of the function records one.    *)
FnNameIInv ==
    \A i \in OpenOf("function") :
       current_fn # NoId =>
          /\ parse[current_fn].interpretation = "C_FN_NAME"
          /\ parse[current_fn].text =
                 IF i < Len(open) /\ open[i + 1].tag = "name" THEN open[i + 1].text
                 ELSE open[i].name
          /\ i < Len(open) /\ open[i + 1].tag = "name" => current_fn = Len(parse)
          /\ current_fn = Len(parse) /\ i < Len(open) =>
                 open[i + 1].tag \notin {"type", "parameter_list", "block_content"}

(* What has ended the program, if anything has.                            *)
EndIInv ==
    /\ cc_error \in {"none", "function", "call", "if"}
    /\ cc_error = "if" => PeekElement = "elseif"

(* What the start of an element changes of the others, and which slot of   *)
(* its parent it takes.                                                    *)
LEMMA ChildStarts ==
    ASSUME SaxTypeOK, StreamShape, NEW t \in Tags, SaxStartElement(t)
    PROVE  /\ Len(open) \in Nat /\ Len(open) >= 1 /\ Len(open') = Len(open) + 1
           /\ phase' = "unit" /\ DOMAIN open = 1..Len(open) /\ DOMAIN open' = 1..(Len(open) + 1)
           /\ open'[Len(open) + 1].tag = t /\ open'[Len(open) + 1].text = <<>>
           /\ \A i \in 1..Len(open) :
                 /\ open'[i].tag = open[i].tag /\ open'[i].text = open[i].text
                 /\ open'[i].name = open[i].name
                 /\ open[i].slot \in Nat /\ open'[i].slot \in Nat /\ open'[i].slot >= open[i].slot
           /\ LET k == open'[Len(open)].slot IN
              k \in DOMAIN Grammar[open[Len(open)].tag] /\ Accepts(open[Len(open)], k, t)
  <1> DEFINE n == Len(open)
  <1>1. /\ open \in Seq(Element) /\ open' \in Seq(Element) /\ n \in Nat /\ n >= 1
        /\ Len(open') = n + 1 /\ phase' = "unit"
    <2>1. open # <<>> /\ phase' = "unit"
      BY DEF StreamShape, SaxStartElement
    <2> QED
      BY <2>1, StartKeepsOpen DEF SaxTypeOK
  <1>2. PICK k \in DOMAIN Grammar[Top.tag] :
            Accepts(Top, k, t) /\ open'[n] = [Top EXCEPT !.slot = k]
    BY Started
  <1>3. Top = open[n] /\ Top \in Element /\ Top' = open'[n + 1]
    BY <1>1 DEF Top
  <1>4. k \in Nat /\ Top.slot \in Nat /\ k >= Top.slot
    <2>1. Grammar[Top.tag] \in Seq(Slot) /\ Top.slot \in Nat
      BY <1>3, StreamAssumption DEF Element
    <2>2. k \in Nat
      BY <2>1
    <2>3. k > Top.slot \/ k = Top.slot
      BY <1>2 DEF Accepts
    <2> QED
      BY <2>1, <2>2, <2>3
  <1>5. /\ open'[n].tag = open[n].tag /\ open'[n].text = open[n].text
        /\ open'[n].name = open[n].name /\ open'[n].slot = k
    BY <1>2, <1>3 DEF Element
  <1>6. \A i \in 1..(n - 1) : open'[i] = open[i] /\ open[i].slot \in Nat
    <2>1. \A i \in 1..(n - 1) : open'[i] = open[i]
      BY Started
    <2>2. \A i \in 1..(n - 1) : open[i] \in Element
      BY <1>1
    <2> QED
      BY <2>1, <2>2 DEF Element
  <1>7. open'[n + 1].tag = t /\ open'[n + 1].text = <<>>
    <2>1. Top' = Fresh(t)
      BY Started
    <2> QED
      BY <1>3, <2>1 DEF Fresh
  <1>8. \A i \in 1..n :
            /\ open'[i].tag = open[i].tag /\ open'[i].text = open[i].text
            /\ open'[i].name = open[i].name
            /\ open[i].slot \in Nat /\ open'[i].slot \in Nat /\ open'[i].slot >= open[i].slot
    <2>1. ASSUME NEW i \in 1..n
          PROVE  /\ open'[i].tag = open[i].tag /\ open'[i].text = open[i].text
                 /\ open'[i].name = open[i].name
                 /\ open[i].slot \in Nat /\ open'[i].slot \in Nat
                 /\ open'[i].slot >= open[i].slot
      <3>1. CASE i = n
        BY <1>3, <1>4, <1>5, <3>1
      <3>2. CASE i \in 1..(n - 1)
        BY <1>6, <3>2
      <3> QED
        BY <1>1, <3>1, <3>2
    <2> QED
      BY <2>1
  <1>9. DOMAIN open = 1..n /\ DOMAIN open' = 1..(n + 1)
    BY <1>1
  <1> QED
    BY <1>1, <1>2, <1>3, <1>5, <1>7, <1>8, <1>9

(* What the end of an element changes of the others.                       *)
LEMMA ChildEnds ==
    ASSUME SaxTypeOK, StreamShape, NEW t \in Tags, SaxEndElement(t)
    PROVE  /\ Len(open) \in Nat /\ Len(open) > 1 /\ Len(open') = Len(open) - 1
           /\ phase' = "unit" /\ DOMAIN open = 1..Len(open) /\ DOMAIN open' = 1..(Len(open) - 1)
           /\ open[Len(open)].tag = t
           /\ \A i \in 1..(Len(open) - 1) :
                 /\ open'[i].tag = open[i].tag /\ open'[i].text = open[i].text
                 /\ open'[i].slot = open[i].slot
                 /\ open'[i].name = IF i = Len(open) - 1 /\ t = "name" /\ open[i].tag = "function"
                                    THEN open[Len(open)].text ELSE open[i].name
  <1> DEFINE n == Len(open)
  <1>1. /\ open \in Seq(Element) /\ open' \in Seq(Element) /\ n \in Nat /\ n > 1
        /\ Len(open') = n - 1 /\ phase' = "unit" /\ open[n].tag = t
    <2>1. n > 1 /\ phase' = "unit"
      BY DEF SaxEndElement
    <2>2. /\ SaxTypeOK' /\ Len(open') = n - 1 /\ open[n].tag = t
      BY EndKeepsOpen
    <2> QED
      BY <2>1, <2>2 DEF SaxTypeOK
  <1>2. \A i \in 1..(n - 2) : open'[i] = open[i]
    BY Ended
  <1>3. Top = open[n] /\ Top' = open'[n - 1] /\ open[n - 1] \in Element
    BY <1>1 DEF Top
  <1>4. open'[n - 1] = IF t = "name" /\ open[n - 1].tag = "function"
                       THEN [open[n - 1] EXCEPT !.name = open[n].text]
                       ELSE open[n - 1]
    BY <1>3, Ended
  <1>5. /\ open'[n - 1].tag = open[n - 1].tag /\ open'[n - 1].text = open[n - 1].text
        /\ open'[n - 1].slot = open[n - 1].slot
        /\ open'[n - 1].name = IF t = "name" /\ open[n - 1].tag = "function"
                               THEN open[n].text ELSE open[n - 1].name
    BY <1>3, <1>4 DEF Element
  <1>6. \A i \in 1..(n - 1) : i = n - 1 \/ (i \in 1..(n - 2) /\ i # n - 1)
    BY <1>1
  <1>7. DOMAIN open = 1..n /\ DOMAIN open' = 1..(n - 1)
    BY <1>1
  <1> HIDE DEF n
  <1>8. \A i \in 1..(n - 1) :
            /\ open'[i].tag = open[i].tag /\ open'[i].text = open[i].text
            /\ open'[i].slot = open[i].slot
            /\ open'[i].name = IF i = n - 1 /\ t = "name" /\ open[i].tag = "function"
                               THEN open[n].text ELSE open[i].name
    BY <1>2, <1>5, <1>6
  <1> QED
    BY <1>1, <1>7, <1>8 DEF n

(* The element on top of the stack is open, and those in it are not known. *)
LEMMA PeekIsOpen ==
    ASSUME SaxTypeOK, CcTypeOK, StackOnOpen, PeekElement \in C_ELEMENT_TAGS
    PROVE  \E p \in 1..Len(open) :
              /\ open[p].tag = PeekElement
              /\ \A q \in (p + 1)..Len(open) : open[q].tag \notin KnownTags
  <1> DEFINE m == Len(elementStack)
             n == Len(open)
  <1>1. /\ elementStack \in Seq(C_ELEMENT_TAGS) /\ m \in Nat /\ n \in Nat
    BY DEF CcTypeOK, SaxTypeOK
  <1>2. m \in 1..m /\ PeekElement = elementStack[m]
    <2>1. elementStack # <<>>
      BY DEF PeekElement, C_ELEMENT_TAGS
    <2> QED
      BY <1>1, <2>1 DEF PeekElement, Last
  <1>3. PICK place : Places(place)
    BY DEF StackOnOpen
  <1>4. /\ place[m] \in 1..n /\ open[place[m]].tag = PeekElement
        /\ \A i \in 1..m : place[i] \in 1..n /\ (i < m => place[i] < place[m])
        /\ \A q \in 1..n : open[q].tag \in KnownTags => \E i \in 1..m : place[i] = q
    BY <1>2, <1>3 DEF Places
  <1>5. ASSUME NEW q \in (place[m] + 1)..n PROVE open[q].tag \notin KnownTags
    <2>1. q \in 1..n /\ q > place[m]
      BY <1>1, <1>4, <1>5
    <2>2. ASSUME NEW i \in 1..m PROVE place[i] # q
      BY <1>1, <1>4, <2>1, <2>2
    <2> QED
      BY <1>4, <2>1, <2>2
  <1> QED
    BY <1>4, <1>5

(* A child starts under a function on top of the stack only in it.         *)
LEMMA FunctionIsParent ==
    ASSUME IInv, CcTypeOK, StackOnOpen, FunctionParts', PeekElement = "function",
           NEW t \in Tags, SaxStartElement(t)
    PROVE  open[Len(open)].tag = "function"
  <1> DEFINE n == Len(open)
  <1>1. SaxTypeOK /\ StreamShape
    BY DEF IInv, TypeOK
  <1>2. PICK p \in 1..n :
            /\ open[p].tag = "function"
            /\ \A q \in (p + 1)..n : open[q].tag \notin KnownTags
    <2>1. PeekElement \in C_ELEMENT_TAGS
      BY DEF C_ELEMENT_TAGS
    <2> QED
      BY <1>1, <2>1, PeekIsOpen
  <1>3. /\ n \in Nat /\ n >= 1 /\ Len(open') = n + 1 /\ DOMAIN open' = 1..(n + 1)
        /\ \A i \in 1..n : open'[i].tag = open[i].tag
    BY <1>1, ChildStarts
  <1>4. CASE p < n
    <2>1. p + 1 \in (p + 1)..n /\ p + 1 \in 1..n /\ p \in 1..(n + 1) /\ p < n + 1 /\ n + 1 # p + 1
      BY <1>2, <1>3, <1>4
    <2>2. open'[p + 1].tag \in {"type", "parameter_list", "block_content"}
      BY <1>2, <1>3, <2>1 DEF FunctionParts
    <2>3. open[p + 1].tag \notin KnownTags /\ open'[p + 1].tag = open[p + 1].tag
      BY <1>2, <1>3, <2>1
    <2> QED
      BY <2>2, <2>3 DEF KnownTags, C_ELEMENT_TAGS
  <1>5. CASE p = n
    BY <1>2, <1>5
  <1> QED
    BY <1>2, <1>3, <1>4, <1>5

(* The innermost open element is on top of the stack when it always is.    *)
LEMMA ParentOnTop ==
    ASSUME IInv, CcTypeOK, StackOnOpen, phase = "unit", open[Len(open)].tag \in KnownTags
    PROVE  elementStack # <<>> /\ PeekElement = open[Len(open)].tag
  <1>1. PICK place : Places(place)
    BY DEF StackOnOpen
  <1>2. /\ open \in Seq(Element) /\ elementStack \in Seq(C_ELEMENT_TAGS) /\ open # <<>>
        /\ Top.tag \in KnownTags
    BY DEF IInv, TypeOK, SaxTypeOK, CcTypeOK, StreamShape, Top
  <1>3. PeekElement = Top.tag /\ elementStack # <<>>
    BY <1>1, <1>2, TopIsPushed
  <1> QED
    BY <1>3 DEF Top

(* With nothing on the stack no function is open.                          *)
LEMMA NoFunctionOpen ==
    ASSUME SaxTypeOK, StackOnOpen, elementStack = <<>>
    PROVE  OpenOf("function") = {}
  <1>1. PICK place : Places(place)
    BY DEF StackOnOpen
  <1>2. \A q \in 1..Len(open) : open[q].tag \notin KnownTags
    BY <1>1 DEF Places
  <1>3. "function" \in KnownTags /\ DOMAIN open = 1..Len(open)
    BY DEF KnownTags, C_ELEMENT_TAGS, SaxTypeOK
  <1> QED
    BY <1>2, <1>3 DEF OpenOf

(* A function that has got a name, or a body, does not get another.        *)
LEMMA GotOnce ==
    ASSUME OneNameOneBody, NEW part \in {"name", "block_content"},
           NEW e, e.tag = "function", e.slot \in Nat, Got(e, part), NEW k,
           k \in DOMAIN Grammar[e.tag], Accepts(e, k, part), "function" \in Tags
    PROVE  FALSE
  <1>1. PICK j \in DOMAIN Grammar["function"] :
            part \in Grammar["function"][j].tags /\ j <= e.slot
    BY DEF Got
  <1>2. part \in Grammar["function"][k].tags /\ (k > e.slot \/ Grammar["function"][k].many)
    BY DEF Accepts
  <1>3. j = k /\ ~Grammar["function"][k].many
    BY <1>1, <1>2 DEF OneNameOneBody
  <1>4. k \in Nat
    <2>1. Grammar["function"] \in Seq(Slot)
      BY StreamAssumption
    <2> QED
      BY <2>1
  <1> QED
    BY <1>1, <1>2, <1>3, <1>4

(* The start of a function finds the stack empty, or fails.                *)
LEMMA FnFunctionStarts ==
    ASSUME IInv, CcIInv, StackOnOpen, FnIInv,
           SaxStartElement("function"), "function" \in Tags, start_fn_cparse("function"),
           UNCHANGED current_unit, cc_error' = "none"
    PROVE  FnIInv' /\ FnNameIInv'
  <1> DEFINE n == Len(open)
  <1>1. SaxTypeOK /\ StreamShape
    BY DEF IInv, TypeOK
  <1>2. /\ elementStack = <<>> /\ current_fn = NoId
        /\ UNCHANGED <<incomingStack, current_fn, first_stmt>>
    BY DEF start_fn_cparse, Stop
  <1>3. /\ OpenOf("function") = {} /\ first_stmt = NoId /\ incomingStack = <<>>
    BY <1>1, <1>2, NoFunctionOpen DEF FnIInv
  <1>4. /\ n \in Nat /\ phase' = "unit" /\ Len(open') = n + 1
        /\ DOMAIN open = 1..n /\ DOMAIN open' = 1..(n + 1) /\ open'[n + 1].tag = "function"
        /\ \A i \in 1..n : open'[i].tag = open[i].tag
    BY <1>1, ChildStarts
  <1>5. OpenOf("function")' = {n + 1}
    <2>1. \A i \in 1..n : open'[i].tag # "function"
      BY <1>3, <1>4 DEF OpenOf
    <2>2. \A i \in 1..(n + 1) : i = n + 1 \/ i \in 1..n
      BY <1>4
    <2>3. n + 1 \in 1..(n + 1)
      BY <1>4
    <2> QED
      BY <1>4, <2>1, <2>2, <2>3 DEF OpenOf
  <1>6. \A i \in OpenOf("function")' : ~(i < Len(open'))
    BY <1>4, <1>5
  <1>7. current_fn' = NoId /\ first_stmt' = NoId /\ incomingStack' = <<>>
    BY <1>2, <1>3
  <1>8. FnIInv'
    BY <1>4, <1>5, <1>6, <1>7 DEF FnIInv, NoId
  <1>9. FnNameIInv'
    BY <1>7 DEF FnNameIInv, NoId
  <1> QED
    BY <1>8, <1>9

(* Functions stay where they are, and what they had they have, when an     *)
(* element starts; its parent has it then.                                 *)
LEMMA GotStart ==
    ASSUME SaxTypeOK, StreamShape, NEW t \in Tags, SaxStartElement(t), t # "function"
    PROVE  /\ OpenOf("function")' = OpenOf("function")
           /\ \A i \in OpenOf("function") : \A part :
                 Got(open[i], part) => Got(open'[i], part)
           /\ open[Len(open)].tag = "function" => Got(open'[Len(open)], t)
  <1> DEFINE n == Len(open)
             k == open'[n].slot
  <1>1. /\ n \in Nat /\ n >= 1 /\ DOMAIN open = 1..n /\ DOMAIN open' = 1..(n + 1)
        /\ open'[n + 1].tag = t
        /\ \A i \in 1..n : /\ open'[i].tag = open[i].tag
                           /\ open[i].slot \in Nat /\ open'[i].slot \in Nat
                           /\ open'[i].slot >= open[i].slot
    BY ChildStarts
  <1>2. k \in DOMAIN Grammar[open[n].tag] /\ Accepts(open[n], k, t)
    BY ChildStarts
  <1>3. OpenOf("function")' = OpenOf("function")
    <2>1. \A i \in 1..(n + 1) : i = n + 1 \/ i \in 1..n
      BY <1>1
    <2>2. \A i \in 1..n : i \in 1..(n + 1)
      BY <1>1
    <2> QED
      BY <1>1, <2>1, <2>2 DEF OpenOf
  <1>4. ASSUME NEW i \in OpenOf("function"), NEW part, Got(open[i], part)
        PROVE  Got(open'[i], part)
    <2>1. PICK j \in DOMAIN Grammar["function"] :
              part \in Grammar["function"][j].tags /\ j <= open[i].slot
      BY <1>4 DEF Got
    <2>2. i \in 1..n /\ open[i].tag = "function"
      BY <1>1, <1>4 DEF OpenOf
    <2>3. j \in Nat
      <3>1. Grammar["function"] \in Seq(Slot)
        <4>1. open[i] \in Element
          BY <1>1, <2>2 DEF SaxTypeOK
        <4>2. "function" \in Tags \cup {"unit"}
          BY <2>2, <4>1 DEF Element
        <4> QED
          BY <4>2, StreamAssumption
      <3> QED
        BY <3>1
    <2>4. j <= open'[i].slot
      BY <1>1, <2>1, <2>2, <2>3
    <2> QED
      BY <2>1, <2>4 DEF Got
  <1>5. ASSUME open[n].tag = "function" PROVE Got(open'[n], t)
    <2>1. k \in DOMAIN Grammar["function"] /\ t \in Grammar["function"][k].tags
      BY <1>2, <1>5 DEF Accepts
    <2>2. k <= open'[n].slot
      BY <1>1
    <2> QED
      BY <2>1, <2>2 DEF Got
  <1> QED
    BY <1>3, <1>4, <1>5

(* The start of another element uses a slot of its parent up.              *)
LEMMA FnStart ==
    ASSUME IInv, CcIInv, StackOnOpen, FnIInv, FunctionParts', BlocksInBodies',
           NEW t \in Tags, SaxStartElement(t), event_startElement_cc(t), t # "function",
           cc_error' = "none"
    PROVE  FnIInv'
  <1> DEFINE n == Len(open)
             fns == OpenOf("function")
  <1>1. SaxTypeOK /\ StreamShape /\ CcTypeOK
    BY DEF IInv, TypeOK, CcIInv
  <1>2. /\ n \in Nat /\ n >= 1 /\ phase' = "unit" /\ Len(open') = n + 1
        /\ DOMAIN open = 1..n /\ DOMAIN open' = 1..(n + 1) /\ open'[n + 1].tag = t
        /\ \A i \in 1..n : open'[i].tag = open[i].tag
    BY <1>1, ChildStarts
  <1>3. /\ OpenOf("function")' = fns
        /\ \A i \in fns : \A part : Got(open[i], part) => Got(open'[i], part)
        /\ open[n].tag = "function" => Got(open'[n], t)
    BY <1>1, GotStart
  <1>4. \A i \in fns : i \in 1..n /\ open[i].tag = "function"
    BY <1>2 DEF OpenOf
  <1>5. ASSUME NEW i \in fns, NEW part \in {"name", "block_content"},
               i < Len(open'), open'[i + 1].tag = part
        PROVE  Got(open'[i], part)
    <2>1. CASE i = n
      BY <1>2, <1>3, <1>4, <1>5, <2>1
    <2>2. CASE i # n
      <3>1. i < n /\ i + 1 \in 1..n
        BY <1>2, <1>4, <1>5, <2>2
      <3>2. open[i + 1].tag = part
        BY <1>2, <1>5, <3>1
      <3>3. Got(open[i], part)
        BY <1>5, <3>1, <3>2 DEF FnIInv
      <3> QED
        BY <1>3, <3>3
    <2> QED
      BY <2>1, <2>2
  <1>6. ASSUME NEW i \in fns, first_stmt' # NoId \/ incomingStack' # <<>>
        PROVE  Got(open'[i], "block_content")
    <2>1. CASE start_block_content_cparse(t)
      <3>1. n + 1 \in DOMAIN open' /\ open'[n + 1].tag = "block_content"
        BY <1>2, <2>1 DEF start_block_content_cparse
      <3>2. PICK j \in 1..((n + 1) - 1) :
                open'[j].tag = "function" /\ open'[j + 1].tag = "block_content"
        BY <3>1 DEF BlocksInBodies
      <3>3. j \in 1..n /\ j < n + 1
        BY <1>2, <3>2
      <3>4. j \in fns
        BY <1>2, <3>2, <3>3 DEF OpenOf
      <3>5. i = j
        BY <1>6, <3>4 DEF FnIInv
      <3> QED
        BY <1>2, <1>5, <3>2, <3>3, <3>5
    <2>2. CASE UNCHANGED <<first_stmt, incomingStack>>
      BY <1>3, <1>6, <2>2 DEF FnIInv
    <2> QED
      BY <2>1, <2>2
      DEF event_startElement_cc, start_other_cparse, start_stmt_cparse, start_break_cparse,
          start_call_cparse, start_fn_cparse, start_name_cparse, start_params_cparse,
          CcStartIgnored, Stop, ccVars
  <1>7. ASSUME NEW i \in fns, current_fn' # NoId PROVE Got(open'[i], "name")
    <2>1. CASE UNCHANGED current_fn
      BY <1>3, <1>7, <2>1 DEF FnIInv
    <2>2. CASE start_name_cparse(t) /\ ~UNCHANGED current_fn
      <3>1. t = "name" /\ PeekElement = "function"
        BY <2>2 DEF start_name_cparse
      <3>2. open[n].tag = "function"
        BY <1>1, <3>1, FunctionIsParent
      <3>3. n \in fns
        BY <1>2, <3>2 DEF OpenOf
      <3>4. i = n
        BY <1>7, <3>3 DEF FnIInv
      <3> QED
        BY <1>3, <3>1, <3>2, <3>4
    <2> QED
      BY <2>1, <2>2
      DEF event_startElement_cc, start_other_cparse, start_stmt_cparse, start_break_cparse,
          start_call_cparse, start_fn_cparse, start_block_content_cparse, start_params_cparse,
          CcStartIgnored, Stop, ccVars
  <1>8. ASSUME fns = {}
        PROVE  current_fn' = NoId /\ first_stmt' = NoId /\ incomingStack' = <<>>
    <2>1. current_fn = NoId /\ first_stmt = NoId /\ incomingStack = <<>>
      BY <1>8 DEF FnIInv
    <2>2. ~start_block_content_cparse(t)
      <3>1. ASSUME start_block_content_cparse(t) PROVE FALSE
        <4>1. n + 1 \in DOMAIN open' /\ open'[n + 1].tag = "block_content"
          BY <1>2, <3>1 DEF start_block_content_cparse
        <4>2. PICK j \in 1..((n + 1) - 1) : open'[j].tag = "function"
          BY <4>1 DEF BlocksInBodies
        <4>3. j \in 1..n
          BY <1>2, <4>2
        <4>4. j \in fns
          BY <1>2, <4>2, <4>3 DEF OpenOf
        <4> QED
          BY <1>8, <4>4
      <3> QED
        BY <3>1
    <2>3. ASSUME start_name_cparse(t) PROVE UNCHANGED <<current_fn, first_stmt, incomingStack>>
      <3>1. ASSUME PeekElement = "function" PROVE FALSE
        <4>1. open[n].tag = "function"
          BY <1>1, <3>1, FunctionIsParent
        <4>2. n \in fns
          BY <1>2, <4>1 DEF OpenOf
        <4> QED
          BY <1>8, <4>2
      <3> QED
        BY <2>3, <3>1 DEF start_name_cparse
    <2> QED
      BY <2>1, <2>2, <2>3
      DEF event_startElement_cc, start_other_cparse, start_stmt_cparse, start_break_cparse,
          start_call_cparse, start_fn_cparse, start_params_cparse, CcStartIgnored, Stop, ccVars
  <1>9. \A i, j \in fns : i = j
    BY DEF FnIInv
  <1> HIDE DEF fns
  <1> QED
    BY <1>2, <1>3, <1>5, <1>6, <1>7, <1>8, <1>9 DEF FnIInv

(* The start of an element keeps the strings that are there.               *)
LEMMA StringsStay ==
    ASSUME CcTypeOK, NEW t, event_startElement_cc(t)
    PROVE  /\ Len(parse) \in Nat /\ Len(parse') \in Nat /\ Len(parse') >= Len(parse)
           /\ \A i \in 1..Len(parse) : parse'[i] = parse[i]
           /\ UNCHANGED parse \/ Len(parse') > Len(parse)
  <1>1. parse \in Seq(Record) /\ Len(parse) \in Nat
    BY DEF CcTypeOK, Record
  <1>2. ASSUME UNCHANGED parse
        PROVE  /\ Len(parse') >= Len(parse) /\ Len(parse') \in Nat
               /\ \A i \in 1..Len(parse) : parse'[i] = parse[i]
    BY <1>1, <1>2
  <1>3. ASSUME NEW i, parse_cparse(<<>>, i)
        PROVE  /\ Len(parse') > Len(parse) /\ Len(parse') \in Nat
               /\ \A j \in 1..Len(parse) : parse'[j] = parse[j]
    BY <1>1, <1>3 DEF parse_cparse, Parsed
  <1>4. UNCHANGED parse \/ \E i : parse_cparse(<<>>, i)
    BY DEF event_startElement_cc, start_other_cparse, start_stmt_cparse, start_break_cparse,
           start_call_cparse, start_fn_cparse, start_block_content_cparse, start_name_cparse,
           start_params_cparse, CcStartIgnored, Stop, ccVars
  <1> QED
    BY <1>1, <1>2, <1>3, <1>4

(* The name of a function starts: its string is the last one, and empty.   *)
LEMMA FnNameStarts ==
    ASSUME IInv, CcIInv, StackOnOpen, FnIInv, FunctionParts',
           NEW t \in Tags, SaxStartElement(t), start_name_cparse(t),
           PeekElement = "function", cc_error' = "none"
    PROVE  FnNameIInv'
  <1> DEFINE n == Len(open)
  <1>1. SaxTypeOK /\ StreamShape /\ CcTypeOK
    BY DEF IInv, TypeOK, CcIInv
  <1>2. /\ n \in Nat /\ n >= 1 /\ Len(open') = n + 1
        /\ DOMAIN open = 1..n /\ DOMAIN open' = 1..(n + 1) /\ open'[n + 1].tag = t
        /\ open'[n + 1].text = <<>>
        /\ \A i \in 1..n : open'[i].tag = open[i].tag
    BY <1>1, ChildStarts
  <1>3. t = "name" /\ parse_cparse(<<>>, "C_FN_NAME") /\ current_fn' = Len(parse')
    BY DEF start_name_cparse
  <1>4. /\ Len(parse') \in Nat
        /\ parse'[Len(parse')] = [text |-> <<>>, interpretation |-> "C_FN_NAME"]
    <2>1. parse \in Seq(Record)
      BY <1>1 DEF CcTypeOK, Record
    <2> QED
      BY <1>3, <2>1 DEF parse_cparse, Parsed
  <1>5. open[n].tag = "function"
    BY <1>1, FunctionIsParent
  <1>6. /\ n \in OpenOf("function")
        /\ OpenOf("function")' = OpenOf("function")
    <2>1. t # "function"
      BY <1>3
    <2> QED
      BY <1>1, <1>2, <1>5, <2>1, GotStart DEF OpenOf
  <1>7. \A i \in OpenOf("function")' : i = n
    BY <1>6 DEF FnIInv
  <1> HIDE DEF n
  <1> QED
    BY <1>2, <1>3, <1>4, <1>7 DEF FnNameIInv

(* No other element gets at the name of a function that has one.           *)
LEMMA FnNameStart ==
    ASSUME IInv, CcIInv, StackOnOpen, FnIInv, FnNameIInv, FunctionParts',
           NEW t \in Tags, SaxStartElement(t), event_startElement_cc(t), t # "function",
           cc_error' = "none"
    PROVE  FnNameIInv'
  <1> DEFINE n == Len(open)
  <1>1. SaxTypeOK /\ StreamShape /\ CcTypeOK /\ phase = "unit"
    BY DEF IInv, TypeOK, CcIInv, SaxStartElement
  <1>2. /\ n \in Nat /\ n >= 1 /\ Len(open') = n + 1
        /\ DOMAIN open = 1..n /\ DOMAIN open' = 1..(n + 1) /\ open'[n + 1].tag = t
        /\ \A i \in 1..n : /\ open'[i].tag = open[i].tag /\ open'[i].text = open[i].text
                           /\ open'[i].name = open[i].name
    BY <1>1, ChildStarts
  <1>3. CASE start_name_cparse(t) /\ PeekElement = "function"
    BY <1>3, FnNameStarts
  <1>4. CASE ~(start_name_cparse(t) /\ PeekElement = "function")
    <2>1. UNCHANGED current_fn
      BY <1>4
      DEF event_startElement_cc, start_other_cparse, start_stmt_cparse, start_break_cparse,
          start_call_cparse, start_fn_cparse, start_block_content_cparse, start_name_cparse,
          start_params_cparse, CcStartIgnored, Stop, ccVars
    <2>2. OpenOf("function")' = OpenOf("function")
      BY <1>1, GotStart
    <2>3. SUFFICES ASSUME NEW i \in OpenOf("function"), current_fn # NoId
                   PROVE  /\ parse'[current_fn].interpretation = "C_FN_NAME"
                          /\ parse'[current_fn].text =
                                 IF i < Len(open') /\ open'[i + 1].tag = "name"
                                 THEN open'[i + 1].text ELSE open'[i].name
                          /\ i < Len(open') /\ open'[i + 1].tag = "name" =>
                                 current_fn = Len(parse')
                          /\ current_fn = Len(parse') /\ i < Len(open') =>
                                 open'[i + 1].tag \notin {"type", "parameter_list", "block_content"}
      BY <2>1, <2>2 DEF FnNameIInv
    <2>4. /\ parse[current_fn].interpretation = "C_FN_NAME"
          /\ parse[current_fn].text =
                 IF i < n /\ open[i + 1].tag = "name" THEN open[i + 1].text ELSE open[i].name
          /\ i < n /\ open[i + 1].tag = "name" => current_fn = Len(parse)
          /\ current_fn = Len(parse) /\ i < n =>
                 open[i + 1].tag \notin {"type", "parameter_list", "block_content"}
      BY <2>3 DEF FnNameIInv
    <2>5. i \in 1..n /\ open[i].tag = "function"
      BY <1>2, <2>3 DEF OpenOf
    <2>6. current_fn \in 1..Len(parse)
      BY <1>1, <2>3 DEF CcTypeOK, NoId
    <2>7. /\ Len(parse) \in Nat /\ Len(parse') \in Nat /\ Len(parse') >= Len(parse)
          /\ parse'[current_fn] = parse[current_fn]
          /\ UNCHANGED parse \/ Len(parse') > Len(parse)
      BY <1>1, <2>6, StringsStay
    <2>8. CASE i < n
      <3>1. i + 1 \in 1..n /\ i < n + 1 /\ i \in DOMAIN open' /\ n + 1 # i + 1
        BY <1>2, <2>5, <2>8
      <3>2. open'[i + 1].tag \in {"type", "parameter_list", "block_content"}
        BY <1>2, <2>5, <3>1 DEF FunctionParts
      <3>3. open[i + 1].tag \in {"type", "parameter_list", "block_content"}
        BY <1>2, <3>1, <3>2
      <3>4. current_fn # Len(parse)
        BY <2>4, <2>8, <3>3
      <3>5. current_fn # Len(parse')
        BY <2>6, <2>7, <3>4
      <3>6. parse[current_fn].text = open[i].name
        BY <2>4, <3>3
      <3> QED
        BY <1>2, <2>4, <2>5, <2>7, <3>2, <3>5, <3>6
    <2>9. CASE i = n
      <3>1. PeekElement = "function"
        <4>1. open[n].tag \in KnownTags
          BY <2>5, <2>9 DEF KnownTags, C_ELEMENT_TAGS
        <4> QED
          BY <1>1, <2>5, <2>9, <4>1, ParentOnTop
      <3>2. t # "name"
        BY <1>4, <3>1
        DEF event_startElement_cc, start_other_cparse, start_stmt_cparse, start_break_cparse,
            start_call_cparse, start_fn_cparse, start_block_content_cparse,
            start_params_cparse, CcStartIgnored, C_ELEMENT_TAGS
      <3>3. parse[current_fn].text = open[i].name
        BY <1>2, <2>4, <2>9
      <3>4. ASSUME t \in {"type", "parameter_list", "block_content"} PROVE current_fn # Len(parse')
        <4>1. \E s : parse_cparse(<<>>, s)
          BY <3>1, <3>4
          DEF event_startElement_cc, start_other_cparse, start_stmt_cparse, start_break_cparse,
              start_call_cparse, start_fn_cparse, start_block_content_cparse, start_name_cparse,
              start_params_cparse, CcStartIgnored, C_ELEMENT_TAGS, Stop
        <4>2. parse' # parse
          BY <1>1, <4>1 DEF parse_cparse, Parsed, CcTypeOK
        <4> QED
          BY <2>6, <2>7, <4>2
      <3> QED
        BY <1>2, <2>4, <2>5, <2>7, <2>9, <3>2, <3>3, <3>4
    <2>10. i < n \/ i = n
      <3>1. n \in Nat /\ i \in 1..n
        BY <1>2, <2>5
      <3> HIDE DEF n
      <3> QED
        BY <3>1
    <2> QED
      BY <2>8, <2>9, <2>10
  <1> QED
    BY <1>3, <1>4

(* No name, block or unit fails at its start.                              *)
LEMMA EndStart ==
    ASSUME IInv, CcIInv, StackOnOpen, FnIInv, FunctionParts', OneNameOneBody,
           cc_error = "none",
           NEW t \in Tags, SaxStartElement(t), event_startElement_cc(t)
    PROVE  EndIInv'
  <1> DEFINE n == Len(open)
             k == open'[n].slot
  <1>1. SaxTypeOK /\ StreamShape /\ CcTypeOK
    BY DEF IInv, TypeOK, CcIInv
  <1>2. /\ n \in Nat /\ n >= 1 /\ open[n].slot \in Nat /\ DOMAIN open = 1..n
        /\ k \in DOMAIN Grammar[open[n].tag] /\ Accepts(open[n], k, t)
    <2>1. /\ n \in Nat /\ n >= 1 /\ DOMAIN open = 1..n
          /\ \A i \in 1..n : open[i].slot \in Nat
          /\ k \in DOMAIN Grammar[open[n].tag] /\ Accepts(open[n], k, t)
      BY <1>1, ChildStarts
    <2> QED
      BY <2>1
  <1>3. ASSUME NEW part \in {"name", "block_content"}, t = part, PeekElement = "function",
               \A i \in OpenOf("function") : Got(open[i], part)
        PROVE  FALSE
    <2>1. open[n].tag = "function"
      BY <1>1, <1>3, FunctionIsParent
    <2>2. Got(open[n], part) /\ n \in 1..n
      BY <1>2, <1>3, <2>1 DEF OpenOf
    <2>3. "function" \in Tags
      <3>1. open[n] \in Element
        BY <1>1, <2>2 DEF SaxTypeOK
      <3> QED
        BY <2>1, <3>1 DEF Element
    <2> DEFINE e == open[n]
    <2>4. /\ e.tag = "function" /\ e.slot \in Nat /\ Got(e, part)
          /\ k \in DOMAIN Grammar[e.tag] /\ Accepts(e, k, part)
      BY <1>2, <1>3, <2>1, <2>2
    <2> HIDE DEF e, k
    <2> QED
      BY <2>3, <2>4, GotOnce
  <1>4. CASE start_name_cparse(t)
    <2>1. ~(PeekElement = "function" /\ current_fn # NoId)
      <3>1. current_fn # NoId => \A i \in OpenOf("function") : Got(open[i], "name")
        BY DEF FnIInv
      <3> QED
        BY <1>3, <1>4, <3>1 DEF start_name_cparse
    <2> QED
      BY <1>4, <2>1 DEF start_name_cparse, EndIInv
  <1>5. CASE start_block_content_cparse(t)
    <2>1. ~(PeekElement = "function" /\ (incomingStack # <<>> \/ first_stmt # NoId))
      <3>1. incomingStack # <<>> \/ first_stmt # NoId =>
               \A i \in OpenOf("function") : Got(open[i], "block_content")
        BY DEF FnIInv
      <3> QED
        BY <1>3, <1>5, <3>1 DEF start_block_content_cparse
    <2>2. UNCHANGED cc_error
      BY <1>5, <2>1 DEF start_block_content_cparse
    <2> QED
      BY <2>2 DEF EndIInv
  <1>6. CASE start_fn_cparse(t)
    BY <1>6 DEF start_fn_cparse, Stop, EndIInv
  <1>7. CASE UNCHANGED cc_error
    BY <1>7 DEF EndIInv
  <1> QED
    BY <1>4, <1>5, <1>6, <1>7
    DEF event_startElement_cc, start_other_cparse, start_stmt_cparse, start_break_cparse,
        start_call_cparse, start_params_cparse, CcStartIgnored, ccVars

(* A function with nothing known open in it is on top of the stack.        *)
LEMMA FunctionOnTop ==
    ASSUME SaxTypeOK, CcTypeOK, StackOnOpen, NEW i \in 1..Len(open), open[i].tag = "function",
           \A q \in (i + 1)..Len(open) : open[q].tag \notin C_ELEMENT_TAGS
    PROVE  PeekElement = "function"
  <1> DEFINE m == Len(elementStack)
             n == Len(open)
  <1>1. /\ elementStack \in Seq(C_ELEMENT_TAGS) /\ m \in Nat /\ n \in Nat
    BY DEF CcTypeOK, SaxTypeOK
  <1>2. PICK place : Places(place)
    BY DEF StackOnOpen
  <1>3. PICK j \in 1..m : place[j] = i
    BY <1>2 DEF Places, KnownTags, C_ELEMENT_TAGS
  <1>4. m \in 1..m /\ j \in Nat
    BY <1>1, <1>3
  <1>5. place[m] \in 1..n /\ open[place[m]].tag = elementStack[m] /\ (j < m => i < place[m])
    BY <1>2, <1>3, <1>4 DEF Places
  <1>6. elementStack[m] \in C_ELEMENT_TAGS
    BY <1>1, <1>4
  <1>7. j = m
    <2>1. ASSUME j < m PROVE FALSE
      <3>1. place[m] \in (i + 1)..n
        BY <1>1, <1>5, <2>1
      <3> QED
        BY <1>5, <1>6, <3>1
    <2> QED
      BY <1>1, <1>3, <2>1
  <1>8. elementStack # <<>> /\ elementStack[m] = "function"
    BY <1>3, <1>4, <1>5, <1>7
  <1> QED
    BY <1>8 DEF PeekElement, Last

(* The end of an element takes nothing from what is tracked; the name that *)
(* ends is the function's.                                                 *)
LEMMA FnEnd ==
    ASSUME IInv, CcIInv, FnIInv, FnNameIInv,
           NEW t \in Tags, SaxEndElement(t), t # "function",
           UNCHANGED <<parse, current_fn, first_stmt, incomingStack>>
    PROVE  FnIInv' /\ FnNameIInv'
  <1> DEFINE n == Len(open)
             fns == OpenOf("function")
  <1>1. SaxTypeOK /\ StreamShape
    BY DEF IInv, TypeOK
  <1>2. /\ n \in Nat /\ n > 1 /\ Len(open') = n - 1 /\ phase' = "unit"
        /\ DOMAIN open = 1..n /\ DOMAIN open' = 1..(n - 1) /\ open[n].tag = t
        /\ \A i \in 1..(n - 1) :
              /\ open'[i].tag = open[i].tag /\ open'[i].text = open[i].text
              /\ open'[i].slot = open[i].slot
              /\ open'[i].name = IF i = n - 1 /\ t = "name" /\ open[i].tag = "function"
                                 THEN open[n].text ELSE open[i].name
    BY <1>1, ChildEnds
  <1>3. /\ \A i \in fns : i \in 1..(n - 1) /\ open[i].tag = "function"
        /\ OpenOf("function")' = fns
    <2>1. \A i \in 1..n : i = n \/ i \in 1..(n - 1)
      BY <1>2
    <2>2. \A i \in 1..(n - 1) : i \in 1..n
      BY <1>2
    <2>3. \A i \in fns : i \in 1..(n - 1) /\ open[i].tag = "function"
      BY <1>2, <2>1 DEF OpenOf
    <2> QED
      BY <1>2, <2>2, <2>3 DEF OpenOf
  <1>4. ASSUME NEW i \in fns, NEW part, Got(open[i], part) PROVE Got(open'[i], part)
    <2>1. open'[i].slot = open[i].slot
      BY <1>2, <1>3, <1>4
    <2> QED
      BY <1>4, <2>1 DEF Got
  <1>5. ASSUME NEW i \in fns, i < n - 1
        PROVE  /\ i < n /\ i + 1 \in 1..(n - 1) /\ i # n - 1
               /\ open'[i + 1].tag = open[i + 1].tag /\ open'[i + 1].text = open[i + 1].text
               /\ open'[i].name = open[i].name
    <2>1. i < n /\ i + 1 \in 1..(n - 1) /\ i # n - 1 /\ i \in 1..(n - 1)
      BY <1>2, <1>3, <1>5
    <2> QED
      BY <1>2, <2>1
  <1>6. FnIInv'
    <2>1. \A i \in fns : \A part \in {"name", "block_content"} :
              i < n - 1 /\ open'[i + 1].tag = part => Got(open'[i], part)
      BY <1>4, <1>5 DEF FnIInv
    <2>2. /\ \A i, j \in fns : i = j
          /\ fns = {} => current_fn = NoId /\ first_stmt = NoId /\ incomingStack = <<>>
          /\ \A i \in fns :
                /\ first_stmt # NoId \/ incomingStack # <<>> => Got(open'[i], "block_content")
                /\ current_fn # NoId => Got(open'[i], "name")
      BY <1>4 DEF FnIInv
    <2>3. Len(open') = n - 1 /\ phase' = "unit" /\ OpenOf("function")' = fns
      BY <1>2, <1>3
    <2> HIDE DEF fns, n
    <2> QED
      BY <2>1, <2>2, <2>3 DEF FnIInv
  <1>7. FnNameIInv'
    <2>1. SUFFICES ASSUME NEW i \in fns, current_fn # NoId
                   PROVE  /\ parse[current_fn].interpretation = "C_FN_NAME"
                          /\ parse[current_fn].text =
                                 IF i < n - 1 /\ open'[i + 1].tag = "name"
                                 THEN open'[i + 1].text ELSE open'[i].name
                          /\ i < n - 1 /\ open'[i + 1].tag = "name" => current_fn = Len(parse)
                          /\ current_fn = Len(parse) /\ i < n - 1 =>
                                 open'[i + 1].tag \notin {"type", "parameter_list", "block_content"}
      <3>1. Len(open') = n - 1 /\ OpenOf("function")' = fns
        BY <1>2, <1>3
      <3> QED
        BY <3>1 DEF FnNameIInv
    <2>2. /\ parse[current_fn].interpretation = "C_FN_NAME"
          /\ parse[current_fn].text =
                 IF i < n /\ open[i + 1].tag = "name" THEN open[i + 1].text ELSE open[i].name
          /\ i < n /\ open[i + 1].tag = "name" => current_fn = Len(parse)
          /\ current_fn = Len(parse) /\ i < n =>
                 open[i + 1].tag \notin {"type", "parameter_list", "block_content"}
      BY <2>1 DEF FnNameIInv
    <2>3. CASE i < n - 1
      BY <1>5, <2>1, <2>2, <2>3
    <2>4. CASE i = n - 1
      <3>1. i + 1 = n /\ i < n /\ ~(i < n - 1) /\ open[i].tag = "function" /\ i \in 1..(n - 1)
        BY <1>2, <1>3, <2>1, <2>4
      <3>2. open'[i].name = IF t = "name" THEN open[n].text ELSE open[i].name
        BY <1>2, <2>4, <3>1
      <3>3. parse[current_fn].text = IF t = "name" THEN open[n].text ELSE open[i].name
        BY <1>2, <2>2, <3>1
      <3> QED
        BY <2>2, <3>1, <3>2, <3>3
    <2>5. i < n - 1 \/ i = n - 1
      <3>1. n \in Nat /\ i \in 1..(n - 1)
        BY <1>2, <1>3, <2>1
      <3> HIDE DEF n
      <3> QED
        BY <3>1
    <2> QED
      BY <2>3, <2>4, <2>5
  <1> QED
    BY <1>6, <1>7

(* An element that ends finds its own tag, unless it is a call or was      *)
(* started under another name.                                             *)
LEMMA EndEnd ==
    ASSUME IInv, CcIInv, StackOnOpen, EndIInv, cc_error = "none",
           NEW t \in Tags, SaxEndElement(t), event_endElement_cc(t)
    PROVE  EndIInv'
  <1> DEFINE localname == IF t = "elseif" THEN "if" ELSE t
  <1>1. /\ SaxTypeOK /\ StreamShape /\ CcTypeOK /\ phase = "unit"
        /\ open[Len(open)].tag = t
    <2>1. SaxTypeOK /\ StreamShape /\ CcTypeOK /\ phase = "unit"
      BY DEF IInv, TypeOK, CcIInv, SaxEndElement
    <2> QED
      BY <2>1, ChildEnds
  <1>2. t \in KnownTags => PeekElement = t
    BY <1>1, ParentOnTop
  <1>3. ASSUME localname \in C_ELEMENT_TAGS, localname # "function", PopElement(localname)
        PROVE  EndIInv'
    <2>1. CASE PeekElement = localname
      BY <1>3, <2>1 DEF PopElement, EndIInv
    <2>2. CASE PeekElement # localname
      <3>1. Stop(localname)
        BY <1>3, <2>2 DEF PopElement
      <3>2. CASE t = "elseif"
        <4>1. PeekElement = "elseif"
          BY <1>2, <3>2 DEF KnownTags, C_ELEMENT_TAGS
        <4> QED
          BY <3>1, <3>2, <4>1 DEF Stop, EndIInv, PeekElement
      <3>3. CASE t # "elseif"
        <4>1. t = "call"
          BY <1>2, <1>3, <2>2, <3>3 DEF KnownTags
        <4> QED
          BY <3>1, <3>3, <4>1 DEF Stop, EndIInv
      <3> QED
        BY <3>2, <3>3
    <2> QED
      BY <2>1, <2>2
  <1>4. CASE end_fn_cparse(localname)
    BY <1>4 DEF end_fn_cparse, Stop, EndIInv
  <1>5. CASE CcEndIgnored(localname)
    BY <1>5 DEF CcEndIgnored, ccVars, EndIInv
  <1>6. "name" \in C_ELEMENT_TAGS
    BY DEF C_ELEMENT_TAGS
  <1> QED
    BY <1>3, <1>4, <1>5, <1>6 DEF event_endElement_cc, end_other_cparse, end_name_cparse

(* Text of a name goes to its string; other text does not while the name   *)
(* is the last string.                                                     *)
LEMMA FnText ==
    ASSUME IInv, CcIInv, StackOnOpen, FnIInv, FnNameIInv, FunctionParts, NamesAreWords,
           NEW ch \in Text, SaxCharacters(ch), event_charactersUnit_cc(ch)
    PROVE  FnIInv' /\ FnNameIInv'
  <1> DEFINE n == Len(open)
             fns == OpenOf("function")
  <1>1. /\ SaxTypeOK /\ StreamShape /\ CcTypeOK /\ phase = "unit" /\ phase' = "unit"
        /\ UNCHANGED <<current_fn, first_stmt, incomingStack>>
    BY DEF IInv, TypeOK, CcIInv, SaxCharacters, event_charactersUnit_cc
  <1>2. /\ n \in Nat /\ n \in 1..n /\ Len(open') = n /\ DOMAIN open = 1..n /\ DOMAIN open' = 1..n
        /\ open' \in Seq(Element)
    <2>1. SaxTypeOK' /\ Len(open') = n /\ open # <<>>
      BY <1>1, CharactersKeepOpen DEF StreamShape
    <2> QED
      BY <1>1, <2>1 DEF SaxTypeOK
  <1>3. \A i \in 1..n :
            /\ open'[i].tag = open[i].tag /\ open'[i].slot = open[i].slot
            /\ open'[i].name = open[i].name
            /\ open'[i].text = IF i = n THEN Append(open[n].text, ch) ELSE open[i].text
    <2>1. /\ Top = open[n] /\ Top' = open'[n] /\ Top \in Element
          /\ Top' = [Top EXCEPT !.text = Append(Top.text, ch)]
      BY <1>1, <1>2, Grown DEF Top, SaxTypeOK
    <2>2. /\ open'[n].tag = open[n].tag /\ open'[n].slot = open[n].slot
          /\ open'[n].name = open[n].name /\ open'[n].text = Append(open[n].text, ch)
      BY <2>1 DEF Element
    <2>3. \A i \in 1..(n - 1) : open'[i] = open[i]
      BY <1>1, Grown
    <2>4. \A i \in 1..n : i = n \/ (i # n /\ i \in 1..(n - 1))
      <3>1. n \in Nat
        BY <1>2
      <3> HIDE DEF n
      <3> QED
        BY <3>1
    <2> HIDE DEF n
    <2> QED
      BY <2>2, <2>3, <2>4
  <1>4. /\ \A i \in fns : i \in 1..n /\ open[i].tag = "function"
        /\ OpenOf("function")' = fns
    BY <1>2, <1>3 DEF OpenOf
  <1>5. ASSUME NEW i \in fns, i < n
        PROVE  i + 1 \in 1..n /\ open'[i + 1].tag = open[i + 1].tag
    <2>1. n \in Nat /\ i \in 1..n
      BY <1>2, <1>4, <1>5
    <2>2. i + 1 \in 1..n
      <3> HIDE DEF n
      <3> QED
        BY <1>5, <2>1
    <2> QED
      BY <1>3, <2>2
  <1>6. FnIInv'
    <2>1. \A i \in fns : \A part : Got(open[i], part) => Got(open'[i], part)
      BY <1>3, <1>4 DEF Got
    <2>2. \A i \in fns : \A part \in {"name", "block_content"} :
              i < n /\ open'[i + 1].tag = part => Got(open'[i], part)
      BY <1>5, <2>1 DEF FnIInv
    <2>3. /\ \A i, j \in fns : i = j
          /\ fns = {} => current_fn = NoId /\ first_stmt = NoId /\ incomingStack = <<>>
          /\ \A i \in fns :
                /\ first_stmt # NoId \/ incomingStack # <<>> => Got(open'[i], "block_content")
                /\ current_fn # NoId => Got(open'[i], "name")
      BY <2>1 DEF FnIInv
    <2>4. Len(open') = n /\ OpenOf("function")' = fns
      BY <1>2, <1>4
    <2> HIDE DEF fns, n
    <2> QED
      BY <1>1, <2>2, <2>3, <2>4 DEF FnIInv
  <1>7. ASSUME NEW i \in fns, current_fn # NoId
        PROVE  /\ parse'[current_fn].interpretation = "C_FN_NAME"
               /\ parse'[current_fn].text =
                      IF i < n /\ open'[i + 1].tag = "name"
                      THEN open'[i + 1].text ELSE open'[i].name
               /\ i < n /\ open'[i + 1].tag = "name" => current_fn = Len(parse')
               /\ current_fn = Len(parse') /\ i < n =>
                      open'[i + 1].tag \notin {"type", "parameter_list", "block_content"}
    <2>1. /\ parse[current_fn].interpretation = "C_FN_NAME"
          /\ parse[current_fn].text =
                 IF i < n /\ open[i + 1].tag = "name" THEN open[i + 1].text ELSE open[i].name
          /\ i < n /\ open[i + 1].tag = "name" => current_fn = Len(parse)
          /\ current_fn = Len(parse) /\ i < n =>
                 open[i + 1].tag \notin {"type", "parameter_list", "block_content"}
      BY <1>7 DEF FnNameIInv
    <2>2. /\ parse \in Seq(Record) /\ Len(parse) \in Nat /\ current_fn \in 1..Len(parse)
          /\ DOMAIN parse = 1..Len(parse)
      BY <1>1, <1>7 DEF CcTypeOK, Record, NoId
    <2>3. i \in 1..n /\ open[i].tag = "function" /\ open'[i].name = open[i].name
      BY <1>3, <1>4, <1>7
    <2> DEFINE grows == ch # ";" /\ PeekElement \in {"condition", "decl_stmt", "expr_stmt", "incr",
                                                     "init", "name", "return", "type"}
    <2>4. parse' = IF grows THEN [parse EXCEPT ![Len(parse)].text = Append(@, ch)] ELSE parse
      BY DEF event_charactersUnit_cc
    <2>5. /\ Len(parse') = Len(parse)
          /\ parse'[current_fn].interpretation = parse[current_fn].interpretation
          /\ parse'[current_fn].text = IF grows /\ current_fn = Len(parse)
                                       THEN Append(parse[current_fn].text, ch)
                                       ELSE parse[current_fn].text
      <3> HIDE DEF grows
      <3>1. \A r \in Record :
                /\ [r EXCEPT !.text = Append(r.text, ch)].text = Append(r.text, ch)
                /\ [r EXCEPT !.text = Append(r.text, ch)].interpretation = r.interpretation
        BY DEF Record
      <3>2. CASE ~grows
        BY <2>4, <3>2
      <3>3. CASE grows
        <4> DEFINE last == [parse[Len(parse)] EXCEPT !.text = Append(parse[Len(parse)].text, ch)]
        <4>1. parse' = [parse EXCEPT ![Len(parse)] = last]
          BY <2>4, <3>3
        <4>2. /\ last.text = Append(parse[Len(parse)].text, ch)
              /\ last.interpretation = parse[Len(parse)].interpretation
          <5>1. parse[Len(parse)] \in Record
            BY <2>2
          <5> QED
            BY <3>1, <5>1
        <4> HIDE DEF last
        <4>3. /\ Len(parse') = Len(parse)
              /\ parse'[current_fn] = IF current_fn = Len(parse) THEN last ELSE parse[current_fn]
          BY <2>2, <4>1
        <4> QED
          BY <3>3, <4>2, <4>3
      <3> QED
        BY <3>2, <3>3
    <2>6. i < n => open'[i + 1].tag = open[i + 1].tag /\ i + 1 \in 1..n
      BY <1>5, <1>7
    <2>7. CASE i < n /\ open[i + 1].tag = "name"
      <3>1. current_fn = Len(parse)
        BY <2>1, <2>7
      <3>2. n = i + 1
        <4>1. i \in DOMAIN open
          BY <1>2, <2>3
        <4> QED
          BY <2>3, <2>7, <4>1 DEF FunctionParts
      <3>3. PeekElement = "name"
        <4>1. open[n].tag \in KnownTags /\ open[n].tag = "name"
          BY <2>7, <3>2 DEF KnownTags, C_ELEMENT_TAGS
        <4> QED
          BY <1>1, <4>1, ParentOnTop
      <3>4. ch # ";"
        <4>1. Top.tag = "name"
          BY <2>7, <3>2 DEF Top
        <4>2. "name" \in Tags /\ ch \in Texts["name"]
          BY <4>1 DEF SaxCharacters
        <4> QED
          BY <4>2 DEF NamesAreWords
      <3>5. grows
        BY <3>3, <3>4
      <3>6. open'[i + 1].text = Append(open[i + 1].text, ch)
        BY <1>3, <2>6, <2>7, <3>2
      <3> HIDE DEF grows
      <3> QED
        BY <2>1, <2>5, <2>6, <2>7, <3>1, <3>5, <3>6
    <2>8. CASE ~(i < n /\ open[i + 1].tag = "name")
      <3>1. ASSUME current_fn = Len(parse) PROVE ~grows
        <4>1. \A q \in (i + 1)..n : open[q].tag \notin C_ELEMENT_TAGS
          <5>1. CASE i < n
            <6>1. /\ i \in DOMAIN open
                  /\ open[i + 1].tag \notin {"type", "parameter_list", "block_content"}
              BY <1>2, <2>1, <2>3, <3>1, <5>1
            <6>2. open[i + 1].tag \notin C_ELEMENT_TAGS \ {"name"} /\ n = i + 1
              BY <2>3, <5>1, <6>1 DEF FunctionParts
            <6>3. open[i + 1].tag # "name"
              BY <2>8, <5>1
            <6>4. \A q \in (i + 1)..n : q = i + 1
              BY <1>2, <2>3, <6>2
            <6> QED
              BY <6>2, <6>3, <6>4
          <5>2. CASE ~(i < n)
            BY <1>2, <2>3, <5>2
          <5> QED
            BY <5>1, <5>2
        <4>2. PeekElement = "function"
          BY <1>1, <2>3, <4>1, FunctionOnTop
        <4> QED
          BY <4>2
      <3> HIDE DEF grows
      <3> QED
        BY <2>1, <2>3, <2>5, <2>6, <2>8, <3>1
    <2> QED
      BY <2>7, <2>8
  <1>8. FnNameIInv'
    <2>1. Len(open') = n /\ OpenOf("function")' = fns /\ current_fn' = current_fn
      BY <1>1, <1>2, <1>4
    <2> HIDE DEF n, fns
    <2> QED
      BY <1>7, <2>1 DEF FnNameIInv
  <1> QED
    BY <1>6, <1>8

(* What is tracked while the program runs, and what has ended it.          *)
ParserIInv ==
    /\ cc_error = "none" => FnIInv /\ FnNameIInv
    /\ EndIInv

(* What the grammar of C gives the parser.                                 *)
PlainStream == BreaksInBlocks /\ FunctionParts /\ BlocksInBodies

(* Outside the elements of a unit no function is open.                     *)
LEMMA ParserOutside ==
    ASSUME FnIInv, EndIInv, OpenOf("function") = {}, OpenOf("function")' = {},
           UNCHANGED <<elementStack, current_fn, first_stmt, incomingStack, cc_error>>,
           phase' # "unit" => current_unit' = NoId
    PROVE  FnIInv' /\ FnNameIInv' /\ EndIInv'
  <1>1. current_fn' = NoId /\ first_stmt' = NoId /\ incomingStack' = <<>>
    BY DEF FnIInv
  <1>2. FnIInv'
    BY <1>1 DEF FnIInv
  <1>3. FnNameIInv'
    BY DEF FnNameIInv
  <1>4. EndIInv'
    BY DEF EndIInv, PeekElement
  <1> QED
    BY <1>2, <1>3, <1>4

(* The invariant is inductive.                                             *)
LEMMA ParserStep ==
    ASSUME OneNameOneBody, NamesAreWords
    PROVE  /\ IInv /\ IInv' /\ CcIInv /\ StackIInv /\ PlainStream /\ PlainStream'
           /\ ParserIInv /\ [CcNext]_<<vars, ccVars>>
           => ParserIInv'
  <1> SUFFICES ASSUME IInv, IInv', CcIInv, StackIInv, PlainStream, PlainStream',
                      ParserIInv, [CcNext]_<<vars, ccVars>>
               PROVE  ParserIInv'
    OBVIOUS
  <1>1. /\ FunctionParts /\ FunctionParts' /\ BlocksInBodies'
    BY DEF PlainStream
  <1>2. CASE UNCHANGED <<vars, ccVars>>
    BY <1>2 DEF ParserIInv, FnIInv, FnNameIInv, EndIInv, OpenOf, Got, PeekElement,
                vars, saxVars, ccVars
  <1>3. CASE CcNext
    <2>1. cc_error = "none" /\ StackOnOpen /\ FnIInv /\ FnNameIInv /\ EndIInv
      BY <1>3 DEF CcNext, StackIInv, ParserIInv
    <2>2. ASSUME NEW tag \in Tags, event_startElement(tag), event_startElement_cc(tag)
          PROVE  ParserIInv'
      <3>1. SaxStartElement(tag)
        BY <2>2 DEF event_startElement
      <3>2. EndIInv'
        BY <1>1, <2>1, <2>2, <3>1, EndStart
      <3>3. ASSUME cc_error' = "none" PROVE FnIInv' /\ FnNameIInv'
        <4>1. CASE tag = "function"
          <5>1. start_fn_cparse("function") /\ UNCHANGED current_unit
            BY <2>2, <4>1
            DEF event_startElement_cc, start_other_cparse, start_stmt_cparse, start_break_cparse,
                start_call_cparse, start_block_content_cparse, start_name_cparse,
                start_params_cparse, CcStartIgnored, C_ELEMENT_TAGS
          <5> QED
            BY <2>1, <2>2, <3>1, <3>3, <4>1, <5>1, FnFunctionStarts
        <4>2. CASE tag # "function"
          BY <1>1, <2>1, <2>2, <3>1, <3>3, <4>2, FnStart, FnNameStart
        <4> QED
          BY <4>1, <4>2
      <3> QED
        BY <3>2, <3>3 DEF ParserIInv
    <2>3. ASSUME NEW tag \in Tags, event_endElement(tag), event_endElement_cc(tag)
          PROVE  ParserIInv'
      <3>1. SaxEndElement(tag)
        BY <2>3 DEF event_endElement
      <3>2. EndIInv'
        BY <2>1, <2>3, <3>1, EndEnd
      <3>3. ASSUME cc_error' = "none" PROVE FnIInv' /\ FnNameIInv'
        <4>1. tag # "function" /\ UNCHANGED <<parse, current_fn, first_stmt, incomingStack>>
          BY <2>3, <3>3
          DEF event_endElement_cc, end_other_cparse, end_name_cparse, end_fn_cparse,
              CcEndIgnored, PopElement, Stop, ccVars, C_ELEMENT_TAGS
        <4> QED
          BY <2>1, <3>1, <4>1, FnEnd
      <3> QED
        BY <3>2, <3>3 DEF ParserIInv
    <2>4. ASSUME NEW ch \in Text, event_charactersUnit(ch), event_charactersUnit_cc(ch)
          PROVE  ParserIInv'
      <3>1. SaxCharacters(ch)
        BY <2>4 DEF event_charactersUnit
      <3>2. FnIInv' /\ FnNameIInv'
        BY <1>1, <2>1, <2>4, <3>1, FnText
      <3>3. EndIInv'
        BY <2>1, <2>4 DEF event_charactersUnit_cc, EndIInv
      <3> QED
        BY <3>2, <3>3 DEF ParserIInv
    <2>5. /\ phase # "unit" => OpenOf("function") = {}
          /\ phase' # "unit" => OpenOf("function")' = {}
      BY DEF IInv, StreamShape, OpenOf
    <2>6. ASSUME phase # "unit", phase' # "unit", UNCHANGED ccVars PROVE ParserIInv'
      BY <2>1, <2>5, <2>6, ParserOutside DEF ParserIInv, FnIInv, ccVars
    <2>7. CASE event_startDocument /\ event_startDocument_cc
      <3>1. phase' # "unit"
        BY <2>7 DEF event_startDocument, SaxStartDocument, SaxMove
      <3>2. /\ current_fn' = NoId /\ first_stmt' = NoId /\ incomingStack' = <<>>
            /\ current_unit' = NoId /\ cc_error' = "none"
        BY <2>1, <2>7 DEF event_startDocument_cc
      <3> QED
        BY <2>5, <3>1, <3>2 DEF ParserIInv, FnIInv, FnNameIInv, EndIInv
    <2>8. CASE event_startRoot /\ UNCHANGED ccVars
      BY <2>6, <2>8 DEF event_startRoot, SaxStartRoot, SaxMove
    <2>9. CASE event_endRoot /\ UNCHANGED ccVars
      BY <2>6, <2>9 DEF event_endRoot, SaxEndRoot, SaxMove
    <2>10. CASE event_endDocument /\ event_endDocument_cc
      BY <2>6, <2>10 DEF event_endDocument, event_endDocument_cc, SaxEndDocument, SaxMove
    <2>11. CASE event_endUnit /\ event_endUnit_cc
      <3>1. /\ phase' # "unit" /\ Len(open) = 1 /\ open[1].tag = "unit"
            /\ UNCHANGED <<elementStack, current_fn, first_stmt, incomingStack, cc_error>>
            /\ current_unit' = NoId
        <4>1. phase' # "unit" /\ Len(open) = 1
          BY <2>11 DEF event_endUnit, SaxEndUnit
        <4>2. open[1].tag = "unit"
          BY <4>1 DEF IInv, StreamShape
        <4> QED
          BY <2>11, <4>1, <4>2 DEF event_endUnit_cc
      <3>2. OpenOf("function") = {}
        <4>1. open \in Seq(Element)
          BY DEF IInv, TypeOK, SaxTypeOK
        <4>2. DOMAIN open = 1..1
          BY <3>1, <4>1
        <4> QED
          BY <3>1, <4>2 DEF OpenOf
      <3> QED
        BY <2>1, <2>5, <3>1, <3>2, ParserOutside DEF ParserIInv
    <2>12. ASSUME NEW filename \in Filenames, event_startUnit(filename),
                  event_startUnit_cc(filename)
           PROVE  ParserIInv'
      <3>1. /\ phase # "unit" /\ phase' = "unit" /\ open' = <<Fresh("unit")>>
        BY <2>12 DEF event_startUnit, SaxStartUnit
      <3>2. current_unit = NoId
        BY <2>1, <3>1 DEF FnIInv
      <3>3. UNCHANGED <<elementStack, current_fn, first_stmt, incomingStack, cc_error>>
        BY <2>12, <3>2 DEF event_startUnit_cc
      <3>4. OpenOf("function")' = {}
        <4>1. DOMAIN open' = 1..1 /\ open'[1].tag = "unit"
          BY <3>1 DEF Fresh
        <4> QED
          BY <4>1 DEF OpenOf
      <3> QED
        BY <2>1, <2>5, <3>1, <3>3, <3>4, ParserOutside DEF ParserIInv
    <2> QED
      BY <1>3, <2>2, <2>3, <2>4, <2>7, <2>8, <2>9, <2>10, <2>11, <2>12 DEF CcNext
  <1> QED
    BY <1>2, <1>3

(* The invariant holds of every run over a plain stream.                   *)
LEMMA ParserInvariance ==
    OneNameOneBody /\ NamesAreWords /\ CcSpec /\ []PlainStream
        => [](ParserIInv /\ IInv /\ CcIInv)
  <1> SUFFICES ASSUME OneNameOneBody, NamesAreWords
               PROVE  CcSpec /\ []PlainStream => [](ParserIInv /\ IInv /\ CcIInv)
    OBVIOUS
  <1>1. CcSystemInit => ParserIInv
    BY DEF CcSystemInit, CcInit, Init, SaxInit, ParserIInv, FnIInv, FnNameIInv, EndIInv,
           OpenOf, NoId
  <1>2. /\ IInv /\ IInv' /\ CcIInv /\ StackIInv /\ PlainStream /\ PlainStream'
        /\ ParserIInv /\ [CcNext]_<<vars, ccVars>>
        => ParserIInv'
    BY ParserStep
  <1>3. PlainStream => BreaksInBlocks
    BY DEF PlainStream
  <1> QED
    BY <1>1, <1>2, <1>3, StackInvariance, CcInvariance, ParserFollowsStream, PTL DEF CcSpec

(* Over a plain stream every element finds its own tag on the stack at its *)
(* end, whatever is in it, except at the three places where the code is    *)
(* known to fail: a function, a call that was not pushed, and an if that   *)
(* was started as an elseif.                                               *)
THEOREM EndsFindTheirStart ==
    OneNameOneBody /\ NamesAreWords /\ CcSpec /\ []PlainStream => []EndsMatch
  <1>1. ParserIInv => EndsMatch
    BY DEF ParserIInv, EndIInv, EndsMatch
  <1> QED
    BY <1>1, ParserInvariance, PTL

(* Over a plain stream the string that is tracked as the name of the       *)
(* function is the name the function declares: no parameter, no body and   *)
(* no later name adds to it, before the program ends.                      *)
THEOREM NameIsExact ==
    OneNameOneBody /\ NamesAreWords /\ CcSpec /\ []PlainStream => []FnNameExact
  <1>1. ParserIInv /\ IInv /\ CcIInv => FnNameExact
    <2>1. SUFFICES ASSUME ParserIInv, current_fn # NoId, cc_error = "none"
                   PROVE  FnNameExact
      BY DEF FnNameExact
    <2>2. PICK i \in OpenOf("function") : TRUE
      BY <2>1 DEF ParserIInv, FnIInv
    <2>3. i \in DOMAIN open /\ open[i].tag = "function"
      BY <2>2 DEF OpenOf
    <2>4. /\ parse[current_fn].interpretation = "C_FN_NAME"
          /\ parse[current_fn].text =
                 IF i < Len(open) /\ open[i + 1].tag = "name" THEN open[i + 1].text
                 ELSE open[i].name
      BY <2>1, <2>2 DEF ParserIInv, FnNameIInv
    <2> QED
      BY <2>3, <2>4 DEF FnNameExact
  <1> QED
    BY <1>1, ParserInvariance, PTL
===============================================================================
