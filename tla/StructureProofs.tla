--------------------------- MODULE StructureProofs ---------------------------
(***************************************************************************)
(* Proofs about the metrics that follow the structure of the code, for     *)
(* every grammar, spelling and bound.  MND: its depth follows the open     *)
(* blocks, and, where no function is inside another, what it keeps and     *)
(* reports implements NestingDepth.  NPM: its unsigned counters never      *)
(* wrap, although the reader may take back, at the end of a specifier, a   *)
(* function that it counted long before; where every specifier is static   *)
(* it implements PublicCount.  RFU: the edges of its call graph's file     *)
(* are the calls, it reads the names that the dispatcher reads, and its    *)
(* matrices and passes implement CallGraph.                                *)
(* SLOC and AMS side by side: what their states say about the open         *)
(* elements, what the arrays of AMS hold, and, where no function is inside *)
(* another, that both measure a function alike; where statements are flat  *)
(* as well, SLOC implements LineCount.                                     *)
(***************************************************************************)
EXTENDS Mnd, Npm, Rfu, SizeMetrics, EventProofs, Recurrence

-----------------------------------------------------------------------------
(* MND: the depth and the maxima.                                          *)

(* In a unit the depth is the number of open blocks, at most the unit's    *)
(* maximum, and that at most the document's; in the READING_METHOD state a *)
(* function is open, and the depth is at most the function's maximum.      *)
MndIInv ==
    /\ SaxTypeOK
    /\ StreamShape
    /\ MndTypeOK
    /\ phase = "unit" => nd = OpenCount("block") /\ nd <= mnd_unit /\ mnd_unit <= mnd_overall
    /\ mnd_read_state = "READING_METHOD" => "function" \in OpenTags /\ nd <= mnd_fn

(* Larger is one of its arguments and below none.                          *)
LEMMA LargerOfTwo ==
    ASSUME NEW a \in Nat, NEW b \in Nat
    PROVE  /\ Larger(a, b) \in Nat
           /\ a <= Larger(a, b)
           /\ b <= Larger(a, b)
           /\ Larger(a, b) = a \/ Larger(a, b) = b
  BY DEF Larger

(* An element starts.                                                      *)
LEMMA MndElementStarts ==
    ASSUME MndIInv, NEW t \in Tags, SaxStartElement(t), event_startElement_mnd(t)
    PROVE  MndIInv'
  <1>1. SaxTypeOK' /\ StreamShape' /\ OpenTags' = OpenTags \cup {t}
    BY StartKeepsOpen, OpenedTag DEF MndIInv
  <1>2. OpenCount("block")' = IF t = "block" THEN OpenCount("block") + 1 ELSE OpenCount("block")
    BY OneOpens DEF MndIInv
  <1>3. phase = "unit" /\ phase' = "unit"
    BY DEF SaxStartElement
  <1>4. CASE MndFunction(t)
    BY <1>1, <1>2, <1>3, <1>4 DEF MndIInv, MndTypeOK, MndFunction
  <1>5. CASE MndBlock(t)
    <2>1. nd' \in Nat /\ nd' = nd + 1
      BY <1>5 DEF MndIInv, MndTypeOK, MndBlock
    <2>2. /\ mnd_overall' \in Nat
          /\ mnd_unit' \in Nat /\ nd' <= mnd_unit' /\ mnd_unit' <= mnd_overall'
      BY <1>3, <1>5, <2>1 DEF MndIInv, MndTypeOK, MndBlock, Larger
    <2>3. mnd_fn' \in Nat /\ (mnd_read_state = "READING_METHOD" => nd' <= mnd_fn')
      BY <1>5, <2>1, LargerOfTwo DEF MndIInv, MndTypeOK, MndBlock
    <2> QED
      BY <1>1, <1>2, <1>3, <1>5, <2>1, <2>2, <2>3 DEF MndIInv, MndTypeOK, MndBlock
  <1>6. CASE /\ t \notin {"function", "block"}
             /\ UNCHANGED <<mnd_read_state, mnd_overall, mnd_unit, mnd_fn, nd>>
    BY <1>1, <1>2, <1>3, <1>6 DEF MndIInv, MndTypeOK
  <1> QED
    BY <1>4, <1>5, <1>6 DEF event_startElement_mnd

(* An element ends; nd does not go below zero, for the block was open.     *)
LEMMA MndElementEnds ==
    ASSUME MndIInv, NEW t \in Tags, SaxEndElement(t), event_endElement_mnd(t)
    PROVE  MndIInv'
  <1>1. SaxTypeOK' /\ StreamShape' /\ OpenTags = OpenTags' \cup {t}
    BY EndKeepsOpen, ClosedTag DEF MndIInv
  <1>2. OpenCount("block") = IF t = "block" THEN OpenCount("block")' + 1 ELSE OpenCount("block")'
    BY OneCloses DEF MndIInv
  <1>3. phase = "unit" /\ phase' = "unit"
    BY DEF SaxEndElement
  <1>4. OpenCount("block")' \in Nat
    BY OpenLeft DEF MndIInv
  <1>5. nd' = OpenCount("block")'
    <2>1. nd' = IF t = "block" THEN nd - 1 ELSE nd
      BY DEF event_endElement_mnd, MndFunctionEnds, MndBlockEnds
    <2>2. nd = OpenCount("block")
      BY <1>3 DEF MndIInv
    <2>3. CASE t = "block"
      <3>1. nd' = nd - 1 /\ nd = OpenCount("block")' + 1
        BY <1>2, <2>1, <2>2, <2>3
      <3>2. \A a, b \in Nat : a = b + 1 => a - 1 = b
        OBVIOUS
      <3>3. nd \in Nat
        BY DEF MndIInv, MndTypeOK
      <3> QED
        BY <1>4, <3>1, <3>2, <3>3
    <2>4. CASE t # "block"
      BY <1>2, <2>1, <2>2, <2>4
    <2> QED
      BY <2>3, <2>4
  <1>6. UNCHANGED <<mnd_overall, mnd_unit, mnd_fn>> /\ nd' <= nd
    BY <1>2, <1>3, <1>4, <1>5 DEF MndIInv, event_endElement_mnd
  <1>7. /\ mnd_read_state' \in {"WAITING_METHOD", "READING_METHOD"}
        /\ mnd_read_state' = "READING_METHOD" =>
              mnd_read_state = "READING_METHOD" /\ t # "function"
    BY DEF MndIInv, MndTypeOK, event_endElement_mnd, MndFunctionEnds, MndBlockEnds
  <1>8. MndTypeOK'
    BY <1>4, <1>5, <1>6, <1>7 DEF MndIInv, MndTypeOK
  <1>9. /\ nd' <= mnd_unit' /\ mnd_unit' <= mnd_overall'
        /\ (mnd_read_state = "READING_METHOD" => nd' <= mnd_fn')
    BY <1>3, <1>4, <1>5, <1>6 DEF MndIInv, MndTypeOK
  <1> QED
    BY <1>1, <1>3, <1>5, <1>7, <1>8, <1>9 DEF MndIInv

(* The invariant is inductive.                                             *)
LEMMA MndStep == MndIInv /\ [MndNext]_<<vars, mndVars>> => MndIInv'
  <1> SUFFICES ASSUME MndIInv, [MndNext]_<<vars, mndVars>> PROVE MndIInv'
    OBVIOUS
  <1>1. SaxTypeOK /\ StreamShape
    BY DEF MndIInv
  <1>2. ASSUME NEW from, NEW to \in Phases, SaxMove(from, to), from # "unit", to # "unit",
               mnd_read_state' \in {mnd_read_state, "WAITING_METHOD"},
               mnd_overall' \in Nat, UNCHANGED <<mnd_unit, mnd_fn, nd>>
        PROVE  MndIInv'
    <2>1. SaxTypeOK' /\ StreamShape' /\ phase' # "unit" /\ OpenTags = {}
      BY <1>1, <1>2, MoveKeepsShape, NothingOpen DEF SaxMove
    <2> QED
      BY <1>2, <2>1 DEF MndIInv, MndTypeOK
  <1>3. CASE event_startDocument /\ event_startDocument_mnd
    BY <1>2, <1>3 DEF event_startDocument, SaxStartDocument, Phases, event_startDocument_mnd
  <1>4. CASE event_startRoot /\ UNCHANGED mndVars
    BY <1>2, <1>4 DEF MndIInv, MndTypeOK, event_startRoot, SaxStartRoot, Phases, mndVars
  <1>5. ASSUME NEW filename \in Filenames, event_startUnit(filename), event_startUnit_mnd
        PROVE  MndIInv'
    <2>1. SaxStartUnit
      BY <1>5 DEF event_startUnit
    <2>2. SaxTypeOK' /\ StreamShape'
      BY <1>1, <2>1, UnitOpens
    <2>3. OpenCount("block")' = 0
      BY <1>1, <2>1, NoneAtEnds
    <2> QED
      BY <1>5, <2>2, <2>3 DEF MndIInv, MndTypeOK, event_startUnit_mnd
  <1>6. ASSUME NEW t \in Tags, event_startElement(t), event_startElement_mnd(t)
        PROVE  MndIInv'
    BY <1>6, MndElementStarts DEF event_startElement
  <1>7. ASSUME NEW t \in Tags, event_endElement(t), event_endElement_mnd(t)
        PROVE  MndIInv'
    BY <1>7, MndElementEnds DEF event_endElement
  <1>8. ASSUME NEW ch \in Text, event_charactersUnit(ch), UNCHANGED mndVars
        PROVE  MndIInv'
    <2>1. SaxCharacters(ch) /\ phase = "unit"
      BY <1>8 DEF event_charactersUnit, SaxCharacters
    <2>2. SaxTypeOK' /\ StreamShape' /\ OpenTags' = OpenTags /\ OpenCount("block")' = OpenCount("block")
      BY <1>1, <2>1, CharactersKeepOpen, SameTags, SameCount
    <2> QED
      BY <1>8, <2>1, <2>2 DEF MndIInv, MndTypeOK, mndVars
  <1>9. CASE event_endUnit /\ event_endUnit_mnd
    <2>1. SaxEndUnit /\ phase' = "root"
      BY <1>9 DEF event_endUnit, SaxEndUnit
    <2>2. SaxTypeOK' /\ StreamShape' /\ OpenTags = {"unit"}
      BY <1>1, <2>1, UnitCloses, NothingOpen
    <2> QED
      BY <1>9, <2>1, <2>2 DEF MndIInv, MndTypeOK, event_endUnit_mnd
  <1>10. CASE event_endRoot /\ UNCHANGED mndVars
    BY <1>2, <1>10 DEF MndIInv, MndTypeOK, event_endRoot, SaxEndRoot, Phases, mndVars
  <1>11. CASE event_endDocument /\ event_endDocument_mnd
    BY <1>2, <1>11
    DEF MndIInv, MndTypeOK, event_endDocument, SaxEndDocument, Phases, event_endDocument_mnd
  <1>12. CASE UNCHANGED <<vars, mndVars>>
    <2>1. UNCHANGED <<phase, open, units, elements>> /\ UNCHANGED mndVars
      BY <1>12 DEF vars, saxVars
    <2>2. SaxTypeOK' /\ StreamShape' /\ OpenTags' = OpenTags /\ OpenCount("block")' = OpenCount("block")
      BY <1>1, <2>1 DEF SaxTypeOK, StreamShape, OpenTags, OpenCount, OpenOf
    <2> QED
      BY <2>1, <2>2 DEF MndIInv, MndTypeOK, mndVars
  <1> QED
    BY <1>3, <1>4, <1>5, <1>6, <1>7, <1>8, <1>9, <1>10, <1>11, <1>12 DEF MndNext

(* The invariant holds of every run.                                       *)
LEMMA MndInvariance == MndSpec => []MndIInv
  <1>1. MndSystemInit => MndIInv
    BY DEF MndSystemInit, Init, SaxInit, MndInit, MndIInv, SaxTypeOK, StreamShape,
           MndTypeOK, Phases
  <1> QED
    BY <1>1, MndStep, PTL DEF MndSpec

(* On every stream, whatever nests in what, the unsigned depth never goes  *)
(* below zero.                                                             *)
THEOREM DepthNeverWraps == MndSpec => []MndTypeOK
  <1>1. MndIInv => MndTypeOK
    BY DEF MndIInv
  <1> QED
    BY MndInvariance, <1>1, PTL

-----------------------------------------------------------------------------
(* MND: where no function is inside another.                               *)

(* A function that is open is being read.                                  *)
InMethod == "function" \in OpenTags => mnd_read_state = "READING_METHOD"

(* Reading ends with the only function, not before.                        *)
LEMMA StepInMethod ==
    MndIInv /\ InMethod /\ OneFunction /\ OneFunction' /\ [MndNext]_<<vars, mndVars>> =>
        InMethod'
  <1> SUFFICES ASSUME MndIInv, InMethod, OneFunction, OneFunction',
                      [MndNext]_<<vars, mndVars>>
               PROVE  InMethod'
    OBVIOUS
  <1>1. SaxTypeOK /\ StreamShape
    BY DEF MndIInv
  <1>2. ASSUME NEW t \in Tags, event_startElement(t), event_startElement_mnd(t)
        PROVE  InMethod'
    <2>1. OpenTags' = OpenTags \cup {t}
      BY <1>1, <1>2, OpenedTag DEF event_startElement
    <2> QED
      BY <1>2, <2>1 DEF InMethod, event_startElement_mnd, MndFunction, MndBlock
  <1>3. ASSUME NEW t \in Tags, event_endElement(t), event_endElement_mnd(t)
        PROVE  InMethod'
    <2>1. SaxEndElement(t) /\ OpenTags = OpenTags' \cup {t}
      BY <1>1, <1>3, ClosedTag DEF event_endElement
    <2>2. CASE t = "function"
      BY <1>1, <2>1, <2>2, OnlyFunction DEF InMethod
    <2>3. CASE t # "function"
      BY <1>3, <2>1, <2>3 DEF InMethod, event_endElement_mnd, MndFunctionEnds, MndBlockEnds
    <2> QED
      BY <2>2, <2>3
  <1>4. ASSUME NEW ch \in Text, event_charactersUnit(ch), UNCHANGED mndVars
        PROVE  InMethod'
    <2>1. OpenTags' = OpenTags
      BY <1>1, <1>4, SameTags DEF event_charactersUnit
    <2> QED
      BY <1>4, <2>1 DEF InMethod, mndVars
  <1>5. ASSUME phase' # "unit" \/ SaxStartUnit, MndNext PROVE InMethod'
    <2>1. MndIInv'
      BY MndStep
    <2>2. OpenTags' \in {{}, {"unit"}}
      BY <1>1, <1>5, <2>1, NothingOpen DEF MndIInv, StreamShape, OpenTags
    <2> QED
      BY <2>2 DEF InMethod
  <1>6. CASE UNCHANGED <<vars, mndVars>>
    BY <1>6 DEF InMethod, OpenTags, vars, saxVars, mndVars
  <1> QED
    BY <1>2, <1>3, <1>4, <1>5, <1>6
    DEF MndNext, event_startDocument, event_startRoot, event_startUnit, event_endUnit,
        event_endRoot, event_endDocument, SaxStartDocument, SaxStartRoot, SaxEndUnit,
        SaxEndRoot, SaxEndDocument, SaxMove

(* The depth is that of the open blocks, and the maxima have seen it.      *)
THEOREM DepthFollowsBlocks == MndSpec /\ []OneFunction => []NestingFollowsBlocks
  <1>1. MndSystemInit => InMethod
    BY DEF MndSystemInit, Init, SaxInit, InMethod, OpenTags
  <1>2. MndIInv /\ InMethod => NestingFollowsBlocks
    BY DEF MndIInv, InMethod, NestingFollowsBlocks, OpenCount, OpenOf
  <1> QED
    BY <1>1, <1>2, StepInMethod, MndInvariance, PTL DEF MndSpec

-----------------------------------------------------------------------------
(* MND: the refinement of NestingDepth.                                    *)

(* The rows are a sequence, empty until the document starts.               *)
RowsSound ==
    /\ \E S : mnd_statistics \in Seq(S)
    /\ phase = "start" => mnd_statistics = <<>> /\ mnd_overall = 0

(* Max of FiniteSetsExt on two numbers is the comparison of the code.      *)
LEMMA MaxOfTwo ==
    ASSUME NEW a \in Nat, NEW b \in Nat
    PROVE  Nesting!Max({a, b}) = Larger(b, a)
  <1>1. CASE b > a
    BY <1>1 DEF Nesting!Max, Larger
  <1>2. CASE ~(b > a)
    BY <1>2 DEF Nesting!Max, Larger
  <1> QED
    BY <1>1, <1>2

(* A row that is inserted is a row more and a value more.                  *)
LEMMA Insert ==
    ASSUME NEW S, mnd_statistics \in Seq(S), NEW key, NEW val, MndInsert(key, val)
    PROVE  /\ \E R : mnd_statistics' \in Seq(R)
           /\ Values(mnd_statistics') = Append(Values(mnd_statistics), val)
  <1> DEFINE row == [key |-> <<"MND">> \o key, value |-> val]
  <1>1. mnd_statistics' = Append(mnd_statistics, row)
    BY DEF MndInsert
  <1>2. row.value = val
    OBVIOUS
  <1> HIDE DEF row
  <1>3. mnd_statistics \in Seq(S \cup {row}) /\ row \in S \cup {row}
    OBVIOUS
  <1>4. mnd_statistics' \in Seq(S \cup {row})
    BY <1>1, <1>3
  <1>5. Values(mnd_statistics') = Append(Values(mnd_statistics), val)
    BY <1>1, <1>2, <1>3, <1>4 DEF Values
  <1> QED
    BY <1>4, <1>5

(* Inserting in, clearing and leaving the rows keeps them a sequence.      *)
LEMMA StepRowsSound ==
    RowsSound /\ [MndNext]_<<vars, mndVars>> => RowsSound'
  <1> SUFFICES ASSUME RowsSound, [MndNext]_<<vars, mndVars>> PROVE RowsSound'
    OBVIOUS
  <1>1. PICK S : mnd_statistics \in Seq(S)
    BY DEF RowsSound
  <1>2. ASSUME phase' # "start", NEW key, NEW val, MndInsert(key, val)
        PROVE  RowsSound'
    BY <1>1, <1>2, Insert DEF RowsSound
  <1>3. ASSUME phase' # "start", UNCHANGED mnd_statistics PROVE RowsSound'
    BY <1>3 DEF RowsSound
  <1>4. CASE event_startDocument /\ event_startDocument_mnd
    <2>1. phase' = "document" /\ mnd_statistics' = <<>>
      BY <1>4 DEF event_startDocument, SaxStartDocument, SaxMove, event_startDocument_mnd
    <2>2. <<>> \in Seq({})
      OBVIOUS
    <2> QED
      BY <2>1, <2>2 DEF RowsSound
  <1>5. ASSUME NEW t \in Tags, event_startElement(t), event_startElement_mnd(t)
        PROVE  RowsSound'
    <2>1. phase' # "start"
      BY <1>5 DEF event_startElement, SaxStartElement
    <2> QED
      BY <1>3, <1>5, <2>1 DEF event_startElement_mnd
  <1>6. ASSUME NEW t \in Tags, event_endElement(t), event_endElement_mnd(t)
        PROVE  RowsSound'
    <2>1. phase' # "start"
      BY <1>6 DEF event_endElement, SaxEndElement
    <2> QED
      BY <1>2, <1>3, <1>6, <2>1 DEF event_endElement_mnd, MndFunctionEnds, MndBlockEnds
  <1>7. ASSUME NEW ch \in Text, event_charactersUnit(ch), UNCHANGED mndVars
        PROVE  RowsSound'
    <2>1. phase' # "start"
      BY <1>7 DEF event_charactersUnit, SaxCharacters
    <2> QED
      BY <1>3, <1>7, <2>1 DEF mndVars
  <1>8. CASE UNCHANGED <<vars, mndVars>>
    BY <1>8 DEF RowsSound, vars, saxVars, mndVars
  <1> QED
    BY <1>2, <1>3, <1>4, <1>5, <1>6, <1>7, <1>8
    DEF MndNext, event_startRoot, event_startUnit, event_endUnit, event_endRoot,
        event_endDocument, SaxStartRoot, SaxStartUnit, SaxEndUnit, SaxEndRoot,
        SaxEndDocument, SaxMove, event_startUnit_mnd, event_endUnit_mnd,
        event_endDocument_mnd, mndVars

(* The stream of the promise is the stream of the program.                 *)
LEMMA SameStream ==
    /\ SaxInit <=> Nesting!SaxInit
    /\ SaxStartDocument <=> Nesting!SaxStartDocument
    /\ SaxStartRoot <=> Nesting!SaxStartRoot
    /\ SaxStartUnit <=> Nesting!SaxStartUnit
    /\ \A t : SaxStartElement(t) <=> Nesting!SaxStartElement(t)
    /\ \A ch : SaxCharacters(ch) <=> Nesting!SaxCharacters(ch)
    /\ \A t : SaxEndElement(t) <=> Nesting!SaxEndElement(t)
    /\ SaxEndUnit <=> Nesting!SaxEndUnit
    /\ SaxEndRoot <=> Nesting!SaxEndRoot
    /\ SaxEndDocument <=> Nesting!SaxEndDocument
    /\ Text = Nesting!Text
    /\ OpenTags = Nesting!OpenTags
  BY DEF SaxInit, SaxMove, SaxStartDocument, SaxStartRoot, SaxStartUnit, SaxStartElement,
         SaxCharacters, SaxEndElement, SaxEndUnit, SaxEndRoot, SaxEndDocument, Text, OpenTags,
         Top, Fresh, Accepts, Complete,
         Nesting!SaxInit, Nesting!SaxMove, Nesting!SaxStartDocument, Nesting!SaxStartRoot,
         Nesting!SaxStartUnit, Nesting!SaxStartElement, Nesting!SaxCharacters,
         Nesting!SaxEndElement, Nesting!SaxEndUnit, Nesting!SaxEndRoot,
         Nesting!SaxEndDocument, Nesting!Text, Nesting!OpenTags, Nesting!Top, Nesting!Fresh,
         Nesting!Accepts, Nesting!Complete

(* The depth of the promise is the number of open blocks.                  *)
LEMMA DepthIsOpenCount ==
    Nesting!Depth(open) = OpenCount("block") /\ Nesting!Depth(open') = OpenCount("block")'
  <1>1. Nesting!Depth(open) = OpenCount("block")
    BY DEF Nesting!Depth, OpenCount, OpenOf, Cardinality, Nesting!Cardinality
  <1>2. Nesting!Depth(open') = OpenCount("block")'
    BY DEF Nesting!Depth, OpenCount, OpenOf, Cardinality, Nesting!Cardinality
  <1> QED
    BY <1>1, <1>2

(* An element that starts.                                                 *)
LEMMA StartRefines ==
    ASSUME MndIInv, InMethod, NEW t \in Tags, event_startElement(t),
           event_startElement_mnd(t)
    PROVE  Nesting!Start(t)
  <1>1. /\ phase = "unit" /\ SaxStartElement(t) /\ Nesting!SaxStartElement(t)
        /\ mnd_statistics' = mnd_statistics
    BY SameStream DEF event_startElement, SaxStartElement, event_startElement_mnd
  <1>2. /\ {nd, mnd_overall, mnd_unit, mnd_fn} \subseteq Nat
        /\ nd = OpenCount("block") /\ nd <= mnd_unit /\ mnd_unit <= mnd_overall
        /\ mnd_read_state = "READING_METHOD" => nd <= mnd_fn
        /\ mnd_read_state = "READING_METHOD" <=> "function" \in OpenTags
    BY <1>1 DEF MndIInv, MndTypeOK, InMethod
  <1>3. Nesting!Depth(open') = IF t = "block" THEN nd + 1 ELSE nd
    BY <1>1, <1>2, OneOpens, DepthIsOpenCount DEF MndIInv
  <1> DEFINE depth == Nesting!Depth(open')
  <1>4. depth \in Nat
    BY <1>2, <1>3
  <1> HIDE DEF depth
  <1>5. /\ Nesting!Max({mnd_overall, depth}) = Larger(depth, mnd_overall)
        /\ Nesting!Max({mnd_unit, depth}) = Larger(depth, mnd_unit)
        /\ Nesting!Max({mnd_fn, depth}) = Larger(depth, mnd_fn)
    BY <1>2, <1>4, MaxOfTwo
  <1>6. /\ mnd_overall' = Larger(depth, mnd_overall)
        /\ mnd_unit' = Larger(depth, mnd_unit)
        /\ mnd_fn' = IF t = "function" THEN depth
                     ELSE IF "function" \in OpenTags THEN Larger(depth, mnd_fn)
                     ELSE mnd_fn
    BY <1>2, <1>3 DEF depth, event_startElement_mnd, MndFunction, MndBlock, Larger
  <1> QED
    BY <1>1, <1>5, <1>6, SameStream DEF depth, Nesting!Start

(* An element that ends.                                                   *)
LEMMA FinishRefines ==
    ASSUME RowsSound, NEW t \in Tags, event_endElement(t), event_endElement_mnd(t)
    PROVE  Nesting!Finish(t)
  <1>1. Nesting!SaxEndElement(t) /\ UNCHANGED <<mnd_overall, mnd_unit, mnd_fn>>
    BY SameStream DEF event_endElement, event_endElement_mnd
  <1>2. Values(mnd_statistics') = IF t = "function" THEN Append(Values(mnd_statistics), mnd_fn)
                                  ELSE Values(mnd_statistics)
    BY Insert DEF RowsSound, event_endElement_mnd, MndFunctionEnds, MndBlockEnds
  <1> QED
    BY <1>1, <1>2 DEF Values, Nesting!Finish

(* Every step is a step of the promise, or leaves it alone.                *)
LEMMA StepRefines ==
    MndIInv /\ InMethod /\ RowsSound /\ [MndNext]_<<vars, mndVars>> =>
        [Nesting!DepthNext]_<<Nesting!saxVars, Nesting!depthVars>>
  <1> SUFFICES ASSUME MndIInv, InMethod, RowsSound, [MndNext]_<<vars, mndVars>>
               PROVE  [Nesting!DepthNext]_<<Nesting!saxVars, Nesting!depthVars>>
    OBVIOUS
  <1>1. ASSUME \/ SaxStartDocument \/ SaxStartRoot \/ SaxEndRoot
               \/ \E ch \in Text : SaxCharacters(ch),
               UNCHANGED <<mnd_overall, mnd_unit, mnd_fn, mnd_statistics>>
        PROVE  Nesting!Silent
    BY <1>1, SameStream DEF Nesting!Silent, Nesting!depthVars
  <1>2. CASE event_startDocument /\ event_startDocument_mnd
    BY <1>1, <1>2
    DEF RowsSound, event_startDocument, SaxStartDocument, SaxMove, event_startDocument_mnd,
        Nesting!DepthNext
  <1>3. CASE event_startRoot /\ UNCHANGED mndVars
    BY <1>1, <1>3 DEF event_startRoot, mndVars, Nesting!DepthNext
  <1>4. ASSUME NEW filename \in Filenames, event_startUnit(filename), event_startUnit_mnd
        PROVE  Nesting!StartUnit
    BY <1>4, SameStream DEF event_startUnit, event_startUnit_mnd, Nesting!StartUnit
  <1>5. ASSUME NEW t \in Tags, event_startElement(t), event_startElement_mnd(t)
        PROVE  Nesting!DepthNext
    BY <1>5, StartRefines DEF Nesting!DepthNext
  <1>6. ASSUME NEW t \in Tags, event_endElement(t), event_endElement_mnd(t)
        PROVE  Nesting!DepthNext
    BY <1>6, FinishRefines DEF Nesting!DepthNext
  <1>7. ASSUME NEW ch \in Text, event_charactersUnit(ch), UNCHANGED mndVars
        PROVE  Nesting!Silent
    BY <1>1, <1>7 DEF event_charactersUnit, mndVars
  <1>8. CASE event_endUnit /\ event_endUnit_mnd
    <2>1. Values(mnd_statistics') = Append(Values(mnd_statistics), mnd_unit)
      BY <1>8, Insert DEF RowsSound, event_endUnit_mnd
    <2> QED
      BY <1>8, <2>1, SameStream
      DEF event_endUnit, event_endUnit_mnd, Values, Nesting!FinishUnit, Nesting!DepthNext
  <1>9. CASE event_endRoot /\ UNCHANGED mndVars
    BY <1>1, <1>9 DEF event_endRoot, mndVars, Nesting!DepthNext
  <1>10. CASE event_endDocument /\ event_endDocument_mnd
    <2>1. Values(mnd_statistics') = Append(Values(mnd_statistics), mnd_overall)
      BY <1>10, Insert DEF RowsSound, event_endDocument_mnd
    <2> QED
      BY <1>10, <2>1, SameStream
      DEF event_endDocument, event_endDocument_mnd, Values, Nesting!FinishDocument,
          Nesting!DepthNext
  <1>11. CASE UNCHANGED <<vars, mndVars>>
    BY <1>11 DEF vars, saxVars, mndVars, Nesting!saxVars, Nesting!depthVars
  <1> QED
    BY <1>2, <1>3, <1>4, <1>5, <1>6, <1>7, <1>8, <1>9, <1>10, <1>11
    DEF MndNext, Nesting!DepthNext

(* Where no function is inside another, counting up and down at block      *)
(* elements reports the depths that the structure of the code defines.     *)
THEOREM MndReportsNestingDepth == MndSpec /\ []OneFunction => MndImplementsNestingDepth
  <1>1. MndSystemInit => Nesting!DepthInit
    BY SameStream DEF MndSystemInit, Init, MndInit, Nesting!DepthInit
  <1>2. MndSystemInit => InMethod /\ RowsSound
    <2>1. <<>> \in Seq({})
      OBVIOUS
    <2> QED
      BY <2>1 DEF MndSystemInit, Init, SaxInit, MndInit, InMethod, OpenTags, RowsSound
  <1> QED
    BY <1>1, <1>2, StepInMethod, StepRowsSound, StepRefines, MndInvariance, PTL
    DEF MndSpec, MndImplementsNestingDepth, Nesting!DepthSpec

-----------------------------------------------------------------------------
(* NPM: the counters.                                                      *)

(* What is kept of the counters is DiscountsCounted; the rest are types.   *)
NpmIInv ==
    /\ npm_read_state \in {"WAITING_METHOD", "READING_METHOD", "READING_TYPE",
                           "READING_SPECIFIER"}
    /\ npm_overall \in Nat
    /\ npm_unit \in Nat
    /\ specifier_chunk \in Seq(Text)
    /\ DiscountsCounted

(* A character is one of the grammar's, whichever element it is in.        *)
LEMMA CharacterIsText ==
    ASSUME NEW ch \in Text
    PROVE  \A s \in Seq(Text) : Append(s, ch) \in Seq(Text)
  OBVIOUS

(* A unit starts with the reader waiting and nothing counted in it.        *)
LEMMA NpmUnitStarts ==
    ASSUME NpmIInv, event_startUnit_npm
    PROVE  NpmIInv'
  BY DEF NpmIInv, DiscountsCounted, event_startUnit_npm

(* The start of an element counts a function in both counters or in none,  *)
(* and only leaves the waiting state when it counts.                       *)
LEMMA NpmElementStarts ==
    ASSUME NpmIInv, phase = "unit", phase' = "unit", NEW t, event_startElement_npm(t)
    PROVE  NpmIInv'
  <1>1. CASE NpmFunction(t)
    BY <1>1 DEF NpmIInv, DiscountsCounted, event_startElement_npm, NpmFunction
  <1>2. CASE NpmDescends(t)
    BY <1>2 DEF NpmIInv, DiscountsCounted, event_startElement_npm, NpmDescends
  <1>3. CASE NpmSkipsStart(t)
    BY <1>3 DEF NpmIInv, DiscountsCounted, event_startElement_npm, NpmSkipsStart
  <1> QED
    BY <1>1, <1>2, <1>3 DEF event_startElement_npm

(* The end of an element takes one off both counters or off none; when it  *)
(* does, the reader was not waiting, and it waits afterwards.              *)
LEMMA NpmElementEnds ==
    ASSUME NpmIInv, phase = "unit", phase' = "unit", NEW t, event_endElement_npm(t)
    PROVE  NpmIInv'
  <1>1. CASE NpmStaticEnds(t)
    BY <1>1 DEF NpmIInv, DiscountsCounted, event_endElement_npm, NpmStaticEnds
  <1>2. CASE NpmOtherSpecifierEnds(t)
    BY <1>2 DEF NpmIInv, DiscountsCounted, event_endElement_npm, NpmOtherSpecifierEnds
  <1>3. CASE NpmWaits(t)
    BY <1>3 DEF NpmIInv, DiscountsCounted, event_endElement_npm, NpmWaits
  <1>4. CASE NpmSkipsEnd(t)
    BY <1>4 DEF NpmIInv, DiscountsCounted, event_endElement_npm, NpmSkipsEnd
  <1> QED
    BY <1>1, <1>2, <1>3, <1>4 DEF event_endElement_npm

(* Between units, and where no handler runs, the counters are left alone,  *)
(* or the document's is reset together with the reader.                    *)
LEMMA NpmOutsideUnit ==
    ASSUME NpmIInv, phase' # "unit",
           \/ event_startDocument_npm
           \/ event_endUnit_npm
           \/ event_endDocument_npm
           \/ UNCHANGED npmVars
    PROVE  NpmIInv'
  <1>1. CASE event_startDocument_npm
    <2>1. <<>> \in Seq(Text)
      OBVIOUS
    <2> QED
      BY <1>1, <2>1 DEF NpmIInv, DiscountsCounted, event_startDocument_npm
  <1>2. CASE UNCHANGED <<npm_read_state, npm_overall, npm_unit, specifier_chunk>>
    BY <1>2 DEF NpmIInv, DiscountsCounted
  <1> QED
    BY <1>1, <1>2 DEF event_endUnit_npm, event_endDocument_npm, npmVars

(* The invariant is inductive.                                             *)
LEMMA NpmStep == NpmIInv /\ [NpmNext]_<<vars, npmVars>> => NpmIInv'
  <1> SUFFICES ASSUME NpmIInv, [NpmNext]_<<vars, npmVars>> PROVE NpmIInv'
    OBVIOUS
  <1>1. CASE event_startDocument /\ event_startDocument_npm
    BY <1>1, NpmOutsideUnit DEF event_startDocument, SaxStartDocument, SaxMove
  <1>2. CASE event_startRoot /\ UNCHANGED npmVars
    BY <1>2, NpmOutsideUnit DEF event_startRoot, SaxStartRoot, SaxMove
  <1>3. CASE \E filename \in Filenames : event_startUnit(filename) /\ event_startUnit_npm
    BY <1>3, NpmUnitStarts
  <1>4. ASSUME NEW t \in Tags, event_startElement(t), event_startElement_npm(t)
        PROVE  NpmIInv'
    BY <1>4, NpmElementStarts DEF event_startElement, SaxStartElement
  <1>5. ASSUME NEW t \in Tags, event_endElement(t), event_endElement_npm(t)
        PROVE  NpmIInv'
    BY <1>5, NpmElementEnds DEF event_endElement, SaxEndElement
  <1>6. ASSUME NEW ch \in Text, event_charactersUnit(ch), event_charactersUnit_npm(ch)
        PROVE  NpmIInv'
    BY <1>6, CharacterIsText
    DEF NpmIInv, DiscountsCounted, event_charactersUnit, SaxCharacters,
        event_charactersUnit_npm
  <1>7. CASE event_endUnit /\ event_endUnit_npm
    BY <1>7, NpmOutsideUnit DEF event_endUnit, SaxEndUnit
  <1>8. CASE event_endRoot /\ UNCHANGED npmVars
    BY <1>8, NpmOutsideUnit DEF event_endRoot, SaxEndRoot, SaxMove
  <1>9. CASE event_endDocument /\ event_endDocument_npm
    BY <1>9, NpmOutsideUnit DEF event_endDocument, SaxEndDocument, SaxMove
  <1>10. CASE UNCHANGED <<vars, npmVars>>
    BY <1>10 DEF NpmIInv, DiscountsCounted, vars, saxVars, npmVars
  <1> QED
    BY <1>1, <1>2, <1>3, <1>4, <1>5, <1>6, <1>7, <1>8, <1>9, <1>10 DEF NpmNext

(* The invariant holds of every run.                                       *)
LEMMA NpmInvariance == NpmSpec => []NpmIInv
  <1>1. NpmSystemInit => NpmIInv
    BY DEF NpmSystemInit, Init, SaxInit, NpmInit, NpmIInv, DiscountsCounted
  <1> QED
    BY <1>1, NpmStep, PTL DEF NpmSpec

-----------------------------------------------------------------------------
(* NPM: the theorems on the counters.                                      *)

(* A function is taken back once, after it was counted, in the unit that   *)
(* counted it, whatever specifiers the stream has.                         *)
THEOREM DiscountsAreCounted == NpmSpec => []DiscountsCounted
  <1>1. NpmIInv => DiscountsCounted
    BY DEF NpmIInv
  <1> QED
    BY NpmInvariance, <1>1, PTL

(* The unsigned counters npm_overall and npm_unit never wrap, and the text *)
(* that is compared with static is text of the stream.                     *)
THEOREM CountersNeverWrap == NpmSpec => []NpmTypeOK
  <1>1. NpmIInv => NpmTypeOK
    BY DEF NpmIInv, NpmTypeOK
  <1> QED
    BY NpmInvariance, <1>1, PTL

-----------------------------------------------------------------------------
(* NPM: where the code is written as npm.c expects it.                     *)

(* A function element has its type before anything else, and no other one; *)
(* a type has one specifier at most, and a specifier is plain text.        *)
FunctionsAreTyped ==
    /\ "function" \in Tags =>
          /\ 1 \in DOMAIN Grammar["function"]
          /\ Grammar["function"][1] = [tags |-> {"type"}, least |-> 1, many |-> FALSE]
          /\ \A k \in DOMAIN Grammar["function"] :
                k > 1 => "type" \notin Grammar["function"][k].tags
    /\ "type" \in Tags =>
          \A k, l \in DOMAIN Grammar["type"] :
             "specifier" \in Grammar["type"][k].tags \cap Grammar["type"][l].tags =>
                 k = l /\ ~Grammar["type"][k].many
    /\ "specifier" \in Tags => Grammar["specifier"] = <<>>

(* In the type of a function there is no other type, and a specifier is    *)
(* the type's own child.                                                   *)
TypesArePlain ==
    \A i, j \in DOMAIN open :
        open[i].tag = "function" /\ i + 1 < j /\ open[i + 1].tag = "type" =>
            open[j].tag # "type" /\ (open[j].tag = "specifier" => j = i + 2)

(* A specifier that ends is static: after another one the reader is stuck. *)
SpecifierIsStatic == SaxEndElement("specifier") => Top.text = StaticSpelling

(* No specifier can start any more in the type at place i + 1.             *)
SpecifierSeen(i) ==
    \A k \in DOMAIN Grammar["type"] :
        "specifier" \in Grammar["type"][k].tags => k <= open[i + 1].slot

(* What the reader has seen of that type, in the function at place i of    *)
(* the stack, and what it has seen of the function.                        *)
TypeRead(i) ==
    \/ /\ npm_read_state = "READING_TYPE"
       /\ \A j \in DOMAIN open : j > i + 1 => open[j].tag # "specifier"
    \/ /\ npm_read_state = "READING_SPECIFIER"
       /\ Len(open) = i + 2
       /\ Top.tag = "specifier"
       /\ specifier_chunk = Top.text
       /\ SpecifierSeen(i)
    \/ /\ npm_read_state = "WAITING_METHOD"
       /\ i + 2 \in DOMAIN open => open[i + 2].tag # "specifier"
       /\ SpecifierSeen(i)

FunctionRead(i) ==
    \/ /\ npm_read_state = "READING_METHOD"
       /\ i = Len(open)
       /\ open[i].slot = 0
    \/ /\ open[i].slot >= 1
       /\ IF i < Len(open) /\ open[i + 1].tag = "type" THEN TypeRead(i)
          ELSE npm_read_state = "WAITING_METHOD"

NpmReads ==
    /\ \A i \in DOMAIN open : open[i].tag = "function" => FunctionRead(i)
    /\ "function" \notin OpenTags => npm_read_state = "WAITING_METHOD"
    /\ npm_read_state # "READING_SPECIFIER" => specifier_chunk = <<>>

(* The rows are a sequence, empty until the document starts.               *)
NpmRowsSound ==
    /\ \E S : npm_statistics \in Seq(S)
    /\ phase = "start" => npm_statistics = <<>> /\ npm_overall = 0

(* What an element that starts can be, by what is open around it.          *)
LEMMA NextInType ==
    ASSUME FunctionsAreTyped, NEW e \in Element, NEW t \in Tags,
           NEW k \in DOMAIN Grammar[e.tag], Accepts(e, k, t)
    PROVE  /\ k \in Nat /\ k >= 1 /\ k >= e.slot
           /\ e.tag # "specifier"
           /\ e.tag = "function" =>
                 IF e.slot = 0 THEN k = 1 /\ t = "type" ELSE t # "type"
           /\ e.tag = "type" /\ t = "specifier" =>
                 /\ e.slot < k
                 /\ \A l \in DOMAIN Grammar["type"] :
                       "specifier" \in Grammar["type"][l].tags => l = k
  <1>1. e.tag # "specifier"
    BY StreamAssumption DEF FunctionsAreTyped, Element
  <1>2. Grammar[e.tag] \in Seq(Slot) /\ e.slot \in Nat
    BY StreamAssumption DEF Element
  <1>3. k \in Nat /\ k >= 1
    BY <1>2
  <1>4. /\ t \in Grammar[e.tag][k].tags
        /\ k > e.slot \/ (k = e.slot /\ Grammar[e.tag][k].many)
        /\ \A j \in DOMAIN Grammar[e.tag] :
              e.slot < j /\ j < k => Grammar[e.tag][j].least = 0
    BY DEF Accepts
  <1>5. ASSUME e.tag = "function"
        PROVE  IF e.slot = 0 THEN k = 1 /\ t = "type" ELSE t # "type"
    <2> DEFINE slots == Grammar["function"]
    <2>1. "function" \in Tags
      BY <1>5, StreamAssumption DEF Element
    <2>2. /\ 1 \in DOMAIN slots
          /\ slots[1].tags = {"type"} /\ slots[1].least = 1 /\ ~slots[1].many
          /\ k > 1 => "type" \notin slots[k].tags
      BY <1>5, <2>1 DEF FunctionsAreTyped
    <2>3. /\ t \in slots[k].tags
          /\ k > e.slot \/ (k = e.slot /\ slots[k].many)
          /\ \A j \in DOMAIN slots : e.slot < j /\ j < k => slots[j].least = 0
      BY <1>4, <1>5
    <2> HIDE DEF slots
    <2>4. e.slot = 0 => k = 1
      BY <1>2, <1>3, <2>2, <2>3
    <2>5. e.slot # 0 => k > 1
      BY <1>2, <1>3, <2>2, <2>3
    <2> QED
      BY <2>2, <2>3, <2>4, <2>5
  <1>6. ASSUME e.tag = "type", t = "specifier"
        PROVE  /\ e.slot < k
               /\ \A l \in DOMAIN Grammar["type"] :
                     "specifier" \in Grammar["type"][l].tags => l = k
    <2>1. "type" \in Tags
      BY <1>6, StreamAssumption DEF Element
    <2>2. \A l \in DOMAIN Grammar["type"] :
             "specifier" \in Grammar["type"][l].tags => l = k /\ ~Grammar["type"][k].many
      BY <1>4, <1>6, <2>1 DEF FunctionsAreTyped
    <2>3. ~Grammar["type"][k].many
      BY <1>4, <1>6, <2>2
    <2>4. e.slot < k
      BY <1>2, <1>3, <1>4, <1>6, <2>3
    <2> QED
      BY <2>2, <2>4
  <1>7. k >= e.slot
    BY <1>2, <1>3, <1>4
  <1> QED
    BY <1>1, <1>3, <1>5, <1>6, <1>7

(* An element starts.                                                      *)
LEMMA NpmReadsStart ==
    ASSUME FunctionsAreTyped, SaxTypeOK, StreamShape, NpmReads, OneFunction', TypesArePlain',
           NEW t \in Tags, SaxStartElement(t), event_startElement_npm(t)
    PROVE  NpmReads'
  <1> DEFINE n == Len(open)
  <1>1. /\ n \in Nat /\ n >= 1 /\ DOMAIN open = 1..n
        /\ Len(open') = n + 1 /\ DOMAIN open' = 1..(n + 1)
        /\ \A i \in 1..n : open'[i].tag = open[i].tag
        /\ open'[n + 1].tag = t
        /\ \A i \in 1..n : open[i] \in Element
    BY StartKeepsOpen DEF SaxTypeOK, StreamShape, SaxStartElement
  <1>2. /\ \A i \in 1..(n - 1) : open'[i] = open[i]
        /\ open'[n + 1] = Fresh(t)
    BY <1>1, Started DEF Top
  <1>3. PICK k \in DOMAIN Grammar[open[n].tag] :
            Accepts(open[n], k, t) /\ open'[n] = [open[n] EXCEPT !.slot = k]
    BY Started DEF Top
  <1>4. /\ k \in Nat /\ k >= 1 /\ k >= open[n].slot
        /\ open[n].tag # "specifier"
        /\ open[n].tag = "function" =>
              IF open[n].slot = 0 THEN k = 1 /\ t = "type" ELSE t # "type"
        /\ open[n].tag = "type" /\ t = "specifier" =>
              /\ open[n].slot < k
              /\ \A l \in DOMAIN Grammar["type"] :
                    "specifier" \in Grammar["type"][l].tags => l = k
    BY <1>1, <1>3, NextInType
  <1>5. open'[n].slot = k /\ open[n].slot \in Nat /\ open'[n + 1].slot = 0 /\ open'[n + 1].text = <<>>
    BY <1>1, <1>2, <1>3 DEF Element, Fresh
  <1>6. OpenTags' = OpenTags \cup {t}
    BY OpenedTag
  <1>7. /\ Top = open[n] /\ Top' = open'[n + 1]
    BY <1>1 DEF Top
  <1>8. specifier_chunk' = specifier_chunk
    BY DEF event_startElement_npm
  <1> HIDE DEF n
  <1>9. CASE t = "function"
    <2>1. "function" \notin OpenTags
      BY <1>9, OnlyFunction
    <2>2. npm_read_state = "WAITING_METHOD" /\ specifier_chunk = <<>>
      BY <2>1 DEF NpmReads
    <2>3. npm_read_state' = "READING_METHOD"
      BY <1>9, <2>2 DEF event_startElement_npm, NpmFunction, NpmDescends, NpmSkipsStart
    <2>4. PICK f \in Nat : f = n + 1
      BY <1>1
    <2>5. \A i \in DOMAIN open' : open'[i].tag = "function" => i = f
      BY <1>1, <1>9, <2>4 DEF OneFunction
    <2>6. FunctionRead(f)'
      BY <1>1, <1>5, <2>3, <2>4 DEF FunctionRead
    <2>7. "function" \in OpenTags'
      BY <1>6, <1>9
    <2> QED
      BY <1>8, <2>2, <2>3, <2>5, <2>6, <2>7 DEF NpmReads
  <1>10. CASE t # "function" /\ "function" \notin OpenTags
    <2>1. "function" \notin OpenTags'
      BY <1>6, <1>10
    <2>2. npm_read_state = "WAITING_METHOD" /\ specifier_chunk = <<>>
      BY <1>10 DEF NpmReads
    <2>3. npm_read_state' = "WAITING_METHOD"
      BY <1>10, <2>2 DEF event_startElement_npm, NpmFunction, NpmDescends, NpmSkipsStart
    <2>4. \A i \in DOMAIN open' : open'[i].tag # "function"
      BY <2>1 DEF OpenTags
    <2> QED
      BY <1>8, <2>2, <2>3, <2>4 DEF NpmReads
  <1>11. CASE t # "function" /\ "function" \in OpenTags
    <2>1. PICK f \in 1..n : open[f].tag = "function"
      BY <1>1, <1>11 DEF OpenTags
    <2>2. FunctionRead(f)
      BY <1>1, <2>1 DEF NpmReads
    <2>3. /\ \A i \in DOMAIN open' : open'[i].tag = "function" => i = f
          /\ f \in DOMAIN open' /\ open'[f].tag = "function" /\ f \in Nat
      BY <1>1, <2>1 DEF OneFunction
    <2>4. \A j \in 1..(n + 1) :
             f + 1 < j /\ open'[f + 1].tag = "type" =>
                 open'[j].tag # "type" /\ (open'[j].tag = "specifier" => j = f + 2)
      BY <1>1, <2>3 DEF TypesArePlain
    <2>5. SUFFICES /\ FunctionRead(f)'
                   /\ npm_read_state' # "READING_SPECIFIER" => specifier_chunk = <<>>
      BY <1>6, <1>8, <1>11, <2>3 DEF NpmReads
    <2>6. npm_read_state # "READING_SPECIFIER" => specifier_chunk = <<>>
      BY DEF NpmReads
    <2>7. npm_read_state' =
             IF npm_read_state = "READING_METHOD" /\ t = "type" THEN "READING_TYPE"
             ELSE IF npm_read_state = "READING_TYPE" /\ t = "specifier" THEN "READING_SPECIFIER"
             ELSE npm_read_state
      BY <1>11 DEF event_startElement_npm, NpmFunction, NpmDescends, NpmSkipsStart
    <2>8. CASE npm_read_state = "READING_METHOD" /\ f = n /\ open[f].slot = 0
      <3>1. t = "type" /\ k = 1
        BY <1>4, <2>1, <2>8
      <3>2. npm_read_state' = "READING_TYPE"
        BY <2>7, <2>8, <3>1
      <3>3. /\ open'[f].slot >= 1 /\ f < Len(open') /\ open'[f + 1].tag = "type"
            /\ \A j \in DOMAIN open' : ~(j > f + 1)
        BY <1>1, <1>5, <2>8, <3>1
      <3> QED
        BY <2>6, <2>8, <3>2, <3>3 DEF FunctionRead, TypeRead
    <2>9. CASE /\ open[f].slot >= 1
               /\ ~(f < n /\ open[f + 1].tag = "type")
               /\ npm_read_state = "WAITING_METHOD"
      <3>1. npm_read_state' = "WAITING_METHOD"
        BY <1>11, <2>7, <2>9
      <3>2. open'[f].slot >= 1
        BY <1>1, <1>2, <1>4, <1>5, <2>1, <2>9
      <3>3. ~(f < Len(open') /\ open'[f + 1].tag = "type")
        <4>1. CASE f < n
          BY <1>1, <2>1, <2>9, <4>1
        <4>2. CASE f = n
          BY <1>1, <1>4, <2>1, <2>9, <4>2
        <4> QED
          BY <1>1, <2>1, <4>1, <4>2
      <3> QED
        BY <2>6, <2>9, <3>1, <3>2, <3>3 DEF FunctionRead
    <2>10. CASE open[f].slot >= 1 /\ f < n /\ open[f + 1].tag = "type" /\ TypeRead(f)
      <3>1. /\ open'[f].slot >= 1 /\ f < Len(open') /\ open'[f + 1].tag = "type"
            /\ f + 1 \in 1..n /\ f + 2 \in 1..(n + 1) /\ f \in 1..(n - 1)
        BY <1>1, <1>2, <2>1, <2>10
      <3>2. SUFFICES /\ TypeRead(f)'
                     /\ npm_read_state' # "READING_SPECIFIER" => specifier_chunk = <<>>
        BY <3>1 DEF FunctionRead
      <3>3. CASE /\ npm_read_state = "READING_TYPE"
                 /\ \A j \in DOMAIN open : j > f + 1 => open[j].tag # "specifier"
        <4>1. CASE t = "specifier"
          <5>1. n + 1 = f + 2
            BY <1>1, <2>1, <2>4, <2>10, <3>1, <4>1
          <5>2. npm_read_state' = "READING_SPECIFIER"
            BY <2>7, <3>3, <4>1
          <5>3. specifier_chunk = <<>>
            BY <2>6, <3>3
          <5>4. f + 1 = n /\ open[n].tag = "type"
            BY <1>1, <2>1, <2>10, <5>1
          <5>5. SpecifierSeen(f)'
            BY <1>4, <1>5, <4>1, <5>4 DEF SpecifierSeen
          <5> QED
            BY <1>1, <1>5, <1>7, <1>8, <4>1, <5>1, <5>2, <5>3, <5>5 DEF TypeRead
        <4>2. CASE t # "specifier"
          <5>1. npm_read_state' = "READING_TYPE"
            BY <2>7, <3>3, <4>2
          <5>2. \A j \in DOMAIN open' : j > f + 1 => open'[j].tag # "specifier"
            <6>1. \A j \in 1..n : j > f + 1 => open'[j].tag # "specifier"
              BY <1>1, <3>3
            <6>2. \A j \in 1..(n + 1) : j \in 1..n \/ j = n + 1
              BY <1>1
            <6> QED
              BY <1>1, <4>2, <6>1, <6>2
          <5>3. specifier_chunk = <<>>
            BY <2>6, <3>3
          <5> QED
            BY <5>1, <5>2, <5>3 DEF TypeRead
        <4> QED
          BY <4>1, <4>2
      <3>4. CASE /\ npm_read_state = "READING_SPECIFIER" /\ Len(open) = f + 2
                 /\ Top.tag = "specifier"
        BY <1>4, <1>7, <3>4
      <3>5. CASE /\ npm_read_state = "WAITING_METHOD"
                 /\ f + 2 \in DOMAIN open => open[f + 2].tag # "specifier"
                 /\ \A l \in DOMAIN Grammar["type"] :
                       "specifier" \in Grammar["type"][l].tags => l <= open[f + 1].slot
        <4>1. npm_read_state' = "WAITING_METHOD"
          BY <1>11, <2>7, <3>5
        <4>2. specifier_chunk = <<>>
          BY <2>6, <3>5
        <4>3. CASE f + 1 = n
          <5>1. open[n].tag = "type" /\ Grammar[open[n].tag] = Grammar["type"]
            BY <2>10, <4>3
          <5>2. t # "specifier"
            <6>1. SUFFICES ASSUME t = "specifier" PROVE FALSE
              OBVIOUS
            <6>2. "specifier" \in Grammar["type"][k].tags /\ k \in DOMAIN Grammar["type"]
              BY <1>3, <5>1, <6>1 DEF Accepts
            <6>3. k <= open[n].slot /\ open[n].slot < k
              BY <1>4, <3>5, <4>3, <5>1, <6>1, <6>2
            <6> QED
              BY <1>4, <1>5, <6>3
          <5>3. \A l \in DOMAIN Grammar["type"] :
                   "specifier" \in Grammar["type"][l].tags => l <= open'[n].slot
            <6>1. Grammar["type"] \in Seq(Slot)
              BY SMTT(30), <1>1, <5>1, StreamAssumption DEF Element
            <6>2. ASSUME NEW l \in DOMAIN Grammar["type"],
                         "specifier" \in Grammar["type"][l].tags
                  PROVE  l <= open'[n].slot
              <7>1. l <= open[n].slot /\ l \in Nat
                BY <3>5, <4>3, <6>1, <6>2
              <7> QED
                BY <1>4, <1>5, <7>1
            <6> QED
              BY <6>2
          <5>4. open'[f + 2].tag # "specifier"
            BY <1>1, <4>3, <5>2, <2>1
          <5>5. f + 1 = n
            BY <4>3
          <5> QED
            BY <4>1, <4>2, <5>3, <5>4, <5>5 DEF TypeRead, SpecifierSeen
        <4>4. CASE f + 1 < n
          <5>1. f + 2 \in 1..n /\ f + 1 \in 1..(n - 1)
            BY <1>1, <2>1, <4>4
          <5>2. open'[f + 1] = open[f + 1] /\ open'[f + 2].tag # "specifier"
            BY <1>1, <1>2, <3>5, <5>1
          <5> QED
            BY <3>5, <4>1, <4>2, <5>2 DEF TypeRead, SpecifierSeen
        <4> QED
          BY <1>1, <3>1, <4>3, <4>4
      <3> QED
        BY <2>10, <3>3, <3>4, <3>5 DEF TypeRead, SpecifierSeen
    <2>11. n = Len(open)
      BY DEF n
    <2> QED
      BY <2>1, <2>2, <2>8, <2>9, <2>10, <2>11 DEF FunctionRead
  <1> QED
    BY <1>9, <1>10, <1>11

(* An element ends; the reader takes the function back exactly when the    *)
(* promise does.                                                           *)
LEMMA NpmReadsEnd ==
    ASSUME SaxTypeOK, StreamShape, NpmReads, OneFunction, TypesArePlain, SpecifierIsStatic,
           {npm_overall, npm_unit} \subseteq Nat,
           NEW t \in Tags, SaxEndElement(t), event_endElement_npm(t)
    PROVE  /\ NpmReads'
           /\ npm_overall' = npm_overall - (IF Public!IsStatic(t) THEN 1 ELSE 0)
           /\ npm_unit' = npm_unit - (IF Public!IsStatic(t) THEN 1 ELSE 0)
  <1> DEFINE n == Len(open)
             m == n - 1
  <1>1. /\ n \in Nat /\ n >= 2 /\ m \in Nat /\ n = m + 1 /\ m >= 1
        /\ DOMAIN open = 1..n /\ Len(open') = m /\ DOMAIN open' = 1..m
        /\ \A i \in 1..m : open'[i].tag = open[i].tag
        /\ open[n].tag = t
        /\ \A i \in 1..n : open[i] \in Element
        /\ open[1].tag = "unit" /\ t # "unit"
    <2>1. n \in Nat /\ n >= 2 /\ DOMAIN open = 1..n /\ \A i \in 1..n : open[i] \in Element
      BY DEF SaxTypeOK, SaxEndElement
    <2>2. /\ Len(open') = n - 1 /\ open[n].tag = t /\ open' \in Seq(Element)
          /\ \A i \in DOMAIN open' : open'[i].tag = open[i].tag
      BY EndKeepsOpen DEF SaxTypeOK
    <2>3. open[1].tag = "unit" /\ t # "unit"
      BY <2>1, StreamAssumption DEF StreamShape
    <2> HIDE DEF n
    <2> QED
      BY <2>1, <2>2, <2>3
  <1>2. \A i \in 1..m : open'[i].slot = open[i].slot
    <2>1. /\ \A i \in 1..Len(open) - 2 : open'[i] = open[i]
          /\ Top' = IF t = "name" /\ open[Len(open) - 1].tag = "function"
                    THEN [open[Len(open) - 1] EXCEPT !.name = Top.text]
                    ELSE open[Len(open) - 1]
      BY Ended
    <2>2. open'[m].slot = open[m].slot
      BY <1>1, <2>1 DEF Top, Element
    <2> QED
      BY <1>1, <2>1, <2>2
  <1>3. OpenTags = OpenTags' \cup {t}
    BY ClosedTag
  <1>4. Top = open[n] /\ Top.tag = t /\ (t = "specifier" => Top.text = StaticSpelling)
    BY <1>1 DEF Top, SpecifierIsStatic
  <1>5. Public!IsStatic(t) <=>
            t = "specifier" /\ n > 3 /\ open[m].tag = "type" /\ open[m - 1].tag = "function"
    BY <1>1, <1>4 DEF Public!IsStatic, Public!Top, Top
  <1>6. /\ npm_read_state # "READING_SPECIFIER" => specifier_chunk = <<>>
        /\ npm_overall - 0 = npm_overall /\ npm_unit - 0 = npm_unit
    BY DEF NpmReads
  <1>7. n = Len(open)
    OBVIOUS
  <1> HIDE DEF n, m
  <1>8. CASE t = "function"
    <2>1. FunctionRead(n)
      BY <1>1, <1>8 DEF NpmReads
    <2>2. npm_read_state \in {"WAITING_METHOD", "READING_METHOD"}
      BY <1>1, <1>7, <2>1 DEF FunctionRead
    <2>3. "function" \notin OpenTags'
      BY <1>8, OnlyFunction
    <2>4. /\ npm_read_state' = "WAITING_METHOD" /\ specifier_chunk' = <<>>
          /\ UNCHANGED <<npm_overall, npm_unit>>
      BY <1>6, <1>8, <2>2
      DEF event_endElement_npm, NpmStaticEnds, NpmOtherSpecifierEnds, NpmWaits, NpmSkipsEnd
    <2>5. \A i \in DOMAIN open' : open'[i].tag # "function"
      BY <2>3 DEF OpenTags
    <2> QED
      BY <1>5, <1>6, <1>8, <2>3, <2>4, <2>5 DEF NpmReads
  <1>9. CASE t # "function" /\ "function" \notin OpenTags
    <2>1. "function" \notin OpenTags' /\ \A i \in DOMAIN open' : open'[i].tag # "function"
      BY <1>3, <1>9 DEF OpenTags
    <2>2. npm_read_state = "WAITING_METHOD" /\ specifier_chunk = <<>>
      BY <1>9 DEF NpmReads
    <2>3. /\ npm_read_state' = "WAITING_METHOD" /\ specifier_chunk' = <<>>
          /\ UNCHANGED <<npm_overall, npm_unit>>
      BY <1>9, <2>2
      DEF event_endElement_npm, NpmStaticEnds, NpmOtherSpecifierEnds, NpmWaits, NpmSkipsEnd
    <2>4. ~Public!IsStatic(t)
      <3>1. SUFFICES ASSUME n > 3, open[m - 1].tag = "function" PROVE FALSE
        BY <1>5
      <3>2. m - 1 \in DOMAIN open
        BY <1>1, <3>1
      <3> QED
        BY <1>9, <3>1, <3>2 DEF OpenTags
    <2> QED
      BY <1>6, <2>1, <2>3, <2>4 DEF NpmReads
  <1>10. CASE t # "function" /\ "function" \in OpenTags
    <2>1. PICK f \in 1..m : open[f].tag = "function"
      <3>1. PICK f \in 1..n : open[f].tag = "function"
        BY <1>1, <1>10 DEF OpenTags
      <3> QED
        BY <1>1, <1>10, <3>1
    <2>2. FunctionRead(f) /\ f \in 1..n /\ f # n /\ f # 1 /\ f \in Nat
      BY <1>1, <2>1 DEF NpmReads
    <2>3. /\ \A i \in 1..n : open[i].tag = "function" => i = f
          /\ \A i \in DOMAIN open' : open'[i].tag = "function" => i = f
          /\ f \in DOMAIN open' /\ open'[f].tag = "function" /\ "function" \in OpenTags'
      BY <1>1, <1>3, <1>10, <2>1, <2>2 DEF OneFunction
    <2>4. \A j \in 1..n :
             f + 1 < j /\ open[f + 1].tag = "type" =>
                 open[j].tag # "type" /\ (open[j].tag = "specifier" => j = f + 2)
      BY <1>1, <2>1, <2>2 DEF TypesArePlain
    <2>5. open[f].slot >= 1 /\ open'[f].slot >= 1
      BY <1>1, <1>2, <1>7, <2>1, <2>2 DEF FunctionRead
    <2>6. Public!IsStatic(t) <=> t = "specifier" /\ n = f + 2 /\ open[f + 1].tag = "type"
      <3>1. ASSUME n > 3, open[m - 1].tag = "function" PROVE n = f + 2
        BY <1>1, <2>3, <3>1
      <3>2. n = f + 2 => n > 3 /\ m = f + 1 /\ m - 1 = f
        BY <1>1, <2>2
      <3> QED
        BY <1>5, <2>1, <3>1, <3>2
    <2>7. SUFFICES /\ FunctionRead(f)'
                   /\ npm_read_state' # "READING_SPECIFIER" => specifier_chunk' = <<>>
                   /\ npm_overall' = npm_overall - (IF Public!IsStatic(t) THEN 1 ELSE 0)
                   /\ npm_unit' = npm_unit - (IF Public!IsStatic(t) THEN 1 ELSE 0)
      BY <2>3 DEF NpmReads
    <2>8. CASE open[f + 1].tag # "type" /\ npm_read_state = "WAITING_METHOD"
      <3>1. /\ npm_read_state' = "WAITING_METHOD" /\ specifier_chunk' = <<>>
            /\ UNCHANGED <<npm_overall, npm_unit>>
        BY <1>6, <1>10, <2>8
        DEF event_endElement_npm, NpmStaticEnds, NpmOtherSpecifierEnds, NpmWaits, NpmSkipsEnd
      <3>2. ~Public!IsStatic(t)
        BY <2>6, <2>8
      <3>3. ~(f < Len(open') /\ open'[f + 1].tag = "type")
        BY <1>1, <2>1, <2>8
      <3> QED
        BY <1>6, <2>5, <3>1, <3>2, <3>3 DEF FunctionRead
    <2>9. CASE open[f + 1].tag = "type" /\ TypeRead(f)
      <3>1. CASE /\ npm_read_state = "READING_TYPE"
                 /\ \A j \in DOMAIN open : j > f + 1 => open[j].tag # "specifier"
        <4>1. ~Public!IsStatic(t)
          BY <1>1, <2>2, <2>6, <3>1
        <4>2. CASE t = "type"
          <5>1. n = f + 1
            BY <1>1, <2>2, <2>4, <2>9, <4>2
          <5>2. /\ npm_read_state' = "WAITING_METHOD" /\ specifier_chunk' = <<>>
                /\ UNCHANGED <<npm_overall, npm_unit>>
            BY <1>6, <3>1, <4>2
            DEF event_endElement_npm, NpmStaticEnds, NpmOtherSpecifierEnds, NpmWaits,
                NpmSkipsEnd
          <5>3. ~(f < Len(open'))
            BY <1>1, <5>1
          <5> QED
            BY <1>6, <2>5, <4>1, <5>2, <5>3 DEF FunctionRead
        <4>3. CASE t # "type"
          <5>1. /\ npm_read_state' = "READING_TYPE" /\ specifier_chunk' = <<>>
                /\ UNCHANGED <<npm_overall, npm_unit>>
            BY <1>6, <3>1, <4>3
            DEF event_endElement_npm, NpmStaticEnds, NpmOtherSpecifierEnds, NpmWaits,
                NpmSkipsEnd
          <5>2. f + 1 # n /\ f < m
            BY <1>1, <2>1, <2>2, <2>9, <4>3
          <5>3. f < Len(open') /\ open'[f + 1].tag = "type"
            BY <1>1, <2>1, <2>9, <5>2
          <5>4. \A j \in DOMAIN open' : j > f + 1 => open'[j].tag # "specifier"
            BY <1>1, <3>1
          <5> QED
            BY <1>6, <2>5, <4>1, <5>1, <5>3, <5>4 DEF FunctionRead, TypeRead
        <4> QED
          BY <4>2, <4>3
      <3>2. CASE /\ npm_read_state = "READING_SPECIFIER" /\ Len(open) = f + 2
                 /\ Top.tag = "specifier" /\ specifier_chunk = Top.text /\ SpecifierSeen(f)
        <4>1. t = "specifier" /\ n = f + 2 /\ specifier_chunk = StaticSpelling
          BY <1>4, <1>7, <3>2
        <4>2. Public!IsStatic(t)
          BY <2>6, <2>9, <4>1
        <4>3. /\ npm_read_state' = "WAITING_METHOD" /\ specifier_chunk' = <<>>
              /\ npm_overall' = npm_overall - 1 /\ npm_unit' = npm_unit - 1
          BY <3>2, <4>1
          DEF event_endElement_npm, NpmStaticEnds, NpmOtherSpecifierEnds, NpmWaits, NpmSkipsEnd
        <4>4. /\ f < Len(open') /\ open'[f + 1].tag = "type" /\ Len(open') = f + 1
              /\ open'[f + 1].slot = open[f + 1].slot /\ f + 2 \notin DOMAIN open'
          BY <1>1, <1>2, <2>1, <2>2, <2>9, <4>1
        <4>5. TypeRead(f)'
          BY <3>2, <4>3, <4>4 DEF TypeRead, SpecifierSeen
        <4> QED
          BY <2>5, <4>2, <4>3, <4>4, <4>5 DEF FunctionRead
      <3>3. CASE /\ npm_read_state = "WAITING_METHOD"
                 /\ f + 2 \in DOMAIN open => open[f + 2].tag # "specifier"
                 /\ SpecifierSeen(f)
        <4>1. /\ npm_read_state' = "WAITING_METHOD" /\ specifier_chunk' = <<>>
              /\ UNCHANGED <<npm_overall, npm_unit>>
          BY <1>6, <1>10, <3>3
          DEF event_endElement_npm, NpmStaticEnds, NpmOtherSpecifierEnds, NpmWaits, NpmSkipsEnd
        <4>2. ~Public!IsStatic(t)
          BY <1>1, <2>6, <3>3
        <4>3. f < Len(open') => TypeRead(f)'
          <5>1. SUFFICES ASSUME f < m PROVE TypeRead(f)'
            BY <1>1
          <5>2. f + 1 \in 1..m /\ open'[f + 1].slot = open[f + 1].slot
            BY <1>1, <1>2, <2>2, <5>1
          <5>3. f + 2 \in DOMAIN open' => open'[f + 2].tag # "specifier"
            BY <1>1, <2>2, <3>3
          <5> QED
            BY <3>3, <4>1, <5>2, <5>3 DEF TypeRead, SpecifierSeen
        <4> QED
          BY <1>6, <2>5, <4>1, <4>2, <4>3 DEF FunctionRead
      <3> QED
        BY <2>9, <3>1, <3>2, <3>3 DEF TypeRead
    <2>10. f < Len(open)
      BY <1>1, <1>7, <2>1, <2>2
    <2> QED
      BY <2>1, <2>2, <2>5, <2>8, <2>9, <2>10 DEF FunctionRead
  <1> QED
    BY <1>8, <1>9, <1>10

(* Character data goes to the specifier and to nothing else.               *)
LEMMA NpmReadsCharacters ==
    ASSUME SaxTypeOK, StreamShape, NpmReads, NEW ch \in Text, SaxCharacters(ch),
           event_charactersUnit_npm(ch)
    PROVE  NpmReads'
  <1> DEFINE n == Len(open)
  <1>1. /\ n \in Nat /\ n >= 1 /\ DOMAIN open = 1..n
        /\ Len(open') = n /\ DOMAIN open' = 1..n
        /\ \A i \in 1..n : open'[i].tag = open[i].tag
        /\ \A i \in 1..n : open[i] \in Element
        /\ Top = open[n] /\ Top' = open'[n]
    <2>1. n \in Nat /\ n >= 1 /\ DOMAIN open = 1..n /\ \A i \in 1..n : open[i] \in Element
      BY DEF SaxTypeOK, StreamShape, SaxCharacters
    <2>2. /\ Len(open') = n /\ open' \in Seq(Element)
          /\ \A i \in DOMAIN open : open'[i].tag = open[i].tag
      BY CharactersKeepOpen DEF SaxTypeOK
    <2> QED
      BY <2>1, <2>2 DEF Top
  <1>2. /\ \A i \in 1..n - 1 : open'[i] = open[i]
        /\ Top' = [Top EXCEPT !.text = Append(Top.text, ch)]
    BY Grown
  <1>3. Top'.text = Append(Top.text, ch) /\ Top'.slot = Top.slot
    BY <1>1, <1>2 DEF Element
  <1>4. \A i \in 1..n : open'[i].slot = open[i].slot
    <2>1. ASSUME NEW i \in 1..n PROVE open'[i].slot = open[i].slot
      <3>1. CASE i = n
        BY <1>1, <1>3, <3>1
      <3>2. CASE i # n
        <4> HIDE DEF n
        <4>1. i \in 1..n - 1
          BY <1>1, <3>2
        <4> QED
          BY <1>2, <4>1 DEF n
      <3> QED
        BY <3>1, <3>2
    <2> QED
      BY <2>1
  <1>5. OpenTags' = OpenTags
    BY SameTags
  <1>6. /\ npm_read_state' = npm_read_state
        /\ specifier_chunk' = IF npm_read_state = "READING_SPECIFIER"
                              THEN Append(specifier_chunk, ch) ELSE specifier_chunk
    BY DEF event_charactersUnit_npm
  <1>7. n = Len(open)
    OBVIOUS
  <1> HIDE DEF n
  <1>8. ASSUME NEW f \in 1..n, open[f].tag = "function" PROVE FunctionRead(f)'
    <2>1. FunctionRead(f)
      BY <1>1, <1>8 DEF NpmReads
    <2>2. f + 1 \in 1..n => open'[f + 1].tag = open[f + 1].tag /\ open'[f + 1].slot = open[f + 1].slot
      BY <1>1, <1>4
    <2>3. f + 2 \in 1..n => open'[f + 2].tag = open[f + 2].tag
      BY <1>1
    <2>4. ASSUME f < n, TypeRead(f) PROVE TypeRead(f)'
      <3>1. SpecifierSeen(f) => SpecifierSeen(f)'
        BY <1>1, <2>2, <2>4 DEF SpecifierSeen
      <3>2. CASE /\ npm_read_state = "READING_TYPE"
                 /\ \A j \in DOMAIN open : j > f + 1 => open[j].tag # "specifier"
        BY <1>1, <1>6, <3>2 DEF TypeRead
      <3>3. CASE /\ npm_read_state = "READING_SPECIFIER" /\ Len(open) = f + 2
                 /\ Top.tag = "specifier" /\ specifier_chunk = Top.text /\ SpecifierSeen(f)
        <4>1. specifier_chunk' = Top'.text /\ Top'.tag = "specifier" /\ Len(open') = f + 2
          BY <1>1, <1>3, <1>6, <1>7, <3>3
        <4> QED
          BY <1>6, <3>1, <3>3, <4>1 DEF TypeRead
      <3>4. CASE /\ npm_read_state = "WAITING_METHOD"
                 /\ f + 2 \in DOMAIN open => open[f + 2].tag # "specifier"
                 /\ SpecifierSeen(f)
        BY <1>1, <1>6, <2>3, <3>1, <3>4 DEF TypeRead
      <3> QED
        BY <2>4, <3>2, <3>3, <3>4 DEF TypeRead
    <2>5. open'[f].slot = open[f].slot /\ open'[f].slot \in Nat
      BY <1>1, <1>4 DEF Element
    <2>6. f < n => f + 1 \in 1..n
      BY <1>1
    <2>7. CASE npm_read_state = "READING_METHOD" /\ f = Len(open) /\ open[f].slot = 0
      BY <1>1, <1>6, <1>7, <2>5, <2>7 DEF FunctionRead
    <2>8. CASE /\ open[f].slot >= 1
               /\ IF f < n /\ open[f + 1].tag = "type" THEN TypeRead(f)
                  ELSE npm_read_state = "WAITING_METHOD"
      BY <1>1, <1>6, <2>2, <2>4, <2>5, <2>6, <2>8 DEF FunctionRead
    <2> QED
      BY <1>7, <2>1, <2>7, <2>8 DEF FunctionRead
  <1> QED
    BY <1>1, <1>5, <1>6, <1>8 DEF NpmReads

(* A row that is inserted is a row more and a value more.                  *)
LEMMA NpmRow ==
    ASSUME NEW S, npm_statistics \in Seq(S), NEW key, NEW val, NpmInsert(key, val)
    PROVE  /\ \E R : npm_statistics' \in Seq(R)
           /\ Values(npm_statistics') = Append(Values(npm_statistics), val)
  <1> DEFINE row == [key |-> <<"NPM">> \o key, value |-> val]
  <1>1. npm_statistics' = Append(npm_statistics, row)
    BY DEF NpmInsert
  <1>2. row.value = val
    OBVIOUS
  <1> HIDE DEF row
  <1>3. npm_statistics \in Seq(S \cup {row}) /\ row \in S \cup {row}
    OBVIOUS
  <1>4. npm_statistics' \in Seq(S \cup {row})
    BY <1>1, <1>3
  <1>5. Values(npm_statistics') = Append(Values(npm_statistics), val)
    BY <1>1, <1>2, <1>3, <1>4 DEF Values
  <1> QED
    BY <1>4, <1>5

(* The stream of the promise is the stream of the program.                 *)
LEMMA PublicSameStream ==
    /\ SaxInit <=> Public!SaxInit
    /\ SaxStartDocument <=> Public!SaxStartDocument
    /\ SaxStartRoot <=> Public!SaxStartRoot
    /\ SaxStartUnit <=> Public!SaxStartUnit
    /\ \A t : SaxStartElement(t) <=> Public!SaxStartElement(t)
    /\ \A ch : SaxCharacters(ch) <=> Public!SaxCharacters(ch)
    /\ \A t : SaxEndElement(t) <=> Public!SaxEndElement(t)
    /\ SaxEndUnit <=> Public!SaxEndUnit
    /\ SaxEndRoot <=> Public!SaxEndRoot
    /\ SaxEndDocument <=> Public!SaxEndDocument
    /\ Text = Public!Text
  BY DEF SaxInit, SaxMove, SaxStartDocument, SaxStartRoot, SaxStartUnit, SaxStartElement,
         SaxCharacters, SaxEndElement, SaxEndUnit, SaxEndRoot, SaxEndDocument, Text,
         Top, Fresh, Accepts, Complete,
         Public!SaxInit, Public!SaxMove, Public!SaxStartDocument, Public!SaxStartRoot,
         Public!SaxStartUnit, Public!SaxStartElement, Public!SaxCharacters,
         Public!SaxEndElement, Public!SaxEndUnit, Public!SaxEndRoot,
         Public!SaxEndDocument, Public!Text, Public!Top, Public!Fresh,
         Public!Accepts, Public!Complete

(* NPM sees the runs of the dispatcher.                                    *)
LEMMA NpmRunsDispatcher == NpmSpec => Spec
  <1>1. NpmSystemInit => Init
    BY DEF NpmSystemInit
  <1>2. [NpmNext]_<<vars, npmVars>> => [Next]_vars
    BY DEF NpmNext, Next
  <1> QED
    BY <1>1, <1>2, PTL DEF NpmSpec, Spec

(* Outside units and at their ends the reader waits.                       *)
LEMMA NpmReadsOutside ==
    ASSUME IInv, NpmReads,
           \/ SaxStartUnit /\ event_startUnit_npm
           \/ /\ SaxStartDocument \/ SaxStartRoot \/ SaxEndUnit \/ SaxEndRoot \/ SaxEndDocument
              /\ event_startDocument_npm \/ UNCHANGED <<npm_read_state, specifier_chunk>>
    PROVE  NpmReads'
  <1>1. SaxTypeOK /\ StreamShape
    BY DEF IInv, TypeOK
  <1>2. OpenTags \in {{}, {"unit"}} /\ OpenTags' \in {{}, {"unit"}}
    <2>1. CASE SaxStartUnit \/ SaxEndUnit
      BY <1>1, <2>1, NothingOpen DEF SaxStartUnit
    <2>2. CASE SaxStartDocument \/ SaxStartRoot \/ SaxEndRoot \/ SaxEndDocument
      BY <1>1, <2>2, NothingOpen
      DEF OpenTags, SaxStartDocument, SaxStartRoot, SaxEndRoot, SaxEndDocument, SaxMove
    <2> QED
      BY <2>1, <2>2
  <1>3. npm_read_state = "WAITING_METHOD" /\ specifier_chunk = <<>>
    BY <1>2 DEF NpmReads
  <1>4. npm_read_state' = "WAITING_METHOD" /\ specifier_chunk' = <<>>
    BY <1>3 DEF event_startUnit_npm, event_startDocument_npm
  <1>5. \A i \in DOMAIN open' : open'[i].tag # "function"
    BY <1>2 DEF OpenTags
  <1> QED
    BY <1>4, <1>5 DEF NpmReads

(* Every step is a step of the promise, or leaves it alone.                *)
LEMMA NpmStepRefines ==
    ASSUME FunctionsAreTyped
    PROVE  /\ IInv /\ NpmIInv /\ NpmReads /\ NpmRowsSound
           /\ OneFunction /\ OneFunction' /\ TypesArePlain /\ TypesArePlain'
           /\ [SpecifierIsStatic]_saxVars /\ [NpmNext]_<<vars, npmVars>>
           => /\ NpmReads' /\ NpmRowsSound'
              /\ [Public!CountNext]_<<Public!saxVars, Public!countVars>>
  <1> SUFFICES ASSUME IInv, NpmIInv, NpmReads, NpmRowsSound, OneFunction, OneFunction',
                      TypesArePlain, TypesArePlain', [SpecifierIsStatic]_saxVars,
                      [NpmNext]_<<vars, npmVars>>
               PROVE  /\ NpmReads' /\ NpmRowsSound'
                      /\ [Public!CountNext]_<<Public!saxVars, Public!countVars>>
    OBVIOUS
  <1>1. SaxTypeOK /\ StreamShape
    BY DEF IInv, TypeOK
  <1>2. {npm_overall, npm_unit} \subseteq Nat
    BY DEF NpmIInv
  <1>3. PICK S : npm_statistics \in Seq(S)
    BY DEF NpmRowsSound
  <1>4. ASSUME NEW t \in Tags, event_startElement(t), event_startElement_npm(t)
        PROVE  NpmReads' /\ NpmRowsSound' /\ Public!CountNext
    <2>1. SaxStartElement(t) /\ phase' # "start" /\ npm_statistics' = npm_statistics
      BY <1>4 DEF event_startElement, SaxStartElement, event_startElement_npm
    <2>2. NpmReads'
      BY <1>1, <1>4, <2>1, NpmReadsStart
    <2>3. NpmRowsSound'
      BY <1>3, <2>1 DEF NpmRowsSound
    <2>4. t = "function" => npm_read_state = "WAITING_METHOD"
      BY <1>1, <2>1, OnlyFunction DEF NpmReads
    <2>5. /\ npm_overall' = npm_overall + (IF t = "function" THEN 1 ELSE 0)
          /\ npm_unit' = npm_unit + (IF t = "function" THEN 1 ELSE 0)
      BY <1>2, <1>4, <2>4 DEF event_startElement_npm, NpmFunction, NpmDescends, NpmSkipsStart
    <2>6. Public!Start(t)
      BY <2>1, <2>5, PublicSameStream DEF Public!Start
    <2> QED
      BY <2>2, <2>3, <2>6 DEF Public!CountNext
  <1>5. ASSUME NEW t \in Tags, event_endElement(t), event_endElement_npm(t)
        PROVE  NpmReads' /\ NpmRowsSound' /\ Public!CountNext
    <2>1. SaxEndElement(t) /\ phase' # "start" /\ npm_statistics' = npm_statistics
      BY <1>5 DEF event_endElement, SaxEndElement, event_endElement_npm
    <2>2. SpecifierIsStatic
      <3>1. open' # open
        BY <1>1, <2>1, EndKeepsOpen DEF SaxTypeOK
      <3> QED
        BY <3>1 DEF saxVars
    <2>3. /\ NpmReads'
          /\ npm_overall' = npm_overall - (IF Public!IsStatic(t) THEN 1 ELSE 0)
          /\ npm_unit' = npm_unit - (IF Public!IsStatic(t) THEN 1 ELSE 0)
      BY <1>1, <1>2, <1>5, <2>1, <2>2, NpmReadsEnd
    <2>4. NpmRowsSound'
      BY <1>3, <2>1 DEF NpmRowsSound
    <2>5. Public!Finish(t)
      BY <2>1, <2>3, PublicSameStream DEF Public!Finish
    <2> QED
      BY <2>3, <2>4, <2>5 DEF Public!CountNext
  <1>6. ASSUME NEW ch \in Text, event_charactersUnit(ch), event_charactersUnit_npm(ch)
        PROVE  NpmReads' /\ NpmRowsSound' /\ Public!CountNext
    <2>1. SaxCharacters(ch) /\ phase' # "start"
      BY <1>6 DEF event_charactersUnit, SaxCharacters
    <2>2. UNCHANGED <<npm_overall, npm_unit, npm_statistics>>
      BY <1>6 DEF event_charactersUnit_npm
    <2>3. NpmReads'
      BY <1>1, <1>6, <2>1, NpmReadsCharacters
    <2>4. NpmRowsSound'
      BY <1>3, <2>1, <2>2 DEF NpmRowsSound
    <2>5. Public!Silent
      BY <2>1, <2>2, PublicSameStream DEF Public!Silent, Public!countVars
    <2> QED
      BY <2>3, <2>4, <2>5 DEF Public!CountNext
  <1>7. CASE SaxStartUnit /\ event_startUnit_npm
    <2>1. NpmReads'
      BY <1>7, NpmReadsOutside
    <2>2. NpmRowsSound'
      BY <1>3, <1>7 DEF NpmRowsSound, SaxStartUnit, event_startUnit_npm
    <2>3. Public!StartUnit
      BY <1>7, PublicSameStream DEF event_startUnit_npm, Public!StartUnit
    <2> QED
      BY <2>1, <2>2, <2>3 DEF Public!CountNext
  <1>8. CASE SaxEndUnit /\ event_endUnit_npm
    <2>1. /\ \E R : npm_statistics' \in Seq(R)
          /\ Values(npm_statistics') = Append(Values(npm_statistics), npm_unit)
      BY <1>3, <1>8, NpmRow DEF event_endUnit_npm
    <2>2. NpmReads'
      BY <1>8, NpmReadsOutside DEF event_endUnit_npm
    <2>3. NpmRowsSound'
      BY <1>8, <2>1 DEF NpmRowsSound, SaxEndUnit
    <2>4. Public!FinishUnit
      BY <1>8, <2>1, PublicSameStream DEF event_endUnit_npm, Values, Public!FinishUnit
    <2> QED
      BY <2>2, <2>3, <2>4 DEF Public!CountNext
  <1>9. CASE SaxEndDocument /\ event_endDocument_npm
    <2>1. /\ \E R : npm_statistics' \in Seq(R)
          /\ Values(npm_statistics') = Append(Values(npm_statistics), npm_overall)
      BY <1>3, <1>9, NpmRow DEF event_endDocument_npm
    <2>2. NpmReads'
      BY <1>9, NpmReadsOutside DEF event_endDocument_npm
    <2>3. NpmRowsSound'
      BY <1>9, <2>1 DEF NpmRowsSound, SaxEndDocument, SaxMove
    <2>4. Public!FinishDocument
      BY <1>9, <2>1, PublicSameStream DEF event_endDocument_npm, Values, Public!FinishDocument
    <2> QED
      BY <2>2, <2>3, <2>4 DEF Public!CountNext
  <1>10. CASE SaxStartDocument /\ event_startDocument_npm
    <2>1. phase = "start" /\ phase' = "document"
      BY <1>10 DEF SaxStartDocument, SaxMove
    <2>2. UNCHANGED <<npm_overall, npm_unit, npm_statistics>>
      BY <1>10, <2>1 DEF NpmRowsSound, event_startDocument_npm
    <2>3. NpmReads'
      BY <1>10, NpmReadsOutside
    <2>4. NpmRowsSound'
      BY <1>3, <2>1, <2>2 DEF NpmRowsSound
    <2>5. Public!Silent
      BY <1>10, <2>2, PublicSameStream DEF Public!Silent, Public!countVars
    <2> QED
      BY <2>3, <2>4, <2>5 DEF Public!CountNext
  <1>11. CASE (SaxStartRoot \/ SaxEndRoot) /\ UNCHANGED npmVars
    <2>1. NpmReads'
      BY <1>11, NpmReadsOutside DEF npmVars
    <2>2. NpmRowsSound'
      BY <1>3, <1>11 DEF NpmRowsSound, SaxStartRoot, SaxEndRoot, SaxMove, npmVars
    <2>3. Public!Silent
      BY <1>11, PublicSameStream DEF npmVars, Public!Silent, Public!countVars
    <2> QED
      BY <2>1, <2>2, <2>3 DEF Public!CountNext
  <1>12. CASE UNCHANGED <<vars, npmVars>>
    <2>1. UNCHANGED <<phase, open, units, elements>> /\ UNCHANGED npmVars
      BY <1>12 DEF vars, saxVars
    <2>2. NpmReads' /\ NpmRowsSound'
      BY <2>1
      DEF NpmReads, FunctionRead, TypeRead, SpecifierSeen, NpmRowsSound, OpenTags, Top, npmVars
    <2> QED
      BY <2>1, <2>2 DEF npmVars, Public!saxVars, Public!countVars
  <1> QED
    BY <1>4, <1>5, <1>6, <1>7, <1>8, <1>9, <1>10, <1>11, <1>12
    DEF NpmNext, event_startDocument, event_startRoot, event_startUnit, event_endUnit,
        event_endRoot, event_endDocument

(* Where functions are written as in C, with static as the one specifier   *)
(* of their types, counting at the function and discounting at the end of  *)
(* a specifier reports the functions that are public.                      *)
THEOREM NpmReportsPublicCount ==
    /\ FunctionsAreTyped /\ NpmSpec /\ []OneFunction /\ []TypesArePlain
    /\ [][SpecifierIsStatic]_saxVars
    => NpmImplementsPublicCount
  <1>1. SUFFICES ASSUME FunctionsAreTyped
                 PROVE  /\ NpmSpec /\ []OneFunction /\ []TypesArePlain
                        /\ [][SpecifierIsStatic]_saxVars
                        => NpmImplementsPublicCount
    OBVIOUS
  <1>2. NpmSystemInit => Public!CountInit
    BY PublicSameStream DEF NpmSystemInit, Init, NpmInit, Public!CountInit
  <1>3. NpmSystemInit => NpmReads /\ NpmRowsSound
    <2>1. <<>> \in Seq({})
      OBVIOUS
    <2> QED
      BY <2>1 DEF NpmSystemInit, Init, SaxInit, NpmInit, NpmReads, OpenTags, NpmRowsSound
  <1>4. /\ IInv /\ NpmIInv /\ NpmReads /\ NpmRowsSound
        /\ OneFunction /\ OneFunction' /\ TypesArePlain /\ TypesArePlain'
        /\ [SpecifierIsStatic]_saxVars /\ [NpmNext]_<<vars, npmVars>>
        => /\ NpmReads' /\ NpmRowsSound'
           /\ [Public!CountNext]_<<Public!saxVars, Public!countVars>>
    BY <1>1, NpmStepRefines
  <1> QED
    BY <1>2, <1>3, <1>4, NpmRunsDispatcher, Invariance, NpmInvariance, PTL
    DEF NpmSpec, NpmImplementsPublicCount, Public!CountSpec

-----------------------------------------------------------------------------
(* The ChunkSet.                                                           *)

(* A set with a key added has the keys it had, at their identifiers.       *)
LEMMA KeysKept ==
    ASSUME NEW S, NEW cset \in Seq(S), NEW key \in S
    PROVE  /\ WithKey(cset, key) \in Seq(S)
           /\ Len(cset) <= Len(WithKey(cset, key))
           /\ \A i \in 1..Len(cset) : WithKey(cset, key)[i] = cset[i]
  BY DEF WithKey

(* It has the key, at the identifier that is looked up.                    *)
LEMMA KeyFound ==
    ASSUME NEW S, NEW cset \in Seq(S), NEW key \in S, NEW new, new = WithKey(cset, key)
    PROVE  KeyId(new, key) \in 1..Len(new) /\ new[KeyId(new, key)] = key
  <1>1. \E i \in 1..Len(new) : new[i] = key
    <2>1. CASE Contains(cset, key)
      BY <2>1 DEF WithKey, Contains
    <2>2. CASE ~Contains(cset, key)
      <3>1. new = Append(cset, key)
        BY <2>2 DEF WithKey
      <3>2. Len(new) \in 1..Len(new) /\ new[Len(new)] = key
        BY <3>1
      <3> QED
        BY <3>2
    <2> QED
      BY <2>1, <2>2
  <1>2. DOMAIN new = 1..Len(new)
    BY KeysKept
  <1> QED
    BY <1>1, <1>2 DEF KeyId

-----------------------------------------------------------------------------
(* The matrices.                                                           *)

Functions == 1..Len(fns)
Units     == 1..Len(rfu_units)

(* Owners and callers exist; a unit is known while one is open, for RFU is *)
(* shown then, or the program has ended; nothing is drawn before the end.  *)
RfuIInv ==
    /\ rfu_read_state \in RfuReadStates
    /\ rfu_units \in Strings
    /\ fns \in Seq(Seq(Text))
    /\ name_chunk \in Seq(Text)
    /\ ownerGraph \subseteq Functions \X Units
    /\ callGraph \subseteq Functions \X Functions
    /\ unit_id \in Units \cup {NoId}
    /\ fn_id \in Functions \cup {NoId}
    /\ phase = "unit" /\ ~rfu_terminated => ~RfuQuiet /\ unit_id # NoId
    /\ phase # "unit" => fn_id = NoId
    /\ cg_edges = IF phase = "end" /\ CGEnabled THEN generateDot ELSE {}

(* The document starts with everything empty.                              *)
LEMMA RfuDocumentStarts ==
    ASSUME RfuIInv, SaxStartDocument, event_startDocument_rfu
    PROVE  RfuIInv'
  <1>1. phase = "start" /\ phase' = "document" /\ fn_id = NoId /\ cg_edges = {}
    BY DEF RfuIInv, SaxStartDocument, SaxMove
  <1>2. <<>> \in Strings /\ <<>> \in Seq(Seq(Text)) /\ <<>> \in Seq(Text)
    BY DEF Strings
  <1>3. /\ rfu_read_state' \in RfuReadStates /\ fn_id' = NoId /\ unit_id' = NoId
        /\ cg_edges' = {}
    BY <1>1 DEF RfuIInv, event_startDocument_rfu
  <1>4. CASE RfuQuiet
    BY <1>1, <1>3, <1>4 DEF RfuIInv, event_startDocument_rfu, Functions, Units
  <1>5. CASE ~RfuQuiet
    BY <1>1, <1>2, <1>3, <1>5 DEF RfuIInv, event_startDocument_rfu, Functions, Units
  <1> QED
    BY <1>4, <1>5

(* A unit starts: it is known, or the program ends.                        *)
LEMMA RfuUnitStarts ==
    ASSUME RfuIInv, NEW filename \in Filenames, SaxStartUnit, event_startUnit_rfu(filename)
    PROVE  RfuIInv'
  <1>1. phase = "root" /\ phase' = "unit" /\ fn_id' = NoId /\ cg_edges' = {}
    BY DEF RfuIInv, SaxStartUnit, event_startUnit_rfu
  <1>2. /\ UNCHANGED <<rfu_read_state, fns, name_chunk, ownerGraph, callGraph, flags>>
        /\ Functions' = Functions
    BY DEF event_startUnit_rfu, Functions
  <1>3. CASE RfuQuiet
    BY <1>1, <1>2, <1>3 DEF RfuIInv, event_startUnit_rfu, Units
  <1>4. CASE ~RfuQuiet
    <2>1. <<filename>> \in Seq(Piece) /\ rfu_units \in Seq(Seq(Piece))
      <3>1. filename \in Piece
        BY DEF Piece
      <3> QED
        BY <3>1 DEF RfuIInv, Strings
    <2>2. rfu_units' = WithKey(rfu_units, <<filename>>) /\ unit_id' = KeyId(rfu_units', <<filename>>)
      BY <1>4 DEF event_startUnit_rfu
    <2>3. /\ rfu_units' \in Seq(Seq(Piece)) /\ Len(rfu_units) <= Len(rfu_units')
          /\ unit_id' \in 1..Len(rfu_units')
      BY <2>1, <2>2, KeysKept, KeyFound
    <2>4. Units \subseteq Units' /\ unit_id' \in Units' /\ unit_id' # NoId
      BY <2>1, <2>3 DEF Units, NoId
    <2>5. ownerGraph' \subseteq Functions' \X Units'
      BY <1>2, <2>4 DEF RfuIInv
    <2>6. ~RfuQuiet'
      BY <1>2, <1>4 DEF RfuQuiet
    <2> QED
      BY <1>1, <1>2, <2>3, <2>4, <2>5, <2>6 DEF RfuIInv, Strings
  <1> QED
    BY <1>3, <1>4

(* An element starts: only the reader moves.                               *)
LEMMA RfuElementStarts ==
    ASSUME RfuIInv, NEW t \in Tags, SaxStartElement(t), event_startElement_rfu(t)
    PROVE  RfuIInv'
  <1>1. phase = "unit" /\ phase' = "unit"
    BY DEF SaxStartElement
  <1>2. rfu_read_state' \in RfuReadStates
    BY DEF RfuIInv, event_startElement_rfu, RfuStarts, RfuStartIgnored, RfuReadStates
  <1> QED
    BY <1>1, <1>2 DEF RfuIInv, event_startElement_rfu, Functions, Units, RfuQuiet

(* A name that ends is a function's, and the functions grow.               *)
LEMMA FunctionAdded ==
    ASSUME RfuIInv, fns' = WithKey(fns, name_chunk)
    PROVE  /\ fns' \in Seq(Seq(Text))
           /\ \A i \in Functions : i \in Functions' /\ fns'[i] = fns[i]
           /\ KeyId(fns', name_chunk) \in Functions'
           /\ fns'[KeyId(fns', name_chunk)] = name_chunk
           /\ NoId \notin Functions'
  <1>1. fns \in Seq(Seq(Text)) /\ name_chunk \in Seq(Text)
    BY DEF RfuIInv
  <1>2. /\ fns' \in Seq(Seq(Text)) /\ Len(fns) <= Len(fns')
        /\ \A i \in 1..Len(fns) : fns'[i] = fns[i]
    <2>1. /\ WithKey(fns, name_chunk) \in Seq(Seq(Text))
          /\ Len(fns) <= Len(WithKey(fns, name_chunk))
          /\ \A i \in 1..Len(fns) : WithKey(fns, name_chunk)[i] = fns[i]
      BY <1>1, KeysKept
    <2> QED
      BY <2>1
  <1>3. KeyId(fns', name_chunk) \in 1..Len(fns') /\ fns'[KeyId(fns', name_chunk)] = name_chunk
    BY <1>1, KeyFound
  <1> QED
    BY <1>1, <1>2, <1>3 DEF Functions, NoId

(* An element ends: functions, owners and calls are added.                 *)
LEMMA RfuElementEnds ==
    ASSUME RfuIInv, ~rfu_terminated, NEW t \in Tags, SaxEndElement(t), event_endElement_rfu(t)
    PROVE  RfuIInv'
  <1>1. /\ phase = "unit" /\ phase' = "unit" /\ unit_id # NoId /\ ~RfuQuiet
        /\ UNCHANGED <<flags, rfu_units, unit_id, cg_edges>> /\ Units' = Units
        /\ ~RfuQuiet' /\ cg_edges' = {}
    BY DEF RfuIInv, SaxEndElement, event_endElement_rfu, RfuQuiet, Units
  <1>2. <<>> \in Seq(Text)
    OBVIOUS
  <1>3. CASE RfuMethodEnds(t)
    BY <1>1, <1>3 DEF RfuIInv, RfuMethodEnds, Functions, Units
  <1>4. CASE RfuMethodTypeEnds(t)
    BY <1>1, <1>4 DEF RfuIInv, RfuMethodTypeEnds, Functions, Units, RfuReadStates
  <1>5. CASE RfuMethodNameEnds(t)
    <2>1. /\ fns' \in Seq(Seq(Text)) /\ Functions \subseteq Functions'
          /\ fn_id' \in Functions'
      BY <1>5, FunctionAdded DEF RfuMethodNameEnds
    <2>2. <<fn_id', unit_id>> \in Functions' \X Units
      BY <1>1, <2>1 DEF RfuIInv
    <2> QED
      BY <1>1, <1>2, <1>5, <2>1, <2>2 DEF RfuIInv, RfuMethodNameEnds, RfuReadStates
  <1>6. CASE RfuCallNameEnds(t)
    <2>1. /\ fns' \in Seq(Seq(Text)) /\ Functions \subseteq Functions'
          /\ KeyId(fns', name_chunk) \in Functions'
      BY <1>6, FunctionAdded DEF RfuCallNameEnds
    <2>2. callGraph' \subseteq Functions' \X Functions'
      BY <1>6, <2>1 DEF RfuIInv, RfuCallNameEnds
    <2> QED
      BY <1>1, <1>2, <1>6, <2>1, <2>2 DEF RfuIInv, RfuCallNameEnds, RfuReadStates
  <1>7. CASE RfuEndIgnored(t)
    BY <1>1, <1>7 DEF RfuIInv, RfuEndIgnored, Functions
  <1> QED
    BY <1>3, <1>4, <1>5, <1>6, <1>7 DEF event_endElement_rfu

(* The invariant is inductive.                                             *)
LEMMA RfuStep == RfuIInv /\ [RfuNext]_<<vars, rfuVars>> => RfuIInv'
  <1> SUFFICES ASSUME RfuIInv, [RfuNext]_<<vars, rfuVars>> PROVE RfuIInv'
    OBVIOUS
  <1>1. CASE event_startDocument /\ event_startDocument_rfu
    BY <1>1, RfuDocumentStarts DEF event_startDocument
  <1>2. ASSUME NEW from \in {"document", "root"}, NEW to \in {"root", "closed"},
               SaxMove(from, to), UNCHANGED rfuVars
        PROVE  RfuIInv'
    BY <1>2 DEF RfuIInv, SaxMove, rfuVars, Functions, Units, RfuQuiet, CGEnabled
  <1>3. ASSUME NEW filename \in Filenames, event_startUnit(filename),
               event_startUnit_rfu(filename)
        PROVE  RfuIInv'
    BY <1>3, RfuUnitStarts DEF event_startUnit
  <1>4. ASSUME NEW t \in Tags, event_startElement(t), event_startElement_rfu(t)
        PROVE  RfuIInv'
    BY <1>4, RfuElementStarts DEF event_startElement
  <1>5. ASSUME ~rfu_terminated, NEW t \in Tags, event_endElement(t), event_endElement_rfu(t)
        PROVE  RfuIInv'
    BY <1>5, RfuElementEnds DEF event_endElement
  <1>6. ASSUME NEW ch \in Text, event_charactersUnit(ch), event_charactersUnit_rfu(ch)
        PROVE  RfuIInv'
    <2>1. phase = "unit" /\ phase' = "unit"
      BY <1>6 DEF event_charactersUnit, SaxCharacters
    <2>2. name_chunk' \in Seq(Text)
      BY <1>6 DEF RfuIInv, event_charactersUnit_rfu
    <2> QED
      BY <1>6, <2>1, <2>2 DEF RfuIInv, event_charactersUnit_rfu, Functions, Units, RfuQuiet
  <1>7. CASE ~rfu_terminated /\ event_endUnit /\ event_endUnit_rfu
    <2>1. phase = "unit" /\ phase' = "root" /\ ~RfuQuiet
      BY <1>7 DEF event_endUnit, SaxEndUnit, RfuIInv
    <2> QED
      BY <1>7, <2>1 DEF RfuIInv, event_endUnit_rfu, Functions, Units
  <1>8. CASE event_endDocument /\ event_endDocument_rfu
    <2>1. phase = "closed" /\ phase' = "end"
      BY <1>8 DEF event_endDocument, SaxEndDocument, SaxMove
    <2>2. /\ UNCHANGED <<flags, ownerGraph, callGraph, rfu_units, fns, rfu_read_state, name_chunk,
                         rfu_terminated>>
          /\ generateDot' = generateDot /\ CGEnabled' = CGEnabled
      BY <1>8 DEF event_endDocument_rfu, generateDot, EdgesFrom, Sinks, CGEnabled, CGNoExternal
    <2> HIDE DEF generateDot
    <2> QED
      BY <1>8, <2>1, <2>2 DEF RfuIInv, event_endDocument_rfu, Functions, Units
  <1>9. CASE UNCHANGED <<vars, rfuVars>>
    <2>1. generateDot' = generateDot
      BY <1>9 DEF rfuVars, generateDot, EdgesFrom, Sinks, CGEnabled, CGNoExternal
    <2> HIDE DEF generateDot
    <2> QED
      BY <1>9, <2>1 DEF RfuIInv, vars, saxVars, rfuVars, Functions, Units, RfuQuiet, CGEnabled
  <1> QED
    BY <1>1, <1>2, <1>3, <1>4, <1>5, <1>6, <1>7, <1>8, <1>9
    DEF RfuNext, event_startRoot, event_endRoot, SaxStartRoot, SaxEndRoot, SaxMove

(* The invariant holds of every run.                                       *)
LEMMA RfuInvariance == RfuSpec => []RfuIInv
  <1>1. RfuSystemInit => RfuIInv
    BY DEF RfuSystemInit, Init, SaxInit, RfuInit, RfuIInv, RfuReadStates, Strings,
           Functions, Units
  <1> QED
    BY <1>1, RfuStep, PTL DEF RfuSpec

-----------------------------------------------------------------------------
(* The file of the call graph.                                             *)

(* The sinks of a source are what its edges lead to.                       *)
LEMMA SinksOf ==
    ASSUME NEW A, NEW B, NEW graph \in SUBSET (A \X B), NEW source, NEW sink
    PROVE  sink \in Sinks(graph, source) <=> <<source, sink>> \in graph
  <1>1. ASSUME sink \in Sinks(graph, source) PROVE <<source, sink>> \in graph
    <2>1. PICK d \in graph : d[1] = source /\ d[2] = sink
      BY <1>1 DEF Sinks
    <2> QED
      BY <2>1
  <1>2. ASSUME <<source, sink>> \in graph PROVE sink \in Sinks(graph, source)
    <2>1. <<source, sink>>[1] = source /\ <<source, sink>>[2] = sink
      OBVIOUS
    <2> QED
      BY <1>2, <2>1 DEF Sinks
  <1> QED
    BY <1>1, <1>2

(* What is drawn are calls, from a function in the unit that owns it, to a *)
(* function in a unit that owns it, or outside all if none does.           *)
LEMMA DrawnAreCalls ==
    ASSUME RfuIInv, NEW e \in generateDot
    PROVE  /\ <<e[2], e[4]>> \in callGraph
           /\ <<e[2], e[1]>> \in ownerGraph
           /\ e[3] = NoId <=> Sinks(ownerGraph, e[4]) = {}
           /\ e[3] # NoId => <<e[4], e[3]>> \in ownerGraph
  <1>1. PICK o \in ownerGraph : e \in EdgesFrom(o[2], o[1])
    BY DEF generateDot
  <1>2. PICK u \in Units, f \in Functions : o = <<f, u>>
    BY <1>1 DEF RfuIInv
  <1>3. <<f, u>> \in ownerGraph /\ e \in EdgesFrom(u, f) /\ u # NoId
    BY <1>1, <1>2 DEF Units, NoId
  <1>4. \A v, g : v \in Sinks(ownerGraph, g) <=> <<g, v>> \in ownerGraph
    BY SinksOf DEF RfuIInv
  <1>5. \A g : g \in Sinks(callGraph, f) <=> <<f, g>> \in callGraph
    BY SinksOf DEF RfuIInv
  <1>6. \A v, g : <<g, v>> \in ownerGraph => v # NoId
    BY DEF RfuIInv, Units, NoId
  <1>7. CASE <<f, f>> \in callGraph
    BY <1>3, <1>4, <1>7 DEF EdgesFrom
  <1>8. CASE <<f, f>> \notin callGraph
    <2>1. PICK g \in Sinks(callGraph, f) :
             \/ Sinks(ownerGraph, g) = {} /\ e = <<u, f, NoId, g>>
             \/ \E v \in Sinks(ownerGraph, g) : e = <<u, f, v, g>>
      BY <1>3, <1>8 DEF EdgesFrom
    <2> QED
      BY <1>3, <1>4, <1>5, <1>6, <2>1
  <1> QED
    BY <1>7, <1>8

(* The file of the graph has no edge that is not a call, whoever calls     *)
(* whom in whichever file.                                                 *)
THEOREM OnlyCallsAreDrawn == RfuSpec => []EdgesAreCalls
  <1>1. RfuIInv => EdgesAreCalls
    <2>1. SUFFICES ASSUME RfuIInv, NEW e \in cg_edges PROVE e \in generateDot
      BY DrawnAreCalls DEF EdgesAreCalls
    <2> QED
      BY <2>1 DEF RfuIInv
  <1> QED
    BY RfuInvariance, <1>1, PTL

(* Every call between functions of the files is drawn, unless the caller   *)
(* calls itself.                                                           *)
THEOREM CallsAreDrawn == RfuSpec => []CallsAreEdges
  <1>1. RfuIInv => CallsAreEdges
    <2>1. SUFFICES ASSUME RfuIInv, phase = "end", CGEnabled, NEW c \in callGraph,
                          NEW u \in Sinks(ownerGraph, c[1]),
                          NEW v \in Sinks(ownerGraph, c[2]),
                          <<c[1], c[1]>> \notin callGraph
                   PROVE  <<u, c[1], v, c[2]>> \in generateDot
      BY DEF CallsAreEdges, RfuIInv
    <2>2. PICK f \in Functions, g \in Functions : c = <<f, g>>
      BY <2>1 DEF RfuIInv
    <2>3. <<f, u>> \in ownerGraph
      BY <2>1, <2>2, SinksOf DEF RfuIInv
    <2>4. g \in Sinks(callGraph, f) /\ v \in Sinks(ownerGraph, g)
      BY <2>1, <2>2, SinksOf DEF RfuIInv
    <2>5. <<u, f, v, g>> \in EdgesFrom(u, f)
      BY <2>1, <2>2, <2>4 DEF EdgesFrom
    <2> QED
      BY <2>2, <2>3, <2>5 DEF generateDot
  <1> QED
    BY RfuInvariance, <1>1, PTL

-----------------------------------------------------------------------------
(* The two readers of names, RFU's and the dispatcher's.                   *)

(* A call starts with the name of what it calls, as in srcML.              *)
CallsAreNamed ==
    "call" \in Tags =>
        /\ 1 \in DOMAIN Grammar["call"]
        /\ Grammar["call"][1].tags = {"name"}
        /\ Grammar["call"][1].least = 1

(* No function is part of a name.                                          *)
FunctionsOutsideNames ==
    \A i, j \in DOMAIN open :
        i < j /\ open[j].tag = "function" => open[i].tag # "name"

(* The states of the two readers that belong together.                     *)
SameState ==
    /\ function_read_state = 1 <=> rfu_read_state = "READING_METHOD"
    /\ function_read_state = 2 <=> rfu_read_state = "READING_METHOD_TYPE"
    /\ function_read_state = 3 <=> rfu_read_state = "WAITING_METHOD_NAME"
    /\ function_read_state = 4 <=> rfu_read_state = "READING_METHOD_NAME"

(* Where RFU's reader is when it reads a call, which the dispatcher's does *)
(* not: it is idle again before a function can start.                      *)
CallIsOpen ==
    /\ rfu_read_state = "WAITING_CALL_NAME" =>
          phase = "unit" /\ Top.tag = "call" /\ Top.slot = 0
    /\ rfu_read_state = "READING_CALL_NAME" => "name" \in OpenTags

(* What the readers have read is the same.                                 *)
SameName ==
    /\ phase = "unit" => strings[currentUnit_id] = rfu_units[unit_id]
    /\ function_read_state \in 1..4 =>
          strings[currentFn_id] = rfu_units[unit_id] \o <<"::">> \o name_chunk
    /\ function_read_state = 5 =>
          strings[currentFn_id] = rfu_units[unit_id] \o <<"::">> \o fns[fn_id] \o <<"()">>
    /\ rfu_read_state \notin {"READING_METHOD_NAME", "READING_CALL_NAME"} =>
          name_chunk = <<>>

(* The readers go together until a check ends the program.                 *)
ReaderIInv ==
    /\ function_read_state = 5 => currentFn_id # NoId
    /\ rfu_terminated => function_read_state = 0
    /\ ~rfu_terminated =>
          /\ function_read_state # 0 <=> "function" \in OpenTags
          /\ function_read_state = 5 <=> fn_id # NoId
          /\ SameState
          /\ CallIsOpen
          /\ SameName

(* An element starts.                                                      *)
LEMMA ReadersStart ==
    ASSUME CallsAreNamed, IInv, RfuIInv, ReaderIInv, OneFunction', FunctionsOutsideNames',
           ~rfu_terminated, NEW t \in Tags, event_startElement(t), event_startElement_rfu(t)
    PROVE  ReaderIInv'
  <1>1. /\ SaxTypeOK /\ StreamShape /\ SaxStartElement(t) /\ phase = "unit" /\ phase' = "unit"
        /\ OpenTags' = OpenTags \cup {t} /\ Top' = Fresh(t)
    <2>1. SaxTypeOK /\ StreamShape /\ SaxStartElement(t)
      BY DEF IInv, TypeOK, event_startElement
    <2> QED
      BY <2>1, OpenedTag, Started DEF SaxStartElement
  <1>2. /\ currentUnit_id' = currentUnit_id
        /\ strings'[currentUnit_id] = strings[currentUnit_id]
        /\ function_read_state = 5 => strings'[currentFn_id] = strings[currentFn_id]
    <2>1. [Next]_vars
      BY DEF Next
    <2> QED
      BY <1>1, <2>1, NamesKept DEF ReaderIInv
  <1>3. /\ UNCHANGED <<rfu_units, fns, unit_id, fn_id, name_chunk, rfu_terminated>>
        /\ rfu_read_state \in RfuReadStates /\ function_read_state \in 0..5
        /\ SameState /\ CallIsOpen /\ SameName
    BY DEF event_startElement_rfu, ReaderIInv, RfuIInv, IInv, TypeOK
  <1>4. rfu_read_state = "WAITING_CALL_NAME" => t = "name"
    <2> SUFFICES ASSUME rfu_read_state = "WAITING_CALL_NAME" PROVE t = "name"
      OBVIOUS
    <2>1. Top.tag = "call" /\ Top.slot = 0
      BY <1>3 DEF CallIsOpen
    <2>2. PICK k \in DOMAIN Grammar["call"] : Accepts(Top, k, t)
      BY <1>1, <2>1, Started
    <2>3. Top \in Element
      BY <1>1 DEF SaxTypeOK, StreamShape, Top
    <2>4. Grammar["call"] \in Seq(Slot) /\ "call" \in Tags
      <3>1. "call" \in Tags
        BY <2>1, <2>3 DEF Element
      <3> QED
        BY <3>1, StreamAssumption
    <2>5. k = 1
      BY <2>1, <2>2, <2>4 DEF Accepts, CallsAreNamed
    <2> QED
      BY <2>1, <2>2, <2>4, <2>5 DEF Accepts, CallsAreNamed
  <1>5. ASSUME t = "function"
        PROVE  rfu_read_state = "WAITING_METHOD" /\ function_read_state = 0
    <2>1. function_read_state = 0
      BY <1>1, <1>5, OnlyFunction DEF ReaderIInv
    <2>2. rfu_read_state # "READING_CALL_NAME"
      <3> SUFFICES ASSUME "name" \in OpenTags PROVE FALSE
        BY <1>3 DEF CallIsOpen
      <3>1. PICK i \in DOMAIN open : open[i].tag = "name"
        BY DEF OpenTags
      <3>2. /\ open \in Seq(Element) /\ open' \in Seq(Element)
            /\ Len(open') = Len(open) + 1 /\ open'[i].tag = "name"
            /\ open'[Len(open')].tag = "function"
        BY <1>1, <1>5, <3>1, StartKeepsOpen DEF SaxTypeOK
      <3>3. i \in DOMAIN open' /\ Len(open') \in DOMAIN open' /\ i < Len(open')
        BY <3>1, <3>2
      <3> QED
        BY <3>2, <3>3 DEF FunctionsOutsideNames
    <2> QED
      BY <1>3, <1>4, <1>5, <2>1, <2>2 DEF SameState, RfuReadStates
  <1>6. /\ t = "function" => function_read_state' = 1 /\ rfu_read_state' = "READING_METHOD"
        /\ t # "function" =>
              /\ function_read_state' = 0 <=> function_read_state = 0
              /\ function_read_state' = 5 <=> function_read_state = 5
              /\ strings' = strings /\ currentFn_id' = currentFn_id
    BY <1>5 DEF event_startElement, FunctionStarts, TypeStarts, NameStarts, OtherStarts,
                event_startElement_rfu, RfuStarts, RfuStartIgnored
  <1>7. SameState'
    <2>1. CASE t = "function"
      BY <1>6, <2>1 DEF SameState
    <2>2. CASE t = "type"
      BY <1>3, <2>2
      DEF SameState, event_startElement, FunctionStarts, TypeStarts, NameStarts, OtherStarts,
          event_startElement_rfu, RfuStarts, RfuStartIgnored
    <2>3. CASE t = "name"
      BY <1>3, <2>3
      DEF SameState, event_startElement, FunctionStarts, TypeStarts, NameStarts, OtherStarts,
          event_startElement_rfu, RfuStarts, RfuStartIgnored
    <2>4. CASE t \notin {"function", "type", "name"}
      BY <1>3, <2>4
      DEF SameState, event_startElement, FunctionStarts, TypeStarts, NameStarts, OtherStarts,
          event_startElement_rfu, RfuStarts, RfuStartIgnored
    <2> QED
      BY <2>1, <2>2, <2>3, <2>4
  <1>8. CallIsOpen'
    BY <1>1, <1>3, <1>4
    DEF CallIsOpen, Fresh, event_startElement_rfu, RfuStarts, RfuStartIgnored
  <1>9. rfu_read_state' \notin {"READING_METHOD_NAME", "READING_CALL_NAME"} => name_chunk' = <<>>
    BY <1>3 DEF SameName, event_startElement_rfu, RfuStarts, RfuStartIgnored
  <1>10. SameName'
    <2>1. CASE t = "function"
      <3>1. strings'[currentFn_id'] = strings[currentUnit_id] \o <<"::">>
        BY <1>1, <2>1, StringStarts DEF event_startElement, TypeStarts, NameStarts, OtherStarts
      <3>2. name_chunk' = <<>>
        BY <1>6, <1>9, <2>1
      <3>3. rfu_units[unit_id] \in Seq(Piece) /\ strings[currentUnit_id] = rfu_units[unit_id]
        BY <1>1, <1>3 DEF RfuIInv, Units, Strings, SameName
      <3>4. strings'[currentFn_id'] = rfu_units'[unit_id'] \o <<"::">> \o name_chunk'
        BY <1>3, <3>1, <3>2, <3>3, PiecesEmpty
      <3>5. strings'[currentUnit_id'] = rfu_units'[unit_id']
        BY <1>2, <1>3, <3>3
      <3>6. function_read_state' = 1
        BY <1>6, <2>1
      <3> QED
        BY <1>9, <3>4, <3>5, <3>6 DEF SameName
    <2>2. CASE t # "function"
      <3>1. /\ function_read_state' \in 1..4 => function_read_state \in 1..4
            /\ function_read_state' = 5 => function_read_state = 5
        BY <2>2 DEF event_startElement, FunctionStarts, TypeStarts, NameStarts, OtherStarts
      <3>2. strings' = strings /\ currentFn_id' = currentFn_id
        BY <1>6, <2>2
      <3> QED
        BY <1>1, <1>2, <1>3, <1>9, <3>1, <3>2 DEF SameName
    <2> QED
      BY <2>1, <2>2
  <1>11. function_read_state' # 0 <=> "function" \in OpenTags'
    BY <1>1, <1>6 DEF ReaderIInv
  <1>12. function_read_state' = 5 => currentFn_id' # NoId
    BY <1>6 DEF ReaderIInv
  <1>13. function_read_state' = 5 <=> fn_id' # NoId
    BY <1>3, <1>5, <1>6 DEF ReaderIInv
  <1> QED
    BY <1>3, <1>7, <1>8, <1>10, <1>11, <1>12, <1>13 DEF ReaderIInv

(* An element ends.                                                        *)
LEMMA ReadersEnd ==
    ASSUME CallsAreNamed, IInv, RfuIInv, ReaderIInv, OneFunction,
           ~rfu_terminated, NEW t \in Tags, event_endElement(t), event_endElement_rfu(t)
    PROVE  ReaderIInv'
  <1>1. /\ SaxTypeOK /\ StreamShape /\ SaxEndElement(t) /\ phase = "unit" /\ phase' = "unit"
        /\ OpenTags = OpenTags' \cup {t} /\ Top.tag = t
    <2>1. SaxTypeOK /\ StreamShape /\ SaxEndElement(t)
      BY DEF IInv, TypeOK, event_endElement
    <2> QED
      BY <2>1, ClosedTag DEF SaxEndElement
  <1>2. /\ currentUnit_id' = currentUnit_id
        /\ strings'[currentUnit_id] = strings[currentUnit_id]
        /\ function_read_state = 5 => strings'[currentFn_id] = strings[currentFn_id]
    <2>1. [Next]_vars
      BY DEF Next
    <2> QED
      BY <1>1, <2>1, NamesKept DEF ReaderIInv
  <1>3. /\ UNCHANGED <<rfu_units, unit_id>> /\ ~RfuQuiet
        /\ rfu_read_state \in RfuReadStates /\ function_read_state \in 0..5
        /\ SameState /\ CallIsOpen /\ SameName
    BY <1>1 DEF event_endElement_rfu, ReaderIInv, RfuIInv, IInv, TypeOK
  <1>4. rfu_read_state # "WAITING_CALL_NAME"
    <2> SUFFICES ASSUME rfu_read_state = "WAITING_CALL_NAME" PROVE FALSE
      OBVIOUS
    <2>1. Top.tag = "call" /\ Top.slot = 0 /\ t = "call"
      BY <1>1, <1>3 DEF CallIsOpen
    <2>2. Complete(Top)
      BY <1>1 DEF SaxEndElement
    <2> QED
      BY <2>1, <2>2 DEF Complete, CallsAreNamed
  <1>5. strings'[currentUnit_id'] = rfu_units'[unit_id']
    BY <1>1, <1>2, <1>3 DEF SameName
  <1>6. CASE t = "function"
    <2>1. /\ function_read_state' = 0 /\ fn_id' = NoId
          /\ UNCHANGED <<rfu_read_state, name_chunk>>
          /\ fn_id = NoId => rfu_terminated'
      BY <1>3, <1>6
      DEF event_endElement, FunctionEnds, TypeEnds, NameEnds, OtherEnds, event_endElement_rfu,
          RfuMethodEnds, RfuMethodTypeEnds, RfuMethodNameEnds, RfuCallNameEnds, RfuEndIgnored
    <2>2. ASSUME ~rfu_terminated'
          PROVE  SameState' /\ CallIsOpen' /\ SameName' /\ "function" \notin OpenTags'
      <3>1. function_read_state = 5
        BY <2>1, <2>2 DEF ReaderIInv
      <3>2. SameState'
        BY <1>3, <2>1, <3>1 DEF SameState
      <3>3. CallIsOpen'
        BY <1>1, <1>3, <1>4, <1>6, <2>1 DEF CallIsOpen
      <3>4. SameName'
        BY <1>3, <1>5, <2>1 DEF SameName
      <3>5. "function" \notin OpenTags'
        BY <1>1, <1>6, OnlyFunction
      <3> QED
        BY <3>2, <3>3, <3>4, <3>5
    <2> QED
      BY <2>1, <2>2 DEF ReaderIInv
  <1>7. CASE t = "name" /\ function_read_state = 4
    <2>1. rfu_read_state = "READING_METHOD_NAME"
      BY <1>3, <1>7 DEF SameState
    <2>2. /\ function_read_state' = 5 /\ strings' = append_chunk(strings, <<"()">>)
          /\ currentFn_id' = currentFn_id
      BY <1>7 DEF event_endElement, FunctionEnds, TypeEnds, NameEnds, OtherEnds
    <2>3. /\ fns' = WithKey(fns, name_chunk) /\ fn_id' = KeyId(fns', name_chunk)
          /\ rfu_read_state' = "WAITING_METHOD" /\ name_chunk' = <<>>
          /\ rfu_terminated' = rfu_terminated
      BY <1>7, <2>1
      DEF event_endElement_rfu, RfuMethodEnds, RfuMethodTypeEnds, RfuMethodNameEnds,
          RfuCallNameEnds, RfuEndIgnored
    <2>4. fn_id' # NoId /\ fns'[fn_id'] = name_chunk
      BY <2>3, FunctionAdded DEF Functions, NoId
    <2>5. currentFn_id' # NoId
      BY <1>7, <2>2 DEF IInv, AppendsReachFn
    <2>6. strings'[currentFn_id'] = rfu_units'[unit_id'] \o <<"::">> \o fns'[fn_id'] \o <<"()">>
      <3>1. "()" \in Piece
        BY DEF Piece
      <3>2. strings'[currentFn_id] = strings[currentFn_id] \o <<"()">>
        BY <1>7, <2>2, <3>1, StringGrows
      <3>3. strings[currentFn_id] = rfu_units[unit_id] \o <<"::">> \o name_chunk
        BY <1>3, <1>7 DEF SameName
      <3> QED
        BY <1>3, <2>2, <2>4, <3>2, <3>3
    <2>7. SameName'
      <3>1. function_read_state' = 5 /\ name_chunk' = <<>>
        BY <2>2, <2>3
      <3> QED
        BY <1>5, <2>6, <3>1 DEF SameName
    <2>8. SameState' /\ CallIsOpen'
      BY <2>2, <2>3 DEF SameState, CallIsOpen
    <2>9. "function" \in OpenTags'
      BY <1>1, <1>7 DEF ReaderIInv
    <2> QED
      BY <2>2, <2>3, <2>4, <2>5, <2>7, <2>8, <2>9 DEF ReaderIInv
  <1>8. CASE t # "function" /\ ~(t = "name" /\ function_read_state = 4)
    <2>1. /\ function_read_state' = IF t = "type" /\ function_read_state = 2
                                    THEN 3 ELSE function_read_state
          /\ strings' = strings /\ currentFn_id' = currentFn_id
      BY <1>8 DEF event_endElement, FunctionEnds, TypeEnds, NameEnds, OtherEnds
    <2>2. ~(t = "name" /\ rfu_read_state = "READING_METHOD_NAME")
      BY <1>3, <1>8 DEF SameState
    <2>3. "function" \in OpenTags' <=> "function" \in OpenTags
      BY <1>1, <1>8
    <2>4. CASE t = "name" /\ rfu_read_state = "READING_CALL_NAME"
      <3>1. /\ fns' = WithKey(fns, name_chunk) /\ fn_id' = fn_id
            /\ rfu_read_state' = "WAITING_METHOD" /\ name_chunk' = <<>>
            /\ rfu_terminated' <=> fn_id = NoId
        BY <1>8, <2>4
        DEF event_endElement_rfu, RfuMethodEnds, RfuMethodTypeEnds, RfuMethodNameEnds,
            RfuCallNameEnds, RfuEndIgnored
      <3>2. function_read_state \in {0, 5} /\ function_read_state' = function_read_state
        BY <1>3, <2>1, <2>4 DEF SameState
      <3>3. fn_id # NoId => fns'[fn_id] = fns[fn_id]
        BY <3>1, FunctionAdded DEF RfuIInv
      <3>4. SameState' /\ CallIsOpen'
        BY <3>1, <3>2 DEF SameState, CallIsOpen
      <3>5. SameName'
        <4>1. function_read_state = 5 => fn_id # NoId
          BY DEF ReaderIInv
        <4>2. /\ name_chunk' = <<>> /\ fn_id' = fn_id
              /\ function_read_state = 5 => fns'[fn_id] = fns[fn_id]
          BY <3>1, <3>3, <4>1
        <4>3. ASSUME function_read_state' = 5
              PROVE  strings'[currentFn_id'] =
                         rfu_units'[unit_id'] \o <<"::">> \o fns'[fn_id'] \o <<"()">>
          <5>1. strings[currentFn_id] =
                    rfu_units[unit_id] \o <<"::">> \o fns[fn_id] \o <<"()">>
            BY <1>3, <3>2, <4>3 DEF SameName
          <5>2. fns'[fn_id'] = fns[fn_id]
            BY <3>2, <4>2, <4>3
          <5> QED
            BY <1>3, <2>1, <5>1, <5>2
        <4>4. function_read_state' \notin 1..4
          BY <3>2
        <4> QED
          BY <1>5, <4>2, <4>3, <4>4 DEF SameName
      <3> QED
        BY <2>1, <2>3, <3>1, <3>2, <3>4, <3>5 DEF ReaderIInv
    <2>5. CASE ~(t = "name" /\ rfu_read_state = "READING_CALL_NAME")
      <3>1. /\ UNCHANGED <<fns, fn_id, name_chunk, rfu_terminated>>
            /\ rfu_read_state' = IF t = "type" /\ rfu_read_state = "READING_METHOD_TYPE"
                                 THEN "WAITING_METHOD_NAME" ELSE rfu_read_state
        BY <1>8, <2>2, <2>5
        DEF event_endElement_rfu, RfuMethodEnds, RfuMethodTypeEnds, RfuMethodNameEnds,
            RfuCallNameEnds, RfuEndIgnored
      <3>2. SameState'
        BY <1>3, <2>1, <3>1 DEF SameState
      <3>3. CallIsOpen'
        BY <1>1, <1>3, <1>4, <2>5, <3>1 DEF CallIsOpen
      <3>4. SameName'
        <4>1. /\ function_read_state' \in 1..4 => function_read_state \in 1..4
              /\ function_read_state' = 5 => function_read_state = 5
          BY <2>1
        <4>2. rfu_read_state' \notin {"READING_METHOD_NAME", "READING_CALL_NAME"} =>
                  name_chunk' = <<>>
          BY <1>3, <3>1 DEF SameName
        <4> QED
          BY <1>3, <1>5, <2>1, <3>1, <4>1, <4>2 DEF SameName
      <3>5. /\ function_read_state' = 5 <=> function_read_state = 5
            /\ function_read_state' # 0 <=> function_read_state # 0
        BY <2>1
      <3> QED
        BY <2>1, <2>3, <3>1, <3>2, <3>3, <3>4, <3>5 DEF ReaderIInv
    <2> QED
      BY <2>4, <2>5
  <1> QED
    BY <1>6, <1>7, <1>8

(* Character data.                                                         *)
LEMMA ReadersRead ==
    ASSUME IInv, RfuIInv, ReaderIInv, ~rfu_terminated, NEW ch \in Text,
           event_charactersUnit(ch), event_charactersUnit_rfu(ch)
    PROVE  ReaderIInv'
  <1>1. /\ SaxTypeOK /\ StreamShape /\ SaxCharacters(ch) /\ phase = "unit" /\ phase' = "unit"
        /\ OpenTags' = OpenTags /\ Top' = [Top EXCEPT !.text = Append(Top.text, ch)]
    <2>1. SaxTypeOK /\ StreamShape /\ SaxCharacters(ch)
      BY DEF IInv, TypeOK, event_charactersUnit
    <2> QED
      BY <2>1, SameTags, Grown DEF SaxCharacters
  <1>2. /\ strings'[currentUnit_id] = strings[currentUnit_id]
        /\ function_read_state = 5 => strings'[currentFn_id] = strings[currentFn_id]
    <2>1. [Next]_vars
      BY DEF Next
    <2> QED
      BY <1>1, <2>1, NamesKept DEF ReaderIInv
  <1>3. /\ UNCHANGED <<rfu_units, fns, unit_id, fn_id, rfu_read_state, rfu_terminated,
                       function_read_state, currentUnit_id, currentFn_id>>
        /\ SameState /\ CallIsOpen /\ SameName
    BY DEF event_charactersUnit, event_charactersUnit_rfu, ReaderIInv
  <1>4. Top'.tag = Top.tag /\ Top'.slot = Top.slot
    <2>1. Top \in Element
      BY <1>1 DEF SaxTypeOK, StreamShape, Top
    <2> QED
      BY <1>1, <2>1 DEF Element
  <1>5. SameState' /\ CallIsOpen'
    BY <1>1, <1>3, <1>4 DEF SameState, CallIsOpen
  <1>6. SameName'
    <2>1. CASE function_read_state = 4
      <3>1. ch \in Piece
        BY DEF Piece
      <3>2. strings'[currentFn_id] = strings[currentFn_id] \o <<ch>>
        BY <2>1, <3>1, StringGrows DEF event_charactersUnit
      <3>3. strings[currentFn_id] = rfu_units[unit_id] \o <<"::">> \o name_chunk
        BY <1>3, <2>1 DEF SameName
      <3>4. name_chunk' = Append(name_chunk, ch) /\ rfu_read_state = "READING_METHOD_NAME"
        BY <1>3, <2>1 DEF SameState, event_charactersUnit_rfu
      <3>5. rfu_units[unit_id] \in Seq(Piece) /\ name_chunk \in Seq(Text)
        BY <1>1 DEF RfuIInv, Units, Strings
      <3>6. strings'[currentFn_id'] = rfu_units'[unit_id'] \o <<"::">> \o name_chunk'
        <4>1. (rfu_units[unit_id] \o <<"::">> \o name_chunk) \o <<ch>> =
                  rfu_units[unit_id] \o <<"::">> \o Append(name_chunk, ch)
          BY <3>5, PiecesAppend
        <4> QED
          BY <1>3, <3>2, <3>3, <3>4, <4>1
      <3>7. strings'[currentUnit_id'] = rfu_units'[unit_id']
        BY <1>1, <1>2, <1>3 DEF SameName
      <3> QED
        BY <1>3, <2>1, <3>4, <3>6, <3>7 DEF SameName
    <2>2. CASE function_read_state # 4
      <3>1. strings' = strings
        BY <2>2 DEF event_charactersUnit
      <3>2. rfu_read_state # "READING_CALL_NAME" => name_chunk' = name_chunk
        BY <1>3, <2>2 DEF SameState, event_charactersUnit_rfu
      <3>3. function_read_state \in 1..4 => rfu_read_state # "READING_CALL_NAME"
        BY <1>3 DEF SameState
      <3> QED
        BY <1>1, <1>3, <3>1, <3>2, <3>3 DEF SameName
    <2> QED
      BY <2>1, <2>2
  <1> QED
    BY <1>1, <1>3, <1>5, <1>6 DEF ReaderIInv

(* The document, the root and the units start and end while the readers    *)
(* are idle.                                                               *)
LEMMA ReadersIdle ==
    ASSUME IInv, ReaderIInv, ~rfu_terminated, phase # "unit" \/ SaxEndUnit
    PROVE  /\ function_read_state = 0 /\ rfu_read_state \notin {"READING_METHOD",
              "READING_METHOD_TYPE", "WAITING_METHOD_NAME", "READING_METHOD_NAME"}
           /\ rfu_read_state \notin {"WAITING_CALL_NAME", "READING_CALL_NAME"}
           /\ fn_id = NoId /\ name_chunk = <<>>
           /\ "function" \notin OpenTags
  <1>1. {"function", "name"} \cap OpenTags = {}
    BY NothingOpen DEF IInv
  <1>2. SameState /\ CallIsOpen /\ SameName
    BY DEF ReaderIInv
  <1>3. function_read_state = 0 /\ fn_id = NoId
    BY <1>1 DEF ReaderIInv
  <1>4. rfu_read_state # "WAITING_CALL_NAME"
    <2>1. SaxEndUnit => Top.tag = "unit"
      BY DEF SaxEndUnit, Top, IInv, StreamShape
    <2> QED
      BY <1>2, <2>1 DEF CallIsOpen
  <1> QED
    BY <1>1, <1>2, <1>3, <1>4 DEF SameState, CallIsOpen, SameName

(* A unit starts: both readers know it by its file.                        *)
LEMMA ReadersUnit ==
    ASSUME IInv, RfuIInv, ReaderIInv, ~rfu_terminated, NEW filename \in Filenames,
           event_startUnit(filename), event_startUnit_rfu(filename)
    PROVE  ReaderIInv'
  <1>1. phase = "root" /\ SaxStartUnit
    BY DEF event_startUnit, SaxStartUnit
  <1>2. function_read_state' = 0 /\ OpenTags' = {"unit"}
    BY <1>1, ReadersIdle, NothingOpen DEF event_startUnit, IInv
  <1>3. CASE RfuQuiet
    BY <1>2, <1>3 DEF ReaderIInv, event_startUnit_rfu
  <1>4. CASE ~RfuQuiet
    <2>1. <<filename>> \in Seq(Piece) /\ rfu_units \in Seq(Seq(Piece)) /\ strings \in Strings
      <3>1. filename \in Piece
        BY DEF Piece
      <3> QED
        BY <3>1 DEF RfuIInv, IInv, TypeOK, Strings
    <2>2. rfu_units'[unit_id'] = <<filename>>
      <3>1. rfu_units' = WithKey(rfu_units, <<filename>>) /\ unit_id' = KeyId(rfu_units', <<filename>>)
        BY <1>4 DEF event_startUnit_rfu
      <3> QED
        BY <2>1, <3>1, KeyFound
    <2>3. strings'[currentUnit_id'] = <<filename>>
      <3>1. add_chunk(strings, <<filename>>)[Len(strings) + 1] = <<filename>>
        BY <2>1, AddChunk, Zenon
      <3> QED
        BY <3>1, Zenon DEF event_startUnit
    <2>4. UNCHANGED <<rfu_read_state, name_chunk, fn_id, rfu_terminated>>
      BY <1>4 DEF event_startUnit_rfu
    <2>5. SameState' /\ CallIsOpen' /\ name_chunk' = <<>> /\ fn_id' = NoId
      BY <1>1, <1>2, <2>4, ReadersIdle DEF SameState, CallIsOpen
    <2>6. SameName'
      BY <1>2, <2>2, <2>3, <2>5 DEF SameName
    <2> QED
      BY <1>2, <2>5, <2>6 DEF ReaderIInv
  <1> QED
    BY <1>3, <1>4

(* The document and the root start and end, and a unit ends.               *)
LEMMA ReadersOutside ==
    ASSUME IInv, ReaderIInv, ~rfu_terminated,
           \/ event_startDocument /\ event_startDocument_rfu
           \/ event_startRoot /\ UNCHANGED rfuVars
           \/ event_endUnit /\ event_endUnit_rfu
           \/ event_endRoot /\ UNCHANGED rfuVars
           \/ event_endDocument /\ event_endDocument_rfu
    PROVE  ReaderIInv'
  <1>1. /\ phase # "unit" \/ SaxEndUnit
        /\ phase' # "unit" /\ UNCHANGED function_read_state
    BY DEF event_startDocument, event_startRoot, event_endUnit, event_endRoot,
           event_endDocument, SaxStartDocument, SaxStartRoot, SaxEndUnit, SaxEndRoot,
           SaxEndDocument, SaxMove, eventVars
  <1>2. /\ UNCHANGED rfu_read_state /\ name_chunk' \in {name_chunk, <<>>}
        /\ fn_id' \in {fn_id, NoId} /\ UNCHANGED rfu_terminated
    BY DEF event_startDocument_rfu, event_endUnit_rfu, event_endDocument_rfu, rfuVars
  <1>3. StreamShape'
    BY StepIInv DEF Next, IInv
  <1>4. OpenTags' = {}
    BY <1>1, <1>3 DEF StreamShape, OpenTags
  <1>5. /\ function_read_state' = 0 /\ fn_id' = NoId /\ name_chunk' = <<>>
        /\ SameState' /\ CallIsOpen'
    BY <1>1, <1>2, ReadersIdle DEF SameState, CallIsOpen
  <1>6. SameName'
    BY <1>1, <1>5 DEF SameName
  <1> QED
    BY <1>4, <1>5, <1>6 DEF ReaderIInv

(* Every step keeps the readers together.                                  *)
LEMMA ReadersStep ==
    ASSUME CallsAreNamed, IInv, RfuIInv, ReaderIInv, OneFunction, OneFunction',
           FunctionsOutsideNames', [RfuNext]_<<vars, rfuVars>>
    PROVE  ReaderIInv'
  <1>1. CASE UNCHANGED <<vars, rfuVars>>
    BY <1>1
    DEF vars, saxVars, eventVars, rfuVars, ReaderIInv, SameState, CallIsOpen, SameName,
        OpenTags, Top
  <1>2. CASE RfuNext
    BY <1>2, ReadersStart, ReadersEnd, ReadersRead, ReadersUnit, ReadersOutside DEF RfuNext
  <1> QED
    BY <1>1, <1>2

(* So they do in every run.                                                *)
LEMMA ReadersInvariance ==
    CallsAreNamed /\ RfuSpec /\ []OneFunction /\ []FunctionsOutsideNames => []ReaderIInv
  <1>1. SUFFICES ASSUME CallsAreNamed
                 PROVE  RfuSpec /\ []OneFunction /\ []FunctionsOutsideNames => []ReaderIInv
    OBVIOUS
  <1>2. RfuSystemInit => IInv /\ ReaderIInv
    <2> SUFFICES ASSUME RfuSystemInit PROVE IInv /\ ReaderIInv
      OBVIOUS
    <2>1. IInv
      BY InitIInv DEF RfuSystemInit
    <2> QED
      BY <2>1
      DEF RfuSystemInit, Init, SaxInit, RfuInit, ReaderIInv, SameState, CallIsOpen, SameName,
          OpenTags
  <1>3. IInv /\ [RfuNext]_<<vars, rfuVars>> => IInv'
    <2>1. [RfuNext]_<<vars, rfuVars>> => [Next]_vars
      BY DEF RfuNext, Next
    <2> QED
      BY <2>1, StepIInv
  <1>4. /\ IInv /\ RfuIInv /\ ReaderIInv /\ OneFunction /\ OneFunction'
        /\ FunctionsOutsideNames' /\ [RfuNext]_<<vars, rfuVars>>
        => ReaderIInv'
    BY <1>1, ReadersStep
  <1> QED
    BY <1>2, <1>3, <1>4, RfuInvariance, PTL DEF RfuSpec

(* RFU's rows have the keys that the rows of other metrics have: both      *)
(* readers know every function by the same name, if no function is inside  *)
(* another or inside a name, and calls start with a name.                  *)
THEOREM NamesAgree ==
    CallsAreNamed /\ RfuSpec /\ []OneFunction /\ []FunctionsOutsideNames => []ReadersAgree
  <1>1. ReaderIInv => ReadersAgree
    <2> SUFFICES ASSUME ReaderIInv, function_read_state = 5 PROVE ReadersAgree
      BY DEF ReadersAgree
    <2>1. fn_id # NoId /\ SameName
      BY DEF ReaderIInv
    <2> QED
      BY <2>1 DEF ReadersAgree, SameName
  <1> QED
    BY <1>1, ReadersInvariance, PTL

-----------------------------------------------------------------------------
(* What a function calls, on the way too.                                  *)

(* A group of functions that calls nobody outside.                         *)
CallsWithin(ids) == \A e \in callGraph : e[1] \in ids => e[2] \in ids

(* One pass over functions adds those that they call.                      *)
LEMMA OnePass ==
    ASSUME RfuIInv, NEW ids \in SUBSET Functions
    PROVE  /\ DirectCalls(ids) \in SUBSET Functions
           /\ ids \subseteq DirectCalls(ids)
           /\ \A j : j \in DirectCalls(ids) <=> j \in ids \/ \E i \in ids : <<i, j>> \in callGraph
           /\ CallsWithin(ids) <=> DirectCalls(ids) = ids
  <1>1. callGraph \subseteq Functions \X Functions
    BY DEF RfuIInv
  <1> HIDE DEF Functions
  <1>2. \A i, j : j \in Sinks(callGraph, i) <=> <<i, j>> \in callGraph
    BY <1>1, SinksOf
  <1>3. \A j : j \in DirectCalls(ids) <=> j \in ids \/ \E i \in ids : <<i, j>> \in callGraph
    BY <1>2 DEF DirectCalls
  <1>4. ids \subseteq DirectCalls(ids)
    BY <1>3
  <1>5. DirectCalls(ids) \in SUBSET Functions
    <2>1. ASSUME NEW j \in DirectCalls(ids) PROVE j \in Functions
      <3>1. \A i : <<i, j>> \in callGraph => j \in Functions
        BY <1>1
      <3>2. j \in ids \/ \E i \in ids : <<i, j>> \in callGraph
        BY <1>3, <2>1
      <3> QED
        BY <3>1, <3>2
    <2> HIDE DEF DirectCalls
    <2> QED
      BY <2>1
  <1>6. CallsWithin(ids) <=> \A i, j : <<i, j>> \in callGraph /\ i \in ids => j \in ids
    BY <1>1 DEF CallsWithin
  <1>7. CallsWithin(ids) <=> DirectCalls(ids) = ids
    <2>1. ASSUME CallsWithin(ids) PROVE DirectCalls(ids) \subseteq ids
      BY <1>3, <1>6, <2>1
    <2>2. ASSUME DirectCalls(ids) = ids PROVE CallsWithin(ids)
      BY <1>3, <1>6, <2>2
    <2> QED
      BY <1>4, <2>1, <2>2
  <1> QED
    BY <1>3, <1>4, <1>5, <1>7

Growing(ids) ==
    LET grown[n \in 0..Len(fns)] ==
            IF n = 0 THEN DirectCalls(ids) ELSE DirectCalls(grown[n - 1])
    IN  grown

(* The passes: each takes what the one before it left.                     *)
LEMMA Passes ==
    ASSUME RfuIInv, NEW ids \in SUBSET Functions
    PROVE  /\ UniqueCalls(ids) = IF RfuSimple THEN Growing(ids)[0] ELSE Growing(ids)[Len(fns)]
           /\ Growing(ids) \in [0..Len(fns) -> SUBSET Functions]
           /\ Growing(ids)[0] = DirectCalls(ids)
           /\ \A k \in 1..Len(fns) : Growing(ids)[k] = DirectCalls(Growing(ids)[k - 1])
  <1> DEFINE n == Len(fns)
             S == SUBSET Functions
             s0 == DirectCalls(ids)
             g == [p \in (1..n) \X S |-> DirectCalls(p[2])]
             u == Growing(ids)
             Def(f) == f = [k \in 0..n |-> IF k = 0 THEN s0 ELSE DirectCalls(f[k - 1])]
  <1>1. n \in Nat
    BY DEF RfuIInv
  <1>2. \A s \in S : DirectCalls(s) \in S
    BY OnePass
  <1>3. s0 \in S
    BY <1>2
  <1>4. u = CHOOSE h : Def(h)
    BY DEF Growing
  <1>5. UniqueCalls(ids) = IF RfuSimple THEN u[0] ELSE u[n]
    BY DEF UniqueCalls, Growing
  <1> HIDE DEF n, S, s0
  <1>6. g \in [(1..n) \X S -> S] /\ \A k \in 1..n, s \in S : g[<<k, s>>] = DirectCalls(s)
    BY <1>2
  <1> HIDE DEF g
  <1>7. PICK f : Carries(f, n, S, s0, g)
    BY <1>1, <1>3, <1>6, Carried
  <1>8. f \in [0..n -> S] /\ f[0] = s0
    BY <1>7 DEF Carries
  <1>9. \A k \in 1..n : k - 1 \in 0..n /\ f[k] = DirectCalls(f[k - 1])
    <2> SUFFICES ASSUME NEW k \in 1..n PROVE k - 1 \in 0..n /\ f[k] = DirectCalls(f[k - 1])
      OBVIOUS
    <2>1. k - 1 \in 0..n
      BY <1>1
    <2>2. f[k - 1] \in S
      BY <1>8, <2>1
    <2> QED
      BY <1>6, <1>7, <2>1, <2>2 DEF Carries
  <1>10. Def(f)
    <2>1. ASSUME NEW k \in 0..n PROVE f[k] = IF k = 0 THEN s0 ELSE DirectCalls(f[k - 1])
      <3>1. k # 0 => k \in 1..n
        BY <1>1
      <3> QED
        BY <1>8, <1>9, <3>1
    <2> QED
      BY <1>8, <2>1
  <1>11. Def(u)
    <2> HIDE DEF Def, u
    <2> QED
      BY <1>4, <1>10
  <1>12. u = [k \in 0..n |-> u[k]] /\ u[0] = s0 /\ \A k \in 1..n : u[k] = DirectCalls(u[k - 1])
    <2>0. Def(u)
      BY <1>11
    <2> HIDE DEF u
    <2>1. \A k \in 0..n : u[k] = IF k = 0 THEN s0 ELSE DirectCalls(u[k - 1])
      BY <2>0
    <2> QED
      BY <1>1, <2>0, <2>1
  <1>13. Carries(u, n, S, s0, g)
    <2> HIDE DEF u, Def
    <2>1. \A k \in 1..n : u[k - 1] \in S => u[k] = g[<<k, u[k - 1]>>]
      BY <1>6, <1>12
    <2> QED
      BY <1>1, <1>3, <1>6, <1>12, <2>1, CarriesIt
  <1>14. u \in [0..n -> S]
    BY <1>13 DEF Carries
  <1> QED
    BY <1>5, <1>12, <1>14 DEF n, S, s0

(* What the passes leave calls nobody outside, for each pass that is not   *)
(* the last to add a function adds one at least.                           *)
LEMMA PassesEnd ==
    ASSUME RfuIInv, NEW ids \in SUBSET Functions
    PROVE  CallsWithin(Growing(ids)[Len(fns)])
  <1> DEFINE n == Len(fns)
             u == Growing(ids)
             Bad == {k \in 0..n : ~CallsWithin(u[k]) /\ Cardinality(u[k]) < k}
  <1>1. n \in Nat
    BY DEF RfuIInv
  <1>2. /\ u \in [0..n -> SUBSET Functions]
        /\ \A k \in 1..n : u[k] = DirectCalls(u[k - 1])
    BY Passes
  <1>3. Functions = 1..n
    BY DEF Functions
  <1> HIDE DEF n, u
  <1>4. \A s \in SUBSET Functions : IsFiniteSet(s) /\ Cardinality(s) \in Nat
    <2>1. IsFiniteSet(1..n)
      BY <1>1, FS_Interval
    <2> SUFFICES ASSUME NEW s \in SUBSET Functions PROVE IsFiniteSet(s) /\ Cardinality(s) \in Nat
      OBVIOUS
    <2>2. IsFiniteSet(s)
      BY <1>3, <2>1, FS_Subset
    <2> QED
      BY <2>2, FS_CardinalityType
  <1>5. ASSUME Bad # {} PROVE FALSE
    <2>0. Bad \subseteq Nat
      BY <1>1
    <2>1. PICK k \in Bad : \A y \in Bad : k <= y
      <3> HIDE DEF Bad
      <3> QED
        BY <1>5, <2>0, NatMinimum, Zenon
    <2>2. k \in 0..n /\ ~CallsWithin(u[k]) /\ Cardinality(u[k]) < k /\ u[k] \in SUBSET Functions
      BY <1>2, <2>1
    <2>3. k \in 1..n /\ k - 1 \in 0..n /\ k - 1 \notin Bad
      BY <1>1, <1>4, <2>1, <2>2
    <2>4. CallsWithin(u[k - 1]) \/ Cardinality(u[k - 1]) >= k - 1
      BY <1>1, <1>2, <1>4, <2>3
    <2>5. u[k - 1] \in SUBSET Functions /\ u[k] = DirectCalls(u[k - 1])
      BY <1>2, <2>3
    <2>6. ~CallsWithin(u[k - 1])
      BY <2>2, <2>5, OnePass
    <2>7. u[k - 1] \subseteq u[k] /\ u[k - 1] # u[k]
      BY <2>5, <2>6, OnePass
    <2>8. Cardinality(u[k - 1]) < Cardinality(u[k])
      BY <1>4, <2>2, <2>7, FS_Subset
    <2> QED
      BY <1>4, <2>2, <2>3, <2>4, <2>5, <2>6, <2>8
  <1>6. CallsWithin(u[n]) \/ Cardinality(u[n]) >= n
    <2>1. n \in 0..n /\ n \notin Bad
      BY <1>1, <1>5
    <2>2. u[n] \in SUBSET Functions
      BY <1>2, <2>1
    <2> QED
      BY <1>1, <1>4, <2>1, <2>2
  <1>7. ASSUME Cardinality(u[n]) >= n PROVE CallsWithin(u[n])
    <2>1. u[n] \in SUBSET Functions
      BY <1>1, <1>2
    <2>2. IsFiniteSet(Functions) /\ Cardinality(Functions) = n
      BY <1>1, <1>3, FS_Interval
    <2>3. u[n] = Functions
      BY <1>1, <1>4, <1>7, <2>1, <2>2, FS_Subset
    <2>4. \A e \in callGraph : e[2] \in Functions
      BY DEF RfuIInv
    <2> QED
      BY <2>3, <2>4 DEF CallsWithin
  <1>8. CallsWithin(u[n])
    BY <1>6, <1>7
  <1> QED
    BY <1>8 DEF u, n

(* And it is the least such group with the functions in it.                *)
LEMMA PassesLeast ==
    ASSUME RfuIInv, NEW ids \in SUBSET Functions
    PROVE  /\ Growing(ids)[Len(fns)] \in SUBSET Functions
           /\ ids \subseteq Growing(ids)[Len(fns)]
           /\ \A group \in SUBSET Functions :
                 ids \subseteq group /\ CallsWithin(group) => Growing(ids)[Len(fns)] \subseteq group
  <1> DEFINE n == Len(fns)
             u == Growing(ids)
  <1>1. n \in Nat
    BY DEF RfuIInv
  <1>2. /\ u \in [0..n -> SUBSET Functions]
        /\ u[0] = DirectCalls(ids)
        /\ \A k \in 1..n : u[k] = DirectCalls(u[k - 1])
    BY Passes
  <1> HIDE DEF n, u
  <1>3. ASSUME NEW group \in SUBSET Functions, CallsWithin(group),
               NEW s \in SUBSET Functions, s \subseteq group
        PROVE  DirectCalls(s) \subseteq group
    <2>1. DirectCalls(group) = group
      BY <1>3, OnePass
    <2> QED
      BY <1>3, <2>1, OnePass
  <1>4. ASSUME NEW group \in SUBSET Functions, ids \subseteq group, CallsWithin(group)
        PROVE  u[n] \subseteq group
    <2> DEFINE Bad == {k \in 0..n : ~(u[k] \subseteq group)}
    <2>1. ASSUME Bad # {} PROVE FALSE
      <3>0. Bad \subseteq Nat
        BY <1>1
      <3>1. PICK k \in Bad : \A y \in Bad : k <= y
        <4> HIDE DEF Bad
        <4> QED
          BY <2>1, <3>0, NatMinimum, Zenon
      <3>2. k # 0
        <4>1. u[0] \subseteq group
          BY <1>2, <1>3, <1>4
        <4> QED
          BY <3>1, <4>1
      <3>3. k \in 1..n /\ k - 1 \in 0..n /\ k - 1 \notin Bad
        BY <1>1, <3>1, <3>2
      <3>4. u[k - 1] \subseteq group /\ u[k - 1] \in SUBSET Functions
        BY <1>2, <3>3
      <3>5. u[k] \subseteq group
        BY <1>2, <1>3, <1>4, <3>3, <3>4
      <3> QED
        BY <3>1, <3>5
    <2> QED
      BY <1>1, <2>1
  <1>5. ids \subseteq u[n]
    <2> DEFINE Bad == {k \in 0..n : ~(ids \subseteq u[k])}
    <2>1. ASSUME Bad # {} PROVE FALSE
      <3>0. Bad \subseteq Nat
        BY <1>1
      <3>1. PICK k \in Bad : \A y \in Bad : k <= y
        <4> HIDE DEF Bad
        <4> QED
          BY <2>1, <3>0, NatMinimum, Zenon
      <3>2. k # 0
        <4>1. ids \subseteq u[0]
          BY <1>2, OnePass
        <4> QED
          BY <3>1, <4>1
      <3>3. k \in 1..n /\ k - 1 \in 0..n /\ k - 1 \notin Bad
        BY <1>1, <3>1, <3>2
      <3>4. ids \subseteq u[k - 1] /\ u[k - 1] \in SUBSET Functions
        BY <1>2, <3>3
      <3>5. ids \subseteq u[k]
        BY <1>2, <3>3, <3>4, OnePass
      <3> QED
        BY <3>1, <3>5
    <2> QED
      BY <1>1, <2>1
  <1>6. u[n] \in SUBSET Functions
    BY <1>1, <1>2
  <1> QED
    BY <1>4, <1>5, <1>6 DEF u, n

-----------------------------------------------------------------------------
(* RFU: the refinement of CallGraph.                                       *)

(* Identifiers are for names, one each; every function is defined or       *)
(* called, and nothing is there before the document starts.                *)
GraphIInv ==
    /\ \A i, j \in Functions : fns[i] = fns[j] => i = j
    /\ \A i, j \in Units : rfu_units[i] = rfu_units[j] => i = j
    /\ \A i \in Functions :
          \/ \E u \in Units : <<i, u>> \in ownerGraph
          \/ \E f \in Functions : <<f, i>> \in callGraph
    /\ \E S : rfu_statistics \in Seq(S)
    /\ phase = "start" => fns = <<>> /\ rfu_units = <<>> /\ rfu_statistics = <<>>

(* The names of functions, by their identifiers. *)
NamesOf(ids) == {fns[i] : i \in ids}

(* The names of the promise are the functions of the ChunkSet, and so are  *)
(* the calls.                                                              *)
LEMMA NamesAndCalls ==
    ASSUME RfuIInv, GraphIInv
    PROVE  /\ Graph!Names = NamesOf(Functions)
           /\ \A ids \in SUBSET Functions :
                 Graph!CalledBy(NamesOf(ids)) =
                     {fns[j] : j \in {k \in Functions : \E i \in ids : <<i, k>> \in callGraph}}
  <1> DEFINE defined == {<<rfu_units[o[2]], fns[o[1]]>> : o \in ownerGraph}
             called  == {<<fns[e[1]], fns[e[2]]>> : e \in callGraph}
  <1>1. ownerGraph \subseteq Functions \X Units /\ callGraph \subseteq Functions \X Functions
    BY DEF RfuIInv
  <1>2. \A i \in Functions :
            \/ \E u \in Units : <<i, u>> \in ownerGraph
            \/ \E f \in Functions : <<f, i>> \in callGraph
    BY DEF GraphIInv
  <1>3. \A i, j \in Functions : fns[i] = fns[j] => i = j
    BY DEF GraphIInv
  <1>4. Graph!Names = {d[2] : d \in defined} \cup {c[1] : c \in called} \cup {c[2] : c \in called}
    BY DEF Graph!Names
  <1>5. \A fs : Graph!CalledBy(fs) = {c[2] : c \in {d \in called : d[1] \in fs}}
    BY DEF Graph!CalledBy
  <1> HIDE DEF Functions, Units
  <1>6. ASSUME NEW x \in {d[2] : d \in defined} PROVE x \in NamesOf(Functions)
    <2>1. PICK o \in ownerGraph : x = fns[o[1]]
      BY <1>6
    <2>2. o[1] \in Functions
      BY <1>1, <2>1
    <2> QED
      BY <2>1, <2>2 DEF NamesOf
  <1>7. \A c \in called : c[1] \in NamesOf(Functions) /\ c[2] \in NamesOf(Functions)
    <2> SUFFICES ASSUME NEW e \in callGraph
                 PROVE  fns[e[1]] \in NamesOf(Functions) /\ fns[e[2]] \in NamesOf(Functions)
      OBVIOUS
    <2>1. e[1] \in Functions /\ e[2] \in Functions
      BY <1>1
    <2> QED
      BY <2>1 DEF NamesOf
  <1>8. ASSUME NEW i \in Functions
        PROVE  fns[i] \in {d[2] : d \in defined} \cup {c[2] : c \in called}
    <2>1. CASE \E u \in Units : <<i, u>> \in ownerGraph
      <3>1. PICK u \in Units : <<i, u>> \in ownerGraph
        BY <2>1
      <3>2. <<rfu_units[u], fns[i]>> \in defined
        BY <3>1
      <3>3. <<rfu_units[u], fns[i]>>[2] = fns[i]
        OBVIOUS
      <3> HIDE DEF defined
      <3> QED
        BY <3>2, <3>3
    <2>2. CASE \E f \in Functions : <<f, i>> \in callGraph
      <3>1. PICK f \in Functions : <<f, i>> \in callGraph
        BY <2>2
      <3>2. <<fns[f], fns[i]>> \in called
        BY <3>1
      <3>3. <<fns[f], fns[i]>>[2] = fns[i]
        OBVIOUS
      <3> HIDE DEF called
      <3> QED
        BY <3>2, <3>3
    <2> QED
      BY <1>2, <2>1, <2>2
  <1>9. Graph!Names = NamesOf(Functions)
    <2> HIDE DEF defined, called
    <2>1. ASSUME NEW x \in NamesOf(Functions) PROVE x \in Graph!Names
      <3>1. PICK i \in Functions : x = fns[i]
        BY <2>1 DEF NamesOf
      <3> QED
        BY <1>4, <1>8, <3>1
    <2> QED
      BY <1>4, <1>6, <1>7, <2>1
  <1>10. ASSUME NEW ids \in SUBSET Functions
         PROVE  Graph!CalledBy(NamesOf(ids)) =
                    {fns[j] : j \in {k \in Functions : \E i \in ids : <<i, k>> \in callGraph}}
    <2> DEFINE callees == {k \in Functions : \E i \in ids : <<i, k>> \in callGraph}
    <2>1. ASSUME NEW x \in Graph!CalledBy(NamesOf(ids)) PROVE \E j \in callees : x = fns[j]
      <3>1. PICK c \in called : c[1] \in NamesOf(ids) /\ x = c[2]
        BY <1>5, <2>1
      <3>2. PICK e \in callGraph : c = <<fns[e[1]], fns[e[2]]>>
        BY <3>1
      <3>3. PICK i \in ids : fns[e[1]] = fns[i]
        BY <3>1, <3>2 DEF NamesOf
      <3>4. e[1] \in Functions /\ e[2] \in Functions /\ e = <<e[1], e[2]>>
        BY <1>1
      <3>5. e[1] = i
        BY <1>3, <3>3, <3>4
      <3> QED
        BY <3>1, <3>2, <3>4, <3>5
    <2>2. ASSUME NEW j \in callees PROVE fns[j] \in Graph!CalledBy(NamesOf(ids))
      <3>1. PICK i \in ids : <<i, j>> \in callGraph
        BY <2>2
      <3>2. <<fns[i], fns[j]>> \in called /\ fns[i] \in NamesOf(ids)
        BY <3>1 DEF NamesOf
      <3>3. <<fns[i], fns[j]>>[1] = fns[i] /\ <<fns[i], fns[j]>>[2] = fns[j]
        OBVIOUS
      <3> HIDE DEF called
      <3> QED
        BY <1>5, <3>2, <3>3
    <2> HIDE DEF callees
    <2>3. Graph!CalledBy(NamesOf(ids)) = {fns[j] : j \in callees}
      BY <2>1, <2>2
    <2> QED
      BY <2>3 DEF callees
  <1> QED
    BY <1>9, <1>10

(* What functions involve is what the passes find, name for name.          *)
LEMMA InvolvedNames ==
    ASSUME RfuIInv, GraphIInv, NEW ids \in SUBSET Functions
    PROVE  /\ UniqueCalls(ids) \in SUBSET Functions
           /\ Graph!Involved(NamesOf(ids)) = NamesOf(UniqueCalls(ids))
  <1> DEFINE last == Growing(ids)[Len(fns)]
             Callees(s) == {k \in Functions : \E i \in s : <<i, k>> \in callGraph}
  <1>1. \A i, j \in Functions : fns[i] = fns[j] => i = j
    BY DEF GraphIInv
  <1>2. callGraph \subseteq Functions \X Functions
    BY DEF RfuIInv
  <1>3. /\ UniqueCalls(ids) = IF RfuSimple THEN DirectCalls(ids) ELSE last
        /\ DirectCalls(ids) = ids \cup Callees(ids)
        /\ DirectCalls(ids) \in SUBSET Functions
    <2>1. UniqueCalls(ids) = IF RfuSimple THEN DirectCalls(ids) ELSE last
      BY Passes
    <2>2. /\ \A j : j \in DirectCalls(ids) <=> j \in ids \/ \E i \in ids : <<i, j>> \in callGraph
          /\ DirectCalls(ids) \in SUBSET Functions
      BY OnePass
    <2> HIDE DEF Functions, last
    <2>3. DirectCalls(ids) = ids \cup Callees(ids)
      BY <2>2
    <2> QED
      BY <2>1, <2>2, <2>3
  <1>4. /\ last \in SUBSET Functions /\ ids \subseteq last /\ CallsWithin(last)
        /\ \A group \in SUBSET Functions :
              ids \subseteq group /\ CallsWithin(group) => last \subseteq group
    BY PassesEnd, PassesLeast
  <1>5. /\ Graph!Names = NamesOf(Functions)
        /\ \A s \in SUBSET Functions : Graph!CalledBy(NamesOf(s)) = NamesOf(Callees(s))
    BY NamesAndCalls DEF NamesOf
  <1>6. \A fs : Graph!Involved(fs) =
            IF RfuSimple THEN fs \cup Graph!CalledBy(fs)
            ELSE {g \in Graph!Names : \A group \in SUBSET Graph!Names :
                     fs \subseteq group /\ Graph!CalledBy(group) \subseteq group => g \in group}
    BY DEF Graph!Involved
  <1> HIDE DEF Functions, last, Callees
  <1>7. CASE RfuSimple
    <2>1. Graph!Involved(NamesOf(ids)) = NamesOf(ids) \cup NamesOf(Callees(ids))
      BY <1>5, <1>6, <1>7
    <2>2. NamesOf(ids) \cup NamesOf(Callees(ids)) = NamesOf(ids \cup Callees(ids))
      BY DEF NamesOf
    <2> QED
      BY <1>3, <1>7, <2>1, <2>2
  <1>8. CASE ~RfuSimple
    <2>1. ASSUME NEW g \in Graph!Involved(NamesOf(ids)) PROVE g \in NamesOf(last)
      <3>1. NamesOf(last) \in SUBSET Graph!Names /\ NamesOf(ids) \subseteq NamesOf(last)
        BY <1>4, <1>5 DEF NamesOf
      <3>2. Callees(last) \subseteq last
        BY <1>4 DEF Callees, CallsWithin
      <3>3. Graph!CalledBy(NamesOf(last)) \subseteq NamesOf(last)
        BY <1>4, <1>5, <3>2 DEF NamesOf
      <3> QED
        BY <1>6, <1>8, <2>1, <3>1, <3>3
    <2>2. ASSUME NEW i \in last PROVE fns[i] \in Graph!Involved(NamesOf(ids))
      <3>1. ASSUME NEW group \in SUBSET Graph!Names, NamesOf(ids) \subseteq group,
                   Graph!CalledBy(group) \subseteq group
            PROVE  fns[i] \in group
        <4> DEFINE own == {j \in Functions : fns[j] \in group}
        <4>1. own \in SUBSET Functions /\ ids \subseteq own
          BY <3>1 DEF NamesOf
        <4>2. NamesOf(own) = group
          BY <1>5, <3>1 DEF NamesOf
        <4>3. NamesOf(Callees(own)) \subseteq group
          BY <1>5, <3>1, <4>1, <4>2
        <4>4. CallsWithin(own)
          <5> SUFFICES ASSUME NEW e \in callGraph, e[1] \in own PROVE e[2] \in own
            BY DEF CallsWithin
          <5>1. e[2] \in Functions /\ e = <<e[1], e[2]>>
            BY <1>2
          <5>2. e[2] \in Callees(own)
            BY <5>1 DEF Callees
          <5> QED
            BY <4>3, <5>1, <5>2 DEF NamesOf
        <4> QED
          BY <1>4, <4>1, <4>4
      <3>2. fns[i] \in Graph!Names
        BY <1>4, <1>5 DEF NamesOf
      <3> QED
        BY <1>6, <1>8, <3>1, <3>2
    <2>3. Graph!Involved(NamesOf(ids)) = NamesOf(last)
      BY <2>1, <2>2 DEF NamesOf
    <2> QED
      BY <1>3, <1>4, <1>8, <2>3
  <1> QED
    BY <1>7, <1>8

(* So as many functions are involved as the passes find.                   *)
LEMMA AsManyNames ==
    ASSUME RfuIInv, GraphIInv, NEW ids \in SUBSET Functions
    PROVE  Graph!Cardinality(NamesOf(ids)) = Cardinality(ids)
  <1> DEFINE f == [i \in ids |-> fns[i]]
  <1>1. \A i, j \in Functions : fns[i] = fns[j] => i = j
    BY DEF GraphIInv
  <1>2. IsFiniteSet(ids)
    <2>1. IsFiniteSet(1..Len(fns))
      BY FS_Interval DEF RfuIInv
    <2> QED
      BY <2>1, FS_Subset DEF Functions
  <1> HIDE DEF Functions
  <1>3. f \in Bijection(ids, NamesOf(ids))
    BY <1>1 DEF Bijection, Injection, Surjection, IsInjective, NamesOf
  <1>4. Cardinality(NamesOf(ids)) = Cardinality(ids)
    <2>1. ExistsBijection(ids, NamesOf(ids))
      BY <1>3 DEF ExistsBijection
    <2> QED
      BY <1>2, <2>1, FS_Bijection
  <1> QED
    BY <1>4 DEF Graph!Cardinality, Cardinality

(* The name of what it calls is the one name of a call.                    *)
CallsHaveOneName ==
    "call" \in Tags =>
        /\ ~Grammar["call"][1].many
        /\ \A k \in DOMAIN Grammar["call"] : k > 1 => "name" \notin Grammar["call"][k].tags

(* Functions make the calls, and not in their types.                       *)
CallsInBodies ==
    \A j \in DOMAIN open : open[j].tag = "call" =>
        \E i \in 1..j - 1 : open[i].tag = "function" /\ open[i + 1].tag # "type"

(* RFU is shown, whatever else was asked for.                              *)
RfuIsShown == \A options \in FlagSets : "RFU_SHOW" \in options

(* Names have no elements in them, and a call with one has its name.       *)
NamesAreLeaves ==
    \A i \in DOMAIN open : i < Len(open) =>
        open[i].tag # "name" /\ (open[i].tag = "call" => open[i].slot # 0)

(* The reader is where the innermost call is.                              *)
CallsRead ==
    \A i \in DOMAIN open : open[i].tag = "call" =>
        /\ open[i].slot = 0 => rfu_read_state = "WAITING_CALL_NAME"
        /\ i < Len(open) /\ open[i + 1].tag = "name" => rfu_read_state = "READING_CALL_NAME"

(* It gathers the name that is open, and knows the caller.                 *)
ChunkIsName ==
    /\ rfu_read_state \in {"READING_METHOD_NAME", "READING_CALL_NAME"} =>
          Top.tag = "name" /\ name_chunk = Top.text
    /\ rfu_read_state = "READING_CALL_NAME" => Len(open) > 1 /\ open[Len(open) - 1].tag = "call"
    /\ rfu_read_state \in {"WAITING_CALL_NAME", "READING_CALL_NAME"} => fn_id # NoId

CallerIsOpen ==
    fn_id # NoId =>
        \A i \in DOMAIN open : open[i].tag = "function" => open[i].name = fns[fn_id]

CallIInv ==
    /\ ~RfuQuiet /\ ~rfu_terminated
    /\ NamesAreLeaves
    /\ CallsRead
    /\ ChunkIsName
    /\ CallerIsOpen

(* What can start in a call: its name first, and none after it.            *)
LEMMA NextInCall ==
    ASSUME CallsAreNamed, CallsHaveOneName, NEW e \in Element, e.tag = "call", NEW t \in Tags,
           NEW k \in DOMAIN Grammar[e.tag], Accepts(e, k, t)
    PROVE  /\ e.slot = 0 => t = "name"
           /\ e.slot # 0 => t # "name"
  <1> DEFINE slots == Grammar["call"]
  <1>1. "call" \in Tags
    BY StreamAssumption DEF Element
  <1>2. slots \in Seq(Slot) /\ k \in DOMAIN slots /\ k \in Nat /\ k >= 1 /\ e.slot \in Nat
    BY <1>1, StreamAssumption DEF Element
  <1>3. /\ 1 \in DOMAIN slots /\ slots[1].tags = {"name"} /\ slots[1].least = 1
        /\ ~slots[1].many /\ (k > 1 => "name" \notin slots[k].tags)
    BY <1>1, <1>2 DEF CallsAreNamed, CallsHaveOneName
  <1>4. /\ t \in slots[k].tags
        /\ k > e.slot \/ (k = e.slot /\ slots[k].many)
        /\ \A j \in DOMAIN slots : e.slot < j /\ j < k => slots[j].least = 0
    BY DEF Accepts
  <1> HIDE DEF slots
  <1>5. e.slot = 0 => k = 1
    BY <1>2, <1>3, <1>4
  <1>6. e.slot # 0 => k > 1
    BY <1>2, <1>3, <1>4
  <1> QED
    BY <1>3, <1>4, <1>5, <1>6

(* An element starts.                                                      *)
LEMMA CallIInvStart ==
    ASSUME FunctionsAreNamed, CallsAreNamed, CallsHaveOneName, IInv, NameIInv, RfuIInv,
           ReaderIInv, CallIInv, OneFunction', CallsInBodies', NEW t \in Tags,
           event_startElement(t), event_startElement_rfu(t)
    PROVE  CallIInv'
  <1> DEFINE n == Len(open)
  <1>1. /\ SaxTypeOK /\ StreamShape /\ SaxStartElement(t) /\ phase = "unit"
        /\ function_read_state \in 0..5
    BY DEF IInv, TypeOK, event_startElement, SaxStartElement
  <1>2. /\ open \in Seq(Element) /\ open' \in Seq(Element) /\ n \in Nat /\ n >= 1
        /\ DOMAIN open = 1..n /\ DOMAIN open' = 1..n + 1 /\ n \in 1..n
        /\ Len(open) = n /\ Len(open') = n + 1 /\ Top = open[n] /\ Top \in Element
        /\ Top' = Fresh(t) /\ Top' = open'[n + 1]
        /\ \A i \in 1..n : open'[i].tag = open[i].tag
        /\ \A i \in 1..n - 1 : open'[i] = open[i]
    <2>1. Len(open) \in 1..Len(open)
      BY <1>1 DEF SaxTypeOK, StreamShape
    <2> QED
      BY <1>1, <2>1, StartKeepsOpen, Started DEF SaxTypeOK, Top
  <1>3. PICK k \in DOMAIN Grammar[Top.tag] :
            Accepts(Top, k, t) /\ open'[n] = [Top EXCEPT !.slot = k]
    BY <1>1, Started
  <1>4. k # 0 /\ open'[n].slot = k /\ open'[n].name = Top.name
    <2>1. Grammar[Top.tag] \in Seq(Slot)
      BY <1>2, StreamAssumption DEF Element
    <2>2. k # 0
      BY <1>3, <2>1
    <2>3. DOMAIN Top = {"tag", "slot", "text", "name"}
      BY <1>2 DEF Element
    <2> QED
      BY <1>3, <2>2, <2>3
  <1>5. /\ Top.tag # "name"
        /\ Top.tag = "function" =>
              /\ Top.slot = 0 => t = "type"
              /\ Top.slot = 1 => t = "name"
        /\ Top.tag = "call" =>
              /\ Top.slot = 0 => t = "name"
              /\ Top.slot # 0 => t # "name"
    BY <1>2, <1>3, NextInFunction, NextInCall
  <1> HIDE DEF n
  <1>6. /\ UNCHANGED <<flags, fns, fn_id, name_chunk, rfu_terminated>>
        /\ rfu_read_state \in RfuReadStates
        /\ rfu_read_state \notin {"READING_METHOD_NAME", "READING_CALL_NAME"}
    BY <1>5 DEF event_startElement_rfu, RfuIInv, CallIInv, ChunkIsName
  <1>7. /\ SameState /\ CallIsOpen /\ name_chunk = <<>>
        /\ function_read_state = 5 <=> fn_id # NoId
    BY <1>6 DEF ReaderIInv, CallIInv, SameName
  <1>8. rfu_read_state = "WAITING_CALL_NAME" => t = "name" /\ Top.tag = "call"
    BY <1>5, <1>7 DEF CallIsOpen
  <1>9. ASSUME t = "call" PROVE rfu_read_state = "WAITING_METHOD" /\ fn_id # NoId
    <2>1. n + 1 \in DOMAIN open' /\ open'[n + 1].tag = "call"
      BY <1>2, <1>9 DEF Fresh
    <2>2. PICK i \in 1..(n + 1) - 1 : open'[i].tag = "function" /\ open'[i + 1].tag # "type"
      BY <2>1 DEF CallsInBodies
    <2>3. i \in 1..n /\ i \in DOMAIN open /\ open[i].tag = "function"
      BY <1>2, <2>2
    <2>4. ReadSoFar(i)
      BY <2>3 DEF NameIInv, FnsRead
    <2>5. i < n => open[i + 1].tag # "type"
      BY <1>2, <2>2, <2>3
    <2>6. function_read_state = 5
      <3>1. i = n => Top.slot \notin {0, 1}
        BY <1>2, <1>5, <1>9, <2>3
      <3> QED
        BY <1>1, <1>2, <1>5, <2>3, <2>4, <2>5, <3>1 DEF ReadSoFar, n
    <2> QED
      BY <1>6, <1>7, <1>8, <1>9, <2>6 DEF SameState, RfuReadStates
  <1>10. ASSUME t = "name", Top.tag = "call" PROVE rfu_read_state = "WAITING_CALL_NAME"
    <2>1. Top.slot = 0
      BY <1>5, <1>10
    <2> QED
      BY <1>2, <1>10, <2>1 DEF CallIInv, CallsRead
  <1>11. /\ t = "call" => rfu_read_state' = "WAITING_CALL_NAME"
         /\ t = "name" /\ rfu_read_state = "WAITING_CALL_NAME" =>
               rfu_read_state' = "READING_CALL_NAME"
         /\ rfu_read_state' = "WAITING_CALL_NAME" => t = "call"
         /\ rfu_read_state' = "READING_CALL_NAME" => rfu_read_state = "WAITING_CALL_NAME"
         /\ rfu_read_state' \in {"READING_METHOD_NAME", "READING_CALL_NAME"} => t = "name"
    <2>1. RfuStarts(t) \/ RfuStartIgnored(t)
      BY DEF event_startElement_rfu
    <2>2. CASE RfuStarts(t)
      BY <1>6, <1>8, <1>9, <2>2 DEF RfuStarts, RfuReadStates
    <2>3. CASE RfuStartIgnored(t)
      BY <1>6, <1>8, <1>9, <2>3 DEF RfuStartIgnored, RfuReadStates
    <2> QED
      BY <2>1, <2>2, <2>3
  <1>12. ~RfuQuiet' /\ ~rfu_terminated'
    BY <1>6 DEF CallIInv, RfuQuiet
  <1>13. NamesAreLeaves'
    <2> SUFFICES ASSUME NEW i \in 1..n + 1, i < n + 1
                 PROVE  open'[i].tag # "name" /\ (open'[i].tag = "call" => open'[i].slot # 0)
      BY <1>2 DEF NamesAreLeaves
    <2>1. CASE i = n
      BY <1>2, <1>4, <1>5, <2>1
    <2>2. CASE i # n
      <3>1. i \in 1..n - 1 /\ i \in DOMAIN open /\ i < Len(open)
        BY <1>2, <2>2
      <3> QED
        BY <1>2, <3>1 DEF CallIInv, NamesAreLeaves
    <2> QED
      BY <2>1, <2>2
  <1>14. CallsRead'
    <2> SUFFICES ASSUME NEW i \in 1..n + 1, open'[i].tag = "call"
                 PROVE  /\ open'[i].slot = 0 => rfu_read_state' = "WAITING_CALL_NAME"
                        /\ i < n + 1 /\ open'[i + 1].tag = "name" =>
                              rfu_read_state' = "READING_CALL_NAME"
      BY <1>2 DEF CallsRead
    <2>1. CASE i = n + 1
      BY <1>2, <1>11, <2>1 DEF Fresh
    <2>2. CASE i = n
      <3>1. open'[i].slot # 0 /\ Top.tag = "call"
        BY <1>2, <1>4, <2>2
      <3>2. open'[i + 1].tag = t
        BY <1>2, <2>2 DEF Fresh
      <3> QED
        BY <1>10, <1>11, <3>1, <3>2
    <2>3. CASE i \in 1..n - 1
      <3>1. i \in DOMAIN open /\ i < Len(open) /\ open'[i] = open[i] /\ i + 1 \in 1..n
            /\ i + 1 \in DOMAIN open
        BY <1>2, <2>3 DEF n
      <3>2. open'[i].slot # 0
        BY <3>1 DEF CallIInv, NamesAreLeaves
      <3>3. open[i + 1].tag # "name"
        BY <1>2, <1>5, <3>1 DEF CallIInv, NamesAreLeaves, n
      <3> QED
        BY <1>2, <3>1, <3>2, <3>3
    <2> QED
      BY <1>2, <2>1, <2>2, <2>3
  <1>15. ChunkIsName'
    <2>1. rfu_read_state' \in {"READING_METHOD_NAME", "READING_CALL_NAME"} =>
              Top'.tag = "name" /\ name_chunk' = Top'.text
      BY <1>2, <1>6, <1>7, <1>11 DEF Fresh
    <2>2. rfu_read_state' = "READING_CALL_NAME" =>
              Len(open') > 1 /\ open'[Len(open') - 1].tag = "call"
      BY <1>2, <1>8, <1>11
    <2>3. rfu_read_state' \in {"WAITING_CALL_NAME", "READING_CALL_NAME"} => fn_id' # NoId
      BY <1>6, <1>9, <1>11 DEF CallIInv, ChunkIsName
    <2> QED
      BY <2>1, <2>2, <2>3 DEF ChunkIsName
  <1>16. CallerIsOpen'
    <2> SUFFICES ASSUME fn_id # NoId, NEW i \in 1..n + 1, open'[i].tag = "function"
                 PROVE  open'[i].name = fns[fn_id]
      BY <1>2, <1>6 DEF CallerIsOpen
    <2>1. i # n + 1
      <3>1. t = "function" => function_read_state = 0
        BY <1>1, OnlyFunction DEF ReaderIInv, CallIInv
      <3> QED
        BY <1>2, <1>7, <3>1 DEF Fresh
    <2>2. i \in DOMAIN open /\ open[i].tag = "function" /\ i \in 1..n
      BY <1>2, <2>1
    <2>3. open[i].name = fns[fn_id]
      BY <2>2 DEF CallIInv, CallerIsOpen
    <2>4. open'[i].name = open[i].name
      <3>1. i = n \/ i \in 1..n - 1
        BY <1>2, <2>2
      <3> QED
        BY <1>2, <1>4, <3>1
    <2> QED
      BY <2>3, <2>4
  <1> QED
    BY <1>12, <1>13, <1>14, <1>15, <1>16 DEF CallIInv

(* What ends while the reader does what: a function that it knows, or a    *)
(* name that it has gathered exactly if the name is a function's or a      *)
(* callee's.                                                               *)
LEMMA WhatEnds ==
    ASSUME FunctionsAreNamed, CallsAreNamed, IInv, NameIInv, RfuIInv, ReaderIInv, CallIInv,
           OneFunction, TypesApart, NEW t \in Tags, event_endElement(t)
    PROVE  /\ t = "function" => fn_id # NoId /\ Top.name = fns[fn_id]
           /\ t = "name" =>
                 /\ open[Len(open) - 1].tag = "function" <=> rfu_read_state = "READING_METHOD_NAME"
                 /\ open[Len(open) - 1].tag = "call" <=> rfu_read_state = "READING_CALL_NAME"
           /\ rfu_read_state \in {"READING_METHOD_NAME", "READING_CALL_NAME"} =>
                 t = "name" /\ name_chunk = Top.text
           /\ rfu_read_state = "READING_CALL_NAME" => fn_id # NoId
           /\ rfu_read_state # "WAITING_CALL_NAME"
  <1> DEFINE n == Len(open)
  <1>1. /\ SaxTypeOK /\ StreamShape /\ SaxEndElement(t) /\ phase = "unit"
        /\ function_read_state \in 0..5
    BY DEF IInv, TypeOK, event_endElement, SaxEndElement
  <1>2. /\ open \in Seq(Element) /\ DOMAIN open = 1..n /\ n \in Nat /\ n > 1
        /\ Top = open[n] /\ Top.tag = t /\ n \in 1..n /\ n - 1 \in 1..n /\ n - 1 < n
        /\ (n - 1) + 1 = n
    BY <1>1 DEF SaxTypeOK, SaxEndElement, Top
  <1>3. /\ SameState /\ CallIsOpen
        /\ function_read_state = 5 <=> fn_id # NoId
        /\ function_read_state # 0 <=> "function" \in OpenTags
    BY DEF ReaderIInv, CallIInv
  <1>4. /\ CallsRead /\ ChunkIsName /\ CallerIsOpen
    BY DEF CallIInv
  <1>5. ASSUME t = "function" PROVE fn_id # NoId /\ Top.name = fns[fn_id]
    <2>1. fn_id # NoId
      BY <1>3, <1>5, NameIInvEnd
    <2> QED
      BY <1>2, <1>4, <1>5, <2>1 DEF CallerIsOpen
  <1>6. rfu_read_state # "WAITING_CALL_NAME"
    <2> SUFFICES ASSUME rfu_read_state = "WAITING_CALL_NAME" PROVE FALSE
      OBVIOUS
    <2>1. Top.tag = "call" /\ Top.slot = 0 /\ t = "call"
      BY <1>2, <1>3 DEF CallIsOpen
    <2>2. Complete(Top)
      BY <1>1 DEF SaxEndElement
    <2> QED
      BY <2>1, <2>2 DEF Complete, CallsAreNamed
  <1>7. /\ rfu_read_state \in {"READING_METHOD_NAME", "READING_CALL_NAME"} =>
              t = "name" /\ name_chunk = Top.text
        /\ rfu_read_state = "READING_CALL_NAME" => fn_id # NoId /\ open[n - 1].tag = "call"
    BY <1>2, <1>4 DEF ChunkIsName
  <1>8. ASSUME t = "name", open[n - 1].tag = "function"
        PROVE  rfu_read_state = "READING_METHOD_NAME"
    <2>0. PICK i \in 1..n : i = n - 1 /\ i + 1 = n /\ i < n
      BY <1>2
    <2>1. ReadSoFar(i) /\ open[i + 1].tag = "name" /\ Len(open) = n
      BY <1>2, <1>8, <2>0 DEF NameIInv, FnsRead
    <2> HIDE DEF n
    <2>2. function_read_state = 4
      BY <1>1, <2>0, <2>1 DEF ReadSoFar
    <2> QED
      BY <1>3, <2>2 DEF SameState
  <1>9. ASSUME rfu_read_state = "READING_METHOD_NAME" PROVE open[n - 1].tag = "function"
    <2>1. function_read_state = 4
      BY <1>3, <1>9 DEF SameState
    <2>2. PICK i \in 1..n : open[i].tag = "function"
      BY <1>2, <1>3, <2>1 DEF OpenTags
    <2>3. i + 1 = n
      BY <1>2, <2>1, <2>2 DEF NameIInv, FnsRead, ReadSoFar
    <2> HIDE DEF n
    <2>4. i = n - 1
      BY <1>2, <2>2, <2>3
    <2> QED
      BY <2>2, <2>4
  <1>10. ASSUME t = "name", open[n - 1].tag = "call"
         PROVE  rfu_read_state = "READING_CALL_NAME"
    BY <1>2, <1>4, <1>10 DEF CallsRead
  <1> QED
    BY <1>5, <1>6, <1>7, <1>8, <1>9, <1>10

(* What RFU does then.                                                     *)
DefinitionEnds ==
    /\ fns' = WithKey(fns, name_chunk)
    /\ fn_id' = KeyId(fns', name_chunk)
    /\ ownerGraph' = ownerGraph \cup {<<fn_id', unit_id>>}
    /\ UNCHANGED <<callGraph, rfu_statistics>>

CallEnds ==
    /\ fns' = WithKey(fns, name_chunk)
    /\ callGraph' = callGraph \cup {<<fn_id, KeyId(fns', name_chunk)>>}
    /\ UNCHANGED <<ownerGraph, fn_id, rfu_statistics>>

LEMMA WhatRfuDoes ==
    ASSUME FunctionsAreNamed, CallsAreNamed, IInv, NameIInv, RfuIInv, ReaderIInv, CallIInv,
           OneFunction, TypesApart, NEW t \in Tags, event_endElement(t), event_endElement_rfu(t)
    PROVE  /\ UNCHANGED <<flags, rfu_units, unit_id, rfu_terminated>>
           /\ rfu_read_state' \notin
                 {"WAITING_CALL_NAME", "READING_METHOD_NAME", "READING_CALL_NAME"}
           /\ IF t = "function"
              THEN /\ RfuInsert(<<"_">> \o rfu_units[unit_id] \o <<"::">> \o fns[fn_id] \o
                                    <<"()">>,
                                Cardinality(UniqueCalls({fn_id})))
                   /\ fn_id' = NoId
                   /\ UNCHANGED <<fns, ownerGraph, callGraph>>
              ELSE IF t = "name" /\ open[Len(open) - 1].tag = "function" THEN DefinitionEnds
              ELSE IF t = "name" /\ open[Len(open) - 1].tag = "call" THEN CallEnds
              ELSE UNCHANGED <<fns, ownerGraph, callGraph, fn_id, rfu_statistics>>
  <1>1. /\ t = "function" => fn_id # NoId
        /\ t = "name" =>
              /\ open[Len(open) - 1].tag = "function" <=> rfu_read_state = "READING_METHOD_NAME"
              /\ open[Len(open) - 1].tag = "call" <=> rfu_read_state = "READING_CALL_NAME"
        /\ rfu_read_state \in {"READING_METHOD_NAME", "READING_CALL_NAME"} => t = "name"
        /\ rfu_read_state = "READING_CALL_NAME" => fn_id # NoId
        /\ rfu_read_state # "WAITING_CALL_NAME"
    BY WhatEnds
  <1>2. ~RfuQuiet
    BY DEF CallIInv
  <1>3. UNCHANGED <<flags, rfu_units, unit_id>>
    BY DEF event_endElement_rfu
  <1>4. CASE RfuMethodEnds(t)
    BY <1>1, <1>2, <1>3, <1>4 DEF RfuMethodEnds
  <1>5. CASE RfuMethodTypeEnds(t)
    BY <1>1, <1>3, <1>5 DEF RfuMethodTypeEnds
  <1>6. CASE RfuMethodNameEnds(t)
    BY <1>1, <1>3, <1>6 DEF RfuMethodNameEnds, DefinitionEnds
  <1>7. CASE RfuCallNameEnds(t)
    BY <1>1, <1>3, <1>7 DEF RfuCallNameEnds, CallEnds
  <1>8. CASE RfuEndIgnored(t)
    BY <1>1, <1>3, <1>8 DEF RfuEndIgnored
  <1> QED
    BY <1>4, <1>5, <1>6, <1>7, <1>8 DEF event_endElement_rfu

(* An element ends.                                                        *)
LEMMA CallIInvEnd ==
    ASSUME FunctionsAreNamed, CallsAreNamed, IInv, NameIInv, RfuIInv, ReaderIInv, CallIInv,
           OneFunction, TypesApart, NEW t \in Tags, event_endElement(t), event_endElement_rfu(t)
    PROVE  CallIInv'
  <1> DEFINE n == Len(open)
  <1>1. SaxTypeOK /\ StreamShape /\ SaxEndElement(t)
    BY DEF IInv, TypeOK, event_endElement
  <1>2. /\ open \in Seq(Element) /\ open' \in Seq(Element) /\ n \in Nat /\ n > 1
        /\ DOMAIN open = 1..n /\ DOMAIN open' = 1..n - 1
        /\ Len(open) = n /\ Len(open') = n - 1 /\ Top = open[n] /\ Top' = open'[n - 1]
        /\ n - 1 \in 1..n - 1 /\ Top.tag = t
        /\ \A i \in 1..n - 1 : open'[i].tag = open[i].tag
        /\ \A i \in 1..n - 2 : open'[i] = open[i]
        /\ Top' = IF t = "name" /\ open[n - 1].tag = "function"
                  THEN [open[n - 1] EXCEPT !.name = Top.text] ELSE open[n - 1]
    <2>1. Len(open) > 1 /\ Len(open) \in Nat /\ open \in Seq(Element) /\ open' \in Seq(Element)
      <3>1. Len(open) > 1 /\ open \in Seq(Element)
        BY <1>1 DEF SaxTypeOK, SaxEndElement
      <3>2. SaxTypeOK'
        BY <1>1, EndKeepsOpen
      <3> QED
        BY <3>1, <3>2 DEF SaxTypeOK
    <2>2. /\ Len(open') = n - 1 /\ open[n].tag = t
          /\ \A i \in DOMAIN open' : open'[i].tag = open[i].tag
      BY <1>1, EndKeepsOpen
    <2>3. /\ \A i \in 1..n - 2 : open'[i] = open[i]
          /\ Top' = IF t = "name" /\ open[n - 1].tag = "function"
                    THEN [open[n - 1] EXCEPT !.name = Top.text] ELSE open[n - 1]
      BY <1>1, Ended
    <2>4. Top = open[n] /\ Top' = open'[n - 1] /\ Len(open) = n
      BY <2>2 DEF Top
    <2>5. n \in Nat /\ n > 1 /\ DOMAIN open = 1..n
      BY <2>1
    <2> HIDE DEF n
    <2>6. n - 1 \in 1..n - 1 /\ DOMAIN open' = 1..n - 1
      BY <2>1, <2>2, <2>5
    <2> QED
      BY <2>1, <2>2, <2>3, <2>4, <2>5, <2>6
  <1>3. /\ open'[n - 1].slot = open[n - 1].slot
        /\ t = "name" /\ open[n - 1].tag = "function" => open'[n - 1].name = Top.text
        /\ ~(t = "name" /\ open[n - 1].tag = "function") => open'[n - 1] = open[n - 1]
    <2>1. open[n - 1] \in Element
      BY <1>2
    <2>2. \A e \in Element : /\ [e EXCEPT !.name = Top.text].slot = e.slot
                             /\ [e EXCEPT !.name = Top.text].name = Top.text
      BY DEF Element
    <2> HIDE DEF n
    <2> QED
      BY <1>2, <2>1, <2>2
  <1> HIDE DEF n
  <1>4. /\ UNCHANGED <<flags, rfu_terminated>>
        /\ rfu_read_state' \notin {"WAITING_CALL_NAME", "READING_METHOD_NAME", "READING_CALL_NAME"}
    BY WhatRfuDoes
  <1>5. ~RfuQuiet' /\ ~rfu_terminated'
    BY <1>4 DEF CallIInv, RfuQuiet
  <1>6. /\ \A i \in 1..n - 1 : open[i].tag # "name" /\ (open[i].tag = "call" => open[i].slot # 0)
        /\ CallerIsOpen
    BY <1>2 DEF CallIInv, NamesAreLeaves
  <1>7. \A i \in 1..n - 1 : /\ open'[i].slot = open[i].slot /\ (i # n - 1 => i \in 1..n - 2)
                            /\ i \in 1..n
    <2>1. \A i \in 1..n - 1 : (i = n - 1 \/ i \in 1..n - 2) /\ i \in 1..n
      BY <1>2
    <2> QED
      BY <1>2, <1>3, <2>1
  <1>8. NamesAreLeaves' /\ CallsRead'
    BY <1>2, <1>6, <1>7 DEF NamesAreLeaves, CallsRead
  <1>9. ChunkIsName'
    BY <1>4 DEF ChunkIsName
  <1>10. CASE t = "function"
    <2>1. fn_id' = NoId
      BY <1>10, WhatRfuDoes
    <2> QED
      BY <1>5, <1>8, <1>9, <2>1 DEF CallIInv, CallerIsOpen
  <1>11. CASE t = "name" /\ open[n - 1].tag = "function"
    <2>1. DefinitionEnds
      BY <1>11, WhatRfuDoes DEF n
    <2>2. fns'[fn_id'] = name_chunk
      BY <2>1, FunctionAdded DEF DefinitionEnds
    <2>3. name_chunk = Top.text
      BY <1>11, WhatEnds DEF n
    <2>4. \A i \in 1..n - 1 : open'[i].tag = "function" => i = n - 1
      BY <1>2, <1>11 DEF OneFunction
    <2>5. CallerIsOpen'
      BY <1>2, <1>3, <1>11, <2>2, <2>3, <2>4 DEF CallerIsOpen
    <2> QED
      BY <1>5, <1>8, <1>9, <2>5 DEF CallIInv
  <1>12. CASE t # "function" /\ ~(t = "name" /\ open[n - 1].tag = "function")
    <2>1. fn_id' = fn_id /\ (fn_id # NoId => fns'[fn_id] = fns[fn_id])
      <3>1. CallEnds \/ UNCHANGED <<fns, fn_id>>
        BY <1>12, WhatRfuDoes DEF n
      <3>2. CallEnds => fn_id' = fn_id /\ (fn_id # NoId => fns'[fn_id] = fns[fn_id])
        BY FunctionAdded DEF CallEnds, RfuIInv
      <3> QED
        BY <3>1, <3>2
    <2>2. \A i \in 1..n - 1 : open'[i] = open[i] /\ i \in DOMAIN open
      BY <1>2, <1>3, <1>7, <1>12
    <2>3. CallerIsOpen'
      BY <1>2, <1>6, <2>1, <2>2 DEF CallerIsOpen
    <2> QED
      BY <1>5, <1>8, <1>9, <2>3 DEF CallIInv
  <1> QED
    BY <1>10, <1>11, <1>12

(* Characters are gathered while a name is read.                           *)
LEMMA CallIInvCharacters ==
    ASSUME IInv, CallIInv, NEW ch \in Text, event_charactersUnit(ch),
           event_charactersUnit_rfu(ch)
    PROVE  CallIInv'
  <1> DEFINE n == Len(open)
  <1>1. SaxTypeOK /\ StreamShape /\ SaxCharacters(ch)
    BY DEF IInv, TypeOK, event_charactersUnit
  <1>2. /\ open \in Seq(Element) /\ n \in Nat /\ n \in 1..n
        /\ DOMAIN open = 1..n /\ DOMAIN open' = 1..n /\ Len(open) = n /\ Len(open') = n
        /\ Top = open[n] /\ Top' = open'[n] /\ Top \in Element
        /\ \A i \in 1..n - 1 : open'[i] = open[i]
        /\ Top' = [Top EXCEPT !.text = Append(Top.text, ch)]
    <2>1. Len(open) \in 1..Len(open) /\ open \in Seq(Element)
      BY <1>1 DEF SaxTypeOK, StreamShape, SaxCharacters
    <2>2. Len(open') = Len(open) /\ DOMAIN open' = DOMAIN open
      BY <2>1, <1>1 DEF SaxCharacters
    <2>3. /\ \A i \in 1..Len(open) - 1 : open'[i] = open[i]
          /\ Top' = [Top EXCEPT !.text = Append(Top.text, ch)]
      BY <1>1, Grown
    <2>4. Top = open[Len(open)] /\ Top' = open'[Len(open')]
      BY DEF Top
    <2> HIDE DEF n
    <2>5. n = Len(open)
      BY DEF n
    <2> QED
      BY <2>1, <2>2, <2>3, <2>4, <2>5
  <1> HIDE DEF n
  <1>3. /\ Top'.tag = Top.tag /\ Top'.slot = Top.slot /\ Top'.name = Top.name
        /\ Top'.text = Append(Top.text, ch)
    <2>1. \A e \in Element : LET grown == [e EXCEPT !.text = Append(e.text, ch)] IN
              /\ grown.tag = e.tag /\ grown.slot = e.slot /\ grown.name = e.name
              /\ grown.text = Append(e.text, ch)
      BY DEF Element
    <2> QED
      BY <1>2, <2>1
  <1>4. \A i \in 1..n : /\ open'[i].tag = open[i].tag /\ open'[i].slot = open[i].slot
                        /\ open'[i].name = open[i].name
    <2> SUFFICES ASSUME NEW i \in 1..n
                 PROVE  /\ open'[i].tag = open[i].tag /\ open'[i].slot = open[i].slot
                        /\ open'[i].name = open[i].name
      OBVIOUS
    <2>1. i = n \/ i \in 1..n - 1
      BY <1>2
    <2> QED
      BY <1>2, <1>3, <2>1
  <1>5. /\ UNCHANGED <<flags, rfu_read_state, fns, fn_id, rfu_terminated>>
        /\ rfu_read_state \in {"READING_METHOD_NAME", "READING_CALL_NAME"} =>
              name_chunk' = Append(name_chunk, ch)
    BY DEF event_charactersUnit_rfu
  <1>6. ~RfuQuiet' /\ ~rfu_terminated' /\ NamesAreLeaves /\ CallsRead /\ ChunkIsName
        /\ CallerIsOpen
    BY <1>5 DEF CallIInv, RfuQuiet
  <1>7. NamesAreLeaves' /\ CallsRead'
    <2>1. \A i \in 1..n : i < n => i + 1 \in 1..n
      BY <1>2
    <2> QED
      BY <1>2, <1>4, <1>5, <1>6, <2>1 DEF NamesAreLeaves, CallsRead
  <1>8. ChunkIsName'
    <2>1. n > 1 => open'[n - 1].tag = open[n - 1].tag
      <3>1. n > 1 => n - 1 \in 1..n
        BY <1>2
      <3> QED
        BY <1>4, <3>1
    <2> QED
      BY <1>2, <1>3, <1>5, <1>6, <2>1 DEF ChunkIsName
  <1>9. CallerIsOpen'
    BY <1>2, <1>4, <1>5, <1>6 DEF CallerIsOpen
  <1> QED
    BY <1>6, <1>7, <1>8, <1>9 DEF CallIInv

(* The document, the root and the units start and end.                     *)
LEMMA CallIInvOutside ==
    ASSUME IInv, ReaderIInv, CallIInv,
           \/ event_startDocument /\ event_startDocument_rfu
           \/ event_startRoot /\ UNCHANGED rfuVars
           \/ \E filename \in Filenames :
                 event_startUnit(filename) /\ event_startUnit_rfu(filename)
           \/ event_endUnit /\ event_endUnit_rfu
           \/ event_endRoot /\ UNCHANGED rfuVars
           \/ event_endDocument /\ event_endDocument_rfu
    PROVE  CallIInv'
  <1>1. /\ phase # "unit" \/ SaxEndUnit
        /\ OpenTags' \in {{}, {"unit"}}
    <2>1. [Next]_vars
      BY DEF Next
    <2>2. StreamShape /\ StreamShape'
      BY <2>1, StepIInv DEF IInv
    <2>3. \/ SaxStartUnit /\ phase = "root"
          \/ phase' # "unit" /\ (phase # "unit" \/ SaxEndUnit)
      BY DEF event_startDocument, event_startRoot, event_startUnit, event_endUnit, event_endRoot,
             event_endDocument, SaxStartDocument, SaxStartRoot, SaxStartUnit, SaxEndUnit,
             SaxEndRoot, SaxEndDocument, SaxMove
    <2>4. phase' # "unit" => OpenTags' = {}
      BY <2>2 DEF StreamShape, OpenTags
    <2>5. SaxStartUnit => OpenTags' = {"unit"}
      BY <2>2, NothingOpen
    <2> QED
      BY <2>3, <2>4, <2>5
  <1>2. /\ rfu_read_state \notin {"READING_METHOD_NAME", "WAITING_CALL_NAME", "READING_CALL_NAME"}
        /\ fn_id = NoId
    BY <1>1, ReadersIdle DEF CallIInv
  <1>3. /\ UNCHANGED <<flags, rfu_read_state, rfu_terminated>> /\ fn_id' = NoId
    BY <1>2 DEF CallIInv, event_startDocument_rfu, event_startUnit_rfu, event_endUnit_rfu,
                event_endDocument_rfu, rfuVars
  <1>4. ~RfuQuiet' /\ ~rfu_terminated'
    BY <1>3 DEF CallIInv, RfuQuiet
  <1>5. \A i \in DOMAIN open' : open'[i].tag = "unit"
    BY <1>1 DEF OpenTags
  <1>6. NamesAreLeaves' /\ CallsRead' /\ CallerIsOpen'
    BY <1>3, <1>5 DEF NamesAreLeaves, CallsRead, CallerIsOpen
  <1>7. ChunkIsName'
    BY <1>2, <1>3 DEF ChunkIsName
  <1> QED
    BY <1>4, <1>6, <1>7 DEF CallIInv

(* Every step keeps the reader with the calls, and so with the             *)
(* dispatcher's reader, for no function is part of a name.                 *)
LEMMA CallIInvStep ==
    ASSUME FunctionsAreNamed, CallsAreNamed, CallsHaveOneName, IInv, NameIInv, RfuIInv,
           ReaderIInv, CallIInv, OneFunction, OneFunction', TypesApart, CallsInBodies',
           [RfuNext]_<<vars, rfuVars>>
    PROVE  CallIInv' /\ ReaderIInv'
  <1>1. CallIInv'
    <2>1. CASE RfuNext
      BY <2>1, CallIInvStart, CallIInvEnd, CallIInvCharacters, CallIInvOutside DEF RfuNext
    <2>2. CASE UNCHANGED <<vars, rfuVars>>
      BY <2>2
      DEF vars, saxVars, rfuVars, CallIInv, RfuQuiet, NamesAreLeaves, CallsRead, ChunkIsName,
          CallerIsOpen, Top
    <2> QED
      BY <2>1, <2>2
  <1>2. FunctionsOutsideNames'
    <2>1. [RfuNext]_<<vars, rfuVars>> => [Next]_vars
      BY DEF RfuNext, Next
    <2>2. open' \in Seq(Element)
      BY <2>1, StepIInv DEF IInv, TypeOK, SaxTypeOK
    <2>3. \A i, j \in DOMAIN open' : i < j => i < Len(open')
      BY <2>2
    <2> QED
      BY <1>1, <2>3 DEF CallIInv, NamesAreLeaves, FunctionsOutsideNames
  <1> QED
    BY <1>1, <1>2, ReadersStep

-----------------------------------------------------------------------------
(* The matrices hold what the promise does.                                *)

(* A key that is added is the only new one, and the keys stay different.   *)
LEMMA KeyAdded ==
    ASSUME NEW S, NEW cset \in Seq(S), NEW key \in S,
           \A i, j \in 1..Len(cset) : cset[i] = cset[j] => i = j,
           NEW new, new = WithKey(cset, key)
    PROVE  /\ \A i, j \in 1..Len(new) : new[i] = new[j] => i = j
           /\ \A i \in 1..Len(new) : i \in 1..Len(cset) \/ i = KeyId(new, key)
  <1>1. CASE Contains(cset, key)
    BY <1>1 DEF WithKey
  <1>2. CASE ~Contains(cset, key)
    <2>1. /\ new = Append(cset, key) /\ Len(new) = Len(cset) + 1 /\ Len(cset) \in Nat
          /\ \A i \in 1..Len(cset) : new[i] = cset[i] /\ cset[i] # key
          /\ new[Len(new)] = key
      BY <1>2 DEF WithKey, Contains
    <2>2. \A i \in 1..Len(new) : i \in 1..Len(cset) \/ i = Len(new)
      BY <2>1
    <2>3. \A i, j \in 1..Len(new) : new[i] = new[j] => i = j
      BY <2>1, <2>2
    <2>4. KeyId(new, key) \in 1..Len(new) /\ new[KeyId(new, key)] = key
      BY KeyFound
    <2>5. Len(new) \in 1..Len(new)
      BY <2>1
    <2>6. KeyId(new, key) = Len(new)
      BY <2>1, <2>3, <2>4, <2>5
    <2> QED
      BY <2>2, <2>3, <2>6
  <1> QED
    BY <1>1, <1>2

(* The promise as RFU keeps it. *)
Defined   == {<<rfu_units[o[2]], fns[o[1]]>> : o \in ownerGraph}
Called    == {<<fns[e[1]], fns[e[2]]>> : e \in callGraph}
File      == IF phase = "unit" /\ ~rfu_terminated THEN rfu_units[unit_id] ELSE <<>>
Responses == [i \in DOMAIN rfu_statistics |-> rfu_statistics[i].value]

(* A row that is inserted is a row more and a response more.               *)
LEMMA RfuRow ==
    ASSUME NEW S, rfu_statistics \in Seq(S), NEW key, NEW val, RfuInsert(key, val)
    PROVE  /\ \E R : rfu_statistics' \in Seq(R)
           /\ Responses' = Append(Responses, val)
  <1> DEFINE row == [key |-> <<"RFU">> \o key, value |-> val]
  <1>1. rfu_statistics' = Append(rfu_statistics, row)
    BY DEF RfuInsert
  <1>2. row.value = val
    OBVIOUS
  <1> HIDE DEF row
  <1>3. rfu_statistics \in Seq(S \cup {row}) /\ row \in S \cup {row}
    OBVIOUS
  <1>4. rfu_statistics' \in Seq(S \cup {row})
    BY <1>1, <1>3
  <1>5. Responses' = Append(Responses, val)
    BY <1>1, <1>2, <1>3, <1>4 DEF Responses
  <1> QED
    BY <1>4, <1>5

(* Functions that are added to the ChunkSet leave what is held the same.   *)
LEMMA HeldKept ==
    ASSUME RfuIInv, UNCHANGED <<rfu_units, ownerGraph, callGraph>>,
           \A i \in Functions : fns'[i] = fns[i]
    PROVE  Defined' = Defined /\ Called' = Called
  <1>1. /\ \A o \in ownerGraph : o[1] \in Functions
        /\ \A e \in callGraph : e[1] \in Functions /\ e[2] \in Functions
    BY DEF RfuIInv
  <1> HIDE DEF Functions
  <1>2. Defined' = Defined
    BY <1>1 DEF Defined
  <1>3. Called' = Called
    BY <1>1 DEF Called
  <1> QED
    BY <1>2, <1>3

(* The end of a function's name adds its definition, and that of a         *)
(* callee's the call.                                                      *)
LEMMA HeldGrow ==
    ASSUME RfuIInv, UNCHANGED <<rfu_units, unit_id>>
    PROVE  /\ DefinitionEnds =>
                 Defined' = Defined \cup {<<rfu_units[unit_id], name_chunk>>} /\ Called' = Called
           /\ CallEnds /\ fn_id # NoId =>
                 Defined' = Defined /\ Called' = Called \cup {<<fns[fn_id], name_chunk>>}
  <1>1. /\ \A o \in ownerGraph : o[1] \in Functions
        /\ \A e \in callGraph : e[1] \in Functions /\ e[2] \in Functions
        /\ fn_id # NoId => fn_id \in Functions
    BY DEF RfuIInv
  <1> HIDE DEF Functions
  <1>2. ASSUME DefinitionEnds
        PROVE  Defined' = Defined \cup {<<rfu_units[unit_id], name_chunk>>} /\ Called' = Called
    <2>1. /\ fns'[fn_id'] = name_chunk /\ \A i \in Functions : fns'[i] = fns[i]
      BY <1>2, FunctionAdded DEF DefinitionEnds
    <2>2. ownerGraph' = ownerGraph \cup {<<fn_id', unit_id>>} /\ callGraph' = callGraph
      BY <1>2 DEF DefinitionEnds
    <2>3. Defined' = {<<rfu_units[o[2]], fns'[o[1]]>> : o \in ownerGraph'}
      BY DEF Defined
    <2>4. <<fn_id', unit_id>>[1] = fn_id' /\ <<fn_id', unit_id>>[2] = unit_id
      OBVIOUS
    <2>5. Defined' = {<<rfu_units[o[2]], fns'[o[1]]>> : o \in ownerGraph}
                        \cup {<<rfu_units[unit_id], fns'[fn_id']>>}
      BY <2>2, <2>3, <2>4
    <2>6. {<<rfu_units[o[2]], fns'[o[1]]>> : o \in ownerGraph} = Defined
      BY <1>1, <2>1 DEF Defined
    <2>7. Called' = Called
      BY <1>1, <2>1, <2>2 DEF Called
    <2> QED
      BY <2>1, <2>5, <2>6, <2>7
  <1>3. ASSUME CallEnds, fn_id # NoId
        PROVE  Defined' = Defined /\ Called' = Called \cup {<<fns[fn_id], name_chunk>>}
    <2> DEFINE callee == KeyId(fns', name_chunk)
    <2>1. /\ fns'[callee] = name_chunk /\ \A i \in Functions : fns'[i] = fns[i]
      BY <1>3, FunctionAdded DEF CallEnds
    <2>2. callGraph' = callGraph \cup {<<fn_id, callee>>} /\ ownerGraph' = ownerGraph
      BY <1>3 DEF CallEnds
    <2> HIDE DEF callee
    <2>3. Called' = {<<fns'[e[1]], fns'[e[2]]>> : e \in callGraph'}
      BY DEF Called
    <2>4. <<fn_id, callee>>[1] = fn_id /\ <<fn_id, callee>>[2] = callee
      OBVIOUS
    <2>5. Called' = {<<fns'[e[1]], fns'[e[2]]>> : e \in callGraph}
                        \cup {<<fns'[fn_id], fns'[callee]>>}
      BY <2>2, <2>3, <2>4
    <2>6. {<<fns'[e[1]], fns'[e[2]]>> : e \in callGraph} = Called
      BY <1>1, <2>1 DEF Called
    <2>7. Defined' = Defined
      BY <1>1, <2>1, <2>2 DEF Defined
    <2> QED
      BY <1>1, <1>3, <2>1, <2>5, <2>6, <2>7
  <1> QED
    BY <1>2, <1>3

(* What is counted when a function ends, a unit ends and the document ends *)
(* is what the promise counts.                                             *)
LEMMA CountsOfFunction ==
    ASSUME RfuIInv, GraphIInv, fn_id # NoId
    PROVE  Graph!Cardinality(Graph!Involved({fns[fn_id]})) = Cardinality(UniqueCalls({fn_id}))
  <1>1. {fn_id} \in SUBSET Functions
    BY DEF RfuIInv
  <1>2. NamesOf({fn_id}) = {fns[fn_id]}
    BY DEF NamesOf
  <1>3. /\ UniqueCalls({fn_id}) \in SUBSET Functions
        /\ Graph!Involved(NamesOf({fn_id})) = NamesOf(UniqueCalls({fn_id}))
    BY <1>1, InvolvedNames
  <1>4. Graph!Cardinality(NamesOf(UniqueCalls({fn_id}))) = Cardinality(UniqueCalls({fn_id}))
    BY <1>3, AsManyNames
  <1> QED
    BY <1>2, <1>3, <1>4, Zenon

LEMMA CountsOfUnit ==
    ASSUME RfuIInv, GraphIInv, unit_id \in Units,
           NEW own, own = {d[2] : d \in {e \in Defined : e[1] = rfu_units[unit_id]}}
    PROVE  Graph!Cardinality(Graph!Involved(own)) =
               Cardinality(UniqueCalls(Sources(ownerGraph, unit_id)))
  <1> DEFINE ids == Sources(ownerGraph, unit_id)
  <1>1. ownerGraph \subseteq Functions \X Units
    BY DEF RfuIInv
  <1>2. \A i, j \in Units : rfu_units[i] = rfu_units[j] => i = j
    BY DEF GraphIInv
  <1> HIDE DEF Functions, Units
  <1>3. \A i : i \in ids <=> i \in Functions /\ <<i, unit_id>> \in ownerGraph
    <2>1. ASSUME NEW i \in ids PROVE i \in Functions /\ <<i, unit_id>> \in ownerGraph
      <3>1. PICK o \in ownerGraph : o[2] = unit_id /\ i = o[1]
        BY DEF Sources
      <3>2. o = <<o[1], o[2]>> /\ o[1] \in Functions
        BY <1>1
      <3> QED
        BY <3>1, <3>2
    <2>2. ASSUME NEW i \in Functions, <<i, unit_id>> \in ownerGraph PROVE i \in ids
      <3>1. <<i, unit_id>>[1] = i /\ <<i, unit_id>>[2] = unit_id
        OBVIOUS
      <3>2. <<i, unit_id>> \in {e \in ownerGraph : e[2] = unit_id}
        BY <2>2, <3>1
      <3> QED
        BY <3>1, <3>2 DEF Sources
    <2> HIDE DEF ids
    <2> QED
      BY <2>1, <2>2
  <1> HIDE DEF ids
  <1>4. ids \in SUBSET Functions
    BY <1>3
  <1>5. own = NamesOf(ids)
    <2>1. ASSUME NEW x \in own PROVE x \in NamesOf(ids)
      <3>1. PICK d \in Defined : d[1] = rfu_units[unit_id] /\ x = d[2]
        OBVIOUS
      <3>2. PICK o \in ownerGraph : d = <<rfu_units[o[2]], fns[o[1]]>>
        BY DEF Defined
      <3>3. o = <<o[1], o[2]>> /\ o[1] \in Functions /\ o[2] \in Units
        BY <1>1
      <3>4. d[1] = rfu_units[o[2]] /\ d[2] = fns[o[1]]
        BY <3>2
      <3>5. o[2] = unit_id
        BY <1>2, <3>1, <3>3, <3>4
      <3>6. o[1] \in ids
        BY <1>3, <3>3, <3>5
      <3> QED
        BY <3>1, <3>4, <3>6 DEF NamesOf
    <2>2. ASSUME NEW i \in ids PROVE fns[i] \in own
      <3>1. <<i, unit_id>> \in ownerGraph
        BY <1>3
      <3>2. <<i, unit_id>>[1] = i /\ <<i, unit_id>>[2] = unit_id
        OBVIOUS
      <3>3. <<rfu_units[unit_id], fns[i]>> \in Defined
        BY <3>1, <3>2 DEF Defined
      <3>4. <<rfu_units[unit_id], fns[i]>>[1] = rfu_units[unit_id]
            /\ <<rfu_units[unit_id], fns[i]>>[2] = fns[i]
        OBVIOUS
      <3> QED
        BY <3>3, <3>4
    <2> QED
      BY <2>1, <2>2 DEF NamesOf
  <1>6. /\ UniqueCalls(ids) \in SUBSET Functions
        /\ Graph!Involved(NamesOf(ids)) = NamesOf(UniqueCalls(ids))
    BY <1>4, InvolvedNames
  <1>7. Graph!Cardinality(NamesOf(UniqueCalls(ids))) = Cardinality(UniqueCalls(ids))
    BY <1>6, AsManyNames
  <1>8. Graph!Cardinality(Graph!Involved(own)) = Cardinality(UniqueCalls(ids))
    BY <1>5, <1>6, <1>7, Zenon
  <1> QED
    BY <1>8 DEF ids

LEMMA CountsOfDocument ==
    ASSUME RfuIInv, GraphIInv
    PROVE  Graph!Cardinality(Graph!Names) = Len(fns)
  <1>1. Graph!Names = NamesOf(Functions)
    BY NamesAndCalls
  <1>2. Graph!Cardinality(NamesOf(Functions)) = Cardinality(Functions)
    BY AsManyNames
  <1>3. Cardinality(1..Len(fns)) = Len(fns)
    <2>1. Len(fns) \in Nat
      BY DEF RfuIInv
    <2>2. Cardinality(1..Len(fns)) = IF 1 > Len(fns) THEN 0 ELSE Len(fns) - 1 + 1
      BY <2>1, FS_Interval
    <2> QED
      BY <2>1, <2>2
  <1> QED
    BY <1>1, <1>2, <1>3 DEF Functions

(* The stream of the promise is the stream of the program.                 *)
LEMMA GraphSameStream ==
    /\ SaxInit <=> Graph!SaxInit
    /\ SaxStartDocument <=> Graph!SaxStartDocument
    /\ SaxStartRoot <=> Graph!SaxStartRoot
    /\ SaxStartUnit <=> Graph!SaxStartUnit
    /\ \A t : SaxStartElement(t) <=> Graph!SaxStartElement(t)
    /\ \A ch : SaxCharacters(ch) <=> Graph!SaxCharacters(ch)
    /\ \A t : SaxEndElement(t) <=> Graph!SaxEndElement(t)
    /\ SaxEndUnit <=> Graph!SaxEndUnit
    /\ SaxEndRoot <=> Graph!SaxEndRoot
    /\ SaxEndDocument <=> Graph!SaxEndDocument
    /\ Text = Graph!Text /\ Top = Graph!Top
  BY DEF SaxInit, SaxMove, SaxStartDocument, SaxStartRoot, SaxStartUnit, SaxStartElement,
         SaxCharacters, SaxEndElement, SaxEndUnit, SaxEndRoot, SaxEndDocument, Text,
         Top, Fresh, Accepts, Complete,
         Graph!SaxInit, Graph!SaxMove, Graph!SaxStartDocument, Graph!SaxStartRoot,
         Graph!SaxStartUnit, Graph!SaxStartElement, Graph!SaxCharacters,
         Graph!SaxEndElement, Graph!SaxEndUnit, Graph!SaxEndRoot,
         Graph!SaxEndDocument, Graph!Text, Graph!Top, Graph!Fresh,
         Graph!Accepts, Graph!Complete

-----------------------------------------------------------------------------
(* The steps of the promise.                                               *)

GraphStep == [Graph!GraphNext]_<<Graph!saxVars, Graph!graphVars>>

(* An element starts, or characters are read: the promise is silent.       *)
LEMMA ReadingIsSilent ==
    ASSUME GraphIInv, CallIInv,
           \/ \E t \in Tags : event_startElement(t) /\ event_startElement_rfu(t)
           \/ \E ch \in Text : event_charactersUnit(ch) /\ event_charactersUnit_rfu(ch)
    PROVE  GraphIInv' /\ GraphStep
  <1>1. /\ phase = "unit" /\ phase' = "unit"
        /\ UNCHANGED <<flags, rfu_units, fns, ownerGraph, callGraph, unit_id, rfu_statistics,
                       rfu_terminated>>
    BY DEF event_startElement, SaxStartElement, event_charactersUnit, SaxCharacters,
           event_startElement_rfu, event_charactersUnit_rfu
  <1>2. GraphIInv'
    BY <1>1 DEF GraphIInv, Functions, Units
  <1>3. UNCHANGED Graph!graphVars
    BY <1>1 DEF Graph!graphVars, RfuSimple
  <1>4. Graph!Silent
    <2>1. \/ \E t \in Tags : Graph!SaxStartElement(t)
          \/ \E ch \in Graph!Text : Graph!SaxCharacters(ch)
      BY GraphSameStream DEF event_startElement, event_charactersUnit
    <2> QED
      BY <1>3, <2>1 DEF Graph!Silent
  <1> QED
    BY <1>2, <1>4 DEF GraphStep, Graph!GraphNext

(* What RFU leaves alone keeps its part of the invariant: only rows are     *)
(* added, and the document has begun.                                      *)
LEMMA SameGraph ==
    ASSUME GraphIInv, UNCHANGED <<fns, rfu_units, ownerGraph, callGraph>>,
           \E R : rfu_statistics' \in Seq(R), phase' # "start"
    PROVE  GraphIInv'
  <1>1. Functions' = Functions /\ Units' = Units
    BY DEF Functions, Units
  <1>2. /\ \A i, j \in Functions' : fns'[i] = fns'[j] => i = j
        /\ \A i, j \in Units' : rfu_units'[i] = rfu_units'[j] => i = j
    BY <1>1 DEF GraphIInv
  <1>3. \A i \in Functions' :
            \/ \E u \in Units' : <<i, u>> \in ownerGraph'
            \/ \E f \in Functions' : <<f, i>> \in callGraph'
    BY <1>1 DEF GraphIInv
  <1> QED
    BY <1>2, <1>3 DEF GraphIInv

(* An element ends: names complete definitions and calls, a function is    *)
(* reported, and the rest is silent.                                       *)
LEMMA EndIsPromised ==
    ASSUME FunctionsAreNamed, CallsAreNamed, IInv, NameIInv, RfuIInv, RfuIInv', ReaderIInv,
           CallIInv, GraphIInv, OneFunction, TypesApart, NEW t \in Tags, event_endElement(t),
           event_endElement_rfu(t)
    PROVE  GraphIInv' /\ GraphStep
  <1> DEFINE tag == open[Len(open) - 1].tag
  <1>1. /\ SaxEndElement(t) /\ phase = "unit" /\ phase' = "unit" /\ ~rfu_terminated
        /\ UNCHANGED <<flags, rfu_units, unit_id, rfu_terminated>> /\ Units' = Units
    BY WhatRfuDoes DEF event_endElement, SaxEndElement, CallIInv, Units
  <1>2. Graph!SaxEndElement(t)
    BY <1>1, GraphSameStream
  <1>3. File = rfu_units[unit_id] /\ File' = File /\ RfuSimple' = RfuSimple
    BY <1>1 DEF File, RfuSimple
  <1>4. PICK S : rfu_statistics \in Seq(S)
    BY DEF GraphIInv
  <1>5. CASE t = "function"
    <2>1. /\ fn_id # NoId /\ Top.name = fns[fn_id]
      BY <1>5, WhatEnds
    <2>2. /\ RfuInsert(<<"_">> \o rfu_units[unit_id] \o <<"::">> \o fns[fn_id] \o <<"()">>,
                       Cardinality(UniqueCalls({fn_id})))
          /\ UNCHANGED <<fns, ownerGraph, callGraph>>
      BY <1>5, WhatRfuDoes
    <2>3. /\ \E R : rfu_statistics' \in Seq(R)
          /\ Responses' = Append(Responses, Cardinality(UniqueCalls({fn_id})))
      BY <1>4, <2>2, RfuRow
    <2>4. GraphIInv'
      BY <1>1, <2>2, <2>3, SameGraph
    <2>5. Defined' = Defined /\ Called' = Called
      BY <1>1, <2>2 DEF Defined, Called
    <2>6. Responses' = Append(Responses, Graph!Cardinality(Graph!Involved({Graph!Top.name})))
      BY <2>1, <2>3, CountsOfFunction, GraphSameStream
    <2>7. Graph!FinishFunction
      BY <1>2, <1>3, <1>5, <2>5, <2>6 DEF Graph!FinishFunction, File, Defined, Called, Responses
    <2> QED
      BY <2>4, <2>7 DEF GraphStep, Graph!GraphNext
  <1>6. CASE t = "name"
    <2>1. /\ tag = "function" <=> rfu_read_state = "READING_METHOD_NAME"
          /\ tag = "call" <=> rfu_read_state = "READING_CALL_NAME"
          /\ rfu_read_state = "READING_CALL_NAME" => fn_id # NoId
          /\ tag \in {"function", "call"} => name_chunk = Top.text
      BY <1>6, WhatEnds
    <2>2. /\ tag = "function" => DefinitionEnds
          /\ tag = "call" => CallEnds
          /\ tag \notin {"function", "call"} =>
                UNCHANGED <<fns, ownerGraph, callGraph, rfu_statistics>>
      BY <1>6, WhatRfuDoes
    <2> HIDE DEF tag
    <2>3. rfu_statistics' = rfu_statistics
      BY <2>2 DEF DefinitionEnds, CallEnds
    <2>4. /\ Defined' = Defined \cup
                 (IF tag = "function" THEN {<<File, Top.text>>} ELSE {})
          /\ tag # "call" => Called' = Called
          /\ tag = "call" => Called' = Called \cup {<<fns[fn_id], Top.text>>}
      <3>1. CASE tag = "function"
        BY <1>1, <1>3, <2>1, <2>2, <3>1, HeldGrow
      <3>2. CASE tag = "call"
        BY <1>1, <1>3, <2>1, <2>2, <3>2, HeldGrow
      <3>3. CASE tag \notin {"function", "call"}
        <4>1. Defined' = Defined /\ Called' = Called
          BY <1>1, <2>2, <3>3 DEF Defined, Called
        <4> QED
          BY <3>3, <4>1
      <3> QED
        BY <3>1, <3>2, <3>3
    <2>5. tag = "call" => Graph!Caller = fns[fn_id]
      <3> SUFFICES ASSUME tag = "call" PROVE Graph!Caller = fns[fn_id]
        OBVIOUS
      <3>1. fn_id # NoId
        BY <2>1
      <3>2. \A i \in DOMAIN open : open[i].tag = "function" => open[i].name = fns[fn_id]
        BY <3>1 DEF CallIInv, CallerIsOpen
      <3>3. \E i \in DOMAIN open : open[i].tag = "function"
        <4>1. function_read_state # 0
          BY <1>1, <3>1 DEF ReaderIInv
        <4>2. "function" \in OpenTags
          BY <1>1, <4>1 DEF ReaderIInv
        <4> QED
          BY <4>2 DEF OpenTags
      <3> QED
        BY <3>2, <3>3 DEF Graph!Caller
    <2>6. Graph!Name
      <3>1. /\ Defined' = Defined \cup
                   (IF open[Len(open) - 1].tag = "function" THEN {<<File, Graph!Top.text>>} ELSE {})
            /\ Called' = Called \cup
                   (IF open[Len(open) - 1].tag = "call" THEN {<<Graph!Caller, Graph!Top.text>>} ELSE {})
        BY <2>4, <2>5, GraphSameStream DEF tag
      <3>2. Responses' = Responses
        BY <2>3 DEF Responses
      <3> QED
        BY <1>2, <1>3, <1>6, <3>1, <3>2 DEF Graph!Name, File, Defined, Called, Responses
    <2>7. GraphIInv'
      <3>1. CASE tag \notin {"function", "call"}
        BY <1>1, <1>4, <2>2, <3>1, SameGraph
      <3>2. CASE tag \in {"function", "call"}
        <4> DEFINE id == KeyId(fns', name_chunk)
        <4>1. fns' = WithKey(fns, name_chunk) /\ fns \in Seq(Seq(Text)) /\ name_chunk \in Seq(Text)
          BY <2>2, <3>2 DEF DefinitionEnds, CallEnds, RfuIInv
        <4>2. /\ \A i, j \in Functions' : fns'[i] = fns'[j] => i = j
              /\ \A i \in Functions' : i \in Functions \/ i = id
          <5>1. \A i, j \in 1..Len(fns) : fns[i] = fns[j] => i = j
            BY DEF GraphIInv, Functions
          <5>2. /\ \A i, j \in 1..Len(fns') : fns'[i] = fns'[j] => i = j
                /\ \A i \in 1..Len(fns') : i \in 1..Len(fns) \/ i = KeyId(fns', name_chunk)
            BY <4>1, <5>1, KeyAdded
          <5> QED
            BY <5>2 DEF Functions
        <4>3. \A i \in Functions : i \in Functions'
          BY <4>1, FunctionAdded
        <4>4. /\ ownerGraph \subseteq ownerGraph' /\ callGraph \subseteq callGraph'
              /\ \/ \E u \in Units : <<id, u>> \in ownerGraph'
                 \/ \E f \in Functions' : <<f, id>> \in callGraph'
          <5>1. CASE tag = "function"
            <6>1. <<id, unit_id>> \in ownerGraph' /\ ownerGraph \subseteq ownerGraph'
                  /\ callGraph' = callGraph
              BY <2>2, <5>1 DEF DefinitionEnds
            <6>2. ownerGraph' \subseteq Functions' \X Units'
              BY DEF RfuIInv
            <6> HIDE DEF id
            <6>3. unit_id \in Units
              BY <1>1, <6>1, <6>2
            <6> QED
              BY <6>1, <6>3
          <5>2. CASE tag = "call"
            <6>1. <<fn_id, id>> \in callGraph' /\ callGraph \subseteq callGraph'
                  /\ ownerGraph' = ownerGraph
              BY <2>2, <5>2 DEF CallEnds
            <6>2. callGraph' \subseteq Functions' \X Functions'
              BY DEF RfuIInv
            <6> HIDE DEF id
            <6>3. fn_id \in Functions'
              BY <6>1, <6>2
            <6> QED
              BY <6>1, <6>3
          <5> QED
            BY <3>2, <5>1, <5>2
        <4> HIDE DEF id
        <4>5. \A i \in Functions' :
                  \/ \E u \in Units' : <<i, u>> \in ownerGraph'
                  \/ \E f \in Functions' : <<f, i>> \in callGraph'
          <5> SUFFICES ASSUME NEW i \in Functions'
                       PROVE  \/ \E u \in Units' : <<i, u>> \in ownerGraph'
                              \/ \E f \in Functions' : <<f, i>> \in callGraph'
            OBVIOUS
          <5>1. CASE i = id
            BY <1>1, <4>4, <5>1
          <5>2. CASE i \in Functions
            <6>1. \/ \E u \in Units : <<i, u>> \in ownerGraph
                  \/ \E f \in Functions : <<f, i>> \in callGraph
              BY <5>2 DEF GraphIInv
            <6> QED
              BY <1>1, <4>3, <4>4, <6>1
          <5> QED
            BY <4>2, <5>1, <5>2
        <4>6. \A i, j \in Units' : rfu_units'[i] = rfu_units'[j] => i = j
          BY <1>1 DEF GraphIInv
        <4> QED
          BY <1>1, <1>4, <2>3, <4>2, <4>5, <4>6 DEF GraphIInv
      <3> QED
        BY <3>1, <3>2
    <2> QED
      BY <2>6, <2>7 DEF GraphStep, Graph!GraphNext
  <1>7. CASE t \notin {"function", "name"}
    <2>1. UNCHANGED <<fns, ownerGraph, callGraph, rfu_statistics>>
      BY <1>7, WhatRfuDoes
    <2>2. GraphIInv'
      BY <1>1, <2>1 DEF GraphIInv, Functions, Units
    <2>3. UNCHANGED Graph!graphVars
      BY <1>1, <2>1 DEF Graph!graphVars, RfuSimple
    <2>4. Graph!Silent
      BY <1>2, <1>7, <2>3 DEF Graph!Silent
    <2> QED
      BY <2>2, <2>4 DEF GraphStep, Graph!GraphNext
  <1> QED
    BY <1>5, <1>6, <1>7

(* A unit starts, with a file of its own.                                  *)
LEMMA UnitStartIsPromised ==
    ASSUME RfuIInv, RfuIInv', CallIInv, CallIInv', GraphIInv, NEW filename \in Filenames,
           event_startUnit(filename), event_startUnit_rfu(filename)
    PROVE  GraphIInv' /\ GraphStep
  <1>1. /\ SaxStartUnit /\ phase = "root" /\ phase' = "unit"
        /\ rfu_units' = WithKey(rfu_units, <<filename>>)
        /\ unit_id' = KeyId(rfu_units', <<filename>>)
        /\ ~rfu_terminated /\ ~rfu_terminated'
        /\ UNCHANGED <<flags, fns, ownerGraph, callGraph, rfu_statistics>>
    BY DEF event_startUnit, SaxStartUnit, event_startUnit_rfu, CallIInv
  <1>2. <<filename>> \in Seq(Piece) /\ rfu_units \in Seq(Seq(Piece))
    <2>1. filename \in Piece
      BY DEF Piece
    <2> QED
      BY <2>1 DEF RfuIInv, Strings
  <1>3. /\ \A i \in Units : rfu_units'[i] = rfu_units[i] /\ i \in Units'
        /\ rfu_units'[unit_id'] = <<filename>>
        /\ \A i, j \in Units' : rfu_units'[i] = rfu_units'[j] => i = j
    <2> DEFINE key == <<filename>>
    <2>1. /\ rfu_units \in Seq(Seq(Piece)) /\ key \in Seq(Piece)
          /\ rfu_units' = WithKey(rfu_units, key) /\ unit_id' = KeyId(rfu_units', key)
      BY <1>1, <1>2
    <2> HIDE DEF key
    <2>2. \A i, j \in 1..Len(rfu_units) : rfu_units[i] = rfu_units[j] => i = j
      BY DEF GraphIInv, Units
    <2>3. /\ rfu_units' \in Seq(Seq(Piece))
          /\ Len(rfu_units) <= Len(rfu_units')
          /\ \A i \in 1..Len(rfu_units) : rfu_units'[i] = rfu_units[i]
      BY <2>1, KeysKept
    <2>4. rfu_units'[unit_id'] = key
      BY <2>1, KeyFound
    <2>5. \A i, j \in 1..Len(rfu_units') : rfu_units'[i] = rfu_units'[j] => i = j
      BY <2>1, <2>2, KeyAdded
    <2>6. \A i \in Units : i \in Units'
      BY <2>1, <2>3 DEF Units
    <2> QED
      BY <2>3, <2>4, <2>5, <2>6 DEF Units, key
  <1>6. Functions' = Functions
    BY <1>1 DEF Functions
  <1>7. GraphIInv'
    <2>1. \A i \in Functions :
              \/ \E u \in Units' : <<i, u>> \in ownerGraph
              \/ \E f \in Functions : <<f, i>> \in callGraph
      BY <1>3 DEF GraphIInv
    <2>2. /\ \A i, j \in Functions : fns[i] = fns[j] => i = j
          /\ \E S : rfu_statistics \in Seq(S)
      BY DEF GraphIInv
    <2> QED
      BY <1>1, <1>3, <1>6, <2>1, <2>2 DEF GraphIInv
  <1>8. Defined' = Defined /\ Called' = Called
    <2>1. \A o \in ownerGraph : o[2] \in Units
      BY DEF RfuIInv
    <2>2. Defined' = Defined
      BY <1>1, <1>3, <2>1 DEF Defined
    <2> QED
      BY <1>1, <2>2 DEF Called
  <1>9. File' = <<filename>> /\ Responses' = Responses /\ RfuSimple' = RfuSimple
    BY <1>1, <1>3 DEF File, Responses, RfuSimple
  <1>10. Graph!StartUnit
    BY <1>1, <1>8, <1>9, GraphSameStream
    DEF Graph!StartUnit, File, Defined, Called, Responses
  <1> QED
    BY <1>7, <1>10 DEF GraphStep, Graph!GraphNext

(* A unit ends, with the count of its own functions.                       *)
LEMMA UnitEndIsPromised ==
    ASSUME RfuIInv, CallIInv, GraphIInv, event_endUnit, event_endUnit_rfu
    PROVE  GraphIInv' /\ GraphStep
  <1>1. /\ SaxEndUnit /\ phase = "unit" /\ phase' = "root" /\ ~rfu_terminated
        /\ RfuInsert(<<"_">> \o rfu_units[unit_id],
                     Cardinality(UniqueCalls(Sources(ownerGraph, unit_id))))
        /\ UNCHANGED <<flags, rfu_units, fns, ownerGraph, callGraph, unit_id, rfu_terminated>>
    BY DEF event_endUnit, SaxEndUnit, event_endUnit_rfu, CallIInv
  <1>2. unit_id \in Units
    BY <1>1 DEF RfuIInv
  <1>3. PICK S : rfu_statistics \in Seq(S)
    BY DEF GraphIInv
  <1>4. /\ \E R : rfu_statistics' \in Seq(R)
        /\ Responses' = Append(Responses,
                               Cardinality(UniqueCalls(Sources(ownerGraph, unit_id))))
    BY <1>1, <1>3, RfuRow
  <1>5. GraphIInv'
    BY <1>1, <1>4, SameGraph
  <1>6. /\ Defined' = Defined /\ Called' = Called /\ RfuSimple' = RfuSimple
        /\ File = rfu_units[unit_id] /\ File' = <<>>
    BY <1>1 DEF Defined, Called, RfuSimple, File
  <1>7. Graph!FinishUnit
    <2> DEFINE own == {d[2] : d \in {e \in Defined : e[1] = File}}
    <2>1. own = {d[2] : d \in {e \in Defined : e[1] = rfu_units[unit_id]}}
      BY <1>6
    <2> HIDE DEF own
    <2>2. Graph!Cardinality(Graph!Involved(own)) =
              Cardinality(UniqueCalls(Sources(ownerGraph, unit_id)))
      BY <1>2, <2>1, CountsOfUnit
    <2>3. Responses' = Append(Responses, Graph!Cardinality(Graph!Involved(own)))
      BY <1>4, <2>2
    <2> QED
      BY <1>1, <1>6, <2>3, GraphSameStream
      DEF Graph!FinishUnit, File, Defined, Called, Responses, own
  <1> QED
    BY <1>5, <1>7 DEF GraphStep, Graph!GraphNext

(* The document ends, with the count of all functions.                     *)
LEMMA DocumentEndIsPromised ==
    ASSUME RfuIInv, CallIInv, GraphIInv, event_endDocument, event_endDocument_rfu
    PROVE  GraphIInv' /\ GraphStep
  <1>1. /\ SaxEndDocument /\ phase = "closed" /\ phase' = "end"
        /\ RfuInsert(<<>>, Len(fns))
        /\ UNCHANGED <<flags, rfu_units, fns, ownerGraph, callGraph>>
    BY DEF event_endDocument, SaxEndDocument, SaxMove, event_endDocument_rfu, CallIInv
  <1>2. PICK S : rfu_statistics \in Seq(S)
    BY DEF GraphIInv
  <1>3. /\ \E R : rfu_statistics' \in Seq(R)
        /\ Responses' = Append(Responses, Len(fns))
    BY <1>1, <1>2, RfuRow
  <1>4. GraphIInv'
    BY <1>1, <1>3, SameGraph
  <1>5. /\ Defined' = Defined /\ Called' = Called /\ RfuSimple' = RfuSimple
        /\ File' = File
    BY <1>1 DEF Defined, Called, RfuSimple, File
  <1>6. Responses' = Append(Responses, Graph!Cardinality(Graph!Names))
    BY <1>3, CountsOfDocument
  <1>7. Graph!FinishDocument
    BY <1>1, <1>5, <1>6, GraphSameStream
    DEF Graph!FinishDocument, File, Defined, Called, Responses
  <1> QED
    BY <1>4, <1>7 DEF GraphStep, Graph!GraphNext

(* The document starts with nothing known, and the root starts and ends.   *)
LEMMA OutsideIsSilent ==
    ASSUME RfuIInv, CallIInv, GraphIInv,
           \/ event_startDocument /\ event_startDocument_rfu
           \/ event_startRoot /\ UNCHANGED rfuVars
           \/ event_endRoot /\ UNCHANGED rfuVars
    PROVE  GraphIInv' /\ GraphStep
  <1>1. /\ Graph!SaxStartDocument \/ Graph!SaxStartRoot \/ Graph!SaxEndRoot
        /\ phase \notin {"unit"} /\ phase' \notin {"start", "unit"}
    BY GraphSameStream
    DEF event_startDocument, event_startRoot, event_endRoot, SaxStartDocument, SaxStartRoot,
        SaxEndRoot, SaxMove
  <1>2. GraphIInv' /\ UNCHANGED <<RfuSimple, Defined, Called, Responses>>
    <2>1. CASE event_startDocument /\ event_startDocument_rfu
      <3>1. /\ fns = <<>> /\ rfu_units = <<>> /\ rfu_statistics = <<>>
        BY <2>1 DEF GraphIInv, event_startDocument, SaxStartDocument, SaxMove
      <3>2. Functions = {} /\ Units = {}
        BY <3>1 DEF Functions, Units
      <3>3. ownerGraph = {} /\ callGraph = {}
        BY <3>2 DEF RfuIInv
      <3>4. /\ fns' = <<>> /\ rfu_units' = <<>> /\ rfu_statistics' = <<>>
            /\ ownerGraph' = {} /\ callGraph' = {} /\ flags' = flags
        BY <2>1 DEF CallIInv, event_startDocument_rfu
      <3>5. Functions' = {} /\ Units' = {}
        BY <3>4 DEF Functions, Units
      <3>6. <<>> \in Seq({})
        OBVIOUS
      <3>7. GraphIInv'
        BY <3>4, <3>5, <3>6 DEF GraphIInv
      <3> QED
        BY <3>1, <3>3, <3>4, <3>7 DEF RfuSimple, Defined, Called, Responses
    <2>2. CASE UNCHANGED rfuVars
      <3>1. UNCHANGED <<flags, rfu_units, fns, ownerGraph, callGraph, rfu_statistics>>
        BY <2>2 DEF rfuVars
      <3>2. \E R : rfu_statistics' \in Seq(R)
        BY <3>1 DEF GraphIInv
      <3>3. GraphIInv'
        BY <1>1, <3>1, <3>2, SameGraph
      <3> QED
        BY <3>1, <3>3 DEF RfuSimple, Defined, Called, Responses
    <2> QED
      BY <2>1, <2>2
  <1>3. UNCHANGED Graph!graphVars
    <2>1. File = <<>> /\ File' = <<>>
      BY <1>1 DEF File
    <2> QED
      BY <1>2, <2>1 DEF Graph!graphVars, File, Defined, Called, Responses
  <1>4. Graph!Silent
    BY <1>1, <1>3 DEF Graph!Silent
  <1> QED
    BY <1>2, <1>4 DEF GraphStep, Graph!GraphNext

(* Every step is a step of the promise, or leaves it alone.                *)
LEMMA RfuStepRefines ==
    ASSUME FunctionsAreNamed, CallsAreNamed, CallsHaveOneName
    PROVE  /\ IInv /\ NameIInv /\ RfuIInv /\ RfuIInv' /\ ReaderIInv /\ CallIInv /\ GraphIInv
           /\ OneFunction /\ OneFunction' /\ TypesApart /\ CallsInBodies'
           /\ [RfuNext]_<<vars, rfuVars>>
           => ReaderIInv' /\ CallIInv' /\ GraphIInv' /\ GraphStep
  <1> SUFFICES ASSUME IInv, NameIInv, RfuIInv, RfuIInv', ReaderIInv, CallIInv, GraphIInv,
                      OneFunction, OneFunction', TypesApart, CallsInBodies',
                      [RfuNext]_<<vars, rfuVars>>
               PROVE  ReaderIInv' /\ CallIInv' /\ GraphIInv' /\ GraphStep
    OBVIOUS
  <1>1. ReaderIInv' /\ CallIInv'
    BY CallIInvStep
  <1>2. CASE RfuNext
    BY <1>1, <1>2, ReadingIsSilent, EndIsPromised, UnitStartIsPromised, UnitEndIsPromised,
       DocumentEndIsPromised, OutsideIsSilent
    DEF RfuNext
  <1>3. CASE UNCHANGED <<vars, rfuVars>>
    <2>1. /\ UNCHANGED <<phase, open, units, elements>>
          /\ UNCHANGED <<flags, rfu_units, fns, ownerGraph, callGraph, unit_id, rfu_statistics,
                         rfu_terminated>>
      BY <1>3 DEF vars, saxVars, rfuVars
    <2>2. GraphIInv'
      BY <2>1 DEF GraphIInv, Functions, Units
    <2>3. UNCHANGED <<Graph!saxVars, Graph!graphVars>>
      BY <2>1 DEF Graph!saxVars, Graph!graphVars, RfuSimple
    <2> QED
      BY <1>1, <2>2, <2>3 DEF GraphStep
  <1> QED
    BY <1>2, <1>3

(* RFU sees the runs of the dispatcher.                                    *)
LEMMA RfuRunsDispatcher == RfuSpec => Spec
  <1>1. RfuSystemInit => Init
    BY DEF RfuSystemInit
  <1>2. [RfuNext]_<<vars, rfuVars>> => [Next]_vars
    BY DEF RfuNext, Next
  <1> QED
    BY <1>1, <1>2, PTL DEF RfuSpec, Spec

(* RFU, shown and on code where functions have a type and a name, calls    *)
(* start with the one name of what they call and are made by functions,    *)
(* no function is inside another and no type inside a function's type:     *)
(* its two matrices hold the definitions and the calls of the files, by    *)
(* name, and its passes count exactly the functions that a function, a     *)
(* unit or the document involves, whatever calls what.                     *)
THEOREM RfuReportsCallGraph ==
    /\ FunctionsAreNamed /\ CallsAreNamed /\ CallsHaveOneName /\ RfuIsShown
    /\ RfuSpec /\ []OneFunction /\ []TypesApart /\ []CallsInBodies
    => RfuImplementsCallGraph
  <1>1. SUFFICES ASSUME FunctionsAreNamed, CallsAreNamed, CallsHaveOneName, RfuIsShown
                 PROVE  RfuSpec /\ []OneFunction /\ []TypesApart /\ []CallsInBodies
                        => RfuImplementsCallGraph
    OBVIOUS
  <1>2. RfuSystemInit => ReaderIInv /\ CallIInv /\ GraphIInv
    <2> SUFFICES ASSUME RfuSystemInit PROVE ReaderIInv /\ CallIInv /\ GraphIInv
      OBVIOUS
    <2>1. /\ phase = "start" /\ open = <<>> /\ function_read_state = 0 /\ flags \in FlagSets
          /\ rfu_read_state = "WAITING_METHOD" /\ rfu_units = <<>> /\ fns = <<>> /\ fn_id = NoId
          /\ name_chunk = <<>> /\ rfu_statistics = <<>> /\ rfu_terminated = FALSE
      BY DEF RfuSystemInit, Init, SaxInit, RfuInit
    <2>2. ReaderIInv
      BY <2>1 DEF ReaderIInv, SameState, CallIsOpen, SameName, OpenTags
    <2>3. CallIInv
      BY <1>1, <2>1 DEF RfuIsShown, CallIInv, RfuQuiet, NamesAreLeaves, CallsRead, ChunkIsName,
                        CallerIsOpen
    <2>4. Functions = {} /\ Units = {} /\ <<>> \in Seq({})
      BY <2>1 DEF Functions, Units
    <2>5. GraphIInv
      BY <2>1, <2>4 DEF GraphIInv
    <2> QED
      BY <2>2, <2>3, <2>5
  <1>3. RfuSystemInit => Graph!GraphInit
    BY GraphSameStream DEF RfuSystemInit, Init, SaxInit, RfuInit, Graph!GraphInit, RfuSimple
  <1>4. /\ IInv /\ NameIInv /\ RfuIInv /\ RfuIInv' /\ ReaderIInv /\ CallIInv /\ GraphIInv
        /\ OneFunction /\ OneFunction' /\ TypesApart /\ CallsInBodies'
        /\ [RfuNext]_<<vars, rfuVars>>
        => /\ ReaderIInv' /\ CallIInv' /\ GraphIInv'
           /\ [Graph!GraphNext]_<<Graph!saxVars, Graph!graphVars>>
    BY <1>1, RfuStepRefines DEF GraphStep
  <1> QED
    BY <1>1, <1>2, <1>3, <1>4, RfuRunsDispatcher, Invariance, NameInvariance, RfuInvariance, PTL
    DEF RfuSpec, RfuImplementsCallGraph, Graph!GraphSpec

-----------------------------------------------------------------------------
(* The open elements.                                                      *)

(* A simple statement is open inside a function.                           *)
StatementInFunction ==
    \E i, j \in DOMAIN open :
        i < j /\ open[i].tag = "function" /\ open[j].tag \in AmsSimple

(* A statement that starts in a function stays open in it.                 *)
LEMMA Push ==
    ASSUME SaxTypeOK, StreamShape, NEW t \in Tags, SaxStartElement(t)
    PROVE  /\ phase = "unit" /\ phase' = "unit"
           /\ OpenTags' = OpenTags \cup {t}
           /\ StatementInFunction => StatementInFunction'
           /\ "function" \in OpenTags /\ t \in AmsSimple => StatementInFunction'
  <1>1. /\ Len(open) \in Nat /\ DOMAIN open = 1..Len(open)
        /\ Len(open') = Len(open) + 1 /\ DOMAIN open' = 1..Len(open')
        /\ \A i \in DOMAIN open : open'[i].tag = open[i].tag
        /\ open'[Len(open')].tag = t
    BY StartKeepsOpen DEF SaxTypeOK
  <1>2. OpenTags' = OpenTags \cup {t}
    BY OpenedTag
  <1>3. StatementInFunction => StatementInFunction'
    BY <1>1 DEF StatementInFunction
  <1>4. ASSUME "function" \in OpenTags, t \in AmsSimple PROVE StatementInFunction'
    <2>1. PICK i \in DOMAIN open : open[i].tag = "function"
      BY <1>4 DEF OpenTags
    <2>2. /\ i \in DOMAIN open' /\ Len(open') \in DOMAIN open' /\ i < Len(open')
          /\ open'[i].tag = "function" /\ open'[Len(open')].tag \in AmsSimple
      BY <1>1, <1>4, <2>1
    <2> QED
      BY <2>2 DEF StatementInFunction
  <1>5. phase = "unit" /\ phase' = "unit"
    BY DEF SaxStartElement
  <1> QED
    BY <1>2, <1>3, <1>4, <1>5

(* It is only gone when a statement ends.                                  *)
LEMMA Pop ==
    ASSUME SaxTypeOK, StreamShape, NEW t \in Tags, SaxEndElement(t)
    PROVE  /\ phase = "unit" /\ phase' = "unit"
           /\ OpenTags = OpenTags' \cup {t}
           /\ StatementInFunction /\ t \notin AmsSimple => StatementInFunction'
           /\ StatementInFunction /\ t # "function" => "function" \in OpenTags'
  <1>1. /\ Len(open) \in Nat /\ DOMAIN open = 1..Len(open)
        /\ Len(open') = Len(open) - 1 /\ DOMAIN open' = 1..Len(open')
        /\ \A i \in DOMAIN open' : open'[i].tag = open[i].tag
        /\ open[Len(open)].tag = t /\ Len(open) \in DOMAIN open
    <2>1. Len(open) > 1
      BY DEF SaxEndElement
    <2> QED
      BY <2>1, EndKeepsOpen DEF SaxTypeOK
  <1>2. OpenTags = OpenTags' \cup {t}
    BY ClosedTag
  <1>3. ASSUME StatementInFunction, t \notin AmsSimple PROVE StatementInFunction'
    <2>1. PICK i \in DOMAIN open, j \in DOMAIN open :
              i < j /\ open[i].tag = "function" /\ open[j].tag \in AmsSimple
      BY <1>3 DEF StatementInFunction
    <2>2. j # Len(open)
      BY <1>1, <1>3, <2>1
    <2>3. i \in DOMAIN open' /\ j \in DOMAIN open'
      BY <1>1, <2>1, <2>2
    <2> QED
      BY <1>1, <2>1, <2>3 DEF StatementInFunction
  <1>4. ASSUME StatementInFunction, t # "function" PROVE "function" \in OpenTags'
    BY <1>2, <1>4 DEF StatementInFunction, OpenTags
  <1>5. phase = "unit" /\ phase' = "unit"
    BY DEF SaxEndElement
  <1> QED
    BY <1>2, <1>3, <1>4, <1>5

(* Character data opens and closes nothing.                                *)
LEMMA SameOpen ==
    ASSUME SaxTypeOK, StreamShape, NEW ch \in Text, SaxCharacters(ch)
    PROVE  /\ phase = "unit" /\ phase' = "unit"
           /\ OpenTags' = OpenTags
           /\ StatementInFunction => StatementInFunction'
  <1>1. /\ DOMAIN open' = DOMAIN open
        /\ \A i \in DOMAIN open : open'[i].tag = open[i].tag
    BY CharactersKeepOpen DEF SaxTypeOK
  <1>2. OpenTags' = OpenTags
    BY SameTags
  <1>3. StatementInFunction => StatementInFunction'
    BY <1>1 DEF StatementInFunction
  <1>4. phase = "unit" /\ phase' = "unit"
    BY DEF SaxCharacters
  <1> QED
    BY <1>2, <1>3, <1>4

-----------------------------------------------------------------------------
(* SLOC: what its state says about the open elements.                      *)

(* Starting an element keeps SlocStateSound: the reader enters a method or *)
(* a statement only with the element that just started.                    *)
LEMMA SlocStarts ==
    ASSUME SaxTypeOK, StreamShape, SlocStateSound, sloc_state \in SlocStates,
           NEW t \in Tags, SaxStartElement(t), event_startElement_sloc(t)
    PROVE  SlocStateSound' /\ sloc_state' \in SlocStates
  <1>1. phase = "unit" /\ phase' = "unit" /\ OpenTags' = OpenTags \cup {t}
    BY Push
  <1>2. CASE SlocFunction(t)
    BY <1>1, <1>2 DEF SlocFunction, SlocStateSound, SlocStates
  <1>3. CASE SlocUnitStatement(t)
    BY <1>1, <1>3 DEF SlocUnitStatement, SlocStateSound, SlocStates
  <1>4. CASE SlocMethodStatement(t)
    BY <1>1, <1>4 DEF SlocMethodStatement, SlocStateSound, SlocStates
  <1>5. CASE UNCHANGED sloc_state
    BY <1>1, <1>5 DEF SlocStateSound
  <1> QED
    BY <1>2, <1>3, <1>4, <1>5 DEF event_startElement_sloc, SlocMethodBlock, SlocNoLine

(* Ending an element keeps SlocStateSound: with a simple statement the     *)
(* reader leaves the statement, with a function it leaves the method, and  *)
(* other elements leave open what the state speaks of.                     *)
LEMMA SlocEnds ==
    ASSUME SaxTypeOK, StreamShape, SlocStateSound, sloc_state \in SlocStates,
           NEW t \in Tags, SaxEndElement(t), event_endElement_sloc(t)
    PROVE  SlocStateSound' /\ sloc_state' \in SlocStates
  <1>1. phase = "unit" /\ phase' = "unit" /\ OpenTags = OpenTags' \cup {t}
    BY Pop
  <1>2. CASE SlocFunctionEnds(t)
    BY <1>1, <1>2 DEF SlocFunctionEnds, SlocStateSound, SlocStates
  <1>3. CASE SlocStatementEnds(t)
    BY <1>1, <1>3 DEF SlocStatementEnds, SlocStateSound, SlocStates, SlocSimple
  <1>4. CASE SlocOtherEnds(t)
    BY <1>1, <1>4 DEF SlocOtherEnds, SlocStateSound
  <1> QED
    BY <1>2, <1>3, <1>4 DEF event_endElement_sloc

(* Outside units the reader waits, and it does so from the unit's end.     *)
LEMMA SlocOutside ==
    ASSUME StreamShape, SlocStateSound, sloc_state \in SlocStates,
           phase' # "unit",
           \/ event_startDocument_sloc
           \/ event_endUnit_sloc
           \/ phase # "unit" /\ UNCHANGED sloc_state
    PROVE  SlocStateSound' /\ sloc_state' \in SlocStates
  BY DEF SlocStateSound, SlocStates, event_startDocument_sloc, event_endUnit_sloc

-----------------------------------------------------------------------------
(* AMS: what its state says about the open elements, and what its arrays   *)
(* hold.                                                                   *)

(* A method is read only while a function is open, a statement only while  *)
(* a simple statement is open inside one.                                  *)
AmsReadsOpen ==
    /\ ams_read_state \in {"WAITING_METHOD", "READING_METHOD", "READING_STATEMENT"}
    /\ ams_read_state = "READING_METHOD" => "function" \in OpenTags
    /\ ams_read_state = "READING_STATEMENT" => StatementInFunction

(* The method that is counted and whose size is not recorded yet.          *)
Pending == IF ams_read_state = "WAITING_METHOD" THEN 0 ELSE 1

AmsCounts ==
    /\ method_size \in Nat
    /\ method_count_unit \in Nat /\ method_count_overall \in Nat
    /\ Pending <= method_count_unit /\ method_count_unit <= method_count_overall
    /\ phase = "start" => method_count_unit = 0

(* The arrays hold a size for each method counted and not pending, and the *)
(* unit's array those at the end of the document's.                        *)
AmsArrays ==
    /\ ms_overall_list \in Seq(Int) /\ ms_unit_list \in Seq(Int)
    /\ method_count_overall - Pending <= Len(ms_overall_list)
    /\ \A i \in 1..(method_count_overall - Pending) : ms_overall_list[i] \in Nat
    /\ \A i \in 1..(method_count_unit - Pending) :
          /\ i <= Len(ms_unit_list)
          /\ ms_unit_list[i] = ms_overall_list[method_count_overall - method_count_unit + i]

AmsSound == AmsReadsOpen /\ AmsCounts /\ AmsArrays

(* MsWrite writes one cell and keeps the others.                           *)
LEMMA MsWriteCell ==
    ASSUME NEW list \in Seq(Int), NEW n \in Nat \ {0}, NEW size \in Nat
    PROVE  LET written == MsWrite(list, n, size) IN
           /\ written \in Seq(Int)
           /\ n <= Len(written) /\ Len(list) <= Len(written)
           /\ written[n] = size
           /\ \A i \in 1..Len(list) : i # n => written[i] = list[i]
  <1> DEFINE len == IF n > Len(list) THEN n ELSE Len(list)
             cell(i) == IF i = n THEN size ELSE IF i \in DOMAIN list THEN list[i] ELSE Garbage
  <1>1. len \in Nat /\ n <= len /\ Len(list) <= len /\ DOMAIN list = 1..Len(list)
    OBVIOUS
  <1>2. \A i \in 1..len : cell(i) \in Int
    BY <1>1 DEF Garbage
  <1>3. MsWrite(list, n, size) = [i \in 1..len |-> cell(i)]
    BY DEF MsWrite
  <1> HIDE DEF len
  <1>4. /\ [i \in 1..len |-> cell(i)] \in Seq(Int)
        /\ Len([i \in 1..len |-> cell(i)]) = len
    <2> HIDE DEF cell
    <2> QED
      BY <1>1, <1>2
  <1> QED
    BY <1>1, <1>3, <1>4

(* The method that ends is the last one counted: its size goes to the cell *)
(* after those that are filled, in both arrays.                            *)
LEMMA AmsRecords ==
    ASSUME AmsSound, NEW t, AmsMethodEnds(t), phase' # "start",
           UNCHANGED <<method_count_unit, method_count_overall, method_size>>
    PROVE  AmsCounts' /\ AmsArrays' /\ ams_read_state' = "WAITING_METHOD"
  <1>1. /\ Pending = 1 /\ Pending' = 0
        /\ method_count_unit \in Nat \ {0} /\ method_count_overall \in Nat \ {0}
        /\ method_count_unit <= method_count_overall /\ method_size \in Nat
    BY DEF AmsMethodEnds, AmsSound, AmsCounts, Pending
  <1>2. AmsCounts'
    BY <1>1 DEF AmsCounts
  <1>3. /\ ms_overall_list' \in Seq(Int)
        /\ method_count_overall <= Len(ms_overall_list')
        /\ Len(ms_overall_list) <= Len(ms_overall_list')
        /\ ms_overall_list'[method_count_overall] = method_size
        /\ \A i \in 1..Len(ms_overall_list) :
              i # method_count_overall => ms_overall_list'[i] = ms_overall_list[i]
    BY <1>1, MsWriteCell DEF AmsMethodEnds, AmsSound, AmsArrays
  <1>4. /\ ms_unit_list' \in Seq(Int)
        /\ method_count_unit <= Len(ms_unit_list')
        /\ Len(ms_unit_list) <= Len(ms_unit_list')
        /\ ms_unit_list'[method_count_unit] = method_size
        /\ \A i \in 1..Len(ms_unit_list) :
              i # method_count_unit => ms_unit_list'[i] = ms_unit_list[i]
    BY <1>1, MsWriteCell DEF AmsMethodEnds, AmsSound, AmsArrays
  <1>5. /\ ms_overall_list \in Seq(Int) /\ ms_unit_list \in Seq(Int)
        /\ method_count_overall - 1 <= Len(ms_overall_list)
        /\ \A i \in 1..(method_count_overall - 1) : ms_overall_list[i] \in Nat
        /\ \A i \in 1..(method_count_unit - 1) :
              /\ i <= Len(ms_unit_list)
              /\ ms_unit_list[i] =
                    ms_overall_list[method_count_overall - method_count_unit + i]
    BY <1>1 DEF AmsSound, AmsArrays
  <1>6. ASSUME NEW i \in 1..method_count_overall PROVE ms_overall_list'[i] \in Nat
    <2>1. CASE i = method_count_overall
      BY <1>1, <1>3, <2>1
    <2>2. CASE i # method_count_overall
      <3>1. i \in 1..(method_count_overall - 1) /\ i \in 1..Len(ms_overall_list)
        BY <1>1, <1>5, <2>2
      <3> QED
        BY <1>3, <1>5, <2>2, <3>1
    <2> QED
      BY <2>1, <2>2
  <1>7. ASSUME NEW i \in 1..method_count_unit
        PROVE  /\ i <= Len(ms_unit_list')
               /\ ms_unit_list'[i] =
                     ms_overall_list'[method_count_overall - method_count_unit + i]
    <2> DEFINE k == method_count_overall - method_count_unit + i
    <2>1. CASE i = method_count_unit
      <3>1. k = method_count_overall
        BY <1>1, <2>1
      <3> QED
        BY <1>1, <1>3, <1>4, <2>1, <3>1
    <2>2. CASE i # method_count_unit
      <3>1. i \in 1..(method_count_unit - 1) /\ i <= Len(ms_unit_list)
            /\ ms_unit_list[i] = ms_overall_list[k]
        BY <1>1, <1>5, <2>2
      <3>2. k \in 1..Len(ms_overall_list) /\ k # method_count_overall
        BY <1>1, <1>5, <2>2
      <3>3. i \in 1..Len(ms_unit_list) /\ i <= Len(ms_unit_list')
        BY <1>4, <1>5, <3>1
      <3>4. ms_unit_list'[i] = ms_unit_list[i] /\ ms_overall_list'[k] = ms_overall_list[k]
        BY <1>3, <1>4, <2>2, <3>2, <3>3
      <3> QED
        BY <3>1, <3>3, <3>4
    <2> QED
      BY <2>1, <2>2
  <1>8. AmsArrays'
    <2>1. method_count_overall' - Pending' = method_count_overall
          /\ method_count_unit' - Pending' = method_count_unit
      BY <1>1
    <2> QED
      BY <1>3, <1>4, <1>6, <1>7, <2>1 DEF AmsArrays
  <1> QED
    BY <1>2, <1>8 DEF AmsMethodEnds

(* Elements that start: a function is counted, and pending, only when the  *)
(* reader waits for one.                                                   *)
LEMMA AmsStarts ==
    ASSUME SaxTypeOK, StreamShape, AmsSound,
           NEW t \in Tags, SaxStartElement(t), event_startElement_ams(t)
    PROVE  AmsSound'
  <1>1. /\ phase = "unit" /\ phase' = "unit" /\ OpenTags' = OpenTags \cup {t}
        /\ StatementInFunction => StatementInFunction'
        /\ "function" \in OpenTags /\ t \in AmsSimple => StatementInFunction'
    BY Push
  <1>2. UNCHANGED <<ms_unit_list, ms_overall_list>>
    BY DEF event_startElement_ams
  <1>3. CASE AmsMethod(t)
    BY <1>1, <1>2, <1>3 DEF AmsMethod, AmsSound, AmsReadsOpen, AmsCounts, AmsArrays, Pending
  <1>4. CASE AmsStatement(t)
    BY <1>1, <1>2, <1>4
    DEF AmsStatement, AmsSound, AmsReadsOpen, AmsCounts, AmsArrays, Pending
  <1>5. CASE AmsCompound(t)
    BY <1>1, <1>2, <1>5
    DEF AmsCompound, AmsSound, AmsReadsOpen, AmsCounts, AmsArrays, Pending
  <1>6. CASE AmsSkipsStart(t)
    BY <1>1, <1>2, <1>6
    DEF AmsSkipsStart, AmsSound, AmsReadsOpen, AmsCounts, AmsArrays, Pending
  <1> QED
    BY <1>3, <1>4, <1>5, <1>6 DEF event_startElement_ams

(* Elements that end: the method's size is recorded, or the statement or   *)
(* something the state does not speak of ends.                             *)
LEMMA AmsEnds ==
    ASSUME SaxTypeOK, StreamShape, AmsSound,
           NEW t \in Tags, SaxEndElement(t), event_endElement_ams(t)
    PROVE  AmsSound'
  <1>1. /\ phase = "unit" /\ phase' = "unit" /\ OpenTags = OpenTags' \cup {t}
        /\ StatementInFunction /\ t \notin AmsSimple => StatementInFunction'
        /\ StatementInFunction /\ t # "function" => "function" \in OpenTags'
    BY Pop
  <1>2. UNCHANGED <<method_count_unit, method_count_overall, method_size>>
    BY DEF event_endElement_ams
  <1>3. CASE AmsMethodEnds(t)
    BY <1>1, <1>2, <1>3, AmsRecords DEF AmsSound, AmsReadsOpen
  <1>4. CASE AmsStatementEnds(t)
    BY <1>1, <1>2, <1>4
    DEF AmsStatementEnds, AmsSound, AmsReadsOpen, AmsCounts, AmsArrays, Pending, AmsSimple
  <1>5. CASE AmsSkipsEnd(t)
    BY <1>1, <1>2, <1>5
    DEF AmsSkipsEnd, AmsSound, AmsReadsOpen, AmsCounts, AmsArrays, Pending
  <1> QED
    BY <1>3, <1>4, <1>5 DEF event_endElement_ams

(* A unit starts with nothing pending and no method counted in it; outside *)
(* a unit the reader waits, so a document starts with nothing counted.     *)
LEMMA AmsOutside ==
    ASSUME StreamShape, AmsSound, phase # "unit", phase' # "start",
           \/ phase = "start" /\ event_startDocument_ams
           \/ event_startUnit_ams
           \/ event_endDocument_ams
           \/ UNCHANGED amsVars
    PROVE  AmsSound'
  <1>1. OpenTags = {} /\ ~StatementInFunction
    BY NothingOpen DEF StatementInFunction, OpenTags
  <1>2. ams_read_state = "WAITING_METHOD"
    BY <1>1 DEF AmsSound, AmsReadsOpen
  <1>3. ams_read_state' = "WAITING_METHOD"
    BY <1>2 DEF event_startDocument_ams, event_startUnit_ams, event_endDocument_ams, amsVars
  <1>4. UNCHANGED <<method_size, ms_unit_list, ms_overall_list>>
    BY DEF event_startDocument_ams, event_startUnit_ams, event_endDocument_ams, amsVars
  <1>5. \/ UNCHANGED <<method_count_unit, method_count_overall>>
        \/ method_count_unit' = 0 /\ UNCHANGED method_count_overall
        \/ method_count_unit = 0 /\ method_count_unit' = 0 /\ method_count_overall' = 0
    BY DEF event_startDocument_ams, event_startUnit_ams, event_endDocument_ams, amsVars,
           AmsSound, AmsCounts
  <1>6. AmsReadsOpen'
    BY <1>3 DEF AmsReadsOpen
  <1>7. AmsCounts'
    BY <1>2, <1>3, <1>4, <1>5 DEF AmsSound, AmsCounts, Pending
  <1>8. AmsArrays'
    BY <1>2, <1>3, <1>4, <1>5 DEF AmsSound, AmsCounts, AmsArrays, Pending
  <1> QED
    BY <1>6, <1>7, <1>8 DEF AmsSound

-----------------------------------------------------------------------------
(* Both under the dispatcher.                                              *)

SizeIInv ==
    /\ IInv
    /\ SlocStateSound /\ sloc_state \in SlocStates
    /\ AmsSound

(* The metrics never stop the dispatcher from doing what it does alone.    *)
LEMMA SizeNextIsNext == [SizeNext]_sizeVars => [Next]_vars
  BY DEF SizeNext, sizeVars, Next

(* The events of a unit's elements and text.                               *)
LEMMA SizeInsideStep ==
    ASSUME SizeIInv, IInv',
           \/ \E t \in Tags : /\ event_startElement(t) /\ event_startElement_ams(t)
                             /\ event_startElement_sloc(t)
           \/ \E t \in Tags : /\ event_endElement(t) /\ event_endElement_ams(t)
                             /\ event_endElement_sloc(t)
           \/ \E ch \in Text : event_charactersUnit(ch) /\ UNCHANGED <<slocVars, amsVars>>
    PROVE  SizeIInv'
  <1>1. SaxTypeOK /\ StreamShape
    BY DEF SizeIInv, IInv, TypeOK
  <1>2. ASSUME NEW t \in Tags, event_startElement(t), event_startElement_ams(t),
               event_startElement_sloc(t)
        PROVE  SizeIInv'
    <2>1. SaxStartElement(t)
      BY <1>2 DEF event_startElement
    <2> QED
      BY <1>1, <1>2, <2>1, AmsStarts, SlocStarts DEF SizeIInv
  <1>3. ASSUME NEW t \in Tags, event_endElement(t), event_endElement_ams(t),
               event_endElement_sloc(t)
        PROVE  SizeIInv'
    <2>1. SaxEndElement(t)
      BY <1>3 DEF event_endElement
    <2> QED
      BY <1>1, <1>3, <2>1, AmsEnds, SlocEnds DEF SizeIInv
  <1>4. ASSUME NEW ch \in Text, event_charactersUnit(ch), UNCHANGED <<slocVars, amsVars>>
        PROVE  SizeIInv'
    <2>1. /\ phase = "unit" /\ phase' = "unit" /\ OpenTags' = OpenTags
          /\ StatementInFunction => StatementInFunction'
      BY <1>1, <1>4, SameOpen DEF event_charactersUnit
    <2>2. SlocStateSound' /\ sloc_state' \in SlocStates
      BY <1>4, <2>1 DEF SizeIInv, SlocStateSound, slocVars
    <2>3. AmsSound'
      BY <1>4, <2>1
      DEF SizeIInv, AmsSound, AmsReadsOpen, AmsCounts, AmsArrays, Pending, amsVars
    <2> QED
      BY <2>2, <2>3 DEF SizeIInv
  <1> QED
    BY <1>2, <1>3, <1>4

(* The start and the end of a unit.                                        *)
LEMMA SizeUnitStep ==
    ASSUME SizeIInv, IInv',
           \/ SaxStartUnit /\ event_startUnit_ams /\ event_startUnit_sloc
           \/ SaxEndUnit /\ event_endUnit_ams /\ event_endUnit_sloc
    PROVE  SizeIInv'
  <1>1. StreamShape /\ StreamShape'
    BY DEF SizeIInv, IInv
  <1>2. CASE SaxStartUnit /\ event_startUnit_ams /\ event_startUnit_sloc
    <2>1. phase # "unit" /\ phase' = "unit"
      BY <1>2 DEF SaxStartUnit
    <2>2. SlocStateSound' /\ sloc_state' \in SlocStates
      BY <1>2, <2>1 DEF SlocStateSound, SlocStates, event_startUnit_sloc
    <2>3. AmsSound'
      BY <1>1, <1>2, <2>1, AmsOutside DEF SizeIInv
    <2> QED
      BY <2>2, <2>3 DEF SizeIInv
  <1>3. CASE SaxEndUnit /\ event_endUnit_ams /\ event_endUnit_sloc
    <2>1. phase = "unit" /\ phase' = "root" /\ OpenTags = {"unit"}
      BY <1>1, <1>3, NothingOpen DEF SaxEndUnit
    <2>2. SlocStateSound' /\ sloc_state' \in SlocStates
      BY <1>1, <1>3, <2>1, SlocOutside DEF SizeIInv
    <2>3. ~StatementInFunction
      BY <2>1 DEF StatementInFunction, OpenTags
    <2>4. ams_read_state = "WAITING_METHOD"
      BY <2>1, <2>3 DEF SizeIInv, AmsSound, AmsReadsOpen
    <2>5. AmsSound'
      BY <1>3, <2>1, <2>4
      DEF SizeIInv, AmsSound, AmsReadsOpen, AmsCounts, AmsArrays, Pending, event_endUnit_ams
    <2> QED
      BY <2>2, <2>5 DEF SizeIInv
  <1> QED
    BY <1>2, <1>3

(* The document and the root start and end.                                *)
LEMMA SizeOutsideStep ==
    ASSUME SizeIInv, IInv',
           \/ SaxStartDocument /\ event_startDocument_ams /\ event_startDocument_sloc
           \/ SaxStartRoot /\ UNCHANGED <<slocVars, amsVars>>
           \/ SaxEndRoot /\ UNCHANGED <<slocVars, amsVars>>
           \/ SaxEndDocument /\ event_endDocument_ams /\ event_endDocument_sloc
    PROVE  SizeIInv'
  <1>1. StreamShape
    BY DEF SizeIInv, IInv
  <1>2. phase # "unit" /\ phase' \notin {"unit", "start"}
        /\ (SaxStartDocument => phase = "start")
    BY DEF SaxStartDocument, SaxStartRoot, SaxEndRoot, SaxEndDocument, SaxMove
  <1>3. SlocStateSound' /\ sloc_state' \in SlocStates
    BY <1>1, <1>2, SlocOutside DEF SizeIInv, slocVars, event_endDocument_sloc
  <1>4. AmsSound'
    BY <1>1, <1>2, AmsOutside DEF SizeIInv
  <1> QED
    BY <1>3, <1>4 DEF SizeIInv

(* The invariant is inductive.                                             *)
LEMMA SizeStep == SizeIInv /\ [SizeNext]_sizeVars => SizeIInv'
  <1> SUFFICES ASSUME SizeIInv, [SizeNext]_sizeVars PROVE SizeIInv'
    OBVIOUS
  <1>1. IInv'
    BY SizeNextIsNext, StepIInv DEF SizeIInv
  <1>2. CASE UNCHANGED sizeVars
    <2>1. SlocStateSound' /\ sloc_state' \in SlocStates
      BY <1>2 DEF SizeIInv, SlocStateSound, OpenTags, sizeVars, vars, saxVars, slocVars
    <2>2. AmsSound'
      BY <1>2
      DEF SizeIInv, AmsSound, AmsReadsOpen, AmsCounts, AmsArrays, Pending, OpenTags,
          StatementInFunction, sizeVars, vars, saxVars, amsVars
    <2> QED
      BY <1>1, <2>1, <2>2 DEF SizeIInv
  <1>3. CASE SizeNext
    BY <1>1, <1>3, SizeInsideStep, SizeUnitStep, SizeOutsideStep
    DEF SizeNext, event_startDocument, event_startRoot, event_startUnit, event_endUnit,
        event_endRoot, event_endDocument
  <1> QED
    BY <1>2, <1>3

(* The invariant holds of every run.                                       *)
LEMMA SizeInvariance == SizeSpec => []SizeIInv
  <1>1. ASSUME SizeInit PROVE SizeIInv
    <2>1. IInv
      BY <1>1, InitIInv DEF SizeInit
    <2>2. /\ phase = "start" /\ open = <<>>
      BY <1>1 DEF SizeInit, Init, SaxInit
    <2>3. SlocStateSound /\ sloc_state \in SlocStates
      BY <1>1, <2>2 DEF SizeInit, SlocInit, SlocStateSound, SlocStates
    <2>4. AmsSound
      BY <1>1, <2>2 DEF SizeInit, AmsInit, AmsSound, AmsReadsOpen, AmsCounts, AmsArrays, Pending
    <2> QED
      BY <2>1, <2>3, <2>4 DEF SizeIInv
  <1> QED
    BY <1>1, SizeStep, PTL DEF SizeSpec

-----------------------------------------------------------------------------
(* Both measure a function alike.                                          *)

(* While a function is open the two readers are in step.                   *)
InStep ==
    "function" \in OpenTags =>
        /\ method_size = sloc_fn
        /\ \/ ams_read_state = "READING_METHOD" /\ sloc_state = "READING_METHOD"
           \/ ams_read_state = "READING_STATEMENT" /\ sloc_state = "READING_METHOD_STATEMENT"

(* The readers start a function together and count the same elements.      *)
LEMMA StartsInStep ==
    ASSUME SizeIInv, InStep, OneFunction', NEW t \in Tags, SaxStartElement(t),
           event_startElement_ams(t), event_startElement_sloc(t)
    PROVE  InStep'
  <1>1. SaxTypeOK /\ StreamShape /\ AmsReadsOpen
    BY DEF SizeIInv, IInv, TypeOK, AmsSound
  <1>2. OpenTags' = OpenTags \cup {t}
    BY <1>1, Push
  <1>3. CASE t = "function"
    <2>1. "function" \notin OpenTags
      BY <1>1, <1>3, OnlyFunction
    <2>2. ams_read_state = "WAITING_METHOD"
      BY <1>1, <2>1 DEF AmsReadsOpen, StatementInFunction, OpenTags
    <2>3. ams_read_state' = "READING_METHOD" /\ method_size' = 0
      BY <1>3, <2>2
      DEF event_startElement_ams, AmsMethod, AmsStatement, AmsCompound, AmsSkipsStart
    <2>4. sloc_state' = "READING_METHOD" /\ sloc_fn' = 0
      BY <1>3
      DEF event_startElement_sloc, SlocFunction, SlocUnitStatement, SlocMethodStatement,
          SlocMethodBlock, SlocNoLine, SlocSimple, SlocBlock
    <2> QED
      BY <2>3, <2>4 DEF InStep
  <1>4. CASE t # "function"
    <2>1. SUFFICES ASSUME "function" \in OpenTags PROVE InStep'
      BY <1>2, <1>4 DEF InStep
    <2>2. CASE ams_read_state = "READING_STATEMENT" /\ sloc_state = "READING_METHOD_STATEMENT"
      BY <1>2, <1>4, <2>1, <2>2
      DEF InStep, event_startElement_ams, AmsMethod, AmsStatement, AmsCompound, AmsSkipsStart,
          event_startElement_sloc, SlocFunction, SlocUnitStatement, SlocMethodStatement,
          SlocMethodBlock, SlocNoLine
    <2>3. CASE ams_read_state = "READING_METHOD" /\ sloc_state = "READING_METHOD"
      BY <1>2, <1>4, <2>1, <2>3
      DEF InStep, event_startElement_ams, AmsMethod, AmsStatement, AmsCompound, AmsSkipsStart,
          event_startElement_sloc, SlocFunction, SlocUnitStatement, SlocMethodStatement,
          SlocMethodBlock, SlocNoLine, AmsSimple, AmsBlock, SlocSimple, SlocBlock
    <2> QED
      BY <2>1, <2>2, <2>3 DEF InStep
  <1> QED
    BY <1>3, <1>4

(* They leave a statement together, and with the function both are done.   *)
LEMMA EndsInStep ==
    ASSUME SizeIInv, InStep, OneFunction, NEW t \in Tags, SaxEndElement(t),
           event_endElement_ams(t), event_endElement_sloc(t)
    PROVE  InStep'
  <1>1. SaxTypeOK /\ StreamShape
    BY DEF SizeIInv, IInv, TypeOK
  <1>2. OpenTags = OpenTags' \cup {t}
    BY <1>1, Pop
  <1>3. CASE t = "function"
    BY <1>1, <1>3, OnlyFunction DEF InStep
  <1>4. CASE t # "function"
    BY <1>2, <1>4
    DEF InStep, event_endElement_ams, AmsMethodEnds, AmsStatementEnds, AmsSkipsEnd,
        event_endElement_sloc, SlocFunctionEnds, SlocStatementEnds, SlocOtherEnds,
        AmsSimple, SlocSimple
  <1> QED
    BY <1>3, <1>4

(* In step they stay.                                                      *)
LEMMA StepInStep ==
    SizeIInv /\ SizeIInv' /\ InStep /\ OneFunction /\ OneFunction' /\ [SizeNext]_sizeVars =>
        InStep'
  <1> SUFFICES ASSUME SizeIInv, SizeIInv', InStep, OneFunction, OneFunction',
                      [SizeNext]_sizeVars
               PROVE  InStep'
    OBVIOUS
  <1>1. SaxTypeOK /\ StreamShape /\ StreamShape'
    BY DEF SizeIInv, IInv, TypeOK
  <1>2. ASSUME NEW t \in Tags, event_startElement(t), event_startElement_ams(t),
               event_startElement_sloc(t)
        PROVE  InStep'
    BY <1>2, StartsInStep DEF event_startElement
  <1>3. ASSUME NEW t \in Tags, event_endElement(t), event_endElement_ams(t),
               event_endElement_sloc(t)
        PROVE  InStep'
    BY <1>3, EndsInStep DEF event_endElement
  <1>4. ASSUME NEW ch \in Text, event_charactersUnit(ch), UNCHANGED <<slocVars, amsVars>>
        PROVE  InStep'
    <2>1. OpenTags' = OpenTags
      BY <1>1, <1>4, SameOpen DEF event_charactersUnit
    <2> QED
      BY <1>4, <2>1 DEF InStep, slocVars, amsVars
  <1>5. ASSUME phase' # "unit" \/ SaxStartUnit PROVE InStep'
    BY <1>1, <1>5, NothingOpen DEF InStep, StreamShape, OpenTags
  <1>6. CASE UNCHANGED sizeVars
    BY <1>6 DEF InStep, OpenTags, sizeVars, vars, saxVars, slocVars, amsVars
  <1> QED
    BY <1>2, <1>3, <1>4, <1>5, <1>6
    DEF SizeNext, event_startDocument, event_startRoot, event_startUnit, event_endUnit,
        event_endRoot, event_endDocument, SaxStartDocument, SaxStartRoot, SaxEndUnit,
        SaxEndRoot, SaxEndDocument, SaxMove

-----------------------------------------------------------------------------
(* The theorems.                                                           *)

(* On every stream, whatever nests in what, SLOC is only in a statement or *)
(* a method that is open, and waits exactly outside units.                 *)
THEOREM SlocReadsWhatIsOpen == SizeSpec => []SlocStateSound
  <1>1. SizeIInv => SlocStateSound
    BY DEF SizeIInv
  <1> QED
    BY SizeInvariance, <1>1, PTL

(* On every stream, no cell of the arrays that AMS sums is uninitialised,  *)
(* and the unit's array holds the sizes of that unit's methods.            *)
THEOREM AmsSizesAreRecorded == SizeSpec => []AmsSizesRecorded
  <1>1. ASSUME SizeIInv PROVE AmsSizesRecorded
    <2>1. SUFFICES ASSUME "function" \notin OpenTags PROVE AmsSizesRecorded
      BY DEF AmsSizesRecorded
    <2>2. ams_read_state = "WAITING_METHOD"
      BY <1>1, <2>1 DEF SizeIInv, AmsSound, AmsReadsOpen, StatementInFunction, OpenTags
    <2>3. AmsCounts /\ AmsArrays /\ Pending = 0
      BY <1>1, <2>2 DEF SizeIInv, AmsSound, Pending
    <2> QED
      BY <2>3 DEF AmsCounts, AmsArrays, AmsSizesRecorded, Garbage
  <1> QED
    BY SizeInvariance, <1>1, PTL

(* Where no function is inside another, AMS and SLOC agree on the size of  *)
(* the function at every moment, simple statements that nest included.     *)
THEOREM SizesAgree == SizeSpec /\ []OneFunction => []AmsAgreesWithSloc
  <1>1. SizeInit => InStep
    BY DEF SizeInit, Init, SaxInit, InStep, OpenTags
  <1>2. InStep => AmsAgreesWithSloc
    BY DEF InStep, AmsAgreesWithSloc
  <1> QED
    BY <1>1, <1>2, StepInStep, SizeInvariance, PTL DEF SizeSpec
-----------------------------------------------------------------------------
(* SLOC counts the lines that the structure of the code defines.           *)

(* No simple statement has another one or a function in it.                *)
FlatStatements ==
    \A i, j \in DOMAIN open :
        i < j /\ open[i].tag \in SlocSimple =>
            open[j].tag \notin SlocSimple /\ open[j].tag # "function"

(* Where statements are flat, none is open when one starts or has ended.   *)
LEMMA OnlyStatement ==
    ASSUME SaxTypeOK, StreamShape, NEW t \in Tags, t \in SlocSimple \/ t = "function"
    PROVE  /\ SaxStartElement(t) /\ FlatStatements' => SlocSimple \cap OpenTags = {}
           /\ SaxEndElement(t) /\ FlatStatements => SlocSimple \cap OpenTags' = {}
  <1>1. ASSUME SaxStartElement(t), FlatStatements', NEW i \in DOMAIN open,
               open[i].tag \in SlocSimple
        PROVE  FALSE
    <2>1. /\ Len(open) \in Nat /\ DOMAIN open = 1..Len(open)
          /\ Len(open') = Len(open) + 1 /\ DOMAIN open' = 1..Len(open')
          /\ open'[i].tag = open[i].tag /\ open'[Len(open')].tag = t
      BY <1>1, StartKeepsOpen DEF SaxTypeOK
    <2>2. i \in DOMAIN open' /\ Len(open') \in DOMAIN open' /\ i < Len(open')
      BY <2>1
    <2> QED
      BY <1>1, <2>1, <2>2 DEF FlatStatements
  <1>2. ASSUME SaxEndElement(t), FlatStatements, NEW i \in DOMAIN open',
               open'[i].tag \in SlocSimple
        PROVE  FALSE
    <2>1. /\ Len(open) \in Nat /\ DOMAIN open = 1..Len(open)
          /\ Len(open') = Len(open) - 1 /\ DOMAIN open' = 1..Len(open')
          /\ open[i].tag = open'[i].tag /\ open[Len(open)].tag = t
      BY <1>2, EndKeepsOpen DEF SaxTypeOK
    <2>2. i \in DOMAIN open /\ Len(open) \in DOMAIN open /\ i < Len(open)
      BY <2>1
    <2> QED
      BY <1>2, <2>1, <2>2 DEF FlatStatements
  <1> QED
    BY <1>1, <1>2 DEF OpenTags

(* What the reader knows is what is open, and before the document nothing  *)
(* is counted.                                                             *)
SlocReads ==
    /\ phase = "unit" =>
          sloc_state = IF "function" \in OpenTags
                       THEN IF SlocSimple \cap OpenTags # {} THEN "READING_METHOD_STATEMENT"
                                                             ELSE "READING_METHOD"
                       ELSE IF SlocSimple \cap OpenTags # {} THEN "READING_UNIT_STATEMENT"
                                                             ELSE "READING_UNIT"
    /\ phase = "start" => sloc_overall = 0 /\ sloc_statistics = <<>>
    /\ \E S : sloc_statistics \in Seq(S)

SlocValues(rows) == [i \in DOMAIN rows |-> rows[i].value]

(* A row that is inserted is a row more and a value more.                  *)
LEMMA SlocRow ==
    ASSUME NEW S, sloc_statistics \in Seq(S), NEW key, NEW val, SlocInsert(key, val)
    PROVE  /\ \E R : sloc_statistics' \in Seq(R)
           /\ SlocValues(sloc_statistics') = Append(SlocValues(sloc_statistics), val)
  <1> DEFINE row == [key |-> <<"SLOC">> \o key, value |-> val]
  <1>1. sloc_statistics' = Append(sloc_statistics, row)
    BY DEF SlocInsert
  <1>2. row.value = val
    OBVIOUS
  <1> HIDE DEF row
  <1>3. sloc_statistics \in Seq(S \cup {row}) /\ row \in S \cup {row}
    OBVIOUS
  <1>4. sloc_statistics' \in Seq(S \cup {row})
    BY <1>1, <1>3
  <1>5. SlocValues(sloc_statistics') = Append(SlocValues(sloc_statistics), val)
    BY <1>1, <1>2, <1>3, <1>4 DEF SlocValues
  <1> QED
    BY <1>4, <1>5

(* The stream of the promise is the stream of the program.                 *)
LEMMA LinesSameStream ==
    /\ SaxInit <=> Lines!SaxInit
    /\ SaxStartDocument <=> Lines!SaxStartDocument
    /\ SaxStartRoot <=> Lines!SaxStartRoot
    /\ SaxStartUnit <=> Lines!SaxStartUnit
    /\ \A t : SaxStartElement(t) <=> Lines!SaxStartElement(t)
    /\ \A ch : SaxCharacters(ch) <=> Lines!SaxCharacters(ch)
    /\ \A t : SaxEndElement(t) <=> Lines!SaxEndElement(t)
    /\ SaxEndUnit <=> Lines!SaxEndUnit
    /\ SaxEndRoot <=> Lines!SaxEndRoot
    /\ SaxEndDocument <=> Lines!SaxEndDocument
    /\ Text = Lines!Text
    /\ OpenTags = Lines!OpenTags
  BY DEF SaxInit, SaxMove, SaxStartDocument, SaxStartRoot, SaxStartUnit, SaxStartElement,
         SaxCharacters, SaxEndElement, SaxEndUnit, SaxEndRoot, SaxEndDocument, Text, OpenTags,
         Top, Fresh, Accepts, Complete,
         Lines!SaxInit, Lines!SaxMove, Lines!SaxStartDocument, Lines!SaxStartRoot,
         Lines!SaxStartUnit, Lines!SaxStartElement, Lines!SaxCharacters,
         Lines!SaxEndElement, Lines!SaxEndUnit, Lines!SaxEndRoot,
         Lines!SaxEndDocument, Lines!Text, Lines!OpenTags, Lines!Top, Lines!Fresh,
         Lines!Accepts, Lines!Complete

(* An element starts: it is a line for the reader when it is one by the    *)
(* structure.                                                              *)
LEMMA LineStarts ==
    ASSUME SaxTypeOK, StreamShape, SlocReads, FlatStatements', NEW t \in Tags,
           SaxStartElement(t), event_startElement_sloc(t),
           {sloc_overall, sloc_unit, sloc_fn} \subseteq Nat
    PROVE  /\ SlocReads' /\ Lines!Start(t)
           /\ {sloc_overall, sloc_unit, sloc_fn}' \subseteq Nat
  <1>1. /\ phase = "unit" /\ phase' = "unit" /\ OpenTags' = OpenTags \cup {t}
        /\ sloc_statistics' = sloc_statistics
    BY Push DEF event_startElement_sloc
  <1>2. t \in SlocSimple \/ t = "function" => SlocSimple \cap OpenTags = {}
    BY OnlyStatement
  <1>3. Lines!OpenTags = OpenTags /\ Lines!SaxStartElement(t)
        /\ Lines!SimpleStatement = SlocSimple /\ Lines!Compound = SlocBlock
        /\ "function" \notin SlocSimple /\ "function" \notin SlocBlock
        /\ SlocSimple \cap SlocBlock = {}
    BY LinesSameStream DEF Lines!SimpleStatement, Lines!Compound, SlocSimple, SlocBlock
  <1> DEFINE inFn == "function" \in OpenTags
             inSt == SlocSimple \cap OpenTags # {}
             line == t = "function" \/ (t \in SlocSimple /\ ~inSt)
                     \/ (t \in SlocBlock /\ inFn /\ ~inSt)
  <1>4. sloc_state = IF inFn THEN IF inSt THEN "READING_METHOD_STATEMENT" ELSE "READING_METHOD"
                     ELSE IF inSt THEN "READING_UNIT_STATEMENT" ELSE "READING_UNIT"
    BY <1>1 DEF SlocReads
  <1>5. Lines!IsLine(t) <=> line
    BY <1>3 DEF Lines!IsLine, Lines!InFunction, Lines!InStatement
  <1>6. /\ sloc_overall' = sloc_overall + (IF line THEN 1 ELSE 0)
        /\ sloc_unit' = sloc_unit + (IF line THEN 1 ELSE 0)
        /\ sloc_fn' = IF t = "function" THEN 0
                      ELSE sloc_fn + (IF line /\ inFn THEN 1 ELSE 0)
        /\ sloc_state' = IF t = "function" THEN "READING_METHOD"
                         ELSE IF t \in SlocSimple /\ ~inSt
                         THEN IF inFn THEN "READING_METHOD_STATEMENT"
                                      ELSE "READING_UNIT_STATEMENT"
                         ELSE sloc_state
    <2>1. CASE SlocFunction(t)
      BY <1>3, <1>4, <2>1 DEF SlocFunction, SlocLine
    <2>2. CASE SlocUnitStatement(t)
      BY <1>3, <1>4, <2>2 DEF SlocUnitStatement, SlocLine
    <2>3. CASE SlocMethodStatement(t)
      BY <1>3, <1>4, <2>3 DEF SlocMethodStatement, SlocLine
    <2>4. CASE SlocMethodBlock(t)
      BY <1>3, <1>4, <2>4 DEF SlocMethodBlock, SlocLine
    <2>5. CASE SlocNoLine(t)
      BY <1>3, <1>4, <2>5 DEF SlocNoLine
    <2> QED
      BY <2>1, <2>2, <2>3, <2>4, <2>5 DEF event_startElement_sloc
  <1>7. SlocReads'
    <2>1. inFn' = (inFn \/ t = "function") /\ inSt' = (inSt \/ t \in SlocSimple)
      BY <1>1
    <2>2. sloc_state' = IF inFn \/ t = "function"
                        THEN IF inSt \/ t \in SlocSimple THEN "READING_METHOD_STATEMENT"
                                                          ELSE "READING_METHOD"
                        ELSE IF inSt \/ t \in SlocSimple THEN "READING_UNIT_STATEMENT"
                                                          ELSE "READING_UNIT"
      BY <1>2, <1>3, <1>4, <1>6
    <2> QED
      BY <1>1, <2>1, <2>2 DEF SlocReads
  <1>8. Lines!Start(t)
    BY <1>1, <1>3, <1>5, <1>6 DEF Lines!Start, Lines!InFunction
  <1>9. {sloc_overall, sloc_unit, sloc_fn}' \subseteq Nat
    <2> HIDE DEF line, inFn
    <2> QED
      BY <1>6
  <1> QED
    BY <1>7, <1>8, <1>9

(* An element ends: with a function its lines are reported.                *)
LEMMA LineEnds ==
    ASSUME SaxTypeOK, StreamShape, SlocReads, FlatStatements, OneFunction, NEW t \in Tags,
           SaxEndElement(t), event_endElement_sloc(t)
    PROVE  SlocReads' /\ Lines!Finish(t)
  <1>1. /\ phase = "unit" /\ phase' = "unit" /\ OpenTags = OpenTags' \cup {t}
        /\ UNCHANGED <<sloc_overall, sloc_unit, sloc_fn>>
    BY Pop DEF event_endElement_sloc
  <1>2. /\ t \in SlocSimple \/ t = "function" => SlocSimple \cap OpenTags' = {}
        /\ t = "function" => "function" \notin OpenTags'
        /\ "function" \notin SlocSimple
    BY OnlyStatement, OnlyFunction DEF SlocSimple
  <1>3. PICK S : sloc_statistics \in Seq(S)
    BY DEF SlocReads
  <1>4. /\ \E R : sloc_statistics' \in Seq(R)
        /\ SlocValues(sloc_statistics') =
              IF t = "function" THEN Append(SlocValues(sloc_statistics), sloc_fn)
              ELSE SlocValues(sloc_statistics)
    <2>1. CASE SlocFunctionEnds(t)
      BY <1>3, <2>1, SlocRow DEF SlocFunctionEnds
    <2>2. CASE t # "function" /\ UNCHANGED sloc_statistics
      BY <1>3, <2>2
    <2> QED
      BY <1>2, <2>1, <2>2 DEF event_endElement_sloc, SlocStatementEnds, SlocOtherEnds
  <1>5. sloc_state' = IF t = "function" THEN "READING_UNIT"
                      ELSE IF t \in SlocSimple /\ sloc_state = "READING_METHOD_STATEMENT"
                      THEN "READING_METHOD"
                      ELSE IF t \in SlocSimple /\ sloc_state = "READING_UNIT_STATEMENT"
                      THEN "READING_UNIT" ELSE sloc_state
    BY <1>2 DEF event_endElement_sloc, SlocFunctionEnds, SlocStatementEnds, SlocOtherEnds
  <1>6. SlocReads'
    BY <1>1, <1>2, <1>4, <1>5 DEF SlocReads
  <1>7. Lines!Finish(t)
    BY <1>1, <1>4, LinesSameStream DEF SlocValues, Lines!Finish
  <1> QED
    BY <1>6, <1>7

SlocCounts == {sloc_overall, sloc_unit, sloc_fn} \subseteq Nat

(* Every step is a step of the promise, or leaves it alone.                *)
LEMMA LineStep ==
    /\ SizeIInv /\ SlocReads /\ SlocCounts /\ FlatStatements /\ FlatStatements' /\ OneFunction
    /\ [SizeNext]_sizeVars
    => /\ SlocReads' /\ SlocCounts'
       /\ [Lines!LineNext]_<<Lines!saxVars, Lines!lineVars>>
  <1> SUFFICES ASSUME SizeIInv, SlocReads, SlocCounts, FlatStatements, FlatStatements',
                      OneFunction, [SizeNext]_sizeVars
               PROVE  /\ SlocReads' /\ SlocCounts'
                      /\ [Lines!LineNext]_<<Lines!saxVars, Lines!lineVars>>
    OBVIOUS
  <1>1. SaxTypeOK /\ StreamShape
    BY DEF SizeIInv, IInv, TypeOK
  <1>2. PICK S : sloc_statistics \in Seq(S)
    BY DEF SlocReads
  <1>3. ASSUME NEW t \in Tags, event_startElement(t), event_startElement_sloc(t)
        PROVE  SlocReads' /\ SlocCounts' /\ Lines!LineNext
    <2>1. SaxStartElement(t)
      BY <1>3 DEF event_startElement
    <2>2. SlocReads' /\ Lines!Start(t) /\ SlocCounts'
      BY <1>1, <1>3, <2>1, LineStarts DEF SlocCounts
    <2> QED
      BY <2>2 DEF Lines!LineNext
  <1>4. ASSUME NEW t \in Tags, event_endElement(t), event_endElement_sloc(t)
        PROVE  SlocReads' /\ SlocCounts' /\ Lines!LineNext
    <2>1. SaxEndElement(t)
      BY <1>4 DEF event_endElement
    <2>2. SlocReads' /\ Lines!Finish(t)
      BY <1>1, <1>4, <2>1, LineEnds
    <2> QED
      BY <1>4, <2>2 DEF SlocCounts, event_endElement_sloc, Lines!LineNext
  <1>5. ASSUME NEW ch \in Text, event_charactersUnit(ch), UNCHANGED slocVars
        PROVE  SlocReads' /\ SlocCounts' /\ Lines!LineNext
    <2>1. SaxCharacters(ch) /\ phase = "unit" /\ phase' = "unit" /\ OpenTags' = OpenTags
      BY <1>1, <1>5, SameOpen DEF event_charactersUnit
    <2>2. Lines!Silent
      BY <1>5, <2>1, LinesSameStream DEF slocVars, Lines!Silent, Lines!lineVars
    <2> QED
      BY <1>5, <2>1, <2>2 DEF slocVars, SlocReads, SlocCounts, Lines!LineNext
  <1>6. CASE SaxStartUnit /\ event_startUnit_sloc
    <2>1. phase' = "unit" /\ OpenTags' = {"unit"} /\ "unit" \notin SlocSimple
      BY <1>1, <1>6, NothingOpen DEF SaxStartUnit, SlocSimple
    <2>2. SlocReads' /\ SlocCounts'
      BY <1>2, <1>6, <2>1 DEF SlocReads, SlocCounts, event_startUnit_sloc
    <2>3. Lines!StartUnit
      BY <1>6, LinesSameStream DEF event_startUnit_sloc, Lines!StartUnit
    <2> QED
      BY <2>2, <2>3 DEF Lines!LineNext
  <1>7. CASE SaxEndUnit /\ event_endUnit_sloc
    <2>1. /\ \E R : sloc_statistics' \in Seq(R)
          /\ SlocValues(sloc_statistics') = Append(SlocValues(sloc_statistics), sloc_unit)
      BY <1>2, <1>7, SlocRow DEF event_endUnit_sloc
    <2>2. SlocReads' /\ SlocCounts'
      BY <1>7, <2>1 DEF SlocReads, SlocCounts, SaxEndUnit, event_endUnit_sloc
    <2>3. Lines!FinishUnit
      BY <1>7, <2>1, LinesSameStream DEF event_endUnit_sloc, SlocValues, Lines!FinishUnit
    <2> QED
      BY <2>2, <2>3 DEF Lines!LineNext
  <1>8. CASE SaxEndDocument /\ event_endDocument_sloc
    <2>1. /\ \E R : sloc_statistics' \in Seq(R)
          /\ SlocValues(sloc_statistics') = Append(SlocValues(sloc_statistics), sloc_overall)
      BY <1>2, <1>8, SlocRow DEF event_endDocument_sloc
    <2>2. SlocReads' /\ SlocCounts'
      BY <1>8, <2>1 DEF SlocReads, SlocCounts, SaxEndDocument, SaxMove, event_endDocument_sloc
    <2>3. Lines!FinishDocument
      BY <1>8, <2>1, LinesSameStream
      DEF event_endDocument_sloc, SlocValues, Lines!FinishDocument
    <2> QED
      BY <2>2, <2>3 DEF Lines!LineNext
  <1>9. CASE SaxStartDocument /\ event_startDocument_sloc
    <2>1. phase = "start" /\ phase' = "document"
      BY <1>9 DEF SaxStartDocument, SaxMove
    <2>2. UNCHANGED <<sloc_overall, sloc_unit, sloc_fn, sloc_statistics>>
      BY <1>9, <2>1 DEF SlocReads, event_startDocument_sloc
    <2>3. SlocReads' /\ SlocCounts'
      BY <1>2, <2>1, <2>2 DEF SlocReads, SlocCounts
    <2>4. Lines!Silent
      BY <1>9, <2>2, LinesSameStream DEF Lines!Silent, Lines!lineVars
    <2> QED
      BY <2>3, <2>4 DEF Lines!LineNext
  <1>10. CASE (SaxStartRoot \/ SaxEndRoot) /\ UNCHANGED slocVars
    <2>1. SlocReads' /\ SlocCounts'
      BY <1>10 DEF SlocReads, SlocCounts, SaxStartRoot, SaxEndRoot, SaxMove, slocVars
    <2>2. Lines!Silent
      BY <1>10, LinesSameStream DEF slocVars, Lines!Silent, Lines!lineVars
    <2> QED
      BY <2>1, <2>2 DEF Lines!LineNext
  <1>11. CASE UNCHANGED sizeVars
    <2>1. SlocReads' /\ SlocCounts'
      BY <1>11 DEF SlocReads, SlocCounts, OpenTags, sizeVars, vars, saxVars, slocVars
    <2> QED
      BY <1>11, <2>1
      DEF sizeVars, vars, saxVars, slocVars, Lines!saxVars, Lines!lineVars
  <1> QED
    BY <1>3, <1>4, <1>5, <1>6, <1>7, <1>8, <1>9, <1>10, <1>11
    DEF SizeNext, event_startDocument, event_startRoot, event_startUnit, event_endUnit,
        event_endRoot, event_endDocument

(* Where no function is inside another and no simple statement has another *)
(* one or a function in it, the state machine of SLOC reports the lines    *)
(* that the structure of the code defines.                                 *)
THEOREM SlocReportsLineCount ==
    SizeSpec /\ []OneFunction /\ []FlatStatements => SlocImplementsLineCount
  <1>1. SizeInit => Lines!LineInit
    BY LinesSameStream DEF SizeInit, Init, SlocInit, Lines!LineInit
  <1>2. SizeInit => SlocReads /\ SlocCounts
    <2>1. <<>> \in Seq({})
      OBVIOUS
    <2> QED
      BY <2>1 DEF SizeInit, Init, SaxInit, SlocInit, SlocReads, SlocCounts
  <1> QED
    BY <1>1, <1>2, LineStep, SizeInvariance, PTL
    DEF SizeSpec, SlocImplementsLineCount, Lines!LineSpec
==============================================================================
