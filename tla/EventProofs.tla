----------------------------- MODULE EventProofs -----------------------------
(***************************************************************************)
(* Proofs about the stream and the dispatcher, for every grammar, every    *)
(* set of file names and every bound: what an event does to the stack of   *)
(* open elements, the state machine that reads function names, the         *)
(* assertion at the start of a unit, the discipline of the Chunk, and,     *)
(* where functions are written as in C, that the names read are those      *)
(* declared and that the keys spell them.                                  *)
(***************************************************************************)
EXTENDS Event, FiniteSetTheorems, SequenceTheorems, TLAPS

-----------------------------------------------------------------------------
(* The stream: the stack of open elements and their tags.                  *)

(* The stream has open elements exactly inside a unit, and the outermost   *)
(* one is the unit.                                                        *)
StreamShape ==
    /\ phase = "unit" <=> open # <<>>
    /\ open # <<>> => open[1].tag = "unit"

(* Starting an element keeps the stream well typed and every open tag.     *)
LEMMA StartKeepsOpen ==
    ASSUME SaxTypeOK, StreamShape, NEW t \in Tags, SaxStartElement(t)
    PROVE  /\ SaxTypeOK'
           /\ StreamShape'
           /\ Len(open') = Len(open) + 1
           /\ \A i \in DOMAIN open : open'[i].tag = open[i].tag
           /\ open'[Len(open')].tag = t
  <1>1. PICK k \in DOMAIN Grammar[Top.tag] :
            open' = Append([open EXCEPT ![Len(open)].slot = k], Fresh(t))
    BY DEF SaxStartElement
  <1>2. /\ open \in Seq(Element) /\ Len(open) \in 1..Len(open)
        /\ Top \in Element /\ phase = "unit" /\ phase' = "unit"
    BY DEF SaxTypeOK, StreamShape, SaxStartElement, Top
  <1>3. k \in Nat
    <2>1. Grammar[Top.tag] \in Seq(Slot)
      BY <1>2, StreamAssumption DEF Element
    <2> QED
      BY <2>1
  <1>4. Fresh(t) \in Element /\ Fresh(t).tag = t
    BY DEF Fresh, Element
  <1> DEFINE before == [open EXCEPT ![Len(open)].slot = k]
  <1>5. /\ before \in Seq(Element) /\ Len(before) = Len(open)
        /\ \A i \in DOMAIN open : before[i].tag = open[i].tag
    <2>1. [Top EXCEPT !.slot = k] \in Element /\ [Top EXCEPT !.slot = k].tag = Top.tag
      BY <1>2, <1>3 DEF Element
    <2>2. before = [open EXCEPT ![Len(open)] = [Top EXCEPT !.slot = k]]
      BY DEF Top
    <2> QED
      BY <1>2, <2>1, <2>2 DEF Top
  <1> HIDE DEF before
  <1>6. open' = Append(before, Fresh(t))
    BY <1>1 DEF before
  <1>7. /\ open' \in Seq(Element) /\ Len(open') = Len(open) + 1
        /\ \A i \in DOMAIN open : open'[i].tag = open[i].tag
        /\ open'[Len(open')].tag = t
    BY <1>2, <1>4, <1>5, <1>6
  <1>8. SaxTypeOK'
    BY <1>2, <1>7 DEF SaxTypeOK, SaxStartElement, Phases
  <1>9. StreamShape'
    BY <1>2, <1>7 DEF StreamShape
  <1> QED
    BY <1>7, <1>8, <1>9

(* Ending an element takes the innermost one off and keeps the other tags. *)
LEMMA EndKeepsOpen ==
    ASSUME SaxTypeOK, StreamShape, NEW t \in Tags, SaxEndElement(t)
    PROVE  /\ SaxTypeOK'
           /\ StreamShape'
           /\ Len(open') = Len(open) - 1
           /\ open[Len(open)].tag = t
           /\ \A i \in DOMAIN open' : open'[i].tag = open[i].tag
  <1> DEFINE rest == SubSeq(open, 1, Len(open) - 1)
  <1>1. /\ open \in Seq(Element) /\ Len(open) \in Nat /\ Len(open) > 1
        /\ Top \in Element /\ Top.tag = t /\ phase = "unit" /\ phase' = "unit"
    BY DEF SaxTypeOK, SaxEndElement, Top
  <1>2. /\ rest \in Seq(Element) /\ Len(rest) = Len(open) - 1
        /\ Len(rest) \in 1..Len(rest)
        /\ \A i \in 1..Len(rest) : rest[i] = open[i]
    BY <1>1
  <1> HIDE DEF rest
  <1>3. open' = IF t = "name" /\ rest[Len(rest)].tag = "function"
                THEN [rest EXCEPT ![Len(rest)].name = Top.text]
                ELSE rest
    BY DEF SaxEndElement, rest
  <1>4. /\ open' \in Seq(Element) /\ Len(open') = Len(rest)
        /\ \A i \in 1..Len(rest) : open'[i].tag = rest[i].tag
    <2>1. CASE open' = rest
      BY <1>2, <2>1
    <2>2. CASE open' = [rest EXCEPT ![Len(rest)].name = Top.text]
      <3>1. Top.text \in Seq(Text)
        BY <1>1 DEF Element
      <3>2. \A e \in Element : /\ [e EXCEPT !.name = Top.text] \in Element
                               /\ [e EXCEPT !.name = Top.text].tag = e.tag
        BY <3>1 DEF Element
      <3> QED
        BY <1>2, <2>2, <3>2
    <2> QED
      BY <1>3, <2>1, <2>2
  <1>5. SaxTypeOK'
    BY <1>1, <1>4 DEF SaxTypeOK, SaxEndElement, Phases
  <1>6. StreamShape'
    BY <1>1, <1>2, <1>4 DEF StreamShape
  <1> QED
    BY <1>1, <1>2, <1>4, <1>5, <1>6 DEF Top

(* Character data changes no open tag.                                     *)
LEMMA CharactersKeepOpen ==
    ASSUME SaxTypeOK, StreamShape, NEW ch \in Text, SaxCharacters(ch)
    PROVE  /\ SaxTypeOK'
           /\ StreamShape'
           /\ Len(open') = Len(open)
           /\ \A i \in DOMAIN open : open'[i].tag = open[i].tag
  <1>1. /\ open \in Seq(Element) /\ Len(open) \in 1..Len(open)
        /\ Top \in Element /\ phase = "unit" /\ phase' = "unit"
    BY DEF SaxTypeOK, StreamShape, SaxCharacters, Top
  <1>2. Append(Top.text, ch) \in Seq(Text)
    BY <1>1 DEF Element
  <1>3. [Top EXCEPT !.text = Append(Top.text, ch)] \in Element
        /\ [Top EXCEPT !.text = Append(Top.text, ch)].tag = Top.tag
    BY <1>1, <1>2 DEF Element
  <1>4. open' = [open EXCEPT ![Len(open)] = [Top EXCEPT !.text = Append(Top.text, ch)]]
    BY DEF SaxCharacters, Top
  <1>5. /\ open' \in Seq(Element) /\ Len(open') = Len(open)
        /\ \A i \in DOMAIN open : open'[i].tag = open[i].tag
    BY <1>1, <1>3, <1>4 DEF Top
  <1>6. SaxTypeOK'
    BY <1>1, <1>5 DEF SaxTypeOK, SaxCharacters, Phases
  <1> QED
    BY <1>1, <1>5, <1>6 DEF StreamShape

(* Which element changes when another one starts in it.                    *)
LEMMA Started ==
    ASSUME SaxTypeOK, StreamShape, NEW t \in Tags, SaxStartElement(t)
    PROVE  /\ \A i \in 1..Len(open) - 1 : open'[i] = open[i]
           /\ \E k \in DOMAIN Grammar[Top.tag] :
                 Accepts(Top, k, t) /\ open'[Len(open)] = [Top EXCEPT !.slot = k]
           /\ Top' = Fresh(t)
  <1>1. PICK k \in DOMAIN Grammar[Top.tag] :
            Accepts(Top, k, t) /\ open' = Append([open EXCEPT ![Len(open)].slot = k], Fresh(t))
    BY DEF SaxStartElement
  <1>2. open \in Seq(Element) /\ Len(open) \in 1..Len(open) /\ Top \in Element
    BY DEF SaxTypeOK, StreamShape, SaxStartElement, Top
  <1>3. open' = Append([open EXCEPT ![Len(open)] = [Top EXCEPT !.slot = k]], Fresh(t))
    BY <1>1 DEF Top
  <1>4. /\ \A i \in 1..Len(open) - 1 : open'[i] = open[i]
        /\ open'[Len(open)] = [Top EXCEPT !.slot = k]
        /\ open'[Len(open')] = Fresh(t)
    BY <1>2, <1>3
  <1> QED
    BY <1>1, <1>4 DEF Top

(* Which element changes when one in it ends: a function gets its name.    *)
LEMMA Ended ==
    ASSUME SaxTypeOK, StreamShape, NEW t \in Tags, SaxEndElement(t)
    PROVE  /\ \A i \in 1..Len(open) - 2 : open'[i] = open[i]
           /\ Top' = IF t = "name" /\ open[Len(open) - 1].tag = "function"
                     THEN [open[Len(open) - 1] EXCEPT !.name = Top.text]
                     ELSE open[Len(open) - 1]
  <1> DEFINE rest == SubSeq(open, 1, Len(open) - 1)
  <1>1. open \in Seq(Element) /\ Len(open) \in Nat /\ Len(open) > 1
    BY DEF SaxTypeOK, SaxEndElement
  <1>2. /\ rest \in Seq(Element) /\ Len(rest) = Len(open) - 1
        /\ Len(rest) \in 1..Len(rest)
        /\ \A i \in 1..Len(rest) : rest[i] = open[i]
    BY <1>1
  <1> HIDE DEF rest
  <1>3. open' = IF t = "name" /\ rest[Len(rest)].tag = "function"
                THEN [rest EXCEPT ![Len(rest)] = [rest[Len(rest)] EXCEPT !.name = Top.text]]
                ELSE rest
    BY DEF SaxEndElement, rest
  <1>4. /\ Len(open') = Len(rest)
        /\ \A i \in 1..Len(rest) - 1 : open'[i] = rest[i]
        /\ open'[Len(rest)] = IF t = "name" /\ rest[Len(rest)].tag = "function"
                              THEN [rest[Len(rest)] EXCEPT !.name = Top.text]
                              ELSE rest[Len(rest)]
    BY <1>2, <1>3
  <1>5. \A i \in 1..Len(open) - 2 : open'[i] = open[i]
    BY <1>1, <1>2, <1>4
  <1>6. rest[Len(rest)] = open[Len(open) - 1] /\ Top' = open'[Len(rest)]
    BY <1>1, <1>2, <1>4 DEF Top
  <1> QED
    BY <1>4, <1>5, <1>6

(* Character data goes into the innermost element.                         *)
LEMMA Grown ==
    ASSUME SaxTypeOK, StreamShape, NEW ch \in Text, SaxCharacters(ch)
    PROVE  /\ \A i \in 1..Len(open) - 1 : open'[i] = open[i]
           /\ Top' = [Top EXCEPT !.text = Append(Top.text, ch)]
  <1>1. open \in Seq(Element) /\ Len(open) \in 1..Len(open)
    BY DEF SaxTypeOK, StreamShape, SaxCharacters
  <1>2. open' = [open EXCEPT ![Len(open)] = [Top EXCEPT !.text = Append(Top.text, ch)]]
    BY DEF SaxCharacters, Top
  <1> DEFINE grown == [Top EXCEPT !.text = Append(Top.text, ch)]
  <1>3. open' = [open EXCEPT ![Len(open)] = grown]
    BY <1>2
  <1> HIDE DEF grown
  <1>4. /\ Len(open') = Len(open) /\ open'[Len(open)] = grown
        /\ \A i \in 1..Len(open) - 1 : open'[i] = open[i]
    BY <1>1, <1>3
  <1>5. Top' = open'[Len(open')]
    BY DEF Top
  <1> QED
    BY <1>4, <1>5 DEF grown

(* Steps that move the parser and nothing else of the stream.              *)
LEMMA MoveKeepsShape ==
    ASSUME SaxTypeOK, StreamShape, NEW from, NEW to \in Phases, SaxMove(from, to),
           from # "unit", to # "unit"
    PROVE  SaxTypeOK' /\ StreamShape' /\ open' = <<>>
  BY DEF SaxTypeOK, StreamShape, SaxMove

(* A unit opens itself alone.                                              *)
LEMMA UnitOpens ==
    ASSUME SaxTypeOK, StreamShape, SaxStartUnit
    PROVE  SaxTypeOK' /\ StreamShape'
  <1>1. Fresh("unit") \in Element /\ Fresh("unit").tag = "unit"
    BY DEF Fresh, Element
  <1>2. open' \in Seq(Element) /\ open' # <<>> /\ open'[1].tag = "unit"
    BY <1>1 DEF SaxStartUnit
  <1> QED
    BY <1>2 DEF SaxTypeOK, StreamShape, SaxStartUnit, Phases

(* A unit closes with nothing open but itself.                             *)
LEMMA UnitCloses ==
    ASSUME SaxTypeOK, SaxEndUnit
    PROVE  SaxTypeOK' /\ StreamShape' /\ open' = <<>>
  BY DEF SaxTypeOK, StreamShape, SaxEndUnit, Phases

-----------------------------------------------------------------------------
(* The tags that are open.                                                 *)

(* An element that starts is one more open element.                        *)
LEMMA OpenedTag ==
    ASSUME SaxTypeOK, StreamShape, NEW t \in Tags, SaxStartElement(t)
    PROVE  OpenTags' = OpenTags \cup {t}
  <1>1. /\ Len(open) \in Nat /\ DOMAIN open = 1..Len(open)
        /\ Len(open') = Len(open) + 1 /\ DOMAIN open' = 1..Len(open')
        /\ \A i \in DOMAIN open : open'[i].tag = open[i].tag
        /\ open'[Len(open')].tag = t
    BY StartKeepsOpen DEF SaxTypeOK
  <1> QED
    BY <1>1 DEF OpenTags

(* An element that ends was open, and no other one goes with it.           *)
LEMMA ClosedTag ==
    ASSUME SaxTypeOK, StreamShape, NEW t \in Tags, SaxEndElement(t)
    PROVE  OpenTags = OpenTags' \cup {t}
  <1>1. /\ Len(open) \in Nat /\ DOMAIN open = 1..Len(open)
        /\ Len(open') = Len(open) - 1 /\ DOMAIN open' = 1..Len(open')
        /\ \A i \in DOMAIN open' : open'[i].tag = open[i].tag
        /\ open[Len(open)].tag = t /\ Len(open) \in DOMAIN open
    <2>1. Len(open) > 1
      BY DEF SaxEndElement
    <2> QED
      BY <2>1, EndKeepsOpen DEF SaxTypeOK
  <1> QED
    BY <1>1 DEF OpenTags

(* Character data opens and closes nothing.                                *)
LEMMA SameTags ==
    ASSUME SaxTypeOK, StreamShape, NEW ch \in Text, SaxCharacters(ch)
    PROVE  OpenTags' = OpenTags
  <1>1. /\ DOMAIN open' = DOMAIN open
        /\ \A i \in DOMAIN open : open'[i].tag = open[i].tag
    BY CharactersKeepOpen DEF SaxTypeOK
  <1> QED
    BY <1>1 DEF OpenTags

(* Outside a unit nothing is open, and a unit starts and ends with nothing *)
(* open but itself.                                                        *)
LEMMA NothingOpen ==
    ASSUME StreamShape
    PROVE  /\ phase # "unit" => OpenTags = {}
           /\ SaxStartUnit => OpenTags' = {"unit"}
           /\ SaxEndUnit => OpenTags = {"unit"} /\ OpenTags' = {}
  <1>1. phase # "unit" => OpenTags = {}
    BY DEF StreamShape, OpenTags
  <1>2. SaxStartUnit => OpenTags' = {"unit"}
    BY DEF SaxStartUnit, Fresh, OpenTags
  <1>3. SaxEndUnit => OpenTags = {"unit"} /\ OpenTags' = {}
    BY DEF StreamShape, SaxEndUnit, OpenTags
  <1> QED
    BY <1>1, <1>2, <1>3

-----------------------------------------------------------------------------
(* How many elements with a tag are open.                                  *)

OpenCount(tag) == Cardinality(OpenOf(tag))

(* They are finitely many.                                                 *)
LEMMA OpenFinite ==
    ASSUME SaxTypeOK, NEW tag
    PROVE  IsFiniteSet(OpenOf(tag)) /\ OpenCount(tag) \in Nat
  <1>1. open \in Seq(Element)
    BY DEF SaxTypeOK
  <1>2. IsFiniteSet(1..Len(open))
    BY <1>1, FS_Interval
  <1>3. OpenOf(tag) \in SUBSET (1..Len(open))
    BY <1>1 DEF OpenOf
  <1>4. IsFiniteSet(OpenOf(tag))
    BY <1>2, <1>3, FS_Subset
  <1> QED
    BY <1>4, FS_CardinalityType DEF OpenCount

(* An element that starts is one more of its tag and none of another.      *)
LEMMA OneOpens ==
    ASSUME SaxTypeOK, StreamShape, NEW tag, NEW t \in Tags, SaxStartElement(t)
    PROVE  OpenCount(tag)' = IF t = tag THEN OpenCount(tag) + 1 ELSE OpenCount(tag)
  <1>1. /\ Len(open) \in Nat /\ DOMAIN open = 1..Len(open)
        /\ Len(open') = Len(open) + 1 /\ DOMAIN open' = 1..Len(open')
        /\ \A i \in DOMAIN open : open'[i].tag = open[i].tag
        /\ open'[Len(open')].tag = t
    BY StartKeepsOpen DEF SaxTypeOK
  <1>2. CASE t = tag
    <2>1. OpenOf(tag)' = OpenOf(tag) \cup {Len(open')} /\ Len(open') \notin OpenOf(tag)
      BY <1>1, <1>2 DEF OpenOf
    <2> QED
      BY <1>2, <2>1, OpenFinite, FS_AddElement DEF OpenCount
  <1>3. CASE t # tag
    <2>1. OpenOf(tag)' = OpenOf(tag)
      BY <1>1, <1>3 DEF OpenOf
    <2> QED
      BY <1>3, <2>1 DEF OpenCount
  <1> QED
    BY <1>2, <1>3

(* An element that ends is one less of its tag, and there was one.         *)
LEMMA OneCloses ==
    ASSUME SaxTypeOK, StreamShape, NEW tag, NEW t \in Tags, SaxEndElement(t)
    PROVE  OpenCount(tag) = IF t = tag THEN OpenCount(tag)' + 1 ELSE OpenCount(tag)'
  <1>1. /\ Len(open) \in Nat /\ DOMAIN open = 1..Len(open)
        /\ Len(open') = Len(open) - 1 /\ DOMAIN open' = 1..Len(open')
        /\ \A i \in DOMAIN open' : open'[i].tag = open[i].tag
        /\ open[Len(open)].tag = t /\ Len(open) \in DOMAIN open
    <2>1. Len(open) > 1
      BY DEF SaxEndElement
    <2> QED
      BY <2>1, EndKeepsOpen DEF SaxTypeOK
  <1>2. IsFiniteSet(OpenOf(tag)')
    <2>1. OpenOf(tag)' \in SUBSET OpenOf(tag)
      BY <1>1 DEF OpenOf
    <2> QED
      BY <2>1, OpenFinite, FS_Subset
  <1>3. CASE t = tag
    <2>1. OpenOf(tag) = OpenOf(tag)' \cup {Len(open)} /\ Len(open) \notin OpenOf(tag)'
      BY <1>1, <1>3 DEF OpenOf
    <2> QED
      BY <1>2, <1>3, <2>1, FS_AddElement DEF OpenCount
  <1>4. CASE t # tag
    <2>1. OpenOf(tag)' = OpenOf(tag)
      BY <1>1, <1>4 DEF OpenOf
    <2> QED
      BY <1>4, <2>1 DEF OpenCount
  <1> QED
    BY <1>3, <1>4

(* Those that are left are finitely many too.                              *)
LEMMA OpenLeft ==
    ASSUME SaxTypeOK, StreamShape, NEW tag, NEW t \in Tags, SaxEndElement(t)
    PROVE  OpenCount(tag)' \in Nat
  <1>1. /\ Len(open) \in Nat /\ DOMAIN open = 1..Len(open)
        /\ Len(open') = Len(open) - 1 /\ DOMAIN open' = 1..Len(open')
        /\ \A i \in DOMAIN open' : open'[i].tag = open[i].tag
    <2>1. Len(open) > 1
      BY DEF SaxEndElement
    <2> QED
      BY <2>1, EndKeepsOpen DEF SaxTypeOK
  <1>2. OpenOf(tag)' \in SUBSET OpenOf(tag)
    BY <1>1 DEF OpenOf
  <1>3. IsFiniteSet(OpenOf(tag)')
    BY <1>2, OpenFinite, FS_Subset
  <1> QED
    BY <1>3, FS_CardinalityType DEF OpenCount

(* Character data opens and closes nothing.                                *)
LEMMA SameCount ==
    ASSUME SaxTypeOK, StreamShape, NEW tag, NEW ch \in Text, SaxCharacters(ch)
    PROVE  OpenCount(tag)' = OpenCount(tag)
  <1>1. /\ DOMAIN open' = DOMAIN open
        /\ \A i \in DOMAIN open : open'[i].tag = open[i].tag
    BY CharactersKeepOpen DEF SaxTypeOK
  <1>2. OpenOf(tag)' = OpenOf(tag)
    BY <1>1 DEF OpenOf
  <1> QED
    BY <1>2 DEF OpenCount

(* A unit starts with nothing open but itself, and ends so.                *)
LEMMA NoneAtEnds ==
    ASSUME StreamShape, NEW tag, tag # "unit"
    PROVE  /\ phase # "unit" => OpenCount(tag) = 0
           /\ SaxStartUnit => OpenCount(tag)' = 0
           /\ SaxEndUnit => OpenCount(tag) = 0 /\ OpenCount(tag)' = 0
  <1>1. phase # "unit" => OpenOf(tag) = {}
    BY DEF StreamShape, OpenOf
  <1>2. SaxStartUnit => OpenOf(tag)' = {}
    BY DEF SaxStartUnit, Fresh, OpenOf
  <1>3. SaxEndUnit => OpenOf(tag) = {} /\ OpenOf(tag)' = {}
    BY DEF StreamShape, SaxEndUnit, OpenOf
  <1> QED
    BY <1>1, <1>2, <1>3, FS_EmptySet DEF OpenCount

-----------------------------------------------------------------------------
(* No function is inside another, as srcMetrics asks of the code it reads. *)
OneFunction ==
    \A i, j \in DOMAIN open :
        open[i].tag = "function" /\ open[j].tag = "function" => i = j

(* A function that starts is the only one, and one that ends was.          *)
LEMMA OnlyFunction ==
    ASSUME SaxTypeOK, StreamShape
    PROVE  /\ SaxStartElement("function") /\ "function" \in Tags /\ OneFunction' =>
                  "function" \notin OpenTags
           /\ SaxEndElement("function") /\ "function" \in Tags /\ OneFunction =>
                  "function" \notin OpenTags'
  <1>1. ASSUME SaxStartElement("function"), "function" \in Tags, OneFunction',
               NEW i \in DOMAIN open, open[i].tag = "function"
        PROVE  FALSE
    <2>1. /\ Len(open) \in Nat /\ DOMAIN open = 1..Len(open)
          /\ Len(open') = Len(open) + 1 /\ DOMAIN open' = 1..Len(open')
          /\ open'[i].tag = "function" /\ open'[Len(open')].tag = "function"
      BY <1>1, StartKeepsOpen DEF SaxTypeOK
    <2> QED
      BY <1>1, <2>1 DEF OneFunction
  <1>2. ASSUME SaxEndElement("function"), "function" \in Tags, OneFunction,
               NEW i \in DOMAIN open', open'[i].tag = "function"
        PROVE  FALSE
    <2>1. /\ Len(open) \in Nat /\ DOMAIN open = 1..Len(open)
          /\ Len(open') = Len(open) - 1 /\ DOMAIN open' = 1..Len(open')
          /\ open[i].tag = "function" /\ open[Len(open)].tag = "function"
      BY <1>2, EndKeepsOpen DEF SaxTypeOK
    <2>2. Len(open) \in DOMAIN open /\ i \in DOMAIN open /\ i # Len(open)
      BY <2>1
    <2> QED
      BY <1>2, <2>1, <2>2 DEF OneFunction
  <1> QED
    BY <1>1, <1>2 DEF OpenTags

-----------------------------------------------------------------------------
(* The dispatcher.                                                         *)

Strings == Seq(Seq(Piece))

-----------------------------------------------------------------------------
(* Lemmas on the Chunk and on the keys.                                    *)

(* add_chunk puts the new string last and keeps the others.                *)
LEMMA AddChunk ==
    ASSUME NEW c \in Strings, NEW s \in Seq(Piece)
    PROVE  /\ add_chunk(c, s) \in Strings
           /\ Len(add_chunk(c, s)) = Len(c) + 1
           /\ \A i \in DOMAIN c : add_chunk(c, s)[i] = c[i]
           /\ add_chunk(c, s)[Len(c) + 1] = s
  BY DEF add_chunk, Strings

(* addIndex_chunk is add_chunk of a string the Chunk holds.                *)
LEMMA AddIndexChunk ==
    ASSUME NEW c \in Strings, NEW id \in 1..Len(c)
    PROVE  /\ addIndex_chunk(c, id) \in Strings
           /\ Len(addIndex_chunk(c, id)) = Len(c) + 1
           /\ \A i \in DOMAIN c : addIndex_chunk(c, id)[i] = c[i]
           /\ addIndex_chunk(c, id)[Len(c) + 1] = c[id]
  BY DEF addIndex_chunk, Strings

(* append_chunk changes the last string only.                              *)
LEMMA AppendChunk ==
    ASSUME NEW c \in Strings, NEW s \in Seq(Piece), c # <<>>
    PROVE  /\ append_chunk(c, s) \in Strings
           /\ Len(append_chunk(c, s)) = Len(c)
           /\ \A i \in DOMAIN c : i # Len(c) => append_chunk(c, s)[i] = c[i]
           /\ append_chunk(c, s)[Len(c)] = c[Len(c)] \o s
  <1>1. Len(c) \in 1..Len(c) /\ c[Len(c)] \in Seq(Piece)
    BY DEF Strings
  <1>2. c[Len(c)] \o s \in Seq(Piece)
    BY <1>1
  <1> QED
    BY <1>1, <1>2 DEF append_chunk, Strings

(* The row names of any set of metrics are a sequence of pieces.           *)
LEMMA RowsType == \A metrics : RowsOf(metrics) \in Seq(Piece)
  <1> TAKE metrics
  <1> DEFINE Rows(m) == IF m \in Enabled \cap metrics THEN RowNames[m] ELSE <<>>
  <1>1. /\ "ABC-A" \in Piece /\ "ABC-B" \in Piece /\ "ABC-C" \in Piece /\ "ABC" \in Piece
        /\ "AMS" \in Piece /\ "HSM-V" \in Piece /\ "HSM-D" \in Piece /\ "HSM-E" \in Piece
        /\ "HSM-B" \in Piece /\ "HSM-T" \in Piece /\ "MC" \in Piece /\ "MND" \in Piece
        /\ "NPM" \in Piece /\ "RFU" \in Piece /\ "SLOC" \in Piece
    BY DEF Piece
  <1>2. RowNames.ABC \in Seq(Piece)
    BY <1>1 DEF RowNames, AbcNames
  <1>3. RowNames.HSM \in Seq(Piece)
    BY <1>1 DEF RowNames, HsmNames
  <1>4. /\ RowNames.AMS \in Seq(Piece) /\ RowNames.MC \in Seq(Piece)
        /\ RowNames.MND \in Seq(Piece) /\ RowNames.NPM \in Seq(Piece)
        /\ RowNames.RFU \in Seq(Piece) /\ RowNames.SLOC \in Seq(Piece)
    BY <1>1 DEF RowNames
  <1>5. <<>> \in Seq(Piece)
    OBVIOUS
  <1>6. /\ Rows("ABC") \in Seq(Piece) /\ Rows("AMS") \in Seq(Piece)
        /\ Rows("HSM") \in Seq(Piece) /\ Rows("MC") \in Seq(Piece)
        /\ Rows("MND") \in Seq(Piece) /\ Rows("NPM") \in Seq(Piece)
        /\ Rows("RFU") \in Seq(Piece) /\ Rows("SLOC") \in Seq(Piece)
    BY <1>2, <1>3, <1>4, <1>5, Zenon
  <1>7. RowsOf(metrics) = Rows("ABC") \o Rows("AMS") \o Rows("HSM") \o Rows("MC") \o
                          Rows("MND") \o Rows("NPM") \o Rows("RFU") \o Rows("SLOC")
    BY DEF RowsOf
  <1> HIDE DEF Rows
  <1>8. \A a, b, c, d, e, f, g \in Seq(Piece) :
          a \o b \o c \o d \o e \o f \o g \in Seq(Piece)
    OBVIOUS
  <1> QED
    BY <1>6, <1>7, <1>8

(* get_chunk yields a string, whatever the identifier.                     *)
LEMMA GetChunk ==
    ASSUME NEW c \in Strings, NEW id
    PROVE  get_chunk(c, id) \in Seq(Piece)
  <1>1. <<>> \in Seq(Piece)
    OBVIOUS
  <1>2. CASE id \in DOMAIN c
    BY <1>2 DEF get_chunk, Strings
  <1>3. CASE id \notin DOMAIN c
    BY <1>1, <1>3, Zenon DEF get_chunk
  <1> QED
    BY <1>2, <1>3

(* A sequence of new strings, one per row, leaves those that were there.   *)
LEMMA Extend ==
    ASSUME NEW c \in Strings, NEW rows \in Seq(Piece),
           NEW keys \in [DOMAIN rows -> Seq(Piece)]
    PROVE  /\ c \o keys \in Strings
           /\ Len(c \o keys) >= Len(c)
           /\ \A i \in DOMAIN c : (c \o keys)[i] = c[i]
  <1>1. DOMAIN rows = 1..Len(rows) /\ Len(rows) \in Nat
    OBVIOUS
  <1>2. keys \in Strings
    BY <1>1 DEF Strings
  <1> QED
    BY <1>2 DEF Strings

(* Adding keys keeps every string that was there.                          *)
LEMMA AddKeys ==
    ASSUME NEW c \in Strings, NEW rows \in Seq(Piece), NEW id
    PROVE  /\ WithKeys(c, rows, id) \in Strings
           /\ Len(WithKeys(c, rows, id)) >= Len(c)
           /\ \A i \in DOMAIN c : WithKeys(c, rows, id)[i] = c[i]
  <1> DEFINE keys == [i \in DOMAIN rows |-> <<rows[i], "_">> \o get_chunk(c, id)]
  <1>1. get_chunk(c, id) \in Seq(Piece)
    BY GetChunk
  <1>2. "_" \in Piece
    BY DEF Piece
  <1>3. ASSUME NEW i \in DOMAIN rows
        PROVE  <<rows[i], "_">> \o get_chunk(c, id) \in Seq(Piece)
    <2>1. rows[i] \in Piece
      OBVIOUS
    <2>2. \A a, b \in Piece, q \in Seq(Piece) : <<a, b>> \o q \in Seq(Piece)
      OBVIOUS
    <2> QED
      BY <1>1, <1>2, <2>1, <2>2, Zenon
  <1>4. keys \in [DOMAIN rows -> Seq(Piece)]
    BY <1>3, Zenon
  <1>5. WithKeys(c, rows, id) = c \o keys
    BY DEF WithKeys
  <1> HIDE DEF keys
  <1> QED
    BY <1>4, <1>5, Extend

(* The same for the document's keys, which name no subject.                *)
LEMMA AddDocumentKeys ==
    ASSUME NEW c \in Strings, NEW rows \in Seq(Piece)
    PROVE  LET keys == [i \in DOMAIN rows |-> <<rows[i]>>] IN
           /\ c \o keys \in Strings
           /\ Len(c \o keys) >= Len(c)
           /\ \A i \in DOMAIN c : (c \o keys)[i] = c[i]
  <1> DEFINE keys == [i \in DOMAIN rows |-> <<rows[i]>>]
  <1>1. \A i \in DOMAIN rows : <<rows[i]>> \in Seq(Piece)
    OBVIOUS
  <1>2. keys \in [DOMAIN rows -> Seq(Piece)]
    BY <1>1, Zenon
  <1> HIDE DEF keys
  <1>3. /\ c \o keys \in Strings
        /\ Len(c \o keys) >= Len(c)
        /\ \A i \in DOMAIN c : (c \o keys)[i] = c[i]
    BY <1>2, Extend
  <1> QED
    BY <1>3 DEF keys

(* The name of a function is put together from nothing, piece by piece.    *)
LEMMA PiecesEmpty == \A unit \in Seq(Piece) : unit \o <<"::">> \o <<>> = unit \o <<"::">>
  <1> TAKE unit \in Seq(Piece)
  <1>1. "::" \in Piece
    BY DEF Piece
  <1>2. unit \o <<"::">> \in Seq(Piece)
    BY <1>1
  <1> QED
    BY <1>2, ConcatEmptySeq

(* What the readers append is the same.                                    *)
LEMMA PiecesAppend ==
    ASSUME NEW unit \in Seq(Piece), NEW name \in Seq(Text), NEW ch \in Text
    PROVE  (unit \o <<"::">> \o name) \o <<ch>> = unit \o <<"::">> \o Append(name, ch)
  <1>1. "::" \in Piece /\ Text \subseteq Piece
    BY DEF Piece
  <1>2. name \in Seq(Piece) /\ unit \o <<"::">> \in Seq(Piece)
    BY <1>1
  <1>3. ASSUME NEW a \in Seq(Piece), NEW b \in Seq(Piece), NEW c \in Piece
        PROVE  (a \o b) \o <<c>> = a \o Append(b, c)
    <2>1. <<c>> \in Seq(Piece)
      OBVIOUS
    <2>2. Append(b, c) = b \o <<c>>
      BY AppendIsConcat
    <2> QED
      BY <2>1, <2>2, ConcatAssociative
  <1> QED
    BY <1>1, <1>2, <1>3

-----------------------------------------------------------------------------
(* The inductive invariant.                                                *)

(* While a function is being read, its element is open: this is what keeps *)
(* function_read_state from surviving the end of a unit.                   *)
ReadingIsOpen ==
    function_read_state # 0 => \E i \in DOMAIN open : open[i].tag = "function"

(* Inside a unit the unit has a string.                                    *)
UnitHasId == phase = "unit" => currentUnit_id # NoId

(* The string that is put together is not the unit's.                      *)
UnitBeforeFn == function_read_state \in 1..4 => currentUnit_id < Len(strings)

IInv ==
    /\ TypeOK
    /\ StreamShape
    /\ ReadingIsOpen
    /\ UnitHasId
    /\ AppendsReachFn
    /\ UnitBeforeFn

(* The initial states satisfy the invariant.                               *)
LEMMA InitIInv == Init => IInv
  <1> SUFFICES ASSUME Init PROVE IInv
    OBVIOUS
  <1>1. SaxTypeOK
    BY DEF Init, SaxInit, SaxTypeOK, Phases
  <1>2. strings \in Strings /\ Len(strings) = 0
    BY DEF Init, Strings
  <1>3. TypeOK
    BY <1>1, <1>2 DEF Init, TypeOK, NoId, Strings
  <1> QED
    BY <1>3 DEF Init, SaxInit, IInv, StreamShape, ReadingIsOpen, UnitHasId, AppendsReachFn, UnitBeforeFn

(* What a step may do to the strings that exist.                           *)
StringsKept ==
    \A i \in DOMAIN strings :
        strings'[i] # strings[i] => i = currentFn_id /\ function_read_state = 4

(* A function element starts: its string is the last one.                  *)
LEMMA FunctionStartsStep ==
    ASSUME IInv, NEW t \in Tags, SaxStartElement(t), FunctionStarts(t),
           UNCHANGED currentUnit_id
    PROVE  /\ IInv' /\ StringsKept /\ Len(strings') = Len(strings) + 1
           /\ \A i \in DOMAIN strings : strings'[i] = strings[i]
  <1>1. strings \in Strings /\ currentUnit_id \in 1..Len(strings) /\ phase = "unit"
    BY DEF IInv, TypeOK, UnitHasId, SaxStartElement, NoId, Strings
  <1>2. /\ SaxTypeOK' /\ StreamShape' /\ Len(open') = Len(open) + 1
        /\ open'[Len(open')].tag = "function"
    BY StartKeepsOpen DEF IInv, TypeOK, FunctionStarts
  <1> DEFINE copied == addIndex_chunk(strings, currentUnit_id)
  <1>3. /\ copied \in Strings /\ Len(copied) = Len(strings) + 1
        /\ \A i \in DOMAIN strings : copied[i] = strings[i]
    BY <1>1, AddIndexChunk
  <1>4. strings' = append_chunk(copied, <<"::">>)
    BY DEF FunctionStarts
  <1>5. <<"::">> \in Seq(Piece)
    <2>1. "::" \in Piece
      BY DEF Piece
    <2> QED
      BY <2>1
  <1> HIDE DEF copied
  <1>6. Len(strings) \in Nat /\ copied # <<>> /\ DOMAIN strings = 1..Len(strings)
        /\ DOMAIN copied = 1..Len(copied)
    BY <1>1, <1>3 DEF Strings
  <1>7. /\ strings' \in Strings /\ Len(strings') = Len(strings) + 1
        /\ \A i \in DOMAIN strings : strings'[i] = strings[i]
    <2>1. /\ append_chunk(copied, <<"::">>) \in Strings
          /\ Len(append_chunk(copied, <<"::">>)) = Len(copied)
          /\ \A i \in DOMAIN copied :
                i # Len(copied) => append_chunk(copied, <<"::">>)[i] = copied[i]
      BY <1>3, <1>5, <1>6, AppendChunk, Zenon
    <2> HIDE DEF copied
    <2> QED
      BY <1>3, <1>4, <1>6, <2>1
  <1>8. TypeOK'
    BY <1>1, <1>2, <1>6, <1>7 DEF TypeOK, FunctionStarts, Strings
  <1>9. ReadingIsOpen'
    <2>1. Len(open') \in DOMAIN open'
      BY <1>2 DEF SaxTypeOK, IInv, TypeOK
    <2> QED
      BY <1>2, <2>1 DEF ReadingIsOpen
  <1>10. UnitHasId' /\ AppendsReachFn' /\ UnitBeforeFn'
    BY <1>1, <1>6, <1>7 DEF UnitHasId, AppendsReachFn, UnitBeforeFn, FunctionStarts, NoId
  <1>11. StringsKept
    BY <1>7 DEF StringsKept
  <1> QED
    BY <1>2, <1>7, <1>8, <1>9, <1>10, <1>11 DEF IInv

(* The other three disjuncts of a starting element leave the strings alone. *)
LEMMA OtherStartStep ==
    ASSUME IInv, NEW t \in Tags, SaxStartElement(t), UNCHANGED currentUnit_id,
           TypeStarts(t) \/ NameStarts(t) \/ OtherStarts(t)
    PROVE  IInv' /\ StringsKept /\ strings' = strings
  <1>1. /\ SaxTypeOK' /\ StreamShape' /\ Len(open') = Len(open) + 1
        /\ \A i \in DOMAIN open : open'[i].tag = open[i].tag
    BY StartKeepsOpen DEF IInv, TypeOK
  <1>2. /\ strings' = strings /\ currentFn_id' = currentFn_id
        /\ function_read_state' \in 0..5
        /\ function_read_state' # 0 => function_read_state # 0
        /\ function_read_state' \in 1..4 => function_read_state \in 1..4
    BY DEF TypeStarts, NameStarts, OtherStarts, IInv, TypeOK
  <1>3. TypeOK'
    BY <1>1, <1>2 DEF TypeOK, IInv
  <1>4. ReadingIsOpen'
    <2> SUFFICES ASSUME function_read_state' # 0
                 PROVE  \E i \in DOMAIN open' : open'[i].tag = "function"
      BY DEF ReadingIsOpen
    <2>1. PICK i \in DOMAIN open : open[i].tag = "function"
      BY <1>2 DEF IInv, ReadingIsOpen
    <2>2. i \in DOMAIN open' /\ open'[i].tag = "function"
      BY <1>1, <2>1 DEF SaxTypeOK, IInv, TypeOK
    <2> QED
      BY <2>2
  <1>5. UnitHasId' /\ AppendsReachFn' /\ UnitBeforeFn'
    BY <1>2 DEF UnitHasId, AppendsReachFn, UnitBeforeFn, IInv, SaxStartElement
  <1> QED
    BY <1>1, <1>2, <1>3, <1>4, <1>5 DEF IInv, StringsKept

(* A function element ends: the metrics add their keys after its name.     *)
LEMMA FunctionEndsStep ==
    ASSUME IInv, NEW t \in Tags, SaxEndElement(t), FunctionEnds(t),
           UNCHANGED currentUnit_id
    PROVE  IInv' /\ StringsKept
  <1>1. SaxTypeOK' /\ StreamShape'
    BY EndKeepsOpen DEF IInv, TypeOK
  <1>2. strings \in Strings /\ FnRows \in Seq(Piece)
    BY RowsType DEF IInv, TypeOK, Strings, FnRows
  <1>3. strings' = WithKeys(strings, FnRows, currentFn_id)
    BY DEF FunctionEnds
  <1>4. /\ strings' \in Strings /\ Len(strings') >= Len(strings)
        /\ \A i \in DOMAIN strings : strings'[i] = strings[i]
    BY <1>2, <1>3, AddKeys
  <1>5. TypeOK'
    BY <1>1, <1>2, <1>4 DEF TypeOK, IInv, FunctionEnds, Strings, NoId
  <1> QED
    BY <1>1, <1>4, <1>5
    DEF IInv, StringsKept, FunctionEnds, ReadingIsOpen, UnitHasId, AppendsReachFn, UnitBeforeFn, SaxEndElement

(* Steps inside a function's name extend the last string, the function's.  *)
LEMMA NameGrows ==
    ASSUME IInv, function_read_state = 4, NEW piece \in Piece,
           strings' = append_chunk(strings, <<piece>>)
    PROVE  /\ strings' \in Strings
           /\ Len(strings') = Len(strings)
           /\ StringsKept
  <1>1. strings \in Strings /\ Len(strings) \in 1..Len(strings) /\ strings # <<>>
        /\ currentFn_id = Len(strings)
    BY DEF IInv, TypeOK, AppendsReachFn, Strings, NoId
  <1>2. <<piece>> \in Seq(Piece)
    OBVIOUS
  <1>3. /\ strings' \in Strings /\ Len(strings') = Len(strings)
        /\ \A i \in DOMAIN strings : i # Len(strings) => strings'[i] = strings[i]
    BY <1>1, <1>2, AppendChunk
  <1> QED
    BY <1>1, <1>3 DEF StringsKept

(* The other elements that end: a function that is open stays open.        *)
LEMMA OtherEndStep ==
    ASSUME IInv, NEW t \in Tags, SaxEndElement(t), UNCHANGED currentUnit_id,
           TypeEnds(t) \/ NameEnds(t) \/ OtherEnds(t)
    PROVE  IInv' /\ StringsKept /\ Len(strings') = Len(strings)
  <1>1. /\ SaxTypeOK' /\ StreamShape' /\ Len(open') = Len(open) - 1
        /\ open[Len(open)].tag = t
        /\ \A i \in DOMAIN open' : open'[i].tag = open[i].tag
    BY EndKeepsOpen DEF IInv, TypeOK
  <1>2. /\ t # "function" /\ currentFn_id' = currentFn_id
        /\ function_read_state' \in 0..5
        /\ function_read_state' # 0 => function_read_state # 0
        /\ function_read_state' \in 1..4 => function_read_state \in 1..4
    BY DEF TypeEnds, NameEnds, OtherEnds, IInv, TypeOK
  <1>3. strings' \in Strings /\ Len(strings') = Len(strings) /\ StringsKept
    <2>1. CASE strings' = strings
      BY <2>1 DEF StringsKept, IInv, TypeOK, Strings
    <2>2. CASE NameEnds(t)
      <3>1. "()" \in Piece
        BY DEF Piece
      <3> QED
        BY <2>2, <3>1, NameGrows DEF NameEnds
    <2> QED
      BY <2>1, <2>2 DEF TypeEnds, OtherEnds
  <1>4. TypeOK'
    BY <1>1, <1>2, <1>3 DEF TypeOK, IInv, Strings
  <1>5. ReadingIsOpen'
    <2> SUFFICES ASSUME function_read_state' # 0
                 PROVE  \E i \in DOMAIN open' : open'[i].tag = "function"
      BY DEF ReadingIsOpen
    <2>1. PICK i \in DOMAIN open : open[i].tag = "function"
      BY <1>2 DEF IInv, ReadingIsOpen
    <2>2. open \in Seq(Element) /\ open' \in Seq(Element)
      BY <1>1 DEF IInv, TypeOK, SaxTypeOK
    <2>3. i # Len(open)
      BY <1>1, <1>2, <2>1
    <2>4. i \in DOMAIN open'
      BY <1>1, <2>1, <2>2, <2>3
    <2> QED
      BY <1>1, <2>1, <2>4
  <1>6. UnitHasId' /\ AppendsReachFn' /\ UnitBeforeFn'
    BY <1>2, <1>3 DEF UnitHasId, AppendsReachFn, UnitBeforeFn, IInv, SaxEndElement
  <1> QED
    BY <1>1, <1>3, <1>4, <1>5, <1>6 DEF IInv

(* Character data.                                                         *)
LEMMA CharactersStep ==
    ASSUME IInv, NEW ch \in Text, event_charactersUnit(ch)
    PROVE  IInv' /\ StringsKept /\ Len(strings') = Len(strings)
  <1>1. /\ SaxTypeOK' /\ StreamShape' /\ Len(open') = Len(open)
        /\ \A i \in DOMAIN open : open'[i].tag = open[i].tag
    BY CharactersKeepOpen DEF IInv, TypeOK, event_charactersUnit
  <1>2. UNCHANGED <<function_read_state, currentUnit_id, currentFn_id>>
    BY DEF event_charactersUnit
  <1>3. strings' \in Strings /\ Len(strings') = Len(strings) /\ StringsKept
    <2>1. CASE function_read_state = 4
      <3>1. ch \in Piece
        BY DEF Piece
      <3> QED
        BY <2>1, <3>1, NameGrows DEF event_charactersUnit
    <2>2. CASE function_read_state # 4
      BY <2>2 DEF event_charactersUnit, StringsKept, IInv, TypeOK, Strings
    <2> QED
      BY <2>1, <2>2
  <1>4. TypeOK'
    BY <1>1, <1>2, <1>3 DEF TypeOK, IInv, Strings
  <1>5. ReadingIsOpen'
    <2>1. DOMAIN open' = DOMAIN open
      BY <1>1 DEF IInv, TypeOK, SaxTypeOK
    <2> QED
      BY <1>1, <1>2, <2>1 DEF ReadingIsOpen, IInv
  <1>6. UnitHasId' /\ AppendsReachFn' /\ UnitBeforeFn'
    BY <1>2, <1>3 DEF UnitHasId, AppendsReachFn, UnitBeforeFn, IInv, event_charactersUnit, SaxCharacters
  <1> QED
    BY <1>1, <1>3, <1>4, <1>5, <1>6 DEF IInv

(* No element is open between units, hence no function is being read.      *)
LEMMA IdleOutsideUnit == IInv /\ phase # "unit" => function_read_state = 0
  BY DEF IInv, StreamShape, ReadingIsOpen

(* A unit starts.                                                          *)
LEMMA StartUnitStep ==
    ASSUME IInv, NEW filename \in Filenames, event_startUnit(filename)
    PROVE  /\ IInv' /\ StringsKept /\ Len(strings') = Len(strings) + 1
           /\ strings'[Len(strings) + 1] = <<filename>>
  <1>1. strings \in Strings /\ <<filename>> \in Seq(Piece) /\ function_read_state = 0
    <2>1. filename \in Piece
      BY DEF Piece
    <2> QED
      BY <2>1, IdleOutsideUnit
      DEF IInv, TypeOK, Strings, event_startUnit, SaxStartUnit
  <1>2. /\ strings' \in Strings /\ Len(strings') = Len(strings) + 1
        /\ \A i \in DOMAIN strings : strings'[i] = strings[i]
        /\ strings'[Len(strings) + 1] = <<filename>>
    BY <1>1, AddChunk DEF event_startUnit
  <1>3. SaxTypeOK' /\ StreamShape'
    <2>1. Fresh("unit") \in Element /\ Fresh("unit").tag = "unit"
      BY DEF Fresh, Element
    <2>2. <<Fresh("unit")>> \in Seq(Element)
      BY <2>1
    <2> QED
      BY <2>1, <2>2
      DEF event_startUnit, SaxStartUnit, SaxTypeOK, StreamShape, Phases, IInv, TypeOK
  <1>4. TypeOK'
    BY <1>1, <1>2, <1>3 DEF TypeOK, IInv, Strings, event_startUnit
  <1>5. UnitHasId'
    BY <1>1 DEF UnitHasId, event_startUnit, NoId, Strings
  <1>6. ReadingIsOpen' /\ AppendsReachFn' /\ UnitBeforeFn'
    BY <1>1 DEF ReadingIsOpen, AppendsReachFn, UnitBeforeFn, event_startUnit
  <1> QED
    BY <1>2, <1>3, <1>4, <1>5, <1>6 DEF IInv, StringsKept

(* A unit ends: only the unit itself was open.                             *)
LEMMA EndUnitStep ==
    ASSUME IInv, event_endUnit
    PROVE  IInv' /\ StringsKept
  <1>1. SaxTypeOK' /\ StreamShape'
    BY DEF event_endUnit, SaxEndUnit, SaxTypeOK, StreamShape, Phases, IInv, TypeOK
  <1>2. function_read_state = 0
    <2>1. DOMAIN open = {1} /\ open[1].tag = "unit"
      BY DEF event_endUnit, SaxEndUnit, IInv, TypeOK, SaxTypeOK, StreamShape
    <2> QED
      BY <2>1 DEF IInv, ReadingIsOpen
  <1>3. strings \in Strings /\ UnitRows \in Seq(Piece)
    BY RowsType DEF IInv, TypeOK, Strings, UnitRows
  <1>4. strings' = WithKeys(strings, UnitRows, currentUnit_id)
    BY DEF event_endUnit
  <1>5. /\ strings' \in Strings /\ Len(strings') >= Len(strings)
        /\ \A i \in DOMAIN strings : strings'[i] = strings[i]
    BY <1>3, <1>4, AddKeys
  <1>6. TypeOK'
    BY <1>1, <1>2, <1>3, <1>5 DEF TypeOK, IInv, event_endUnit, Strings, NoId
  <1> QED
    BY <1>1, <1>2, <1>5, <1>6
    DEF IInv, StringsKept, event_endUnit, SaxEndUnit, ReadingIsOpen, UnitHasId, AppendsReachFn, UnitBeforeFn

(* The document and the root start and end while no unit is open.          *)
LEMMA OutsideUnitStep ==
    ASSUME IInv,
           event_startDocument \/ event_startRoot \/ event_endRoot \/ event_endDocument
    PROVE  IInv' /\ StringsKept
  <1>1. /\ SaxTypeOK' /\ StreamShape' /\ function_read_state = 0
        /\ phase' # "unit" /\ UNCHANGED function_read_state
    <2>1. PICK from \in {"start", "document", "root", "closed"},
               to \in {"document", "root", "closed", "end"} : SaxMove(from, to)
      BY DEF event_startDocument, event_startRoot, event_endRoot, event_endDocument,
             SaxStartDocument, SaxStartRoot, SaxEndRoot, SaxEndDocument
    <2>2. from # "unit" /\ to # "unit" /\ to \in Phases
      BY DEF Phases
    <2>3. SaxTypeOK' /\ StreamShape'
      BY <2>1, <2>2, MoveKeepsShape DEF IInv, TypeOK
    <2> QED
      BY <2>1, <2>2, <2>3, IdleOutsideUnit
      DEF SaxMove, event_startDocument, event_startRoot, event_endRoot, event_endDocument,
          eventVars
  <1>2. strings \in Strings /\ UnitRows \in Seq(Piece)
    BY RowsType DEF IInv, TypeOK, Strings, UnitRows
  <1>3. /\ strings' \in Strings /\ Len(strings') >= Len(strings)
        /\ \A i \in DOMAIN strings : strings'[i] = strings[i]
    <2>1. CASE event_endDocument
      BY <1>2, <2>1, AddDocumentKeys DEF event_endDocument
    <2>2. CASE strings' = strings
      BY <1>2, <2>2 DEF Strings
    <2> QED
      BY <2>1, <2>2 DEF event_startDocument, event_startRoot, event_endRoot, eventVars
  <1>4. currentUnit_id' \in 0..Len(strings') /\ currentFn_id' \in 0..Len(strings')
    BY <1>2, <1>3
    DEF IInv, TypeOK, Strings, NoId, event_startDocument, event_startRoot, event_endRoot,
        event_endDocument, eventVars
  <1>5. TypeOK'
    BY <1>1, <1>3, <1>4 DEF TypeOK, Strings
  <1> QED
    BY <1>1, <1>3, <1>5 DEF IInv, StringsKept, ReadingIsOpen, UnitHasId, AppendsReachFn, UnitBeforeFn

(* Every step preserves the invariant and keeps the strings.               *)
LEMMA StepIInv == IInv /\ [Next]_vars => IInv' /\ (StringsKept \/ UNCHANGED vars)
  <1> SUFFICES ASSUME IInv, [Next]_vars PROVE IInv' /\ (StringsKept \/ UNCHANGED vars)
    OBVIOUS
  <1>1. ASSUME NEW t \in Tags, event_startElement(t) PROVE IInv' /\ StringsKept
    BY <1>1, FunctionStartsStep, OtherStartStep DEF event_startElement
  <1>2. ASSUME NEW t \in Tags, event_endElement(t) PROVE IInv' /\ StringsKept
    BY <1>2, FunctionEndsStep, OtherEndStep DEF event_endElement
  <1>3. CASE UNCHANGED vars
    BY <1>3
    DEF vars, saxVars, eventVars, IInv, TypeOK, SaxTypeOK, StreamShape, ReadingIsOpen,
        UnitHasId, AppendsReachFn, UnitBeforeFn
  <1> QED
    BY <1>1, <1>2, <1>3, CharactersStep, StartUnitStep, EndUnitStep, OutsideUnitStep DEF Next

(* The string of a function that starts is the unit's and two colons.      *)
LEMMA StringStarts ==
    ASSUME IInv, NEW t \in Tags, SaxStartElement(t), FunctionStarts(t)
    PROVE  /\ currentFn_id' = Len(strings) + 1
           /\ strings'[Len(strings) + 1] = strings[currentUnit_id] \o <<"::">>
  <1>1. strings \in Strings /\ currentUnit_id \in 1..Len(strings)
    BY DEF IInv, TypeOK, UnitHasId, SaxStartElement, NoId, Strings
  <1> DEFINE copied == addIndex_chunk(strings, currentUnit_id)
  <1>2. /\ copied \in Strings /\ Len(copied) = Len(strings) + 1
        /\ copied[Len(strings) + 1] = strings[currentUnit_id]
    BY <1>1, AddIndexChunk
  <1>3. strings' = append_chunk(copied, <<"::">>) /\ currentFn_id' = Len(strings) + 1
    BY DEF FunctionStarts
  <1> HIDE DEF copied
  <1>4. <<"::">> \in Seq(Piece)
    <2>1. "::" \in Piece
      BY DEF Piece
    <2> QED
      BY <2>1
  <1>5. copied # <<>>
    BY <1>1, <1>2 DEF Strings
  <1>6. append_chunk(copied, <<"::">>)[Len(copied)] = copied[Len(copied)] \o <<"::">>
    BY <1>2, <1>4, <1>5, AppendChunk, Zenon
  <1>7. strings'[Len(copied)] = copied[Len(copied)] \o <<"::">>
    BY <1>3, <1>6, Zenon
  <1> QED
    BY <1>2, <1>3, <1>7, Zenon

(* The string of a function is extended inside its name.                   *)
LEMMA StringGrows ==
    ASSUME IInv, function_read_state = 4, NEW piece \in Piece,
           strings' = append_chunk(strings, <<piece>>)
    PROVE  strings'[currentFn_id] = strings[currentFn_id] \o <<piece>>
  <1>1. strings \in Strings /\ strings # <<>> /\ currentFn_id = Len(strings)
    BY DEF IInv, TypeOK, AppendsReachFn, Strings, NoId
  <1>2. <<piece>> \in Seq(Piece)
    OBVIOUS
  <1>3. append_chunk(strings, <<piece>>)[Len(strings)] = strings[Len(strings)] \o <<piece>>
    BY <1>1, <1>2, AppendChunk, Zenon
  <1> QED
    BY <1>1, <1>3, Zenon

(* What the unit's string is and what the function's is, no other step     *)
(* changes.                                                                *)
LEMMA NamesKept ==
    ASSUME IInv, [Next]_vars
    PROVE  /\ phase = "unit" /\ phase' = "unit" =>
                 /\ currentUnit_id' = currentUnit_id
                 /\ strings'[currentUnit_id] = strings[currentUnit_id]
           /\ function_read_state # 4 /\ currentFn_id # NoId =>
                 strings'[currentFn_id] = strings[currentFn_id]
  <1>1. StringsKept \/ UNCHANGED vars
    BY StepIInv
  <1>2. strings \in Strings /\ DOMAIN strings = 1..Len(strings)
        /\ currentUnit_id \in 0..Len(strings) /\ currentFn_id \in 0..Len(strings)
    BY DEF IInv, TypeOK, Strings
  <1>3. phase = "unit" /\ phase' = "unit" => currentUnit_id' = currentUnit_id
    BY DEF Next, vars, eventVars, event_startDocument, event_startRoot, event_startUnit,
           event_startElement, event_endElement, event_charactersUnit, event_endUnit,
           event_endRoot, event_endDocument, SaxStartDocument, SaxStartRoot, SaxStartUnit,
           SaxEndUnit, SaxEndRoot, SaxEndDocument, SaxMove
  <1>4. ASSUME phase = "unit" PROVE strings'[currentUnit_id] = strings[currentUnit_id]
    <2>1. currentUnit_id \in DOMAIN strings
      BY <1>2, <1>4 DEF IInv, UnitHasId, NoId
    <2>2. function_read_state = 4 => currentUnit_id # currentFn_id
      BY <1>2 DEF IInv, UnitBeforeFn, AppendsReachFn, Strings
    <2> QED
      BY <1>1, <2>1, <2>2 DEF StringsKept, vars, eventVars
  <1>5. ASSUME function_read_state # 4, currentFn_id # NoId
        PROVE  strings'[currentFn_id] = strings[currentFn_id]
    <2>1. currentFn_id \in DOMAIN strings
      BY <1>2, <1>5 DEF NoId
    <2> QED
      BY <1>1, <1>5, <2>1 DEF StringsKept, vars, eventVars
  <1> QED
    BY <1>3, <1>4, <1>5

-----------------------------------------------------------------------------
(* The theorems.                                                           *)

(* The invariant holds of every run, whatever the grammar.                 *)
THEOREM Invariance == Spec => []IInv
  <1>1. IInv /\ [Next]_vars => IInv'
    BY StepIInv
  <1> QED
    BY InitIInv, <1>1, PTL DEF Spec

(* Types: read state, identifiers and strings stay in their ranges.        *)
THEOREM TypeCorrect == Spec => []TypeOK
  <1>1. IInv => TypeOK
    BY DEF IInv
  <1> QED
    BY Invariance, <1>1, PTL

(* The assertion at event.c:149 never fails: no function is being read     *)
(* when a unit starts.                                                     *)
THEOREM UnitStartsIdle == Spec => []StartUnitAssert
  <1>1. IInv => StartUnitAssert
    BY IdleOutsideUnit DEF StartUnitAssert
  <1> QED
    BY Invariance, <1>1, PTL

(* append_chunk always reaches the function whose name is being read.      *)
THEOREM AppendsReach == Spec => []AppendsReachFn
  <1>1. IInv => AppendsReachFn
    BY DEF IInv
  <1> QED
    BY Invariance, <1>1, PTL

(* No string changes but the name of the function being read.              *)
THEOREM NamesStable == Spec => OnlyFnNameGrows
  <1>1. IInv /\ [Next]_vars =>
          [\A i \in DOMAIN strings :
              strings'[i] # strings[i] => i = currentFn_id /\ function_read_state = 4]_vars
    BY StepIInv DEF StringsKept
  <1> QED
    BY Invariance, <1>1, PTL DEF Spec, OnlyFnNameGrows

-----------------------------------------------------------------------------
(* The names of functions, where they are written as in C.                 *)

(* A function element has its type, then its name, then what else there is *)
(* of it; a name is plain text.                                            *)
FunctionsAreNamed ==
    /\ "function" \in Tags =>
          /\ {1, 2} \subseteq DOMAIN Grammar["function"]
          /\ Grammar["function"][1] = [tags |-> {"type"}, least |-> 1, many |-> FALSE]
          /\ Grammar["function"][2] = [tags |-> {"name"}, least |-> 1, many |-> FALSE]
          /\ \A k \in DOMAIN Grammar["function"] :
                k > 2 => "name" \notin Grammar["function"][k].tags
    /\ "name" \in Tags => Grammar["name"] = <<>>

(* No type is part of the type of a function.                              *)
TypesApart ==
    \A i, j \in DOMAIN open :
        open[i].tag = "function" /\ i + 1 < j /\ open[i + 1].tag = "type" =>
            open[j].tag # "type"

(* What the reader has seen of the function at place i of the stack.       *)
ReadSoFar(i) ==
    /\ function_read_state # 0
    /\ function_read_state = 1 => i = Len(open) /\ open[i].slot = 0
    /\ function_read_state = 2 =>
          i < Len(open) /\ open[i].slot = 1 /\ open[i + 1].tag = "type"
    /\ function_read_state = 3 => i = Len(open) /\ open[i].slot = 1
    /\ function_read_state = 4 =>
          i + 1 = Len(open) /\ open[i].slot = 2 /\ Top.tag = "name"
    /\ function_read_state = 5 =>
          open[i].slot >= 2 /\ (i < Len(open) => open[i + 1].tag # "name")
    /\ function_read_state \in 1..4 => open[i].name = <<>>

FnsRead == \A i \in DOMAIN open : open[i].tag = "function" => ReadSoFar(i)

(* What the string of the function is by then.                             *)
UnitString == strings[currentUnit_id]

NameSoFar ==
    /\ phase = "unit" => Len(UnitString) = 1
    /\ function_read_state \in 1..3 => strings[currentFn_id] = UnitString \o <<"::">>
    /\ function_read_state = 4 => strings[currentFn_id] = UnitString \o <<"::">> \o Top.text
    /\ function_read_state = 5 =>
          /\ currentFn_id # NoId
          /\ \A i \in DOMAIN open : open[i].tag = "function" =>
                strings[currentFn_id] = UnitString \o <<"::">> \o open[i].name \o <<"()">>

NameIInv == FnsRead /\ NameSoFar

(* What an element that starts can be, by what the reader has seen of the  *)
(* function it starts in.                                                  *)
LEMMA NextInFunction ==
    ASSUME FunctionsAreNamed, NEW e \in Element, NEW t \in Tags,
           NEW k \in DOMAIN Grammar[e.tag], Accepts(e, k, t)
    PROVE  /\ e.tag # "name"
           /\ e.tag = "function" =>
                 /\ e.slot = 0 => k = 1 /\ t = "type"
                 /\ e.slot = 1 => k = 2 /\ t = "name"
                 /\ e.slot >= 2 => k >= 2 /\ t # "name"
  <1>1. e.tag # "name"
    BY StreamAssumption DEF FunctionsAreNamed, Element
  <1>2. ASSUME e.tag = "function"
        PROVE  /\ e.slot = 0 => k = 1 /\ t = "type"
               /\ e.slot = 1 => k = 2 /\ t = "name"
               /\ e.slot >= 2 => k >= 2 /\ t # "name"
    <2> DEFINE slots == Grammar["function"]
    <2>1. "function" \in Tags
      BY <1>2, StreamAssumption DEF Element
    <2>2. slots \in Seq(Slot) /\ k \in DOMAIN slots
      BY <1>2, <2>1, StreamAssumption
    <2>3. k \in Nat /\ k >= 1 /\ e.slot \in Nat
      BY <2>2 DEF Element
    <2>4. /\ 1 \in DOMAIN slots /\ 2 \in DOMAIN slots
          /\ slots[1].tags = {"type"} /\ slots[1].least = 1 /\ ~slots[1].many
          /\ slots[2].tags = {"name"} /\ slots[2].least = 1 /\ ~slots[2].many
          /\ k > 2 => "name" \notin slots[k].tags
      BY <2>1, <2>2 DEF FunctionsAreNamed
    <2>5. /\ t \in slots[k].tags
          /\ k > e.slot \/ (k = e.slot /\ slots[k].many)
          /\ \A j \in DOMAIN slots : e.slot < j /\ j < k => slots[j].least = 0
      BY <1>2 DEF Accepts
    <2> HIDE DEF slots
    <2>6. e.slot = 0 => k = 1
      BY <2>3, <2>4, <2>5
    <2>7. e.slot = 1 => k = 2
      BY <2>3, <2>4, <2>5
    <2>8. e.slot >= 2 => k > 2
      BY <2>3, <2>4, <2>5
    <2> QED
      BY <2>3, <2>4, <2>5, <2>6, <2>7, <2>8
  <1> QED
    BY <1>1, <1>2

(* An element starts.                                                      *)
LEMMA NameIInvStart ==
    ASSUME FunctionsAreNamed, IInv, NameIInv, OneFunction', NEW t \in Tags,
           event_startElement(t)
    PROVE  NameIInv'
  <1> DEFINE n == Len(open)
  <1>1. SaxTypeOK /\ StreamShape /\ SaxStartElement(t) /\ phase = "unit" /\ phase' = "unit"
    BY DEF IInv, TypeOK, event_startElement, SaxStartElement
  <1>2. /\ open \in Seq(Element) /\ open' \in Seq(Element) /\ n \in Nat /\ n >= 1
        /\ Len(open') = n + 1
        /\ \A i \in 1..n : open'[i].tag = open[i].tag
        /\ \A i \in 1..n - 1 : open'[i] = open[i]
    BY <1>1, StartKeepsOpen, Started DEF SaxTypeOK, StreamShape
  <1>3. Top \in Element /\ Top = open[n] /\ Top' = open'[n + 1] /\ Top' = Fresh(t)
    <2>1. Top = open[n] /\ Top' = open'[n + 1]
      BY <1>2 DEF Top
    <2> QED
      BY <1>1, <1>2, <2>1, Started
  <1>4. PICK k \in DOMAIN Grammar[Top.tag] :
            Accepts(Top, k, t) /\ open'[n] = [Top EXCEPT !.slot = k]
    BY <1>1, Started
  <1>5. open'[n].slot = k /\ open'[n].name = open[n].name
    BY <1>3, <1>4 DEF Element
  <1>6. /\ open[n].tag # "name"
        /\ open[n].tag = "function" =>
              /\ open[n].slot = 0 => k = 1 /\ t = "type"
              /\ open[n].slot = 1 => k = 2 /\ t = "name"
              /\ open[n].slot >= 2 => k >= 2 /\ t # "name"
    BY <1>3, <1>4, NextInFunction
  <1>7. \A i \in 1..n : open'[i].name = open[i].name
    BY <1>2, <1>5
  <1>8. t = "function" => \A i \in 1..n : open[i].tag # "function"
    <2>1. t = "function" => "function" \notin OpenTags
      BY <1>1, OnlyFunction
    <2> QED
      BY <1>2, <2>1 DEF OpenTags
  <1>9. /\ t = "function" => FunctionStarts(t)
        /\ t = "type" /\ function_read_state = 1 => TypeStarts(t)
        /\ t = "name" /\ function_read_state = 3 => NameStarts(t)
        /\ t # "function" /\ ~(t = "type" /\ function_read_state = 1)
             /\ ~(t = "name" /\ function_read_state = 3) => OtherStarts(t)
    BY DEF event_startElement, FunctionStarts, TypeStarts, NameStarts, OtherStarts
  <1>10. function_read_state \in 0..5
    BY DEF IInv, TypeOK
  <1>11. function_read_state # 0 => \E i \in 1..n : open[i].tag = "function" /\ ReadSoFar(i)
    BY <1>2 DEF IInv, ReadingIsOpen, NameIInv, FnsRead
  <1>12. /\ Top'.tag = t /\ Top'.slot = 0 /\ Top'.text = <<>> /\ Top'.name = <<>>
         /\ open'[n + 1].tag = t /\ open'[n + 1].slot = 0 /\ open'[n + 1].name = <<>>
    BY <1>3 DEF Fresh
  <1> HIDE DEF n
  <1>13. FnsRead'
    <2> SUFFICES ASSUME NEW i \in DOMAIN open', open'[i].tag = "function"
                 PROVE  ReadSoFar(i)'
      BY DEF FnsRead
    <2>1. CASE t = "function"
      <3>1. i = n + 1
        BY <1>2, <1>8, <2>1
      <3> QED
        <4>1. function_read_state' = 1
          BY <1>9, <2>1 DEF FunctionStarts
        <4> QED
          BY <1>2, <1>12, <3>1, <4>1 DEF ReadSoFar
    <2>2. CASE t # "function"
      <3>1. i \in 1..n /\ open[i].tag = "function" /\ ReadSoFar(i)
        <4>1. i # n + 1
          BY <1>3, <1>12, <2>2
        <4>2. i \in 1..n
          BY <1>2, <4>1
        <4> QED
          BY <1>2, <4>2 DEF NameIInv, FnsRead, n
      <3>2. open'[i].name = open[i].name /\ (i < n => open'[i].slot = open[i].slot)
        BY <1>2, <1>7, <3>1
      <3>3. i < n => open'[i + 1].tag = open[i + 1].tag
        BY <1>2, <3>1
      <3>4. CASE function_read_state = 1
        <4>1. i = n /\ t = "type" /\ k = 1 /\ open[i].name = <<>>
          BY <1>6, <3>1, <3>4 DEF ReadSoFar, n
        <4>2. function_read_state' = 2
          BY <1>9, <3>4, <4>1 DEF TypeStarts
        <4> QED
          BY <1>2, <1>5, <1>12, <3>2, <4>1, <4>2 DEF ReadSoFar
      <3>5. CASE function_read_state = 2
        BY <1>2, <1>9, <2>2, <3>1, <3>2, <3>3, <3>5 DEF ReadSoFar, OtherStarts, n
      <3>6. CASE function_read_state = 3
        <4>1. i = n /\ t = "name" /\ k = 2 /\ open[i].name = <<>>
          BY <1>6, <3>1, <3>6 DEF ReadSoFar, n
        <4>2. function_read_state' = 4
          BY <1>9, <3>6, <4>1 DEF NameStarts
        <4> QED
          BY <1>2, <1>5, <1>12, <3>2, <4>1, <4>2 DEF ReadSoFar
      <3>7. CASE function_read_state = 4
        BY <1>3, <1>6, <3>1, <3>7 DEF ReadSoFar
      <3>8. CASE function_read_state = 5
        <4>1. function_read_state' = 5
          BY <1>9, <2>2, <3>8 DEF OtherStarts
        <4>2. open[i].slot >= 2 /\ (i < n => open[i + 1].tag # "name")
          BY <3>1, <3>8 DEF ReadSoFar, n
        <4>3. CASE i < n
          BY <1>2, <3>1, <3>2, <3>3, <4>1, <4>2, <4>3 DEF ReadSoFar
        <4>4. CASE i = n
          BY <1>2, <1>5, <1>6, <1>12, <3>1, <4>1, <4>2, <4>4 DEF ReadSoFar
        <4> QED
          BY <1>2, <3>1, <4>3, <4>4
      <3> QED
        BY <1>10, <3>1, <3>4, <3>5, <3>6, <3>7, <3>8 DEF ReadSoFar
    <2> QED
      BY <2>1, <2>2
  <1>14. UnitString' = UnitString /\ UnitString \in Seq(Piece) /\ Len(UnitString) = 1
    <2>1. [Next]_vars
      BY DEF Next
    <2> QED
      BY <1>1, <2>1, NamesKept
      DEF UnitString, IInv, TypeOK, UnitHasId, NoId, NameIInv, NameSoFar
  <1>15. NameSoFar'
    <2>1. CASE t = "function"
      <3>1. function_read_state' = 1
        BY <1>9, <2>1 DEF FunctionStarts
      <3>2. strings'[currentFn_id'] = UnitString' \o <<"::">>
        BY <1>1, <1>9, <1>14, <2>1, StringStarts DEF UnitString
      <3> QED
        BY <1>14, <3>1, <3>2 DEF NameSoFar
    <2>2. CASE t # "function"
      <3>1. strings' = strings /\ currentFn_id' = currentFn_id
        BY <1>9, <2>2 DEF TypeStarts, NameStarts, OtherStarts
      <3>2. /\ function_read_state' \in 1..3 => function_read_state \in 1..3
            /\ function_read_state' = 4 => function_read_state \in {3, 4}
            /\ function_read_state' = 5 => function_read_state = 5
        BY <1>9, <1>10, <2>2 DEF TypeStarts, NameStarts, OtherStarts
      <3>3. function_read_state # 4
        BY <1>3, <1>6, <1>11 DEF ReadSoFar
      <3>4. ASSUME function_read_state' = 4
            PROVE  strings'[currentFn_id'] = UnitString' \o <<"::">> \o Top'.text
        <4>1. strings[currentFn_id] = UnitString \o <<"::">>
          BY <3>2, <3>3, <3>4 DEF NameIInv, NameSoFar
        <4> QED
          BY <1>12, <1>14, <3>1, <4>1, PiecesEmpty
      <3>5. ASSUME function_read_state' = 5, NEW i \in DOMAIN open', open'[i].tag = "function"
            PROVE  strings'[currentFn_id'] =
                       UnitString' \o <<"::">> \o open'[i].name \o <<"()">>
        <4>1. i # n + 1
          BY <1>3, <1>12, <2>2, <3>5
        <4>2. i \in 1..n /\ i \in DOMAIN open
          BY <1>2, <3>5, <4>1 DEF n
        <4>3. open[i].tag = "function" /\ open'[i].name = open[i].name
          BY <1>2, <1>7, <3>5, <4>2
        <4>4. strings[currentFn_id] = UnitString \o <<"::">> \o open[i].name \o <<"()">>
          BY <3>2, <3>5, <4>2, <4>3 DEF NameIInv, NameSoFar
        <4> QED
          BY <1>14, <3>1, <4>3, <4>4
      <3>6. function_read_state' \in 1..3 => strings'[currentFn_id'] = UnitString' \o <<"::">>
        BY <1>14, <3>1, <3>2 DEF NameIInv, NameSoFar
      <3>7. function_read_state' = 5 => currentFn_id' # NoId
        BY <3>1, <3>2 DEF NameIInv, NameSoFar
      <3> QED
        BY <1>14, <3>4, <3>5, <3>6, <3>7 DEF NameSoFar
    <2> QED
      BY <2>1, <2>2
  <1> QED
    BY <1>13, <1>15 DEF NameIInv

(* An element ends.                                                        *)
LEMMA NameIInvEnd ==
    ASSUME FunctionsAreNamed, IInv, NameIInv, OneFunction, TypesApart, NEW t \in Tags,
           event_endElement(t)
    PROVE  NameIInv' /\ (t = "function" => function_read_state = 5)
  <1> DEFINE n == Len(open)
  <1>1. SaxTypeOK /\ StreamShape /\ SaxEndElement(t) /\ phase = "unit" /\ phase' = "unit"
    BY DEF IInv, TypeOK, event_endElement, SaxEndElement
  <1>2. /\ open \in Seq(Element) /\ open' \in Seq(Element) /\ n \in Nat /\ n > 1
        /\ Len(open') = n - 1 /\ open[n].tag = t /\ Top = open[n]
        /\ \A i \in 1..n - 1 : open'[i].tag = open[i].tag
        /\ \A i \in 1..n - 2 : open'[i] = open[i]
    <2>1. Len(open) > 1
      BY <1>1 DEF SaxEndElement
    <2> QED
      BY <1>1, <2>1, EndKeepsOpen, Ended DEF SaxTypeOK, Top
  <1>3. /\ open'[n - 1].slot = open[n - 1].slot
        /\ open'[n - 1].name = IF t = "name" /\ open[n - 1].tag = "function"
                               THEN Top.text ELSE open[n - 1].name
    <2>1. Top' = open'[n - 1] /\ open[n - 1] \in Element
      BY <1>2 DEF Top
    <2> QED
      BY <1>1, <2>1, Ended DEF Element
  <1>4. /\ \A i \in 1..n - 1 : open'[i].slot = open[i].slot
        /\ \A i \in 1..n - 2 : open'[i].name = open[i].name
    BY <1>2, <1>3
  <1>5. function_read_state \in 0..5
    BY DEF IInv, TypeOK
  <1>6. /\ t = "function" => FunctionEnds(t)
        /\ t = "type" /\ function_read_state = 2 => TypeEnds(t)
        /\ t = "name" /\ function_read_state = 4 => NameEnds(t)
        /\ t # "function" /\ ~(t = "type" /\ function_read_state = 2)
             /\ ~(t = "name" /\ function_read_state = 4) => OtherEnds(t)
    BY DEF event_endElement, FunctionEnds, TypeEnds, NameEnds, OtherEnds
  <1>7. function_read_state # 0 => \E i \in 1..n : open[i].tag = "function" /\ ReadSoFar(i)
    BY <1>2 DEF IInv, ReadingIsOpen, NameIInv, FnsRead
  <1>8. UnitString' = UnitString /\ UnitString \in Seq(Piece) /\ Len(UnitString) = 1
    <2>1. [Next]_vars
      BY DEF Next
    <2> QED
      BY <1>1, <2>1, NamesKept
      DEF UnitString, IInv, TypeOK, UnitHasId, NoId, NameIInv, NameSoFar
  <1>9. CASE t = "function"
    <2>1. ReadSoFar(n)
      BY <1>2, <1>9 DEF NameIInv, FnsRead
    <2>2. open[n].slot \notin {0, 1}
      <3>1. Complete(open[n]) /\ open[n].tag = "function" /\ "function" \in Tags
        BY <1>1, <1>2, <1>9 DEF SaxEndElement
      <3> QED
        BY <3>1 DEF Complete, FunctionsAreNamed
    <2>3. function_read_state = 5
      BY <1>2, <1>5, <2>1, <2>2 DEF ReadSoFar
    <2>4. FnsRead'
      <3>1. "function" \notin OpenTags'
        BY <1>1, <1>9, OnlyFunction
      <3> QED
        BY <3>1 DEF FnsRead, OpenTags
    <2>5. function_read_state' = 0
      BY <1>6, <1>9 DEF FunctionEnds
    <2> QED
      BY <1>8, <2>3, <2>4, <2>5 DEF NameIInv, NameSoFar
  <1>10. CASE t # "function"
    <2>1. ASSUME NEW i \in DOMAIN open', open'[i].tag = "function"
          PROVE  /\ i \in 1..n - 1 /\ i \in DOMAIN open /\ open[i].tag = "function"
                 /\ ReadSoFar(i) /\ open'[i].slot = open[i].slot
                 /\ i + 1 < n => open'[i + 1].tag = open[i + 1].tag
                 /\ i + 1 < n => open'[i].name = open[i].name
                 /\ t # "name" => open'[i].name = open[i].name
      <3>1. i \in 1..n - 1 /\ i \in DOMAIN open
        BY <1>2, <2>1
      <3>2. open[i].tag = "function"
        BY <1>2, <2>1, <3>1
      <3>3. ReadSoFar(i)
        BY <3>1, <3>2 DEF NameIInv, FnsRead
      <3>4. i + 1 < n => open'[i + 1].tag = open[i + 1].tag /\ open'[i].name = open[i].name
        BY <1>2, <1>4, <3>1
      <3>5. t # "name" => open'[i].name = open[i].name
        BY <1>2, <1>3, <1>4, <3>1
      <3> QED
        BY <1>4, <3>1, <3>2, <3>3, <3>4, <3>5
    <2>2. FnsRead'
      <3> SUFFICES ASSUME NEW i \in DOMAIN open', open'[i].tag = "function"
                   PROVE  ReadSoFar(i)'
        BY DEF FnsRead
      <3>1. i \in 1..n - 1 /\ open[i].tag = "function" /\ ReadSoFar(i)
        BY <2>1
      <3>2. function_read_state \notin {1, 3}
        BY <1>2, <3>1 DEF ReadSoFar
      <3>3. CASE function_read_state = 2
        <4>1. open[i].slot = 1 /\ open[i + 1].tag = "type" /\ open[i].name = <<>>
          BY <3>1, <3>3 DEF ReadSoFar
        <4>2. CASE t = "type"
          <5>1. i = n - 1
            <6>1. i \in DOMAIN open /\ n \in DOMAIN open
              BY <1>2, <3>1
            <6>2. ~(i + 1 < n)
              BY <1>2, <3>1, <4>1, <4>2, <6>1 DEF TypesApart
            <6> QED
              BY <1>2, <3>1, <6>2
          <5>2. function_read_state' = 3
            BY <1>6, <3>3, <4>2 DEF TypeEnds
          <5>3. open'[i].slot = 1 /\ open'[i].name = <<>>
            BY <2>1, <4>1, <4>2
          <5> QED
            BY <1>2, <5>1, <5>2, <5>3 DEF ReadSoFar
        <4>3. CASE t # "type"
          <5>1. i + 1 < n
            <6>1. i + 1 # n
              BY <1>2, <4>1, <4>3
            <6> QED
              BY <1>2, <3>1, <6>1
          <5>2. function_read_state' = 2
            BY <1>6, <1>10, <3>3, <4>3 DEF OtherEnds
          <5>3. open'[i].slot = 1 /\ open'[i].name = <<>> /\ open'[i + 1].tag = "type"
            BY <2>1, <4>1, <5>1
          <5> QED
            BY <1>2, <3>1, <5>1, <5>2, <5>3 DEF ReadSoFar
        <4> QED
          BY <4>2, <4>3
      <3>4. CASE function_read_state = 4
        <4>1. i = n - 1 /\ open[i].slot = 2 /\ t = "name"
          BY <1>2, <3>1, <3>4 DEF ReadSoFar
        <4>2. function_read_state' = 5
          BY <1>6, <3>4, <4>1 DEF NameEnds
        <4>3. open'[i].slot = 2
          BY <2>1, <4>1
        <4> QED
          BY <1>2, <4>1, <4>2, <4>3 DEF ReadSoFar
      <3>5. CASE function_read_state = 5
        <4>1. open[i].slot >= 2 /\ (i < n => open[i + 1].tag # "name")
          BY <3>1, <3>5 DEF ReadSoFar
        <4>2. function_read_state' = 5
          BY <1>6, <1>10, <3>5 DEF OtherEnds
        <4>3. open'[i].slot >= 2 /\ (i + 1 < n => open'[i + 1].tag # "name")
          BY <1>2, <2>1, <3>1, <4>1
        <4>4. Len(open)' = n - 1 /\ i \in Nat
          BY <1>2, <3>1
        <4> QED
          BY <1>2, <4>2, <4>3, <4>4 DEF ReadSoFar
      <3> QED
        BY <1>5, <3>1, <3>2, <3>3, <3>4, <3>5 DEF ReadSoFar
    <2>3. /\ function_read_state' \in 1..3 =>
                /\ function_read_state \in 1..3
                /\ strings' = strings /\ currentFn_id' = currentFn_id
          /\ function_read_state' = 4 => function_read_state = 4 /\ t # "name"
          /\ function_read_state' = 5 =>
                \/ /\ function_read_state = 4 /\ t = "name"
                   /\ strings' = append_chunk(strings, <<"()">>) /\ currentFn_id' = currentFn_id
                \/ /\ function_read_state = 5
                   /\ strings' = strings /\ currentFn_id' = currentFn_id
      BY <1>5, <1>6, <1>10 DEF TypeEnds, NameEnds, OtherEnds
    <2>4. function_read_state' # 4
      BY <1>2, <1>7, <2>3 DEF ReadSoFar
    <2>5. ASSUME function_read_state = 4, t = "name", NEW i \in DOMAIN open',
                 open'[i].tag = "function", strings' = append_chunk(strings, <<"()">>),
                 currentFn_id' = currentFn_id
          PROVE  strings'[currentFn_id'] = UnitString' \o <<"::">> \o open'[i].name \o <<"()">>
      <3>1. "()" \in Piece
        BY DEF Piece
      <3>2. strings'[currentFn_id] = strings[currentFn_id] \o <<"()">>
        BY <2>5, <3>1, StringGrows
      <3>3. strings[currentFn_id] = UnitString \o <<"::">> \o Top.text
        BY <2>5 DEF NameIInv, NameSoFar
      <3>4. open'[i].name = Top.text
        <4>1. i = n - 1 /\ open[n - 1].tag = "function"
          BY <1>2, <2>1, <2>5 DEF ReadSoFar
        <4> QED
          BY <1>3, <2>5, <4>1
      <3> QED
        BY <1>8, <2>5, <3>2, <3>3, <3>4
    <2>6. ASSUME function_read_state = 5, NEW i \in DOMAIN open', open'[i].tag = "function",
                 strings' = strings, currentFn_id' = currentFn_id
          PROVE  strings'[currentFn_id'] = UnitString' \o <<"::">> \o open'[i].name \o <<"()">>
      <3>1. strings[currentFn_id] = UnitString \o <<"::">> \o open[i].name \o <<"()">>
        BY <2>1, <2>6 DEF NameIInv, NameSoFar
      <3>2. t = "name" => i + 1 < n
        <4>1. i < n => open[i + 1].tag # "name"
          BY <2>1, <2>6 DEF ReadSoFar
        <4>2. i \in 1..n - 1
          BY <2>1, <2>6
        <4>3. t = "name" => i + 1 # n
          BY <1>2, <4>1, <4>2
        <4> QED
          BY <1>2, <4>2, <4>3
      <3>3. open'[i].name = open[i].name
        BY <2>1, <2>6, <3>2
      <3> QED
        BY <1>8, <2>6, <3>1, <3>3
    <2>7. function_read_state' \in 1..3 => strings'[currentFn_id'] = UnitString' \o <<"::">>
      BY <1>8, <2>3 DEF NameIInv, NameSoFar
    <2>8. function_read_state' = 5 => currentFn_id' # NoId
      <3>1. function_read_state' = 5 =>
                function_read_state \in {4, 5} /\ currentFn_id' = currentFn_id
        BY <2>3
      <3>2. function_read_state \in {4, 5} => currentFn_id # NoId
        <4>1. CASE function_read_state = 4
          BY <4>1 DEF IInv, AppendsReachFn
        <4>2. CASE function_read_state = 5
          BY <4>2 DEF NameIInv, NameSoFar
        <4> QED
          BY <4>1, <4>2
      <3> QED
        BY <3>1, <3>2
    <2>9. ASSUME function_read_state' = 5, NEW i \in DOMAIN open', open'[i].tag = "function"
          PROVE  strings'[currentFn_id'] = UnitString' \o <<"::">> \o open'[i].name \o <<"()">>
      BY <2>3, <2>5, <2>6, <2>9
    <2>10. NameSoFar'
      BY <1>8, <2>4, <2>7, <2>8, <2>9 DEF NameSoFar
    <2> QED
      BY <1>10, <2>2, <2>10 DEF NameIInv
  <1> QED
    BY <1>9, <1>10

(* Character data.                                                         *)
LEMMA NameIInvCharacters ==
    ASSUME IInv, NameIInv, NEW ch \in Text, event_charactersUnit(ch)
    PROVE  NameIInv'
  <1> DEFINE n == Len(open)
  <1>1. SaxTypeOK /\ StreamShape /\ SaxCharacters(ch) /\ phase = "unit" /\ phase' = "unit"
    BY DEF IInv, TypeOK, event_charactersUnit, SaxCharacters
  <1>2. /\ open \in Seq(Element) /\ open' \in Seq(Element) /\ n \in Nat /\ n >= 1
        /\ Len(open') = n /\ Top = open[n]
        /\ \A i \in 1..n : open'[i].tag = open[i].tag
        /\ \A i \in 1..n - 1 : open'[i] = open[i]
    <2>1. Top = open[n]
      BY DEF Top
    <2> QED
      BY <1>1, <2>1, CharactersKeepOpen, Grown DEF SaxTypeOK, StreamShape
  <1>3. Top \in Element /\ Top' = open'[n] /\ Top' = [Top EXCEPT !.text = Append(Top.text, ch)]
    <2>1. Top' = open'[n]
      BY <1>2 DEF Top
    <2>2. open[n] \in Element
      BY <1>2
    <2> QED
      BY <1>1, <1>2, <2>1, <2>2, Grown
  <1>4. Top'.tag = Top.tag /\ Top'.slot = Top.slot /\ Top'.name = Top.name
        /\ Top'.text = Append(Top.text, ch) /\ Top.text \in Seq(Text)
    <2>1. \A e \in Element : \A text :
              LET f == [e EXCEPT !.text = text] IN
              /\ f.tag = e.tag /\ f.slot = e.slot /\ f.name = e.name /\ f.text = text
              /\ e.text \in Seq(Text)
      BY DEF Element
    <2> QED
      BY <1>3, <2>1
  <1>5. \A i \in 1..n : open'[i].slot = open[i].slot /\ open'[i].name = open[i].name
    <2>1. open'[n].slot = open[n].slot /\ open'[n].name = open[n].name
      <3>1. Top = open[n] /\ Top' = open'[n]
        BY <1>2, <1>3
      <3> QED
        BY <1>4, <3>1
    <2> QED
      BY <1>2, <2>1
  <1>6. UNCHANGED <<function_read_state, currentFn_id>>
    BY DEF event_charactersUnit
  <1>7. DOMAIN open' = DOMAIN open /\ DOMAIN open = 1..n
    BY <1>2
  <1>8. FnsRead'
    <2> SUFFICES ASSUME NEW i \in 1..n, open'[i].tag = "function"
                 PROVE  ReadSoFar(i)'
      BY <1>7 DEF FnsRead
    <2>1. ReadSoFar(i)
      BY <1>2, <1>7 DEF NameIInv, FnsRead
    <2>2. i < n => i + 1 \in 1..n
      BY <1>2
    <2> QED
      BY <1>2, <1>4, <1>5, <1>6, <2>1, <2>2 DEF ReadSoFar
  <1>9. UnitString' = UnitString /\ UnitString \in Seq(Piece) /\ Len(UnitString) = 1
    <2>1. [Next]_vars
      BY DEF Next
    <2> QED
      BY <1>1, <2>1, NamesKept
      DEF UnitString, IInv, TypeOK, UnitHasId, NoId, NameIInv, NameSoFar
  <1>10. NameSoFar'
    <2>1. CASE function_read_state = 4
      <3>1. ch \in Piece
        BY DEF Piece
      <3>2. strings'[currentFn_id] = strings[currentFn_id] \o <<ch>>
        BY <2>1, <3>1, StringGrows DEF event_charactersUnit
      <3>3. strings[currentFn_id] = UnitString \o <<"::">> \o Top.text
        BY <2>1 DEF NameIInv, NameSoFar
      <3>4. (UnitString \o <<"::">> \o Top.text) \o <<ch>> =
                UnitString \o <<"::">> \o Append(Top.text, ch)
        BY <1>4, <1>9, PiecesAppend
      <3>5. strings'[currentFn_id'] = UnitString' \o <<"::">> \o Top'.text
        BY <1>4, <1>6, <1>9, <3>2, <3>3, <3>4
      <3> QED
        BY <1>6, <1>9, <2>1, <3>5 DEF NameSoFar
    <2>2. CASE function_read_state # 4
      <3>1. strings' = strings
        BY <2>2 DEF event_charactersUnit
      <3>2. function_read_state \in 1..3 => strings'[currentFn_id'] = UnitString' \o <<"::">>
        BY <1>6, <1>9, <3>1 DEF NameIInv, NameSoFar
      <3>3. ASSUME function_read_state = 5, NEW i \in 1..n, open'[i].tag = "function"
            PROVE  strings'[currentFn_id'] =
                       UnitString' \o <<"::">> \o open'[i].name \o <<"()">>
        <4>1. strings[currentFn_id] = UnitString \o <<"::">> \o open[i].name \o <<"()">>
          BY <1>2, <1>7, <3>3 DEF NameIInv, NameSoFar
        <4> QED
          BY <1>5, <1>6, <1>9, <3>1, <4>1
      <3>4. function_read_state = 5 => currentFn_id' # NoId
        BY <1>6 DEF NameIInv, NameSoFar
      <3> QED
        BY <1>6, <1>7, <1>9, <2>2, <3>2, <3>3, <3>4 DEF NameSoFar
    <2> QED
      BY <2>1, <2>2
  <1> QED
    BY <1>8, <1>10 DEF NameIInv

(* Units, root and document start and end while no function is open.       *)
LEMMA NameIInvOutside ==
    ASSUME IInv,
           \/ \E filename \in Filenames : event_startUnit(filename)
           \/ event_startDocument \/ event_startRoot \/ event_endUnit \/ event_endRoot
           \/ event_endDocument
    PROVE  NameIInv'
  <1>1. IInv'
    BY StepIInv DEF Next
  <1>2. CASE \E filename \in Filenames : event_startUnit(filename)
    <2>1. PICK filename \in Filenames : event_startUnit(filename)
      BY <1>2
    <2>2. SaxStartUnit /\ function_read_state' = 0 /\ function_read_state = 0
      BY <2>1, IdleOutsideUnit DEF event_startUnit, SaxStartUnit
    <2>3. "function" \notin OpenTags'
      BY <2>2, NothingOpen DEF IInv
    <2>4. UnitString' = <<filename>>
      <3>1. <<filename>> \in Seq(Piece) /\ strings \in Strings
        <4>1. filename \in Piece
          BY DEF Piece
        <4> QED
          BY <4>1 DEF IInv, TypeOK, Strings
      <3>2. add_chunk(strings, <<filename>>)[Len(strings) + 1] = <<filename>>
        BY <3>1, AddChunk, Zenon
      <3>3. strings' = add_chunk(strings, <<filename>>) /\ currentUnit_id' = Len(strings) + 1
        BY <2>1 DEF event_startUnit
      <3> QED
        BY <3>2, <3>3, Zenon DEF UnitString
    <2> QED
      BY <2>2, <2>3, <2>4 DEF NameIInv, FnsRead, NameSoFar, OpenTags
  <1>3. CASE \/ event_startDocument \/ event_startRoot \/ event_endUnit \/ event_endRoot
            \/ event_endDocument
    <2>1. phase' # "unit"
      BY <1>3 DEF event_startDocument, event_startRoot, event_endUnit, event_endRoot,
                  event_endDocument, SaxStartDocument, SaxStartRoot, SaxEndUnit, SaxEndRoot,
                  SaxEndDocument, SaxMove
    <2>2. open' = <<>> /\ function_read_state' = 0
      BY <1>1, <2>1 DEF IInv, StreamShape, ReadingIsOpen
    <2> QED
      BY <2>1, <2>2 DEF NameIInv, FnsRead, NameSoFar
  <1> QED
    BY <1>2, <1>3

(* Every step keeps what is read and what is written together.             *)
LEMMA NameIInvStep ==
    ASSUME FunctionsAreNamed
    PROVE  /\ IInv /\ NameIInv /\ OneFunction /\ OneFunction' /\ TypesApart /\ [Next]_vars
           => NameIInv'
  <1> SUFFICES ASSUME IInv, NameIInv, OneFunction, OneFunction', TypesApart, [Next]_vars
               PROVE  NameIInv'
    OBVIOUS
  <1>1. CASE UNCHANGED vars
    BY <1>1
    DEF vars, saxVars, eventVars, NameIInv, FnsRead, ReadSoFar, NameSoFar, UnitString, Top
  <1>2. CASE Next
    BY <1>2, NameIInvStart, NameIInvEnd, NameIInvCharacters, NameIInvOutside DEF Next
  <1> QED
    BY <1>1, <1>2

(* It holds of every run.                                                  *)
LEMMA NameInvariance ==
    FunctionsAreNamed /\ Spec /\ []OneFunction /\ []TypesApart => []NameIInv
  <1>1. SUFFICES ASSUME FunctionsAreNamed
                 PROVE  Spec /\ []OneFunction /\ []TypesApart => []NameIInv
    OBVIOUS
  <1>2. Init => NameIInv
    BY DEF Init, SaxInit, NameIInv, FnsRead, NameSoFar
  <1>3. /\ IInv /\ NameIInv /\ OneFunction /\ OneFunction' /\ TypesApart /\ [Next]_vars
        => NameIInv'
    BY <1>1, NameIInvStep
  <1> QED
    BY <1>2, <1>3, Invariance, PTL DEF Spec

(* Wherever functions are written as in C, the string of a function is the *)
(* file's name and the name that the function itself declares.             *)
THEOREM NamesAreDeclared ==
    FunctionsAreNamed /\ Spec /\ []OneFunction /\ []TypesApart => []FnNamedAsDeclared
  <1>1. IInv /\ NameIInv => FnNamedAsDeclared
    <2> SUFFICES ASSUME IInv, NameIInv, NEW i \in DOMAIN open, open[i].tag = "function",
                        open[i].name # <<>>
                 PROVE  get_chunk(strings, currentFn_id) =
                            get_chunk(strings, currentUnit_id) \o <<"::">> \o
                                open[i].name \o <<"()">>
      BY DEF FnNamedAsDeclared
    <2>1. function_read_state = 5
      BY DEF NameIInv, FnsRead, ReadSoFar, IInv, TypeOK
    <2>2. /\ currentFn_id # NoId
          /\ strings[currentFn_id] = UnitString \o <<"::">> \o open[i].name \o <<"()">>
      BY <2>1 DEF NameIInv, NameSoFar
    <2>3. currentFn_id \in DOMAIN strings
      BY <2>2 DEF IInv, TypeOK, NoId
    <2>4. currentUnit_id \in DOMAIN strings
      BY DEF IInv, TypeOK, UnitHasId, StreamShape, NoId
    <2>5. /\ get_chunk(strings, currentFn_id) = strings[currentFn_id]
          /\ get_chunk(strings, currentUnit_id) = UnitString
      BY <2>3, <2>4, Zenon DEF get_chunk, UnitString
    <2> QED
      BY <2>2, <2>5, Zenon
  <1> QED
    BY <1>1, NameInvariance, Invariance, PTL

-----------------------------------------------------------------------------
(* The keys of the report.                                                 *)

(* Two strings together.                                                   *)
LEMMA Joined ==
    ASSUME NEW S, NEW a \in Seq(S), NEW b \in Seq(S)
    PROVE  /\ a \o b \in Seq(S) /\ Len(a \o b) = Len(a) + Len(b)
           /\ \A i \in 1..Len(a) : (a \o b)[i] = a[i]
           /\ \A i \in 1..Len(b) : (a \o b)[Len(a) + i] = b[i]
  <1>1. /\ a \o b \in Seq(S) /\ Len(a \o b) = Len(a) + Len(b)
        /\ \A i \in 1..Len(a) + Len(b) :
              (a \o b)[i] = IF i <= Len(a) THEN a[i] ELSE b[i - Len(a)]
    BY ConcatProperties
  <1>2. Len(a) \in Nat /\ Len(b) \in Nat
    OBVIOUS
  <1>3. \A i \in 1..Len(a) : i \in 1..Len(a) + Len(b) /\ i <= Len(a)
    BY <1>2
  <1>4. \A i \in 1..Len(b) : /\ Len(a) + i \in 1..Len(a) + Len(b)
                             /\ ~(Len(a) + i <= Len(a)) /\ Len(a) + i - Len(a) = i
    BY <1>2
  <1> QED
    BY <1>1, <1>3, <1>4

(* A string that is no key, and one that a key may be made from.           *)
NoKey(str)     == Len(str) = 1 \/ (Len(str) > 1 /\ str[2] = "::")
Finished(str)  == str[Len(str)] = "()" \/ Len(str) = 1

(* A unit's string and a function's are no keys, and keys are made from    *)
(* them when they are finished.                                            *)
SubjectsAreNoKeys ==
    /\ phase = "unit" => NoKey(UnitString) /\ Finished(UnitString)
    /\ function_read_state # 0 => NoKey(strings[currentFn_id])
    /\ function_read_state = 5 => Finished(strings[currentFn_id])

(* This is so by what the readers have put together.                       *)
LEMMA SubjectStrings == IInv /\ NameIInv => SubjectsAreNoKeys
  <1> SUFFICES ASSUME IInv, NameIInv PROVE SubjectsAreNoKeys
    OBVIOUS
  <1>1. "::" \in Piece /\ "()" \in Piece /\ Text \subseteq Piece
    BY DEF Piece
  <1>2. ASSUME NEW unit \in Seq(Piece), Len(unit) = 1, NEW name \in Seq(Piece)
        PROVE  /\ NoKey(unit \o <<"::">> \o name)
               /\ NoKey(unit \o <<"::">> \o name \o <<"()">>)
               /\ Finished(unit \o <<"::">> \o name \o <<"()">>)
    <2> DEFINE two == unit \o <<"::">>
               all == two \o name
    <2>1. two \in Seq(Piece) /\ Len(two) = 2 /\ two[2] = "::"
      <3>1. <<"::">> \in Seq(Piece) /\ Len(<<"::">>) = 1 /\ <<"::">>[1] = "::"
        BY <1>1
      <3> QED
        BY <1>2, <3>1, Joined
    <2> HIDE DEF two
    <2>2. all \in Seq(Piece) /\ Len(all) >= 2 /\ all[2] = "::"
      <3>1. /\ all \in Seq(Piece) /\ Len(all) = Len(two) + Len(name)
            /\ \A i \in 1..Len(two) : all[i] = two[i]
        BY <2>1, Joined, Zenon
      <3>2. Len(name) \in Nat
        OBVIOUS
      <3> QED
        BY <2>1, <3>1, <3>2
    <2> HIDE DEF all
    <2>3. /\ Len(all \o <<"()">>) = Len(all) + 1
          /\ (all \o <<"()">>)[2] = "::"
          /\ (all \o <<"()">>)[Len(all) + 1] = "()"
      BY <1>1, <2>2
    <2>4. NoKey(all) /\ NoKey(all \o <<"()">>) /\ Finished(all \o <<"()">>)
      BY <2>2, <2>3 DEF NoKey, Finished
    <2> QED
      BY <2>4 DEF all, two
  <1>3. phase = "unit" => UnitString \in Seq(Piece) /\ Len(UnitString) = 1
    BY DEF UnitString, IInv, TypeOK, UnitHasId, NoId, NameIInv, NameSoFar
  <1>4. ASSUME function_read_state # 0
        PROVE  /\ NoKey(strings[currentFn_id])
               /\ function_read_state = 5 => Finished(strings[currentFn_id])
    <2>1. PICK i \in DOMAIN open : open[i].tag = "function"
      BY <1>4 DEF IInv, ReadingIsOpen
    <2>2. /\ phase = "unit" /\ open[i] \in Element /\ Top \in Element
          /\ function_read_state \in 1..5
      BY <1>4, <2>1 DEF IInv, TypeOK, SaxTypeOK, StreamShape, Top
    <2>3. open[i].name \in Seq(Piece) /\ Top.text \in Seq(Piece) /\ <<>> \in Seq(Piece)
      BY <1>1, <2>2 DEF Element
    <2>4. CASE function_read_state \in 1..3
      <3>1. strings[currentFn_id] = UnitString \o <<"::">> \o <<>>
        BY <1>3, <2>2, <2>4, PiecesEmpty DEF NameIInv, NameSoFar
      <3> QED
        <4>1. NoKey(UnitString \o <<"::">> \o <<>>)
          BY <1>2, <1>3, <2>2, <2>3, Zenon
        <4> QED
          BY <2>4, <3>1, <4>1
    <2>5. CASE function_read_state = 4
      <3>1. strings[currentFn_id] = UnitString \o <<"::">> \o Top.text
        BY <2>5 DEF NameIInv, NameSoFar
      <3> QED
        BY <1>2, <1>3, <2>2, <2>3, <2>5, <3>1
    <2>6. CASE function_read_state = 5
      <3>1. strings[currentFn_id] = UnitString \o <<"::">> \o open[i].name \o <<"()">>
        BY <2>1, <2>6 DEF NameIInv, NameSoFar
      <3> QED
        BY <1>2, <1>3, <2>2, <2>3, <3>1
    <2> QED
      BY <2>2, <2>4, <2>5, <2>6
  <1> QED
    BY <1>3, <1>4 DEF SubjectsAreNoKeys, NoKey, Finished

(* The string at a place is no key, or it is one of a finished string      *)
(* before it.                                                              *)
Spelled(chunk, i) ==
    Len(chunk[i]) > 1 /\ chunk[i][2] = "_" =>
        \E j \in 1..i - 1 :
            /\ chunk[i] = <<chunk[i][1], "_">> \o chunk[j]
            /\ Finished(chunk[j])

(* The prefix of a key is its first piece. *)
LEMMA PrefixFirst ==
    ASSUME NEW a \in Piece, NEW b \in Piece, NEW q \in Seq(Piece)
    PROVE  (<<a, b>> \o q)[1] = a /\ (<<a, b>> \o q)[2] = b
  <1>1. <<a, b>> \in Seq(Piece) /\ Len(<<a, b>>) = 2
    OBVIOUS
  <1> DEFINE ab == <<a, b>>
  <1>2. ab[1] = a /\ ab[2] = b
    OBVIOUS
  <1> HIDE DEF ab
  <1>3. (ab \o q)[1] = ab[1] /\ (ab \o q)[2] = ab[2]
    <2>1. ab \in Seq(Piece) /\ Len(ab) = 2
      BY <1>1 DEF ab
    <2>2. \A i \in 1..Len(ab) : (ab \o q)[i] = ab[i]
      BY <2>1, Joined, Zenon
    <2>3. 1 \in 1..Len(ab) /\ 2 \in 1..Len(ab)
      BY <2>1
    <2> QED
      BY <2>2, <2>3, Zenon
  <1> QED
    BY <1>2, <1>3 DEF ab

(* Keys of a finished string are spelled.                                  *)
LEMMA KeysSpelled ==
    ASSUME NEW c \in Strings, NEW rows \in Seq(Piece), NEW id \in DOMAIN c, Finished(c[id]),
           NEW i \in DOMAIN WithKeys(c, rows, id), i \notin DOMAIN c
    PROVE  Spelled(WithKeys(c, rows, id), i)
  <1> DEFINE new == WithKeys(c, rows, id)
  <1>1. /\ new \in Strings /\ Len(new) >= Len(c)
        /\ \A j \in DOMAIN c : new[j] = c[j]
    BY AddKeys
  <1>2. DOMAIN new = 1..Len(new) /\ DOMAIN c = 1..Len(c) /\ Len(c) \in Nat /\ i \in DOMAIN new
    BY <1>1 DEF Strings
  <1>3. PICK row \in Piece : new[i] = <<row, "_">> \o c[id]
    <2> DEFINE keys == [k \in DOMAIN rows |-> <<rows[k], "_">> \o get_chunk(c, id)]
    <2>1. new = c \o keys
      BY DEF WithKeys
    <2>2. DOMAIN keys = 1..Len(rows) /\ Len(rows) \in Nat
      OBVIOUS
    <2>3. keys \in Seq(Seq(Piece)) /\ Len(keys) = Len(rows)
      <3>1. get_chunk(c, id) \in Seq(Piece) /\ "_" \in Piece
        BY GetChunk DEF Piece
      <3>2. \A a, b \in Piece, q \in Seq(Piece) : <<a, b>> \o q \in Seq(Piece)
        OBVIOUS
      <3>3. ASSUME NEW k \in 1..Len(rows) PROVE <<rows[k], "_">> \o get_chunk(c, id) \in Seq(Piece)
        <4>1. rows[k] \in Piece
          OBVIOUS
        <4> QED
          BY <3>1, <3>2, <4>1, Zenon
      <3>4. keys \in [1..Len(rows) -> Seq(Piece)]
        BY <2>2, <3>3, Zenon
      <3> HIDE DEF keys
      <3> QED
        BY <2>2, <3>4
    <2>4. i - Len(c) \in 1..Len(rows)
      <3> HIDE DEF keys
      <3>1. Len(new) = Len(c) + Len(rows)
        <4>1. c \in Seq(Seq(Piece))
          BY DEF Strings
        <4> QED
          BY <2>1, <2>3, <4>1, Joined, Zenon
      <3> HIDE DEF new
      <3> QED
        BY <1>2, <2>2, <3>1
    <2>5. new[i] = keys[i - Len(c)]
      <3> HIDE DEF keys
      <3>1. \A k \in 1..Len(rows) : (c \o keys)[Len(c) + k] = keys[k]
        BY <2>3, Joined DEF Strings
      <3>2. Len(c) + (i - Len(c)) = i
        BY <1>2
      <3> QED
        BY <2>1, <2>4, <3>1, <3>2
    <2>6. keys[i - Len(c)] = <<rows[i - Len(c)], "_">> \o get_chunk(c, id)
      BY <2>2, <2>4, Zenon
    <2>7. get_chunk(c, id) = c[id] /\ rows[i - Len(c)] \in Piece
      BY <2>4 DEF get_chunk
    <2> QED
      BY <2>5, <2>6, <2>7
  <1> HIDE DEF new
  <1>4. new[i][1] = row
    <2>1. "_" \in Piece
      BY DEF Piece
    <2>2. c[id] \in Seq(Piece)
      BY DEF Strings
    <2>3. row \in Piece
      BY <1>3
    <2>4. (<<row, "_">> \o c[id])[1] = row
      <3>1. ASSUME NEW a \in Piece, NEW q \in Seq(Piece)
            PROVE  (<<a, "_">> \o q)[1] = a
        BY <2>1, PrefixFirst, Zenon
      <3> QED
        BY <2>2, <2>3, <3>1, Zenon
    <2> QED
      BY <1>3, <2>4, Zenon
  <1>5. id \in 1..i - 1 /\ new[id] = c[id]
    BY <1>1, <1>2
  <1>6. new[i] = <<new[i][1], "_">> \o new[id] /\ Finished(new[id])
    BY <1>3, <1>4, <1>5
  <1>7. Spelled(new, i)
    BY <1>5, <1>6 DEF Spelled
  <1> QED
    BY <1>7 DEF new

(* Strings that stay are spelled as they were.                             *)
LEMMA StaySpelled ==
    ASSUME NEW c \in Strings, NEW d \in Strings, Len(d) >= Len(c),
           \A j \in DOMAIN c : d[j] = c[j],
           NEW i \in DOMAIN c, Spelled(c, i)
    PROVE  Spelled(d, i)
  <1>1. \A j \in 1..i - 1 : j \in DOMAIN c
    BY DEF Strings
  <1> QED
    BY <1>1 DEF Spelled

(* So they are when one string is new or has changed, no string that a key *)
(* could precede, and is no key.                                           *)
LEMMA OneMoreSpelled ==
    ASSUME NEW c \in Strings, NEW d \in Strings, NEW n \in DOMAIN d, n = Len(d),
           NoKey(d[n]), n = Len(c) \/ n = Len(c) + 1,
           \A j \in DOMAIN c : j # n => d[j] = c[j],
           \A i \in DOMAIN c : Spelled(c, i),
           NEW i \in DOMAIN d
    PROVE  Spelled(d, i)
  <1>1. /\ DOMAIN c = 1..Len(c) /\ DOMAIN d = 1..Len(d)
        /\ Len(c) \in Nat /\ Len(d) \in Nat /\ n \in Nat /\ i \in Nat
    BY DEF Strings
  <1>2. CASE i = n
    <2>1. Len(d[n]) = 1 => ~(Len(d[n]) > 1)
      OBVIOUS
    <2>2. "_" # "::"
      OBVIOUS
    <2>3. ~(Len(d[i]) > 1 /\ d[i][2] = "_")
      BY <1>2, <2>1, <2>2, Zenon DEF NoKey
    <2> QED
      BY <2>3, Zenon DEF Spelled
  <1>3. CASE i # n
    <2>1. i \in DOMAIN c /\ i < n
      BY <1>1, <1>3
    <2>2. \A j \in 1..i : j \in DOMAIN c /\ j # n
      BY <1>1, <2>1
    <2>3. d[i] = c[i] /\ Spelled(c, i) /\ \A j \in 1..i - 1 : d[j] = c[j]
      BY <1>1, <2>1, <2>2
    <2> QED
      BY <2>3 DEF Spelled
  <1> QED
    BY <1>2, <1>3

(* The invariant, at every place of the strings.                           *)
AllSpelled == \A i \in DOMAIN strings : Spelled(strings, i)

(* It outlasts the keys of a finished string.                              *)
LEMMA KeysAllSpelled ==
    ASSUME IInv, AllSpelled, NEW rows \in Seq(Piece), NEW id \in DOMAIN strings,
           Finished(strings[id]), strings' = WithKeys(strings, rows, id)
    PROVE  AllSpelled'
  <1> DEFINE new == WithKeys(strings, rows, id)
  <1>1. strings \in Strings
    BY DEF IInv, TypeOK, Strings
  <1>2. /\ new \in Strings /\ Len(new) >= Len(strings)
        /\ \A j \in DOMAIN strings : new[j] = strings[j]
    BY <1>1, AddKeys
  <1>3. \A i \in DOMAIN new : i \notin DOMAIN strings => Spelled(new, i)
    BY <1>1, KeysSpelled
  <1> HIDE DEF new
  <1>4. \A i \in DOMAIN strings : Spelled(new, i)
    BY <1>1, <1>2, StaySpelled DEF AllSpelled
  <1>5. strings' = new
    BY DEF new
  <1> QED
    BY <1>3, <1>4, <1>5 DEF AllSpelled

(* A unit or an element starts.                                            *)
LEMMA SpelledStart ==
    ASSUME IInv, AllSpelled, SubjectsAreNoKeys',
           \/ \E filename \in Filenames : event_startUnit(filename)
           \/ \E t \in Tags : event_startElement(t)
    PROVE  AllSpelled'
  <1>1. strings \in Strings
    BY DEF IInv, TypeOK, Strings
  <1>2. ASSUME NEW filename \in Filenames, event_startUnit(filename)
        PROVE  AllSpelled'
    <2>1. /\ IInv' /\ StringsKept /\ Len(strings') = Len(strings) + 1
          /\ strings'[Len(strings) + 1] = <<filename>>
      BY <1>2, StartUnitStep
    <2>2. function_read_state = 0
      BY <1>2, IdleOutsideUnit DEF event_startUnit, SaxStartUnit
    <2>3. NoKey(strings'[Len(strings')])
      BY <2>1 DEF NoKey
    <2>4. strings' \in Strings /\ \A j \in DOMAIN strings : strings'[j] = strings[j]
      BY <2>1, <2>2 DEF IInv, TypeOK, Strings, StringsKept
    <2>5. Len(strings') \in DOMAIN strings'
      BY <1>1, <2>1, <2>4 DEF Strings
    <2> QED
      BY <1>1, <2>1, <2>3, <2>4, <2>5, OneMoreSpelled DEF AllSpelled
  <1>3. ASSUME NEW t \in Tags, event_startElement(t)
        PROVE  AllSpelled'
    <2>1. SaxStartElement(t) /\ UNCHANGED currentUnit_id
      BY <1>3 DEF event_startElement
    <2>2. CASE FunctionStarts(t)
      <3>1. /\ IInv' /\ Len(strings') = Len(strings) + 1
            /\ \A j \in DOMAIN strings : strings'[j] = strings[j]
        BY <2>1, <2>2, FunctionStartsStep
      <3>2. /\ function_read_state' = 1 /\ currentFn_id' = Len(strings')
        BY <2>2, <3>1 DEF FunctionStarts
      <3>3. NoKey(strings'[Len(strings')])
        BY <3>2 DEF SubjectsAreNoKeys
      <3>4. /\ strings' \in Strings /\ Len(strings') \in DOMAIN strings'
        BY <1>1, <3>1 DEF IInv, TypeOK, Strings
      <3> QED
        BY <1>1, <3>1, <3>3, <3>4, OneMoreSpelled DEF AllSpelled
    <2>3. CASE TypeStarts(t) \/ NameStarts(t) \/ OtherStarts(t)
      BY <2>1, <2>3, OtherStartStep DEF AllSpelled
    <2> QED
      BY <1>3, <2>2, <2>3 DEF event_startElement
  <1> QED
    BY <1>2, <1>3

(* An element ends, or characters are read.                                *)
LEMMA SpelledInside ==
    ASSUME FunctionsAreNamed, IInv, NameIInv, OneFunction, TypesApart, AllSpelled,
           SubjectsAreNoKeys, SubjectsAreNoKeys',
           \/ \E t \in Tags : event_endElement(t)
           \/ \E ch \in Text : event_charactersUnit(ch)
    PROVE  AllSpelled'
  <1>1. strings \in Strings /\ DOMAIN strings = 1..Len(strings)
    BY DEF IInv, TypeOK, Strings
  <1>2. ASSUME IInv', StringsKept, Len(strings') = Len(strings),
               function_read_state = 4 => function_read_state' # 0,
               UNCHANGED currentFn_id
        PROVE  AllSpelled'
    <2>1. strings' \in Strings /\ DOMAIN strings' = DOMAIN strings
      BY <1>1, <1>2 DEF IInv, TypeOK, Strings
    <2>2. CASE function_read_state = 4
      <3>1. currentFn_id = Len(strings) /\ Len(strings) \in DOMAIN strings
        BY <2>2 DEF IInv, TypeOK, AppendsReachFn, NoId
      <3>2. NoKey(strings'[Len(strings')])
        BY <1>2, <2>2, <3>1 DEF SubjectsAreNoKeys
      <3>3. \A j \in DOMAIN strings : j # Len(strings') => strings'[j] = strings[j]
        BY <1>2, <3>1 DEF StringsKept
      <3>4. Len(strings') \in DOMAIN strings'
        BY <1>2, <2>1, <3>1
      <3> QED
        BY <1>1, <1>2, <2>1, <3>2, <3>3, <3>4, OneMoreSpelled DEF AllSpelled
    <2>3. CASE function_read_state # 4
      <3>1. \A j \in DOMAIN strings : strings'[j] = strings[j]
        BY <1>2, <2>3 DEF StringsKept
      <3> QED
        BY <1>1, <1>2, <2>1, <3>1, StaySpelled DEF AllSpelled
    <2> QED
      BY <2>2, <2>3
  <1>3. ASSUME NEW t \in Tags, event_endElement(t), FunctionEnds(t)
        PROVE  AllSpelled'
    <2>1. FnRows \in Seq(Piece)
      BY RowsType DEF FnRows
    <2>2. function_read_state = 5
      BY <1>3, NameIInvEnd DEF FunctionEnds
    <2>3. currentFn_id \in DOMAIN strings /\ Finished(strings[currentFn_id])
      BY <1>1, <2>2 DEF NameIInv, NameSoFar, SubjectsAreNoKeys, IInv, TypeOK, NoId
    <2>4. strings' = WithKeys(strings, FnRows, currentFn_id)
      BY <1>3 DEF FunctionEnds
    <2> QED
      BY <1>1, <2>1, <2>3, <2>4, KeysAllSpelled
  <1>4. ASSUME NEW t \in Tags, event_endElement(t), TypeEnds(t) \/ NameEnds(t) \/ OtherEnds(t)
        PROVE  AllSpelled'
    <2>1. SaxEndElement(t) /\ UNCHANGED currentUnit_id
      BY <1>4 DEF event_endElement
    <2>2. IInv' /\ StringsKept /\ Len(strings') = Len(strings)
      BY <1>4, <2>1, OtherEndStep
    <2>3. /\ function_read_state = 4 => function_read_state' # 0
          /\ UNCHANGED currentFn_id
      BY <1>4 DEF TypeEnds, NameEnds, OtherEnds
    <2> QED
      BY <1>2, <2>2, <2>3
  <1>5. ASSUME NEW ch \in Text, event_charactersUnit(ch)
        PROVE  AllSpelled'
    <2>1. IInv' /\ StringsKept /\ Len(strings') = Len(strings)
      BY <1>5, CharactersStep
    <2>2. UNCHANGED function_read_state /\ UNCHANGED currentFn_id
      BY <1>5 DEF event_charactersUnit
    <2> QED
      BY <1>2, <2>1, <2>2
  <1> QED
    BY <1>3, <1>4, <1>5 DEF event_endElement

(* The document and the root start and end, and a unit ends.               *)
LEMMA SpelledOutside ==
    ASSUME IInv, AllSpelled, SubjectsAreNoKeys,
           \/ event_startDocument \/ event_startRoot \/ event_endRoot
           \/ event_endDocument \/ event_endUnit
    PROVE  AllSpelled'
  <1>1. strings \in Strings /\ UnitRows \in Seq(Piece)
    BY RowsType DEF IInv, TypeOK, Strings, UnitRows
  <1>2. CASE event_endUnit
    <2>1. currentUnit_id \in DOMAIN strings /\ Finished(strings[currentUnit_id])
      BY <1>2 DEF event_endUnit, SaxEndUnit, SubjectsAreNoKeys, UnitString, IInv, TypeOK,
                  UnitHasId, NoId
    <2>2. strings' = WithKeys(strings, UnitRows, currentUnit_id)
      BY <1>2 DEF event_endUnit
    <2> QED
      BY <1>1, <2>1, <2>2, KeysAllSpelled
  <1>3. CASE event_endDocument
    <2> DEFINE keys == [i \in DOMAIN UnitRows |-> <<UnitRows[i]>>]
    <2>1. strings' = strings \o keys
      BY <1>3 DEF event_endDocument
    <2>2. /\ strings' \in Strings /\ Len(strings') >= Len(strings)
          /\ \A i \in DOMAIN strings : strings'[i] = strings[i]
      BY <1>1, <2>1, AddDocumentKeys
    <2>3. ASSUME NEW i \in DOMAIN strings', i \notin DOMAIN strings
          PROVE  Len(strings'[i]) = 1
      <3>1. DOMAIN keys = 1..Len(UnitRows) /\ Len(UnitRows) \in Nat
        BY <1>1
      <3>2. keys \in Seq(Seq(Piece)) /\ Len(keys) = Len(UnitRows)
        <4>1. \A k \in 1..Len(UnitRows) : <<UnitRows[k]>> \in Seq(Piece)
          BY <1>1
        <4>2. keys \in [1..Len(UnitRows) -> Seq(Piece)]
          BY <3>1, <4>1, Zenon
        <4> HIDE DEF keys
        <4> QED
          BY <3>1, <4>2
      <3>3. /\ Len(strings') = Len(strings) + Len(UnitRows)
            /\ \A k \in 1..Len(UnitRows) : strings'[Len(strings) + k] = keys[k]
        <4> HIDE DEF keys
        <4>1. strings \in Seq(Seq(Piece))
          BY <1>1 DEF Strings
        <4>2. /\ Len(strings \o keys) = Len(strings) + Len(keys)
              /\ \A k \in 1..Len(keys) : (strings \o keys)[Len(strings) + k] = keys[k]
          <5>1. keys \in Seq(Seq(Piece))
            BY <3>2
          <5>2. Len(strings \o keys) = Len(strings) + Len(keys)
            BY <4>1, <5>1, Joined, Zenon
          <5>3. \A k \in 1..Len(keys) : (strings \o keys)[Len(strings) + k] = keys[k]
            BY <4>1, <5>1, Joined
          <5> QED
            BY <5>2, <5>3
        <4> QED
          BY <2>1, <3>2, <4>2
      <3>4. i - Len(strings) \in 1..Len(UnitRows) /\ Len(strings) + (i - Len(strings)) = i
        <4>1. /\ DOMAIN strings = 1..Len(strings) /\ DOMAIN strings' = 1..Len(strings')
              /\ Len(strings) \in Nat /\ Len(strings') \in Nat
          BY <1>1, <2>2 DEF Strings
        <4> HIDE DEF keys
        <4> QED
          BY <2>3, <3>1, <3>3, <4>1
      <3>5. strings'[i] = <<UnitRows[i - Len(strings)]>>
        <4>1. strings'[i] = keys[i - Len(strings)]
          <5> HIDE DEF keys
          <5> QED
            BY <3>3, <3>4
        <4> QED
          BY <3>1, <3>4, <4>1, Zenon
      <3> QED
        BY <3>5
    <2>4. ASSUME NEW i \in DOMAIN strings' PROVE Spelled(strings', i)
      <3>1. CASE i \in DOMAIN strings
        BY <1>1, <2>2, <3>1, StaySpelled DEF AllSpelled
      <3>2. CASE i \notin DOMAIN strings
        <4>1. Len(strings'[i]) = 1
          BY <2>3, <3>2
        <4>2. ~(Len(strings'[i]) > 1)
          BY <4>1
        <4> QED
          BY <4>2, Zenon DEF Spelled
      <3> QED
        BY <3>1, <3>2
    <2> QED
      BY <2>4 DEF AllSpelled
  <1>4. CASE UNCHANGED strings
    BY <1>4 DEF AllSpelled, Spelled
  <1> QED
    BY <1>2, <1>3, <1>4 DEF event_startDocument, event_startRoot, event_endRoot, eventVars

(* Wherever functions are written as in C, every key of the report spells  *)
(* the string of a unit or the finished string of a function, and that     *)
(* string was there before the key.                                        *)
THEOREM KeysAreSpelled ==
    FunctionsAreNamed /\ Spec /\ []OneFunction /\ []TypesApart => []KeysSpellSubjects
  <1>1. SUFFICES ASSUME FunctionsAreNamed
                 PROVE  Spec /\ []OneFunction /\ []TypesApart => []KeysSpellSubjects
    OBVIOUS
  <1>2. Init => AllSpelled
    BY DEF Init, AllSpelled
  <1>3. /\ IInv /\ NameIInv /\ OneFunction /\ TypesApart /\ AllSpelled
        /\ SubjectsAreNoKeys /\ SubjectsAreNoKeys' /\ [Next]_vars
        => AllSpelled'
    <2>1. CASE UNCHANGED vars
      BY <2>1 DEF vars, eventVars, AllSpelled, Spelled
    <2>2. CASE Next
      BY <1>1, <2>2, SpelledStart, SpelledInside, SpelledOutside DEF Next
    <2> QED
      BY <2>1, <2>2
  <1>4. AllSpelled => KeysSpellSubjects
    BY DEF AllSpelled, Spelled, Finished, KeysSpellSubjects
  <1>5. FunctionsAreNamed /\ Spec /\ []OneFunction /\ []TypesApart => []NameIInv
    BY NameInvariance
  <1> QED
    BY <1>1, <1>2, <1>3, <1>4, <1>5, SubjectStrings, Invariance, PTL DEF Spec
==============================================================================
