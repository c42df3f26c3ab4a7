------------------------------ MODULE SaxStream ------------------------------
(***************************************************************************)
(* The environment: the stream of parsing events that libsrcsax delivers   *)
(* to the handler table of event.c for one srcML archive.  The library is  *)
(* external (binary only), so the stream is modelled from how event.c uses *)
(* it: a document holds a root, the root holds units (one per source       *)
(* file), a unit holds properly nested elements with character data.       *)
(*                                                                         *)
(* Which elements may appear where is the constant Grammar.  It gives each *)
(* element a sequence of slots, filled from left to right; a slot names    *)
(* the tags it takes, whether it must be filled, and whether it repeats.   *)
(* Elements that no handler looks at are left out of a grammar: their      *)
(* events leave every variable of the program alone.                       *)
(***************************************************************************)
EXTENDS Naturals, Sequences

CONSTANTS
    Tags,         \* element names of the stream
    Grammar,      \* the slots of each element, and of the unit itself
    Texts,        \* the pieces of character data each element may carry
    Filenames,    \* names of the source files
    MaxUnits,     \* bound: units of the archive
    MaxElements,  \* bound: elements after which only those a slot must have start
    MaxDepth,     \* bound: open elements, the unit included
    MaxPieces     \* bound: pieces of character data in one element

Slot == [tags : SUBSET Tags, least : {0, 1}, many : BOOLEAN]

ASSUME StreamAssumption ==
    /\ "unit" \notin Tags
    /\ Grammar \in [Tags \cup {"unit"} -> Seq(Slot)]
    /\ DOMAIN Texts = Tags
    /\ {MaxUnits, MaxElements, MaxDepth, MaxPieces} \subseteq Nat

Text == UNION {Texts[t] : t \in Tags}

VARIABLES
    phase,     \* how far the parser is in the archive
    open,      \* the open elements, outermost (the unit) first
    units,     \* units started
    elements   \* elements started

saxVars == <<phase, open, units, elements>>

Phases == {"start", "document", "root", "unit", "closed", "end"}

(***************************************************************************)
(* An open element: its tag, the last slot of its grammar that was filled, *)
(* its own character data, and, for a function, the character data of the  *)
(* name element that is its own child.                                     *)
(***************************************************************************)
Element == [tag : Tags \cup {"unit"}, slot : Nat,
            text : Seq(Text), name : Seq(Text)]

Fresh(t) == [tag |-> t, slot |-> 0, text |-> <<>>, name |-> <<>>]

Top == open[Len(open)]

OpenTags == {open[i].tag : i \in DOMAIN open}

(* The open elements with a tag, by their places. *)
OpenOf(tag) == {i \in DOMAIN open : open[i].tag = tag}

(* Slot k of element e takes a child t, and no slot it must fill is skipped. *)
Accepts(e, k, t) ==
    LET slots == Grammar[e.tag] IN
    /\ t \in slots[k].tags
    /\ k > e.slot \/ (k = e.slot /\ slots[k].many)
    /\ \A j \in DOMAIN slots : e.slot < j /\ j < k => slots[j].least = 0

(* Element e has all the children and the character data it needs. *)
Complete(e) ==
    /\ \A j \in DOMAIN Grammar[e.tag] : e.slot < j => Grammar[e.tag][j].least = 0
    /\ e.tag \in Tags /\ Texts[e.tag] # {} => e.text # <<>>

SaxTypeOK ==
    /\ phase \in Phases
    /\ open \in Seq(Element)
    /\ units \in Nat
    /\ elements \in Nat

SaxInit ==
    /\ phase = "start"
    /\ open = <<>>
    /\ units = 0
    /\ elements = 0

SaxMove(from, to) ==
    /\ phase = from
    /\ phase' = to
    /\ UNCHANGED <<open, units, elements>>

SaxStartDocument == SaxMove("start", "document")
SaxStartRoot     == SaxMove("document", "root")
SaxEndDocument   == SaxMove("closed", "end")

(* main puts at least one unit into the archive. *)
SaxEndRoot ==
    /\ units > 0
    /\ SaxMove("root", "closed")

SaxStartUnit ==
    /\ phase = "root"
    /\ units < MaxUnits
    /\ phase' = "unit"
    /\ open' = <<Fresh("unit")>>
    /\ units' = units + 1
    /\ UNCHANGED elements

SaxStartElement(t) ==
    /\ phase = "unit"
    /\ Len(open) < MaxDepth
    /\ \E k \in DOMAIN Grammar[Top.tag] :
          /\ Accepts(Top, k, t)
          /\ elements < MaxElements \/ (Grammar[Top.tag][k].least = 1 /\ k > Top.slot)
          /\ open' = Append([open EXCEPT ![Len(open)].slot = k], Fresh(t))
    /\ elements' = elements + 1
    /\ UNCHANGED <<phase, units>>

SaxCharacters(ch) ==
    /\ phase = "unit"
    /\ Top.tag \in Tags
    /\ ch \in Texts[Top.tag]
    /\ Len(Top.text) < MaxPieces
    /\ open' = [open EXCEPT ![Len(open)].text = Append(@, ch)]
    /\ UNCHANGED <<phase, units, elements>>

SaxEndElement(t) ==
    /\ phase = "unit"
    /\ Len(open) > 1
    /\ Top.tag = t
    /\ Complete(Top)
    /\ LET rest == SubSeq(open, 1, Len(open) - 1) IN
       open' = IF t = "name" /\ rest[Len(rest)].tag = "function"
               THEN [rest EXCEPT ![Len(rest)].name = Top.text]
               ELSE rest
    /\ UNCHANGED <<phase, units, elements>>

SaxEndUnit ==
    /\ phase = "unit"
    /\ Len(open) = 1
    /\ Complete(Top)
    /\ phase' = "root"
    /\ open' = <<>>
    /\ UNCHANGED <<units, elements>>
==============================================================================
