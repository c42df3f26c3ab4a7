----------------------------- MODULE PublicCount ------------------------------
(***************************************************************************)
(* What Number of Public Methods promises: the functions of a unit that    *)
(* are not declared static, whatever other specifiers their types have.    *)
(* A function is public until a static in its type says otherwise.         *)
(***************************************************************************)
EXTENDS SaxStream

CONSTANT StaticSpelling   \* the pieces of character data that spell static

VARIABLES
    overall,  \* public functions of the document so far
    unit,     \* public functions of the unit so far
    rows      \* the reported values, in order

countVars == <<overall, unit, rows>>

(* The element that ends is a static in the type of a function. *)
IsStatic(t) ==
    /\ t = "specifier"
    /\ Top.text = StaticSpelling
    /\ Len(open) > 3
    /\ open[Len(open) - 1].tag = "type"
    /\ open[Len(open) - 2].tag = "function"

CountInit ==
    /\ SaxInit
    /\ overall = 0
    /\ unit = 0
    /\ rows = <<>>

Start(t) ==
    /\ SaxStartElement(t)
    /\ overall' = overall + (IF t = "function" THEN 1 ELSE 0)
    /\ unit' = unit + (IF t = "function" THEN 1 ELSE 0)
    /\ UNCHANGED rows

Finish(t) ==
    /\ SaxEndElement(t)
    /\ overall' = overall - (IF IsStatic(t) THEN 1 ELSE 0)
    /\ unit' = unit - (IF IsStatic(t) THEN 1 ELSE 0)
    /\ UNCHANGED rows

StartUnit ==
    /\ SaxStartUnit
    /\ unit' = 0
    /\ UNCHANGED <<overall, rows>>

FinishUnit ==
    /\ SaxEndUnit
    /\ rows' = Append(rows, unit)
    /\ UNCHANGED <<overall, unit>>

FinishDocument ==
    /\ SaxEndDocument
    /\ rows' = Append(rows, overall)
    /\ UNCHANGED <<overall, unit>>

Silent ==
    /\ SaxStartDocument \/ SaxStartRoot \/ SaxEndRoot \/ \E ch \in Text : SaxCharacters(ch)
    /\ UNCHANGED countVars

CountNext ==
    \/ \E t \in Tags : Start(t) \/ Finish(t)
    \/ StartUnit
    \/ FinishUnit
    \/ FinishDocument
    \/ Silent

CountSpec == CountInit /\ [][CountNext]_<<saxVars, countVars>>
==============================================================================
