------------------------------ MODULE LineCount ------------------------------
(***************************************************************************)
(* What Source Lines of Code promises, told by the structure of the parsed *)
(* code and not by a state machine.  An element counts as a line when it   *)
(* is a function, an outermost simple statement, or, inside a function, a  *)
(* compound statement or type that is not part of a simple statement.      *)
(***************************************************************************)
EXTENDS SaxStream

VARIABLES
    overall,  \* lines of the document so far
    unit,     \* lines of the unit so far
    fn,       \* lines of the latest function so far
    rows      \* the reported values, in order

lineVars == <<overall, unit, fn, rows>>

SimpleStatement == {"expr_stmt", "decl_stmt", "return", "break", "continue", "label",
                    "goto", "default", "case", "directive", "macro"}
Compound == {"for", "while", "switch", "if_stmt", "typedef", "struct", "union"}

InFunction  == "function" \in OpenTags
InStatement == SimpleStatement \cap OpenTags # {}

IsLine(t) ==
    \/ t = "function"
    \/ t \in SimpleStatement /\ ~InStatement
    \/ t \in Compound /\ InFunction /\ ~InStatement

LineInit ==
    /\ SaxInit
    /\ overall = 0
    /\ unit = 0
    /\ fn = 0
    /\ rows = <<>>

Start(t) ==
    /\ SaxStartElement(t)
    /\ overall' = overall + (IF IsLine(t) THEN 1 ELSE 0)
    /\ unit' = unit + (IF IsLine(t) THEN 1 ELSE 0)
    /\ fn' = IF t = "function" THEN 0
             ELSE fn + (IF IsLine(t) /\ InFunction THEN 1 ELSE 0)
    /\ UNCHANGED rows

Finish(t) ==
    /\ SaxEndElement(t)
    /\ rows' = IF t = "function" THEN Append(rows, fn) ELSE rows
    /\ UNCHANGED <<overall, unit, fn>>

StartUnit ==
    /\ SaxStartUnit
    /\ unit' = 0
    /\ UNCHANGED <<overall, fn, rows>>

FinishUnit ==
    /\ SaxEndUnit
    /\ rows' = Append(rows, unit)
    /\ UNCHANGED <<overall, unit, fn>>

FinishDocument ==
    /\ SaxEndDocument
    /\ rows' = Append(rows, overall)
    /\ UNCHANGED <<overall, unit, fn>>

Silent ==
    /\ SaxStartDocument \/ SaxStartRoot \/ SaxEndRoot \/ \E ch \in Text : SaxCharacters(ch)
    /\ UNCHANGED lineVars

LineNext ==
    \/ \E t \in Tags : Start(t) \/ Finish(t)
    \/ StartUnit
    \/ FinishUnit
    \/ FinishDocument
    \/ Silent

LineSpec == LineInit /\ [][LineNext]_<<saxVars, lineVars>>
==============================================================================
