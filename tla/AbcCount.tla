------------------------------ MODULE AbcCount ------------------------------
(***************************************************************************)
(* What ABC promises, told by the structure of the parsed code.  A call or *)
(* a jump is a branch; an alternative, or a comparison, is a condition; an *)
(* assigning operator, or the initialiser of a declaration, is an          *)
(* assignment.  Each counts in the document, in its unit, and in the       *)
(* function it is in.                                                      *)
(***************************************************************************)
EXTENDS SaxStream

VARIABLES
    overall,  \* assignments, branches and conditions of the document so far
    unit,     \* of the unit so far
    fn,       \* of the latest function so far
    rows      \* the reported counts, in order

countVars == <<overall, unit, fn, rows>>

(* Operators by the characters they are spelled with. *)
Comparison == {<<"!", "=">>, <<"=", "=">>, <<">", "=">>, <<"<", "=">>, <<">">>, <<"<">>}

Assignment ==
    {<<"+", "+">>, <<"-", "-">>, <<"=">>, <<">", ">", "=">>, <<"<", "<", "=">>}
    \cup {<<o, "=">> : o \in {"^", "|", "&", "-", "+", "%", "/", "*"}}

Branch      == {"call", "goto"}
Alternative == {"else", "case", "default", "ternary"}

Zero == [A |-> 0, B |-> 0, C |-> 0]
InFunction == "function" \in OpenTags

CountInit ==
    /\ SaxInit
    /\ overall = Zero
    /\ unit = Zero
    /\ fn = Zero
    /\ rows = <<>>

(* One more of a kind, at every level that encloses it. *)
More(kind) ==
    /\ overall' = [overall EXCEPT ![kind] = @ + 1]
    /\ unit' = [unit EXCEPT ![kind] = @ + 1]
    /\ fn' = IF InFunction THEN [fn EXCEPT ![kind] = @ + 1] ELSE fn

StartFunction ==
    /\ SaxStartElement("function")
    /\ fn' = Zero
    /\ UNCHANGED <<overall, unit, rows>>

StartCounted(t) ==
    /\ SaxStartElement(t)
    /\ \/ t \in Branch /\ More("B")
       \/ t \in Alternative /\ More("C")
       \/ t = "init" /\ "decl_stmt" \in OpenTags /\ More("A")
    /\ UNCHANGED rows

StartOther(t) ==
    /\ SaxStartElement(t)
    /\ t \notin {"function"} \cup Branch \cup Alternative
    /\ ~(t = "init" /\ "decl_stmt" \in OpenTags)
    /\ UNCHANGED countVars

FinishOperator ==
    /\ SaxEndElement("operator")
    /\ \/ Top.text \in Comparison /\ More("C")
       \/ Top.text \in Assignment /\ More("A")
       \/ Top.text \notin Comparison \cup Assignment /\ UNCHANGED <<overall, unit, fn>>
    /\ UNCHANGED rows

FinishFunction ==
    /\ SaxEndElement("function")
    /\ rows' = Append(rows, fn)
    /\ UNCHANGED <<overall, unit, fn>>

FinishOther(t) ==
    /\ SaxEndElement(t)
    /\ t \notin {"function", "operator"}
    /\ UNCHANGED countVars

StartUnit ==
    /\ SaxStartUnit
    /\ unit' = Zero
    /\ UNCHANGED <<overall, fn, rows>>

FinishUnit ==
    /\ SaxEndUnit
    /\ rows' = Append(rows, unit)
    /\ UNCHANGED <<overall, unit, fn>>

FinishDocument ==
    /\ SaxEndDocument
    /\ rows' = Append(rows, overall)
    /\ UNCHANGED <<overall, unit, fn>>

Silent ==
    /\ SaxStartDocument \/ SaxStartRoot \/ SaxEndRoot \/ \E ch \in Text : SaxCharacters(ch)
    /\ UNCHANGED countVars

CountNext ==
    \/ StartFunction
    \/ \E t \in Tags : StartCounted(t) \/ StartOther(t)
    \/ FinishOperator
    \/ FinishFunction
    \/ \E t \in Tags : FinishOther(t)
    \/ StartUnit
    \/ FinishUnit
    \/ FinishDocument
    \/ Silent

CountSpec == CountInit /\ [][CountNext]_<<saxVars, countVars>>
==============================================================================
