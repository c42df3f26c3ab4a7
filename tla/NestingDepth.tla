----------------------------- MODULE NestingDepth -----------------------------
(***************************************************************************)
(* What Maximum Nesting Depth promises: the largest number of blocks that  *)
(* are open at once in the document, in each unit and in each function.    *)
(***************************************************************************)
EXTENDS SaxStream, FiniteSetsExt

VARIABLES
    overall,  \* depth of the document so far
    unit,     \* depth of the unit so far
    fn,       \* depth of the latest function so far
    rows      \* the reported values, in order

depthVars == <<overall, unit, fn, rows>>

Depth(elems) == Cardinality({i \in DOMAIN elems : elems[i].tag = "block"})

DepthInit ==
    /\ SaxInit
    /\ overall = 0
    /\ unit = 0
    /\ fn = 0
    /\ rows = <<>>

Start(t) ==
    /\ SaxStartElement(t)
    /\ overall' = Max({overall, Depth(open')})
    /\ unit' = Max({unit, Depth(open')})
    /\ fn' = IF t = "function" THEN Depth(open')
             ELSE IF "function" \in OpenTags THEN Max({fn, Depth(open')})
             ELSE fn
    /\ UNCHANGED rows

Finish(t) ==
    /\ SaxEndElement(t)
    /\ rows' = IF t = "function" THEN Append(rows, fn) ELSE rows
    /\ UNCHANGED <<overall, unit, fn>>

StartUnit ==
    /\ SaxStartUnit
    /\ unit' = 0
    /\ UNCHANGED <<overall, fn, rows>>

FinishUnit ==
    /\ SaxEndUnit
    /\ rows' = Append(rows, unit)
    /\ UNCHANGED <<overall, unit, fn>>

FinishDocument ==
    /\ SaxEndDocument
    /\ rows' = Append(rows, overall)
    /\ UNCHANGED <<overall, unit, fn>>

Silent ==
    /\ SaxStartDocument \/ SaxStartRoot \/ SaxEndRoot \/ \E ch \in Text : SaxCharacters(ch)
    /\ UNCHANGED depthVars

DepthNext ==
    \/ \E t \in Tags : Start(t) \/ Finish(t)
    \/ StartUnit
    \/ FinishUnit
    \/ FinishDocument
    \/ Silent

DepthSpec == DepthInit /\ [][DepthNext]_<<saxVars, depthVars>>
==============================================================================
