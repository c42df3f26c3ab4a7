----------------------------- MODULE CallGraph -----------------------------
(***************************************************************************)
(* What RFU promises, told by the structure of the parsed code: which      *)
(* function is defined in which file, which function calls which, and the  *)
(* responses, which count the functions that a function, a file and the    *)
(* document involve.  A function is known by its name alone.               *)
(***************************************************************************)
EXTENDS SaxStream, FiniteSets

VARIABLES
    simple,      \* responses count direct calls only
    file,        \* the file of the open unit, as the key of its string
    definitions, \* files and the functions they define
    calls,       \* callers and callees
    responses    \* the reported responses, in order

graphVars == <<simple, file, definitions, calls, responses>>

Names == {d[2] : d \in definitions} \cup {c[1] : c \in calls} \cup {c[2] : c \in calls}

CalledBy(fs) == {c[2] : c \in {d \in calls : d[1] \in fs}}

(* The functions that fs involve: themselves and those that they call, or  *)
(* that are called on the way, which is the least group that contains fs   *)
(* and calls nobody outside.                                               *)
Involved(fs) ==
    IF simple THEN fs \cup CalledBy(fs)
    ELSE {g \in Names : \A group \in SUBSET Names :
             fs \subseteq group /\ CalledBy(group) \subseteq group => g \in group}

Caller == open[CHOOSE i \in DOMAIN open : open[i].tag = "function"].name

GraphInit ==
    /\ SaxInit
    /\ simple \in BOOLEAN
    /\ file = <<>>
    /\ definitions = {}
    /\ calls = {}
    /\ responses = <<>>

StartUnit ==
    /\ SaxStartUnit
    /\ \E filename \in Filenames : file' = <<filename>>
    /\ UNCHANGED <<simple, definitions, calls, responses>>

(* The name of a function, or of a function that is called, is complete.   *)
Name ==
    /\ SaxEndElement("name")
    /\ LET tag == open[Len(open) - 1].tag IN
       /\ definitions' = definitions \cup
                             (IF tag = "function" THEN {<<file, Top.text>>} ELSE {})
       /\ calls' = calls \cup (IF tag = "call" THEN {<<Caller, Top.text>>} ELSE {})
    /\ UNCHANGED <<simple, file, responses>>

FinishFunction ==
    /\ SaxEndElement("function")
    /\ responses' = Append(responses, Cardinality(Involved({Top.name})))
    /\ UNCHANGED <<simple, file, definitions, calls>>

FinishUnit ==
    /\ SaxEndUnit
    /\ LET own == {d[2] : d \in {e \in definitions : e[1] = file}} IN
       responses' = Append(responses, Cardinality(Involved(own)))
    /\ file' = <<>>
    /\ UNCHANGED <<simple, definitions, calls>>

FinishDocument ==
    /\ SaxEndDocument
    /\ responses' = Append(responses, Cardinality(Names))
    /\ UNCHANGED <<simple, file, definitions, calls>>

Silent ==
    /\ \/ SaxStartDocument \/ SaxStartRoot \/ SaxEndRoot
       \/ \E t \in Tags : SaxStartElement(t)
       \/ \E t \in Tags \ {"function", "name"} : SaxEndElement(t)
       \/ \E ch \in Text : SaxCharacters(ch)
    /\ UNCHANGED graphVars

GraphNext ==
    \/ StartUnit
    \/ Name
    \/ FinishFunction
    \/ FinishUnit
    \/ FinishDocument
    \/ Silent

GraphSpec == GraphInit /\ [][GraphNext]_<<saxVars, graphVars>>
==============================================================================
