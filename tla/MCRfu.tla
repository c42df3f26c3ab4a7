-------------------------------- MODULE MCRfu --------------------------------
(***************************************************************************)
(* RFU, beside MND, on functions that call each other, themselves and      *)
(* others, with calls in the arguments of calls, and with names that are   *)
(* no callee: in the function's type, and as an argument.                  *)
(***************************************************************************)
EXTENDS MetricHandlers, StreamGrammar

MCTags == {"function", "type", "name", "call", "argument"}

MCGrammar == [
    unit     |-> << Many({"function"}) >>,
    function |-> << One({"type"}), One({"name"}), Many({"call"}) >>,
    type     |-> << Opt({"name"}) >>,
    call     |-> << One({"name"}), Opt({"argument"}) >>,
    argument |-> << One({"name", "call"}) >>,
    name     |-> << >> ]

MCTexts == [t \in MCTags |-> IF t = "name" THEN {"f", "g", "h"} ELSE {}]
MCStaticSpelling == << >>

(* --cg=g --RFU-show, and the same with --RFU-transitive and external calls. *)
MCFlagSets == {{"RFU_SHOW", "RFU_SIMPLE", "CG_ENABLE", "CG_NO_EXTERNAL"},
               {"RFU_SHOW", "CG_ENABLE"}}

(* --cg=g *)
MCHidden == {{"RFU_SIMPLE", "CG_ENABLE", "CG_NO_EXTERNAL"}}
==============================================================================
