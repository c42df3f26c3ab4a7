------------------------------- MODULE MCTokens ------------------------------
(***************************************************************************)
(* The two metrics that look at tokens, ABC and HSM, side by side, on      *)
(* declarations and expressions in and out of functions.  An expression    *)
(* begins with a literal and may go on with operators, calls, comments and *)
(* expressions inside it (indices, arguments).                             *)
(***************************************************************************)
EXTENDS MetricHandlers, StreamGrammar

MCTags == {"function", "decl_stmt", "init", "expr", "literal", "operator", "call", "ternary",
           "comment"}

(* One initialiser at most in a declaration. *)
MCGrammar == [
    unit      |-> << Many({"function", "decl_stmt", "expr"}) >>,
    function  |-> << Many({"decl_stmt", "expr"}) >>,
    decl_stmt |-> << Opt({"init"}) >>,
    init      |-> << Opt({"comment"}), Opt({"expr"}) >>,
    expr      |-> << One({"literal"}), Many({"operator", "expr", "call", "ternary"}) >>,
    call      |-> << Many({"expr"}) >>,
    ternary   |-> << >>,
    literal   |-> << >>,
    operator  |-> << >>,
    comment   |-> << >> ]

MCTexts == [t \in MCTags |-> CASE t = "operator" -> {"=", "<"}
                               [] t = "literal" -> {"1"}
                               [] OTHER -> {}]
MCStaticSpelling == << >>
MCNoFlags == {{}}
==============================================================================
