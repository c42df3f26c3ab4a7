------------------------------ MODULE MCMetrics ------------------------------
(***************************************************************************)
(* The dispatcher with the metrics that do not look at names, every metric *)
(* but RFU: nested blocks and types, statements of each kind, functions    *)
(* and variables with and without specifiers, and, for the dispatcher,     *)
(* names next to a function's own.                                         *)
(***************************************************************************)
EXTENDS MetricHandlers, StreamGrammar

MCTags == {"function", "type", "name", "specifier", "block", "struct", "decl_stmt", "return",
           "if_stmt", "goto"}

(* Simple statements do not nest, and static is the one specifier. *)
MCGrammar == [
    unit      |-> << Many({"function", "struct", "decl_stmt"}) >>,
    function  |-> << One({"type"}), Many({"block", "decl_stmt", "return", "if_stmt"}) >>,
    block     |-> << Many({"block", "struct", "return"}) >>,
    struct    |-> << Many({"block", "decl_stmt"}) >>,
    if_stmt   |-> << Many({"return", "if_stmt"}) >>,
    decl_stmt |-> << Opt({"type"}) >>,
    return    |-> << >>,
    goto      |-> << >>,
    type      |-> << Opt({"specifier"}) >>,
    name      |-> << >>,
    specifier |-> << >> ]

(* Simple statements that nest: a variable of a type that is defined in    *)
(* place, whose members are declaration statements.  There is a name in    *)
(* the type of a function, in its body, and outside functions.             *)
MCNested == [MCGrammar EXCEPT
    !["unit"]      = << Many({"function", "decl_stmt"}) >>,
    !["function"]  = << One({"type"}), One({"name"}), Many({"decl_stmt", "struct", "goto"}) >>,
    !["struct"]    = << Many({"decl_stmt"}) >>,
    !["decl_stmt"] = << Opt({"type"}), Opt({"name"}), Opt({"struct"}) >>,
    !["type"]      = << Many({"specifier"}), Opt({"name"}) >>]

(* Functions and variables with one specifier at most. *)
MCOneSpecifier == [MCGrammar EXCEPT
    !["unit"]      = << Many({"function", "decl_stmt"}) >>,
    !["function"]  = << One({"type"}), Opt({"decl_stmt"}) >>,
    !["decl_stmt"] = << One({"type"}) >>]

MCTexts == [t \in MCTags |-> IF t = "specifier" THEN {"static"} ELSE {}]

(* A specifier is static or another one, here const, and a type has a blank *)
(* before, between or after its children.  Text of two pieces is another   *)
(* name, or a specifier that is not static.                                *)
MCOtherTexts == [t \in MCTags |-> CASE t = "specifier" -> {"static", "const"}
                                    [] t = "name" -> {"f"}
                                    [] t = "type" -> {" "}
                                    [] OTHER -> {}]

MCStaticSpelling == <<"static">>
MCNoFlags == {{}}
==============================================================================
