------------------------------ MODULE MCCParse ------------------------------
(***************************************************************************)
(* The C parser on functions with nested blocks, and on declarations at    *)
(* file level.  Ignored elements between those are left out: block stands  *)
(* between function and block_content, expr between expr_stmt and call.    *)
(***************************************************************************)
EXTENDS CParse, StreamGrammar

MCTags == {"function", "type", "name", "parameter_list", "block_content", "expr_stmt",
           "call", "decl_stmt", "while", "condition", "break", "comment", "if_stmt",
           "if", "elseif"}

MCGrammar == [
    unit           |-> << Many({"function", "decl_stmt"}) >>,
    function       |-> << Opt({"type"}), One({"name"}), One({"parameter_list"}),
                          One({"block_content"}) >>,
    type           |-> << Opt({"name"}) >>,
    parameter_list |-> << Opt({"name"}) >>,
    block_content  |-> << Many({"expr_stmt", "while", "break", "comment", "if_stmt"}) >>,
    while          |-> << One({"condition"}), One({"block_content"}) >>,
    if_stmt        |-> << One({"if"}), Opt({"elseif"}) >>,
    if             |-> << One({"condition"}), One({"block_content"}) >>,
    elseif         |-> << One({"condition"}), One({"block_content"}) >>,
    condition      |-> << Opt({"call"}) >>,
    expr_stmt      |-> << Opt({"name", "call"}) >>,
    decl_stmt      |-> << One({"name"}), Opt({"call"}) >>,
    call           |-> << One({"name"}) >>,
    break          |-> << >>,
    comment        |-> << >>,
    name           |-> << >> ]

MCTexts == [t \in MCTags |->
    IF t = "name" THEN {"f"} ELSE IF t = "expr_stmt" THEN {";"} ELSE {}]
==============================================================================
