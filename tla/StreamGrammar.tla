---------------------------- MODULE StreamGrammar ----------------------------
(***************************************************************************)
(* How the model-checking modules write a Grammar for SaxStream.           *)
(***************************************************************************)
EXTENDS Naturals, Sequences

One(tags)  == [tags |-> tags, least |-> 1, many |-> FALSE]
Opt(tags)  == [tags |-> tags, least |-> 0, many |-> FALSE]
Many(tags) == [tags |-> tags, least |-> 0, many |-> TRUE]
==============================================================================
