-------------------------------- MODULE Chunk --------------------------------
(***************************************************************************)
(* The part of padkit's Chunk that srcmetrics relies on: an append-only    *)
(* list of strings.  padkit is an external submodule; the operators are    *)
(* modelled from how src/ uses them.  A string is the sequence of the      *)
(* pieces it was put together from.  Identifiers count from 1 here and     *)
(* NoId stands for 0xFFFFFFFF.                                             *)
(***************************************************************************)
EXTENDS Naturals, Sequences

NoId == 0

(* A new string; its identifier is the length of the new list. *)
add_chunk(chunk, str) == Append(chunk, str)

(* A new string, equal to the one with identifier id. *)
addIndex_chunk(chunk, id) == Append(chunk, chunk[id])

(* More pieces at the end of the LAST string, whichever that is. *)
append_chunk(chunk, str) == [chunk EXCEPT ![Len(chunk)] = @ \o str]

(* The string with identifier id, or nothing when there is none. *)
get_chunk(chunk, id) == IF id \in DOMAIN chunk THEN chunk[id] ELSE <<>>
==============================================================================
