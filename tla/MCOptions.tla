------------------------------ MODULE MCOptions ------------------------------
(***************************************************************************)
(* Command lines over a few words of every kind.                           *)
(***************************************************************************)
EXTENDS Options, TLC

ShortWord(names)      == [form |-> "short", names |-> names, eq |-> FALSE, value |-> ""]
ShortGiven(names, v)  == [form |-> "short", names |-> names, eq |-> TRUE, value |-> v]
LongWord(name)        == [form |-> "long", names |-> <<name>>, eq |-> FALSE, value |-> ""]
LongGiven(name, v)    == [form |-> "long", names |-> <<name>>, eq |-> TRUE, value |-> v]
PlainWord             == [form |-> "word", names |-> <<>>, eq |-> FALSE, value |-> ""]
Dash                  == [form |-> "bare", names |-> <<>>, eq |-> FALSE, value |-> ""]

(* Words of every action: files that exist and do not, lists, metrics,     *)
(* graphs, options with and without parameters, alone, and in clusters.    *)
MCLex ==
    "a.c" :> PlainWord @@ "files" :> PlainWord @@ "MC" :> PlainWord @@
    "-" :> Dash @@ "-q" :> ShortWord(<<"q">>) @@
    "-h" :> ShortWord(<<"h">>) @@ "-s" :> ShortWord(<<"s">>) @@
    "-a" :> ShortWord(<<"a">>) @@
    "-am" :> ShortWord(<<"a", "m">>) @@
    "-e=MC" :> ShortGiven(<<"e">>, "MC") @@ "-e=MND" :> ShortGiven(<<"e">>, "MND") @@
    "-m=MC" :> ShortGiven(<<"m">>, "MC") @@ "-m=MND" :> ShortGiven(<<"m">>, "MND") @@
    "--metric" :> LongWord("--metric") @@ "--metric=MC" :> LongGiven("--metric", "MC") @@
    "-f=metrics" :> ShortGiven(<<"f">>, "metrics") @@
    "--output" :> LongWord("--output") @@
    "--files-from" :> LongWord("--files-from") @@
    "--files-from=more" :> LongGiven("--files-from", "more") @@
    "--cg" :> LongWord("--cg") @@
    "--cfg=g" :> LongGiven("--cfg", "g") @@
    "--ipcfg" :> LongWord("--ipcfg") @@ "--ipcfg=g" :> LongGiven("--ipcfg", "g") @@
    "--RFU-show" :> LongWord("--RFU-show") @@ "--RFU-quiet" :> LongWord("--RFU-quiet")

MCWords == DOMAIN MCLex

MCLists == "files" :> <<"a.c", "b.c">> @@ "more" :> <<"b.c">> @@ "metrics" :> <<"MC", "NPM">>

MCExisting == {"a.c", "b.c"}

MCBadMetric == "MC" :> "C"
==============================================================================
