---------------------------- MODULE MetricHandlers ----------------------------
(***************************************************************************)
(* The dispatcher with the metrics that report rows, as event.c composes   *)
(* them: at every event the handlers of the enabled metrics run one after  *)
(* another, in the order of METRICS.  They share the stream, the           *)
(* identifiers and `strings`, and each must find there what it needs,      *)
(* whatever the others are.  CC, which reports nothing and which no        *)
(* function gets through, is the matter of CParse.                         *)
(***************************************************************************)
EXTENDS Abc, Hsm, SizeMetrics, Mnd, Npm, Rfu

metricVars == <<abcVars, amsVars, hsmVars, mcVars, mndVars, npmVars, rfuVars, slocVars>>
programVars == <<vars, metricVars>>

(* eventsAt... hold the handlers of the enabled metrics only. *)
Handle(metric, handler, metricState) ==
    IF metric \in Enabled THEN handler ELSE UNCHANGED metricState

MetricsInit ==
    /\ Init
    /\ AbcInit /\ AmsInit /\ HsmInit /\ McInit /\ MndInit /\ NpmInit /\ RfuInit /\ SlocInit

StartDocument ==
    /\ event_startDocument
    /\ Handle("ABC", event_startDocument_abc, abcVars)
    /\ Handle("AMS", event_startDocument_ams, amsVars)
    /\ Handle("HSM", event_startDocument_hsm, hsmVars)
    /\ Handle("MC", event_startDocument_mc, mcVars)
    /\ Handle("MND", event_startDocument_mnd, mndVars)
    /\ Handle("NPM", event_startDocument_npm, npmVars)
    /\ Handle("RFU", event_startDocument_rfu, rfuVars)
    /\ Handle("SLOC", event_startDocument_sloc, slocVars)

StartRoot == event_startRoot /\ UNCHANGED metricVars

StartUnit(filename) ==
    /\ event_startUnit(filename)
    /\ Handle("ABC", event_startUnit_abc, abcVars)
    /\ Handle("AMS", event_startUnit_ams, amsVars)
    /\ Handle("HSM", event_startUnit_hsm, hsmVars)
    /\ Handle("MC", event_startUnit_mc, mcVars)
    /\ Handle("MND", event_startUnit_mnd, mndVars)
    /\ Handle("NPM", event_startUnit_npm, npmVars)
    /\ Handle("RFU", event_startUnit_rfu(filename), rfuVars)
    /\ Handle("SLOC", event_startUnit_sloc, slocVars)

StartElement(localname) ==
    /\ event_startElement(localname)
    /\ Handle("ABC", event_startElement_abc(localname), abcVars)
    /\ Handle("AMS", event_startElement_ams(localname), amsVars)
    /\ Handle("HSM", event_startElement_hsm(localname), hsmVars)
    /\ Handle("MC", event_startElement_mc(localname), mcVars)
    /\ Handle("MND", event_startElement_mnd(localname), mndVars)
    /\ Handle("NPM", event_startElement_npm(localname), npmVars)
    /\ Handle("RFU", event_startElement_rfu(localname), rfuVars)
    /\ Handle("SLOC", event_startElement_sloc(localname), slocVars)

EndElement(localname) ==
    /\ event_endElement(localname)
    /\ Handle("ABC", event_endElement_abc(localname), abcVars)
    /\ Handle("AMS", event_endElement_ams(localname), amsVars)
    /\ Handle("HSM", event_endElement_hsm(localname), hsmVars)
    /\ Handle("MND", event_endElement_mnd(localname), mndVars)
    /\ Handle("NPM", event_endElement_npm(localname), npmVars)
    /\ Handle("RFU", event_endElement_rfu(localname), rfuVars)
    /\ Handle("SLOC", event_endElement_sloc(localname), slocVars)
    /\ UNCHANGED mcVars

CharactersUnit(ch) ==
    /\ event_charactersUnit(ch)
    /\ Handle("ABC", event_charactersUnit_abc(ch), abcVars)
    /\ Handle("HSM", event_charactersUnit_hsm(ch), hsmVars)
    /\ Handle("NPM", event_charactersUnit_npm(ch), npmVars)
    /\ Handle("RFU", event_charactersUnit_rfu(ch), rfuVars)
    /\ UNCHANGED <<amsVars, mcVars, mndVars, slocVars>>

EndUnit ==
    /\ event_endUnit
    /\ Handle("ABC", event_endUnit_abc, abcVars)
    /\ Handle("AMS", event_endUnit_ams, amsVars)
    /\ Handle("HSM", event_endUnit_hsm, hsmVars)
    /\ Handle("MC", event_endUnit_mc, mcVars)
    /\ Handle("MND", event_endUnit_mnd, mndVars)
    /\ Handle("NPM", event_endUnit_npm, npmVars)
    /\ Handle("RFU", event_endUnit_rfu, rfuVars)
    /\ Handle("SLOC", event_endUnit_sloc, slocVars)

EndRoot == event_endRoot /\ UNCHANGED metricVars

EndDocument ==
    /\ event_endDocument
    /\ Handle("ABC", event_endDocument_abc, abcVars)
    /\ Handle("AMS", event_endDocument_ams, amsVars)
    /\ Handle("HSM", event_endDocument_hsm, hsmVars)
    /\ Handle("MC", event_endDocument_mc, mcVars)
    /\ Handle("MND", event_endDocument_mnd, mndVars)
    /\ Handle("NPM", event_endDocument_npm, npmVars)
    /\ Handle("RFU", event_endDocument_rfu, rfuVars)
    /\ Handle("SLOC", event_endDocument_sloc, slocVars)

MetricsNext ==
    /\ ~rfu_terminated
    /\ \/ StartDocument
       \/ StartRoot
       \/ \E filename \in Filenames : StartUnit(filename)
       \/ \E localname \in Tags : StartElement(localname)
       \/ \E localname \in Tags : EndElement(localname)
       \/ \E ch \in Text : CharactersUnit(ch)
       \/ EndUnit
       \/ EndRoot
       \/ EndDocument

MetricsSpec == MetricsInit /\ [][MetricsNext]_programVars

-----------------------------------------------------------------------------
(* Properties.                                                             *)

(* The rows in the map of each metric. *)
Statistics == [ABC |-> abc_statistics, AMS |-> ams_statistics, HSM |-> hsm_statistics,
               MC |-> mc_statistics, MND |-> mnd_statistics, NPM |-> npm_statistics,
               RFU |-> rfu_statistics, SLOC |-> sloc_statistics]

Keys(m) == [i \in DOMAIN Statistics[m] |-> Statistics[m][i].key]

(* The members of a set that a sequence has, in their order. *)
Among(set, seq) ==
    LET first[k \in 0..Len(seq)] ==
            IF k = 0 THEN <<>>
            ELSE IF seq[k] \in set THEN Append(first[k - 1], seq[k])
            ELSE first[k - 1]
    IN  first[Len(seq)]

(* The strings that begin with a name. *)
Under(names) == {string \in Seq(Piece) : string # <<>> /\ string[1] \in names}

(* What the rows of a metric are about, in the order of their insertion: a *)
(* metric with several rows for a subject ends with the one of its name.   *)
Subjects(m) ==
    LET keys == Among(Under({Last(RowNames[m])}), Keys(m))
    IN  [i \in DOMAIN keys |-> Tail(keys[i])]

(* Units and the document: no more than a file's name. *)
OfUnits(subjects) == Among({subject \in Seq(Piece) : Len(subject) < 3}, subjects)

(* The metrics that report functions report the same functions, in the     *)
(* same order, between the same units; the others the same units.          *)
SubjectsAgree ==
    LET subjects == [m \in Enabled |-> Subjects(m)] IN
    \A m, n \in Enabled :
        /\ {m, n} \subseteq {"ABC", "HSM", "MND", "RFU", "SLOC"} => subjects[m] = subjects[n]
        /\ OfUnits(subjects[m]) = OfUnits(subjects[n])
==============================================================================
