------------------------------- MODULE Options -------------------------------
(***************************************************************************)
(* main of src/srcmetrics.c: the command line is read word by word and     *)
(* option letter by option letter into the global `options`, the source    *)
(* files are collected and put into one srcML archive, the archive is      *)
(* parsed (see Event) and the report is written.  One thread, many ways    *)
(* out.  The build is the one with padkit's debug checks on.               *)
(*                                                                         *)
(* A word of the command line is a value; how it reads as an option is     *)
(* the constant Lex: "word" is an argument that is no option, "bare" a     *)
(* lone dash, "short" a cluster of letters, "long" a name; the text after  *)
(* an equals sign, when there is one, is in value.                         *)
(***************************************************************************)
EXTENDS Naturals, Sequences, FiniteSets

CONSTANTS
    Words,      \* words a command line may be made of
    Lex,        \* how each of them reads
    BadMetric,  \* what is left of a metric's name without its first letter
    Lists,      \* contents of the files that list files or metrics
    Existing,   \* source files that can be opened
    MaxArgs     \* bound: words of the command line

ASSUME OptionsAssumption ==
    /\ DOMAIN Lex = Words
    /\ \A w \in Words :
          /\ w \in STRING
          /\ Lex[w].form \in {"word", "bare", "short", "long"}
          /\ Lex[w].names \in Seq(STRING)
          /\ Lex[w].eq \in BOOLEAN
    /\ \A w \in Words : Lex[w].form = "long" => Len(Lex[w].names) = 1
    /\ \A l \in DOMAIN Lists : Lists[l] \in Seq(STRING)
    /\ MaxArgs \in Nat

VARIABLES
    pc,               \* "args", "register", "archive", "parse", "done"
    argv,             \* the command line, without the program's name
    arg_id,           \* the word being read
    letter,           \* the letter of the cluster being read
    enabledMetrics,   \* options.enabledMetrics
    flags,            \* options.flags
    settings,         \* outfile, language, delimeter and the graphs' names
    cmd_infiles,      \* source files, in the order they were collected
    strings,          \* the global Chunk: what the list files hold
    first_infile_id,  \* the strings of the latest --files-from file,
    last_infile_id,   \*   or NoId
    archive,          \* units of the archive, in order
    message,          \* the message printed on the way out
    result            \* the exit status, and whether a report was written

argVars     == <<argv, arg_id, letter>>
optionVars  == <<enabledMetrics, flags, settings>>
infileVars  == <<cmd_infiles, strings, first_infile_id, last_infile_id>>
outcomeVars == <<message, result>>
vars == <<pc, argVars, optionVars, infileVars, archive, outcomeVars>>

NoId == 0
Unset == ""

Metrics == {"ABC", "AMS", "CC", "HSM", "MC", "MND", "NPM", "RFU", "SLOC"}

(* ALL_METRICS_ENABLED sets all 64 bits: the metrics' nine and the others. *)
HighBits == "bits 9 to 63"
AllMetrics == Metrics \cup {HighBits}

FlagsDefault == {"GRAPH_ENABLE_DOT", "GRAPH_ENABLE_XML", "CG_NO_EXTERNAL", "RFU_SIMPLE",
                 "RFU_SHOW", "CC_SHOW"}

(* Options that take a parameter. *)
GraphOption   == {"--cg", "--cfg", "--ipcfg"}
SettingOption == {"--delimeter", "--language", "--output"}
ListOption    == {"--metrics-from", "--excluded-from", "--files-from"}
ValueOption   == GraphOption \cup SettingOption \cup ListOption \cup {"--metric", "--exclude"}

(* Options that must be the only argument. *)
AloneOption == {"--copyright", "--help", "--list", "--version"}

(* Options that set or clear bits of flags, as [option, cleared, set]. *)
FlagTable ==
    { <<"--cg-no-external", {}, {"CG_NO_EXTERNAL"}>>,
      <<"--cg-show-external", {"CG_NO_EXTERNAL"}, {}>>,
      <<"--CC-quiet", {"CC_SHOW"}, {}>>,
      <<"--CC-show", {}, {"CC_SHOW"}>>,
      <<"--graph-enable-dot", {}, {"GRAPH_ENABLE_DOT"}>>,
      <<"--graph-disable-dot", {"GRAPH_ENABLE_DOT"}, {}>>,
      <<"--graph-enable-xml", {}, {"GRAPH_ENABLE_XML"}>>,
      <<"--graph-disable-xml", {"GRAPH_ENABLE_XML"}, {}>>,
      <<"--no-cfg", {"CFG_ENABLE", "IPCFG_ENABLE"}, {}>>,
      <<"--no-cg", {"CG_ENABLE"}, {}>>,
      <<"--RFU-quiet", {"RFU_SHOW"}, {}>>,
      <<"--RFU-show", {}, {"RFU_SHOW"}>>,
      <<"--RFU-simple", {}, {"RFU_SIMPLE"}>>,
      <<"--RFU-transitive", {"RFU_SIMPLE"}, {}>>,
      <<"--verbose", {}, {"VERBOSE"}>> }
FlagOption == {row[1] : row \in FlagTable}

(* The bit a graph option sets, and the metric it enables without showing. *)
GraphFlag   == [cg |-> "CG_ENABLE", cfg |-> "CFG_ENABLE", ipcfg |-> "IPCFG_ENABLE"]
GraphName(o)   == CASE o = "--cg" -> "cg" [] o = "--cfg" -> "cfg" [] o = "--ipcfg" -> "ipcfg"
GraphMetric(o) == IF o = "--cg" THEN "RFU" ELSE "CC"
ShowFlag(m)    == IF m = "RFU" THEN "RFU_SHOW" ELSE "CC_SHOW"
QuietOption(m) == IF m = "RFU" THEN "--RFU-quiet" ELSE "--CC-quiet"
ShowOption(m)  == IF m = "RFU" THEN "--RFU-show" ELSE "--CC-show"

(* The long name of each option letter. *)
LetterTable == [
    a |-> "--all-metrics", c |-> "--copyright", d |-> "--delimeter", e |-> "--exclude",
    f |-> "--metrics-from", h |-> "--help", l |-> "--language", L |-> "--list",
    m |-> "--metric", o |-> "--output", s |-> "--show", v |-> "--verbose",
    V |-> "--version", x |-> "--excluded-from" ]

(* Slip: a metric is only enabled when it is the first. *)
Enable_firstOnly(enabled, metric) == IF enabled = AllMetrics THEN {metric} ELSE enabled

(* enableOrExclude_metric for a metric that exists. *)
Enable(enabled, metric) == (IF enabled = AllMetrics THEN {} ELSE enabled) \cup {metric}
Exclude(enabled, metric) == enabled \ {metric}

-----------------------------------------------------------------------------
(* The option being read.                                                  *)

Word == Lex[argv[arg_id]]
IsLong == Word.form = "long"
AtEnd == IsLong \/ letter = Len(Word.names)
Alone == arg_id = 1 /\ Len(argv) = 1

(* A cluster goes on after its letters with the equals sign, no letter.    *)
Spelled ==
    IF IsLong THEN Word.names[1]
    ELSE IF letter <= Len(Word.names) /\ Word.names[letter] \in DOMAIN LetterTable
         THEN LetterTable[Word.names[letter]] ELSE "unrecognized"

(* A long option without a parameter does not match with an equals sign.   *)
Option ==
    IF \/ Spelled \in ValueOption \cup AloneOption \cup FlagOption \cup {"--all-metrics", "--show"}
       THEN IF IsLong /\ Word.eq /\ Spelled \notin ValueOption \cup {"--show"}
            THEN "unrecognized" ELSE Spelled
       ELSE "unrecognized"

Reading(options) ==
    /\ pc = "args"
    /\ arg_id <= Len(argv)
    /\ Word.form \in {"short", "long"}
    /\ Option \in options

HasParameter == AtEnd /\ (Word.eq \/ arg_id < Len(argv))

(* The parameter of --metric=M is read one character too late, that of     *)
(* --ipcfg=NAME two too early.                                             *)
Parameter ==
    IF ~Word.eq THEN argv[arg_id + 1]
    ELSE IF IsLong /\ Option = "--metric" THEN BadMetric[Word.value]
    ELSE IF IsLong /\ Option = "--ipcfg" THEN "g=" \o Word.value
    ELSE Word.value

AfterParameter ==
    /\ arg_id' = arg_id + (IF Word.eq THEN 1 ELSE 2)
    /\ letter' = 1
    /\ UNCHANGED <<pc, argv>>

(* Slip: the cluster goes on without moving to the next letter. *)
AfterFlag_sameLetter ==
    /\ IF AtEnd /\ (IsLong \/ ~Word.eq) THEN arg_id' = arg_id + 1 /\ letter' = 1
       ELSE UNCHANGED <<arg_id, letter>>
    /\ UNCHANGED <<pc, argv>>

(* The letters a and v let the cluster go on. *)
AfterFlag ==
    /\ IF AtEnd /\ (IsLong \/ ~Word.eq)
       THEN arg_id' = arg_id + 1 /\ letter' = 1
       ELSE arg_id' = arg_id /\ letter' = letter + 1
    /\ UNCHANGED <<pc, argv>>

Exit(status, text) ==
    /\ pc' = "done"
    /\ result' = [status |-> status, reported |-> FALSE]
    /\ message' = text
    /\ UNCHANGED <<argVars, optionVars, infileVars, archive>>

-----------------------------------------------------------------------------

Init ==
    /\ pc = "args"
    /\ argv \in UNION {[1..n -> Words] : n \in 0..MaxArgs}
    /\ arg_id = 1
    /\ letter = 1
    /\ enabledMetrics = AllMetrics
    /\ flags = FlagsDefault
    /\ settings = [s \in {"--delimeter", "--language", "--output", "cg", "cfg", "ipcfg"} |-> Unset]
    /\ cmd_infiles = <<>>
    /\ strings = <<>>
    /\ first_infile_id = NoId
    /\ last_infile_id = NoId
    /\ archive = <<>>
    /\ message = "none"
    /\ result = [status |-> "none", reported |-> FALSE]

NoArguments ==
    /\ pc = "args"
    /\ argv = <<>>
    /\ Exit("EXIT_SUCCESS", "info")

BareDash ==
    /\ pc = "args"
    /\ arg_id <= Len(argv)
    /\ Word.form = "bare"
    /\ Exit("EXIT_SUCCESS", "error")

Infile ==
    /\ pc = "args"
    /\ arg_id <= Len(argv)
    /\ Word.form = "word"
    /\ cmd_infiles' = Append(cmd_infiles, argv[arg_id])
    /\ arg_id' = arg_id + 1
    /\ letter' = 1
    /\ UNCHANGED <<pc, argv, optionVars, strings, first_infile_id, last_infile_id, archive,
                   outcomeVars>>

AllMetricsOption ==
    /\ Reading({"--all-metrics"})
    /\ enabledMetrics' = AllMetrics
    /\ AfterFlag
    /\ UNCHANGED <<flags, settings, infileVars, archive, outcomeVars>>

SetFlags ==
    /\ Reading(FlagOption)
    /\ \E row \in FlagTable : row[1] = Option /\ flags' = (flags \ row[2]) \cup row[3]
    /\ AfterFlag
    /\ UNCHANGED <<enabledMetrics, settings, infileVars, archive, outcomeVars>>

(* Slip: --cfg takes over the lines of --cg. *)
Graph_copied ==
    /\ Reading({"--cg", "--cfg"})
    /\ HasParameter
    /\ enabledMetrics' = Enable(enabledMetrics, GraphMetric(Option))
    /\ flags' = (flags \cup {GraphFlag[GraphName(Option)]}) \ {ShowFlag("RFU")}
    /\ settings' = [settings EXCEPT !["cg"] = Parameter]
    /\ AfterParameter
    /\ UNCHANGED <<infileVars, archive, outcomeVars>>

(* A graph option enables the metric that draws the graph, and hides it. *)
DrawGraph(options) ==
    /\ Reading(options)
    /\ HasParameter
    /\ enabledMetrics' = Enable(enabledMetrics, GraphMetric(Option))
    /\ flags' = (flags \cup {GraphFlag[GraphName(Option)]}) \ {ShowFlag(GraphMetric(Option))}
    /\ settings' = [settings EXCEPT ![GraphName(Option)] = Parameter]
    /\ AfterParameter
    /\ UNCHANGED <<infileVars, archive, outcomeVars>>

Graph == DrawGraph({"--cg", "--cfg"})

Ipcfg == DrawGraph({"--ipcfg"})

(* Whatever the language given, it is C. *)
Setting ==
    /\ Reading(SettingOption)
    /\ HasParameter
    /\ settings' = [settings EXCEPT ![Option] = IF Option = "--language" THEN "C" ELSE Parameter]
    /\ AfterParameter
    /\ UNCHANGED <<enabledMetrics, flags, infileVars, archive, outcomeVars>>

Metric ==
    /\ Reading({"--metric", "--exclude"})
    /\ HasParameter
    /\ Parameter \in Metrics
    /\ enabledMetrics' = IF Option = "--metric" THEN Enable(enabledMetrics, Parameter)
                         ELSE Exclude(enabledMetrics, Parameter)
    /\ AfterParameter
    /\ UNCHANGED <<flags, settings, infileVars, archive, outcomeVars>>

MetricNotFound ==
    /\ Reading({"--metric", "--exclude"})
    /\ HasParameter
    /\ Parameter \notin Metrics
    /\ Exit("EXIT_FAILURE", "error")

(* The loop over the metrics of the file starts at the number of strings   *)
(* AFTER the file was read, so it has nothing to do.                       *)
MetricsFile ==
    /\ Reading({"--metrics-from", "--excluded-from"})
    /\ HasParameter
    /\ Parameter \in DOMAIN Lists
    /\ Lists[Parameter] # <<>>
    /\ strings' = strings \o Lists[Parameter]
    /\ AfterParameter
    /\ UNCHANGED <<optionVars, cmd_infiles, first_infile_id, last_infile_id, archive,
                   outcomeVars>>

(* Slip: the list is thought to end one string early. *)
FilesFrom_short ==
    /\ Reading({"--files-from"})
    /\ HasParameter
    /\ Parameter \in DOMAIN Lists
    /\ Lists[Parameter] # <<>>
    /\ strings' = strings \o Lists[Parameter]
    /\ first_infile_id' = Len(strings) + 1
    /\ last_infile_id' = Len(strings') - 1
    /\ AfterParameter
    /\ UNCHANGED <<optionVars, cmd_infiles, archive, outcomeVars>>

FilesFrom ==
    /\ Reading({"--files-from"})
    /\ HasParameter
    /\ Parameter \in DOMAIN Lists
    /\ Lists[Parameter] # <<>>
    /\ strings' = strings \o Lists[Parameter]
    /\ first_infile_id' = Len(strings) + 1
    /\ last_infile_id' = Len(strings')
    /\ AfterParameter
    /\ UNCHANGED <<optionVars, cmd_infiles, archive, outcomeVars>>

(* No such file, or padkit finds nothing in it to read. *)
ListNotRead ==
    /\ Reading(ListOption)
    /\ HasParameter
    /\ Parameter \in DOMAIN Lists => Lists[Parameter] = <<>>
    /\ Exit("EXIT_FAILURE", "error")

NeedsParameter ==
    /\ Reading(ValueOption)
    /\ ~HasParameter
    /\ Exit("EXIT_FAILURE", "error")

Information ==
    /\ Reading(AloneOption)
    /\ IF Alone /\ AtEnd /\ ~Word.eq THEN Exit("EXIT_SUCCESS", "info")
       ELSE Exit("EXIT_FAILURE", "error")

(* --show takes all the words that follow, --show=METRIC must be alone. *)
Show ==
    /\ Reading({"--show"})
    /\ IF AtEnd /\ arg_id = 1 /\ (IF Word.eq THEN Len(argv) = 1 ELSE Len(argv) > 1)
       THEN Exit("EXIT_SUCCESS", "info")
       ELSE Exit("EXIT_FAILURE", "error")

Unrecognized ==
    /\ Reading({"unrecognized"})
    /\ Exit("EXIT_FAILURE", "error")

EndOfArguments ==
    /\ pc = "args"
    /\ argv # <<>>
    /\ arg_id > Len(argv)
    /\ pc' = "register"
    /\ UNCHANGED <<argVars, optionVars, infileVars, archive, outcomeVars>>

(* Slip: the test for no files comes before the list is registered. *)
Register_testsFirst ==
    /\ pc = "register"
    /\ cmd_infiles' = IF first_infile_id = NoId THEN cmd_infiles
                      ELSE cmd_infiles \o SubSeq(strings, first_infile_id, last_infile_id)
    /\ IF cmd_infiles = <<>>
       THEN pc' = "done" /\ result' = [result EXCEPT !.status = "EXIT_SUCCESS"]
       ELSE pc' = "archive" /\ UNCHANGED result
    /\ UNCHANGED <<argVars, optionVars, strings, first_infile_id, last_infile_id, archive,
                   message>>

(* The strings of the list file follow the words of the command line. *)
Register ==
    /\ pc = "register"
    /\ cmd_infiles' = IF first_infile_id = NoId THEN cmd_infiles
                      ELSE cmd_infiles \o SubSeq(strings, first_infile_id, last_infile_id)
    /\ IF cmd_infiles' = <<>>
       THEN pc' = "done" /\ result' = [result EXCEPT !.status = "EXIT_SUCCESS"]
       ELSE pc' = "archive" /\ UNCHANGED result
    /\ UNCHANGED <<argVars, optionVars, strings, first_infile_id, last_infile_id, archive,
                   message>>

(* infile_id counts down from the last file to the first. *)
ArchiveUnit ==
    /\ pc = "archive"
    /\ Len(archive) < Len(cmd_infiles)
    /\ LET infile == cmd_infiles[Len(cmd_infiles) - Len(archive)] IN
       IF infile \in Existing
       THEN /\ archive' = Append(archive, infile)
            /\ UNCHANGED <<pc, argVars, optionVars, infileVars, outcomeVars>>
       ELSE Exit("EXIT_FAILURE", "error")

CloseArchive ==
    /\ pc = "archive"
    /\ Len(archive) = Len(cmd_infiles)
    /\ pc' = "parse"
    /\ UNCHANGED <<argVars, optionVars, infileVars, archive, outcomeVars>>

(* srcsax_parse and reportCsv; the output file may fail to open. *)
ParseAndReport ==
    /\ pc = "parse"
    /\ pc' = "done"
    /\ \/ result' = [status |-> "EXIT_SUCCESS", reported |-> TRUE]
       \/ settings["--output"] # Unset /\ result' = [status |-> "EXIT_FAILURE", reported |-> FALSE]
    /\ UNCHANGED <<argVars, optionVars, infileVars, archive, message>>

Next ==
    \/ NoArguments \/ BareDash \/ Infile
    \/ AllMetricsOption \/ SetFlags \/ Graph \/ Ipcfg \/ Setting
    \/ Metric \/ MetricNotFound \/ MetricsFile \/ FilesFrom \/ ListNotRead
    \/ NeedsParameter \/ Information \/ Show \/ Unrecognized
    \/ EndOfArguments \/ Register \/ ArchiveUnit \/ CloseArchive \/ ParseAndReport

(* One thread: while main can take a step it does. *)
Spec == Init /\ [][Next]_vars /\ WF_vars(Next)

-----------------------------------------------------------------------------
(* The command line as its user reads it, without the reader's state.      *)

(* The last option of a word, by its long name. *)
LastOption(w) ==
    IF Lex[w].form = "long" THEN Lex[w].names[1]
    ELSE IF Lex[w].form = "short" /\ Lex[w].names[Len(Lex[w].names)] \in DOMAIN LetterTable
         THEN LetterTable[Lex[w].names[Len(Lex[w].names)]]
    ELSE "unrecognized"

TakesNext(w) == LastOption(w) \in ValueOption /\ ~Lex[w].eq

(* The words that are the parameter of the word before them. *)
ParametersIn(words) ==
    LET taken[i \in 1..Len(words)] == i > 1 /\ TakesNext(words[i - 1]) /\ ~taken[i - 1]
    IN  {i \in 1..Len(words) : taken[i]}

Taken == ParametersIn(argv)

OptionsAt == {i \in 1..Len(argv) \ Taken : Lex[argv[i]].form \in {"short", "long"}}

Given(i) == IF Lex[argv[i]].eq THEN Lex[argv[i]].value ELSE argv[i + 1]

GivenTo(option) == {i \in OptionsAt : LastOption(argv[i]) = option}

(* Words that turn every metric on. *)
AllAt ==
    {i \in OptionsAt :
        \/ LastOption(argv[i]) = "--all-metrics"
        \/ Lex[argv[i]].form = "short" /\ \E k \in DOMAIN Lex[argv[i]].names : Lex[argv[i]].names[k] = "a"}

(* Words that ask for metric m, by name or for a graph; that exclude it.   *)
GraphAt(m) == UNION {GivenTo(o) : o \in {g \in GraphOption : GraphMetric(g) = m}}
AskedAt(m) == {i \in GivenTo("--metric") : Given(i) = m} \cup GraphAt(m)
ExcludedAt(m) == {i \in GivenTo("--exclude") : Given(i) = m}

(* Words that ask for the metrics of a file, or exclude them.              *)
ListedAt == GivenTo("--metrics-from") \cup GivenTo("--excluded-from")

(* Words that hide metric m; that show it.                                 *)
QuietAt(m) == GraphAt(m) \cup GivenTo(QuietOption(m))
ShowAt(m)  == GivenTo(ShowOption(m))

(* The words that name source files, among the first n. *)
FilesIn(words) ==
    LET files[n \in 0..Len(words)] ==
            IF n = 0 THEN <<>>
            ELSE IF n \in ParametersIn(words) \/ Lex[words[n]].form # "word" THEN files[n - 1]
            ELSE Append(files[n - 1], words[n])
    IN  files

Named == FilesIn(argv)[Len(argv)]

(* The last of some places. *)
LastOf(places) == CHOOSE i \in places : \A j \in places : j <= i

(* The places of the lists of files, and the last of those lists.          *)
ListsAt == GivenTo("--files-from")
LastList == IF ListsAt = {} THEN <<>> ELSE Lists[Given(LastOf(ListsAt))]

(* File f is in some list of files.                                        *)
InList(f) == \E i \in ListsAt : \E k \in DOMAIN Lists[Given(i)] : Lists[Given(i)][k] = f

-----------------------------------------------------------------------------
(* Properties.                                                             *)

(* A report is about the source files asked for, each as often as it is    *)
(* asked for: those the command line names when it gives no list of files, *)
(* those of the list when it gives one.  The words that are parameters are *)
(* not taken for files and no file is lost between the four passes over    *)
(* them.  Whether the words count beside a list, and the lists before the  *)
(* last one, is left open; a file that was in none of them never appears.  *)
(* The archive has the files from last to first.                           *)
ReportsEveryFile ==
    result.reported =>
        LET files == [i \in 1..Len(archive) |-> archive[Len(archive) + 1 - i]]
        IN  \E n \in 0..Len(files) :
               /\ SubSeq(files, n + 1, Len(files)) = LastList
               /\ ListsAt = {} => SubSeq(files, 1, n) = Named
               /\ Cardinality(ListsAt) = 1 => SubSeq(files, 1, n) \in {<<>>, Named}
               /\ \A i \in 1..n : InList(files[i]) \/ \E k \in DOMAIN Named : Named[k] = files[i]

(* The last word on a metric holds: a metric that is excluded after every  *)
(* word that asks for it, for all metrics or for those of a file, is off;  *)
(* one that is asked for by the last of all words about metrics is on; all *)
(* are on when that last word only asks for all, or when there is no word  *)
(* about metrics.  What a file of metrics does is MetricsFromHonoured.     *)
MetricsAsAsked ==
    pc = "register" =>
        LET all == AllAt
            asked    == [m \in Metrics |-> AskedAt(m)]
            excluded == [m \in Metrics |-> ExcludedAt(m)]
            named == UNION {asked[m] \cup excluded[m] : m \in Metrics} \cup ListedAt
            IsLast(i) == \A j \in named \cup all : j <= i
        IN  /\ \A m \in Metrics :
                  /\ (\E i \in excluded[m] :
                          \A j \in asked[m] \cup all \cup GivenTo("--metrics-from") : j < i) =>
                         m \notin enabledMetrics
                  /\ (\E i \in asked[m] : IsLast(i)) => m \in enabledMetrics
            /\ (\A i \in named : \E j \in all : j > i) => Metrics \subseteq enabledMetrics

(* Success without a report has a reason to see: no source files, an       *)
(* option that asks for information, or a lone dash, the one error that    *)
(* ends in success.  In particular a missing file, a list that cannot be   *)
(* read and a misspelt option never end in success.                        *)
SuccessReports ==
    result.status = "EXIT_SUCCESS" /\ ~result.reported =>
        \/ message = "info"
        \/ message = "error" /\ Word.form = "bare"
        \/ message = "none" /\ Named = <<>> /\ LastList = <<>>

(* The program ends, whatever the command line says.                       *)
Terminates == <>(pc = "done")

(* "-f,--metrics-from FILE  Input enabled metrics from FILE" (help): when  *)
(* that is the only word about metrics, the metrics of the file are on and *)
(* the others, as with -m, are off.                                        *)
MetricsFromHonoured ==
    /\ pc = "register"
    /\ GivenTo("--metrics-from") # {}
    /\ \A m \in Metrics : AskedAt(m) = {} /\ ExcludedAt(m) = {}
    /\ AllAt = {}
    => enabledMetrics \cap Metrics =
           UNION {{Lists[Given(i)][k] : k \in DOMAIN Lists[Given(i)]} : i \in GivenTo("--metrics-from")}

(* A metric that a graph option enables is hidden when a word that hides   *)
(* it, a graph option or a quiet one, comes after every word that shows it *)
(* and every word that asks for all metrics, and is hidden only when one   *)
(* comes after every word that shows it: no graph of the other metric and  *)
(* no other option hides it.  Whether asking for all metrics shows what an *)
(* earlier word hid is AllShowsMetrics.                                    *)
ShownAsAsked ==
    pc = "register" =>
        \A m \in {"RFU", "CC"} :
            /\ (\E i \in QuietAt(m) : \A j \in ShowAt(m) \cup AllAt : j < i) =>
                   ShowFlag(m) \notin flags
            /\ ShowFlag(m) \notin flags => \E i \in QuietAt(m) : \A j \in ShowAt(m) : j < i

(* "-a,--all-metrics  (Default) Report all metrics (implies '--RFU-show    *)
(* --CC-show')" (help): a metric is shown when a word that asks for all    *)
(* metrics comes after every word that hides it.                           *)
AllShowsMetrics ==
    pc = "register" =>
        \A m \in {"RFU", "CC"} :
            (\E i \in AllAt : \A j \in QuietAt(m) : j < i) => ShowFlag(m) \in flags
==============================================================================
