# Verification of srcMetrics

srcMetrics measures C source code. It converts the source files to one srcML
archive, parses the archive with an event-driven XML parser, lets nine metrics
listen to the events, and prints a table. This directory holds TLA+ modules of
that program, the TLC configurations that check them on small instances, and
theorems that TLAPS proves for every instance. Paths such as `event.c:149` are
relative to `src/srcmetrics/` of the repository; `srcmetrics.c` and `languages/`
are in `src/`.

## 1. The system

The program is one process with one thread. Nothing runs concurrently and
nothing is persisted: what is hard about it is the ORDER in which one long
stream of events meets a dozen small state machines that share identifiers.

| component | code | state it keeps | operations |
|---|---|---|---|
| Command line and main | `srcmetrics.c`, `metrics.c` | the global `options` (enabled metrics as 64 bits, flags, names), the source files, the strings of list files | read a word or an option letter, read a list file, build the archive, parse, report |
| Event dispatcher | `event.c` | `function_read_state`, `currentUnit_id`, `currentFn_id`, the global Chunk `strings` | one handler for each event of the parser |
| SLOC | `metrics/sloc.c` | a state of five values, three counters, the rows | start and end of document, unit, element |
| AMS | `metrics/ams.c` | a state, two arrays of method sizes, two counts | the same |
| MC | `metrics/mc.c` | two counters | the same, without ends of elements |
| MND | `metrics/mnd.c` | the nesting depth, three maxima | the same |
| NPM | `metrics/npm.c` | a state of four values, two counters, the text of a specifier | the same, and characters |
| ABC | `metrics/abc.c` | a state of four values, nine counters, the text of an operator | the same, and characters |
| HSM | `metrics/hsm.c` | sets of operators and operands and their counts at three levels, a stack of texts | the same, and characters |
| RFU | `metrics/rfu.c` | a state of seven values, names of units and functions, the matrices of owners and of calls | the same, and characters; write the call graph's files |
| CC | `metrics/cc.c`, `languages/c.c` | the strings of the parse, a stack of elements, a stack of incoming blocks, edges between blocks | start or end one of 28 elements, characters; it never reports a row |
| Report | `report.c` | the bits still to do, the file | four writes for each row of each enabled metric |
| padkit, libsrcml, libsrcsax | external | Chunk, Map, ChunkSet, GraphMatrix, archive, parser | called by all of the above |

How they interact. `main` fills `options` and calls the parser once; the parser
calls the dispatcher's handlers back, in document order; every dispatcher
handler updates the shared identifiers, calls the same handler of each enabled
metric in the order of `METRICS` (`metrics.h:16`), and then finishes its own
update. A metric reads `currentUnit_id` and `currentFn_id`, and at the end of a
function, of a unit and of the document it ADDS the keys of its rows to the same
Chunk `strings` in which the dispatcher is spelling names. After the parser has
returned, the report reads the maps.

What is hard, and which property is about it:

* Shared, growing strings. `append_chunk` extends the last string, whoever added
  it, and keys are copies of strings that may still grow
  (`AppendsReachFn`, `KeysSpellSubjects`, `OnlyFnNameGrows`; in `c.c`,
  `FnNameExact`).
* Eight metrics that see the same events and have to report the same functions and
  units, one of them from names that it reads itself (`SubjectsAgree`).
* State machines that take element names for structure. The first name after the
  first type is a function's name; one level of `sloc_state` stands for a whole
  stack; one decrement undoes an increment that happened units ago
  (`FnNamedAsDeclared`, `SlocStateSound`, `NestingFollowsBlocks`,
  `DiscountsCounted`).
* Stacks that are pushed in one handler and popped in another, with text gathered
  across levels (`StackFollowsExprs`, `OperatorTextExact`, `OperandsNest`,
  `OperatorByItsText`; in `c.c`, `StackFollowsOpen`, `EndsMatch`,
  `BlocksChained`).
* State that outlives what it is about: between functions, units and documents,
  and in arrays that are never cleared (`StartUnitAssert`, `AmsSizesRecorded`,
  `HsmLevelsAgree`, the refinements).
* The same fact computed twice in two files (`AmsAgreesWithSloc`,
  `AmsAveragesSloc`), or read twice (`ReadersAgree`: the name of a function), or
  written twice (`EdgesAreCalls`, `CallsAreEdges`: the matrix and its drawing, which
  is not complete: `CallGraphComplete`).
* A hand-written reader of options with about forty exits and parameters in
  three forms (`ReportsEveryFile`, `SuccessReports`, `MetricsAsAsked`,
  `ShownAsAsked`, `Terminates`; `MetricsFromHonoured` and
  `AllShowsMetrics`, which do not hold).
* A report whose every write may fail (`WritesInOrder`, `Ends`).

The complete list, with lines, is `hazards` in `PROJECT.json`.

## 2. The modules

| module | what it is |
|---|---|
| `SaxStream` | the environment: the stream of events, external |
| `Chunk` | the operations of padkit's Chunk that the dispatcher calls, external |
| `Event` | `event.c`; `Spec` |
| `Sloc` with `LineCount` | `sloc.c`, and the promise of SLOC |
| `Ams`, `Mc`, `SizeMetrics` | `ams.c`, `mc.c`, and both with SLOC under the dispatcher |
| `Mnd` with `NestingDepth` | `mnd.c`, and the promise of MND |
| `Npm` with `PublicCount` | `npm.c`, and the promise of NPM |
| `Abc` with `AbcCount` | `abc.c`, and the promise of ABC |
| `Hsm` | `hsm.c` |
| `Rfu` with `CallGraph` | `rfu.c`, and the promise of RFU and of the call graph |
| `MetricHandlers` | the dispatcher with every metric that reports, composed as `event.c` composes them |
| `CParse` | `cc.c` and `languages/c.c` under the dispatcher |
| `Options` | `main` with `metrics.c` |
| `Report` | `reportCsv` of `report.c` |
| `StreamGrammar`, `MC*` | instances for TLC |
| `EventProofs`, `StructureProofs` (MND, NPM, RFU, SLOC, AMS), `TokenProofs` (ABC, HSM), `CParseProofs`, `OptionsProofs`, `ReportProofs`, `MetricsProofs` | theorems about these parts and their composition, section 4 |
| `Recurrence` | induction for the proofs |

### The stream (`SaxStream`)

libsrcsax is a binary. Its events are modelled from what `event.c` needs: a
document with one root, units under the root, properly nested elements in a unit,
character data in pieces of any length (the parser may split text anywhere, so
`MaxPieces` pieces of a text may arrive one by one). Which element may appear in
which is the constant `Grammar`: for each tag, slots that are filled from left to
right, each of them optional or not, repeated or not. The grammar is how a run
chooses between, say, streams in which simple statements nest and streams in
which they do not. `open` is the stack of open elements; it is history for the
properties (the program keeps no such stack outside `c.c`) and never guards an
action of the program. Elements that no handler looks at are left out: their
events change nothing.

The README of the repository (lines 196-210) limits the input to C without
nested functions, and the grammars keep to that.

### The dispatcher (`Event`)

One action per handler: `event_startDocument`, `event_startRoot`,
`event_startUnit`, `event_startElement`, `event_charactersUnit`,
`event_endElement`, `event_endUnit`, `event_endRoot`, `event_endDocument`.
A handler and the metric handlers it calls run to completion before the next
event, so one event is one step. `function_read_state` is 0 (none), 1 (in a
function), 2 (in its type), 3 (after it), 4 (in its name), 5 (named), as in
`event.c`. A string is the sequence of the pieces it was put together from;
`strings` is a sequence of strings and an identifier is an index, 0 for padkit's
invalid identifier. The keys that metrics add at the end of a function, unit and
document are part of the step (`WithKeys`), for every metric in `Enabled`. CC
adds no keys and is not among them. In the code a metric adds a key and inserts its row
in one statement; here the key is added by `Event` and the row inserted by the metric's
module, so that a metric cannot miss its key is not a result of this model.
`strings` starts empty; strings of `--files-from` files would only shift all identifiers
by the same number.

### The metrics, and `MetricHandlers`

Each metric module `EXTENDS Event`, has variables of its own, and one operator per
handler with the handler's name. A handler's `switch` is a disjunction of named
cases, with one named case for everything it ignores. `MetricHandlers` conjoins
the dispatcher's action and the handlers of the metrics in `Enabled` for each
event; a metric that is not enabled keeps its state (`Handle`). A metric's handler
reads the identifiers as they are before the dispatcher's own update at a
function's or unit's end and after it at their start, which is what reading
`currentFn_id` unprimed at the end expresses. `SizeNext`, `MndNext`, `NpmNext`,
`AbcNext`, `HsmNext` and `RfuNext` are the same composition with one metric (or three): what
is proved of them holds of the whole by `MetricsProofs`.

A Map is the sequence of rows in the order they were inserted; keys are strings
of their own, so no row overwrites another. An AMS average is the pair of sum and
count. A cell of an AMS array that was allocated and never written is `Garbage`.

ABC's nine counters are three records, for the document, the unit and the
function. An operator's text is the sequence of its characters, compared with the
two lists of `abc.c`. The magnitude row is the number under the root, summed in
unsigned integers and therefore taken modulo `Word`.

HSM's sets and counters are functions on three levels; `chunk_stack` is its stack
of chunks, the operator's at the bottom and one for each open expression over it.
A row is the tuple of the natural numbers it is computed from; logarithms and
divisions are left out.

RFU's ChunkSets are sequences of keys and its GraphMatrices sets of edges. `flags`
is what the command line left of `options.flags`, one of `FlagSets`. While RFU is
not shown nothing is constructed, operations on it fail, and padkit's debug checks
end the program: `rfu_terminated`. `unique_calls` is the same number of closing
passes over the callees as functions are known; the code has a worklist that grows
while it is read, with the same result. The `.dot` and the `.xml` file are
written by the same loops; their edges are `cg_edges`, a callee that no unit owns
being drawn in no unit.

### The promises

The abstract modules know no state machine: they look at the stack of open
elements only. `LineCount` says that an element is a line when it is a function,
an outermost simple statement, or a compound statement or type in a function and
outside statements; `NestingDepth` counts open blocks; `PublicCount` counts
functions and takes one back at each `static` in the function's own type;
`AbcCount` counts calls and jumps, comparisons and alternatives, assigning
operators and initialisers of declarations, at each level that encloses them;
`CallGraph` collects definitions and calls by name and counts, when a row is
reported, the least group of functions that contains those asked about and calls
nobody outside. The refinements `SlocImplementsLineCount`,
`MndImplementsNestingDepth`, `NpmImplementsPublicCount`, `AbcImplementsCount` and
`RfuImplementsCallGraph` map counters, sets and reported rows to theirs.

### The C parser (`CParse`)

CC's handlers start and end the elements in `C_ELEMENT_TAGS`, some of which do
more than go onto the stack and off it. Strings have an interpretation each;
`incomingStack` and `edges` connect the blocks. A tag of the stream with the
attribute `type="elseif"` is the tag `elseif`: the start of an element looks at the
attribute, its end does not. Where a check of the code fails the program ends
(`Stop`), and `cc_error` is the element it failed at. As the code stands, every
function ends there (section 5), so what is checked is what happens until then,
and what happens at file level.

### The command line (`Options`)

`pc` goes through `args`, `register`, `archive`, `parse`, `done`, the passes of
`main`. A word is a value; the constant `Lex` says how it reads: a plain word, a
lone dash, a cluster of letters or a long option, with or without `=`. Each
option, or group of options with the same code, is an action, and each way out is
one (`NoArguments`, `BareDash`, `MetricNotFound`, `ListNotRead`,
`NeedsParameter`, `Information`, `Show`, `Unrecognized`, the failing file in
`ArchiveUnit`, the end). Offsets into words that the code gets wrong are modelled
by what they cut out (`Parameter`). padkit's `STR_CONTAINS_CONST` is external; the
code uses it as "begins with", and so does the model. `ALL_METRICS_ENABLED` sets all 64 bits,
so `enabledMetrics` has the element `HighBits` besides the nine metrics:
`enableOrExclude_metric` compares with all 64. The build is the one with padkit's
debug checks (the default): a list file that cannot be read or is empty ends the
program. Parsing and reporting are one step here: `MetricHandlers` and `CParse` model the
first, `Report` the second. `Options` does not carry the ends of the program that
checks inside the parsing may cause; those are `rfu_terminated` and `cc_error`.

`argv` is the reader's own input; the reference operators at the end of the module
(`Taken`, `OptionsAt`, `Named`, `LastList`, ...) read the whole line at once, the
way a user does, and the properties compare the two.

### The report (`Report`)

The loop over the bits of `enabledMetrics`, which are 64 and therefore go beyond
the metrics; for each metric the loop over its map; for each row four writes, any
of which may fail. Opening and closing the file may fail as well. `Unreported` are
the metrics whose accessor returns no map, as that of a hidden RFU.

## 3. What is checked

| run | question | properties |
|---|---|---|
| `metrics` | seven metrics side by side (all but RFU) on flat streams with `static` as the one specifier: what they count, and that their rows are about the same things | `MndTypeOK`, `NestingFollowsBlocks`, `SubjectsAgree`, `MndImplementsNestingDepth`, `SlocImplementsLineCount`, `NpmImplementsPublicCount` |
| `nested` | AMS, MC, NPM, SLOC over two units, with names in types, in bodies and outside functions, with statements that nest and with `const`: identifiers and names, and the counters | `TypeOK`, `StartUnitAssert`, `AppendsReachFn`, `FnNamedAsDeclared`, `KeysSpellSubjects`, `OnlyFnNameGrows`, `SlocStateSound`, `AmsSizesRecorded`, `AmsAgreesWithSloc`, `AmsAveragesSloc`, `NpmTypeOK`, `DiscountsCounted` |
| `tokens` | ABC and HSM on expressions in expressions, with one initialiser in a declaration | `OperatorByItsText`, `StackFollowsExprs`, `OperatorTextExact`, `OperandsNest`, `HsmLevelsAgree`, `AbcImplementsCount` |
| `rfu` | RFU beside the dispatcher and MND, with calls in arguments, cycles, and two units | `ReadersAgree`, `EdgesAreCalls`, `CallsAreEdges`, `RfuImplementsCallGraph` |
| `cc` | the C parser until a function ends | `StackFollowsOpen`, `EndsMatch`, `FnNameExact`, `BlocksChained` |
| `options` | command lines of up to three words of every kind | `ReportsEveryFile`, `SuccessReports`, `MetricsAsAsked`, `ShownAsAsked`, `Terminates` |
| `report` | every set of enabled metrics and a failure at every write | `WritesInOrder`, `Ends` |

Five more runs show a property VIOLATED; section 5 has them.

What the options properties leave open. Where the manual and the code disagree, or the docs
say nothing, a property of the `options` run is true of either reading, and the disagreement
has a run of its own or is described in section 5. `ReportsEveryFile` asks for all files of the last list and, without a
list, for exactly the words; it lets the words count beside one list or not (the manual
says they do not, section 5), and it lets a second list drop the first one's
files, about which no doc speaks. It never lets a file appear that nobody asked for.
`MetricsAsAsked` asks nothing of command lines in which a file of metrics could matter
(`MetricsFromHonoured`), and `ShownAsAsked` nothing of those in which a request for all
metrics comes after a word that hides one (`AllShowsMetrics`).

Bounds, and why they are enough. `MaxUnits` is 2 in all passing runs, the least
number with a "next" unit, which is what state that leaks needs; in `nested` and `rfu`
the two may have different names or the same. `MaxElements` (7 to 10) is the number of
elements after which only those that a slot requires start: it fits two functions with a
body each in one unit, or in two; in `nested` a statement in a statement in a named
function, and a second function after it; in `rfu` two functions of which each calls two,
in `cc` a loop or a branch with a block in a function, with an `else if` after it.
`MaxDepth` fits a statement in a type in a statement in a function, three blocks, or two
expressions in an expression in a function (6), and in `cc` everything that `MaxElements`
allows (12). `MaxPieces` is 2 where text matters, the least that makes a gathered text
differ from a piece; that is also the length of the longest operator over the two
characters of `tokens`. Names in `nested` are one or two pieces long, so two functions may
have different ones, and a name differs from its beginning. Three names in `rfu` are the
least with a chain of calls. `FlagSets` in `rfu` has the simple and the transitive
response. `MaxArgs` is 3 over 25 words: an option with its parameter and one more word
before or after it, or three options that carry theirs. Symmetry is not used.

Properties of counters that only say "never below zero" are in the type
invariants, since the counters are unsigned: a wrap would leave Nat.

Fairness. Only `Options` and `Report` have any: weak fairness of `Next`. One
thread that is never blocked takes its next step; no action of either waits for
something else. The other modules promise nothing about progress, because the
parser, not the program, decides whether there is a next event.

Each property has a mutant in `PROJECT.json`: an operator whose comment begins
with "Slip", beside the definition it would replace. Slips are changes that a
programmer could make to the code (a reset that is dropped, a state that is kept,
an index of the wrong counter). No specification uses them.

## 4. What is proved

Every theorem holds for every grammar, every set of enabled metrics, and archives,
depths and texts of any size, or for every set of words, list files and command
lines of any length (the bounds are constants). The assumptions on the constants are
`StreamAssumption` (the constants have their types and `"unit"` is no tag),
`EnabledAssumption` (the enabled metrics are among those modelled),
`StaticAssumption` (the spelling of `static` is a text, for NPM), `WordAssumption` (a
word has a size, for ABC) and those that `Options` names.

| theorem | module | statement |
|---|---|---|
| `TypeCorrect` | `EventProofs` | `Spec => []TypeOK`: identifiers always name strings of the Chunk |
| `UnitStartsIdle` | | `Spec => []StartUnitAssert`: the assertion at `event.c:149` holds |
| `AppendsReach` | | `Spec => []AppendsReachFn`: the pieces of a name reach that function's string |
| `NamesStable` | | `Spec => OnlyFnNameGrows`: no other string ever changes |
| `NamesAreDeclared` | | `FnNamedAsDeclared`, if `FunctionsAreNamed`, `OneFunction`, `TypesApart` |
| `KeysAreSpelled` | | `KeysSpellSubjects`, under the same hypotheses |
| `DepthNeverWraps` | `StructureProofs` | `MndSpec => []MndTypeOK`: the unsigned depth stays a number |
| `DepthFollowsBlocks` | | `NestingFollowsBlocks`, if `OneFunction` |
| `MndReportsNestingDepth` | | the refinement `MndImplementsNestingDepth`, if `OneFunction` |
| `DiscountsAreCounted` | | `NpmSpec => []DiscountsCounted` |
| `CountersNeverWrap` | | `NpmSpec => []NpmTypeOK` |
| `NpmReportsPublicCount` | | the refinement `NpmImplementsPublicCount`, if `FunctionsAreTyped`, `OneFunction`, `TypesArePlain`, `SpecifierIsStatic` |
| `OnlyCallsAreDrawn` | | `RfuSpec => []EdgesAreCalls` |
| `CallsAreDrawn` | | `RfuSpec => []CallsAreEdges` |
| `NamesAgree` | | `ReadersAgree`, if `CallsAreNamed`, `OneFunction`, `FunctionsOutsideNames` |
| `RfuReportsCallGraph` | | the refinement `RfuImplementsCallGraph`, if `RfuIsShown`, `FunctionsAreNamed`, `CallsAreNamed`, `CallsHaveOneName`, `OneFunction`, `TypesApart`, `CallsInBodies` |
| `SlocReadsWhatIsOpen` | | `SizeSpec => []SlocStateSound` |
| `AmsSizesAreRecorded` | | `SizeSpec => []AmsSizesRecorded`: no unwritten cell is summed |
| `SizesAgree` | | `AmsAgreesWithSloc`, if `OneFunction` |
| `SlocReportsLineCount` | | the refinement `SlocImplementsLineCount`, if `OneFunction`, `FlatStatements` |
| `StackHoldsExprs` | `TokenProofs` | `HsmSpec => []StackFollowsExprs` |
| `HsmTypeCorrect` | | `HsmSpec => []HsmTypeOK` |
| `OperandTextsNest` | | `HsmSpec => []OperandsNest` |
| `LevelsFitTogether` | | `HsmSpec => []HsmLevelsAgree` |
| `OperatorTextsExact` | | `OperatorTextExact`, if `OperatorsAreLeaves` |
| `OperatorsAreRead` | | `OperatorByItsText`, if `OperatorsAreLeaves` |
| `AbcReportsCount` | | the refinement `AbcImplementsCount`, if `OperatorsAreLeaves`, `OneInitialiser`, `OneFunction` |
| `CcTypeCorrect` | `CParseProofs` | `CcSpec => []CcTypeOK` |
| `BlocksMakeOneChain` | | `CcSpec => []BlocksChained` |
| `StackIsPath` | | `StackFollowsOpen`, if `BreaksInBlocks` |
| `EndsFindTheirStart` | | `EndsMatch`, if `OneNameOneBody`, `NamesAreWords`, `PlainStream` |
| `NameIsExact` | | `FnNameExact`, under the same hypotheses |
| `EveryFileIsReported` | `OptionsProofs` | `Spec => []ReportsEveryFile` |
| `SuccessHasReason` | | `Spec => []SuccessReports` |
| `LastWordHolds` | | `MetricsAsAsked`, if `CutIsNoMetric` |
| `LastWordShows` | | `Spec => []ShownAsAsked` |
| `ReportWritesInOrder` | `ReportProofs` | `Spec => []WritesInOrder` |
| `MetricsSafe` | `MetricsProofs` | the results without a hypothesis hold in `MetricsSpec`, for each enabled metric |
| `MetricsExact` | | so do the refinements and `AmsAgreesWithSloc`, `OperatorByItsText`, `OperatorTextExact` |
| `MetricsNamed` | | and so do `FnNamedAsDeclared`, `KeysSpellSubjects`, `ReadersAgree` |
| `SameSubjects` | | `SubjectsAgree`, if `OneFunction`; with RFU also `CallsAndFunctionsNamed`, `RfuReadable` |
| `AveragesAreOfTheLines` | | `SizeSpec /\ []OneFunction => []AmsAveragesSloc` |
| `AveragesOfTheProgram` | | so it is in `MetricsSpec`, if AMS, MC and SLOC are enabled |

### The hypotheses

All but `RfuIsShown` and the last are about the stream, that is, about the C code measured and what
the parser makes of it; none of these is about the program. Those on the grammar are constant
formulas; the others speak of the open elements and stand under `[]`. The runs' grammars
satisfy them wherever the property is checked there. Where none is named, the result holds for every stream, nested
functions and simple statements included.

* `OneFunction`: no function element is inside another. The repository's README
  (lines 196-210) excludes nested functions, which are not C. It is needed:
  `mnd.c`, `ams.c` and `sloc.c` all leave the outer function when the inner one ends.
* `FunctionsAreNamed`, `FunctionsAreTyped`: the children of a function begin with one
  type and one name, as in the srcML of C; a name is text, a type has one specifier
  at most. `TypesApart`, `TypesArePlain`: there is no type in a function's type
  (section 7). The dispatcher takes the first name after the first type.
* `SpecifierIsStatic`: what finding 1 shows to be needed.
* `FlatStatements`: no simple statement is in another; needed, since the end of the
  inner one leaves the outer (section 5).
* `OperatorsAreLeaves`: no element starts inside an operator, as in all srcML;
  without it the inner operator's end would flush the outer one's text.
* `OneInitialiser`: a declaration has one initialiser, at its end, as needed by
  the observation on `metrics/abc.c:156`. It is stated with a set of tags that cannot
  lead to an operator or an initialiser, since what may come before is a question of
  reachability in the grammar.
* `CallsAreNamed`, `CallsHaveOneName`, `FunctionsOutsideNames`: a call begins with a
  name and has no other of its own, and no function is part of a name.
* `CallsInBodies`: a call is made in a function, and not in its type. It is needed: a
  call outside functions has no caller, and the check at `metrics/rfu.c:553` ends
  the program.
* `RfuIsShown`: no command line considered hides RFU, which is what finding 3 shows to
  be needed; a formula on the constant `FlagSets`.
* `PlainStream`: a break stands in a block (`BreaksInBlocks`), only the type, the
  parameters and the body of a function hold elements (`FunctionParts`), and blocks
  are bodies of functions or in them (`BlocksInBodies`). `OneNameOneBody`,
  `NamesAreWords`: a function has one name and one body, and no name is a semicolon.
* `CallsAndFunctionsNamed`, `RfuReadable`: where RFU is enabled, what `NamesAgree` and
  `NamesAreDeclared` ask of the stream, since RFU spells its keys from names that it
  reads itself. Without RFU they ask nothing.
* `CutIsNoMetric`: `--metric=NAME` loses the first letter of NAME (section 5). Should
  the rest be a metric's name (`--metric=AMC`), that metric is enabled and nobody
  meant it; the hypothesis excludes that word.

### The arguments

The stream (first part of `EventProofs`). `StreamShape`: the stack is empty exactly
outside units, and its bottom is the unit. One lemma for each move of the stack says
that types and shape are kept and what happens to the open tags, and how the number
of open elements of one tag changes (`OneOpens`, `OneCloses`, `OpenLeft`, over the
library's theorems on cardinality). All other proofs speak of the stack through
these lemmas only.

The dispatcher (`EventProofs`). None of the invariants is inductive.
`StartUnitAssert` says that `function_read_state` is 0 between units; that needs
`ReadingIsOpen` (while it is not 0 a function element is open), which in turn needs
`StreamShape` to conclude that a unit cannot end with a function open. `TypeOK`
needs `UnitHasId`, since a function that starts copies the unit's string.
`AppendsReachFn` needs all of that for the steps that add keys: they happen at the
end of a function, when the state returns to 0, and at the end of a unit, when it
is 0 already. The conjunction of these is `IInv`. The proof has one lemma per kind
of Chunk operation (what it keeps, and how long the result is) and one per action.
For the names the state must be tied to the slot of the open function: state 1 before
its first child ends, 3 between type and name, 4 while its own name is innermost, 5
after. The function's string is then the unit's, the separator and the pieces so
far. For the keys every string is a unit's, a function's (complete, or
the last one while it is being read) or a key of an earlier complete one.

MND (`StructureProofs`). `MndIInv` says that `nd` is the NUMBER of open blocks, so a
block that ends was counted and `nd` cannot wrap; that the depth is below the unit's
maximum and that below the document's; and that in state READING_METHOD a function
is open and the depth is below the function's maximum. For the refinement two more
invariants are needed: `InMethod` (an open function is being read; this is where
`OneFunction` is used) and `RowsSound` (nothing was reported before the document
starts, so clearing the rows there is a stutter). Then each handler is the action of
the promise: at a block all maxima are taken with the depth, and at other elements
taking them would change nothing, which is what `MndIInv` says.

NPM. `DiscountsCounted` is inductive with the types: the reader leaves
`WAITING_METHOD` only in a function it has just counted, and each discount returns
it there. For the refinement the state has to say which element is open: in the type
of a function the reader waits for or reads a specifier, and the text it has gathered
is that specifier's.

RFU. `RfuIInv` says that owners and callers are identifiers that exist, that a unit is
known while one is open (or the program has ended), and that what is drawn is nothing
before the end of the document and then what the loops of `generateDot` draw from the
final matrices: every call and no other. For `ReadersAgree`,
`ReaderIInv` pairs the states of the two readers and what they have read so far, and
says that RFU is idle again, after a call's name, before a function can start.

For `CallGraph` two more invariants are needed. `CallIInv` ties RFU's reader to the
stack: it waits for a name exactly in a call that has none, gathers exactly the text
of the name that is open, and knows the function around it, so that each end of a
name adds the definition or the call that the stack shows (`WhatEnds`, `WhatRfuDoes`).
`GraphIInv` says that identifiers and names correspond one to one and that every
function known is defined or called, so that sets of identifiers count like sets of
names (`AsManyNames`). What remains is about graphs alone: the passes of
`unique_calls` yield the least group that is closed under calls, whatever the graph.
Each pass stays in every closed group (`PassesLeast`); and a pass that adds nothing
has found a closed group, while one that adds something adds a function, so after as
many passes as there are functions the group is closed (`PassesEnd`).

SLOC and AMS. `SlocStateSound` is inductive with types and the shape of
the stream. For AMS, `AmsReadsOpen` ties its state to the stack (a statement is read
only while a simple statement is open INSIDE a function); `Pending` is the method
counted but not recorded; `AmsCounts` and `AmsArrays` say that both arrays hold a
size for each method that is not pending, the unit's being the end of the
document's. `SizesAgree` rests on `InStep`: inside a function the two readers are in
corresponding states with equal counts. It holds although both lose track when
simple statements nest, because they lose it alike. For `LineCount` the state must
say exactly what is open: under `FlatStatements` a simple statement is open exactly
in the two statement states, a function exactly in the two method states.

For `AmsAveragesSloc` SLOC's rows are read one after another (`RowsRead`), and the
invariant `FunctionsFit` compares what has been read with the arrays: the functions
reported since the last unit are those in the cells 1 to count of the unit's array,
the pending one excepted, and MC's counts are those of AMS. The steps need that a
function's row can be told from a unit's by its key, which is what `StringsNamed` says
(a unit's string is its file, a function's is longer), that the readers are `InStep`,
and that at a function's end AMS is not in a statement, since no function is inside
another. `SumMore` and `ReadMore` say what one more cell and one more row add.

ABC and HSM (`TokenProofs`). Both gather the operator's characters while their state
says that one is being read. `AbcIInv` and `HsmReads` add the two facts that make
this inductive: an operator is only ever the innermost element
(`OperatorInnermost`), and the state is "reading" exactly while it is
(`ReadsOperator`). For HSM the bottom chunk must also be out of reach of the
operands, which is `HsmIInv`: the stack has one chunk for each open expression over
it, so a pop at an expression's end leaves the bottom alone. That counting argument
needs no hypothesis on the stream. `OperandsNest` needs that the text of the innermost
element is the end of the top chunk while it has no children (`NestIInv`). For
`HsmLevelsAgree` a level has at most one text for each token that ENDED, that is, for
those counted but for the open ones; and the document's level must be described
between units too (`LevelsIInv`). `AbcReportsCount` shows that ABC's declaration state
is that of the promise: before the initialiser nothing starts that could leave it,
which is what `OneInitialiser` says of the grammar.

The C parser (`CParseProofs`). `BlocksChained` is inductive with the types: a block
takes the one before it off the stack of incoming blocks, and its own index is
greater than all before it, so no two edges share an end. For the stack the invariant is
an embedding (`StackOnOpen`): each element on the parser's stack has its place among
the open elements, in order, and every place that is skipped is of a tag that the
parser does not know, or a call. The text of `StackFollowsOpen` compares two
filtered paths, which the embedding gives by induction along them. `EndIInv` says
what has ended the program; `FnIInv` says that while it runs one function has started
at most (its end ends the program) and that what is tracked about it has used up a
slot of the grammar, so that it is not set twice; `FnNameIInv` that the name is the last
string as long as its element is open.

The command line (`OptionsProofs`). `ReportsEveryFile` compares a reader that walks once
with definitions over the whole line, so `FilesIInv` states these for the words READ SO
FAR: the reader stands on no parameter (`Placed`, with `ParametersFollow`), the list is
the last one named (`ListKept`), and the files found, then registered, then archived are
those named (`FilesKept`, one clause for each of the four passes). The two results on
metrics do the same with sets of places, and use that a word is read after all
others before it.

Induction (`Recurrence`). The provers do not take an induction hypothesis that is an
operator, but the library's theorem that the natural numbers are well founded
is about a set, and a set of counterexamples is one: `NatMinimum` gives the smallest.
`Carried` follows from it: a function defined by recursion along `1..n` exists and has
the values its definition says. `CarriesIt` and
`CarriedAlike` say when a function is that one, and that two agree as far as their
steps do. That is enough for the recursive functions of `Options`, `CParse`, `Ams`,
`Rfu` and the properties (`ParametersIn`, `FilesIn`, `KnownIn`, `MsSum`, `UniqueCalls`,
`Among`, `RowsRead`).

The composition (`MetricsProofs`). A step of the program is, for the dispatcher and
for each metric that is enabled, a step of that part or one it does not see (one
lemma each, by cases over the nine events); so each run of `MetricsSpec` is a run of
`Spec`, `AbcSpec`, `HsmSpec`, `MndSpec`, `NpmSpec`, `RfuSpec` and `SizeSpec`
(`ProgramRuns...`), and what is proved of the parts holds of the whole.

Rows. For `SubjectsAgree` the rows of each metric are compared with those of the others.
One lemma for each metric (`AbcReports`, ...) says what each event adds to its rows:
nothing, or one row for each of its names, with the subject that the dispatcher gives
(`Reports`); RFU's subject is its own, and equal because the two readers agree.
`AmongAppend` and what follows from it choose one row of each subject among all.

The report (`ReportProofs`). `ReportIInv` says that what was written is the report up to
the bit, row and part where the loops stand; each write adds the next part, and the
loops skip exactly the bits that have nothing to report.

## 5. Disagreements found

Each of these has a run whose one property TLC violates, and an entry in
`findings`.

1. `npm_public`: a specifier other than `static` (`const`, `extern`, `inline`)
   leaves NPM's reader in `READING_SPECIFIER` (`metrics/npm.c:138`). Later
   functions of the unit are not counted. Since all text is gathered meanwhile
   (`metrics/npm.c:163`), a later `static` takes one back only if no other text has
   come since the last end of a specifier.
2. `metrics_from`: `--metrics-from` and `--excluded-from` have no effect
   (`srcmetrics.c:328`): the index of the first string is taken after the file
   was read.
3. `rfu_quiet`: `--cg` hides RFU, and a hidden RFU constructs neither its sets nor
   its matrices (`metrics/rfu.c:283`), which its next handler needs; the program
   ends at the first unit. With `--RFU-show` after it the call graph is written.
4. `rfu_recursion`: a function that calls itself has no other edge in the files of the
   call graph (`metrics/rfu.c:121`), the "one overall call graph" of the help.
5. `all_shows`: the help and the manual say that `--all-metrics` implies
   `--RFU-show --CC-show`; it does not show metrics that an earlier option hid
   (`srcmetrics.c:384`).

Seen while modelling, and part of the model, without a run of their own:

* the end of a function asks for an empty stack while the function is on it
  (`languages/c.c:405`; the assertion on line 412 asks for the function there), so with CC
  enabled no function can end, and the `cc` run and the theorems on `CParse` are about what
  happens until then. The repository's README warns on line 5 that the control flow graph
  is broken. `end_fn_cparse` is therefore a `Stop`, and `EndsMatch` excepts functions;
* the manual (`srcmetrics.1:15`) says that `--files-from` reads the names "instead of
  command-line arguments"; the files of the list are added to those of the command line
  (`srcmetrics.c:859`). The help (`srcmetrics.c:151`) does not say "instead";
  `ReportsEveryFile` leaves it open;
* RFU computes a transitive response when a function or unit ends, over the calls read so
  far (`metrics/rfu.c:490`): what callees call that are defined further down is not in it.
  `CallGraph` promises no more than that. The repository's README (line 265) speaks of the
  closure of the call graph, in a list of options that no longer exist, and the help of an
  estimation;
* after any `--exclude`, `--metric` no longer excludes the metrics that are not
  specified (`metrics.c:49`); the mapping is in `Enable`, and `MetricsAsAsked`
  claims only what is left;
* `--metric=MC` is refused (`srcmetrics.c:567`): the name is read one character too
  late (`Parameter`); the name after `--ipcfg=` is read two characters early
  (`srcmetrics.c:531`);
* a lone dash prints an error and returns success (`srcmetrics.c:374`;
  `SuccessReports` names it as the exception);
* a second `--files-from` replaces the first, whose files are not measured
  (`srcmetrics.c:297`); no doc says what two lists mean, and `ReportsEveryFile` leaves
  it open;
* ABC sees the first initialiser of a declaration only (`metrics/abc.c:156`), so
  `AbcImplementsCount` is checked with one at most and says nothing of several; its magnitude wraps before the
  root is taken (`metrics/abc.c:85`, `AbcSquare`);
* HSM's length of a unit or function is operators plus DISTINCT operands
  (`metrics/hsm.c:221`), that of the document operators plus operands
  (`metrics/hsm.c:160`): a document of one unit with a repeated operand has another
  volume than its unit. The counts and sets agree, which is `HsmLevelsAgree`;
* an `else if` is started as one element and ended as another, and a call in a
  block is taken off the parser's stack without having been put there
  (`languages/c.c:132`); both end the program where the checks are on, and are the
  exceptions in `EndsMatch`.

On nested simple statements `sloc_state` loses track (the end of the inner one
leaves the outer), so `SlocImplementsLineCount` is claimed for flat streams only;
`SlocStateSound` and the agreement with AMS hold on all streams.

## 6. What is only model-checked

* The five properties of section 5, which are violated.
* `Terminates` and `Ends`: liveness needs ENABLED, for which there is no rule.

## 7. What is not modelled

* The wording of messages, of the help and of the `.dot` and `.xml` files; the list
  of metrics' names that `--list` prints.
* The floating-point values of AMS, ABC and HSM, and the formats of numbers. AMS of a
  unit without methods is zero over zero (`metrics/ams.c:115`).
* The names of the graphs' files, which RFU and CC add to `strings` at the end of the
  document (`metrics/cc.c:59`, `metrics/rfu.c:71`): no identifier refers to them.
* In `c.c` what nothing reads: the stack of loops, the tables of labels, units and
  functions, the counts, which all return 0, and the two functions that write
  nothing. `c.c` after the end of a function: no function gets there.
* In `c.c` text at file level before any string exists, which the grammars do not
  have; in RFU calls outside functions, which are not C (modelled in
  `RfuCallNameEnds`, in no grammar of a run).
* padkit, libsrcml and libsrcsax inside; failures of allocation (they abort);
  buffering and flushing of standard output.
* The build without debug checks, in which failures of the libraries are ignored.
* Functions whose own type contains a type element (a structure defined in place),
  and functions without a type: what the parser emits is not in the repository.

## 8. Plan

Done, in this order: 1. the stream, the Chunk and the dispatcher; 2. SLOC, AMS and
MC; 3. MND; 4. NPM; 5. the command line; 6. ABC; 7. HSM; 8. RFU and the call
graph; 9. CC and the C parser; 10. the report; 11. all metrics that report under
one dispatcher, and that each part's theorems hold there.

Every property of section 3 that a passing run checks is a theorem, but for the two
of liveness (section 6). When `end_fn_cparse` can succeed, `CParse` gets the tables that
are filled after it, and its properties go beyond the first function.
