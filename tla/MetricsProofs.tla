---------------------------- MODULE MetricsProofs -----------------------------
(***************************************************************************)
(* Proofs that the metrics do not disturb each other: every run of the     *)
(* program is, seen from the dispatcher or from a metric that is enabled,  *)
(* a run of that part alone.  So whatever is proved of a part holds beside *)
(* any other metrics.  And proofs that their rows fit together: all about  *)
(* the same functions and units, and AMS and MC over the functions that    *)
(* SLOC measured.                                                          *)
(***************************************************************************)
EXTENDS MetricHandlers, StructureProofs, TokenProofs, Recurrence

-----------------------------------------------------------------------------
(* Every step is a step of the part, or the part does not see it.          *)

(* The dispatcher's handlers run whatever the metrics do.                  *)
LEMMA DispatcherSteps ==
    ASSUME [MetricsNext]_programVars
    PROVE  [Next]_vars
  <1>1. CASE StartDocument
    BY <1>1 DEF StartDocument, Next
  <1>2. CASE StartRoot
    BY <1>2 DEF StartRoot, Next
  <1>3. ASSUME NEW filename \in Filenames, StartUnit(filename) PROVE Next
    BY <1>3 DEF StartUnit, Next
  <1>4. ASSUME NEW t \in Tags, StartElement(t) PROVE Next
    BY <1>4 DEF StartElement, Next
  <1>5. ASSUME NEW t \in Tags, EndElement(t) PROVE Next
    BY <1>5 DEF EndElement, Next
  <1>6. ASSUME NEW ch \in Text, CharactersUnit(ch) PROVE Next
    BY <1>6 DEF CharactersUnit, Next
  <1>7. CASE EndUnit
    BY <1>7 DEF EndUnit, Next
  <1>8. CASE EndRoot
    BY <1>8 DEF EndRoot, Next
  <1>9. CASE EndDocument
    BY <1>9 DEF EndDocument, Next
  <1>10. CASE UNCHANGED programVars
    BY <1>10 DEF programVars, metricVars
  <1> QED
    BY <1>1, <1>2, <1>3, <1>4, <1>5, <1>6, <1>7, <1>8, <1>9, <1>10 DEF MetricsNext

(* The handlers of ABC run when it is enabled, at every event.           *)
LEMMA AbcSteps ==
    ASSUME "ABC" \in Enabled, [MetricsNext]_programVars
    PROVE  [AbcNext]_<<vars, abcVars>>
  <1>1. CASE StartDocument
    BY <1>1 DEF StartDocument, Handle, AbcNext
  <1>2. CASE StartRoot
    BY <1>2 DEF StartRoot, metricVars, AbcNext
  <1>3. ASSUME NEW filename \in Filenames, StartUnit(filename) PROVE AbcNext
    BY <1>3 DEF StartUnit, Handle, AbcNext
  <1>4. ASSUME NEW t \in Tags, StartElement(t) PROVE AbcNext
    BY <1>4 DEF StartElement, Handle, AbcNext
  <1>5. ASSUME NEW t \in Tags, EndElement(t) PROVE AbcNext
    BY <1>5 DEF EndElement, Handle, AbcNext
  <1>6. ASSUME NEW ch \in Text, CharactersUnit(ch) PROVE AbcNext
    BY <1>6 DEF CharactersUnit, Handle, AbcNext
  <1>7. CASE EndUnit
    BY <1>7 DEF EndUnit, Handle, AbcNext
  <1>8. CASE EndRoot
    BY <1>8 DEF EndRoot, metricVars, AbcNext
  <1>9. CASE EndDocument
    BY <1>9 DEF EndDocument, Handle, AbcNext
  <1>10. CASE UNCHANGED programVars
    BY <1>10 DEF programVars, metricVars
  <1> QED
    BY <1>1, <1>2, <1>3, <1>4, <1>5, <1>6, <1>7, <1>8, <1>9, <1>10 DEF MetricsNext

(* The handlers of HSM run when it is enabled, at every event.           *)
LEMMA HsmSteps ==
    ASSUME "HSM" \in Enabled, [MetricsNext]_programVars
    PROVE  [HsmNext]_<<vars, hsmVars>>
  <1>1. CASE StartDocument
    BY <1>1 DEF StartDocument, Handle, HsmNext
  <1>2. CASE StartRoot
    BY <1>2 DEF StartRoot, metricVars, HsmNext
  <1>3. ASSUME NEW filename \in Filenames, StartUnit(filename) PROVE HsmNext
    BY <1>3 DEF StartUnit, Handle, HsmNext
  <1>4. ASSUME NEW t \in Tags, StartElement(t) PROVE HsmNext
    BY <1>4 DEF StartElement, Handle, HsmNext
  <1>5. ASSUME NEW t \in Tags, EndElement(t) PROVE HsmNext
    BY <1>5 DEF EndElement, Handle, HsmNext
  <1>6. ASSUME NEW ch \in Text, CharactersUnit(ch) PROVE HsmNext
    BY <1>6 DEF CharactersUnit, Handle, HsmNext
  <1>7. CASE EndUnit
    BY <1>7 DEF EndUnit, Handle, HsmNext
  <1>8. CASE EndRoot
    BY <1>8 DEF EndRoot, metricVars, HsmNext
  <1>9. CASE EndDocument
    BY <1>9 DEF EndDocument, Handle, HsmNext
  <1>10. CASE UNCHANGED programVars
    BY <1>10 DEF programVars, metricVars
  <1> QED
    BY <1>1, <1>2, <1>3, <1>4, <1>5, <1>6, <1>7, <1>8, <1>9, <1>10 DEF MetricsNext

(* The handlers of MND run when it is enabled, at every event.           *)
LEMMA MndSteps ==
    ASSUME "MND" \in Enabled, [MetricsNext]_programVars
    PROVE  [MndNext]_<<vars, mndVars>>
  <1>1. CASE StartDocument
    BY <1>1 DEF StartDocument, Handle, MndNext
  <1>2. CASE StartRoot
    BY <1>2 DEF StartRoot, metricVars, MndNext
  <1>3. ASSUME NEW filename \in Filenames, StartUnit(filename) PROVE MndNext
    BY <1>3 DEF StartUnit, Handle, MndNext
  <1>4. ASSUME NEW t \in Tags, StartElement(t) PROVE MndNext
    BY <1>4 DEF StartElement, Handle, MndNext
  <1>5. ASSUME NEW t \in Tags, EndElement(t) PROVE MndNext
    BY <1>5 DEF EndElement, Handle, MndNext
  <1>6. ASSUME NEW ch \in Text, CharactersUnit(ch) PROVE MndNext
    BY <1>6 DEF CharactersUnit, Handle, MndNext
  <1>7. CASE EndUnit
    BY <1>7 DEF EndUnit, Handle, MndNext
  <1>8. CASE EndRoot
    BY <1>8 DEF EndRoot, metricVars, MndNext
  <1>9. CASE EndDocument
    BY <1>9 DEF EndDocument, Handle, MndNext
  <1>10. CASE UNCHANGED programVars
    BY <1>10 DEF programVars, metricVars
  <1> QED
    BY <1>1, <1>2, <1>3, <1>4, <1>5, <1>6, <1>7, <1>8, <1>9, <1>10 DEF MetricsNext

(* The handlers of NPM run when it is enabled, at every event.           *)
LEMMA NpmSteps ==
    ASSUME "NPM" \in Enabled, [MetricsNext]_programVars
    PROVE  [NpmNext]_<<vars, npmVars>>
  <1>1. CASE StartDocument
    BY <1>1 DEF StartDocument, Handle, NpmNext
  <1>2. CASE StartRoot
    BY <1>2 DEF StartRoot, metricVars, NpmNext
  <1>3. ASSUME NEW filename \in Filenames, StartUnit(filename) PROVE NpmNext
    BY <1>3 DEF StartUnit, Handle, NpmNext
  <1>4. ASSUME NEW t \in Tags, StartElement(t) PROVE NpmNext
    BY <1>4 DEF StartElement, Handle, NpmNext
  <1>5. ASSUME NEW t \in Tags, EndElement(t) PROVE NpmNext
    BY <1>5 DEF EndElement, Handle, NpmNext
  <1>6. ASSUME NEW ch \in Text, CharactersUnit(ch) PROVE NpmNext
    BY <1>6 DEF CharactersUnit, Handle, NpmNext
  <1>7. CASE EndUnit
    BY <1>7 DEF EndUnit, Handle, NpmNext
  <1>8. CASE EndRoot
    BY <1>8 DEF EndRoot, metricVars, NpmNext
  <1>9. CASE EndDocument
    BY <1>9 DEF EndDocument, Handle, NpmNext
  <1>10. CASE UNCHANGED programVars
    BY <1>10 DEF programVars, metricVars
  <1> QED
    BY <1>1, <1>2, <1>3, <1>4, <1>5, <1>6, <1>7, <1>8, <1>9, <1>10 DEF MetricsNext

(* The handlers of RFU run when it is enabled, at every event.           *)
LEMMA RfuSteps ==
    ASSUME "RFU" \in Enabled, [MetricsNext]_programVars
    PROVE  [RfuNext]_<<vars, rfuVars>>
  <1>0. ASSUME MetricsNext PROVE ~rfu_terminated
    BY <1>0 DEF MetricsNext
  <1>1. CASE StartDocument /\ ~rfu_terminated
    BY <1>1 DEF StartDocument, Handle, RfuNext
  <1>2. CASE StartRoot /\ ~rfu_terminated
    BY <1>2 DEF StartRoot, metricVars, RfuNext
  <1>3. ASSUME NEW filename \in Filenames, StartUnit(filename), ~rfu_terminated PROVE RfuNext
    BY <1>3 DEF StartUnit, Handle, RfuNext
  <1>4. ASSUME NEW t \in Tags, StartElement(t), ~rfu_terminated PROVE RfuNext
    BY <1>4 DEF StartElement, Handle, RfuNext
  <1>5. ASSUME NEW t \in Tags, EndElement(t), ~rfu_terminated PROVE RfuNext
    BY <1>5 DEF EndElement, Handle, RfuNext
  <1>6. ASSUME NEW ch \in Text, CharactersUnit(ch), ~rfu_terminated PROVE RfuNext
    BY <1>6 DEF CharactersUnit, Handle, RfuNext
  <1>7. CASE EndUnit /\ ~rfu_terminated
    BY <1>7 DEF EndUnit, Handle, RfuNext
  <1>8. CASE EndRoot /\ ~rfu_terminated
    BY <1>8 DEF EndRoot, metricVars, RfuNext
  <1>9. CASE EndDocument /\ ~rfu_terminated
    BY <1>9 DEF EndDocument, Handle, RfuNext
  <1>10. CASE UNCHANGED programVars
    BY <1>10 DEF programVars, metricVars
  <1> QED
    BY <1>0, <1>1, <1>2, <1>3, <1>4, <1>5, <1>6, <1>7, <1>8, <1>9, <1>10 DEF MetricsNext

(* So do those of the three metrics of size, side by side.                 *)
LEMMA SizeSteps ==
    ASSUME {"AMS", "MC", "SLOC"} \subseteq Enabled, [MetricsNext]_programVars
    PROVE  [SizeNext]_sizeVars
  <1>1. CASE StartDocument
    BY <1>1 DEF StartDocument, Handle, SizeNext
  <1>2. CASE StartRoot
    BY <1>2 DEF StartRoot, metricVars, SizeNext
  <1>3. ASSUME NEW filename \in Filenames, StartUnit(filename) PROVE SizeNext
    BY <1>3 DEF StartUnit, Handle, SizeNext
  <1>4. ASSUME NEW t \in Tags, StartElement(t) PROVE SizeNext
    BY <1>4 DEF StartElement, Handle, SizeNext
  <1>5. ASSUME NEW t \in Tags, EndElement(t) PROVE SizeNext
    BY <1>5 DEF EndElement, Handle, SizeNext
  <1>6. ASSUME NEW ch \in Text, CharactersUnit(ch) PROVE SizeNext
    BY <1>6 DEF CharactersUnit, Handle, SizeNext
  <1>7. CASE EndUnit
    BY <1>7 DEF EndUnit, Handle, SizeNext
  <1>8. CASE EndRoot
    BY <1>8 DEF EndRoot, metricVars, SizeNext
  <1>9. CASE EndDocument
    BY <1>9 DEF EndDocument, Handle, SizeNext
  <1>10. CASE UNCHANGED programVars
    BY <1>10 DEF programVars, metricVars, sizeVars
  <1> QED
    BY <1>1, <1>2, <1>3, <1>4, <1>5, <1>6, <1>7, <1>8, <1>9, <1>10 DEF MetricsNext

-----------------------------------------------------------------------------
(* A run of the program is a run of each part.                             *)

(* The dispatcher is not disturbed by the metrics behind it.               *)
THEOREM ProgramRunsDispatcher == MetricsSpec => Spec
  <1>1. MetricsInit => Init
    BY DEF MetricsInit
  <1>2. [MetricsNext]_programVars => [Next]_vars
    BY DispatcherSteps
  <1> QED
    BY <1>1, <1>2, PTL DEF MetricsSpec, Spec

(* ABC sees the same, whatever is enabled beside it.                      *)
THEOREM ProgramRunsAbc == "ABC" \in Enabled /\ MetricsSpec => AbcSpec
  <1>1. MetricsInit => AbcSystemInit
    BY DEF MetricsInit, AbcSystemInit
  <1>2. SUFFICES ASSUME "ABC" \in Enabled PROVE MetricsSpec => AbcSpec
    OBVIOUS
  <1>3. [MetricsNext]_programVars => [AbcNext]_<<vars, abcVars>>
    BY <1>2, AbcSteps
  <1> QED
    BY <1>1, <1>3, PTL DEF MetricsSpec, AbcSpec

(* HSM sees the same, whatever is enabled beside it.                      *)
THEOREM ProgramRunsHsm == "HSM" \in Enabled /\ MetricsSpec => HsmSpec
  <1>1. MetricsInit => HsmSystemInit
    BY DEF MetricsInit, HsmSystemInit
  <1>2. SUFFICES ASSUME "HSM" \in Enabled PROVE MetricsSpec => HsmSpec
    OBVIOUS
  <1>3. [MetricsNext]_programVars => [HsmNext]_<<vars, hsmVars>>
    BY <1>2, HsmSteps
  <1> QED
    BY <1>1, <1>3, PTL DEF MetricsSpec, HsmSpec

(* MND sees the same, whatever is enabled beside it.                      *)
THEOREM ProgramRunsMnd == "MND" \in Enabled /\ MetricsSpec => MndSpec
  <1>1. MetricsInit => MndSystemInit
    BY DEF MetricsInit, MndSystemInit
  <1>2. SUFFICES ASSUME "MND" \in Enabled PROVE MetricsSpec => MndSpec
    OBVIOUS
  <1>3. [MetricsNext]_programVars => [MndNext]_<<vars, mndVars>>
    BY <1>2, MndSteps
  <1> QED
    BY <1>1, <1>3, PTL DEF MetricsSpec, MndSpec

(* NPM sees the same, whatever is enabled beside it.                      *)
THEOREM ProgramRunsNpm == "NPM" \in Enabled /\ MetricsSpec => NpmSpec
  <1>1. MetricsInit => NpmSystemInit
    BY DEF MetricsInit, NpmSystemInit
  <1>2. SUFFICES ASSUME "NPM" \in Enabled PROVE MetricsSpec => NpmSpec
    OBVIOUS
  <1>3. [MetricsNext]_programVars => [NpmNext]_<<vars, npmVars>>
    BY <1>2, NpmSteps
  <1> QED
    BY <1>1, <1>3, PTL DEF MetricsSpec, NpmSpec

(* RFU sees the same, whatever is enabled beside it.                      *)
THEOREM ProgramRunsRfu == "RFU" \in Enabled /\ MetricsSpec => RfuSpec
  <1>1. MetricsInit => RfuSystemInit
    BY DEF MetricsInit, RfuSystemInit
  <1>2. SUFFICES ASSUME "RFU" \in Enabled PROVE MetricsSpec => RfuSpec
    OBVIOUS
  <1>3. [MetricsNext]_programVars => [RfuNext]_<<vars, rfuVars>>
    BY <1>2, RfuSteps
  <1> QED
    BY <1>1, <1>3, PTL DEF MetricsSpec, RfuSpec

(* SLOC, AMS and MC agree also where other metrics are enabled.            *)
THEOREM ProgramRunsSize == {"AMS", "MC", "SLOC"} \subseteq Enabled /\ MetricsSpec => SizeSpec
  <1>1. MetricsInit => SizeInit
    BY DEF MetricsInit, SizeInit
  <1>2. SUFFICES ASSUME {"AMS", "MC", "SLOC"} \subseteq Enabled PROVE MetricsSpec => SizeSpec
    OBVIOUS
  <1>3. [MetricsNext]_programVars => [SizeNext]_sizeVars
    BY <1>2, SizeSteps
  <1> QED
    BY <1>1, <1>3, PTL DEF MetricsSpec, SizeSpec

-----------------------------------------------------------------------------
(* What is proved of the parts, for the program.                           *)

(* Nothing that a metric does lets another one count what is not there, or *)
(* take off what was not counted: depths, publics, lines, stacks and calls *)
(* keep to what the stream has, on every stream.                           *)
THEOREM MetricsSafe ==
    MetricsSpec =>
        /\ []TypeOK /\ []StartUnitAssert /\ []AppendsReachFn
        /\ "HSM" \in Enabled => []StackFollowsExprs /\ []HsmLevelsAgree /\ []OperandsNest
        /\ "MND" \in Enabled => []MndTypeOK
        /\ "NPM" \in Enabled => []NpmTypeOK /\ []DiscountsCounted
        /\ "RFU" \in Enabled => []EdgesAreCalls /\ []CallsAreEdges
        /\ {"AMS", "MC", "SLOC"} \subseteq Enabled => []SlocStateSound /\ []AmsSizesRecorded
  <1>1. MetricsSpec => []TypeOK /\ []StartUnitAssert /\ []AppendsReachFn
    BY ProgramRunsDispatcher, TypeCorrect, UnitStartsIdle, AppendsReach
  <1>2. MetricsSpec /\ "HSM" \in Enabled =>
            []StackFollowsExprs /\ []HsmLevelsAgree /\ []OperandsNest
    BY ProgramRunsHsm, StackHoldsExprs, LevelsFitTogether, OperandTextsNest
  <1>3. MetricsSpec /\ "MND" \in Enabled => []MndTypeOK
    BY ProgramRunsMnd, DepthNeverWraps
  <1>4. MetricsSpec /\ "NPM" \in Enabled => []NpmTypeOK /\ []DiscountsCounted
    BY ProgramRunsNpm, CountersNeverWrap, DiscountsAreCounted
  <1>5. MetricsSpec /\ "RFU" \in Enabled => []EdgesAreCalls /\ []CallsAreEdges
    BY ProgramRunsRfu, OnlyCallsAreDrawn, CallsAreDrawn
  <1>6. MetricsSpec /\ {"AMS", "MC", "SLOC"} \subseteq Enabled =>
            []SlocStateSound /\ []AmsSizesRecorded
    BY ProgramRunsSize, SlocReadsWhatIsOpen, AmsSizesAreRecorded
  <1> QED
    BY <1>1, <1>2, <1>3, <1>4, <1>5, <1>6

(* In code without functions in functions every metric reports, whatever   *)
(* runs beside it, what its abstract definition says of the structure of   *)
(* the code; where operators are leaves both token metrics read them       *)
(* exactly.  What else each of them needs of the grammar is its own.       *)
THEOREM MetricsExact ==
    MetricsSpec =>
        /\ "MND" \in Enabled /\ []OneFunction =>
              []NestingFollowsBlocks /\ MndImplementsNestingDepth
        /\ {"AMS", "MC", "SLOC"} \subseteq Enabled /\ []OneFunction => []AmsAgreesWithSloc
        /\ {"AMS", "MC", "SLOC"} \subseteq Enabled /\ []OneFunction /\ []FlatStatements =>
              SlocImplementsLineCount
        /\ /\ "NPM" \in Enabled /\ FunctionsAreTyped
           /\ []OneFunction /\ []TypesArePlain /\ [][SpecifierIsStatic]_saxVars
           => NpmImplementsPublicCount
        /\ /\ "RFU" \in Enabled /\ RfuIsShown /\ FunctionsAreNamed /\ CallsAreNamed
           /\ CallsHaveOneName /\ []OneFunction /\ []TypesApart /\ []CallsInBodies
           => RfuImplementsCallGraph
        /\ "ABC" \in Enabled /\ OperatorsAreLeaves => []OperatorByItsText
        /\ "ABC" \in Enabled /\ OperatorsAreLeaves /\ OneInitialiser /\ []OneFunction =>
              AbcImplementsCount
        /\ "HSM" \in Enabled /\ OperatorsAreLeaves => []OperatorTextExact
  <1>1. MetricsSpec /\ "MND" \in Enabled /\ []OneFunction =>
            []NestingFollowsBlocks /\ MndImplementsNestingDepth
    BY ProgramRunsMnd, DepthFollowsBlocks, MndReportsNestingDepth
  <1>2. MetricsSpec /\ {"AMS", "MC", "SLOC"} \subseteq Enabled /\ []OneFunction =>
            []AmsAgreesWithSloc
    BY ProgramRunsSize, SizesAgree
  <1>3. MetricsSpec /\ {"AMS", "MC", "SLOC"} \subseteq Enabled /\ []OneFunction
            /\ []FlatStatements => SlocImplementsLineCount
    BY ProgramRunsSize, SlocReportsLineCount
  <1>4. MetricsSpec /\ "NPM" \in Enabled /\ FunctionsAreTyped /\ []OneFunction
            /\ []TypesArePlain /\ [][SpecifierIsStatic]_saxVars => NpmImplementsPublicCount
    BY ProgramRunsNpm, NpmReportsPublicCount
  <1>5. MetricsSpec /\ "ABC" \in Enabled /\ OperatorsAreLeaves => []OperatorByItsText
    BY ProgramRunsAbc, OperatorsAreRead
  <1>6. MetricsSpec /\ "ABC" \in Enabled /\ OperatorsAreLeaves /\ OneInitialiser
            /\ []OneFunction => AbcImplementsCount
    BY ProgramRunsAbc, AbcReportsCount
  <1>7. MetricsSpec /\ "HSM" \in Enabled /\ OperatorsAreLeaves => []OperatorTextExact
    BY ProgramRunsHsm, OperatorTextsExact
  <1>8. MetricsSpec /\ "RFU" \in Enabled /\ RfuIsShown /\ FunctionsAreNamed /\ CallsAreNamed
            /\ CallsHaveOneName /\ []OneFunction /\ []TypesApart /\ []CallsInBodies
            => RfuImplementsCallGraph
    BY ProgramRunsRfu, RfuReportsCallGraph
  <1> QED
    BY <1>1, <1>2, <1>3, <1>4, <1>5, <1>6, <1>7, <1>8

(* The dispatcher and RFU read the names of functions each for itself, and *)
(* every row of every metric is keyed by what the dispatcher read: where   *)
(* functions are declared as in C, the names are those of the source, the  *)
(* keys are spelled with them, and RFU's are the same.                     *)
THEOREM MetricsNamed ==
    FunctionsAreNamed /\ MetricsSpec /\ []OneFunction /\ []TypesApart =>
        /\ []FnNamedAsDeclared /\ []KeysSpellSubjects
        /\ "RFU" \in Enabled /\ CallsAreNamed /\ []FunctionsOutsideNames => []ReadersAgree
  <1>1. FunctionsAreNamed /\ MetricsSpec /\ []OneFunction /\ []TypesApart =>
            []FnNamedAsDeclared /\ []KeysSpellSubjects
    BY ProgramRunsDispatcher, NamesAreDeclared, KeysAreSpelled
  <1>2. MetricsSpec /\ []OneFunction /\ "RFU" \in Enabled /\ CallsAreNamed
            /\ []FunctionsOutsideNames => []ReadersAgree
    BY ProgramRunsRfu, NamesAgree
  <1> QED
    BY <1>1, <1>2

-----------------------------------------------------------------------------
(* Lemmas on Among.                                                        *)

AmongFirst(set, seq) ==
    LET first[k \in 0..Len(seq)] ==
            IF k = 0 THEN <<>>
            ELSE IF seq[k] \in set THEN Append(first[k - 1], seq[k])
            ELSE first[k - 1]
    IN  first

(* What the recursion defines, element by element.                         *)
LEMMA AmongIs ==
    ASSUME NEW set, NEW seq, Len(seq) \in Nat
    PROVE  /\ Among(set, seq) = AmongFirst(set, seq)[Len(seq)]
           /\ AmongFirst(set, seq) \in
                  [0..Len(seq) -> Seq({seq[k] : k \in 1..Len(seq)} \cap set)]
           /\ AmongFirst(set, seq)[0] = <<>>
           /\ \A k \in 1..Len(seq) :
                  AmongFirst(set, seq)[k] =
                      IF seq[k] \in set THEN Append(AmongFirst(set, seq)[k - 1], seq[k])
                      ELSE AmongFirst(set, seq)[k - 1]
  <1> DEFINE n == Len(seq)
             S == {seq[k] : k \in 1..n}
             T == Seq(S \cap set)
             g == [p \in (1..n) \X T |->
                      IF seq[p[1]] \in set THEN Append(p[2], seq[p[1]]) ELSE p[2]]
             Def(f) == f = [k \in 0..n |->
                               IF k = 0 THEN <<>>
                               ELSE IF seq[k] \in set THEN Append(f[k - 1], seq[k])
                               ELSE f[k - 1]]
  <1>1. n \in Nat /\ <<>> \in T /\ \A k \in 1..n : seq[k] \in S
    OBVIOUS
  <1>2. ASSUME NEW s \in T, NEW k \in 1..n, seq[k] \in set PROVE Append(s, seq[k]) \in T
    <2>1. seq[k] \in S \cap set
      BY <1>1, <1>2
    <2> HIDE DEF n
    <2> QED
      BY <2>1
  <1>3. g \in [(1..n) \X T -> T]
    <2> HIDE DEF n, T
    <2>1. ASSUME NEW p \in (1..n) \X T
          PROVE  (IF seq[p[1]] \in set THEN Append(p[2], seq[p[1]]) ELSE p[2]) \in T
      BY <1>2
    <2> QED
      BY <2>1
  <1>4. PICK f : Carries(f, n, T, <<>>, g)
    <2> HIDE DEF g, n, T
    <2> QED
      BY <1>1, <1>3, Carried
  <1>5. f \in [0..n -> T] /\ f[0] = <<>>
    BY <1>4 DEF Carries
  <1>6. ASSUME NEW k \in 1..n
        PROVE  f[k] = IF seq[k] \in set THEN Append(f[k - 1], seq[k]) ELSE f[k - 1]
    <2>1. f[k] = g[<<k, f[k - 1]>>]
      BY <1>4 DEF Carries
    <2>2. f[k - 1] \in T
      <3> HIDE DEF T, n
      <3> QED
        BY <1>1, <1>5
    <2> HIDE DEF T, n
    <2> QED
      BY <2>1, <2>2
  <1>7. Def(f)
    <2>1. ASSUME NEW k \in 0..n
          PROVE  f[k] = IF k = 0 THEN <<>>
                        ELSE IF seq[k] \in set THEN Append(f[k - 1], seq[k])
                        ELSE f[k - 1]
      <3> HIDE DEF n, T
      <3>1. CASE k = 0
        BY <1>5, <3>1
      <3>2. CASE k # 0
        <4>1. k \in 1..n
          BY <1>1, <3>2
        <4> QED
          BY <1>6, <3>2, <4>1
      <3> QED
        BY <3>1, <3>2
    <2>2. f = [k \in 0..n |-> f[k]]
      BY <1>5
    <2> HIDE DEF n, T
    <2> QED
      BY <2>1, <2>2
  <1>8. AmongFirst(set, seq) = CHOOSE h : Def(h)
    BY DEF AmongFirst
  <1>9. Def(AmongFirst(set, seq))
    <2> HIDE DEF Def
    <2> QED
      BY <1>7, <1>8
  <1> DEFINE u == AmongFirst(set, seq)
  <1>10. /\ u = [k \in 0..n |-> u[k]]
         /\ u[0] = <<>>
         /\ \A k \in 1..n : u[k] = IF seq[k] \in set THEN Append(u[k - 1], seq[k]) ELSE u[k - 1]
    <2>1. Def(u)
      BY <1>9
    <2> HIDE DEF u
    <2>2. 0 \in 0..n /\ \A k \in 1..n : k \in 0..n /\ k # 0
      BY <1>1
    <2> HIDE DEF n
    <2>3. u = [k \in 0..n |-> u[k]]
      BY <2>1
    <2>4. u[0] = <<>>
      BY <2>1, <2>2
    <2>5. \A k \in 1..n : u[k] = IF seq[k] \in set THEN Append(u[k - 1], seq[k]) ELSE u[k - 1]
      BY <2>1, <2>2
    <2> QED
      BY <2>3, <2>4, <2>5
  <1> DEFINE Bad == {k \in 0..n : u[k] \notin T}
  <1>11. ASSUME Bad # {} PROVE FALSE
    <2> HIDE DEF u, T, n
    <2>0. Bad \subseteq Nat
      BY <1>1
    <2>1. PICK k \in Bad : \A y \in Bad : k <= y
      <3> HIDE DEF Bad
      <3> QED
        BY <1>11, <2>0, NatMinimum, Zenon
    <2>2. k # 0
      BY <1>1, <1>10, <2>1
    <2>3. k \in 1..n /\ k - 1 \in 0..n /\ k - 1 \notin Bad
      BY <1>1, <2>1, <2>2
    <2>4. u[k - 1] \in T
      BY <2>3
    <2>5. u[k] \in T
      BY <1>2, <1>10, <2>3, <2>4
    <2> QED
      BY <2>1, <2>5
  <1>12. u \in [0..n -> T]
    <2> HIDE DEF u, T, n
    <2>1. \A k \in 0..n : u[k] \in T
      BY <1>11
    <2> QED
      BY <1>10, <2>1
  <1>13. Among(set, seq) = u[n]
    BY DEF Among, AmongFirst
  <1> QED
    BY <1>10, <1>12, <1>13

(* It only depends on the elements that were looked at.                    *)
LEMMA AmongAgree ==
    ASSUME NEW S, NEW set, NEW s \in Seq(S), NEW t \in Seq(S), NEW n \in Nat,
           n <= Len(s), n <= Len(t), \A k \in 1..n : s[k] = t[k]
    PROVE  AmongFirst(set, s)[n] = AmongFirst(set, t)[n]
  <1> DEFINE u == AmongFirst(set, s)
             v == AmongFirst(set, t)
             Bad == {k \in 0..n : u[k] # v[k]}
  <1>0. Len(s) \in Nat /\ Len(t) \in Nat
    OBVIOUS
  <1>1. /\ u[0] = <<>>
        /\ \A k \in 1..Len(s) : u[k] = IF s[k] \in set THEN Append(u[k - 1], s[k]) ELSE u[k - 1]
    BY <1>0, AmongIs
  <1>2. /\ v[0] = <<>>
        /\ \A k \in 1..Len(t) : v[k] = IF t[k] \in set THEN Append(v[k - 1], t[k]) ELSE v[k - 1]
    BY <1>0, AmongIs
  <1> HIDE DEF u, v
  <1>3. ASSUME Bad # {} PROVE FALSE
    <2>0. Bad \subseteq Nat
      OBVIOUS
    <2>1. PICK k \in Bad : \A y \in Bad : k <= y
      <3> HIDE DEF Bad
      <3> QED
        BY <1>3, <2>0, NatMinimum, Zenon
    <2>2. k # 0
      BY <1>1, <1>2, <2>1
    <2>3. k \in 1..n /\ k - 1 \in 0..n /\ k - 1 \notin Bad
      BY <2>1, <2>2
    <2>4. k \in 1..Len(s) /\ k \in 1..Len(t) /\ s[k] = t[k] /\ u[k - 1] = v[k - 1]
      BY <1>0, <2>3
    <2>5. u[k] = v[k]
      BY <1>1, <1>2, <2>4
    <2> QED
      BY <2>1, <2>5
  <1>4. u[n] = v[n]
    BY <1>3
  <1> QED
    BY <1>4 DEF u, v

(* One more element.                                                       *)
LEMMA AmongAppend ==
    ASSUME NEW S, NEW set, NEW s \in Seq(S), NEW x \in S
    PROVE  Among(set, Append(s, x)) =
               IF x \in set THEN Append(Among(set, s), x) ELSE Among(set, s)
  <1> DEFINE t == Append(s, x)
             n == Len(s)
  <1>1. /\ t \in Seq(S) /\ Len(t) = n + 1 /\ n \in Nat /\ t[n + 1] = x
        /\ \A k \in 1..n : t[k] = s[k]
    OBVIOUS
  <1> HIDE DEF t
  <1>2. AmongFirst(set, t)[n] = AmongFirst(set, s)[n]
    <2>1. n <= Len(t) /\ n <= Len(s) /\ n \in Nat
      BY <1>1
    <2> HIDE DEF n
    <2> QED
      BY <1>1, <2>1, AmongAgree
  <1>3. Among(set, s) = AmongFirst(set, s)[n]
    BY <1>1, AmongIs
  <1>4. /\ Among(set, t) = AmongFirst(set, t)[n + 1]
        /\ n + 1 \in 1..Len(t) /\ n + 1 - 1 = n
    BY <1>1, AmongIs
  <1>5. AmongFirst(set, t)[n + 1] =
            IF t[n + 1] \in set THEN Append(AmongFirst(set, t)[n + 1 - 1], t[n + 1])
            ELSE AmongFirst(set, t)[n + 1 - 1]
    BY <1>1, <1>4, AmongIs
  <1>6. AmongFirst(set, t)[n + 1] =
            IF x \in set THEN Append(AmongFirst(set, t)[n], x) ELSE AmongFirst(set, t)[n]
    BY <1>1, <1>4, <1>5
  <1>7. Among(set, t) = IF x \in set THEN Append(Among(set, s), x) ELSE Among(set, s)
    BY <1>2, <1>3, <1>4, <1>6
  <1> QED
    BY <1>7 DEF t

(* What is chosen is in the set and in the sequence's.                     *)
LEMMA AmongType ==
    ASSUME NEW S, NEW set, NEW s \in Seq(S)
    PROVE  Among(set, s) \in Seq(S \cap set) /\ Among(set, s) \in Seq(S)
  <1>1. Len(s) \in Nat /\ Len(s) \in 0..Len(s)
    OBVIOUS
  <1> DEFINE R == {s[k] : k \in 1..Len(s)}
  <1>2. Among(set, s) \in Seq(S \cap set)
    <2>1. Among(set, s) = AmongFirst(set, s)[Len(s)]
      BY <1>1, AmongIs
    <2>2. AmongFirst(set, s) \in [0..Len(s) -> Seq(R \cap set)]
      BY <1>1, AmongIs
    <2>3. R \cap set \subseteq S \cap set
      OBVIOUS
    <2> HIDE DEF R
    <2>4. Among(set, s) \in Seq(R \cap set)
      BY <1>1, <2>1, <2>2
    <2> QED
      BY <2>3, <2>4, SeqMonotonic
  <1>3. Among(set, s) \in Seq(S)
    <2>1. S \cap set \subseteq S
      OBVIOUS
    <2> QED
      BY <1>2, <2>1, SeqMonotonic
  <1> QED
    BY <1>2, <1>3

(* Nothing of nothing.                                                     *)
LEMMA AmongEmpty ==
    ASSUME NEW set
    PROVE  Among(set, <<>>) = <<>>
  <1>1. Len(<<>>) = 0
    OBVIOUS
  <1>2. Len(<<>>) \in Nat
    BY <1>1
  <1> QED
    BY <1>1, <1>2, AmongIs

(* What is chosen from a sequence and what follows it.                     *)
LEMMA AmongConcat ==
    ASSUME NEW S, NEW set, NEW s \in Seq(S), NEW t \in Seq(S)
    PROVE  Among(set, s \o t) = Among(set, s) \o Among(set, t)
  <1>9. \A q \in Seq(S), y \in S :
             Among(set, Append(q, y)) = IF y \in set THEN Append(Among(set, q), y) ELSE Among(set, q)
    BY AmongAppend
  <1>0. /\ SubSeq(t, 1, 0) = <<>>
        /\ SubSeq(t, 1, Len(t)) = t
        /\ \A k \in 0..Len(t) : SubSeq(t, 1, k) \in Seq(S)
        /\ \A k \in 1..Len(t) : SubSeq(t, 1, k) = Append(SubSeq(t, 1, k - 1), t[k])
    OBVIOUS
  <1> DEFINE Part(k) == SubSeq(t, 1, k)
             Holds(k) == Among(set, s \o Part(k)) = Among(set, s) \o Among(set, Part(k))
             Bad == {k \in 0..Len(t) : ~Holds(k)}
  <1>1. ASSUME Bad # {} PROVE FALSE
    <2>0. Bad \subseteq Nat
      OBVIOUS
    <2>1. PICK k \in Bad : \A y \in Bad : k <= y
      <3> HIDE DEF Bad
      <3> QED
        BY <1>1, <2>0, NatMinimum, Zenon
    <2>2. Holds(0)
      <3>1. Part(0) = <<>>
        BY <1>0
      <3>2. s \o <<>> = s /\ Among(set, <<>>) = <<>>
        BY AmongEmpty
      <3>3. Among(set, s) \o <<>> = Among(set, s)
        <4>1. Among(set, s) \in Seq(S)
          BY AmongType
        <4> QED
          BY <4>1
      <3> HIDE DEF Part
      <3> QED
        BY <3>1, <3>2, <3>3
    <2>3. k # 0
      BY <2>1, <2>2
    <2>4. k \in 1..Len(t) /\ k - 1 \in 0..Len(t) /\ k - 1 \notin Bad
      BY <2>1, <2>3
    <2>5. Holds(k - 1)
      <3> HIDE DEF Holds
      <3> QED
        BY <2>4
    <2>6. Part(k - 1) \in Seq(S) /\ t[k] \in S /\ Part(k) = Append(Part(k - 1), t[k])
      BY <1>0, <2>4
    <2> DEFINE before == Part(k - 1)
               x == t[k]
               chosen == Among(set, before)
    <2>7. s \o Append(before, x) = Append(s \o before, x) /\ s \o before \in Seq(S)
      <3> HIDE DEF before, x
      <3> QED
        BY <2>6 DEF before, x
    <2>8. Among(set, s) \in Seq(S) /\ chosen \in Seq(S)
      <3> HIDE DEF before
      <3> QED
        BY <2>6, AmongType DEF before
    <2>9. Among(set, s) \o Append(chosen, x) = Append(Among(set, s) \o chosen, x)
      <3> DEFINE first == Among(set, s)
      <3>1. first \in Seq(S)
        BY <2>8
      <3>2. first \in Seq(S) /\ chosen \in Seq(S) /\ x \in S
        BY <2>6, <2>8, <3>1
      <3>3. \A p, q \in Seq(S), y \in S : p \o Append(q, y) = Append(p \o q, y)
        OBVIOUS
      <3> HIDE DEF first, chosen, x
      <3>4. first \o Append(chosen, x) = Append(first \o chosen, x)
        BY <3>2, <3>3, Zenon
      <3> QED
        BY <3>4, Zenon DEF first
    <2>10. Among(set, Append(s \o before, x)) =
               IF x \in set THEN Append(Among(set, s \o before), x) ELSE Among(set, s \o before)
      <3>1. x \in S
        BY <2>6
      <3> HIDE DEF before, x
      <3> QED
        BY <1>9, <2>7, <3>1
    <2>11. Among(set, Append(before, x)) = IF x \in set THEN Append(chosen, x) ELSE chosen
      <3>1. x \in S /\ before \in Seq(S)
        BY <2>6
      <3> HIDE DEF before, x
      <3> QED
        BY <1>9, <3>1
    <2>12. Among(set, s \o before) = Among(set, s) \o chosen
      BY <2>5
    <2>13. Part(k) = Append(before, x)
      BY <2>6
    <2>14. Among(set, s \o Append(before, x)) = Among(set, s) \o Among(set, Append(before, x))
      <3> HIDE DEF before, x, chosen
      <3> QED
        BY <2>7, <2>9, <2>10, <2>11, <2>12
    <2>15. Holds(k)
      <3> HIDE DEF before, x
      <3> QED
        BY <2>13, <2>14
    <2> QED
      BY <2>1, <2>15
  <1>2. Holds(Len(t)) /\ Part(Len(t)) = t
    <2>1. Len(t) \in 0..Len(t)
      OBVIOUS
    <2>2. Part(Len(t)) = t
      BY <1>0
    <2> HIDE DEF Holds, Part
    <2> QED
      BY <1>1, <2>1, <2>2
  <1> QED
    BY <1>2

(* Nothing of a sequence is chosen.                                        *)
LEMMA AmongNone ==
    ASSUME NEW S, NEW set, NEW t \in Seq(S), \A i \in 1..Len(t) : t[i] \notin set
    PROVE  Among(set, t) = <<>>
  <1>0. /\ SubSeq(t, 1, 0) = <<>>
        /\ SubSeq(t, 1, Len(t)) = t
        /\ \A k \in 0..Len(t) : SubSeq(t, 1, k) \in Seq(S)
        /\ \A k \in 1..Len(t) : SubSeq(t, 1, k) = Append(SubSeq(t, 1, k - 1), t[k])
    OBVIOUS
  <1> DEFINE Part(k) == SubSeq(t, 1, k)
             Holds(k) == Among(set, Part(k)) = <<>>
             Bad == {k \in 0..Len(t) : ~Holds(k)}
  <1>2. ASSUME Bad # {} PROVE FALSE
    <2>0. Bad \subseteq Nat
      OBVIOUS
    <2>1. PICK k \in Bad : \A y \in Bad : k <= y
      <3> HIDE DEF Bad
      <3> QED
        BY <1>2, <2>0, NatMinimum, Zenon
    <2>2. Holds(0)
      <3>1. Part(0) = <<>>
        BY <1>0
      <3> HIDE DEF Part
      <3> QED
        BY <3>1, AmongEmpty
    <2>3. k \in 1..Len(t) /\ k - 1 \in 0..Len(t) /\ k - 1 \notin Bad
      <3>1. k # 0
        BY <2>1, <2>2
      <3> QED
        BY <2>1, <3>1
    <2>4. Part(k - 1) \in Seq(S) /\ t[k] \in S /\ Part(k) = Append(Part(k - 1), t[k])
          /\ t[k] \notin set
      BY <1>0, <2>3
    <2>5. Holds(k - 1)
      <3> HIDE DEF Holds
      <3> QED
        BY <2>3
    <2>6. Among(set, Append(Part(k - 1), t[k])) = Among(set, Part(k - 1))
      <3> HIDE DEF Part
      <3> QED
        BY <2>4, AmongAppend
    <2>7. Holds(k)
      <3> HIDE DEF Part
      <3> QED
        BY <2>4, <2>5, <2>6
    <2> QED
      BY <2>1, <2>7
  <1>3. Holds(Len(t)) /\ Part(Len(t)) = t
    <2>1. Len(t) \in 0..Len(t)
      OBVIOUS
    <2>2. Part(Len(t)) = t
      BY <1>0
    <2> HIDE DEF Holds, Part
    <2> QED
      BY <1>2, <2>1, <2>2
  <1> QED
    BY <1>3

-----------------------------------------------------------------------------
(* Keys and the names of rows.                                             *)

(* The keys that a subject's rows get, one per name.                       *)
KeysFor(names, subject) == [i \in DOMAIN names |-> <<names[i]>> \o subject]

(* Every key is its name and its subject.                                  *)
LEMMA KeysForType ==
    ASSUME NEW names \in Seq(Piece), NEW subject \in Seq(Piece)
    PROVE  /\ KeysFor(names, subject) \in Seq(Seq(Piece))
           /\ Len(KeysFor(names, subject)) = Len(names)
           /\ \A i \in 1..Len(names) :
                 /\ KeysFor(names, subject)[i] \in Seq(Piece)
                 /\ KeysFor(names, subject)[i] # <<>>
                 /\ KeysFor(names, subject)[i][1] = names[i]
                 /\ Tail(KeysFor(names, subject)[i]) = subject
  <1>1. DOMAIN names = 1..Len(names) /\ Len(names) \in Nat
    OBVIOUS
  <1>2. ASSUME NEW i \in 1..Len(names)
        PROVE  LET key == <<names[i]>> \o subject IN
               key \in Seq(Piece) /\ key # <<>> /\ key[1] = names[i] /\ Tail(key) = subject
    <2>1. names[i] \in Piece
      OBVIOUS
    <2>2. \A p \in Piece : /\ <<p>> \o subject \in Seq(Piece) /\ <<p>> \o subject # <<>>
                           /\ (<<p>> \o subject)[1] = p /\ Tail(<<p>> \o subject) = subject
      OBVIOUS
    <2> QED
      BY <2>1, <2>2
  <1>3. \A i \in 1..Len(names) : <<names[i]>> \o subject \in Seq(Piece)
    BY <1>2
  <1> QED
    BY <1>1, <1>2, <1>3 DEF KeysFor

(* Every metric has names for its rows, and the last is no other's.        *)
LEMMA NamesOfRows ==
    \A m \in ModelledMetrics :
        /\ RowNames[m] \in Seq(Piece) /\ RowNames[m] # <<>>
        /\ \A i \in 1..Len(RowNames[m]) - 1 : RowNames[m][i] # Last(RowNames[m])
  <1>1. /\ "ABC-A" \in Piece /\ "ABC-B" \in Piece /\ "ABC-C" \in Piece /\ "ABC" \in Piece
        /\ "AMS" \in Piece /\ "HSM-V" \in Piece /\ "HSM-D" \in Piece /\ "HSM-E" \in Piece
        /\ "HSM-B" \in Piece /\ "HSM-T" \in Piece /\ "MC" \in Piece /\ "MND" \in Piece
        /\ "NPM" \in Piece /\ "RFU" \in Piece /\ "SLOC" \in Piece
    BY DEF Piece
  <1>2. /\ RowNames["ABC"] = <<"ABC-A", "ABC-B", "ABC-C", "ABC">>
        /\ RowNames["AMS"] = <<"AMS">>
        /\ RowNames["HSM"] = <<"HSM-V", "HSM-D", "HSM-E", "HSM-B", "HSM-T">>
        /\ RowNames["MC"] = <<"MC">> /\ RowNames["MND"] = <<"MND">>
        /\ RowNames["NPM"] = <<"NPM">> /\ RowNames["RFU"] = <<"RFU">>
        /\ RowNames["SLOC"] = <<"SLOC">>
    BY DEF RowNames, AbcNames, HsmNames
  <1>3. ASSUME NEW m \in ModelledMetrics
        PROVE  RowNames[m] \in Seq(Piece) /\ RowNames[m] # <<>>
    <2>1. RowNames["ABC"] \in Seq(Piece) /\ RowNames["ABC"] # <<>>
      BY <1>1, <1>2
    <2>2. RowNames["HSM"] \in Seq(Piece) /\ RowNames["HSM"] # <<>>
      BY <1>1, <1>2
    <2>3. \A a \in Piece : <<a>> \in Seq(Piece) /\ <<a>> # <<>>
      OBVIOUS
    <2>4. m \in {"ABC", "AMS", "HSM", "MC", "MND", "NPM", "RFU", "SLOC"}
      BY DEF ModelledMetrics
    <2>5. CASE m = "ABC"
      BY <2>1, <2>5
    <2>6. CASE m = "HSM"
      BY <2>2, <2>6
    <2>7. CASE m \notin {"ABC", "HSM"}
      BY <1>1, <1>2, <2>3, <2>4, <2>7
    <2> QED
      BY <2>5, <2>6, <2>7
  <1>4. ASSUME NEW m \in ModelledMetrics, NEW i \in 1..Len(RowNames[m]) - 1
        PROVE  RowNames[m][i] # Last(RowNames[m])
    <2>1. m \in {"ABC", "AMS", "HSM", "MC", "MND", "NPM", "RFU", "SLOC"}
      BY DEF ModelledMetrics
    <2>2. CASE m = "ABC"
      BY <1>2, <1>4, <2>2 DEF Last
    <2>3. CASE m = "HSM"
      BY <1>2, <1>4, <2>3 DEF Last
    <2>4. CASE m \notin {"ABC", "HSM"}
      <3>0. \A p : Len(<<p>>) = 1
        OBVIOUS
      <3>1. Len(RowNames[m]) = 1
        BY <1>2, <2>1, <2>4, <3>0
      <3> QED
        BY <1>4, <3>1
    <2> QED
      BY <2>2, <2>3, <2>4
  <1> QED
    BY <1>3, <1>4

(* The one of its name stands for all of a metric's keys.                  *)
LEMMA KeyOfSubject ==
    ASSUME NEW subject \in Seq(Piece), NEW m \in ModelledMetrics
    PROVE  /\ <<Last(RowNames[m])>> \o subject \in Seq(Piece)
           /\ Tail(<<Last(RowNames[m])>> \o subject) = subject
           /\ Among(Under({Last(RowNames[m])}), KeysFor(RowNames[m], subject)) =
                  << <<Last(RowNames[m])>> \o subject >>
  <1> DEFINE names == RowNames[m]
             last == Last(names)
             keys == KeysFor(names, subject)
             n == Len(names)
             set == Under({last})
             S == Seq(Piece)
  <1>1. /\ names \in Seq(Piece) /\ n \in Nat /\ n >= 1 /\ last = names[n] /\ last \in Piece
        /\ \A i \in 1..n - 1 : names[i] # last
    BY NamesOfRows DEF Last
  <1> HIDE DEF names
  <1>2. /\ keys \in Seq(S) /\ Len(keys) = n
        /\ \A i \in 1..n : keys[i] \in S /\ keys[i] # <<>> /\ keys[i][1] = names[i]
        /\ \A i \in 1..n : Tail(keys[i]) = subject
    BY <1>1, KeysForType
  <1>3. keys[n] \in S /\ Tail(keys[n]) = subject /\ keys[n] = <<last>> \o subject
    <2>1. n \in DOMAIN names /\ n \in 1..n /\ names[n] = last
      BY <1>1
    <2>2. keys[n] = <<names[n]>> \o subject
      BY <2>1 DEF KeysFor
    <2> HIDE DEF keys, n, last
    <2> QED
      BY <1>2, <2>1, <2>2
  <1> DEFINE front == SubSeq(keys, 1, n - 1)
  <1> HIDE DEF keys, last, n, S
  <1>4. front \in Seq(S) /\ Len(front) = n - 1 /\ keys = Append(front, keys[n])
        /\ \A i \in 1..n - 1 : front[i] = keys[i]
    BY <1>1, <1>2
  <1> HIDE DEF front
  <1>5. \A i \in 1..n : keys[i] \in set <=> names[i] = last
    BY <1>2 DEF Under, S
  <1>6. Among(set, front) = <<>>
    <2>1. \A i \in 1..Len(front) : front[i] \notin set
      <3>1. \A i \in 1..n - 1 : i \in 1..n /\ keys[i] \notin set
        <4>1. n \in Nat /\ \A i \in 1..n - 1 : names[i] # last
          BY <1>1
        <4> HIDE DEF set
        <4> QED
          BY <1>5, <4>1
      <3> HIDE DEF set
      <3> QED
        BY <1>4, <3>1
    <2> HIDE DEF set
    <2> QED
      BY <1>4, <2>1, AmongNone, Zenon
  <1>7. keys[n] \in set
    <2>1. n \in 1..n /\ names[n] = last
      BY <1>1
    <2> HIDE DEF set
    <2> QED
      BY <1>5, <2>1
  <1>8. Among(set, Append(front, keys[n])) = Append(Among(set, front), keys[n])
    <2> HIDE DEF set
    <2> QED
      BY <1>3, <1>4, <1>7, AmongAppend
  <1>9. Append(<<>>, keys[n]) = <<keys[n]>>
    OBVIOUS
  <1>10. Among(set, keys) = <<keys[n]>>
    BY <1>4, <1>6, <1>8, <1>9
  <1> QED
    BY <1>2, <1>3, <1>10 DEF keys, last, names, S

-----------------------------------------------------------------------------
(* The rows that an event inserts.                                         *)

KeysOf(rows) == [i \in DOMAIN rows |-> rows[i].key]

(* A sequence of rows, whatever their values.                              *)
RowsIn(rows) == rows \in Seq(Range(rows))

(* More rows have more keys.                                               *)
LEMMA RowsFollow ==
    ASSUME NEW rows, RowsIn(rows), NEW more, RowsIn(more)
    PROVE  /\ RowsIn(rows \o more)
           /\ KeysOf(rows \o more) = KeysOf(rows) \o KeysOf(more)
  <1> DEFINE S == Range(rows) \cup Range(more)
             all == rows \o more
  <1>1. rows \in Seq(S) /\ more \in Seq(S)
    <2>1. Range(rows) \subseteq S /\ Range(more) \subseteq S
      OBVIOUS
    <2> QED
      BY <2>1, SeqMonotonic DEF RowsIn
  <1> HIDE DEF S
  <1>2. /\ all \in Seq(S) /\ Len(all) = Len(rows) + Len(more)
        /\ Len(rows) \in Nat /\ Len(more) \in Nat
        /\ DOMAIN rows = 1..Len(rows) /\ DOMAIN more = 1..Len(more)
        /\ DOMAIN all = 1..(Len(rows) + Len(more))
        /\ \A i \in 1..Len(rows) : all[i] = rows[i]
        /\ \A i \in (Len(rows) + 1)..(Len(rows) + Len(more)) : all[i] = more[i - Len(rows)]
    BY <1>1
  <1> DEFINE a == Len(rows)
             b == Len(more)
             ka == KeysOf(rows)
             kb == KeysOf(more)
             kc == KeysOf(all)
             K == {rows[i].key : i \in 1..a} \cup {more[i].key : i \in 1..b}
  <1> HIDE DEF all
  <1>3. RowsIn(all)
    <2>1. \A i \in 1..(a + b) : all[i] \in Range(all)
      BY <1>2 DEF Range
    <2>2. all = [i \in 1..(a + b) |-> all[i]]
      BY <1>2
    <2>3. a + b \in Nat
      BY <1>2
    <2> HIDE DEF a, b
    <2>4. \A T : (\A i \in 1..(a + b) : all[i] \in T) => [i \in 1..(a + b) |-> all[i]] \in Seq(T)
      BY <2>3, IsASeq
    <2> QED
      BY <2>1, <2>2, <2>4 DEF RowsIn
  <1>4. /\ ka = [i \in 1..a |-> rows[i].key] /\ kb = [i \in 1..b |-> more[i].key]
        /\ kc = [i \in 1..(a + b) |-> all[i].key]
    BY <1>2 DEF KeysOf
  <1>5. a \in Nat /\ b \in Nat
    BY <1>2
  <1>6. \A i \in 1..(a + b) : all[i] = IF i <= a THEN rows[i] ELSE more[i - a]
    <2>1. \A i \in 1..(a + b) : i \in 1..a \/ (i \in (a + 1)..(a + b) /\ ~(i <= a))
      <3> HIDE DEF a, b
      <3> QED
        BY <1>5
    <2> QED
      BY <1>2, <2>1
  <1>7. ka \in Seq(K) /\ kb \in Seq(K) /\ Len(ka) = a /\ Len(kb) = b
    <2>1. /\ \A i \in 1..a : rows[i].key \in K
          /\ \A i \in 1..b : more[i].key \in K
      OBVIOUS
    <2> HIDE DEF a, b, K, ka, kb
    <2>2. ka \in Seq(K) /\ Len(ka) = a
      BY <1>4, <1>5, <2>1
    <2>3. kb \in Seq(K) /\ Len(kb) = b
      BY <1>4, <1>5, <2>1
    <2> QED
      BY <2>2, <2>3
  <1> HIDE DEF a, b, ka, kb, kc, K
  <1>8. /\ DOMAIN (ka \o kb) = 1..(a + b)
        /\ ka \o kb = [i \in DOMAIN (ka \o kb) |-> (ka \o kb)[i]]
        /\ \A i \in 1..(a + b) : (ka \o kb)[i] = IF i <= a THEN ka[i] ELSE kb[i - a]
    <2>1. \A p, q \in Seq(K) :
             /\ p \o q \in Seq(K) /\ Len(p \o q) = Len(p) + Len(q)
             /\ \A i \in 1..(Len(p) + Len(q)) :
                   (p \o q)[i] = IF i <= Len(p) THEN p[i] ELSE q[i - Len(p)]
      OBVIOUS
    <2>2. \A s \in Seq(K) : DOMAIN s = 1..Len(s) /\ s = [i \in DOMAIN s |-> s[i]]
      OBVIOUS
    <2>3. /\ ka \o kb \in Seq(K) /\ Len(ka \o kb) = a + b
          /\ \A i \in 1..(a + b) : (ka \o kb)[i] = IF i <= a THEN ka[i] ELSE kb[i - a]
      BY <1>7, <2>1
    <2> DEFINE kk == ka \o kb
    <2> HIDE DEF kk
    <2>4. kk \in Seq(K) /\ Len(kk) = a + b
      BY <2>3 DEF kk
    <2>5. DOMAIN kk = 1..(a + b) /\ kk = [i \in DOMAIN kk |-> kk[i]]
      BY <2>2, <2>4
    <2> QED
      BY <2>3, <2>5 DEF kk
  <1>9. \A i \in 1..(a + b) : all[i].key = IF i <= a THEN ka[i] ELSE kb[i - a]
    <2> TAKE i \in 1..(a + b)
    <2>1. i <= a => i \in 1..a
      BY <1>5
    <2>2. ~(i <= a) => i - a \in 1..b
      BY <1>5
    <2> QED
      BY <1>4, <1>6, <2>1, <2>2
  <1>10. kc = ka \o kb
    <2> DEFINE kk == ka \o kb
    <2>1. kk = [i \in 1..(a + b) |-> kk[i]]
      BY <1>8
    <2>2. \A i \in 1..(a + b) : kk[i] = all[i].key
      BY <1>8, <1>9
    <2> HIDE DEF kk
    <2>3. kc = kk
      BY <1>4, <2>1, <2>2
    <2> QED
      BY <2>3 DEF kk
  <1> QED
    BY <1>3, <1>10 DEF all, ka, kb, kc

(* What the metrics with one row insert.                                   *)
LEMMA RowFollows ==
    ASSUME NEW rows, RowsIn(rows), NEW name, NEW suffix, NEW val
    PROVE  LET more == Append(rows, [key |-> <<name>> \o suffix, value |-> val]) IN
           RowsIn(more) /\ KeysOf(more) = KeysOf(rows) \o KeysFor(<<name>>, suffix)
  <1> DEFINE row == [key |-> <<name>> \o suffix, value |-> val]
  <1>1. Append(rows, row) = rows \o <<row>>
    <2> DEFINE S == Range(rows) \cup {row}
    <2>1. rows \in Seq(S)
      <3>1. Range(rows) \subseteq S
        OBVIOUS
      <3> QED
        BY <3>1, SeqMonotonic DEF RowsIn
    <2>2. row \in S
      OBVIOUS
    <2> HIDE DEF row, S
    <2> QED
      BY <2>1, <2>2, AppendIsConcat
  <1>2. RowsIn(<<row>>)
    <2> HIDE DEF row
    <2>1. Range(<<row>>) = {row}
      BY DEF Range
    <2> QED
      BY <2>1 DEF RowsIn
  <1>3. KeysOf(<<row>>) = KeysFor(<<name>>, suffix)
    <2>1. KeysOf(<<row>>) = [i \in 1..1 |-> <<name>> \o suffix]
      <3>1. DOMAIN <<row>> = 1..1 /\ <<row>>[1] = row /\ row.key = <<name>> \o suffix
        OBVIOUS
      <3> HIDE DEF row
      <3> QED
        BY <3>1 DEF KeysOf
    <2>2. KeysFor(<<name>>, suffix) = [i \in 1..1 |-> <<name>> \o suffix]
      <3>1. DOMAIN <<name>> = 1..1 /\ <<name>>[1] = name
        OBVIOUS
      <3> QED
        BY <3>1 DEF KeysFor
    <2> QED
      BY <2>1, <2>2
  <1> HIDE DEF row
  <1>4. RowsIn(rows \o <<row>>) /\ KeysOf(rows \o <<row>>) = KeysOf(rows) \o KeysOf(<<row>>)
    BY <1>2, RowsFollow
  <1> QED
    BY <1>1, <1>3, <1>4 DEF row

(* What an event does to the rows of a metric.                             *)
Inserted(m, subject) ==
    /\ RowsIn(Statistics[m])'
    /\ Keys(m)' = Keys(m) \o KeysFor(RowNames[m], subject)

Kept(m) == Statistics[m]' = Statistics[m]

OfFunctions == {"ABC", "HSM", "MND", "RFU", "SLOC"}

FnSubject   == <<"_">> \o get_chunk(strings, currentFn_id)
UnitSubject == <<"_">> \o get_chunk(strings, currentUnit_id)

(* The events at which no metric has anything to report.                   *)
NothingToReport ==
    \/ StartRoot
    \/ \E filename \in Filenames : StartUnit(filename)
    \/ \E localname \in Tags : StartElement(localname)
    \/ \E localname \in Tags \ {"function"} : EndElement(localname)
    \/ \E ch \in Text : CharactersUnit(ch)
    \/ EndRoot
    \/ UNCHANGED programVars

Reports(m) ==
    /\ StartDocument => Kept(m) \/ Statistics[m]' = <<>>
    /\ NothingToReport => Kept(m)
    /\ EndElement("function") => IF m \in OfFunctions THEN Inserted(m, FnSubject) ELSE Kept(m)
    /\ EndUnit => Inserted(m, UnitSubject)
    /\ EndDocument => Inserted(m, <<>>)

(* ABC inserts four rows at once.                                          *)
LEMMA AbcReports ==
    ASSUME "ABC" \in Enabled, RowsIn(abc_statistics)
    PROVE  Reports("ABC")
  <1>1. /\ Statistics["ABC"] = abc_statistics /\ Statistics["ABC"]' = abc_statistics'
        /\ Keys("ABC") = KeysOf(abc_statistics) /\ Keys("ABC")' = KeysOf(abc_statistics')
    BY DEF Statistics, Keys, KeysOf
  <1>2. ASSUME NEW subject, NEW count, AbcInsert(subject, count)
        PROVE  Inserted("ABC", subject)
    <2> DEFINE row(i) == << [key |-> <<"ABC-A">> \o subject, value |-> count.A],
                            [key |-> <<"ABC-B">> \o subject, value |-> count.B],
                            [key |-> <<"ABC-C">> \o subject, value |-> count.C],
                            [key |-> <<"ABC">> \o subject, value |-> AbcSquare(count)] >>[i]
               four == <<row(1), row(2), row(3), row(4)>>
               names == RowNames["ABC"]
    <2>1. /\ names = <<"ABC-A", "ABC-B", "ABC-C", "ABC">> /\ DOMAIN names = 1..4
          /\ names[1] = "ABC-A" /\ names[2] = "ABC-B" /\ names[3] = "ABC-C" /\ names[4] = "ABC"
      BY DEF RowNames, AbcNames
    <2>2. abc_statistics' = abc_statistics \o four
      BY <1>2 DEF AbcInsert
    <2>3. \A i \in 1..4 : row(i).key = <<names[i]>> \o subject
      BY <2>1
    <2> HIDE DEF row
    <2>4. RowsIn(four)
      BY DEF RowsIn, Range
    <2>5. KeysOf(four) = KeysFor(names, subject)
      <3>1. DOMAIN four = 1..4 /\ \A i \in 1..4 : four[i] = row(i)
        OBVIOUS
      <3> HIDE DEF four, names
      <3> QED
        BY <2>1, <2>3, <3>1 DEF KeysOf, KeysFor
    <2> HIDE DEF four, names
    <2>6. RowsIn(abc_statistics \o four) /\
          KeysOf(abc_statistics \o four) = KeysOf(abc_statistics) \o KeysOf(four)
      BY <2>4, RowsFollow
    <2> QED
      BY <1>1, <2>2, <2>5, <2>6 DEF Inserted, names
  <1>3. EndElement("function") => Inserted("ABC", FnSubject)
    <2> SUFFICES ASSUME EndElement("function") PROVE Inserted("ABC", FnSubject)
      OBVIOUS
    <2>1. event_endElement_abc("function")
      BY DEF EndElement, Handle
    <2>2. AbcInsert(FnSubject, abc_fn)
      BY <2>1 DEF event_endElement_abc, AbcFunctionEnds, AbcCommentEnds, AbcOperatorEnds, FnSubject
    <2> QED
      BY <1>2, <2>2
  <1>4. EndUnit => Inserted("ABC", UnitSubject)
    BY <1>2 DEF EndUnit, Handle, event_endUnit_abc, UnitSubject
  <1>5. EndDocument => Inserted("ABC", <<>>)
    BY <1>2 DEF EndDocument, Handle, event_endDocument_abc
  <1>6. StartDocument => abc_statistics' = <<>>
    BY DEF StartDocument, Handle, event_startDocument_abc
  <1>7. NothingToReport => abc_statistics' = abc_statistics
    <2>1. ASSUME NEW t \in Tags, t # "function", EndElement(t)
          PROVE  abc_statistics' = abc_statistics
      BY <2>1 DEF EndElement, Handle, event_endElement_abc, AbcFunctionEnds, AbcCommentEnds,
                  AbcOperatorEnds, abcVars
    <2> QED
      BY <2>1
      DEF NothingToReport, StartRoot, StartUnit, StartElement, CharactersUnit, EndRoot, Handle,
          event_startUnit_abc, event_startElement_abc, event_charactersUnit_abc, programVars,
          metricVars, abcVars
  <1> QED
    BY <1>1, <1>3, <1>4, <1>5, <1>6, <1>7 DEF Reports, Kept, OfFunctions

(* HSM inserts five.                                                       *)
LEMMA HsmReports ==
    ASSUME "HSM" \in Enabled, RowsIn(hsm_statistics)
    PROVE  Reports("HSM")
  <1>1. /\ Statistics["HSM"] = hsm_statistics /\ Statistics["HSM"]' = hsm_statistics'
        /\ Keys("HSM") = KeysOf(hsm_statistics) /\ Keys("HSM")' = KeysOf(hsm_statistics')
    BY DEF Statistics, Keys, KeysOf
  <1>2. ASSUME NEW subject, NEW level, NEW n, HsmInsert(subject, level, n)
        PROVE  Inserted("HSM", subject)
    <2> DEFINE volume     == <<n, nu1[level] + nu2[level]>>
               difficulty == <<nu1[level] * n2[level], nu2[level]>>
               Row(name, value) == [key |-> <<name>> \o subject, value |-> value]
               row(i) == << Row("HSM-V", volume), Row("HSM-D", difficulty),
                            Row("HSM-E", volume \o difficulty), Row("HSM-B", volume),
                            Row("HSM-T", volume \o difficulty) >>[i]
               five == <<row(1), row(2), row(3), row(4), row(5)>>
               names == RowNames["HSM"]
    <2>1. /\ names = <<"HSM-V", "HSM-D", "HSM-E", "HSM-B", "HSM-T">> /\ DOMAIN names = 1..5
          /\ names[1] = "HSM-V" /\ names[2] = "HSM-D" /\ names[3] = "HSM-E"
          /\ names[4] = "HSM-B" /\ names[5] = "HSM-T"
      BY DEF RowNames, HsmNames
    <2> HIDE DEF volume, difficulty
    <2>2. hsm_statistics' = hsm_statistics \o five
      BY <1>2 DEF HsmInsert, volume, difficulty
    <2>3. \A i \in 1..5 : row(i).key = <<names[i]>> \o subject
      BY <2>1
    <2> HIDE DEF row
    <2>4. RowsIn(five)
      BY DEF RowsIn, Range
    <2>5. KeysOf(five) = KeysFor(names, subject)
      <3>1. DOMAIN five = 1..5 /\ \A i \in 1..5 : five[i] = row(i)
        OBVIOUS
      <3> HIDE DEF five, names
      <3> QED
        BY <2>1, <2>3, <3>1 DEF KeysOf, KeysFor
    <2> HIDE DEF five, names
    <2>6. RowsIn(hsm_statistics \o five) /\
          KeysOf(hsm_statistics \o five) = KeysOf(hsm_statistics) \o KeysOf(five)
      BY <2>4, RowsFollow
    <2> QED
      BY <1>1, <2>2, <2>5, <2>6 DEF Inserted, names
  <1>3. EndElement("function") => Inserted("HSM", FnSubject)
    <2> SUFFICES ASSUME EndElement("function") PROVE Inserted("HSM", FnSubject)
      OBVIOUS
    <2>1. event_endElement_hsm("function")
      BY DEF EndElement, Handle
    <2>2. HsmInsert(FnSubject, "FN", n1["FN"] + nu2["FN"])
      BY <2>1 DEF event_endElement_hsm, HsmFunctionEnds, HsmOperandEnds, HsmOperatorEnds, FnSubject
    <2> QED
      BY <1>2, <2>2
  <1>4. EndUnit => Inserted("HSM", UnitSubject)
    BY <1>2 DEF EndUnit, Handle, event_endUnit_hsm, UnitSubject
  <1>5. EndDocument => Inserted("HSM", <<>>)
    BY <1>2 DEF EndDocument, Handle, event_endDocument_hsm
  <1>6. StartDocument => hsm_statistics' = <<>>
    BY DEF StartDocument, Handle, event_startDocument_hsm
  <1>7. NothingToReport => hsm_statistics' = hsm_statistics
    <2>1. ASSUME NEW t \in Tags, t # "function", EndElement(t)
          PROVE  hsm_statistics' = hsm_statistics
      BY <2>1 DEF EndElement, Handle, event_endElement_hsm, HsmFunctionEnds, HsmOperandEnds,
                  HsmOperatorEnds
    <2> QED
      BY <2>1
      DEF NothingToReport, StartRoot, StartUnit, StartElement, CharactersUnit, EndRoot, Handle,
          event_startUnit_hsm, event_startElement_hsm, event_charactersUnit_hsm, programVars,
          metricVars, hsmVars
  <1> QED
    BY <1>1, <1>3, <1>4, <1>5, <1>6, <1>7 DEF Reports, Kept, OfFunctions

(* The other metrics insert one row, under their own name.                 *)
LEMMA OneRow ==
    ASSUME NEW m \in {"AMS", "MC", "MND", "NPM", "RFU", "SLOC"}, RowsIn(Statistics[m]),
           NEW subject, NEW val,
           Statistics[m]' = Append(Statistics[m], [key |-> <<m>> \o subject, value |-> val])
    PROVE  Inserted(m, subject)
  <1>1. RowNames[m] = <<m>>
    BY DEF RowNames
  <1>2. Keys(m) = KeysOf(Statistics[m]) /\ Keys(m)' = KeysOf(Statistics[m]')
    BY DEF Keys, KeysOf
  <1> DEFINE rows == Statistics[m]
             more == Append(rows, [key |-> <<m>> \o subject, value |-> val])
  <1>3. Statistics[m]' = more /\ RowsIn(rows)
    OBVIOUS
  <1> HIDE DEF rows
  <1>4. RowsIn(more) /\ KeysOf(more) = KeysOf(rows) \o KeysFor(<<m>>, subject)
    <2>1. ASSUME NEW name, NEW old, NEW x, NEW v, RowsIn(old)
          PROVE  LET all == Append(old, [key |-> <<name>> \o x, value |-> v]) IN
                 RowsIn(all) /\ KeysOf(all) = KeysOf(old) \o KeysFor(<<name>>, x)
      BY <2>1, RowFollows
    <2> QED
      BY <1>3, <2>1
  <1> QED
    BY <1>1, <1>2, <1>3, <1>4 DEF Inserted, rows

(* AMS and NPM look at functions and report units.                         *)
LEMMA AmsReports ==
    ASSUME "AMS" \in Enabled, RowsIn(ams_statistics)
    PROVE  Reports("AMS")
  <1>1. Statistics["AMS"] = ams_statistics /\ Statistics["AMS"]' = ams_statistics'
    BY DEF Statistics
  <1>2. ASSUME NEW subject, NEW val,
               ams_statistics' = Append(ams_statistics,
                   [key |-> <<"AMS">> \o subject, value |-> val])
        PROVE  Inserted("AMS", subject)
    BY <1>1, <1>2, OneRow
  <1>3. EndElement("function") => ams_statistics' = ams_statistics
    BY DEF EndElement, Handle, event_endElement_ams
  <1>4. EndUnit => Inserted("AMS", UnitSubject)
    BY <1>2 DEF EndUnit, Handle, event_endUnit_ams, AmsInsert, UnitSubject
  <1>5. EndDocument => Inserted("AMS", <<>>)
    BY <1>2 DEF EndDocument, Handle, event_endDocument_ams, AmsInsert
  <1>6. StartDocument => ams_statistics' = <<>>
    BY DEF StartDocument, Handle, event_startDocument_ams
  <1>7. NothingToReport => ams_statistics' = ams_statistics
    <2>1. ASSUME NEW t \in Tags, EndElement(t)
          PROVE  ams_statistics' = ams_statistics
      BY <2>1 DEF EndElement, Handle, event_endElement_ams
    <2> QED
      BY <2>1
      DEF NothingToReport, StartRoot, StartUnit, StartElement, CharactersUnit, EndRoot, Handle,
          event_startUnit_ams, event_startElement_ams, programVars,
          metricVars, amsVars
  <1> QED
    BY <1>1, <1>3, <1>4, <1>5, <1>6, <1>7 DEF Reports, Kept, OfFunctions

(* So does MC, which does not see them end.                                *)
LEMMA McReports ==
    ASSUME "MC" \in Enabled, RowsIn(mc_statistics)
    PROVE  Reports("MC")
  <1>1. Statistics["MC"] = mc_statistics /\ Statistics["MC"]' = mc_statistics'
    BY DEF Statistics
  <1>2. ASSUME NEW subject, NEW val,
               mc_statistics' = Append(mc_statistics,
                   [key |-> <<"MC">> \o subject, value |-> val])
        PROVE  Inserted("MC", subject)
    BY <1>1, <1>2, OneRow
  <1>3. EndElement("function") => mc_statistics' = mc_statistics
    BY DEF EndElement, mcVars
  <1>4. EndUnit => Inserted("MC", UnitSubject)
    BY <1>2 DEF EndUnit, Handle, event_endUnit_mc, McInsert, UnitSubject
  <1>5. EndDocument => Inserted("MC", <<>>)
    BY <1>2 DEF EndDocument, Handle, event_endDocument_mc, McInsert
  <1>6. StartDocument => mc_statistics' = <<>>
    BY DEF StartDocument, Handle, event_startDocument_mc
  <1>7. NothingToReport => mc_statistics' = mc_statistics
    <2>1. ASSUME NEW t \in Tags, EndElement(t)
          PROVE  mc_statistics' = mc_statistics
      BY <2>1 DEF EndElement, mcVars
    <2> QED
      BY <2>1
      DEF NothingToReport, StartRoot, StartUnit, StartElement, CharactersUnit, EndRoot, Handle,
          event_startUnit_mc, event_startElement_mc, programVars,
          metricVars, mcVars
  <1> QED
    BY <1>1, <1>3, <1>4, <1>5, <1>6, <1>7 DEF Reports, Kept, OfFunctions

(* MND and SLOC report the functions too.                                  *)
LEMMA MndReports ==
    ASSUME "MND" \in Enabled, RowsIn(mnd_statistics)
    PROVE  Reports("MND")
  <1>1. Statistics["MND"] = mnd_statistics /\ Statistics["MND"]' = mnd_statistics'
    BY DEF Statistics
  <1>2. ASSUME NEW subject, NEW val,
               mnd_statistics' = Append(mnd_statistics,
                   [key |-> <<"MND">> \o subject, value |-> val])
        PROVE  Inserted("MND", subject)
    BY <1>1, <1>2, OneRow
  <1>3. EndElement("function") => Inserted("MND", FnSubject)
    <2> SUFFICES ASSUME EndElement("function") PROVE Inserted("MND", FnSubject)
      OBVIOUS
    <2>1. event_endElement_mnd("function")
      BY DEF EndElement, Handle
    <2>2. MndInsert(FnSubject, mnd_fn)
      BY <2>1 DEF event_endElement_mnd, MndFunctionEnds, MndBlockEnds, FnSubject
    <2> QED
      BY <1>2, <2>2 DEF MndInsert
  <1>4. EndUnit => Inserted("MND", UnitSubject)
    BY <1>2 DEF EndUnit, Handle, event_endUnit_mnd, MndInsert, UnitSubject
  <1>5. EndDocument => Inserted("MND", <<>>)
    BY <1>2 DEF EndDocument, Handle, event_endDocument_mnd, MndInsert
  <1>6. StartDocument => mnd_statistics' = <<>>
    BY DEF StartDocument, Handle, event_startDocument_mnd
  <1>7. NothingToReport => mnd_statistics' = mnd_statistics
    <2>1. ASSUME NEW t \in Tags, t # "function", EndElement(t)
          PROVE  mnd_statistics' = mnd_statistics
      BY <2>1 DEF EndElement, Handle, event_endElement_mnd, MndFunctionEnds, MndBlockEnds
    <2> QED
      BY <2>1
      DEF NothingToReport, StartRoot, StartUnit, StartElement, CharactersUnit, EndRoot, Handle,
          event_startUnit_mnd, event_startElement_mnd, programVars,
          metricVars, mndVars
  <1> QED
    BY <1>1, <1>3, <1>4, <1>5, <1>6, <1>7 DEF Reports, Kept, OfFunctions

(* NPM.                                                                    *)
LEMMA NpmReports ==
    ASSUME "NPM" \in Enabled, RowsIn(npm_statistics)
    PROVE  Reports("NPM")
  <1>1. Statistics["NPM"] = npm_statistics /\ Statistics["NPM"]' = npm_statistics'
    BY DEF Statistics
  <1>2. ASSUME NEW subject, NEW val,
               npm_statistics' = Append(npm_statistics,
                   [key |-> <<"NPM">> \o subject, value |-> val])
        PROVE  Inserted("NPM", subject)
    BY <1>1, <1>2, OneRow
  <1>3. EndElement("function") => npm_statistics' = npm_statistics
    BY DEF EndElement, Handle, event_endElement_npm
  <1>4. EndUnit => Inserted("NPM", UnitSubject)
    BY <1>2 DEF EndUnit, Handle, event_endUnit_npm, NpmInsert, UnitSubject
  <1>5. EndDocument => Inserted("NPM", <<>>)
    BY <1>2 DEF EndDocument, Handle, event_endDocument_npm, NpmInsert
  <1>6. StartDocument => npm_statistics' = <<>>
    BY DEF StartDocument, Handle, event_startDocument_npm
  <1>7. NothingToReport => npm_statistics' = npm_statistics
    <2>1. ASSUME NEW t \in Tags, EndElement(t)
          PROVE  npm_statistics' = npm_statistics
      BY <2>1 DEF EndElement, Handle, event_endElement_npm
    <2> QED
      BY <2>1
      DEF NothingToReport, StartRoot, StartUnit, StartElement, CharactersUnit, EndRoot, Handle,
          event_startUnit_npm, event_startElement_npm, event_charactersUnit_npm, programVars,
          metricVars, npmVars
  <1> QED
    BY <1>1, <1>3, <1>4, <1>5, <1>6, <1>7 DEF Reports, Kept, OfFunctions

(* SLOC.                                                                   *)
LEMMA SlocReports ==
    ASSUME "SLOC" \in Enabled, RowsIn(sloc_statistics)
    PROVE  Reports("SLOC")
  <1>1. Statistics["SLOC"] = sloc_statistics /\ Statistics["SLOC"]' = sloc_statistics'
    BY DEF Statistics
  <1>2. ASSUME NEW subject, NEW val,
               sloc_statistics' = Append(sloc_statistics,
                   [key |-> <<"SLOC">> \o subject, value |-> val])
        PROVE  Inserted("SLOC", subject)
    BY <1>1, <1>2, OneRow
  <1>3. EndElement("function") => Inserted("SLOC", FnSubject)
    <2> SUFFICES ASSUME EndElement("function") PROVE Inserted("SLOC", FnSubject)
      OBVIOUS
    <2>1. event_endElement_sloc("function")
      BY DEF EndElement, Handle
    <2>2. SlocInsert(FnSubject, sloc_fn)
      BY <2>1 DEF event_endElement_sloc, SlocFunctionEnds, SlocStatementEnds, SlocOtherEnds, SlocSimple, FnSubject
    <2> QED
      BY <1>2, <2>2 DEF SlocInsert
  <1>4. EndUnit => Inserted("SLOC", UnitSubject)
    BY <1>2 DEF EndUnit, Handle, event_endUnit_sloc, SlocInsert, UnitSubject
  <1>5. EndDocument => Inserted("SLOC", <<>>)
    BY <1>2 DEF EndDocument, Handle, event_endDocument_sloc, SlocInsert
  <1>6. StartDocument => sloc_statistics' = <<>>
    BY DEF StartDocument, Handle, event_startDocument_sloc
  <1>7. NothingToReport => sloc_statistics' = sloc_statistics
    <2>1. ASSUME NEW t \in Tags, t # "function", EndElement(t)
          PROVE  sloc_statistics' = sloc_statistics
      BY <2>1 DEF EndElement, Handle, event_endElement_sloc, SlocFunctionEnds, SlocStatementEnds, SlocOtherEnds, SlocSimple
    <2> QED
      BY <2>1
      DEF NothingToReport, StartRoot, StartUnit, StartElement, CharactersUnit, EndRoot, Handle,
          event_startUnit_sloc, event_startElement_sloc, programVars,
          metricVars, slocVars
  <1> QED
    BY <1>1, <1>3, <1>4, <1>5, <1>6, <1>7 DEF Reports, Kept, OfFunctions

(* RFU is shown once a unit has started, or it has ended the program.      *)
RfuShown ==
    /\ units > 0 /\ ~rfu_terminated => ~RfuQuiet
    /\ phase \in {"unit", "closed"} => units > 0

(* What is known of RFU where it is enabled and functions are written as   *)
(* in C.                                                                   *)
RfuKnows ==
    "RFU" \in Enabled =>
        /\ FunctionsAreNamed /\ OneFunction /\ TypesApart
        /\ NameIInv /\ RfuIInv /\ ReaderIInv /\ RfuShown

(* The mark of a row goes before the whole name of a function.             *)
LEMMA MarkedName ==
    \A unit, name \in Seq(Piece) :
        <<"_">> \o unit \o <<"::">> \o name \o <<"()">> =
            <<"_">> \o (unit \o <<"::">> \o name \o <<"()">>)
  <1> DEFINE mark == <<"_">>
             colons == <<"::">>
             parens == <<"()">>
  <1>1. mark \in Seq(Piece) /\ colons \in Seq(Piece) /\ parens \in Seq(Piece)
    <2>1. "_" \in Piece /\ "::" \in Piece /\ "()" \in Piece
      BY Zenon DEF Piece
    <2>2. \A p \in Piece : <<p>> \in Seq(Piece)
      OBVIOUS
    <2> QED
      BY <2>1, <2>2
  <1> HIDE DEF mark, colons, parens
  <1>2. \A p, q \in Seq(Piece) : p \o q \in Seq(Piece)
    OBVIOUS
  <1>3. ASSUME NEW p \in Seq(Piece), NEW q \in Seq(Piece), NEW r \in Seq(Piece)
        PROVE  (p \o q) \o r = p \o (q \o r)
    BY ConcatAssociative
  <1>4. ASSUME NEW unit \in Seq(Piece), NEW name \in Seq(Piece)
        PROVE  mark \o unit \o colons \o name \o parens =
                   mark \o (unit \o colons \o name \o parens)
    <2> DEFINE first  == unit \o colons
               second == first \o name
    <2>1. mark \in Seq(Piece) /\ parens \in Seq(Piece)
      BY <1>1
    <2>2. first \in Seq(Piece)
      BY <1>1, <1>2, Zenon
    <2>3. mark \o unit \o colons = mark \o first
      BY <1>1, <1>3, Zenon
    <2> HIDE DEF first
    <2>4. second \in Seq(Piece)
      BY <1>2, <2>2, Zenon
    <2>5. mark \o first \o name = mark \o second
      BY <1>3, <2>1, <2>2, Zenon
    <2> HIDE DEF second
    <2>6. mark \o second \o parens = mark \o (second \o parens)
      BY <1>3, <2>1, <2>4, Zenon
    <2>7. mark \o unit \o colons \o name \o parens = mark \o (second \o parens)
      BY <2>3, <2>5, <2>6, Zenon
    <2> QED
      BY <2>7, Zenon DEF first, second
  <1> QED
    BY <1>4, Zenon DEF mark, colons, parens

(* RFU knows functions and units by names of its own, which are those of   *)
(* the dispatcher.                                                         *)
LEMMA RfuReports ==
    ASSUME "RFU" \in Enabled, IInv, RfuKnows, ~rfu_terminated, RowsIn(rfu_statistics)
    PROVE  Reports("RFU")
  <1>1. Statistics["RFU"] = rfu_statistics /\ Statistics["RFU"]' = rfu_statistics'
    BY DEF Statistics
  <1>2. ASSUME NEW subject, NEW val,
               rfu_statistics' = Append(rfu_statistics,
                   [key |-> <<"RFU">> \o subject, value |-> val])
        PROVE  Inserted("RFU", subject)
    BY <1>1, <1>2, OneRow
  <1>0. /\ FunctionsAreNamed /\ OneFunction /\ TypesApart
        /\ NameIInv /\ RfuIInv /\ ReaderIInv /\ RfuShown /\ SameName
    BY DEF RfuKnows, ReaderIInv
  <1>3. ASSUME EndElement("function") PROVE Inserted("RFU", FnSubject)
    <2>1. event_endElement("function") /\ event_endElement_rfu("function")
      BY <1>3 DEF EndElement, Handle
    <2>2. "function" \in Tags /\ phase = "unit"
      <3>1. phase = "unit" /\ Len(open) > 1 /\ Top.tag = "function"
        BY <2>1 DEF event_endElement, SaxEndElement
      <3>2. open \in Seq(Element)
        BY DEF IInv, TypeOK, SaxTypeOK
      <3>3. Top \in Element
        BY <3>1, <3>2 DEF Top
      <3> QED
        BY <3>1, <3>3 DEF Element
    <2>3. function_read_state = 5
      BY <1>0, <2>1, <2>2, NameIInvEnd
    <2>4. currentFn_id # NoId /\ fn_id # NoId /\ unit_id # NoId /\ ~RfuQuiet
      BY <1>0, <2>2, <2>3 DEF ReaderIInv, RfuIInv
    <2> DEFINE unit == rfu_units[unit_id]
               name == fns[fn_id]
    <2>5. unit \in Seq(Piece) /\ name \in Seq(Piece)
      <3>1. unit_id \in 1..Len(rfu_units) /\ fn_id \in 1..Len(fns)
        BY <1>0, <2>4 DEF RfuIInv, Functions, Units
      <3>2. rfu_units \in Seq(Seq(Piece)) /\ fns \in Seq(Seq(Text))
        BY <1>0 DEF RfuIInv, Strings
      <3>3. unit \in Seq(Piece) /\ name \in Seq(Text)
        BY <3>1, <3>2
      <3>4. Text \subseteq Piece
        BY DEF Piece
      <3> HIDE DEF unit, name
      <3> QED
        BY <3>3, <3>4, SeqMonotonic
    <2>6. strings[currentFn_id] = unit \o <<"::">> \o name \o <<"()">>
      BY <1>0, <2>3 DEF SameName
    <2>7. get_chunk(strings, currentFn_id) = strings[currentFn_id]
      BY <2>4 DEF get_chunk, IInv, TypeOK, NoId
    <2>8. RfuInsert(<<"_">> \o unit \o <<"::">> \o name \o <<"()">>,
                    Cardinality(UniqueCalls({fn_id})))
      BY <2>1, <2>4
      DEF event_endElement_rfu, RfuMethodEnds, RfuMethodTypeEnds, RfuMethodNameEnds,
          RfuCallNameEnds, RfuEndIgnored
    <2> HIDE DEF unit, name
    <2>9. <<"_">> \o unit \o <<"::">> \o name \o <<"()">> =
              <<"_">> \o (unit \o <<"::">> \o name \o <<"()">>)
      <3>1. unit \in Seq(Piece) /\ name \in Seq(Piece)
        BY <2>5
      <3> QED
        BY <3>1, MarkedName, Zenon
    <2>10. FnSubject = <<"_">> \o unit \o <<"::">> \o name \o <<"()">>
      BY <2>6, <2>7, <2>9 DEF FnSubject
    <2> QED
      BY <1>2, <2>8, <2>10 DEF RfuInsert
  <1>4. ASSUME EndUnit PROVE Inserted("RFU", UnitSubject)
    <2>1. phase = "unit" /\ event_endUnit_rfu
      BY <1>4 DEF EndUnit, Handle, event_endUnit, SaxEndUnit
    <2>2. ~RfuQuiet /\ strings[currentUnit_id] = rfu_units[unit_id]
      BY <1>0, <2>1 DEF RfuIInv, SameName
    <2>3. get_chunk(strings, currentUnit_id) = strings[currentUnit_id]
      BY <2>1 DEF get_chunk, IInv, TypeOK, UnitHasId, NoId
    <2>4. RfuInsert(UnitSubject, Cardinality(UniqueCalls(Sources(ownerGraph, unit_id))))
      BY <2>1, <2>2, <2>3 DEF event_endUnit_rfu, UnitSubject
    <2> QED
      BY <1>2, <2>4 DEF RfuInsert
  <1>5. ASSUME EndDocument PROVE Inserted("RFU", <<>>)
    <2>1. phase = "closed" /\ event_endDocument_rfu
      BY <1>5 DEF EndDocument, Handle, event_endDocument, SaxEndDocument, SaxMove
    <2>2. ~RfuQuiet
      BY <1>0, <2>1 DEF RfuShown
    <2>3. RfuInsert(<<>>, Len(fns))
      BY <2>1, <2>2 DEF event_endDocument_rfu
    <2> QED
      BY <1>2, <2>3 DEF RfuInsert
  <1>6. StartDocument => rfu_statistics' = <<>> \/ rfu_statistics' = rfu_statistics
    BY DEF StartDocument, Handle, event_startDocument_rfu
  <1>7. NothingToReport => rfu_statistics' = rfu_statistics
    <2>1. ASSUME NEW t \in Tags, t # "function", EndElement(t)
          PROVE  rfu_statistics' = rfu_statistics
      BY <2>1 DEF EndElement, Handle, event_endElement_rfu, RfuMethodEnds, RfuMethodTypeEnds,
                  RfuMethodNameEnds, RfuCallNameEnds, RfuEndIgnored
    <2> QED
      BY <2>1
      DEF NothingToReport, StartRoot, StartUnit, StartElement, CharactersUnit, EndRoot, Handle,
          event_startUnit_rfu, event_startElement_rfu, event_charactersUnit_rfu, programVars,
          metricVars, rfuVars
  <1> QED
    BY <1>1, <1>3, <1>4, <1>5, <1>6, <1>7 DEF Reports, Kept, OfFunctions

(* It is shown where it has to be.                                         *)
LEMMA RfuShownStep == RfuShown /\ [RfuNext]_<<vars, rfuVars>> /\ units \in Nat => RfuShown'
  <1> SUFFICES ASSUME RfuShown, [RfuNext]_<<vars, rfuVars>>, units \in Nat PROVE RfuShown'
    OBVIOUS
  <1>1. ASSUME NEW filename \in Filenames, event_startUnit(filename),
               event_startUnit_rfu(filename)
        PROVE  RfuShown'
    BY <1>1 DEF RfuShown, event_startUnit, SaxStartUnit, event_startUnit_rfu, RfuQuiet
  <1>2. ASSUME UNCHANGED <<units, flags>>, rfu_terminated => rfu_terminated',
               phase' \in {"unit", "closed"} => phase \in {"unit", "closed"} \/ units > 0
        PROVE  RfuShown'
    BY <1>2 DEF RfuShown, RfuQuiet
  <1>3. CASE event_startDocument /\ event_startDocument_rfu
    BY <1>2, <1>3 DEF event_startDocument, SaxStartDocument, SaxMove, event_startDocument_rfu
  <1>4. CASE event_startRoot /\ UNCHANGED rfuVars
    BY <1>2, <1>4 DEF event_startRoot, SaxStartRoot, SaxMove, rfuVars
  <1>5. ASSUME NEW t \in Tags, event_startElement(t), event_startElement_rfu(t)
        PROVE  RfuShown'
    BY <1>2, <1>5 DEF event_startElement, SaxStartElement, event_startElement_rfu
  <1>6. ASSUME ~rfu_terminated, NEW t \in Tags, event_endElement(t), event_endElement_rfu(t)
        PROVE  RfuShown'
    BY <1>2, <1>6 DEF event_endElement, SaxEndElement, event_endElement_rfu
  <1>7. ASSUME NEW ch \in Text, event_charactersUnit(ch), event_charactersUnit_rfu(ch)
        PROVE  RfuShown'
    BY <1>2, <1>7 DEF event_charactersUnit, SaxCharacters, event_charactersUnit_rfu
  <1>8. CASE event_endUnit /\ event_endUnit_rfu
    BY <1>2, <1>8 DEF event_endUnit, SaxEndUnit, event_endUnit_rfu
  <1>9. CASE event_endRoot /\ UNCHANGED rfuVars
    BY <1>2, <1>9 DEF event_endRoot, SaxEndRoot, SaxMove, rfuVars
  <1>10. CASE event_endDocument /\ event_endDocument_rfu
    BY <1>2, <1>10 DEF event_endDocument, SaxEndDocument, SaxMove, event_endDocument_rfu
  <1>11. CASE UNCHANGED <<vars, rfuVars>>
    BY <1>2, <1>11 DEF vars, saxVars, rfuVars
  <1> QED
    BY <1>1, <1>3, <1>4, <1>5, <1>6, <1>7, <1>8, <1>9, <1>10, <1>11 DEF RfuNext

(* The maps are empty before the document, and hold rows.                  *)
RowsWellFormed ==
    \A m \in Enabled : RowsIn(Statistics[m]) /\ (phase = "start" => Statistics[m] = <<>>)

(* What a step of the program does to all of them: nothing, or the metrics *)
(* that have something to report insert it at the same time.               *)
MetricsReport ==
    \/ (NothingToReport \/ StartDocument)
       /\ \A m \in Enabled : Kept(m)
    \/ EndElement("function")
       /\ \A m \in Enabled : IF m \in OfFunctions THEN Inserted(m, FnSubject) ELSE Kept(m)
    \/ EndUnit /\ \A m \in Enabled : Inserted(m, UnitSubject)
    \/ EndDocument /\ \A m \in Enabled : Inserted(m, <<>>)

(* Every step is one of these, and the maps keep holding rows.             *)
LEMMA RowsStep ==
    ASSUME IInv, RowsWellFormed, RfuKnows, [MetricsNext]_programVars
    PROVE  RowsWellFormed' /\ MetricsReport
  <1>1. ASSUME UNCHANGED programVars
        PROVE  /\ \A m \in Enabled : Kept(m)
               /\ phase' = phase /\ NothingToReport
    BY <1>1
    DEF programVars, vars, saxVars, metricVars, abcVars, amsVars, hsmVars, mcVars, mndVars,
        npmVars, rfuVars, slocVars, Kept, Statistics, NothingToReport
  <1>2. ASSUME MetricsNext, NEW m \in Enabled PROVE Reports(m)
    <2>1. RowsIn(Statistics[m]) /\ ~rfu_terminated
      BY <1>2 DEF RowsWellFormed, MetricsNext
    <2>2. m \in {"ABC", "AMS", "HSM", "MC", "MND", "NPM", "RFU", "SLOC"}
      BY EnabledAssumption DEF ModelledMetrics
    <2>3. /\ Statistics["ABC"] = abc_statistics /\ Statistics["AMS"] = ams_statistics
          /\ Statistics["HSM"] = hsm_statistics /\ Statistics["MC"] = mc_statistics
          /\ Statistics["MND"] = mnd_statistics /\ Statistics["NPM"] = npm_statistics
          /\ Statistics["RFU"] = rfu_statistics /\ Statistics["SLOC"] = sloc_statistics
      BY DEF Statistics
    <2>4. CASE m \in {"ABC", "AMS", "HSM", "MC"}
      BY <1>2, <2>1, <2>3, <2>4, AbcReports, AmsReports, HsmReports, McReports
    <2>5. CASE m \in {"MND", "NPM", "RFU", "SLOC"}
      BY <1>2, <2>1, <2>3, <2>5, MndReports, NpmReports, RfuReports, SlocReports
    <2> QED
      BY <2>2, <2>4, <2>5
  <1>3. CASE MetricsNext
    <2>1. \/ NothingToReport \/ StartDocument
          \/ EndElement("function") \/ EndUnit \/ EndDocument
      BY <1>3 DEF MetricsNext, NothingToReport
    <2>2. /\ phase' # "start"
          /\ StartDocument => phase = "start"
      BY <1>3
      DEF MetricsNext, StartDocument, StartRoot, StartUnit, StartElement, EndElement,
          CharactersUnit, EndUnit, EndRoot, EndDocument, event_startDocument, event_startRoot,
          event_startUnit, event_startElement, event_endElement, event_charactersUnit,
          event_endUnit, event_endRoot, event_endDocument, SaxStartDocument, SaxStartRoot,
          SaxStartUnit, SaxStartElement, SaxEndElement, SaxCharacters, SaxEndUnit, SaxEndRoot,
          SaxEndDocument, SaxMove
    <2>3. CASE NothingToReport \/ StartDocument
      <3>1. ASSUME NEW m \in Enabled PROVE Kept(m)
        BY <1>2, <1>3, <2>2, <2>3 DEF Reports, RowsWellFormed, Kept
      <3>2. RowsWellFormed'
        BY <2>2, <3>1 DEF RowsWellFormed, Kept
      <3> QED
        BY <2>3, <3>1, <3>2 DEF MetricsReport
    <2>4. CASE EndElement("function")
      <3>1. \A m \in Enabled : IF m \in OfFunctions THEN Inserted(m, FnSubject) ELSE Kept(m)
        BY <1>2, <1>3, <2>4 DEF Reports
      <3>2. RowsWellFormed'
        BY <2>2, <3>1 DEF RowsWellFormed, Inserted, Kept
      <3> QED
        BY <2>4, <3>1, <3>2 DEF MetricsReport
    <2>5. CASE EndUnit
      <3>1. \A m \in Enabled : Inserted(m, UnitSubject)
        BY <1>2, <1>3, <2>5 DEF Reports
      <3>2. RowsWellFormed'
        BY <2>2, <3>1 DEF RowsWellFormed, Inserted
      <3> QED
        BY <2>5, <3>1, <3>2 DEF MetricsReport
    <2>6. CASE EndDocument
      <3>1. \A m \in Enabled : Inserted(m, <<>>)
        BY <1>2, <1>3, <2>6 DEF Reports
      <3>2. RowsWellFormed'
        BY <2>2, <3>1 DEF RowsWellFormed, Inserted
      <3> QED
        BY <2>6, <3>1, <3>2 DEF MetricsReport
    <2> QED
      BY <2>1, <2>3, <2>4, <2>5, <2>6
  <1>4. CASE UNCHANGED programVars
    <2>1. RowsWellFormed'
      BY <1>1, <1>4 DEF RowsWellFormed, Kept
    <2> QED
      BY <1>1, <1>4, <2>1 DEF MetricsReport
  <1> QED
    BY <1>3, <1>4

-----------------------------------------------------------------------------
(* What an event does to the strings.                                      *)

(* The string of a unit is the name of its file, that of a function begins *)
(* with it.                                                                *)
StringsNamed ==
    /\ phase = "unit" =>
          /\ Len(strings[currentUnit_id]) = 1
          /\ strings[currentUnit_id][1] \in Filenames
    /\ currentFn_id # NoId =>
          /\ Len(strings[currentFn_id]) >= 2
          /\ strings[currentFn_id][1] \in Filenames

(* The last string grows inside a name: it is the function's.              *)
LEMMA OneLonger ==
    ASSUME IInv, StringsNamed, function_read_state = 4, NEW piece \in Piece,
           strings' = append_chunk(strings, <<piece>>)
    PROVE  /\ Len(strings'[currentFn_id]) >= 2 /\ strings'[currentFn_id][1] \in Filenames
           /\ strings' \in Strings
  <1>1. /\ strings \in Strings /\ Len(strings) \in 1..Len(strings) /\ strings # <<>>
        /\ currentFn_id = Len(strings) /\ currentFn_id # NoId
    BY DEF IInv, TypeOK, AppendsReachFn, Strings, NoId
  <1>2. /\ strings' \in Strings /\ Len(strings') = Len(strings)
        /\ \A i \in DOMAIN strings : i # Len(strings) => strings'[i] = strings[i]
    <2>1. <<piece>> \in Seq(Piece)
      OBVIOUS
    <2> QED
      BY <1>1, <2>1, AppendChunk
  <1>3. strings'[currentFn_id] = strings[currentFn_id] \o <<piece>>
    BY StringGrows
  <1>4. \A s \in Seq(Piece) : Len(s) >= 2 =>
            Len(s \o <<piece>>) >= 2 /\ (s \o <<piece>>)[1] = s[1]
    OBVIOUS
  <1>5. /\ strings[currentFn_id] \in Seq(Piece)
        /\ Len(strings[currentFn_id]) >= 2 /\ strings[currentFn_id][1] \in Filenames
    BY <1>1 DEF StringsNamed, Strings
  <1>6. Len(strings'[currentFn_id]) >= 2 /\ strings'[currentFn_id][1] \in Filenames
    BY <1>3, <1>4, <1>5
  <1> QED
    BY <1>2, <1>6

(* The first two pieces of a function's string, and of a key.              *)
LEMMA TwoPieces ==
    ASSUME NEW s \in Seq(Piece), NEW p \in Piece
    PROVE  /\ <<p>> \in Seq(Piece)
           /\ Len(s) = 1 => /\ s \o <<p>> \in Seq(Piece) /\ Len(s \o <<p>>) = 2
                           /\ (s \o <<p>>)[1] = s[1]
           /\ \A a \in Piece : <<a, p>> \o s = <<a>> \o (<<p>> \o s)
  <1>1. \A q \in Piece : <<q>> \in Seq(Piece)
    OBVIOUS
  <1>2. ASSUME Len(s) = 1
        PROVE  /\ s \o <<p>> \in Seq(Piece) /\ Len(s \o <<p>>) = 2
               /\ (s \o <<p>>)[1] = s[1]
    <2> DEFINE one == <<p>>
    <2>1. one \in Seq(Piece) /\ Len(one) = 1
      BY <1>1
    <2> HIDE DEF one
    <2>2. s \o one \in Seq(Piece) /\ Len(s \o one) = Len(s) + Len(one)
      BY <2>1
    <2>3. (s \o one)[1] = s[1]
      BY <1>2, <2>1
    <2>4. Len(s \o one) = 2
      BY <1>2, <2>1, <2>2
    <2> QED
      BY <2>2, <2>3, <2>4 DEF one
  <1>3. ASSUME NEW a \in Piece PROVE <<a, p>> \o s = <<a>> \o (<<p>> \o s)
    <2>1. <<a>> \in Seq(Piece) /\ <<p>> \in Seq(Piece)
      BY <1>1
    <2>2. <<a, p>> = <<a>> \o <<p>>
      OBVIOUS
    <2> QED
      BY <2>1, <2>2, ConcatAssociative
  <1> QED
    BY <1>1, <1>2, <1>3

(* A function that starts gets a string of its own, a unit as well.        *)
LEMMA OneMoreString ==
    ASSUME IInv, StringsNamed
    PROVE  /\ \A filename \in Filenames : event_startUnit(filename) =>
                 strings'[currentUnit_id'] = <<filename>>
           /\ \A t \in Tags : SaxStartElement(t) /\ FunctionStarts(t) =>
                 /\ Len(strings'[currentFn_id']) >= 2
                 /\ strings'[currentFn_id'][1] \in Filenames
  <1>1. strings \in Strings
    BY DEF IInv, TypeOK, Strings
  <1>2. ASSUME NEW filename \in Filenames, event_startUnit(filename)
        PROVE  strings'[currentUnit_id'] = <<filename>>
    <2>1. strings' = Append(strings, <<filename>>) /\ currentUnit_id' = Len(strings) + 1
      BY <1>2 DEF event_startUnit, add_chunk
    <2> QED
      BY <1>2, <2>1, StartUnitStep
  <1>3. ASSUME NEW t \in Tags, SaxStartElement(t), FunctionStarts(t)
        PROVE  /\ Len(strings'[currentFn_id']) >= 2
               /\ strings'[currentFn_id'][1] \in Filenames
    <2> DEFINE u == strings[currentUnit_id]
               s == u \o <<"::">>
    <2>1. /\ currentUnit_id \in 1..Len(strings) /\ phase = "unit"
          /\ currentFn_id' = Len(strings) + 1 /\ strings'[Len(strings) + 1] = s
      <3>1. currentUnit_id \in 1..Len(strings) /\ phase = "unit"
        BY <1>1, <1>3 DEF IInv, TypeOK, UnitHasId, SaxStartElement, NoId, Strings
      <3> QED
        BY <1>3, <3>1, StringStarts, Zenon
    <2>2. u \in Seq(Piece) /\ Len(u) = 1 /\ u[1] \in Filenames
      BY <1>1, <2>1 DEF StringsNamed, Strings
    <2>3. "::" \in Piece /\ <<"::">> \in Seq(Piece)
      <3>1. "::" \in Piece
        BY DEF Piece
      <3> QED
        BY <3>1
    <2>4. s \in Seq(Piece) /\ Len(s) = 2 /\ s[1] = u[1]
      <3> HIDE DEF u
      <3> QED
        BY <2>2, <2>3, TwoPieces
    <2> HIDE DEF s
    <2> QED
      BY <2>1, <2>2, <2>4
  <1> QED
    BY <1>2, <1>3

(* The strings of the unit and of the function stay what they are.         *)
LEMMA NamedStep == IInv /\ StringsNamed /\ [Next]_vars => StringsNamed'
  <1> SUFFICES ASSUME IInv, StringsNamed, [Next]_vars PROVE StringsNamed'
    OBVIOUS
  <1> DEFINE UnitNamed == /\ Len(strings[currentUnit_id]) = 1
                          /\ strings[currentUnit_id][1] \in Filenames
             FnNamed == currentFn_id # NoId => /\ Len(strings[currentFn_id]) >= 2
                                               /\ strings[currentFn_id][1] \in Filenames
  <1>1. /\ phase = "unit" /\ phase' = "unit" => UnitNamed'
        /\ function_read_state # 4 /\ UNCHANGED currentFn_id => FnNamed'
    BY NamesKept, Zenon DEF StringsNamed
  <1>2. ASSUME NEW t \in Tags, event_startElement(t) PROVE StringsNamed'
    <2>1. UnitNamed'
      BY <1>1, <1>2 DEF event_startElement, SaxStartElement
    <2>2. CASE FunctionStarts(t)
      BY <1>2, <2>1, <2>2, OneMoreString DEF StringsNamed, event_startElement
    <2>3. CASE strings' = strings /\ currentFn_id' = currentFn_id
      BY <2>1, <2>3 DEF StringsNamed
    <2> QED
      BY <1>2, <2>2, <2>3 DEF event_startElement, TypeStarts, NameStarts, OtherStarts
  <1>3. ASSUME function_read_state = 4, NEW piece \in Piece,
               strings' = append_chunk(strings, <<piece>>), currentFn_id' = currentFn_id
        PROVE  FnNamed'
    BY <1>3, OneLonger
  <1>4. ASSUME NEW t \in Tags, event_endElement(t) PROVE StringsNamed'
    <2>1. UnitNamed'
      BY <1>1, <1>4 DEF event_endElement, SaxEndElement
    <2>2. CASE FunctionEnds(t)
      BY <2>1, <2>2 DEF StringsNamed, FunctionEnds
    <2>3. CASE NameEnds(t)
      <3>1. "()" \in Piece
        BY DEF Piece
      <3> QED
        BY <1>3, <2>1, <2>3, <3>1 DEF StringsNamed, NameEnds
    <2>4. CASE strings' = strings /\ currentFn_id' = currentFn_id
      BY <2>1, <2>4 DEF StringsNamed
    <2> QED
      BY <1>4, <2>2, <2>3, <2>4 DEF event_endElement, TypeEnds, OtherEnds
  <1>5. ASSUME NEW ch \in Text, event_charactersUnit(ch) PROVE StringsNamed'
    <2>1. UnitNamed' /\ ch \in Piece /\ currentFn_id' = currentFn_id
      BY <1>1, <1>5 DEF event_charactersUnit, SaxCharacters, Piece
    <2>2. CASE function_read_state = 4
      BY <1>3, <1>5, <2>1, <2>2 DEF StringsNamed, event_charactersUnit
    <2>3. CASE function_read_state # 4
      BY <1>1, <2>1, <2>3 DEF StringsNamed
    <2> QED
      BY <2>2, <2>3
  <1>6. ASSUME NEW filename \in Filenames, event_startUnit(filename) PROVE StringsNamed'
    <2>1. strings'[currentUnit_id'] = <<filename>>
      BY <1>6, OneMoreString
    <2>2. UnitNamed'
      BY <2>1
    <2>3. FnNamed'
      BY <1>1, <1>6, IdleOutsideUnit DEF event_startUnit, SaxStartUnit
    <2> QED
      BY <2>2, <2>3 DEF StringsNamed
  <1>7. CASE event_endUnit
    <2>1. function_read_state = 0
      <3>1. DOMAIN open = {1} /\ open[1].tag = "unit"
        BY <1>7 DEF event_endUnit, SaxEndUnit, IInv, TypeOK, SaxTypeOK, StreamShape
      <3> QED
        BY <3>1 DEF IInv, ReadingIsOpen
    <2>2. phase' # "unit" /\ currentFn_id' = currentFn_id
      BY <1>7 DEF event_endUnit, SaxEndUnit
    <2> QED
      BY <1>1, <2>1, <2>2 DEF StringsNamed
  <1>8. CASE event_startDocument
    BY <1>8 DEF event_startDocument, SaxStartDocument, SaxMove, StringsNamed
  <1>9. CASE event_startRoot \/ event_endRoot \/ event_endDocument
    <2>1. phase # "unit" /\ phase' # "unit" /\ currentFn_id' = currentFn_id
      BY <1>9
      DEF event_startRoot, event_endRoot, event_endDocument, eventVars, SaxStartRoot, SaxEndRoot,
          SaxEndDocument, SaxMove
    <2> QED
      BY <1>1, <2>1, IdleOutsideUnit DEF StringsNamed
  <1>10. CASE UNCHANGED vars
    BY <1>10 DEF vars, saxVars, eventVars, StringsNamed
  <1> QED
    BY <1>2, <1>4, <1>5, <1>6, <1>7, <1>8, <1>9, <1>10 DEF Next

-----------------------------------------------------------------------------
(* The subjects of the rows, in their order.                               *)

(* The subjects of the rows are strings of pieces.                         *)
LEMMA SubjectsType == IInv => FnSubject \in Seq(Piece) /\ UnitSubject \in Seq(Piece)
  <1> SUFFICES ASSUME IInv PROVE FnSubject \in Seq(Piece) /\ UnitSubject \in Seq(Piece)
    OBVIOUS
  <1>1. strings \in Strings
    BY DEF IInv, TypeOK, Strings
  <1>2. get_chunk(strings, currentFn_id) \in Seq(Piece) /\ get_chunk(strings, currentUnit_id) \in Seq(Piece)
    BY <1>1, GetChunk
  <1>3. <<"_">> \in Seq(Piece)
    <2>1. "_" \in Piece
      BY DEF Piece
    <2> QED
      BY <1>2, <2>1, TwoPieces
  <1>4. \A p, q \in Seq(Piece) : p \o q \in Seq(Piece)
    OBVIOUS
  <1> QED
    BY <1>2, <1>3, <1>4, Zenon DEF FnSubject, UnitSubject

SubjectsOf(m, keys) ==
    LET own == Among(Under({Last(RowNames[m])}), keys) IN [i \in DOMAIN own |-> Tail(own[i])]

Short == {subject \in Seq(Piece) : Len(subject) < 3}

(* A metric that inserts rows has one subject more.                        *)
LEMMA OneMoreSubject ==
    ASSUME NEW keys \in Strings, NEW subject \in Seq(Piece), NEW m \in ModelledMetrics
    PROVE  /\ SubjectsOf(m, keys) \in Strings
           /\ keys \o KeysFor(RowNames[m], subject) \in Strings
           /\ SubjectsOf(m, keys \o KeysFor(RowNames[m], subject)) =
                  Append(SubjectsOf(m, keys), subject)
           /\ OfUnits(Append(SubjectsOf(m, keys), subject)) =
                  IF Len(subject) < 3 THEN Append(OfUnits(SubjectsOf(m, keys)), subject)
                  ELSE OfUnits(SubjectsOf(m, keys))
  <1> DEFINE set == Under({Last(RowNames[m])})
             more == KeysFor(RowNames[m], subject)
             key == <<Last(RowNames[m])>> \o subject
             S == Seq(Piece)
             a == Among(set, keys)
             b == Among(set, keys \o more)
             sa == [i \in DOMAIN a |-> Tail(a[i])]
             sb == [i \in DOMAIN b |-> Tail(b[i])]
  <1>1. /\ key \in S /\ Tail(key) = subject
        /\ Among(set, more) = <<key>>
    BY KeyOfSubject
  <1>2. keys \in Seq(S) /\ more \in Seq(S)
    <2>1. RowNames[m] \in Seq(Piece)
      BY NamesOfRows
    <2> QED
      BY <2>1, KeysForType DEF Strings
  <1>3. SubjectsOf(m, keys) = sa /\ SubjectsOf(m, keys \o more) = sb
    BY DEF SubjectsOf
  <1>4. \A s \in S \cap set : Tail(s) \in S
    <2>1. \A s \in S \cap set : s \in Seq(Piece) /\ s # <<>>
      BY DEF Under
    <2>2. \A s \in Seq(Piece) : s # <<>> => Tail(s) \in Seq(Piece)
      OBVIOUS
    <2> QED
      BY <2>1, <2>2
  <1> HIDE DEF set, more, key
  <1>5. a \in Seq(S \cap set) /\ b = a \o <<key>>
    <2> HIDE DEF S
    <2>1. a \in Seq(S \cap set)
      BY <1>2, AmongType
    <2>2. b = Among(set, keys) \o Among(set, more)
      BY <1>2, AmongConcat
    <2> QED
      BY <1>1, <2>1, <2>2
  <1>6. keys \o more \in Seq(S)
    <2> HIDE DEF S
    <2> QED
      BY <1>2
  <1> HIDE DEF a, b
  <1>7. /\ Len(a) \in Nat /\ DOMAIN a = 1..Len(a) /\ \A i \in 1..Len(a) : a[i] \in S \cap set
        /\ DOMAIN b = 1..(Len(a) + 1) /\ b[Len(a) + 1] = key
        /\ \A i \in 1..Len(a) : b[i] = a[i]
    <2> DEFINE A == S \cap set
               B == A \cup {key}
               one == <<key>>
    <2>1. a \in Seq(A) /\ key \in B
      BY <1>5
    <2> HIDE DEF A
    <2>2. a \in Seq(B)
      <3>1. A \subseteq B
        OBVIOUS
      <3> QED
        BY <2>1, <3>1, SeqMonotonic
    <2>3. Len(a) \in Nat /\ DOMAIN a = 1..Len(a) /\ \A i \in 1..Len(a) : a[i] \in A
      BY <2>1
    <2>4. b = Append(a, key)
      <3> HIDE DEF B, key
      <3> QED
        BY <1>5, <2>1, <2>2, AppendIsConcat
    <2> HIDE DEF B
    <2>5. /\ Len(b) = Len(a) + 1 /\ b \in Seq(B) /\ b[Len(a) + 1] = key
          /\ \A i \in 1..Len(a) : b[i] = a[i]
      BY <2>1, <2>2, <2>4
    <2>6. DOMAIN b = 1..(Len(a) + 1)
      BY <2>5
    <2> QED
      BY <2>3, <2>5, <2>6 DEF A
  <1>8. sa \in Seq(S) /\ Len(sa) = Len(a)
    <2>1. \A i \in 1..Len(a) : sa[i] \in S
      BY <1>4, <1>7
    <2> HIDE DEF S
    <2> QED
      BY <1>7, <2>1
  <1>9. sb = Append(sa, subject)
    <2>1. /\ \A i \in 1..Len(a) : sb[i] = sa[i]
          /\ sb[Len(a) + 1] = subject
      BY <1>1, <1>7
    <2>2. sb = [i \in 1..(Len(a) + 1) |-> sb[i]]
      BY <1>7
    <2>3. subject \in S
      OBVIOUS
    <2> DEFINE n == Len(a)
    <2>4. n \in Nat /\ Len(sa) = n /\ sa \in Seq(S)
      BY <1>7, <1>8
    <2> HIDE DEF S, sa, sb, n
    <2>5. sb \in Seq(S) /\ Len(sb) = n + 1
      <3>1. \A i \in 1..(n + 1) : sb[i] \in S
        BY <2>1, <2>3, <2>4 DEF n
      <3> QED
        BY <2>2, <2>4, <3>1 DEF n
    <2> QED
      BY <2>1, <2>3, <2>4, <2>5 DEF n
  <1>10. OfUnits(Append(sa, subject)) =
             IF Len(subject) < 3 THEN Append(OfUnits(sa), subject) ELSE OfUnits(sa)
    <2>1. \A s : OfUnits(s) = Among(Short, s)
      BY DEF OfUnits, Short
    <2>2. subject \in Short <=> Len(subject) < 3
      BY DEF Short
    <2> HIDE DEF sa
    <2>3. Among(Short, Append(sa, subject)) =
              IF subject \in Short THEN Append(Among(Short, sa), subject) ELSE Among(Short, sa)
      BY <1>8, AmongAppend
    <2> QED
      BY <2>1, <2>2, <2>3
  <1> QED
    BY <1>3, <1>6, <1>8, <1>9, <1>10 DEF Strings, more

KeysTyped == \A m \in Enabled : Keys(m) \in Strings

(* One piece more in front.                                                *)
LEMMA OnePieceMore ==
    ASSUME NEW s \in Seq(Piece), NEW p \in Piece
    PROVE  /\ <<p>> \o s \in Seq(Piece)
           /\ Len(<<p>> \o s) = 1 + Len(s) /\ Len(s) \in Nat
  <1> DEFINE one == <<p>>
  <1>1. one \in Seq(Piece) /\ Len(one) = 1
    <2>1. one \in Seq(Piece)
      BY TwoPieces
    <2> QED
      BY <2>1
  <1> HIDE DEF one
  <1>2. \A q, r \in Seq(Piece) :
            q \o r \in Seq(Piece) /\ Len(q \o r) = Len(q) + Len(r) /\ Len(r) \in Nat
    OBVIOUS
  <1>3. one \o s \in Seq(Piece) /\ Len(one \o s) = Len(one) + Len(s) /\ Len(s) \in Nat
    BY <1>1, <1>2
  <1> QED
    BY <1>1, <1>3 DEF one

(* A function that ends is current, and its row is not a unit's; that of a *)
(* unit is.                                                                *)
LEMMA SubjectLengths ==
    ASSUME IInv, StringsNamed, FnIsCurrent
    PROVE  /\ SaxEndElement("function") => Len(FnSubject) \in Nat /\ ~(Len(FnSubject) < 3)
           /\ SaxEndUnit => Len(UnitSubject) = 2
  <1>1. strings \in Strings /\ DOMAIN strings = 1..Len(strings)
        /\ currentUnit_id \in 0..Len(strings) /\ currentFn_id \in 0..Len(strings)
    BY DEF IInv, TypeOK, Strings
  <1>2. ASSUME NEW s \in Seq(Piece)
        PROVE  Len(<<"_">> \o s) = 1 + Len(s) /\ Len(s) \in Nat
    <2>1. "_" \in Piece
      BY DEF Piece
    <2> QED
      BY <2>1, OnePieceMore
  <1>3. ASSUME SaxEndElement("function")
        PROVE  Len(FnSubject) \in Nat /\ ~(Len(FnSubject) < 3)
    <2>1. phase = "unit" /\ Top.tag = "function" /\ Len(open) > 1
      BY <1>3 DEF SaxEndElement
    <2>2. "function" \in OpenTags
      <3>1. Len(open) \in DOMAIN open
        BY <2>1 DEF IInv, TypeOK, SaxTypeOK
      <3> QED
        BY <2>1, <3>1 DEF OpenTags, Top
    <2>3. currentFn_id # NoId /\ currentFn_id \in DOMAIN strings
      BY <1>1, <2>2 DEF FnIsCurrent, NoId
    <2>4. get_chunk(strings, currentFn_id) = strings[currentFn_id]
      BY <2>3 DEF get_chunk
    <2>5. strings[currentFn_id] \in Seq(Piece) /\ Len(strings[currentFn_id]) >= 2
      BY <1>1, <2>3 DEF StringsNamed, Strings
    <2>6. Len(FnSubject) = 1 + Len(strings[currentFn_id]) /\ Len(strings[currentFn_id]) \in Nat
      BY <1>2, <2>4, <2>5 DEF FnSubject
    <2> QED
      BY <2>5, <2>6
  <1>4. ASSUME SaxEndUnit PROVE Len(UnitSubject) = 2
    <2>1. phase = "unit"
      BY <1>4 DEF SaxEndUnit
    <2>2. currentUnit_id \in DOMAIN strings
      BY <1>1, <2>1 DEF IInv, UnitHasId, NoId
    <2>3. get_chunk(strings, currentUnit_id) = strings[currentUnit_id]
      BY <2>2 DEF get_chunk
    <2>4. strings[currentUnit_id] \in Seq(Piece) /\ Len(strings[currentUnit_id]) = 1
      BY <1>1, <2>1, <2>2 DEF StringsNamed, Strings
    <2>5. Len(UnitSubject) = 1 + Len(strings[currentUnit_id])
      BY <1>2, <2>3, <2>4 DEF UnitSubject
    <2> QED
      BY <2>4, <2>5
  <1> QED
    BY <1>3, <1>4

(* The metrics get the same subjects in the same steps.                    *)
LEMMA SubjectsStep ==
    ASSUME IInv, StringsNamed, FnIsCurrent, KeysTyped, SubjectsAgree, MetricsReport
    PROVE  KeysTyped' /\ SubjectsAgree'
  <1>1. \A m, n \in Enabled :
           /\ m \in OfFunctions /\ n \in OfFunctions => Subjects(m) = Subjects(n)
           /\ OfUnits(Subjects(m)) = OfUnits(Subjects(n))
    BY DEF SubjectsAgree, OfFunctions
  <1>2. ASSUME \A m \in Enabled : Keys(m)' \in Strings,
               \A m, n \in Enabled :
                  /\ m \in OfFunctions /\ n \in OfFunctions => Subjects(m)' = Subjects(n)'
                  /\ OfUnits(Subjects(m)') = OfUnits(Subjects(n)')
        PROVE  KeysTyped' /\ SubjectsAgree'
    BY <1>2 DEF KeysTyped, SubjectsAgree, OfFunctions
  <1>3. ASSUME NEW m \in Enabled, Kept(m)
        PROVE  Keys(m)' \in Strings /\ Subjects(m)' = Subjects(m)
    BY <1>3 DEF Kept, Keys, Subjects, KeysTyped
  <1>4. ASSUME NEW m \in Enabled, NEW subject \in Seq(Piece), Inserted(m, subject)
        PROVE  /\ Keys(m)' \in Strings /\ Subjects(m)' = Append(Subjects(m), subject)
               /\ OfUnits(Subjects(m)') =
                      IF Len(subject) < 3 THEN Append(OfUnits(Subjects(m)), subject)
                      ELSE OfUnits(Subjects(m))
    <2> DEFINE keys == Keys(m)
               new == keys \o KeysFor(RowNames[m], subject)
    <2>1. m \in ModelledMetrics /\ keys \in Strings /\ Keys(m)' = new
      BY <1>4, EnabledAssumption DEF KeysTyped, Inserted
    <2>2. Subjects(m) = SubjectsOf(m, keys) /\ Subjects(m)' = SubjectsOf(m, Keys(m)')
      BY DEF Subjects, SubjectsOf
    <2> HIDE DEF keys
    <2>3. /\ new \in Strings
          /\ SubjectsOf(m, new) = Append(SubjectsOf(m, keys), subject)
          /\ OfUnits(Append(SubjectsOf(m, keys), subject)) =
                 IF Len(subject) < 3 THEN Append(OfUnits(SubjectsOf(m, keys)), subject)
                 ELSE OfUnits(SubjectsOf(m, keys))
      BY <2>1, OneMoreSubject
    <2> HIDE DEF new
    <2> QED
      BY <2>1, <2>2, <2>3
  <1>5. FnSubject \in Seq(Piece) /\ UnitSubject \in Seq(Piece) /\ <<>> \in Seq(Piece)
    BY SubjectsType
  <1>6. CASE (NothingToReport \/ StartDocument) /\ \A n \in Enabled : Kept(n)
    BY <1>1, <1>2, <1>3, <1>6
  <1>7. CASE /\ EndElement("function")
             /\ \A n \in Enabled : IF n \in OfFunctions THEN Inserted(n, FnSubject) ELSE Kept(n)
    <2> DEFINE x == FnSubject
    <2>1. x \in Seq(Piece) /\ ~(Len(x) < 3)
      BY <1>5, <1>7, SubjectLengths DEF EndElement, event_endElement
    <2> HIDE DEF x
    <2>2. ASSUME NEW m \in Enabled
          PROVE  /\ Keys(m)' \in Strings /\ OfUnits(Subjects(m)') = OfUnits(Subjects(m))
                 /\ m \in OfFunctions => Subjects(m)' = Append(Subjects(m), x)
      <3>1. CASE m \in OfFunctions
        <4>1. Inserted(m, x)
          BY <1>7, <3>1 DEF x
        <4> QED
          BY <1>4, <2>1, <4>1
      <3>2. CASE m \notin OfFunctions
        <4>1. Kept(m)
          BY <1>7, <3>2
        <4> QED
          BY <1>3, <3>2, <4>1
      <3> QED
        BY <3>1, <3>2
    <2> QED
      BY <1>1, <1>2, <2>2
  <1>8. ASSUME NEW x \in Seq(Piece), Len(x) < 3, \A n \in Enabled : Inserted(n, x)
        PROVE  KeysTyped' /\ SubjectsAgree'
    <2>1. ASSUME NEW m \in Enabled
          PROVE  /\ Keys(m)' \in Strings /\ Subjects(m)' = Append(Subjects(m), x)
                 /\ OfUnits(Subjects(m)') = Append(OfUnits(Subjects(m)), x)
      BY <1>4, <1>8
    <2> QED
      BY <1>1, <1>2, <2>1
  <1>9. CASE EndUnit /\ \A n \in Enabled : Inserted(n, UnitSubject)
    <2>1. Len(UnitSubject) = 2
      BY <1>9, SubjectLengths, Zenon DEF EndUnit, event_endUnit
    <2>2. Len(UnitSubject) < 3
      BY <2>1
    <2> QED
      BY <1>5, <1>8, <1>9, <2>2, Zenon
  <1>10. CASE EndDocument /\ \A n \in Enabled : Inserted(n, <<>>)
    <2>1. Len(<<>>) < 3
      OBVIOUS
    <2> QED
      BY <1>5, <1>8, <1>10, <2>1
  <1> QED
    BY <1>6, <1>7, <1>9, <1>10 DEF MetricsReport

(* Before the first event there is nothing.                                *)
LEMMA NothingYet ==
    MetricsInit => /\ RowsWellFormed /\ StringsNamed /\ FnIsCurrent
                   /\ KeysTyped /\ SubjectsAgree
  <1> SUFFICES ASSUME MetricsInit
               PROVE  /\ RowsWellFormed /\ StringsNamed /\ FnIsCurrent
                      /\ KeysTyped /\ SubjectsAgree
    OBVIOUS
  <1>1. \A m \in Enabled : Statistics[m] = <<>>
    <2>1. \A m \in Enabled : m \in {"ABC", "AMS", "HSM", "MC", "MND", "NPM", "RFU", "SLOC"}
      BY EnabledAssumption DEF ModelledMetrics
    <2> QED
      BY <2>1
      DEF MetricsInit, AbcInit, AmsInit, HsmInit, McInit, MndInit, NpmInit, RfuInit, SlocInit,
          Statistics
  <1>2. \A m \in Enabled : Keys(m) = <<>>
    <2>1. ASSUME NEW m \in Enabled PROVE Keys(m) = [i \in DOMAIN <<>> |-> Statistics[m][i].key]
      BY <1>1 DEF Keys
    <2>2. \A m : [i \in DOMAIN <<>> |-> Statistics[m][i].key] = <<>>
      OBVIOUS
    <2> QED
      BY <2>1, <2>2
  <1>3. RowsWellFormed
    <2>1. <<>> \in Seq(Range(<<>>))
      OBVIOUS
    <2> QED
      BY <1>1, <2>1 DEF RowsWellFormed, RowsIn
  <1>5. StringsNamed /\ FnIsCurrent
    BY DEF MetricsInit, Init, SaxInit, StringsNamed, FnIsCurrent, OpenTags
  <1>6. KeysTyped
    <2>1. <<>> \in Strings
      BY DEF Strings
    <2> QED
      BY <1>2, <2>1 DEF KeysTyped
  <1>7. SubjectsAgree
    <2> DEFINE none == [i \in DOMAIN <<>> |-> Tail(<<>>[i])]
    <2>1. \A m \in Enabled : Subjects(m) = none
      BY <1>2, AmongEmpty DEF Subjects
    <2> QED
      BY <2>1 DEF SubjectsAgree
  <1> QED
    BY <1>3, <1>5, <1>6, <1>7

-----------------------------------------------------------------------------
(* The theorems on rows.                                                   *)

(* RFU reads names by itself: where it is enabled, functions and calls are *)
(* written as in C.                                                        *)
CallsAndFunctionsNamed == "RFU" \in Enabled => FunctionsAreNamed /\ CallsAreNamed

RfuReadable == "RFU" \in Enabled => OneFunction /\ TypesApart /\ FunctionsOutsideNames

(* What is known of RFU there, at every moment.                            *)
LEMMA RfuKnowledge == CallsAndFunctionsNamed /\ MetricsSpec /\ []RfuReadable => []RfuKnows
  <1>1. SUFFICES ASSUME CallsAndFunctionsNamed PROVE MetricsSpec /\ []RfuReadable => []RfuKnows
    OBVIOUS
  <1>2. CASE "RFU" \notin Enabled
    <2>1. RfuKnows
      BY <1>2 DEF RfuKnows
    <2> QED
      BY <2>1, PTL
  <1>3. CASE "RFU" \in Enabled
    <2>1. FunctionsAreNamed /\ CallsAreNamed
      BY <1>1, <1>3 DEF CallsAndFunctionsNamed
    <2>2. RfuReadable => OneFunction /\ TypesApart /\ FunctionsOutsideNames
      BY <1>3 DEF RfuReadable
    <2>3. MetricsSpec => RfuSpec /\ Spec
      BY <1>3, ProgramRunsRfu, ProgramRunsDispatcher
    <2>4. Spec /\ []OneFunction /\ []TypesApart => []NameIInv
      BY <2>1, NameInvariance
    <2>5. RfuSpec /\ []OneFunction /\ []FunctionsOutsideNames => []ReaderIInv
      BY <2>1, ReadersInvariance
    <2>6. RfuSystemInit => RfuShown
      BY DEF RfuSystemInit, Init, SaxInit, RfuShown
    <2>7. IInv => units \in Nat
      BY DEF IInv, TypeOK, SaxTypeOK
    <2>8. OneFunction /\ TypesApart /\ NameIInv /\ RfuIInv /\ ReaderIInv /\ RfuShown => RfuKnows
      BY <2>1 DEF RfuKnows
    <2> QED
      BY <2>2, <2>3, <2>4, <2>5, <2>6, <2>7, <2>8, Invariance, RfuInvariance, RfuShownStep, PTL
      DEF RfuSpec
  <1> QED
    BY <1>2, <1>3

(* The metrics that are enabled report the same functions between the same *)
(* units, each once and in the order in which they ended, if no function   *)
(* is inside another.                                                      *)
THEOREM SameSubjects ==
    CallsAndFunctionsNamed /\ MetricsSpec /\ []OneFunction /\ []RfuReadable => []SubjectsAgree
  <1>1. SUFFICES ASSUME CallsAndFunctionsNamed
                 PROVE  MetricsSpec /\ []OneFunction /\ []RfuReadable => []SubjectsAgree
    OBVIOUS
  <1>2. MetricsSpec /\ []RfuReadable => []IInv /\ []RfuKnows
    BY <1>1, ProgramRunsDispatcher, Invariance, RfuKnowledge, PTL
  <1>3. MetricsInit =>
            RowsWellFormed /\ StringsNamed /\ FnIsCurrent /\ KeysTyped /\ SubjectsAgree
    BY NothingYet
  <1>4. /\ IInv /\ FnIsCurrent /\ OneFunction /\ OneFunction' /\ [MetricsNext]_programVars
        => FnIsCurrent'
    BY DispatcherSteps, FnIsCurrentStep DEF IInv, TypeOK, Strings
  <1>5. /\ IInv /\ RfuKnows /\ RowsWellFormed /\ StringsNamed /\ FnIsCurrent /\ KeysTyped
        /\ SubjectsAgree /\ [MetricsNext]_programVars
        => RowsWellFormed' /\ StringsNamed' /\ KeysTyped' /\ SubjectsAgree'
    BY DispatcherSteps, NamedStep, RowsStep, SubjectsStep
  <1> QED
    BY <1>2, <1>3, <1>4, <1>5, PTL DEF MetricsSpec

-----------------------------------------------------------------------------
(* The averages of AMS: the sums of its arrays.                            *)

SumUpTo(list, count) ==
    LET sum[n \in 0..count] == IF n = 0 THEN 0 ELSE sum[n - 1] + list[n] IN sum

(* One cell more. *)
SumStep(list, count) == [p \in (1..count) \X Int |-> p[2] + list[p[1]]]

(* What the loop over the array computes, cell by cell.                    *)
LEMMA SumIs ==
    ASSUME NEW list \in Seq(Int), NEW count \in Nat, count <= Len(list)
    PROVE  /\ MsSum(list, count) = SumUpTo(list, count)[count]
           /\ SumStep(list, count) \in [(1..count) \X Int -> Int]
           /\ Carries(SumUpTo(list, count), count, Int, 0, SumStep(list, count))
  <1> DEFINE g == SumStep(list, count)
             u == SumUpTo(list, count)
             Def(f) == f = [n \in 0..count |-> IF n = 0 THEN 0 ELSE f[n - 1] + list[n]]
  <1>1. \A k \in 1..count : list[k] \in Int
    OBVIOUS
  <1>2. g \in [(1..count) \X Int -> Int]
    BY <1>1 DEF SumStep
  <1>3. \A k \in 1..count, s \in Int : g[<<k, s>>] = s + list[k]
    BY DEF SumStep
  <1> HIDE DEF g
  <1>4. PICK f : Carries(f, count, Int, 0, g)
    <2>1. 0 \in Int
      OBVIOUS
    <2> QED
      BY <1>2, <2>1, Carried
  <1>5. Def(f)
    <2>1. f \in [0..count -> Int] /\ f[0] = 0
      BY <1>4 DEF Carries
    <2>2. ASSUME NEW k \in 0..count PROVE f[k] = IF k = 0 THEN 0 ELSE f[k - 1] + list[k]
      <3>1. CASE k = 0
        BY <2>1, <3>1
      <3>2. CASE k # 0
        <4>1. k \in 1..count /\ f[k - 1] \in Int
          BY <2>1, <3>2
        <4>2. f[k] = g[<<k, f[k - 1]>>]
          BY <1>4, <4>1 DEF Carries
        <4> QED
          BY <1>3, <3>2, <4>1, <4>2
      <3> QED
        BY <3>1, <3>2
    <2> QED
      BY <2>1, <2>2
  <1>6. u = CHOOSE h : Def(h)
    BY DEF SumUpTo
  <1>7. Def(u)
    <2> HIDE DEF Def, u
    <2> QED
      BY <1>5, <1>6
  <1>8. /\ u = [n \in 0..count |-> u[n]] /\ u[0] = 0
        /\ \A n \in 1..count : u[n] = u[n - 1] + list[n]
    <2> HIDE DEF u
    <2>1. 0 \in 0..count /\ \A n \in 1..count : n \in 0..count /\ n # 0
      OBVIOUS
    <2>2. u = [n \in 0..count |-> u[n]]
      BY <1>7
    <2>3. u[0] = 0
      BY <1>7, <2>1
    <2>4. \A n \in 1..count : u[n] = u[n - 1] + list[n]
      BY <1>7, <2>1
    <2> QED
      BY <2>2, <2>3, <2>4
  <1>9. Carries(u, count, Int, 0, g)
    <2> HIDE DEF u
    <2>1. \A i \in 1..count : u[i - 1] \in Int => u[i] = g[<<i, u[i - 1]>>]
      BY <1>3, <1>8
    <2>2. 0 \in Int
      OBVIOUS
    <2> QED
      BY <1>2, <1>8, <2>1, <2>2, CarriesIt
  <1>10. MsSum(list, count) = u[count]
    BY DEF MsSum, SumUpTo
  <1> QED
    BY <1>2, <1>9, <1>10 DEF g

(* An array that differs only beyond the cells that were summed has their  *)
(* sum, and one cell more adds its size.                                   *)
LEMMA SumMore ==
    ASSUME NEW list \in Seq(Int), NEW more \in Seq(Int), NEW n \in Nat, n <= Len(list),
           n <= Len(more), \A i \in 1..n : more[i] = list[i]
    PROVE  /\ MsSum(list, 0) = 0
           /\ MsSum(more, n) = MsSum(list, n)
           /\ n + 1 <= Len(more) => MsSum(more, n + 1) = MsSum(list, n) + more[n + 1]
  <1>1. MsSum(list, 0) = 0
    <2>1. 0 \in Nat /\ 0 <= Len(list)
      OBVIOUS
    <2>2. /\ MsSum(list, 0) = SumUpTo(list, 0)[0]
          /\ Carries(SumUpTo(list, 0), 0, Int, 0, SumStep(list, 0))
      BY <2>1, SumIs
    <2> QED
      BY <2>2 DEF Carries
  <1>2. ASSUME NEW m \in Nat, n <= m, m <= Len(more)
        PROVE  SumUpTo(more, m)[n] = MsSum(list, n)
    <2>1. \A i \in 1..n, s \in Int : SumStep(more, m)[<<i, s>>] = SumStep(list, n)[<<i, s>>]
      <3>1. \A i \in 1..n : i \in 1..m /\ more[i] = list[i]
        BY <1>2
      <3> QED
        BY <3>1 DEF SumStep
    <2>2. Carries(SumUpTo(more, m), m, Int, 0, SumStep(more, m))
      BY <1>2, SumIs
    <2>3. /\ Carries(SumUpTo(list, n), n, Int, 0, SumStep(list, n))
          /\ MsSum(list, n) = SumUpTo(list, n)[n]
      BY SumIs
    <2>4. n <= n
      OBVIOUS
    <2>5. SumUpTo(more, m)[n] = SumUpTo(list, n)[n]
      BY <1>2, <2>1, <2>2, <2>3, <2>4, CarriedAlike
    <2> QED
      BY <2>3, <2>5
  <1>3. MsSum(more, n) = MsSum(list, n)
    <2>1. SumUpTo(more, n)[n] = MsSum(list, n)
      BY <1>2
    <2> QED
      BY <2>1, SumIs
  <1>4. ASSUME n + 1 <= Len(more)
        PROVE  MsSum(more, n + 1) = MsSum(list, n) + more[n + 1]
    <2> DEFINE m == n + 1
    <2>1. m \in Nat /\ n <= m /\ m <= Len(more) /\ m \in 1..m /\ m - 1 = n
      BY <1>4
    <2>2. \A s \in Int : SumStep(more, m)[<<m, s>>] = s + more[m]
      BY <2>1 DEF SumStep
    <2> HIDE DEF m
    <2>3. SumUpTo(more, m)[n] = MsSum(list, n)
      BY <1>2, <2>1
    <2>4. /\ MsSum(more, m) = SumUpTo(more, m)[m]
          /\ Carries(SumUpTo(more, m), m, Int, 0, SumStep(more, m))
      BY <2>1, SumIs
    <2>5. /\ SumUpTo(more, m)[m] = SumStep(more, m)[<<m, SumUpTo(more, m)[m - 1]>>]
          /\ SumUpTo(more, m)[n] \in Int
      BY <2>1, <2>4 DEF Carries
    <2>6. MsSum(more, m) = SumUpTo(more, m)[n] + more[m]
      BY <2>1, <2>2, <2>4, <2>5
    <2> QED
      BY <2>3, <2>6 DEF m
  <1> QED
    BY <1>1, <1>3, <1>4

-----------------------------------------------------------------------------
(* The rows of SLOC: what reading one after another finds.                 *)

SlocRows == [key : Seq(Piece), value : Int]
Tallies  == [sum : Int, count : Int]
Readings == [unit : Tallies, document : Tallies, averages : Seq(Tallies)]

(* Reading is typed.                                                       *)
LEMMA ReadRowType ==
    ASSUME NEW r \in Readings, NEW row \in SlocRows
    PROVE  ReadRow(r, row) \in Readings
  <1>1. /\ r.unit \in Tallies /\ r.document \in Tallies /\ r.averages \in Seq(Tallies)
        /\ row.value \in Int
    BY DEF Readings, SlocRows
  <1>2. ASSUME NEW tally \in Tallies PROVE WithFunction(tally, row) \in Tallies
    BY <1>1 DEF WithFunction, Tallies
  <1>3. NoFunctions \in Tallies
    BY DEF NoFunctions, Tallies
  <1>4. ASSUME NEW tally \in Tallies PROVE Append(r.averages, tally) \in Seq(Tallies)
    <2> HIDE DEF Tallies
    <2> QED
      BY <1>1
  <1> DEFINE F == WithFunction(r.unit, row)
             D == WithFunction(r.document, row)
  <1>5. F \in Tallies /\ D \in Tallies
    BY <1>1, <1>2
  <1> HIDE DEF F, D
  <1>6. ReadRow(r, row) =
            IF Len(row.key) > 3
            THEN [unit |-> F, document |-> D, averages |-> r.averages]
            ELSE IF Len(row.key) = 3
            THEN [unit |-> NoFunctions, document |-> r.document,
                  averages |-> Append(r.averages, r.unit)]
            ELSE [unit |-> r.unit, document |-> r.document,
                  averages |-> Append(r.averages, r.document)]
    BY DEF ReadRow, F, D
  <1> QED
    BY <1>1, <1>3, <1>4, <1>5, <1>6 DEF Readings

ReadUpTo(rows) ==
    LET read[i \in 0..Len(rows)] ==
            IF i = 0 THEN NothingRead ELSE ReadRow(read[i - 1], rows[i])
    IN  read

(* One row more. *)
ReadStep(rows) == [p \in (1..Len(rows)) \X Readings |-> ReadRow(p[2], rows[p[1]])]

(* What the reading finds, row by row.                                     *)
LEMMA ReadIs ==
    ASSUME NEW rows \in Seq(SlocRows)
    PROVE  /\ RowsRead(rows) = ReadUpTo(rows)[Len(rows)]
           /\ Carries(ReadUpTo(rows), Len(rows), Readings, NothingRead, ReadStep(rows))
  <1> DEFINE n == Len(rows)
             g == ReadStep(rows)
             u == ReadUpTo(rows)
             Def(f) == f = [i \in 0..n |-> IF i = 0 THEN NothingRead
                                           ELSE ReadRow(f[i - 1], rows[i])]
  <1>1. n \in Nat /\ \A k \in 1..n : rows[k] \in SlocRows
    OBVIOUS
  <1>2. NothingRead \in Readings
    BY DEF NothingRead, NoFunctions, Readings, Tallies
  <1>3. \A k \in 1..n, r \in Readings : g[<<k, r>>] = ReadRow(r, rows[k])
    BY DEF ReadStep
  <1>4. g \in [(1..n) \X Readings -> Readings]
    <2>1. \A k \in 1..n, r \in Readings : ReadRow(r, rows[k]) \in Readings
      BY <1>1, ReadRowType
    <2>2. \A p \in (1..n) \X Readings : ReadRow(p[2], rows[p[1]]) \in Readings
      <3> HIDE DEF n
      <3> QED
        BY <2>1
    <2> QED
      BY <2>2 DEF ReadStep
  <1> HIDE DEF g
  <1>5. PICK f : Carries(f, n, Readings, NothingRead, g)
    <2> HIDE DEF n
    <2> QED
      BY <1>1, <1>2, <1>4, Carried
  <1>6. Def(f)
    <2> HIDE DEF n
    <2>1. f \in [0..n -> Readings] /\ f[0] = NothingRead
      BY <1>5 DEF Carries
    <2>2. ASSUME NEW k \in 0..n
          PROVE  f[k] = IF k = 0 THEN NothingRead ELSE ReadRow(f[k - 1], rows[k])
      <3>1. CASE k = 0
        BY <2>1, <3>1
      <3>2. CASE k # 0
        <4>1. k \in 1..n /\ k - 1 \in 0..n
          BY <1>1, <3>2
        <4>2. f[k - 1] \in Readings
          BY <2>1, <4>1
        <4>3. f[k] = g[<<k, f[k - 1]>>]
          BY <1>5, <4>1 DEF Carries
        <4> QED
          BY <1>3, <3>2, <4>1, <4>2, <4>3
      <3> QED
        BY <3>1, <3>2
    <2> QED
      BY <2>1, <2>2
  <1>7. u = CHOOSE h : Def(h)
    BY DEF ReadUpTo
  <1>8. Def(u)
    <2> HIDE DEF Def, u
    <2> QED
      BY <1>6, <1>7
  <1>9. /\ u = [i \in 0..n |-> u[i]] /\ u[0] = NothingRead
        /\ \A k \in 1..n : u[k] = ReadRow(u[k - 1], rows[k])
    <2>0. Def(u)
      BY <1>8
    <2> HIDE DEF u, n
    <2>1. 0 \in 0..n /\ \A k \in 1..n : k \in 0..n /\ k # 0
      BY <1>1
    <2>2. u = [i \in 0..n |-> u[i]]
      BY <2>0
    <2>3. u[0] = NothingRead
      BY <2>0, <2>1
    <2>4. \A k \in 1..n : u[k] = ReadRow(u[k - 1], rows[k])
      BY <2>0, <2>1
    <2> QED
      BY <2>2, <2>3, <2>4
  <1>10. Carries(u, n, Readings, NothingRead, g)
    <2>1. \A k \in 1..n : u[k - 1] \in Readings => u[k] = g[<<k, u[k - 1]>>]
      BY <1>3, <1>9
    <2> HIDE DEF u, n
    <2> QED
      BY <1>1, <1>2, <1>4, <1>9, <2>1, CarriesIt
  <1>11. RowsRead(rows) = u[n]
    BY DEF RowsRead, ReadUpTo
  <1> QED
    BY <1>10, <1>11 DEF g

(* The next row is read after those before it.                             *)
LEMMA ReadMore ==
    ASSUME NEW rows \in Seq(SlocRows), NEW row \in SlocRows
    PROVE  /\ RowsRead(Append(rows, row)) = ReadRow(RowsRead(rows), row)
           /\ RowsRead(rows) \in Readings
  <1> DEFINE more == Append(rows, row)
             n == Len(rows)
             m == n + 1
  <1>1. /\ more \in Seq(SlocRows) /\ Len(more) = m /\ more[m] = row
        /\ \A k \in 1..n : more[k] = rows[k]
    <2> HIDE DEF SlocRows
    <2> QED
      OBVIOUS
  <1>2. n \in Nat /\ n <= n /\ m \in Nat /\ n <= m /\ m \in 1..m /\ m - 1 = n
    OBVIOUS
  <1> HIDE DEF more
  <1>3. /\ RowsRead(rows) = ReadUpTo(rows)[n]
        /\ Carries(ReadUpTo(rows), n, Readings, NothingRead, ReadStep(rows))
    BY ReadIs
  <1>4. /\ RowsRead(more) = ReadUpTo(more)[m]
        /\ Carries(ReadUpTo(more), m, Readings, NothingRead, ReadStep(more))
    BY <1>1, ReadIs
  <1>5. \A k \in 1..n, r \in Readings : ReadStep(more)[<<k, r>>] = ReadStep(rows)[<<k, r>>]
    <2>1. \A k \in 1..n : k \in 1..m
      BY <1>2
    <2> HIDE DEF m, n
    <2>2. \A k \in 1..n, r \in Readings : ReadStep(more)[<<k, r>>] = ReadRow(r, more[k])
      BY <1>1, <2>1 DEF ReadStep
    <2>3. \A k \in 1..n, r \in Readings : ReadStep(rows)[<<k, r>>] = ReadRow(r, rows[k])
      BY DEF ReadStep, n
    <2> QED
      BY <1>1, <2>2, <2>3
  <1>6. ReadUpTo(more)[n] = ReadUpTo(rows)[n]
    <2> HIDE DEF n, m
    <2> QED
      BY <1>2, <1>3, <1>4, <1>5, CarriedAlike
  <1>7. ReadUpTo(more)[n] \in Readings
    BY <1>2, <1>4 DEF Carries
  <1>8. ReadUpTo(more)[m] = ReadStep(more)[<<m, ReadUpTo(more)[n]>>]
    BY <1>2, <1>4 DEF Carries
  <1>9. \A r \in Readings : ReadStep(more)[<<m, r>>] = ReadRow(r, row)
    <2> HIDE DEF m
    <2> QED
      BY <1>1, <1>2 DEF ReadStep
  <1>10. RowsRead(more) = ReadRow(RowsRead(rows), row)
    BY <1>3, <1>4, <1>6, <1>7, <1>8, <1>9
  <1>11. RowsRead(rows) \in Readings
    BY <1>3, <1>6, <1>7
  <1> QED
    BY <1>10, <1>11 DEF more

(* Before the first row.                                                   *)
LEMMA ReadNothing == RowsRead(<<>>) = NothingRead
  <1>1. <<>> \in Seq(SlocRows) /\ Len(<<>>) = 0
    OBVIOUS
  <1>2. /\ RowsRead(<<>>) = ReadUpTo(<<>>)[0]
        /\ Carries(ReadUpTo(<<>>), 0, Readings, NothingRead, ReadStep(<<>>))
    BY <1>1, ReadIs
  <1> QED
    BY <1>2 DEF Carries

CountsOf(averages) == [i \in DOMAIN averages |-> averages[i].count]

(* One row more has one value more, one average more one count more.       *)
LEMMA OneMoreValue ==
    ASSUME NEW rows, RowsIn(rows), NEW row
    PROVE  /\ RowsIn(Append(rows, row))
           /\ Values(Append(rows, row)) = Append(Values(rows), row.value)
  <1> DEFINE S == Range(rows) \cup {row}
             more == Append(rows, row)
             V == {x.value : x \in S}
             n == Len(rows)
  <1>1. rows \in Seq(S) /\ row \in S
    <2>1. Range(rows) \subseteq S
      OBVIOUS
    <2> QED
      BY <2>1, SeqMonotonic DEF RowsIn
  <1>2. RowsIn(more)
    <2> HIDE DEF S
    <2>1. more \in Seq(S) /\ DOMAIN more = 1..Len(more) /\ Len(more) \in Nat
      BY <1>1
    <2> HIDE DEF more
    <2>2. \A i \in 1..Len(more) : more[i] \in Range(more)
      BY <2>1 DEF Range
    <2> QED
      BY <2>1, <2>2 DEF RowsIn
  <1>3. \A x \in S : x.value \in V
    OBVIOUS
  <1> HIDE DEF S
  <1>4. /\ Values(rows) \in Seq(V) /\ Len(Values(rows)) = n
        /\ \A i \in 1..n : Values(rows)[i] = rows[i].value
    <2>1. DOMAIN rows = 1..n /\ n \in Nat /\ \A i \in 1..n : rows[i] \in S
      BY <1>1
    <2> HIDE DEF n, V
    <2> QED
      BY <1>3, <2>1 DEF Values
  <1>5. /\ Values(more) \in Seq(V) /\ Len(Values(more)) = n + 1
        /\ \A i \in 1..n : Values(more)[i] = rows[i].value
        /\ Values(more)[n + 1] = row.value
    <2>1. DOMAIN more = 1..(n + 1) /\ n \in Nat /\ \A i \in 1..(n + 1) : more[i] \in S
      BY <1>1
    <2>2. more[n + 1] = row /\ \A i \in 1..n : more[i] = rows[i]
      BY <1>1
    <2> HIDE DEF n, V, more
    <2> QED
      BY <1>3, <2>1, <2>2 DEF Values
  <1>6. row.value \in V
    BY <1>1, <1>3
  <1> DEFINE s == Values(rows)
             t == Values(more)
             x == row.value
  <1> HIDE DEF V, more, n
  <1>7. /\ s \in Seq(V) /\ Len(s) = n /\ t \in Seq(V) /\ Len(t) = n + 1 /\ x \in V
        /\ t[n + 1] = x /\ \A i \in 1..n : t[i] = s[i]
    BY <1>4, <1>5, <1>6
  <1> HIDE DEF s, t, x
  <1>8. t = Append(s, x)
    BY <1>7
  <1> QED
    BY <1>2, <1>8 DEF s, t, x, more

(* The same of counts.                                                     *)
LEMMA OneMoreCount ==
    ASSUME NEW averages \in Seq(Tallies), NEW tally \in Tallies
    PROVE  CountsOf(Append(averages, tally)) = Append(CountsOf(averages), tally.count)
  <1> DEFINE more == Append(averages, tally)
             n == Len(averages)
             s == CountsOf(averages)
             t == CountsOf(more)
             x == tally.count
  <1>1. \A y \in Tallies : y.count \in Int
    BY DEF Tallies
  <1>2. /\ n \in Nat /\ DOMAIN averages = 1..n /\ \A i \in 1..n : averages[i] \in Tallies
        /\ DOMAIN more = 1..(n + 1) /\ \A i \in 1..(n + 1) : more[i] \in Tallies
        /\ more[n + 1] = tally /\ \A i \in 1..n : more[i] = averages[i]
    <2> HIDE DEF Tallies
    <2> QED
      OBVIOUS
  <1> HIDE DEF more, n
  <1>3. /\ s \in Seq(Int) /\ Len(s) = n /\ \A i \in 1..n : s[i] = averages[i].count
    BY <1>1, <1>2 DEF CountsOf
  <1>4. /\ t \in Seq(Int) /\ Len(t) = n + 1 /\ t[n + 1] = x
        /\ \A i \in 1..n : t[i] = averages[i].count
    BY <1>1, <1>2 DEF CountsOf
  <1>5. x \in Int
    BY <1>1
  <1> HIDE DEF s, t, x
  <1>6. t = Append(s, x)
    BY <1>2, <1>3, <1>4, <1>5
  <1> QED
    BY <1>6 DEF s, t, x, more

-----------------------------------------------------------------------------
(* What SLOC reported, what AMS holds and what MC counted.                 *)

Tally(list, count) == [sum |-> MsSum(list, count), count |-> count]

RowsTyped ==
    /\ sloc_statistics \in Seq(SlocRows)
    /\ sloc_overall \in Int /\ sloc_unit \in Int
    /\ RowsIn(ams_statistics) /\ RowsIn(mc_statistics)

(* The functions that ended: SLOC reported what AMS holds of them.  MC     *)
(* counts those that started, as AMS does.                                 *)
FunctionsFit ==
    /\ RowsRead(sloc_statistics).document =
           Tally(ms_overall_list, method_count_overall - Pending)
    /\ phase = "unit" =>
           RowsRead(sloc_statistics).unit = Tally(ms_unit_list, method_count_unit - Pending)
    /\ phase # "unit" => RowsRead(sloc_statistics).unit = NoFunctions
    /\ mc_unit = method_count_unit
    /\ mc_overall = method_count_overall

AveragesFit ==
    /\ Values(ams_statistics) = RowsRead(sloc_statistics).averages
    /\ Values(mc_statistics) = CountsOf(RowsRead(sloc_statistics).averages)

FitIInv == RowsTyped /\ FunctionsFit /\ AveragesFit

(* Without a new row only the functions that started matter.               *)
LEMMA FitKept ==
    ASSUME FitIInv, phase' = phase, sloc_overall' \in Int, sloc_unit' \in Int,
           UNCHANGED <<sloc_statistics, ams_statistics, mc_statistics>>,
           UNCHANGED <<ms_unit_list, ms_overall_list>>,
           method_count_unit' - Pending' = method_count_unit - Pending,
           method_count_overall' - Pending' = method_count_overall - Pending,
           mc_unit' = method_count_unit', mc_overall' = method_count_overall'
    PROVE  FitIInv'
  <1>1. RowsTyped'
    BY DEF FitIInv, RowsTyped, RowsIn
  <1>2. AveragesFit'
    BY DEF FitIInv, AveragesFit
  <1>3. FunctionsFit'
    BY DEF FitIInv, FunctionsFit
  <1> QED
    BY <1>1, <1>2, <1>3 DEF FitIInv

(* An element starts: AMS and MC count the same functions.                 *)
LEMMA FitStart ==
    ASSUME FitIInv, SizeIInv, OneFunction', NEW t \in Tags, SaxStartElement(t),
           event_startElement_ams(t), event_startElement_mc(t), event_startElement_sloc(t)
    PROVE  FitIInv'
  <1>1. SaxTypeOK /\ StreamShape /\ AmsReadsOpen /\ AmsCounts
    BY DEF SizeIInv, IInv, TypeOK, AmsSound
  <1>2. /\ UNCHANGED <<sloc_statistics, ams_statistics, mc_statistics>>
        /\ UNCHANGED <<ms_unit_list, ms_overall_list>>
    BY DEF event_startElement_ams, event_startElement_mc, event_startElement_sloc
  <1>3. sloc_overall' \in Int /\ sloc_unit' \in Int
    BY DEF FitIInv, RowsTyped, event_startElement_sloc, SlocFunction, SlocUnitStatement,
           SlocMethodStatement, SlocMethodBlock, SlocNoLine, SlocLine
  <1>4. phase' = phase
    BY DEF SaxStartElement
  <1>5. mc_unit = method_count_unit /\ mc_overall = method_count_overall
    BY DEF FitIInv, FunctionsFit
  <1>6. /\ method_count_unit' - Pending' = method_count_unit - Pending
        /\ method_count_overall' - Pending' = method_count_overall - Pending
        /\ mc_unit' = method_count_unit' /\ mc_overall' = method_count_overall'
    <2>1. CASE t = "function"
      <3>1. "function" \notin OpenTags
        BY <1>1, <2>1, OnlyFunction
      <3>2. ams_read_state = "WAITING_METHOD"
        BY <1>1, <3>1 DEF AmsReadsOpen, StatementInFunction, OpenTags
      <3>3. AmsMethod(t)
        BY <2>1, <3>2
        DEF event_startElement_ams, AmsStatement, AmsCompound, AmsSkipsStart
      <3> QED
        BY <1>1, <1>5, <2>1, <3>2, <3>3
        DEF AmsMethod, Pending, AmsCounts, event_startElement_mc
    <2>2. CASE t # "function"
      <3>1. /\ UNCHANGED <<method_count_unit, method_count_overall>>
            /\ ams_read_state' = "WAITING_METHOD" <=> ams_read_state = "WAITING_METHOD"
        BY <2>2
        DEF event_startElement_ams, AmsMethod, AmsStatement, AmsCompound, AmsSkipsStart
      <3> QED
        BY <1>5, <2>2, <3>1 DEF Pending, event_startElement_mc
    <2> QED
      BY <2>1, <2>2
  <1> QED
    BY <1>2, <1>3, <1>4, <1>6, FitKept

(* An element ends that is no function.                                    *)
LEMMA FitEnd ==
    ASSUME FitIInv, NEW t \in Tags, t # "function", SaxEndElement(t),
           event_endElement_ams(t), event_endElement_sloc(t), UNCHANGED mcVars
    PROVE  FitIInv'
  <1>1. UNCHANGED <<sloc_overall, sloc_unit, sloc_statistics, ams_statistics, mc_statistics>>
    BY DEF event_endElement_ams, event_endElement_sloc, mcVars, SlocFunctionEnds,
           SlocStatementEnds, SlocOtherEnds
  <1>2. /\ UNCHANGED <<ms_unit_list, ms_overall_list, method_count_unit, method_count_overall>>
        /\ ams_read_state' = "WAITING_METHOD" <=> ams_read_state = "WAITING_METHOD"
    BY DEF event_endElement_ams, AmsMethodEnds, AmsStatementEnds, AmsSkipsEnd
  <1>3. phase' = phase /\ UNCHANGED <<mc_unit, mc_overall>>
    BY DEF SaxEndElement, mcVars
  <1>4. Pending' = Pending
    BY <1>2 DEF Pending
  <1>5. sloc_overall' \in Int /\ sloc_unit' \in Int
    BY <1>1 DEF FitIInv, RowsTyped
  <1>6. mc_unit' = method_count_unit' /\ mc_overall' = method_count_overall'
    BY <1>2, <1>3 DEF FitIInv, FunctionsFit
  <1> QED
    BY <1>1, <1>2, <1>3, <1>4, <1>5, <1>6, FitKept

(* The array of a method that ends: the sum has its size more.             *)
LEMMA TallyMore ==
    ASSUME NEW list \in Seq(Int), NEW n \in Nat, NEW size \in Nat, n <= Len(list)
    PROVE  Tally(MsWrite(list, n + 1, size), n + 1) =
               [sum |-> Tally(list, n).sum + size, count |-> n + 1]
  <1> DEFINE m == n + 1
             more == MsWrite(list, m, size)
  <1>1. m \in Nat \ {0} /\ \A i \in 1..n : i \in 1..Len(list) /\ i # m
    OBVIOUS
  <1>2. /\ more \in Seq(Int) /\ m <= Len(more) /\ more[m] = size
        /\ \A i \in 1..Len(list) : i # m => more[i] = list[i]
    BY <1>1, MsWriteCell
  <1> HIDE DEF more
  <1>3. n <= Len(more) /\ \A i \in 1..n : more[i] = list[i]
    BY <1>1, <1>2
  <1>4. MsSum(more, m) = MsSum(list, n) + more[m]
    BY <1>2, <1>3, SumMore
  <1> QED
    BY <1>2, <1>4 DEF Tally, more

(* A method that ends is one that AMS reads.                               *)
LEMMA MethodEnds ==
    ASSUME SizeIInv, InStep, OneFunction, NEW t \in Tags, t = "function", SaxEndElement(t),
           event_endElement_ams(t)
    PROVE  AmsMethodEnds(t) /\ method_size = sloc_fn
  <1>1. /\ Len(open) \in DOMAIN open /\ DOMAIN open = 1..Len(open) /\ Len(open) \in Nat
        /\ open[Len(open)].tag = "function"
    BY DEF SizeIInv, IInv, TypeOK, SaxTypeOK, SaxEndElement, Top
  <1>2. "function" \in OpenTags
    BY <1>1 DEF OpenTags
  <1>3. ~StatementInFunction
    <2>1. ASSUME NEW i \in DOMAIN open, NEW j \in DOMAIN open, i < j,
                 open[i].tag = "function"
          PROVE  FALSE
      <3>1. i = Len(open)
        BY <1>1, <2>1 DEF OneFunction
      <3> QED
        BY <1>1, <2>1, <3>1
    <2> QED
      BY <2>1 DEF StatementInFunction
  <1>4. ams_read_state = "READING_METHOD" /\ method_size = sloc_fn
    BY <1>2, <1>3 DEF InStep, SizeIInv, AmsSound, AmsReadsOpen
  <1> QED
    BY <1>4 DEF event_endElement_ams, AmsStatementEnds, AmsSkipsEnd

(* A function ends: its row has the size that AMS adds to its arrays.      *)
LEMMA FitFunction ==
    ASSUME FitIInv, SizeIInv, StringsNamed, FnIsCurrent, InStep, OneFunction,
           NEW t \in Tags, t = "function", SaxEndElement(t),
           event_endElement_ams(t), event_endElement_sloc(t), UNCHANGED mcVars
    PROVE  FitIInv'
  <1> DEFINE row == [key |-> <<"SLOC">> \o FnSubject, value |-> sloc_fn]
             read == RowsRead(sloc_statistics)
             n == method_count_unit - 1
             m == method_count_overall - 1
  <1>1. AmsMethodEnds(t) /\ method_size = sloc_fn
    BY MethodEnds
  <1>2. /\ Pending = 1 /\ Pending' = 0
        /\ ms_unit_list' = MsWrite(ms_unit_list, method_count_unit, sloc_fn)
        /\ ms_overall_list' = MsWrite(ms_overall_list, method_count_overall, sloc_fn)
    BY <1>1 DEF AmsMethodEnds, Pending
  <1>3. /\ n \in Nat /\ m \in Nat /\ sloc_fn \in Nat
        /\ n + 1 = method_count_unit /\ m + 1 = method_count_overall
        /\ ms_unit_list \in Seq(Int) /\ ms_overall_list \in Seq(Int)
        /\ n <= Len(ms_unit_list) /\ m <= Len(ms_overall_list)
    <2>1. AmsCounts /\ AmsArrays
      BY DEF SizeIInv, AmsSound
    <2>2. /\ n \in Nat /\ m \in Nat /\ sloc_fn \in Nat
          /\ n + 1 = method_count_unit /\ m + 1 = method_count_overall
      BY <1>1, <1>2, <2>1 DEF AmsCounts
    <2>3. /\ ms_unit_list \in Seq(Int) /\ ms_overall_list \in Seq(Int)
          /\ m <= Len(ms_overall_list)
          /\ \A i \in 1..n : i <= Len(ms_unit_list)
      BY <1>2, <2>1 DEF AmsArrays
    <2>4. n <= Len(ms_unit_list)
      <3>1. CASE n = 0
        BY <2>3, <3>1
      <3>2. CASE n # 0
        <4>1. n \in 1..n
          BY <2>2, <3>2
        <4> QED
          BY <2>3, <4>1
      <3> QED
        BY <3>1, <3>2
    <2> QED
      BY <2>2, <2>3, <2>4
  <1>4. row \in SlocRows /\ Len(row.key) > 3
    <2>1. "SLOC" \in Piece /\ FnSubject \in Seq(Piece)
      BY SubjectsType DEF SizeIInv, Piece
    <2>2. Len(FnSubject) \in Nat /\ ~(Len(FnSubject) < 3)
      BY SubjectLengths DEF SizeIInv
    <2>3. /\ <<"SLOC">> \o FnSubject \in Seq(Piece)
          /\ Len(<<"SLOC">> \o FnSubject) = 1 + Len(FnSubject)
      BY <2>1, OnePieceMore
    <2>4. row.key = <<"SLOC">> \o FnSubject /\ row.value = sloc_fn
      OBVIOUS
    <2>5. Len(row.key) > 3
      BY <2>2, <2>3, <2>4
    <2>6. row \in SlocRows
      BY <1>3, <2>3 DEF SlocRows
    <2> QED
      BY <2>5, <2>6
  <1>5. sloc_statistics' = Append(sloc_statistics, row)
    <2>1. SlocFunctionEnds(t)
      BY DEF event_endElement_sloc, SlocStatementEnds, SlocOtherEnds, SlocSimple
    <2> QED
      BY <2>1 DEF SlocFunctionEnds, SlocInsert, FnSubject
  <1>6. row.value = sloc_fn
    OBVIOUS
  <1> HIDE DEF row
  <1>7. sloc_statistics \in Seq(SlocRows)
    BY DEF FitIInv, RowsTyped
  <1>8. RowsRead(sloc_statistics') = ReadRow(read, row) /\ read \in Readings
    BY <1>4, <1>5, <1>7, ReadMore
  <1>9. /\ RowsRead(sloc_statistics').unit = WithFunction(read.unit, row)
        /\ RowsRead(sloc_statistics').document = WithFunction(read.document, row)
        /\ RowsRead(sloc_statistics').averages = read.averages
    <2> HIDE DEF read
    <2> QED
      BY <1>4, <1>8 DEF ReadRow
  <1>10. /\ read.unit = Tally(ms_unit_list, n)
         /\ read.document = Tally(ms_overall_list, m)
    BY <1>2 DEF FitIInv, FunctionsFit, SaxEndElement
  <1>11. /\ Tally(ms_unit_list', method_count_unit) =
                [sum |-> Tally(ms_unit_list, n).sum + sloc_fn, count |-> n + 1]
         /\ Tally(ms_overall_list', method_count_overall) =
                [sum |-> Tally(ms_overall_list, m).sum + sloc_fn, count |-> m + 1]
    <2>1. /\ Tally(MsWrite(ms_unit_list, n + 1, sloc_fn), n + 1) =
                 [sum |-> Tally(ms_unit_list, n).sum + sloc_fn, count |-> n + 1]
          /\ Tally(MsWrite(ms_overall_list, m + 1, sloc_fn), m + 1) =
                 [sum |-> Tally(ms_overall_list, m).sum + sloc_fn, count |-> m + 1]
      <3> HIDE DEF n, m
      <3> QED
        BY <1>3, TallyMore
    <2> QED
      BY <1>2, <1>3, <2>1
  <1>12. /\ RowsRead(sloc_statistics').unit = Tally(ms_unit_list', method_count_unit)
         /\ RowsRead(sloc_statistics').document =
                Tally(ms_overall_list', method_count_overall)
    <2>1. Tally(ms_unit_list, n).count = n /\ Tally(ms_overall_list, m).count = m
      BY DEF Tally
    <2> HIDE DEF read, n, m
    <2> QED
      BY <1>6, <1>9, <1>10, <1>11, <2>1 DEF WithFunction
  <1>13. /\ phase' = "unit"
         /\ UNCHANGED <<method_count_unit, method_count_overall, ams_statistics>>
         /\ UNCHANGED <<mc_unit, mc_overall, mc_statistics, sloc_overall, sloc_unit>>
    BY DEF SaxEndElement, event_endElement_ams, event_endElement_sloc, mcVars
  <1>14. RowsTyped'
    <2>1. sloc_statistics' \in Seq(SlocRows)
      <3> HIDE DEF SlocRows
      <3> QED
        BY <1>4, <1>5, <1>7
    <2> QED
      BY <1>13, <2>1 DEF FitIInv, RowsTyped, RowsIn
  <1>15. AveragesFit'
    BY <1>9, <1>13 DEF FitIInv, AveragesFit
  <1>16. FunctionsFit'
    <2>1. /\ method_count_unit' - Pending' = method_count_unit
          /\ method_count_overall' - Pending' = method_count_overall
      BY <1>2, <1>3, <1>13
    <2> QED
      BY <1>12, <1>13, <2>1 DEF FitIInv, FunctionsFit
  <1> QED
    BY <1>14, <1>15, <1>16 DEF FitIInv

(* An average is reported: with it the row that SLOC adds for the same     *)
(* subject, and the number that MC does.                                   *)
LEMMA AverageReported ==
    ASSUME RowsTyped, AveragesFit, NEW tally \in Tallies, NEW row \in SlocRows,
           NEW amsRow, NEW mcRow, amsRow.value = tally, mcRow.value = tally.count,
           sloc_statistics' = Append(sloc_statistics, row),
           ams_statistics' = Append(ams_statistics, amsRow),
           mc_statistics' = Append(mc_statistics, mcRow),
           RowsRead(sloc_statistics').averages =
               Append(RowsRead(sloc_statistics).averages, tally),
           UNCHANGED <<sloc_overall, sloc_unit>>
    PROVE  RowsTyped' /\ AveragesFit'
  <1> DEFINE averages == RowsRead(sloc_statistics).averages
  <1>1. /\ sloc_statistics \in Seq(SlocRows)
        /\ RowsIn(ams_statistics) /\ RowsIn(mc_statistics)
    BY DEF RowsTyped
  <1>2. averages \in Seq(Tallies)
    <2>1. RowsRead(sloc_statistics) \in Readings
      BY <1>1, ReadMore
    <2> QED
      BY <2>1 DEF Readings
  <1>3. /\ RowsIn(Append(ams_statistics, amsRow))
        /\ Values(Append(ams_statistics, amsRow)) = Append(Values(ams_statistics), tally)
    BY <1>1, OneMoreValue
  <1>4. /\ RowsIn(Append(mc_statistics, mcRow))
        /\ Values(Append(mc_statistics, mcRow)) = Append(Values(mc_statistics), tally.count)
    BY <1>1, OneMoreValue
  <1>5. RowsTyped'
    <2>1. sloc_statistics' \in Seq(SlocRows)
      <3> HIDE DEF SlocRows
      <3> QED
        BY <1>1
    <2>2. RowsIn(ams_statistics') /\ RowsIn(mc_statistics')
      BY <1>3, <1>4
    <2> QED
      BY <2>1, <2>2 DEF RowsTyped, RowsIn
  <1>6. Values(ams_statistics) = averages /\ Values(mc_statistics) = CountsOf(averages)
    BY DEF AveragesFit
  <1> HIDE DEF averages
  <1>7. CountsOf(Append(averages, tally)) = Append(CountsOf(averages), tally.count)
    BY <1>2, OneMoreCount
  <1>8. RowsRead(sloc_statistics').averages = Append(averages, tally)
    BY DEF averages
  <1>9. /\ Values(ams_statistics') = RowsRead(sloc_statistics').averages
        /\ Values(mc_statistics') = CountsOf(RowsRead(sloc_statistics').averages)
    BY <1>3, <1>4, <1>6, <1>7, <1>8
  <1> QED
    BY <1>5, <1>9 DEF AveragesFit

(* A unit ends: AMS reports the average of the functions that SLOC         *)
(* reported since the unit started.                                        *)
LEMMA FitUnitEnds ==
    ASSUME FitIInv, SizeIInv, StringsNamed, FnIsCurrent, SaxEndUnit,
           event_endUnit_ams, event_endUnit_mc, event_endUnit_sloc
    PROVE  FitIInv'
  <1> DEFINE row == [key |-> <<"SLOC">> \o UnitSubject, value |-> sloc_unit]
             tally == Tally(ms_unit_list, method_count_unit)
             amsRow == [key |-> <<"AMS">> \o UnitSubject, value |-> tally]
             mcRow == [key |-> <<"MC">> \o UnitSubject, value |-> mc_unit]
             read == RowsRead(sloc_statistics)
  <1>1. ams_read_state = "WAITING_METHOD" /\ Pending = 0
    <2>1. OpenTags = {"unit"}
      BY NothingOpen DEF SizeIInv, IInv, SaxEndUnit
    <2>2. ~StatementInFunction
      BY <2>1 DEF StatementInFunction, OpenTags
    <2> QED
      BY <2>1, <2>2 DEF SizeIInv, AmsSound, AmsReadsOpen, Pending
  <1>2. /\ sloc_statistics' = Append(sloc_statistics, row)
        /\ ams_statistics' = Append(ams_statistics, amsRow)
        /\ mc_statistics' = Append(mc_statistics, mcRow)
    BY DEF event_endUnit_ams, event_endUnit_mc, event_endUnit_sloc, AmsInsert, McInsert,
           SlocInsert, UnitSubject, Tally
  <1>3. row \in SlocRows /\ Len(row.key) = 3
    <2>1. "SLOC" \in Piece /\ UnitSubject \in Seq(Piece)
      BY SubjectsType DEF SizeIInv, Piece
    <2>2. Len(UnitSubject) = 2
      BY SubjectLengths DEF SizeIInv
    <2>3. /\ <<"SLOC">> \o UnitSubject \in Seq(Piece)
          /\ Len(<<"SLOC">> \o UnitSubject) = 1 + Len(UnitSubject)
      BY <2>1, OnePieceMore
    <2>4. row \in SlocRows
      BY <2>3 DEF FitIInv, RowsTyped, SlocRows
    <2> QED
      BY <2>2, <2>3, <2>4
  <1>4. amsRow.value = tally /\ mcRow.value = mc_unit
    OBVIOUS
  <1> HIDE DEF row, amsRow, mcRow
  <1>5. sloc_statistics \in Seq(SlocRows) /\ RowsTyped /\ AveragesFit
    BY DEF FitIInv, RowsTyped
  <1>6. RowsRead(sloc_statistics') = ReadRow(read, row) /\ read \in Readings
    BY <1>2, <1>3, <1>5, ReadMore
  <1>7. /\ read.unit = tally /\ tally.count = mc_unit
        /\ read.document = Tally(ms_overall_list, method_count_overall)
    <2>1. /\ read.unit = Tally(ms_unit_list, method_count_unit - 0)
          /\ read.document = Tally(ms_overall_list, method_count_overall - 0)
          /\ mc_unit = method_count_unit
      BY <1>1 DEF FitIInv, FunctionsFit, SaxEndUnit
    <2>2. method_count_unit - 0 = method_count_unit
          /\ method_count_overall - 0 = method_count_overall
      BY DEF SizeIInv, AmsSound, AmsCounts
    <2>3. tally.count = method_count_unit
      BY DEF Tally
    <2> QED
      BY <2>1, <2>2, <2>3
  <1>8. tally \in Tallies
    BY <1>6, <1>7 DEF Readings
  <1>9. /\ RowsRead(sloc_statistics').unit = NoFunctions
        /\ RowsRead(sloc_statistics').document = read.document
        /\ RowsRead(sloc_statistics').averages = Append(read.averages, tally)
    <2> HIDE DEF read, tally
    <2>1. ~(Len(row.key) > 3)
      BY <1>3
    <2> QED
      BY <1>3, <1>6, <1>7, <2>1 DEF ReadRow
  <1>10. UNCHANGED <<sloc_overall, sloc_unit>>
    BY DEF event_endUnit_sloc
  <1>11. RowsTyped' /\ AveragesFit'
    <2> HIDE DEF tally
    <2> QED
      BY <1>2, <1>3, <1>4, <1>5, <1>7, <1>8, <1>9, <1>10, AverageReported
  <1>12. FunctionsFit'
    <2>1. /\ phase' # "unit" /\ Pending' = 0
          /\ UNCHANGED <<method_count_unit, method_count_overall, ms_overall_list>>
          /\ UNCHANGED <<mc_unit, mc_overall>>
      BY <1>1 DEF SaxEndUnit, event_endUnit_ams, event_endUnit_mc, Pending
    <2>2. method_count_overall - 0 = method_count_overall
      BY DEF SizeIInv, AmsSound, AmsCounts
    <2>3. RowsRead(sloc_statistics').document =
              Tally(ms_overall_list', method_count_overall' - Pending')
      BY <1>7, <1>9, <2>1, <2>2
    <2> QED
      BY <1>9, <2>1, <2>3 DEF FitIInv, FunctionsFit
  <1> QED
    BY <1>11, <1>12 DEF FitIInv

(* Outside units no method is read.                                        *)
LEMMA NothingPending ==
    ASSUME SizeIInv, phase # "unit"
    PROVE  /\ ams_read_state = "WAITING_METHOD" /\ Pending = 0
           /\ method_count_unit - 0 = method_count_unit
           /\ method_count_overall - 0 = method_count_overall
  <1>1. OpenTags = {} /\ ~StatementInFunction
    BY NothingOpen DEF StatementInFunction, OpenTags, SizeIInv, IInv
  <1> QED
    BY <1>1 DEF SizeIInv, AmsSound, AmsReadsOpen, AmsCounts, Pending

(* The document ends: the average over all its functions.                  *)
LEMMA FitDocumentEnds ==
    ASSUME FitIInv, SizeIInv, SaxEndDocument,
           event_endDocument_ams, event_endDocument_mc, event_endDocument_sloc
    PROVE  FitIInv'
  <1> DEFINE row == [key |-> <<"SLOC">> \o <<>>, value |-> sloc_overall]
             tally == Tally(ms_overall_list, method_count_overall)
             amsRow == [key |-> <<"AMS">> \o <<>>, value |-> tally]
             mcRow == [key |-> <<"MC">> \o <<>>, value |-> mc_overall]
             read == RowsRead(sloc_statistics)
  <1>1. phase # "unit" /\ phase' # "unit"
    BY DEF SaxEndDocument, SaxMove
  <1>2. /\ sloc_statistics' = Append(sloc_statistics, row)
        /\ ams_statistics' = Append(ams_statistics, amsRow)
        /\ mc_statistics' = Append(mc_statistics, mcRow)
    BY DEF event_endDocument_ams, event_endDocument_mc, event_endDocument_sloc, AmsInsert,
           McInsert, SlocInsert, Tally
  <1>3. row \in SlocRows /\ Len(row.key) = 1
    <2>1. "SLOC" \in Piece
      BY DEF Piece
    <2>2. <<"SLOC">> \o <<>> \in Seq(Piece) /\ Len(<<"SLOC">> \o <<>>) = 1
      <3>1. <<>> \in Seq(Piece) /\ Len(<<>>) = 0
        OBVIOUS
      <3>2. /\ <<"SLOC">> \o <<>> \in Seq(Piece)
            /\ Len(<<"SLOC">> \o <<>>) = 1 + Len(<<>>)
        BY <2>1, <3>1, OnePieceMore
      <3> QED
        BY <3>1, <3>2
    <2>3. row \in SlocRows
      BY <2>2 DEF FitIInv, RowsTyped, SlocRows
    <2> QED
      BY <2>2, <2>3
  <1>4. amsRow.value = tally /\ mcRow.value = mc_overall
    OBVIOUS
  <1> HIDE DEF row, amsRow, mcRow
  <1>5. sloc_statistics \in Seq(SlocRows) /\ RowsTyped /\ AveragesFit
    BY DEF FitIInv, RowsTyped
  <1>6. RowsRead(sloc_statistics') = ReadRow(read, row) /\ read \in Readings
    BY <1>2, <1>3, <1>5, ReadMore
  <1>7. read.document = tally /\ tally.count = mc_overall /\ read.unit = NoFunctions
    <2>1. Pending = 0 /\ method_count_overall - 0 = method_count_overall
      BY <1>1, NothingPending
    <2>2. tally.count = method_count_overall
      BY DEF Tally
    <2> QED
      BY <1>1, <2>1, <2>2 DEF FitIInv, FunctionsFit
  <1>8. tally \in Tallies
    BY <1>6, <1>7 DEF Readings
  <1>9. /\ RowsRead(sloc_statistics').unit = NoFunctions
        /\ RowsRead(sloc_statistics').document = tally
        /\ RowsRead(sloc_statistics').averages = Append(read.averages, tally)
    <2> HIDE DEF read, tally
    <2>1. ~(Len(row.key) > 3) /\ Len(row.key) # 3
      BY <1>3
    <2> QED
      BY <1>6, <1>7, <2>1 DEF ReadRow
  <1>10. UNCHANGED <<sloc_overall, sloc_unit>>
    BY DEF event_endDocument_sloc
  <1>11. RowsTyped' /\ AveragesFit'
    <2> HIDE DEF tally
    <2> QED
      BY <1>2, <1>3, <1>4, <1>5, <1>7, <1>8, <1>9, <1>10, AverageReported
  <1>12. FunctionsFit'
    <2>1. /\ Pending' = 0
          /\ UNCHANGED <<method_count_unit, method_count_overall, ms_overall_list>>
          /\ UNCHANGED <<mc_unit, mc_overall>>
      BY <1>1, NothingPending DEF event_endDocument_ams, event_endDocument_mc, Pending
    <2>2. method_count_overall - 0 = method_count_overall
      BY <1>1, NothingPending
    <2>3. RowsRead(sloc_statistics').document =
              Tally(ms_overall_list', method_count_overall' - Pending')
      BY <1>9, <2>1, <2>2
    <2> QED
      BY <1>1, <1>9, <2>1, <2>3 DEF FitIInv, FunctionsFit
  <1> QED
    BY <1>11, <1>12 DEF FitIInv

(* No cell, no size.                                                       *)
LEMMA TallyOfNone ==
    ASSUME NEW list \in Seq(Int)
    PROVE  Tally(list, 0) = NoFunctions
  <1>1. 0 \in Nat /\ 0 <= Len(list) /\ \A i \in 1..0 : list[i] = list[i]
    OBVIOUS
  <1>2. MsSum(list, 0) = 0
    BY <1>1, SumMore
  <1> QED
    BY <1>2 DEF Tally, NoFunctions

(* The document starts with nothing, a unit with nothing in it.            *)
LEMMA FitStarts ==
    ASSUME FitIInv, SizeIInv
    PROVE  /\ SaxStartDocument /\ event_startDocument_ams /\ event_startDocument_mc
              /\ event_startDocument_sloc => FitIInv'
           /\ SaxStartUnit /\ event_startUnit_ams /\ event_startUnit_mc
              /\ event_startUnit_sloc => FitIInv'
  <1>0. ms_unit_list \in Seq(Int) /\ ms_overall_list \in Seq(Int)
    BY DEF SizeIInv, AmsSound, AmsArrays
  <1>1. ASSUME SaxStartDocument, event_startDocument_ams, event_startDocument_mc,
               event_startDocument_sloc
        PROVE  FitIInv'
    <2>1. /\ sloc_statistics' = <<>> /\ ams_statistics' = <<>> /\ mc_statistics' = <<>>
          /\ method_count_overall' = 0 /\ mc_overall' = 0 /\ Pending' = 0 /\ phase' # "unit"
          /\ UNCHANGED <<method_count_unit, mc_unit, ms_overall_list>>
          /\ sloc_overall' = 0 /\ UNCHANGED sloc_unit
      BY <1>1 DEF SaxStartDocument, SaxMove, event_startDocument_ams, event_startDocument_mc,
                  event_startDocument_sloc, Pending
    <2>2. RowsRead(sloc_statistics') = NothingRead
      BY <2>1, ReadNothing
    <2>3. RowsTyped'
      <3>1. <<>> \in Seq(Range(<<>>)) /\ <<>> \in Seq(SlocRows) /\ 0 \in Int
        OBVIOUS
      <3> QED
        BY <2>1, <3>1 DEF FitIInv, RowsTyped, RowsIn
    <2>4. AveragesFit'
      <3>1. Values(<<>>) = <<>>
        BY DEF Values
      <3>2. CountsOf(<<>>) = <<>>
        BY DEF CountsOf
      <3>3. NothingRead.averages = <<>>
        BY DEF NothingRead
      <3> QED
        BY <2>1, <2>2, <3>1, <3>2, <3>3 DEF AveragesFit
    <2>5. FunctionsFit'
      <3>1. Tally(ms_overall_list', method_count_overall' - Pending') = NoFunctions
        <4>1. Tally(ms_overall_list, 0) = NoFunctions /\ 0 - 0 = 0
          BY <1>0, TallyOfNone
        <4> QED
          BY <2>1, <4>1
      <3>2. NothingRead.document = NoFunctions /\ NothingRead.unit = NoFunctions
        BY DEF NothingRead
      <3> QED
        BY <2>1, <2>2, <3>1, <3>2 DEF FitIInv, FunctionsFit
    <2> QED
      BY <2>3, <2>4, <2>5 DEF FitIInv
  <1>2. ASSUME SaxStartUnit, event_startUnit_ams, event_startUnit_mc, event_startUnit_sloc
        PROVE  FitIInv'
    <2>1. /\ UNCHANGED <<sloc_statistics, ams_statistics, mc_statistics>>
          /\ UNCHANGED <<method_count_overall, ms_unit_list, ms_overall_list, mc_overall>>
          /\ method_count_unit' = 0 /\ mc_unit' = 0 /\ Pending' = 0
          /\ UNCHANGED sloc_overall /\ sloc_unit' = 0
          /\ phase # "unit" /\ phase' = "unit"
      BY <1>2 DEF SaxStartUnit, event_startUnit_ams, event_startUnit_mc, event_startUnit_sloc,
                  Pending
    <2>2. Pending = 0
      BY <2>1, NothingPending
    <2>3. RowsTyped'
      BY <2>1 DEF FitIInv, RowsTyped, RowsIn
    <2>4. AveragesFit'
      BY <2>1 DEF FitIInv, AveragesFit
    <2>5. FunctionsFit'
      <3>1. Tally(ms_unit_list', method_count_unit' - Pending') = NoFunctions
        <4>1. Tally(ms_unit_list, 0) = NoFunctions /\ 0 - 0 = 0
          BY <1>0, TallyOfNone
        <4> QED
          BY <2>1, <4>1
      <3> QED
        BY <2>1, <2>2, <3>1 DEF FitIInv, FunctionsFit
    <2> QED
      BY <2>3, <2>4, <2>5 DEF FitIInv
  <1> QED
    BY <1>1, <1>2

(* The invariant is inductive.                                             *)
LEMMA FitStep ==
    /\ FitIInv /\ SizeIInv /\ StringsNamed /\ FnIsCurrent /\ InStep
    /\ OneFunction /\ OneFunction' /\ [SizeNext]_sizeVars
    => FitIInv'
  <1> SUFFICES ASSUME FitIInv, SizeIInv, StringsNamed, FnIsCurrent, InStep,
                      OneFunction, OneFunction', [SizeNext]_sizeVars
               PROVE  FitIInv'
    OBVIOUS
  <1>1. ASSUME NEW t \in Tags, event_startElement(t), event_startElement_ams(t),
               event_startElement_mc(t), event_startElement_sloc(t)
        PROVE  FitIInv'
    BY <1>1, FitStart DEF event_startElement
  <1>2. ASSUME NEW t \in Tags, event_endElement(t), event_endElement_ams(t),
               event_endElement_sloc(t), UNCHANGED mcVars
        PROVE  FitIInv'
    <2>1. SaxEndElement(t)
      BY <1>2 DEF event_endElement
    <2>2. CASE t = "function"
      BY <1>2, <2>1, <2>2, FitFunction
    <2>3. CASE t # "function"
      BY <1>2, <2>1, <2>3, FitEnd
    <2> QED
      BY <2>2, <2>3
  <1>3. ASSUME UNCHANGED <<slocVars, amsVars, mcVars>>, phase' = "unit" <=> phase = "unit"
        PROVE  FitIInv'
    BY <1>3 DEF slocVars, amsVars, mcVars, FitIInv, RowsTyped, RowsIn, FunctionsFit,
                AveragesFit, Pending
  <1>4. ASSUME NEW ch \in Text, event_charactersUnit(ch),
               UNCHANGED <<slocVars, amsVars, mcVars>>
        PROVE  FitIInv'
    <2>1. phase' = "unit" <=> phase = "unit"
      BY <1>4 DEF event_charactersUnit, SaxCharacters
    <2> QED
      BY <1>3, <1>4, <2>1
  <1>5. ASSUME event_startRoot \/ event_endRoot, UNCHANGED <<slocVars, amsVars, mcVars>>
        PROVE  FitIInv'
    <2>1. phase' = "unit" <=> phase = "unit"
      BY <1>5 DEF event_startRoot, event_endRoot, SaxStartRoot, SaxEndRoot, SaxMove
    <2> QED
      BY <1>3, <1>5, <2>1
  <1>6. CASE UNCHANGED sizeVars
    <2>1. UNCHANGED <<slocVars, amsVars, mcVars>> /\ (phase' = "unit" <=> phase = "unit")
      BY <1>6 DEF sizeVars, vars, saxVars
    <2> QED
      BY <1>3, <2>1
  <1> QED
    BY <1>1, <1>2, <1>4, <1>5, <1>6, FitStarts, FitUnitEnds, FitDocumentEnds
    DEF SizeNext, event_startDocument, event_startUnit, event_endUnit, event_endDocument

(* The average that AMS reports for a unit is over exactly the functions   *)
(* whose lines SLOC reported for it, as many as MC counted there, and the  *)
(* document's is over all of them, if no function is inside another.       *)
THEOREM AveragesAreOfTheLines == SizeSpec /\ []OneFunction => []AmsAveragesSloc
  <1>1. SizeInit => FitIInv /\ StringsNamed /\ FnIsCurrent /\ InStep
    <2> SUFFICES ASSUME SizeInit PROVE FitIInv /\ StringsNamed /\ FnIsCurrent /\ InStep
      OBVIOUS
    <2>1. StringsNamed /\ FnIsCurrent /\ InStep
      BY DEF SizeInit, Init, SaxInit, StringsNamed, FnIsCurrent, InStep, OpenTags
    <2>2. /\ sloc_statistics = <<>> /\ ams_statistics = <<>> /\ mc_statistics = <<>>
          /\ method_count_overall = 0 /\ mc_overall = 0 /\ Pending = 0 /\ phase # "unit"
          /\ method_count_unit = 0 /\ mc_unit = 0 /\ ms_overall_list = <<>>
          /\ sloc_overall = 0 /\ sloc_unit = 0
      BY DEF SizeInit, Init, SaxInit, SlocInit, AmsInit, McInit, Pending
    <2>3. RowsTyped
      <3>1. <<>> \in Seq(Range(<<>>)) /\ <<>> \in Seq(SlocRows) /\ 0 \in Int
        OBVIOUS
      <3> QED
        BY <2>2, <3>1 DEF RowsTyped, RowsIn
    <2>4. AveragesFit
      <3>1. Values(<<>>) = <<>>
        BY DEF Values
      <3>2. CountsOf(<<>>) = <<>>
        BY DEF CountsOf
      <3>3. NothingRead.averages = <<>>
        BY DEF NothingRead
      <3> QED
        BY <2>2, <3>1, <3>2, <3>3, ReadNothing DEF AveragesFit
    <2>5. FunctionsFit
      <3>1. <<>> \in Seq(Int) /\ 0 - 0 = 0
        OBVIOUS
      <3>2. Tally(<<>>, 0) = NoFunctions
        BY <3>1, TallyOfNone
      <3>3. NothingRead.document = NoFunctions /\ NothingRead.unit = NoFunctions
        BY DEF NothingRead
      <3> QED
        BY <2>2, <3>1, <3>2, <3>3, ReadNothing DEF FunctionsFit
    <2> QED
      BY <2>1, <2>3, <2>4, <2>5 DEF FitIInv
  <1>2. /\ SizeIInv /\ FnIsCurrent /\ OneFunction /\ OneFunction' /\ [SizeNext]_sizeVars
        => FnIsCurrent'
    BY SizeNextIsNext, FnIsCurrentStep DEF SizeIInv, IInv, TypeOK, Strings
  <1>3. SizeIInv /\ StringsNamed /\ [SizeNext]_sizeVars => StringsNamed'
    BY SizeNextIsNext, NamedStep DEF SizeIInv
  <1>4. FitIInv => AmsAveragesSloc
    BY DEF FitIInv, AveragesFit, AmsAveragesSloc, CountsOf
  <1> QED
    BY <1>1, <1>2, <1>3, <1>4, StepInStep, FitStep, SizeInvariance, PTL DEF SizeSpec

(* So they do in the program, whatever other metrics are enabled.          *)
THEOREM AveragesOfTheProgram ==
    {"AMS", "MC", "SLOC"} \subseteq Enabled /\ MetricsSpec /\ []OneFunction =>
        []AmsAveragesSloc
  BY ProgramRunsSize, AveragesAreOfTheLines
==============================================================================
