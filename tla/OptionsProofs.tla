---------------------------- MODULE OptionsProofs ----------------------------
(***************************************************************************)
(* Proofs about the command line, for every set of words, every list file, *)
(* every set of existing files and command lines of every length: a report *)
(* is about all the files that are named, success without a report has a   *)
(* reason, and the last word on a metric holds.                            *)
(***************************************************************************)
EXTENDS Options, Recurrence, SequenceTheorems

-----------------------------------------------------------------------------
(* What is defined along the command line is what its definition says.     *)

(* A word is a parameter when the word before takes one and is none.       *)
LEMMA ParametersFollow ==
    ASSUME NEW words \in Seq(Words)
    PROVE  \A i \in 1..Len(words) :
               i \in ParametersIn(words) <=>
                   i > 1 /\ TakesNext(words[i - 1]) /\ (i - 1) \notin ParametersIn(words)
  <1> DEFINE n == Len(words)
             step == [p \in (1..n) \X BOOLEAN |-> p[1] > 1 /\ TakesNext(words[p[1] - 1]) /\ ~p[2]]
             Eqn(t) == t = [i \in 1..n |-> i > 1 /\ TakesNext(words[i - 1]) /\ ~t[i - 1]]
  <1>1. n \in Nat /\ step \in [(1..n) \X BOOLEAN -> BOOLEAN]
    OBVIOUS
  <1>2. PICK f : Carries(f, n, BOOLEAN, FALSE, step)
    <2> HIDE DEF n, step
    <2> QED
      BY <1>1, Carried
  <1> DEFINE t == [i \in 1..n |-> f[i]]
  <1>3. ASSUME NEW i \in 1..n PROVE t[i] = (i > 1 /\ TakesNext(words[i - 1]) /\ ~t[i - 1])
    <2>1. <<i, f[i - 1]>> \in (1..n) \X BOOLEAN
      BY <1>1, <1>2 DEF Carries
    <2>2. f[i] = (i > 1 /\ TakesNext(words[i - 1]) /\ ~f[i - 1])
      BY <1>2, <2>1 DEF Carries
    <2>3. i > 1 => t[i - 1] = f[i - 1]
      BY <1>1
    <2> QED
      BY <2>2, <2>3
  <1>4. Eqn(t)
    BY <1>3
  <1>5. Eqn(CHOOSE u : Eqn(u))
    BY <1>4
  <1>6. PICK u : Eqn(u) /\ ParametersIn(words) = {i \in 1..n : u[i]}
    BY <1>5 DEF ParametersIn
  <1>7. ASSUME NEW i \in 1..n
        PROVE  u[i] <=> i > 1 /\ TakesNext(words[i - 1]) /\ ~u[i - 1]
    BY <1>6
  <1>8. ASSUME NEW i \in 1..n, i > 1
        PROVE  u[i - 1] <=> (i - 1) \in ParametersIn(words)
    BY <1>1, <1>6, <1>8
  <1> QED
    BY <1>6, <1>7, <1>8

(* The files are appended one by one, at the words that name them.         *)
LEMMA FilesAppended ==
    ASSUME NEW words \in Seq(Words)
    PROVE  /\ FilesIn(words) \in [0..Len(words) -> Seq(Words)]
           /\ FilesIn(words)[0] = <<>>
           /\ \A i \in 1..Len(words) :
                  FilesIn(words)[i] =
                      IF i \in ParametersIn(words) \/ Lex[words[i]].form # "word"
                      THEN FilesIn(words)[i - 1]
                      ELSE Append(FilesIn(words)[i - 1], words[i])
  <1> DEFINE n == Len(words)
             Next1(i, files) == IF i \in ParametersIn(words) \/ Lex[words[i]].form # "word"
                                THEN files ELSE Append(files, words[i])
             step == [p \in (1..n) \X Seq(Words) |-> Next1(p[1], p[2])]
             Eqn(t) == t = [i \in 0..n |-> IF i = 0 THEN <<>>
                                           ELSE IF i \in ParametersIn(words) \/ Lex[words[i]].form # "word"
                                           THEN t[i - 1] ELSE Append(t[i - 1], words[i])]
  <1>1. n \in Nat /\ <<>> \in Seq(Words)
    OBVIOUS
  <1>2. step \in [(1..n) \X Seq(Words) -> Seq(Words)]
    <2>1. ASSUME NEW i \in 1..n, NEW files \in Seq(Words) PROVE Next1(i, files) \in Seq(Words)
      BY <2>1
    <2> HIDE DEF Next1
    <2> QED
      BY <2>1
  <1>3. PICK f : Carries(f, n, Seq(Words), <<>>, step)
    <2> HIDE DEF n, step
    <2> QED
      BY <1>1, <1>2, Carried
  <1>4. f \in [0..n -> Seq(Words)] /\ f[0] = <<>>
    BY <1>3 DEF Carries
  <1>5. ASSUME NEW i \in 1..n PROVE f[i] = Next1(i, f[i - 1])
    <2>1. i - 1 \in 0..n
      BY <1>1
    <2>2. f[i - 1] \in Seq(Words)
      BY <1>4, <2>1
    <2>3. f[i] = step[<<i, f[i - 1]>>]
      BY <1>3 DEF Carries
    <2> HIDE DEF Next1, n
    <2> QED
      BY <2>2, <2>3
  <1>6. Eqn(f)
    <2>1. ASSUME NEW i \in 0..n, i # 0 PROVE f[i] = Next1(i, f[i - 1])
      BY <1>1, <1>5, <2>1
    <2> HIDE DEF n
    <2> QED
      BY <1>4, <2>1
  <1>7. Eqn(CHOOSE u : Eqn(u))
    BY <1>6
  <1>8. FilesIn(words) = CHOOSE u : Eqn(u)
    BY DEF FilesIn
  <1>9. Eqn(FilesIn(words))
    BY <1>7, <1>8
  <1> DEFINE u == FilesIn(words)
             Bad == {i \in 0..n : u[i] \notin Seq(Words)}
  <1>10. u[0] = <<>> /\ \A i \in 1..n : u[i] = Next1(i, u[i - 1])
    <2>1. Eqn(u)
      BY <1>9
    <2> HIDE DEF u, n
    <2>2. 0 \in 0..n /\ \A i \in 1..n : i \in 0..n /\ i # 0
      BY <1>1
    <2> QED
      BY <2>1, <2>2
  <1>11. ASSUME Bad # {} PROVE FALSE
    <2>1. PICK k \in Bad : \A y \in Bad : k <= y
      <3>1. Bad \subseteq Nat
        OBVIOUS
      <3> HIDE DEF Bad
      <3> QED
        BY <1>11, <3>1, NatMinimum, Zenon
    <2> HIDE DEF u, Next1
    <2>2. k \in 1..n /\ k - 1 \in 0..n /\ k - 1 \notin Bad
      <3>1. 0 \notin Bad
        BY <1>1, <1>10
      <3>2. k \in 0..n /\ k # 0
        BY <2>1, <3>1
      <3>3. k - 1 \notin Bad
        BY <2>1, <3>2
      <3> QED
        BY <3>2, <3>3
    <2>3. u[k - 1] \in Seq(Words) /\ words[k] \in Words
      BY <2>2
    <2>4. u[k] \in Seq(Words)
      <3>1. u[k] = Next1(k, u[k - 1])
        BY <1>10, <2>2
      <3> HIDE DEF n
      <3> QED
        BY <2>3, <3>1 DEF Next1
    <2> QED
      BY <2>1, <2>4
  <1>12. u \in [0..n -> Seq(Words)]
    <2>1. DOMAIN u = 0..n /\ u = [i \in 0..n |-> u[i]]
      BY <1>9
    <2>2. \A i \in 0..n : u[i] \in Seq(Words)
      BY <1>11
    <2> HIDE DEF u, n
    <2> QED
      BY <2>1, <2>2
  <1> QED
    BY <1>10, <1>12
-----------------------------------------------------------------------------
(* The place on the command line.                                          *)

(* The word being read is no parameter; letters before the one being read  *)
(* are there only in a cluster.                                            *)
Placed ==
    /\ argv \in Seq(Words)
    /\ arg_id \in 1..(Len(argv) + 1)
    /\ letter \in Nat \ {0}
    /\ arg_id \notin Taken
    /\ letter > 1 => arg_id <= Len(argv) /\ Word.form = "short"

(* The words read so far that end in an option, that turn all metrics on.  *)
ReadTo(o) == {i \in GivenTo(o) : i < arg_id}

LettersRead == {k \in 1..(letter - 1) : Word.names[k] = "a"}
AllRead ==
    {i \in AllAt : i < arg_id} \cup (IF LettersRead = {} THEN {} ELSE {arg_id})

(* Of the letters only a turns all metrics on, and none shows or hides.    *)
LEMMA Letters ==
    ASSUME NEW x \in DOMAIN LetterTable
    PROVE  /\ LetterTable[x] = "--all-metrics" <=> x = "a"
           /\ LetterTable[x] \in {"--all-metrics", "--verbose"} <=> x \in {"a", "v"}
           /\ LetterTable[x] \notin FlagOption \ {"--verbose"}
           /\ LetterTable[x] # "unrecognized"
  BY DEF LetterTable, FlagOption, FlagTable

(* The last option of a word is the one that is read at its end.           *)
LEMMA LastIsRead ==
    ASSUME Placed, arg_id <= Len(argv), Word.form \in {"short", "long"},
           Option # "unrecognized", AtEnd
    PROVE  arg_id \in OptionsAt /\ LastOption(argv[arg_id]) = Option
  <1>1. argv[arg_id] \in Words /\ arg_id \in 1..Len(argv)
    BY DEF Placed
  <1>2. arg_id \in OptionsAt
    BY <1>1 DEF Placed, OptionsAt, Word
  <1>3. Option = Spelled
    BY DEF Option
  <1>4. CASE IsLong
    BY <1>2, <1>3, <1>4 DEF Spelled, LastOption, IsLong, Word
  <1>5. CASE ~IsLong
    <2>1. letter = Len(Word.names) /\ Word.form = "short"
      BY <1>5 DEF AtEnd, IsLong
    <2>2. Word.names[letter] \in DOMAIN LetterTable /\ Spelled = LetterTable[Word.names[letter]]
      BY <1>3, <1>5 DEF Spelled
    <2> QED
      BY <1>2, <1>3, <2>1, <2>2 DEF LastOption, Word
  <1> QED
    BY <1>2, <1>4, <1>5

(* The command line itself does not change.                                *)
LEMMA SameWords ==
    ASSUME argv' = argv
    PROVE  /\ Taken' = Taken /\ OptionsAt' = OptionsAt /\ AllAt' = AllAt
           /\ Named' = Named /\ LastList' = LastList
           /\ \A o : GivenTo(o)' = GivenTo(o)
           /\ \A i : Given(i)' = Given(i)
  <1>1. Taken' = Taken /\ Named' = Named
    BY DEF Taken, Named
  <1>2. OptionsAt' = OptionsAt
    BY <1>1 DEF OptionsAt
  <1>3. AllAt' = AllAt /\ \A o : GivenTo(o)' = GivenTo(o)
    BY <1>2 DEF AllAt, GivenTo
  <1>4. \A i : Given(i)' = Given(i)
    BY DEF Given
  <1>5. LastList' = LastList
    <2>1. GivenTo("--files-from")' = GivenTo("--files-from")
      BY <1>3
    <2> QED
      BY <2>1 DEF LastList, ListsAt, Given
  <1> QED
    BY <1>1, <1>2, <1>3, <1>4, <1>5

(* The second of two words is no parameter unless the first takes one.     *)
LEMMA AfterWord ==
    ASSUME Placed, arg_id <= Len(argv)
    PROVE  /\ arg_id + 1 \in Taken <=> arg_id + 1 <= Len(argv) /\ TakesNext(argv[arg_id])
           /\ arg_id + 2 \in Taken =>
                  arg_id + 1 \notin Taken /\ arg_id + 2 <= Len(argv)
  <1>1. argv \in Seq(Words) /\ arg_id \in 1..Len(argv) /\ arg_id \notin Taken
    BY DEF Placed
  <1>2. \A i \in 1..Len(argv) :
            i \in Taken <=> i > 1 /\ TakesNext(argv[i - 1]) /\ (i - 1) \notin Taken
    BY <1>1, ParametersFollow DEF Taken
  <1>3. \A i \in Taken : i \in 1..Len(argv)
    BY DEF Taken, ParametersIn
  <1>4. ASSUME arg_id + 1 <= Len(argv)
        PROVE  arg_id + 1 \in Taken <=> TakesNext(argv[arg_id])
    <2>1. arg_id + 1 \in 1..Len(argv) /\ (arg_id + 1) - 1 = arg_id /\ arg_id + 1 > 1
      BY <1>1, <1>4
    <2> QED
      BY <1>1, <1>2, <2>1
  <1>5. ASSUME arg_id + 2 \in Taken PROVE arg_id + 1 \notin Taken /\ arg_id + 2 <= Len(argv)
    <2>1. arg_id + 2 \in 1..Len(argv) /\ (arg_id + 2) - 1 = arg_id + 1
      BY <1>1, <1>3, <1>5
    <2> QED
      BY <1>2, <1>5, <2>1
  <1>6. arg_id + 1 \in Taken => arg_id + 1 <= Len(argv)
    BY <1>3
  <1> QED
    BY <1>4, <1>5, <1>6

(* A word is read to its end, with the parameter it takes, if any.         *)
ReadsWord ==
    /\ arg_id <= Len(argv) /\ argv' = argv /\ letter' = 1
    /\ Word.form \in {"word", "short", "long"}
    /\ Word.form # "word" => Option # "unrecognized" /\ AtEnd
    /\ \/ ~TakesNext(argv[arg_id]) /\ arg_id' = arg_id + 1
       \/ TakesNext(argv[arg_id]) /\ arg_id + 1 <= Len(argv) /\ arg_id' = arg_id + 2

(* The option that is then read, when the word is one.                     *)
ReadAt(o) == IF Word.form # "word" /\ o = Option THEN {arg_id} ELSE {}

(* Then the next word that is no parameter is read.                        *)
LEMMA NextWord ==
    ASSUME Placed, ReadsWord
    PROVE  /\ Placed'
           /\ \A i \in OptionsAt : i < arg_id' <=> i < arg_id \/ i = arg_id
           /\ FilesIn(argv')[arg_id' - 1] =
                  IF Word.form = "word" THEN Append(FilesIn(argv)[arg_id - 1], argv[arg_id])
                  ELSE FilesIn(argv)[arg_id - 1]
  <1>1. argv \in Seq(Words) /\ arg_id \in 1..Len(argv) /\ arg_id \notin Taken /\ argv' = argv
    BY DEF Placed, ReadsWord
  <1>2. /\ arg_id + 1 \in Taken <=> arg_id + 1 <= Len(argv) /\ TakesNext(argv[arg_id])
        /\ arg_id + 2 \in Taken => arg_id + 1 \notin Taken /\ arg_id + 2 <= Len(argv)
    BY AfterWord DEF ReadsWord
  <1>3. \A i \in OptionsAt : i \in 1..Len(argv) /\ i \notin Taken
    BY DEF OptionsAt
  <1>4. \A i \in 1..Len(argv) :
            FilesIn(argv)[i] = IF i \in Taken \/ Lex[argv[i]].form # "word"
                               THEN FilesIn(argv)[i - 1]
                               ELSE Append(FilesIn(argv)[i - 1], argv[i])
    BY <1>1, FilesAppended DEF Taken
  <1>5. FilesIn(argv)[arg_id] =
            IF Word.form = "word" THEN Append(FilesIn(argv)[arg_id - 1], argv[arg_id])
            ELSE FilesIn(argv)[arg_id - 1]
    BY <1>1, <1>4 DEF Word
  <1>6. Taken' = Taken /\ letter' = 1
    BY <1>1, SameWords DEF ReadsWord
  <1>7. CASE ~TakesNext(argv[arg_id]) /\ arg_id' = arg_id + 1
    <2>1. arg_id' \notin Taken /\ arg_id' \in 1..(Len(argv) + 1)
      BY <1>1, <1>2, <1>7
    <2>2. Placed'
      BY <1>1, <1>6, <2>1 DEF Placed
    <2>3. arg_id' - 1 = arg_id
      BY <1>1, <1>7
    <2> QED
      BY <1>1, <1>3, <1>5, <1>7, <2>2, <2>3
  <1>8. CASE TakesNext(argv[arg_id]) /\ arg_id + 1 <= Len(argv) /\ arg_id' = arg_id + 2
    <2>1. arg_id + 1 \in Taken /\ arg_id' \notin Taken /\ arg_id' \in 1..(Len(argv) + 1)
      BY <1>1, <1>2, <1>8
    <2>2. Placed'
      BY <1>1, <1>6, <2>1 DEF Placed
    <2>3. arg_id' - 1 = arg_id + 1 /\ arg_id + 1 \in 1..Len(argv) /\ (arg_id + 1) - 1 = arg_id
      BY <1>1, <1>8
    <2>4. FilesIn(argv)[arg_id + 1] = FilesIn(argv)[arg_id]
      BY <1>4, <2>1, <2>3
    <2>5. \A i \in OptionsAt : i # arg_id + 1
      BY <1>3, <2>1
    <2>6. \A i \in OptionsAt : i < arg_id' <=> i < arg_id \/ i = arg_id
      BY <1>1, <1>3, <1>8, <2>5
    <2> QED
      BY <1>1, <1>5, <2>2, <2>3, <2>4, <2>6
  <1> QED
    BY <1>7, <1>8 DEF ReadsWord

(* And what its user reads has been read, as it was meant.                 *)
LEMMA WordRead ==
    ASSUME Placed, ReadsWord
    PROVE  /\ \A o : ReadTo(o)' = ReadTo(o) \cup ReadAt(o)
           /\ AllRead' = AllRead \cup ReadAt("--all-metrics")
  <1>1. argv \in Seq(Words) /\ arg_id \in 1..Len(argv) /\ arg_id \notin Taken /\ argv' = argv
    BY DEF Placed, ReadsWord
  <1>2. /\ \A i \in OptionsAt : i < arg_id' <=> i < arg_id \/ i = arg_id
        /\ \A i \in OptionsAt : i \in 1..Len(argv)
    BY NextWord DEF OptionsAt
  <1>3. /\ AllAt' = AllAt /\ \A o : GivenTo(o)' = GivenTo(o)
        /\ AllAt \subseteq OptionsAt /\ \A o : GivenTo(o) \subseteq OptionsAt
    BY <1>1, SameWords DEF AllAt, GivenTo
  <1>4. ASSUME NEW o PROVE arg_id \in GivenTo(o) <=> Word.form # "word" /\ o = Option
    <2>1. CASE Word.form = "word"
      BY <2>1 DEF GivenTo, OptionsAt, Word
    <2>2. CASE Word.form # "word"
      <3>1. arg_id \in OptionsAt /\ LastOption(argv[arg_id]) = Option
        BY <2>2, LastIsRead DEF ReadsWord
      <3> QED
        BY <2>2, <3>1 DEF GivenTo
    <2> QED
      BY <2>1, <2>2
  <1>5. ASSUME NEW o PROVE ReadTo(o)' = ReadTo(o) \cup ReadAt(o)
    <2>1. ReadTo(o)' = {i \in GivenTo(o) : i < arg_id'}
      BY <1>3 DEF ReadTo
    <2>2. ReadTo(o)' = {i \in GivenTo(o) : i < arg_id \/ i = arg_id}
      BY <1>2, <1>3, <2>1
    <2> QED
      BY <1>4, <2>2 DEF ReadTo, ReadAt
  <1>6. AllRead' = AllRead \cup ReadAt("--all-metrics")
    <2>1. LettersRead' = {}
      BY DEF LettersRead, ReadsWord
    <2>2. AllRead' = {i \in AllAt : i < arg_id \/ i = arg_id}
      BY <1>2, <1>3, <2>1 DEF AllRead
    <2>3. arg_id \in AllAt <=> LettersRead # {} \/ (Word.form # "word" /\ Option = "--all-metrics")
      <3>1. letter \in Nat \ {0} /\ (Word.form # "short" => letter = 1)
        BY DEF Placed
      <3>2. CASE Word.form = "word"
        <4>1. LettersRead = {}
          BY <3>1, <3>2 DEF LettersRead
        <4> QED
          BY <3>2, <4>1 DEF AllAt, OptionsAt, Word
      <3>3. CASE Word.form = "long"
        <4>1. LettersRead = {}
          BY <3>1, <3>3 DEF LettersRead
        <4>2. arg_id \in OptionsAt /\ LastOption(argv[arg_id]) = Option
          BY <3>3, LastIsRead DEF ReadsWord
        <4> QED
          BY <3>3, <4>1, <4>2 DEF AllAt, Word
      <3>4. CASE Word.form = "short"
        <4> DEFINE names == Word.names
        <4>1. arg_id \in OptionsAt /\ LastOption(argv[arg_id]) = Option
          BY <3>4, LastIsRead DEF ReadsWord
        <4>2. letter = Len(names) /\ Option = Spelled /\ ~IsLong
          BY <3>4 DEF ReadsWord, AtEnd, IsLong, Option
        <4>3. names[letter] \in DOMAIN LetterTable /\ Option = LetterTable[names[letter]]
          BY <3>4, <4>2 DEF ReadsWord, Spelled
        <4>4. Option = "--all-metrics" <=> names[letter] = "a"
          BY <4>3, Letters
        <4>5. names \in Seq(STRING) /\ DOMAIN names = 1..letter
          BY <1>1, <4>2, OptionsAssumption DEF Word
        <4>6. LettersRead = {k \in 1..(letter - 1) : names[k] = "a"}
          BY DEF LettersRead
        <4> HIDE DEF names
        <4>7. (\E k \in DOMAIN names : names[k] = "a") <=> LettersRead # {} \/ names[letter] = "a"
          BY <3>1, <4>5, <4>6
        <4>8. arg_id \in AllAt <=> Option = "--all-metrics" \/ \E k \in DOMAIN names : names[k] = "a"
          BY <3>4, <4>1 DEF AllAt, Word, names
        <4> QED
          BY <3>4, <4>4, <4>7, <4>8
      <3> QED
        BY <3>2, <3>3, <3>4 DEF ReadsWord
    <2> QED
      BY <1>2, <1>3, <2>2, <2>3 DEF AllRead, ReadAt
  <1> QED
    BY <1>5, <1>6

-----------------------------------------------------------------------------
(* What each kind of word does to the place.                               *)

(* A step that reads option o, at least, and no source file.               *)
OptionRead ==
    /\ Placed'
    /\ argv' = argv
    /\ FilesIn(argv')[arg_id' - 1] = FilesIn(argv)[arg_id - 1]
    /\ AllRead' = AllRead \cup (IF Option = "--all-metrics" THEN {arg_id} ELSE {})
    /\ \A o : o \notin {"--all-metrics", "--verbose"} =>
                  ReadTo(o)' = ReadTo(o) \cup (IF o = Option THEN {arg_id} ELSE {})

(* A word that ends in an option is such a step.                           *)
LEMMA WordIsOption ==
    ASSUME Placed, ReadsWord, Word.form # "word"
    PROVE  OptionRead
  BY NextWord, WordRead DEF OptionRead, ReadAt, ReadsWord

(* An option that takes a parameter is read with it; the parameter is what *)
(* its user gives, but for the two options that cut it elsewhere.          *)
LEMMA ParameterIsRead ==
    ASSUME Placed, Reading(ValueOption), HasParameter, AfterParameter
    PROVE  /\ OptionRead
           /\ arg_id \in GivenTo(Option)
           /\ Option \notin {"--metric", "--ipcfg"} \/ ~IsLong \/ ~Word.eq => Parameter = Given(arg_id)
  <1>1. /\ arg_id <= Len(argv) /\ Word.form \in {"short", "long"} /\ Option \in ValueOption
        /\ AtEnd
    BY DEF Reading, HasParameter
  <1>2. Option # "unrecognized"
    BY <1>1 DEF ValueOption, GraphOption, SettingOption, ListOption
  <1>3. arg_id \in OptionsAt /\ LastOption(argv[arg_id]) = Option
    BY <1>1, <1>2, LastIsRead
  <1>4. TakesNext(argv[arg_id]) <=> ~Word.eq
    BY <1>1, <1>3 DEF TakesNext, Word
  <1>5. arg_id \in 1..Len(argv)
    BY <1>1 DEF Placed
  <1>6. ReadsWord
    BY <1>1, <1>2, <1>4, <1>5 DEF ReadsWord, AfterParameter, HasParameter
  <1>7. OptionRead
    BY <1>1, <1>6, WordIsOption
  <1>8. Option \notin {"--metric", "--ipcfg"} \/ ~IsLong \/ ~Word.eq => Parameter = Given(arg_id)
    BY DEF Parameter, Given, Word
  <1> QED
    BY <1>3, <1>7, <1>8 DEF GivenTo

(* An option without a parameter ends a word, or is a letter of a cluster  *)
(* that goes on.                                                           *)
LEMMA FlagIsRead ==
    ASSUME Placed, Reading(FlagOption \cup {"--all-metrics"}), AfterFlag
    PROVE  OptionRead
  <1>1. /\ arg_id <= Len(argv) /\ Word.form \in {"short", "long"}
        /\ Option \in FlagOption \cup {"--all-metrics"}
    BY DEF Reading
  <1>2. Option # "unrecognized" /\ Option \notin ValueOption
    BY <1>1 DEF FlagOption, FlagTable, ValueOption, GraphOption, SettingOption, ListOption
  <1>3. Option = Spelled /\ argv' = argv
    BY <1>2 DEF Option, AfterFlag
  <1>4. arg_id \in 1..Len(argv) /\ argv \in Seq(Words)
    BY <1>1 DEF Placed
  <1>5. CASE AtEnd /\ (IsLong \/ ~Word.eq)
    <2>1. LastOption(argv[arg_id]) = Option
      BY <1>1, <1>2, <1>5, LastIsRead
    <2>2. ~TakesNext(argv[arg_id])
      BY <1>2, <2>1 DEF TakesNext
    <2>3. ReadsWord
      BY <1>1, <1>2, <1>5, <2>2 DEF ReadsWord, AfterFlag
    <2> QED
      BY <1>1, <2>3, WordIsOption
  <1>6. CASE ~(AtEnd /\ (IsLong \/ ~Word.eq))
    <2>1. arg_id' = arg_id /\ letter' = letter + 1 /\ ~IsLong /\ Word.form = "short"
      BY <1>1, <1>6 DEF AfterFlag, AtEnd, IsLong
    <2>2. Word.names[letter] \in DOMAIN LetterTable /\ Option = LetterTable[Word.names[letter]]
      BY <1>2, <1>3, <2>1 DEF Spelled
    <2>3. /\ Option = "--all-metrics" <=> Word.names[letter] = "a"
          /\ Option \in {"--all-metrics", "--verbose"}
      BY <1>1, <2>2, Letters
    <2>4. /\ AllAt' = AllAt /\ Taken' = Taken /\ \A o : GivenTo(o)' = GivenTo(o)
          /\ Word' = Word
      BY <1>3, <2>1, SameWords DEF Word
    <2>5. letter \in Nat \ {0}
      BY DEF Placed
    <2>6. Placed'
      BY <1>3, <1>4, <2>1, <2>4, <2>5 DEF Placed
    <2>7. \A o : ReadTo(o)' = ReadTo(o)
      BY <2>1, <2>4 DEF ReadTo
    <2>8. AllRead' = AllRead \cup (IF Option = "--all-metrics" THEN {arg_id} ELSE {})
      <3>1. LettersRead' = {k \in 1..letter : Word.names[k] = "a"}
        BY <2>1, <2>4, <2>5 DEF LettersRead
      <3>2. LettersRead' = {} <=> LettersRead = {} /\ Word.names[letter] # "a"
        BY <2>5, <3>1 DEF LettersRead
      <3> QED
        BY <2>1, <2>3, <2>4, <3>2 DEF AllRead
    <2> QED
      BY <1>3, <2>1, <2>3, <2>6, <2>7, <2>8 DEF OptionRead
  <1> QED
    BY <1>5, <1>6

(* A word that is no option names a source file.                           *)
LEMMA InfileIsRead ==
    ASSUME Placed, Infile
    PROVE  /\ Placed' /\ argv' = argv
           /\ FilesIn(argv')[arg_id' - 1] = Append(FilesIn(argv)[arg_id - 1], argv[arg_id])
           /\ AllRead' = AllRead /\ \A o : ReadTo(o)' = ReadTo(o)
  <1>1. Word.form = "word" /\ arg_id <= Len(argv)
    BY DEF Infile
  <1>2. ~TakesNext(argv[arg_id])
    BY <1>1 DEF TakesNext, LastOption, Word, ValueOption, GraphOption, SettingOption, ListOption
  <1>3. ReadsWord
    BY <1>1, <1>2 DEF ReadsWord, Infile
  <1> QED
    BY <1>1, <1>3, NextWord, WordRead DEF ReadAt, ReadsWord

-----------------------------------------------------------------------------
(* The source files.                                                       *)

(* The strings of a list stay where they were put, whatever comes after.   *)
LEMMA ListsStay ==
    ASSUME NEW s \in Seq(STRING), NEW t \in Seq(STRING), NEW a \in 1..Len(s), NEW b \in a..Len(s)
    PROVE  /\ s \o t \in Seq(STRING) /\ Len(s \o t) = Len(s) + Len(t)
           /\ SubSeq(s, a, b) \in Seq(STRING)
           /\ SubSeq(s \o t, a, b) = SubSeq(s, a, b)
  OBVIOUS

(* The strings of a new list are the last ones.                            *)
LEMMA ListsAppended ==
    ASSUME NEW s \in Seq(STRING), NEW t \in Seq(STRING)
    PROVE  /\ s \o t \in Seq(STRING) /\ Len(s \o t) = Len(s) + Len(t)
           /\ SubSeq(s \o t, Len(s) + 1, Len(s \o t)) = t
  OBVIOUS

(* One list after another.                                                 *)
LEMMA ListsJoined ==
    ASSUME NEW s \in Seq(STRING), NEW t \in Seq(STRING)
    PROVE  /\ s \o t \in Seq(STRING) /\ s \o <<>> = s
           /\ s \o t = <<>> => s = <<>> /\ t = <<>>
  <1>1. s \o t \in Seq(STRING) /\ s \o <<>> = s /\ Len(s \o t) = Len(s) + Len(t)
    OBVIOUS
  <1>2. Len(s) \in Nat /\ Len(t) \in Nat
    OBVIOUS
  <1>3. s \o t = <<>> => Len(s) = 0 /\ Len(t) = 0
    BY <1>1, <1>2
  <1> QED
    BY <1>1, <1>3

(* The list that was read last is still where it was put.                  *)
ListKept ==
    LET lists == ReadTo("--files-from") IN
    IF lists = {} THEN first_infile_id = NoId
    ELSE \E i \in lists :
            /\ \A j \in lists : j <= i
            /\ first_infile_id \in 1..Len(strings)
            /\ last_infile_id \in first_infile_id..Len(strings)
            /\ SubSeq(strings, first_infile_id, last_infile_id) = Lists[Given(i)]

(* What was collected, and what of it is in the archive.                   *)
FilesKept ==
    /\ cmd_infiles \in Seq(STRING) /\ strings \in Seq(STRING) /\ archive \in Seq(STRING)
    /\ pc \in {"args", "register"} => cmd_infiles = FilesIn(argv)[arg_id - 1] /\ archive = <<>>
    /\ pc \in {"archive", "parse"} \/ result.reported =>
           cmd_infiles = Named \o LastList /\ Named \in Seq(STRING) /\ LastList \in Seq(STRING)
    /\ Len(archive) <= Len(cmd_infiles)
    /\ \A i \in 1..Len(archive) : archive[i] = cmd_infiles[Len(cmd_infiles) + 1 - i]
    /\ pc = "parse" \/ result.reported => Len(archive) = Len(cmd_infiles)

(* How the program can have ended, or go on.                               *)
OutcomeSound ==
    /\ pc \in {"args", "register", "archive", "parse", "done"}
    /\ pc \in {"register", "archive", "parse"} => arg_id = Len(argv) + 1
    /\ pc # "done" => result = [status |-> "none", reported |-> FALSE] /\ message = "none"
    /\ SuccessReports

FilesIInv == Placed /\ ListKept /\ FilesKept /\ OutcomeSound

(* It holds before the first word.                                         *)
LEMMA FilesInit == Init => FilesIInv
  <1> SUFFICES ASSUME Init PROVE FilesIInv
    OBVIOUS
  <1>1. argv \in Seq(Words) /\ arg_id = 1 /\ letter = 1
    <2>1. PICK n \in 0..MaxArgs : argv \in [1..n -> Words]
      BY DEF Init
    <2>2. n \in Nat
      BY OptionsAssumption
    <2> QED
      BY <2>1, <2>2 DEF Init
  <1>2. 1 \notin Taken
    <2>1. 1 \in 1..Len(argv) => 1 \notin ParametersIn(argv)
      BY <1>1, ParametersFollow
    <2> QED
      BY <2>1 DEF Taken, ParametersIn
  <1>3. Placed
    BY <1>1, <1>2 DEF Placed
  <1>4. ReadTo("--files-from") = {}
    BY <1>1 DEF ReadTo, GivenTo, OptionsAt
  <1>5. FilesIn(argv)[arg_id - 1] = <<>>
    BY <1>1, FilesAppended
  <1>6. FilesKept
    BY <1>5 DEF Init, FilesKept
  <1>7. OutcomeSound
    BY DEF Init, OutcomeSound, SuccessReports
  <1> QED
    BY <1>3, <1>4, <1>6, <1>7 DEF FilesIInv, ListKept, Init

(* It holds after every way out.                                           *)
LEMMA FilesExit ==
    ASSUME FilesIInv, NEW status \in {"EXIT_SUCCESS", "EXIT_FAILURE"}, NEW text, Exit(status, text),
           status = "EXIT_SUCCESS" =>
               text = "info" \/ (text = "error" /\ Word.form = "bare")
    PROVE  FilesIInv'
  <1>1. /\ argv' = argv /\ arg_id' = arg_id /\ letter' = letter /\ UNCHANGED <<infileVars, archive>>
        /\ pc' = "done" /\ result' = [status |-> status, reported |-> FALSE] /\ message' = text
    BY DEF Exit, argVars
  <1>2. /\ Taken' = Taken /\ Word' = Word /\ \A o : GivenTo(o)' = GivenTo(o)
        /\ \A i : Given(i)' = Given(i)
    BY <1>1, SameWords DEF Word
  <1>3. Placed'
    BY <1>1, <1>2 DEF Placed, FilesIInv
  <1>4. ListKept'
    BY <1>1, <1>2 DEF ListKept, FilesIInv, ReadTo, infileVars
  <1>5. FilesKept'
    BY <1>1 DEF FilesKept, FilesIInv, infileVars
  <1>6. OutcomeSound'
    BY <1>1, <1>2 DEF OutcomeSound, SuccessReports
  <1> QED
    BY <1>3, <1>4, <1>5, <1>6 DEF FilesIInv

(* It holds after every option that lists no files.                        *)
LEMMA FilesOption ==
    ASSUME FilesIInv, OptionRead, Option # "--files-from",
           pc = "args", UNCHANGED <<pc, cmd_infiles, first_infile_id, last_infile_id, archive,
                                    outcomeVars>>,
           strings' = strings \/ \E t \in Seq(STRING) : strings' = strings \o t
    PROVE  FilesIInv'
  <1>1. Placed' /\ argv' = argv /\ FilesIn(argv')[arg_id' - 1] = FilesIn(argv)[arg_id - 1]
    BY DEF OptionRead
  <1>2. strings \in Seq(STRING) /\ strings' \in Seq(STRING)
    BY ListsAppended DEF FilesIInv, FilesKept
  <1>3. ReadTo("--files-from")' = ReadTo("--files-from") /\ \A i : Given(i)' = Given(i)
    BY <1>1, SameWords DEF OptionRead
  <1>4. ListKept'
    <2>1. CASE ReadTo("--files-from") = {}
      BY <1>3, <2>1 DEF ListKept, FilesIInv
    <2>2. CASE ReadTo("--files-from") # {}
      <3>1. PICK i \in ReadTo("--files-from") :
                  /\ \A j \in ReadTo("--files-from") : j <= i
                  /\ first_infile_id \in 1..Len(strings)
                  /\ last_infile_id \in first_infile_id..Len(strings)
                  /\ SubSeq(strings, first_infile_id, last_infile_id) = Lists[Given(i)]
        BY <2>2 DEF ListKept, FilesIInv
      <3>2. /\ first_infile_id \in 1..Len(strings')
            /\ last_infile_id \in first_infile_id..Len(strings')
            /\ SubSeq(strings', first_infile_id, last_infile_id) = Lists[Given(i)]
        <4>1. CASE strings' = strings
          BY <3>1, <4>1
        <4>2. ASSUME NEW t \in Seq(STRING), strings' = strings \o t
              PROVE  <3>2!1 /\ <3>2!2 /\ <3>2!3
          <5>1. /\ Len(strings') = Len(strings) + Len(t)
                /\ SubSeq(strings', first_infile_id, last_infile_id)
                       = SubSeq(strings, first_infile_id, last_infile_id)
            BY <1>2, <3>1, <4>2, ListsStay
          <5>2. Len(strings) \in Nat /\ Len(t) \in Nat
            BY <1>2
          <5> QED
            BY <3>1, <5>1, <5>2
        <4> QED
          BY <4>1, <4>2
      <3>3. first_infile_id' = first_infile_id /\ last_infile_id' = last_infile_id
        OBVIOUS
      <3> QED
        BY <1>3, <2>2, <3>1, <3>2, <3>3 DEF ListKept
    <2> QED
      BY <2>1, <2>2
  <1>5. FilesKept'
    BY <1>1, <1>2 DEF FilesKept, FilesIInv, OutcomeSound, outcomeVars
  <1>6. OutcomeSound'
    BY DEF OutcomeSound, FilesIInv, SuccessReports, outcomeVars
  <1> QED
    BY <1>1, <1>4, <1>5, <1>6 DEF FilesIInv

(* It holds after a list of files, whose strings are the last ones then.   *)
LEMMA FilesListed ==
    ASSUME FilesIInv, FilesFrom
    PROVE  FilesIInv'
  <1>1. Reading({"--files-from"}) /\ HasParameter /\ AfterParameter /\ pc = "args"
    BY DEF FilesFrom, Reading
  <1>2. Option = "--files-from" /\ Reading(ValueOption)
    BY <1>1 DEF Reading, ValueOption, ListOption
  <1>3. OptionRead /\ arg_id \in GivenTo(Option) /\ Parameter = Given(arg_id)
    BY <1>1, <1>2, ParameterIsRead DEF FilesIInv
  <1>4. Placed' /\ argv' = argv /\ FilesIn(argv')[arg_id' - 1] = FilesIn(argv)[arg_id - 1]
    BY <1>3 DEF OptionRead
  <1>5. ReadTo("--files-from")' = ReadTo("--files-from") \cup {arg_id}
    BY <1>2, <1>3 DEF OptionRead
  <1> DEFINE t == Lists[Parameter]
  <1>6. /\ strings \in Seq(STRING) /\ t \in Seq(STRING) /\ t # <<>>
        /\ strings' = strings \o t
        /\ first_infile_id' = Len(strings) + 1 /\ last_infile_id' = Len(strings')
    BY OptionsAssumption DEF FilesIInv, FilesKept, FilesFrom
  <1>7. ListKept'
    <2> HIDE DEF t
    <2>1. /\ strings' \in Seq(STRING) /\ Len(strings') = Len(strings) + Len(t)
          /\ SubSeq(strings', Len(strings) + 1, Len(strings')) = t
      BY <1>6, ListsAppended
    <2>2. Len(strings) \in Nat /\ Len(t) \in Nat /\ Len(t) # 0
      BY <1>6
    <2>3. /\ first_infile_id' \in 1..Len(strings') 
          /\ last_infile_id' \in first_infile_id'..Len(strings')
          /\ SubSeq(strings', first_infile_id', last_infile_id') = t
      BY <1>6, <2>1, <2>2
    <2>4. \A j \in ReadTo("--files-from") \cup {arg_id} : j <= arg_id
      BY DEF ReadTo, GivenTo, OptionsAt, FilesIInv, Placed
    <2>5. \A i : Given(i)' = Given(i)
      BY <1>4, SameWords
    <2>6. t = Lists[Given(arg_id)]
      BY <1>3 DEF t
    <2>7. arg_id \in ReadTo("--files-from")'
      BY <1>5
    <2>8. \E i \in ReadTo("--files-from")' :
             /\ \A j \in ReadTo("--files-from")' : j <= i
             /\ first_infile_id' \in 1..Len(strings')
             /\ last_infile_id' \in first_infile_id'..Len(strings')
             /\ SubSeq(strings', first_infile_id', last_infile_id') = Lists[Given(i)]
      BY <1>5, <2>3, <2>4, <2>6, <2>7
    <2> QED
      BY <2>5, <2>7, <2>8 DEF ListKept
  <1>8. FilesKept'
    <2>1. strings' \in Seq(STRING)
      BY <1>6, ListsAppended
    <2> QED
      BY <1>1, <1>4, <2>1 DEF FilesKept, FilesIInv, OutcomeSound, FilesFrom, AfterParameter, outcomeVars
  <1>9. OutcomeSound'
    BY <1>1 DEF OutcomeSound, FilesIInv, SuccessReports, FilesFrom, AfterParameter, outcomeVars
  <1> QED
    BY <1>4, <1>7, <1>8, <1>9 DEF FilesIInv

(* It holds after a word that names a file.                                *)
LEMMA FilesNamed ==
    ASSUME FilesIInv, Infile
    PROVE  FilesIInv'
  <1>1. /\ Placed' /\ argv' = argv
        /\ FilesIn(argv')[arg_id' - 1] = Append(FilesIn(argv)[arg_id - 1], argv[arg_id])
        /\ ReadTo("--files-from")' = ReadTo("--files-from") /\ \A i : Given(i)' = Given(i)
    BY InfileIsRead, SameWords DEF FilesIInv
  <1>2. /\ pc = "args" /\ UNCHANGED <<pc, strings, first_infile_id, last_infile_id, archive, outcomeVars>>
        /\ cmd_infiles' = Append(cmd_infiles, argv[arg_id])
    BY DEF Infile
  <1>3. argv[arg_id] \in STRING
    BY OptionsAssumption DEF FilesIInv, Placed, Infile
  <1>4. ListKept'
    BY <1>1, <1>2 DEF ListKept, FilesIInv
  <1>5. FilesKept'
    BY <1>1, <1>2, <1>3 DEF FilesKept, FilesIInv, OutcomeSound, outcomeVars
  <1>6. OutcomeSound'
    BY <1>2 DEF OutcomeSound, FilesIInv, SuccessReports, outcomeVars
  <1> QED
    BY <1>1, <1>4, <1>5, <1>6 DEF FilesIInv

(* At the end of the command line everything on it has been read.          *)
LEMMA AllIsRead ==
    ASSUME Placed, arg_id = Len(argv) + 1
    PROVE  /\ \A o : ReadTo(o) = GivenTo(o)
           /\ AllRead = AllAt
           /\ FilesIn(argv)[arg_id - 1] = Named
  <1>1. Len(argv) \in Nat /\ letter = 1
    BY DEF Placed
  <1>2. \A i \in OptionsAt : i < arg_id
    BY <1>1 DEF OptionsAt
  <1>3. LettersRead = {}
    BY <1>1 DEF LettersRead
  <1>4. arg_id - 1 = Len(argv)
    BY <1>1
  <1> QED
    BY <1>2, <1>3, <1>4 DEF ReadTo, GivenTo, AllAt, AllRead, Named

(* The list that is registered is the last one on the command line.        *)
LEMMA LastListKept ==
    ASSUME FilesIInv, pc = "register"
    PROVE  /\ LastList \in Seq(STRING)
           /\ LastList = IF first_infile_id = NoId THEN <<>>
                         ELSE SubSeq(strings, first_infile_id, last_infile_id)
  <1> DEFINE lists == GivenTo("--files-from")
  <1>1. ReadTo("--files-from") = lists
    BY AllIsRead DEF FilesIInv, OutcomeSound
  <1>2. CASE lists = {}
    BY <1>1, <1>2 DEF FilesIInv, ListKept, LastList, ListsAt
  <1>3. CASE lists # {}
    <2> HIDE DEF lists
    <2>1. PICK i \in lists :
              /\ \A j \in lists : j <= i
              /\ first_infile_id \in 1..Len(strings)
              /\ last_infile_id \in first_infile_id..Len(strings)
              /\ SubSeq(strings, first_infile_id, last_infile_id) = Lists[Given(i)]
      BY <1>1, <1>3 DEF FilesIInv, ListKept
    <2>2. \A j \in lists : j \in Nat
      BY DEF lists, GivenTo, OptionsAt
    <2>3. LastOf(lists) \in lists /\ \A j \in lists : j <= LastOf(lists)
      BY <2>1 DEF LastOf
    <2>4. LastOf(lists) = i
      BY <2>1, <2>2, <2>3
    <2>5. LastList = Lists[Given(i)]
      BY <1>3, <2>4 DEF LastList, ListsAt, lists
    <2>6. strings \in Seq(STRING) /\ Len(strings) \in Nat
      BY DEF FilesIInv, FilesKept
    <2>7. first_infile_id # NoId
      BY <2>1, <2>6 DEF NoId
    <2>8. SubSeq(strings, first_infile_id, last_infile_id) \in Seq(STRING)
      BY <2>1, <2>6, ListsStay
    <2> QED
      BY <2>1, <2>5, <2>7, <2>8
  <1> QED
    BY <1>2, <1>3

(* After the command line: the place on it stays.                          *)
LEMMA FilesPlace ==
    ASSUME FilesIInv, UNCHANGED <<argVars, strings, first_infile_id, last_infile_id>>
    PROVE  Placed' /\ ListKept' /\ Named' = Named /\ LastList' = LastList /\ Word' = Word
  <1>1. /\ Taken' = Taken /\ Word' = Word /\ \A o : GivenTo(o)' = GivenTo(o)
        /\ \A i : Given(i)' = Given(i)
        /\ Named' = Named /\ LastList' = LastList
        /\ argv' = argv /\ arg_id' = arg_id /\ letter' = letter
    BY SameWords DEF Word, argVars
  <1>2. Placed'
    BY <1>1 DEF Placed, FilesIInv
  <1>3. ListKept'
    BY <1>1 DEF ListKept, FilesIInv, ReadTo
  <1> QED
    BY <1>1, <1>2, <1>3

(* The files of the list follow those of the command line.                 *)
LEMMA FilesRegistered ==
    ASSUME FilesIInv, Register
    PROVE  FilesIInv'
  <1>1. pc = "register" /\ arg_id = Len(argv) + 1 /\ result = [status |-> "none", reported |-> FALSE]
    BY DEF Register, FilesIInv, OutcomeSound
  <1>2. Placed' /\ ListKept' /\ Named' = Named /\ LastList' = LastList /\ Word' = Word
    BY FilesPlace DEF Register
  <1>3. cmd_infiles = Named /\ archive = <<>> /\ archive' = archive
    BY <1>1, AllIsRead DEF FilesIInv, FilesKept, Register
  <1>4. /\ LastList \in Seq(STRING)
        /\ LastList = IF first_infile_id = NoId THEN <<>>
                      ELSE SubSeq(strings, first_infile_id, last_infile_id)
    BY <1>1, LastListKept
  <1>5. Named \in Seq(STRING)
    BY <1>3 DEF FilesIInv, FilesKept
  <1>6. cmd_infiles' = Named \o LastList
    <2>1. CASE first_infile_id = NoId
      BY <1>3, <1>4, <1>5, <2>1, ListsJoined DEF Register
    <2>2. CASE first_infile_id # NoId
      BY <1>3, <1>4, <2>2 DEF Register
    <2> QED
      BY <2>1, <2>2
  <1>7. /\ cmd_infiles' \in Seq(STRING)
        /\ cmd_infiles' = <<>> => Named = <<>> /\ LastList = <<>>
    BY <1>4, <1>5, <1>6, ListsJoined
  <1>8. FilesKept'
    <2>1. /\ pc' \in {"done", "archive"} /\ result'.reported = FALSE
          /\ strings' = strings /\ strings \in Seq(STRING)
      BY <1>1 DEF Register, FilesIInv, FilesKept
    <2>2. archive' = <<>> /\ Len(<<>>) = 0 /\ <<>> \in Seq(STRING) /\ Len(cmd_infiles') \in Nat
      BY <1>3, <1>7
    <2>3. /\ cmd_infiles' = Named' \o LastList'
          /\ Named' \in Seq(STRING) /\ LastList' \in Seq(STRING)
      BY <1>2, <1>4, <1>5, <1>6
    <2> QED
      BY <1>7, <2>1, <2>2, <2>3 DEF FilesKept
  <1>9. OutcomeSound'
    BY <1>1, <1>2, <1>7 DEF OutcomeSound, FilesIInv, SuccessReports, Register, argVars
  <1> QED
    BY <1>2, <1>8, <1>9 DEF FilesIInv

(* The files are put into the archive from the last to the first.          *)
LEMMA FilesArchived ==
    ASSUME FilesIInv, pc = "archive", Len(archive) < Len(cmd_infiles),
           archive' = Append(archive, cmd_infiles[Len(cmd_infiles) - Len(archive)]),
           UNCHANGED <<pc, argVars, optionVars, infileVars, outcomeVars>>
    PROVE  FilesIInv'
  <1>1. Placed' /\ ListKept' /\ Named' = Named /\ LastList' = LastList /\ Word' = Word
    BY FilesPlace DEF infileVars
  <1>2. /\ cmd_infiles \in Seq(STRING) /\ archive \in Seq(STRING)
        /\ Len(cmd_infiles) \in Nat /\ Len(archive) \in Nat
        /\ \A i \in 1..Len(archive) : archive[i] = cmd_infiles[Len(cmd_infiles) + 1 - i]
    BY SMTT(30) DEF FilesIInv, FilesKept
  <1>3. /\ archive' \in Seq(STRING) /\ Len(archive') = Len(archive) + 1
        /\ \A i \in 1..Len(archive) : archive'[i] = archive[i]
        /\ archive'[Len(archive) + 1] = cmd_infiles[Len(cmd_infiles) - Len(archive)]
    BY <1>2
  <1>4. \A i \in 1..Len(archive') : archive'[i] = cmd_infiles[Len(cmd_infiles) + 1 - i]
    BY <1>2, <1>3
  <1>5. FilesKept'
    BY <1>1, <1>2, <1>3, <1>4 DEF FilesKept, FilesIInv, OutcomeSound, infileVars, outcomeVars
  <1>6. OutcomeSound'
    BY <1>1 DEF OutcomeSound, FilesIInv, SuccessReports, outcomeVars, argVars
  <1> QED
    BY <1>1, <1>5, <1>6 DEF FilesIInv

(* The three graph options are read in the same way.                       *)
LEMMA GraphDrawn ==
    ASSUME Graph \/ Ipcfg
    PROVE  DrawGraph(GraphOption)
  BY DEF Graph, Ipcfg, DrawGraph, Reading, GraphOption

(* Every step keeps the files together.                                    *)
LEMMA FilesStep == FilesIInv /\ [Next]_vars => FilesIInv'
  <1> SUFFICES ASSUME FilesIInv, [Next]_vars PROVE FilesIInv'
    OBVIOUS
  <1> USE DEF ValueOption, GraphOption, SettingOption, ListOption
  <1>1. ASSUME Reading(ValueOption \ {"--files-from"}), HasParameter, AfterParameter
        PROVE  OptionRead /\ Option # "--files-from" /\ pc = "args" /\ pc' = pc
    <2>1. Reading(ValueOption) /\ Option # "--files-from" /\ pc = "args"
      BY <1>1 DEF Reading
    <2> QED
      BY <1>1, <2>1, ParameterIsRead DEF FilesIInv, AfterParameter
  <1>2. ASSUME Reading(FlagOption \cup {"--all-metrics"}), AfterFlag
        PROVE  OptionRead /\ Option # "--files-from" /\ pc = "args" /\ pc' = pc
    <2>1. Option # "--files-from" /\ pc = "args"
      BY <1>2 DEF Reading, FlagOption, FlagTable
    <2> QED
      BY <1>2, <2>1, FlagIsRead DEF FilesIInv, AfterFlag
  <1>3. CASE NoArguments \/ BareDash \/ MetricNotFound \/ ListNotRead \/ NeedsParameter
             \/ Information \/ Show \/ Unrecognized
    BY <1>3, FilesExit
    DEF NoArguments, BareDash, MetricNotFound, ListNotRead, NeedsParameter, Information, Show,
        Unrecognized
  <1>4. CASE Infile
    BY <1>4, FilesNamed
  <1>5. CASE AllMetricsOption
    <2>1. Reading(FlagOption \cup {"--all-metrics"}) /\ AfterFlag
      BY <1>5 DEF AllMetricsOption, Reading
    <2> QED
      BY <1>2, <1>5, <2>1, FilesOption DEF AllMetricsOption, infileVars
  <1>6. CASE SetFlags
    <2>1. Reading(FlagOption \cup {"--all-metrics"}) /\ AfterFlag
      BY <1>6 DEF SetFlags, Reading
    <2> QED
      BY <1>2, <1>6, <2>1, FilesOption DEF SetFlags, infileVars
  <1>7. CASE Graph \/ Ipcfg
    <2>1. Reading(ValueOption \ {"--files-from"}) /\ HasParameter /\ AfterParameter
      BY <1>7, GraphDrawn DEF DrawGraph, Reading
    <2> QED
      BY <1>1, <1>7, <2>1, FilesOption, GraphDrawn DEF DrawGraph, infileVars
  <1>8. CASE Setting
    <2>1. Reading(ValueOption \ {"--files-from"}) /\ HasParameter /\ AfterParameter
      BY <1>8 DEF Setting, Reading
    <2> QED
      BY <1>1, <1>8, <2>1, FilesOption DEF Setting, infileVars
  <1>9. CASE Metric
    <2>1. Reading(ValueOption \ {"--files-from"}) /\ HasParameter /\ AfterParameter
      BY <1>9 DEF Metric, Reading
    <2> QED
      BY <1>1, <1>9, <2>1, FilesOption DEF Metric, infileVars
  <1>10. CASE MetricsFile
    <2>1. Reading(ValueOption \ {"--files-from"}) /\ HasParameter /\ AfterParameter
      BY <1>10 DEF MetricsFile, Reading
    <2>2. Lists[Parameter] \in Seq(STRING) /\ strings' = strings \o Lists[Parameter]
      BY <1>10, OptionsAssumption DEF MetricsFile
    <2> QED
      BY <1>1, <1>10, <2>1, <2>2, FilesOption DEF MetricsFile
  <1>11. CASE FilesFrom
    BY <1>11, FilesListed
  <1>12. CASE EndOfArguments
    <2>1. Placed' /\ ListKept' /\ Named' = Named /\ LastList' = LastList /\ Word' = Word
      BY <1>12, FilesPlace DEF EndOfArguments, infileVars
    <2>2. arg_id = Len(argv) + 1
      BY <1>12 DEF EndOfArguments, FilesIInv, Placed
    <2>3. FilesKept'
      BY <1>12 DEF EndOfArguments, FilesIInv, FilesKept, OutcomeSound, infileVars, outcomeVars, argVars
    <2>4. OutcomeSound'
      BY <1>12, <2>2 DEF EndOfArguments, FilesIInv, OutcomeSound, SuccessReports, outcomeVars, argVars
    <2> QED
      BY <2>1, <2>3, <2>4 DEF FilesIInv
  <1>13. CASE Register
    BY <1>13, FilesRegistered
  <1>14. CASE ArchiveUnit
    <2> DEFINE infile == cmd_infiles[Len(cmd_infiles) - Len(archive)]
    <2>1. CASE infile \in Existing
      BY <1>14, <2>1, FilesArchived DEF ArchiveUnit
    <2>2. CASE infile \notin Existing
      BY <1>14, <2>2, FilesExit DEF ArchiveUnit
    <2> QED
      BY <2>1, <2>2
  <1>15. CASE CloseArchive
    <2>1. Placed' /\ ListKept' /\ Named' = Named /\ LastList' = LastList /\ Word' = Word
      BY <1>15, FilesPlace DEF CloseArchive, infileVars
    <2>2. FilesKept'
      BY <1>15, <2>1 DEF CloseArchive, FilesIInv, FilesKept, OutcomeSound, infileVars, outcomeVars
    <2>3. OutcomeSound'
      BY <1>15 DEF CloseArchive, FilesIInv, OutcomeSound, SuccessReports, outcomeVars, argVars
    <2> QED
      BY <2>1, <2>2, <2>3 DEF FilesIInv
  <1>16. CASE ParseAndReport
    <2>1. Placed' /\ ListKept' /\ Named' = Named /\ LastList' = LastList /\ Word' = Word
      BY <1>16, FilesPlace DEF ParseAndReport, infileVars
    <2>2. FilesKept'
      BY <1>16, <2>1 DEF ParseAndReport, FilesIInv, FilesKept, infileVars
    <2>3. OutcomeSound'
      BY <1>16 DEF ParseAndReport, FilesIInv, OutcomeSound, SuccessReports, argVars
    <2> QED
      BY <2>1, <2>2, <2>3 DEF FilesIInv
  <1>17. CASE UNCHANGED vars
    <2>1. Placed' /\ ListKept' /\ Named' = Named /\ LastList' = LastList /\ Word' = Word
      BY <1>17, FilesPlace DEF vars, infileVars
    <2>2. FilesKept'
      BY <1>17, <2>1 DEF vars, FilesIInv, FilesKept, infileVars, outcomeVars, argVars
    <2>3. OutcomeSound'
      BY <1>17, <2>1 DEF vars, FilesIInv, OutcomeSound, SuccessReports, argVars, outcomeVars
    <2> QED
      BY <2>1, <2>2, <2>3 DEF FilesIInv
  <1> QED
    BY <1>3, <1>4, <1>5, <1>6, <1>7, <1>8, <1>9, <1>10, <1>11, <1>12, <1>13, <1>14, <1>15,
       <1>16, <1>17 DEF Next

(* Of two lists joined each is a part.                                     *)
LEMMA JoinedParts ==
    ASSUME NEW s \in Seq(STRING), NEW t \in Seq(STRING)
    PROVE  /\ Len(s) \in 0..Len(s \o t)
           /\ SubSeq(s \o t, 1, Len(s)) = s
           /\ SubSeq(s \o t, Len(s) + 1, Len(s \o t)) = t
           /\ \A i \in 1..Len(s) : (s \o t)[i] = s[i]
  OBVIOUS

(* What was put down backwards and is read backwards is as it was.         *)
LEMMA ReadBackwards ==
    ASSUME NEW s \in Seq(STRING), NEW t \in Seq(STRING), Len(t) = Len(s),
           \A i \in 1..Len(t) : t[i] = s[Len(t) + 1 - i]
    PROVE  [i \in 1..Len(t) |-> t[Len(t) + 1 - i]] = s
  <1> DEFINE n == Len(s)
             back == [i \in 1..n |-> t[n + 1 - i]]
  <1>1. n \in Nat /\ s \in [1..n -> STRING] /\ Len(t) = n
    BY LenProperties
  <1> HIDE DEF n
  <1>2. \A i \in 1..n : back[i] = s[i]
    <2>1. ASSUME NEW i \in 1..n PROVE t[n + 1 - i] = s[i]
      BY <1>1
    <2> QED
      BY <2>1
  <1>3. s = [i \in 1..n |-> s[i]]
    BY <1>1, Zenon
  <1>4. back = [i \in 1..n |-> s[i]]
    BY <1>2
  <1> QED
    BY <1>1, <1>3, <1>4 DEF n

(* A report is about the files the command line asks for, those of the     *)
(* list when it gives one, and about no file that nothing names.           *)
THEOREM EveryFileIsReported == Spec => []ReportsEveryFile
  <1>1. FilesIInv => ReportsEveryFile
    <2> SUFFICES ASSUME FilesIInv, result.reported PROVE ReportsEveryFile
      BY DEF ReportsEveryFile
    <2> DEFINE files == [i \in 1..Len(archive) |-> archive[Len(archive) + 1 - i]]
    <2>1. /\ cmd_infiles = Named \o LastList /\ Named \in Seq(STRING) /\ LastList \in Seq(STRING)
          /\ cmd_infiles \in Seq(STRING) /\ Len(archive) = Len(cmd_infiles)
          /\ archive \in Seq(STRING)
          /\ \A i \in 1..Len(archive) : archive[i] = cmd_infiles[Len(archive) + 1 - i]
      BY DEF FilesIInv, FilesKept
    <2>2. files = Named \o LastList
      BY <2>1, ReadBackwards
    <2> HIDE DEF files
    <2>3. /\ Len(Named) \in 0..Len(files)
          /\ SubSeq(files, 1, Len(Named)) = Named
          /\ SubSeq(files, Len(Named) + 1, Len(files)) = LastList
          /\ \A i \in 1..Len(Named) : i \in DOMAIN Named /\ files[i] = Named[i]
      BY <2>1, <2>2, JoinedParts
    <2>4. \E n \in 0..Len(files) :
             /\ SubSeq(files, n + 1, Len(files)) = LastList
             /\ ListsAt = {} => SubSeq(files, 1, n) = Named
             /\ Cardinality(ListsAt) = 1 => SubSeq(files, 1, n) \in {<<>>, Named}
             /\ \A i \in 1..n : InList(files[i]) \/ \E k \in DOMAIN Named : Named[k] = files[i]
      BY <2>3
    <2> QED
      BY <2>4 DEF ReportsEveryFile, files
  <1> QED
    BY <1>1, FilesInit, FilesStep, PTL DEF Spec

(* A run that succeeds without a report has a reason to.                   *)
THEOREM SuccessHasReason == Spec => []SuccessReports
  <1>1. FilesIInv => SuccessReports
    BY DEF FilesIInv, OutcomeSound
  <1> QED
    BY <1>1, FilesInit, FilesStep, PTL DEF Spec

-----------------------------------------------------------------------------
(* What the words say of a metric.                                         *)

(* The name that --metric=NAME cuts off its first letter is no other       *)
(* metric's: the one word about metrics that nobody means, as in           *)
(* --metric=AMC, is not on the command line.                               *)
CutIsNoMetric ==
    \A w \in Words :
        Lex[w].form = "long" /\ Lex[w].names[1] = "--metric" /\ Lex[w].eq =>
            BadMetric[Lex[w].value] \notin Metrics

(* Words read that ask for a metric, that exclude it; that hide or show it. *)
GraphTo(m)    == UNION {ReadTo(o) : o \in {g \in GraphOption : GraphMetric(g) = m}}
AskedTo(m)    == {i \in ReadTo("--metric") : Given(i) = m} \cup GraphTo(m)
ExcludedTo(m) == {i \in ReadTo("--exclude") : Given(i) = m}
QuietTo(m)    == GraphTo(m) \cup ReadTo(QuietOption(m))
ShowTo(m)     == ReadTo(ShowOption(m))

(* The last word read on a metric holds.                                   *)
MetricsKept ==
    /\ \A m \in Metrics :
          /\ (\E i \in ExcludedTo(m) : \A j \in AskedTo(m) \cup AllRead : j < i) =>
                 m \notin enabledMetrics
          /\ (\E i \in AskedTo(m) :
                 /\ \A j \in AllRead : j <= i
                 /\ \A n \in Metrics : \A j \in AskedTo(n) \cup ExcludedTo(n) : j <= i) =>
                 m \in enabledMetrics
    /\ (\A n \in Metrics : \A i \in AskedTo(n) \cup ExcludedTo(n) : \E j \in AllRead : j > i) =>
           Metrics \subseteq enabledMetrics

(* The last word read on showing it holds.                                 *)
ShownKept ==
    \A m \in {"RFU", "CC"} :
        ShowFlag(m) \notin flags <=> \E i \in QuietTo(m) : \A j \in ShowTo(m) : j < i

(* What was read lies before what is read.                                 *)
LEMMA ReadBefore ==
    ASSUME Placed
    PROVE  /\ arg_id \in Nat
           /\ \A o : \A i \in ReadTo(o) : i \in Nat /\ i < arg_id
           /\ \A m : \A i \in AskedTo(m) \cup ExcludedTo(m) \cup QuietTo(m) \cup ShowTo(m) :
                         i \in Nat /\ i < arg_id
           /\ \A i \in AllRead : i \in Nat /\ i <= arg_id
  <1>1. arg_id \in Nat
    BY DEF Placed
  <1>2. \A o : \A i \in ReadTo(o) : i \in Nat /\ i < arg_id
    BY DEF ReadTo, GivenTo, OptionsAt
  <1>3. \A i \in AllRead : i \in Nat /\ i <= arg_id
    BY <1>1 DEF AllRead, AllAt, OptionsAt
  <1>4. \A m : \A i \in GraphTo(m) : i \in Nat /\ i < arg_id
    BY <1>2 DEF GraphTo
  <1>5. ASSUME NEW m, NEW i \in AskedTo(m) \cup ExcludedTo(m) \cup QuietTo(m) \cup ShowTo(m)
        PROVE  i \in Nat /\ i < arg_id
    BY <1>2, <1>4 DEF AskedTo, ExcludedTo, QuietTo, ShowTo
  <1> QED
    BY <1>1, <1>2, <1>3, <1>5

(* A word that asks for a metric is the last one.                          *)
LEMMA AskStep ==
    ASSUME Placed, MetricsKept, NEW m0 \in Metrics, AllRead' = AllRead,
           \A m \in Metrics :
               /\ AskedTo(m)' = AskedTo(m) \cup (IF m = m0 THEN {arg_id} ELSE {})
               /\ ExcludedTo(m)' = ExcludedTo(m),
           enabledMetrics' = Enable(enabledMetrics, m0)
    PROVE  MetricsKept'
  <1>1. /\ arg_id \in Nat
        /\ \A m \in Metrics : \A i \in AskedTo(m) \cup ExcludedTo(m) : i \in Nat /\ i < arg_id
        /\ \A i \in AllRead : i \in Nat /\ i <= arg_id
    BY ReadBefore
  <1>2. ASSUME NEW m \in Metrics, NEW i \in ExcludedTo(m)',
               \A j \in AskedTo(m)' \cup AllRead' : j < i
        PROVE  m \notin enabledMetrics'
    <2>1. m # m0
      BY <1>1, <1>2
    <2>2. m \notin enabledMetrics
      BY <1>2, <2>1 DEF MetricsKept
    <2> QED
      BY <2>1, <2>2 DEF Enable
  <1>3. ASSUME NEW m \in Metrics, NEW i \in AskedTo(m)',
               \A n \in Metrics : \A j \in AskedTo(n)' \cup ExcludedTo(n)' : j <= i
        PROVE  m \in enabledMetrics'
    <2>1. arg_id \in AskedTo(m0)'
      OBVIOUS
    <2>2. arg_id <= i
      BY <1>3, <2>1
    <2>3. m = m0
      BY <1>1, <1>3, <2>2
    <2> QED
      BY <2>3 DEF Enable
  <1>4. ~ \A n \in Metrics : \A i \in AskedTo(n)' \cup ExcludedTo(n)' : \E j \in AllRead' : j > i
    BY <1>1
  <1> QED
    BY <1>2, <1>3, <1>4 DEF MetricsKept

(* So is one that excludes it.                                             *)
LEMMA ExcludeStep ==
    ASSUME Placed, MetricsKept, NEW m0 \in Metrics, AllRead' = AllRead,
           \A m \in Metrics :
               /\ ExcludedTo(m)' = ExcludedTo(m) \cup (IF m = m0 THEN {arg_id} ELSE {})
               /\ AskedTo(m)' = AskedTo(m),
           enabledMetrics' = Exclude(enabledMetrics, m0)
    PROVE  MetricsKept'
  <1>1. /\ arg_id \in Nat
        /\ \A m \in Metrics : \A i \in AskedTo(m) \cup ExcludedTo(m) : i \in Nat /\ i < arg_id
        /\ \A i \in AllRead : i \in Nat /\ i <= arg_id
    BY ReadBefore
  <1>2. ASSUME NEW m \in Metrics, NEW i \in ExcludedTo(m)',
               \A j \in AskedTo(m)' \cup AllRead' : j < i
        PROVE  m \notin enabledMetrics'
    <2>1. CASE m = m0
      BY <2>1 DEF Exclude
    <2>2. CASE m # m0
      <3>1. m \notin enabledMetrics
        BY <1>2, <2>2 DEF MetricsKept
      <3> QED
        BY <3>1 DEF Exclude
    <2> QED
      BY <2>1, <2>2
  <1>3. ~ \E m \in Metrics : \E i \in AskedTo(m)' :
             \A n \in Metrics : \A j \in AskedTo(n)' \cup ExcludedTo(n)' : j <= i
    BY <1>1
  <1>4. ~ \A n \in Metrics : \A i \in AskedTo(n)' \cup ExcludedTo(n)' : \E j \in AllRead' : j > i
    BY <1>1
  <1> QED
    BY <1>2, <1>3, <1>4 DEF MetricsKept

(* And one that turns all of them on.                                      *)
LEMMA AllStep ==
    ASSUME Placed, MetricsKept, AllRead' = AllRead \cup {arg_id},
           \A m \in Metrics : AskedTo(m)' = AskedTo(m) /\ ExcludedTo(m)' = ExcludedTo(m),
           enabledMetrics' = AllMetrics
    PROVE  MetricsKept'
  <1>1. /\ arg_id \in Nat
        /\ \A m \in Metrics : \A i \in AskedTo(m) \cup ExcludedTo(m) : i \in Nat /\ i < arg_id
    BY ReadBefore
  <1>2. ~ \E m \in Metrics : \E i \in ExcludedTo(m)' : \A j \in AskedTo(m)' \cup AllRead' : j < i
    BY <1>1
  <1>3. Metrics \subseteq enabledMetrics'
    BY DEF AllMetrics
  <1> QED
    BY <1>2, <1>3 DEF MetricsKept

(* What an option read adds to the words on a metric.                      *)
LEMMA OptionCounts ==
    ASSUME OptionRead, NEW m
    PROVE  /\ AskedTo(m)' = AskedTo(m) \cup
                  (IF \/ Option = "--metric" /\ Given(arg_id) = m
                      \/ Option \in GraphOption /\ GraphMetric(Option) = m
                   THEN {arg_id} ELSE {})
           /\ ExcludedTo(m)' = ExcludedTo(m) \cup
                  (IF Option = "--exclude" /\ Given(arg_id) = m THEN {arg_id} ELSE {})
           /\ QuietTo(m)' = QuietTo(m) \cup
                  (IF \/ Option = QuietOption(m)
                      \/ Option \in GraphOption /\ GraphMetric(Option) = m
                   THEN {arg_id} ELSE {})
           /\ ShowTo(m)' = ShowTo(m) \cup (IF Option = ShowOption(m) THEN {arg_id} ELSE {})
  <1> DEFINE Added(o) == IF o = Option THEN {arg_id} ELSE {}
  <1>1. \A i : Given(i)' = Given(i)
    BY SameWords DEF OptionRead
  <1>2. /\ ReadTo("--metric")' = ReadTo("--metric") \cup Added("--metric")
        /\ ReadTo("--exclude")' = ReadTo("--exclude") \cup Added("--exclude")
        /\ ReadTo(QuietOption(m))' = ReadTo(QuietOption(m)) \cup Added(QuietOption(m))
        /\ ReadTo(ShowOption(m))' = ReadTo(ShowOption(m)) \cup Added(ShowOption(m))
        /\ \A o \in GraphOption : ReadTo(o)' = ReadTo(o) \cup Added(o)
    BY DEF OptionRead, QuietOption, ShowOption, GraphOption
  <1>3. GraphTo(m)' = GraphTo(m) \cup
            (IF Option \in GraphOption /\ GraphMetric(Option) = m THEN {arg_id} ELSE {})
    BY <1>2 DEF GraphTo
  <1> QED
    BY <1>1, <1>2, <1>3 DEF AskedTo, ExcludedTo, QuietTo, ShowTo

(* What is said of the metrics is as before when nothing more is said.     *)
LEMMA AskedSame ==
    ASSUME UNCHANGED <<argVars, optionVars>>
    PROVE  (MetricsKept => MetricsKept') /\ (ShownKept => ShownKept')
  <1>1. /\ \A o : ReadTo(o)' = ReadTo(o)
        /\ AllRead' = AllRead
        /\ \A i : Given(i)' = Given(i)
    BY SameWords DEF argVars, ReadTo, AllRead, LettersRead, Word
  <1>2. \A m : /\ AskedTo(m)' = AskedTo(m) /\ ExcludedTo(m)' = ExcludedTo(m)
               /\ QuietTo(m)' = QuietTo(m) /\ ShowTo(m)' = ShowTo(m)
    BY <1>1 DEF AskedTo, ExcludedTo, QuietTo, ShowTo, GraphTo
  <1>3. enabledMetrics' = enabledMetrics /\ flags' = flags
    BY DEF optionVars
  <1>4. MetricsKept => MetricsKept'
    BY <1>1, <1>2, <1>3 DEF MetricsKept
  <1>5. ShownKept => ShownKept'
    BY <1>2, <1>3 DEF ShownKept
  <1> QED
    BY <1>4, <1>5

(* The word about metrics that is read last is the one that counts.        *)
LEMMA MetricsStep == CutIsNoMetric /\ FilesIInv /\ MetricsKept /\ [Next]_vars => MetricsKept'
  <1> SUFFICES ASSUME CutIsNoMetric, FilesIInv, MetricsKept, [Next]_vars
               PROVE  MetricsKept'
    OBVIOUS
  <1>0. Placed
    BY DEF FilesIInv
  <1>1. ASSUME NEW options \in SUBSET ValueOption, Reading(options), HasParameter, AfterParameter
        PROVE  /\ OptionRead /\ Option \in options /\ AllRead' = AllRead
               /\ Option \notin {"--metric", "--ipcfg"} \/ ~IsLong \/ ~Word.eq =>
                      Parameter = Given(arg_id)
    <2>1. Reading(ValueOption) /\ Option \in options /\ Option # "--all-metrics"
      BY <1>1 DEF Reading, ValueOption, GraphOption, SettingOption, ListOption
    <2>2. OptionRead
      BY <1>0, <1>1, <2>1, ParameterIsRead
    <2> QED
      BY <1>0, <1>1, <2>1, <2>2, ParameterIsRead DEF OptionRead
  <1>2. ASSUME OptionRead, AllRead' = AllRead, enabledMetrics' = enabledMetrics,
               Option \notin GraphOption \cup {"--metric", "--exclude"}
        PROVE  MetricsKept'
    <2>1. \A m : AskedTo(m)' = AskedTo(m) /\ ExcludedTo(m)' = ExcludedTo(m)
      BY <1>2, OptionCounts
    <2> QED
      BY <1>2, <2>1 DEF MetricsKept
  <1>3. CASE AllMetricsOption
    <2>1. Reading(FlagOption \cup {"--all-metrics"}) /\ AfterFlag /\ Option = "--all-metrics"
      BY <1>3 DEF AllMetricsOption, Reading
    <2>2. OptionRead
      BY <1>0, <2>1, FlagIsRead
    <2>3. \A m : AskedTo(m)' = AskedTo(m) /\ ExcludedTo(m)' = ExcludedTo(m)
      BY <2>1, <2>2, OptionCounts DEF GraphOption
    <2>4. AllRead' = AllRead \cup {arg_id}
      BY <2>1, <2>2 DEF OptionRead
    <2> QED
      BY <1>0, <1>3, <2>3, <2>4, AllStep DEF AllMetricsOption
  <1>4. CASE SetFlags
    <2>1. Reading(FlagOption \cup {"--all-metrics"}) /\ AfterFlag /\ Option \in FlagOption
      BY <1>4 DEF SetFlags, Reading
    <2>2. OptionRead /\ Option \notin GraphOption \cup {"--metric", "--exclude", "--all-metrics"}
      BY <1>0, <2>1, FlagIsRead DEF FlagOption, FlagTable, GraphOption
    <2>3. AllRead' = AllRead
      BY <2>2 DEF OptionRead
    <2> QED
      BY <1>2, <1>4, <2>2, <2>3 DEF SetFlags
  <1>5. CASE Graph \/ Ipcfg
    <2>1. OptionRead /\ Option \in GraphOption /\ AllRead' = AllRead
      BY <1>1, <1>5, GraphDrawn DEF DrawGraph, ValueOption
    <2>2. GraphMetric(Option) \in Metrics /\ Option \notin {"--metric", "--exclude"}
      BY <2>1 DEF GraphOption, GraphMetric, Metrics
    <2>3. \A m : /\ AskedTo(m)' = AskedTo(m) \cup (IF m = GraphMetric(Option) THEN {arg_id} ELSE {})
                 /\ ExcludedTo(m)' = ExcludedTo(m)
      <3>1. ASSUME NEW m
            PROVE  /\ AskedTo(m)' = AskedTo(m) \cup
                          (IF \/ Option = "--metric" /\ Given(arg_id) = m
                              \/ Option \in GraphOption /\ GraphMetric(Option) = m
                           THEN {arg_id} ELSE {})
                   /\ ExcludedTo(m)' = ExcludedTo(m) \cup
                          (IF Option = "--exclude" /\ Given(arg_id) = m THEN {arg_id} ELSE {})
        BY <2>1, OptionCounts, Zenon
      <3>2. ASSUME NEW m
            PROVE  /\ AskedTo(m)' =
                          AskedTo(m) \cup (IF m = GraphMetric(Option) THEN {arg_id} ELSE {})
                   /\ ExcludedTo(m)' = ExcludedTo(m)
        BY <2>1, <2>2, <3>1
      <3> QED
        BY <3>2
    <2>4. enabledMetrics' = Enable(enabledMetrics, GraphMetric(Option))
      BY <1>5, GraphDrawn DEF DrawGraph
    <2> QED
      BY <1>0, <2>1, <2>2, <2>3, <2>4, AskStep
  <1>6. CASE Setting
    <2>1. OptionRead /\ Option \in SettingOption /\ AllRead' = AllRead
      BY <1>1, <1>6 DEF Setting, ValueOption
    <2> QED
      BY <1>2, <1>6, <2>1 DEF Setting, SettingOption, GraphOption
  <1>7. CASE Metric
    <2>1. OptionRead /\ Option \in {"--metric", "--exclude"} /\ AllRead' = AllRead
      BY <1>1, <1>7 DEF Metric, ValueOption
    <2>2. Parameter = Given(arg_id) /\ Parameter \in Metrics
      <3>1. argv[arg_id] \in Words /\ Parameter \in Metrics
        BY <1>0, <1>7 DEF Metric, Reading, Placed
      <3>2. ~(Option = "--metric" /\ IsLong /\ Word.eq)
        BY <3>1 DEF CutIsNoMetric, Parameter, IsLong, Word, Option, Spelled
      <3>3. Option \notin {"--metric", "--ipcfg"} \/ ~IsLong \/ ~Word.eq
        BY <2>1, <3>2
      <3>4. Parameter = Given(arg_id)
        BY <1>1, <1>7, <3>3 DEF Metric, ValueOption
      <3> QED
        BY <3>1, <3>4
    <2>3. CASE Option = "--metric"
      <3>1. \A m : /\ AskedTo(m)' = AskedTo(m) \cup (IF m = Parameter THEN {arg_id} ELSE {})
                   /\ ExcludedTo(m)' = ExcludedTo(m)
        BY <2>1, <2>2, <2>3, OptionCounts DEF GraphOption
      <3>2. enabledMetrics' = Enable(enabledMetrics, Parameter)
        BY <1>7, <2>3 DEF Metric
      <3> QED
        BY <1>0, <2>1, <2>2, <3>1, <3>2, AskStep
    <2>4. CASE Option = "--exclude"
      <3>1. \A m : /\ ExcludedTo(m)' = ExcludedTo(m) \cup (IF m = Parameter THEN {arg_id} ELSE {})
                   /\ AskedTo(m)' = AskedTo(m)
        <4>1. Option \notin GraphOption /\ Option # "--metric"
          BY <2>4 DEF GraphOption
        <4> QED
          BY <2>1, <2>2, <2>4, <4>1, OptionCounts
      <3>2. enabledMetrics' = Exclude(enabledMetrics, Parameter)
        BY <1>7, <2>4 DEF Metric
      <3> QED
        BY <1>0, <2>1, <2>2, <3>1, <3>2, ExcludeStep
    <2> QED
      BY <2>1, <2>3, <2>4
  <1>8. CASE MetricsFile \/ FilesFrom
    <2>1. OptionRead /\ Option \in ListOption /\ AllRead' = AllRead
      BY <1>1, <1>8 DEF MetricsFile, FilesFrom, ValueOption, ListOption
    <2> QED
      BY <1>2, <1>8, <2>1 DEF MetricsFile, FilesFrom, ListOption, GraphOption, optionVars
  <1>9. CASE Infile
    <2>1. argv' = argv /\ AllRead' = AllRead /\ \A o : ReadTo(o)' = ReadTo(o)
      BY <1>0, <1>9, InfileIsRead
    <2>2. \A i : Given(i)' = Given(i)
      BY <2>1, SameWords
    <2>3. \A m : AskedTo(m)' = AskedTo(m) /\ ExcludedTo(m)' = ExcludedTo(m)
      BY <2>1, <2>2 DEF AskedTo, ExcludedTo, GraphTo
    <2> QED
      BY <1>9, <2>1, <2>3 DEF Infile, MetricsKept, optionVars
  <1>10. CASE UNCHANGED <<argVars, optionVars>>
    BY <1>10, AskedSame
  <1>11. ASSUME NoArguments \/ BareDash \/ MetricNotFound \/ ListNotRead \/ NeedsParameter
                \/ Information \/ Show \/ Unrecognized \/ EndOfArguments \/ Register
                \/ ArchiveUnit \/ CloseArchive \/ ParseAndReport \/ UNCHANGED vars
         PROVE  UNCHANGED <<argVars, optionVars>>
    BY <1>11
    DEF NoArguments, BareDash, MetricNotFound, ListNotRead, NeedsParameter, Information, Show,
        Unrecognized, Exit, EndOfArguments, Register, ArchiveUnit, CloseArchive, ParseAndReport, vars
  <1> QED
    BY <1>3, <1>4, <1>5, <1>6, <1>7, <1>8, <1>9, <1>10, <1>11 DEF Next

(* Of the options without a parameter only those that show or hide a       *)
(* metric touch the bit that shows it.                                     *)
LEMMA FlagEffect ==
    ASSUME NEW m \in {"RFU", "CC"}, SetFlags
    PROVE  /\ Option = QuietOption(m) => ShowFlag(m) \notin flags'
           /\ Option = ShowOption(m) => ShowFlag(m) \in flags'
           /\ Option \notin {QuietOption(m), ShowOption(m)} =>
                  (ShowFlag(m) \in flags' <=> ShowFlag(m) \in flags)
  <1>1. PICK row \in FlagTable : row[1] = Option /\ flags' = (flags \ row[2]) \cup row[3]
    BY DEF SetFlags
  <1>2. CASE m = "RFU"
    BY <1>1, <1>2 DEF FlagTable, QuietOption, ShowOption, ShowFlag
  <1>3. CASE m = "CC"
    BY <1>1, <1>3 DEF FlagTable, QuietOption, ShowOption, ShowFlag
  <1> QED
    BY <1>2, <1>3

(* The word about showing a metric that is read last is the one that       *)
(* counts.                                                                 *)
LEMMA ShownStep == FilesIInv /\ ShownKept /\ [Next]_vars => ShownKept'
  <1> SUFFICES ASSUME FilesIInv, ShownKept, [Next]_vars PROVE ShownKept'
    OBVIOUS
  <1>0. Placed
    BY DEF FilesIInv
  <1>1. ASSUME OptionRead, flags' = flags,
               Option \in (ValueOption \ GraphOption) \cup {"--all-metrics"}
        PROVE  ShownKept'
    <2>1. ASSUME NEW m \in {"RFU", "CC"} PROVE QuietTo(m)' = QuietTo(m) /\ ShowTo(m)' = ShowTo(m)
      <3>1. Option \notin {QuietOption(m), ShowOption(m)} \cup GraphOption
        BY <1>1 DEF QuietOption, ShowOption, ValueOption, SettingOption, ListOption, GraphOption
      <3> QED
        BY <1>1, <3>1, OptionCounts
    <2> QED
      BY <1>1, <2>1 DEF ShownKept
  <1>2. ASSUME NEW options \in SUBSET ValueOption, Reading(options), HasParameter, AfterParameter
        PROVE  OptionRead /\ Option \in options
    <2>1. Reading(ValueOption) /\ Option \in options
      BY <1>2 DEF Reading
    <2> QED
      BY <1>0, <1>2, <2>1, ParameterIsRead
  <1>3. CASE AllMetricsOption
    <2>1. Reading(FlagOption \cup {"--all-metrics"}) /\ AfterFlag /\ Option = "--all-metrics"
      BY <1>3 DEF AllMetricsOption, Reading
    <2>2. OptionRead
      BY <1>0, <2>1, FlagIsRead
    <2> QED
      BY <1>1, <1>3, <2>1, <2>2 DEF AllMetricsOption
  <1>4. CASE SetFlags
    <2>1. Reading(FlagOption \cup {"--all-metrics"}) /\ AfterFlag /\ Option \in FlagOption
      BY <1>4 DEF SetFlags, Reading
    <2>2. OptionRead
      BY <1>0, <2>1, FlagIsRead
    <2>3. Option \notin GraphOption
      BY <2>1 DEF FlagOption, FlagTable, GraphOption
    <2>4. ASSUME NEW m \in {"RFU", "CC"}
          PROVE  ShowFlag(m)' \notin flags' <=> \E i \in QuietTo(m)' : \A j \in ShowTo(m)' : j < i
      <3>1. /\ QuietTo(m)' = QuietTo(m) \cup (IF Option = QuietOption(m) THEN {arg_id} ELSE {})
            /\ ShowTo(m)' = ShowTo(m) \cup (IF Option = ShowOption(m) THEN {arg_id} ELSE {})
            /\ ShowFlag(m)' = ShowFlag(m)
        BY <2>2, <2>3, OptionCounts DEF ShowFlag
      <3>2. /\ arg_id \in Nat
            /\ \A i \in QuietTo(m) \cup ShowTo(m) : i \in Nat /\ i < arg_id
        BY <1>0, ReadBefore
      <3>3. QuietOption(m) # ShowOption(m)
        BY DEF QuietOption, ShowOption
      <3>4. CASE Option = QuietOption(m)
        BY <1>4, <3>1, <3>2, <3>3, <3>4, FlagEffect
      <3>5. CASE Option = ShowOption(m)
        BY <1>4, <3>1, <3>2, <3>3, <3>5, FlagEffect
      <3>6. CASE Option \notin {QuietOption(m), ShowOption(m)}
        <4>1. ShowFlag(m) \in flags' <=> ShowFlag(m) \in flags
          BY <1>4, <3>6, FlagEffect
        <4> QED
          BY <3>1, <3>6, <4>1 DEF ShownKept
      <3> QED
        BY <3>4, <3>5, <3>6
    <2> QED
      BY <2>4 DEF ShownKept
  <1>5. CASE Graph \/ Ipcfg
    <2>1. OptionRead /\ Option \in GraphOption
      BY <1>2, <1>5, GraphDrawn DEF DrawGraph, ValueOption
    <2>2. flags' = (flags \cup {GraphFlag[GraphName(Option)]}) \ {ShowFlag(GraphMetric(Option))}
      BY <1>5, GraphDrawn DEF DrawGraph
    <2>3. GraphFlag[GraphName(Option)] \in {"CG_ENABLE", "CFG_ENABLE", "IPCFG_ENABLE"}
      BY <2>1 DEF GraphFlag, GraphName, GraphOption
    <2>4. ASSUME NEW m \in {"RFU", "CC"}
          PROVE  ShowFlag(m)' \notin flags' <=> \E i \in QuietTo(m)' : \A j \in ShowTo(m)' : j < i
      <3>1. Option \notin {QuietOption(m), ShowOption(m)}
        BY <2>1 DEF QuietOption, ShowOption, GraphOption
      <3>2. /\ QuietTo(m)' = QuietTo(m) \cup (IF GraphMetric(Option) = m THEN {arg_id} ELSE {})
            /\ ShowTo(m)' = ShowTo(m)
            /\ ShowFlag(m)' = ShowFlag(m)
        <4>1. QuietTo(m)' = QuietTo(m) \cup
                  (IF \/ Option = QuietOption(m)
                      \/ Option \in GraphOption /\ GraphMetric(Option) = m
                   THEN {arg_id} ELSE {})
          BY <2>1, OptionCounts
        <4>2. ShowTo(m)' = ShowTo(m) \cup (IF Option = ShowOption(m) THEN {arg_id} ELSE {})
          BY <2>1, OptionCounts
        <4> QED
          BY <2>1, <3>1, <4>1, <4>2 DEF ShowFlag
      <3>3. /\ arg_id \in Nat
            /\ \A i \in QuietTo(m) \cup ShowTo(m) : i \in Nat /\ i < arg_id
        BY <1>0, ReadBefore
      <3>4. CASE GraphMetric(Option) = m
        BY <2>2, <3>2, <3>3, <3>4
      <3>5. CASE GraphMetric(Option) # m
        <4>1. ShowFlag(m) \in flags' <=> ShowFlag(m) \in flags
          BY <2>1, <2>2, <2>3, <3>5 DEF ShowFlag, GraphMetric
        <4> QED
          BY <3>2, <3>5, <4>1 DEF ShownKept
      <3> QED
        BY <3>4, <3>5
    <2> QED
      BY <2>4 DEF ShownKept
  <1>6. CASE Setting
    <2>1. OptionRead /\ Option \in ValueOption \ GraphOption
      BY <1>2, <1>6 DEF Setting, ValueOption, SettingOption, GraphOption
    <2> QED
      BY <1>1, <1>6, <2>1 DEF Setting
  <1>7. CASE Metric
    <2>1. OptionRead /\ Option \in ValueOption \ GraphOption
      BY <1>2, <1>7 DEF Metric, ValueOption, GraphOption
    <2> QED
      BY <1>1, <1>7, <2>1 DEF Metric
  <1>8. CASE MetricsFile \/ FilesFrom
    <2>1. OptionRead /\ Option \in ValueOption \ GraphOption
      BY <1>2, <1>8 DEF MetricsFile, FilesFrom, ValueOption, ListOption, GraphOption
    <2> QED
      BY <1>1, <1>8, <2>1 DEF MetricsFile, FilesFrom, optionVars
  <1>9. CASE Infile
    <2>1. \A o : ReadTo(o)' = ReadTo(o)
      BY <1>0, <1>9, InfileIsRead
    <2>2. \A m : QuietTo(m)' = QuietTo(m) /\ ShowTo(m)' = ShowTo(m)
      BY <2>1 DEF QuietTo, ShowTo, GraphTo
    <2> QED
      BY <1>9, <2>2 DEF Infile, ShownKept, optionVars
  <1>10. CASE UNCHANGED <<argVars, optionVars>>
    BY <1>10, AskedSame
  <1>11. ASSUME NoArguments \/ BareDash \/ MetricNotFound \/ ListNotRead \/ NeedsParameter
                \/ Information \/ Show \/ Unrecognized \/ EndOfArguments \/ Register
                \/ ArchiveUnit \/ CloseArchive \/ ParseAndReport \/ UNCHANGED vars
         PROVE  UNCHANGED <<argVars, optionVars>>
    BY <1>11
    DEF NoArguments, BareDash, MetricNotFound, ListNotRead, NeedsParameter, Information, Show,
        Unrecognized, Exit, EndOfArguments, Register, ArchiveUnit, CloseArchive, ParseAndReport, vars
  <1> QED
    BY <1>3, <1>4, <1>5, <1>6, <1>7, <1>8, <1>9, <1>10, <1>11 DEF Next

(* Before the first word all metrics are on and shown.                     *)
LEMMA AskedInit == Init => MetricsKept /\ ShownKept
  <1> SUFFICES ASSUME Init PROVE MetricsKept /\ ShownKept
    OBVIOUS
  <1>1. arg_id = 1 /\ letter = 1 /\ enabledMetrics = AllMetrics /\ flags = FlagsDefault
    BY DEF Init
  <1>2. Placed
    BY FilesInit DEF FilesIInv
  <1>3. \A o : ReadTo(o) = {}
    BY <1>1 DEF ReadTo, GivenTo, OptionsAt
  <1>4. \A m : AskedTo(m) = {} /\ ExcludedTo(m) = {} /\ QuietTo(m) = {} /\ ShowTo(m) = {}
    BY <1>3 DEF AskedTo, ExcludedTo, QuietTo, ShowTo, GraphTo
  <1>5. MetricsKept
    BY <1>1, <1>4 DEF MetricsKept, AllMetrics
  <1>6. ShownKept
    BY <1>1, <1>4 DEF ShownKept, FlagsDefault, ShowFlag
  <1> QED
    BY <1>5, <1>6

(* The metrics that run are those that the last words on them ask for,     *)
(* whatever the command line, if no metric's name is another's with a      *)
(* letter before it.                                                       *)
THEOREM LastWordHolds == CutIsNoMetric /\ Spec => []MetricsAsAsked
  <1> SUFFICES ASSUME CutIsNoMetric PROVE Spec => []MetricsAsAsked
    OBVIOUS
  <1> DEFINE AskedIInv == FilesIInv /\ MetricsKept
  <1>1. Init => AskedIInv
    BY FilesInit, AskedInit
  <1>2. AskedIInv /\ [Next]_vars => AskedIInv'
    BY FilesStep, MetricsStep
  <1>3. AskedIInv => MetricsAsAsked
    <2> SUFFICES ASSUME AskedIInv, pc = "register" PROVE MetricsAsAsked
      BY DEF MetricsAsAsked
    <2>1. AllRead = AllAt /\ \A o : ReadTo(o) = GivenTo(o)
      BY AllIsRead DEF FilesIInv, OutcomeSound
    <2>2. \A m : AskedTo(m) = AskedAt(m) /\ ExcludedTo(m) = ExcludedAt(m)
      BY <2>1 DEF AskedTo, ExcludedTo, AskedAt, ExcludedAt, GraphTo, GraphAt
    <2> QED
      BY <2>1, <2>2 DEF MetricsKept, MetricsAsAsked, ListedAt
  <1> QED
    BY <1>1, <1>2, <1>3, PTL DEF Spec

(* A metric that only a graph needs is hidden when the last word on        *)
(* showing it hides it, and only when a word that hides it came last.      *)
THEOREM LastWordShows == Spec => []ShownAsAsked
  <1> DEFINE ShownIInv == FilesIInv /\ ShownKept
  <1>1. Init => ShownIInv
    BY FilesInit, AskedInit
  <1>2. ShownIInv /\ [Next]_vars => ShownIInv'
    BY FilesStep, ShownStep
  <1>3. ShownIInv => ShownAsAsked
    <2> SUFFICES ASSUME ShownIInv, pc = "register" PROVE ShownAsAsked
      BY DEF ShownAsAsked
    <2>1. \A o : ReadTo(o) = GivenTo(o)
      BY AllIsRead DEF FilesIInv, OutcomeSound
    <2>2. \A m : GraphTo(m) = GraphAt(m)
      BY <2>1 DEF GraphTo, GraphAt
    <2> QED
      BY <2>1, <2>2 DEF ShownKept, ShownAsAsked, QuietTo, ShowTo, QuietAt, ShowAt
  <1> QED
    BY <1>1, <1>2, <1>3, PTL DEF Spec
===============================================================================
