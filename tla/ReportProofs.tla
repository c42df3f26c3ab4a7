----------------------------- MODULE ReportProofs -----------------------------
(***************************************************************************)
(* Proofs about reportCsv, for every table of metrics, every number of     *)
(* rows and every choice of bits: what is written is always the beginning  *)
(* of the report, wherever a write fails, and all of it when the report    *)
(* succeeds.                                                               *)
(***************************************************************************)
EXTENDS Report, SequenceTheorems, Recurrence

-----------------------------------------------------------------------------
(* The report as a whole.                                                  *)

(* What may be written. *)
Writes == (UNION {Range(Statistics[m]) : m \in DOMAIN Statistics}) \X Range(Parts)

(* The rows of a metric when the bits are set. *)
RowsWith(bits, i) ==
    IF i \in bits /\ Reports[i] \in DOMAIN Statistics \ Unreported
    THEN Statistics[Reports[i]] ELSE <<>>

(* The loop over mappings goes through the rows that the report has.       *)
LEMMA RowsAreReported ==
    ASSUME NEW i \in DOMAIN Reports
    PROVE  Rows(i) = RowsWith(enabledMetrics, i)
  BY ReportAssumption DEF Rows, RowsWith

(* The rows of a metric are a sequence of rows in the maps.                *)
LEMMA RowsWithType ==
    ASSUME NEW bits, NEW i
    PROVE  /\ RowsWith(bits, i) \in Seq(UNION {Range(Statistics[m]) : m \in DOMAIN Statistics})
           /\ Len(RowsWith(bits, i)) \in Nat
  <1> DEFINE R == UNION {Range(Statistics[m]) : m \in DOMAIN Statistics}
  <1>1. ASSUME NEW m \in DOMAIN Statistics PROVE Statistics[m] \in Seq(R)
    <2>1. Statistics[m] \in Seq(Range(Statistics[m]))
      BY ReportAssumption
    <2>2. Range(Statistics[m]) \subseteq R
      OBVIOUS
    <2> QED
      BY <2>1, <2>2, SeqMonotonic
  <1>2. RowsWith(bits, i) \in Seq(R)
    BY <1>1, EmptySeq DEF RowsWith
  <1> QED
    BY <1>2, LenProperties

(* The writes of a metric: four for each row.                              *)
LEMMA WrittenType ==
    ASSUME NEW bits, NEW i
    PROVE  /\ Written(bits, i) \in Seq(Writes)
           /\ Len(Written(bits, i)) = 4 * Len(RowsWith(bits, i))
  <1> DEFINE rows == RowsWith(bits, i)
             R == UNION {Range(Statistics[m]) : m \in DOMAIN Statistics}
             w == [k \in 1..4 * Len(rows) |->
                      <<rows[((k - 1) \div 4) + 1], Parts[((k - 1) % 4) + 1]>>]
  <1>1. rows \in Seq(R) /\ Len(rows) \in Nat
    BY RowsWithType
  <1>2. Written(bits, i) = w
    BY DEF Written, RowsWith, Parts
  <1> HIDE DEF rows, R
  <1>3. ASSUME NEW k \in 1..4 * Len(rows)
        PROVE  w[k] \in R \X Range(Parts)
    <2>1. ((k - 1) \div 4) + 1 \in 1..Len(rows) /\ ((k - 1) % 4) + 1 \in 1..4
      BY <1>1
    <2>2. rows[((k - 1) \div 4) + 1] \in R
      BY <1>1, <2>1, ElementOfSeq
    <2>3. \A p \in 1..4 : Parts[p] \in Range(Parts)
      <3>1. DOMAIN Parts = 1..4
        BY DEF Parts
      <3> QED
        BY <3>1 DEF Range
    <2>4. Parts[((k - 1) % 4) + 1] \in Range(Parts)
      BY <2>1, <2>3
    <2>5. w[k] = <<rows[((k - 1) \div 4) + 1], Parts[((k - 1) % 4) + 1]>>
      OBVIOUS
    <2> HIDE DEF w
    <2> QED
      BY <2>2, <2>4, <2>5
  <1>4. w \in [1..4 * Len(rows) -> Writes]
    <2>1. Writes = R \X Range(Parts)
      BY DEF Writes, R
    <2>2. w \in [1..4 * Len(rows) -> R \X Range(Parts)]
      BY <1>3
    <2> QED
      BY <2>1, <2>2
  <1>5. w \in Seq(Writes) /\ Len(w) = 4 * Len(rows)
    <2>1. 4 * Len(rows) \in Nat
      BY <1>1
    <2> HIDE DEF w
    <2> QED
      BY <1>4, <2>1
  <1> QED
    BY <1>2, <1>5 DEF rows

(* The report of the first i metrics has that of the first i - 1 and then  *)
(* the rows of metric i.                                                   *)
LEMMA ReportUpToIs ==
    ASSUME NEW bits
    PROVE  /\ ReportUpTo(bits) \in [0..Len(Reports) -> Seq(Writes)]
           /\ ReportUpTo(bits)[0] = <<>>
           /\ \A i \in 1..Len(Reports) :
                  ReportUpTo(bits)[i] = ReportUpTo(bits)[i - 1] \o Written(bits, i)
  <1> DEFINE n == Len(Reports)
             g == [p \in (1..n) \X Seq(Writes) |-> p[2] \o Written(bits, p[1])]
             Def(f) == f = [i \in 0..n |-> IF i = 0 THEN <<>> ELSE f[i - 1] \o Written(bits, i)]
  <1>1. n \in Nat
    BY ReportAssumption
  <1>2. g \in [(1..n) \X Seq(Writes) -> Seq(Writes)] /\ <<>> \in Seq(Writes)
    <2>1. ASSUME NEW p \in (1..n) \X Seq(Writes) PROVE p[2] \o Written(bits, p[1]) \in Seq(Writes)
      <3>1. p[2] \in Seq(Writes) /\ Written(bits, p[1]) \in Seq(Writes)
        BY WrittenType
      <3> QED
        BY <3>1, ConcatProperties
    <2> QED
      BY <2>1
  <1>3. PICK f : Carries(f, n, Seq(Writes), <<>>, g)
    <2> HIDE DEF g, n
    <2> QED
      BY <1>1, <1>2, Carried
  <1>4. f \in [0..n -> Seq(Writes)] /\ f[0] = <<>>
    BY <1>3 DEF Carries
  <1>5. ASSUME NEW i \in 1..n PROVE f[i] = f[i - 1] \o Written(bits, i)
    <2>1. f[i] = g[<<i, f[i - 1]>>]
      BY <1>3 DEF Carries
    <2>2. i - 1 \in 0..n
      BY <1>1
    <2>3. f[i - 1] \in Seq(Writes)
      BY <1>4, <2>2
    <2> QED
      BY <2>1, <2>3
  <1>6. Def(f)
    <2>1. ASSUME NEW i \in 0..n
          PROVE  f[i] = IF i = 0 THEN <<>> ELSE f[i - 1] \o Written(bits, i)
      <3>1. CASE i = 0
        BY <1>4, <3>1
      <3>2. CASE i # 0
        <4>1. i \in 1..n
          BY <3>2, <1>1
        <4> QED
          BY <1>5, <3>2, <4>1
      <3> QED
        BY <3>1, <3>2
    <2>2. f = [i \in 0..n |-> f[i]]
      BY <1>4
    <2> QED
      BY <2>1, <2>2
  <1>7. ReportUpTo(bits) = CHOOSE h : Def(h)
    BY DEF ReportUpTo
  <1>8. Def(ReportUpTo(bits))
    <2> HIDE DEF Def
    <2> QED
      BY <1>6, <1>7
  <1> DEFINE u == ReportUpTo(bits)
  <1>9. u[0] = <<>> /\ \A i \in 1..n : u[i] = u[i - 1] \o Written(bits, i)
    <2>1. Def(u)
      BY <1>8
    <2> HIDE DEF u
    <2>2. 0 \in 0..n /\ \A i \in 1..n : i \in 0..n /\ i # 0
      BY <1>1
    <2> HIDE DEF n
    <2> QED
      BY <2>1, <2>2
  <1> DEFINE Bad == {i \in 0..n : u[i] \notin Seq(Writes)}
  <1>10. ASSUME Bad # {} PROVE FALSE
    <2>0. Bad \subseteq Nat
      BY <1>1
    <2>1. PICK k \in Bad : \A y \in Bad : k <= y
      <3> HIDE DEF Bad
      <3> QED
        BY <1>10, <2>0, NatMinimum, Zenon
    <2>2. k # 0
      BY <1>2, <1>9, <2>1
    <2>3. k \in 1..n /\ k - 1 \in 0..n /\ k - 1 \notin Bad
      BY <1>1, <2>1, <2>2
    <2>4. u[k - 1] \in Seq(Writes)
      BY <2>3
    <2>5. u[k] = u[k - 1] \o Written(bits, k)
      BY <1>9, <2>3
    <2>6. u[k] \in Seq(Writes)
      BY <2>4, <2>5, WrittenType, ConcatProperties
    <2> QED
      BY <2>1, <2>6
  <1>11. \A i \in 0..n : u[i] \in Seq(Writes)
    BY <1>10
  <1>12. u = [i \in 0..n |-> u[i]]
    BY <1>8
  <1>13. u \in [0..n -> Seq(Writes)]
    <2> HIDE DEF u
    <2> QED
      BY <1>11, <1>12
  <1> QED
    BY <1>9, <1>13

(* One sequence begins another. *)
Begins(s, t) == \E u \in Seq(Writes) : t = s \o u

(* What begins a sequence begins a longer one.                             *)
LEMMA BeginsLonger ==
    ASSUME NEW s \in Seq(Writes), NEW t \in Seq(Writes), NEW w \in Seq(Writes), Begins(s, t)
    PROVE  Begins(s, t \o w)
  <1>1. PICK u \in Seq(Writes) : t = s \o u
    BY DEF Begins
  <1>2. (s \o u) \o w = s \o (u \o w)
    OBVIOUS
  <1>3. u \o w \in Seq(Writes)
    OBVIOUS
  <1> QED
    BY <1>1, <1>2, <1>3 DEF Begins

(* The report of the first i metrics begins that of the first j.           *)
LEMMA ReportGrows ==
    ASSUME NEW bits, NEW i \in 0..Len(Reports), NEW j \in i..Len(Reports)
    PROVE  Begins(ReportUpTo(bits)[i], ReportUpTo(bits)[j])
  <1> DEFINE n == Len(Reports)
             u == ReportUpTo(bits)
             Bad == {k \in i..n : ~Begins(u[i], u[k])}
  <1>1. n \in Nat
    BY ReportAssumption
  <1>2. /\ u \in [0..n -> Seq(Writes)]
        /\ \A k \in 1..n : u[k] = u[k - 1] \o Written(bits, k)
    BY ReportUpToIs
  <1> HIDE DEF n, u
  <1>3. ASSUME Bad # {} PROVE FALSE
    <2>0. Bad \subseteq Nat
      BY <1>1 DEF n
    <2>1. PICK k \in Bad : \A y \in Bad : k <= y
      <3> HIDE DEF Bad
      <3> QED
        BY <1>3, <2>0, NatMinimum, Zenon
    <2>2. u[i] \in Seq(Writes)
      BY <1>2 DEF n
    <2>3. k # i
      <3>1. u[i] = u[i] \o <<>> /\ <<>> \in Seq(Writes)
        BY <2>2, ConcatEmptySeq
      <3>2. Begins(u[i], u[i])
        BY <3>1 DEF Begins
      <3> QED
        BY <2>1, <3>2
    <2>4. i \in Nat /\ k \in i..n
      BY <2>1 DEF n
    <2>5. k \in 1..n /\ k - 1 \in i..n /\ k - 1 < k
      BY <1>1, <2>3, <2>4
    <2>6. k - 1 \notin Bad
      BY <2>1, <2>5
    <2>7. Begins(u[i], u[k - 1]) /\ u[k - 1] \in Seq(Writes)
      BY <1>1, <1>2, <2>5, <2>6
    <2>8. Written(bits, k) \in Seq(Writes)
      BY WrittenType
    <2>9. u[k] = u[k - 1] \o Written(bits, k)
      BY <1>2, <2>5
    <2>10. Begins(u[i], u[k])
      <3>1. Begins(u[i], u[k - 1] \o Written(bits, k))
        BY <2>2, <2>7, <2>8, BeginsLonger
      <3> QED
        BY <2>9, <3>1
    <2> QED
      BY <2>1, <2>10
  <1> QED
    BY <1>3 DEF n, u

(* Metrics that report no row add nothing.                                 *)
LEMMA NothingMore ==
    ASSUME NEW bits, NEW i \in 0..Len(Reports),
           \A k \in i + 1..Len(Reports) : k \notin bits
    PROVE  ReportUpTo(bits)[Len(Reports)] = ReportUpTo(bits)[i]
  <1> DEFINE n == Len(Reports)
             u == ReportUpTo(bits)
             Bad == {k \in i..n : u[k] # u[i]}
  <1>1. n \in Nat
    BY ReportAssumption
  <1>2. /\ u \in [0..n -> Seq(Writes)]
        /\ \A k \in 1..n : u[k] = u[k - 1] \o Written(bits, k)
    BY ReportUpToIs
  <1> HIDE DEF n, u
  <1>3. ASSUME Bad # {} PROVE FALSE
    <2>0. Bad \subseteq Nat
      BY <1>1 DEF n
    <2>1. PICK k \in Bad : \A y \in Bad : k <= y
      <3> HIDE DEF Bad
      <3> QED
        BY <1>3, <2>0, NatMinimum, Zenon
    <2>2. i \in Nat /\ k \in i..n /\ k # i
      BY <2>1 DEF n
    <2>3. k \in 1..n /\ k - 1 \in i..n /\ k - 1 < k /\ k \in i + 1..n
      BY <1>1, <2>2
    <2>4. u[k - 1] = u[i]
      BY <2>1, <2>3
    <2>5. k \notin bits
      BY <2>3 DEF n
    <2>6. Written(bits, k) = <<>>
      <3>1. RowsWith(bits, k) = <<>>
        BY <2>5 DEF RowsWith
      <3>2. Len(Written(bits, k)) = 0 /\ Written(bits, k) \in Seq(Writes)
        BY <3>1, WrittenType
      <3> QED
        BY <3>2, EmptySeq
    <2>7. u[k - 1] \in Seq(Writes)
      BY <1>1, <1>2, <2>3
    <2>8. u[k] = u[k - 1]
      BY <1>2, <2>3, <2>6, <2>7, ConcatEmptySeq
    <2> QED
      BY <2>1, <2>4, <2>8
  <1>4. n \in i..n
    BY <1>1 DEF n
  <1> QED
    BY <1>3, <1>4 DEF n, u

-----------------------------------------------------------------------------
(* The loops.                                                              *)

(* The metrics before the current one are written, and of the rows of the  *)
(* current one those before `mapping`, and of that row the parts before    *)
(* `part`.  A report that succeeds has passed every bit.                   *)
ReportIInv ==
    /\ enabledMetrics \subseteq DOMAIN Reports
    /\ report \in 1..Len(Reports) + 1
    /\ mapping \in 1..Len(RowsWith(enabledMetrics, report)) + 1
    /\ part \in 1..4
    /\ mapping = Len(RowsWith(enabledMetrics, report)) + 1 => part = 1
    /\ output = ReportUpTo(enabledMetrics)[report - 1]
                    \o SubSeq(Written(enabledMetrics, report), 1, 4 * (mapping - 1) + part - 1)
    /\ stage = "ok" => \A i \in enabledMetrics : i < report

(* One more element of a beginning.                                        *)
LEMMA OneMore ==
    ASSUME NEW S, NEW s \in Seq(S), NEW w \in Seq(S), NEW k \in Nat, k < Len(w)
    PROVE  Append(s \o SubSeq(w, 1, k), w[k + 1]) = s \o SubSeq(w, 1, k + 1)
  <1>1. Len(w) \in Nat /\ k + 1 \in 1..Len(w) /\ w[k + 1] \in S
    OBVIOUS
  <1>2. SubSeq(w, 1, k) \in Seq(S) /\ Len(SubSeq(w, 1, k)) = k
    BY <1>1
  <1>3. SubSeq(w, 1, k + 1) \in Seq(S) /\ Len(SubSeq(w, 1, k + 1)) = k + 1
    BY <1>1
  <1> DEFINE x == SubSeq(w, 1, k)
             z == SubSeq(w, 1, k + 1)
             y == w[k + 1]
  <1>4. \A i \in 1..k : z[i] = x[i]
    BY <1>1, <1>2, <1>3
  <1>5. z[k + 1] = y
    BY <1>1
  <1>6. x \in Seq(S) /\ Len(x) = k /\ z \in Seq(S) /\ Len(z) = k + 1 /\ y \in S
    BY <1>1, <1>2, <1>3
  <1> HIDE DEF x, y, z
  <1> DEFINE a == Append(s \o x, y)
             b == s \o z
  <1>7. a \in Seq(S) /\ b \in Seq(S) /\ Len(a) = Len(s) + k + 1 /\ Len(b) = Len(s) + k + 1
    <2>0. \A p, q \in Seq(S) : p \o q \in Seq(S) /\ Len(p \o q) = Len(p) + Len(q)
      OBVIOUS
    <2>1. s \o x \in Seq(S) /\ Len(s \o x) = Len(s) + k
      BY <1>6, <2>0, Zenon
    <2>2. a \in Seq(S) /\ Len(a) = Len(s \o x) + 1
      <3> DEFINE whole == s \o x
      <3>1. whole \in Seq(S) /\ y \in S
        BY <1>6, <2>1
      <3> HIDE DEF whole
      <3>2. Append(whole, y) \in Seq(S) /\ Len(Append(whole, y)) = Len(whole) + 1
        BY <3>1
      <3> QED
        BY <3>2 DEF whole
    <2>3. b \in Seq(S) /\ Len(b) = Len(s) + (k + 1)
      BY <1>6, <2>0, Zenon
    <2>4. Len(s) \in Nat /\ Len(s) + k + 1 = Len(s) + (k + 1)
      OBVIOUS
    <2> HIDE DEF a, b
    <2> QED
      BY <2>1, <2>2, <2>3, <2>4
  <1>8. ASSUME NEW i \in 1..Len(s) + k + 1 PROVE a[i] = b[i]
    <2>0. i \in 1..Len(s) \/ i \in Len(s) + 1..Len(s) + k \/ i = Len(s) + k + 1
      <3>1. \A l, j \in Nat : j \in 1..l + k + 1 =>
                j \in 1..l \/ j \in l + 1..l + k \/ j = l + k + 1
        OBVIOUS
      <3>2. Len(s) \in Nat
        OBVIOUS
      <3> QED
        BY <3>1, <3>2
    <2>1. CASE i \in 1..Len(s)
      BY <1>6, <2>1
    <2>2. CASE i \in Len(s) + 1..Len(s) + k
      <3>1. i - Len(s) \in 1..k
        BY <2>2
      <3>2. z[i - Len(s)] = x[i - Len(s)]
        BY <1>4, <3>1
      <3>3. a[i] = x[i - Len(s)]
        BY <1>6, <2>2
      <3>4. b[i] = z[i - Len(s)]
        BY <1>6, <2>2
      <3> QED
        BY <3>2, <3>3, <3>4
    <2>3. CASE i = Len(s) + k + 1
      <3>1. a[i] = y
        BY <1>6, <2>3
      <3>2. b[i] = z[k + 1]
        BY <1>6, <2>3
      <3> QED
        BY <1>5, <3>1, <3>2
    <2> QED
      BY <2>0, <2>1, <2>2, <2>3
  <1> HIDE DEF a, b
  <1>9. a = b
    BY <1>7, <1>8, SeqEqual
  <1> QED
    BY <1>9 DEF a, b, x, y, z

(* A write.                                                                *)
LEMMA WriteKeepsPlace ==
    ASSUME ReportIInv, Write
    PROVE  ReportIInv'
  <1> DEFINE rows == RowsWith(enabledMetrics, report)
             w == Written(enabledMetrics, report)
             upto == ReportUpTo(enabledMetrics)[report - 1]
             k == 4 * (mapping - 1) + part - 1
  <1>1. /\ enabledMetrics' = enabledMetrics /\ report' = report
        /\ stage' = stage /\ stage = "rows"
    BY DEF Write
  <1>2. report \in DOMAIN Reports /\ report \in 1..Len(Reports)
    <2>1. PICK i \in enabledMetrics : i >= report
      BY DEF Write
    <2>2. DOMAIN Reports = 1..Len(Reports) /\ Len(Reports) \in Nat
      BY ReportAssumption
    <2> QED
      BY <2>1, <2>2 DEF ReportIInv
  <1>3. Rows(report) = rows /\ rows \in Seq(UNION {Range(Statistics[m]) : m \in DOMAIN Statistics})
        /\ Len(rows) \in Nat
    BY <1>2, RowsAreReported, RowsWithType
  <1>4. /\ mapping \in 1..Len(rows)
        /\ output' = Append(output, <<rows[mapping], Parts[part]>>)
        /\ part' = (part % Len(Parts)) + 1
        /\ mapping' = IF part = Len(Parts) THEN mapping + 1 ELSE mapping
    BY <1>3 DEF Write, ReportIInv
  <1>5. part \in 1..4 /\ Len(Parts) = 4
    BY DEF ReportIInv, Parts
  <1>6. /\ w \in Seq(Writes) /\ Len(w) = 4 * Len(rows)
        /\ w[4 * (mapping - 1) + part] = <<rows[mapping], Parts[part]>>
    <2>1. w \in Seq(Writes) /\ Len(w) = 4 * Len(rows)
      BY WrittenType
    <2>2. w = [j \in 1..4 * Len(rows) |->
                  <<rows[((j - 1) \div 4) + 1], Parts[((j - 1) % 4) + 1]>>]
      BY DEF Written, RowsWith, Parts
    <2> HIDE DEF w, rows
    <2>3. PICK j \in Int : j = 4 * (mapping - 1) + part
      BY <1>3, <1>4, <1>5
    <2>4. /\ j \in 1..4 * Len(rows)
          /\ ((j - 1) \div 4) + 1 = mapping
          /\ ((j - 1) % 4) + 1 = part
      BY <1>3, <1>4, <1>5, <2>3
    <2>5. w[j] = <<rows[mapping], Parts[part]>>
      BY <2>2, <2>4
    <2> QED
      BY <2>1, <2>3, <2>5
  <1>7. upto \in Seq(Writes)
    <2>1. report - 1 \in 0..Len(Reports)
      BY <1>2
    <2> QED
      BY <2>1, ReportUpToIs
  <1>8. output = upto \o SubSeq(w, 1, k)
    BY DEF ReportIInv
  <1> HIDE DEF rows, w, upto
  <1>9. k \in Nat /\ k < Len(w) /\ k + 1 = 4 * (mapping - 1) + part
    BY <1>3, <1>4, <1>5, <1>6
  <1>10. /\ mapping' \in 1..Len(rows) + 1
         /\ part' \in 1..4
         /\ mapping' = Len(rows) + 1 => part' = 1
         /\ 4 * (mapping' - 1) + part' - 1 = k + 1
    <2>1. CASE part = 4
      BY <2>1, <1>3, <1>4, <1>5
    <2>2. CASE part # 4
      <3>1. part' = part + 1 /\ mapping' = mapping /\ part \in 1..3
        BY <2>2, <1>4, <1>5
      <3> QED
        BY <3>1, <1>3, <1>4, <1>5
    <2> QED
      BY <2>1, <2>2
  <1> HIDE DEF k
  <1>11. output' = upto \o SubSeq(w, 1, k + 1)
    <2>1. w[k + 1] = <<rows[mapping], Parts[part]>>
      BY <1>6, <1>9
    <2>2. Append(upto \o SubSeq(w, 1, k), w[k + 1]) = upto \o SubSeq(w, 1, k + 1)
      BY <1>6, <1>7, <1>9, OneMore
    <2> QED
      BY <1>4, <1>8, <2>1, <2>2
  <1>12. output' = upto \o SubSeq(w, 1, 4 * (mapping' - 1) + part' - 1)
    BY <1>10, <1>11
  <1>13. stage' # "ok"
    BY <1>1
  <1>14. enabledMetrics \subseteq DOMAIN Reports /\ report \in 1..Len(Reports) + 1
    BY DEF ReportIInv
  <1> QED
    BY <1>1, <1>10, <1>12, <1>13, <1>14 DEF ReportIInv, rows, w, upto

(* The next accessor.                                                      *)
LEMMA NextReportKeepsPlace ==
    ASSUME ReportIInv, NextReport
    PROVE  ReportIInv'
  <1> DEFINE rows == RowsWith(enabledMetrics, report)
             w == Written(enabledMetrics, report)
             upto == ReportUpTo(enabledMetrics)
  <1>1. /\ enabledMetrics' = enabledMetrics /\ report' = report + 1 /\ mapping' = 1
        /\ part' = part /\ output' = output /\ stage' = "rows"
    BY DEF NextReport
  <1>2. report \in DOMAIN Reports /\ report \in 1..Len(Reports) /\ Len(Reports) \in Nat
    <2>1. PICK i \in enabledMetrics : i >= report
      BY DEF NextReport
    <2>2. DOMAIN Reports = 1..Len(Reports) /\ Len(Reports) \in Nat
      BY ReportAssumption
    <2> QED
      BY <2>1, <2>2 DEF ReportIInv
  <1>3. Rows(report) = rows /\ Len(rows) \in Nat
    BY <1>2, RowsAreReported, RowsWithType
  <1>4. mapping = Len(rows) + 1 /\ part = 1
    BY <1>3 DEF NextReport, ReportIInv
  <1>5. w \in Seq(Writes) /\ Len(w) = 4 * Len(rows)
    BY WrittenType
  <1>6. /\ upto[report - 1] \in Seq(Writes)
        /\ upto[report] \in Seq(Writes)
        /\ upto[report] = upto[report - 1] \o w
    <2>1. report - 1 \in 0..Len(Reports) /\ report \in 0..Len(Reports)
      BY <1>2
    <2> QED
      BY <2>1, <1>2, ReportUpToIs
  <1>7. output = upto[report - 1] \o SubSeq(w, 1, 4 * (mapping - 1) + part - 1)
    BY DEF ReportIInv
  <1>8. output = upto[report]
    <2> HIDE DEF rows, w, upto
    <2>1. 4 * (mapping - 1) + part - 1 = Len(w)
      BY <1>3, <1>4, <1>5
    <2>2. SubSeq(w, 1, Len(w)) = w
      BY <1>5, SubSeqFull
    <2> QED
      BY <1>6, <1>7, <2>1, <2>2
  <1>9. output' = upto[report' - 1] \o SubSeq(Written(enabledMetrics, report'), 1, 0)
    <2>1. SubSeq(Written(enabledMetrics, report'), 1, 0) = <<>>
      BY SubSeqEmpty
    <2>2. report' - 1 = report
      BY <1>1, <1>2
    <2> QED
      BY <1>1, <1>6, <1>8, <2>1, <2>2, ConcatEmptySeq
  <1>10. Len(RowsWith(enabledMetrics, report')) \in Nat
    BY RowsWithType
  <1>11. /\ report' \in 1..Len(Reports) + 1
         /\ mapping' \in 1..Len(RowsWith(enabledMetrics, report')) + 1
         /\ part' \in 1..4 /\ part' = 1
         /\ 4 * (mapping' - 1) + part' - 1 = 0
    BY <1>1, <1>2, <1>4, <1>10
  <1>12. enabledMetrics \subseteq DOMAIN Reports
    BY DEF ReportIInv
  <1> QED
    BY <1>1, <1>9, <1>11, <1>12 DEF ReportIInv

(* Nothing is written or moved.                                            *)
LEMMA StageKeepsPlace ==
    ASSUME ReportIInv, UNCHANGED <<enabledMetrics, report, mapping, part, output>>,
           stage' = "ok" => \A i \in enabledMetrics : i < report
    PROVE  ReportIInv'
  BY DEF ReportIInv

(* What holds at the start.                                                *)
LEMMA ReportBegins == Init => ReportIInv
  <1> SUFFICES ASSUME Init PROVE ReportIInv
    OBVIOUS
  <1>1. Len(Reports) \in Nat
    BY ReportAssumption
  <1>2. /\ enabledMetrics \subseteq DOMAIN Reports
        /\ report = 1 /\ mapping = 1 /\ part = 1 /\ output = <<>> /\ stage = "open"
    BY DEF Init
  <1>3. Len(RowsWith(enabledMetrics, report)) \in Nat
    BY RowsWithType
  <1>4. ReportUpTo(enabledMetrics)[report - 1] = <<>>
    BY <1>2, ReportUpToIs
  <1>5. SubSeq(Written(enabledMetrics, report), 1, 4 * (mapping - 1) + part - 1) = <<>>
    BY <1>2, SubSeqEmpty
  <1> QED
    BY <1>1, <1>2, <1>3, <1>4, <1>5 DEF ReportIInv

(* Every step keeps the place.                                             *)
LEMMA ReportSteps == ReportIInv /\ [Next]_reportVars => ReportIInv'
  <1> SUFFICES ASSUME ReportIInv, [Next]_reportVars PROVE ReportIInv'
    OBVIOUS
  <1>0. Len(Reports) \in Nat /\ DOMAIN Reports = 1..Len(Reports)
    BY ReportAssumption
  <1>1. CASE OpenOutput
    BY <1>1, StageKeepsPlace DEF OpenOutput
  <1>2. CASE NextReport
    BY <1>2, NextReportKeepsPlace
  <1>3. CASE Write
    BY <1>3, WriteKeepsPlace
  <1>4. CASE WriteFails
    BY <1>4, StageKeepsPlace DEF WriteFails
  <1>5. CASE CloseOutput
    <2>1. ASSUME NEW i \in enabledMetrics PROVE i < report
      <3>1. i \in Nat /\ report \in Nat /\ ~(i >= report)
        BY <1>0, <1>5 DEF CloseOutput, ReportIInv
      <3> QED
        BY <3>1
    <2>2. UNCHANGED <<enabledMetrics, report, mapping, part, output>>
      BY <1>5 DEF CloseOutput
    <2> QED
      BY <2>1, <2>2, StageKeepsPlace
  <1>6. CASE UNCHANGED reportVars
    BY <1>6 DEF reportVars, ReportIInv
  <1> QED
    BY <1>1, <1>2, <1>3, <1>4, <1>5, <1>6 DEF Next

(* A part of a sequence's middle is where it belongs.                      *)
LEMMA PartBegins ==
    ASSUME NEW S, NEW s \in Seq(S), NEW w \in Seq(S), NEW rest \in Seq(S), NEW k \in 0..Len(w)
    PROVE  IsPrefix(s \o SubSeq(w, 1, k), (s \o w) \o rest)
  <1> DEFINE a == s \o SubSeq(w, 1, k)
             b == (s \o w) \o rest
  <1>1. Len(w) \in Nat /\ SubSeq(w, 1, k) \in Seq(S) /\ Len(SubSeq(w, 1, k)) = k
    OBVIOUS
  <1>2. a \in Seq(S) /\ Len(a) = Len(s) + k
    BY <1>1
  <1>3. b \in Seq(S) /\ Len(b) = Len(s) + Len(w) + Len(rest)
    OBVIOUS
  <1>4. Len(a) <= Len(b) /\ Len(a) \in Nat /\ Len(b) \in Nat
    BY <1>1, <1>2, <1>3
  <1>5. ASSUME NEW i \in 1..Len(a) PROVE a[i] = b[i]
    <2>1. CASE i <= Len(s)
      BY <2>1, <1>1, <1>2
    <2>2. CASE i > Len(s)
      BY <2>2, <1>1, <1>2
    <2> QED
      BY <2>1, <2>2, <1>4
  <1> HIDE DEF a, b
  <1>6. SubSeq(a, 1, Len(a)) = SubSeq(b, 1, Len(a))
    <2>1. SubSeq(a, 1, Len(a)) \in Seq(S) /\ Len(SubSeq(a, 1, Len(a))) = Len(a)
      BY <1>2, <1>4
    <2>2. SubSeq(b, 1, Len(a)) \in Seq(S) /\ Len(SubSeq(b, 1, Len(a))) = Len(a)
      BY <1>3, <1>4
    <2>3. \A i \in 1..Len(a) : SubSeq(a, 1, Len(a))[i] = SubSeq(b, 1, Len(a))[i]
      BY <1>2, <1>3, <1>4, <1>5
    <2> QED
      BY <2>1, <2>2, <2>3, SeqEqual
  <1>7. IsPrefix(a, b)
    BY <1>4, <1>6 DEF IsPrefix
  <1> QED
    BY <1>7 DEF a, b

(* What the place says of the output.                                      *)
LEMMA InPlaceInOrder == ReportIInv => WritesInOrder
  <1> SUFFICES ASSUME ReportIInv PROVE WritesInOrder
    OBVIOUS
  <1> DEFINE n == Len(Reports)
             upto == ReportUpTo(enabledMetrics)
             w == Written(enabledMetrics, report)
             k == 4 * (mapping - 1) + part - 1
  <1>1. n \in Nat /\ DOMAIN Reports = 1..n
    BY ReportAssumption
  <1>2. upto \in [0..n -> Seq(Writes)] /\ w \in Seq(Writes)
        /\ Len(w) = 4 * Len(RowsWith(enabledMetrics, report))
        /\ Len(RowsWith(enabledMetrics, report)) \in Nat
    BY ReportUpToIs, WrittenType, RowsWithType
  <1>3. output = upto[report - 1] \o SubSeq(w, 1, k) /\ report \in 1..n + 1 /\ report - 1 \in 0..n
    BY <1>1 DEF ReportIInv
  <1>4. upto[report - 1] \in Seq(Writes) /\ upto[n] \in Seq(Writes)
    <2> HIDE DEF n, upto
    <2> QED
      BY <1>1, <1>2, <1>3
  <1>5. k \in 0..Len(w)
    BY <1>2 DEF ReportIInv
  <1>6. WholeReport = upto[n]
    BY DEF WholeReport
  <1>7. CASE report = n + 1
    <2>1. Len(w) = 0
      <3>1. report \notin enabledMetrics
        BY <1>1, <1>7 DEF ReportIInv
      <3> QED
        BY <1>2, <3>1 DEF RowsWith
    <2>2. output = upto[n]
      <3>1. k = 0
        BY <1>5, <2>1
      <3>2. SubSeq(w, 1, k) = <<>>
        BY <3>1, SubSeqEmpty
      <3>3. report - 1 = n
        BY <1>1, <1>7
      <3> QED
        BY <1>3, <1>4, <3>2, <3>3, ConcatEmptySeq
    <2> HIDE DEF n, upto
    <2>3. IsPrefix(output, WholeReport)
      BY <1>4, <1>6, <2>2 DEF IsPrefix
    <2> QED
      BY <1>6, <2>2, <2>3 DEF WritesInOrder
  <1>8. CASE report # n + 1
    <2>1. report \in 1..n /\ report \in 0..n
      BY <1>1, <1>3, <1>8
    <2>2. upto[report] = upto[report - 1] \o w
      BY <2>1, ReportUpToIs
    <2>3. Begins(upto[report], upto[n])
      <3>1. n \in report..n
        BY <1>1, <2>1
      <3> QED
        BY <2>1, <3>1, ReportGrows
    <2>4. PICK rest \in Seq(Writes) : upto[n] = upto[report] \o rest
      BY <2>3 DEF Begins
    <2>5. IsPrefix(output, WholeReport)
      <3> HIDE DEF n, upto, w, k
      <3>1. upto[n] = (upto[report - 1] \o w) \o rest
        BY <2>2, <2>4
      <3> QED
        BY <1>2, <1>3, <1>4, <1>5, <1>6, <3>1, PartBegins
    <2>6. ASSUME stage = "ok" PROVE output = WholeReport
      <3>1. \A i \in enabledMetrics : i < report /\ i \in Nat
        BY <1>1, <2>6 DEF ReportIInv
      <3>2. \A i \in (report - 1) + 1..n : i \notin enabledMetrics
        BY <3>1, <1>1, <2>1
      <3>3. upto[n] = upto[report - 1]
        BY <1>3, <3>2, NothingMore
      <3>4. report \notin enabledMetrics
        BY <3>1, <2>1, <1>1
      <3>5. k = 0
        <4>1. Len(w) = 0
          BY <1>2, <3>4 DEF RowsWith
        <4> QED
          BY <4>1, <1>5
      <3>6. SubSeq(w, 1, k) = <<>>
        BY <3>5, SubSeqEmpty
      <3> QED
        BY <1>3, <1>4, <1>6, <3>3, <3>6, ConcatEmptySeq
    <2> QED
      BY <2>5, <2>6 DEF WritesInOrder
  <1> QED
    BY <1>7, <1>8

(* What has been written is the beginning of the report, wherever a write  *)
(* failed, and a report that succeeds is complete: for every table of      *)
(* metrics, every map and every choice of bits.                            *)
THEOREM ReportWritesInOrder == Spec => []WritesInOrder
  <1>1. Spec => []ReportIInv
    BY ReportBegins, ReportSteps, PTL DEF Spec
  <1> QED
    BY <1>1, InPlaceInOrder, PTL
=============================================================================
