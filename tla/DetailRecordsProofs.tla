------------------------- MODULE DetailRecordsProofs -------------------------
(***************************************************************************)
(* The scenario data, for files of any length: what the loop over the lines  *)
(* of an injection file and the loop over the columns of its header compute, *)
(* and from that what the loaded service and its workers may rely on.        *)
(*                                                                         *)
(* Both loops are recursive functions on 0..n.  That such a function exists  *)
(* and what its values are is shown by induction, in the form that takes a   *)
(* set of naturals and no operator.                                         *)
(***************************************************************************)
EXTENDS DetailRecords, WellFoundedInduction, FiniteSetTheorems, TLAPS

-----------------------------------------------------------------------------
(* Natural numbers. *)

LEMMA LeastOf ==
  ASSUME NEW S \in SUBSET Nat, S # {}
  PROVE  Min(S) \in S /\ \A y \in S : Min(S) =< y
<1> DEFINE Less == {ss \in Nat \X Nat : ss[1] < ss[2]}
<1>1. IsWellFoundedOn(Less, Nat)
  BY NatLessThanWellFounded, Zenon DEF OpToRel
<1> HIDE DEF Less
<1>2. PICK x \in S : \A y \in S : ~(<<y, x>> \in Less)
  BY <1>1, WFMin, Zenon
<1>3. ASSUME NEW y \in S PROVE x =< y
  <2>1. x \in Nat /\ y \in Nat
    OBVIOUS
  <2>2. ~(y < x)
    BY <1>2, <2>1 DEF Less
  <2> QED
    BY <2>1, <2>2
<1> QED
  BY <1>3 DEF Min

LEMMA GreatestOf ==
  ASSUME NEW S \in SUBSET Nat, S # {}, NEW n \in Nat, \A x \in S : x =< n
  PROVE  Max(S) \in S /\ \A y \in S : y =< Max(S)
<1> DEFINE D == {n - x : x \in S}
<1>1. D \in SUBSET Nat /\ D # {}
  <2>1. \A x \in S : n - x \in Nat
    OBVIOUS
  <2> QED
    BY <2>1
<1>2. Min(D) \in D /\ \A y \in D : Min(D) =< y
  BY <1>1, LeastOf
<1>3. PICK x \in S : Min(D) = n - x
  BY <1>2
<1>4. ASSUME NEW y \in S PROVE x >= y
  <2>1. n - y \in D
    OBVIOUS
  <2>2. n - x =< n - y
    BY <1>2, <1>3, <2>1
  <2>3. x \in Nat /\ y \in Nat
    OBVIOUS
  <2> HIDE DEF D
  <2> QED
    BY <2>2, <2>3
<1>5. \E z \in S : \A y \in S : z >= y
  BY <1>4
<1>6. Max(S) \in S /\ \A y \in S : Max(S) >= y
  BY <1>5 DEF Max
<1>7. Max(S) \in Nat
  BY <1>6
<1> QED
  BY <1>6, <1>7

\* Induction for a set of numbers.
LEMMA AllOf ==
  ASSUME NEW S, NEW n \in Nat, 0 \in S, \A i \in 0..(n - 1) : i \in S => i + 1 \in S
  PROVE  \A i \in 0..n : i \in S
<1> DEFINE Missing == (0..n) \ S
<1>1. Missing \in SUBSET Nat
  OBVIOUS
<1>2. CASE Missing # {}
  <2> PICK i : i = Min(Missing)
    OBVIOUS
  <2>1. i \in 0..n /\ i \notin S
    BY <1>1, <1>2, LeastOf
  <2>2. i # 0 /\ i - 1 \in 0..(n - 1) /\ i - 1 \in 0..n /\ ~(i <= i - 1)
    BY <2>1
  <2>3. i - 1 \in S
    <3>1. i - 1 \notin Missing
      BY <1>1, <1>2, <2>2, LeastOf
    <3> QED
      BY <2>2, <3>1
  <2>4. (i - 1) + 1 = i
    BY <2>1
  <2> QED
    BY <2>1, <2>2, <2>3, <2>4
<1> QED
  BY <1>2

LEMMA Divided ==
  ASSUME NEW a \in Nat, NEW b \in Nat \ {0}
  PROVE  /\ a \div b \in Nat /\ a % b \in 0..(b - 1)
         /\ a % b = a - b * (a \div b)
<1>1. a % b = a - b * (a \div b)
  OBVIOUS
<1>2. a \div b \in Nat /\ a % b \in 0..(b - 1)
  OBVIOUS
<1> QED
  BY <1>1, <1>2

LEMMA Remainder ==
  ASSUME NEW b \in Nat \ {0}, NEW q \in Nat, NEW r \in 0..(b - 1), NEW a \in Nat, a = b * q + r
  PROVE  a \div b = q /\ a % b = r
<1> PICK c \in Nat, s \in 0..(b - 1) : c = a \div b /\ s = a % b
  BY Divided
<1>1. b * c + s = b * q + r
  <2>1. a % b = a - b * (a \div b)
    BY Divided
  <2>2. s = a - b * c /\ b * c \in Int
    BY <2>1
  <2> QED
    BY <2>2
<1>2. ~(c < q)
  <2>1. c < q => b * c + b <= b * q
    OBVIOUS
  <2> QED
    BY <1>1, <2>1
<1>3. ~(q < c)
  <2>1. q < c => b * q + b <= b * c
    OBVIOUS
  <2> QED
    BY <1>1, <2>1
<1> QED
  BY <1>1, <1>2, <1>3

LEMMA Parts ==
  ASSUME NEW a \in Nat, NEW b \in Nat \ {0}
  PROVE  \E q \in Nat, r \in 0..(b - 1) : q = a \div b /\ r = a % b /\ a = b * q + r
<1> PICK q \in Nat, r \in 0..(b - 1) : q = a \div b /\ r = a % b
  BY Divided
<1>1. a % b = a - b * (a \div b)
  BY Divided
<1>2. a = b * q + r
  <2>1. r = a - b * q /\ b * q \in Int
    BY <1>1
  <2> QED
    BY <2>1
<1> QED
  BY <1>2

\* Numbers before and after a number, in the same turn.
LEMMA Back ==
  ASSUME NEW b \in Nat \ {0}, NEW a \in Nat, NEW d \in 0..(a % b)
  PROVE  /\ a - d \in Nat
         /\ (a - d) \div b = a \div b /\ (a - d) % b = (a % b) - d
<1>1. PICK q \in Nat, r \in 0..(b - 1) : q = a \div b /\ r = a % b /\ a = b * q + r
  BY Parts
<1>2. r - d \in 0..(b - 1) /\ a - d \in Nat /\ a - d = b * q + (r - d)
  <2>1. b * q \in Nat
    OBVIOUS
  <2> QED
    BY <1>1, <2>1
<1>3. ASSUME NEW x \in Nat, NEW s \in 0..(b - 1), x = b * q + s
      PROVE  x \div b = q /\ x % b = s
  BY <1>3, Remainder
<1>4. (a - d) \div b = q /\ (a - d) % b = r - d
  BY <1>2, <1>3
<1> QED
  BY <1>1, <1>2, <1>4

LEMMA Lower ==
  ASSUME NEW b \in Nat \ {0}, NEW a \in Nat, b <= a
  PROVE  a - b \in Nat /\ (a - b) % b = a % b
<1>1. PICK q \in Nat, r \in 0..(b - 1) : q = a \div b /\ r = a % b /\ a = b * q + r
  BY Parts
<1>2. q # 0
  BY <1>1
<1>3. q - 1 \in Nat /\ b * (q - 1) = b * q - b /\ b * q \in Nat
  BY <1>2
<1>4. a - b \in Nat /\ a - b = b * (q - 1) + r
  BY <1>1, <1>3
<1>5. ASSUME NEW x \in Nat, NEW p \in Nat, x = b * p + r
      PROVE  x % b = r
  BY <1>5, Remainder
<1>6. (a - b) % b = r
  BY <1>3, <1>4, <1>5
<1> QED
  BY <1>1, <1>4, <1>6

LEMMA Successor ==
  ASSUME NEW b \in Nat \ {0}, NEW a \in Nat
  PROVE  ((a % b) + 1) % b = (a + 1) % b
<1>1. PICK q \in Nat, r \in 0..(b - 1) : q = a \div b /\ r = a % b /\ a = b * q + r
  BY Parts
<1>2. ASSUME NEW x \in Nat, NEW p \in Nat, NEW s \in 0..(b - 1), x = b * p + s
      PROVE  x % b = s
  BY <1>2, Remainder
<1>3. CASE r + 1 < b
  <2>1. r + 1 \in 0..(b - 1) /\ r + 1 \in Nat /\ r + 1 = b * 0 + (r + 1)
        /\ a + 1 \in Nat /\ a + 1 = b * q + (r + 1)
    BY <1>1, <1>3
  <2>2. (r + 1) % b = r + 1
    BY <1>2, <2>1
  <2>3. (a + 1) % b = r + 1
    BY <1>2, <2>1
  <2> QED
    BY <1>1, <2>2, <2>3
<1>4. CASE r + 1 = b
  <2>1. q + 1 \in Nat /\ 0 \in 0..(b - 1) /\ b * (q + 1) = b * q + b /\ b * q \in Nat
    OBVIOUS
  <2>2. b = b * 1 + 0 /\ b \in Nat
    OBVIOUS
  <2>3. a + 1 \in Nat /\ a + 1 = b * (q + 1) + 0
    BY <1>1, <1>4, <2>1
  <2>4. b % b = 0
    BY <1>2, <2>1, <2>2
  <2>5. (a + 1) % b = 0
    BY <1>2, <2>1, <2>3
  <2> QED
    BY <1>1, <1>4, <2>4, <2>5
<1> QED
  BY <1>3, <1>4

-----------------------------------------------------------------------------
(* What a scenario file and its injection file are made of. *)

Lines == Seq(Seq(Cell))

LEMMA LinesTyped ==
  ASSUME NEW lines \in Lines
  PROVE  /\ DataLines(lines) \in Nat /\ Header(lines) \in Seq(Cell)
         /\ DOMAIN lines = 1..Len(lines) /\ Len(lines) \in Nat
         /\ lines = <<>> => DataLines(lines) = 0 /\ Header(lines) = <<>>
         /\ lines # <<>> => Len(lines) = DataLines(lines) + 1 /\ Header(lines) = lines[1]
         /\ \A i \in 1..DataLines(lines) : i + 1 \in DOMAIN lines /\ lines[i + 1] \in Seq(Cell)
<1>1. Len(lines) \in Nat /\ DOMAIN lines = 1..Len(lines)
      /\ \A i \in 1..Len(lines) : lines[i] \in Seq(Cell)
  BY DEF Lines
<1>2. lines # <<>> => Len(lines) > 0
  BY DEF Lines
<1> QED
  BY <1>1, <1>2 DEF DataLines, Header

LEMMA NamedTyped ==
  ASSUME NEW header \in Seq(Cell), NEW name
  PROVE  /\ Named(header, name) \in SUBSET Nat
         /\ \A i \in Named(header, name) : i \in 1..Len(header) /\ i # 0 /\ i <= Len(header)
<1>1. Len(header) \in Nat /\ DOMAIN header = 1..Len(header)
  OBVIOUS
<1>2. Named(header, name) \subseteq 1..Len(header)
  BY <1>1 DEF Named
<1> QED
  BY <1>1, <1>2

LEMMA KeyColumnFound ==
  ASSUME NEW header \in Seq(Cell), NEW name, NEW heads
  PROVE  /\ KeyColumn(header, name, heads) \in 0..Len(header)
         /\ Named(header, name) # {} =>
              /\ KeyColumn(header, name, heads) # 0
              /\ KeyColumn(header, name, heads) = Max(Named(header, name))
<1> DEFINE S == KeyHeads(header, name, heads)
           T == {0} \cup S
<1>1. Len(header) \in Nat /\ DOMAIN header = 1..Len(header)
  OBVIOUS
<1>2. S \in SUBSET Nat /\ \A x \in S : x <= Len(header) /\ x # 0
  BY <1>1 DEF KeyHeads
<1>3. Named(header, name) # {} => S = Named(header, name)
  BY DEF KeyHeads, Named
<1> HIDE DEF S
<1>4. T \in SUBSET Nat /\ T # {} /\ \A x \in T : x <= Len(header)
  BY <1>1, <1>2
<1>5. Max(T) \in T /\ \A x \in T : x <= Max(T)
  BY <1>1, <1>4, GreatestOf
<1>6. KeyColumn(header, name, heads) = Max(T)
  BY DEF KeyColumn, S
<1>7. KeyColumn(header, name, heads) \in 0..Len(header)
  BY <1>1, <1>4, <1>5, <1>6
<1>8. ASSUME S # {} PROVE Max(T) # 0 /\ Max(T) = Max(S)
  <2>1. Max(S) \in S /\ \A x \in S : x <= Max(S)
    BY <1>1, <1>2, <1>8, GreatestOf
  <2>2. Max(T) # 0
    <3>1. Max(S) \in T /\ Max(S) \in Nat /\ Max(S) # 0
      BY <1>2, <2>1
    <3>2. Max(S) <= Max(T)
      BY <1>5, <3>1
    <3> QED
      BY <3>1, <3>2
  <2>3. Max(T) \in S
    BY <1>5, <2>2
  <2>4. Max(S) <= Max(T) /\ Max(T) <= Max(S) /\ Max(T) \in Nat /\ Max(S) \in Nat
    BY <1>2, <1>5, <2>1, <2>3
  <2> QED
    BY <2>2, <2>4
<1> QED
  BY <1>3, <1>6, <1>7, <1>8

LEMMA StoredRowTyped ==
  ASSUME NEW line \in Seq(Cell), NEW blankDelimiter
  PROVE  StoredRow(line, blankDelimiter) \in Seq(Cell)
<1> DEFINE kept == {i \in DOMAIN line : line[i] # Blank}
<1>1. CASE ~blankDelimiter \/ kept = {}
  BY <1>1 DEF StoredRow
<1>2. CASE blankDelimiter /\ kept # {}
  <2>1. Len(line) \in Nat /\ DOMAIN line = 1..Len(line)
    OBVIOUS
  <2>2. kept \in SUBSET Nat /\ kept \subseteq 1..Len(line) /\ \A x \in kept : x <= Len(line)
    BY <2>1
  <2>3. StoredRow(line, blankDelimiter) = SubSeq(line, Min(kept), Max(kept))
    BY <1>2 DEF StoredRow
  <2> HIDE DEF kept
  <2>4. Min(kept) \in 1..Len(line) /\ Max(kept) \in 1..Len(line)
    BY <1>2, <2>1, <2>2, LeastOf, GreatestOf
  <2> PICK a \in 1..Len(line), b \in 1..Len(line) : a = Min(kept) /\ b = Max(kept)
    BY <2>4
  <2>5. SubSeq(line, a, b) \in Seq(Cell)
    OBVIOUS
  <2> QED
    BY <2>3, <2>5
<1> QED
  BY <1>1, <1>2

-----------------------------------------------------------------------------
(* The loop over the lines of an injection file. *)

Start == [rows |-> <<>>, index |-> <<>>, whole |-> TRUE]

Step(scenario, data, i) ==
    AddLine(data, scenario.file[i + 1], Len(Header(scenario.file)),
            KeyColumn(Header(scenario.file), scenario.keyName, scenario.blankHeads),
            scenario.blankDelimiter)

\* The loop's values, line by line.
LEMMA IngestSteps ==
  ASSUME NEW scenario, scenario.file \in Lines
  PROVE  \E after :
           /\ Ingest(scenario).header = Header(scenario.file)
           /\ Ingest(scenario).data = after[DataLines(scenario.file)]
           /\ after[0] = Start
           /\ \A i \in 1..DataLines(scenario.file) : after[i] = Step(scenario, after[i - 1], i)
<1> DEFINE n == DataLines(scenario.file)
           Next1(data, i) == Step(scenario, data, i)
           After(f, k) == [i \in 0..k |-> IF i = 0 THEN Start ELSE Next1(f[i - 1], i)]
           total == CHOOSE f : f = After(f, n)
           S == {k \in 0..n : \E f : f = After(f, k)}
<1>1. n \in Nat
  BY LinesTyped
<1>2. /\ Ingest(scenario).header = Header(scenario.file)
      /\ Ingest(scenario).data = total[n]
  BY DEF Ingest, Step, Start
<1> HIDE DEF Next1, n
<1>3. 0 \in S
  <2> DEFINE g == [i \in 0..0 |-> Start]
  <2>1. g = After(g, 0)
    OBVIOUS
  <2>2. 0 \in 0..n
    BY <1>1
  <2> HIDE DEF g, After
  <2> QED
    BY <2>1, <2>2
<1>4. ASSUME NEW k \in 0..(n - 1), k \in S PROVE k + 1 \in S
  <2> PICK f : f = After(f, k)
    BY <1>4
  <2> DEFINE g == [i \in 0..(k + 1) |-> IF i = k + 1 THEN Next1(f[k], k + 1) ELSE f[i]]
  <2>1. ASSUME NEW i \in 0..(k + 1)
        PROVE  g[i] = IF i = 0 THEN Start ELSE Next1(g[i - 1], i)
    <3>1. CASE i = k + 1
      <4>1. i # 0 /\ i - 1 = k /\ k \in 0..(k + 1) /\ k # k + 1
        BY <1>1, <3>1
      <4> QED
        BY <3>1, <4>1
    <3>2. CASE i # k + 1
      <4>1. i \in 0..k /\ (i # 0 => i - 1 \in 0..(k + 1) /\ i - 1 # k + 1)
        BY <1>1, <3>2
      <4>2. f[i] = IF i = 0 THEN Start ELSE Next1(f[i - 1], i)
        BY <4>1
      <4> QED
        BY <3>2, <4>1, <4>2
    <3> QED
      BY <3>1, <3>2
  <2>2. g = After(g, k + 1)
    BY <2>1
  <2>3. k + 1 \in 0..n
    BY <1>1
  <2> QED
    BY <2>2, <2>3
<1>5. n \in S
  <2> HIDE DEF S
  <2>1. \A k \in 0..n : k \in S
    BY <1>1, <1>3, <1>4, AllOf
  <2>2. n \in 0..n
    BY <1>1
  <2> QED
    BY <2>1, <2>2
<1>6. total = After(total, n)
  BY <1>5
<1> HIDE DEF total
<1>7. total[0] = Start /\ \A i \in 1..n : total[i] = Next1(total[i - 1], i)
  BY <1>1, <1>6
<1> QED
  BY <1>2, <1>7 DEF Next1, n

Key(scenario) == KeyColumn(Header(scenario.file), scenario.keyName, scenario.blankHeads)

\* The key a row is filed under, rows counted from 0.
KeyOf(scenario, row) == CutKey(scenario.file[row + 2][Key(scenario)])

\* The index after i lines: their keys, each at its first row.
Indexed(scenario, i, index) ==
    /\ \A r \in 0..(i - 1) : KeyOf(scenario, r) = Blank \/ KeyOf(scenario, r) \in DOMAIN index
    /\ \A c \in DOMAIN index :
         /\ c # Blank /\ index[c] \in 0..(i - 1) /\ KeyOf(scenario, index[c]) = c
         /\ \A r \in 0..(i - 1) : r < index[c] => KeyOf(scenario, r) # c

\* What the loop has made of i lines.
Ingested(scenario, i, data) ==
    /\ "whole" \in DOMAIN data
    /\ data.whole =>
         /\ \A j \in 1..i : Len(scenario.file[j + 1]) = Len(Header(scenario.file))
         /\ data.rows \in Lines /\ Len(data.rows) = i
         /\ ~scenario.blankDelimiter => \A j \in 1..i : data.rows[j] = scenario.file[j + 1]
         /\ IF Key(scenario) = 0 THEN data.index = <<>> ELSE Indexed(scenario, i, data.index)

LEMMA NewKeyIndexes ==
  ASSUME NEW scenario, NEW i \in Nat, NEW index, Indexed(scenario, i, index),
         NEW rows, Len(rows) = i
  PROVE  Indexed(scenario, i + 1, NewKey(index, KeyOf(scenario, i), rows))
<1> PICK key, next : key = KeyOf(scenario, i) /\ next = NewKey(index, key, rows)
  OBVIOUS
<1>1. \A r \in 0..((i + 1) - 1) : r \in 0..(i - 1) \/ r = i
  OBVIOUS
<1>2. CASE key = Blank \/ key \in DOMAIN index
  <2>1. next = index
    BY <1>2 DEF NewKey
  <2>2. \A r \in 0..((i + 1) - 1) : KeyOf(scenario, r) = Blank \/ KeyOf(scenario, r) \in DOMAIN index
    BY <1>1, <1>2 DEF Indexed
  <2>3. ASSUME NEW c \in DOMAIN index
        PROVE  /\ c # Blank /\ index[c] \in 0..((i + 1) - 1) /\ KeyOf(scenario, index[c]) = c
               /\ \A r \in 0..((i + 1) - 1) : r < index[c] => KeyOf(scenario, r) # c
    <3>1. /\ c # Blank /\ index[c] \in 0..(i - 1) /\ KeyOf(scenario, index[c]) = c
          /\ \A r \in 0..(i - 1) : r < index[c] => KeyOf(scenario, r) # c
      BY DEF Indexed
    <3> QED
      BY <3>1
  <2> QED
    BY <2>1, <2>2, <2>3 DEF Indexed
<1>3. CASE ~(key = Blank \/ key \in DOMAIN index)
  <2>1. next = [k \in DOMAIN index \cup {key} |-> IF k = key THEN i ELSE index[k]]
    BY <1>3 DEF NewKey
  <2>2. /\ DOMAIN next = DOMAIN index \cup {key} /\ next[key] = i
        /\ \A c \in DOMAIN index : next[c] = index[c]
    BY <1>3, <2>1
  <2>3. \A r \in 0..(i - 1) : KeyOf(scenario, r) = Blank \/ KeyOf(scenario, r) \in DOMAIN index
    BY DEF Indexed
  <2>4. \A r \in 0..((i + 1) - 1) : KeyOf(scenario, r) = Blank \/ KeyOf(scenario, r) \in DOMAIN next
    BY <1>1, <2>2, <2>3
  <2>5. ASSUME NEW c \in DOMAIN next
        PROVE  /\ c # Blank /\ next[c] \in 0..((i + 1) - 1) /\ KeyOf(scenario, next[c]) = c
               /\ \A r \in 0..((i + 1) - 1) : r < next[c] => KeyOf(scenario, r) # c
    <3>1. CASE c = key
      <4>1. \A r \in 0..(i - 1) : KeyOf(scenario, r) # key
        BY <1>3, <2>3
      <4>2. \A r \in 0..((i + 1) - 1) : r < i => r \in 0..(i - 1)
        OBVIOUS
      <4> QED
        BY <1>3, <2>2, <3>1, <4>1, <4>2
    <3>2. CASE c \in DOMAIN index
      <4>1. /\ c # Blank /\ index[c] \in 0..(i - 1) /\ KeyOf(scenario, index[c]) = c
            /\ \A r \in 0..(i - 1) : r < index[c] => KeyOf(scenario, r) # c
        BY <3>2 DEF Indexed
      <4>2. \A r \in 0..((i + 1) - 1) : r < index[c] => r \in 0..(i - 1)
        BY <4>1
      <4> QED
        BY <2>2, <3>2, <4>1, <4>2
    <3> QED
      BY <2>2, <3>1, <3>2
  <2> QED
    BY <2>4, <2>5 DEF Indexed
<1> QED
  BY <1>2, <1>3

LEMMA StepIngests ==
  ASSUME NEW scenario, scenario.file \in Lines, NEW i \in 1..DataLines(scenario.file),
         NEW data, Ingested(scenario, i - 1, data)
  PROVE  Ingested(scenario, i, Step(scenario, data, i))
<1> PICK file, line, next, key :
      /\ file = scenario.file /\ line = scenario.file[i + 1]
      /\ next = Step(scenario, data, i) /\ key = Key(scenario)
  OBVIOUS
<1>1. i \in Nat /\ i - 1 \in Nat /\ i + 1 \in DOMAIN file /\ line \in Seq(Cell)
  BY LinesTyped
<1>2. CASE Len(line) # Len(Header(file))
  <2>1. next = [data EXCEPT !.whole = FALSE]
    BY <1>2 DEF Step, AddLine
  <2> QED
    BY <2>1 DEF Ingested
<1>3. CASE Len(line) = Len(Header(file))
  <2>1. next = [rows  |-> Append(data.rows, StoredRow(line, scenario.blankDelimiter)),
                index |-> IF key = 0 THEN data.index
                          ELSE NewKey(data.index, CutKey(line[key]), data.rows),
                whole |-> data.whole]
    BY <1>3 DEF Step, AddLine, Key
  <2>2. CASE ~data.whole
    BY <2>1, <2>2 DEF Ingested
  <2>3. CASE data.whole
    <3>1. /\ \A j \in 1..(i - 1) : Len(file[j + 1]) = Len(Header(file))
          /\ data.rows \in Lines /\ Len(data.rows) = i - 1
          /\ ~scenario.blankDelimiter => \A j \in 1..(i - 1) : data.rows[j] = file[j + 1]
          /\ IF key = 0 THEN data.index = <<>> ELSE Indexed(scenario, i - 1, data.index)
      BY <2>3 DEF Ingested
    <3>2. \A j \in 1..i : j \in 1..(i - 1) \/ j = i
      OBVIOUS
    <3>3. \A j \in 1..i : Len(file[j + 1]) = Len(Header(file))
      BY <1>3, <3>1, <3>2
    <3>4. /\ next.rows \in Lines /\ Len(next.rows) = i
          /\ \A j \in 1..(i - 1) : next.rows[j] = data.rows[j]
          /\ next.rows[i] = StoredRow(line, scenario.blankDelimiter)
      <4> PICK stored \in Seq(Cell) : stored = StoredRow(line, scenario.blankDelimiter)
        BY <1>1, StoredRowTyped
      <4>1. next.rows = Append(data.rows, stored)
        BY <2>1
      <4> QED
        BY <1>1, <3>1, <4>1 DEF Lines
    <3>5. ~scenario.blankDelimiter => \A j \in 1..i : next.rows[j] = file[j + 1]
      BY <3>1, <3>2, <3>4 DEF StoredRow
    <3>6. IF key = 0 THEN next.index = <<>> ELSE Indexed(scenario, i, next.index)
      <4>1. CASE key = 0
        BY <2>1, <3>1, <4>1
      <4>2. CASE key # 0
        <5>1. CutKey(line[key]) = KeyOf(scenario, i - 1)
          <6>1. (i - 1) + 2 = i + 1
            BY <1>1
          <6> QED
            BY <6>1 DEF KeyOf
        <5>2. next.index = NewKey(data.index, KeyOf(scenario, i - 1), data.rows)
          BY <2>1, <4>2, <5>1
        <5>3. Indexed(scenario, (i - 1) + 1, next.index)
          BY <1>1, <3>1, <4>2, <5>2, NewKeyIndexes
        <5>4. (i - 1) + 1 = i
          BY <1>1
        <5> QED
          BY <4>2, <5>3, <5>4
      <4> QED
        BY <4>1, <4>2
    <3>7. "whole" \in DOMAIN next
      BY <2>1
    <3> QED
      BY <3>3, <3>4, <3>5, <3>6, <3>7 DEF Ingested
  <2> QED
    BY <2>2, <2>3
<1> QED
  BY <1>2, <1>3

\* What the loop has made of the whole file.
LEMMA IngestIngests ==
  ASSUME NEW scenario, scenario.file \in Lines
  PROVE  /\ Ingest(scenario).header = Header(scenario.file)
         /\ Ingested(scenario, DataLines(scenario.file), Ingest(scenario).data)
<1> DEFINE n == DataLines(scenario.file)
<1>1. PICK after :
        /\ Ingest(scenario).header = Header(scenario.file)
        /\ Ingest(scenario).data = after[n]
        /\ after[0] = Start
        /\ \A i \in 1..n : after[i] = Step(scenario, after[i - 1], i)
  BY IngestSteps
<1>2. n \in Nat
  BY LinesTyped
<1> DEFINE S == {i \in 0..n : Ingested(scenario, i, after[i])}
<1>3. 0 \in S
  <2>1. Ingested(scenario, 0, Start)
    BY DEF Ingested, Start, Lines, Indexed
  <2> QED
    BY <1>1, <1>2, <2>1
<1>4. ASSUME NEW i \in 0..(n - 1), i \in S PROVE i + 1 \in S
  <2>1. i + 1 \in 1..n /\ i + 1 \in 0..n /\ (i + 1) - 1 = i
    BY <1>2
  <2>2. Ingested(scenario, (i + 1) - 1, after[i])
    BY <1>4, <2>1
  <2>3. Ingested(scenario, i + 1, Step(scenario, after[i], i + 1))
    BY <2>1, <2>2, StepIngests
  <2>4. after[i + 1] = Step(scenario, after[i], i + 1)
    BY <1>1, <2>1
  <2> QED
    BY <2>1, <2>3, <2>4
<1>5. n \in S
  <2> HIDE DEF S, n
  <2>1. \A i \in 0..n : i \in S
    BY <1>2, <1>3, <1>4, AllOf
  <2> QED
    BY <1>2, <2>1
<1> QED
  BY <1>1, <1>5

-----------------------------------------------------------------------------
(* The loop over the columns of a header. *)

\* The loop's values, column by column.
LEMMA FillSteps ==
  ASSUME NEW record, NEW row, NEW header \in Seq(Cell)
  PROVE  \E after :
           /\ Fill(record, row, header) = after[Len(header)]
           /\ after[0] = record.scenario.request
           /\ \A i \in 1..Len(header) :
                after[i] = Replace(after[i - 1], header[i], CellAt(record.rows[row + 1], i))
<1> DEFINE n == Len(header)
           begin == record.scenario.request
           Next1(request, i) == Replace(request, header[i], CellAt(record.rows[row + 1], i))
           After(f, k) == [i \in 0..k |-> IF i = 0 THEN begin ELSE Next1(f[i - 1], i)]
           total == CHOOSE f : f = After(f, n)
           S == {k \in 0..n : \E f : f = After(f, k)}
<1>1. n \in Nat
  OBVIOUS
<1>2. Fill(record, row, header) = total[n]
  BY DEF Fill
<1> HIDE DEF Next1, n, begin
<1>3. 0 \in S
  <2> DEFINE g == [i \in 0..0 |-> begin]
  <2>1. g = After(g, 0)
    OBVIOUS
  <2>2. 0 \in 0..n
    BY <1>1
  <2> HIDE DEF g, After
  <2> QED
    BY <2>1, <2>2
<1>4. ASSUME NEW k \in 0..(n - 1), k \in S PROVE k + 1 \in S
  <2> PICK f : f = After(f, k)
    BY <1>4
  <2> DEFINE g == [i \in 0..(k + 1) |-> IF i = k + 1 THEN Next1(f[k], k + 1) ELSE f[i]]
  <2>1. ASSUME NEW i \in 0..(k + 1)
        PROVE  g[i] = IF i = 0 THEN begin ELSE Next1(g[i - 1], i)
    <3>1. CASE i = k + 1
      <4>1. i # 0 /\ i - 1 = k /\ k \in 0..(k + 1) /\ k # k + 1
        BY <1>1, <3>1
      <4> QED
        BY <3>1, <4>1
    <3>2. CASE i # k + 1
      <4>1. i \in 0..k /\ (i # 0 => i - 1 \in 0..(k + 1) /\ i - 1 # k + 1)
        BY <1>1, <3>2
      <4>2. f[i] = IF i = 0 THEN begin ELSE Next1(f[i - 1], i)
        BY <4>1
      <4> QED
        BY <3>2, <4>1, <4>2
    <3> QED
      BY <3>1, <3>2
  <2>2. g = After(g, k + 1)
    BY <2>1
  <2>3. k + 1 \in 0..n
    BY <1>1
  <2> QED
    BY <2>2, <2>3
<1>5. n \in S
  <2> HIDE DEF S
  <2>1. \A k \in 0..n : k \in S
    BY <1>1, <1>3, <1>4, AllOf
  <2>2. n \in 0..n
    BY <1>1
  <2> QED
    BY <2>1, <2>2
<1>6. total = After(total, n)
  BY <1>5
<1> HIDE DEF total
<1>7. total[0] = begin /\ \A i \in 1..n : total[i] = Next1(total[i - 1], i)
  BY <1>1, <1>6
<1> QED
  BY <1>2, <1>7 DEF Next1, n, begin

\* The columns of a name among the first i.
Seen(header, name, i) == {k \in Named(header, name) : k <= i}

\* What i columns make of a piece of the request.
Value(header, line, i, p) ==
    IF p.variable /\ Seen(header, p.name, i) # {} THEN line[Min(Seen(header, p.name, i))] ELSE p

\* The cells a header's columns stand for; no cell looks like a variable.
PlainLine(header, line) ==
    \A k \in DOMAIN header :
        /\ ~header[k].variable /\ header[k].name \notin DOMAIN LongNames
        /\ header[k] # Blank => line[k] \in Cell /\ ~line[k].variable

LEMMA CellFields ==
  ASSUME NEW c \in Cell, NEW name
  PROVE  /\ c.variable /\ c.name = name <=> c = Variable(name)
         /\ ~c.variable /\ c.name = name <=> c = Text(name)
<1>1. c = [variable |-> c.variable, name |-> c.name]
  BY DEF Cell
<1>2. c.variable \in BOOLEAN
  BY DEF Cell
<1>3. c.variable /\ c.name = name => c = Variable(name)
  BY <1>1, <1>2 DEF Variable
<1>4. ~c.variable /\ c.name = name => c = Text(name)
  BY <1>1, <1>2 DEF Text
<1> QED
  BY <1>3, <1>4 DEF Variable, Text

\* One more column: the piece a variable stands for does not change any more.
LEMMA ColumnFills ==
  ASSUME NEW header \in Seq(Cell), NEW line, PlainLine(header, line),
         NEW i \in Nat, i + 1 \in DOMAIN header, NEW p \in Cell, NEW q, q = Value(header, line, i, p)
  PROVE  Value(header, line, i + 1, p) =
           IF header[i + 1] # Blank /\ q = Variable(header[i + 1].name) THEN line[i + 1] ELSE q
<1> PICK h, A, B : h = header[i + 1] /\ A = Seen(header, p.name, i) /\ B = Seen(header, p.name, i + 1)
  OBVIOUS
<1>1. h \in Cell /\ ~h.variable
  BY DEF PlainLine
<1>2. A \in SUBSET Nat /\ B \in SUBSET Nat
      /\ (\A k \in B : k \in A \/ k = i + 1) /\ (\A k \in A : k \in B /\ k <= i)
  BY NamedTyped DEF Seen
<1>3. i + 1 \in B <=> h = Text(p.name) /\ p.name # Empty
  BY DEF Seen, Named
<1>4. h = Text(p.name) <=> h.name = p.name
  BY <1>1, CellFields
<1>5. h # Blank <=> h.name # Empty
  BY <1>1, CellFields DEF Blank
<1>6. CASE p.variable /\ A # {}
  <2> PICK k : k = Min(A)
    OBVIOUS
  <2>1. k \in A /\ \A x \in A : k <= x
    BY <1>2, <1>6, LeastOf
  <2> PICK l : l = Min(B)
    OBVIOUS
  <2>2. l \in B /\ \A x \in B : l <= x
    BY <1>2, <1>6, LeastOf
  <2>3. k = l
    <3>1. k \in B /\ k \in Nat /\ l \in Nat /\ l <= k
      BY <1>2, <2>1, <2>2
    <3>2. l \in A
      BY <1>2, <2>1, <2>2, <3>1
    <3> QED
      BY <2>1, <3>1, <3>2
  <2>4. q = line[k] /\ Value(header, line, i + 1, p) = line[k]
    BY <1>2, <1>6, <2>1, <2>3 DEF Value
  <2>5. k \in DOMAIN header /\ header[k] # Blank
    BY <2>1 DEF Seen, Named, Blank, Text
  <2>6. ~line[k].variable
    BY <2>5 DEF PlainLine
  <2>7. q # Variable(h.name)
    BY <2>4, <2>6 DEF Variable
  <2> QED
    BY <2>4, <2>7
<1>7. CASE ~(p.variable /\ A # {})
  <2>1. q = p
    BY <1>7 DEF Value
  <2>2. CASE h # Blank /\ p = Variable(h.name)
    <3>1. p.variable /\ p.name = h.name
      BY <2>2 DEF Variable
    <3>2. i + 1 \in B /\ A = {}
      BY <1>3, <1>4, <1>5, <1>7, <2>2, <3>1
    <3>3. B = {i + 1}
      BY <1>2, <3>2
    <3>4. Min(B) = i + 1
      <4>1. Min(B) \in B
        BY <1>2, <3>2, LeastOf
      <4> QED
        BY <3>3, <4>1
    <3>5. Value(header, line, i + 1, p) = line[i + 1]
      BY <3>1, <3>2, <3>4 DEF Value
    <3> QED
      BY <2>1, <2>2, <3>5
  <2>3. CASE ~(h # Blank /\ p = Variable(h.name))
    <3>1. p.variable => i + 1 \notin B
      BY <1>3, <1>4, <1>5, <2>3, CellFields
    <3>2. p.variable => B = {}
      BY <1>2, <1>7, <3>1
    <3>3. Value(header, line, i + 1, p) = p
      BY <3>2 DEF Value
    <3> QED
      BY <2>1, <2>3, <3>3
  <2> QED
    BY <2>2, <2>3
<1> QED
  BY <1>6, <1>7

\* The request after i columns.
FilledBy(request, header, line, i) ==
    [j \in DOMAIN request |-> Value(header, line, i, request[j])]

\* The columns together: every variable with a column has become the cell of the
\* first one of its name.
LEMMA FillFills ==
  ASSUME NEW record, NEW row, NEW header \in Seq(Cell), NEW line, PlainLine(header, line),
         record.scenario.request \in Seq(Cell),
         \A k \in DOMAIN header : header[k] # Blank => CellAt(record.rows[row + 1], k) = line[k]
  PROVE  Fill(record, row, header) = FilledBy(record.scenario.request, header, line, Len(header))
<1> DEFINE n == Len(header)
           request == record.scenario.request
<1>1. PICK after :
        /\ Fill(record, row, header) = after[n]
        /\ after[0] = request
        /\ \A i \in 1..n :
             after[i] = Replace(after[i - 1], header[i], CellAt(record.rows[row + 1], i))
  BY FillSteps
<1>2. n \in Nat /\ DOMAIN header = 1..n
  OBVIOUS
<1>3. DOMAIN request = 1..Len(request) /\ \A j \in DOMAIN request : request[j] \in Cell
  OBVIOUS
<1>4. request = [j \in DOMAIN request |-> request[j]]
  OBVIOUS
<1> DEFINE S == {i \in 0..n : after[i] = FilledBy(request, header, line, i)}
<1> HIDE DEF request, n
<1>5. 0 \in S
  <2>1. \A p : Value(header, line, 0, p) = p
    <3>1. \A name : Seen(header, name, 0) = {}
      BY NamedTyped DEF Seen
    <3> QED
      BY <3>1 DEF Value
  <2>2. FilledBy(request, header, line, 0) = request
    BY <1>4, <2>1 DEF FilledBy
  <2> QED
    BY <1>1, <1>2, <2>2
<1>6. ASSUME NEW i \in 0..(n - 1), i \in S PROVE i + 1 \in S
  <2>1. i \in Nat /\ i + 1 \in 1..n /\ i + 1 \in 0..n /\ (i + 1) - 1 = i
    BY <1>2
  <2> PICK h, cell : h = header[i + 1] /\ cell = CellAt(record.rows[row + 1], i + 1)
    OBVIOUS
  <2>2. after[i + 1] = Replace(after[i], h, cell)
    BY <1>1, <2>1
  <2>3. after[i] = [j \in DOMAIN request |-> Value(header, line, i, request[j])]
    BY <1>6 DEF FilledBy
  <2>4. ~h.variable /\ h.name \notin DOMAIN LongNames /\ (h # Blank => cell = line[i + 1])
    BY <1>2, <2>1 DEF PlainLine
  <2>5. ASSUME NEW j \in DOMAIN request
        PROVE  Value(header, line, i + 1, request[j]) =
                 IF h # Blank /\ after[i][j] = Variable(h.name) THEN line[i + 1] ELSE after[i][j]
    <3>1. request[j] \in Cell /\ i + 1 \in DOMAIN header
      BY <1>2, <1>3, <2>1
    <3> QED
      BY <2>1, <2>3, <3>1, ColumnFills
  <2>6. CASE h = Blank
    <3>1. after[i + 1] = after[i]
      BY <2>2, <2>6 DEF Replace
    <3> QED
      BY <2>1, <2>3, <2>5, <2>6, <3>1 DEF FilledBy
  <2>7. CASE h # Blank
    <3>1. after[i + 1] = Substitute(after[i], h.name, cell)
      BY <2>2, <2>4, <2>7 DEF Replace
    <3>2. after[i + 1] = [j \in DOMAIN request |->
                            IF after[i][j] = Variable(h.name) THEN line[i + 1] ELSE after[i][j]]
      BY <2>3, <2>4, <2>7, <3>1 DEF Substitute
    <3> QED
      BY <2>1, <2>5, <2>7, <3>2 DEF FilledBy
  <2> QED
    BY <2>6, <2>7
<1>7. n \in S
  <2> HIDE DEF S
  <2>1. \A i \in 0..n : i \in S
    BY <1>2, <1>5, <1>6, AllOf
  <2> QED
    BY <1>2, <2>1
<1> QED
  BY <1>1, <1>7 DEF request, n

-----------------------------------------------------------------------------
(* A record as it was loaded. *)

\* What Load leaves, with the counter somewhere in its range.
Stands(record) ==
    /\ record.scenario \in Scenario /\ Loads(record.scenario)
    /\ record.header = Loaded(record.scenario).header
    /\ record.rows = Loaded(record.scenario).rows
    /\ record.index = Loaded(record.scenario).index
    /\ DOMAIN record = {"scenario", "header", "rows", "index", "seq"}
    /\ record.seq \in 0..(SeqModulus - 1)

\* What that says of its data.
DataOf(record) ==
    LET scenario == record.scenario
        header == Header(scenario.file)
    IN  /\ scenario.file \in Lines /\ scenario.file # <<>> /\ record.header = header
        /\ Len(record.rows) = Len(scenario.file) - 1
        /\ \A r \in 0..(Len(record.rows) - 1) : Len(scenario.file[r + 2]) = Len(header)
        /\ ~scenario.blankDelimiter =>
             \A r \in 0..(Len(record.rows) - 1) : record.rows[r + 1] = scenario.file[r + 2]
        /\ IF Key(scenario) = 0 THEN record.index = <<>>
           ELSE Indexed(scenario, Len(record.rows), record.index)

LEMMA LoadedStands ==
  ASSUME NEW scenario \in Scenario, Loads(scenario)
  PROVE  Stands(Loaded(scenario)) /\ Loaded(scenario).scenario = scenario
                                  /\ Loaded(scenario).seq = 0
<1>1. Loaded(scenario).scenario = scenario /\ Loaded(scenario).seq = 0
      /\ DOMAIN Loaded(scenario) = {"scenario", "header", "rows", "index", "seq"}
  BY DEF Loaded
<1>2. 0 \in 0..(SeqModulus - 1)
  BY SeqModulusAssumption
<1> QED
  BY <1>1, <1>2 DEF Stands

LEMMA StandsFacts ==
  ASSUME NEW record, Stands(record)
  PROVE  /\ record.rows \in Lines
         /\ record.header \in Seq(Cell)
         /\ ~HasData(record.scenario) =>
              record.rows = <<>> /\ record.header = <<>> /\ record.index = <<>>
         /\ HasData(record.scenario) => DataOf(record)
<1> PICK scenario : scenario = record.scenario
  OBVIOUS
<1>1. /\ scenario \in Scenario /\ Loads(scenario)
      /\ record.header = Loaded(scenario).header
      /\ record.rows = Loaded(scenario).rows
      /\ record.index = Loaded(scenario).index
  BY DEF Stands
<1>2. CASE scenario.file = None
  <2>1. record.rows = <<>> /\ record.header = <<>> /\ record.index = <<>>
    BY <1>1, <1>2 DEF Loaded
  <2> QED
    BY <1>2, <2>1 DEF HasData, Lines
<1>3. CASE scenario.file # None
  <2>1. scenario.file \in Lines /\ Ingest(scenario).data.whole
    BY <1>1, <1>3 DEF Loads, Scenario, Lines
  <2> PICK n, data : n = DataLines(scenario.file) /\ data = Ingest(scenario).data
    OBVIOUS
  <2>2. /\ record.header = Ingest(scenario).header
        /\ record.rows = data.rows /\ record.index = data.index
    BY <1>1, <1>3 DEF Loaded
  <2>3. record.header = Header(scenario.file) /\ Ingested(scenario, n, data)
    BY <2>1, <2>2, IngestIngests
  <2>4. /\ \A j \in 1..n : Len(scenario.file[j + 1]) = Len(Header(scenario.file))
        /\ data.rows \in Lines /\ Len(data.rows) = n
        /\ ~scenario.blankDelimiter => \A j \in 1..n : data.rows[j] = scenario.file[j + 1]
        /\ IF Key(scenario) = 0 THEN data.index = <<>> ELSE Indexed(scenario, n, data.index)
    BY <2>1, <2>3 DEF Ingested
  <2>5. record.header \in Seq(Cell) /\ n \in Nat
    BY <2>1, <2>3, LinesTyped
  <2>6. CASE scenario.file = <<>>
    <3>1. n = 0 /\ record.header = <<>>
      BY <2>1, <2>3, <2>6, LinesTyped
    <3>2. data.rows = <<>>
      BY <2>4, <3>1 DEF Lines
    <3>3. Key(scenario) = 0
      <4>1. Header(scenario.file) = <<>>
        BY <2>3, <3>1
      <4>2. Key(scenario) \in 0..0
        BY <2>1, <4>1, LinesTyped, KeyColumnFound DEF Key
      <4> QED
        BY <4>2
    <3> QED
      BY <2>2, <2>4, <2>5, <2>6, <3>1, <3>2, <3>3 DEF HasData
  <2>7. CASE scenario.file # <<>>
    <3>1. Len(scenario.file) - 1 = n
      BY <2>1, <2>5, <2>7, LinesTyped
    <3>2. \A r \in 0..(n - 1) : r + 1 \in 1..n /\ (r + 1) + 1 = r + 2
      BY <2>5
    <3>3. \A r \in 0..(n - 1) : Len(scenario.file[r + 2]) = Len(Header(scenario.file))
      BY <2>4, <3>2
    <3>4. ~scenario.blankDelimiter =>
            \A r \in 0..(n - 1) : data.rows[r + 1] = scenario.file[r + 2]
      BY <2>4, <3>2
    <3>5. DataOf(record)
      BY <2>1, <2>2, <2>3, <2>4, <2>7, <3>1, <3>3, <3>4 DEF DataOf
    <3> QED
      BY <1>3, <2>2, <2>4, <2>5, <2>7, <3>5 DEF HasData
  <2> QED
    BY <2>6, <2>7
<1> QED
  BY <1>2, <1>3

LEMMA RecordFindsKeys ==
  ASSUME NEW record, Stands(record), HasData(record.scenario),
         Columns(record.scenario, record.scenario.keyName) # {}
  PROVE  FirstRows(record.scenario, record.index)
<1> PICK scenario, file, index, n :
      /\ scenario = record.scenario /\ file = scenario.file
      /\ index = record.index /\ n = Len(file) - 1
  OBVIOUS
<1> PICK column : column = Max(Columns(scenario, scenario.keyName))
  OBVIOUS
<1>1. DataOf(record) /\ record.rows \in Lines
  BY StandsFacts
<1>2. file \in Lines /\ file # <<>> /\ Header(file) = file[1] /\ Len(record.rows) = n
  BY <1>1, LinesTyped DEF DataOf
<1>3. n \in Nat /\ Len(file) = n + 1 /\ DOMAIN file = 1..(n + 1)
  BY <1>2, LinesTyped
<1>4. Key(scenario) # 0 /\ Key(scenario) = column
  <2>1. Header(file) \in Seq(Cell)
    BY <1>2, LinesTyped
  <2>2. Columns(scenario, scenario.keyName) = Named(Header(file), scenario.keyName)
    BY <1>2 DEF Columns
  <2> QED
    BY <2>1, <2>2, KeyColumnFound DEF Key
<1>5. Indexed(scenario, n, index)
  BY <1>1, <1>2, <1>4 DEF DataOf
<1>6. \A r : KeyOf(scenario, r) = CutKey(DataLine(scenario, r)[column])
  BY <1>4 DEF KeyOf, DataLine
<1>7. \A line : line \in Range(Tail(file)) <=> \E r \in 0..(n - 1) : line = DataLine(scenario, r)
  <2>1. Len(Tail(file)) = n /\ DOMAIN Tail(file) = 1..n
        /\ \A i \in 1..n : Tail(file)[i] = file[i + 1]
    BY <1>2, <1>3 DEF Lines
  <2>2. ASSUME NEW line, line \in Range(Tail(file))
        PROVE  \E r \in 0..(n - 1) : line = DataLine(scenario, r)
    <3> PICK i \in 1..n : line = Tail(file)[i]
      BY <2>1, <2>2 DEF Range
    <3>1. i - 1 \in 0..(n - 1) /\ (i - 1) + 2 = i + 1
      BY <1>3
    <3> QED
      BY <2>1, <3>1 DEF DataLine
  <2>3. ASSUME NEW r \in 0..(n - 1)
        PROVE  DataLine(scenario, r) \in Range(Tail(file))
    <3>1. r + 1 \in 1..n /\ (r + 1) + 1 = r + 2
      BY <1>3
    <3>2. Tail(file)[r + 1] = DataLine(scenario, r)
      BY <2>1, <3>1 DEF DataLine
    <3> QED
      BY <2>1, <3>1, <3>2 DEF Range
  <2> QED
    BY <2>2, <2>3
<1>8. DOMAIN index = {CutKey(line[column]) : line \in Range(Tail(file))} \ {Blank}
  <2>1. ASSUME NEW c \in DOMAIN index
        PROVE  c # Blank /\ \E line \in Range(Tail(file)) : c = CutKey(line[column])
    <3>1. c # Blank /\ index[c] \in 0..(n - 1) /\ KeyOf(scenario, index[c]) = c
      BY <1>5 DEF Indexed
    <3> QED
      BY <1>6, <1>7, <3>1
  <2>2. ASSUME NEW line \in Range(Tail(file)), CutKey(line[column]) # Blank
        PROVE  CutKey(line[column]) \in DOMAIN index
    <3> PICK r \in 0..(n - 1) : line = DataLine(scenario, r)
      BY <1>7
    <3>1. KeyOf(scenario, r) = CutKey(line[column])
      BY <1>6
    <3> QED
      BY <1>5, <2>2, <3>1 DEF Indexed
  <2> QED
    BY <2>1, <2>2
<1> DEFINE rows(key) == {r \in 0..(n - 1) : CutKey(DataLine(scenario, r)[column]) = key}
<1>9. ASSUME NEW key \in DOMAIN index PROVE index[key] = Min(rows(key))
  <2> PICK f, R : f = index[key] /\ R = rows(key)
    OBVIOUS
  <2>1. /\ f \in 0..(n - 1) /\ KeyOf(scenario, f) = key
        /\ \A r \in 0..(n - 1) : r < f => KeyOf(scenario, r) # key
    BY <1>5 DEF Indexed
  <2>2. R \in SUBSET Nat /\ f \in R /\ \A r \in R : ~(r < f)
    BY <1>3, <1>6, <2>1
  <2>3. Min(R) \in R /\ Min(R) <= f
    BY <2>2, LeastOf
  <2>4. ~(Min(R) < f) /\ Min(R) \in Nat /\ f \in Nat
    BY <2>2, <2>3
  <2> QED
    BY <2>3, <2>4
<1>10. Len(file) - 2 = n - 1
  BY <1>3
<1>11. \A key \in DOMAIN index :
         index[key] = Min({r \in 0..(Len(file) - 2) : CutKey(DataLine(scenario, r)[column]) = key})
  BY <1>9, <1>10
<1>12. FirstRows(scenario, index)
  <2>1. DOMAIN index = {CutKey(line[Max(Columns(scenario, scenario.keyName))]) :
                          line \in Range(Tail(scenario.file))} \ {Blank}
    BY <1>8
  <2>2. \A key \in DOMAIN index :
          index[key] = Min({r \in 0..(Len(scenario.file) - 2) :
                 CutKey(DataLine(scenario, r)[Max(Columns(scenario, scenario.keyName))]) = key})
    BY <1>11
  <2> QED
    BY <2>1, <2>2 DEF FirstRows
<1> QED
  BY <1>12

LEMMA PlainData ==
  ASSUME NEW record, Stands(record), HasData(record.scenario), Plain(record.scenario),
         NEW row \in Nat, ~ReadNowhere(record, row)
  PROVE  /\ PlainLine(record.header, DataLine(record.scenario, row))
         /\ \A k \in DOMAIN record.header :
              record.header[k] # Blank =>
                CellAt(record.rows[row + 1], k) = DataLine(record.scenario, row)[k]
<1> PICK scenario, file, header, line, n :
      /\ scenario = record.scenario /\ file = scenario.file /\ header = record.header
      /\ line = DataLine(scenario, row) /\ n = Len(record.rows)
  OBVIOUS
<1>1. DataOf(record) /\ record.rows \in Lines /\ header \in Seq(Cell)
  BY StandsFacts
<1>2. file \in Lines /\ file # <<>> /\ header = file[1] /\ n = Len(file) - 1
  BY <1>1, LinesTyped DEF DataOf
<1>3. n \in Nat /\ DOMAIN file = 1..(n + 1) /\ DOMAIN record.rows = 1..n
      /\ DOMAIN header = 1..Len(header)
  <2>1. Len(file) \in Nat /\ DOMAIN file = 1..Len(file) /\ Len(file) = DataLines(file) + 1
        /\ DataLines(file) \in Nat
    BY <1>2, LinesTyped
  <2>2. DOMAIN record.rows = 1..n
    BY <1>1 DEF Lines
  <2> QED
    BY <1>1, <1>2, <2>1, <2>2
<1>4. ASSUME NEW i \in DOMAIN file, NEW k \in DOMAIN file[i] PROVE ~file[i][k].variable
  <2>1. file[i] \in Range(file) /\ file[i][k] \in Range(file[i])
    BY DEF Range
  <2> QED
    BY <2>1 DEF Plain
<1>5. \A k \in DOMAIN header : ~header[k].variable /\ header[k].name \notin DOMAIN LongNames
  <2>1. 1 \in DOMAIN file
    BY <1>3
  <2>2. \A k \in DOMAIN header : header[k] \in Range(scenario.file[1])
    BY <1>2 DEF Range
  <2> QED
    BY <1>2, <1>4, <2>1, <2>2 DEF Plain
<1>6. ASSUME NEW k \in DOMAIN header, header[k] # Blank
      PROVE  /\ CellAt(record.rows[row + 1], k) = line[k]
             /\ line[k] \in Cell /\ ~line[k].variable
  <2>1. row + 1 \in 1..n
    BY <1>3, <1>6 DEF ReadNowhere, NeedsRow
  <2>2. row \in 0..(n - 1) /\ row + 2 \in DOMAIN file
    BY <1>3, <2>1
  <2>3. line \in Seq(Cell) /\ line = file[row + 2]
    BY <1>2, <2>2 DEF DataLine, Lines
  <2>4. Len(line) = Len(header) /\ record.rows[row + 1] = line
    BY <1>1, <2>2, <2>3 DEF DataOf, Plain
  <2>5. DOMAIN line = DOMAIN header
    BY <1>3, <2>3, <2>4
  <2>6. CellAt(line, k) = line[k]
    BY <2>5 DEF CellAt
  <2> QED
    BY <1>4, <2>2, <2>3, <2>4, <2>5, <2>6
<1> QED
  BY <1>5, <1>6 DEF PlainLine

LEMMA RecordFaithful ==
  ASSUME NEW record, Stands(record), HasData(record.scenario) => Plain(record.scenario),
         NEW row \in Nat, ~ReadNowhere(record, row)
  PROVE  Faithful(record.scenario, row, Compose(record, row))
<1> PICK scenario, header, line, request :
      /\ scenario = record.scenario /\ header = record.header
      /\ line = DataLine(scenario, row) /\ request = scenario.request
  OBVIOUS
<1>1. header \in Seq(Cell) /\ request \in Seq(Cell)
  BY StandsFacts DEF Stands, Scenario
<1>2. /\ PlainLine(header, line)
      /\ \A k \in DOMAIN header :
           header[k] # Blank => CellAt(record.rows[row + 1], k) = line[k]
  <2>1. CASE HasData(scenario)
    BY <2>1, PlainData
  <2>2. CASE ~HasData(scenario)
    <3>1. DOMAIN header = {}
      BY <2>2, StandsFacts
    <3> QED
      BY <3>1 DEF PlainLine
  <2> QED
    BY <2>1, <2>2
<1>3. Compose(record, row) = FilledBy(request, header, line, Len(header))
  BY <1>1, <1>2, FillFills DEF Compose
<1>4. \A name : Seen(header, name, Len(header)) = Named(header, name)
  BY <1>1, NamedTyped DEF Seen
<1>5. HasData(scenario) => \A name : Named(header, name) = Columns(scenario, name)
  <2> HAVE HasData(scenario)
  <2>1. header = scenario.file[1]
    BY StandsFacts, LinesTyped DEF DataOf
  <2> QED
    BY <2>1 DEF Columns
<1>6. ~HasData(scenario) => \A name : Named(header, name) = {}
  BY StandsFacts DEF Named
<1>7. CASE HasData(scenario)
  BY <1>3, <1>4, <1>5, <1>7 DEF Faithful, FilledBy, Value
<1>8. CASE ~HasData(scenario)
  BY <1>3, <1>4, <1>6, <1>8 DEF Faithful, FilledBy, Value
<1> QED
  BY <1>7, <1>8

-----------------------------------------------------------------------------
(* The turns of the row counter. *)

LEMMA Forth ==
  ASSUME NEW b \in Nat \ {0}, NEW a \in Nat, NEW d \in Nat, (a % b) + d < b
  PROVE  (a + d) % b = (a % b) + d
<1>1. PICK q \in Nat, r \in 0..(b - 1) : q = a \div b /\ r = a % b /\ a = b * q + r
  BY Parts
<1>2. r + d \in 0..(b - 1) /\ a + d \in Nat /\ a + d = b * q + (r + d)
  <2>1. b * q \in Nat
    OBVIOUS
  <2> QED
    BY <1>1, <2>1
<1>3. ASSUME NEW x \in Nat, NEW s \in 0..(b - 1), x = b * q + s
      PROVE  x % b = s
  BY <1>3, Remainder
<1>4. (a + d) % b = r + d
  BY <1>2, <1>3
<1> QED
  BY <1>1, <1>4

LEMMA Below ==
  ASSUME NEW b \in Nat \ {0}, NEW a \in Nat
  PROVE  /\ a % b \in Nat /\ a % b < b /\ a % b <= a
         /\ a < b => a % b = a
<1>1. PICK q \in Nat, r \in 0..(b - 1) : q = a \div b /\ r = a % b /\ a = b * q + r
  BY Parts
<1>2. b * q \in Nat /\ (q # 0 => b * q >= b)
  OBVIOUS
<1>3. q = 0 => b * q = 0
  OBVIOUS
<1> QED
  BY <1>1, <1>2, <1>3

\* Of the draws in one turn, those of row r.
DrawsOf(s, t, r) == {k \in DOMAIN s : (k - 1) \div SeqModulus = t /\ s[k] = r}

\* The rows a counter names that goes up by one and starts again at SeqModulus.
InTurn(s, rows) == \A k \in DOMAIN s : s[k] = ((k - 1) % SeqModulus) % rows

LEMMA DrawsShift ==
  ASSUME NEW s \in Seq(Nat), NEW rows \in Nat \ {0}, InTurn(s, rows),
         NEW t, NEW r \in 0..(rows - 1), NEW q \in Nat, NEW d \in Nat,
         NEW k \in DrawsOf(s, t, r), d <= (k - 1) % SeqModulus,
         (((k - 1) % SeqModulus) - d) % rows = q
  PROVE  k - d \in DrawsOf(s, t, q)
<1> PICK M \in Nat \ {0} : M = SeqModulus
  BY SeqModulusAssumption
<1>1. k \in 1..Len(s) /\ Len(s) \in Nat /\ DOMAIN s = 1..Len(s) /\ (k - 1) \div M = t
  BY DEF DrawsOf
<1>2. k - 1 \in Nat
  BY <1>1
<1> PICK p \in Nat : p = (k - 1) % M
  BY <1>2, Below
<1>3. /\ (k - 1) - d \in Nat
      /\ ((k - 1) - d) \div M = t /\ ((k - 1) - d) % M = p - d
  <2>1. d \in 0..((k - 1) % M)
    BY <1>2
  <2> QED
    BY <1>1, <1>2, <2>1, Back
<1>4. (k - d) - 1 = (k - 1) - d /\ k - d \in 1..Len(s)
  BY <1>1, <1>3
<1>5. s[k - d] = q
  BY <1>1, <1>3, <1>4 DEF InTurn
<1> QED
  BY <1>1, <1>3, <1>4, <1>5 DEF DrawsOf

LEMMA DrawsFinite ==
  ASSUME NEW s \in Seq(Nat), NEW t, NEW r
  PROVE  IsFiniteSet(DrawsOf(s, t, r)) /\ Cardinality(DrawsOf(s, t, r)) \in Nat
         /\ DrawsOf(s, t, r) \in SUBSET Nat
<1>1. DOMAIN s = 1..Len(s) /\ Len(s) \in Nat
  OBVIOUS
<1>2. IsFiniteSet(1..Len(s))
  BY <1>1, FS_Interval
<1>3. DrawsOf(s, t, r) \in SUBSET (1..Len(s))
  BY <1>1 DEF DrawsOf
<1>4. IsFiniteSet(DrawsOf(s, t, r))
  BY <1>2, <1>3, FS_Subset
<1>5. DrawsOf(s, t, r) \in SUBSET Nat
  BY <1>1, <1>3
<1> QED
  BY <1>4, <1>5, FS_CardinalityType

\* A row drawn is followed or preceded by every other before it is drawn again.
LEMMA OneMore ==
  ASSUME NEW s \in Seq(Nat), NEW rows \in Nat \ {0}, InTurn(s, rows),
         NEW t, NEW r \in 0..(rows - 1), NEW q \in 0..(rows - 1)
  PROVE  Cardinality(DrawsOf(s, t, r)) <= Cardinality(DrawsOf(s, t, q)) + 1
<1> PICK M \in Nat \ {0} : M = SeqModulus
  BY SeqModulusAssumption
<1> PICK A, B : A = DrawsOf(s, t, r) /\ B = DrawsOf(s, t, q)
  OBVIOUS
<1>1. /\ IsFiniteSet(A) /\ Cardinality(A) \in Nat /\ A \in SUBSET Nat
      /\ IsFiniteSet(B) /\ Cardinality(B) \in Nat
  BY DrawsFinite
<1>2. ASSUME NEW k \in A
      PROVE  /\ k - 1 \in Nat /\ (k - 1) \div M = t
             /\ (k - 1) % M \in Nat /\ ((k - 1) % M) % rows = r /\ r <= (k - 1) % M
             /\ (k - 1) % M < rows => (k - 1) % M = r
  <2>1. k \in DOMAIN s /\ k \in 1..Len(s) /\ (k - 1) \div M = t /\ s[k] = r
    BY DEF DrawsOf
  <2>2. k - 1 \in Nat
    BY <2>1
  <2> PICK p \in Nat : p = (k - 1) % M
    BY <2>2, Below
  <2>3. p % rows = r
    BY <2>1 DEF InTurn
  <2>4. p % rows <= p /\ (p < rows => p % rows = p)
    BY Below
  <2> QED
    BY <2>1, <2>2, <2>3, <2>4
<1>3. ASSUME NEW C \in SUBSET A, NEW d \in Nat, \A k \in C : k - d \in B
      PROVE  Cardinality(C) <= Cardinality(B)
  <2> DEFINE f == [k \in C |-> k - d]
  <2>1. f \in [C -> B]
    BY <1>3
  <2>2. \A k, l \in C : f[k] = f[l] => k = l
    BY <1>1
  <2>3. f \in Injection(C, B)
    BY <2>1, <2>2, Zenon DEF Injection, IsInjective
  <2> QED
    BY <1>1, <2>3, FS_Injection
<1>4. CASE r >= q
  <2>1. ASSUME NEW k \in A PROVE k - (r - q) \in B
    <3> PICK p \in Nat, d \in Nat : p = (k - 1) % M /\ d = r - q
      BY <1>2, <1>4
    <3>1. p % rows = r /\ d \in 0..(p % rows) /\ d <= p
      BY <1>2, <1>4
    <3>2. (p - d) % rows = q
      <4>1. (p - d) % rows = (p % rows) - d
        BY <3>1, Back
      <4> QED
        BY <3>1, <4>1
    <3> QED
      BY <3>1, <3>2, DrawsShift
  <2>2. Cardinality(A) <= Cardinality(B)
    BY <1>3, <1>4, <2>1
  <2> QED
    BY <1>1, <2>2
<1>5. CASE r < q
  <2>1. ASSUME NEW k \in A, rows <= (k - 1) % M PROVE k - (rows - (q - r)) \in B
    <3> PICK p \in Nat, d \in Nat, e \in Nat :
          p = (k - 1) % M /\ d = rows - (q - r) /\ e = q - r
      BY <1>2, <1>5
    <3>1. p % rows = r /\ rows <= p /\ d <= p /\ p - d = (p - rows) + e
      BY <1>2, <2>1
    <3>2. p - rows \in Nat /\ (p - rows) % rows = r
      BY <3>1, Lower
    <3>3. r + e = q /\ q < rows
      OBVIOUS
    <3>4. ASSUME NEW x \in Nat, x % rows = r PROVE (x + e) % rows = q
      <4>1. (x % rows) + e < rows
        BY <3>3, <3>4
      <4>2. (x + e) % rows = (x % rows) + e
        BY <4>1, Forth
      <4> QED
        BY <3>3, <3>4, <4>2
    <3>5. ((p - rows) + e) % rows = q
      BY <3>2, <3>4
    <3> QED
      BY <3>1, <3>5, DrawsShift, SMTT(30)
  <2>2. CASE \A k \in A : rows <= (k - 1) % M
    <3>1. Cardinality(A) <= Cardinality(B)
      BY <1>3, <1>5, <2>1, <2>2
    <3> QED
      BY <1>1, <3>1
  <2>3. CASE \E k \in A : (k - 1) % M < rows
    <3>1. PICK first \in A : (first - 1) % M < rows
      BY <2>3
    <3>2. \A k \in A \ {first} : rows <= (k - 1) % M
      <4> SUFFICES ASSUME NEW k \in A, (k - 1) % M < rows PROVE k = first
        BY <1>2
      <4>1. (k - 1) % M = (first - 1) % M /\ (k - 1) \div M = (first - 1) \div M
        BY <1>2, <3>1
      <4>2. k - 1 = first - 1
        <5>1. PICK a \in Nat, b \in 0..(M - 1) :
                a = (k - 1) \div M /\ b = (k - 1) % M /\ k - 1 = M * a + b
          BY <1>2, Parts
        <5>2. PICK c \in Nat, e \in 0..(M - 1) :
                c = (first - 1) \div M /\ e = (first - 1) % M /\ first - 1 = M * c + e
          BY <1>2, Parts
        <5> QED
          BY <4>1, <5>1, <5>2, Zenon
      <4> QED
        BY <1>1, <4>2
    <3>3. Cardinality(A \ {first}) <= Cardinality(B)
      <4>1. \A k \in A \ {first} : k - (rows - (q - r)) \in B
        BY <2>1, <3>2
      <4>2. rows - (q - r) \in Nat /\ A \ {first} \in SUBSET A
        BY <1>5
      <4> QED
        BY <1>3, <4>1, <4>2
    <3>4. Cardinality(A \ {first}) = Cardinality(A) - 1
      BY <1>1, <3>1, FS_RemoveElement
    <3> QED
      BY <1>1, <3>3, <3>4
  <2>4. (\A k \in A : rows <= (k - 1) % M) \/ (\E k \in A : (k - 1) % M < rows)
    BY <1>2
  <2> QED
    BY <2>2, <2>3, <2>4
<1> QED
  BY <1>4, <1>5

-----------------------------------------------------------------------------
(* The inductive invariant. *)

Placed ==
    /\ config \in Configurations /\ handled \in 0..Len(config)
    /\ process \in {"up", "exited", "crashed"}
    /\ Records \subseteq Names
    /\ DOMAIN worker = Workers /\ DOMAIN drawn = Names
    /\ \A n \in Names : drawn[n] \in Seq(Nat)

\* The entries for a name that the loop has been through.
Past(n) == {i \in EntriesOf(n) : i <= handled}

ServedSoFar ==
    \A n \in Names :
        IF Past(n) = {} THEN n \notin Records
        ELSE n \in Records /\ table[n].scenario = config[Max(Past(n))].scenario

\* The row a worker was given is there, if any is.
DrawnExists(w) ==
    LET rows == table[worker[w].name].rows
    IN  rows = <<>> \/ worker[w].row + 1 \in DOMAIN rows

ComposedFaithful(w) ==
    LET scenario == table[worker[w].name].scenario
    IN  (HasData(scenario) => Plain(scenario)) =>
            Faithful(scenario, worker[w].row, worker[w].request)

WorkerSound(w) ==
    /\ worker[w].pc \in {"idle", "drawn", "composed"}
    /\ worker[w].pc # "idle" =>
         handled = Len(config) /\ worker[w].name \in Records /\ worker[w].row \in Nat
    /\ worker[w].pc = "drawn" => DrawnExists(w)
    /\ worker[w].pc = "composed" => ComposedFaithful(w)

WorkersSound == \A w \in Workers : WorkerSound(w)

\* The counter of a record, and the rows drawn by it.
CountedBy(record, rows) ==
    IF record.rows = <<>> THEN record.seq = 0
    ELSE /\ record.seq = Len(rows) % SeqModulus
         /\ InTurn(rows, Len(record.rows))

DrawsCounted ==
    /\ handled < Len(config) => \A n \in Names : drawn[n] = <<>>
    /\ \A n \in Records : CountedBy(table[n], drawn[n])

IInv ==
    /\ Placed
    /\ \A n \in Records : Stands(table[n])
    /\ ServedSoFar
    /\ WorkersSound
    /\ DrawsCounted
    /\ RowsExist

LEMMA ConfigTyped ==
  ASSUME Placed
  PROVE  /\ Len(config) \in Nat /\ DOMAIN config = 1..Len(config) /\ handled \in Nat
         /\ \A i \in DOMAIN config :
              /\ config[i].name \in Names \cup {Empty}
              /\ config[i].scenario \in Scenario \cup {None}
<1>1. config \in Seq(Range(config))
      /\ \A e \in Range(config) :
           e.name \in Names \cup {Empty} /\ e.scenario \in Scenario \cup {None}
  BY ConfigurationsAssumption DEF Placed
<1> DEFINE R == Range(config)
<1>2. config \in Seq(R)
  BY <1>1
<1> HIDE DEF R
<1>3. Len(config) \in Nat /\ DOMAIN config = 1..Len(config) /\ \A i \in DOMAIN config : config[i] \in R
  BY <1>2
<1> QED
  BY <1>1, <1>3 DEF R, Placed

LEMMA InitInvariant == Init => IInv
<1> SUFFICES ASSUME Init PROVE IInv
  OBVIOUS
<1>1. Placed
  <2>1. config \in Seq(Range(config))
    BY ConfigurationsAssumption DEF Init
  <2> DEFINE R == Range(config)
  <2>2. config \in Seq(R)
    BY <2>1
  <2> HIDE DEF R
  <2>3. 0 \in 0..Len(config)
    BY <2>2
  <2> QED
    BY <2>3 DEF Init, Placed, Records
<1>2. \A n \in Names : Past(n) = {}
  BY <1>1, ConfigTyped DEF Init, Past, EntriesOf
<1>3. Records = {}
  BY DEF Init, Records
<1>4. \A w \in Workers : worker[w].pc = "idle"
  BY DEF Init, WorkerIdle
<1>5. \A n \in Names : drawn[n] = <<>>
  BY DEF Init
<1>6. RowsExist
  BY DEF Init, RowsExist
<1> QED
  BY <1>1, <1>2, <1>3, <1>4, <1>5, <1>6 DEF IInv, ServedSoFar, WorkersSound, WorkerSound, DrawsCounted

\* While entries are loaded no worker has begun.
LEMMA StillLoading ==
  ASSUME IInv, handled < Len(config)
  PROVE  /\ \A w \in Workers : worker[w].pc = "idle"
         /\ \A n \in Names : drawn[n] = <<>>
<1>1. Len(config) # handled
  BY ConfigTyped DEF IInv
<1> QED
  BY <1>1 DEF IInv, WorkersSound, WorkerSound, DrawsCounted

LEMMA SkipEntryKeeps ==
  ASSUME IInv, SkipEntry
  PROVE  IInv'
<1>1. /\ handled' = handled + 1 /\ handled < Len(config)
      /\ UNCHANGED <<config, process, table, worker, drawn>>
      /\ config[handled + 1].name = Empty \/ config[handled + 1].scenario = None
  BY DEF SkipEntry, Entry
<1>2. Placed /\ handled \in Nat /\ Len(config) \in Nat
  BY ConfigTyped DEF IInv
<1>3. Placed'
  BY <1>1, <1>2 DEF Placed, Records
<1>4. \A n \in Names : Past(n)' = Past(n)
  <2> SUFFICES ASSUME NEW n \in Names
               PROVE  \A i \in EntriesOf(n) : i <= handled + 1 <=> i <= handled
    BY <1>1 DEF Past, EntriesOf
  <2>1. handled + 1 \notin EntriesOf(n)
    BY <1>1, NamesAssumption DEF EntriesOf
  <2>2. EntriesOf(n) \subseteq Nat
    BY <1>2, ConfigTyped DEF EntriesOf
  <2> QED
    BY <1>2, <2>1, <2>2
<1>5. ServedSoFar'
  BY <1>1, <1>4 DEF IInv, ServedSoFar, Records
<1>6. \A n \in Records' : Stands(table[n])'
  BY <1>1 DEF IInv, Records, Stands
<1>7. WorkersSound'
  BY <1>1, StillLoading DEF WorkersSound, WorkerSound
<1>8. DrawsCounted'
  BY <1>1, StillLoading DEF IInv, DrawsCounted, Records, CountedBy, InTurn
<1>9. RowsExist'
  BY <1>1 DEF IInv, RowsExist, Records, NeedsRow
<1> QED
  BY <1>3, <1>5, <1>6, <1>7, <1>8, <1>9 DEF IInv

LEMMA LoadEntryKeeps ==
  ASSUME IInv, LoadEntry
  PROVE  IInv'
<1> PICK e : e = config[handled + 1]
  OBVIOUS
<1>1. /\ process = "up" /\ handled < Len(config) /\ e.name # Empty /\ e.scenario # None
      /\ UNCHANGED <<config, worker, drawn>>
  BY DEF LoadEntry, Entry
<1>2. Placed /\ handled \in Nat /\ Len(config) \in Nat /\ DOMAIN config = 1..Len(config)
  BY ConfigTyped DEF IInv
<1>3. handled + 1 \in DOMAIN config
  BY <1>1, <1>2
<1>4. e.name \in Names /\ e.scenario \in Scenario
  BY <1>1, <1>2, <1>3, ConfigTyped
<1>5. /\ \A w \in Workers : worker[w].pc = "idle"
      /\ \A n \in Names : drawn[n] = <<>>
  BY <1>1, StillLoading
<1>6. WorkersSound'
  BY <1>1, <1>5 DEF WorkersSound, WorkerSound
<1>7. CASE ~Loads(e.scenario)
  <2>1. process' = "exited" /\ UNCHANGED <<handled, table>>
    BY <1>7 DEF LoadEntry, Entry
  <2>2. Placed'
    BY <1>1, <1>2, <2>1 DEF Placed, Records
  <2>3. ServedSoFar'
    BY <1>1, <2>1 DEF IInv, ServedSoFar, Records, Past, EntriesOf
  <2>4. \A n \in Records' : Stands(table[n])'
    BY <2>1 DEF IInv, Records, Stands
  <2>5. DrawsCounted'
    BY <1>1, <2>1 DEF IInv, DrawsCounted, Records, CountedBy, InTurn
  <2>6. RowsExist'
    BY <2>1 DEF RowsExist
  <2> QED
    BY <1>6, <2>2, <2>3, <2>4, <2>5, <2>6 DEF IInv
<1>8. CASE Loads(e.scenario)
  <2> PICK record : record = Loaded(e.scenario)
    OBVIOUS
  <2>1. /\ handled' = handled + 1 /\ process' = "up"
        /\ table' = [n \in Records \cup {e.name} |-> IF n = e.name THEN record ELSE table[n]]
    BY <1>1, <1>8 DEF LoadEntry, Entry
  <2>2. /\ Records' = Records \cup {e.name}
        /\ table'[e.name] = record
        /\ \A n \in Records : n # e.name => table'[n] = table[n]
    BY <2>1 DEF Records
  <2>3. Stands(record) /\ record.scenario = e.scenario /\ record.seq = 0
    BY <1>4, <1>8, LoadedStands
  <2>4. Placed'
    <3>1. handled' \in 0..Len(config')
      BY <1>1, <1>2, <2>1
    <3>2. Records' \subseteq Names
      BY <1>2, <1>4, <2>2 DEF Placed
    <3> QED
      BY <1>1, <1>2, <2>1, <3>1, <3>2 DEF Placed
  <2>5. \A n \in Records' : Stands(table'[n])
    BY <2>2, <2>3 DEF IInv
  <2>6. ASSUME NEW n \in Names
        PROVE  IF Past(n)' = {} THEN n \notin Records'
               ELSE n \in Records' /\ table'[n].scenario = config[Max(Past(n)')].scenario
    <3> PICK P : P = Past(n)'
      OBVIOUS
    <3>1. P = {i \in EntriesOf(n) : i <= handled + 1} /\ EntriesOf(n) \subseteq 1..Len(config)
      BY <1>1, <1>2, <2>1 DEF Past, EntriesOf
    <3>2. CASE n = e.name
      <4>1. handled + 1 \in P /\ P \in SUBSET Nat /\ \A i \in P : i <= handled + 1
        BY <1>1, <1>2, <1>3, <3>1, <3>2 DEF EntriesOf
      <4>2. Max(P) = handled + 1
        <5>1. Max(P) \in P /\ handled + 1 <= Max(P)
          BY <1>2, <4>1, GreatestOf
        <5>2. Max(P) <= handled + 1 /\ Max(P) \in Nat
          BY <4>1, <5>1
        <5> QED
          BY <1>2, <5>1, <5>2
      <4> QED
        BY <2>2, <2>3, <3>2, <4>1, <4>2
    <3>3. CASE n # e.name
      <4>1. handled + 1 \notin EntriesOf(n)
        BY <3>3 DEF EntriesOf
      <4>2. P = Past(n)
        BY <1>2, <3>1, <4>1 DEF Past
      <4> QED
        BY <2>2, <3>3, <4>2 DEF IInv, ServedSoFar
    <3> QED
      BY <3>2, <3>3
  <2>7. ServedSoFar'
    BY <1>1, <2>6 DEF ServedSoFar
  <2>8. DrawsCounted'
    <3>1. \A n \in Names : drawn'[n] = <<>>
      BY <1>1, <1>5
    <3>2. CountedBy(record, <<>>)
      <4>1. 0 = 0 % SeqModulus
        BY SeqModulusAssumption, Below
      <4> QED
        BY <2>3, <4>1 DEF CountedBy, InTurn
    <3>3. \A n \in Records' : CountedBy(table'[n], drawn'[n])
      BY <1>1, <1>2, <1>4, <1>5, <2>2, <3>1, <3>2 DEF IInv, DrawsCounted, Placed
    <3> QED
      BY <3>1, <3>3 DEF DrawsCounted
  <2>9. RowsExist'
    BY <2>1 DEF RowsExist
  <2> QED
    BY <1>6, <2>4, <2>5, <2>7, <2>8, <2>9 DEF IInv
<1> QED
  BY <1>7, <1>8

\* A step of one worker that leaves the records alone.
LEMMA WorkerStepKeeps ==
  ASSUME IInv, UNCHANGED <<config, handled, process, table, drawn>>,
         NEW w \in Workers, NEW at, worker' = [worker EXCEPT ![w] = at], WorkerSound(w)'
  PROVE  IInv'
<1>1. Placed'
  BY DEF IInv, Placed, Records
<1>2. ServedSoFar' /\ \A n \in Records' : Stands(table[n])'
  BY DEF IInv, ServedSoFar, Records, Past, EntriesOf, Stands
<1>3. ASSUME NEW v \in Workers, v # w PROVE WorkerSound(v)'
  <2>1. worker'[v] = worker[v]
    BY <1>3
  <2>2. WorkerSound(v)
    BY DEF IInv, WorkersSound
  <2>3. DrawnExists(v)' <=> DrawnExists(v)
    BY <2>1 DEF DrawnExists
  <2>4. ComposedFaithful(v)' <=> ComposedFaithful(v)
    BY <2>1 DEF ComposedFaithful
  <2> QED
    BY <2>1, <2>2, <2>3, <2>4 DEF WorkerSound, Records
<1>4. DrawsCounted'
  BY DEF IInv, DrawsCounted, Records, CountedBy, InTurn
<1>5. RowsExist'
  BY DEF IInv, RowsExist, Records, NeedsRow
<1> QED
  BY <1>1, <1>2, <1>3, <1>4, <1>5 DEF IInv, WorkersSound

LEMMA CrashKeeps ==
  ASSUME IInv, UNCHANGED <<config, handled, table, worker, drawn>>, process' = "crashed",
         \E n \in Records : NeedsRow(table[n]) /\ table[n].rows = <<>>
  PROVE  IInv'
<1>1. Placed'
  BY DEF IInv, Placed, Records
<1>2. ServedSoFar' /\ \A n \in Records' : Stands(table[n])'
  BY ZenonT(40) DEF IInv, ServedSoFar, Records, Past, EntriesOf, Stands
<1>3. WorkersSound'
  BY DEF IInv, WorkersSound, WorkerSound, Records, DrawnExists, ComposedFaithful
<1>4. DrawsCounted'
  BY DEF IInv, DrawsCounted, Records, CountedBy, InTurn
<1>5. RowsExist'
  BY DEF RowsExist, Records, NeedsRow
<1> QED
  BY <1>1, <1>2, <1>3, <1>4, <1>5 DEF IInv

\* A request composed from a row that was there.
LEMMA ComposedKeeps ==
  ASSUME IInv, Serving, UNCHANGED <<config, handled, process, table, drawn>>,
         NEW w \in Workers, NEW n \in Records, NEW key, NEW row \in Nat,
         ~ReadNowhere(table[n], row),
         worker' = [worker EXCEPT ![w] = Composed(n, key, row, Compose(table[n], row))]
  PROVE  IInv'
<1> PICK request : request = Compose(table[n], row)
  OBVIOUS
<1>1. worker'[w] = Composed(n, key, row, request)
  BY DEF IInv, Placed
<1>2. /\ worker'[w].pc = "composed" /\ worker'[w].name = n
      /\ worker'[w].row = row /\ worker'[w].request = request
  BY <1>1 DEF Composed
<1>3. Stands(table[n])
  BY DEF IInv
<1>4. (HasData(table[n].scenario) => Plain(table[n].scenario)) =>
        Faithful(table[n].scenario, row, request)
  BY <1>3, RecordFaithful
<1>5. ComposedFaithful(w)'
  BY <1>2, <1>4 DEF ComposedFaithful
<1>6. WorkerSound(w)'
  BY <1>2, <1>5 DEF WorkerSound, Serving, Records
<1> QED
  BY <1>6, WorkerStepKeeps

LEMMA ComposeDrawnKeeps ==
  ASSUME IInv, NEW w \in Workers, ComposeDrawn(w)
  PROVE  IInv'
<1> PICK n, row : n = worker[w].name /\ row = worker[w].row
  OBVIOUS
<1>1. /\ Serving /\ worker[w].pc = "drawn"
      /\ UNCHANGED <<config, handled, table, drawn>>
  BY DEF ComposeDrawn
<1>2. n \in Records /\ row \in Nat /\ (table[n].rows = <<>> \/ row + 1 \in DOMAIN table[n].rows)
  BY <1>1 DEF IInv, WorkersSound, WorkerSound, DrawnExists
<1>3. CASE ReadNowhere(table[n], row)
  <2>1. process' = "crashed" /\ worker' = worker
    BY <1>3 DEF ComposeDrawn
  <2>2. NeedsRow(table[n]) /\ table[n].rows = <<>>
    BY <1>2, <1>3 DEF ReadNowhere
  <2> QED
    BY <1>1, <1>2, <2>1, <2>2, CrashKeeps
<1>4. CASE ~ReadNowhere(table[n], row)
  <2>1. /\ worker' = [worker EXCEPT ![w] = Composed(n, None, row, Compose(table[n], row))]
        /\ process' = process
    BY <1>4 DEF ComposeDrawn
  <2> QED
    BY <1>1, <1>2, <1>4, <2>1, ComposedKeeps
<1> QED
  BY <1>3, <1>4

\* A key found has its row.
LEMMA IndexInside ==
  ASSUME NEW record, Stands(record), NEW key \in DOMAIN record.index
  PROVE  record.index[key] \in Nat /\ record.index[key] + 1 \in DOMAIN record.rows
<1>1. record.index # <<>>
  OBVIOUS
<1>2. record.rows \in Lines /\ HasData(record.scenario) /\ DataOf(record)
  BY <1>1, StandsFacts
<1>3. Indexed(record.scenario, Len(record.rows), record.index)
  BY <1>1, <1>2 DEF DataOf
<1>4. record.index[key] \in 0..(Len(record.rows) - 1)
  BY <1>3 DEF Indexed
<1> QED
  BY <1>2, <1>4 DEF Lines

LEMMA GetByKeyKeeps ==
  ASSUME IInv, NEW w \in Workers, NEW n \in Names, NEW key \in Keys, GetByKey(w, n, key)
  PROVE  IInv'
<1> PICK row : row = table[n].index[key]
  OBVIOUS
<1>1. /\ Serving /\ n \in Records /\ key \in DOMAIN table[n].index
      /\ UNCHANGED <<config, handled, table, drawn>>
  BY DEF GetByKey
<1>2. row \in Nat /\ ~ReadNowhere(table[n], row)
  BY <1>1, IndexInside DEF IInv, ReadNowhere
<1>3. /\ worker' = [worker EXCEPT ![w] = Composed(n, key, row, Compose(table[n], row))]
      /\ process' = process
  BY <1>2 DEF GetByKey
<1> QED
  BY <1>1, <1>2, <1>3, ComposedKeeps

LEMMA DoneKeeps ==
  ASSUME IInv, NEW w \in Workers, Done(w)
  PROVE  IInv'
<1>1. worker' = [worker EXCEPT ![w] = WorkerIdle]
      /\ UNCHANGED <<config, handled, process, table, drawn>>
  BY DEF Done
<1>2. worker'[w].pc = "idle"
  BY <1>1 DEF IInv, Placed, WorkerIdle
<1>3. WorkerSound(w)'
  BY <1>2 DEF WorkerSound
<1> QED
  BY <1>1, <1>3, WorkerStepKeeps

\* The next row, and the counter that goes with it.
LEMMA DrawCounts ==
  ASSUME NEW record, Stands(record), NEW rows \in Seq(Nat), CountedBy(record, rows)
  PROVE  /\ RowOf(record) \in Nat /\ (record.rows = <<>> \/ RowOf(record) + 1 \in DOMAIN record.rows)
         /\ NextSeq(record) \in 0..(SeqModulus - 1)
         /\ CountedBy([record EXCEPT !.seq = NextSeq(record)], Append(rows, RowOf(record)))
<1> PICK M \in Nat \ {0} : M = SeqModulus
  BY SeqModulusAssumption
<1> PICK next : next = [record EXCEPT !.seq = NextSeq(record)]
  OBVIOUS
<1>1. record.rows \in Lines /\ record.seq \in 0..(M - 1)
  BY StandsFacts DEF Stands
<1>2. next.rows = record.rows /\ next.seq = NextSeq(record)
  BY DEF Stands
<1>3. CASE record.rows = <<>>
  <2>1. RowOf(record) = 0 /\ NextSeq(record) = record.seq /\ record.seq = 0
    BY <1>3 DEF RowOf, NextSeq, CountedBy
  <2> QED
    BY <1>1, <1>2, <1>3, <2>1 DEF CountedBy
<1>4. CASE record.rows # <<>>
  <2> PICK L \in Nat \ {0} : L = Len(record.rows)
    <3>1. Len(record.rows) = DataLines(record.rows) + 1 /\ DataLines(record.rows) \in Nat
      BY <1>1, <1>4, LinesTyped
    <3> QED
      BY <3>1
  <2> PICK n \in Nat : n = Len(rows)
    OBVIOUS
  <2>1. RowOf(record) = (n % M) % L /\ NextSeq(record) = ((n % M) + 1) % M
        /\ InTurn(rows, L)
    BY <1>4 DEF RowOf, NextSeq, CountedBy
  <2>2. n % M \in Nat
    BY Below
  <2>3. (n % M) % L \in Nat /\ (n % M) % L < L
    BY <2>2, Below
  <2>4. NextSeq(record) = (n + 1) % M
    BY <2>1, Successor
  <2>5. (n + 1) % M \in 0..(M - 1)
    <3>1. n + 1 \in Nat
      OBVIOUS
    <3> QED
      BY <3>1, Divided
  <2> PICK row \in Nat : row = RowOf(record)
    BY <2>1, <2>3
  <2>6. DOMAIN record.rows = 1..L
    BY <1>1 DEF Lines
  <2>7. row + 1 \in DOMAIN record.rows
    BY <2>1, <2>3, <2>6
  <2>8. /\ Len(Append(rows, row)) = n + 1 /\ DOMAIN Append(rows, row) = 1..(n + 1)
        /\ \A k \in 1..n : Append(rows, row)[k] = rows[k]
        /\ Append(rows, row)[n + 1] = row
        /\ DOMAIN rows = 1..n
    OBVIOUS
  <2>9. ASSUME NEW k \in 1..(n + 1) PROVE Append(rows, row)[k] = ((k - 1) % M) % L
    <3>1. CASE k = n + 1
      <4>1. k - 1 = n
        BY <3>1
      <4> QED
        BY <2>1, <2>8, <3>1, <4>1
    <3>2. CASE k # n + 1
      <4>1. k \in 1..n
        BY <3>2
      <4> QED
        BY <2>1, <2>8, <4>1 DEF InTurn
    <3> QED
      BY <3>1, <3>2
  <2>10. InTurn(Append(rows, row), L)
    BY <2>8, <2>9 DEF InTurn
  <2>11. CountedBy(next, Append(rows, row))
    BY <1>2, <1>4, <2>4, <2>8, <2>10 DEF CountedBy
  <2> QED
    BY <2>4, <2>5, <2>7, <2>11
<1> QED
  BY <1>3, <1>4

LEMMA DrawKeeps ==
  ASSUME IInv, NEW w \in Workers, NEW n \in Names, Draw(w, n)
  PROVE  IInv'
<1> PICK row, record, next :
      /\ row = RowOf(table[n]) /\ record = table[n]
      /\ next = [record EXCEPT !.seq = NextSeq(record)]
  OBVIOUS
<1>1. /\ Serving /\ n \in Records /\ worker[w].pc = "idle"
      /\ worker' = [worker EXCEPT ![w] = Drawn(n, row)]
      /\ drawn' = [drawn EXCEPT ![n] = Append(@, row)]
      /\ table' = [table EXCEPT ![n].seq = NextSeq(record)]
      /\ UNCHANGED <<config, handled, process>>
  BY DEF Draw
<1>2. Placed /\ Stands(record) /\ drawn[n] \in Seq(Nat) /\ CountedBy(record, drawn[n])
  BY <1>1 DEF IInv, Placed, DrawsCounted
<1>3. /\ row \in Nat /\ (record.rows = <<>> \/ row + 1 \in DOMAIN record.rows)
      /\ NextSeq(record) \in 0..(SeqModulus - 1)
      /\ CountedBy(next, Append(drawn[n], row))
  BY <1>2, DrawCounts
<1>4. /\ Records' = Records /\ table'[n] = next
      /\ \A m \in Records : m # n => table'[m] = table[m]
  BY <1>1 DEF Records
<1>5. /\ next.scenario = record.scenario /\ next.header = record.header
      /\ next.rows = record.rows /\ next.index = record.index
      /\ DOMAIN next = DOMAIN record /\ next.seq = NextSeq(record)
  BY <1>2 DEF Stands
<1>6. \A m \in Records : /\ table'[m].scenario = table[m].scenario
                         /\ table'[m].rows = table[m].rows
                         /\ table'[m].header = table[m].header
  BY <1>4, <1>5
<1>7. /\ drawn'[n] = Append(drawn[n], row) /\ DOMAIN drawn' = Names
      /\ \A m \in Names : m # n => drawn'[m] = drawn[m]
  BY <1>1, <1>2 DEF Placed
<1>8. Placed'
  <2>1. Append(drawn[n], row) \in Seq(Nat)
    BY <1>2, <1>3
  <2>2. \A m \in Names : drawn'[m] \in Seq(Nat)
    BY <1>2, <1>7, <2>1 DEF Placed
  <2> QED
    BY <1>1, <1>2, <1>4, <1>7, <2>2 DEF Placed
<1>9. \A m \in Records' : Stands(table'[m])
  <2>1. Stands(next)
    BY <1>2, <1>3, <1>5 DEF Stands
  <2> QED
    BY <1>4, <2>1 DEF IInv
<1>10. ServedSoFar'
  <2>1. \A m \in Names : Past(m)' = Past(m)
    BY <1>1 DEF Past, EntriesOf
  <2> QED
    BY <1>1, <1>4, <1>6, <2>1 DEF IInv, ServedSoFar
<1>11. WorkersSound'
  <2>1. worker'[w] = Drawn(n, row) /\ \A v \in Workers : v # w => worker'[v] = worker[v]
    BY <1>1, <1>2 DEF Placed
  <2>2. WorkerSound(w)'
    <3>1. worker'[w].pc = "drawn" /\ worker'[w].name = n /\ worker'[w].row = row
      BY <2>1 DEF Drawn
    <3>2. DrawnExists(w)'
      BY <1>3, <1>4, <1>5, <3>1 DEF DrawnExists
    <3> QED
      BY <1>1, <1>3, <1>4, <3>1, <3>2 DEF WorkerSound, Serving
  <2>3. ASSUME NEW v \in Workers, v # w PROVE WorkerSound(v)'
    <3>1. worker'[v] = worker[v] /\ WorkerSound(v)
      BY <2>1, <2>3 DEF IInv, WorkersSound
    <3>2. worker[v].pc # "idle" => (DrawnExists(v)' <=> DrawnExists(v))
      BY <1>6, <3>1 DEF DrawnExists, WorkerSound
    <3>3. worker[v].pc # "idle" => (ComposedFaithful(v)' <=> ComposedFaithful(v))
      BY <1>6, <3>1 DEF ComposedFaithful, WorkerSound
    <3> QED
      BY <1>1, <1>4, <3>1, <3>2, <3>3 DEF WorkerSound
  <2> QED
    BY <2>2, <2>3 DEF WorkersSound
<1>12. DrawsCounted'
  <2>1. ~(handled < Len(config))
    BY <1>1, <1>2, ConfigTyped DEF Serving
  <2>2. \A m \in Records : CountedBy(table'[m], drawn'[m])
    BY <1>2, <1>3, <1>4, <1>7 DEF IInv, DrawsCounted, Placed
  <2> QED
    BY <1>1, <1>4, <2>1, <2>2 DEF DrawsCounted
<1>13. RowsExist'
  BY <1>1 DEF Serving, RowsExist
<1> QED
  BY <1>8, <1>9, <1>10, <1>11, <1>12, <1>13 DEF IInv

LEMMA NextKeeps == IInv /\ [Next]_vars => IInv'
<1> SUFFICES ASSUME IInv, [Next]_vars PROVE IInv'
  OBVIOUS
<1>1. CASE UNCHANGED vars
  <2>1. UNCHANGED <<config, handled, process, table, worker, drawn>>
    BY <1>1 DEF vars
  <2>2. Placed' /\ ServedSoFar'
    BY <2>1, ZenonT(40) DEF IInv, Placed, Records, ServedSoFar, Past, EntriesOf
  <2>3. (\A n \in Records' : Stands(table[n])') /\ DrawsCounted'
    BY <2>1 DEF IInv, Records, Stands, DrawsCounted, CountedBy, InTurn
  <2>4. WorkersSound'
    BY <2>1 DEF IInv, WorkersSound, WorkerSound, Records, DrawnExists, ComposedFaithful
  <2>5. RowsExist'
    BY <2>1 DEF IInv, RowsExist, Records, NeedsRow
  <2> QED
    BY <2>2, <2>3, <2>4, <2>5 DEF IInv
<1> QED
  BY <1>1, SkipEntryKeeps, LoadEntryKeeps, DrawKeeps, ComposeDrawnKeeps, GetByKeyKeeps, DoneKeeps
     DEF Next

LEMMA Invariance == Spec => []IInv
BY InitInvariant, NextKeeps, PTL DEF Spec

-----------------------------------------------------------------------------
(* What follows from it. *)

\* Types: the counter of a record stays below SeqModulus, every key's row is
\* stored, and a thread's record does not disappear.
THEOREM TypeCorrect == Spec => []TypeOK
<1>1. IInv => TypeOK
  <2> SUFFICES ASSUME IInv PROVE TypeOK
    OBVIOUS
  <2>1. \A n \in Records :
          /\ table[n].seq \in 0..(SeqModulus - 1)
          /\ \A k \in DOMAIN table[n].index : table[n].index[k] + 1 \in DOMAIN table[n].rows
    BY IndexInside DEF IInv, Stands
  <2> QED
    BY <2>1 DEF IInv, TypeOK, Placed, WorkersSound, WorkerSound
<1> QED
  BY <1>1, Invariance, PTL

\* A service that came up has the data of the last entry for each name, all of its
\* lines, and of no other name: Load fails for a single line of the wrong length.
THEOREM WholeConfigurationServed == Spec => []ConfigurationServed
<1>1. IInv => ConfigurationServed
  <2> SUFFICES ASSUME IInv, Serving, NEW n \in Names
               PROVE  IF EntriesOf(n) = {} THEN n \notin Records
                      ELSE LET scenario == config[Max(EntriesOf(n))].scenario
                           IN  /\ n \in Records
                               /\ table[n].scenario = scenario
                               /\ HasData(scenario) => Len(table[n].rows) = Len(scenario.file) - 1
    BY DEF ConfigurationServed
  <2>1. Past(n) = EntriesOf(n)
    BY ConfigTyped DEF IInv, Past, EntriesOf, Serving
  <2>2. IF EntriesOf(n) = {} THEN n \notin Records
        ELSE n \in Records /\ table[n].scenario = config[Max(EntriesOf(n))].scenario
    BY <2>1 DEF IInv, ServedSoFar
  <2>3. n \in Records /\ HasData(table[n].scenario) =>
          Len(table[n].rows) = Len(table[n].scenario.file) - 1
    BY StandsFacts DEF IInv, DataOf
  <2> QED
    BY <2>2, <2>3
<1> QED
  BY <1>1, Invariance, PTL

\* The index has every key of the file and leads to its first row, for files of any
\* length.
THEOREM KeysFound == Spec => []KeysFindFirstRow
<1>1. IInv => KeysFindFirstRow
  BY RecordFindsKeys DEF IInv, KeysFindFirstRow
<1> QED
  BY <1>1, Invariance, PTL

\* A request is the configured one with each variable replaced by the cell of the
\* row drawn or asked for, for requests, headers and files of any length.
THEOREM RequestsComposed == Spec => []RequestsFaithful
<1>1. IInv => RequestsFaithful
  BY DEF IInv, WorkersSound, WorkerSound, ComposedFaithful, RequestsFaithful
<1> QED
  BY <1>1, Invariance, PTL

\* Only a record without a row makes Compose read past the rows.
THEOREM RowsFound == Spec => []RowsExist
<1>1. IInv => RowsExist
  BY DEF IInv
<1> QED
  BY <1>1, Invariance, PTL

\* Within one turn of the counter the rows are drawn in turn, for any number of
\* workers and rows: a row has at most one draw more than another.
THEOREM TurnsTaken == Spec => []RowsTakeTurns
<1>1. IInv => RowsTakeTurns
  <2> SUFFICES ASSUME IInv, NEW n \in Records, NEW t \in 0..(Len(drawn[n]) \div SeqModulus),
                      NEW r \in 0..(Len(table[n].rows) - 1), NEW q \in 0..(Len(table[n].rows) - 1)
               PROVE  Cardinality({k \in Turn(n, t) : drawn[n][k] = r}) -
                        Cardinality({k \in Turn(n, t) : drawn[n][k] = q}) \in {-1, 0, 1}
    BY DEF RowsTakeTurns
  <2> PICK s : s = drawn[n]
    OBVIOUS
  <2>1. s \in Seq(Nat)
    BY DEF IInv, Placed
  <2>2. table[n].rows \in Lines
    BY StandsFacts DEF IInv
  <2>3. table[n].rows # <<>>
    OBVIOUS
  <2> PICK L \in Nat \ {0} : L = Len(table[n].rows)
    <3>1. Len(table[n].rows) = DataLines(table[n].rows) + 1 /\ DataLines(table[n].rows) \in Nat
      BY <2>2, <2>3, LinesTyped
    <3> QED
      BY <3>1
  <2>4. InTurn(s, L)
    BY <2>3 DEF IInv, DrawsCounted, CountedBy
  <2>5. \A x : {k \in Turn(n, t) : drawn[n][k] = x} = DrawsOf(s, t, x)
    BY DEF Turn, DrawsOf
  <2> PICK a, b : a = Cardinality(DrawsOf(s, t, r)) /\ b = Cardinality(DrawsOf(s, t, q))
    OBVIOUS
  <2>6. a \in Nat /\ b \in Nat
    BY <2>1, DrawsFinite
  <2>7. a <= b + 1 /\ b <= a + 1
    BY <2>1, <2>4, OneMore
  <2>8. a - b \in {-1, 0, 1}
    BY <2>6, <2>7, SMTT(30)
  <2> QED
    BY <2>5, <2>8
<1> QED
  BY <1>1, Invariance, PTL

=============================================================================
