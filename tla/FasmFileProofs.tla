--------------------------- MODULE FasmFileProofs ---------------------------
(***************************************************************************)
(* What the kernel finds in the file that the assembler writes, proved for *)
(* every source: the texts of the source, at the places that AddString has *)
(* computed, and a program that the processor can execute.                 *)
(*                                                                         *)
(* First the layout of a file, of any header, code and tables; then what   *)
(* the assembler has put into these when it writes the file.               *)
(***************************************************************************)
EXTENDS FasmTablesProofs
-----------------------------------------------------------------------------
(* The fields of a file *)

\* A field has a byte at least.
IsFile(f) ==
  /\ Len(f) \in Nat /\ DOMAIN f = 1 .. Len(f)
  /\ \A i \in 1 .. Len(f) : f[i].bytes \in Nat \ {0}

\* Where each field begins: what ReadAt computes.
StartOf(f) ==
  LET start[i \in DOMAIN f] == IF i = 1 THEN 0 ELSE start[i - 1] + f[i - 1].bytes
  IN  start

LEMMA StartsAre ==
  ASSUME NEW f, IsFile(f)
  PROVE  /\ StartOf(f) \in [1 .. Len(f) -> Nat]
         /\ Len(f) > 0 => StartOf(f)[1] = 0
         /\ \A i \in 1 .. Len(f) - 1 : StartOf(f)[i + 1] = StartOf(f)[i] + f[i].bytes
<1> DEFINE n == Len(f)
           Eq(s) == s = [i \in DOMAIN f |-> IF i = 1 THEN 0 ELSE s[i - 1] + f[i - 1].bytes]
           b == [i \in Nat |-> IF i \in 1 .. n THEN f[i].bytes ELSE 0]
           G == [i \in Nat |-> [x \in Nat |-> x + b[i]]]
<1>1. n \in Nat /\ DOMAIN f = 1 .. n /\ b \in [Nat -> Nat] /\ \A i \in 1 .. n : b[i] = f[i].bytes
  BY DEF IsFile
<1> HIDE DEF b, n
<1>2. G \in [Nat -> [Nat -> Nat]] /\ \A i, x \in Nat : G[i][x] = x + b[i]
  <2>1. \A i \in Nat : \A x \in Nat : x + b[i] \in Nat
    <3> SUFFICES ASSUME NEW i \in Nat, NEW x \in Nat  PROVE x + b[i] \in Nat
      OBVIOUS
    <3>1. b[i] \in Nat
      BY <1>1
    <3> QED
      BY <3>1
  <2> QED
    BY <2>1
<1> HIDE DEF G
<1>3. PICK s \in [1 .. n -> Nat] : IteratedOn(s, 0, G, n)
  BY <1>1, <1>2, Iterated, 0 \in Nat, Zenon
<1>4. \A i \in 1 .. n : i # 1 => i - 1 \in 1 .. n /\ i - 1 \in Nat
  BY <1>1
<1>5. ASSUME NEW i \in 1 .. n, i # 1  PROVE G[i - 1][s[i - 1]] = s[i - 1] + f[i - 1].bytes
  <2>1. i - 1 \in 1 .. n /\ i - 1 \in Nat
    BY <1>4, <1>5
  <2>2. s[i - 1] \in Nat
    BY <1>3, <2>1
  <2>3. G[i - 1][s[i - 1]] = s[i - 1] + b[i - 1]
    BY <1>2, <2>1, <2>2
  <2> QED
    BY <1>1, <2>1, <2>3
<1>6. Eq(s)
  BY <1>1, <1>3, <1>5 DEF IteratedOn
<1>7. StartOf(f) = CHOOSE t : Eq(t)
  BY Zenon DEF StartOf
<1>8. Eq(StartOf(f))
  BY <1>6, <1>7, Zenon
<1> DEFINE o == StartOf(f)
<1> HIDE DEF o
<1>9. /\ o = [i \in 1 .. n |-> o[i]]
      /\ \A i \in 1 .. n : o[i] = IF i = 1 THEN 0 ELSE o[i - 1] + f[i - 1].bytes
  <2>1. o = [i \in 1 .. n |-> IF i = 1 THEN 0 ELSE o[i - 1] + f[i - 1].bytes]
    BY <1>1, <1>8 DEF o
  <2>2. \A i \in 1 .. n : o[i] = IF i = 1 THEN 0 ELSE o[i - 1] + f[i - 1].bytes
    BY <2>1
  <2>3. o = [i \in 1 .. n |-> o[i]]
    BY <2>1
  <2> QED
    BY <2>2, <2>3
<1>10. n > 0 => o[1] = 0 /\ 1 \in 1 .. n
  <2>1. n > 0 => 1 \in 1 .. n
    BY <1>1
  <2>2. \A i \in 1 .. n : o[i] = IF i = 1 THEN 0 ELSE o[i - 1] + f[i - 1].bytes
    BY <1>9
  <2> QED
    BY <2>1, <2>2
<1>11. \A i \in 1 .. n - 1 : o[i + 1] = o[i] + f[i].bytes /\ i \in 1 .. n /\ i + 1 \in 1 .. n
  <2> SUFFICES ASSUME NEW i \in 1 .. n - 1
               PROVE  o[i + 1] = o[i] + f[i].bytes /\ i \in 1 .. n /\ i + 1 \in 1 .. n
    OBVIOUS
  <2>1. i + 1 \in 1 .. n /\ i + 1 # 1 /\ (i + 1) - 1 = i /\ i \in 1 .. n
    BY <1>1
  <2> QED
    BY <1>9, <2>1
<1>12. {i \in 1 .. n : o[i] \in Nat} = 1 .. n
  <2> DEFINE T == {i \in 1 .. n : o[i] \in Nat}
  <2>1. n > 0 => 1 \in T
    BY <1>1, <1>10, SMTT(30)
  <2>2. ASSUME NEW i \in 1 .. n - 1, i \in T  PROVE i + 1 \in T
    <3>1. o[i] \in Nat /\ f[i].bytes \in Nat /\ i + 1 \in 1 .. n /\ o[i + 1] = o[i] + f[i].bytes
      BY <1>1, <1>11, <2>2 DEF IsFile, n
    <3>2. o[i + 1] \in Nat
      BY <3>1
    <3> QED
      BY <3>1, <3>2
  <2>3. T \in SUBSET (1 .. n)
    OBVIOUS
  <2> HIDE DEF T
  <2>4. T = 1 .. n
    BY <1>1, <2>1, <2>2, <2>3, Inductively
  <2> QED
    BY <2>4 DEF T
<1>13. o \in [1 .. n -> Nat]
  BY <1>9, <1>12
<1> QED
  BY <1>10, <1>11, <1>13 DEF o, n

LEMMA StartsGrow ==
  ASSUME NEW f, IsFile(f), NEW i \in 1 .. Len(f), NEW j \in 1 .. Len(f), i < j
  PROVE  StartOf(f)[i] < StartOf(f)[j]
<1> DEFINE n == Len(f)
           o == StartOf(f)
           T == {k \in 1 .. n : i < k => o[i] < o[k]}
<1>1. /\ n \in Nat /\ o \in [1 .. n -> Nat]
      /\ \A k \in 1 .. n - 1 : o[k + 1] = o[k] + f[k].bytes /\ f[k].bytes \in Nat \ {0}
  BY StartsAre DEF IsFile
<1>0. i \in 1 .. n
  OBVIOUS
<1> HIDE DEF n, o
<1>2. n > 0 => 1 \in T
  BY <1>0, <1>1
<1>3. ASSUME NEW k \in 1 .. n - 1, k \in T  PROVE k + 1 \in T
  <2>1. /\ k \in 1 .. n /\ k + 1 \in 1 .. n /\ o[k] \in Nat /\ o[i] \in Nat
        /\ o[k + 1] = o[k] + f[k].bytes /\ f[k].bytes \in Nat \ {0} /\ i \in Nat
    BY <1>0, <1>1
  <2>2. i < k + 1 => i = k \/ i < k
    BY <2>1
  <2>3. i < k + 1 => o[i] < o[k + 1]
    BY <1>3, <2>1, <2>2
  <2> QED
    BY <2>1, <2>3
<1>4. T \in SUBSET (1 .. n)
  OBVIOUS
<1> HIDE DEF T
<1>5. T = 1 .. n
  BY <1>1, <1>2, <1>3, <1>4, Inductively
<1> QED
  BY <1>5 DEF T, n, o

\* What is read at the beginning of a field is its value.
LEMMA ReadsField ==
  ASSUME NEW f, IsFile(f), NEW i \in 1 .. Len(f)
  PROVE  ReadAt(f, StartOf(f)[i]) = f[i].value
<1> DEFINE b == StartOf(f)[i]
           c == CHOOSE j \in DOMAIN f : StartOf(f)[j] = b
<1>1. ReadAt(f, b) = f[c].value
  BY Zenon DEF ReadAt, StartOf
<1>2. DOMAIN f = 1 .. Len(f) /\ Len(f) \in Nat
  BY DEF IsFile
<1>3. c \in 1 .. Len(f) /\ StartOf(f)[c] = StartOf(f)[i]
  BY <1>2
<1> HIDE DEF c
<1>4. StartOf(f) \in [1 .. Len(f) -> Nat]
  BY StartsAre
<1>5. c = i
  <2>1. ~ (c < i) /\ ~ (i < c)
    BY <1>3, <1>4, StartsGrow
  <2> QED
    BY <1>2, <1>3, <2>1
<1> QED
  BY <1>1, <1>5

-----------------------------------------------------------------------------
(* Tables of strings *)

\* From field b on there is a table of these strings.
Listed(f, b, list) ==
  /\ b \in Nat \ {0} /\ list \in Seq(Texts) /\ b + 2 * Len(list) <= Len(f)
  /\ f[b] = Field(4, Len(list))
  /\ \A j \in 1 .. Len(list) :
       f[b + 2 * j - 1] = Field(4, Bytes[list[j]]) /\ f[b + 2 * j] = Field(Bytes[list[j]], list[j])

LEMMA ListFields ==
  ASSUME NEW f, IsFile(f), NEW b, NEW list, Listed(f, b, list)
  PROVE  /\ b \in 1 .. Len(f) /\ Len(list) \in Nat /\ b + 2 * Len(list) <= Len(f) /\ Len(f) \in Nat
         /\ f[b].bytes = 4 /\ f[b].value = Len(list)
<1>1. /\ b \in 1 .. Len(f) /\ Len(list) \in Nat /\ b + 2 * Len(list) <= Len(f) /\ Len(f) \in Nat
  BY DEF Listed, IsFile
<1>2. f[b] = Field(4, Len(list))
  BY DEF Listed
<1> QED
  BY <1>1, <1>2 DEF Field

LEMMA StringFieldsAre ==
  ASSUME NEW f, IsFile(f), NEW b, NEW list, Listed(f, b, list),
         NEW j \in 1 .. Len(list), NEW p, NEW q, p = b + 2 * j - 1, q = b + 2 * j
  PROVE  /\ p \in 1 .. Len(f) - 1 /\ q \in 1 .. Len(f) /\ p \in 1 .. Len(f) /\ q = p + 1
         /\ f[p].bytes = 4 /\ f[p].value = Bytes[list[j]]
         /\ f[q].bytes = Bytes[list[j]] /\ f[q].value = list[j]
<1>1. p \in 1 .. Len(f) - 1 /\ q \in 1 .. Len(f) /\ p \in 1 .. Len(f) /\ q = p + 1
  BY ListFields
<1>2. f[p] = Field(4, Bytes[list[j]]) /\ f[q] = Field(Bytes[list[j]], list[j])
  BY Zenon DEF Listed
<1> QED
  BY <1>1, <1>2 DEF Field

\* The length of each string begins where AddString has computed it to.
LEMMA ListPlaced ==
  ASSUME NEW f, IsFile(f), NEW b, NEW list, Listed(f, b, list)
  PROVE  /\ \A j \in 1 .. Len(list) :
              /\ StartOf(f)[b + 2 * j - 1] = StartOf(f)[b] + 4 + Offsets(list)[j]
              /\ StartOf(f)[b + 2 * j] = StartOf(f)[b] + 4 + Offsets(list)[j] + 4
         /\ b + 2 * Len(list) < Len(f) =>
              StartOf(f)[b + 2 * Len(list) + 1] = StartOf(f)[b] + 4 + Offsets(list)[Len(list) + 1]
<1> DEFINE o == StartOf(f)
           n == Len(list)
           d == Offsets(list)
<1>1. /\ o \in [1 .. Len(f) -> Nat] /\ Len(f) \in Nat
      /\ \A i \in 1 .. Len(f) - 1 : o[i + 1] = o[i] + f[i].bytes
  BY StartsAre DEF IsFile
<1>2. /\ b \in Nat \ {0} /\ b \in 1 .. Len(f) /\ n \in Nat /\ b + 2 * n <= Len(f)
      /\ f[b].bytes = 4 /\ o[b] \in Nat
  BY <1>1, ListFields
<1>3. /\ d \in [1 .. n + 1 -> Nat] /\ d[1] = 0
      /\ \A i \in 1 .. n : d[i + 1] = d[i] + Bytes[list[i]] + 4
      /\ \A i \in 1 .. n : Bytes[list[i]] \in Nat
  BY OffsetsAre, BytesAssumption DEF Listed
<1> HIDE DEF o, n, d
<1>4. ASSUME NEW j \in 1 .. n, o[b + 2 * j - 1] = o[b] + 4 + d[j]
      PROVE  /\ o[b + 2 * j] = o[b] + 4 + d[j] + 4
             /\ b + 2 * j < Len(f) => o[b + 2 * j + 1] = o[b] + 4 + d[j + 1]
  <2>1. PICK p, q : p = b + 2 * j - 1 /\ q = b + 2 * j
    OBVIOUS
  <2>2. /\ p \in 1 .. Len(f) - 1 /\ q \in 1 .. Len(f) /\ q = p + 1
        /\ f[p].bytes = 4 /\ f[q].bytes = Bytes[list[j]]
    <3>1. j \in 1 .. Len(list)
      BY DEF n
    <3> QED
      BY <2>1, <3>1, StringFieldsAre, SMTT(30)
  <2>3. d[j] \in Nat /\ d[j + 1] = d[j] + Bytes[list[j]] + 4 /\ Bytes[list[j]] \in Nat
    BY <1>2, <1>3
  <2>4. o[p] = o[b] + 4 + d[j]
    BY <1>4, <2>1
  <2>5. o[q] = o[b] + 4 + d[j] + 4
    BY <1>1, <1>2, <2>2, <2>3, <2>4
  <2>6. ASSUME q < Len(f)  PROVE o[q + 1] = o[b] + 4 + d[j + 1]
    <3>1. q \in 1 .. Len(f) - 1
      BY <1>1, <2>2, <2>6
    <3>2. o[q + 1] = o[q] + Bytes[list[j]]
      BY <1>1, <2>2, <3>1
    <3>3. o[b] \in Nat /\ d[j] \in Nat /\ Bytes[list[j]] \in Nat
      BY <1>2, <2>3
    <3>4. d[j + 1] = d[j] + Bytes[list[j]] + 4
      BY <2>3
    <3>5. o[q + 1] = o[b] + 4 + d[j] + 4 + Bytes[list[j]]
      BY <2>5, <3>2
    <3>6. o[b] + 4 + d[j] + 4 + Bytes[list[j]] = o[b] + 4 + (d[j] + Bytes[list[j]] + 4)
      BY <3>3, SMT
    <3> QED
      BY <3>4, <3>5, <3>6, Zenon
  <2> QED
    BY <2>1, <2>5, <2>6
<1> DEFINE T == {j \in 1 .. n : o[b + 2 * j - 1] = o[b] + 4 + d[j]}
<1>5. n > 0 => 1 \in T
  <2> SUFFICES ASSUME n > 0  PROVE o[b + 2 * 1 - 1] = o[b] + 4 + d[1] /\ 1 \in 1 .. n
    OBVIOUS
  <2>1. b \in 1 .. Len(f) - 1 /\ b + 2 * 1 - 1 = b + 1 /\ 1 \in 1 .. n
    BY <1>1, <1>2
  <2>2. o[b + 1] = o[b] + 4
    BY <1>1, <1>2, <2>1
  <2>3. o[b] \in Nat /\ d[1] = 0
    BY <1>1, <1>2, <1>3, <2>1
  <2>4. o[b] + 4 = o[b] + 4 + d[1]
    BY <2>3
  <2> QED
    BY <2>1, <2>2, <2>4
<1>6. ASSUME NEW j \in 1 .. n - 1, j \in T  PROVE j + 1 \in T
  <2>1. /\ j \in 1 .. n /\ j + 1 \in 1 .. n /\ b + 2 * j < Len(f)
        /\ b + 2 * j + 1 = b + 2 * (j + 1) - 1
    <3>1. j \in 1 .. n /\ j + 1 \in 1 .. n /\ 2 * j < 2 * n /\ b \in Nat /\ 2 * j \in Nat /\ 2 * n \in Nat
      BY <1>2
    <3> QED
      BY <1>1, <1>2, <3>1
  <2> QED
    BY <1>4, <1>6, <2>1
<1>7. T \in SUBSET (1 .. n)
  OBVIOUS
<1> HIDE DEF T
<1>8. T = 1 .. n
  BY <1>2, <1>5, <1>6, <1>7, Inductively
<1>9. \A j \in 1 .. n : o[b + 2 * j - 1] = o[b] + 4 + d[j] /\ o[b + 2 * j] = o[b] + 4 + d[j] + 4
  BY <1>4, <1>8 DEF T
<1>10. b + 2 * n < Len(f) => o[b + 2 * n + 1] = o[b] + 4 + d[n + 1]
  <2> SUFFICES ASSUME b + 2 * n < Len(f)  PROVE o[b + 2 * n + 1] = o[b] + 4 + d[n + 1]
    OBVIOUS
  <2>1. CASE n = 0
    <3>1. b \in 1 .. Len(f) - 1 /\ b + 2 * n + 1 = b + 1 /\ n + 1 = 1
      BY <1>1, <1>2, <2>1
    <3> QED
      BY <1>1, <1>2, <1>3, <3>1
  <2>2. CASE n # 0
    <3>1. n \in 1 .. n
      BY <1>2, <2>2
    <3> QED
      BY <1>4, <1>9, <3>1
  <2> QED
    BY <2>1, <2>2
<1> QED
  BY <1>9, <1>10 DEF o, n, d

\* The kernel finds these strings in the table at a byte.
FindsTexts(f, byte, list) ==
  \A j \in 1 .. Len(list) : /\ Offsets(list)[j] \in DOMAIN TextTable(f, byte).texts
                           /\ TextTable(f, byte).texts[Offsets(list)[j]] = list[j]

LEMMA TextsRead ==
  ASSUME NEW f, IsFile(f), NEW b, NEW list, Listed(f, b, list), NEW byte, byte = StartOf(f)[b]
  PROVE  /\ TextTable(f, byte).end = byte + 4 + Offsets(list)[Len(list) + 1]
         /\ FindsTexts(f, byte, list)
<1> DEFINE n == ReadAt(f, byte)
           d == Offsets(list)
           Eq(s) == s = [k \in 1 .. n + 1 |-> IF k = 1 THEN byte + 4 ELSE s[k - 1] + 4 + ReadAt(f, s[k - 1])]
           at == CHOOSE s : Eq(s)
           c == [k \in 1 .. n + 1 |-> byte + 4 + d[k]]
<1>1. /\ b \in 1 .. Len(f) /\ Len(list) \in Nat
      /\ \A j \in 1 .. Len(list) : b + 2 * j - 1 \in 1 .. Len(f) /\ b + 2 * j \in 1 .. Len(f)
  <2>1. \A j \in 1 .. Len(list) : b + 2 * j - 1 \in 1 .. Len(f) /\ b + 2 * j \in 1 .. Len(f)
    <3> SUFFICES ASSUME NEW j \in 1 .. Len(list)
                 PROVE  b + 2 * j - 1 \in 1 .. Len(f) /\ b + 2 * j \in 1 .. Len(f)
      OBVIOUS
    <3> QED
      BY StringFieldsAre
  <2> QED
    BY <2>1, ListFields
<1>2. n = Len(list) /\ n \in Nat
  <2>1. f[b].value = Len(list)
    BY ListFields
  <2> QED
    BY <1>1, <2>1, ReadsField
<1>3. \A j \in 1 .. n : ReadAt(f, byte + 4 + d[j]) = Bytes[list[j]]
                        /\ ReadAt(f, byte + 4 + d[j] + 4) = list[j]
  <2> SUFFICES ASSUME NEW j \in 1 .. Len(list)
               PROVE  /\ ReadAt(f, byte + 4 + d[j]) = Bytes[list[j]]
                      /\ ReadAt(f, byte + 4 + d[j] + 4) = list[j]
    BY <1>2
  <2>1. f[b + 2 * j - 1].value = Bytes[list[j]] /\ f[b + 2 * j].value = list[j]
    BY StringFieldsAre
  <2>2. /\ StartOf(f)[b + 2 * j - 1] = byte + 4 + d[j]
        /\ StartOf(f)[b + 2 * j] = byte + 4 + d[j] + 4
    BY ListPlaced
  <2>3. /\ ReadAt(f, StartOf(f)[b + 2 * j - 1]) = f[b + 2 * j - 1].value
        /\ ReadAt(f, StartOf(f)[b + 2 * j]) = f[b + 2 * j].value
    BY <1>1, ReadsField
  <2> QED
    BY <2>1, <2>2, <2>3
<1>4. /\ d \in [1 .. n + 1 -> Nat] /\ d[1] = 0 /\ byte \in Nat
      /\ \A i \in 1 .. n : d[i + 1] = d[i] + Bytes[list[i]] + 4 /\ Bytes[list[i]] \in Nat
  <2>1. list \in Seq(Texts)
    BY DEF Listed
  <2>2. \A i \in 1 .. Len(list) : Bytes[list[i]] \in Nat
    BY <2>1, BytesAssumption
  <2>3. byte \in Nat
    BY <1>1, StartsAre
  <2> QED
    BY <1>2, <2>1, <2>2, <2>3, OffsetsAre
<1>5. TextTable(f, byte) = [end   |-> at[n + 1],
                            texts |-> [x \in {at[k] - byte - 4 : k \in 1 .. n} |-> ReadAt(f, byte + 4 + x + 4)]]
  BY Zenon DEF TextTable
<1> HIDE DEF n, d
<1>6. ASSUME NEW k \in 1 .. n + 1, k # 1
      PROVE  /\ k - 1 \in 1 .. n /\ k - 1 \in 1 .. n + 1
             /\ byte + 4 + d[k] = byte + 4 + d[k - 1] + 4 + ReadAt(f, byte + 4 + d[k - 1])
  <2>1. k - 1 \in 1 .. n /\ k - 1 \in 1 .. n + 1 /\ (k - 1) + 1 = k
    BY <1>2, <1>6
  <2>2. d[k] = d[k - 1] + Bytes[list[k - 1]] + 4 /\ Bytes[list[k - 1]] \in Nat /\ d[k - 1] \in Nat
    BY <1>4, <2>1
  <2> QED
    BY <1>3, <1>4, <2>1, <2>2, SMTT(30)
<1>7. Eq(c)
  <2>1. ASSUME NEW k \in 1 .. n + 1
        PROVE  c[k] = IF k = 1 THEN byte + 4 ELSE c[k - 1] + 4 + ReadAt(f, c[k - 1])
    <3>1. CASE k = 1
      BY <1>4, <3>1
    <3>2. CASE k # 1
      <4>1. c[k - 1] = byte + 4 + d[k - 1] /\ c[k] = byte + 4 + d[k]
        BY <1>6, <3>2
      <4> HIDE DEF c
      <4> QED
        BY <1>6, <3>2, <4>1
    <3> QED
      BY <3>1, <3>2
  <2> QED
    BY <2>1
<1>8. Eq(at)
  BY <1>7, Zenon
<1> HIDE DEF at, c
<1>9. \A k \in 1 .. n + 1 : at[k] = IF k = 1 THEN byte + 4 ELSE at[k - 1] + 4 + ReadAt(f, at[k - 1])
  BY <1>8
<1> DEFINE T == {k \in 1 .. n + 1 : at[k] = byte + 4 + d[k]}
<1>10. 1 \in T
  <2>1. 1 \in 1 .. n + 1
    BY <1>2
  <2>2. at[1] = byte + 4
    BY <1>9, <2>1
  <2> QED
    BY <1>4, <2>1, <2>2
<1>0. PICK m : m = n + 1
  OBVIOUS
<1>11. ASSUME NEW i \in 1 .. m - 1, i \in T  PROVE i + 1 \in T
  <2>1. i + 1 \in 1 .. n + 1 /\ i + 1 # 1 /\ (i + 1) - 1 = i
    BY <1>0, <1>2
  <2>2. at[i + 1] = at[i] + 4 + ReadAt(f, at[i])
    BY <1>9, <2>1
  <2> QED
    BY <1>6, <1>11, <2>1, <2>2
<1>12. T \in SUBSET (1 .. m) /\ m \in Nat
  BY <1>0, <1>2
<1> HIDE DEF T
<1>13. T = 1 .. m
  BY <1>10, <1>11, <1>12, Inductively
<1>14. \A k \in 1 .. n + 1 : at[k] = byte + 4 + d[k]
  BY <1>0, <1>13 DEF T
<1>15. TextTable(f, byte).end = byte + 4 + d[n + 1]
  <2>1. n + 1 \in 1 .. n + 1
    BY <1>2
  <2> QED
    BY <1>5, <1>14, <2>1
<1>16. ASSUME NEW j \in 1 .. n
       PROVE  /\ d[j] \in DOMAIN TextTable(f, byte).texts
              /\ TextTable(f, byte).texts[d[j]] = list[j]
  <2>1. j \in 1 .. n + 1 /\ d[j] \in Nat
    BY <1>2, <1>4
  <2>2. at[j] - byte - 4 = d[j]
    BY <1>4, <1>14, <2>1
  <2>3. d[j] \in {at[k] - byte - 4 : k \in 1 .. n}
    BY <2>2
  <2>4. ReadAt(f, byte + 4 + d[j] + 4) = list[j]
    BY <1>3
  <2> QED
    BY <1>5, <2>3, <2>4
<1> QED
  BY <1>2, <1>15, <1>16 DEF d, FindsTexts

-----------------------------------------------------------------------------
(* The parts of a file *)

\* After b fields of f come those of g.
Part(f, b, g) == b + Len(g) <= Len(f) /\ \A i \in 1 .. Len(g) : f[b + i] = g[i]

LEMMA PartsJoin ==
  ASSUME NEW S, NEW f \in Seq(S), NEW g \in Seq(S)
  PROVE  /\ f \o g \in Seq(S) /\ Len(f \o g) = Len(f) + Len(g)
         /\ Part(f \o g, Len(f), g)
         /\ \A b \in Nat : \A h \in Seq(S) : Part(f, b, h) => Part(f \o g, b, h)
<1>1. /\ f \o g \in Seq(S) /\ Len(f \o g) = Len(f) + Len(g)
      /\ \A i \in 1 .. Len(f) + Len(g) : (f \o g)[i] = IF i <= Len(f) THEN f[i] ELSE g[i - Len(f)]
  BY ConcatProperties
<1>2. Len(f) \in Nat /\ Len(g) \in Nat
  OBVIOUS
<1> DEFINE u == f \o g
<1> HIDE DEF u
<1>3. Part(u, Len(f), g)
  <2>1. ASSUME NEW i \in 1 .. Len(g)  PROVE u[Len(f) + i] = g[i]
    <3>1. Len(f) + i \in 1 .. Len(f) + Len(g) /\ ~ (Len(f) + i <= Len(f)) /\ (Len(f) + i) - Len(f) = i
      BY <1>2
    <3> QED
      BY <1>1, <3>1 DEF u
  <2> QED
    BY <1>1, <1>2, <2>1 DEF Part, u
<1>4. ASSUME NEW b \in Nat, NEW h \in Seq(S), Part(f, b, h)  PROVE Part(u, b, h)
  <2>1. Len(h) \in Nat /\ b + Len(h) <= Len(f)
    BY <1>4 DEF Part
  <2>2. ASSUME NEW i \in 1 .. Len(h)  PROVE u[b + i] = h[i]
    <3>1. b + i \in 1 .. Len(f) + Len(g) /\ b + i <= Len(f)
      BY <1>2, <2>1
    <3>2. u[b + i] = f[b + i]
      BY <1>1, <3>1 DEF u
    <3> QED
      BY <1>4, <3>2 DEF Part
  <2> QED
    BY <1>1, <1>2, <2>1, <2>2 DEF Part, u
<1> QED
  BY <1>1, <1>3, <1>4 DEF u

\* What values fields have.
Values(head, code) ==
  {"FSE0"} \cup Int \cup Texts \cup {code[i] : i \in DOMAIN code}
    \cup {head.stack, head.globals, head.main}
Fields(head, code) == [bytes: Nat \ {0}, value: Values(head, code)]

LEMMA HeaderPart ==
  ASSUME NEW head, NEW code
  PROVE  /\ HeaderFields(head) \in Seq(Fields(head, code)) /\ Len(HeaderFields(head)) = 6
         /\ HeaderFields(head)[4] = Field(4, head.stack)
         /\ HeaderFields(head)[5] = Field(4, head.globals)
         /\ HeaderFields(head)[6] = Field(4, head.main)
         /\ \A i \in 1 .. 6 : HeaderFields(head)[i].bytes = IF i \in 2 .. 3 THEN 2 ELSE 4
<1> DEFINE S == Fields(head, code)
<1>1. \A x \in Values(head, code) : Field(4, x) \in S /\ Field(2, x) \in S
  BY DEF Fields, Field
<1>2. /\ "FSE0" \in Values(head, code) /\ 0 \in Values(head, code) /\ 1 \in Values(head, code)
      /\ head.stack \in Values(head, code) /\ head.globals \in Values(head, code)
      /\ head.main \in Values(head, code)
  BY DEF Values
<1>3. /\ Field(4, "FSE0") \in S /\ Field(2, 0) \in S /\ Field(2, 1) \in S
      /\ Field(4, head.stack) \in S /\ Field(4, head.globals) \in S /\ Field(4, head.main) \in S
  BY <1>1, <1>2
<1>4. \A x : Field(4, x).bytes = 4 /\ Field(2, x).bytes = 2
  BY DEF Field
<1> HIDE DEF S
<1>5. /\ HeaderFields(head) \in Seq(S) /\ Len(HeaderFields(head)) = 6
  BY <1>3 DEF HeaderFields
<1>6. /\ HeaderFields(head)[1] = Field(4, "FSE0") /\ HeaderFields(head)[2] = Field(2, 0)
      /\ HeaderFields(head)[3] = Field(2, 1) /\ HeaderFields(head)[4] = Field(4, head.stack)
      /\ HeaderFields(head)[5] = Field(4, head.globals)
      /\ HeaderFields(head)[6] = Field(4, head.main)
  BY DEF HeaderFields
<1>7. \A i \in 1 .. 6 : HeaderFields(head)[i].bytes = IF i \in 2 .. 3 THEN 2 ELSE 4
  <2> SUFFICES ASSUME NEW i \in 1 .. 6
               PROVE  HeaderFields(head)[i].bytes = IF i \in 2 .. 3 THEN 2 ELSE 4
    OBVIOUS
  <2>1. i \in {1, 2, 3, 4, 5, 6}
    OBVIOUS
  <2> QED
    BY <1>4, <1>6, <2>1
<1> QED
  BY <1>5, <1>6, <1>7 DEF S

\* A part that begins with the number of what follows.
LEMMA CountedPart ==
  ASSUME NEW S, NEW x \in S, NEW m \in Nat, NEW rest \in [1 .. m -> S]
  PROVE  /\ <<x>> \o rest \in Seq(S) /\ Len(<<x>> \o rest) = 1 + m
         /\ (<<x>> \o rest)[1] = x
         /\ \A i \in 1 .. m : (<<x>> \o rest)[1 + i] = rest[i]
<1> DEFINE one == <<x>>
           u == one \o rest
<1>1. one \in Seq(S) /\ Len(one) = 1 /\ one[1] = x
  OBVIOUS
<1>2. rest \in Seq(S) /\ Len(rest) = m
  OBVIOUS
<1> HIDE DEF one
<1>3. /\ u \in Seq(S) /\ Len(u) = Len(one) + Len(rest)
      /\ \A i \in 1 .. Len(one) + Len(rest) : u[i] = IF i <= Len(one) THEN one[i] ELSE rest[i - Len(one)]
  BY <1>1, <1>2, ConcatProperties
<1> HIDE DEF u
<1>4. u \in Seq(S) /\ Len(u) = 1 + m /\ \A i \in 1 .. 1 + m : u[i] = IF i <= 1 THEN one[i] ELSE rest[i - 1]
  BY <1>1, <1>2, <1>3
<1>5. u[1] = x
  BY <1>1, <1>4
<1>6. ASSUME NEW i \in 1 .. m  PROVE u[1 + i] = rest[i]
  <2>1. 1 + i \in 1 .. 1 + m /\ ~ (1 + i <= 1) /\ (1 + i) - 1 = i
    OBVIOUS
  <2> QED
    BY <1>4, <2>1
<1> QED
  BY <1>4, <1>5, <1>6 DEF one, u

LEMMA CodePart ==
  ASSUME NEW head, NEW code, Len(code) \in Nat, DOMAIN code = 1 .. Len(code),
         \A i \in 1 .. Len(code) : InstrBytes(code[i]) = INSTR_LEN
  PROVE  /\ CodeFields(code) \in Seq(Fields(head, code)) /\ Len(CodeFields(code)) = 1 + Len(code)
         /\ CodeFields(code)[1] = Field(4, Len(code))
         /\ \A i \in 1 .. Len(code) : CodeFields(code)[1 + i] = Field(INSTR_LEN, code[i])
<1> DEFINE S == Fields(head, code)
           n == Len(code)
           x == Field(4, n)
           rest == [i \in 1 .. n |-> Field(InstrBytes(code[i]), code[i])]
<1>1. \A v \in Values(head, code) : Field(4, v) \in S /\ Field(INSTR_LEN, v) \in S
  BY DEF Fields, Field, INSTR_LEN
<1>2. n \in Values(head, code) /\ \A i \in 1 .. n : code[i] \in Values(head, code)
  BY DEF Values
<1>3. \A i \in 1 .. n : rest[i] = Field(INSTR_LEN, code[i])
  OBVIOUS
<1>4. n \in Nat /\ CodeFields(code) = <<x>> \o rest
  BY DEF CodeFields
<1>5. \A i \in 1 .. n : Field(InstrBytes(code[i]), code[i]) \in S
  BY <1>1, <1>2
<1>6. x \in S
  BY <1>1, <1>2
<1> HIDE DEF S, n, x
<1>7. rest \in [1 .. n -> S]
  BY <1>5
<1> HIDE DEF rest
<1> QED
  BY <1>3, <1>4, <1>6, <1>7, CountedPart, SMTT(30) DEF S, n, x

\* Two fields for each element of a table.
LEMMA Pairs ==
  ASSUME NEW n \in Nat, NEW i \in 1 .. 2 * n
  PROVE  (i + 1) \div 2 \in 1 .. n
OBVIOUS

LEMMA PairOf ==
  ASSUME NEW n \in Nat, NEW j \in 1 .. n
  PROVE  /\ 2 * j - 1 \in 1 .. 2 * n /\ ((2 * j - 1) + 1) \div 2 = j /\ (2 * j - 1) % 2 = 1
         /\ 2 * j \in 1 .. 2 * n /\ (2 * j + 1) \div 2 = j /\ (2 * j) % 2 # 1
         /\ 1 + (2 * j - 1) = 2 * j
OBVIOUS

\* Strings: the length of each, and its characters.
LEMMA StringsPart ==
  ASSUME NEW head, NEW code, NEW list \in Seq(Texts)
  PROVE  /\ StringFields(list) \in Seq(Fields(head, code))
         /\ Len(StringFields(list)) = 1 + 2 * Len(list)
         /\ StringFields(list)[1] = Field(4, Len(list))
         /\ \A j \in 1 .. Len(list) :
              /\ StringFields(list)[2 * j] = Field(4, Bytes[list[j]])
              /\ StringFields(list)[1 + 2 * j] = Field(Bytes[list[j]], list[j])
<1> DEFINE S == Fields(head, code)
           n == Len(list)
           x == Field(4, n)
           fieldOf(i) == LET s == list[(i + 1) \div 2]
                         IN  IF i % 2 = 1 THEN Field(4, Bytes[s]) ELSE Field(Bytes[s], s)
           rest == [i \in 1 .. 2 * n |-> fieldOf(i)]
<1>1. StringFields(list) = <<x>> \o rest
  BY Zenon DEF StringFields
<1>2. n \in Nat /\ 2 * n \in Nat
  OBVIOUS
<1>3. /\ \A v \in Values(head, code) : \A b \in Nat \ {0} : Field(b, v) \in S
      /\ n \in Values(head, code)
      /\ \A s \in Texts : s \in Values(head, code) /\ Bytes[s] \in Values(head, code) /\ Bytes[s] \in Nat \ {0}
  BY BytesAssumption DEF Fields, Field, Values
<1>4. \A j \in 1 .. n : list[j] \in Texts
  OBVIOUS
<1>5. x \in S
  BY <1>3
<1>6. ASSUME NEW s \in Texts  PROVE Field(4, Bytes[s]) \in S /\ Field(Bytes[s], s) \in S
  BY <1>3
<1> HIDE DEF S, n, x
<1>7. ASSUME NEW i \in 1 .. 2 * n  PROVE fieldOf(i) \in S
  <2>1. (i + 1) \div 2 \in 1 .. n
    BY <1>2, Pairs
  <2>2. list[(i + 1) \div 2] \in Texts
    BY <1>4, <2>1, Zenon
  <2> QED
    BY <1>6, <2>2, Zenon
<1>8. ASSUME NEW j \in 1 .. n
      PROVE  rest[2 * j - 1] = Field(4, Bytes[list[j]]) /\ rest[2 * j] = Field(Bytes[list[j]], list[j])
  <2>1. PICK p, q : p = 2 * j - 1 /\ q = 2 * j
    OBVIOUS
  <2>2. /\ p \in 1 .. 2 * n /\ (p + 1) \div 2 = j /\ p % 2 = 1
        /\ q \in 1 .. 2 * n /\ (q + 1) \div 2 = j /\ q % 2 # 1
    BY <1>2, <2>1, PairOf
  <2>3. rest[p] = fieldOf(p) /\ rest[q] = fieldOf(q)
    BY <2>2, Zenon
  <2>4. fieldOf(p) = Field(4, Bytes[list[j]]) /\ fieldOf(q) = Field(Bytes[list[j]], list[j])
    BY <2>2, Zenon
  <2> QED
    BY <2>1, <2>3, <2>4, Zenon
<1>9. rest \in [1 .. 2 * n -> S]
  BY <1>7, Zenon
<1> HIDE DEF rest
<1>10. /\ <<x>> \o rest \in Seq(S) /\ Len(<<x>> \o rest) = 1 + 2 * n /\ (<<x>> \o rest)[1] = x
       /\ \A i \in 1 .. 2 * n : (<<x>> \o rest)[1 + i] = rest[i]
  BY <1>2, <1>5, <1>9, CountedPart
<1>11. ASSUME NEW j \in 1 .. n
       PROVE  /\ StringFields(list)[2 * j] = Field(4, Bytes[list[j]])
              /\ StringFields(list)[1 + 2 * j] = Field(Bytes[list[j]], list[j])
  <2>1. PICK p, q : p = 2 * j - 1 /\ q = 2 * j
    OBVIOUS
  <2>2. p \in 1 .. 2 * n /\ q \in 1 .. 2 * n /\ 1 + p = 2 * j
    BY <1>2, <2>1, PairOf
  <2> QED
    BY <1>1, <1>8, <1>10, <2>1, <2>2
<1> QED
  BY <1>1, <1>10, <1>11 DEF S, n, x

\* Functions: the entry of each, and the size of its frame.
LEMMA FuncsPart ==
  ASSUME NEW head, NEW code, NEW funcs \in Seq(FuncNodes)
  PROVE  /\ FuncFields(funcs) \in Seq(Fields(head, code))
         /\ Len(FuncFields(funcs)) = 1 + 2 * Len(funcs)
         /\ FuncFields(funcs)[1] = Field(4, Len(funcs))
         /\ \A i \in 1 .. 1 + 2 * Len(funcs) : FuncFields(funcs)[i].bytes = 4
         /\ \A j \in 1 .. Len(funcs) :
              /\ FuncFields(funcs)[2 * j] = Field(4, funcs[j].entry)
              /\ FuncFields(funcs)[1 + 2 * j] = Field(4, funcs[j].size)
<1> DEFINE S == Fields(head, code)
           n == Len(funcs)
           x == Field(4, n)
           fieldOf(i) == LET f == funcs[(i + 1) \div 2]
                         IN  Field(4, IF i % 2 = 1 THEN f.entry ELSE f.size)
           rest == [i \in 1 .. 2 * n |-> fieldOf(i)]
<1>1. FuncFields(funcs) = <<x>> \o rest
  BY Zenon DEF FuncFields
<1>2. n \in Nat /\ 2 * n \in Nat
  OBVIOUS
<1>3. \A v \in Int : Field(4, v) \in S /\ Field(4, v).bytes = 4
  BY DEF Fields, Field, Values
<1>4. \A j \in 1 .. n : funcs[j].entry \in Int /\ funcs[j].size \in Int
  <2>1. \A j \in 1 .. n : funcs[j] \in FuncNodes
    OBVIOUS
  <2>2. \A g \in FuncNodes : g.entry \in Int /\ g.size \in Int
    BY DEF FuncNodes
  <2> QED
    BY <2>1, <2>2
<1>5. x \in S /\ x.bytes = 4
  BY <1>3
<1> HIDE DEF S, n, x
<1>7. ASSUME NEW i \in 1 .. 2 * n  PROVE fieldOf(i) \in S /\ fieldOf(i).bytes = 4
  <2>1. (i + 1) \div 2 \in 1 .. n
    BY <1>2, Pairs
  <2>2. (IF i % 2 = 1 THEN funcs[(i + 1) \div 2].entry ELSE funcs[(i + 1) \div 2].size) \in Int
    BY <1>4, <2>1, Zenon
  <2> QED
    BY <1>3, <2>2, Zenon
<1>8. ASSUME NEW j \in 1 .. n
      PROVE  rest[2 * j - 1] = Field(4, funcs[j].entry) /\ rest[2 * j] = Field(4, funcs[j].size)
  <2>1. PICK p, q : p = 2 * j - 1 /\ q = 2 * j
    OBVIOUS
  <2>2. /\ p \in 1 .. 2 * n /\ (p + 1) \div 2 = j /\ p % 2 = 1
        /\ q \in 1 .. 2 * n /\ (q + 1) \div 2 = j /\ q % 2 # 1
    BY <1>2, <2>1, PairOf
  <2>3. rest[p] = fieldOf(p) /\ rest[q] = fieldOf(q)
    BY <2>2, Zenon
  <2>4. fieldOf(p) = Field(4, funcs[j].entry) /\ fieldOf(q) = Field(4, funcs[j].size)
    BY <2>2, Zenon
  <2> QED
    BY <2>1, <2>3, <2>4, Zenon
<1>9. rest \in [1 .. 2 * n -> S] /\ \A i \in 1 .. 2 * n : rest[i].bytes = 4
  BY <1>7, Zenon
<1> HIDE DEF rest
<1>10. /\ <<x>> \o rest \in Seq(S) /\ Len(<<x>> \o rest) = 1 + 2 * n /\ (<<x>> \o rest)[1] = x
       /\ \A i \in 1 .. 2 * n : (<<x>> \o rest)[1 + i] = rest[i]
  BY <1>2, <1>5, <1>9, CountedPart
<1>11. ASSUME NEW j \in 1 .. n
       PROVE  /\ FuncFields(funcs)[2 * j] = Field(4, funcs[j].entry)
              /\ FuncFields(funcs)[1 + 2 * j] = Field(4, funcs[j].size)
  <2>1. PICK p, q : p = 2 * j - 1 /\ q = 2 * j
    OBVIOUS
  <2>2. p \in 1 .. 2 * n /\ q \in 1 .. 2 * n /\ 1 + p = 2 * j
    BY <1>2, <2>1, PairOf
  <2> QED
    BY <1>1, <1>8, <1>10, <2>1, <2>2
<1>12. ASSUME NEW i \in 1 .. 1 + 2 * n  PROVE FuncFields(funcs)[i].bytes = 4
  <2>1. CASE i = 1
    BY <1>1, <1>5, <1>10, <2>1
  <2>2. CASE i # 1
    <3>1. PICK k : k = i - 1
      OBVIOUS
    <3>2. k \in 1 .. 2 * n /\ 1 + k = i
      BY <1>2, <2>2, <3>1
    <3> QED
      BY <1>1, <1>9, <1>10, <3>2
  <2> QED
    BY <2>1, <2>2
<1> QED
  BY <1>1, <1>10, <1>11, <1>12 DEF S, n, x

LEMMA ElementsOf ==
  ASSUME NEW S, NEW f \in Seq(S)
  PROVE  DOMAIN f = 1 .. Len(f) /\ Len(f) \in Nat /\ \A i \in 1 .. Len(f) : f[i] \in S
OBVIOUS

\* One more part.
Joined(S, u, f, g) ==
  /\ u \in Seq(S) /\ Len(u) = Len(f) + Len(g) /\ Part(u, Len(f), g)
  /\ \A b \in Nat : \A h \in Seq(S) : Part(f, b, h) => Part(u, b, h)

LEMMA PartAdded ==
  ASSUME NEW S, NEW f \in Seq(S), NEW g \in Seq(S)
  PROVE  Joined(S, f \o g, f, g)
BY PartsJoin, Zenon DEF Joined

\* The parts of a file with n instructions, k strings, m functions and a kernel calls.
Laid(S, f, h, c, s, u, p, n, k, m, a) ==
  /\ f \in Seq(S) /\ Len(f) = 10 + n + 2 * k + 2 * m + 2 * a
  /\ Part(f, 0, h) /\ Part(f, 6, c) /\ Part(f, 7 + n, s) /\ Part(f, 8 + n + 2 * k, u)
  /\ Part(f, 9 + n + 2 * k + 2 * m, p)

LEMMA FiveParts ==
  ASSUME NEW S, NEW h \in Seq(S), NEW c \in Seq(S), NEW s \in Seq(S), NEW u \in Seq(S), NEW p \in Seq(S),
         NEW n \in Nat, NEW k \in Nat, NEW m \in Nat, NEW a \in Nat,
         Len(h) = 6, Len(c) = 1 + n, Len(s) = 1 + 2 * k, Len(u) = 1 + 2 * m, Len(p) = 1 + 2 * a
  PROVE  Laid(S, h \o c \o s \o u \o p, h, c, s, u, p, n, k, m, a)
<1> DEFINE hc == h \o c
           hcs == hc \o s
           hcsu == hcs \o u
           f == hcsu \o p
<1>0. f = h \o c \o s \o u \o p
  OBVIOUS
<1>1. PICK l, l1, l2, l3, l4 : /\ l = 6 /\ l1 = 7 + n /\ l2 = 8 + n + 2 * k
                               /\ l3 = 9 + n + 2 * k + 2 * m /\ l4 = 10 + n + 2 * k + 2 * m + 2 * a
  BY Zenon
<1>2. /\ l = Len(h) /\ l1 = Len(h) + Len(c) /\ l2 = l1 + Len(s) /\ l3 = l2 + Len(u) /\ l4 = l3 + Len(p)
      /\ 0 \in Nat /\ l \in Nat /\ l1 \in Nat /\ l2 \in Nat /\ l3 \in Nat /\ l4 \in Nat
  BY <1>1
<1>3. Part(h, 0, h)
  BY DEF Part
<1>4. /\ hc \in Seq(S) /\ Len(hc) = l1 /\ Part(hc, l, c)
      /\ \A b \in Nat : \A x \in Seq(S) : Part(h, b, x) => Part(hc, b, x)
  <2>1. Joined(S, hc, h, c)
    BY PartAdded, Zenon
  <2> HIDE DEF hc
  <2> QED
    BY <1>2, <2>1, Zenon DEF Joined
<1> HIDE DEF hc
<1>5. /\ hcs \in Seq(S) /\ Len(hcs) = l2 /\ Part(hcs, l1, s)
      /\ \A b \in Nat : \A x \in Seq(S) : Part(hc, b, x) => Part(hcs, b, x)
  <2>1. Joined(S, hcs, hc, s)
    BY <1>4, PartAdded, Zenon
  <2> HIDE DEF hcs
  <2> QED
    BY <1>2, <1>4, <2>1, Zenon DEF Joined
<1> HIDE DEF hcs
<1>6. /\ hcsu \in Seq(S) /\ Len(hcsu) = l3 /\ Part(hcsu, l2, u)
      /\ \A b \in Nat : \A x \in Seq(S) : Part(hcs, b, x) => Part(hcsu, b, x)
  <2>1. Joined(S, hcsu, hcs, u)
    BY <1>5, PartAdded, Zenon
  <2> HIDE DEF hcsu
  <2> QED
    BY <1>2, <1>5, <2>1, Zenon DEF Joined
<1> HIDE DEF hcsu
<1>7. /\ f \in Seq(S) /\ Len(f) = l4 /\ Part(f, l3, p)
      /\ \A b \in Nat : \A x \in Seq(S) : Part(hcsu, b, x) => Part(f, b, x)
  <2>1. Joined(S, f, hcsu, p)
    BY <1>6, PartAdded, Zenon
  <2> HIDE DEF f
  <2> QED
    BY <1>2, <1>6, <2>1, Zenon DEF Joined
<1> HIDE DEF f
<1>8. Part(f, 0, h) /\ Part(f, l, c) /\ Part(f, l1, s) /\ Part(f, l2, u) /\ Part(f, l3, p)
  BY <1>2, <1>3, <1>4, <1>5, <1>6, <1>7, Zenon
<1> QED
  BY <1>0, <1>1, <1>7, <1>8, Zenon DEF Laid

\* The whole file: what BuildFSE writes before each of its parts.
Parts(f, head, code, t, n, k, m, a) ==
  /\ IsFile(f)
  /\ n \in Nat /\ k \in Nat /\ m \in Nat /\ a \in Nat
  /\ Len(f) = 10 + n + 2 * k + 2 * m + 2 * a
  /\ Part(f, 0, HeaderFields(head))
  /\ Part(f, 6, CodeFields(code))
  /\ Part(f, 7 + n, StringFields(t.strings))
  /\ Part(f, 8 + n + 2 * k, FuncFields(t.funcs))
  /\ Part(f, 9 + n + 2 * k + 2 * m, StringFields(t.apis))

LEMMA FileParts ==
  ASSUME NEW head, NEW code, NEW t \in Tables, NEW f, f = FileOf(head, code, t),
         NEW n, n = Len(code), NEW k, k = Len(t.strings), NEW m, m = Len(t.funcs),
         NEW a, a = Len(t.apis),
         Len(code) \in Nat, DOMAIN code = 1 .. Len(code),
         \A i \in 1 .. Len(code) : InstrBytes(code[i]) = INSTR_LEN
  PROVE  Parts(f, head, code, t, n, k, m, a)
<1> DEFINE S == Fields(head, code)
           h == HeaderFields(head)
           c == CodeFields(code)
           s == StringFields(t.strings)
           u == FuncFields(t.funcs)
           p == StringFields(t.apis)
<1>1. t.strings \in Seq(Texts) /\ t.apis \in Seq(Texts) /\ t.funcs \in Seq(FuncNodes)
  BY DEF Tables
<1>2. n \in Nat /\ k \in Nat /\ m \in Nat /\ a \in Nat
  BY <1>1
<1>3. h \in Seq(S) /\ Len(h) = 6
  BY HeaderPart
<1>4. c \in Seq(S) /\ Len(c) = 1 + n
  BY CodePart
<1>5. s \in Seq(S) /\ Len(s) = 1 + 2 * k
  BY <1>1, StringsPart
<1>6. u \in Seq(S) /\ Len(u) = 1 + 2 * m
  BY <1>1, FuncsPart
<1>7. p \in Seq(S) /\ Len(p) = 1 + 2 * a
  BY <1>1, StringsPart
<1>8. f = h \o c \o s \o u \o p
  BY DEF FileOf, ApiFields
<1>9. \A x \in S : x.bytes \in Nat \ {0}
  BY DEF Fields
<1> HIDE DEF S, h, c, s, u, p
<1>10. /\ f \in Seq(S) /\ Len(f) = 10 + n + 2 * k + 2 * m + 2 * a
       /\ Part(f, 0, h) /\ Part(f, 6, c) /\ Part(f, 7 + n, s) /\ Part(f, 8 + n + 2 * k, u)
       /\ Part(f, 9 + n + 2 * k + 2 * m, p)
  <2>1. Laid(S, h \o c \o s \o u \o p, h, c, s, u, p, n, k, m, a)
    BY <1>2, <1>3, <1>4, <1>5, <1>6, <1>7, FiveParts, Zenon
  <2> QED
    BY <1>8, <2>1, Zenon DEF Laid
<1>11. IsFile(f)
  <2>1. /\ DOMAIN f = 1 .. Len(f) /\ Len(f) \in Nat
        /\ \A i \in 1 .. Len(f) : f[i] \in S
    BY <1>10, ElementsOf
  <2> QED
    BY <1>9, <2>1, Zenon DEF IsFile
<1> QED
  BY <1>2, <1>10, <1>11 DEF h, c, s, u, p, Parts

-----------------------------------------------------------------------------
(* What the kernel finds in the file *)

LEMMA FieldIs ==
  ASSUME NEW x, NEW b, NEW v, x = Field(b, v)
  PROVE  x.bytes = b /\ x.value = v
BY DEF Field

\* Fields of the same width.
Even(f, b, m, w) ==
  /\ StartOf(f)[b] \in Nat
  /\ \A i \in 0 .. m : StartOf(f)[b + i] = StartOf(f)[b] + w * i

LEMMA EvenFields ==
  ASSUME NEW f, IsFile(f), NEW w \in {4, 32}, NEW m \in Nat, NEW b \in Nat \ {0}, b + m <= Len(f),
         \A i \in 0 .. m - 1 : f[b + i].bytes = w
  PROVE  Even(f, b, m, w)
<1> DEFINE o == StartOf(f)
           n == m + 1
           T == {i \in 1 .. n : o[b + (i - 1)] = o[b] + w * (i - 1)}
<1>1. /\ o \in [1 .. Len(f) -> Nat] /\ Len(f) \in Nat
      /\ \A i \in 1 .. Len(f) - 1 : o[i + 1] = o[i] + f[i].bytes
  BY StartsAre DEF IsFile
<1>2. b \in 1 .. Len(f) /\ n \in Nat /\ w \in Nat
  BY <1>1
<1>3. o[b] \in Nat
  BY <1>1, <1>2
<1>4. PICK l : l = Len(f)
  OBVIOUS
<1> HIDE DEF o
<1>5. n > 0 => 1 \in T
  BY <1>2, <1>3
<1>6. ASSUME NEW i \in 1 .. n - 1, i \in T  PROVE i + 1 \in T
  <2>1. PICK j, k : j = b + (i - 1) /\ k = i - 1
    OBVIOUS
  <2>2. /\ i + 1 \in 1 .. n /\ j \in 1 .. l - 1 /\ j + 1 = b + ((i + 1) - 1) /\ k \in 0 .. m - 1
        /\ j = b + k /\ (i + 1) - 1 = k + 1 /\ k \in Nat
    BY <1>1, <1>2, <1>4, <2>1
  <2>3. o[j] = o[b] + w * k
    BY <1>6, <2>1
  <2>4. o[j + 1] = o[j] + w
    <3>1. f[j].bytes = w
      BY <2>2
    <3> QED
      BY <1>1, <1>4, <2>2, <3>1
  <2>5. w * (k + 1) = w * k + w /\ w * k \in Nat
    BY <2>2
  <2>6. o[j + 1] = o[b] + w * (k + 1)
    BY <1>2, <1>3, <2>3, <2>4, <2>5
  <2> QED
    BY <2>2, <2>6
<1>7. T \in SUBSET (1 .. n)
  OBVIOUS
<1> HIDE DEF T
<1>8. T = 1 .. n
  BY <1>2, <1>5, <1>6, <1>7, Inductively
<1>9. ASSUME NEW i \in 0 .. m  PROVE o[b + i] = o[b] + w * i
  <2>1. PICK k : k = i + 1
    OBVIOUS
  <2>2. k \in 1 .. n /\ k - 1 = i
    BY <2>1
  <2>3. o[b + (k - 1)] = o[b] + w * (k - 1)
    BY <1>8, <2>2 DEF T
  <2> QED
    BY <2>2, <2>3
<1> QED
  BY <1>3, <1>9 DEF o, Even

\* A part that is written by StringFields is read as a table of strings.
LEMMA PartListed ==
  ASSUME NEW f, NEW b \in Nat, NEW list \in Seq(Texts), Part(f, b, StringFields(list)),
         NEW c, c = b + 1
  PROVE  Listed(f, c, list)
<1>1. /\ Len(StringFields(list)) = 1 + 2 * Len(list)
      /\ StringFields(list)[1] = Field(4, Len(list))
      /\ \A j \in 1 .. Len(list) :
           /\ StringFields(list)[2 * j] = Field(4, Bytes[list[j]])
           /\ StringFields(list)[1 + 2 * j] = Field(Bytes[list[j]], list[j])
  BY StringsPart
<1>2. PICK n, l : n = Len(list) /\ l = 1 + 2 * n
  OBVIOUS
<1>3. n \in Nat /\ l \in Nat /\ 1 \in 1 .. l
  BY <1>2
<1>4. b + l <= Len(f) /\ \A i \in 1 .. l : f[b + i] = StringFields(list)[i]
  BY <1>1, <1>2 DEF Part
<1>5. f[c] = Field(4, Len(list))
  BY <1>1, <1>3, <1>4
<1>6. ASSUME NEW j \in 1 .. n
      PROVE  f[c + 2 * j - 1] = Field(4, Bytes[list[j]]) /\ f[c + 2 * j] = Field(Bytes[list[j]], list[j])
  <2>1. PICK p, q : p = 2 * j /\ q = 1 + 2 * j
    OBVIOUS
  <2>2. p \in 1 .. l /\ q \in 1 .. l /\ b + p = c + 2 * j - 1 /\ b + q = c + 2 * j
    BY <1>2, <1>3, <2>1
  <2>3. f[b + p] = Field(4, Bytes[list[j]]) /\ f[b + q] = Field(Bytes[list[j]], list[j])
    BY <1>1, <1>2, <1>4, <2>1, <2>2
  <2> QED
    BY <2>2, <2>3
<1>7. c \in Nat \ {0} /\ c + 2 * n <= Len(f)
  <2>1. c + 2 * n = b + l
    BY <1>2, <1>3
  <2> QED
    BY <1>4, <2>1
<1> QED
  BY <1>2, <1>5, <1>6, <1>7 DEF Listed

\* The kernel finds the header, and the code from CodeAt on.
FindsCode(f, head, code, n) ==
  /\ ReadAt(f, 12) = head.globals /\ ReadAt(f, 16) = head.main /\ ReadAt(f, 20) = n
  /\ \A i \in 1 .. n : ReadAt(f, CodeAt + INSTR_LEN * (i - 1)) = code[i]

LEMMA CodeRead ==
  ASSUME NEW f, IsFile(f), NEW head, NEW code, NEW n \in Nat, n = Len(code),
         DOMAIN code = 1 .. Len(code), \A i \in 1 .. Len(code) : InstrBytes(code[i]) = INSTR_LEN,
         8 + n <= Len(f), Part(f, 0, HeaderFields(head)), Part(f, 6, CodeFields(code))
  PROVE  /\ FindsCode(f, head, code, n)
         /\ StringsAt(f) = StartOf(f)[8 + n]
<1> DEFINE o == StartOf(f)
           l == Len(f)
           h == HeaderFields(head)
           c == CodeFields(code)
<1>1. /\ o \in [1 .. l -> Nat] /\ l \in Nat
      /\ l > 0 => o[1] = 0
      /\ \A i \in 1 .. l - 1 : o[i + 1] = o[i] + f[i].bytes
  BY StartsAre DEF IsFile
<1>2. /\ Len(h) = 6 /\ h[5] = Field(4, head.globals) /\ h[6] = Field(4, head.main)
      /\ \A i \in 1 .. 6 : h[i].bytes = IF i \in 2 .. 3 THEN 2 ELSE 4
  BY HeaderPart
<1>3. /\ Len(c) = 1 + n /\ c[1] = Field(4, n)
      /\ \A i \in 1 .. n : c[1 + i] = Field(INSTR_LEN, code[i])
  BY CodePart
<1>4. (\A i \in 1 .. 6 : f[0 + i] = h[i]) /\ \A i \in 1 .. 1 + n : f[6 + i] = c[i]
  BY <1>2, <1>3 DEF Part
<1> HIDE DEF o, l, h, c
<1>5. \A i \in 1 .. 6 : f[i].bytes = IF i \in 2 .. 3 THEN 2 ELSE 4
  <2>1. \A i \in 1 .. 6 : 0 + i = i
    OBVIOUS
  <2> QED
    BY <1>2, <1>4, <2>1
<1>6. f[5] = Field(4, head.globals) /\ f[6] = Field(4, head.main) /\ f[7] = Field(4, n)
  <2>1. 5 \in 1 .. 6 /\ 0 + 5 = 5 /\ 6 \in 1 .. 6 /\ 0 + 6 = 6 /\ 1 \in 1 .. 1 + n /\ 6 + 1 = 7
    OBVIOUS
  <2> QED
    BY <1>2, <1>3, <1>4, <2>1
<1>7. \A i \in 1 .. n : f[7 + i] = Field(INSTR_LEN, code[i])
  <2> SUFFICES ASSUME NEW i \in 1 .. n  PROVE f[7 + i] = Field(INSTR_LEN, code[i])
    OBVIOUS
  <2>1. PICK k : k = 1 + i
    OBVIOUS
  <2>2. k \in 1 .. 1 + n /\ 6 + k = 7 + i
    BY <2>1
  <2> QED
    BY <1>3, <1>4, <2>1, <2>2
<1>8. /\ f[5].value = head.globals /\ f[6].value = head.main /\ f[7].value = n /\ f[7].bytes = 4
      /\ \A i \in 1 .. n : f[7 + i].value = code[i] /\ f[7 + i].bytes = INSTR_LEN
  <2>1. ASSUME NEW i \in 1 .. n  PROVE f[7 + i].value = code[i] /\ f[7 + i].bytes = INSTR_LEN
    <3>1. f[7 + i] = Field(INSTR_LEN, code[i])
      BY <1>7, Zenon
    <3> QED
      BY <3>1, FieldIs, Zenon
  <2>2. f[5].value = head.globals /\ f[6].value = head.main
    BY <1>6, FieldIs
  <2>3. f[7].value = n /\ f[7].bytes = 4
    BY <1>6, FieldIs
  <2> QED
    BY <2>1, <2>2, <2>3, Zenon
<1>9. /\ o[2] = 4 /\ o[3] = 6 /\ o[4] = 8 /\ o[5] = 12 /\ o[6] = 16 /\ o[7] = 20 /\ o[8] = 24
      /\ \A i \in 1 .. 8 : i \in 1 .. l
  <2>1. \A i \in 1 .. 7 : i \in 1 .. l - 1
    BY <1>1 DEF l
  <2>2. 1 \in 1 .. 7 /\ 2 \in 1 .. 7 /\ 3 \in 1 .. 7 /\ 4 \in 1 .. 7 /\ 5 \in 1 .. 7 /\ 6 \in 1 .. 7 /\ 7 \in 1 .. 7
    OBVIOUS
  <2>3. o[1] = 0 /\ \A i \in 1 .. 7 : o[i + 1] = o[i] + f[i].bytes
    <3>1. l > 0
      BY <1>1, <2>1, <2>2
    <3> QED
      BY <1>1, <2>1, <3>1, Zenon
  <2>4. o[2] = 4
    BY <1>5, <2>2, <2>3
  <2>5. o[3] = 6
    BY <1>5, <2>2, <2>3, <2>4
  <2>6. o[4] = 8
    BY <1>5, <2>2, <2>3, <2>5
  <2>7. o[5] = 12
    BY <1>5, <2>2, <2>3, <2>6
  <2>8. o[6] = 16
    BY <1>5, <2>2, <2>3, <2>7
  <2>9. o[7] = 20
    BY <1>5, <2>2, <2>3, <2>8
  <2>10. o[8] = 24
    BY <1>8, <2>2, <2>3, <2>9
  <2>11. \A i \in 1 .. 8 : i \in 1 .. l
    BY <1>1 DEF l
  <2> QED
    BY <2>4, <2>5, <2>6, <2>7, <2>8, <2>9, <2>10, <2>11
<1>10. ReadAt(f, 12) = head.globals /\ ReadAt(f, 16) = head.main /\ ReadAt(f, 20) = n
  <2>1. 5 \in 1 .. l /\ 6 \in 1 .. l /\ 7 \in 1 .. l
    BY <1>9
  <2>2. ReadAt(f, o[5]) = f[5].value /\ ReadAt(f, o[6]) = f[6].value /\ ReadAt(f, o[7]) = f[7].value
    BY <2>1, ReadsField DEF o, l
  <2> QED
    BY <1>8, <1>9, <2>2
<1>11. \A i \in 0 .. n : o[8 + i] = 24 + 32 * i
  <2>1. \A i \in 0 .. n - 1 : f[8 + i].bytes = 32
    <3> SUFFICES ASSUME NEW i \in 0 .. n - 1  PROVE f[8 + i].bytes = 32
      OBVIOUS
    <3>1. PICK k : k = i + 1
      OBVIOUS
    <3>2. k \in 1 .. n /\ 7 + k = 8 + i
      BY <3>1
    <3> QED
      BY <1>8, <3>2 DEF INSTR_LEN
  <2>2. \A i \in 0 .. n : o[8 + i] = o[8] + 32 * i
    <3>1. 8 \in Nat \ {0} /\ 32 \in {4, 32}
      OBVIOUS
    <3>2. Even(f, 8, n, 32)
      BY <2>1, <3>1, EvenFields, Zenon
    <3> QED
      BY <3>2, Zenon DEF Even, o
  <2> QED
    BY <1>9, <2>2
<1>12. ASSUME NEW i \in 1 .. n  PROVE ReadAt(f, CodeAt + INSTR_LEN * (i - 1)) = code[i]
  <2>1. PICK k, j : k = i - 1 /\ j = 7 + i
    OBVIOUS
  <2>2. k \in 0 .. n /\ 8 + k = j /\ j \in 1 .. l
    BY <1>1, <2>1 DEF l
  <2>3. o[j] = CodeAt + INSTR_LEN * (i - 1)
    BY <1>11, <2>1, <2>2 DEF CodeAt, INSTR_LEN
  <2>4. ReadAt(f, o[j]) = f[j].value
    BY <2>2, ReadsField DEF o, l
  <2> QED
    BY <1>8, <2>1, <2>3, <2>4
<1>13. StringsAt(f) = o[8 + n]
  <2>1. n \in 0 .. n
    OBVIOUS
  <2> QED
    BY <1>10, <1>11, <2>1 DEF StringsAt, CodeAt, INSTR_LEN
<1> QED
  BY <1>10, <1>12, <1>13 DEF o, FindsCode

\* ... the functions after the strings ...
FindsFuncs(f, byte, funcs, m) ==
  /\ byte \in Nat /\ ReadAt(f, byte) = m
  /\ \A j \in 1 .. m : /\ ReadAt(f, byte + 8 * j - 4) = funcs[j].entry
                       /\ ReadAt(f, byte + 8 * j) = funcs[j].size

FindsFuncsUpTo(f, byte, funcs, m, e) ==
  FindsFuncs(f, byte, funcs, m) /\ StartOf(f)[e] = byte + 4 + 8 * m

LEMMA FuncsRead ==
  ASSUME NEW f, IsFile(f), NEW funcs \in Seq(FuncNodes), NEW m, m = Len(funcs),
         NEW b \in Nat, NEW c, c = b + 1, NEW e, e = b + 2 + 2 * m, e <= Len(f),
         Part(f, b, FuncFields(funcs)), NEW byte, byte = StartOf(f)[c]
  PROVE  FindsFuncsUpTo(f, byte, funcs, m, e)
<1> DEFINE u == FuncFields(funcs)
           o == StartOf(f)
<1>1. /\ m \in Nat /\ Len(u) = 1 + 2 * m /\ u[1] = Field(4, m)
      /\ \A i \in 1 .. 1 + 2 * m : u[i].bytes = 4
      /\ \A j \in 1 .. m : u[2 * j] = Field(4, funcs[j].entry) /\ u[1 + 2 * j] = Field(4, funcs[j].size)
  <2>1. m \in Nat
    OBVIOUS
  <2> QED
    BY <2>1, FuncsPart, Zenon
<1>2. \A i \in 1 .. 1 + 2 * m : f[b + i] = u[i]
  BY <1>1 DEF Part
<1>3. /\ u[1].value = m
      /\ \A j \in 1 .. m : u[2 * j].value = funcs[j].entry /\ u[1 + 2 * j].value = funcs[j].size
  <2>1. ASSUME NEW j \in 1 .. m  PROVE u[2 * j].value = funcs[j].entry /\ u[1 + 2 * j].value = funcs[j].size
    <3>1. u[2 * j] = Field(4, funcs[j].entry) /\ u[1 + 2 * j] = Field(4, funcs[j].size)
      BY <1>1, Zenon
    <3> HIDE DEF u
    <3>2. u[2 * j].value = funcs[j].entry
      BY <3>1, FieldIs, Zenon
    <3>3. u[1 + 2 * j].value = funcs[j].size
      BY <3>1, FieldIs, Zenon
    <3> QED
      BY <3>2, <3>3
  <2>2. u[1].value = m
    <3>1. u[1] = Field(4, m)
      BY <1>1, Zenon
    <3> HIDE DEF u
    <3> QED
      BY <3>1, FieldIs
  <2> QED
    BY <2>1, <2>2, Zenon
<1> HIDE DEF u, o
<1>4. PICK l, w : l = Len(f) /\ w = 1 + 2 * m
  OBVIOUS
<1>5. l \in Nat /\ w \in Nat /\ c \in Nat \ {0} /\ c + w = e /\ c + w <= l /\ 1 \in 1 .. w
  BY <1>1, <1>4 DEF IsFile
<1>6. o[c] \in Nat /\ \A i \in 0 .. w : o[c + i] = o[c] + 4 * i
  <2>1. ASSUME NEW i \in 0 .. w - 1  PROVE f[c + i].bytes = 4
    <3>1. PICK k : k = i + 1
      OBVIOUS
    <3>2. k \in 1 .. w /\ b + k = c + i
      BY <1>5, <3>1
    <3>3. f[b + k] = u[k] /\ u[k].bytes = 4
      BY <1>1, <1>2, <1>4, <3>2, Zenon
    <3> QED
      BY <3>2, <3>3, Zenon
  <2>2. 4 \in {4, 32} /\ c + w <= Len(f)
    BY <1>4, <1>5
  <2>3. Even(f, c, w, 4)
    BY <1>5, <2>1, <2>2, EvenFields, Zenon
  <2> QED
    BY <2>3, Zenon DEF Even, o
<1>7. ASSUME NEW i \in 1 .. w  PROVE ReadAt(f, byte + 4 * (i - 1)) = u[i].value
  <2>1. PICK k, j : k = i - 1 /\ j = b + i
    OBVIOUS
  <2>2. k \in 0 .. w /\ c + k = j /\ j \in 1 .. l
    BY <1>5, <2>1
  <2>3. o[j] = byte + 4 * (i - 1)
    BY <1>6, <2>1, <2>2 DEF o
  <2>4. ReadAt(f, o[j]) = f[j].value
    BY <1>4, <2>2, ReadsField DEF o
  <2> QED
    BY <1>2, <1>4, <2>1, <2>3, <2>4
<1>8. byte \in Nat /\ byte = o[c]
  BY <1>6 DEF o
<1>9. ReadAt(f, byte) = m
  <2>1. byte + 4 * (1 - 1) = byte
    BY <1>8
  <2> QED
    BY <1>3, <1>5, <1>7, <2>1
<1>10. ASSUME NEW j \in 1 .. m
       PROVE  ReadAt(f, byte + 8 * j - 4) = funcs[j].entry /\ ReadAt(f, byte + 8 * j) = funcs[j].size
  <2>1. PICK p, q : p = 2 * j /\ q = 1 + 2 * j
    OBVIOUS
  <2>2. p \in 1 .. w /\ q \in 1 .. w /\ byte + 4 * (p - 1) = byte + 8 * j - 4 /\ byte + 4 * (q - 1) = byte + 8 * j
    BY <1>1, <1>4, <1>8, <2>1
  <2>3. ReadAt(f, byte + 4 * (p - 1)) = u[p].value /\ ReadAt(f, byte + 4 * (q - 1)) = u[q].value
    BY <1>7, <2>2
  <2> QED
    BY <1>3, <2>1, <2>2, <2>3
<1>11. o[e] = byte + 4 + 8 * m
  <2>1. w \in 0 .. w /\ c + w = e
    BY <1>5
  <2>2. o[e] = o[c] + 4 * w
    BY <1>6, <2>1
  <2> QED
    BY <1>1, <1>4, <1>8, <2>2
<1> QED
  BY <1>8, <1>9, <1>10, <1>11 DEF o, FindsFuncs, FindsFuncsUpTo

\* A table of strings ends where the next part begins.
EndsAt(f, byte, e, list, n) ==
  TextTable(f, byte).end = StartOf(f)[e] /\ StartOf(f)[e] = byte + 4 + Offsets(list)[n + 1]

LEMMA TableEnds ==
  ASSUME NEW f, IsFile(f), NEW b, NEW list, Listed(f, b, list), NEW byte, byte = StartOf(f)[b],
         NEW n, n = Len(list), NEW e, e = b + 2 * n + 1, b + 2 * n < Len(f)
  PROVE  EndsAt(f, byte, e, list, n)
<1>1. TextTable(f, byte).end = byte + 4 + Offsets(list)[n + 1]
  BY TextsRead
<1>2. StartOf(f)[b + 2 * n + 1] = StartOf(f)[b] + 4 + Offsets(list)[n + 1]
  BY ListPlaced
<1> QED
  BY <1>1, <1>2, Zenon DEF EndsAt

LEMMA TableFound ==
  ASSUME NEW f, IsFile(f), NEW b, NEW list, Listed(f, b, list), NEW byte, byte = StartOf(f)[b]
  PROVE  FindsTexts(f, byte, list)
BY TextsRead

\* The numbers of instructions, strings, functions and kernel calls.
Counted(code, t, n, k, m, a) ==
  /\ n = Len(code) /\ k = Len(t.strings) /\ m = Len(t.funcs) /\ a = Len(t.apis)
  /\ DOMAIN code = 1 .. Len(code) /\ \A i \in 1 .. Len(code) : InstrBytes(code[i]) = INSTR_LEN

\* What the kernel reads where the compiler has written.
Found(f, head, code, t, n, m) ==
  /\ FindsCode(f, head, code, n)
  /\ FindsTexts(f, StringsAt(f), t.strings)
  /\ FindsFuncs(f, FuncsAt(f), t.funcs, m)
  /\ FindsTexts(f, ApisAt(f), t.apis)
  /\ FuncsAt(f) - StringsAt(f) - 4 \in Nat

LEMMA PartsFound ==
  ASSUME NEW head, NEW code, NEW t \in Tables, NEW f, NEW n, NEW k, NEW m, NEW a,
         Parts(f, head, code, t, n, k, m, a), Counted(code, t, n, k, m, a)
  PROVE  Found(f, head, code, t, n, m)
<1>3. t.strings \in Seq(Texts) /\ t.apis \in Seq(Texts) /\ t.funcs \in Seq(FuncNodes)
  BY DEF Tables
<1>4. PICK s, u, p, s1, u1, p1, l :
        /\ s = 7 + n /\ u = 8 + n + 2 * k /\ p = 9 + n + 2 * k + 2 * m
        /\ s1 = 8 + n /\ u1 = 9 + n + 2 * k /\ p1 = 10 + n + 2 * k + 2 * m /\ l = Len(f)
  BY Zenon
<1>0. n \in Nat /\ k \in Nat /\ m \in Nat /\ a \in Nat /\ l = 10 + n + 2 * k + 2 * m + 2 * a
  BY <1>4, Zenon DEF Parts
<1>5. /\ IsFile(f)
      /\ Part(f, 0, HeaderFields(head)) /\ Part(f, 6, CodeFields(code))
      /\ Part(f, s, StringFields(t.strings)) /\ Part(f, u, FuncFields(t.funcs))
      /\ Part(f, p, StringFields(t.apis))
  BY <1>4, Zenon DEF Parts
<1>6. /\ s \in Nat /\ u \in Nat /\ p \in Nat /\ s1 = s + 1 /\ u1 = u + 1 /\ p1 = p + 1
      /\ s1 <= l /\ s1 + 2 * k < l /\ u1 = s1 + 2 * k + 1 /\ p1 = u + 2 + 2 * m /\ p1 <= l
      /\ s1 \in 1 .. l
  BY <1>0, <1>4
<1>7. Listed(f, s1, t.strings) /\ Listed(f, p1, t.apis)
  BY <1>3, <1>5, <1>6, PartListed, Zenon
<1>8. FindsCode(f, head, code, n) /\ StringsAt(f) = StartOf(f)[8 + n]
  <2>1. 8 + n <= Len(f)
    BY <1>4, <1>6, Zenon
  <2> QED
    BY <1>0, <1>5, <2>1, CodeRead, Zenon DEF Counted
<1>9. StringsAt(f) = StartOf(f)[s1]
  BY <1>4, <1>8, Zenon
<1>10. FindsTexts(f, StringsAt(f), t.strings)
  BY <1>5, <1>7, <1>9, TableFound, Zenon
<1>11. EndsAt(f, StringsAt(f), u1, t.strings, k)
  <2>1. s1 + 2 * k < Len(f)
    BY <1>4, <1>6, Zenon
  <2>2. k = Len(t.strings) /\ u1 = s1 + 2 * k + 1
    BY <1>6, Zenon DEF Counted
  <2> QED
    BY <1>5, <1>7, <1>9, <2>1, <2>2, TableEnds, Zenon
<1>12. FuncsAt(f) = StartOf(f)[u1] /\ FuncsAt(f) = StringsAt(f) + 4 + Offsets(t.strings)[k + 1]
  BY <1>11, Zenon DEF FuncsAt, EndsAt
<1>13. FindsFuncs(f, FuncsAt(f), t.funcs, m) /\ StartOf(f)[p1] = FuncsAt(f) + 4 + 8 * m
  <2>1. p1 <= Len(f) /\ m = Len(t.funcs)
    BY <1>4, <1>6, Zenon DEF Counted
  <2>2. p1 = u + 2 + 2 * m /\ u1 = u + 1
    BY <1>6, Zenon
  <2>3. FindsFuncsUpTo(f, FuncsAt(f), t.funcs, m, p1)
    BY <1>3, <1>5, <1>6, <1>12, <2>1, <2>2, FuncsRead, Zenon
  <2> QED
    BY <2>3, Zenon DEF FindsFuncsUpTo
<1>14. ApisAt(f) = StartOf(f)[p1]
  BY <1>13, Zenon DEF ApisAt, FindsFuncs
<1>15. FindsTexts(f, ApisAt(f), t.apis)
  BY <1>5, <1>7, <1>14, TableFound, Zenon
<1>16. FuncsAt(f) - StringsAt(f) - 4 \in Nat
  <2>1. PICK x, y, z : x = FuncsAt(f) /\ y = StringsAt(f) /\ z = Offsets(t.strings)[k + 1]
    BY Zenon
  <2>2. z \in Nat
    <3>1. k + 1 \in 1 .. k + 1
      BY <1>0
    <3>2. Offsets(t.strings) \in [1 .. k + 1 -> Nat]
      BY <1>3, OffsetsAre, Zenon DEF Counted
    <3> QED
      BY <2>1, <3>1, <3>2, Zenon
  <2>3. y \in Nat
    <3>1. StartOf(f) \in [1 .. l -> Nat]
      BY <1>4, <1>5, StartsAre, Zenon
    <3> QED
      BY <1>6, <1>9, <2>1, <3>1, Zenon
  <2>4. x = y + 4 + z
    BY <1>12, <2>1, Zenon
  <2>5. x - y - 4 \in Nat
    BY <2>2, <2>3, <2>4
  <2> QED
    BY <2>1, <2>5, Zenon
<1> QED
  BY <1>8, <1>10, <1>13, <1>15, <1>16, Zenon DEF Found

LEMMA FileRead ==
  ASSUME NEW head, NEW code, NEW t \in Tables,
         Len(code) \in Nat, DOMAIN code = 1 .. Len(code),
         \A i \in 1 .. Len(code) : InstrBytes(code[i]) = INSTR_LEN
  PROVE  Found(FileOf(head, code, t), head, code, t, Len(code), Len(t.funcs))
<1>1. Parts(FileOf(head, code, t), head, code, t, Len(code), Len(t.strings), Len(t.funcs), Len(t.apis))
  BY FileParts, Zenon
<1>2. Counted(code, t, Len(code), Len(t.strings), Len(t.funcs), Len(t.apis))
  BY Zenon DEF Counted
<1> QED
  BY <1>1, <1>2, PartsFound, Zenon
-----------------------------------------------------------------------------
(* The places of strings *)

\* A text of a table, and where it is in memory.
PlacedAt(list, v, text) == \E j \in 1 .. Len(list) : list[j] = text /\ v = Offsets(list)[j]

\* A string that is added moves no other.
LEMMA OffsetsStay ==
  ASSUME NEW list \in Seq(Texts), NEW s \in Texts, NEW j \in 1 .. Len(list) + 1
  PROVE  Offsets(Append(list, s))[j] = Offsets(list)[j]
<1> DEFINE n == Len(list)
           new == Append(list, s)
           o == Offsets(list)
           p == Offsets(new)
           T == {i \in 1 .. n + 1 : p[i] = o[i]}
<1>1. new \in Seq(Texts) /\ Len(new) = n + 1 /\ n \in Nat /\ \A i \in 1 .. n : new[i] = list[i]
  OBVIOUS
<1>2. o[1] = 0 /\ \A i \in 1 .. n : o[i + 1] = o[i] + Bytes[list[i]] + 4
  BY OffsetsAre
<1>3. p[1] = 0 /\ \A i \in 1 .. n + 1 : p[i + 1] = p[i] + Bytes[new[i]] + 4
  BY <1>1, OffsetsAre
<1> HIDE DEF n, new, o, p
<1>4. n + 1 > 0 => 1 \in T
  BY <1>1, <1>2, <1>3
<1>5. \A i \in 1 .. (n + 1) - 1 : i \in T => i + 1 \in T
  <2> SUFFICES ASSUME NEW i \in 1 .. n, p[i] = o[i]  PROVE p[i + 1] = o[i + 1] /\ i + 1 \in 1 .. n + 1
    BY <1>1
  <2> QED
    BY <1>1, <1>2, <1>3, SMTT(30)
<1>6. T \in SUBSET (1 .. n + 1) /\ n + 1 \in Nat
  BY <1>1
<1> HIDE DEF T
<1>7. T = 1 .. n + 1
  BY <1>4, <1>5, <1>6, Inductively
<1> QED
  BY <1>7 DEF T, n, p, o, new

\* AddString: the string is in the table, at the place that is returned, and the
\* others are where they were.
LEMMA StringAdded ==
  ASSUME NEW list \in Seq(Texts), NEW s \in Texts
  PROVE  /\ PlacedAt(WithString(list, s), StringOffset(list, s), s)
         /\ \A v, text : PlacedAt(list, v, text) => PlacedAt(WithString(list, s), v, text)
<1> DEFINE P == Positions(list, s)
           new == Append(list, s)
<1>1. P \subseteq 1 .. Len(list) /\ Len(list) \in Nat /\ \A i \in P : list[i] = s
  BY DEF Positions
<1>2. CASE P # {}
  <2>1. FirstOf(P) \in P
    BY <1>1, <1>2, FirstOfIsLeast
  <2>2. WithString(list, s) = list /\ StringOffset(list, s) = Offsets(list)[FirstOf(P)]
    BY <1>2 DEF WithString, StringOffset
  <2> QED
    BY <1>1, <2>1, <2>2 DEF PlacedAt
<1>3. CASE P = {}
  <2>1. WithString(list, s) = new /\ StringOffset(list, s) = Offsets(list)[Len(list) + 1]
    BY <1>3 DEF WithString, StringOffset
  <2>2. /\ Len(new) = Len(list) + 1 /\ new[Len(list) + 1] = s
        /\ \A i \in 1 .. Len(list) : new[i] = list[i]
    OBVIOUS
  <2>3. \A i \in 1 .. Len(list) + 1 : Offsets(new)[i] = Offsets(list)[i]
    BY OffsetsStay
  <2> HIDE DEF new, P
  <2>4. PlacedAt(new, StringOffset(list, s), s)
    <3>1. Len(list) + 1 \in 1 .. Len(new)
      BY <1>1, <2>2
    <3> QED
      BY <2>1, <2>2, <2>3, <3>1 DEF PlacedAt
  <2>5. \A v, text : PlacedAt(list, v, text) => PlacedAt(new, v, text)
    <3> SUFFICES ASSUME NEW v, NEW text, NEW i \in 1 .. Len(list), list[i] = text, v = Offsets(list)[i]
                 PROVE  PlacedAt(new, v, text)
      BY DEF PlacedAt
    <3>1. i \in 1 .. Len(new) /\ i \in 1 .. Len(list) + 1
      BY <1>1, <2>2
    <3> QED
      BY <2>2, <2>3, <3>1 DEF PlacedAt
  <2> QED
    BY <2>1, <2>4, <2>5
<1> QED
  BY <1>2, <1>3
-----------------------------------------------------------------------------
(* What the file will be made from *)

\* An operand of the kinds that the table of instructions asks for.
OperandFits(kinds, o) ==
  /\ "MEM_REF" \in kinds => o \in Computer!Operands
  /\ "LINE_LABEL" \in kinds => o \in Computer!Operands /\ o.type = "INSTR_INDEX"
  /\ "FUNC_NAME" \in kinds => o.type = "FUNC_INDEX" /\ o.value + 1 \in 1 .. Len(tables.funcs)
  /\ "CORE_API_CALL" \in kinds => o.type = "HOST_API_CALL_INDEX"

Shaped(I) ==
  /\ I.op \in Mnemonics /\ DOMAIN I.args = 1 .. Len(InstrTable[I.op])
  /\ Len(I.args) = Len(InstrTable[I.op])
  /\ \A k \in DOMAIN I.args : OperandFits(InstrTable[I.op][k], I.args[k])

\* The name of a kernel call, and the instruction at the end of a function.
LineShaped(l, I) ==
  /\ Shaped(I)
  /\ TypeAt(l, 1) = "INSTR" /\ source[l][1].lexeme = "CALLCORE" =>
       I.op = "CALLCORE" /\ PlacedAt(tables.apis, I.args[1].value, LastName(l))
  /\ TypeAt(l, 1) = "CLOSE_BRACE" =>
       I.op = IF tables.funcs[FuncOf(l) + 1].name = MAIN_FUNC_NAME THEN "QUIT" ELSE "RET"

Writes(l) == TypeAt(l, 1) \in {"INSTR", "CLOSE_BRACE"}

StringTold(d) ==
  TypeAt(d, 1) = "STRING_DEF" /\ TypeAt(d, 4) = "STRING" =>
    PlacedAt(tables.strings, SymbolOf(d).value, source[d][4].lexeme)

StringsTold(n) == \A d \in 1 .. n - 1 : StringTold(d)

\* A function that has ended has a size.
SizesTold(n) == \A i \in 1 .. Before(n, "CLOSE_BRACE") : tables.funcs[i].size \in Nat

MainTold ==
  \A i \in 1 .. Len(tables.funcs) : tables.funcs[i].name = MAIN_FUNC_NAME => header.main + 1 = i

FileInv ==
  /\ phase = "first" => StringsTold(line) /\ SizesTold(line) /\ MainTold
  /\ phase \in {"second", "build"} =>
       /\ StringsTold(Len(source) + 1) /\ SizesTold(Len(source) + 1) /\ MainTold
       /\ \A l \in 1 .. line - 1 : Writes(l) => LineShaped(l, WrittenFor(l))
       /\ \A j \in 1 .. Len(stream) : \E l \in 1 .. line - 1 : Writes(l) /\ Slot(l) + 1 = j

AllInv == PassInv /\ RestTyped /\ TablesInv /\ FileInv
-----------------------------------------------------------------------------
(* The first pass *)

LEMMA ExitFiles ==
  /\ \A err : Return(err) => FileInv'
  /\ Abort => FileInv'
  /\ \A err : ExitOnError(err) => FileInv'
  /\ \A err : Refused(err) => FileInv'
<1>1. ASSUME NEW err, Return(err)  PROVE FileInv'
  BY <1>1 DEF Return, FileInv
<1>2. Abort => FileInv'
  BY DEF Abort, FileInv
<1> QED
  BY <1>1, <1>2 DEF ExitOnError, Refused

\* A line of the first pass.
LEMMA FirstFiles ==
  ASSUME WorkTyped, phase = "first", NEW m, Passed(m), StringsTold(line), SymbolsTell(line), SymbolsKept,
         \A v, text : PlacedAt(tables.strings, v, text) => PlacedAt(tables'.strings, v, text),
         NEW c, c = line, StringTold(c)',
         \A i \in 1 .. Before(m + 1, "CLOSE_BRACE") : tables'.funcs[i].size \in Nat,
         MainTold'
  PROVE  FileInv'
<1>1. /\ source' = source /\ phase' = "first"
      /\ \A d \in 1 .. m : d \in 1 .. line - 1 \/ d = line \/ TypeAt(d, 1) \in Skipped
      /\ line' - 1 = m /\ line' = m + 1 /\ line \in Nat
  BY LinesPassed DEF Passed
<1>2. \A d, i : TypeAt(d, i)' = TypeAt(d, i)
  BY <1>1, SamePlaces
<1>3. ASSUME NEW d \in 1 .. m  PROVE StringTold(d)'
  <2>1. CASE d \in 1 .. line - 1 /\ TypeAt(d, 1) = "STRING_DEF"
    <3>1. SymbolOf(d)' = SymbolOf(d)
      BY <1>1, <2>1, SymbolKept DEF Declares
    <3>2. StringTold(d)
      BY <2>1 DEF StringsTold
    <3> QED
      BY <1>1, <1>2, <3>1, <3>2 DEF StringTold
  <2>2. CASE d = line
    BY <2>2
  <2>3. CASE TypeAt(d, 1) # "STRING_DEF"
    BY <1>2, <2>3 DEF StringTold
  <2> QED
    BY <1>1, <2>1, <2>2, <2>3 DEF Skipped
<1>4. StringsTold(line)'
  BY <1>1, <1>3 DEF StringsTold
<1>5. SizesTold(line)'
  <2>1. Before(line, "CLOSE_BRACE")' = Before(m + 1, "CLOSE_BRACE")
    BY <1>1, SamePlaces
  <2> QED
    BY <2>1 DEF SizesTold
<1> QED
  BY <1>1, <1>4, <1>5 DEF FileInv

\* One that neither begins nor ends a function.
LEMMA PlainFiles ==
  ASSUME AllInv, NEW type, type \notin {"FUNC", "CLOSE_BRACE"}, Reads("first", type), Passes("NO_ERR"),
         SkipToNextLine(line), scope'.active = scope.active, DOMAIN scope' = {"active", "func", "size"},
         tables'.funcs = tables.funcs, header'.main = header.main, SymbolsKept,
         \A v, text : PlacedAt(tables.strings, v, text) => PlacedAt(tables'.strings, v, text),
         type = "STRING_DEF" => \A c : c = line => StringTold(c)'
  PROVE  FileInv'
<1>1. Passed(line) /\ TypeAt(line, 1) = type /\ phase = "first" /\ WorkTyped
  BY OneLine DEF AllInv
<1>2. StringsTold(line) /\ SizesTold(line) /\ MainTold /\ SymbolsTell(line)
  BY <1>1 DEF AllInv, FileInv, TablesInv, Tells
<1>3. Before(line + 1, "CLOSE_BRACE") = Before(line, "CLOSE_BRACE")
  BY <1>1, PassedCounts DEF Skipped
<1>4. PICK c : c = line
  OBVIOUS
<1>5. StringTold(c)'
  <2>1. TypeAt(c, 1)' = type
    BY <1>1, <1>4, SamePlaces DEF Passed
  <2> QED
    BY <1>4, <2>1 DEF StringTold
<1>6. MainTold'
  BY <1>2 DEF MainTold
<1>7. \A i \in 1 .. Before(line + 1, "CLOSE_BRACE") : tables'.funcs[i].size \in Nat
  BY <1>2, <1>3 DEF SizesTold
<1> QED
  BY <1>1, <1>2, <1>4, <1>5, <1>6, <1>7, FirstFiles

\* One that declares nothing either.
LEMMA QuietFiles ==
  ASSUME AllInv, NEW type, type \notin {"FUNC", "CLOSE_BRACE", "STRING_DEF"}, Reads("first", type),
         Passes("NO_ERR"), SkipToNextLine(line), UNCHANGED scope,
         tables'.funcs = tables.funcs, header'.main = header.main,
         tables'.symbols = tables.symbols, tables'.strings = tables.strings
  PROVE  FileInv'
<1>1. SymbolsKept
  BY TablesAre DEF SymbolsKept, AllInv, TablesTyped
<1>2. scope'.active = scope.active /\ DOMAIN scope' = {"active", "func", "size"}
  BY DEF AllInv, PassInv, WorkTyped
<1> QED
  BY <1>1, <1>2, PlainFiles

LEMMA SetStackSizeFiles == AllInv /\ SetStackSize => FileInv'
<1> SUFFICES ASSUME AllInv, SetStackSize  PROVE FileInv'
  OBVIOUS
<1>1. CASE Refused(SetStackSizeError)
  BY <1>1, ExitFiles
<1>2. CASE /\ Passes(SetStackSizeError) /\ SkipToNextLine(line)
           /\ header' = [header EXCEPT !.stack = Lexeme(2), !.found = TRUE]
           /\ UNCHANGED <<scope, tables>>
  <2>1. Passes("NO_ERR") /\ Reads("first", "SETSTACKSIZE")
    BY <1>2 DEF Passes, SetStackSize
  <2>2. header'.main = header.main
    BY <1>2 DEF AllInv, RestTyped, Headers
  <2> QED
    BY <1>2, <2>1, <2>2, QuietFiles
<1> QED
  BY <1>1, <1>2 DEF SetStackSize

LEMMA CountInstrFiles == AllInv /\ CountInstr => FileInv'
<1> SUFFICES ASSUME AllInv, CountInstr  PROVE FileInv'
  OBVIOUS
<1>1. CASE Refused(CountInstrError)
  BY <1>1, ExitFiles
<1>2. CASE Passes(CountInstrError) /\ SkipToNextLine(line) /\ UNCHANGED <<scope, header, tables>>
  <2>1. Passes("NO_ERR") /\ Reads("first", "INSTR")
    BY <1>2 DEF Passes, CountInstr
  <2> QED
    BY <1>2, <2>1, QuietFiles
<1> QED
  BY <1>1, <1>2 DEF CountInstr

LEMMA DefineLabelFiles == AllInv /\ DefineLabel => FileInv'
<1> SUFFICES ASSUME AllInv, DefineLabel  PROVE FileInv'
  OBVIOUS
<1>1. CASE Refused(DefineLabelError)
  BY <1>1, ExitFiles
<1>2. CASE /\ Passes(DefineLabelError) /\ SkipToNextLine(line) /\ UNCHANGED <<scope, header>>
           /\ tables' = AddLabel(tables, Lexeme(1), LabelTarget, scope.func)
  <2>1. Passes("NO_ERR") /\ Reads("first", "IDENT")
    BY <1>2 DEF Passes, DefineLabel
  <2>2. /\ tables'.funcs = tables.funcs /\ tables'.symbols = tables.symbols
        /\ tables'.strings = tables.strings
    BY <1>2, TablesAre DEF AddLabel, AllInv
  <2> QED
    BY <1>2, <2>1, <2>2, QuietFiles
<1> QED
  BY <1>1, <1>2 DEF DefineLabel

LEMMA SkipBlankFiles == AllInv /\ SkipBlank => FileInv'
<1> SUFFICES ASSUME AllInv, SkipBlank  PROVE FileInv'
  OBVIOUS
<1>1. Passes("NO_ERR") /\ Reads("first", "NEWLINE") /\ SkipToNextLine(line)
      /\ UNCHANGED <<scope, header, tables>>
  BY DEF SkipBlank, Passes
<1> QED
  BY <1>1, QuietFiles

\* The node of a declaration is the last one.
LEMMA SymbolAppended ==
  ASSUME PassInv, TablesTyped, phase = "first", SymbolsTell(line), Declares(line), source' = source,
         NEW node, tables'.symbols = Append(tables.symbols, node), NEW c, c = line
  PROVE  SymbolsKept /\ SymbolOf(c)' = node
<1>1. /\ tables.symbols \in Seq(SymbolNodes) /\ line \in Nat
  BY DEF TablesTyped, PassInv, WorkTyped
<1>2. /\ Len(tables.symbols) \in Nat /\ Len(tables'.symbols) = Len(tables.symbols) + 1
      /\ tables'.symbols[Len(tables.symbols) + 1] = node
      /\ \A i \in 1 .. Len(tables.symbols) : tables'.symbols[i] = tables.symbols[i]
  BY <1>1
<1>3. Before(c, "INT_DEF")' + Before(c, "STRING_DEF")' + 1 = Len(tables.symbols) + 1
  BY SamePlaces DEF SymbolsTell
<1> QED
  BY <1>2, <1>3 DEF SymbolsKept, SymbolOf

LEMMA DefineIntFiles == AllInv /\ DefineInt => FileInv'
<1> SUFFICES ASSUME AllInv, DefineInt  PROVE FileInv'
  OBVIOUS
<1>1. CASE Refused(DefineIntError)
  BY <1>1, ExitFiles
<1>2. CASE Passes(DefineIntError) /\ ~Refused(DefineIntError)
  <2> DEFINE size == IF IsArray THEN 4 * Lexeme(4) ELSE 4
  <2>1. PICK node : tables' = AddSymbol(tables, node)
    BY <1>2, Zenon DEF DefineInt
  <2>2. /\ scope' = [scope EXCEPT !.size = IF scope.active THEN @ + size ELSE @]
        /\ header' = [header EXCEPT !.globals = IF scope.active THEN @ ELSE @ + size]
        /\ Reads("first", "INT_DEF") /\ SkipToNextLine(line) /\ Passes("NO_ERR")
    BY <1>2, Zenon DEF DefineInt, Passes
  <2> HIDE DEF size
  <2>3. /\ tables'.funcs = tables.funcs /\ tables'.strings = tables.strings
        /\ tables'.symbols = Append(tables.symbols, node)
    BY <2>1, TablesAre DEF AddSymbol, AllInv
  <2>4. /\ scope'.active = scope.active /\ DOMAIN scope' = {"active", "func", "size"}
        /\ header'.main = header.main
    BY <2>2 DEF AllInv, PassInv, WorkTyped, RestTyped, Headers
  <2>5. SymbolsKept
    <3>1. phase = "first" /\ Declares(line) /\ source' = source
      BY <2>2 DEF Reads, Declares, Type, Passes
    <3> QED
      BY <2>3, <3>1, SymbolAppended, TablesAre DEF AllInv, TablesInv, Tells
  <2> QED
    BY <2>2, <2>3, <2>4, <2>5, PlainFiles
<1> QED
  BY <1>1, <1>2 DEF DefineInt

LEMMA DefineStringFiles == AllInv /\ DefineString => FileInv'
<1> SUFFICES ASSUME AllInv, DefineString  PROVE FileInv'
  OBVIOUS
<1>1. CASE Refused(DefineStringError)
  BY <1>1, ExitFiles
<1>2. CASE Passes(DefineStringError) /\ ~Refused(DefineStringError)
  <2> DEFINE known == IF Type(4) = "STRING"
                      THEN [tables EXCEPT !.strings = WithString(@, Lexeme(4))]
                      ELSE tables
             node(v) == [name |-> Lexeme(2), type |-> "STRING_REF", value |-> v, isArr |-> FALSE,
                         size |-> 4, index |-> header.globals, func |-> scope.func]
  <2>1. PICK v \in IF Type(4) = "STRING" THEN {StringOffset(tables.strings, Lexeme(4))} ELSE Junk :
             tables' = AddSymbol(known, node(v))
    BY <1>2, Zenon DEF DefineString
  <2>2. /\ header' = [header EXCEPT !.globals = @ + 4] /\ SkipToNextLine(line)
        /\ scope' = scope /\ Reads("first", "STRING_DEF") /\ Passes("NO_ERR")
    BY <1>2, Zenon DEF DefineString, Passes
  <2>3. /\ known.funcs = tables.funcs /\ known.symbols = tables.symbols
        /\ known.strings = IF Type(4) = "STRING" THEN WithString(tables.strings, Lexeme(4)) ELSE tables.strings
        /\ known = [funcs |-> known.funcs, labels |-> known.labels, symbols |-> known.symbols,
                    strings |-> known.strings, apis |-> known.apis]
    BY TablesAre DEF AllInv
  <2>4. node(v).value = v
    OBVIOUS
  <2> HIDE DEF known, node
  <2>5. /\ tables'.symbols = Append(tables.symbols, node(v)) /\ tables'.funcs = tables.funcs
        /\ tables'.strings = IF Type(4) = "STRING" THEN WithString(tables.strings, Lexeme(4)) ELSE tables.strings
    BY <2>1, <2>3 DEF AddSymbol
  <2>6. /\ scope'.active = scope.active /\ DOMAIN scope' = {"active", "func", "size"}
        /\ header'.main = header.main /\ tables.strings \in Seq(Texts) /\ source \in Seq(Lines)
    BY <2>2, TablesAre DEF AllInv, PassInv, WorkTyped, RestTyped, Headers, TablesTyped
  <2>7. Type(4) = "STRING" => Lexeme(4) \in Texts
    BY <2>6, TokenIs DEF Type, Lexeme
  <2>8. phase = "first" /\ Declares(line) /\ source' = source
    BY <2>2 DEF Reads, Declares, Type, Passes
  <2>9. \A w, text : PlacedAt(tables.strings, w, text) => PlacedAt(tables'.strings, w, text)
    BY <2>5, <2>6, <2>7, StringAdded
  <2>10. ASSUME NEW c, c = line  PROVE SymbolsKept /\ StringTold(c)'
    <3>1. SymbolsKept /\ SymbolOf(c)' = node(v)
      BY <2>5, <2>8, <2>10, SymbolAppended, TablesAre DEF AllInv, TablesInv, Tells
    <3>2. ASSUME TypeAt(c, 4) = "STRING"
          PROVE  PlacedAt(tables'.strings, v, source[c][4].lexeme)
      <4>1. Type(4) = "STRING" /\ Lexeme(4) = source[c][4].lexeme
        BY <2>10, <3>2 DEF Type, Lexeme
      <4>2. v = StringOffset(tables.strings, Lexeme(4))
        BY <2>1, <4>1
      <4>3. tables'.strings = WithString(tables.strings, Lexeme(4))
        BY <2>5, <4>1
      <4> QED
        BY <2>6, <2>7, <4>1, <4>2, <4>3, StringAdded
    <3>3. TypeAt(c, 4)' = TypeAt(c, 4)
      BY <2>8, SamePlaces
    <3> QED
      BY <2>4, <2>8, <3>1, <3>2, <3>3 DEF StringTold
  <2>11. SymbolsKept
    BY <2>10
  <2>12. \A c : c = line => StringTold(c)'
    BY <2>10
  <2> QED
    BY <2>2, <2>5, <2>6, <2>9, <2>11, <2>12, PlainFiles
<1> QED
  BY <1>1, <1>2 DEF DefineString

\* The main function is the first, and only, one of its name.
LEMMA BeginFunctionFiles == AllInv /\ BeginFunction => FileInv'
<1> SUFFICES ASSUME AllInv, BeginFunction  PROVE FileInv'
  OBVIOUS
<1>1. CASE Refused(BeginFunctionError)
  BY <1>1, ExitFiles
<1>2. CASE ExitOnError("CHAR_EXPECTED") \/ Abort
  BY <1>2, ExitFiles
<1>3. CASE /\ Passes(BeginFunctionError)
           /\ \E j \in Junk : tables' = AddFunc(tables, Lexeme(2), streamSize, j)
           /\ header' = [header EXCEPT !.main = MainIndex]
           /\ scope' = [active |-> TRUE, func |-> NewIndex(tables.funcs), size |-> 0]
           /\ SkipToNextLine(BraceLine)
  <2>1. /\ Passes("NO_ERR") /\ ~scope.active /\ BraceType = "OPEN_BRACE"
        /\ GetFuncByName(tables, Lexeme(2)) = 0 /\ Reads("first", "FUNC")
    BY <1>3 DEF Passes, BeginFunctionError, BeginFunction
  <2>2. /\ BraceLine \in line .. Len(source)
        /\ \A k \in line + 1 .. BraceLine : TypeAt(k, 1) \in Skipped
    BY <2>1, BeginFunctionPlaced DEF AllInv
  <2>3. TypeAt(line, 1) = "FUNC" /\ phase = "first" /\ line \in DOMAIN source /\ WorkTyped
    BY <2>1 DEF Reads, Type, PassInv, AllInv
  <2>4. PICK m : m = BraceLine
    OBVIOUS
  <2>5. Passed(m)
    BY <1>3, <2>1, <2>2, <2>3, <2>4 DEF Passed, Passes, SkipToNextLine
  <2>6. /\ StringsTold(line) /\ SizesTold(line) /\ MainTold /\ TablesTyped /\ line \in Nat
        /\ FuncsTell(line) /\ SymbolsTell(line)
    BY <2>3, TablesAre DEF AllInv, FileInv, WorkTyped, TablesInv, Tells
  <2>7. PICK j \in Junk : tables' = AddFunc(tables, Lexeme(2), streamSize, j)
    BY <1>3
  <2> DEFINE node == [name |-> Lexeme(2), entry |-> streamSize, size |-> j]
             n == Len(tables.funcs)
  <2>8. /\ tables'.funcs = Append(tables.funcs, node)
        /\ tables'.strings = tables.strings /\ tables'.symbols = tables.symbols
    BY <2>7, TablesAre DEF AddFunc, AllInv
  <2>9. node.name = Lexeme(2)
    OBVIOUS
  <2> HIDE DEF node
  <2>10. /\ n \in Nat /\ Len(tables'.funcs) = n + 1 /\ tables'.funcs[n + 1] = node
         /\ \A i \in 1 .. n : tables'.funcs[i] = tables.funcs[i]
         /\ \A i \in 1 .. n : tables.funcs[i].name # Lexeme(2)
    <3>1. tables.funcs \in Seq(FuncNodes)
      BY <2>6 DEF TablesTyped
    <3>2. \A i \in 1 .. n : tables.funcs[i].name # Lexeme(2)
      BY <2>1, <2>6, FuncFound
    <3> QED
      BY <2>8, <3>1, <3>2
  <2>11. header'.main = IF Lexeme(2) = MAIN_FUNC_NAME THEN n ELSE header.main
    BY <1>3 DEF MainIndex, NewIndex, AllInv, RestTyped, Headers
  <2>12. \A i \in 1 .. n : tables.funcs[i].name = MAIN_FUNC_NAME => header.main + 1 = i
    BY <2>6 DEF MainTold
  <2>13. n = Before(line, "FUNC")
    BY <2>6 DEF FuncsTell
  <2> HIDE DEF n
  <2>14. \A i \in 1 .. n + 1 : tables'.funcs[i].name = MAIN_FUNC_NAME => header'.main + 1 = i
    BY <2>9, <2>10, <2>11, <2>12
  <2>15. MainTold'
    BY <2>10, <2>14 DEF MainTold
  <2>16. Before(m + 1, "CLOSE_BRACE") = Before(line, "CLOSE_BRACE")
    BY <2>3, <2>5, PassedCounts DEF Skipped
  <2>17. Before(line, "CLOSE_BRACE") = n
    <3>1. Before(line, "FUNC") = Before(line, "CLOSE_BRACE") + 0 /\ Before(line, "CLOSE_BRACE") \in Nat
      BY <2>1, <2>3, <2>6, BeforeIsNat DEF AllInv, PassInv, FirstCounts
    <3> QED
      BY <2>13, <3>1
  <2>18. \A i \in 1 .. Before(m + 1, "CLOSE_BRACE") : tables'.funcs[i].size \in Nat
    BY <2>6, <2>10, <2>16, <2>17 DEF SizesTold
  <2>19. SymbolsKept
    BY <2>6, <2>8 DEF SymbolsKept, TablesTyped
  <2>20. PICK c : c = line
    OBVIOUS
  <2>21. StringTold(c)'
    <3>1. TypeAt(c, 1)' = "FUNC"
      BY <2>3, <2>5, <2>20, SamePlaces DEF Passed
    <3> QED
      BY <3>1 DEF StringTold
  <2>22. \A v, text : PlacedAt(tables.strings, v, text) => PlacedAt(tables'.strings, v, text)
    BY <2>8
  <2> QED
    BY <2>3, <2>5, <2>6, <2>15, <2>18, <2>19, <2>20, <2>21, <2>22, FirstFiles
<1> QED
  BY <1>1, <1>2, <1>3 DEF BeginFunction

\* The function that ends is the last one, and the only one without a size.
LEMMA EndFunctionFiles == AllInv /\ EndFunction => FileInv'
<1> SUFFICES ASSUME AllInv, EndFunction  PROVE FileInv'
  OBVIOUS
<1>1. CASE Refused(EndFunctionError)
  BY <1>1, ExitFiles
<1>2. CASE /\ Passes(EndFunctionError) /\ SkipToNextLine(line)
           /\ tables' = SetFuncInfo(tables, scope.func + 1, scope.size)
           /\ scope' = [scope EXCEPT !.active = FALSE]
           /\ UNCHANGED header
  <2>1. Passes("NO_ERR") /\ scope.active /\ Reads("first", "CLOSE_BRACE")
    BY <1>2 DEF Passes, EndFunctionError, EndFunction
  <2>2. scope'.active = FALSE /\ DOMAIN scope' = {"active", "func", "size"} /\ scope.size \in Nat
    BY <1>2 DEF AllInv, PassInv, WorkTyped, RestTyped, Scopes
  <2>3. Passed(line) /\ TypeAt(line, 1) = "CLOSE_BRACE" /\ phase = "first" /\ WorkTyped
    BY <1>2, <2>1, <2>2, OneLine DEF AllInv
  <2>4. /\ StringsTold(line) /\ SizesTold(line) /\ MainTold /\ TablesTyped /\ line \in Nat
        /\ FuncsTell(line) /\ SymbolsTell(line) /\ ScopeTells
    BY <2>3, TablesAre DEF AllInv, FileInv, WorkTyped, TablesInv, Tells
  <2>5. /\ Before(line, "CLOSE_BRACE") \in Nat
        /\ Before(line, "FUNC") = Before(line, "CLOSE_BRACE") + 1
        /\ Before(line + 1, "CLOSE_BRACE") = Before(line, "CLOSE_BRACE") + 1
    BY <2>1, <2>3, <2>4, BeforeIsNat, PassedCounts DEF AllInv, PassInv, FirstCounts, Skipped
  <2>6. scope.func = Before(line, "CLOSE_BRACE") /\ scope.func + 1 = Len(tables.funcs)
    BY <2>4, <2>5 DEF ScopeTells, FuncOf, FuncsTell
  <2> DEFINE funcs == [tables.funcs EXCEPT ![scope.func + 1].size = scope.size]
             n == Len(tables.funcs)
  <2>7. tables'.funcs = funcs /\ tables'.strings = tables.strings /\ tables'.symbols = tables.symbols
    BY <1>2, TablesAre DEF SetFuncInfo, AllInv
  <2>8. /\ n \in Nat /\ Len(funcs) = n /\ funcs[n].size = scope.size
        /\ \A i \in 1 .. n : funcs[i].name = tables.funcs[i].name
        /\ \A i \in 1 .. n : i # n => funcs[i] = tables.funcs[i]
    <3>1. /\ tables.funcs \in Seq(FuncNodes) /\ DOMAIN tables.funcs = 1 .. n
          /\ \A i \in 1 .. n : DOMAIN tables.funcs[i] = {"name", "entry", "size"}
      <4>1. /\ tables.funcs \in Seq(FuncNodes) /\ DOMAIN tables.funcs = 1 .. n
            /\ \A i \in 1 .. n : tables.funcs[i] \in FuncNodes
        BY <2>4 DEF TablesTyped
      <4>2. \A f \in FuncNodes : DOMAIN f = {"name", "entry", "size"}
        BY DEF FuncNodes
      <4> QED
        BY <4>1, <4>2
    <3>2. scope.func + 1 \in 1 .. n /\ scope.func + 1 = n
      BY <2>5, <2>6
    <3> QED
      BY <3>1, <3>2
  <2> HIDE DEF funcs
  <2>9. MainTold'
    <3>1. header' = header
      BY <1>2
    <3> QED
      BY <2>4, <2>7, <2>8, <3>1 DEF MainTold
  <2>10. Before(line + 1, "CLOSE_BRACE") = n /\ Before(line, "CLOSE_BRACE") + 1 = n
    BY <2>5, <2>6
  <2> HIDE DEF n
  <2>11. \A i \in 1 .. Before(line + 1, "CLOSE_BRACE") : tables'.funcs[i].size \in Nat
    <3> SUFFICES ASSUME NEW i \in 1 .. n  PROVE funcs[i].size \in Nat
      BY <2>7, <2>10
    <3>1. CASE i = n
      BY <2>2, <2>8, <3>1
    <3>2. CASE i # n
      <4>1. i \in 1 .. Before(line, "CLOSE_BRACE")
        BY <2>5, <2>8, <2>10, <3>2
      <4> QED
        BY <2>4, <2>8, <3>2, <4>1 DEF SizesTold
    <3> QED
      BY <3>1, <3>2
  <2>12. SymbolsKept
    BY <2>4, <2>7 DEF SymbolsKept, TablesTyped
  <2>13. PICK c : c = line
    OBVIOUS
  <2>14. StringTold(c)'
    <3>1. TypeAt(c, 1)' = "CLOSE_BRACE"
      BY <2>3, <2>13, SamePlaces DEF Passed
    <3> QED
      BY <3>1 DEF StringTold
  <2>15. \A v, text : PlacedAt(tables.strings, v, text) => PlacedAt(tables'.strings, v, text)
    BY <2>7
  <2> QED
    BY <2>3, <2>4, <2>9, <2>11, <2>12, <2>13, <2>14, <2>15, FirstFiles
<1> QED
  BY <1>1, <1>2 DEF EndFunction

LEMMA FirstPassFiles == AllInv /\ FirstPass => FileInv'
<1>1. AllInv /\ InvalidInput => FileInv'
  BY ExitFiles DEF InvalidInput
<1> QED
  BY <1>1, SetStackSizeFiles, DefineStringFiles, DefineIntFiles, BeginFunctionFiles,
     EndFunctionFiles, CountInstrFiles, DefineLabelFiles, SkipBlankFiles DEF FirstPass
-----------------------------------------------------------------------------
(* The instructions *)

\* A name is not accepted where a variable is.
LEMMA AcceptedKinds ==
  ASSUME NEW mn \in Mnemonics, NEW k \in 1 .. Len(InstrTable[mn])
  PROVE  \/ /\ "MEM_REF" \in InstrTable[mn][k]
            /\ "LINE_LABEL" \notin InstrTable[mn][k] /\ "FUNC_NAME" \notin InstrTable[mn][k]
            /\ "CORE_API_CALL" \notin InstrTable[mn][k]
         \/ InstrTable[mn][k] \in { {"LINE_LABEL"}, {"FUNC_NAME"}, {"CORE_API_CALL"} }
<1> DEFINE A == InstrTable[mn]
           Plain(x) == /\ "MEM_REF" \in x /\ "LINE_LABEL" \notin x /\ "FUNC_NAME" \notin x
                       /\ "CORE_API_CALL" \notin x
<1>1. mn \in {"MOV", "ADD", "SUB", "MUL", "DIV", "JMP", "JE", "JNE", "JG", "JL", "PUSH", "POP",
              "CALL", "RET", "CALLCORE", "PAUSE", "QUIT"}
  BY DEF Mnemonics, InstrTable
<1>7. Plain(Variable) /\ Plain(Target) /\ Plain(Source) /\ Plain(Source \cup {"STRING_REF"})
      /\ Plain({"INT", "MEM_REF"})
  BY DEF Variable, Target, Source
<1>2. CASE mn \in {"MOV", "ADD", "SUB", "MUL", "DIV"}
  <2>1. A = <<Target, Source>> \/ A = <<Variable, {"INT", "MEM_REF"}>>
    BY <1>2 DEF InstrTable
  <2> HIDE DEF A, Plain
  <2>2. \A x, y : A = <<x, y>> /\ Plain(x) /\ Plain(y) => \A j \in 1 .. Len(A) : Plain(A[j])
    OBVIOUS
  <2>3. \A j \in 1 .. Len(A) : Plain(A[j])
    BY <1>7, <2>1, <2>2
  <2> QED
    BY <2>3 DEF A, Plain
<1>3. CASE mn \in {"JE", "JNE", "JG", "JL"}
  <2>1. A = <<Source, Source, {"LINE_LABEL"}>>
    BY <1>3 DEF InstrTable
  <2> HIDE DEF A, Plain
  <2>2. \A x, y, z : A = <<x, y, z>> /\ Plain(x) /\ Plain(y) => \A j \in 1 .. Len(A) : Plain(A[j]) \/ A[j] = z
    OBVIOUS
  <2>3. \A j \in 1 .. Len(A) : Plain(A[j]) \/ A[j] = {"LINE_LABEL"}
    BY <1>7, <2>1, <2>2
  <2> QED
    BY <2>3 DEF A, Plain
<1>4. CASE mn \in {"PUSH", "POP", "PAUSE"}
  <2>1. A = <<Source \cup {"STRING_REF"}>> \/ A = <<Target>> \/ A = <<Source>>
    BY <1>4 DEF InstrTable
  <2> HIDE DEF A, Plain
  <2>2. \A x : A = <<x>> /\ Plain(x) => \A j \in 1 .. Len(A) : Plain(A[j])
    OBVIOUS
  <2>3. \A j \in 1 .. Len(A) : Plain(A[j])
    BY <1>7, <2>1, <2>2
  <2> QED
    BY <2>3 DEF A, Plain
<1>5. CASE mn \in {"JMP", "CALL", "CALLCORE"}
  <2>1. PICK x \in { {"LINE_LABEL"}, {"FUNC_NAME"}, {"CORE_API_CALL"} } : A = <<x>>
    BY <1>5 DEF InstrTable
  <2> QED
    BY <2>1
<1>6. CASE mn \in {"RET", "QUIT"}
  <2>1. A = <<>>
    BY <1>6 DEF InstrTable
  <2> QED
    BY <2>1
<1> QED
  BY <1>1, <1>2, <1>3, <1>4, <1>5, <1>6

\* What is written for a line of the second pass.
LEMMA OperandIsFit ==
  ASSUME Written, TablesInv, NEW k \in 1 .. Len(Accepts)
  PROVE  OperandFits(Accepts[k], OperandOf(k))
<1> DEFINE i == Start(k)
<1>1. OperandError(k) = "NO_ERR" /\ OperandOf(k) \in Ops /\ source \in Seq(Lines)
      /\ Lexeme(1) \in Mnemonics
  BY WrittenIs, InstrPasses, OperandTyped DEF Written
<1>2. \/ /\ "MEM_REF" \in Accepts[k]
         /\ "LINE_LABEL" \notin Accepts[k] /\ "FUNC_NAME" \notin Accepts[k]
         /\ "CORE_API_CALL" \notin Accepts[k]
      \/ Accepts[k] \in { {"LINE_LABEL"}, {"FUNC_NAME"}, {"CORE_API_CALL"} }
  BY <1>1, AcceptedKinds DEF Accepts
<1>3. CASE Type(i) \in {"INT", "REG"}
  <2>1. Type(i) \in Accepts[k]
    BY <1>1, <1>3 DEF OperandError
  <2>2. "MEM_REF" \in Accepts[k] /\ "LINE_LABEL" \notin Accepts[k] /\ "FUNC_NAME" \notin Accepts[k]
        /\ "CORE_API_CALL" \notin Accepts[k]
    BY <1>2, <1>3, <2>1
  <2>3. OperandOf(k) = [type |-> Type(i), value |-> Lexeme(i)]
    BY <1>3 DEF OperandOf
  <2>4. Lexeme(i) \in Int /\ (Type(i) = "REG" => Lexeme(i) \in 0 .. 3)
    <3>1. /\ i \in DOMAIN source[line] /\ source[line][i].type = Type(i) /\ IsLine(source[line])
      BY <1>1, <1>3, TokenIs DEF Type
    <3> QED
      BY <1>3, <3>1 DEF IsLine, Lexeme
  <2>5. OperandOf(k) \in Computer!Operands
    BY <1>3, <2>3, <2>4 DEF Computer!Operands, Computer!Literals, Computer!Regs
  <2> QED
    BY <2>2, <2>5 DEF OperandFits
<1>4. CASE Type(i) \notin {"INT", "REG"} /\ "MEM_REF" \in Accepts[k]
  <2>1. OperandOf(k) = VariableOperand(i, Indexed(k, i))
    BY <1>4 DEF OperandOf
  <2>2. \/ OperandOf(k).type \in {"STRING_REF", "ABS_STACK_INDEX"}
        \/ OperandOf(k).type = "REL_STACK_INDEX" /\ DOMAIN OperandOf(k) = {"type", "value", "offset"}
    BY <2>1 DEF VariableOperand
  <2> DEFINE o == OperandOf(k)
  <2>3. o \in Computer!Operands
    <3>1. o \in [type: OperandTypes, value: Int] \cup [type: {"REL_STACK_INDEX"}, value: Int, offset: Int]
      BY <1>1 DEF Ops
    <3> HIDE DEF o
    <3>2. CASE o \in [type: OperandTypes, value: Int]
      <4>1. o.value \in Int /\ o = [type |-> o.type, value |-> o.value] /\ DOMAIN o = {"type", "value"}
        BY <3>2
      <4>2. o.type \in {"STRING_REF", "ABS_STACK_INDEX"}
        BY <2>2, <4>1 DEF o
      <4> QED
        BY <4>1, <4>2 DEF Computer!Operands, Computer!Literals
    <3>3. CASE o \in [type: {"REL_STACK_INDEX"}, value: Int, offset: Int]
      BY <3>3 DEF Computer!Operands
    <3> QED
      BY <3>1, <3>2, <3>3
  <2> QED
    BY <1>2, <1>4, <2>3 DEF OperandFits
<1>5. CASE Type(i) \notin {"INT", "REG"} /\ "MEM_REF" \notin Accepts[k]
  <2>1. OperandOf(k) = NameOperand(i, Accepts[k]) /\ NameError(i, Accepts[k]) = "NO_ERR"
    BY <1>1, <1>5 DEF OperandOf, OperandError
  <2>2. CASE Accepts[k] = {"LINE_LABEL"}
    <3>1. OperandOf(k).type = "INSTR_INDEX"
      BY <2>1, <2>2 DEF NameOperand
    <3>2. OperandOf(k) \in Computer!Operands
      BY <1>1, <3>1 DEF Ops, Computer!Operands, Computer!Literals
    <3> QED
      BY <2>2, <3>1, <3>2 DEF OperandFits
  <2>3. CASE Accepts[k] = {"FUNC_NAME"}
    <3> DEFINE g == GetFuncByName(tables, Lexeme(i))
    <3>1. OperandOf(k) = [type |-> "FUNC_INDEX", value |-> g - 1]
      BY <2>1, <2>3 DEF NameOperand
    <3>2. g # 0
      BY <2>1, <2>3 DEF NameError
    <3>3. g \in 0 .. Len(tables.funcs) /\ Len(tables.funcs) \in Nat
      BY FuncFound DEF Written, TablesTyped
    <3> HIDE DEF g
    <3>4. OperandOf(k).value + 1 = g /\ OperandOf(k).type = "FUNC_INDEX" /\ g \in 1 .. Len(tables.funcs)
      BY <3>1, <3>2, <3>3
    <3> QED
      BY <2>3, <3>4 DEF OperandFits
  <2>4. CASE Accepts[k] = {"CORE_API_CALL"}
    <3>1. OperandOf(k).type = "HOST_API_CALL_INDEX"
      BY <2>1, <2>4 DEF NameOperand
    <3> QED
      BY <2>4, <3>1 DEF OperandFits
  <2> QED
    BY <1>2, <1>5, <2>2, <2>3, <2>4
<1> QED
  BY <1>3, <1>4, <1>5

LEMMA WrittenShaped ==
  ASSUME Written, TablesInv
  PROVE  /\ Shaped(NewInstr)
         /\ Lexeme(1) = "CALLCORE" =>
              /\ NewInstr.op = "CALLCORE" /\ Lexeme(2) = LastName(line) /\ Lexeme(2) \in Texts
              /\ NewInstr.args[1].value = StringOffset(tables.apis, Lexeme(2))
<1> DEFINE n == Len(Accepts)
           args == [k \in DOMAIN Accepts |-> OperandOf(k)]
<1>1. Lexeme(1) \in Mnemonics /\ n \in Nat /\ DOMAIN Accepts = 1 .. n /\ Accepts = InstrTable[Lexeme(1)]
  BY WrittenIs DEF Accepts
<1>2. NewInstr.op = Lexeme(1) /\ NewInstr.args = args
  BY DEF NewInstr
<1>3. DOMAIN args = 1 .. n /\ \A k \in 1 .. n : args[k] = OperandOf(k)
  BY <1>1
<1>4. Len(args) = n
  BY <1>1, <1>3
<1> HIDE DEF args
<1>5. \A k \in 1 .. n : OperandFits(Accepts[k], args[k])
  BY <1>3, OperandIsFit
<1>6. Shaped(NewInstr)
  BY <1>1, <1>2, <1>3, <1>4, <1>5 DEF Shaped
<1>7. ASSUME Lexeme(1) = "CALLCORE"
      PROVE  /\ NewInstr.op = "CALLCORE" /\ Lexeme(2) = LastName(line) /\ Lexeme(2) \in Texts
             /\ NewInstr.args[1].value = StringOffset(tables.apis, Lexeme(2))
  <2>1. n = 1 /\ Accepts[1] = {"CORE_API_CALL"}
    BY <1>1, <1>7, AcceptsAre
  <2>2. Start(1) = 2 /\ ~Indexed(1, 2)
    BY <2>1, StartIs DEF Indexed
  <2>3. Type(2) = "IDENT" /\ Lexeme(2) \in Texts
    BY <1>7, ApiNamed DEF Written, PassInv, WorkTyped
  <2>4. Len(source[line]) - 1 = 2
    <3>1. n > 0 /\ ~Indexed(n, Start(n)) /\ Start(n) = 2
      BY <2>1, <2>2
    <3>2. Start(n) = Len(source[line]) - 1
      BY <3>1, OperandsAre
    <3> QED
      BY <3>1, <3>2
  <2>5. Lexeme(2) = LastName(line)
    BY <2>4 DEF Lexeme, LastName
  <2>6. OperandOf(1) = NameOperand(2, {"CORE_API_CALL"})
    BY <2>1, <2>2, <2>3 DEF OperandOf
  <2>7. NameOperand(2, {"CORE_API_CALL"})
          = [type |-> "HOST_API_CALL_INDEX", value |-> StringOffset(tables.apis, Lexeme(2))]
    BY DEF NameOperand
  <2>8. OperandOf(1).value = StringOffset(tables.apis, Lexeme(2))
    BY <2>6, <2>7
  <2>9. NewInstr.args[1] = OperandOf(1)
    BY <1>2, <1>3, <2>1
  <2> QED
    BY <1>2, <1>7, <2>3, <2>5, <2>8, <2>9
<1> QED
  BY <1>6, <1>7
-----------------------------------------------------------------------------
(* The second pass *)

\* The names of kernel calls are added to.
FilesKept ==
  /\ source' = source /\ header'.main = header.main
  /\ tables'.funcs = tables.funcs /\ tables'.symbols = tables.symbols
  /\ tables'.strings = tables.strings
  /\ \A v, text : PlacedAt(tables.apis, v, text) => PlacedAt(tables'.apis, v, text)

LEMMA LineShapedKept ==
  ASSUME FilesKept, NEW l, NEW I, LineShaped(l, I)
  PROVE  LineShaped(l, I)'
<1>1. TypeAt(l, 1)' = TypeAt(l, 1) /\ FuncOf(l)' = FuncOf(l) /\ LastName(l)' = LastName(l)
  BY SamePlaces DEF FilesKept, LastName
<1>2. \A kinds, o : OperandFits(kinds, o) => OperandFits(kinds, o)'
  BY DEF FilesKept, OperandFits, Computer!Operands, Computer!Literals, Computer!Regs
<1>3. Shaped(I)'
  BY <1>2 DEF LineShaped, Shaped
<1> QED
  BY <1>1, <1>3 DEF FilesKept, LineShaped

LEMMA ToldKept ==
  ASSUME FilesKept, NEW n
  PROVE  /\ StringsTold(n) => StringsTold(n)'
         /\ SizesTold(n) => SizesTold(n)'
         /\ MainTold => MainTold'
<1>1. \A d, i : TypeAt(d, i)' = TypeAt(d, i)
  BY SamePlaces DEF FilesKept
<1>2. \A d : SymbolOf(d)' = SymbolOf(d)
  BY SamePlaces DEF FilesKept, SymbolOf
<1>3. StringsTold(n) => StringsTold(n)'
  BY <1>1, <1>2 DEF FilesKept, StringsTold, StringTold
<1>4. SizesTold(n) => SizesTold(n)'
  BY SamePlaces DEF FilesKept, SizesTold
<1>5. MainTold => MainTold'
  BY DEF FilesKept, MainTold
<1> QED
  BY <1>3, <1>4, <1>5

\* A line of the second pass.
LEMMA SecondFiles ==
  ASSUME AllInv, phase = "second", NEW m, Passed(m), FilesKept,
         \A j \in 1 .. Len(stream) : stream'[j] = stream[j],
         NEW c, c = line,
         Writes(c) => LineShaped(c, WrittenFor(c))',
         \A j \in 1 .. Len(stream') : j \in 1 .. Len(stream) \/ (Writes(c) /\ Slot(c) + 1 = j)
  PROVE  FileInv'
<1>1. phase' = "second" /\ source' = source /\ WorkTyped
  BY DEF Passed, AllInv, PassInv
<1>2. PICK n : n = Len(source) + 1
  OBVIOUS
<1>3. StringsTold(n)' /\ SizesTold(n)' /\ MainTold'
  BY <1>2, ToldKept DEF AllInv, FileInv
<1>4. /\ \A l \in 1 .. m : Writes(l) => l \in 1 .. line - 1 \/ l = line
      /\ line \in 1 .. m /\ 1 .. line - 1 \subseteq 1 .. m /\ line' - 1 = m
  BY <1>1, LinesPassed DEF Skipped, Writes
<1>5. \A l : Writes(l)' = Writes(l) /\ Slot(l)' = Slot(l)
  BY <1>1, SamePlaces DEF Writes
<1>6. ASSUME NEW l \in 1 .. m, Writes(l)  PROVE LineShaped(l, WrittenFor(l))'
  <2>1. CASE l \in 1 .. line - 1
    <3>1. PICK I : I = WrittenFor(l)
      OBVIOUS
    <3>2. LineShaped(l, I)
      BY <1>6, <2>1, <3>1 DEF AllInv, FileInv
    <3>3. LineShaped(l, I)'
      BY <3>2, LineShapedKept
    <3>4. WrittenFor(l)' = I
      BY <1>1, <1>6, <2>1, <3>1, WrittenStays DEF AllInv, Writes
    <3> QED
      BY <3>3, <3>4
  <2>2. CASE l = c
    BY <1>6, <2>2
  <2> QED
    BY <1>4, <1>6, <2>1, <2>2
<1>7. ASSUME NEW j \in 1 .. Len(stream')  PROVE \E l \in 1 .. m : Writes(l) /\ Slot(l) + 1 = j
  <2>1. CASE j \in 1 .. Len(stream)
    BY <1>4, <2>1 DEF AllInv, FileInv
  <2>2. CASE Writes(c) /\ Slot(c) + 1 = j
    BY <1>4, <2>2
  <2> QED
    BY <2>1, <2>2
<1>8. \A l \in 1 .. line' - 1 : Writes(l)' => LineShaped(l, WrittenFor(l))'
  BY <1>4, <1>5, <1>6
<1>9. \A j \in 1 .. Len(stream') : \E l \in 1 .. line' - 1 : Writes(l)' /\ Slot(l)' + 1 = j
  BY <1>4, <1>5, <1>7
<1> QED
  BY <1>1, <1>2, <1>3, <1>8, <1>9 DEF FileInv

\* An instruction is written for a line.
LEMMA LineFiled ==
  ASSUME AllInv, NEW type \in {"INSTR", "CLOSE_BRACE"}, Reads("second", type), Passes("NO_ERR"),
         NEW I, Write(I), SkipToNextLine(line), FilesKept,
         scope'.active = IF type = "CLOSE_BRACE" THEN FALSE ELSE scope.active,
         DOMAIN scope' = DOMAIN scope,
         NEW c, c = line, LineShaped(c, I)'
  PROVE  FileInv'
<1>1. TypeAt(line, 1) = type /\ line \in DOMAIN source /\ phase = "second" /\ WorkTyped /\ SecondWrites
  BY DEF Reads, Type, AllInv, PassInv
<1>2. line \in line .. Len(source) /\ line + 1 .. line = {}
  BY <1>1 DEF WorkTyped
<1>3. Passed(line)
  BY <1>1, <1>2 DEF Passed, Passes, SkipToNextLine, WorkTyped
<1>4. stream \in Seq(Instrs) /\ Len(stream) = Slot(line) /\ Len(stream) \in Nat
  BY <1>1 DEF AllInv, RestTyped, SecondWrites
<1>5. /\ \A j \in 1 .. Len(stream) : stream'[j] = stream[j]
      /\ stream'[Len(stream) + 1] = I /\ Len(stream') = Len(stream) + 1
  <2>1. stream \in Seq(Instrs \cup {I}) /\ I \in Instrs \cup {I}
    BY <1>4
  <2> QED
    BY <2>1 DEF Write
<1>6. WrittenFor(c)' = I
  <2>1. Slot(c)' = Slot(line)
    BY SamePlaces DEF FilesKept
  <2> QED
    BY <1>4, <1>5, <2>1 DEF WrittenFor
<1>7. \A j \in 1 .. Len(stream') : j \in 1 .. Len(stream) \/ Slot(c) + 1 = j
  BY <1>4, <1>5
<1>8. Writes(c)
  BY <1>1 DEF Writes
<1> QED
  BY <1>1, <1>3, <1>5, <1>6, <1>7, <1>8, SecondFiles

LEMMA WriteInstrFiles == AllInv /\ WriteInstr => FileInv'
<1> SUFFICES ASSUME AllInv, WriteInstr  PROVE FileInv'
  OBVIOUS
<1>1. CASE Refused(InstrError)
  BY <1>1, ExitFiles
<1>2. CASE Abort
  BY <1>2, ExitFiles
<1>3. CASE Return("INVALID_INPUT")
  BY <1>3, ExitFiles
<1>4. CASE /\ Passes(InstrError) /\ Write(NewInstr)
           /\ tables' = IF Lexeme(1) = "CALLCORE"
                        THEN [tables EXCEPT !.apis = WithString(@, Lexeme(2))] ELSE tables
           /\ SkipToNextLine(line) /\ UNCHANGED <<scope, header>>
  <2>1. Passes("NO_ERR") /\ Reads("second", "INSTR") /\ InstrError = "NO_ERR" /\ source' = source
    BY <1>4 DEF Passes, WriteInstr
  <2>2. Written /\ TablesInv
    BY <2>1, TablesAre DEF Written, Reads, AllInv
  <2>3. /\ tables'.funcs = tables.funcs /\ tables'.symbols = tables.symbols
        /\ tables'.strings = tables.strings
        /\ tables'.apis = IF Lexeme(1) = "CALLCORE" THEN WithString(tables.apis, Lexeme(2)) ELSE tables.apis
    BY <1>4, TablesAre DEF AllInv
  <2>4. tables.apis \in Seq(Texts)
    BY <2>2 DEF Written, TablesTyped
  <2>5. FilesKept
    <3>1. \A v, text : PlacedAt(tables.apis, v, text) => PlacedAt(tables'.apis, v, text)
      BY <2>2, <2>3, <2>4, StringAdded, WrittenShaped
    <3> QED
      BY <1>4, <2>1, <2>3, <3>1 DEF FilesKept
  <2>6. PICK I, c : I = NewInstr /\ c = line
    OBVIOUS
  <2>7. Shaped(I) /\ TypeAt(c, 1) = "INSTR" /\ Lexeme(1) = source[c][1].lexeme
    BY <2>1, <2>2, <2>6, WrittenShaped DEF Reads, Type, Lexeme
  <2>8. ASSUME source[c][1].lexeme = "CALLCORE"
        PROVE  I.op = "CALLCORE" /\ PlacedAt(tables'.apis, I.args[1].value, LastName(c))
    <3>1. /\ I.op = "CALLCORE" /\ Lexeme(2) = LastName(c) /\ Lexeme(2) \in Texts
          /\ I.args[1].value = StringOffset(tables.apis, Lexeme(2))
      BY <2>2, <2>6, <2>7, <2>8, WrittenShaped
    <3>2. tables'.apis = WithString(tables.apis, Lexeme(2))
      BY <2>3, <2>7, <2>8
    <3> QED
      BY <2>4, <3>1, <3>2, StringAdded
  <2>9. LineShaped(c, I)'
    <3>1. TypeAt(c, 1)' = "INSTR" /\ LastName(c)' = LastName(c)
      BY <2>1, <2>7, SamePlaces DEF LastName
    <3>2. Shaped(I)'
      BY <2>3, <2>7 DEF Shaped, OperandFits, Computer!Operands, Computer!Literals, Computer!Regs
    <3> QED
      BY <2>1, <2>8, <3>1, <3>2 DEF LineShaped
  <2>10. /\ DOMAIN scope' = DOMAIN scope /\ SkipToNextLine(line) /\ Write(I)
         /\ scope'.active = IF "INSTR" = "CLOSE_BRACE" THEN FALSE ELSE scope.active
    BY <1>4, <2>6
  <2> QED
    BY <2>1, <2>5, <2>6, <2>9, <2>10, LineFiled
<1> QED
  BY <1>1, <1>2, <1>3, <1>4 DEF WriteInstr, NewInstr

\* The instruction at the end of a function.
LEMMA LeaveFunctionFiles == AllInv /\ LeaveFunction => FileInv'
<1> SUFFICES ASSUME AllInv, LeaveFunction  PROVE FileInv'
  OBVIOUS
<1> DEFINE op == IF tables.funcs[scope.func + 1].name = MAIN_FUNC_NAME THEN "QUIT" ELSE "RET"
<1>1. PICK I, c : I = [op |-> op, args |-> <<>>] /\ c = line
  OBVIOUS
<1>2. /\ Reads("second", "CLOSE_BRACE") /\ Passes("NO_ERR") /\ SkipToNextLine(line)
      /\ UNCHANGED <<header, tables>> /\ scope' = [scope EXCEPT !.active = FALSE] /\ Write(I)
  BY <1>1 DEF LeaveFunction
<1>3. /\ scope'.active = IF "CLOSE_BRACE" = "CLOSE_BRACE" THEN FALSE ELSE scope.active
      /\ DOMAIN scope' = DOMAIN scope
  BY <1>2 DEF AllInv, PassInv, WorkTyped
<1>4. FilesKept
  BY <1>2 DEF FilesKept, Passes
<1>5. /\ TypeAt(c, 1) = "CLOSE_BRACE" /\ WellPlaced(c) /\ c \in Nat /\ ScopeTells
  BY <1>1, <1>2 DEF Reads, Type, AllInv, PassInv, WorkTyped, SecondWrites, TablesInv
<1>6. scope.func = FuncOf(c)
  <2>1. Before(c, "FUNC") = Before(c, "CLOSE_BRACE") + 1 /\ Before(c, "CLOSE_BRACE") \in Nat
    BY <1>5, BeforeIsNat DEF WellPlaced
  <2>2. Before(line, "FUNC") > 0
    BY <1>1, <2>1
  <2> QED
    BY <1>1, <1>5, <2>2 DEF ScopeTells
<1>7. I.op = IF tables.funcs[FuncOf(c) + 1].name = MAIN_FUNC_NAME THEN "QUIT" ELSE "RET"
  BY <1>1, <1>6
<1>8. Shaped(I)
  <2>1. /\ "QUIT" \in Mnemonics /\ "RET" \in Mnemonics
        /\ InstrTable["QUIT"] = <<>> /\ InstrTable["RET"] = <<>>
    BY DEF Mnemonics, InstrTable
  <2>2. I.args = <<>> /\ I.op \in {"QUIT", "RET"}
    BY <1>1
  <2>3. InstrTable[I.op] = <<>> /\ I.op \in Mnemonics
    BY <2>1, <2>2
  <2> QED
    BY <2>2, <2>3 DEF Shaped
<1>9. LineShaped(c, I)
  BY <1>5, <1>7, <1>8 DEF LineShaped
<1>10. LineShaped(c, I)'
  BY <1>4, <1>9, LineShapedKept
<1> QED
  BY <1>1, <1>2, <1>3, <1>4, <1>10, LineFiled

\* A line for which nothing is written.
LEMMA NothingFiled ==
  ASSUME AllInv, phase = "second", NEW m, Passed(m), FilesKept, stream' = stream, ~Writes(line)
  PROVE  FileInv'
<1>1. PICK c : c = line
  OBVIOUS
<1>2. ~Writes(c)
  BY <1>1
<1> QED
  BY <1>1, <1>2, SecondFiles

LEMMA SkipOtherFiles == AllInv /\ SkipOther => FileInv'
<1> SUFFICES ASSUME AllInv, SkipOther  PROVE FileInv'
  OBVIOUS
<1>1. /\ TypeAt(line, 1) \notin {"INSTR", "FUNC", "CLOSE_BRACE"}
      /\ line \in DOMAIN source /\ phase = "second" /\ WorkTyped
  BY DEF SkipOther, Reads, Type, AllInv, PassInv
<1>2. line \in line .. Len(source) /\ line + 1 .. line = {}
  BY <1>1 DEF WorkTyped
<1>3. Passed(line)
  BY <1>1, <1>2 DEF Passed, SkipOther, Passes, SkipToNextLine, WorkTyped
<1>4. FilesKept /\ stream' = stream
  BY DEF FilesKept, SkipOther, Passes
<1>5. ~Writes(line)
  BY <1>1 DEF Writes
<1> QED
  BY <1>1, <1>3, <1>4, <1>5, NothingFiled

LEMMA EnterFunctionFiles == AllInv /\ EnterFunction => FileInv'
<1> SUFFICES ASSUME AllInv, EnterFunction  PROVE FileInv'
  OBVIOUS
<1>1. /\ TypeAt(line, 1) = "FUNC" /\ line \in DOMAIN source /\ phase = "second"
      /\ WorkTyped /\ WellPlaced(line)
  BY DEF EnterFunction, Reads, Type, AllInv, PassInv, SecondWrites, WorkTyped
<1>2. Brace(line) = BraceLine
  BY DEF Brace, BraceLine, Type
<1>3. /\ BraceLine \in line .. Len(source)
      /\ \A k \in line + 1 .. BraceLine : TypeAt(k, 1) \in Skipped
  BY <1>1, <1>2 DEF WellPlaced
<1>4. scope'.active = TRUE /\ DOMAIN scope' = {"active", "func", "size"}
  BY <1>1 DEF EnterFunction, WorkTyped
<1>5. Passed(BraceLine)
  BY <1>1, <1>3, <1>4 DEF Passed, EnterFunction, Passes, SkipToNextLine
<1>6. FilesKept /\ stream' = stream
  BY DEF FilesKept, EnterFunction, Passes
<1>7. ~Writes(line)
  BY <1>1 DEF Writes
<1> QED
  BY <1>1, <1>5, <1>6, <1>7, NothingFiled
-----------------------------------------------------------------------------
(* From a call to its end *)

LEMMA CallsFile == AllInv /\ (Exec \/ SourceMissing \/ LookupOverflows \/ LoadOverruns) => FileInv'
<1> SUFFICES ASSUME AllInv, Exec \/ SourceMissing \/ LookupOverflows \/ LoadOverruns  PROVE FileInv'
  OBVIOUS
<1>1. CASE Exec
  <2>1. phase' = "first" /\ line' = 1 /\ tables' = NoTables
    BY <1>1 DEF Exec, Called, StartFirstPass, AllInv, TablesInv
  <2>2. StringsTold(line)'
    BY <2>1 DEF StringsTold
  <2>3. SizesTold(line)'
    <3>1. Before(1, "CLOSE_BRACE")' = 0
      BY BeforeFirst
    <3>2. Before(line, "CLOSE_BRACE")' = 0
      BY <2>1, <3>1 DEF Before
    <3> QED
      BY <3>2 DEF SizesTold
  <2>4. MainTold'
    BY <2>1 DEF MainTold, NoTables
  <2> QED
    BY <2>1, <2>2, <2>3, <2>4 DEF FileInv
<1>2. CASE SourceMissing \/ LookupOverflows \/ LoadOverruns
  BY <1>2, ExitFiles DEF SourceMissing, LookupOverflows, LoadOverruns
<1> QED
  BY <1>1, <1>2

LEMMA AllocateStreamFiles == AllInv /\ AllocateStream => FileInv'
<1> SUFFICES ASSUME AllInv, AllocateStream  PROVE FileInv'
  OBVIOUS
<1>1. /\ phase = "first" /\ phase' = "second" /\ line' = 1 /\ source' = source /\ FilesKept
      /\ stream' = <<>>
  BY DEF AllocateStream, FilesKept
<1>2. PICK n : n = line
  OBVIOUS
<1>3. n = Len(source) + 1
  BY <1>2 DEF AllInv, PassInv, AllocateStream, WorkTyped
<1>4. StringsTold(n)' /\ SizesTold(n)' /\ MainTold'
  BY <1>1, <1>2, ToldKept DEF AllInv, FileInv
<1> QED
  BY <1>1, <1>3, <1>4 DEF FileInv

LEMMA NothingFilesAnew ==
  ASSUME AllInv, UNCHANGED <<source, line, header, stream, tables>>,
         phase' = phase \/ (phase = "second" /\ phase' = "build")
  PROVE  FileInv'
<1>1. FilesKept
  BY DEF FilesKept
<1>2. CASE phase = "first"
  <2>1. PICK n : n = line
    OBVIOUS
  <2>2. StringsTold(n)' /\ SizesTold(n)' /\ MainTold'
    BY <1>1, <1>2, <2>1, ToldKept DEF AllInv, FileInv
  <2> QED
    BY <1>2, <2>1, <2>2 DEF FileInv
<1>3. CASE phase \in {"second", "build"}
  <2>1. PICK n : n = Len(source) + 1
    OBVIOUS
  <2>2. StringsTold(n)' /\ SizesTold(n)' /\ MainTold'
    BY <1>1, <1>3, <2>1, ToldKept DEF AllInv, FileInv
  <2>3. \A l : /\ Writes(l)' = Writes(l) /\ Slot(l)' = Slot(l)
               /\ WrittenFor(l)' = WrittenFor(l)
    BY SamePlaces DEF Writes, WrittenFor
  <2>4. ASSUME NEW l \in 1 .. line - 1, Writes(l)  PROVE LineShaped(l, WrittenFor(l))'
    <3>1. PICK I : I = WrittenFor(l)
      OBVIOUS
    <3>2. LineShaped(l, I)'
      BY <1>1, <1>3, <2>4, <3>1, LineShapedKept DEF AllInv, FileInv
    <3> QED
      BY <2>3, <3>1, <3>2
  <2>5. \A j \in 1 .. Len(stream) : \E l \in 1 .. line - 1 : Writes(l) /\ Slot(l) + 1 = j
    BY <1>3 DEF AllInv, FileInv
  <2> QED
    BY <1>3, <2>1, <2>2, <2>3, <2>4, <2>5 DEF FileInv
<1>4. CASE phase \notin {"first", "second", "build"}
  BY <1>4 DEF FileInv
<1> QED
  BY <1>2, <1>3, <1>4

LEMMA FileInvStep == AllInv /\ [Next]_vars => FileInv'
<1> SUFFICES ASSUME AllInv, [Next]_vars  PROVE FileInv'
  OBVIOUS
<1>1. CASE EndSecondPass
  BY <1>1, NothingFilesAnew DEF EndSecondPass, work
<1>2. CASE BuildFSE \/ BuildFails
  BY <1>2, ExitFiles DEF BuildFSE, BuildFails
<1>3. CASE UNCHANGED vars
  BY <1>3, NothingFilesAnew DEF vars
<1>4. CASE SecondPass
  BY <1>4, WriteInstrFiles, EnterFunctionFiles, LeaveFunctionFiles, SkipOtherFiles DEF SecondPass
<1> QED
  BY <1>1, <1>2, <1>3, <1>4, CallsFile, FirstPassFiles, AllocateStreamFiles DEF Next

LEMMA FilesHold == Spec => []AllInv
<1>1. Init => FileInv
  BY DEF Init, FileInv
<1>2. Init => AllInv
  BY <1>1, PassInvStart, RestTypedStart, TablesInvStart DEF AllInv
<1>3. AllInv /\ [Next]_vars => AllInv'
  BY PassInvStep, RestTypedStep, TablesInvStep, FileInvStep DEF AllInv
<1> QED
  BY <1>2, <1>3, PTL DEF Spec
-----------------------------------------------------------------------------
(* What is in the file *)

\* An instruction has three operands at most, and takes no more than its 32 bytes.
LEMMA ShapedBytes ==
  ASSUME NEW I, Shaped(I)  PROVE InstrBytes(I) = INSTR_LEN
<1> DEFINE n == Len(I.args)
           R == {k \in DOMAIN I.args : I.args[k].type = "REL_STACK_INDEX"}
<1>1. n \in 0 .. 3 /\ DOMAIN I.args = 1 .. n
  BY AcceptsAre DEF Shaped
<1>2. IsFiniteSet(1 .. n) /\ Cardinality(1 .. n) = n
  BY <1>1, FS_Interval
<1>3. Cardinality(R) \in Nat /\ Cardinality(R) <= n
  BY <1>1, <1>2, FS_Subset, FS_CardinalityType
<1> HIDE DEF n, R
<1>4. 3 + 5 * n + 4 * Cardinality(R) < 32
  BY <1>1, <1>3
<1> QED
  BY <1>4 DEF InstrBytes, INSTR_LEN, n, R

\* A line that writes an instruction has written it, and each instruction is of such a line.
LEMMA CodeIs ==
  ASSUME AllInv, phase = "build"
  PROVE  /\ streamSize \in Nat /\ Len(stream) \in Nat /\ Len(stream) <= streamSize
         /\ line - 1 = Len(source) /\ Len(source) \in Nat
         /\ DOMAIN stream = 1 .. Len(stream)
         /\ \A l \in 1 .. Len(source) : Writes(l) =>
              /\ Slot(l) \in Nat /\ Slot(l) + 1 \in 1 .. Len(stream)
              /\ LineShaped(l, WrittenFor(l))
         /\ \A j \in 1 .. Len(stream) : \E l \in 1 .. Len(source) : Writes(l) /\ Slot(l) + 1 = j
<1>1. /\ line = Len(source) + 1 /\ Len(source) \in Nat /\ Len(stream) = Slot(line)
      /\ streamSize \in Nat /\ stream \in Seq(Instrs)
  BY DEF AllInv, PassInv, WorkTyped, SecondWrites, RestTyped
<1>2. Len(stream) \in Nat /\ DOMAIN stream = 1 .. Len(stream) /\ Len(stream) <= streamSize
  BY <1>1, PassInvFits DEF AllInv, StreamFits
<1>3. ASSUME NEW l \in 1 .. Len(source), Writes(l)
      PROVE  Slot(l) \in Nat /\ Slot(l) + 1 \in 1 .. Len(stream)
  <2>1. l \in Nat /\ l > 0 /\ l + 1 \in Nat /\ line \in Nat /\ l + 1 <= line
    BY <1>1
  <2>2. \A t : Before(l, t) \in Nat /\ Before(line, t) \in Nat /\ Before(l + 1, t) <= Before(line, t)
    BY <2>1, BeforeIsNat, BeforeGrows
  <2>3. \A t : Before(l + 1, t) = Before(l, t) + IF TypeAt(l, 1) = t THEN 1 ELSE 0
    BY <2>1, BeforeNext
  <2>4. Slot(l) \in Nat /\ Slot(l) + 1 <= Slot(line)
    BY <1>3, <2>2, <2>3 DEF Writes, Slot
  <2> QED
    BY <1>1, <1>2, <2>4
<1> QED
  BY <1>1, <1>2, <1>3 DEF AllInv, FileInv

LEMMA CodeFits ==
  ASSUME AllInv, phase = "build"
  PROVE  /\ DOMAIN Code = 1 .. streamSize /\ Len(Code) = streamSize
         /\ \A l \in 1 .. Len(source) : Writes(l) => Code[Slot(l) + 1] = WrittenFor(l)
         /\ \A i \in 1 .. streamSize : InstrBytes(Code[i]) = INSTR_LEN
<1>1. /\ streamSize \in Nat /\ Len(stream) \in Nat /\ Len(stream) <= streamSize
      /\ DOMAIN stream = 1 .. Len(stream)
      /\ \A l \in 1 .. Len(source) : Writes(l) =>
           /\ Slot(l) + 1 \in 1 .. Len(stream)
           /\ LineShaped(l, WrittenFor(l))
      /\ \A j \in 1 .. Len(stream) : \E l \in 1 .. Len(source) : Writes(l) /\ Slot(l) + 1 = j
  BY CodeIs
<1>2. DOMAIN Code = 1 .. streamSize /\ Len(Code) = streamSize
  BY <1>1 DEF Code
<1>3. \A i \in 1 .. streamSize : Code[i] = IF i \in 1 .. Len(stream) THEN stream[i] ELSE Unwritten
  BY <1>1 DEF Code
<1>4. ASSUME NEW l \in 1 .. Len(source), Writes(l)  PROVE Code[Slot(l) + 1] = WrittenFor(l)
  BY <1>1, <1>3, <1>4 DEF WrittenFor
<1>5. ASSUME NEW i \in 1 .. streamSize  PROVE InstrBytes(Code[i]) = INSTR_LEN
  <2>1. CASE i \in 1 .. Len(stream)
    <3>1. PICK l \in 1 .. Len(source) : Writes(l) /\ Slot(l) + 1 = i
      BY <1>1, <2>1
    <3>2. Shaped(WrittenFor(l)) /\ Code[i] = WrittenFor(l)
      BY <1>1, <1>4, <3>1 DEF LineShaped
    <3> QED
      BY <3>2, ShapedBytes
  <2>2. CASE i \notin 1 .. Len(stream)
    <3>1. Code[i] = Unwritten
      BY <1>3, <2>2
    <3>2. Unwritten.args = <<>> /\ {k \in DOMAIN Unwritten.args : Unwritten.args[k].type = "REL_STACK_INDEX"} = {}
      BY DEF Unwritten
    <3> QED
      BY <3>1, <3>2, FS_EmptySet DEF InstrBytes, INSTR_LEN
  <2> QED
    BY <2>1, <2>2
<1> QED
  BY <1>2, <1>4, <1>5

\* The kernel finds in the file what the assembler has put there.
LEMMA ProgramFound ==
  ASSUME AllInv, phase = "build"
  PROVE  Found(Fse, header, Code, tables, streamSize, Len(tables.funcs))
<1>1. tables \in Tables
  BY DEF AllInv, RestTyped
<1>2. Len(Code) = streamSize /\ DOMAIN Code = 1 .. Len(Code) /\ Len(Code) \in Nat
  BY CodeIs, CodeFits
<1>3. \A i \in 1 .. Len(Code) : InstrBytes(Code[i]) = INSTR_LEN
  BY <1>2, CodeFits
<1> QED
  BY <1>1, <1>2, <1>3, FileRead DEF Fse

\* The names of kernel calls, as the kernel finds them.
Apis == TextTable(Fse, ApisAt(Fse)).texts

LEMMA ProgramCode ==
  ASSUME AllInv, phase = "build"
  PROVE  /\ Len(Program.code) = streamSize /\ DOMAIN Program.code = 1 .. streamSize
         /\ \A i \in 1 .. streamSize :
              /\ Program.code[i].op = Code[i].op
              /\ DOMAIN Program.code[i].args = DOMAIN Code[i].args
              /\ \A k \in DOMAIN Code[i].args :
                   Program.code[i].args[k] = Operand(Apis, Code[i].args[k])
<1>1. /\ ReadAt(Fse, 20) = streamSize /\ streamSize \in Nat
      /\ \A i \in 1 .. streamSize : ReadAt(Fse, CodeAt + INSTR_LEN * (i - 1)) = Code[i]
  BY ProgramFound, CodeIs DEF Found, FindsCode
<1> DEFINE read(i) == ReadAt(Fse, CodeAt + INSTR_LEN * (i - 1))
           code == [i \in 1 .. ReadAt(Fse, 20) |->
                      [op   |-> read(i).op,
                       args |-> [k \in DOMAIN read(i).args |-> Operand(Apis, read(i).args[k])]]]
<1>2. Program.code = code
  BY DEF Program, ProgramOf, Apis
<1>3. Len(code) = streamSize /\ DOMAIN code = 1 .. streamSize
  BY <1>1
<1>4. ASSUME NEW i \in 1 .. streamSize
      PROVE  code[i] = [op   |-> Code[i].op,
                        args |-> [k \in DOMAIN Code[i].args |-> Operand(Apis, Code[i].args[k])]]
  <2>1. read(i) = Code[i]
    BY <1>1
  <2>2. code[i] = [op   |-> read(i).op,
                   args |-> [k \in DOMAIN read(i).args |-> Operand(Apis, read(i).args[k])]]
    BY <1>3
  <2> HIDE DEF read, code
  <2> QED
    BY <2>1, <2>2
<1> HIDE DEF code
<1> QED
  BY <1>2, <1>3, <1>4

\* The texts of the source are found in the memory of the program, whatever the source:
\* the places that AddString computes are those at which loadExecFile has them.
THEOREM TextsFoundHolds == Spec => []TextsFound
<1>1. AllInv => TextsFound
  <2> SUFFICES ASSUME AllInv, phase = "build"
               PROVE  LET texts == TextTable(Fse, StringsAt(Fse)).texts IN
                      /\ \A d \in LinesOf("STRING_DEF") :
                           TypeAt(d, 4) = "STRING" => /\ SymbolOf(d).value \in DOMAIN texts
                                                      /\ texts[SymbolOf(d).value] = source[d][4].lexeme
                      /\ \A l \in LinesOf("INSTR") :
                           source[l][1].lexeme = "CALLCORE" =>
                             Program.code[Slot(l) + 1].args[1].value = LastName(l)
    BY DEF TextsFound
  <2> DEFINE texts == TextTable(Fse, StringsAt(Fse)).texts
  <2>1. /\ FindsTexts(Fse, StringsAt(Fse), tables.strings)
        /\ FindsTexts(Fse, ApisAt(Fse), tables.apis)
    BY ProgramFound DEF Found
  <2>2. \A t : \A l \in LinesOf(t) : l \in 1 .. Len(source) /\ TypeAt(l, 1) = t
    BY DEF LinesOf, AllInv, PassInv, WorkTyped
  <2>3. ASSUME NEW d \in LinesOf("STRING_DEF"), TypeAt(d, 4) = "STRING"
        PROVE  /\ SymbolOf(d).value \in DOMAIN texts
               /\ texts[SymbolOf(d).value] = source[d][4].lexeme
    <3>1. StringsTold(Len(source) + 1) /\ d \in 1 .. (Len(source) + 1) - 1
      BY <2>2, CodeIs DEF AllInv, FileInv
    <3>2. PlacedAt(tables.strings, SymbolOf(d).value, source[d][4].lexeme)
      BY <2>2, <2>3, <3>1 DEF StringsTold, StringTold
    <3> QED
      BY <2>1, <3>2 DEF PlacedAt, FindsTexts
  <2>4. ASSUME NEW l \in LinesOf("INSTR"), source[l][1].lexeme = "CALLCORE"
        PROVE  Program.code[Slot(l) + 1].args[1].value = LastName(l)
    <3> DEFINE I == WrittenFor(l)
    <3>1. /\ l \in 1 .. Len(source) /\ TypeAt(l, 1) = "INSTR" /\ Writes(l)
      BY <2>2 DEF Writes
    <3>2. /\ LineShaped(l, I) /\ Slot(l) + 1 \in 1 .. streamSize /\ Code[Slot(l) + 1] = I
      BY <3>1, CodeIs, CodeFits
    <3> HIDE DEF I
    <3>3. /\ Shaped(I) /\ I.op = "CALLCORE"
          /\ PlacedAt(tables.apis, I.args[1].value, LastName(l))
      BY <2>4, <3>1, <3>2 DEF LineShaped
    <3>4. /\ 1 \in DOMAIN I.args /\ I.args[1].type = "HOST_API_CALL_INDEX"
      BY <3>3, AcceptsAre DEF Shaped, OperandFits
    <3>5. Program.code[Slot(l) + 1].args[1] = Operand(Apis, I.args[1])
      BY <3>2, <3>4, ProgramCode
    <3>6. Apis[I.args[1].value] = LastName(l)
      BY <2>1, <3>3 DEF PlacedAt, FindsTexts, Apis
    <3> DEFINE o == I.args[1]
    <3>8. o \in Ops
      <4>1. I \in Instrs
        BY <3>1, CodeIs DEF I, WrittenFor, AllInv, RestTyped
      <4> QED
        BY <3>4, <4>1 DEF Instrs
    <3>9. Operand(Apis, o) = [o EXCEPT !.value = Apis[@]] /\ o = [type |-> o.type, value |-> o.value]
      BY <3>4, <3>8 DEF Operand, Ops
    <3> QED
      BY <3>5, <3>6, <3>9
  <2> QED
    BY <2>3, <2>4
<1> QED
  BY <1>1, FilesHold, PTL
-----------------------------------------------------------------------------
(* Where functions begin and end *)

\* Where so many functions have ended as have begun, the last instruction is the one
\* that ends the last of them.
LEMMA LastEnds ==
  ASSUME NEW n \in Nat, \A k \in 1 .. n - 1 : WellPlaced(k), NEW i \in Nat \ {0},
         Before(n, "FUNC") = i, Before(n, "CLOSE_BRACE") = i
  PROVE  \E c \in 1 .. n - 1 :
           /\ TypeAt(c, 1) = "CLOSE_BRACE" /\ Before(c, "FUNC") = i
           /\ Before(c + 1, "CLOSE_BRACE") = i /\ Slot(n) = Slot(c) + 1
<1> DEFINE ends(k) == TypeAt(k, 1) = "CLOSE_BRACE"
           S == {k \in 1 .. n - 1 : ends(k)}
<1>1. S # {}
  <2> SUFFICES ASSUME S = {}  PROVE FALSE
    OBVIOUS
  <2>1. Before(n, "CLOSE_BRACE") = 0
    BY FS_EmptySet DEF Before
  <2> QED
    BY <2>1
<1>2. PICK c \in S : \A k \in S : k <= c
  <2> DEFINE T == {n - k : k \in S}
  <2>1. T \subseteq Nat /\ T # {}
    BY <1>1
  <2>2. FirstOf(T) \in T /\ \A j \in T : FirstOf(T) <= j
    BY <2>1, FirstOfIsLeast
  <2>3. PICK c \in S : FirstOf(T) = n - c
    BY <2>2
  <2>4. \A k \in S : n - c <= n - k
    BY <2>2, <2>3
  <2> QED
    BY <2>4
<1>3. /\ c \in Nat /\ c > 0 /\ c + 1 \in Nat /\ c + 1 <= n /\ ends(c) /\ c \in 1 .. n - 1
      /\ \A k \in c + 1 .. n - 1 : ~ends(k)
  BY <1>2
<1> HIDE DEF S
<1>4. \A t : /\ Before(c, t) \in Nat /\ Before(n, t) \in Nat /\ Before(c + 1, t) \in Nat
             /\ Before(c + 1, t) = Before(c, t) + IF TypeAt(c, 1) = t THEN 1 ELSE 0
  BY <1>3, BeforeIsNat, BeforeNext
<1>5. Before(c + 1, "CLOSE_BRACE") = i
  BY <1>3, BeforeSkip
<1>6. Before(c, "FUNC") = i /\ Before(c, "CLOSE_BRACE") = i - 1
  BY <1>3, <1>4, <1>5 DEF WellPlaced
<1>7. ASSUME NEW k \in c + 1 .. n - 1, TypeAt(k, 1) = "INSTR"  PROVE FALSE
  <2>1. k \in Nat /\ c + 1 <= k /\ k <= n /\ k \in 1 .. n - 1
    BY <1>3
  <2>2. /\ i <= Before(k, "CLOSE_BRACE") /\ Before(k, "FUNC") <= i
        /\ Before(k, "CLOSE_BRACE") \in Nat /\ Before(k, "FUNC") \in Nat
    BY <1>3, <1>5, <2>1, BeforeGrows, BeforeIsNat
  <2> QED
    BY <1>7, <2>1, <2>2 DEF WellPlaced
<1>8. Before(n, "INSTR") = Before(c, "INSTR")
  <2>1. Before(n, "INSTR") = Before(c + 1, "INSTR")
    BY <1>3, <1>7, BeforeSkip
  <2> QED
    BY <1>3, <1>4, <2>1
<1>9. Slot(n) = Slot(c) + 1
  BY <1>4, <1>6, <1>8 DEF Slot
<1> QED
  BY <1>3, <1>5, <1>6, <1>9

\* A function: the line that begins it, the one that ends it, and the next line that is
\* not its own.
Spans(i, d, c, n) ==
  /\ d \in 1 .. Len(source) /\ TypeAt(d, 1) = "FUNC" /\ Before(d, "FUNC") = i - 1
  /\ n \in 1 .. Len(source) + 1 /\ Before(n, "FUNC") = i /\ c \in 1 .. n - 1
  /\ TypeAt(c, 1) = "CLOSE_BRACE" /\ Before(c, "FUNC") = i
  /\ Before(c + 1, "CLOSE_BRACE") = i
  /\ tables.funcs[i].entry = Slot(d) /\ Slot(n) = Slot(c) + 1

EndsOf(i) == IF i = Len(tables.funcs) THEN streamSize ELSE tables.funcs[i + 1].entry

\* All functions have ended, and all of the memory for instructions is written.
LEMMA AllEnded ==
  ASSUME AllInv, phase = "build", ~scope.active, NEW n, n = Len(source) + 1
  PROVE  /\ n \in Nat /\ Len(tables.funcs) \in Nat
         /\ Before(n, "FUNC") = Len(tables.funcs) /\ Before(n, "CLOSE_BRACE") = Len(tables.funcs)
         /\ Slot(n) = streamSize /\ Len(stream) = streamSize
         /\ \A l \in 1 .. Len(source) : WellPlaced(l)
         /\ FuncsTell(n)
<1>1. /\ n = line /\ n \in Nat /\ SecondWrites /\ FuncsTell(n)
  BY CodeIs DEF AllInv, PassInv, WorkTyped, TablesInv, Tells
<1>2. Before(n, "FUNC") = Len(tables.funcs) /\ Before(n, "CLOSE_BRACE") = Before(n, "FUNC")
  BY <1>1 DEF SecondWrites, FuncsTell
<1>3. Before(n, "FUNC") \in Nat /\ Before(n, "INSTR") \in Nat
  BY <1>1, BeforeIsNat
<1>4. Slot(n) = streamSize /\ Len(stream) = Slot(n)
  BY <1>1, <1>2, <1>3 DEF SecondWrites, Slot
<1> QED
  BY <1>1, <1>2, <1>3, <1>4 DEF SecondWrites

LEMMA FunctionSpans ==
  ASSUME AllInv, phase = "build", ~scope.active, NEW i \in 1 .. Len(tables.funcs)
  PROVE  \E d, c, n : Spans(i, d, c, n) /\ EndsOf(i) = Slot(n)
<1>1. PICK e : e = Len(source) + 1
  OBVIOUS
<1>2. /\ e \in Nat /\ Len(tables.funcs) \in Nat /\ Len(source) \in Nat
      /\ Before(e, "FUNC") = Len(tables.funcs) /\ Before(e, "CLOSE_BRACE") = Len(tables.funcs)
      /\ Slot(e) = streamSize
      /\ \A l \in 1 .. Len(source) : WellPlaced(l)
      /\ FuncsTell(e) /\ e - 1 = Len(source)
  BY <1>1, AllEnded, CodeIs
<1>3. \A j \in 1 .. Len(tables.funcs) : \E d \in 1 .. Len(source) :
        /\ TypeAt(d, 1) = "FUNC" /\ Before(d, "FUNC") + 1 = j /\ Before(d, "FUNC") \in Nat
        /\ tables.funcs[j].entry = Slot(d)
  <2> SUFFICES ASSUME NEW j \in 1 .. Len(tables.funcs)
               PROVE  \E d \in 1 .. Len(source) :
                        /\ TypeAt(d, 1) = "FUNC" /\ Before(d, "FUNC") + 1 = j
                        /\ Before(d, "FUNC") \in Nat /\ tables.funcs[j].entry = Slot(d)
    OBVIOUS
  <2>1. PICK d \in 1 .. Len(source) : TypeAt(d, 1) = "FUNC" /\ Before(d, "FUNC") + 1 = j
    BY <1>2 DEF FuncsTell
  <2>2. tables.funcs[j].entry = Slot(d)
    BY <1>2, <2>1 DEF FuncsTell, FuncNode
  <2>3. Before(d, "FUNC") \in Nat
    BY <1>2, BeforeIsNat
  <2> QED
    BY <2>1, <2>2, <2>3
<1>4. PICK d \in 1 .. Len(source) :
        /\ TypeAt(d, 1) = "FUNC" /\ Before(d, "FUNC") = i - 1 /\ tables.funcs[i].entry = Slot(d)
  BY <1>2, <1>3
<1>5. PICK n \in 1 .. Len(source) + 1 :
        Before(n, "FUNC") = i /\ Before(n, "CLOSE_BRACE") = i /\ EndsOf(i) = Slot(n)
  <2>1. CASE i = Len(tables.funcs)
    <3>1. e \in 1 .. Len(source) + 1
      BY <1>1, <1>2
    <3> QED
      BY <1>2, <2>1, <3>1 DEF EndsOf
  <2>2. CASE i # Len(tables.funcs)
    <3>1. PICK n \in 1 .. Len(source) :
            /\ TypeAt(n, 1) = "FUNC" /\ Before(n, "FUNC") = i /\ tables.funcs[i + 1].entry = Slot(n)
      <4>1. i + 1 \in 1 .. Len(tables.funcs)
        BY <1>2, <2>2
      <4> QED
        BY <1>2, <1>3, <4>1
    <3>2. Before(n, "CLOSE_BRACE") = i
      BY <1>2, <3>1 DEF WellPlaced
    <3> QED
      BY <1>2, <2>2, <3>1, <3>2 DEF EndsOf
  <2> QED
    BY <2>1, <2>2
<1>6. PICK c \in 1 .. n - 1 :
        /\ TypeAt(c, 1) = "CLOSE_BRACE" /\ Before(c, "FUNC") = i
        /\ Before(c + 1, "CLOSE_BRACE") = i /\ Slot(n) = Slot(c) + 1
  <2>1. n \in Nat /\ i \in Nat \ {0} /\ \A k \in 1 .. n - 1 : WellPlaced(k)
    BY <1>2
  <2> QED
    BY <1>5, <2>1, LastEnds
<1> QED
  BY <1>4, <1>5, <1>6 DEF Spans

LEMMA SlotIsNat ==
  ASSUME NEW l \in Nat  PROVE Slot(l) \in Nat
<1>1. Before(l, "INSTR") \in Nat /\ Before(l, "CLOSE_BRACE") \in Nat
  BY BeforeIsNat
<1> QED
  BY <1>1 DEF Slot

\* Lines between two others, and the instructions that are written before them.
LEMMA SlotsGrow ==
  ASSUME NEW k \in Nat \ {0}, NEW l \in Nat, k < l
  PROVE  /\ Slot(k) \in Nat /\ Slot(l) \in Nat /\ Slot(k) <= Slot(l)
         /\ Writes(k) => Slot(k) + 1 <= Slot(l)
         /\ \A t : /\ Before(k, t) \in Nat /\ Before(l, t) \in Nat /\ Before(k, t) <= Before(l, t)
                   /\ TypeAt(k, 1) = t => Before(k, t) + 1 <= Before(l, t)
<1>1. k + 1 \in Nat /\ k + 1 <= l /\ k \in Nat /\ k > 0
  OBVIOUS
<1>2. \A t : /\ Before(k, t) \in Nat /\ Before(l, t) \in Nat /\ Before(k + 1, t) \in Nat
             /\ Before(k + 1, t) <= Before(l, t)
             /\ Before(k + 1, t) = Before(k, t) + IF TypeAt(k, 1) = t THEN 1 ELSE 0
  BY <1>1, BeforeIsNat, BeforeGrows, BeforeNext
<1> QED
  BY <1>2 DEF Slot, Writes

\* The labels of a function, and its instructions, are between its first line and its last.
LEMMA WithinSpan ==
  ASSUME AllInv, phase = "build", ~scope.active, NEW i \in Nat \ {0}, NEW d, NEW c, NEW n,
         Spans(i, d, c, n), NEW e \in 1 .. Len(source), TypeAt(e, 1) = "IDENT", FuncOf(e) = i - 1
  PROVE  Slot(e) \in Slot(d) .. Slot(n) - 1
<1>1. /\ d \in Nat \ {0} /\ c \in Nat \ {0} /\ e \in Nat \ {0} /\ c + 1 \in Nat \ {0}
      /\ TypeAt(d, 1) = "FUNC" /\ Before(d, "FUNC") = i - 1 /\ Slot(n) = Slot(c) + 1
      /\ Before(c + 1, "CLOSE_BRACE") = i /\ TypeAt(c, 1) = "CLOSE_BRACE"
  BY CodeIs DEF Spans
<1>2. /\ Before(e, "FUNC") \in Nat /\ Before(e, "CLOSE_BRACE") \in Nat
      /\ Slot(c) \in Nat /\ Slot(e) \in Nat /\ Slot(d) \in Nat
  <2>1. c \in Nat /\ d \in Nat /\ e \in Nat
    BY <1>1
  <2> QED
    BY <2>1, BeforeIsNat, SlotIsNat
<1>3. Before(e, "FUNC") = i /\ Before(e, "CLOSE_BRACE") = i - 1
  <2>1. WellPlaced(e)
    BY AllEnded
  <2> QED
    BY <1>2, <2>1 DEF FuncOf, WellPlaced
<1>4. d < e
  <2>1. CASE e < d
    BY <1>1, <1>3, <2>1, SlotsGrow
  <2>2. CASE e = d
    BY <1>1, <1>3, <2>2
  <2> QED
    BY <1>1, <2>1, <2>2
<1>5. e < c
  <2>1. CASE c + 1 < e
    BY <1>1, <1>3, <2>1, SlotsGrow
  <2>2. CASE e = c + 1
    BY <1>1, <1>3, <2>2
  <2>3. CASE e = c
    BY <1>1, <2>3
  <2> QED
    BY <1>1, <2>1, <2>2, <2>3
<1>6. Slot(d) <= Slot(e) /\ Slot(e) <= Slot(c)
  BY <1>1, <1>4, <1>5, SlotsGrow
<1> QED
  BY <1>1, <1>2, <1>6

LEMMA InSpan ==
  ASSUME AllInv, phase = "build", ~scope.active, NEW i \in Nat \ {0}, NEW d, NEW c, NEW n,
         Spans(i, d, c, n), NEW l \in 1 .. Len(source), Writes(l),
         Slot(l) + 1 \in Slot(d) + 1 .. Slot(n)
  PROVE  FuncOf(l) = i - 1
<1>1. /\ d \in Nat \ {0} /\ n \in Nat \ {0} /\ l \in Nat \ {0} /\ d + 1 \in Nat \ {0}
      /\ TypeAt(d, 1) = "FUNC" /\ Before(d, "FUNC") = i - 1 /\ Before(n, "FUNC") = i
  BY CodeIs, SMTT(30) DEF Spans
<1>2. Slot(l) \in Nat /\ Slot(d) \in Nat /\ Slot(n) \in Nat /\ Before(l, "FUNC") \in Nat
  <2>1. l \in Nat /\ d \in Nat /\ n \in Nat
    BY <1>1
  <2> QED
    BY <2>1, BeforeIsNat, SlotIsNat
<1>3. Slot(d) <= Slot(l) /\ Slot(l) < Slot(n)
  BY <1>2
<1>4. d < l
  <2>1. CASE l < d
    BY <1>1, <1>2, <1>3, <2>1, SlotsGrow
  <2>2. CASE l = d
    BY <1>1, <2>2 DEF Writes
  <2> QED
    BY <1>1, <2>1, <2>2
<1>5. l < n
  <2>1. CASE n < l
    BY <1>1, <1>2, <1>3, <2>1, SlotsGrow
  <2>2. CASE l = n
    BY <1>2, <1>3, <2>2
  <2> QED
    BY <1>1, <2>1, <2>2
<1>6. i - 1 + 1 <= Before(l, "FUNC") /\ Before(l, "FUNC") <= i
  BY <1>1, <1>4, <1>5, SlotsGrow
<1> QED
  BY <1>2, <1>6 DEF FuncOf
-----------------------------------------------------------------------------
(* The program *)

LEMMA OperandConverts ==
  ASSUME NEW o \in Computer!Operands  PROVE Operand(Apis, o) \in Computer!Operands
<1>1. CASE o.type = "ABS_STACK_INDEX"
  <2>1. o = [type |-> "ABS_STACK_INDEX", value |-> o.value] /\ o.value \in Int
    BY <1>1 DEF Computer!Operands, Computer!Literals
  <2>2. Operand(Apis, o) = [type |-> "ABS_STACK_INDEX", value |-> o.value \div 4]
    BY <1>1, <2>1 DEF Operand
  <2> QED
    BY <2>1, <2>2 DEF Computer!Operands
<1>2. CASE o.type = "REL_STACK_INDEX"
  <2>1. /\ o = [type |-> "REL_STACK_INDEX", value |-> o.value, offset |-> o.offset]
        /\ o.value \in Int /\ o.offset \in Int
    BY <1>2 DEF Computer!Operands, Computer!Literals
  <2>2. Operand(Apis, o) = [type |-> "REL_STACK_INDEX", value |-> o.value \div 4, offset |-> o.offset \div 4]
    BY <1>2, <2>1 DEF Operand
  <2> QED
    BY <2>1, <2>2 DEF Computer!Operands
<1>3. CASE o.type \notin {"ABS_STACK_INDEX", "REL_STACK_INDEX"}
  <2>1. o.type # "HOST_API_CALL_INDEX"
    BY DEF Computer!Operands, Computer!Literals
  <2> QED
    BY <1>3, <2>1 DEF Operand
<1> QED
  BY <1>1, <1>2, <1>3

\* The operands of the instructions that work with the stack and the registers.
LEMMA ArgsConvert ==
  ASSUME NEW I, Shaped(I), I.op \notin {"CALL", "CALLCORE"}, NEW k \in DOMAIN I.args
  PROVE  Operand(Apis, I.args[k]) \in Computer!Operands
<1>1. OperandFits(InstrTable[I.op][k], I.args[k]) /\ I.op \in Mnemonics
      /\ k \in 1 .. Len(InstrTable[I.op])
  BY DEF Shaped
<1>2. "MEM_REF" \in InstrTable[I.op][k] \/ "LINE_LABEL" \in InstrTable[I.op][k]
  BY <1>1, AcceptsAre
<1>3. I.args[k] \in Computer!Operands
  BY <1>1, <1>2 DEF OperandFits
<1> QED
  BY <1>3, OperandConverts

LEMMA Lengths ==
  /\ \A op \in {"MOV", "ADD", "SUB", "MUL", "DIV"} : Len(InstrTable[op]) = 2
  /\ \A op \in {"JE", "JNE", "JG", "JL"} : Len(InstrTable[op]) = 3
  /\ \A op \in {"JMP", "PUSH", "POP"} : Len(InstrTable[op]) = 1
BY DEF InstrTable

\* With all functions ended, each instruction is written.
LEMMA AllWritten ==
  ASSUME AllInv, phase = "build", ~scope.active, NEW i \in 1 .. streamSize
  PROVE  \E l \in 1 .. Len(source) :
           /\ Writes(l) /\ Slot(l) + 1 = i /\ Code[i] = WrittenFor(l)
           /\ LineShaped(l, WrittenFor(l)) /\ Shaped(Code[i])
<1>1. Len(stream) = streamSize
  BY AllEnded
<1>2. PICK l \in 1 .. Len(source) : Writes(l) /\ Slot(l) + 1 = i
  BY <1>1, CodeIs
<1> QED
  BY <1>2, CodeIs, CodeFits DEF LineShaped

LEMMA InstrsWellFormed ==
  ASSUME AllInv, phase = "build", ~scope.active, NEW i \in 1 .. streamSize,
         NEW P, DOMAIN P.funcs = 1 .. Len(tables.funcs)
  PROVE  Computer!WellFormedInstr(P, Program.code[i])
<1> DEFINE I == Code[i]
           J == Program.code[i]
<1>1. /\ J.op = I.op /\ DOMAIN J.args = DOMAIN I.args
      /\ \A k \in DOMAIN I.args : J.args[k] = Operand(Apis, I.args[k])
  BY ProgramCode
<1>2. Shaped(I) /\ I.op \in Mnemonics /\ DOMAIN I.args = 1 .. Len(InstrTable[I.op])
  BY AllWritten DEF Shaped
<1> HIDE DEF I, J
<1>3. I.op \notin {"CALL", "CALLCORE"} => \A k \in DOMAIN I.args : J.args[k] \in Computer!Operands
  BY <1>1, <1>2, ArgsConvert
<1>4. J.op \in {"MOV"} \cup Computer!ArithmeticOps =>
        J.args[1] \in Computer!Operands /\ J.args[2] \in Computer!Operands
  BY <1>1, <1>2, <1>3, Lengths DEF Computer!ArithmeticOps
<1>5. J.op \in Computer!JumpOps => \A k \in 1 .. 3 : J.args[k] \in Computer!Operands
  BY <1>1, <1>2, <1>3, Lengths DEF Computer!JumpOps
<1>6. J.op \in {"JMP", "PUSH", "POP"} => J.args[1] \in Computer!Operands
  BY <1>1, <1>2, <1>3, Lengths
<1>7. J.op = "CALL" => J.args[1].type = "FUNC_INDEX" /\ J.args[1].value + 1 \in DOMAIN P.funcs
  <2> SUFFICES ASSUME I.op = "CALL"
               PROVE  J.args[1].type = "FUNC_INDEX" /\ J.args[1].value + 1 \in DOMAIN P.funcs
    BY <1>1
  <2>1. Len(InstrTable[I.op]) = 1 /\ InstrTable[I.op][1] = {"FUNC_NAME"}
    BY <1>2, AcceptsAre
  <2>2. /\ 1 \in DOMAIN I.args /\ I.args[1].type = "FUNC_INDEX"
        /\ I.args[1].value + 1 \in 1 .. Len(tables.funcs)
    BY <1>2, <2>1 DEF Shaped, OperandFits
  <2>3. J.args[1] = I.args[1]
    BY <1>1, <2>2 DEF Operand
  <2> QED
    BY <2>2, <2>3
<1> QED
  BY <1>4, <1>5, <1>6, <1>7 DEF Computer!WellFormedInstr, J

\* The main function is the one of that name.
LEMMA MainIs ==
  ASSUME AllInv, phase = "build", GetFuncByName(tables, MAIN_FUNC_NAME) # 0
  PROVE  /\ header.main + 1 \in 1 .. Len(tables.funcs)
         /\ \A i \in 1 .. Len(tables.funcs) :
              tables.funcs[i].name = MAIN_FUNC_NAME <=> i = header.main + 1
<1>1. MainTold /\ TablesTyped
  BY TablesAre DEF AllInv, FileInv
<1>2. PICK g : g = GetFuncByName(tables, MAIN_FUNC_NAME)
  OBVIOUS
<1>3. g \in 1 .. Len(tables.funcs) /\ tables.funcs[g].name = MAIN_FUNC_NAME
  BY <1>1, <1>2, FuncFound
<1>4. header.main + 1 = g
  BY <1>1, <1>3 DEF MainTold
<1> QED
  BY <1>1, <1>3, <1>4 DEF MainTold

LEMMA ProgramTables ==
  ASSUME AllInv, phase = "build"
  PROVE  /\ Len(Program.funcs) = Len(tables.funcs) /\ DOMAIN Program.funcs = 1 .. Len(tables.funcs)
         /\ Program.funcs = [i \in 1 .. Len(tables.funcs) |-> Program.funcs[i]]
         /\ \A i \in 1 .. Len(tables.funcs) :
              Program.funcs[i] = [entry |-> tables.funcs[i].entry, size |-> tables.funcs[i].size \div 4]
         /\ Program.main = header.main
         /\ Program.globals \in Nat /\ Program.strings \in Nat
<1> DEFINE m == Len(tables.funcs)
           at == FuncsAt(Fse)
           funcs == [i \in 1 .. ReadAt(Fse, at) |->
                       [entry |-> ReadAt(Fse, at + 8 * i - 4), size |-> ReadAt(Fse, at + 8 * i) \div 4]]
<1>1. /\ ReadAt(Fse, at) = m
      /\ \A i \in 1 .. m : /\ ReadAt(Fse, at + 8 * i - 4) = tables.funcs[i].entry
                           /\ ReadAt(Fse, at + 8 * i) = tables.funcs[i].size
      /\ ReadAt(Fse, 12) = header.globals /\ ReadAt(Fse, 16) = header.main
      /\ FuncsAt(Fse) - StringsAt(Fse) - 4 \in Nat
  BY ProgramFound DEF Found, FindsFuncs, FindsCode
<1>2. /\ Program.funcs = funcs /\ Program.main = ReadAt(Fse, 16)
      /\ Program.globals = ReadAt(Fse, 12) \div 4
      /\ Program.strings = FuncsAt(Fse) - StringsAt(Fse) - 4
  BY DEF Program, ProgramOf
<1>3. header.globals \in Nat /\ m \in Nat
  BY DEF AllInv, RestTyped, Headers, Tables
<1>4. Program.globals \in Nat
  BY <1>1, <1>2, <1>3
<1> HIDE DEF at, m
<1>5. Len(funcs) = m /\ DOMAIN funcs = 1 .. m
  BY <1>1, <1>3
<1>6. \A i \in 1 .. m : funcs[i] = [entry |-> tables.funcs[i].entry, size |-> tables.funcs[i].size \div 4]
  BY <1>1
<1>7. funcs = [i \in 1 .. m |-> funcs[i]]
  BY <1>1
<1> HIDE DEF funcs
<1> QED
  BY <1>1, <1>2, <1>4, <1>5, <1>6, <1>7 DEF m

\* The functions of the program, when all of them have ended.
LEMMA FuncsLoaded ==
  ASSUME AllInv, phase = "build", ~scope.active
  PROVE  Program.funcs \in Seq([entry: Nat, size: Nat])
<1>1. PICK e : e = Len(source) + 1
  OBVIOUS
<1>2. \A i \in 1 .. Len(tables.funcs) : tables.funcs[i].size \in Nat
  BY <1>1, AllEnded DEF AllInv, FileInv, SizesTold
<1>3. \A i \in 1 .. Len(tables.funcs) : tables.funcs[i].entry \in Nat
  <2>1. tables.funcs \in Seq(FuncNodes)
    BY TablesAre DEF AllInv, TablesTyped
  <2>2. \A i \in 1 .. Len(tables.funcs) : tables.funcs[i] \in FuncNodes
    BY <2>1, ElementsOf
  <2> QED
    BY <2>2 DEF FuncNodes
<1>4. ASSUME NEW i \in 1 .. Len(tables.funcs)  PROVE Program.funcs[i] \in [entry: Nat, size: Nat]
  <2>1. PICK x, y : x = tables.funcs[i].entry /\ y = tables.funcs[i].size
    OBVIOUS
  <2>2. x \in Nat /\ y \in Nat /\ y \div 4 \in Nat
    BY <1>2, <1>3, <2>1
  <2>3. Program.funcs[i] = [entry |-> x, size |-> y \div 4]
    BY <2>1, ProgramTables
  <2> QED
    BY <2>2, <2>3
<1>5. Len(tables.funcs) \in Nat
  BY <1>1, AllEnded
<1> DEFINE S == [entry: Nat, size: Nat]
<1>6. Program.funcs = [i \in 1 .. Len(tables.funcs) |-> Program.funcs[i]]
  BY ProgramTables
<1> HIDE DEF S
<1>7. \A i \in 1 .. Len(tables.funcs) : Program.funcs[i] \in S
  BY <1>4 DEF S
<1>8. [i \in 1 .. Len(tables.funcs) |-> Program.funcs[i]] \in Seq(S)
  BY <1>5, <1>7, SeqDef
<1>9. Program.funcs \in Seq(S)
  BY <1>6, <1>8
<1> QED
  BY <1>9 DEF S

\* A function: it has an instruction, the last one leaves it, and its jumps stay in it.
LEMMA FunctionLoaded ==
  ASSUME AllInv, phase = "build", ~scope.active, GetFuncByName(tables, MAIN_FUNC_NAME) # 0,
         NEW i \in 1 .. Len(tables.funcs), NEW b, b = tables.funcs[i].entry, NEW z, z = EndsOf(i)
  PROVE  /\ b \in Nat /\ z \in 1 .. streamSize /\ b < z
         /\ Program.code[z].op = IF i = header.main + 1 THEN "QUIT" ELSE "RET"
         /\ \A j \in b + 1 .. z :
              Program.code[j].op \in JumpOps => LastOperand(Program.code[j]) \in b .. z - 1
<1>1. PICK d, c, n : Spans(i, d, c, n) /\ EndsOf(i) = Slot(n)
  BY FunctionSpans
<1>2. /\ i \in Nat \ {0} /\ d \in Nat \ {0} /\ c \in Nat \ {0} /\ n \in Nat
      /\ c \in 1 .. Len(source) /\ TypeAt(c, 1) = "CLOSE_BRACE" /\ Before(c, "FUNC") = i
      /\ TypeAt(d, 1) = "FUNC" /\ Before(d, "FUNC") = i - 1
      /\ b = Slot(d) /\ z = Slot(n) /\ Slot(n) = Slot(c) + 1
  BY <1>1, CodeIs DEF Spans
<1>3. Slot(d) \in Nat /\ Slot(c) \in Nat /\ streamSize \in Nat
  BY <1>2, SlotIsNat, CodeIs
<1>4. Slot(d) <= Slot(c)
  <2>1. CASE c < d
    BY <1>2, <2>1, SlotsGrow
  <2>2. CASE d < c
    BY <1>2, <2>2, SlotsGrow
  <2> QED
    BY <1>2, <2>1, <2>2
<1>5. Writes(c) /\ z \in 1 .. streamSize /\ Code[z] = WrittenFor(c) /\ LineShaped(c, WrittenFor(c))
  <2>1. Writes(c)
    BY <1>2 DEF Writes
  <2>2. Slot(c) + 1 \in 1 .. Len(stream) /\ Len(stream) \in Nat /\ Len(stream) <= streamSize
    BY <1>2, <2>1, CodeIs
  <2> QED
    BY <1>2, <1>3, <2>1, <2>2, CodeIs, CodeFits
<1>6. Program.code[z].op = IF i = header.main + 1 THEN "QUIT" ELSE "RET"
  <2>1. Program.code[z].op = WrittenFor(c).op
    BY <1>5, ProgramCode
  <2>2. FuncOf(c) + 1 = i
    BY <1>2 DEF FuncOf
  <2>3. WrittenFor(c).op = IF tables.funcs[i].name = MAIN_FUNC_NAME THEN "QUIT" ELSE "RET"
    BY <1>2, <1>5, <2>2 DEF LineShaped
  <2> QED
    BY <2>1, <2>3, MainIs
<1>7. ASSUME NEW j \in b + 1 .. z, Program.code[j].op \in JumpOps
      PROVE  LastOperand(Program.code[j]) \in b .. z - 1
  <2>1. j \in 1 .. streamSize
    BY <1>2, <1>3, <1>5
  <2>2. PICK l \in 1 .. Len(source) :
          /\ Writes(l) /\ Slot(l) + 1 = j /\ Code[j] = WrittenFor(l)
          /\ LineShaped(l, WrittenFor(l)) /\ Shaped(Code[j])
    BY <2>1, AllWritten
  <2> DEFINE I == Code[j]
             J == Program.code[j]
  <2>3. /\ J.op = I.op /\ DOMAIN J.args = DOMAIN I.args
        /\ \A k \in DOMAIN I.args : J.args[k] = Operand(Apis, I.args[k])
    BY <2>1, ProgramCode
  <2>4. I = WrittenFor(l) /\ LineShaped(l, I) /\ Shaped(I)
    BY <2>2
  <2> HIDE DEF I, J
  <2>5. I.op \in JumpOps
    BY <1>7, <2>3 DEF J
  <2>6. TypeAt(l, 1) = "INSTR"
    BY <2>2, <2>4, <2>5 DEF LineShaped, Writes, JumpOps
  <2>7. FuncOf(l) = i - 1
    BY <1>1, <1>2, <2>2, InSpan
  <2>8. PICK e \in LinesOf("IDENT") : FuncOf(e) = i - 1 /\ LastOperand(I) = Slot(e)
    <3>1. Follows(l, I)
      BY <2>2, <2>4, <2>6, CodeIs DEF AllInv, TablesInv
    <3> QED
      BY <2>5, <2>7, <3>1 DEF Follows
  <2>9. Slot(e) \in b .. z - 1
    <3>1. e \in 1 .. Len(source) /\ TypeAt(e, 1) = "IDENT"
      BY DEF LinesOf, AllInv, PassInv, WorkTyped
    <3> QED
      BY <1>1, <1>2, <2>8, <3>1, WithinSpan
  <2>10. LastOperand(J) = LastOperand(I)
    <3>1. /\ Len(I.args) \in Nat /\ DOMAIN I.args = 1 .. Len(I.args)
          /\ Len(I.args) \in DOMAIN I.args /\ I.args[Len(I.args)].type = "INSTR_INDEX"
      <4>1. PICK k : k = Len(InstrTable[I.op])
        OBVIOUS
      <4>2. /\ I.op \in Mnemonics /\ k \in 0 .. 3 /\ k > 0 /\ InstrTable[I.op][k] = {"LINE_LABEL"}
            /\ DOMAIN I.args = 1 .. k /\ Len(I.args) = k
        BY <2>4, <2>5, <4>1, AcceptsAre DEF Shaped
      <4>3. OperandFits(InstrTable[I.op][k], I.args[k])
        <5>1. k \in DOMAIN I.args
          BY <4>2
        <5>2. \A j1 \in DOMAIN I.args : OperandFits(InstrTable[I.op][j1], I.args[j1])
          BY <2>4 DEF Shaped
        <5> QED
          BY <5>1, <5>2
      <4> QED
        BY <4>2, <4>3 DEF OperandFits
    <3>2. Len(J.args) = Len(I.args)
      BY <2>3, <3>1
    <3>3. J.args[Len(I.args)] = I.args[Len(I.args)]
      BY <2>3, <3>1 DEF Operand
    <3> QED
      BY <3>2, <3>3 DEF LastOperand
  <2> QED
    BY <2>8, <2>9, <2>10 DEF J
<1> QED
  BY <1>2, <1>3, <1>4, <1>5, <1>6, <1>7

\* What the kernel loads is a program that the processor can execute, whatever the
\* source: so the assumption on programs in module Processor is what the assembler
\* establishes, and no function runs on into the next.
THEOREM LoadableHolds == Spec => []Loadable
<1>1. AllInv => Loadable
  <2> SUFFICES ASSUME AllInv, phase = "build", ~scope.active,
                      GetFuncByName(tables, MAIN_FUNC_NAME) # 0
               PROVE  LET P == Program
                          end(i) == IF i = Len(P.funcs) THEN Len(P.code) ELSE P.funcs[i + 1].entry
                      IN  /\ Computer!WellFormed(P)
                          /\ \A i \in DOMAIN P.funcs :
                               /\ P.funcs[i].entry < end(i)
                               /\ P.code[end(i)].op = IF i = P.main + 1 THEN "QUIT" ELSE "RET"
                               /\ \A n \in P.funcs[i].entry + 1 .. end(i) :
                                    P.code[n].op \in JumpOps =>
                                      LastOperand(P.code[n]) \in P.funcs[i].entry .. end(i) - 1
    BY DEF Loadable
  <2> DEFINE end(i) == IF i = Len(Program.funcs) THEN Len(Program.code) ELSE Program.funcs[i + 1].entry
  <2>1. /\ Len(Program.funcs) = Len(tables.funcs) /\ DOMAIN Program.funcs = 1 .. Len(tables.funcs)
        /\ \A i \in 1 .. Len(tables.funcs) : Program.funcs[i].entry = tables.funcs[i].entry
        /\ Program.main = header.main /\ Len(tables.funcs) \in Nat
    <3>1. PICK e : e = Len(source) + 1
      OBVIOUS
    <3>2. Len(tables.funcs) \in Nat
      BY <3>1, AllEnded
    <3>3. /\ Len(Program.funcs) = Len(tables.funcs) /\ DOMAIN Program.funcs = 1 .. Len(tables.funcs)
          /\ \A i \in 1 .. Len(tables.funcs) :
               Program.funcs[i] = [entry |-> tables.funcs[i].entry, size |-> tables.funcs[i].size \div 4]
          /\ Program.main = header.main
      BY ProgramTables
    <3>4. ASSUME NEW i \in 1 .. Len(tables.funcs)  PROVE Program.funcs[i].entry = tables.funcs[i].entry
      <4>1. PICK y : Program.funcs[i] = [entry |-> tables.funcs[i].entry, size |-> y]
        BY <3>3, Zenon
      <4> QED
        BY <4>1
    <3> QED
      BY <3>2, <3>3, <3>4
  <2>2. Len(Program.code) = streamSize /\ DOMAIN Program.code = 1 .. streamSize /\ streamSize \in Nat
    BY ProgramCode, CodeIs
  <2>3. Computer!WellFormed(Program)
    <3>1. \A i \in 1 .. streamSize : Computer!WellFormedInstr(Program, Program.code[i])
      BY <2>1, InstrsWellFormed
    <3> QED
      BY <2>1, <2>2, <3>1, FuncsLoaded, MainIs, ProgramTables DEF Computer!WellFormed
  <2>4. ASSUME NEW i \in DOMAIN Program.funcs
        PROVE  /\ Program.funcs[i].entry < end(i)
               /\ Program.code[end(i)].op = IF i = Program.main + 1 THEN "QUIT" ELSE "RET"
               /\ \A n \in Program.funcs[i].entry + 1 .. end(i) :
                    Program.code[n].op \in JumpOps =>
                      LastOperand(Program.code[n]) \in Program.funcs[i].entry .. end(i) - 1
    <3>1. i \in 1 .. Len(tables.funcs) /\ Program.funcs[i].entry = tables.funcs[i].entry
      BY <2>1
    <3>2. end(i) = EndsOf(i)
      <4>1. i # Len(tables.funcs) => i + 1 \in 1 .. Len(tables.funcs)
        BY <2>1, <3>1
      <4> QED
        BY <2>1, <2>2, <4>1 DEF EndsOf
    <3> HIDE DEF end
    <3> QED
      BY <2>1, <3>1, <3>2, FunctionLoaded
  <2> QED
    BY <2>3, <2>4
<1> QED
  BY <1>1, FilesHold, PTL
=============================================================================
