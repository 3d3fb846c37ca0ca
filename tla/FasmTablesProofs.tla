--------------------------- MODULE FasmTablesProofs ---------------------------
(***************************************************************************)
(* What the tables of the assembler tell of the source, proved for every   *)
(* source: the place of a jump or a call is that of the instruction meant, *)
(* the variables of an instruction are the ones meant, and each has        *)
(* storage of its own.                                                     *)
(***************************************************************************)
EXTENDS FasmProofs

-----------------------------------------------------------------------------
(* What the tables tell of the lines that the first pass has read: those before n *)

Declares(d) == TypeAt(d, 1) \in {"INT_DEF", "STRING_DEF"}
SymbolIndex(d) == Before(d, "INT_DEF") + Before(d, "STRING_DEF") + 1

FuncNode(d) == tables.funcs[Before(d, "FUNC") + 1]

FuncsTell(n) ==
  /\ Len(tables.funcs) = Before(n, "FUNC")
  /\ \A d \in 1 .. n - 1 :
       TypeAt(d, 1) = "FUNC" => FuncNode(d).name = source[d][2].lexeme /\ FuncNode(d).entry = Slot(d)
  /\ \A i \in 1 .. Len(tables.funcs) :
       \E d \in 1 .. n - 1 : TypeAt(d, 1) = "FUNC" /\ Before(d, "FUNC") + 1 = i
  /\ \A i, j \in 1 .. Len(tables.funcs) : tables.funcs[i].name = tables.funcs[j].name => i = j

LabelsTell(n) ==
  \A i \in 1 .. Len(tables.labels) :
    \E d \in 1 .. n - 1 :
      /\ TypeAt(d, 1) = "IDENT" /\ source[d][1].lexeme = tables.labels[i].name
      /\ tables.labels[i].func = FuncOf(d) /\ tables.labels[i].target = Slot(d)

\* A declaration and its node.
SymbolTold(d) ==
  /\ SymbolOf(d).name = source[d][2].lexeme
  /\ IsLocal(d) <=> SymbolOf(d).index < 0
  /\ IsLocal(d) => SymbolOf(d).func = FuncOf(d)
  /\ SymbolOf(d).size >= 4
  /\ SymbolOf(d).type = "STRING_REF" => ~SymbolOf(d).isArr

\* A global variable has a name that no later one has.
SymbolsTell(n) ==
  /\ Len(tables.symbols) = Before(n, "INT_DEF") + Before(n, "STRING_DEF")
  /\ \A d \in 1 .. n - 1 : Declares(d) => SymbolTold(d)
  /\ \A i \in 1 .. Len(tables.symbols) : \E d \in 1 .. n - 1 : Declares(d) /\ SymbolIndex(d) = i
  /\ \A i, j \in 1 .. Len(tables.symbols) :
       i < j /\ tables.symbols[i].name = tables.symbols[j].name => tables.symbols[i].index < 0

\* Storage.
EndOf(d) == SymbolOf(d).index + SymbolOf(d).size
Ended(d, n) == FuncOf(d) < Before(n, "CLOSE_BRACE")

Stored(d, n) ==
  /\ ~IsLocal(d) => EndOf(d) <= header.globals
  /\ IsLocal(d) => EndOf(d) <= 0
  /\ IsLocal(d) /\ Ended(d, n) => -tables.funcs[FuncOf(d) + 1].size <= SymbolOf(d).index
  /\ IsLocal(d) /\ ~Ended(d, n) /\ phase = "first" => -scope.size <= SymbolOf(d).index

Storage(n) ==
  /\ \A d \in 1 .. n - 1 : Declares(d) => Stored(d, n)
  /\ \A d \in 1 .. n - 1 : \A e \in 1 .. d - 1 :
       Declares(d) /\ Declares(e) =>
         /\ ~IsLocal(d) /\ ~IsLocal(e) => EndOf(e) <= SymbolOf(d).index
         /\ IsLocal(d) /\ IsLocal(e) /\ FuncOf(d) = FuncOf(e) => EndOf(d) <= SymbolOf(e).index

\* The function that a line is in is the current one.
ScopeTells == Before(line, "FUNC") > 0 => scope.func = FuncOf(line)

Tells(n) == FuncsTell(n) /\ LabelsTell(n) /\ SymbolsTell(n) /\ Storage(n)

TablesInv ==
  /\ phase = "idle" => tables = NoTables
  /\ phase = "first" => Tells(line) /\ ScopeTells
  /\ phase \in {"second", "build"} =>
       /\ Tells(Len(source) + 1) /\ ScopeTells
       /\ \A l \in 1 .. line - 1 : TypeAt(l, 1) = "INSTR" =>
            Follows(l, WrittenFor(l)) /\ UsesOwn(l, WrittenFor(l))
-----------------------------------------------------------------------------
(* Places *)

LEMMA SamePlaces ==
  ASSUME source' = source
  PROVE  /\ \A l, i : TypeAt(l, i)' = TypeAt(l, i)
         /\ \A l, t : Before(l, t)' = Before(l, t)
         /\ \A l : Slot(l)' = Slot(l) /\ FuncOf(l)' = FuncOf(l) /\ IsLocal(l)' = IsLocal(l)
         /\ \A l : Declares(l)' = Declares(l) /\ SymbolIndex(l)' = SymbolIndex(l)
<1>1. \A l, i : TypeAt(l, i)' = TypeAt(l, i)
  BY DEF TypeAt
<1>2. \A l, t : Before(l, t)' = Before(l, t)
  BY SameSource
<1> QED
  BY <1>1, <1>2 DEF Slot, FuncOf, IsLocal, Declares, SymbolIndex

\* A line is counted before all that follow it.
LEMMA BeforeLater ==
  ASSUME NEW d \in Nat \ {0}, NEW n \in Nat, d < n
  PROVE  Before(d, TypeAt(d, 1)) + 1 <= Before(n, TypeAt(d, 1))
<1>1. Before(d + 1, TypeAt(d, 1)) = Before(d, TypeAt(d, 1)) + 1
  BY BeforeNext
<1>2. Before(d + 1, TypeAt(d, 1)) <= Before(n, TypeAt(d, 1))
  BY BeforeGrows
<1> QED
  BY <1>1, <1>2

LEMMA LinesPassed ==
  ASSUME WorkTyped, NEW m, Passed(m)
  PROVE  /\ \A d \in 1 .. m : d \in 1 .. line - 1 \/ d = line \/ TypeAt(d, 1) \in Skipped
         /\ line \in 1 .. m /\ 1 .. line - 1 \subseteq 1 .. m /\ line' - 1 = m /\ line' = m + 1
         /\ m \in Nat /\ line \in Nat
<1>1. m \in Nat /\ line \in Nat /\ line <= m /\ line \in 1 .. Len(source) + 1
  BY PassedCounts DEF WorkTyped
<1>2. /\ \A k \in line + 1 .. m : TypeAt(k, 1) \in Skipped
      /\ line' = m + 1
  BY DEF Passed
<1> QED
  BY <1>1, <1>2
-----------------------------------------------------------------------------
(* Functions *)

\* A function has its node.
LEMMA FuncPlaced ==
  ASSUME NEW n \in Nat, FuncsTell(n), NEW d \in 1 .. n - 1, TypeAt(d, 1) = "FUNC"
  PROVE  Before(d, "FUNC") + 1 \in 1 .. Len(tables.funcs)
<1>1. d \in Nat \ {0} /\ d < n
  OBVIOUS
<1>2. /\ Before(d, "FUNC") + 1 <= Before(n, "FUNC")
      /\ Before(d, "FUNC") \in Nat /\ Before(n, "FUNC") \in Nat
  BY <1>1, BeforeLater, BeforeIsNat
<1> QED
  BY <1>2 DEF FuncsTell

LEMMA FuncsPass ==
  ASSUME WorkTyped, TablesTyped, NEW m, Passed(m), TypeAt(line, 1) # "FUNC", FuncsTell(line),
         Len(tables'.funcs) = Len(tables.funcs),
         \A i \in 1 .. Len(tables.funcs) : /\ tables'.funcs[i].name = tables.funcs[i].name
                                           /\ tables'.funcs[i].entry = tables.funcs[i].entry
  PROVE  FuncsTell(line)'
<1>1. source' = source
  BY DEF Passed
<1>2. Before(m + 1, "FUNC") = Before(line, "FUNC")
  BY PassedCounts DEF Skipped
<1>3. \A d \in 1 .. m : TypeAt(d, 1) = "FUNC" => d \in 1 .. line - 1
  BY LinesPassed DEF Skipped
<1>4. \A d \in 1 .. line - 1 :
        TypeAt(d, 1) = "FUNC" => Before(d, "FUNC") + 1 \in 1 .. Len(tables.funcs)
  BY LinesPassed, FuncPlaced
<1>5. \A d \in 1 .. m : TypeAt(d, 1) = "FUNC" =>
        /\ tables'.funcs[Before(d, "FUNC") + 1].name = source[d][2].lexeme
        /\ tables'.funcs[Before(d, "FUNC") + 1].entry = Slot(d)
  BY <1>3, <1>4 DEF FuncsTell, FuncNode
<1>6. \A i \in 1 .. Len(tables.funcs) :
        \E d \in 1 .. m : TypeAt(d, 1) = "FUNC" /\ Before(d, "FUNC") + 1 = i
  BY LinesPassed DEF FuncsTell
<1>7. \A i, j \in 1 .. Len(tables.funcs) : tables'.funcs[i].name = tables'.funcs[j].name => i = j
  BY DEF FuncsTell
<1>8. line' = m + 1 /\ line' - 1 = m
  BY LinesPassed
<1> QED
  BY <1>1, <1>2, <1>5, <1>6, <1>7, <1>8, SamePlaces DEF FuncsTell, FuncNode

LEMMA FuncsAdd ==
  ASSUME WorkTyped, TablesTyped, NEW m, Passed(m), TypeAt(line, 1) = "FUNC", FuncsTell(line),
         NEW node, tables'.funcs = Append(tables.funcs, node),
         node.name = source[line][2].lexeme, node.entry = Slot(line),
         GetFuncByName(tables, node.name) = 0
  PROVE  FuncsTell(line)'
<1>1. source' = source
  BY DEF Passed
<1>2. Before(m + 1, "FUNC") = Before(line, "FUNC") + 1
  BY PassedCounts DEF Skipped
<1>3. \A d \in 1 .. m : TypeAt(d, 1) = "FUNC" => d \in 1 .. line - 1 \/ d = line
  BY LinesPassed DEF Skipped
<1>4. \A d \in 1 .. line - 1 :
        TypeAt(d, 1) = "FUNC" => Before(d, "FUNC") + 1 \in 1 .. Len(tables.funcs)
  BY LinesPassed, FuncPlaced
<1> DEFINE n == Len(tables.funcs)
<1>9. /\ n \in Nat /\ Len(tables'.funcs) = n + 1 /\ tables'.funcs[n + 1] = node
      /\ \A i \in 1 .. n : tables'.funcs[i] = tables.funcs[i]
      /\ Before(line, "FUNC") = n
      /\ \A i \in 1 .. n + 1 : i \in 1 .. n \/ i = n + 1
      /\ \A i \in 1 .. n : tables.funcs[i].name # node.name
  <2>1. tables.funcs \in Seq(FuncNodes)
    BY DEF TablesTyped
  <2>2. \A i \in 1 .. n : tables.funcs[i].name # node.name
    BY FuncFound
  <2> QED
    BY <2>1, <2>2 DEF FuncsTell
<1> HIDE DEF n
<1>5. \A d \in 1 .. m : TypeAt(d, 1) = "FUNC" =>
        /\ tables'.funcs[Before(d, "FUNC") + 1].name = source[d][2].lexeme
        /\ tables'.funcs[Before(d, "FUNC") + 1].entry = Slot(d)
  <2> SUFFICES ASSUME NEW d \in 1 .. m, TypeAt(d, 1) = "FUNC"
               PROVE  /\ tables'.funcs[Before(d, "FUNC") + 1].name = source[d][2].lexeme
                      /\ tables'.funcs[Before(d, "FUNC") + 1].entry = Slot(d)
    OBVIOUS
  <2>1. CASE d = line
    BY <1>9, <2>1
  <2>2. CASE d \in 1 .. line - 1
    BY <1>4, <1>9, <2>2 DEF FuncsTell, FuncNode, n
  <2> QED
    BY <1>3, <2>1, <2>2
<1>6. \A i \in 1 .. n + 1 :
        \E d \in 1 .. m : TypeAt(d, 1) = "FUNC" /\ Before(d, "FUNC") + 1 = i
  <2>1. \A i \in 1 .. n : \E d \in 1 .. m : TypeAt(d, 1) = "FUNC" /\ Before(d, "FUNC") + 1 = i
    BY LinesPassed DEF FuncsTell, n
  <2>2. line \in 1 .. m
    BY LinesPassed
  <2> QED
    BY <1>9, <2>1, <2>2
<1>7. \A i, j \in 1 .. n + 1 : tables'.funcs[i].name = tables'.funcs[j].name => i = j
  <2>1. \A i, j \in 1 .. n : tables.funcs[i].name = tables.funcs[j].name => i = j
    BY DEF FuncsTell, n
  <2> QED
    BY <1>9, <2>1
<1>8. line' = m + 1 /\ line' - 1 = m
  BY LinesPassed
<1>10. /\ \A l, i : TypeAt(l, i)' = TypeAt(l, i)
       /\ \A l, t : Before(l, t)' = Before(l, t)
       /\ \A l : Slot(l)' = Slot(l)
  BY <1>1, SamePlaces
<1>11. /\ Len(tables'.funcs) = Before(m + 1, "FUNC")
       /\ Len(tables'.funcs) = n + 1
  BY <1>2, <1>9
<1>12. \A d \in 1 .. line' - 1 : TypeAt(d, 1)' = "FUNC" =>
         /\ tables'.funcs[Before(d, "FUNC")' + 1].name = source'[d][2].lexeme
         /\ tables'.funcs[Before(d, "FUNC")' + 1].entry = Slot(d)'
  BY <1>1, <1>5, <1>8, <1>10
<1>13. \A i \in 1 .. Len(tables'.funcs) :
         \E d \in 1 .. line' - 1 : TypeAt(d, 1)' = "FUNC" /\ Before(d, "FUNC")' + 1 = i
  BY <1>6, <1>8, <1>10, <1>11
<1>14. \A i, j \in 1 .. Len(tables'.funcs) : tables'.funcs[i].name = tables'.funcs[j].name => i = j
  BY <1>7, <1>11
<1>15. Len(tables'.funcs) = Before(line, "FUNC")'
  BY <1>8, <1>10, <1>11
<1> QED
  BY <1>12, <1>13, <1>14, <1>15 DEF FuncsTell, FuncNode

\* The second pass finds again the function that the first one has entered.
LEMMA FuncTold ==
  ASSUME WorkTyped, TablesTyped, NEW n \in Nat, FuncsTell(n), NEW d \in 1 .. n - 1, TypeAt(d, 1) = "FUNC"
  PROVE  GetFuncByName(tables, source[d][2].lexeme) = Before(d, "FUNC") + 1
<1> DEFINE i == Before(d, "FUNC") + 1
           g == GetFuncByName(tables, source[d][2].lexeme)
<1>3. i \in 1 .. Len(tables.funcs) /\ tables.funcs[i].name = source[d][2].lexeme
  BY FuncPlaced DEF FuncsTell, FuncNode
<1>4. g # 0 /\ g \in 0 .. Len(tables.funcs) /\ tables.funcs[g].name = source[d][2].lexeme
  BY <1>3, FuncFound
<1>5. g \in 1 .. Len(tables.funcs)
  <2>1. Len(tables.funcs) \in Nat
    BY DEF TablesTyped
  <2> QED
    BY <1>4, <2>1
<1>6. \A a, b \in 1 .. Len(tables.funcs) : tables.funcs[a].name = tables.funcs[b].name => a = b
  BY DEF FuncsTell
<1> QED
  BY <1>3, <1>4, <1>5, <1>6

-----------------------------------------------------------------------------
(* Labels *)

LEMMA LabelsPass ==
  ASSUME WorkTyped, NEW m, Passed(m), LabelsTell(line), tables'.labels = tables.labels
  PROVE  LabelsTell(line)'
<1>1. source' = source
  BY DEF Passed
<1>2. \A i \in 1 .. Len(tables.labels) :
        \E d \in 1 .. m :
          /\ TypeAt(d, 1) = "IDENT" /\ source[d][1].lexeme = tables.labels[i].name
          /\ tables.labels[i].func = FuncOf(d) /\ tables.labels[i].target = Slot(d)
  BY LinesPassed DEF LabelsTell
<1>3. line' - 1 = m
  BY LinesPassed
<1> QED
  BY <1>1, <1>2, <1>3, SamePlaces DEF LabelsTell

LEMMA LabelsAdd ==
  ASSUME WorkTyped, TablesTyped, NEW m, Passed(m), LabelsTell(line), TypeAt(line, 1) = "IDENT",
         NEW node, tables'.labels = Append(tables.labels, node),
         node.name = source[line][1].lexeme, node.func = FuncOf(line), node.target = Slot(line)
  PROVE  LabelsTell(line)'
<1>1. source' = source
  BY DEF Passed
<1> DEFINE n == Len(tables.labels)
<1>2. /\ \A i \in 1 .. n : tables'.labels[i] = tables.labels[i]
      /\ tables'.labels[n + 1] = node
      /\ \A i \in 1 .. Len(tables'.labels) : i \in 1 .. n \/ i = n + 1
  BY DEF TablesTyped
<1> HIDE DEF n
<1>3. ASSUME NEW i \in 1 .. Len(tables'.labels)
      PROVE  \E d \in 1 .. m :
          /\ TypeAt(d, 1) = "IDENT" /\ source[d][1].lexeme = tables'.labels[i].name
          /\ tables'.labels[i].func = FuncOf(d) /\ tables'.labels[i].target = Slot(d)
  <2>1. line \in 1 .. m /\ 1 .. line - 1 \subseteq 1 .. m
    BY LinesPassed
  <2>2. CASE i \in 1 .. n
    <3>1. PICK d \in 1 .. line - 1 :
          /\ TypeAt(d, 1) = "IDENT" /\ source[d][1].lexeme = tables.labels[i].name
          /\ tables.labels[i].func = FuncOf(d) /\ tables.labels[i].target = Slot(d)
      BY <2>2 DEF LabelsTell, n
    <3> QED
      BY <1>2, <2>1, <2>2, <3>1
  <2>3. CASE i = n + 1
    BY <1>2, <2>1, <2>3
  <2> QED
    BY <1>2, <2>2, <2>3
<1>4. line' - 1 = m
  BY LinesPassed
<1>5. \A d : TypeAt(d, 1)' = TypeAt(d, 1) /\ FuncOf(d)' = FuncOf(d) /\ Slot(d)' = Slot(d)
  BY <1>1, SamePlaces
<1>6. \A i \in 1 .. Len(tables'.labels) :
        \E d \in 1 .. line' - 1 :
          /\ TypeAt(d, 1)' = "IDENT" /\ source'[d][1].lexeme = tables'.labels[i].name
          /\ tables'.labels[i].func = FuncOf(d)' /\ tables'.labels[i].target = Slot(d)'
  <2> SUFFICES ASSUME NEW i \in 1 .. Len(tables'.labels)
               PROVE  \E d \in 1 .. m :
                        /\ TypeAt(d, 1)' = "IDENT" /\ source[d][1].lexeme = tables'.labels[i].name
                        /\ tables'.labels[i].func = FuncOf(d)' /\ tables'.labels[i].target = Slot(d)'
    BY <1>1, <1>4
  <2> QED
    BY <1>3, <1>5
<1> QED
  BY <1>6 DEF LabelsTell
-----------------------------------------------------------------------------
(* Variables *)

LEMMA SymbolPlaced ==
  ASSUME NEW d \in Nat \ {0}, NEW n \in Nat, d < n, Declares(d)
  PROVE  SymbolIndex(d) \in 1 .. Before(n, "INT_DEF") + Before(n, "STRING_DEF")
<1> DEFINE a == Before(d, "INT_DEF")
           b == Before(d, "STRING_DEF")
           u == Before(n, "INT_DEF")
           v == Before(n, "STRING_DEF")
<1>1. a \in Nat /\ b \in Nat /\ u \in Nat /\ v \in Nat /\ a <= u /\ b <= v
  BY BeforeIsNat, BeforeGrows
<1>2. a + 1 <= u \/ b + 1 <= v
  BY BeforeLater DEF Declares
<1>3. SymbolIndex(d) = a + b + 1
  BY DEF SymbolIndex
<1> HIDE DEF a, b, u, v
<1> QED
  BY <1>1, <1>2, <1>3 DEF u, v

\* Variables are added, and none changed.
SymbolsKept ==
  /\ Len(tables.symbols) <= Len(tables'.symbols)
  /\ \A i \in 1 .. Len(tables.symbols) : tables'.symbols[i] = tables.symbols[i]

LEMMA SymbolKept ==
  ASSUME source' = source, SymbolsKept, NEW n \in Nat, SymbolsTell(n),
         NEW d \in 1 .. n - 1, Declares(d)
  PROVE  /\ SymbolIndex(d) \in 1 .. Len(tables.symbols)
         /\ SymbolOf(d) = tables.symbols[SymbolIndex(d)]
         /\ SymbolOf(d)' = SymbolOf(d) /\ EndOf(d)' = EndOf(d)
         /\ SymbolTold(d)'
<1>1. d \in Nat \ {0} /\ d < n
  OBVIOUS
<1>2. SymbolIndex(d) \in 1 .. Len(tables.symbols)
  BY <1>1, SymbolPlaced DEF SymbolsTell
<1>3. SymbolOf(d) = tables.symbols[SymbolIndex(d)] /\ SymbolOf(d)' = tables'.symbols[SymbolIndex(d)]
  BY SamePlaces DEF SymbolOf, SymbolIndex
<1>4. SymbolOf(d)' = SymbolOf(d)
  BY <1>2, <1>3 DEF SymbolsKept
<1>5. SymbolTold(d)
  BY DEF SymbolsTell
<1>6. SymbolTold(d)'
  BY <1>4, <1>5, SamePlaces DEF SymbolTold
<1> QED
  BY <1>2, <1>3, <1>4, <1>6 DEF EndOf

LEMMA SymbolsPass ==
  ASSUME WorkTyped, NEW m, Passed(m), ~Declares(line), SymbolsTell(line),
         tables'.symbols = tables.symbols
  PROVE  SymbolsTell(line)'
<1>1. source' = source
  BY DEF Passed
<1>2. line \in Nat /\ m \in Nat /\ line' - 1 = m /\ line' = m + 1
  BY LinesPassed
<1>3. /\ Before(m + 1, "INT_DEF") = Before(line, "INT_DEF")
      /\ Before(m + 1, "STRING_DEF") = Before(line, "STRING_DEF")
  BY PassedCounts DEF Skipped, Declares
<1>4. \A d \in 1 .. m : Declares(d) => d \in 1 .. line - 1
  BY LinesPassed DEF Skipped, Declares
<1>5. \A d \in 1 .. m : Declares(d) => SymbolTold(d)'
  <2>1. SymbolsKept
    <3>1. Len(tables.symbols) \in Nat
      BY <1>2, BeforeIsNat DEF SymbolsTell
    <3> QED
      BY <3>1 DEF SymbolsKept
  <2> QED
    BY <1>1, <1>2, <1>4, <2>1, SymbolKept
<1>6. \A i \in 1 .. Len(tables.symbols) : \E d \in 1 .. m : Declares(d) /\ SymbolIndex(d) = i
  BY LinesPassed DEF SymbolsTell
<1>7. /\ \A l, t : Before(l, t)' = Before(l, t)
      /\ \A l : Declares(l)' = Declares(l) /\ SymbolIndex(l)' = SymbolIndex(l)
  BY <1>1, SamePlaces
<1>8. Len(tables'.symbols) = Before(line, "INT_DEF")' + Before(line, "STRING_DEF")'
  BY <1>2, <1>3, <1>7 DEF SymbolsTell
<1>9. \A d \in 1 .. line' - 1 : Declares(d)' => SymbolTold(d)'
  BY <1>2, <1>5, <1>7
<1>10. \A i \in 1 .. Len(tables'.symbols) :
         \E d \in 1 .. line' - 1 : Declares(d)' /\ SymbolIndex(d)' = i
  BY <1>2, <1>6, <1>7
<1>11. \A i, j \in 1 .. Len(tables'.symbols) :
         i < j /\ tables'.symbols[i].name = tables'.symbols[j].name => tables'.symbols[i].index < 0
  BY DEF SymbolsTell
<1> QED
  BY <1>8, <1>9, <1>10, <1>11 DEF SymbolsTell

\* What the node of a declaration is made from.
NodeFits(node) ==
  /\ node.name = source[line][2].lexeme
  /\ IsLocal(line) <=> node.index < 0
  /\ IsLocal(line) => node.func = FuncOf(line)
  /\ node.size >= 4
  /\ node.type = "STRING_REF" => ~node.isArr

LEMMA SymbolsAdd ==
  ASSUME WorkTyped, TablesTyped, NEW m, Passed(m), Declares(line), SymbolsTell(line),
         NEW node, tables'.symbols = Append(tables.symbols, node), NodeFits(node),
         Symbol(node.name) = 0
  PROVE  /\ SymbolsTell(line)' /\ SymbolsKept
         /\ \A c : c = line => SymbolOf(c)' = node
         /\ \A d \in 1 .. m : Declares(d) => d \in 1 .. line - 1 \/ d = line
<1>1. source' = source
  BY DEF Passed
<1>2. line \in Nat /\ m \in Nat /\ line' - 1 = m /\ line' = m + 1 /\ line \in 1 .. m
  BY LinesPassed
<1> DEFINE n == Len(tables.symbols)
<1>3. /\ Before(m + 1, "INT_DEF") + Before(m + 1, "STRING_DEF") = n + 1
      /\ SymbolIndex(line) = n + 1
  <2> DEFINE a == Before(line, "INT_DEF")
             b == Before(line, "STRING_DEF")
  <2>1. /\ a \in Nat /\ b \in Nat
        /\ Before(m + 1, "INT_DEF") = a + IF TypeAt(line, 1) = "INT_DEF" THEN 1 ELSE 0
        /\ Before(m + 1, "STRING_DEF") = b + IF TypeAt(line, 1) = "STRING_DEF" THEN 1 ELSE 0
    BY PassedCounts DEF Skipped
  <2>2. n = a + b /\ SymbolIndex(line) = a + b + 1
    BY DEF SymbolsTell, SymbolIndex
  <2>3. TypeAt(line, 1) = "INT_DEF" \/ TypeAt(line, 1) = "STRING_DEF"
    BY DEF Declares
  <2> HIDE DEF a, b, n
  <2>4. CASE TypeAt(line, 1) = "INT_DEF"
    BY <2>1, <2>2, <2>4
  <2>5. CASE TypeAt(line, 1) = "STRING_DEF"
    BY <2>1, <2>2, <2>5
  <2> QED
    BY <2>3, <2>4, <2>5
<1>4. \A d \in 1 .. m : Declares(d) => d \in 1 .. line - 1 \/ d = line
  BY LinesPassed DEF Skipped, Declares
<1>5. /\ n \in Nat /\ Len(tables'.symbols) = n + 1 /\ tables'.symbols[n + 1] = node
      /\ \A i \in 1 .. n : tables'.symbols[i] = tables.symbols[i] /\ tables.symbols[i].index \in Int
      /\ \A i \in 1 .. n + 1 : i \in 1 .. n \/ i = n + 1
  <2>1. tables.symbols \in Seq(SymbolNodes)
    BY DEF TablesTyped
  <2>2. \A i \in 1 .. n : tables.symbols[i] \in SymbolNodes
    BY <2>1
  <2>3. \A i \in 1 .. n : tables.symbols[i].index \in Int
    BY <2>2 DEF SymbolNodes
  <2> QED
    BY <2>1, <2>3
<1>6. SymbolsKept
  BY <1>5 DEF SymbolsKept
<1>7. /\ \A l, t : Before(l, t)' = Before(l, t)
      /\ \A l : IsLocal(l)' = IsLocal(l) /\ FuncOf(l)' = FuncOf(l)
      /\ \A l : Declares(l)' = Declares(l) /\ SymbolIndex(l)' = SymbolIndex(l)
  BY <1>1, SamePlaces
<1>8. ASSUME NEW c, c = line  PROVE SymbolOf(c)' = node /\ SymbolTold(c)'
  <2>1. SymbolOf(c)' = tables'.symbols[SymbolIndex(c)]
    BY <1>1, SamePlaces DEF SymbolOf, SymbolIndex
  <2>2. SymbolOf(c)' = node
    BY <1>3, <1>5, <1>8, <2>1
  <2>3. /\ node.name = source[c][2].lexeme /\ (IsLocal(c) <=> node.index < 0)
        /\ IsLocal(c) => node.func = FuncOf(c)
        /\ node.size >= 4 /\ (node.type = "STRING_REF" => ~node.isArr)
    BY <1>8 DEF NodeFits
  <2>4. SymbolTold(c)'
    BY <1>1, <1>7, <2>2, <2>3 DEF SymbolTold
  <2> QED
    BY <2>2, <2>4
<1>9. \A d \in 1 .. m : Declares(d) => SymbolTold(d)'
  BY <1>1, <1>2, <1>4, <1>6, <1>8, SymbolKept
<1>10. \A i \in 1 .. n + 1 : \E d \in 1 .. m : Declares(d) /\ SymbolIndex(d) = i
  <2>1. \A i \in 1 .. n : \E d \in 1 .. m : Declares(d) /\ SymbolIndex(d) = i
    BY LinesPassed DEF SymbolsTell
  <2> QED
    BY <1>2, <1>3, <1>5, <2>1
<1>11. \A i, j \in 1 .. n + 1 :
         i < j /\ tables'.symbols[i].name = tables'.symbols[j].name => tables'.symbols[i].index < 0
  <2> SUFFICES ASSUME NEW i \in 1 .. n + 1, NEW j \in 1 .. n + 1, i < j,
                      tables'.symbols[i].name = tables'.symbols[j].name
               PROVE  tables'.symbols[i].index < 0
    OBVIOUS
  <2>1. i \in 1 .. n /\ (j \in 1 .. n \/ j = n + 1)
    BY <1>5
  <2>2. CASE j \in 1 .. n
    BY <1>5, <2>1, <2>2 DEF SymbolsTell
  <2>3. CASE j = n + 1
    <3>1. tables.symbols[i].name = node.name /\ tables.symbols[i].index \in Int
      BY <1>5, <2>1, <2>3
    <3>2. ~Matches(i, node.name)
      BY <2>1, SymbolFound
    <3>3. ~(tables.symbols[i].index >= 0)
      BY <3>1, <3>2 DEF Matches
    <3> QED
      BY <1>5, <2>1, <3>1, <3>3
  <2> QED
    BY <2>1, <2>2, <2>3
<1>12. Len(tables'.symbols) = Before(line, "INT_DEF")' + Before(line, "STRING_DEF")'
  BY <1>2, <1>3, <1>5, <1>7
<1>13. \A d \in 1 .. line' - 1 : Declares(d)' => SymbolTold(d)'
  BY <1>2, <1>7, <1>9
<1>14. \A i \in 1 .. Len(tables'.symbols) :
         \E d \in 1 .. line' - 1 : Declares(d)' /\ SymbolIndex(d)' = i
  BY <1>2, <1>5, <1>7, <1>10
<1>15. \A i, j \in 1 .. Len(tables'.symbols) :
         i < j /\ tables'.symbols[i].name = tables'.symbols[j].name => tables'.symbols[i].index < 0
  BY <1>5, <1>11
<1>16. SymbolsTell(line)'
  BY <1>12, <1>13, <1>14, <1>15 DEF SymbolsTell
<1> QED
  BY <1>4, <1>6, <1>8, <1>16

-----------------------------------------------------------------------------
(* Storage *)

\* A local variable is one of the current function, or of one that has ended.
LEMMA LocalEnds ==
  ASSUME PassInv, phase = "first", NEW d \in 1 .. line - 1, IsLocal(d)
  PROVE  /\ FuncOf(d) + 1 \in 1 .. Before(line, "FUNC") /\ FuncOf(d) \in Nat
         /\ ~scope.active => Ended(d, line)
         /\ scope.active => /\ FuncOf(line) = Before(line, "CLOSE_BRACE") /\ FuncOf(line) \in Nat
                            /\ Ended(d, line) \/ FuncOf(d) = FuncOf(line)
<1>1. d \in Nat /\ line \in Nat /\ d <= line
  BY DEF PassInv, WorkTyped
<1>2. /\ Before(d, "FUNC") \in Nat /\ Before(line, "FUNC") \in Nat
      /\ Before(d, "FUNC") <= Before(line, "FUNC")
      /\ Before(d, "CLOSE_BRACE") \in Nat /\ Before(line, "CLOSE_BRACE") \in Nat
  BY <1>1, BeforeIsNat, BeforeGrows
<1>3. Before(line, "FUNC") = Before(line, "CLOSE_BRACE") + IF scope.active THEN 1 ELSE 0
  BY DEF PassInv, FirstCounts
<1>4. Before(d, "FUNC") > Before(d, "CLOSE_BRACE")
  BY DEF IsLocal
<1> QED
  BY <1>2, <1>3, <1>4 DEF FuncOf, Ended

\* The place of a variable is a number.
LEMMA PlaceIs ==
  ASSUME TablesTyped, NEW d, SymbolIndex(d) \in 1 .. Len(tables.symbols)
  PROVE  SymbolOf(d).index \in Int /\ SymbolOf(d).size \in Nat /\ EndOf(d) \in Int
<1>1. SymbolOf(d) \in SymbolNodes
  BY DEF TablesTyped, SymbolOf, SymbolIndex
<1>2. SymbolOf(d).index \in Int /\ SymbolOf(d).size \in Nat
  BY <1>1 DEF SymbolNodes
<1> QED
  BY <1>2 DEF EndOf

LEMMA StoredKept ==
  ASSUME WorkTyped, TablesTyped, NEW m, Passed(m), phase = "first", SymbolsTell(line), SymbolsKept,
         NEW d \in 1 .. line - 1, Declares(d), Stored(d, line),
         header.globals \in Nat, header'.globals \in Nat, header.globals <= header'.globals,
         scope.size \in Nat, scope'.size \in Nat,
         IsLocal(d) /\ FuncOf(d) < Before(m + 1, "CLOSE_BRACE") =>
           LET size  == tables.funcs[FuncOf(d) + 1].size
               size1 == tables'.funcs[FuncOf(d) + 1].size
           IN  \/ Ended(d, line) /\ size1 = size
               \/ ~Ended(d, line) /\ size1 = scope.size,
         IsLocal(d) /\ ~ (FuncOf(d) < Before(m + 1, "CLOSE_BRACE")) =>
           ~Ended(d, line) /\ scope.size <= scope'.size
  PROVE  Stored(d, line)'
<1>1. line \in Nat /\ line' = m + 1 /\ source' = source /\ phase' = "first"
  BY LinesPassed DEF Passed
<1>2. /\ SymbolIndex(d) \in 1 .. Len(tables.symbols)
      /\ SymbolOf(d)' = SymbolOf(d) /\ EndOf(d)' = EndOf(d)
  BY <1>1, SymbolKept
<1>3. SymbolOf(d).index \in Int /\ EndOf(d) \in Int
  BY <1>2, PlaceIs
<1>4. /\ IsLocal(d)' = IsLocal(d) /\ FuncOf(d)' = FuncOf(d)
      /\ Ended(d, line)' = (FuncOf(d) < Before(m + 1, "CLOSE_BRACE"))
  BY <1>1, SamePlaces DEF Ended
<1> DEFINE ended  == Ended(d, line)
           ended1 == FuncOf(d) < Before(m + 1, "CLOSE_BRACE")
           size   == tables.funcs[FuncOf(d) + 1].size
           size1  == tables'.funcs[FuncOf(d) + 1].size
           index  == SymbolOf(d).index
           top    == EndOf(d)
<1>5. /\ ~IsLocal(d) => top <= header.globals
      /\ IsLocal(d) => top <= 0
      /\ IsLocal(d) /\ ended => -size <= index
      /\ IsLocal(d) /\ ~ended => -scope.size <= index
  BY DEF Stored
<1>6. /\ IsLocal(d) /\ ended1 => (ended /\ size1 = size) \/ (~ended /\ size1 = scope.size)
      /\ IsLocal(d) /\ ~ended1 => ~ended /\ scope.size <= scope'.size
  OBVIOUS
<1>7. index \in Int /\ top \in Int
  BY <1>3
<1> HIDE DEF ended, ended1, size, size1, index, top
<1>8. /\ ~IsLocal(d) => top <= header'.globals
      /\ IsLocal(d) => top <= 0
      /\ IsLocal(d) /\ ended1 => -size1 <= index
      /\ IsLocal(d) /\ ~ended1 => -scope'.size <= index
  BY <1>5, <1>6, <1>7
<1> QED
  BY <1>1, <1>2, <1>4, <1>8 DEF Stored, ended1, size1, index, top

\* A line that declares nothing.
LEMMA StoragePass ==
  ASSUME WorkTyped, NEW m, Passed(m), SymbolsTell(line), tables'.symbols = tables.symbols,
         Storage(line), ~Declares(line), \A d \in 1 .. line - 1 : Declares(d) => Stored(d, line)'
  PROVE  Storage(line)'
<1>1. line \in Nat /\ m \in Nat /\ line' - 1 = m /\ source' = source
  BY LinesPassed DEF Passed
<1>2. \A d \in 1 .. m : Declares(d) => d \in 1 .. line - 1
  BY LinesPassed DEF Skipped, Declares
<1>3. SymbolsKept
  <2>1. Len(tables.symbols) \in Nat
    BY <1>1, BeforeIsNat DEF SymbolsTell
  <2> QED
    BY <2>1 DEF SymbolsKept
<1>4. \A d \in 1 .. line - 1 : Declares(d) => SymbolOf(d)' = SymbolOf(d) /\ EndOf(d)' = EndOf(d)
  BY <1>1, <1>3, SymbolKept
<1>5. /\ \A l : IsLocal(l)' = IsLocal(l) /\ FuncOf(l)' = FuncOf(l) /\ Declares(l)' = Declares(l)
  BY <1>1, SamePlaces
<1>6. ASSUME NEW d \in 1 .. m, NEW e \in 1 .. d - 1, Declares(d), Declares(e)
      PROVE  /\ ~IsLocal(d) /\ ~IsLocal(e) => EndOf(e)' <= SymbolOf(d)'.index
             /\ IsLocal(d) /\ IsLocal(e) /\ FuncOf(d) = FuncOf(e) => EndOf(d)' <= SymbolOf(e)'.index
  <2>1. d \in 1 .. line - 1 /\ e \in 1 .. line - 1
    BY <1>1, <1>2, <1>6
  <2>2. /\ ~IsLocal(d) /\ ~IsLocal(e) => EndOf(e) <= SymbolOf(d).index
        /\ IsLocal(d) /\ IsLocal(e) /\ FuncOf(d) = FuncOf(e) => EndOf(d) <= SymbolOf(e).index
    BY <1>6, <2>1 DEF Storage
  <2> QED
    BY <1>4, <1>6, <2>1, <2>2
<1>7. \A d \in 1 .. m : Declares(d) => Stored(d, line)'
  BY <1>2
<1> QED
  BY <1>1, <1>5, <1>6, <1>7 DEF Storage

\* A declaration: global data grow upwards, the frame of the function downwards.
LEMMA StorageAdd ==
  ASSUME PassInv, TablesTyped, NEW m, Passed(m), phase = "first", SymbolsTell(line),
         Declares(line), NEW node, tables'.symbols = Append(tables.symbols, node), NodeFits(node),
         Symbol(node.name) = 0, Storage(line), tables'.funcs = tables.funcs,
         header.globals \in Nat, scope.size \in Nat, node.size \in Nat,
         node.index = IF scope.active THEN -(scope.size + node.size) ELSE header.globals,
         header'.globals = IF scope.active THEN header.globals ELSE header.globals + node.size,
         scope'.size = IF scope.active THEN scope.size + node.size ELSE scope.size
  PROVE  Storage(line)'
<1>1. /\ line \in Nat /\ m \in Nat /\ line' - 1 = m /\ line' = m + 1 /\ source' = source
      /\ phase' = "first" /\ WorkTyped /\ line \in 1 .. m
  BY LinesPassed DEF Passed, PassInv
<1>2. /\ SymbolsKept
      /\ \A c : c = line => SymbolOf(c)' = node
      /\ \A d \in 1 .. m : Declares(d) => d \in 1 .. line - 1 \/ d = line
  BY <1>1, SymbolsAdd
<1>3. Before(m + 1, "CLOSE_BRACE") = Before(line, "CLOSE_BRACE")
  BY <1>1, PassedCounts, SMTT(30) DEF Skipped, Declares
<1>4. /\ \A d \in 1 .. line - 1 : Declares(d) => SymbolOf(d)' = SymbolOf(d) /\ EndOf(d)' = EndOf(d)
      /\ \A d \in 1 .. line - 1 : Declares(d) => SymbolOf(d).index \in Int /\ EndOf(d) \in Int
  BY <1>1, <1>2, SymbolKept, PlaceIs
<1>5. /\ \A l : IsLocal(l)' = IsLocal(l) /\ FuncOf(l)' = FuncOf(l) /\ Declares(l)' = Declares(l)
      /\ \A l, t : Before(l, t)' = Before(l, t)
  BY <1>1, SamePlaces
<1>6. /\ Before(line, "CLOSE_BRACE") \in Nat
      /\ Before(line, "FUNC") = Before(line, "CLOSE_BRACE") + IF scope.active THEN 1 ELSE 0
      /\ IsLocal(line) <=> scope.active
      /\ scope.active => FuncOf(line) = Before(line, "CLOSE_BRACE")
  <2>1. Before(line, "CLOSE_BRACE") \in Nat
    BY <1>1, BeforeIsNat
  <2>2. Before(line, "FUNC") = Before(line, "CLOSE_BRACE") + IF scope.active THEN 1 ELSE 0
    BY DEF PassInv, FirstCounts
  <2> QED
    BY <2>1, <2>2 DEF IsLocal, FuncOf
<1>7. /\ ~scope.active => /\ node.index = header.globals
                          /\ node.index + node.size = header'.globals
      /\ scope.active => /\ node.index = -scope'.size
                         /\ node.index + node.size = -scope.size
                         /\ node.index + node.size <= 0
      /\ header'.globals \in Nat /\ header.globals <= header'.globals
      /\ scope'.size \in Nat /\ scope.size <= scope'.size
  <2>1. CASE scope.active
    BY <2>1
  <2>2. CASE ~scope.active
    BY <2>2
  <2> QED
    BY <2>1, <2>2
<1>8. \A d \in 1 .. line - 1 : Declares(d) => Stored(d, line)'
  <2> SUFFICES ASSUME NEW d \in 1 .. line - 1, Declares(d)  PROVE Stored(d, line)'
    OBVIOUS
  <2>1. Stored(d, line)
    BY DEF Storage
  <2>2. Ended(d, line) <=> FuncOf(d) < Before(m + 1, "CLOSE_BRACE")
    BY <1>3 DEF Ended
  <2> QED
    BY <1>1, <1>2, <1>7, <2>1, <2>2, StoredKept
<1>9. ASSUME NEW c, c = line
      PROVE  Stored(c, line)' /\ SymbolOf(c)'.index = node.index /\ EndOf(c)' = node.index + node.size
  <2>1. SymbolOf(c)' = node /\ EndOf(c)' = node.index + node.size
    BY <1>2, <1>9 DEF EndOf
  <2>2. IsLocal(c)' <=> scope.active
    BY <1>5, <1>6, <1>9
  <2>3. scope.active => ~Ended(c, line)'
    <3>1. scope.active => ~ (FuncOf(c) < Before(m + 1, "CLOSE_BRACE"))
      BY <1>3, <1>6, <1>9
    <3> QED
      BY <1>1, <1>5, <3>1 DEF Ended
  <2> QED
    BY <1>1, <1>7, <2>1, <2>2, <2>3 DEF Stored
<1>10. \A d \in 1 .. m : Declares(d) => Stored(d, line)'
  BY <1>2, <1>8, <1>9
<1>11. ASSUME NEW d \in 1 .. m, NEW e \in 1 .. d - 1, Declares(d), Declares(e)
       PROVE  /\ ~IsLocal(d) /\ ~IsLocal(e) => EndOf(e)' <= SymbolOf(d)'.index
              /\ IsLocal(d) /\ IsLocal(e) /\ FuncOf(d) = FuncOf(e) => EndOf(d)' <= SymbolOf(e)'.index
  <2>1. e \in 1 .. line - 1 /\ (d \in 1 .. line - 1 \/ d = line)
    BY <1>1, <1>2, <1>11
  <2>2. CASE d \in 1 .. line - 1
    <3>1. /\ ~IsLocal(d) /\ ~IsLocal(e) => EndOf(e) <= SymbolOf(d).index
          /\ IsLocal(d) /\ IsLocal(e) /\ FuncOf(d) = FuncOf(e) => EndOf(d) <= SymbolOf(e).index
      BY <1>11, <2>2 DEF Storage
    <3> QED
      BY <1>4, <1>11, <2>1, <2>2, <3>1
  <2>3. CASE d = line
    <3>1. Stored(e, line) /\ EndOf(e)' = EndOf(e) /\ SymbolOf(e)' = SymbolOf(e)
      BY <1>4, <1>11, <2>1 DEF Storage
    <3>2. SymbolOf(d)'.index = node.index /\ EndOf(d)' = node.index + node.size
      BY <1>9, <2>3
    <3>3. CASE scope.active
      <4>1. IsLocal(e) /\ FuncOf(e) = FuncOf(d) => -scope.size <= SymbolOf(e).index
        BY <1>6, <2>3, <3>1, <3>3 DEF Stored, Ended
      <4> QED
        BY <1>6, <1>7, <2>3, <3>1, <3>2, <3>3, <4>1
    <3>4. CASE ~scope.active
      <4>1. ~IsLocal(e) => EndOf(e) <= header.globals
        BY <3>1 DEF Stored
      <4> QED
        BY <1>6, <1>7, <2>3, <3>1, <3>2, <3>4, <4>1
    <3> QED
      BY <3>3, <3>4
  <2> QED
    BY <2>1, <2>2, <2>3
<1> QED
  BY <1>1, <1>5, <1>10, <1>11 DEF Storage

-----------------------------------------------------------------------------
(* The tables in the first pass *)

LEMMA ExitTells ==
  /\ \A err : Return(err) => TablesInv'
  /\ Abort => TablesInv'
  /\ \A err : ExitOnError(err) => TablesInv'
  /\ \A err : Refused(err) => TablesInv'
<1>1. ASSUME NEW err, Return(err)  PROVE TablesInv'
  BY <1>1 DEF Return, TablesInv
<1>2. Abort => TablesInv'
  BY DEF Abort, TablesInv
<1> QED
  BY <1>1, <1>2 DEF ExitOnError, Refused

\* A line that is passed without another.
LEMMA OneLine ==
  ASSUME PassInv, NEW type, type # "FUNC", Reads("first", type),
         Passes("NO_ERR"), SkipToNextLine(line),
         scope'.active = IF type = "CLOSE_BRACE" THEN FALSE ELSE scope.active,
         DOMAIN scope' = {"active", "func", "size"}
  PROVE  Passed(line) /\ TypeAt(line, 1) = type /\ phase = "first" /\ phase' = "first" /\ WorkTyped
<1>1. TypeAt(line, 1) = type /\ line \in DOMAIN source /\ phase = "first" /\ WorkTyped
  BY DEF Reads, Type, PassInv
<1>2. line \in line .. Len(source) /\ line + 1 .. line = {}
  BY <1>1 DEF WorkTyped
<1> QED
  BY <1>1, <1>2 DEF Passed, Passes, SkipToNextLine

LEMMA ScopePass ==
  ASSUME WorkTyped, NEW m, Passed(m), TypeAt(line, 1) # "FUNC", ScopeTells, scope'.func = scope.func
  PROVE  ScopeTells'
<1>1. Before(m + 1, "FUNC") = Before(line, "FUNC")
  BY PassedCounts DEF Skipped
<1>2. Before(line, "FUNC")' = Before(m + 1, "FUNC")
  BY SamePlaces, LinesPassed DEF Passed
<1> QED
  BY <1>1, <1>2 DEF ScopeTells, FuncOf

\* A line that declares nothing, and neither begins nor ends a function.
LEMMA QuietLine ==
  ASSUME PassInv, RestTyped, TablesInv, NEW type,
         type \notin {"FUNC", "CLOSE_BRACE", "INT_DEF", "STRING_DEF"},
         Reads("first", type), Passes("NO_ERR"), SkipToNextLine(line), UNCHANGED scope,
         tables'.funcs = tables.funcs, tables'.symbols = tables.symbols,
         header'.globals = header.globals
  PROVE  /\ LabelsTell(line)' => TablesInv'
         /\ tables'.labels = tables.labels => TablesInv'
         /\ Passed(line) /\ TypeAt(line, 1) = type /\ WorkTyped /\ LabelsTell(line)
<1>1. scope'.active = scope.active /\ DOMAIN scope' = {"active", "func", "size"}
  BY DEF PassInv, WorkTyped
<1>2. Passed(line) /\ TypeAt(line, 1) = type /\ phase = "first" /\ phase' = "first" /\ WorkTyped
  BY <1>1, OneLine
<1>3. Tells(line) /\ ScopeTells /\ TablesTyped /\ line \in Nat
  BY <1>2, TablesAre DEF TablesInv, WorkTyped
<1>4. FuncsTell(line)'
  BY <1>2, <1>3, FuncsPass DEF Tells
<1>5. tables'.labels = tables.labels => LabelsTell(line)'
  BY <1>2, <1>3, LabelsPass DEF Tells
<1>6. ~Declares(line)
  BY <1>2 DEF Declares
<1>7. SymbolsTell(line)'
  BY <1>2, <1>3, <1>6, SymbolsPass DEF Tells
<1>8. SymbolsKept
  BY <1>3 DEF SymbolsKept, TablesTyped
<1>9. header.globals \in Nat /\ scope.size \in Nat
  BY DEF RestTyped, Headers, Scopes
<1>10. ASSUME NEW d \in 1 .. line - 1, Declares(d)  PROVE Stored(d, line)'
  <2>1. Before(line + 1, "CLOSE_BRACE") = Before(line, "CLOSE_BRACE")
    BY <1>2, PassedCounts DEF Skipped
  <2>2. Ended(d, line) <=> FuncOf(d) < Before(line + 1, "CLOSE_BRACE")
    BY <2>1 DEF Ended
  <2>3. Stored(d, line) /\ SymbolsTell(line)
    BY <1>3, <1>10 DEF Tells, Storage
  <2> QED
    BY <1>2, <1>3, <1>8, <1>9, <1>10, <2>2, <2>3, StoredKept
<1>11. Storage(line)'
  BY <1>2, <1>3, <1>6, <1>10, StoragePass DEF Tells
<1>12. ScopeTells'
  BY <1>2, <1>3, ScopePass
<1> QED
  BY <1>2, <1>3, <1>4, <1>5, <1>7, <1>11, <1>12 DEF TablesInv, Tells

LEMMA SetStackSizeTells == PassInv /\ RestTyped /\ TablesInv /\ SetStackSize => TablesInv'
<1> SUFFICES ASSUME PassInv, RestTyped, TablesInv, SetStackSize  PROVE TablesInv'
  OBVIOUS
<1>1. CASE Refused(SetStackSizeError)
  BY <1>1, ExitTells
<1>2. CASE /\ Passes(SetStackSizeError) /\ SkipToNextLine(line)
           /\ header' = [header EXCEPT !.stack = Lexeme(2), !.found = TRUE]
           /\ UNCHANGED <<scope, tables>>
  <2>1. Passes("NO_ERR") /\ Reads("first", "SETSTACKSIZE")
    BY <1>2 DEF Passes, SetStackSize
  <2>2. header'.globals = header.globals
    BY <1>2 DEF RestTyped, Headers
  <2> QED
    BY <1>2, <2>1, <2>2, QuietLine
<1> QED
  BY <1>1, <1>2 DEF SetStackSize

LEMMA CountInstrTells == PassInv /\ RestTyped /\ TablesInv /\ CountInstr => TablesInv'
<1> SUFFICES ASSUME PassInv, RestTyped, TablesInv, CountInstr  PROVE TablesInv'
  OBVIOUS
<1>1. CASE Refused(CountInstrError)
  BY <1>1, ExitTells
<1>2. CASE Passes(CountInstrError) /\ SkipToNextLine(line) /\ UNCHANGED <<scope, header, tables>>
  <2>1. Passes("NO_ERR") /\ Reads("first", "INSTR")
    BY <1>2 DEF Passes, CountInstr
  <2> QED
    BY <1>2, <2>1, QuietLine
<1> QED
  BY <1>1, <1>2 DEF CountInstr

\* The place of a label is that of the instruction after it.
LEMMA DefineLabelTells == PassInv /\ RestTyped /\ TablesInv /\ DefineLabel => TablesInv'
<1> SUFFICES ASSUME PassInv, RestTyped, TablesInv, DefineLabel  PROVE TablesInv'
  OBVIOUS
<1>1. CASE Refused(DefineLabelError)
  BY <1>1, ExitTells
<1> DEFINE node == [name |-> Lexeme(1), target |-> LabelTarget, func |-> scope.func]
<1>2. CASE /\ Passes(DefineLabelError) /\ SkipToNextLine(line) /\ UNCHANGED <<scope, header>>
           /\ tables' = AddLabel(tables, Lexeme(1), LabelTarget, scope.func)
  <2>1. Passes("NO_ERR") /\ Reads("first", "IDENT") /\ scope.active /\ phase = "first"
    BY <1>2 DEF Passes, DefineLabel, DefineLabelError, Reads
  <2>2. /\ tables'.labels = Append(tables.labels, node)
        /\ tables'.funcs = tables.funcs /\ tables'.symbols = tables.symbols
    BY <1>2, TablesAre DEF AddLabel
  <2>3. /\ Passed(line) /\ TypeAt(line, 1) = "IDENT" /\ WorkTyped /\ LabelsTell(line)
        /\ LabelsTell(line)' => TablesInv'
    BY <1>2, <2>1, <2>2, QuietLine
  <2>4. /\ Before(line, "INSTR") \in Nat /\ Before(line, "CLOSE_BRACE") \in Nat
        /\ streamSize = Before(line, "INSTR") + Before(line, "FUNC")
        /\ Before(line, "FUNC") = Before(line, "CLOSE_BRACE") + 1
    BY <2>1, BeforeIsNat DEF PassInv, FirstCounts, WorkTyped
  <2>5. LabelTarget = Slot(line) /\ scope.func = FuncOf(line)
    BY <2>1, <2>4 DEF LabelTarget, Slot, TablesInv, ScopeTells
  <2>6. node.name = source[line][1].lexeme /\ node.func = FuncOf(line) /\ node.target = Slot(line)
    BY <2>5 DEF Lexeme
  <2>7. LabelsTell(line)'
    BY <2>2, <2>3, <2>6, LabelsAdd, TablesAre
  <2> QED
    BY <2>3, <2>7
<1> QED
  BY <1>1, <1>2 DEF DefineLabel

\* A declaration.
LEMMA DeclarationTells ==
  ASSUME PassInv, RestTyped, TablesInv, NEW type \in {"INT_DEF", "STRING_DEF"},
         Reads("first", type), Passes("NO_ERR"), SkipToNextLine(line),
         NEW node, tables'.symbols = Append(tables.symbols, node),
         tables'.funcs = tables.funcs, tables'.labels = tables.labels,
         node.name = source[line][2].lexeme, Symbol(node.name) = 0, node.func = scope.func,
         node.size \in Nat, node.size >= 4, node.type = "STRING_REF" => ~node.isArr,
         node.index = IF scope.active THEN -(scope.size + node.size) ELSE header.globals,
         header'.globals = IF scope.active THEN header.globals ELSE header.globals + node.size,
         scope' = [scope EXCEPT !.size = IF scope.active THEN @ + node.size ELSE @]
  PROVE  TablesInv'
<1>1. /\ scope'.active = scope.active /\ DOMAIN scope' = {"active", "func", "size"}
      /\ scope'.func = scope.func
      /\ scope'.size = IF scope.active THEN scope.size + node.size ELSE scope.size
  BY DEF PassInv, WorkTyped
<1>2. Passed(line) /\ TypeAt(line, 1) = type /\ phase = "first" /\ phase' = "first" /\ WorkTyped
  BY <1>1, OneLine
<1>3. Tells(line) /\ ScopeTells /\ TablesTyped /\ line \in Nat
  BY <1>2, TablesAre DEF TablesInv, WorkTyped
<1>4. FuncsTell(line)'
  BY <1>2, <1>3, FuncsPass DEF Tells
<1>5. LabelsTell(line)'
  BY <1>2, <1>3, LabelsPass DEF Tells
<1>6. Declares(line)
  BY <1>2 DEF Declares
<1>7. header.globals \in Nat /\ scope.size \in Nat /\ scope.active \in BOOLEAN
  BY DEF RestTyped, Headers, Scopes
<1>8. /\ IsLocal(line) <=> scope.active
      /\ IsLocal(line) => Before(line, "FUNC") > 0
  <2>1. Before(line, "CLOSE_BRACE") \in Nat
    BY <1>3, BeforeIsNat
  <2>2. Before(line, "FUNC") = Before(line, "CLOSE_BRACE") + IF scope.active THEN 1 ELSE 0
    BY <1>2 DEF PassInv, FirstCounts
  <2> QED
    BY <2>1, <2>2 DEF IsLocal
<1>9. NodeFits(node)
  <2>1. IsLocal(line) <=> node.index < 0
    <3>1. CASE scope.active
      <4>1. node.index = -(scope.size + node.size)
        BY <3>1
      <4>2. node.index < 0
        BY <1>7, <4>1
      <4> QED
        BY <1>8, <3>1, <4>2
    <3>2. CASE ~scope.active
      BY <1>7, <1>8, <3>2
    <3> QED
      BY <3>1, <3>2
  <2>2. IsLocal(line) => node.func = FuncOf(line)
    BY <1>3, <1>8 DEF ScopeTells
  <2> QED
    BY <2>1, <2>2 DEF NodeFits
<1>10. SymbolsTell(line)'
  BY <1>2, <1>3, <1>6, <1>9, SymbolsAdd DEF Tells
<1>11. Storage(line)'
  BY <1>1, <1>2, <1>3, <1>6, <1>7, <1>9, StorageAdd DEF Tells
<1>12. ScopeTells'
  BY <1>1, <1>2, <1>3, ScopePass
<1> QED
  BY <1>2, <1>4, <1>5, <1>10, <1>11, <1>12 DEF TablesInv, Tells

LEMMA DefineStringTells == PassInv /\ RestTyped /\ TablesInv /\ DefineString => TablesInv'
<1> SUFFICES ASSUME PassInv, RestTyped, TablesInv, DefineString  PROVE TablesInv'
  OBVIOUS
<1>1. CASE Refused(DefineStringError)
  BY <1>1, ExitTells
<1>2. CASE Passes(DefineStringError) /\ ~Refused(DefineStringError)
  <2>1. Passes("NO_ERR") /\ ~scope.active /\ Symbol(Lexeme(2)) = 0
    BY <1>2 DEF Passes, DefineStringError
  <2>2. /\ header' = [header EXCEPT !.globals = @ + 4] /\ SkipToNextLine(line)
        /\ scope' = scope /\ Reads("first", "STRING_DEF")
    BY <1>2 DEF DefineString
  <2> DEFINE known == IF Type(4) = "STRING"
                      THEN [tables EXCEPT !.strings = WithString(@, Lexeme(4))]
                      ELSE tables
             node(v) == [name |-> Lexeme(2), type |-> "STRING_REF", value |-> v, isArr |-> FALSE,
                         size |-> 4, index |-> header.globals, func |-> scope.func]
  <2>3. PICK v \in IF Type(4) = "STRING" THEN {StringOffset(tables.strings, Lexeme(4))} ELSE Junk :
             tables' = AddSymbol(known, node(v))
    BY <1>2, Zenon DEF DefineString
  <2>4. /\ known.funcs = tables.funcs /\ known.labels = tables.labels
        /\ known.symbols = tables.symbols
        /\ known = [funcs |-> known.funcs, labels |-> known.labels, symbols |-> known.symbols,
                    strings |-> known.strings, apis |-> known.apis]
    BY TablesAre
  <2> HIDE DEF known
  <2>5. /\ node(v).name = Lexeme(2) /\ node(v).func = scope.func /\ node(v).size = 4
        /\ node(v).index = header.globals /\ ~node(v).isArr
    OBVIOUS
  <2> HIDE DEF node
  <2>6. /\ tables'.symbols = Append(tables.symbols, node(v))
        /\ tables'.funcs = tables.funcs /\ tables'.labels = tables.labels
    BY <2>3, <2>4 DEF AddSymbol
  <2>7. header'.globals = header.globals + 4
    BY <2>2 DEF RestTyped, Headers
  <2>8. scope' = [scope EXCEPT !.size = IF scope.active THEN @ + node(v).size ELSE @]
    BY <2>1, <2>2 DEF RestTyped, Scopes
  <2>9. /\ node(v).name = source[line][2].lexeme /\ Symbol(node(v).name) = 0
        /\ node(v).size \in Nat /\ node(v).size >= 4
        /\ (node(v).type = "STRING_REF" => ~node(v).isArr)
        /\ node(v).index = IF scope.active THEN -(scope.size + node(v).size) ELSE header.globals
        /\ header'.globals = IF scope.active THEN header.globals ELSE header.globals + node(v).size
    BY <2>1, <2>5, <2>7 DEF Lexeme
  <2> QED
    BY <2>1, <2>2, <2>5, <2>6, <2>8, <2>9, DeclarationTells
<1> QED
  BY <1>1, <1>2 DEF DefineString

LEMMA DefineIntTells == PassInv /\ RestTyped /\ TablesInv /\ DefineInt => TablesInv'
<1> SUFFICES ASSUME PassInv, RestTyped, TablesInv, DefineInt  PROVE TablesInv'
  OBVIOUS
<1>1. CASE Refused(DefineIntError)
  BY <1>1, ExitTells
<1>2. CASE Passes(DefineIntError) /\ ~Refused(DefineIntError)
  <2>1. /\ Passes("NO_ERR") /\ Symbol(Lexeme(2)) = 0 /\ source \in Seq(Lines)
        /\ IsArray => Type(4) = "INT" /\ ~ (Lexeme(4) <= 0)
    BY <1>2 DEF Passes, DefineIntError, PassInv, WorkTyped
  <2>2. IsArray => Lexeme(4) \in Int
    BY <2>1, TokenIs DEF Lexeme, Type
  <2> DEFINE size == IF IsArray THEN 4 * Lexeme(4) ELSE 4
             node == [name |-> Lexeme(2), type |-> "INT", value |-> 0, isArr |-> IsArray, size |-> size,
                      index |-> IF scope.active THEN LocalIndex(size) ELSE header.globals,
                      func |-> scope.func]
  <2>3. size \in Nat /\ size >= 4
    BY <2>1, <2>2
  <2>4. /\ tables' = AddSymbol(tables, node)
        /\ scope' = [scope EXCEPT !.size = IF scope.active THEN @ + size ELSE @]
        /\ header' = [header EXCEPT !.globals = IF scope.active THEN @ ELSE @ + size]
        /\ Reads("first", "INT_DEF") /\ SkipToNextLine(line)
    BY <1>2, Zenon DEF DefineInt
  <2> HIDE DEF size
  <2>5. /\ node.name = Lexeme(2) /\ node.func = scope.func /\ node.size = size /\ node.type = "INT"
        /\ node.index = IF scope.active THEN -(scope.size + size) ELSE header.globals
    BY DEF LocalIndex
  <2> HIDE DEF node
  <2>6. /\ tables'.symbols = Append(tables.symbols, node)
        /\ tables'.funcs = tables.funcs /\ tables'.labels = tables.labels
    BY <2>4, TablesAre DEF AddSymbol
  <2>7. header'.globals = IF scope.active THEN header.globals ELSE header.globals + size
    BY <2>4 DEF RestTyped, Headers
  <2>8. node.name = source[line][2].lexeme /\ Symbol(node.name) = 0 /\ node.type # "STRING_REF"
    BY <2>1, <2>5 DEF Lexeme
  <2> QED
    BY <2>1, <2>3, <2>4, <2>5, <2>6, <2>7, <2>8, DeclarationTells
<1> QED
  BY <1>1, <1>2 DEF DefineInt

\* A function begins at the next instruction, and has no variables yet.
LEMMA BeginFunctionTells == PassInv /\ RestTyped /\ TablesInv /\ BeginFunction => TablesInv'
<1> SUFFICES ASSUME PassInv, RestTyped, TablesInv, BeginFunction  PROVE TablesInv'
  OBVIOUS
<1>1. CASE Refused(BeginFunctionError)
  BY <1>1, ExitTells
<1>2. CASE ExitOnError("CHAR_EXPECTED") \/ Abort
  BY <1>2, ExitTells
<1>3. CASE /\ Passes(BeginFunctionError)
           /\ \E j \in Junk : tables' = AddFunc(tables, Lexeme(2), streamSize, j)
           /\ header' = [header EXCEPT !.main = MainIndex]
           /\ scope' = [active |-> TRUE, func |-> NewIndex(tables.funcs), size |-> 0]
           /\ SkipToNextLine(BraceLine)
  <2>1. /\ Passes("NO_ERR") /\ ~scope.active /\ BraceType = "OPEN_BRACE"
        /\ GetFuncByName(tables, Lexeme(2)) = 0 /\ Reads("first", "FUNC")
    BY <1>3 DEF Passes, BeginFunctionError, BeginFunction
  <2>2. /\ BraceLine \in line .. Len(source)
        /\ \A k \in line + 1 .. BraceLine : TypeAt(k, 1) \in Skipped
    BY <2>1, BeginFunctionPlaced
  <2>3. TypeAt(line, 1) = "FUNC" /\ phase = "first" /\ line \in DOMAIN source /\ WorkTyped
    BY <2>1 DEF Reads, Type, PassInv
  <2>4. phase' = "first" /\ source' = source
    BY <2>1, <2>3 DEF Passes
  <2>5. PICK m : m = BraceLine
    OBVIOUS
  <2>6. Passed(m)
    BY <1>3, <2>1, <2>2, <2>3, <2>5 DEF Passed, Passes, SkipToNextLine
  <2>7. Tells(line) /\ TablesTyped /\ line \in Nat
    BY <2>3, TablesAre DEF TablesInv, WorkTyped
  <2>8. PICK j \in Junk : tables' = AddFunc(tables, Lexeme(2), streamSize, j)
    BY <1>3
  <2> DEFINE node == [name |-> Lexeme(2), entry |-> streamSize, size |-> j]
  <2>9. /\ tables'.funcs = Append(tables.funcs, node)
        /\ tables'.labels = tables.labels /\ tables'.symbols = tables.symbols
    BY <2>8, TablesAre DEF AddFunc
  <2>10. /\ Before(line, "INSTR") \in Nat /\ Before(line, "CLOSE_BRACE") \in Nat
         /\ streamSize = Before(line, "INSTR") + Before(line, "FUNC")
         /\ Before(line, "FUNC") = Before(line, "CLOSE_BRACE")
    BY <2>1, <2>3, <2>7, BeforeIsNat DEF PassInv, FirstCounts
  <2>11. node.name = source[line][2].lexeme /\ node.entry = Slot(line) /\ node.name = Lexeme(2)
    BY <2>10 DEF Lexeme, Slot
  <2> HIDE DEF node
  <2>12. FuncsTell(line)'
    BY <2>1, <2>3, <2>6, <2>7, <2>9, <2>11, FuncsAdd DEF Tells
  <2>13. LabelsTell(line)'
    BY <2>3, <2>6, <2>7, <2>9, LabelsPass DEF Tells
  <2>14. ~Declares(line)
    BY <2>3 DEF Declares
  <2>15. SymbolsTell(line)'
    BY <2>3, <2>6, <2>7, <2>9, <2>14, SymbolsPass DEF Tells
  <2>16. SymbolsKept
    BY <2>7, <2>9 DEF SymbolsKept, TablesTyped
  <2>17. /\ header.globals \in Nat /\ scope.size \in Nat
         /\ header'.globals = header.globals /\ scope'.size \in Nat
    BY <1>3 DEF RestTyped, Headers, Scopes
  <2>18. ASSUME NEW d \in 1 .. line - 1, Declares(d)  PROVE Stored(d, line)'
    <3>1. Before(m + 1, "CLOSE_BRACE") = Before(line, "CLOSE_BRACE")
      BY <2>3, <2>6, PassedCounts DEF Skipped
    <3>2. Ended(d, line) <=> FuncOf(d) < Before(m + 1, "CLOSE_BRACE")
      BY <3>1 DEF Ended
    <3>3. IsLocal(d) => Ended(d, line)
      BY <2>1, <2>3, LocalEnds
    <3>4. Stored(d, line) /\ SymbolsTell(line)
      BY <2>7, <2>18 DEF Tells, Storage
    <3>5. IsLocal(d) => tables'.funcs[FuncOf(d) + 1] = tables.funcs[FuncOf(d) + 1]
      <4>1. IsLocal(d) => FuncOf(d) + 1 \in 1 .. Len(tables.funcs)
        BY <2>3, <2>7, LocalEnds DEF Tells, FuncsTell
      <4> QED
        BY <2>7, <2>9, <4>1 DEF TablesTyped
    <3> QED
      BY <2>3, <2>6, <2>7, <2>16, <2>17, <2>18, <3>2, <3>3, <3>4, <3>5, StoredKept
  <2>19. Storage(line)'
    BY <2>3, <2>6, <2>7, <2>9, <2>14, <2>18, StoragePass DEF Tells
  <2>20. ScopeTells'
    <3>1. Before(m + 1, "FUNC") = Before(line, "FUNC") + 1 /\ Before(line, "FUNC") \in Nat
      BY <2>3, <2>6, PassedCounts DEF Skipped
    <3>2. Before(line, "FUNC")' = Before(m + 1, "FUNC")
      BY <2>3, <2>4, <2>6, SamePlaces, LinesPassed
    <3>3. scope'.func = Before(line, "FUNC")
      BY <1>3, <2>7 DEF NewIndex, Tells, FuncsTell
    <3> QED
      BY <3>1, <3>2, <3>3 DEF ScopeTells, FuncOf
  <2> QED
    BY <2>4, <2>12, <2>13, <2>15, <2>19, <2>20 DEF TablesInv, Tells
<1> QED
  BY <1>1, <1>2, <1>3 DEF BeginFunction

\* The size of a frame is that of the variables in it.
LEMMA EndFunctionTells == PassInv /\ RestTyped /\ TablesInv /\ EndFunction => TablesInv'
<1> SUFFICES ASSUME PassInv, RestTyped, TablesInv, EndFunction  PROVE TablesInv'
  OBVIOUS
<1>1. CASE Refused(EndFunctionError)
  BY <1>1, ExitTells
<1>2. CASE /\ Passes(EndFunctionError) /\ SkipToNextLine(line)
           /\ tables' = SetFuncInfo(tables, scope.func + 1, scope.size)
           /\ scope' = [scope EXCEPT !.active = FALSE]
           /\ UNCHANGED header
  <2>1. Passes("NO_ERR") /\ scope.active /\ Reads("first", "CLOSE_BRACE")
    BY <1>2 DEF Passes, EndFunctionError, EndFunction
  <2>2. /\ scope'.active = FALSE /\ scope'.func = scope.func /\ scope'.size = scope.size
        /\ DOMAIN scope' = {"active", "func", "size"}
    BY <1>2 DEF PassInv, WorkTyped
  <2>3. Passed(line) /\ TypeAt(line, 1) = "CLOSE_BRACE" /\ phase = "first" /\ phase' = "first" /\ WorkTyped
    BY <1>2, <2>1, <2>2, OneLine
  <2>4. Tells(line) /\ ScopeTells /\ TablesTyped /\ line \in Nat
    BY <2>3, TablesAre DEF TablesInv, WorkTyped
  <2>5. /\ Before(line, "CLOSE_BRACE") \in Nat
        /\ Before(line, "FUNC") = Before(line, "CLOSE_BRACE") + 1
        /\ Before(line + 1, "CLOSE_BRACE") = Before(line, "CLOSE_BRACE") + 1
    BY <2>1, <2>3, <2>4, BeforeIsNat, PassedCounts DEF PassInv, FirstCounts, Skipped
  <2>6. /\ scope.func = FuncOf(line) /\ scope.func = Before(line, "CLOSE_BRACE")
        /\ scope.func + 1 = Len(tables.funcs)
    BY <2>4, <2>5 DEF ScopeTells, FuncOf, Tells, FuncsTell
  <2> DEFINE funcs == [tables.funcs EXCEPT ![scope.func + 1].size = scope.size]
  <2>7. tables'.funcs = funcs /\ tables'.labels = tables.labels /\ tables'.symbols = tables.symbols
    BY <1>2, TablesAre DEF SetFuncInfo
  <2>8. /\ Len(funcs) = Len(tables.funcs) /\ funcs[scope.func + 1].size = scope.size
        /\ \A i \in 1 .. Len(tables.funcs) :
             /\ funcs[i].name = tables.funcs[i].name /\ funcs[i].entry = tables.funcs[i].entry
             /\ i # scope.func + 1 => funcs[i].size = tables.funcs[i].size
    <3>1. /\ tables.funcs \in Seq(FuncNodes) /\ DOMAIN tables.funcs = 1 .. Len(tables.funcs)
          /\ \A i \in 1 .. Len(tables.funcs) : DOMAIN tables.funcs[i] = {"name", "entry", "size"}
      <4>1. /\ tables.funcs \in Seq(FuncNodes) /\ DOMAIN tables.funcs = 1 .. Len(tables.funcs)
            /\ \A i \in 1 .. Len(tables.funcs) : tables.funcs[i] \in FuncNodes
        BY <2>4 DEF TablesTyped
      <4>2. \A f \in FuncNodes : DOMAIN f = {"name", "entry", "size"}
        BY DEF FuncNodes
      <4> QED
        BY <4>1, <4>2
    <3>2. scope.func + 1 \in 1 .. Len(tables.funcs)
      BY <2>5, <2>6
    <3> QED
      BY <3>1, <3>2
  <2> HIDE DEF funcs
  <2>9. FuncsTell(line)'
    BY <2>3, <2>4, <2>7, <2>8, FuncsPass DEF Tells
  <2>10. LabelsTell(line)'
    BY <2>3, <2>4, <2>7, LabelsPass DEF Tells
  <2>11. ~Declares(line)
    BY <2>3 DEF Declares
  <2>12. SymbolsTell(line)'
    BY <2>3, <2>4, <2>7, <2>11, SymbolsPass DEF Tells
  <2>13. SymbolsKept
    BY <2>4, <2>7 DEF SymbolsKept, TablesTyped
  <2>14. header.globals \in Nat /\ scope.size \in Nat /\ header' = header
    BY <1>2 DEF RestTyped, Headers, Scopes
  <2>15. ASSUME NEW d \in 1 .. line - 1, Declares(d)  PROVE Stored(d, line)'
    <3>1. IsLocal(d) => /\ FuncOf(d) \in Nat /\ FuncOf(d) + 1 \in 1 .. Len(tables.funcs)
                        /\ Ended(d, line) \/ FuncOf(d) = scope.func
      BY <2>1, <2>3, <2>4, <2>6, LocalEnds DEF Tells, FuncsTell
    <3>2. IsLocal(d) => FuncOf(d) < Before(line + 1, "CLOSE_BRACE")
      BY <2>5, <2>6, <3>1 DEF Ended
    <3>3. IsLocal(d) /\ Ended(d, line) =>
            tables'.funcs[FuncOf(d) + 1].size = tables.funcs[FuncOf(d) + 1].size
      <4>1. IsLocal(d) /\ Ended(d, line) => FuncOf(d) + 1 # scope.func + 1
        BY <2>5, <2>6, <3>1 DEF Ended
      <4> QED
        BY <2>7, <2>8, <3>1, <4>1
    <3>4. IsLocal(d) /\ ~Ended(d, line) => tables'.funcs[FuncOf(d) + 1].size = scope.size
      BY <2>7, <2>8, <3>1
    <3>5. Stored(d, line) /\ SymbolsTell(line)
      BY <2>4, <2>15 DEF Tells, Storage
    <3> QED
      BY <2>2, <2>3, <2>4, <2>13, <2>14, <2>15, <3>2, <3>3, <3>4, <3>5, StoredKept
  <2>16. Storage(line)'
    BY <2>3, <2>4, <2>7, <2>11, <2>15, StoragePass DEF Tells
  <2>17. ScopeTells'
    BY <2>2, <2>3, <2>4, ScopePass
  <2> QED
    BY <2>3, <2>9, <2>10, <2>12, <2>16, <2>17 DEF TablesInv, Tells
<1> QED
  BY <1>1, <1>2 DEF EndFunction

LEMMA FirstPassTells == PassInv /\ RestTyped /\ TablesInv /\ FirstPass => TablesInv'
<1> SUFFICES ASSUME PassInv, RestTyped, TablesInv, FirstPass  PROVE TablesInv'
  OBVIOUS
<1>1. CASE SkipBlank
  BY <1>1, QuietLine DEF SkipBlank, Passes
<1>2. CASE InvalidInput
  BY <1>2, ExitTells DEF InvalidInput
<1> QED
  BY <1>1, <1>2, SetStackSizeTells, DefineStringTells, DefineIntTells, BeginFunctionTells,
     EndFunctionTells, CountInstrTells, DefineLabelTells DEF FirstPass

-----------------------------------------------------------------------------
(* The operands of an instruction and the tokens of its line *)

\* An instruction that is written.
Written ==
  /\ PassInv /\ TablesTyped
  /\ phase = "second" /\ line \in DOMAIN source /\ Type(1) = "INSTR"
  /\ InstrError = "NO_ERR"

IsOperand(j) ==
  j \in 2 .. Len(source[line]) /\ Type(j) \in {"INT", "REG", "IDENT"} /\ Type(j - 1) # "OPEN_BRACKET"

LEMMA WrittenIs ==
  ASSUME Written
  PROVE  /\ source \in Seq(Lines) /\ Lexeme(1) \in Mnemonics /\ line \in Nat
         /\ Len(Accepts) \in 0 .. 3 /\ DOMAIN Accepts = 1 .. Len(Accepts)
         /\ Len(source[line]) \in Nat /\ DOMAIN source[line] = 1 .. Len(source[line])
         /\ \A i : Type(i) # "INVALID" => i \in 1 .. Len(source[line]) /\ Type(i) = source[line][i].type
         /\ \A i \in 1 .. Len(source[line]) : Type(i) = source[line][i].type
         /\ \A i : Type(i) = "NEWLINE" <=> i = Len(source[line])
<1>1. source \in Seq(Lines) /\ line \in Nat
  BY DEF Written, PassInv, WorkTyped
<1>2. Lexeme(1) \in Mnemonics /\ source[line] \in Lines /\ IsLine(source[line])
  BY <1>1, TokenIs DEF Written, Type, Lexeme
<1>3. Len(Accepts) \in 0 .. 3 /\ DOMAIN Accepts = 1 .. Len(Accepts)
  BY <1>2, AcceptsAre DEF Accepts
<1>4. Len(source[line]) \in Nat \ {0} /\ DOMAIN source[line] = 1 .. Len(source[line])
  BY <1>2 DEF IsLine
<1>5. ASSUME NEW i  PROVE Type(i) = IF i \in 1 .. Len(source[line]) THEN source[line][i].type ELSE "INVALID"
  BY <1>4 DEF Type, TypeAt, Written
<1>6. \A i \in 1 .. Len(source[line]) : source[line][i].type = "NEWLINE" <=> i = Len(source[line])
  BY <1>2, <1>4 DEF IsLine
<1>7. \A i : Type(i) # "INVALID" => i \in 1 .. Len(source[line]) /\ Type(i) = source[line][i].type
  BY <1>5
<1>8. \A i \in 1 .. Len(source[line]) : Type(i) = source[line][i].type
  BY <1>5
<1>9. ASSUME NEW i  PROVE Type(i) = "NEWLINE" <=> i = Len(source[line])
  <2>1. Len(source[line]) \in 1 .. Len(source[line])
    BY <1>4
  <2>2. CASE i \in 1 .. Len(source[line])
    BY <1>6, <1>8, <2>2
  <2>3. CASE i \notin 1 .. Len(source[line])
    BY <1>5, <2>1, <2>3
  <2> QED
    BY <2>2, <2>3
<1>10. Len(source[line]) \in Nat /\ DOMAIN source[line] = 1 .. Len(source[line])
  BY <1>4
<1> QED
  BY <1>1, <1>2, <1>3, <1>7, <1>8, <1>9, <1>10

\* Between the beginning of an operand and that of the next one, or the end of the line,
\* no other one begins.
LEMMA OneOperand ==
  ASSUME Written, NEW k \in 1 .. Len(Accepts), Start(k) \in Nat, Start(k) > 1,
         Type(Start(k) - 1) # "OPEN_BRACKET",
         Type(Start(k) + Width(k, Start(k)) - 1) \in {"COMMA", "NEWLINE"}
  PROVE  \A j \in Start(k) .. Start(k) + Width(k, Start(k)) - 1 : IsOperand(j) <=> j = Start(k)
<1>1. OperandError(k) = "NO_ERR"
  BY WrittenIs, InstrPasses DEF Written
<1> DEFINE i == Start(k)
<1>2. Type(i) \in {"INT", "REG", "IDENT"}
  BY <1>1 DEF OperandError
<1>3. IsOperand(i)
  <2>1. i \in 1 .. Len(source[line]) /\ i \in Nat /\ i > 1 /\ Len(source[line]) \in Nat
    BY <1>2, WrittenIs
  <2> HIDE DEF i
  <2>2. i \in 2 .. Len(source[line])
    BY <2>1
  <2> QED
    BY <1>2, <2>2 DEF IsOperand, i
<1>4. CASE ~Indexed(k, i)
  <2>1. Width(k, i) = 2
    BY <1>4 DEF Width
  <2>2. Type(i + 1) \in {"COMMA", "NEWLINE"}
    <3>1. i + 2 - 1 = i + 1
      OBVIOUS
    <3> QED
      BY <2>1, <3>1
  <2>3. ~IsOperand(i + 1)
    BY <2>2 DEF IsOperand
  <2>4. \A j \in i .. i + 2 - 1 : j = i \/ j = i + 1
    OBVIOUS
  <2> HIDE DEF i
  <2>5. \A j \in i .. i + 2 - 1 : IsOperand(j) <=> j = i
    BY <1>3, <2>3, <2>4
  <2> QED
    BY <2>1, <2>5 DEF i
<1>5. CASE Indexed(k, i)
  <2>1. Width(k, i) = 5
    BY <1>5 DEF Width
  <2>2. Type(i) = "IDENT" /\ Type(i + 1) = "OPEN_BRACKET" /\ "MEM_REF" \in Accepts[k]
    BY <1>5 DEF Indexed
  <2>3. VariableError(i, TRUE) = "NO_ERR"
    BY <1>1, <1>5, <2>2 DEF OperandError
  <2>4. Type(i + 2) \in {"INT", "IDENT"} /\ Type(i + 3) = "CLOSE_BRACKET"
    BY <2>3 DEF VariableError
  <2>5. Type(i + 4) \in {"COMMA", "NEWLINE"} /\ i \in Nat
    <3>1. i + 5 - 1 = i + 4
      OBVIOUS
    <3> QED
      BY <2>1, <3>1
  <2> HIDE DEF i
  <2>6. ~IsOperand(i + 1) /\ ~IsOperand(i + 2) /\ ~IsOperand(i + 3) /\ ~IsOperand(i + 4)
    <3>1. (i + 2) - 1 = i + 1
      BY <2>5
    <3>2. ~IsOperand(i + 2)
      BY <2>2, <3>1 DEF IsOperand
    <3> QED
      BY <2>2, <2>4, <2>5, <3>2 DEF IsOperand
  <2>7. \A j \in i .. i + 5 - 1 : j = i \/ j = i + 1 \/ j = i + 2 \/ j = i + 3 \/ j = i + 4
    BY <2>5
  <2>8. \A j \in i .. i + 5 - 1 : IsOperand(j) <=> j = i
    BY <1>3, <2>5, <2>6, <2>7
  <2> QED
    BY <2>1, <2>8 DEF i
<1> QED
  BY <1>4, <1>5

\* The operands that GetNextToken finds are those that the table of instructions calls for.
LEMMA OperandsAre ==
  ASSUME Written
  PROVE  /\ \A j : IsOperand(j) <=> \E k \in 1 .. Len(Accepts) : j = Start(k)
         /\ \A k \in 1 .. Len(Accepts) : Start(k) \in Nat
         /\ \A j, k \in 1 .. Len(Accepts) : j < k <=> Start(j) < Start(k)
         /\ Len(Accepts) > 0 /\ ~Indexed(Len(Accepts), Start(Len(Accepts)))
              => Start(Len(Accepts)) = Len(source[line]) - 1
<1> DEFINE n == Len(Accepts)
           e == Len(source[line])
           s1 == Start(1)
           s2 == Start(2)
           s3 == Start(3)
           w1 == Width(1, s1)
           w2 == Width(2, s2)
           w3 == Width(3, s3)
<1>1. n \in 0 .. 3 /\ e \in Nat
  BY WrittenIs
<1>2. w1 \in {2, 5} /\ w2 \in {2, 5} /\ w3 \in {2, 5}
  BY DEF Width
<1>3. s1 = 2 /\ s2 = s1 + w1 /\ s3 = s2 + w2
  BY StartIs
<1>4. \A k \in 1 .. n - 1 : Type(Start(k + 1) - 1) = "COMMA"
  BY WrittenIs, InstrPasses DEF Written
<1>5. /\ n = 0 => e = 2
      /\ n > 0 => Start(n) + Width(n, Start(n)) - 1 = e /\ Type(e) = "NEWLINE"
  <2>1. Type(IF n = 0 THEN 2
             ELSE Start(n) + IF Indexed(n, Start(n)) THEN 4 ELSE 1) = "NEWLINE"
    BY WrittenIs, InstrPasses DEF Written
  <2>2. n = 0 => e = 2
    BY <2>1, WrittenIs
  <2>3. n > 0 => Start(n) \in Nat
    <3>1. n = 1 \/ n = 2 \/ n = 3 \/ n = 0
      BY <1>1
    <3> HIDE DEF n, w1, w2, w3
    <3>2. s1 \in Nat /\ s2 \in Nat /\ s3 \in Nat
      BY <1>2, <1>3
    <3> QED
      BY <3>1, <3>2
  <2>4. n > 0 => Start(n) + Width(n, Start(n)) - 1 = e
    <3>1. CASE n > 0 /\ Indexed(n, Start(n))
      <4>1. Start(n) + 4 = e
        BY <2>1, <3>1, WrittenIs
      <4>2. Width(n, Start(n)) = 5
        BY <3>1 DEF Width
      <4> HIDE DEF n, e
      <4> QED
        BY <2>3, <3>1, <4>1, <4>2
    <3>2. CASE n > 0 /\ ~Indexed(n, Start(n))
      <4>1. Start(n) + 1 = e
        BY <2>1, <3>2, WrittenIs
      <4>2. Width(n, Start(n)) = 2
        BY <3>2 DEF Width
      <4> HIDE DEF n, e
      <4> QED
        BY <2>3, <3>2, <4>1, <4>2
    <3> QED
      BY <3>1, <3>2
  <2>5. Type(e) = "NEWLINE"
    BY WrittenIs
  <2> QED
    BY <2>2, <2>4, <2>5
<1>6. \A j : IsOperand(j) => j \in 2 .. e
  BY DEF IsOperand
<1>7. n > 0 => \A j \in s1 .. s1 + w1 - 1 : IsOperand(j) <=> j = s1
  <2> SUFFICES ASSUME n > 0  PROVE \A j \in s1 .. s1 + w1 - 1 : IsOperand(j) <=> j = s1
    OBVIOUS
  <2>1. Type(s1 - 1) # "OPEN_BRACKET"
    BY <1>3 DEF Written
  <2>2. Type(s1 + w1 - 1) \in {"COMMA", "NEWLINE"}
    <3>1. CASE n = 1
      BY <1>5, <3>1
    <3>2. CASE n > 1
      <4>1. 1 \in 1 .. n - 1
        BY <1>1, <3>2
      <4>2. Type(s2 - 1) = "COMMA"
        BY <1>4, <4>1
      <4>3. s1 + w1 - 1 = s2 - 1
        <5> HIDE DEF w1, w2, s1, s2, s3
        <5> QED
          BY <1>2, <1>3
      <4> QED
        BY <4>2, <4>3
    <3>3. n = 1 \/ n > 1
      <4> HIDE DEF n
      <4> QED
        BY <1>1
    <3> QED
      BY <3>1, <3>2, <3>3
  <2>3. 1 \in 1 .. n /\ s1 \in Nat /\ s1 > 1
    BY <1>1, <1>3
  <2> QED
    BY <2>1, <2>2, <2>3, OneOperand
<1>8. n > 1 => \A j \in s2 .. s2 + w2 - 1 : IsOperand(j) <=> j = s2
  <2> SUFFICES ASSUME n > 1  PROVE \A j \in s2 .. s2 + w2 - 1 : IsOperand(j) <=> j = s2
    OBVIOUS
  <2>1. Type(s2 - 1) # "OPEN_BRACKET"
    <3>1. 1 \in 1 .. n - 1 /\ 1 + 1 = 2
      BY <1>1
    <3> QED
      BY <1>4, <3>1
  <2>2. Type(s2 + w2 - 1) \in {"COMMA", "NEWLINE"}
    <3>1. CASE n = 2
      BY <1>5, <3>1
    <3>2. CASE n > 2
      <4>1. 2 \in 1 .. n - 1 /\ 2 + 1 = 3
        BY <1>1, <3>2
      <4>2. Type(s3 - 1) = "COMMA"
        BY <1>4, <4>1
      <4>3. s2 + w2 - 1 = s3 - 1
        <5> HIDE DEF w1, w2, s1, s2, s3
        <5> QED
          BY <1>2, <1>3
      <4> QED
        BY <4>2, <4>3
    <3>3. n = 2 \/ n > 2
      <4> HIDE DEF n
      <4> QED
        BY <1>1
    <3> QED
      BY <3>1, <3>2, <3>3
  <2>3. 2 \in 1 .. n
    BY <1>1
  <2>4. s2 \in Nat /\ s2 > 1
    <3> HIDE DEF w1, s2, s1
    <3> QED
      BY <1>2, <1>3
  <2> QED
    BY <2>1, <2>2, <2>3, <2>4, OneOperand
<1>9. n = 3 => \A j \in s3 .. s3 + w3 - 1 : IsOperand(j) <=> j = s3
  <2> SUFFICES ASSUME n = 3  PROVE \A j \in s3 .. s3 + w3 - 1 : IsOperand(j) <=> j = s3
    OBVIOUS
  <2>1. Type(s3 - 1) # "OPEN_BRACKET"
    <3>1. 2 \in 1 .. n - 1 /\ 2 + 1 = 3
      BY <1>1
    <3> QED
      BY <1>4, <3>1
  <2>2. Type(s3 + w3 - 1) \in {"COMMA", "NEWLINE"}
    BY <1>5
  <2>3. 3 \in 1 .. n
    BY <1>1
  <2>4. s3 \in Nat /\ s3 > 1
    <3> HIDE DEF w1, w2, s2, s1, s3
    <3> QED
      BY <1>2, <1>3
  <2> QED
    BY <2>1, <2>2, <2>3, <2>4, OneOperand
<1>10. n = 1 => s1 + w1 - 1 = e
  BY <1>5
<1>11. n = 2 => s2 + w2 - 1 = e
  BY <1>5
<1>12. n = 3 => s3 + w3 - 1 = e
  BY <1>5
<1>13. n > 0 /\ ~Indexed(n, Start(n)) => Start(n) + 2 - 1 = e
  BY <1>5 DEF Width
<1> HIDE DEF n, e, w1, w2, w3
<1>14. \A k \in 1 .. n : k = 1 \/ k = 2 \/ k = 3
  BY <1>1
<1>15. s1 \in Nat /\ s2 \in Nat /\ s3 \in Nat /\ s1 < s2 /\ s2 < s3
  BY <1>2, <1>3
<1>16. ASSUME NEW j
       PROVE  IsOperand(j) <=> \E k \in 1 .. n : j = Start(k)
  <2> HIDE DEF s1, s2, s3
  <2>1. CASE n = 0
    <3>1. e = 2
      BY <1>5, <2>1
    <3>2. ~IsOperand(2)
      BY <3>1, WrittenIs DEF IsOperand, e
    <3> QED
      BY <1>6, <2>1, <3>1, <3>2
  <2>2. CASE n = 1
    <3>1. IsOperand(j) <=> j = s1
      BY <1>2, <1>3, <1>6, <1>7, <1>10, <1>15, <2>2
    <3> QED
      BY <2>2, <3>1 DEF s1
  <2>3. CASE n = 2
    <3>1. IsOperand(j) <=> j = s1 \/ j = s2
      <4>1. j \in 2 .. e => j \in s1 .. s1 + w1 - 1 \/ j \in s2 .. s2 + w2 - 1
        BY <1>1, <1>2, <1>3, <1>11, <1>15, <2>3
      <4>2. s1 \in s1 .. s1 + w1 - 1 /\ s2 \in s2 .. s2 + w2 - 1
        BY <1>2, <1>15
      <4> QED
        BY <1>6, <1>7, <1>8, <2>3, <4>1, <4>2
    <3> QED
      BY <2>3, <3>1 DEF s1, s2
  <2>4. CASE n = 3
    <3>1. IsOperand(j) <=> j = s1 \/ j = s2 \/ j = s3
      <4>1. j \in 2 .. e => \/ j \in s1 .. s1 + w1 - 1 \/ j \in s2 .. s2 + w2 - 1
                            \/ j \in s3 .. s3 + w3 - 1
        BY <1>1, <1>2, <1>3, <1>12, <1>15, <2>4
      <4>2. s1 \in s1 .. s1 + w1 - 1 /\ s2 \in s2 .. s2 + w2 - 1 /\ s3 \in s3 .. s3 + w3 - 1
        BY <1>2, <1>15
      <4> QED
        BY <1>6, <1>7, <1>8, <1>9, <2>4, <4>1, <4>2
    <3> QED
      BY <2>4, <3>1 DEF s1, s2, s3
  <2> QED
    BY <1>1, <2>1, <2>2, <2>3, <2>4
<1>17. \A k \in 1 .. n : Start(k) \in Nat
  BY <1>14, <1>15
<1>18. \A j, k \in 1 .. n : j < k <=> Start(j) < Start(k)
  <2> SUFFICES ASSUME NEW j \in 1 .. n, NEW k \in 1 .. n  PROVE j < k <=> Start(j) < Start(k)
    OBVIOUS
  <2>1. Start(1) \in Nat /\ Start(2) \in Nat /\ Start(3) \in Nat /\ Start(1) < Start(2) /\ Start(2) < Start(3)
    BY <1>15
  <2> QED
    BY <1>14, <2>1
<1>19. n > 0 /\ ~Indexed(n, Start(n)) => Start(n) = e - 1
  <2>1. n > 0 => n \in 1 .. n
    BY <1>1
  <2> QED
    BY <1>1, <1>13, <1>17, <2>1
<1> QED
  BY <1>16, <1>17, <1>18, <1>19 DEF n, e

LEMMA OperandNumberIs ==
  ASSUME Written, NEW k \in 1 .. Len(Accepts)
  PROVE  Start(k) \in OperandTokens(line) /\ OperandNumber(line, Start(k)) = k
<1> DEFINE n == Len(Accepts)
           S == {j \in OperandTokens(line) : j <= Start(k)}
<1>1. \A j : j \in OperandTokens(line) <=> IsOperand(j)
  <2>1. \A j \in 2 .. Len(source[line]) : j \in 1 .. Len(source[line]) /\ j - 1 \in 1 .. Len(source[line])
    BY WrittenIs
  <2> QED
    BY <2>1, WrittenIs DEF OperandTokens, IsOperand
<1>2. n \in 0 .. 3
  BY WrittenIs
<1>3. /\ \A j : IsOperand(j) <=> \E i \in 1 .. n : j = Start(i)
      /\ \A i \in 1 .. n : Start(i) \in Nat
      /\ \A i, j \in 1 .. n : i < j <=> Start(i) < Start(j)
  BY OperandsAre
<1>4. S = {Start(i) : i \in 1 .. k}
  <2>1. \A i \in 1 .. n : Start(i) <= Start(k) <=> i <= k
    BY <1>2, <1>3
  <2>2. \A i \in 1 .. k : i \in 1 .. n
    BY <1>2
  <2>3. \A j : j \in S <=> \E i \in 1 .. k : j = Start(i)
    <3> SUFFICES ASSUME NEW j  PROVE j \in S <=> \E i \in 1 .. k : j = Start(i)
      OBVIOUS
    <3>1. j \in S <=> (\E i \in 1 .. n : j = Start(i)) /\ j <= Start(k)
      BY <1>1, <1>3
    <3>2. (\E i \in 1 .. n : j = Start(i)) /\ j <= Start(k) <=> \E i \in 1 .. k : j = Start(i)
      BY <1>2, <2>1, <2>2
    <3> QED
      BY <3>1, <3>2
  <2> HIDE DEF S
  <2> QED
    BY <2>3
<1>5. Cardinality({Start(i) : i \in 1 .. k}) = k
  <2> DEFINE f == [i \in 1 .. k |-> Start(i)]
             T == {Start(i) : i \in 1 .. k}
  <2>1. f \in Bijection(1 .. k, T)
    <3>1. \A i, j \in 1 .. k : Start(i) = Start(j) => i = j
      <4> SUFFICES ASSUME NEW i \in 1 .. k, NEW j \in 1 .. k, Start(i) = Start(j)  PROVE i = j
        OBVIOUS
      <4>1. i \in 1 .. n /\ j \in 1 .. n /\ Start(i) \in Nat
        BY <1>2, <1>3
      <4>2. ~ (i < j) /\ ~ (j < i)
        BY <1>3, <4>1
      <4> QED
        BY <4>2
    <3> QED
      BY <3>1 DEF Bijection, Injection, Surjection, IsInjective
  <2>2. IsFiniteSet(1 .. k) /\ Cardinality(1 .. k) = k
    BY <1>2, FS_Interval
  <2> HIDE DEF T, f
  <2>3. ExistsBijection(1 .. k, T)
    BY <2>1 DEF ExistsBijection
  <2>4. Cardinality(T) = Cardinality(1 .. k)
    BY <2>2, <2>3, FS_Bijection
  <2> QED
    BY <2>2, <2>4 DEF T
<1>6. Start(k) \in OperandTokens(line)
  BY <1>1, <1>3
<1> QED
  BY <1>4, <1>5, <1>6 DEF OperandNumber

-----------------------------------------------------------------------------
(* What is written follows the tables *)

NewInstr == [op |-> Lexeme(1), args |-> [k \in DOMAIN Accepts |-> OperandOf(k)]]

LEMMA InOwnFunction ==
  ASSUME Written, TablesInv
  PROVE  scope.func = FuncOf(line) /\ scope.func \in Nat /\ Tells(Len(source) + 1)
<1>1. line \in 1 .. Len(source) /\ TypeAt(line, 1) = "INSTR" /\ WellPlaced(line)
      /\ ScopeTells /\ Tells(Len(source) + 1)
  BY DEF Written, PassInv, WorkTyped, SecondWrites, TablesInv, Type
<1>2. Before(line, "CLOSE_BRACE") \in Nat /\ Before(line, "FUNC") = Before(line, "CLOSE_BRACE") + 1
  BY <1>1, BeforeIsNat DEF WellPlaced
<1> QED
  BY <1>1, <1>2 DEF ScopeTells, FuncOf

LEMMA WrittenFollows ==
  ASSUME Written, TablesInv
  PROVE  Follows(line, NewInstr)
<1> DEFINE n == Len(Accepts)
           I == NewInstr
<1>1. /\ n \in Nat /\ DOMAIN Accepts = 1 .. n /\ Lexeme(1) \in Mnemonics
      /\ source \in Seq(Lines) /\ Len(source[line]) \in Nat
  BY WrittenIs
<1>2. I.op = source[line][1].lexeme /\ I.op = Lexeme(1)
  BY DEF NewInstr, Lexeme
<1>3. n > 0 => LastOperand(I) = OperandOf(n).value
  <2>1. I.args = [k \in 1 .. n |-> OperandOf(k)]
    BY <1>1 DEF NewInstr
  <2>2. Len([k \in 1 .. n |-> OperandOf(k)]) = n
    BY <1>1
  <2> HIDE DEF I, n
  <2> QED
    BY <1>1, <2>1, <2>2 DEF LastOperand
<1>4. scope.func = FuncOf(line) /\ Tells(Len(source) + 1) /\ TablesTyped
  BY InOwnFunction DEF Written
<1>5. n > 0 /\ "MEM_REF" \notin Accepts[n] =>
        LastName(line) = Lexeme(Start(n)) /\ Start(n) \in Nat
  <2> SUFFICES ASSUME n > 0, "MEM_REF" \notin Accepts[n]
               PROVE  LastName(line) = Lexeme(Start(n)) /\ Start(n) \in Nat
    OBVIOUS
  <2>1. ~Indexed(n, Start(n))
    BY DEF Indexed
  <2>2. Start(n) = Len(source[line]) - 1 /\ n \in 1 .. n
    BY <1>1, <2>1, OperandsAre
  <2>3. Start(n) \in Nat
    BY <2>2, OperandsAre
  <2> QED
    BY <2>2, <2>3 DEF LastName, Lexeme
<1>6. \A d : d \in 1 .. (Len(source) + 1) - 1 => d \in DOMAIN source
  BY <1>1
<1>7. n > 0 => OperandError(n) = "NO_ERR"
  <2>1. n > 0 => n \in 1 .. n
    BY <1>1
  <2> QED
    BY <1>1, <2>1, InstrPasses DEF Written
<1>8. ASSUME I.op \in JumpOps
      PROVE  \E d \in LinesOf("IDENT") :
               /\ source[d][1].lexeme = LastName(line) /\ FuncOf(d) = FuncOf(line)
               /\ LastOperand(I) = Slot(d)
  <2>1. n > 0 /\ Accepts[n] = {"LINE_LABEL"}
    BY <1>1, <1>2, <1>8, AcceptsAre DEF Accepts
  <2> DEFINE name == Lexeme(Start(n))
             g == GetLabelByIdent(tables, name, scope.func)
  <2>2. Type(Start(n)) = "IDENT" /\ NameError(Start(n), Accepts[n]) = "NO_ERR"
    BY <1>7, <2>1 DEF OperandError
  <2>3. g # 0
    BY <2>1, <2>2 DEF NameError
  <2>4. OperandOf(n).value = tables.labels[g].target
    <3>1. OperandOf(n) = NameOperand(Start(n), {"LINE_LABEL"})
      BY <2>1, <2>2 DEF OperandOf
    <3>2. NameOperand(Start(n), {"LINE_LABEL"}) = [type |-> "INSTR_INDEX", value |-> tables.labels[g].target]
      BY DEF NameOperand
    <3> QED
      BY <3>1, <3>2
  <2> HIDE DEF n, name
  <2>5. /\ g \in 1 .. Len(tables.labels)
        /\ tables.labels[g].name = name /\ tables.labels[g].func = scope.func
    <3>1. /\ g \in 0 .. Len(tables.labels)
          /\ tables.labels[g].name = name /\ tables.labels[g].func = scope.func
      BY <1>4, <2>3, LabelFound
    <3>2. Len(tables.labels) \in Nat
      BY <1>4 DEF TablesTyped
    <3> HIDE DEF g
    <3> QED
      BY <2>3, <3>1, <3>2
  <2> HIDE DEF g
  <2>6. PICK d \in 1 .. (Len(source) + 1) - 1 :
          /\ TypeAt(d, 1) = "IDENT" /\ source[d][1].lexeme = tables.labels[g].name
          /\ tables.labels[g].func = FuncOf(d) /\ tables.labels[g].target = Slot(d)
    BY <1>4, <2>5 DEF Tells, LabelsTell
  <2>7. d \in LinesOf("IDENT")
    BY <1>6, <2>6 DEF LinesOf
  <2>8. LastName(line) = name
    BY <1>5, <2>1 DEF name
  <2>9. source[d][1].lexeme = LastName(line) /\ FuncOf(d) = FuncOf(line) /\ LastOperand(I) = Slot(d)
    BY <1>3, <1>4, <2>1, <2>4, <2>5, <2>6, <2>8
  <2> QED
    BY <2>7, <2>9
<1>9. ASSUME I.op = "CALL"
      PROVE  \E d \in LinesOf("FUNC") :
               /\ source[d][2].lexeme = LastName(line)
               /\ tables.funcs[LastOperand(I) + 1].entry = Slot(d)
  <2>1. n > 0 /\ Accepts[n] = {"FUNC_NAME"}
    BY <1>1, <1>2, <1>9, AcceptsAre DEF Accepts
  <2> DEFINE name == Lexeme(Start(n))
             g == GetFuncByName(tables, name)
  <2>2. Type(Start(n)) = "IDENT" /\ NameError(Start(n), Accepts[n]) = "NO_ERR"
    BY <1>7, <2>1 DEF OperandError
  <2>3. g # 0
    BY <2>1, <2>2 DEF NameError
  <2>4. OperandOf(n).value = g - 1
    <3>1. OperandOf(n) = NameOperand(Start(n), {"FUNC_NAME"})
      BY <2>1, <2>2 DEF OperandOf
    <3>2. NameOperand(Start(n), {"FUNC_NAME"}) = [type |-> "FUNC_INDEX", value |-> g - 1]
      BY DEF NameOperand
    <3> QED
      BY <3>1, <3>2
  <2> HIDE DEF n, name
  <2>5. g \in 1 .. Len(tables.funcs) /\ tables.funcs[g].name = name
    <3>1. g \in 0 .. Len(tables.funcs) /\ tables.funcs[g].name = name
      BY <1>4, <2>3, FuncFound
    <3>2. Len(tables.funcs) \in Nat
      BY <1>4 DEF TablesTyped
    <3> HIDE DEF g
    <3> QED
      BY <2>3, <3>1, <3>2
  <2> HIDE DEF g
  <2>6. PICK d \in 1 .. (Len(source) + 1) - 1 : TypeAt(d, 1) = "FUNC" /\ Before(d, "FUNC") + 1 = g
    BY <1>4, <2>5 DEF Tells, FuncsTell
  <2>7. tables.funcs[g].name = source[d][2].lexeme /\ tables.funcs[g].entry = Slot(d)
    BY <1>4, <2>6 DEF Tells, FuncsTell, FuncNode
  <2>8. d \in LinesOf("FUNC")
    BY <1>6, <2>6 DEF LinesOf
  <2>9. LastName(line) = name
    BY <1>5, <2>1 DEF name
  <2>10. LastOperand(I) + 1 = g
    BY <1>3, <2>1, <2>4, <2>5
  <2> QED
    BY <2>5, <2>7, <2>8, <2>9, <2>10
<1> HIDE DEF I
<1> QED
  BY <1>2, <1>8, <1>9 DEF Follows, I

\* The variable that is found is the one that is meant.
LEMMA SymbolMeant ==
  ASSUME Written, TablesInv, NEW i, Symbol(Lexeme(i)) # 0
  PROVE  \E d \in Meant(line, i) : SymbolOf(d) = tables.symbols[Symbol(Lexeme(i))] /\ SymbolTold(d)
<1> DEFINE name == Lexeme(i)
           s == Symbol(name)
           named == {d \in Declarations : source[d][2].lexeme = source[line][i].lexeme}
           own == {d \in named : IsLocal(d) /\ FuncOf(d) = FuncOf(line)}
<1>1. /\ scope.func = FuncOf(line) /\ SymbolsTell(Len(source) + 1) /\ TablesTyped
      /\ Len(source) \in Nat /\ DOMAIN source = 1 .. Len(source)
      /\ name = source[line][i].lexeme
  BY InOwnFunction, WrittenIs DEF Written, Tells, Lexeme
<1>2. s \in 1 .. Len(tables.symbols) /\ Matches(s, name)
  <2>1. s \in 0 .. Len(tables.symbols) /\ s # 0 /\ Matches(s, name)
    BY <1>1, SymbolFound
  <2>2. Len(tables.symbols) \in Nat
    BY <1>1 DEF TablesTyped
  <2> HIDE DEF s
  <2> QED
    BY <2>1, <2>2
<1>3. \A d : d \in Declarations <=> d \in 1 .. (Len(source) + 1) - 1 /\ Declares(d)
  BY <1>1 DEF Declarations, LinesOf, Declares
<1>4. \A d : SymbolOf(d) = tables.symbols[SymbolIndex(d)]
  BY DEF SymbolOf, SymbolIndex
<1> HIDE DEF s
<1>5. PICK d \in 1 .. (Len(source) + 1) - 1 : Declares(d) /\ SymbolIndex(d) = s
  BY <1>1, <1>2 DEF SymbolsTell
<1>6. SymbolTold(d) /\ SymbolOf(d) = tables.symbols[s]
  BY <1>1, <1>4, <1>5 DEF SymbolsTell
<1>7. d \in named
  BY <1>1, <1>2, <1>3, <1>5, <1>6 DEF SymbolTold, Matches
<1>8. CASE IsLocal(d)
  <2>1. FuncOf(d) = FuncOf(line)
    <3>1. tables.symbols[s].index < 0 /\ tables.symbols[s].func = FuncOf(d)
      BY <1>6, <1>8 DEF SymbolTold
    <3>2. tables.symbols[s].index \in Int
      <4>1. tables.symbols \in Seq(SymbolNodes)
        BY <1>1 DEF TablesTyped
      <4>2. tables.symbols[s] \in SymbolNodes
        BY <1>2, <4>1
      <4> QED
        BY <4>2 DEF SymbolNodes
    <3>3. ~ (tables.symbols[s].index >= 0)
      BY <3>1, <3>2
    <3> QED
      BY <1>1, <1>2, <3>1, <3>3 DEF Matches
  <2>2. d \in own
    BY <1>7, <1>8, <2>1
  <2> HIDE DEF own
  <2>3. Meant(line, i) = own
    BY <2>2 DEF Meant, own
  <2> QED
    BY <1>6, <2>2, <2>3 DEF s
<1>9. CASE ~IsLocal(d)
  <2>1. own = {}
    <3> SUFFICES ASSUME NEW e \in own  PROVE FALSE
      OBVIOUS
    <3> DEFINE t == SymbolIndex(e)
    <3>1. /\ e \in 1 .. (Len(source) + 1) - 1 /\ Declares(e)
          /\ source[e][2].lexeme = name /\ IsLocal(e) /\ FuncOf(e) = scope.func
      BY <1>1, <1>3
    <3>2. SymbolTold(e) /\ t \in 1 .. Len(tables.symbols)
      <4>1. e \in Nat \ {0} /\ Len(source) + 1 \in Nat /\ e < Len(source) + 1
        BY <1>1, <3>1
      <4>2. t \in 1 .. Len(tables.symbols)
        BY <1>1, <3>1, <4>1, SymbolPlaced DEF SymbolsTell
      <4> QED
        BY <1>1, <3>1, <4>2 DEF SymbolsTell
    <3>3. /\ tables.symbols[t].name = name /\ tables.symbols[t].index < 0
          /\ tables.symbols[t].func = scope.func
      BY <1>4, <3>1, <3>2 DEF SymbolTold
    <3> HIDE DEF t
    <3>4. s <= t
      BY <1>1, <3>2, <3>3, SymbolFound DEF Matches, s
    <3>5. ~ (tables.symbols[s].index < 0)
      BY <1>6, <1>9 DEF SymbolTold
    <3>6. s # t
      BY <3>3, <3>5
    <3>7. s < t
      BY <1>2, <3>2, <3>4, <3>6
    <3>8. tables.symbols[s].name = tables.symbols[t].name
      BY <1>2, <3>3 DEF Matches
    <3>9. tables.symbols[s].index < 0
      BY <1>1, <1>2, <3>2, <3>7, <3>8 DEF SymbolsTell
    <3> QED
      BY <3>5, <3>9
  <2>2. Meant(line, i) = {e \in named : ~IsLocal(e)}
    BY <2>1 DEF Meant
  <2>3. d \in Meant(line, i)
    BY <1>7, <1>9, <2>2
  <2> QED
    BY <1>6, <2>3 DEF s
<1> QED
  BY <1>8, <1>9

LEMMA WrittenUsesOwn ==
  ASSUME Written, TablesInv
  PROVE  UsesOwn(line, NewInstr)
<1> DEFINE n == Len(Accepts)
<1>1. /\ n \in Nat /\ DOMAIN Accepts = 1 .. n
      /\ Len(source[line]) \in Nat
      /\ \A j : Type(j) # "INVALID" => j \in 1 .. Len(source[line]) /\ Type(j) = source[line][j].type
      /\ \A j \in 1 .. Len(source[line]) : Type(j) = source[line][j].type
      /\ Lexeme(1) = source[line][1].lexeme /\ \A j : Type(j) = TypeAt(line, j)
  BY WrittenIs DEF Lexeme, Type
<1>2. TablesTyped
  BY DEF Written
<1> SUFFICES ASSUME NEW i \in OperandTokens(line),
                    source[line][i].type = "IDENT",
                    "MEM_REF" \in InstrTable[source[line][1].lexeme][OperandNumber(line, i)]
             PROVE  \E d \in Meant(line, i) :
                      IF SymbolOf(d).type = "STRING_REF"
                      THEN NewInstr.args[OperandNumber(line, i)]
                             = [type |-> "STRING_REF", value |-> SymbolOf(d).value]
                      ELSE NewInstr.args[OperandNumber(line, i)].value
                             = SymbolOf(d).index + Element(line, i)
  BY DEF UsesOwn
<1>3. i \in Nat /\ i \in 2 .. Len(source[line]) /\ i \in 1 .. Len(source[line]) /\ Type(i) = "IDENT"
      /\ source[line][i - 1].type # "OPEN_BRACKET" /\ i - 1 \in 1 .. Len(source[line])
  <2>1. i \in 2 .. Len(source[line]) /\ source[line][i - 1].type # "OPEN_BRACKET"
    BY DEF OperandTokens
  <2>2. i \in Nat /\ i \in 1 .. Len(source[line]) /\ i - 1 \in 1 .. Len(source[line])
    BY <1>1, <2>1
  <2> QED
    BY <1>1, <2>1, <2>2
<1>4. PICK k \in 1 .. n : i = Start(k)
  <2>1. IsOperand(i)
    BY <1>1, <1>3 DEF IsOperand
  <2> QED
    BY <2>1, OperandsAre
<1>5. OperandNumber(line, i) = k
  BY <1>4, OperandNumberIs
<1>6. NewInstr.args[k] = OperandOf(k)
  BY <1>1 DEF NewInstr
<1>7. "MEM_REF" \in Accepts[k]
  BY <1>1, <1>5 DEF Accepts
<1>8. VariableError(i, Indexed(k, i)) = "NO_ERR"
  <2>1. OperandError(k) = "NO_ERR"
    BY <1>1, InstrPasses, WrittenIs DEF Written
  <2> QED
    BY <1>3, <1>4, <1>7, <2>1 DEF OperandError
<1>9. OperandOf(k) = VariableOperand(i, Indexed(k, i))
  BY <1>3, <1>4, <1>7 DEF OperandOf
<1> DEFINE s == Symbol(Lexeme(i))
<1>10. s # 0
  BY <1>8 DEF VariableError
<1>11. PICK d \in Meant(line, i) : SymbolOf(d) = tables.symbols[s] /\ SymbolTold(d)
  BY <1>10, SymbolMeant
<1>12. SymbolOf(d).index \in Int /\ SymbolOf(d).type \in {"INT", "STRING_REF"}
       /\ tables.symbols \in Seq(SymbolNodes)
  <2>1. s \in 0 .. Len(tables.symbols) /\ Len(tables.symbols) \in Nat
        /\ tables.symbols \in Seq(SymbolNodes)
    BY <1>2, SymbolFound DEF TablesTyped
  <2> HIDE DEF s
  <2>2. s \in 1 .. Len(tables.symbols)
    BY <1>10, <2>1
  <2>3. tables.symbols[s] \in SymbolNodes
    BY <2>1, <2>2
  <2> QED
    BY <1>11, <2>1, <2>3 DEF SymbolNodes
<1>13. Type(i + 1) = "OPEN_BRACKET" <=> Indexed(k, i)
  BY <1>3, <1>7 DEF Indexed
<1>14. CASE ~Indexed(k, i)
  <2>1. Element(line, i) = 0
    BY <1>1, <1>13, <1>14 DEF Element
  <2>2. OperandOf(k) = IF SymbolOf(d).type = "STRING_REF"
                       THEN [type |-> "STRING_REF", value |-> SymbolOf(d).value]
                       ELSE [type |-> "ABS_STACK_INDEX", value |-> SymbolOf(d).index]
    BY <1>9, <1>11, <1>14 DEF VariableOperand
  <2>3. SymbolOf(d).index + 0 = SymbolOf(d).index
    BY <1>12
  <2>4. IF SymbolOf(d).type = "STRING_REF"
        THEN OperandOf(k) = [type |-> "STRING_REF", value |-> SymbolOf(d).value]
        ELSE OperandOf(k).value = SymbolOf(d).index
    BY <2>2
  <2> HIDE DEF s
  <2>5. IF SymbolOf(d).type = "STRING_REF"
        THEN OperandOf(k) = [type |-> "STRING_REF", value |-> SymbolOf(d).value]
        ELSE OperandOf(k).value = SymbolOf(d).index + Element(line, i)
    BY <2>1, <2>3, <2>4
  <2> QED
    BY <1>5, <1>6, <2>5
<1>15. CASE Indexed(k, i)
  <2>1. /\ tables.symbols[s].isArr /\ Type(i + 2) \in {"INT", "IDENT"}
        /\ Type(i + 2) = "IDENT" =>
             /\ Symbol(Lexeme(i + 2)) # 0
             /\ ~ (tables.symbols[Symbol(Lexeme(i + 2))].size > 1)
    BY <1>8, <1>15 DEF VariableError
  <2>2. Type(i + 2) = "INT"
    <3> SUFFICES ASSUME Type(i + 2) = "IDENT"  PROVE FALSE
      BY <2>1
    <3>1. PICK e \in Meant(line, i + 2) :
            SymbolOf(e) = tables.symbols[Symbol(Lexeme(i + 2))] /\ SymbolTold(e)
      BY <2>1, SymbolMeant
    <3>2. SymbolOf(e).size >= 4 /\ ~ (SymbolOf(e).size > 1)
      BY <2>1, <3>1 DEF SymbolTold
    <3>3. SymbolOf(e).size \in Nat
      <4> DEFINE u == Symbol(Lexeme(i + 2))
      <4>1. u \in 0 .. Len(tables.symbols) /\ Len(tables.symbols) \in Nat /\ u # 0
        BY <1>2, <2>1, SymbolFound DEF TablesTyped
      <4> HIDE DEF u
      <4>2. u \in 1 .. Len(tables.symbols)
        BY <4>1
      <4>3. tables.symbols[u] \in SymbolNodes
        BY <1>12, <4>2
      <4> QED
        BY <3>1, <4>3 DEF SymbolNodes, u
    <3> QED
      BY <3>2, <3>3
  <2>3. SymbolOf(d).type # "STRING_REF"
    BY <1>11, <2>1 DEF SymbolTold
  <2>4. Element(line, i) = Lexeme(i + 2)
    BY <1>1, <1>13, <1>15 DEF Element, Lexeme
  <2>5. OperandOf(k) = [type |-> "ABS_STACK_INDEX", value |-> SymbolOf(d).index + Lexeme(i + 2)]
    BY <1>9, <1>11, <1>15, <2>2 DEF VariableOperand
  <2>6. OperandOf(k).value = SymbolOf(d).index + Lexeme(i + 2)
    BY <2>5
  <2> HIDE DEF s
  <2> QED
    BY <1>5, <1>6, <2>3, <2>4, <2>6
<1> QED
  BY <1>14, <1>15

-----------------------------------------------------------------------------
(* The tables in the second pass *)

TablesKept ==
  /\ source' = source /\ header'.globals = header.globals
  /\ tables'.funcs = tables.funcs /\ tables'.labels = tables.labels
  /\ tables'.symbols = tables.symbols

LEMMA TellsKept ==
  ASSUME TablesKept, phase' # "first" \/ UNCHANGED <<phase, scope>>, NEW n, Tells(n)
  PROVE  Tells(n)'
<1>1. /\ \A d : SymbolOf(d)' = SymbolOf(d) /\ FuncNode(d)' = FuncNode(d) /\ EndOf(d)' = EndOf(d)
      /\ \A d : Ended(d, n)' = Ended(d, n)
  BY SamePlaces DEF TablesKept, SymbolOf, FuncNode, EndOf, Ended
<1>2. FuncsTell(n)'
  BY <1>1, SamePlaces DEF TablesKept, Tells, FuncsTell
<1>3. LabelsTell(n)'
  BY <1>1, SamePlaces DEF TablesKept, Tells, LabelsTell
<1>4. \A d : SymbolTold(d)' = SymbolTold(d)
  BY <1>1, SamePlaces DEF TablesKept, SymbolTold
<1>5. SymbolsTell(n)'
  BY <1>1, <1>4, SamePlaces DEF TablesKept, Tells, SymbolsTell
<1>6. \A d : Stored(d, n) => Stored(d, n)'
  BY <1>1, SamePlaces DEF TablesKept, Stored
<1>7. Storage(n)'
  BY <1>1, <1>6, SamePlaces DEF TablesKept, Tells, Storage
<1> QED
  BY <1>2, <1>3, <1>5, <1>7 DEF Tells

LEMMA FollowsKept ==
  ASSUME TablesKept, NEW l, NEW I
  PROVE  Follows(l, I) => Follows(l, I)'
<1>1. LinesOf("IDENT")' = LinesOf("IDENT") /\ LinesOf("FUNC")' = LinesOf("FUNC")
      /\ LastName(l)' = LastName(l) /\ LastOperand(I)' = LastOperand(I)
  BY SamePlaces DEF TablesKept, LinesOf, LastName, LastOperand
<1>2. \A d : Slot(d)' = Slot(d) /\ FuncOf(d)' = FuncOf(d)
  BY SamePlaces DEF TablesKept
<1> QED
  BY <1>1, <1>2 DEF TablesKept, Follows

LEMMA UsesOwnKept ==
  ASSUME TablesKept, NEW l, NEW I
  PROVE  UsesOwn(l, I) => UsesOwn(l, I)'
<1>1. Declarations' = Declarations /\ \A d : SymbolOf(d)' = SymbolOf(d)
  BY SamePlaces DEF TablesKept, Declarations, LinesOf, SymbolOf
<1>2. \A d : IsLocal(d)' = IsLocal(d) /\ FuncOf(d)' = FuncOf(d)
  BY SamePlaces DEF TablesKept
<1>3. ASSUME NEW i
      PROVE  Meant(l, i)' = Meant(l, i)
  <2> DEFINE named == {d \in Declarations : source[d][2].lexeme = source[l][i].lexeme}
             own == {d \in named : IsLocal(d) /\ FuncOf(d) = FuncOf(l)}
             others == {d \in named : ~IsLocal(d)}
  <2>1. named' = named
    BY <1>1 DEF TablesKept
  <2> HIDE DEF named
  <2>2. own' = own /\ others' = others
    BY <1>2, <2>1
  <2>3. Meant(l, i) = IF own # {} THEN own ELSE others
    BY DEF Meant, named
  <2>4. Meant(l, i)' = IF own' # {} THEN own' ELSE others'
    BY DEF Meant, named
  <2> HIDE DEF own, others
  <2> QED
    BY <2>2, <2>3, <2>4
<1>4. OperandTokens(l)' = OperandTokens(l)
  BY DEF TablesKept, OperandTokens
<1>5. \A i : OperandNumber(l, i)' = OperandNumber(l, i) /\ Element(l, i)' = Element(l, i)
  <2> SUFFICES ASSUME NEW i  PROVE OperandNumber(l, i)' = OperandNumber(l, i) /\ Element(l, i)' = Element(l, i)
    OBVIOUS
  <2>1. TypeAt(l, i + 1)' = TypeAt(l, i + 1)
    BY SamePlaces DEF TablesKept
  <2> QED
    BY <1>4, <2>1 DEF TablesKept, OperandNumber, Element
<1>6. \A i : Meant(l, i)' = Meant(l, i)
  BY <1>3
<1> QED
  BY <1>1, <1>4, <1>5, <1>6 DEF TablesKept, UsesOwn

\* What has been written stays.
LEMMA WrittenStays ==
  ASSUME PassInv, phase = "second", source' = source, NEW l \in 1 .. line - 1,
         TypeAt(l, 1) \in {"INSTR", "CLOSE_BRACE"},
         \A j \in 1 .. Len(stream) : stream'[j] = stream[j]
  PROVE  WrittenFor(l)' = WrittenFor(l)
<1>1. l \in Nat \ {0} /\ line \in Nat /\ l < line /\ l <= line /\ l \in Nat
      /\ Len(stream) = Slot(line)
  BY DEF PassInv, WorkTyped, SecondWrites
<1>2. \/ Before(l, "INSTR") + 1 <= Before(line, "INSTR")
      \/ Before(l, "CLOSE_BRACE") + 1 <= Before(line, "CLOSE_BRACE")
  BY <1>1, BeforeLater
<1>3. /\ Before(l, "INSTR") <= Before(line, "INSTR")
      /\ Before(l, "CLOSE_BRACE") <= Before(line, "CLOSE_BRACE")
  BY <1>1, BeforeGrows
<1>4. /\ Before(l, "INSTR") \in Nat /\ Before(line, "INSTR") \in Nat
      /\ Before(l, "CLOSE_BRACE") \in Nat /\ Before(line, "CLOSE_BRACE") \in Nat
  BY <1>1, BeforeIsNat
<1>5. Slot(l) + 1 \in 1 .. Len(stream)
  BY <1>1, <1>2, <1>3, <1>4 DEF Slot
<1>6. Slot(l)' = Slot(l)
  BY SamePlaces
<1> QED
  BY <1>5, <1>6 DEF WrittenFor

\* A line of the second pass.
LEMMA SecondTells ==
  ASSUME PassInv, RestTyped, TablesInv, phase = "second", NEW m, Passed(m), TablesKept,
         \A j \in 1 .. Len(stream) : stream'[j] = stream[j],
         ScopeTells',
         NEW c, c = line,
         TypeAt(c, 1) = "INSTR" => Follows(c, WrittenFor(c))' /\ UsesOwn(c, WrittenFor(c))'
  PROVE  TablesInv'
<1>1. phase' = "second" /\ source' = source /\ WorkTyped
  BY DEF Passed, PassInv
<1>2. PICK n : n = Len(source) + 1
  OBVIOUS
<1>3. Tells(n)
  BY <1>2 DEF TablesInv
<1>4. Tells(n)'
  BY <1>1, <1>3, TellsKept
<1>5. ASSUME NEW l \in 1 .. line' - 1, TypeAt(l, 1) = "INSTR"
      PROVE  Follows(l, WrittenFor(l))' /\ UsesOwn(l, WrittenFor(l))'
  <2>1. l \in 1 .. line - 1 \/ l = c
    <3>1. line' - 1 = m
      BY <1>1, LinesPassed
    <3>2. TypeAt(l, 1) \notin Skipped
      BY <1>5 DEF Skipped
    <3> QED
      BY <1>1, <1>5, <3>1, <3>2, LinesPassed
  <2>2. CASE l \in 1 .. line - 1
    <3>1. PICK I : I = WrittenFor(l)
      OBVIOUS
    <3>2. Follows(l, I) /\ UsesOwn(l, I)
      BY <1>5, <2>2, <3>1 DEF TablesInv
    <3>3. Follows(l, I)' /\ UsesOwn(l, I)'
      BY <3>2, FollowsKept, UsesOwnKept
    <3>4. WrittenFor(l)' = I
      BY <1>1, <1>5, <2>2, <3>1, WrittenStays
    <3> QED
      BY <3>3, <3>4
  <2>3. CASE l = c
    BY <1>5, <2>3
  <2> QED
    BY <2>1, <2>2, <2>3
<1>6. \A l : TypeAt(l, 1)' = TypeAt(l, 1)
  BY <1>1, SamePlaces
<1> QED
  BY <1>1, <1>2, <1>4, <1>5, <1>6 DEF TablesInv

\* An instruction is written for a line.
LEMMA LineWritten ==
  ASSUME PassInv, RestTyped, TablesInv, NEW type, type # "FUNC", Reads("second", type), Passes("NO_ERR"),
         NEW I, Write(I), SkipToNextLine(line), header' = header,
         tables'.funcs = tables.funcs, tables'.labels = tables.labels,
         tables'.symbols = tables.symbols, scope'.func = scope.func,
         scope'.active = IF type = "CLOSE_BRACE" THEN FALSE ELSE scope.active,
         DOMAIN scope' = DOMAIN scope,
         type = "INSTR" => Follows(line, I) /\ UsesOwn(line, I)
  PROVE  TablesInv'
<1>1. TypeAt(line, 1) = type /\ line \in DOMAIN source /\ phase = "second" /\ WorkTyped
      /\ SecondWrites /\ ScopeTells
  BY DEF Reads, Type, PassInv, TablesInv
<1>2. line \in line .. Len(source) /\ line + 1 .. line = {}
  BY <1>1 DEF WorkTyped
<1>3. Passed(line)
  BY <1>1, <1>2 DEF Passed, Passes, SkipToNextLine, WorkTyped
<1>4. TablesKept
  BY DEF TablesKept, Passes
<1>5. ScopeTells'
  BY <1>1, <1>3, ScopePass
<1>6. stream \in Seq(Instrs) /\ Len(stream) = Slot(line) /\ Len(stream) \in Nat
  BY <1>1 DEF RestTyped, SecondWrites
<1>7. /\ \A j \in 1 .. Len(stream) : stream'[j] = stream[j]
      /\ stream'[Len(stream) + 1] = I
  <2>1. \E S : stream \in Seq(S) /\ I \in S
    <3>1. stream \in Seq(Instrs \cup {I}) /\ I \in Instrs \cup {I}
      BY <1>6
    <3> QED
      BY <3>1
  <2> QED
    BY <2>1 DEF Write
<1>8. PICK c : c = line
  OBVIOUS
<1>9. ASSUME TypeAt(c, 1) = "INSTR"
      PROVE  Follows(c, WrittenFor(c))' /\ UsesOwn(c, WrittenFor(c))'
  <2>1. PICK J : J = I
    OBVIOUS
  <2>2. Follows(c, J)' /\ UsesOwn(c, J)'
    BY <1>1, <1>4, <1>8, <1>9, <2>1, FollowsKept, UsesOwnKept
  <2>3. WrittenFor(c)' = J
    <3>1. Slot(c)' = Slot(line)
      BY <1>4, <1>8, SamePlaces DEF TablesKept
    <3> QED
      BY <1>6, <1>7, <2>1, <3>1 DEF WrittenFor
  <2> QED
    BY <2>2, <2>3
<1> QED
  BY <1>1, <1>3, <1>4, <1>5, <1>7, <1>8, <1>9, SecondTells

LEMMA WriteInstrTells == PassInv /\ RestTyped /\ TablesInv /\ WriteInstr => TablesInv'
<1> SUFFICES ASSUME PassInv, RestTyped, TablesInv, WriteInstr  PROVE TablesInv'
  OBVIOUS
<1>1. CASE Refused(InstrError)
  BY <1>1, ExitTells
<1>2. CASE Abort
  BY <1>2, ExitTells
<1>3. CASE Return("INVALID_INPUT")
  BY <1>3, ExitTells
<1>4. CASE /\ Passes(InstrError) /\ Write(NewInstr)
           /\ tables' = IF Lexeme(1) = "CALLCORE"
                        THEN [tables EXCEPT !.apis = WithString(@, Lexeme(2))] ELSE tables
           /\ SkipToNextLine(line) /\ UNCHANGED <<scope, header>>
  <2>1. Passes("NO_ERR") /\ Reads("second", "INSTR") /\ InstrError = "NO_ERR"
    BY <1>4 DEF Passes, WriteInstr
  <2>2. Written
    BY <2>1, TablesAre DEF Written, Reads
  <2>3. tables'.funcs = tables.funcs /\ tables'.labels = tables.labels
        /\ tables'.symbols = tables.symbols
    BY <1>4, TablesAre
  <2>4. Follows(line, NewInstr) /\ UsesOwn(line, NewInstr)
    BY <2>2, WrittenFollows, WrittenUsesOwn
  <2>5. PICK I : I = NewInstr
    OBVIOUS
  <2>6. Write(I) /\ Follows(line, I) /\ UsesOwn(line, I)
    BY <1>4, <2>4, <2>5
  <2>7. /\ scope'.func = scope.func /\ DOMAIN scope' = DOMAIN scope /\ header' = header
        /\ scope'.active = IF "INSTR" = "CLOSE_BRACE" THEN FALSE ELSE scope.active
        /\ SkipToNextLine(line) /\ "INSTR" # "FUNC"
    BY <1>4
  <2> QED
    BY <2>1, <2>3, <2>6, <2>7, LineWritten
<1> QED
  BY <1>1, <1>2, <1>3, <1>4 DEF WriteInstr, NewInstr

LEMMA LeaveFunctionTells == PassInv /\ RestTyped /\ TablesInv /\ LeaveFunction => TablesInv'
<1> SUFFICES ASSUME PassInv, RestTyped, TablesInv, LeaveFunction  PROVE TablesInv'
  OBVIOUS
<1>1. PICK I : Write(I)
  BY DEF LeaveFunction
<1>2. /\ Reads("second", "CLOSE_BRACE") /\ Passes("NO_ERR") /\ SkipToNextLine(line)
      /\ UNCHANGED <<header, tables>> /\ scope' = [scope EXCEPT !.active = FALSE]
  BY DEF LeaveFunction
<1>3. /\ scope'.active = IF "CLOSE_BRACE" = "CLOSE_BRACE" THEN FALSE ELSE scope.active
      /\ scope'.func = scope.func /\ DOMAIN scope' = DOMAIN scope
  BY <1>2 DEF PassInv, WorkTyped
<1>4. /\ tables'.funcs = tables.funcs /\ tables'.labels = tables.labels
      /\ tables'.symbols = tables.symbols /\ header' = header
      /\ "CLOSE_BRACE" # "INSTR" /\ "CLOSE_BRACE" # "FUNC"
  BY <1>2
<1>5. Reads("second", "CLOSE_BRACE") /\ Passes("NO_ERR") /\ SkipToNextLine(line)
  BY <1>2
<1> QED
  BY <1>1, <1>3, <1>4, <1>5, LineWritten

LEMMA SkipOtherTells == PassInv /\ RestTyped /\ TablesInv /\ SkipOther => TablesInv'
<1> SUFFICES ASSUME PassInv, RestTyped, TablesInv, SkipOther  PROVE TablesInv'
  OBVIOUS
<1>1. /\ TypeAt(line, 1) \notin {"INSTR", "FUNC", "CLOSE_BRACE"} /\ ScopeTells
      /\ line \in DOMAIN source /\ phase = "second" /\ WorkTyped
  BY DEF SkipOther, Reads, Type, PassInv, TablesInv
<1>2. line \in line .. Len(source) /\ line + 1 .. line = {}
  BY <1>1 DEF WorkTyped
<1>3. Passed(line)
  BY <1>1, <1>2 DEF Passed, SkipOther, Passes, SkipToNextLine, WorkTyped
<1>4. TablesKept /\ stream' = stream /\ scope' = scope
  BY DEF TablesKept, SkipOther, Passes
<1>5. ScopeTells'
  BY <1>1, <1>3, <1>4, ScopePass
<1>6. PICK c : c = line
  OBVIOUS
<1>7. TypeAt(c, 1) # "INSTR"
  BY <1>1, <1>6
<1> QED
  BY <1>1, <1>3, <1>4, <1>5, <1>6, <1>7, SecondTells

\* The name of a function that the second pass enters has been entered once, so that
\* it is found where the first pass has put it.
LEMMA EnterFunctionTells == PassInv /\ RestTyped /\ TablesInv /\ EnterFunction => TablesInv'
<1> SUFFICES ASSUME PassInv, RestTyped, TablesInv, EnterFunction  PROVE TablesInv'
  OBVIOUS
<1>1. /\ TypeAt(line, 1) = "FUNC" /\ line \in DOMAIN source /\ phase = "second"
      /\ WorkTyped /\ WellPlaced(line) /\ TablesTyped
  BY TablesAre DEF EnterFunction, Reads, Type, PassInv, SecondWrites, WorkTyped
<1>2. Brace(line) = BraceLine
  BY DEF Brace, BraceLine, Type
<1>3. /\ BraceLine \in line .. Len(source)
      /\ \A k \in line + 1 .. BraceLine : TypeAt(k, 1) \in Skipped
  BY <1>1, <1>2 DEF WellPlaced
<1>4. /\ scope'.active = TRUE /\ DOMAIN scope' = {"active", "func", "size"}
      /\ scope'.func = GetFuncByName(tables, source[line][2].lexeme) - 1
  BY <1>1 DEF EnterFunction, WorkTyped, Lexeme
<1>5. Passed(BraceLine)
  BY <1>1, <1>3, <1>4 DEF Passed, EnterFunction, Passes, SkipToNextLine
<1>6. TablesKept /\ stream' = stream
  BY DEF TablesKept, EnterFunction, Passes
<1>7. scope'.func = Before(line, "FUNC") /\ Before(line, "FUNC") \in Nat
  <2>1. Len(source) + 1 \in Nat /\ line \in 1 .. (Len(source) + 1) - 1 /\ line \in Nat
    BY <1>1 DEF WorkTyped
  <2>2. FuncsTell(Len(source) + 1)
    BY <1>1 DEF TablesInv, Tells
  <2>3. GetFuncByName(tables, source[line][2].lexeme) = Before(line, "FUNC") + 1
    BY <1>1, <2>1, <2>2, FuncTold
  <2>4. Before(line, "FUNC") \in Nat
    BY <2>1, BeforeIsNat
  <2> QED
    BY <1>4, <2>3, <2>4
<1>8. ScopeTells'
  <2>1. Before(BraceLine + 1, "FUNC") = Before(line, "FUNC") + 1
    BY <1>1, <1>5, PassedCounts DEF Skipped
  <2>2. Before(line, "FUNC")' = Before(BraceLine + 1, "FUNC")
    BY <1>5, SamePlaces DEF Passed
  <2> QED
    BY <1>7, <2>1, <2>2 DEF ScopeTells, FuncOf
<1>9. PICK c : c = line
  OBVIOUS
<1>10. TypeAt(c, 1) # "INSTR"
  BY <1>1, <1>9
<1>11. \A j \in 1 .. Len(stream) : stream'[j] = stream[j]
  BY <1>6
<1> QED
  BY <1>1, <1>5, <1>6, <1>8, <1>9, <1>10, <1>11, SecondTells

LEMMA SecondPassTells == PassInv /\ RestTyped /\ TablesInv /\ SecondPass => TablesInv'
BY WriteInstrTells, EnterFunctionTells, LeaveFunctionTells, SkipOtherTells DEF SecondPass

-----------------------------------------------------------------------------
(* The tables from a call to its end *)

LEMMA NothingTold ==
  ASSUME phase' = "first", line' = 1, tables' = NoTables
  PROVE  TablesInv'
<1>1. \A t : Before(line, t)' = 0
  <2>1. \A t : Before(1, t)' = 0
    BY BeforeFirst
  <2> QED
    BY <2>1 DEF Before
<1>2. 1 .. line' - 1 = {} /\ 1 .. 0 = {}
  OBVIOUS
<1>3. Len(tables'.funcs) = 0 /\ Len(tables'.labels) = 0 /\ Len(tables'.symbols) = 0
  BY DEF NoTables
<1>4. FuncsTell(line)'
  BY <1>1, <1>2, <1>3 DEF FuncsTell
<1>5. LabelsTell(line)'
  BY <1>1, <1>2, <1>3 DEF LabelsTell
<1>6. SymbolsTell(line)'
  BY <1>1, <1>2, <1>3 DEF SymbolsTell
<1>7. Storage(line)'
  BY <1>2 DEF Storage
<1>8. ScopeTells'
  BY <1>1 DEF ScopeTells
<1> QED
  BY <1>4, <1>5, <1>6, <1>7, <1>8 DEF TablesInv, Tells

LEMMA CallsTell ==
  PassInv /\ RestTyped /\ TablesInv /\ (Exec \/ SourceMissing \/ LookupOverflows \/ LoadOverruns) => TablesInv'
<1> SUFFICES ASSUME PassInv, RestTyped, TablesInv, Exec \/ SourceMissing \/ LookupOverflows \/ LoadOverruns
             PROVE  TablesInv'
  OBVIOUS
<1>1. CASE Exec
  <2>1. phase' = "first" /\ line' = 1 /\ tables' = NoTables
    BY <1>1 DEF Exec, Called, StartFirstPass, TablesInv
  <2> QED
    BY <2>1, NothingTold
<1>2. CASE SourceMissing \/ LookupOverflows \/ LoadOverruns
  BY <1>2, ExitTells DEF SourceMissing, LookupOverflows, LoadOverruns
<1> QED
  BY <1>1, <1>2

LEMMA AllocateStreamTells == PassInv /\ RestTyped /\ TablesInv /\ AllocateStream => TablesInv'
<1> SUFFICES ASSUME PassInv, RestTyped, TablesInv, AllocateStream  PROVE TablesInv'
  OBVIOUS
<1>1. /\ phase = "first" /\ phase' = "second" /\ line' = 1 /\ source' = source /\ TablesKept
  BY DEF AllocateStream, TablesKept
<1>2. PICK n : n = line
  OBVIOUS
<1>3. n = Len(source) + 1
  BY <1>2 DEF PassInv, AllocateStream, WorkTyped
<1>4. Tells(n)'
  BY <1>1, <1>2, TellsKept DEF TablesInv
<1>5. ScopeTells'
  <2>1. Before(line, "FUNC")' = 0
    <3>1. Before(1, "FUNC")' = 0
      BY BeforeFirst
    <3> QED
      BY <1>1, <3>1 DEF Before
  <2> QED
    BY <2>1 DEF ScopeTells
<1>6. 1 .. line' - 1 = {}
  BY <1>1
<1> QED
  BY <1>1, <1>3, <1>4, <1>5, <1>6 DEF TablesInv

\* Nothing changes that the tables and the instructions tell.
LEMMA NothingChanges ==
  ASSUME TablesInv, UNCHANGED <<source, line, scope, header, stream, tables>>,
         phase' = phase \/ (phase = "second" /\ phase' = "build")
  PROVE  TablesInv'
<1>1. TablesKept
  BY DEF TablesKept
<1>2. ScopeTells => ScopeTells'
  <2>1. Before(line, "FUNC")' = Before(line, "FUNC")
    BY SamePlaces
  <2> QED
    BY <2>1 DEF ScopeTells, FuncOf
<1>3. CASE phase = "idle"
  BY <1>3 DEF TablesInv
<1>4. CASE phase = "first"
  <2>1. PICK n : n = line
    OBVIOUS
  <2>2. Tells(n)
    BY <1>4, <2>1 DEF TablesInv
  <2>3. Tells(n)'
    BY <1>1, <1>4, <2>2, TellsKept
  <2> QED
    BY <1>2, <1>4, <2>1, <2>3 DEF TablesInv
<1>5. CASE phase \in {"second", "build"}
  <2>1. PICK n : n = Len(source) + 1
    OBVIOUS
  <2>2. Tells(n)'
    BY <1>1, <1>5, <2>1, TellsKept DEF TablesInv
  <2>3. ASSUME NEW l \in 1 .. line' - 1, TypeAt(l, 1) = "INSTR"
        PROVE  Follows(l, WrittenFor(l))' /\ UsesOwn(l, WrittenFor(l))'
    <3>1. PICK I : I = WrittenFor(l)
      OBVIOUS
    <3>2. Follows(l, I)' /\ UsesOwn(l, I)'
      BY <1>1, <1>5, <2>3, <3>1, FollowsKept, UsesOwnKept DEF TablesInv
    <3>3. WrittenFor(l)' = I
      BY <3>1, SamePlaces DEF WrittenFor
    <3> QED
      BY <3>2, <3>3
  <2>4. \A l : TypeAt(l, 1)' = TypeAt(l, 1)
    BY SamePlaces
  <2> QED
    BY <1>2, <1>5, <2>1, <2>2, <2>3, <2>4 DEF TablesInv
<1>6. CASE phase \notin {"idle", "first", "second", "build"}
  BY <1>6 DEF TablesInv
<1> QED
  BY <1>3, <1>4, <1>5, <1>6

LEMMA TablesInvStart == Init => TablesInv
BY DEF Init, NoWork, TablesInv

LEMMA TablesInvStep == PassInv /\ RestTyped /\ TablesInv /\ [Next]_vars => TablesInv'
<1> SUFFICES ASSUME PassInv, RestTyped, TablesInv, [Next]_vars  PROVE TablesInv'
  OBVIOUS
<1>1. CASE EndSecondPass
  BY <1>1, NothingChanges DEF EndSecondPass, work
<1>2. CASE BuildFSE \/ BuildFails
  BY <1>2, ExitTells DEF BuildFSE, BuildFails
<1>3. CASE UNCHANGED vars
  BY <1>3, NothingChanges DEF vars
<1> QED
  BY <1>1, <1>2, <1>3, CallsTell, FirstPassTells, AllocateStreamTells, SecondPassTells DEF Next

LEMMA TablesHold == Spec => [](PassInv /\ RestTyped /\ TablesInv)
<1>1. Init => PassInv /\ RestTyped /\ TablesInv
  BY PassInvStart, RestTypedStart, TablesInvStart
<1>2. PassInv /\ RestTyped /\ TablesInv /\ [Next]_vars => (PassInv /\ RestTyped /\ TablesInv)'
  BY PassInvStep, RestTypedStep, TablesInvStep
<1> QED
  BY <1>1, <1>2, PTL DEF Spec

-----------------------------------------------------------------------------
(* What the executable file is built from *)

\* The place of a jump or a call is that of the instruction that is meant, whatever the
\* source: what the first pass has counted when it met the label or the function is what
\* the second pass has written before the instruction that follows.
THEOREM TargetsFollowHolds == Spec => []TargetsFollow
<1>1. PassInv /\ RestTyped /\ TablesInv => TargetsFollow
  <2> SUFFICES ASSUME PassInv, TablesInv, phase = "build", NEW l \in LinesOf("INSTR")
               PROVE  Follows(l, WrittenFor(l))
    BY DEF TargetsFollow
  <2>1. l \in 1 .. line - 1 /\ TypeAt(l, 1) = "INSTR"
    BY DEF PassInv, WorkTyped, LinesOf
  <2> QED
    BY <2>1 DEF TablesInv
<1> QED
  BY <1>1, TablesHold, PTL

\* An instruction uses the variables that its source means, whatever the source, and
\* whatever iCurrFuncIndex holds outside functions.
THEOREM OwnVariablesHolds == Spec => []OwnVariables
<1>1. PassInv /\ RestTyped /\ TablesInv => OwnVariables
  <2> SUFFICES ASSUME PassInv, TablesInv, phase = "build", NEW l \in LinesOf("INSTR")
               PROVE  UsesOwn(l, WrittenFor(l))
    BY DEF OwnVariables
  <2>1. l \in 1 .. line - 1 /\ TypeAt(l, 1) = "INSTR"
    BY DEF PassInv, WorkTyped, LinesOf
  <2> QED
    BY <2>1 DEF TablesInv
<1> QED
  BY <1>1, TablesHold, PTL

\* A variable and its node, when both passes are over.
LEMMA Declared ==
  ASSUME PassInv, RestTyped, TablesInv, phase = "build", NEW d \in Declarations
  PROVE  /\ d \in 1 .. Len(source) /\ Len(source) \in Nat /\ d \in Nat \ {0} /\ Declares(d)
         /\ SymbolTold(d) /\ Stored(d, Len(source) + 1) /\ Storage(Len(source) + 1)
         /\ SymbolOf(d).index \in Int /\ SymbolOf(d).size \in Nat
         /\ Before(d, "FUNC") \in Nat /\ Before(d, "CLOSE_BRACE") \in Nat
<1>1. source \in Seq(Lines) /\ Tells(Len(source) + 1) /\ TablesTyped
  BY TablesAre DEF PassInv, WorkTyped, TablesInv
<1>2. d \in 1 .. Len(source) /\ Len(source) \in Nat /\ d \in Nat \ {0} /\ Declares(d)
      /\ d \in 1 .. (Len(source) + 1) - 1 /\ Len(source) + 1 \in Nat /\ d < Len(source) + 1
  BY <1>1 DEF Declarations, LinesOf, Declares
<1>3. SymbolTold(d) /\ Stored(d, Len(source) + 1) /\ Storage(Len(source) + 1)
  BY <1>1, <1>2 DEF Tells, SymbolsTell, Storage
<1>4. SymbolIndex(d) \in 1 .. Len(tables.symbols)
  BY <1>1, <1>2, SymbolPlaced DEF Tells, SymbolsTell
<1>5. tables.symbols[SymbolIndex(d)] \in SymbolNodes
  BY <1>1, <1>4 DEF TablesTyped
<1>6. SymbolOf(d) = tables.symbols[SymbolIndex(d)]
  BY DEF SymbolOf, SymbolIndex
<1>7. SymbolOf(d).index \in Int /\ SymbolOf(d).size \in Nat
  BY <1>5, <1>6 DEF SymbolNodes
<1> QED
  BY <1>2, <1>3, <1>7, BeforeIsNat

\* Two variables that one function can see.
LEMMA Apart ==
  ASSUME PassInv, RestTyped, TablesInv, phase = "build",
         NEW d \in Declarations, NEW e \in Declarations, e < d,
         IsLocal(d) /\ IsLocal(e) => FuncOf(d) = FuncOf(e)
  PROVE  EndOf(e) <= SymbolOf(d).index \/ EndOf(d) <= SymbolOf(e).index
<1>1. d \in 1 .. (Len(source) + 1) - 1 /\ e \in 1 .. d - 1 /\ Declares(d) /\ Declares(e)
  BY Declared
<1>2. /\ ~IsLocal(d) /\ ~IsLocal(e) => EndOf(e) <= SymbolOf(d).index
      /\ IsLocal(d) /\ IsLocal(e) /\ FuncOf(d) = FuncOf(e) => EndOf(d) <= SymbolOf(e).index
  BY <1>1, Declared DEF Storage
<1>3. /\ IsLocal(d) => EndOf(d) <= 0
      /\ IsLocal(e) => EndOf(e) <= 0
  BY Declared DEF Stored
<1>4. /\ IsLocal(d) <=> SymbolOf(d).index < 0
      /\ IsLocal(e) <=> SymbolOf(e).index < 0
  BY Declared DEF SymbolTold
<1>5. /\ SymbolOf(d).index \in Int /\ SymbolOf(e).index \in Int
      /\ EndOf(d) \in Int /\ EndOf(e) \in Int
  BY Declared DEF EndOf
<1> QED
  BY <1>2, <1>3, <1>4, <1>5

\* A function that has not ended is the current one.
LEMMA EndedElse ==
  ASSUME PassInv, RestTyped, TablesInv, phase = "build", NEW d \in Declarations, IsLocal(d),
         ~ (scope.active /\ FuncOf(d) = scope.func)
  PROVE  Ended(d, Len(source) + 1) /\ FuncOf(d) + 1 \in 1 .. Len(tables.funcs)
<1> DEFINE n == Len(source) + 1
<1>1. /\ d \in Nat /\ n \in Nat /\ d <= n /\ line = n
      /\ Before(d, "FUNC") \in Nat /\ Before(d, "CLOSE_BRACE") \in Nat
  BY Declared DEF PassInv
<1>2. /\ Before(d, "FUNC") <= Before(n, "FUNC")
      /\ Before(n, "FUNC") \in Nat /\ Before(n, "CLOSE_BRACE") \in Nat
  BY <1>1, BeforeIsNat, BeforeGrows
<1>3. /\ Before(n, "FUNC") <= Before(n, "CLOSE_BRACE") + 1
      /\ ~scope.active => Before(n, "FUNC") = Before(n, "CLOSE_BRACE")
      /\ Before(n, "FUNC") > 0 => scope.func = Before(n, "FUNC") - 1
      /\ Len(tables.funcs) = Before(n, "FUNC")
  BY <1>1 DEF PassInv, SecondWrites, TablesInv, ScopeTells, FuncOf, Tells, FuncsTell
<1>4. Before(d, "FUNC") > Before(d, "CLOSE_BRACE") /\ FuncOf(d) = Before(d, "FUNC") - 1
  BY DEF IsLocal, FuncOf
<1> HIDE DEF n
<1>5. FuncOf(d) < Before(n, "CLOSE_BRACE")
  BY <1>1, <1>2, <1>3, <1>4
<1> QED
  BY <1>1, <1>2, <1>3, <1>4, <1>5 DEF Ended, n

\* The variables of a program have storage of their own, whatever the source: the offsets
\* that AddSymbol enters and the sizes that the file tells its loader fit together.
THEOREM DisjointHolds == Spec => []Disjoint
<1>1. PassInv /\ RestTyped /\ TablesInv => Disjoint
  <2> SUFFICES ASSUME PassInv, RestTyped, TablesInv, phase = "build", NEW d \in Declarations
               PROVE  LET s == SymbolOf(d)
                          bytes(t) == t.index .. t.index + t.size - 1
                      IN  /\ \A e \in Declarations \ {d} :
                               (IsLocal(d) /\ IsLocal(e) => FuncOf(d) = FuncOf(e))
                                 => bytes(s) \cap bytes(SymbolOf(e)) = {}
                          /\ ~IsLocal(d) => bytes(s) \subseteq 0 .. header.globals - 1
                          /\ IsLocal(d) /\ ~(scope.active /\ FuncOf(d) = scope.func)
                               => bytes(s) \subseteq -tables.funcs[FuncOf(d) + 1].size .. -1
    BY DEF Disjoint
  <2> DEFINE bytes(t) == t.index .. t.index + t.size - 1
             i == SymbolOf(d).index
             z == SymbolOf(d).size
  <2>1. i \in Int /\ z \in Nat /\ EndOf(d) = i + z
    BY Declared DEF EndOf
  <2>2. ASSUME NEW e \in Declarations \ {d}, IsLocal(d) /\ IsLocal(e) => FuncOf(d) = FuncOf(e)
        PROVE  bytes(SymbolOf(d)) \cap bytes(SymbolOf(e)) = {}
    <3> DEFINE j == SymbolOf(e).index
               y == SymbolOf(e).size
    <3>1. j \in Int /\ y \in Nat /\ EndOf(e) = j + y /\ e \in Nat /\ d \in Nat /\ e # d
      BY Declared DEF EndOf
    <3>2. j + y <= i \/ i + z <= j
      <4>1. CASE e < d
        BY <2>1, <2>2, <3>1, <4>1, Apart
      <4>2. CASE d < e
        BY <2>1, <2>2, <3>1, <4>2, Apart
      <4> QED
        BY <3>1, <4>1, <4>2
    <3> HIDE DEF i, j, y, z
    <3>3. (i .. i + z - 1) \cap (j .. j + y - 1) = {}
      BY <2>1, <3>1, <3>2
    <3> QED
      BY <3>3 DEF i, j, y, z
  <2>3. ASSUME ~IsLocal(d)
        PROVE  bytes(SymbolOf(d)) \subseteq 0 .. header.globals - 1
    <3>1. EndOf(d) <= header.globals /\ ~ (i < 0) /\ header.globals \in Nat
      BY <2>3, Declared DEF Stored, SymbolTold, RestTyped, Headers
    <3> HIDE DEF i, z
    <3>2. i .. i + z - 1 \subseteq 0 .. header.globals - 1
      BY <2>1, <3>1
    <3> QED
      BY <3>2 DEF i, z
  <2>4. ASSUME IsLocal(d), ~(scope.active /\ FuncOf(d) = scope.func)
        PROVE  bytes(SymbolOf(d)) \subseteq -tables.funcs[FuncOf(d) + 1].size .. -1
    <3> DEFINE f == tables.funcs[FuncOf(d) + 1].size
    <3>1. EndOf(d) <= 0 /\ -f <= i
      BY <2>4, EndedElse, Declared DEF Stored
    <3>2. f \in Int
      <4>1. tables.funcs \in Seq(FuncNodes) /\ FuncOf(d) + 1 \in 1 .. Len(tables.funcs)
        BY <2>4, EndedElse, TablesAre DEF TablesTyped
      <4>2. tables.funcs[FuncOf(d) + 1] \in FuncNodes
        BY <4>1
      <4> QED
        BY <4>2 DEF FuncNodes
    <3> HIDE DEF i, z, f
    <3>3. i .. i + z - 1 \subseteq -f .. -1
      BY <2>1, <3>1, <3>2
    <3> QED
      BY <3>3 DEF i, z, f
  <2> QED
    BY <2>2, <2>3, <2>4
<1> QED
  BY <1>1, TablesHold, PTL
=============================================================================
