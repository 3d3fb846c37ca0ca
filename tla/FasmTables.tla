------------------------------ MODULE FasmTables ------------------------------
(***************************************************************************)
(* The data of the assembler FASM: tokens, the instruction lookup table,   *)
(* and the tables of functions, line labels, variables, strings and names  *)
(* of kernel calls, with one operator per function that reads or extends   *)
(* them.                                                                   *)
(*                                                                         *)
(* A table is the sequence of the nodes of its linked list.  Functions     *)
(* return positions in it, from 1, with 0 for NULL; an index is a position *)
(* less 1.  Addresses and sizes are in bytes.                              *)
(***************************************************************************)
EXTENDS Integers, Sequences

CONSTANTS Texts,         \* string literals, identifiers and names
          Bytes          \* the number of characters of each: a lexeme has one at least

ASSUME BytesAssumption == Bytes \in [Texts -> Nat \ {0}]

TokenTypes ==
  {"INT", "INT_DEF", "STRING", "STRING_DEF", "PTR", "QUOTE", "IDENT", "COLON",
   "OPEN_BRACKET", "CLOSE_BRACKET", "COMMA", "OPEN_BRACE", "CLOSE_BRACE", "NEWLINE",
   "INSTR", "SETSTACKSIZE", "FUNC", "INVALID", "REG"}

ErrorCodes ==
  {"NO_ERR", "FILE_NOT_FOUND", "BUILD_FILE_FAILED", "LOCAL_SETSTACKSIZE",
   "MULTIPLE_SETSTACKSIZE", "INVALID_STACK_SIZE", "LOCAL_DEF_STRING", "IDENT_EXPECTED",
   "STR_NOT_DEF", "IDENT_REDEFINITION", "INVALID_ARRAY_SIZE", "NESTED_FUNC",
   "FUNC_REDEFINE", "GLOBAL_INSTR", "INVALID_LABEL", "GLOBAL_LABEL", "LABEL_REDEFINE",
   "INVALID_OP", "UNDEF_IDENT", "ARR_NOT_INDEXED", "UNDEF_FUNC", "CHAR_EXPECTED",
   "INVALID_INPUT"}
-----------------------------------------------------------------------------
(* The instructions, with the kinds of operands that each accepts *)

Variable == {"MEM_REF"}
Target   == {"MEM_REF", "REG"}
Source   == {"INT", "MEM_REF", "REG"}

InstrTable ==
  [MOV  |-> <<Target, Source>>,
   ADD  |-> <<Variable, {"INT", "MEM_REF"}>>,
   SUB  |-> <<Variable, {"INT", "MEM_REF"}>>,
   MUL  |-> <<Variable, {"INT", "MEM_REF"}>>,
   DIV  |-> <<Variable, {"INT", "MEM_REF"}>>,
   JMP  |-> <<{"LINE_LABEL"}>>,
   JE   |-> <<Source, Source, {"LINE_LABEL"}>>,
   JNE  |-> <<Source, Source, {"LINE_LABEL"}>>,
   JG   |-> <<Source, Source, {"LINE_LABEL"}>>,
   JL   |-> <<Source, Source, {"LINE_LABEL"}>>,
   PUSH |-> <<Source \cup {"STRING_REF"}>>,
   POP  |-> <<Target>>,
   CALL |-> <<{"FUNC_NAME"}>>,
   RET  |-> <<>>,
   CALLCORE |-> <<{"CORE_API_CALL"}>>,
   PAUSE |-> <<Source>>,
   QUIT |-> <<>>]

Mnemonics == DOMAIN InstrTable

OperandTypes ==
  {"INT", "STRING_REF", "ABS_STACK_INDEX", "REL_STACK_INDEX", "INSTR_INDEX", "FUNC_INDEX",
   "HOST_API_CALL_INDEX", "REG"}
Ops    == [type: OperandTypes, value: Int] \cup [type: {"REL_STACK_INDEX"}, value: Int, offset: Int]
Instrs == [op: Mnemonics, args: Seq(Ops)]
-----------------------------------------------------------------------------
(* Tables *)

FuncNodes   == [name: Texts, entry: Nat, size: Int]
LabelNodes  == [name: Texts, target: Nat, func: Nat]
SymbolNodes == [name: Texts, type: {"INT", "STRING_REF"}, value: Int, isArr: BOOLEAN,
                size: Nat, index: Int, func: Int]
Tables      == [funcs: Seq(FuncNodes), labels: Seq(LabelNodes), symbols: Seq(SymbolNodes),
                strings: Seq(Texts), apis: Seq(Texts)]

\* AddNode: the index of the node that it appends.
NewIndex(list) == Len(list)

\* The first node with a property, given the positions of all that have it.
FirstOf(S) == IF S = {} THEN 0 ELSE CHOOSE i \in S : \A j \in S : i <= j

\* InitLinkedList, of all of them.
NoTables == [funcs |-> <<>>, labels |-> <<>>, symbols |-> <<>>, strings |-> <<>>, apis |-> <<>>]

\* Mutant: the lengths are forgotten.
OffsetsUnprefixed(list) ==
  LET offset[i \in 1 .. Len(list) + 1] ==
        IF i = 1 THEN 0 ELSE offset[i - 1] + Bytes[list[i - 1]]
  IN  offset

\* The byte at which each string of a table begins in the memory of the program: a
\* string is preceded by its length.
Offsets(list) ==
  LET offset[i \in 1 .. Len(list) + 1] ==
        IF i = 1 THEN 0 ELSE offset[i - 1] + Bytes[list[i - 1]] + 4
  IN  offset

\* AddString: the table, and where the string is in it.
Positions(list, s)    == {i \in DOMAIN list : list[i] = s}
WithString(list, s)   == IF Positions(list, s) = {} THEN Append(list, s) ELSE list
StringOffset(list, s) ==
  Offsets(list)[IF Positions(list, s) = {} THEN Len(list) + 1 ELSE FirstOf(Positions(list, s))]

GetFuncByName(t, name) == FirstOf({i \in DOMAIN t.funcs : t.funcs[i].name = name})

\* A new function.  Its local data size is not set: rubbish.
AddFunc(t, name, entry, rubbish) ==
  [t EXCEPT !.funcs = Append(@, [name |-> name, entry |-> entry, size |-> rubbish])]

SetFuncInfo(t, i, localSize) == [t EXCEPT !.funcs[i].size = localSize]

\* Mutant: the function is not compared.
GetLabelAnywhere(t, name, func) == FirstOf({i \in DOMAIN t.labels : t.labels[i].name = name})

GetLabelByIdent(t, name, func) ==
  FirstOf({i \in DOMAIN t.labels : t.labels[i].name = name /\ t.labels[i].func = func})

AddLabel(t, name, target, func) ==
  [t EXCEPT !.labels = Append(@, [name |-> name, target |-> target, func |-> func])]

\* Mutant: the function is not compared.
GetSymbolAnywhere(t, name, func) == FirstOf({i \in DOMAIN t.symbols : t.symbols[i].name = name})

\* A variable of the function, or a global one: these have indices from 0 on.
GetSymbolByIdent(t, name, func) ==
  FirstOf({i \in DOMAIN t.symbols :
             /\ t.symbols[i].name = name
             /\ t.symbols[i].func = func \/ t.symbols[i].index >= 0})

AddSymbol(t, symbol) == [t EXCEPT !.symbols = Append(@, symbol)]
=============================================================================
