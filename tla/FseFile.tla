------------------------------- MODULE FseFile -------------------------------
(***************************************************************************)
(* The executable file: how the assembler writes it (FASM::BuildFSE) and   *)
(* what the kernel finds in it (OSCore::loadExecFile).                     *)
(*                                                                         *)
(* A file is a sequence of fields, each with its number of bytes.  The     *)
(* loader does not know the fields: it reads at the byte that it has       *)
(* computed.                                                               *)
(***************************************************************************)
EXTENDS FasmTables, FiniteSets

INSTR_LEN == 32

Field(bytes, value) == [bytes |-> bytes, value |-> value]

\* The ID and the version, and the numbers of the script header.
HeaderFields(header) ==
  <<Field(4, "FSE0"), Field(2, 0), Field(2, 1),
    Field(4, header.stack), Field(4, header.globals), Field(4, header.main)>>

\* An opcode, the number of operands, and for each its type and one number, or two
\* of an array with a variable index.  It is filled up to INSTR_LEN bytes.
InstrBytes(I) ==
  LET bytes == 3 + 5 * Len(I.args)
                 + 4 * Cardinality({k \in DOMAIN I.args : I.args[k].type = "REL_STACK_INDEX"})
  IN  IF bytes < INSTR_LEN THEN INSTR_LEN ELSE bytes

CodeFields(code) ==
  <<Field(4, Len(code))>> \o [i \in DOMAIN code |-> Field(InstrBytes(code[i]), code[i])]

StringFields(list) ==
  <<Field(4, Len(list))>> \o
  [i \in 1 .. 2 * Len(list) |->
     LET s == list[(i + 1) \div 2]
     IN  IF i % 2 = 1 THEN Field(4, Bytes[s]) ELSE Field(Bytes[s], s)]

FuncFields(funcs) ==
  <<Field(4, Len(funcs))>> \o
  [i \in 1 .. 2 * Len(funcs) |->
     LET f == funcs[(i + 1) \div 2]
     IN  Field(4, IF i % 2 = 1 THEN f.entry ELSE f.size)]

\* The names of kernel calls are written as strings are.
ApiFields(list) == StringFields(list)

\* BuildFSE.
FileOf(header, code, t) ==
  HeaderFields(header) \o CodeFields(code) \o StringFields(t.strings)
    \o FuncFields(t.funcs) \o ApiFields(t.apis)
-----------------------------------------------------------------------------
(* Reading *)

\* readFile: what is at a byte of the file.
ReadAt(f, byte) ==
  LET start[i \in DOMAIN f] == IF i = 1 THEN 0 ELSE start[i - 1] + f[i - 1].bytes
  IN  f[CHOOSE i \in DOMAIN f : start[i] = byte].value

\* A table of strings: where it ends, and the strings by the byte of the table, as it
\* is in memory, where the length of each is found.
TextTable(f, byte) ==
  LET n == ReadAt(f, byte)
      at[k \in 1 .. n + 1] ==
        IF k = 1 THEN byte + 4 ELSE at[k - 1] + 4 + ReadAt(f, at[k - 1])
  IN  [end   |-> at[n + 1],
       texts |-> [x \in {at[k] - byte - 4 : k \in 1 .. n} |-> ReadAt(f, byte + 4 + x + 4)]]

CodeAt       == 24
StringsAt(f) == CodeAt + INSTR_LEN * ReadAt(f, 20)
FuncsAt(f)   == TextTable(f, StringsAt(f)).end
ApisAt(f)    == FuncsAt(f) + 4 + 8 * ReadAt(f, FuncsAt(f))

\* An operand as module Machine has it: variables are counted in words, and a kernel
\* call is the name in the table.
Operand(apis, o) ==
  CASE o.type = "ABS_STACK_INDEX" -> [o EXCEPT !.value = @ \div 4]
    [] o.type = "REL_STACK_INDEX" -> [o EXCEPT !.value = @ \div 4, !.offset = @ \div 4]
    [] o.type = "HOST_API_CALL_INDEX" -> [o EXCEPT !.value = apis[@]]
    [] OTHER -> o

\* loadExecFile: the program that it leaves in memory, for module Machine.
ProgramOf(f) ==
  LET apis == TextTable(f, ApisAt(f)).texts
      word(byte) == ReadAt(f, byte) \div 4
  IN  [code    |-> [i \in 1 .. ReadAt(f, 20) |->
                      LET I == ReadAt(f, CodeAt + INSTR_LEN * (i - 1))
                      IN  [op |-> I.op, args |-> [k \in DOMAIN I.args |-> Operand(apis, I.args[k])]]],
       funcs   |-> [i \in 1 .. ReadAt(f, FuncsAt(f)) |->
                      [entry |-> ReadAt(f, FuncsAt(f) + 8 * i - 4), size |-> word(FuncsAt(f) + 8 * i)]],
       main    |-> ReadAt(f, 16),
       globals |-> word(12),
       strings |-> FuncsAt(f) - StringsAt(f) - 4]
=============================================================================
