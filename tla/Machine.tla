------------------------------ MODULE Machine ------------------------------
(***************************************************************************)
(* What the instructions do to the registers and the stack of the process  *)
(* that executes them (Processor::interprete), and the context that is     *)
(* pushed on that stack (Processor::saveContext).                          *)
(*                                                                         *)
(* A machine `m' is a record of the registers and the stack.  The stack is *)
(* addressed by words: word 1 is the one at the highest address, which is  *)
(* pushed first, and m.sp words are in use.  So m.sp stands for mSP =      *)
(* stackSize - 1 - 4 * m.sp, and the position k of a word, in m.bp too,    *)
(* for the address stackSize - 4 * k of its lowest byte.  PC is in bytes.  *)
(*                                                                         *)
(* A program P is a record: P.code the instructions, P.funcs the function  *)
(* table (entry, and words of local variables), P.main the index in it of  *)
(* the main function, P.globals the words of global variables and P.strings *)
(* the bytes of the string table.  Operands that are stack indices are in   *)
(* words as well, so that arrays are indexed by multiples of 4.            *)
(***************************************************************************)
EXTENDS Integers, Sequences, FiniteSets

CONSTANT StackWords      \* header.stackSize in words

ASSUME StackAssumption == StackWords \in Nat

INSTR_LEN == 32          \* bytes of an instruction
Regs      == 0..3        \* mReg
Positions == 1..StackWords

Registers == [pc: Int, bp: Int, sp: Int, reg: [Regs -> Int], seg: [1..4 -> Int]]
Machines  == [pc: Int, bp: Int, sp: Int, reg: [Regs -> Int], seg: [1..4 -> Int],
              mem: [Positions -> Int]]

\* readHalfWord gives 0 outside the memory of the process, and write does nothing.
\* (Positions from StackWords + 1 on are below the stack, where the program is:
\* WithinStack of module Processor says they are not reached.)
Word(m, k)       == IF k \in Positions THEN m.mem[k] ELSE 0
SetWord(m, k, v) == IF k \in Positions THEN [m EXCEPT !.mem[k] = v] ELSE m

\* Processor::push, and the two halves of Processor::pop.
Push(m, v) == [SetWord(m, m.sp + 1, v) EXCEPT !.sp = m.sp + 1]
Top(m)     == Word(m, m.sp)
Drop(m, n) == [m EXCEPT !.sp = @ - n]
-----------------------------------------------------------------------------
(* Operands *)

Literals == [type: {"INT", "STRING_REF", "INSTR_INDEX"}, value: Int]
Operands ==
  Literals \cup [type: {"REG"}, value: Regs] \cup [type: {"ABS_STACK_INDEX"}, value: Int]
           \cup [type: {"REL_STACK_INDEX"}, value: Int, offset: Int]

\* Mutant: every variable is taken one word beyond its own.
AtNext(m, i) == IF i >= 0 THEN StackWords - i - 1 ELSE m.bp - i + 1

\* Where getStackValue and setStackValue look: global variables are counted from
\* the lowest address, local variables from BP.
At(m, i) == IF i >= 0 THEN StackWords - i ELSE m.bp - i

\* getOpStackIndex.  The last case is a destination that is no variable.
StackIndex(m, o) ==
  CASE o.type = "ABS_STACK_INDEX" -> o.value
    [] o.type = "REL_STACK_INDEX" -> o.value + Word(m, At(m, o.offset)) \div 4
    [] OTHER                      -> 0

\* getValue.  The other operands are literals: the index of a string, of an
\* instruction, of a function or of a kernel call, or a number.
Value(m, o) ==
  CASE o.type = "REG" -> m.reg[o.value]
    [] o.type \in {"ABS_STACK_INDEX", "REL_STACK_INDEX"} -> Word(m, At(m, StackIndex(m, o)))
    [] OTHER -> o.value

\* The destination of MOV and POP.
Store(m, o, v) ==
  IF o.type = "REG"
  THEN [m EXCEPT !.reg[o.value] = v]
  ELSE SetWord(m, At(m, StackIndex(m, o)), v)
-----------------------------------------------------------------------------
(* Instructions, after the PC has been advanced *)

\* The quotient of C++, which is rounded towards 0.
Quotient(a, b) ==
  IF a >= 0 THEN (IF b > 0 THEN a \div b ELSE -(a \div (-b)))
            ELSE (IF b > 0 THEN -((-a) \div b) ELSE (-a) \div (-b))

ArithmeticOps == {"ADD", "SUB", "MUL", "DIV"}
Computed(op, a, b) ==
  CASE op = "ADD" -> a + b
    [] op = "SUB" -> a - b
    [] op = "MUL" -> a * b
    [] op = "DIV" -> Quotient(a, b)

\* Unlike MOV, these take a register for the variable at index 0.
Arithmetic(m, I) ==
  SetWord(m, At(m, StackIndex(m, I.args[1])),
          Computed(I.op, Value(m, I.args[1]), Value(m, I.args[2])))

JumpOps == {"JE", "JNE", "JG", "JL"}
Holds(op, a, b) ==
  CASE op = "JE"  -> a = b
    [] op = "JNE" -> a # b
    [] op = "JG"  -> a > b
    [] op = "JL"  -> a < b

Jump(m, target) == [m EXCEPT !.pc = target * INSTR_LEN]

\* The frame of a function: the return address, at BP, then the local variables,
\* which keep what was there, and the size of the frame.
Call(m, f) ==
  LET framed == [Push(m, m.pc) EXCEPT !.sp = @ + f.size]
  IN  [Push(framed, 4 * f.size) EXCEPT !.bp = m.sp + 1, !.pc = f.entry * INSTR_LEN]

\* Mutant: the local variables stay on the stack.
RetKeepsFrame(m) ==
  LET back == Drop(m, 1)
      sp   == back.sp - 1
  IN  [back EXCEPT !.pc = Top(back), !.sp = sp, !.bp = sp - 1]

\* RET reads the size of the caller's frame, on the top of the stack at mSP + 1,
\* from mSP + 4: its highest byte, which is 0 for a frame below 2^24 bytes,
\* followed by the three lower bytes of the word before it.
Ret(m) ==
  LET back == Drop(m, 1 + Top(m) \div 4)
      sp   == back.sp - 1
  IN  [back EXCEPT !.pc = Top(back), !.sp = sp,
                   !.bp = sp - 1 - 64 * (Word(m, sp - 1) % 16777216)]

\* The instructions that concern the executing process only.
OwnOps == {"MOV", "JMP", "PUSH", "POP", "CALL", "RET", "IRET"} \cup ArithmeticOps \cup JumpOps

\* fetchIstr, with PC in the code.  (Beyond it, the tables would be executed.)
InCode(P, m) == m.pc \div INSTR_LEN + 1 \in DOMAIN P.code
Fetch(P, m)  == P.code[m.pc \div INSTR_LEN + 1]
Advanced(m)  == [m EXCEPT !.pc = @ + INSTR_LEN]

\* interprete.  IRET has no effect.
Interpreted(P, m, I) ==
  CASE I.op = "MOV"  -> Store(m, I.args[1], Value(m, I.args[2]))
    [] I.op \in ArithmeticOps -> Arithmetic(m, I)
    [] I.op = "JMP"  -> Jump(m, Value(m, I.args[1]))
    [] I.op \in JumpOps ->
         IF Holds(I.op, Value(m, I.args[1]), Value(m, I.args[2]))
         THEN Jump(m, Value(m, I.args[3])) ELSE m
    [] I.op = "PUSH" -> Push(m, Value(m, I.args[1]))
    [] I.op = "POP"  -> Store(Drop(m, 1), I.args[1], Top(m))
    [] I.op = "CALL" -> Call(m, P.funcs[Value(m, I.args[1]) + 1])
    [] I.op = "RET"  -> Ret(m)
    [] OTHER         -> m

\* The words of the stack that an instruction reads.
PlaceReads(m, o) == IF o.type = "REL_STACK_INDEX" THEN {At(m, o.offset)} ELSE {}
OperandReads(m, o) ==
  PlaceReads(m, o) \cup (IF o.type \in {"ABS_STACK_INDEX", "REL_STACK_INDEX"}
                         THEN {At(m, StackIndex(m, o))} ELSE {})
InstrReads(m, I) ==
  CASE I.op = "MOV"  -> PlaceReads(m, I.args[1]) \cup OperandReads(m, I.args[2])
    [] I.op \in ArithmeticOps -> UNION {OperandReads(m, I.args[i]) : i \in 1..2}
    [] I.op \in JumpOps       -> UNION {OperandReads(m, I.args[i]) : i \in 1..3}
    [] I.op \in {"JMP", "PUSH"} -> OperandReads(m, I.args[1])
    [] I.op = "POP"  -> {m.sp} \cup PlaceReads(m, I.args[1])
    [] I.op = "RET"  -> LET size == 1 + Top(m) \div 4 IN {m.sp, m.sp - size, m.sp - size - 2}
    [] OTHER         -> {}

\* Where an instruction stores its result, besides what it pushes.
InstrStores(m, I) ==
  IF \/ I.op \in ArithmeticOps
     \/ I.op \in {"MOV", "POP"} /\ I.args[1].type # "REG"
  THEN {At(m, StackIndex(m, I.args[1]))}
  ELSE {}

\* A division by 0 ends the simulator itself.
Traps(P, m) == LET I == Fetch(P, m) IN I.op = "DIV" /\ Value(Advanced(m), I.args[2]) = 0

Executed(P, m) == Interpreted(P, Advanced(m), Fetch(P, m))
-----------------------------------------------------------------------------
(* Programs *)

\* What the compiler lets pass, of the instructions above.
WellFormedInstr(P, I) ==
  /\ I.op \in {"MOV"} \cup ArithmeticOps => I.args[1] \in Operands /\ I.args[2] \in Operands
  /\ I.op \in JumpOps => \A i \in 1..3 : I.args[i] \in Operands
  /\ I.op \in {"JMP", "PUSH", "POP"} => I.args[1] \in Operands
  /\ I.op = "CALL" => /\ I.args[1].type = "FUNC_INDEX"
                      /\ I.args[1].value + 1 \in DOMAIN P.funcs

WellFormed(P) ==
  /\ P.funcs \in Seq([entry: Nat, size: Nat])
  /\ P.main + 1 \in DOMAIN P.funcs
  /\ P.globals \in Nat /\ P.strings \in Nat
  /\ Len(P.code) \in Nat
  /\ \A i \in DOMAIN P.code : WellFormedInstr(P, P.code[i])
-----------------------------------------------------------------------------
(* Contexts *)

ContextWords == 10

\* The words that saveContext pushes, in order.
Context(m) ==
  <<m.reg[0], m.reg[1], m.reg[2], m.reg[3],
    m.seg[1], m.seg[2], m.seg[3], m.seg[4], m.bp, m.pc>>

\* The stack after saveContext; the registers are left as they are, but for SP.
SaveContext(m) ==
  [m EXCEPT !.sp  = @ + ContextWords,
            !.mem = [k \in Positions |->
                       IF k \in m.sp + 1 .. m.sp + ContextWords
                       THEN Context(m)[k - m.sp] ELSE m.mem[k]]]

\* Mutant: the general registers are popped in the order they were pushed.
ReloadContextUpwards(m) ==
  LET c(i) == Word(m, m.sp - ContextWords + i)
  IN  [m EXCEPT !.sp  = @ - ContextWords,
                !.pc  = c(10), !.bp = c(9),
                !.seg = [i \in 1..4 |-> c(4 + i)],
                !.reg = [r \in Regs |-> c(4 - r)]]

\* Mutant: SP is left below the context.
ReloadContextKeepsSP(m) ==
  LET c(i) == Word(m, m.sp - ContextWords + i)
  IN  [m EXCEPT !.pc  = c(10), !.bp = c(9),
                !.seg = [i \in 1..4 |-> c(4 + i)],
                !.reg = [r \in Regs |-> c(1 + r)]]

\* reloadContext, once SP is that of the process.
ReloadContext(m) ==
  LET c(i) == Word(m, m.sp - ContextWords + i)
  IN  [m EXCEPT !.sp  = @ - ContextWords,
                !.pc  = c(10), !.bp = c(9),
                !.seg = [i \in 1..4 |-> c(4 + i)],
                !.reg = [r \in Regs |-> c(1 + r)]]

\* CS, DS, FS and AS of a program, loaded at address 0: the code is followed by
\* the strings, the function table and the names of the kernel calls.
Segments(P) ==
  LET strings == INSTR_LEN * Len(P.code)
      table   == strings + P.strings
  IN  <<0, strings, table, table + 8 * Len(P.funcs)>>

\* The machine that loadExecFile prepares in memory that holds `junk': the frame
\* of the main function, on a word that is not written.  It is left on the stack
\* as a context.
Loaded(P, junk) ==
  LET main == P.funcs[P.main + 1]
      n    == main.size + 2
  IN  [pc  |-> main.entry * INSTR_LEN, bp |-> 1, sp |-> n,
       reg |-> [r \in Regs |-> 0], seg |-> Segments(P),
       mem |-> [k \in Positions |-> IF k = n THEN 4 * main.size ELSE junk]]
-----------------------------------------------------------------------------
(* Kernel calls, as far as they concern the calling process *)

\* The number of words that a call pops, and whether it leaves a result in
\* register 1.  A name that is not in mApiTable does nothing.
Pops(name) ==
  CASE name \in {"SEMPEND", "SEMCREATE"} -> 2
    [] name \in {"PRINT", "PROCESSCREATE", "PROCESSDELETE", "SEMACCEPT", "SEMDELETE",
                 "SEMPOST", "VOICE", "PRINTER"} -> 1
    [] OTHER -> 0

HasResult == {"PROCESSCREATE", "PROCESSDELETE", "SEMACCEPT", "SEMPOST", "SEMDELETE",
              "SEMCREATE", "PRINTER"}

\* The name that CALLCORE reads from the table of calls.
CallName(P, m) == Fetch(P, m).args[1].value

\* The machine when the call returns: setReg(1, r) if it has a result.
Called(m, name, r) ==
  LET popped == Drop(Advanced(m), Pops(name))
  IN  IF name \in HasResult THEN [popped EXCEPT !.reg[1] = r] ELSE popped

\* The machine with what the process can see of its stack: the words in use, and
\* its global variables at the other end.
Live(P, m) ==
  [m EXCEPT !.mem = [k \in Positions |->
     IF k <= m.sp \/ k > StackWords - P.globals THEN m.mem[k] ELSE 0]]
=============================================================================
