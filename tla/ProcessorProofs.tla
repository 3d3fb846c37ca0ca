-------------------------- MODULE ProcessorProofs --------------------------
(***************************************************************************)
(* What holds of Processor for every program, as long as every process     *)
(* keeps within its stack (WithinStack): contexts are saved and reloaded   *)
(* without loss, so that no process can see an interrupt or a step of      *)
(* another one; and, if programs read only words they have written or own  *)
(* (ReadsOwn), the processor implements module VirtualCpus, in which every *)
(* process has a processor of its own.                                     *)
(***************************************************************************)
EXTENDS Processor, SequenceTheorems, TLAPS

Stacks == [Positions -> Int]

-----------------------------------------------------------------------------
(* The instructions keep machines well typed *)

LEMMA WordInt ==
  ASSUME NEW m \in Machines, NEW k
  PROVE  Word(m, k) \in Int
BY DEF Machines, Word

LEMMA SetWordType ==
  ASSUME NEW m \in Machines, NEW k, NEW v \in Int
  PROVE  /\ SetWord(m, k, v) \in Machines
         /\ SetWord(m, k, v).seg = m.seg
BY DEF Machines, SetWord

LEMMA PushType ==
  ASSUME NEW m \in Machines, NEW v \in Int
  PROVE  /\ Push(m, v) \in Machines
         /\ Push(m, v).seg = m.seg
<1>1. SetWord(m, m.sp + 1, v) \in Machines /\ SetWord(m, m.sp + 1, v).seg = m.seg
  BY SetWordType
<1>2. m.sp + 1 \in Int
  BY DEF Machines
<1> QED
  BY <1>1, <1>2 DEF Push, Machines

LEMMA DropType ==
  ASSUME NEW m \in Machines, NEW n \in Int
  PROVE  /\ Drop(m, n) \in Machines
         /\ Drop(m, n).seg = m.seg
BY DEF Machines, Drop

LEMMA AtInt ==
  ASSUME NEW m \in Machines, NEW i \in Int
  PROVE  At(m, i) \in Int
BY StackAssumption DEF Machines, At

LEMMA StackIndexInt ==
  ASSUME NEW m \in Machines, NEW o \in Operands
  PROVE  StackIndex(m, o) \in Int
<1>1. CASE o.type = "ABS_STACK_INDEX"
  BY <1>1 DEF StackIndex, Operands, Literals
<1>2. CASE o.type = "REL_STACK_INDEX"
  <2>1. o.value \in Int /\ Word(m, At(m, o.offset)) \in Int
    BY <1>2, WordInt DEF Operands, Literals
  <2>2. Word(m, At(m, o.offset)) \div 4 \in Int
    BY <2>1
  <2>3. StackIndex(m, o) = o.value + Word(m, At(m, o.offset)) \div 4
    BY <1>2 DEF StackIndex
  <2> QED
    BY <2>1, <2>2, <2>3
<1>3. CASE o.type \notin {"ABS_STACK_INDEX", "REL_STACK_INDEX"}
  BY <1>3 DEF StackIndex
<1> QED
  BY <1>1, <1>2, <1>3

LEMMA ValueInt ==
  ASSUME NEW m \in Machines, NEW o \in Operands
  PROVE  Value(m, o) \in Int
<1>1. CASE o.type = "REG"
  <2>1. o.value \in Regs
    BY <1>1 DEF Operands, Literals
  <2> QED
    BY <1>1, <2>1 DEF Value, Machines
<1>2. CASE o.type \in {"ABS_STACK_INDEX", "REL_STACK_INDEX"}
  BY <1>2, WordInt DEF Value
<1>3. CASE o.type \notin {"REG", "ABS_STACK_INDEX", "REL_STACK_INDEX"}
  <2>1. o \in Literals
    BY <1>3 DEF Operands
  <2> QED
    BY <1>3, <2>1 DEF Value, Literals
<1> QED
  BY <1>1, <1>2, <1>3

LEMMA StoreType ==
  ASSUME NEW m \in Machines, NEW o \in Operands, NEW v \in Int
  PROVE  /\ Store(m, o, v) \in Machines
         /\ Store(m, o, v).seg = m.seg
<1>1. CASE o.type = "REG"
  BY <1>1 DEF Store, Machines
<1>2. CASE o.type # "REG"
  BY <1>2, SetWordType DEF Store
<1> QED
  BY <1>1, <1>2

LEMMA QuotientInt ==
  ASSUME NEW a \in Int, NEW b \in Int, b # 0
  PROVE  Quotient(a, b) \in Int
<1>1. CASE b > 0
  <2>1. a \div b \in Int /\ (-a) \div b \in Int
    BY <1>1
  <2> QED
    BY <1>1, <2>1 DEF Quotient
<1>2. CASE b < 0
  <2>1. /\ a \div (-b) \in Int /\ (-a) \div (-b) \in Int
    BY <1>2
  <2> QED
    BY <1>2, <2>1 DEF Quotient
<1> QED
  BY <1>1, <1>2

LEMMA ComputedInt ==
  ASSUME NEW op \in ArithmeticOps, NEW a \in Int, NEW b \in Int, op = "DIV" => b # 0
  PROVE  Computed(op, a, b) \in Int
<1>1. CASE op = "DIV"
  BY <1>1, QuotientInt DEF Computed
<1>2. CASE op # "DIV"
  BY <1>2 DEF Computed, ArithmeticOps
<1> QED
  BY <1>1, <1>2

LEMMA ArithmeticType ==
  ASSUME NEW m \in Machines, NEW I,
         I.op \in ArithmeticOps, I.args[1] \in Operands, I.args[2] \in Operands,
         I.op = "DIV" => Value(m, I.args[2]) # 0
  PROVE  /\ Arithmetic(m, I) \in Machines
         /\ Arithmetic(m, I).seg = m.seg
<1> DEFINE a == Value(m, I.args[1])
           b == Value(m, I.args[2])
<1>1. a \in Int /\ b \in Int
  BY ValueInt
<1>2. Computed(I.op, a, b) \in Int
  BY <1>1, ComputedInt
<1> HIDE DEF a, b
<1> QED
  BY <1>2, SetWordType DEF Arithmetic, a, b

LEMMA CallType ==
  ASSUME NEW m \in Machines, NEW f \in [entry: Nat, size: Nat]
  PROVE  /\ Call(m, f) \in Machines
         /\ Call(m, f).seg = m.seg
<1> DEFINE framed == [Push(m, m.pc) EXCEPT !.sp = @ + f.size]
<1>1. Push(m, m.pc) \in Machines /\ Push(m, m.pc).seg = m.seg
  BY PushType DEF Machines
<1>2. framed \in Machines /\ framed.seg = m.seg
  BY <1>1 DEF Machines
<1> HIDE DEF framed
<1>3. Push(framed, 4 * f.size) \in Machines /\ Push(framed, 4 * f.size).seg = m.seg
  <2>1. 4 * f.size \in Int
    OBVIOUS
  <2> QED
    BY <1>2, <2>1, PushType
<1>4. m.sp + 1 \in Int /\ f.entry * INSTR_LEN \in Int
  BY DEF Machines, INSTR_LEN
<1>5. Call(m, f) = [Push(framed, 4 * f.size) EXCEPT !.bp = m.sp + 1, !.pc = f.entry * INSTR_LEN]
  BY DEF Call, framed
<1> QED
  BY <1>3, <1>4, <1>5 DEF Machines

LEMMA FieldType ==
  ASSUME NEW m \in Machines, NEW v \in Int
  PROVE  /\ [m EXCEPT !.pc = v] \in Machines /\ [m EXCEPT !.pc = v].seg = m.seg
         /\ [m EXCEPT !.bp = v] \in Machines /\ [m EXCEPT !.bp = v].seg = m.seg
         /\ [m EXCEPT !.sp = v] \in Machines /\ [m EXCEPT !.sp = v].seg = m.seg
BY SMT DEF Machines

Framed(m, pc, sp, bp) == [m EXCEPT !.pc = pc, !.sp = sp, !.bp = bp]

LEMMA FrameType ==
  ASSUME NEW m \in Machines, NEW pc \in Int, NEW bp \in Int, NEW sp \in Int
  PROVE  /\ Framed(m, pc, sp, bp) \in Machines
         /\ Framed(m, pc, sp, bp).seg = m.seg
<1> DEFINE a == [m EXCEPT !.pc = pc]
           b == [a EXCEPT !.sp = sp]
           c == [b EXCEPT !.bp = bp]
<1>1. a \in Machines /\ a.seg = m.seg
  BY FieldType
<1> HIDE DEF a
<1>2. b \in Machines /\ b.seg = m.seg
  BY <1>1, FieldType
<1> HIDE DEF b
<1>3. c \in Machines /\ c.seg = m.seg
  BY <1>2, FieldType
<1> HIDE DEF c
<1> QED
  BY <1>3, Zenon DEF Framed, a, b, c

LEMMA RetType ==
  ASSUME NEW m \in Machines
  PROVE  /\ Ret(m) \in Machines
         /\ Ret(m).seg = m.seg
<1> DEFINE back == Drop(m, 1 + Top(m) \div 4)
           w    == Word(m, back.sp - 1 - 1)
           size == 64 * (w % 16777216)
<1>1. 1 + Top(m) \div 4 \in Int
  <2>1. Top(m) \in Int
    BY WordInt DEF Top
  <2> QED
    BY <2>1
<1>2. back \in Machines /\ back.seg = m.seg
  BY <1>1, DropType
<1>3. size \in Int
  <2>1. w \in Int
    BY WordInt
  <2> HIDE DEF w
  <2>2. w % 16777216 \in Int
    BY <2>1
  <2> QED
    BY <2>2
<1>4. Top(back) \in Int
  BY <1>2, WordInt DEF Top
<1>5. Ret(m) = Framed(back, Top(back), back.sp - 1, back.sp - 1 - 1 - size)
  BY DEF Ret, Framed
<1> HIDE DEF back, w, size
<1>6. back.sp - 1 \in Int /\ back.sp - 1 - 1 - size \in Int
  BY <1>2, <1>3 DEF Machines
<1> DEFINE next == Framed(back, Top(back), back.sp - 1, back.sp - 1 - 1 - size)
<1>7. next \in Machines /\ next.seg = back.seg
  BY <1>2, <1>4, <1>6, FrameType
<1> HIDE DEF next
<1>8. Ret(m) = next
  BY <1>5, Zenon DEF next
<1> QED
  BY <1>2, <1>7, <1>8, Zenon

\* What interprete makes of each instruction.
LEMMA Cases ==
  ASSUME NEW P, NEW n, NEW I
  PROVE  /\ I.op = "MOV" => Interpreted(P, n, I) = Store(n, I.args[1], Value(n, I.args[2]))
         /\ I.op \in ArithmeticOps => Interpreted(P, n, I) = Arithmetic(n, I)
         /\ I.op = "JMP" => Interpreted(P, n, I) = Jump(n, Value(n, I.args[1]))
         /\ I.op \in JumpOps => Interpreted(P, n, I) \in {n, Jump(n, Value(n, I.args[3]))}
         /\ I.op = "PUSH" => Interpreted(P, n, I) = Push(n, Value(n, I.args[1]))
         /\ I.op = "POP" => Interpreted(P, n, I) = Store(Drop(n, 1), I.args[1], Top(n))
         /\ I.op = "CALL" => Interpreted(P, n, I) = Call(n, P.funcs[Value(n, I.args[1]) + 1])
         /\ I.op = "RET" => Interpreted(P, n, I) = Ret(n)
         /\ I.op \notin OwnOps => Interpreted(P, n, I) = n
         /\ I.op = "IRET" => Interpreted(P, n, I) = n
<1>1. I.op = "MOV" => Interpreted(P, n, I) = Store(n, I.args[1], Value(n, I.args[2]))
  BY SMT DEF Interpreted, ArithmeticOps, JumpOps
<1>2. I.op \in ArithmeticOps => Interpreted(P, n, I) = Arithmetic(n, I)
  BY SMT DEF Interpreted, ArithmeticOps, JumpOps
<1>3. I.op = "JMP" => Interpreted(P, n, I) = Jump(n, Value(n, I.args[1]))
  BY SMT DEF Interpreted, ArithmeticOps, JumpOps
<1>4. I.op \in JumpOps => Interpreted(P, n, I) \in {n, Jump(n, Value(n, I.args[3]))}
  BY SMT DEF Interpreted, ArithmeticOps, JumpOps
<1>5. I.op = "PUSH" => Interpreted(P, n, I) = Push(n, Value(n, I.args[1]))
  BY SMT DEF Interpreted, ArithmeticOps, JumpOps
<1>6. I.op = "POP" => Interpreted(P, n, I) = Store(Drop(n, 1), I.args[1], Top(n))
  BY SMT DEF Interpreted, ArithmeticOps, JumpOps
<1>7. I.op = "CALL" => Interpreted(P, n, I) = Call(n, P.funcs[Value(n, I.args[1]) + 1])
  BY SMT DEF Interpreted, ArithmeticOps, JumpOps
<1>8. I.op = "RET" => Interpreted(P, n, I) = Ret(n)
  BY SMT DEF Interpreted, ArithmeticOps, JumpOps
<1>9. I.op \notin OwnOps => Interpreted(P, n, I) = n
  BY SMT DEF Interpreted, ArithmeticOps, JumpOps, OwnOps
<1>10. I.op = "IRET" => Interpreted(P, n, I) = n
  BY SMT DEF Interpreted, ArithmeticOps, JumpOps
<1> QED
  BY <1>1, <1>2, <1>3, <1>4, <1>5, <1>6, <1>7, <1>8, <1>9, <1>10

LEMMA SeqElement ==
  ASSUME NEW S, NEW s \in Seq(S), NEW i \in DOMAIN s
  PROVE  s[i] \in S
BY ElementOfSeq, LenProperties

LEMMA JumpType ==
  ASSUME NEW m \in Machines, NEW i \in Int
  PROVE  Jump(m, i) \in Machines /\ Jump(m, i).seg = m.seg
BY DEF Jump, Machines, INSTR_LEN

LEMMA InterpretedType ==
  ASSUME NEW P, NEW n \in Machines, NEW I, WellFormed(P), WellFormedInstr(P, I),
         I.op = "DIV" => Value(n, I.args[2]) # 0
  PROVE  /\ Interpreted(P, n, I) \in Machines
         /\ Interpreted(P, n, I).seg = n.seg
<1>1. CASE I.op = "MOV"
  <2>1. I.args[1] \in Operands /\ I.args[2] \in Operands
    BY <1>1, SMT DEF WellFormedInstr
  <2>2. Value(n, I.args[2]) \in Int
    BY <2>1, ValueInt, SMT
  <2>3. Interpreted(P, n, I) = Store(n, I.args[1], Value(n, I.args[2]))
    BY <1>1, Cases, SMT
  <2> QED
    BY <2>1, <2>2, <2>3, StoreType, SMT
<1>2. CASE I.op \in ArithmeticOps
  <2>1. I.args[1] \in Operands /\ I.args[2] \in Operands
    BY <1>2, SMT DEF WellFormedInstr
  <2>2. Arithmetic(n, I) \in Machines /\ Arithmetic(n, I).seg = n.seg
    BY <1>2, <2>1, ArithmeticType, SMT
  <2> QED
    BY <1>2, <2>2, Cases, SMT
<1>3. CASE I.op = "JMP"
  <2>1. Value(n, I.args[1]) \in Int
    BY <1>3, ValueInt, SMT DEF WellFormedInstr
  <2> QED
    BY <1>3, <2>1, Cases, JumpType, SMT
<1>4. CASE I.op \in JumpOps
  <2>1. Value(n, I.args[3]) \in Int
    <3>1. I.args[3] \in Operands
      BY <1>4, SMT DEF WellFormedInstr
    <3> QED
      BY <3>1, ValueInt, SMT
  <2>2. Interpreted(P, n, I) \in {n, Jump(n, Value(n, I.args[3]))}
    BY <1>4, Cases, SMT
  <2>3. /\ Jump(n, Value(n, I.args[3])) \in Machines
        /\ Jump(n, Value(n, I.args[3])).seg = n.seg
    BY <2>1, JumpType, Zenon
  <2> QED
    BY <2>2, <2>3, Zenon
<1>5. CASE I.op = "PUSH"
  <2>1. Value(n, I.args[1]) \in Int
    BY <1>5, ValueInt, SMT DEF WellFormedInstr
  <2> QED
    BY <1>5, <2>1, Cases, PushType, SMT
<1>6. CASE I.op = "POP"
  <2>1. I.args[1] \in Operands
    BY <1>6, SMT DEF WellFormedInstr
  <2>2. Drop(n, 1) \in Machines /\ Drop(n, 1).seg = n.seg
    BY DropType, SMT
  <2>3. Top(n) \in Int
    BY WordInt, SMT DEF Top
  <2> QED
    BY <1>6, <2>1, <2>2, <2>3, Cases, StoreType, SMT
<1>7. CASE I.op = "CALL"
  <2>1. Value(n, I.args[1]) = I.args[1].value
    <3>1. I.args[1].type = "FUNC_INDEX"
      BY <1>7, SMT DEF WellFormedInstr
    <3> QED
      BY <3>1, SMT DEF Value
  <2>2. P.funcs[Value(n, I.args[1]) + 1] \in [entry: Nat, size: Nat]
    <3>1. I.args[1].value + 1 \in DOMAIN P.funcs
      BY <1>7, SMT DEF WellFormedInstr
    <3>2. P.funcs \in Seq([entry: Nat, size: Nat])
      BY SMT DEF WellFormed
    <3>3. P.funcs[I.args[1].value + 1] \in [entry: Nat, size: Nat]
      BY <3>1, <3>2, SeqElement, Zenon
    <3> QED
      BY <2>1, <3>3, Zenon
  <2> QED
    BY <1>7, <2>2, Cases, CallType, SMT
<1>8. CASE I.op = "RET"
  BY <1>8, Cases, RetType, SMT
<1>9. CASE I.op = "IRET" \/ I.op \notin OwnOps
  BY <1>9, Cases, SMT
<1> QED
  BY <1>1, <1>2, <1>3, <1>4, <1>5, <1>6, <1>7, <1>8, <1>9, SMT DEF OwnOps

\* An instruction keeps the machine well typed and leaves the segment registers.
LEMMA ExecutedType ==
  ASSUME NEW P, NEW m \in Machines, WellFormed(P), InCode(P, m), ~Traps(P, m)
  PROVE  /\ Executed(P, m) \in Machines
         /\ Executed(P, m).seg = m.seg
<1>1. Advanced(m) \in Machines /\ Advanced(m).seg = m.seg
  BY SMT DEF Machines, Advanced, INSTR_LEN
<1>2. WellFormedInstr(P, Fetch(P, m))
  BY SMT DEF WellFormed, InCode, Fetch
<1>3. Fetch(P, m).op = "DIV" => Value(Advanced(m), Fetch(P, m).args[2]) # 0
  BY SMT DEF Traps
<1> QED
  BY <1>1, <1>2, <1>3, InterpretedType, SMT DEF Executed
-----------------------------------------------------------------------------
(* Contexts *)

LEMMA SegmentsType ==
  ASSUME NEW P, WellFormed(P)
  PROVE  Segments(P) \in [1..4 -> Int]
<1>1. Len(P.code) \in Int /\ P.strings \in Int
  BY SMT DEF WellFormed
<1>2. Len(P.funcs) \in Int
  <2>1. P.funcs \in Seq([entry: Nat, size: Nat])
    BY SMT DEF WellFormed
  <2> QED
    BY <2>1, LenProperties
<1> DEFINE a == INSTR_LEN * Len(P.code)
           b == a + P.strings
           c == b + 8 * Len(P.funcs)
<1>3. a \in Int /\ b \in Int /\ c \in Int
  BY <1>1, <1>2 DEF INSTR_LEN
<1>4. Segments(P) = <<0, a, b, c>>
  BY Zenon DEF Segments
<1> HIDE DEF a, b, c
<1> QED
  BY <1>3, <1>4

LEMMA LoadedType ==
  ASSUME NEW P, WellFormed(P), NEW junk \in Int
  PROVE  Loaded(P, junk) \in Machines
<1> DEFINE main == P.funcs[P.main + 1]
<1>1. main \in [entry: Nat, size: Nat]
  <2>1. P.funcs \in Seq([entry: Nat, size: Nat]) /\ P.main + 1 \in DOMAIN P.funcs
    BY SMT DEF WellFormed
  <2> QED
    BY <2>1, SeqElement, Zenon
<1> HIDE DEF main
<1>2. /\ main.entry * INSTR_LEN \in Int
      /\ main.size + 2 \in Int
      /\ 4 * main.size \in Int
  BY <1>1 DEF INSTR_LEN
<1> DEFINE reg == [r \in Regs |-> 0]
           w   == [k \in Positions |-> IF k = main.size + 2 THEN 4 * main.size ELSE junk]
<1>3. reg \in [Regs -> Int] /\ w \in [Positions -> Int]
  BY <1>2
<1>4. Segments(P) \in [1..4 -> Int]
  BY SegmentsType
<1>5. Loaded(P, junk) = [pc  |-> main.entry * INSTR_LEN, bp |-> 1, sp |-> main.size + 2,
                         reg |-> reg, seg |-> Segments(P), mem |-> w]
  BY Zenon DEF Loaded, main
<1> HIDE DEF reg, w
<1> QED
  BY <1>2, <1>3, <1>4, <1>5 DEF Machines

LEMMA ContextEntries ==
  ASSUME NEW m \in Machines
  PROVE  /\ \A r \in Regs : Context(m)[r + 1] = m.reg[r]
         /\ \A i \in 1..4 : Context(m)[i + 4] = m.seg[i]
         /\ Context(m)[9] = m.bp
         /\ Context(m)[10] = m.pc
         /\ \A i \in 1..10 : Context(m)[i] \in Int
<1>1. \A r \in Regs : Context(m)[r + 1] = m.reg[r]
  BY DEF Context, Regs
<1>2. \A i \in 1..4 : Context(m)[i + 4] = m.seg[i]
  BY DEF Context
<1>3. Context(m)[9] = m.bp /\ Context(m)[10] = m.pc
  BY DEF Context
<1>4. \A i \in 1..10 : Context(m)[i] \in Int
  <2> TAKE i \in 1..10
  <2>1. CASE i \in 1..4
    <3>1. i - 1 \in Regs /\ (i - 1) + 1 = i
      BY <2>1 DEF Regs
    <3>2. m.reg[i - 1] \in Int
      BY <3>1 DEF Machines
    <3> QED
      BY <1>1, <3>1, <3>2
  <2>2. CASE i \in 5..8
    <3>1. i - 4 \in 1..4 /\ (i - 4) + 4 = i
      BY <2>2
    <3>2. m.seg[i - 4] \in Int
      BY <3>1 DEF Machines
    <3> QED
      BY <1>2, <3>1, <3>2
  <2>3. CASE i \in {9, 10}
    BY <1>3, <2>3 DEF Machines
  <2> QED
    BY <2>1, <2>2, <2>3
<1> QED
  BY <1>1, <1>2, <1>3, <1>4

\* The stack after saveContext.
LEMMA SaveType ==
  ASSUME NEW m \in Machines
  PROVE  /\ SaveContext(m) \in Machines
         /\ SaveContext(m).sp = m.sp + 10
         /\ \A k \in Positions :
               SaveContext(m).mem[k] = IF k \in m.sp + 1 .. m.sp + 10
                                       THEN Context(m)[k - m.sp] ELSE m.mem[k]
<1> DEFINE w == [k \in Positions |->
                   IF k \in m.sp + 1 .. m.sp + 10 THEN Context(m)[k - m.sp] ELSE m.mem[k]]
<1>1. w \in [Positions -> Int]
  <2> SUFFICES ASSUME NEW k \in Positions
               PROVE  w[k] \in Int
    OBVIOUS
  <2>1. CASE k \in m.sp + 1 .. m.sp + 10
    <3>1. k - m.sp \in 1..10
      BY <2>1 DEF Machines
    <3> QED
      BY <2>1, <3>1, ContextEntries
  <2>2. CASE k \notin m.sp + 1 .. m.sp + 10
    BY <2>2 DEF Machines
  <2> QED
    BY <2>1, <2>2
<1>2. SaveContext(m) = [m EXCEPT !.sp = @ + 10, !.mem = w]
  BY Zenon DEF SaveContext, ContextWords
<1>3. \A k \in Positions :
        w[k] = IF k \in m.sp + 1 .. m.sp + 10 THEN Context(m)[k - m.sp] ELSE m.mem[k]
  OBVIOUS
<1> HIDE DEF w
<1> DEFINE a == [m EXCEPT !.sp = m.sp + 10]
           b == [a EXCEPT !.mem = w]
<1>4. SaveContext(m) = b
  BY <1>2, Zenon
<1>5. a \in Machines /\ a.sp = m.sp + 10
  BY DEF Machines
<1> HIDE DEF a
<1>6. b \in Machines /\ b.sp = m.sp + 10 /\ b.mem = w
  BY <1>1, <1>5 DEF Machines
<1> HIDE DEF b
<1> QED
  BY <1>3, <1>4, <1>6

\* The registers after reloadContext.
LEMMA ReloadType ==
  ASSUME NEW m \in Machines
  PROVE  /\ ReloadContext(m) \in Machines
         /\ ReloadContext(m) =
              [pc  |-> Word(m, m.sp - 10 + 10), bp |-> Word(m, m.sp - 10 + 9),
               sp  |-> m.sp - 10,
               reg |-> [r \in Regs |-> Word(m, m.sp - 10 + (1 + r))],
               seg |-> [i \in 1..4 |-> Word(m, m.sp - 10 + (4 + i))],
               mem |-> m.mem]
<1> DEFINE c(i) == Word(m, m.sp - 10 + i)
           reg == [r \in Regs |-> c(1 + r)]
           seg == [i \in 1..4 |-> c(4 + i)]
           a == [m EXCEPT !.sp = m.sp - 10]
           b == [a EXCEPT !.pc = c(10)]
           d == [b EXCEPT !.bp = c(9)]
           e == [d EXCEPT !.seg = seg]
           f == [e EXCEPT !.reg = reg]
<1>1. ReloadContext(m) = f
  BY Zenon DEF ReloadContext, ContextWords
<1>2. c(9) \in Int /\ c(10) \in Int
  BY WordInt
<1>3. reg \in [Regs -> Int] /\ seg \in [1..4 -> Int]
  BY WordInt
<1>4. a = [pc |-> m.pc, bp |-> m.bp, sp |-> m.sp - 10, reg |-> m.reg, seg |-> m.seg,
           mem |-> m.mem]
  BY DEF Machines
<1> HIDE DEF a
<1>5. b = [pc |-> c(10), bp |-> m.bp, sp |-> m.sp - 10, reg |-> m.reg, seg |-> m.seg,
           mem |-> m.mem]
  BY <1>4
<1> HIDE DEF b
<1>6. d = [pc |-> c(10), bp |-> c(9), sp |-> m.sp - 10, reg |-> m.reg, seg |-> m.seg,
           mem |-> m.mem]
  BY <1>5
<1> HIDE DEF d, reg, seg
<1>7. e = [pc |-> c(10), bp |-> c(9), sp |-> m.sp - 10, reg |-> m.reg, seg |-> seg,
           mem |-> m.mem]
  BY <1>6
<1> HIDE DEF e
<1>8. f = [pc |-> c(10), bp |-> c(9), sp |-> m.sp - 10, reg |-> reg, seg |-> seg,
           mem |-> m.mem]
  BY <1>7
<1> HIDE DEF f
<1>9. f \in Machines
  BY <1>2, <1>3, <1>8 DEF Machines
<1> QED
  BY <1>1, <1>8, <1>9, Zenon DEF reg, seg
-----------------------------------------------------------------------------
(* The machines of the processes *)

LEMMA OnType ==
  ASSUME NEW c \in Registers, NEW w \in Stacks
  PROVE  /\ On(c, w) \in Machines
         /\ CpuOf(On(c, w)) = c
         /\ On(c, w).pc = c.pc /\ On(c, w).bp = c.bp /\ On(c, w).sp = c.sp
         /\ On(c, w).reg = c.reg /\ On(c, w).seg = c.seg /\ On(c, w).mem = w
BY SMT DEF On, CpuOf, Registers, Machines, Stacks

LEMMA CpuOfType ==
  ASSUME NEW m \in Machines
  PROVE  /\ CpuOf(m) \in Registers
         /\ CpuOf(m).pc = m.pc /\ CpuOf(m).bp = m.bp /\ CpuOf(m).sp = m.sp
         /\ CpuOf(m).reg = m.reg /\ CpuOf(m).seg = m.seg
         /\ m.mem \in Stacks /\ m.sp \in Int
BY SMT DEF CpuOf, Registers, Machines, Stacks

\* The registers that reloadContext gives from the words w of a stack up to `top'.
Reloaded(w, top) ==
  LET c(i) == IF top - 10 + i \in Positions THEN w[top - 10 + i] ELSE 0
  IN  [pc |-> c(10), bp |-> c(9), sp |-> top - 10,
       reg |-> [r \in Regs |-> c(1 + r)], seg |-> [i \in 1..4 |-> c(4 + i)]]

LEMMA Reloads ==
  ASSUME NEW c \in Registers, NEW w \in Stacks, NEW top \in Int
  PROVE  /\ CpuOf(ReloadContext(On([c EXCEPT !.sp = top], w))) = Reloaded(w, top)
         /\ Reloaded(w, top) \in Registers
<1> DEFINE d == [c EXCEPT !.sp = top]
           m == On(d, w)
           n == ReloadContext(m)
<1>1. d \in Registers /\ d.sp = top
  BY DEF Registers
<1> HIDE DEF d
<1>2. m \in Machines /\ m.sp = top /\ m.mem = w
  BY <1>1, OnType
<1> HIDE DEF m
<1>3. n \in Machines
  BY <1>2, ReloadType
<1>4. n = [pc  |-> Word(m, top - 10 + 10), bp |-> Word(m, top - 10 + 9), sp |-> top - 10,
           reg |-> [r \in Regs |-> Word(m, top - 10 + (1 + r))],
           seg |-> [i \in 1..4 |-> Word(m, top - 10 + (4 + i))], mem |-> w]
  BY <1>2, ReloadType, Zenon
<1> HIDE DEF n
<1>5. CpuOf(n) = [pc  |-> Word(m, top - 10 + 10), bp |-> Word(m, top - 10 + 9),
                  sp |-> top - 10,
                  reg |-> [r \in Regs |-> Word(m, top - 10 + (1 + r))],
                  seg |-> [i \in 1..4 |-> Word(m, top - 10 + (4 + i))]]
  BY <1>4 DEF CpuOf
<1>6. CpuOf(n) = Reloaded(w, top)
  BY <1>2, <1>5, Zenon DEF Reloaded, Word
<1>7. CpuOf(n) \in Registers
  BY <1>3, CpuOfType
<1> QED
  BY <1>6, <1>7, Zenon DEF n, m, d
-----------------------------------------------------------------------------
(* The parts of the actions *)

LEMMA ProcFacts == NoPcb \notin Procs /\ Idle \in Procs
BY ProcsAssumption DEF NoPcb, MAXIMUM_TASKS

LEMMA RunningType ==
  ASSUME TypeOK, curr # NoPcb
  PROVE  /\ curr \in Procs /\ curr \in alive
         /\ Running \in Machines
         /\ Running.sp = cpu.sp /\ Running.seg = cpu.seg /\ Running.mem = mem[curr]
         /\ WellFormed(prog[curr])
<1>1. curr \in Procs /\ curr \in alive /\ cpu \in Registers /\ mem[curr] \in Stacks
  BY DEF TypeOK, Stacks
<1>2. prog[curr] \in AllPrograms
  BY <1>1 DEF TypeOK
<1> QED
  BY <1>1, <1>2, OnType, ProgramsAssumption, Zenon DEF Running

LEMMA AdvancedType ==
  ASSUME NEW m \in Machines
  PROVE  /\ Advanced(m) \in Machines
         /\ Advanced(m).seg = m.seg /\ Advanced(m).sp = m.sp /\ Advanced(m).mem = m.mem
BY SMT DEF Machines, Advanced, INSTR_LEN

LEMMA CalledType ==
  ASSUME NEW m \in Machines, NEW name, NEW r \in Int
  PROVE  /\ Called(m, name, r) \in Machines
         /\ Called(m, name, r).seg = m.seg
<1> DEFINE n == Drop(Advanced(m), Pops(name))
<1>1. Advanced(m) \in Machines /\ Advanced(m).seg = m.seg
  BY SMT DEF Machines, Advanced, INSTR_LEN
<1>2. Pops(name) \in Int
  BY SMT DEF Pops
<1>3. n \in Machines /\ n.seg = m.seg
  BY <1>1, <1>2, DropType, Zenon
<1> HIDE DEF n
<1>4. [n EXCEPT !.reg[1] = r] \in Machines /\ [n EXCEPT !.reg[1] = r].seg = n.seg
  BY <1>3, SMT DEF Machines, Regs
<1>5. Called(m, name, r) = IF name \in HasResult THEN [n EXCEPT !.reg[1] = r] ELSE n
  BY Zenon DEF Called, n
<1> QED
  BY <1>3, <1>4, <1>5, Zenon

LEMMA CallResultType ==
  ASSUME TypeOK, curr # NoPcb, NEW r \in Int
  PROVE  /\ CallResult(r) \in Registers
         /\ CallResult(r).seg = cpu.seg
<1> DEFINE m == Called(Running, CallName(prog[curr], Running), r)
<1>1. m \in Machines /\ m.seg = cpu.seg
  BY RunningType, CalledType
<1> HIDE DEF m
<1>2. CpuOf(m) \in Registers /\ CpuOf(m).seg = cpu.seg
  BY <1>1, CpuOfType
<1> QED
  BY <1>2, Zenon DEF CallResult, m

LEMMA ResumedIs ==
  ASSUME TypeOK, NEW p \in Procs
  PROVE  /\ CpuOf(Resumed(p)) = Reloaded(mem[p], stackTop[p])
         /\ Reloaded(mem[p], stackTop[p]) \in Registers
<1>1. cpu \in Registers /\ mem[p] \in Stacks /\ stackTop[p] \in Int
  BY DEF TypeOK, Stacks
<1> QED
  BY <1>1, Reloads, Zenon DEF Resumed

LEMMA DispatchIs ==
  ASSUME NEW n \in Procs, cpu \in Registers,
         mem' \in [Procs -> Stacks], stackTop' \in [Procs -> Int], Dispatch(n)
  PROVE  /\ cpu' = Reloaded(mem'[n], stackTop'[n])
         /\ cpu' \in Registers
         /\ curr' = n
<1> DEFINE w   == mem'[n]
           top == stackTop'[n]
<1>1. w \in Stacks /\ top \in Int
  OBVIOUS
<1>2. cpu' = CpuOf(ReloadContext(On([cpu EXCEPT !.sp = top], w)))
  BY Zenon DEF Dispatch
<1>3. curr' = n
  BY DEF Dispatch
<1> HIDE DEF w, top
<1>4. cpu' = Reloaded(w, top) /\ Reloaded(w, top) \in Registers
  BY <1>1, <1>2, Reloads, Zenon
<1> QED
  BY <1>3, <1>4, Zenon DEF w, top

LEMMA SwitchIs ==
  ASSUME TypeOK, curr # NoPcb, NEW m \in Machines, SwitchFrom(m)
  PROVE  /\ mem' \in [Procs -> Stacks] /\ stackTop' \in [Procs -> Int]
         /\ mem'[curr] = SaveContext(m).mem /\ stackTop'[curr] = m.sp + 10
         /\ \A p \in Procs \ {curr} : mem'[p] = mem[p] /\ stackTop'[p] = stackTop[p]
<1>1. curr \in Procs
  BY RunningType
<1>2. SaveContext(m).sp = m.sp + 10 /\ m.sp + 10 \in Int /\ SaveContext(m).mem \in Stacks
  BY SaveType, CpuOfType, SMT
<1>3. /\ mem' = [mem EXCEPT ![curr] = SaveContext(m).mem]
      /\ stackTop' = [stackTop EXCEPT ![curr] = m.sp + 10]
  BY <1>2, Zenon DEF SwitchFrom
<1>4. mem \in [Procs -> Stacks] /\ stackTop \in [Procs -> Int]
  BY DEF TypeOK, Stacks
<1> QED
  BY <1>1, <1>2, <1>3, <1>4

LEMMA LoadIs ==
  ASSUME TypeOK, NEW q \in Procs, NEW P \in AllPrograms, Load(q, P)
  PROVE  /\ mem' \in [Procs -> Stacks] /\ stackTop' \in [Procs -> Int]
         /\ prog' \in [Procs -> AllPrograms]
         /\ \A p \in Procs \ {q} :
               mem'[p] = mem[p] /\ stackTop'[p] = stackTop[p] /\ prog'[p] = prog[p]
         /\ prog'[q] = P
         /\ \E junk \in Junk :
               /\ Loaded(P, junk) \in Machines
               /\ mem'[q] = SaveContext(Loaded(P, junk)).mem
               /\ stackTop'[q] = Loaded(P, junk).sp + 10
<1> PICK junk \in Junk :
      /\ prog' = [prog EXCEPT ![q] = P]
      /\ stackTop' = [stackTop EXCEPT ![q] = SaveContext(Loaded(P, junk)).sp]
      /\ mem' = [mem EXCEPT ![q] = SaveContext(Loaded(P, junk)).mem]
  BY Zenon DEF Load
<1> DEFINE m == Loaded(P, junk)
<1>1. m \in Machines
  BY LoadedType, ProgramsAssumption, DataAssumption
<1> HIDE DEF m
<1>2. SaveContext(m).sp = m.sp + 10 /\ m.sp + 10 \in Int /\ SaveContext(m).mem \in Stacks
  BY <1>1, SaveType, CpuOfType, SMT
<1>3. mem \in [Procs -> Stacks] /\ stackTop \in [Procs -> Int] /\ prog \in [Procs -> AllPrograms]
  BY DEF TypeOK, Stacks
<1>4. /\ prog' = [prog EXCEPT ![q] = P]
      /\ stackTop' = [stackTop EXCEPT ![q] = m.sp + 10]
      /\ mem' = [mem EXCEPT ![q] = SaveContext(m).mem]
  BY <1>2, Zenon DEF m
<1>5. mem'[q] = SaveContext(m).mem /\ stackTop'[q] = m.sp + 10
  BY <1>3, <1>4
<1>6. \E junk_1 \in Junk :
        /\ Loaded(P, junk_1) \in Machines
        /\ mem'[q] = SaveContext(Loaded(P, junk_1)).mem
        /\ stackTop'[q] = Loaded(P, junk_1).sp + 10
  BY <1>1, <1>5, Zenon DEF m
<1> QED
  BY <1>2, <1>3, <1>4, <1>6

LEMMA ForgetIs ==
  ASSUME TypeOK, NEW q \in Procs, Forget(q)
  PROVE  /\ mem' \in [Procs -> Stacks] /\ stackTop' \in [Procs -> Int]
         /\ prog' \in [Procs -> AllPrograms]
         /\ \A p \in Procs \ {q} :
               mem'[p] = mem[p] /\ stackTop'[p] = stackTop[p] /\ prog'[p] = prog[p]
<1>1. mem \in [Procs -> Stacks] /\ stackTop \in [Procs -> Int] /\ prog \in [Procs -> AllPrograms]
  BY DEF TypeOK, Stacks
<1>2. IdleProgram \in AllPrograms
  BY DEF AllPrograms
<1>3. [k \in Positions |-> 0] \in Stacks
  BY DEF Stacks
<1> QED
  BY <1>1, <1>2, <1>3 DEF Forget
-----------------------------------------------------------------------------
(* Types *)

\* The part of TypeOK about who exists, waits and executes.
ListsOK ==
  /\ curr \in Procs \cup {NoPcb}
  /\ alive \subseteq Procs /\ Idle \in alive
  /\ blocked \subseteq alive \ {curr, Idle}
  /\ curr # NoPcb => curr \in alive

\* ... and about the machines.
MachinesOK ==
  /\ cpu \in Registers
  /\ prog \in [Procs -> AllPrograms]
  /\ mem \in [Procs -> Stacks]
  /\ stackTop \in [Procs -> Int]

LEMMA TypeParts == TypeOK <=> ListsOK /\ MachinesOK
BY DEF TypeOK, ListsOK, MachinesOK, Stacks

LEMMA ChosenFacts ==
  ASSUME TypeOK, NEW c, NEW A \in SUBSET alive, NEW B, NEW n \in Chosen(c, A, B), Idle \in A
  PROVE  n \in A /\ (n \notin B \/ n = Idle) /\ (n # c \/ n = Idle) /\ n \in Procs
BY DEF TypeOK, Chosen, Ready

LEMMA InitTypes == Init => TypeOK
<1> SUFFICES ASSUME Init
             PROVE  TypeOK
  OBVIOUS
<1>1. PICK junk \in Junk :
        LET saved == SaveContext(Loaded(IdleProgram, junk))
        IN  /\ stackTop = [p \in Procs |-> IF p = Idle THEN saved.sp ELSE 0]
            /\ mem = [p \in Procs |-> IF p = Idle THEN saved.mem ELSE [k \in Positions |-> 0]]
  BY Zenon DEF Init
<1> DEFINE saved == SaveContext(Loaded(IdleProgram, junk))
<1>2. IdleProgram \in AllPrograms
  BY DEF AllPrograms
<1>3. saved \in Machines
  BY <1>2, LoadedType, SaveType, ProgramsAssumption, DataAssumption
<1> HIDE DEF saved
<1>4. saved.sp \in Int /\ saved.mem \in Stacks /\ [k \in Positions |-> 0] \in Stacks
  BY <1>3, CpuOfType DEF Stacks
<1>5. /\ stackTop = [p \in Procs |-> IF p = Idle THEN saved.sp ELSE 0]
      /\ mem = [p \in Procs |-> IF p = Idle THEN saved.mem ELSE [k \in Positions |-> 0]]
  BY <1>1, Zenon DEF saved
<1>6. mem \in [Procs -> Stacks] /\ stackTop \in [Procs -> Int]
  BY <1>4, <1>5
<1>7. cpu \in Registers
  BY DEF Init, Reset, Registers
<1>8. prog \in [Procs -> AllPrograms]
  BY <1>2 DEF Init
<1>9. ListsOK
  BY ProcFacts DEF Init, ListsOK
<1> QED
  BY <1>6, <1>7, <1>8, <1>9, TypeParts DEF MachinesOK

LEMMA ExecutingFacts ==
  ASSUME TypeOK, NEW op, Executing(op)
  PROVE  curr # NoPcb /\ InCode(prog[curr], Running)
BY Zenon DEF Executing

LEMMA LeaveLists ==
  ASSUME TypeOK, curr # NoPcb, Leave
  PROVE  ListsOK' /\ curr' \in Procs \ {curr}
<1>1. curr' \in Chosen(curr, alive, blocked) /\ curr # Idle
  BY Zenon DEF Leave
<1>2. curr' \in alive /\ (curr' \notin blocked \/ curr' = Idle) /\ curr' # curr /\ curr' \in Procs
  BY <1>1, ChosenFacts DEF TypeOK
<1>3. alive' = alive \ {curr} /\ blocked' = blocked
  BY DEF Leave
<1> QED
  BY <1>1, <1>2, <1>3 DEF TypeOK, ListsOK

LEMMA BlockTypes ==
  ASSUME TypeOK, curr # NoPcb, NEW m \in Machines, Block(m)
  PROVE  TypeOK'
<1>1. PICK n \in Chosen(curr, alive, blocked) : Dispatch(n)
  BY Zenon DEF Block
<1>2. SwitchFrom(m) /\ curr # Idle
  BY Zenon DEF Block
<1>3. n \in alive /\ (n \notin blocked \/ n = Idle) /\ n # curr /\ n \in Procs
  BY <1>1, <1>2, ChosenFacts DEF TypeOK
<1>4. mem' \in [Procs -> Stacks] /\ stackTop' \in [Procs -> Int]
  BY <1>2, SwitchIs
<1>5. cpu' \in Registers /\ curr' = n
  BY <1>1, <1>3, <1>4, DispatchIs, TypeParts DEF MachinesOK
<1>6. blocked' = blocked \cup {curr} /\ alive' = alive /\ prog' = prog
  BY Zenon DEF Block
<1>7. ListsOK'
  BY <1>2, <1>3, <1>5, <1>6, RunningType DEF TypeOK, ListsOK
<1>8. MachinesOK'
  BY <1>4, <1>5, <1>6 DEF TypeOK, MachinesOK
<1> QED
  BY <1>7, <1>8, TypeParts, PTL

LEMMA InterruptTypes ==
  ASSUME TypeOK, Interrupt
  PROVE  TypeOK'
<1>1. curr # NoPcb /\ SwitchFrom(Running) /\ alive' = alive /\ prog' = prog
  BY Zenon DEF Interrupt
<1>2. PICK n \in {curr} \cup Ready(curr, alive, blocked') : Dispatch(n)
  BY Zenon DEF Interrupt
<1>3. blocked' \subseteq blocked
  BY DEF Interrupt
<1>4. n \in alive /\ n \notin blocked' /\ n \in Procs
  BY <1>1, <1>2, <1>3 DEF TypeOK, Ready
<1>5. mem' \in [Procs -> Stacks] /\ stackTop' \in [Procs -> Int]
  BY <1>1, SwitchIs, RunningType
<1>6. cpu' \in Registers /\ curr' = n
  BY <1>2, <1>4, <1>5, DispatchIs, TypeParts DEF MachinesOK
<1>7. ListsOK'
  BY <1>1, <1>3, <1>4, <1>6 DEF TypeOK, ListsOK
<1>8. MachinesOK'
  BY <1>1, <1>5, <1>6 DEF TypeOK, MachinesOK
<1> QED
  BY <1>7, <1>8, TypeParts, PTL

LEMMA ExecuteTypes ==
  ASSUME TypeOK, Execute
  PROVE  /\ TypeOK'
         /\ cpu'.seg = cpu.seg
         /\ curr # NoPcb
         /\ mem' = [mem EXCEPT ![curr] = Executed(prog[curr], Running).mem]
<1> PICK op \in OwnOps :
      /\ Executing(op) /\ ~Traps(prog[curr], Running)
      /\ cpu' = CpuOf(Executed(prog[curr], Running))
      /\ mem' = [mem EXCEPT ![curr] = Executed(prog[curr], Running).mem]
      /\ UNCHANGED <<curr, alive, blocked, prog, stackTop>>
  BY Zenon DEF Execute
<1> DEFINE m == Executed(prog[curr], Running)
<1>1. curr # NoPcb /\ curr \in Procs
  BY ExecutingFacts, RunningType
<1>2. m \in Machines /\ m.seg = cpu.seg
  BY <1>1, ExecutingFacts, RunningType, ExecutedType
<1> HIDE DEF m
<1>3. m.mem \in Stacks /\ CpuOf(m) \in Registers /\ CpuOf(m).seg = cpu.seg
  BY <1>2, CpuOfType
<1>4. cpu' = CpuOf(m) /\ mem' = [mem EXCEPT ![curr] = m.mem]
  BY Zenon DEF m
<1>5. cpu' \in Registers /\ mem' \in [Procs -> Stacks]
  BY <1>1, <1>3, <1>4, TypeParts DEF MachinesOK
<1>6. MachinesOK'
  BY <1>5, TypeParts DEF MachinesOK
<1>7. ListsOK'
  BY TypeParts DEF ListsOK
<1>8. TypeOK'
  BY <1>6, <1>7, TypeParts, PTL
<1> QED
  BY <1>1, <1>3, <1>4, <1>8, Zenon DEF m

LEMMA TypeStep == TypeOK /\ [Next]_vars => TypeOK'
<1> SUFFICES ASSUME TypeOK, [Next]_vars
             PROVE  ListsOK' /\ MachinesOK'
  BY TypeParts, PTL
<1>0. ListsOK /\ MachinesOK
  BY TypeParts
<1>1. CASE Start
  <2>1. PICK n \in Chosen(NoPcb, alive, blocked) : Dispatch(n)
    BY <1>1, Zenon DEF Start
  <2>2. UNCHANGED <<alive, blocked, prog, mem, stackTop>>
    BY <1>1 DEF Start
  <2>3. n \in alive /\ (n \notin blocked \/ n = Idle) /\ n \in Procs
    BY <2>1, ChosenFacts, <1>0 DEF ListsOK
  <2>4. cpu' \in Registers /\ curr' = n
    BY <1>0, <2>1, <2>2, <2>3, DispatchIs DEF MachinesOK
  <2> QED
    BY <1>0, <2>2, <2>3, <2>4 DEF ListsOK, MachinesOK
<1>2. CASE Execute
  BY <1>2, ExecuteTypes, TypeParts, PTL
<1>3. CASE CallKernel
  <2>1. PICK r \in Results : cpu' = CallResult(r)
    BY <1>3, Zenon DEF CallKernel
  <2>2. curr # NoPcb /\ UNCHANGED <<curr, alive, blocked, prog, mem, stackTop>>
    BY <1>3, ExecutingFacts DEF CallKernel
  <2>3. cpu' \in Registers
    BY <2>1, <2>2, CallResultType, DataAssumption
  <2> QED
    BY <1>0, <2>2, <2>3 DEF ListsOK, MachinesOK
<1>4. CASE CallWakes
  <2>1. curr # NoPcb /\ UNCHANGED <<curr, alive, prog, mem, stackTop>> /\ cpu' = CallResult(0)
    BY <1>4, ExecutingFacts DEF CallWakes, Calling
  <2>2. blocked' \subseteq blocked
    BY <1>4 DEF CallWakes
  <2>3. cpu' \in Registers
    BY <2>1, CallResultType
  <2> QED
    BY <1>0, <2>1, <2>2, <2>3 DEF ListsOK, MachinesOK
<1>5. CASE \E p \in Procs, P \in Programs : CallCreates(p, P)
  <2> PICK p \in Procs, P \in Programs : CallCreates(p, P)
    BY <1>5
  <2>1. /\ curr # NoPcb /\ Load(p, P) /\ cpu' = CallResult(p)
        /\ alive' = alive \cup {p} /\ UNCHANGED <<curr, blocked>>
    BY ExecutingFacts DEF CallCreates, Calling
  <2>2. p \in Int /\ P \in AllPrograms
    BY ProcsAssumption DEF AllPrograms
  <2>3. cpu' \in Registers
    BY <2>1, <2>2, CallResultType
  <2>4. MachinesOK'
    BY <2>1, <2>2, <2>3, LoadIs DEF MachinesOK
  <2> QED
    BY <1>0, <2>1, <2>4 DEF ListsOK
<1>6. CASE \E p \in Procs : CallDeletes(p)
  <2> PICK p \in Procs : CallDeletes(p)
    BY <1>6
  <2>1. /\ curr # NoPcb /\ Forget(p) /\ cpu' = CallResult(0)
        /\ p \in alive \ {curr, Idle}
        /\ alive' = alive \ {p} /\ blocked' = blocked \ {p} /\ UNCHANGED curr
    BY ExecutingFacts DEF CallDeletes, Calling
  <2>2. cpu' \in Registers
    BY <2>1, CallResultType
  <2>3. MachinesOK'
    BY <2>1, <2>2, ForgetIs DEF MachinesOK
  <2> QED
    BY <1>0, <2>1, <2>3 DEF ListsOK
<1>7. CASE CallDeletesSelf
  <2>1. /\ curr # NoPcb /\ Leave
        /\ cpu' = [CpuOf(Resumed(curr')) EXCEPT !.reg[1] = 0]
    BY <1>7, ExecutingFacts DEF CallDeletesSelf, Calling
  <2>2. ListsOK' /\ curr' \in Procs \ {curr}
    BY <2>1, LeaveLists
  <2>3. CpuOf(Resumed(curr')) \in Registers
    BY <2>2, ResumedIs
  <2>4. cpu' \in Registers
    BY <2>1, <2>3 DEF Registers, Regs
  <2>5. Forget(curr) /\ curr \in Procs
    BY <2>1, RunningType DEF Leave
  <2>6. MachinesOK'
    BY <2>4, <2>5, ForgetIs DEF MachinesOK
  <2> QED
    BY <2>2, <2>6
<1>8. CASE Quit
  <2>1. curr # NoPcb /\ Leave /\ cpu' = CpuOf(Resumed(curr'))
    BY <1>8, ExecutingFacts DEF Quit
  <2>2. ListsOK' /\ curr' \in Procs \ {curr}
    BY <2>1, LeaveLists
  <2>3. cpu' \in Registers
    BY <2>1, <2>2, ResumedIs
  <2>4. Forget(curr) /\ curr \in Procs
    BY <2>1, RunningType DEF Leave
  <2>5. MachinesOK'
    BY <2>3, <2>4, ForgetIs DEF MachinesOK
  <2> QED
    BY <2>2, <2>5
<1>9. CASE Pause
  <2>1. curr # NoPcb /\ Block(Advanced(Running))
    BY <1>9, ExecutingFacts DEF Pause
  <2>2. Running \in Machines
    BY <2>1, RunningType
  <2>3. Advanced(Running) \in Machines
    BY <2>2, AdvancedType
  <2>4. TypeOK'
    BY <2>1, <2>3, BlockTypes
  <2> QED
    BY <2>4, TypeParts, PTL
<1>10. CASE CallWaits
  <2>1. curr # NoPcb /\ Block(Called(Running, "SEMPEND", 0))
    BY <1>10, ExecutingFacts DEF CallWaits, Calling
  <2>2. Called(Running, "SEMPEND", 0) \in Machines
    BY <2>1, RunningType, CalledType
  <2>3. TypeOK'
    BY <2>1, <2>2, BlockTypes
  <2> QED
    BY <2>3, TypeParts, PTL
<1>11. CASE Interrupt
  BY <1>11, InterruptTypes, TypeParts, PTL
<1>12. CASE \E p \in Procs, P \in ShellPrograms : ShellCreate(p, P)
  <2> PICK p \in Procs, P \in ShellPrograms : ShellCreate(p, P)
    BY <1>12
  <2>1. Load(p, P) /\ alive' = alive \cup {p} /\ UNCHANGED <<cpu, curr, blocked>>
    BY DEF ShellCreate
  <2>2. P \in AllPrograms
    BY DEF AllPrograms
  <2>3. MachinesOK'
    BY <1>0, <2>1, <2>2, LoadIs DEF MachinesOK
  <2> QED
    BY <1>0, <2>1, <2>3 DEF ListsOK
<1>13. CASE \E p \in Procs : ShellKill(p)
  <2> PICK p \in Procs : ShellKill(p)
    BY <1>13
  <2>1. /\ Forget(p) /\ p \in alive \ {curr, Idle}
        /\ alive' = alive \ {p} /\ blocked' = blocked \ {p} /\ UNCHANGED <<cpu, curr>>
    BY DEF ShellKill
  <2>2. MachinesOK'
    BY <1>0, <2>1, ForgetIs DEF MachinesOK
  <2> QED
    BY <1>0, <2>1, <2>2 DEF ListsOK
<1>14. CASE UNCHANGED vars
  BY <1>0, <1>14 DEF ListsOK, MachinesOK, vars
<1> QED
  BY <1>1, <1>2, <1>3, <1>4, <1>5, <1>6, <1>7, <1>8, <1>9, <1>10, <1>11, <1>12, <1>13, <1>14
  DEF Next

\* The registers and stacks stay well typed and the kernel's sets of processes
\* consistent, for all programs that the compiler lets pass.
THEOREM TypeCorrect == Spec => []TypeOK
<1>1. Init => TypeOK
  BY InitTypes
<1>2. TypeOK /\ [Next]_vars => TypeOK'
  BY TypeStep
<1> QED
  BY <1>1, <1>2, PTL DEF Spec
-----------------------------------------------------------------------------
(* Contexts within the stack *)

\* A context that is saved within the stack is reloaded as it was, and saving it
\* changes no other word: the reason for WithinStack.
LEMMA ReloadSaved ==
  ASSUME NEW m \in Machines, m.sp \in 0 .. StackWords - 10
  PROVE  /\ Reloaded(SaveContext(m).mem, m.sp + 10) = CpuOf(m)
         /\ \A k \in Positions : k <= m.sp \/ k > m.sp + 10 => SaveContext(m).mem[k] = m.mem[k]
<1> DEFINE w == SaveContext(m).mem
           c(i) == IF (m.sp + 10) - 10 + i \in Positions THEN w[(m.sp + 10) - 10 + i] ELSE 0
<1>1. \A i \in 1..10 : m.sp + i \in Positions
  BY StackAssumption DEF Positions
<1>2. \A i \in 1..10 : w[m.sp + i] = Context(m)[i]
  <2> TAKE i \in 1..10
  <2>1. m.sp + i \in m.sp + 1 .. m.sp + 10 /\ (m.sp + i) - m.sp = i
    OBVIOUS
  <2> QED
    BY <1>1, <2>1, SaveType
<1>3. \A i \in 1..10 : (m.sp + 10) - 10 + i = m.sp + i
  OBVIOUS
<1>4. \A i \in 1..10 : c(i) = Context(m)[i]
  BY <1>1, <1>2, <1>3
<1>5. \A k \in Positions : k <= m.sp \/ k > m.sp + 10 => w[k] = m.mem[k]
  BY SaveType DEF Positions
<1>6. Reloaded(w, m.sp + 10) =
        [pc |-> c(10), bp |-> c(9), sp |-> (m.sp + 10) - 10,
         reg |-> [r \in Regs |-> c(1 + r)], seg |-> [i \in 1..4 |-> c(4 + i)]]
  BY Zenon DEF Reloaded
<1> HIDE DEF w, c
<1>7. c(10) = m.pc /\ c(9) = m.bp /\ (m.sp + 10) - 10 = m.sp
  BY <1>4, ContextEntries
<1>8. [r \in Regs |-> c(1 + r)] = m.reg
  <2>1. \A r \in Regs : 1 + r \in 1..10 /\ 1 + r = r + 1
    BY DEF Regs
  <2>2. \A r \in Regs : c(1 + r) = m.reg[r]
    BY <1>4, <2>1, ContextEntries
  <2> QED
    BY <2>2 DEF Machines
<1>9. [i \in 1..4 |-> c(4 + i)] = m.seg
  <2>1. \A i \in 1..4 : 4 + i \in 1..10 /\ 4 + i = i + 4
    OBVIOUS
  <2>2. \A i \in 1..4 : c(4 + i) = m.seg[i]
    BY <1>4, <2>1, ContextEntries
  <2> QED
    BY <2>2 DEF Machines
<1>10. Reloaded(w, m.sp + 10) = CpuOf(m)
  BY <1>6, <1>7, <1>8, <1>9 DEF CpuOf
<1> QED
  BY <1>5, <1>10 DEF w

LEMMA GlobalsNat ==
  ASSUME TypeOK, NEW p \in Procs
  PROVE  prog[p].globals \in Nat
<1>1. WellFormed(prog[p])
  BY ProgramsAssumption DEF TypeOK
<1> QED
  BY <1>1, SMT DEF WellFormed

\* The machine of every process that exists, by where its registers are.
LEMMA MachineIs ==
  TypeOK =>
    \A p \in alive :
      LET top == IF p = curr THEN cpu.sp ELSE stackTop[p] - 10
      IN  /\ MachineOf(p).sp = top
          /\ prog[p].globals \in Nat
          /\ p = curr => MachineOf(p) = On(cpu, Visible(p, top))
          /\ p # curr /\ top \in 0 .. StackWords - prog[p].globals - 10 =>
               MachineOf(p) = On(Reloaded(mem[p], stackTop[p]), Visible(p, top))
<1> SUFFICES ASSUME TypeOK, NEW p \in alive
             PROVE  LET top == IF p = curr THEN cpu.sp ELSE stackTop[p] - 10
                    IN  /\ MachineOf(p).sp = top
                        /\ prog[p].globals \in Nat
                        /\ p = curr => MachineOf(p) = On(cpu, Visible(p, top))
                        /\ p # curr /\ top \in 0 .. StackWords - prog[p].globals - 10 =>
                             MachineOf(p) = On(Reloaded(mem[p], stackTop[p]), Visible(p, top))
  OBVIOUS
<1>1. p \in Procs /\ prog[p].globals \in Nat
  BY GlobalsNat DEF TypeOK
<1>3. CASE p = curr
  <2>1. MachineOf(p) = On(cpu, Visible(p, cpu.sp))
    BY <1>3, Zenon DEF MachineOf
  <2>2. On(cpu, Visible(p, cpu.sp)).sp = cpu.sp
    BY DEF On
  <2> QED
    BY <1>1, <1>3, <2>1, <2>2
<1>4. CASE p # curr
  <2> DEFINE top == stackTop[p]
             w   == Visible(p, top - 10)
             saved == [pc  |-> Saved(p, 10), bp |-> Saved(p, 9), sp |-> top - 10,
                       reg |-> [r \in Regs |-> Saved(p, r + 1)],
                       seg |-> [i \in 1..4 |-> Saved(p, i + 4)]]
  <2>1. MachineOf(p) = [pc  |-> Saved(p, 10), bp |-> Saved(p, 9), sp |-> top - 10,
                        reg |-> [r \in Regs |-> Saved(p, r + 1)],
                        seg |-> [i \in 1..4 |-> Saved(p, i + 4)],
                        mem |-> w]
    BY <1>4, Zenon DEF MachineOf, ContextWords
  <2>2. MachineOf(p).sp = top - 10
    BY <2>1
  <2>3. top \in Int
    BY <1>1 DEF TypeOK
  <2> SUFFICES ASSUME top - 10 \in 0 .. StackWords - prog[p].globals - 10
               PROVE  MachineOf(p) = On(Reloaded(mem[p], top), Visible(p, top - 10))
    BY <1>1, <1>4, <2>2
  <2>4. \A i \in 1..10 : top - 10 + i \in Positions
    BY <1>1, <2>3, StackAssumption DEF Positions
  <2>5. \A i \in 1..10 :
          (IF top - 10 + i \in Positions THEN mem[p][top - 10 + i] ELSE 0) = Saved(p, i)
    BY <2>4 DEF Saved, ContextWords
  <2> HIDE DEF w
  <2>6. Reloaded(mem[p], top) = saved
    <3> DEFINE c(i) == IF top - 10 + i \in Positions THEN mem[p][top - 10 + i] ELSE 0
    <3>1. Reloaded(mem[p], top) =
            [pc |-> c(10), bp |-> c(9), sp |-> top - 10,
             reg |-> [r \in Regs |-> c(1 + r)], seg |-> [i \in 1..4 |-> c(4 + i)]]
      BY Zenon DEF Reloaded
    <3>2. \A i \in 1..10 : c(i) = Saved(p, i)
      BY <2>5
    <3> HIDE DEF c
    <3>3. \A r \in Regs : c(1 + r) = Saved(p, r + 1)
      <4>1. \A r \in Regs : 1 + r \in 1..10 /\ 1 + r = r + 1
        BY DEF Regs
      <4> QED
        BY <3>2, <4>1
    <3>4. \A i \in 1..4 : c(4 + i) = Saved(p, i + 4)
      <4>1. \A i \in 1..4 : 4 + i \in 1..10 /\ 4 + i = i + 4
        OBVIOUS
      <4> QED
        BY <3>2, <4>1
    <3>5. c(10) = Saved(p, 10) /\ c(9) = Saved(p, 9)
      BY <3>2
    <3> HIDE DEF top
    <3> QED
      BY <3>1, <3>3, <3>4, <3>5
  <2>7. MachineOf(p) = On(saved, w)
    BY <2>1 DEF On
  <2> QED
    BY <2>6, <2>7 DEF w
<1> QED
  BY <1>3, <1>4

\* What a process with g words of global variables sees of the words w when sp are
\* in use.
Seen(w, g, sp) == [k \in Positions |-> IF k <= sp \/ k > StackWords - g THEN w[k] ELSE 0]

\* MachineIs without LET and state functions, so that both ends of a step can be
\* compared: of each process, and of those whose context is within the stack.
Places ==
  \A p \in alive :
    /\ prog[p].globals \in Nat
    /\ p = curr => /\ MachineOf(p).sp = cpu.sp
                   /\ MachineOf(p) = On(cpu, Seen(mem[p], prog[p].globals, cpu.sp))
    /\ p # curr => /\ MachineOf(p).sp = stackTop[p] - 10
                   /\ stackTop[p] - 10 \in 0 .. StackWords - prog[p].globals - 10 =>
                        MachineOf(p) = On(Reloaded(mem[p], stackTop[p]),
                                          Seen(mem[p], prog[p].globals, stackTop[p] - 10))

Parts ==
  \A p \in alive :
    /\ prog[p].globals \in Nat
    /\ p = curr => /\ cpu.sp \in 0 .. StackWords - prog[p].globals - 10
                   /\ MachineOf(p) = On(cpu, Seen(mem[p], prog[p].globals, cpu.sp))
    /\ p # curr => /\ stackTop[p] - 10 \in 0 .. StackWords - prog[p].globals - 10
                   /\ MachineOf(p) = On(Reloaded(mem[p], stackTop[p]),
                                        Seen(mem[p], prog[p].globals, stackTop[p] - 10))

LEMMA MachinePlaces == TypeOK => Places
<1> SUFFICES ASSUME TypeOK, NEW p \in alive
             PROVE  /\ prog[p].globals \in Nat
                    /\ p = curr =>
                         /\ MachineOf(p).sp = cpu.sp
                         /\ MachineOf(p) = On(cpu, Seen(mem[p], prog[p].globals, cpu.sp))
                    /\ p # curr =>
                         /\ MachineOf(p).sp = stackTop[p] - 10
                         /\ stackTop[p] - 10 \in 0 .. StackWords - prog[p].globals - 10 =>
                              MachineOf(p) = On(Reloaded(mem[p], stackTop[p]),
                                               Seen(mem[p], prog[p].globals, stackTop[p] - 10))
  BY DEF Places
<1>1. \A sp : Visible(p, sp) = Seen(mem[p], prog[p].globals, sp)
  BY Zenon DEF Visible, Seen
<1>2. CASE p = curr
  BY <1>1, <1>2, MachineIs
<1>3. CASE p # curr
  BY <1>1, <1>3, MachineIs
<1> QED
  BY <1>2, <1>3

LEMMA MachineParts == TypeOK /\ WithinStack => Parts
<1> SUFFICES ASSUME TypeOK, WithinStack
             PROVE  Parts
  OBVIOUS
<1>1. Places
  BY MachinePlaces
<1>2. \A p \in alive : MachineOf(p).sp \in 0 .. StackWords - prog[p].globals - 10
  BY Zenon DEF WithinStack, ContextWords
<1> QED
  BY <1>1, <1>2 DEF Places, Parts

\* A process that another one's step leaves alone, or gives the CPU.
LEMMA Stays ==
  ASSUME TypeOK, WithinStack, TypeOK',
         NEW p \in alive, p \in alive', p # curr,
         mem'[p] = mem[p], stackTop'[p] = stackTop[p], prog'[p] = prog[p],
         curr' = p => cpu' = Reloaded(mem[p], stackTop[p])
  PROVE  MachineOf(p)' = MachineOf(p)
<1>1. Places'
  BY MachinePlaces, PTL
<1>2. /\ stackTop[p] - 10 \in 0 .. StackWords - prog[p].globals - 10
      /\ MachineOf(p) = On(Reloaded(mem[p], stackTop[p]),
                           Seen(mem[p], prog[p].globals, stackTop[p] - 10))
  BY MachineParts DEF Parts
<1>3. CASE curr' = p
  <2>1. cpu' = Reloaded(mem[p], stackTop[p])
    BY <1>3
  <2>2. cpu'.sp = stackTop[p] - 10
    BY <2>1 DEF Reloaded
  <2>3. MachineOf(p)' = On(cpu', Seen(mem'[p], prog'[p].globals, cpu'.sp))
    BY <1>1, <1>3, Zenon DEF Places
  <2> QED
    BY <1>2, <2>1, <2>2, <2>3, Zenon
<1>4. CASE curr' # p
  <2>1. stackTop'[p] - 10 \in 0 .. StackWords - prog'[p].globals - 10
    BY <1>2
  <2>2. MachineOf(p)' = On(Reloaded(mem'[p], stackTop'[p]),
                           Seen(mem'[p], prog'[p].globals, stackTop'[p] - 10))
    BY <1>1, <1>4, <2>1, Zenon DEF Places
  <2> QED
    BY <1>2, <2>2, Zenon
<1> QED
  BY <1>3, <1>4

\* A process whose context has been saved, within the stack.
LEMMA Switched ==
  ASSUME TypeOK', NEW p \in alive', NEW m \in Machines,
         mem'[p] = SaveContext(m).mem, stackTop'[p] = m.sp + 10,
         curr' = p => cpu' = Reloaded(mem'[p], stackTop'[p]),
         WithinStack' \/ m.sp \in 0 .. StackWords - prog'[p].globals - 10
  PROVE  MachineOf(p)' = On(CpuOf(m), Seen(m.mem, prog'[p].globals, m.sp))
<1>1. Places'
  BY MachinePlaces, PTL
<1> DEFINE w == SaveContext(m).mem
           g == prog'[p].globals
<1>2. g \in Nat
  BY <1>1 DEF Places
<1>3. m.sp \in Int /\ (m.sp + 10) - 10 = m.sp
  BY CpuOfType, SMT
<1>4. /\ m.sp \in 0 .. StackWords - g - 10
      /\ MachineOf(p)' = On(Reloaded(w, m.sp + 10), Seen(w, g, m.sp))
  <2>0. ASSUME WithinStack'
        PROVE  MachineOf(p)'.sp \in 0 .. StackWords - g - 10
    BY <2>0, Zenon DEF WithinStack, ContextWords
  <2>1. CASE curr' = p
    <3>1. cpu' = Reloaded(w, m.sp + 10)
      BY <2>1
    <3>2. cpu'.sp = m.sp
      BY <1>3, <3>1 DEF Reloaded
    <3>3. m.sp \in 0 .. StackWords - g - 10
      BY <1>1, <2>0, <2>1, <3>2 DEF Places
    <3>4. MachineOf(p)' = On(cpu', Seen(w, g, cpu'.sp))
      BY <1>1, <2>1, Zenon DEF Places
    <3> QED
      BY <3>1, <3>2, <3>3, <3>4, Zenon
  <2>2. CASE curr' # p
    <3>1. stackTop'[p] - 10 = m.sp
      BY <1>3
    <3>2. stackTop'[p] - 10 \in 0 .. StackWords - g - 10
      BY <1>1, <2>0, <2>2, <3>1 DEF Places
    <3>3. MachineOf(p)' = On(Reloaded(mem'[p], stackTop'[p]), Seen(mem'[p], g, stackTop'[p] - 10))
      BY <1>1, <2>2, <3>2, Zenon DEF Places
    <3> QED
      BY <3>1, <3>2, <3>3, Zenon
  <2> QED
    BY <2>1, <2>2
<1>5. m.sp \in 0 .. StackWords - 10
  BY <1>2, <1>4, StackAssumption
<1>6. /\ Reloaded(w, m.sp + 10) = CpuOf(m)
      /\ \A k \in Positions : k <= m.sp \/ k > m.sp + 10 => w[k] = m.mem[k]
  BY <1>5, ReloadSaved
<1> HIDE DEF w, g
<1>7. Seen(w, g, m.sp) = Seen(m.mem, g, m.sp)
  <2>1. \A k \in Positions : k <= m.sp \/ k > StackWords - g => w[k] = m.mem[k]
    BY <1>2, <1>4, <1>6, StackAssumption DEF Positions
  <2> QED
    BY <2>1 DEF Seen
<1>8. MachineOf(p)' = On(CpuOf(m), Seen(m.mem, g, m.sp))
  BY <1>4, <1>6, <1>7, Zenon
<1> QED
  BY <1>8, Zenon DEF g
-----------------------------------------------------------------------------
(* What the steps leave alone *)

\* Where the current process does not change, neither do the others.
LEMMA OthersStay ==
  ASSUME TypeOK, WithinStack, TypeOK', curr' = curr,
         NEW p \in alive \cap alive', p # curr,
         mem'[p] = mem[p], stackTop'[p] = stackTop[p], prog'[p] = prog[p]
  PROVE  MachineOf(p)' = MachineOf(p)
BY Stays

LEMMA BlockUnnoticed ==
  ASSUME TypeOK, WithinStack, TypeOK', curr # NoPcb,
         NEW m \in Machines, Block(m), NEW p \in alive \cap alive', p # curr
  PROVE  MachineOf(p)' = MachineOf(p)
<1>1. PICK n \in Chosen(curr, alive, blocked) : Dispatch(n)
  BY Zenon DEF Block
<1>2. SwitchFrom(m) /\ prog' = prog
  BY Zenon DEF Block
<1>3. n \in Procs /\ p \in Procs \ {curr}
  BY <1>1, ChosenFacts DEF TypeOK
<1>4. /\ mem' \in [Procs -> Stacks] /\ stackTop' \in [Procs -> Int]
      /\ mem'[p] = mem[p] /\ stackTop'[p] = stackTop[p]
  BY <1>2, <1>3, SwitchIs
<1>5. cpu' = Reloaded(mem'[n], stackTop'[n]) /\ curr' = n
  BY <1>1, <1>3, <1>4, DispatchIs DEF TypeOK
<1>6. curr' = p => cpu' = Reloaded(mem[p], stackTop[p])
  BY <1>4, <1>5
<1> QED
  BY <1>2, <1>4, <1>6, Stays

\* No process can see an interrupt, the one that is interrupted included.
LEMMA InterruptUnnoticed ==
  ASSUME TypeOK, WithinStack, TypeOK', Interrupt,
         NEW p \in alive \cap alive'
  PROVE  MachineOf(p)' = MachineOf(p)
<1>1. curr # NoPcb /\ SwitchFrom(Running) /\ alive' = alive /\ prog' = prog
  BY Zenon DEF Interrupt
<1>2. PICK n \in {curr} \cup Ready(curr, alive, blocked') : Dispatch(n)
  BY Zenon DEF Interrupt
<1>3. n \in Procs /\ p \in Procs
  BY <1>1, <1>2 DEF TypeOK, Ready
<1>4. /\ mem' \in [Procs -> Stacks] /\ stackTop' \in [Procs -> Int]
      /\ mem'[curr] = SaveContext(Running).mem /\ stackTop'[curr] = Running.sp + 10
      /\ p # curr => mem'[p] = mem[p] /\ stackTop'[p] = stackTop[p]
  BY <1>1, <1>3, SwitchIs, RunningType
<1>5. cpu' = Reloaded(mem'[n], stackTop'[n]) /\ curr' = n
  BY <1>2, <1>3, <1>4, DispatchIs DEF TypeOK
<1>6. CASE p # curr
  <2>1. curr' = p => cpu' = Reloaded(mem[p], stackTop[p])
    BY <1>4, <1>5, <1>6
  <2> QED
    BY <1>1, <1>4, <1>6, <2>1, Stays
<1>7. CASE p = curr
  <2>1. Running \in Machines /\ Running.sp = cpu.sp /\ Running.mem = mem[p]
    BY <1>1, <1>7, RunningType
  <2>2. CpuOf(Running) = cpu
    BY <1>7, <1>3, OnType, Zenon DEF Running, TypeOK, Stacks
  <2>3. curr' = p => cpu' = Reloaded(mem'[p], stackTop'[p])
    BY <1>5
  <2>4. MachineOf(p)' = On(CpuOf(Running), Seen(Running.mem, prog'[p].globals, Running.sp))
    <3>1. Running.sp \in 0 .. StackWords - prog'[p].globals - 10
      BY <1>1, <1>7, <2>1, MachineParts DEF Parts
    <3> QED
      BY <1>4, <1>7, <2>1, <2>3, <3>1, Switched
  <2>5. MachineOf(p) = On(cpu, Seen(mem[p], prog[p].globals, cpu.sp))
    BY <1>7, MachineParts DEF Parts
  <2> QED
    BY <1>1, <2>1, <2>2, <2>4, <2>5, Zenon
<1> QED
  BY <1>6, <1>7

\* The steps of one process leave the machines of the others as they are, unless it
\* deletes itself by a kernel call, and their segments even then.
LEMMA Others ==
  ASSUME TypeOK, WithinStack, TypeOK', [Next]_vars,
         NEW p \in alive \cap alive', p # curr
  PROVE  /\ ~SelfDelete => MachineOf(p)' = MachineOf(p)
         /\ MachineOf(p)'.seg = MachineOf(p).seg
         /\ MachineOf(p)'.pc = MachineOf(p).pc /\ MachineOf(p)'.bp = MachineOf(p).bp
         /\ MachineOf(p)'.sp = MachineOf(p).sp /\ MachineOf(p)'.mem = MachineOf(p).mem
<1>0. p \in Procs
  BY DEF TypeOK
<1>1. CASE Start
  <2>1. PICK n \in Chosen(NoPcb, alive, blocked) : Dispatch(n)
    BY <1>1, Zenon DEF Start
  <2>2. UNCHANGED <<alive, blocked, prog, mem, stackTop>>
    BY <1>1 DEF Start
  <2>3. n \in Procs
    BY <2>1, ChosenFacts DEF TypeOK
  <2>4. cpu' = Reloaded(mem'[n], stackTop'[n]) /\ curr' = n
    BY <2>1, <2>2, <2>3, DispatchIs, TypeParts DEF MachinesOK
  <2> QED
    BY <2>2, <2>4, Stays
<1>2. CASE Execute
  <2>1. curr' = curr /\ prog' = prog /\ stackTop' = stackTop
    BY <1>2 DEF Execute
  <2>2. mem'[p] = mem[p]
    BY <1>0, <1>2, ExecuteTypes DEF TypeOK
  <2> QED
    BY <2>1, <2>2, OthersStay
<1>3. CASE CallKernel
  BY <1>3, OthersStay DEF CallKernel
<1>4. CASE CallWakes
  BY <1>4, OthersStay DEF CallWakes
<1>5. CASE \E q \in Procs, P \in Programs : CallCreates(q, P)
  <2> PICK q \in Procs, P \in Programs : CallCreates(q, P)
    BY <1>5
  <2>1. Load(q, P) /\ curr' = curr /\ q # p
    BY DEF CallCreates
  <2>2. P \in AllPrograms
    BY DEF AllPrograms
  <2> QED
    BY <1>0, <2>1, <2>2, LoadIs, OthersStay
<1>6. CASE \E q \in Procs : CallDeletes(q)
  <2> PICK q \in Procs : CallDeletes(q)
    BY <1>6
  <2>1. Forget(q) /\ curr' = curr /\ q # p
    BY DEF CallDeletes
  <2> QED
    BY <1>0, <2>1, ForgetIs, OthersStay
<1>7. CASE CallDeletesSelf
  <2>1. /\ curr # NoPcb /\ Leave
        /\ cpu' = [CpuOf(Resumed(curr')) EXCEPT !.reg[1] = 0]
        /\ SelfDelete \/ Resumed(curr').reg[1] = 0
    BY <1>7, ExecutingFacts DEF CallDeletesSelf, Calling
  <2>2. curr' \in Procs \ {curr}
    BY <2>1, LeaveLists
  <2>3. Forget(curr) /\ curr \in Procs
    BY <2>1, RunningType DEF Leave
  <2>4. mem'[p] = mem[p] /\ stackTop'[p] = stackTop[p] /\ prog'[p] = prog[p]
    BY <1>0, <2>3, ForgetIs
  <2>5. CASE curr' # p
    BY <2>4, <2>5, Stays
  <2>6. CASE curr' = p
    <3>1. Places'
      BY MachinePlaces, PTL
    <3>2. MachineOf(p)' = On(cpu', Seen(mem'[p], prog'[p].globals, cpu'.sp))
      BY <2>6, <3>1, Zenon DEF Places
    <3>3. /\ MachineOf(p)'.seg = cpu'.seg /\ MachineOf(p)'.sp = cpu'.sp
          /\ MachineOf(p)'.pc = cpu'.pc /\ MachineOf(p)'.bp = cpu'.bp
          /\ MachineOf(p)'.mem = Seen(mem'[p], prog'[p].globals, cpu'.sp)
      BY <3>2 DEF On
    <3>4. CpuOf(Resumed(p)) = Reloaded(mem[p], stackTop[p])
      BY <1>0, ResumedIs
    <3>5. /\ cpu'.seg = Reloaded(mem[p], stackTop[p]).seg
          /\ cpu'.sp = Reloaded(mem[p], stackTop[p]).sp
          /\ cpu'.pc = Reloaded(mem[p], stackTop[p]).pc
          /\ cpu'.bp = Reloaded(mem[p], stackTop[p]).bp
      <4>1. Reloaded(mem[p], stackTop[p]) \in Registers
        BY <1>0, ResumedIs
      <4> QED
        BY <2>1, <2>6, <3>4, <4>1 DEF Registers
    <3>6. MachineOf(p) = On(Reloaded(mem[p], stackTop[p]),
                            Seen(mem[p], prog[p].globals, stackTop[p] - 10))
      BY MachineParts DEF Parts
    <3>7. /\ MachineOf(p).seg = Reloaded(mem[p], stackTop[p]).seg
          /\ MachineOf(p).sp = Reloaded(mem[p], stackTop[p]).sp
          /\ MachineOf(p).pc = Reloaded(mem[p], stackTop[p]).pc
          /\ MachineOf(p).bp = Reloaded(mem[p], stackTop[p]).bp
          /\ Reloaded(mem[p], stackTop[p]).sp = stackTop[p] - 10
          /\ MachineOf(p).mem = Seen(mem[p], prog[p].globals, stackTop[p] - 10)
      BY <3>6 DEF On, Reloaded
    <3>8. ASSUME ~SelfDelete
          PROVE  cpu' = Reloaded(mem[p], stackTop[p])
      <4>1. Reloaded(mem[p], stackTop[p]) \in Registers
        BY <1>0, ResumedIs
      <4>2. Reloaded(mem[p], stackTop[p]).reg[1] = 0
        BY <2>1, <2>6, <3>4, <3>8 DEF CpuOf
      <4> QED
        BY <2>1, <2>6, <3>4, <4>1, <4>2 DEF Registers, Regs
    <3>9. ~SelfDelete => MachineOf(p)' = MachineOf(p)
      BY <2>2, <2>4, <2>6, <3>8, Stays
    <3> QED
      BY <2>4, <3>3, <3>5, <3>7, <3>9
  <2> QED
    BY <2>5, <2>6
<1>8. CASE Quit
  <2>1. curr # NoPcb /\ Leave /\ cpu' = CpuOf(Resumed(curr'))
    BY <1>8, ExecutingFacts DEF Quit
  <2>2. curr' \in Procs \ {curr}
    BY <2>1, LeaveLists
  <2>3. Forget(curr) /\ curr \in Procs
    BY <2>1, RunningType DEF Leave
  <2>4. mem'[p] = mem[p] /\ stackTop'[p] = stackTop[p] /\ prog'[p] = prog[p]
    BY <1>0, <2>3, ForgetIs
  <2>5. curr' = p => cpu' = Reloaded(mem[p], stackTop[p])
    BY <1>0, <2>1, ResumedIs
  <2> QED
    BY <2>4, <2>5, Stays
<1>9. CASE Pause
  <2>1. curr # NoPcb /\ Block(Advanced(Running))
    BY <1>9, ExecutingFacts DEF Pause
  <2>2. Advanced(Running) \in Machines
    BY <2>1, RunningType, AdvancedType
  <2> QED
    BY <2>1, <2>2, BlockUnnoticed
<1>10. CASE CallWaits
  <2>1. curr # NoPcb /\ Block(Called(Running, "SEMPEND", 0))
    BY <1>10, ExecutingFacts DEF CallWaits, Calling
  <2>2. Called(Running, "SEMPEND", 0) \in Machines
    BY <2>1, RunningType, CalledType
  <2> QED
    BY <2>1, <2>2, BlockUnnoticed
<1>11. CASE Interrupt
  BY <1>11, InterruptUnnoticed
<1>12. CASE \E q \in Procs, P \in ShellPrograms : ShellCreate(q, P)
  <2> PICK q \in Procs, P \in ShellPrograms : ShellCreate(q, P)
    BY <1>12
  <2>1. Load(q, P) /\ curr' = curr /\ q # p
    BY DEF ShellCreate
  <2>2. P \in AllPrograms
    BY DEF AllPrograms
  <2> QED
    BY <1>0, <2>1, <2>2, LoadIs, OthersStay
<1>13. CASE \E q \in Procs : ShellKill(q)
  <2> PICK q \in Procs : ShellKill(q)
    BY <1>13
  <2>1. Forget(q) /\ curr' = curr /\ q # p
    BY DEF ShellKill
  <2> QED
    BY <1>0, <2>1, ForgetIs, OthersStay
<1>14. CASE UNCHANGED vars
  BY <1>14, OthersStay DEF vars
<1> QED
  BY <1>1, <1>2, <1>3, <1>4, <1>5, <1>6, <1>7, <1>8, <1>9, <1>10, <1>11, <1>12, <1>13, <1>14
  DEF Next

UnnoticedStep ==
  \A p \in alive \cap alive' : p # curr \/ Interrupt => MachineOf(p)' = MachineOf(p)

\* No process can see an interrupt, nor the steps of another one: for all programs
\* that keep within their stacks, and delete themselves by a kernel call only when
\* register 1 of the next process is 0 (OwnResult fails otherwise).
THEOREM UnnoticedHolds ==
  ASSUME ~SelfDelete
  PROVE  Spec /\ []WithinStack => Unnoticed
<1>1. TypeOK /\ WithinStack /\ TypeOK' /\ WithinStack' /\ [Next]_vars => [UnnoticedStep]_vars
  <2> SUFFICES ASSUME TypeOK, WithinStack, TypeOK', WithinStack', [Next]_vars,
                      NEW p \in alive \cap alive', p # curr \/ Interrupt
               PROVE  MachineOf(p)' = MachineOf(p)
    BY DEF UnnoticedStep
  <2>1. CASE p # curr
    BY <2>1, Others
  <2>2. CASE Interrupt
    BY <2>2, InterruptUnnoticed
  <2> QED
    BY <2>1, <2>2
<1> QED
  BY <1>1, TypeCorrect, PTL DEF Spec, Unnoticed, UnnoticedStep
-----------------------------------------------------------------------------
(* Segment registers *)

\* The inductive form of OwnSegments: the segments of every process, wherever its
\* registers are.
AllSegments == \A p \in alive : MachineOf(p).seg = Segments(prog[p])

\* How the segments of a machine come from the CPU, or from the context saved.
SegmentsTell ==
  \A p \in alive :
    /\ p = curr => MachineOf(p).seg = cpu.seg
    /\ p # curr =>
         \A m \in Machines :
           mem[p] = SaveContext(m).mem /\ stackTop[p] = m.sp + 10 => MachineOf(p).seg = m.seg

LEMMA SegmentsOf == TypeOK /\ WithinStack => SegmentsTell
<1> SUFFICES ASSUME TypeOK, WithinStack, NEW p \in alive
             PROVE  /\ p = curr => MachineOf(p).seg = cpu.seg
                    /\ p # curr =>
                         \A m \in Machines :
                           mem[p] = SaveContext(m).mem /\ stackTop[p] = m.sp + 10 =>
                             MachineOf(p).seg = m.seg
  BY DEF SegmentsTell
<1>1. Parts
  BY MachineParts
<1>2. ASSUME p = curr
      PROVE  MachineOf(p).seg = cpu.seg
  BY <1>1, <1>2 DEF Parts, On
<1>3. ASSUME p # curr, NEW m \in Machines,
             mem[p] = SaveContext(m).mem, stackTop[p] = m.sp + 10
      PROVE  MachineOf(p).seg = m.seg
  <2>1. /\ prog[p].globals \in Nat
        /\ stackTop[p] - 10 \in 0 .. StackWords - prog[p].globals - 10
        /\ MachineOf(p) = On(Reloaded(mem[p], stackTop[p]),
                             Seen(mem[p], prog[p].globals, stackTop[p] - 10))
    BY <1>1, <1>3 DEF Parts
  <2>2. m.sp \in Int
    BY CpuOfType
  <2>3. m.sp \in 0 .. StackWords - 10
    BY <1>3, <2>1, <2>2, StackAssumption
  <2>4. Reloaded(mem[p], stackTop[p]) = CpuOf(m)
    BY <1>3, <2>3, ReloadSaved
  <2>5. MachineOf(p).seg = Reloaded(mem[p], stackTop[p]).seg
    BY <2>1 DEF On
  <2>6. CpuOf(m).seg = m.seg
    BY CpuOfType
  <2> QED
    BY <2>4, <2>5, <2>6
<1> QED
  BY <1>2, <1>3

LEMMA InitSegments == Init /\ WithinStack => AllSegments
<1> SUFFICES ASSUME Init, WithinStack
             PROVE  AllSegments
  OBVIOUS
<1>1. PICK junk \in Junk :
        LET saved == SaveContext(Loaded(IdleProgram, junk))
        IN  /\ stackTop = [p \in Procs |-> IF p = Idle THEN saved.sp ELSE 0]
            /\ mem = [p \in Procs |-> IF p = Idle THEN saved.mem ELSE [k \in Positions |-> 0]]
  BY Zenon DEF Init
<1> DEFINE m == Loaded(IdleProgram, junk)
<1>2. m \in Machines /\ m.seg = Segments(IdleProgram)
  BY LoadedType, ProgramsAssumption, DataAssumption DEF AllPrograms, Loaded
<1>3. /\ alive = {Idle} /\ curr # Idle /\ Idle \in Procs /\ prog[Idle] = IdleProgram
      /\ mem[Idle] = SaveContext(m).mem /\ stackTop[Idle] = SaveContext(m).sp
  BY <1>1, ProcFacts DEF Init
<1> HIDE DEF m
<1>4. stackTop[Idle] = m.sp + 10
  BY <1>2, <1>3, SaveType
<1> QED
  BY <1>2, <1>3, <1>4, InitTypes, SegmentsOf DEF AllSegments, SegmentsTell

\* The segments of the process that executes a step, if it exists after it.
LEMMA CurrentSegments ==
  ASSUME TypeOK, WithinStack, TypeOK', WithinStack', [Next]_vars,
         NEW c \in alive \cap alive', c = curr
  PROVE  MachineOf(c)'.seg = MachineOf(c).seg /\ prog'[c] = prog[c]
<1>0. /\ c \in Procs /\ curr # NoPcb
      /\ MachineOf(c).seg = cpu.seg
  BY SegmentsOf, ProcFacts DEF TypeOK, SegmentsTell
<1>a. SegmentsTell'
  BY SegmentsOf, PTL
<1>b. ASSUME curr' = curr, cpu'.seg = cpu.seg
      PROVE  MachineOf(c)'.seg = MachineOf(c).seg
  BY <1>0, <1>a, <1>b DEF SegmentsTell
<1>c. ASSUME NEW m \in Machines, Block(m), m.seg = cpu.seg
      PROVE  MachineOf(c)'.seg = MachineOf(c).seg /\ prog'[c] = prog[c]
  <2>1. PICK n \in Chosen(curr, alive, blocked) : Dispatch(n)
    BY <1>c, Zenon DEF Block
  <2>2. SwitchFrom(m) /\ prog' = prog /\ curr # Idle /\ curr' = n
    BY <1>c, <2>1, Zenon DEF Block, Dispatch
  <2>3. n # curr
    BY <2>1, <2>2, ChosenFacts DEF TypeOK
  <2>4. mem'[c] = SaveContext(m).mem /\ stackTop'[c] = m.sp + 10
    BY <1>0, <2>2, SwitchIs
  <2>5. MachineOf(c)'.seg = m.seg
    BY <1>a, <2>2, <2>3, <2>4 DEF SegmentsTell
  <2> QED
    BY <1>0, <1>c, <2>2, <2>5
<1>1. CASE Start
  BY <1>0, <1>1 DEF Start
<1>2. CASE Execute
  <2>1. prog' = prog /\ curr' = curr
    BY <1>2 DEF Execute
  <2> QED
    BY <1>2, <1>b, <2>1, ExecuteTypes
<1>3. CASE CallKernel
  <2>1. prog' = prog /\ curr' = curr
    BY <1>3 DEF CallKernel
  <2>2. PICK r \in Results : cpu' = CallResult(r)
    BY <1>3, Zenon DEF CallKernel
  <2> QED
    BY <1>0, <1>b, <2>1, <2>2, CallResultType, DataAssumption
<1>4. CASE CallWakes
  <2>1. prog' = prog /\ curr' = curr /\ cpu' = CallResult(0)
    BY <1>4 DEF CallWakes
  <2> QED
    BY <1>0, <1>b, <2>1, CallResultType
<1>5. CASE \E q \in Procs, P \in Programs : CallCreates(q, P)
  <2> PICK q \in Procs, P \in Programs : CallCreates(q, P)
    BY <1>5
  <2>1. Load(q, P) /\ curr' = curr /\ q # c /\ cpu' = CallResult(q)
    BY DEF CallCreates
  <2>2. P \in AllPrograms /\ q \in Int
    BY ProcsAssumption DEF AllPrograms
  <2>3. prog'[c] = prog[c]
    BY <1>0, <2>1, <2>2, LoadIs
  <2> QED
    BY <1>0, <1>b, <2>1, <2>2, <2>3, CallResultType
<1>6. CASE \E q \in Procs : CallDeletes(q)
  <2> PICK q \in Procs : CallDeletes(q)
    BY <1>6
  <2>1. Forget(q) /\ curr' = curr /\ q # c /\ cpu' = CallResult(0)
    BY DEF CallDeletes
  <2>2. prog'[c] = prog[c]
    BY <1>0, <2>1, ForgetIs
  <2> QED
    BY <1>0, <1>b, <2>1, <2>2, CallResultType
<1>7. CASE CallDeletesSelf \/ Quit
  <2>1. Leave
    BY <1>7 DEF CallDeletesSelf, Quit
  <2> QED
    BY <2>1 DEF Leave
<1>8. CASE Pause
  <2>1. Block(Advanced(Running))
    BY <1>8 DEF Pause
  <2>2. Advanced(Running) \in Machines /\ Advanced(Running).seg = cpu.seg
    BY <1>0, RunningType, AdvancedType
  <2> QED
    BY <1>c, <2>1, <2>2
<1>9. CASE CallWaits
  <2>1. Block(Called(Running, "SEMPEND", 0))
    BY <1>9 DEF CallWaits
  <2>2. /\ Called(Running, "SEMPEND", 0) \in Machines
        /\ Called(Running, "SEMPEND", 0).seg = cpu.seg
    BY <1>0, RunningType, CalledType
  <2> QED
    BY <1>c, <2>1, <2>2
<1>10. CASE Interrupt
  <2>1. prog' = prog
    BY <1>10 DEF Interrupt
  <2> QED
    BY <1>10, <2>1, InterruptUnnoticed
<1>11. CASE \E q \in Procs, P \in ShellPrograms : ShellCreate(q, P)
  <2> PICK q \in Procs, P \in ShellPrograms : ShellCreate(q, P)
    BY <1>11
  <2>1. Load(q, P) /\ UNCHANGED <<curr, cpu>> /\ q # c
    BY DEF ShellCreate
  <2>2. P \in AllPrograms
    BY DEF AllPrograms
  <2> QED
    BY <1>0, <1>b, <2>1, <2>2, LoadIs
<1>12. CASE \E q \in Procs : ShellKill(q)
  <2> PICK q \in Procs : ShellKill(q)
    BY <1>12
  <2>1. Forget(q) /\ UNCHANGED <<curr, cpu>> /\ q # c
    BY DEF ShellKill
  <2> QED
    BY <1>0, <1>b, <2>1, ForgetIs
<1>13. CASE UNCHANGED vars
  BY <1>13, <1>b DEF vars
<1> QED
  BY <1>1, <1>2, <1>3, <1>4, <1>5, <1>6, <1>7, <1>8, <1>9, <1>10, <1>11, <1>12, <1>13
  DEF Next

\* A process keeps its program, and one that appears has the segments of its own.
LEMMA ProgStays ==
  ASSUME TypeOK, [Next]_vars, NEW p \in alive \cap alive'
  PROVE  prog'[p] = prog[p]
<1>0. p \in Procs
  BY DEF TypeOK
<1>1. CASE Start \/ Execute \/ CallKernel \/ CallWakes \/ Pause \/ CallWaits \/ Interrupt
           \/ UNCHANGED vars
  BY <1>1 DEF Start, Execute, CallKernel, CallWakes, Pause, CallWaits, Block, Interrupt, vars
<1>2. CASE \E q \in Procs, P \in Programs : CallCreates(q, P)
  <2> PICK q \in Procs, P \in Programs : CallCreates(q, P)
    BY <1>2
  <2>1. Load(q, P) /\ q # p /\ P \in AllPrograms
    BY DEF CallCreates, AllPrograms
  <2> QED
    BY <1>0, <2>1, LoadIs
<1>3. CASE \E q \in Procs, P \in ShellPrograms : ShellCreate(q, P)
  <2> PICK q \in Procs, P \in ShellPrograms : ShellCreate(q, P)
    BY <1>3
  <2>1. Load(q, P) /\ q # p /\ P \in AllPrograms
    BY DEF ShellCreate, AllPrograms
  <2> QED
    BY <1>0, <2>1, LoadIs
<1>4. CASE CallDeletesSelf \/ Quit
  <2>1. Leave /\ curr # NoPcb
    BY <1>4, ExecutingFacts DEF CallDeletesSelf, Quit, Calling
  <2>2. Forget(curr) /\ curr \in Procs /\ p # curr
    BY <2>1, RunningType DEF Leave
  <2> QED
    BY <1>0, <2>2, ForgetIs
<1>5. CASE \E q \in Procs : CallDeletes(q) \/ ShellKill(q)
  <2> PICK q \in Procs : CallDeletes(q) \/ ShellKill(q)
    BY <1>5
  <2>1. Forget(q) /\ q # p
    BY DEF CallDeletes, ShellKill
  <2> QED
    BY <1>0, <2>1, ForgetIs
<1> QED
  BY <1>1, <1>2, <1>3, <1>4, <1>5 DEF Next

LEMMA LoadedSegments ==
  ASSUME TypeOK, TypeOK', WithinStack', NEW p \in alive', p # curr',
         NEW P \in AllPrograms, Load(p, P)
  PROVE  MachineOf(p)'.seg = Segments(prog'[p])
<1>1. p \in Procs
  BY DEF TypeOK
<1>2. prog'[p] = P
  BY <1>1, LoadIs
<1>3. PICK junk \in Junk :
        /\ Loaded(P, junk) \in Machines
        /\ mem'[p] = SaveContext(Loaded(P, junk)).mem
        /\ stackTop'[p] = Loaded(P, junk).sp + 10
  BY <1>1, LoadIs
<1>4. Loaded(P, junk).seg = Segments(P)
  BY DEF Loaded
<1>5. SegmentsTell'
  BY SegmentsOf, PTL
<1>6. MachineOf(p)'.seg = Loaded(P, junk).seg
  BY <1>3, <1>5 DEF SegmentsTell
<1> QED
  BY <1>2, <1>4, <1>6

\* Only the creation of a process adds one.
LEMMA NewSegments ==
  ASSUME TypeOK, TypeOK', WithinStack', [Next]_vars, NEW p \in alive' \ alive
  PROVE  MachineOf(p)'.seg = Segments(prog'[p])
<1>1. CASE \E q \in Procs, P \in Programs : CallCreates(q, P)
  <2> PICK q \in Procs, P \in Programs : CallCreates(q, P)
    BY <1>1
  <2>1. Load(p, P) /\ P \in AllPrograms /\ curr' = curr /\ curr # NoPcb
    BY ExecutingFacts DEF CallCreates, AllPrograms, Calling
  <2>2. p # curr'
    BY <2>1 DEF TypeOK
  <2> QED
    BY <2>1, <2>2, LoadedSegments
<1>2. CASE \E q \in Procs, P \in ShellPrograms : ShellCreate(q, P)
  <2> PICK q \in Procs, P \in ShellPrograms : ShellCreate(q, P)
    BY <1>2
  <2>1. Load(p, P) /\ P \in AllPrograms /\ curr' = curr
    BY DEF ShellCreate, AllPrograms
  <2>2. p # curr'
    BY <2>1, ProcFacts DEF TypeOK
  <2> QED
    BY <2>1, <2>2, LoadedSegments
<1>3. CASE ~ \/ \E q \in Procs, P \in Programs : CallCreates(q, P)
             \/ \E q \in Procs, P \in ShellPrograms : ShellCreate(q, P)
  <2>1. alive' \subseteq alive
    BY <1>3 DEF Next, Start, Execute, CallKernel, CallWakes, CallDeletes, CallDeletesSelf, Quit,
                Leave, Pause, CallWaits, Block, Interrupt, ShellKill, vars
  <2> QED
    BY <2>1
<1> QED
  BY <1>1, <1>2, <1>3

LEMMA SegmentsStep ==
  TypeOK /\ WithinStack /\ TypeOK' /\ WithinStack' /\ AllSegments /\ [Next]_vars => AllSegments'
<1> SUFFICES ASSUME TypeOK, WithinStack, TypeOK', WithinStack', AllSegments, [Next]_vars,
                    NEW p \in alive'
             PROVE  MachineOf(p)'.seg = Segments(prog'[p])
  BY DEF AllSegments
<1>1. CASE p \notin alive
  BY <1>1, NewSegments
<1>2. CASE p \in alive /\ p # curr
  BY <1>2, Others, ProgStays DEF AllSegments
<1>3. CASE p \in alive /\ p = curr
  BY <1>3, CurrentSegments DEF AllSegments
<1> QED
  BY <1>1, <1>2, <1>3

\* The process that has the CPU finds the code, strings and functions of its own
\* program: for all programs that keep within their stacks.
THEOREM OwnSegmentsHolds == Spec /\ []WithinStack => []OwnSegments
<1>1. Init /\ WithinStack => AllSegments
  BY InitSegments
<1>2. TypeOK /\ WithinStack /\ TypeOK' /\ WithinStack' /\ AllSegments /\ [Next]_vars => AllSegments'
  BY SegmentsStep
<1>3. TypeOK /\ WithinStack /\ AllSegments => OwnSegments
  BY SegmentsOf DEF OwnSegments, AllSegments, SegmentsTell, TypeOK
<1> QED
  BY <1>1, <1>2, <1>3, TypeCorrect, PTL DEF Spec
-----------------------------------------------------------------------------
(* The machine of module VirtualCpus is that of module Machine *)

LEMMA SameConstants ==
  /\ Virtual!INSTR_LEN = INSTR_LEN /\ Virtual!Regs = Regs /\ Virtual!Positions = Positions
  /\ Virtual!OwnOps = OwnOps /\ Virtual!HasResult = HasResult
  /\ Virtual!ArithmeticOps = ArithmeticOps /\ Virtual!JumpOps = JumpOps
BY Zenon DEF Virtual!INSTR_LEN, INSTR_LEN, Virtual!Regs, Regs, Virtual!Positions, Positions,
       Virtual!OwnOps, OwnOps, Virtual!HasResult, HasResult,
       Virtual!ArithmeticOps, ArithmeticOps, Virtual!JumpOps, JumpOps

LEMMA SameStack ==
  /\ \A m, k : Virtual!Word(m, k) = Word(m, k)
  /\ \A m, k, v : Virtual!SetWord(m, k, v) = SetWord(m, k, v)
  /\ \A m, v : Virtual!Push(m, v) = Push(m, v)
  /\ \A m : Virtual!Top(m) = Top(m)
  /\ \A m, n : Virtual!Drop(m, n) = Drop(m, n)
<1>1. \A m, k : Virtual!Word(m, k) = Word(m, k)
  BY SameConstants, Zenon DEF Virtual!Word, Word
<1>2. \A m, k, v : Virtual!SetWord(m, k, v) = SetWord(m, k, v)
  BY SameConstants, Zenon DEF Virtual!SetWord, SetWord
<1>3. \A m, v : Virtual!Push(m, v) = Push(m, v)
  BY <1>2, Zenon DEF Virtual!Push, Push
<1>4. \A m : Virtual!Top(m) = Top(m)
  BY <1>1, Zenon DEF Virtual!Top, Top
<1>5. \A m, n : Virtual!Drop(m, n) = Drop(m, n)
  BY Zenon DEF Virtual!Drop, Drop
<1> QED
  BY <1>1, <1>2, <1>3, <1>4, <1>5

LEMMA SameOperands ==
  /\ \A m, i : Virtual!At(m, i) = At(m, i)
  /\ \A m, o : Virtual!StackIndex(m, o) = StackIndex(m, o)
  /\ \A m, o : Virtual!Value(m, o) = Value(m, o)
  /\ \A m, o, v : Virtual!Store(m, o, v) = Store(m, o, v)
<1>1. \A m, i : Virtual!At(m, i) = At(m, i)
  BY Zenon DEF Virtual!At, At
<1>2. \A m, o : Virtual!StackIndex(m, o) = StackIndex(m, o)
  BY <1>1, SameStack, Zenon DEF Virtual!StackIndex, StackIndex
<1>3. \A m, o : Virtual!Value(m, o) = Value(m, o)
  BY <1>1, <1>2, SameStack, Zenon DEF Virtual!Value, Value
<1>4. \A m, o, v : Virtual!Store(m, o, v) = Store(m, o, v)
  BY <1>1, <1>2, SameStack, Zenon DEF Virtual!Store, Store
<1> QED
  BY <1>1, <1>2, <1>3, <1>4

LEMMA SameInstructions ==
  /\ \A m, I : Virtual!Arithmetic(m, I) = Arithmetic(m, I)
  /\ \A op, a, b : Virtual!Holds(op, a, b) = Holds(op, a, b)
  /\ \A m, i : Virtual!Jump(m, i) = Jump(m, i)
  /\ \A m, f : Virtual!Call(m, f) = Call(m, f)
  /\ \A m : Virtual!Ret(m) = Ret(m)
<1>1. \A a, b : Virtual!Quotient(a, b) = Quotient(a, b)
  BY Zenon DEF Virtual!Quotient, Quotient
<1>2. \A op, a, b : Virtual!Computed(op, a, b) = Computed(op, a, b)
  BY <1>1, SMT DEF Virtual!Computed, Computed
<1>3. \A m, I : Virtual!Arithmetic(m, I) = Arithmetic(m, I)
  BY <1>2, SameStack, SameOperands, Zenon DEF Virtual!Arithmetic, Arithmetic
<1>4. \A op, a, b : Virtual!Holds(op, a, b) = Holds(op, a, b)
  BY SMT DEF Virtual!Holds, Holds
<1>5. \A m, i : Virtual!Jump(m, i) = Jump(m, i)
  BY SameConstants, Zenon DEF Virtual!Jump, Jump
<1>6. \A m, f : Virtual!Call(m, f) = Call(m, f)
  BY SameConstants, SameStack, Zenon DEF Virtual!Call, Call
<1>7. \A m : Virtual!Ret(m) = Ret(m)
  <2> TAKE m
  <2> DEFINE back == Drop(m, 1 + Top(m) \div 4)
             bp   == back.sp - 1 - 1 - 64 * (Word(m, back.sp - 1 - 1) % 16777216)
  <2>1. Virtual!Drop(m, 1 + Virtual!Top(m) \div 4) = back
    BY SameStack, Zenon
  <2>2. Virtual!Top(back) = Top(back) /\ Virtual!Word(m, back.sp - 1 - 1) = Word(m, back.sp - 1 - 1)
    BY SameStack, Zenon
  <2>3. Ret(m) = Framed(back, Top(back), back.sp - 1, bp)
    BY SMT DEF Ret, Framed
  <2>4. Virtual!Ret(m) =
          LET b == Virtual!Drop(m, 1 + Virtual!Top(m) \div 4)
              w == Virtual!Word(m, b.sp - 1 - 1)
          IN  Framed(b, Virtual!Top(b), b.sp - 1, b.sp - 1 - 1 - 64 * (w % 16777216))
    BY SMT DEF Virtual!Ret, Framed
  <2> HIDE DEF back
  <2>5. Virtual!Ret(m) = Framed(back, Top(back), back.sp - 1, bp)
    BY <2>1, <2>2, <2>4, SMT
  <2> HIDE DEF bp
  <2> QED
    BY <2>3, <2>5, Zenon
<1> QED
  BY <1>3, <1>4, <1>5, <1>6, <1>7

LEMMA SameExecuted ==
  /\ \A P, m : Virtual!Fetch(P, m) = Fetch(P, m)
  /\ \A m : Virtual!Advanced(m) = Advanced(m)
  /\ \A P, m : Virtual!Executed(P, m) = Executed(P, m)
<1>1. \A P, m, I : Virtual!Interpreted(P, m, I) = Interpreted(P, m, I)
  BY SameConstants, SameStack, SameOperands, SameInstructions, SMT
  DEF Virtual!Interpreted, Interpreted
<1>2. \A P, m : Virtual!Fetch(P, m) = Fetch(P, m)
  BY SameConstants, Zenon DEF Virtual!Fetch, Fetch
<1>3. \A m : Virtual!Advanced(m) = Advanced(m)
  BY SameConstants, Zenon DEF Virtual!Advanced, Advanced
<1>4. \A P, m : Virtual!Executed(P, m) = Executed(P, m)
  BY <1>1, <1>2, <1>3, Zenon DEF Virtual!Executed, Executed
<1> QED
  BY <1>2, <1>3, <1>4

LEMMA SameCalls ==
  /\ \A P, m : Virtual!CallName(P, m) = CallName(P, m)
  /\ \A m, name, r : Virtual!Called(m, name, r) = Called(m, name, r)
  /\ \A P, m : Virtual!Live(P, m) = Live(P, m)
  /\ \A P, junk : Virtual!Loaded(P, junk) = Loaded(P, junk)
<1>1. \A name : Virtual!Pops(name) = Pops(name)
  BY Zenon DEF Virtual!Pops, Pops
<1>2. \A P, m : Virtual!CallName(P, m) = CallName(P, m)
  BY SameExecuted, Zenon DEF Virtual!CallName, CallName
<1>3. \A m, name, r : Virtual!Called(m, name, r) = Called(m, name, r)
  BY <1>1, SameConstants, SameStack, SameExecuted, Zenon DEF Virtual!Called, Called
<1>4. \A P, m : Virtual!Live(P, m) = Live(P, m)
  BY SameConstants, Zenon DEF Virtual!Live, Live
<1>5. \A P : Virtual!Segments(P) = Segments(P)
  BY SameConstants, Zenon DEF Virtual!Segments, Segments
<1>6. \A P, junk : Virtual!Loaded(P, junk) = Loaded(P, junk)
  BY <1>5, SameConstants, Zenon DEF Virtual!Loaded, Loaded
<1> QED
  BY <1>2, <1>3, <1>4, <1>6
-----------------------------------------------------------------------------
(* What an instruction reads determines what it does *)

\* Two machines with the same registers, and the same words at the positions V.
Agree(x, y, V) ==
  /\ x \in Machines /\ y \in Machines
  /\ CpuOf(x) = CpuOf(y)
  /\ \A k \in Positions \cap V : x.mem[k] = y.mem[k]

LEMMA AgreeFields ==
  ASSUME NEW x, NEW y, NEW V, Agree(x, y, V)
  PROVE  x.pc = y.pc /\ x.bp = y.bp /\ x.sp = y.sp /\ x.reg = y.reg /\ x.seg = y.seg
BY CpuOfType DEF Agree

LEMMA AgreeFrom ==
  ASSUME NEW x \in Machines, NEW y \in Machines, NEW V,
         x.pc = y.pc, x.bp = y.bp, x.sp = y.sp, x.reg = y.reg, x.seg = y.seg,
         \A k \in Positions \cap V : x.mem[k] = y.mem[k]
  PROVE  Agree(x, y, V)
BY DEF Agree, CpuOf

LEMMA AgreeLess ==
  ASSUME NEW x, NEW y, NEW V, NEW W, Agree(x, y, V), W \subseteq V
  PROVE  Agree(x, y, W)
BY DEF Agree

LEMMA AgreeWord ==
  ASSUME NEW x, NEW y, NEW V, Agree(x, y, V), NEW k \in V
  PROVE  Word(x, k) = Word(y, k)
BY DEF Agree, Word

LEMMA AgreeSetWord ==
  ASSUME NEW x, NEW y, NEW V, Agree(x, y, V), NEW k, NEW v \in Int
  PROVE  Agree(SetWord(x, k, v), SetWord(y, k, v), V \cup {k})
<1>1. SetWord(x, k, v) \in Machines /\ SetWord(y, k, v) \in Machines
  BY SetWordType DEF Agree
<1>2. ASSUME NEW m \in Machines
      PROVE  /\ SetWord(m, k, v).pc = m.pc /\ SetWord(m, k, v).bp = m.bp
             /\ SetWord(m, k, v).sp = m.sp /\ SetWord(m, k, v).reg = m.reg
             /\ SetWord(m, k, v).seg = m.seg
             /\ \A j \in Positions : SetWord(m, k, v).mem[j] = IF j = k THEN v ELSE m.mem[j]
  BY DEF SetWord, Machines
<1>3. x \in Machines /\ y \in Machines /\ \A j \in Positions \cap V : x.mem[j] = y.mem[j]
  BY DEF Agree
<1>4. \A j \in Positions \cap (V \cup {k}) : SetWord(x, k, v).mem[j] = SetWord(y, k, v).mem[j]
  BY <1>2, <1>3
<1>5. x.pc = y.pc /\ x.bp = y.bp /\ x.sp = y.sp /\ x.reg = y.reg /\ x.seg = y.seg
  BY AgreeFields
<1> QED
  BY <1>1, <1>2, <1>3, <1>4, <1>5, AgreeFrom

LEMMA AgreeFramed ==
  ASSUME NEW x, NEW y, NEW V, Agree(x, y, V), NEW pc \in Int, NEW sp \in Int, NEW bp \in Int
  PROVE  Agree(Framed(x, pc, sp, bp), Framed(y, pc, sp, bp), V)
<1>1. x \in Machines /\ y \in Machines /\ \A k \in Positions \cap V : x.mem[k] = y.mem[k]
  BY DEF Agree
<1>2. Framed(x, pc, sp, bp) \in Machines /\ Framed(y, pc, sp, bp) \in Machines
  BY <1>1, FrameType
<1>3. ASSUME NEW m \in Machines
      PROVE  /\ Framed(m, pc, sp, bp).pc = pc /\ Framed(m, pc, sp, bp).bp = bp
             /\ Framed(m, pc, sp, bp).sp = sp /\ Framed(m, pc, sp, bp).reg = m.reg
             /\ Framed(m, pc, sp, bp).seg = m.seg /\ Framed(m, pc, sp, bp).mem = m.mem
  BY DEF Framed, Machines
<1>4. x.reg = y.reg /\ x.seg = y.seg
  BY AgreeFields
<1> QED
  BY <1>1, <1>2, <1>3, <1>4, AgreeFrom

LEMMA FramedIs ==
  ASSUME NEW m \in Machines, NEW v \in Int
  PROVE  /\ [m EXCEPT !.sp = v] = Framed(m, m.pc, v, m.bp)
         /\ [m EXCEPT !.pc = v] = Framed(m, v, m.sp, m.bp)
         /\ m.pc \in Int /\ m.sp \in Int /\ m.bp \in Int
BY DEF Framed, Machines

LEMMA RetIs ==
  ASSUME NEW m
  PROVE  LET b == Drop(m, 1 + Top(m) \div 4)
             w == Word(m, b.sp - 1 - 1)
         IN  Ret(m) = Framed(b, Top(b), b.sp - 1, b.sp - 1 - 1 - 64 * (w % 16777216))
BY SMT DEF Ret, Framed

LEMMA CallFrame ==
  ASSUME NEW m \in Machines, NEW pc, NEW bp
  PROVE  [m EXCEPT !.bp = bp, !.pc = pc] = Framed(m, pc, m.sp, bp)
BY DEF Machines, Framed

LEMMA AgreeSp ==
  ASSUME NEW x, NEW y, NEW V, Agree(x, y, V), NEW v \in Int
  PROVE  Agree([x EXCEPT !.sp = v], [y EXCEPT !.sp = v], V)
<1>1. x \in Machines /\ y \in Machines
  BY DEF Agree
<1>2. x.pc = y.pc /\ x.bp = y.bp
  BY AgreeFields
<1>3. /\ x.pc \in Int /\ x.bp \in Int
      /\ [x EXCEPT !.sp = v] = Framed(x, x.pc, v, x.bp)
      /\ [y EXCEPT !.sp = v] = Framed(y, x.pc, v, x.bp)
  BY <1>1, <1>2, FramedIs
<1>4. Agree(Framed(x, x.pc, v, x.bp), Framed(y, x.pc, v, x.bp), V)
  BY <1>3, AgreeFramed
<1> QED
  BY <1>3, <1>4, Zenon

LEMMA AgreePc ==
  ASSUME NEW x, NEW y, NEW V, Agree(x, y, V), NEW v \in Int
  PROVE  Agree([x EXCEPT !.pc = v], [y EXCEPT !.pc = v], V)
<1>1. x \in Machines /\ y \in Machines
  BY DEF Agree
<1>2. x.sp = y.sp /\ x.bp = y.bp
  BY AgreeFields
<1>3. /\ x.sp \in Int /\ x.bp \in Int
      /\ [x EXCEPT !.pc = v] = Framed(x, v, x.sp, x.bp)
      /\ [y EXCEPT !.pc = v] = Framed(y, v, x.sp, x.bp)
  BY <1>1, <1>2, FramedIs
<1>4. Agree(Framed(x, v, x.sp, x.bp), Framed(y, v, x.sp, x.bp), V)
  BY <1>3, AgreeFramed
<1> QED
  BY <1>3, <1>4, Zenon

LEMMA SetReg ==
  ASSUME NEW m \in Machines, NEW r \in Regs, NEW v \in Int
  PROVE  LET n == [m EXCEPT !.reg[r] = v]
         IN  n \in Machines /\ CpuOf(n) = [CpuOf(m) EXCEPT !.reg[r] = v] /\ n.mem = m.mem
<1> DEFINE n == [m EXCEPT !.reg[r] = v]
<1>1. n \in Machines /\ n.mem = m.mem
  BY SMT DEF Machines
<1>2. CpuOf(n) = [CpuOf(m) EXCEPT !.reg[r] = v]
  BY SMT DEF Machines, CpuOf
<1> QED
  BY <1>1, <1>2, Zenon

LEMMA AgreeReg ==
  ASSUME NEW x, NEW y, NEW V, Agree(x, y, V), NEW r \in Regs, NEW v \in Int
  PROVE  Agree([x EXCEPT !.reg[r] = v], [y EXCEPT !.reg[r] = v], V)
<1> DEFINE a == [x EXCEPT !.reg[r] = v]
           b == [y EXCEPT !.reg[r] = v]
<1>1. /\ x \in Machines /\ y \in Machines /\ CpuOf(x) = CpuOf(y)
      /\ \A k \in Positions \cap V : x.mem[k] = y.mem[k]
  BY DEF Agree
<1>2. a \in Machines /\ CpuOf(a) = [CpuOf(x) EXCEPT !.reg[r] = v] /\ a.mem = x.mem
  BY <1>1, SetReg, ZenonT(30)
<1>3. b \in Machines /\ CpuOf(b) = [CpuOf(x) EXCEPT !.reg[r] = v] /\ b.mem = y.mem
  <2>1. b \in Machines /\ CpuOf(b) = [CpuOf(y) EXCEPT !.reg[r] = v] /\ b.mem = y.mem
    BY <1>1, SetReg, ZenonT(30)
  <2> HIDE DEF b
  <2> QED
    BY <1>1, <2>1
<1> HIDE DEF a, b
<1>4. Agree(a, b, V)
  BY <1>1, <1>2, <1>3, Zenon DEF Agree
<1> QED
  BY <1>4, Zenon DEF a, b

LEMMA AgreeOperand ==
  ASSUME NEW x, NEW y, NEW V, Agree(x, y, V), NEW o \in Operands, PlaceReads(x, o) \subseteq V
  PROVE  /\ At(x, StackIndex(x, o)) = At(y, StackIndex(y, o))
         /\ OperandReads(x, o) \subseteq V => Value(x, o) = Value(y, o)
<1>1. \A i : At(x, i) = At(y, i)
  BY AgreeFields DEF At
<1>2. StackIndex(x, o) = StackIndex(y, o)
  <2>1. CASE o.type = "REL_STACK_INDEX"
    <3>1. Word(x, At(x, o.offset)) = Word(y, At(y, o.offset))
      BY <1>1, <2>1, AgreeWord DEF PlaceReads
    <3> QED
      BY <2>1, <3>1 DEF StackIndex
  <2>2. CASE o.type # "REL_STACK_INDEX"
    BY <2>2 DEF StackIndex
  <2> QED
    BY <2>1, <2>2
<1>3. At(x, StackIndex(x, o)) = At(y, StackIndex(y, o))
  BY <1>1, <1>2
<1>4. ASSUME OperandReads(x, o) \subseteq V
      PROVE  Value(x, o) = Value(y, o)
  <2>1. CASE o.type \in {"ABS_STACK_INDEX", "REL_STACK_INDEX"}
    <3>1. At(x, StackIndex(x, o)) \in V
      BY <1>4, <2>1 DEF OperandReads
    <3>2. Word(x, At(x, StackIndex(x, o))) = Word(y, At(y, StackIndex(y, o)))
      BY <1>3, <3>1, AgreeWord
    <3> QED
      BY <2>1, <3>2 DEF Value
  <2>2. CASE o.type \notin {"ABS_STACK_INDEX", "REL_STACK_INDEX"}
    BY <2>2, AgreeFields DEF Value
  <2> QED
    BY <2>1, <2>2
<1> QED
  BY <1>3, <1>4

LEMMA AgreeStore ==
  ASSUME NEW x, NEW y, NEW V, Agree(x, y, V), NEW o \in Operands, PlaceReads(x, o) \subseteq V,
         NEW v \in Int
  PROVE  Agree(Store(x, o, v), Store(y, o, v), V)
<1>1. CASE o.type = "REG"
  <2>1. o.value \in Regs
    BY <1>1 DEF Operands, Literals
  <2> QED
    BY <1>1, <2>1, AgreeReg DEF Store
<1>2. CASE o.type # "REG"
  <2> DEFINE k == At(x, StackIndex(x, o))
  <2>1. k = At(y, StackIndex(y, o))
    BY AgreeOperand
  <2> HIDE DEF k
  <2>2. Agree(SetWord(x, k, v), SetWord(y, k, v), V \cup {k})
    BY AgreeSetWord
  <2>3. Agree(SetWord(x, k, v), SetWord(y, k, v), V)
    BY <2>2, AgreeLess
  <2> QED
    BY <1>2, <2>1, <2>3 DEF Store, k
<1> QED
  BY <1>1, <1>2

LEMMA AgreeArithmetic ==
  ASSUME NEW x, NEW y, NEW V, Agree(x, y, V), NEW I,
         I.op \in ArithmeticOps, I.args[1] \in Operands, I.args[2] \in Operands,
         OperandReads(x, I.args[1]) \subseteq V, OperandReads(x, I.args[2]) \subseteq V,
         I.op = "DIV" => Value(x, I.args[2]) # 0
  PROVE  Agree(Arithmetic(x, I), Arithmetic(y, I), V)
<1> DEFINE a == Value(x, I.args[1])
           b == Value(x, I.args[2])
           k == At(x, StackIndex(x, I.args[1]))
<1>1. PlaceReads(x, I.args[1]) \subseteq V /\ PlaceReads(x, I.args[2]) \subseteq V
  BY DEF OperandReads
<1>2. a = Value(y, I.args[1]) /\ b = Value(y, I.args[2]) /\ k = At(y, StackIndex(y, I.args[1]))
  BY <1>1, AgreeOperand
<1>3. a \in Int /\ b \in Int
  BY ValueInt DEF Agree
<1>4. I.op = "DIV" => b # 0
  OBVIOUS
<1> HIDE DEF a, b, k
<1>5. Computed(I.op, a, b) \in Int
  <2>1. CASE I.op = "DIV"
    BY <1>3, <1>4, <2>1, QuotientInt DEF Computed
  <2>2. CASE I.op # "DIV"
    BY <1>3, <2>2 DEF Computed, ArithmeticOps
  <2> QED
    BY <2>1, <2>2
<1> DEFINE v == Computed(I.op, a, b)
<1>6. Arithmetic(x, I) = SetWord(x, k, v)
  BY Zenon DEF Arithmetic, a, b, k
<1>7. Arithmetic(y, I) = SetWord(y, k, v)
  BY <1>2, Zenon DEF Arithmetic
<1> HIDE DEF v
<1>8. Agree(SetWord(x, k, v), SetWord(y, k, v), V \cup {k})
  BY <1>5, AgreeSetWord DEF v
<1> QED
  BY <1>6, <1>7, <1>8, AgreeLess

LEMMA AgreePush ==
  ASSUME NEW x, NEW y, NEW V, Agree(x, y, V), NEW v \in Int
  PROVE  /\ Agree(Push(x, v), Push(y, v), V \cup {x.sp + 1})
         /\ Push(x, v).sp = x.sp + 1
<1>1. x.sp = y.sp /\ x.sp + 1 \in Int /\ x \in Machines
  BY AgreeFields, CpuOfType DEF Agree
<1> DEFINE s == x.sp + 1
           a == SetWord(x, s, v)
           b == SetWord(y, s, v)
<1>2. Push(x, v) = [a EXCEPT !.sp = s] /\ Push(y, v) = [b EXCEPT !.sp = s]
  BY <1>1, Zenon DEF Push
<1>3. a \in Machines
  BY <1>1, SetWordType
<1> HIDE DEF s
<1>4. Agree(a, b, V \cup {s})
  BY AgreeSetWord
<1> HIDE DEF a, b
<1>5. Agree([a EXCEPT !.sp = s], [b EXCEPT !.sp = s], V \cup {s})
  BY <1>1, <1>4, AgreeSp DEF s
<1>6. [a EXCEPT !.sp = s].sp = s
  BY <1>3 DEF Machines
<1> QED
  BY <1>2, <1>5, <1>6 DEF s

LEMMA AgreeDrop ==
  ASSUME NEW x, NEW y, NEW V, Agree(x, y, V), NEW n \in Int
  PROVE  /\ Agree(Drop(x, n), Drop(y, n), V)
         /\ Drop(x, n).sp = x.sp - n /\ Drop(x, n).bp = x.bp
<1>1. x.sp = y.sp /\ x.sp - n \in Int /\ x \in Machines
  BY AgreeFields, CpuOfType DEF Agree
<1>2. Drop(x, n) = [x EXCEPT !.sp = x.sp - n] /\ Drop(y, n) = [y EXCEPT !.sp = x.sp - n]
  BY <1>1, Zenon DEF Drop
<1>3. Agree([x EXCEPT !.sp = x.sp - n], [y EXCEPT !.sp = x.sp - n], V)
  BY <1>1, AgreeSp
<1>4. Drop(x, n).sp = x.sp - n /\ Drop(x, n).bp = x.bp
  BY <1>1 DEF Drop, Machines
<1> QED
  BY <1>2, <1>3, <1>4

LEMMA AgreeCall ==
  ASSUME NEW x, NEW y, NEW V, Agree(x, y, V), NEW f \in [entry: Nat, size: Nat]
  PROVE  /\ Agree(Call(x, f), Call(y, f), V \cup {x.sp + 1, x.sp + 2 + f.size})
         /\ Call(x, f).sp = x.sp + 2 + f.size
<1> DEFINE xp == Push(x, x.pc)
           yp == Push(y, y.pc)
           s  == x.sp + 1 + f.size
           xf == [xp EXCEPT !.sp = s]
           yf == [yp EXCEPT !.sp = s]
           W  == V \cup {x.sp + 1}
<1>0. /\ x \in Machines /\ x.pc \in Int /\ x.sp \in Int /\ f.size \in Nat /\ f.entry \in Nat
      /\ x.pc = y.pc /\ x.sp = y.sp
  BY AgreeFields DEF Agree, Machines
<1>1. Agree(xp, yp, W) /\ xp.sp = x.sp + 1
  BY <1>0, AgreePush
<1>2. yp.sp = x.sp + 1
  BY <1>1, AgreeFields
<1>3. s \in Int
  BY <1>0
<1> HIDE DEF W
<1>4. /\ Call(x, f) = [Push(xf, 4 * f.size) EXCEPT !.bp = x.sp + 1, !.pc = f.entry * INSTR_LEN]
      /\ Call(y, f) = [Push(yf, 4 * f.size) EXCEPT !.bp = x.sp + 1, !.pc = f.entry * INSTR_LEN]
  <2>1. xf = [xp EXCEPT !.sp = @ + f.size] /\ yf = [yp EXCEPT !.sp = @ + f.size]
    BY <1>1, <1>2, Zenon
  <2> HIDE DEF xf, yf
  <2> QED
    BY <1>0, <2>1, SMT DEF Call
<1> HIDE DEF xp, yp, s
<1>5. Agree(xf, yf, W)
  BY <1>1, <1>3, AgreeSp
<1>6. xf.sp = s
  BY <1>1 DEF Agree, Machines
<1> HIDE DEF xf, yf
<1> DEFINE xe == Push(xf, 4 * f.size)
           ye == Push(yf, 4 * f.size)
<1>7. Agree(xe, ye, W \cup {s + 1}) /\ xe.sp = s + 1
  BY <1>0, <1>5, <1>6, AgreePush
<1> HIDE DEF xe, ye
<1>8. xe \in Machines /\ ye \in Machines /\ xe.sp = ye.sp
  BY <1>7, AgreeFields DEF Agree
<1>9. /\ Call(x, f) = Framed(xe, f.entry * INSTR_LEN, s + 1, x.sp + 1)
      /\ Call(y, f) = Framed(ye, f.entry * INSTR_LEN, s + 1, x.sp + 1)
  <2> DEFINE pc == f.entry * INSTR_LEN
             bp == x.sp + 1
  <2>1. Call(x, f) = [xe EXCEPT !.bp = bp, !.pc = pc] /\ Call(y, f) = [ye EXCEPT !.bp = bp, !.pc = pc]
    BY <1>4, Zenon DEF xe, ye
  <2> HIDE DEF pc, bp
  <2>2. /\ [xe EXCEPT !.bp = bp, !.pc = pc] = Framed(xe, pc, xe.sp, bp)
        /\ [ye EXCEPT !.bp = bp, !.pc = pc] = Framed(ye, pc, ye.sp, bp)
    BY <1>8, CallFrame, Zenon
  <2>3. Call(x, f) = Framed(xe, pc, s + 1, bp) /\ Call(y, f) = Framed(ye, pc, s + 1, bp)
    BY <1>7, <1>8, <2>1, <2>2, Zenon
  <2> QED
    BY <2>3, Zenon DEF pc, bp
<1>10. f.entry * INSTR_LEN \in Int /\ s + 1 \in Int /\ x.sp + 1 \in Int
  BY <1>0, <1>3 DEF INSTR_LEN
<1>11. Agree(Call(x, f), Call(y, f), W \cup {s + 1})
  BY <1>7, <1>9, <1>10, AgreeFramed
<1>12. Call(x, f).sp = s + 1
  BY <1>8, <1>9 DEF Framed, Machines
<1>13. s + 1 = x.sp + 2 + f.size
  BY <1>0 DEF s
<1> QED
  BY <1>11, <1>12, <1>13 DEF W

LEMMA AgreeRet ==
  ASSUME NEW x, NEW y, NEW V, Agree(x, y, V),
         x.sp \in V, x.sp - (1 + Top(x) \div 4) \in V, x.sp - (1 + Top(x) \div 4) - 2 \in V
  PROVE  /\ Agree(Ret(x), Ret(y), V)
         /\ Ret(x).sp = x.sp - (1 + Top(x) \div 4) - 1
<1> DEFINE n  == 1 + Top(x) \div 4
           xb == Drop(x, n)
           yb == Drop(y, n)
           w  == Word(x, x.sp - n - 2)
           size == 64 * (w % 16777216)
           bp == x.sp - n - 2 - size
<1>1. x \in Machines /\ y \in Machines /\ x.sp = y.sp /\ x.sp \in Int
  BY AgreeFields, CpuOfType DEF Agree
<1>2. Top(x) = Top(y) /\ Top(x) \in Int
  BY <1>1, AgreeWord, WordInt DEF Top
<1>3. n \in Int
  BY <1>2
<1>4. w = Word(y, x.sp - n - 2) /\ w \in Int
  BY <1>1, AgreeWord, WordInt
<1>5. n = 1 + Top(y) \div 4 /\ x.sp - n \in V /\ Ret(x).sp = Ret(x).sp
  BY <1>2
<1>6. /\ Ret(x) = Framed(xb, Top(xb), xb.sp - 1,
                         xb.sp - 1 - 1 - 64 * (Word(x, xb.sp - 1 - 1) % 16777216))
      /\ Ret(y) = Framed(yb, Top(yb), yb.sp - 1,
                         yb.sp - 1 - 1 - 64 * (Word(y, yb.sp - 1 - 1) % 16777216))
  <2>1. yb = Drop(y, 1 + Top(y) \div 4)
    BY <1>5, Zenon
  <2> HIDE DEF yb
  <2> QED
    BY <2>1, RetIs
<1> HIDE DEF n, w
<1>7. Agree(xb, yb, V) /\ xb.sp = x.sp - n /\ yb.sp = x.sp - n
  <2>1. Agree(xb, yb, V) /\ xb.sp = x.sp - n
    BY <1>3, AgreeDrop, Zenon
  <2> QED
    BY <2>1, AgreeFields, Zenon
<1> HIDE DEF xb, yb
<1>8. Top(xb) = Top(yb) /\ Top(xb) \in Int
  BY <1>5, <1>7, AgreeWord, WordInt DEF Top, Agree
<1>9. x.sp - n - 1 - 1 = x.sp - n - 2
  BY <1>1, <1>3
<1>10. /\ Ret(x) = Framed(xb, Top(xb), x.sp - n - 1, bp)
       /\ Ret(y) = Framed(yb, Top(xb), x.sp - n - 1, bp)
  BY <1>4, <1>6, <1>7, <1>8, <1>9, SMT DEF w
<1>11. x.sp - n - 1 \in Int /\ bp \in Int
  <2>1. w % 16777216 \in Int
    BY <1>4
  <2> QED
    BY <1>1, <1>3, <2>1
<1> HIDE DEF bp
<1>12. Agree(Ret(x), Ret(y), V)
  BY <1>7, <1>8, <1>10, <1>11, AgreeFramed
<1>13. Ret(x).sp = x.sp - n - 1
  BY <1>7, <1>10 DEF Framed, Agree, Machines
<1> QED
  BY <1>12, <1>13 DEF n

LEMMA KeepSp ==
  ASSUME NEW m \in Machines
  PROVE  /\ \A k : \A v \in Int : SetWord(m, k, v).sp = m.sp
         /\ \A o \in Operands : \A v \in Int : Store(m, o, v).sp = m.sp
         /\ \A I : \A i \in Int : Jump(m, i).sp = m.sp
<1>1. \A k : \A v \in Int : SetWord(m, k, v).sp = m.sp
  BY DEF SetWord, Machines
<1>2. \A o \in Operands : \A v \in Int : Store(m, o, v).sp = m.sp
  BY <1>1 DEF Store, Machines
<1>3. \A i \in Int : Jump(m, i).sp = m.sp
  BY DEF Jump, Machines
<1> QED
  BY <1>1, <1>2, <1>3

\* The words that an instruction adds to those in use.
Written(I, x, a) ==
  IF I.op = "PUSH" THEN {x.sp + 1} ELSE IF I.op = "CALL" THEN {x.sp + 1, a.sp} ELSE {}

LEMMA ReadCases ==
  ASSUME NEW m, NEW I
  PROVE  /\ I.op = "MOV" =>
              InstrReads(m, I) = PlaceReads(m, I.args[1]) \cup OperandReads(m, I.args[2])
         /\ I.op \in ArithmeticOps =>
              InstrReads(m, I) = UNION {OperandReads(m, I.args[i]) : i \in 1..2}
         /\ I.op \in JumpOps =>
              InstrReads(m, I) = UNION {OperandReads(m, I.args[i]) : i \in 1..3}
         /\ I.op \in {"JMP", "PUSH"} => InstrReads(m, I) = OperandReads(m, I.args[1])
         /\ I.op = "POP" => InstrReads(m, I) = {m.sp} \cup PlaceReads(m, I.args[1])
         /\ I.op = "RET" =>
              InstrReads(m, I) = {m.sp, m.sp - (1 + Top(m) \div 4), m.sp - (1 + Top(m) \div 4) - 2}
<1>1. I.op = "MOV" =>
        InstrReads(m, I) = PlaceReads(m, I.args[1]) \cup OperandReads(m, I.args[2])
  BY SMT DEF InstrReads, ArithmeticOps, JumpOps
<1>2. I.op \in ArithmeticOps =>
        InstrReads(m, I) = UNION {OperandReads(m, I.args[i]) : i \in 1..2}
  BY SMT DEF InstrReads, ArithmeticOps, JumpOps
<1>3. I.op \in JumpOps =>
        InstrReads(m, I) = UNION {OperandReads(m, I.args[i]) : i \in 1..3}
  BY SMT DEF InstrReads, ArithmeticOps, JumpOps
<1>4. I.op \in {"JMP", "PUSH"} => InstrReads(m, I) = OperandReads(m, I.args[1])
  BY SMT DEF InstrReads, ArithmeticOps, JumpOps
<1>5. I.op = "POP" => InstrReads(m, I) = {m.sp} \cup PlaceReads(m, I.args[1])
  BY SMT DEF InstrReads, ArithmeticOps, JumpOps
<1>6. I.op = "RET" =>
        InstrReads(m, I) = {m.sp, m.sp - (1 + Top(m) \div 4), m.sp - (1 + Top(m) \div 4) - 2}
  BY SMT DEF InstrReads, ArithmeticOps, JumpOps
<1> QED
  BY <1>1, <1>2, <1>3, <1>4, <1>5, <1>6

\* The machines a and b, after an instruction I, of two that agree on the words V
\* before it.
SameEffect(I, x, V, a, b) ==
  /\ Agree(a, b, V \cup Written(I, x, a))
  /\ I.op = "PUSH" => a.sp = x.sp + 1
  /\ I.op = "CALL" => a.sp >= x.sp + 2
  /\ I.op = "RET"  => a.sp + 1 \in V
  /\ I.op \notin {"PUSH", "CALL", "RET"} => a.sp <= x.sp

\* What an instruction does depends on the words that it reads only.
LEMMA AgreeInterpreted ==
  ASSUME NEW P, WellFormed(P), NEW I, WellFormedInstr(P, I),
         NEW x, NEW y, NEW V, Agree(x, y, V), InstrReads(x, I) \subseteq V,
         I.op = "DIV" => Value(x, I.args[2]) # 0,
         NEW a, a = Interpreted(P, x, I), NEW b, b = Interpreted(P, y, I)
  PROVE  SameEffect(I, x, V, a, b)
<1>0. x \in Machines /\ y \in Machines /\ x.sp \in Int /\ x.sp = y.sp
  BY CpuOfType, AgreeFields DEF Agree
<1>m. ASSUME I.op = "MOV"
      PROVE  Agree(a, b, V) /\ a.sp = x.sp
  <2>1. I.args[1] \in Operands /\ I.args[2] \in Operands
    BY <1>m, SMT DEF WellFormedInstr
  <2>2. InstrReads(x, I) = PlaceReads(x, I.args[1]) \cup OperandReads(x, I.args[2])
    BY <1>m, ReadCases, SMT
  <2>3. PlaceReads(x, I.args[2]) \subseteq V /\ OperandReads(x, I.args[2]) \subseteq V
        /\ PlaceReads(x, I.args[1]) \subseteq V
    BY <2>2 DEF OperandReads
  <2> DEFINE v == Value(x, I.args[2])
  <2>4. v = Value(y, I.args[2])
    BY <2>1, <2>3, AgreeOperand
  <2>5. v \in Int
    BY <1>0, <2>1, ValueInt
  <2>6. a = Store(x, I.args[1], v) /\ b = Store(y, I.args[1], v)
    BY <1>m, <2>4, Cases, SMT
  <2> HIDE DEF v
  <2>7. Agree(Store(x, I.args[1], v), Store(y, I.args[1], v), V)
    BY <2>1, <2>3, <2>5, AgreeStore
  <2>8. Store(x, I.args[1], v).sp = x.sp
    BY <1>0, <2>1, <2>5, KeepSp, Zenon
  <2> QED
    BY <2>6, <2>7, <2>8, Zenon
<1>a. ASSUME I.op \in ArithmeticOps
      PROVE  Agree(a, b, V) /\ a.sp = x.sp
  <2>1. I.args[1] \in Operands /\ I.args[2] \in Operands
    BY <1>a, SMT DEF WellFormedInstr
  <2>2. InstrReads(x, I) = UNION {OperandReads(x, I.args[i]) : i \in 1..2}
    BY <1>a, ReadCases, SMT
  <2>3. \A i \in 1..2 : OperandReads(x, I.args[i]) \subseteq V
    BY <2>2, Zenon
  <2>4. OperandReads(x, I.args[1]) \subseteq V /\ OperandReads(x, I.args[2]) \subseteq V
    BY <2>3
  <2>5. a = Arithmetic(x, I) /\ b = Arithmetic(y, I)
    BY <1>a, Cases, SMT
  <2>6. Agree(Arithmetic(x, I), Arithmetic(y, I), V)
    BY <1>a, <2>1, <2>4, AgreeArithmetic
  <2>7. Arithmetic(x, I).sp = x.sp
    <3> DEFINE u == Value(x, I.args[1])
               w == Value(x, I.args[2])
               k == At(x, StackIndex(x, I.args[1]))
    <3>1. u \in Int /\ w \in Int
      BY <1>0, <2>1, ValueInt
    <3>2. I.op = "DIV" => w # 0
      OBVIOUS
    <3>3. Arithmetic(x, I) = SetWord(x, k, Computed(I.op, u, w))
      BY Zenon DEF Arithmetic
    <3> HIDE DEF u, w, k
    <3>4. Computed(I.op, u, w) \in Int
      <4>1. CASE I.op = "DIV"
        BY <3>1, <3>2, <4>1, QuotientInt DEF Computed
      <4>2. CASE I.op # "DIV"
        BY <1>a, <3>1, <4>2 DEF Computed, ArithmeticOps
      <4> QED
        BY <4>1, <4>2
    <3> QED
      BY <1>0, <3>3, <3>4, KeepSp
  <2> QED
    BY <2>5, <2>6, <2>7, Zenon
<1>j. ASSUME I.op \in JumpOps \cup {"JMP"}
      PROVE  Agree(a, b, V) /\ a.sp = x.sp
  <2>1. /\ I.op \in JumpOps => \A i \in 1..3 : I.args[i] \in Operands
        /\ I.op = "JMP" => I.args[1] \in Operands
    BY <1>j, SMT DEF WellFormedInstr
  <2>2. /\ I.op \in JumpOps => InstrReads(x, I) = UNION {OperandReads(x, I.args[i]) : i \in 1..3}
        /\ I.op = "JMP" => InstrReads(x, I) = OperandReads(x, I.args[1])
    BY <1>j, ReadCases, SMT
  <2>3. ASSUME NEW o \in Operands, OperandReads(x, o) \subseteq V
        PROVE  /\ Value(x, o) = Value(y, o) /\ Value(x, o) \in Int
               /\ Agree(Jump(x, Value(x, o)), Jump(y, Value(y, o)), V)
               /\ Jump(x, Value(x, o)).sp = x.sp
    <3>1. PlaceReads(x, o) \subseteq V
      BY <2>3 DEF OperandReads
    <3>2. Value(x, o) = Value(y, o) /\ Value(x, o) \in Int
      BY <1>0, <2>3, <3>1, AgreeOperand, ValueInt
    <3>3. Value(x, o) * INSTR_LEN \in Int
      BY <3>2 DEF INSTR_LEN
    <3>4. Agree(Jump(x, Value(x, o)), Jump(y, Value(x, o)), V)
      BY <3>3, AgreePc DEF Jump
    <3>5. Jump(x, Value(x, o)).sp = x.sp
      BY <1>0, <3>2, KeepSp
    <3> QED
      BY <3>2, <3>4, <3>5
  <2>4. CASE I.op = "JMP"
    <3>1. a = Jump(x, Value(x, I.args[1])) /\ b = Jump(y, Value(y, I.args[1]))
      BY <2>4, Cases, SMT
    <3> QED
      BY <2>1, <2>2, <2>3, <2>4, <3>1
  <2>5. CASE I.op \in JumpOps
    <3>1. \A i \in 1..3 : I.args[i] \in Operands /\ OperandReads(x, I.args[i]) \subseteq V
      BY <2>1, <2>2, <2>5, Zenon
    <3>2. /\ a = IF Holds(I.op, Value(x, I.args[1]), Value(x, I.args[2]))
                 THEN Jump(x, Value(x, I.args[3])) ELSE x
          /\ b = IF Holds(I.op, Value(y, I.args[1]), Value(y, I.args[2]))
                 THEN Jump(y, Value(y, I.args[3])) ELSE y
      BY <2>5, SMT DEF Interpreted, ArithmeticOps, JumpOps
    <3>3. /\ Value(x, I.args[1]) = Value(y, I.args[1])
          /\ Value(x, I.args[2]) = Value(y, I.args[2])
          /\ Agree(Jump(x, Value(x, I.args[3])), Jump(y, Value(y, I.args[3])), V)
          /\ Jump(x, Value(x, I.args[3])).sp = x.sp
      BY <2>3, <3>1
    <3> QED
      BY <3>2, <3>3
  <2> QED
    BY <1>j, <2>4, <2>5
<1>p. ASSUME I.op = "PUSH"
      PROVE  Agree(a, b, V \cup {x.sp + 1}) /\ a.sp = x.sp + 1
  <2>1. I.args[1] \in Operands
    BY <1>p, SMT DEF WellFormedInstr
  <2>2. OperandReads(x, I.args[1]) \subseteq V
    BY <1>p, ReadCases, SMT
  <2>3. PlaceReads(x, I.args[1]) \subseteq V
    BY <2>2 DEF OperandReads
  <2> DEFINE v == Value(x, I.args[1])
  <2>4. v = Value(y, I.args[1]) /\ v \in Int
    BY <1>0, <2>1, <2>2, <2>3, AgreeOperand, ValueInt
  <2>5. a = Push(x, v) /\ b = Push(y, v)
    BY <1>p, <2>4, Cases, SMT
  <2> HIDE DEF v
  <2> QED
    BY <2>4, <2>5, AgreePush
<1>o. ASSUME I.op = "POP"
      PROVE  Agree(a, b, V) /\ a.sp <= x.sp
  <2>1. I.args[1] \in Operands
    BY <1>o, SMT DEF WellFormedInstr
  <2>2. InstrReads(x, I) = {x.sp} \cup PlaceReads(x, I.args[1])
    BY <1>o, ReadCases, SMT
  <2> DEFINE v == Top(x)
             s == Drop(x, 1)
             t == Drop(y, 1)
  <2>3. v = Top(y) /\ v \in Int
    BY <1>0, <2>2, AgreeWord, WordInt DEF Top
  <2>4. a = Store(s, I.args[1], v) /\ b = Store(t, I.args[1], v)
    BY <1>o, <2>3, Cases, SMT
  <2>5. Agree(s, t, V) /\ s.sp = x.sp - 1 /\ s.bp = x.bp
    BY AgreeDrop
  <2> HIDE DEF v, s, t
  <2>6. PlaceReads(s, I.args[1]) = PlaceReads(x, I.args[1])
    BY <2>5 DEF PlaceReads, At
  <2>7. Agree(Store(s, I.args[1], v), Store(t, I.args[1], v), V)
    BY <2>1, <2>2, <2>3, <2>5, <2>6, AgreeStore
  <2>8. Store(s, I.args[1], v).sp = s.sp
    BY <2>1, <2>3, <2>5, KeepSp DEF Agree
  <2> QED
    BY <1>0, <2>4, <2>5, <2>7, <2>8
<1>c. ASSUME I.op = "CALL"
      PROVE  Agree(a, b, V \cup {x.sp + 1, a.sp}) /\ a.sp >= x.sp + 2
  <2> DEFINE f == P.funcs[I.args[1].value + 1]
  <2>1. Value(x, I.args[1]) = I.args[1].value /\ Value(y, I.args[1]) = I.args[1].value
    <3>1. I.args[1].type = "FUNC_INDEX"
      BY <1>c, SMT DEF WellFormedInstr
    <3> QED
      BY <3>1, SMT DEF Value
  <2>2. f \in [entry: Nat, size: Nat]
    <3>1. I.args[1].value + 1 \in DOMAIN P.funcs
      BY <1>c, SMT DEF WellFormedInstr
    <3>2. P.funcs \in Seq([entry: Nat, size: Nat])
      BY SMT DEF WellFormed
    <3> QED
      BY <3>1, <3>2, SeqElement, Zenon
  <2>3. a = Call(x, f) /\ b = Call(y, f)
    BY <1>c, <2>1, Cases, SMT
  <2> HIDE DEF f
  <2>4. f.size \in Nat
    BY <2>2
  <2>5. a.sp = x.sp + 2 + f.size /\ Agree(a, b, V \cup {x.sp + 1, x.sp + 2 + f.size})
    BY <2>2, <2>3, AgreeCall
  <2> QED
    BY <1>0, <2>4, <2>5
<1>r. ASSUME I.op = "RET"
      PROVE  Agree(a, b, V) /\ a.sp + 1 \in V
  <2> DEFINE n == 1 + Top(x) \div 4
  <2>1. InstrReads(x, I) = {x.sp, x.sp - n, x.sp - n - 2}
    BY <1>r, ReadCases, SMT
  <2>2. a = Ret(x) /\ b = Ret(y)
    BY <1>r, Cases, SMT
  <2>3. n \in Int
    <3>1. Top(x) \in Int
      BY <1>0, WordInt DEF Top
    <3> QED
      BY <3>1
  <2>4. Agree(Ret(x), Ret(y), V) /\ Ret(x).sp = x.sp - n - 1
    BY <2>1, AgreeRet
  <2> HIDE DEF n
  <2>5. a.sp + 1 = x.sp - n
    BY <1>0, <2>2, <2>3, <2>4
  <2> QED
    BY <2>1, <2>2, <2>4, <2>5
<1>i. ASSUME I.op \notin OwnOps \/ I.op = "IRET"
      PROVE  Agree(a, b, V) /\ a.sp = x.sp
  <2>1. a = x /\ b = y
    BY <1>i, Cases, SMT
  <2> QED
    BY <2>1, Zenon
<1>1. CASE I.op = "PUSH"
  BY <1>1, <1>p DEF Written, SameEffect
<1>2. CASE I.op = "CALL"
  BY <1>2, <1>c DEF Written, SameEffect
<1>3. CASE I.op = "RET"
  BY <1>3, <1>r DEF Written, SameEffect
<1>4. CASE I.op \notin {"PUSH", "CALL", "RET"}
  <2>1. Written(I, x, a) = {}
    BY <1>4, Zenon DEF Written
  <2>2. Agree(a, b, V) /\ a.sp <= x.sp
    BY <1>0, <1>4, <1>m, <1>a, <1>j, <1>o, <1>i DEF OwnOps
  <2>3. V \cup {} = V
    OBVIOUS
  <2> QED
    BY <1>4, <2>1, <2>2, <2>3 DEF SameEffect
<1> QED
  BY <1>1, <1>2, <1>3, <1>4
-----------------------------------------------------------------------------
(* What a process can see of its stack *)

\* The words that a process with g words of global variables sees when sp are in use.
Sees(g, sp) == {k \in Int : k <= sp \/ k > StackWords - g}

LEMMA ReadsInt ==
  ASSUME NEW P, WellFormed(P), NEW m \in Machines, InCode(P, m)
  PROVE  InstrReads(Advanced(m), Fetch(P, m)) \subseteq Int
<1> DEFINE I == Fetch(P, m)
           x == Advanced(m)
<1> SUFFICES InstrReads(x, I) \subseteq Int
  OBVIOUS
<1>1. WellFormedInstr(P, I) /\ x \in Machines
  BY AdvancedType, SMT DEF WellFormed, InCode, Fetch
<1> HIDE DEF I, x
<1>2. x.sp \in Int /\ Top(x) \in Int
  BY <1>1, CpuOfType, WordInt DEF Top
<1>3. \A o \in Operands : OperandReads(x, o) \subseteq Int /\ PlaceReads(x, o) \subseteq Int
  <2> TAKE o \in Operands
  <2>1. PlaceReads(x, o) \subseteq Int
    <3>1. CASE o.type = "REL_STACK_INDEX"
      <4>1. o.offset \in Int
        BY <3>1 DEF Operands, Literals
      <4> QED
        BY <1>1, <3>1, <4>1, AtInt DEF PlaceReads
    <3>2. CASE o.type # "REL_STACK_INDEX"
      BY <3>2 DEF PlaceReads
    <3> QED
      BY <3>1, <3>2
  <2>2. At(x, StackIndex(x, o)) \in Int
    BY <1>1, AtInt, StackIndexInt
  <2> QED
    BY <2>1, <2>2 DEF OperandReads
<1>4. /\ I.op \in {"MOV"} \cup ArithmeticOps => I.args[1] \in Operands /\ I.args[2] \in Operands
      /\ I.op \in JumpOps => \A i \in 1..3 : I.args[i] \in Operands
      /\ I.op \in {"JMP", "PUSH", "POP"} => I.args[1] \in Operands
  BY <1>1, SMT DEF WellFormedInstr
<1>5. CASE I.op = "MOV"
  BY <1>3, <1>4, <1>5, ReadCases
<1>6. CASE I.op \in ArithmeticOps
  <2>1. \A i \in 1..2 : I.args[i] \in Operands
    BY <1>4, <1>6
  <2> QED
    BY <1>3, <1>6, <2>1, ReadCases
<1>7. CASE I.op \in JumpOps
  BY <1>3, <1>4, <1>7, ReadCases
<1>8. CASE I.op \in {"JMP", "PUSH", "POP"}
  BY <1>2, <1>3, <1>4, <1>8, ReadCases
<1>9. CASE I.op = "RET"
  <2>1. InstrReads(x, I) = {x.sp, x.sp - (1 + Top(x) \div 4), x.sp - (1 + Top(x) \div 4) - 2}
    BY <1>9, ReadCases
  <2>2. Top(x) \div 4 \in Int
    BY <1>2
  <2> QED
    BY <1>2, <2>1, <2>2
<1>10. CASE I.op \notin {"MOV", "JMP", "PUSH", "POP", "RET"} \cup ArithmeticOps \cup JumpOps
  <2>1. InstrReads(x, I) = {}
    BY <1>10, SMT DEF InstrReads
  <2> QED
    BY <2>1
<1> QED
  BY <1>5, <1>6, <1>7, <1>8, <1>9, <1>10

LEMMA LiveIs ==
  ASSUME NEW P, P.globals \in Nat, NEW m \in Machines
  PROVE  /\ Live(P, m) = On(CpuOf(m), Seen(m.mem, P.globals, m.sp))
         /\ Live(P, m) \in Machines
         /\ Agree(m, Live(P, m), Sees(P.globals, m.sp))
         /\ Live(P, m).pc = m.pc /\ Live(P, m).sp = m.sp
<1> DEFINE w == Seen(m.mem, P.globals, m.sp)
<1>1. w \in Stacks /\ \A k \in Positions : k \in Sees(P.globals, m.sp) => w[k] = m.mem[k]
  BY DEF Seen, Stacks, Sees, Machines
<1>2. Live(P, m) = [m EXCEPT !.mem = w]
  BY Zenon DEF Live, Seen
<1> HIDE DEF w
<1>3. [m EXCEPT !.mem = w] = On(CpuOf(m), w)
  BY SMT DEF On, CpuOf, Machines
<1>4. CpuOf(m) \in Registers
  BY CpuOfType
<1>5. On(CpuOf(m), w) \in Machines /\ CpuOf(On(CpuOf(m), w)) = CpuOf(m) /\ On(CpuOf(m), w).mem = w
  BY <1>1, <1>4, OnType
<1>6. Live(P, m) \in Machines /\ CpuOf(Live(P, m)) = CpuOf(m) /\ Live(P, m).mem = w
  BY <1>2, <1>3, <1>5
<1>7. Agree(m, Live(P, m), Sees(P.globals, m.sp))
  BY <1>1, <1>6 DEF Agree
<1>8. Live(P, m).pc = m.pc /\ Live(P, m).sp = m.sp
  BY <1>7, AgreeFields
<1> QED
  BY <1>2, <1>3, <1>6, <1>7, <1>8, Zenon DEF w

\* Machines that agree on what the process sees look the same to it.
LEMMA LiveAgree ==
  ASSUME NEW P, P.globals \in Nat, NEW a, NEW b, NEW V, Agree(a, b, V),
         \A k \in Positions : k \in Sees(P.globals, a.sp) => k \in V
  PROVE  Live(P, a) = Live(P, b)
<1>1. /\ a \in Machines /\ b \in Machines /\ CpuOf(a) = CpuOf(b) /\ a.sp = b.sp
      /\ \A k \in Positions \cap V : a.mem[k] = b.mem[k]
  BY AgreeFields DEF Agree
<1>2. Seen(a.mem, P.globals, a.sp) = Seen(b.mem, P.globals, b.sp)
  BY <1>1 DEF Seen, Sees, Positions
<1> QED
  BY <1>1, <1>2, LiveIs

LEMMA AgreeAdvanced ==
  ASSUME NEW x, NEW y, NEW V, Agree(x, y, V)
  PROVE  Agree(Advanced(x), Advanced(y), V) /\ Advanced(x).sp = x.sp
<1>1. x \in Machines /\ y \in Machines /\ x.pc = y.pc /\ x.pc + INSTR_LEN \in Int
  BY AgreeFields DEF Agree, Machines, INSTR_LEN
<1>2. /\ Advanced(x) = [x EXCEPT !.pc = x.pc + INSTR_LEN]
      /\ Advanced(y) = [y EXCEPT !.pc = x.pc + INSTR_LEN]
  BY <1>1, Zenon DEF Advanced
<1>3. Agree([x EXCEPT !.pc = x.pc + INSTR_LEN], [y EXCEPT !.pc = x.pc + INSTR_LEN], V)
  BY <1>1, AgreePc
<1> QED
  BY <1>1, <1>2, <1>3, AdvancedType

LEMMA PopsNat == \A name : Pops(name) \in Nat
BY SMT DEF Pops

LEMMA AgreeCalled ==
  ASSUME NEW x, NEW y, NEW V, Agree(x, y, V), NEW name, NEW r \in Int
  PROVE  /\ Agree(Called(x, name, r), Called(y, name, r), V)
         /\ Called(x, name, r).sp <= x.sp
<1> DEFINE n == Pops(name)
           u == Drop(Advanced(x), n)
           v == Drop(Advanced(y), n)
<1>1. n \in Nat
  BY PopsNat, Zenon
<1>2. Agree(Advanced(x), Advanced(y), V) /\ Advanced(x).sp = x.sp /\ x.sp \in Int
  BY AgreeAdvanced, CpuOfType DEF Agree
<1>3. /\ Called(x, name, r) = IF name \in HasResult THEN [u EXCEPT !.reg[1] = r] ELSE u
      /\ Called(y, name, r) = IF name \in HasResult THEN [v EXCEPT !.reg[1] = r] ELSE v
  BY Zenon DEF Called
<1> HIDE DEF n
<1>4. Agree(u, v, V) /\ u.sp = x.sp - n
  <2>1. n \in Int
    BY <1>1
  <2>2. Agree(u, v, V) /\ u.sp = Advanced(x).sp - n
    BY <1>2, <2>1, AgreeDrop, Zenon
  <2> QED
    BY <1>2, <2>2, Zenon
<1> HIDE DEF u, v
<1>5. Agree([u EXCEPT !.reg[1] = r], [v EXCEPT !.reg[1] = r], V)
  BY <1>4, AgreeReg DEF Regs
<1>6. [u EXCEPT !.reg[1] = r].sp = u.sp
  BY <1>4, SMT DEF Agree, Machines
<1>7. u.sp <= x.sp
  BY <1>1, <1>2, <1>4
<1>8. Agree(Called(x, name, r), Called(y, name, r), V)
  BY <1>3, <1>4, <1>5, Zenon
<1>9. Called(x, name, r).sp = u.sp
  BY <1>3, <1>6, Zenon
<1> QED
  BY <1>7, <1>8, <1>9

\* A kernel call does to the process' own machine what it does to the processor.
LEMMA LiveCalled ==
  ASSUME NEW P, P.globals \in Nat, NEW m \in Machines, NEW name, NEW r \in Int
  PROVE  Live(P, Called(Live(P, m), name, r)) = Live(P, Called(m, name, r))
<1>1. /\ Agree(Called(m, name, r), Called(Live(P, m), name, r), Sees(P.globals, m.sp))
      /\ Called(m, name, r).sp <= m.sp
  BY LiveIs, AgreeCalled
<1>2. m.sp \in Int /\ Called(m, name, r).sp \in Int
  BY CpuOfType, CalledType
<1>3. \A k \in Positions : k \in Sees(P.globals, Called(m, name, r).sp) => k \in Sees(P.globals, m.sp)
  BY <1>1, <1>2 DEF Sees, Positions
<1> QED
  BY <1>1, <1>3, LiveAgree

LEMMA CalledMem ==
  ASSUME NEW m \in Machines, NEW name, NEW r \in Int
  PROVE  Called(m, name, r).mem = m.mem
<1> DEFINE n == Drop(Advanced(m), Pops(name))
<1>1. Advanced(m) \in Machines /\ Advanced(m).mem = m.mem
  BY AdvancedType
<1>2. Pops(name) \in Int
  BY SMT DEF Pops
<1>3. n \in Machines /\ n.mem = m.mem
  <2>1. \A x \in Machines : \A i \in Int : Drop(x, i).mem = x.mem
    BY SMT DEF Drop, Machines
  <2> QED
    BY <1>1, <1>2, <2>1, DropType, Zenon
<1> HIDE DEF n
<1>4. [n EXCEPT !.reg[1] = r].mem = n.mem
  BY <1>3, SMT DEF Machines
<1>5. Called(m, name, r) = IF name \in HasResult THEN [n EXCEPT !.reg[1] = r] ELSE n
  BY Zenon DEF Called, n
<1> QED
  BY <1>3, <1>4, <1>5, Zenon

LEMMA MachineEqual ==
  ASSUME NEW x \in Machines, NEW y \in Machines,
         x.pc = y.pc, x.bp = y.bp, x.sp = y.sp, x.reg = y.reg, x.seg = y.seg, x.mem = y.mem
  PROVE  x = y
BY SMT DEF Machines

LEMMA LiveAdvanced ==
  ASSUME NEW P, P.globals \in Nat, NEW m \in Machines
  PROVE  Advanced(Live(P, m)) = Live(P, Advanced(m))
<1> DEFINE a == Advanced(Live(P, m))
           b == Live(P, Advanced(m))
           w == Seen(m.mem, P.globals, m.sp)
<1>1. a \in Machines /\ a.mem = w
  <2>1. Live(P, m) \in Machines /\ Live(P, m) = On(CpuOf(m), w)
    BY LiveIs
  <2>2. Live(P, m).mem = w
    BY <2>1 DEF On
  <2> QED
    BY <2>1, <2>2, AdvancedType
<1>2. b \in Machines /\ b.mem = w
  <2>1. Advanced(m) \in Machines /\ Advanced(m).sp = m.sp /\ Advanced(m).mem = m.mem
    BY AdvancedType
  <2>2. b \in Machines /\ b = On(CpuOf(Advanced(m)), w)
    BY <2>1, LiveIs
  <2> QED
    BY <2>2 DEF On
<1>3. Agree(Advanced(m), a, Sees(P.globals, m.sp))
  BY LiveIs, AgreeAdvanced
<1>4. \E V : Agree(Advanced(m), b, V)
  BY AdvancedType, LiveIs
<1> HIDE DEF a, b, w
<1>5. a.pc = b.pc /\ a.bp = b.bp /\ a.sp = b.sp /\ a.reg = b.reg /\ a.seg = b.seg
  BY <1>3, <1>4, AgreeFields
<1>6. a = b
  BY <1>1, <1>2, <1>5, MachineEqual
<1> QED
  BY <1>6 DEF a, b

\* Two machines after an instruction I on m that differ in nothing but the variables
\* of a function that it has called.
SeenAlike(I, m, a, b) ==
  /\ a \in Machines /\ b \in Machines
  /\ CpuOf(a) = CpuOf(b)
  /\ \A k \in Positions :
        \/ I.op = "CALL" /\ k \in m.sp + 2 .. b.sp - 1
        \/ a.mem[k] = b.mem[k]

\* ... and so does an instruction, except for the variables of a function that is
\* called, if it reads what the process sees only.
LEMMA LiveExecuted ==
  ASSUME NEW P, WellFormed(P), NEW m \in Machines, InCode(P, m), ~Traps(P, m),
         InstrReads(Advanced(m), Fetch(P, m)) \subseteq Sees(P.globals, m.sp),
         Executed(P, m).sp \in 0 .. StackWords - P.globals - 10
  PROVE  SeenAlike(Fetch(P, m), m, Live(P, Executed(P, m)), Live(P, Executed(P, Live(P, m))))
<1> DEFINE I == Fetch(P, m)
           x == Advanced(m)
           y == Advanced(Live(P, m))
           V == Sees(P.globals, m.sp)
           c == Executed(P, m)
           d == Executed(P, Live(P, m))
           a == Live(P, c)
           b == Live(P, d)
<1>1. P.globals \in Nat /\ WellFormedInstr(P, I)
  BY SMT DEF WellFormed, InCode, Fetch
<1>2. Agree(x, y, V) /\ x.sp = m.sp
  BY <1>1, LiveIs, AgreeAdvanced
<1>3. Fetch(P, Live(P, m)) = I
  BY <1>1, LiveIs DEF Fetch
<1>4. c = Interpreted(P, x, I) /\ d = Interpreted(P, y, I)
  BY <1>3, Zenon DEF Executed
<1>5. I.op = "DIV" => Value(x, I.args[2]) # 0
  BY SMT DEF Traps
<1>6. InstrReads(x, I) \subseteq V /\ c.sp \in 0 .. StackWords - P.globals - 10
  OBVIOUS
<1>7. m.sp \in Int
  BY CpuOfType
<1> HIDE DEF I, x, y, c, d, V
<1>8. /\ Agree(c, d, V \cup Written(I, x, c))
      /\ I.op = "PUSH" => c.sp = x.sp + 1
      /\ I.op = "CALL" => c.sp >= x.sp + 2
      /\ I.op = "RET"  => c.sp + 1 \in V
      /\ I.op \notin {"PUSH", "CALL", "RET"} => c.sp <= x.sp
  <2>1. SameEffect(I, x, V, c, d)
    BY <1>1, <1>2, <1>4, <1>5, <1>6, AgreeInterpreted, Zenon
  <2> QED
    BY <2>1, Zenon DEF SameEffect
<1>9. c \in Machines /\ d \in Machines /\ CpuOf(c) = CpuOf(d) /\ c.sp = d.sp
  <2>1. c.sp = d.sp
    BY <1>8, AgreeFields, Zenon
  <2> QED
    BY <1>8, <2>1, Zenon DEF Agree
<1>10. ASSUME NEW k \in Positions, k \in Sees(P.globals, c.sp),
              ~(I.op = "CALL" /\ k \in m.sp + 2 .. c.sp - 1)
       PROVE  k \in V \cup Written(I, x, c)
  <2>1. CASE k > StackWords - P.globals
    BY <2>1 DEF Sees, Positions, V
  <2>2. CASE k <= c.sp
    <3>1. CASE I.op = "PUSH"
      BY <1>2, <1>6, <1>7, <1>8, <1>10, <2>2, <3>1 DEF Sees, Positions, V, Written
    <3>2. CASE I.op = "CALL"
      BY <1>2, <1>6, <1>7, <1>8, <1>10, <2>2, <3>2 DEF Sees, Positions, V, Written
    <3>3. CASE I.op = "RET"
      <4>1. c.sp + 1 <= m.sp
        BY <1>1, <1>6, <1>7, <1>8, <3>3, StackAssumption DEF Sees, V
      <4> QED
        BY <1>1, <1>6, <1>7, <2>2, <4>1 DEF Sees, Positions, V
    <3>4. CASE I.op \notin {"PUSH", "CALL", "RET"}
      BY <1>2, <1>6, <1>7, <1>8, <2>2, <3>4 DEF Sees, Positions, V
    <3> QED
      BY <3>1, <3>2, <3>3, <3>4
  <2> QED
    BY <1>10, <2>1, <2>2 DEF Sees
<1>11. /\ a \in Machines /\ CpuOf(a) = CpuOf(c) /\ a.mem = Seen(c.mem, P.globals, c.sp)
       /\ b \in Machines /\ CpuOf(b) = CpuOf(d) /\ b.mem = Seen(d.mem, P.globals, d.sp)
       /\ b.sp = c.sp
  <2>1. \A n \in Machines :
          /\ Live(P, n) \in Machines /\ CpuOf(Live(P, n)) = CpuOf(n) /\ Live(P, n).sp = n.sp
          /\ Live(P, n).mem = Seen(n.mem, P.globals, n.sp)
    <3> TAKE n \in Machines
    <3>1. /\ Live(P, n) = On(CpuOf(n), Seen(n.mem, P.globals, n.sp))
          /\ Live(P, n) \in Machines /\ Live(P, n).sp = n.sp
      BY <1>1, LiveIs
    <3>2. CpuOf(Live(P, n)) = CpuOf(n)
      BY <1>1, LiveIs DEF Agree
    <3>3. Live(P, n).mem = Seen(n.mem, P.globals, n.sp)
      BY <3>1 DEF On
    <3> QED
      BY <3>1, <3>2, <3>3
  <2> QED
    BY <1>9, <2>1
<1> HIDE DEF a, b
<1>12. ASSUME NEW k \in Positions, ~(I.op = "CALL" /\ k \in m.sp + 2 .. b.sp - 1)
       PROVE  a.mem[k] = b.mem[k]
  <2>1. \A w \in {c.mem, d.mem} : Seen(w, P.globals, c.sp)[k] =
          IF k <= c.sp \/ k > StackWords - P.globals THEN w[k] ELSE 0
    BY DEF Seen
  <2>2. CASE k \in Sees(P.globals, c.sp)
    <3>1. k \in V \cup Written(I, x, c)
      BY <1>10, <1>11, <1>12, <2>2
    <3>2. c.mem[k] = d.mem[k]
      BY <1>8, <3>1 DEF Agree
    <3> QED
      BY <1>9, <1>11, <2>1, <3>2
  <2>3. CASE k \notin Sees(P.globals, c.sp)
    <3>1. ~(k <= c.sp \/ k > StackWords - P.globals)
      BY <2>3 DEF Sees, Positions
    <3> QED
      BY <1>9, <1>11, <2>1, <3>1
  <2> QED
    BY <2>2, <2>3
<1>13. SeenAlike(I, m, a, b)
  BY <1>9, <1>11, <1>12 DEF SeenAlike
<1> QED
  BY <1>13, Zenon DEF a, b, c, d, I
-----------------------------------------------------------------------------
(* Every process has a processor of its own *)

Own == [p \in Procs |-> MachineOf(p)]

\* What module VirtualCpus says of a process, in terms of this one.
LEMMA VirtualTerms ==
  ASSUME NEW p \in Procs
  PROVE  /\ Virtual!Runs(p) <=> p \in alive \ blocked
         /\ Virtual!Instr(p) = Fetch(prog[p], MachineOf(p))
         /\ Virtual!Name(p) = CallName(prog[p], MachineOf(p))
         /\ \A r : Virtual!Result(p, r) =
                     Live(prog[p], Called(MachineOf(p), CallName(prog[p], MachineOf(p)), r))
<1>1. Virtual!Runs(p) <=> p \in alive \ blocked
  BY Zenon DEF Virtual!Runs
<1>2. Virtual!Instr(p) = Fetch(prog[p], MachineOf(p))
  BY SameExecuted DEF Virtual!Instr
<1>3. Virtual!Name(p) = CallName(prog[p], MachineOf(p))
  BY SameCalls DEF Virtual!Name
<1>4. \A r : Virtual!Result(p, r) =
               Live(prog[p], Called(MachineOf(p), CallName(prog[p], MachineOf(p)), r))
  BY <1>3, SameCalls DEF Virtual!Result
<1> QED
  BY <1>1, <1>2, <1>3, <1>4

LEMMA VirtualBlank == Virtual!Blank = Blank
BY SameConstants, Zenon DEF Virtual!Blank, Blank, On, Reset

LEMMA CurrentIs ==
  ASSUME TypeOK, WithinStack, curr # NoPcb
  PROVE  /\ curr \in Procs /\ curr \in alive \ blocked
         /\ Running \in Machines /\ WellFormed(prog[curr]) /\ prog[curr].globals \in Nat
         /\ cpu.sp \in 0 .. StackWords - prog[curr].globals - 10
         /\ MachineOf(curr) = Live(prog[curr], Running)
         /\ Fetch(prog[curr], MachineOf(curr)) = Fetch(prog[curr], Running)
         /\ CallName(prog[curr], MachineOf(curr)) = CallName(prog[curr], Running)
         /\ Top(MachineOf(curr)) = Top(Running)
<1>1. /\ curr \in Procs /\ curr \in alive /\ curr \notin blocked
      /\ Running \in Machines /\ WellFormed(prog[curr]) /\ prog[curr].globals \in Nat
      /\ Running.sp = cpu.sp /\ Running.mem = mem[curr]
  BY RunningType, GlobalsNat DEF TypeOK
<1>2. CpuOf(Running) = cpu
  BY <1>1, OnType, Zenon DEF Running, TypeOK, Stacks
<1>3. /\ MachineOf(curr) = On(cpu, Seen(mem[curr], prog[curr].globals, cpu.sp))
      /\ cpu.sp \in 0 .. StackWords - prog[curr].globals - 10
  BY <1>1, MachineParts DEF Parts
<1>4. MachineOf(curr) = Live(prog[curr], Running)
  BY <1>1, <1>2, <1>3, LiveIs
<1>5. Fetch(prog[curr], MachineOf(curr)) = Fetch(prog[curr], Running)
  BY <1>1, <1>4, LiveIs DEF Fetch
<1>6. Top(MachineOf(curr)) = Top(Running)
  <2>1. /\ Agree(Running, MachineOf(curr), Sees(prog[curr].globals, Running.sp))
        /\ MachineOf(curr).sp = Running.sp
    BY <1>1, <1>4, LiveIs
  <2>2. Running.sp \in Sees(prog[curr].globals, Running.sp)
    BY <1>1, CpuOfType DEF Sees
  <2> QED
    BY <2>1, <2>2, AgreeWord DEF Top
<1> QED
  BY <1>1, <1>3, <1>4, <1>5, <1>6 DEF CallName

\* The machine of the process that executes, when it keeps the processor.
LEMMA CurrentBecomes ==
  ASSUME TypeOK', NEW c \in alive', curr' = c,
         NEW m \in Machines, cpu' = CpuOf(m), mem'[c] = m.mem,
         WithinStack' \/ m.sp \in 0 .. StackWords - prog'[c].globals - 10
  PROVE  /\ MachineOf(c)' = Live(prog'[c], m)
         /\ prog'[c].globals \in Nat
         /\ m.sp \in 0 .. StackWords - prog'[c].globals - 10
<1>1. Places'
  BY MachinePlaces, PTL
<1>2. /\ prog'[c].globals \in Nat /\ MachineOf(c)'.sp = cpu'.sp
      /\ MachineOf(c)' = On(cpu', Seen(mem'[c], prog'[c].globals, cpu'.sp))
  BY <1>1 DEF Places
<1>3. cpu'.sp = m.sp
  BY CpuOfType
<1>4. ASSUME WithinStack'
      PROVE  MachineOf(c)'.sp \in 0 .. StackWords - prog'[c].globals - 10
  BY <1>4, Zenon DEF WithinStack, ContextWords
<1>5. m.sp \in 0 .. StackWords - prog'[c].globals - 10
  BY <1>2, <1>3, <1>4
<1> QED
  BY <1>2, <1>3, <1>5, LiveIs

\* ... when it loses it, or is created.
LEMMA SavedBecomes ==
  ASSUME TypeOK', NEW c \in alive', NEW m \in Machines,
         mem'[c] = SaveContext(m).mem, stackTop'[c] = m.sp + 10, curr' # c,
         WithinStack' \/ m.sp \in 0 .. StackWords - prog'[c].globals - 10
  PROVE  MachineOf(c)' = Live(prog'[c], m)
<1>1. MachineOf(c)' = On(CpuOf(m), Seen(m.mem, prog'[c].globals, m.sp))
  BY Switched
<1>2. Places'
  BY MachinePlaces, PTL
<1>3. prog'[c].globals \in Nat
  BY <1>2 DEF Places
<1> QED
  BY <1>1, <1>3, LiveIs

LEMMA BlankIs ==
  /\ \A p : p \notin alive => MachineOf(p) = Blank
  /\ \A p : p \notin alive' => MachineOf(p)' = Blank
<1>1. \A p : p \notin alive => MachineOf(p) = Blank
  BY Zenon DEF MachineOf
<1>2. \A p : p \notin alive' => MachineOf(p)' = Blank
  BY Zenon DEF MachineOf, Blank
<1> QED
  BY <1>1, <1>2

LEMMA OthersKeep ==
  ASSUME ~SelfDelete, TypeOK, WithinStack, TypeOK', WithinStack', [Next]_vars,
         NEW q, q # curr, q \in alive <=> q \in alive'
  PROVE  MachineOf(q)' = MachineOf(q)
<1>1. CASE q \in alive
  BY <1>1, Others
<1>2. CASE q \notin alive
  BY <1>2, BlankIs
<1> QED
  BY <1>1, <1>2

LEMMA OneChanges ==
  ASSUME NEW p \in Procs, NEW v, MachineOf(p)' = v,
         \A q \in Procs \ {p} : MachineOf(q)' = MachineOf(q)
  PROVE  Own' = [Own EXCEPT ![p] = v]
BY DEF Own

LEMMA TwoChange ==
  ASSUME NEW p \in Procs, NEW r \in Procs, p # r, NEW v, NEW w,
         MachineOf(p)' = v, MachineOf(r)' = w,
         \A q \in Procs \ {p, r} : MachineOf(q)' = MachineOf(q)
  PROVE  Own' = [Own EXCEPT ![p] = v, ![r] = w]
BY DEF Own

LEMMA VirtualExecute ==
  ASSUME ~SelfDelete, TypeOK, WithinStack, TypeOK', WithinStack', ReadsOwn, Next, Execute
  PROVE  \E p \in Procs : Virtual!Execute(p)
<1> PICK op \in OwnOps :
      /\ Executing(op) /\ ~Traps(prog[curr], Running)
      /\ cpu' = CpuOf(Executed(prog[curr], Running))
      /\ mem' = [mem EXCEPT ![curr] = Executed(prog[curr], Running).mem]
      /\ UNCHANGED <<curr, alive, blocked, prog, stackTop>>
  BY Zenon DEF Execute
<1>1. curr # NoPcb /\ InCode(prog[curr], Running) /\ Fetch(prog[curr], Running).op \in OwnOps
  BY DEF Executing
<1> DEFINE c == curr
           P == prog[c]
           g == P.globals
           r == Running
           e == Executed(P, r)
           a == Live(P, e)
           b == Live(P, Executed(P, MachineOf(c)))
           U == IF Fetch(P, r).op = "CALL" THEN r.sp + 2 .. b.sp - 1 ELSE {}
           w == [k \in Positions |-> IF k \in U THEN a.mem[k] ELSE b.mem[k]]
<1>2. /\ c \in Procs /\ c \in alive \ blocked /\ r \in Machines /\ WellFormed(P) /\ g \in Nat
      /\ r.sp = cpu.sp /\ MachineOf(c) = Live(P, r) /\ MachineOf(c).sp = r.sp
      /\ Fetch(P, MachineOf(c)) = Fetch(P, r)
  BY <1>1, CurrentIs, RunningType, LiveIs
<1>3. e \in Machines
  BY <1>1, <1>2, ExecutedType
<1>4. mem'[c] = e.mem
  BY <1>2 DEF TypeOK
<1>5. MachineOf(c)' = a /\ e.sp \in 0 .. StackWords - g - 10
  <2>1. c \in alive' /\ prog' = prog /\ cpu' = CpuOf(e) /\ curr' = c
    BY <1>2
  <2> HIDE DEF e
  <2> QED
    BY <1>3, <1>4, <2>1, CurrentBecomes
<1>6. InstrReads(Advanced(r), Fetch(P, r)) \subseteq Sees(g, r.sp)
  <2>1. InstrReads(Advanced(r), Fetch(P, r)) \subseteq Int
    BY <1>1, <1>2, ReadsInt
  <2> QED
    BY <1>1, <1>2, <2>1 DEF ReadsOwn, Sees
<1>7. /\ a \in Machines /\ b \in Machines /\ CpuOf(a) = CpuOf(b)
      /\ \A k \in Positions :
            \/ Fetch(P, r).op = "CALL" /\ k \in r.sp + 2 .. b.sp - 1
            \/ a.mem[k] = b.mem[k]
  <2>1. SeenAlike(Fetch(P, r), r, a, Live(P, Executed(P, Live(P, r))))
    BY <1>1, <1>2, <1>5, <1>6, LiveExecuted, Zenon
  <2> HIDE DEF a
  <2> QED
    BY <1>2, <2>1, Zenon DEF SeenAlike
<1>8. a = [b EXCEPT !.mem = w]
  <2> HIDE DEF a, b
  <2>1. /\ a.mem \in Stacks /\ b.mem \in Stacks
        /\ a.pc = b.pc /\ a.bp = b.bp /\ a.sp = b.sp /\ a.reg = b.reg /\ a.seg = b.seg
    BY <1>7, CpuOfType
  <2>2. w = a.mem
    BY <1>7, <2>1 DEF Stacks
  <2> HIDE DEF w
  <2> QED
    BY <1>7, <2>1, <2>2 DEF Machines
<1>9. \A q \in Procs \ {c} : MachineOf(q)' = MachineOf(q)
  BY OthersKeep
<1>10. Own' = [Own EXCEPT ![c] = [b EXCEPT !.mem = w]]
  BY <1>2, <1>5, <1>8, <1>9, OneChanges
<1>11. Own'[c] = a /\ Own[c] = MachineOf(c)
  BY <1>2, <1>5 DEF Own
<1>12. b = Virtual!Live(prog[c], Virtual!Executed(prog[c], Own[c]))
  BY <1>11, SameCalls, SameExecuted, Zenon
<1>13. Virtual!Unwritten(c, b) = U
  BY <1>2, <1>11, VirtualTerms, Zenon DEF Virtual!Unwritten, Own
<1> HIDE DEF b, U
<1>14. Own' = [Own EXCEPT ![c] =
               [b EXCEPT !.mem = [k \in Virtual!Positions |->
                  IF k \in Virtual!Unwritten(c, b) THEN Own'[c].mem[k] ELSE b.mem[k]]]]
  BY <1>10, <1>11, <1>13, SameConstants, Zenon
<1>15. Virtual!Runs(c) /\ Virtual!Instr(c).op \in Virtual!OwnOps
  BY <1>1, <1>2, VirtualTerms, SameConstants, Zenon
<1>16. Virtual!Execute(c)
  BY <1>12, <1>14, <1>15, ZenonT(30) DEF Virtual!Execute, Own
<1> QED
  BY <1>2, <1>16, Zenon

\* The machine of the caller after a kernel call that returns to it.
LEMMA CallReturns ==
  ASSUME ~SelfDelete, TypeOK, WithinStack, TypeOK', WithinStack', Executing("CALLCORE"),
         NEW r \in Int, cpu' = CallResult(r), curr' = curr, mem'[curr] = mem[curr],
         prog'[curr] = prog[curr], curr \in alive', NEW c, c = curr
  PROVE  /\ c \in Procs /\ Virtual!Runs(c) /\ Virtual!Instr(c).op = "CALLCORE"
         /\ Virtual!Name(c) = CallName(prog[c], Running)
         /\ MachineOf(c)' = Virtual!Result(c, r)
<1>1. curr # NoPcb /\ Fetch(prog[curr], Running).op = "CALLCORE"
  BY DEF Executing
<1>2. /\ c \in Procs /\ c \in alive \ blocked /\ Running \in Machines
      /\ prog[c].globals \in Nat /\ Running.mem = mem[c]
      /\ MachineOf(c) = Live(prog[c], Running)
      /\ Fetch(prog[c], MachineOf(c)) = Fetch(prog[c], Running)
      /\ CallName(prog[c], MachineOf(c)) = CallName(prog[c], Running)
  BY <1>1, CurrentIs, RunningType
<1> DEFINE name == CallName(prog[c], Running)
           m    == Called(Running, name, r)
<1>3. m \in Machines /\ m.mem = mem[c]
  BY <1>2, CalledType, CalledMem, Zenon
<1>4. cpu' = CpuOf(m) /\ mem'[c] = m.mem
  BY <1>3, Zenon DEF CallResult
<1> HIDE DEF m
<1>5. MachineOf(c)' = Live(prog'[c], m)
  BY <1>3, <1>4, CurrentBecomes
<1>6. Live(prog[c], Called(MachineOf(c), name, r)) = Live(prog[c], m)
  <2>1. Live(prog[c], Called(Live(prog[c], Running), name, r)) = Live(prog[c], m)
    BY <1>2, LiveCalled DEF m
  <2> QED
    BY <1>2, <2>1, Zenon
<1>7. Virtual!Result(c, r) = Live(prog[c], Called(MachineOf(c), CallName(prog[c], MachineOf(c)), r))
  BY <1>2, VirtualTerms, Zenon
<1>8. MachineOf(c)' = Virtual!Result(c, r)
  BY <1>2, <1>5, <1>6, <1>7, Zenon
<1>9. /\ Virtual!Runs(c) /\ Virtual!Instr(c).op = "CALLCORE"
      /\ Virtual!Name(c) = CallName(prog[c], Running)
  BY <1>1, <1>2, VirtualTerms, Zenon
<1> QED
  BY <1>2, <1>8, <1>9, Zenon

LEMMA VirtualCall ==
  ASSUME ~SelfDelete, TypeOK, WithinStack, TypeOK', WithinStack', Next, CallKernel \/ CallWakes
  PROVE  \E p \in Procs : Virtual!CallKernel(p)
<1>1. /\ Executing("CALLCORE")
      /\ \E r \in Results \cup {0} : cpu' = CallResult(r)
      /\ UNCHANGED <<curr, alive, prog, mem, stackTop>> /\ blocked' \subseteq blocked
  <2>1. CASE CallKernel
    BY <2>1 DEF CallKernel
  <2>2. CASE CallWakes
    BY <2>2 DEF CallWakes, Calling
  <2> QED
    BY <2>1, <2>2
<1> PICK r \in Results \cup {0} : cpu' = CallResult(r)
  BY <1>1
<1> PICK c : c = curr
  OBVIOUS
<1>2. r \in Int /\ c \in alive' /\ mem'[c] = mem[c] /\ prog'[c] = prog[c]
  BY <1>1, DataAssumption, RunningType DEF Executing
<1>3. /\ c \in Procs /\ Virtual!Runs(c) /\ Virtual!Instr(c).op = "CALLCORE"
      /\ MachineOf(c)' = Virtual!Result(c, r)
  BY <1>1, <1>2, CallReturns
<1>4. \A q \in Procs \ {c} : MachineOf(q)' = MachineOf(q)
  BY <1>1, OthersKeep
<1>5. Own' = [Own EXCEPT ![c] = Virtual!Result(c, r)]
  BY <1>3, <1>4, OneChanges
<1>6. Virtual!CallKernel(c)
  BY <1>1, <1>3, <1>5, Zenon DEF Virtual!CallKernel, Own
<1> QED
  BY <1>3, <1>6, Zenon

\* The machine that loadExecFile prepares.
LEMMA LoadFresh ==
  ASSUME TypeOK, TypeOK', WithinStack', NEW q \in Procs, q \in alive', NEW P \in AllPrograms,
         Load(q, P), curr' # q
  PROVE  /\ MachineOf(q)' \in Virtual!Fresh(P)
         /\ prog' = [prog EXCEPT ![q] = P]
<1>1. PICK junk \in Junk :
        /\ Loaded(P, junk) \in Machines
        /\ mem'[q] = SaveContext(Loaded(P, junk)).mem
        /\ stackTop'[q] = Loaded(P, junk).sp + 10
  BY LoadIs
<1>2. prog'[q] = P
  BY LoadIs
<1>3. MachineOf(q)' = Live(P, Loaded(P, junk))
  BY <1>1, <1>2, SavedBecomes
<1>4. MachineOf(q)' = Virtual!Live(P, Virtual!Loaded(P, junk))
  BY <1>3, SameCalls, Zenon
<1>5. MachineOf(q)' \in Virtual!Fresh(P)
  BY <1>4, Zenon DEF Virtual!Fresh
<1> QED
  BY <1>5, Zenon DEF Load

LEMMA VirtualCallCreate ==
  ASSUME ~SelfDelete, TypeOK, WithinStack, TypeOK', WithinStack', Next,
         NEW q \in Procs, NEW P \in Programs, CallCreates(q, P)
  PROVE  \E p \in Procs : Virtual!CallCreate(p, q, P)
<1>1. /\ Executing("CALLCORE") /\ CallName(prog[curr], Running) = "PROCESSCREATE"
      /\ q \notin alive /\ Load(q, P) /\ alive' = alive \cup {q} /\ cpu' = CallResult(q)
      /\ UNCHANGED <<curr, blocked>>
  BY DEF CallCreates, Calling
<1> PICK c : c = curr
  OBVIOUS
<1>2. P \in AllPrograms /\ q \in Int
  BY ProcsAssumption DEF AllPrograms
<1>3. curr # NoPcb
  BY <1>1 DEF Executing
<1>4. /\ c \in alive /\ c \in Procs /\ c \in alive' /\ q # c /\ q \in alive'
      /\ mem'[c] = mem[c] /\ prog'[c] = prog[c]
  <2>1. c \in alive /\ c \in Procs
    BY <1>3, RunningType
  <2>2. c \in Procs \ {q}
    BY <1>1, <2>1
  <2>3. mem'[c] = mem[c] /\ prog'[c] = prog[c]
    BY <1>1, <1>2, <2>2, LoadIs, Zenon
  <2> QED
    BY <1>1, <2>1, <2>2, <2>3
<1>5. /\ Virtual!Runs(c) /\ Virtual!Instr(c).op = "CALLCORE"
      /\ Virtual!Name(c) = "PROCESSCREATE"
      /\ MachineOf(c)' = Virtual!Result(c, q)
  BY <1>1, <1>2, <1>4, CallReturns
<1>6. MachineOf(q)' \in Virtual!Fresh(P) /\ prog' = [prog EXCEPT ![q] = P]
  BY <1>1, <1>2, <1>4, LoadFresh
<1>7. \A p \in Procs \ {c, q} : MachineOf(p)' = MachineOf(p)
  BY <1>1, OthersKeep
<1>8. Own' = [Own EXCEPT ![c] = Virtual!Result(c, q), ![q] = MachineOf(q)']
  BY <1>4, <1>5, <1>7, TwoChange
<1>9. \E f \in Virtual!Fresh(P) : Own' = [Own EXCEPT ![c] = Virtual!Result(c, q), ![q] = f]
  BY <1>6, <1>8, Zenon
<1>10. Virtual!Appears(q, P)
  BY <1>1, <1>6, Zenon DEF Virtual!Appears
<1>11. Virtual!CallCreate(c, q, P)
  BY <1>5, <1>9, <1>10, Zenon DEF Virtual!CallCreate, Own
<1> QED
  BY <1>4, <1>11, Zenon

LEMMA VirtualCallDelete ==
  ASSUME ~SelfDelete, TypeOK, WithinStack, TypeOK', WithinStack', Next,
         NEW q \in Procs, CallDeletes(q)
  PROVE  \E p \in Procs : Virtual!CallDelete(p, q)
<1>1. /\ Executing("CALLCORE") /\ CallName(prog[curr], Running) = "PROCESSDELETE"
      /\ q = ToDelete /\ q \in alive \ {curr, Idle}
      /\ alive' = alive \ {q} /\ blocked' = blocked \ {q}
      /\ Forget(q) /\ cpu' = CallResult(0) /\ UNCHANGED curr
  BY DEF CallDeletes, Calling
<1> PICK c : c = curr
  OBVIOUS
<1>2. curr # NoPcb
  BY <1>1 DEF Executing
<1>3. /\ c \in alive /\ c \in Procs /\ c \in alive' /\ q # c /\ q \notin alive'
      /\ mem'[c] = mem[c] /\ prog'[c] = prog[c]
  BY <1>1, <1>2, RunningType, ForgetIs
<1>4. /\ Virtual!Runs(c) /\ Virtual!Instr(c).op = "CALLCORE"
      /\ Virtual!Name(c) = "PROCESSDELETE"
      /\ MachineOf(c)' = Virtual!Result(c, 0)
  BY <1>1, <1>3, CallReturns
<1>5. MachineOf(q)' = Virtual!Blank
  BY <1>3, BlankIs, VirtualBlank
<1>6. \A p \in Procs \ {c, q} : MachineOf(p)' = MachineOf(p)
  BY <1>1, OthersKeep
<1>7. Own' = [Own EXCEPT ![c] = Virtual!Result(c, 0), ![q] = Virtual!Blank]
  BY <1>3, <1>4, <1>5, <1>6, TwoChange
<1>8. Virtual!Disappears(q)
  BY <1>1, Zenon DEF Virtual!Disappears, Forget
<1>9. Virtual!Top(Own[c]) % 65536 = q
  <2>1. Virtual!Top(Own[c]) = Top(Running)
    <3>1. Own[c] = MachineOf(c)
      BY <1>3 DEF Own
    <3> QED
      BY <1>2, <3>1, CurrentIs, SameStack, Zenon
  <2> QED
    BY <1>1, <2>1 DEF ToDelete
<1>10. Virtual!CallDelete(c, q)
  BY <1>3, <1>4, <1>7, <1>8, <1>9, SMT DEF Virtual!CallDelete, Own
<1> QED
  BY <1>3, <1>10, Zenon

\* A process that is gone.
LEMMA VirtualGone ==
  ASSUME TypeOK, NEW q \in Procs, q \in alive, Forget(q),
         alive' = alive \ {q}, blocked' = blocked \ {q},
         \A p \in Procs \ {q} : MachineOf(p)' = MachineOf(p)
  PROVE  Virtual!End(q)
<1>1. MachineOf(q)' = Virtual!Blank
  BY BlankIs, VirtualBlank
<1>2. Own' = [Own EXCEPT ![q] = Virtual!Blank]
  BY <1>1, OneChanges
<1>3. Virtual!Disappears(q)
  BY Zenon DEF Virtual!Disappears, Forget
<1> QED
  BY <1>2, <1>3, Zenon DEF Virtual!End, Own

LEMMA VirtualLeave ==
  ASSUME ~SelfDelete, TypeOK, WithinStack, TypeOK', WithinStack', Next,
         CallDeletesSelf \/ Quit
  PROVE  \E p \in Procs : Virtual!End(p)
<1>1. Leave /\ curr # NoPcb
  BY DEF CallDeletesSelf, Quit, Calling, Executing
<1> PICK c : c = curr
  OBVIOUS
<1>2. c \in Procs /\ c \in alive /\ c \notin blocked
  BY <1>1 DEF TypeOK
<1>3. alive' = alive \ {c} /\ blocked' = blocked \ {c} /\ Forget(c)
  BY <1>1, <1>2 DEF Leave
<1>4. \A p \in Procs \ {c} : MachineOf(p)' = MachineOf(p)
  BY <1>3, OthersKeep
<1> QED
  BY <1>2, <1>3, <1>4, VirtualGone

LEMMA BlockWaits ==
  ASSUME ~SelfDelete, TypeOK, WithinStack, TypeOK', WithinStack', Next,
         curr # NoPcb, NEW m \in Machines, Block(m), NEW c, c = curr
  PROVE  /\ c \in Procs /\ Virtual!Runs(c)
         /\ blocked' = blocked \cup {c} /\ UNCHANGED <<alive, prog>>
         /\ Own' = [Own EXCEPT ![c] = Live(prog[c], m)]
<1>1. c \in Procs /\ c \in alive \ blocked
  BY CurrentIs
<1>2. blocked' = blocked \cup {c} /\ UNCHANGED <<alive, prog>> /\ SwitchFrom(m) /\ c # Idle
  BY DEF Block
<1>3. mem'[c] = SaveContext(m).mem /\ stackTop'[c] = m.sp + 10
  BY <1>2, SwitchIs
<1>4. curr' # c
  <2>1. PICK n \in Chosen(curr, alive, blocked) : Dispatch(n)
    BY Zenon DEF Block
  <2>2. n # curr
    BY <1>2, <2>1, ChosenFacts DEF TypeOK
  <2> QED
    BY <2>1, <2>2 DEF Dispatch
<1>5. MachineOf(c)' = Live(prog'[c], m)
  BY <1>1, <1>2, <1>3, <1>4, SavedBecomes
<1>6. \A p \in Procs \ {c} : MachineOf(p)' = MachineOf(p)
  BY <1>2, OthersKeep
<1>7. Own' = [Own EXCEPT ![c] = Live(prog[c], m)]
  BY <1>1, <1>2, <1>5, <1>6, OneChanges
<1>8. Virtual!Runs(c)
  BY <1>1, VirtualTerms
<1> QED
  BY <1>1, <1>2, <1>7, <1>8

LEMMA VirtualWait ==
  ASSUME ~SelfDelete, TypeOK, WithinStack, TypeOK', WithinStack', Next, Pause \/ CallWaits
  PROVE  \E p \in Procs : Virtual!Wait(p)
<1> PICK c : c = curr
  OBVIOUS
<1>1. curr # NoPcb
  BY DEF Pause, CallWaits, Calling, Executing
<1>2. /\ c \in Procs /\ Running \in Machines /\ prog[c].globals \in Nat
      /\ MachineOf(c) = Live(prog[c], Running)
      /\ Fetch(prog[c], MachineOf(c)) = Fetch(prog[c], Running)
      /\ CallName(prog[c], MachineOf(c)) = CallName(prog[c], Running)
  BY <1>1, CurrentIs
<1>3. Own[c] = MachineOf(c)
  BY <1>2 DEF Own
<1>4. CASE Pause
  <2>1. Block(Advanced(Running)) /\ Fetch(prog[c], Running).op = "PAUSE"
    BY <1>4 DEF Pause, Executing
  <2>2. Advanced(Running) \in Machines
    BY <1>2, AdvancedType
  <2>3. Live(prog[c], Advanced(Running)) = Virtual!Advanced(Own[c])
    BY <1>2, <1>3, LiveAdvanced, SameExecuted
  <2>4. /\ Virtual!Runs(c) /\ blocked' = blocked \cup {c} /\ UNCHANGED <<alive, prog>>
        /\ Own' = [Own EXCEPT ![c] = Virtual!Advanced(Own[c])]
    BY <1>1, <2>1, <2>2, <2>3, BlockWaits
  <2>5. Virtual!Instr(c).op = "PAUSE"
    BY <1>2, <2>1, VirtualTerms
  <2>6. Virtual!Wait(c)
    BY <2>4, <2>5, Zenon DEF Virtual!Wait, Own
  <2> QED
    BY <1>2, <2>6, Zenon
<1>5. CASE CallWaits
  <2>1. /\ Block(Called(Running, "SEMPEND", 0)) /\ Fetch(prog[c], Running).op = "CALLCORE"
        /\ CallName(prog[c], Running) = "SEMPEND"
    BY <1>5 DEF CallWaits, Calling, Executing
  <2>2. Called(Running, "SEMPEND", 0) \in Machines
    BY <1>2, CalledType
  <2>3. /\ Virtual!Instr(c).op = "CALLCORE" /\ Virtual!Name(c) = "SEMPEND"
        /\ Virtual!Result(c, 0) = Live(prog[c], Called(MachineOf(c), "SEMPEND", 0))
    BY <1>2, <2>1, VirtualTerms
  <2>4. Live(prog[c], Called(Running, "SEMPEND", 0)) = Virtual!Result(c, 0)
    BY <1>2, <2>3, LiveCalled
  <2>5. /\ Virtual!Runs(c) /\ blocked' = blocked \cup {c} /\ UNCHANGED <<alive, prog>>
        /\ Own' = [Own EXCEPT ![c] = Virtual!Result(c, 0)]
    BY <1>1, <2>1, <2>2, <2>4, BlockWaits
  <2>6. Virtual!Wait(c)
    BY <2>3, <2>5, Zenon DEF Virtual!Wait, Own
  <2> QED
    BY <1>2, <2>6, Zenon
<1> QED
  BY <1>4, <1>5

LEMMA VirtualWake ==
  ASSUME ~SelfDelete, TypeOK, WithinStack, TypeOK', WithinStack', Next, Start \/ Interrupt
  PROVE  Virtual!Wake
<1>1. UNCHANGED <<alive, prog>> /\ blocked' \subseteq blocked
  BY DEF Start, Interrupt
<1>2. \A p \in Procs : MachineOf(p)' = MachineOf(p)
  <2> TAKE p \in Procs
  <2>1. CASE p \notin alive
    BY <1>1, <2>1, BlankIs
  <2>2. CASE p \in alive /\ Interrupt
    BY <1>1, <2>2, InterruptUnnoticed
  <2>3. CASE p \in alive /\ Start
    <3>1. p # curr
      BY <2>3, ProcFacts DEF Start
    <3> QED
      BY <1>1, <2>3, <3>1, OthersKeep
  <2> QED
    BY <2>1, <2>2, <2>3
<1>3. Own' = Own
  BY <1>2 DEF Own
<1> QED
  BY <1>1, <1>3, Zenon DEF Virtual!Wake, Own

\* The current process, when the shell does something.
LEMMA CurrentStays ==
  ASSUME TypeOK, WithinStack, TypeOK', UNCHANGED <<cpu, curr>>,
         NEW c \in Procs, c = curr, c \in alive', mem'[c] = mem[c], prog'[c] = prog[c]
  PROVE  MachineOf(c)' = MachineOf(c)
<1>1. curr # NoPcb
  BY ProcFacts
<1>2. /\ Running \in Machines /\ Running.mem = mem[c] /\ MachineOf(c) = Live(prog[c], Running)
      /\ Running.sp \in 0 .. StackWords - prog[c].globals - 10
  BY <1>1, CurrentIs, RunningType
<1>3. cpu' = CpuOf(Running)
  BY <1>2, OnType, Zenon DEF Running, TypeOK, Stacks
<1> QED
  BY <1>2, <1>3, CurrentBecomes

LEMMA VirtualShellCreate ==
  ASSUME ~SelfDelete, TypeOK, WithinStack, TypeOK', WithinStack', Next,
         NEW q \in Procs, NEW P \in ShellPrograms, ShellCreate(q, P)
  PROVE  Virtual!Create(q, P)
<1>1. /\ q \notin alive /\ Load(q, P) /\ alive' = alive \cup {q} /\ UNCHANGED <<cpu, curr, blocked>>
  BY DEF ShellCreate
<1>2. P \in AllPrograms
  BY DEF AllPrograms
<1>3. curr # q
  BY <1>1, ProcFacts DEF TypeOK
<1>4. MachineOf(q)' \in Virtual!Fresh(P) /\ prog' = [prog EXCEPT ![q] = P]
  BY <1>1, <1>2, <1>3, LoadFresh
<1>5. \A p \in Procs \ {q} : MachineOf(p)' = MachineOf(p)
  <2> TAKE p \in Procs \ {q}
  <2>1. CASE p # curr
    BY <1>1, <2>1, OthersKeep
  <2>2. CASE p = curr
    <3>1. p \in alive
      BY <2>2, ProcFacts DEF TypeOK
    <3>2. mem'[p] = mem[p] /\ prog'[p] = prog[p]
      BY <1>1, <1>2, LoadIs
    <3> QED
      BY <1>1, <2>2, <3>1, <3>2, CurrentStays
  <2> QED
    BY <2>1, <2>2
<1>6. Own' = [Own EXCEPT ![q] = MachineOf(q)']
  BY <1>5, OneChanges
<1>7. \E f \in Virtual!Fresh(P) : Own' = [Own EXCEPT ![q] = f]
  BY <1>4, <1>6, Zenon
<1>8. Virtual!Appears(q, P)
  BY <1>1, <1>4, Zenon DEF Virtual!Appears
<1> QED
  BY <1>7, <1>8, Zenon DEF Virtual!Create, Own

LEMMA VirtualShellKill ==
  ASSUME ~SelfDelete, TypeOK, WithinStack, TypeOK', WithinStack', Next,
         NEW q \in Procs, ShellKill(q)
  PROVE  Virtual!End(q)
<1>1. /\ q \in alive \ {curr, Idle} /\ Forget(q) /\ alive' = alive \ {q} /\ blocked' = blocked \ {q}
      /\ UNCHANGED <<cpu, curr>>
  BY DEF ShellKill
<1>2. \A p \in Procs \ {q} : MachineOf(p)' = MachineOf(p)
  <2> TAKE p \in Procs \ {q}
  <2>1. CASE p # curr
    BY <1>1, <2>1, OthersKeep
  <2>2. CASE p = curr
    <3>1. p \in alive
      BY <2>2, ProcFacts DEF TypeOK
    <3>2. mem'[p] = mem[p] /\ prog'[p] = prog[p]
      BY <1>1, ForgetIs
    <3> QED
      BY <1>1, <2>2, <3>1, <3>2, CurrentStays
  <2> QED
    BY <2>1, <2>2
<1> QED
  BY <1>1, <1>2, VirtualGone

LEMMA VirtualStep ==
  ASSUME ~SelfDelete, TypeOK, WithinStack, TypeOK', WithinStack', ReadsOwn, [Next]_vars
  PROVE  [Virtual!Next]_(Virtual!vars)
<1>1. CASE Start \/ Interrupt
  BY <1>1, VirtualWake DEF Virtual!Next, Next
<1>2. CASE Execute
  BY <1>2, VirtualExecute DEF Virtual!Next, Next
<1>3. CASE CallKernel \/ CallWakes
  BY <1>3, VirtualCall DEF Virtual!Next, Next
<1>4. CASE \E q \in Procs, P \in Programs : CallCreates(q, P)
  <2> PICK q \in Procs, P \in Programs : CallCreates(q, P)
    BY <1>4
  <2>1. Next
    BY DEF Next
  <2>2. \E p \in Procs : Virtual!CallCreate(p, q, P)
    BY <2>1, VirtualCallCreate
  <2>3. P \in Programs \cup ShellPrograms
    OBVIOUS
  <2> QED
    BY <2>2, <2>3, Zenon DEF Virtual!Next
<1>5. CASE \E q \in Procs : CallDeletes(q)
  BY <1>5, VirtualCallDelete DEF Virtual!Next, Next
<1>6. CASE CallDeletesSelf \/ Quit
  BY <1>6, VirtualLeave DEF Virtual!Next, Next
<1>7. CASE Pause \/ CallWaits
  BY <1>7, VirtualWait DEF Virtual!Next, Next
<1>8. CASE \E q \in Procs, P \in ShellPrograms : ShellCreate(q, P)
  <2> PICK q \in Procs, P \in ShellPrograms : ShellCreate(q, P)
    BY <1>8
  <2>1. Next
    BY DEF Next
  <2>2. Virtual!Create(q, P)
    BY <2>1, VirtualShellCreate
  <2>3. P \in Programs \cup ShellPrograms
    OBVIOUS
  <2> QED
    BY <2>2, <2>3, Zenon DEF Virtual!Next
<1>9. CASE \E q \in Procs : ShellKill(q)
  BY <1>9, VirtualShellKill DEF Virtual!Next, Next
<1>10. CASE UNCHANGED vars
  <2>1. \A p \in Procs : MachineOf(p)' = MachineOf(p)
    <3> TAKE p \in Procs
    <3>1. CASE p # curr
      BY <1>10, <3>1, OthersKeep DEF vars
    <3>2. CASE p = curr
      <4>1. p \in alive'
        BY <1>10, <3>2, ProcFacts DEF TypeOK, vars
      <4> QED
        BY <1>10, <3>2, <4>1, CurrentStays DEF vars
    <3> QED
      BY <3>1, <3>2
  <2>2. Own' = Own
    BY <2>1 DEF Own
  <2> QED
    BY <1>10, <2>2, Zenon DEF Virtual!vars, vars, Own
<1> QED
  BY <1>1, <1>2, <1>3, <1>4, <1>5, <1>6, <1>7, <1>8, <1>9, <1>10 DEF Next

LEMMA VirtualInit == Init /\ WithinStack => Virtual!Init
<1> SUFFICES ASSUME Init, WithinStack
             PROVE  Virtual!Init
  OBVIOUS
<1>1. PICK junk \in Junk :
        LET saved == SaveContext(Loaded(IdleProgram, junk))
        IN  /\ stackTop = [p \in Procs |-> IF p = Idle THEN saved.sp ELSE 0]
            /\ mem = [p \in Procs |-> IF p = Idle THEN saved.mem ELSE [k \in Positions |-> 0]]
  BY Zenon DEF Init
<1> DEFINE m == Loaded(IdleProgram, junk)
           f == Virtual!Live(IdleProgram, Virtual!Loaded(IdleProgram, junk))
<1>2. m \in Machines
  BY LoadedType, ProgramsAssumption, DataAssumption DEF AllPrograms
<1>3. /\ alive = {Idle} /\ blocked = {} /\ curr # Idle /\ Idle \in Procs
      /\ prog = [p \in Procs |-> IdleProgram]
      /\ mem[Idle] = SaveContext(m).mem /\ stackTop[Idle] = SaveContext(m).sp
  BY <1>1, ProcFacts DEF Init
<1>4. f = Live(IdleProgram, m)
  BY SameCalls, Zenon
<1> HIDE DEF m
<1>5. stackTop[Idle] = m.sp + 10 /\ m.sp \in Int
  BY <1>2, <1>3, SaveType, CpuOfType
<1>6. /\ IdleProgram.globals \in Nat
      /\ stackTop[Idle] - 10 \in 0 .. StackWords - IdleProgram.globals - 10
      /\ MachineOf(Idle) = On(Reloaded(mem[Idle], stackTop[Idle]),
                              Seen(mem[Idle], IdleProgram.globals, stackTop[Idle] - 10))
  BY <1>3, InitTypes, MachineParts DEF Parts
<1>7. m.sp \in 0 .. StackWords - IdleProgram.globals - 10 /\ stackTop[Idle] - 10 = m.sp
  BY <1>5, <1>6
<1>8. /\ Reloaded(SaveContext(m).mem, m.sp + 10) = CpuOf(m)
      /\ \A k \in Positions : k <= m.sp \/ k > m.sp + 10 => SaveContext(m).mem[k] = m.mem[k]
  <2>1. m.sp \in 0 .. StackWords - 10
    BY <1>6, <1>7, StackAssumption
  <2> QED
    BY <1>2, <2>1, ReloadSaved
<1>9. Seen(mem[Idle], IdleProgram.globals, m.sp) = Seen(m.mem, IdleProgram.globals, m.sp)
  BY <1>3, <1>6, <1>7, <1>8, StackAssumption DEF Seen, Positions
<1>10. f \in Virtual!Fresh(IdleProgram)
  BY Zenon DEF Virtual!Fresh
<1> HIDE DEF f
<1>11. MachineOf(Idle) = f
  <2>1. Reloaded(mem[Idle], stackTop[Idle]) = CpuOf(m)
    BY <1>3, <1>5, <1>8
  <2>2. MachineOf(Idle) = On(CpuOf(m), Seen(m.mem, IdleProgram.globals, m.sp))
    BY <1>6, <1>7, <1>9, <2>1
  <2>3. Live(IdleProgram, m) = On(CpuOf(m), Seen(m.mem, IdleProgram.globals, m.sp))
    BY <1>2, <1>6, LiveIs
  <2> QED
    BY <1>4, <2>2, <2>3
<1>12. Own = [p \in Procs |-> IF p = Idle THEN f ELSE Virtual!Blank]
  BY <1>3, <1>11, BlankIs, VirtualBlank DEF Own
<1> QED
  BY <1>3, <1>10, <1>12, Zenon DEF Virtual!Init, Own

\* Every process has a processor of its own: its registers and what it can see of its
\* stack are changed by its own instructions only, and by them as if neither another
\* process nor an interrupt existed.  For all programs that keep within their stacks,
\* read what they have written or own, and delete themselves by a kernel call only
\* when register 1 of the next process is 0.
THEOREM OwnProcessorHolds ==
  ASSUME ~SelfDelete
  PROVE  Spec /\ []WithinStack /\ []ReadsOwn => OwnProcessor
<1>1. Init /\ WithinStack => Virtual!Init
  BY VirtualInit
<1>2. TypeOK /\ WithinStack /\ TypeOK' /\ WithinStack' /\ ReadsOwn /\ [Next]_vars
        => [Virtual!Next]_(Virtual!vars)
  BY VirtualStep
<1> QED
  BY <1>1, <1>2, TypeCorrect, PTL DEF Spec, OwnProcessor, Virtual!Spec
-----------------------------------------------------------------------------
(* Functions return to their callers *)

Calls == [bp: Int, sp: Int, pc: Int, top: Int]

\* On the stack of m are the frames of the calls F, one behind the other, each with the
\* place to return to in its first word and its size in its last one.
Kept(F, m) ==
  /\ \A i \in 1..Len(F) :
       /\ 0 <= F[i].sp /\ F[i].sp + 2 <= F[i].top /\ F[i].top <= m.sp
       /\ Word(m, F[i].sp + 1) = F[i].pc
       /\ Word(m, F[i].top) = 4 * (F[i].top - F[i].sp - 2)
  /\ \A i, j \in 1..Len(F) : i < j => F[i].top <= F[j].sp

\* These words are the same in m and n.
SameFrames(F, m, n) ==
  \A i \in 1..Len(F) : /\ Word(n, F[i].sp + 1) = Word(m, F[i].sp + 1)
                       /\ Word(n, F[i].top) = Word(m, F[i].top)

LEMMA CallFields ==
  ASSUME NEW F \in Seq(Calls)
  PROVE  /\ Len(F) \in Nat /\ DOMAIN F = 1..Len(F)
         /\ \A i \in 1..Len(F) : F[i].sp \in Int /\ F[i].top \in Int /\ F[i].pc \in Int
         /\ F # <<>> <=> Len(F) > 0
         /\ F # <<>> => Last(F) = F[Len(F)] /\ Len(F) \in 1..Len(F)
<1>1. Len(F) \in Nat /\ DOMAIN F = 1..Len(F)
  BY LenProperties
<1>2. \A i \in 1..Len(F) : F[i] \in Calls
  BY <1>1, SeqElement
<1>3. F # <<>> <=> Len(F) > 0
  BY <1>1, EmptySeq
<1> QED
  BY <1>1, <1>2, <1>3 DEF Calls, Last

LEMMA KeptUnder ==
  ASSUME NEW F \in Seq(Calls), NEW m, NEW n, m.sp \in Int, n.sp \in Int, Kept(F, m),
         F # <<>> => Last(F).top <= n.sp, SameFrames(F, m, n)
  PROVE  Kept(F, n)
<1>1. \A i, j \in 1..Len(F) : i < j => F[i].top <= F[j].sp
  BY DEF Kept
<1>2. ASSUME NEW i \in 1..Len(F)
      PROVE  F[i].top <= n.sp
  <2>1. F # <<>> /\ Len(F) \in Nat /\ Len(F) \in 1..Len(F) /\ Last(F) = F[Len(F)]
    BY CallFields
  <2>2. F[Len(F)].top <= n.sp
    BY <2>1
  <2>3. CASE i < Len(F)
    <3>1. F[i].top <= F[Len(F)].sp /\ F[Len(F)].sp + 2 <= F[Len(F)].top
      BY <1>1, <2>1, <2>3 DEF Kept
    <3>2. F[i].top \in Int /\ F[Len(F)].sp \in Int /\ F[Len(F)].top \in Int
      BY <2>1, CallFields
    <3> QED
      BY <2>2, <3>1, <3>2
  <2>4. CASE i = Len(F)
    BY <2>2, <2>4
  <2> QED
    BY <2>1, <2>3, <2>4
<1>3. \A i \in 1..Len(F) : /\ 0 <= F[i].sp /\ F[i].sp + 2 <= F[i].top
                           /\ Word(n, F[i].sp + 1) = F[i].pc
                           /\ Word(n, F[i].top) = 4 * (F[i].top - F[i].sp - 2)
  BY DEF Kept, SameFrames
<1> QED
  BY <1>1, <1>2, <1>3 DEF Kept

LEMMA KeptFront ==
  ASSUME NEW F \in Seq(Calls), NEW m, NEW n, m.sp \in Int, n.sp \in Int, Kept(F, m),
         F # <<>>, n.sp = Last(F).sp, SameFrames(F, m, n),
         NEW G, G = SubSeq(F, 1, Len(F) - 1)
  PROVE  G \in Seq(Calls) /\ Kept(G, n)
<1>1. Len(F) \in Nat /\ Len(F) > 0 /\ Len(F) \in 1..Len(F) /\ Last(F) = F[Len(F)]
  BY CallFields
<1>2. /\ G \in Seq(Calls) /\ Len(G) = Len(F) - 1
      /\ \A i \in 1..Len(G) : G[i] = F[i] /\ i \in 1..Len(F) /\ i < Len(F)
  <2>1. \A i \in 1..Len(F) - 1 : F[i] \in Calls
    BY <1>1, SeqElement, LenProperties
  <2>2. 1 \in Int /\ Len(F) - 1 \in Int
    BY <1>1
  <2>3. /\ G \in Seq(Calls) /\ Len(G) = IF 1 <= Len(F) - 1 THEN Len(F) - 1 - 1 + 1 ELSE 0
        /\ \A i \in 1..(Len(F) - 1 - 1 + 1) : G[i] = F[1 + i - 1]
    BY <2>1, <2>2, SubSeqProperties
  <2>4. Len(G) = Len(F) - 1
    <3> DEFINE k == Len(F)
    <3>1. k \in Nat /\ k > 0 /\ Len(G) = IF 1 <= k - 1 THEN k - 1 - 1 + 1 ELSE 0
      BY <1>1, <2>3, Zenon
    <3> HIDE DEF k
    <3>2. Len(G) = k - 1
      BY <3>1
    <3> QED
      BY <3>2 DEF k
  <2>5. \A i \in 1..Len(G) : 1 + i - 1 = i
    OBVIOUS
  <2>6. \A i \in 1..Len(G) : G[i] = F[i] /\ i \in 1..Len(F) /\ i < Len(F)
    BY <1>1, <2>3, <2>4, <2>5
  <2> QED
    BY <2>3, <2>4, <2>6
<1>3. ASSUME NEW i \in 1..Len(G)
      PROVE  /\ 0 <= G[i].sp /\ G[i].sp + 2 <= G[i].top /\ G[i].top <= n.sp
             /\ Word(n, G[i].sp + 1) = G[i].pc
             /\ Word(n, G[i].top) = 4 * (G[i].top - G[i].sp - 2)
  BY <1>1, <1>2 DEF Kept, SameFrames
<1>4. \A i, j \in 1..Len(G) : i < j => G[i].top <= G[j].sp
  BY <1>1, <1>2 DEF Kept
<1> QED
  BY <1>2, <1>3, <1>4 DEF Kept

LEMMA KeptAppend ==
  ASSUME NEW F \in Seq(Calls), NEW m, NEW n, m.sp \in Int, n.sp \in Int, Kept(F, m),
         SameFrames(F, m, n), NEW c \in Calls, c.sp = m.sp, 0 <= m.sp,
         c.sp + 2 <= c.top, c.top = n.sp, Word(n, c.sp + 1) = c.pc,
         Word(n, c.top) = 4 * (c.top - c.sp - 2),
         NEW G, G = Append(F, c)
  PROVE  G \in Seq(Calls) /\ Kept(G, n)
<1>1. Len(F) \in Nat /\ m.sp <= n.sp
  BY CallFields
<1>2. /\ G \in Seq(Calls) /\ Len(G) = Len(F) + 1 /\ G[Len(F) + 1] = c
      /\ \A i \in 1..Len(F) : G[i] = F[i]
  BY AppendProperties
<1>3. \A i \in 1..Len(F) : F[i].sp \in Int /\ F[i].top \in Int /\ F[i].top <= m.sp
  BY CallFields DEF Kept
<1>4. ASSUME NEW i \in 1..Len(G)
      PROVE  /\ 0 <= G[i].sp /\ G[i].sp + 2 <= G[i].top /\ G[i].top <= n.sp
             /\ Word(n, G[i].sp + 1) = G[i].pc
             /\ Word(n, G[i].top) = 4 * (G[i].top - G[i].sp - 2)
  <2>1. CASE i = Len(F) + 1
    BY <1>2, <2>1
  <2>2. CASE i \in 1..Len(F)
    <3>1. G[i] = F[i]
      BY <1>2, <2>2
    <3>2. /\ 0 <= F[i].sp /\ F[i].sp + 2 <= F[i].top
          /\ Word(n, F[i].sp + 1) = F[i].pc
          /\ Word(n, F[i].top) = 4 * (F[i].top - F[i].sp - 2)
      <4>1. /\ 0 <= F[i].sp /\ F[i].sp + 2 <= F[i].top
            /\ Word(m, F[i].sp + 1) = F[i].pc
            /\ Word(m, F[i].top) = 4 * (F[i].top - F[i].sp - 2)
        BY <2>2, Zenon DEF Kept
      <4>2. /\ Word(n, F[i].sp + 1) = Word(m, F[i].sp + 1)
            /\ Word(n, F[i].top) = Word(m, F[i].top)
        BY <2>2, Zenon DEF SameFrames
      <4> QED
        BY <4>1, <4>2, Zenon
    <3>3. F[i].top <= n.sp
      BY <1>1, <1>3, <2>2
    <3> QED
      BY <3>1, <3>2, <3>3
  <2> QED
    BY <1>1, <1>2, <2>1, <2>2
<1>5. ASSUME NEW i \in 1..Len(G), NEW j \in 1..Len(G), i < j
      PROVE  G[i].top <= G[j].sp
  <2>1. i \in 1..Len(F) /\ G[i] = F[i]
    BY <1>1, <1>2, <1>5
  <2>2. CASE j = Len(F) + 1
    BY <1>2, <1>3, <2>1, <2>2
  <2>3. CASE j \in 1..Len(F)
    <3>1. G[j] = F[j] /\ F[i].top <= F[j].sp
      BY <1>2, <1>5, <2>1, <2>3 DEF Kept
    <3> QED
      BY <2>1, <3>1
  <2> QED
    BY <1>1, <1>2, <2>2, <2>3
<1> QED
  BY <1>2, <1>4, <1>5 DEF Kept

LEMMA SetWordKeeps ==
  ASSUME NEW m \in Machines, NEW k \in Int, NEW v \in Int
  PROVE  /\ SetWord(m, k, v).sp = m.sp
         /\ \A j \in Int : Word(SetWord(m, k, v), j) =
                             IF j = k /\ k \in Positions THEN v ELSE Word(m, j)
<1>1. CASE k \in Positions
  <2>1. SetWord(m, k, v) = [m EXCEPT !.mem[k] = v]
    BY <1>1 DEF SetWord
  <2> QED
    BY <1>1, <2>1 DEF Machines, Word
<1>2. CASE k \notin Positions
  BY <1>2 DEF SetWord
<1> QED
  BY <1>1, <1>2

LEMMA FramedKeeps ==
  ASSUME NEW m \in Machines, NEW pc \in Int, NEW sp \in Int, NEW bp \in Int
  PROVE  /\ Framed(m, pc, sp, bp).sp = sp /\ Framed(m, pc, sp, bp).pc = pc
         /\ \A j : Word(Framed(m, pc, sp, bp), j) = Word(m, j)
BY DEF Framed, Machines, Word

LEMMA SpKeeps ==
  ASSUME NEW m \in Machines, NEW v \in Int
  PROVE  /\ [m EXCEPT !.sp = v] \in Machines /\ [m EXCEPT !.sp = v].sp = v
         /\ \A j : Word([m EXCEPT !.sp = v], j) = Word(m, j)
BY DEF Machines, Word

LEMMA PushKeeps ==
  ASSUME NEW m \in Machines, NEW v \in Int
  PROVE  /\ Push(m, v).sp = m.sp + 1
         /\ \A j \in Int : Word(Push(m, v), j) =
                             IF j = m.sp + 1 /\ j \in Positions THEN v ELSE Word(m, j)
<1> DEFINE n == SetWord(m, m.sp + 1, v)
<1>1. m.sp + 1 \in Int
  BY DEF Machines
<1>2. n \in Machines
  BY SetWordType
<1>3. \A j \in Int : Word(n, j) = IF j = m.sp + 1 /\ m.sp + 1 \in Positions THEN v ELSE Word(m, j)
  BY <1>1, SetWordKeeps
<1>4. Push(m, v) = [n EXCEPT !.sp = m.sp + 1]
  BY Zenon DEF Push
<1> HIDE DEF n
<1>5. Push(m, v) = Framed(n, n.pc, m.sp + 1, n.bp) /\ n.pc \in Int /\ n.bp \in Int
  BY <1>1, <1>2, <1>4, FramedIs
<1>6. /\ Push(m, v).sp = m.sp + 1
      /\ \A j : Word(Push(m, v), j) = Word(n, j)
  BY <1>1, <1>2, <1>5, FramedKeeps
<1> QED
  BY <1>3, <1>6

LEMMA DropKeeps ==
  ASSUME NEW m \in Machines, NEW n \in Int
  PROVE  /\ Drop(m, n).sp = m.sp - n /\ Drop(m, n).bp = m.bp
         /\ \A j : Word(Drop(m, n), j) = Word(m, j)
BY DEF Drop, Machines, Word

LEMMA StoreKeeps ==
  ASSUME NEW m \in Machines, NEW o \in Operands, NEW v \in Int
  PROVE  /\ Store(m, o, v).sp = m.sp
         /\ \A j \in Int : o.type = "REG" \/ j # At(m, StackIndex(m, o)) =>
              Word(Store(m, o, v), j) = Word(m, j)
<1>1. CASE o.type = "REG"
  <2>1. Store(m, o, v) = [m EXCEPT !.reg[o.value] = v]
    BY <1>1 DEF Store
  <2> QED
    BY <2>1 DEF Machines, Word
<1>2. CASE o.type # "REG"
  <2>1. At(m, StackIndex(m, o)) \in Int
    BY StackIndexInt, AtInt
  <2>2. Store(m, o, v) = SetWord(m, At(m, StackIndex(m, o)), v)
    BY <1>2 DEF Store
  <2> QED
    BY <1>2, <2>1, <2>2, SetWordKeeps
<1> QED
  BY <1>1, <1>2

\* The call of a function: its frame lies on what was on the stack.
LEMMA CallKeeps ==
  ASSUME NEW m \in Machines, NEW f \in [entry: Nat, size: Nat]
  PROVE  /\ Call(m, f).sp = m.sp + 2 + f.size
         /\ \A j \in Int : j <= m.sp => Word(Call(m, f), j) = Word(m, j)
         /\ 0 <= m.sp /\ m.sp + 2 + f.size <= StackWords =>
              /\ Word(Call(m, f), m.sp + 1) = m.pc
              /\ Word(Call(m, f), m.sp + 2 + f.size) = 4 * f.size
<1> DEFINE a == Push(m, m.pc)
           s == m.sp + 1 + f.size
           b == [a EXCEPT !.sp = s]
           c == Push(b, 4 * f.size)
<1>1. m.pc \in Int /\ m.sp \in Int /\ f.size \in Nat /\ f.entry \in Nat /\ s \in Int
  BY DEF Machines
<1>2. /\ a \in Machines /\ a.sp = m.sp + 1
      /\ \A j \in Int : Word(a, j) = IF j = m.sp + 1 /\ j \in Positions THEN m.pc ELSE Word(m, j)
  BY <1>1, PushType, PushKeeps
<1>3. Call(m, f) = [c EXCEPT !.bp = m.sp + 1, !.pc = f.entry * INSTR_LEN]
  <2>1. [a EXCEPT !.sp = @ + f.size] = b
    BY <1>2, Zenon
  <2> HIDE DEF b
  <2> QED
    BY <2>1, Zenon DEF Call
<1> HIDE DEF a, s
<1>4. /\ b \in Machines /\ b.sp = s
      /\ \A j : Word(b, j) = Word(a, j)
  BY <1>1, <1>2, SpKeeps
<1> HIDE DEF b
<1>5. /\ c \in Machines /\ c.sp = s + 1
      /\ \A j \in Int : Word(c, j) = IF j = s + 1 /\ j \in Positions THEN 4 * f.size ELSE Word(b, j)
  <2>1. 4 * f.size \in Int
    BY <1>1
  <2> QED
    BY <1>1, <1>4, <2>1, PushType, PushKeeps, ZenonT(30)
<1> HIDE DEF c
<1>6. /\ Call(m, f).sp = s + 1
      /\ \A j : Word(Call(m, f), j) = Word(c, j)
  <2> DEFINE pc == f.entry * INSTR_LEN
             bp == m.sp + 1
  <2>1. pc \in Int /\ bp \in Int /\ c.sp \in Int
    BY <1>1, <1>5 DEF INSTR_LEN
  <2>2. Call(m, f) = [c EXCEPT !.bp = bp, !.pc = pc]
    BY <1>3, Zenon
  <2> HIDE DEF pc, bp
  <2>3. Call(m, f) = Framed(c, pc, c.sp, bp)
    BY <1>5, <2>2, CallFrame
  <2> QED
    BY <1>5, <2>1, <2>3, FramedKeeps
<1>7. s = m.sp + 1 + f.size
  BY DEF s
<1>8. \A j \in Int : Word(Call(m, f), j) = IF j = s + 1 /\ j \in Positions THEN 4 * f.size
                                           ELSE IF j = m.sp + 1 /\ j \in Positions THEN m.pc
                                           ELSE Word(m, j)
  BY <1>2, <1>4, <1>5, <1>6
<1> QED
  BY <1>1, <1>6, <1>7, <1>8, StackAssumption DEF Positions

LEMMA RetKeeps ==
  ASSUME NEW m \in Machines
  PROVE  /\ Ret(m).sp = m.sp - 2 - Top(m) \div 4
         /\ Ret(m).pc = Word(m, m.sp - 1 - Top(m) \div 4)
         /\ \A j : Word(Ret(m), j) = Word(m, j)
<1> DEFINE n == 1 + Top(m) \div 4
           b == Drop(m, n)
           w == Word(m, b.sp - 1 - 1)
           size == 64 * (w % 16777216)
<1>1. Top(m) \in Int /\ n \in Int /\ m.sp \in Int
  <2>1. Top(m) \in Int /\ m.sp \in Int
    BY WordInt, CpuOfType DEF Top
  <2> QED
    BY <2>1
<1>2. b \in Machines /\ b.sp = m.sp - n /\ \A j : Word(b, j) = Word(m, j)
  BY <1>1, DropType, DropKeeps
<1>3. Ret(m) = Framed(b, Top(b), b.sp - 1, b.sp - 1 - 1 - size)
  BY RetIs, <1>2, SMT
<1>4. size \in Int
  <2>1. w \in Int
    BY WordInt
  <2> HIDE DEF w
  <2>2. w % 16777216 \in Int
    BY <2>1
  <2> QED
    BY <2>2
<1>5. Top(b) = Word(m, m.sp - n) /\ Top(b) \in Int
  BY <1>2, WordInt DEF Top
<1> HIDE DEF b, size
<1>6. b.sp - 1 \in Int /\ b.sp - 1 - 1 - size \in Int
  BY <1>1, <1>2, <1>4
<1>7. /\ Ret(m).sp = b.sp - 1 /\ Ret(m).pc = Top(b) /\ \A j : Word(Ret(m), j) = Word(b, j)
  BY <1>2, <1>3, <1>5, <1>6, FramedKeeps
<1>8. m.sp - n = m.sp - 1 - Top(m) \div 4
  BY <1>1
<1>9. m.sp - n - 1 = m.sp - 2 - Top(m) \div 4
  BY <1>1
<1> HIDE DEF n
<1> QED
  BY <1>2, <1>5, <1>7, <1>8, <1>9, Zenon

\* Where an instruction stores its result.
LEMMA StoresAre ==
  ASSUME NEW m, NEW I
  PROVE  /\ I.op \in ArithmeticOps => InstrStores(m, I) = {At(m, StackIndex(m, I.args[1]))}
         /\ I.op \in {"MOV", "POP"} /\ I.args[1].type # "REG" =>
              InstrStores(m, I) = {At(m, StackIndex(m, I.args[1]))}
BY Zenon DEF InstrStores

\* All the other instructions but CALL and RET leave the words in use as they were.
LEMMA InterpretedKeeps ==
  ASSUME NEW P, NEW n \in Machines, NEW I, WellFormed(P), WellFormedInstr(P, I),
         I.op \in OwnOps, I.op \notin {"CALL", "RET"}, I.op = "DIV" => Value(n, I.args[2]) # 0,
         NEW j \in Int, j <= n.sp, j \notin InstrStores(n, I)
  PROVE  Word(Interpreted(P, n, I), j) = Word(n, j)
<1>1. CASE I.op = "MOV"
  <2>1. I.args[1] \in Operands /\ I.args[2] \in Operands
    BY <1>1, SMT DEF WellFormedInstr
  <2>2. Value(n, I.args[2]) \in Int
    BY <2>1, ValueInt, SMT
  <2>3. Interpreted(P, n, I) = Store(n, I.args[1], Value(n, I.args[2]))
    BY <1>1, Cases, SMT
  <2>4. I.args[1].type = "REG" \/ j # At(n, StackIndex(n, I.args[1]))
    BY <1>1, StoresAre
  <2>5. Word(Store(n, I.args[1], Value(n, I.args[2])), j) = Word(n, j)
    BY <2>1, <2>2, <2>4, StoreKeeps
  <2> QED
    BY <2>3, <2>5, Zenon
<1>2. CASE I.op \in ArithmeticOps
  <2>1. I.args[1] \in Operands /\ I.args[2] \in Operands
    BY <1>2, SMT DEF WellFormedInstr
  <2> DEFINE k == At(n, StackIndex(n, I.args[1]))
             v == Computed(I.op, Value(n, I.args[1]), Value(n, I.args[2]))
  <2>2. k \in Int /\ j # k
    BY <1>2, <2>1, StackIndexInt, AtInt, StoresAre
  <2>3. v \in Int
    <3>1. Value(n, I.args[1]) \in Int /\ Value(n, I.args[2]) \in Int
      BY <2>1, ValueInt
    <3> QED
      BY <1>2, <3>1, ComputedInt
  <2>4. Interpreted(P, n, I) = SetWord(n, k, v)
    <3>1. Interpreted(P, n, I) = Arithmetic(n, I)
      BY <1>2, Cases, SMT
    <3> QED
      BY <3>1, Zenon DEF Arithmetic
  <2> HIDE DEF k, v
  <2>5. Word(SetWord(n, k, v), j) = Word(n, j)
    BY <2>2, <2>3, SetWordKeeps
  <2> QED
    BY <2>4, <2>5, Zenon
<1>3. CASE I.op = "JMP" \/ I.op \in JumpOps
  <2>1. \A i : Word(Jump(n, i), j) = Word(n, j)
    BY DEF Jump, Word, Machines
  <2>2. Interpreted(P, n, I) = n \/ \E i : Interpreted(P, n, I) = Jump(n, i)
    BY <1>3, Cases, SMT
  <2> QED
    BY <2>1, <2>2
<1>4. CASE I.op = "PUSH"
  <2>1. Value(n, I.args[1]) \in Int
    BY <1>4, ValueInt, SMT DEF WellFormedInstr
  <2>2. Interpreted(P, n, I) = Push(n, Value(n, I.args[1]))
    BY <1>4, Cases, SMT
  <2>3. n.sp \in Int
    BY CpuOfType
  <2>4. j # n.sp + 1
    BY <2>3
  <2>5. Word(Push(n, Value(n, I.args[1])), j) = Word(n, j)
    BY <2>1, <2>4, PushKeeps
  <2> QED
    BY <2>2, <2>5, Zenon
<1>5. CASE I.op = "POP"
  <2> DEFINE d == Drop(n, 1)
             o == I.args[1]
  <2>1. o \in Operands /\ Top(n) \in Int
    BY <1>5, WordInt, SMT DEF WellFormedInstr, Top
  <2>2. d \in Machines /\ d.bp = n.bp /\ \A i : Word(d, i) = Word(n, i)
    BY DropType, DropKeeps
  <2>3. Interpreted(P, n, I) = Store(d, o, Top(n))
    BY <1>5, Cases, SMT
  <2> HIDE DEF d
  <2>4. \A i : At(d, i) = At(n, i)
    BY <2>2, Zenon DEF At
  <2>5. StackIndex(d, o) = StackIndex(n, o)
    BY <2>2, <2>4, Zenon DEF StackIndex
  <2>6. o.type = "REG" \/ j # At(d, StackIndex(d, o))
    BY <1>5, <2>4, <2>5, StoresAre
  <2>7. Word(Store(d, o, Top(n)), j) = Word(d, j)
    BY <2>1, <2>2, <2>6, StoreKeeps
  <2> QED
    BY <2>2, <2>3, <2>7, Zenon
<1>6. CASE I.op = "IRET"
  BY <1>6, Cases, SMT
<1> QED
  BY <1>1, <1>2, <1>3, <1>4, <1>5, <1>6 DEF OwnOps

LEMMA SameUnder ==
  ASSUME NEW F \in Seq(Calls), NEW m, NEW n, m.sp \in Int, Kept(F, m),
         \A j \in Int : j <= m.sp => Word(n, j) = Word(m, j)
  PROVE  SameFrames(F, m, n)
<1> SUFFICES ASSUME NEW i \in 1..Len(F)
             PROVE  /\ Word(n, F[i].sp + 1) = Word(m, F[i].sp + 1)
                    /\ Word(n, F[i].top) = Word(m, F[i].top)
  BY DEF SameFrames
<1>1. F[i].sp \in Int /\ F[i].top \in Int
  BY CallFields
<1>2. F[i].sp + 2 <= F[i].top /\ F[i].top <= m.sp
  BY DEF Kept
<1>3. F[i].sp + 1 \in Int /\ F[i].sp + 1 <= m.sp
  BY <1>1, <1>2
<1> QED
  BY <1>1, <1>2, <1>3

LEMMA KeptLast ==
  ASSUME NEW F \in Seq(Calls), NEW m, Kept(F, m), F # <<>>
  PROVE  Last(F).top <= m.sp
BY CallFields DEF Kept

\* The frames are on the stack that the process can see.
LEMMA KeptLive ==
  ASSUME NEW F \in Seq(Calls), NEW P, P.globals \in Nat, NEW m \in Machines
  PROVE  Kept(F, m) <=> Kept(F, Live(P, m))
<1> DEFINE n == Live(P, m)
<1>1. n \in Machines /\ n.sp = m.sp /\ m.sp \in Int /\ Agree(m, n, Sees(P.globals, m.sp))
  BY LiveIs, CpuOfType
<1> HIDE DEF n
<1>2. \A j \in Int : j <= m.sp => Word(n, j) = Word(m, j)
  <2> TAKE j \in Int
  <2> HAVE j <= m.sp
  <2>1. j \in Sees(P.globals, m.sp)
    BY DEF Sees
  <2> QED
    BY <1>1, <2>1, AgreeWord
<1>3. ASSUME Kept(F, m)
      PROVE  Kept(F, n)
  BY <1>1, <1>2, <1>3, SameUnder, KeptLast, KeptUnder
<1>4. ASSUME Kept(F, n)
      PROVE  Kept(F, m)
  BY <1>1, <1>2, <1>4, SameUnder, KeptLast, KeptUnder
<1> QED
  BY <1>3, <1>4 DEF n

\* The calls that have not returned after an instruction.
Later(F, op, r, e) ==
  IF op = "CALL"
  THEN Append(F, [bp |-> r.bp, sp |-> r.sp, pc |-> r.pc + INSTR_LEN, top |-> e.sp])
  ELSE IF op = "RET" THEN SubSeq(F, 1, Len(F) - 1)
  ELSE F

\* RET goes back to where the last call was.
LEMMA RetBack ==
  ASSUME NEW r \in Machines, NEW F \in Seq(Calls), F # <<>>, Kept(F, r),
         r.sp = Last(F).top, NEW e, e = Ret(Advanced(r))
  PROVE  e.sp = Last(F).sp /\ e.pc = Last(F).pc
<1> PICK a, l, s : a = Advanced(r) /\ l = Last(F) /\ s = l.top - l.sp - 2
  OBVIOUS
<1>1. /\ a \in Machines /\ a.sp = r.sp /\ \A j : Word(a, j) = Word(r, j)
  BY AdvancedType DEF Word
<1>2. e.sp = a.sp - 2 - Top(a) \div 4 /\ e.pc = Word(a, a.sp - 1 - Top(a) \div 4)
  BY <1>1, RetKeeps
<1>3. /\ l.sp \in Int /\ l.top \in Int /\ l.top = r.sp /\ l.sp + 2 <= l.top
      /\ Word(r, l.sp + 1) = l.pc /\ Word(r, l.top) = 4 * s
  BY CallFields DEF Kept
<1>4. Top(a) = 4 * s
  BY <1>1, <1>3, Zenon DEF Top
<1>5. (4 * s) \div 4 = s /\ s \in Int
  BY <1>3
<1>6. Top(a) \div 4 = s /\ a.sp = l.top
  BY <1>1, <1>3, <1>4, <1>5, Zenon
<1>7. e.sp = l.top - 2 - s /\ a.sp - 1 - Top(a) \div 4 = l.top - 1 - s
  BY <1>2, <1>6, Zenon
<1>8. l.top - 2 - s = l.sp /\ l.top - 1 - s = l.sp + 1
  BY <1>3, SMTT(30)
<1> QED
  BY <1>1, <1>2, <1>3, <1>7, <1>8, Zenon

\* An instruction of a program that leaves frames alone: they stay on the stack, and
\* RET goes back to where the last call was.
LEMMA KeptExecuted ==
  ASSUME NEW P, WellFormed(P), NEW r \in Machines, InCode(P, r), ~Traps(P, r), 0 <= r.sp,
         NEW I, I = Fetch(P, r), I.op \in OwnOps,
         NEW F \in Seq(Calls), Kept(F, r),
         \A i \in 1..Len(F) : InstrStores(Advanced(r), I) \cap {F[i].sp + 1, F[i].top} = {},
         F # <<>> /\ I.op = "RET" => r.sp = Last(F).top,
         NEW e, e = Executed(P, r), e.sp <= StackWords,
         NEW G, G = Later(F, I.op, r, e), G # <<>> => Last(G).top <= e.sp
  PROVE  /\ G \in Seq(Calls) /\ Kept(G, e)
         /\ I.op = "RET" /\ F # <<>> => e.sp = Last(F).sp /\ e.pc = Last(F).pc
         /\ F = <<>> /\ I.op = "RET" => G = <<>>
<1> PICK a : a = Advanced(r)
  OBVIOUS
<1>1. /\ a \in Machines /\ a.sp = r.sp /\ a.pc = r.pc + INSTR_LEN
      /\ \A j : Word(a, j) = Word(r, j)
      /\ r.sp \in Int /\ r.bp \in Int /\ a.pc \in Int
  <2>1. a \in Machines /\ a.sp = r.sp /\ a.mem = r.mem
    BY AdvancedType
  <2>2. r.pc \in Int /\ r.sp \in Int /\ r.bp \in Int
    BY SMT DEF Machines
  <2>3. a.pc = r.pc + INSTR_LEN
    BY SMT DEF Advanced, Machines
  <2> QED
    BY <2>1, <2>2, <2>3 DEF Word, INSTR_LEN
<1>2. e \in Machines /\ e = Interpreted(P, a, I) /\ e.sp \in Int
  BY ExecutedType, CpuOfType, Zenon DEF Executed
<1>3. WellFormedInstr(P, I) /\ (I.op = "DIV" => Value(a, I.args[2]) # 0)
  <2>1. WellFormedInstr(P, I)
    BY Zenon DEF WellFormed, InCode, Fetch
  <2>2. I.op = "DIV" => Value(a, I.args[2]) # 0
    BY Zenon DEF Traps
  <2> QED
    BY <2>1, <2>2
<1>4. CASE I.op = "CALL"
  <2> PICK f : f = P.funcs[Value(a, I.args[1]) + 1]
    OBVIOUS
  <2>1. f \in [entry: Nat, size: Nat]
    <3>1. I.args[1].type = "FUNC_INDEX" /\ I.args[1].value + 1 \in DOMAIN P.funcs
      BY <1>3, <1>4, SMT DEF WellFormedInstr
    <3>2. Value(a, I.args[1]) = I.args[1].value
      BY <3>1, SMT DEF Value
    <3>3. P.funcs \in Seq([entry: Nat, size: Nat])
      BY SMT DEF WellFormed
    <3> QED
      BY <3>1, <3>2, <3>3, SeqElement, Zenon
  <2>2. e = Call(a, f)
    BY <1>2, <1>4, Cases, SMT
  <2>3. /\ e.sp = r.sp + 2 + f.size /\ f.size \in Nat
        /\ \A j \in Int : j <= r.sp => Word(e, j) = Word(r, j)
        /\ Word(e, r.sp + 1) = a.pc /\ Word(e, r.sp + 2 + f.size) = 4 * f.size
    <3>1. /\ e.sp = a.sp + 2 + f.size
          /\ \A j \in Int : j <= a.sp => Word(e, j) = Word(a, j)
          /\ 0 <= a.sp /\ a.sp + 2 + f.size <= StackWords =>
               /\ Word(e, a.sp + 1) = a.pc
               /\ Word(e, a.sp + 2 + f.size) = 4 * f.size
      <4>1. a \in Machines
        BY <1>1
      <4>2. /\ Call(a, f).sp = a.sp + 2 + f.size
            /\ \A j \in Int : j <= a.sp => Word(Call(a, f), j) = Word(a, j)
            /\ 0 <= a.sp /\ a.sp + 2 + f.size <= StackWords =>
                 /\ Word(Call(a, f), a.sp + 1) = a.pc
                 /\ Word(Call(a, f), a.sp + 2 + f.size) = 4 * f.size
        BY <4>1, <2>1, CallKeeps, SMTT(30)
      <4> QED
        BY <4>2, <2>2
    <3>2. f.size \in Nat
      BY <2>1
    <3>3. a.sp = r.sp /\ 0 <= r.sp /\ e.sp <= StackWords /\ \A j : Word(a, j) = Word(r, j)
      BY <1>1
    <3>4. /\ e.sp = r.sp + 2 + f.size
          /\ \A j \in Int : j <= r.sp => Word(e, j) = Word(r, j)
          /\ 0 <= r.sp /\ r.sp + 2 + f.size <= StackWords =>
               /\ Word(e, r.sp + 1) = a.pc
               /\ Word(e, r.sp + 2 + f.size) = 4 * f.size
      BY <3>1, <3>3, Zenon
    <3> QED
      BY <3>2, <3>3, <3>4, Zenon
  <2> DEFINE c == [bp |-> r.bp, sp |-> r.sp, pc |-> r.pc + INSTR_LEN, top |-> e.sp]
  <2>4. /\ c \in Calls /\ c.sp = r.sp /\ c.top = e.sp /\ c.pc = a.pc
    BY <1>1, <1>2, Zenon DEF Calls
  <2>5. G = Append(F, c)
    BY <1>4, Zenon DEF Later
  <2> HIDE DEF c
  <2>6. c.sp + 2 <= c.top /\ c.top - c.sp - 2 = f.size
    BY <1>1, <2>3, <2>4
  <2>7. SameFrames(F, r, e)
    BY <1>1, <2>3, SameUnder
  <2>8. Word(e, c.sp + 1) = c.pc /\ Word(e, c.top) = 4 * (c.top - c.sp - 2)
    BY <2>3, <2>4, <2>6
  <2>9. G \in Seq(Calls) /\ Kept(G, e)
    BY <1>1, <1>2, <2>4, <2>5, <2>6, <2>7, <2>8, KeptAppend
  <2> QED
    BY <1>4, <2>9
<1>5. CASE I.op = "RET"
  <2>1. \A j : Word(e, j) = Word(r, j)
    <3>1. e = Ret(a)
      BY <1>2, <1>5, Cases, SMT
    <3>3. \A j : Word(Ret(a), j) = Word(a, j)
      BY <1>1, RetKeeps
    <3> QED
      BY <1>1, <3>1, <3>3
  <2>2. G = SubSeq(F, 1, Len(F) - 1)
    BY <1>5, Zenon DEF Later
  <2>3. SameFrames(F, r, e)
    BY <1>1, <2>1, SameUnder
  <2>4. CASE F = <<>>
    <3>1. Len(F) = 0
      BY <2>4
    <3>2. G = <<>>
      BY <2>2, <3>1, SubSeqEmpty
    <3>3. G \in Seq(Calls) /\ Len(G) = 0
      BY <3>2
    <3>4. Kept(G, e)
      BY <3>3 DEF Kept
    <3> QED
      BY <2>4, <3>2, <3>3, <3>4
  <2>5. CASE F # <<>>
    <3>1. e = Ret(a) /\ r.sp = Last(F).top
      BY <1>2, <1>5, <2>5, Cases, SMT
    <3>2. e.sp = Last(F).sp /\ e.pc = Last(F).pc
      BY <2>5, <3>1, RetBack
    <3>3. G \in Seq(Calls) /\ Kept(G, e)
      BY <1>1, <1>2, <2>2, <2>3, <2>5, <3>2, KeptFront
    <3> QED
      BY <2>5, <3>2, <3>3
  <2> QED
    BY <2>4, <2>5
<1>6. CASE I.op \notin {"CALL", "RET"}
  <2>1. G = F
    BY <1>6 DEF Later
  <2>2. ASSUME NEW i \in 1..Len(F)
        PROVE  /\ Word(e, F[i].sp + 1) = Word(r, F[i].sp + 1)
               /\ Word(e, F[i].top) = Word(r, F[i].top)
    <3>1. F[i].sp \in Int /\ F[i].top \in Int
      BY CallFields
    <3>2. F[i].sp + 2 <= F[i].top /\ F[i].top <= r.sp
      BY DEF Kept
    <3>3. /\ F[i].sp + 1 \in Int /\ F[i].sp + 1 <= a.sp /\ F[i].top <= a.sp
          /\ F[i].sp + 1 \notin InstrStores(a, I) /\ F[i].top \notin InstrStores(a, I)
      BY <1>1, <3>1, <3>2, SMTT(30)
    <3>4. /\ Word(e, F[i].sp + 1) = Word(a, F[i].sp + 1)
          /\ Word(e, F[i].top) = Word(a, F[i].top)
      BY <1>1, <1>2, <1>3, <1>6, <3>1, <3>3, InterpretedKeeps
    <3> QED
      BY <1>1, <3>4
  <2>3. Kept(F, e)
    BY <1>1, <1>2, <2>1, <2>2, KeptUnder DEF SameFrames
  <2> QED
    BY <1>6, <2>1, <2>3
<1> QED
  BY <1>4, <1>5, <1>6

\* The inductive form of StackRestored: the frames of all the calls that have not
\* returned are on the stacks, wherever the processes are.
FramesInv ==
  /\ frames \in [Procs -> Seq(Calls)]
  /\ \A p \in alive : Kept(frames[p], MachineOf(p))

\* The first part of KeepsFrames: no frame has been popped.
FramesInUse ==
  \A p \in alive : frames[p] # <<>> => Last(frames[p]).top <= MachineOf(p).sp

LEMMA InitFrames == Init => FramesInv
<1> SUFFICES ASSUME Init  PROVE FramesInv
  OBVIOUS
<1>1. frames = [p \in Procs |-> <<>>] /\ alive = {Idle} /\ Idle \in Procs
  BY ProcFacts DEF Init
<1>2. <<>> \in Seq(Calls) /\ Len(<<>>) = 0
  OBVIOUS
<1>3. \A m : Kept(<<>>, m)
  BY <1>2 DEF Kept
<1> QED
  BY <1>1, <1>2, <1>3 DEF FramesInv

LEMMA ExecuteHistory ==
  ASSUME Execute
  PROVE  frames' = [frames EXCEPT ![curr] =
           Later(frames[curr], Fetch(prog[curr], Running).op, cpu,
                 Executed(prog[curr], Running))]
<1>1. PICK op \in OwnOps : /\ Executing(op)
                           /\ frames' = [frames EXCEPT ![curr] = History(op)]
  BY Zenon DEF Execute
<1>2. op = Fetch(prog[curr], Running).op
  BY <1>1 DEF Executing
<1>3. History(op) = Later(frames[curr], op, cpu, Executed(prog[curr], Running))
  BY Zenon DEF History, Later
<1> QED
  BY <1>1, <1>2, <1>3, Zenon

\* What the other steps do to the calls: one process may appear or disappear.
FramesBecome ==
  \/ frames' = frames /\ alive' \subseteq alive
  \/ \E p \in Procs \ {curr} : /\ frames' = [frames EXCEPT ![p] = <<>>]
                               /\ p \notin alive \/ p \notin alive'
                               /\ alive' \subseteq alive \cup {p}
  \/ /\ frames' = [frames EXCEPT ![curr] = <<>>] /\ curr \notin alive' /\ alive' \subseteq alive

LEMMA FramesStep ==
  ASSUME TypeOK, [Next]_vars, ~Execute  PROVE FramesBecome
<1>1. CASE Start \/ CallKernel \/ CallWakes \/ Interrupt \/ UNCHANGED vars
  BY <1>1 DEF Start, CallKernel, CallWakes, Interrupt, vars, FramesBecome
<1>3. CASE \E p \in Procs, P \in Programs : CallCreates(p, P)
  <2> PICK p \in Procs, P \in Programs : CallCreates(p, P)
    BY <1>3
  <2>1. p \notin alive /\ alive' = alive \cup {p} /\ Load(p, P) /\ Executing("CALLCORE")
    BY DEF CallCreates, Calling
  <2>2. p # curr /\ frames' = [frames EXCEPT ![p] = <<>>]
    BY <2>1 DEF Load, TypeOK, Executing
  <2> QED
    BY <2>1, <2>2 DEF FramesBecome
<1>4. CASE \E p \in Procs, P \in ShellPrograms : ShellCreate(p, P)
  <2> PICK p \in Procs, P \in ShellPrograms : ShellCreate(p, P)
    BY <1>4
  <2>1. p \notin alive /\ alive' = alive \cup {p} /\ Load(p, P)
    BY DEF ShellCreate
  <2>2. p # curr /\ frames' = [frames EXCEPT ![p] = <<>>]
    BY <2>1, ProcFacts DEF Load, TypeOK
  <2> QED
    BY <2>1, <2>2 DEF FramesBecome
<1>5. CASE \E p \in Procs : CallDeletes(p) \/ ShellKill(p)
  <2> PICK p \in Procs : CallDeletes(p) \/ ShellKill(p)
    BY <1>5
  <2>1. p # curr /\ alive' = alive \ {p} /\ frames' = [frames EXCEPT ![p] = <<>>]
    BY DEF CallDeletes, ShellKill, Forget
  <2> QED
    BY <2>1 DEF FramesBecome
<1>6. CASE CallDeletesSelf \/ Quit
  <2>1. alive' = alive \ {curr} /\ frames' = [frames EXCEPT ![curr] = <<>>]
    BY <1>6 DEF CallDeletesSelf, Quit, Leave, Forget
  <2> QED
    BY <1>6, <2>1 DEF FramesBecome
<1>7. CASE Pause \/ CallWaits
  BY <1>7 DEF Pause, CallWaits, Block, FramesBecome
<1> QED
  BY <1>1, <1>3, <1>4, <1>5, <1>6, <1>7 DEF Next

SamePlace(x, y) == x.pc = y.pc /\ x.bp = y.bp /\ x.sp = y.sp

\* The machine that the current process has after a step that is not one of OwnOps.
NextMachine(m) ==
  \/ SamePlace(m, Running)
  \/ Executing("CALLCORE") /\ \E r : m = Called(Running, CallName(prog[curr], Running), r)
  \/ Executing("PAUSE") /\ m = Advanced(Running)

\* The machine of the process that has the CPU, after a step in which it neither
\* executes an instruction of its own nor ends: its stack holds what it held.
LEMMA CurrentCalls ==
  ASSUME TypeOK, WithinStack, TypeOK', [Next]_vars, ~Execute,
         NEW c \in alive \cap alive', c = curr
  PROVE  \E m \in Machines :
           /\ m.mem = mem[c] /\ prog'[c].globals \in Nat /\ NextMachine(m)
           /\ WithinStack' \/ m.sp \in 0 .. StackWords - prog'[c].globals - 10 =>
                MachineOf(c)' = Live(prog'[c], m)
<1> DEFINE Becomes(m) ==
             WithinStack' \/ m.sp \in 0 .. StackWords - prog'[c].globals - 10 =>
               MachineOf(c)' = Live(prog'[c], m)
<1>1. curr # NoPcb /\ c \in Procs
  BY ProcFacts DEF TypeOK
<1>2. /\ Running \in Machines /\ Running.mem = mem[c] /\ prog[c].globals \in Nat
      /\ MachineOf(c) = Live(prog[c], Running)
  BY <1>1, CurrentIs, RunningType
<1>3. prog'[c] = prog[c]
  BY ProgStays
<1>4. prog'[c].globals \in Nat
  BY <1>2, <1>3
<1>5. ASSUME curr' = curr, mem'[c] = mem[c], NEW m \in Machines, m.mem = mem[c], cpu' = CpuOf(m)
      PROVE  Becomes(m)
  BY <1>5, CurrentBecomes
<1>6. ASSUME NEW m \in Machines, m.mem = mem[c], Block(m)
      PROVE  Becomes(m)
  <2>1. SwitchFrom(m) /\ c # Idle
    BY <1>6 DEF Block
  <2>2. mem'[c] = SaveContext(m).mem /\ stackTop'[c] = m.sp + 10
    BY <1>1, <1>6, <2>1, SwitchIs
  <2>3. curr' # c
    <3>1. PICK n \in Chosen(curr, alive, blocked) : Dispatch(n)
      BY <1>6, Zenon DEF Block
    <3>2. n # curr
      BY <2>1, <3>1, ChosenFacts DEF TypeOK
    <3> QED
      BY <3>1, <3>2 DEF Dispatch
  <2> QED
    BY <1>6, <2>2, <2>3, SavedBecomes
<1>7. ASSUME NEW r \in Int, Executing("CALLCORE"), cpu' = CallResult(r), curr' = curr,
             mem'[c] = mem[c]
      PROVE  \E m \in Machines : m.mem = mem[c] /\ NextMachine(m) /\ Becomes(m)
  <2> PICK m : m = Called(Running, CallName(prog[c], Running), r)
    OBVIOUS
  <2>1. m \in Machines /\ m.mem = mem[c]
    BY <1>2, CalledType, CalledMem, Zenon
  <2>2. cpu' = CpuOf(m)
    BY <1>7, Zenon DEF CallResult
  <2>3. NextMachine(m)
    BY <1>7, Zenon DEF NextMachine
  <2>4. Becomes(m)
    BY <1>5, <1>7, <2>1, <2>2
  <2> HIDE DEF Becomes
  <2> QED
    BY <2>1, <2>3, <2>4, Zenon
<1>8. ASSUME MachineOf(c)' = MachineOf(c)
      PROVE  \E m \in Machines : m.mem = mem[c] /\ NextMachine(m) /\ Becomes(m)
  <2>1. NextMachine(Running)
    BY Zenon DEF NextMachine, SamePlace
  <2>2. Becomes(Running)
    BY <1>2, <1>3, <1>8
  <2> HIDE DEF Becomes
  <2> QED
    BY <1>2, <2>1, <2>2, Zenon
<1> HIDE DEF Becomes
<1>9. \E m \in Machines : m.mem = mem[c] /\ NextMachine(m) /\ Becomes(m)
  <2>1. CASE Start
    BY <1>1, <2>1 DEF Start
  <2>2. CASE CallKernel \/ CallWakes
    <3>1. /\ Executing("CALLCORE") /\ curr' = curr /\ mem' = mem
          /\ \E r \in Results \cup {0} : cpu' = CallResult(r)
      BY <2>2 DEF CallKernel, CallWakes, Calling
    <3> QED
      BY <1>7, <3>1, DataAssumption
  <2>3. CASE \E q \in Procs, P \in Programs : CallCreates(q, P)
    <3> PICK q \in Procs, P \in Programs : CallCreates(q, P)
      BY <2>3
    <3>1. /\ Load(q, P) /\ curr' = curr /\ q # c /\ cpu' = CallResult(q)
          /\ Executing("CALLCORE")
      BY DEF CallCreates, Calling
    <3>2. P \in AllPrograms /\ q \in Int
      BY ProcsAssumption DEF AllPrograms
    <3>3. mem'[c] = mem[c]
      BY <1>1, <3>1, <3>2, LoadIs
    <3> QED
      BY <1>7, <3>1, <3>2, <3>3
  <2>4. CASE \E q \in Procs : CallDeletes(q)
    <3> PICK q \in Procs : CallDeletes(q)
      BY <2>4
    <3>1. /\ Forget(q) /\ curr' = curr /\ q # c /\ cpu' = CallResult(0)
          /\ Executing("CALLCORE")
      BY DEF CallDeletes, Calling
    <3>2. mem'[c] = mem[c]
      BY <1>1, <3>1, ForgetIs
    <3> QED
      BY <1>7, <3>1, <3>2
  <2>5. CASE CallDeletesSelf \/ Quit
    BY <2>5 DEF CallDeletesSelf, Quit, Leave
  <2>6. CASE Pause
    <3>1. Block(Advanced(Running)) /\ NextMachine(Advanced(Running))
      BY <2>6, Zenon DEF Pause, NextMachine
    <3>2. Advanced(Running) \in Machines /\ Advanced(Running).mem = mem[c]
      BY <1>2, AdvancedType
    <3>3. Becomes(Advanced(Running))
      BY <1>6, <3>1, <3>2
    <3> QED
      BY <3>1, <3>2, <3>3, Zenon
  <2>7. CASE CallWaits
    <3>1. /\ Block(Called(Running, "SEMPEND", 0))
          /\ Executing("CALLCORE") /\ CallName(prog[curr], Running) = "SEMPEND"
      BY <2>7 DEF CallWaits, Calling
    <3>2. Called(Running, "SEMPEND", 0) \in Machines /\ Called(Running, "SEMPEND", 0).mem = mem[c]
      BY <1>2, CalledType, CalledMem
    <3>3. NextMachine(Called(Running, "SEMPEND", 0))
      BY <3>1, Zenon DEF NextMachine
    <3>4. Becomes(Called(Running, "SEMPEND", 0))
      BY <1>6, <3>1, <3>2
    <3> QED
      BY <3>2, <3>3, <3>4, Zenon
  <2>8. CASE Interrupt
    BY <1>8, <2>8, InterruptUnnoticed
  <2>9. CASE \E q \in Procs, P \in ShellPrograms : ShellCreate(q, P)
    <3> PICK q \in Procs, P \in ShellPrograms : ShellCreate(q, P)
      BY <2>9
    <3>1. Load(q, P) /\ UNCHANGED <<curr, cpu>> /\ q # c
      BY DEF ShellCreate
    <3>2. P \in AllPrograms
      BY DEF AllPrograms
    <3>3. mem'[c] = mem[c]
      BY <1>1, <3>1, <3>2, LoadIs
    <3> QED
      BY <1>1, <1>3, <1>8, <3>1, <3>3, CurrentStays
  <2>10. CASE \E q \in Procs : ShellKill(q)
    <3> PICK q \in Procs : ShellKill(q)
      BY <2>10
    <3>1. Forget(q) /\ UNCHANGED <<curr, cpu>> /\ q # c
      BY DEF ShellKill
    <3>2. mem'[c] = mem[c]
      BY <1>1, <3>1, ForgetIs
    <3> QED
      BY <1>1, <1>3, <1>8, <3>1, <3>2, CurrentStays
  <2>11. CASE UNCHANGED vars
    <3>1. UNCHANGED <<curr, cpu>> /\ mem'[c] = mem[c]
      BY <2>11 DEF vars
    <3> QED
      BY <1>1, <1>3, <1>8, <3>1, CurrentStays
  <2> QED
    BY <2>1, <2>2, <2>3, <2>4, <2>5, <2>6, <2>7, <2>8, <2>9, <2>10, <2>11 DEF Next
<1> QED
  BY <1>4, <1>9 DEF Becomes

\* The instruction of the process that has the CPU.
LEMMA ExecuteCalls ==
  ASSUME TypeOK, WithinStack, TypeOK', WithinStack', Execute, KeepsFrames, FramesInv,
         FramesInUse', NEW c, c = curr,
         NEW F, F = frames[c], NEW G, G = frames'[c]
  PROVE  /\ c \in Procs /\ G \in Seq(Calls) /\ Kept(G, MachineOf(c)')
         /\ Executing("RET") /\ G # F => cpu'.sp = Last(F).sp /\ cpu'.pc = Last(F).pc
<1> PICK op \in OwnOps :
      /\ Executing(op) /\ ~Traps(prog[curr], Running)
      /\ cpu' = CpuOf(Executed(prog[curr], Running))
      /\ mem' = [mem EXCEPT ![curr] = Executed(prog[curr], Running).mem]
      /\ UNCHANGED <<curr, alive, blocked, prog, stackTop>>
  BY Zenon DEF Execute
<1> PICK P, r, I : P = prog[c] /\ r = Running /\ I = Fetch(P, r)
  OBVIOUS
<1> PICK e : e = Executed(P, r)
  OBVIOUS
<1>1. curr # NoPcb /\ InCode(P, r) /\ ~Traps(P, r) /\ I.op = op
  BY DEF Executing
<1>2. /\ c \in Procs /\ c \in alive /\ r \in Machines /\ WellFormed(P) /\ P.globals \in Nat
      /\ r.sp \in 0 .. StackWords - P.globals - 10
      /\ MachineOf(c) = Live(P, r)
      /\ r.sp = cpu.sp /\ r.pc = cpu.pc /\ r.bp = cpu.bp
  BY <1>1, CurrentIs, RunningType DEF Running, On
<1>3. e \in Machines /\ mem'[c] = e.mem /\ cpu' = CpuOf(e)
  BY <1>1, <1>2, ExecutedType DEF TypeOK
<1>4. /\ MachineOf(c)' = Live(P, e) /\ e.sp \in 0 .. StackWords - P.globals - 10
  <2>1. c \in alive' /\ prog' = prog /\ curr' = c
    BY <1>2
  <2> QED
    BY <1>3, <2>1, CurrentBecomes
<1>5. F \in Seq(Calls) /\ Kept(F, r)
  BY <1>2, KeptLive DEF FramesInv
<1>6. G = Later(F, I.op, r, e)
  <2>1. Later(F, I.op, cpu, e) = Later(F, I.op, r, e)
    BY <1>2, Zenon DEF Later
  <2>2. G = Later(F, I.op, cpu, e)
    BY <1>2, ExecuteHistory, Zenon DEF FramesInv
  <2> QED
    BY <2>1, <2>2
<1>7. G # <<>> => Last(G).top <= e.sp
  <2>1. ASSUME G # <<>>  PROVE Last(G).top <= MachineOf(c)'.sp
    <3>1. \A p \in alive' : frames'[p] # <<>> => Last(frames'[p]).top <= MachineOf(p)'.sp
      BY DEF FramesInUse
    <3> QED
      BY <1>2, <2>1, <3>1, Zenon
  <2>2. Live(P, e).sp = e.sp
    BY <1>2, <1>3, LiveIs
  <2> QED
    BY <1>4, <2>1, <2>2
<1>8. F # <<>> => /\ \A i \in 1..Len(F) :
                       InstrStores(Advanced(r), I) \cap {F[i].sp + 1, F[i].top} = {}
                  /\ I.op = "RET" => r.sp = Last(F).top
  <2>1. DOMAIN F = 1..Len(F)
    BY <1>5, CallFields
  <2> QED
    BY <1>1, <1>2, <2>1, Zenon DEF KeepsFrames
<1>9. \A i \in 1..Len(F) : F # <<>>
  BY <1>5, CallFields
<1>10. 0 <= r.sp /\ e.sp <= StackWords
  BY <1>2, <1>4, StackAssumption
<1>11. /\ G \in Seq(Calls) /\ Kept(G, e)
       /\ I.op = "RET" /\ F # <<>> => e.sp = Last(F).sp /\ e.pc = Last(F).pc
       /\ F = <<>> /\ I.op = "RET" => G = <<>>
  BY <1>1, <1>2, <1>5, <1>6, <1>7, <1>8, <1>9, <1>10, KeptExecuted
<1>12. Kept(G, MachineOf(c)')
  BY <1>2, <1>3, <1>4, <1>11, KeptLive
<1>13. cpu'.sp = e.sp /\ cpu'.pc = e.pc
  BY <1>3, CpuOfType
<1>14. Executing("RET") => I.op = "RET"
  BY DEF Executing
<1> QED
  BY <1>2, <1>11, <1>12, <1>13, <1>14

LEMMA FramesInvStep ==
  ASSUME TypeOK, WithinStack, KeepsFrames, TypeOK', WithinStack', FramesInUse', FramesInv,
         [Next]_vars
  PROVE  FramesInv'
<1>1. ~Execute => FramesBecome
  BY FramesStep
<1>2. curr \in Procs \cup {NoPcb} /\ alive \subseteq Procs /\ alive' \subseteq Procs
  BY DEF TypeOK
<1>3. <<>> \in Seq(Calls) /\ \A m : Kept(<<>>, m)
  BY DEF Kept
<1>4. /\ frames \in [Procs -> Seq(Calls)]
      /\ \A p \in alive : Kept(frames[p], MachineOf(p))
  BY DEF FramesInv
<1>a. \A p \in alive' : frames'[p] # <<>> => Last(frames'[p]).top <= MachineOf(p)'.sp
  BY DEF FramesInUse
<1>5. ASSUME NEW p \in alive \cap alive', p # curr, frames'[p] = frames[p]
      PROVE  Kept(frames'[p], MachineOf(p)')
  <2>1. MachineOf(p)'.sp = MachineOf(p).sp /\ MachineOf(p)'.mem = MachineOf(p).mem
    BY <1>5, Others
  <2>2. \A F, m, n : n.sp = m.sp /\ n.mem = m.mem /\ Kept(F, m) => Kept(F, n)
    BY DEF Kept, Word
  <2> QED
    BY <1>4, <1>5, <2>1, <2>2
<1>6. ASSUME NEW p \in alive \cap alive', p = curr, frames'[p] = frames[p], ~Execute
      PROVE  Kept(frames'[p], MachineOf(p)')
  <2> PICK F : F = frames[p]
    OBVIOUS
  <2>1. p \in Procs /\ curr # NoPcb /\ F \in Seq(Calls) /\ Kept(F, MachineOf(p))
    BY <1>2, <1>4, <1>6, ProcFacts
  <2>2. /\ Running \in Machines /\ Running.mem = mem[p] /\ prog[p].globals \in Nat
        /\ MachineOf(p) = Live(prog[p], Running)
    BY <1>6, <2>1, CurrentIs, RunningType
  <2>3. PICK m \in Machines : /\ m.mem = mem[p] /\ prog'[p].globals \in Nat
                              /\ MachineOf(p)' = Live(prog'[p], m)
    BY <1>6, CurrentCalls
  <2>4. Kept(F, Running)
    BY <2>1, <2>2, KeptLive
  <2>5. SameFrames(F, Running, m)
    BY <2>2, <2>3 DEF SameFrames, Word
  <2>6. F # <<>> => Last(F).top <= m.sp
    <3>1. Live(prog'[p], m).sp = m.sp
      BY <2>3, LiveIs
    <3> QED
      BY <1>a, <1>6, <2>3, <3>1
  <2>7. m.sp \in Int /\ Running.sp \in Int
    BY <2>2, CpuOfType
  <2>8. Kept(F, m)
    BY <2>1, <2>4, <2>5, <2>6, <2>7, KeptUnder
  <2>9. Kept(F, Live(prog'[p], m))
    BY <2>1, <2>3, <2>8, KeptLive
  <2> QED
    BY <1>6, <2>3, <2>9
<1>7. CASE ~Execute /\ frames' = frames /\ alive' \subseteq alive
  <2>1. \A p \in alive' : Kept(frames'[p], MachineOf(p)')
    BY <1>5, <1>6, <1>7
  <2> QED
    BY <1>4, <1>7, <2>1 DEF FramesInv
<1>8. CASE Execute
  <2> PICK c : c = curr
    OBVIOUS
  <2>1. c \in Procs /\ frames'[c] \in Seq(Calls) /\ Kept(frames'[c], MachineOf(c)')
    BY <1>8, ExecuteCalls
  <2>2. frames' \in [Procs -> Seq(Calls)] /\ \A p \in Procs \ {c} : frames'[p] = frames[p]
    BY <1>4, <1>8, <2>1, ExecuteHistory
  <2>3. alive' = alive
    BY <1>8 DEF Execute
  <2>4. \A p \in alive' : Kept(frames'[p], MachineOf(p)')
    BY <1>2, <1>5, <2>1, <2>2, <2>3
  <2> QED
    BY <2>2, <2>4 DEF FramesInv
<1>9. CASE /\ ~Execute
           /\ \E q \in Procs \ {curr} : /\ frames' = [frames EXCEPT ![q] = <<>>]
                                        /\ q \notin alive \/ q \notin alive'
                                        /\ alive' \subseteq alive \cup {q}
  <2> PICK q \in Procs \ {curr} : /\ frames' = [frames EXCEPT ![q] = <<>>]
                                  /\ q \notin alive \/ q \notin alive'
                                  /\ alive' \subseteq alive \cup {q}
    BY <1>9
  <2>1. /\ frames' \in [Procs -> Seq(Calls)] /\ frames'[q] = <<>>
        /\ \A p \in Procs \ {q} : frames'[p] = frames[p]
    BY <1>3, <1>4
  <2>4. \A p \in alive' : Kept(frames'[p], MachineOf(p)')
    BY <1>2, <1>3, <1>5, <1>6, <1>9, <2>1
  <2> QED
    BY <2>1, <2>4 DEF FramesInv
<1>10. CASE /\ frames' = [frames EXCEPT ![curr] = <<>>] /\ curr \notin alive'
            /\ alive' \subseteq alive
  <2>1. frames' \in [Procs -> Seq(Calls)] /\ \A p \in alive' : p # curr /\ frames'[p] = frames[p]
    BY <1>2, <1>3, <1>4, <1>10
  <2>2. \A p \in alive' : Kept(frames'[p], MachineOf(p)')
    BY <1>5, <1>10, <2>1
  <2> QED
    BY <2>1, <2>2 DEF FramesInv
<1> QED
  BY <1>1, <1>7, <1>8, <1>9, <1>10, Zenon DEF FramesBecome

\* The property of a step.
RetReturns ==
  Executing("RET") /\ frames'[curr] # frames[curr] =>
    LET call == Last(frames[curr])
    IN  cpu'.sp = call.sp /\ cpu'.pc = call.pc

\* Only a process that asks for it ends while it has the CPU.
LEMMA KeepsRunning ==
  ASSUME TypeOK, [Next]_vars, ~CallDeletesSelf, ~Quit, curr # NoPcb
  PROVE  curr \in alive'
<1>1. curr \in alive
  BY DEF TypeOK
<1> QED
  BY <1>1 DEF Next, Start, Execute, CallKernel, CallWakes, CallCreates, CallDeletes, Pause,
     CallWaits, Block, Interrupt, ShellCreate, ShellKill, vars

LEMMA RetStep ==
  ASSUME TypeOK, WithinStack, KeepsFrames, TypeOK', WithinStack', FramesInUse', FramesInv,
         [Next]_vars
  PROVE  RetReturns
<1> SUFFICES ASSUME Executing("RET"), frames'[curr] # frames[curr]
             PROVE  cpu'.sp = Last(frames[curr]).sp /\ cpu'.pc = Last(frames[curr]).pc
  BY DEF RetReturns
<1>1. curr # NoPcb /\ Fetch(prog[curr], Running).op = "RET"
  BY DEF Executing
<1>2. CASE Execute
  BY <1>2, ExecuteCalls
<1>3. CASE ~Execute
  <2>1. ~CallDeletesSelf /\ ~Quit
    BY <1>1 DEF CallDeletesSelf, Quit, Calling, Executing
  <2>2. curr \in Procs /\ frames \in [Procs -> Seq(Calls)]
    BY <1>1 DEF TypeOK, FramesInv
  <2>3. FramesBecome
    BY <1>3, FramesStep
  <2>4. curr \in alive'
    BY <1>1, <1>3, <2>1, KeepsRunning
  <2> QED
    BY <2>2, <2>3, <2>4 DEF FramesBecome
<1> QED
  BY <1>2, <1>3

\* A function returns with the stack and at the place of its call, however often the
\* process has lost the CPU since: for all programs that keep within their stacks and
\* leave the frames of their functions alone, whatever else they do.
THEOREM StackRestoredHolds ==
  Spec /\ []WithinStack /\ []KeepsFrames => StackRestored
<1>1. Init => FramesInv
  BY InitFrames
<1>a. KeepsFrames => FramesInUse
  BY DEF KeepsFrames, FramesInUse
<1>2. TypeOK /\ WithinStack /\ KeepsFrames /\ TypeOK' /\ WithinStack' /\ FramesInUse'
        /\ FramesInv /\ [Next]_vars => FramesInv'
  BY FramesInvStep
<1>3. TypeOK /\ WithinStack /\ KeepsFrames /\ TypeOK' /\ WithinStack' /\ FramesInUse'
        /\ FramesInv /\ [Next]_vars => [RetReturns]_vars
  BY RetStep
<1> QED
  BY <1>1, <1>a, <1>2, <1>3, TypeCorrect, PTL DEF Spec, StackRestored, RetReturns
=============================================================================
