---------------------------- MODULE OutlineProofs ----------------------------
(***************************************************************************)
(* Programs with an outline (module Outlines) keep within their stack,     *)
(* read what they own, leave the frames of their functions alone and       *)
(* execute nothing but their code, whatever the other processes do and     *)
(* wherever they are interrupted.                                          *)
(***************************************************************************)
EXTENDS Outlines, ProcessorProofs

-----------------------------------------------------------------------------
(* Where a process stands in its outline *)

\* The instruction at the PC of x, and its line.
LineNo(x)  == x.pc \div INSTR_LEN + 1
Here(N, x) == N.lines[LineNo(x)]

\* What is on the stack under the function that the last of j calls has entered.
Base(F, j) == IF j = 0 THEN 0 ELSE F[j].sp

\* x has the PC and SP of that function as its line says.
Stands(P, N, F, j, x) ==
  /\ LineNo(x) \in DOMAIN N.lines
  /\ Base(F, j) \in Nat
  /\ x.sp = Base(F, j) + Here(N, x).words
  /\ Base(F, j) + N.room[Here(N, x).func] + P.globals + ContextWords <= StackWords
  /\ Here(N, x).func = MainFunc(P) <=> j = 0
  /\ j > 0 => F[j].top = F[j].sp + Frame(P, Here(N, x).func)

\* The machine m stands at a line, and so does each of the callers F, which will find
\* their stack as they left it, but not BP.
OnOutline(P, N, F, m) ==
  /\ F \in Seq(Calls)
  /\ Stands(P, N, F, Len(F), m)
  /\ Here(N, m).bp => m.bp = Base(F, Len(F)) + 1
  /\ \A j \in 0 .. Len(F) - 1 : Stands(P, N, F, j, F[j + 1]) /\ ~Here(N, F[j + 1]).bp

LEMMA LineFacts ==
  ASSUME NEW P, NEW N, WellFormed(P), Outlines(N, P), NEW i \in DOMAIN N.lines,
         NEW l, l = N.lines[i]
  PROVE  /\ i \in DOMAIN P.code /\ WellFormedInstr(P, P.code[i])
         /\ l.func \in DOMAIN P.funcs /\ P.funcs[l.func] \in [entry: Nat, size: Nat]
         /\ l.words \in Nat /\ l.bp \in BOOLEAN
         /\ Frame(P, l.func) = P.funcs[l.func].size + 2 /\ Frame(P, l.func) \in Nat
         /\ Frame(P, l.func) <= l.words /\ l.words <= N.room[l.func]
         /\ N.room[l.func] \in Nat /\ P.globals \in Nat
         /\ KeepsToLine(P, N, i)
<1>1. /\ i \in DOMAIN P.code /\ l.func \in DOMAIN P.funcs
      /\ l.words \in Nat /\ l.bp \in BOOLEAN
      /\ Frame(P, l.func) <= l.words /\ l.words <= N.room[l.func]
      /\ KeepsToLine(P, N, i)
      /\ N.room[l.func] \in Nat
  BY Zenon DEF Outlines
<1>2. /\ WellFormedInstr(P, P.code[i]) /\ P.globals \in Nat
      /\ P.funcs \in Seq([entry: Nat, size: Nat])
  BY <1>1, Zenon DEF WellFormed
<1>3. P.funcs[l.func] \in [entry: Nat, size: Nat]
  BY <1>1, <1>2, SeqElement, Zenon
<1>4. Frame(P, l.func) = P.funcs[l.func].size + 2
  BY Zenon DEF Frame
<1>5. P.funcs[l.func].size + 2 \in Nat
  BY <1>3
<1> QED
  BY <1>1, <1>2, <1>3, <1>4, <1>5, Zenon

\* A machine that stands at a line is within its stack, above the frame it executes.
LEMMA StandsWithin ==
  ASSUME NEW P, NEW N, WellFormed(P), Outlines(N, P), NEW F, NEW j, NEW x,
         Stands(P, N, F, j, x)
  PROVE  /\ x.sp \in Nat /\ x.sp \in 0 .. StackWords - P.globals - 10
         /\ Base(F, j) \in Nat /\ Base(F, j) + Frame(P, Here(N, x).func) <= x.sp
<1> PICK l : l = Here(N, x)
  OBVIOUS
<1>1. /\ l.words \in Nat /\ Frame(P, l.func) \in Nat /\ Frame(P, l.func) <= l.words
      /\ l.words <= N.room[l.func] /\ N.room[l.func] \in Nat /\ P.globals \in Nat
  <2>1. PICK i : i \in DOMAIN N.lines /\ l = N.lines[i]
    BY Zenon DEF Stands, Here
  <2>2. /\ l.words \in Nat /\ l.words <= N.room[l.func] /\ N.room[l.func] \in Nat
        /\ Frame(P, l.func) <= l.words
    BY <2>1, Zenon DEF Outlines
  <2>3. Frame(P, l.func) \in Nat /\ P.globals \in Nat
    BY <2>1, LineFacts, Zenon
  <2> QED
    BY <2>2, <2>3, Zenon
<1>2. /\ Base(F, j) \in Nat /\ x.sp = Base(F, j) + l.words
      /\ Base(F, j) + N.room[l.func] + P.globals + 10 <= StackWords
  BY Zenon DEF Stands, ContextWords
<1> QED
  BY <1>1, <1>2, StackAssumption

\* The places of the first calls do not depend on the later ones.
LEMMA StandsSame ==
  ASSUME NEW P, NEW N, NEW F, NEW G, NEW j \in Nat, NEW x, Stands(P, N, F, j, x),
         j > 0 => G[j] = F[j]
  PROVE  Stands(P, N, G, j, x)
<1>1. Base(G, j) = Base(F, j)
  BY DEF Base
<1> QED
  BY <1>1 DEF Stands

\* Within a function, control goes on from one line to another.
LEMMA StandsOn ==
  ASSUME NEW P, NEW N, WellFormed(P), Outlines(N, P), NEW F, NEW j, NEW x, NEW y,
         Stands(P, N, F, j, x), NEW w, NEW b,
         GoesOn(N, Here(N, x), LineNo(y), w, b),
         y.sp = x.sp + (w - Here(N, x).words)
  PROVE  /\ Stands(P, N, F, j, y)
         /\ Here(N, y).bp => b
         /\ Here(N, y).func = Here(N, x).func /\ Here(N, y).words = w
<1> PICK l, k : l = Here(N, x) /\ k = Here(N, y)
  OBVIOUS
<1>1. LineNo(x) \in DOMAIN N.lines /\ l = N.lines[LineNo(x)]
  BY Zenon DEF Stands, Here
<1>2. LineNo(y) \in DOMAIN N.lines /\ k.func = l.func /\ k.words = w /\ (k.bp => b)
  BY Zenon DEF GoesOn, Here
<1>3. l.words \in Nat /\ k.words \in Nat
  BY <1>1, <1>2, Zenon DEF Here, Outlines
<1>4. Base(F, j) \in Nat /\ x.sp = Base(F, j) + l.words
  BY Zenon DEF Stands
<1>5. y.sp = Base(F, j) + k.words
  BY <1>2, <1>3, <1>4
<1>6. Stands(P, N, F, j, y)
  BY <1>2, <1>5, Zenon DEF Stands
<1> QED
  BY <1>2, <1>6, Zenon
-----------------------------------------------------------------------------
(* What the instructions do to PC, BP and SP *)

LEMMA PlaceType ==
  ASSUME NEW m \in Machines  PROVE m.pc \in Int /\ m.bp \in Int /\ m.sp \in Int
BY SMT DEF Machines

LEMMA SetWordPlace ==
  ASSUME NEW m \in Machines, NEW k, NEW v  PROVE SamePlace(SetWord(m, k, v), m)
BY DEF SamePlace, SetWord, Machines

LEMMA StorePlace ==
  ASSUME NEW m \in Machines, NEW o, NEW v  PROVE SamePlace(Store(m, o, v), m)
<1>1. CASE o.type = "REG"
  BY <1>1 DEF Store, SamePlace, Machines
<1>2. CASE o.type # "REG"
  BY <1>2, SetWordPlace DEF Store
<1> QED
  BY <1>1, <1>2

LEMMA DropPlace ==
  ASSUME NEW m \in Machines, NEW n
  PROVE  Drop(m, n).pc = m.pc /\ Drop(m, n).bp = m.bp /\ Drop(m, n).sp = m.sp - n
BY DEF Drop, Machines

LEMMA PushPlace ==
  ASSUME NEW m \in Machines, NEW v \in Int
  PROVE  Push(m, v).pc = m.pc /\ Push(m, v).bp = m.bp /\ Push(m, v).sp = m.sp + 1
<1> DEFINE n == SetWord(m, m.sp + 1, v)
<1>1. n \in Machines /\ SamePlace(n, m)
  BY SetWordType, SetWordPlace
<1>2. Push(m, v) = [n EXCEPT !.sp = m.sp + 1]
  BY Zenon DEF Push
<1> HIDE DEF n
<1> QED
  BY <1>1, <1>2 DEF SamePlace, Machines

LEMMA JumpPlace ==
  ASSUME NEW m \in Machines, NEW t
  PROVE  /\ Jump(m, t).pc = t * INSTR_LEN
         /\ Jump(m, t).bp = m.bp /\ Jump(m, t).sp = m.sp
BY DEF Jump, Machines

LEMMA AdvancedPlace ==
  ASSUME NEW m \in Machines
  PROVE  /\ Advanced(m).pc = m.pc + INSTR_LEN
         /\ Advanced(m).bp = m.bp /\ Advanced(m).sp = m.sp
BY DEF Advanced, Machines

LEMMA CallPlace ==
  ASSUME NEW m \in Machines, NEW f \in [entry: Nat, size: Nat]
  PROVE  /\ Call(m, f).pc = f.entry * INSTR_LEN
         /\ Call(m, f).bp = m.sp + 1 /\ Call(m, f).sp = m.sp + 2 + f.size
<1> DEFINE framed == [Push(m, m.pc) EXCEPT !.sp = @ + f.size]
           c == Push(framed, 4 * f.size)
<1>1. Push(m, m.pc) \in Machines
  BY PushType DEF Machines
<1>2. framed \in Machines
  BY <1>1 DEF Machines
<1> HIDE DEF framed
<1>3. c \in Machines
  <2>1. 4 * f.size \in Int
    OBVIOUS
  <2> QED
    BY <1>2, <2>1, PushType
<1>4. Call(m, f) = [c EXCEPT !.bp = m.sp + 1, !.pc = f.entry * INSTR_LEN]
  BY Zenon DEF Call, framed
<1> HIDE DEF c
<1>5. Call(m, f).pc = f.entry * INSTR_LEN /\ Call(m, f).bp = m.sp + 1
  BY <1>3, <1>4 DEF Machines
<1> QED
  BY <1>5, CallKeeps

LEMMA CalledPlace ==
  ASSUME NEW m \in Machines, NEW name, NEW r
  PROVE  /\ Called(m, name, r).pc = m.pc + INSTR_LEN
         /\ Called(m, name, r).bp = m.bp /\ Called(m, name, r).sp = m.sp - Pops(name)
<1> DEFINE n == Drop(Advanced(m), Pops(name))
<1>1. Advanced(m) \in Machines /\ Pops(name) \in Int
  BY AdvancedType, PopsNat
<1>2. n \in Machines
  BY <1>1, DropType
<1>3. n.pc = m.pc + INSTR_LEN /\ n.bp = m.bp /\ n.sp = m.sp - Pops(name)
  BY <1>1, DropPlace, AdvancedPlace
<1> HIDE DEF n
<1>4. SamePlace([n EXCEPT !.reg[1] = r], n)
  BY <1>2 DEF SamePlace, Machines
<1>5. Called(m, name, r) = IF name \in HasResult THEN [n EXCEPT !.reg[1] = r] ELSE n
  BY Zenon DEF Called, n
<1> QED
  BY <1>3, <1>4, <1>5 DEF SamePlace

\* The lines that the machine goes on to.
LEMMA NextLine ==
  ASSUME NEW x, NEW y, x.pc \in Int, y.pc = x.pc + INSTR_LEN
  PROVE  LineNo(y) = LineNo(x) + 1
BY DEF LineNo, INSTR_LEN

LEMMA TargetLine ==
  ASSUME NEW t \in Int, NEW y, y.pc = t * INSTR_LEN
  PROVE  LineNo(y) = t + 1
BY DEF LineNo, INSTR_LEN
-----------------------------------------------------------------------------
(* The instructions keep a program on its outline *)

\* What the outline says of the instruction that is executed next.
LEMMA Kind ==
  ASSUME NEW P, NEW N, WellFormed(P), Outlines(N, P), NEW x, LineNo(x) \in DOMAIN N.lines,
         NEW I, I = Fetch(P, x), NEW l, l = Here(N, x), NEW k, k = LineNo(x) + 1
  PROVE  /\ InCode(P, x) /\ WellFormedInstr(P, I)
         /\ I.op \in {"MOV", "IRET", "PAUSE"} \cup ArithmeticOps \cup JumpOps =>
              GoesOn(N, l, k, l.words, l.bp)
         /\ I.op = "JMP" => /\ I.args[1].type = "INSTR_INDEX"
                            /\ GoesOn(N, l, I.args[1].value + 1, l.words, l.bp)
         /\ I.op \in JumpOps => /\ I.args[3].type = "INSTR_INDEX"
                                /\ GoesOn(N, l, I.args[3].value + 1, l.words, l.bp)
         /\ I.op = "PUSH" => GoesOn(N, l, k, l.words + 1, l.bp)
         /\ I.op = "POP"  => GoesOn(N, l, k, l.words - 1, l.bp)
         /\ I.op = "CALLCORE" => GoesOn(N, l, k, l.words - Pops(I.args[1].value), l.bp)
         /\ I.op = "RET" => l.words = Frame(P, l.func) /\ l.func # MainFunc(P)
<1> PICK i : i = LineNo(x)
  OBVIOUS
<1>1. i \in DOMAIN N.lines /\ I = P.code[i] /\ l = N.lines[i] /\ k = i + 1
  BY Zenon DEF Fetch, LineNo, Here
<1>2. i \in DOMAIN P.code /\ WellFormedInstr(P, I) /\ KeepsToLine(P, N, i)
  BY <1>1, LineFacts, Zenon
<1>3. InCode(P, x)
  BY <1>2, Zenon DEF InCode, LineNo
<1>4. I.op \in {"MOV", "IRET", "PAUSE"} \cup ArithmeticOps \cup JumpOps =>
        GoesOn(N, l, k, l.words, l.bp)
  BY <1>1, <1>2, Zenon DEF KeepsToLine
<1>5. I.op = "JMP" => /\ I.args[1].type = "INSTR_INDEX"
                      /\ GoesOn(N, l, I.args[1].value + 1, l.words, l.bp)
  BY <1>1, <1>2, Zenon DEF KeepsToLine, IsTarget
<1>6. I.op \in JumpOps => /\ I.args[3].type = "INSTR_INDEX"
                         /\ GoesOn(N, l, I.args[3].value + 1, l.words, l.bp)
  BY <1>1, <1>2, Zenon DEF KeepsToLine, IsTarget
<1>7. /\ I.op = "PUSH" => GoesOn(N, l, k, l.words + 1, l.bp)
      /\ I.op = "POP"  => GoesOn(N, l, k, l.words - 1, l.bp)
      /\ I.op = "CALLCORE" => GoesOn(N, l, k, l.words - Pops(I.args[1].value), l.bp)
      /\ I.op = "RET" => l.words = Frame(P, l.func) /\ l.func # MainFunc(P)
  BY <1>1, <1>2, Zenon DEF KeepsToLine
<1> QED
  BY <1>2, <1>3, <1>4, <1>5, <1>6, <1>7

\* ... and of a call.
LEMMA CallKind ==
  ASSUME NEW P, NEW N, WellFormed(P), Outlines(N, P), NEW x, LineNo(x) \in DOMAIN N.lines,
         NEW I, I = Fetch(P, x), I.op = "CALL", NEW l, l = Here(N, x)
  PROVE  /\ I.args[1].type = "FUNC_INDEX" /\ I.args[1].value + 1 \in DOMAIN P.funcs
         /\ Enters(P, N, l, I.args[1].value + 1)
         /\ ReturnsTo(N, l, LineNo(x) + 1)
<1> PICK i : i = LineNo(x)
  OBVIOUS
<1>1. i \in DOMAIN N.lines /\ I = P.code[i] /\ l = N.lines[i]
  BY Zenon DEF Fetch, LineNo, Here
<1>2. WellFormedInstr(P, I) /\ KeepsToLine(P, N, i)
  BY <1>1, Zenon DEF WellFormed, Outlines
<1>3. I.args[1].type = "FUNC_INDEX" /\ I.args[1].value + 1 \in DOMAIN P.funcs
  BY <1>2, SMT DEF WellFormedInstr
<1>4. /\ Enters(P, N, l, I.args[1].value + 1)
      /\ ReturnsTo(N, l, i + 1)
  BY <1>1, <1>2, Zenon DEF KeepsToLine
<1> QED
  BY <1>3, <1>4, Zenon

\* Within its function, the machine stays on the outline.
LEMMA OutlinedOn ==
  ASSUME NEW P, NEW N, WellFormed(P), Outlines(N, P), NEW F, NEW r, NEW e,
         OnOutline(P, N, F, r), NEW w, NEW b, GoesOn(N, Here(N, r), LineNo(e), w, b),
         e.sp = r.sp + (w - Here(N, r).words), b => Here(N, r).bp /\ e.bp = r.bp
  PROVE  OnOutline(P, N, F, e)
<1>1. Stands(P, N, F, Len(F), r) /\ (Here(N, r).bp => r.bp = Base(F, Len(F)) + 1)
  BY Zenon DEF OnOutline
<1>2. Stands(P, N, F, Len(F), e) /\ (Here(N, e).bp => b)
  BY <1>1, StandsOn
<1> QED
  BY <1>1, <1>2, Zenon DEF OnOutline

\* ... and so does a machine in the same place.
LEMMA OutlinedSame ==
  ASSUME NEW P, NEW N, NEW F, NEW r, NEW e, OnOutline(P, N, F, r), SamePlace(e, r)
  PROVE  OnOutline(P, N, F, e)
<1>1. LineNo(e) = LineNo(r) /\ Here(N, e) = Here(N, r) /\ e.sp = r.sp /\ e.bp = r.bp
  BY Zenon DEF LineNo, Here, SamePlace
<1>2. Stands(P, N, F, Len(F), e)
  BY <1>1, Zenon DEF OnOutline, Stands
<1> QED
  BY <1>1, <1>2, Zenon DEF OnOutline

\* PC, BP and SP after an instruction that neither calls nor returns.
LEMMA InterpretedPlace ==
  ASSUME NEW P, NEW n \in Machines, NEW I, WellFormed(P), WellFormedInstr(P, I),
         I.op \in OwnOps, I.op \notin {"CALL", "RET"}, NEW e, e = Interpreted(P, n, I)
  PROVE  /\ I.op \in {"MOV", "IRET"} \cup ArithmeticOps => SamePlace(e, n)
         /\ I.op = "PUSH" => e.pc = n.pc /\ e.bp = n.bp /\ e.sp = n.sp + 1
         /\ I.op = "POP"  => e.pc = n.pc /\ e.bp = n.bp /\ e.sp = n.sp - 1
         /\ I.op = "JMP" => /\ e.pc = Value(n, I.args[1]) * INSTR_LEN
                            /\ e.bp = n.bp /\ e.sp = n.sp
         /\ I.op \in JumpOps => /\ e.pc \in {n.pc, Value(n, I.args[3]) * INSTR_LEN}
                                /\ e.bp = n.bp /\ e.sp = n.sp
<1>1. ASSUME I.op \in {"MOV", "IRET"} \cup ArithmeticOps  PROVE SamePlace(e, n)
  <2>1. \/ e = n \/ \E v : e = Store(n, I.args[1], v) \/ \E k, w : e = SetWord(n, k, w)
    <3>1. CASE I.op = "MOV"
      BY <3>1, Cases, SMT
    <3>2. CASE I.op \in ArithmeticOps
      <4>1. e = Arithmetic(n, I)
        BY <3>2, Cases, SMT
      <4> QED
        BY <4>1, Zenon DEF Arithmetic
    <3>3. CASE I.op = "IRET"
      BY <3>3, Cases, SMT
    <3> QED
      BY <1>1, <3>1, <3>2, <3>3
  <2>2. SamePlace(e, n)
    BY <2>1, StorePlace, SetWordPlace DEF SamePlace
  <2> QED
    BY <2>2
<1>2. ASSUME I.op = "PUSH"  PROVE e.pc = n.pc /\ e.bp = n.bp /\ e.sp = n.sp + 1
  <2>1. Value(n, I.args[1]) \in Int
    BY <1>2, ValueInt, SMT DEF WellFormedInstr
  <2>2. e = Push(n, Value(n, I.args[1]))
    BY <1>2, Cases, SMT
  <2>3. e.pc = n.pc /\ e.bp = n.bp /\ e.sp = n.sp + 1
    BY <2>1, <2>2, PushPlace
  <2> QED
    BY <2>3
<1>3. ASSUME I.op = "POP"  PROVE e.pc = n.pc /\ e.bp = n.bp /\ e.sp = n.sp - 1
  <2>1. e = Store(Drop(n, 1), I.args[1], Top(n))
    BY <1>3, Cases, SMT
  <2>2. Drop(n, 1) \in Machines
    BY DropType
  <2>3. SamePlace(e, Drop(n, 1))
    BY <2>1, <2>2, StorePlace
  <2>4. e.pc = n.pc /\ e.bp = n.bp /\ e.sp = n.sp - 1
    BY <2>3, DropPlace DEF SamePlace
  <2> QED
    BY <2>4
<1>4. ASSUME I.op = "JMP"
      PROVE  e.pc = Value(n, I.args[1]) * INSTR_LEN /\ e.bp = n.bp /\ e.sp = n.sp
  <2> PICK t : t = Value(n, I.args[1])
    OBVIOUS
  <2>1. e = Jump(n, t)
    BY <1>4, Cases, SMT
  <2>2. e.pc = t * INSTR_LEN /\ e.bp = n.bp /\ e.sp = n.sp
    BY <2>1, JumpPlace, SMT
  <2> QED
    BY <2>2, Zenon
<1>5. ASSUME I.op \in JumpOps
      PROVE  e.pc \in {n.pc, Value(n, I.args[3]) * INSTR_LEN} /\ e.bp = n.bp /\ e.sp = n.sp
  <2> PICK t : t = Value(n, I.args[3])
    OBVIOUS
  <2>1. e = n \/ e = Jump(n, t)
    BY <1>5, Cases, SMT
  <2>2. e.pc \in {n.pc, t * INSTR_LEN} /\ e.bp = n.bp /\ e.sp = n.sp
    BY <2>1, JumpPlace, SMT
  <2> QED
    BY <2>2, Zenon
<1> QED
  BY <1>1, <1>2, <1>3, <1>4, <1>5, Zenon

LEMMA LiteralValue ==
  ASSUME NEW m, NEW o, o.type \in {"INSTR_INDEX", "FUNC_INDEX"}  PROVE Value(m, o) = o.value
BY SMT DEF Value

LEMMA OutlinedOwn ==
  ASSUME NEW P, NEW N, WellFormed(P), Outlines(N, P), NEW F, NEW r \in Machines,
         OnOutline(P, N, F, r), NEW I, I = Fetch(P, r), I.op \in OwnOps,
         I.op \notin {"CALL", "RET"}, NEW e, e = Executed(P, r)
  PROVE  OnOutline(P, N, F, e)
<1> PICK a, l : a = Advanced(r) /\ l = Here(N, r)
  OBVIOUS
<1>1. LineNo(r) \in DOMAIN N.lines
  BY Zenon DEF OnOutline, Stands
<1>2. l.words \in Nat
  BY <1>1, Zenon DEF Here, Outlines
<1>3. /\ a \in Machines /\ a.pc = r.pc + INSTR_LEN /\ a.bp = r.bp /\ a.sp = r.sp
      /\ r.pc \in Int /\ r.bp \in Int /\ r.sp \in Int
  BY AdvancedType, AdvancedPlace, PlaceType
<1>4. e = Interpreted(P, a, I) /\ WellFormedInstr(P, I)
  BY <1>1, Kind, Zenon DEF Executed
<1>5. ASSUME NEW w \in Int, GoesOn(N, l, LineNo(e), w, l.bp),
             e.bp = r.bp, e.sp = r.sp + (w - l.words)
      PROVE  OnOutline(P, N, F, e)
  BY <1>5, OutlinedOn, SMT
<1>6. CASE I.op \in {"MOV", "IRET"} \cup ArithmeticOps
  <2>1. e.pc = a.pc /\ e.bp = a.bp /\ e.sp = a.sp
    BY <1>3, <1>4, <1>6, InterpretedPlace, SMT DEF SamePlace
  <2>2. LineNo(e) = LineNo(r) + 1
    BY <1>3, <2>1, NextLine
  <2>3. GoesOn(N, l, LineNo(r) + 1, l.words, l.bp)
    BY <1>1, <1>6, Kind, ZenonT(30)
  <2>4. l.words \in Int /\ e.bp = r.bp /\ e.sp = r.sp + (l.words - l.words)
    BY <1>2, <1>3, <2>1
  <2> QED
    BY <1>5, <2>2, <2>3, <2>4, Zenon
<1>7. CASE I.op = "PUSH"
  <2>1. e.pc = a.pc /\ e.bp = a.bp /\ e.sp = a.sp + 1
    BY <1>3, <1>4, <1>7, InterpretedPlace
  <2>2. LineNo(e) = LineNo(r) + 1
    BY <1>3, <2>1, NextLine
  <2>3. GoesOn(N, l, LineNo(r) + 1, l.words + 1, l.bp)
    BY <1>1, <1>7, Kind, Zenon
  <2> QED
    BY <1>2, <1>3, <1>5, <2>1, <2>2, <2>3
<1>8. CASE I.op = "POP"
  <2>1. e.pc = a.pc /\ e.bp = a.bp /\ e.sp = a.sp - 1
    BY <1>3, <1>4, <1>8, InterpretedPlace
  <2>2. LineNo(e) = LineNo(r) + 1
    BY <1>3, <2>1, NextLine
  <2>3. GoesOn(N, l, LineNo(r) + 1, l.words - 1, l.bp)
    BY <1>1, <1>8, Kind, Zenon
  <2> QED
    BY <1>2, <1>3, <1>5, <2>1, <2>2, <2>3
<1>9. CASE I.op = "JMP"
  <2>1. /\ I.args[1].type = "INSTR_INDEX"
        /\ GoesOn(N, l, I.args[1].value + 1, l.words, l.bp)
    BY <1>1, <1>9, Kind, Zenon
  <2>2. Value(a, I.args[1]) = I.args[1].value /\ I.args[1].value \in Int
    <3>1. I.args[1] \in Operands
      BY <1>4, <1>9, SMT DEF WellFormedInstr
    <3> QED
      BY <1>3, <2>1, <3>1, LiteralValue, ValueInt
  <2>3. e.pc = I.args[1].value * INSTR_LEN /\ e.bp = a.bp /\ e.sp = a.sp
    BY <1>3, <1>4, <1>9, <2>2, InterpretedPlace
  <2>4. LineNo(e) = I.args[1].value + 1
    BY <2>2, <2>3, TargetLine
  <2> QED
    BY <1>2, <1>3, <1>5, <2>1, <2>3, <2>4
<1>10. CASE I.op \in JumpOps
  <2>1. /\ I.args[3].type = "INSTR_INDEX"
        /\ GoesOn(N, l, I.args[3].value + 1, l.words, l.bp)
        /\ GoesOn(N, l, LineNo(r) + 1, l.words, l.bp)
    BY <1>1, <1>10, Kind, Zenon
  <2>2. Value(a, I.args[3]) = I.args[3].value /\ I.args[3].value \in Int
    <3>1. I.args[3] \in Operands
      BY <1>4, <1>10, SMT DEF WellFormedInstr
    <3> QED
      BY <1>3, <2>1, <3>1, LiteralValue, ValueInt
  <2>3. /\ e.pc = a.pc \/ e.pc = I.args[3].value * INSTR_LEN
        /\ e.bp = a.bp /\ e.sp = a.sp
    BY <1>3, <1>4, <1>10, <2>2, InterpretedPlace
  <2>4. LineNo(e) = LineNo(r) + 1 \/ LineNo(e) = I.args[3].value + 1
    BY <1>3, <2>2, <2>3, TargetLine, NextLine
  <2>5. GoesOn(N, l, LineNo(e), l.words, l.bp)
    BY <2>1, <2>4
  <2> QED
    BY <1>2, <1>3, <1>5, <2>3, <2>5
<1> QED
  BY <1>6, <1>7, <1>8, <1>9, <1>10, SMT DEF OwnOps

\* There is room for the functions that are called.
LEMMA RoomLeft ==
  ASSUME NEW P, NEW N, WellFormed(P), Outlines(N, P), NEW F, NEW j, NEW x,
         Stands(P, N, F, j, x), NEW l, l = Here(N, x),
         NEW g \in DOMAIN P.funcs, Enters(P, N, l, g)
  PROVE  x.sp \in Nat /\ x.sp + N.room[g] + P.globals + ContextWords <= StackWords
<1>1. l.words + N.room[g] <= N.room[l.func]
  BY Zenon DEF Enters
<1>2. /\ Base(F, j) \in Nat /\ x.sp = Base(F, j) + l.words
      /\ Base(F, j) + N.room[l.func] + P.globals + ContextWords <= StackWords
  BY Zenon DEF Stands
<1>3. l.words \in Nat /\ l.func \in DOMAIN P.funcs /\ P.globals \in Nat
  BY Zenon DEF Stands, Here, Outlines, WellFormed
<1>4. N.room[l.func] \in Nat /\ N.room[g] \in Nat
  BY <1>3, Zenon DEF Outlines
<1> QED
  BY <1>1, <1>2, <1>3, <1>4, StackAssumption DEF ContextWords

\* The call of function g, f being its entry in the table.
LEMMA OutlinedEntered ==
  ASSUME NEW P, NEW N, WellFormed(P), Outlines(N, P), NEW F, NEW r \in Machines,
         OnOutline(P, N, F, r), NEW e, NEW G, G = Later(F, "CALL", r, e),
         NEW g \in DOMAIN P.funcs, NEW f \in [entry: Nat, size: Nat], f = P.funcs[g],
         NEW l, l = Here(N, r), Enters(P, N, l, g),
         ReturnsTo(N, l, LineNo(r) + 1),
         e = Call(Advanced(r), f)
  PROVE  OnOutline(P, N, G, e)
<1>0. F \in Seq(Calls) /\ Len(F) \in Nat
  <2>1. F \in Seq(Calls)
    BY Zenon DEF OnOutline
  <2> QED
    BY <2>1
<1> DEFINE n == Len(F)
<1>1. /\ F \in Seq(Calls) /\ Stands(P, N, F, n, r) /\ LineNo(r) \in DOMAIN N.lines
      /\ \A j \in 0 .. n - 1 : Stands(P, N, F, j, F[j + 1]) /\ ~Here(N, F[j + 1]).bp
  BY Zenon DEF OnOutline, Stands
<1>3. /\ f.entry + 1 \in DOMAIN N.lines
      /\ N.lines[f.entry + 1].func = g /\ N.lines[f.entry + 1].words = Frame(P, g)
      /\ g # MainFunc(P)
  BY Zenon DEF Enters
<1>4. N.lines[f.entry + 1].words = Frame(P, g)
  BY <1>3, Zenon
<1>5. f.size \in Nat /\ f.entry \in Int /\ Frame(P, g) = f.size + 2
  <2>1. f.size \in Nat /\ f.entry \in Int
    OBVIOUS
  <2> QED
    BY <2>1, Zenon DEF Frame
<1>6. r.pc \in Int /\ r.bp \in Int /\ r.sp \in Int
  BY PlaceType
<1>7. e.pc = f.entry * INSTR_LEN /\ e.bp = r.sp + 1 /\ e.sp = r.sp + (f.size + 2)
  <2>1. e.pc = f.entry * INSTR_LEN /\ e.bp = r.sp + 1 /\ e.sp = r.sp + 2 + f.size
    BY AdvancedType, AdvancedPlace, CallPlace
  <2> QED
    BY <1>5, <1>6, <2>1
<1> DEFINE c == [bp |-> r.bp, sp |-> r.sp, pc |-> r.pc + INSTR_LEN, top |-> e.sp]
<1>8. /\ c \in Calls /\ c.sp = r.sp /\ c.pc = r.pc + INSTR_LEN /\ c.top = e.sp
      /\ G = Append(F, c)
  <2>1. c \in Calls
    BY <1>5, <1>6, <1>7 DEF Calls, INSTR_LEN
  <2>2. G = Append(F, c)
    BY Zenon DEF Later
  <2> QED
    BY <2>1, <2>2
<1> HIDE DEF c
<1>9. /\ G \in Seq(Calls) /\ Len(G) = n + 1 /\ G[n + 1] = c
      /\ \A i \in 1..n : G[i] = F[i]
  <2>1. F \in Seq(Calls) /\ c \in Calls /\ G = Append(F, c)
    BY <1>1, <1>8, Zenon
  <2> HIDE DEF n
  <2>2. n = Len(F)
    BY Zenon DEF n
  <2> QED
    BY <2>1, <2>2, AppendProperties
<1>2. n \in Nat
  BY <1>0
<1>10. Stands(P, N, F, n, c) /\ ~Here(N, c).bp
  <2>1. LineNo(c) = LineNo(r) + 1
    BY <1>6, <1>8, NextLine
  <2>2. l.words \in Nat
    BY <1>1, Zenon DEF Here, Outlines
  <2>3. c.sp = r.sp + (l.words - l.words)
    BY <1>6, <1>8, <2>2
  <2> QED
    <3>1. GoesOn(N, l, LineNo(c), l.words, l.bp) /\ ~Here(N, c).bp
      BY <2>1, Zenon DEF Here, ReturnsTo
    <3> QED
      BY <1>1, <2>3, <3>1, StandsOn, Zenon
<1>11. LineNo(e) = f.entry + 1 /\ Here(N, e) = N.lines[f.entry + 1]
  BY <1>5, <1>7, TargetLine DEF Here
<1>12. Stands(P, N, G, n + 1, e)
  <2>1. Base(G, n + 1) = r.sp /\ ~(n + 1 = 0)
    BY <1>2, <1>8, <1>9 DEF Base
  <2>2. /\ r.sp \in Nat
        /\ r.sp + N.room[g] + P.globals + ContextWords <= StackWords
    BY <1>1, RoomLeft, Zenon
  <2>3. e.sp = r.sp + Here(N, e).words
    BY <1>4, <1>5, <1>7, <1>11
  <2>4. G[n + 1].top = G[n + 1].sp + Frame(P, g)
    BY <1>5, <1>7, <1>8, <1>9
  <2> QED
    BY <1>3, <1>11, <2>1, <2>2, <2>3, <2>4, Zenon DEF Stands
<1>13. Here(N, e).bp => e.bp = Base(G, n + 1) + 1
  BY <1>2, <1>7, <1>8, <1>9 DEF Base
<1>14. ASSUME NEW j \in 0 .. n
       PROVE  Stands(P, N, G, j, G[j + 1]) /\ ~Here(N, G[j + 1]).bp
  <2>1. CASE j = n
    <3>1. Stands(P, N, F, n, c) /\ n > 0 => G[n] = F[n]
      BY <1>9, <1>10
    <3>2. Stands(P, N, G, n, c)
      BY <1>9, <1>10, <3>1, StandsSame
    <3> QED
      BY <1>9, <1>10, <2>1, <3>2
  <2>2. CASE j \in 0 .. n - 1
    <3>1. /\ G[j + 1] = F[j + 1] /\ (j > 0 => G[j] = F[j]) /\ j \in Nat
          /\ Stands(P, N, F, j, F[j + 1]) /\ ~Here(N, F[j + 1]).bp
      BY <1>1, <1>2, <1>9, <2>2
    <3>2. Stands(P, N, G, j, F[j + 1])
      BY <3>1, StandsSame
    <3> QED
      BY <3>1, <3>2
  <2> QED
    BY <1>2, <2>1, <2>2
<1>15. 0 .. Len(G) - 1 = 0 .. n
  BY <1>2, <1>9
<1> QED
  BY <1>9, <1>12, <1>13, <1>14, <1>15, Zenon DEF OnOutline


LEMMA OutlinedCall ==
  ASSUME NEW P, NEW N, WellFormed(P), Outlines(N, P), NEW F, NEW r \in Machines,
         OnOutline(P, N, F, r), NEW I, I = Fetch(P, r), I.op = "CALL",
         NEW e, e = Executed(P, r), NEW G, G = Later(F, "CALL", r, e)
  PROVE  OnOutline(P, N, G, e)
<1> PICK a, l : a = Advanced(r) /\ l = Here(N, r)
  OBVIOUS
<1>1. LineNo(r) \in DOMAIN N.lines
  BY Zenon DEF OnOutline, Stands
<1>2. /\ I.args[1].type = "FUNC_INDEX" /\ I.args[1].value + 1 \in DOMAIN P.funcs
      /\ Enters(P, N, l, I.args[1].value + 1) /\ ReturnsTo(N, l, LineNo(r) + 1)
  BY <1>1, CallKind, Zenon
<1>3. Value(a, I.args[1]) = I.args[1].value
  BY <1>2, LiteralValue
<1>4. e = Call(a, P.funcs[I.args[1].value + 1])
  <2>1. e = Interpreted(P, a, I)
    BY Zenon DEF Executed
  <2>2. e = Call(a, P.funcs[Value(a, I.args[1]) + 1])
    BY <2>1, Cases, SMT
  <2> QED
    BY <1>3, <2>2, Zenon
<1>5. P.funcs[I.args[1].value + 1] \in [entry: Nat, size: Nat]
  BY <1>2, SeqElement, Zenon DEF WellFormed
<1> QED
  BY <1>2, <1>4, <1>5, OutlinedEntered, Zenon

\* A function returns with its frame, and nothing else of its own, on the stack.
LEMMA RetAtTop ==
  ASSUME NEW P, NEW N, WellFormed(P), Outlines(N, P), NEW F, NEW r,
         OnOutline(P, N, F, r), NEW I, I = Fetch(P, r), I.op = "RET"
  PROVE  F # <<>> /\ Len(F) > 0 /\ Last(F) = F[Len(F)] /\ r.sp = Last(F).top
<1> DEFINE n == Len(F)
           l == Here(N, r)
<1>1. /\ F \in Seq(Calls) /\ Stands(P, N, F, n, r) /\ LineNo(r) \in DOMAIN N.lines
  BY Zenon DEF OnOutline, Stands
<1>2. l.words = Frame(P, l.func) /\ l.func # MainFunc(P)
  BY <1>1, Kind, Zenon
<1>3. n \in Nat /\ n > 0 /\ F # <<>> /\ Last(F) = F[n]
  <2>1. n # 0
    BY <1>1, <1>2, Zenon DEF Stands
  <2> QED
    BY <1>1, <2>1, CallFields
<1>4. /\ r.sp = Base(F, n) + l.words /\ (n > 0 => F[n].top = F[n].sp + Frame(P, l.func))
  BY <1>1, Zenon DEF Stands
<1>5. Base(F, n) = F[n].sp
  BY <1>3 DEF Base
<1> QED
  BY <1>2, <1>3, <1>4, <1>5, Zenon

LEMMA OutlinedRet ==
  ASSUME NEW P, NEW N, WellFormed(P), Outlines(N, P), NEW F, NEW r \in Machines,
         OnOutline(P, N, F, r), Kept(F, r), NEW I, I = Fetch(P, r), I.op = "RET",
         NEW e, e = Executed(P, r), NEW G, G = Later(F, "RET", r, e)
  PROVE  OnOutline(P, N, G, e)
<1> DEFINE n == Len(F)
<1>1. /\ F \in Seq(Calls) /\ Stands(P, N, F, n, r) /\ LineNo(r) \in DOMAIN N.lines
      /\ \A j \in 0 .. n - 1 : Stands(P, N, F, j, F[j + 1]) /\ ~Here(N, F[j + 1]).bp
  BY Zenon DEF OnOutline, Stands
<1>3. n \in Nat /\ n > 0 /\ F # <<>> /\ Last(F) = F[n] /\ r.sp = Last(F).top
  BY <1>1, RetAtTop, LenProperties, Zenon
<1>5. e.sp = F[n].sp /\ e.pc = F[n].pc
  <2>1. e = Interpreted(P, Advanced(r), I)
    BY Zenon DEF Executed
  <2>2. e = Ret(Advanced(r))
    BY <2>1, Cases, SMT
  <2> QED
    BY <1>1, <1>3, <2>2, RetBack
<1>6. G = SubSeq(F, 1, n - 1)
  BY SMT DEF Later
<1>7. G \in Seq(Calls) /\ Len(G) = n - 1 /\ \A i \in 1 .. n - 1 : G[i] = F[i]
  <2>1. \A i \in 1 .. n - 1 : F[i] \in Calls
    BY <1>1, <1>3, SeqElement, LenProperties
  <2> QED
    BY <1>3, <1>6, <2>1, SubSeqProperties
<1>8. Stands(P, N, G, n - 1, e) /\ ~Here(N, e).bp
  <2>1. Stands(P, N, F, n - 1, F[n]) /\ ~Here(N, F[n]).bp
    BY <1>1, <1>3
  <2>2. LineNo(e) = LineNo(F[n]) /\ Here(N, e) = Here(N, F[n])
    BY <1>5, Zenon DEF LineNo, Here
  <2>3. Stands(P, N, F, n - 1, e) /\ ~Here(N, e).bp
    BY <1>5, <2>1, <2>2, Zenon DEF Stands
  <2>4. n - 1 \in Nat /\ (n - 1 > 0 => G[n - 1] = F[n - 1])
    BY <1>3, <1>7
  <2> QED
    BY <2>3, <2>4, StandsSame
<1>9. ASSUME NEW j \in 0 .. (n - 1) - 1
      PROVE  Stands(P, N, G, j, G[j + 1]) /\ ~Here(N, G[j + 1]).bp
  <2>1. /\ j \in Nat /\ j \in 0 .. n - 1 /\ j + 1 \in 1 .. n - 1
        /\ j > 0 => j \in 1 .. n - 1
    BY <1>3
  <2>2. /\ G[j + 1] = F[j + 1] /\ (j > 0 => G[j] = F[j])
        /\ Stands(P, N, F, j, F[j + 1]) /\ ~Here(N, F[j + 1]).bp
    BY <1>1, <1>7, <2>1, Zenon
  <2> QED
    BY <2>1, <2>2, StandsSame
<1> HIDE DEF n
<1> QED
  BY <1>7, <1>8, <1>9, Zenon DEF OnOutline

\* An instruction that is executed keeps the machine on the outline.
LEMMA OutlinedExecuted ==
  ASSUME NEW P, NEW N, WellFormed(P), Outlines(N, P), NEW F, NEW r \in Machines,
         OnOutline(P, N, F, r), Kept(F, r), NEW I, I = Fetch(P, r), I.op \in OwnOps,
         NEW e, e = Executed(P, r), NEW G, G = Later(F, I.op, r, e)
  PROVE  OnOutline(P, N, G, e)
<1>1. CASE I.op = "CALL"
  BY <1>1, OutlinedCall
<1>2. CASE I.op = "RET"
  BY <1>2, OutlinedRet
<1>3. CASE I.op \notin {"CALL", "RET"}
  <2>1. G = F
    BY <1>3 DEF Later
  <2> QED
    BY <1>3, <2>1, OutlinedOwn
<1> QED
  BY <1>1, <1>2, <1>3

\* ... and so does a kernel call.
LEMMA OutlinedCalled ==
  ASSUME NEW P, NEW N, WellFormed(P), Outlines(N, P), NEW F, NEW r \in Machines,
         OnOutline(P, N, F, r), InCode(P, r), Fetch(P, r).op = "CALLCORE",
         NEW x, NEW e, e = Called(r, CallName(P, r), x)
  PROVE  OnOutline(P, N, F, e)
<1> DEFINE l == Here(N, r)
           p == Pops(CallName(P, r))
<1>1. LineNo(r) \in DOMAIN N.lines
  BY Zenon DEF OnOutline, Stands
<1>2. l.words \in Nat
  BY <1>1, Zenon DEF Here, Outlines
<1>3. p \in Nat
  BY PopsNat
<1>4. GoesOn(N, l, LineNo(r) + 1, l.words - p, l.bp)
  BY <1>1, Kind, Zenon DEF CallName
<1>5. r.pc \in Int /\ r.sp \in Int
  BY PlaceType
<1>6. e.pc = r.pc + INSTR_LEN /\ e.bp = r.bp /\ e.sp = r.sp - p
  BY CalledPlace
<1>7. LineNo(e) = LineNo(r) + 1
  BY <1>5, <1>6, NextLine
<1> HIDE DEF p
<1>8. e.sp = r.sp + ((l.words - p) - l.words)
  BY <1>2, <1>3, <1>5, <1>6
<1> QED
  BY <1>4, <1>6, <1>7, <1>8, OutlinedOn

\* ... and PAUSE.
LEMMA OutlinedPause ==
  ASSUME NEW P, NEW N, WellFormed(P), Outlines(N, P), NEW F, NEW r \in Machines,
         OnOutline(P, N, F, r), InCode(P, r), Fetch(P, r).op = "PAUSE",
         NEW e, e = Advanced(r)
  PROVE  OnOutline(P, N, F, e)
<1> DEFINE l == Here(N, r)
<1>1. LineNo(r) \in DOMAIN N.lines
  BY Zenon DEF OnOutline, Stands
<1>2. l.words \in Nat
  BY <1>1, Zenon DEF Here, Outlines
<1>3. GoesOn(N, l, LineNo(r) + 1, l.words, l.bp)
  BY <1>1, Kind, Zenon
<1>4. r.pc \in Int /\ r.sp \in Int
  BY PlaceType
<1>5. e.pc = r.pc + INSTR_LEN /\ e.bp = r.bp /\ e.sp = r.sp
  BY AdvancedPlace
<1>6. LineNo(e) = LineNo(r) + 1
  BY <1>4, <1>5, NextLine
<1>7. e.sp = r.sp + (l.words - l.words)
  BY <1>2, <1>4, <1>5
<1> QED
  BY <1>3, <1>5, <1>6, <1>7, OutlinedOn

\* A program that has been loaded stands at the entry of its main function.
LEMMA OutlinedLoaded ==
  ASSUME NEW P, NEW N, WellFormed(P), Outlines(N, P), NEW m, NEW junk, m = Loaded(P, junk)
  PROVE  OnOutline(P, N, <<>>, m)
<1> PICK f, g : f = P.funcs[g] /\ g = MainFunc(P)
  OBVIOUS
<1>1. /\ f.entry + 1 \in DOMAIN N.lines /\ N.lines[f.entry + 1].func = g
      /\ N.lines[f.entry + 1].words = Frame(P, g)
  BY Zenon DEF Outlines
<1>2. N.room[g] + P.globals + ContextWords <= StackWords
  BY Zenon DEF Outlines
<1>3. g \in DOMAIN P.funcs /\ f \in [entry: Nat, size: Nat]
  <2>1. P.funcs \in Seq([entry: Nat, size: Nat]) /\ P.main + 1 \in DOMAIN P.funcs
    BY Zenon DEF WellFormed
  <2>2. g \in DOMAIN P.funcs
    BY <2>1, Zenon DEF MainFunc
  <2> QED
    BY <2>1, <2>2, SeqElement, Zenon
<1>4. m.pc = f.entry * INSTR_LEN /\ m.bp = 1 /\ m.sp = f.size + 2
  <2>1. f = P.funcs[P.main + 1]
    BY Zenon DEF MainFunc
  <2> QED
    BY <2>1 DEF Loaded
<1>5. LineNo(m) = f.entry + 1
  BY <1>3, <1>4, TargetLine
<1>6. Here(N, m).func = g /\ Here(N, m).words = f.size + 2
  BY <1>1, <1>5, Zenon DEF Here, Frame
<1>7. N.room[g] \in Nat /\ P.globals \in Nat
  BY <1>3, Zenon DEF Outlines, WellFormed
<1>8. /\ Base(<<>>, 0) = 0 /\ Len(<<>>) = 0 /\ <<>> \in Seq(Calls)
      /\ m.sp = 0 + Here(N, m).words
      /\ 0 + N.room[g] + P.globals + ContextWords <= StackWords
  <2>1. Base(<<>>, 0) = 0 /\ Len(<<>>) = 0 /\ <<>> \in Seq(Calls)
    BY DEF Base
  <2>2. m.sp = 0 + Here(N, m).words
    BY <1>3, <1>4, <1>6
  <2>3. 0 + N.room[g] = N.room[g]
    BY <1>7
  <2> QED
    BY <1>2, <2>1, <2>2, <2>3, Zenon
<1>9. Stands(P, N, <<>>, 0, m)
  <2>1. 0 \in Nat /\ ~(0 > 0)
    OBVIOUS
  <2> QED
    BY <1>1, <1>5, <1>6, <1>8, <2>1, Zenon DEF Stands
<1>10. m.bp = Base(<<>>, 0) + 1 /\ \A j \in 0 .. 0 - 1 : FALSE
  BY <1>4, <1>8
<1> QED
  BY <1>8, <1>9, <1>10, Zenon DEF OnOutline
-----------------------------------------------------------------------------
(* All processes stay on the outlines of their programs *)

AllHaveOutlines == \A P \in AllPrograms : Outlined(P)

OutlineOf(P) == CHOOSE N : Outlines(N, P)

\* The inductive form of WithinStack and KeepsFrames.
AllOutlined ==
  \A p \in alive : OnOutline(prog[p], OutlineOf(prog[p]), frames[p], MachineOf(p))

LEMMA OutlineFacts ==
  ASSUME AllHaveOutlines, NEW P \in AllPrograms
  PROVE  WellFormed(P) /\ Outlines(OutlineOf(P), P)
<1>1. \E N : Outlines(N, P)
  BY DEF AllHaveOutlines, Outlined
<1>2. Outlines(OutlineOf(P), P)
  BY <1>1, Zenon DEF OutlineOf
<1> QED
  BY <1>2, ProgramsAssumption

LEMMA LivePlace ==
  ASSUME NEW m \in Machines, NEW P  PROVE SamePlace(Live(P, m), m)
BY DEF Live, SamePlace, Machines

LEMMA InitOutlined == AllHaveOutlines /\ Init => AllOutlined
<1> SUFFICES ASSUME AllHaveOutlines, Init
             PROVE  AllOutlined
  OBVIOUS
<1>1. PICK junk \in Junk :
        LET saved == SaveContext(Loaded(IdleProgram, junk))
        IN  /\ stackTop = [p \in Procs |-> IF p = Idle THEN saved.sp ELSE 0]
            /\ mem = [p \in Procs |-> IF p = Idle THEN saved.mem ELSE [k \in Positions |-> 0]]
  BY Zenon DEF Init
<1> DEFINE P == IdleProgram
           m == Loaded(P, junk)
           N == OutlineOf(P)
<1>2. m \in Machines /\ P \in AllPrograms
  BY LoadedType, ProgramsAssumption, DataAssumption DEF AllPrograms
<1>3. /\ alive = {Idle} /\ curr # Idle /\ Idle \in Procs /\ prog[Idle] = P
      /\ frames[Idle] = <<>>
      /\ mem[Idle] = SaveContext(m).mem /\ stackTop[Idle] = SaveContext(m).sp
  BY <1>1, ProcFacts DEF Init
<1>4. WellFormed(P) /\ Outlines(N, P)
  BY <1>2, OutlineFacts
<1>5. OnOutline(P, N, <<>>, m)
  BY <1>4, OutlinedLoaded, Zenon
<1>6. m.sp \in 0 .. StackWords - P.globals - 10 /\ P.globals \in Nat
  BY <1>4, <1>5, StandsWithin, Zenon DEF OnOutline, WellFormed
<1> HIDE DEF m, N
<1>7. stackTop[Idle] = m.sp + 10 /\ m.sp \in Int
  BY <1>2, <1>3, SaveType, CpuOfType
<1>8. Reloaded(mem[Idle], stackTop[Idle]) = CpuOf(m)
  <2>1. m.sp \in 0 .. StackWords - 10
    BY <1>6, StackAssumption
  <2> QED
    BY <1>2, <1>3, <1>7, <2>1, ReloadSaved
<1>9. MachineOf(Idle) = On(Reloaded(mem[Idle], stackTop[Idle]),
                           Seen(mem[Idle], prog[Idle].globals, stackTop[Idle] - 10))
  <2>1. Places
    BY InitTypes, MachinePlaces
  <2>2. stackTop[Idle] - 10 \in 0 .. StackWords - prog[Idle].globals - 10
    BY <1>3, <1>6, <1>7
  <2> QED
    BY <1>3, <2>1, <2>2 DEF Places
<1>10. SamePlace(MachineOf(Idle), m)
  BY <1>2, <1>8, <1>9, CpuOfType DEF SamePlace, On
<1>11. OnOutline(P, N, <<>>, MachineOf(Idle))
  BY <1>5, <1>10, OutlinedSame, Zenon
<1> QED
  BY <1>3, <1>11, Zenon DEF AllOutlined, N

\* What AllOutlined says of a process, and that it is within its stack.
LEMMA OutlinedProc ==
  ASSUME AllHaveOutlines, TypeOK, AllOutlined, NEW p \in alive,
         NEW P, P = prog[p], NEW N, N = OutlineOf(P)
  PROVE  /\ p \in Procs /\ P \in AllPrograms /\ WellFormed(P) /\ Outlines(N, P)
         /\ P.globals \in Nat
         /\ OnOutline(P, N, frames[p], MachineOf(p))
         /\ Stands(P, N, frames[p], Len(frames[p]), MachineOf(p))
         /\ MachineOf(p).sp \in 0 .. StackWords - P.globals - 10
<1>1. p \in Procs /\ P \in AllPrograms
  BY DEF TypeOK
<1>2. WellFormed(P) /\ Outlines(N, P)
  BY <1>1, OutlineFacts
<1>3. OnOutline(P, N, frames[p], MachineOf(p))
  BY Zenon DEF AllOutlined
<1>4. Stands(P, N, frames[p], Len(frames[p]), MachineOf(p))
  BY <1>3, Zenon DEF OnOutline
<1>5. MachineOf(p).sp \in 0 .. StackWords - P.globals - 10
  BY <1>2, <1>4, StandsWithin
<1> QED
  BY <1>1, <1>2, <1>3, <1>4, <1>5, Zenon DEF WellFormed

LEMMA OutlinedWithin ==
  ASSUME AllHaveOutlines, TypeOK, AllOutlined  PROVE WithinStack
BY OutlinedProc, Zenon DEF WithinStack, ContextWords

\* The machine that has the CPU stands where the process does.
LEMMA OutlinedRunning ==
  ASSUME AllHaveOutlines, TypeOK, AllOutlined, curr # NoPcb, NEW P, P = prog[curr]
  PROVE  /\ curr \in Procs /\ curr \in alive /\ Running \in Machines /\ WellFormed(P)
         /\ Outlines(OutlineOf(P), P)
         /\ OnOutline(P, OutlineOf(P), frames[curr], Running)
         /\ MachineOf(curr) = Live(P, Running)
<1>1. WithinStack
  BY OutlinedWithin
<1>2. /\ curr \in Procs /\ curr \in alive /\ Running \in Machines /\ WellFormed(P)
      /\ MachineOf(curr) = Live(P, Running)
  BY <1>1, CurrentIs
<1>3. SamePlace(Running, MachineOf(curr))
  BY <1>2, LivePlace DEF SamePlace
<1>4. Outlines(OutlineOf(P), P) /\ OnOutline(P, OutlineOf(P), frames[curr], MachineOf(curr))
  BY <1>2, OutlinedProc
<1> QED
  BY <1>2, <1>3, <1>4, OutlinedSame, Zenon

\* A machine on the outline has room for its context.
LEMMA OutlinedRoom ==
  ASSUME NEW P, NEW N, WellFormed(P), Outlines(N, P), NEW F, NEW m, OnOutline(P, N, F, m)
  PROVE  m.sp \in 0 .. StackWords - P.globals - 10
BY StandsWithin, Zenon DEF OnOutline

LEMMA OthersOutlined ==
  ASSUME AllHaveOutlines, TypeOK, TypeOK', AllOutlined, FramesInv, [Next]_vars,
         NEW p \in alive \cap alive', p # curr,
         NEW P, P = prog'[p]
  PROVE  OnOutline(P, OutlineOf(P), frames'[p], MachineOf(p)')
<1>1. WithinStack /\ p \in Procs /\ P = prog[p]
  BY OutlinedWithin, ProgStays DEF TypeOK
<1>2. SamePlace(MachineOf(p)', MachineOf(p))
  BY <1>1, Others DEF SamePlace
<1>3. frames'[p] = frames[p]
  <2>1. frames \in [Procs -> Seq(Calls)]
    BY DEF FramesInv
  <2>2. CASE Execute
    BY <1>1, <2>1, <2>2, ExecuteHistory
  <2>3. CASE ~Execute
    BY <1>1, <2>1, <2>3, FramesStep DEF FramesBecome
  <2> QED
    BY <2>2, <2>3
<1>4. OnOutline(P, OutlineOf(P), frames[p], MachineOf(p))
  BY <1>1, OutlinedProc
<1> QED
  BY <1>2, <1>3, <1>4, OutlinedSame, Zenon

LEMMA CurrentOutlined ==
  ASSUME AllHaveOutlines, TypeOK, TypeOK', AllOutlined, FramesInv, [Next]_vars, ~Execute,
         NEW c \in alive \cap alive', c = curr,
         NEW P, P = prog'[c]
  PROVE  OnOutline(P, OutlineOf(P), frames'[c], MachineOf(c)')
<1> DEFINE N == OutlineOf(P)
<1>1. WithinStack /\ c \in Procs /\ P = prog[c] /\ curr # NoPcb
  BY OutlinedWithin, ProgStays, ProcFacts DEF TypeOK
<1>2. frames'[c] = frames[c]
  <2>1. frames \in [Procs -> Seq(Calls)]
    BY DEF FramesInv
  <2> QED
    BY <1>1, <2>1, FramesStep DEF FramesBecome
<1>3. /\ Running \in Machines /\ WellFormed(P) /\ Outlines(N, P)
      /\ OnOutline(P, N, frames[c], Running)
  BY <1>1, OutlinedRunning
<1>4. PICK m \in Machines :
        /\ NextMachine(m)
        /\ WithinStack' \/ m.sp \in 0 .. StackWords - prog'[c].globals - 10 =>
             MachineOf(c)' = Live(prog'[c], m)
  BY <1>1, CurrentCalls
<1> HIDE DEF N
<1>5. OnOutline(P, N, frames[c], m)
  <2>1. CASE SamePlace(m, Running)
    BY <1>3, <2>1, OutlinedSame, Zenon
  <2>2. CASE Executing("CALLCORE") /\ \E r : m = Called(Running, CallName(prog[c], Running), r)
    <3>1. InCode(P, Running) /\ Fetch(P, Running).op = "CALLCORE"
      BY <1>1, <2>2, Zenon DEF Executing
    <3> QED
      BY <1>1, <1>3, <2>2, <3>1, OutlinedCalled, Zenon
  <2>3. CASE Executing("PAUSE") /\ m = Advanced(Running)
    <3>1. InCode(P, Running) /\ Fetch(P, Running).op = "PAUSE"
      BY <1>1, <2>3, Zenon DEF Executing
    <3> QED
      BY <1>3, <2>3, <3>1, OutlinedPause, Zenon
  <2> QED
    BY <1>4, <2>1, <2>2, <2>3, Zenon DEF NextMachine
<1>6. MachineOf(c)' = Live(P, m)
  BY <1>3, <1>4, <1>5, OutlinedRoom, Zenon
<1>7. SamePlace(MachineOf(c)', m)
  BY <1>6, LivePlace
<1> QED
  BY <1>2, <1>5, <1>7, OutlinedSame, Zenon DEF N

LEMMA ExecuteOutlined ==
  ASSUME AllHaveOutlines, TypeOK, TypeOK', AllOutlined, FramesInv, Execute,
         NEW c, c = curr, NEW P, P = prog'[c]
  PROVE  OnOutline(P, OutlineOf(P), frames'[c], MachineOf(c)')
<1> DEFINE N == OutlineOf(P)
           r == Running
           I == Fetch(P, r)
           e == Executed(P, r)
           F == frames[c]
           G == Later(F, I.op, r, e)
<1>1. PICK op \in OwnOps :
        /\ Executing(op) /\ ~Traps(prog[curr], Running)
        /\ cpu' = CpuOf(Executed(prog[curr], Running))
        /\ mem' = [mem EXCEPT ![curr] = Executed(prog[curr], Running).mem]
        /\ UNCHANGED <<curr, alive, prog>>
  BY Zenon DEF Execute
<1>2. /\ P = prog[c] /\ curr # NoPcb /\ InCode(P, r) /\ ~Traps(P, r)
      /\ I.op = op /\ I.op \in OwnOps
  BY <1>1 DEF Executing
<1>3. /\ c \in Procs /\ c \in alive /\ r \in Machines /\ WellFormed(P) /\ Outlines(N, P)
      /\ OnOutline(P, N, F, r) /\ MachineOf(c) = Live(P, r)
  BY <1>2, OutlinedRunning
<1>4. F \in Seq(Calls) /\ Kept(F, r)
  <2>1. F \in Seq(Calls) /\ Kept(F, MachineOf(c))
    BY <1>3, Zenon DEF FramesInv
  <2>2. P.globals \in Nat
    BY <1>3, Zenon DEF WellFormed
  <2> QED
    BY <1>3, <2>1, <2>2, KeptLive, Zenon
<1>5. e \in Machines /\ mem'[c] = e.mem /\ cpu' = CpuOf(e)
  BY <1>1, <1>2, <1>3, ExecutedType DEF TypeOK
<1>6. frames'[c] = G
  <2>1. r.bp = cpu.bp /\ r.sp = cpu.sp /\ r.pc = cpu.pc
    BY DEF Running, On
  <2>2. Later(F, I.op, cpu, e) = G
    BY <2>1, Zenon DEF Later
  <2>3. frames'[c] = Later(F, I.op, cpu, e)
    BY <1>2, <1>3, ExecuteHistory, Zenon DEF FramesInv
  <2> QED
    BY <2>2, <2>3, Zenon
<1> HIDE DEF N, r, e, G
<1>7. OnOutline(P, N, G, e)
  BY <1>2, <1>3, <1>4, OutlinedExecuted, Zenon DEF e, G
<1>8. MachineOf(c)' = Live(P, e)
  <2>1. e.sp \in 0 .. StackWords - P.globals - 10
    BY <1>3, <1>7, OutlinedRoom
  <2>2. c \in alive' /\ curr' = c
    BY <1>1, <1>3
  <2> QED
    BY <1>5, <2>1, <2>2, CurrentBecomes
<1>9. SamePlace(MachineOf(c)', e)
  BY <1>5, <1>8, LivePlace
<1> QED
  BY <1>6, <1>7, <1>9, OutlinedSame, Zenon DEF N

\* A process that is created stands at the entry of its program.
LEMMA LoadOutlined ==
  ASSUME AllHaveOutlines, TypeOK, TypeOK', FramesInv, NEW p \in alive', p # curr',
         NEW P \in AllPrograms, Load(p, P)
  PROVE  OnOutline(prog'[p], OutlineOf(prog'[p]), frames'[p], MachineOf(p)')
<1> DEFINE N == OutlineOf(P)
<1>1. p \in Procs
  BY DEF TypeOK
<1>2. PICK junk \in Junk :
        /\ Loaded(P, junk) \in Machines
        /\ mem'[p] = SaveContext(Loaded(P, junk)).mem
        /\ stackTop'[p] = Loaded(P, junk).sp + 10
  BY <1>1, LoadIs
<1> DEFINE m == Loaded(P, junk)
<1>3. WellFormed(P) /\ Outlines(N, P) /\ prog'[p] = P
  BY <1>1, OutlineFacts, LoadIs
<1>4. OnOutline(P, N, <<>>, m)
  BY <1>3, OutlinedLoaded, Zenon
<1> HIDE DEF N
<1>5. m.sp \in 0 .. StackWords - P.globals - 10
  BY <1>3, <1>4, OutlinedRoom, Zenon
<1> HIDE DEF m
<1>6. MachineOf(p)' = Live(P, m)
  <2>1. m \in Machines /\ mem'[p] = SaveContext(m).mem /\ stackTop'[p] = m.sp + 10
    BY <1>2 DEF m
  <2> QED
    BY <1>3, <1>5, <2>1, SavedBecomes
<1>7. frames'[p] = <<>>
  BY <1>1 DEF Load, FramesInv
<1>8. SamePlace(MachineOf(p)', m)
  BY <1>2, <1>6, LivePlace DEF m
<1> QED
  BY <1>3, <1>4, <1>7, <1>8, OutlinedSame, Zenon DEF m, N

\* Only the creation of a process adds one.
LEMMA NewOutlined ==
  ASSUME AllHaveOutlines, TypeOK, TypeOK', FramesInv, [Next]_vars, NEW p \in alive' \ alive
  PROVE  OnOutline(prog'[p], OutlineOf(prog'[p]), frames'[p], MachineOf(p)')
<1>1. CASE \E q \in Procs, P \in Programs : CallCreates(q, P)
  <2> PICK q \in Procs, P \in Programs : CallCreates(q, P)
    BY <1>1
  <2>1. Load(p, P) /\ P \in AllPrograms /\ curr' = curr /\ curr # NoPcb
    BY ExecutingFacts DEF CallCreates, AllPrograms, Calling
  <2>2. p # curr'
    BY <2>1 DEF TypeOK
  <2> QED
    BY <2>1, <2>2, LoadOutlined
<1>2. CASE \E q \in Procs, P \in ShellPrograms : ShellCreate(q, P)
  <2> PICK q \in Procs, P \in ShellPrograms : ShellCreate(q, P)
    BY <1>2
  <2>1. Load(p, P) /\ P \in AllPrograms /\ curr' = curr
    BY DEF ShellCreate, AllPrograms
  <2>2. p # curr'
    BY <2>1, ProcFacts DEF TypeOK
  <2> QED
    BY <2>1, <2>2, LoadOutlined
<1>3. CASE ~ \/ \E q \in Procs, P \in Programs : CallCreates(q, P)
             \/ \E q \in Procs, P \in ShellPrograms : ShellCreate(q, P)
  <2>1. alive' \subseteq alive
    BY <1>3 DEF Next, Start, Execute, CallKernel, CallWakes, CallDeletes, CallDeletesSelf, Quit,
                Leave, Pause, CallWaits, Block, Interrupt, ShellKill, vars
  <2> QED
    BY <2>1
<1> QED
  BY <1>1, <1>2, <1>3

LEMMA OutlinedStep ==
  ASSUME AllHaveOutlines, TypeOK, TypeOK', AllOutlined, FramesInv, [Next]_vars
  PROVE  AllOutlined'
<1> SUFFICES ASSUME NEW p \in alive'
             PROVE  OnOutline(prog'[p], OutlineOf(prog'[p]), frames'[p], MachineOf(p)')
  BY DEF AllOutlined
<1>1. CASE p \notin alive
  BY <1>1, NewOutlined
<1>2. CASE p \in alive /\ p # curr
  BY <1>2, OthersOutlined
<1>3. CASE p \in alive /\ p = curr /\ ~Execute
  BY <1>3, CurrentOutlined
<1>4. CASE p = curr /\ Execute
  BY <1>4, ExecuteOutlined
<1> QED
  BY <1>1, <1>2, <1>3, <1>4
-----------------------------------------------------------------------------
(* Programs with an outline leave the frames of their functions alone *)

\* What the outline says of the variables that an instruction stores to and reads.
LEMMA StoreKind ==
  ASSUME NEW P, NEW N, WellFormed(P), Outlines(N, P), NEW x, LineNo(x) \in DOMAIN N.lines,
         NEW I, I = Fetch(P, x), NEW l, l = Here(N, x), NEW o, o = I.args[1]
  PROVE  /\ I.op \in {"MOV", "POP"} \cup ArithmeticOps => IsFixed(o) /\ o \in Operands
         /\ I.op \in {"MOV", "POP"} => o.type = "REG" \/ StoresOwnWord(P, l, o)
         /\ I.op \in ArithmeticOps => StoresOwnWord(P, l, o)
<1> PICK i : i = LineNo(x)
  OBVIOUS
<1>1. i \in DOMAIN N.lines /\ I = P.code[i] /\ l = N.lines[i]
  BY Zenon DEF Fetch, LineNo, Here
<1>2. WellFormedInstr(P, I) /\ KeepsToLine(P, N, i)
  BY <1>1, LineFacts, Zenon
<1>3. I.op \in {"MOV", "POP"} \cup ArithmeticOps => o \in Operands
  BY <1>2, SMT DEF WellFormedInstr
<1>4. /\ I.op = "MOV" => IsFixed(o) /\ (o.type = "REG" \/ StoresOwnWord(P, l, o))
      /\ I.op = "POP" => IsFixed(o) /\ (o.type = "REG" \/ StoresOwnWord(P, l, o))
      /\ I.op \in ArithmeticOps => IsFixed(o) /\ StoresOwnWord(P, l, o)
  BY <1>1, <1>2, Zenon DEF KeepsToLine
<1> QED
  BY <1>3, <1>4, SMT

\* The place of a variable that is stored to, in a machine whose BP is right if need be.
LEMMA OwnPlace ==
  ASSUME NEW P, NEW l, NEW i \in Int, OwnIndex(P, l, i), NEW m, NEW b \in Int,
         l.bp => m.bp = b + 1, P.globals \in Nat, P.funcs[l.func].size \in Nat
  PROVE  \/ At(m, i) > StackWords - P.globals /\ At(m, i) <= StackWords
         \/ At(m, i) > b + 1 /\ At(m, i) <= b + 1 + P.funcs[l.func].size
<1>1. CASE i >= 0
  BY <1>1, StackAssumption DEF OwnIndex, At
<1>2. CASE ~(i >= 0)
  <2>1. l.bp /\ -i <= P.funcs[l.func].size /\ At(m, i) = m.bp - i
    BY <1>2 DEF OwnIndex, At
  <2> QED
    BY <1>2, <2>1
<1> QED
  BY <1>1, <1>2

\* An operand that is an own word has an index that is.
LEMMA FixedIndex ==
  ASSUME NEW P, NEW l, NEW m, NEW o \in Operands, IsFixed(o), StoresOwnWord(P, l, o)
  PROVE  StackIndex(m, o) \in Int /\ OwnIndex(P, l, StackIndex(m, o))
<1>1. o.type = "ABS_STACK_INDEX" => o.value \in Int
  BY DEF Operands, Literals
<1>2. StackIndex(m, o) = IF o.type = "ABS_STACK_INDEX" THEN o.value ELSE 0
  BY SMT DEF StackIndex, IsFixed
<1> QED
  BY <1>1, <1>2 DEF StoresOwnWord

LEMMA HereFunc ==
  ASSUME NEW P, NEW N, WellFormed(P), Outlines(N, P), NEW x, LineNo(x) \in DOMAIN N.lines
  PROVE  /\ Here(N, x).func \in DOMAIN P.funcs
         /\ P.funcs[Here(N, x).func] \in [entry: Nat, size: Nat]
         /\ Frame(P, Here(N, x).func) = P.funcs[Here(N, x).func].size + 2
         /\ P.globals \in Nat
BY LineFacts, Zenon DEF Here

\* Where the process that executes stores: not in its own frame's first and last word,
\* nor in any word below it.
LEMMA StoresApart ==
  ASSUME NEW P, NEW N, WellFormed(P), Outlines(N, P), NEW F, NEW r \in Machines,
         OnOutline(P, N, F, r), NEW I, I = Fetch(P, r), NEW k \in InstrStores(Advanced(r), I),
         NEW l, l = Here(N, r), NEW b, b = Base(F, Len(F))
  PROVE  /\ k \in Int /\ b \in Int /\ P.funcs[l.func].size \in Nat
         /\ \/ k > r.sp
            \/ k > b + 1 /\ k < b + Frame(P, l.func)
<1>1. /\ LineNo(r) \in DOMAIN N.lines /\ Stands(P, N, F, Len(F), r)
      /\ l.bp => r.bp = b + 1
  BY Zenon DEF OnOutline, Stands
<1> DEFINE a == Advanced(r)
           o == I.args[1]
           s == P.funcs[l.func].size
<1>2. k = At(a, StackIndex(a, o)) /\ IsFixed(o) /\ o \in Operands /\ StoresOwnWord(P, l, o)
  <2>1. \/ I.op \in {"MOV", "POP"} /\ o.type # "REG"
        \/ I.op \in ArithmeticOps
    BY Zenon DEF InstrStores
  <2>2. InstrStores(a, I) = {At(a, StackIndex(a, o))}
    BY <2>1, StoresAre, Zenon
  <2> QED
    BY <1>1, <2>1, <2>2, StoreKind, SMT
<1>3. /\ l.func \in DOMAIN P.funcs /\ P.funcs[l.func] \in [entry: Nat, size: Nat]
      /\ Frame(P, l.func) = s + 2 /\ P.globals \in Nat
  BY <1>1, HereFunc, Zenon
<1>4. s \in Nat
  BY <1>3
<1>5. a \in Machines /\ a.bp = r.bp /\ r.bp \in Int /\ r.sp \in Int
  BY AdvancedType, AdvancedPlace, PlaceType
<1>6. b \in Nat /\ r.sp \in 0 .. StackWords - P.globals - 10
  BY <1>1, StandsWithin, Zenon
<1>7. StackIndex(a, o) \in Int /\ OwnIndex(P, l, StackIndex(a, o))
  BY <1>2, FixedIndex
<1> HIDE DEF a, o, s
<1>8. \/ k > StackWords - P.globals /\ k <= StackWords
      \/ k > b + 1 /\ k <= b + 1 + s
  <2>1. b \in Int /\ (l.bp => a.bp = b + 1)
    BY <1>1, <1>5, <1>6
  <2> QED
    BY <1>2, <1>3, <1>4, <2>1, <1>7, OwnPlace, Zenon DEF s
<1>9. k \in Int
  <2>1. At(a, StackIndex(a, o)) \in Int
    BY <1>5, <1>7, AtInt
  <2> QED
    BY <1>2, <2>1
<1>10. \/ k > r.sp
       \/ k > b + 1 /\ k < b + Frame(P, l.func)
  BY <1>3, <1>4, <1>5, <1>6, <1>8, <1>9, StackAssumption
<1> QED
  BY <1>4, <1>6, <1>9, <1>10 DEF s

LEMMA OutlinedInUse ==
  ASSUME AllHaveOutlines, TypeOK, AllOutlined  PROVE FramesInUse
<1> SUFFICES ASSUME NEW p \in alive, frames[p] # <<>>
             PROVE  Last(frames[p]).top <= MachineOf(p).sp
  BY DEF FramesInUse
<1> DEFINE P == prog[p]
           F == frames[p]
           x == MachineOf(p)
           N == OutlineOf(P)
<1>1. /\ WellFormed(P) /\ Outlines(N, P) /\ Stands(P, N, F, Len(F), x)
      /\ OnOutline(P, N, F, x)
  BY OutlinedProc
<1>2. F \in Seq(Calls)
  BY <1>1, Zenon DEF OnOutline
<1>3. Len(F) > 0 /\ Last(F) = F[Len(F)] /\ Len(F) # 0
  BY <1>2, CallFields
<1> HIDE DEF F, x, P, N
<1>4. F[Len(F)].top = F[Len(F)].sp + Frame(P, Here(N, x).func)
  BY <1>1, <1>3, Zenon DEF Stands
<1>5. Base(F, Len(F)) + Frame(P, Here(N, x).func) <= x.sp
  BY <1>1, StandsWithin, Zenon
<1>6. Base(F, Len(F)) = F[Len(F)].sp
  BY <1>3, Zenon DEF Base
<1> QED
  BY <1>3, <1>4, <1>5, <1>6 DEF F, x

\* The words of the frames are not stored to.
LEMMA FramesApart ==
  ASSUME NEW P, NEW N, WellFormed(P), Outlines(N, P), NEW F, NEW r \in Machines,
         OnOutline(P, N, F, r), Kept(F, r), NEW I, I = Fetch(P, r), NEW i \in DOMAIN F
  PROVE  InstrStores(Advanced(r), I) \cap {F[i].sp + 1, F[i].top} = {}
<1> SUFFICES ASSUME NEW k \in InstrStores(Advanced(r), I), k \in {F[i].sp + 1, F[i].top}
             PROVE  FALSE
  OBVIOUS
<1> DEFINE n == Len(F)
           l == Here(N, r)
           b == Base(F, n)
           s == P.funcs[l.func].size
           w == Frame(P, l.func)
<1>1. F \in Seq(Calls) /\ Stands(P, N, F, n, r)
  BY Zenon DEF OnOutline
<1>2. /\ n \in Nat /\ n > 0 /\ i \in 1..n /\ n \in 1..n
      /\ F[i].sp \in Int /\ F[i].top \in Int /\ F[n].sp \in Int /\ F[n].top \in Int
  BY <1>1, CallFields
<1>3. F[n].top = F[n].sp + w /\ b = F[n].sp
  <2>1. b = F[n].sp
    BY <1>2 DEF Base
  <2> QED
    BY <1>1, <1>2, <2>1, Zenon DEF Stands
<1>4. /\ k \in Int /\ b \in Int /\ s \in Nat
      /\ k > r.sp \/ (k > b + 1 /\ k < b + w)
  BY StoresApart, Zenon
<1>5. /\ F[i].sp + 2 <= F[i].top /\ F[i].top <= r.sp /\ (i < n => F[i].top <= F[n].sp)
  BY <1>2, Zenon DEF Kept
<1>6. r.sp \in Int /\ w = s + 2
  BY PlaceType, Zenon DEF Frame
<1> HIDE DEF n, l, b, s, w
<1>7. CASE i = n
  BY <1>2, <1>3, <1>4, <1>5, <1>6, <1>7
<1>8. CASE i < n
  BY <1>2, <1>3, <1>4, <1>5, <1>6, <1>8
<1> QED
  BY <1>2, <1>7, <1>8

LEMMA OutlinedKeeps ==
  ASSUME AllHaveOutlines, TypeOK, AllOutlined, FramesInv  PROVE KeepsFrames
<1>1. FramesInUse
  BY OutlinedInUse
<1>2. ASSUME curr # NoPcb, InCode(prog[curr], Running), frames[curr] # <<>>
      PROVE  LET I == Fetch(prog[curr], Running)
             IN  /\ \A i \in DOMAIN frames[curr] :
                      InstrStores(Advanced(Running), I) \cap
                        {frames[curr][i].sp + 1, frames[curr][i].top} = {}
                 /\ I.op = "RET" => cpu.sp = Last(frames[curr]).top
  <2> DEFINE P == prog[curr]
             F == frames[curr]
             r == Running
             N == OutlineOf(P)
             I == Fetch(P, r)
  <2>1. /\ r \in Machines /\ WellFormed(P) /\ Outlines(N, P) /\ OnOutline(P, N, F, r)
        /\ curr \in alive /\ MachineOf(curr) = Live(P, r)
    BY <1>2, OutlinedRunning
  <2>2. F \in Seq(Calls) /\ Kept(F, r) /\ F # <<>>
    <3>1. F \in Seq(Calls) /\ Kept(F, MachineOf(curr)) /\ P.globals \in Nat
      BY <2>1, Zenon DEF FramesInv, OnOutline, WellFormed
    <3> QED
      BY <1>2, <2>1, <3>1, KeptLive
  <2>3. r.sp = cpu.sp
    BY DEF Running, On
  <2> HIDE DEF N, r, P, F
  <2>4. \A i \in DOMAIN F : InstrStores(Advanced(r), I) \cap {F[i].sp + 1, F[i].top} = {}
    BY <2>1, <2>2, FramesApart, Zenon
  <2>5. I.op = "RET" => r.sp = Last(F).top
    BY <2>1, <2>2, RetAtTop, Zenon
  <2> QED
    BY <2>3, <2>4, <2>5, Zenon DEF P, F, r
<1> QED
  BY <1>1, <1>2, Zenon DEF KeepsFrames, FramesInUse
-----------------------------------------------------------------------------
(* Programs with an outline read what they own *)

\* What the outline says of the operands that an instruction reads.
LEMMA ReadKind ==
  ASSUME NEW P, NEW N, WellFormed(P), Outlines(N, P), NEW x, LineNo(x) \in DOMAIN N.lines,
         NEW I, I = Fetch(P, x), NEW l, l = Here(N, x)
  PROVE  /\ I.op = "MOV" => IsFixed(I.args[1])
         /\ I.op \in {"MOV"} \cup ArithmeticOps => /\ I.args[2] \in Operands
                                                 /\ IsFixed(I.args[2])
                                                 /\ ReadsOwnWord(P, l, I.args[2])
         /\ I.op \in ArithmeticOps \cup {"PUSH"} => /\ I.args[1] \in Operands
                                                  /\ IsFixed(I.args[1])
                                                  /\ ReadsOwnWord(P, l, I.args[1])
         /\ I.op \in JumpOps => \A k \in 1..2 : /\ I.args[k] \in Operands
                                              /\ IsFixed(I.args[k])
                                              /\ ReadsOwnWord(P, l, I.args[k])
         /\ I.op \in JumpOps => IsTarget(I.args[3])
         /\ I.op = "JMP" => IsTarget(I.args[1])
         /\ I.op = "POP" => IsFixed(I.args[1])
<1> PICK i : i = LineNo(x)
  OBVIOUS
<1>1. i \in DOMAIN N.lines /\ I = P.code[i] /\ l = N.lines[i]
  BY Zenon DEF Fetch, LineNo, Here
<1>2. WellFormedInstr(P, I) /\ KeepsToLine(P, N, i)
  BY <1>1, LineFacts, Zenon
<1>3. /\ I.op \in {"MOV"} \cup ArithmeticOps => I.args[1] \in Operands /\ I.args[2] \in Operands
      /\ I.op \in JumpOps => \A k \in 1..2 : I.args[k] \in Operands
      /\ I.op = "PUSH" => I.args[1] \in Operands
  BY <1>2, SMT DEF WellFormedInstr
<1>4. I.op = "MOV" => IsFixed(I.args[1]) /\ IsFixed(I.args[2]) /\ ReadsOwnWord(P, l, I.args[2])
  BY <1>1, <1>2, Zenon DEF KeepsToLine
<1>5. I.op \in ArithmeticOps =>
        /\ IsFixed(I.args[1]) /\ IsFixed(I.args[2]) /\ ReadsOwnWord(P, l, I.args[2])
        /\ ReadsOwnWord(P, l, I.args[1])
  BY <1>1, <1>2, Zenon DEF KeepsToLine, ReadsOwnWord, StoresOwnWord
<1>6. /\ I.op \in JumpOps => /\ \A k \in 1..2 : IsFixed(I.args[k]) /\ ReadsOwnWord(P, l, I.args[k])
                            /\ IsTarget(I.args[3])
      /\ I.op = "JMP" => IsTarget(I.args[1])
      /\ I.op = "PUSH" => IsFixed(I.args[1]) /\ ReadsOwnWord(P, l, I.args[1])
      /\ I.op = "POP" => IsFixed(I.args[1])
  BY <1>1, <1>2, Zenon DEF KeepsToLine
<1>7. I.op \in {"MOV"} \cup ArithmeticOps => /\ I.args[2] \in Operands
                                          /\ IsFixed(I.args[2])
                                          /\ ReadsOwnWord(P, l, I.args[2])
  BY <1>3, <1>4, <1>5, Zenon
<1>8. I.op \in ArithmeticOps \cup {"PUSH"} => /\ I.args[1] \in Operands
                                           /\ IsFixed(I.args[1])
                                           /\ ReadsOwnWord(P, l, I.args[1])
  BY <1>3, <1>5, <1>6, Zenon
<1> QED
  BY <1>3, <1>4, <1>6, <1>7, <1>8, Zenon

\* An operand reads own words, and none to find them.
LEMMA OperandOwn ==
  ASSUME NEW P, NEW N, WellFormed(P), Outlines(N, P), NEW F, NEW r \in Machines,
         OnOutline(P, N, F, r), NEW o \in Operands, IsFixed(o), ReadsOwnWord(P, Here(N, r), o)
  PROVE  OperandReads(Advanced(r), o) \subseteq Sees(P.globals, r.sp)
<1> DEFINE a == Advanced(r)
           l == Here(N, r)
           b == Base(F, Len(F))
           s == P.funcs[l.func].size
<1>1. PlaceReads(a, o) = {}
  BY DEF PlaceReads, IsFixed
<1>2. CASE o.type # "ABS_STACK_INDEX"
  BY <1>1, <1>2 DEF OperandReads, IsFixed
<1>3. CASE o.type = "ABS_STACK_INDEX"
  <2>1. OperandReads(a, o) = {At(a, StackIndex(a, o))}
    BY <1>1, <1>3 DEF OperandReads
  <2>2. StackIndex(a, o) = o.value /\ o.value \in Int
    BY <1>3 DEF StackIndex, Operands, Literals
  <2>3. OwnIndex(P, l, o.value)
    BY <1>3, Zenon DEF ReadsOwnWord
  <2>4. a \in Machines /\ a.bp = r.bp
    BY AdvancedType, AdvancedPlace
  <2>5. /\ LineNo(r) \in DOMAIN N.lines /\ Stands(P, N, F, Len(F), r) /\ (l.bp => r.bp = b + 1)
    BY Zenon DEF OnOutline, Stands
  <2>6. /\ b \in Nat /\ b + Frame(P, l.func) <= r.sp /\ r.sp \in Nat
    BY <2>5, StandsWithin, Zenon
  <2>7. /\ P.funcs[l.func] \in [entry: Nat, size: Nat] /\ Frame(P, l.func) = s + 2
        /\ P.globals \in Nat
    BY <2>5, HereFunc, Zenon
  <2>8. s \in Nat /\ b \in Int
    BY <2>6, <2>7
  <2>9. At(a, o.value) \in Int
    BY <2>2, <2>4, AtInt
  <2> HIDE DEF a, l, b, s
  <2>10. \/ At(a, o.value) > StackWords - P.globals
         \/ At(a, o.value) > b + 1 /\ At(a, o.value) <= b + 1 + s
    <3>1. l.bp => a.bp = b + 1
      BY <2>4, <2>5
    <3> QED
      BY <2>2, <2>3, <2>7, <2>8, <3>1, OwnPlace, Zenon DEF s
  <2>11. At(a, o.value) <= r.sp \/ At(a, o.value) > StackWords - P.globals
    BY <2>6, <2>7, <2>8, <2>9, <2>10
  <2> QED
    BY <2>1, <2>2, <2>9, <2>11 DEF Sees, a
<1> QED
  BY <1>2, <1>3

\* RET finds the size of its frame, and reads the place to return to and the size of
\* the caller's frame below it.
LEMMA RetOwn ==
  ASSUME NEW P, NEW N, WellFormed(P), Outlines(N, P), NEW F, NEW r \in Machines,
         OnOutline(P, N, F, r), Kept(F, r), NEW I, I = Fetch(P, r), I.op = "RET"
  PROVE  InstrReads(Advanced(r), I) \subseteq Sees(P.globals, r.sp)
<1> DEFINE a == Advanced(r)
           c == Last(F)
           d == c.top - c.sp - 2
<1>1. a \in Machines /\ a.sp = r.sp /\ r.sp \in Int /\ Top(a) = Word(r, r.sp)
  BY AdvancedType, AdvancedPlace, PlaceType DEF Top, Word, Advanced, Machines
<1>2. F \in Seq(Calls) /\ F # <<>> /\ r.sp = c.top
  <2>1. F \in Seq(Calls)
    BY Zenon DEF OnOutline
  <2> QED
    BY <2>1, RetAtTop, Zenon
<1>3. /\ c.sp \in Int /\ c.top \in Int /\ c.sp + 2 <= c.top /\ Word(r, c.top) = 4 * d
  BY <1>2, CallFields DEF Kept
<1>4. Top(a) \div 4 = d /\ d \in Int /\ d >= 0
  <2>1. d \in Int /\ d >= 0
    BY <1>3
  <2>2. Top(a) = 4 * d
    BY <1>1, <1>2, <1>3, Zenon
  <2> HIDE DEF d
  <2> QED
    BY <2>1, <2>2
<1>5. InstrReads(a, I) = {a.sp, a.sp - (1 + Top(a) \div 4), a.sp - (1 + Top(a) \div 4) - 2}
  BY ReadCases, Zenon
<1>6. InstrReads(a, I) = {r.sp, r.sp - (1 + d), r.sp - (1 + d) - 2}
  BY <1>1, <1>4, <1>5, Zenon
<1> HIDE DEF d
<1>7. /\ r.sp - (1 + d) \in Int /\ r.sp - (1 + d) <= r.sp
      /\ r.sp - (1 + d) - 2 \in Int /\ r.sp - (1 + d) - 2 <= r.sp /\ r.sp <= r.sp
  BY <1>1, <1>4
<1> QED
  BY <1>1, <1>6, <1>7, Zenon DEF Sees

LEMMA InstrOwn ==
  ASSUME NEW P, NEW N, WellFormed(P), Outlines(N, P), NEW F, NEW r \in Machines,
         OnOutline(P, N, F, r), Kept(F, r), NEW I, I = Fetch(P, r)
  PROVE  InstrReads(Advanced(r), I) \subseteq Sees(P.globals, r.sp)
<1> PICK a, V : a = Advanced(r) /\ V = Sees(P.globals, r.sp)
  OBVIOUS
<1>1. LineNo(r) \in DOMAIN N.lines
  BY Zenon DEF OnOutline, Stands
<1>2. ASSUME NEW o \in Operands, IsFixed(o), ReadsOwnWord(P, Here(N, r), o)
      PROVE  OperandReads(a, o) \subseteq V
  BY <1>2, OperandOwn, Zenon
<1>3. ASSUME NEW o, IsFixed(o)  PROVE PlaceReads(a, o) = {}
  BY <1>3 DEF PlaceReads, IsFixed
<1>4. ASSUME NEW o, IsTarget(o)  PROVE OperandReads(a, o) = {}
  BY <1>4 DEF OperandReads, PlaceReads, IsTarget
<1>5. r.sp \in V /\ a.sp = r.sp
  BY PlaceType, AdvancedPlace DEF Sees
<1>6. CASE I.op = "MOV"
  <2>1. /\ IsFixed(I.args[1]) /\ I.args[2] \in Operands /\ IsFixed(I.args[2])
        /\ ReadsOwnWord(P, Here(N, r), I.args[2])
    BY <1>1, <1>6, ReadKind, Zenon
  <2>2. InstrReads(a, I) = PlaceReads(a, I.args[1]) \cup OperandReads(a, I.args[2])
    BY <1>6, ReadCases, Zenon
  <2> QED
    BY <1>2, <1>3, <2>1, <2>2
<1>7. CASE I.op \in ArithmeticOps
  <2>1. /\ I.args[1] \in Operands /\ IsFixed(I.args[1]) /\ ReadsOwnWord(P, Here(N, r), I.args[1])
        /\ I.args[2] \in Operands /\ IsFixed(I.args[2]) /\ ReadsOwnWord(P, Here(N, r), I.args[2])
    BY <1>1, <1>7, ReadKind, Zenon
  <2>2. InstrReads(a, I) = UNION {OperandReads(a, I.args[i]) : i \in 1..2}
    BY <1>7, ReadCases, SMT
  <2>3. OperandReads(a, I.args[1]) \subseteq V /\ OperandReads(a, I.args[2]) \subseteq V
    BY <1>2, <2>1
  <2>4. \A i \in 1..2 : i = 1 \/ i = 2
    OBVIOUS
  <2> QED
    BY <2>2, <2>3, <2>4
<1>8. CASE I.op \in JumpOps
  <2>1. \A i \in 1..2 : /\ I.args[i] \in Operands /\ IsFixed(I.args[i])
                        /\ ReadsOwnWord(P, Here(N, r), I.args[i])
    BY <1>1, <1>8, ReadKind, Zenon
  <2>2. IsTarget(I.args[3])
    BY <1>1, <1>8, ReadKind, Zenon
  <2>3. InstrReads(a, I) = UNION {OperandReads(a, I.args[i]) : i \in 1..3}
    BY <1>8, ReadCases, SMT
  <2>4. \A i \in 1..2 : OperandReads(a, I.args[i]) \subseteq V
    BY <1>2, <2>1
  <2>5. OperandReads(a, I.args[3]) = {}
    BY <1>4, <2>2
  <2>6. \A i \in 1..3 : i \in 1..2 \/ i = 3
    OBVIOUS
  <2> QED
    BY <2>3, <2>4, <2>5, <2>6
<1>9. CASE I.op = "JMP"
  <2>1. IsTarget(I.args[1])
    BY <1>1, <1>9, ReadKind, Zenon
  <2>2. InstrReads(a, I) = OperandReads(a, I.args[1])
    BY <1>9, ReadCases, SMT
  <2> QED
    BY <1>4, <2>1, <2>2
<1>10. CASE I.op = "PUSH"
  <2>1. I.args[1] \in Operands /\ IsFixed(I.args[1]) /\ ReadsOwnWord(P, Here(N, r), I.args[1])
    BY <1>1, <1>10, ReadKind, Zenon
  <2>2. InstrReads(a, I) = OperandReads(a, I.args[1])
    BY <1>10, ReadCases, SMT
  <2> QED
    BY <1>2, <2>1, <2>2
<1>11. CASE I.op = "POP"
  <2>1. IsFixed(I.args[1])
    BY <1>1, <1>11, ReadKind, Zenon
  <2>2. InstrReads(a, I) = {a.sp} \cup PlaceReads(a, I.args[1])
    BY <1>11, ReadCases, SMT
  <2> QED
    BY <1>3, <1>5, <2>1, <2>2
<1>12. CASE I.op = "RET"
  BY <1>12, RetOwn, Zenon
<1>13. CASE I.op \notin {"MOV", "JMP", "PUSH", "POP", "RET"} \cup ArithmeticOps \cup JumpOps
  <2>1. InstrReads(a, I) = {}
    BY <1>13, SMT DEF InstrReads
  <2> QED
    BY <2>1
<1> QED
  BY <1>6, <1>7, <1>8, <1>9, <1>10, <1>11, <1>12, <1>13

LEMMA OutlinedReads ==
  ASSUME AllHaveOutlines, TypeOK, AllOutlined, FramesInv  PROVE ReadsOwn
<1> SUFFICES ASSUME curr # NoPcb, InCode(prog[curr], Running),
                    NEW k \in InstrReads(Advanced(Running), Fetch(prog[curr], Running))
             PROVE  k <= cpu.sp \/ k > StackWords - prog[curr].globals
  BY DEF ReadsOwn
<1> DEFINE P == prog[curr]
           F == frames[curr]
           r == Running
           N == OutlineOf(P)
<1>1. /\ r \in Machines /\ WellFormed(P) /\ Outlines(N, P) /\ OnOutline(P, N, F, r)
      /\ curr \in alive /\ MachineOf(curr) = Live(P, r)
  BY OutlinedRunning
<1>2. Kept(F, r)
  <2>1. F \in Seq(Calls) /\ Kept(F, MachineOf(curr)) /\ P.globals \in Nat
    BY <1>1, Zenon DEF FramesInv, OnOutline, WellFormed
  <2> QED
    BY <1>1, <2>1, KeptLive
<1>3. r.sp = cpu.sp
  BY DEF Running, On
<1> HIDE DEF N
<1>4. k \in Sees(P.globals, r.sp)
  BY <1>1, <1>2, InstrOwn, Zenon
<1> QED
  BY <1>3, <1>4 DEF Sees

\* No process executes anything but its code.
LEMMA OutlinedCode ==
  ASSUME AllHaveOutlines, TypeOK, AllOutlined  PROVE WithinCode
<1> SUFFICES ASSUME curr # NoPcb
             PROVE  InCode(prog[curr], Running)
  BY DEF WithinCode
<1> DEFINE P == prog[curr]
           N == OutlineOf(P)
<1>1. WellFormed(P) /\ Outlines(N, P) /\ OnOutline(P, N, frames[curr], Running)
  BY OutlinedRunning
<1> HIDE DEF P, N
<1>2. LineNo(Running) \in DOMAIN N.lines
  BY <1>1, Zenon DEF OnOutline, Stands
<1>3. InCode(P, Running)
  BY <1>1, <1>2, Kind, Zenon
<1> QED
  BY <1>3 DEF P
-----------------------------------------------------------------------------
(* The theorems *)

\* The invariant of all programs with outlines.
OutlinesKept == TypeOK /\ AllOutlined /\ FramesInv

LEMMA OutlinesKeptFacts ==
  ASSUME AllHaveOutlines, OutlinesKept
  PROVE  WithinStack /\ ReadsOwn /\ KeepsFrames /\ WithinCode
BY OutlinedWithin, OutlinedReads, OutlinedKeeps, OutlinedCode DEF OutlinesKept

LEMMA OutlinesAlways ==
  ASSUME AllHaveOutlines  PROVE Spec => []OutlinesKept
<1>1. Init => AllOutlined /\ FramesInv
  BY InitOutlined, InitFrames
<1>2. TypeOK /\ AllOutlined => WithinStack /\ FramesInUse
  BY OutlinedWithin, OutlinedInUse
<1>3. TypeOK /\ AllOutlined /\ FramesInv => KeepsFrames
  BY OutlinedKeeps
<1>4. TypeOK /\ AllOutlined /\ FramesInv /\ TypeOK' /\ [Next]_vars => AllOutlined'
  BY OutlinedStep
<1>5. TypeOK /\ WithinStack /\ KeepsFrames /\ TypeOK' /\ WithinStack' /\ FramesInUse'
        /\ FramesInv /\ [Next]_vars => FramesInv'
  BY FramesInvStep
<1> QED
  BY <1>1, <1>2, <1>3, <1>4, <1>5, TypeCorrect, PTL DEF Spec, OutlinesKept

\* Between the words in use and the global variables there is always room for the
\* context that an interrupt pushes: for all programs that keep to an outline.
THEOREM WithinStackHolds ==
  ASSUME AllHaveOutlines  PROVE Spec => []WithinStack
<1>1. OutlinesKept => WithinStack
  BY OutlinesKeptFacts
<1> QED
  BY <1>1, OutlinesAlways, PTL

\* Instructions of such programs read nothing but words in use and global variables,
\* never what contexts and frames that are gone have left.
THEOREM ReadsOwnHolds ==
  ASSUME AllHaveOutlines  PROVE Spec => []ReadsOwn
<1>1. OutlinesKept => ReadsOwn
  BY OutlinesKeptFacts
<1> QED
  BY <1>1, OutlinesAlways, PTL

\* ... and neither pop nor overwrite the frames of the functions that are being executed.
THEOREM KeepsFramesHolds ==
  ASSUME AllHaveOutlines  PROVE Spec => []KeepsFrames
<1>1. OutlinesKept => KeepsFrames
  BY OutlinesKeptFacts
<1> QED
  BY <1>1, OutlinesAlways, PTL

\* The processor never fetches the strings and tables behind the code: RET, too, comes
\* back to a line of the caller, however often contexts have been saved on that stack.
THEOREM WithinCodeHolds ==
  ASSUME AllHaveOutlines  PROVE Spec => []WithinCode
<1>1. OutlinesKept => WithinCode
  BY OutlinesKeptFacts
<1> QED
  BY <1>1, OutlinesAlways, PTL

\* The process that has the CPU finds the tables of its own program: there is nothing
\* left to assume about executions.
THEOREM OwnSegmentsOutlined ==
  ASSUME AllHaveOutlines  PROVE Spec => []OwnSegments
BY WithinStackHolds, OwnSegmentsHolds, PTL

\* A function returns with the stack and at the place of its call.
THEOREM StackRestoredOutlined ==
  ASSUME AllHaveOutlines  PROVE Spec => StackRestored
BY WithinStackHolds, KeepsFramesHolds, StackRestoredHolds, PTL

\* No process notices the interrupts, or the instructions of the others, unless one ends
\* itself by PROCESSDELETE.
THEOREM UnnoticedOutlined ==
  ASSUME AllHaveOutlines, ~SelfDelete  PROVE Spec => Unnoticed
BY WithinStackHolds, UnnoticedHolds, PTL

\* ... so that each process has a processor of its own, module VirtualCpus.
THEOREM OwnProcessorOutlined ==
  ASSUME AllHaveOutlines, ~SelfDelete  PROVE Spec => OwnProcessor
BY WithinStackHolds, ReadsOwnHolds, OwnProcessorHolds, PTL
=============================================================================
