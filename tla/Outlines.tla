------------------------------ MODULE Outlines ------------------------------
(***************************************************************************)
(* Programs that keep to their stack.  Nothing in the processor checks     *)
(* what a program does to its stack; this module says what would have to   *)
(* be checked, once and without executing the program.                     *)
(*                                                                         *)
(* An outline N of a program P says for each instruction that control may  *)
(* come to in which function it is (func, an index of P.funcs), how many   *)
(* words the stack of the function then has, its frame included (words),   *)
(* and whether BP is known to be at the frame (bp: after a function has    *)
(* returned it need not be, see Ret).  And it says for each function how   *)
(* many words it and all the functions that it calls take at most (room),  *)
(* which excludes recursion.                                               *)
(***************************************************************************)
EXTENDS Machine

Frame(P, f) == P.funcs[f].size + 2
MainFunc(P) == P.main + 1

\* Control may go from line l on to instruction j, with that many words.
GoesOn(N, l, j, words, bp) ==
  /\ j \in DOMAIN N.lines
  /\ N.lines[j].func = l.func
  /\ N.lines[j].words = words
  /\ N.lines[j].bp => bp

\* Stack index i is that of a global variable, or of a local one that is found.
OwnIndex(P, l, i) ==
  IF i >= 0 THEN i < P.globals ELSE l.bp /\ -i <= P.funcs[l.func].size

\* An operand that is read, and one that is stored to.  (Literals and, in arithmetic,
\* registers stand for the variable at index 0 then.)
ReadsOwnWord(P, l, o)  == o.type = "ABS_STACK_INDEX" => OwnIndex(P, l, o.value)
StoresOwnWord(P, l, o) == OwnIndex(P, l, IF o.type = "ABS_STACK_INDEX" THEN o.value ELSE 0)

\* Where arrays are indexed by variables, no outline can tell.
IsFixed(o) == o.type # "REL_STACK_INDEX"

IsTarget(o) == o.type = "INSTR_INDEX"

\* The first line of function g, and room for it on the stack of its caller.
Enters(P, N, l, g) ==
  LET e == P.funcs[g].entry + 1
  IN  /\ e \in DOMAIN N.lines /\ N.lines[e].func = g /\ N.lines[e].words = Frame(P, g)
      /\ g # MainFunc(P)
      /\ l.words + N.room[g] <= N.room[l.func]

\* The line after the call, to which g returns: BP is anywhere then.
ReturnsTo(N, l, j) == GoesOn(N, l, j, l.words, l.bp) /\ ~N.lines[j].bp

\* Instruction i does what its line says.
KeepsToLine(P, N, i) ==
  LET I == P.code[i]
      l == N.lines[i]
      next(words, bp) == GoesOn(N, l, i + 1, words, bp)
      goto(o) == IsTarget(o) /\ GoesOn(N, l, o.value + 1, l.words, l.bp)
  IN  /\ I.op = "MOV" =>
           /\ IsFixed(I.args[1]) /\ IsFixed(I.args[2]) /\ ReadsOwnWord(P, l, I.args[2])
           /\ I.args[1].type = "REG" \/ StoresOwnWord(P, l, I.args[1])
      /\ I.op \in ArithmeticOps =>
           /\ IsFixed(I.args[1]) /\ IsFixed(I.args[2])
           /\ ReadsOwnWord(P, l, I.args[2]) /\ StoresOwnWord(P, l, I.args[1])
      /\ I.op \in {"MOV", "IRET", "PAUSE"} \cup ArithmeticOps \cup JumpOps => next(l.words, l.bp)
      /\ I.op = "JMP" => goto(I.args[1])
      /\ I.op \in JumpOps =>
           /\ \A k \in 1..2 : IsFixed(I.args[k]) /\ ReadsOwnWord(P, l, I.args[k])
           /\ goto(I.args[3])
      /\ I.op = "PUSH" => /\ IsFixed(I.args[1]) /\ ReadsOwnWord(P, l, I.args[1])
                          /\ next(l.words + 1, l.bp)
      /\ I.op = "POP" => /\ IsFixed(I.args[1])
                         /\ I.args[1].type = "REG" \/ StoresOwnWord(P, l, I.args[1])
                         /\ next(l.words - 1, l.bp)
      /\ I.op = "CALL" =>
           /\ Enters(P, N, l, I.args[1].value + 1)
           /\ ReturnsTo(N, l, i + 1)
      /\ I.op = "RET" => l.words = Frame(P, l.func) /\ l.func # MainFunc(P)
      /\ I.op = "CALLCORE" => next(l.words - Pops(I.args[1].value), l.bp)

\* P keeps to the outline N, and N to the stack.
Outlines(N, P) ==
  /\ DOMAIN N.lines \subseteq DOMAIN P.code
  /\ \A i \in DOMAIN N.lines :
       LET l == N.lines[i]
       IN  /\ l.func \in DOMAIN P.funcs /\ l.words \in Nat /\ l.bp \in BOOLEAN
           /\ Frame(P, l.func) <= l.words /\ l.words <= N.room[l.func]
           /\ KeepsToLine(P, N, i)
  /\ \A f \in DOMAIN P.funcs : N.room[f] \in Nat
  /\ LET e == P.funcs[MainFunc(P)].entry + 1
     IN  e \in DOMAIN N.lines /\ N.lines[e].func = MainFunc(P)
           /\ N.lines[e].words = Frame(P, MainFunc(P))
  /\ N.room[MainFunc(P)] + P.globals + ContextWords <= StackWords

\* P has an outline.
Outlined(P) == \E N : Outlines(N, P)
=============================================================================
