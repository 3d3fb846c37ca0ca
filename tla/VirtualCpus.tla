---------------------------- MODULE VirtualCpus ----------------------------
(***************************************************************************)
(* What the processor and the kernel promise together: every process has a *)
(* processor of its own.  Its registers and the part of the stack that it  *)
(* can see are changed by its own instructions only, and by them as if no  *)
(* other process and no interrupt existed.                                 *)
(*                                                                         *)
(* Which process runs next is left open, and so are the results of kernel  *)
(* calls and the contents of variables that nobody has written.            *)
(***************************************************************************)
EXTENDS Machine

CONSTANTS Procs,         \* pids
          Idle,          \* the pid of the idle process
          Programs,
          IdleProgram,
          Results,       \* what kernel calls leave in register 1
          Junk           \* what memory holds that nobody has written

VARIABLES alive,         \* the processes that exist
          blocked,       \* those that wait for something
          prog,          \* the program of each
          machine        \* the processor and the stack of each

vars == <<alive, blocked, prog, machine>>

\* The machine of a pid that no process has.
Blank == [pc |-> 0, bp |-> 0, sp |-> 0, reg |-> [r \in Regs |-> 0],
          seg |-> [i \in 1..4 |-> 0], mem |-> [k \in Positions |-> 0]]

Fresh(P) == {Live(P, Loaded(P, junk)) : junk \in Junk}

Init ==
  /\ alive = {Idle}
  /\ blocked = {}
  /\ prog = [p \in Procs |-> IdleProgram]
  /\ \E f \in Fresh(IdleProgram) :
        machine = [p \in Procs |-> IF p = Idle THEN f ELSE Blank]

Runs(p)  == p \in alive \ blocked
Instr(p) == Fetch(prog[p], machine[p])
Name(p)  == CallName(prog[p], machine[p])

\* The variables of a function that is called are not initialised.
Unwritten(p, m) == IF Instr(p).op = "CALL" THEN machine[p].sp + 2 .. m.sp - 1 ELSE {}

Execute(p) ==
  /\ UNCHANGED <<alive, blocked, prog>>
  /\ Runs(p) /\ Instr(p).op \in OwnOps
  /\ LET m == Live(prog[p], Executed(prog[p], machine[p]))
     IN  machine' = [machine EXCEPT ![p] =
           [m EXCEPT !.mem = [k \in Positions |->
              IF k \in Unwritten(p, m) THEN machine'[p].mem[k] ELSE m.mem[k]]]]

Result(p, r) == Live(prog[p], Called(machine[p], Name(p), r))

\* A kernel call that concerns no other process, or wakes some.
CallKernel(p) ==
  /\ UNCHANGED <<alive, prog>>
  /\ blocked' \subseteq blocked
  /\ Runs(p) /\ Instr(p).op = "CALLCORE"
  /\ \E r \in Results : machine' = [machine EXCEPT ![p] = Result(p, r)]

\* A process q with program P appears.
Appears(q, P) ==
  /\ q \notin alive
  /\ alive' = alive \cup {q}
  /\ prog' = [prog EXCEPT ![q] = P]
  /\ UNCHANGED blocked

\* Process q is gone.
Disappears(q) ==
  /\ q \in alive
  /\ alive' = alive \ {q} /\ blocked' = blocked \ {q}
  /\ prog' = [prog EXCEPT ![q] = IdleProgram]

\* A kernel call that creates a process, and gives its pid.
CallCreate(p, q, P) ==
  /\ Appears(q, P)
  /\ Runs(p) /\ Instr(p).op = "CALLCORE" /\ Name(p) = "PROCESSCREATE"
  /\ \E f \in Fresh(P) : machine' = [machine EXCEPT ![p] = Result(p, q), ![q] = f]

\* A kernel call that ends the process whose pid it is given, in 16 bits.
CallDelete(p, q) ==
  /\ Disappears(q) /\ q # p
  /\ Runs(p) /\ Instr(p).op = "CALLCORE" /\ Name(p) = "PROCESSDELETE"
  /\ Top(machine[p]) % 65536 = q
  /\ machine' = [machine EXCEPT ![p] = Result(p, 0), ![q] = Blank]

\* A pause, or a kernel call that waits; it has no result.
Wait(p) ==
  /\ blocked' = blocked \cup {p}
  /\ UNCHANGED <<alive, prog>>
  /\ Runs(p)
  /\ \/ /\ Instr(p).op = "PAUSE"
        /\ machine' = [machine EXCEPT ![p] = Advanced(@)]
     \/ /\ Instr(p).op = "CALLCORE" /\ Name(p) = "SEMPEND"
        /\ machine' = [machine EXCEPT ![p] = Result(p, 0)]

\* The end of a process that quits, or is killed from the shell.
End(p) ==
  /\ Disappears(p)
  /\ machine' = [machine EXCEPT ![p] = Blank]

\* The shell creates a process.
Create(q, P) ==
  /\ Appears(q, P)
  /\ \E f \in Fresh(P) : machine' = [machine EXCEPT ![q] = f]

\* Time limits end.
Wake ==
  /\ blocked' \subseteq blocked
  /\ UNCHANGED <<alive, prog, machine>>

Next ==
  \/ Wake
  \/ \E p \in Procs : Execute(p)
  \/ \E p \in Procs : CallKernel(p)
  \/ \E p \in Procs : Wait(p)
  \/ \E p \in Procs : End(p)
  \/ \E p, q \in Procs : CallDelete(p, q)
  \/ \E q \in Procs, P \in Programs : Create(q, P)
  \/ \E p, q \in Procs, P \in Programs : CallCreate(p, q, P)

Spec == Init /\ [][Next]_vars
=============================================================================
