----------------------------- MODULE Processor -----------------------------
(***************************************************************************)
(* The processor, Processor::exec, with the processes' stacks and the part *)
(* of the kernel that saves and reloads contexts.  One step is one         *)
(* instruction, with the kernel call that it makes, or one interrupt,      *)
(* which is served between two instructions.                               *)
(*                                                                         *)
(* The scheduler is abstracted to a choice: any process that is ready gets *)
(* the CPU, or the idle one if there is none (module OSCore has the lists).*)
(* So are the semaphores, and the results of kernel calls.                 *)
(*                                                                         *)
(* All stacks have StackWords words, so that mSS is the same for all, and  *)
(* the tables of the program are looked up by the pid of the current       *)
(* process: OwnSegments says that the segment registers point to them.     *)
(***************************************************************************)
EXTENDS Machine, SequencesExt

CONSTANTS Procs,         \* pids
          Idle,          \* the pid of the idle process
          ShellPrograms, \* what the shell starts
          Programs,      \* ... and what programs start
          IdleProgram,
          Results,       \* what kernel calls leave in register 1
          Junk,          \* what memory holds that nobody has written
          SelfDelete     \* whether programs end themselves by PROCESSDELETE also
                         \* when that changes a register of another process

NoPcb    == 0            \* a NULL OSPcb*
PID_CURR == 65535

\* The blocks of OSPcbManager: pids fit the INT8 that processCreate returns.
MAXIMUM_TASKS == 64

ASSUME ProcsAssumption == Procs \subseteq 1..MAXIMUM_TASKS /\ Idle \in Procs
AllPrograms == Programs \cup ShellPrograms \cup {IdleProgram}

ASSUME ProgramsAssumption == \A P \in AllPrograms : WellFormed(P)
ASSUME DataAssumption == Results \subseteq Int /\ Junk \subseteq Int
ASSUME SelfDeleteAssumption == SelfDelete \in BOOLEAN

VARIABLES cpu,           \* mPC, mBP, mSP, mReg; and mCS, mDS, mFS, mAS as seg
          curr,          \* the current process
          alive,         \* the processes that exist
          blocked,       \* those in the waiting list
          prog,          \* the program each was loaded with
          mem,           \* their stacks
          stackTop,      \* OSPcb's stack top: SP when the context was saved
          frames         \* history: of each call not yet returned from, BP, SP and PC
                         \* before it and, in top, SP after it

vars == <<cpu, curr, alive, blocked, prog, mem, stackTop, frames>>

CpuOf(m) == [pc |-> m.pc, bp |-> m.bp, sp |-> m.sp, reg |-> m.reg, seg |-> m.seg]
On(c, w) == [pc |-> c.pc, bp |-> c.bp, sp |-> c.sp, reg |-> c.reg, seg |-> c.seg, mem |-> w]
Reset    == [pc |-> 0, bp |-> 0, sp |-> 0, reg |-> [r \in Regs |-> 0], seg |-> [i \in 1..4 |-> 0]]

\* The machine of the current process, and of one whose context is saved.
Running   == On(cpu, mem[curr])
Resumed(p) == ReloadContext(On([cpu EXCEPT !.sp = stackTop[p]], mem[p]))

\* loadExecFile.
Load(p, P) ==
  \E junk \in Junk :
     LET saved == SaveContext(Loaded(P, junk))
     IN  /\ prog' = [prog EXCEPT ![p] = P]
         /\ stackTop' = [stackTop EXCEPT ![p] = saved.sp]
         /\ mem' = [mem EXCEPT ![p] = saved.mem]
         /\ frames' = [frames EXCEPT ![p] = <<>>]

Init ==
  /\ cpu = Reset
  /\ curr = NoPcb
  /\ alive = {Idle}
  /\ blocked = {}
  /\ prog = [p \in Procs |-> IdleProgram]
  /\ \E junk \in Junk :
        LET saved == SaveContext(Loaded(IdleProgram, junk))
        IN  /\ stackTop = [p \in Procs |-> IF p = Idle THEN saved.sp ELSE 0]
            /\ mem = [p \in Procs |-> IF p = Idle THEN saved.mem ELSE [k \in Positions |-> 0]]
  /\ frames = [p \in Procs |-> <<>>]

\* The PCB and the memory of a process that has ended are not read again before
\* loadExecFile fills them: the model forgets them at once.
Forget(p) ==
  /\ prog' = [prog EXCEPT ![p] = IdleProgram]
  /\ stackTop' = [stackTop EXCEPT ![p] = 0]
  /\ mem' = [mem EXCEPT ![p] = [k \in Positions |-> 0]]
  /\ frames' = [frames EXCEPT ![p] = <<>>]

\* Who may get the CPU when `c' does not keep it, the processes in A existing and
\* those in B being blocked.
Ready(c, A, B) == A \ (B \cup {c, Idle})
Chosen(c, A, B) == IF Ready(c, A, B) = {} THEN {Idle} ELSE Ready(c, A, B)

\* Mutant: the segment registers are left alone.
DispatchKeepsSegments(n) ==
  /\ curr' = n
  /\ cpu' = [CpuOf(ReloadContext(On([cpu EXCEPT !.sp = stackTop'[n]], mem'[n])))
               EXCEPT !.seg = cpu.seg]

\* reloadContext of process n, from the stacks and tops that the step leaves.
Dispatch(n) ==
  /\ curr' = n
  /\ cpu' = CpuOf(ReloadContext(On([cpu EXCEPT !.sp = stackTop'[n]], mem'[n])))

\* OSCore::start.
Start ==
  /\ curr = NoPcb
  /\ UNCHANGED <<alive, blocked, prog, mem, stackTop, frames>>
  /\ \E n \in Chosen(NoPcb, alive, blocked) : Dispatch(n)

\* The current process leaves the CPU, the machine being `m'.
SwitchFrom(m) ==
  LET saved == SaveContext(m)
  IN  /\ mem' = [mem EXCEPT ![curr] = saved.mem]
      /\ stackTop' = [stackTop EXCEPT ![curr] = saved.sp]
-----------------------------------------------------------------------------
(* Instructions *)

Executing(op) ==
  curr # NoPcb /\ InCode(prog[curr], Running) /\ Fetch(prog[curr], Running).op = op
Calling(name) == Executing("CALLCORE") /\ CallName(prog[curr], Running) = name

History(op) ==
  IF op = "CALL"
  THEN Append(frames[curr], [bp |-> cpu.bp, sp |-> cpu.sp, pc |-> cpu.pc + INSTR_LEN,
                             top |-> Executed(prog[curr], Running).sp])
  ELSE IF op = "RET" THEN SubSeq(frames[curr], 1, Len(frames[curr]) - 1)
  ELSE frames[curr]

\* An instruction that makes no kernel call.
Execute ==
  \E op \in OwnOps :
     LET m == Executed(prog[curr], Running)
     IN  /\ Executing(op) /\ ~Traps(prog[curr], Running)
         /\ cpu' = CpuOf(m)
         /\ mem' = [mem EXCEPT ![curr] = m.mem]
         /\ frames' = [frames EXCEPT ![curr] = History(op)]
         /\ UNCHANGED <<curr, alive, blocked, prog, stackTop>>

\* The argument of api_process_delete becomes an UINT16.
ToDelete == Top(Running) % 65536

CallResult(r) == CpuOf(Called(Running, CallName(prog[curr], Running), r))

\* A kernel call that changes nothing but the registers: a call that fails, does
\* nothing or prints, and those on semaphores that neither wait nor wake.
CallKernel ==
  /\ Executing("CALLCORE")
  /\ Calling("PROCESSDELETE") => ToDelete \notin alive \cup {PID_CURR}
  /\ \E r \in Results : cpu' = CallResult(r)
  /\ UNCHANGED <<curr, alive, blocked, prog, mem, stackTop, frames>>

\* api_sem_post that wakes a process.
CallWakes ==
  /\ Calling("SEMPOST")
  /\ \E p \in blocked : blocked' = blocked \ {p}
  /\ cpu' = CallResult(0)
  /\ UNCHANGED <<curr, alive, prog, mem, stackTop, frames>>

\* api_process_create of a file that loads.
CallCreates(p, P) ==
  /\ Calling("PROCESSCREATE")
  /\ p \notin alive
  /\ Load(p, P)
  /\ alive' = alive \cup {p}
  /\ cpu' = CallResult(p)
  /\ UNCHANGED <<curr, blocked>>

\* api_process_delete of another process.
CallDeletes(p) ==
  /\ Calling("PROCESSDELETE")
  /\ p = ToDelete /\ p \in alive \ {curr, Idle}
  /\ alive' = alive \ {p} /\ blocked' = blocked \ {p}
  /\ Forget(p)
  /\ cpu' = CallResult(0)
  /\ UNCHANGED curr

\* processDelete of the current process: another one gets the CPU, and the
\* context is not saved.
Leave ==
  /\ curr # Idle
  /\ alive' = alive \ {curr}
  /\ curr' \in Chosen(curr, alive, blocked)
  /\ Forget(curr)
  /\ UNCHANGED blocked

\* Mutant: processQuit does nothing.
QuitGoesOn ==
  /\ Executing("QUIT")
  /\ cpu' = CpuOf(Advanced(Running))
  /\ UNCHANGED <<curr, alive, blocked, prog, mem, stackTop, frames>>

\* QUIT: processQuit.
Quit ==
  /\ Executing("QUIT")
  /\ Leave
  /\ cpu' = CpuOf(Resumed(curr'))

\* api_process_delete of the current process.  The result is left in register 1
\* of the process that has got the CPU.
CallDeletesSelf ==
  /\ Calling("PROCESSDELETE")
  /\ ToDelete \in {curr, PID_CURR}
  /\ Leave
  /\ cpu' = [CpuOf(Resumed(curr')) EXCEPT !.reg[1] = 0]
  /\ SelfDelete \/ Resumed(curr').reg[1] = 0

\* The current process waits, the machine being `m'.  (IDLE.FSE neither waits nor
\* ends.)
Block(m) ==
  /\ curr # Idle
  /\ SwitchFrom(m)
  /\ blocked' = blocked \cup {curr}
  /\ \E n \in Chosen(curr, alive, blocked) : Dispatch(n)
  /\ UNCHANGED <<alive, prog, frames>>

\* PAUSE: processDelay.
Pause ==
  /\ Executing("PAUSE")
  /\ Block(Advanced(Running))

\* api_sem_pend without a unit there.
CallWaits ==
  /\ Calling("SEMPEND")
  /\ Block(Called(Running, "SEMPEND", 0))
-----------------------------------------------------------------------------
(* Interrupts and the shell *)

\* Mutant: the context is not saved.
InterruptUnsaved ==
  /\ curr # NoPcb
  /\ \E W \in SUBSET blocked : blocked' = blocked \ W
  /\ \E n \in {curr} \cup Ready(curr, alive, blocked') :
        /\ curr' = n
        /\ cpu' = CpuOf(Resumed(n))
  /\ UNCHANGED <<alive, prog, mem, stackTop, frames>>

\* callIntService(0): time limits end, and at the end of the slice another ready
\* process gets the CPU.
Interrupt ==
  /\ curr # NoPcb
  /\ \E W \in SUBSET blocked : blocked' = blocked \ W
  /\ SwitchFrom(Running)
  /\ \E n \in {curr} \cup Ready(curr, alive, blocked') : Dispatch(n)
  /\ UNCHANGED <<alive, prog, frames>>

\* processCreate, called by the shell.
ShellCreate(p, P) ==
  /\ p \notin alive
  /\ Load(p, P)
  /\ alive' = alive \cup {p}
  /\ UNCHANGED <<cpu, curr, blocked>>

\* Mutant: the process stays in the waiting list.
ShellKillStaysBlocked(p) ==
  /\ p \in alive \ {curr, Idle}
  /\ alive' = alive \ {p}
  /\ Forget(p)
  /\ UNCHANGED <<blocked, cpu, curr>>

\* processDelete, called by the shell, of a process that is not executing.
ShellKill(p) ==
  /\ p \in alive \ {curr, Idle}
  /\ alive' = alive \ {p} /\ blocked' = blocked \ {p}
  /\ Forget(p)
  /\ UNCHANGED <<cpu, curr>>
-----------------------------------------------------------------------------
Next ==
  \/ Start
  \/ Execute
  \/ CallKernel
  \/ CallWakes
  \/ \E p \in Procs, P \in Programs : CallCreates(p, P)
  \/ \E p \in Procs : CallDeletes(p)
  \/ CallDeletesSelf
  \/ Quit
  \/ Pause
  \/ CallWaits
  \/ Interrupt
  \/ \E p \in Procs, P \in ShellPrograms : ShellCreate(p, P)
  \/ \E p \in Procs : ShellKill(p)

Spec == Init /\ [][Next]_vars
-----------------------------------------------------------------------------
TypeOK ==
  /\ cpu \in Registers
  /\ curr \in Procs \cup {NoPcb}
  /\ alive \subseteq Procs /\ Idle \in alive
  /\ blocked \subseteq alive \ {curr, Idle}
  /\ curr # NoPcb => curr \in alive
  /\ prog \in [Procs -> AllPrograms]
  /\ mem \in [Procs -> [Positions -> Int]]
  /\ stackTop \in [Procs -> Int]

\* The machine of each process, wherever it is.
Blank == On(Reset, [k \in Positions |-> 0])
Saved(p, i) == mem[p][stackTop[p] - ContextWords + i]
Visible(p, sp) == [k \in Positions |->
  IF k <= sp \/ k > StackWords - prog[p].globals THEN mem[p][k] ELSE 0]
MachineOf(p) ==
  IF p \notin alive THEN Blank
  ELSE IF p = curr THEN On(cpu, Visible(p, cpu.sp))
  ELSE [pc  |-> Saved(p, 10), bp |-> Saved(p, 9), sp |-> stackTop[p] - ContextWords,
        reg |-> [r \in Regs |-> Saved(p, r + 1)],
        seg |-> [i \in 1..4 |-> Saved(p, i + 4)],
        mem |-> Visible(p, stackTop[p] - ContextWords)]

\* A process that has or is given the CPU finds the tables of its own program.
OwnSegments == curr # NoPcb => cpu.seg = Segments(prog[curr])

\* There is always room for the context of a process between the words in use and
\* its global variables: an interrupt may come at any instruction.
WithinStack ==
  \A p \in alive :
     MachineOf(p).sp \in 0 .. StackWords - prog[p].globals - ContextWords

\* The processor fetches nothing but instructions of the program: what follows them in
\* memory is strings and tables.
WithinCode == curr # NoPcb => InCode(prog[curr], Running)

\* An instruction reads words that its process has in use, and its global variables:
\* what lies between them is rubbish of contexts and of frames that are gone.
ReadsOwn ==
  curr # NoPcb /\ InCode(prog[curr], Running) =>
    \A k \in InstrReads(Advanced(Running), Fetch(prog[curr], Running)) :
      k <= cpu.sp \/ k > StackWords - prog[curr].globals

\* A program leaves the frames of its functions alone: it pops none of their words,
\* stores nothing in the first and the last one, where the place to return to and the
\* size are, and returns with just the frame on the stack.
KeepsFrames ==
  /\ \A p \in alive : frames[p] # <<>> => Last(frames[p]).top <= MachineOf(p).sp
  /\ curr # NoPcb /\ InCode(prog[curr], Running) /\ frames[curr] # <<>> =>
       LET I == Fetch(prog[curr], Running)
       IN  /\ \A i \in DOMAIN frames[curr] :
                InstrStores(Advanced(Running), I) \cap
                  {frames[curr][i].sp + 1, frames[curr][i].top} = {}
           /\ I.op = "RET" => cpu.sp = Last(frames[curr]).top

\* An interrupt changes nothing that any process can see, and no other step changes
\* anything for the processes that do not execute it.
Unnoticed ==
  [][\A p \in alive \cap alive' :
        p # curr \/ Interrupt => MachineOf(p)' = MachineOf(p)]_vars

\* A function returns with the stack and at the place of its call, however often
\* the process has lost the CPU since.
StackRestored ==
  [][Executing("RET") /\ frames'[curr] # frames[curr] =>
       LET call == Last(frames[curr])
       IN  cpu'.sp = call.sp /\ cpu'.pc = call.pc]_vars

\* ... and with the caller's frame: processor.h says that BP records the place of
\* the current function's frame, and RET that it "locates BP again".
FrameRestored ==
  [][Executing("RET") /\ frames'[curr] # frames[curr] =>
       cpu'.bp = Last(frames[curr]).bp]_vars

\* Register 1 holds the result of the process' own kernel calls, as processor.h
\* says of it: it stays while another process executes.
OwnResult ==
  [][\A p \in alive \ {curr} :
        p \in alive' => MachineOf(p)'.reg[1] = MachineOf(p).reg[1]]_vars

\* No process notices the others, or the interrupts: see module VirtualCpus.
Virtual == INSTANCE VirtualCpus WITH Programs <- Programs \cup ShellPrograms,
                                     Results <- Results \cup {0},
                                     machine <- [p \in Procs |-> MachineOf(p)]
OwnProcessor == Virtual!Spec
=============================================================================
