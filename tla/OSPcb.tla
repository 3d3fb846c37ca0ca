------------------------------- MODULE OSPcb -------------------------------
(***************************************************************************)
(* Process control blocks (OSPcb) and the pool that hands them out         *)
(* (OSPcbManager).  A process is named by its pid: the PCBs are the array  *)
(* mPcbs, and OSPcbManager::init gives the block at `index' the pid        *)
(* index + 1, so pids are 1..MaxTasks and never change.                    *)
(*                                                                         *)
(* The fields kept are those the kernel decides by: state, delay, time-out *)
(* flag and the semaphore waited for.  Stack addresses belong to the saved *)
(* context, and the priority, name, switch and cycle counters are written  *)
(* but never read by the kernel.                                           *)
(***************************************************************************)
EXTENDS Integers, Sequences, FiniteSets, SequencesExt

CONSTANTS MaxTasks,       \* OS.MAXIMUM_TASKS, the number of PCBs
          MaxSem,         \* OS.MAX_SEM, the number of semaphores
          TicksPerSched   \* OS.TICKS_PER_SCHED, the time slice in ticks

\* Pids, delays and counters are UINT16 values, and 0xffff is the pid PID_CURR.
MaxUINT16 == 65535
UINT16 == 0..MaxUINT16

ASSUME TasksAssumption == MaxTasks \in 1..MaxUINT16 - 1
ASSUME SemsAssumption  == MaxSem \in UINT16
ASSUME SliceAssumption == TicksPerSched \in UINT16

Procs == 1..MaxTasks
NoPcb == 0                \* a NULL OSPcb*
Sems  == 0..MaxSem - 1    \* semaphore ids: indices of OSSemManager::mSems
NoSem == -1               \* a NULL OSSem*

\* The first block OSCore::init takes from the pool is the idle process's.
Idle == 1

\* PROC_STATE_*
READY             == 0
RUNNING           == 1
WAITING           == 2
SUSPEND           == 4
TERMINATED        == 8
SWAPPED_READY     == 16
SWAPPED_WAITING   == 32
SWAPPED_SUSPEND   == 64
States == {READY, RUNNING, WAITING, SUSPEND, TERMINATED,
           SWAPPED_READY, SWAPPED_WAITING, SWAPPED_SUSPEND}

Pcbs == [state: States, delay: UINT16, timedOut: BOOLEAN, sem: Sems \cup {NoSem}]

VARIABLES pcb,        \* mPcbs: the control block of each pid
          created,    \* mCreated: the pids whose flag is set
          freePcbs,   \* mFreeList: the pids of the free blocks, oldest first
          procCtr     \* mProcCtr

pcbVars == <<pcb, created, freePcbs, procCtr>>
-----------------------------------------------------------------------------
(* OSPcb *)

\* A block after OSPcb::clear.
Cleared == [state |-> TERMINATED, delay |-> 0, timedOut |-> FALSE, sem |-> NoSem]

\* OSPcb::init, which loadExecFile calls with PROC_STATE_READY: it leaves the
\* delay, the flag and the semaphore as clear() left them.
init(P) == [P EXCEPT !.state = READY]

\* Mutant: the delay is decremented at 0 too.
decDelayPastZero(P) == [P EXCEPT !.delay = @ - 1]

\* Mutant: the delay is not decremented.
decDelayNever(P) == P

decDelay(P) == [P EXCEPT !.delay = IF @ > 0 THEN @ - 1 ELSE @]

\* `mask' is the unparenthesised macro A | B, so `st & mask' is (st & A) | B.
\* A state has at most one bit set, and B is a bit of its own.
Masked(st, a, b) == (IF st = a THEN a ELSE 0) + b

isWaitingEvent(P) == Masked(P.state, WAITING, SWAPPED_WAITING) # READY
isSuspend(P)      == Masked(P.state, SUSPEND, SWAPPED_SUSPEND) # READY
-----------------------------------------------------------------------------
(* OSPcbManager *)

\* mFreeList, mCreated and mProcCtr after OSCore::init took the idle block.
PoolInit ==
  /\ created = {Idle}
  /\ freePcbs = [i \in 1..MaxTasks - 1 |-> i + 1]
  /\ procCtr = 1
  /\ pcb = [p \in Procs |-> IF p = Idle THEN init(Cleared) ELSE Cleared]

\* The failure of getFreePCB.  (Its other branch reads front() of the list, so
\* it needs one: PoolAccounted below says there is one.)
PoolExhausted == procCtr = MaxTasks

\* getFreePCB takes the oldest free block.
NextFree == Head(freePcbs)

getFreePCB ==
  /\ created' = created \cup {NextFree}
  /\ freePcbs' = Tail(freePcbs)
  /\ procCtr' = (procCtr + 1) % (MaxUINT16 + 1)

\* Mutant: the counter is left alone.
returnPCBUncounted(p) ==
  /\ created' = created \ {p}
  /\ freePcbs' = Append(freePcbs, p)
  /\ procCtr' = procCtr

\* returnPCB: it never asks whether the block is created.
returnPCB(p) ==
  /\ created' = created \ {p}
  /\ freePcbs' = Append(freePcbs, p)
  /\ procCtr' = (procCtr - 1) % (MaxUINT16 + 1)

\* getFreePCB followed by returnPCB of the same block, as processCreate does
\* when the file cannot be loaded.
getAndReturnPCB ==
  /\ freePcbs' = Append(Tail(freePcbs), NextFree)
  /\ created' = created \ {NextFree}
  /\ procCtr' = procCtr
=============================================================================
