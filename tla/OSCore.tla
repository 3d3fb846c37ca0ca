------------------------------ MODULE OSCore ------------------------------
(***************************************************************************)
(* The kernel: the calls that programs (CallCore, Pause, Quit) and the     *)
(* shell make, and the clock interrupt, over the PCB pool, the scheduler   *)
(* and the semaphores.                                                     *)
(*                                                                         *)
(* A call is one step.  The clock interrupt walks the list of blocked      *)
(* processes one entry a step, `tick' being the position of its iterator.  *)
(* The calls of one thread follow one another, and here those of the shell *)
(* thread come between the instructions of the CPU thread.                 *)
(*                                                                         *)
(* The kernel does not refuse some calls that it cannot carry out.         *)
(* `Unguarded' names those that the environment makes:                     *)
(*   "KillIdle"     delete the idle process, whose pid is Idle             *)
(*   "KillExpired"  delete a process whose Pause has expired               *)
(*   "FreeSem"      use a semaphore that is not created                    *)
(*   "BadInit"      create a semaphore with a counter above its largest    *)
(***************************************************************************)
EXTENDS OSScheduler, OSSem

CONSTANTS Delays,      \* the time limits and pauses that programs ask for
          Counts,      \* the counter values that programs ask for
          Unguarded

AllUnguarded == {"KillIdle", "KillExpired", "FreeSem", "BadInit"}

ASSUME DelaysAssumption == Delays \subseteq UINT16
ASSUME CountsAssumption == Counts \subseteq UINT16 /\ Counts # {}
ASSUME UnguardedAssumption == Unguarded \subseteq AllUnguarded

VARIABLES isRunning,   \* mIsRunning
          tick         \* caculateDelay's iterator as an index into waiting; 0 outside it

coreVars == <<isRunning, tick>>
vars == <<pcb, created, freePcbs, procCtr, curr, ready, waiting,
          sems, semIsFree, freeSems, isRunning, tick>>

\* The state after OSCore::init.
Init ==
  /\ PoolInit
  /\ SchedInit
  /\ SemInit(Counts)
  /\ isRunning = FALSE
  /\ tick = 0

\* OSCore::start, called once by the CPU thread.
Start ==
  /\ ~isRunning
  /\ LET S == sched(NoPcb, ready, pcb)
     IN  curr' = S.curr /\ ready' = S.ready /\ pcb' = S.pcb
  /\ isRunning' = TRUE
  /\ UNCHANGED <<created, freePcbs, procCtr, waiting, semVars, tick>>

\* No interrupt is being served.
Serial == tick = 0

\* The current process executes an instruction.  The idle program only counts
\* free cycles (IDLE.FSE), so its instructions change nothing here.
Executing == isRunning /\ Serial /\ curr # Idle

\* The current process, already made to wait in `P', gives way to the next one.
Block(P) ==
  LET S == sched(NoPcb, ready, P)
  IN  /\ curr' = S.curr /\ ready' = S.ready /\ pcb' = S.pcb
      /\ waiting' = Append(waiting, curr)
-----------------------------------------------------------------------------
(* Processes: called by the shell, or by the current process. *)

\* processCreate of a file that loads.
ProcessCreate ==
  /\ Serial
  /\ ~PoolExhausted /\ freePcbs # <<>>
  /\ getFreePCB
  /\ pcb' = [pcb EXCEPT ![NextFree] = init(@)]
  /\ ready' = Append(ready, NextFree)
  /\ UNCHANGED <<curr, waiting, semVars, coreVars>>

\* processCreate of a file whose name, version or presence loadExecFile rejects.
ProcessCreateFails ==
  /\ Serial
  /\ ~PoolExhausted /\ freePcbs # <<>>
  /\ getAndReturnPCB
  /\ pcb' = [pcb EXCEPT ![NextFree] = Cleared]
  /\ UNCHANGED <<schedVars, semVars, coreVars>>

MayDelete(p) ==
  /\ p = Idle => "KillIdle" \in Unguarded
  /\ pcb[p].state = SWAPPED_READY => "KillExpired" \in Unguarded

\* processDelete of the current process, which is also processQuit.  (Before
\* OSCore::start there is no current process, and processDelete reads through
\* the NULL mPcbCurr: no call comes that early.)
DeleteCurrent ==
  /\ Serial /\ isRunning
  /\ MayDelete(curr)
  /\ LET S == sched(NoPcb, ready, pcb)
     IN  /\ curr' = S.curr /\ ready' = S.ready
         /\ pcb' = [S.pcb EXCEPT ![curr] = Cleared]
  /\ returnPCB(curr)
  /\ UNCHANGED <<waiting, semVars, coreVars>>

\* processDelete of another process, in state READY.
DeleteReady(p) ==
  /\ Serial /\ isRunning
  /\ p # curr /\ p \in created
  /\ pcb[p].state = READY
  /\ MayDelete(p)
  /\ ready' = removeFromList(ready, p)
  /\ pcb' = [pcb EXCEPT ![p] = Cleared]
  /\ returnPCB(p)
  /\ UNCHANGED <<curr, waiting, semVars, coreVars>>

\* processDelete of another process, in any other state.
DeleteWaiting(p) ==
  /\ Serial /\ isRunning
  /\ p # curr /\ p \in created
  /\ pcb[p].state # READY
  /\ MayDelete(p)
  /\ sems' = IF isWaitingEvent(pcb[p]) THEN removeFromSem(p) ELSE sems
  /\ waiting' = removeFromList(waiting, p)
  /\ pcb' = [pcb EXCEPT ![p] = Cleared]
  /\ returnPCB(p)
  /\ UNCHANGED <<curr, ready, semIsFree, freeSems, coreVars>>

\* Pause d: processDelay.  Delay 0 never expires.
ProcessDelay(d) ==
  /\ Executing
  /\ Block([pcb EXCEPT ![curr].delay = d, ![curr].state = SUSPEND])
  /\ UNCHANGED <<created, freePcbs, procCtr, semVars, coreVars>>
-----------------------------------------------------------------------------
(* Semaphores: called by the current process.  An id that is no index is
   refused; getSem does not refuse a semaphore that is free. *)

MayUse(s) == semIsFree[s] => "FreeSem" \in Unguarded

SemCreate(c, m) ==
  /\ Executing
  /\ freeSems # <<>>
  /\ c > m => "BadInit" \in Unguarded
  /\ getFreeSem
  /\ sems' = [sems EXCEPT ![Head(freeSems)] = initSem(@, c, m)]
  /\ UNCHANGED <<pcbVars, schedVars, coreVars>>

\* Mutant: a semaphore that processes wait for is returned to the pool.
SemDeleteAnyway(s) ==
  /\ Executing
  /\ MayUse(s)
  /\ returnSem(s)
  /\ UNCHANGED <<pcbVars, schedVars, sems, coreVars>>

SemDelete(s) ==
  /\ Executing
  /\ MayUse(s)
  /\ ~hasPend(sems[s])
  /\ returnSem(s)
  /\ UNCHANGED <<pcbVars, schedVars, sems, coreVars>>

\* semAccept with a unit there.  Without one it fails and changes nothing.
SemAccept(s) ==
  /\ Executing
  /\ MayUse(s)
  /\ sems[s].ctr > 0
  /\ sems' = [sems EXCEPT ![s] = setCtr(@, @.ctr - 1)]
  /\ UNCHANGED <<pcbVars, schedVars, semIsFree, freeSems, coreVars>>

\* semPend with a unit there.
SemTake(s) ==
  /\ Executing
  /\ MayUse(s)
  /\ sems[s].ctr > 0
  /\ sems' = [sems EXCEPT ![s] = takeUnit(@)]
  /\ UNCHANGED <<pcbVars, schedVars, semIsFree, freeSems, coreVars>>

\* semPend without one.
SemWait(s, d) ==
  /\ Executing
  /\ MayUse(s)
  /\ sems[s].ctr = 0
  /\ sems' = [sems EXCEPT ![s] = enqueue(@, curr)]
  /\ Block([pcb EXCEPT ![curr] = await(@, s, d)])
  /\ UNCHANGED <<created, freePcbs, procCtr, semIsFree, freeSems, coreVars>>

\* semPost with nobody waiting.
SemRelease(s) ==
  /\ Executing
  /\ MayUse(s)
  /\ ~hasPend(sems[s])
  /\ sems' = [sems EXCEPT ![s] = addUnit(@)]
  /\ UNCHANGED <<pcbVars, schedVars, semIsFree, freeSems, coreVars>>

\* Mutant: the last process of the queue is woken.
SemWakeLast(s) ==
  /\ Executing
  /\ MayUse(s)
  /\ hasPend(sems[s])
  /\ LET p == Last(sems[s].queue)
     IN  /\ pcb' = [pcb EXCEPT ![p] = awaken(@)]
         /\ waiting' = removeFromList(waiting, p)
         /\ ready' = Append(ready, p)
  /\ sems' = [sems EXCEPT ![s].queue = Front(@)]
  /\ UNCHANGED <<created, freePcbs, procCtr, curr, semIsFree, freeSems, coreVars>>

\* semPost with processes waiting.
SemWake(s) ==
  /\ Executing
  /\ MayUse(s)
  /\ hasPend(sems[s])
  /\ LET p == Head(sems[s].queue)
     IN  /\ pcb' = [pcb EXCEPT ![p] = awaken(@)]
         /\ waiting' = removeFromList(waiting, p)
         /\ ready' = Append(ready, p)
  /\ sems' = [sems EXCEPT ![s] = dequeue(@)]
  /\ UNCHANGED <<created, freePcbs, procCtr, curr, semIsFree, freeSems, coreVars>>
-----------------------------------------------------------------------------
(* The clock interrupt: callIntService(0) *)

\* timeTick up to the first iteration of caculateDelay.
TimeTick ==
  /\ isRunning /\ Serial
  /\ tick' = 1
  /\ UNCHANGED <<pcbVars, schedVars, semVars, isRunning>>

\* caculateDelay's iteration on a process that does not expire.
SkipOrCount ==
  /\ tick \in DOMAIN waiting
  /\ pcb[waiting[tick]].delay # 1
  /\ pcb' = [pcb EXCEPT ![waiting[tick]] = decDelay(@)]
  /\ tick' = tick + 1
  /\ UNCHANGED <<created, freePcbs, procCtr, schedVars, semVars, isRunning>>

\* caculateDelay's iteration on a process whose delay reaches 0.
Expire ==
  /\ tick \in DOMAIN waiting
  /\ LET p == waiting[tick]
     IN  /\ pcb[p].delay = 1
         /\ pcb' = [pcb EXCEPT ![p] = expire(@)]
         /\ sems' = IF isWaitingEvent(pcb[p]) THEN removeFromSem(p) ELSE sems
         /\ ready' = Append(ready, p)
         /\ waiting' = RemoveAt(waiting, tick)
  /\ UNCHANGED <<created, freePcbs, procCtr, curr, semIsFree, freeSems, coreVars>>

\* The end of timeTick: toSwapOutCurr, and sched if the slice is used up.
EndTick ==
  /\ tick = Len(waiting) + 1
  /\ LET P == [pcb EXCEPT ![curr] = decDelay(@)]
         S == IF P[curr].delay = 0
              THEN sched(curr, ready, P)
              ELSE [curr |-> curr, ready |-> ready, pcb |-> P]
     IN  curr' = S.curr /\ ready' = S.ready /\ pcb' = S.pcb
  /\ tick' = 0
  /\ UNCHANGED <<created, freePcbs, procCtr, waiting, semVars, isRunning>>

Tick == TimeTick \/ SkipOrCount \/ Expire \/ EndTick
-----------------------------------------------------------------------------
Next ==
  \/ Start
  \/ ProcessCreate
  \/ ProcessCreateFails
  \/ DeleteCurrent
  \/ \E p \in Procs : DeleteReady(p)
  \/ \E p \in Procs : DeleteWaiting(p)
  \/ \E d \in Delays : ProcessDelay(d)
  \/ \E c, m \in Counts : SemCreate(c, m)
  \/ \E s \in Sems : SemDelete(s)
  \/ \E s \in Sems : SemAccept(s)
  \/ \E s \in Sems : SemTake(s)
  \/ \E s \in Sems, d \in Delays : SemWait(s, d)
  \/ \E s \in Sems : SemRelease(s)
  \/ \E s \in Sems : SemWake(s)
  \/ Tick

Spec == Init /\ [][Next]_vars

\* The CPU thread is started, and loops for ever: the clock interrupt is raised
\* again every period, so it is served again and again, to its end.
FairSpec == Spec /\ WF_vars(Start) /\ WF_vars(Tick)
-----------------------------------------------------------------------------
TypeOK ==
  /\ pcb \in [Procs -> Pcbs]
  /\ created \subseteq Procs
  /\ freePcbs \in Seq(Procs)
  /\ procCtr \in UINT16
  /\ curr \in Procs \cup {NoPcb}
  /\ ready \in Seq(Procs)
  /\ waiting \in Seq(Procs)
  /\ sems \in [Sems -> Semaphores]
  /\ semIsFree \in [Sems -> BOOLEAN]
  /\ freeSems \in Seq(Sems)
  /\ isRunning \in BOOLEAN
  /\ tick \in Nat
  /\ isRunning <=> curr # NoPcb
  /\ tick # 0 => isRunning

Queued == Range(ready) \cup Range(waiting)
Waits(p, s) == p \in Range(waiting) /\ pcb[p].state = WAITING /\ pcb[p].sem = s

\* Every created process but the idle one is in exactly one place, once: it has
\* the CPU, or is ready, or is blocked.  Nothing else is, so no deleted process
\* can be given the CPU.  (The lists are changed apart from the PCB pool, by
\* every call.)
OnePlace ==
  /\ IsInjective(ready) /\ IsInjective(waiting)
  /\ Range(ready) \cap Range(waiting) = {}
  /\ curr \notin Queued /\ Idle \notin Queued
  /\ created \cup {NoPcb} = Queued \cup {curr, Idle, NoPcb}

\* The free list holds exactly the blocks that are not created, each once, and
\* the counter is their number: getFreePCB, which looks at the counter only,
\* finds a block whenever the counter is below MAXIMUM_TASKS.
PoolAccounted ==
  /\ IsInjective(freePcbs)
  /\ Range(freePcbs) = Procs \ created
  /\ procCtr = Cardinality(created)

\* The state in the PCB, by which processDelete chooses the list it looks in and
\* which `top' shows, agrees with where the process is.
StateTells ==
  \A p \in Procs :
     /\ p \notin created => pcb[p] = Cleared
     /\ p = curr => pcb[p].state = RUNNING
     /\ p = Idle /\ p # curr => pcb[p].state = READY
     /\ p \in Range(ready) => pcb[p].state \in {READY, SWAPPED_READY}
     /\ p \in Range(waiting) => pcb[p].state \in {WAITING, SUSPEND}

\* A process is in the queue of a semaphore, once, just as long as it is blocked
\* on it: a time-out or a deletion leaves no entry behind for semPost to wake.
QueuesAgree ==
  \A s \in Sems :
     /\ IsInjective(sems[s].queue)
     /\ \A p \in Procs : p \in Range(sems[s].queue) <=> Waits(p, s)

\* Only a process blocked on a semaphore points to one.
PointersAgree ==
  \A p \in Procs : pcb[p].sem # NoSem <=> \E s \in Sems : Waits(p, s)

\* No process waits for a semaphore that has a unit left, and the counter of a
\* created semaphore stays within its largest value: no wake-up is lost.
NoUnitWhileWaiting ==
  \A s \in Sems : ~semIsFree[s] => /\ hasPend(sems[s]) => sems[s].ctr = 0
                                   /\ sems[s].ctr <= sems[s].max

\* The free list of semaphores holds exactly those marked free, each once, and
\* nobody waits for one of them.
SemPoolAccounted ==
  /\ IsInjective(freeSems)
  /\ Range(freeSems) = {s \in Sems : semIsFree[s]}
  /\ \A s \in Sems : semIsFree[s] => ~hasPend(sems[s])

\* Round robin: a process that gets the CPU was the first of the ready list (or
\* is the idle one), no step changes the order of those that stay, and a process
\* that joins the list comes behind them.
ReadyInOrder ==
  [][/\ curr' \notin {curr, Idle} => curr' = Head(ready)
     /\ \A i, j \in DOMAIN ready, k, l \in DOMAIN ready' :
           /\ i < j
           /\ ready[i] = ready'[k]
           /\ ready[j] = ready'[l]
           => k < l
     /\ \A k, l \in DOMAIN ready' :
           k < l /\ ready'[l] \in Range(ready) => ready'[k] \in Range(ready)]_vars

\* Semaphores are served in the order of arrival: a process that leaves a queue
\* from behind another has timed out or has been deleted.
WakeInOrder ==
  [][\A s \in Sems : \A i \in DOMAIN sems[s].queue :
        LET p == sems[s].queue[i]
        IN  p \notin Range(sems'[s].queue) => \/ i = 1
                                              \/ pcb'[p].timedOut
                                              \/ p \notin created']_vars

\* The idle process is given the CPU only when no process is ready.
IdleLast == [][curr' = Idle /\ curr # Idle => ready = <<>>]_vars

\* A process that has ended is neither running nor waiting to run: OS.h says of
\* PROC_STATE_TERMINATED that the task has left memory.
TerminatedLeaves ==
  \A p \in Procs : pcb[p].state = TERMINATED => p # curr /\ p \notin Range(ready)

\* The state of module Kernel that the kernel's state stands for: who has paused,
\* who waits for which semaphore, and what is left of the semaphores created.
Paused  == Range(waiting) \ UNION {Range(sems[s].queue) : s \in Sems}
Waiters == [s \in Sems |-> Range(sems[s].queue)]
Open    == {s \in Sems : ~semIsFree[s]}
Units   == [s \in Sems |-> IF semIsFree[s] THEN 0 ELSE sems[s].ctr]
Largest == [s \in Sems |-> IF semIsFree[s] THEN 0 ELSE sems[s].max]

Promise == INSTANCE Kernel WITH
  Nobody <- NoPcb, running <- curr, ready <- Range(ready),
  paused <- Paused, waiters <- Waiters, open <- Open, units <- Units, largest <- Largest

\* The kernel does what module Kernel says, where a process is in one of a few sets
\* and a semaphore is a number: lists, blocks, states, pointers and the clock are means
\* to that, and no call, time-out or interrupt that comes in the middle of another's
\* effects changes anything else.
PromiseKept == Promise!Spec

\* A ready process gets the CPU, or is deleted, whatever the others do.
ReadyRuns ==
  \A p \in Procs \ {Idle} : p \in Range(ready) ~> (curr = p \/ p \notin created)

\* A blocked process with a time limit does not stay blocked.
TimedWaitEnds ==
  \A p \in Procs \ {Idle} :
     (p \in Range(waiting) /\ pcb[p].delay > 0) ~> p \notin Range(waiting)
=============================================================================
