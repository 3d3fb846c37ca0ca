------------------------------- MODULE OSSem -------------------------------
(***************************************************************************)
(* Semaphores (OSSem) and the pool that hands them out (OSSemManager).     *)
(* The mutual references with the PCBs are by name: a queue holds pids,    *)
(* and a PCB's `sem' field the id of the semaphore waited for.             *)
(***************************************************************************)
EXTENDS OSPcb

VARIABLES sems,       \* mSems: the counter, its largest value and the queue
          semIsFree,  \* mIsFree
          freeSems    \* mFreeList of OSSemManager

semVars == <<sems, semIsFree, freeSems>>

Semaphores == [ctr: UINT16, max: UINT16, queue: Seq(Procs)]

\* OSSemManager::init.  OSSem's constructor leaves the counters uninitialised:
\* `Counts' holds the values they may have.
SemInit(Counts) ==
  /\ sems \in [Sems -> [ctr: Counts, max: Counts, queue: {<<>>}]]
  /\ semIsFree = [s \in Sems |-> TRUE]
  /\ freeSems = [i \in 1..MaxSem |-> i - 1]
-----------------------------------------------------------------------------
(* OSSem *)

hasPend(S) == Len(S.queue) # 0

\* OSSem::init: counters and name, but not the queue.
initSem(S, c, m) == [S EXCEPT !.ctr = c, !.max = m]

\* setCtr silently keeps the old value when the new one is above the largest.
setCtr(S, c) == IF c > S.max THEN S ELSE [S EXCEPT !.ctr = c]

\* The two outcomes of wait(): the unit is taken ...
takeUnit(S) == [S EXCEPT !.ctr = @ - 1]

\* ... or the process joins the queue, with its time limit (0: none).
enqueue(S, p) == [S EXCEPT !.queue = Append(@, p)]
await(P, s, d) ==
  [P EXCEPT !.state = WAITING, !.timedOut = FALSE, !.delay = d, !.sem = s]

\* The two outcomes of signal(): nobody waits, and the counter grows up to the
\* largest value ...
addUnit(S) == IF S.ctr < S.max THEN [S EXCEPT !.ctr = @ + 1] ELSE S

\* Mutant: the unit is also counted when it is handed to the process woken.
dequeueAndCount(S) == [S EXCEPT !.queue = Tail(@), !.ctr = @ + 1]

\* ... or the head of the queue is woken.
dequeue(S) == [S EXCEPT !.queue = Tail(@)]
awaken(P) ==
  [P EXCEPT !.state = IF @ = SWAPPED_WAITING THEN SWAPPED_READY ELSE READY,
            !.timedOut = FALSE, !.delay = 0, !.sem = NoSem]

\* Mutant: the process stays in the queue.
removeFromSemNot(p) == sems

\* OSPcb::removeFromSem of process p: removeWaiting on the semaphore it points
\* to, if any.
removeFromSem(p) ==
  IF pcb[p].sem = NoSem
  THEN sems
  ELSE [sems EXCEPT ![pcb[p].sem].queue = RemoveFirst(@, p)]
-----------------------------------------------------------------------------
(* OSSemManager *)

getFreeSem ==
  /\ semIsFree' = [semIsFree EXCEPT ![Head(freeSems)] = FALSE]
  /\ freeSems' = Tail(freeSems)

returnSem(s) ==
  IF semIsFree[s]
  THEN UNCHANGED <<semIsFree, freeSems>>
  ELSE /\ freeSems' = Append(freeSems, s)
       /\ semIsFree' = [semIsFree EXCEPT ![s] = TRUE]
=============================================================================
