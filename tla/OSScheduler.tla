---------------------------- MODULE OSScheduler ----------------------------
(***************************************************************************)
(* The scheduler (OSScheduler): the current process, the FIFO of ready     *)
(* processes and the list of blocked ones.  Operators named after a method *)
(* take the fields the method reads as arguments and give the fields it    *)
(* leaves, so that a caller can run it on the state it has itself changed. *)
(***************************************************************************)
EXTENDS OSPcb

VARIABLES curr,      \* mPcbCurr
          ready,     \* mReadyList
          waiting    \* mWaitingList

schedVars == <<curr, ready, waiting>>

\* The state of the scheduler before OSCore::start.
SchedInit == curr = NoPcb /\ ready = <<>> /\ waiting = <<>>

\* The process `n' is given the CPU for a time slice.
Dispatched(P, n) ==
  [P EXCEPT ![n] = [@ EXCEPT !.state = RUNNING, !.delay = TicksPerSched]]

\* What sched() does when the ready list is empty: the current process keeps the
\* CPU for another slice, and if there is none the idle process gets it.
SchedNone(c, P) ==
  IF c # NoPcb
  THEN [curr |-> c, ready |-> <<>>, pcb |-> [P EXCEPT ![c].delay = TicksPerSched]]
  ELSE [curr |-> Idle, ready |-> <<>>, pcb |-> Dispatched(P, Idle)]

\* Mutant: the idle process goes back to the ready list like any other.
SchedNextIdleToo(c, r, P) ==
  [curr  |-> Head(r),
   ready |-> IF c = NoPcb THEN Tail(r) ELSE Append(Tail(r), c),
   pcb   |-> Dispatched(IF c = NoPcb THEN P ELSE [P EXCEPT ![c].state = READY], Head(r))]

\* Mutant: the process that had the CPU goes back to the head of the list.
SchedNextInFront(c, r, P) ==
  [curr  |-> Head(r),
   ready |-> IF c \in {NoPcb, Idle} THEN Tail(r) ELSE <<c>> \o Tail(r),
   pcb   |-> Dispatched(IF c = NoPcb THEN P ELSE [P EXCEPT ![c].state = READY], Head(r))]

\* Mutant: the process that had the CPU stays RUNNING.
SchedNextStillRunning(c, r, P) ==
  [curr  |-> Head(r),
   ready |-> IF c \in {NoPcb, Idle} THEN Tail(r) ELSE Append(Tail(r), c),
   pcb   |-> Dispatched(P, Head(r))]

\* What sched() does otherwise: the head of the list gets the CPU, and the
\* process that had it, unless it is the idle one, goes to the tail.
SchedNext(c, r, P) ==
  [curr  |-> Head(r),
   ready |-> IF c \in {NoPcb, Idle} THEN Tail(r) ELSE Append(Tail(r), c),
   pcb   |-> Dispatched(IF c = NoPcb THEN P ELSE [P EXCEPT ![c].state = READY], Head(r))]

\* Mutant: a process that blocks or ends gives way to the idle process.
schedIdleFirst(c, r, P) ==
  IF r = <<>> THEN SchedNone(c, P)
  ELSE IF c = NoPcb THEN [SchedNone(c, P) EXCEPT !.ready = r]
  ELSE SchedNext(c, r, P)

sched(c, r, P) == IF r = <<>> THEN SchedNone(c, P) ELSE SchedNext(c, r, P)

\* removeFromReadyList and removeFromWaitingList: the first entry with this pid.
removeFromList(list, p) == RemoveFirst(list, p)

\* Mutant: the semaphore pointer is kept.
expireKeepsSem(P) ==
  IF isWaitingEvent(P)
  THEN [P EXCEPT !.delay = 0, !.timedOut = TRUE,
                 !.state = IF @ = WAITING THEN READY ELSE SWAPPED_READY]
  ELSE [P EXCEPT !.delay = 0, !.state = READY]

\* caculateDelay's change of a block whose delay has just reached 0, without
\* the removal from the semaphore's queue.
expire(P) ==
  IF isWaitingEvent(P)
  THEN [P EXCEPT !.delay = 0, !.timedOut = TRUE, !.sem = NoSem,
                 !.state = IF @ = WAITING THEN READY ELSE SWAPPED_READY]
  ELSE IF isSuspend(P)
       THEN [P EXCEPT !.delay = 0, !.state = IF @ = SUSPEND THEN READY ELSE SWAPPED_READY]
       ELSE [P EXCEPT !.delay = 0]
=============================================================================
