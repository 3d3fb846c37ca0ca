------------------------------- MODULE Kernel -------------------------------
(***************************************************************************)
(* What the kernel promises: a process is ready, or has the CPU, or has    *)
(* paused, or waits for one semaphore; a semaphore is a number of units;   *)
(* and the CPU, whenever it becomes free, goes to a process that is ready, *)
(* or to the idle one if none is.                                          *)
(*                                                                         *)
(* There are no lists, no control blocks and no clock: who is first, how   *)
(* long a slice and a time limit are, and which waiter is woken are left   *)
(* open.                                                                   *)
(***************************************************************************)
EXTENDS Integers

CONSTANTS Procs,         \* pids
          Idle,          \* the idle process
          Nobody,        \* has the CPU before the machine starts
          Sems,
          Counts         \* of units, that programs create semaphores with

VARIABLES running,       \* has the CPU
          ready,
          paused,
          waiters,       \* for each semaphore
          open,          \* the semaphores that exist
          units,         \* of each semaphore
          largest        \* and how many it may have

vars == <<running, ready, paused, waiters, open, units, largest>>

Init ==
  /\ running = Nobody
  /\ ready = {} /\ paused = {}
  /\ waiters = [s \in Sems |-> {}]
  /\ open = {}
  /\ units = [s \in Sems |-> 0] /\ largest = [s \in Sems |-> 0]

Blocked  == paused \cup UNION {waiters[s] : s \in Sems}
Existing == ready \cup Blocked \cup {running, Idle}

semaphores == <<open, units, largest>>
-----------------------------------------------------------------------------
\* The CPU is free, and the processes in R are ready.
Dispatch(R) ==
  \/ /\ R = {}
     /\ running' = Idle /\ ready' = {}
  \/ \E p \in R : running' = p /\ ready' = R \ {p}

Boot == running = Nobody /\ Dispatch(ready) /\ UNCHANGED <<paused, waiters, semaphores>>

\* The process that has the CPU makes a call.
Calls == running \in Procs \ {Idle}

Begin(p) ==
  /\ p \in Procs \ Existing
  /\ ready' = ready \cup {p}
  /\ UNCHANGED <<running, paused, waiters, semaphores>>

Unblocked(p) ==
  /\ paused' = paused \ {p}
  /\ waiters' = [s \in Sems |-> waiters[s] \ {p}]

\* A process ends, by itself or by another's will.
End(p) ==
  /\ p \in Existing \ {Idle, Nobody}
  /\ Unblocked(p)
  /\ \/ p = running /\ Dispatch(ready)
     \/ p # running /\ ready' = ready \ {p} /\ UNCHANGED running
  /\ UNCHANGED semaphores

\* The slice is over.
Yield ==
  /\ running # Nobody
  /\ \E p \in ready : /\ running' = p
                      /\ ready' = (ready \ {p}) \cup ({running} \ {Idle})
  /\ UNCHANGED <<paused, waiters, semaphores>>

Pause ==
  /\ Calls
  /\ paused' = paused \cup {running}
  /\ Dispatch(ready)
  /\ UNCHANGED <<waiters, semaphores>>

\* A time limit ends.
TimeOut(p) ==
  /\ p \in Blocked
  /\ Unblocked(p)
  /\ ready' = ready \cup {p}
  /\ UNCHANGED <<running, semaphores>>
-----------------------------------------------------------------------------
Create(s) ==
  /\ Calls
  /\ s \notin open
  /\ open' = open \cup {s}
  /\ \E c, m \in Counts : /\ c <= m
                          /\ units' = [units EXCEPT ![s] = c]
                          /\ largest' = [largest EXCEPT ![s] = m]
  /\ UNCHANGED <<running, ready, paused, waiters>>

Delete(s) ==
  /\ Calls
  /\ s \in open /\ waiters[s] = {}
  /\ open' = open \ {s}
  /\ units' = [units EXCEPT ![s] = 0] /\ largest' = [largest EXCEPT ![s] = 0]
  /\ UNCHANGED <<running, ready, paused, waiters>>

Take(s) ==
  /\ Calls
  /\ s \in open /\ units[s] > 0
  /\ units' = [units EXCEPT ![s] = @ - 1]
  /\ UNCHANGED <<running, ready, paused, waiters, open, largest>>

Wait(s) ==
  /\ Calls
  /\ s \in open /\ units[s] = 0
  /\ waiters' = [waiters EXCEPT ![s] = @ \cup {running}]
  /\ Dispatch(ready)
  /\ UNCHANGED <<paused, semaphores>>

\* A unit comes when nobody waits for it.
Put(s) ==
  /\ Calls
  /\ s \in open /\ waiters[s] = {} /\ units[s] < largest[s]
  /\ units' = [units EXCEPT ![s] = @ + 1]
  /\ UNCHANGED <<running, ready, paused, waiters, open, largest>>

\* It comes, and goes to one that waits.
Hand(s) ==
  /\ Calls
  /\ s \in open
  /\ \E p \in waiters[s] : /\ waiters' = [waiters EXCEPT ![s] = @ \ {p}]
                           /\ ready' = ready \cup {p}
  /\ UNCHANGED <<running, paused, semaphores>>
-----------------------------------------------------------------------------
Next ==
  \/ Boot \/ Yield \/ Pause
  \/ \E p \in Procs : Begin(p) \/ End(p) \/ TimeOut(p)
  \/ \E s \in Sems : Create(s) \/ Delete(s) \/ Take(s) \/ Wait(s) \/ Put(s) \/ Hand(s)

Spec == Init /\ [][Next]_vars
=============================================================================
