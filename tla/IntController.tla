--------------------------- MODULE IntController ---------------------------
(***************************************************************************)
(* The interrupt controller (IntController) between the threads that share *)
(* it without a lock: each device's (there is one, the Timer, on line 0)   *)
(* and the CPU's, which polls it after every instruction.                  *)
(*                                                                         *)
(* A step is one access to a shared field: `mIrr |= ...' is a load and a   *)
(* store.  The registers are the sets of the lines whose bit is 1.         *)
(***************************************************************************)
EXTENDS Integers, FiniteSets, FiniteSetsExt

CONSTANT Devices         \* the lines that have a device

Lines == 0..7
ASSUME DevicesAssumption == Devices \subseteq Lines /\ Devices # {}

VARIABLES mIrq, mIrr, mIsr, mIntNum,
          device,        \* where each device's thread is, ...
          loaded,        \* ... and the value of mIrr it has loaded
          cpu, cpuLoaded,
          written        \* has a device written since the CPU last began to respond?

vars == <<mIrq, mIrr, mIsr, mIntNum, device, loaded, cpu, cpuLoaded, written>>
cpuVars == <<mIsr, mIntNum, cpu, cpuLoaded>>
devVars == <<device, loaded>>

\* highestPrioMap: the lowest line of a register, and 0 for an empty one.
highestPrio(r) == IF r = {} THEN 0 ELSE Min(r)

\* BOOTER::boot: init(), with mIntNum left as it was, and then the timer.  The
\* CPU starts later.
Init ==
  /\ mIrq = FALSE /\ mIrr = {} /\ mIsr = {}
  /\ mIntNum \in Lines
  /\ device = [d \in Devices |-> "asleep"]
  /\ loaded = [d \in Devices |-> {}]
  /\ cpu = "off" /\ cpuLoaded = {}
  /\ written = FALSE
-----------------------------------------------------------------------------
(* A device's thread: Timer::exec calls setIntReq, sleeps, and again *)

LoadIrr(d) ==
  /\ device[d] = "asleep"
  /\ loaded' = [loaded EXCEPT ![d] = mIrr]
  /\ device' = [device EXCEPT ![d] = "setIrr"]
  /\ UNCHANGED <<mIrq, mIrr, cpuVars, written>>

SetIrr(d) ==
  /\ device[d] = "setIrr"
  /\ mIrr' = loaded[d] \cup {d}
  /\ device' = [device EXCEPT ![d] = "setIrq"]
  /\ written' = TRUE
  /\ UNCHANGED <<mIrq, loaded, cpuVars>>

\* Mutant: only the first of the requests pending sets mIrq.
SetIrqFirst(d) ==
  /\ device[d] = "setIrq"
  /\ mIrq' = (mIrq \/ loaded[d] = {})
  /\ device' = [device EXCEPT ![d] = "asleep"]
  /\ written' = TRUE
  /\ UNCHANGED <<mIrr, loaded, cpuVars>>

SetIrq(d) ==
  /\ device[d] = "setIrq"
  /\ mIrq' = TRUE
  /\ device' = [device EXCEPT ![d] = "asleep"]
  /\ written' = TRUE
  /\ UNCHANGED <<mIrr, loaded, cpuVars>>

Device(d) == LoadIrr(d) \/ SetIrr(d) \/ SetIrq(d)
-----------------------------------------------------------------------------
(* The CPU's thread *)

Start ==
  /\ cpu = "off"
  /\ cpu' = "poll"
  /\ UNCHANGED <<mIrq, mIrr, mIsr, mIntNum, cpuLoaded, devVars, written>>

\* handleIrq finds a request.  (Nothing calls setIM, so none is masked.)
Poll ==
  /\ cpu = "poll" /\ mIrq
  /\ cpu' = "judge"
  /\ UNCHANGED <<mIrq, mIrr, mIsr, mIntNum, cpuLoaded, devVars, written>>

\* Mutant: the case of no interrupt in service is left out.
JudgeInService ==
  /\ cpu = "judge"
  /\ mIntNum' = IF highestPrio(mIrr) < highestPrio(mIsr) THEN highestPrio(mIrr) ELSE mIntNum
  /\ mIsr' = mIsr \cup {mIntNum'}
  /\ cpu' = "load"
  /\ written' = FALSE
  /\ UNCHANGED <<mIrq, mIrr, cpuLoaded, devVars>>

\* prioJudge, whose result respondInt ignores, and setIsr.  Nothing ever calls
\* clearIsr.
Judge ==
  /\ cpu = "judge"
  /\ mIntNum' = IF mIsr = {} \/ highestPrio(mIrr) < highestPrio(mIsr)
                THEN highestPrio(mIrr) ELSE mIntNum
  /\ mIsr' = mIsr \cup {mIntNum'}
  /\ cpu' = "load"
  /\ written' = FALSE
  /\ UNCHANGED <<mIrq, mIrr, cpuLoaded, devVars>>

\* Mutant: the request stays in the register.
ClearIrrNot ==
  /\ cpu = "store"
  /\ mIrr' = cpuLoaded
  /\ cpu' = "test"
  /\ UNCHANGED <<mIrq, mIsr, mIntNum, cpuLoaded, devVars, written>>

\* clearIntReq
LoadToClear ==
  /\ cpu = "load"
  /\ cpuLoaded' = mIrr
  /\ cpu' = "store"
  /\ UNCHANGED <<mIrq, mIrr, mIsr, mIntNum, devVars, written>>

ClearIrr ==
  /\ cpu = "store"
  /\ mIrr' = cpuLoaded \ {mIntNum}
  /\ cpu' = "test"
  /\ UNCHANGED <<mIrq, mIsr, mIntNum, cpuLoaded, devVars, written>>

\* The rest of respondInt.
Test ==
  /\ cpu = "test"
  /\ cpu' = IF mIrr = {} THEN "clearIrq" ELSE "serve"
  /\ UNCHANGED <<mIrq, mIrr, mIsr, mIntNum, cpuLoaded, devVars, written>>

ClearIrq ==
  /\ cpu = "clearIrq"
  /\ mIrq' = FALSE
  /\ cpu' = "serve"
  /\ UNCHANGED <<mIrr, mIsr, mIntNum, cpuLoaded, devVars, written>>

\* callIntService
Serve ==
  /\ cpu = "serve"
  /\ cpu' = "poll"
  /\ UNCHANGED <<mIrq, mIrr, mIsr, mIntNum, cpuLoaded, devVars, written>>

Cpu == Start \/ Poll \/ Judge \/ LoadToClear \/ ClearIrr \/ Test \/ ClearIrq \/ Serve
-----------------------------------------------------------------------------
Next == Cpu \/ \E d \in Devices : Device(d)

Spec == Init /\ [][Next]_vars

\* Both threads run for ever.
FairSpec == Spec /\ WF_vars(Cpu) /\ \A d \in Devices : WF_vars(Device(d))
-----------------------------------------------------------------------------
\* Types; and what is marked as in service is the line of a device, or line 0,
\* which highestPrioMap also gives for an empty register.
TypeOK ==
  /\ mIrq \in BOOLEAN /\ mIrr \subseteq Devices
  /\ mIsr \subseteq Devices \cup {0}
  /\ mIntNum \in Lines
  /\ device \in [Devices -> {"asleep", "setIrr", "setIrq"}]
  /\ loaded \in [Devices -> SUBSET Devices]
  /\ cpu \in {"off", "poll", "judge", "load", "store", "test", "clearIrq", "serve"}
  /\ cpuLoaded \subseteq Devices
  /\ written \in BOOLEAN

\* The CPU does not serve one request over and over: each time it begins to
\* respond, a device has written to the controller since the time before, so the
\* clock runs at most twice as fast as the timer.
NoEcho == cpu = "judge" => written

\* Whatever the two threads do to one another's writes, the clock goes on: after
\* every request the CPU serves an interrupt.
RequestServed == \A d \in Devices : device[d] = "setIrq" ~> cpu = "serve" /\ mIntNum = d
=============================================================================
