------------------------ MODULE IntControllerProofs ------------------------
(***************************************************************************)
(* The types of the controller's registers, for any devices; and that no   *)
(* request is served over and over, on a machine whose one device is the   *)
(* timer.                                                                  *)
(***************************************************************************)
EXTENDS IntController, TLAPS
-----------------------------------------------------------------------------
(* Types, for any devices *)

\* A number in service is there because mIntNum was it.
InServiceInv == TypeOK /\ (mIsr # {} => mIntNum \in mIsr)

LEMMA HighestIsThere ==
  ASSUME NEW r, r \subseteq Lines  PROVE highestPrio(r) \in r \cup {0}
<1>1. CASE r = {}
  BY <1>1 DEF highestPrio
<1>2. CASE r # {}
  <2>1. \E x \in r : \A y \in r : x <= y
    <3>1. \A y \in r : y \in {0, 1, 2, 3, 4, 5, 6, 7}
      BY DEF Lines
    <3> SUFFICES ASSUME \A x \in r : \E y \in r : ~(x <= y)
                 PROVE  FALSE
      OBVIOUS
    <3>2. 0 \notin r /\ 1 \notin r /\ 2 \notin r /\ 3 \notin r
      BY <3>1
    <3> QED
      BY <1>2, <3>1, <3>2
  <2>2. Min(r) \in r
    BY <2>1 DEF Min
  <2> QED
    BY <1>2, <2>2 DEF highestPrio
<1> QED
  BY <1>1, <1>2

LEMMA DeviceTypes ==
  ASSUME InServiceInv, NEW d \in Devices, Device(d)  PROVE InServiceInv'
<1>1. CASE LoadIrr(d)
  BY <1>1 DEF LoadIrr, InServiceInv, TypeOK, cpuVars
<1>2. CASE SetIrr(d)
  BY <1>2 DEF SetIrr, InServiceInv, TypeOK, cpuVars
<1>3. CASE SetIrq(d)
  BY <1>3 DEF SetIrq, InServiceInv, TypeOK, cpuVars
<1> QED
  BY <1>1, <1>2, <1>3 DEF Device

LEMMA CpuTypes ==
  ASSUME InServiceInv, Cpu  PROVE InServiceInv'
<1>1. CASE Start \/ Poll \/ Test \/ ClearIrq \/ Serve
  BY <1>1 DEF Start, Poll, Test, ClearIrq, Serve, InServiceInv, TypeOK, devVars
<1>2. CASE LoadToClear \/ ClearIrr
  BY <1>2 DEF LoadToClear, ClearIrr, InServiceInv, TypeOK, devVars
<1>3. CASE Judge
  <2>1. highestPrio(mIrr) \in mIrr \cup {0} /\ mIrr \subseteq Devices /\ Devices \subseteq Lines
    BY HighestIsThere, DevicesAssumption DEF InServiceInv, TypeOK
  <2>2. mIntNum' \in Devices \cup {0}
    BY <1>3, <2>1 DEF Judge, InServiceInv, TypeOK
  <2>3. mIsr' = mIsr \cup {mIntNum'}
    BY <1>3 DEF Judge
  <2>4. mIntNum' \in Lines /\ mIntNum' \in mIsr' /\ mIsr' \subseteq Devices \cup {0}
    BY <2>1, <2>2, <2>3 DEF InServiceInv, TypeOK, Lines
  <2>5. cpu' = "load" /\ written' = FALSE /\ UNCHANGED <<mIrq, mIrr, device, loaded, cpuLoaded>>
    BY <1>3 DEF Judge, devVars
  <2> QED
    BY <2>4, <2>5 DEF InServiceInv, TypeOK
<1> QED
  BY <1>1, <1>2, <1>3 DEF Cpu

\* Type correctness, for any devices: the threads are where the code is, and what is
\* marked as in service is a device's line, or line 0.
THEOREM TypeCorrect == Spec => []TypeOK
<1>1. Init => InServiceInv
  BY DEF Init, InServiceInv, TypeOK
<1>2. InServiceInv /\ [Next]_vars => InServiceInv'
  <2> SUFFICES ASSUME InServiceInv, [Next]_vars  PROVE InServiceInv'
    OBVIOUS
  <2>1. CASE UNCHANGED vars
    BY <2>1 DEF vars, InServiceInv, TypeOK
  <2> QED
    BY <2>1, DeviceTypes, CpuTypes DEF Next
<1>3. InServiceInv => TypeOK
  BY DEF InServiceInv
<1> QED
  BY <1>1, <1>2, <1>3, PTL DEF Spec
-----------------------------------------------------------------------------
(* No request is served over and over, on a machine whose only device is the timer *)

OnlyTimer == Devices = {0}

\* As long as no device writes, the CPU takes the one request it found out of
\* the register, and then finds the register empty and clears mIrq.
EchoInv ==
  /\ TypeOK
  /\ mIsr # {} => mIntNum = 0
  /\ cpu \in {"load", "store"} => mIsr # {}
  /\ ~written => /\ cpu \in {"off", "poll", "serve"} => ~mIrq
                 /\ cpu # "judge"
                 /\ cpu = "test" => mIrr = {}

LEMMA HighestOfTimer ==
  ASSUME NEW r, r \subseteq {0}  PROVE highestPrio(r) = 0
<1>1. CASE r = {}
  BY <1>1 DEF highestPrio
<1>2. CASE r = {0}
  BY <1>2 DEF highestPrio, Min
<1> QED
  BY <1>1, <1>2

LEMMA EchoInit == ASSUME Init  PROVE EchoInv
BY DEF Init, EchoInv, TypeOK

LEMMA DeviceEcho ==
  ASSUME OnlyTimer, EchoInv, NEW d \in Devices, Device(d)  PROVE EchoInv'
<1>1. CASE LoadIrr(d)
  BY <1>1 DEF LoadIrr, EchoInv, TypeOK, cpuVars
<1>2. CASE SetIrr(d)
  BY <1>2 DEF SetIrr, EchoInv, TypeOK, cpuVars
<1>3. CASE SetIrq(d)
  BY <1>3 DEF SetIrq, EchoInv, TypeOK, cpuVars
<1> QED
  BY <1>1, <1>2, <1>3 DEF Device

LEMMA CpuEcho ==
  ASSUME OnlyTimer, EchoInv, Cpu  PROVE EchoInv'
<1>1. CASE Start
  BY <1>1 DEF Start, EchoInv, TypeOK, devVars
<1>2. CASE Poll
  BY <1>2 DEF Poll, EchoInv, TypeOK, devVars
<1>3. CASE Judge
  <2>1. mIrr \subseteq {0} /\ mIntNum \in Lines
    BY DEF OnlyTimer, EchoInv, TypeOK
  <2>2. highestPrio(mIrr) = 0
    BY <2>1, HighestOfTimer
  <2>3. mIntNum' = 0
    BY <1>3, <2>2 DEF Judge, EchoInv
  <2>4. mIsr' = mIsr \cup {0}
    BY <1>3, <2>3 DEF Judge
  <2>5. mIsr' \subseteq Devices \cup {0} /\ mIsr' # {} /\ mIntNum' \in Lines
    BY <2>3, <2>4 DEF EchoInv, TypeOK, Lines
  <2>6. /\ cpu' = "load"
        /\ UNCHANGED <<mIrq, mIrr, device, loaded, cpuLoaded>> /\ written' \in BOOLEAN
    BY <1>3 DEF Judge, devVars
  <2> QED
    BY <2>3, <2>5, <2>6 DEF EchoInv, TypeOK
<1>4. CASE LoadToClear
  BY <1>4 DEF LoadToClear, EchoInv, TypeOK, devVars
<1>5. CASE ClearIrr
  <2>1. mIntNum = 0 /\ cpuLoaded \subseteq {0}
    BY <1>5 DEF ClearIrr, OnlyTimer, EchoInv, TypeOK
  <2>2. mIrr' = {}
    BY <1>5, <2>1 DEF ClearIrr
  <2> QED
    BY <1>5, <2>2 DEF ClearIrr, EchoInv, TypeOK, devVars
<1>6. CASE Test
  BY <1>6 DEF Test, EchoInv, TypeOK, devVars
<1>7. CASE ClearIrq
  BY <1>7 DEF ClearIrq, EchoInv, TypeOK, devVars
<1>8. CASE Serve
  BY <1>8 DEF Serve, EchoInv, TypeOK, devVars
<1> QED
  BY <1>1, <1>2, <1>3, <1>4, <1>5, <1>6, <1>7, <1>8 DEF Cpu

\* The invariant of the two threads on a machine whose only device is the timer: at
\* most one request goes round.
THEOREM EchoInvHolds == ASSUME OnlyTimer  PROVE Spec => []EchoInv
<1>1. Init => EchoInv
  BY EchoInit
<1>2. EchoInv /\ [Next]_vars => EchoInv'
  <2> SUFFICES ASSUME EchoInv, [Next]_vars  PROVE EchoInv'
    OBVIOUS
  <2>1. CASE UNCHANGED vars
    BY <2>1 DEF vars, EchoInv, TypeOK
  <2> QED
    BY <2>1, DeviceEcho, CpuEcho DEF Next
<1> QED
  BY <1>1, <1>2, PTL DEF Spec

\* The CPU begins to respond only when a device has written since it last did, in
\* every interleaving of the two threads.
THEOREM NoEchoHolds == ASSUME OnlyTimer  PROVE Spec => []NoEcho
<1>1. EchoInv => NoEcho
  BY DEF EchoInv, NoEcho
<1> QED
  BY <1>1, EchoInvHolds, PTL
=============================================================================
