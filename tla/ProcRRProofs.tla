---------------------------- MODULE ProcRRProofs ----------------------------
(***************************************************************************)
(* Proof that scheduler() is round robin, for every PROC_MAX and every     *)
(* watched slot.                                                           *)
(***************************************************************************)
EXTENDS ProcRR, ProcProofs

(* Only the for loop moves scan, and only a dispatch enters switch_to().   *)
LEMMA ScanSteps ==
    ASSUME Next
    PROVE  \/ \E i \in Slots : Dispatch(i)
           \/ EndPass
           \/ UNCHANGED scan /\ ~(cpu = "scheduler" /\ cpu' = "switch")
    BY DEF Next, vars, sched, Switch, Shutdown, HardwareTick, PassOver,
           InterruptScheduler, InterruptSwitch, Interrupt, DoSignal, TimerTrap,
           HandlerReturns, Spin, SpinEnds, TickReturn, Clone, Execve,
           ExecveFails, AllocPanics, SyscallPanics, Panic, Exit, Exception, KillSelf,
           WaitAnyCollect, WaitAnyYield, WaitAnyNoChild, WaitPidCollect, WaitPidYield,
           Collect, Yield, Sigaction, Setitimer, Halted

(* The loop cannot step over the waiting slot.                             *)
LEMMA DispatchOrder ==
    ASSUME IInv, Waiting, NEW i \in Slots, Dispatch(i)
    PROVE  /\ i >= scan /\ scan' = i + 1 /\ scan \in 0..PROC_MAX
           /\ scan <= Watched => i <= Watched
           /\ Waiting' => i # Watched
<1>1. scan \in 0..PROC_MAX /\ state \in [Slots -> Live \union Dead]
    BY DEF IInv, TypeOK
<1>2. i >= scan /\ scan' = i + 1
    BY DEF Dispatch, NextScan
<1>3. Watched \in Slots /\ Eligible(Watched)
    BY WatchedAssumption DEF Waiting, Eligible, Task, Used
<1>4. scan <= Watched => i <= Watched
    BY <1>1, <1>3, SlotFacts DEF Dispatch
<1>5. Waiting' => i # Watched
    BY <1>1, <1>3, SlotFacts, WatchedAssumption DEF Dispatch, Waiting
<1> QED
    BY <1>1, <1>2, <1>4, <1>5

LEMMA OvertakenStep == IInv /\ OvertakenBehind /\ [RRNext]_rrvars => OvertakenBehind'
<1> SUFFICES ASSUME IInv, OvertakenBehind, [RRNext]_rrvars PROVE OvertakenBehind'
    OBVIOUS
<1>a. scan \in 0..PROC_MAX /\ Watched \in Slots /\ Slots \subseteq Nat
    BY WatchedAssumption, SlotFacts DEF IInv, TypeOK
<1>1. CASE UNCHANGED rrvars
    BY <1>1 DEF rrvars, vars, tree, sched, OvertakenBehind, Waiting, Task, Used
<1>2. CASE RRNext /\ ~(Waiting /\ Waiting')
    <2>1. overtaken' = {}
        BY <1>2 DEF RRNext, Observe
    <2> QED
        BY <2>1 DEF OvertakenBehind
<1>3. CASE RRNext /\ Waiting /\ Waiting'
    <2>1. overtaken' = overtaken \union {i \in Slots : Dispatched(i)}
        BY <1>3 DEF RRNext, Observe
    <2>2. ASSUME NEW i \in Slots, Dispatch(i) PROVE OvertakenBehind'
        <3>1. overtaken' = overtaken \union {i}
            BY <2>1, <2>2 DEF Dispatched, Dispatch
        <3>2. /\ i >= scan /\ scan' = i + 1
              /\ scan <= Watched => i <= Watched
              /\ i # Watched
            BY <1>3, <2>2, DispatchOrder
        <3>3. i \in Nat /\ Watched \in Nat /\ scan \in Nat
            BY <1>a
        <3>4. ASSUME NEW j \in overtaken'
              PROVE  IF scan' <= Watched THEN j < scan' \/ j > Watched
                                         ELSE Watched < j /\ j < scan'
            <4>1. CASE j = i
                BY <4>1, <3>2, <3>3
            <4>2. CASE j \in overtaken
                <5>1. j \in Nat
                    BY <4>2, <1>a DEF OvertakenBehind
                <5>2. IF scan <= Watched THEN j < scan \/ j > Watched
                                         ELSE Watched < j /\ j < scan
                    BY <4>2 DEF OvertakenBehind
                <5> QED
                    BY <5>1, <5>2, <3>2, <3>3
            <4> QED
                BY <3>1, <4>1, <4>2
        <3> QED
            BY <3>1, <3>4, <1>3 DEF OvertakenBehind
    <2>3. CASE EndPass
        <3>1. overtaken' = overtaken /\ scan' = 0
            BY <2>1, <2>3 DEF EndPass, PassStart, PassOver, Dispatched
        <3>2. scan > Watched
            BY <1>3, <2>3, <1>a DEF EndPass, PassOver, Waiting, Eligible, Task, Used
        <3>3. \A j \in overtaken : j > Watched
            BY <3>2, <1>a DEF OvertakenBehind
        <3> QED
            BY <3>1, <3>3, <1>3, <1>a DEF OvertakenBehind
    <2>4. CASE UNCHANGED scan /\ ~(cpu = "scheduler" /\ cpu' = "switch")
        <3>1. overtaken' = overtaken
            BY <2>1, <2>4 DEF Dispatched
        <3> QED
            BY <3>1, <2>4, <1>3 DEF OvertakenBehind
    <2> QED
        BY <1>3, <2>2, <2>3, <2>4, ScanSteps DEF RRNext
<1> QED
    BY <1>1, <1>2, <1>3

(* What has overtaken the waiting slot lies behind it in the scan.         *)
THEOREM OvertakenInvariance == RRSpec => [](IInv /\ OvertakenBehind)
<1>1. RRInit => IInv /\ OvertakenBehind
    BY InitIInv DEF RRInit, OvertakenBehind
<1>2. IInv /\ OvertakenBehind /\ [RRNext]_rrvars => (IInv /\ OvertakenBehind)'
    <2>1. [RRNext]_rrvars => [Next]_vars
        BY DEF RRNext, rrvars
    <2> QED
        BY <2>1, OvertakenStep, TypeStep, TreeStep, PidStep, FamilyStep, CpuStep, WaiterStep
        DEF IInv, CpuInv, PidUnique
<1> QED
    BY <1>1, <1>2, PTL DEF RRSpec

(* scheduler() gives the processor to every other slot at most once while  *)
(* a task waits for it.                                                    *)
THEOREM SchedulerIsRoundRobin == RRSpec => RoundRobin
<1>1. ASSUME IInv, OvertakenBehind, [RRNext]_rrvars
      PROVE  [\A i \in Slots : Waiting /\ Dispatched(i) => i \notin overtaken]_rrvars
    <2> SUFFICES ASSUME RRNext, NEW i \in Slots, Waiting, Dispatched(i), i \in overtaken
                 PROVE  FALSE
        BY <1>1
    <2>1. PICK k \in Slots : Dispatch(k)
        BY ScanSteps DEF RRNext, Dispatched, EndPass, PassOver
    <2>2. k = i
        BY <2>1 DEF Dispatch, Dispatched
    <2>3. i >= scan /\ scan \in 0..PROC_MAX /\ (scan <= Watched => i <= Watched)
        BY <1>1, <2>1, <2>2, DispatchOrder
    <2>4. IF scan <= Watched THEN i < scan \/ i > Watched ELSE Watched < i /\ i < scan
        BY <1>1 DEF OvertakenBehind
    <2> QED
        BY <2>3, <2>4, SlotFacts, WatchedAssumption
<1> QED
    BY <1>1, OvertakenInvariance, PTL DEF RRSpec, RoundRobin

=============================================================================
