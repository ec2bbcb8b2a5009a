----------------------------- MODULE ProcProofs -----------------------------
(***************************************************************************)
(* Proofs about Proc for every size of the process table and every set of  *)
(* deadlines.                                                              *)
(***************************************************************************)
EXTENDS Proc, TLAPS

(* The slots boot sets up stay as they are.                                *)
BootSlots ==
    /\ Used(kproc) /\ pid[kproc] = 0 /\ parent[kproc] = NULL
    /\ Used(1)
    /\ last_pid >= 2

(* A task is never mistaken for kproc and its parent's slot is allocated.  *)
TasksHaveParents ==
    \A s \in Slots : Task(s) =>
        pid[s] # 0 /\ parent[s] \in Slots /\ Used(parent[s])

(* While a task has the processor the pass is known to have found one, and *)
(* the task is no zombie: kill() leaves the processor in the same step.    *)
CpuOwner ==
    cpu \in {"switch", "task"} => cur_proc # kproc /\ run = 1 /\ state[cur_proc] # "ZOMBIE"

(* run remembers the part of the pass that is over.                        *)
PassMemory ==
    cpu = "scheduler" /\ run = 0 => \A s \in Slots : s < scan => ~Eligible(s)

IInv ==
    /\ TypeOK
    /\ BootSlots
    /\ TasksHaveParents
    /\ CpuOwner
    /\ OneOnCpu
    /\ PassMemory
    /\ ShutdownClean
    /\ PidUnique
    /\ FamilyTree
    /\ WaiterTarget

-----------------------------------------------------------------------------
(* kproc and slot 1 are slots.                                             *)
LEMMA SlotFacts ==
    /\ Slots \subseteq Nat /\ kproc \in Slots /\ 1 \in Slots /\ NULL \notin Slots
    /\ \A s \in Slots : s + 1 \in 0..PROC_MAX
    BY ProcMaxAssumption DEF Slots, kproc, NULL

(* list_add() at the head of a children list.                              *)
LEMMA ListAdd ==
    ASSUME children \in [Slots -> Seq(Slots)],
           NEW q \in Slots, NEW np \in Slots, q # np
    PROVE  /\ LinkChild(q, np) \in [Slots -> Seq(Slots)]
           /\ LinkChild(q, np)[np] = <<>>
           /\ \A s \in Slots \ {q, np} : LinkChild(q, np)[s] = children[s]
           /\ Len(LinkChild(q, np)[q]) = Len(children[q]) + 1
           /\ LinkChild(q, np)[q][1] = np
           /\ \A i \in 1..Len(children[q]) : LinkChild(q, np)[q][i + 1] = children[q][i]
<1>1. LinkChild(q, np) = [children EXCEPT ![np] = <<>>, ![q] = <<np>> \o children[q]]
    BY DEF LinkChild
<1>2. <<np>> \o children[q] \in Seq(Slots)
    OBVIOUS
<1>3. LinkChild(q, np)[q] = <<np>> \o children[q]
    BY <1>1
<1>4. Len(<<np>> \o children[q]) = Len(children[q]) + 1
    OBVIOUS
<1>5. \A i \in 1..Len(children[q]) : (<<np>> \o children[q])[i + 1] = children[q][i]
    OBVIOUS
<1>6. (<<np>> \o children[q])[1] = np
    OBVIOUS
<1>7. LinkChild(q, np) \in [Slots -> Seq(Slots)]
    <2>1. <<>> \in Seq(Slots)
        OBVIOUS
    <2> QED
        BY <1>1, <1>2, <2>1
<1> QED
    BY <1>1, <1>3, <1>4, <1>5, <1>6, <1>7

(* ticks saturates.                                                        *)
LEMMA CountType == ticks \in 0..TickCap /\ Count => ticks' \in 0..TickCap
    BY TimerAssumption DEF Count

(* handlers stays within its bound.                                        *)
LEMMA Nesting ==
    ASSUME NEW f \in [Slots -> 0..MaxNest], NEW p \in Slots, NEW n \in Int
    PROVE  0 <= n /\ n <= MaxNest => [f EXCEPT ![p] = n] \in [Slots -> 0..MaxNest]
    BY NestAssumption

(* The process whose step it is, is a task with an allocated parent, and   *)
(* so is not the slot proc_alloc() takes.                                  *)
LEMMA Owner ==
    ASSUME IInv, NEW p \in Slots, cpu = "task", cur_proc = p
    PROVE  Task(p) /\ Used(p) /\ p # kproc /\ parent[p] \in Slots /\ Used(parent[p])
           /\ allocs[p] = "USED"
    BY DEF IInv, CpuOwner, OneOnCpu, TasksHaveParents, Task, Used

(* A field update that stores a pid below the next value of last_pid.      *)
PidsBelow(f, n) == f \in [Slots -> Int] /\ \A s \in Slots : f[s] >= -1 /\ f[s] < n

LEMMA PidUpdate ==
    ASSUME NEW n \in Nat, NEW f, PidsBelow(f, n),
           NEW t \in Slots, NEW v \in Int, v >= -1, v < n + 1
    PROVE  PidsBelow([f EXCEPT ![t] = v], n + 1)
<1>1. \A s \in Slots : [f EXCEPT ![t] = v][s] = IF s = t THEN v ELSE f[s]
    BY DEF PidsBelow
<1>2. \A s \in Slots : f[s] \in Int
    BY DEF PidsBelow
<1> QED
    BY <1>1, <1>2 DEF PidsBelow

LEMMA PidReset ==
    ASSUME NEW n \in Nat, NEW f, PidsBelow(f, n), NEW t \in Slots
    PROVE  PidsBelow([f EXCEPT ![t] = -1], n)
    BY DEF PidsBelow

(* The type invariant is preserved.                                        *)
LEMMA TypeStep == IInv /\ [Next]_vars => TypeOK'
<1> SUFFICES ASSUME IInv, [Next]_vars PROVE TypeOK'
    OBVIOUS
<1> USE SlotFacts, ProcMaxAssumption, TimerAssumption
    DEF IInv, TypeOK, BootSlots, Live, Dead, Stopped, tree, alarms, sched, clock
<1>1. ASSUME NEW i \in Slots, Dispatch(i) PROVE TypeOK'
    BY <1>1 DEF Dispatch, NextScan
<1>2. CASE Switch
    BY <1>2 DEF Switch
<1>3. CASE EndPass
    <2>1. scan' \in 0..PROC_MAX /\ run' \in {0, 1}
        BY <1>3 DEF EndPass, PassStart
    <2> QED
        BY <1>3, <2>1 DEF EndPass
<1>4. CASE Shutdown
    BY <1>4 DEF Shutdown
<1>5. CASE HardwareTick
    BY <1>5 DEF HardwareTick
<1>6. CASE InterruptScheduler
    BY <1>6, CountType DEF InterruptScheduler
<1>7. CASE InterruptSwitch
    BY <1>7, CountType DEF InterruptSwitch, YieldState
<1>8. ASSUME NEW p \in Slots, Interrupt(p) PROVE TypeOK'
    BY <1>8, CountType DEF Interrupt, TimerTrap, Yield, YieldState
<1>8a. ASSUME NEW p \in Slots, DoSignal(p) PROVE TypeOK'
    <2>1. /\ ticks' \in 0..TickCap /\ ti' = "counted"
          /\ UNCHANGED <<tree, callback, sched, state, cur_proc, cpu, ie, at, waitfor>>
        BY <1>8a, CountType DEF DoSignal, TimerTrap
    <2>2. timer_call_time' \in [Slots -> Deadlines \union {Never}]
        BY <1>8a, ZenonT(40) DEF DoSignal
    <2>3. handlers' \in [Slots -> 0..MaxNest]
        <3>1. handlers[p] \in 0..MaxNest /\ handlers[p] < MaxNest
            BY <1>8a DEF DoSignal
        <3>2. 0 <= handlers[p] + 1 /\ handlers[p] + 1 <= MaxNest /\ handlers[p] + 1 \in Int
            BY ONLY <3>1, NestAssumption
        <3> QED
            BY <1>8a, <3>2, Nesting DEF DoSignal
    <2> QED
        BY <2>1, <2>2, <2>3
<1>8b. ASSUME NEW p \in Slots, HandlerReturns(p) PROVE TypeOK'
    <2>1. handlers' \in [Slots -> 0..MaxNest]
        <3>1. handlers[p] \in 0..MaxNest /\ handlers[p] > 0
            BY <1>8b DEF HandlerReturns
        <3>2. 0 <= handlers[p] - 1 /\ handlers[p] - 1 <= MaxNest /\ handlers[p] - 1 \in Int
            BY ONLY <3>1, NestAssumption
        <3> QED
            BY <1>8b, <3>2, Nesting DEF HandlerReturns
    <2> QED
        BY <1>8b, <2>1 DEF HandlerReturns, Yield, YieldState
<1>9. ASSUME NEW p \in Slots, TickReturn(p) PROVE TypeOK'
    BY <1>9 DEF TickReturn
<1>10. ASSUME NEW p \in Slots, Clone(p) PROVE TypeOK'
    <2> PICK np \in Slots : Clone(p)!2!(np)
        BY <1>10 DEF Clone
    <2>1. children' \in [Slots -> Seq(Slots)]
        <3>1. p # np
            BY <1>10, Owner DEF Clone, InUser, FirstUnused
        <3> QED
            BY <3>1, ListAdd
    <2>2. last_pid' \in Nat /\ PidsBelow(pid', last_pid')
        <3>1. PidsBelow(pid, last_pid) /\ last_pid >= -1
            BY DEF PidsBelow
        <3>2. PidsBelow([pid EXCEPT ![np] = last_pid], last_pid + 1)
            BY ONLY <3>1, PidUpdate, last_pid \in Nat, np \in Slots
        <3>3. last_pid + 1 \in Nat
            OBVIOUS
        <3> QED
            BY <3>2, <3>3 DEF NewPid
    <2>3. /\ callback' \in [Slots -> {"null", "handler"}]
          /\ timer_call_time' \in [Slots -> Deadlines \union {Never}]
          /\ handlers' \in [Slots -> 0..MaxNest]
        BY NestAssumption
    <2> QED
        BY <2>1, <2>2, <2>3 DEF PidsBelow
<1>11. ASSUME NEW p \in Slots, Execve(p) PROVE TypeOK'
    <2> PICK np \in Slots : Execve(p)!2!(np)
        BY <1>11 DEF Execve
    <2>1. children' \in [Slots -> Seq(Slots)]
        <3>1. parent[p] \in Slots /\ parent[p] # np
            BY <1>11, Owner DEF Execve, InUser, FirstUnused, Used
        <3> QED
            BY <3>1, ListAdd
    <2>2. last_pid' \in Nat /\ PidsBelow(pid', last_pid')
        <3>1. PidsBelow(pid, last_pid) /\ pid[p] \in Int /\ pid[p] >= -1 /\ pid[p] < last_pid + 1
            BY SMTT(40) DEF PidsBelow
        <3>2. PidsBelow([pid EXCEPT ![np] = pid[p]], last_pid + 1)
            BY <3>1, PidUpdate
        <3>3. pid' = [[pid EXCEPT ![np] = pid[p]] EXCEPT ![p] = -1]
            BY DEF TakePid
        <3>4. PidsBelow(pid', last_pid + 1)
            BY ONLY <3>2, <3>3, PidReset, last_pid + 1 \in Nat, p \in Slots
        <3> QED
            BY <3>4
    <2>3. /\ callback' \in [Slots -> {"null", "handler"}]
          /\ timer_call_time' \in [Slots -> Deadlines \union {Never}]
          /\ handlers' \in [Slots -> 0..MaxNest]
        <3>1. handlers' = [handlers EXCEPT ![np] = 0] /\ handlers \in [Slots -> 0..MaxNest]
            OBVIOUS
        <3>2. handlers' \in [Slots -> 0..MaxNest]
            BY <3>1, Nesting, NestAssumption
        <3> QED
            BY <3>2
    <2> QED
        BY <2>1, <2>2, <2>3 DEF PidsBelow
<1>12. ASSUME NEW p \in Slots, ExecveFails(p) PROVE TypeOK'
    <2> PICK np \in Slots : ExecveFails(p)!3!(np)
        BY <1>12 DEF ExecveFails
    <2>1. last_pid' \in Nat /\ PidsBelow(pid', last_pid')
        <3>1. PidsBelow(pid, last_pid) /\ last_pid >= -1
            BY DEF PidsBelow
        <3>2. PidsBelow([pid EXCEPT ![np] = last_pid], last_pid + 1)
            BY ONLY <3>1, PidUpdate, last_pid \in Nat, np \in Slots
        <3>3. last_pid + 1 \in Nat
            OBVIOUS
        <3> QED
            BY <3>2, <3>3 DEF NewPid
    <2> QED
        BY <2>1 DEF PidsBelow
<1>13. ASSUME NEW p \in Slots, AllocPanics(p) \/ SyscallPanics(p) PROVE TypeOK'
    BY <1>13, ZenonT(40) DEF AllocPanics, SyscallPanics, Panic
<1>14. ASSUME NEW p \in Slots, Exit(p) PROVE TypeOK'
    BY <1>14 DEF Exit, KillSelf
<1>15. ASSUME NEW p \in Slots, Exception(p) PROVE TypeOK'
    BY <1>15 DEF Exception, KillSelf
<1>16. ASSUME NEW p \in Slots, WaitAnyCollect(p) PROVE TypeOK'
    BY <1>16 DEF WaitAnyCollect, Collect
<1>17. ASSUME NEW p \in Slots, WaitAnyYield(p) PROVE TypeOK'
    BY <1>17 DEF WaitAnyYield, Yield, YieldState
<1>18. ASSUME NEW p \in Slots, WaitAnyNoChild(p) PROVE TypeOK'
    BY <1>18 DEF WaitAnyNoChild
<1>19. ASSUME NEW p \in Slots, WaitPidCollect(p) PROVE TypeOK'
    BY <1>19 DEF WaitPidCollect, Collect
<1>20. ASSUME NEW p \in Slots, WaitPidYield(p) PROVE TypeOK'
    BY <1>20, ZenonT(40) DEF WaitPidYield, Yield, YieldState
<1>21. ASSUME NEW p \in Slots, Sigaction(p) PROVE TypeOK'
    BY <1>21 DEF Sigaction
<1>22. ASSUME NEW p \in Slots, Setitimer(p) PROVE TypeOK'
    BY <1>22, ZenonT(40) DEF Setitimer
<1>22a. ASSUME NEW p \in Slots, Spin(p) \/ SpinEnds(p) PROVE TypeOK'
    <2>1. /\ at' = [at EXCEPT ![p] = "spin"] \/ at' = [at EXCEPT ![p] = "user"]
          /\ UNCHANGED <<tree, alarms, sched, clock, state, cur_proc, cpu, ie, waitfor>>
        BY <1>22a DEF Spin, SpinEnds
    <2>2. at' \in [Slots -> {"user", "tick", "wait_any", "wait_pid", "exited", "spin"}]
        BY <2>1
    <2> QED
        BY <2>1, <2>2
<1>23. CASE UNCHANGED vars
    BY <1>23 DEF vars
<1> QED
    BY <1>1, <1>2, <1>3, <1>4, <1>5, <1>6, <1>7, <1>8, <1>9, <1>10, <1>11, <1>12,
       <1>13, <1>14, <1>15, <1>16, <1>17, <1>18, <1>19, <1>20, <1>21, <1>22, <1>23, <1>8a,
       <1>8b, <1>22a
    DEF Next, Halted

(* Only process creation touches the tree.                                 *)
LEMMA TreeSteps ==
    ASSUME [Next]_vars
    PROVE  UNCHANGED tree \/ \E p \in Slots : Clone(p) \/ Execve(p) \/ ExecveFails(p)
    BY DEF Next, vars, Dispatch, Switch, EndPass, Shutdown, HardwareTick,
           InterruptScheduler, InterruptSwitch, Interrupt, DoSignal, HandlerReturns,
           TickReturn, AllocPanics, Spin, SpinEnds,
           SyscallPanics, Panic, Exit, Exception, WaitAnyCollect, WaitAnyYield,
           WaitAnyNoChild, WaitPidCollect, WaitPidYield, Sigaction, Setitimer, Halted

(* The slot proc_alloc() takes is nobody's parent, child or wait target.   *)
LEMMA NewSlot ==
    ASSUME IInv, NEW np \in Slots, FirstUnused(np)
    PROVE  /\ ~Used(np) /\ np # kproc /\ np # 1
           /\ \A s \in Slots : \A i \in 1..Len(children[s]) : children[s][i] # np
           /\ \A s \in Slots : Task(s) => parent[s] # np
    BY DEF IInv, FirstUnused, Used, Task, BootSlots, FamilyTree, TasksHaveParents

(* What the creating calls do to the tree: owner is the new slot's parent. *)
Created(p, np, owner) ==
    /\ FirstUnused(np)
    /\ p # np /\ Task(p) /\ Used(owner) /\ owner # np
    /\ allocs' = [allocs EXCEPT ![np] = "USED"]
    /\ last_pid' = last_pid + 1
    /\ parent' = [parent EXCEPT ![np] = owner]
    /\ children' = LinkChild(owner, np)
    /\ \/ pid' = [pid EXCEPT ![np] = last_pid]
       \/ pid' = [pid EXCEPT ![np] = pid[p], ![p] = -1]

LEMMA Creation ==
    ASSUME IInv, NEW p \in Slots, Clone(p) \/ Execve(p)
    PROVE  \E np \in Slots, owner \in Slots : Created(p, np, owner)
<1>1. CASE Clone(p)
    <2>1. Task(p) /\ Used(p)
        BY <1>1, Owner DEF Clone, InUser
    <2>2. PICK np \in Slots : Clone(p)!2!(np)
        BY <1>1 DEF Clone
    <2>3. p # np
        BY <2>1, <2>2 DEF FirstUnused, Used
    <2> QED
        BY <2>1, <2>2, <2>3 DEF Created, NewPid
<1>2. CASE Execve(p)
    <2>1. Task(p) /\ Used(p) /\ parent[p] \in Slots /\ Used(parent[p])
        BY <1>2, Owner DEF Execve, InUser
    <2>2. PICK np \in Slots : Execve(p)!2!(np)
        BY <1>2 DEF Execve
    <2>3. p # np /\ parent[p] # np
        BY <2>1, <2>2 DEF FirstUnused, Used
    <2> QED
        BY <2>1, <2>2, <2>3 DEF Created, TakePid
<1> QED
    BY <1>1, <1>2

(* No step brings a dead process back.                                     *)
LEMMA DeadStaysDead ==
    ASSUME IInv, Next, NEW s \in Slots, Task(s), state[s] \in Dead
    PROVE  state'[s] \in Dead
<1>a. /\ state \in [Slots -> {"RUNNING", "RUNABLE", "ZOMBIE", "KILLED"}]
      /\ cur_proc \in Slots /\ s # kproc /\ state[s] \in {"ZOMBIE", "KILLED"}
    BY DEF IInv, TypeOK, Live, Dead, Task
<1> USE SlotFacts
<1>1. ASSUME NEW i \in Slots, Dispatch(i) PROVE state'[s] \in Dead
    BY <1>1, <1>a DEF Dispatch, Eligible, Dead
<1>2. CASE InterruptScheduler \/ InterruptSwitch
    BY <1>2, <1>a DEF InterruptScheduler, InterruptSwitch, YieldState, Dead
<1>3. ASSUME NEW p \in Slots,
             Interrupt(p) \/ HandlerReturns(p) \/ WaitAnyYield(p) \/ WaitPidYield(p)
      PROVE  state'[s] \in Dead
    BY <1>3, <1>a DEF Interrupt, HandlerReturns, WaitAnyYield, WaitPidYield, Yield, YieldState, Dead
<1>4. ASSUME NEW p \in Slots, Exit(p) \/ Exception(p) PROVE state'[s] \in Dead
    BY <1>4, <1>a DEF Exit, Exception, KillSelf, Dead
<1>5. ASSUME NEW p \in Slots, WaitAnyCollect(p) \/ WaitPidCollect(p) PROVE state'[s] \in Dead
    BY <1>5, <1>a DEF WaitAnyCollect, WaitPidCollect, Collect, Dead
<1>6. ASSUME NEW p \in Slots, Clone(p) \/ Execve(p) \/ ExecveFails(p)
      PROVE  state'[s] \in Dead
    <2>1. PICK np \in Slots :
            /\ FirstUnused(np)
            /\ state' \in {[state EXCEPT ![np] = "RUNABLE"],
                           [state EXCEPT ![np] = "RUNABLE", ![p] = "KILLED"]}
        BY <1>6 DEF Clone, Execve, ExecveFails
    <2>2. s # np
        BY <2>1 DEF FirstUnused, Task, Used
    <2> QED
        BY <2>1, <2>2, <1>a DEF Dead
<1>7. CASE UNCHANGED state
    BY <1>7
<1>8. CASE \/ Switch \/ EndPass \/ Shutdown \/ HardwareTick \/ Halted
           \/ \E p \in Slots : \/ TickReturn(p) \/ AllocPanics(p) \/ SyscallPanics(p)
                               \/ WaitAnyNoChild(p) \/ Sigaction(p) \/ Setitimer(p)
                               \/ DoSignal(p) \/ Spin(p) \/ SpinEnds(p)
    BY <1>7, <1>8 DEF Switch, EndPass, Shutdown, HardwareTick, Halted, vars, TickReturn,
                      AllocPanics, SyscallPanics, Panic, WaitAnyNoChild, Sigaction, Setitimer,
                DoSignal, Spin, SpinEnds
<1> QED
    BY <1>1, <1>2, <1>3, <1>4, <1>5, <1>6, <1>8 DEF Next

(* BootSlots, TasksHaveParents and PidNamesOne are preserved.              *)
LEMMA TreeStep ==
    IInv /\ [Next]_vars => BootSlots' /\ TasksHaveParents' /\ PidNamesOne'
<1> SUFFICES ASSUME IInv, [Next]_vars PROVE BootSlots' /\ TasksHaveParents' /\ PidNamesOne'
    OBVIOUS
<1> USE SlotFacts DEF IInv, PidUnique, Created
<1>1. CASE UNCHANGED tree
    BY <1>1 DEF tree, BootSlots, TasksHaveParents, PidNamesOne, Used, Task
<1>2. ASSUME NEW p \in Slots, Clone(p) \/ Execve(p)
      PROVE  BootSlots' /\ TasksHaveParents' /\ PidNamesOne'
    <2>1. PICK np \in Slots, owner \in Slots : Created(p, np, owner)
        BY <1>2, Creation
    <2>2. ~Used(np) /\ np # kproc /\ np # 1 /\ \A s \in Slots : Task(s) => parent[s] # np
        BY <2>1, NewSlot
    <2>3. \A s \in Slots : Used(s)' <=> Used(s) \/ s = np
        BY <2>1 DEF Used, TypeOK
    <2>4. \A s \in Slots : parent'[s] = IF s = np THEN owner ELSE parent[s]
        BY <2>1 DEF TypeOK
    <2>5. pid[p] # 0 /\ last_pid # 0
        BY <2>1 DEF BootSlots, TasksHaveParents, TypeOK
    <2>6. \/ \A s \in Slots : pid'[s] = IF s = np THEN last_pid ELSE pid[s]
          \/ \A s \in Slots : pid'[s] = IF s = np THEN pid[p] ELSE IF s = p THEN -1 ELSE pid[s]
        BY <2>1 DEF TypeOK
    <2>7. BootSlots'
        <3>1. pid'[kproc] = 0
            BY <2>1, <2>2, <2>6 DEF BootSlots, Task
        <3>2. last_pid' >= 2
            BY <2>1 DEF BootSlots, TypeOK
        <3> QED
            BY <2>2, <2>3, <2>4, <3>1, <3>2 DEF BootSlots
    <2>8. TasksHaveParents'
        <3> SUFFICES ASSUME NEW s \in Slots, Task(s)'
                     PROVE  pid'[s] # 0 /\ parent'[s] \in Slots /\ Used(parent[s])'
            BY DEF TasksHaveParents
        <3>1. CASE s = np
            <4>1. pid'[s] # 0
                BY <3>1, <2>5, <2>6
            <4>2. parent'[s] = owner
                BY <3>1, <2>4
            <4> QED
                BY <4>1, <4>2, <2>1, <2>3
        <3>2. CASE s # np
            <4>1. Task(s)
                BY <3>2, <2>3 DEF Task
            <4>2. pid[s] # 0 /\ parent[s] \in Slots /\ Used(parent[s])
                BY <4>1 DEF TasksHaveParents
            <4>3. pid'[s] # 0
                BY <3>2, <4>2, <2>6
            <4>4. parent'[s] = parent[s]
                BY <3>2, <2>4
            <4> QED
                BY <4>2, <4>3, <4>4, <2>3
        <3> QED
            BY <3>1, <3>2
    <2>9. PidNamesOne'
        <3> SUFFICES ASSUME NEW s \in Slots, NEW t \in Slots,
                            Used(s)', Used(t)', pid'[s] = pid'[t], s # t
                     PROVE  pid'[s] = -1
            BY DEF PidNamesOne
        <3>1. \A r \in Slots : pid[r] # last_pid
            BY DEF TypeOK
        <3>2. Used(p)
            BY <2>1 DEF Task
        <3> QED
            BY <2>1, <2>3, <2>6, <3>1, <3>2 DEF PidNamesOne
    <2> QED
        BY <2>7, <2>8, <2>9
<1>3. ASSUME NEW p \in Slots, ExecveFails(p)
      PROVE  BootSlots' /\ TasksHaveParents' /\ PidNamesOne'
    <2>1. PICK np \in Slots : ExecveFails(p)!3!(np)
        BY <1>3 DEF ExecveFails
    <2>2. ~Used(np) /\ np # kproc /\ np # 1
        BY <2>1, NewSlot
    <2>3. \A s \in Slots : s # np => pid'[s] = pid[s] /\ parent'[s] = parent[s]
        BY <2>1 DEF TypeOK
    <2>4. UNCHANGED allocs /\ last_pid' = last_pid + 1
        BY <2>1
    <2>5. BootSlots'
        <3>1. last_pid' >= 2
            BY <2>4 DEF BootSlots, TypeOK
        <3> QED
            BY <2>2, <2>3, <2>4, <3>1 DEF BootSlots, Used
    <2>6. TasksHaveParents'
        BY <2>2, <2>3, <2>4 DEF TasksHaveParents, Used, Task
    <2>7. PidNamesOne'
        BY <2>2, <2>3, <2>4 DEF PidNamesOne, Used
    <2> QED
        BY <2>5, <2>6, <2>7
<1> QED
    BY <1>1, <1>2, <1>3, TreeSteps

(* What is alive with pid -1 keeps a dead sibling that had the place       *)
(* before it: only execve() by an image that has pid -1 makes one.         *)
LEMMA PidStep == IInv /\ [Next]_vars => NoPidInherited'
<1> SUFFICES ASSUME IInv, [Next]_vars, NEW s \in Slots,
                    Used(s)', pid'[s] = -1, state'[s] \in Live
             PROVE  \E t \in Slots : /\ Used(t)' /\ pid'[t] = -1 /\ state'[t] \in Dead
                                     /\ parent'[t] = parent'[s]
    BY DEF NoPidInherited
<1> USE SlotFacts
<1>a. NoPidInherited /\ BootSlots /\ TypeOK
    BY DEF IInv, PidUnique
<1>b. Live \intersect Dead = {}
    BY DEF Live, Dead
<1>c. \A t \in Slots : Used(t) /\ pid[t] = -1 => Task(t)
    BY <1>a DEF BootSlots, Task
<1>d. \A t \in Slots : Task(t) /\ state[t] \in Dead => state'[t] \in Dead
    <2>1. CASE Next
        BY <2>1, DeadStaysDead
    <2>2. CASE UNCHANGED vars
        BY <2>2 DEF vars
    <2> QED
        BY <2>1, <2>2
<1>e. \A t \in Slots : Task(t) => state[t] \in Live \/ state'[t] \in Dead
    BY <1>a, <1>d DEF TypeOK
<1>1. ASSUME Used(s), pid[s] = -1, parent'[s] = parent[s],
             \A t \in Slots : Used(t) /\ pid[t] = -1 =>
                Used(t)' /\ pid'[t] = -1 /\ parent'[t] = parent[t]
      PROVE  \E t \in Slots : /\ Used(t)' /\ pid'[t] = -1 /\ state'[t] \in Dead
                              /\ parent'[t] = parent'[s]
    <2>1. state[s] \in Live
        BY <1>1, <1>b, <1>c, <1>e
    <2>2. PICK t \in Slots : Used(t) /\ pid[t] = -1 /\ state[t] \in Dead /\ parent[t] = parent[s]
        BY <1>1, <2>1, <1>a DEF NoPidInherited
    <2>3. state'[t] \in Dead
        BY <2>2, <1>c, <1>d
    <2> QED
        BY <1>1, <2>2, <2>3
<1>2. CASE UNCHANGED tree
    BY <1>1, <1>2 DEF tree, Used
<1>3. ASSUME NEW p \in Slots, ExecveFails(p)
      PROVE  \E t \in Slots : /\ Used(t)' /\ pid'[t] = -1 /\ state'[t] \in Dead
                              /\ parent'[t] = parent'[s]
    <2>1. PICK np \in Slots : ExecveFails(p)!3!(np)
        BY <1>3 DEF ExecveFails
    <2>2. UNCHANGED allocs /\ ~Used(np)
        BY <2>1, NewSlot
    <2>3. \A t \in Slots : t # np => pid'[t] = pid[t] /\ parent'[t] = parent[t]
        BY <2>1, <1>a DEF TypeOK
    <2> QED
        BY <1>1, <2>2, <2>3 DEF Used
<1>4. ASSUME NEW p \in Slots, Clone(p)
      PROVE  \E t \in Slots : /\ Used(t)' /\ pid'[t] = -1 /\ state'[t] \in Dead
                              /\ parent'[t] = parent'[s]
    <2>1. PICK np \in Slots : Clone(p)!2!(np)
        BY <1>4 DEF Clone
    <2>2. ~Used(np) /\ pid'[np] = last_pid /\ last_pid # -1
        BY <2>1, NewSlot, <1>a DEF NewPid, BootSlots, TypeOK
    <2>3. \A t \in Slots : t # np =>
            pid'[t] = pid[t] /\ parent'[t] = parent[t] /\ (Used(t)' <=> Used(t))
        BY <2>1, <1>a DEF TypeOK, Used
    <2> QED
        BY <1>1, <2>2, <2>3
<1>5. ASSUME NEW p \in Slots, Execve(p)
      PROVE  \E t \in Slots : /\ Used(t)' /\ pid'[t] = -1 /\ state'[t] \in Dead
                              /\ parent'[t] = parent'[s]
    <2>1. PICK np \in Slots : Execve(p)!2!(np)
        BY <1>5 DEF Execve
    <2>2. Task(p) /\ Used(p)
        BY <1>5, Owner DEF Execve, InUser
    <2>3. ~Used(np) /\ p # np
        BY <2>1, <2>2, NewSlot
    <2>4. /\ pid'[np] = pid[p] /\ parent'[np] = parent[p]
          /\ pid'[p] = -1 /\ parent'[p] = parent[p] /\ state'[p] = "KILLED" /\ Used(p)'
        BY <2>1, <2>2, <2>3, <1>a DEF TypeOK, TakePid, Used
    <2>5. \A t \in Slots : t # np /\ t # p =>
            pid'[t] = pid[t] /\ parent'[t] = parent[t] /\ (Used(t)' <=> Used(t))
        BY <2>1, <1>a DEF TypeOK, TakePid, Used
    <2>6. CASE s = np
        BY <2>6, <2>4 DEF Dead
    <2>7. CASE s # np
        <3>1. s # p
            BY <2>4, <1>b DEF Dead
        <3> QED
            BY <1>1, <2>3, <2>4, <2>5, <2>7, <3>1
    <2> QED
        BY <2>6, <2>7
<1> QED
    BY <1>2, <1>3, <1>4, <1>5, TreeSteps

(* The children lists keep mirroring the parent pointers.                  *)
LEMMA FamilyStep == IInv /\ [Next]_vars => FamilyTree'
<1> SUFFICES ASSUME IInv, [Next]_vars PROVE FamilyTree'
    OBVIOUS
<1>a. /\ children \in [Slots -> Seq(Slots)]
      /\ \A s \in Slots : Len(children[s]) \in Nat
      /\ \A s \in Slots : \A i \in 1..Len(children[s]) : children[s][i] \in Slots
    BY DEF IInv, TypeOK
<1>b. FamilyTree
    BY DEF IInv
<1>1. CASE UNCHANGED tree
    BY <1>1, <1>b DEF tree, FamilyTree, Used, Task
<1>2. ASSUME NEW p \in Slots, Clone(p) \/ Execve(p) PROVE FamilyTree'
    <2>1. PICK np \in Slots, owner \in Slots : Created(p, np, owner)
        BY <1>2, Creation
    <2>2. /\ ~Used(np) /\ np # kproc /\ np # 1
          /\ \A s \in Slots : \A i \in 1..Len(children[s]) : children[s][i] # np
          /\ \A s \in Slots : Task(s) => parent[s] # np
        BY <2>1, NewSlot DEF Created
    <2>3. /\ \A s \in Slots : Used(s)' <=> Used(s) \/ s = np
          /\ \A s \in Slots : Task(s)' <=> Task(s) \/ s = np
        BY <2>1, <2>2 DEF Created, Used, Task, IInv, TypeOK
    <2>4. \A s \in Slots : parent'[s] = IF s = np THEN owner ELSE parent[s]
        BY <2>1 DEF Created, IInv, TypeOK
    <2>5. /\ children'[np] = <<>>
          /\ \A s \in Slots \ {owner, np} : children'[s] = children[s]
          /\ Len(children'[owner]) = Len(children[owner]) + 1
          /\ children'[owner][1] = np
          /\ \A i \in 1..Len(children[owner]) : children'[owner][i + 1] = children[owner][i]
        <3>1. owner # np /\ children' = LinkChild(owner, np)
            BY <2>1 DEF Created
        <3>2. /\ LinkChild(owner, np)[np] = <<>>
              /\ \A s \in Slots \ {owner, np} : LinkChild(owner, np)[s] = children[s]
              /\ Len(LinkChild(owner, np)[owner]) = Len(children[owner]) + 1
              /\ LinkChild(owner, np)[owner][1] = np
              /\ \A i \in 1..Len(children[owner]) :
                    LinkChild(owner, np)[owner][i + 1] = children[owner][i]
            <4>1. children \in [Slots -> Seq(Slots)] /\ owner # np
                BY <1>a, <3>1
            <4> HIDE <1>a, <1>b
            <4> QED
                BY <4>1, ListAdd, ZenonT(80)
        <3> QED
            BY <3>1, <3>2
    <2>6. Len(children[owner]) \in Nat
        BY <1>a
    <2>7. \A i \in 1..Len(children'[owner]) :
            i = 1 \/ (i - 1 \in 1..Len(children[owner])
                      /\ children'[owner][i] = children[owner][i - 1])
        BY <2>5, <2>6, SMTT(30)
    <2>8. \A s \in Slots : \A i \in 1..Len(children'[s]) :
            (Task(children[s][i]) /\ parent[children[s][i]] = s)'
        <3> TAKE s \in Slots
        <3> TAKE i \in 1..Len(children'[s])
        <3>1. CASE s = np
            BY <3>1, <2>5
        <3>2. CASE s = owner
            <4>1. CASE i = 1
                <5>1. children'[s][i] = np
                    BY <4>1, <3>2, <2>5
                <5> QED
                    BY <5>1, <3>2, <2>3, <2>4
            <4>2. CASE i # 1
                <5>1. /\ i - 1 \in 1..Len(children[owner])
                      /\ children'[s][i] = children[owner][i - 1]
                    BY <4>2, <3>2, <2>7
                <5>2. /\ children[owner][i - 1] \in Slots
                      /\ Task(children[owner][i - 1]) /\ parent[children[owner][i - 1]] = owner
                    BY <5>1, <1>a, <1>b DEF FamilyTree
                <5> QED
                    BY <5>1, <5>2, <3>2, <2>2, <2>3, <2>4
            <4> QED
                BY <4>1, <4>2
        <3>3. CASE s # np /\ s # owner
            <4>1. children'[s] = children[s]
                BY <3>3, <2>5
            <4>2. children[s][i] \in Slots /\ Task(children[s][i]) /\ parent[children[s][i]] = s
                BY <4>1, <1>a, <1>b DEF FamilyTree
            <4> QED
                BY <4>1, <4>2, <2>2, <2>3, <2>4
        <3> QED
            BY <3>1, <3>2, <3>3
    <2>9. \A s \in Slots : \A i, j \in 1..Len(children'[s]) :
            children'[s][i] = children'[s][j] => i = j
        <3> TAKE s \in Slots
        <3> TAKE i, j \in 1..Len(children'[s])
        <3>1. CASE s = np
            BY <3>1, <2>5
        <3>2. CASE s = owner
            <4>1. /\ i = 1 \/ children'[owner][i] # np
                  /\ j = 1 \/ children'[owner][j] # np
                BY <3>2, <2>2, <2>7
            <4>2. CASE i = 1 \/ j = 1
                BY <4>1, <4>2, <3>2, <2>5
            <4>3. CASE i # 1 /\ j # 1
                <5>1. \A k, l \in 1..Len(children[owner]) :
                        children[owner][k] = children[owner][l] => k = l
                    BY <1>b DEF FamilyTree
                <5>2. /\ i - 1 \in 1..Len(children[owner]) /\ j - 1 \in 1..Len(children[owner])
                      /\ children'[s][i] = children[owner][i - 1]
                      /\ children'[s][j] = children[owner][j - 1]
                    BY <4>3, <3>2, <2>7
                <5>3. children'[s][i] = children'[s][j] => i - 1 = j - 1
                    BY <5>1, <5>2
                <5> QED
                    BY <5>3, <2>5, <2>6, <3>2
            <4> QED
                BY <4>2, <4>3
        <3>3. CASE s # np /\ s # owner
            BY <3>3, <2>5, <1>b DEF FamilyTree
        <3> QED
            BY <3>1, <3>2, <3>3
    <2>10. ASSUME NEW s \in Slots, Task(s)', s # 1
           PROVE  /\ parent'[s] \in Slots
                  /\ \E i \in 1..Len(children'[parent'[s]]) : children'[parent'[s]][i] = s
        <3>1. CASE s = np
            <4>1. parent'[s] = owner /\ 1 \in 1..Len(children'[owner])
                BY <3>1, <2>4, <2>5, <2>6
            <4> QED
                BY <4>1, <3>1, <2>5
        <3>2. CASE s # np
            <4>1. Task(s) /\ parent'[s] = parent[s] /\ parent[s] # np /\ parent[s] \in Slots
                BY <3>2, <2>2, <2>3, <2>4, <2>10, <1>b DEF FamilyTree
            <4>2. PICK i \in 1..Len(children[parent[s]]) : children[parent[s]][i] = s
                BY <4>1, <2>10, <1>b DEF FamilyTree
            <4>3. CASE parent[s] = owner
                <5>1. i + 1 \in 1..Len(children'[owner]) /\ children'[owner][i + 1] = s
                    BY <4>2, <4>3, <2>5, <2>6
                <5> QED
                    BY <4>1, <4>3, <5>1
            <4>4. CASE parent[s] # owner
                BY <4>1, <4>2, <4>4, <2>5
            <4> QED
                BY <4>3, <4>4
        <3> QED
            BY <3>1, <3>2
    <2> QED
        BY <2>8, <2>9, <2>10 DEF FamilyTree
<1>3. ASSUME NEW p \in Slots, ExecveFails(p) PROVE FamilyTree'
    <2>1. PICK np \in Slots : ExecveFails(p)!3!(np)
        BY <1>3 DEF ExecveFails
    <2>2. /\ ~Used(np)
          /\ \A s \in Slots : \A i \in 1..Len(children[s]) : children[s][i] # np
        BY <2>1, NewSlot
    <2>3. \A s \in Slots : s # np => parent'[s] = parent[s]
        BY <2>1 DEF IInv, TypeOK
    <2>4. UNCHANGED <<allocs, children>>
        BY <2>1
    <2>5. \A s \in Slots : (Used(s)' <=> Used(s)) /\ (Task(s)' <=> Task(s))
        BY <2>4 DEF Used, Task
    <2>6. \A s \in Slots : \A i \in 1..Len(children'[s]) :
            (Task(children[s][i]) /\ parent[children[s][i]] = s)'
        <3> TAKE s \in Slots
        <3> TAKE i \in 1..Len(children'[s])
        <3>1. /\ i \in 1..Len(children[s]) /\ children'[s][i] = children[s][i]
              /\ children[s][i] \in Slots /\ children[s][i] # np
            BY <2>2, <2>4, <1>a
        <3>2. Task(children[s][i]) /\ parent[children[s][i]] = s
            BY <3>1, <1>b DEF FamilyTree
        <3>3. Task(children[s][i])'
            BY <3>1, <3>2, <2>4 DEF Task, Used
        <3> QED
            BY <3>1, <3>2, <3>3, <2>3
    <2>7. \A s \in Slots : Task(s)' /\ s # 1 =>
            /\ parent'[s] \in Slots
            /\ \E i \in 1..Len(children'[parent'[s]]) : children'[parent'[s]][i] = s
        BY <2>2, <2>3, <2>4, <2>5, <1>b DEF FamilyTree, Task
    <2> QED
        BY <2>4, <2>6, <2>7, <1>b DEF FamilyTree
<1> QED
    BY <1>1, <1>2, <1>3, TreeSteps

(* Who has the processor, what scheduler() remembers of its pass and what  *)
(* a shutdown has seen.                                                    *)
CpuInv == CpuOwner /\ OneOnCpu /\ PassMemory /\ ShutdownClean

(* A step back to the scheduler: the task that leaves is not RUNNING.      *)
LEMMA LeaveCpu ==
    ASSUME IInv, NEW p \in Slots, cpu = "task", cur_proc = p,
           UNCHANGED <<tree, sched, cur_proc>>, cpu' = "scheduler",
           \A s \in Slots : s # p /\ s # kproc => state'[s] = state[s],
           state'[p] # "RUNNING"
    PROVE  CpuInv'
<1>1. CpuOwner' /\ ShutdownClean'
    BY DEF CpuOwner, ShutdownClean
<1>2. OneOnCpu'
    BY DEF IInv, OneOnCpu, Task, Used, tree
<1>3. PassMemory'
    BY DEF IInv, CpuOwner, PassMemory, sched, TypeOK
<1> QED
    BY <1>1, <1>2, <1>3 DEF CpuInv

(* A step in which the task keeps the processor, or stops the machine.     *)
LEMMA KeepCpu ==
    ASSUME IInv, NEW p \in Slots, cpu = "task", cur_proc = p,
           UNCHANGED <<sched, cur_proc>>, cpu' \in {"task", "halt"},
           \A s \in Slots : Used(s) => Used(s)',
           \A s \in Slots : Task(s)' /\ state'[s] = "RUNNING" => Task(s) /\ state[s] = "RUNNING",
           state'[p] # "ZOMBIE"
    PROVE  CpuInv'
<1>1. CpuOwner' /\ ShutdownClean' /\ PassMemory'
    BY DEF IInv, CpuOwner, ShutdownClean, PassMemory, sched
<1>2. OneOnCpu'
    BY DEF IInv, OneOnCpu, TypeOK
<1> QED
    BY <1>1, <1>2 DEF CpuInv

LEMMA CpuStep == IInv /\ [Next]_vars => CpuInv'
<1> SUFFICES ASSUME IInv, [Next]_vars PROVE CpuInv'
    OBVIOUS
<1>a. /\ state \in [Slots -> {"RUNNING", "RUNABLE", "ZOMBIE", "KILLED"}]
      /\ allocs \in [Slots -> {"UNUSED", "USED"}]
      /\ cur_proc \in Slots /\ run \in {0, 1} /\ scan \in 0..PROC_MAX
    BY DEF IInv, TypeOK, Live, Dead
<1>b. CpuOwner /\ OneOnCpu /\ PassMemory /\ ShutdownClean /\ BootSlots /\ TasksHaveParents
    BY DEF IInv
<1> USE SlotFacts
<1>1. ASSUME NEW i \in Slots, Dispatch(i) PROVE CpuInv'
    <2>1. i # kproc /\ Used(i) /\ state[i] = "RUNABLE"
        BY <1>1, <1>b DEF Dispatch, Eligible, BootSlots, Used
    <2>2. \A s \in Slots : Task(s) => state[s] # "RUNNING"
        BY <1>1, <1>b DEF Dispatch, OneOnCpu
    <2>3. /\ state'[i] = "RUNNING"
          /\ \A s \in Slots : s # i /\ s # kproc => state'[s] = state[s]
        BY <1>1, <1>a, <2>1 DEF Dispatch
    <2>4. cpu' = "switch" /\ cur_proc' = i /\ run' = 1 /\ UNCHANGED allocs
        BY <1>1 DEF Dispatch, tree
    <2> QED
        BY <2>1, <2>2, <2>3, <2>4
        DEF CpuInv, CpuOwner, OneOnCpu, PassMemory, ShutdownClean, Task, Used
<1>2. CASE Switch
    BY <1>2, <1>b
    DEF Switch, CpuInv, CpuOwner, OneOnCpu, PassMemory, ShutdownClean, Task, Used, tree, sched
<1>3. CASE EndPass
    BY <1>3, <1>b
    DEF EndPass, PassOver, PassStart, CpuInv, CpuOwner, OneOnCpu, PassMemory, ShutdownClean,
        Task, Used, tree, Slots
<1>4. CASE Shutdown
    <2>1. cpu = "scheduler" /\ run = 0 /\ cpu' = "off" /\ UNCHANGED <<tree, state, cur_proc>>
        BY <1>4 DEF Shutdown, PassOver, ShutdownGuard
    <2>2. \A s \in Slots : ~Eligible(s)
        <3> TAKE s \in Slots
        <3>1. CASE s < scan
            BY <3>1, <2>1, <1>b DEF PassMemory
        <3>2. CASE s >= scan
            BY <3>2, <1>4 DEF Shutdown, PassOver
        <3> QED
            BY <3>1, <3>2, <1>a
    <2>3. \A s \in Slots : Task(s) => state[s] \in Dead
        BY <2>1, <2>2, <1>a, <1>b DEF Eligible, Task, Used, OneOnCpu, TasksHaveParents, Dead
    <2> QED
        BY <2>1, <2>3, <1>b
        DEF CpuInv, CpuOwner, OneOnCpu, PassMemory, ShutdownClean, Task, Used, tree, Dead
<1>5. CASE HardwareTick
    BY <1>5, <1>b
    DEF HardwareTick, CpuInv, CpuOwner, OneOnCpu, PassMemory, ShutdownClean, Eligible, Task,
        Used, tree, sched
<1>6. CASE InterruptScheduler
    <2>1. /\ cpu = "scheduler" /\ UNCHANGED <<tree, sched, cpu, cur_proc>>
          /\ \A s \in Slots : s # kproc => state'[s] = state[s]
        BY <1>6, <1>a DEF InterruptScheduler
    <2>2. \A s \in Slots : Eligible(s)' => Eligible(s)
        BY <2>1, <1>b DEF Eligible, BootSlots, tree
    <2> QED
        BY <2>1, <2>2, <1>b
        DEF CpuInv, CpuOwner, OneOnCpu, PassMemory, ShutdownClean, Task, Used, tree, sched
<1>7. CASE InterruptSwitch
    <2>1. /\ cpu = "switch" /\ cpu' = "lost" /\ UNCHANGED <<tree, cur_proc>>
          /\ \A s \in Slots : s # cur_proc /\ s # kproc => state'[s] = state[s]
          /\ state'[cur_proc] # "RUNNING"
        BY <1>7, <1>a, <1>b DEF InterruptSwitch, YieldState, CpuOwner
    <2> QED
        BY <2>1, <1>b
        DEF CpuInv, CpuOwner, OneOnCpu, PassMemory, ShutdownClean, Task, Used, tree
<1>8. ASSUME NEW p \in Slots,
             Interrupt(p) \/ HandlerReturns(p) \/ WaitAnyYield(p) \/ WaitPidYield(p)
      PROVE  CpuInv'
    <2>1. /\ cpu = "task" /\ cur_proc = p /\ cpu' = "scheduler"
          /\ UNCHANGED <<tree, sched, cur_proc>> /\ state' = YieldState(p)
        BY <1>8 DEF Interrupt, TimerTrap, HandlerReturns, WaitAnyYield, WaitingAny,
                    WaitPidYield, WaitingPid, InUser, Yield
    <2>2. p # kproc
        BY <2>1, <1>b DEF CpuOwner
    <2>3. /\ \A s \in Slots : s # p /\ s # kproc => state'[s] = state[s]
          /\ state'[p] # "RUNNING"
        BY <2>1, <2>2, <1>a DEF YieldState
    <2> QED
        BY <2>1, <2>3, LeaveCpu
<1>9. ASSUME NEW p \in Slots, Exit(p) \/ Exception(p) PROVE CpuInv'
    <2>1. /\ cpu = "task" /\ cur_proc = p /\ cpu' = "scheduler"
          /\ UNCHANGED <<tree, sched, cur_proc>>
          /\ state' = [state EXCEPT ![p] = "ZOMBIE", ![kproc] = "RUNNING"]
        BY <1>9 DEF Exit, Exception, KillSelf, InUser
    <2>2. p # kproc
        BY <2>1, <1>b DEF CpuOwner
    <2>3. /\ \A s \in Slots : s # p /\ s # kproc => state'[s] = state[s]
          /\ state'[p] # "RUNNING"
        BY <2>1, <2>2, <1>a
    <2> QED
        BY <2>1, <2>3, LeaveCpu
<1>10. ASSUME NEW p \in Slots,
              TickReturn(p) \/ AllocPanics(p) \/ SyscallPanics(p)
              \/ WaitAnyNoChild(p) \/ Sigaction(p) \/ Setitimer(p)
              \/ DoSignal(p) \/ Spin(p) \/ SpinEnds(p)
       PROVE  CpuInv'
    <2>1. /\ cpu = "task" /\ cur_proc = p /\ cpu' \in {"task", "halt"}
          /\ UNCHANGED <<allocs, state, sched, cur_proc>>
        BY <1>10 DEF TickReturn, AllocPanics, SyscallPanics, Panic, WaitAnyNoChild, WaitingAny,
                     Sigaction, Setitimer, DoSignal, TimerTrap, Spin, SpinEnds, InUser, tree
    <2>2. state[p] # "ZOMBIE"
        BY <2>1, <1>b DEF CpuOwner
    <2>3. \A s \in Slots : (Used(s)' <=> Used(s)) /\ (Task(s)' <=> Task(s))
        BY <2>1 DEF Used, Task
    <2> QED
        BY <2>1, <2>2, <2>3, KeepCpu
<1>11. ASSUME NEW p \in Slots, WaitAnyCollect(p) \/ WaitPidCollect(p) PROVE CpuInv'
    <2>1. /\ cpu = "task" /\ cur_proc = p /\ cpu' = "task"
          /\ UNCHANGED <<allocs, sched, cur_proc>>
          /\ \E c : state' = [state EXCEPT ![c] = "KILLED"]
        BY <1>11 DEF WaitAnyCollect, WaitingAny, WaitPidCollect, WaitingPid, Collect, InUser, tree
    <2>2. /\ state'[p] # "ZOMBIE"
          /\ \A s \in Slots : state'[s] = "RUNNING" => state[s] = "RUNNING"
        BY <2>1, <1>a, <1>b DEF CpuOwner
    <2>3. \A s \in Slots : (Used(s)' <=> Used(s)) /\ (Task(s)' <=> Task(s))
        BY <2>1 DEF Used, Task
    <2> QED
        BY <2>1, <2>2, <2>3, KeepCpu
<1>12. ASSUME NEW p \in Slots, Clone(p) \/ Execve(p) \/ ExecveFails(p) PROVE CpuInv'
    <2>1. cpu = "task" /\ cur_proc = p /\ cpu' = "task" /\ UNCHANGED <<sched, cur_proc>>
        BY <1>12 DEF Clone, Execve, ExecveFails, InUser
    <2>2. PICK np \in Slots :
            /\ FirstUnused(np)
            /\ allocs' \in {allocs, [allocs EXCEPT ![np] = "USED"]}
            /\ state' \in {[state EXCEPT ![np] = "RUNABLE"],
                           [state EXCEPT ![np] = "RUNABLE", ![p] = "KILLED"]}
        BY <1>12 DEF Clone, Execve, ExecveFails
    <2>3. p # np /\ state[p] # "ZOMBIE"
        BY <2>1, <2>2, <1>b, Owner DEF FirstUnused, CpuOwner
    <2>4. \A s \in Slots : Used(s)' => Used(s) \/ s = np
        BY <2>2, <1>a DEF Used
    <2>5. \A s \in Slots : Used(s) => Used(s)'
        BY <2>2, <1>a DEF Used
    <2>6. state'[np] = "RUNABLE" /\ state'[p] # "ZOMBIE"
        BY <2>2, <2>3, <1>a
    <2>7. \A s \in Slots : s # np /\ state'[s] = "RUNNING" => state[s] = "RUNNING"
        BY <2>2, <2>3, <1>a
    <2> QED
        BY <2>1, <2>4, <2>5, <2>6, <2>7, KeepCpu DEF Task
<1>13. CASE UNCHANGED vars
    BY <1>13, <1>b
    DEF vars, CpuInv, CpuOwner, OneOnCpu, PassMemory, ShutdownClean, Eligible, Task, Used,
        tree, sched
<1> QED
    BY <1>1, <1>2, <1>3, <1>4, <1>5, <1>6, <1>7, <1>8, <1>9, <1>10, <1>11, <1>12, <1>13
    DEF Next, Halted

(* A suspended wait4() keeps pointing at a child of its own.               *)
LEMMA WaiterStep == IInv /\ [Next]_vars => WaiterTarget'
<1> SUFFICES ASSUME IInv, [Next]_vars, NEW q \in Slots,
                    at'[q] = "wait_pid", waitfor'[q] # NULL
             PROVE  (Task(waitfor[q]) /\ parent[waitfor[q]] = q)'
    BY DEF WaiterTarget
<1>a. /\ at \in [Slots -> {"user", "tick", "wait_any", "wait_pid", "exited", "spin"}]
      /\ waitfor \in [Slots -> Slots \union {NULL}]
      /\ parent \in [Slots -> Slots \union {NULL}]
      /\ allocs \in [Slots -> {"UNUSED", "USED"}]
    BY DEF IInv, TypeOK
<1>b. WaiterTarget /\ BootSlots
    BY DEF IInv
<1> USE SlotFacts
<1>1. ASSUME NEW p \in Slots, WaitPidYield(p)
      PROVE  (Task(waitfor[q]) /\ parent[waitfor[q]] = q)'
    <2>1. PICK pos \in Slots \union {NULL} :
            WaitingPid(p, pos) /\ waitfor' = [waitfor EXCEPT ![p] = pos]
        BY <1>1 DEF WaitPidYield
    <2>2. UNCHANGED tree /\ at' = [at EXCEPT ![p] = "wait_pid"]
        BY <1>1 DEF WaitPidYield, Yield
    <2>3. pos \in Slots => Task(pos) /\ parent[pos] = p
        <3>1. CASE InUser(p) /\ (\E n \in 0..last_pid : ProcFind(n, pos)) /\ OwnChild(p, pos)
            <4> SUFFICES ASSUME pos \in Slots PROVE Task(pos) /\ parent[pos] = p
                OBVIOUS
            <4>1. Used(pos) /\ parent[pos] = p
                BY <3>1 DEF ProcFind, HasPid, OwnChild, Used
            <4>2. pos # kproc
                BY <4>1, <1>b DEF BootSlots
            <4> QED
                BY <4>1, <4>2 DEF Task
        <3>2. CASE at[p] = "wait_pid" /\ pos = waitfor[p]
            BY <3>2, <1>b DEF WaiterTarget
        <3> QED
            BY <2>1, <3>1, <3>2 DEF WaitingPid
    <2>4. CASE q = p
        BY <2>1, <2>2, <2>3, <2>4, <1>a DEF tree, Task, Used
    <2>5. CASE q # p
        BY <2>1, <2>2, <2>5, <1>a, <1>b DEF tree, Task, Used, WaiterTarget
    <2> QED
        BY <2>4, <2>5
<1>2. ASSUME NEW p \in Slots, Clone(p) \/ Execve(p) \/ ExecveFails(p)
      PROVE  (Task(waitfor[q]) /\ parent[waitfor[q]] = q)'
    <2>1. PICK np \in Slots :
            /\ FirstUnused(np)
            /\ allocs' \in {allocs, [allocs EXCEPT ![np] = "USED"]}
            /\ \E o : parent' = [parent EXCEPT ![np] = o]
            /\ at' \in {at, [at EXCEPT ![np] = "user"]}
            /\ waitfor' \in {waitfor, [waitfor EXCEPT ![np] = NULL]}
        BY <1>2 DEF Clone, Execve, ExecveFails
    <2>2. at[q] = "wait_pid" /\ waitfor[q] # NULL /\ waitfor'[q] = waitfor[q]
        BY <2>1, <1>a
    <2>3. waitfor[q] \in Slots /\ Task(waitfor[q]) /\ parent[waitfor[q]] = q
        BY <2>2, <1>a, <1>b DEF WaiterTarget
    <2>4. waitfor[q] # np
        BY <2>1, <2>3 DEF FirstUnused, Task, Used
    <2>5. parent'[waitfor[q]] = q
        BY <2>1, <2>3, <2>4, <1>a
    <2>6. allocs'[waitfor[q]] = "USED" /\ waitfor[q] # kproc
        BY <2>1, <2>3, <1>a DEF Task, Used
    <2> QED
        BY <2>2, <2>5, <2>6 DEF Task, Used
<1>3. CASE /\ UNCHANGED tree
           /\ \/ UNCHANGED <<at, waitfor>>
              \/ \E p \in Slots, r \in {"user", "tick", "wait_any", "exited", "spin"} :
                    /\ at' = [at EXCEPT ![p] = r]
                    /\ waitfor' \in {waitfor, [waitfor EXCEPT ![p] = NULL]}
    <2>1. at[q] = "wait_pid" /\ waitfor[q] # NULL /\ waitfor'[q] = waitfor[q]
        BY <1>3, <1>a
    <2> QED
        BY <1>3, <2>1, <1>b DEF tree, Task, Used, WaiterTarget
<1>4. CASE \/ \E i \in Slots : Dispatch(i)
           \/ Switch \/ EndPass \/ Shutdown \/ HardwareTick
           \/ InterruptScheduler \/ InterruptSwitch
           \/ \E p \in Slots : \/ AllocPanics(p) \/ SyscallPanics(p)
                               \/ Sigaction(p) \/ Setitimer(p) \/ DoSignal(p)
           \/ UNCHANGED vars
    <2>1. UNCHANGED <<tree, at, waitfor>>
        BY <1>4 DEF Dispatch, Switch, EndPass, Shutdown, HardwareTick, InterruptScheduler,
                    InterruptSwitch, AllocPanics, SyscallPanics, Panic, Sigaction, Setitimer,
                    DoSignal, vars
    <2> QED
        BY <2>1, <1>3
<1>5. ASSUME NEW p \in Slots,
             \/ Interrupt(p) \/ HandlerReturns(p) \/ TickReturn(p) \/ Exit(p) \/ Exception(p)
             \/ Spin(p) \/ SpinEnds(p)
             \/ WaitAnyCollect(p) \/ WaitAnyYield(p) \/ WaitAnyNoChild(p) \/ WaitPidCollect(p)
      PROVE  (Task(waitfor[q]) /\ parent[waitfor[q]] = q)'
    <2>1. /\ UNCHANGED tree
          /\ \E r \in {"user", "tick", "wait_any", "exited", "spin"} : at' = [at EXCEPT ![p] = r]
          /\ waitfor' \in {waitfor, [waitfor EXCEPT ![p] = NULL]}
        BY <1>5 DEF Interrupt, HandlerReturns, Spin, SpinEnds, TickReturn, Exit, Exception, WaitAnyCollect, WaitAnyYield,
                    WaitAnyNoChild, WaitPidCollect, Collect, Yield, KillSelf
    <2> QED
        BY <2>1, <1>3
<1> QED
    BY <1>1, <1>2, <1>4, <1>5 DEF Next, Halted

(* proc_init() and user_init() establish the invariant.                    *)
LEMMA InitIInv == Init => IInv
<1> SUFFICES ASSUME Init PROVE IInv
    OBVIOUS
<1> USE SlotFacts DEF Init
<1>1. TypeOK
    BY ProcMaxAssumption, TimerAssumption, NestAssumption DEF TypeOK, Live, Dead, Never, NULL, kproc
<1>2. BootSlots /\ TasksHaveParents /\ PidUnique
    BY DEF BootSlots, TasksHaveParents, PidUnique, PidNamesOne, NoPidInherited, Used, Task, kproc
<1>3. CpuOwner /\ OneOnCpu /\ PassMemory /\ ShutdownClean
    BY DEF CpuOwner, OneOnCpu, PassMemory, ShutdownClean, Used, Task, kproc
<1>4. FamilyTree /\ WaiterTarget
    BY DEF FamilyTree, WaiterTarget, Used, Task, kproc
<1> QED
    BY <1>1, <1>2, <1>3, <1>4 DEF IInv

(* The inductive invariant holds in every reachable state.                 *)
THEOREM Invariance == Spec => []IInv
<1>1. Init => IInv
    BY InitIInv
<1>2. IInv /\ [Next]_vars => IInv'
    BY TypeStep, TreeStep, PidStep, FamilyStep, CpuStep, WaiterStep
    DEF IInv, CpuInv, PidUnique
<1> QED
    BY <1>1, <1>2, PTL DEF Spec

(* Every field of the process table and of the scheduler keeps its type,   *)
(* and last_pid stays ahead of every pid, for every PROC_MAX.              *)
THEOREM TypeCorrect == Spec => []TypeOK
<1>1. IInv => TypeOK
    BY DEF IInv
<1> QED
    BY <1>1, Invariance, PTL

(* At most one task is RUNNING: the one scheduler() switched to.           *)
THEOREM OneTaskRuns == Spec => []OneOnCpu
<1>1. IInv => OneOnCpu
    BY DEF IInv
<1> QED
    BY <1>1, Invariance, PTL

(* clone() and execve() never give one pid, other than -1, to two slots,   *)
(* and only images of an old image are alive with pid -1.                  *)
THEOREM PidsAreUnique == Spec => []PidUnique
<1>1. IInv => PidUnique
    BY DEF IInv
<1> QED
    BY <1>1, Invariance, PTL

(* scheduler() leaves no task behind that could run when it powers off.    *)
THEOREM ShutdownIsClean == Spec => []ShutdownClean
<1>1. IInv => ShutdownClean
    BY DEF IInv
<1> QED
    BY <1>1, Invariance, PTL

(* The children lists and the parent pointers describe the same tree.      *)
THEOREM FamilyIsATree == Spec => []FamilyTree
<1>1. IInv => FamilyTree
    BY DEF IInv
<1> QED
    BY <1>1, Invariance, PTL

(* A suspended wait4(pid) always polls a child of its own.                 *)
THEOREM WaitersPollChildren == Spec => []WaiterTarget
<1>1. IInv => WaiterTarget
    BY DEF IInv
<1> QED
    BY <1>1, Invariance, PTL

-----------------------------------------------------------------------------
(* Exit, collection and execve() are final.                                *)
THEOREM DeathIsFinal == Spec => NoResurrection
<1>1. IInv /\ [Next]_vars =>
        [\A s \in Slots : Task(s) /\ state[s] \in Dead => state'[s] \in Dead]_vars
    BY DeadStaysDead
<1> QED
    BY <1>1, Invariance, PTL DEF Spec, NoResurrection

(* Only sys_wait4() of the parent collects an exited process.              *)
LEMMA CollectedByParent ==
    ASSUME IInv, Next, NEW c \in Slots, state[c] = "ZOMBIE", state'[c] = "KILLED"
    PROVE  parent[c] = cur_proc /\ cpu = "task"
<1>a. /\ state \in [Slots -> {"RUNNING", "RUNABLE", "ZOMBIE", "KILLED"}]
      /\ cur_proc \in Slots /\ CpuOwner /\ FamilyTree /\ WaiterTarget
    BY DEF IInv, TypeOK, Live, Dead
<1> USE SlotFacts
<1>1. ASSUME NEW i \in Slots, Dispatch(i) PROVE FALSE
    BY <1>1, <1>a DEF Dispatch
<1>2. CASE InterruptScheduler \/ InterruptSwitch
    BY <1>2, <1>a DEF InterruptScheduler, InterruptSwitch, YieldState
<1>3. ASSUME NEW p \in Slots,
             Interrupt(p) \/ HandlerReturns(p) \/ WaitAnyYield(p) \/ WaitPidYield(p)
      PROVE  FALSE
    BY <1>3, <1>a DEF Interrupt, HandlerReturns, WaitAnyYield, WaitPidYield, Yield, YieldState
<1>4. ASSUME NEW p \in Slots, Exit(p) \/ Exception(p) PROVE FALSE
    BY <1>4, <1>a DEF Exit, Exception, KillSelf
<1>5. ASSUME NEW p \in Slots, WaitAnyCollect(p) PROVE parent[c] = cur_proc /\ cpu = "task"
    <2>1. cpu = "task" /\ cur_proc = p
        BY <1>5 DEF WaitAnyCollect, WaitingAny, InUser
    <2>2. PICK i \in 1..Len(children[p]) : state' = [state EXCEPT ![children[p][i]] = "KILLED"]
        BY <1>5 DEF WaitAnyCollect, Collect
    <2>3. c = children[p][i]
        BY <2>2, <1>a
    <2> QED
        BY <2>1, <2>3, <1>a DEF FamilyTree
<1>6. ASSUME NEW p \in Slots, WaitPidCollect(p) PROVE parent[c] = cur_proc /\ cpu = "task"
    <2>1. PICK pos \in Slots :
            WaitingPid(p, pos) /\ state' = [state EXCEPT ![pos] = "KILLED"]
        BY <1>6 DEF WaitPidCollect, Collect
    <2>2. c = pos
        BY <2>1, <1>a
    <2>3. cpu = "task" /\ cur_proc = p /\ parent[pos] = p
        BY <2>1, <1>a DEF WaitingPid, InUser, OwnChild, WaiterTarget
    <2> QED
        BY <2>2, <2>3
<1>7. ASSUME NEW p \in Slots, Clone(p) \/ Execve(p) \/ ExecveFails(p) PROVE FALSE
    <2>1. cpu = "task" /\ cur_proc = p
        BY <1>7 DEF Clone, Execve, ExecveFails, InUser
    <2>2. PICK np \in Slots :
            state' \in {[state EXCEPT ![np] = "RUNABLE"],
                        [state EXCEPT ![np] = "RUNABLE", ![p] = "KILLED"]}
        BY <1>7 DEF Clone, Execve, ExecveFails
    <2>3. c # p
        BY <2>1, <1>a DEF CpuOwner
    <2> QED
        BY <2>2, <2>3, <1>a
<1>8. CASE \/ Switch \/ EndPass \/ Shutdown \/ HardwareTick \/ Halted
           \/ \E p \in Slots : \/ TickReturn(p) \/ AllocPanics(p) \/ SyscallPanics(p)
                               \/ WaitAnyNoChild(p) \/ Sigaction(p) \/ Setitimer(p)
                               \/ DoSignal(p) \/ Spin(p) \/ SpinEnds(p)
    BY <1>8 DEF Switch, EndPass, Shutdown, HardwareTick, Halted, vars, TickReturn,
                AllocPanics, SyscallPanics, Panic, WaitAnyNoChild, Sigaction, Setitimer,
                DoSignal, Spin, SpinEnds
<1> QED
    BY <1>1, <1>2, <1>3, <1>4, <1>5, <1>6, <1>7, <1>8 DEF Next

(* An exit is collected once, by the parent, while the parent runs.        *)
THEOREM ParentsCollect == Spec => ReapByParent
<1>1. IInv /\ [Next]_vars =>
        [\A c \in Slots : state[c] = "ZOMBIE" /\ state'[c] = "KILLED" =>
            parent[c] = cur_proc /\ cpu = "task"]_vars
    BY CollectedByParent
<1> QED
    BY <1>1, Invariance, PTL DEF Spec, ReapByParent

=============================================================================
