-------------------------------- MODULE Proc --------------------------------
(***************************************************************************)
(* The process layer of the kernel: the process table (core/proc.c), the   *)
(* round-robin scheduler (core/sche.c), the timer interrupt (core/time.c,  *)
(* core/trap.c), process creation (core/exec.c) and the system calls that  *)
(* create, replace, end and collect processes (core/syscall.c).            *)
(*                                                                         *)
(* One processor executes either the scheduler or one task.  Traps run     *)
(* with interrupts off, so a system call is one step up to the yield() it  *)
(* may contain; user code is preempted wherever the timer hits it.  A      *)
(* process whose yield() has not returned is described by at[p], the place *)
(* in the kernel where it resumes.  A signal handler is user code that     *)
(* do_signal() calls inside the trap of a tick, with interrupts off:       *)
(* handlers[p] counts the ones that have not returned.                     *)
(***************************************************************************)
EXTENDS Integers, Sequences

CONSTANTS
    PROC_MAX,   \* slots of proc[]
    MaxPid,     \* bound: execve calls that fail stop once last_pid is MaxPid
    TickCap,    \* bound: ticks saturates here; every deadline is at most TickCap
    Deadlines,  \* values setitimer may store in timer_call_time
    MaxNest     \* bound: SIGALRM handlers of one process that run inside each other

ASSUME ProcMaxAssumption == PROC_MAX \in Nat /\ PROC_MAX >= 2
ASSUME MaxPidAssumption == MaxPid \in Nat
ASSUME TimerAssumption == TickCap \in Nat /\ Deadlines \subseteq 0..TickCap
ASSUME NestAssumption == MaxNest \in Nat

Slots == 0..(PROC_MAX - 1)
kproc == 0              \* &proc[0], the boot context that runs scheduler()
NULL == -1
Never == TickCap + 1    \* timer_call_time == (uint64_t)-1

VARIABLES
    allocs,             \* proc[s].allocs
    state,              \* proc[s].state
    pid,                \* proc[s].pid
    parent,             \* proc[s].parent, a slot or NULL
    children,           \* the list headed by proc[s].children, as slots
    callback,           \* proc[s].callback, "null" or "handler"
    timer_call_time,    \* proc[s].timer_call_time
    handlers,           \* calls of callback by do_signal() that s has not returned from
    last_pid,
    cur_proc,
    cpu,                \* who has the processor, or how it stopped
    scan,               \* i of scheduler()'s for loop
    run,                \* run of scheduler()
    ie,                 \* CRMD.IE while scheduler() runs
    at,                 \* where s continues once it has the processor
    waitfor,            \* pos of s's sys_wait4
    ti,                 \* ESTAT.TI; "counted": timer_handler() has already run for it
    ticks

tree == <<allocs, pid, parent, children, last_pid>>
alarms == <<callback, timer_call_time, handlers>>
sched == <<scan, run>>
clock == <<ti, ticks>>
vars == <<tree, alarms, sched, clock, state, cur_proc, cpu, ie, at, waitfor>>

Live == {"RUNNING", "RUNABLE"}
Dead == {"ZOMBIE", "KILLED"}
Stopped == {"halt", "off", "lost"}  \* panic(), shutdown(), a context never saved

(***************************************************************************)
(* proc_init(), then user_init(): slot 0 is kproc, slot 1 is /bin/busybox, *)
(* made by exec(), which links it into no children list.  The memset of    *)
(* proc_init() leaves TASK_RUNNING (0) in the state of the unused slots.   *)
(***************************************************************************)
Init ==
    /\ allocs = [s \in Slots |-> IF s \in {0, 1} THEN "USED" ELSE "UNUSED"]
    /\ state = [s \in Slots |-> IF s = 1 THEN "RUNABLE" ELSE "RUNNING"]
    /\ pid = [s \in Slots |-> IF s = 1 THEN 1 ELSE 0]
    /\ parent = [s \in Slots |-> IF s = 1 THEN kproc ELSE NULL]
    /\ children = [s \in Slots |-> <<>>]
    /\ callback = [s \in Slots |-> "null"]
    /\ timer_call_time = [s \in Slots |-> Never]
    /\ handlers = [s \in Slots |-> 0]
    /\ last_pid = 2
    /\ cur_proc = kproc
    /\ cpu = "scheduler"
    /\ scan = 0
    /\ run = 0
    /\ ie = 1
    /\ at = [s \in Slots |-> "user"]
    /\ waitfor = [s \in Slots |-> NULL]
    /\ ti = "clear"
    /\ ticks = 0

-----------------------------------------------------------------------------
(* Helpers of proc.c.                                                      *)

(* The slot proc_alloc() takes, and the condition of its panic("proc").    *)
FirstUnused(np) ==
    /\ allocs[np] = "UNUSED"
    /\ \A s \in Slots : s < np => allocs[s] = "USED"
Full == \A s \in Slots : allocs[s] = "USED"

(* last_pid++ of proc_alloc().                                             *)
NewPidPreIncrement == last_pid + 1    \* variant: ++last_pid
NewPid == last_pid

(* proc_find(n) returns pos.                                               *)
HasPid(s, n) == allocs[s] = "USED" /\ pid[s] = n
ProcFind(n, pos) ==
    \/ pos \in Slots /\ HasPid(pos, n) /\ \A s \in Slots : s < pos => ~HasPid(s, n)
    \/ pos = NULL /\ \A s \in Slots : ~HasPid(s, n)

(* yield(): a task that has died keeps its state; the scheduler goes on    *)
(* with interrupts off, as the trap that called yield() had them.          *)
YieldStateRunable(p) ==   \* variant: no test of the old state
    [state EXCEPT ![p] = "RUNABLE", ![kproc] = "RUNNING"]
YieldState(p) ==
    [state EXCEPT ![p] = IF @ = "RUNNING" THEN "RUNABLE" ELSE @,
                  ![kproc] = "RUNNING"]
Yield(p, resume) ==
    /\ state' = YieldState(p)
    /\ at' = [at EXCEPT ![p] = resume]
    /\ cpu' = "scheduler"
    /\ ie' = 0

Panic ==
    /\ cpu' = "halt"
    /\ UNCHANGED <<tree, alarms, sched, clock, state, cur_proc, ie, at, waitfor>>

-----------------------------------------------------------------------------
(* scheduler() and switch_to().                                            *)

EligibleUnused(s) ==      \* variant: allocs not tested
    pid[s] # 0 /\ state[s] = "RUNABLE"
Eligible(s) == allocs[s] = "USED" /\ pid[s] # 0 /\ state[s] = "RUNABLE"

(* The for loop reaches i.  Between two dispatches nothing changes what    *)
(* Eligible reads, so the slots it skips need no step of their own.        *)
ScanRestart(i) == 0       \* variant: every switch restarts the loop
NextScan(i) == i + 1
Dispatch(i) ==
    /\ cpu = "scheduler"
    /\ i >= scan
    /\ Eligible(i)
    /\ \A j \in Slots : j >= scan /\ j < i => ~Eligible(j)
    /\ run' = 1
    /\ state' = [state EXCEPT ![kproc] = "RUNABLE", ![i] = "RUNNING"]
    /\ scan' = NextScan(i)
    /\ cur_proc' = i
    /\ cpu' = "switch"
    /\ UNCHANGED <<tree, alarms, clock, ie, at, waitfor>>

(* swtch() of switch_to().                                                 *)
Switch ==
    /\ cpu = "switch"
    /\ cpu' = "task"
    /\ UNCHANGED <<tree, alarms, sched, clock, state, cur_proc, ie, at, waitfor>>

PassOver == cpu = "scheduler" /\ \A j \in Slots : j >= scan => ~Eligible(j)
PassStartKeepsRun == scan' = 0 /\ run' = run     \* variant: run = 0 missing
PassStart == scan' = 0 /\ run' = 0
EndPass ==
    /\ PassOver
    /\ run = 1
    /\ PassStart
    /\ UNCHANGED <<tree, alarms, clock, state, cur_proc, cpu, ie, at, waitfor>>

ShutdownAlways == TRUE    \* variant: run not tested
ShutdownGuard == run = 0
Shutdown ==
    /\ PassOver
    /\ ShutdownGuard
    /\ cpu' = "off"
    /\ UNCHANGED <<tree, alarms, sched, clock, state, cur_proc, ie, at, waitfor>>

-----------------------------------------------------------------------------
(* The timer.                                                              *)

(* The periodic timer raises TI; a tick that finds TI set is merged.       *)
HardwareTick ==
    /\ cpu \notin Stopped
    /\ ti # "fresh"
    /\ ti' = "fresh"
    /\ UNCHANGED <<tree, alarms, sched, state, cur_proc, cpu, ie, at, waitfor, ticks>>

Count == ticks' = IF ticks < TickCap THEN ticks + 1 ELSE ticks

(* The condition of timer_handler(), evaluated after ticks++.              *)
AlarmDueExactly(p) ==     \* variant: == for >=
    callback[p] = "handler" /\ ticks' = timer_call_time[p]
AlarmDue(p) == callback[p] = "handler" /\ ticks' >= timer_call_time[p]

(* trap_handler() finds TI set and calls timer_handler(): the interrupt    *)
(* hit user code, or a handler, where interrupts are off, made a system    *)
(* call or faulted while TI was pending (the trap is taken for a tick and  *)
(* the instruction is executed again).                                     *)
TimerTrap(p) ==
    /\ cpu = "task" /\ cur_proc = p /\ at[p] = "user"
    /\ ti # "clear"
    /\ Count
    /\ ti' = "counted"

(* No alarm is due: yield().  TI is cleared only after the yield returns.  *)
Interrupt(p) ==
    /\ TimerTrap(p)
    /\ ~AlarmDue(p)
    /\ Yield(p, "tick")
    /\ UNCHANGED <<tree, alarms, sched, cur_proc, waitfor>>

(* An alarm is due: do_signal() calls the handler, inside the trap.        *)
DoSignal(p) ==
    /\ TimerTrap(p)
    /\ AlarmDue(p)
    /\ handlers[p] < MaxNest
    /\ timer_call_time' = [timer_call_time EXCEPT ![p] = Never]
    /\ handlers' = [handlers EXCEPT ![p] = @ + 1]
    /\ UNCHANGED <<tree, callback, sched, state, cur_proc, cpu, ie, at, waitfor>>

(* The handler returns to timer_handler(), which yields.                   *)
HandlerReturns(p) ==
    /\ cpu = "task" /\ cur_proc = p /\ at[p] = "user"
    /\ handlers[p] > 0
    /\ handlers' = [handlers EXCEPT ![p] = @ - 1]
    /\ Yield(p, "tick")
    /\ UNCHANGED <<tree, callback, timer_call_time, sched, clock, cur_proc, waitfor>>

(* timer_handler() returns to trap_handler(), which writes TICLR.          *)
TickReturn(p) ==
    /\ cpu = "task" /\ cur_proc = p /\ at[p] = "tick"
    /\ at' = [at EXCEPT ![p] = "user"]
    /\ ti' = "clear"
    /\ UNCHANGED <<tree, alarms, sched, state, cur_proc, cpu, ie, waitfor, ticks>>

(* TI hits scheduler() before the first task has run: my_proc() is kproc   *)
(* and yield() switches from kproc's context to itself.                    *)
InterruptScheduler ==
    /\ cpu = "scheduler" /\ ie = 1 /\ ti # "clear"
    /\ Count
    /\ state' = [state EXCEPT ![kproc] = "RUNNING"]
    /\ ti' = "clear"
    /\ UNCHANGED <<tree, alarms, sched, cur_proc, cpu, ie, at, waitfor>>

(* TI hits switch_to() between the assignment of cur_proc and swtch():     *)
(* yield() saves the scheduler's registers in the task's context and loads *)
(* kproc's, which does not hold the scheduler's current registers.  Or TI  *)
(* hits the trap_exit that swtch() enters, the only one with interrupts    *)
(* on, between its write of ERA and ertn: the nested trap leaves its own   *)
(* ERA behind and ertn goes there once the task, the only one there is,    *)
(* is resumed.                                                             *)
InterruptSwitch ==
    /\ cpu = "switch" /\ ie = 1 /\ ti # "clear"
    /\ Count
    /\ state' = YieldState(cur_proc)
    /\ cpu' = "lost"
    /\ ti' = "counted"
    /\ UNCHANGED <<tree, alarms, sched, cur_proc, ie, at, waitfor>>

-----------------------------------------------------------------------------
(* System calls and exceptions of the task that has the processor, from    *)
(* its program or from a handler.  A call that only returns a value        *)
(* (getpid, wait4 on another task's child) is a step that changes nothing. *)

InUser(p) ==
    cpu = "task" /\ cur_proc = p /\ at[p] = "user" /\ ti = "clear"

(* sys_clone() and fork(); list_add() puts the child at the head.  The     *)
(* copied stack holds the frames of the parent's handlers.                 *)
LinkNowhere(p, np) == [children EXCEPT ![np] = <<>>]     \* variant: no list_add()
LinkChild(p, np) == [children EXCEPT ![np] = <<>>, ![p] = <<np>> \o @]
Clone(p) ==
    /\ InUser(p)
    /\ \E np \in Slots :
        /\ FirstUnused(np)
        /\ allocs' = [allocs EXCEPT ![np] = "USED"]
        /\ pid' = [pid EXCEPT ![np] = NewPid]
        /\ last_pid' = last_pid + 1
        /\ parent' = [parent EXCEPT ![np] = p]
        /\ children' = LinkChild(p, np)
        /\ state' = [state EXCEPT ![np] = "RUNABLE"]
        /\ callback' = [callback EXCEPT ![np] = callback[p]]
        /\ timer_call_time' = [timer_call_time EXCEPT ![np] = timer_call_time[p]]
        /\ handlers' = [handlers EXCEPT ![np] = handlers[p]]
        /\ at' = [at EXCEPT ![np] = "user"]
        /\ waitfor' = [waitfor EXCEPT ![np] = NULL]
        /\ UNCHANGED <<sched, clock, cur_proc, cpu, ie>>

(* sys_execve(): exec() builds the new image in a new slot, which takes    *)
(* over pid and parent.  The old image loses its pid and is KILLED, but    *)
(* the call returns 0 to it: it runs on until the next tick.               *)
SharePid(p, np) == [pid EXCEPT ![np] = pid[p]]           \* variant: p keeps its pid
TakePid(p, np) == [pid EXCEPT ![np] = pid[p], ![p] = -1]
Execve(p) ==
    /\ InUser(p)
    /\ \E np \in Slots :
        /\ FirstUnused(np)
        /\ allocs' = [allocs EXCEPT ![np] = "USED"]
        /\ pid' = TakePid(p, np)
        /\ last_pid' = last_pid + 1
        /\ parent' = [parent EXCEPT ![np] = parent[p]]
        /\ children' = LinkChild(parent[p], np)
        /\ state' = [state EXCEPT ![np] = "RUNABLE", ![p] = "KILLED"]
        /\ callback' = [callback EXCEPT ![np] = "null"]
        /\ timer_call_time' = [timer_call_time EXCEPT ![np] = Never]
        /\ handlers' = [handlers EXCEPT ![np] = 0]
        /\ at' = [at EXCEPT ![np] = "user"]
        /\ waitfor' = [waitfor EXCEPT ![np] = NULL]
        /\ UNCHANGED <<sched, clock, cur_proc, cpu, ie>>

(* elf_loader() refuses the file: proc_free() marks the slot UNUSED again  *)
(* and leaves its other fields, state RUNABLE and parent kproc included.   *)
ExecveFails(p) ==
    /\ InUser(p)
    /\ last_pid < MaxPid
    /\ \E np \in Slots :
        /\ FirstUnused(np)
        /\ pid' = [pid EXCEPT ![np] = NewPid]
        /\ last_pid' = last_pid + 1
        /\ parent' = [parent EXCEPT ![np] = kproc]
        /\ state' = [state EXCEPT ![np] = "RUNABLE"]
        /\ callback' = [callback EXCEPT ![np] = "null"]
        /\ timer_call_time' = [timer_call_time EXCEPT ![np] = Never]
        /\ UNCHANGED <<allocs, children, handlers, sched, clock, cur_proc, cpu, ie, at,
                       waitfor>>

(* proc_alloc() finds no slot, exec() is given too many arguments, or a    *)
(* call reaches one of the panic()s and assert()s of syscall.c.            *)
AllocPanics(p) == InUser(p) /\ Full /\ Panic
SyscallPanics(p) == InUser(p) /\ Panic

(* kill(my_proc()): the yield() in it never returns.                       *)
KillSelf(p) ==
    /\ state' = [state EXCEPT ![p] = "ZOMBIE", ![kproc] = "RUNNING"]
    /\ at' = [at EXCEPT ![p] = "exited"]
    /\ cpu' = "scheduler"
    /\ ie' = 0

(* sys_exit(), also what syscall_handler() runs for an unknown number.     *)
Exit(p) ==
    /\ InUser(p)
    /\ callback' = [callback EXCEPT ![p] = "null"]
    /\ timer_call_time' = [timer_call_time EXCEPT ![p] = Never]
    /\ KillSelf(p)
    /\ UNCHANGED <<tree, handlers, sched, clock, cur_proc, waitfor>>

(* trap_handler() on E_ADE and E_INE: exit(1), without clean_up().         *)
Exception(p) ==
    /\ InUser(p)
    /\ KillSelf(p)
    /\ UNCHANGED <<tree, alarms, sched, clock, cur_proc, waitfor>>

(* find_proc_sat of sys_wait4().                                           *)
Collect(p, c) ==
    /\ state' = [state EXCEPT ![c] = "KILLED"]
    /\ at' = [at EXCEPT ![p] = "user"]
    /\ waitfor' = [waitfor EXCEPT ![p] = NULL]
    /\ UNCHANGED <<cpu, ie>>

(* sys_wait4(-1), entered from user code or resumed at cycle_start.        *)
FirstZombie(p, i) ==
    /\ state[children[p][i]] = "ZOMBIE"
    /\ \A j \in 1..(i - 1) : state[children[p][j]] # "ZOMBIE"
NoZombieAssumed(p) == TRUE    \* variant: yields without looking
NoZombie(p) == \A i \in 1..Len(children[p]) : state[children[p][i]] # "ZOMBIE"
Runnings(p) == \E i \in 1..Len(children[p]) : state[children[p][i]] \in Live

WaitingAny(p) ==
    \/ InUser(p)
    \/ cpu = "task" /\ cur_proc = p /\ at[p] = "wait_any"
WaitAnyCollect(p) ==
    /\ WaitingAny(p)
    /\ \E i \in 1..Len(children[p]) :
        FirstZombie(p, i) /\ Collect(p, children[p][i])
    /\ UNCHANGED <<tree, alarms, sched, clock, cur_proc>>
WaitAnyYield(p) ==
    /\ WaitingAny(p)
    /\ NoZombie(p) /\ Runnings(p)
    /\ Yield(p, "wait_any")
    /\ UNCHANGED <<tree, alarms, sched, clock, cur_proc, waitfor>>
WaitAnyNoChild(p) ==
    /\ WaitingAny(p)
    /\ NoZombie(p) /\ ~Runnings(p)
    /\ at' = [at EXCEPT ![p] = "user"]
    /\ UNCHANGED <<tree, alarms, sched, clock, state, cur_proc, cpu, ie, waitfor>>

(* sys_wait4(n): pos is looked up once, its parent is checked once, and    *)
(* its state is polled.  A load through pos = NULL faults, is skipped by   *)
(* trap_handler() (E_PIL) and never compares equal to TASK_ZOMBIE.         *)
AnyPid(p, pos) == pos # kproc                            \* variant: parent not tested
OwnChild(p, pos) == pos # NULL => parent[pos] = p
WaitingPid(p, pos) ==
    \/ InUser(p) /\ (\E n \in 0..last_pid : ProcFind(n, pos)) /\ OwnChild(p, pos)
    \/ cpu = "task" /\ cur_proc = p /\ at[p] = "wait_pid" /\ pos = waitfor[p]
WaitPidCollect(p) ==
    /\ \E pos \in Slots :
        WaitingPid(p, pos) /\ state[pos] = "ZOMBIE" /\ Collect(p, pos)
    /\ UNCHANGED <<tree, alarms, sched, clock, cur_proc>>
WaitPidYield(p) ==
    /\ \E pos \in Slots \union {NULL} :
        /\ WaitingPid(p, pos)
        /\ pos # NULL => state[pos] # "ZOMBIE"
        /\ waitfor' = [waitfor EXCEPT ![p] = pos]
    /\ Yield(p, "wait_pid")
    /\ UNCHANGED <<tree, alarms, sched, clock, cur_proc>>

(* sys_rt_sigaction() and sys_setitimer(); the latter adds to tick, which  *)
(* stays 0, so a deadline is an absolute number of ticks.                  *)
Sigaction(p) ==
    /\ InUser(p)
    /\ callback' = [callback EXCEPT ![p] = "handler"]
    /\ UNCHANGED <<tree, timer_call_time, handlers, sched, clock, state, cur_proc, cpu, ie,
                   at, waitfor>>
Setitimer(p) ==
    /\ InUser(p)
    /\ \E d \in Deadlines :
        timer_call_time' = [timer_call_time EXCEPT ![p] = d]
    /\ UNCHANGED <<tree, callback, handlers, sched, clock, state, cur_proc, cpu, ie, at,
                   waitfor>>

(* A call that stays in the kernel with interrupts off: sys_sendfile() of  *)
(* a file that is not empty never returns, a call that reads the disk does *)
(* when the adapter has answered.  (A read of the console turns interrupts *)
(* on while it waits: for this module it is user code.)                    *)
Spin(p) ==
    /\ InUser(p)
    /\ at' = [at EXCEPT ![p] = "spin"]
    /\ UNCHANGED <<tree, alarms, sched, clock, state, cur_proc, cpu, ie, waitfor>>
SpinEnds(p) ==
    /\ cpu = "task" /\ cur_proc = p /\ at[p] = "spin"
    /\ at' = [at EXCEPT ![p] = "user"]
    /\ UNCHANGED <<tree, alarms, sched, clock, state, cur_proc, cpu, ie, waitfor>>

-----------------------------------------------------------------------------
(* panic(), shutdown() or a lost context: nothing runs any more.           *)
Halted == cpu \in Stopped /\ UNCHANGED vars

(* What the processor does by itself: the kernel's code, and interrupts    *)
(* where they are on, in user code outside handlers.                       *)
KernelStep ==
    \/ \E i \in Slots : Dispatch(i)
    \/ Switch \/ EndPass \/ Shutdown
    \/ \E p \in Slots :
        \/ handlers[p] = 0 /\ (Interrupt(p) \/ DoSignal(p))
        \/ TickReturn(p)
        \/ at[p] = "wait_any" /\ (WaitAnyCollect(p) \/ WaitAnyYield(p) \/ WaitAnyNoChild(p))
        \/ at[p] = "wait_pid" /\ (WaitPidCollect(p) \/ WaitPidYield(p))

Next ==
    \/ \E i \in Slots : Dispatch(i)
    \/ Switch \/ EndPass \/ Shutdown
    \/ HardwareTick \/ InterruptScheduler \/ InterruptSwitch
    \/ \E p \in Slots :
        \/ Interrupt(p) \/ DoSignal(p) \/ HandlerReturns(p) \/ TickReturn(p)
        \/ Clone(p) \/ Execve(p) \/ ExecveFails(p)
        \/ AllocPanics(p) \/ SyscallPanics(p)
        \/ Exit(p) \/ Exception(p)
        \/ WaitAnyCollect(p) \/ WaitAnyYield(p) \/ WaitAnyNoChild(p)
        \/ WaitPidCollect(p) \/ WaitPidYield(p)
        \/ Sigaction(p) \/ Setitimer(p) \/ Spin(p) \/ SpinEnds(p)
    \/ Halted

Spec == Init /\ [][Next]_vars

(* The processor executes the kernel's own code, and the periodic timer    *)
(* keeps ticking.  User code, signal handlers included, may do anything,   *)
(* or nothing, and a call that spins need not end.                         *)
FairSpec == Spec /\ WF_vars(KernelStep) /\ WF_vars(HardwareTick)

-----------------------------------------------------------------------------
(* Properties.                                                             *)

Used(s) == allocs[s] = "USED"
Task(s) == Used(s) /\ s # kproc

(* Every field has its type; a pid was handed out by last_pid++, or is the *)
(* -1 sys_execve() leaves behind.                                          *)
TypeOK ==
    /\ allocs \in [Slots -> {"UNUSED", "USED"}]
    /\ state \in [Slots -> Live \union Dead]
    /\ last_pid \in Nat
    /\ pid \in [Slots -> Int]
    /\ \A s \in Slots : pid[s] >= -1 /\ pid[s] < last_pid
    /\ parent \in [Slots -> Slots \union {NULL}]
    /\ children \in [Slots -> Seq(Slots)]
    /\ callback \in [Slots -> {"null", "handler"}]
    /\ timer_call_time \in [Slots -> Deadlines \union {Never}]
    /\ handlers \in [Slots -> 0..MaxNest]
    /\ cur_proc \in Slots
    /\ cpu \in {"scheduler", "switch", "task"} \union Stopped
    /\ scan \in 0..PROC_MAX
    /\ run \in {0, 1}
    /\ ie \in {0, 1}
    /\ at \in [Slots -> {"user", "tick", "wait_any", "wait_pid", "exited", "spin"}]
    /\ waitfor \in [Slots -> Slots \union {NULL}]
    /\ ti \in {"clear", "fresh", "counted"}
    /\ ticks \in 0..TickCap

(* At most one task is RUNNING, it is cur_proc, and the scheduler does not *)
(* run while it is: yield() and kill() never leave a RUNNING task behind,  *)
(* and switch_to() installs no slot that is not allocated.                 *)
OneOnCpu ==
    /\ \A s \in Slots : Task(s) /\ state[s] = "RUNNING" =>
        cur_proc = s /\ cpu \in {"switch", "task", "halt"}
    /\ Used(cur_proc)

(* A pid other than -1 names one slot through any sequence of clone(),     *)
(* execve() and failed execve().  An execve() leaves -1 in the old image,  *)
(* which runs on and may call execve() again: what is alive with pid -1 is *)
(* an image that such an old image, by then dead, has put in its place.    *)
PidNamesOne ==
    \A s, t \in Slots : Used(s) /\ Used(t) /\ pid[s] = pid[t] /\ s # t => pid[s] = -1
NoPidInherited ==
    \A s \in Slots : Used(s) /\ pid[s] = -1 /\ state[s] \in Live =>
        \E t \in Slots : /\ Used(t) /\ pid[t] = -1 /\ state[t] \in Dead
                         /\ parent[t] = parent[s]
PidUnique == PidNamesOne /\ NoPidInherited

(* scheduler() powers the machine off only when no task could run again:   *)
(* run is 0 only if the whole pass found nothing RUNABLE.                  *)
ShutdownClean ==
    cpu = "off" => \A s \in Slots : Task(s) => state[s] \in Dead

(* The children lists and the parent pointers are the same tree: a list    *)
(* holds allocated slots whose parent is its owner, none twice, and every  *)
(* task but the first is on its parent's list, replaced images included.   *)
FamilyTree ==
    /\ \A s \in Slots : \A i \in 1..Len(children[s]) :
        Task(children[s][i]) /\ parent[children[s][i]] = s
    /\ \A s \in Slots : \A i, j \in 1..Len(children[s]) :
        children[s][i] = children[s][j] => i = j
    /\ \A s \in Slots : Task(s) /\ s # 1 =>
        /\ parent[s] \in Slots
        /\ \E i \in 1..Len(children[parent[s]]) : children[parent[s]][i] = s

(* The pos a suspended wait4(pid) polls is still a child of the waiter: no *)
(* exit, execve or fork of others retargets the pointer it kept.           *)
WaiterTarget ==
    \A p \in Slots : at[p] = "wait_pid" /\ waitfor[p] # NULL =>
        Task(waitfor[p]) /\ parent[waitfor[p]] = p

(* An exit is collected by the parent only, and while the parent runs.     *)
ReapByParent ==
    [][\A c \in Slots : state[c] = "ZOMBIE" /\ state'[c] = "KILLED" =>
        parent[c] = cur_proc /\ cpu = "task"]_vars

(* A process that has exited, was collected or was replaced by execve()    *)
(* never runs again, however its last tick and its waiters interleave.     *)
NoResurrection ==
    [][\A s \in Slots : Task(s) /\ state[s] \in Dead => state'[s] \in Dead]_vars

(* A handler or a spinning call has the processor, with interrupts off.    *)
Hogged == cpu = "task" /\ (handlers[cur_proc] > 0 \/ at[cur_proc] = "spin")

(* No starvation: a task that is RUNABLE gets the processor, whatever the  *)
(* others do short of keeping it with interrupts off for ever, unless the  *)
(* machine stops.                                                          *)
Scheduled ==
    []<>~Hogged =>
        \A s \in Slots : (Task(s) /\ state[s] = "RUNABLE") ~>
            ((cpu = "task" /\ cur_proc = s) \/ cpu \in Stopped)

(* A parent blocked in wait4(-1) with an exited child returns to user      *)
(* code, unless the processor is kept with interrupts off for ever.        *)
WaitAnyReturns ==
    []<>~Hogged =>
        \A p \in Slots :
            (/\ at[p] = "wait_any" /\ state[p] \in Live
             /\ \E i \in 1..Len(children[p]) : state[children[p][i]] = "ZOMBIE") ~>
                (at[p] = "user" \/ cpu \in Stopped)

(* Once every task has ended for good, the machine powers off.             *)
PowersOff ==
    <>[](\A s \in Slots : Task(s) => state[s] \in Dead) => <>(cpu \in Stopped)

(* A due alarm is delivered unless its process dies, blocks in wait4() or  *)
(* replaces the deadline: do_signal() runs from the tick of its process.   *)
(* Nothing is owed while some handler or spinning call never ends.         *)
AlarmDelivered ==
    []<>~Hogged =>
        \A p \in Slots :
            (Task(p) /\ callback[p] = "handler" /\ ticks >= timer_call_time[p]) ~>
                (\/ timer_call_time[p] > ticks
                 \/ at[p] \in {"wait_any", "wait_pid"}
                 \/ state[p] \in Dead \/ cpu \in Stopped)

-----------------------------------------------------------------------------
(* What the repository says of the program and the code does not do.       *)

(* wait4(-1) returns the child's pid, as in the traces of                  *)
(* docs/os/syscalls.md.  The old image of an execve() is collected too.    *)
ReapedPid ==
    [][\A c \in Slots : state[c] = "ZOMBIE" /\ state'[c] = "KILLED" => pid[c] >= 1]_vars

(* kill(), getpid() and wait4() take a pid for the name of a process: live *)
(* tasks have different pids.  After three execve() calls of one image two *)
(* new ones have -1.                                                       *)
LivePidsUnique ==
    \A s, t \in Slots :
        Used(s) /\ Used(t) /\ {state[s], state[t]} \subseteq Live /\ s # t => pid[s] # pid[t]

(* wait4(pid) of a child returns when the child has ended, as in the       *)
(* waitpid trace of docs/os/syscalls.md.                                   *)
WaitPidReturns ==
    []<>~Hogged =>
        \A p \in Slots :
            (/\ at[p] = "wait_pid" /\ waitfor[p] # NULL /\ state[p] \in Live
             /\ ~(\E i \in 1..Len(children[p]) : state[children[p][i]] \in Live)) ~>
                (at[p] # "wait_pid" \/ cpu \in Stopped)

(* ticks is the number of ticks since boot (time.c): the handler counts a  *)
(* TI once.                                                                *)
TickCountedOnce == [][ticks' # ticks => ti = "fresh"]_vars

(* An interrupt returns to the code it interrupted (trap_entry.s).         *)
InterruptReturns == cpu # "lost"

=============================================================================
