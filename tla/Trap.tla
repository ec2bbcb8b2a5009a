-------------------------------- MODULE Trap --------------------------------
(***************************************************************************)
(* Trap entry and exit (core/trap_entry.s), context switch (core/swtch.s), *)
(* the dispatch of trap.c and syscall.c through the global cur_sp, and the *)
(* console input of driver/uart.c and read().                              *)
(*                                                                         *)
(* A process has one stack, on which trap_entry pushes its frames: traps   *)
(* nest where a signal handler called by timer_handler() makes a system    *)
(* call and where getstr(), inside one, turns interrupts on.  TI is        *)
(* acknowledged only when timer_handler() has returned, so until then a    *)
(* trap of any kind is taken for a tick.  cur_sp is one variable for all   *)
(* frames of all processes, and getstr_buf one buffer for all readers.     *)
(* Proc decides who may run; here any process may get the processor after  *)
(* a yield().                                                              *)
(***************************************************************************)
EXTENDS Integers, Sequences, SequencesExt

CONSTANTS
    Procs,      \* processes
    First,      \* the one user_init() makes
    MaxDepth,   \* bound: frames on a stack
    BufSize,    \* sizeof(getstr_buf)
    Counts,     \* bound: byte counts asked of read()
    Keys        \* the characters typed, NL and NUL among them

NUL == 0
NL == 10
Idle == 0                           \* scheduler() has the processor
Lost == -1                          \* ertn has gone where no code waits

ASSUME ProcsAssumption ==
    Procs \subseteq Nat \ {Idle} /\ First \in Procs
ASSUME BoundsAssumption ==
    MaxDepth \in Nat \ {0} /\ BufSize \in Nat \ {0} /\ Counts \subseteq Nat /\ Keys \subseteq Nat

VARIABLES
    cur,            \* the process on the processor, Idle or Lost
    ie,             \* CRMD.IE
    ti,             \* ESTAT.TI
    loc, a0,        \* registers of p's innermost code: where it is, $a0
    stack,          \* p's trap frames, outermost first
    work,           \* what the kernel does above each frame
    cur_sp,         \* <<p, d>>: frame d of p's stack
    getstr_buf,
    expect,         \* history: what each frame must give back
    booted          \* history: First has left its first trap_exit

machine == <<cur, ie, ti, loc, a0, booted>>
vars == <<machine, stack, work, cur_sp, getstr_buf, expect>>

User == {0, 4}                      \* a system call, then a jump back to it
Handler == {100, 104}               \* the same in the callback of rt_sigaction()
Window == 200                       \* between intr_on() and intr_off()
Kernel == 300
AtCall == {0, 100}

Frame(era, arg, prmd) == [era |-> era, a0 |-> arg, ie |-> prmd]
Job(what, tf) ==
    [what |-> what, tf |-> tf, count |-> 0, pos |-> 0,  \* read(): left, p - getstr_buf
     asked |-> 0, mine |-> <<>>, given |-> <<>>, mixed |-> 0]        \* history of a read()

Depth(p) == Len(stack[p])
Top(p) == work[p][Depth(p)]
SetTop(p, job) == [work EXCEPT ![p] = [@ EXCEPT ![Depth(p)] = job]]
Running(p) == cur = p
Doing(p, what) == Running(p) /\ loc[p] = Kernel /\ Depth(p) > 0 /\ Top(p).what = what
InCode(p) == Running(p) /\ loc[p] \in User \union Handler

(* exec() builds a frame for trap_exit, which exec_helper() jumps to; then *)
(* kmain() turns interrupts on and calls scheduler().                      *)
Init ==
    /\ cur = Idle /\ ie = 1 /\ ti = 0 /\ booted = 0
    /\ loc = [p \in Procs |-> Kernel] /\ a0 = [p \in Procs |-> 0]
    /\ stack = [p \in Procs |-> IF p = First THEN <<Frame(0, 0, 1)>> ELSE <<>>]
    /\ work = [p \in Procs |-> IF p = First THEN <<Job("done", 1)>> ELSE <<>>]
    /\ expect = stack
    /\ cur_sp = <<Idle, 0>>
    /\ getstr_buf = [i \in 0..BufSize |-> NUL]

-----------------------------------------------------------------------------
(* trap_entry: the frame, and its address in cur_sp.  The hardware turns   *)
(* interrupts off.  For a system call w_trap_era() then advances era       *)
(* through cur_sp.                                                         *)
Enter(p, era, arg, job) ==
    /\ Depth(p) < MaxDepth
    /\ stack' = [stack EXCEPT ![p] = Append(@, Frame(era, arg, ie))]
    /\ expect' = [expect EXCEPT ![p] = Append(@, Frame(era, arg, ie))]
    /\ cur_sp' = <<p, Depth(p) + 1>>
    /\ work' = [work EXCEPT ![p] = Append(@, job)]
    /\ ie' = 0

(* trap_exit: the registers come from the frame $sp points to ($tp is left *)
(* as it is).                                                              *)
ExitFrameCurSp(p) ==                \* variant: trap_exit loads from cur_sp
    stack[p][IF cur_sp[2] \in 1..Depth(p) THEN cur_sp[2] ELSE Depth(p)]
ExitFrame(p) == stack[p][Depth(p)]
Exit(p) ==
    /\ Doing(p, "done")
    /\ loc' = [loc EXCEPT ![p] = ExitFrame(p).era]
    /\ a0' = [a0 EXCEPT ![p] = ExitFrame(p).a0]
    /\ ie' = ExitFrame(p).ie
    /\ stack' = [stack EXCEPT ![p] = Front(@)]
    /\ work' = [work EXCEPT ![p] = Front(@)]
    /\ expect' = [expect EXCEPT ![p] = Front(@)]
    /\ booted' = IF Depth(p) = 1 THEN 1 ELSE booted
    /\ UNCHANGED <<cur, ti, cur_sp, getstr_buf>>

(* The code uses the result and goes on.                                   *)
Step(p) ==
    /\ InCode(p) /\ loc[p] \notin AtCall
    /\ loc' = [loc EXCEPT ![p] = @ - 4]
    /\ a0' = [a0 EXCEPT ![p] = 0]
    /\ UNCHANGED <<cur, ie, ti, stack, work, cur_sp, getstr_buf, expect, booted>>

(* swtch() in yield() and in switch_to(): what p was doing is in its       *)
(* context, and comes back with it; $a0 is the kernel's by then.           *)
Yield(p) ==
    /\ cur' = Idle
    /\ loc' = [loc EXCEPT ![p] = Kernel]
    /\ a0' = [a0 EXCEPT ![p] = 0]
Resume(p) ==
    /\ cur = Idle /\ Depth(p) > 0
    /\ cur' = p
    /\ UNCHANGED <<ie, ti, loc, a0, stack, work, cur_sp, getstr_buf, expect, booted>>

-----------------------------------------------------------------------------
(* The periodic timer.                                                     *)
HardwareTick ==
    /\ ti = 0 /\ cur # Lost
    /\ ti' = 1
    /\ UNCHANGED <<cur, ie, loc, a0, stack, work, cur_sp, getstr_buf, expect, booted>>

(* trap_handler() finds TI set: after the timer interrupt, or after a      *)
(* system call made where interrupts are off, in a signal handler, while   *)
(* TI was pending; its era is not advanced, the call is made again.        *)
TimerTrap(p) == Running(p) /\ ti = 1 /\ (ie = 1 \/ loc[p] \in AtCall)

(* timer_handler() yields, after the signal handler if an alarm is due,    *)
(* whose argument, 0 for SIGALRM here, is in $a0.                          *)
(* (First has no handler yet when interrupts are on in its trap_exit.)     *)
Tick(p) ==
    /\ TimerTrap(p)
    /\ Enter(p, loc[p], a0[p], Job("tick", 0))
    /\ Yield(p)
    /\ UNCHANGED <<ti, getstr_buf, booted>>
TickSignal(p) ==
    /\ TimerTrap(p) /\ loc[p] # Kernel
    /\ Enter(p, loc[p], a0[p], Job("signal", 0))
    /\ loc' = [loc EXCEPT ![p] = 100]
    /\ a0' = [a0 EXCEPT ![p] = 0]
    /\ UNCHANGED <<cur, ti, getstr_buf, booted>>
HandlerReturns(p) ==
    /\ InCode(p) /\ loc[p] \in Handler
    /\ work' = SetTop(p, Job("tick", 0))
    /\ Yield(p)
    /\ UNCHANGED <<ie, ti, stack, cur_sp, getstr_buf, expect, booted>>

(* The yield() has returned, and so does timer_handler(): w_csr_ticlr().   *)
TickDone(p) ==
    /\ Doing(p, "tick")
    /\ work' = SetTop(p, Job("done", 0))
    /\ ti' = 0
    /\ UNCHANGED <<cur, ie, loc, a0, stack, cur_sp, getstr_buf, expect, booted>>

(* TI hits scheduler() before the first switch: a trap on the boot stack.  *)
TickIdle ==
    /\ cur = Idle /\ ie = 1 /\ ti = 1
    /\ cur_sp' = <<Idle, 1>>
    /\ ti' = 0
    /\ UNCHANGED <<cur, ie, loc, a0, stack, work, getstr_buf, expect, booted>>

(* TI hits switch_to() between its store to cur_proc and swtch(): yield()  *)
(* saves the scheduler's registers as First's and loads stale ones.        *)
TickInSwitch ==
    /\ cur = Idle /\ ie = 1 /\ ti = 1
    /\ cur' = Lost
    /\ UNCHANGED <<ie, ti, loc, a0, stack, work, cur_sp, getstr_buf, expect, booted>>

(* TI hits trap_exit between its write of ERA and ertn: the nested trap    *)
(* leaves its own ERA behind, and ertn goes there.                         *)
TickInExit(p) ==
    /\ Doing(p, "done") /\ ie = 1 /\ ti = 1
    /\ cur' = Lost
    /\ UNCHANGED <<ie, ti, loc, a0, stack, work, cur_sp, getstr_buf, expect, booted>>

(* E_SYS.  The handlers read their arguments through cur_sp before         *)
(* anything else; syscall_handler() keeps its trapframe pointer.           *)
Call(p, arg, job) ==
    /\ Running(p) /\ loc[p] \in AtCall /\ ti = 0
    /\ Enter(p, loc[p] + 4, arg, job)
    /\ loc' = [loc EXCEPT ![p] = Kernel]
SyscallWait(p) ==                   \* wait4() and the calls that just return
    /\ Call(p, 0, Job("wait", Depth(p) + 1))
    /\ UNCHANGED <<cur, ti, a0, getstr_buf, booted>>
Uncapped(n) == n                    \* variant: no _min()
Capped(n) == IF n < BufSize THEN n ELSE BufSize
argraw == stack'[cur_sp'[1]][cur_sp'[2]].a0
SyscallRead(p) ==
    \E n \in Counts :
        /\ Call(p, n, [Job("read", Depth(p) + 1) EXCEPT !.asked = n, !.count = Capped(argraw)])
        /\ UNCHANGED <<cur, ti, a0, getstr_buf, booted>>

(* trapframe->a0 = ret.                                                    *)
ResultFrameCurSp(p) == cur_sp       \* variant: get_trapframe()->a0 = ret
ResultFrame(p) == <<p, Top(p).tf>>
StoreResult(p, ret, jobs, job) ==
    /\ stack' = IF ResultFrame(p)[1] = p /\ ResultFrame(p)[2] \in 1..Depth(p)
                THEN [stack EXCEPT ![p] = [@ EXCEPT ![ResultFrame(p)[2]].a0 = ret]]
                ELSE stack
    /\ expect' = [expect EXCEPT ![p] = [@ EXCEPT ![Depth(p)].a0 = ret]]
    /\ work' = [jobs EXCEPT ![p] = [@ EXCEPT ![Depth(p)] = [job EXCEPT !.what = "done"]]]

WaitYield(p) ==
    /\ Doing(p, "wait")
    /\ Yield(p)
    /\ UNCHANGED <<ie, ti, stack, work, cur_sp, getstr_buf, expect, booted>>
WaitDone(p) ==
    /\ Doing(p, "wait")
    /\ StoreResult(p, 1, work, Top(p))
    /\ UNCHANGED <<machine, cur_sp, getstr_buf>>

(* fork(): the child gets a copy of the stack, with 0 in the a0 of the     *)
(* frame cur_sp points to, and starts in exec_helper().                    *)
Fork(p, np) ==
    /\ Running(p) /\ loc[p] \in AtCall /\ ti = 0
    /\ Depth(p) < MaxDepth
    /\ np \in Procs \ {p} /\ stack[np] = <<>>
    /\ LET d == Depth(p) + 1
           copy == Append(stack[p], Frame(loc[p] + 4, 0, ie))
           mine == Append(stack[p], Frame(loc[p] + 4, 1, ie))
       IN /\ stack' = [stack EXCEPT ![p] = mine, ![np] = copy]
          /\ expect' = [expect EXCEPT ![p] = Append(@, mine[d]),
                                      ![np] = Append(expect[p], copy[d])]
          /\ work' = [work EXCEPT ![p] = Append(@, Job("done", d)),
                                  ![np] = Append(work[p], Job("done", d))]
          /\ cur_sp' = <<p, d>>
    /\ ie' = 0
    /\ loc' = [loc EXCEPT ![p] = Kernel]
    /\ UNCHANGED <<cur, ti, a0, getstr_buf, booted>>

-----------------------------------------------------------------------------
(* getstr() in read() of the console.                                      *)

(* p stores into the buffer that every reader inside getstr() will copy    *)
(* from (history).                                                         *)
Mixed(p) ==
    [q \in Procs |-> [d \in 1..Len(work[q]) |->
        IF work[q][d].what = "read" /\ <<q, d>> # <<p, Depth(p)>>
        THEN [work[q][d] EXCEPT !.mixed = 1] ELSE work[q][d]]]

(* One character, a NUL like any other: stored, counted; a newline or the  *)
(* last one ends the loop.                                                 *)
Taken(job, c) == [job EXCEPT !.pos = @ + 1, !.mine = Append(@, c),
                             !.count = IF c = NL THEN 0 ELSE @ - 1]
GetKey(p) ==
    /\ Doing(p, "read") /\ Top(p).count > 0
    /\ \E c \in Keys :
        /\ getstr_buf' = [getstr_buf EXCEPT ![Top(p).pos] = c]
        /\ work' = [Mixed(p) EXCEPT ![p] = [@ EXCEPT ![Depth(p)] = Taken(Top(p), c)]]
    /\ UNCHANGED <<machine, stack, cur_sp, expect>>

(* No character: interrupts on, and off again.                             *)
OpenWindow(p) ==
    /\ Doing(p, "read") /\ Top(p).count > 0
    /\ ie' = 1
    /\ loc' = [loc EXCEPT ![p] = Window]
    /\ UNCHANGED <<cur, ti, a0, stack, work, cur_sp, getstr_buf, expect, booted>>
CloseWindow(p) ==
    /\ Running(p) /\ loc[p] = Window
    /\ ie' = 0
    /\ loc' = [loc EXCEPT ![p] = Kernel]
    /\ UNCHANGED <<cur, ti, a0, stack, work, cur_sp, getstr_buf, expect, booted>>

(* The end of getstr(), then strlen() and memcpy() of read().              *)
TerminatedOver(p) ==                \* variant: the newline is replaced
    [getstr_buf EXCEPT ![IF Top(p).pos = 0 THEN 0 ELSE Top(p).pos - 1] = NUL]
Terminated(p) == [getstr_buf EXCEPT ![Top(p).pos] = NUL]
StrLen(b) == CHOOSE n \in DOMAIN b \union {BufSize + 1} :
                (n \in DOMAIN b => b[n] = NUL) /\ \A i \in 0..(n - 1) : b[i] # NUL
ReadDone(p) ==
    /\ Doing(p, "read") /\ Top(p).count = 0
    /\ LET b == Terminated(p)
           n == StrLen(b)
       IN /\ getstr_buf' = b
          /\ StoreResult(p, n, Mixed(p), [Top(p) EXCEPT !.given = [i \in 1..n |-> b[i - 1]]])
    /\ UNCHANGED <<machine, cur_sp>>

-----------------------------------------------------------------------------
Halted == cur = Lost /\ UNCHANGED vars

Next ==
    \/ HardwareTick \/ TickIdle \/ TickInSwitch \/ Halted
    \/ \E p \in Procs :
        \/ Exit(p) \/ Step(p) \/ Resume(p)
        \/ Tick(p) \/ TickSignal(p) \/ HandlerReturns(p) \/ TickDone(p) \/ TickInExit(p)
        \/ SyscallWait(p) \/ WaitYield(p) \/ WaitDone(p)
        \/ SyscallRead(p) \/ GetKey(p) \/ OpenWindow(p) \/ CloseWindow(p) \/ ReadDone(p)
        \/ \E np \in Procs : Fork(p, np)

Spec == Init /\ [][Next]_vars

-----------------------------------------------------------------------------
(* Types; getstr() stores at most one byte, its NUL, past getstr_buf.      *)
TypeOK ==
    /\ cur \in Procs \union {Idle, Lost} /\ ie \in {0, 1} /\ ti \in {0, 1}
    /\ \A p \in Procs :
        /\ loc[p] \in User \union Handler \union {Window, Kernel}
        /\ Depth(p) <= MaxDepth /\ Len(work[p]) = Depth(p)
        /\ \A d \in 1..Depth(p) : work[p][d].pos + work[p][d].count <= BufSize
    /\ getstr_buf \in [0..BufSize -> Keys \union {NUL}]

(* A frame holds what the code it interrupted needs back, and a system     *)
(* call's result is in the frame of that call, whatever other traps moved  *)
(* cur_sp meanwhile: a tick in getstr()'s window, a signal handler's own   *)
(* calls, another process's calls while this one waits.                    *)
FramesIntact == stack = expect

(* ertn gives the interrupted code its own program counter, $a0 and        *)
(* interrupt enable, at every depth.  A tick can overwrite the ERA and     *)
(* PRMD that trap_exit has written, or the registers that swtch() is about *)
(* to load, only up to the end of the first trap_exit, through which the   *)
(* interrupts that kmain() turned on stay on.                              *)
ReturnsToItsOwn ==
    [][/\ \A p \in Procs : Len(stack'[p]) < Depth(p) =>
            Frame(loc'[p], a0'[p], ie') = Last(expect[p])
       /\ cur' = Lost => booted = 0]_vars

(* strlen() stops at the first NUL.                                        *)
CutAtNul(given, mine) ==
    /\ Len(given) <= Len(mine)
    /\ \A i \in 1..Len(given) : given[i] = mine[i] /\ given[i] # NUL
    /\ Len(given) < Len(mine) => mine[Len(given) + 1] = NUL

(* read() gives no more bytes than were asked for, even when readers share *)
(* getstr_buf, and a read() during which no other reader stored into it    *)
(* gives the characters it took from the UART, in order, up to the first   *)
(* NUL among them: the rest is lost, as the line is measured by strlen().  *)
ReadGives == \A p \in Procs : \A d \in 1..Depth(p) :
    LET job == work[p][d] IN
        /\ Len(job.given) <= job.asked
        /\ job.what = "done" /\ job.mixed = 0 => CutAtNul(job.given, job.mine)

=============================================================================
