# A TLA+ verification project for LoOS

LoOS is a small teaching kernel for LoongArch64: one processor, a process
table of 64 slots, a round-robin scheduler driven by the constant timer, a
file-descriptor layer over a read-only ext2 reader, an AHCI disk driver, page
tables and two allocators. User programs (busybox) run at privilege level 0
with interrupts on; every trap runs with interrupts off.

The modules here are translated from the C and assembly sources and are checked
by TLC on small instances. The safety of the process layer, the descriptor
layer, the trap layer, the memory layer, the kernel heap and the disk driver is
proved by TLAPS: for every size of the process table, of the descriptor tables,
of memory and of the heap, every depth of nested traps, every program and every
number of command slots and sectors.

## Inventory

| component | state | operations | hard behaviour | what makes it correct |
|---|---|---|---|---|
| process table (`core/proc.c`, `core/exec.c`) | `proc[]`: allocs, state, pid, parent, children list, callback, timer; `last_pid`, `cur_proc` | `proc_alloc`, `proc_free`, `proc_find`, `fork`, `exec`, `yield`, `kill`, `exit`, `switch_to` | a slot is freed with a live-looking state; `execve` moves an identity between two slots | unique pids, one tree of parents and children, no resurrection |
| scheduler (`core/sche.c`) | scan position, `run` | `scheduler` | tasks become runnable behind the scan | round robin, no starvation, shutdown only when idle |
| timer and traps (`core/time.c`, `core/trap.c`, `core/trap_entry.s`, `core/swtch.s`) | TI, `ticks`, trap frames, contexts, `cur_sp` | `timer_handler`, `trap_handler`, `trap_entry`, `trap_exit`, `swtch` | preemption anywhere in user code; TI acknowledged after the switch, so that a trap until then is taken for a tick; signal handlers inside the trap; nested traps in `getstr` | an interrupted program resumes unchanged |
| process system calls (`core/syscall.c`) | `pos` of `sys_wait4`, alarms | `clone`, `execve`, `exit`, `wait4`, `rt_sigaction`, `setitimer` | pointers kept over `yield()` | exits collected once, by the parent; waits end |
| descriptors (`fs/ext2_fs.c`) | `fds[]`: alloc, refcount, inode; the one `fdtable` all user processes share | `open`, `close`, `dup`, `dup3`, `fcntl`, `read`, `write`, `lseek` | counts that do not start at one, `dup3` closing what it copies | a descriptor keeps naming what it was opened for |
| virtual memory (`mm/memblock.c`, `mm/mm.c`, `mm/n_vm.c`) | free list, three-level tables, mapping lists | `kalloc`, `kfree`, `alloc_vm`, `map_pages`, `copy_pagetable`, `copy_to_va` | partial mappings, page reuse | address spaces are disjoint, pages are conserved |
| heap (`lolibc/stdlib.c`) | bins, break pointer | `malloc`, `free` | chunk reuse by size class | live chunks are disjoint and large enough |
| lists (`lolibc/kstruct/list.h`, `lolibc/struct/mlist.c`) | links | `list_add`, `list_del`, `mlist_push`, `mlist_pop` | pointer surgery | the list is a sequence |
| disk (`driver/ahci.c`, `driver/disk.c`) | command slots, port registers | `probe_port`, `find_cmdslot`, `do_ahci_read` | busy port, task-file error, time-out, a buffer that keeps the bytes of an earlier read | an issued command completes or is reported, what is mounted is an ext2 disk |
| ext2 (`fs/ext2.c`) | superblock, group descriptors | `ext2_path_lookup`, `get_inode`, `get_physical_block`, `ext2_fread` | indirect blocks, path components | the right block of the right inode |
| console (`driver/uart.c`) | `getstr_buf` | `putch`, `getch`, `getstr` | interrupts enabled inside a system call; one buffer for all readers | a reader gets what was typed for it, the frames below survive |
| C library (`lolibc/string.c`, `lolibc/stdio.c`) and working directory (`core/syscall.c`) | `lasts` of `strtok`, `cwd` | `vsprintf`, `strtok`, `qsort`, `chdir`, `getcwd` | signs, padding, the smallest number; a path edited as text | texts denote their numbers, the cwd names the directory reached |
| boot and power | constant | | straight-line set-up | |

The parts meet as follows. `trap_entry.s` saves the registers of the
interrupted code on its stack and calls `trap_handler()`, which calls
`timer_handler()` or `syscall_handler()`; both may end in `yield()`, which
switches to `scheduler()` through `swtch.s`. System calls reach the descriptor
layer, that the ext2 reader, that the disk. `fork()` and `exec()` allocate page
tables, and all of them take pages from the free list of `memblock.c`.

## Modules

| module | models | kind |
|---|---|---|
| `Proc` | process table, scheduler, timer, process system calls | specification, properties |
| `ProcRR` | `Proc` with a history variable for the round-robin bound | observer |
| `ProcProofs`, `ProcRRProofs` | theorems about the two | proofs |
| `Files` | descriptor table and `fds[]` | specification, properties |
| `FilesProofs` | theorems about `Files` | proofs |
| `Vm` | free list, page tables, mapping lists, the memory side of fork and exec | specification, properties |
| `AddressSpace` | what `Vm` promises to processes | abstract specification |
| `MCVm` | small instances of `Vm` | model |
| `VmProofs` | theorems about `Vm` | proofs |
| `VmRefines` | `Vm` implements `AddressSpace` | proofs |
| `Trap` | trap frames, `cur_sp`, context switch, signal handlers, console input | specification, properties |
| `TrapProofs` | theorems about `Trap` | proofs |
| `Ahci` | disk driver, boot-time disk checks, `read_block` | specification, properties |
| `AhciProofs` | theorems about `Ahci` | proofs |
| `Ext2` | inode lookup, path resolution, pointer tree, `ext2_fread` | functions, requests |
| `MCExt2` | disk images, reference answers | model, properties |
| `Heap` | `malloc`, `free` and `mlist` in words of memory | specification, properties |
| `HeapProofs` | theorems about `Heap` | proofs |
| `Clib` | numbers, `printf`, strings, `qsort`, working directory | functions, requests |
| `MCClib` | inputs, reference definitions | model, properties |

A definition marked `variant:` is a plausible bug of the definition next to it.
No specification uses it; it shows that the properties notice the difference.

### Proc

A variable is a field of `struct task_struct` over all slots (`allocs`,
`state`, `pid`, `parent`, `children`, `callback`, `timer_call_time`), a global
(`last_pid`, `cur_proc`, `ticks`) or a place of execution: `cpu` says who has
the processor, `scan` and `run` are the locals of `scheduler()`, `at[p]` is the
place in the kernel where a process that called `yield()` will resume,
`waitfor[p]` the local `pos` of its `sys_wait4`, `ti` the pending bit of the
timer. `children` is the sequence that the links of `list_head` represent.

Atomicity follows the interrupt enable bit. A trap runs with interrupts off,
therefore a system call is one step up to the `yield()` it contains
(`Clone`, `Execve`, `Exit`, `WaitAnyYield`...). User code is preempted
anywhere: `Interrupt(p)` may happen whenever `p` is in user code and `ti` is
set. `scheduler()` is one step per slot (`PassOver`, `Dispatch`), then
`Switch` for the rest of `switch_to()`, because during the first pass
interrupts are still on (`InterruptScheduler`, `InterruptSwitch`). A process
suspended inside `timer_handler()` acknowledges TI only when it runs again
(`TickReturn`). `ExecveFails` keeps what `proc_free()` leaves in the slot.

A SIGALRM handler is user code that `do_signal()` calls inside the trap of a
tick, with interrupts off: `DoSignal` enters it, `handlers[p]` counts the ones
that have not returned, and in one a process may make every call that its program
may, `setitimer`, `exit`, `wait4` and `clone` included (the child's copied stack
holds the frames of the handlers, so it inherits the count). TI is still pending
when the handler starts, since `trap.c` acknowledges it after `timer_handler()`;
until some tick has returned, a call of the handler is therefore taken for a
tick (`TimerTrap`), which yields or runs the handler again (`MaxNest` bounds
this), and is executed again afterwards. `Spin` is a call that stays in the kernel
with interrupts off: `sys_sendfile`, which does not return for a file that is
not empty, or a read of the disk. Neither a handler nor such a call need end.

An `execve` leaves the pid -1 in the old image, which runs on until the next
tick and may call `execve` again; the new image then gets -1. `PidUnique`
says what is left of uniqueness: no other pid is shared, and whatever is alive
with -1 was put there by an old image, dead by then, with the same parent.

### Files

`fork()` and `exec()` copy the pointer `fdtable`, so all user processes share
one table and one instance of it is modelled. `busy` keeps the integer that
`F_SETFD` stores. `opened`, `uncounted` and `dangling` are history variables:
the file a descriptor was opened for, the references made and dropped without
`refcount`, and the open descriptors whose entry `close()` freed.
Descriptors passed by user code are in range: `dup3()` with a `newfd` outside
the table and `F_DUPFD` with a negative argument are not modelled.
`close()`, called from `dup3()`, is given as the values it leaves.

### Vm

Tables and user data share one memory, `mem`, and every page comes from the
one `freelist`, so that a page used for two purposes shows. A page of an
address space is named by its three table indices, which is what `PX` takes
from a virtual address. `mapping_list[p]` is the sequence that the links of
`mlist` represent. fork and exec run with interrupts off, therefore no user
code runs between their steps (`pc` is not `idle`); they are split into the
rounds of their loops (`AllocPage`, `CopyPage`, `Descend`, `NewTable`,
`MapLeaf`), because each asks for pages and may panic. `Take` stands for all
other requests (mmap, open, the growth of the heap) and may come between any two
rounds, since `mlist_push` itself allocates.

A program is a sequence of segments, each with its pages and with the bytes
that `copy_to_va` writes to them, which need not cover a page; the user stack is the
last one. The program of the instance has two segments on one page:
`alloc_vm` then replaces the mapping, the first page stays on the list
without being mapped, and the first segment's bytes on it are lost, so a
loaded page holds what the last segment on it has there, and zeros (`Loaded`). `elf_loader` fails only when the file cannot be opened, so
`pgtbl_free` is called for empty address spaces only and is modelled for these.
A caller of `execve` is live until its `Exit`, because it runs on until the
next tick (see `Proc`).

A failed `execve` gives the shared descriptor table to `free()` (`proc.c:112`), which takes it
for a chunk and stores a link 16 bytes before it (`FreeNext`). The table is the
first page ever given out and pages are given out in descending order, so the
word is an entry of the root table of process 1. `ExecFails` makes this store. It is
entry 2046 of 2048, which no user address selects (`RootIndex`), and this is all
that keeps the address spaces intact; the root table is not clean afterwards
(`CleanRoots` does not hold). What follows if `malloc()` hands that memory out again is not
modelled, here as in `Heap` and `Files`.

`AddressSpace` says what this should amount to: a function from pages to
contents for each process. The refinement mapping gives a live process the
contents of the pages that the walk of its table finds. The child's copy
differs from its parent in the result of the call, which `fork()` clears in the
saved frame on the child's stack, wherever that lies, and in `sp` and `ra` of the
context that it writes to the stack page (`ContextWords`). `Store` stands for user code
and for `trap_entry` and `swtch`, which save the registers of a process on its
own stack.

### Trap

A process has one stack, and `trap_entry` pushes a frame on it for every trap:
`stack[p]` is the sequence of these frames, outermost first, and `work[p]` says
what the kernel does above each of them (yield, run a signal handler, wait,
read, nothing more). A frame is `era`, `a0` and the saved interrupt enable bit;
the other registers are saved and restored by the same instructions, except
`$tp`, which `trap_exit` leaves alone. Traps nest in two ways: `timer_handler()` calls the signal handler of a process, which may
make system calls, and `getstr()` turns interrupts on while no character has
come (`OpenWindow`, `CloseWindow`). `cur_sp` is the one global through which
`argraw()` and `get_trapframe()` find a frame; each trap overwrites it.
`swtch()` keeps `loc` of the process, so `Resume` goes on where `Yield` left.
The kernel uses `$a0` itself (`Yield` and `TickSignal` overwrite it), so only the
frame can give it back.
TI is acknowledged when `timer_handler()` has returned (`TickDone`), so a system
call that a signal handler makes before that is taken for a tick: its frame is
that of the call instruction, not advanced, and `timer_handler()` may run the
handler again inside (`TimerTrap`, `TickSignal`). `Call` needs TI clear.
`kmain()` turns interrupts on before `scheduler()`, so up to the end of the first
`trap_exit` a tick can hit the kernel: in the scheduler's loop, where it does no
harm (`TickIdle`), inside `switch_to()` or between the write of ERA and `ertn`,
after which the processor goes where no code waits (`TickInSwitch`,
`TickInExit`, `cur = Lost`).
A NUL is a key like any other (`getch` may return it): it is stored and counted,
and `strlen()` in `read()` then cuts the line there.
`Proc` decides who may run; here any process with a frame may get the processor,
so whatever holds here holds under every schedule. `expect` is a history
variable: what each frame has to give back, written without `cur_sp`; `booted`
records the first `trap_exit`.
The fields `asked`, `mine`, `given` and `mixed` of a job are the history of a
`read()`.

### Ahci

The state is the registers of the port the driver looks at (`is`, `ci`,
`tfd`), the command table, `ahci_buf`, the medium and the progress of the call
(`pc`, `req`, `slot`, `spin`). A driver step is one look at a register: `Fill`
up to the first wait, `Spin`/`Hung` for its rounds, `Issue`, `PollAgain`/`Poll`
for the unbounded wait, `Return` for the copy to the caller. Between any two of them
the adapter (external) moves a sector (`Transfer`), completes, or fails the
command (`Fail`): the bit in PxCI may go or stay, the drive may stay busy, and
the adapter may stop for good, since the driver never restarts a port. `phase` follows `disk_init()`
and `ext2_init()`: probe, the check in `disk_init`, the superblock, then any
block. Both checks look for the signature in the bytes they were given, whichever these
are: `magic` is the set of sector contents that carry it at the offset of
`s_magic`, chosen at the start among `Signable`, so foreign disks, boot sectors that carry the
signature by chance, and buffers with the bytes of an earlier read are all
tried. A sector's contents are its number at the start, so a sector in the
wrong place shows. The header's `w` bit stays 0 in `do_ahci_write()`; the
adapter modelled goes by the command in the FIS, the reading that favours the
code.

### Ext2

The disk never changes and a request is served without switching, so the
functions are operators and each request is one step. The sizes of the on-disk
structures are constants counted in words, which lets a disk of 39 blocks cross
every boundary: three groups over two descriptor blocks, inode tables of two
blocks out of order, directories of two blocks, all three levels of pointers.
`MCExt2` lays such disks out from an abstract file system (`inodes`, `dirs`)
and states the answers from that, without the arithmetic of the reader.
`read_block` here succeeds; reads that fail are in `Ahci`. The disks hold a
socket and a block device too: `ext2_path_lookup` tests a bit of `i_mode` that these
have set as directories have (`HasDirBit`), so `LookupResolves` speaks of paths
that do not go on below one.

### Heap

Memory is an array of words of 8 bytes, and `malloc`, `free` and the list
functions are operators from one heap to the next, so a store past the end of a
chunk reaches its neighbour. The actions are the calls that use them: `Exec`
and `AllocPage` (`proc_alloc`, a round of `alloc_vm`), `Fork`, `CopyPage`,
`ForkDone` (`copy_pagetable`, which takes the parent's list apart and builds two
new ones), `ExecFails`. A failed `execve` also gives `free()` three pointers that
`malloc()` never returned; the word that `free()` takes for their size may be
anything, so the bin they land in is a free choice. What happens once `malloc()` hands
such memory out is not followed (`foreign`). `lists` and `old` are history
variables, the lists as sequences of cells (the addresses of element and mapping,
and the page), `chains` holds the chunks of each bin in the same way, and `room`
records what a chunk was made for. The properties compare the links in memory
with these sequences one by one, so they need no walk that recurs.

### Clib

Strings are sequences of character codes and loops are recursive operators.
Machine integers have `Width` bits. One step is one call, except for `strtok`,
whose state `lasts` is kept between calls (`Token`, `NextToken`), and the
working directory, which `sys_chdir` changes call after call. `MCClib` states
the field that C's `printf` gives a number (`NumberField`), what the fields of a string are
and where a path leads (`LeadsTo`), independently of the routines. Where the
routines differ from that the property has a premise, and the statement without
it is listed under Observations.

## Runs

| run | checks | bounds |
|---|---|---|
| `proc_safety` | type, `OneOnCpu`, `PidUnique`, `ShutdownClean`, `FamilyTree`, `WaiterTarget`, `ReapByParent`, `NoResurrection`, `RoundRobin` | 4 slots (kproc and three tasks), pids up to 6, slot 2 watched |
| `proc_live` | `WaitAnyReturns`, `PowersOff` | 4 slots, pids up to 3, so that `execve` can fail once; no alarms |
| `proc_alarm` | `Scheduled`, `AlarmDelivered` | 3 slots, pids up to 4, ticks up to 1 with deadlines 0 and 1, 2 handlers inside each other |
| `files_safety` | type, `RefcountLaw`, `LeadsToOpened`, `DescriptorsStable` | 3 descriptors, 2 entries, 1 of them standard, 2 inodes, refcount within -1..1, `F_SETFD` with 0 and 2 |
| `vm_safety` | type, `ListedIsMapped`, `OneOwner`, `PrivateSpaces` (refinement of `AddressSpace`) | 3 slots, 17 pages, tables of 2 entries, one of them for user addresses in a root table, 2 user pages with 2 words of 2 values, at most 3 pages taken |
| `trap` | type, `FramesIntact`, `ReadGives`, `ReturnsToItsOwn` | 2 processes, the second only by fork, 3 frames on a stack, a buffer of 2 bytes, reads of 1 and 3 bytes, a character, a newline and NUL |
| `ahci_safety` | type, `SuccessMeansTransferred`, `NothingOutstanding`, `MountedSuperblock`, `CallReturns` | 2 ports, 2 command slots, 8 sectors, of which 0 and 2 may carry the signature, 1 round of the busy wait, 2 blocks read, 1 sector written |
| `ext2` | `InodeFound`, `LookupResolves`, `FreadIsFile` | 128 disks of 39 blocks, all inode numbers and one past each end, all paths of up to 4 characters, reads below, at and past block and file ends |
| `heap` | `ChunksFit`, `FreeIsFree`, `ListsAreSequences` | 5 processes, pages of 24 words, 18 of them, programs of 1 to 3 pages, 2 failed `execve` |
| `clib` | `NumbersShown`, `TokensAreFields`, `QsortSorts`, `CwdNamesDirectory` | integers of 6 bits, all flags with 3 widths, all arrays of up to 5 elements out of 3 values, all strings of up to 5 characters, working directories of up to 11 characters with 12 paths given to `chdir` (a trailing slash, `.`, `..` and the empty path among them) |
| `proc_waitpid`, `files_free` | one finding each | as above |

Why the bounds are enough. Three tasks give a grandparent, a parent and a
child, so reaping, re-parenting by `execve` and a waiter whose child has
children all occur, and a second `execve` of an old image; a further slot adds only
a symmetric sibling. `WaitAnyReturns` needs two children of one parent, hence 4 slots;
with alarms that is too many states, so the two properties that alarms and handlers threaten
are checked on 3 slots, where a parent, its child, handlers inside handlers,
spinning calls and failing `execve` all occur. Slots are
never reused after a successful creation, so `PROC_MAX` also bounds the number
of creations; `MaxPid` only limits failing `execve`, which is the one call that
consumes pids without consuming slots. Two entries and three descriptors give
two descriptors of one entry, a free descriptor next to it, an entry reused
after a premature free, and the panics of a full table. In `Vm` a program takes
8 pages, so 17 are just enough for two processes and one page more: two
processes with separate contents, one forked from the other or both loaded,
while each page taken, and a third process, makes the list run empty inside a
loop of fork or exec. `MaxTaken` allows two
pages besides the descriptor table of the first process. The one program has
two segments on one page, the case in which list and table differ.
In `Trap` three frames are the longest nesting that matters: a system call of
the program, the tick in its window, and a system call of the signal handler
that the tick runs, or three ticks when its calls find TI pending; a second process supplies the calls that move `cur_sp`
away and the second reader. A read of 3 bytes exceeds the buffer, one of 1 ends
before it. In `Ahci` two slots let one be lost to an error while the other is
used, and both be lost, and a disk has the signature in its superblock, in its
boot sector, in both or in neither. In `Heap` a page holds 3 chunks of
list elements, so most calls cross into a new page; 5 processes and two
failed calls give every order of freeing and taking the chunks of one bin. In
`Clib` 6 bits give one and two digits in both radices and the number whose
negation wraps.

What the small bounds of `Proc`, `Files`, `Vm`, `Trap`, `Heap` and `Ahci` might
miss of their safety properties is covered by the proofs, which hold for every size.

Deadlock is checked in every run but `heap`: a stopped machine stutters
explicitly (`Halted`, `Panicked`), so any other state without a successor would
be an error. The runs of `heap` end where the bounds do, or where memory that
is not the heap's was handed out.

Fairness (`FairSpec`): weak fairness of `KernelStep`, the kernel's own code and
the interrupts that hit user code outside handlers, since the one processor
always executes something and such a step, once enabled, stays enabled; and weak fairness of `HardwareTick`, since
`timer_init()` programs a periodic timer. No fairness is assumed of user code:
a process may loop for ever or never call anything, a signal handler need not
return, and a call that spins in the kernel need not end. While a handler or such a
call has the processor interrupts are off and nobody else gets it, so
`Scheduled`, `WaitAnyReturns`, `AlarmDelivered` (and `WaitPidReturns`) have the premise
`[]<>~Hogged`: the processor is not kept that way for ever. `PowersOff`
needs no premise.
In `Ahci`, weak fairness of the driver's steps for the same reason, and of the
adapter's: one that has not stopped goes on with the command it holds, whether
it completes or fails it. An adapter that stops is part of the model, so
`CallReturns` promises nothing for it.

### Findings

Two runs end in a counterexample to what the repository says of the program:

1. `proc_waitpid`: `wait4(pid)` never returns when the child calls `execve`
   during the wait.
2. `files_free`: `dup`, `close`, `dup`, `close` of one file frees its entry
   twice and panics.

### Observations

These statements are defined in the modules and do not hold. No run is kept for
them; each is reproduced by a configuration with the constants given and the
one property.

| statement | constants | what happens |
|---|---|---|
| `ReapedPid` (`Proc`) | `PROC_MAX` 4, `MaxPid` 4, no ticks or deadlines | `wait4(-1)` collects the image that `execve` replaced and returns -1 (`syscall.c:179`) |
| `LivePidsUnique` (`Proc`) | `PROC_MAX` 5, otherwise as `proc_safety` | an image calls `execve` three times before its tick: two new images live with pid -1 (`syscall.c:179`) |
| `TickCountedOnce` (`Proc`) | `PROC_MAX` 3, `MaxPid` 3, `TickCap` 2 | a tick is counted again, because TI is acknowledged after the switch (`trap.c:38`) |
| `InterruptReturns` (`Proc`) | `PROC_MAX` 3, `MaxPid` 3 | a tick inside the very first `switch_to()` or `trap_exit` loses the scheduler's context or the task's ERA (`proc.c:159`, `trap_entry.s:67`) |
| `StdIsConsole` (`Files`) | as `files_safety` | `dup(0)`, `close(0)`, `open` puts a file into `fds[STDIN]`, and reading it reads the console (`ext2_fs.c:168`) |
| `BlockIsDisk` (`Ahci`) | as `ahci_safety`, `Spec` | `read_block()` returns 0 whatever `ahci_read()` did (`ext2.c:24`), so after a failed read the caller uses what `ahci_buf` held |
| `SuperblockIsDisk` (`Ahci`) | as `ahci_safety` | the read of the superblock moves nothing and the boot sector, still in `ahci_buf`, carries the signature: it is taken for the superblock (`ext2.c:32`) |
| `FileLoaded` (`Vm`) | as `vm_safety` | the page shared by two segments lacks the first one's bytes (`n_vm.c:163`) |
| `CleanRoots` (`Vm`) | as `vm_safety` | `free()` of the shared descriptor table stores into the root table of process 1 (`proc.c:112`) |
| `OnlyDirectoriesSearched` (`MCExt2`) | as `ext2` | a name below a socket gives -1 and not ENOTDIR, and a block device is searched in the block its device number names (`ext2.c:262`) |
| `UnsignedIsDecimal` (`MCClib`) | as `clib` | `%u` prints hexadecimal: `c` is the percent sign where `c=='u'` is tested (`stdio.c:154`) |
| `SignsPadded` (`MCClib`) | as `clib` | `%03d` of -9 gives `0-9` (`stdio.c:104`), and the padding of `%p` comes after `0x` (`stdio.c:151`) |
| `DotsGoUp` (`MCClib`) | as `clib` | `chdir("a/")` or `chdir(".")` and then `chdir("..")` stays in the same directory (`syscall.c:295`) |

Met while reading, and kept in the models as the code has it:

- disk: `abar->pi` is never shifted, so bit 0 decides for all ports
  (`ahci.c:13`); `get_bits_range` takes four bits where the comment says "bit
  12-8" (`ahci.c:46`); a command that failed with its bit kept costs its slot for
  good, as nothing restarts the port; a device that becomes ready in the last
  round counts as hung (`ahci.c:121`); `do_ahci_write` leaves the header's `w`
  at 0 (`ahci.c:167`) and has no caller; `ext2_init_disk` drops the result of
  the superblock check (`ext2.c:159`).
- ext2: a missing pointer block is read as block 0 (`ext2.c:306`), which gives
  zeros only because block 0 is zero; a name longer than `EXT2_NAME_LEN` is
  split into two components (`ext2.c:188`); an entry with `rec_len` 0 would be
  read again and again (`ext2.c:215`; no disk modelled has one); `sendfile` asks
  for one byte after the other and always gets the first (`syscall.c:416`).
- heap: a list head of 16 bytes and an element of 24 share a bin, and a chunk
  is never checked against the size asked for. What keeps this safe is the order of
  the calls: every call that takes elements takes a head first, and a bin is
  last in, first out (`ChunksFit`). The old list head is not freed in
  `copy_pagetable`; the commented-out `free(old_list)` (`n_vm.c:294`) would
  break none of the three properties within the bounds. The unsorted bin unlinks its head
  whichever chunk it found (`stdlib.c:77`); nothing asks for such sizes.
- console: `getstr` puts its NUL one byte past a full `getstr_buf`
  (`uart.c:59`); two readers at once share the buffer and get a mixture; what
  follows a NUL in a line is lost (`ext2_fs.c:170`).
- traps: `trap_exit` does not restore `$tp` (`trap_entry.s:71`), and the child of
  `fork` gets the one its parent had at its last switch.
- C library: a field goes through `buf[512]` unchecked
  (`stdio.c:121`); `strncmp` and `memcmp` with n = 0 compare one character
  (`string.c:45`, `string.c:79`); `getcwd` into a buffer of exactly the length leaves
  no NUL (`strncpy`); `get_path` and `chdir` build paths in 256 bytes unchecked
  (`syscall.c:311`).

## Proofs

All theorems hold for every value of the constants, under the named
assumptions of the modules only: at least two slots, natural bounds, deadlines
within the clock, `MAX_FILES` at most `MAX_FDTABLE` (`fcntl(F_DUPFD)` scans the
descriptor table up to `MAX_FILES`), at least 8 sectors on the medium (the
boot check reads them) and requests that end on it, virtual addresses that are
triples of table indices of which the first is not the entry that a failed
`execve` overwrites (`RootIndex`, `FreeNext`), a bound on handlers inside
handlers, programs whose last page is the user stack (`exec()`
maps it after the segments), room for at least one trap frame and one
character, a heap of at least one page, pages of more than 8 words (a chunk for
four words and the two of its header fit with room to spare; a page has 2048), and
slots numbered from 1 beside that of the kernel.

**Proc.** The properties are not inductive alone. `IInv` in `ProcProofs` is
their conjunction with four facts: `BootSlots` (kproc and slot 1 stay
allocated and `last_pid` is past their pids), `TasksHaveParents` (a task has a
nonzero pid and an allocated parent), `CpuOwner` (a task that has the
processor is no zombie and `run` is 1) and `PassMemory` (`run = 0` means that
nothing before `scan` is runnable). `ShutdownClean` needs `PassMemory`, since
the scheduler decides at the end of a pass on what it saw during it;
`PassMemory` is stable because only the task on the processor makes others
runnable, and then `run` is 1 (`CpuOwner`). `PidUnique` needs the bound
`pid < last_pid` of the type invariant, and its part on pid -1 that the image
calling `execve` with it, dead afterwards, is the witness for the new one. `FamilyTree` needs that a slot just
allocated is on no list, which holds because lists contain allocated slots.
`WaiterTarget` needs that the parent of an allocated slot never changes. The
preservation proof is split by the part of the state (`TypeStep`, `TreeStep`,
`FamilyStep`, `CpuStep`, `WaiterStep`), each with one step per action; the
action properties follow from `IInv`.

**ProcRR.** `OvertakenBehind` is inductive relative to `IInv`: a slot that has
overtaken the watched one lies behind it in scan order, so it cannot be
dispatched again before the scan has met the watched slot.

**Files.** `RefcountLaw` and `LeadsToOpened` are each inductive relative to the
type invariant. `OneDescriptor` is the counting lemma: a call that changes one
descriptor changes the cardinality of the references to an entry by what that
descriptor stood for before and after. `LeadsToOpened` holds for a reused entry
because `open()` takes only unallocated ones, to which no sound descriptor
leads. `DescriptorsStable` is shown action by action: the calls that look for a
descriptor take a free one, and only `dup3()` changes where an open one leads.

**Trap.** `FramesIntact` compares each frame with what it has to give back, and
a call that returns late stores its result through the pointer it kept. `IInv`
in `TrapProofs` therefore carries a fact about every job on every stack:
`OwnFrame`, the pointer kept over `yield()` or over the console window is the
frame at the depth of the call, whatever `cur_sp` has become meanwhile; and
`InProgress`, for a `read()`, that what it has taken and may still take stays
within what was asked and that, if nobody else stored into `getstr_buf`, the
characters taken are still in it. `ReadGives` follows when the call returns,
cut where `strlen()` stops. The first part of `ReturnsToItsOwn` follows from
`FramesIntact` at the step that pops a frame. The second, that nothing is
lost after the boot, has an invariant of its own, `BootInv`: up to the first
`trap_exit` only `First` has run, and it has no frame but those of ticks and no
handler; after it the kernel runs with interrupts off, for every frame
saved while it did says so, and only a frame of user code or of the console window turns them on. The
proof has one lemma for each way a step changes a stack (push, pop, replace the
top) and one step per action.

**Vm.** `OneOwner` counts the uses of each page, and a count cannot be carried
through a step that moves a page from one use to another. `IInv` in `VmProofs`
says instead that there is a function `own` from pages to uses (`Uses`), of
which each part states one direction for one kind of use: a page on the free
list is owned by its position there (`OwnFree`), the target of an entry in a
root table by that entry (`OwnDirs`), an element of a mapping list by its
process and position (`OwnMappings`), and so on. A page with two uses would
need two values of `own`. Lists change at their heads only, so positions are counted
from the end (`At`) and stay. Two more parts are needed: `TableRows` (pages
used as tables hold pages or 0, so the walk never leaves the tables) and
`CallOK` (the new process of a call is another one than the caller and not live
yet, which of the call's locals hold a page, and which table the walk of
`__map_single_page()` has come to). The store of a failed `execve` is harmless
only where it lands, so the theorem carries `BootOK` along: until
the first program is started the free list is as `freerange()` left it, and
then the root table of process 1 is the last page but one for good; its entry
`FreeNext` is no entry that `TableRows` or a walk looks at.
Each step is then a lemma on how `own` changes, and `OneOwner` is derived at
the end by showing that the claims on a page are exactly its value of `own`.
`ListedIsMapped` is preserved because a step changes the walk of one process at
one address only (the lemmas on paths), while the list changes by that address.

**VmRefines.** The mapping of `AddressSpace` shows spaces of live processes only,
so the step that makes a process live has to know what was built before. `Sees(p, va)` is the
content that `p` reaches at `va`, or nothing. `ExecOK`: there is a file of which some first segments are loaded
(`Loading`), and the new process sees at each page what the last of them
left there, except that the pages entered for the next segment hold zeros. `ForkOK`: the
child sees nothing that its parent does not see, and what it lacks is still on the list. With these the last steps of exec and fork map to
`Exec` and `Fork`, `Store` and `Exit` to their namesakes, and every other step,
the panics included, leaves all spaces of live processes alone. A store reaches
one process because two processes that reach one page would be two owners.

**Heap.** None of the three properties is inductive: whether a store hits another
list depends on where all chunks are, and whether a chunk is large enough on what
lies deeper in its bin. `IInv` in `HeapProofs` has three parts, as long as `malloc()` has
not handed out memory that is not the heap's. `HeapOK`: new chunks come
from the rest of the last page, the others end before it, within their page and
apart; each bin leads through its chunks, no chunk is there twice, and only the
chunk at the top of bin 1 may be too small for a list element. `Roomy`: while
exec or fork is under way even that one is large enough, because both take a
head first, and an `execve` that fails has taken the small chunk, if there was one,
before it frees a small one; this is what `small = 0` rests on. `AllOK`: every
list, the one being taken apart included, is linked as its cells say, and the chunks of two
lists, and of a list and a bin, are different.
Each function of `stdlib.c` and `mlist.c` then has a lemma on what it returns
(a chunk that nobody uses) and on what it leaves alone (`Calm`: all chunks in
use except those of one list keep their words and stay off the bins). These
compose, so the lemma of an action names the calls it makes in their order and
the other lists follow from `Calm`. The `prev` of an element is no part of a
list's invariant, because `mlist_pop()` leaves it pointing at a free chunk; that
is harmless as long as nothing follows it, and nothing does.

**Ahci.** `SuccessMeansTransferred` speaks of the moment of return, when the
adapter is already done, so the proof needs what held before. `IInv` in
`AhciProofs` adds `OneActive` (the only slot that can be active is the one of
the current call, and only while the driver polls and no error is raised) and
`Progress` (that slot's command is the request, and `xfer` counts the sectors
that have moved, each of which is already equal on both sides). With
`OneActive`, a bit that disappears from PxCI without TFES can only have been
completed, and a transfer of an earlier command can never touch `ahci_buf`
again; that also gives `NothingOutstanding`. `MountedSuperblock` rests on an
invariant of its own, `MountInv`: until the kernel is up the medium is as it
was, the two reads are those of `disk_init()` and `ext2_read_superblock()`
(`BootReads`), and each sector of `ahci_buf` holds what they can have brought
to its place, or the zeros it started with (`BootBuffer`); the first check can then
pass only on the bytes of sector 2, the second only on those of sector 2 or,
when nothing was moved, of sector 0. The preservation proofs
have one step per driver and adapter action.

Only model-checked: the liveness properties (`Scheduled`, `WaitAnyReturns`,
`PowersOff`, `AlarmDelivered`, `CallReturns`), since they need fairness and
ENABLED, which the prover does not treat; `Ext2` and `Clib`, whose functions
recur over their data, because what a recursive definition computes for every input
needs an induction the installed provers cannot do; and the counterexamples.

## Not modelled

Listed in `PROJECT.json` with reasons. In short: straight-line boot code, the
build system, the unused `fs/open.c`; the unsorted bin of `malloc`, `calloc`,
the remaining functions of `mlist`, `map` and `bitmap`, the ramdisk and
`close_fd`, which nothing calls; `ext2_read_dir`, a listing for the log;
`memmove`, `memcmp`, `strcasecmp` and the like; the layout of argc, argv, envp and the
auxiliary vector on the user stack; TLB entries and direct-map windows. In
`Proc`, exceptions that only skip an instruction are left out. `Heap` does not follow
what is stored into memory that is not the heap's after a failed `execve`, nor
does `Files`.

## Plan

1. *Done*: `Proc`, `ProcRR`, `Files`, `Ahci`, `Trap`, `Vm` with `AddressSpace`,
   `Heap`, and the proofs of their safety properties.
2. *Done, model-checked*: `Ext2`, `Clib`.
3. The user stack of `exec()`.
4. Composition: `Proc` with `Files` (which calls of which process reach the
   shared table) and `Proc` with `Vm` (fork and exec allocate, nothing frees).
   `Heap` shows already that the mapping lists are what `Vm` takes them for, but not
   as a refinement.
