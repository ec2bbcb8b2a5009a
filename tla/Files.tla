------------------------------- MODULE Files --------------------------------
(***************************************************************************)
(* The descriptor layer, fs/ext2_fs.c: the table fds[] of open files and   *)
(* the descriptor table.  fork() and exec() copy the pointer fdtable, so   *)
(* every user process works on the table of the first one; a call runs     *)
(* with interrupts off, so calls of different processes do not overlap.    *)
(* read(), write() and lseek() change none of this state: read() takes the *)
(* inode its descriptor leads to, or the console when that is fds[STDIN].  *)
(***************************************************************************)
EXTENDS Integers, FiniteSets

CONSTANTS
    MAX_FDTABLE,    \* descriptors of a process
    MAX_FILES,      \* entries of fds[]
    NStd,           \* STDIN, STDOUT and STDERR: 3 in the code
    Inodes,         \* files ext2_path_lookup() can find
    SetfdArgs,      \* arguments user code gives to fcntl(F_SETFD)
    MaxRef          \* bound: a call that would take |refcount| past it is not made

(* fcntl(F_DUPFD) scans the descriptor table up to MAX_FILES.              *)
ASSUME SizesAssumption ==
    MAX_FDTABLE \in Nat /\ MAX_FILES \in 1..MAX_FDTABLE /\ NStd \in 0..MAX_FILES
ASSUME SetfdAssumption == SetfdArgs \subseteq Int
ASSUME MaxRefAssumption == MaxRef \in Nat

Fd == 0..(MAX_FDTABLE - 1)
File == 0..(MAX_FILES - 1)
Std == 0..(NStd - 1)
Console == "console"    \* what the standard entries stand for; not an inode

VARIABLES
    busy,       \* fdtable[fd].busy
    fds_index,  \* fdtable[fd].fds_index
    alloc,      \* fds[x].alloc
    refcount,   \* fds[x].refcount
    f_inode,    \* fds[x].f_inode
    f_pipe,     \* 1 if fds[x].f_flags has FILE_PIPE_FLAGS, else 0
    panicked,   \* the message of the panic() that stopped the kernel, or "no"
    opened,     \* history: the file that open() was asked for when fd's entry began
    uncounted,  \* history: references to x made, less dropped, without refcount
    dangling    \* history: open descriptors whose entry close() freed under them

table == <<busy, fds_index>>
files == <<alloc, refcount, f_inode, f_pipe>>
history == <<opened, uncounted, dangling>>
vars == <<table, files, panicked, history>>

(* fs_init() and fdtable_alloc().                                          *)
Init ==
    /\ busy = [fd \in Fd |-> IF fd \in Std THEN 1 ELSE 0]
    /\ fds_index = [fd \in Fd |-> IF fd \in Std THEN fd ELSE 0]
    /\ alloc = [x \in File |-> IF x \in Std THEN 1 ELSE 0]
    /\ refcount = [x \in File |-> 0]
    /\ f_inode = [x \in File |-> Console]
    /\ f_pipe = [x \in File |-> 0]
    /\ panicked = "no"
    /\ opened = [fd \in Fd |-> Console]
    /\ uncounted = [x \in File |-> IF x \in Std THEN 1 ELSE 0]
    /\ dangling = {}

Running == panicked = "no"
Panics(message) ==
    /\ panicked' = message
    /\ UNCHANGED <<table, files, history>>

(* fd_invaild(), negated.  fd_to_fds() is only called for valid            *)
(* descriptors, so its own panic() is not reached.                         *)
Valid(fd) == busy[fd] # 0

(* The first free descriptor from lo on, and the entry alloc_fds() takes.  *)
FirstFromLo(lo, fd) == fd >= lo /\ \A g \in lo..(fd - 1) : busy[g] # 0     \* variant: busy not tested
FirstFree(lo, fd) == busy[fd] = 0 /\ FirstFromLo(lo, fd)
AnyEntry(x) == \A y \in File : y < x => alloc[y] = 1      \* variant: alloc not tested
FirstUnallocated(x) == alloc[x] = 0 /\ AnyEntry(x)
NoFd == \A fd \in Fd : busy[fd] # 0
NoFile == \A x \in File : alloc[x] = 1

-----------------------------------------------------------------------------
(* open(): refcount is left as it is.  Without a free descriptor or inode  *)
(* the call returns -1.                                                    *)
Open(i, pipe) ==
    /\ Running
    /\ \E fd \in Fd, x \in File :
        /\ FirstFree(0, fd) /\ FirstUnallocated(x)
        /\ busy' = [busy EXCEPT ![fd] = 1]
        /\ fds_index' = [fds_index EXCEPT ![fd] = x]
        /\ alloc' = [alloc EXCEPT ![x] = 1]
        /\ f_inode' = [f_inode EXCEPT ![x] = i]
        /\ f_pipe' = [f_pipe EXCEPT ![x] = pipe]
        /\ opened' = [opened EXCEPT ![fd] = i]
        /\ uncounted' = [uncounted EXCEPT ![x] = @ + 1]
    /\ UNCHANGED <<refcount, panicked, dangling>>
OpenPanics == Running /\ ~NoFd /\ NoFile /\ Panics("alloc_fds")

(* close(), as the values it leaves: dup3() goes on from them.             *)
Dropped(fd) == [refcount EXCEPT ![fds_index[fd]] = @ - 1]
DroppedTwice(fd) == [refcount EXCEPT ![fds_index[fd]] = @ - 2]      \* variant
CloseCount(fd) == Dropped(fd)
CloseFrees(fd) == LET x == fds_index[fd] IN CloseCount(fd)[x] = 0 /\ f_pipe[x] = 0
CloseAlloc(fd) == IF CloseFrees(fd) THEN [alloc EXCEPT ![fds_index[fd]] = 0] ELSE alloc
CloseBusy(fd) == [busy EXCEPT ![fd] = 0]
CloseDangling(fd) ==
    (dangling \union {g \in Fd : CloseFrees(fd) /\ busy[g] # 0 /\ fds_index[g] = fds_index[fd]})
        \ {fd}

(* The panic() of free_fds().                                              *)
FreePanics(fd) == CloseFrees(fd) /\ alloc[fds_index[fd]] # 1

Close(fd) ==
    /\ Running /\ Valid(fd) /\ ~FreePanics(fd)
    /\ refcount[fds_index[fd]] > -MaxRef
    /\ refcount' = CloseCount(fd)
    /\ alloc' = CloseAlloc(fd)
    /\ busy' = CloseBusy(fd)
    /\ opened' = [opened EXCEPT ![fd] = Console]
    /\ dangling' = CloseDangling(fd)
    /\ UNCHANGED <<fds_index, f_inode, f_pipe, panicked, uncounted>>
ClosePanics(fd) ==
    /\ Running /\ Valid(fd) /\ FreePanics(fd)
    /\ Panics("free_fds")

(* dup(): -1 without a free descriptor.                                    *)
Inherit(d, oldfd, newfd) == IF oldfd \in d THEN d \union {newfd} ELSE d \ {newfd}
CountDup(count, x) == [count EXCEPT ![x] = @ + 1]
ForgetDup(count, x) == count                \* variant: refcount += 1 missing
DupCount(count, x) == CountDup(count, x)
Dup(oldfd) ==
    /\ Running /\ Valid(oldfd)
    /\ refcount[fds_index[oldfd]] < MaxRef
    /\ \E fd \in Fd :
        /\ FirstFree(0, fd)
        /\ fds_index' = [fds_index EXCEPT ![fd] = fds_index[oldfd]]
        /\ busy' = [busy EXCEPT ![fd] = 1]
        /\ opened' = [opened EXCEPT ![fd] = opened[oldfd]]
        /\ dangling' = Inherit(dangling, oldfd, fd)
    /\ refcount' = DupCount(refcount, fds_index[oldfd])
    /\ UNCHANGED <<alloc, f_inode, f_pipe, panicked, uncounted>>
DupPanics(oldfd) == Running /\ ~Valid(oldfd) /\ Panics("bad_oldfd")

(* dup3(): a newfd with busy = 1 is closed first, which may free the very  *)
(* entry oldfd leads to; any other open newfd is overwritten.  O_CLOEXEC   *)
(* makes busy 1 | FD_CLOEXEC, that is 1.                                   *)
Dup3Entry(oldfd, newfd) ==
    /\ busy' = [busy EXCEPT ![newfd] = 1]
    /\ fds_index' = [fds_index EXCEPT ![newfd] = fds_index[oldfd]]
    /\ opened' = [opened EXCEPT ![newfd] = opened[oldfd]]
Dup3(oldfd, newfd) ==
    /\ Running /\ oldfd # newfd /\ Valid(oldfd)
    /\ Dup3Entry(oldfd, newfd)
    /\ refcount[fds_index[oldfd]] < MaxRef
    /\ \/ /\ busy[newfd] = 0
          /\ refcount' = DupCount(refcount, fds_index[oldfd])
          /\ dangling' = Inherit(dangling, oldfd, newfd)
          /\ UNCHANGED <<alloc, uncounted>>
       \/ /\ busy[newfd] \notin {0, 1}
          /\ refcount' = DupCount(refcount, fds_index[oldfd])
          /\ uncounted' = [uncounted EXCEPT ![fds_index[newfd]] = @ - 1]
          /\ dangling' = Inherit(dangling, oldfd, newfd)
          /\ UNCHANGED alloc
       \/ /\ busy[newfd] = 1 /\ ~FreePanics(newfd)
          /\ refcount[fds_index[newfd]] > -MaxRef
          /\ refcount' = DupCount(CloseCount(newfd), fds_index[oldfd])
          /\ alloc' = CloseAlloc(newfd)
          /\ dangling' = Inherit(CloseDangling(newfd), oldfd, newfd)
          /\ UNCHANGED uncounted
    /\ UNCHANGED <<f_inode, f_pipe, panicked>>
Dup3Panics(oldfd, newfd) ==
    \/ Running /\ oldfd # newfd /\ ~Valid(oldfd) /\ Panics("bad_oldfd")
    \/ oldfd # newfd /\ Valid(oldfd) /\ busy[newfd] = 1 /\ ClosePanics(newfd)

(* fcntl(F_DUPFD) copies the entry without counting it; fcntl(F_SETFD)     *)
(* stores its argument in busy.                                            *)
FcntlDupfd(fd, arg) ==
    /\ Running /\ Valid(fd)
    /\ \E g \in Fd :
        /\ g < MAX_FILES /\ FirstFree(arg, g)
        /\ busy' = [busy EXCEPT ![g] = busy[fd]]
        /\ fds_index' = [fds_index EXCEPT ![g] = fds_index[fd]]
        /\ opened' = [opened EXCEPT ![g] = opened[fd]]
        /\ dangling' = Inherit(dangling, fd, g)
    /\ uncounted' = [uncounted EXCEPT ![fds_index[fd]] = @ + 1]
    /\ UNCHANGED <<files, panicked>>
FcntlSetfd(fd, arg) ==
    /\ Running /\ Valid(fd)
    /\ busy' = [busy EXCEPT ![fd] = arg]
    /\ IF arg = 0
       THEN /\ uncounted' = [uncounted EXCEPT ![fds_index[fd]] = @ - 1]
            /\ opened' = [opened EXCEPT ![fd] = Console]
            /\ dangling' = dangling \ {fd}
       ELSE UNCHANGED history
    /\ UNCHANGED <<fds_index, files, panicked>>

(* After a panic nothing runs; before it, some call returns without effect. *)
Halted == ~Running /\ UNCHANGED vars

Next ==
    \/ \E i \in Inodes, pipe \in {0, 1} : Open(i, pipe)
    \/ OpenPanics
    \/ \E fd \in Fd :
        \/ Close(fd) \/ ClosePanics(fd)
        \/ Dup(fd) \/ DupPanics(fd)
        \/ \E arg \in SetfdArgs : FcntlSetfd(fd, arg)
        \/ \E arg \in Fd : FcntlDupfd(fd, arg)
        \/ \E newfd \in Fd : Dup3(fd, newfd) \/ Dup3Panics(fd, newfd)
    \/ Halted

Spec == Init /\ [][Next]_vars

-----------------------------------------------------------------------------
(* Properties.                                                             *)

TypeOK ==
    /\ busy \in [Fd -> {0, 1} \union SetfdArgs]
    /\ fds_index \in [Fd -> File]
    /\ alloc \in [File -> {0, 1}]
    /\ refcount \in [File -> (-MaxRef)..MaxRef]
    /\ f_inode \in [File -> Inodes \union {Console}]
    /\ f_pipe \in [File -> {0, 1}]
    /\ panicked \in {"no", "alloc_fds", "free_fds", "bad_oldfd"}
    /\ opened \in [Fd -> Inodes \union {Console}]
    /\ uncounted \in [File -> Int]
    /\ dangling \subseteq Fd

(* The conservation law of refcount: it is the number of descriptors that  *)
(* lead to the entry, short by one for each open(), F_DUPFD and boot entry *)
(* (close() does not tell them apart).                                     *)
References(x) == Cardinality({fd \in Fd : busy[fd] # 0 /\ fds_index[fd] = x})
RefcountLaw == \A x \in File : refcount[x] = References(x) - uncounted[x]

(* An open descriptor leads to an allocated entry that holds the inode it  *)
(* was opened for, unless close() freed the entry under it: the premature  *)
(* free is the only way to another file's inode.                           *)
LeadsToOpened ==
    \A fd \in Fd : busy[fd] # 0 /\ fd \notin dangling =>
        alloc[fds_index[fd]] = 1 /\ f_inode[fds_index[fd]] = opened[fd]

(* No call redirects a descriptor that stays open, dup3() of its target    *)
(* excepted.                                                               *)
DescriptorsStable ==
    [][\A fd \in Fd : busy[fd] # 0 /\ busy'[fd] # 0 /\ fds_index'[fd] # fds_index[fd] =>
        \E oldfd \in Fd \ {fd} : Dup3(oldfd, fd)]_vars

(* free_fds() asserts that the entry is allocated.                         *)
NoFreePanic == panicked # "free_fds"

(* fds[STDIN], fds[STDOUT] and fds[STDERR] are the console, as fs_init()   *)
(* says and as read() and write() take for granted.                        *)
StdIsConsole == \A x \in Std : alloc[x] = 1 => f_inode[x] = Console

=============================================================================
