--------------------------------- MODULE Vm ---------------------------------
(***************************************************************************)
(* Physical pages and address spaces: mm/memblock.c, mm/mm.c, mm/n_vm.c    *)
(* and the part of core/exec.c and core/proc.c that uses them.  Tables and *)
(* user data live in the same memory mem, so a page used twice is visible. *)
(*                                                                         *)
(* fork() and exec() run with interrupts off: between two of their steps   *)
(* no user code runs and no other call.  They are split into the bodies of *)
(* their loops, each of which may find the free list empty.  malloc(),     *)
(* which the mapping lists use, may take a page at any point (Take).       *)
(* Buffers that the file system takes and frees within one call, and the   *)
(* flags of a table entry, which are the same for all pages, are left out. *)
(***************************************************************************)
EXTENDS Integers, Sequences, FiniteSets

CONSTANTS
    PROC_MAX,   \* process slots besides that of the kernel
    NPages,     \* pages that freerange() finds
    Offsets,    \* words of a page, which are also the entries of a table
    RootIndex,  \* the entries of a root table that user addresses select
    VAs,        \* user pages, each the triple of its three table indices
    Words,      \* what user code stores and program files hold
    Images,     \* program files: sequences of segments
    StackPage,  \* USER_STACK_TOP - PG_SIZE
    ContextWords,   \* where sp and ra of the context lie on StackPage
    FreeNext,   \* the word 16 bytes before the end of a page
    MaxTaken    \* bound: pages taken for other purposes than address spaces

ASSUME SizesVmAssumption == PROC_MAX \in Nat \ {0} /\ NPages \in Nat /\ MaxTaken \in Nat
ASSUME IndexAssumption ==
    /\ RootIndex \subseteq Offsets /\ FreeNext \in Offsets \ RootIndex
    /\ ContextWords \subseteq Offsets
    /\ StackPage \in VAs /\ VAs \subseteq RootIndex \X Offsets \X Offsets
ASSUME WordsAssumption == 0 \in Words /\ Words \subseteq Int

(* A segment: the pages from start to end, and the bytes of the file that  *)
(* copy_to_va() writes to them, which need not cover a page.  exec() maps  *)
(* the user stack, with arguments and frames, after the segments.          *)
PartialRows == UNION {[written -> Words] : written \in SUBSET Offsets}
Segments == [pages : Seq(VAs), bytes : [VAs -> PartialRows]]
PagesIn(segment) == {segment.pages[j] : j \in DOMAIN segment.pages}
ASSUME ImagesAssumption ==
    /\ Images \subseteq Seq(Segments)
    /\ \A image \in Images : image # <<>> /\ StackPage \in PagesIn(image[Len(image)])

Procs == 1..PROC_MAX
Kproc == 0
Pages == 1..NPages
Null == 0
Junk == -1      \* the fill patterns of kalloc and kfree
Foreign == -2   \* the address of a chunk of the kernel's heap

VARIABLES
    freelist,       \* kmem.freelist, first page first
    mem,            \* mem[pg][i]: a table entry or a word; Junk if free or taken
    taken,          \* pages kept by mmap, malloc, open and descriptor tables
    used,           \* slots with allocs = USED
    live,           \* processes that can run
    pgtbl,          \* p->pgtbl
    mapping_list,   \* p->mapping_list, head first
    pc,             \* where the call in progress is
    caller, np,     \* the calling process and the new one
    segments, k,    \* exec: segments still to load, next page of the first
    old_list,       \* copy_pagetable: the mappings of the caller still to copy
    info,           \* the mapping being entered; info.pa is the caller's page
    new_mem,        \* the page being mapped
    iter_pagetable, level   \* __map_single_page

pages == <<freelist, mem, taken>>
procs == <<used, live, pgtbl, mapping_list>>
call == <<caller, np, segments, k, old_list>>
single == <<info, new_mem, iter_pagetable, level>>
vars == <<pages, procs, pc, call, single>>

NoMapping == [va |-> StackPage, pa |-> Null]
Mappings == [va : VAs, pa : Pages]
JunkRow == [i \in Offsets |-> Junk]
ZeroRow == [i \in Offsets |-> 0]

(* pmm_init(): freerange() frees the pages in ascending order, so the list *)
(* starts with the last one.                                               *)
Init ==
    /\ freelist = [n \in Pages |-> NPages + 1 - n]
    /\ mem = [pg \in Pages |-> JunkRow]
    /\ taken = {}
    /\ used = {} /\ live = {}
    /\ pgtbl = [p \in Procs |-> Null]
    /\ mapping_list = [p \in Procs |-> <<>>]
    /\ pc = "idle"
    /\ caller = Kproc /\ np = Kproc
    /\ segments = <<>> /\ k = 1
    /\ old_list = <<>>
    /\ info = NoMapping /\ new_mem = Null /\ iter_pagetable = Null /\ level = 0

(* PX(): the index of page va at a level.                                  *)
PX(l, va) == va[3 - l]

(* va_to_pa(), and what the hardware finds in handle_tlbr; Null if the     *)
(* page is not mapped.                                                     *)
Entry(m, table, i) == IF table = Null THEN Null ELSE m[table][i]
va_to_pa(m, root, va) ==
    Entry(m, Entry(m, Entry(m, root, PX(2, va)), PX(1, va)), PX(0, va))

(* memmove() to a page, and copy_to_va() within one: it gives up on a page *)
(* that is not mapped.                                                     *)
Overlay(row, bytes) == [i \in Offsets |-> IF i \in DOMAIN bytes THEN bytes[i] ELSE row[i]]
copy_to_va(m, root, va, bytes) ==
    LET pa0 == va_to_pa(m, root, va) IN
    IF pa0 = Null THEN m ELSE [m EXCEPT ![pa0] = Overlay(@, bytes)]

-----------------------------------------------------------------------------
(* kmalloc() takes the head of the list, kfree() pushes; kmalloc() panics  *)
(* on an empty list.                                                       *)
Page == Head(freelist)
kmalloc == freelist # <<>> /\ freelist' = Tail(freelist)

(* proc_alloc(): a page for the descriptor table, which stays allocated    *)
(* although fork() and exec() replace the pointer, then the root table.    *)
FirstUnused(p) == p \notin used /\ \A q \in 1..(p - 1) : q \in used
Forgotten(p) == used                \* variant: allocs not set
Marked(p) == used \union {p}
proc_alloc(p) ==
    /\ FirstUnused(p) /\ Len(freelist) >= 2
    /\ taken' = taken \union {freelist[1]}
    /\ pgtbl' = [pgtbl EXCEPT ![p] = freelist[2]]
    /\ mem' = [mem EXCEPT ![freelist[2]] = ZeroRow]
    /\ freelist' = Tail(Tail(freelist))
    /\ used' = Marked(p)

(* The kernel starts the first program; after that only processes call.    *)
MayExec(c) == c \in live \/ (c = Kproc /\ used = {})

(* exec(), up to the loop of elf_loader().                                 *)
ExecStart(c) ==
    /\ pc = "idle" /\ MayExec(c)
    /\ \E p \in Procs, image \in Images :
        /\ proc_alloc(p)
        /\ np' = p /\ caller' = c
        /\ mapping_list' = [mapping_list EXCEPT ![p] = <<>>]
        /\ segments' = image /\ k' = 1
    /\ pc' = "exec"
    /\ UNCHANGED <<live, old_list, single>>

(* elf_loader() fails only in openat(), so pgtbl_free() finds an empty     *)
(* mapping list and an empty root table, which it frees.  proc_free()      *)
(* leaves the pointer in the slot.  Its free(fdtable) takes the descriptor *)
(* table that all processes share for a chunk of malloc(): the link to the *)
(* next chunk goes 16 bytes before it.  That table is the first page that  *)
(* was ever given out, and the page before it the root table of process 1. *)
RootLost == Tail(Tail(freelist))    \* variant: no kfree() of the root table
RootFreed == <<freelist[2]>> \o Tail(Tail(freelist))
ExecFails(c) ==
    /\ pc = "idle" /\ c \in live
    /\ Cardinality(taken) < MaxTaken
    /\ Len(freelist) >= 2
    /\ \E p \in Procs :
        /\ FirstUnused(p)
        /\ pgtbl' = [pgtbl EXCEPT ![p] = freelist[2]]
        /\ mapping_list' = [mapping_list EXCEPT ![p] = <<>>]
    /\ taken' = taken \union {Head(freelist)}
    /\ freelist' = RootFreed
    /\ \E next \in {Null, Foreign} : mem' = [mem EXCEPT ![NPages - 1][FreeNext] = next]
    /\ UNCHANGED <<used, live, pc, call, single>>

(* One round of the loop of alloc_vm(), up to __map_single_page().         *)
AllocPage ==
    /\ pc = "exec" /\ segments # <<>> /\ k <= Len(Head(segments).pages)
    /\ kmalloc /\ new_mem' = Page
    /\ mem' = [mem EXCEPT ![Page] = ZeroRow]
    /\ info' = [va |-> Head(segments).pages[k], pa |-> Null]
    /\ iter_pagetable' = pgtbl[np] /\ level' = 2
    /\ k' = k + 1
    /\ pc' = "execmap"
    /\ UNCHANGED <<taken, procs, caller, np, segments, old_list>>

(* copy_to_va() of the segment, page by page, or of the arguments and      *)
(* frames to the stack: bytes that the file does not have stay.            *)
LiesAt(pg, va) == va_to_pa(mem, pgtbl[np], va) = pg
LoadSegment ==
    /\ pc = "exec" /\ segments # <<>> /\ k > Len(Head(segments).pages)
    /\ LET segment == Head(segments) IN
        mem' = [pg \in Pages |->
            IF \E va \in PagesIn(segment) : LiesAt(pg, va)
            THEN Overlay(mem[pg], segment.bytes[CHOOSE va \in PagesIn(segment) : LiesAt(pg, va)])
            ELSE mem[pg]]
    /\ segments' = Tail(segments) /\ k' = 1
    /\ UNCHANGED <<freelist, taken, procs, pc, caller, np, old_list, single>>

(* The end of exec().  The caller of sys_execve() is KILLED but runs until *)
(* the next tick, so it stays live until its Exit.                         *)
ExecDone ==
    /\ pc = "exec" /\ segments = <<>>
    /\ live' = live \union {np}
    /\ pc' = "idle" /\ caller' = Kproc /\ np' = Kproc
    /\ UNCHANGED <<pages, used, pgtbl, mapping_list, segments, k, old_list, single>>

-----------------------------------------------------------------------------
(* fork(), up to the loop of copy_pagetable().                             *)
ForkStart(p) ==
    /\ pc = "idle" /\ p \in live
    /\ \E q \in Procs :
        /\ proc_alloc(q)
        /\ np' = q
        /\ mapping_list' = [mapping_list EXCEPT ![p] = <<>>, ![q] = <<>>]
    /\ caller' = p
    /\ old_list' = mapping_list[p]
    /\ pc' = "fork"
    /\ UNCHANGED <<live, segments, k, single>>

(* What copy_from_va() reads for a mapping of the caller.                  *)
ByListedPage(mapping) == mapping.pa     \* variant: the listed page
CopiedFrom(mapping) == va_to_pa(mem, pgtbl[caller], mapping.va)

(* One round of the loop of copy_pagetable(), up to __map_single_page().   *)
CopyPage ==
    /\ pc = "fork" /\ old_list # <<>>
    /\ kmalloc /\ new_mem' = Page
    /\ info' = Head(old_list) /\ old_list' = Tail(old_list)
    /\ LET pa0 == CopiedFrom(Head(old_list)) IN
        mem' = [mem EXCEPT ![Page] = IF pa0 = Null THEN ZeroRow ELSE mem[pa0]]
    /\ iter_pagetable' = pgtbl[np] /\ level' = 2
    /\ pc' = "forkmap"
    /\ UNCHANGED <<taken, procs, caller, np, segments, k>>

(* The end of fork(): a0 in the trap frame of the child, which lies where  *)
(* the stack pointer of the caller was, is cleared; then the context of    *)
(* the child gets its sp and ra.                                           *)
ForkDone ==
    /\ pc = "fork" /\ old_list = <<>>
    /\ \E va \in VAs, a0 \in Offsets, context \in [ContextWords -> Words] :
        mem' = copy_to_va(copy_to_va(mem, pgtbl[np], va, [i \in {a0} |-> 0]),
                          pgtbl[np], StackPage, context)
    /\ live' = live \union {np}
    /\ pc' = "idle" /\ caller' = Kproc /\ np' = Kproc
    /\ UNCHANGED <<freelist, taken, used, pgtbl, mapping_list, segments, k, old_list, single>>

-----------------------------------------------------------------------------
(* One round of the loop of __map_single_page().                           *)
Mapping == pc \in {"execmap", "forkmap"}
Here == PX(level, info.va)
Descend ==
    /\ Mapping /\ level > 0
    /\ mem[iter_pagetable][Here] # Null
    /\ iter_pagetable' = mem[iter_pagetable][Here]
    /\ level' = level - 1
    /\ UNCHANGED <<pages, procs, pc, call, info, new_mem>>
NewTable ==
    /\ Mapping /\ level > 0
    /\ mem[iter_pagetable][Here] = Null
    /\ kmalloc /\ iter_pagetable' = Page
    /\ mem' = [mem EXCEPT ![Page] = ZeroRow,
                          ![iter_pagetable][Here] = Page]
    /\ level' = level - 1
    /\ UNCHANGED <<taken, procs, pc, call, info, new_mem>>

(* The leaf entry, then __proc_add_mapping(): in alloc_vm() for the new    *)
(* process, in copy_pagetable() also to give the caller its mapping back.  *)
Push(mapping, s) == <<mapping>> \o s
Mapped == [mem EXCEPT ![iter_pagetable][Here] = new_mem]
PushExec == [mapping_list EXCEPT ![np] = Push([va |-> info.va, pa |-> new_mem], @)]
NotGivenBack ==                         \* variant: the caller's mapping is dropped
    [mapping_list EXCEPT
        ![np] = Push([va |-> info.va, pa |-> va_to_pa(Mapped, pgtbl[np], info.va)], @)]
PushFork ==
    [mapping_list EXCEPT
        ![caller] = Push(info, @),
        ![np] = Push([va |-> info.va, pa |-> va_to_pa(Mapped, pgtbl[np], info.va)], @)]
MapLeaf ==
    /\ Mapping /\ level = 0
    /\ mem' = Mapped
    /\ mapping_list' = IF pc = "execmap" THEN PushExec ELSE PushFork
    /\ pc' = IF pc = "execmap" THEN "exec" ELSE "fork"
    /\ info' = NoMapping /\ new_mem' = Null /\ iter_pagetable' = Null
    /\ UNCHANGED <<freelist, taken, used, live, pgtbl, call, level>>

-----------------------------------------------------------------------------
(* User code writes a word through its table; so do trap_entry and swtch,  *)
(* which save the registers of a process on its own stack.                 *)
Store(p, va, i, w) ==
    /\ pc = "idle" /\ p \in live
    /\ va_to_pa(mem, pgtbl[p], va) # Null
    /\ mem' = [mem EXCEPT ![va_to_pa(mem, pgtbl[p], va)][i] = w]
    /\ UNCHANGED <<freelist, taken, procs, pc, call, single>>

(* p stops running, by exit() or at the tick that follows its execve():    *)
(* nothing is freed, and the slot stays in use.                            *)
Exit(p) ==
    /\ pc = "idle" /\ p \in live
    /\ live' = live \ {p}
    /\ UNCHANGED <<pages, used, pgtbl, mapping_list, pc, call, single>>

(* sys_mmap(), open() and the growth of the heap: never given back.        *)
Take ==
    /\ pc # "panic" /\ used # {}
    /\ Cardinality(taken) < MaxTaken
    /\ kmalloc /\ taken' = taken \union {Page}
    /\ UNCHANGED <<mem, procs, pc, call, single>>

(* The panic of kalloc_page_memblock(), wherever a page is asked for.      *)
WantsPage ==
    \/ pc = "idle" /\ Len(freelist) < 2
       /\ (\E c \in live \union {Kproc} : MayExec(c)) /\ \E p \in Procs : FirstUnused(p)
    \/ freelist = <<>>
       /\ \/ pc = "exec" /\ segments # <<>> /\ k <= Len(Head(segments).pages)
          \/ pc = "fork" /\ old_list # <<>>
          \/ Mapping /\ level > 0 /\ mem[iter_pagetable][Here] = Null
KallocPanics ==
    /\ WantsPage
    /\ pc' = "panic"
    /\ UNCHANGED <<pages, procs, call, single>>

(* The panic of kmalloc() on a request for more than a page.               *)
MmapPanics ==
    /\ pc = "idle" /\ live # {}
    /\ pc' = "panic"
    /\ UNCHANGED <<pages, procs, call, single>>

(* After a panic, or when nothing can run any more.                        *)
Halted ==
    /\ pc = "panic" \/ (pc = "idle" /\ live = {} /\ used # {})
    /\ UNCHANGED vars

Next ==
    \/ AllocPage \/ LoadSegment \/ ExecDone
    \/ CopyPage \/ ForkDone
    \/ Descend \/ NewTable \/ MapLeaf
    \/ \E c \in Procs \union {Kproc} : ExecStart(c) \/ ExecFails(c)
    \/ \E p \in Procs : ForkStart(p) \/ Exit(p)
    \/ \E p \in Procs, va \in VAs, i \in Offsets, w \in Words : Store(p, va, i, w)
    \/ Take \/ KallocPanics \/ MmapPanics \/ Halted

Spec == Init /\ [][Next]_vars

-----------------------------------------------------------------------------
(* PROPERTIES                                                              *)

(* Every variable keeps its type: table entries and words are pages or     *)
(* words, lists hold mappings, and the call in progress is consistent.     *)
TypeOK ==
    /\ freelist \in Seq(Pages) /\ taken \subseteq Pages
    /\ mem \in [Pages -> [Offsets -> Pages \union Words \union {Null, Junk, Foreign}]]
    /\ used \subseteq Procs /\ live \subseteq used
    /\ pgtbl \in [Procs -> Pages \union {Null}]
    /\ mapping_list \in [Procs -> Seq(Mappings)]
    /\ pc \in {"idle", "exec", "execmap", "fork", "forkmap", "panic"}
    /\ caller \in Procs \union {Kproc} /\ np \in used \union {Kproc}
    /\ segments \in Seq(Segments) /\ k \in Nat \ {0}
    /\ old_list \in Seq(Mappings)
    /\ info \in [va : VAs, pa : Pages \union {Null}]
    /\ new_mem \in Pages \union {Null}
    /\ iter_pagetable \in Pages \union {Null}
    /\ level \in 0..2

(* The claims on pages: each is a page, a kind of use and the place of it. *)
(* A root table claims pages by the entries that user addresses select.    *)
Entries(tables, indices) ==
    UNION {{<<t, i>> : i \in {j \in indices : mem[t][j] # Null}} : t \in tables}
Roots == {pgtbl[p] : p \in used}
Dirs == {mem[e[1]][e[2]] : e \in Entries(Roots, RootIndex)}
Held == IF info.pa = Null THEN {} ELSE {info}
InList(s) == {<<n, s[n]>> : n \in DOMAIN s}
Claims ==
    {<<f[2], "free", f[1]>> : f \in InList(freelist)}
    \union {<<pg, "taken", 0>> : pg \in taken}
    \union {<<pgtbl[p], "root", p>> : p \in used}
    \union {<<mem[e[1]][e[2]], "directory", e>> : e \in Entries(Roots, RootIndex)}
    \union {<<mem[e[1]][e[2]], "table", e>> : e \in Entries(Dirs, Offsets)}
    \union (UNION {{<<e[2].pa, "mapping", <<p, e[1]>>>> : e \in InList(mapping_list[p])} : p \in used})
    \union {<<e[2].pa, "old", e[1]>> : e \in InList(old_list)}
    \union {<<m.pa, "info", 0>> : m \in Held}
    \union {<<pg, "new", 0>> : pg \in {new_mem} \ {Null}}

(* Every page has exactly one use, at every step of fork() and exec(): it  *)
(* is free, a table of one process at one place, listed as user memory     *)
(* once, in the hands of the call in progress, or taken.  Nothing is lost, *)
(* and no page is a table and user memory at once.                         *)
OneOwner == \A pg \in Pages : Cardinality({c \in Claims : c[1] = pg}) = 1

(* What a process can reach through its table is on its mapping list (or,  *)
(* during its fork(), on the part still to be copied), and every page on   *)
(* the list is mapped: this is what makes copy_pagetable() complete, also  *)
(* where segments overlap and a page was replaced.                         *)
ListOf(p) ==
    {e[2] : e \in InList(mapping_list[p])}
    \union (IF p = caller THEN {e[2] : e \in InList(old_list)} \union Held ELSE {})
ListedIsMapped ==
    \A p \in used, va \in VAs :
        LET pa == va_to_pa(mem, pgtbl[p], va)
            listed == {m \in ListOf(p) : m.va = va}
        IN IF pa = Null THEN listed = {} ELSE [va |-> va, pa |-> pa] \in listed

(* What elf_loader() makes of a file: a page holds the bytes that the last *)
(* segment on it has there, and zeros; those of earlier segments are lost, *)
(* because alloc_vm() replaces the page.                                   *)
PagesOf(image) == UNION {PagesIn(image[n]) : n \in DOMAIN image}
LastOn(image, va) ==
    CHOOSE n \in DOMAIN image :
        /\ va \in PagesIn(image[n])
        /\ \A l \in DOMAIN image : va \in PagesIn(image[l]) => l <= n
Loaded(image) ==
    [va \in PagesOf(image) |-> Overlay(ZeroRow, image[LastOn(image, va)].bytes[va])]
Programs == {Loaded(image) : image \in Images}

(* Processes have private address spaces: fork() copies the whole space of *)
(* the caller and changes only the result and the context of the child,    *)
(* execve() maps the pages of the file, each with what its last segment    *)
(* holds, and nothing else, pages taken and failed calls leave all spaces  *)
(* alone, and a store reaches one process only.                            *)
SpaceOf(p) ==
    [va \in {v \in VAs : p \in live /\ va_to_pa(mem, pgtbl[p], v) # Null} |->
        mem[va_to_pa(mem, pgtbl[p], va)]]
AS == INSTANCE AddressSpace WITH space <- [p \in Procs |-> SpaceOf(p)]
PrivateSpaces == AS!ASSpec

-----------------------------------------------------------------------------
(* What the code means to do and does not.                                 *)

(* A loaded program has every byte of its file.  On a page of two segments *)
(* those of the first are lost.                                            *)
FileLoaded ==
    [][ExecDone => \E image \in Images : \A n \in DOMAIN image : \A va \in PagesIn(image[n]) :
        \A i \in DOMAIN image[n].bytes[va] :
            mem[va_to_pa(mem, pgtbl[np], va)][i] = image[n].bytes[va][i]]_vars

(* A root table holds page tables and nothing else.  The free() of a       *)
(* failed execve() stores a link into that of process 1.                   *)
CleanRoots == \A p \in used, i \in Offsets : mem[pgtbl[p]][i] \in Pages \union {Null}

=============================================================================
