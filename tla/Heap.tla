-------------------------------- MODULE Heap --------------------------------
(***************************************************************************)
(* The kernel heap (malloc() and free() of lolibc/stdlib.c) and the linked *)
(* lists of lolibc/struct/mlist.c in it, as fork() and exec() use them for *)
(* the mapping lists of the processes.  Memory is an array of words of 8   *)
(* bytes, so that a store past the end of a chunk reaches its neighbour.   *)
(* Vm takes these lists for sequences; here they are shown to be ones.     *)
(*                                                                         *)
(* What happens after malloc() hands out memory that is not the heap's is  *)
(* not followed (foreign).                                                 *)
(***************************************************************************)
EXTENDS Integers, Sequences, FiniteSets

CONSTANTS
    Procs,          \* process slots besides that of the kernel
    PG_SIZE,        \* words of a page
    HeapPages,      \* bound: pages that the heap takes
    MaxMap,         \* bound: pages of a new program
    MaxPa,          \* bound: pages mapped altogether
    MaxFailed       \* bound: failed execve() calls

ASSUME HeapSizes ==
    /\ PG_SIZE \in Nat /\ HeapPages \in Nat \ {0} /\ MaxMap \in Nat /\ MaxPa \in Nat
    /\ MaxFailed \in Nat /\ PG_SIZE > 8
ASSUME HeapProcs == Procs \subseteq Nat \ {0}

Null == 0
Foreign == -1                       \* a chunk address outside the heap
Addr == 0..((HeapPages + 1) * PG_SIZE)
Bins == 0..10

(* Words of struct mlist, mlist_element, mapping and of a chunk's header.  *)
HeadSize == 2
ElemSize == 3
MappingSize == 4
chunk_info_size == 2

VARIABLES
    h,              \* the heap, see NewHeap
    mapping_list,   \* p->mapping_list
    used,           \* slots with allocs = USED
    pc,             \* where the call in progress is
    caller, np,     \* the calling process and the new one
    want,           \* exec: pages still to map
    old_list,       \* copy_pagetable: the list being taken apart
    pages,          \* pages handed out for user memory so far
    lists, old,     \* history: the lists as sequences of cells, see Cell
    failed          \* history: failed execve() calls

vars == <<h, mapping_list, used, pc, caller, np, want, old_list, pages, lists, old, failed>>

(* The words of memory, the bins, what is left of the last page taken, and *)
(* a place for the result of the functions below.  History: the chunks of  *)
(* each bin, the words that a chunk was made for, whether one was handed   *)
(* out for more than that, and whether one was that is not the heap's.     *)
NewHeap ==
    [mem |-> [a \in Addr |-> 0], fastbin |-> [b \in Bins |-> Null],
     p_start |-> Null, p_end |-> Null, taken |-> 0, ret |-> Null,
     chains |-> [b \in Bins |-> <<>>], room |-> [a \in Addr |-> 0], small |-> 0, foreign |-> 0]

-----------------------------------------------------------------------------
(* apply_alloc(): from the current page, or from a new one.                *)
NeedsPage(g, size) == g.p_start + size >= g.p_end
apply_alloc(g, size) ==
    LET fresh == NeedsPage(g, size)
        start == IF fresh THEN (g.taken + 1) * PG_SIZE ELSE g.p_start
    IN [g EXCEPT !.p_start = start + size,
                 !.p_end = IF fresh THEN start + PG_SIZE ELSE @,
                 !.taken = IF fresh THEN @ + 1 ELSE @,
                 !.ret = start]

(* malloc() of less than 0xa0 bytes, the only sizes that the kernel asks   *)
(* for: by bin, else a new chunk.                                          *)
BinOf(size) == (8 * size) \div 15
RoundedDown(size) == 2 * ((8 * size) \div 16)           \* variant: size & ~0xF
Fix(size) == 2 * ((8 * size + 15) \div 16)
KeptInBin(g, index) == g.fastbin[index]                 \* variant: not unlinked
RestOfBin(g, index) == g.mem[g.fastbin[index]]
Rest(s) == IF s = <<>> THEN s ELSE Tail(s)
malloc(g, size) ==
    LET chunk == g.fastbin[BinOf(size)]
        new == apply_alloc(g, Fix(size) + chunk_info_size)
        took == IF chunk = Null THEN [new EXCEPT !.room[new.ret] = Fix(size)]
                ELSE [g EXCEPT !.fastbin[BinOf(size)] = RestOfBin(g, BinOf(size)),
                               !.chains[BinOf(size)] = Rest(@), !.ret = chunk]
    IN IF chunk = Foreign THEN [g EXCEPT !.foreign = 1]
       ELSE [took EXCEPT !.mem[took.ret + 1] = size,
                         !.ret = took.ret + chunk_info_size,
                         !.small = IF took.room[took.ret] < size THEN 1 ELSE @]

free(g, ptr) ==
    LET chunk == ptr - chunk_info_size
        index == BinOf(g.mem[chunk + 1])
    IN [g EXCEPT !.mem[chunk] = g.fastbin[index], !.fastbin[index] = chunk,
                 !.chains[index] = <<chunk>> \o @]

(* free() of what malloc() did not return: the word taken for its size     *)
(* decides, and it may be anything.                                        *)
FreeForeign(g, index) == [g EXCEPT !.fastbin[index] = Foreign, !.chains[index] = <<>>]

-----------------------------------------------------------------------------
(* struct mlist: head, tail; struct mlist_element: prev, next, data.       *)
mlist_init(g) ==
    LET new == malloc(g, HeadSize) IN
        [new EXCEPT !.mem[new.ret] = Null, !.mem[new.ret + 1] = Null]
new_mlist_elem(g, data) ==
    LET new == malloc(g, ElemSize) IN
        [new EXCEPT !.mem[new.ret] = Null, !.mem[new.ret + 1] = Null, !.mem[new.ret + 2] = data]
mlist_is_empty(g, list) == g.mem[list] = Null
mlist_push(g, list, data) ==
    LET new == new_mlist_elem(g, data) IN
        IF mlist_is_empty(new, list)
        THEN [new EXCEPT !.mem[list] = new.ret, !.mem[list + 1] = new.ret]
        ELSE [new EXCEPT !.mem[new.ret + 1] = new.mem[list],
                         !.mem[new.mem[list]] = new.ret,
                         !.mem[list] = new.ret]

(* The result is the data of the element, which is freed.                  *)
OnlyTwo(g, list) == g.mem[g.mem[list] + 1] = g.mem[list + 1]    \* variant: one off
OnlyOne(g, list) == g.mem[list] = g.mem[list + 1]
mlist_pop(g, list) ==
    LET elem == g.mem[list]
        unlinked == IF OnlyOne(g, list)
                    THEN [g EXCEPT !.mem[list] = Null, !.mem[list + 1] = Null]
                    ELSE [g EXCEPT !.mem[list] = g.mem[elem + 1]]
    IN [free(unlinked, elem) EXCEPT !.ret = g.mem[elem + 2]]

(* __proc_add_mapping(): of the mapping only the page is kept here.        *)
add_mapping(g, list, pa) ==
    LET new == malloc(g, MappingSize)
        filled == [new EXCEPT !.mem[new.ret] = pa, !.mem[new.ret + 1] = 0,
                              !.mem[new.ret + 2] = 0, !.mem[new.ret + 3] = 0]
    IN mlist_push(filled, list, new.ret)

(* History: what add_mapping() has put at the head of a list.              *)
Cell(g, pa) == [elem |-> g.ret, data |-> g.mem[g.ret + 2], pa |-> pa]

-----------------------------------------------------------------------------
(* The first list is that of the kernel's slot.                            *)
Init ==
    /\ h = mlist_init(NewHeap)
    /\ mapping_list = [p \in Procs |-> Null] /\ used = {}
    /\ pc = "idle" /\ caller = 0 /\ np = 0
    /\ want = 0 /\ old_list = Null /\ pages = 0
    /\ lists = [p \in Procs |-> <<>>] /\ old = <<>>
    /\ failed = 0

(* The heap of the next state; HeapPages bounds it.                        *)
Becomes(g) == g.taken <= HeapPages /\ h' = g
Idle == pc = "idle" /\ h.foreign = 0

(* proc_alloc() in exec(), then a round of alloc_vm() for each page.       *)
FirstUnused(p) == p \notin used /\ \A q \in Procs : q < p => q \in used
Exec(p) ==
    /\ Idle /\ FirstUnused(p)
    /\ Becomes(mlist_init(h))
    /\ mapping_list' = [mapping_list EXCEPT ![p] = h'.ret]
    /\ used' = used \union {p}
    /\ lists' = [lists EXCEPT ![p] = <<>>]
    /\ want' \in 1..MaxMap
    /\ pc' = "exec" /\ np' = p
    /\ UNCHANGED <<caller, old_list, pages, old, failed>>
AllocPage ==
    /\ pc = "exec" /\ h.foreign = 0 /\ pages < MaxPa
    /\ Becomes(add_mapping(h, mapping_list[np], pages + 1))
    /\ lists' = [lists EXCEPT ![np] = <<Cell(h', pages + 1)>> \o @]
    /\ pages' = pages + 1
    /\ want' = want - 1
    /\ pc' = IF want = 1 THEN "idle" ELSE "exec"
    /\ np' = IF want = 1 THEN 0 ELSE np
    /\ UNCHANGED <<mapping_list, used, caller, old_list, old, failed>>

(* execve() of a file that does not exist.  proc_free() of the new slot:   *)
(* pgtbl_free() finds the list empty; the list is freed, and then context, *)
(* trapframe and fdtable, which did not come from malloc().                *)
ExecFails(p) ==
    /\ Idle /\ FirstUnused(p) /\ used # {}
    /\ failed < MaxFailed
    /\ \E index1, index2, index3 \in {0, 1, 2} :    \* 0: a bin of another size
        LET list == mlist_init(h)
            freed == free(list, list.ret)
        IN Becomes(FreeForeign(FreeForeign(FreeForeign(freed, index1), index2), index3))
    /\ failed' = failed + 1
    /\ UNCHANGED <<mapping_list, used, pc, caller, np, want, old_list, pages, lists, old>>

(* fork(): proc_alloc(), then copy_pagetable() with one round per mapping. *)
(* The head of the old list and the old mappings stay allocated.           *)
Fork(p, q) ==
    /\ Idle /\ p \in used /\ FirstUnused(q)
    /\ LET child == mlist_init(h)
           parent == mlist_init(child)
       IN /\ Becomes(parent)
          /\ mapping_list' = [mapping_list EXCEPT ![q] = child.ret, ![p] = parent.ret]
    /\ used' = used \union {q}
    /\ old_list' = mapping_list[p] /\ old' = lists[p]
    /\ lists' = [lists EXCEPT ![p] = <<>>, ![q] = <<>>]
    /\ pc' = "fork" /\ caller' = p /\ np' = q
    /\ UNCHANGED <<want, pages, failed>>
CopyPage ==
    /\ pc = "fork" /\ h.foreign = 0 /\ pages < MaxPa
    /\ ~ mlist_is_empty(h, old_list)
    /\ LET popped == mlist_pop(h, old_list)
           back == add_mapping(popped, mapping_list[caller], popped.mem[popped.ret])
       IN /\ Becomes(add_mapping(back, mapping_list[np], pages + 1))
          /\ lists' = [lists EXCEPT ![caller] = <<Cell(back, Head(old).pa)>> \o @,
                                    ![np] = <<Cell(h', pages + 1)>> \o @]
    /\ old' = Tail(old)
    /\ pages' = pages + 1
    /\ UNCHANGED <<mapping_list, used, pc, caller, np, want, old_list, failed>>
ForkDone ==
    /\ pc = "fork" /\ h.foreign = 0
    /\ mlist_is_empty(h, old_list)
    /\ pc' = "idle" /\ caller' = 0 /\ np' = 0 /\ old_list' = Null
    /\ UNCHANGED <<h, mapping_list, used, want, pages, lists, old, failed>>

Next ==
    \/ AllocPage \/ CopyPage \/ ForkDone
    \/ \E p \in Procs : Exec(p) \/ ExecFails(p) \/ \E q \in Procs : Fork(p, q)

Spec == Init /\ [][Next]_vars

-----------------------------------------------------------------------------
(* PROPERTIES                                                              *)

(* x points to the n-th of the addresses s, or ends them.                  *)
PointsTo(x, s, n, ends) == IF n > Len(s) THEN x \in ends ELSE x = s[n]

(* Reading list from its head leads through the cells s, and on to no more.*)
Holds(list, s) ==
    LET elems == [n \in DOMAIN s |-> s[n].elem] IN
        /\ PointsTo(h.mem[list], elems, 1, {Null})
        /\ s # <<>> => h.mem[list + 1] = elems[Len(s)]
        /\ \A n \in DOMAIN s :
                /\ elems[n] # Null /\ PointsTo(h.mem[elems[n] + 1], elems, n + 1, {Null})
                /\ h.mem[elems[n] + 2] = s[n].data /\ h.mem[s[n].data] = s[n].pa

(* mlist is a stack: what a walk through memory finds is what was pushed   *)
(* and not yet popped, for all lists at once, also in the middle of fork() *)
(* where elements of the old list are freed and taken again for the two    *)
(* new ones.  This is what Vm assumes.                                     *)
ListsAreSequences ==
    h.foreign = 0 =>
        /\ \A p \in used : Holds(mapping_list[p], lists[p])
        /\ pc = "fork" => Holds(old_list, old)

(* The chunks in use by a list and by all of them.                         *)
ChunksOf(list, s) ==
    {list - 2} \union {s[n].elem - 2 : n \in DOMAIN s} \union {s[n].data - 2 : n \in DOMAIN s}
InUse ==
    (UNION {ChunksOf(mapping_list[p], lists[p]) : p \in used})
    \union (IF pc = "fork" THEN ChunksOf(old_list, old) ELSE {})

(* What a bin leads to are the chunks freed and not taken again; such a    *)
(* chunk is on one bin once, and no list uses it.                          *)
FreeIsFree ==
    h.foreign = 0 =>
        /\ \A b \in Bins :
              LET s == h.chains[b] IN
                /\ PointsTo(h.fastbin[b], s, 1, {Null, Foreign})
                /\ \A n \in DOMAIN s : /\ s[n] \notin InUse
                                       /\ PointsTo(h.mem[s[n]], s, n + 1, {Null, Foreign})
        /\ \A b, c \in Bins : \A n \in DOMAIN h.chains[b], m \in DOMAIN h.chains[c] :
              h.chains[b][n] = h.chains[c][m] => b = c /\ n = m

(* A list head's chunk (16 bytes) shares its bin with list elements (24    *)
(* bytes) but is too small for one, and a failed execve() frees a list     *)
(* head.  malloc() still never returns a chunk that is too small: the next *)
(* call that takes elements takes a head first, and gets that chunk.  The  *)
(* chunks, headers included, lie within the pages taken and apart.         *)
Chunks == {c \in Addr : h.room[c] > 0}
EndOf(c) == c + chunk_info_size + h.room[c]
ChunksFit ==
    h.foreign = 0 =>
        /\ h.small = 0
        /\ \A c \in Chunks : \E page \in 1..h.taken :
              page * PG_SIZE <= c /\ EndOf(c) <= (page + 1) * PG_SIZE
        /\ \A c, d \in Chunks : c < d => EndOf(c) <= d

=============================================================================
