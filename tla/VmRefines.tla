------------------------------ MODULE VmRefines ------------------------------
(***************************************************************************)
(* Processes have private address spaces: Vm implements AddressSpace, for  *)
(* every number of pages and processes, every table size and program.      *)
(***************************************************************************)
EXTENDS VmProofs

(* What process p sees at page va: nothing, or the content of the page.    *)
Sees(p, va) ==
    IF va_to_pa(mem, pgtbl[p], va) = Null THEN {} ELSE {mem[va_to_pa(mem, pgtbl[p], va)]}

(* elf_loader() has entered page va of the segment it is working on, and   *)
(* has not yet filled it.                                                  *)
Entered(va) ==
    /\ segments # <<>>
    /\ \E j \in DOMAIN Head(segments).pages :
            j < (IF pc = "execmap" THEN k - 1 ELSE k) /\ Head(segments).pages[j] = va

(* What the first n segments of a file leave on page va: nothing, or the   *)
(* bytes of the last one of them that has the page.                        *)
LastOf(image, n, va, m) ==
    /\ m \in 1..n /\ va \in PagesIn(image[m])
    /\ \A l \in (m + 1)..n : va \notin PagesIn(image[l])
FileSays(image, n, va) ==
    {Overlay(ZeroRow, image[m].bytes[va]) : m \in {l \in 1..n : LastOf(image, n, va, l)}}

(* exec() on its way: n segments are loaded, and the new process sees what *)
(* they left and the pages entered for the next one, which hold zeros.     *)
Loading(image, n) ==
    /\ n <= Len(image) /\ Len(segments) = Len(image) - n
    /\ \A m \in 1..Len(segments) : segments[m] = image[n + m]
    /\ \A va \in VAs : Sees(np, va) = IF Entered(va) THEN {ZeroRow} ELSE FileSays(image, n, va)
    /\ \A va \in VAs, m \in 1..n : va \in PagesIn(image[m]) => FileSays(image, n, va) # {}
ExecOK ==
    /\ caller \in live \/ (caller = Kproc /\ live = {})
    /\ \E image \in Images, n \in Nat : Loading(image, n)
    /\ pc = "execmap" =>
            /\ segments # <<>> /\ k - 1 \in DOMAIN Head(segments).pages
            /\ info.va = Head(segments).pages[k - 1] /\ mem[new_mem] = ZeroRow

(* fork() on its way: the child sees nothing else than its parent, and     *)
(* what it does not see yet is still on the list.                          *)
ForkOK ==
    /\ \A va \in VAs : Sees(np, va) \subseteq Sees(caller, va)
    /\ \A va \in VAs : Sees(caller, va) # {} =>
            \/ Sees(np, va) # {}
            \/ \E x \in Mappings, m \in Nat : At(old_list, x, m) /\ x.va = va
            \/ pc = "forkmap" /\ va = info.va
    /\ pc = "forkmap" => Sees(caller, info.va) = {mem[new_mem]}

SpaceInv ==
    /\ pc \in {"exec", "execmap"} => ExecOK
    /\ pc \in {"fork", "forkmap"} => ForkOK

-----------------------------------------------------------------------------
(* WHAT EACH STEP DOES TO WHAT PROCESSES SEE                               *)

SeesKept(S) == \A q \in S, va \in VAs : Sees(q, va)' = Sees(q, va)

(* A step that leaves the tables and the user memory alone.                *)
UserKept(own) == \A pg \in Pages : own[pg].kind \in {"mapping", "old", "info"} => mem'[pg] = mem[pg]
LEMMA KeptSees ==
    ASSUME IInv, NEW own, Owned(own), UserKept(own),
           \A q \in used, va \in VAs :
                va_to_pa(mem, pgtbl[q], va)' = va_to_pa(mem, pgtbl[q], va)
    PROVE  SeesKept(used)
<1> SUFFICES ASSUME NEW q \in used, NEW va \in VAs PROVE Sees(q, va)' = Sees(q, va)
    BY DEF SeesKept
<1> DEFINE pa == va_to_pa(mem, pgtbl[q], va)
<1>1. va_to_pa(mem, pgtbl[q], va)' = pa
    OBVIOUS
<1>2. pa # Null => pa \in Pages /\ own[pa].kind \in {"mapping", "old", "info"}
    BY Reached DEF IInv
<1>3. Sees(q, va) = IF pa = Null THEN {} ELSE {mem[pa]}
    BY DEF Sees
<1>4. Sees(q, va)' = IF pa = Null THEN {} ELSE {mem'[pa]}
    BY <1>1 DEF Sees
<1> HIDE DEF pa
<1> QED
    BY <1>2, <1>3, <1>4 DEF UserKept

LEMMA SameSees == ASSUME mem' = mem, pgtbl' = pgtbl PROVE \A q, va : Sees(q, va)' = Sees(q, va)
BY DEF Sees

LEMMA FreeSees ==
    ASSUME IInv, freelist # <<>>, freelist' = Tail(freelist), ChangedAt(Page), used' = used,
           ProcsKept
    PROVE  SeesKept(used)
<1>1. PICK own : Owned(own)
    BY DEF IInv
<1>3. /\ own[Page].kind = "free"
      /\ \A q \in used, va \in VAs :
            va_to_pa(mem, pgtbl[q], va)' = va_to_pa(mem, pgtbl[q], va)
    <2>1. TypeOK /\ KeepsTables(own, mem')
        BY <1>1, FreeChanged DEF IInv
    <2>2. \A q \in used, va \in VAs :
            va_to_pa(mem', pgtbl[q], va) = va_to_pa(mem, pgtbl[q], va)
        BY <1>1, <2>1, PathStable
    <2> QED
        BY <1>1, <2>1, <2>2, FreePage DEF ProcsKept
<1>4. UserKept(own)
    BY <1>3 DEF UserKept, ChangedAt
<1> QED
    BY <1>1, <1>3, <1>4, KeptSees

(* An exec() that fails writes to an entry that no user address selects.   *)
LEMMA FailSees ==
    ASSUME IInv, BootOK, NEW c, ExecFails(c)
    PROVE  SeesKept(used)
<1>1. PICK own : Owned(own)
    BY DEF IInv
<1>2. TypeOK /\ KeepsTables(own, mem')
    BY <1>1, StrayMem DEF IInv
<1>3. UserKept(own)
    <2>1. \A pg \in Pages : own[pg].kind # "root" => mem'[pg] = mem[pg]
        BY <1>1, <1>2, StrayMem
    <2> QED
        BY <2>1 DEF UserKept
<1>4. \A q \in used : pgtbl'[q] = pgtbl[q]
    BY <1>2 DEF ExecFails, FirstUnused, TypeOK
<1>5. \A q \in used, va \in VAs :
        va_to_pa(mem', pgtbl[q], va) = va_to_pa(mem, pgtbl[q], va)
    BY <1>1, <1>2, PathStable
<1> QED
    BY <1>1, <1>3, <1>4, <1>5, KeptSees

LEMMA SlotSees ==
    ASSUME IInv, NEW p \in Procs, proc_alloc(p)
    PROVE  SeesKept(used) /\ p \notin used /\ \A va \in VAs : Sees(p, va)' = {}
<1>1. PICK own : Owned(own)
    BY DEF IInv
<1>2. /\ \A q \in used, va \in VAs :
            va_to_pa(mem, pgtbl[q], va)' = va_to_pa(mem, pgtbl[q], va)
      /\ \A va \in VAs : va_to_pa(mem, pgtbl[p], va)' = Null
      /\ p \notin used /\ TypeOK
    BY <1>1, SlotPaths DEF IInv
<1>3. own[freelist[2]].kind = "free" /\ \A pg \in Pages \ {freelist[2]} : mem'[pg] = mem[pg]
    BY <1>1, <1>2, TwoFree DEF proc_alloc, TypeOK
<1>4. UserKept(own)
    BY <1>3 DEF UserKept
<1>5. SeesKept(used)
    BY <1>1, <1>2, <1>4, KeptSees
<1> QED
    BY <1>2, <1>5 DEF Sees

LEMMA NewTableSees ==
    ASSUME IInv, NewTable
    PROVE  SeesKept(used) /\ mem'[new_mem] = mem[new_mem]
<1>1. PICK own : Owned(own)
    BY DEF IInv
<1>2. /\ own[Page].kind = "free"
      /\ \A pg \in Pages \ {Page, iter_pagetable} : mem'[pg] = mem[pg]
      /\ \A q \in used, va \in VAs :
            va_to_pa(mem', pgtbl[q], va) = va_to_pa(mem, pgtbl[q], va)
    BY <1>1, NewTablePaths
<1>3. /\ IsTable(own, iter_pagetable) /\ new_mem \in Pages /\ pgtbl' = pgtbl
    BY <1>1, WalkAt DEF NewTable, procs, IInv, CallOK
<1>4. own[new_mem].kind = "new"
    BY <1>1, <1>3, UseFields DEF Owned, OwnCall
<1>5. UserKept(own) /\ mem'[new_mem] = mem[new_mem]
    BY <1>2, <1>3, <1>4 DEF UserKept, IsTable
<1>6. \A q \in used, va \in VAs :
            va_to_pa(mem, pgtbl[q], va)' = va_to_pa(mem, pgtbl[q], va)
    BY <1>2, <1>3
<1> QED
    BY <1>1, <1>5, <1>6, KeptSees

LEMMA LeafSees ==
    ASSUME IInv, MapLeaf, NEW q \in used, NEW va \in VAs
    PROVE  Sees(q, va)' = IF q = np /\ va = info.va THEN {mem[new_mem]} ELSE Sees(q, va)
<1>1. PICK own : Owned(own)
    BY DEF IInv
<1>2. Mapping /\ level = 0 /\ pgtbl' = pgtbl
    BY DEF MapLeaf
<1>3. PICK m2 : m2 = Mapped
    OBVIOUS
<1>4. /\ \A pg \in Pages \ {iter_pagetable} : m2[pg] = mem[pg]
      /\ va_to_pa(m2, pgtbl[q], va) = IF q = np /\ va = info.va THEN new_mem
                                      ELSE va_to_pa(mem, pgtbl[q], va)
    BY <1>1, <1>2, <1>3, LeafPaths
<1>5. mem' = m2
    BY <1>3 DEF MapLeaf
<1>6. new_mem \in Pages /\ IsTable(own, iter_pagetable)
    BY <1>1, <1>2, WalkAt DEF IInv, CallOK
<1>7. m2[new_mem] = mem[new_mem] /\ new_mem # Null
    BY <1>1, <1>4, <1>6, UseFields, Basics DEF Owned, OwnCall, IsTable
<1> DEFINE pa == va_to_pa(mem, pgtbl[q], va)
           pb == va_to_pa(m2, pgtbl[q], va)
<1>8. pa # Null => m2[pa] = mem[pa]
    <2>1. pa # Null => pa \in Pages /\ own[pa].kind \in {"mapping", "old", "info"}
        BY <1>1, Reached DEF IInv
    <2> QED
        BY <1>4, <1>6, <2>1 DEF IsTable
<1>9. Sees(q, va)' = IF pb = Null THEN {} ELSE {m2[pb]}
    BY <1>2, <1>5 DEF Sees
<1>10. Sees(q, va) = IF pa = Null THEN {} ELSE {mem[pa]}
    BY DEF Sees
<1>11. pb = IF q = np /\ va = info.va THEN new_mem ELSE pa
    BY <1>4
<1> HIDE DEF pa, pb
<1> QED
    BY <1>7, <1>8, <1>9, <1>10, <1>11

(* A word stored through the table of p reaches p only.                    *)
Stored(row, i, w) == [row EXCEPT ![i] = w]
WordStored(pa, i, w) == mem' = [mem EXCEPT ![pa][i] = w]
LEMMA WordSees ==
    ASSUME IInv, NEW p \in used, NEW va \in VAs, NEW i \in Offsets, NEW w,
           NEW pa, pa = va_to_pa(mem, pgtbl[p], va), pa # Null,
           WordStored(pa, i, w), pgtbl' = pgtbl,
           NEW q \in used, NEW vb \in VAs
    PROVE  Sees(q, vb)' = IF q = p /\ vb = va THEN {Stored(mem[pa], i, w)} ELSE Sees(q, vb)
<1>1. PICK own : Owned(own)
    BY DEF IInv
<1>2. TypeOK /\ ListedIsMapped
    BY DEF IInv
<1>3. /\ pa \in Pages /\ own[pa].kind \in {"mapping", "old", "info"}
      /\ va_to_pa(mem, pgtbl[q], vb) = pa => q = p /\ vb = va
    <2> DEFINE x == va_to_pa(mem, pgtbl[p], va)
    <2>1. /\ x \in Pages /\ own[x].kind \in {"mapping", "old", "info"}
          /\ \A r \in used, vc \in VAs : va_to_pa(mem, pgtbl[r], vc) = x => r = p /\ vc = va
        BY <1>1, <1>2, Reached
    <2> QED
        BY <2>1
<1>4. /\ mem'[pa] = Stored(mem[pa], i, w)
      /\ \A pg \in Pages \ {pa} : mem'[pg] = mem[pg]
    BY <1>2, <1>3 DEF TypeOK, Stored, WordStored
<1> DEFINE pb == va_to_pa(mem, pgtbl[q], vb)
<1>5. va_to_pa(mem, pgtbl[q], vb)' = pb
    <2>1. PICK m2 : m2 = mem'
        OBVIOUS
    <2>2. KeepsTables(own, m2)
        BY <1>3, <1>4, <2>1 DEF KeepsTables, IsTable
    <2>3. va_to_pa(m2, pgtbl[q], vb) = pb
        BY <1>1, <1>2, <2>2, PathStable
    <2> QED
        BY <2>1, <2>3
<1>6. pb = Null \/ pb \in Pages
    BY <1>1, <1>2, Path
<1>7. Sees(q, vb)' = IF pb = Null THEN {} ELSE {mem'[pb]}
    BY <1>5 DEF Sees
<1>8. Sees(q, vb) = IF pb = Null THEN {} ELSE {mem[pb]}
    BY DEF Sees
<1>9. q = p /\ vb = va => pb = pa
    OBVIOUS
<1>10. pb = pa => q = p /\ vb = va
    BY <1>3
<1> HIDE DEF pb
<1> QED
    BY <1>4, <1>6, <1>7, <1>8, <1>9, <1>10

(* copy_to_va() writes to the pages of the segment, and to no others.      *)
LEMMA LoadSees ==
    ASSUME IInv, LoadSegment, NEW q \in used, NEW va \in VAs
    PROVE  /\ Sees(q, va) = {} => Sees(q, va)' = {}
           /\ \A row : Sees(q, va) = {row} =>
                Sees(q, va)' = {IF q = np /\ va \in PagesIn(Head(segments))
                                THEN Overlay(row, Head(segments).bytes[va]) ELSE row}
<1>1. PICK own : Owned(own)
    BY DEF IInv
<1>2. TypeOK /\ pgtbl' = pgtbl
    BY DEF LoadSegment, procs, IInv
<1> DEFINE pb == va_to_pa(mem, pgtbl[q], va)
<1>3. KeepsTables(own, mem')
    BY <1>1, LoadMem
<1>4. pb # Null => mem'[pb] = IF q = np /\ va \in PagesIn(Head(segments))
                              THEN Overlay(mem[pb], Head(segments).bytes[va]) ELSE mem[pb]
    BY <1>1, LoadMem
<1>5. va_to_pa(mem', pgtbl[q], va) = pb
    BY <1>1, <1>2, <1>3, PathStable
<1>6. Sees(q, va)' = IF pb = Null THEN {} ELSE {mem'[pb]}
    BY <1>2, <1>5 DEF Sees
<1>7. Sees(q, va) = IF pb = Null THEN {} ELSE {mem[pb]}
    BY DEF Sees
<1> HIDE DEF pb
<1> QED
    BY <1>4, <1>6, <1>7

(* What fork() makes of a row of the parent.                               *)
ChildRow(row, va, frame, a0, context) ==
    [i \in Offsets |-> IF va = StackPage /\ i \in ContextWords THEN context[i]
                       ELSE IF va = frame /\ i = a0 THEN 0 ELSE row[i]]
ChildSeen(n, frame, a0, context) ==
    \A q \in used, va \in VAs :
        /\ Sees(q, va) = {} => Sees(q, va)' = {}
        /\ \A row : Sees(q, va) = {row} =>
            Sees(q, va)' = {IF q = n THEN ChildRow(row, va, frame, a0, context) ELSE row}
LEMMA ChildSees ==
    ASSUME IInv, ForkDone, NEW n \in used, n = np
    PROVE  \E frame \in VAs, a0 \in Offsets, context \in [ContextWords -> Words] :
            ChildSeen(n, frame, a0, context)
<1>1. PICK own : Owned(own)
    BY DEF IInv
<1>2. /\ TypeOK /\ ListedIsMapped /\ pgtbl' = pgtbl /\ np \in used /\ StackPage \in VAs
    BY IndexAssumption DEF ForkDone, IInv, CallOK, Calling
<1>3. PICK frame \in VAs, a0 \in Offsets, context \in [ContextWords -> Words],
          m1 \in [Pages -> [Offsets -> Pages \union Words \union {Null, Junk, Foreign}]] :
        ChildMade(own, frame, a0, context, m1)
    BY <1>1, ChildMem
<1> WITNESS frame \in VAs, a0 \in Offsets, context \in [ContextWords -> Words]
<1> SUFFICES ASSUME NEW q \in used, NEW va \in VAs
             PROVE  /\ Sees(q, va) = {} => Sees(q, va)' = {}
                    /\ \A row : Sees(q, va) = {row} =>
                        Sees(q, va)' = {IF q = n THEN ChildRow(row, va, frame, a0, context) ELSE row}
    BY DEF ChildSeen
<1> DEFINE pb == va_to_pa(mem, pgtbl[q], va)
<1>4. va_to_pa(mem', pgtbl[q], va) = pb
    BY <1>1, <1>2, <1>3, PathStable DEF ChildMade
<1>5. Sees(q, va)' = IF pb = Null THEN {} ELSE {mem'[pb]}
    BY <1>2, <1>4 DEF Sees
<1>6. Sees(q, va) = IF pb = Null THEN {} ELSE {mem[pb]}
    BY DEF Sees
<1>7. ASSUME pb # Null
      PROVE  mem'[pb] = IF q = n THEN ChildRow(mem[pb], va, frame, a0, context) ELSE mem[pb]
    <2>1. /\ pb \in Pages
          /\ \A x \in used, vb \in VAs : va_to_pa(mem, pgtbl[x], vb) = pb => x = q /\ vb = va
        BY <1>1, <1>2, <1>7, Reached
    <2>2. /\ pb = va_to_pa(mem, pgtbl[np], frame) <=> q = n /\ va = frame
          /\ pb = va_to_pa(mem, pgtbl[np], StackPage) <=> q = n /\ va = StackPage
        BY <1>2, <2>1
    <2>3. mem[pb] \in [Offsets -> Pages \union Words \union {Null, Junk, Foreign}]
        BY <1>2, <2>1 DEF TypeOK
    <2> HIDE DEF pb
    <2>4. m1[pb] = IF q = n /\ va = frame THEN Overlay(mem[pb], [i \in {a0} |-> 0]) ELSE mem[pb]
        BY <1>3, <2>1, <2>2 DEF ChildMade
    <2>5. mem'[pb] = IF q = n /\ va = StackPage THEN Overlay(m1[pb], context) ELSE m1[pb]
        BY <1>3, <2>1, <2>2 DEF ChildMade
    <2>6. CASE q # n
        BY <2>4, <2>5, <2>6
    <2>7. CASE q = n
        <3>1. m1[pb] = [i \in Offsets |-> IF va = frame /\ i = a0 THEN 0 ELSE mem[pb][i]]
            BY <2>3, <2>4, <2>7 DEF Overlay
        <3>2. mem'[pb] = [i \in Offsets |-> IF va = StackPage /\ i \in ContextWords
                                            THEN context[i] ELSE m1[pb][i]]
            BY <2>5, <2>7, <3>1 DEF Overlay
        <3> QED
            BY <2>7, <3>1, <3>2 DEF ChildRow
    <2> QED
        BY <2>6, <2>7
<1> HIDE DEF pb
<1> QED
    BY <1>5, <1>6, <1>7

-----------------------------------------------------------------------------
(* THE INVARIANT OF exec() AND fork()                                      *)

LEMMA SaysSame == \A image, n, va : FileSays(image, n, va)' = FileSays(image, n, va)
BY DEF FileSays, LastOf

LEMMA SpaceStays ==
    ASSUME IInv, SpaceInv, SeesKept(used), UNCHANGED <<pc, call, live, info, new_mem>>,
           Mapping => mem'[new_mem] = mem[new_mem]
    PROVE  SpaceInv'
<1>1. /\ Calling => np \in used
      /\ pc \in {"fork", "forkmap"} => caller \in used
    BY DEF IInv, TypeOK, CallOK, Calling
<1>2. /\ pc' = pc /\ caller' = caller /\ np' = np /\ segments' = segments /\ k' = k
      /\ old_list' = old_list /\ live' = live /\ info' = info /\ new_mem' = new_mem
    BY DEF call
<1>3. /\ Calling => \A va \in VAs : Sees(np, va)' = Sees(np, va)
      /\ pc \in {"fork", "forkmap"} => \A va \in VAs : Sees(caller, va)' = Sees(caller, va)
    <2>1. PICK n, c : n = np /\ c = caller
        OBVIOUS
    <2>2. /\ Calling => \A va \in VAs : Sees(n, va)' = Sees(n, va)
          /\ pc \in {"fork", "forkmap"} => \A va \in VAs : Sees(c, va)' = Sees(c, va)
        BY <1>1, <2>1 DEF SeesKept
    <2> QED
        BY <1>2, <2>1, <2>2
<1>4. ASSUME pc \in {"exec", "execmap"} PROVE ExecOK'
    <2>1. ExecOK /\ \A va \in VAs : Sees(np, va)' = Sees(np, va)
        BY <1>3, <1>4 DEF SpaceInv, Calling
    <2>2. \A va : Entered(va)' = Entered(va)
        BY <1>2 DEF Entered
    <2>3. \A image, n : Loading(image, n) => Loading(image, n)'
        BY <1>2, <2>1, <2>2, SaysSame DEF Loading
    <2> QED
        BY <1>2, <2>1, <2>3 DEF ExecOK, Mapping
<1>5. ASSUME pc \in {"fork", "forkmap"} PROVE ForkOK'
    <2>1. ForkOK /\ \A va \in VAs : /\ Sees(np, va)' = Sees(np, va)
                                    /\ Sees(caller, va)' = Sees(caller, va)
        BY <1>3, <1>5 DEF SpaceInv, Calling
    <2>2. info.va \in VAs /\ (pc = "forkmap" => mem'[new_mem] = mem[new_mem])
        BY DEF IInv, TypeOK, Mapping
    <2> QED
        BY <1>2, <2>1, <2>2 DEF ForkOK
<1> QED
    BY <1>2, <1>4, <1>5 DEF SpaceInv

(* One more segment: its pages hold what it has there, the others stay.    *)
LEMMA SaysMore ==
    ASSUME NEW image, NEW n \in Nat, NEW va
    PROVE  FileSays(image, n + 1, va) =
            IF va \in PagesIn(image[n + 1]) THEN {Overlay(ZeroRow, image[n + 1].bytes[va])}
            ELSE FileSays(image, n, va)
<1>1. CASE va \in PagesIn(image[n + 1])
    <2>1. \A m \in 1..(n + 1) : LastOf(image, n + 1, va, m) <=> m = n + 1
        <3> SUFFICES ASSUME NEW m \in 1..(n + 1)
                     PROVE  LastOf(image, n + 1, va, m) <=> m = n + 1
            OBVIOUS
        <3>1. CASE m = n + 1
            BY <1>1, <3>1 DEF LastOf
        <3>2. CASE m # n + 1
            <4>1. n + 1 \in (m + 1)..(n + 1)
                BY <3>2
            <4> QED
                BY <1>1, <3>2, <4>1 DEF LastOf
        <3> QED
            BY <3>1, <3>2
    <2>2. {m \in 1..(n + 1) : LastOf(image, n + 1, va, m)} = {n + 1}
        BY <2>1
    <2> QED
        BY <1>1, <2>2 DEF FileSays
<1>2. CASE va \notin PagesIn(image[n + 1])
    <2>1. ASSUME NEW m \in 1..n
          PROVE  LastOf(image, n + 1, va, m) <=> LastOf(image, n, va, m)
        <3>1. (m + 1)..(n + 1) = ((m + 1)..n) \union {n + 1} /\ m \in 1..(n + 1)
            OBVIOUS
        <3> QED
            BY <1>2, <3>1 DEF LastOf
    <2>2. ~ LastOf(image, n + 1, va, n + 1)
        BY <1>2 DEF LastOf
    <2>3. 1..(n + 1) = (1..n) \union {n + 1}
        OBVIOUS
    <2>4. {m \in 1..(n + 1) : LastOf(image, n + 1, va, m)} = {m \in 1..n : LastOf(image, n, va, m)}
        BY <2>1, <2>2, <2>3
    <2> QED
        BY <1>2, <2>4 DEF FileSays
<1> QED
    BY <1>1, <1>2

LEMMA SaysNothing == \A image, va : FileSays(image, 0, va) = {}
BY DEF FileSays

(* In the end the pages hold what Loaded says.                             *)
LEMMA SaysAll ==
    ASSUME NEW image, NEW n \in Nat, n = Len(image), DOMAIN image = 1..n, NEW va,
           FileSays(image, n, va) # {}
    PROVE  va \in PagesOf(image) /\ FileSays(image, n, va) = {Loaded(image)[va]}
<1>1. PICK m \in 1..n : LastOf(image, n, va, m)
    BY DEF FileSays
<1>2. \A l \in 1..n : va \in PagesIn(image[l]) => l <= m
    BY <1>1 DEF LastOf
<1>3. LastOn(image, va) = m
    <2> DEFINE P(x) == /\ va \in PagesIn(image[x])
                       /\ \A l \in DOMAIN image : va \in PagesIn(image[l]) => l <= x
    <2>1. m \in DOMAIN image /\ P(m)
        BY <1>1, <1>2 DEF LastOf
    <2>2. \A x \in DOMAIN image : P(x) => x = m
        <3> SUFFICES ASSUME NEW x \in 1..n, P(x) PROVE x = m
            OBVIOUS
        <3>1. x <= m /\ m <= x
            BY <1>1, <1>2 DEF LastOf
        <3> QED
            BY <3>1
    <2> HIDE DEF P
    <2>3. (CHOOSE x \in DOMAIN image : P(x)) = m
        BY <2>1, <2>2
    <2> QED
        BY <2>3 DEF LastOn, P
<1>4. \A l \in 1..n : LastOf(image, n, va, l) => l = m
    <2> SUFFICES ASSUME NEW l \in 1..n, LastOf(image, n, va, l), l # m PROVE FALSE
        OBVIOUS
    <2>1. l < m
        BY <1>2 DEF LastOf
    <2>2. m \in (l + 1)..n
        BY <2>1
    <2> QED
        BY <1>1, <2>2 DEF LastOf
<1>5. {l \in 1..n : LastOf(image, n, va, l)} = {m}
    BY <1>1, <1>4
<1>6. va \in PagesOf(image)
    BY <1>1 DEF PagesOf, LastOf
<1> QED
    BY <1>3, <1>5, <1>6 DEF FileSays, Loaded

LEMMA NothingEntered ==
    ASSUME NEW s \in Seq(Segments), s # <<>>
    PROVE  \A j \in DOMAIN Head(s).pages : ~ (j < 1)
<1>1. Head(s) \in Segments
    BY HeadTailProperties
<1>2. Head(s).pages \in Seq(VAs)
    BY <1>1 DEF Segments
<1>3. DOMAIN Head(s).pages = 1..Len(Head(s).pages)
    BY <1>2, LenProperties
<1> QED
    BY <1>3

LEMMA ExecStartSpace == ASSUME IInv, NEW c \in Procs \union {Kproc}, ExecStart(c) PROVE SpaceInv'
<1>1. PICK p \in Procs, image \in Images : proc_alloc(p) /\ np' = p /\ caller' = c
                                           /\ segments' = image /\ k' = 1
    BY DEF ExecStart
<1>2. MayExec(c) /\ pc' = "exec" /\ live' = live /\ live \subseteq used
    BY DEF ExecStart, IInv, TypeOK
<1>3. \A va \in VAs : Sees(np, va)' = {}
    BY <1>1, SlotSees
<1>4. image \in Seq(Segments) /\ Len(image) \in Nat
    BY ImagesAssumption, LenProperties
<1>5. \A va : ~ Entered(va)'
    BY <1>1, <1>2, <1>4, NothingEntered DEF Entered
<1>6. caller' \in live' \/ (caller' = Kproc /\ live' = {})
    BY <1>1, <1>2 DEF MayExec
<1>7. Loading(image, 0)'
    <2>1. 0 <= Len(image) /\ Len(image) - 0 = Len(image) /\ \A m \in 1..Len(image) : 0 + m = m
        BY <1>4
    <2>2. \A va \in VAs : Sees(np, va)' = FileSays(image, 0, va)'
        BY <1>3, SaysNothing, SaysSame
    <2> QED
        BY <1>1, <1>5, <2>1, <2>2 DEF Loading
<1>8. ExecOK'
    BY <1>2, <1>6, <1>7 DEF ExecOK
<1> QED
    BY <1>2, <1>8 DEF SpaceInv

LEMMA ForkStartSpace == ASSUME IInv, NEW c \in Procs, ForkStart(c) PROVE SpaceInv'
<1>1. PICK p \in Procs : proc_alloc(p) /\ np' = p
    BY DEF ForkStart
<1>2. /\ pc = "idle" /\ pc' = "fork" /\ caller' = c /\ c \in live
      /\ old_list' = mapping_list[c]
    BY DEF ForkStart
<1>3. TypeOK /\ ListedIsMapped /\ c \in used /\ old_list = <<>> /\ info.pa = Null
    BY <1>2 DEF IInv, TypeOK, CallOK
<1>4. /\ \A va \in VAs : Sees(np, va)' = {} /\ Sees(caller, va)' = Sees(c, va)
    BY <1>1, <1>2, <1>3, SlotSees DEF SeesKept
<1>5. ASSUME NEW va \in VAs, Sees(c, va) # {}
      PROVE  \E x \in Mappings, m \in Nat : At(mapping_list[c], x, m) /\ x.va = va
    <2> DEFINE pa == va_to_pa(mem, pgtbl[c], va)
    <2>1. pa # Null
        BY <1>5 DEF Sees
    <2>2. [va |-> va, pa |-> pa] \in ListOf(c)
        BY <1>3, <2>1 DEF ListedIsMapped
    <2> HIDE DEF pa
    <2>3. PICK m \in Nat : At(mapping_list[c], [va |-> va, pa |-> pa], m)
        BY <1>3, <2>2, IdleList
    <2>4. mapping_list[c] \in Seq(Mappings)
        BY <1>3 DEF TypeOK
    <2>5. [va |-> va, pa |-> pa] \in Mappings
        BY <2>3, <2>4, AtIn
    <2> QED
        BY <2>3, <2>5
<1>6. ForkOK'
    BY <1>2, <1>4, <1>5 DEF ForkOK
<1> QED
    BY <1>2, <1>6 DEF SpaceInv

LEMMA AllocPageSpace == ASSUME IInv, SpaceInv, AllocPage PROVE SpaceInv'
<1>1. /\ pc = "exec" /\ segments # <<>> /\ k <= Len(Head(segments).pages) /\ pc' = "execmap"
      /\ freelist # <<>> /\ freelist' = Tail(freelist) /\ mem' = [mem EXCEPT ![Page] = ZeroRow]
      /\ info' = [va |-> Head(segments).pages[k], pa |-> Null] /\ k' = k + 1 /\ new_mem' = Page
      /\ UNCHANGED <<live, used, pgtbl, mapping_list, caller, np, segments>>
    BY DEF AllocPage, kmalloc, procs
<1>2. TypeOK /\ ExecOK /\ np \in used
    BY <1>1 DEF IInv, SpaceInv, CallOK, Calling
<1>3. \A va \in VAs : Sees(np, va)' = Sees(np, va)
    <2>1. ChangedAt(Page)
        BY <1>1, <1>2 DEF ChangedAt, TypeOK
    <2>2. ProcsKept
        BY <1>1 DEF ProcsKept
    <2>3. SeesKept(used)
        BY <1>1, <2>1, <2>2, FreeSees
    <2>4. PICK n : n = np
        OBVIOUS
    <2>5. \A va \in VAs : Sees(n, va)' = Sees(n, va)
        BY <1>2, <2>3, <2>4 DEF SeesKept
    <2> QED
        BY <1>1, <2>4, <2>5
<1>4. /\ k \in Nat /\ k' - 1 = k /\ k \in DOMAIN Head(segments).pages
      /\ info'.va = Head(segments).pages[k]
    <2>1. /\ DOMAIN Head(segments).pages = 1..Len(Head(segments).pages)
          /\ Len(Head(segments).pages) \in Nat /\ k \in Nat \ {0}
        BY <1>1, <1>2, HeadSegment DEF TypeOK
    <2> QED
        BY <1>1, <2>1
<1>5. \A va : Entered(va)' <=> Entered(va)
    BY <1>1, <1>4 DEF Entered
<1>6. mem'[new_mem'] = ZeroRow
    <2>1. Page \in Pages
        BY <1>1, <1>2, AtTail DEF TypeOK, Page
    <2> QED
        BY <1>1, <1>2, <2>1 DEF TypeOK
<1>7. \A image, n : Loading(image, n) => Loading(image, n)'
    BY <1>1, <1>3, <1>5, SaysSame DEF Loading
<1>8. ExecOK'
    BY <1>1, <1>2, <1>4, <1>6, <1>7 DEF ExecOK
<1> QED
    BY <1>1, <1>8 DEF SpaceInv

LEMMA LoadSegmentSpace == ASSUME IInv, SpaceInv, LoadSegment PROVE SpaceInv'
<1> DEFINE seg == Head(segments)
<1>1. /\ pc = "exec" /\ segments # <<>> /\ k > Len(seg.pages) /\ pc' = "exec"
      /\ segments' = Tail(segments) /\ k' = 1
      /\ UNCHANGED <<live, used, caller, np, info>>
    BY DEF LoadSegment, procs, single
<1>2. TypeOK /\ ExecOK /\ np \in used /\ segments \in Seq(Segments) /\ k \in Nat
    BY <1>1 DEF IInv, SpaceInv, CallOK, Calling, TypeOK
<1>3. /\ DOMAIN seg.pages = 1..Len(seg.pages) /\ Len(seg.pages) \in Nat
      /\ Tail(segments) \in Seq(Segments)
    BY <1>1, <1>2, HeadSegment
<1>4. \A va : Entered(va) <=> va \in PagesIn(seg)
    <2>1. \A j \in DOMAIN seg.pages : j < k
        BY <1>1, <1>2, <1>3
    <2> QED
        BY <1>1, <2>1 DEF Entered, PagesIn
<1>5. \A va : ~ Entered(va)'
    BY <1>1, <1>3, NothingEntered DEF Entered
<1>6. PICK image \in Images, n \in Nat : Loading(image, n)
    BY <1>2 DEF ExecOK
<1>7. image \in Seq(Segments) /\ Len(image) \in Nat
    BY ImagesAssumption, LenProperties
<1>8. PICK l \in Nat : l = Len(segments) /\ l > 0
    BY <1>1, <1>2, LenProperties, EmptySeq
<1>9. /\ Len(segments') = l - 1 /\ seg = segments[1]
      /\ \A m \in 1..(l - 1) : segments'[m] = segments[m + 1]
    BY <1>1, <1>2, <1>8, HeadTailProperties
<1>10. n <= Len(image) /\ l = Len(image) - n /\ \A m \in 1..l : segments[m] = image[n + m]
    BY <1>6, <1>8 DEF Loading
<1>11. seg = image[n + 1]
    BY <1>8, <1>9, <1>10
<1>12. /\ n + 1 <= Len(image) /\ Len(segments') = Len(image) - (n + 1)
       /\ \A m \in 1..Len(segments') : segments'[m] = image[(n + 1) + m]
    <2>1. n + 1 <= Len(image) /\ l - 1 = Len(image) - (n + 1)
        BY <1>7, <1>8, <1>10
    <2>2. ASSUME NEW m \in 1..(l - 1) PROVE segments'[m] = image[(n + 1) + m]
        <3>1. m + 1 \in 1..l /\ n + (m + 1) = (n + 1) + m
            BY <1>8
        <3> QED
            BY <1>9, <1>10, <3>1
    <2> QED
        BY <1>9, <2>1, <2>2
<1>13. ASSUME NEW va \in VAs PROVE Sees(np, va)' = FileSays(image, n + 1, va)
    <2>1. PICK q \in used : q = np
        BY <1>2
    <2>2. /\ Sees(q, va) = {} => Sees(q, va)' = {}
          /\ \A row : Sees(q, va) = {row} =>
                Sees(q, va)' = {IF q = np /\ va \in PagesIn(seg)
                                THEN Overlay(row, seg.bytes[va]) ELSE row}
        BY LoadSees
    <2>3. Sees(np, va)' = Sees(q, va)' /\ Sees(np, va) = Sees(q, va)
        BY <1>1, <2>1
    <2>4. Sees(q, va) = IF va \in PagesIn(seg) THEN {ZeroRow} ELSE FileSays(image, n, va)
        BY <1>4, <1>6, <2>3 DEF Loading
    <2>5. FileSays(image, n + 1, va) =
            IF va \in PagesIn(seg) THEN {Overlay(ZeroRow, seg.bytes[va])} ELSE FileSays(image, n, va)
        BY <1>11, SaysMore
    <2>6. Sees(q, va) = {} \/ \E row : Sees(q, va) = {row}
        BY DEF Sees
    <2> HIDE DEF seg
    <2>7. CASE va \in PagesIn(seg)
        BY <2>1, <2>2, <2>3, <2>4, <2>5, <2>7
    <2>8. CASE va \notin PagesIn(seg)
        BY <2>2, <2>3, <2>4, <2>5, <2>6, <2>8
    <2> QED
        BY <2>7, <2>8
<1>14. ASSUME NEW va \in VAs, NEW m \in 1..(n + 1), va \in PagesIn(image[m])
       PROVE  FileSays(image, n + 1, va) # {}
    <2>1. CASE va \in PagesIn(image[n + 1])
        BY <2>1, SaysMore
    <2>2. CASE va \notin PagesIn(image[n + 1])
        <3>1. m \in 1..n
            BY <1>14, <2>2
        <3>2. FileSays(image, n, va) # {}
            BY <1>6, <1>14, <3>1 DEF Loading
        <3> QED
            BY <2>2, <3>2, SaysMore
    <2> QED
        BY <2>1, <2>2
<1>15. Loading(image, n + 1)'
    BY <1>5, <1>12, <1>13, <1>14, SaysSame DEF Loading
<1>16. ExecOK'
    BY <1>1, <1>2, <1>15 DEF ExecOK
<1> QED
    BY <1>1, <1>16 DEF SpaceInv

LEMMA MapLeafSpace == ASSUME IInv, SpaceInv, MapLeaf PROVE SpaceInv'
<1>1. /\ Mapping /\ info' = NoMapping
      /\ pc' = IF pc = "execmap" THEN "exec" ELSE "fork"
      /\ UNCHANGED <<used, live, pgtbl, caller, np, segments, k, old_list>>
    BY DEF MapLeaf, call
<1>2. /\ np \in used /\ np # caller /\ info.va \in VAs /\ (pc = "forkmap" => caller \in used)
    BY <1>1 DEF IInv, TypeOK, CallOK, Calling, Mapping
<1>3. ASSUME NEW va \in VAs
      PROVE  /\ Sees(np, va)' = IF va = info.va THEN {mem[new_mem]} ELSE Sees(np, va)
             /\ pc = "forkmap" => Sees(caller, va)' = Sees(caller, va)
    <2>1. PICK n \in used : n = np
        BY <1>2
    <2>2. Sees(n, va)' = IF n = np /\ va = info.va THEN {mem[new_mem]} ELSE Sees(n, va)
        BY LeafSees
    <2>3. PICK c : c = caller
        OBVIOUS
    <2>4. pc = "forkmap" => Sees(c, va)' = Sees(c, va)
        BY <1>2, <2>3, LeafSees
    <2> QED
        BY <1>1, <2>1, <2>2, <2>3, <2>4
<1>4. CASE pc = "execmap"
    <2>1. ExecOK
        BY <1>4 DEF SpaceInv
    <2>2. segments # <<>> /\ segments \in Seq(Segments) /\ k \in Nat
        BY <1>4, <2>1 DEF ExecOK, IInv, TypeOK
    <2>3. \A va : Entered(va)' <=> Entered(va) \/ va = info.va
        <3>1. DOMAIN Head(segments).pages \subseteq Nat
            BY <2>2, HeadSegment DEF IInv
        <3>2. \A j \in DOMAIN Head(segments).pages : j < k <=> j < k - 1 \/ j = k - 1
            BY <2>2, <3>1
        <3>3. k - 1 \in DOMAIN Head(segments).pages /\ info.va = Head(segments).pages[k - 1]
            BY <1>4, <2>1 DEF ExecOK
        <3>4. pc' = "exec" /\ pc = "execmap"
            BY <1>1, <1>4
        <3> DEFINE P == Head(segments).pages
        <3>5. ASSUME NEW va
              PROVE  /\ Entered(va) <=> \E j \in DOMAIN P : j < k - 1 /\ P[j] = va
                     /\ Entered(va)' <=> \E j \in DOMAIN P : j < k /\ P[j] = va
            BY <1>1, <2>2, <3>4 DEF Entered
        <3> HIDE DEF P
        <3>6. /\ \A j \in DOMAIN P : j < k <=> j < k - 1 \/ j = k - 1
              /\ k - 1 \in DOMAIN P /\ info.va = P[k - 1]
            BY <3>2, <3>3 DEF P
        <3> QED
            BY <3>5, <3>6
    <2>4. caller' \in live' \/ (caller' = Kproc /\ live' = {})
        BY <1>1, <2>1 DEF ExecOK
    <2>5. mem[new_mem] = ZeroRow
        BY <1>4, <2>1 DEF ExecOK
    <2>6. PICK image \in Images, n \in Nat : Loading(image, n)
        BY <2>1 DEF ExecOK
    <2>7. \A va \in VAs :
            Sees(np, va)' = IF Entered(va)' THEN {ZeroRow} ELSE FileSays(image, n, va)
        BY <1>3, <2>3, <2>5, <2>6 DEF Loading
    <2>8. Loading(image, n)'
        BY <1>1, <2>6, <2>7, SaysSame DEF Loading
    <2>9. pc' = "exec"
        BY <1>1, <1>4
    <2>10. ExecOK'
        BY <2>4, <2>8, <2>9 DEF ExecOK
    <2> QED
        BY <2>9, <2>10 DEF SpaceInv
<1>5. CASE pc = "forkmap"
    <2>1. ForkOK
        BY <1>5 DEF SpaceInv
    <2>2. pc' = "fork"
        BY <1>1, <1>5
    <2>3. \A va \in VAs : Sees(np, va)' \subseteq Sees(caller, va)'
        BY <1>3, <1>5, <2>1 DEF ForkOK
    <2>4. ASSUME NEW va \in VAs, Sees(caller, va)' # {}
          PROVE  Sees(np, va)' # {} \/ \E x \in Mappings, m \in Nat : At(old_list', x, m) /\ x.va = va
        BY <1>1, <1>3, <1>5, <2>1, <2>4 DEF ForkOK
    <2>5. ForkOK'
        BY <2>2, <2>3, <2>4 DEF ForkOK
    <2> QED
        BY <2>2, <2>5 DEF SpaceInv
<1> QED
    BY <1>1, <1>4, <1>5 DEF Mapping

LEMMA CopyPageSpace == ASSUME IInv, SpaceInv, CopyPage PROVE SpaceInv'
<1> DEFINE h == Head(old_list)
           pa0 == CopiedFrom(h)
<1>1. /\ pc = "fork" /\ old_list # <<>> /\ freelist # <<>> /\ freelist' = Tail(freelist)
      /\ new_mem' = Page /\ info' = h /\ old_list' = Tail(old_list)
      /\ mem' = [mem EXCEPT ![Page] = IF pa0 = Null THEN ZeroRow ELSE mem[pa0]]
      /\ pc' = "forkmap" /\ UNCHANGED <<used, live, pgtbl, mapping_list, caller, np>>
    BY DEF CopyPage, kmalloc, procs
<1>2. /\ TypeOK /\ ListedIsMapped /\ ForkOK /\ np \in used /\ caller \in used
      /\ caller \in Procs /\ old_list \in Seq(Mappings)
    BY <1>1 DEF IInv, SpaceInv, CallOK, Calling, TypeOK
<1>3. /\ h \in Mappings /\ At(old_list, h, Len(old_list)) /\ Len(old_list) \in Nat
      /\ \A x, m : At(Tail(old_list), x, m) <=> At(old_list, x, m) /\ m # Len(old_list)
    BY <1>1, <1>2, AtTail
<1>4. h.va \in VAs
    BY <1>3 DEF Mappings
<1>5. pa0 # Null /\ Sees(caller, h.va) = {mem[pa0]}
    <2>1. h \in ListOf(caller)
        BY <1>2, <1>3, ListOfAt
    <2>2. va_to_pa(mem, pgtbl[caller], h.va) # Null
        BY <1>2, <1>4, <2>1 DEF ListedIsMapped
    <2> QED
        BY <2>2 DEF CopiedFrom, Sees
<1> HIDE DEF pa0
<1>6. Page \in Pages
    BY <1>1, <1>2, AtTail DEF TypeOK, Page
<1>7. mem'[Page] = mem[pa0] /\ ChangedAt(Page)
    BY <1>1, <1>2, <1>5, <1>6 DEF TypeOK, ChangedAt
<1>8. \A va \in VAs : Sees(np, va)' = Sees(np, va) /\ Sees(caller, va)' = Sees(caller, va)
    <2>1. ProcsKept
        BY <1>1 DEF ProcsKept
    <2>2. SeesKept(used)
        BY <1>1, <1>7, <2>1, FreeSees
    <2>3. PICK n \in used, c \in used : n = np /\ c = caller
        BY <1>2
    <2>4. \A va \in VAs : Sees(n, va)' = Sees(n, va) /\ Sees(c, va)' = Sees(c, va)
        BY <2>2 DEF SeesKept
    <2> QED
        BY <1>1, <2>3, <2>4
<1>9. ASSUME NEW va \in VAs, Sees(caller, va) # {}
      PROVE  \/ Sees(np, va) # {}
             \/ \E x \in Mappings, m \in Nat : At(Tail(old_list), x, m) /\ x.va = va
             \/ va = h.va
    <2>1. ASSUME NEW x \in Mappings, NEW m \in Nat, At(old_list, x, m), x.va = va
          PROVE  va = h.va \/ At(Tail(old_list), x, m)
        <3>1. CASE m = Len(old_list)
            BY <1>2, <1>3, <2>1, <3>1, AtOne
        <3>2. CASE m # Len(old_list)
            BY <1>3, <2>1, <3>2
        <3> QED
            BY <3>1, <3>2
    <2>2. \/ Sees(np, va) # {}
          \/ \E x \in Mappings, m \in Nat : At(old_list, x, m) /\ x.va = va
        BY <1>1, <1>2, <1>9 DEF ForkOK
    <2> QED
        BY <2>1, <2>2
<1>10. ForkOK'
    <2>1. \A va \in VAs : Sees(np, va)' \subseteq Sees(caller, va)'
        BY <1>2, <1>8 DEF ForkOK
    <2>2. Sees(caller, info.va)' = {mem'[new_mem']}
        <3>1. PICK v \in VAs : v = h.va
            BY <1>4
        <3>2. Sees(caller, v)' = {mem'[Page]}
            BY <1>5, <1>7, <1>8, <3>1
        <3> QED
            BY <1>1, <3>1, <3>2
    <2>3. ASSUME NEW va \in VAs, Sees(caller, va)' # {}
          PROVE  \/ Sees(np, va)' # {}
                 \/ \E x \in Mappings, m \in Nat : At(old_list', x, m) /\ x.va = va
                 \/ va = info'.va
        BY <1>1, <1>8, <1>9, <2>3
    <2> QED
        BY <1>1, <2>1, <2>2, <2>3 DEF ForkOK
<1> QED
    BY <1>1, <1>10 DEF SpaceInv

RInv == IInv /\ BootOK /\ SpaceInv

LEMMA NextRInv == RInv /\ [Next]_vars => RInv'
<1> SUFFICES ASSUME RInv, [Next]_vars PROVE SpaceInv'
    BY NextIInv, NextBootOK DEF RInv
<1>1. IInv /\ SpaceInv
    BY DEF RInv
<1>2. CASE AllocPage \/ LoadSegment \/ MapLeaf \/ CopyPage
    BY <1>1, <1>2, AllocPageSpace, LoadSegmentSpace, MapLeafSpace, CopyPageSpace
<1>3. CASE ExecDone \/ ForkDone \/ KallocPanics \/ MmapPanics
    BY <1>3 DEF ExecDone, ForkDone, KallocPanics, MmapPanics, SpaceInv
<1>4. CASE Descend
    <2>1. SeesKept(used)
        BY <1>4, SameSees DEF Descend, pages, procs, SeesKept
    <2> QED
        BY <1>1, <1>4, <2>1, SpaceStays DEF Descend, pages, procs
<1>5. CASE NewTable
    BY <1>1, <1>5, NewTableSees, SpaceStays DEF NewTable, procs
<1>6. CASE Take
    <2>1. SeesKept(used)
        BY <1>6, SameSees DEF Take, procs, SeesKept
    <2> QED
        BY <1>1, <1>6, <2>1, SpaceStays DEF Take, procs, single
<1>7. ASSUME NEW c \in Procs \union {Kproc}, ExecStart(c) \/ ExecFails(c) PROVE SpaceInv'
    BY <1>1, <1>7, ExecStartSpace DEF ExecFails, SpaceInv
<1>8. ASSUME NEW p \in Procs, ForkStart(p) \/ Exit(p) PROVE SpaceInv'
    BY <1>1, <1>8, ForkStartSpace DEF Exit, SpaceInv
<1>9. ASSUME NEW p \in Procs, NEW va \in VAs, NEW i \in Offsets, NEW w \in Words, Store(p, va, i, w)
      PROVE  SpaceInv'
    BY <1>9 DEF Store, SpaceInv
<1>10. CASE Halted \/ UNCHANGED vars
    <2>1. UNCHANGED vars
        BY <1>10 DEF Halted
    <2>2. SeesKept(used)
        BY <2>1, SameSees DEF vars, pages, procs, SeesKept
    <2> QED
        BY <1>1, <2>1, <2>2, SpaceStays DEF vars, pages, procs, single
<1> QED
    BY <1>2, <1>3, <1>4, <1>5, <1>6, <1>7, <1>8, <1>9, <1>10 DEF Next

-----------------------------------------------------------------------------
(* THE REFINEMENT                                                          *)

(* The address space of p, before and after a step, by what p sees.        *)
LEMMA SpaceIs ==
    ASSUME NEW p
    PROVE  /\ DOMAIN SpaceOf(p) = {va \in VAs : p \in live /\ Sees(p, va) # {}}
           /\ SpaceOf(p) = [va \in DOMAIN SpaceOf(p) |-> SpaceOf(p)[va]]
           /\ \A va \in DOMAIN SpaceOf(p) :
                /\ Sees(p, va) = {SpaceOf(p)[va]}
                /\ va_to_pa(mem, pgtbl[p], va) # Null
                /\ SpaceOf(p)[va] = mem[va_to_pa(mem, pgtbl[p], va)]
BY DEF SpaceOf, Sees

LEMMA SpaceIsNext ==
    ASSUME NEW p
    PROVE  /\ DOMAIN SpaceOf(p)' = {va \in VAs : p \in live' /\ Sees(p, va)' # {}}
           /\ SpaceOf(p)' = [va \in DOMAIN SpaceOf(p)' |-> SpaceOf(p)'[va]]
           /\ \A va \in DOMAIN SpaceOf(p)' : Sees(p, va)' = {SpaceOf(p)'[va]}
BY DEF SpaceOf, Sees

LEMMA SpaceSame ==
    ASSUME NEW p, p \in live' <=> p \in live,
           p \in live => \A va \in VAs : Sees(p, va)' = Sees(p, va)
    PROVE  SpaceOf(p)' = SpaceOf(p)
<1> DEFINE f == SpaceOf(p)
           g == SpaceOf(p)'
<1>1. DOMAIN f = {va \in VAs : p \in live /\ Sees(p, va) # {}}
      /\ f = [va \in DOMAIN f |-> f[va]] /\ \A va \in DOMAIN f : Sees(p, va) = {f[va]}
    BY SpaceIs
<1>2. DOMAIN g = {va \in VAs : p \in live' /\ Sees(p, va)' # {}}
      /\ g = [va \in DOMAIN g |-> g[va]] /\ \A va \in DOMAIN g : Sees(p, va)' = {g[va]}
    BY SpaceIsNext
<1> HIDE DEF f, g
<1>3. DOMAIN g = DOMAIN f
    BY <1>1, <1>2
<1>4. \A va \in DOMAIN f : g[va] = f[va]
    <2> SUFFICES ASSUME NEW va \in DOMAIN f PROVE g[va] = f[va]
        OBVIOUS
    <2>1. va \in VAs /\ p \in live
        BY <1>1
    <2>2. {g[va]} = {f[va]}
        BY <1>1, <1>2, <1>3, <2>1
    <2> QED
        BY <2>2
<1> QED
    BY <1>1, <1>2, <1>3, <1>4 DEF f, g

Spaces == [p \in Procs |-> SpaceOf(p)]

LEMMA SpacesStay ==
    ASSUME IInv, live' = live, SeesKept(used)
    PROVE  UNCHANGED AS!asvars
<1>1. live \subseteq used
    BY DEF IInv, TypeOK
<1>2. \A p \in Procs : SpaceOf(p)' = SpaceOf(p)
    BY <1>1, SpaceSame DEF SeesKept
<1> QED
    BY <1>2 DEF AS!asvars

LEMMA InitRefines == Init => AS!ASInit
<1> SUFFICES ASSUME Init PROVE AS!ASInit
    OBVIOUS
<1>1. live = {}
    BY DEF Init
<1>2. ASSUME NEW p \in Procs PROVE SpaceOf(p) = AS!Empty
    BY <1>1 DEF SpaceOf, AS!Empty
<1> QED
    BY <1>1, <1>2 DEF AS!ASInit

LEMMA ExitRefines == ASSUME IInv, NEW p \in Procs, Exit(p) PROVE AS!Exit(p)
<1>1. p \in live /\ live' = live \ {p} /\ mem' = mem /\ pgtbl' = pgtbl
    BY DEF Exit, pages
<1>2. \A q \in Procs \ {p} : SpaceOf(q)' = SpaceOf(q)
    BY <1>1, SameSees, SpaceSame
<1>3. SpaceOf(p)' = AS!Empty
    BY <1>1 DEF SpaceOf, AS!Empty
<1> QED
    BY <1>1, <1>2, <1>3 DEF AS!Exit

LEMMA ExecDoneRefines ==
    ASSUME RInv, ExecDone
    PROVE  \E c \in Procs \union {Kproc}, n \in Procs : AS!Exec(c, n)
<1>1. /\ pc = "exec" /\ segments = <<>> /\ live' = live \union {np} /\ mem' = mem
      /\ pgtbl' = pgtbl
    BY DEF ExecDone, pages
<1>2. TypeOK /\ ExecOK /\ np \in used \ live /\ np \in Procs
      /\ caller \in Procs \union {Kproc}
    BY <1>1 DEF RInv, IInv, SpaceInv, CallOK, Calling, TypeOK
<1>3. PICK n \in Procs : n = np
    BY <1>2
<1>4. \A q \in Procs \ {n} : SpaceOf(q)' = SpaceOf(q)
    BY <1>1, <1>3, SameSees, SpaceSame
<1>5. \A va : ~ Entered(va)
    BY <1>1 DEF Entered
<1>6. PICK image \in Images, l \in Nat : Loading(image, l)
    BY <1>2 DEF ExecOK
<1>7. SpaceOf(n)' \in Programs
    <2> DEFINE g == SpaceOf(n)'
    <2>1. DOMAIN g = {va \in VAs : n \in live' /\ Sees(n, va)' # {}}
          /\ g = [va \in DOMAIN g |-> g[va]] /\ \A va \in DOMAIN g : Sees(n, va)' = {g[va]}
        BY SpaceIsNext
    <2>2. image \in Seq(Segments) /\ Len(image) \in Nat /\ DOMAIN image = 1..Len(image)
        BY ImagesAssumption, LenProperties
    <2>3. l = Len(image)
        <3>1. Len(segments) = 0
            BY <1>1, EmptySeq
        <3> QED
            BY <1>6, <2>2, <3>1 DEF Loading
    <2> HIDE DEF g
    <2>4. n \in live' /\ \A va \in VAs : Sees(n, va)' = FileSays(image, l, va)
        BY <1>1, <1>3, <1>5, <1>6, SameSees DEF Loading
    <2>5. DOMAIN g = PagesOf(image)
        <3>1. \A va \in DOMAIN g : va \in PagesOf(image)
            BY <2>1, <2>2, <2>3, <2>4, SaysAll
        <3>2. ASSUME NEW va \in PagesOf(image) PROVE va \in DOMAIN g
            <4>1. PICK m \in 1..l : va \in PagesIn(image[m])
                BY <2>2, <2>3 DEF PagesOf
            <4>2. image[m] \in Segments
                BY <2>2, <2>3, ElementOfSeq
            <4>3. image[m].pages \in Seq(VAs)
                BY <4>2 DEF Segments
            <4>4. va \in VAs
                <5>1. PICK j \in DOMAIN image[m].pages : va = image[m].pages[j]
                    BY <4>1 DEF PagesIn
                <5> QED
                    BY <4>3, <5>1, LenProperties, ElementOfSeq
            <4>5. FileSays(image, l, va) # {}
                BY <1>6, <4>1, <4>4 DEF Loading
            <4> QED
                BY <2>1, <2>4, <4>4, <4>5
        <3> QED
            BY <3>1, <3>2
    <2>6. ASSUME NEW va \in PagesOf(image) PROVE g[va] = Loaded(image)[va]
        <3>1. va \in VAs /\ FileSays(image, l, va) = {g[va]}
            BY <2>1, <2>4, <2>5
        <3>2. FileSays(image, l, va) = {Loaded(image)[va]}
            BY <2>2, <2>3, <3>1, SaysAll
        <3> QED
            BY <3>1, <3>2
    <2>7. g = Loaded(image)
        <3>1. Loaded(image) = [va \in PagesOf(image) |-> Loaded(image)[va]]
            BY DEF Loaded
        <3> HIDE DEF Loaded
        <3> QED
            BY <2>1, <2>5, <2>6, <3>1
    <2> QED
        BY <2>7 DEF Programs, g
<1>8. Spaces' = [Spaces EXCEPT ![n] = SpaceOf(n)']
    BY <1>4 DEF Spaces
<1>9. AS!Exec(caller, n)
    BY <1>1, <1>2, <1>3, <1>7, <1>8 DEF AS!Exec, ExecOK, Spaces
<1> QED
    BY <1>2, <1>9

LEMMA StoreRefines ==
    ASSUME IInv, NEW p \in Procs, NEW va \in VAs, NEW i \in Offsets, NEW w \in Words,
           Store(p, va, i, w)
    PROVE  AS!Store(p, va, i, w)
<1>1. PICK pa : pa = va_to_pa(mem, pgtbl[p], va)
    OBVIOUS
<1>2. /\ p \in live /\ pa # Null /\ WordStored(pa, i, w) /\ live' = live
      /\ pgtbl' = pgtbl
    BY <1>1 DEF Store, procs, WordStored
<1>3. live \subseteq used /\ p \in used
    BY <1>2 DEF IInv, TypeOK
<1>4. \A q \in used, vb \in VAs :
        Sees(q, vb)' = IF q = p /\ vb = va THEN {Stored(mem[pa], i, w)} ELSE Sees(q, vb)
    BY <1>1, <1>2, <1>3, WordSees
<1>5. \A q \in Procs \ {p} : SpaceOf(q)' = SpaceOf(q)
    BY <1>2, <1>3, <1>4, SpaceSame
<1> DEFINE f == SpaceOf(p)
           g == SpaceOf(p)'
<1>6. /\ DOMAIN f = {v \in VAs : p \in live /\ Sees(p, v) # {}}
      /\ f = [v \in DOMAIN f |-> f[v]] /\ \A v \in DOMAIN f : Sees(p, v) = {f[v]}
    BY SpaceIs
<1>7. /\ DOMAIN g = {v \in VAs : p \in live' /\ Sees(p, v)' # {}}
      /\ g = [v \in DOMAIN g |-> g[v]] /\ \A v \in DOMAIN g : Sees(p, v)' = {g[v]}
    BY SpaceIsNext
<1>8. Sees(p, va) = {mem[pa]}
    BY <1>1, <1>2 DEF Sees
<1> HIDE DEF f, g
<1>9. va \in DOMAIN f /\ f[va] = mem[pa]
    <2>1. va \in DOMAIN f
        BY <1>2, <1>6, <1>8
    <2>2. {f[va]} = {mem[pa]}
        BY <1>6, <1>8, <2>1
    <2> QED
        BY <2>1, <2>2
<1>10. DOMAIN g = DOMAIN f
    BY <1>2, <1>3, <1>4, <1>6, <1>7, <1>8
<1>11. ASSUME NEW v \in DOMAIN f PROVE g[v] = IF v = va THEN Stored(f[va], i, w) ELSE f[v]
    <2>1. v \in VAs /\ Sees(p, v)' = {g[v]} /\ Sees(p, v) = {f[v]}
        BY <1>6, <1>7, <1>10
    <2>2. CASE v = va
        <3>1. {g[v]} = {Stored(mem[pa], i, w)}
            BY <1>3, <1>4, <2>1, <2>2
        <3> QED
            BY <1>9, <2>2, <3>1
    <2>3. CASE v # va
        <3>1. {g[v]} = {f[v]}
            BY <1>3, <1>4, <2>1, <2>3
        <3> QED
            BY <2>3, <3>1
    <2> QED
        BY <2>2, <2>3
<1>12. g = [f EXCEPT ![va] = Stored(f[va], i, w)]
    BY <1>6, <1>7, <1>9, <1>10, <1>11
<1>13. Spaces' = [Spaces EXCEPT ![p] = g]
    BY <1>5 DEF Spaces, g
<1>14. Spaces[p] = f
    BY DEF Spaces, f
<1>15. Spaces' = [Spaces EXCEPT ![p][va][i] = w]
    BY <1>12, <1>13, <1>14 DEF Stored
<1> QED
    BY <1>2, <1>9, <1>14, <1>15 DEF AS!Store, Spaces

(* When nothing is left to copy, parent and child see the same.            *)
LEMMA ForkDoneRefines == ASSUME RInv, ForkDone PROVE \E p, n \in Procs : AS!Fork(p, n)
<1>1. /\ pc = "fork" /\ old_list = <<>> /\ live' = live \union {np} /\ pgtbl' = pgtbl
    BY DEF ForkDone
<1>2. /\ IInv /\ ForkOK /\ np \in used \ live /\ caller \in live /\ np # caller
      /\ live \subseteq used /\ used \subseteq Procs
    BY <1>1 DEF RInv, IInv, SpaceInv, CallOK, Calling, TypeOK
<1>3. PICK n \in used, c \in live : n = np /\ c = caller
    BY <1>2
<1>4. n \in Procs /\ c \in Procs /\ n \notin live /\ n # c /\ c \in used
    BY <1>2, <1>3
<1>5. \A va \in VAs : Sees(n, va) = Sees(c, va)
    <2> SUFFICES ASSUME NEW va \in VAs PROVE Sees(n, va) = Sees(c, va)
        OBVIOUS
    <2>1. Sees(n, va) \subseteq Sees(c, va)
        BY <1>2, <1>3 DEF ForkOK
    <2>2. Sees(c, va) # {} => Sees(n, va) # {}
        BY <1>1, <1>2, <1>3, AtEmpty DEF ForkOK
    <2>3. Sees(c, va) = {} \/ \E r : Sees(c, va) = {r}
        BY DEF Sees
    <2> QED
        BY <2>1, <2>2, <2>3
<1>6. PICK frame \in VAs, a0 \in Offsets, context \in [ContextWords -> Words] :
        ChildSeen(n, frame, a0, context)
    BY <1>2, <1>3, ChildSees
<1>7. \A q, va : Sees(q, va) = {} \/ \E row : Sees(q, va) = {row}
    BY DEF Sees
<1>8. \A q \in Procs \ {n} : SpaceOf(q)' = SpaceOf(q)
    <2> SUFFICES ASSUME NEW q \in Procs \ {n} PROVE SpaceOf(q)' = SpaceOf(q)
        OBVIOUS
    <2>1. q \in live' <=> q \in live
        BY <1>1, <1>3
    <2>2. ASSUME q \in live, NEW va \in VAs PROVE Sees(q, va)' = Sees(q, va)
        <3>1. q \in used /\ q # n
            BY <1>2, <2>2
        <3>2. CASE Sees(q, va) = {}
            BY <1>6, <3>1, <3>2 DEF ChildSeen
        <3>3. ASSUME NEW row, Sees(q, va) = {row} PROVE Sees(q, va)' = Sees(q, va)
            BY <1>6, <3>1, <3>3 DEF ChildSeen
        <3> QED
            BY <1>7, <3>2, <3>3
    <2> QED
        BY <2>1, <2>2, SpaceSame
<1> DEFINE f == SpaceOf(c)
           g == SpaceOf(n)'
<1>9. /\ DOMAIN f = {v \in VAs : c \in live /\ Sees(c, v) # {}}
      /\ f = [v \in DOMAIN f |-> f[v]] /\ \A v \in DOMAIN f : Sees(c, v) = {f[v]}
    BY SpaceIs
<1>10. /\ DOMAIN g = {v \in VAs : n \in live' /\ Sees(n, v)' # {}}
       /\ g = [v \in DOMAIN g |-> g[v]] /\ \A v \in DOMAIN g : Sees(n, v)' = {g[v]}
    BY SpaceIsNext
<1> HIDE DEF f, g
<1>11. DOMAIN g = DOMAIN f
    <2>1. n \in live'
        BY <1>1, <1>3
    <2>2. \A v \in VAs : Sees(n, v)' = {} <=> Sees(c, v) = {}
        BY <1>5, <1>6, <1>7 DEF ChildSeen
    <2> QED
        BY <1>9, <1>10, <2>1, <2>2
<1>12. ASSUME NEW v \in DOMAIN f PROVE g[v] = ChildRow(f[v], v, frame, a0, context)
    <2>1. v \in VAs /\ Sees(n, v)' = {g[v]} /\ Sees(n, v) = {f[v]}
        BY <1>5, <1>9, <1>10, <1>11
    <2>2. {g[v]} = {ChildRow(f[v], v, frame, a0, context)}
        BY <1>6, <2>1 DEF ChildSeen
    <2> QED
        BY <2>2
<1>13. g = [v \in DOMAIN f |-> ChildRow(f[v], v, frame, a0, context)]
    BY <1>10, <1>11, <1>12
<1>14. Spaces' = [Spaces EXCEPT ![n] = g] /\ Spaces[c] = f
    BY <1>4, <1>8 DEF Spaces, g, f
<1>15. AS!Fork(c, n)
    <2>1. Spaces' = [Spaces EXCEPT ![n] =
                [va \in DOMAIN Spaces[c] |-> [i \in Offsets |->
                    IF va = StackPage /\ i \in ContextWords THEN context[i]
                    ELSE IF va = frame /\ i = a0 THEN 0
                    ELSE Spaces[c][va][i]]]]
        BY <1>13, <1>14 DEF ChildRow
    <2>2. c \in live /\ n \notin live /\ live' = live \union {n}
        BY <1>1, <1>3, <1>4
    <2>3. \E fr \in VAs, a \in Offsets, ctx \in [ContextWords -> Words] :
            Spaces' = [Spaces EXCEPT ![n] =
                [va \in DOMAIN Spaces[c] |-> [i \in Offsets |->
                    IF va = StackPage /\ i \in ContextWords THEN ctx[i]
                    ELSE IF va = fr /\ i = a THEN 0
                    ELSE Spaces[c][va][i]]]]
        BY <2>1
    <2> QED
        BY <2>2, <2>3 DEF AS!Fork, Spaces
<1> QED
    BY <1>4, <1>15

LEMMA NextRefines == RInv /\ [Next]_vars => [AS!ASNext]_(AS!asvars)
<1> SUFFICES ASSUME RInv, [Next]_vars PROVE AS!ASNext \/ UNCHANGED AS!asvars
    OBVIOUS
<1>1. IInv /\ BootOK /\ SpaceInv /\ TypeOK
    BY DEF RInv, IInv
<1>2. CASE AllocPage
    <2>1. ChangedAt(Page) /\ ProcsKept /\ freelist # <<>> /\ freelist' = Tail(freelist)
          /\ used' = used /\ live' = live
        BY <1>1, <1>2 DEF AllocPage, kmalloc, procs, ChangedAt, ProcsKept, TypeOK
    <2> QED
        BY <1>1, <2>1, FreeSees, SpacesStay
<1>3. CASE CopyPage
    <2>1. ChangedAt(Page) /\ ProcsKept /\ freelist # <<>> /\ freelist' = Tail(freelist)
          /\ used' = used /\ live' = live
        BY <1>1, <1>3 DEF CopyPage, kmalloc, procs, ChangedAt, ProcsKept, TypeOK
    <2> QED
        BY <1>1, <2>1, FreeSees, SpacesStay
<1>4. CASE LoadSegment
    <2>1. live' = live /\ live \subseteq used /\ np \notin live
        BY <1>1, <1>4 DEF LoadSegment, procs, TypeOK, IInv, CallOK, Calling
    <2>2. ASSUME NEW q \in live, NEW va \in VAs PROVE Sees(q, va)' = Sees(q, va)
        <3>1. q \in used /\ q # np
            BY <2>1
        <3>2. Sees(q, va) = {} \/ \E row : Sees(q, va) = {row}
            BY DEF Sees
        <3>3. /\ Sees(q, va) = {} => Sees(q, va)' = {}
              /\ \A row : Sees(q, va) = {row} => Sees(q, va)' = {row}
            BY <1>1, <1>4, <3>1, LoadSees
        <3> QED
            BY <3>2, <3>3
    <2>3. \A p \in Procs : SpaceOf(p)' = SpaceOf(p)
        BY <2>1, <2>2, SpaceSame
    <2> QED
        BY <2>1, <2>3 DEF AS!asvars
<1>5. CASE MapLeaf
    <2>1. live' = live /\ live \subseteq used /\ np \notin live
        BY <1>1, <1>5 DEF MapLeaf, Mapping, TypeOK, IInv, CallOK, Calling
    <2>2. \A q \in live, va \in VAs : Sees(q, va)' = Sees(q, va)
        BY <1>1, <1>5, <2>1, LeafSees
    <2>3. \A p \in Procs : SpaceOf(p)' = SpaceOf(p)
        BY <2>1, <2>2, SpaceSame
    <2> QED
        BY <2>1, <2>3 DEF AS!asvars
<1>6. CASE ExecDone
    BY <1>6, ExecDoneRefines DEF AS!ASNext
<1>7. CASE ForkDone
    BY <1>7, ForkDoneRefines DEF AS!ASNext
<1>8. CASE NewTable
    BY <1>1, <1>8, NewTableSees, SpacesStay DEF NewTable, procs
<1>9. CASE Descend \/ Take \/ KallocPanics \/ MmapPanics \/ Halted \/ UNCHANGED vars
    <2>1. mem' = mem /\ pgtbl' = pgtbl /\ live' = live
        BY <1>9 DEF Descend, Take, KallocPanics, MmapPanics, Halted, vars, pages, procs
    <2>2. SeesKept(used)
        BY <2>1, SameSees DEF SeesKept
    <2> QED
        BY <1>1, <2>1, <2>2, SpacesStay
<1>10. ASSUME NEW c \in Procs \union {Kproc}, ExecStart(c) PROVE UNCHANGED AS!asvars
    <2>1. live' = live /\ \E p \in Procs : proc_alloc(p)
        BY <1>10 DEF ExecStart
    <2> QED
        BY <1>1, <2>1, SlotSees, SpacesStay
<1>11. ASSUME NEW c \in Procs \union {Kproc}, ExecFails(c) PROVE UNCHANGED AS!asvars
    <2>1. live' = live
        BY <1>11 DEF ExecFails
    <2>2. SeesKept(used)
        BY <1>1, <1>11, FailSees
    <2> QED
        BY <1>1, <2>1, <2>2, SpacesStay
<1>12. ASSUME NEW c \in Procs, ForkStart(c) PROVE UNCHANGED AS!asvars
    <2>1. live' = live /\ \E p \in Procs : proc_alloc(p)
        BY <1>12 DEF ForkStart
    <2> QED
        BY <1>1, <2>1, SlotSees, SpacesStay
<1>13. ASSUME NEW p \in Procs, Exit(p) PROVE AS!ASNext
    BY <1>1, <1>13, ExitRefines DEF AS!ASNext
<1>14. ASSUME NEW p \in Procs, NEW va \in VAs, NEW i \in Offsets, NEW w \in Words, Store(p, va, i, w)
       PROVE  AS!ASNext
    BY <1>1, <1>14, StoreRefines DEF AS!ASNext
<1> QED
    BY <1>2, <1>3, <1>4, <1>5, <1>6, <1>7, <1>8, <1>9, <1>10, <1>11, <1>12, <1>13, <1>14 DEF Next

(* What the memory layer promises: execve() gives a process exactly the    *)
(* pages of its file, each with what the last segment on it holds, fork()  *)
(* a copy in which only a0 and the context differ, a store reaches one     *)
(* process, and everything else, failed calls, running out of pages and    *)
(* pages that other calls take included, leaves all address spaces alone.  *)
THEOREM SpacesArePrivate == Spec => PrivateSpaces
<1>1. Init => RInv
    BY InitIInv DEF RInv, BootOK, SpaceInv, Init
<1> QED
    BY <1>1, NextRInv, InitRefines, NextRefines, PTL DEF Spec, PrivateSpaces, AS!ASSpec

=============================================================================
