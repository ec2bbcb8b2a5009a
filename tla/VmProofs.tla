------------------------------ MODULE VmProofs ------------------------------
(***************************************************************************)
(* Proofs about physical pages and address spaces, for every number of     *)
(* processes and pages, every shape of program and every size of table.    *)
(***************************************************************************)
EXTENDS Vm, SequenceTheorems, FiniteSetTheorems, TLAPS

(* The lists of the memory layer change at their heads, so an element      *)
(* keeps its distance from the end: x is the m-th of s from the end.       *)
At(s, x, m) == \E n \in 1..Len(s) : s[n] = x /\ m = Len(s) + 1 - n

(* The uses a page can have, with the place of each: the position on a     *)
(* list, the process, or the table and entry that point to the page.       *)
Use(kind, up, ix) == [kind |-> kind, up |-> up, ix |-> ix]
Uses ==
    [kind : {"free", "old"}, up : Nat, ix : {0}]
    \union [kind : {"taken", "info", "new"}, up : {0}, ix : {0}]
    \union [kind : {"root"}, up : Procs, ix : {0}]
    \union [kind : {"directory"}, up : Pages, ix : RootIndex]
    \union [kind : {"table"}, up : Pages, ix : Offsets]
    \union [kind : {"mapping"}, up : Procs, ix : Nat]

-----------------------------------------------------------------------------
(* Lemmas about lists.                                                     *)

LEMMA AtIn ==
    ASSUME NEW S, NEW s \in Seq(S), NEW x, NEW m, At(s, x, m)
    PROVE  x \in S /\ m \in 1..Len(s) /\ m \in Nat /\ Len(s) \in Nat
<1>1. Len(s) \in Nat /\ \A n \in 1..Len(s) : s[n] \in S
    BY LenProperties, ElementOfSeq
<1> QED
    BY <1>1 DEF At

LEMMA AtOne ==
    ASSUME NEW S, NEW s \in Seq(S), NEW x, NEW y, NEW m, At(s, x, m), At(s, y, m)
    PROVE  x = y
<1>1. Len(s) \in Nat
    BY LenProperties
<1>2. PICK n1 \in 1..Len(s) : s[n1] = x /\ m = Len(s) + 1 - n1
    BY DEF At
<1>3. PICK n2 \in 1..Len(s) : s[n2] = y /\ m = Len(s) + 1 - n2
    BY DEF At
<1>4. n1 = n2
    BY <1>1, <1>2, <1>3
<1> QED
    BY <1>2, <1>3, <1>4

LEMMA AtEmpty == \A x, m : ~ At(<<>>, x, m)
<1>1. Len(<<>>) = 0
    BY EmptySeq
<1> QED
    BY <1>1 DEF At

(* Taking the head off a list.                                             *)
LEMMA AtTail ==
    ASSUME NEW S, NEW s \in Seq(S), s # <<>>
    PROVE  /\ Head(s) \in S /\ Tail(s) \in Seq(S) /\ Len(s) \in Nat \ {0}
           /\ Len(Tail(s)) = Len(s) - 1
           /\ At(s, Head(s), Len(s))
           /\ \A x, m : At(Tail(s), x, m) <=> At(s, x, m) /\ m # Len(s)
<1>1. /\ Head(s) \in S /\ Tail(s) \in Seq(S) /\ Len(s) \in Nat /\ Len(s) > 0
      /\ Head(s) = s[1] /\ Len(Tail(s)) = Len(s) - 1
      /\ \A i \in 1..Len(Tail(s)) : Tail(s)[i] = s[i + 1]
    BY HeadTailProperties, LenProperties, EmptySeq
<1> DEFINE t == Tail(s)
<1> HIDE DEF t
<1>2. PICK l \in Nat : l = Len(s) /\ l > 0
    BY <1>1
<1>3. Len(t) = l - 1 /\ \A i \in 1..(l - 1) : t[i] = s[i + 1]
    BY <1>1, <1>2 DEF t
<1>4. At(s, Head(s), Len(s))
    <2>1. 1 \in 1..Len(s) /\ Len(s) = Len(s) + 1 - 1
        BY <1>2
    <2> QED
        BY <1>1, <2>1 DEF At
<1>5. ASSUME NEW x, NEW m, At(t, x, m) PROVE At(s, x, m) /\ m # Len(s)
    <2>1. PICK n \in 1..(l - 1) : t[n] = x /\ m = l - 1 + 1 - n
        BY <1>3, <1>5 DEF At
    <2>2. n + 1 \in 1..l /\ s[n + 1] = x /\ m = l + 1 - (n + 1) /\ m # l
        BY <1>2, <1>3, <2>1
    <2> QED
        BY <1>2, <2>2 DEF At
<1>6. ASSUME NEW x, NEW m, At(s, x, m), m # Len(s) PROVE At(t, x, m)
    <2>1. PICK n \in 1..l : s[n] = x /\ m = l + 1 - n
        BY <1>2, <1>6 DEF At
    <2>2. PICK i \in 1..(l - 1) : n = i + 1
        <3>1. n # 1
            BY <1>2, <1>6, <2>1
        <3>2. n - 1 \in 1..(l - 1) /\ n = (n - 1) + 1
            BY <1>2, <3>1
        <3> QED
            BY <3>2
    <2>3. t[i] = x /\ m = l - 1 + 1 - i
        BY <1>2, <1>3, <2>1, <2>2
    <2> QED
        BY <1>3, <2>3 DEF At
<1> QED
    BY <1>1, <1>2, <1>4, <1>5, <1>6 DEF t

(* Pushing onto a list.                                                    *)
LEMMA AtPush ==
    ASSUME NEW S, NEW s \in Seq(S), NEW y \in S
    PROVE  /\ Push(y, s) \in Seq(S) /\ Len(s) \in Nat /\ Len(Push(y, s)) = Len(s) + 1
           /\ \A x, m : At(Push(y, s), x, m) <=> At(s, x, m) \/ (x = y /\ m = Len(s) + 1)
<1> DEFINE t == Push(y, s)
<1>1. <<y>> \in Seq(S) /\ Len(<<y>>) = 1 /\ <<y>>[1] = y
    OBVIOUS
<1>2. PICK l \in Nat : l = Len(s)
    BY LenProperties
<1>3. /\ t \in Seq(S) /\ Len(t) = 1 + Len(s)
      /\ \A i \in 1..(1 + Len(s)) : t[i] = IF i <= 1 THEN <<y>>[i] ELSE s[i - 1]
    <2> HIDE DEF t
    <2>1. t = <<y>> \o s
        BY DEF t, Push
    <2> DEFINE u == <<y>>
    <2> HIDE DEF u
    <2>2. u \in Seq(S) /\ Len(u) = 1
        BY <1>1 DEF u
    <2>3. /\ u \o s \in Seq(S) /\ Len(u \o s) = Len(u) + Len(s)
          /\ \A i \in 1..(Len(u) + Len(s)) :
                (u \o s)[i] = IF i <= Len(u) THEN u[i] ELSE s[i - Len(u)]
        BY <2>2, ConcatProperties
    <2> QED
        BY <2>1, <2>2, <2>3, Zenon DEF u
<1> HIDE DEF t
<1>4. /\ Len(t) = l + 1 /\ t[1] = y /\ \A i \in 1..l : t[i + 1] = s[i]
    <2>1. Len(t) = l + 1
        BY <1>2, <1>3
    <2>2. 1 \in 1..(1 + Len(s)) /\ 1 <= 1
        BY <1>2
    <2>3. t[1] = y
        BY <1>1, <1>3, <2>2
    <2>4. ASSUME NEW i \in 1..l PROVE t[i + 1] = s[i]
        <3>1. i + 1 \in 1..(1 + Len(s)) /\ ~ (i + 1 <= 1) /\ i + 1 - 1 = i
            BY <1>2
        <3> QED
            BY <1>3, <3>1
    <2> QED
        BY <2>1, <2>3, <2>4
<1>5. ASSUME NEW x, NEW m, At(t, x, m) PROVE At(s, x, m) \/ (x = y /\ m = Len(s) + 1)
    <2>1. PICK n \in 1..(l + 1) : t[n] = x /\ m = l + 1 + 1 - n
        BY <1>4, <1>5 DEF At
    <2>2. CASE n = 1
        BY <1>2, <1>4, <2>1, <2>2
    <2>3. CASE n # 1
        <3>1. PICK i \in 1..l : n = i + 1
            <4>1. n - 1 \in 1..l /\ n = (n - 1) + 1
                BY <2>3
            <4> QED
                BY <4>1
        <3>2. s[i] = x /\ m = l + 1 - i
            BY <1>4, <2>1, <3>1
        <3> QED
            BY <1>2, <3>2 DEF At
    <2> QED
        BY <2>2, <2>3
<1>6. ASSUME NEW x, NEW m, At(s, x, m) PROVE At(t, x, m)
    <2>1. PICK n \in 1..l : s[n] = x /\ m = l + 1 - n
        BY <1>2, <1>6 DEF At
    <2>2. n + 1 \in 1..(l + 1) /\ t[n + 1] = x /\ m = l + 1 + 1 - (n + 1)
        BY <1>4, <2>1
    <2> QED
        BY <1>4, <2>2 DEF At
<1>7. At(t, y, Len(s) + 1)
    <2>1. 1 \in 1..(l + 1) /\ l + 1 = l + 1 + 1 - 1
        OBVIOUS
    <2> QED
        BY <1>2, <1>4, <2>1 DEF At
<1> QED
    BY <1>2, <1>3, <1>4, <1>5, <1>6, <1>7 DEF t

-----------------------------------------------------------------------------
(* THE INVARIANT                                                           *)

(* own[pg] is the use of page pg, and of no other page: each part says of  *)
(* one kind of use where it comes from.                                    *)
OwnFree(own) == \A pg \in Pages, m \in Nat :
    own[pg] = Use("free", m, 0) <=> At(freelist, pg, m)
OwnTaken(own) == \A pg \in Pages :
    own[pg] = Use("taken", 0, 0) <=> pg \in taken
OwnRoots(own) == \A pg \in Pages, p \in Procs :
    own[pg] = Use("root", p, 0) <=> p \in used /\ pgtbl[p] = pg
OwnDirs(own) == \A pg, t \in Pages, i \in RootIndex :
    own[pg] = Use("directory", t, i) <=> own[t].kind = "root" /\ mem[t][i] = pg
OwnTables(own) == \A pg, t \in Pages, i \in Offsets :
    own[pg] = Use("table", t, i) <=> own[t].kind = "directory" /\ mem[t][i] = pg
OwnMappings(own) == \A pg \in Pages, p \in Procs, m \in Nat :
    own[pg] = Use("mapping", p, m) <=>
        p \in used /\ \E va \in VAs : At(mapping_list[p], [va |-> va, pa |-> pg], m)
OwnOld(own) == \A pg \in Pages, m \in Nat :
    own[pg] = Use("old", m, 0) <=> \E va \in VAs : At(old_list, [va |-> va, pa |-> pg], m)
OwnCall(own) == \A pg \in Pages :
    /\ own[pg] = Use("info", 0, 0) <=> info.pa = pg
    /\ own[pg] = Use("new", 0, 0) <=> new_mem = pg

(* Tables of all levels hold pages, and a process in use has a root.  The  *)
(* entries of a root that no user address selects do not count: there      *)
(* proc_free() may have left the address of a chunk.                       *)
IsTable(own, pg) == own[pg].kind \in {"root", "directory", "table"}
TableIx(own, t) == IF own[t].kind = "root" THEN RootIndex ELSE Offsets
TableRows(own) ==
    /\ \A t \in Pages : IsTable(own, t) =>
            \A i \in TableIx(own, t) : mem[t][i] \in Pages \union {Null}
    /\ \A p \in used : pgtbl[p] \in Pages

Owned(own) ==
    /\ own \in [Pages -> Uses]
    /\ OwnFree(own) /\ OwnTaken(own) /\ OwnRoots(own) /\ OwnDirs(own) /\ OwnTables(own)
    /\ OwnMappings(own) /\ OwnOld(own) /\ OwnCall(own) /\ TableRows(own)

(* Memory m2 has the tables that mem has.                                  *)
KeepsTables(own, m2) == \A t \in Pages : IsTable(own, t) =>
    \A i \in TableIx(own, t) : m2[t][i] = mem[t][i]

(* The tables on the way to page va of process p.                          *)
Dir(m, p, va) == Entry(m, pgtbl[p], PX(2, va))
Tab(m, p, va) == Entry(m, Dir(m, p, va), PX(1, va))

(* The call in progress: the caller and the new process are two, what is   *)
(* still to do is gone when the call ends, and __map_single_page() is on   *)
(* the way to its page.                                                    *)
Calling == pc \in {"exec", "execmap", "fork", "forkmap"}
CallOK ==
    /\ pc = "idle" => caller = Kproc /\ np = Kproc
    /\ pc \in {"idle", "exec", "execmap"} => old_list = <<>>
    /\ pc \in {"idle", "exec", "execmap", "fork"} => info.pa = Null
    /\ pc \in {"idle", "exec", "fork"} => new_mem = Null
    /\ Calling => np \in used \ live /\ np # caller
    /\ pc \in {"fork", "forkmap"} => caller \in live
    /\ Mapping => new_mem \in Pages /\ iter_pagetable \in Pages
    /\ pc = "forkmap" => info.pa \in Pages
    /\ Mapping => iter_pagetable = CASE level = 2 -> pgtbl[np]
                                     [] level = 1 -> Dir(mem, np, info.va)
                                     [] level = 0 -> Tab(mem, np, info.va)

IInv == TypeOK /\ (\E own : Owned(own)) /\ ListedIsMapped /\ CallOK

(* The first two pages given out are the descriptor table and the root     *)
(* table of process 1.  A failing exec() writes to the latter, and it is   *)
(* never given back.                                                       *)
BootOK == IF used = {} THEN freelist = [n \in Pages |-> NPages + 1 - n]
          ELSE 1 \in used /\ pgtbl[1] = NPages - 1

-----------------------------------------------------------------------------
(* Lemmas about the state.                                                 *)

LEMMA Basics ==
    /\ Null \notin Pages /\ Kproc \notin Procs /\ Pages \subseteq Nat \ {0}
    /\ Procs \subseteq Nat \ {0} /\ Junk \notin Pages
BY SizesVmAssumption DEF Pages, Procs, Null, Kproc, Junk

LEMMA UseFields ==
    \A k1, u1, x1 : /\ Use(k1, u1, x1).kind = k1 /\ Use(k1, u1, x1).up = u1
                    /\ Use(k1, u1, x1).ix = x1
BY DEF Use

(* A use has the form that its kind says.                                  *)
LEMMA UsesForm ==
    ASSUME NEW u \in Uses
    PROVE  /\ u = Use(u.kind, u.up, u.ix)
           /\ u.kind \in {"free", "old"} => u.up \in Nat /\ u.ix = 0
           /\ u.kind \in {"taken", "info", "new"} => u.up = 0 /\ u.ix = 0
           /\ u.kind = "root" => u.up \in Procs /\ u.ix = 0
           /\ u.kind = "directory" => u.up \in Pages /\ u.ix \in RootIndex
           /\ u.kind = "table" => u.up \in Pages /\ u.ix \in Offsets
           /\ u.kind = "mapping" => u.up \in Procs /\ u.ix \in Nat
           /\ u.kind \in {"free", "old", "taken", "info", "new", "root", "directory", "table",
                          "mapping"}
BY DEF Uses, Use

LEMMA UsesMade ==
    /\ \A m \in Nat : Use("free", m, 0) \in Uses /\ Use("old", m, 0) \in Uses
    /\ Use("taken", 0, 0) \in Uses /\ Use("info", 0, 0) \in Uses /\ Use("new", 0, 0) \in Uses
    /\ \A p \in Procs : Use("root", p, 0) \in Uses
    /\ \A t \in Pages, i \in RootIndex : Use("directory", t, i) \in Uses
    /\ \A t \in Pages, i \in Offsets : Use("table", t, i) \in Uses
    /\ \A p \in Procs, m \in Nat : Use("mapping", p, m) \in Uses
BY DEF Uses, Use

LEMMA Indices ==
    /\ \A va \in VAs : /\ PX(2, va) = va[1] /\ PX(1, va) = va[2] /\ PX(0, va) = va[3]
                       /\ PX(2, va) \in RootIndex /\ \A l \in 0..2 : PX(l, va) \in Offsets
    /\ RootIndex \subseteq Offsets
    /\ \A va, vb \in VAs : (\A l \in 0..2 : PX(l, va) = PX(l, vb)) => va = vb
<1>1. ASSUME NEW va \in VAs
      PROVE  /\ PX(2, va) = va[1] /\ PX(1, va) = va[2] /\ PX(0, va) = va[3]
             /\ PX(2, va) \in RootIndex /\ \A l \in 0..2 : PX(l, va) \in Offsets
    <2>1. va[1] \in RootIndex /\ va[2] \in Offsets /\ va[3] \in Offsets /\ va[1] \in Offsets
        BY IndexAssumption
    <2>2. PX(2, va) = va[1] /\ PX(1, va) = va[2] /\ PX(0, va) = va[3]
        BY DEF PX
    <2> QED
        BY <2>1, <2>2
<1>2. ASSUME NEW va \in VAs, NEW vb \in VAs, \A l \in 0..2 : PX(l, va) = PX(l, vb)
      PROVE  va = vb
    <2>1. va[1] = vb[1] /\ va[2] = vb[2] /\ va[3] = vb[3]
        BY <1>1, <1>2
    <2>2. va = <<va[1], va[2], va[3]>> /\ vb = <<vb[1], vb[2], vb[3]>>
        BY IndexAssumption
    <2> QED
        BY <2>1, <2>2
<1> QED
    BY <1>1, <1>2, IndexAssumption

LEMMA Walked == \A m, p, va : va_to_pa(m, pgtbl[p], va) = Entry(m, Tab(m, p, va), PX(0, va))
BY DEF va_to_pa, Tab, Dir

(* The way from a process to its page: each table is owned by the entry    *)
(* that leads to it.                                                       *)
LEMMA Path ==
    ASSUME TypeOK, NEW own, Owned(own), NEW p \in used, NEW va \in VAs
    PROVE  /\ p \in Procs /\ pgtbl[p] \in Pages /\ own[pgtbl[p]] = Use("root", p, 0)
           /\ Dir(mem, p, va) = Null
              \/ /\ Dir(mem, p, va) \in Pages
                 /\ own[Dir(mem, p, va)] = Use("directory", pgtbl[p], PX(2, va))
           /\ Tab(mem, p, va) = Null
              \/ /\ Dir(mem, p, va) # Null /\ Tab(mem, p, va) \in Pages
                 /\ own[Tab(mem, p, va)] = Use("table", Dir(mem, p, va), PX(1, va))
           /\ va_to_pa(mem, pgtbl[p], va) = Null
              \/ /\ Tab(mem, p, va) # Null
                 /\ va_to_pa(mem, pgtbl[p], va) = mem[Tab(mem, p, va)][PX(0, va)]
                 /\ va_to_pa(mem, pgtbl[p], va) \in Pages
<1>1. p \in Procs /\ pgtbl[p] \in Pages /\ PX(2, va) \in RootIndex /\ PX(1, va) \in Offsets
      /\ PX(0, va) \in Offsets
    BY Indices DEF TypeOK, Owned, TableRows
<1>2. own[pgtbl[p]] = Use("root", p, 0) /\ own[pgtbl[p]].kind = "root"
    BY <1>1, UseFields DEF Owned, OwnRoots
<1> DEFINE d == Dir(mem, p, va)
           t == Tab(mem, p, va)
           pa == va_to_pa(mem, pgtbl[p], va)
<1>3. d = mem[pgtbl[p]][PX(2, va)]
    BY <1>1, Basics DEF Dir, Entry
<1>4. t = Entry(mem, d, PX(1, va)) /\ pa = Entry(mem, t, PX(0, va))
    BY Walked DEF Tab
<1> HIDE DEF d, t, pa
<1>5. d = Null \/ (d \in Pages /\ own[d] = Use("directory", pgtbl[p], PX(2, va)))
    BY <1>1, <1>2, <1>3 DEF Owned, TableRows, TableIx, IsTable, OwnDirs
<1>6. t = Null \/ (d # Null /\ t \in Pages /\ own[t] = Use("table", d, PX(1, va)))
    <2>1. CASE d = Null
        BY <1>4, <2>1 DEF Entry
    <2>2. CASE d # Null
        <3>1. own[d].kind = "directory" /\ t = mem[d][PX(1, va)]
            BY <1>4, <1>5, <2>2, UseFields DEF Entry
        <3> QED
            BY <1>1, <1>5, <2>2, <3>1 DEF Owned, TableRows, TableIx, IsTable, OwnTables
    <2> QED
        BY <2>1, <2>2
<1>7. pa = Null \/ (t # Null /\ pa = mem[t][PX(0, va)] /\ pa \in Pages)
    <2>1. CASE t = Null
        BY <1>4, <2>1 DEF Entry
    <2>2. CASE t # Null
        <3>1. own[t].kind = "table" /\ pa = mem[t][PX(0, va)]
            BY <1>4, <1>6, <2>2, UseFields DEF Entry
        <3> QED
            BY <1>1, <1>6, <2>2, <3>1 DEF Owned, TableRows, TableIx, IsTable
    <2> QED
        BY <2>1, <2>2
<1> QED
    BY <1>1, <1>2, <1>5, <1>6, <1>7 DEF d, t, pa

(* Membership in a list by position.                                       *)
LEMMA InListAt ==
    ASSUME NEW S, NEW s \in Seq(S)
    PROVE  \A x : x \in {e[2] : e \in InList(s)} <=> \E m \in Nat : At(s, x, m)
<1>1. DOMAIN s = 1..Len(s) /\ Len(s) \in Nat
    BY LenProperties
<1>2. ASSUME NEW x PROVE x \in {e[2] : e \in InList(s)} <=> \E n \in 1..Len(s) : s[n] = x
    <2>1. ASSUME NEW e \in InList(s), x = e[2] PROVE \E n \in 1..Len(s) : s[n] = x
        <3>1. PICK n \in 1..Len(s) : e = <<n, s[n]>>
            BY <1>1 DEF InList
        <3> QED
            BY <2>1, <3>1
    <2>2. ASSUME NEW n \in 1..Len(s), s[n] = x PROVE \E e \in InList(s) : x = e[2]
        <3>1. <<n, s[n]>> \in InList(s) /\ <<n, s[n]>>[2] = x
            BY <1>1, <2>2 DEF InList
        <3> QED
            BY <3>1
    <2> QED
        BY <2>1, <2>2
<1>3. ASSUME NEW x PROVE (\E n \in 1..Len(s) : s[n] = x) <=> \E m \in Nat : At(s, x, m)
    <2>1. ASSUME NEW n \in 1..Len(s), s[n] = x PROVE \E m \in Nat : At(s, x, m)
        <3>1. Len(s) + 1 - n \in Nat
            BY <1>1
        <3> QED
            BY <2>1, <3>1 DEF At
    <2> QED
        BY <2>1 DEF At
<1> QED
    BY <1>2, <1>3

(* What is on the list of a process, before and after a step.              *)
LEMMA ListOfAt ==
    ASSUME TypeOK, NEW p \in Procs
    PROVE  \A x : x \in ListOf(p) <=>
                \/ \E m \in Nat : At(mapping_list[p], x, m)
                \/ p = caller /\ \E m \in Nat : At(old_list, x, m)
                \/ p = caller /\ info.pa # Null /\ x = info
<1>1. mapping_list[p] \in Seq(Mappings) /\ old_list \in Seq(Mappings)
    BY DEF TypeOK
<1>2. /\ \A x : x \in {e[2] : e \in InList(mapping_list[p])} <=> \E m \in Nat : At(mapping_list[p], x, m)
      /\ \A x : x \in {e[2] : e \in InList(old_list)} <=> \E m \in Nat : At(old_list, x, m)
    BY <1>1, InListAt
<1> QED
    BY <1>2 DEF ListOf, Held

LEMMA ListOfAtNext ==
    ASSUME NEW p, mapping_list'[p] \in Seq(Mappings), old_list' \in Seq(Mappings)
    PROVE  \A x : x \in ListOf(p)' <=>
                \/ \E m \in Nat : At(mapping_list'[p], x, m)
                \/ p = caller' /\ \E m \in Nat : At(old_list', x, m)
                \/ p = caller' /\ info'.pa # Null /\ x = info'
<1>1. /\ \A x : x \in {e[2] : e \in InList(mapping_list'[p])} <=> \E m \in Nat : At(mapping_list'[p], x, m)
      /\ \A x : x \in {e[2] : e \in InList(old_list')} <=> \E m \in Nat : At(old_list', x, m)
    BY InListAt
<1> QED
    BY <1>1 DEF ListOf, Held

(* A page that a process reaches is on its list, and so is no table.       *)
LEMMA Listed ==
    ASSUME TypeOK, NEW own, Owned(own), NEW p \in used, NEW x \in ListOf(p)
    PROVE  /\ x \in Mappings
           /\ own[x.pa].kind \in {"mapping", "old", "info"}
           /\ own[x.pa].kind = "mapping" => own[x.pa].up = p
           /\ own[x.pa].kind \in {"old", "info"} => p = caller
           /\ \A q \in used : \A y \in ListOf(q) : y.pa = x.pa => q = p /\ y = x
<1>1. /\ used \subseteq Procs /\ old_list \in Seq(Mappings) /\ Null \notin Pages
      /\ \A q \in Procs : mapping_list[q] \in Seq(Mappings)
      /\ info \in [va : VAs, pa : Pages \union {Null}]
    BY Basics DEF TypeOK
<1> DEFINE Where(q, y) ==
            /\ y \in Mappings
            /\ \/ \E m \in Nat : /\ At(mapping_list[q], y, m)
                                 /\ own[y.pa] = Use("mapping", q, m)
               \/ q = caller /\ \E m \in Nat : /\ At(old_list, y, m)
                                               /\ own[y.pa] = Use("old", m, 0)
               \/ q = caller /\ y = info /\ own[y.pa] = Use("info", 0, 0)
<1>2. ASSUME NEW q \in used, NEW y \in ListOf(q) PROVE Where(q, y)
    <2>1. \/ \E m \in Nat : At(mapping_list[q], y, m)
          \/ q = caller /\ \E m \in Nat : At(old_list, y, m)
          \/ q = caller /\ info.pa # Null /\ y = info
        BY <1>1, ListOfAt
    <2>2. ASSUME NEW m \in Nat, At(mapping_list[q], y, m) PROVE Where(q, y)
        <3>1. y \in Mappings
            BY <1>1, <2>2, AtIn
        <3>2. y = [va |-> y.va, pa |-> y.pa] /\ y.va \in VAs /\ y.pa \in Pages
            BY <3>1 DEF Mappings
        <3>3. \E va \in VAs : At(mapping_list[q], [va |-> va, pa |-> y.pa], m)
            BY <2>2, <3>2
        <3> QED
            BY <1>1, <2>2, <3>1, <3>2, <3>3 DEF Owned, OwnMappings
    <2>3. ASSUME NEW m \in Nat, At(old_list, y, m), q = caller PROVE Where(q, y)
        <3>1. y \in Mappings
            BY <1>1, <2>3, AtIn
        <3>2. y = [va |-> y.va, pa |-> y.pa] /\ y.va \in VAs /\ y.pa \in Pages
            BY <3>1 DEF Mappings
        <3>3. \E va \in VAs : At(old_list, [va |-> va, pa |-> y.pa], m)
            BY <2>3, <3>2
        <3> QED
            BY <1>1, <2>3, <3>1, <3>2, <3>3 DEF Owned, OwnOld
    <2>4. ASSUME q = caller, info.pa # Null, y = info PROVE Where(q, y)
        <3>1. y \in Mappings /\ y.pa \in Pages
            BY <1>1, <2>4 DEF Mappings
        <3> QED
            BY <2>4, <3>1 DEF Owned, OwnCall
    <2> HIDE DEF Where
    <2> QED
        BY <2>1, <2>2, <2>3, <2>4
<1>3. ASSUME NEW q \in used, NEW y \in ListOf(q), y.pa = x.pa PROVE q = p /\ y = x
    <2>1. Where(p, x) /\ Where(q, y)
        BY <1>2
    <2> QED
        BY <1>1, <1>3, <2>1, UseFields, AtOne
<1>4. Where(p, x)
    BY <1>2
<1> QED
    BY <1>3, <1>4, UseFields

LEMMA Reached ==
    ASSUME TypeOK, NEW own, Owned(own), ListedIsMapped, NEW p \in used, NEW va \in VAs,
           va_to_pa(mem, pgtbl[p], va) # Null
    PROVE  LET pa == va_to_pa(mem, pgtbl[p], va) IN
           /\ pa \in Pages /\ [va |-> va, pa |-> pa] \in ListOf(p)
           /\ own[pa].kind \in {"mapping", "old", "info"}
           /\ \A q \in used, vb \in VAs : va_to_pa(mem, pgtbl[q], vb) = pa => q = p /\ vb = va
<1> DEFINE pa == va_to_pa(mem, pgtbl[p], va)
<1>1. \A q \in used, vb \in VAs :
        va_to_pa(mem, pgtbl[q], vb) # Null =>
            [va |-> vb, pa |-> va_to_pa(mem, pgtbl[q], vb)] \in ListOf(q)
    BY DEF ListedIsMapped
<1> HIDE DEF pa
<1>2. [va |-> va, pa |-> pa] \in ListOf(p) /\ pa # Null
    BY <1>1 DEF pa
<1>3. pa \in Pages /\ own[pa].kind \in {"mapping", "old", "info"}
    BY <1>2, Listed DEF Mappings
<1>4. ASSUME NEW q \in used, NEW vb \in VAs, va_to_pa(mem, pgtbl[q], vb) = pa
      PROVE  q = p /\ vb = va
    <2>1. [va |-> vb, pa |-> pa] \in ListOf(q)
        BY <1>1, <1>2, <1>4
    <2> DEFINE x == [va |-> va, pa |-> pa]
               y == [va |-> vb, pa |-> pa]
    <2>2. x.pa = y.pa /\ x.va = va /\ y.va = vb
        OBVIOUS
    <2> HIDE DEF x, y
    <2>3. x \in ListOf(p) /\ y \in ListOf(q)
        BY <1>2, <2>1 DEF x, y
    <2>4. q = p /\ y = x
        BY <2>2, <2>3, Listed
    <2> QED
        BY <2>2, <2>4
<1> QED
    BY <1>2, <1>3, <1>4 DEF pa

(* Paths depend on tables only.                                            *)
LEMMA PathStable ==
    ASSUME TypeOK, NEW own, Owned(own), NEW p \in used, NEW va \in VAs, NEW m2,
           KeepsTables(own, m2)
    PROVE  /\ Dir(m2, p, va) = Dir(mem, p, va) /\ Tab(m2, p, va) = Tab(mem, p, va)
           /\ va_to_pa(m2, pgtbl[p], va) = va_to_pa(mem, pgtbl[p], va)
<1>1. /\ pgtbl[p] \in Pages /\ own[pgtbl[p]] = Use("root", p, 0)
      /\ Dir(mem, p, va) = Null
         \/ /\ Dir(mem, p, va) \in Pages
            /\ own[Dir(mem, p, va)] = Use("directory", pgtbl[p], PX(2, va))
      /\ Tab(mem, p, va) = Null
         \/ /\ Dir(mem, p, va) # Null /\ Tab(mem, p, va) \in Pages
            /\ own[Tab(mem, p, va)] = Use("table", Dir(mem, p, va), PX(1, va))
    BY Path
<1>2. \A i \in RootIndex : m2[pgtbl[p]][i] = mem[pgtbl[p]][i]
    BY <1>1, UseFields DEF KeepsTables, TableIx, IsTable
<1>3. Dir(m2, p, va) = Dir(mem, p, va)
    BY <1>2, Indices DEF Dir, Entry
<1> DEFINE d == Dir(mem, p, va)
           t == Tab(mem, p, va)
<1>4. d # Null => \A i \in Offsets : m2[d][i] = mem[d][i]
    BY <1>1, UseFields DEF KeepsTables, TableIx, IsTable
<1>5. Tab(m2, p, va) = Tab(mem, p, va)
    BY <1>3, <1>4, Indices DEF Tab, Entry
<1>6. t # Null => \A i \in Offsets : m2[t][i] = mem[t][i]
    BY <1>1, UseFields DEF KeepsTables, TableIx, IsTable
<1>7. va_to_pa(m2, pgtbl[p], va) = va_to_pa(mem, pgtbl[p], va)
    BY <1>5, <1>6, Walked, Indices DEF Entry
<1> QED
    BY <1>3, <1>5, <1>7

(* The head of the free list is free, and kmalloc() takes only that.       *)
LEMMA FreePage ==
    ASSUME TypeOK, NEW own, Owned(own), freelist # <<>>
    PROVE  /\ Page \in Pages /\ own[Page].kind = "free" /\ Tail(freelist) \in Seq(Pages)
           /\ \A pg \in Pages, m \in Nat :
                At(Tail(freelist), pg, m) <=> pg # Page /\ own[pg] = Use("free", m, 0)
<1>1. /\ Page \in Pages /\ Tail(freelist) \in Seq(Pages) /\ Len(freelist) \in Nat
      /\ At(freelist, Page, Len(freelist))
      /\ \A x, m : At(Tail(freelist), x, m) <=> At(freelist, x, m) /\ m # Len(freelist)
    BY AtTail DEF TypeOK, Page
<1>2. own[Page] = Use("free", Len(freelist), 0)
    BY <1>1 DEF Owned, OwnFree
<1>3. ASSUME NEW pg \in Pages, NEW m \in Nat
      PROVE  At(Tail(freelist), pg, m) <=> pg # Page /\ own[pg] = Use("free", m, 0)
    <2>1. own[pg] = Use("free", m, 0) <=> At(freelist, pg, m)
        BY DEF Owned, OwnFree
    <2>2. At(freelist, pg, Len(freelist)) => pg = Page
        BY <1>1, AtOne DEF TypeOK
    <2> QED
        BY <1>1, <1>2, <2>1, <2>2, UseFields
<1> QED
    BY <1>1, <1>2, <1>3, UseFields

-----------------------------------------------------------------------------
(* STEPS THAT LEAVE THE TABLES ALONE                                       *)

(* Data may be stored into pages that are no tables; the rest stays.       *)
LEMMA DataStep ==
    ASSUME TypeOK, NEW own, Owned(own), ListedIsMapped,
           KeepsTables(own, mem'),
           UNCHANGED <<freelist, taken, used, pgtbl, mapping_list, old_list, info, new_mem>>,
           caller' = caller \/ (old_list = <<>> /\ info.pa = Null)
    PROVE  /\ Owned(own)' /\ ListedIsMapped'
           /\ \A p \in used, va \in VAs : /\ Dir(mem, p, va)' = Dir(mem, p, va)
                                          /\ Tab(mem, p, va)' = Tab(mem, p, va)
                                          /\ va_to_pa(mem, pgtbl[p], va)' = va_to_pa(mem, pgtbl[p], va)
<1>1. ASSUME NEW p \in used, NEW va \in VAs
      PROVE  /\ Dir(mem, p, va)' = Dir(mem, p, va) /\ Tab(mem, p, va)' = Tab(mem, p, va)
             /\ va_to_pa(mem, pgtbl[p], va)' = va_to_pa(mem, pgtbl[p], va)
    <2>1. /\ Dir(mem', p, va) = Dir(mem, p, va) /\ Tab(mem', p, va) = Tab(mem, p, va)
          /\ va_to_pa(mem', pgtbl[p], va) = va_to_pa(mem, pgtbl[p], va)
        <3> DEFINE m2 == mem'
        <3> HIDE DEF m2
        <3>1. KeepsTables(own, m2)
            BY DEF m2
        <3>2. /\ Dir(m2, p, va) = Dir(mem, p, va) /\ Tab(m2, p, va) = Tab(mem, p, va)
              /\ va_to_pa(m2, pgtbl[p], va) = va_to_pa(mem, pgtbl[p], va)
            BY <3>1, PathStable
        <3> QED
            BY <3>2 DEF m2
    <2>2. Dir(mem, p, va)' = Dir(mem', p, va) /\ Tab(mem, p, va)' = Tab(mem', p, va)
        BY DEF Dir, Tab
    <2> QED
        BY <2>1, <2>2
<1>2. Owned(own)'
    <2>1. OwnFree(own)' /\ OwnTaken(own)' /\ OwnRoots(own)'
        BY DEF Owned, OwnFree, OwnTaken, OwnRoots
    <2>2. OwnMappings(own)' /\ OwnOld(own)' /\ OwnCall(own)'
        BY DEF Owned, OwnMappings, OwnOld, OwnCall
    <2>3. OwnDirs(own)' /\ OwnTables(own)'
        BY DEF Owned, OwnDirs, OwnTables, KeepsTables, TableIx, IsTable
    <2>4. TableRows(own)'
        BY DEF Owned, TableRows, KeepsTables, TableIx, IsTable
    <2> QED
        BY <2>1, <2>2, <2>3, <2>4 DEF Owned
<1>3. ListedIsMapped'
    <2>1. \A p \in used : ListOf(p)' = ListOf(p)
        <3>1. CASE caller' = caller
            BY <3>1 DEF ListOf, Held
        <3>2. CASE old_list = <<>> /\ info.pa = Null
            <4>1. {e[2] : e \in InList(old_list)} = {} /\ Held = {}
                BY <3>2 DEF InList, Held
            <4>2. {e[2] : e \in InList(old_list')} = {} /\ Held' = {}
                BY <3>2 DEF InList, Held
            <4>3. ASSUME NEW p \in used
                  PROVE  /\ ListOf(p) = {e[2] : e \in InList(mapping_list[p])}
                         /\ ListOf(p)' = {e[2] : e \in InList(mapping_list[p])}
                BY <4>1, <4>2 DEF ListOf
            <4> QED
                BY <4>3
        <3> QED
            BY <3>1, <3>2
    <2>2. ASSUME NEW p \in used, NEW va \in VAs
          PROVE  LET pa == va_to_pa(mem, pgtbl[p], va)'
                     listed == {x \in ListOf(p)' : x.va = va}
                 IN IF pa = Null THEN listed = {} ELSE [va |-> va, pa |-> pa] \in listed
        BY <1>1, <2>1 DEF ListedIsMapped
    <2> QED
        BY <2>2 DEF ListedIsMapped
<1> QED
    BY <1>1, <1>2, <1>3

LEMMA ExitKeeps == ASSUME IInv, NEW p \in Procs, Exit(p) PROVE IInv'
<1>1. PICK own : Owned(own)
    BY DEF IInv
<1>2. Owned(own)' /\ ListedIsMapped'
    BY <1>1, DataStep DEF IInv, Exit, pages, call, single, KeepsTables
<1>3. TypeOK'
    BY DEF IInv, TypeOK, Exit, pages, call, single
<1>4. CallOK'
    BY DEF IInv, CallOK, Calling, Mapping, Exit, pages, call, single
<1> QED
    BY <1>2, <1>3, <1>4 DEF IInv

LEMMA ExecDoneKeeps == ASSUME IInv, ExecDone PROVE IInv'
<1>1. PICK own : Owned(own)
    BY DEF IInv
<1>2. old_list = <<>> /\ info.pa = Null /\ np \in used /\ new_mem = Null
    BY DEF IInv, CallOK, Calling, ExecDone
<1>3. Owned(own)' /\ ListedIsMapped'
    BY <1>1, <1>2, DataStep DEF IInv, ExecDone, pages, single, KeepsTables
<1>4. TypeOK'
    BY <1>2 DEF IInv, TypeOK, ExecDone, pages, single
<1>5. CallOK'
    BY <1>2 DEF IInv, CallOK, Calling, Mapping, ExecDone, pages, single
<1> QED
    BY <1>3, <1>4, <1>5 DEF IInv

LEMMA PanicKeeps == ASSUME IInv, KallocPanics \/ MmapPanics PROVE IInv'
<1>1. PICK own : Owned(own)
    BY DEF IInv
<1>2. pc' = "panic" /\ UNCHANGED <<pages, procs, call, single>>
    BY DEF KallocPanics, MmapPanics
<1>3. Owned(own)' /\ ListedIsMapped'
    BY <1>1, <1>2, DataStep DEF IInv, pages, procs, call, single, KeepsTables
<1>4. TypeOK'
    BY <1>2 DEF IInv, TypeOK, pages, procs, call, single
<1>5. CallOK'
    BY <1>2 DEF CallOK, Calling, Mapping
<1> QED
    BY <1>3, <1>4, <1>5 DEF IInv

LEMMA SameKeeps == ASSUME IInv, UNCHANGED vars PROVE IInv'
<1>1. PICK own : Owned(own)
    BY DEF IInv
<1>2. Owned(own)' /\ ListedIsMapped'
    BY <1>1, DataStep DEF IInv, vars, pages, procs, call, single, KeepsTables
<1>3. TypeOK'
    BY DEF IInv, TypeOK, vars, pages, procs, call, single
<1>4. CallOK'
    BY DEF IInv, CallOK, Calling, Mapping, Dir, Tab, vars, pages, procs, call, single
<1> QED
    BY <1>2, <1>3, <1>4 DEF IInv

(* The table that __map_single_page() has reached.                         *)
LEMMA WalkAt ==
    ASSUME IInv, Mapping, NEW own, Owned(own)
    PROVE  /\ np \in used /\ np \in Procs /\ info.va \in VAs /\ iter_pagetable \in Pages
           /\ level \in 0..2 /\ Here \in Offsets /\ IsTable(own, iter_pagetable)
           /\ level = 2 => Here \in RootIndex
           /\ level = 2 => /\ own[iter_pagetable] = Use("root", np, 0)
                           /\ iter_pagetable = pgtbl[np]
                           /\ mem[iter_pagetable][Here] = Dir(mem, np, info.va)
           /\ level = 1 => /\ own[iter_pagetable] = Use("directory", pgtbl[np], PX(2, info.va))
                           /\ iter_pagetable = Dir(mem, np, info.va)
                           /\ mem[iter_pagetable][Here] = Tab(mem, np, info.va)
           /\ level = 0 => /\ own[iter_pagetable] =
                                  Use("table", Dir(mem, np, info.va), PX(1, info.va))
                           /\ iter_pagetable = Tab(mem, np, info.va)
                           /\ mem[iter_pagetable][Here] = va_to_pa(mem, pgtbl[np], info.va)
           /\ mem[iter_pagetable][Here] \in Pages \union {Null}
<1>1. TypeOK /\ np \in used /\ np \in Procs /\ info.va \in VAs /\ iter_pagetable \in Pages
      /\ level \in 0..2
    BY DEF IInv, TypeOK, CallOK, Calling, Mapping
<1>2. Here \in Offsets /\ iter_pagetable # Null /\ (level = 2 => Here \in RootIndex)
    BY <1>1, Indices, Basics DEF Here
<1>3. iter_pagetable = CASE level = 2 -> pgtbl[np]
                         [] level = 1 -> Dir(mem, np, info.va)
                         [] level = 0 -> Tab(mem, np, info.va)
    BY DEF IInv, CallOK
<1>4. /\ pgtbl[np] \in Pages /\ own[pgtbl[np]] = Use("root", np, 0)
      /\ Dir(mem, np, info.va) = Null
         \/ own[Dir(mem, np, info.va)] = Use("directory", pgtbl[np], PX(2, info.va))
      /\ Tab(mem, np, info.va) = Null
         \/ own[Tab(mem, np, info.va)] = Use("table", Dir(mem, np, info.va), PX(1, info.va))
    BY <1>1, Path
<1>5. ASSUME level = 2
      PROVE  /\ own[iter_pagetable] = Use("root", np, 0) /\ iter_pagetable = pgtbl[np]
             /\ mem[iter_pagetable][Here] = Dir(mem, np, info.va)
    BY <1>2, <1>3, <1>4, <1>5 DEF Dir, Entry, Here
<1>6. ASSUME level = 1
      PROVE  /\ own[iter_pagetable] = Use("directory", pgtbl[np], PX(2, info.va))
             /\ iter_pagetable = Dir(mem, np, info.va)
             /\ mem[iter_pagetable][Here] = Tab(mem, np, info.va)
    <2>1. iter_pagetable = Dir(mem, np, info.va)
        BY <1>3, <1>6
    <2> QED
        BY <1>2, <1>4, <1>6, <2>1 DEF Tab, Entry, Here
<1>7. ASSUME level = 0
      PROVE  /\ own[iter_pagetable] = Use("table", Dir(mem, np, info.va), PX(1, info.va))
             /\ iter_pagetable = Tab(mem, np, info.va)
             /\ mem[iter_pagetable][Here] = va_to_pa(mem, pgtbl[np], info.va)
    <2>1. iter_pagetable = Tab(mem, np, info.va)
        BY <1>3, <1>7
    <2> QED
        BY <1>2, <1>4, <1>7, <2>1, Walked DEF Entry, Here
<1>8. IsTable(own, iter_pagetable)
    BY <1>1, <1>5, <1>6, <1>7, UseFields DEF IsTable
<1>9. mem[iter_pagetable][Here] \in Pages \union {Null}
    <2>1. Here \in TableIx(own, iter_pagetable)
        BY <1>1, <1>2, <1>5, <1>6, <1>7, UseFields DEF TableIx
    <2> QED
        BY <1>1, <1>8, <2>1 DEF Owned, TableRows
<1> QED
    BY <1>1, <1>2, <1>5, <1>6, <1>7, <1>8, <1>9

LEMMA DescendKeeps == ASSUME IInv, Descend PROVE IInv'
<1>1. PICK own : Owned(own)
    BY DEF IInv
<1>2. /\ Mapping /\ level > 0 /\ mem[iter_pagetable][Here] # Null
      /\ iter_pagetable' = mem[iter_pagetable][Here] /\ level' = level - 1
      /\ UNCHANGED <<pages, procs, pc, call, info, new_mem>>
    BY DEF Descend
<1>3. /\ Owned(own)' /\ ListedIsMapped'
      /\ \A p \in used, va \in VAs : /\ Dir(mem, p, va)' = Dir(mem, p, va)
                                     /\ Tab(mem, p, va)' = Tab(mem, p, va)
    BY <1>1, <1>2, DataStep DEF IInv, pages, procs, call, KeepsTables
<1>4. /\ np \in used /\ info.va \in VAs /\ level \in {1, 2} /\ iter_pagetable' \in Pages
      /\ level = 2 => iter_pagetable' = Dir(mem, np, info.va)
      /\ level = 1 => iter_pagetable' = Tab(mem, np, info.va)
    BY <1>1, <1>2, WalkAt
<1>5. TypeOK'
    BY <1>2, <1>4 DEF IInv, TypeOK, pages, procs, call
<1>6. /\ level' = 1 => iter_pagetable' = Dir(mem, np, info.va)'
      /\ level' = 0 => iter_pagetable' = Tab(mem, np, info.va)'
      /\ level' \in {0, 1}
    BY <1>2, <1>3, <1>4 DEF procs, call
<1>7. CallOK'
    BY <1>2, <1>4, <1>6 DEF IInv, CallOK, Calling, Mapping, pages, procs, call
<1> QED
    BY <1>3, <1>5, <1>7 DEF IInv

(* User code and copy_to_va() store into pages that are mapped: no tables. *)
LEMMA StoreKeeps ==
    ASSUME IInv, NEW p \in Procs, NEW va \in VAs, NEW i \in Offsets, NEW w \in Words,
           Store(p, va, i, w)
    PROVE  IInv'
<1>1. PICK own : Owned(own)
    BY DEF IInv
<1> DEFINE pa == va_to_pa(mem, pgtbl[p], va)
<1>2. /\ p \in live /\ pa # Null /\ mem' = [mem EXCEPT ![pa][i] = w]
      /\ UNCHANGED <<freelist, taken, procs, pc, call, single>>
    BY DEF Store
<1>3. TypeOK /\ ListedIsMapped /\ p \in used
    BY <1>2 DEF IInv, TypeOK
<1>4. pa \in Pages /\ own[pa].kind \in {"mapping", "old", "info"}
    BY <1>1, <1>2, <1>3, Reached
<1> HIDE DEF pa
<1>5. mem' \in [Pages -> [Offsets -> Pages \union Words \union {Null, Junk, Foreign}]]
    BY <1>2, <1>3, <1>4 DEF TypeOK
<1>6. KeepsTables(own, mem')
    BY <1>2, <1>3, <1>4 DEF KeepsTables, IsTable, TypeOK
<1>7. /\ Owned(own)' /\ ListedIsMapped'
      /\ \A q \in used, vb \in VAs : /\ Dir(mem, q, vb)' = Dir(mem, q, vb)
                                     /\ Tab(mem, q, vb)' = Tab(mem, q, vb)
    BY <1>1, <1>2, <1>3, <1>6, DataStep DEF procs, call, single
<1>8. TypeOK'
    BY <1>2, <1>3, <1>5 DEF TypeOK, procs, call, single
<1>9. pc' = "idle"
    BY <1>2 DEF Store
<1>10. CallOK'
    BY <1>2, <1>9 DEF IInv, CallOK, Calling, Mapping, procs, call, single
<1> QED
    BY <1>7, <1>8, <1>10 DEF IInv

(* The segment that is loaded.                                             *)
LEMMA HeadSegment ==
    ASSUME TypeOK, segments # <<>>
    PROVE  /\ Head(segments) \in Segments /\ Tail(segments) \in Seq(Segments)
           /\ DOMAIN Head(segments).pages = 1..Len(Head(segments).pages)
           /\ Len(Head(segments).pages) \in Nat
           /\ \A j \in DOMAIN Head(segments).pages : Head(segments).pages[j] \in VAs
           /\ PagesIn(Head(segments)) \subseteq VAs
           /\ \A va \in VAs : Head(segments).bytes[va] \in PartialRows
<1>1. Head(segments) \in Segments /\ Tail(segments) \in Seq(Segments)
    BY HeadTailProperties DEF TypeOK
<1>2. Head(segments).pages \in Seq(VAs) /\ \A va \in VAs : Head(segments).bytes[va] \in PartialRows
    BY <1>1 DEF Segments
<1>3. DOMAIN Head(segments).pages = 1..Len(Head(segments).pages) /\ Len(Head(segments).pages) \in Nat
    BY <1>2, LenProperties
<1>4. \A j \in DOMAIN Head(segments).pages : Head(segments).pages[j] \in VAs
    BY <1>2, <1>3, ElementOfSeq
<1> QED
    BY <1>1, <1>2, <1>3, <1>4 DEF PagesIn

(* What memmove() writes to a page are words.                              *)
LEMMA OverlayRow ==
    ASSUME NEW bytes \in PartialRows,
           NEW row \in [Offsets -> Pages \union Words \union {Null, Junk, Foreign}]
    PROVE  Overlay(row, bytes) \in [Offsets -> Pages \union Words \union {Null, Junk, Foreign}]
<1>1. PICK written \in SUBSET Offsets : bytes \in [written -> Words]
    BY DEF PartialRows
<1> QED
    BY <1>1 DEF Overlay

(* copy_to_va() for page va of process p changes a page that is no table.  *)
LEMMA CopyTo ==
    ASSUME TypeOK, ListedIsMapped, NEW own, Owned(own), NEW p \in used, NEW va \in VAs,
           NEW m, KeepsTables(own, m),
           m \in [Pages -> [Offsets -> Pages \union Words \union {Null, Junk, Foreign}]],
           NEW bytes \in PartialRows, NEW m2, m2 = copy_to_va(m, pgtbl[p], va, bytes)
    PROVE  /\ m2 \in [Pages -> [Offsets -> Pages \union Words \union {Null, Junk, Foreign}]]
           /\ KeepsTables(own, m2)
           /\ \A pg \in Pages : m2[pg] = IF pg = va_to_pa(mem, pgtbl[p], va)
                                         THEN Overlay(m[pg], bytes) ELSE m[pg]
<1>1. va_to_pa(m, pgtbl[p], va) = va_to_pa(mem, pgtbl[p], va)
    BY PathStable
<1> DEFINE pa0 == va_to_pa(mem, pgtbl[p], va)
<1>2. m2 = IF pa0 = Null THEN m ELSE [m EXCEPT ![pa0] = Overlay(m[pa0], bytes)]
    BY <1>1 DEF copy_to_va
<1>3. pa0 = Null \/ (pa0 \in Pages /\ own[pa0].kind \in {"mapping", "old", "info"})
    BY Reached
<1> HIDE DEF pa0
<1>4. \A pg \in Pages : m2[pg] = IF pg = pa0 THEN Overlay(m[pg], bytes) ELSE m[pg]
    BY <1>2, <1>3, Basics
<1>5. \A pg \in Pages :
        Overlay(m[pg], bytes) \in [Offsets -> Pages \union Words \union {Null, Junk, Foreign}]
    BY OverlayRow
<1>6. m2 \in [Pages -> [Offsets -> Pages \union Words \union {Null, Junk, Foreign}]]
    BY <1>2, <1>3, <1>5
<1>7. KeepsTables(own, m2)
    <2>1. ASSUME NEW t \in Pages, IsTable(own, t), NEW i \in TableIx(own, t)
          PROVE  m2[t][i] = mem[t][i]
        <3>1. t # pa0
            BY <1>3, <2>1, Basics DEF IsTable
        <3>2. m2[t] = m[t]
            BY <1>4, <3>1
        <3>3. m[t][i] = mem[t][i]
            BY <2>1 DEF KeepsTables
        <3> QED
            BY <3>2, <3>3
    <2> QED
        BY <2>1 DEF KeepsTables
<1> QED
    BY <1>4, <1>6, <1>7 DEF pa0

(* The pages that copy_to_va() of a segment fills.                         *)
LEMMA LoadMem ==
    ASSUME IInv, NEW own, Owned(own), LoadSegment
    PROVE  /\ mem' \in [Pages -> [Offsets -> Pages \union Words \union {Null, Junk, Foreign}]]
           /\ KeepsTables(own, mem')
           /\ \A q \in used, va \in VAs : va_to_pa(mem, pgtbl[q], va) # Null =>
                LET pa == va_to_pa(mem, pgtbl[q], va) IN
                mem'[pa] = IF q = np /\ va \in PagesIn(Head(segments))
                           THEN Overlay(mem[pa], Head(segments).bytes[va]) ELSE mem[pa]
<1> DEFINE seg == Head(segments)
           filled(pg) == CHOOSE va \in PagesIn(seg) : LiesAt(pg, va)
<1>1. /\ segments # <<>> /\ pc = "exec"
      /\ mem' = [pg \in Pages |->
                    IF \E va \in PagesIn(seg) : LiesAt(pg, va)
                    THEN Overlay(mem[pg], seg.bytes[filled(pg)]) ELSE mem[pg]]
    BY DEF LoadSegment
<1>2. /\ TypeOK /\ ListedIsMapped /\ np \in used /\ PagesIn(seg) \subseteq VAs
      /\ \A va \in VAs : seg.bytes[va] \in PartialRows
    BY <1>1, HeadSegment DEF IInv, CallOK, Calling
<1>3. ASSUME NEW pg \in Pages, NEW va \in PagesIn(seg), LiesAt(pg, va)
      PROVE  /\ own[pg].kind \in {"mapping", "old", "info"}
             /\ \A q \in used, vb \in VAs : va_to_pa(mem, pgtbl[q], vb) = pg => q = np /\ vb = va
    <2>1. PICK vc \in VAs : vc = va
        BY <1>2
    <2>2. va_to_pa(mem, pgtbl[np], vc) = pg /\ pg # Null
        BY <1>3, <2>1, Basics DEF LiesAt
    <2> DEFINE x == va_to_pa(mem, pgtbl[np], vc)
    <2>3. /\ own[x].kind \in {"mapping", "old", "info"}
          /\ \A q \in used, vb \in VAs : va_to_pa(mem, pgtbl[q], vb) = x => q = np /\ vb = vc
        BY <1>2, <2>2, Reached
    <2> QED
        BY <2>1, <2>2, <2>3
<1>4. ASSUME NEW pg \in Pages, \E va \in PagesIn(seg) : LiesAt(pg, va)
      PROVE  filled(pg) \in PagesIn(seg) /\ filled(pg) \in VAs /\ LiesAt(pg, filled(pg))
    BY <1>2, <1>4
<1> HIDE DEF filled, seg
<1>5. mem' \in [Pages -> [Offsets -> Pages \union Words \union {Null, Junk, Foreign}]]
    <2>1. ASSUME NEW pg \in Pages
          PROVE  mem'[pg] \in [Offsets -> Pages \union Words \union {Null, Junk, Foreign}]
        <3>1. mem[pg] \in [Offsets -> Pages \union Words \union {Null, Junk, Foreign}]
            BY <1>2 DEF TypeOK
        <3>2. CASE \E va \in PagesIn(seg) : LiesAt(pg, va)
            <4>1. seg.bytes[filled(pg)] \in PartialRows
                BY <1>2, <1>4, <3>2
            <4>2. mem'[pg] = Overlay(mem[pg], seg.bytes[filled(pg)])
                BY <1>1, <3>2
            <4> QED
                BY <3>1, <4>1, <4>2, OverlayRow
        <3>3. CASE ~ \E va \in PagesIn(seg) : LiesAt(pg, va)
            BY <1>1, <3>1, <3>3
        <3> QED
            BY <3>2, <3>3
    <2> QED
        BY <1>1, <2>1
<1>6. KeepsTables(own, mem')
    BY <1>1, <1>3 DEF KeepsTables, IsTable
<1>7. ASSUME NEW q \in used, NEW va \in VAs, NEW pa, pa = va_to_pa(mem, pgtbl[q], va), pa # Null
      PROVE  mem'[pa] = IF q = np /\ va \in PagesIn(seg)
                        THEN Overlay(mem[pa], seg.bytes[va]) ELSE mem[pa]
    <2>1. pa \in Pages
        BY <1>2, <1>7, Path
    <2>2. CASE \E vb \in PagesIn(seg) : LiesAt(pa, vb)
        <3>1. q = np /\ va = filled(pa) /\ va \in PagesIn(seg)
            BY <1>3, <1>4, <1>7, <2>1, <2>2
        <3> QED
            BY <1>1, <2>1, <2>2, <3>1
    <2>3. CASE ~ \E vb \in PagesIn(seg) : LiesAt(pa, vb)
        BY <1>1, <1>7, <2>1, <2>3 DEF LiesAt
    <2> QED
        BY <2>2, <2>3
<1> QED
    BY <1>5, <1>6, <1>7 DEF seg

LEMMA LoadSegmentKeeps == ASSUME IInv, LoadSegment PROVE IInv'
<1>1. PICK own : Owned(own)
    BY DEF IInv
<1>2. /\ pc = "exec" /\ segments # <<>> /\ segments' = Tail(segments) /\ k' = 1
      /\ UNCHANGED <<freelist, taken, procs, pc, caller, np, old_list, single>>
    BY DEF LoadSegment
<1>3. TypeOK /\ ListedIsMapped
    BY DEF IInv
<1>4. /\ mem' \in [Pages -> [Offsets -> Pages \union Words \union {Null, Junk, Foreign}]]
      /\ KeepsTables(own, mem')
    BY <1>1, LoadMem
<1>5. /\ Owned(own)' /\ ListedIsMapped'
    BY <1>1, <1>2, <1>3, <1>4, DataStep DEF procs, single
<1>6. TypeOK'
    <2>1. segments' \in Seq(Segments) /\ k' \in Nat \ {0}
        BY <1>2, <1>3, HeadSegment
    <2> QED
        BY <1>2, <1>3, <1>4, <2>1 DEF TypeOK, procs, single
<1>7. CallOK'
    BY <1>2 DEF IInv, CallOK, Calling, Mapping, procs, single
<1> QED
    BY <1>5, <1>6, <1>7 DEF IInv

(* The two writes of fork() to the child: a0, and the context.             *)
ChildMade(own, va, a0, context, m1) ==
    /\ mem' \in [Pages -> [Offsets -> Pages \union Words \union {Null, Junk, Foreign}]]
    /\ KeepsTables(own, mem')
    /\ \A pg \in Pages : m1[pg] = IF pg = va_to_pa(mem, pgtbl[np], va)
                                  THEN Overlay(mem[pg], [i \in {a0} |-> 0]) ELSE mem[pg]
    /\ \A pg \in Pages : mem'[pg] = IF pg = va_to_pa(mem, pgtbl[np], StackPage)
                                    THEN Overlay(m1[pg], context) ELSE m1[pg]
LEMMA ChildMem ==
    ASSUME IInv, NEW own, Owned(own), ForkDone
    PROVE  \E va \in VAs, a0 \in Offsets, context \in [ContextWords -> Words],
              m1 \in [Pages -> [Offsets -> Pages \union Words \union {Null, Junk, Foreign}]] :
            ChildMade(own, va, a0, context, m1)
<1>1. pc = "fork"
    BY DEF ForkDone
<1>2. TypeOK /\ ListedIsMapped /\ np \in used /\ StackPage \in VAs
    BY <1>1, IndexAssumption DEF IInv, CallOK, Calling
<1>3. PICK va \in VAs, a0 \in Offsets, context \in [ContextWords -> Words] :
        mem' = copy_to_va(copy_to_va(mem, pgtbl[np], va, [i \in {a0} |-> 0]),
                          pgtbl[np], StackPage, context)
    BY DEF ForkDone
<1>4. [i \in {a0} |-> 0] \in PartialRows /\ context \in PartialRows
    <2>1. [i \in {a0} |-> 0] \in [{a0} -> Words] /\ {a0} \in SUBSET Offsets
        BY WordsAssumption
    <2>2. ContextWords \in SUBSET Offsets
        BY IndexAssumption
    <2> QED
        BY <2>1, <2>2 DEF PartialRows
<1>5. PICK zero \in PartialRows : zero = [i \in {a0} |-> 0]
    BY <1>4
<1>6. PICK m1 : m1 = copy_to_va(mem, pgtbl[np], va, zero)
    OBVIOUS
<1>7. PICK m2 : m2 = copy_to_va(m1, pgtbl[np], StackPage, context)
    OBVIOUS
<1>8. KeepsTables(own, mem)
    BY DEF KeepsTables
<1>9. /\ m1 \in [Pages -> [Offsets -> Pages \union Words \union {Null, Junk, Foreign}]]
      /\ KeepsTables(own, m1)
      /\ \A pg \in Pages : m1[pg] = IF pg = va_to_pa(mem, pgtbl[np], va)
                                    THEN Overlay(mem[pg], zero) ELSE mem[pg]
    <2>1. mem \in [Pages -> [Offsets -> Pages \union Words \union {Null, Junk, Foreign}]]
        BY <1>2 DEF TypeOK
    <2> QED
        BY <1>2, <1>6, <1>8, <2>1, CopyTo
<1>10. PICK st \in VAs : st = StackPage
    BY <1>2
<1>11. /\ m2 \in [Pages -> [Offsets -> Pages \union Words \union {Null, Junk, Foreign}]]
       /\ KeepsTables(own, m2)
       /\ \A pg \in Pages : m2[pg] = IF pg = va_to_pa(mem, pgtbl[np], st)
                                     THEN Overlay(m1[pg], context) ELSE m1[pg]
    BY <1>2, <1>4, <1>7, <1>9, <1>10, CopyTo
<1>12. mem' = m2
    BY <1>3, <1>5, <1>6, <1>7
<1>13. /\ \A pg \in Pages : m1[pg] = IF pg = va_to_pa(mem, pgtbl[np], va)
                                     THEN Overlay(mem[pg], [i \in {a0} |-> 0]) ELSE mem[pg]
       /\ \A pg \in Pages : mem'[pg] = IF pg = va_to_pa(mem, pgtbl[np], StackPage)
                                       THEN Overlay(m1[pg], context) ELSE m1[pg]
    BY <1>5, <1>9, <1>10, <1>11, <1>12
<1>14. /\ mem' \in [Pages -> [Offsets -> Pages \union Words \union {Null, Junk, Foreign}]]
       /\ KeepsTables(own, mem')
    BY <1>11, <1>12
<1> m1 \in [Pages -> [Offsets -> Pages \union Words \union {Null, Junk, Foreign}]]
    BY <1>9
<1> WITNESS va \in VAs, a0 \in Offsets, context \in [ContextWords -> Words],
            m1 \in [Pages -> [Offsets -> Pages \union Words \union {Null, Junk, Foreign}]]
<1> QED
    BY <1>13, <1>14 DEF ChildMade

LEMMA ForkDoneKeeps == ASSUME IInv, ForkDone PROVE IInv'
<1>1. PICK own : Owned(own)
    BY DEF IInv
<1>2. /\ pc = "fork" /\ old_list = <<>> /\ live' = live \union {np} /\ pc' = "idle"
      /\ caller' = Kproc /\ np' = Kproc
      /\ UNCHANGED <<freelist, taken, used, pgtbl, mapping_list, segments, k, old_list, single>>
    BY DEF ForkDone
<1>3. TypeOK /\ ListedIsMapped /\ np \in used /\ info.pa = Null /\ new_mem = Null
    BY <1>2 DEF IInv, CallOK, Calling
<1>4. /\ mem' \in [Pages -> [Offsets -> Pages \union Words \union {Null, Junk, Foreign}]]
      /\ KeepsTables(own, mem')
    BY <1>1, ChildMem DEF ChildMade
<1>5. /\ Owned(own)' /\ ListedIsMapped'
    BY <1>1, <1>2, <1>3, <1>4, DataStep DEF single
<1>6. TypeOK'
    BY <1>2, <1>3, <1>4 DEF TypeOK, single
<1>7. CallOK'
    BY <1>2, <1>3 DEF IInv, CallOK, Calling, Mapping, single
<1> QED
    BY <1>5, <1>6, <1>7 DEF IInv

-----------------------------------------------------------------------------
(* STEPS THAT TAKE A PAGE OFF THE FREE LIST                                *)

LEMMA MappedSame ==
    ASSUME ListedIsMapped, used' = used,
           \A p \in used : ListOf(p)' = ListOf(p),
           \A p \in used, va \in VAs :
                va_to_pa(mem, pgtbl[p], va)' = va_to_pa(mem, pgtbl[p], va)
    PROVE  ListedIsMapped'
<1>1. ASSUME NEW p \in used, NEW va \in VAs
      PROVE  LET pa == va_to_pa(mem, pgtbl[p], va)'
                 listed == {x \in ListOf(p)' : x.va = va}
             IN IF pa = Null THEN listed = {} ELSE [va |-> va, pa |-> pa] \in listed
    BY DEF ListedIsMapped
<1> QED
    BY <1>1 DEF ListedIsMapped

(* A part of the ownership stays when what it speaks of stays and the pages *)
(* that get another use have another kind before and after.                *)
LEMMA TakenSame ==
    ASSUME NEW own, NEW own2, OwnTaken(own), taken' = taken,
           \A pg \in Pages : \/ own2[pg] = own[pg]
                             \/ own[pg].kind # "taken" /\ own2[pg].kind # "taken"
    PROVE  OwnTaken(own2)'
BY UseFields DEF OwnTaken

LEMMA RootsSame ==
    ASSUME NEW own, NEW own2, OwnRoots(own), used' = used, pgtbl' = pgtbl,
           \A pg \in Pages : \/ own2[pg] = own[pg]
                             \/ own[pg].kind # "root" /\ own2[pg].kind # "root"
    PROVE  OwnRoots(own2)'
BY UseFields DEF OwnRoots

LEMMA OldSame ==
    ASSUME NEW own, NEW own2, OwnOld(own), old_list' = old_list,
           \A pg \in Pages : \/ own2[pg] = own[pg]
                             \/ own[pg].kind # "old" /\ own2[pg].kind # "old"
    PROVE  OwnOld(own2)'
<1> DEFINE InOld(pg, m) == \E va \in VAs : At(old_list, [va |-> va, pa |-> pg], m)
<1>1. OwnOld(own2)' <=> \A pg \in Pages, m \in Nat : own2[pg] = Use("old", m, 0) <=> InOld(pg, m)
    BY DEF OwnOld
<1>2. \A pg \in Pages, m \in Nat : own[pg] = Use("old", m, 0) <=> InOld(pg, m)
    BY DEF OwnOld
<1> HIDE DEF InOld
<1> QED
    BY <1>1, <1>2, UseFields

LEMMA MappingsSame ==
    ASSUME NEW own, NEW own2, OwnMappings(own), used' = used, mapping_list' = mapping_list,
           \A pg \in Pages : \/ own2[pg] = own[pg]
                             \/ own[pg].kind # "mapping" /\ own2[pg].kind # "mapping"
    PROVE  OwnMappings(own2)'
<1> DEFINE InMap(pg, p, m) ==
            p \in used /\ \E va \in VAs : At(mapping_list[p], [va |-> va, pa |-> pg], m)
<1>1. OwnMappings(own2)' <=>
        \A pg \in Pages, p \in Procs, m \in Nat : own2[pg] = Use("mapping", p, m) <=> InMap(pg, p, m)
    BY DEF OwnMappings
<1>2. \A pg \in Pages, p \in Procs, m \in Nat : own[pg] = Use("mapping", p, m) <=> InMap(pg, p, m)
    BY DEF OwnMappings
<1> HIDE DEF InMap
<1> QED
    BY <1>1, <1>2, UseFields

(* Memory changes at page x at most, and no process in use loses anything. *)
ChangedAt(x) == \A pg \in Pages \ {x} : mem'[pg] = mem[pg]
ProcsKept == \A p \in used : pgtbl'[p] = pgtbl[p] /\ mapping_list'[p] = mapping_list[p]

LEMMA FreeChanged ==
    ASSUME TypeOK, NEW own, Owned(own), freelist # <<>>, ChangedAt(Page)
    PROVE  KeepsTables(own, mem')
BY FreePage DEF ChangedAt, KeepsTables, IsTable

(* The page gets a use that is no table; whatever it holds does not matter.*)
LEMMA FreeStep ==
    ASSUME TypeOK, NEW own, Owned(own), freelist # <<>>, freelist' = Tail(freelist),
           KeepsTables(own, mem'), used' = used, ProcsKept,
           NEW u \in {Use("taken", 0, 0), Use("new", 0, 0)},
           NEW own2, own2 = [own EXCEPT ![Page] = u]
    PROVE  /\ own2 \in [Pages -> Uses] /\ Page \in Pages /\ own[Page].kind = "free"
           /\ own2[Page] = u /\ \A pg \in Pages \ {Page} : own2[pg] = own[pg]
           /\ OwnFree(own2)' /\ OwnRoots(own2)' /\ OwnDirs(own2)' /\ OwnTables(own2)'
           /\ OwnMappings(own2)' /\ TableRows(own2)'
           /\ \A p \in used, va \in VAs : /\ Dir(mem, p, va)' = Dir(mem, p, va)
                                          /\ Tab(mem, p, va)' = Tab(mem, p, va)
                                          /\ va_to_pa(mem, pgtbl[p], va)' = va_to_pa(mem, pgtbl[p], va)
<1>1. /\ Page \in Pages /\ own[Page].kind = "free"
      /\ \A pg \in Pages, m \in Nat :
           At(freelist', pg, m) <=> pg # Page /\ own[pg] = Use("free", m, 0)
    BY FreePage
<1>2. own \in [Pages -> Uses] /\ u \in Uses /\ u.kind \in {"taken", "new"}
    BY UsesMade, UseFields DEF Owned
<1> DEFINE hd == Page
<1> HIDE DEF hd
<1>3. /\ own2 \in [Pages -> Uses] /\ own2[hd] = u /\ hd \in Pages /\ own[hd].kind = "free"
      /\ \A pg \in Pages \ {hd} : own2[pg] = own[pg]
    BY <1>1, <1>2 DEF hd
<1>4. OwnFree(own2)'
    BY <1>1, <1>2, <1>3, UseFields DEF OwnFree, hd
<1>5. OwnRoots(own2)'
    BY <1>2, <1>3, UseFields DEF ProcsKept, Owned, OwnRoots
<1>6. OwnMappings(own2)'
    <2> DEFINE InMap(pg, p, m) ==
                p \in used /\ \E va \in VAs : At(mapping_list[p], [va |-> va, pa |-> pg], m)
    <2>1. \A pg \in Pages, p \in Procs, m \in Nat : own[pg] = Use("mapping", p, m) <=> InMap(pg, p, m)
        BY DEF Owned, OwnMappings
    <2>2. \A pg \in Pages, p \in Procs, m \in Nat : InMap(pg, p, m)' <=> InMap(pg, p, m)
        BY DEF ProcsKept
    <2>3. OwnMappings(own2)' <=>
            \A pg \in Pages, p \in Procs, m \in Nat : own2[pg] = Use("mapping", p, m) <=> InMap(pg, p, m)'
        BY DEF OwnMappings
    <2> HIDE DEF InMap
    <2>4. \A p \in Procs, m \in Nat : u # Use("mapping", p, m) /\ own[hd] # Use("mapping", p, m)
        BY <1>2, <1>3, UseFields
    <2> QED
        BY <1>3, <2>1, <2>2, <2>3, <2>4
<1>7. OwnDirs(own2)' /\ OwnTables(own2)'
    BY <1>2, <1>3, UseFields DEF Owned, OwnDirs, OwnTables, KeepsTables, TableIx, IsTable
<1>8. TableRows(own2)'
    BY <1>2, <1>3 DEF ProcsKept, Owned, TableRows, KeepsTables, TableIx, IsTable
<1>9. ASSUME NEW p \in used, NEW va \in VAs
      PROVE  /\ Dir(mem, p, va)' = Dir(mem, p, va) /\ Tab(mem, p, va)' = Tab(mem, p, va)
             /\ va_to_pa(mem, pgtbl[p], va)' = va_to_pa(mem, pgtbl[p], va)
    <2> DEFINE m2 == mem'
    <2> HIDE DEF m2
    <2>1. KeepsTables(own, m2)
        BY DEF m2
    <2>2. /\ Dir(m2, p, va) = Dir(mem, p, va) /\ Tab(m2, p, va) = Tab(mem, p, va)
          /\ va_to_pa(m2, pgtbl[p], va) = va_to_pa(mem, pgtbl[p], va)
        BY <2>1, PathStable
    <2>3. Dir(mem, p, va)' = Dir(m2, p, va) /\ Tab(mem, p, va)' = Tab(m2, p, va)
        BY DEF Dir, Tab, m2, ProcsKept
    <2> QED
        BY <2>2, <2>3 DEF m2, ProcsKept
<1> QED
    BY <1>3, <1>4, <1>5, <1>6, <1>7, <1>8, <1>9 DEF hd

(* mmap() and the others that keep a page, and an exec() that fails.       *)
PageKept ==
    /\ taken' = taken \union {Page} /\ UNCHANGED <<used, live, pc, call, single>>
    /\ pgtbl' \in [Procs -> Pages \union {Null}] /\ mapping_list' \in [Procs -> Seq(Mappings)]
    /\ mem' \in [Pages -> [Offsets -> Pages \union Words \union {Null, Junk, Foreign}]]
LEMMA TakenKeeps ==
    ASSUME IInv, NEW own, Owned(own), KeepsTables(own, mem'),
           freelist # <<>>, freelist' = Tail(freelist), ProcsKept, PageKept
    PROVE  IInv'
<1>1. Owned(own)
    OBVIOUS
<1>2. PICK own2 : own2 = [own EXCEPT ![Page] = Use("taken", 0, 0)]
    OBVIOUS
<1>3. /\ own2 \in [Pages -> Uses] /\ Page \in Pages /\ own[Page].kind = "free"
      /\ own2[Page] = Use("taken", 0, 0) /\ \A pg \in Pages \ {Page} : own2[pg] = own[pg]
      /\ OwnFree(own2)' /\ OwnRoots(own2)' /\ OwnDirs(own2)' /\ OwnTables(own2)'
      /\ OwnMappings(own2)' /\ TableRows(own2)'
      /\ \A p \in used, va \in VAs : /\ Dir(mem, p, va)' = Dir(mem, p, va)
                                     /\ Tab(mem, p, va)' = Tab(mem, p, va)
                                     /\ va_to_pa(mem, pgtbl[p], va)' = va_to_pa(mem, pgtbl[p], va)
    <2>1. TypeOK /\ used' = used
        BY DEF IInv, PageKept
    <2>2. PICK u \in {Use("taken", 0, 0), Use("new", 0, 0)} : u = Use("taken", 0, 0)
        OBVIOUS
    <2>3. own2 = [own EXCEPT ![Page] = u]
        BY <1>2, <2>2
    <2>4. /\ own2 \in [Pages -> Uses] /\ Page \in Pages /\ own[Page].kind = "free"
          /\ own2[Page] = u /\ \A pg \in Pages \ {Page} : own2[pg] = own[pg]
          /\ OwnFree(own2)' /\ OwnRoots(own2)' /\ OwnDirs(own2)' /\ OwnTables(own2)'
          /\ OwnMappings(own2)' /\ TableRows(own2)'
          /\ \A p \in used, va \in VAs : /\ Dir(mem, p, va)' = Dir(mem, p, va)
                                         /\ Tab(mem, p, va)' = Tab(mem, p, va)
                                         /\ va_to_pa(mem, pgtbl[p], va)' = va_to_pa(mem, pgtbl[p], va)
        BY <2>1, <2>3, FreeStep, ZenonT(40)
    <2> QED
        BY <2>2, <2>4
<1>4. OwnTaken(own2)'
    BY <1>1, <1>3, UseFields DEF Owned, OwnTaken, PageKept
<1>5. OwnOld(own2)' /\ OwnCall(own2)'
    <2>1. old_list' = old_list /\ info' = info /\ new_mem' = new_mem
        BY DEF call, single, PageKept
    <2>2. OwnOld(own2)'
        BY <1>1, <1>3, <2>1, UseFields, OldSame DEF Owned
    <2>3. OwnCall(own2)'
        BY <1>1, <1>3, <2>1, UseFields DEF Owned, OwnCall
    <2> QED
        BY <2>2, <2>3
<1>6. Owned(own2)'
    BY <1>3, <1>4, <1>5 DEF Owned
<1>7. ListedIsMapped'
    <2>1. \A p \in used : ListOf(p)' = ListOf(p)
        BY DEF ListOf, Held, call, single, PageKept, ProcsKept
    <2> QED
        BY <1>3, <2>1, MappedSame DEF IInv, PageKept
<1>8. TypeOK'
    <2>1. freelist' \in Seq(Pages) /\ taken' \subseteq Pages
        BY <1>1, <1>3, FreePage DEF IInv, TypeOK, PageKept
    <2> QED
        BY <2>1 DEF IInv, TypeOK, call, single, PageKept
<1>9. CallOK'
    <2>1. TypeOK /\ (Calling => np \in used)
        BY DEF IInv, CallOK
    <2>2. Mapping => /\ Dir(mem, np, info.va)' = Dir(mem, np, info.va)
                     /\ Tab(mem, np, info.va)' = Tab(mem, np, info.va)
                     /\ pgtbl'[np] = pgtbl[np]
        BY <1>3, <2>1 DEF Mapping, Calling, TypeOK, call, single, Dir, Tab, PageKept, ProcsKept
    <2> QED
        BY <2>2 DEF IInv, CallOK, Calling, Mapping, call, single, PageKept
<1> QED
    BY <1>6, <1>7, <1>8, <1>9 DEF IInv

LEMMA TakeKeeps == ASSUME IInv, Take PROVE IInv'
<1>1. PICK own : Owned(own)
    BY DEF IInv
<1>2. /\ freelist # <<>> /\ freelist' = Tail(freelist) /\ taken' = taken \union {Page}
      /\ mem' = mem /\ pgtbl' = pgtbl /\ mapping_list' = mapping_list
      /\ UNCHANGED <<used, live, pc, call, single>>
    BY DEF Take, kmalloc, procs
<1>3. KeepsTables(own, mem')
    BY <1>2 DEF KeepsTables
<1>4. /\ pgtbl' \in [Procs -> Pages \union {Null}] /\ mapping_list' \in [Procs -> Seq(Mappings)]
      /\ mem' \in [Pages -> [Offsets -> Pages \union Words \union {Null, Junk, Foreign}]]
    BY <1>2 DEF IInv, TypeOK
<1> QED
    BY <1>1, <1>2, <1>3, <1>4, TakenKeeps DEF ProcsKept, PageKept

(* The word that proc_free() writes lies in the root table of process 1,   *)
(* at an entry that no user address selects.                               *)
LEMMA StrayMem ==
    ASSUME TypeOK, BootOK, NEW c, ExecFails(c), NEW own, Owned(own)
    PROVE  /\ mem' \in [Pages -> [Offsets -> Pages \union Words \union {Null, Junk, Foreign}]]
           /\ KeepsTables(own, mem')
           /\ \A pg \in Pages : own[pg].kind # "root" => mem'[pg] = mem[pg]
<1>1. used # {} /\ 1 \in used
    BY DEF ExecFails, TypeOK, BootOK
<1>2. pgtbl[1] = NPages - 1
    BY <1>1 DEF BootOK
<1>3. 1 \in Procs
    BY <1>1 DEF TypeOK
<1>4. PICK r \in Pages : r = NPages - 1
    BY <1>1, <1>2 DEF Owned, TableRows
<1>5. own[r].kind = "root"
    BY <1>1, <1>2, <1>3, <1>4, UseFields DEF Owned, OwnRoots
<1>6. PICK next \in {Null, Foreign} : mem' = [mem EXCEPT ![r][FreeNext] = next]
    BY <1>4 DEF ExecFails
<1>7. FreeNext \in Offsets /\ FreeNext \notin RootIndex
    BY IndexAssumption
<1>8. /\ mem' \in [Pages -> [Offsets -> Pages \union Words \union {Null, Junk, Foreign}]]
      /\ \A pg \in Pages \ {r} : mem'[pg] = mem[pg]
      /\ \A i \in Offsets \ {FreeNext} : mem'[r][i] = mem[r][i]
    BY <1>6, <1>7 DEF TypeOK
<1>9. KeepsTables(own, mem')
    BY <1>5, <1>7, <1>8, IndexAssumption DEF KeepsTables, TableIx
<1> QED
    BY <1>5, <1>8, <1>9

LEMMA ExecFailsKeeps == ASSUME IInv, BootOK, NEW c, ExecFails(c) PROVE IInv'
<1>1. TypeOK /\ Len(freelist) >= 2 /\ freelist \in Seq(Pages)
    BY DEF IInv, TypeOK, ExecFails
<1>2. freelist # <<>> /\ Tail(freelist) \in Seq(Pages) /\ Tail(freelist) # <<>>
    <2>1. Len(<<>>) = 0
        BY EmptySeq
    <2>2. freelist # <<>>
        BY <1>1, <2>1
    <2>3. Len(freelist) \in Nat /\ Len(Tail(freelist)) = Len(freelist) - 1 /\ Tail(freelist) \in Seq(Pages)
        BY <1>1, <2>2, AtTail
    <2>4. Len(Tail(freelist)) # 0
        BY <1>1, <2>3
    <2> QED
        BY <2>1, <2>2, <2>3, <2>4, Zenon
<1>3. freelist' = Tail(freelist)
    <2> DEFINE t == Tail(freelist)
    <2>1. t[1] = freelist[2] /\ Head(t) = t[1]
        BY <1>2, HeadTailProperties, <1>1
    <2>2. freelist' = <<t[1]>> \o Tail(t)
        BY <2>1 DEF ExecFails, RootFreed
    <2> HIDE DEF t
    <2>3. t = <<Head(t)>> \o Tail(t)
        BY <1>2 DEF t
    <2> QED
        BY <2>1, <2>2, <2>3 DEF t
<1>4. PICK p \in Procs : /\ p \notin used
                         /\ pgtbl' = [pgtbl EXCEPT ![p] = freelist[2]]
                         /\ mapping_list' = [mapping_list EXCEPT ![p] = <<>>]
    BY DEF ExecFails, FirstUnused
<1>5. freelist[2] \in Pages
    BY <1>1, ElementOfSeq, LenProperties
<1>6. <<>> \in Seq(Mappings)
    BY EmptySeq
<1>7. /\ \A q \in used : pgtbl'[q] = pgtbl[q] /\ mapping_list'[q] = mapping_list[q]
      /\ pgtbl' \in [Procs -> Pages \union {Null}] /\ mapping_list' \in [Procs -> Seq(Mappings)]
    BY <1>1, <1>4, <1>5, <1>6 DEF TypeOK
<1>8. PICK own : Owned(own)
    BY DEF IInv
<1>9. /\ KeepsTables(own, mem')
      /\ mem' \in [Pages -> [Offsets -> Pages \union Words \union {Null, Junk, Foreign}]]
    BY <1>1, <1>8, StrayMem
<1>10. /\ taken' = taken \union {Page} /\ UNCHANGED <<used, live, pc, call, single>>
    BY DEF ExecFails, Page
<1> QED
    BY <1>2, <1>3, <1>7, <1>8, <1>9, <1>10, TakenKeeps DEF ProcsKept, PageKept

(* The walk of __map_single_page() begins at the root.                     *)
LEMMA WalkBegins ==
    ASSUME IInv, Calling, level' = 2, iter_pagetable' = pgtbl[np], pgtbl' = pgtbl, np' = np
    PROVE  iter_pagetable' \in Pages /\
           iter_pagetable' = CASE level' = 2 -> pgtbl'[np']
                               [] level' = 1 -> Dir(mem, np, info.va)'
                               [] level' = 0 -> Tab(mem, np, info.va)'
<1>1. PICK own : Owned(own)
    BY DEF IInv
<1>2. np \in used
    BY DEF IInv, CallOK
<1>3. pgtbl[np] \in Pages
    BY <1>1, <1>2 DEF Owned, TableRows
<1> QED
    BY <1>3

(* alloc_vm() takes a page.                                                *)
LEMMA AllocPageKeeps == ASSUME IInv, AllocPage PROVE IInv'
<1>1. PICK own : Owned(own)
    BY DEF IInv
<1>2. /\ pc = "exec" /\ segments # <<>> /\ k <= Len(Head(segments).pages)
      /\ freelist # <<>> /\ freelist' = Tail(freelist) /\ new_mem' = Page
      /\ mem' = [mem EXCEPT ![Page] = ZeroRow]
      /\ info' = [va |-> Head(segments).pages[k], pa |-> Null]
      /\ iter_pagetable' = pgtbl[np] /\ level' = 2 /\ k' = k + 1 /\ pc' = "execmap"
      /\ UNCHANGED <<taken, used, live, pgtbl, mapping_list, caller, np, segments, old_list>>
    BY DEF AllocPage, kmalloc, procs
<1>3. TypeOK /\ np \in used \ live /\ np # caller /\ old_list = <<>> /\ info.pa = Null
      /\ new_mem = Null
    BY <1>2 DEF IInv, CallOK, Calling
<1>4. PICK own2 : own2 = [own EXCEPT ![Page] = Use("new", 0, 0)]
    OBVIOUS
<1>5. /\ own2 \in [Pages -> Uses] /\ Page \in Pages /\ own[Page].kind = "free"
      /\ own2[Page] = Use("new", 0, 0) /\ \A pg \in Pages \ {Page} : own2[pg] = own[pg]
      /\ OwnFree(own2)' /\ OwnRoots(own2)' /\ OwnDirs(own2)' /\ OwnTables(own2)'
      /\ OwnMappings(own2)' /\ TableRows(own2)'
      /\ \A p \in used, va \in VAs : /\ Dir(mem, p, va)' = Dir(mem, p, va)
                                     /\ Tab(mem, p, va)' = Tab(mem, p, va)
                                     /\ va_to_pa(mem, pgtbl[p], va)' = va_to_pa(mem, pgtbl[p], va)
    <2>1. ChangedAt(Page)
        BY <1>2, <1>3 DEF TypeOK, ChangedAt
    <2>2. ProcsKept
        BY <1>2 DEF ProcsKept
    <2>3. TypeOK /\ freelist # <<>> /\ freelist' = Tail(freelist) /\ used' = used
        BY <1>2, <1>3
    <2>4. KeepsTables(own, mem')
        BY <1>1, <2>1, <2>3, FreeChanged
    <2> QED
        BY <1>1, <1>4, <2>2, <2>3, <2>4, FreeStep, ZenonT(40)
<1>6. Owned(own2)'
    <2>1. \A pg \in Pages : \/ own2[pg] = own[pg]
                            \/ own[pg].kind \notin {"taken", "old"} /\ own2[pg].kind \notin {"taken", "old"}
        BY <1>5, UseFields
    <2>2. OwnTaken(own2)' /\ OwnOld(own2)'
        BY <1>1, <1>2, <2>1, TakenSame, OldSame DEF Owned
    <2>3. OwnCall(own2)'
        BY <1>1, <1>2, <1>3, <1>5, UseFields, Basics DEF Owned, OwnCall
    <2> QED
        BY <1>5, <2>2, <2>3 DEF Owned
<1>7. ListedIsMapped'
    <2>1. \A p \in used : ListOf(p)' = ListOf(p)
        BY <1>2, <1>3 DEF ListOf, Held
    <2> QED
        BY <1>2, <1>5, <2>1, MappedSame DEF IInv
<1>8. TypeOK'
    <2>1. freelist' \in Seq(Pages) /\ Page \in Pages
        BY <1>1, <1>2, <1>3, FreePage
    <2>2. mem' \in [Pages -> [Offsets -> Pages \union Words \union {Null, Junk, Foreign}]]
        BY <1>2, <1>3, <2>1, WordsAssumption DEF TypeOK, ZeroRow
    <2>3. info' \in [va : VAs, pa : Pages \union {Null}] /\ k' \in Nat \ {0}
        <3>1. k \in Nat \ {0} /\ k \in DOMAIN Head(segments).pages
            BY <1>2, <1>3, HeadSegment DEF TypeOK
        <3>2. Head(segments).pages[k] \in VAs
            BY <1>2, <1>3, <3>1, HeadSegment
        <3> QED
            BY <1>2, <3>1, <3>2
    <2>4. iter_pagetable' \in Pages \union {Null}
        BY <1>2, <1>3 DEF TypeOK
    <2> QED
        BY <1>2, <1>3, <2>1, <2>2, <2>3, <2>4, SMTT(40) DEF TypeOK
<1>9. CallOK'
    <2>1. iter_pagetable' \in Pages /\
           iter_pagetable' = CASE level' = 2 -> pgtbl'[np']
                               [] level' = 1 -> Dir(mem, np, info.va)'
                               [] level' = 0 -> Tab(mem, np, info.va)'
        BY <1>2, WalkBegins DEF Calling
    <2> QED
        BY <1>2, <1>3, <1>5, <2>1 DEF CallOK, Calling, Mapping
<1> QED
    BY <1>6, <1>7, <1>8, <1>9 DEF IInv

(* A page in the hands of a call changes hands: the rest stays.            *)
LEMMA HandsNext ==
    ASSUME NEW own2, NEW own3 \in [Pages -> Uses],
           OwnFree(own2)', OwnTaken(own2)', OwnRoots(own2)', OwnDirs(own2)', OwnTables(own2)',
           TableRows(own2)',
           \A pg \in Pages : \/ own3[pg] = own2[pg]
                             \/ /\ own2[pg].kind \in {"old", "info", "new", "mapping"}
                                /\ own3[pg].kind \in {"old", "info", "new", "mapping"}
    PROVE  /\ OwnFree(own3)' /\ OwnTaken(own3)' /\ OwnRoots(own3)' /\ OwnDirs(own3)'
           /\ OwnTables(own3)' /\ TableRows(own3)'
<1>1. OwnFree(own3)' /\ OwnTaken(own3)' /\ OwnRoots(own3)'
    BY UseFields DEF OwnFree, OwnTaken, OwnRoots
<1>2. OwnDirs(own3)' /\ OwnTables(own3)'
    BY UseFields DEF OwnDirs, OwnTables
<1>3. TableRows(own3)'
    BY DEF TableRows, TableIx, IsTable
<1> QED
    BY <1>1, <1>2, <1>3

(* copy_pagetable() takes a page, for the next mapping of the caller.      *)
LEMMA CopyPageKeeps == ASSUME IInv, CopyPage PROVE IInv'
<1>1. PICK own : Owned(own)
    BY DEF IInv
<1> DEFINE h == Head(old_list)
           pa0 == CopiedFrom(h)
<1>2. /\ pc = "fork" /\ old_list # <<>> /\ freelist # <<>> /\ freelist' = Tail(freelist)
      /\ new_mem' = Page /\ info' = h /\ old_list' = Tail(old_list)
      /\ mem' = [mem EXCEPT ![Page] = IF pa0 = Null THEN ZeroRow ELSE mem[pa0]]
      /\ iter_pagetable' = pgtbl[np] /\ level' = 2 /\ pc' = "forkmap"
      /\ UNCHANGED <<taken, used, live, pgtbl, mapping_list, caller, np, segments, k>>
    BY DEF CopyPage, kmalloc, procs
<1>3. /\ TypeOK /\ ListedIsMapped /\ np \in used \ live /\ np # caller /\ caller \in live
      /\ caller \in used /\ used \subseteq Procs
      /\ info.pa = Null /\ new_mem = Null /\ old_list \in Seq(Mappings)
    BY <1>2 DEF IInv, CallOK, Calling, TypeOK
<1>4. /\ h \in Mappings /\ old_list' \in Seq(Mappings) /\ Len(old_list) \in Nat
      /\ At(old_list, h, Len(old_list))
      /\ \A x, m : At(old_list', x, m) <=> At(old_list, x, m) /\ m # Len(old_list)
    BY <1>2, <1>3, AtTail
<1>5. h.pa \in Pages /\ h.va \in VAs /\ h = [va |-> h.va, pa |-> h.pa]
    BY <1>4 DEF Mappings
<1>6. pa0 = Null \/ pa0 \in Pages
    BY <1>1, <1>3, <1>5, Reached DEF CopiedFrom
<1> HIDE DEF h, pa0
<1>7. own[h.pa] = Use("old", Len(old_list), 0)
    BY <1>1, <1>4, <1>5 DEF Owned, OwnOld
<1>8. PICK own2 : own2 = [own EXCEPT ![Page] = Use("new", 0, 0)]
    OBVIOUS
<1>9. /\ own2 \in [Pages -> Uses] /\ Page \in Pages /\ own[Page].kind = "free"
      /\ own2[Page] = Use("new", 0, 0) /\ \A pg \in Pages \ {Page} : own2[pg] = own[pg]
      /\ OwnFree(own2)' /\ OwnRoots(own2)' /\ OwnDirs(own2)' /\ OwnTables(own2)'
      /\ OwnMappings(own2)' /\ TableRows(own2)'
      /\ \A p \in used, va \in VAs : /\ Dir(mem, p, va)' = Dir(mem, p, va)
                                     /\ Tab(mem, p, va)' = Tab(mem, p, va)
                                     /\ va_to_pa(mem, pgtbl[p], va)' = va_to_pa(mem, pgtbl[p], va)
    <2>1. ChangedAt(Page)
        BY <1>2, <1>3 DEF TypeOK, ChangedAt
    <2>2. ProcsKept
        BY <1>2 DEF ProcsKept
    <2>3. TypeOK /\ freelist # <<>> /\ freelist' = Tail(freelist) /\ used' = used
        BY <1>2, <1>3
    <2>4. KeepsTables(own, mem')
        BY <1>1, <2>1, <2>3, FreeChanged
    <2> QED
        BY <1>1, <1>8, <2>2, <2>3, <2>4, FreeStep, ZenonT(40)
<1>10. PICK own3 : own3 = [own2 EXCEPT ![h.pa] = Use("info", 0, 0)]
    OBVIOUS
<1>11. /\ own3 \in [Pages -> Uses] /\ h.pa # Page
       /\ own3[h.pa] = Use("info", 0, 0) /\ own3[Page] = Use("new", 0, 0)
       /\ \A pg \in Pages \ {Page, h.pa} : own3[pg] = own[pg]
    BY <1>5, <1>7, <1>9, <1>10, UseFields, UsesMade
<1>12. OwnTaken(own2)'
    <2>1. \A pg \in Pages : \/ own2[pg] = own[pg]
                            \/ own[pg].kind # "taken" /\ own2[pg].kind # "taken"
        BY <1>9, UseFields
    <2> QED
        BY <1>1, <1>2, <2>1, TakenSame DEF Owned
<1>13. /\ OwnFree(own3)' /\ OwnTaken(own3)' /\ OwnRoots(own3)' /\ OwnDirs(own3)'
       /\ OwnTables(own3)' /\ TableRows(own3)'
    <2>1. \A pg \in Pages : \/ own3[pg] = own2[pg]
                            \/ /\ own2[pg].kind \in {"old", "info", "new", "mapping"}
                               /\ own3[pg].kind \in {"old", "info", "new", "mapping"}
        BY <1>5, <1>7, <1>9, <1>11, UseFields
    <2> QED
        BY <1>9, <1>11, <1>12, <2>1, HandsNext
<1>14. OwnMappings(own3)'
    <2>1. \A pg \in Pages : \/ own3[pg] = own[pg]
                            \/ own[pg].kind # "mapping" /\ own3[pg].kind # "mapping"
        BY <1>7, <1>9, <1>11, UseFields
    <2> QED
        BY <1>1, <1>2, <2>1, MappingsSame DEF Owned
<1>15. OwnOld(own3)'
    <2> SUFFICES ASSUME NEW pg \in Pages, NEW m \in Nat
                 PROVE  own3[pg] = Use("old", m, 0) <=>
                            \E va \in VAs : At(old_list', [va |-> va, pa |-> pg], m)
        BY DEF OwnOld
    <2>1. own[pg] = Use("old", m, 0) <=> \E va \in VAs : At(old_list, [va |-> va, pa |-> pg], m)
        BY <1>1 DEF Owned, OwnOld
    <2>2. CASE pg \in {Page, h.pa}
        <3>1. own3[pg] # Use("old", m, 0)
            BY <1>11, <2>2, UseFields
        <3>2. ASSUME NEW va \in VAs, At(old_list', [va |-> va, pa |-> pg], m) PROVE FALSE
            <4>1. At(old_list, [va |-> va, pa |-> pg], m) /\ m # Len(old_list)
                BY <1>4, <3>2
            <4>2. own[pg] = Use("old", m, 0)
                BY <2>1, <4>1
            <4> QED
                BY <1>7, <1>9, <2>2, <4>1, <4>2, UseFields
        <3> QED
            BY <3>1, <3>2
    <2>3. CASE pg \notin {Page, h.pa}
        <3>1. own3[pg] = own[pg]
            BY <1>11, <2>3
        <3>2. ASSUME NEW va \in VAs, At(old_list, [va |-> va, pa |-> pg], m) PROVE m # Len(old_list)
            <4>1. m = Len(old_list) => [va |-> va, pa |-> pg] = h
                BY <1>3, <1>4, <3>2, AtOne
            <4> QED
                BY <2>3, <4>1
        <3> QED
            BY <1>4, <2>1, <3>1, <3>2
    <2> QED
        BY <2>2, <2>3
<1>16. OwnCall(own3)'
    <2> SUFFICES ASSUME NEW pg \in Pages
                 PROVE  /\ own3[pg] = Use("info", 0, 0) <=> h.pa = pg
                        /\ own3[pg] = Use("new", 0, 0) <=> Page = pg
        BY <1>2 DEF OwnCall
    <2>1. own[pg] # Use("info", 0, 0) /\ own[pg] # Use("new", 0, 0)
        BY <1>1, <1>3, Basics DEF Owned, OwnCall
    <2> QED
        BY <1>11, <2>1, UseFields
<1>17. Owned(own3)'
    BY <1>11, <1>13, <1>14, <1>15, <1>16 DEF Owned
<1>18. ListedIsMapped'
    <2>1. ASSUME NEW p \in used PROVE ListOf(p)' = ListOf(p)
        <3>1. p \in Procs /\ mapping_list'[p] = mapping_list[p] /\ caller' = caller
              /\ mapping_list'[p] \in Seq(Mappings)
            BY <1>2, <1>3 DEF TypeOK
        <3>2. \A x : x \in ListOf(p) <=>
                \/ \E m \in Nat : At(mapping_list[p], x, m)
                \/ p = caller /\ \E m \in Nat : At(old_list, x, m)
            BY <1>3, <3>1, ListOfAt
        <3>3. \A x : x \in ListOf(p)' <=>
                \/ \E m \in Nat : At(mapping_list[p], x, m)
                \/ p = caller /\ \E m \in Nat : At(old_list', x, m)
                \/ p = caller /\ x = h
            <4>1. h.pa # Null
                BY <1>5, Basics
            <4> QED
                BY <1>2, <1>4, <3>1, <4>1, ListOfAtNext
        <3>4. \A x : (\E m \in Nat : At(old_list, x, m)) <=> (\E m \in Nat : At(old_list', x, m)) \/ x = h
            BY <1>3, <1>4, AtOne
        <3> QED
            BY <3>2, <3>3, <3>4
    <2> QED
        BY <1>2, <1>3, <1>9, <2>1, MappedSame
<1>19. TypeOK'
    <2>1. freelist' \in Seq(Pages)
        BY <1>1, <1>2, <1>3, FreePage
    <2>2. mem' \in [Pages -> [Offsets -> Pages \union Words \union {Null, Junk, Foreign}]]
        BY <1>2, <1>3, <1>6, <1>9, WordsAssumption DEF TypeOK, ZeroRow
    <2>3. info' \in [va : VAs, pa : Pages \union {Null}]
        BY <1>2, <1>4 DEF Mappings
    <2>4. iter_pagetable' \in Pages \union {Null} /\ new_mem' \in Pages
        BY <1>2, <1>3, <1>9 DEF TypeOK
    <2> QED
        BY <1>2, <1>3, <1>4, <2>1, <2>2, <2>3, <2>4 DEF TypeOK
<1>20. CallOK'
    <2>1. iter_pagetable' \in Pages /\
           iter_pagetable' = CASE level' = 2 -> pgtbl'[np']
                               [] level' = 1 -> Dir(mem, np, info.va)'
                               [] level' = 0 -> Tab(mem, np, info.va)'
        BY <1>2, WalkBegins DEF Calling
    <2> QED
        BY <1>2, <1>3, <1>5, <1>9, <2>1 DEF CallOK, Calling, Mapping
<1> QED
    BY <1>17, <1>18, <1>19, <1>20 DEF IInv

-----------------------------------------------------------------------------
(* __map_single_page()                                                     *)

LEMMA CallSame ==
    ASSUME NEW own, NEW own2, OwnCall(own), info' = info, new_mem' = new_mem,
           \A pg \in Pages : \/ own2[pg] = own[pg]
                             \/ own[pg].kind \notin {"info", "new"} /\ own2[pg].kind \notin {"info", "new"}
    PROVE  OwnCall(own2)'
BY UseFields DEF OwnCall

(* A new table is entered: no page is reached that was not before.         *)
LEMMA NewTablePaths ==
    ASSUME IInv, NEW own, Owned(own), NewTable
    PROVE  /\ Page \in Pages /\ own[Page].kind = "free" /\ iter_pagetable # Page
           /\ mem' \in [Pages -> [Offsets -> Pages \union Words \union {Null, Junk, Foreign}]]
           /\ mem'[Page] = ZeroRow
           /\ mem'[iter_pagetable] = [mem[iter_pagetable] EXCEPT ![Here] = Page]
           /\ \A pg \in Pages \ {Page, iter_pagetable} : mem'[pg] = mem[pg]
           /\ level = 2 => Dir(mem', np, info.va) = Page
           /\ level = 1 => Tab(mem', np, info.va) = Page
           /\ \A p \in used, va \in VAs :
                va_to_pa(mem', pgtbl[p], va) = va_to_pa(mem, pgtbl[p], va)
<1> DEFINE T == iter_pagetable
           H == Here
<1>1. /\ Mapping /\ level > 0 /\ mem[T][H] = Null /\ freelist # <<>>
      /\ mem' = [mem EXCEPT ![Page] = ZeroRow, ![T][H] = Page]
    BY DEF NewTable, kmalloc
<1>2. /\ np \in used /\ info.va \in VAs /\ T \in Pages /\ H \in Offsets /\ level \in {1, 2}
      /\ level = 2 => own[T] = Use("root", np, 0) /\ T = pgtbl[np]
      /\ level = 1 => /\ own[T] = Use("directory", pgtbl[np], PX(2, info.va))
                      /\ T = Dir(mem, np, info.va)
    BY <1>1, WalkAt
<1>3. TypeOK /\ Page \in Pages /\ own[Page].kind = "free"
    BY <1>1, FreePage DEF IInv
<1>4. T # Page /\ T # Null /\ Page # Null
    BY <1>2, <1>3, UseFields, Basics
<1>5. /\ mem' \in [Pages -> [Offsets -> Pages \union Words \union {Null, Junk, Foreign}]]
      /\ mem'[Page] = ZeroRow /\ mem'[T] = [mem[T] EXCEPT ![H] = Page]
      /\ \A pg \in Pages \ {Page, T} : mem'[pg] = mem[pg]
    <2> HIDE DEF T, H, Page
    <2> QED
        BY <1>1, <1>2, <1>3, <1>4, WordsAssumption DEF TypeOK, ZeroRow
<1>6. mem'[T][H] = Page /\ \A i \in Offsets \ {H} : mem'[T][i] = mem[T][i]
    BY <1>2, <1>3, <1>5 DEF TypeOK
<1>7. \A i \in Offsets : mem'[Page][i] = Null
    BY <1>5 DEF ZeroRow, Null
<1>8. PX(level, info.va) = H
    BY DEF Here
<1> HIDE DEF T, H
<1>9. ASSUME NEW p \in used, NEW va \in VAs
      PROVE  va_to_pa(mem', pgtbl[p], va) = va_to_pa(mem, pgtbl[p], va)
    <2> DEFINE r == pgtbl[p]
               d == Dir(mem, p, va)
               t == Tab(mem, p, va)
               d2 == Dir(mem', p, va)
               t2 == Tab(mem', p, va)
               i2 == PX(2, va)
               i1 == PX(1, va)
               i0 == PX(0, va)
    <2>1. i2 \in Offsets /\ i1 \in Offsets /\ i0 \in Offsets
        BY Indices
    <2>2. /\ r \in Pages /\ own[r] = Use("root", p, 0)
          /\ d = Null \/ (d \in Pages /\ own[d] = Use("directory", r, i2))
          /\ t = Null \/ (d # Null /\ t \in Pages /\ own[t] = Use("table", d, i1))
        BY <1>3, Path
    <2>3. /\ d2 = mem'[r][i2] /\ t2 = Entry(mem', d2, i1)
          /\ d = mem[r][i2] /\ t = Entry(mem, d, i1)
          /\ va_to_pa(mem', pgtbl[p], va) = Entry(mem', t2, i0)
          /\ va_to_pa(mem, pgtbl[p], va) = Entry(mem, t, i0)
        <3>1. d2 = mem'[r][i2] /\ d = mem[r][i2]
            BY <2>2, Basics DEF Dir, Entry
        <3>2. t2 = Entry(mem', d2, i1) /\ t = Entry(mem, d, i1)
            BY DEF Tab
        <3>3. /\ va_to_pa(mem', pgtbl[p], va) = Entry(mem', t2, i0)
              /\ va_to_pa(mem, pgtbl[p], va) = Entry(mem, t, i0)
            BY DEF va_to_pa, Tab, Dir
        <3> QED
            BY <3>1, <3>2, <3>3
    <2> HIDE DEF r, d, t, d2, t2, i2, i1, i0
    <2>4. r # Page /\ (d # Null => d # Page) /\ (t # Null => t # Page /\ t # T)
        BY <1>2, <1>3, <2>2, UseFields
    <2>5. CASE r = T /\ i2 = H
        <3>1. d2 = Page /\ d = Null
            BY <1>1, <1>6, <2>3, <2>5
        <3>2. t2 = Null /\ t = Null
            BY <1>4, <1>7, <2>1, <2>3, <3>1 DEF Entry
        <3> QED
            BY <2>3, <3>2 DEF Entry
    <2>6. CASE ~ (r = T /\ i2 = H)
        <3>1. d2 = d
            BY <1>5, <1>6, <2>1, <2>2, <2>3, <2>4, <2>6
        <3>2. CASE d = T /\ i1 = H
            <4>1. t = Null /\ t2 = Page
                BY <1>1, <1>4, <1>6, <2>3, <3>1, <3>2 DEF Entry
            <4> QED
                BY <1>4, <1>7, <2>1, <2>3, <4>1 DEF Entry
        <3>3. CASE ~ (d = T /\ i1 = H)
            <4>1. t2 = t
                BY <1>5, <1>6, <2>1, <2>2, <2>3, <2>4, <3>1, <3>3 DEF Entry
            <4> QED
                BY <1>5, <2>2, <2>3, <2>4, <4>1 DEF Entry
        <3> QED
            BY <3>2, <3>3
    <2> QED
        BY <2>5, <2>6
<1>10. level = 2 => Dir(mem', np, info.va) = Page
    BY <1>2, <1>4, <1>6, <1>8 DEF Dir, Entry
<1>11. level = 1 => Tab(mem', np, info.va) = Page
    <2>1. ASSUME level = 1 PROVE Dir(mem', np, info.va) = T
        <3>1. pgtbl[np] \in Pages /\ own[pgtbl[np]] = Use("root", np, 0)
            BY <1>2, <1>3, Path
        <3>2. pgtbl[np] # T /\ pgtbl[np] # Page
            BY <1>2, <1>3, <2>1, <3>1, UseFields
        <3>3. mem'[pgtbl[np]] = mem[pgtbl[np]]
            BY <1>5, <3>1, <3>2
        <3> QED
            BY <1>2, <2>1, <3>3 DEF Dir, Entry
    <2> QED
        BY <1>4, <1>6, <1>8, <2>1 DEF Tab, Entry
<1> QED
    BY <1>3, <1>4, <1>5, <1>9, <1>10, <1>11 DEF T, H

LEMMA NewTableKeeps == ASSUME IInv, NewTable PROVE IInv'
<1>1. PICK own : Owned(own)
    BY DEF IInv
<1> DEFINE T == iter_pagetable
           H == Here
<1>2. /\ Mapping /\ level > 0 /\ mem[T][H] = Null /\ freelist # <<>>
      /\ freelist' = Tail(freelist) /\ iter_pagetable' = Page /\ level' = level - 1
      /\ UNCHANGED <<taken, used, live, pgtbl, mapping_list, pc, caller, np, segments, k,
                     old_list, info, new_mem>>
    BY DEF NewTable, kmalloc, procs, call
<1>3. /\ TypeOK /\ ListedIsMapped /\ np \in used /\ info.va \in VAs /\ T \in Pages /\ H \in Offsets
      /\ level \in {1, 2} /\ (level = 2 => H \in RootIndex)
      /\ level = 2 => own[T].kind = "root"
      /\ level = 1 => own[T].kind = "directory"
    BY <1>1, <1>2, WalkAt, UseFields DEF IInv
<1>4. /\ Page \in Pages /\ own[Page].kind = "free" /\ T # Page
      /\ mem' \in [Pages -> [Offsets -> Pages \union Words \union {Null, Junk, Foreign}]]
      /\ mem'[Page] = ZeroRow /\ mem'[T] = [mem[T] EXCEPT ![H] = Page]
      /\ \A pg \in Pages \ {Page, T} : mem'[pg] = mem[pg]
      /\ level = 2 => Dir(mem', np, info.va) = Page
      /\ level = 1 => Tab(mem', np, info.va) = Page
      /\ \A p \in used, va \in VAs :
            va_to_pa(mem', pgtbl[p], va) = va_to_pa(mem, pgtbl[p], va)
    BY <1>1, NewTablePaths
<1> DEFINE u == IF level = 2 THEN Use("directory", T, H) ELSE Use("table", T, H)
<1>5. u \in Uses /\ u.kind \in {"directory", "table"} /\ (u.kind = "directory" <=> level = 2)
      /\ u = Use(u.kind, T, H)
    BY <1>3, UsesMade, UseFields
<1> HIDE DEF u, T, H
<1>6. PICK own2 : own2 = [own EXCEPT ![Page] = u]
    OBVIOUS
<1>7. /\ own2 \in [Pages -> Uses] /\ own2[Page] = u
      /\ \A pg \in Pages \ {Page} : own2[pg] = own[pg]
    BY <1>1, <1>4, <1>5, <1>6 DEF Owned
<1>8. /\ mem'[T][H] = Page /\ (\A i \in Offsets \ {H} : mem'[T][i] = mem[T][i])
      /\ \A i \in Offsets : mem'[Page][i] = Null
      /\ RootIndex \subseteq Offsets
    BY <1>3, <1>4, IndexAssumption DEF TypeOK, ZeroRow, Null
<1>9. OwnFree(own2)'
    <2>1. \A pg \in Pages, m \in Nat :
            At(freelist', pg, m) <=> pg # Page /\ own[pg] = Use("free", m, 0)
        BY <1>1, <1>2, <1>3, FreePage
    <2> QED
        BY <1>5, <1>7, <2>1, UseFields DEF OwnFree
<1>10. \A pg \in Pages : own2[pg] = own[pg]
            \/ /\ own[pg].kind \notin {"taken", "root", "mapping", "old", "info", "new"}
               /\ own2[pg].kind \notin {"taken", "root", "mapping", "old", "info", "new"}
    BY <1>4, <1>5, <1>7
<1>11. OwnTaken(own2)' /\ OwnRoots(own2)' /\ OwnOld(own2)' /\ OwnMappings(own2)' /\ OwnCall(own2)'
    <2>1. OwnTaken(own) /\ OwnRoots(own) /\ OwnOld(own) /\ OwnMappings(own) /\ OwnCall(own)
        BY <1>1 DEF Owned
    <2>2. OwnTaken(own2)'
        BY <1>2, <1>10, <2>1, TakenSame
    <2>3. OwnRoots(own2)'
        BY <1>2, <1>10, <2>1, RootsSame
    <2>4. OwnOld(own2)'
        BY <1>2, <1>10, <2>1, OldSame
    <2>5. OwnMappings(own2)'
        BY <1>2, <1>10, <2>1, MappingsSame
    <2>6. OwnCall(own2)'
        BY <1>2, <1>10, <2>1, CallSame
    <2> QED
        BY <2>2, <2>3, <2>4, <2>5, <2>6
<1>12. OwnDirs(own2)'
    <2> SUFFICES ASSUME NEW pg \in Pages, NEW t \in Pages, NEW i \in RootIndex
                 PROVE  own2[pg] = Use("directory", t, i) <=> own2[t].kind = "root" /\ mem'[t][i] = pg
        BY DEF OwnDirs
    <2>1. own[pg] = Use("directory", t, i) <=> own[t].kind = "root" /\ mem[t][i] = pg
        BY <1>1 DEF Owned, OwnDirs
    <2>2. own[Page] = Use("directory", t, i) <=> own[t].kind = "root" /\ mem[t][i] = Page
        BY <1>1, <1>4 DEF Owned, OwnDirs
    <2>3. mem[T][H] # pg
        BY <1>2, Basics DEF T, H
    <2> QED
        BY <1>3, <1>4, <1>5, <1>7, <1>8, <2>1, <2>2, <2>3, UseFields
<1>13. OwnTables(own2)'
    <2> SUFFICES ASSUME NEW pg \in Pages, NEW t \in Pages, NEW i \in Offsets
                 PROVE  own2[pg] = Use("table", t, i) <=> own2[t].kind = "directory" /\ mem'[t][i] = pg
        BY DEF OwnTables
    <2>1. own[pg] = Use("table", t, i) <=> own[t].kind = "directory" /\ mem[t][i] = pg
        BY <1>1 DEF Owned, OwnTables
    <2>2. own[Page] = Use("table", t, i) <=> own[t].kind = "directory" /\ mem[t][i] = Page
        BY <1>1, <1>4 DEF Owned, OwnTables
    <2>3. mem[T][H] # pg /\ Null # pg
        BY <1>2, Basics DEF T, H
    <2>4. t = Page => own[pg] # Use("table", t, i)
        BY <1>4, <2>1
    <2> QED
        BY <1>3, <1>4, <1>5, <1>7, <1>8, <2>1, <2>2, <2>3, <2>4, UseFields
<1>14. TableRows(own2)'
    <2>1. ASSUME NEW t \in Pages, IsTable(own2, t), NEW i \in TableIx(own2, t)
          PROVE  mem'[t][i] \in Pages \union {Null}
        <3>1. i \in Offsets
            BY <1>8, <2>1 DEF TableIx
        <3>2. CASE t = Page
            BY <1>8, <3>1, <3>2
        <3>3. CASE t # Page
            <4>1. mem[t][i] \in Pages \union {Null}
                BY <1>1, <1>7, <2>1, <3>3 DEF Owned, TableRows, TableIx, IsTable
            <4> QED
                BY <1>3, <1>4, <1>8, <3>1, <3>3, <4>1
        <3> QED
            BY <3>2, <3>3
    <2> QED
        BY <1>1, <1>2, <2>1 DEF Owned, TableRows, TableIx, IsTable
<1>15. Owned(own2)'
    BY <1>7, <1>9, <1>11, <1>12, <1>13, <1>14 DEF Owned
<1>16. ListedIsMapped'
    <2>1. \A p \in used : ListOf(p)' = ListOf(p)
        BY <1>2 DEF ListOf, Held
    <2>2. \A p \in used, va \in VAs :
            va_to_pa(mem, pgtbl[p], va)' = va_to_pa(mem, pgtbl[p], va)
        BY <1>2, <1>4
    <2> QED
        BY <1>2, <1>3, <2>1, <2>2, MappedSame
<1>17. TypeOK'
    <2>1. freelist' \in Seq(Pages)
        BY <1>1, <1>2, <1>3, FreePage
    <2> QED
        BY <1>2, <1>3, <1>4, <2>1 DEF TypeOK
<1>18. CallOK'
    <2>1. /\ level' = 1 => iter_pagetable' = Dir(mem, np, info.va)'
          /\ level' = 0 => iter_pagetable' = Tab(mem, np, info.va)'
          /\ level' \in {0, 1} /\ iter_pagetable' \in Pages
        <3>1. /\ Dir(mem, np, info.va)' = Dir(mem', np, info.va)
              /\ Tab(mem, np, info.va)' = Tab(mem', np, info.va)
            BY <1>2 DEF Dir, Tab
        <3> QED
            BY <1>2, <1>3, <1>4, <3>1
    <2> QED
        BY <1>2, <2>1 DEF IInv, CallOK, Calling, Mapping
<1> QED
    BY <1>15, <1>16, <1>17, <1>18 DEF IInv

(* A table belongs to one place of one process.                            *)
LEMMA TabUnique ==
    ASSUME TypeOK, NEW own, Owned(own), NEW p \in used, NEW q \in used, NEW va \in VAs, NEW vb \in VAs,
           Tab(mem, p, va) = Tab(mem, q, vb), Tab(mem, p, va) # Null
    PROVE  p = q /\ PX(2, va) = PX(2, vb) /\ PX(1, va) = PX(1, vb)
<1>1. /\ own[pgtbl[p]] = Use("root", p, 0)
      /\ own[Dir(mem, p, va)] = Use("directory", pgtbl[p], PX(2, va))
      /\ own[Tab(mem, p, va)] = Use("table", Dir(mem, p, va), PX(1, va))
    BY Path
<1>2. /\ own[pgtbl[q]] = Use("root", q, 0)
      /\ own[Dir(mem, q, vb)] = Use("directory", pgtbl[q], PX(2, vb))
      /\ own[Tab(mem, q, vb)] = Use("table", Dir(mem, q, vb), PX(1, vb))
    BY Path
<1>3. Dir(mem, p, va) = Dir(mem, q, vb) /\ PX(1, va) = PX(1, vb)
    BY <1>1, <1>2, UseFields
<1>4. pgtbl[p] = pgtbl[q] /\ PX(2, va) = PX(2, vb)
    BY <1>1, <1>2, <1>3, UseFields
<1> QED
    BY <1>1, <1>2, <1>3, <1>4, UseFields

(* The leaf entry changes what one page of the new process is.             *)
LEMMA LeafPaths ==
    ASSUME IInv, NEW own, Owned(own), Mapping, level = 0, NEW m2, m2 = Mapped
    PROVE  /\ m2 \in [Pages -> [Offsets -> Pages \union Words \union {Null, Junk, Foreign}]]
           /\ m2[iter_pagetable] = [mem[iter_pagetable] EXCEPT ![Here] = new_mem]
           /\ \A pg \in Pages \ {iter_pagetable} : m2[pg] = mem[pg]
           /\ \A p \in used, va \in VAs :
                va_to_pa(m2, pgtbl[p], va) = IF p = np /\ va = info.va THEN new_mem
                                             ELSE va_to_pa(mem, pgtbl[p], va)
<1> DEFINE T == iter_pagetable
           H == Here
<1>1. /\ np \in used /\ info.va \in VAs /\ T \in Pages /\ H \in Offsets /\ TypeOK
      /\ own[T].kind = "table" /\ T = Tab(mem, np, info.va) /\ PX(0, info.va) = H
      /\ new_mem \in Pages /\ T # Null
    BY WalkAt, UseFields, Basics DEF IInv, CallOK, Here
<1>2. m2 = [mem EXCEPT ![T][H] = new_mem]
    BY DEF Mapped
<1> HIDE DEF T, H
<1>3. /\ m2 \in [Pages -> [Offsets -> Pages \union Words \union {Null, Junk, Foreign}]]
      /\ m2[T] = [mem[T] EXCEPT ![H] = new_mem]
      /\ \A pg \in Pages \ {T} : m2[pg] = mem[pg]
    BY <1>1, <1>2 DEF TypeOK
<1>4. m2[T][H] = new_mem /\ \A i \in Offsets \ {H} : m2[T][i] = mem[T][i]
    BY <1>1, <1>3 DEF TypeOK
<1>5. ASSUME NEW p \in used, NEW va \in VAs
      PROVE  va_to_pa(m2, pgtbl[p], va) = IF p = np /\ va = info.va THEN new_mem
                                          ELSE va_to_pa(mem, pgtbl[p], va)
    <2> DEFINE d == Dir(mem, p, va)
               t == Tab(mem, p, va)
               i0 == PX(0, va)
    <2>1. /\ pgtbl[p] \in Pages /\ own[pgtbl[p]] = Use("root", p, 0)
          /\ d = Null \/ (d \in Pages /\ own[d] = Use("directory", pgtbl[p], PX(2, va)))
          /\ t = Null \/ (d # Null /\ t \in Pages /\ own[t] = Use("table", d, PX(1, va)))
        BY <1>1, Path
    <2>2. m2[pgtbl[p]] = mem[pgtbl[p]] /\ (d # Null => m2[d] = mem[d])
        BY <1>1, <1>3, <2>1, UseFields
    <2>3. Dir(m2, p, va) = d
        BY <2>2 DEF Dir, Entry
    <2>4. Tab(m2, p, va) = t
        BY <2>2, <2>3 DEF Tab, Entry
    <2>5. /\ va_to_pa(m2, pgtbl[p], va) = Entry(m2, t, i0)
          /\ va_to_pa(mem, pgtbl[p], va) = Entry(mem, t, i0)
        <3>1. va_to_pa(m2, pgtbl[p], va) = Entry(m2, Tab(m2, p, va), i0)
            BY DEF va_to_pa, Tab, Dir
        <3>2. va_to_pa(mem, pgtbl[p], va) = Entry(mem, t, i0)
            BY DEF va_to_pa, Tab, Dir
        <3> QED
            BY <2>4, <3>1, <3>2
    <2>6. i0 \in Offsets
        BY Indices
    <2>7. t = T /\ i0 = H <=> p = np /\ va = info.va
        <3>1. ASSUME t = T, i0 = H PROVE p = np /\ va = info.va
            <4>1. p = np /\ PX(2, va) = PX(2, info.va) /\ PX(1, va) = PX(1, info.va)
                BY <1>1, <3>1, TabUnique
            <4>2. \A l \in 0..2 : PX(l, va) = PX(l, info.va)
                <5>1. \A l \in 0..2 : l = 0 \/ l = 1 \/ l = 2
                    OBVIOUS
                <5> QED
                    BY <1>1, <3>1, <4>1, <5>1
            <4> QED
                BY <1>1, <4>1, <4>2, Indices
        <3> QED
            BY <1>1, <3>1
    <2> HIDE DEF d, t, i0
    <2>8. CASE t = T /\ i0 = H
        BY <1>1, <1>4, <2>5, <2>7, <2>8 DEF Entry
    <2>9. CASE ~ (t = T /\ i0 = H)
        <3>1. Entry(m2, t, i0) = Entry(mem, t, i0)
            BY <1>3, <1>4, <2>1, <2>6, <2>9 DEF Entry
        <3> QED
            BY <2>5, <2>7, <2>9, <3>1
    <2> QED
        BY <2>8, <2>9
<1> QED
    BY <1>3, <1>5 DEF T, H

(* A leaf table is nobody's directory: ownership of tables stays.          *)
LEMMA LeafOwned ==
    ASSUME IInv, NEW own, Owned(own), MapLeaf, NEW own2 \in [Pages -> Uses],
           \A pg \in Pages : \/ own2[pg] = own[pg]
                             \/ /\ own[pg].kind \in {"old", "info", "new", "mapping"}
                                /\ own2[pg].kind \in {"old", "info", "new", "mapping"}
    PROVE  /\ OwnFree(own2)' /\ OwnTaken(own2)' /\ OwnRoots(own2)' /\ OwnDirs(own2)'
           /\ OwnTables(own2)' /\ TableRows(own2)'
<1> DEFINE T == iter_pagetable
<1>1. /\ Mapping /\ level = 0 /\ mem' = Mapped /\ UNCHANGED <<freelist, taken, used, pgtbl>>
    BY DEF MapLeaf
<1>2. /\ T \in Pages /\ own[T].kind = "table" /\ Here \in Offsets /\ new_mem \in Pages
    BY <1>1, WalkAt, UseFields DEF IInv, CallOK
<1>3. mem'[T] = [mem[T] EXCEPT ![Here] = new_mem] /\ \A pg \in Pages \ {T} : mem'[pg] = mem[pg]
    <2> DEFINE m2 == mem'
    <2> HIDE DEF m2
    <2>1. m2[T] = [mem[T] EXCEPT ![Here] = new_mem] /\ \A pg \in Pages \ {T} : m2[pg] = mem[pg]
        BY <1>1, LeafPaths DEF m2
    <2> QED
        BY <2>1 DEF m2
<1> HIDE DEF T
<1>4. OwnFree(own2)' /\ OwnTaken(own2)' /\ OwnRoots(own2)'
    BY <1>1, UseFields DEF Owned, OwnFree, OwnTaken, OwnRoots
<1>5. OwnDirs(own2)' /\ OwnTables(own2)'
    <2>1. \A t \in Pages : /\ own2[t].kind = "root" <=> own[t].kind = "root"
                           /\ own2[t].kind = "directory" <=> own[t].kind = "directory"
                           /\ own[t].kind \in {"root", "directory"} => mem'[t] = mem[t]
        BY <1>2, <1>3
    <2>2. \A pg, t \in Pages, i \in Offsets \union RootIndex :
                /\ own2[pg] = Use("directory", t, i) <=> own[pg] = Use("directory", t, i)
                /\ own2[pg] = Use("table", t, i) <=> own[pg] = Use("table", t, i)
        BY UseFields
    <2> QED
        BY <2>1, <2>2 DEF Owned, OwnDirs, OwnTables
<1>6. TableRows(own2)'
    <2>1. ASSUME NEW t \in Pages, IsTable(own2, t), NEW i \in TableIx(own2, t)
          PROVE  mem'[t][i] \in Pages \union {Null}
        <3>1. own2[t] = own[t]
            BY <2>1 DEF IsTable
        <3>2. mem[t][i] \in Pages \union {Null} /\ i \in Offsets
            BY <2>1, <3>1, IndexAssumption DEF Owned, TableRows, TableIx, IsTable
        <3>3. t = T => mem'[t][i] = IF i = Here THEN new_mem ELSE mem[t][i]
            BY <1>2, <1>3, <3>2 DEF IInv, TypeOK
        <3> QED
            BY <1>2, <1>3, <3>2, <3>3
    <2> QED
        BY <1>1, <2>1 DEF Owned, TableRows, TableIx, IsTable
<1> QED
    BY <1>4, <1>5, <1>6

(* The lists after the leaf entry: the new page is on the list of the new  *)
(* process, and the caller of fork() has its mapping back.                 *)
LEMMA LeafLists ==
    ASSUME IInv, NEW own, Owned(own), MapLeaf
    PROVE  /\ mapping_list' \in [Procs -> Seq(Mappings)]
           /\ \A p \in Procs : \A x, m : At(mapping_list'[p], x, m) <=>
                \/ At(mapping_list[p], x, m)
                \/ p = np /\ x = [va |-> info.va, pa |-> new_mem] /\ m = Len(mapping_list[np]) + 1
                \/ p = caller /\ info.pa # Null /\ x = info /\ m = Len(mapping_list[caller]) + 1
           /\ Len(mapping_list[np]) \in Nat
           /\ info.pa # Null => Len(mapping_list[caller]) \in Nat
<1> DEFINE leaf == [va |-> info.va, pa |-> new_mem]
           pn == Push(leaf, mapping_list[np])
           pl == Push(info, mapping_list[caller])
<1>1. /\ Mapping /\ level = 0
      /\ mapping_list' = IF pc = "execmap" THEN PushExec ELSE PushFork
    BY DEF MapLeaf
<1>2. /\ TypeOK /\ np \in used /\ used \subseteq Procs /\ np \in Procs /\ new_mem \in Pages
      /\ info.va \in VAs /\ np # caller /\ mapping_list \in [Procs -> Seq(Mappings)]
      /\ mapping_list[np] \in Seq(Mappings) /\ live \subseteq used
    BY <1>1, WalkAt DEF IInv, TypeOK, CallOK, Calling, Mapping
<1>3. leaf \in Mappings
    BY <1>2 DEF Mappings
<1> HIDE DEF leaf
<1>4. /\ pn \in Seq(Mappings) /\ Len(mapping_list[np]) \in Nat
      /\ \A x, m : At(pn, x, m) <=>
            At(mapping_list[np], x, m) \/ (x = leaf /\ m = Len(mapping_list[np]) + 1)
    BY <1>2, <1>3, AtPush
<1>5. CASE pc = "execmap"
    <2>1. info.pa = Null
        BY <1>5 DEF IInv, CallOK
    <2>2. mapping_list' = [mapping_list EXCEPT ![np] = pn]
        BY <1>1, <1>5 DEF PushExec, leaf
    <2> HIDE DEF pn
    <2>3. /\ mapping_list' \in [Procs -> Seq(Mappings)] /\ mapping_list'[np] = pn
          /\ \A p \in Procs \ {np} : mapping_list'[p] = mapping_list[p]
        BY <1>2, <1>4, <2>2
    <2> QED
        BY <1>2, <1>4, <2>1, <2>3 DEF leaf
<1>6. CASE pc = "forkmap"
    <2>1. caller \in Procs /\ info \in Mappings /\ info.pa # Null
        <3>1. info.pa \in Pages /\ caller \in live
            BY <1>6 DEF IInv, CallOK
        <3>2. info \in [va : VAs, pa : Pages \union {Null}]
            BY <1>2 DEF TypeOK
        <3> QED
            BY <1>2, <3>1, <3>2, Basics DEF Mappings
    <2>2. /\ pl \in Seq(Mappings) /\ Len(mapping_list[caller]) \in Nat
          /\ \A x, m : At(pl, x, m) <=>
                At(mapping_list[caller], x, m) \/ (x = info /\ m = Len(mapping_list[caller]) + 1)
        BY <1>2, <2>1, AtPush
    <2>3. va_to_pa(Mapped, pgtbl[np], info.va) = new_mem
        <3>1. PICK m2 : m2 = Mapped
            OBVIOUS
        <3>2. va_to_pa(m2, pgtbl[np], info.va) = new_mem
            BY <1>1, <1>2, <3>1, LeafPaths
        <3> QED
            BY <3>1, <3>2
    <2>4. mapping_list' = [mapping_list EXCEPT ![caller] = pl, ![np] = pn]
        <3>1. mapping_list' = PushFork
            BY <1>1, <1>6
        <3>2. mapping_list' = [mapping_list EXCEPT ![caller] = Push(info, @),
                                                   ![np] = Push(leaf, @)]
            BY <2>3, <3>1 DEF PushFork, leaf
        <3> QED
            BY <1>2, <3>2
    <2> HIDE DEF pn, pl
    <2>5. /\ mapping_list' \in [Procs -> Seq(Mappings)] /\ mapping_list'[np] = pn
          /\ mapping_list'[caller] = pl
          /\ \A p \in Procs \ {np, caller} : mapping_list'[p] = mapping_list[p]
        BY <1>2, <1>4, <2>1, <2>2, <2>4
    <2> QED
        BY <1>2, <1>4, <2>1, <2>2, <2>5 DEF leaf
<1> QED
    BY <1>1, <1>5, <1>6 DEF Mapping

LEMMA MapLeafKeeps == ASSUME IInv, MapLeaf PROVE IInv'
<1>1. PICK own : Owned(own)
    BY DEF IInv
<1> DEFINE leaf == [va |-> info.va, pa |-> new_mem]
           Ln == Len(mapping_list[np])
           Lc == Len(mapping_list[caller])
<1>2. /\ Mapping /\ level = 0 /\ mem' = Mapped
      /\ pc' = IF pc = "execmap" THEN "exec" ELSE "fork"
      /\ info' = NoMapping /\ new_mem' = Null /\ iter_pagetable' = Null
      /\ UNCHANGED <<freelist, taken, used, live, pgtbl, caller, np, segments, k, old_list, level>>
    BY DEF MapLeaf, call
<1>3. /\ TypeOK /\ ListedIsMapped /\ np \in used \ live /\ used \subseteq Procs
      /\ np \in Procs /\ new_mem \in Pages
      /\ info.va \in VAs /\ np # caller /\ live \subseteq used
      /\ info.pa = Null \/ (info.pa \in Pages /\ caller \in used)
      /\ pc = "execmap" => old_list = <<>>
      /\ pc = "forkmap" => caller \in live
    BY <1>2, WalkAt DEF IInv, TypeOK, CallOK, Calling, Mapping
<1>4. /\ mapping_list' \in [Procs -> Seq(Mappings)]
      /\ \A p \in Procs : \A x, m : At(mapping_list'[p], x, m) <=>
           \/ At(mapping_list[p], x, m)
           \/ p = np /\ x = leaf /\ m = Ln + 1
           \/ p = caller /\ info.pa # Null /\ x = info /\ m = Lc + 1
      /\ Ln \in Nat /\ (info.pa # Null => Lc \in Nat)
    BY <1>1, LeafLists
<1>5. /\ leaf.pa = new_mem /\ leaf.va = info.va /\ leaf \in Mappings
      /\ info = [va |-> info.va, pa |-> info.pa]
    BY <1>3 DEF TypeOK, Mappings
<1>6. /\ own[new_mem] = Use("new", 0, 0)
      /\ info.pa # Null => own[info.pa] = Use("info", 0, 0) /\ info.pa # new_mem
    BY <1>1, <1>3, UseFields DEF Owned, OwnCall
<1> HIDE DEF leaf, Ln, Lc
<1>7. PICK own2 : own2 = [pg \in Pages |-> IF pg = new_mem THEN Use("mapping", np, Ln + 1)
                                           ELSE IF pg = info.pa THEN Use("mapping", caller, Lc + 1)
                                           ELSE own[pg]]
    OBVIOUS
<1>8. /\ own2 \in [Pages -> Uses] /\ own2[new_mem] = Use("mapping", np, Ln + 1)
      /\ info.pa # Null => own2[info.pa] = Use("mapping", caller, Lc + 1)
      /\ \A pg \in Pages \ {new_mem, info.pa} : own2[pg] = own[pg]
    <2>1. /\ Use("mapping", np, Ln + 1) \in Uses
          /\ info.pa # Null => Use("mapping", caller, Lc + 1) \in Uses
        BY <1>3, <1>4, UsesMade
    <2>2. own \in [Pages -> Uses] /\ Null \notin Pages
        BY <1>1, Basics DEF Owned
    <2> QED
        BY <1>3, <1>6, <1>7, <2>1, <2>2
<1>9. \A pg \in Pages : own2[pg] = own[pg] \/ (/\ own[pg].kind \in {"info", "new"}
                                             /\ own2[pg].kind = "mapping")
    <2> SUFFICES ASSUME NEW pg \in Pages
                 PROVE  own2[pg] = own[pg] \/ (/\ own[pg].kind \in {"info", "new"}
                                              /\ own2[pg].kind = "mapping")
        OBVIOUS
    <2>1. CASE pg = new_mem
        BY <1>6, <1>8, <2>1, UseFields
    <2>2. CASE pg = info.pa
        BY <1>6, <1>8, <2>2, UseFields, Basics
    <2>3. CASE pg \notin {new_mem, info.pa}
        BY <1>8, <2>3
    <2> QED
        BY <2>1, <2>2, <2>3
<1>10. /\ OwnFree(own2)' /\ OwnTaken(own2)' /\ OwnRoots(own2)' /\ OwnDirs(own2)'
       /\ OwnTables(own2)' /\ TableRows(own2)'
    <2>1. \A pg \in Pages : \/ own2[pg] = own[pg]
                            \/ /\ own[pg].kind \in {"old", "info", "new", "mapping"}
                               /\ own2[pg].kind \in {"old", "info", "new", "mapping"}
        BY <1>9
    <2> QED
        BY <1>1, <1>8, <2>1, LeafOwned
<1>11. OwnMappings(own2)'
    <2> SUFFICES ASSUME NEW pg \in Pages, NEW p \in Procs, NEW m \in Nat
                 PROVE  own2[pg] = Use("mapping", p, m) <=>
                         p \in used /\ \E va \in VAs : At(mapping_list'[p], [va |-> va, pa |-> pg], m)
        BY <1>2 DEF OwnMappings
    <2> DEFINE Was == p \in used /\ \E va \in VAs : At(mapping_list[p], [va |-> va, pa |-> pg], m)
               Is == p \in used /\ \E va \in VAs : At(mapping_list'[p], [va |-> va, pa |-> pg], m)
    <2>1. own[pg] = Use("mapping", p, m) <=> Was
        BY <1>1 DEF Owned, OwnMappings
    <2>2. Is <=> \/ Was
                 \/ p = np /\ pg = new_mem /\ m = Ln + 1
                 \/ p = caller /\ info.pa # Null /\ pg = info.pa /\ m = Lc + 1
        <3>1. \A va \in VAs : [va |-> va, pa |-> pg] = leaf <=> pg = new_mem /\ va = info.va
            BY <1>5 DEF leaf
        <3>2. \A va \in VAs : [va |-> va, pa |-> pg] = info <=> pg = info.pa /\ va = info.va
            BY <1>5
        <3>3. ASSUME NEW va \in VAs
              PROVE  At(mapping_list'[p], [va |-> va, pa |-> pg], m) <=>
                        \/ At(mapping_list[p], [va |-> va, pa |-> pg], m)
                        \/ p = np /\ pg = new_mem /\ va = info.va /\ m = Ln + 1
                        \/ p = caller /\ info.pa # Null /\ pg = info.pa /\ va = info.va /\ m = Lc + 1
            BY <1>4, <3>1, <3>2
        <3> QED
            BY <1>3, <3>3
    <2> HIDE DEF Was, Is
    <2>3. own2[pg] = Use("mapping", p, m) <=> Is
        <3>1. CASE pg = new_mem
            <4>1. ~ Was /\ pg # info.pa
                BY <1>3, <1>6, <2>1, <3>1, UseFields, Basics
            <4> QED
                BY <1>8, <2>2, <3>1, <4>1, UseFields
        <3>2. CASE pg = info.pa
            <4>1. ~ Was /\ pg # new_mem /\ info.pa # Null
                BY <1>3, <1>6, <2>1, <3>2, UseFields, Basics
            <4> QED
                BY <1>8, <2>2, <3>2, <4>1, UseFields
        <3>3. CASE pg \notin {new_mem, info.pa}
            BY <1>8, <2>1, <2>2, <3>3
        <3> QED
            BY <3>1, <3>2, <3>3
    <2> QED
        BY <2>3 DEF Is
<1>12. OwnOld(own2)'
    <2>1. \A pg \in Pages : \/ own2[pg] = own[pg]
                            \/ own[pg].kind # "old" /\ own2[pg].kind # "old"
        BY <1>9
    <2> QED
        BY <1>1, <1>2, <2>1, OldSame DEF Owned
<1>13. OwnCall(own2)'
    <2> SUFFICES ASSUME NEW pg \in Pages
                 PROVE  own2[pg] # Use("info", 0, 0) /\ own2[pg] # Use("new", 0, 0)
        BY <1>2, Basics DEF OwnCall, NoMapping
    <2>1. /\ own[pg] = Use("info", 0, 0) <=> info.pa = pg
          /\ own[pg] = Use("new", 0, 0) <=> new_mem = pg
        BY <1>1 DEF Owned, OwnCall
    <2>2. CASE pg \in {new_mem, info.pa}
        BY <1>8, <2>2, UseFields, Basics
    <2>3. CASE pg \notin {new_mem, info.pa}
        BY <1>8, <2>1, <2>3
    <2> QED
        BY <2>2, <2>3
<1>14. Owned(own2)'
    BY <1>8, <1>10, <1>11, <1>12, <1>13 DEF Owned
<1>15. /\ mem' \in [Pages -> [Offsets -> Pages \union Words \union {Null, Junk, Foreign}]]
       /\ \A p \in used, va \in VAs :
            va_to_pa(mem, pgtbl[p], va)' = IF p = np /\ va = info.va THEN new_mem
                                           ELSE va_to_pa(mem, pgtbl[p], va)
    <2>1. PICK m2 : m2 = Mapped
        OBVIOUS
    <2>2. /\ m2 \in [Pages -> [Offsets -> Pages \union Words \union {Null, Junk, Foreign}]]
          /\ \A p \in used, va \in VAs :
                va_to_pa(m2, pgtbl[p], va) = IF p = np /\ va = info.va THEN new_mem
                                             ELSE va_to_pa(mem, pgtbl[p], va)
        BY <1>1, <1>2, <2>1, LeafPaths
    <2>3. mem' = m2 /\ pgtbl' = pgtbl
        BY <1>2, <2>1
    <2> QED
        BY <2>2, <2>3
<1>16. \A p \in used : \A x : x \in ListOf(p)' <=> x \in ListOf(p) \/ (p = np /\ x = leaf)
    <2> SUFFICES ASSUME NEW p \in used, NEW x
                 PROVE  x \in ListOf(p)' <=> x \in ListOf(p) \/ (p = np /\ x = leaf)
        OBVIOUS
    <2>1. p \in Procs /\ mapping_list'[p] \in Seq(Mappings) /\ old_list' \in Seq(Mappings)
        BY <1>2, <1>3, <1>4 DEF TypeOK
    <2>2. x \in ListOf(p) <=>
                \/ \E m \in Nat : At(mapping_list[p], x, m)
                \/ p = caller /\ \E m \in Nat : At(old_list, x, m)
                \/ p = caller /\ info.pa # Null /\ x = info
        BY <1>3, <2>1, ListOfAt
    <2>3. x \in ListOf(p)' <=>
                \/ \E m \in Nat : At(mapping_list'[p], x, m)
                \/ p = caller /\ \E m \in Nat : At(old_list, x, m)
        <3>1. info'.pa = Null /\ caller' = caller /\ old_list' = old_list
            BY <1>2 DEF NoMapping
        <3> QED
            BY <2>1, <3>1, ListOfAtNext
    <2>4. (\E m \in Nat : At(mapping_list'[p], x, m)) <=>
                \/ \E m \in Nat : At(mapping_list[p], x, m)
                \/ p = np /\ x = leaf
                \/ p = caller /\ info.pa # Null /\ x = info
        <3>1. Ln + 1 \in Nat /\ (info.pa # Null => Lc + 1 \in Nat)
            BY <1>4
        <3> QED
            BY <1>4, <2>1, <3>1
    <2> QED
        BY <2>2, <2>3, <2>4
<1>17. ListedIsMapped'
    <2>1. ASSUME NEW p \in used, NEW va \in VAs
          PROVE  LET pa == va_to_pa(mem, pgtbl[p], va)'
                     listed == {x \in ListOf(p)' : x.va = va}
                 IN IF pa = Null THEN listed = {} ELSE [va |-> va, pa |-> pa] \in listed
        <3>1. CASE p = np /\ va = info.va
            <4>1. va_to_pa(mem, pgtbl[p], va)' = new_mem /\ new_mem # Null
                BY <1>3, <1>15, <3>1, Basics
            <4>2. leaf \in ListOf(p)' /\ leaf = [va |-> va, pa |-> new_mem] /\ leaf.va = va
                BY <1>5, <1>16, <3>1 DEF leaf
            <4> QED
                BY <4>1, <4>2
        <3>2. CASE ~ (p = np /\ va = info.va)
            <4>1. va_to_pa(mem, pgtbl[p], va)' = va_to_pa(mem, pgtbl[p], va)
                BY <1>15, <3>2
            <4>2. {x \in ListOf(p)' : x.va = va} = {x \in ListOf(p) : x.va = va}
                BY <1>5, <1>16, <3>2
            <4>3. LET pa == va_to_pa(mem, pgtbl[p], va)
                      listed == {x \in ListOf(p) : x.va = va}
                  IN IF pa = Null THEN listed = {} ELSE [va |-> va, pa |-> pa] \in listed
                BY <1>3 DEF ListedIsMapped
            <4> QED
                BY <4>1, <4>2, <4>3
        <3> QED
            BY <3>1, <3>2
    <2> QED
        BY <1>2, <2>1 DEF ListedIsMapped
<1>18. TypeOK'
    <2>1. info' \in [va : VAs, pa : Pages \union {Null}] /\ pc' \in {"exec", "fork"}
        BY <1>2, IndexAssumption DEF NoMapping
    <2> QED
        BY <1>2, <1>3, <1>4, <1>15, <2>1 DEF TypeOK
<1>19. CallOK'
    <2>1. info'.pa = Null
        BY <1>2 DEF NoMapping
    <2> QED
        BY <1>2, <1>3, <2>1 DEF CallOK, Calling, Mapping
<1> QED
    BY <1>14, <1>17, <1>18, <1>19 DEF IInv

-----------------------------------------------------------------------------
(* proc_alloc()                                                            *)

(* The two pages that proc_alloc() takes.                                  *)
LEMMA TwoFree ==
    ASSUME TypeOK, NEW own, Owned(own), Len(freelist) >= 2
    PROVE  /\ freelist[1] \in Pages /\ freelist[2] \in Pages /\ freelist[1] # freelist[2]
           /\ own[freelist[1]].kind = "free" /\ own[freelist[2]].kind = "free"
           /\ Tail(Tail(freelist)) \in Seq(Pages)
           /\ \A pg \in Pages, m \in Nat :
                At(Tail(Tail(freelist)), pg, m) <=>
                    pg \notin {freelist[1], freelist[2]} /\ own[pg] = Use("free", m, 0)
<1>1. freelist \in Seq(Pages) /\ Len(<<>>) = 0
    BY EmptySeq DEF TypeOK
<1>2. freelist # <<>>
    BY <1>1
<1> DEFINE t == Tail(freelist)
<1>3. /\ t \in Seq(Pages) /\ Len(freelist) \in Nat \ {0} /\ Len(t) = Len(freelist) - 1
      /\ freelist[1] = Page /\ freelist[2] = t[1]
    <2>1. Head(freelist) = freelist[1] /\ \A i \in 1..Len(t) : t[i] = freelist[i + 1]
        BY <1>1, <1>2, HeadTailProperties
    <2>2. t \in Seq(Pages) /\ Len(freelist) \in Nat \ {0} /\ Len(t) = Len(freelist) - 1
        BY <1>1, <1>2, AtTail
    <2>3. 1 \in 1..Len(t) /\ 1 + 1 = 2
        BY <2>2
    <2> QED
        BY <2>1, <2>2, <2>3 DEF Page
<1>4. /\ Page \in Pages /\ own[Page].kind = "free"
      /\ \A pg \in Pages, m \in Nat : At(t, pg, m) <=> pg # Page /\ own[pg] = Use("free", m, 0)
    BY <1>2, FreePage
<1>5. t # <<>>
    <2>1. Len(t) # 0
        BY <1>3
    <2> QED
        BY <1>1, <2>1
<1> HIDE DEF t
<1>6. /\ Head(t) \in Pages /\ Tail(t) \in Seq(Pages) /\ Len(t) \in Nat
      /\ At(t, Head(t), Len(t))
      /\ \A x, m : At(Tail(t), x, m) <=> At(t, x, m) /\ m # Len(t)
    BY <1>3, <1>5, AtTail
<1>7. Head(t) = t[1]
    BY <1>3, <1>5
<1>8. Head(t) # Page /\ own[Head(t)] = Use("free", Len(t), 0)
    BY <1>4, <1>6
<1>9. ASSUME NEW pg \in Pages, NEW m \in Nat
      PROVE  At(Tail(t), pg, m) <=> pg \notin {Page, Head(t)} /\ own[pg] = Use("free", m, 0)
    <2>1. At(t, pg, m) /\ m = Len(t) => pg = Head(t)
        BY <1>3, <1>6, AtOne
    <2>2. pg = Head(t) /\ own[pg] = Use("free", m, 0) => m = Len(t)
        BY <1>8, UseFields
    <2> QED
        BY <1>4, <1>6, <2>1, <2>2
<1> QED
    BY <1>3, <1>4, <1>6, <1>7, <1>8, <1>9, UseFields DEF t

SlotUses(own, p) ==
    [own EXCEPT ![freelist[1]] = Use("taken", 0, 0), ![freelist[2]] = Use("root", p, 0)]
LEMMA SlotOwned ==
    ASSUME TypeOK, NEW own, Owned(own), NEW p \in Procs, proc_alloc(p), NEW own2,
           own2 = SlotUses(own, p)
    PROVE  /\ own2 \in [Pages -> Uses]
           /\ \A pg \in Pages : \/ own2[pg] = own[pg]
                                \/ own[pg].kind = "free" /\ own2[pg].kind \in {"taken", "root"}
           /\ OwnFree(own2)' /\ OwnTaken(own2)' /\ OwnRoots(own2)' /\ OwnDirs(own2)'
           /\ OwnTables(own2)' /\ TableRows(own2)'
<1> DEFINE a == freelist[1]
           b == freelist[2]
<1>1. /\ a \in Pages /\ b \in Pages /\ a # b /\ own[a].kind = "free" /\ own[b].kind = "free"
      /\ freelist' \in Seq(Pages)
      /\ \A pg \in Pages, m \in Nat :
            At(freelist', pg, m) <=> pg \notin {a, b} /\ own[pg] = Use("free", m, 0)
    BY TwoFree DEF proc_alloc
<1>2. /\ taken' = taken \union {a} /\ pgtbl' = [pgtbl EXCEPT ![p] = b]
      /\ mem' = [mem EXCEPT ![b] = ZeroRow] /\ used' = used \union {p} /\ p \notin used
      /\ own2 = [own EXCEPT ![a] = Use("taken", 0, 0), ![b] = Use("root", p, 0)]
    BY DEF proc_alloc, Marked, FirstUnused, SlotUses
<1> HIDE DEF a, b
<1>3. /\ own2 \in [Pages -> Uses] /\ own2[a] = Use("taken", 0, 0) /\ own2[b] = Use("root", p, 0)
      /\ \A pg \in Pages \ {a, b} : own2[pg] = own[pg]
    BY <1>1, <1>2, UsesMade DEF Owned
<1>4. /\ mem'[b] = ZeroRow /\ \A pg \in Pages \ {b} : mem'[pg] = mem[pg]
      /\ pgtbl'[p] = b /\ \A q \in Procs \ {p} : pgtbl'[q] = pgtbl[q]
    BY <1>1, <1>2 DEF TypeOK
<1>5. \A pg \in Pages : \/ own2[pg] = own[pg]
                        \/ own[pg].kind = "free" /\ own2[pg].kind \in {"taken", "root"}
    BY <1>1, <1>3, UseFields
<1>6. OwnFree(own2)'
    BY <1>1, <1>3, UseFields DEF OwnFree
<1>7. OwnTaken(own2)'
    BY <1>1, <1>2, <1>3, UseFields DEF Owned, OwnTaken
<1>8. OwnRoots(own2)'
    <2> SUFFICES ASSUME NEW pg \in Pages, NEW q \in Procs
                 PROVE  own2[pg] = Use("root", q, 0) <=> q \in used' /\ pgtbl'[q] = pg
        BY DEF OwnRoots
    <2>1. own[pg] = Use("root", q, 0) <=> q \in used /\ pgtbl[q] = pg
        BY DEF Owned, OwnRoots
    <2>2. CASE pg = b
        <3>1. own2[pg] = Use("root", q, 0) <=> q = p
            BY <1>3, <2>2, UseFields
        <3>2. ~ (q \in used /\ pgtbl[q] = pg)
            BY <1>1, <2>1, <2>2, UseFields
        <3> QED
            BY <1>2, <1>4, <2>2, <3>1, <3>2
    <2>3. CASE pg # b
        <3>1. own2[pg] = Use("root", q, 0) <=> own[pg] = Use("root", q, 0)
            BY <1>1, <1>3, <2>3, UseFields
        <3> QED
            BY <1>2, <1>4, <2>1, <2>3, <3>1
    <2> QED
        BY <2>2, <2>3
<1>9. OwnDirs(own2)'
    <2> SUFFICES ASSUME NEW pg \in Pages, NEW t \in Pages, NEW i \in RootIndex
                 PROVE  own2[pg] = Use("directory", t, i) <=> own2[t].kind = "root" /\ mem'[t][i] = pg
        BY DEF OwnDirs
    <2>1. own[pg] = Use("directory", t, i) <=> own[t].kind = "root" /\ mem[t][i] = pg
        BY DEF Owned, OwnDirs
    <2>2. own2[pg] = Use("directory", t, i) <=> own[pg] = Use("directory", t, i)
        BY <1>1, <1>3, UseFields
    <2>3. CASE t = b
        <3>1. mem'[t][i] # pg
            BY <1>4, <2>3, Basics, IndexAssumption DEF ZeroRow, Null
        <3> QED
            BY <1>1, <2>1, <2>2, <2>3, <3>1
    <2>4. CASE t # b
        <3>1. mem'[t] = mem[t] /\ (own2[t].kind = "root" <=> own[t].kind = "root")
            BY <1>1, <1>3, <1>4, <2>4, UseFields
        <3> QED
            BY <2>1, <2>2, <3>1
    <2> QED
        BY <2>3, <2>4
<1>10. OwnTables(own2)'
    <2> SUFFICES ASSUME NEW pg \in Pages, NEW t \in Pages, NEW i \in Offsets
                 PROVE  own2[pg] = Use("table", t, i) <=> own2[t].kind = "directory" /\ mem'[t][i] = pg
        BY DEF OwnTables
    <2>1. own[pg] = Use("table", t, i) <=> own[t].kind = "directory" /\ mem[t][i] = pg
        BY DEF Owned, OwnTables
    <2>2. own2[pg] = Use("table", t, i) <=> own[pg] = Use("table", t, i)
        BY <1>1, <1>3, UseFields
    <2>3. CASE t = b
        BY <1>1, <1>3, <2>1, <2>2, <2>3, UseFields
    <2>4. CASE t # b
        <3>1. mem'[t] = mem[t] /\ (own2[t].kind = "directory" <=> own[t].kind = "directory")
            BY <1>1, <1>3, <1>4, <2>4, UseFields
        <3> QED
            BY <2>1, <2>2, <3>1
    <2> QED
        BY <2>3, <2>4
<1>11. TableRows(own2)'
    <2>1. \A q \in used' : pgtbl'[q] \in Pages
        BY <1>1, <1>2, <1>4 DEF Owned, TableRows, TypeOK
    <2>2. ASSUME NEW t \in Pages, IsTable(own2, t), NEW i \in TableIx(own2, t)
          PROVE  mem'[t][i] \in Pages \union {Null}
        <3>1. CASE t = b
            BY <1>4, <2>2, <3>1, IndexAssumption DEF ZeroRow, Null, TableIx
        <3>2. CASE t # b
            <4>1. own2[t] = own[t]
                BY <1>3, <2>2, <3>2, UseFields DEF IsTable
            <4> QED
                BY <1>4, <2>2, <3>2, <4>1 DEF Owned, TableRows, TableIx, IsTable
        <3> QED
            BY <3>1, <3>2
    <2> QED
        BY <2>1, <2>2 DEF TableRows, TableIx, IsTable
<1> QED
    BY <1>3, <1>5, <1>6, <1>7, <1>8, <1>9, <1>10, <1>11

(* The new slot maps nothing, and the others stay as they are.             *)
LEMMA SlotPaths ==
    ASSUME TypeOK, NEW own, Owned(own), NEW p \in Procs, proc_alloc(p)
    PROVE  /\ p \notin used /\ used' = used \union {p} /\ taken' \subseteq Pages
           /\ freelist' \in Seq(Pages)
           /\ mem' \in [Pages -> [Offsets -> Pages \union Words \union {Null, Junk, Foreign}]]
           /\ pgtbl' \in [Procs -> Pages \union {Null}]
           /\ \A q \in used, va \in VAs :
                va_to_pa(mem, pgtbl[q], va)' = va_to_pa(mem, pgtbl[q], va)
           /\ \A va \in VAs : va_to_pa(mem, pgtbl[p], va)' = Null
<1> DEFINE b == freelist[2]
<1>1. b \in Pages /\ own[b].kind = "free" /\ freelist[1] \in Pages /\ freelist' \in Seq(Pages)
    BY TwoFree DEF proc_alloc
<1>2. /\ taken' = taken \union {freelist[1]} /\ pgtbl' = [pgtbl EXCEPT ![p] = b]
      /\ mem' = [mem EXCEPT ![b] = ZeroRow] /\ used' = used \union {p} /\ p \notin used
    BY DEF proc_alloc, Marked, FirstUnused
<1> HIDE DEF b
<1>3. /\ mem'[b] = ZeroRow /\ \A pg \in Pages \ {b} : mem'[pg] = mem[pg]
      /\ pgtbl'[p] = b /\ \A q \in used : pgtbl'[q] = pgtbl[q]
    BY <1>1, <1>2 DEF TypeOK
<1>4. /\ mem' \in [Pages -> [Offsets -> Pages \union Words \union {Null, Junk, Foreign}]]
      /\ pgtbl' \in [Procs -> Pages \union {Null}] /\ taken' \subseteq Pages
    BY <1>1, <1>2 DEF TypeOK, ZeroRow, Null
<1>5. ASSUME NEW q \in used, NEW va \in VAs
      PROVE  va_to_pa(mem, pgtbl[q], va)' = va_to_pa(mem, pgtbl[q], va)
    <2>1. PICK m2 : m2 = mem'
        OBVIOUS
    <2>2. KeepsTables(own, m2)
        BY <1>1, <1>3, <2>1 DEF KeepsTables, IsTable
    <2>3. va_to_pa(m2, pgtbl[q], va) = va_to_pa(mem, pgtbl[q], va)
        BY <2>2, PathStable
    <2> QED
        BY <1>3, <2>1, <2>3
<1>6. ASSUME NEW va \in VAs PROVE va_to_pa(mem, pgtbl[p], va)' = Null
    <2>1. Entry(mem', b, PX(2, va)) = Null
        BY <1>1, <1>3, Indices, Basics DEF Entry, ZeroRow, Null
    <2>2. \A i : Entry(mem', Null, i) = Null
        BY DEF Entry
    <2> QED
        BY <1>3, <2>1, <2>2 DEF va_to_pa
<1> QED
    BY <1>1, <1>2, <1>4, <1>5, <1>6

LEMMA SlotMapped ==
    ASSUME ListedIsMapped, NEW p, used' = used \union {p},
           \A q \in used : ListOf(q)' = ListOf(q), ListOf(p)' = {},
           \A q \in used, va \in VAs :
                va_to_pa(mem, pgtbl[q], va)' = va_to_pa(mem, pgtbl[q], va),
           \A va \in VAs : va_to_pa(mem, pgtbl[p], va)' = Null
    PROVE  ListedIsMapped'
<1>1. ASSUME NEW q \in used, NEW va \in VAs
      PROVE  LET pa == va_to_pa(mem, pgtbl[q], va)'
                 listed == {x \in ListOf(q)' : x.va = va}
             IN IF pa = Null THEN listed = {} ELSE [va |-> va, pa |-> pa] \in listed
    BY DEF ListedIsMapped
<1>2. ASSUME NEW va \in VAs
      PROVE  LET pa == va_to_pa(mem, pgtbl[p], va)'
                 listed == {x \in ListOf(p)' : x.va = va}
             IN IF pa = Null THEN listed = {} ELSE [va |-> va, pa |-> pa] \in listed
    OBVIOUS
<1> QED
    BY <1>1, <1>2 DEF ListedIsMapped

(* Between calls the list of a process is its mapping list.                *)
LEMMA IdleList ==
    ASSUME TypeOK, NEW p \in Procs, old_list = <<>>, info.pa = Null
    PROVE  \A x : x \in ListOf(p) <=> \E m \in Nat : At(mapping_list[p], x, m)
<1>1. \A x : x \in ListOf(p) <=>
                \/ \E m \in Nat : At(mapping_list[p], x, m)
                \/ p = caller /\ \E m \in Nat : At(old_list, x, m)
                \/ p = caller /\ info.pa # Null /\ x = info
    BY ListOfAt
<1> QED
    BY <1>1, AtEmpty

LEMMA ExecStartKeeps == ASSUME IInv, NEW c \in Procs \union {Kproc}, ExecStart(c) PROVE IInv'
<1>1. PICK own : Owned(own)
    BY DEF IInv
<1>2. PICK p \in Procs : \E image \in Images :
        /\ proc_alloc(p) /\ np' = p /\ caller' = c
        /\ mapping_list' = [mapping_list EXCEPT ![p] = <<>>]
        /\ segments' = image /\ k' = 1
    BY DEF ExecStart
<1>3. /\ pc = "idle" /\ MayExec(c) /\ pc' = "exec"
      /\ UNCHANGED <<live, old_list, info, new_mem, iter_pagetable, level>>
    BY DEF ExecStart, single
<1>4. /\ TypeOK /\ ListedIsMapped /\ old_list = <<>> /\ info.pa = Null /\ new_mem = Null
      /\ used \subseteq Procs /\ live \subseteq used /\ mapping_list \in [Procs -> Seq(Mappings)]
    BY <1>3 DEF IInv, CallOK, TypeOK
<1>5. PICK own2 : own2 = SlotUses(own, p)
    OBVIOUS
<1>6. /\ own2 \in [Pages -> Uses]
      /\ \A pg \in Pages : \/ own2[pg] = own[pg]
                           \/ own[pg].kind = "free" /\ own2[pg].kind \in {"taken", "root"}
      /\ OwnFree(own2)' /\ OwnTaken(own2)' /\ OwnRoots(own2)' /\ OwnDirs(own2)'
      /\ OwnTables(own2)' /\ TableRows(own2)'
    <2>1. proc_alloc(p)
        BY <1>2
    <2> QED
        BY <1>1, <1>4, <1>5, <2>1, SlotOwned
<1>7. /\ p \notin used /\ used' = used \union {p} /\ taken' \subseteq Pages
      /\ freelist' \in Seq(Pages)
      /\ mem' \in [Pages -> [Offsets -> Pages \union Words \union {Null, Junk, Foreign}]]
      /\ pgtbl' \in [Procs -> Pages \union {Null}]
      /\ \A q \in used, va \in VAs :
            va_to_pa(mem, pgtbl[q], va)' = va_to_pa(mem, pgtbl[q], va)
      /\ \A va \in VAs : va_to_pa(mem, pgtbl[p], va)' = Null
    BY <1>1, <1>2, <1>4, SlotPaths
<1>8. /\ mapping_list'[p] = <<>> /\ \A q \in Procs \ {p} : mapping_list'[q] = mapping_list[q]
      /\ mapping_list' \in [Procs -> Seq(Mappings)]
    BY <1>2, <1>4
<1>9. OwnMappings(own2)'
    <2> SUFFICES ASSUME NEW pg \in Pages, NEW q \in Procs, NEW m \in Nat
                 PROVE  own2[pg] = Use("mapping", q, m) <=>
                    q \in used' /\ \E va \in VAs : At(mapping_list'[q], [va |-> va, pa |-> pg], m)
        BY DEF OwnMappings
    <2>1. own[pg] = Use("mapping", q, m) <=>
            q \in used /\ \E va \in VAs : At(mapping_list[q], [va |-> va, pa |-> pg], m)
        BY <1>1 DEF Owned, OwnMappings
    <2>2. own2[pg] = Use("mapping", q, m) <=> own[pg] = Use("mapping", q, m)
        BY <1>6, UseFields
    <2>3. CASE q = p
        <3>1. q \notin used /\ \A x : ~ At(mapping_list'[q], x, m)
            BY <1>7, <1>8, <2>3, AtEmpty
        <3> QED
            BY <2>1, <2>2, <3>1
    <2>4. CASE q # p
        <3>1. mapping_list'[q] = mapping_list[q] /\ (q \in used' <=> q \in used)
            BY <1>7, <1>8, <2>4
        <3> QED
            BY <2>1, <2>2, <3>1
    <2> QED
        BY <2>3, <2>4
<1>10. OwnOld(own2)'
    <2>1. \A pg \in Pages : \/ own2[pg] = own[pg]
                            \/ own[pg].kind # "old" /\ own2[pg].kind # "old"
        BY <1>6
    <2> QED
        BY <1>1, <1>3, <2>1, OldSame DEF Owned
<1>11. OwnCall(own2)'
    <2>1. \A pg \in Pages : \/ own2[pg] = own[pg]
                            \/ own[pg].kind \notin {"info", "new"} /\ own2[pg].kind \notin {"info", "new"}
        BY <1>6
    <2> QED
        BY <1>1, <1>3, <2>1, CallSame DEF Owned
<1>12. Owned(own2)'
    BY <1>6, <1>9, <1>10, <1>11 DEF Owned
<1>13. ASSUME NEW q \in used' PROVE \A x : x \in ListOf(q)' <=> \E m \in Nat : At(mapping_list'[q], x, m)
    <2>1. mapping_list'[q] \in Seq(Mappings) /\ old_list' \in Seq(Mappings)
          /\ old_list' = <<>> /\ info'.pa = Null
        BY <1>3, <1>4, <1>7, <1>8 DEF TypeOK
    <2>2. \A x : x \in ListOf(q)' <=>
                \/ \E m \in Nat : At(mapping_list'[q], x, m)
                \/ q = caller' /\ \E m \in Nat : At(old_list', x, m)
                \/ q = caller' /\ info'.pa # Null /\ x = info'
        BY <2>1, ListOfAtNext
    <2> QED
        BY <2>1, <2>2, AtEmpty
<1>14. ListedIsMapped'
    <2>1. ASSUME NEW q \in used PROVE ListOf(q)' = ListOf(q)
        <3>1. q \in used' /\ q \in Procs /\ mapping_list'[q] = mapping_list[q]
            BY <1>4, <1>7, <1>8
        <3> QED
            BY <1>4, <1>13, <3>1, IdleList
    <2>2. ListOf(p)' = {}
        BY <1>7, <1>8, <1>13, AtEmpty
    <2> QED
        BY <1>4, <1>7, <2>1, <2>2, SlotMapped
<1>15. TypeOK'
    <2>1. segments' \in Seq(Segments) /\ k' = 1 /\ np' = p /\ caller' = c
        BY <1>2, ImagesAssumption
    <2> QED
        BY <1>3, <1>4, <1>7, <1>8, <2>1 DEF TypeOK
<1>16. CallOK'
    <2>1. c # p
        BY <1>3, <1>4, <1>7, Basics DEF MayExec
    <2> QED
        BY <1>2, <1>3, <1>4, <1>7, <2>1 DEF CallOK, Calling, Mapping
<1> QED
    BY <1>12, <1>14, <1>15, <1>16 DEF IInv

(* fork() moves the mappings of the caller to the list still to be copied. *)
LEMMA ForkStartKeeps == ASSUME IInv, NEW c \in Procs, ForkStart(c) PROVE IInv'
<1>1. PICK own : Owned(own)
    BY DEF IInv
<1>2. PICK p \in Procs : /\ proc_alloc(p) /\ np' = p
                         /\ mapping_list' = [mapping_list EXCEPT ![c] = <<>>, ![p] = <<>>]
    BY DEF ForkStart
<1>3. /\ pc = "idle" /\ c \in live /\ caller' = c /\ old_list' = mapping_list[c] /\ pc' = "fork"
      /\ UNCHANGED <<live, segments, k, info, new_mem, iter_pagetable, level>>
    BY DEF ForkStart, single
<1>4. /\ TypeOK /\ ListedIsMapped /\ old_list = <<>> /\ info.pa = Null /\ new_mem = Null
      /\ used \subseteq Procs /\ live \subseteq used /\ c \in used
      /\ mapping_list \in [Procs -> Seq(Mappings)]
    BY <1>3 DEF IInv, CallOK, TypeOK
<1>5. PICK own2 : own2 = SlotUses(own, p)
    OBVIOUS
<1>6. /\ own2 \in [Pages -> Uses]
      /\ \A pg \in Pages : \/ own2[pg] = own[pg]
                           \/ own[pg].kind = "free" /\ own2[pg].kind \in {"taken", "root"}
      /\ OwnFree(own2)' /\ OwnTaken(own2)' /\ OwnRoots(own2)' /\ OwnDirs(own2)'
      /\ OwnTables(own2)' /\ TableRows(own2)'
    <2>1. proc_alloc(p)
        BY <1>2
    <2> QED
        BY <1>1, <1>4, <1>5, <2>1, SlotOwned
<1>7. /\ p \notin used /\ used' = used \union {p} /\ taken' \subseteq Pages
      /\ freelist' \in Seq(Pages)
      /\ mem' \in [Pages -> [Offsets -> Pages \union Words \union {Null, Junk, Foreign}]]
      /\ pgtbl' \in [Procs -> Pages \union {Null}]
      /\ \A q \in used, va \in VAs :
            va_to_pa(mem, pgtbl[q], va)' = va_to_pa(mem, pgtbl[q], va)
      /\ \A va \in VAs : va_to_pa(mem, pgtbl[p], va)' = Null
    BY <1>1, <1>2, <1>4, SlotPaths
<1>8. /\ mapping_list'[p] = <<>> /\ mapping_list'[c] = <<>> /\ p # c
      /\ \A q \in Procs \ {p, c} : mapping_list'[q] = mapping_list[q]
      /\ mapping_list' \in [Procs -> Seq(Mappings)]
    <2>1. p # c /\ <<>> \in Seq(Mappings)
        BY <1>4, <1>7
    <2>2. PICK e : e = <<>>
        OBVIOUS
    <2>3. mapping_list' = [mapping_list EXCEPT ![c] = e, ![p] = e] /\ e \in Seq(Mappings)
        BY <1>2, <2>1, <2>2
    <2>4. /\ mapping_list'[p] = e /\ mapping_list'[c] = e
          /\ \A q \in Procs \ {p, c} : mapping_list'[q] = mapping_list[q]
          /\ mapping_list' \in [Procs -> Seq(Mappings)]
        BY <1>4, <2>1, <2>3
    <2> QED
        BY <2>1, <2>2, <2>4
<1> DEFINE Moved(pg) == own[pg].kind = "mapping" /\ own[pg].up = c
<1>9. PICK own3 : own3 = [pg \in Pages |-> IF Moved(pg) THEN Use("old", own[pg].ix, 0) ELSE own2[pg]]
    OBVIOUS
<1>10. ASSUME NEW pg \in Pages
       PROVE  /\ own3[pg] \in Uses
              /\ Moved(pg) => /\ own[pg].ix \in Nat /\ own[pg] = Use("mapping", c, own[pg].ix)
                              /\ own3[pg] = Use("old", own[pg].ix, 0)
              /\ ~ Moved(pg) => own3[pg] = own2[pg]
    <2>1. own[pg] \in Uses /\ own2[pg] \in Uses
        BY <1>1, <1>6 DEF Owned
    <2>2. Moved(pg) => own[pg].ix \in Nat /\ own[pg] = Use("mapping", c, own[pg].ix)
        BY <2>1, UsesForm
    <2> QED
        BY <1>9, <2>1, <2>2, UsesMade
<1>11. own3 \in [Pages -> Uses]
    BY <1>9, <1>10
<1>12. /\ OwnFree(own3)' /\ OwnTaken(own3)' /\ OwnRoots(own3)' /\ OwnDirs(own3)'
       /\ OwnTables(own3)' /\ TableRows(own3)'
    <2>1. \A pg \in Pages : \/ own3[pg] = own2[pg]
                            \/ /\ own2[pg].kind \in {"old", "info", "new", "mapping"}
                               /\ own3[pg].kind \in {"old", "info", "new", "mapping"}
        BY <1>6, <1>10, UseFields
    <2> QED
        BY <1>6, <1>11, <2>1, HandsNext
<1>13. OwnMappings(own3)'
    <2> SUFFICES ASSUME NEW pg \in Pages, NEW q \in Procs, NEW m \in Nat
                 PROVE  own3[pg] = Use("mapping", q, m) <=>
                    q \in used' /\ \E va \in VAs : At(mapping_list'[q], [va |-> va, pa |-> pg], m)
        BY DEF OwnMappings
    <2>1. own[pg] = Use("mapping", q, m) <=>
            q \in used /\ \E va \in VAs : At(mapping_list[q], [va |-> va, pa |-> pg], m)
        BY <1>1 DEF Owned, OwnMappings
    <2>2. own3[pg] = Use("mapping", q, m) <=> own[pg] = Use("mapping", q, m) /\ q # c
        BY <1>6, <1>10, UseFields
    <2>3. CASE q \in {p, c}
        <3>1. ~ (own[pg] = Use("mapping", q, m) /\ q # c)
            BY <1>7, <2>1, <2>3
        <3>2. \A x : ~ At(mapping_list'[q], x, m)
            BY <1>8, <2>3, AtEmpty
        <3> QED
            BY <2>2, <3>1, <3>2
    <2>4. CASE q \notin {p, c}
        <3>1. mapping_list'[q] = mapping_list[q] /\ (q \in used' <=> q \in used) /\ q # c
            BY <1>7, <1>8, <2>4
        <3> QED
            BY <2>1, <2>2, <3>1
    <2> QED
        BY <2>3, <2>4
<1>14. OwnOld(own3)'
    <2> SUFFICES ASSUME NEW pg \in Pages, NEW m \in Nat
                 PROVE  own3[pg] = Use("old", m, 0) <=>
                            \E va \in VAs : At(mapping_list[c], [va |-> va, pa |-> pg], m)
        BY <1>3 DEF OwnOld
    <2>1. own[pg] = Use("mapping", c, m) <=> \E va \in VAs : At(mapping_list[c], [va |-> va, pa |-> pg], m)
        BY <1>1, <1>4 DEF Owned, OwnMappings
    <2>2. own[pg] # Use("old", m, 0)
        BY <1>1, <1>4, AtEmpty DEF Owned, OwnOld
    <2>3. own3[pg] = Use("old", m, 0) <=> own[pg] = Use("mapping", c, m)
        <3>1. CASE Moved(pg)
            BY <1>10, <3>1, UseFields
        <3>2. CASE ~ Moved(pg)
            BY <1>6, <1>10, <2>2, <3>2, UseFields
        <3> QED
            BY <3>1, <3>2
    <2> QED
        BY <2>1, <2>3
<1>15. OwnCall(own3)'
    <2>1. \A pg \in Pages : \/ own3[pg] = own[pg]
                            \/ own[pg].kind \notin {"info", "new"} /\ own3[pg].kind \notin {"info", "new"}
        BY <1>6, <1>10, UseFields
    <2> QED
        BY <1>1, <1>3, <2>1, CallSame DEF Owned
<1>16. Owned(own3)'
    BY <1>11, <1>12, <1>13, <1>14, <1>15 DEF Owned
<1>17. ASSUME NEW q \in used'
       PROVE  \A x : x \in ListOf(q)' <=>
                \/ \E m \in Nat : At(mapping_list'[q], x, m)
                \/ q = c /\ \E m \in Nat : At(mapping_list[c], x, m)
    <2>1. mapping_list'[q] \in Seq(Mappings) /\ old_list' \in Seq(Mappings) /\ info'.pa = Null
        BY <1>3, <1>4, <1>7, <1>8
    <2>2. \A x : x \in ListOf(q)' <=>
                \/ \E m \in Nat : At(mapping_list'[q], x, m)
                \/ q = caller' /\ \E m \in Nat : At(old_list', x, m)
                \/ q = caller' /\ info'.pa # Null /\ x = info'
        BY <2>1, ListOfAtNext
    <2> QED
        BY <1>3, <2>1, <2>2
<1>18. ListedIsMapped'
    <2>1. ASSUME NEW q \in used PROVE ListOf(q)' = ListOf(q)
        <3>1. q \in used' /\ q \in Procs
            BY <1>4, <1>7
        <3>2. \A x : x \in ListOf(q) <=> \E m \in Nat : At(mapping_list[q], x, m)
            BY <1>4, <3>1, IdleList
        <3>3. CASE q = c
            <4>1. \A x : x \in ListOf(q)' <=>
                    \/ \E m \in Nat : At(mapping_list'[q], x, m)
                    \/ q = c /\ \E m \in Nat : At(mapping_list[c], x, m)
                BY <1>17, <3>1
            <4>2. \A x, m : ~ At(mapping_list'[q], x, m)
                BY <1>8, <3>3, AtEmpty
            <4>3. \A x : x \in ListOf(q)' <=> x \in ListOf(q)
                BY <3>2, <3>3, <4>1, <4>2
            <4> QED
                BY <4>3
        <3>4. CASE q # c
            <4>1. mapping_list'[q] = mapping_list[q]
                BY <1>7, <1>8, <3>1, <3>4
            <4> QED
                BY <1>17, <3>1, <3>2, <3>4, <4>1
        <3> QED
            BY <3>3, <3>4
    <2>2. ListOf(p)' = {}
        BY <1>7, <1>8, <1>17, AtEmpty
    <2> QED
        BY <1>4, <1>7, <2>1, <2>2, SlotMapped
<1>19. TypeOK'
    <2>1. np' = p /\ old_list' \in Seq(Mappings)
        BY <1>2, <1>3, <1>4
    <2> QED
        BY <1>3, <1>4, <1>7, <1>8, <2>1 DEF TypeOK
<1>20. CallOK'
    BY <1>2, <1>3, <1>4, <1>7, <1>8 DEF CallOK, Calling, Mapping
<1> QED
    BY <1>16, <1>18, <1>19, <1>20 DEF IInv

-----------------------------------------------------------------------------
(* THE THEOREMS                                                            *)

LEMMA InitIInv == Init => IInv
<1> SUFFICES ASSUME Init PROVE IInv
    OBVIOUS
<1>1. freelist \in Seq(Pages) /\ Len(freelist) = NPages
    <2>1. freelist = [n \in 1..NPages |-> NPages + 1 - n] /\ NPages \in Nat
        BY SizesVmAssumption DEF Init, Pages
    <2>2. \A n \in 1..NPages : NPages + 1 - n \in Pages
        BY <2>1 DEF Pages
    <2> QED
        BY <2>1, <2>2
<1>2. \A pg \in Pages, m \in Nat : At(freelist, pg, m) <=> pg = m
    BY <1>1, SizesVmAssumption DEF At, Init, Pages
<1>3. PICK own : own = [pg \in Pages |-> Use("free", pg, 0)]
    OBVIOUS
<1>4. own \in [Pages -> Uses] /\ \A pg \in Pages : own[pg] = Use("free", pg, 0) /\ own[pg].kind = "free"
    BY <1>3, UsesMade, UseFields, Basics
<1>5. Owned(own)
    <2>1. OwnFree(own)
        BY <1>2, <1>4, UseFields DEF OwnFree
    <2>2. OwnTaken(own) /\ OwnRoots(own)
        BY <1>4, UseFields DEF OwnTaken, OwnRoots, Init
    <2>3. OwnDirs(own) /\ OwnTables(own)
        BY <1>4, UseFields DEF OwnDirs, OwnTables
    <2>4. OwnMappings(own)
        BY <1>4, UseFields DEF OwnMappings, Init
    <2>5. OwnOld(own)
        <3>1. \A x, m : ~ At(old_list, x, m)
            BY AtEmpty DEF Init
        <3>2. \A pg \in Pages : \A m : own[pg] # Use("old", m, 0)
            BY <1>4, UseFields
        <3> QED
            BY <3>1, <3>2, Zenon DEF OwnOld
    <2>6. OwnCall(own)
        BY <1>4, UseFields, Basics DEF OwnCall, Init, NoMapping
    <2>7. TableRows(own)
        BY <1>4 DEF TableRows, IsTable, Init
    <2> QED
        BY <1>4, <2>1, <2>2, <2>3, <2>4, <2>5, <2>6, <2>7 DEF Owned
<1>6. TypeOK
    <2>1. info \in [va : VAs, pa : Pages \union {Null}]
        BY IndexAssumption DEF Init, NoMapping
    <2>2. mem \in [Pages -> [Offsets -> Pages \union Words \union {Null, Junk, Foreign}]]
        BY DEF Init, JunkRow
    <2> QED
        BY <1>1, <2>1, <2>2 DEF TypeOK, Init
<1>7. ListedIsMapped
    BY DEF ListedIsMapped, Init
<1>8. CallOK
    BY DEF CallOK, Init, NoMapping, Calling, Mapping
<1> QED
    BY <1>5, <1>6, <1>7, <1>8 DEF IInv

LEMMA NextIInv == IInv /\ BootOK /\ [Next]_vars => IInv'
<1> SUFFICES ASSUME IInv, BootOK, [Next]_vars PROVE IInv'
    OBVIOUS
<1>1. CASE AllocPage \/ LoadSegment \/ ExecDone
    BY <1>1, AllocPageKeeps, LoadSegmentKeeps, ExecDoneKeeps
<1>2. CASE CopyPage \/ ForkDone
    BY <1>2, CopyPageKeeps, ForkDoneKeeps
<1>3. CASE Descend \/ NewTable \/ MapLeaf
    BY <1>3, DescendKeeps, NewTableKeeps, MapLeafKeeps
<1>4. ASSUME NEW c \in Procs \union {Kproc}, ExecStart(c) \/ ExecFails(c) PROVE IInv'
    BY <1>4, ExecStartKeeps, ExecFailsKeeps
<1>5. ASSUME NEW p \in Procs, ForkStart(p) \/ Exit(p) PROVE IInv'
    BY <1>5, ForkStartKeeps, ExitKeeps
<1>6. ASSUME NEW p \in Procs, NEW va \in VAs, NEW i \in Offsets, NEW w \in Words, Store(p, va, i, w)
      PROVE  IInv'
    BY <1>6, StoreKeeps
<1>7. CASE Take \/ KallocPanics \/ MmapPanics \/ Halted \/ UNCHANGED vars
    BY <1>7, TakeKeeps, PanicKeeps, SameKeeps DEF Halted
<1> QED
    BY <1>1, <1>2, <1>3, <1>4, <1>5, <1>6, <1>7 DEF Next

(* What the kernel gives out first goes to process 1.                      *)
LEMMA FirstSlot ==
    ASSUME TypeOK, BootOK, NEW p \in Procs, proc_alloc(p)
    PROVE  BootOK'
<1>1. /\ p \notin used /\ (\A q \in 1..(p - 1) : q \in used) /\ used' = used \union {p}
      /\ pgtbl' = [pgtbl EXCEPT ![p] = freelist[2]] /\ Len(freelist) >= 2
    BY DEF proc_alloc, FirstUnused, Marked
<1>2. 1 \in Procs /\ p \in Nat \ {0} /\ pgtbl \in [Procs -> Pages \union {Null}]
    BY SizesVmAssumption DEF Procs, TypeOK
<1>3. CASE used = {}
    <2>1. p = 1
        BY <1>1, <1>2, <1>3
    <2>2. freelist = [n \in 1..NPages |-> NPages + 1 - n] /\ NPages \in Nat
        BY <1>3, SizesVmAssumption DEF BootOK, Pages
    <2>3. Len(freelist) = NPages
        BY <2>2
    <2>4. freelist[2] = NPages - 1
        BY <1>1, <2>2, <2>3
    <2> QED
        BY <1>1, <1>2, <2>1, <2>4 DEF BootOK
<1>4. CASE used # {}
    BY <1>1, <1>2, <1>4 DEF BootOK
<1> QED
    BY <1>3, <1>4

LEMMA NextBootOK == IInv /\ BootOK /\ [Next]_vars => BootOK'
<1> SUFFICES ASSUME IInv, TypeOK, BootOK, [Next]_vars PROVE BootOK'
    BY DEF IInv
<1>1. CASE used' = used /\ pgtbl' = pgtbl /\ (used = {} => freelist' = freelist)
    BY <1>1 DEF BootOK
<1>2. CASE \E p \in Procs : proc_alloc(p)
    BY <1>2, FirstSlot
<1>3. CASE \E c : ExecFails(c)
    <2>1. PICK c, p : /\ ExecFails(c) /\ p \in Procs \ used
                      /\ pgtbl' = [pgtbl EXCEPT ![p] = freelist[2]]
        BY <1>3 DEF ExecFails, FirstUnused
    <2>2. used # {} /\ used' = used /\ 1 \in Procs
        BY <2>1, SizesVmAssumption DEF ExecFails, TypeOK, Procs
    <2> QED
        BY <2>1, <2>2 DEF BootOK, TypeOK
<1>4. CASE AllocPage \/ CopyPage \/ NewTable
    <2>1. used' = used /\ pgtbl' = pgtbl /\ np \in used
        BY <1>4 DEF AllocPage, CopyPage, NewTable, procs, Mapping, Calling, IInv, CallOK
    <2> QED
        BY <1>1, <2>1
<1>5. CASE Take
    BY <1>1, <1>5 DEF Take, procs
<1>6. CASE LoadSegment \/ ExecDone \/ ForkDone \/ Descend \/ MapLeaf \/ KallocPanics \/ MmapPanics
           \/ Halted \/ UNCHANGED vars \/ (\E p : Exit(p))
           \/ \E p, va, i, w : Store(p, va, i, w)
    BY <1>1, <1>6 DEF LoadSegment, ExecDone, ForkDone, Descend, MapLeaf, KallocPanics, MmapPanics,
        Halted, Exit, Store, vars, pages, procs
<1> QED
    BY <1>2, <1>3, <1>4, <1>5, <1>6 DEF Next, ExecStart, ForkStart

(* The ownership invariant holds at every step of fork() and exec().       *)
THEOREM Invariance == Spec => [](IInv /\ BootOK)
<1>1. Init => IInv /\ BootOK
    BY InitIInv DEF Init, BootOK
<1>2. IInv /\ BootOK /\ [Next]_vars => (IInv /\ BootOK)'
    BY NextIInv, NextBootOK DEF IInv
<1> QED
    BY <1>1, <1>2, PTL DEF Spec

(* Every variable keeps its type: a page that a table entry or a list      *)
(* names is one that pmm_init() found.                                     *)
THEOREM TypeCorrect == Spec => []TypeOK
<1>1. IInv => TypeOK
    BY DEF IInv
<1> QED
    BY <1>1, Invariance, PTL

(* copy_pagetable() works from the mapping list of its caller: what a      *)
(* process can reach is on the list, and nothing else is.                  *)
THEOREM MappedPagesListed == Spec => []ListedIsMapped
<1>1. IInv => ListedIsMapped
    BY DEF IInv
<1> QED
    BY <1>1, Invariance, PTL

-----------------------------------------------------------------------------
(* One owner: the claims on a page are exactly the one that own describes. *)

LEMMA EntriesAre ==
    \A T, I, x : x \in Entries(T, I) <=> \E t \in T, i \in I : mem[t][i] # Null /\ x = <<t, i>>
BY DEF Entries

LEMMA TablesAre ==
    ASSUME TypeOK, NEW own, Owned(own)
    PROVE  /\ \A t : t \in Roots <=> t \in Pages /\ own[t].kind = "root"
           /\ \A t : t \in Dirs <=> t \in Pages /\ own[t].kind = "directory"
<1>1. used \subseteq Procs /\ own \in [Pages -> Uses]
    BY DEF TypeOK, Owned
<1>2. ASSUME NEW t \in Roots PROVE t \in Pages /\ own[t].kind = "root"
    <2>1. PICK p \in used : t = pgtbl[p]
        BY DEF Roots
    <2>2. t \in Pages
        BY <2>1 DEF Owned, TableRows
    <2>3. own[t] = Use("root", p, 0)
        BY <1>1, <2>1, <2>2 DEF Owned, OwnRoots
    <2> QED
        BY <2>2, <2>3, UseFields
<1>3. ASSUME NEW t \in Pages, own[t].kind = "root" PROVE t \in Roots
    <2>1. own[t] = Use("root", own[t].up, 0) /\ own[t].up \in Procs
        BY <1>1, <1>3, UsesForm
    <2>2. own[t].up \in used /\ pgtbl[own[t].up] = t
        BY <2>1 DEF Owned, OwnRoots
    <2> QED
        BY <2>2 DEF Roots
<1>4. ASSUME NEW d \in Dirs PROVE d \in Pages /\ own[d].kind = "directory"
    <2>1. PICK e \in Entries(Roots, RootIndex) : d = mem[e[1]][e[2]]
        BY DEF Dirs
    <2>2. PICK t \in Roots, i \in RootIndex : mem[t][i] # Null /\ e = <<t, i>>
        BY <2>1, EntriesAre
    <2>3. t \in Pages /\ own[t].kind = "root" /\ d = mem[t][i]
        BY <1>2, <2>1, <2>2
    <2>4. d \in Pages
        BY <2>2, <2>3 DEF Owned, TableRows, TableIx, IsTable
    <2>5. own[d] = Use("directory", t, i)
        BY <2>3, <2>4 DEF Owned, OwnDirs
    <2> QED
        BY <2>4, <2>5, UseFields
<1>5. ASSUME NEW d \in Pages, own[d].kind = "directory" PROVE d \in Dirs
    <2>1. PICK t \in Pages, i \in RootIndex : own[d] = Use("directory", t, i)
        BY <1>1, <1>5, UsesForm
    <2>2. own[t].kind = "root" /\ mem[t][i] = d
        BY <2>1 DEF Owned, OwnDirs
    <2>3. <<t, i>> \in Entries(Roots, RootIndex)
        BY <1>3, <2>2, Basics, EntriesAre
    <2> QED
        BY <2>2, <2>3 DEF Dirs
<1> QED
    BY <1>2, <1>3, <1>4, <1>5

(* An element of a list, by its place from the head and from the end.      *)
LEMMA InListPlace ==
    ASSUME NEW S, NEW s \in Seq(S)
    PROVE  /\ Len(s) \in Nat
           /\ \A e \in InList(s) : /\ e = <<Len(s) + 1 - (Len(s) + 1 - e[1]), e[2]>>
                                   /\ Len(s) + 1 - e[1] \in Nat
                                   /\ At(s, e[2], Len(s) + 1 - e[1])
           /\ \A x, m : At(s, x, m) => <<Len(s) + 1 - m, x>> \in InList(s)
<1>1. PICK l \in Nat : l = Len(s) /\ DOMAIN s = 1..l
    BY LenProperties
<1>2. ASSUME NEW e \in InList(s)
      PROVE  /\ e = <<l + 1 - (l + 1 - e[1]), e[2]>> /\ l + 1 - e[1] \in Nat
             /\ At(s, e[2], l + 1 - e[1])
    <2>1. PICK n \in 1..l : e = <<n, s[n]>>
        BY <1>1 DEF InList
    <2>2. e[1] = n /\ e[2] = s[n] /\ l + 1 - (l + 1 - n) = n /\ l + 1 - n \in Nat
        BY <2>1
    <2>3. At(s, s[n], l + 1 - n)
        BY <1>1 DEF At
    <2> QED
        BY <2>1, <2>2, <2>3
<1>3. ASSUME NEW x, NEW m, At(s, x, m) PROVE <<l + 1 - m, x>> \in InList(s)
    <2>1. PICK n \in 1..l : s[n] = x /\ m = l + 1 - n
        BY <1>1, <1>3 DEF At
    <2>2. l + 1 - m = n
        BY <2>1
    <2>3. <<n, s[n]>> \in InList(s)
        BY <1>1 DEF InList
    <2> QED
        BY <2>1, <2>2, <2>3
<1> QED
    BY <1>1, <1>2, <1>3

(* The claim on a page that its use stands for.                            *)
Claim(own, pg) ==
    <<pg, own[pg].kind,
      CASE own[pg].kind = "free" -> Len(freelist) + 1 - own[pg].up
        [] own[pg].kind \in {"taken", "info", "new"} -> 0
        [] own[pg].kind = "root" -> own[pg].up
        [] own[pg].kind \in {"directory", "table"} -> <<own[pg].up, own[pg].ix>>
        [] own[pg].kind = "mapping" ->
                <<own[pg].up, Len(mapping_list[own[pg].up]) + 1 - own[pg].ix>>
        [] own[pg].kind = "old" -> Len(old_list) + 1 - own[pg].up>>

LEMMA ClaimOf ==
    ASSUME NEW own, NEW pg
    PROVE  /\ \A m : own[pg] = Use("free", m, 0) =>
                        Claim(own, pg) = <<pg, "free", Len(freelist) + 1 - m>>
           /\ \A kd \in {"taken", "info", "new"} :
                    own[pg] = Use(kd, 0, 0) => Claim(own, pg) = <<pg, kd, 0>>
           /\ \A p : own[pg] = Use("root", p, 0) => Claim(own, pg) = <<pg, "root", p>>
           /\ \A kd \in {"directory", "table"} : \A t, i :
                    own[pg] = Use(kd, t, i) => Claim(own, pg) = <<pg, kd, <<t, i>>>>
           /\ \A p, m : own[pg] = Use("mapping", p, m) =>
                    Claim(own, pg) = <<pg, "mapping", <<p, Len(mapping_list[p]) + 1 - m>>>>
           /\ \A m : own[pg] = Use("old", m, 0) =>
                        Claim(own, pg) = <<pg, "old", Len(old_list) + 1 - m>>
<1>1. \A m : own[pg] = Use("free", m, 0) => Claim(own, pg) = <<pg, "free", Len(freelist) + 1 - m>>
    BY UseFields DEF Claim
<1>2. \A kd \in {"taken", "info", "new"} :
            own[pg] = Use(kd, 0, 0) => Claim(own, pg) = <<pg, kd, 0>>
    BY UseFields DEF Claim
<1>3. \A p : own[pg] = Use("root", p, 0) => Claim(own, pg) = <<pg, "root", p>>
    BY UseFields DEF Claim
<1>4. \A kd \in {"directory", "table"} : \A t, i :
            own[pg] = Use(kd, t, i) => Claim(own, pg) = <<pg, kd, <<t, i>>>>
    BY UseFields DEF Claim
<1>5. \A p, m : own[pg] = Use("mapping", p, m) =>
            Claim(own, pg) = <<pg, "mapping", <<p, Len(mapping_list[p]) + 1 - m>>>>
    BY UseFields DEF Claim
<1>6. \A m : own[pg] = Use("old", m, 0) => Claim(own, pg) = <<pg, "old", Len(old_list) + 1 - m>>
    BY UseFields DEF Claim
<1> QED
    BY <1>1, <1>2, <1>3, <1>4, <1>5, <1>6

LEMMA ClaimsOwned ==
    ASSUME TypeOK, NEW own, Owned(own), NEW c \in Claims, c[1] \in Pages
    PROVE  c = Claim(own, c[1])
<1> DEFINE pg == c[1]
<1>1. /\ freelist \in Seq(Pages) /\ old_list \in Seq(Mappings) /\ used \subseteq Procs
      /\ mapping_list \in [Procs -> Seq(Mappings)]
    BY DEF TypeOK
<1>2. CASE c \in {<<f[2], "free", f[1]>> : f \in InList(freelist)}
    <2>1. PICK f \in InList(freelist) : c = <<f[2], "free", f[1]>>
        BY <1>2
    <2>2. PICK m \in Nat : At(freelist, f[2], m) /\ f = <<Len(freelist) + 1 - m, f[2]>>
        BY <1>1, InListPlace
    <2>3. pg = f[2] /\ f[1] = Len(freelist) + 1 - m /\ c = <<pg, "free", Len(freelist) + 1 - m>>
        BY <2>1, <2>2
    <2>4. own[pg] = Use("free", m, 0)
        BY <2>2, <2>3 DEF Owned, OwnFree
    <2> QED
        BY <2>3, <2>4, ClaimOf
<1>3. CASE c \in {<<x, "taken", 0>> : x \in taken}
    <2>1. pg \in taken /\ c = <<pg, "taken", 0>>
        BY <1>3
    <2>2. own[pg] = Use("taken", 0, 0)
        BY <2>1 DEF Owned, OwnTaken
    <2> QED
        BY <2>1, <2>2, ClaimOf
<1>4. CASE c \in {<<pgtbl[p], "root", p>> : p \in used}
    <2>1. PICK p \in used : c = <<pgtbl[p], "root", p>>
        BY <1>4
    <2>2. pg = pgtbl[p] /\ c = <<pg, "root", p>>
        BY <2>1
    <2>3. own[pg] = Use("root", p, 0)
        BY <1>1, <2>2 DEF Owned, OwnRoots
    <2> QED
        BY <2>2, <2>3, ClaimOf
<1>5. CASE c \in {<<mem[e[1]][e[2]], "directory", e>> : e \in Entries(Roots, RootIndex)}
    <2>1. PICK e \in Entries(Roots, RootIndex) : c = <<mem[e[1]][e[2]], "directory", e>>
        BY <1>5
    <2>2. PICK t \in Roots, i \in RootIndex : e = <<t, i>>
        BY <2>1, EntriesAre
    <2>3. pg = mem[t][i] /\ c = <<pg, "directory", <<t, i>>>>
        BY <2>1, <2>2
    <2>4. t \in Pages /\ own[t].kind = "root"
        BY TablesAre
    <2>5. own[pg] = Use("directory", t, i)
        BY <2>3, <2>4 DEF Owned, OwnDirs
    <2> QED
        BY <2>3, <2>5, ClaimOf
<1>6. CASE c \in {<<mem[e[1]][e[2]], "table", e>> : e \in Entries(Dirs, Offsets)}
    <2>1. PICK e \in Entries(Dirs, Offsets) : c = <<mem[e[1]][e[2]], "table", e>>
        BY <1>6
    <2>2. PICK t \in Dirs, i \in Offsets : e = <<t, i>>
        BY <2>1, EntriesAre
    <2>3. pg = mem[t][i] /\ c = <<pg, "table", <<t, i>>>>
        BY <2>1, <2>2
    <2>4. t \in Pages /\ own[t].kind = "directory"
        BY TablesAre
    <2>5. own[pg] = Use("table", t, i)
        BY <2>3, <2>4 DEF Owned, OwnTables
    <2> QED
        BY <2>3, <2>5, ClaimOf, SMTT(40)
<1>7. CASE c \in UNION {{<<e[2].pa, "mapping", <<p, e[1]>>>> : e \in InList(mapping_list[p])} : p \in used}
    <2>1. PICK p \in used : \E e \in InList(mapping_list[p]) : c = <<e[2].pa, "mapping", <<p, e[1]>>>>
        BY <1>7
    <2>2. PICK e \in InList(mapping_list[p]) : c = <<e[2].pa, "mapping", <<p, e[1]>>>>
        BY <2>1
    <2>3. p \in Procs /\ mapping_list[p] \in Seq(Mappings)
        BY <1>1
    <2>4. PICK m \in Nat : /\ At(mapping_list[p], e[2], m)
                           /\ e = <<Len(mapping_list[p]) + 1 - m, e[2]>>
        BY <2>2, <2>3, InListPlace
    <2>5. pg = e[2].pa /\ c = <<pg, "mapping", <<p, Len(mapping_list[p]) + 1 - m>>>>
        BY <2>2, <2>4
    <2>6. e[2] \in Mappings
        BY <2>3, <2>4, AtIn
    <2>7. e[2] = [va |-> e[2].va, pa |-> pg] /\ e[2].va \in VAs
        BY <2>5, <2>6 DEF Mappings
    <2>8. own[pg] = Use("mapping", p, m)
        BY <2>3, <2>4, <2>7 DEF Owned, OwnMappings
    <2> HIDE DEF pg
    <2>9. Claim(own, pg) = <<pg, "mapping", <<p, Len(mapping_list[p]) + 1 - m>>>>
        BY <2>8, UseFields DEF Claim
    <2> QED
        BY <2>5, <2>9, Zenon DEF pg
<1>8. CASE c \in {<<e[2].pa, "old", e[1]>> : e \in InList(old_list)}
    <2>1. PICK e \in InList(old_list) : c = <<e[2].pa, "old", e[1]>>
        BY <1>8
    <2>2. PICK m \in Nat : At(old_list, e[2], m) /\ e = <<Len(old_list) + 1 - m, e[2]>>
        BY <1>1, InListPlace
    <2>3. pg = e[2].pa /\ c = <<pg, "old", Len(old_list) + 1 - m>>
        BY <2>1, <2>2
    <2>4. e[2] \in Mappings
        BY <1>1, <2>2, AtIn
    <2>5. e[2] = [va |-> e[2].va, pa |-> pg] /\ e[2].va \in VAs
        BY <2>3, <2>4 DEF Mappings
    <2>6. own[pg] = Use("old", m, 0)
        BY <2>2, <2>5 DEF Owned, OwnOld
    <2> QED
        BY <2>3, <2>6, ClaimOf
<1>9. CASE c \in {<<m.pa, "info", 0>> : m \in Held}
    <2>1. c = <<pg, "info", 0>> /\ pg = info.pa
        BY <1>9 DEF Held
    <2>2. own[pg] = Use("info", 0, 0)
        BY <2>1 DEF Owned, OwnCall
    <2> QED
        BY <2>1, <2>2, ClaimOf
<1>10. CASE c \in {<<x, "new", 0>> : x \in {new_mem} \ {Null}}
    <2>1. c = <<pg, "new", 0>> /\ pg = new_mem
        BY <1>10
    <2>2. own[pg] = Use("new", 0, 0)
        BY <2>1 DEF Owned, OwnCall
    <2> QED
        BY <2>1, <2>2, ClaimOf
<1> QED
    BY <1>2, <1>3, <1>4, <1>5, <1>6, <1>7, <1>8, <1>9, <1>10 DEF Claims

LEMMA OwnedClaims ==
    ASSUME TypeOK, NEW own, Owned(own), NEW pg \in Pages
    PROVE  Claim(own, pg) \in Claims
<1> DEFINE u == own[pg]
<1>1. /\ freelist \in Seq(Pages) /\ old_list \in Seq(Mappings) /\ used \subseteq Procs
      /\ mapping_list \in [Procs -> Seq(Mappings)] /\ u \in Uses
    BY DEF TypeOK, Owned
<1>2. CASE u.kind = "free"
    <2>1. PICK m \in Nat : u = Use("free", m, 0)
        BY <1>1, <1>2, UsesForm
    <2>2. At(freelist, pg, m)
        BY <2>1 DEF Owned, OwnFree
    <2>3. PICK f \in InList(freelist) : f = <<Len(freelist) + 1 - m, pg>>
        BY <1>1, <2>2, InListPlace
    <2>4. Claim(own, pg) = <<f[2], "free", f[1]>>
        BY <2>1, <2>3, ClaimOf
    <2> QED
        BY <2>4 DEF Claims
<1>3. CASE u.kind = "taken"
    <2>1. u = Use("taken", 0, 0)
        BY <1>1, <1>3, UsesForm
    <2>2. pg \in taken /\ Claim(own, pg) = <<pg, "taken", 0>>
        BY <2>1, ClaimOf DEF Owned, OwnTaken
    <2> QED
        BY <2>2 DEF Claims
<1>4. CASE u.kind = "root"
    <2>1. PICK p \in Procs : u = Use("root", p, 0)
        BY <1>1, <1>4, UsesForm
    <2>2. p \in used /\ pgtbl[p] = pg /\ Claim(own, pg) = <<pgtbl[p], "root", p>>
        BY <2>1, ClaimOf DEF Owned, OwnRoots
    <2> QED
        BY <2>2 DEF Claims
<1>5. CASE u.kind = "directory"
    <2>1. PICK t \in Pages, i \in RootIndex : u = Use("directory", t, i)
        BY <1>1, <1>5, UsesForm
    <2>2. own[t].kind = "root" /\ mem[t][i] = pg
        BY <2>1 DEF Owned, OwnDirs
    <2>3. PICK e \in Entries(Roots, RootIndex) : e = <<t, i>>
        BY <2>2, Basics, TablesAre, EntriesAre
    <2>4. Claim(own, pg) = <<mem[e[1]][e[2]], "directory", e>>
        BY <2>1, <2>2, <2>3, ClaimOf
    <2> QED
        BY <2>4 DEF Claims
<1>6. CASE u.kind = "table"
    <2>0. u = Use("table", u.up, u.ix) /\ u.up \in Pages /\ u.ix \in Offsets
        BY <1>1, <1>6, UsesForm
    <2>1. PICK t \in Pages, i \in Offsets : u = Use("table", t, i)
        BY <2>0
    <2>2. own[t].kind = "directory" /\ mem[t][i] = pg
        BY <2>1 DEF Owned, OwnTables
    <2>3. PICK e \in Entries(Dirs, Offsets) : e = <<t, i>>
        BY <2>2, Basics, TablesAre, EntriesAre
    <2>4. Claim(own, pg) = <<mem[e[1]][e[2]], "table", e>>
        BY <2>1, <2>2, <2>3, ClaimOf
    <2> QED
        BY <2>4 DEF Claims
<1>7. CASE u.kind = "mapping"
    <2>1. PICK p \in Procs, m \in Nat : u = Use("mapping", p, m)
        BY <1>1, <1>7, UsesForm
    <2>2. p \in used /\ \E va \in VAs : At(mapping_list[p], [va |-> va, pa |-> pg], m)
        BY <2>1 DEF Owned, OwnMappings
    <2>3. PICK va \in VAs : At(mapping_list[p], [va |-> va, pa |-> pg], m)
        BY <2>2
    <2>4. mapping_list[p] \in Seq(Mappings)
        BY <1>1
    <2>5. PICK e \in InList(mapping_list[p]) :
                e = <<Len(mapping_list[p]) + 1 - m, [va |-> va, pa |-> pg]>>
        BY <2>3, <2>4, InListPlace
    <2>6. e[2].pa = pg /\ e[1] = Len(mapping_list[p]) + 1 - m
        BY <2>5
    <2>7. Claim(own, pg) = <<e[2].pa, "mapping", <<p, e[1]>>>>
        BY <2>1, <2>6, ClaimOf
    <2> QED
        BY <2>2, <2>5, <2>7 DEF Claims
<1>8. CASE u.kind = "old"
    <2>1. PICK m \in Nat : u = Use("old", m, 0)
        BY <1>1, <1>8, UsesForm
    <2>2. PICK va \in VAs : At(old_list, [va |-> va, pa |-> pg], m)
        BY <2>1 DEF Owned, OwnOld
    <2>3. PICK e \in InList(old_list) : e = <<Len(old_list) + 1 - m, [va |-> va, pa |-> pg]>>
        BY <1>1, <2>2, InListPlace
    <2>4. e[2].pa = pg /\ e[1] = Len(old_list) + 1 - m
        BY <2>3
    <2>5. Claim(own, pg) = <<e[2].pa, "old", e[1]>>
        BY <2>1, <2>4, ClaimOf
    <2> QED
        BY <2>3, <2>5 DEF Claims
<1>9. CASE u.kind = "info"
    <2>1. u = Use("info", 0, 0)
        BY <1>1, <1>9, UsesForm
    <2>2. info.pa = pg /\ info \in Held /\ Claim(own, pg) = <<info.pa, "info", 0>>
        BY <2>1, ClaimOf, Basics DEF Owned, OwnCall, Held
    <2> QED
        BY <2>2 DEF Claims
<1>10. CASE u.kind = "new"
    <2>1. u = Use("new", 0, 0)
        BY <1>1, <1>10, UsesForm
    <2>2. pg \in {new_mem} \ {Null} /\ Claim(own, pg) = <<pg, "new", 0>>
        BY <2>1, ClaimOf, Basics DEF Owned, OwnCall
    <2> QED
        BY <2>2 DEF Claims
<1> QED
    BY <1>1, <1>2, <1>3, <1>4, <1>5, <1>6, <1>7, <1>8, <1>9, <1>10, UsesForm

(* Every page has exactly one use: no page is lost, none is used twice,    *)
(* whatever the program files look like and wherever the memory runs out.  *)
THEOREM PagesHaveOneOwner == Spec => []OneOwner
<1>1. ASSUME IInv, NEW pg \in Pages PROVE Cardinality({c \in Claims : c[1] = pg}) = 1
    <2>1. PICK own : Owned(own)
        BY <1>1 DEF IInv
    <2>2. TypeOK
        BY <1>1 DEF IInv
    <2>3. Claim(own, pg) \in Claims /\ Claim(own, pg)[1] = pg
        BY <2>1, <2>2, OwnedClaims DEF Claim
    <2>4. \A c \in Claims : c[1] = pg => c = Claim(own, pg)
        BY <2>1, <2>2, ClaimsOwned
    <2>5. {c \in Claims : c[1] = pg} = {Claim(own, pg)}
        BY <2>3, <2>4
    <2> QED
        BY <2>5, FS_Singleton
<1>2. IInv => OneOwner
    BY <1>1 DEF OneOwner
<1> QED
    BY <1>2, Invariance, PTL

=============================================================================
