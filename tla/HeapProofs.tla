----------------------------- MODULE HeapProofs -----------------------------
(***************************************************************************)
(* Proofs about the kernel heap and the lists in it, for every size of     *)
(* page, number of pages and processes and every size of program.          *)
(***************************************************************************)
EXTENDS Heap, SequenceTheorems, TLAPS

Fields == {"mem", "fastbin", "p_start", "p_end", "taken", "ret", "chains", "room", "small",
           "foreign"}
Typed(g) ==
    /\ DOMAIN g = Fields
    /\ g.mem \in [Addr -> Int] /\ g.fastbin \in [Bins -> Int]
    /\ g.p_start \in Nat /\ g.p_end \in Nat /\ g.taken \in 0..HeapPages
    /\ g.chains \in [Bins -> Seq(Addr)] /\ g.room \in [Addr -> Nat]

(* New chunks come from the rest of the last page; the others end before   *)
(* it, within their page and apart.                                        *)
IsChunk(g, c) == c \in Addr /\ g.room[c] > 0
InPage(g, c) == \E page \in 1..g.taken :
    page * PG_SIZE <= c /\ c + chunk_info_size + g.room[c] <= (page + 1) * PG_SIZE
Shape(g) ==
    /\ g.taken = 0 => g.p_start = 0 /\ g.p_end = 0
    /\ g.taken > 0 => /\ g.p_end = (g.taken + 1) * PG_SIZE
                      /\ g.p_end <= g.p_start + PG_SIZE /\ g.p_start < g.p_end
    /\ \A c \in Addr : g.room[c] > 0 =>
            /\ g.room[c] \in {2, 4} /\ PG_SIZE <= c
            /\ c + chunk_info_size + g.room[c] <= g.p_start /\ InPage(g, c)
    /\ \A c, d \in Addr : g.room[c] > 0 /\ g.room[d] > 0 /\ c < d =>
            c + chunk_info_size + g.room[c] <= d

(* A bin leads through its chunks.  All have room for a list element, but  *)
(* for the one at the top of bin 1, where a list head may lie.             *)
Ends == {Null, Foreign}
ChainOK(g, b, s) ==
    /\ PointsTo(g.fastbin[b], s, 1, Ends)
    /\ \A n \in 1..Len(s) :
            /\ IsChunk(g, s[n]) /\ PointsTo(g.mem[s[n]], s, n + 1, Ends)
            /\ b = 2 \/ n > 1 => g.room[s[n]] = 4
    /\ b \notin {1, 2} => s = <<>>
InBins(g, c) == \E b \in Bins : \E n \in 1..Len(g.chains[b]) : g.chains[b][n] = c
NoTwice(g) ==
    \A b, c \in Bins : \A n \in 1..Len(g.chains[b]), m \in 1..Len(g.chains[c]) :
        g.chains[b][n] = g.chains[c][m] => b = c /\ n = m
Roomy(g) == \A n \in 1..Len(g.chains[1]) : g.room[g.chains[1][n]] = 4

HeapOK(g) ==
    /\ Typed(g) /\ Shape(g) /\ g.small = 0 /\ g.foreign = 0
    /\ \A b \in Bins : ChainOK(g, b, g.chains[b])
    /\ NoTwice(g)

(* A list in the heap: every cell has two chunks of its own, and the words *)
(* in them lead from cell to cell.                                         *)
Cells == [elem : Addr, data : Addr, pa : Int]
InList(list, s, c) ==
    \/ c = list - 2
    \/ \E n \in 1..Len(s) : c = s[n].elem - 2 \/ c = s[n].data - 2
Apart(list, s) ==
    /\ \A n \in 1..Len(s) : s[n].elem # list /\ s[n].data # list
    /\ \A n, m \in 1..Len(s) :
            /\ s[n].elem # s[m].data
            /\ s[n].elem = s[m].elem \/ s[n].data = s[m].data => n = m
NextOf(s, n) == IF n > Len(s) THEN Null ELSE s[n].elem
Links(g, list, s) ==
    /\ g.mem[list] = NextOf(s, 1)
    /\ s # <<>> => g.mem[list + 1] = s[Len(s)].elem
    /\ \A n \in 1..Len(s) :
            /\ g.mem[s[n].elem - 1] = ElemSize /\ g.mem[s[n].elem + 1] = NextOf(s, n + 1)
            /\ g.mem[s[n].elem + 2] = s[n].data /\ g.mem[s[n].data] = s[n].pa
ListOK(g, list, s) ==
    /\ list \in Addr /\ s \in Seq(Cells) /\ IsChunk(g, list - 2)
    /\ \A n \in 1..Len(s) : /\ IsChunk(g, s[n].elem - 2) /\ g.room[s[n].elem - 2] = 4
                            /\ IsChunk(g, s[n].data - 2) /\ g.room[s[n].data - 2] = 4
    /\ Apart(list, s) /\ Links(g, list, s)

(* All lists of the set ls, with their heads and cells.                    *)
AllOK(g, ls, heads, cells) ==
    /\ HeapOK(g)
    /\ \A l \in ls : ListOK(g, heads[l], cells[l])
    /\ \A l \in ls : \A c \in Addr : InList(heads[l], cells[l], c) => ~ InBins(g, c)
    /\ \A l, k \in ls : \A c \in Addr :
            InList(heads[l], cells[l], c) /\ InList(heads[k], cells[k], c) => l = k

(* The list that fork() takes apart is numbered as the kernel's slot.      *)
Old == 0
Slots == Procs \union {Old}
Now == used \union (IF pc = "fork" THEN {Old} ELSE {})
Heads == [l \in Slots |-> IF l = Old THEN old_list ELSE mapping_list[l]]
CellsOf == [l \in Slots |-> IF l = Old THEN old ELSE lists[l]]

CallOK ==
    /\ used \subseteq Procs /\ pages \in Nat /\ pc \in {"idle", "exec", "fork"}
    /\ mapping_list \in [Procs -> Int] /\ lists \in [Procs -> Seq(Cells)]
    /\ pc = "exec" => np \in used
    /\ pc = "fork" => np \in used /\ caller \in used /\ np # caller

IInv ==
    h.foreign = 0 =>
        CallOK /\ AllOK(h, Now, Heads, CellsOf) /\ (pc # "idle" => Roomy(h))

-----------------------------------------------------------------------------
(* THE FIELDS OF A HEAP AFTER A CALL, whatever the heap was                *)

Extended(g, size, r) ==
    /\ DOMAIN r = Fields
    /\ r.mem = g.mem /\ r.fastbin = g.fastbin /\ r.chains = g.chains
    /\ r.room = g.room /\ r.small = g.small /\ r.foreign = g.foreign
    /\ r.ret = IF NeedsPage(g, size) THEN (g.taken + 1) * PG_SIZE ELSE g.p_start
    /\ r.p_start = r.ret + size
    /\ r.p_end = IF NeedsPage(g, size) THEN r.ret + PG_SIZE ELSE g.p_end
    /\ r.taken = IF NeedsPage(g, size) THEN g.taken + 1 ELSE g.taken
LEMMA AllocFields ==
    ASSUME NEW g, DOMAIN g = Fields, NEW size
    PROVE  Extended(g, size, apply_alloc(g, size))
BY DEF apply_alloc, Fields, Extended

(* malloc() from memory that was never handed out.                         *)
Fresh(g, size, a, r) ==
    /\ Extended(g, Fix(size) + chunk_info_size, a)
    /\ DOMAIN r = Fields
    /\ r.mem = [g.mem EXCEPT ![a.ret + 1] = size]
    /\ r.fastbin = g.fastbin /\ r.chains = g.chains
    /\ r.p_start = a.p_start /\ r.p_end = a.p_end /\ r.taken = a.taken
    /\ r.ret = a.ret + chunk_info_size
    /\ r.room = [g.room EXCEPT ![a.ret] = Fix(size)]
    /\ r.small = IF r.room[a.ret] < size THEN 1 ELSE g.small
    /\ r.foreign = g.foreign
LEMMA FreshFields ==
    ASSUME NEW g, DOMAIN g = Fields, NEW size, g.fastbin[BinOf(size)] = Null
    PROVE  Fresh(g, size, apply_alloc(g, Fix(size) + chunk_info_size), malloc(g, size))
<1>a. PICK a : a = apply_alloc(g, Fix(size) + chunk_info_size)
    OBVIOUS
<1>r. PICK r : r = malloc(g, size)
    OBVIOUS
<1> DEFINE t == [a EXCEPT !.room[a.ret] = Fix(size)]
<1>1. r = [t EXCEPT !.mem[t.ret + 1] = size, !.ret = t.ret + chunk_info_size,
                    !.small = IF t.room[t.ret] < size THEN 1 ELSE @]
    BY <1>a, <1>r DEF malloc, Null, Foreign
<1>b. Extended(g, Fix(size) + chunk_info_size, a)
    BY <1>a, AllocFields
<1>2. /\ DOMAIN a = Fields
      /\ a.mem = g.mem /\ a.fastbin = g.fastbin /\ a.chains = g.chains
      /\ a.room = g.room /\ a.small = g.small /\ a.foreign = g.foreign
    BY <1>b DEF Extended
<1>3. /\ DOMAIN t = Fields /\ t.mem = a.mem /\ t.fastbin = a.fastbin /\ t.chains = a.chains
      /\ t.room = [a.room EXCEPT ![a.ret] = Fix(size)] /\ t.small = a.small
      /\ t.foreign = a.foreign /\ t.ret = a.ret
      /\ t.p_start = a.p_start /\ t.p_end = a.p_end /\ t.taken = a.taken
    BY <1>2 DEF Fields
<1> HIDE DEF t
<1>4. /\ DOMAIN r = Fields /\ r.mem = [t.mem EXCEPT ![t.ret + 1] = size]
      /\ r.fastbin = t.fastbin /\ r.chains = t.chains /\ r.room = t.room
      /\ r.small = (IF t.room[t.ret] < size THEN 1 ELSE t.small)
      /\ r.foreign = t.foreign /\ r.ret = t.ret + chunk_info_size
      /\ r.p_start = t.p_start /\ r.p_end = t.p_end /\ r.taken = t.taken
    BY <1>1, <1>3 DEF Fields
<1>5. Fresh(g, size, a, r)
    BY <1>b, <1>2, <1>3, <1>4 DEF Fresh
<1> QED
    BY <1>a, <1>r, <1>5

(* malloc() of the chunk at the top of its bin.                            *)
Reused(g, size, b, chunk, r) ==
    /\ DOMAIN r = Fields
    /\ r.mem = [g.mem EXCEPT ![chunk + 1] = size]
    /\ r.fastbin = [g.fastbin EXCEPT ![b] = g.mem[chunk]]
    /\ r.chains = [g.chains EXCEPT ![b] = Rest(g.chains[b])]
    /\ r.p_start = g.p_start /\ r.p_end = g.p_end /\ r.taken = g.taken
    /\ r.ret = chunk + chunk_info_size /\ r.room = g.room
    /\ r.small = IF g.room[chunk] < size THEN 1 ELSE g.small
    /\ r.foreign = g.foreign
LEMMA ReuseFields ==
    ASSUME NEW g, DOMAIN g = Fields, NEW size, g.fastbin[BinOf(size)] \notin {Null, Foreign}
    PROVE  Reused(g, size, BinOf(size), g.fastbin[BinOf(size)], malloc(g, size))
<1>b. PICK b : b = BinOf(size)
    OBVIOUS
<1>c. PICK chunk : chunk = g.fastbin[b]
    OBVIOUS
<1>r. PICK r : r = malloc(g, size)
    OBVIOUS
<1> DEFINE t == [g EXCEPT !.fastbin[b] = RestOfBin(g, b), !.chains[b] = Rest(@), !.ret = chunk]
<1>1. r = [t EXCEPT !.mem[t.ret + 1] = size, !.ret = t.ret + chunk_info_size,
                    !.small = IF t.room[t.ret] < size THEN 1 ELSE @]
    BY <1>b, <1>c, <1>r DEF malloc
<1>2. /\ DOMAIN t = Fields /\ t.mem = g.mem
      /\ t.fastbin = [g.fastbin EXCEPT ![b] = g.mem[chunk]]
      /\ t.chains = [g.chains EXCEPT ![b] = Rest(g.chains[b])] /\ t.ret = chunk
      /\ t.room = g.room /\ t.small = g.small /\ t.foreign = g.foreign
      /\ t.p_start = g.p_start /\ t.p_end = g.p_end /\ t.taken = g.taken
    BY <1>c DEF Fields, RestOfBin
<1> HIDE DEF t
<1>3. /\ DOMAIN r = Fields /\ r.mem = [t.mem EXCEPT ![t.ret + 1] = size]
      /\ r.fastbin = t.fastbin /\ r.chains = t.chains /\ r.room = t.room
      /\ r.small = (IF t.room[t.ret] < size THEN 1 ELSE t.small)
      /\ r.foreign = t.foreign /\ r.ret = t.ret + chunk_info_size
      /\ r.p_start = t.p_start /\ r.p_end = t.p_end /\ r.taken = t.taken
    BY <1>1, <1>2 DEF Fields
<1>4. Reused(g, size, b, chunk, r)
    BY <1>2, <1>3 DEF Reused
<1> QED
    BY <1>b, <1>c, <1>r, <1>4

(* What later calls do not undo: memory that is not the heap's was handed  *)
(* out, and pages taken.                                                   *)
Onward(g, r) ==
    /\ DOMAIN r = Fields
    /\ r.foreign = 0 => g.foreign = 0
    /\ g.taken \in Nat => r.taken \in Nat /\ r.taken >= g.taken

LEMMA MallocOnward ==
    ASSUME NEW g, DOMAIN g = Fields, NEW size
    PROVE  /\ Onward(g, malloc(g, size))
           /\ malloc(g, size).foreign = 0 => g.fastbin[BinOf(size)] # Foreign
<1> DEFINE r == malloc(g, size)
<1>1. CASE g.fastbin[BinOf(size)] = Foreign
    <2>1. r = [g EXCEPT !.foreign = 1]
        BY <1>1 DEF malloc
    <2> HIDE DEF r
    <2>2. Onward(g, r) /\ r.foreign = 1
        BY <2>1 DEF Fields, Onward
    <2> QED
        BY <2>2 DEF r
<1>2. CASE g.fastbin[BinOf(size)] = Null
    <2>1. PICK a : Fresh(g, size, a, r)
        BY <1>2, FreshFields
    <2> HIDE DEF r
    <2>2. Onward(g, r)
        BY <2>1 DEF Fresh, Extended, Onward
    <2> QED
        BY <1>2, <2>2 DEF r, Null, Foreign
<1>3. CASE g.fastbin[BinOf(size)] \notin {Null, Foreign}
    <2>1. PICK b, chunk : Reused(g, size, b, chunk, r)
        BY <1>3, ReuseFields
    <2> HIDE DEF r
    <2>2. Onward(g, r)
        BY <2>1 DEF Reused, Onward
    <2> QED
        BY <1>3, <2>2 DEF r
<1> QED
    BY <1>1, <1>2, <1>3

-----------------------------------------------------------------------------
(* NUMBERS AND SEQUENCES                                                   *)

LEMMA Sizes ==
    /\ chunk_info_size = 2 /\ HeadSize = 2 /\ ElemSize = 3 /\ MappingSize = 4
    /\ BinOf(2) = 1 /\ BinOf(3) = 1 /\ BinOf(4) = 2
    /\ Fix(2) = 2 /\ Fix(3) = 4 /\ Fix(4) = 4
    /\ Null = 0 /\ Foreign = -1 /\ Bins = 0..10
BY DEF chunk_info_size, HeadSize, ElemSize, MappingSize, BinOf, Fix, Null, Foreign, Bins

LEMMA PageSizes ==
    /\ PG_SIZE \in Nat /\ PG_SIZE > 8 /\ HeapPages \in Nat
    /\ \A n \in Nat : n * PG_SIZE \in Nat /\ (n + 1) * PG_SIZE = n * PG_SIZE + PG_SIZE
    /\ \A n \in 0..HeapPages : (n + 1) * PG_SIZE <= (HeapPages + 1) * PG_SIZE
    /\ Addr = 0..((HeapPages + 1) * PG_SIZE) /\ Addr \subseteq Nat
<1>1. PG_SIZE \in Nat /\ PG_SIZE > 8 /\ HeapPages \in Nat
    BY HeapSizes
<1>2. \A n \in Nat : n * PG_SIZE \in Nat /\ (n + 1) * PG_SIZE = n * PG_SIZE + PG_SIZE
    BY <1>1
<1>3. ASSUME NEW n \in 0..HeapPages PROVE (n + 1) * PG_SIZE <= (HeapPages + 1) * PG_SIZE
    <2>1. \A a, b, k \in Nat : a <= b => a * k <= b * k
        OBVIOUS
    <2>2. n + 1 \in Nat /\ HeapPages + 1 \in Nat /\ n + 1 <= HeapPages + 1
        BY <1>1
    <2> QED
        BY <1>1, <2>1, <2>2
<1>4. Addr = 0..((HeapPages + 1) * PG_SIZE) /\ Addr \subseteq Nat
    BY DEF Addr
<1> QED
    BY <1>1, <1>2, <1>3, <1>4

(* Off the front of a sequence, and onto it.                               *)
LEMMA RestOf ==
    ASSUME NEW S, NEW s \in Seq(S), s # <<>>
    PROVE  /\ Rest(s) \in Seq(S) /\ Len(s) \in Nat \ {0} /\ Len(Rest(s)) = Len(s) - 1
           /\ \A n \in 1..(Len(s) - 1) : Rest(s)[n] = s[n + 1]
           /\ s[1] \in S /\ Rest(s) = Tail(s)
<1>1. Rest(s) = Tail(s)
    BY DEF Rest
<1>2. /\ Tail(s) \in Seq(S) /\ Len(Tail(s)) = Len(s) - 1 /\ Len(s) \in Nat /\ Len(s) # 0
      /\ \A n \in 1..Len(Tail(s)) : Tail(s)[n] = s[n + 1]
      /\ Head(s) \in S /\ Head(s) = s[1]
    BY HeadTailProperties, LenProperties, EmptySeq
<1> QED
    BY <1>1, <1>2

LEMMA ConsOf ==
    ASSUME NEW S, NEW s \in Seq(S), NEW x \in S
    PROVE  LET u == <<x>> \o s IN
           /\ u \in Seq(S) /\ Len(s) \in Nat /\ Len(u) = Len(s) + 1
           /\ u[1] = x /\ \A n \in 1..Len(s) : u[n + 1] = s[n]
<1> DEFINE y == <<x>>
           u == y \o s
<1>1. y \in Seq(S) /\ Len(y) = 1 /\ y[1] = x
    OBVIOUS
<1>2. Len(s) \in Nat
    BY LenProperties
<1> HIDE DEF y
<1>3. /\ u \in Seq(S) /\ Len(u) = Len(y) + Len(s)
      /\ \A i \in 1..(Len(y) + Len(s)) : u[i] = IF i <= Len(y) THEN y[i] ELSE s[i - Len(y)]
    BY <1>1, ConcatProperties
<1> HIDE DEF u
<1>4. Len(u) = Len(s) + 1
    BY <1>1, <1>2, <1>3
<1>5. u[1] = x
    <2>1. 1 \in 1..(Len(y) + Len(s)) /\ 1 <= Len(y)
        BY <1>1, <1>2
    <2> QED
        BY <1>1, <1>3, <2>1
<1>6. ASSUME NEW n \in 1..Len(s) PROVE u[n + 1] = s[n]
    <2>1. n + 1 \in 1..(Len(y) + Len(s)) /\ ~ (n + 1 <= Len(y)) /\ n + 1 - Len(y) = n
        BY <1>1, <1>2
    <2> QED
        BY <1>3, <2>1
<1> QED
    BY <1>2, <1>3, <1>4, <1>5, <1>6 DEF u, y

LEMMA Around ==
    ASSUME NEW S, NEW s \in Seq(S)
    PROVE  /\ s = <<>> <=> Len(s) = 0
           /\ Len(s) \in Nat /\ DOMAIN s = 1..Len(s) /\ \A n \in 1..Len(s) : s[n] \in S
BY LenProperties, ElementOfSeq, EmptySeq

-----------------------------------------------------------------------------
(* WHAT A CALL OR A STORE LEAVES ALONE                                     *)

(* Only words in memory, and the result, differ.                           *)
SameHeap(g, r) ==
    /\ DOMAIN r = Fields /\ r.fastbin = g.fastbin /\ r.chains = g.chains /\ r.room = g.room
    /\ r.p_start = g.p_start /\ r.p_end = g.p_end /\ r.taken = g.taken
    /\ r.small = g.small /\ r.foreign = g.foreign

(* Stores that miss the chunks of the bins keep the heap in order.         *)
LEMMA StoreKeeps ==
    ASSUME NEW g, HeapOK(g), NEW r, SameHeap(g, r), r.mem \in [Addr -> Int],
           \A c \in Addr : InBins(g, c) => r.mem[c] = g.mem[c]
    PROVE  /\ HeapOK(r) /\ (Roomy(g) => Roomy(r))
           /\ \A c \in Addr : InBins(r, c) <=> InBins(g, c)
<1>1. Typed(r)
    BY DEF HeapOK, Typed, SameHeap
<1>2. Shape(r)
    BY DEF HeapOK, Shape, InPage, SameHeap
<1>3. ASSUME NEW b \in Bins PROVE ChainOK(r, b, r.chains[b])
    <2> DEFINE s == g.chains[b]
    <2>1. ChainOK(g, b, s) /\ s \in Seq(Addr)
        BY DEF HeapOK, Typed
    <2>2. ASSUME NEW n \in 1..Len(s) PROVE r.mem[s[n]] = g.mem[s[n]]
        BY <2>1 DEF InBins, ChainOK, IsChunk
    <2>3. r.chains[b] = s /\ r.fastbin = g.fastbin /\ r.room = g.room
        BY DEF SameHeap
    <2> HIDE DEF s
    <2>4. ChainOK(r, b, s)
        BY <2>1, <2>2, <2>3 DEF ChainOK, IsChunk
    <2> QED
        BY <2>3, <2>4
<1>4. NoTwice(r) /\ \A c \in Addr : InBins(r, c) <=> InBins(g, c)
    BY DEF HeapOK, NoTwice, InBins, SameHeap
<1>5. Roomy(g) => Roomy(r)
    BY DEF Roomy, SameHeap
<1> QED
    BY <1>1, <1>2, <1>3, <1>4, <1>5 DEF HeapOK, SameHeap

(* The words of two chunks are different words of memory.                  *)
LEMMA WordsApart ==
    ASSUME NEW g, HeapOK(g), NEW c \in Addr, IsChunk(g, c), NEW d \in Addr, IsChunk(g, d)
    PROVE  /\ g.room[c] \in {2, 4} /\ c \in Nat /\ c > 8
           /\ \A i \in 0..(g.room[c] + 1) : c + i \in Addr
           /\ c # d => \A i \in 0..(g.room[c] + 1), j \in 0..(g.room[d] + 1) : c + i # d + j
<1>1. /\ g.room[c] \in {2, 4} /\ PG_SIZE <= c /\ c + 2 + g.room[c] <= g.p_start
      /\ g.room[d] \in {2, 4} /\ PG_SIZE <= d /\ d + 2 + g.room[d] <= g.p_start
      /\ c < d => c + 2 + g.room[c] <= d
      /\ d < c => d + 2 + g.room[d] <= c
    BY Sizes DEF HeapOK, Shape, IsChunk
<1>2. c \in Nat /\ d \in Nat /\ PG_SIZE \in Nat /\ PG_SIZE > 8
    BY PageSizes
<1>3. g.p_start \in Nat /\ g.p_start <= (HeapPages + 1) * PG_SIZE /\ (HeapPages + 1) * PG_SIZE \in Nat
    <2>1. g.taken \in 0..HeapPages /\ g.p_start \in Nat /\ g.p_end \in Nat
        BY DEF HeapOK, Typed
    <2>2. (g.taken + 1) * PG_SIZE <= (HeapPages + 1) * PG_SIZE
        BY <2>1, PageSizes
    <2>3. (HeapPages + 1) * PG_SIZE \in Nat /\ (g.taken + 1) * PG_SIZE \in Nat
        BY <2>1, PageSizes
    <2>4. g.p_start = 0 \/ g.p_start < (g.taken + 1) * PG_SIZE
        BY <2>1 DEF HeapOK, Shape
    <2> QED
        BY <2>1, <2>2, <2>3, <2>4
<1>4. \A i \in 0..(g.room[c] + 1) : c + i \in Addr
    <2> DEFINE top == (HeapPages + 1) * PG_SIZE
    <2>1. Addr = 0..top /\ top \in Nat /\ g.p_start <= top /\ g.p_start \in Nat
        BY <1>3, PageSizes
    <2> HIDE DEF top
    <2> QED
        BY <1>1, <1>2, <2>1, SMTT(40)
<1> QED
    BY <1>1, <1>2, <1>4

-----------------------------------------------------------------------------
(* malloc() AND free()                                                     *)

(* malloc() of size words gave chunk x: it is large enough, was free or    *)
(* new, and nothing else moved.                                            *)
Got(g, size, x, r) ==
    /\ r.ret = x + 2 /\ HeapOK(r) /\ Roomy(r)
    /\ IsChunk(r, x) /\ r.room[x] >= size
    /\ ~ InBins(r, x) /\ (IsChunk(g, x) => InBins(g, x))
    /\ \A c \in Addr : g.room[c] > 0 => r.room[c] = g.room[c]
    /\ \A c \in Addr : InBins(r, c) => InBins(g, c)
    /\ r.mem = [g.mem EXCEPT ![x + 1] = size]

(* Where apply_alloc() puts a chunk of k words.                            *)
LEMMA Placed ==
    ASSUME NEW g, HeapOK(g), NEW k \in {4, 6}, NEW a, Extended(g, k, a), a.taken <= HeapPages
    PROVE  /\ a.taken \in 1..HeapPages /\ a.p_start \in Nat /\ a.p_end \in Nat /\ g.taken <= a.taken
           /\ a.p_end = (a.taken + 1) * PG_SIZE /\ a.p_end <= a.p_start + PG_SIZE
           /\ a.p_start < a.p_end /\ a.p_start = a.ret + k
           /\ a.ret \in Nat /\ PG_SIZE <= a.ret /\ g.p_start <= a.ret
           /\ a.taken * PG_SIZE <= a.ret /\ a.ret + k <= (a.taken + 1) * PG_SIZE
<1> DEFINE P == PG_SIZE
           t == g.taken
           T == t * P
<1>1. /\ P \in Nat /\ P > 8 /\ HeapPages \in Nat /\ t \in 0..HeapPages
      /\ g.p_start \in Nat /\ g.p_end \in Nat
    BY PageSizes DEF HeapOK, Typed
<1>2. T \in Nat /\ (t + 1) * P = T + P /\ (t + 1 + 1) * P = T + P + P
    <2>1. t \in Nat /\ t + 1 \in Nat
        BY <1>1
    <2> QED
        BY <2>1, PageSizes
<1>3. t > 0 => T >= P
    <2> SUFFICES ASSUME t > 0 PROVE T >= P
        OBVIOUS
    <2>1. PICK n \in Nat : t = n + 1
        <3>1. t - 1 \in Nat /\ t = (t - 1) + 1
            BY <1>1
        <3> QED
            BY <3>1
    <2>2. n * P \in Nat /\ (n + 1) * P = n * P + P
        BY <2>1, PageSizes
    <2> QED
        BY <1>1, <2>1, <2>2
<1>4. /\ t = 0 => g.p_start = 0 /\ g.p_end = 0
      /\ t > 0 => g.p_end = T + P /\ g.p_end <= g.p_start + P /\ g.p_start < g.p_end
    BY <1>2 DEF HeapOK, Shape
<1>5. a.p_start = a.ret + k
    BY DEF Extended
<1>6. CASE NeedsPage(g, k)
    <2>1. a.ret = T + P /\ a.p_end = a.ret + P /\ a.taken = t + 1
        BY <1>2, <1>6 DEF Extended
    <2>2. (a.taken + 1) * P = T + P + P /\ a.taken * P = T + P
        BY <1>2, <2>1
    <2> HIDE DEF T, P, t
    <2>3. /\ a.taken \in 1..HeapPages /\ t <= a.taken
        BY <1>1, <2>1
    <2>4. /\ a.p_end = T + P + P /\ a.p_end <= a.p_start + P /\ a.p_start < a.p_end
          /\ a.ret \in Nat /\ P <= a.ret /\ g.p_start <= a.ret
          /\ a.ret + k <= T + P + P /\ a.p_start \in Nat /\ a.p_end \in Nat
        BY <1>1, <1>2, <1>4, <1>5, <2>1
    <2> QED
        BY <1>5, <2>1, <2>2, <2>3, <2>4 DEF P, t
<1>7. CASE ~ NeedsPage(g, k)
    <2>1. a.ret = g.p_start /\ a.p_end = g.p_end /\ a.taken = t /\ ~ (g.p_start + k >= g.p_end)
        BY <1>7 DEF Extended, NeedsPage
    <2>2. (a.taken + 1) * P = T + P /\ a.taken * P = T
        BY <1>2, <2>1
    <2> HIDE DEF T, P, t
    <2>3. t > 0 /\ a.taken \in 1..HeapPages /\ t <= a.taken
        BY <1>1, <1>4, <2>1
    <2>4. /\ a.p_end = T + P /\ a.p_end <= a.p_start + P /\ a.p_start < a.p_end
          /\ a.ret \in Nat /\ P <= a.ret /\ g.p_start <= a.ret /\ T <= a.ret
          /\ a.ret + k <= T + P /\ a.p_start \in Nat /\ a.p_end \in Nat
        BY <1>1, <1>2, <1>3, <1>4, <1>5, <2>1, <2>3
    <2> QED
        BY <1>5, <2>1, <2>2, <2>3, <2>4 DEF P, t
<1> QED
    BY <1>6, <1>7

LEMMA EmptyChain ==
    ASSUME NEW g, HeapOK(g), NEW b \in Bins, g.fastbin[b] \in Ends
    PROVE  g.chains[b] = <<>>
<1> DEFINE s == g.chains[b]
<1>1. ChainOK(g, b, s) /\ s \in Seq(Addr)
    BY DEF HeapOK, Typed
<1> HIDE DEF s
<1>2. Len(s) \in Nat /\ (s = <<>> <=> Len(s) = 0)
    BY <1>1, Around
<1>3. ASSUME Len(s) >= 1 PROVE FALSE
    <2>1. g.fastbin[b] = s[1] /\ IsChunk(g, s[1])
        BY <1>1, <1>2, <1>3 DEF ChainOK, PointsTo
    <2>2. s[1] > 8 /\ s[1] \in Nat
        BY <2>1, WordsApart DEF IsChunk
    <2> QED
        BY <2>1, <2>2, Sizes DEF Ends
<1> QED
    BY <1>2, <1>3 DEF s

LEMMA FreshChunk ==
    ASSUME NEW g, HeapOK(g), NEW size \in {2, 3, 4}, g.fastbin[BinOf(size)] = Null,
           size # 2 => Roomy(g), NEW r, r = malloc(g, size), r.taken <= HeapPages
    PROVE  \E x \in Addr : Got(g, size, x, r)
<1>1. PICK a : Fresh(g, size, a, r)
    BY FreshFields DEF HeapOK, Typed
<1>2. PICK k \in {4, 6} : k = Fix(size) + 2 /\ Fix(size) \in {2, 4} /\ Fix(size) >= size
    BY Sizes
<1>3. PICK f \in {2, 4} : f = Fix(size) /\ f >= size /\ k = f + 2
    BY <1>2
<1>4. PICK x : x = a.ret
    OBVIOUS
<1>5. Extended(g, k, a) /\ a.taken = r.taken
    BY <1>1, <1>2, Sizes DEF Fresh
<1>6. /\ r.taken \in 1..HeapPages /\ r.p_start \in Nat /\ r.p_end \in Nat /\ g.taken <= r.taken
      /\ r.p_end = (r.taken + 1) * PG_SIZE /\ r.p_end <= r.p_start + PG_SIZE
      /\ r.p_start < r.p_end /\ r.p_start = x + k
      /\ x \in Nat /\ PG_SIZE <= x /\ g.p_start <= x
      /\ r.taken * PG_SIZE <= x /\ x + k <= (r.taken + 1) * PG_SIZE
    <2>1. r.p_start = a.p_start /\ r.p_end = a.p_end
        BY <1>1 DEF Fresh
    <2> QED
        BY <1>4, <1>5, <2>1, Placed
<1>7. Addr \subseteq Nat /\ \A i \in 0..k : x + i \in Addr
    <2> DEFINE top == (HeapPages + 1) * PG_SIZE
               here == (r.taken + 1) * PG_SIZE
    <2>1. r.taken \in 0..HeapPages
        BY <1>6
    <2>2. here <= top /\ top \in Nat /\ Addr = 0..top
        BY <2>1, PageSizes
    <2>3. here \in Nat /\ x + k <= here /\ x \in Nat
        BY <1>6, <2>1, PageSizes
    <2> HIDE DEF top, here
    <2> QED
        BY <2>2, <2>3
<1>8. x \in Addr /\ x + 1 \in Addr
    BY <1>6, <1>7
<1>9. \A c \in Addr : g.room[c] > 0 =>
            /\ g.room[c] \in {2, 4} /\ PG_SIZE <= c
            /\ c + 2 + g.room[c] <= g.p_start /\ InPage(g, c)
    BY Sizes DEF HeapOK, Shape
<1>10. /\ DOMAIN r = Fields /\ r.fastbin = g.fastbin /\ r.chains = g.chains
       /\ r.mem = [g.mem EXCEPT ![x + 1] = size] /\ r.room = [g.room EXCEPT ![x] = f]
       /\ r.ret = x + 2 /\ r.foreign = g.foreign
       /\ r.small = IF r.room[x] < size THEN 1 ELSE g.small
    BY <1>1, <1>3, <1>4, Sizes DEF Fresh
<1>11. /\ g.mem \in [Addr -> Int] /\ g.room \in [Addr -> Nat] /\ g.fastbin \in [Bins -> Int]
       /\ g.chains \in [Bins -> Seq(Addr)] /\ g.p_start \in Nat /\ g.taken \in 0..HeapPages
    BY DEF HeapOK, Typed
<1>12. g.room[x] = 0
    <2>1. g.room[x] \in Nat
        BY <1>8, <1>11
    <2>2. ~ (g.room[x] > 0)
        BY <1>6, <1>8, <1>9, <1>11
    <2> QED
        BY <2>1, <2>2
<1>13. r.room[x] = f /\ \A c \in Addr \ {x} : r.room[c] = g.room[c]
    BY <1>8, <1>10, <1>11
<1>14. Typed(r)
    <2>1. size \in Int /\ f \in Nat
        OBVIOUS
    <2>2. r.mem \in [Addr -> Int] /\ r.room \in [Addr -> Nat]
        BY <1>8, <1>10, <1>11, <2>1
    <2>3. r.taken \in 0..HeapPages /\ r.p_start \in Nat /\ r.p_end \in Nat
        BY <1>6
    <2> QED
        BY <1>10, <1>11, <2>2, <2>3 DEF Typed
<1>15. Shape(r)
    <2>1. r.taken > 0
        BY <1>6
    <2>2. ASSUME NEW c \in Addr, r.room[c] > 0
          PROVE  /\ r.room[c] \in {2, 4} /\ PG_SIZE <= c
                 /\ c + 2 + r.room[c] <= r.p_start /\ InPage(r, c)
        <3>1. CASE c = x
            <4>1. r.taken \in 1..r.taken
                BY <1>6
            <4>2. r.taken * PG_SIZE <= c /\ c + 2 + r.room[c] <= (r.taken + 1) * PG_SIZE
                BY <1>3, <1>6, <1>13, <3>1
            <4>3. InPage(r, c)
                BY <4>1, <4>2, Sizes DEF InPage
            <4> QED
                BY <1>3, <1>6, <1>13, <3>1, <4>3
        <3>2. CASE c # x
            <4>1. r.room[c] = g.room[c]
                BY <1>13, <3>2
            <4>2. PICK page \in 1..g.taken :
                        page * PG_SIZE <= c /\ c + 2 + g.room[c] <= (page + 1) * PG_SIZE
                BY <1>9, <2>2, <4>1, Sizes DEF InPage
            <4>3. page \in 1..r.taken
                BY <1>6, <1>11
            <4>4. InPage(r, c)
                BY <4>1, <4>2, <4>3, Sizes DEF InPage
            <4>5. g.p_start <= r.p_start
                BY <1>6, <1>11
            <4>6. /\ g.room[c] \in {2, 4} /\ PG_SIZE <= c /\ c + 2 + g.room[c] <= g.p_start
                BY <1>9, <2>2, <4>1
            <4> QED
                BY <1>6, <1>7, <1>11, <4>1, <4>4, <4>5, <4>6
        <3> QED
            BY <3>1, <3>2
    <2>3. ASSUME NEW c \in Addr, NEW d \in Addr, r.room[c] > 0, r.room[d] > 0, c < d
          PROVE  c + 2 + r.room[c] <= d
        <3>1. CASE c # x /\ d # x
            BY <1>13, <2>3, <3>1, Sizes DEF HeapOK, Shape
        <3>2. CASE d = x
            <4>1. c # x /\ c \in Nat
                BY <1>7, <2>3, <3>2
            <4>2. r.room[c] = g.room[c] /\ c + 2 + g.room[c] <= g.p_start /\ g.room[c] \in {2, 4}
                BY <1>9, <1>13, <2>3, <4>1
            <4> QED
                BY <1>6, <1>11, <3>2, <4>1, <4>2
        <3>3. CASE c = x /\ d # x
            <4>1. r.room[d] = g.room[d] /\ d + 2 + g.room[d] <= g.p_start /\ g.room[d] \in {2, 4}
                BY <1>9, <1>13, <2>3, <3>3
            <4> QED
                BY <1>6, <1>7, <1>11, <2>3, <3>3, <4>1
        <3> QED
            BY <3>1, <3>2, <3>3
    <2> QED
        BY <1>6, <2>1, <2>2, <2>3, Sizes DEF Shape
<1>16. ASSUME NEW c \in Addr, g.room[c] > 0
       PROVE  c # x /\ r.room[c] = g.room[c] /\ r.mem[c] = g.mem[c]
    <2>1. c # x /\ c # x + 1
        BY <1>6, <1>7, <1>9, <1>11, <1>12, <1>16
    <2> QED
        BY <1>8, <1>10, <1>11, <1>13, <2>1
<1>17. ASSUME NEW b \in Bins PROVE ChainOK(r, b, r.chains[b])
    <2> DEFINE s == g.chains[b]
    <2>1. ChainOK(g, b, s) /\ r.chains[b] = s /\ r.fastbin = g.fastbin
        BY <1>10 DEF HeapOK
    <2> HIDE DEF s
    <2>2. ChainOK(r, b, s)
        BY <1>16, <2>1, SMTT(40) DEF ChainOK, IsChunk
    <2> QED
        BY <2>1, <2>2
<1>18. NoTwice(r) /\ \A c \in Addr : InBins(r, c) <=> InBins(g, c)
    BY <1>10 DEF HeapOK, NoTwice, InBins
<1>19. r.small = 0 /\ r.foreign = 0
    BY <1>3, <1>10, <1>13 DEF HeapOK
<1>20. HeapOK(r)
    BY <1>14, <1>15, <1>17, <1>18, <1>19 DEF HeapOK
<1>21. Roomy(r)
    <2>1. CASE size = 4
        <3>1. Roomy(g)
            BY <2>1
        <3>2. ASSUME NEW n \in 1..Len(g.chains[1]) PROVE IsChunk(g, g.chains[1][n])
            <4>1. 1 \in Bins
                BY Sizes
            <4>2. ChainOK(g, 1, g.chains[1])
                BY <4>1 DEF HeapOK
            <4> QED
                BY <4>2 DEF ChainOK
        <3>3. ASSUME NEW n \in 1..Len(g.chains[1]) PROVE r.room[g.chains[1][n]] = 4
            BY <1>16, <3>1, <3>2 DEF Roomy, IsChunk
        <3> QED
            BY <1>10, <3>3 DEF Roomy
    <2>2. CASE size # 4
        <3>1. BinOf(size) = 1 /\ 1 \in Bins
            BY <2>2, Sizes
        <3>2. g.chains[1] = <<>>
            BY <3>1, EmptyChain DEF Ends
        <3>3. r.chains[1] = <<>>
            BY <1>10, <3>2
        <3> QED
            BY <3>3 DEF Roomy
    <2> QED
        BY <2>1, <2>2
<1>22. ~ InBins(g, x)
    BY <1>8, <1>12 DEF InBins, HeapOK, ChainOK, IsChunk
<1>23. Got(g, size, x, r)
    <2>1. IsChunk(r, x) /\ r.room[x] >= size /\ ~ IsChunk(g, x)
        BY <1>3, <1>8, <1>12, <1>13 DEF IsChunk
    <2> QED
        BY <1>8, <1>10, <1>16, <1>18, <1>20, <1>21, <1>22, <2>1 DEF Got
<1> QED
    BY <1>8, <1>23

LEMMA ReusedChunk ==
    ASSUME NEW g, HeapOK(g), NEW size \in {2, 3, 4}, g.fastbin[BinOf(size)] \notin Ends,
           size # 2 => Roomy(g), NEW r, r = malloc(g, size)
    PROVE  \E x \in Addr : Got(g, size, x, r)
<1>1. PICK b \in {1, 2} : b = BinOf(size) /\ (size = 4 <=> b = 2)
    BY Sizes
<1>2. PICK x : x = g.fastbin[b]
    OBVIOUS
<1>3. PICK s : s = g.chains[b]
    OBVIOUS
<1>4. b \in Bins /\ 1 \in Bins /\ 2 \in Bins
    BY <1>1, Sizes
<1>5. Reused(g, size, b, x, r)
    BY <1>1, <1>2, ReuseFields DEF HeapOK, Typed, Ends
<1>6. /\ g.mem \in [Addr -> Int] /\ g.room \in [Addr -> Nat] /\ g.fastbin \in [Bins -> Int]
      /\ g.chains \in [Bins -> Seq(Addr)] /\ g.p_start \in Nat /\ g.p_end \in Nat
      /\ g.taken \in 0..HeapPages
    BY DEF HeapOK, Typed
<1>7. /\ DOMAIN r = Fields /\ r.mem = [g.mem EXCEPT ![x + 1] = size]
      /\ r.fastbin = [g.fastbin EXCEPT ![b] = g.mem[x]]
      /\ r.chains = [g.chains EXCEPT ![b] = Rest(s)]
      /\ r.p_start = g.p_start /\ r.p_end = g.p_end /\ r.taken = g.taken
      /\ r.ret = x + 2 /\ r.room = g.room
      /\ r.small = (IF g.room[x] < size THEN 1 ELSE g.small) /\ r.foreign = g.foreign
    BY <1>3, <1>5, Sizes DEF Reused
<1>8. s \in Seq(Addr) /\ ChainOK(g, b, s)
    BY <1>3, <1>4, <1>6 DEF HeapOK
<1>9. Len(s) \in Nat /\ (s = <<>> <=> Len(s) = 0)
    BY <1>8, Around
<1>10. Len(s) >= 1 /\ x = s[1]
    BY <1>1, <1>2, <1>8, <1>9 DEF ChainOK, PointsTo
<1>11. /\ Rest(s) \in Seq(Addr) /\ Len(Rest(s)) = Len(s) - 1
       /\ \A n \in 1..(Len(s) - 1) : Rest(s)[n] = s[n + 1]
    BY <1>8, <1>9, <1>10, RestOf
<1>12. IsChunk(g, x) /\ PointsTo(g.mem[x], s, 2, Ends) /\ (b = 2 => g.room[x] = 4)
    BY <1>8, <1>9, <1>10 DEF ChainOK
<1>13. x \in Addr /\ x \in Nat /\ g.room[x] \in {2, 4} /\ x + 1 \in Addr
    <2>1. x \in Addr
        BY <1>12 DEF IsChunk
    <2>2. g.room[x] \in {2, 4} /\ x \in Nat /\ \A i \in 0..(g.room[x] + 1) : x + i \in Addr
        BY <1>12, <2>1, WordsApart
    <2>3. 1 \in 0..(g.room[x] + 1)
        BY <2>2
    <2> QED
        BY <2>1, <2>2, <2>3
<1>14. \A c \in Addr : g.room[c] > 0 => r.mem[c] = g.mem[c]
    <2> SUFFICES ASSUME NEW c \in Addr, g.room[c] > 0 PROVE c # x + 1
        BY <1>6, <1>7, <1>13
    <2>1. CASE c = x
        BY <1>13, <2>1
    <2>2. CASE c # x
        <3>1. /\ g.room[c] \in {2, 4} /\ c \in Nat
              /\ \A i \in 0..(g.room[c] + 1), j \in 0..(g.room[x] + 1) : c + i # x + j
            BY <1>12, <1>13, <2>2, WordsApart DEF IsChunk
        <3>2. 0 \in 0..(g.room[c] + 1) /\ 1 \in 0..(g.room[x] + 1)
            BY <1>13, <3>1
        <3>3. c + 0 # x + 1
            BY <3>1, <3>2
        <3> QED
            BY <3>1, <3>3
    <2> QED
        BY <2>1, <2>2
<1>15. Typed(r)
    <2>1. r.mem \in [Addr -> Int] /\ g.mem[x] \in Int
        BY <1>6, <1>7, <1>13
    <2>2. r.fastbin \in [Bins -> Int]
        BY <1>4, <1>6, <1>7, <2>1
    <2>3. r.chains \in [Bins -> Seq(Addr)]
        <3>1. PICK t \in Seq(Addr) : t = Rest(s)
            BY <1>11
        <3>2. r.chains = [g.chains EXCEPT ![b] = t]
            BY <1>7, <3>1
        <3> QED
            BY <1>4, <1>6, <3>2
    <2> QED
        BY <1>6, <1>7, <2>1, <2>2, <2>3 DEF Typed
<1>16. Shape(r)
    BY <1>7 DEF HeapOK, Shape, InPage
<1>17. ASSUME NEW c \in Bins PROVE ChainOK(r, c, r.chains[c])
    <2>1. CASE c # b
        <3> DEFINE t == g.chains[c]
        <3>1. ChainOK(g, c, t) /\ r.chains[c] = t /\ r.fastbin[c] = g.fastbin[c]
            BY <1>4, <1>6, <1>7, <2>1 DEF HeapOK
        <3> HIDE DEF t
        <3>2. ChainOK(r, c, t)
            BY <1>7, <1>14, <3>1 DEF ChainOK, IsChunk
        <3> QED
            BY <3>1, <3>2
    <2>2. CASE c = b
        <3>1. PICK t : t = Rest(s)
            OBVIOUS
        <3>2. r.chains[c] = t /\ r.fastbin[c] = g.mem[x]
            BY <1>4, <1>6, <1>7, <2>2, <3>1
        <3>3. Len(t) = Len(s) - 1 /\ \A n \in 1..(Len(s) - 1) : t[n] = s[n + 1]
            BY <1>11, <3>1
        <3>4. PointsTo(r.fastbin[c], t, 1, Ends)
            BY <1>9, <1>12, <3>2, <3>3 DEF PointsTo
        <3>5. ASSUME NEW n \in 1..Len(t)
              PROVE  IsChunk(r, t[n]) /\ PointsTo(r.mem[t[n]], t, n + 1, Ends) /\ r.room[t[n]] = 4
            <4>1. t[n] = s[n + 1] /\ n + 1 \in 1..Len(s) /\ n + 1 > 1
                BY <1>9, <3>3
            <4>2. /\ IsChunk(g, s[n + 1]) /\ PointsTo(g.mem[s[n + 1]], s, n + 1 + 1, Ends)
                  /\ g.room[s[n + 1]] = 4
                BY <1>8, <4>1 DEF ChainOK
            <4>3. r.mem[t[n]] = g.mem[t[n]] /\ IsChunk(r, t[n])
                BY <1>7, <1>14, <4>1, <4>2 DEF IsChunk
            <4>4. PointsTo(g.mem[s[n + 1]], t, n + 1, Ends)
                <5>1. n + 1 > Len(t) <=> n + 1 + 1 > Len(s)
                    BY <1>9, <3>3
                <5>2. n + 1 <= Len(t) => t[n + 1] = s[n + 1 + 1]
                    BY <1>9, <3>3
                <5> QED
                    BY <1>9, <3>3, <4>2, <5>1, <5>2 DEF PointsTo
            <4> QED
                BY <1>7, <4>1, <4>2, <4>3, <4>4
        <3>6. c \in {1, 2}
            BY <1>1, <2>2
        <3>7. ChainOK(r, c, t)
            BY <3>4, <3>5, <3>6 DEF ChainOK
        <3> QED
            BY <3>2, <3>7
    <2> QED
        BY <2>1, <2>2
<1> DEFINE sh(c) == IF c = b THEN 1 ELSE 0
<1>18. ASSUME NEW c \in Bins, NEW n \in 1..Len(r.chains[c])
       PROVE  n + sh(c) \in 1..Len(g.chains[c]) /\ r.chains[c][n] = g.chains[c][n + sh(c)]
    <2>1. CASE c # b
        <3>1. r.chains[c] = g.chains[c] /\ sh(c) = 0
            BY <1>4, <1>6, <1>7, <2>1
        <3> QED
            BY <3>1
    <2>2. CASE c = b
        <3>1. r.chains[c] = Rest(s) /\ sh(c) = 1 /\ g.chains[c] = s
            BY <1>3, <1>4, <1>6, <1>7, <2>2
        <3>2. n \in 1..(Len(s) - 1)
            BY <1>11, <3>1
        <3>3. n + 1 \in 1..Len(s) /\ Rest(s)[n] = s[n + 1]
            BY <1>9, <1>11, <3>2
        <3> QED
            BY <3>1, <3>3
    <2> QED
        BY <2>1, <2>2
<1>19. \A c \in Bins : sh(c) \in {0, 1} /\ (c = b => sh(c) = 1)
    OBVIOUS
<1> HIDE DEF sh
<1>20. NoTwice(r)
    <2> SUFFICES ASSUME NEW c \in Bins, NEW d \in Bins,
                        NEW n \in 1..Len(r.chains[c]), NEW m \in 1..Len(r.chains[d]),
                        r.chains[c][n] = r.chains[d][m]
                 PROVE  c = d /\ n = m
        BY DEF NoTwice
    <2>1. /\ n + sh(c) \in 1..Len(g.chains[c]) /\ m + sh(d) \in 1..Len(g.chains[d])
          /\ g.chains[c][n + sh(c)] = g.chains[d][m + sh(d)]
        BY <1>18
    <2>2. c = d /\ n + sh(c) = m + sh(d)
        BY <2>1, SMTT(40) DEF HeapOK, NoTwice
    <2>3. sh(c) \in {0, 1} /\ sh(d) = sh(c) /\ n \in Int /\ m \in Int
        BY <1>19, <2>2
    <2> QED
        BY <2>2, <2>3
<1>21. \A c \in Addr : InBins(r, c) => InBins(g, c)
    BY <1>18, SMTT(40) DEF InBins
<1>22. InBins(g, x)
    BY <1>3, <1>4, <1>9, <1>10 DEF InBins
<1>23. ~ InBins(r, x)
    <2> SUFFICES ASSUME NEW c \in Bins, NEW n \in 1..Len(r.chains[c]), r.chains[c][n] = x PROVE FALSE
        BY DEF InBins
    <2>1. n + sh(c) \in 1..Len(g.chains[c]) /\ g.chains[c][n + sh(c)] = g.chains[b][1]
          /\ 1 \in 1..Len(g.chains[b])
        BY <1>3, <1>9, <1>10, <1>18
    <2>2. c = b /\ n + sh(c) = 1
        BY <1>4, <2>1 DEF HeapOK, NoTwice
    <2>3. sh(c) = 1 /\ n \in 1..Len(r.chains[c])
        BY <1>19, <2>2
    <2> QED
        BY <2>2, <2>3
<1>24. g.room[x] >= size
    <2>1. CASE size = 2
        BY <1>13, <2>1
    <2>2. CASE size = 3
        <3>1. b = 1 /\ Roomy(g)
            BY <1>1, <2>2
        <3>2. g.room[x] = 4
            BY <1>3, <1>9, <1>10, <3>1 DEF Roomy
        <3> QED
            BY <2>2, <3>2
    <2>3. CASE size = 4
        BY <1>1, <1>12, <2>3
    <2> QED
        BY <2>1, <2>2, <2>3
<1>25. r.small = 0 /\ r.foreign = 0
    BY <1>7, <1>13, <1>24 DEF HeapOK
<1>26. HeapOK(r)
    BY <1>15, <1>16, <1>17, <1>20, <1>25 DEF HeapOK
<1>27. Roomy(r)
    <2>1. CASE b = 1
        <3>1. r.chains[1] = Rest(s)
            BY <1>4, <1>6, <1>7, <2>1
        <3>2. ASSUME NEW n \in 1..Len(Rest(s)) PROVE r.room[Rest(s)[n]] = 4
            <4>1. Rest(s)[n] = s[n + 1] /\ n + 1 \in 1..Len(s) /\ n + 1 > 1
                BY <1>9, <1>11
            <4>2. g.room[s[n + 1]] = 4
                BY <1>8, <4>1 DEF ChainOK
            <4> QED
                BY <1>7, <4>1, <4>2
        <3> QED
            BY <3>1, <3>2 DEF Roomy
    <2>2. CASE b = 2
        <3>1. Roomy(g) /\ r.chains[1] = g.chains[1] /\ r.room = g.room
            BY <1>1, <1>4, <1>6, <1>7, <2>2
        <3> QED
            BY <3>1 DEF Roomy
    <2> QED
        BY <2>1, <2>2
<1>28. Got(g, size, x, r)
    <2>1. IsChunk(r, x) /\ r.room = g.room
        BY <1>7, <1>12 DEF IsChunk
    <2> QED
        BY <1>7, <1>21, <1>22, <1>23, <1>24, <1>26, <1>27, <2>1 DEF Got
<1> QED
    BY <1>13, <1>28

(* malloc() keeps the heap in order, unless it hands out foreign memory.   *)
LEMMA MallocGives ==
    ASSUME NEW g, HeapOK(g), NEW size \in {2, 3, 4}, size # 2 => Roomy(g),
           malloc(g, size).taken <= HeapPages, malloc(g, size).foreign = 0
    PROVE  \E x \in Addr : Got(g, size, x, malloc(g, size))
<1>1. PICK r : r = malloc(g, size)
    OBVIOUS
<1>2. DOMAIN g = Fields
    BY DEF HeapOK, Typed
<1>3. g.fastbin[BinOf(size)] # Foreign
    BY <1>2, MallocOnward
<1>4. \E x \in Addr : Got(g, size, x, r)
    BY <1>1, <1>3, FreshChunk, ReusedChunk DEF Ends
<1> QED
    BY <1>1, <1>4

(* free() of chunk x into bin b.                                           *)
Freed(g, b, x, r) ==
    /\ DOMAIN r = Fields
    /\ r.mem = [g.mem EXCEPT ![x] = g.fastbin[b]]
    /\ r.fastbin = [g.fastbin EXCEPT ![b] = x]
    /\ r.chains = [g.chains EXCEPT ![b] = <<x>> \o g.chains[b]]
    /\ r.p_start = g.p_start /\ r.p_end = g.p_end /\ r.taken = g.taken
    /\ r.room = g.room /\ r.small = g.small /\ r.foreign = g.foreign
LEMMA FreeFields ==
    ASSUME NEW g, DOMAIN g = Fields, NEW ptr, NEW r, r = free(g, ptr)
    PROVE  Freed(g, BinOf(g.mem[ptr - 2 + 1]), ptr - 2, r)
<1>x. PICK x : x = ptr - 2
    OBVIOUS
<1>b. PICK b : b = BinOf(g.mem[x + 1])
    OBVIOUS
<1>1. r = [g EXCEPT !.mem[x] = g.fastbin[b], !.fastbin[b] = x, !.chains[b] = <<x>> \o @]
    BY <1>x, <1>b, Sizes DEF free
<1>2. Freed(g, b, x, r)
    BY <1>1 DEF Freed, Fields
<1> QED
    BY <1>x, <1>b, <1>2

(* free() put chunk x into a bin, and nothing else moved.                  *)
Put(g, x, r) ==
    /\ HeapOK(r) /\ r.room = g.room /\ (g.room[x] = 4 => Roomy(r))
    /\ \A c \in Addr : InBins(r, c) => InBins(g, c) \/ c = x
    /\ \A c \in Addr \ {x} : r.mem[c] = g.mem[c]

LEMMA FreePuts ==
    ASSUME NEW g, HeapOK(g), Roomy(g), NEW x \in Addr, IsChunk(g, x), ~ InBins(g, x),
           g.mem[x + 1] \in {2, 3}, NEW r, r = free(g, x + 2)
    PROVE  Put(g, x, r)
<1>1. PICK s : s = g.chains[1]
    OBVIOUS
<1>2. /\ g.mem \in [Addr -> Int] /\ g.room \in [Addr -> Nat] /\ g.fastbin \in [Bins -> Int]
      /\ g.chains \in [Bins -> Seq(Addr)] /\ DOMAIN g = Fields /\ 1 \in Bins /\ x \in Nat
    <2>1. x \in Nat /\ 1 \in Bins
        BY PageSizes, Sizes
    <2> QED
        BY <2>1 DEF HeapOK, Typed
<1>3. Freed(g, 1, x, r)
    <2>1. x + 2 - 2 = x
        BY <1>2
    <2>2. BinOf(g.mem[x + 1]) = 1
        BY Sizes
    <2> QED
        BY <1>2, <2>1, <2>2, FreeFields
<1>4. s \in Seq(Addr) /\ ChainOK(g, 1, s)
    BY <1>1, <1>2 DEF HeapOK
<1>5. PICK t : t = <<x>> \o s
    OBVIOUS
<1>6. /\ t \in Seq(Addr) /\ Len(s) \in Nat /\ Len(t) = Len(s) + 1 /\ t[1] = x
      /\ \A n \in 1..Len(s) : t[n + 1] = s[n]
    BY <1>4, <1>5, ConsOf
<1>7. /\ DOMAIN r = Fields /\ r.mem = [g.mem EXCEPT ![x] = g.fastbin[1]]
      /\ r.fastbin = [g.fastbin EXCEPT ![1] = x] /\ r.chains = [g.chains EXCEPT ![1] = t]
      /\ r.p_start = g.p_start /\ r.p_end = g.p_end /\ r.taken = g.taken
      /\ r.room = g.room /\ r.small = g.small /\ r.foreign = g.foreign
    BY <1>1, <1>3, <1>5 DEF Freed
<1>8. r.chains[1] = t /\ \A b \in Bins \ {1} : r.chains[b] = g.chains[b]
    BY <1>2, <1>7
<1>9. r.mem[x] = g.fastbin[1] /\ \A c \in Addr \ {x} : r.mem[c] = g.mem[c]
    BY <1>2, <1>7
<1>10. Typed(r)
    <2>1. r.mem \in [Addr -> Int]
        <3>1. PICK f \in [Addr -> Int] : f = g.mem
            BY <1>2
        <3>2. g.fastbin[1] \in Int
            BY <1>2
        <3>3. r.mem = [f EXCEPT ![x] = g.fastbin[1]]
            BY <1>7, <3>1
        <3> QED
            BY <3>2, <3>3
    <2>2. r.fastbin \in [Bins -> Int]
        <3>1. PICK f \in [Bins -> Int] : f = g.fastbin
            BY <1>2
        <3>2. r.fastbin = [f EXCEPT ![1] = x] /\ x \in Int /\ 1 \in Bins
            BY <1>2, <1>7, <3>1
        <3> QED
            BY <3>2
    <2>3. r.chains \in [Bins -> Seq(Addr)]
        <3>1. PICK f \in [Bins -> Seq(Addr)] : f = g.chains
            BY <1>2
        <3>2. r.chains = [f EXCEPT ![1] = t] /\ t \in Seq(Addr) /\ 1 \in Bins
            BY <1>2, <1>6, <1>7, <3>1
        <3> QED
            BY <3>2
    <2> QED
        BY <1>7, <2>1, <2>2, <2>3 DEF HeapOK, Typed
<1>11. Shape(r)
    BY <1>7 DEF HeapOK, Shape, InPage
<1>12. ASSUME NEW b \in Bins PROVE ChainOK(r, b, r.chains[b])
    <2>1. CASE b # 1
        <3>1. PICK u : u = g.chains[b]
            OBVIOUS
        <3>2. ChainOK(g, b, u) /\ r.chains[b] = u /\ r.fastbin[b] = g.fastbin[b] /\ r.room = g.room
            BY <1>2, <1>7, <2>1, <3>1 DEF HeapOK
        <3>3. ASSUME NEW n \in 1..Len(u) PROVE r.mem[u[n]] = g.mem[u[n]]
            BY <1>9, <3>1, <3>2 DEF ChainOK, IsChunk, InBins
        <3>4. ChainOK(r, b, u)
            BY <3>2, <3>3 DEF ChainOK, IsChunk
        <3> QED
            BY <3>2, <3>4
    <2>2. CASE b = 1
        <3>1. r.chains[b] = t /\ r.fastbin[b] = x
            BY <1>2, <1>7, <2>2
        <3>2. PointsTo(r.fastbin[b], t, 1, Ends)
            BY <1>6, <3>1 DEF PointsTo
        <3>3. ASSUME NEW n \in 1..Len(t)
              PROVE  /\ IsChunk(r, t[n]) /\ PointsTo(r.mem[t[n]], t, n + 1, Ends)
                     /\ n > 1 => r.room[t[n]] = 4
            <4>1. CASE n = 1
                <5>1. PointsTo(g.fastbin[1], s, 1, Ends)
                    BY <1>4 DEF ChainOK
                <5>2. PointsTo(g.fastbin[1], t, 2, Ends)
                    <6>1. 2 > Len(t) <=> 1 > Len(s)
                        BY <1>6
                    <6>2. 1 <= Len(s) => t[2] = s[1]
                        BY <1>6
                    <6> QED
                        BY <1>6, <5>1, <6>1, <6>2 DEF PointsTo
                <5>3. IsChunk(r, x)
                    BY <1>7 DEF IsChunk
                <5> QED
                    BY <1>6, <1>9, <4>1, <5>2, <5>3
            <4>2. CASE n # 1
                <5>1. PICK m \in 1..Len(s) : n = m + 1
                    <6>1. n - 1 \in 1..Len(s) /\ n = (n - 1) + 1
                        BY <1>6, <4>2
                    <6> QED
                        BY <6>1
                <5>2. t[n] = s[m]
                    BY <1>6, <5>1
                <5>3. IsChunk(g, s[m]) /\ PointsTo(g.mem[s[m]], s, m + 1, Ends)
                    BY <1>4 DEF ChainOK
                <5>4. g.room[s[m]] = 4
                    BY <1>1 DEF Roomy
                <5>5. s[m] # x /\ s[m] \in Addr
                    BY <1>1, <1>2, <5>3 DEF InBins, IsChunk
                <5>6. r.mem[t[n]] = g.mem[s[m]]
                    BY <1>9, <5>2, <5>5
                <5>7. PointsTo(g.mem[s[m]], t, n + 1, Ends)
                    <6>1. n + 1 > Len(t) <=> m + 1 > Len(s)
                        BY <1>6, <5>1
                    <6>2. m + 1 <= Len(s) => t[n + 1] = s[m + 1]
                        BY <1>6, <5>1
                    <6> QED
                        BY <1>6, <5>3, <6>1, <6>2 DEF PointsTo
                <5> QED
                    BY <1>7, <5>2, <5>3, <5>4, <5>6, <5>7 DEF IsChunk
            <4> QED
                BY <4>1, <4>2
        <3>4. ChainOK(r, 1, t)
            BY <2>2, <3>2, <3>3 DEF ChainOK
        <3> QED
            BY <2>2, <3>1, <3>4
    <2> QED
        BY <2>1, <2>2
<1> DEFINE sh(b) == IF b = 1 THEN 1 ELSE 0
<1>13. ASSUME NEW b \in Bins, NEW n \in 1..Len(r.chains[b]), r.chains[b][n] # x
       PROVE  n - sh(b) \in 1..Len(g.chains[b]) /\ r.chains[b][n] = g.chains[b][n - sh(b)]
    <2>1. CASE b # 1
        <3>1. r.chains[b] = g.chains[b] /\ sh(b) = 0
            BY <1>8, <2>1
        <3> QED
            BY <3>1
    <2>2. CASE b = 1
        <3>1. n \in 1..(Len(s) + 1) /\ r.chains[b] = t /\ g.chains[b] = s
            BY <1>1, <1>6, <1>8, <2>2
        <3>2. n # 1
            BY <1>6, <1>13, <3>1
        <3>3. n - 1 \in 1..Len(s) /\ (n - 1) + 1 = n
            BY <1>6, <3>1, <3>2
        <3>4. t[n] = s[n - 1]
            BY <1>6, <3>3
        <3>5. sh(b) = 1
            BY <2>2
        <3> QED
            BY <3>1, <3>3, <3>4, <3>5
    <2> QED
        BY <2>1, <2>2
<1>14. \A b \in Bins : sh(b) \in {0, 1}
    OBVIOUS
<1> HIDE DEF sh
<1>15. ASSUME NEW b \in Bins, NEW n \in 1..Len(r.chains[b]), r.chains[b][n] = x
       PROVE  b = 1 /\ n = 1
    <2>1. CASE b # 1
        BY <1>8, <1>15, <2>1 DEF InBins
    <2>2. CASE b = 1 /\ n # 1
        <3>1. n \in 1..(Len(s) + 1) /\ r.chains[b] = t
            BY <1>6, <1>8, <2>2
        <3>2. n - 1 \in 1..Len(s) /\ (n - 1) + 1 = n
            BY <1>6, <2>2, <3>1
        <3>3. s[n - 1] = x
            BY <1>6, <1>15, <3>1, <3>2
        <3> QED
            BY <1>1, <1>2, <3>2, <3>3 DEF InBins
    <2> QED
        BY <2>1, <2>2
<1>16. NoTwice(r)
    <2> SUFFICES ASSUME NEW c \in Bins, NEW d \in Bins,
                        NEW n \in 1..Len(r.chains[c]), NEW m \in 1..Len(r.chains[d]),
                        r.chains[c][n] = r.chains[d][m]
                 PROVE  c = d /\ n = m
        BY DEF NoTwice
    <2>1. CASE r.chains[c][n] = x
        <3>1. c = 1 /\ n = 1
            BY <1>15, <2>1
        <3>2. d = 1 /\ m = 1
            BY <1>15, <2>1
        <3> QED
            BY <3>1, <3>2
    <2>2. CASE r.chains[c][n] # x
        <3>1. /\ n - sh(c) \in 1..Len(g.chains[c]) /\ m - sh(d) \in 1..Len(g.chains[d])
              /\ g.chains[c][n - sh(c)] = g.chains[d][m - sh(d)]
            BY <1>13, <2>2
        <3>2. c = d /\ n - sh(c) = m - sh(d)
            BY <3>1 DEF HeapOK, NoTwice
        <3>3. sh(c) \in {0, 1} /\ n \in Int /\ m \in Int /\ sh(d) = sh(c)
            BY <1>14, <3>2
        <3> QED
            BY <3>2, <3>3
    <2> QED
        BY <2>1, <2>2
<1>17. \A c \in Addr : InBins(r, c) => InBins(g, c) \/ c = x
    BY <1>13 DEF InBins
<1>18. HeapOK(r)
    BY <1>7, <1>10, <1>11, <1>12, <1>16 DEF HeapOK
<1>19. g.room[x] = 4 => Roomy(r)
    <2> SUFFICES ASSUME g.room[x] = 4, NEW n \in 1..Len(t) PROVE g.room[t[n]] = 4
        BY <1>7, <1>8 DEF Roomy
    <2>1. CASE n = 1
        BY <1>6, <2>1
    <2>2. CASE n # 1
        <3>1. n - 1 \in 1..Len(s) /\ (n - 1) + 1 = n
            BY <1>6, <2>2
        <3>2. t[n] = s[n - 1]
            BY <1>6, <3>1
        <3> QED
            BY <1>1, <3>1, <3>2 DEF Roomy
    <2> QED
        BY <2>1, <2>2
<1> QED
    BY <1>7, <1>9, <1>17, <1>18, <1>19 DEF Put

(* free() of what malloc() did not return only cuts off a bin.             *)
LEMMA ForeignKeeps ==
    ASSUME NEW g, HeapOK(g), NEW index \in {0, 1, 2}, NEW r, r = FreeForeign(g, index)
    PROVE  /\ HeapOK(r) /\ r.room = g.room /\ r.mem = g.mem /\ r.taken = g.taken
           /\ \A c \in Addr : InBins(r, c) => InBins(g, c)
<1>1. /\ g.fastbin \in [Bins -> Int] /\ g.chains \in [Bins -> Seq(Addr)] /\ DOMAIN g = Fields
      /\ index \in Bins
    BY Sizes DEF HeapOK, Typed
<1>2. /\ DOMAIN r = Fields /\ r.mem = g.mem /\ r.fastbin = [g.fastbin EXCEPT ![index] = Foreign]
      /\ r.chains = [g.chains EXCEPT ![index] = <<>>]
      /\ r.p_start = g.p_start /\ r.p_end = g.p_end /\ r.taken = g.taken
      /\ r.room = g.room /\ r.small = g.small /\ r.foreign = g.foreign
    BY <1>1 DEF FreeForeign, Fields
<1>3. /\ r.fastbin[index] = Foreign /\ r.chains[index] = <<>>
      /\ \A b \in Bins \ {index} : r.fastbin[b] = g.fastbin[b] /\ r.chains[b] = g.chains[b]
    BY <1>1, <1>2
<1>4. Typed(r)
    <2>1. r.fastbin \in [Bins -> Int]
        <3>1. PICK f \in [Bins -> Int] : f = g.fastbin
            BY <1>1
        <3>2. r.fastbin = [f EXCEPT ![index] = Foreign] /\ Foreign \in Int
            BY <1>2, <3>1, Sizes
        <3> QED
            BY <1>1, <3>2
    <2>2. r.chains \in [Bins -> Seq(Addr)]
        <3>1. PICK f \in [Bins -> Seq(Addr)] : f = g.chains
            BY <1>1
        <3>2. PICK e \in Seq(Addr) : e = <<>>
            BY EmptySeq
        <3>3. r.chains = [f EXCEPT ![index] = e]
            BY <1>2, <3>1, <3>2
        <3> QED
            BY <1>1, <3>3
    <2> QED
        BY <1>2, <2>1, <2>2 DEF HeapOK, Typed
<1>5. Shape(r)
    BY <1>2 DEF HeapOK, Shape, InPage
<1>6. ASSUME NEW b \in Bins PROVE ChainOK(r, b, r.chains[b])
    <2>1. CASE b = index
        <3>1. Len(r.chains[b]) = 0 /\ r.chains[b] = <<>>
            BY <1>3, <2>1, EmptySeq
        <3> QED
            BY <1>3, <2>1, <3>1 DEF ChainOK, PointsTo, Ends
    <2>2. CASE b # index
        <3>1. PICK u : u = g.chains[b]
            OBVIOUS
        <3>2. ChainOK(g, b, u) /\ r.chains[b] = u /\ r.fastbin[b] = g.fastbin[b]
            BY <1>3, <2>2, <3>1 DEF HeapOK
        <3>3. ChainOK(r, b, u)
            BY <1>2, <3>2 DEF ChainOK, IsChunk
        <3> QED
            BY <3>2, <3>3
    <2> QED
        BY <2>1, <2>2
<1>7. ASSUME NEW b \in Bins, NEW n \in 1..Len(r.chains[b])
      PROVE  r.chains[b] = g.chains[b]
    <2>1. Len(<<>>) = 0
        BY EmptySeq
    <2>2. b # index
        BY <1>3, <2>1
    <2> QED
        BY <1>3, <2>2
<1>8. NoTwice(r)
    <2> SUFFICES ASSUME NEW b \in Bins, NEW c \in Bins,
                        NEW n \in 1..Len(r.chains[b]), NEW m \in 1..Len(r.chains[c]),
                        r.chains[b][n] = r.chains[c][m]
                 PROVE  b = c /\ n = m
        BY DEF NoTwice
    <2>1. r.chains[b] = g.chains[b] /\ r.chains[c] = g.chains[c]
        BY <1>7
    <2> QED
        BY <2>1 DEF HeapOK, NoTwice
<1>9. \A c \in Addr : InBins(r, c) => InBins(g, c)
    BY <1>7 DEF InBins
<1> QED
    BY <1>2, <1>4, <1>5, <1>6, <1>8, <1>9 DEF HeapOK

-----------------------------------------------------------------------------
(* CHUNKS IN USE                                                           *)

(* A chunk that nobody uses: free, or not yet made.                        *)
Unused(g, c) == IsChunk(g, c) => InBins(g, c)

(* On the way from g to r no chunk moved, and the ones in use were neither *)
(* freed nor written to, except perhaps those in D.                        *)
Calm(g, r, D) ==
    /\ \A c \in Addr : IsChunk(g, c) => r.room[c] = g.room[c]
    /\ \A c \in Addr : ~ Unused(g, c) /\ c \notin D =>
            /\ ~ InBins(r, c)
            /\ \A i \in 0..(g.room[c] + 1) : r.mem[c + i] = g.mem[c + i]

LEMMA CalmTwice ==
    ASSUME NEW g, NEW f, NEW r, NEW D, NEW E, Calm(g, f, D), Calm(f, r, E),
           \A c \in Addr : c \in E => c \in D \/ Unused(g, c)
    PROVE  Calm(g, r, D)
<1>1. ASSUME NEW c \in Addr, IsChunk(g, c) PROVE r.room[c] = g.room[c] /\ IsChunk(f, c)
    BY <1>1 DEF Calm, IsChunk
<1>2. ASSUME NEW c \in Addr, ~ Unused(g, c), c \notin D
      PROVE  ~ InBins(r, c) /\ \A i \in 0..(g.room[c] + 1) : r.mem[c + i] = g.mem[c + i]
    <2>1. IsChunk(g, c) /\ c \notin E
        BY <1>2 DEF Unused
    <2>2. IsChunk(f, c) /\ ~ InBins(f, c) /\ f.room[c] = g.room[c]
        BY <1>1, <1>2, <2>1 DEF Calm
    <2>3. ~ Unused(f, c)
        BY <2>2 DEF Unused
    <2>4. \A i \in 0..(g.room[c] + 1) : f.mem[c + i] = g.mem[c + i]
        BY <1>2 DEF Calm
    <2>5. ~ InBins(r, c) /\ \A i \in 0..(f.room[c] + 1) : r.mem[c + i] = f.mem[c + i]
        BY <2>1, <2>3 DEF Calm
    <2> QED
        BY <2>2, <2>4, <2>5
<1> QED
    BY <1>1, <1>2 DEF Calm

LEMMA GotCalm ==
    ASSUME NEW g, HeapOK(g), NEW size, NEW x \in Addr, NEW r, Got(g, size, x, r)
    PROVE  Calm(g, r, {}) /\ Unused(g, x) /\ r.mem[x + 1] = size
<1>1. HeapOK(r) /\ IsChunk(r, x) /\ r.mem = [g.mem EXCEPT ![x + 1] = size]
    BY DEF Got
<1>2. g.mem \in [Addr -> Int]
    BY DEF HeapOK, Typed
<1>3. /\ r.room[x] \in {2, 4} /\ x \in Nat /\ \A i \in 0..(r.room[x] + 1) : x + i \in Addr
    BY <1>1, WordsApart
<1>4. 1 \in 0..(r.room[x] + 1)
    BY <1>3
<1>5. x + 1 \in Addr
    BY <1>3, <1>4
<1>6. \A c \in Addr : IsChunk(g, c) => r.room[c] = g.room[c] /\ IsChunk(r, c)
    BY DEF Got, IsChunk
<1>7. ASSUME NEW c \in Addr, ~ Unused(g, c)
      PROVE  ~ InBins(r, c) /\ \A i \in 0..(g.room[c] + 1) : r.mem[c + i] = g.mem[c + i]
    <2>1. IsChunk(g, c) /\ ~ InBins(g, c) /\ c # x
        BY <1>7 DEF Unused, Got
    <2>2. IsChunk(r, c) /\ r.room[c] = g.room[c]
        BY <1>6, <2>1
    <2>3. /\ \A i \in 0..(r.room[c] + 1) : c + i \in Addr
          /\ \A i \in 0..(r.room[c] + 1), j \in 0..(r.room[x] + 1) : c + i # x + j
        BY <1>1, <2>1, <2>2, WordsApart
    <2>4. \A i \in 0..(g.room[c] + 1) : c + i \in Addr /\ c + i # x + 1
        BY <1>4, <2>2, <2>3
    <2>5. \A a \in Addr : a # x + 1 => r.mem[a] = g.mem[a]
        BY <1>1, <1>2
    <2>6. ~ InBins(r, c)
        BY <2>1 DEF Got
    <2> QED
        BY <2>4, <2>5, <2>6
<1>8. Calm(g, r, {})
    BY <1>6, <1>7 DEF Calm
<1>9. Unused(g, x)
    BY DEF Got, Unused
<1>10. r.mem[x + 1] = size
    BY <1>1, <1>2, <1>5
<1> QED
    BY <1>8, <1>9, <1>10

LEMMA PutCalm ==
    ASSUME NEW g, HeapOK(g), NEW x \in Addr, IsChunk(g, x), NEW r, Put(g, x, r)
    PROVE  Calm(g, r, {x})
<1>1. /\ r.room = g.room /\ \A c \in Addr : InBins(r, c) => InBins(g, c) \/ c = x
      /\ \A c \in Addr \ {x} : r.mem[c] = g.mem[c]
    BY DEF Put
<1>2. x \in Nat /\ 0 \in 0..(g.room[x] + 1) /\ x + 0 = x
    <2>1. x \in Nat /\ g.room[x] \in {2, 4}
        BY WordsApart
    <2> QED
        BY <2>1
<1>3. ASSUME NEW c \in Addr, ~ Unused(g, c), c # x
      PROVE  ~ InBins(r, c) /\ \A i \in 0..(g.room[c] + 1) : r.mem[c + i] = g.mem[c + i]
    <2>1. IsChunk(g, c) /\ ~ InBins(g, c)
        BY <1>3 DEF Unused
    <2>2. /\ \A i \in 0..(g.room[c] + 1) : c + i \in Addr
          /\ \A i \in 0..(g.room[c] + 1), j \in 0..(g.room[x] + 1) : c + i # x + j
        BY <1>3, <2>1, WordsApart
    <2>3. \A i \in 0..(g.room[c] + 1) : c + i \in Addr /\ c + i # x
        BY <1>2, <2>2
    <2> QED
        BY <1>1, <1>3, <2>1, <2>3
<1> QED
    BY <1>1, <1>3 DEF Calm

(* Stores into chunks of D, which are in use.                              *)
Stores(g, r, D) ==
    /\ SameHeap(g, r) /\ r.mem \in [Addr -> Int]
    /\ \A a \in Addr : r.mem[a] # g.mem[a] =>
            \E c \in D : /\ c \in Addr /\ ~ Unused(g, c)
                         /\ \E i \in 0..(g.room[c] + 1) : a = c + i

LEMMA StoresCalm ==
    ASSUME NEW g, HeapOK(g), NEW r, NEW D, Stores(g, r, D)
    PROVE  /\ HeapOK(r) /\ (Roomy(g) => Roomy(r)) /\ Calm(g, r, D)
           /\ \A c \in Addr : InBins(r, c) <=> InBins(g, c)
<1>1. r.room = g.room /\ r.mem \in [Addr -> Int] /\ SameHeap(g, r)
    BY DEF Stores, SameHeap
<1>2. ASSUME NEW c \in Addr, IsChunk(g, c), c \notin D \/ InBins(g, c),
             NEW i \in 0..(g.room[c] + 1)
      PROVE  r.mem[c + i] = g.mem[c + i]
    <2> SUFFICES ASSUME r.mem[c + i] # g.mem[c + i] PROVE FALSE
        OBVIOUS
    <2>1. c + i \in Addr
        BY <1>2, WordsApart
    <2>2. PICK d \in D : /\ d \in Addr /\ ~ Unused(g, d)
                         /\ \E j \in 0..(g.room[d] + 1) : c + i = d + j
        BY <2>1 DEF Stores
    <2>3. c # d /\ IsChunk(g, d)
        BY <1>2, <2>2 DEF Unused
    <2>4. \A j \in 0..(g.room[d] + 1) : c + i # d + j
        BY <1>2, <2>2, <2>3, WordsApart
    <2> QED
        BY <2>2, <2>4
<1>3. ASSUME NEW c \in Addr, InBins(g, c) PROVE r.mem[c] = g.mem[c]
    <2>1. IsChunk(g, c)
        BY <1>3 DEF InBins, HeapOK, ChainOK
    <2>2. g.room[c] \in {2, 4} /\ c \in Nat
        BY <2>1, WordsApart
    <2>3. 0 \in 0..(g.room[c] + 1) /\ c + 0 = c
        BY <2>2
    <2> QED
        BY <1>2, <1>3, <2>1, <2>3
<1>4. /\ HeapOK(r) /\ (Roomy(g) => Roomy(r))
      /\ \A c \in Addr : InBins(r, c) <=> InBins(g, c)
    BY <1>1, <1>3, StoreKeeps
<1>5. Calm(g, r, D)
    BY <1>1, <1>2, <1>4 DEF Calm, Unused
<1> QED
    BY <1>4, <1>5

-----------------------------------------------------------------------------
(* LISTS IN THE HEAP                                                       *)

(* The words of a chunk in use that a list reads, by the address that      *)
(* malloc() returned for it.                                               *)
LEMMA ChunkWords ==
    ASSUME NEW g, HeapOK(g), NEW a \in Addr, IsChunk(g, a - 2), NEW r, NEW D, Calm(g, r, D),
           ~ InBins(g, a - 2), a - 2 \notin D
    PROVE  /\ r.mem[a - 1] = g.mem[a - 1] /\ r.mem[a] = g.mem[a] /\ r.mem[a + 1] = g.mem[a + 1]
           /\ g.room[a - 2] = 4 => r.mem[a + 2] = g.mem[a + 2]
           /\ r.room[a - 2] = g.room[a - 2] /\ IsChunk(r, a - 2) /\ ~ InBins(r, a - 2)
<1>1. PICK c \in Addr : c = a - 2
    BY DEF IsChunk
<1>2. IsChunk(g, c) /\ ~ InBins(g, c) /\ c \notin D /\ ~ Unused(g, c)
    BY <1>1 DEF Unused
<1>3. g.room[c] \in {2, 4} /\ c \in Nat
    BY <1>2, WordsApart
<1>4. /\ r.room[c] = g.room[c] /\ ~ InBins(r, c)
      /\ \A i \in 0..(g.room[c] + 1) : r.mem[c + i] = g.mem[c + i]
    BY <1>2 DEF Calm
<1>5. a \in Nat
    BY PageSizes
<1>6. /\ 1 \in 0..(g.room[c] + 1) /\ 2 \in 0..(g.room[c] + 1) /\ 3 \in 0..(g.room[c] + 1)
      /\ g.room[c] = 4 => 4 \in 0..(g.room[c] + 1)
      /\ c + 1 = a - 1 /\ c + 2 = a /\ c + 3 = a + 1 /\ c + 4 = a + 2
    BY <1>1, <1>3, <1>5
<1>7. /\ r.mem[c + 1] = g.mem[c + 1] /\ r.mem[c + 2] = g.mem[c + 2] /\ r.mem[c + 3] = g.mem[c + 3]
      /\ g.room[c] = 4 => r.mem[c + 4] = g.mem[c + 4]
    BY <1>4, <1>6
<1>8. IsChunk(r, c)
    BY <1>2, <1>4 DEF IsChunk
<1> QED
    BY <1>1, <1>4, <1>6, <1>7, <1>8

LEMMA ListParts ==
    ASSUME NEW g, NEW list, NEW s, ListOK(g, list, s)
    PROVE  /\ list \in Addr /\ list - 2 \in Addr /\ InList(list, s, list - 2)
           /\ s \in Seq(Cells) /\ Len(s) \in Nat /\ (s = <<>> <=> Len(s) = 0)
           /\ \A n \in 1..Len(s) :
                 /\ s[n].elem \in Addr /\ s[n].elem - 2 \in Addr /\ InList(list, s, s[n].elem - 2)
                 /\ s[n].data \in Addr /\ s[n].data - 2 \in Addr /\ InList(list, s, s[n].data - 2)
           /\ \A c \in Addr : InList(list, s, c) => IsChunk(g, c)
<1>1. s \in Seq(Cells) /\ list \in Addr
    BY DEF ListOK
<1>2. Len(s) \in Nat /\ (s = <<>> <=> Len(s) = 0) /\ \A n \in 1..Len(s) : s[n] \in Cells
    BY <1>1, Around
<1>3. \A n \in 1..Len(s) : s[n].elem \in Addr /\ s[n].data \in Addr
    BY <1>2 DEF Cells
<1>4. list - 2 \in Addr /\ \A n \in 1..Len(s) : s[n].elem - 2 \in Addr /\ s[n].data - 2 \in Addr
    BY DEF ListOK, IsChunk
<1>5. /\ InList(list, s, list - 2)
      /\ \A n \in 1..Len(s) : InList(list, s, s[n].elem - 2) /\ InList(list, s, s[n].data - 2)
    BY DEF InList
<1>6. \A c \in Addr : InList(list, s, c) => IsChunk(g, c)
    BY DEF InList, ListOK
<1> QED
    BY <1>1, <1>2, <1>3, <1>4, <1>5, <1>6

(* A list whose chunks are left alone stays as it is.                      *)
LEMMA ListFrame ==
    ASSUME NEW g, HeapOK(g), NEW r, NEW D, Calm(g, r, D), NEW list, NEW s, ListOK(g, list, s),
           \A c \in Addr : InList(list, s, c) => ~ InBins(g, c) /\ c \notin D
    PROVE  ListOK(r, list, s) /\ \A c \in Addr : InList(list, s, c) => ~ InBins(r, c)
<1>1. list \in Addr /\ list - 2 \in Addr /\ InList(list, s, list - 2) /\ Len(s) \in Nat
    BY ListParts
<1>2. IsChunk(g, list - 2) /\ s \in Seq(Cells) /\ Apart(list, s) /\ Links(g, list, s)
    BY DEF ListOK
<1>3. IsChunk(r, list - 2) /\ r.mem[list] = g.mem[list] /\ r.mem[list + 1] = g.mem[list + 1]
    BY <1>1, <1>2, ChunkWords
<1>4. ASSUME NEW n \in 1..Len(s)
      PROVE  /\ IsChunk(r, s[n].elem - 2) /\ r.room[s[n].elem - 2] = 4
             /\ r.mem[s[n].elem - 1] = g.mem[s[n].elem - 1]
             /\ r.mem[s[n].elem + 1] = g.mem[s[n].elem + 1]
             /\ r.mem[s[n].elem + 2] = g.mem[s[n].elem + 2]
    <2>1. PICK e : e = s[n].elem
        OBVIOUS
    <2>2. e \in Addr /\ e - 2 \in Addr /\ InList(list, s, e - 2)
        BY <2>1, ListParts
    <2>3. IsChunk(g, e - 2) /\ g.room[e - 2] = 4
        BY <2>1 DEF ListOK
    <2>4. /\ r.mem[e - 1] = g.mem[e - 1] /\ r.mem[e + 1] = g.mem[e + 1] /\ r.mem[e + 2] = g.mem[e + 2]
          /\ r.room[e - 2] = 4 /\ IsChunk(r, e - 2)
        BY <2>2, <2>3, ChunkWords
    <2> QED
        BY <2>1, <2>4
<1>5. ASSUME NEW n \in 1..Len(s)
      PROVE  /\ IsChunk(r, s[n].data - 2) /\ r.room[s[n].data - 2] = 4
             /\ r.mem[s[n].data] = g.mem[s[n].data]
    <2>1. PICK e : e = s[n].data
        OBVIOUS
    <2>2. e \in Addr /\ e - 2 \in Addr /\ InList(list, s, e - 2)
        BY <2>1, ListParts
    <2>3. IsChunk(g, e - 2) /\ g.room[e - 2] = 4
        BY <2>1 DEF ListOK
    <2>4. r.mem[e] = g.mem[e] /\ r.room[e - 2] = 4 /\ IsChunk(r, e - 2)
        BY <2>2, <2>3, ChunkWords
    <2> QED
        BY <2>1, <2>4
<1>6. Links(r, list, s)
    BY <1>2, <1>3, <1>4, <1>5 DEF Links
<1>7. ListOK(r, list, s)
    BY <1>1, <1>2, <1>3, <1>4, <1>5, <1>6 DEF ListOK
<1>8. ASSUME NEW c \in Addr, InList(list, s, c) PROVE ~ InBins(r, c)
    <2>1. IsChunk(g, c)
        BY <1>8, ListParts
    <2> QED
        BY <1>8, <2>1 DEF Calm, Unused
<1> QED
    BY <1>7, <1>8

(* Chunks that no list uses may change.                                    *)
LEMMA AllKept ==
    ASSUME NEW g, NEW ls, NEW heads, NEW cells, AllOK(g, ls, heads, cells),
           NEW r, HeapOK(r), Calm(g, r, {})
    PROVE  AllOK(r, ls, heads, cells)
<1>1. ASSUME NEW l \in ls
      PROVE  /\ ListOK(r, heads[l], cells[l])
             /\ \A c \in Addr : InList(heads[l], cells[l], c) => ~ InBins(r, c)
    <2>1. PICK list, s : list = heads[l] /\ s = cells[l]
        OBVIOUS
    <2>2. HeapOK(g) /\ ListOK(g, list, s) /\ \A c \in Addr : InList(list, s, c) => ~ InBins(g, c)
        BY <2>1 DEF AllOK
    <2>3. ListOK(r, list, s) /\ \A c \in Addr : InList(list, s, c) => ~ InBins(r, c)
        BY <2>2, ListFrame
    <2> QED
        BY <2>1, <2>3
<1> QED
    BY <1>1 DEF AllOK

(* One list l changes, or is new; what it gains was used by no other.      *)
OnlyFor(g, ls, heads, cells, r, D, l, heads2, cells2) ==
    /\ \A k \in ls \ {l} : heads2[k] = heads[k] /\ cells2[k] = cells[k]
    /\ \A c \in Addr : c \in D => l \in ls /\ InList(heads[l], cells[l], c)
    /\ ListOK(r, heads2[l], cells2[l])
    /\ \A c \in Addr : InList(heads2[l], cells2[l], c) =>
            /\ ~ InBins(r, c)
            /\ Unused(g, c) \/ (l \in ls /\ InList(heads[l], cells[l], c))
LEMMA OneChanged ==
    ASSUME NEW g, NEW ls, NEW heads, NEW cells, AllOK(g, ls, heads, cells),
           NEW r, HeapOK(r), NEW D, Calm(g, r, D), NEW l, NEW heads2, NEW cells2,
           OnlyFor(g, ls, heads, cells, r, D, l, heads2, cells2)
    PROVE  AllOK(r, ls \union {l}, heads2, cells2)
<1> USE DEF OnlyFor
<1>1. ASSUME NEW k \in ls \ {l}
      PROVE  /\ ListOK(r, heads2[k], cells2[k])
             /\ \A c \in Addr : InList(heads2[k], cells2[k], c) => ~ InBins(r, c)
    <2>1. PICK list, s : list = heads[k] /\ s = cells[k]
        OBVIOUS
    <2>2. HeapOK(g) /\ ListOK(g, list, s) /\ \A c \in Addr : InList(list, s, c) => ~ InBins(g, c)
        BY <2>1 DEF AllOK
    <2>3. \A c \in Addr : InList(list, s, c) => c \notin D
        BY <2>1 DEF AllOK
    <2>4. ListOK(r, list, s) /\ \A c \in Addr : InList(list, s, c) => ~ InBins(r, c)
        BY <2>2, <2>3, ListFrame
    <2> QED
        BY <2>1, <2>4
<1>2. ASSUME NEW k \in ls \ {l}, NEW c \in Addr, InList(heads2[k], cells2[k], c)
      PROVE  ~ InList(heads2[l], cells2[l], c)
    <2>1. InList(heads[k], cells[k], c) /\ ListOK(g, heads[k], cells[k]) /\ ~ InBins(g, c)
        BY <1>2 DEF AllOK
    <2>2. IsChunk(g, c)
        BY <2>1, ListParts
    <2>3. ~ Unused(g, c)
        BY <2>1, <2>2 DEF Unused
    <2>4. l \in ls => ~ InList(heads[l], cells[l], c)
        BY <2>1 DEF AllOK
    <2> QED
        BY <2>3, <2>4
<1>3. ASSUME NEW k \in ls \ {l}, NEW m \in ls \ {l}, NEW c \in Addr,
             InList(heads2[k], cells2[k], c), InList(heads2[m], cells2[m], c)
      PROVE  k = m
    <2>1. InList(heads[k], cells[k], c) /\ InList(heads[m], cells[m], c)
        BY <1>3
    <2> QED
        BY <2>1 DEF AllOK
<1>4. \A k, m \in ls \union {l} : \A c \in Addr :
            InList(heads2[k], cells2[k], c) /\ InList(heads2[m], cells2[m], c) => k = m
    BY <1>2, <1>3
<1>5. \A k \in ls \union {l} :
        /\ ListOK(r, heads2[k], cells2[k])
        /\ \A c \in Addr : InList(heads2[k], cells2[k], c) => ~ InBins(r, c)
    BY <1>1
<1> QED
    BY <1>4, <1>5 DEF AllOK

(* Fewer lists, or the same under other names.                             *)
LEMMA Renamed ==
    ASSUME NEW g, NEW ls, NEW heads, NEW cells, AllOK(g, ls, heads, cells),
           NEW ls2, NEW heads2, NEW cells2, NEW was,
           \A k \in ls2 : /\ was[k] \in ls
                          /\ heads2[k] = heads[was[k]] /\ cells2[k] = cells[was[k]],
           \A k, m \in ls2 : was[k] = was[m] => k = m
    PROVE  AllOK(g, ls2, heads2, cells2)
BY DEF AllOK

-----------------------------------------------------------------------------
(* NEW LISTS, ELEMENTS AND MAPPINGS                                        *)

(* Chunk x was taken for size words, and filled in.                        *)
Made(g, size, x, r) ==
    /\ r.ret = x + 2 /\ HeapOK(r) /\ Roomy(r)
    /\ IsChunk(r, x) /\ r.room[x] >= size /\ ~ InBins(r, x)
    /\ Unused(g, x) /\ Calm(g, r, {})
    /\ \A c \in Addr : InBins(r, c) => InBins(g, c)
    /\ r.mem[x + 1] = size

LEMMA FilledIn ==
    ASSUME NEW g, HeapOK(g), NEW size, NEW x \in Addr, NEW n, Got(g, size, x, n),
           NEW r, Stores(n, r, {x}), r.ret = n.ret, r.mem[x + 1] = n.mem[x + 1]
    PROVE  Made(g, size, x, r)
<1>1. /\ n.ret = x + 2 /\ HeapOK(n) /\ Roomy(n) /\ IsChunk(n, x) /\ n.room[x] >= size
      /\ ~ InBins(n, x) /\ \A c \in Addr : InBins(n, c) => InBins(g, c)
    BY DEF Got
<1>2. Calm(g, n, {}) /\ Unused(g, x) /\ n.mem[x + 1] = size
    BY GotCalm
<1>3. /\ HeapOK(r) /\ Roomy(r) /\ Calm(n, r, {x}) /\ \A c \in Addr : InBins(r, c) <=> InBins(n, c)
    BY <1>1, StoresCalm
<1>4. Calm(g, r, {})
    BY <1>2, <1>3, CalmTwice
<1>5. r.room = n.room
    BY DEF Stores, SameHeap
<1> QED
    BY <1>1, <1>2, <1>3, <1>4, <1>5 DEF Made, IsChunk

(* The words of a new chunk.                                               *)
Roomed(size, x, n) ==
    /\ x \in Nat /\ n.ret = x + 2 /\ DOMAIN n = Fields /\ n.mem \in [Addr -> Int]
    /\ ~ Unused(n, x) /\ n.room[x] \in {2, 4} /\ (size > 2 => n.room[x] = 4)
    /\ x + 1 \in Addr /\ x + 2 \in Addr /\ x + 3 \in Addr
    /\ n.room[x] = 4 => x + 4 \in Addr /\ x + 5 \in Addr
LEMMA GotWords ==
    ASSUME NEW g, NEW size \in {2, 3, 4}, NEW x \in Addr, NEW n, Got(g, size, x, n)
    PROVE  Roomed(size, x, n)
<1>1. HeapOK(n) /\ IsChunk(n, x) /\ ~ InBins(n, x) /\ n.ret = x + 2 /\ n.room[x] >= size
    BY DEF Got
<1>2. n.room[x] \in {2, 4} /\ x \in Nat /\ \A i \in 0..(n.room[x] + 1) : x + i \in Addr
    BY <1>1, WordsApart
<1>3. /\ 1 \in 0..(n.room[x] + 1) /\ 2 \in 0..(n.room[x] + 1) /\ 3 \in 0..(n.room[x] + 1)
      /\ n.room[x] = 4 => 4 \in 0..(n.room[x] + 1) /\ 5 \in 0..(n.room[x] + 1)
    BY <1>2
<1>4. size > 2 => n.room[x] = 4
    BY <1>1, <1>2
<1>5. /\ x + 1 \in Addr /\ x + 2 \in Addr /\ x + 3 \in Addr
      /\ n.room[x] = 4 => x + 4 \in Addr /\ x + 5 \in Addr
    BY <1>2, <1>3
<1>6. ~ Unused(n, x) /\ DOMAIN n = Fields /\ n.mem \in [Addr -> Int]
    BY <1>1 DEF Unused, HeapOK, Typed
<1> QED
    BY <1>1, <1>2, <1>4, <1>5, <1>6 DEF Roomed

(* mlist_init(): an empty list.                                            *)
LEMMA InitFields ==
    ASSUME NEW g, DOMAIN g = Fields, NEW n, n = malloc(g, 2), NEW r, r = mlist_init(g)
    PROVE  /\ DOMAIN n = Fields /\ SameHeap(n, r) /\ r.ret = n.ret
           /\ r.mem = [[n.mem EXCEPT ![n.ret] = 0] EXCEPT ![n.ret + 1] = 0]
<1>1. r = [n EXCEPT !.mem[n.ret] = 0, !.mem[n.ret + 1] = 0]
    BY Sizes DEF mlist_init
<1>2. DOMAIN n = Fields
    BY MallocOnward DEF Onward
<1> QED
    BY <1>1, <1>2 DEF SameHeap, Fields

LEMMA InitMakes ==
    ASSUME NEW g, HeapOK(g), NEW r, r = mlist_init(g), r.taken <= HeapPages, r.foreign = 0
    PROVE  \E x \in Addr : /\ Made(g, 2, x, r) /\ ListOK(r, r.ret, <<>>)
                           /\ \A c \in Addr : InList(r.ret, <<>>, c) => c = x
<1>1. PICK n : n = malloc(g, 2)
    OBVIOUS
<1>2. DOMAIN g = Fields
    BY DEF HeapOK, Typed
<1>3. /\ SameHeap(n, r) /\ r.ret = n.ret
      /\ r.mem = [[n.mem EXCEPT ![n.ret] = 0] EXCEPT ![n.ret + 1] = 0]
    BY <1>1, <1>2, InitFields
<1>4. PICK x \in Addr : Got(g, 2, x, n)
    <2>1. n.taken <= HeapPages /\ n.foreign = 0
        BY <1>3 DEF SameHeap
    <2> QED
        BY <1>1, <2>1, MallocGives
<1>5. /\ x \in Nat /\ n.ret = x + 2 /\ n.mem \in [Addr -> Int]
      /\ ~ Unused(n, x) /\ n.room[x] \in {2, 4}
      /\ x + 1 \in Addr /\ x + 2 \in Addr /\ x + 3 \in Addr
    <2>1. 2 \in {2, 3, 4}
        OBVIOUS
    <2> QED
        <3>1. Roomed(2, x, n)
            BY <1>4, <2>1, GotWords
        <3> QED
            BY <3>1 DEF Roomed
<1>6. r.mem = [[n.mem EXCEPT ![x + 2] = 0] EXCEPT ![x + 3] = 0]
    BY <1>3, <1>5
<1>7. /\ r.mem \in [Addr -> Int] /\ r.mem[x + 2] = 0
      /\ \A a \in Addr : a # x + 2 /\ a # x + 3 => r.mem[a] = n.mem[a]
    BY <1>5, <1>6
<1>8. Stores(n, r, {x})
    <2>1. 2 \in 0..(n.room[x] + 1) /\ 3 \in 0..(n.room[x] + 1)
        BY <1>5
    <2> QED
        BY <1>3, <1>5, <1>7, <2>1 DEF Stores
<1>9. r.mem[x + 1] = n.mem[x + 1]
    BY <1>5, <1>7
<1>10. Made(g, 2, x, r)
    BY <1>3, <1>4, <1>8, <1>9, FilledIn
<1>11. Len(<<>>) = 0 /\ <<>> \in Seq(Cells) /\ 1..0 = {}
    BY EmptySeq
<1>12. r.ret = x + 2 /\ r.ret - 2 = x /\ IsChunk(r, x)
    BY <1>5, <1>10 DEF Made
<1>13. Links(r, r.ret, <<>>)
    BY <1>7, <1>11, <1>12, Sizes DEF Links, NextOf
<1>14. ListOK(r, r.ret, <<>>)
    BY <1>5, <1>11, <1>12, <1>13 DEF ListOK, Apart
<1>15. \A c \in Addr : InList(r.ret, <<>>, c) => c = x
    BY <1>11, <1>12 DEF InList
<1> QED
    BY <1>10, <1>14, <1>15

(* The lists are the same but for l, which has this head and these cells.  *)
Becoming(ls, heads, cells, l, head, s, heads2, cells2) ==
    /\ \A k \in ls \ {l} : heads2[k] = heads[k] /\ cells2[k] = cells[k]
    /\ heads2[l] = head /\ cells2[l] = s

(* A list is made for l, which had none.                                   *)
LEMMA ListAdded ==
    ASSUME NEW g, NEW ls, NEW heads, NEW cells, AllOK(g, ls, heads, cells),
           NEW r, r = mlist_init(g), r.taken <= HeapPages, r.foreign = 0,
           NEW l, l \notin ls, NEW heads2, NEW cells2,
           Becoming(ls, heads, cells, l, r.ret, <<>>, heads2, cells2)
    PROVE  AllOK(r, ls \union {l}, heads2, cells2) /\ Roomy(r)
<1> USE DEF Becoming
<1>1. HeapOK(g)
    BY DEF AllOK
<1>2. PICK x \in Addr : /\ Made(g, 2, x, r) /\ ListOK(r, r.ret, <<>>)
                        /\ \A c \in Addr : InList(r.ret, <<>>, c) => c = x
    BY <1>1, InitMakes
<1>3. HeapOK(r) /\ Roomy(r) /\ Calm(g, r, {}) /\ ~ InBins(r, x) /\ Unused(g, x)
    BY <1>2 DEF Made
<1>4. AllOK(r, ls \union {l}, heads2, cells2)
    <2>1. PICK D : D = {} /\ Calm(g, r, D)
        BY <1>3
    <2>2. \A k \in ls \ {l} : heads2[k] = heads[k] /\ cells2[k] = cells[k]
        OBVIOUS
    <2>3. \A c \in Addr : c \in D => l \in ls /\ InList(heads[l], cells[l], c)
        BY <2>1
    <2>4. ListOK(r, heads2[l], cells2[l])
        BY <1>2
    <2>5. \A c \in Addr : InList(heads2[l], cells2[l], c) =>
                /\ ~ InBins(r, c)
                /\ Unused(g, c) \/ (l \in ls /\ InList(heads[l], cells[l], c))
        BY <1>2, <1>3
    <2>6. OnlyFor(g, ls, heads, cells, r, D, l, heads2, cells2)
        BY <2>2, <2>3, <2>4, <2>5 DEF OnlyFor
    <2> QED
        BY <1>3, <2>1, <2>6, OneChanged
<1> QED
    BY <1>3, <1>4

(* new_mlist_elem().                                                       *)
LEMMA ElemFields ==
    ASSUME NEW g, DOMAIN g = Fields, NEW data, NEW n, n = malloc(g, 3),
           NEW r, r = new_mlist_elem(g, data)
    PROVE  /\ DOMAIN n = Fields /\ SameHeap(n, r) /\ r.ret = n.ret
           /\ r.mem = [[[n.mem EXCEPT ![n.ret] = 0] EXCEPT ![n.ret + 1] = 0]
                          EXCEPT ![n.ret + 2] = data]
<1>1. r = [n EXCEPT !.mem[n.ret] = 0, !.mem[n.ret + 1] = 0, !.mem[n.ret + 2] = data]
    BY Sizes DEF new_mlist_elem
<1>2. DOMAIN n = Fields
    BY MallocOnward DEF Onward
<1> QED
    BY <1>1, <1>2 DEF SameHeap, Fields

LEMMA ElemMakes ==
    ASSUME NEW g, HeapOK(g), Roomy(g), NEW data \in Int,
           NEW r, r = new_mlist_elem(g, data), r.taken <= HeapPages, r.foreign = 0
    PROVE  \E x \in Addr : /\ Made(g, 3, x, r) /\ r.room[x] = 4
                           /\ r.mem[x + 3] = 0 /\ r.mem[x + 4] = data
<1>1. PICK n : n = malloc(g, 3)
    OBVIOUS
<1>2. DOMAIN g = Fields
    BY DEF HeapOK, Typed
<1>3. /\ SameHeap(n, r) /\ r.ret = n.ret
      /\ r.mem = [[[n.mem EXCEPT ![n.ret] = 0] EXCEPT ![n.ret + 1] = 0]
                     EXCEPT ![n.ret + 2] = data]
    BY <1>1, <1>2, ElemFields
<1>4. PICK x \in Addr : Got(g, 3, x, n)
    <2>1. n.taken <= HeapPages /\ n.foreign = 0
        BY <1>3 DEF SameHeap
    <2> QED
        BY <1>1, <2>1, MallocGives
<1>5. /\ x \in Nat /\ n.ret = x + 2 /\ n.mem \in [Addr -> Int]
      /\ ~ Unused(n, x) /\ n.room[x] = 4
      /\ x + 1 \in Addr /\ x + 2 \in Addr /\ x + 3 \in Addr /\ x + 4 \in Addr
    <2>1. 3 \in {2, 3, 4}
        OBVIOUS
    <2>2. Roomed(3, x, n)
        BY <1>4, <2>1, GotWords
    <2> QED
        BY <2>2 DEF Roomed
<1>6. r.mem = [[[n.mem EXCEPT ![x + 2] = 0] EXCEPT ![x + 3] = 0] EXCEPT ![x + 4] = data]
    BY <1>3, <1>5
<1>7. /\ r.mem \in [Addr -> Int] /\ r.mem[x + 3] = 0 /\ r.mem[x + 4] = data
      /\ \A a \in Addr : a # x + 2 /\ a # x + 3 /\ a # x + 4 => r.mem[a] = n.mem[a]
    BY <1>5, <1>6
<1>8. Stores(n, r, {x})
    <2>1. /\ 2 \in 0..(n.room[x] + 1) /\ 3 \in 0..(n.room[x] + 1) /\ 4 \in 0..(n.room[x] + 1)
        BY <1>5
    <2> QED
        BY <1>3, <1>5, <1>7, <2>1 DEF Stores
<1>9. r.mem[x + 1] = n.mem[x + 1]
    BY <1>5, <1>7
<1>10. Made(g, 3, x, r)
    BY <1>3, <1>4, <1>8, <1>9, FilledIn
<1>11. r.room[x] = 4
    BY <1>3, <1>5 DEF SameHeap
<1> QED
    BY <1>7, <1>10, <1>11

(* The mapping in __proc_add_mapping(), before it is pushed.               *)
Mapping(g, pa) ==
    LET new == malloc(g, MappingSize)
    IN [new EXCEPT !.mem[new.ret] = pa, !.mem[new.ret + 1] = 0,
                   !.mem[new.ret + 2] = 0, !.mem[new.ret + 3] = 0]
LEMMA MappingFields ==
    ASSUME NEW g, DOMAIN g = Fields, NEW pa, NEW n, n = malloc(g, 4), NEW r, r = Mapping(g, pa)
    PROVE  /\ DOMAIN n = Fields /\ SameHeap(n, r) /\ r.ret = n.ret
           /\ r.mem = [[[[n.mem EXCEPT ![n.ret] = pa] EXCEPT ![n.ret + 1] = 0]
                          EXCEPT ![n.ret + 2] = 0] EXCEPT ![n.ret + 3] = 0]
<1>1. r = [n EXCEPT !.mem[n.ret] = pa, !.mem[n.ret + 1] = 0,
                    !.mem[n.ret + 2] = 0, !.mem[n.ret + 3] = 0]
    BY Sizes DEF Mapping
<1>2. DOMAIN n = Fields
    BY MallocOnward DEF Onward
<1> QED
    BY <1>1, <1>2 DEF SameHeap, Fields

LEMMA AddIsPush ==
    ASSUME NEW g, DOMAIN g = Fields, NEW list, NEW pa
    PROVE  add_mapping(g, list, pa) = mlist_push(Mapping(g, pa), list, Mapping(g, pa).ret)
<1>1. PICK n : n = malloc(g, 4)
    OBVIOUS
<1>2. PICK f : f = Mapping(g, pa)
    OBVIOUS
<1>3. DOMAIN n = Fields
    BY <1>1, MallocOnward DEF Onward
<1>4. f = [n EXCEPT !.mem[n.ret] = pa, !.mem[n.ret + 1] = 0,
                    !.mem[n.ret + 2] = 0, !.mem[n.ret + 3] = 0]
    BY <1>1, <1>2, Sizes DEF Mapping
<1>5. f.ret = n.ret
    BY <1>3, <1>4 DEF Fields
<1>6. add_mapping(g, list, pa) = mlist_push(f, list, n.ret)
    BY <1>1, <1>4, Sizes DEF add_mapping
<1> QED
    BY <1>2, <1>5, <1>6

LEMMA MappingMakes ==
    ASSUME NEW g, HeapOK(g), Roomy(g), NEW pa \in Int,
           NEW r, r = Mapping(g, pa), r.taken <= HeapPages, r.foreign = 0
    PROVE  \E x \in Addr : Made(g, 4, x, r) /\ r.room[x] = 4 /\ r.mem[x + 2] = pa
<1>1. PICK n : n = malloc(g, 4)
    OBVIOUS
<1>2. DOMAIN g = Fields
    BY DEF HeapOK, Typed
<1>3. /\ SameHeap(n, r) /\ r.ret = n.ret
      /\ r.mem = [[[[n.mem EXCEPT ![n.ret] = pa] EXCEPT ![n.ret + 1] = 0]
                     EXCEPT ![n.ret + 2] = 0] EXCEPT ![n.ret + 3] = 0]
    BY <1>1, <1>2, MappingFields
<1>4. PICK x \in Addr : Got(g, 4, x, n)
    <2>1. n.taken <= HeapPages /\ n.foreign = 0
        BY <1>3 DEF SameHeap
    <2> QED
        BY <1>1, <2>1, MallocGives
<1>5. /\ x \in Nat /\ n.ret = x + 2 /\ n.mem \in [Addr -> Int]
      /\ ~ Unused(n, x) /\ n.room[x] = 4 /\ x + 1 \in Addr /\ x + 2 \in Addr
      /\ x + 3 \in Addr /\ x + 4 \in Addr /\ x + 5 \in Addr
    <2>1. 4 \in {2, 3, 4}
        OBVIOUS
    <2>2. Roomed(4, x, n)
        BY <1>4, <2>1, GotWords
    <2> QED
        BY <2>2 DEF Roomed
<1>6. r.mem = [[[[n.mem EXCEPT ![x + 2] = pa] EXCEPT ![x + 3] = 0]
                   EXCEPT ![x + 4] = 0] EXCEPT ![x + 5] = 0]
    BY <1>3, <1>5
<1>7. /\ r.mem \in [Addr -> Int] /\ r.mem[x + 2] = pa
      /\ \A a \in Addr : a # x + 2 /\ a # x + 3 /\ a # x + 4 /\ a # x + 5 => r.mem[a] = n.mem[a]
    BY <1>5, <1>6
<1>8. Stores(n, r, {x})
    <2>1. /\ 2 \in 0..(n.room[x] + 1) /\ 3 \in 0..(n.room[x] + 1)
          /\ 4 \in 0..(n.room[x] + 1) /\ 5 \in 0..(n.room[x] + 1)
        BY <1>5
    <2> QED
        BY <1>3, <1>5, <1>7, <2>1 DEF Stores
<1>9. r.mem[x + 1] = n.mem[x + 1]
    BY <1>5, <1>7
<1>10. Made(g, 4, x, r)
    BY <1>3, <1>4, <1>8, <1>9, FilledIn
<1>11. r.room[x] = 4
    BY <1>3, <1>5 DEF SameHeap
<1> QED
    BY <1>7, <1>10, <1>11

-----------------------------------------------------------------------------
(* PUSHING AND POPPING                                                     *)

(* Words around two addresses that malloc() returned are different.        *)
Clear(a, b) == /\ a - 1 # b /\ a - 1 # b + 1 /\ a # b /\ a # b + 1 /\ a + 1 # b /\ a + 1 # b + 1
ClearEnd(a, b) == a + 2 # b /\ a + 2 # b + 1
LEMMA Far ==
    ASSUME NEW g, HeapOK(g), NEW a \in Addr, IsChunk(g, a - 2), NEW b \in Addr, IsChunk(g, b - 2)
    PROVE  /\ a \in Nat /\ a > 8 /\ b \in Nat /\ a - 1 \in Addr /\ a + 1 \in Addr
           /\ g.room[a - 2] = 4 => a + 2 \in Addr
           /\ a # b => Clear(a, b)
           /\ a # b /\ g.room[a - 2] = 4 => ClearEnd(a, b)
<1>1. PICK c \in Addr : c = a - 2
    BY DEF IsChunk
<1>2. PICK d \in Addr : d = b - 2
    BY DEF IsChunk
<1>3. /\ g.room[c] \in {2, 4} /\ c \in Nat /\ c > 8 /\ \A i \in 0..(g.room[c] + 1) : c + i \in Addr
      /\ c # d => \A i \in 0..(g.room[c] + 1), j \in 0..(g.room[d] + 1) : c + i # d + j
    BY <1>1, <1>2, WordsApart
<1>4. g.room[d] \in {2, 4} /\ d \in Nat
    BY <1>1, <1>2, WordsApart
<1>5. a \in Nat /\ b \in Nat /\ a = c + 2 /\ b = d + 2
    BY <1>1, <1>2, PageSizes
<1>6. /\ 0..3 \subseteq 0..(g.room[c] + 1) /\ 0..3 \subseteq 0..(g.room[d] + 1)
      /\ g.room[c] = 4 => 4 \in 0..(g.room[c] + 1)
    BY <1>3, <1>4
<1>7. a - 1 \in Addr /\ a + 1 \in Addr /\ (g.room[c] = 4 => a + 2 \in Addr)
    <2>1. c + 1 \in Addr /\ c + 3 \in Addr /\ (g.room[c] = 4 => c + 4 \in Addr)
        BY <1>3, <1>6
    <2>2. c + 1 = a - 1 /\ c + 3 = a + 1 /\ c + 4 = a + 2
        BY <1>3, <1>5
    <2> QED
        BY <2>1, <2>2
<1>8. ASSUME a # b PROVE Clear(a, b)
    <2>1. c # d
        BY <1>5, <1>8
    <2>2. \A i, j \in 0..3 : c + i # d + j
        BY <1>3, <1>6, <2>1
    <2>3. /\ c + 1 # d + 2 /\ c + 1 # d + 3 /\ c + 2 # d + 2 /\ c + 2 # d + 3
          /\ c + 3 # d + 2 /\ c + 3 # d + 3
        BY <2>2
    <2> QED
        BY <1>3, <1>4, <1>5, <2>3 DEF Clear
<1>9. ASSUME a # b, g.room[c] = 4 PROVE ClearEnd(a, b)
    <2>1. c # d
        BY <1>5, <1>9
    <2>2. \A j \in 0..3 : c + 4 # d + j
        BY <1>3, <1>6, <1>9, <2>1
    <2>3. c + 4 # d + 2 /\ c + 4 # d + 3
        BY <2>2
    <2> QED
        BY <1>3, <1>4, <1>5, <2>3 DEF ClearEnd
<1> QED
    BY <1>1, <1>3, <1>5, <1>7, <1>8, <1>9

(* The words after one store.                                              *)
Sets(f, a, v, r) ==
    /\ r \in [Addr -> Int] /\ r[a] = v /\ \A b \in Addr : b # a => r[b] = f[b]

(* mlist_push(): element e with mapping m comes first.                     *)
Pushed(n, list, e, r) ==
    /\ SameHeap(n, r) /\ r.ret = e
    /\ n.mem[list] = 0 => r.mem = [[n.mem EXCEPT ![list] = e] EXCEPT ![list + 1] = e]
    /\ n.mem[list] # 0 => r.mem = [[[n.mem EXCEPT ![e + 1] = n.mem[list]]
                                       EXCEPT ![n.mem[list]] = e] EXCEPT ![list] = e]
LEMMA PushFields ==
    ASSUME NEW g, DOMAIN g = Fields, NEW list, NEW data, NEW n, n = new_mlist_elem(g, data),
           NEW r, r = mlist_push(g, list, data)
    PROVE  DOMAIN n = Fields /\ Pushed(n, list, n.ret, r)
<1>1. DOMAIN n = Fields
    <2>1. PICK k : k = malloc(g, 3)
        OBVIOUS
    <2>2. SameHeap(k, n)
        BY <2>1, ElemFields
    <2> QED
        BY <2>2 DEF SameHeap
<1>2. PICK e : e = n.ret
    OBVIOUS
<1>3. PICK v : v = n.mem[list]
    OBVIOUS
<1>4. CASE v = 0
    <2>1. r = [n EXCEPT !.mem[list] = e, !.mem[list + 1] = e]
        BY <1>2, <1>3, <1>4, Sizes DEF mlist_push, mlist_is_empty
    <2>2. SameHeap(n, r) /\ r.ret = e /\ r.mem = [[n.mem EXCEPT ![list] = e] EXCEPT ![list + 1] = e]
        BY <1>1, <1>2, <2>1 DEF SameHeap, Fields
    <2> QED
        BY <1>1, <1>2, <1>3, <1>4, <2>2 DEF Pushed
<1>5. CASE v # 0
    <2>1. r = [n EXCEPT !.mem[e + 1] = v, !.mem[v] = e, !.mem[list] = e]
        BY <1>2, <1>3, <1>5, Sizes DEF mlist_push, mlist_is_empty
    <2>2. /\ SameHeap(n, r) /\ r.ret = e
          /\ r.mem = [[[n.mem EXCEPT ![e + 1] = v] EXCEPT ![v] = e] EXCEPT ![list] = e]
        BY <1>1, <1>2, <2>1 DEF SameHeap, Fields
    <2> QED
        BY <1>1, <1>2, <1>3, <1>5, <2>2 DEF Pushed
<1> QED
    BY <1>4, <1>5

(* Element e and mapping m are filled in, and belong to no list yet.       *)
Ready(n, list, s, e, m, pa) ==
    /\ HeapOK(n) /\ ListOK(n, list, s) /\ \A c \in Addr : InList(list, s, c) => ~ InBins(n, c)
    /\ e \in Addr /\ IsChunk(n, e - 2) /\ n.room[e - 2] = 4 /\ ~ InBins(n, e - 2)
    /\ m \in Addr /\ IsChunk(n, m - 2) /\ n.room[m - 2] = 4 /\ ~ InBins(n, m - 2)
    /\ e # m /\ ~ InList(list, s, e - 2) /\ ~ InList(list, s, m - 2)
    /\ n.mem[e - 1] = 3 /\ n.mem[e + 1] = 0 /\ n.mem[e + 2] = m /\ n.mem[m] = pa /\ pa \in Int

(* The words that mlist_push() changes, and those that it does not.        *)
Linked(n, list, s, e, m, pa, r) ==
    /\ r.mem \in [Addr -> Int] /\ r.mem[list] = e
    /\ r.mem[list + 1] = IF s = <<>> THEN e ELSE n.mem[list + 1]
    /\ r.mem[e - 1] = 3 /\ r.mem[e + 1] = NextOf(s, 1) /\ r.mem[e + 2] = m /\ r.mem[m] = pa
    /\ \A k \in 1..Len(s) :
            /\ r.mem[s[k].elem - 1] = n.mem[s[k].elem - 1]
            /\ r.mem[s[k].elem + 1] = n.mem[s[k].elem + 1]
            /\ r.mem[s[k].elem + 2] = n.mem[s[k].elem + 2]
            /\ r.mem[s[k].data] = n.mem[s[k].data]
    /\ \A a \in Addr : r.mem[a] # n.mem[a] =>
            a \in {list, list + 1, e + 1} \/ (s # <<>> /\ a = s[1].elem)

LEMMA ReadyParts ==
    ASSUME NEW n, NEW list, NEW s, NEW e, NEW m, NEW pa, Ready(n, list, s, e, m, pa)
    PROVE  /\ n.mem \in [Addr -> Int] /\ list \in Addr /\ IsChunk(n, list - 2)
           /\ e # list /\ m # list
           /\ s \in Seq(Cells) /\ Len(s) \in Nat /\ (s = <<>> <=> Len(s) = 0)
           /\ \A k \in 1..Len(s) :
                 /\ s[k].elem \in Addr /\ IsChunk(n, s[k].elem - 2) /\ n.room[s[k].elem - 2] = 4
                 /\ s[k].data \in Addr /\ IsChunk(n, s[k].data - 2) /\ n.room[s[k].data - 2] = 4
                 /\ s[k].elem \notin {list, e, m} /\ s[k].data \notin {list, e, m}
           /\ \A k, j \in 1..Len(s) : s[k].elem # s[j].data
<1>1. ListOK(n, list, s) /\ ~ InList(list, s, e - 2) /\ ~ InList(list, s, m - 2)
    BY DEF Ready
<1>2. n.mem \in [Addr -> Int]
    BY DEF Ready, HeapOK, Typed
<1>3. /\ list \in Addr /\ InList(list, s, list - 2)
      /\ s \in Seq(Cells) /\ Len(s) \in Nat /\ (s = <<>> <=> Len(s) = 0)
      /\ \A k \in 1..Len(s) :
            /\ s[k].elem \in Addr /\ InList(list, s, s[k].elem - 2)
            /\ s[k].data \in Addr /\ InList(list, s, s[k].data - 2)
    BY <1>1, ListParts
<1>4. e # list /\ m # list
    BY <1>1, <1>3
<1>5. \A k \in 1..Len(s) : s[k].elem \notin {e, m} /\ s[k].data \notin {e, m}
    BY <1>1, <1>3
<1>6. /\ \A k \in 1..Len(s) : s[k].elem # list /\ s[k].data # list
      /\ \A k, j \in 1..Len(s) : s[k].elem # s[j].data
    BY <1>1 DEF ListOK, Apart
<1>7. /\ IsChunk(n, list - 2)
      /\ \A k \in 1..Len(s) : /\ IsChunk(n, s[k].elem - 2) /\ n.room[s[k].elem - 2] = 4
                              /\ IsChunk(n, s[k].data - 2) /\ n.room[s[k].data - 2] = 4
    BY <1>1 DEF ListOK
<1> QED
    BY <1>2, <1>3, <1>4, <1>5, <1>6, <1>7

LEMMA PushEmpty ==
    ASSUME NEW n, NEW list, NEW s, NEW e, NEW m, NEW pa, Ready(n, list, s, e, m, pa),
           s = <<>>, NEW r, Pushed(n, list, e, r)
    PROVE  Linked(n, list, s, e, m, pa, r)
<1>1. /\ n.mem \in [Addr -> Int] /\ list \in Addr /\ IsChunk(n, list - 2) /\ e # list /\ m # list
      /\ Len(s) = 0
    BY ReadyParts
<1>2. /\ HeapOK(n) /\ e \in Addr /\ m \in Addr /\ IsChunk(n, e - 2) /\ IsChunk(n, m - 2)
      /\ n.room[e - 2] = 4 /\ e # m
    BY DEF Ready
<1>3. n.mem[list] = 0
    BY <1>1, Sizes DEF Ready, ListOK, Links, NextOf
<1>4. r.mem = [[n.mem EXCEPT ![list] = e] EXCEPT ![list + 1] = e]
    BY <1>3 DEF Pushed
<1>5. /\ list \in Nat /\ list + 1 \in Addr /\ e \in Nat /\ m \in Nat
      /\ e - 1 \in Addr /\ e + 1 \in Addr /\ e + 2 \in Addr
    BY <1>1, <1>2, Far
<1>6. Clear(e, list) /\ Clear(m, list) /\ ClearEnd(e, list)
    BY <1>1, <1>2, Far
<1>7. /\ e - 1 # list /\ e - 1 # list + 1 /\ e + 1 # list /\ e + 1 # list + 1
      /\ e + 2 # list /\ e + 2 # list + 1 /\ m # list /\ m # list + 1
    BY <1>6 DEF Clear, ClearEnd
<1>8. /\ r.mem \in [Addr -> Int] /\ r.mem[list] = e /\ r.mem[list + 1] = e
      /\ \A a \in Addr : a # list /\ a # list + 1 => r.mem[a] = n.mem[a]
    <2>1. PICK f : f = [n.mem EXCEPT ![list] = e]
        OBVIOUS
    <2>2. Sets(n.mem, list, e, f)
        BY <1>1, <1>5, <2>1, SMTT(40) DEF Sets
    <2>3. f \in [Addr -> Int] /\ r.mem = [f EXCEPT ![list + 1] = e]
        BY <1>4, <2>1, <2>2 DEF Sets
    <2>4. Sets(f, list + 1, e, r.mem)
        BY <1>5, <2>3 DEF Sets
    <2>5. list # list + 1
        BY <1>5
    <2> QED
        BY <1>1, <2>2, <2>4, <2>5 DEF Sets
<1>9. r.mem[e - 1] = 3 /\ r.mem[e + 1] = 0 /\ r.mem[e + 2] = m /\ r.mem[m] = pa
    BY <1>2, <1>5, <1>7, <1>8 DEF Ready
<1> QED
    BY <1>1, <1>8, <1>9, Sizes DEF Linked, NextOf

LEMMA PushOnto ==
    ASSUME NEW n, NEW list, NEW s, NEW e, NEW m, NEW pa, Ready(n, list, s, e, m, pa),
           s # <<>>, NEW r, Pushed(n, list, e, r)
    PROVE  Linked(n, list, s, e, m, pa, r)
<1>1. /\ n.mem \in [Addr -> Int] /\ list \in Addr /\ IsChunk(n, list - 2) /\ e # list /\ m # list
      /\ Len(s) \in Nat /\ Len(s) >= 1
    BY ReadyParts
<1>2. /\ HeapOK(n) /\ e \in Addr /\ m \in Addr /\ IsChunk(n, e - 2) /\ IsChunk(n, m - 2)
      /\ n.room[e - 2] = 4 /\ e # m
    BY DEF Ready
<1>3. PICK v : v = s[1].elem
    OBVIOUS
<1>4. v \in Addr /\ IsChunk(n, v - 2) /\ v # list /\ v # e /\ v # m
    BY <1>1, <1>3, ReadyParts
<1>5. n.mem[list] = v
    BY <1>1, <1>3 DEF Ready, ListOK, Links, NextOf
<1>6. v \in Nat /\ v > 8
    BY <1>2, <1>4, Far
<1>7. r.mem = [[[n.mem EXCEPT ![e + 1] = v] EXCEPT ![v] = e] EXCEPT ![list] = e]
    BY <1>5, <1>6 DEF Pushed
<1>8. /\ list \in Nat /\ list + 1 \in Addr /\ e \in Nat /\ m \in Nat
      /\ e - 1 \in Addr /\ e + 1 \in Addr /\ e + 2 \in Addr
    BY <1>1, <1>2, Far
<1>9. /\ Clear(e, list) /\ Clear(e, v) /\ ClearEnd(e, list) /\ ClearEnd(e, v)
      /\ Clear(m, e) /\ Clear(m, v) /\ Clear(list, v)
    BY <1>1, <1>2, <1>4, Far
<1>10. /\ e + 1 # list /\ e + 1 # v /\ e + 1 # list + 1 /\ v # list + 1 /\ list # v
       /\ e - 1 # list /\ e - 1 # v /\ e - 1 # e + 1
       /\ e + 2 # list /\ e + 2 # v /\ e + 2 # e + 1
       /\ m # list /\ m # v /\ m # e + 1 /\ list # list + 1
    BY <1>1, <1>6, <1>8, <1>9 DEF Clear, ClearEnd
<1>11. /\ r.mem \in [Addr -> Int] /\ r.mem[list] = e /\ r.mem[e + 1] = v
       /\ \A a \in Addr : a # e + 1 /\ a # v /\ a # list => r.mem[a] = n.mem[a]
    <2>1. PICK f : f = [n.mem EXCEPT ![e + 1] = v]
        OBVIOUS
    <2>2. PICK k : k = [f EXCEPT ![v] = e]
        OBVIOUS
    <2>3. Sets(n.mem, e + 1, v, f)
        BY <1>1, <1>6, <1>8, <2>1, SMTT(40) DEF Sets
    <2>4. Sets(f, v, e, k)
        <3>1. f \in [Addr -> Int]
            BY <2>3 DEF Sets
        <3> QED
            BY <1>4, <1>8, <2>2, <3>1 DEF Sets
    <2>5. Sets(k, list, e, r.mem)
        <3>1. k \in [Addr -> Int] /\ r.mem = [k EXCEPT ![list] = e]
            BY <1>7, <2>1, <2>2, <2>4 DEF Sets
        <3> QED
            BY <1>1, <1>8, <3>1 DEF Sets
    <2>6. \A a \in Addr : a # e + 1 /\ a # v /\ a # list => r.mem[a] = n.mem[a]
        BY <2>3, <2>4, <2>5 DEF Sets
    <2>7. r.mem[e + 1] = v
        BY <1>8, <1>10, <2>3, <2>4, <2>5 DEF Sets
    <2> QED
        BY <2>5, <2>6, <2>7 DEF Sets
<1>12. r.mem[list] = e /\ r.mem[e + 1] = v /\ r.mem[list + 1] = n.mem[list + 1]
    BY <1>8, <1>10, <1>11
<1>13. r.mem[e - 1] = 3 /\ r.mem[e + 2] = m /\ r.mem[m] = pa
    BY <1>2, <1>8, <1>10, <1>11 DEF Ready
<1>14. ASSUME NEW k \in 1..Len(s)
       PROVE  /\ r.mem[s[k].elem - 1] = n.mem[s[k].elem - 1]
              /\ r.mem[s[k].elem + 1] = n.mem[s[k].elem + 1]
              /\ r.mem[s[k].elem + 2] = n.mem[s[k].elem + 2]
    <2>1. PICK w : w = s[k].elem
        OBVIOUS
    <2>2. w \in Addr /\ IsChunk(n, w - 2) /\ n.room[w - 2] = 4 /\ w # list /\ w # e
        BY <2>1, ReadyParts
    <2>3. w \in Nat /\ w - 1 \in Addr /\ w + 1 \in Addr /\ w + 2 \in Addr
        BY <1>2, <2>2, Far
    <2>4. Clear(w, list) /\ Clear(w, e) /\ ClearEnd(w, list) /\ ClearEnd(w, e)
        BY <1>1, <1>2, <2>2, Far
    <2>5. w # v => Clear(w, v) /\ ClearEnd(w, v)
        BY <1>2, <1>4, <2>2, Far
    <2>6. w - 1 # v /\ w + 1 # v /\ w + 2 # v
        BY <2>3, <2>5 DEF Clear, ClearEnd
    <2>7. w - 1 # list /\ w - 1 # e + 1 /\ w + 1 # list /\ w + 1 # e + 1 /\ w + 2 # list /\ w + 2 # e + 1
        BY <2>4 DEF Clear, ClearEnd
    <2> QED
        BY <1>11, <2>1, <2>3, <2>6, <2>7
<1>15. ASSUME NEW k \in 1..Len(s) PROVE r.mem[s[k].data] = n.mem[s[k].data]
    <2>1. PICK w : w = s[k].data
        OBVIOUS
    <2>2. w \in Addr /\ IsChunk(n, w - 2) /\ w # list /\ w # e /\ w # v
        BY <1>1, <1>3, <2>1, ReadyParts
    <2>3. Clear(w, e)
        BY <1>2, <2>2, Far
    <2>4. w # e + 1
        BY <2>3 DEF Clear
    <2> QED
        BY <1>11, <2>1, <2>2, <2>4
<1>16. NextOf(s, 1) = v
    BY <1>1, <1>3 DEF NextOf
<1> QED
    BY <1>3, <1>11, <1>12, <1>13, <1>14, <1>15, <1>16 DEF Linked

Prepended(n, list, s, e, m, t, r) ==
    /\ HeapOK(r) /\ (Roomy(n) => Roomy(r)) /\ r.ret = e /\ r.mem[e + 2] = m
    /\ Calm(n, r, {d \in Addr : d = e - 2 \/ InList(list, s, d)})
    /\ \A d \in Addr : InBins(r, d) <=> InBins(n, d)
    /\ ListOK(r, list, t)
    /\ \A d \in Addr : InList(list, t, d) => InList(list, s, d) \/ d = e - 2 \/ d = m - 2

LEMMA PushList ==
    ASSUME NEW n, NEW list, NEW s, NEW e, NEW m, NEW pa, Ready(n, list, s, e, m, pa),
           NEW r, Pushed(n, list, e, r),
           NEW c, c = [elem |-> e, data |-> m, pa |-> pa], NEW t, t = <<c>> \o s
    PROVE  Prepended(n, list, s, e, m, t, r)
<1>1. Linked(n, list, s, e, m, pa, r)
    BY PushEmpty, PushOnto
<1>2. /\ n.mem \in [Addr -> Int] /\ list \in Addr /\ IsChunk(n, list - 2) /\ e # list /\ m # list
      /\ s \in Seq(Cells) /\ Len(s) \in Nat /\ (s = <<>> <=> Len(s) = 0)
      /\ \A k \in 1..Len(s) :
            /\ s[k].elem \in Addr /\ IsChunk(n, s[k].elem - 2) /\ n.room[s[k].elem - 2] = 4
            /\ s[k].data \in Addr /\ IsChunk(n, s[k].data - 2) /\ n.room[s[k].data - 2] = 4
            /\ s[k].elem \notin {list, e, m} /\ s[k].data \notin {list, e, m}
      /\ \A k, j \in 1..Len(s) : s[k].elem # s[j].data
    BY ReadyParts
<1>3. /\ HeapOK(n) /\ e \in Addr /\ m \in Addr /\ IsChunk(n, e - 2) /\ IsChunk(n, m - 2)
      /\ n.room[e - 2] = 4 /\ n.room[m - 2] = 4 /\ ~ InBins(n, e - 2) /\ e # m /\ pa \in Int
      /\ ListOK(n, list, s) /\ \A d \in Addr : InList(list, s, d) => ~ InBins(n, d)
    BY DEF Ready
<1>4. SameHeap(n, r) /\ r.room = n.room /\ r.ret = e
    BY DEF Pushed, SameHeap
<1>5. PICK D : D = {d \in Addr : d = e - 2 \/ InList(list, s, d)}
    OBVIOUS
<1>6. ASSUME NEW a \in Addr, IsChunk(n, a - 2), ~ InBins(n, a - 2), a - 2 \in D
      PROVE  /\ \E d \in D : d \in Addr /\ ~ Unused(n, d) /\ \E i \in 0..(n.room[d] + 1) : a = d + i
             /\ \E d \in D : d \in Addr /\ ~ Unused(n, d) /\ \E i \in 0..(n.room[d] + 1) : a + 1 = d + i
    <2>1. PICK d \in Addr : d = a - 2
        BY <1>6 DEF IsChunk
    <2>2. n.room[d] \in {2, 4} /\ d \in Nat /\ a \in Nat
        BY <1>3, <1>6, <2>1, WordsApart, PageSizes
    <2>3. a = d + 2 /\ a + 1 = d + 3 /\ 2 \in 0..(n.room[d] + 1) /\ 3 \in 0..(n.room[d] + 1)
        BY <2>1, <2>2
    <2>4. d \in D /\ ~ Unused(n, d)
        BY <1>6, <2>1 DEF Unused
    <2> QED
        BY <2>1, <2>3, <2>4
<1>7. Stores(n, r, D)
    <2>1. list - 2 \in D /\ ~ InBins(n, list - 2) /\ e - 2 \in D
        <3>1. list - 2 \in Addr /\ InList(list, s, list - 2) /\ e - 2 \in Addr
            BY <1>3, ListParts DEF IsChunk
        <3> QED
            BY <1>3, <1>5, <3>1
    <2>2. s # <<>> => s[1].elem - 2 \in D /\ ~ InBins(n, s[1].elem - 2)
        <3> SUFFICES ASSUME s # <<>> PROVE s[1].elem - 2 \in D /\ ~ InBins(n, s[1].elem - 2)
            OBVIOUS
        <3>1. 1 \in 1..Len(s)
            BY <1>2
        <3>2. s[1].elem - 2 \in Addr /\ InList(list, s, s[1].elem - 2)
            BY <1>3, <3>1, ListParts
        <3> QED
            BY <1>3, <1>5, <3>2
    <2>3. ASSUME NEW a \in Addr, r.mem[a] # n.mem[a]
          PROVE  \E d \in D : d \in Addr /\ ~ Unused(n, d) /\ \E i \in 0..(n.room[d] + 1) : a = d + i
        <3>1. a \in {list, list + 1, e + 1} \/ (s # <<>> /\ a = s[1].elem)
            BY <1>1, <2>3 DEF Linked
        <3>2. CASE a \in {list, list + 1}
            BY <1>2, <1>6, <2>1, <3>2
        <3>3. CASE a = e + 1
            BY <1>3, <1>6, <2>1, <3>3
        <3>4. CASE s # <<>> /\ a = s[1].elem
            <4>1. 1 \in 1..Len(s)
                BY <1>2, <3>4
            <4>2. IsChunk(n, a - 2)
                BY <1>2, <3>4, <4>1
            <4> QED
                BY <1>6, <2>2, <3>4, <4>2
        <3> QED
            BY <3>1, <3>2, <3>3, <3>4
    <2>4. r.mem \in [Addr -> Int]
        BY <1>1 DEF Linked
    <2> QED
        BY <1>4, <2>3, <2>4 DEF Stores
<1>8. /\ HeapOK(r) /\ (Roomy(n) => Roomy(r)) /\ Calm(n, r, D)
      /\ \A d \in Addr : InBins(r, d) <=> InBins(n, d)
    BY <1>3, <1>7, StoresCalm
<1>9. c \in Cells /\ c.elem = e /\ c.data = m /\ c.pa = pa
    BY <1>3 DEF Cells
<1>10. /\ t \in Seq(Cells) /\ Len(t) = Len(s) + 1 /\ t[1] = c
       /\ \A k \in 1..Len(s) : t[k + 1] = s[k]
    BY <1>2, <1>9, ConsOf
<1>11. \A k \in 1..Len(t) : k = 1 \/ \E j \in 1..Len(s) : k = j + 1
    <2> SUFFICES ASSUME NEW k \in 1..Len(t), k # 1 PROVE k - 1 \in 1..Len(s) /\ k = (k - 1) + 1
        OBVIOUS
    <2> QED
        BY <1>2, <1>10
<1>12. \A k \in 0..Len(s) : NextOf(t, k + 2) = NextOf(s, k + 1)
    <2> SUFFICES ASSUME NEW k \in 0..Len(s) PROVE NextOf(t, k + 2) = NextOf(s, k + 1)
        OBVIOUS
    <2>1. CASE k = Len(s)
        <3>1. k + 2 > Len(t) /\ k + 1 > Len(s)
            BY <1>2, <1>10, <2>1
        <3> QED
            BY <3>1 DEF NextOf
    <2>2. CASE k # Len(s)
        <3>1. k + 1 \in 1..Len(s) /\ (k + 1) + 1 = k + 2 /\ ~ (k + 2 > Len(t)) /\ ~ (k + 1 > Len(s))
            BY <1>2, <1>10, <2>2
        <3>2. t[k + 2] = s[k + 1]
            BY <1>10, <3>1
        <3> QED
            BY <3>1, <3>2 DEF NextOf
    <2> QED
        BY <2>1, <2>2
<1>13. ASSUME NEW k \in 1..Len(t)
       PROVE  /\ IsChunk(r, t[k].elem - 2) /\ r.room[t[k].elem - 2] = 4
              /\ IsChunk(r, t[k].data - 2) /\ r.room[t[k].data - 2] = 4
              /\ t[k].elem # list /\ t[k].data # list
    <2>1. CASE k = 1
        <3>1. t[k].elem = e /\ t[k].data = m
            BY <1>9, <1>10, <2>1
        <3> QED
            BY <1>2, <1>3, <1>4, <3>1 DEF IsChunk
    <2>2. CASE k # 1
        <3>1. PICK j \in 1..Len(s) : t[k] = s[j]
            BY <1>10, <1>11, <2>2
        <3> QED
            BY <1>2, <1>4, <3>1 DEF IsChunk
    <2> QED
        BY <2>1, <2>2
<1>14. Apart(list, t)
    <2> SUFFICES ASSUME NEW k \in 1..Len(t), NEW j \in 1..Len(t)
                 PROVE  /\ t[k].elem # t[j].data
                        /\ t[k].elem = t[j].elem \/ t[k].data = t[j].data => k = j
        BY <1>13 DEF Apart
    <2>1. CASE k = 1 /\ j = 1
        BY <1>3, <1>9, <1>10, <2>1
    <2>2. CASE k = 1 /\ j # 1
        <3>1. PICK i \in 1..Len(s) : t[j] = s[i]
            BY <1>10, <1>11, <2>2
        <3> QED
            BY <1>2, <1>9, <1>10, <2>2, <3>1
    <2>3. CASE k # 1 /\ j = 1
        <3>1. PICK i \in 1..Len(s) : t[k] = s[i]
            BY <1>10, <1>11, <2>3
        <3> QED
            BY <1>2, <1>9, <1>10, <2>3, <3>1
    <2>4. CASE k # 1 /\ j # 1
        <3>1. PICK i \in 1..Len(s) : k = i + 1
            BY <1>11, <2>4
        <3>2. PICK h2 \in 1..Len(s) : j = h2 + 1
            BY <1>11, <2>4
        <3>3. t[k] = s[i] /\ t[j] = s[h2]
            BY <1>10, <3>1, <3>2
        <3>4. s[i].elem = s[h2].elem \/ s[i].data = s[h2].data => i = h2
            BY <1>3 DEF ListOK, Apart
        <3>5. s[i].elem # s[h2].data
            BY <1>2
        <3> QED
            BY <3>1, <3>2, <3>3, <3>4, <3>5
    <2> QED
        BY <2>1, <2>2, <2>3, <2>4
<1>15. Links(n, list, s)
    BY <1>3 DEF ListOK
<1>16. Links(r, list, t)
    <2>1. 1 \in 1..Len(t) /\ ~ (1 > Len(t)) /\ Len(t) \in Nat
        BY <1>2, <1>10
    <2>2. r.mem[list] = NextOf(t, 1)
        BY <1>1, <1>9, <1>10, <2>1 DEF Linked, NextOf
    <2>3. r.mem[list + 1] = t[Len(t)].elem
        <3>1. CASE s = <<>>
            <4>1. Len(t) = 1
                BY <1>2, <1>10, <3>1
            <4> QED
                BY <1>1, <1>9, <1>10, <3>1, <4>1 DEF Linked
        <3>2. CASE s # <<>>
            <4>1. Len(s) \in 1..Len(s)
                BY <1>2, <3>2
            <4>2. t[Len(t)] = s[Len(s)]
                BY <1>10, <4>1
            <4> QED
                BY <1>1, <1>15, <3>2, <4>2 DEF Linked, Links
        <3> QED
            BY <3>1, <3>2
    <2>4. ASSUME NEW k \in 1..Len(t)
          PROVE  /\ r.mem[t[k].elem - 1] = 3 /\ r.mem[t[k].elem + 1] = NextOf(t, k + 1)
                 /\ r.mem[t[k].elem + 2] = t[k].data /\ r.mem[t[k].data] = t[k].pa
        <3>1. CASE k = 1
            <4>1. NextOf(t, 2) = NextOf(s, 1)
                <5>1. 0 \in 0..Len(s) /\ 0 + 2 = 2 /\ 0 + 1 = 1
                    BY <1>2
                <5> QED
                    BY <1>12, <5>1
            <4> QED
                BY <1>1, <1>9, <1>10, <3>1, <4>1 DEF Linked
        <3>2. CASE k # 1
            <4>1. PICK j \in 1..Len(s) : k = j + 1
                BY <1>11, <3>2
            <4>2. t[k] = s[j]
                BY <1>10, <4>1
            <4>3. NextOf(t, k + 1) = NextOf(s, j + 1)
                <5>1. j \in 0..Len(s) /\ j + 2 = k + 1
                    BY <4>1
                <5> QED
                    BY <1>12, <5>1
            <4>4. /\ n.mem[s[j].elem - 1] = 3 /\ n.mem[s[j].elem + 1] = NextOf(s, j + 1)
                  /\ n.mem[s[j].elem + 2] = s[j].data /\ n.mem[s[j].data] = s[j].pa
                BY <1>15, Sizes DEF Links
            <4>5. /\ r.mem[s[j].elem - 1] = n.mem[s[j].elem - 1]
                  /\ r.mem[s[j].elem + 1] = n.mem[s[j].elem + 1]
                  /\ r.mem[s[j].elem + 2] = n.mem[s[j].elem + 2]
                  /\ r.mem[s[j].data] = n.mem[s[j].data]
                BY <1>1 DEF Linked
            <4> QED
                BY <4>2, <4>3, <4>4, <4>5
        <3> QED
            BY <3>1, <3>2
    <2> QED
        BY <2>2, <2>3, <2>4, Sizes DEF Links
<1>17. IsChunk(r, list - 2)
    BY <1>2, <1>4 DEF IsChunk
<1>18. ListOK(r, list, t)
    BY <1>2, <1>10, <1>13, <1>14, <1>16, <1>17 DEF ListOK
<1>19. ASSUME NEW d \in Addr, InList(list, t, d)
       PROVE  InList(list, s, d) \/ d = e - 2 \/ d = m - 2
    <2>1. CASE d = list - 2
        BY <2>1 DEF InList
    <2>2. CASE d # list - 2
        <3>1. PICK k \in 1..Len(t) : d = t[k].elem - 2 \/ d = t[k].data - 2
            BY <1>19, <2>2 DEF InList
        <3>2. CASE k = 1
            BY <1>9, <1>10, <3>1, <3>2
        <3>3. CASE k # 1
            <4>1. PICK j \in 1..Len(s) : t[k] = s[j]
                BY <1>10, <1>11, <3>3
            <4> QED
                BY <3>1, <4>1 DEF InList
        <3> QED
            BY <3>2, <3>3
    <2> QED
        BY <2>1, <2>2
<1>20. r.mem[e + 2] = m
    BY <1>1 DEF Linked
<1> QED
    BY <1>4, <1>5, <1>8, <1>18, <1>19, <1>20 DEF Prepended

(* A page is mapped: list l gets a cell in front.                          *)
LEMMA MappingAdded ==
    ASSUME NEW g, NEW ls, NEW heads, NEW cells, AllOK(g, ls, heads, cells), Roomy(g),
           NEW l \in ls, NEW pa \in Int, NEW r, r = add_mapping(g, heads[l], pa),
           r.taken <= HeapPages, r.foreign = 0,
           NEW heads2, NEW cells2,
           Becoming(ls, heads, cells, l, heads[l], <<Cell(r, pa)>> \o cells[l], heads2, cells2)
    PROVE  AllOK(r, ls, heads2, cells2) /\ Roomy(r)
<1> USE DEF Becoming
<1>1. PICK list, s : list = heads[l] /\ s = cells[l]
    OBVIOUS
<1>2. PICK f : f = Mapping(g, pa)
    OBVIOUS
<1>3. PICK data : data = f.ret
    OBVIOUS
<1>4. PICK n : n = new_mlist_elem(f, data)
    OBVIOUS
<1>5. /\ HeapOK(g) /\ DOMAIN g = Fields /\ g.taken \in Nat /\ ListOK(g, list, s)
      /\ \A c \in Addr : InList(list, s, c) => ~ InBins(g, c)
    BY <1>1 DEF AllOK, HeapOK, Typed
<1>6. r = mlist_push(f, list, data)
    BY <1>1, <1>2, <1>3, <1>5, AddIsPush
<1>7. PICK n1 : n1 = malloc(g, 4)
    OBVIOUS
<1>8. SameHeap(n1, f) /\ DOMAIN f = Fields
    <2>1. SameHeap(n1, f)
        BY <1>2, <1>5, <1>7, MappingFields
    <2> QED
        BY <2>1 DEF SameHeap
<1>9. Pushed(n, list, n.ret, r)
    BY <1>4, <1>6, <1>8, PushFields
<1>10. PICK n2 : n2 = malloc(f, 3)
    OBVIOUS
<1>11. SameHeap(n2, n)
    BY <1>4, <1>8, <1>10, ElemFields
<1>12. /\ n.taken <= HeapPages /\ n.foreign = 0 /\ f.taken <= HeapPages /\ f.foreign = 0
    <2>1. n.taken = r.taken /\ n.foreign = r.foreign /\ n2.taken = n.taken /\ n2.foreign = n.foreign
        BY <1>9, <1>11 DEF Pushed, SameHeap
    <2>2. Onward(g, n1) /\ Onward(f, n2)
        BY <1>5, <1>7, <1>8, <1>10, MallocOnward
    <2>3. f.taken = n1.taken /\ f.taken \in Nat
        BY <1>5, <1>8, <2>2 DEF SameHeap, Onward
    <2>4. f.foreign = 0 /\ n2.taken >= f.taken /\ n2.taken \in Nat
        BY <2>1, <2>2, <2>3 DEF Onward
    <2>5. HeapPages \in Nat
        BY PageSizes
    <2> QED
        BY <2>1, <2>3, <2>4, <2>5
<1>13. PICK xm \in Addr : Made(g, 4, xm, f) /\ f.room[xm] = 4 /\ f.mem[xm + 2] = pa
    BY <1>2, <1>5, <1>12, MappingMakes
<1>14. /\ f.ret = xm + 2 /\ HeapOK(f) /\ Roomy(f) /\ IsChunk(f, xm) /\ ~ InBins(f, xm)
       /\ Unused(g, xm) /\ Calm(g, f, {}) /\ \A c \in Addr : InBins(f, c) => InBins(g, c)
    BY <1>13 DEF Made
<1>15. /\ xm \in Nat /\ xm + 2 \in Addr
    <2>1. f.room[xm] = 4 /\ xm \in Nat /\ \A i \in 0..(f.room[xm] + 1) : xm + i \in Addr
        BY <1>13, <1>14, WordsApart
    <2> QED
        BY <2>1
<1>16. data \in Int
    BY <1>3, <1>14, <1>15
<1>17. PICK xe \in Addr : /\ Made(f, 3, xe, n) /\ n.room[xe] = 4
                          /\ n.mem[xe + 3] = 0 /\ n.mem[xe + 4] = data
    BY <1>4, <1>12, <1>14, <1>16, ElemMakes
<1>18. /\ n.ret = xe + 2 /\ HeapOK(n) /\ Roomy(n) /\ IsChunk(n, xe) /\ ~ InBins(n, xe)
       /\ Unused(f, xe) /\ Calm(f, n, {}) /\ \A c \in Addr : InBins(n, c) => InBins(f, c)
       /\ n.mem[xe + 1] = 3
    BY <1>17 DEF Made
<1>19. xe \in Nat /\ xe + 2 \in Addr
    <2>1. n.room[xe] = 4 /\ xe \in Nat /\ \A i \in 0..(n.room[xe] + 1) : xe + i \in Addr
        BY <1>17, <1>18, WordsApart
    <2> QED
        BY <2>1
<1>20. xe # xm /\ ~ Unused(f, xm)
    BY <1>14, <1>18 DEF Unused
<1>21. Calm(g, n, {})
    BY <1>14, <1>18, CalmTwice
<1>22. ListOK(n, list, s) /\ \A c \in Addr : InList(list, s, c) => ~ InBins(n, c)
    BY <1>5, <1>21, ListFrame
<1>23. Unused(g, xe)
    <2>1. IsChunk(g, xe) => IsChunk(f, xe)
        BY <1>14 DEF Calm, IsChunk
    <2> QED
        BY <1>14, <1>18, <2>1 DEF Unused
<1>24. ~ InList(list, s, xe) /\ ~ InList(list, s, xm)
    <2>1. \A c \in Addr : InList(list, s, c) => IsChunk(g, c)
        BY <1>5, ListParts
    <2> QED
        BY <1>5, <1>14, <1>23, <2>1 DEF Unused
<1>25. /\ IsChunk(n, xm) /\ n.room[xm] = 4 /\ ~ InBins(n, xm) /\ n.mem[xm + 2] = pa
    <2>1. n.room[xm] = f.room[xm]
        BY <1>14, <1>18 DEF Calm
    <2>2. ~ InBins(n, xm) /\ \A i \in 0..(f.room[xm] + 1) : n.mem[xm + i] = f.mem[xm + i]
        BY <1>18, <1>20 DEF Calm
    <2>3. 2 \in 0..(f.room[xm] + 1)
        BY <1>13
    <2> QED
        BY <1>13, <1>14, <2>1, <2>2, <2>3 DEF IsChunk
<1>26. PICK e \in Addr : e = xe + 2 /\ e - 2 = xe /\ e - 1 = xe + 1 /\ e + 1 = xe + 3 /\ e + 2 = xe + 4
    BY <1>19
<1>27. PICK m \in Addr : m = xm + 2 /\ m - 2 = xm
    BY <1>15
<1>28. e # m
    BY <1>20, <1>26, <1>27
<1>29. Ready(n, list, s, e, m, pa)
    <2>1. n.mem[e - 1] = 3 /\ n.mem[e + 1] = 0 /\ n.mem[e + 2] = m /\ n.mem[m] = pa
        BY <1>3, <1>14, <1>17, <1>18, <1>25, <1>26, <1>27
    <2> QED
        BY <1>17, <1>18, <1>22, <1>24, <1>25, <1>26, <1>27, <1>28, <2>1 DEF Ready
<1>30. PICK c : c = [elem |-> e, data |-> m, pa |-> pa]
    OBVIOUS
<1>31. PICK t : t = <<c>> \o s
    OBVIOUS
<1>32. Prepended(n, list, s, e, m, t, r)
    <2>1. Pushed(n, list, e, r)
        BY <1>9, <1>18, <1>26
    <2> QED
        BY <1>29, <1>30, <1>31, <2>1, PushList
<1>33. cells2[l] = t /\ heads2[l] = list
    <2>1. Cell(r, pa) = c
        BY <1>30, <1>32 DEF Prepended, Cell
    <2> QED
        BY <1>1, <1>31, <2>1
<1>34. PICK D : D = {d \in Addr : InList(list, s, d)}
    OBVIOUS
<1>35. Calm(g, r, D)
    <2>1. PICK E : E = {d \in Addr : d = e - 2 \/ InList(list, s, d)}
        OBVIOUS
    <2>2. Calm(n, r, E) /\ Calm(g, n, D)
        BY <1>21, <1>32, <2>1 DEF Prepended, Calm
    <2>3. \A d \in Addr : d \in E => d \in D \/ Unused(g, d)
        BY <1>23, <1>26, <1>34, <2>1
    <2> QED
        BY <2>2, <2>3, CalmTwice
<1>36. OnlyFor(g, ls, heads, cells, r, D, l, heads2, cells2)
    <2>1. \A d \in Addr : d \in D => l \in ls /\ InList(heads[l], cells[l], d)
        BY <1>1, <1>34
    <2>2. ListOK(r, heads2[l], cells2[l])
        BY <1>32, <1>33 DEF Prepended
    <2>3. ASSUME NEW d \in Addr, InList(heads2[l], cells2[l], d)
          PROVE  ~ InBins(r, d) /\ (Unused(g, d) \/ (l \in ls /\ InList(heads[l], cells[l], d)))
        <3>1. InList(list, s, d) \/ d = xe \/ d = xm
            BY <1>26, <1>27, <1>32, <1>33, <2>3 DEF Prepended
        <3>2. ~ InBins(n, d)
            BY <1>18, <1>22, <1>25, <3>1
        <3>3. ~ InBins(r, d)
            BY <1>32, <3>2 DEF Prepended
        <3> QED
            BY <1>1, <1>14, <1>23, <3>1, <3>3
    <2>4. \A k \in ls \ {l} : heads2[k] = heads[k] /\ cells2[k] = cells[k]
        OBVIOUS
    <2> QED
        BY <2>1, <2>2, <2>3, <2>4 DEF OnlyFor
<1>37. HeapOK(r) /\ Roomy(r)
    BY <1>18, <1>32 DEF Prepended
<1>38. AllOK(r, ls \union {l}, heads2, cells2)
    BY <1>35, <1>36, <1>37, OneChanged
<1>39. ls \union {l} = ls
    OBVIOUS
<1> QED
    BY <1>37, <1>38, <1>39

(* mlist_pop() before free().                                              *)
Unlinked(g, list) ==
    IF OnlyOne(g, list)
    THEN [g EXCEPT !.mem[list] = Null, !.mem[list + 1] = Null]
    ELSE [g EXCEPT !.mem[list] = g.mem[g.mem[list] + 1]]
Popping(g, list, u) ==
    /\ SameHeap(g, u)
    /\ g.mem[list] = g.mem[list + 1] =>
            u.mem = [[g.mem EXCEPT ![list] = 0] EXCEPT ![list + 1] = 0]
    /\ g.mem[list] # g.mem[list + 1] =>
            u.mem = [g.mem EXCEPT ![list] = g.mem[g.mem[list] + 1]]
    /\ mlist_pop(g, list) = [free(u, g.mem[list]) EXCEPT !.ret = g.mem[g.mem[list] + 2]]
LEMMA PopFields ==
    ASSUME NEW g, DOMAIN g = Fields, NEW list, NEW u, u = Unlinked(g, list)
    PROVE  Popping(g, list, u)
<1>1. CASE g.mem[list] = g.mem[list + 1]
    <2>1. u = [g EXCEPT !.mem[list] = 0, !.mem[list + 1] = 0]
        BY <1>1, Sizes DEF Unlinked, OnlyOne
    <2>2. SameHeap(g, u) /\ u.mem = [[g.mem EXCEPT ![list] = 0] EXCEPT ![list + 1] = 0]
        BY <2>1 DEF SameHeap, Fields
    <2>3. mlist_pop(g, list) = [free(u, g.mem[list]) EXCEPT !.ret = g.mem[g.mem[list] + 2]]
        BY <1>1, <2>1, Sizes DEF mlist_pop, OnlyOne
    <2> QED
        BY <1>1, <2>2, <2>3 DEF Popping
<1>2. CASE g.mem[list] # g.mem[list + 1]
    <2>1. u = [g EXCEPT !.mem[list] = g.mem[g.mem[list] + 1]]
        BY <1>2 DEF Unlinked, OnlyOne
    <2>2. SameHeap(g, u) /\ u.mem = [g.mem EXCEPT ![list] = g.mem[g.mem[list] + 1]]
        BY <2>1 DEF SameHeap, Fields
    <2>3. mlist_pop(g, list) = [free(u, g.mem[list]) EXCEPT !.ret = g.mem[g.mem[list] + 2]]
        BY <1>2, <2>1 DEF mlist_pop, OnlyOne
    <2> QED
        BY <1>2, <2>2, <2>3 DEF Popping
<1> QED
    BY <1>1, <1>2

(* Unlinking the first of the cells s leaves the head of the list at the   *)
(* second, and all else as it was.                                         *)
Off(g, list, s, u) ==
    /\ Stores(g, u, {list - 2}) /\ u.mem[list] = NextOf(s, 2)
    /\ Len(s) > 1 => u.mem[list + 1] = g.mem[list + 1]
LEMMA UnlinkFirst ==
    ASSUME NEW g, HeapOK(g), NEW list, NEW s, ListOK(g, list, s), s # <<>>,
           \A c \in Addr : InList(list, s, c) => ~ InBins(g, c),
           NEW u, u = Unlinked(g, list)
    PROVE  Off(g, list, s, u)
<1>1. /\ list \in Addr /\ list - 2 \in Addr /\ InList(list, s, list - 2) /\ IsChunk(g, list - 2)
      /\ Len(s) \in Nat /\ Len(s) >= 1 /\ g.mem \in [Addr -> Int] /\ DOMAIN g = Fields
    <2>1. /\ list \in Addr /\ list - 2 \in Addr /\ InList(list, s, list - 2)
          /\ Len(s) \in Nat /\ (s = <<>> <=> Len(s) = 0)
        BY ListParts
    <2> QED
        BY <2>1 DEF ListOK, HeapOK, Typed
<1>2. list \in Nat /\ list + 1 \in Addr
    BY <1>1, Far
<1>3. /\ g.mem[list] = s[1].elem /\ g.mem[list + 1] = s[Len(s)].elem
      /\ g.mem[s[1].elem + 1] = NextOf(s, 2)
    <2>1. Links(g, list, s)
        BY DEF ListOK
    <2>2. 1 \in 1..Len(s) /\ ~ (1 > Len(s))
        BY <1>1
    <2>3. g.mem[s[1].elem + 1] = NextOf(s, 1 + 1)
        BY <2>1, <2>2 DEF Links
    <2> QED
        BY <2>1, <2>2, <2>3 DEF Links, NextOf
<1>4. Popping(g, list, u)
    BY <1>1, PopFields
<1>5. SameHeap(g, u)
    BY <1>4 DEF Popping
<1>6. PICK c \in Addr : c = list - 2 /\ ~ Unused(g, c) /\ list = c + 2 /\ list + 1 = c + 3
    <2>1. ~ Unused(g, list - 2)
        BY <1>1 DEF Unused
    <2>2. list = (list - 2) + 2 /\ list + 1 = (list - 2) + 3
        BY <1>2
    <2> QED
        BY <1>1, <2>1, <2>2
<1>7. 2 \in 0..(g.room[c] + 1) /\ 3 \in 0..(g.room[c] + 1)
    <2>1. g.room[c] \in {2, 4}
        BY <1>1, <1>6, WordsApart
    <2> QED
        BY <2>1
<1>8. CASE Len(s) = 1
    <2>1. g.mem[list] = g.mem[list + 1]
        BY <1>3, <1>8
    <2>2. u.mem = [[g.mem EXCEPT ![list] = 0] EXCEPT ![list + 1] = 0]
        BY <1>4, <2>1 DEF Popping
    <2>3. /\ u.mem \in [Addr -> Int] /\ u.mem[list] = 0
          /\ \A a \in Addr : a # list /\ a # list + 1 => u.mem[a] = g.mem[a]
        BY <1>1, <1>2, <2>2, SMTT(40)
    <2>4. NextOf(s, 2) = 0
        BY <1>8, Sizes DEF NextOf
    <2>5. Stores(g, u, {c})
        BY <1>5, <1>6, <1>7, <2>3 DEF Stores
    <2> QED
        BY <1>6, <1>8, <2>3, <2>4, <2>5 DEF Off
<1>9. CASE Len(s) # 1
    <2>1. 1 \in 1..Len(s) /\ Len(s) \in 1..Len(s) /\ 2 \in 1..Len(s)
        <3>1. PICK k \in Nat : k = Len(s) /\ k >= 1 /\ k # 1
            BY <1>1, <1>9
        <3>2. 1 \in 1..k /\ k \in 1..k /\ 2 \in 1..k
            BY <3>1
        <3> QED
            BY <3>1, <3>2
    <2>2. g.mem[list] # g.mem[list + 1]
        BY <1>3, <1>9, <2>1 DEF ListOK, Apart
    <2>3. u.mem = [g.mem EXCEPT ![list] = NextOf(s, 2)]
        <3>1. u.mem = [g.mem EXCEPT ![list] = g.mem[g.mem[list] + 1]]
            BY <1>4, <2>2 DEF Popping
        <3> QED
            BY <1>3, <3>1
    <2>4. NextOf(s, 2) \in Int
        <3>1. s[2].elem \in Addr
            BY <2>1, ListParts
        <3>2. s[2].elem \in Int
            BY <3>1, PageSizes
        <3> QED
            BY <3>2, Sizes DEF NextOf
    <2>5. /\ u.mem \in [Addr -> Int] /\ u.mem[list] = NextOf(s, 2)
          /\ \A a \in Addr : a # list => u.mem[a] = g.mem[a]
        BY <1>1, <2>3, <2>4
    <2>6. u.mem[list + 1] = g.mem[list + 1]
        BY <1>2, <2>5
    <2>7. Stores(g, u, {c})
        BY <1>5, <1>6, <1>7, <2>5 DEF Stores
    <2> QED
        BY <1>6, <2>5, <2>6, <2>7 DEF Off
<1> QED
    BY <1>8, <1>9

(* The cells after the first.                                              *)
LEMMA TailCells ==
    ASSUME NEW list, NEW s \in Seq(Cells), s # <<>>, NEW t, t = Tail(s)
    PROVE  /\ t \in Seq(Cells) /\ Len(s) \in Nat /\ Len(s) >= 1 /\ Len(t) = Len(s) - 1
           /\ \A k \in 1..Len(t) : k + 1 \in 1..Len(s) /\ t[k] = s[k + 1]
           /\ \A k \in 1..(Len(t) + 1) : NextOf(t, k) = NextOf(s, k + 1)
           /\ \A c : InList(list, t, c) => InList(list, s, c)
<1>1. /\ t \in Seq(Cells) /\ Len(s) \in Nat \ {0} /\ Len(t) = Len(s) - 1
      /\ \A k \in 1..(Len(s) - 1) : t[k] = s[k + 1]
    BY RestOf
<1>2. \A k \in 1..Len(t) : k + 1 \in 1..Len(s) /\ t[k] = s[k + 1]
    BY <1>1
<1>3. ASSUME NEW k \in 1..(Len(t) + 1) PROVE NextOf(t, k) = NextOf(s, k + 1)
    <2>1. CASE k > Len(t)
        <3>1. k + 1 > Len(s)
            BY <1>1, <2>1
        <3> QED
            BY <2>1, <3>1 DEF NextOf
    <2>2. CASE ~ (k > Len(t))
        <3>1. k \in 1..Len(t) /\ ~ (k + 1 > Len(s))
            BY <1>1, <2>2
        <3>2. t[k] = s[k + 1]
            BY <1>2, <3>1
        <3> QED
            BY <2>2, <3>1, <3>2 DEF NextOf
    <2> QED
        BY <2>1, <2>2
<1>4. \A c : InList(list, t, c) => InList(list, s, c)
    BY <1>2 DEF InList
<1>5. Len(s) >= 1
    BY <1>1
<1> QED
    BY <1>1, <1>2, <1>3, <1>4, <1>5

(* The result of mlist_pop(): r, with the element freed.                   *)
Popped(g, list, s, t, r) ==
    /\ HeapOK(r) /\ Roomy(r) /\ r.taken = g.taken /\ ListOK(r, list, t)
    /\ Calm(g, r, {list - 2, s[1].elem - 2})
    /\ \A c \in Addr : InBins(r, c) => InBins(g, c) \/ c = s[1].elem - 2
    /\ \A c \in Addr : InList(list, t, c) => InList(list, s, c) /\ c # s[1].elem - 2
    /\ r.mem[r.ret] = s[1].pa
LEMMA PopFirst ==
    ASSUME NEW g, HeapOK(g), Roomy(g), NEW list, NEW s, ListOK(g, list, s), s # <<>>,
           \A c \in Addr : InList(list, s, c) => ~ InBins(g, c),
           NEW r, r = mlist_pop(g, list), NEW t, t = Tail(s)
    PROVE  Popped(g, list, s, t, r)
<1>1. /\ list \in Addr /\ list - 2 \in Addr /\ InList(list, s, list - 2) /\ IsChunk(g, list - 2)
      /\ s \in Seq(Cells) /\ DOMAIN g = Fields /\ Apart(list, s) /\ Links(g, list, s)
    <2>1. list \in Addr /\ list - 2 \in Addr /\ InList(list, s, list - 2)
        BY ListParts
    <2> QED
        BY <2>1 DEF ListOK, HeapOK, Typed
<1>2. /\ t \in Seq(Cells) /\ Len(s) \in Nat /\ Len(s) >= 1 /\ Len(t) = Len(s) - 1
      /\ \A k \in 1..Len(t) : k + 1 \in 1..Len(s) /\ t[k] = s[k + 1]
      /\ \A k \in 1..(Len(t) + 1) : NextOf(t, k) = NextOf(s, k + 1)
      /\ \A c : InList(list, t, c) => InList(list, s, c)
    BY <1>1, TailCells
<1>3. 1 \in 1..Len(s) /\ Len(t) \in Nat
    BY <1>2
<1>4. PICK e : e = s[1].elem
    OBVIOUS
<1>5. /\ e \in Addr /\ e - 2 \in Addr /\ InList(list, s, e - 2) /\ IsChunk(g, e - 2)
      /\ g.room[e - 2] = 4 /\ e # list /\ ~ InBins(g, e - 2)
    <2>1. e \in Addr /\ e - 2 \in Addr /\ InList(list, s, e - 2)
        BY <1>3, <1>4, ListParts
    <2>2. IsChunk(g, e - 2) /\ g.room[e - 2] = 4 /\ e # list
        BY <1>3, <1>4 DEF ListOK, Apart
    <2> QED
        BY <2>1, <2>2
<1>6. g.mem[list] = e /\ g.mem[e - 1] = 3 /\ g.mem[e + 2] = s[1].data
    <2>1. g.mem[list] = e
        BY <1>1, <1>2, <1>4 DEF Links, NextOf
    <2>2. g.mem[e - 1] = 3 /\ g.mem[e + 2] = s[1].data
        BY <1>1, <1>3, <1>4, Sizes DEF Links
    <2> QED
        BY <2>1, <2>2
<1>7. PICK u : u = Unlinked(g, list)
    OBVIOUS
<1>8. PICK f : f = free(u, e)
    OBVIOUS
<1>9. SameHeap(g, u) /\ r = [f EXCEPT !.ret = s[1].data]
    <2>1. Popping(g, list, u)
        BY <1>1, <1>7, PopFields
    <2> QED
        BY <1>6, <1>8, <2>1 DEF Popping
<1>10. Off(g, list, s, u)
    BY <1>7, UnlinkFirst
<1>11. /\ HeapOK(u) /\ Roomy(u) /\ Calm(g, u, {list - 2})
       /\ \A c \in Addr : InBins(u, c) <=> InBins(g, c)
    <2>1. Stores(g, u, {list - 2})
        BY <1>10 DEF Off
    <2> QED
        BY <2>1, StoresCalm
<1>12. list \in Nat /\ e \in Nat /\ e - 2 # list - 2
    <2>1. list \in Nat /\ e \in Nat
        BY <1>1, <1>5, PageSizes
    <2> QED
        BY <1>5, <2>1
<1>13. u.mem[e - 1] = 3 /\ IsChunk(u, e - 2) /\ ~ InBins(u, e - 2) /\ u.room = g.room
    <2>1. e - 2 \notin {list - 2}
        BY <1>12
    <2>2. u.mem[e - 1] = g.mem[e - 1] /\ IsChunk(u, e - 2) /\ ~ InBins(u, e - 2)
        BY <1>5, <1>11, <2>1, ChunkWords
    <2> QED
        BY <1>6, <1>9, <2>2 DEF SameHeap
<1>14. PICK x \in Addr : x = e - 2 /\ x + 1 = e - 1 /\ x + 2 = e
    <2>1. (e - 2) + 1 = e - 1 /\ (e - 2) + 2 = e
        BY <1>12
    <2> QED
        BY <1>5, <2>1
<1>15. Put(u, x, f)
    <2>1. u.mem[x + 1] \in {2, 3}
        BY <1>13, <1>14
    <2>2. f = free(u, x + 2)
        BY <1>8, <1>14
    <2> QED
        BY <1>11, <1>13, <1>14, <2>1, <2>2, FreePuts
<1>16. /\ HeapOK(f) /\ f.room = u.room /\ Roomy(f)
       /\ \A c \in Addr : InBins(f, c) => InBins(u, c) \/ c = x
       /\ \A c \in Addr \ {x} : f.mem[c] = u.mem[c]
    <2>1. u.room[x] = 4
        BY <1>5, <1>13, <1>14
    <2> QED
        BY <1>15, <2>1 DEF Put
<1>17. SameHeap(f, r) /\ r.mem = f.mem /\ r.ret = s[1].data
    <2>1. DOMAIN f = Fields
        BY <1>16 DEF HeapOK, Typed
    <2> QED
        BY <1>9, <2>1 DEF SameHeap, Fields
<1>18. HeapOK(r) /\ Roomy(r) /\ \A c \in Addr : InBins(r, c) <=> InBins(f, c)
    <2>1. r.mem \in [Addr -> Int]
        BY <1>16, <1>17 DEF HeapOK, Typed
    <2> QED
        BY <1>16, <1>17, <2>1, StoreKeeps
<1>19. r.room = g.room
    BY <1>13, <1>16, <1>17 DEF SameHeap
<1>20. Calm(u, r, {x})
    <2>1. Calm(u, f, {x})
        BY <1>11, <1>13, <1>14, <1>15, PutCalm
    <2>2. r.room = f.room /\ r.mem = f.mem
        BY <1>17 DEF SameHeap
    <2> QED
        BY <1>18, <2>1, <2>2 DEF Calm
<1>21. PICK D : D = {list - 2, e - 2}
    OBVIOUS
<1>22. Calm(g, r, D)
    <2>1. Calm(g, u, D)
        BY <1>11, <1>21 DEF Calm
    <2>2. \A c \in Addr : c \in {x} => c \in D \/ Unused(g, c)
        BY <1>14, <1>21
    <2> QED
        BY <1>20, <2>1, <2>2, CalmTwice
<1>23. r.mem[list] = u.mem[list] /\ r.mem[list + 1] = u.mem[list + 1] /\ IsChunk(r, list - 2)
    <2>1. IsChunk(u, list - 2) /\ ~ InBins(u, list - 2) /\ list - 2 \notin {x}
        BY <1>1, <1>11, <1>12, <1>13, <1>14 DEF IsChunk
    <2> QED
        BY <1>1, <1>11, <1>20, <2>1, ChunkWords
<1>24. ASSUME NEW a \in Addr, IsChunk(g, a - 2), InList(list, s, a - 2), a # list, a # e
       PROVE  /\ r.mem[a - 1] = g.mem[a - 1] /\ r.mem[a] = g.mem[a] /\ r.mem[a + 1] = g.mem[a + 1]
              /\ g.room[a - 2] = 4 => r.mem[a + 2] = g.mem[a + 2]
              /\ IsChunk(r, a - 2)
    <2>1. a \in Nat
        BY PageSizes
    <2>2. a - 2 # list - 2 /\ a - 2 # e - 2
        BY <1>12, <1>24, <2>1
    <2>3. a - 2 \in Addr
        BY <1>24 DEF IsChunk
    <2>4. a - 2 \notin D /\ ~ InBins(g, a - 2)
        BY <1>21, <1>24, <2>2, <2>3
    <2> QED
        BY <1>22, <1>24, <2>4, ChunkWords
<1>25. \A k \in 1..Len(t) : /\ k + 1 \in 1..Len(s) /\ k + 1 # 1 /\ t[k] = s[k + 1]
                            /\ k + 1 \in 1..(Len(t) + 1)
    BY <1>2, <1>3
<1>26. \A k \in 1..Len(t) : /\ t[k].elem # list /\ t[k].elem # e
                            /\ t[k].data # list /\ t[k].data # e
    <2> SUFFICES ASSUME NEW k \in 1..Len(t)
                 PROVE  /\ t[k].elem # list /\ t[k].elem # e /\ t[k].data # list /\ t[k].data # e
        OBVIOUS
    <2>1. PICK j \in 1..Len(s) : j # 1 /\ t[k] = s[j]
        BY <1>25
    <2> QED
        BY <1>1, <1>3, <1>4, <2>1 DEF Apart
<1>27. ASSUME NEW k \in 1..Len(t)
       PROVE  /\ IsChunk(r, t[k].elem - 2) /\ r.room[t[k].elem - 2] = 4
              /\ IsChunk(r, t[k].data - 2) /\ r.room[t[k].data - 2] = 4
              /\ r.mem[t[k].elem - 1] = 3 /\ r.mem[t[k].elem + 1] = NextOf(t, k + 1)
              /\ r.mem[t[k].elem + 2] = t[k].data /\ r.mem[t[k].data] = t[k].pa
    <2>1. PICK j \in 1..Len(s) : j = k + 1 /\ t[k] = s[j] /\ j \in 1..(Len(t) + 1)
        BY <1>25
    <2>2. PICK a, d : a = s[j].elem /\ d = s[j].data
        OBVIOUS
    <2>3. a \in Addr /\ d \in Addr /\ InList(list, s, a - 2) /\ InList(list, s, d - 2)
        BY <2>2, ListParts
    <2>4. /\ IsChunk(g, a - 2) /\ g.room[a - 2] = 4 /\ IsChunk(g, d - 2) /\ g.room[d - 2] = 4
        BY <2>2 DEF ListOK
    <2>5. a # list /\ a # e /\ d # list /\ d # e
        BY <1>26, <2>1, <2>2
    <2>6. /\ g.mem[a - 1] = 3 /\ g.mem[a + 1] = NextOf(s, j + 1)
          /\ g.mem[a + 2] = d /\ g.mem[d] = s[j].pa
        BY <1>1, <2>2, Sizes DEF Links
    <2>7. /\ r.mem[a - 1] = g.mem[a - 1] /\ r.mem[a + 1] = g.mem[a + 1]
          /\ r.mem[a + 2] = g.mem[a + 2] /\ IsChunk(r, a - 2)
        BY <1>24, <2>3, <2>4, <2>5
    <2>8. r.mem[d] = g.mem[d] /\ IsChunk(r, d - 2)
        BY <1>24, <2>3, <2>4, <2>5
    <2>9. NextOf(s, j + 1) = NextOf(t, k + 1)
        BY <1>2, <2>1
    <2> QED
        BY <1>19, <2>1, <2>2, <2>4, <2>6, <2>7, <2>8, <2>9
<1>28. r.mem[list] = NextOf(t, 1)
    <2>1. 1 \in 1..(Len(t) + 1) /\ 1 + 1 = 2
        BY <1>3
    <2>2. NextOf(t, 1) = NextOf(s, 2)
        BY <1>2, <2>1
    <2> QED
        BY <1>10, <1>23, <2>2 DEF Off
<1>29. t # <<>> => r.mem[list + 1] = t[Len(t)].elem
    <2> SUFFICES ASSUME t # <<>> PROVE r.mem[list + 1] = t[Len(t)].elem
        OBVIOUS
    <2>1. Len(t) # 0
        BY <1>2, Around
    <2>2. Len(t) \in 1..Len(t) /\ Len(s) > 1 /\ Len(t) + 1 = Len(s)
        BY <1>2, <1>3, <2>1
    <2>3. t[Len(t)] = s[Len(s)]
        BY <1>2, <2>2
    <2>4. g.mem[list + 1] = s[Len(s)].elem
        BY <1>1 DEF Links
    <2> QED
        BY <1>10, <1>23, <2>2, <2>3, <2>4 DEF Off
<1>30. Links(r, list, t)
    BY <1>27, <1>28, <1>29, Sizes DEF Links
<1>31. Apart(list, t)
    <2> SUFFICES ASSUME NEW k \in 1..Len(t), NEW j \in 1..Len(t)
                 PROVE  /\ t[k].elem # t[j].data
                        /\ t[k].elem = t[j].elem \/ t[k].data = t[j].data => k = j
        BY <1>26 DEF Apart
    <2>1. PICK a \in 1..Len(s) : a = k + 1 /\ t[k] = s[a]
        BY <1>25
    <2>2. PICK b \in 1..Len(s) : b = j + 1 /\ t[j] = s[b]
        BY <1>25
    <2>3. /\ s[a].elem # s[b].data
          /\ s[a].elem = s[b].elem \/ s[a].data = s[b].data => a = b
        BY <1>1 DEF Apart
    <2>4. a = b => k = j
        BY <1>3, <2>1, <2>2
    <2> QED
        BY <2>1, <2>2, <2>3, <2>4
<1>32. ListOK(r, list, t)
    BY <1>1, <1>2, <1>23, <1>27, <1>30, <1>31 DEF ListOK
<1>33. r.mem[r.ret] = s[1].pa
    <2>1. PICK d : d = s[1].data
        OBVIOUS
    <2>2. d \in Addr /\ InList(list, s, d - 2)
        BY <1>3, <2>1, ListParts
    <2>3. IsChunk(g, d - 2) /\ d # list /\ d # e
        BY <1>3, <1>4, <2>1 DEF ListOK, Apart
    <2>4. r.mem[d] = g.mem[d]
        BY <1>24, <2>2, <2>3
    <2>5. g.mem[d] = s[1].pa
        BY <1>1, <1>3, <2>1 DEF Links
    <2> QED
        BY <1>17, <2>1, <2>4, <2>5
<1>34. r.taken = g.taken
    <2>1. Freed(u, BinOf(u.mem[e - 2 + 1]), e - 2, f)
        <3>1. DOMAIN u = Fields
            BY <1>9 DEF SameHeap
        <3> QED
            BY <1>8, <3>1, FreeFields
    <2>2. f.taken = u.taken
        BY <2>1 DEF Freed
    <2> QED
        BY <1>9, <1>17, <2>2 DEF SameHeap
<1>35. \A c \in Addr : InBins(r, c) => InBins(g, c) \/ c = e - 2
    BY <1>11, <1>14, <1>16, <1>18
<1>36. ASSUME NEW c \in Addr, InList(list, t, c) PROVE InList(list, s, c) /\ c # e - 2
    <2>1. CASE c = list - 2
        BY <1>1, <1>12, <2>1
    <2>2. CASE c # list - 2
        <3>1. PICK k \in 1..Len(t) : c = t[k].elem - 2 \/ c = t[k].data - 2
            BY <1>36, <2>2 DEF InList
        <3>2. PICK a, d : a = t[k].elem /\ d = t[k].data
            OBVIOUS
        <3>3. a \in Nat /\ d \in Nat /\ a # e /\ d # e
            BY <1>26, <1>32, <3>2, ListParts, PageSizes
        <3>4. a - 2 # e - 2 /\ d - 2 # e - 2
            BY <1>12, <3>3
        <3> QED
            BY <1>2, <1>36, <3>1, <3>2, <3>4
    <2> QED
        BY <2>1, <2>2
<1> QED
    BY <1>4, <1>18, <1>21, <1>22, <1>32, <1>33, <1>34, <1>35, <1>36 DEF Popped

(* The first cell of list l is taken off.                                  *)
Without(g, ls, heads, cells, l, heads2, cells2, r) ==
    /\ AllOK(r, ls, heads2, cells2) /\ Roomy(r) /\ r.taken = g.taken
    /\ r.mem[r.ret] = cells[l][1].pa
LEMMA CellPopped ==
    ASSUME NEW g, NEW ls, NEW heads, NEW cells, AllOK(g, ls, heads, cells), Roomy(g),
           NEW l \in ls, cells[l] # <<>>, NEW r, r = mlist_pop(g, heads[l]),
           NEW heads2, NEW cells2,
           Becoming(ls, heads, cells, l, heads[l], Tail(cells[l]), heads2, cells2)
    PROVE  Without(g, ls, heads, cells, l, heads2, cells2, r)
<1> USE DEF Becoming
<1>1. PICK list, s, t : list = heads[l] /\ s = cells[l] /\ t = Tail(s)
    OBVIOUS
<1>2. HeapOK(g) /\ ListOK(g, list, s) /\ \A c \in Addr : InList(list, s, c) => ~ InBins(g, c)
    BY <1>1 DEF AllOK
<1>3. Popped(g, list, s, t, r)
    BY <1>1, <1>2, PopFirst
<1>4. PICK D : D = {list - 2, s[1].elem - 2}
    OBVIOUS
<1>5. Calm(g, r, D) /\ HeapOK(r)
    BY <1>3, <1>4 DEF Popped
<1>6. InList(list, s, list - 2) /\ InList(list, s, s[1].elem - 2)
    <2>1. InList(list, s, list - 2) /\ Len(s) \in Nat /\ (s = <<>> <=> Len(s) = 0)
        BY <1>2, ListParts
    <2>2. 1 \in 1..Len(s)
        BY <1>1, <2>1
    <2> QED
        BY <1>2, <2>1, <2>2, ListParts
<1>7. OnlyFor(g, ls, heads, cells, r, D, l, heads2, cells2)
    <2>1. \A k \in ls \ {l} : heads2[k] = heads[k] /\ cells2[k] = cells[k]
        OBVIOUS
    <2>2. \A c \in Addr : c \in D => l \in ls /\ InList(heads[l], cells[l], c)
        BY <1>1, <1>4, <1>6
    <2>3. heads2[l] = list /\ cells2[l] = t
        BY <1>1
    <2>4. ListOK(r, heads2[l], cells2[l])
        BY <1>3, <2>3 DEF Popped
    <2>5. ASSUME NEW c \in Addr, InList(heads2[l], cells2[l], c)
          PROVE  ~ InBins(r, c) /\ (Unused(g, c) \/ (l \in ls /\ InList(heads[l], cells[l], c)))
        <3>1. InList(list, s, c) /\ c # s[1].elem - 2
            BY <1>3, <2>3, <2>5 DEF Popped
        <3>2. ~ InBins(r, c)
            BY <1>2, <1>3, <3>1 DEF Popped
        <3> QED
            BY <1>1, <3>1, <3>2
    <2> QED
        BY <2>1, <2>2, <2>4, <2>5 DEF OnlyFor
<1>8. AllOK(r, ls \union {l}, heads2, cells2)
    BY <1>5, <1>7, OneChanged
<1>9. ls \union {l} = ls
    OBVIOUS
<1> QED
    BY <1>1, <1>3, <1>8, <1>9 DEF Popped, Without

(* A list is empty when its head says so.                                  *)
LEMMA EmptyIsNull ==
    ASSUME NEW g, HeapOK(g), NEW list, NEW s, ListOK(g, list, s)
    PROVE  mlist_is_empty(g, list) <=> s = <<>>
<1>1. Len(s) \in Nat /\ (s = <<>> <=> Len(s) = 0) /\ g.mem[list] = NextOf(s, 1)
    BY ListParts DEF ListOK, Links
<1>2. CASE s = <<>>
    BY <1>1, <1>2 DEF mlist_is_empty, NextOf
<1>3. CASE s # <<>>
    <2>1. 1 \in 1..Len(s) /\ ~ (1 > Len(s))
        BY <1>1, <1>3
    <2>2. PICK e : e = s[1].elem
        OBVIOUS
    <2>3. e \in Addr /\ IsChunk(g, e - 2)
        BY <2>1, <2>2, ListParts DEF ListOK
    <2>4. e > 8 /\ e \in Nat
        BY <2>3, Far
    <2>5. e # 0
        BY <2>4
    <2> QED
        BY <1>1, <1>3, <2>1, <2>2, <2>5, Sizes DEF mlist_is_empty, NextOf
<1> QED
    BY <1>2, <1>3

(* What the calls made of malloc() and free() do not undo.                 *)
LEMMA InitOnward ==
    ASSUME NEW g, DOMAIN g = Fields
    PROVE  Onward(g, mlist_init(g))
<1>1. PICK n, r : n = malloc(g, 2) /\ r = mlist_init(g)
    OBVIOUS
<1>2. SameHeap(n, r) /\ Onward(g, n)
    BY <1>1, InitFields, MallocOnward
<1>3. Onward(g, r)
    BY <1>2 DEF SameHeap, Onward
<1> QED
    BY <1>1, <1>3

LEMMA AddOnward ==
    ASSUME NEW g, DOMAIN g = Fields, NEW list, NEW pa
    PROVE  Onward(g, add_mapping(g, list, pa))
<1>1. PICK f, r : f = Mapping(g, pa) /\ r = add_mapping(g, list, pa)
    OBVIOUS
<1>2. PICK n : n = new_mlist_elem(f, f.ret)
    OBVIOUS
<1>3. PICK n1, n2 : n1 = malloc(g, 4) /\ n2 = malloc(f, 3)
    OBVIOUS
<1>4. SameHeap(n1, f)
    BY <1>1, <1>3, MappingFields
<1>5. DOMAIN f = Fields
    BY <1>4 DEF SameHeap
<1>6. SameHeap(n2, n)
    BY <1>2, <1>3, <1>5, ElemFields
<1>7. r = mlist_push(f, list, f.ret)
    BY <1>1, AddIsPush
<1>8. Pushed(n, list, n.ret, r)
    BY <1>2, <1>5, <1>7, PushFields
<1>9. SameHeap(n, r)
    BY <1>8 DEF Pushed
<1>10. Onward(g, n1) /\ Onward(f, n2)
    BY <1>3, <1>5, MallocOnward
<1>11. Onward(g, r)
    BY <1>4, <1>6, <1>9, <1>10 DEF SameHeap, Onward
<1> QED
    BY <1>1, <1>11

-----------------------------------------------------------------------------
(* THE SYSTEM                                                              *)

LEMMA ForeignFields ==
    ASSUME NEW g, DOMAIN g = Fields, NEW index
    PROVE  Onward(g, FreeForeign(g, index)) /\ FreeForeign(g, index).taken = g.taken
<1>1. PICK r : r = FreeForeign(g, index)
    OBVIOUS
<1>2. DOMAIN r = Fields /\ r.foreign = g.foreign /\ r.taken = g.taken
    BY <1>1 DEF FreeForeign, Fields
<1>3. Onward(g, r) /\ r.taken = g.taken
    BY <1>2 DEF Onward
<1> QED
    BY <1>1, <1>3

(* A failed execve() leaves the lists alone.                               *)
LEMMA FailKeeps ==
    ASSUME NEW g, NEW ls, NEW heads, NEW cells, AllOK(g, ls, heads, cells),
           NEW i1 \in {0, 1, 2}, NEW i2 \in {0, 1, 2}, NEW i3 \in {0, 1, 2},
           NEW n, n = mlist_init(g), NEW f, f = free(n, n.ret),
           NEW r, r = FreeForeign(FreeForeign(FreeForeign(f, i1), i2), i3),
           r.taken <= HeapPages, r.foreign = 0
    PROVE  AllOK(r, ls, heads, cells)
<1>1. PICK f1, f2 : f1 = FreeForeign(f, i1) /\ f2 = FreeForeign(f1, i2)
    OBVIOUS
<1>2. r = FreeForeign(f2, i3)
    BY <1>1
<1>3. HeapOK(g) /\ DOMAIN g = Fields
    BY DEF AllOK, HeapOK, Typed
<1>4. DOMAIN n = Fields
    BY <1>3, InitOnward DEF Onward
<1>5. DOMAIN f = Fields /\ f.taken = n.taken /\ f.foreign = n.foreign
    <2>1. Freed(n, BinOf(n.mem[n.ret - 2 + 1]), n.ret - 2, f)
        BY <1>4, FreeFields
    <2> QED
        BY <2>1 DEF Freed
<1>6. /\ Onward(f, f1) /\ f1.taken = f.taken
    BY <1>1, <1>5, ForeignFields
<1>7. /\ Onward(f1, f2) /\ f2.taken = f1.taken
    BY <1>1, <1>6, ForeignFields DEF Onward
<1>8. /\ Onward(f2, r) /\ r.taken = f2.taken
    BY <1>2, <1>7, ForeignFields DEF Onward
<1>9. n.taken <= HeapPages /\ n.foreign = 0
    BY <1>5, <1>6, <1>7, <1>8 DEF Onward
<1>10. PICK x \in Addr : Made(g, 2, x, n)
    BY <1>3, <1>9, InitMakes
<1>11. /\ n.ret = x + 2 /\ HeapOK(n) /\ Roomy(n) /\ IsChunk(n, x) /\ ~ InBins(n, x)
       /\ Unused(g, x) /\ Calm(g, n, {}) /\ n.mem[x + 1] = 2
    BY <1>10 DEF Made
<1>12. Put(n, x, f)
    <2>1. f = free(n, x + 2) /\ n.mem[x + 1] \in {2, 3}
        BY <1>11
    <2> QED
        BY <1>11, <2>1, FreePuts
<1>13. HeapOK(f) /\ Calm(n, f, {x})
    <2>1. HeapOK(f)
        BY <1>12 DEF Put
    <2> QED
        BY <1>11, <1>12, <2>1, PutCalm
<1>14. Calm(g, f, {})
    BY <1>11, <1>13, CalmTwice
<1>15. HeapOK(f1) /\ f1.room = f.room /\ f1.mem = f.mem /\ \A c \in Addr : InBins(f1, c) => InBins(f, c)
    BY <1>1, <1>13, ForeignKeeps
<1>16. HeapOK(f2) /\ f2.room = f1.room /\ f2.mem = f1.mem /\ \A c \in Addr : InBins(f2, c) => InBins(f1, c)
    BY <1>1, <1>15, ForeignKeeps
<1>17. HeapOK(r) /\ r.room = f2.room /\ r.mem = f2.mem /\ \A c \in Addr : InBins(r, c) => InBins(f2, c)
    BY <1>2, <1>16, ForeignKeeps
<1>18. /\ r.room = f.room /\ r.mem = f.mem /\ \A c \in Addr : InBins(r, c) => InBins(f, c)
    BY <1>15, <1>16, <1>17
<1>19. Calm(g, r, {})
    BY <1>14, <1>18 DEF Calm
<1> QED
    BY <1>17, <1>19, AllKept

LEMMA SlotsApart == Old \notin Procs
BY HeapProcs DEF Old

LEMMA NewHeapOK ==
    HeapOK(NewHeap) /\ NewHeap.fastbin[BinOf(2)] = Null /\ NewHeap.taken = 0
<1>1. PICK g : g = NewHeap
    OBVIOUS
<1>2. /\ DOMAIN g = Fields /\ g.mem = [a \in Addr |-> 0] /\ g.fastbin = [b \in Bins |-> 0]
      /\ g.p_start = 0 /\ g.p_end = 0 /\ g.taken = 0 /\ g.chains = [b \in Bins |-> <<>>]
      /\ g.room = [a \in Addr |-> 0] /\ g.small = 0 /\ g.foreign = 0
    BY <1>1, Sizes DEF NewHeap, Fields
<1>3. Typed(g)
    <2>1. g.mem \in [Addr -> Int] /\ g.room \in [Addr -> Nat]
        BY <1>2
    <2>2. g.fastbin \in [Bins -> Int]
        BY <1>2
    <2>3. g.chains \in [Bins -> Seq(Addr)]
        <3>1. PICK e \in Seq(Addr) : e = <<>>
            BY EmptySeq
        <3>2. g.chains = [b \in Bins |-> e]
            BY <1>2, <3>1
        <3> QED
            BY <3>2
    <2>4. g.taken \in 0..HeapPages
        BY <1>2, PageSizes
    <2> QED
        BY <1>2, <2>1, <2>2, <2>3, <2>4 DEF Typed
<1>4. \A c \in Addr : ~ (g.room[c] > 0)
    BY <1>2
<1>5. Shape(g)
    BY <1>2, <1>4 DEF Shape
<1>6. Len(<<>>) = 0
    BY EmptySeq
<1>7. \A b \in Bins : ChainOK(g, b, g.chains[b])
    <2> SUFFICES ASSUME NEW b \in Bins PROVE ChainOK(g, b, g.chains[b])
        OBVIOUS
    <2>1. g.chains[b] = <<>> /\ g.fastbin[b] = 0
        BY <1>2
    <2> QED
        BY <1>6, <2>1, Sizes DEF ChainOK, PointsTo, Ends
<1>8. NoTwice(g)
    BY <1>2, <1>6 DEF NoTwice
<1>9. HeapOK(g)
    BY <1>2, <1>3, <1>5, <1>7, <1>8 DEF HeapOK
<1>10. g.fastbin[BinOf(2)] = Null
    BY <1>2, Sizes
<1> QED
    BY <1>1, <1>2, <1>9, <1>10

(* The heap after the list of the kernel's slot was made.                  *)
LEMMA FirstHeap ==
    ASSUME NEW r, r = mlist_init(NewHeap), NEW heads, NEW cells, r.foreign = 0
    PROVE  AllOK(r, {}, heads, cells)
<1>1. PICK g, n : g = NewHeap /\ n = malloc(g, 2)
    OBVIOUS
<1>2. HeapOK(g) /\ g.fastbin[BinOf(2)] = Null /\ g.taken = 0 /\ DOMAIN g = Fields
    BY <1>1, NewHeapOK DEF HeapOK, Typed
<1>3. SameHeap(n, r)
    BY <1>1, <1>2, InitFields
<1>4. PICK a : Fresh(g, 2, a, n)
    BY <1>1, <1>2, FreshFields
<1>5. r.taken <= HeapPages
    <2>1. n.taken = a.taken /\ (a.taken = g.taken + 1 \/ a.taken = g.taken)
        BY <1>4 DEF Fresh, Extended
    <2>2. r.taken = n.taken
        BY <1>3 DEF SameHeap
    <2> QED
        BY <1>2, <2>1, <2>2, HeapSizes
<1>6. PICK x \in Addr : Made(g, 2, x, r)
    BY <1>1, <1>2, <1>5, InitMakes
<1>7. HeapOK(r) /\ Calm(g, r, {})
    BY <1>6 DEF Made
<1> QED
    BY <1>7 DEF AllOK

(* The parts of the invariant, while nothing foreign was handed out.       *)
LEMMA InvParts ==
    ASSUME IInv, h.foreign = 0
    PROVE  /\ CallOK /\ AllOK(h, Now, Heads, CellsOf) /\ (pc # "idle" => Roomy(h))
           /\ used \subseteq Procs /\ Old \notin used /\ DOMAIN h = Fields
           /\ \A k \in Procs : Heads[k] = mapping_list[k] /\ CellsOf[k] = lists[k]
           /\ Heads[Old] = old_list /\ CellsOf[Old] = old
<1>1. CallOK /\ AllOK(h, Now, Heads, CellsOf) /\ (pc # "idle" => Roomy(h))
    BY DEF IInv
<1>2. used \subseteq Procs /\ Old \notin used
    BY <1>1, SlotsApart DEF CallOK
<1>3. DOMAIN h = Fields
    BY <1>1 DEF AllOK, HeapOK, Typed
<1>4. /\ \A k \in Procs : Heads[k] = mapping_list[k] /\ CellsOf[k] = lists[k]
      /\ Heads[Old] = old_list /\ CellsOf[Old] = old
    BY SlotsApart DEF Heads, CellsOf, Slots
<1> QED
    BY <1>1, <1>2, <1>3, <1>4

LEMMA ListType ==
    ASSUME NEW g, NEW ls, NEW heads, NEW cells, AllOK(g, ls, heads, cells), NEW l \in ls
    PROVE  heads[l] \in Int /\ cells[l] \in Seq(Cells)
<1>1. heads[l] \in Addr /\ cells[l] \in Seq(Cells)
    BY DEF AllOK, ListOK
<1> QED
    BY <1>1, PageSizes

LEMMA InitInv == Init => IInv
<1> SUFFICES ASSUME Init, h.foreign = 0 PROVE IInv
    BY DEF IInv
<1>1. AllOK(h, {}, Heads, CellsOf)
    BY FirstHeap DEF Init
<1>2. used = {} /\ pc = "idle" /\ pages = 0
    BY DEF Init
<1>3. Now = {}
    BY <1>2 DEF Now
<1>4. mapping_list \in [Procs -> Int]
    BY DEF Init, Null
<1>5. lists \in [Procs -> Seq(Cells)]
    <2>1. PICK e \in Seq(Cells) : e = <<>>
        BY EmptySeq
    <2>2. lists = [p \in Procs |-> e]
        BY <2>1 DEF Init
    <2> QED
        BY <2>2
<1>6. CallOK
    BY <1>2, <1>4, <1>5 DEF CallOK
<1> QED
    BY <1>1, <1>2, <1>3, <1>6 DEF IInv

LEMMA ExecInv ==
    ASSUME IInv, NEW p \in Procs, Exec(p)
    PROVE  IInv'
<1> SUFFICES ASSUME h'.foreign = 0 PROVE IInv'
    BY DEF IInv
<1>1. /\ pc = "idle" /\ h.foreign = 0 /\ p \notin used /\ h' = mlist_init(h) /\ h'.taken <= HeapPages
      /\ mapping_list' = [mapping_list EXCEPT ![p] = h'.ret] /\ used' = used \union {p}
      /\ lists' = [lists EXCEPT ![p] = <<>>] /\ pc' = "exec" /\ np' = p
      /\ old_list' = old_list /\ old' = old /\ pages' = pages
    BY DEF Exec, Idle, FirstUnused, Becomes
<1>2. /\ CallOK /\ AllOK(h, Now, Heads, CellsOf) /\ used \subseteq Procs
      /\ \A k \in Procs : Heads[k] = mapping_list[k] /\ CellsOf[k] = lists[k]
    BY <1>1, InvParts
<1>3. /\ mapping_list \in [Procs -> Int] /\ lists \in [Procs -> Seq(Cells)]
    BY <1>2 DEF CallOK
<1>4. Now = used /\ Now' = used \union {p}
    BY <1>1 DEF Now
<1>5. /\ \A k \in Procs : Heads'[k] = mapping_list'[k] /\ CellsOf'[k] = lists'[k]
    BY SlotsApart DEF Heads, CellsOf, Slots
<1>6. /\ \A k \in used : Heads'[k] = Heads[k] /\ CellsOf'[k] = CellsOf[k]
      /\ Heads'[p] = h'.ret /\ CellsOf'[p] = <<>>
    BY <1>1, <1>2, <1>3, <1>5
<1>7. AllOK(h', used \union {p}, Heads', CellsOf') /\ Roomy(h')
    <2>1. Becoming(used, Heads, CellsOf, p, h'.ret, <<>>, Heads', CellsOf')
        BY <1>6 DEF Becoming
    <2> QED
        BY <1>1, <1>2, <1>4, <2>1, ListAdded
<1>8. Heads'[p] \in Int
    BY <1>7, ListType
<1>9. mapping_list' \in [Procs -> Int]
    <2>1. h'.ret \in Int
        BY <1>6, <1>8
    <2> QED
        BY <1>1, <1>3, <2>1
<1>10. lists' \in [Procs -> Seq(Cells)]
    <2>1. PICK e \in Seq(Cells) : e = <<>>
        BY EmptySeq
    <2> QED
        BY <1>1, <1>3, <2>1
<1>11. CallOK'
    BY <1>1, <1>2, <1>9, <1>10 DEF CallOK
<1> QED
    BY <1>4, <1>7, <1>11 DEF IInv

LEMMA AllocPageInv ==
    ASSUME IInv, AllocPage
    PROVE  IInv'
<1> SUFFICES ASSUME h'.foreign = 0 PROVE IInv'
    BY DEF IInv
<1>1. /\ pc = "exec" /\ h.foreign = 0 /\ h' = add_mapping(h, mapping_list[np], pages + 1)
      /\ h'.taken <= HeapPages /\ lists' = [lists EXCEPT ![np] = <<Cell(h', pages + 1)>> \o @]
      /\ pages' = pages + 1 /\ pc' \in {"idle", "exec"} /\ (pc' = "exec" => np' = np)
      /\ mapping_list' = mapping_list /\ used' = used /\ old_list' = old_list /\ old' = old
    BY DEF AllocPage, Becomes
<1>2. /\ CallOK /\ AllOK(h, Now, Heads, CellsOf) /\ Roomy(h) /\ used \subseteq Procs
      /\ \A k \in Procs : Heads[k] = mapping_list[k] /\ CellsOf[k] = lists[k]
    BY <1>1, InvParts
<1>3. /\ mapping_list \in [Procs -> Int] /\ lists \in [Procs -> Seq(Cells)]
      /\ np \in used /\ np \in Procs /\ pages \in Nat
    BY <1>1, <1>2 DEF CallOK
<1>4. Now = used /\ Now' = used
    BY <1>1 DEF Now
<1>5. \A k \in Procs : Heads'[k] = mapping_list'[k] /\ CellsOf'[k] = lists'[k]
    BY SlotsApart DEF Heads, CellsOf, Slots
<1>6. PICK l, s : l = np /\ s = lists[l]
    OBVIOUS
<1>7. PICK t : t = <<Cell(h', pages + 1)>> \o s
    OBVIOUS
<1>8. lists' = [lists EXCEPT ![l] = t]
    BY <1>1, <1>6, <1>7
<1>9. /\ \A k \in used : Heads'[k] = Heads[k]
      /\ \A k \in used \ {l} : CellsOf'[k] = CellsOf[k]
      /\ CellsOf'[l] = t /\ CellsOf[l] = s /\ Heads[l] = mapping_list[np]
    BY <1>1, <1>2, <1>3, <1>5, <1>6, <1>8
<1>10. AllOK(h', used, Heads', CellsOf') /\ Roomy(h')
    <2>1. PICK pa \in Int : pa = pages + 1
        BY <1>3
    <2>2. h' = add_mapping(h, Heads[l], pa)
        BY <1>1, <1>9, <2>1
    <2>3. CellsOf'[l] = <<Cell(h', pa)>> \o CellsOf[l]
        BY <1>7, <1>9, <2>1
    <2>4. l \in used /\ AllOK(h, used, Heads, CellsOf)
        BY <1>2, <1>3, <1>4, <1>6
    <2>5. Becoming(used, Heads, CellsOf, l, Heads[l], <<Cell(h', pa)>> \o CellsOf[l], Heads', CellsOf')
        BY <1>9, <2>3, <2>4 DEF Becoming
    <2> QED
        BY <1>1, <1>2, <2>2, <2>4, <2>5, MappingAdded
<1>11. lists' \in [Procs -> Seq(Cells)]
    <2>1. t \in Seq(Cells)
        BY <1>3, <1>6, <1>9, <1>10, ListType
    <2> QED
        BY <1>3, <1>8, <2>1
<1>12. CallOK'
    BY <1>1, <1>2, <1>3, <1>11 DEF CallOK
<1> QED
    BY <1>4, <1>10, <1>12 DEF IInv

LEMMA ExecFailsInv ==
    ASSUME IInv, NEW p \in Procs, ExecFails(p)
    PROVE  IInv'
<1> SUFFICES ASSUME h'.foreign = 0 PROVE IInv'
    BY DEF IInv
<1>1. PICK i1 \in {0, 1, 2}, i2 \in {0, 1, 2}, i3 \in {0, 1, 2} :
        Becomes(FreeForeign(FreeForeign(FreeForeign(free(mlist_init(h), mlist_init(h).ret), i1), i2), i3))
    BY DEF ExecFails
<1>2. PICK n, f : n = mlist_init(h) /\ f = free(n, n.ret)
    OBVIOUS
<1>3. h' = FreeForeign(FreeForeign(FreeForeign(f, i1), i2), i3) /\ h'.taken <= HeapPages
    BY <1>1, <1>2 DEF Becomes
<1>4. /\ pc = "idle" /\ h.foreign = 0 /\ pc' = pc /\ mapping_list' = mapping_list /\ used' = used
      /\ caller' = caller /\ np' = np /\ old_list' = old_list /\ pages' = pages
      /\ lists' = lists /\ old' = old
    BY DEF ExecFails, Idle
<1>5. CallOK /\ AllOK(h, Now, Heads, CellsOf)
    BY <1>4, InvParts
<1>6. AllOK(h', Now, Heads, CellsOf)
    BY <1>2, <1>3, <1>5, FailKeeps
<1>7. Now' = Now /\ Heads' = Heads /\ CellsOf' = CellsOf
    BY <1>4 DEF Now, Heads, CellsOf
<1>8. CallOK'
    BY <1>4, <1>5 DEF CallOK
<1> QED
    BY <1>4, <1>6, <1>7, <1>8 DEF IInv

LEMMA ForkInv ==
    ASSUME IInv, NEW p \in Procs, NEW q \in Procs, Fork(p, q)
    PROVE  IInv'
<1> SUFFICES ASSUME h'.foreign = 0 PROVE IInv'
    BY DEF IInv
<1>1. PICK child, parent : child = mlist_init(h) /\ parent = mlist_init(child)
    OBVIOUS
<1>2. /\ h' = parent /\ parent.taken <= HeapPages
      /\ mapping_list' = [mapping_list EXCEPT ![q] = child.ret, ![p] = parent.ret]
    BY <1>1 DEF Fork, Becomes
<1>3. /\ pc = "idle" /\ h.foreign = 0 /\ p \in used /\ q \notin used /\ p # q
      /\ used' = used \union {q} /\ old_list' = mapping_list[p] /\ old' = lists[p]
      /\ lists' = [lists EXCEPT ![p] = <<>>, ![q] = <<>>]
      /\ pc' = "fork" /\ caller' = p /\ np' = q /\ pages' = pages
    BY DEF Fork, Idle, FirstUnused
<1>4. /\ CallOK /\ AllOK(h, Now, Heads, CellsOf) /\ used \subseteq Procs /\ Old \notin used
      /\ DOMAIN h = Fields
      /\ \A k \in Procs : Heads[k] = mapping_list[k] /\ CellsOf[k] = lists[k]
    BY <1>3, InvParts
<1>5. /\ mapping_list \in [Procs -> Int] /\ lists \in [Procs -> Seq(Cells)] /\ pages \in Nat
    BY <1>4 DEF CallOK
<1>6. PICK ls : ls = (used \ {p}) \union {Old}
    OBVIOUS
<1>7. Now = used /\ Now' = (ls \union {q}) \union {p}
    BY <1>3, <1>6 DEF Now
<1>8. /\ \A k \in Procs : Heads'[k] = mapping_list'[k] /\ CellsOf'[k] = lists'[k]
      /\ Heads'[Old] = old_list' /\ CellsOf'[Old] = old'
    BY SlotsApart DEF Heads, CellsOf, Slots
<1>9. q # Old /\ p # Old /\ q \notin ls /\ p \notin ls \union {q}
    BY <1>3, <1>6, SlotsApart
<1>10. /\ \A k \in used \ {p} : Heads'[k] = Heads[k] /\ CellsOf'[k] = CellsOf[k]
       /\ Heads'[Old] = Heads[p] /\ CellsOf'[Old] = CellsOf[p]
       /\ Heads'[q] = child.ret /\ CellsOf'[q] = <<>>
       /\ Heads'[p] = parent.ret /\ CellsOf'[p] = <<>>
    <2>1. ASSUME NEW k \in used \ {p} PROVE Heads'[k] = Heads[k] /\ CellsOf'[k] = CellsOf[k]
        <3>1. k \in Procs /\ k # p /\ k # q
            BY <1>3, <1>4
        <3>2. mapping_list'[k] = mapping_list[k] /\ lists'[k] = lists[k]
            BY <1>2, <1>3, <1>5, <3>1
        <3> QED
            BY <1>4, <1>8, <3>1, <3>2
    <2>2. mapping_list'[q] = child.ret /\ mapping_list'[p] = parent.ret
        BY <1>2, <1>3, <1>5
    <2>3. lists'[q] = <<>> /\ lists'[p] = <<>>
        BY <1>3, <1>5
    <2> QED
        BY <1>3, <1>4, <1>8, <2>1, <2>2, <2>3
<1>11. AllOK(h, ls, Heads', CellsOf')
    <2>1. PICK was : was = [k \in ls |-> IF k = Old THEN p ELSE k]
        OBVIOUS
    <2>2. ASSUME NEW k \in ls
          PROVE  was[k] \in used /\ Heads'[k] = Heads[was[k]] /\ CellsOf'[k] = CellsOf[was[k]]
        <3>1. CASE k = Old
            BY <1>3, <1>10, <2>1, <3>1
        <3>2. CASE k # Old
            <4>1. k \in used \ {p} /\ was[k] = k
                BY <1>6, <2>1, <3>2
            <4> QED
                BY <1>10, <4>1
        <3> QED
            BY <3>1, <3>2
    <2>3. \A k, m \in ls : was[k] = was[m] => k = m
        BY <1>6, <2>1
    <2>4. AllOK(h, used, Heads, CellsOf)
        BY <1>4, <1>7
    <2> QED
        BY <2>2, <2>3, <2>4, Renamed
<1>12. /\ DOMAIN child = Fields /\ child.taken <= HeapPages /\ child.foreign = 0
       /\ parent.foreign = 0
    <2>1. Onward(h, child)
        BY <1>1, <1>4, InitOnward
    <2>2. Onward(child, parent)
        <3>1. DOMAIN child = Fields
            BY <2>1 DEF Onward
        <3> QED
            BY <1>1, <3>1, InitOnward
    <2>3. child.taken \in Nat
        <3>1. h.taken \in Nat
            BY <1>4 DEF AllOK, HeapOK, Typed
        <3> QED
            BY <2>1, <3>1 DEF Onward
    <2>4. parent.taken \in Nat /\ parent.taken >= child.taken /\ (parent.foreign = 0 => child.foreign = 0)
        BY <2>2, <2>3 DEF Onward
    <2>5. HeapPages \in Nat
        BY PageSizes
    <2>6. DOMAIN child = Fields
        BY <2>1 DEF Onward
    <2> QED
        BY <1>2, <2>3, <2>4, <2>5, <2>6
<1>13. AllOK(child, ls \union {q}, Heads', CellsOf')
    <2>1. Becoming(ls, Heads', CellsOf', q, child.ret, <<>>, Heads', CellsOf')
        BY <1>10 DEF Becoming
    <2> QED
        BY <1>1, <1>9, <1>11, <1>12, <2>1, ListAdded
<1>14. AllOK(parent, (ls \union {q}) \union {p}, Heads', CellsOf') /\ Roomy(parent)
    <2>1. Becoming(ls \union {q}, Heads', CellsOf', p, parent.ret, <<>>, Heads', CellsOf')
        BY <1>10 DEF Becoming
    <2> QED
        BY <1>1, <1>2, <1>9, <1>12, <1>13, <2>1, ListAdded
<1>15. mapping_list' \in [Procs -> Int]
    <2>1. Heads'[p] \in Int /\ Heads'[q] \in Int
        BY <1>14, ListType
    <2>2. child.ret \in Int /\ parent.ret \in Int
        BY <1>10, <2>1
    <2> QED
        BY <1>2, <1>5, <2>2
<1>16. lists' \in [Procs -> Seq(Cells)]
    <2>1. PICK e \in Seq(Cells) : e = <<>>
        BY EmptySeq
    <2> QED
        BY <1>3, <1>5, <2>1
<1>17. CallOK'
    BY <1>3, <1>4, <1>5, <1>15, <1>16 DEF CallOK
<1> QED
    BY <1>2, <1>7, <1>14, <1>17 DEF IInv

LEMMA CopyPageInv ==
    ASSUME IInv, CopyPage
    PROVE  IInv'
<1> SUFFICES ASSUME h'.foreign = 0 PROVE IInv'
    BY DEF IInv
<1>1. PICK popped : popped = mlist_pop(h, old_list)
    OBVIOUS
<1>2. PICK back : back = add_mapping(popped, mapping_list[caller], popped.mem[popped.ret])
    OBVIOUS
<1>3. PICK pa1, pa2 : pa1 = Head(old).pa /\ pa2 = pages + 1
    OBVIOUS
<1>4. /\ h' = add_mapping(back, mapping_list[np], pa2) /\ h'.taken <= HeapPages
      /\ lists' = [lists EXCEPT ![caller] = <<Cell(back, pa1)>> \o @,
                                ![np] = <<Cell(h', pa2)>> \o @]
    BY <1>1, <1>2, <1>3 DEF CopyPage, Becomes
<1>5. /\ pc = "fork" /\ h.foreign = 0 /\ ~ mlist_is_empty(h, old_list) /\ old' = Tail(old)
      /\ pages' = pages + 1 /\ mapping_list' = mapping_list /\ used' = used /\ pc' = pc
      /\ caller' = caller /\ np' = np /\ old_list' = old_list
    BY DEF CopyPage
<1>6. /\ CallOK /\ AllOK(h, Now, Heads, CellsOf) /\ Roomy(h) /\ used \subseteq Procs /\ Old \notin used
      /\ \A k \in Procs : Heads[k] = mapping_list[k] /\ CellsOf[k] = lists[k]
      /\ Heads[Old] = old_list /\ CellsOf[Old] = old
    BY <1>5, InvParts
<1>7. /\ mapping_list \in [Procs -> Int] /\ lists \in [Procs -> Seq(Cells)]
      /\ np \in used /\ caller \in used /\ np # caller /\ pages \in Nat
      /\ np \in Procs /\ caller \in Procs
    BY <1>5, <1>6 DEF CallOK
<1>8. PICK ls : ls = used \union {Old}
    OBVIOUS
<1>9. Now = ls /\ Now' = ls
    BY <1>5, <1>8 DEF Now
<1>10. PICK c1, n1 : c1 = caller /\ n1 = np
    OBVIOUS
<1>11. /\ c1 \in ls /\ n1 \in ls /\ Old \in ls /\ c1 # n1 /\ c1 # Old /\ n1 # Old
    BY <1>6, <1>7, <1>8, <1>10
<1>12. old # <<>>
    <2>1. HeapOK(h) /\ ListOK(h, old_list, old)
        BY <1>6, <1>9, <1>11 DEF AllOK
    <2> QED
        BY <1>5, <2>1, EmptyIsNull
<1>13. PICK s1, s2 : s1 = CellsOf[c1] /\ s2 = CellsOf[n1]
    OBVIOUS
<1>14. PICK t1, t2 : t1 = <<Cell(back, pa1)>> \o s1 /\ t2 = <<Cell(h', pa2)>> \o s2
    OBVIOUS
<1>15. PICK A : A = [k \in ls |-> IF k = Old THEN Tail(old) ELSE CellsOf[k]]
    OBVIOUS
<1>16. PICK B : B = [k \in ls |-> IF k = Old THEN Tail(old) ELSE IF k = c1 THEN t1 ELSE CellsOf[k]]
    OBVIOUS
<1>17. /\ \A k \in Procs : Heads'[k] = mapping_list'[k] /\ CellsOf'[k] = lists'[k]
       /\ Heads'[Old] = old_list' /\ CellsOf'[Old] = old'
    BY SlotsApart DEF Heads, CellsOf, Slots
<1>18. /\ AllOK(popped, ls, Heads, A) /\ Roomy(popped) /\ popped.taken = h.taken
       /\ popped.mem[popped.ret] = pa1 /\ pa1 \in Int
    <2>1. Becoming(ls, Heads, CellsOf, Old, Heads[Old], Tail(CellsOf[Old]), Heads, A)
        BY <1>6, <1>11, <1>15 DEF Becoming
    <2>2. AllOK(h, ls, Heads, CellsOf) /\ popped = mlist_pop(h, Heads[Old]) /\ CellsOf[Old] # <<>>
        BY <1>1, <1>6, <1>9, <1>12
    <2>3. /\ AllOK(popped, ls, Heads, A) /\ Roomy(popped) /\ popped.taken = h.taken
          /\ popped.mem[popped.ret] = CellsOf[Old][1].pa
        <3>1. Without(h, ls, Heads, CellsOf, Old, Heads, A, popped)
            BY <1>6, <1>11, <2>1, <2>2, CellPopped
        <3> QED
            BY <3>1 DEF Without
    <2>4. old \in Seq(Cells)
        BY <1>6, <1>11, <2>2, ListType
    <2>5. Head(old) = old[1] /\ Head(old) \in Cells
        BY <1>12, <2>4, HeadTailProperties
    <2>6. Head(old).pa \in Int
        BY <2>5 DEF Cells
    <2> QED
        BY <1>3, <1>6, <2>3, <2>5, <2>6
<1>19. back = add_mapping(popped, Heads[c1], pa1)
    BY <1>2, <1>6, <1>7, <1>10, <1>18
<1>20. /\ back.taken <= HeapPages /\ back.foreign = 0 /\ h'.foreign = 0
    <2>1. DOMAIN popped = Fields /\ popped.taken \in Nat
        BY <1>18 DEF AllOK, HeapOK, Typed
    <2>2. Onward(popped, back)
        BY <1>19, <2>1, AddOnward
    <2>3. DOMAIN back = Fields /\ back.taken \in Nat
        BY <2>1, <2>2 DEF Onward
    <2>4. Onward(back, h')
        BY <1>4, <2>3, AddOnward
    <2>5. h'.taken \in Nat /\ h'.taken >= back.taken /\ back.foreign = 0
        BY <2>3, <2>4 DEF Onward
    <2>6. HeapPages \in Nat
        BY PageSizes
    <2> QED
        BY <1>4, <2>3, <2>5, <2>6
<1>21. AllOK(back, ls, Heads, B) /\ Roomy(back)
    <2>1. A[c1] = s1 /\ B[c1] = t1 /\ \A k \in ls \ {c1} : B[k] = A[k]
        BY <1>11, <1>13, <1>15, <1>16
    <2>2. Becoming(ls, Heads, A, c1, Heads[c1], <<Cell(back, pa1)>> \o A[c1], Heads, B)
        BY <1>14, <2>1 DEF Becoming
    <2> QED
        BY <1>11, <1>18, <1>19, <1>20, <2>2, MappingAdded
<1>22. /\ \A k \in ls : Heads'[k] = Heads[k]
       /\ \A k \in ls \ {n1} : CellsOf'[k] = B[k]
       /\ CellsOf'[n1] = t2 /\ B[n1] = s2 /\ CellsOf'[c1] = t1
    <2>1. lists' = [lists EXCEPT ![c1] = t1, ![n1] = t2]
        BY <1>4, <1>6, <1>7, <1>10, <1>13, <1>14
    <2>2. c1 \in Procs /\ n1 \in Procs
        BY <1>7, <1>10
    <2>3. /\ lists'[c1] = t1 /\ lists'[n1] = t2
          /\ \A k \in Procs : k # c1 /\ k # n1 => lists'[k] = lists[k]
        BY <1>7, <1>11, <2>1, <2>2
    <2>4. CellsOf'[n1] = t2 /\ CellsOf'[c1] = t1 /\ CellsOf'[Old] = Tail(old)
        BY <1>5, <1>17, <2>2, <2>3
    <2>5. B[n1] = s2 /\ B[c1] = t1 /\ B[Old] = Tail(old)
        BY <1>11, <1>13, <1>16
    <2>6. ASSUME NEW k \in ls, k # n1, k # c1, k # Old PROVE CellsOf'[k] = B[k]
        <3>1. k \in Procs
            BY <1>6, <1>8, <2>6
        <3>2. CellsOf'[k] = lists[k] /\ CellsOf[k] = lists[k] /\ B[k] = CellsOf[k]
            BY <1>6, <1>16, <1>17, <2>3, <2>6, <3>1
        <3> QED
            BY <3>2
    <2>7. ASSUME NEW k \in ls PROVE Heads'[k] = Heads[k]
        <3>1. CASE k = Old
            BY <1>5, <1>6, <1>17, <3>1
        <3>2. CASE k # Old
            <4>1. k \in Procs
                BY <1>6, <1>8, <3>2
            <4> QED
                BY <1>5, <1>6, <1>17, <4>1
        <3> QED
            BY <3>1, <3>2
    <2> QED
        BY <2>4, <2>5, <2>6, <2>7
<1>23. AllOK(h', ls, Heads', CellsOf') /\ Roomy(h')
    <2>1. Becoming(ls, Heads, B, n1, Heads[n1], <<Cell(h', pa2)>> \o B[n1], Heads', CellsOf')
        BY <1>11, <1>14, <1>22 DEF Becoming
    <2>2. h' = add_mapping(back, Heads[n1], pa2) /\ pa2 \in Int
        BY <1>3, <1>4, <1>6, <1>7, <1>10
    <2> QED
        BY <1>4, <1>11, <1>20, <1>21, <2>1, <2>2, MappingAdded
<1>24. lists' \in [Procs -> Seq(Cells)]
    <2>1. t1 \in Seq(Cells) /\ t2 \in Seq(Cells)
        BY <1>11, <1>22, <1>23, ListType
    <2>2. lists' = [lists EXCEPT ![c1] = t1, ![n1] = t2]
        BY <1>4, <1>6, <1>7, <1>10, <1>13, <1>14
    <2> QED
        BY <1>7, <2>1, <2>2
<1>25. CallOK'
    BY <1>5, <1>6, <1>7, <1>24 DEF CallOK
<1> QED
    BY <1>9, <1>23, <1>25 DEF IInv

LEMMA ForkDoneInv ==
    ASSUME IInv, ForkDone
    PROVE  IInv'
<1>1. /\ pc = "fork" /\ h.foreign = 0 /\ pc' = "idle" /\ h' = h /\ mapping_list' = mapping_list
      /\ used' = used /\ pages' = pages /\ lists' = lists
    BY DEF ForkDone
<1>2. /\ CallOK /\ AllOK(h, Now, Heads, CellsOf) /\ used \subseteq Procs /\ Old \notin used
      /\ \A k \in Procs : Heads[k] = mapping_list[k] /\ CellsOf[k] = lists[k]
    BY <1>1, InvParts
<1>3. used \subseteq Now /\ Now' = used
    BY <1>1 DEF Now
<1>4. \A k \in Procs : Heads'[k] = mapping_list'[k] /\ CellsOf'[k] = lists'[k]
    BY SlotsApart DEF Heads, CellsOf, Slots
<1>5. AllOK(h, used, Heads', CellsOf')
    <2>1. PICK was : was = [k \in used |-> k]
        OBVIOUS
    <2>2. /\ \A k \in used : /\ was[k] \in Now /\ Heads'[k] = Heads[was[k]]
                             /\ CellsOf'[k] = CellsOf[was[k]]
          /\ \A k, m \in used : was[k] = was[m] => k = m
        BY <1>1, <1>2, <1>3, <1>4, <2>1
    <2> QED
        BY <1>2, <2>2, Renamed
<1>6. CallOK'
    BY <1>1, <1>2 DEF CallOK
<1> QED
    BY <1>1, <1>3, <1>5, <1>6 DEF IInv

-----------------------------------------------------------------------------
(* THE THEOREMS                                                            *)

LEMMA NextInv ==
    ASSUME IInv, [Next]_vars
    PROVE  IInv'
<1>1. CASE UNCHANGED vars
    BY <1>1 DEF vars, IInv, CallOK, Now, Heads, CellsOf
<1>2. CASE AllocPage
    BY <1>2, AllocPageInv
<1>3. CASE CopyPage
    BY <1>3, CopyPageInv
<1>4. CASE ForkDone
    BY <1>4, ForkDoneInv
<1>5. ASSUME NEW p \in Procs, Exec(p) PROVE IInv'
    BY <1>5, ExecInv
<1>6. ASSUME NEW p \in Procs, ExecFails(p) PROVE IInv'
    BY <1>6, ExecFailsInv
<1>7. ASSUME NEW p \in Procs, NEW q \in Procs, Fork(p, q) PROVE IInv'
    BY <1>7, ForkInv
<1> QED
    BY <1>1, <1>2, <1>3, <1>4, <1>5, <1>6, <1>7 DEF Next

(* The inductive invariant: as long as malloc() returned only memory of    *)
(* the heap, its bins and all mapping lists are in order and apart.        *)
THEOREM Invariance == Spec => []IInv
BY InitInv, NextInv, PTL DEF Spec

(* malloc() of stdlib.c never hands out a chunk smaller than what was      *)
(* asked for, although heads and elements of lists share a bin, and the    *)
(* chunks lie apart, each within a page that the heap took.                *)
THEOREM ChunksLargeEnough == Spec => []ChunksFit
<1>1. IInv => ChunksFit
    <2> SUFFICES ASSUME IInv, h.foreign = 0
                 PROVE  /\ h.small = 0
                        /\ \A c \in Chunks : \E page \in 1..h.taken :
                              page * PG_SIZE <= c /\ EndOf(c) <= (page + 1) * PG_SIZE
                        /\ \A c, d \in Chunks : c < d => EndOf(c) <= d
        BY DEF ChunksFit
    <2>1. HeapOK(h)
        BY InvParts DEF AllOK
    <2>2. h.small = 0 /\ Shape(h)
        BY <2>1 DEF HeapOK
    <2>3. ASSUME NEW c \in Chunks
          PROVE  \E page \in 1..h.taken :
                    page * PG_SIZE <= c /\ EndOf(c) <= (page + 1) * PG_SIZE
        BY <2>2 DEF Shape, Chunks, InPage, EndOf
    <2>4. \A c, d \in Chunks : c < d => EndOf(c) <= d
        BY <2>2 DEF Shape, Chunks, EndOf
    <2> QED
        BY <2>2, <2>3, <2>4
<1> QED
    BY <1>1, Invariance, PTL

(* The chunks of a list are those in ChunksOf.                             *)
LEMMA ChunksInList ==
    ASSUME NEW list, NEW s \in Seq(Cells), NEW c, c \in ChunksOf(list, s)
    PROVE  InList(list, s, c)
<1>1. DOMAIN s = 1..Len(s)
    BY LenProperties
<1> QED
    BY <1>1 DEF ChunksOf, InList

(* What free() of stdlib.c puts into the bins is in none of the lists that *)
(* fork() and exec() build, and in the bins only once; so malloc() cannot  *)
(* hand out a chunk twice, also while fork() takes a list apart.           *)
THEOREM FreeChunksUnused == Spec => []FreeIsFree
<1>1. ASSUME IInv, h.foreign = 0, NEW c \in InUse PROVE c \in Addr => ~ InBins(h, c)
    <2>1. /\ CallOK /\ AllOK(h, Now, Heads, CellsOf) /\ used \subseteq Procs
          /\ \A k \in Procs : Heads[k] = mapping_list[k] /\ CellsOf[k] = lists[k]
          /\ Heads[Old] = old_list /\ CellsOf[Old] = old
        BY <1>1, InvParts
    <2>2. CASE \E p \in used : c \in ChunksOf(mapping_list[p], lists[p])
        <3>1. PICK p \in used : c \in ChunksOf(mapping_list[p], lists[p])
            BY <2>2
        <3>2. p \in Now /\ Heads[p] = mapping_list[p] /\ CellsOf[p] = lists[p]
            BY <2>1 DEF Now
        <3>3. CellsOf[p] \in Seq(Cells)
            BY <2>1, <3>2, ListType
        <3>4. InList(Heads[p], CellsOf[p], c)
            BY <3>1, <3>2, <3>3, ChunksInList
        <3> QED
            BY <2>1, <3>2, <3>4 DEF AllOK
    <2>3. CASE pc = "fork" /\ c \in ChunksOf(old_list, old)
        <3>1. Old \in Now
            BY <2>3 DEF Now
        <3>2. old \in Seq(Cells)
            BY <2>1, <3>1, ListType
        <3>3. InList(Heads[Old], CellsOf[Old], c)
            BY <2>1, <2>3, <3>2, ChunksInList
        <3> QED
            BY <2>1, <3>1, <3>3 DEF AllOK
    <2> QED
        BY <1>1, <2>2, <2>3 DEF InUse
<1>2. IInv => FreeIsFree
    <2> SUFFICES ASSUME IInv, h.foreign = 0 PROVE FreeIsFree
        BY DEF FreeIsFree
    <2>1. HeapOK(h)
        BY InvParts DEF AllOK
    <2>2. ASSUME NEW b \in Bins PROVE DOMAIN h.chains[b] = 1..Len(h.chains[b])
        <3>1. h.chains[b] \in Seq(Addr)
            BY <2>1 DEF HeapOK, Typed
        <3> QED
            BY <3>1, LenProperties
    <2>3. ASSUME NEW b \in Bins, NEW s, s = h.chains[b]
          PROVE  /\ PointsTo(h.fastbin[b], s, 1, {Null, Foreign})
                 /\ \A n \in DOMAIN s : /\ s[n] \notin InUse
                                        /\ PointsTo(h.mem[s[n]], s, n + 1, {Null, Foreign})
        <3>1. ChainOK(h, b, s) /\ DOMAIN s = 1..Len(s)
            BY <2>1, <2>2, <2>3 DEF HeapOK
        <3>2. ASSUME NEW n \in 1..Len(s)
              PROVE  s[n] \notin InUse /\ PointsTo(h.mem[s[n]], s, n + 1, Ends)
            <4>1. IsChunk(h, s[n]) /\ PointsTo(h.mem[s[n]], s, n + 1, Ends)
                BY <3>1 DEF ChainOK
            <4>2. InBins(h, s[n]) /\ s[n] \in Addr
                BY <2>3, <4>1 DEF InBins, IsChunk
            <4> QED
                BY <1>1, <4>1, <4>2
        <3>3. PointsTo(h.fastbin[b], s, 1, Ends)
            BY <3>1 DEF ChainOK
        <3> QED
            BY <3>1, <3>2, <3>3 DEF Ends
    <2>4. ASSUME NEW b \in Bins, NEW c \in Bins,
                 NEW n \in DOMAIN h.chains[b], NEW m \in DOMAIN h.chains[c],
                 h.chains[b][n] = h.chains[c][m]
          PROVE  b = c /\ n = m
        <3>1. n \in 1..Len(h.chains[b]) /\ m \in 1..Len(h.chains[c])
            BY <2>2
        <3> QED
            BY <2>1, <2>4, <3>1 DEF HeapOK, NoTwice
    <2> QED
        BY <2>3, <2>4 DEF FreeIsFree
<1> QED
    BY <1>2, Invariance, PTL

LEMMA ListHolds ==
    ASSUME NEW list, NEW s, HeapOK(h), ListOK(h, list, s)
    PROVE  Holds(list, s)
<1>1. /\ s \in Seq(Cells) /\ Len(s) \in Nat /\ (s = <<>> <=> Len(s) = 0)
      /\ \A n \in 1..Len(s) : s[n].elem \in Addr
    BY ListParts
<1>2. DOMAIN s = 1..Len(s) /\ Links(h, list, s)
    BY <1>1, LenProperties DEF ListOK
<1>3. PICK elems : elems = [n \in DOMAIN s |-> s[n].elem]
    OBVIOUS
<1>4. elems \in [1..Len(s) -> Addr] /\ \A n \in 1..Len(s) : elems[n] = s[n].elem
    BY <1>1, <1>2, <1>3
<1>5. Len(elems) = Len(s)
    <2>1. elems \in Seq(Addr)
        BY <1>1, <1>4, SeqDef
    <2>2. Len(elems) \in Nat /\ DOMAIN elems = 1..Len(elems) /\ DOMAIN elems = 1..Len(s)
        BY <1>4, <2>1, LenProperties
    <2>3. \A i, j \in Nat : 1..i = 1..j => i = j
        <3> SUFFICES ASSUME NEW i \in Nat, NEW j \in Nat, 1..i = 1..j PROVE i = j
            OBVIOUS
        <3>1. (i > 0 => i \in 1..j) /\ (j > 0 => j \in 1..i)
            OBVIOUS
        <3> QED
            BY <3>1
    <2> QED
        BY <1>1, <2>2, <2>3
<1>6. \A n \in 1..(Len(s) + 1) : \A x : x = NextOf(s, n) => PointsTo(x, elems, n, {Null})
    BY <1>1, <1>4, <1>5 DEF NextOf, PointsTo
<1>7. PointsTo(h.mem[list], elems, 1, {Null})
    <2>1. 1 \in 1..(Len(s) + 1)
        BY <1>1
    <2> QED
        BY <1>2, <1>6, <2>1 DEF Links
<1>8. s # <<>> => h.mem[list + 1] = elems[Len(s)]
    <2> SUFFICES ASSUME s # <<>> PROVE h.mem[list + 1] = elems[Len(s)]
        OBVIOUS
    <2>1. Len(s) \in 1..Len(s)
        BY <1>1
    <2> QED
        BY <1>2, <1>4, <2>1 DEF Links
<1>9. ASSUME NEW n \in 1..Len(s)
      PROVE  /\ elems[n] # Null /\ PointsTo(h.mem[elems[n] + 1], elems, n + 1, {Null})
             /\ h.mem[elems[n] + 2] = s[n].data /\ h.mem[s[n].data] = s[n].pa
    <2>1. PICK e : e = elems[n] /\ e = s[n].elem
        BY <1>4
    <2>2. e \in Addr /\ IsChunk(h, e - 2)
        BY <1>1, <2>1 DEF ListOK
    <2>3. e \in Nat /\ e > 8
        BY <2>2, Far
    <2>4. /\ h.mem[e + 1] = NextOf(s, n + 1) /\ h.mem[e + 2] = s[n].data
          /\ h.mem[s[n].data] = s[n].pa
        BY <1>2, <2>1 DEF Links
    <2>5. n + 1 \in 1..(Len(s) + 1)
        BY <1>1
    <2>6. PointsTo(h.mem[e + 1], elems, n + 1, {Null})
        BY <1>6, <2>4, <2>5
    <2>7. e # Null
        BY <2>3, Sizes
    <2> QED
        BY <2>1, <2>4, <2>6, <2>7
<1> QED
    BY <1>2, <1>3, <1>7, <1>8, <1>9 DEF Holds

(* mlist_push() and mlist_pop() keep stacks: reading the memory of any     *)
(* mapping list from its head finds what was pushed and not yet popped, in *)
(* the middle of exec() and of the loop in copy_pagetable() too.           *)
THEOREM ListsAreStacks == Spec => []ListsAreSequences
<1>1. IInv => ListsAreSequences
    <2> SUFFICES ASSUME IInv, h.foreign = 0
                 PROVE  /\ \A p \in used : Holds(mapping_list[p], lists[p])
                        /\ pc = "fork" => Holds(old_list, old)
        BY DEF ListsAreSequences
    <2>1. /\ AllOK(h, Now, Heads, CellsOf) /\ used \subseteq Procs
          /\ \A k \in Procs : Heads[k] = mapping_list[k] /\ CellsOf[k] = lists[k]
          /\ Heads[Old] = old_list /\ CellsOf[Old] = old
        BY InvParts
    <2>2. HeapOK(h)
        BY <2>1 DEF AllOK
    <2>3. ASSUME NEW p \in used PROVE Holds(mapping_list[p], lists[p])
        <3>1. ListOK(h, mapping_list[p], lists[p])
            BY <2>1 DEF AllOK, Now
        <3> QED
            BY <2>2, <3>1, ListHolds
    <2>4. ASSUME pc = "fork" PROVE Holds(old_list, old)
        <3>1. ListOK(h, old_list, old)
            BY <2>1, <2>4 DEF AllOK, Now
        <3> QED
            BY <2>2, <3>1, ListHolds
    <2> QED
        BY <2>3, <2>4
<1> QED
    BY <1>1, Invariance, PTL

=============================================================================
