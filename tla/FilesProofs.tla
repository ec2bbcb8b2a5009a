---------------------------- MODULE FilesProofs -----------------------------
(***************************************************************************)
(* Proofs about the descriptor layer, for every size of the two tables.    *)
(***************************************************************************)
EXTENDS Files, FiniteSetTheorems, TLAPS

(* The descriptors of table (b, i) that lead to entry x.                   *)
Refs(b, i, x) == {fd \in Fd : b[fd] # 0 /\ i[fd] = x}

(* The descriptor table is finite.                                         *)
LEMMA FdFinite == IsFiniteSet(Fd)
BY FS_Interval, SizesAssumption DEF Fd

(* So are the descriptors of an entry: References() is a number.           *)
LEMMA RefsFinite ==
    ASSUME NEW b, NEW i, NEW x
    PROVE  IsFiniteSet(Refs(b, i, x)) /\ Cardinality(Refs(b, i, x)) \in Nat
<1>1. Refs(b, i, x) \subseteq Fd
    BY DEF Refs
<1> QED
    BY <1>1, FdFinite, FS_Subset, FS_CardinalityType

(* Table (c, j) differs from (b, i) in descriptor fd only.                 *)
OthersSame(b, i, c, j, fd) == \A g \in Fd \ {fd} : c[g] = b[g] /\ j[g] = i[g]

(* 1 if descriptor fd leads to x, else 0.                                  *)
Leads(b, i, fd, x) == IF b[fd] # 0 /\ i[fd] = x THEN 1 ELSE 0

(* A call that changes one descriptor, as open(), close(), dup(), dup3()   *)
(* and fcntl() do, changes the references to an entry by at most one.      *)
LEMMA OneDescriptor ==
    ASSUME NEW b, NEW i, NEW c, NEW j, NEW fd \in Fd, NEW x, OthersSame(b, i, c, j, fd)
    PROVE  Cardinality(Refs(c, j, x)) =
               Cardinality(Refs(b, i, x)) - Leads(b, i, fd, x) + Leads(c, j, fd, x)
<1>1. IsFiniteSet(Refs(b, i, x)) /\ Cardinality(Refs(b, i, x)) \in Nat
    BY RefsFinite
<1>2. fd \in Refs(b, i, x) <=> b[fd] # 0 /\ i[fd] = x
    BY DEF Refs
<1>3. CASE Leads(b, i, fd, x) = Leads(c, j, fd, x)
    <2>1. Refs(c, j, x) = Refs(b, i, x)
        BY <1>3 DEF Refs, Leads, OthersSame
    <2> QED
        BY <1>1, <1>3, <2>1 DEF Leads
<1>4. CASE Leads(b, i, fd, x) = 0 /\ Leads(c, j, fd, x) = 1
    <2>1. Refs(c, j, x) = Refs(b, i, x) \union {fd} /\ fd \notin Refs(b, i, x)
        BY <1>4 DEF Refs, Leads, OthersSame
    <2>2. Cardinality(Refs(b, i, x) \union {fd}) = Cardinality(Refs(b, i, x)) + 1
        BY <1>1, <2>1, FS_AddElement
    <2> QED
        BY <1>1, <1>4, <2>1, <2>2
<1>5. CASE Leads(b, i, fd, x) = 1 /\ Leads(c, j, fd, x) = 0
    <2>1. Refs(c, j, x) = Refs(b, i, x) \ {fd} /\ fd \in Refs(b, i, x)
        BY <1>5 DEF Refs, Leads, OthersSame
    <2>2. Cardinality(Refs(b, i, x) \ {fd}) = Cardinality(Refs(b, i, x)) - 1
        BY <1>1, <2>1, FS_RemoveElement
    <2> QED
        BY <1>1, <1>5, <2>1, <2>2
<1> QED
    BY <1>3, <1>4, <1>5 DEF Leads

-----------------------------------------------------------------------------
(* The type invariant of fds[] and of the descriptor table.                *)
THEOREM TypeCorrect == Spec => []TypeOK
<1>1. Init => TypeOK
    BY SizesAssumption, SetfdAssumption, MaxRefAssumption DEF Init, TypeOK, Fd, File, Std
<1>2. TypeOK /\ [Next]_vars => TypeOK'
    <2> SUFFICES ASSUME TypeOK, [Next]_vars PROVE TypeOK'
        OBVIOUS
    <2> USE SizesAssumption, SetfdAssumption, MaxRefAssumption DEF TypeOK
    <2>1. ASSUME NEW i \in Inodes, NEW pipe \in {0, 1}, Open(i, pipe) PROVE TypeOK'
        BY <2>1 DEF Open
    <2>2. CASE OpenPanics
        BY <2>2 DEF OpenPanics, Panics, table, files, history
    <2>3. ASSUME NEW fd \in Fd, Close(fd) PROVE TypeOK'
        BY <2>3 DEF Close, CloseCount, Dropped, CloseAlloc, CloseBusy, CloseDangling
    <2>4. ASSUME NEW fd \in Fd, ClosePanics(fd) PROVE TypeOK'
        BY <2>4 DEF ClosePanics, Panics, table, files, history
    <2>5. ASSUME NEW fd \in Fd, Dup(fd) PROVE TypeOK'
        BY <2>5 DEF Dup, DupCount, CountDup, Inherit
    <2>6. ASSUME NEW fd \in Fd, DupPanics(fd) PROVE TypeOK'
        BY <2>6 DEF DupPanics, Panics, table, files, history
    <2>7. ASSUME NEW fd \in Fd, NEW arg \in SetfdArgs, FcntlSetfd(fd, arg) PROVE TypeOK'
        BY <2>7 DEF FcntlSetfd, files, history
    <2>8. ASSUME NEW fd \in Fd, NEW arg \in Fd, FcntlDupfd(fd, arg) PROVE TypeOK'
        BY <2>8 DEF FcntlDupfd, Inherit, files
    <2>9. ASSUME NEW fd \in Fd, NEW newfd \in Fd, Dup3(fd, newfd) PROVE TypeOK'
        BY <2>9 DEF Dup3, Dup3Entry, DupCount, CountDup, CloseCount, Dropped, CloseAlloc,
                    CloseDangling, Inherit
    <2>10. ASSUME NEW fd \in Fd, NEW newfd \in Fd, Dup3Panics(fd, newfd) PROVE TypeOK'
        BY <2>10 DEF Dup3Panics, ClosePanics, Panics, table, files, history
    <2>11. CASE Halted \/ UNCHANGED vars
        BY <2>11 DEF Halted, vars, table, files, history
    <2> QED
        BY <2>1, <2>2, <2>3, <2>4, <2>5, <2>6, <2>7, <2>8, <2>9, <2>10, <2>11 DEF Next
<1> QED
    BY <1>1, <1>2, PTL DEF Spec

-----------------------------------------------------------------------------
(* The two functions in terms of Refs(), so that OneDescriptor applies.    *)
LEMMA ReferencesAre ==
    /\ \A x : References(x) = Cardinality(Refs(busy, fds_index, x))
    /\ \A x : References(x)' = Cardinality(Refs(busy', fds_index', x))
BY DEF References, Refs

(* refcount is conserved: open(), close(), dup(), dup3(), fcntl() and      *)
(* their panics keep it equal to the references less the uncounted ones.   *)
THEOREM RefcountIsConserved == Spec => []RefcountLaw
<1> DEFINE R(x) == Cardinality(Refs(busy, fds_index, x))
           S(x) == Cardinality(Refs(busy', fds_index', x))
           Was(fd, x) == Leads(busy, fds_index, fd, x)
           Is(fd, x) == Leads(busy', fds_index', fd, x)
<1>1. Init => RefcountLaw
    <2> SUFFICES ASSUME Init, NEW x \in File PROVE refcount[x] = References(x) - uncounted[x]
        BY DEF RefcountLaw
    <2>1. CASE x \in Std
        <3>1. Refs(busy, fds_index, x) = {x}
            BY <2>1, SizesAssumption DEF Init, Refs, Fd, File, Std
        <3> QED
            BY <2>1, <3>1, ReferencesAre, FS_Singleton DEF Init
    <2>2. CASE x \notin Std
        <3>1. Refs(busy, fds_index, x) = {}
            BY <2>2, SizesAssumption DEF Init, Refs, Fd, File, Std
        <3> QED
            BY <2>2, <3>1, ReferencesAre, FS_EmptySet DEF Init
    <2> QED
        BY <2>1, <2>2
<1>2. TypeOK /\ TypeOK' /\ RefcountLaw /\ [Next]_vars => RefcountLaw'
    <2> SUFFICES ASSUME TypeOK, TypeOK', RefcountLaw, [Next]_vars, NEW x \in File
                 PROVE  refcount'[x] = S(x) - uncounted'[x]
        BY ReferencesAre DEF RefcountLaw
    <2>1. refcount[x] = R(x) - uncounted[x]
        BY ReferencesAre DEF RefcountLaw
    <2>2. R(x) \in Nat /\ S(x) \in Nat /\ uncounted[x] \in Int /\ refcount[x] \in Int
        BY RefsFinite, MaxRefAssumption DEF TypeOK
    <2>3. ASSUME NEW fd \in Fd, OthersSame(busy, fds_index, busy', fds_index', fd)
          PROVE  S(x) = R(x) - Was(fd, x) + Is(fd, x)
        BY <2>3, OneDescriptor
    <2> HIDE DEF R, S
    <2> DEFINE Goal == refcount'[x] = S(x) - uncounted'[x]
    <2>4. ASSUME busy' = busy, fds_index' = fds_index, refcount' = refcount, uncounted' = uncounted
          PROVE  Goal
        BY <2>1, <2>4 DEF R, S
    <2>5. ASSUME NEW i \in Inodes, NEW pipe \in {0, 1}, Open(i, pipe) PROVE Goal
        <3>1. PICK fd \in Fd, y \in File :
                /\ busy[fd] = 0 /\ refcount' = refcount
                /\ busy' = [busy EXCEPT ![fd] = 1]
                /\ fds_index' = [fds_index EXCEPT ![fd] = y]
                /\ uncounted' = [uncounted EXCEPT ![y] = @ + 1]
            BY <2>5 DEF Open, FirstFree
        <3>2. S(x) = R(x) + (IF x = y THEN 1 ELSE 0)
            <4>1. OthersSame(busy, fds_index, busy', fds_index', fd)
                BY <3>1 DEF OthersSame, TypeOK
            <4>2. Was(fd, x) = 0 /\ Is(fd, x) = IF x = y THEN 1 ELSE 0
                BY <3>1 DEF Leads, TypeOK
            <4> QED
                BY <2>2, <2>3, <4>1, <4>2
        <3> QED
            BY <2>1, <2>2, <3>1, <3>2 DEF TypeOK
    <2>6. ASSUME NEW fd \in Fd, Close(fd) PROVE Goal
        <3>1. S(x) = R(x) - (IF fds_index[fd] = x THEN 1 ELSE 0)
            <4>1. OthersSame(busy, fds_index, busy', fds_index', fd)
                BY <2>6 DEF Close, CloseBusy, OthersSame, TypeOK
            <4>2. Is(fd, x) = 0 /\ Was(fd, x) = IF fds_index[fd] = x THEN 1 ELSE 0
                BY <2>6 DEF Close, CloseBusy, Valid, Leads, TypeOK
            <4> QED
                BY <2>2, <2>3, <4>1, <4>2
        <3>2. refcount'[x] = refcount[x] - (IF fds_index[fd] = x THEN 1 ELSE 0)
            BY <2>2, <2>6 DEF Close, CloseCount, Dropped, TypeOK
        <3> QED
            BY <2>1, <2>2, <2>6, <3>1, <3>2 DEF Close
    <2>7. ASSUME NEW oldfd \in Fd, Dup(oldfd) PROVE Goal
        <3>1. PICK fd \in Fd :
                /\ busy[fd] = 0
                /\ busy' = [busy EXCEPT ![fd] = 1]
                /\ fds_index' = [fds_index EXCEPT ![fd] = fds_index[oldfd]]
            BY <2>7 DEF Dup, FirstFree
        <3>2. S(x) = R(x) + (IF fds_index[oldfd] = x THEN 1 ELSE 0)
            <4>1. OthersSame(busy, fds_index, busy', fds_index', fd)
                BY <3>1 DEF OthersSame, TypeOK
            <4>2. Was(fd, x) = 0 /\ Is(fd, x) = IF fds_index[oldfd] = x THEN 1 ELSE 0
                BY <3>1 DEF Leads, TypeOK
            <4> QED
                BY <2>2, <2>3, <4>1, <4>2
        <3>3. refcount'[x] = refcount[x] + (IF fds_index[oldfd] = x THEN 1 ELSE 0)
            BY <2>2, <2>7 DEF Dup, DupCount, CountDup, TypeOK
        <3> QED
            BY <2>1, <2>2, <2>7, <3>2, <3>3 DEF Dup
    <2>8. ASSUME NEW fd \in Fd, NEW arg \in SetfdArgs, FcntlSetfd(fd, arg) PROVE Goal
        <3>1. OthersSame(busy, fds_index, busy', fds_index', fd)
            BY <2>8 DEF FcntlSetfd, OthersSame, TypeOK
        <3>2. refcount' = refcount
            BY <2>8 DEF FcntlSetfd, files
        <3>3. CASE arg = 0
            <4>1. Is(fd, x) = 0 /\ Was(fd, x) = IF fds_index[fd] = x THEN 1 ELSE 0
                BY <2>8, <3>3 DEF FcntlSetfd, Valid, Leads, TypeOK
            <4>2. uncounted'[x] = uncounted[x] - (IF fds_index[fd] = x THEN 1 ELSE 0)
                BY <2>2, <2>8, <3>3 DEF FcntlSetfd, TypeOK
            <4> QED
                BY <2>1, <2>2, <2>3, <3>1, <3>2, <4>1, <4>2
        <3>4. CASE arg # 0
            <4>1. Is(fd, x) = Was(fd, x) /\ Was(fd, x) \in {0, 1}
                BY <2>8, <3>4 DEF FcntlSetfd, Valid, Leads, TypeOK
            <4>2. uncounted' = uncounted
                BY <2>8, <3>4 DEF FcntlSetfd, history
            <4> QED
                BY <2>1, <2>2, <2>3, <3>1, <3>2, <4>1, <4>2
        <3> QED
            BY <3>3, <3>4
    <2>9. ASSUME NEW oldfd \in Fd, NEW arg \in Fd, FcntlDupfd(oldfd, arg) PROVE Goal
        <3>1. PICK fd \in Fd :
                /\ busy[fd] = 0
                /\ busy' = [busy EXCEPT ![fd] = busy[oldfd]]
                /\ fds_index' = [fds_index EXCEPT ![fd] = fds_index[oldfd]]
            BY <2>9 DEF FcntlDupfd, FirstFree
        <3>2. S(x) = R(x) + (IF fds_index[oldfd] = x THEN 1 ELSE 0)
            <4>1. OthersSame(busy, fds_index, busy', fds_index', fd)
                BY <3>1 DEF OthersSame, TypeOK
            <4>2. Was(fd, x) = 0 /\ Is(fd, x) = IF fds_index[oldfd] = x THEN 1 ELSE 0
                BY <2>9, <3>1 DEF FcntlDupfd, Valid, Leads, TypeOK
            <4> QED
                BY <2>2, <2>3, <4>1, <4>2
        <3>3. uncounted'[x] = uncounted[x] + (IF fds_index[oldfd] = x THEN 1 ELSE 0)
            BY <2>2, <2>9 DEF FcntlDupfd, TypeOK
        <3> QED
            BY <2>1, <2>2, <2>9, <3>2, <3>3 DEF FcntlDupfd, files
    <2>10. ASSUME NEW oldfd \in Fd, NEW newfd \in Fd, Dup3(oldfd, newfd) PROVE Goal
        <3> DEFINE Old == IF fds_index[oldfd] = x THEN 1 ELSE 0
                   New == IF fds_index[newfd] = x THEN 1 ELSE 0
        <3>1. OthersSame(busy, fds_index, busy', fds_index', newfd)
            BY <2>10 DEF Dup3, Dup3Entry, OthersSame, TypeOK
        <3>2. Is(newfd, x) = Old /\ Old \in {0, 1} /\ New \in {0, 1}
            BY <2>10 DEF Dup3, Dup3Entry, Leads, TypeOK
        <3>3. CASE busy[newfd] = 0
            <4>1. Was(newfd, x) = 0
                BY <3>3 DEF Leads
            <4>2. refcount'[x] = refcount[x] + Old /\ uncounted' = uncounted
                BY <2>2, <2>10, <3>3 DEF Dup3, DupCount, CountDup, TypeOK
            <4> QED
                BY <2>1, <2>2, <2>3, <3>1, <3>2, <4>1, <4>2
        <3>4. CASE busy[newfd] \notin {0, 1}
            <4>1. Was(newfd, x) = New
                BY <3>4 DEF Leads
            <4>2. refcount'[x] = refcount[x] + Old /\ uncounted'[x] = uncounted[x] - New
                BY <2>2, <2>10, <3>4 DEF Dup3, DupCount, CountDup, TypeOK
            <4> QED
                BY <2>1, <2>2, <2>3, <3>1, <3>2, <4>1, <4>2
        <3>5. CASE busy[newfd] = 1
            <4>1. Was(newfd, x) = New
                BY <3>5 DEF Leads
            <4>2. /\ refcount' = DupCount(CloseCount(newfd), fds_index[oldfd])
                  /\ uncounted' = uncounted
                BY <2>10, <3>5 DEF Dup3
            <4>3. CloseCount(newfd)[x] = refcount[x] - New
                BY <2>2 DEF CloseCount, Dropped, TypeOK
            <4>4. DOMAIN CloseCount(newfd) = File
                BY DEF CloseCount, Dropped, TypeOK
            <4>5. refcount'[x] = refcount[x] - New + Old
                BY <2>2, <4>2, <4>3, <4>4 DEF DupCount, CountDup
            <4> QED
                BY <2>1, <2>2, <2>3, <3>1, <3>2, <4>1, <4>2, <4>5
        <3> QED
            BY <3>3, <3>4, <3>5
    <2>11. ASSUME \/ OpenPanics \/ Halted \/ UNCHANGED vars
                  \/ \E fd \in Fd : ClosePanics(fd) \/ DupPanics(fd)
                  \/ \E fd, newfd \in Fd : Dup3Panics(fd, newfd)
           PROVE  Goal
        <3>1. UNCHANGED <<table, files, history>>
            BY <2>11 DEF OpenPanics, ClosePanics, DupPanics, Dup3Panics, Panics, Halted, vars
        <3> QED
            BY <2>4, <3>1 DEF table, files, history
    <2> QED
        BY <2>5, <2>6, <2>7, <2>8, <2>9, <2>10, <2>11 DEF Next
<1> QED
    BY <1>1, <1>2, TypeCorrect, PTL DEF Spec

-----------------------------------------------------------------------------
(* Every open descriptor that is not dangling leads to an allocated entry  *)
(* with the inode of its open(), whatever open(), close(), dup(), dup3()   *)
(* and fcntl() did to the others.                                          *)
THEOREM DescriptorsLeadToOpened == Spec => []LeadsToOpened
<1>1. Init => LeadsToOpened
    BY SizesAssumption DEF Init, LeadsToOpened, Fd, File, Std
<1>2. TypeOK /\ LeadsToOpened /\ [Next]_vars => LeadsToOpened'
    <2> DEFINE OK(g) == /\ alloc[fds_index[g]] = 1
                        /\ f_inode[fds_index[g]] = opened[g]
    <2> SUFFICES ASSUME TypeOK, LeadsToOpened, [Next]_vars,
                        NEW g \in Fd, busy'[g] # 0, g \notin dangling'
                 PROVE  OK(g)'
        BY DEF LeadsToOpened
    <2>1. \A h \in Fd : busy[h] # 0 /\ h \notin dangling => OK(h)
        BY DEF LeadsToOpened
    <2>2. ASSUME NEW i \in Inodes, NEW pipe \in {0, 1}, Open(i, pipe) PROVE OK(g)'
        <3>1. PICK fd \in Fd, x \in File :
                /\ alloc[x] = 0 /\ dangling' = dangling
                /\ busy' = [busy EXCEPT ![fd] = 1]
                /\ fds_index' = [fds_index EXCEPT ![fd] = x]
                /\ alloc' = [alloc EXCEPT ![x] = 1]
                /\ f_inode' = [f_inode EXCEPT ![x] = i]
                /\ opened' = [opened EXCEPT ![fd] = i]
            BY <2>2 DEF Open, FirstUnallocated
        <3>2. CASE g = fd
            BY <3>1, <3>2 DEF TypeOK
        <3>3. CASE g # fd
            <4>1. OK(g) /\ fds_index[g] # x
                BY <2>1, <3>1, <3>3 DEF TypeOK
            <4> QED
                BY <3>1, <3>3, <4>1 DEF TypeOK
        <3> QED
            BY <3>2, <3>3
    <2>3. ASSUME NEW fd \in Fd, Close(fd) PROVE OK(g)'
        <3>1. g # fd /\ busy[g] # 0 /\ g \notin dangling /\ g \in Fd
            BY <2>3 DEF Close, CloseBusy, CloseDangling, TypeOK
        <3>2. OK(g) /\ ~(CloseFrees(fd) /\ fds_index[g] = fds_index[fd])
            BY <2>1, <2>3, <3>1 DEF Close, CloseDangling
        <3> QED
            BY <2>3, <3>1, <3>2 DEF Close, CloseAlloc, TypeOK
    <2>4. ASSUME NEW oldfd \in Fd, Dup(oldfd) PROVE OK(g)'
        BY <2>1, <2>4 DEF Dup, Valid, Inherit, TypeOK
    <2>5. ASSUME NEW fd \in Fd, NEW arg \in SetfdArgs, FcntlSetfd(fd, arg) PROVE OK(g)'
        <3>1. CASE arg = 0
            BY <2>1, <2>5, <3>1 DEF FcntlSetfd, files, TypeOK
        <3>2. CASE arg # 0
            BY <2>1, <2>5, <3>2 DEF FcntlSetfd, Valid, files, history, TypeOK
        <3> QED
            BY <3>1, <3>2
    <2>6. ASSUME NEW oldfd \in Fd, NEW arg \in Fd, FcntlDupfd(oldfd, arg) PROVE OK(g)'
        BY <2>1, <2>6 DEF FcntlDupfd, Valid, Inherit, files, TypeOK
    <2>7. ASSUME NEW oldfd \in Fd, NEW newfd \in Fd, Dup3(oldfd, newfd) PROVE OK(g)'
        <3> DEFINE src == IF g = newfd THEN oldfd ELSE g
        <3>1. /\ fds_index'[g] = fds_index[src] /\ opened'[g] = opened[src]
              /\ f_inode' = f_inode /\ src \in Fd /\ src # newfd /\ busy[src] # 0
            BY <2>7 DEF Dup3, Dup3Entry, Valid, TypeOK
        <3>2. CASE busy[newfd] # 1
            <4>1. src \notin dangling /\ alloc' = alloc
                BY <2>7, <3>2 DEF Dup3, Inherit
            <4> QED
                BY <2>1, <3>1, <4>1
        <3>3. CASE busy[newfd] = 1
            <4>1. src \notin CloseDangling(newfd) /\ alloc' = CloseAlloc(newfd)
                BY <2>7, <3>1, <3>3 DEF Dup3, Inherit
            <4>2. /\ src \notin dangling
                  /\ ~(CloseFrees(newfd) /\ fds_index[src] = fds_index[newfd])
                BY <3>1, <4>1 DEF CloseDangling
            <4>3. OK(src)
                BY <2>1, <3>1, <4>2
            <4>4. alloc'[fds_index[src]] = 1
                BY <3>1, <4>1, <4>2, <4>3 DEF CloseAlloc, TypeOK
            <4> QED
                BY <3>1, <4>3, <4>4
        <3> QED
            BY <3>2, <3>3
    <2>8. ASSUME \/ OpenPanics \/ Halted \/ UNCHANGED vars
                 \/ \E fd \in Fd : ClosePanics(fd) \/ DupPanics(fd)
                 \/ \E fd, newfd \in Fd : Dup3Panics(fd, newfd)
          PROVE  OK(g)'
        <3>1. UNCHANGED <<table, files, history>>
            BY <2>8 DEF OpenPanics, ClosePanics, DupPanics, Dup3Panics, Panics, Halted, vars
        <3> QED
            BY <2>1, <3>1 DEF table, files, history
    <2> QED
        BY <2>2, <2>3, <2>4, <2>5, <2>6, <2>7, <2>8 DEF Next
<1> QED
    BY <1>1, <1>2, TypeCorrect, PTL DEF Spec

-----------------------------------------------------------------------------
(* A descriptor that stays open keeps its entry, whatever call is made of  *)
(* whichever descriptor: open(), dup() and F_DUPFD take free descriptors   *)
(* only, close() and F_SETFD move none, and dup3() redirects its target.   *)
THEOREM OpenDescriptorsStay == Spec => DescriptorsStable
<1> DEFINE Moved(fd) == busy[fd] # 0 /\ busy'[fd] # 0 /\ fds_index'[fd] # fds_index[fd]
           Redirected(fd) == \E oldfd \in Fd \ {fd} : Dup3(oldfd, fd)
<1>1. TypeOK /\ [Next]_vars => \A fd \in Fd : Moved(fd) => Redirected(fd)
    <2> SUFFICES ASSUME TypeOK, [Next]_vars, NEW fd \in Fd, Moved(fd) PROVE Redirected(fd)
        OBVIOUS
    <2>1. ASSUME NEW i \in Inodes, NEW pipe \in {0, 1}, Open(i, pipe) PROVE FALSE
        BY <2>1 DEF Open, FirstFree, TypeOK
    <2>2. ASSUME NEW oldfd \in Fd, Dup(oldfd) PROVE FALSE
        BY <2>2 DEF Dup, FirstFree, TypeOK
    <2>3. ASSUME NEW oldfd \in Fd, NEW arg \in Fd, FcntlDupfd(oldfd, arg) PROVE FALSE
        BY <2>3 DEF FcntlDupfd, FirstFree, TypeOK
    <2>4. ASSUME NEW oldfd \in Fd, NEW newfd \in Fd, Dup3(oldfd, newfd) PROVE Redirected(fd)
        <3>1. fd = newfd /\ oldfd # newfd
            BY <2>4 DEF Dup3, Dup3Entry, TypeOK
        <3> QED
            BY <2>4, <3>1
    <2>5. ASSUME NEW g \in Fd, Close(g) \/ ClosePanics(g) \/ DupPanics(g) PROVE FALSE
        BY <2>5 DEF Close, ClosePanics, DupPanics, Panics, table
    <2>6. ASSUME NEW g \in Fd, NEW arg \in SetfdArgs, FcntlSetfd(g, arg) PROVE FALSE
        BY <2>6 DEF FcntlSetfd
    <2>7. ASSUME NEW g \in Fd, NEW newfd \in Fd, Dup3Panics(g, newfd) PROVE FALSE
        BY <2>7 DEF Dup3Panics, ClosePanics, Panics, table
    <2>8. OpenPanics \/ Halted \/ UNCHANGED vars => UNCHANGED fds_index
        BY DEF OpenPanics, Panics, Halted, vars, table
    <2> QED
        BY <2>1, <2>2, <2>3, <2>4, <2>5, <2>6, <2>7, <2>8 DEF Next
<1>2. TypeOK /\ [Next]_vars => [\A fd \in Fd : Moved(fd) => Redirected(fd)]_vars
    BY <1>1
<1> QED
    BY <1>2, TypeCorrect, PTL DEF Spec, DescriptorsStable

=============================================================================
