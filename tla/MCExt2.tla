------------------------------- MODULE MCExt2 -------------------------------
(***************************************************************************)
(* Disk images for Ext2, laid out from an abstract file system, and what   *)
(* the reader must return on them.  An image has three block groups whose  *)
(* inode tables are out of order and span two blocks each, a root          *)
(* directory of two blocks with deleted and padded entries, a file whose   *)
(* pointers at any level may be missing, a socket, and a block device      *)
(* whose device number, kept in i_block[0], is also a block of the disk.   *)
(***************************************************************************)
EXTENDS Ext2, FiniteSets

VARIABLES inodes, dirs      \* the abstract file system the disk holds

vars == <<disk, req, res, inodes, dirs>>

Tables == <<4, 8, 6>>               \* first block of each group's inode table
Root == 2
Sub == 5
Device == 3
File == 4
Socket == 6
Sparse == 9
PointerBlocks == [b \in 30..38 |->
    CASE b = 30 -> <<22, 0>>  [] b = 31 -> <<33, 0>>  [] b = 33 -> <<23, 24>>
      [] b = 32 -> <<36, 34>> [] b = 34 -> <<0, 35>>  [] b = 35 -> <<25, 26>>
      [] b = 36 -> <<37, 38>> [] b = 37 -> <<27, 28>> [] b = 38 -> <<0, 18>>]

MCNames == [k \in 1..3 |-> CASE k = 1 -> <<"a">> [] k = 2 -> <<"b">> [] k = 3 -> <<"a", "b">>]
MCPaths == UNION {[1..n -> {Slash, "a", "b"}] : n \in 0..4}
MCRequests == [inodes |-> 0..10, paths |-> MCPaths, counts |-> {0, 1, 16, 21, 300}]

Ent(n, len, key) == [ino |-> n, len |-> len, key |-> key]
Dir(b0, b1) == [i_mode |-> S_IFDIR, i_size |-> 2 * BLOCK_SIZE,
                i_block |-> [k \in 0..4 |-> IF k = 0 THEN b0 ELSE IF k = 1 THEN b1 ELSE 0]]
Special(mode, b0) == [i_mode |-> mode, i_size |-> 0,
                      i_block |-> [k \in 0..4 |-> IF k = 0 THEN b0 ELSE 0]]
Reg(size, ptrs) == [i_mode |-> S_IFREG, i_size |-> size, i_block |-> [k \in 0..4 |-> ptrs[k + 1]]]

(* A directory is a sequence of blocks, each a sequence of entries that    *)
(* fill it.                                                                *)
RootDirs == {
    <<<<Ent(Sub, 3, 1), Ent(0, 5, 2), Ent(File, 8, 2)>>, <<Ent(Sparse, 16, 3)>>>>,
    <<<<Ent(0, 3, 0), Ent(File, 13, 3)>>, <<Ent(0, 4, 0), Ent(7, 4, 2), Ent(Sub, 8, 1)>>>>,
    <<<<Ent(Device, 5, 1), Ent(Socket, 11, 2)>>>>,
    <<<<Ent(Sparse, 16, 1)>>>>}
SubDir == <<<<Ent(Root, 4, 2), Ent(File, 6, 1), Ent(Sub, 6, 3)>>>>

(* Word o of block b.                                                      *)
EntryWord(block, o) ==
    LET start == CHOOSE i \in 1..Len(block) :
                    /\ FoldLeft(+, 0, [j \in 1..(i - 1) |-> block[j].len]) <= o
                    /\ FoldLeft(+, 0, [j \in 1..i |-> block[j].len]) > o
        at == o - FoldLeft(+, 0, [j \in 1..(start - 1) |-> block[j].len])
    IN CASE at = 0 -> block[start].ino [] at = 1 -> block[start].len
         [] at = 2 -> block[start].key [] OTHER -> 7
InodeWord(inode, at) ==
    CASE at = 0 -> inode.i_mode [] at = 1 -> inode.i_size
      [] at \in 2..6 -> inode.i_block[at - 2] [] OTHER -> 0
Word(ins, rd, b, o) ==
    CASE b = 0 -> 0
      [] b \in {2, 3} /\ o % GroupDescSize = 0 /\ (b - 2) * 2 + o \div GroupDescSize < 3 ->
            Tables[(b - 2) * 2 + o \div GroupDescSize + 1]
      [] b \in 4..9 ->
            LET g == CHOOSE g \in 1..3 : b \in {Tables[g], Tables[g] + 1}
                a == (b - Tables[g]) * BLOCK_SIZE + o
                n == (g - 1) * s_inodes_per_group + a \div s_inode_size + 1
            IN IF a \div s_inode_size < s_inodes_per_group
               THEN InodeWord(ins[n], a % s_inode_size) ELSE 0
      [] b \in {10, 11} -> IF b - 9 <= Len(rd) THEN EntryWord(rd[b - 9], o) ELSE 0
      [] b = 12 -> EntryWord(SubDir[1], o)
      [] b \in DOMAIN PointerBlocks ->
            IF o % PtrSize = 0 THEN PointerBlocks[b][o \div PtrSize + 1] ELSE 0
      [] OTHER -> b * BLOCK_SIZE + o

Init ==
    /\ \E rd \in RootDirs, size \in {30, 256},
          d1 \in {0, 21}, ind \in {0, 30}, dbl \in {0, 31}, tri \in {0, 32} :
        LET ins == [n \in 1..s_inodes_count |->
                CASE n = Root -> Dir(10, IF Len(rd) = 2 THEN 11 ELSE 0)
                  [] n = Sub -> Dir(12, 0)
                  [] n = Device -> Special(S_IFBLK, 12)
                  [] n = Socket -> Special(S_IFSOCK, 0)
                  [] n = File -> Reg(20, <<29, 19, 0, 0, 0>>)
                  [] n = Sparse -> Reg(size, <<20, d1, ind, dbl, tri>>)
                  [] OTHER -> NoInode]
        IN /\ inodes = ins
           /\ dirs = [n \in {Root, Sub} |-> IF n = Root THEN rd ELSE SubDir]
           /\ disk = [b \in 0..38 |-> [o \in 0..(BLOCK_SIZE - 1) |-> Word(ins, rd, b, o)]]
    /\ req = NoRequest
    /\ res = 0

Spec == Init /\ [][Next /\ UNCHANGED <<inodes, dirs>>]_vars

-----------------------------------------------------------------------------
(* What the requests must return.                                          *)

Answer(n) ==
    IF n \notin 1..s_inodes_count THEN [ret |-> -1, inode |-> NoInode]
    ELSE [ret |-> IF inodes[n].i_mode = 0 THEN -5 ELSE 0, inode |-> inodes[n]]

(* The live entries of a directory.                                        *)
Entries(n) == UNION {{dirs[n][i][j] : j \in 1..Len(dirs[n][i])} : i \in 1..Len(dirs[n])}
Child(n, name) == {e.ino : e \in {d \in Entries(n) :
                                    d.ino # 0 /\ d.key # 0 /\ MCNames[d.key] = name}}

RECURSIVE Split(_)
Split(path) ==                      \* the non-empty names between slashes
    IF path = <<>> THEN <<>>
    ELSE IF path[Len(path)] = Slash THEN Split(Front(path))
    ELSE LET name == CHOOSE s \in {SubSeq(path, i, Len(path)) : i \in 1..Len(path)} :
                /\ Slash \notin {s[i] : i \in 1..Len(s)}
                /\ Len(s) = Len(path) \/ path[Len(path) - Len(s)] = Slash
         IN Split(SubSeq(path, 1, Len(path) - Len(name))) \o <<name>>

RECURSIVE Resolve(_, _)
Resolve(n, names) ==
    IF names = <<>> THEN [ret |-> 0, inode |-> inodes[n]]
    ELSE IF inodes[n].i_mode # S_IFDIR THEN [ret |-> -ENOTDIR, inode |-> NoInode]
    ELSE IF Child(n, Head(names)) = {} THEN [ret |-> -1, inode |-> NoInode]
    ELSE LET c == CHOOSE c \in Child(n, Head(names)) : TRUE
         IN IF Answer(c).ret # 0 THEN [ret |-> Answer(c).ret, inode |-> NoInode]
            ELSE Resolve(c, Tail(names))

NamesFit(path) == \A i \in 1..Len(Split(path)) : Len(Split(path)[i]) <= EXT2_NAME_LEN

(* The path goes on below a block device or a socket.                      *)
RECURSIVE EntersSpecial(_, _)
EntersSpecial(n, names) ==
    /\ names # <<>>
    /\ \/ inodes[n].i_mode \in {S_IFBLK, S_IFSOCK}
       \/ /\ inodes[n].i_mode = S_IFDIR
          /\ \E c \in Child(n, Head(names)) : EntersSpecial(c, Tail(names))

(* The data blocks of an inode in file order; 0 is a hole, and a missing   *)
(* pointer block is a run of holes.                                        *)
RECURSIVE Leaves(_, _)
Leaves(b, level) ==
    IF level = 0 THEN <<b>>
    ELSE FlattenSeq([i \in 1..ptrs_per_block |->
            Leaves(IF b = 0 THEN 0 ELSE PointerBlocks[b][i], level - 1)])
BlocksOf(inode) ==
    <<inode.i_block[0], inode.i_block[1]>> \o Leaves(inode.i_block[2], 1)
        \o Leaves(inode.i_block[3], 2) \o Leaves(inode.i_block[4], 3)

Content(inode, count) ==
    [k \in 1..(IF count < inode.i_size THEN count ELSE inode.i_size) |->
        LET b == BlocksOf(inode)[(k - 1) \div BLOCK_SIZE + 1]
        IN IF b = 0 THEN 0 ELSE b * BLOCK_SIZE + ((k - 1) % BLOCK_SIZE)]

-----------------------------------------------------------------------------
(* ext2_get_inode() finds every inode, and only inodes: the descriptor and *)
(* table arithmetic is right across groups, descriptor blocks and table    *)
(* blocks, for the first and the last inode of each.                       *)
InodeFound == req.op = "inode" => res = Answer(req.n)

(* ext2_path_lookup() resolves a path as the directory tree says, whatever *)
(* slashes it has and whichever entries were deleted or padded, and        *)
(* returns ENOTDIR for a name below a file, if no name in it is longer     *)
(* than EXT2_NAME_LEN and none is below a block device or a socket.        *)
LookupResolves ==
    req.op = "lookup" /\ NamesFit(req.path) /\ ~EntersSpecial(Root, Split(req.path)) =>
        res = Resolve(Root, Split(req.path))

(* ext2_fread() returns the file from its start, up to the buffer or the   *)
(* end of the file, with zeros for every hole.  Where a whole pointer      *)
(* block is missing this rests on block 0, which the reader takes for it,  *)
(* being zero.                                                             *)
FreadIsFile == req.op = "read" => res = Content(inodes[req.n], req.count)

-----------------------------------------------------------------------------
(* What the code means to do and does not.                                 *)

(* A name below anything that is no directory gives ENOTDIR.  It does not: *)
(* a block device or a socket passes the test and is searched.             *)
OnlyDirectoriesSearched ==
    req.op = "lookup" /\ NamesFit(req.path) => res = Resolve(Root, Split(req.path))

=============================================================================
