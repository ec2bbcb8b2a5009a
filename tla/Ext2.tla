-------------------------------- MODULE Ext2 --------------------------------
(***************************************************************************)
(* The ext2 reader, fs/ext2.c: inode lookup, path resolution, the pointer  *)
(* tree of an inode and ext2_fread().  A block is BLOCK_SIZE words; the    *)
(* sizes of the on-disk structures are counted in words and are constants, *)
(* so that every level of the layout is crossed on a small disk.  Names    *)
(* are sequences of characters; a directory entry holds its name's key in  *)
(* NameOf.  The disk itself never changes; a request is served in a step.  *)
(***************************************************************************)
EXTENDS Integers, Sequences, SequencesExt

CONSTANTS
    BLOCK_SIZE,             \* e2fs.block_size too: read_block() knows no other
    s_inodes_count, s_inodes_per_group, s_first_data_block, s_inode_size,
    GroupDescSize,          \* sizeof(struct ext2_group_desc)
    PtrSize,                \* sizeof(uint32_t)
    NDirect,                \* direct pointers of i_block[], 12 in the code
    EXT2_NAME_LEN,
    NameOf,                 \* key -> name, a sequence of characters
    Requests                \* bound: the requests made

ASSUME SizesAssumption ==
    /\ BLOCK_SIZE \in Nat /\ NDirect \in Nat \ {0} /\ PtrSize \in 1..BLOCK_SIZE
    /\ GroupDescSize \in 1..BLOCK_SIZE /\ s_inode_size >= 2 + NDirect + 3
    /\ s_inodes_per_group \in Nat \ {0} /\ EXT2_NAME_LEN \in Nat \ {0}

VARIABLES
    disk,       \* block -> word -> Int
    req, res    \* the last request and its result

Slash == "/"
S_IFDIR == 4        \* the four bits of i_mode that hold the file type
S_IFBLK == 6
S_IFREG == 8
S_IFSOCK == 12
ENOTDIR == 20
EXT2_ROOT_INO == 2
NoInode == [i_mode |-> 0, i_size |-> 0, i_block |-> [k \in 0..(NDirect + 2) |-> 0]]

(* Block b as the driver delivers it when the read succeeds.               *)
read_block(b) == IF b \in DOMAIN disk THEN disk[b] ELSE [o \in 0..(BLOCK_SIZE - 1) |-> -1]

-----------------------------------------------------------------------------
(* ext2_get_inode().                                                       *)

(* Block and word of the group descriptor, then of the inode.              *)
DescBlock(group) == s_first_data_block + 1 + group \div (BLOCK_SIZE \div GroupDescSize)
DescOffset(group) == (group % (BLOCK_SIZE \div GroupDescSize)) * GroupDescSize
InodeGroupFromZero(n) == n \div s_inodes_per_group          \* variant: not n - 1
InodeGroup(n) == (n - 1) \div s_inodes_per_group
InodeOffset(n) == ((n - 1) % s_inodes_per_group) * s_inode_size

InodeSize == 2 + NDirect + 3        \* the words of ext2_inode the reader uses
AsInode(block, o) ==
    [i_mode |-> block[o], i_size |-> block[o + 1],
     i_block |-> [k \in 0..(NDirect + 2) |-> block[o + 2 + k]]]

ext2_get_inode(n) ==
    IF n = 0 \/ n > s_inodes_count THEN [ret |-> -1, inode |-> NoInode]
    ELSE LET group == InodeGroup(n)
             bg_inode_table == read_block(DescBlock(group))[DescOffset(group)]
             block == bg_inode_table + InodeOffset(n) \div BLOCK_SIZE
             o == InodeOffset(n) % BLOCK_SIZE
         IN IF o + InodeSize > BLOCK_SIZE THEN [ret |-> -3, inode |-> NoInode]
            ELSE LET inode == AsInode(read_block(block), o)
                 IN [ret |-> IF inode.i_mode = 0 THEN -5 ELSE 0, inode |-> inode]

-----------------------------------------------------------------------------
(* Path resolution.                                                        *)

(* The length of the longest prefix of p whose characters satisfy Test.    *)
Run(p, Test(_)) ==
    IF \A i \in 1..Len(p) : Test(p[i]) THEN Len(p)
    ELSE (CHOOSE i \in 1..Len(p) : ~Test(p[i]) /\ \A j \in 1..(i - 1) : Test(p[j])) - 1
Drop(p, n) == SubSeq(p, n + 1, Len(p))

(* Leading slashes are skipped, then at most EXT2_NAME_LEN characters are  *)
(* taken: the rest of a longer name is the next component.                 *)
parse_one_slash(path) ==                            \* variant: if for while
    LET p == IF path # <<>> /\ Head(path) = Slash THEN Tail(path) ELSE path
        len == Run(p, LAMBDA c : c # Slash)
    IN [name |-> SubSeq(p, 1, len), rest |-> Drop(p, IF len = 0 THEN Len(p) ELSE len)]
parse_path_component(path) ==
    LET p == Drop(path, Run(path, LAMBDA c : c = Slash))
        whole == Run(p, LAMBDA c : c # Slash)
        len == IF whole < EXT2_NAME_LEN THEN whole ELSE EXT2_NAME_LEN
    IN [name |-> SubSeq(p, 1, len), rest |-> Drop(p, len)]

(* The entry at word o: inode, rec_len, and its name's key (0: name_len is *)
(* 0).  Skipped entries, too, are passed by their rec_len.                 *)
RECURSIVE find_from(_, _, _, _)
find_from(dir, name, i, o) ==
    IF i = NDirect \/ dir.i_block[i] = 0 THEN 0
    ELSE LET de == read_block(dir.i_block[i])
         IN IF o >= BLOCK_SIZE THEN find_from(dir, name, i + 1, 0)
            ELSE IF de[o] # 0 /\ de[o + 2] # 0 /\ NameOf[de[o + 2]] = name THEN de[o]
            ELSE find_from(dir, name, i, o + de[o + 1])

(* The inode number find_dir_entry() stores, or 0 where it returns -1.     *)
find_dir_entry(dir, name) == find_from(dir, name, 0, 0)

(* i_mode & EXT2_S_IFDIR: the bit, which block devices and sockets have    *)
(* set too.                                                                *)
HasDirBit(i_mode) == (i_mode \div S_IFDIR) % 2 = 1

RECURSIVE lookup_from(_, _)
lookup_from(inode, path) ==
    LET c == parse_path_component(path)
        ino == find_dir_entry(inode, c.name)
        next == ext2_get_inode(ino)
    IN IF path = <<>> THEN [ret |-> 0, inode |-> inode]
       ELSE IF c.name = <<>> THEN lookup_from(inode, c.rest)
       ELSE IF ~HasDirBit(inode.i_mode) THEN [ret |-> -ENOTDIR, inode |-> NoInode]
       ELSE IF ino = 0 THEN [ret |-> -1, inode |-> NoInode]
       ELSE IF next.ret # 0 THEN [ret |-> next.ret, inode |-> NoInode]
       ELSE lookup_from(next.inode, c.rest)

ext2_path_lookup(path) ==
    LET root == ext2_get_inode(EXT2_ROOT_INO)
    IN IF root.ret # 0 THEN [ret |-> root.ret, inode |-> NoInode]
       ELSE lookup_from(root.inode, path)

-----------------------------------------------------------------------------
(* File contents.                                                          *)

ptrs_per_block == BLOCK_SIZE \div PtrSize
Pointer(b, i) == read_block(b)[i * PtrSize]

(* A missing pointer block is not noticed: block 0 is read in its place.   *)
TripleSwapped(inode, l) ==                          \* variant: idx1 and idx2 swapped
    Pointer(Pointer(Pointer(inode.i_block[NDirect + 2],
                            (l \div ptrs_per_block) % ptrs_per_block),
                    l \div (ptrs_per_block * ptrs_per_block)),
            l % ptrs_per_block)
Triple(inode, l) ==
    Pointer(Pointer(Pointer(inode.i_block[NDirect + 2],
                            l \div (ptrs_per_block * ptrs_per_block)),
                    (l \div ptrs_per_block) % ptrs_per_block),
            l % ptrs_per_block)
get_physical_block(inode, logical_block) ==
    LET l1 == logical_block - NDirect
        l2 == l1 - ptrs_per_block
        l3 == l2 - ptrs_per_block * ptrs_per_block
    IN IF l1 < 0 THEN inode.i_block[logical_block]
       ELSE IF l2 < 0 THEN Pointer(inode.i_block[NDirect], l1)
       ELSE IF l3 < 0
            THEN Pointer(Pointer(inode.i_block[NDirect + 1], l2 \div ptrs_per_block),
                         l2 % ptrs_per_block)
       ELSE Triple(inode, l3)

(* ext2_fread() starts at 0 whatever was read before; a block number 0 is  *)
(* a hole and reads as zeros.                                              *)
RECURSIVE fread_from(_, _, _)
fread_from(inode, bytes_read, count) ==
    IF bytes_read >= count THEN <<>>
    ELSE LET o == bytes_read % BLOCK_SIZE
             in_block == BLOCK_SIZE - o
             n == IF in_block < count - bytes_read THEN in_block ELSE count - bytes_read
             phys_block == get_physical_block(inode, bytes_read \div BLOCK_SIZE)
             data == read_block(phys_block)
         IN [k \in 1..n |-> IF phys_block = 0 THEN 0 ELSE data[o + k - 1]]
                \o fread_from(inode, bytes_read + n, count)
ext2_fread(inode, count) ==
    fread_from(inode, 0, IF count < inode.i_size THEN count ELSE inode.i_size)

-----------------------------------------------------------------------------
NoRequest == [op |-> "none"]
GetInode(n) ==
    /\ req = NoRequest
    /\ req' = [op |-> "inode", n |-> n]
    /\ res' = ext2_get_inode(n)
Lookup(path) ==
    /\ req = NoRequest
    /\ req' = [op |-> "lookup", path |-> path]
    /\ res' = ext2_path_lookup(path)
(* read() of a descriptor: the whole of it, or as much as the buffer takes. *)
Read(n, count) ==
    /\ req = NoRequest
    /\ ext2_get_inode(n).inode.i_mode = S_IFREG
    /\ req' = [op |-> "read", n |-> n, count |-> count]
    /\ res' = ext2_fread(ext2_get_inode(n).inode, count)

(* The caller takes the result.                                            *)
Done == req # NoRequest /\ req' = NoRequest /\ res' = 0

Next ==
    /\ \/ \E n \in Requests.inodes : GetInode(n)
       \/ \E path \in Requests.paths : Lookup(path)
       \/ \E n \in Requests.inodes, count \in Requests.counts : Read(n, count)
       \/ Done
    /\ UNCHANGED disk

=============================================================================
