SPECIFICATION Spec
CONSTANTS
    BLOCK_SIZE = 16
    s_inodes_count = 9
    s_inodes_per_group = 3
    s_first_data_block = 1
    s_inode_size = 8
    GroupDescSize = 8
    PtrSize = 8
    NDirect = 2
    EXT2_NAME_LEN = 2
    NameOf <- MCNames
    Requests <- MCRequests
INVARIANTS
    InodeFound
    LookupResolves
    FreadIsFile
