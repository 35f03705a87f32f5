------------------------------- MODULE Ktfs --------------------------------
(***************************************************************************)
(* The KTFS file system of src/sys/ktfs.c: the on-disk structures as the   *)
(* driver sees them through the block cache (two bitmaps, the inode table, *)
(* data blocks holding bytes, block indices or directory entries), and the *)
(* operations of a mount and of an open file, called by several threads.   *)
(*                                                                         *)
(* Grain.  Every cache_get_block may suspend its caller, so a call is a    *)
(* sequence of steps.  Each operation that changes the disk holds          *)
(* mount_lock from its first read to its last write: what it will write is *)
(* fixed when it has the lock, and the operators below compute the disk    *)
(* after each cache_release_block(.., dirty) of the call, in order; one    *)
(* step of the model is one of these writes.  The operations that only     *)
(* read (ktfs_fetch, ktfs_open of a file, ktfs_listing_read) do not take   *)
(* mount_lock: one step of the model is one read of a block that a writer  *)
(* may change.  A cache_get_block of a reader may fail (ReadFaults); one   *)
(* of a call that writes does not fail in this model.                      *)
(*                                                                         *)
(* Data.  A block is KTFS_BLKSZ cells; a cell holds one byte of a file,    *)
(* one block index of a table, or one directory entry.  A name is a number.*)
(***************************************************************************)
EXTENDS Integers, Sequences, FiniteSets, TLC

CONSTANTS
    Threads,                      \* the threads that call the file system
    Uios,                         \* the uio objects kcalloc can hand out
    Names,                        \* file names, positive numbers
    Vals,                         \* the byte values a store writes, positive
    Lens,                         \* the lengths passed to fetch and store
    Offsets,                      \* the arguments of FCNTL_SETPOS and FCNTL_SETEND
    KTFS_BLKSZ,                   \* cells in a block (ktfs.h: 512 bytes)
    KTFS_NUM_DIRECT_DATA_BLOCKS,  \* ktfs.h: 4
    KTFS_NUM_DINDIRECT_BLOCKS,    \* ktfs.h: 2
    INODES_PER_BLOCK,             \* KTFS_BLKSZ / sizeof(struct ktfs_inode)
    BITS_PER_BLOCK,               \* KTFS_BLKSZ * 8, the bits of a bitmap block
    super,                        \* the superblock of the mounted image
    ReadFaults,                   \* TRUE: a cache_get_block of a reader may fail
    UnlinkOpenFiles,              \* TRUE: callers delete files that are open
    MaxWrites,                    \* bound: the calls that take mount_lock to write
    Images,                       \* the images the volume may hold at mount
    NULL

VARIABLES
    disk,        \* the image as the cache presents it
    uio,         \* the open files and listings (struct ktfs_uio, ktfs_listing_uio)
    mount_lock,  \* owner of ktfs_mount.mount_lock, or NULL
    call,        \* per thread: the operation it is in, and its locals
    files,       \* history: the contents the completed calls gave each file
    ret,         \* history: what the call that returned in the last step returned
    writes       \* history: the calls so far that took mount_lock to write

vars == <<disk, uio, mount_lock, call, files, ret, writes>>

EINVAL == 1
EIO    == 4
ENOENT == 6
ENOMEM == 13
EEXIST == 15

\* sizeof(struct ktfs_dir_entry), in cells
KTFS_DENSZ == 1

MinOf(a, b) == IF a < b THEN a ELSE b
MaxOf(a, b) == IF a > b THEN a ELSE b
Least(S) == CHOOSE i \in S : \A j \in S : i <= j

-----------------------------------------------------------------------------
(* Layout *)

ktfs_compute_layout(sb) ==
    LET inode_bitmap_start == 1
        block_bitmap_start == inode_bitmap_start + sb.inode_bitmap_block_count
        inode_start        == block_bitmap_start + sb.bitmap_block_count
    IN  [inode_bitmap_start |-> inode_bitmap_start,
         block_bitmap_start |-> block_bitmap_start,
         inode_start        |-> inode_start,
         data_start         |-> inode_start + sb.inode_block_count]

data_start == ktfs_compute_layout(super).data_start

\* block indices in a table block
ents_per == KTFS_BLKSZ

KTFS_MAX_FILE_SIZE ==
    KTFS_NUM_DIRECT_DATA_BLOCKS * KTFS_BLKSZ + ents_per * KTFS_BLKSZ
        + KTFS_NUM_DINDIRECT_BLOCKS * ents_per * ents_per * KTFS_BLKSZ

InodeNums  == 0 .. super.inode_block_count * INODES_PER_BLOCK - 1
DataBlocks == data_start .. super.block_count - 1

\* struct ktfs_inode
ZeroInode ==
    [size      |-> 0,
     block     |-> [i \in 0 .. KTFS_NUM_DIRECT_DATA_BLOCKS - 1 |-> 0],
     indirect  |-> 0,
     dindirect |-> [i \in 0 .. KTFS_NUM_DINDIRECT_BLOCKS - 1 |-> 0]]

ZeroBlock == [i \in 0 .. KTFS_BLKSZ - 1 |-> 0]

\* struct ktfs_dir_entry, packed into a cell and read back
NAME_SPAN == 1 + (CHOOSE n \in Names : \A m \in Names : m <= n)
PackEntry(ino, name) == ino * NAME_SPAN + name
UnpackEntry(cell) == [inode |-> cell \div NAME_SPAN, name |-> cell % NAME_SPAN]

\* blocks that cover size bytes
BlocksFor(size) == (size + KTFS_BLKSZ - 1) \div KTFS_BLKSZ

-----------------------------------------------------------------------------
(* The state of a call that writes: the disk it sees, the disks its writes *)
(* produced so far, its return code, and the two out-parameters the        *)
(* helpers share (the in-memory inode and the absolute block number).      *)

Enter(D, ino) == [disk |-> D, trail |-> <<>>, rc |-> 0, ino |-> ino, abs |-> 0]

\* cache_release_block(cache, blk, 1) of a block changed to give disk D
release_dirty(K, D) == [K EXCEPT !.disk = D, !.trail = Append(@, D)]

Fail(K, rc) == [K EXCEPT !.rc = rc]

ktfs_inode_grab(D, inode_num) == D.inode[inode_num]

ktfs_write_to_ino(K, inode_num, src) ==
    release_dirty(K, [K.disk EXCEPT !.inode[inode_num] = src])

-----------------------------------------------------------------------------
(* Bitmaps.  A bitmap is the set of its set bits. *)

ktfs_bitmap_indices_fetch(bitmap_id) ==
    IF bitmap_id = 0
    THEN [blk_cnt    |-> super.inode_bitmap_block_count,
          total_bits |-> super.inode_block_count * INODES_PER_BLOCK]
    ELSE [blk_cnt    |-> super.bitmap_block_count,
          total_bits |-> super.block_count]

Bits(D, kind) == IF kind = 0 THEN D.ibmap ELSE D.dbmap

ktfs_bitmap_free_bit_detect(D, kind) ==
    LET b == ktfs_bitmap_indices_fetch(kind)
        first_allowed == IF kind # 0 THEN data_start ELSE 0
        scanned == first_allowed ..
                       MinOf(b.total_bits, b.blk_cnt * BITS_PER_BLOCK) - 1
        free == scanned \ Bits(D, kind)
    IN  IF kind # 0 /\ first_allowed >= b.total_bits
        THEN [rc |-> -EINVAL, index |-> 0]
        ELSE IF free = {} THEN [rc |-> -ENOENT, index |-> 0]
        ELSE [rc |-> 0, index |-> Least(free)]

InBitmap(kind, index) ==
    LET b == ktfs_bitmap_indices_fetch(kind)
    IN  index < b.total_bits /\ index \div BITS_PER_BLOCK < b.blk_cnt

ktfs_bitmap_mark(K, kind, index) ==
    IF ~InBitmap(kind, index) THEN Fail(K, -EINVAL)
    ELSE IF kind = 0
    THEN release_dirty(K, [K.disk EXCEPT !.ibmap = @ \cup {index}])
    ELSE release_dirty(K, [K.disk EXCEPT !.dbmap = @ \cup {index}])

ktfs_bitmap_unmark(K, kind, index) ==
    IF ~InBitmap(kind, index) THEN Fail(K, -EINVAL)
    ELSE IF kind = 0
    THEN release_dirty(K, [K.disk EXCEPT !.ibmap = @ \ {index}])
    ELSE release_dirty(K, [K.disk EXCEPT !.dbmap = @ \ {index}])

\* the block at index, marked, is zeroed and becomes the block of the call
Zeroed(M, index) ==
    IF M.rc < 0 THEN M
    ELSE [release_dirty(M, [M.disk EXCEPT !.data[index] = ZeroBlock])
             EXCEPT !.abs = index]

\* mutant: the block found free is zeroed and handed out, its bit left clear
ktfs_alloc_zero_block_NoMark(K) ==
    LET f == ktfs_bitmap_free_bit_detect(K.disk, 1)
    IN  IF f.rc < 0 THEN Fail(K, f.rc) ELSE Zeroed(K, f.index)

ktfs_alloc_zero_block(K) ==
    LET f == ktfs_bitmap_free_bit_detect(K.disk, 1)
    IN  IF f.rc < 0 THEN Fail(K, f.rc)
        ELSE Zeroed(ktfs_bitmap_mark(K, 1, f.index), f.index)

-----------------------------------------------------------------------------
(* The block map of an inode.  Where a logical block hangs: the slot of    *)
(* the inode it starts from, and the indices to follow through the tables. *)

Route(lbn) ==
    LET in_ind == lbn - KTFS_NUM_DIRECT_DATA_BLOCKS
        in_dind == in_ind - ents_per
        width == ents_per * ents_per
    IN  IF lbn < KTFS_NUM_DIRECT_DATA_BLOCKS
        THEN [rc |-> 0, field |-> "block", i |-> lbn, idxs |-> <<>>]
        ELSE IF in_ind < ents_per
        THEN [rc |-> 0, field |-> "indirect", i |-> 0, idxs |-> <<in_ind>>]
        ELSE IF in_dind \div width < KTFS_NUM_DINDIRECT_BLOCKS
        THEN [rc |-> 0, field |-> "dindirect", i |-> in_dind \div width,
              idxs |-> <<(in_dind % width) \div ents_per, in_dind % ents_per>>]
        ELSE [rc |-> -ENOENT, field |-> "none", i |-> 0, idxs |-> <<>>]

Slot(ino, r) ==
    CASE r.field = "block"     -> ino.block[r.i]
      [] r.field = "indirect"  -> ino.indirect
      [] r.field = "dindirect" -> ino.dindirect[r.i]

SetSlot(ino, r, idx) ==
    CASE r.field = "block"     -> [ino EXCEPT !.block[r.i] = idx]
      [] r.field = "indirect"  -> [ino EXCEPT !.indirect = idx]
      [] r.field = "dindirect" -> [ino EXCEPT !.dindirect[r.i] = idx]

\* one table read: the block the entry at index i of table block tbl names
TableEntry(D, tbl, i) == data_start + D.data[tbl][i]

RECURSIVE Follow(_, _, _)
Follow(D, blk, idxs) ==
    IF idxs = <<>> THEN blk
    ELSE Follow(D, TableEntry(D, blk, Head(idxs)), Tail(idxs))

\* An index 0 is followed like any other: the tests for it are not compiled.
ktfs_map_block(D, ino, lbn) ==
    LET r == Route(lbn)
    IN  IF r.rc < 0 THEN [rc |-> r.rc, abs |-> 0]
        ELSE [rc |-> 0, abs |-> Follow(D, data_start + Slot(ino, r), r.idxs)]

\* the new block A.abs is hung into the slot of the in-memory inode
Hung(A, r) ==
    IF A.rc < 0 THEN A ELSE [A EXCEPT !.ino = SetSlot(@, r, A.abs - data_start)]

\* Block 0 read as a table: the words of struct ktfs_superblock, the padding
\* of the block after them.
SuperWord(i) ==
    LET words == <<super.block_count, super.inode_bitmap_block_count,
                   super.bitmap_block_count, super.inode_block_count,
                   super.root_directory_inode>>
    IN  IF i < Len(words) THEN words[i + 1] ELSE 0

Table(D, blk) ==
    IF blk = 0 THEN [i \in 0 .. KTFS_BLKSZ - 1 |-> SuperWord(i)] ELSE D.data[blk]

\* The inode's own slot, given a zeroed block when it is 0.  For a
\* double-indirect slot the result of the allocation is kept in a uint32_t,
\* so the test for its failure never holds: the slot becomes 0 - data_start
\* and the table the call goes on with is block 0.  (The uint32_t
\* 2^32 - data_start is written -data_start here: sums with it are taken
\* modulo 2^32 in the code and give the same block.)
EnsureSlot(K, r) ==
    LET A == ktfs_alloc_zero_block(K)
    IN  IF Slot(K.ino, r) # 0 THEN [K EXCEPT !.abs = data_start + Slot(K.ino, r)]
        ELSE IF A.rc < 0 /\ r.field = "dindirect"
        THEN [K EXCEPT !.ino = SetSlot(@, r, 0 - data_start), !.abs = 0]
        ELSE Hung(A, r)

\* the new block A.abs is written into entry i of table block tbl
LinkedIn(A, tbl, i) ==
    IF A.rc < 0 THEN A
    ELSE release_dirty(A, [A.disk EXCEPT !.data[tbl][i] = A.abs - data_start])

\* Down the tables from block K.abs, a zeroed block linked in where an entry
\* is 0.  cache_get_block of a table past the end of the volume is a short
\* read of the device.
RECURSIVE EnsurePath(_, _)
EnsurePath(K, idxs) ==
    IF K.rc < 0 \/ idxs = <<>> THEN K
    ELSE IF K.abs >= super.block_count THEN Fail(K, -EIO)
    ELSE IF Table(K.disk, K.abs)[Head(idxs)] # 0
    THEN EnsurePath([K EXCEPT !.abs = data_start + Table(K.disk, K.abs)[Head(idxs)]],
                    Tail(idxs))
    ELSE EnsurePath(LinkedIn(ktfs_alloc_zero_block(K), K.abs, Head(idxs)),
                    Tail(idxs))

ktfs_map_block_and_or_allocate(K, lbn, allocE) ==
    LET r == Route(lbn)
        m == ktfs_map_block(K.disk, K.ino, lbn)
    IN  IF allocE = 0 THEN [K EXCEPT !.rc = m.rc, !.abs = m.abs]
        ELSE IF r.rc < 0 THEN Fail(K, -ENOENT)
        ELSE EnsurePath(EnsureSlot(K, r), r.idxs)

ktfs_dir_get_entry(D, dir_ino, idx) ==
    LET m == ktfs_map_block(D, dir_ino, (KTFS_DENSZ * idx) \div KTFS_BLKSZ)
        cell == D.data[m.abs][(KTFS_DENSZ * idx) % KTFS_BLKSZ]
    IN  IF dir_ino.size % KTFS_DENSZ # 0 THEN [rc |-> -EIO, dent |-> UnpackEntry(0)]
        ELSE IF idx >= dir_ino.size \div KTFS_DENSZ
        THEN [rc |-> -ENOENT, dent |-> UnpackEntry(0)]
        ELSE IF m.rc < 0 THEN [rc |-> m.rc, dent |-> UnpackEntry(0)]
        ELSE [rc |-> 0, dent |-> UnpackEntry(cell)]

-----------------------------------------------------------------------------
(* The operations that write.  Each gives the disks its writes produce, in *)
(* order (trail), its return value (rc) and the uio it leaves (ku).        *)

Return(K, rc, ku) == [trail |-> K.trail, rc |-> rc, ku |-> ku]

\* the allocation loop of ktfs_store and FCNTL_SETEND: blocks x .. last - 1
RECURSIVE Extend(_, _, _)
Extend(K, x, last) ==
    IF x >= last \/ K.rc < 0 THEN K
    ELSE Extend(ktfs_map_block_and_or_allocate(K, x, 1), x + 1, last)

\* memcpy into the mapped block M.abs: chunk bytes from off_in_block on
Copied(M, off_in_block, chunk, val) ==
    IF M.rc < 0 THEN M
    ELSE release_dirty(M, [M.disk EXCEPT !.data[M.abs] =
             [i \in 0 .. KTFS_BLKSZ - 1 |->
                 IF i >= off_in_block /\ i < off_in_block + chunk
                 THEN val ELSE @[i]]])

\* the copy loop of ktfs_store: one block written per round
RECURSIVE StoreCopy(_, _, _, _)
StoreCopy(K, fOffset, write_end, val) ==
    IF fOffset >= write_end \/ K.rc < 0 THEN K
    ELSE LET off_in_block == fOffset % KTFS_BLKSZ
             chunk == MinOf(write_end - fOffset, KTFS_BLKSZ - off_in_block)
         IN  StoreCopy(Copied(ktfs_map_block_and_or_allocate(
                                  K, fOffset \div KTFS_BLKSZ, 1),
                              off_in_block, chunk, val),
                       fOffset + chunk, write_end, val)

\* the end of ktfs_store: the inode is written with the size the write gave
Stored(C, ku, size, write_end) ==
    IF C.rc < 0 THEN Return(C, C.rc, ku)
    ELSE Return(ktfs_write_to_ino(C, ku.inode_number,
                                  [C.ino EXCEPT !.size = size]),
                write_end - ku.position,
                [ku EXCEPT !.size = size, !.position = write_end])

\* mutant: the inode takes the end of the write as its size, also when the
\* write ends inside the file
ktfs_store_SizeIsWriteEnd(D, ku, len, val) ==
    LET inode == ktfs_inode_grab(D, ku.inode_number)
        pos == ku.position
        write_end == pos + MinOf(len, KTFS_MAX_FILE_SIZE - pos)
        K == Enter(D, inode)
        E == IF write_end > inode.size
             THEN Extend(K, BlocksFor(inode.size), BlocksFor(write_end)) ELSE K
    IN  IF pos >= KTFS_MAX_FILE_SIZE THEN Return(K, -EINVAL, ku)
        ELSE Stored(StoreCopy(E, pos, write_end, val), ku, write_end, write_end)

ktfs_store(D, ku, len, val) ==
    LET inode == ktfs_inode_grab(D, ku.inode_number)
        pos == ku.position
        size == inode.size
        write_end == pos + MinOf(len, KTFS_MAX_FILE_SIZE - pos)
        K == Enter(D, inode)
        E == IF write_end > size
             THEN Extend(K, BlocksFor(size), BlocksFor(write_end)) ELSE K
    IN  IF pos >= KTFS_MAX_FILE_SIZE THEN Return(K, -EINVAL, ku)
        ELSE Stored(StoreCopy(E, pos, write_end, val), ku,
                    MaxOf(size, write_end), write_end)

\* the end of FCNTL_SETEND: the inode is written with the new size
Resized(E, ku, newend) ==
    IF E.rc < 0 THEN Return(E, E.rc, ku)
    ELSE Return(ktfs_write_to_ino(E, ku.inode_number,
                                  [E.ino EXCEPT !.size = newend]),
                0, [ku EXCEPT !.size = newend, !.position = MinOf(@, newend)])

\* cmd == FCNTL_SETEND
ktfs_cntl_setend(D, ku, newend) ==
    LET inode == ktfs_inode_grab(D, ku.inode_number)
        old_size == inode.size
        K == Enter(D, inode)
    IN  IF newend > KTFS_MAX_FILE_SIZE \/ newend < old_size
        THEN Return(K, -EINVAL, ku)
        ELSE IF newend = old_size
        THEN Return(K, 0, [ku EXCEPT !.size = old_size,
                                     !.position = MinOf(@, old_size)])
        ELSE Resized(Extend(K, BlocksFor(old_size), BlocksFor(newend)),
                     ku, newend)

\* the directory scans of create and delete: the first entry with the name
DirIndex(D, root, name) ==
    LET hits == {i \in 0 .. root.size \div KTFS_DENSZ - 1 :
                    LET e == ktfs_dir_get_entry(D, root, i)
                    IN  e.rc = 0 /\ e.dent.name = name}
    IN  IF hits = {} THEN -1 ELSE Least(hits)

\* the block of the directory that takes the entry at offset dir_off: looked
\* up first, allocated only when the lookup says -ENOENT
DirBlock(N, dir_off) ==
    LET lbn == dir_off \div KTFS_BLKSZ
        A0 == ktfs_map_block_and_or_allocate(N, lbn, 0)
    IN  IF A0.rc = -ENOENT
        THEN ktfs_map_block_and_or_allocate(Fail(N, 0), lbn, 1) ELSE A0

\* the entry is written at the end of the directory, the root inode after it
Entered(A, dir_off, new_ino, name) ==
    IF A.rc < 0 THEN Return(A, A.rc, NULL)
    ELSE Return(ktfs_write_to_ino(
                    release_dirty(A, [A.disk EXCEPT
                        !.data[A.abs][dir_off % KTFS_BLKSZ] =
                            PackEntry(new_ino, name)]),
                    super.root_directory_inode,
                    [A.ino EXCEPT !.size = @ + KTFS_DENSZ]),
                0, NULL)

\* the inode is marked: it is zeroed, then entered in the directory
Made(M, dir_off, new_ino, name) ==
    IF M.rc < 0 THEN Return(M, M.rc, NULL)
    ELSE Entered(DirBlock(ktfs_write_to_ino(M, new_ino, ZeroInode), dir_off),
                 dir_off, new_ino, name)

ktfs_create(D, name) ==
    LET root == ktfs_inode_grab(D, super.root_directory_inode)
        K == Enter(D, root)
        f == ktfs_bitmap_free_bit_detect(D, 0)
    IN  IF root.size % KTFS_DENSZ # 0 THEN Return(K, -EIO, NULL)
        ELSE IF DirIndex(D, root, name) >= 0 THEN Return(K, -EEXIST, NULL)
        ELSE IF f.rc < 0 THEN Return(K, f.rc, NULL)
        ELSE Made(ktfs_bitmap_mark(K, 0, f.index), root.size, f.index, name)

\* ktfs_bitmap_unmark of the data blocks blks, in order.  sticky: an error is
\* kept and the loop goes on; otherwise the first error ends it.
RECURSIVE UnmarkAll(_, _, _)
UnmarkAll(K, blks, sticky) ==
    IF blks = <<>> \/ (K.rc < 0 /\ ~sticky) THEN K
    ELSE LET U == ktfs_bitmap_unmark(K, 1, Head(blks))
         IN  UnmarkAll([U EXCEPT !.rc = IF K.rc < 0 THEN K.rc ELSE U.rc],
                       Tail(blks), sticky)

\* the blocks the first n entries of table block tbl name
Under(D, tbl, n) == [k \in 1 .. n |-> TableEntry(D, tbl, k - 1)]

Cleared(K, tbl) == release_dirty(K, [K.disk EXCEPT !.data[tbl] = ZeroBlock])

\* the second-level tables j, j+1, ... of one double-indirect table l1
RECURSIVE FreeLevel2(_, _, _, _)
FreeLevel2(K, l1, j, remaining_in_this) ==
    IF j >= ents_per \/ remaining_in_this = 0 THEN K
    ELSE LET under_this == MinOf(remaining_in_this, ents_per)
             ind_block == TableEntry(K.disk, l1, j)
             F == UnmarkAll(K, Under(K.disk, ind_block, under_this), TRUE)
             U == UnmarkAll(Cleared(F, ind_block), <<ind_block>>, TRUE)
         IN  FreeLevel2(U, l1, j + 1, remaining_in_this - under_this)

RECURSIVE FreeDindirect(_, _, _)
FreeDindirect(K, i, remaining_blocks) ==
    IF i >= KTFS_NUM_DINDIRECT_BLOCKS \/ remaining_blocks = 0 \/ K.rc < 0 THEN K
    ELSE LET blocks_here == MinOf(remaining_blocks, ents_per * ents_per)
             l1 == data_start + K.ino.dindirect[i]
             F == Cleared(FreeLevel2(K, l1, 0, blocks_here), l1)
         IN  FreeDindirect(UnmarkAll(F, <<l1>>, FALSE), i + 1,
                           remaining_blocks - blocks_here)

\* the single-indirect part: the blocks the table names are freed, and the
\* first error returns at once, the table neither written back nor released;
\* otherwise the table is written back cleared and freed
FreeIndirect(A, used_indirect_blocks, indirect_block) ==
    LET U == UnmarkAll(A, Under(A.disk, indirect_block, used_indirect_blocks),
                       FALSE)
    IN  IF used_indirect_blocks = 0 \/ A.rc < 0 THEN A
        ELSE IF U.rc < 0 THEN U
        ELSE UnmarkAll(Cleared(U, indirect_block), <<indirect_block>>, FALSE)

\* the inode in memory is zeroed when every block was freed
Emptied(C) == IF C.rc < 0 THEN C ELSE [C EXCEPT !.ino = ZeroInode]

ktfs_inode_free_all_blocks(K) ==
    LET ino == K.ino
        total_blocks == BlocksFor(ino.size)
        direct == [i \in 1 .. MinOf(total_blocks, KTFS_NUM_DIRECT_DATA_BLOCKS) |->
                      data_start + ino.block[i - 1]]
        used_indirect_blocks ==
            MinOf(MaxOf(total_blocks - KTFS_NUM_DIRECT_DATA_BLOCKS, 0), ents_per)
    IN  Emptied(FreeDindirect(
            FreeIndirect(UnmarkAll(K, direct, FALSE), used_indirect_blocks,
                         data_start + ino.indirect),
            0, MaxOf(total_blocks - KTFS_NUM_DIRECT_DATA_BLOCKS - ents_per, 0)))

\* mutant: the directory shrinks without the last entry taking the place of
\* the one that goes
Unlinked_NoSwap(U, root, victim_idx) ==
    IF U.rc < 0 THEN Return(U, U.rc, NULL)
    ELSE Return(ktfs_write_to_ino(U, super.root_directory_inode,
                                  [root EXCEPT !.size = @ - KTFS_DENSZ]),
                0, NULL)

\* the directory entry goes: the last entry takes its place, the root inode
\* is written one entry shorter
Unlinked(U, root, victim_idx) ==
    LET nents == root.size \div KTFS_DENSZ
        last == ktfs_dir_get_entry(U.disk, root, nents - 1)
        v == ktfs_map_block(U.disk, root, (victim_idx * KTFS_DENSZ) \div KTFS_BLKSZ)
        S == IF victim_idx = nents - 1 THEN U
             ELSE release_dirty(U, [U.disk EXCEPT
                      !.data[v.abs][(victim_idx * KTFS_DENSZ) % KTFS_BLKSZ] =
                          PackEntry(last.dent.inode, last.dent.name)])
    IN  IF U.rc < 0 THEN Return(U, U.rc, NULL)
        ELSE IF victim_idx # nents - 1 /\ last.rc < 0
        THEN Return(U, IF last.rc = -ENOENT THEN -EIO ELSE last.rc, NULL)
        ELSE IF victim_idx # nents - 1 /\ v.rc < 0 THEN Return(U, v.rc, NULL)
        ELSE Return(ktfs_write_to_ino(S, super.root_directory_inode,
                                      [root EXCEPT !.size = @ - KTFS_DENSZ]),
                    0, NULL)

\* the blocks are freed: the inode is written back zeroed and its bit cleared
Released(F, root, victim_idx, victim_ino) ==
    IF F.rc < 0 THEN Return(F, F.rc, NULL)
    ELSE Unlinked(ktfs_bitmap_unmark(ktfs_write_to_ino(F, victim_ino, F.ino),
                                     0, victim_ino),
                  root, victim_idx)

ktfs_delete(D, name) ==
    LET root == ktfs_inode_grab(D, super.root_directory_inode)
        victim_idx == DirIndex(D, root, name)
        victim_ino == ktfs_dir_get_entry(D, root, victim_idx).dent.inode
    IN  IF root.size % KTFS_DENSZ # 0 THEN Return(Enter(D, root), -EIO, NULL)
        ELSE IF victim_idx < 0 THEN Return(Enter(D, root), -ENOENT, NULL)
        ELSE Released(ktfs_inode_free_all_blocks(
                          Enter(D, ktfs_inode_grab(D, victim_ino))),
                      root, victim_idx, victim_ino)

\* ktfs_open of "" or "/": the listing uio it builds
ktfs_open_listing(D) ==
    LET root == ktfs_inode_grab(D, super.root_directory_inode)
    IN  IF root.size % KTFS_DENSZ # 0 THEN Return(Enter(D, root), -EIO, NULL)
        ELSE Return(Enter(D, root), 0,
                    [kind |-> "listing", root |-> root, next_index |-> 0,
                     total_entries |-> root.size \div KTFS_DENSZ])

-----------------------------------------------------------------------------
(* State *)

ROOT == super.root_directory_inode

Idle  == [op |-> "idle", stage |-> "idle", u |-> NULL, name |-> 0]
NoRet == [op |-> "none", rc |-> 0, got |-> <<>>, want |-> NULL]

\* The image mkfs leaves: an empty root directory that owns the first data
\* block, index 0, and the bits below data_start reserved.
EmptyImage ==
    [disk  |-> [ibmap |-> {ROOT},
                dbmap |-> 0 .. data_start,
                inode |-> [n \in InodeNums |-> ZeroInode],
                data  |-> [b \in DataBlocks |-> ZeroBlock]],
     files |-> [n \in Names |-> NULL]]

\* mount_ktfs: the volume holds one of the images, nothing is open
Init ==
    /\ \E img \in Images : disk = img.disk /\ files = img.files
    /\ uio = [u \in Uios |-> NULL]
    /\ mount_lock = NULL
    /\ call = [t \in Threads |-> Idle]
    /\ ret = NoRet
    /\ writes = 0

IsFile(u)    == uio[u] # NULL /\ uio[u].kind = "file"
IsListing(u) == uio[u] # NULL /\ uio[u].kind = "listing"
InCall(u)    == \E t \in Threads : call[t].u = u

\* history: a call that changes inode n, or unlinks name, starts (a store or
\* SETEND through the uio of a file that was deleted changes no file); the fetches
\* and opens it overlaps can no longer be held to the contents of files
Disturbed(c, n, name) ==
    IF c.op = "fetch" /\ c.inode_number = n THEN [c EXCEPT !.clean = FALSE]
    ELSE IF c.op = "open" /\ c.name = name THEN [c EXCEPT !.present = FALSE]
    ELSE c

\* bytes pos .. last - 1 of a file become val, the gap before them zero
Overlay(old, pos, last, val) ==
    [i \in 1 .. MaxOf(Len(old), last) |->
        IF i > pos /\ i <= last THEN val
        ELSE IF i <= Len(old) THEN old[i] ELSE 0]

\* What one write of a call changes: a bitmap, an inode or a data block.  A
\* call in progress keeps the writes it has still to do in this form.
Change(A, B) ==
    IF A.ibmap # B.ibmap THEN [part |-> "ibmap", at |-> 0, val |-> B.ibmap]
    ELSE IF A.dbmap # B.dbmap THEN [part |-> "dbmap", at |-> 0, val |-> B.dbmap]
    ELSE IF A.inode # B.inode
    THEN LET n == CHOOSE n \in InodeNums : A.inode[n] # B.inode[n]
         IN  [part |-> "inode", at |-> n, val |-> B.inode[n]]
    ELSE IF A.data # B.data
    THEN LET b == CHOOSE b \in DataBlocks : A.data[b] # B.data[b]
         IN  [part |-> "data", at |-> b, val |-> B.data[b]]
    ELSE [part |-> "none", at |-> 0, val |-> 0]

Changes(D, trail) ==
    [i \in DOMAIN trail |-> Change(IF i = 1 THEN D ELSE trail[i - 1], trail[i])]

Changed(D, w) ==
    CASE w.part = "ibmap" -> [D EXCEPT !.ibmap = w.val]
      [] w.part = "dbmap" -> [D EXCEPT !.dbmap = w.val]
      [] w.part = "inode" -> [D EXCEPT !.inode[w.at] = w.val]
      [] w.part = "data"  -> [D EXCEPT !.data[w.at] = w.val]
      [] w.part = "none"  -> D

\* the return of a call that holds mount_lock: the locks go, the uio of a
\* store or SETEND gets the fields the call computed
Finish(t, c) ==
    /\ mount_lock' = NULL
    /\ uio' = IF c.u = NULL THEN uio
              ELSE [uio EXCEPT ![c.u] = [c.ku EXCEPT !.file_lock = NULL]]
    /\ files' = c.files
    /\ call' = [x \in Threads |-> IF x = t THEN Idle ELSE c.others[x]]
    /\ ret' = NoRet

\* a call has both its locks and knows what it will write
Begin(t, op, u, name, n, out, after) ==
    LET c == [op |-> op, stage |-> "write", u |-> u, name |-> name,
              todo |-> Changes(disk, out.trail), rc |-> out.rc, ku |-> out.ku,
              files |-> IF out.rc >= 0 THEN after ELSE files,
              others |-> [x \in Threads |-> Disturbed(call[x], n, name)]]
    IN  IF out.trail = <<>> THEN Finish(t, c) /\ UNCHANGED disk
        ELSE /\ call' = [x \in Threads |->
                            IF x = t THEN [c EXCEPT !.others = <<>>] ELSE c.others[x]]
             /\ mount_lock' = t
             /\ uio' = IF u = NULL THEN uio ELSE [uio EXCEPT ![u].file_lock = t]
             /\ ret' = NoRet
             /\ UNCHANGED <<disk, files>>

-----------------------------------------------------------------------------
(* Calls that write *)

\* lock_acquire(&mount->mount_lock) of ktfs_store and of FCNTL_SETEND
LockMount(t, op, u, len, val) ==
    /\ call[t] = Idle /\ IsFile(u)
    /\ mount_lock = NULL
    /\ writes < MaxWrites
    /\ writes' = writes + 1
    /\ mount_lock' = t
    /\ call' = [call EXCEPT ![t] = [op |-> op, stage |-> "locked", u |-> u,
                                    name |-> 0, len |-> len, val |-> val]]
    /\ ret' = NoRet
    /\ UNCHANGED <<disk, uio, files>>

Store(t) ==
    LET c == call[t]
        ku == uio[c.u]
        out == ktfs_store(disk, ku, c.len, c.val)
        after == IF files[ku.name] = NULL THEN files
                 ELSE [files EXCEPT ![ku.name] =
                          Overlay(@, ku.position, ku.position + out.rc, c.val)]
    IN  /\ c.op = "store" /\ c.stage = "locked"
        /\ ku.file_lock = NULL
        /\ Begin(t, "store", c.u, 0, ku.inode_number, out, after)
        /\ UNCHANGED writes

SetEnd(t) ==
    LET c == call[t]
        ku == uio[c.u]
        out == ktfs_cntl_setend(disk, ku, c.len)
        after == IF files[ku.name] = NULL THEN files
                 ELSE [files EXCEPT ![ku.name] = Overlay(@, c.len, c.len, 0)]
    IN  /\ c.op = "setend" /\ c.stage = "locked"
        /\ ku.file_lock = NULL
        /\ Begin(t, "setend", c.u, 0, ku.inode_number, out, after)
        /\ UNCHANGED writes

Create(t, name) ==
    /\ call[t] = Idle
    /\ mount_lock = NULL
    /\ writes < MaxWrites
    /\ writes' = writes + 1
    /\ Begin(t, "create", NULL, name, -1, ktfs_create(disk, name),
             [files EXCEPT ![name] = <<>>])

InUse(name) ==
    \/ \E u \in Uios : IsFile(u) /\ uio[u].name = name
    \/ \E t \in Threads : call[t].op = "open" /\ call[t].name = name

Delete(t, name) ==
    LET root == ktfs_inode_grab(disk, ROOT)
        i == DirIndex(disk, root, name)
        victim_ino == IF i < 0 THEN -1
                      ELSE ktfs_dir_get_entry(disk, root, i).dent.inode
    IN  /\ call[t] = Idle
        /\ mount_lock = NULL
        /\ UnlinkOpenFiles \/ ~InUse(name)
        /\ writes < MaxWrites
        /\ writes' = writes + 1
        /\ Begin(t, "delete", NULL, name, victim_ino, ktfs_delete(disk, name),
                 [files EXCEPT ![name] = NULL])

\* one cache_release_block(.., 1) of the call; after the last the call returns
WriteBack(t) ==
    LET c == call[t]
    IN  /\ c.stage = "write"
        /\ disk' = Changed(disk, Head(c.todo))
        /\ IF Tail(c.todo) = <<>>
           THEN Finish(t, [c EXCEPT !.others = call])
           ELSE /\ call' = [call EXCEPT ![t].todo = Tail(@)]
                /\ ret' = NoRet
                /\ UNCHANGED <<uio, mount_lock, files>>
        /\ UNCHANGED writes

\* ktfs_open of "/": kcalloc, then the root inode read under mount_lock
ListingOpen(t) ==
    LET out == ktfs_open_listing(disk)
    IN  /\ call[t] = Idle
        /\ mount_lock = NULL
        /\ out.rc = 0
        /\ \E u \in Uios : uio[u] = NULL /\ uio' = [uio EXCEPT ![u] = out.ku]
        /\ ret' = NoRet
        /\ UNCHANGED <<disk, mount_lock, call, files>>
        /\ UNCHANGED writes

-----------------------------------------------------------------------------
(* Calls that read *)

\* mutant: the logical block of an offset is rounded up
Aim_RoundsUp(ino, off) ==
    LET r == Route((off + KTFS_BLKSZ - 1) \div KTFS_BLKSZ)
    IN  [blk |-> data_start + Slot(ino, r), idxs |-> r.idxs]

\* the first block to read for the byte at offset off of the file
Aim(ino, off) ==
    LET r == Route(off \div KTFS_BLKSZ)
    IN  [blk |-> data_start + Slot(ino, r), idxs |-> r.idxs]

\* ktfs_fetch to the first block it asks the cache for
FetchBegin(t, u, len) ==
    LET ku == uio[u]
        inode == ktfs_inode_grab(disk, ku.inode_number)
        pos == ku.position
        writers == {x \in Threads :
                       /\ call[x].stage = "write"
                       /\ \/ /\ call[x].op \in {"store", "setend"}
                             /\ uio[call[x].u].inode_number = ku.inode_number
                          \/ call[x].op = "delete" /\ call[x].name = ku.name}
    IN  /\ call[t] = Idle /\ IsFile(u)
        /\ ku.file_lock = NULL
        /\ IF pos >= inode.size
           THEN /\ uio' = [uio EXCEPT ![u].size = inode.size]
                /\ ret' = [op |-> "fetch", rc |-> 0,
                                              got |-> <<>>, want |-> NULL]
                /\ UNCHANGED call
           ELSE /\ uio' = [uio EXCEPT ![u].size = inode.size, ![u].file_lock = t]
                /\ call' = [call EXCEPT ![t] =
                       [op |-> "fetch", stage |-> "read", u |-> u, name |-> 0,
                        inode_number |-> ku.inode_number, inode |-> inode,
                        read_size |-> MinOf(len, inode.size - pos),
                        buf |-> <<>>,
                        clean |-> writers = {} /\ files[ku.name] # NULL]
                       @@ Aim(inode, pos)]
                /\ ret' = NoRet
        /\ UNCHANGED <<disk, mount_lock, files>>
        /\ UNCHANGED writes

\* one cache_get_block of ktfs_fetch: a table of the block map, or the data
FetchStep(t) ==
    LET c == call[t]
        ku == uio[c.u]
        at == ku.position + Len(c.buf)
        within_block_off == at % KTFS_BLKSZ
        width == MinOf(c.read_size - Len(c.buf), KTFS_BLKSZ - within_block_off)
        buf == c.buf \o [k \in 1 .. width |->
                            disk.data[c.blk][within_block_off + k - 1]]
        copied == Len(buf)
    IN  /\ c.op = "fetch"
        /\ IF c.idxs # <<>>
           THEN /\ call' = [call EXCEPT
                       ![t].blk = TableEntry(disk, c.blk, Head(c.idxs)),
                       ![t].idxs = Tail(c.idxs)]
                /\ ret' = NoRet
                /\ UNCHANGED uio
           ELSE IF copied < c.read_size
           THEN /\ call' = [call EXCEPT ![t] =
                       [c EXCEPT !.buf = buf,
                                 !.blk = Aim(c.inode, at + width).blk,
                                 !.idxs = Aim(c.inode, at + width).idxs]]
                /\ ret' = NoRet
                /\ UNCHANGED uio
           ELSE /\ uio' = [uio EXCEPT ![c.u].position = @ + copied,
                                      ![c.u].file_lock = NULL]
                /\ call' = [call EXCEPT ![t] = Idle]
                /\ ret' = [op |-> "fetch", rc |-> copied, got |-> buf,
                           want |-> IF c.clean
                                    THEN SubSeq(files[ku.name], ku.position + 1,
                                                ku.position + copied)
                                    ELSE NULL]
        /\ UNCHANGED <<disk, mount_lock, files>>
        /\ UNCHANGED writes

\* ktfs_open of a file, to the read of the first directory entry
OpenBegin(t, name) ==
    LET root == ktfs_inode_grab(disk, ROOT)
        total_entries == root.size \div KTFS_DENSZ
        unlinking == \E x \in Threads : call[x].op = "delete" /\ call[x].name = name
        present == files[name] # NULL /\ ~unlinking
    IN  /\ call[t] = Idle
        /\ UnlinkOpenFiles \/ ~unlinking
        /\ IF total_entries = 0
           THEN /\ ret' = [op |-> "open", rc |-> -ENOENT,
                               got |-> <<>>, want |-> IF present THEN name ELSE NULL]
                /\ UNCHANGED call
           ELSE /\ call' = [call EXCEPT ![t] =
                       [op |-> "open", stage |-> "scan", u |-> NULL, name |-> name,
                        root |-> root, i |-> 0, total_entries |-> total_entries,
                        present |-> present]]
                /\ ret' = NoRet
        /\ UNCHANGED <<disk, uio, mount_lock, files>>
        /\ UNCHANGED writes

\* one ktfs_dir_get_entry of the scan of ktfs_open
OpenScan(t) ==
    LET c == call[t]
        e == ktfs_dir_get_entry(disk, c.root, c.i)
    IN  /\ c.op = "open" /\ c.stage = "scan"
        /\ IF e.rc = 0 /\ e.dent.name = c.name
           THEN /\ call' = [call EXCEPT ![t] =
                       [op |-> "open", stage |-> "grab", u |-> NULL,
                        name |-> c.name, file_inode |-> e.dent.inode,
                        present |-> c.present]]
                /\ ret' = NoRet
           ELSE IF c.i + 1 < c.total_entries
           THEN /\ call' = [call EXCEPT ![t].i = @ + 1]
                /\ ret' = NoRet
           ELSE /\ call' = [call EXCEPT ![t] = Idle]
                /\ ret' = [op |-> "open", rc |-> -ENOENT,
                               got |-> <<>>,
                               want |-> IF c.present THEN c.name ELSE NULL]
        /\ UNCHANGED <<disk, uio, mount_lock, files>>
        /\ UNCHANGED writes

\* the read of the target inode, and the uio ktfs_open returns
OpenGrab(t) ==
    LET c == call[t]
        target_inode == ktfs_inode_grab(disk, c.file_inode)
        ku == [kind |-> "file", inode_number |-> c.file_inode, position |-> 0,
               size |-> target_inode.size, file_lock |-> NULL, name |-> c.name]
    IN  /\ c.op = "open" /\ c.stage = "grab"
        /\ \/ \E u \in Uios :
                /\ uio[u] = NULL
                /\ uio' = [uio EXCEPT ![u] = ku]
                /\ ret' = [op |-> "open", rc |-> 0, got |-> <<>>,
                               want |-> IF c.present THEN c.name ELSE NULL]
           \/ /\ \A u \in Uios : uio[u] # NULL
              /\ ret' = [op |-> "open", rc |-> -ENOMEM,
                             got |-> <<>>, want |-> NULL]
              /\ UNCHANGED uio
        /\ call' = [call EXCEPT ![t] = Idle]
        /\ UNCHANGED <<disk, mount_lock, files>>
        /\ UNCHANGED writes

\* ktfs_listing_read to its first ktfs_dir_get_entry
ListingReadBegin(t, u) ==
    /\ call[t] = Idle /\ IsListing(u)
    /\ uio[u].next_index < uio[u].total_entries
    /\ call' = [call EXCEPT ![t] = [op |-> "listing_read", stage |-> "read",
                                    u |-> u, name |-> 0, idx |-> uio[u].next_index]]
    /\ ret' = NoRet
    /\ UNCHANGED <<disk, uio, mount_lock, files>>
    /\ UNCHANGED writes

\* one round of the loop of ktfs_listing_read: it returns a name that is not
\* empty, and goes on to the next entry otherwise
ListingReadStep(t) ==
    LET c == call[t]
        ls == uio[c.u]
        e == ktfs_dir_get_entry(disk, ls.root, c.idx)
        result == IF e.rc = 0 /\ e.dent.name # 0 THEN 1 ELSE 0
    IN  /\ c.op = "listing_read"
        /\ uio' = [uio EXCEPT ![c.u].next_index = c.idx + 1]
        /\ call' = [call EXCEPT ![t] =
               IF c.idx + 1 < ls.total_entries /\ result = 0
                  /\ e.rc \in {0, -ENOENT}
               THEN [c EXCEPT !.idx = c.idx + 1] ELSE Idle]
        /\ ret' = NoRet
        /\ UNCHANGED <<disk, mount_lock, files>>
        /\ UNCHANGED writes

\* mutant: FCNTL_SETPOS takes any position
SetPos_NoCap(t, u, newpos) ==
    /\ call[t] = Idle /\ IsFile(u)
    /\ uio[u].file_lock = NULL
    /\ uio' = [uio EXCEPT ![u].position = newpos]
    /\ ret' = NoRet
    /\ UNCHANGED <<disk, mount_lock, call, files, writes>>

\* cmd == FCNTL_SETPOS
SetPos(t, u, newpos) ==
    /\ call[t] = Idle /\ IsFile(u)
    /\ uio[u].file_lock = NULL
    /\ newpos <= KTFS_MAX_FILE_SIZE
    /\ uio' = [uio EXCEPT ![u].position = newpos]
    /\ ret' = NoRet
    /\ UNCHANGED <<disk, mount_lock, call, files>>
    /\ UNCHANGED writes

\* ktfs_close and ktfs_listing_close: kfree of the uio
Close(u) ==
    /\ uio[u] # NULL /\ ~InCall(u)
    /\ uio' = [uio EXCEPT ![u] = NULL]
    /\ ret' = NoRet
    /\ UNCHANGED <<disk, mount_lock, call, files>>
    /\ UNCHANGED writes

\* mutant: the error return of ktfs_fetch keeps file_lock
ReadFails_KeepsLock(t) ==
    LET c == call[t]
    IN  /\ ReadFaults
        /\ c.op \in {"fetch", "open", "listing_read"}
        /\ uio' = IF c.op = "listing_read"
                  THEN [uio EXCEPT ![c.u].next_index = c.idx + 1] ELSE uio
        /\ call' = [call EXCEPT ![t] = Idle]
        /\ ret' = [op |-> c.op, rc |-> -EIO, got |-> <<>>, want |-> NULL]
        /\ UNCHANGED <<disk, mount_lock, files, writes>>

\* a cache_get_block of a reader returns an error: the call returns it
ReadFails(t) ==
    LET c == call[t]
    IN  /\ ReadFaults
        /\ c.op \in {"fetch", "open", "listing_read"}
        /\ uio' = CASE c.op = "fetch" -> [uio EXCEPT ![c.u].file_lock = NULL]
                    [] c.op = "listing_read" ->
                           [uio EXCEPT ![c.u].next_index = c.idx + 1]
                    [] OTHER -> uio
        /\ call' = [call EXCEPT ![t] = Idle]
        /\ ret' = [op |-> c.op, rc |-> -EIO, got |-> <<>>,
                                      want |-> NULL]
        /\ UNCHANGED <<disk, mount_lock, files>>
        /\ UNCHANGED writes

Next ==
    \/ \E t \in Threads :
          \/ \E u \in Uios, len \in Lens, val \in Vals :
                LockMount(t, "store", u, len, val)
          \/ \E u \in Uios, newend \in Offsets : LockMount(t, "setend", u, newend, 0)
          \/ Store(t) \/ SetEnd(t) \/ WriteBack(t)
          \/ \E name \in Names : Create(t, name) \/ Delete(t, name) \/ OpenBegin(t, name)
          \/ ListingOpen(t)
          \/ \E u \in Uios, len \in Lens : FetchBegin(t, u, len)
          \/ FetchStep(t) \/ OpenScan(t) \/ OpenGrab(t)
          \/ \E u \in Uios : ListingReadBegin(t, u)
          \/ ListingReadStep(t)
          \/ \E u \in Uios, newpos \in Offsets : SetPos(t, u, newpos)
          \/ ReadFails(t)
    \/ \E u \in Uios : Close(u)

Spec == Init /\ [][Next]_vars

-----------------------------------------------------------------------------
(* What the structures on the disk say *)

\* the directory: its entries in order
Entries(D) ==
    LET root == D.inode[ROOT]
    IN  [i \in 1 .. root.size \div KTFS_DENSZ |->
            ktfs_dir_get_entry(D, root, i - 1).dent]

\* the inode a name leads to, the first entry that has the name deciding
Lookup(D, name) ==
    LET i == DirIndex(D, D.inode[ROOT], name)
    IN  IF i < 0 THEN NULL ELSE Entries(D)[i + 1].inode

\* the bytes of a file, read through its block map
Contents(D, n) ==
    LET ino == D.inode[n]
    IN  [i \in 1 .. ino.size |->
            D.data[ktfs_map_block(D, ino, (i - 1) \div KTFS_BLKSZ).abs]
                  [(i - 1) % KTFS_BLKSZ]]

\* the index slots on the way to logical block lbn of inode n, each with the
\* block it names: <<where the slot is, the block>>
RECURSIVE TableRefs(_, _, _)
TableRefs(D, tbl, idxs) ==
    IF idxs = <<>> THEN {}
    ELSE {<<<<"table", tbl, Head(idxs)>>, TableEntry(D, tbl, Head(idxs))>>}
             \cup TableRefs(D, TableEntry(D, tbl, Head(idxs)), Tail(idxs))

RefsTo(D, n, lbn) ==
    LET r == Route(lbn)
        top == data_start + Slot(D.inode[n], r)
    IN  {<<<<r.field, n, r.i>>, top>>} \cup TableRefs(D, top, r.idxs)

\* the root directory holds its first block even when it is empty
BlocksOf(D, n) ==
    LET covered == BlocksFor(D.inode[n].size)
    IN  IF n = ROOT THEN MaxOf(covered, 1) ELSE covered

Linked(D) == {ROOT} \cup {Entries(D)[i].inode : i \in DOMAIN Entries(D)}

RefsOf(D, n) == UNION {RefsTo(D, n, lbn) : lbn \in 0 .. BlocksOf(D, n) - 1}

Refs(D) == UNION {RefsOf(D, n) : n \in Linked(D)}

\* No call is in progress.  The calls that read change neither disk nor
\* files and each can run to its return, so every disk that stands between
\* two calls that write is the disk of such a state.
Quiescent == \A t \in Threads : call[t] = Idle

-----------------------------------------------------------------------------
(* Properties *)

Inode ==
    [size      : 0 .. KTFS_MAX_FILE_SIZE,
     block     : [0 .. KTFS_NUM_DIRECT_DATA_BLOCKS - 1 -> 0 .. super.block_count],
     indirect  : 0 .. super.block_count,
     dindirect : [0 .. KTFS_NUM_DINDIRECT_BLOCKS - 1 -> 0 .. super.block_count]]

\* The variables have their shapes: the bitmaps are within their bits, a file
\* uio names an inode of the table and its position is within the cap
\* FCNTL_SETPOS enforces, a lock is free or owned by a thread.
TypeOK ==
    /\ disk.ibmap \subseteq InodeNums
    /\ disk.dbmap \subseteq 0 .. super.block_count - 1
    /\ disk.inode \in [InodeNums -> Inode]
    /\ DOMAIN disk.data = DataBlocks
    /\ \A b \in DataBlocks : disk.data[b] \in [0 .. KTFS_BLKSZ - 1 -> Nat]
    /\ \A u \in Uios :
          \/ uio[u] = NULL
          \/ /\ uio[u].kind = "file"
             /\ uio[u].inode_number \in InodeNums \ {ROOT}
             /\ uio[u].position \in 0 .. KTFS_MAX_FILE_SIZE
             /\ uio[u].size \in 0 .. KTFS_MAX_FILE_SIZE
             /\ uio[u].file_lock \in Threads \cup {NULL}
          \/ /\ uio[u].kind = "listing"
             /\ uio[u].next_index \in 0 .. uio[u].total_entries
    /\ mount_lock \in Threads \cup {NULL}
    /\ \A t \in Threads :
          call[t].op \in {"idle", "store", "setend", "create", "delete",
                          "fetch", "open", "listing_read"}
    /\ writes \in 0 .. MaxWrites

\* A lock is held only by a thread inside the call that took it: every return
\* of ktfs_store, ktfs_fetch, ktfs_create, ktfs_delete and ktfs_cntl, the
\* error returns included, releases what the call acquired.
LocksBelongToCalls ==
    /\ mount_lock # NULL =>
           call[mount_lock].op \in {"store", "setend", "create", "delete"}
    /\ \A u \in Uios :
           IsFile(u) /\ uio[u].file_lock # NULL =>
               /\ call[uio[u].file_lock].u = u
               /\ call[uio[u].file_lock].op \in {"store", "setend", "fetch"}

\* Between calls, every block a linked inode reaches (a data block, or a
\* table of ktfs_map_block_and_or_allocate) is marked in the data bitmap and
\* is reached through one index slot only: ktfs_alloc_zero_block never hands
\* out a block that is in use, and ktfs_inode_free_all_blocks frees exactly
\* what the inode held.
BlocksHaveOneOwner ==
    Quiescent =>
        /\ \A r \in Refs(disk) : r[2] \in DataBlocks \cap disk.dbmap
        /\ \A r, q \in Refs(disk) : r[2] = q[2] => r = q

\* Between calls, the directory ktfs_create and ktfs_delete maintain names
\* each file once: no name and no inode appears in two entries, no entry is
\* empty or names the root, and the inode bitmap marks exactly the root and
\* the inodes of the entries.
DirectoryConsistent ==
    Quiescent =>
        LET dir == Entries(disk)
        IN  /\ \A i, j \in DOMAIN dir :
                  i # j => dir[i].name # dir[j].name /\ dir[i].inode # dir[j].inode
            /\ \A i \in DOMAIN dir :
                  dir[i].name \in Names /\ dir[i].inode \in InodeNums \ {ROOT}
            /\ disk.ibmap = Linked(disk)

\* Between calls, the disk holds what the calls that returned said they did:
\* a name is in the directory exactly when ktfs_create returned 0 for it and
\* ktfs_delete has not since, and the bytes read through the block map of
\* its inode are the bytes ktfs_store wrote, zero where FCNTL_SETEND or a
\* store past the end extended the file.
DiskImplementsFiles ==
    Quiescent =>
        \A name \in Names :
            IF files[name] = NULL THEN Lookup(disk, name) = NULL
            ELSE /\ Lookup(disk, name) # NULL
                 /\ Contents(disk, Lookup(disk, name)) = files[name]

\* A ktfs_fetch that no ktfs_store or FCNTL_SETEND on the same file overlaps
\* returns the bytes of the file from the position of the uio on, though it
\* walks the block map one cache_get_block at a time while other calls
\* allocate, free and write blocks.
FetchReturnsWhatWasStored ==
    ret.op = "fetch" /\ ret.want # NULL => ret.got = ret.want

\* ktfs_open of a name that is in the directory from before the call to
\* after it does not return -ENOENT.
OpenFindsExistingFile ==
    ret.op = "open" /\ ret.want # NULL => ret.rc # -ENOENT

\* A store or FCNTL_SETEND that finds no free block returns the error of the
\* allocator: ktfs_map_block_and_or_allocate tests "if(rc < 0) return rc"
\* after every ktfs_alloc_zero_block, and no call that writes meets a device
\* error here.
AllocationFailureIsReported ==
    \A t \in Threads :
        call[t].op \in {"store", "setend"} /\ call[t].stage = "write"
            => call[t].rc # -EIO

\* Between calls, every bit set in the data bitmap is a block some linked
\* inode reaches: "bitmap bits match reachability from inodes".
NoLeakedBlocks ==
    Quiescent => disk.dbmap \cap DataBlocks \subseteq {r[2] : r \in Refs(disk)}

=============================================================================
