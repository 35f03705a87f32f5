------------------------------ MODULE MCKtfs -------------------------------
(***************************************************************************)
(* Ktfs for TLC: an image with one block of each bitmap and of the inode   *)
(* table, blocks of two cells, one direct slot  and one double-indirect    *)
(* slot in an inode.                                                       *)
(***************************************************************************)
EXTENDS Ktfs

CONSTANTS t1, t2, u1, u2

\* struct ktfs_superblock of the image: data_start is block 4
SmallSuper ==
    [block_count |-> 13, inode_bitmap_block_count |-> 1,
     bitmap_block_count |-> 1, inode_block_count |-> 1,
     root_directory_inode |-> 0]

\* The image after ktfs_create of name 1 and a ktfs_store of three bytes at
\* position 5 through a new uio: a file of 8 bytes, which uses the direct
\* slot, the indirect table and the double-indirect tables.
Final(trail) == trail[Len(trail)]

PopulatedImage ==
    LET ku == [kind |-> "file", inode_number |-> 1, position |-> 5, size |-> 0,
               file_lock |-> NULL, name |-> 1]
    IN  [disk  |-> Final(ktfs_store(Final(ktfs_create(EmptyImage.disk, 1).trail),
                                    ku, 3, 1).trail),
         files |-> [EmptyImage.files EXCEPT ![1] = <<0, 0, 0, 0, 0, 1, 1, 1>>]]

\* The image after ktfs_create of names 1 and 2 and FCNTL_SETEND of file 1 to
\* five bytes: four data blocks are free, as many as a store to file 2 at
\* position 5 takes before it asks for its double-indirect table.
FilledImage ==
    LET ku == [kind |-> "file", inode_number |-> 1, position |-> 0, size |-> 0,
               file_lock |-> NULL, name |-> 1]
        made == Final(ktfs_create(Final(ktfs_create(EmptyImage.disk, 1).trail),
                                  2).trail)
    IN  [disk  |-> Final(ktfs_cntl_setend(made, ku, 5).trail),
         files |-> [EmptyImage.files EXCEPT ![1] = <<0, 0, 0, 0, 0>>,
                                            ![2] = <<>>]]

BothImages == {EmptyImage, PopulatedImage}
FilledOnly == {FilledImage}
OneImage == {PopulatedImage}
EmptyOnly == {EmptyImage}

Symm == Permutations(Threads) \cup Permutations(Uios)
=============================================================================
