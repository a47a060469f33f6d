------------------------------- MODULE Volume -------------------------------
(***************************************************************************)
(* The volume: bitmaps, inode table and blocks of the image file, with the *)
(* operations of src/src/disk.c and src/src/inode.c on them.  A volume is  *)
(* a record, an operation of the C code is an operator from a volume to a  *)
(* volume, or to a result [vol, ret] when its caller looks at the value    *)
(* it returns.                                                             *)
(*                                                                         *)
(* Bitmaps are written through by every operation that changes them, so    *)
(* one set stands for the copy in memory and the copy on the image.  The   *)
(* inode table is kept apart from the blocks, which is what the image does *)
(* as long as inode numbers stay below 9 (the table overlaps the user      *)
(* block from there on) and 65 (the first data block).                     *)
(***************************************************************************)
EXTENDS Integers, FiniteSets, FiniteSetsExt

CONSTANTS
  MaxInodes,   \* MAX_INODES (128): numbers 1 .. MaxInodes-1 have a table slot
  MaxBlocks,   \* MAX_BLOCKS (1024): blocks of a fresh image
  BitmapBits,  \* bits of a bitmap block, BLOCK_SIZE * 8 (8192)
  Reserved,    \* bits ext2_format marks as used (10)
  NDirect,     \* direct block pointers of an inode (12)
  Slots,       \* directory entries that fit in a block (3)
  CountMod,    \* 2^32, the width of the superblock's counters
  LinkMod,     \* 2^16, the width of i_links_count; 1 leaves the field out
  Names,       \* the file names used
  Data         \* the text written to files

Dot    == "."
DotDot == ".."

ASSUME VolumeAssumption ==
  /\ MaxInodes \in Nat /\ MaxInodes > 2
  /\ Reserved \in Nat /\ MaxBlocks \in Nat /\ BitmapBits \in Nat
  /\ Reserved + 1 < MaxBlocks /\ MaxBlocks <= BitmapBits
  /\ NDirect \in Nat \ {0} /\ Slots \in Nat /\ Slots > 1
  /\ CountMod \in Nat \ {0} /\ LinkMod \in Nat \ {0}

Inodes  == 1 .. (MaxInodes - 1)  \* what read_inode and write_inode accept
RootIno == 2                     \* EXT2_ROOT_INO
Bad     == MaxInodes             \* any number outside the table, (uint32_t)-1
Blocks  == 1 .. BitmapBits       \* bit b of the bitmap is block b + 1
Index   == 0 .. (NDirect - 1)
Slot    == 1 .. Slots

\* Words a file may hold in its direct blocks; no write goes beyond.
MaxFileWords == NDirect * Slots

(***************************************************************************)
(* A block is Slots words.  A word is zero, a directory entry, a piece of  *)
(* file text or, in the indirect block of a large file, the number of a    *)
(* block.  It keeps what it is until it is overwritten: nothing in the     *)
(* code clears a block when it is freed or handed out again.               *)
(***************************************************************************)
Zero        == [tag |-> "zero"]
Entry(n, i) == [tag |-> "entry", name |-> n, ino |-> i]
Text(d)     == [tag |-> "text", data |-> d]
BlockNo(b)  == [tag |-> "block", number |-> b]
Word == {Zero} \cup [tag : {"entry"}, name : Names \cup {Dot, DotDot}, ino : 1 .. MaxInodes]
               \cup [tag : {"text"}, data : Data] \cup [tag : {"block"}, number : Blocks]
ZeroBlock == [s \in Slot |-> Zero]

Inode == [type : {"none", "reg", "dir"}, size : 0 .. MaxFileWords, links : Nat,
          ptr : [Index -> 0 .. BitmapBits]]
NewInode(t) == [type |-> t, size |-> 0, links |-> 1 % LinkMod, ptr |-> [k \in Index |-> 0]]
ZeroInode   == [NewInode("none") EXCEPT !.links = 0]

Volumes == [bmap : SUBSET Blocks, imap : SUBSET Inodes, itab : [Inodes -> Inode],
            blk : [Blocks -> [Slot -> Word]], end : Nat, bfree : Nat, ifree : Nat]

Result(v, r) == [vol |-> v, ret |-> r]
Done(v) == Result(v, 0)
Fail(v) == Result(v, -1)

----------------------------------------------------------------------------
(* disk.c *)

\* read_block fails at the end of the image file, write_block extends it.
Readable(v, b) == b < v.end
write_block(v, b, words) ==
  [v EXCEPT !.blk[b] = words, !.end = IF b < @ THEN @ ELSE b + 1]

\* Faulty variants, for checking that the properties notice: the bit found is
\* not set; the bit is returned for the block, one below its number.
allocate_block_NotMarked(v) ==
  LET free == Blocks \ v.bmap
  IN  IF free = {} THEN Result(v, 0) ELSE Result(v, Min(free))
allocate_block_BitForBlock(v) ==
  LET free == Blocks \ v.bmap
      b    == Min(free)
  IN  IF free = {} THEN Result(v, 0) ELSE Result([v EXCEPT !.bmap = @ \cup {b}], b - 1)

\* find_free_bit scans the whole bitmap block, beyond MAX_BLOCKS.
allocate_block(v) ==
  LET free == Blocks \ v.bmap
      b    == Min(free)
  IN  IF free = {} THEN Result(v, 0)
      ELSE Result([v EXCEPT !.bmap = @ \cup {b}, !.bfree = (@ - 1) % CountMod], b)

allocate_inode(v) ==
  LET free == Inodes \ v.imap
      i    == Min(free)
  IN  IF free = {} THEN Result(v, Bad)
      ELSE Result([v EXCEPT !.imap = @ \cup {i}, !.ifree = (@ - 1) % CountMod], i)

\* Faulty variant: the counter is forgotten.
free_inode_NotCounted(v, i) == [v EXCEPT !.imap = @ \ {i}]

free_inode(v, i) == [v EXCEPT !.imap = @ \ {i}, !.ifree = (@ + 1) % CountMod]

\* Faulty variant: the loop over the pointers ends one too early.
free_blocks_SkipsLast(v, i, ks) ==
  LET freed == {k \in ks \ {NDirect - 1} : v.itab[i].ptr[k] \in 1 .. MaxBlocks}
  IN  [v EXCEPT !.bmap = @ \ {v.itab[i].ptr[k] : k \in freed},
                !.bfree = (@ + Cardinality(freed)) % CountMod]

\* Faulty variant: the bit cleared is the one above the block's.
free_blocks_BlockForBit(v, i, ks) ==
  LET freed == {k \in ks : v.itab[i].ptr[k] \in 1 .. MaxBlocks}
  IN  [v EXCEPT !.bmap = @ \ {v.itab[i].ptr[k] + 1 : k \in freed}]

\* free_block on each block the pointers in ks name; it ignores block 0 and
\* blocks beyond MAX_BLOCKS.
free_blocks(v, i, ks) ==
  LET freed == {k \in ks : v.itab[i].ptr[k] \in 1 .. MaxBlocks}
  IN  [v EXCEPT !.bmap = @ \ {v.itab[i].ptr[k] : k \in freed},
                !.bfree = (@ + Cardinality(freed)) % CountMod]

----------------------------------------------------------------------------
(* inode.c *)

IsType(v, i, t) == i \in Inodes /\ v.itab[i].type = t
is_directory(v, i)    == IsType(v, i, "dir")
is_regular_file(v, i) == IsType(v, i, "reg")

\* With no table slot left create_inode returns -1, which its callers, who
\* compare with 0, take for the number Bad.
create_inode(v, t) ==
  LET a == allocate_inode(v)
  IN  IF a.ret = Bad THEN a
      ELSE Result([a.vol EXCEPT !.itab[a.ret] = NewInode(t)], a.ret)

\* Faulty variant: the inode is not cleared.
delete_inode_KeepsPointers(v, i) ==
  IF i \notin Inodes THEN v ELSE free_inode(free_blocks(v, i, Index), i)

delete_inode(v, i) ==
  IF i \notin Inodes THEN v
  ELSE free_inode([free_blocks(v, i, Index) EXCEPT !.itab[i] = ZeroInode], i)

get_inode_block(v, i, k) == v.itab[i].ptr[k]
set_inode_block(v, i, k, b) ==
  IF i \in Inodes THEN [v EXCEPT !.itab[i].ptr[k] = b] ELSE v

increment_link_count(v, i) ==
  IF i \in Inodes THEN [v EXCEPT !.itab[i].links = (@ + 1) % LinkMod] ELSE v
decrement_link_count(v, i) ==
  IF i \in Inodes THEN [v EXCEPT !.itab[i].links = IF @ > 0 THEN @ - 1 ELSE 0] ELSE v

\* Faulty variant: the new block is used without being attached.
BlockFor_NotAttached(v, i, k) ==
  IF get_inode_block(v, i, k) # 0 THEN Result(v, get_inode_block(v, i, k)) ELSE allocate_block(v)

Attached(a, i, k) ==
  IF a.ret = 0 THEN a ELSE Result(set_inode_block(a.vol, i, k, a.ret), a.ret)

\* The block at index k of inode i, allocated if there is none: ret is 0 when
\* no block is free.
BlockFor(v, i, k) ==
  IF get_inode_block(v, i, k) # 0 THEN Result(v, get_inode_block(v, i, k))
  ELSE Attached(allocate_block(v), i, k)

\* Faulty variant: a write counts to the end of the block.
WriteChunk_WholeBlock(v, i, off, n, d) ==
  LET pos == off % Slots
      at  == BlockFor(v, i, off \div Slots)
  IN  IF at.ret = 0 \/ ~Readable(at.vol, at.ret) THEN Result(at.vol, 0)
      ELSE Result(write_block(at.vol, at.ret, [s \in Slot |-> IF s <= pos THEN at.vol.blk[at.ret][s]
                                                              ELSE Text(d)]), Slots - pos)

\* One iteration of the loop of write_inode_data: up to n words of text d at
\* offset off.  ret is how many were written, 0 when the loop breaks.
WriteChunk(v, i, off, n, d) ==
  LET pos   == off % Slots
      m     == Min({n, Slots - pos})
      at    == BlockFor(v, i, off \div Slots)
      chunk == [s \in Slot |-> IF s \in pos + 1 .. pos + m THEN Text(d)
                               ELSE at.vol.blk[at.ret][s]]
  IN  IF at.ret = 0 \/ ~Readable(at.vol, at.ret) THEN Result(at.vol, 0)
      ELSE Result(write_block(at.vol, at.ret, chunk), m)

\* How many of n words read_inode_data returns at offset off: it stops at the
\* size, at a missing block and at a block it cannot read.
ReadCount(v, i, off, n) ==
  LET Present(x) == LET b == get_inode_block(v, i, x \div Slots)
                    IN  b # 0 /\ Readable(v, b)
  IN  Max({c \in 0 .. n : \A x \in off .. off + c - 1 :
                              x < v.itab[i].size /\ Present(x)})

----------------------------------------------------------------------------
(* ext2.c *)

\* The superblock's counters are written by ext2_format, before the root
\* directory takes an inode and a block, and never again; mounting reads them.
MountCounters(v) == [v EXCEPT !.bfree = (MaxBlocks - Reserved) % CountMod,
                              !.ifree = (MaxInodes - 1) % CountMod]

\* The image ext2_format leaves, mounted.
FormattedVolume ==
  LET rootBlock == Reserved + 1
  IN  MountCounters(
      [bmap  |-> 1 .. rootBlock,
       imap  |-> {1, RootIno},
       itab  |-> [i \in Inodes |-> IF i = RootIno
                                   THEN [NewInode("dir") EXCEPT !.ptr[0] = rootBlock]
                                   ELSE ZeroInode],
       blk   |-> [b \in Blocks |-> IF b = rootBlock
                                   THEN [ZeroBlock EXCEPT ![1] = Entry(Dot, RootIno),
                                                          ![2] = Entry(DotDot, RootIno)]
                                   ELSE ZeroBlock],
       end   |-> MaxBlocks,
       bfree |-> 0,
       ifree |-> 0])
=============================================================================
