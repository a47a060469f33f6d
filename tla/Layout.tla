------------------------------- MODULE Layout -------------------------------
(***************************************************************************)
(* Where things lie on the image.  The inode table begins in block 3 and   *)
(* goes on, PerBlock inodes to a block (disk.c:133), through block 4,      *)
(* where the users are written (user.c:17), and past the reserved blocks,  *)
(* where allocate_block takes data blocks from.  A block of the table is a *)
(* row of cells, one per inode; writing an inode replaces its cell,        *)
(* writing the users or data replaces all cells of a block.                *)
(*                                                                         *)
(* Files have at most one block.  Directories keep their entries in blocks *)
(* of their own, of which only the root's and its home's are there.        *)
(***************************************************************************)
EXTENDS Integers, FiniteSets, FiniteSetsExt

CONSTANTS
  MaxInodes, \* MAX_INODES (128)
  MaxBlocks, \* MAX_BLOCKS (1024)
  PerBlock,  \* BLOCK_SIZE / sizeof(ext2_inode_t) (8)
  Reserved,  \* blocks ext2_format marks as used (10)
  Digit      \* the block number that "1", the end of the name "user1", makes (49)

TableStart == 3
UserBlock  == 4
Inodes     == 1 .. MaxInodes - 1
Blocks     == 1 .. MaxBlocks

\* Faulty variant: the first inode is not number 1.
TableBlock_FromZero(i) == TableStart + i \div PerBlock

TableBlock(i) == TableStart + (i - 1) \div PerBlock

\* The whole table is on the image.
ASSUME LayoutAssumption ==
  /\ MaxInodes \in Nat /\ MaxInodes > 3
  /\ MaxBlocks \in Nat /\ PerBlock \in Nat \ {0}
  /\ Reserved \in Nat /\ Reserved >= UserBlock /\ Reserved + 2 <= MaxBlocks
  /\ Digit \in Blocks
  /\ \A i \in Inodes : TableBlock(i) \in Blocks

VARIABLES
  cells,   \* what the cells of each block hold
  bmap,    \* the blocks marked as used
  imap,    \* the inodes marked as used
  named,   \* the inodes that files have
  session, \* root is logged in
  known    \* root is among the users in memory

vars == <<cells, bmap, imap, named, session, known>>

Nothing  == [holds |-> "nothing"]
Users    == [holds |-> "users"]
Content  == [holds |-> "data"]
InodeOf(i, b) == [holds |-> "inode", no |-> i, block |-> b]
Cell == {Nothing, Users, Content} \cup [holds : {"inode"}, no : Inodes, block : Blocks \cup {0}]

Row   == 1 .. PerBlock
Empty == [s \in Row |-> Nothing]
Full(c) == [s \in Row |-> c]

Place(i) == 1 + ((i - 1) % PerBlock)
CellOf(i) == cells[TableBlock(i)][Place(i)]

\* Faulty variant: the block is not read before an inode is written into it.
write_inode_Fresh(cs, i, c) == [cs EXCEPT ![TableBlock(i)] = [Empty EXCEPT ![Place(i)] = c]]

write_inode(cs, i, c) == [cs EXCEPT ![TableBlock(i)][Place(i)] = c]
write_block(cs, b, c) == [cs EXCEPT ![b] = Full(c)]

\* The blocks that delete_inode frees for an inode whose cell is c: where the
\* users are, the first inode reads as pointers the is_active of root, which is
\* 1, and the end of the name user1; text is a number no image has.
PointersIn(c, s) ==
  IF c.holds = "inode" THEN {c.block} \ {0}
  ELSE IF c.holds = "users" /\ s = 1 THEN {1, Digit}
  ELSE {}

\* Formatted and mounted, and root's home is there.
HomeIno   == 3
RootBlock == Reserved + 1
HomeBlock == Reserved + 2
FreshTable ==
  [b \in Blocks |-> IF b = UserBlock THEN Full(Users)
                    ELSE IF b \in {RootBlock, HomeBlock} THEN Full(Content) ELSE Empty]
Init ==
  /\ cells = write_inode(write_inode(FreshTable, 2, InodeOf(2, RootBlock)),
                         HomeIno, InodeOf(HomeIno, HomeBlock))
  /\ bmap = 1 .. HomeBlock
  /\ imap = {1, 2, HomeIno}
  /\ named = {}
  /\ session = FALSE
  /\ known = TRUE

\* save_users_to_disk
SaveUsers == cells' = write_block(cells, UserBlock, Users)

Login ==
  /\ ~session /\ known
  /\ session' = TRUE
  /\ UNCHANGED <<cells, bmap, imap, named, known>>

Logout ==
  /\ session
  /\ session' = FALSE
  /\ SaveUsers
  /\ UNCHANGED <<bmap, imap, named, known>>

\* The next process reads the users where they were written: root's record is in
\* the first cell.
Restart ==
  /\ session' = FALSE
  /\ known' = (cells[UserBlock][1].holds = "users")
  /\ UNCHANGED <<cells, bmap, imap, named>>

Create ==
  LET i == Min(Inodes \ imap)
  IN  /\ session /\ Inodes \ imap # {}
      /\ imap' = imap \cup {i}
      /\ named' = named \cup {i}
      /\ cells' = write_inode(cells, i, InodeOf(i, 0))
      /\ UNCHANGED <<bmap, session, known>>

Delete ==
  /\ session
  /\ \E i \in named :
       /\ bmap' = bmap \ PointersIn(CellOf(i), Place(i))
       /\ imap' = imap \ {i}
       /\ named' = named \ {i}
       /\ cells' = write_inode(cells, i, Nothing)
  /\ UNCHANGED <<session, known>>

\* Faulty variant: a block is taken after the last one, which may be the image's.
BlocksToWrite_AfterLast(c) ==
  IF c.holds = "data" THEN {} ELSE IF c.holds = "inode" /\ c.block # 0 THEN {c.block} ELSE {Max(bmap) + 1}

\* The block a write to i goes to: the file's block, or a free one where the first
\* pointer reads as 0, as it does in a cell of the users.  Data reads as a block
\* that no image has: nothing is written.  A bitmap with no free bit belongs to
\* Volume.
BlocksToWrite(c) ==
  IF c.holds = "data" THEN {}
  ELSE IF c.holds = "inode" /\ c.block # 0 THEN {c.block}
  ELSE IF Blocks \ bmap = {} THEN {}
  ELSE {Min(Blocks \ bmap)}

Write ==
  /\ session
  /\ \E i \in named : \E b \in BlocksToWrite(CellOf(i)) :
       /\ bmap' = bmap \cup {b}
       /\ cells' = write_block(write_inode(cells, i, InodeOf(i, b)), b, Content)
  /\ UNCHANGED <<imap, named, session, known>>

Next == Login \/ Logout \/ Restart \/ Create \/ Delete \/ Write

Spec == Init /\ [][Next]_vars

----------------------------------------------------------------------------
\* Every variable has its type.
TypeOK ==
  /\ cells \in [Blocks -> [Row -> Cell]]
  /\ bmap \subseteq Blocks /\ imap \subseteq Inodes /\ named \subseteq imap
  /\ session \in BOOLEAN /\ known \in BOOLEAN

\* The inode of every file reads back as it was written, whatever was created,
\* deleted and written since, and whoever logged out: the table is where the
\* README puts it, in blocks 3 and 4 (README.md:133), and nothing else is.
InodesReadBack == \A i \in named : CellOf(i).holds = "inode" /\ CellOf(i).no = i

\* What a file's or a directory's block holds is data: no inode is written there
\* (README.md:134, "Data Blocks").
DataReadsBack ==
  \A i \in named \cup {2, HomeIno} :
    CellOf(i).holds = "inode" /\ CellOf(i).block # 0 => cells[CellOf(i).block] = Full(Content)

\* The next process finds root among the users: "root/root" (README.md:154).
RootIsKnown == known

\* The blocks of the superblock, the bitmaps and the users stay marked: "标记已使用的块"
\* (ext2.c:140).
ReservedStayMarked == 1 .. Reserved \subseteq bmap

\* What the other modules rely on while inodes fit in the first block of the table:
\* inodes, users and data lie apart.
LyingApart == InodesReadBack /\ DataReadsBack /\ RootIsKnown /\ ReservedStayMarked
=============================================================================
