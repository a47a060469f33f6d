---------------------------- MODULE LayoutProofs ----------------------------
(***************************************************************************)
(* That inodes, users and data lie apart, for every size of image and of   *)
(* the inode table, as long as the inodes in use lie in its first block.   *)
(* With one inode more in use, TLC finds the users overwritten; the types  *)
(* still hold.                                                             *)
(***************************************************************************)
EXTENDS Layout, TLAPS, NaturalsInduction, WellFoundedInduction

\* The inodes in the first block of the table, however many there are beyond.
Near == Inodes \cap 1 .. PerBlock
Fits == imap \subseteq Near

Kept == named \cup {2, HomeIno}

\* Where a cell leads to: nowhere, or to a block of data beyond the reserved ones.
LeadsToData(c) ==
  /\ c.holds = "inode"
  /\ c.block # 0 => c.block > Reserved /\ cells[c.block] = Full(Content)

\* LyingApart made inductive: what a block is written over with, and what a
\* deletion frees, depends on what the cells hold.
Inv ==
  /\ TypeOK
  /\ 1 .. Reserved \subseteq bmap
  /\ {1, 2, HomeIno} \subseteq imap
  /\ named \cap {1, 2, HomeIno} = {}
  /\ cells[UserBlock] = Full(Users)
  /\ known
  /\ \A i \in Kept : LeadsToData(CellOf(i)) /\ CellOf(i).no = i

----------------------------------------------------------------------------
LEMMA MinIsMember ==
  ASSUME NEW S, S \subseteq Nat, S # {}
  PROVE  Min(S) \in S
<1>1. PICK x \in S : \A y \in S : ~ (<<y, x>> \in OpToRel(<, Nat))
  BY NatLessThanWellFounded, WFMin
<1>2. \A y \in S : ~ (y < x)
  BY <1>1, Zenon DEF OpToRel
<1>3. \A y \in S : x <= y
  BY <1>2
<1> QED BY <1>3 DEF Min

\* Each of them has its own place there.
LEMMA FirstBlock ==
  ASSUME NEW i \in Near
  PROVE  TableBlock(i) = TableStart /\ Place(i) = i /\ i \in Row
<1>1. i \in Nat /\ 1 <= i /\ i <= PerBlock /\ PerBlock \in Nat
  BY LayoutAssumption DEF Inodes, Near
<1>2. (i - 1) \div PerBlock = 0 /\ (i - 1) % PerBlock = i - 1
  BY <1>1, SMTT(30)
<1> QED BY <1>1, <1>2 DEF TableBlock, Place, Row, TableStart

LEMMA Sizes ==
  /\ TableStart \in Blocks /\ UserBlock \in Blocks /\ TableStart <= Reserved /\ UserBlock <= Reserved
  /\ TableStart # UserBlock
  /\ {1, 2, HomeIno} \subseteq Inodes /\ 1 \in Row
  /\ Nothing \in Cell /\ Users \in Cell /\ Content \in Cell
BY LayoutAssumption DEF TableStart, UserBlock, Blocks, Inodes, HomeIno, Row, Cell, Nothing, Users, Content

\* What writing an inode does to the cells.
LEMMA WriteInode ==
  ASSUME NEW cs \in [Blocks -> [Row -> Cell]], NEW i \in Near, NEW c \in Cell
  PROVE  LET w == write_inode(cs, i, c)
         IN  /\ w \in [Blocks -> [Row -> Cell]]
             /\ w[TableStart][i] = c
             /\ \A j \in Near : j # i => w[TableStart][j] = cs[TableStart][j]
             /\ \A b \in Blocks : b # TableStart => w[b] = cs[b]
<1>1. write_inode(cs, i, c) = [cs EXCEPT ![TableStart] = [cs[TableStart] EXCEPT ![i] = c]]
  BY FirstBlock DEF write_inode
<1>2. cs[TableStart] \in [Row -> Cell]
  BY Sizes
<1>3. \A j \in Near : j \in Row
  BY FirstBlock
<1> QED BY <1>1, <1>2, <1>3, Sizes

LEMMA WriteBlock ==
  ASSUME NEW cs \in [Blocks -> [Row -> Cell]], NEW b \in Blocks, NEW c \in Cell
  PROVE  LET w == write_block(cs, b, c)
         IN  /\ w \in [Blocks -> [Row -> Cell]]
             /\ w[b] = Full(c)
             /\ \A d \in Blocks : d # b => w[d] = cs[d]
BY DEF write_block, Full

LEMMA CellTypes ==
  ASSUME TypeOK, NEW i \in Near
  PROVE  CellOf(i) = cells[TableStart][i] /\ CellOf(i) \in Cell
BY FirstBlock, Sizes DEF CellOf, TypeOK

LEMMA InodeCells ==
  ASSUME NEW c \in Cell, c.holds = "inode"
  PROVE  c.no \in Inodes /\ c.block \in Blocks \cup {0}
BY DEF Cell, Nothing, Users, Content

LEMMA NewCells ==
  ASSUME NEW i \in Inodes, NEW b \in Blocks \cup {0}
  PROVE  /\ InodeOf(i, b) \in Cell
         /\ InodeOf(i, b).holds = "inode" /\ InodeOf(i, b).no = i /\ InodeOf(i, b).block = b
BY DEF Cell, InodeOf

----------------------------------------------------------------------------
LEMMA InitInv == Init /\ Fits => Inv
<1> SUFFICES ASSUME Init, Fits PROVE Inv
  OBVIOUS
<1> DEFINE one == write_inode(FreshTable, 2, InodeOf(2, RootBlock))
<1>1. RootBlock \in Blocks /\ HomeBlock \in Blocks /\ RootBlock > Reserved /\ HomeBlock > Reserved
  BY LayoutAssumption DEF RootBlock, HomeBlock, Blocks, UserBlock
<1>2. FreshTable \in [Blocks -> [Row -> Cell]]
  BY Sizes DEF FreshTable, Full, Empty
<1>3. 2 \in Near /\ HomeIno \in Near /\ HomeIno # 2
  BY DEF Init, Fits, HomeIno
<1>4. InodeOf(2, RootBlock) \in Cell /\ InodeOf(HomeIno, HomeBlock) \in Cell
  BY <1>1, <1>3, NewCells DEF Near
<1>5. /\ one \in [Blocks -> [Row -> Cell]]
      /\ one[TableStart][2] = InodeOf(2, RootBlock)
      /\ \A b \in Blocks : b # TableStart => one[b] = FreshTable[b]
  BY <1>2, <1>3, <1>4, WriteInode
<1>6. /\ cells \in [Blocks -> [Row -> Cell]]
      /\ cells[TableStart][HomeIno] = InodeOf(HomeIno, HomeBlock)
      /\ cells[TableStart][2] = InodeOf(2, RootBlock)
      /\ \A b \in Blocks : b # TableStart => cells[b] = FreshTable[b]
  <2>1. cells = write_inode(one, HomeIno, InodeOf(HomeIno, HomeBlock))
    BY DEF Init
  <2> HIDE DEF one
  <2> QED BY <1>3, <1>4, <1>5, <2>1, WriteInode
<1>7. TypeOK
  <2>1. bmap \subseteq Blocks
    BY LayoutAssumption DEF Init, HomeBlock, Blocks, UserBlock
  <2> QED BY <1>6, <2>1, Sizes DEF Init, TypeOK
<1>8. /\ cells[UserBlock] = Full(Users)
      /\ cells[RootBlock] = Full(Content) /\ cells[HomeBlock] = Full(Content)
  <2>1. /\ UserBlock # RootBlock /\ UserBlock # HomeBlock
        /\ RootBlock # TableStart /\ HomeBlock # TableStart
    BY <1>1, Sizes, LayoutAssumption DEF Blocks
  <2> QED BY <1>1, <1>6, <2>1, Sizes DEF FreshTable
<1>9. \A i \in Kept : LeadsToData(CellOf(i)) /\ CellOf(i).no = i
  <2>1. CellOf(2) = InodeOf(2, RootBlock) /\ CellOf(HomeIno) = InodeOf(HomeIno, HomeBlock)
    BY <1>3, <1>6, <1>7, CellTypes
  <2>2. \A i \in Kept : i = 2 \/ i = HomeIno
    BY DEF Kept, Init
  <2> QED BY <1>1, <1>3, <1>8, <2>1, <2>2, NewCells DEF LeadsToData, Near
<1>10. 1 .. Reserved \subseteq bmap
  BY LayoutAssumption DEF Init, HomeBlock
<1> QED BY <1>7, <1>8, <1>9, <1>10 DEF Inv, Init

\* A write of the cell of inode i, with what it leads to, disturbs no other inode.
LEMMA KeptThrough ==
  ASSUME Inv,
         NEW i \in Near,
         \A j \in Near : j # i => cells'[TableStart][j] = cells[TableStart][j],
         \A b \in Blocks : b # TableStart =>
           cells'[b] = cells[b] \/ (b > Reserved /\ cells'[b] = Full(Content)),
         TypeOK',
         NEW j \in Kept \cap Near, j # i
  PROVE  LeadsToData(CellOf(j))' /\ CellOf(j)'.no = j
<1>1. CellOf(j)' = CellOf(j)
  BY CellTypes, FirstBlock, Sizes DEF CellOf
<1>2. LeadsToData(CellOf(j)) /\ CellOf(j).no = j
  BY DEF Inv
<1>3. CellOf(j).block # 0 => CellOf(j).block \in Blocks /\ CellOf(j).block # TableStart
  <2>1. CellOf(j) \in Cell /\ CellOf(j).holds = "inode"
    BY <1>2, CellTypes DEF LeadsToData, Inv
  <2>2. CellOf(j).block \in Blocks \cup {0}
    BY <2>1, InodeCells
  <2>3. \A b \in Blocks : b > Reserved => b # TableStart
    BY Sizes, LayoutAssumption DEF Blocks
  <2> QED BY <1>2, <2>2, <2>3 DEF LeadsToData
<1> QED BY <1>1, <1>2, <1>3 DEF LeadsToData

\* Whoever has an inode, or had one, has it in the first block.
LEMMA KeptNear == ASSUME Inv, Fits PROVE Kept \subseteq Near
BY DEF Inv, TypeOK, Fits, Kept

LEMMA StepInv == Inv /\ Fits /\ Fits' /\ [Next]_vars => Inv'
<1> SUFFICES ASSUME Inv, Fits, Fits', [Next]_vars PROVE Inv'
  OBVIOUS
<1> USE DEF HomeIno
<1>1. CASE Login
  BY <1>1 DEF Login, Inv, TypeOK, Kept, CellOf, LeadsToData
<1>2. CASE Logout
  <2>1. cells' \in [Blocks -> [Row -> Cell]] /\ cells'[UserBlock] = Full(Users)
        /\ \A b \in Blocks : b # UserBlock => cells'[b] = cells[b]
    BY <1>2, WriteBlock, Sizes DEF Logout, SaveUsers, Inv, TypeOK
  <2>2. cells' = cells
    BY <2>1 DEF Inv, TypeOK
  <2> QED BY <1>2, <2>2 DEF Logout, Inv, TypeOK, Kept, CellOf, LeadsToData
<1>3. CASE Restart
  <2>1. cells[UserBlock][1] = Users
    BY Sizes DEF Inv, Full
  <2>2. cells[UserBlock][1].holds = "users"
    BY <2>1 DEF Users
  <2>3. known'
    BY <1>3, <2>2, Zenon DEF Restart
  <2> QED BY <1>3, <2>3 DEF Restart, Inv, TypeOK, Kept, CellOf, LeadsToData
<1>4. CASE Create
  <2>1. Min(Inodes \ imap) \in Inodes \ imap
    <3>1. Inodes \ imap \subseteq Nat
      BY DEF Inodes
    <3> QED BY <1>4, <3>1, MinIsMember DEF Create
  <2>2. PICK i \in Inodes \ imap :
          /\ cells' = write_inode(cells, i, InodeOf(i, 0))
          /\ imap' = imap \cup {i} /\ named' = named \cup {i}
    BY <1>4, <2>1 DEF Create
  <2>n. i \in Near
    BY <2>2 DEF Fits
  <2>3. /\ cells' \in [Blocks -> [Row -> Cell]] /\ cells'[TableStart][i] = InodeOf(i, 0)
        /\ \A j \in Near : j # i => cells'[TableStart][j] = cells[TableStart][j]
        /\ \A b \in Blocks : b # TableStart => cells'[b] = cells[b]
    <3>1. InodeOf(i, 0) \in Cell
      BY <2>2, NewCells
    <3>2. cells \in [Blocks -> [Row -> Cell]]
      BY DEF Inv, TypeOK
    <3> QED BY <2>2, <2>n, <3>1, <3>2, WriteInode
  <2>4. TypeOK'
    BY <1>4, <2>2, <2>3 DEF Create, Inv, TypeOK
  <2>5. \A j \in Kept' : LeadsToData(CellOf(j))' /\ CellOf(j)'.no = j
    <3> TAKE j \in Kept'
    <3>1. j = i \/ j \in Kept
      BY <2>2 DEF Kept
    <3>2. CASE j = i
      <4>1. CellOf(i)' = InodeOf(i, 0)
        BY <2>n, <2>3, FirstBlock DEF CellOf
      <4> QED BY <2>2, <3>2, <4>1, NewCells DEF LeadsToData
    <3>3. CASE j # i
      <4>1. j \in Kept \cap Near
        BY <3>1, <3>3, KeptNear
      <4> QED BY <2>n, <2>3, <2>4, <3>3, <4>1, KeptThrough
    <3> QED BY <3>2, <3>3
  <2>6. {1, 2, HomeIno} \subseteq imap' /\ named' \cap {1, 2, HomeIno} = {}
    BY <2>2 DEF Inv
  <2>7. cells'[UserBlock] = Full(Users)
    BY <2>3, Sizes DEF Inv
  <2> QED BY <1>4, <2>4, <2>5, <2>6, <2>7 DEF Create, Inv
<1>5. CASE Delete
  <2>1. PICK i \in named :
          /\ bmap' = bmap \ PointersIn(CellOf(i), Place(i))
          /\ imap' = imap \ {i} /\ named' = named \ {i}
          /\ cells' = write_inode(cells, i, Nothing)
    BY <1>5 DEF Delete
  <2>2. i \in Inodes /\ i \notin {1, 2, HomeIno} /\ i \in Kept /\ i \in Near
    BY KeptNear DEF Inv, TypeOK, Kept
  <2>3. /\ cells' \in [Blocks -> [Row -> Cell]]
        /\ \A j \in Near : j # i => cells'[TableStart][j] = cells[TableStart][j]
        /\ \A b \in Blocks : b # TableStart => cells'[b] = cells[b]
    <3>1. Nothing \in Cell
      BY Sizes
    <3>2. cells \in [Blocks -> [Row -> Cell]]
      BY DEF Inv, TypeOK
    <3> QED BY <2>1, <2>2, <3>1, <3>2, WriteInode
  <2>4. TypeOK'
    BY <1>5, <2>1, <2>3 DEF Delete, Inv, TypeOK
  <2>5. 1 .. Reserved \subseteq bmap'
    <3>1. PointersIn(CellOf(i), Place(i)) = {CellOf(i).block} \ {0}
      BY <2>2 DEF Inv, LeadsToData, PointersIn
    <3>2. \A b \in {CellOf(i).block} \ {0} : b > Reserved /\ b \in Blocks
      BY <2>2, CellTypes, InodeCells DEF Inv, LeadsToData
    <3> QED BY <2>1, <3>1, <3>2, LayoutAssumption DEF Inv, Blocks
  <2>6. \A j \in Kept' : LeadsToData(CellOf(j))' /\ CellOf(j)'.no = j
    <3> TAKE j \in Kept'
    <3>1. j \in Near /\ j # i /\ j \in Kept
      BY <2>1, <2>2, KeptNear DEF Kept
    <3> QED BY <2>2, <2>3, <2>4, <3>1, KeptThrough
  <2> QED BY <1>5, <2>1, <2>2, <2>3, <2>4, <2>5, <2>6, Sizes DEF Delete, Inv
<1>6. CASE Write
  <2>a. PICK i \in named : \E b \in BlocksToWrite(CellOf(i)) :
          /\ bmap' = bmap \cup {b}
          /\ cells' = write_block(write_inode(cells, i, InodeOf(i, b)), b, Content)
    BY <1>6 DEF Write
  <2>1. PICK b \in BlocksToWrite(CellOf(i)) :
          /\ bmap' = bmap \cup {b}
          /\ cells' = write_block(write_inode(cells, i, InodeOf(i, b)), b, Content)
    BY <2>a
  <2>2. i \in Inodes /\ i \in Kept /\ i \in Near
    BY KeptNear DEF Inv, TypeOK, Kept
  <2>3. b \in Blocks /\ b > Reserved
    <3>1. CASE CellOf(i).block # 0
      <4>1. b = CellOf(i).block
        BY <2>2, <3>1 DEF BlocksToWrite, Inv, LeadsToData
      <4> QED BY <2>2, <3>1, <4>1, CellTypes, InodeCells DEF Inv, LeadsToData
    <3>2. CASE CellOf(i).block = 0
      <4>1. Blocks \ bmap # {} /\ b = Min(Blocks \ bmap)
        BY <2>2, <3>2 DEF BlocksToWrite, Inv, LeadsToData
      <4>2. b \in Blocks \ bmap
        BY <4>1, MinIsMember DEF Blocks
      <4> QED BY <4>2, LayoutAssumption DEF Inv, Blocks
    <3> QED BY <3>1, <3>2
  <2> DEFINE mid == write_inode(cells, i, InodeOf(i, b))
  <2>4. /\ mid \in [Blocks -> [Row -> Cell]] /\ mid[TableStart][i] = InodeOf(i, b)
        /\ \A j \in Near : j # i => mid[TableStart][j] = cells[TableStart][j]
        /\ \A d \in Blocks : d # TableStart => mid[d] = cells[d]
    <3>1. InodeOf(i, b) \in Cell
      BY <2>2, <2>3, NewCells
    <3>2. cells \in [Blocks -> [Row -> Cell]]
      BY DEF Inv, TypeOK
    <3> QED BY <2>2, <3>1, <3>2, WriteInode
  <2>5. /\ cells' \in [Blocks -> [Row -> Cell]] /\ cells'[b] = Full(Content)
        /\ \A d \in Blocks : d # b => cells'[d] = mid[d]
    <3>1. cells' = write_block(mid, b, Content)
      BY <2>1
    <3>2. Content \in Cell
      BY Sizes
    <3> HIDE DEF mid
    <3> QED BY <2>3, <2>4, <3>1, <3>2, WriteBlock
  <2> HIDE DEF mid
  <2>6. b # TableStart /\ b # UserBlock
    BY <2>3, Sizes, LayoutAssumption DEF Blocks
  <2>7. TypeOK'
    BY <1>6, <2>1, <2>3, <2>5 DEF Write, Inv, TypeOK
  <2>8. \A j \in Kept' : LeadsToData(CellOf(j))' /\ CellOf(j)'.no = j
    <3> TAKE j \in Kept'
    <3>1. j \in Near /\ j \in Kept
      BY <1>6, KeptNear DEF Kept, Write
    <3>2. CASE j = i
      <4>1. CellOf(i)' = InodeOf(i, b)
        BY <2>2, <2>4, <2>5, <2>6, FirstBlock, Sizes DEF CellOf
      <4> QED BY <2>2, <2>3, <2>5, <3>2, <4>1, NewCells DEF LeadsToData
    <3>3. CASE j # i
      BY <2>2, <2>3, <2>4, <2>5, <2>6, <2>7, <3>1, <3>3, Sizes, KeptThrough
    <3> QED BY <3>2, <3>3
  <2> QED BY <1>6, <2>1, <2>4, <2>5, <2>6, <2>7, <2>8, Sizes DEF Write, Inv
<1>7. CASE UNCHANGED vars
  BY <1>7 DEF vars, Inv, TypeOK, Kept, CellOf, LeadsToData
<1> QED BY <1>1, <1>2, <1>3, <1>4, <1>5, <1>6, <1>7 DEF Next

LEMMA InvImplies == Inv => LyingApart
<1> SUFFICES ASSUME Inv PROVE LyingApart
  OBVIOUS
<1>1. InodesReadBack
  BY DEF Inv, InodesReadBack, LeadsToData, Kept
<1>2. DataReadsBack
  BY DEF Inv, DataReadsBack, LeadsToData, Kept
<1> QED BY <1>1, <1>2 DEF Inv, LyingApart, RootIsKnown, ReservedStayMarked

----------------------------------------------------------------------------
(* The types, of tables of any number of blocks *)

LEMMA CellPlaces ==
  ASSUME NEW i \in Inodes
  PROVE  TableBlock(i) \in Blocks /\ Place(i) \in Row
<1>1. TableBlock(i) \in Blocks
  BY LayoutAssumption DEF TableBlock
<1>2. i - 1 \in Int /\ PerBlock \in Nat \ {0}
  BY LayoutAssumption DEF Inodes
<1>3. (i - 1) % PerBlock \in 0 .. PerBlock - 1
  BY <1>2
<1> QED BY <1>1, <1>2, <1>3 DEF Place, Row

LEMMA InodeWritten ==
  ASSUME NEW cs \in [Blocks -> [Row -> Cell]], NEW i \in Inodes, NEW c \in Cell
  PROVE  write_inode(cs, i, c) \in [Blocks -> [Row -> Cell]]
<1>1. TableBlock(i) \in Blocks /\ Place(i) \in Row
  BY CellPlaces
<1> QED BY <1>1 DEF write_inode

\* Whatever lies in the cell of a file, a write takes a block of the image.
LEMMA WritesOnImage ==
  ASSUME NEW c \in Cell, NEW b \in BlocksToWrite(c)
  PROVE  b \in Blocks
<1>1. CASE c.holds = "inode" /\ c.block # 0
  BY <1>1, InodeCells DEF BlocksToWrite
<1>2. CASE ~(c.holds = "inode" /\ c.block # 0)
  <2>1. Blocks \ bmap # {} /\ b = Min(Blocks \ bmap)
    BY <1>2 DEF BlocksToWrite
  <2> QED BY <2>1, MinIsMember DEF Blocks
<1> QED BY <1>1, <1>2

LEMMA TypeInit == Init => TypeOK
<1> SUFFICES ASSUME Init PROVE TypeOK
  OBVIOUS
<1> DEFINE one == write_inode(FreshTable, 2, InodeOf(2, RootBlock))
<1>1. RootBlock \in Blocks /\ HomeBlock \in Blocks
  BY LayoutAssumption DEF RootBlock, HomeBlock, Blocks, UserBlock
<1>2. FreshTable \in [Blocks -> [Row -> Cell]]
  BY Sizes DEF FreshTable, Full, Empty
<1>3. 2 \in Inodes /\ HomeIno \in Inodes /\ {1, 2, HomeIno} \subseteq Inodes
  BY Sizes
<1>4. InodeOf(2, RootBlock) \in Cell /\ InodeOf(HomeIno, HomeBlock) \in Cell
  BY <1>1, <1>3, NewCells
<1>5. one \in [Blocks -> [Row -> Cell]]
  BY <1>2, <1>3, <1>4, InodeWritten
<1>6. cells \in [Blocks -> [Row -> Cell]]
  <2>1. cells = write_inode(one, HomeIno, InodeOf(HomeIno, HomeBlock))
    BY DEF Init
  <2> HIDE DEF one
  <2> QED BY <1>3, <1>4, <1>5, <2>1, InodeWritten
<1>7. bmap \subseteq Blocks
  BY LayoutAssumption DEF Init, HomeBlock, Blocks, UserBlock
<1> QED BY <1>3, <1>6, <1>7 DEF Init, TypeOK

LEMMA TypeStep == TypeOK /\ [Next]_vars => TypeOK'
<1> SUFFICES ASSUME TypeOK, [Next]_vars PROVE TypeOK'
  OBVIOUS
<1>1. cells \in [Blocks -> [Row -> Cell]] /\ named \subseteq Inodes
  BY DEF TypeOK
<1>2. CASE Login
  BY <1>2 DEF Login, TypeOK
<1>3. CASE Logout
  BY <1>1, <1>3, Sizes, WriteBlock DEF Logout, SaveUsers, TypeOK
<1>4. CASE Restart
  BY <1>4 DEF Restart, TypeOK
<1>5. CASE Create
  <2>1. Min(Inodes \ imap) \in Inodes
    <3>1. Inodes \ imap \subseteq Nat
      BY DEF Inodes
    <3> QED BY <1>5, <3>1, MinIsMember DEF Create
  <2>2. PICK i \in Inodes : /\ cells' = write_inode(cells, i, InodeOf(i, 0))
                            /\ imap' = imap \cup {i} /\ named' = named \cup {i}
    BY <1>5, <2>1 DEF Create
  <2>3. InodeOf(i, 0) \in Cell
    BY NewCells
  <2>4. cells' \in [Blocks -> [Row -> Cell]]
    BY <1>1, <2>2, <2>3, InodeWritten
  <2> QED BY <1>5, <2>2, <2>4 DEF Create, TypeOK
<1>6. CASE Delete
  <2>1. PICK i \in named : /\ bmap' = bmap \ PointersIn(CellOf(i), Place(i))
                           /\ imap' = imap \ {i} /\ named' = named \ {i}
                           /\ cells' = write_inode(cells, i, Nothing)
    BY <1>6 DEF Delete
  <2>2. cells' \in [Blocks -> [Row -> Cell]]
    BY <1>1, <2>1, Sizes, InodeWritten
  <2> QED BY <1>6, <2>1, <2>2 DEF Delete, TypeOK
<1>7. CASE Write
  <2>1. PICK i \in named : \E b \in BlocksToWrite(CellOf(i)) :
          /\ bmap' = bmap \cup {b}
          /\ cells' = write_block(write_inode(cells, i, InodeOf(i, b)), b, Content)
    BY <1>7 DEF Write
  <2>2. PICK b \in BlocksToWrite(CellOf(i)) :
          /\ bmap' = bmap \cup {b}
          /\ cells' = write_block(write_inode(cells, i, InodeOf(i, b)), b, Content)
    BY <2>1
  <2>3. i \in Inodes /\ CellOf(i) \in Cell
    BY <1>1, CellPlaces DEF CellOf
  <2>4. b \in Blocks
    BY <2>3, WritesOnImage
  <2> DEFINE mid == write_inode(cells, i, InodeOf(i, b))
  <2>5. mid \in [Blocks -> [Row -> Cell]]
    BY <1>1, <2>3, <2>4, NewCells, InodeWritten
  <2> HIDE DEF mid
  <2>6. cells' \in [Blocks -> [Row -> Cell]]
    BY <2>2, <2>4, <2>5, Sizes, WriteBlock DEF mid
  <2> QED BY <1>7, <2>2, <2>4, <2>6 DEF Write, TypeOK
<1>8. CASE UNCHANGED vars
  BY <1>8 DEF vars, TypeOK
<1> QED BY <1>2, <1>3, <1>4, <1>5, <1>6, <1>7, <1>8 DEF Next

\* However long the table is, and whatever it runs over: cells hold what cells can
\* hold, blocks and inodes that are marked are of the image and of the table, and
\* the inodes that names have are marked.
THEOREM LayoutTypes == Spec => []TypeOK
BY TypeInit, TypeStep, PTL DEF Spec

\* For every size of image and of the table, the code's 128 inodes over 16 blocks
\* included: as long as no inode beyond the table's first block is taken, whatever
\* is created, written and deleted, and whoever logs out or is restarted, every inode
\* and every block of data reads back as it was written, the users are found, and the
\* reserved blocks stay marked.
THEOREM ApartWhileInodesFit == Spec /\ [](imap \subseteq 1 .. PerBlock) => []LyingApart
<1>1. TypeOK /\ imap \subseteq 1 .. PerBlock => Fits
  BY DEF TypeOK, Fits, Near
<1>2. Init /\ Fits => Inv
  BY InitInv
<1>3. Inv /\ Fits /\ Fits' /\ [Next]_vars => Inv'
  BY StepInv
<1>4. Inv => LyingApart
  BY InvImplies
<1> QED BY <1>1, <1>2, <1>3, <1>4, TypeInit, TypeStep, PTL DEF Spec
=============================================================================
