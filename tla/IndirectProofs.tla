---------------------------- MODULE IndirectProofs ----------------------------
(***************************************************************************)
(* That each block of large files has one owner, and that these files have *)
(* no holes, as long as every indirect block was zero when it was taken:   *)
(* for all sizes of the image, through every create, delete, mkdir, rmdir  *)
(* and write, refused, cut off by a full image, or done.                   *)
(*                                                                         *)
(* For the operations of Volume and Directory, the indirect blocks and     *)
(* what they name are marked blocks that no direct pointer names.  What    *)
(* they do to those is to leave them alone, marked, unnamed and unwritten. *)
(***************************************************************************)
EXTENDS IndirectBlocks, VolumeProofs

Unnamed(v) == {b \in v.bmap : \A j \in Inodes, l \in Index : v.itab[j].ptr[l] # b}

Outside(v, u) == \A b \in Unnamed(v) : b \in Unnamed(u) /\ u.blk[b] = v.blk[b]

----------------------------------------------------------------------------
(* What volume operations leave alone *)

LEMMA OutsideSelf == ASSUME NEW v PROVE Outside(v, v)
BY DEF Outside

LEMMA OutsideTrans ==
  ASSUME NEW v, NEW u, NEW w, Outside(v, u), Outside(u, w)
  PROVE  Outside(v, w)
BY DEF Outside

LEMMA LinkCountOutside ==
  ASSUME NEW v, VolOK(v), NEW i
  PROVE  Outside(v, increment_link_count(v, i)) /\ Outside(v, decrement_link_count(v, i))
<1> DEFINE u == increment_link_count(v, i)
           w == decrement_link_count(v, i)
<1>1. /\ u.blk = v.blk /\ w.blk = v.blk
      /\ \A j \in Inodes : u.itab[j].ptr = v.itab[j].ptr /\ w.itab[j].ptr = v.itab[j].ptr
  BY LinkCountKeeps
<1>2. u.bmap = v.bmap /\ w.bmap = v.bmap
  BY DEF increment_link_count, decrement_link_count, VolOK, Volumes
<1> HIDE DEF u, w
<1>3. Outside(v, u) /\ Outside(v, w)
  BY <1>1, <1>2 DEF Outside, Unnamed
<1> QED BY <1>3 DEF u, w

\* A block that an inode names is written.
LEMMA WriteNamedOutside ==
  ASSUME NEW v, VolOK(v), NEW d \in Inodes, NEW k \in Index, NEW b, b = v.itab[d].ptr[k], NEW w
  PROVE  Outside(v, write_block(v, b, w))
<1> DEFINE u == write_block(v, b, w)
<1>1. u.bmap = v.bmap /\ u.itab = v.itab /\ u.blk = [v.blk EXCEPT ![b] = w]
  BY DEF write_block, VolOK, Volumes
<1>2. DOMAIN v.blk = Blocks
  BY DEF VolOK, Volumes
<1> HIDE DEF u
<1>3. \A x \in Unnamed(v) : x # b
  BY DEF Unnamed
<1>4. \A x \in Unnamed(v) : x \in Unnamed(u) /\ u.blk[x] = v.blk[x]
  BY <1>1, <1>2, <1>3 DEF Unnamed, VolOK, Volumes
<1> QED BY <1>4 DEF Outside, u

\* The block just allocated is given to an inode, or to none.
LEMMA TakenOutside ==
  ASSUME NEW v, VolOK(v), NEW i, NEW k \in Index, allocate_block(v).ret # 0
  PROVE  LET a == allocate_block(v)
         IN  Outside(v, a.vol) /\ Outside(v, set_inode_block(a.vol, i, k, a.ret))
<1> DEFINE a == allocate_block(v)
           u == set_inode_block(a.vol, i, k, a.ret)
<1>1. /\ VolOK(a.vol) /\ a.ret \notin v.bmap /\ a.vol.bmap = v.bmap \cup {a.ret}
      /\ a.vol.itab = v.itab /\ a.vol.blk = v.blk
  BY AllocateBlockOK
<1> HIDE DEF a
<1>2. Outside(v, a.vol)
  BY <1>1 DEF Outside, Unnamed
<1>3. CASE i \notin Inodes
  BY <1>2, <1>3 DEF set_inode_block, a
<1>4. CASE i \in Inodes
  <2>1. u.bmap = a.vol.bmap /\ u.blk = a.vol.blk
    BY <1>1, <1>4 DEF set_inode_block, VolOK, Volumes
  <2>2. \A j \in Inodes, l \in Index :
          u.itab[j].ptr[l] = IF j = i /\ l = k THEN a.ret ELSE a.vol.itab[j].ptr[l]
    BY <1>1, <1>4 DEF set_inode_block, VolOK, Volumes, Inode
  <2> HIDE DEF u
  <2>3. Outside(v, u)
    BY <1>1, <2>1, <2>2 DEF Outside, Unnamed
  <2> QED BY <1>2, <2>3 DEF u, a
<1> QED BY <1>3, <1>4

LEMMA BlockForOutside ==
  ASSUME NEW v, VolOK(v), NEW i \in Inodes, NEW k \in Index
  PROVE  Outside(v, BlockFor(v, i, k).vol)
<1> DEFINE a == allocate_block(v)
           u == set_inode_block(a.vol, i, k, a.ret)
<1>1. a.ret = 0 => a.vol = v
  BY AllocateBlockOK
<1>2. a.ret # 0 => Outside(v, u)
  BY TakenOutside
<1> HIDE DEF a, u
<1>3. BlockFor(v, i, k).vol = v \/ (a.ret # 0 /\ BlockFor(v, i, k).vol = u)
  BY <1>1 DEF BlockFor, Attached, Result, a, u
<1> QED BY <1>2, <1>3, OutsideSelf

LEMMA CreateInodeOutside ==
  ASSUME NEW v, VolOK(v), NEW t \in {"reg", "dir"}
  PROVE  Outside(v, create_inode(v, t).vol)
<1> DEFINE a == allocate_inode(v)
           u == [a.vol EXCEPT !.itab[a.ret] = NewInode(t)]
<1>1. /\ a.vol.bmap = v.bmap /\ a.vol.itab = v.itab /\ a.vol.blk = v.blk
      /\ DOMAIN a.vol = DOMAIN v
  BY DEF allocate_inode, Result, VolOK, Volumes
<1>2. create_inode(v, t).vol = a.vol \/ create_inode(v, t).vol = u
  BY DEF create_inode, Result
<1> HIDE DEF a
<1>3. u.bmap = a.vol.bmap /\ u.blk = a.vol.blk /\ u.itab = [v.itab EXCEPT ![a.ret] = NewInode(t)]
  BY <1>1 DEF VolOK, Volumes
<1>4. \A j \in Inodes : u.itab[j] = v.itab[j] \/ u.itab[j] = NewInode(t)
  BY <1>3 DEF VolOK, Volumes
<1>5. \A j \in Inodes, l \in Index : u.itab[j].ptr[l] = v.itab[j].ptr[l] \/ u.itab[j].ptr[l] = 0
  BY <1>4, NewInodeType
<1> HIDE DEF u
<1>6. \A b \in v.bmap : b # 0
  BY DEF VolOK, Volumes, Blocks
<1>7. Outside(v, a.vol) /\ Outside(v, u)
  BY <1>1, <1>3, <1>5, <1>6 DEF Outside, Unnamed
<1> QED BY <1>2, <1>7

LEMMA DeleteInodeOutside ==
  ASSUME NEW v, VolOK(v), NEW i
  PROVE  Outside(v, delete_inode(v, i))
<1>1. CASE i \notin Inodes
  BY <1>1, OutsideSelf DEF delete_inode
<1>2. CASE i \in Inodes
  <2> DEFINE freed == {k \in Index : v.itab[i].ptr[k] \in 1 .. MaxBlocks}
             gone  == {v.itab[i].ptr[k] : k \in freed}
             u     == delete_inode(v, i)
  <2>1. u.bmap = v.bmap \ gone /\ u.blk = v.blk /\ u.itab = [v.itab EXCEPT ![i] = ZeroInode]
    BY <1>2 DEF delete_inode, free_inode, free_blocks, VolOK, Volumes
  <2>2. \A j \in Inodes, l \in Index : u.itab[j].ptr[l] = v.itab[j].ptr[l] \/ u.itab[j].ptr[l] = 0
    BY <2>1, NewInodeType DEF VolOK, Volumes
  <2>3. \A b \in Unnamed(v) : b \notin gone
    BY <1>2 DEF Unnamed
  <2>4. \A b \in v.bmap : b # 0
    BY DEF VolOK, Volumes, Blocks
  <2> HIDE DEF u, gone
  <2>5. Outside(v, u)
    BY <2>1, <2>2, <2>3, <2>4 DEF Outside, Unnamed
  <2> QED BY <2>5 DEF u
<1> QED BY <1>1, <1>2

----------------------------------------------------------------------------
(* What directory operations leave alone *)

\* An entry put in a block of inode d.
LEMMA PutEntryOutside ==
  ASSUME NEW v, VolOK(v), NEW d \in Inodes, NEW k \in Index, NEW b, b = v.itab[d].ptr[k], b # 0,
         NEW words \in [Slot -> Word], NEW s, NEW n \in AnyName, NEW c \in 1 .. MaxInodes
  PROVE  Outside(v, PutEntry(v, b, words, s, n, c).vol)
<1> DEFINE new == [words EXCEPT ![s] = Entry(n, c)]
           w   == write_block(v, b, new)
           u   == increment_link_count(w, c)
<1>1. b \in Blocks
  BY VolumeAssumption DEF VolOK, Volumes, Inode, Blocks
<1>2. new \in [Slot -> Word]
  BY DEF Entry, Word, AnyName
<1> HIDE DEF new
<1>3. VolOK(w)
  BY <1>1, <1>2, WriteBlockOK
<1>4. Outside(v, w)
  BY WriteNamedOutside
<1>5. PutEntry(v, b, words, s, n, c).vol = u
  BY DEF PutEntry, Done, Result, new
<1> HIDE DEF w
<1>6. Outside(w, u)
  BY <1>3, LinkCountOutside
<1> HIDE DEF u
<1> QED BY <1>4, <1>5, <1>6, OutsideTrans

LEMMA AddEntryOutside ==
  ASSUME NEW v, VolOK(v), NEW d, NEW n \in AnyName, NEW c \in 1 .. MaxInodes
  PROVE  Outside(v, add_directory_entry(v, d, n, c).vol)
<1> DEFINE k == ScanStop(v, d, IsFree)
           b == get_inode_block(v, d, k)
           a == BlockFor(v, d, k)
           u == add_directory_entry(v, d, n, c).vol
<1>1. CASE u = v
  BY <1>1, OutsideSelf
<1>2. CASE u # v
  <2>1. d \in Inodes /\ k # NDirect
    BY <1>2 DEF add_directory_entry, Fail, Result
  <2>2. k \in Index
    BY <2>1, FreeScanStops
  <2>3. b = v.itab[d].ptr[k]
    BY DEF get_inode_block
  <2>4. /\ b = 0 => u = PutInNewBlock(a, n, c).vol
        /\ b # 0 => u = PutEntry(v, b, v.blk[b], FirstSlot(v, b, IsFree), n, c).vol
    BY <1>2, <2>1 DEF add_directory_entry, Fail, Result
  <2> HIDE DEF k, u
  <2>5. CASE b = 0
    <3>1. /\ VolOK(a.vol) /\ Outside(v, a.vol) /\ a.ret \in {0} \cup Blocks
          /\ a.ret # 0 => a.vol.itab[d].ptr[k] = a.ret
      BY <2>1, <2>2, BlockForOK, BlockForKeeps, BlockForOutside
    <3> HIDE DEF a, b
    <3>2. CASE a.ret = 0
      BY <2>4, <2>5, <3>1, <3>2 DEF u, PutInNewBlock, Fail, Result
    <3>3. CASE a.ret # 0
      <4>1. ZeroBlock \in [Slot -> Word]
        BY DEF ZeroBlock, Word
      <4>2. Outside(a.vol, PutEntry(a.vol, a.ret, ZeroBlock, 1, n, c).vol)
        BY <2>1, <2>2, <3>1, <3>3, <4>1, PutEntryOutside
      <4>3. u = PutEntry(a.vol, a.ret, ZeroBlock, 1, n, c).vol
        BY <2>4, <2>5, <3>3 DEF PutInNewBlock
      <4> QED BY <3>1, <4>2, <4>3, OutsideTrans DEF u
    <3> QED BY <3>2, <3>3 DEF u
  <2>6. CASE b # 0
    <3> DEFINE s == FirstSlot(v, b, IsFree)
               old == v.blk[b]
    <3>1. b \in Blocks
      BY <2>1, <2>2, <2>3, <2>6, VolumeAssumption DEF VolOK, Volumes, Inode, Blocks
    <3>2. old \in [Slot -> Word]
      BY <3>1 DEF VolOK, Volumes
    <3>3. u = PutEntry(v, b, old, s, n, c).vol
      BY <2>4, <2>6
    <3> HIDE DEF s, old, b
    <3>4. Outside(v, PutEntry(v, b, old, s, n, c).vol)
      BY <2>1, <2>2, <2>3, <2>6, <3>2, PutEntryOutside
    <3> QED BY <3>3, <3>4 DEF u
  <2> QED BY <2>5, <2>6
<1> QED BY <1>1, <1>2

LEMMA AddAfterOutside ==
  ASSUME NEW r, VolOK(r.vol), NEW d, NEW n \in AnyName, NEW c \in 1 .. MaxInodes
  PROVE  Outside(r.vol, AddAfter(r, d, n, c).vol)
<1>1. Outside(r.vol, add_directory_entry(r.vol, d, n, c).vol)
  BY AddEntryOutside
<1> QED BY <1>1, OutsideSelf DEF AddAfter

LEMMA DotEntriesOutside ==
  ASSUME NEW v, VolOK(v), NEW d \in 1 .. MaxInodes, NEW p \in 1 .. MaxInodes
  PROVE  Outside(v, create_dot_entries(v, d, p).vol)
<1> DEFINE dot == add_directory_entry(v, d, Dot, d)
<1>1. VolOK(dot.vol) /\ Outside(v, dot.vol)
  BY AddEntryOK, AddEntryOutside DEF AnyName
<1> HIDE DEF dot
<1>2. Outside(dot.vol, AddAfter(dot, d, DotDot, p).vol)
  BY <1>1, AddAfterOutside DEF AnyName
<1> QED BY <1>1, <1>2, OutsideTrans DEF create_dot_entries, dot

LEMMA FillDirectoryOutside ==
  ASSUME NEW v, VolOK(v), NEW i \in 1 .. MaxInodes, NEW d \in 1 .. MaxInodes, NEW n \in AnyName
  PROVE  Outside(v, FillDirectory(i, allocate_block(v), d, n).vol)
<1> DEFINE b    == allocate_block(v)
           set  == set_inode_block(b.vol, i, 0, b.ret)
           dots == create_dot_entries(set, i, d)
           made == AddAfter(dots, d, n, i)
           gone == delete_inode(made.vol, i)
           u    == FillDirectory(i, b, d, n).vol
<1>1. /\ VolOK(b.vol) /\ b.vol.itab = v.itab
      /\ b.ret = 0 => b.vol = v
      /\ b.ret # 0 => /\ b.ret \in Blocks \ v.bmap /\ b.ret > Reserved
                      /\ b.vol.bmap = v.bmap \cup {b.ret}
  BY AllocateBlockOK
<1>2. /\ b.ret = 0 => u = delete_inode(v, i)
      /\ b.ret # 0 => u = made.vol \/ u = gone
  BY <1>1 DEF FillDirectory, Fail, Result
<1>3. CASE b.ret = 0
  <2> HIDE DEF u, b
  <2> QED BY <1>2, <1>3, DeleteInodeOutside DEF u, b
<1>4. CASE b.ret # 0
  <2>1. 0 \in Index
    BY VolumeAssumption DEF Index
  <2>2. Outside(v, set)
    BY <1>4, <2>1, TakenOutside
  <2>3. VolOK(set)
    <3>1. CASE i \notin Inodes
      BY <1>1, <3>1 DEF set_inode_block
    <3>2. CASE i \in Inodes
      <4>1. \A j \in Inodes, l \in Index : b.vol.itab[j].ptr[l] # b.ret
        BY <1>1, <1>4 DEF VolOK, Owned
      <4> QED BY <1>1, <1>4, <2>1, <3>2, <4>1, AttachOK
    <3> QED BY <3>1, <3>2
  <2> HIDE DEF set
  <2>4. VolOK(dots.vol) /\ Outside(set, dots.vol)
    BY <2>3, DotEntriesOK, DotEntriesOutside
  <2> HIDE DEF dots
  <2>5. VolOK(made.vol) /\ Outside(dots.vol, made.vol)
    BY <2>4, AddAfterOK, AddAfterOutside
  <2> HIDE DEF made
  <2>6. Outside(made.vol, gone)
    BY <2>5, DeleteInodeOutside
  <2> HIDE DEF gone, u
  <2>7. Outside(v, made.vol)
    BY <2>2, <2>4, <2>5, OutsideTrans
  <2>8. Outside(v, gone)
    BY <2>6, <2>7, OutsideTrans
  <2> QED BY <1>2, <1>4, <2>7, <2>8 DEF u
<1> QED BY <1>3, <1>4

LEMMA MakeDirectoryOutside ==
  ASSUME NEW v, VolOK(v), NEW d, NEW n \in AnyName
  PROVE  Outside(v, MakeDirectory(v, d, n).vol)
<1> DEFINE i == create_inode(v, "dir")
           u == FillDirectory(i.ret, allocate_block(i.vol), d, n)
<1>1. CASE ~is_directory(v, d) \/ find_directory_entry(v, d, n) # 0
  BY <1>1, OutsideSelf DEF MakeDirectory, Fail, Done, Result
<1>2. CASE is_directory(v, d) /\ find_directory_entry(v, d, n) = 0
  <2>1. d \in 1 .. MaxInodes
    BY <1>2, VolumeAssumption DEF is_directory, IsType, Inodes
  <2>2. VolOK(i.vol) /\ i.ret \in 1 .. MaxInodes /\ Outside(v, i.vol)
    BY CreateInodeOK, CreateInodeOutside
  <2>3. MakeDirectory(v, d, n) = u
    BY <1>2 DEF MakeDirectory
  <2> HIDE DEF i
  <2>4. Outside(i.vol, u.vol)
    BY <2>1, <2>2, FillDirectoryOutside
  <2> HIDE DEF u
  <2> QED BY <2>2, <2>3, <2>4, OutsideTrans
<1> QED BY <1>1, <1>2

LEMMA NewFileOutside ==
  ASSUME NEW v, VolOK(v), NEW d, NEW n \in AnyName
  PROVE  Outside(v, NewFile(v, d, n))
<1> DEFINE i    == create_inode(v, "reg")
           link == add_directory_entry(i.vol, d, n, i.ret)
           gone == delete_inode(link.vol, i.ret)
<1>1. VolOK(i.vol) /\ i.ret \in 1 .. MaxInodes /\ Outside(v, i.vol)
  BY CreateInodeOK, CreateInodeOutside
<1>2. NewFile(v, d, n) = link.vol \/ NewFile(v, d, n) = gone
  BY DEF NewFile
<1> HIDE DEF i
<1>3. VolOK(link.vol) /\ Outside(i.vol, link.vol)
  BY <1>1, AddEntryOK, AddEntryOutside
<1> HIDE DEF link
<1>4. Outside(link.vol, gone)
  BY <1>3, DeleteInodeOutside
<1> HIDE DEF gone
<1>5. Outside(v, link.vol)
  BY <1>1, <1>3, OutsideTrans
<1> QED BY <1>2, <1>4, <1>5, OutsideTrans

LEMMA RemoveEntryOutside ==
  ASSUME NEW v, VolOK(v), NEW d, NEW n
  PROVE  Outside(v, remove_directory_entry(v, d, n).vol)
<1> DEFINE at    == Locate(v, d, n)
           words == [v.blk[at.block] EXCEPT ![at.slot] = Zero]
           x     == v.blk[at.block][at.slot].ino
           w     == write_block(v, at.block, words)
           u     == decrement_link_count(w, x)
<1>1. CASE at.block = 0
  BY <1>1, OutsideSelf DEF remove_directory_entry, ClearEntry, Fail, Result
<1>2. CASE at.block # 0
  <2>1. /\ at.block \in Blocks /\ at.slot \in Slot
        /\ d \in Inodes /\ \E k \in Index : at.block = v.itab[d].ptr[k]
    BY <1>2, LocateFinds
  <2>2. remove_directory_entry(v, d, n).vol = u
    BY <1>2 DEF remove_directory_entry, ClearEntry, Done, Result
  <2> HIDE DEF at
  <2>3. words \in [Slot -> Word]
    BY <2>1 DEF VolOK, Volumes, Word
  <2> HIDE DEF words, x
  <2>4. VolOK(w)
    BY <2>1, <2>3, WriteBlockOK
  <2>5. Outside(v, w)
    BY <2>1, WriteNamedOutside
  <2> HIDE DEF w
  <2>6. Outside(w, u)
    BY <2>4, LinkCountOutside
  <2> HIDE DEF u
  <2> QED BY <2>2, <2>5, <2>6, OutsideTrans
<1> QED BY <1>1, <1>2

LEMMA DeleteDirectoryOutside ==
  ASSUME NEW v, VolOK(v), NEW cwd, NEW p
  PROVE  Outside(v, delete_directory(v, cwd, p).vol)
<1> DEFINE i == path_to_inode(v, cwd, p)
           d == get_parent_inode(v, cwd, p)
           r == remove_directory_entry(v, d, Last(p.comps))
           u == delete_inode(r.vol, i)
<1>1. delete_directory(v, cwd, p).vol = v \/ delete_directory(v, cwd, p).vol = u
  BY DEF delete_directory, Fail, Done, Result
<1> HIDE DEF i, d
<1>2. VolOK(r.vol) /\ Outside(v, r.vol)
  BY RemoveEntryOK, RemoveEntryOutside
<1> HIDE DEF r
<1>3. Outside(r.vol, u)
  BY <1>2, DeleteInodeOutside
<1> HIDE DEF u
<1> QED BY <1>1, <1>2, <1>3, OutsideTrans, OutsideSelf

----------------------------------------------------------------------------
(* The indirect blocks *)

Spot == 0 .. Slots

\* What inode i names indirectly: its indirect block at spot 0, at the others
\* the blocks that the words of that block are.
At(s, i, x) ==
  IF s.ind[i] = 0 THEN 0 ELSE IF x = 0 THEN s.ind[i] ELSE NumberIn(s.vol.blk[s.ind[i]][x])

\* Each of these is a marked block that is not reserved, no direct pointer names
\* it and no other spot.
Apart(s) ==
  /\ \A i \in Inodes, x \in Spot : At(s, i, x) # 0 =>
       At(s, i, x) \in Unnamed(s.vol) /\ At(s, i, x) > Reserved
  /\ \A i, j \in Inodes, x, y \in Spot :
       At(s, i, x) # 0 /\ At(s, i, x) = At(s, j, y) => i = j /\ x = y

Reads(s) == \A i \in Inodes : s.ind[i] # 0 => Readable(s.vol, s.ind[i])

\* The blocks of a file below its size are there and can be read.
Whole(s) ==
  \A i \in s.vol.imap : s.vol.itab[i].type = "reg" =>
    \A k \in 0 .. s.size[i] - 1 : BlockAtIndex(s, i, k) \in 1 .. s.vol.end - 1

Sizes == 0 .. NDirect + Slots

Good(s) ==
  /\ s = State(s.vol, s.ind, s.size)
  /\ VolOK(s.vol) /\ FreeUntyped(s.vol)
  /\ s.ind \in [Inodes -> 0 .. BitmapBits] /\ s.size \in [Inodes -> Sizes]
  /\ Apart(s) /\ Reads(s)
  /\ Whole(s)

LEMMA SpotsAre == Slot = Spot \ {0} /\ 0 \in Spot
BY VolumeAssumption DEF Slot, Spot

\* Within the indirect block that can be read, index k is spot k - NDirect + 1.
LEMMA IndexIsSpot ==
  ASSUME NEW s, Reads(s), NEW i \in Inodes, NEW k \in AllIndex, k >= NDirect
  PROVE  /\ k - NDirect + 1 \in Slot
         /\ BlockAtIndex(s, i, k) = At(s, i, k - NDirect + 1)
<1>1. k - NDirect + 1 \in Slot /\ k - NDirect + 1 # 0 /\ ~(k < NDirect)
  BY VolumeAssumption DEF AllIndex, Slot
<1> QED BY <1>1 DEF BlockAtIndex, At, Reads

\* Operations that leave alone what is outside their reach keep the indirect
\* blocks apart, those of some inodes forgotten.
LEMMA ApartMoves ==
  ASSUME NEW s, NEW t, Apart(s), Reads(s), VolOK(s.vol), VolOK(t.vol),
         Outside(s.vol, t.vol), s.vol.end <= t.vol.end,
         s.ind \in [Inodes -> 0 .. BitmapBits],
         \A i \in Inodes : t.ind[i] = 0 \/ t.ind[i] = s.ind[i]
  PROVE  /\ Apart(t) /\ Reads(t)
         /\ \A i \in Inodes, x \in Spot : t.ind[i] = s.ind[i] => At(t, i, x) = At(s, i, x)
<1>1. ASSUME NEW i \in Inodes, t.ind[i] = s.ind[i], NEW x \in Spot
      PROVE  At(t, i, x) = At(s, i, x)
  <2>1. CASE s.ind[i] = 0
    BY <1>1, <2>1 DEF At
  <2>2. CASE s.ind[i] # 0
    <3>1. At(s, i, 0) = s.ind[i]
      BY DEF At
    <3>2. s.ind[i] \in Unnamed(s.vol)
      BY <2>2, <3>1, SpotsAre DEF Apart
    <3>3. t.vol.blk[s.ind[i]] = s.vol.blk[s.ind[i]]
      BY <3>2 DEF Outside
    <3> QED BY <1>1, <3>3 DEF At
  <2> QED BY <2>1, <2>2
<1>2. ASSUME NEW i \in Inodes, NEW x \in Spot PROVE At(t, i, x) = 0 \/ At(t, i, x) = At(s, i, x)
  BY <1>1, <1>2 DEF At
<1>3. Apart(t)
  <2>1. ASSUME NEW i \in Inodes, NEW x \in Spot, At(t, i, x) # 0
        PROVE  At(t, i, x) \in Unnamed(t.vol) /\ At(t, i, x) > Reserved
    <3>1. At(t, i, x) = At(s, i, x)
      BY <1>2, <2>1
    <3>2. At(s, i, x) \in Unnamed(s.vol) /\ At(s, i, x) > Reserved
      BY <2>1, <3>1 DEF Apart
    <3> QED BY <3>1, <3>2 DEF Outside
  <2>2. ASSUME NEW i \in Inodes, NEW j \in Inodes, NEW x \in Spot, NEW y \in Spot,
               At(t, i, x) # 0, At(t, i, x) = At(t, j, y)
        PROVE  i = j /\ x = y
    <3>1. At(t, i, x) = At(s, i, x) /\ At(t, j, y) = At(s, j, y)
      BY <1>2, <2>2
    <3>2. At(s, i, x) # 0 /\ At(s, i, x) = At(s, j, y)
      BY <2>2, <3>1
    <3>3. \A y2 \in Spot : At(s, i, x) = At(s, j, y2) => i = j /\ x = y2
      BY <3>2 DEF Apart
    <3> QED BY <3>2, <3>3
  <2> QED BY <2>1, <2>2 DEF Apart
<1>4. Reads(t)
  <2> SUFFICES ASSUME NEW i \in Inodes, t.ind[i] # 0 PROVE t.ind[i] < t.vol.end
    BY DEF Reads, Readable
  <2>1. t.ind[i] = s.ind[i] /\ s.ind[i] < s.vol.end
    BY DEF Reads, Readable
  <2>2. s.ind[i] \in Nat /\ s.vol.end \in Nat /\ t.vol.end \in Nat
    BY VolumeAssumption DEF VolOK, Volumes
  <2> QED BY <2>1, <2>2
<1> QED BY <1>1, <1>3, <1>4

\* No file gets holes whose blocks stay, directly or indirectly named, but for
\* inode c, which is no file or empty.
LEMMA WholeMoves ==
  ASSUME NEW s, Whole(s), NEW t, VolOK(s.vol), VolOK(t.vol), NEW d, NEW c,
         Keeps(s.vol, t.vol, d, c), Reads(s), Reads(t), s.size \in [Inodes -> Sizes],
         \A i \in t.vol.imap \ {c} :
           /\ t.size[i] = s.size[i]
           /\ \A x \in Spot : At(s, i, x) # 0 => At(t, i, x) = At(s, i, x),
         c \in t.vol.imap /\ t.vol.itab[c].type = "reg" => t.size[c] = 0
  PROVE  Whole(t)
<1> SUFFICES ASSUME NEW i \in t.vol.imap, t.vol.itab[i].type = "reg", NEW k \in 0 .. t.size[i] - 1
             PROVE  BlockAtIndex(t, i, k) \in 1 .. t.vol.end - 1
  BY DEF Whole
<1>1. i # c /\ i \in Inodes
  BY DEF VolOK, Volumes
<1>2. /\ i \in s.vol.imap /\ s.vol.itab[i].type = "reg"
      /\ \A l \in Index : s.vol.itab[i].ptr[l] # 0 => t.vol.itab[i].ptr[l] = s.vol.itab[i].ptr[l]
  BY <1>1 DEF Keeps, SameInode
<1>3. k \in 0 .. s.size[i] - 1 /\ s.size[i] \in Sizes
  BY <1>1
<1>4. BlockAtIndex(s, i, k) \in 1 .. s.vol.end - 1
  BY <1>2, <1>3 DEF Whole
<1>5. s.vol.end <= t.vol.end /\ s.vol.end \in Nat /\ t.vol.end \in Nat
  BY DEF Keeps, VolOK, Volumes
<1>6. k \in AllIndex
  BY <1>3, VolumeAssumption DEF Sizes, AllIndex
<1>7. BlockAtIndex(t, i, k) = BlockAtIndex(s, i, k)
  <2>1. CASE k < NDirect
    <3>1. k \in Index
      BY <1>3, <2>1, VolumeAssumption DEF Index, Sizes
    <3>2. BlockAtIndex(s, i, k) = s.vol.itab[i].ptr[k] /\ BlockAtIndex(t, i, k) = t.vol.itab[i].ptr[k]
      BY <2>1 DEF BlockAtIndex, get_inode_block
    <3> QED BY <1>2, <1>4, <3>1, <3>2
  <2>2. CASE k >= NDirect
    <3>1. /\ k - NDirect + 1 \in Slot
          /\ BlockAtIndex(s, i, k) = At(s, i, k - NDirect + 1)
          /\ BlockAtIndex(t, i, k) = At(t, i, k - NDirect + 1)
      BY <1>1, <1>6, <2>2, IndexIsSpot
    <3>2. k - NDirect + 1 \in Spot
      BY <3>1, SpotsAre
    <3> QED BY <1>1, <1>4, <3>1, <3>2
  <2> QED BY <1>6, <2>1, <2>2, VolumeAssumption DEF AllIndex
<1> QED BY <1>4, <1>5, <1>7

----------------------------------------------------------------------------
(* Giving blocks back *)

\* Blocks that no inode names directly are freed, up to MAX_BLOCKS.
LEMMA FreeEachOK ==
  ASSUME NEW v, VolOK(v), NEW bs, \A b \in bs : b > Reserved /\ b \in Unnamed(v)
  PROVE  LET u == FreeEach(v, bs)
         IN  /\ VolOK(u) /\ u.bmap = v.bmap \ {b \in bs : b <= MaxBlocks}
             /\ u.itab = v.itab /\ u.imap = v.imap /\ u.blk = v.blk /\ u.end = v.end
<1> DEFINE freed == bs \cap 1 .. MaxBlocks
           u     == FreeEach(v, bs)
<1>1. (v.bfree + Cardinality(freed)) % CountMod \in Nat
  <2>1. IsFiniteSet(1 .. MaxBlocks)
    BY FS_Interval, VolumeAssumption
  <2>2. Cardinality(freed) \in Nat
    BY <2>1, FS_Subset, FS_CardinalityType
  <2> HIDE DEF freed
  <2> QED BY <2>2, ModType, VolumeAssumption DEF VolOK, Volumes
<1>2. /\ u.bmap = v.bmap \ freed /\ u.bfree = (v.bfree + Cardinality(freed)) % CountMod
      /\ u.itab = v.itab /\ u.imap = v.imap /\ u.blk = v.blk /\ u.end = v.end
      /\ u = [v EXCEPT !.bmap = v.bmap \ freed, !.bfree = (v.bfree + Cardinality(freed)) % CountMod]
  BY DEF FreeEach, VolOK, Volumes
<1>3. freed = {b \in bs : b <= MaxBlocks}
  BY VolumeAssumption DEF Unnamed, VolOK, Volumes, Blocks
<1>4. \A b \in freed : b > Reserved /\ b \in Unnamed(v)
  OBVIOUS
<1> HIDE DEF freed
<1>5. u \in Volumes
  BY <1>1, <1>2 DEF VolOK, Volumes
<1> HIDE DEF u
<1>6. 1 .. Reserved \subseteq u.bmap
  <2>1. \A b \in 1 .. Reserved : b \notin freed
    BY <1>4, VolumeAssumption
  <2> QED BY <1>2, <2>1 DEF VolOK, Owned
<1>7. Owned(u)
  BY <1>2, <1>4, <1>6 DEF VolOK, Owned, Unnamed
<1> QED BY <1>2, <1>3, <1>5, <1>7 DEF VolOK, u

\* What deletion frees of inode i's indirect block is what i names there; the
\* rest stays apart.
LEMMA FreeIndirectOK ==
  ASSUME NEW s, Good(s), NEW i \in Inodes
  PROVE  LET u == FreeIndirect(s.vol, s.ind[i])
         IN  /\ VolOK(u) /\ u.itab = s.vol.itab /\ u.imap = s.vol.imap
             /\ u.blk = s.vol.blk /\ u.end = s.vol.end
             /\ \A j \in Inodes \ {i}, x \in Spot : At(s, j, x) # 0 => At(s, j, x) \in Unnamed(u)
<1> DEFINE b == s.ind[i]
           u == FreeIndirect(s.vol, b)
<1>1. VolOK(s.vol) /\ Apart(s)
  BY DEF Good
<1>2. CASE b = 0
  <2>1. u = s.vol
    BY <1>2 DEF FreeIndirect
  <2> QED BY <1>1, <2>1 DEF Apart
<1>3. CASE b # 0
  <2> DEFINE bs == (IF Readable(s.vol, b) THEN Words(s.vol, b) ELSE {}) \cup {b}
  <2>1. \A g \in bs : \E x \in Spot : g # 0 /\ g = At(s, i, x)
    <3>1. At(s, i, 0) = b /\ 0 \in Spot
      BY <1>3, SpotsAre DEF At
    <3>2. \A x \in Slot : x \in Spot /\ At(s, i, x) = NumberIn(s.vol.blk[b][x])
      BY <1>3, SpotsAre DEF At
    <3> QED BY <1>3, <3>1, <3>2 DEF Words
  <2>2. u = FreeEach(s.vol, bs)
    BY <1>3 DEF FreeIndirect
  <2> HIDE DEF bs, b
  <2>3. \A g \in bs : g > Reserved /\ g \in Unnamed(s.vol)
    BY <1>1, <2>1 DEF Apart
  <2>4. /\ VolOK(u) /\ u.itab = s.vol.itab /\ u.imap = s.vol.imap
        /\ u.blk = s.vol.blk /\ u.end = s.vol.end
        /\ u.bmap = s.vol.bmap \ {g \in bs : g <= MaxBlocks}
    BY <1>1, <2>2, <2>3, FreeEachOK
  <2> HIDE DEF u
  <2>5. ASSUME NEW j \in Inodes \ {i}, NEW x \in Spot, At(s, j, x) # 0
        PROVE  At(s, j, x) \in Unnamed(u)
    <3>1. At(s, j, x) \in Unnamed(s.vol)
      BY <1>1, <2>5 DEF Apart
    <3>2. \A y \in Spot : At(s, j, x) # At(s, i, y)
      BY <1>1, <2>5 DEF Apart
    <3>3. At(s, j, x) \notin bs
      BY <2>1, <3>2
    <3> QED BY <2>4, <3>1, <3>3 DEF Unnamed
  <2> QED BY <2>4, <2>5 DEF u, b
<1> QED BY <1>2, <1>3

----------------------------------------------------------------------------
(* Entering a block *)

\* Block b, which nothing names, is entered in the indirect block of i.
LEMMA EnterOK ==
  ASSUME NEW s, s = State(s.vol, s.ind, s.size), VolOK(s.vol), Apart(s),
         s.ind \in [Inodes -> 0 .. BitmapBits],
         NEW i \in Inodes, s.ind[i] # 0, \A j \in Inodes \ {i} : s.ind[j] # 0 => Readable(s.vol, s.ind[j]),
         NEW k \in AllIndex, k >= NDirect,
         NEW b, b \in Unnamed(s.vol), b > Reserved,
         \A j \in Inodes, x \in Spot : At(s, j, x) # b,
         ~Readable(s.vol, s.ind[i]) => \A x \in Slot : At(s, i, x) = 0
  PROVE  LET t == Enter(s, i, k, b)
         IN  /\ t = State(t.vol, s.ind, s.size)
             /\ VolOK(t.vol) /\ Apart(t) /\ Reads(t) /\ Keeps(s.vol, t.vol, 0, 0)
             /\ \A j \in Inodes, x \in Spot :
                  At(t, j, x) = IF j = i /\ x = k - NDirect + 1 THEN b ELSE At(s, j, x)
<1> DEFINE p     == s.ind[i]
           y     == k - NDirect + 1
           words == IF Readable(s.vol, p) THEN s.vol.blk[p] ELSE ZeroBlock
           new   == [words EXCEPT ![y] = BlockNo(b)]
           u     == write_block(s.vol, p, new)
           t     == Enter(s, i, k, b)
<1>1. p \in Unnamed(s.vol) /\ At(s, i, 0) = p /\ 0 \in Spot
  BY SpotsAre DEF At, Apart
<1>2. y \in Slot /\ y \in Spot /\ y # 0
  BY VolumeAssumption DEF AllIndex, Slot, Spot
<1>3. p \in Blocks /\ b \in Blocks
  BY <1>1 DEF Unnamed, VolOK, Volumes
<1>4. words \in [Slot -> Word]
  BY <1>3 DEF VolOK, Volumes, ZeroBlock, Word
<1>5. new \in [Slot -> Word]
  <2>1. BlockNo(b) \in Word
    BY <1>3 DEF BlockNo, Word
  <2> HIDE DEF words
  <2> QED BY <1>4, <2>1
<1>6. \A x \in Slot : NumberIn(new[x]) = IF x = y THEN b ELSE At(s, i, x)
  <2>1. NumberIn(BlockNo(b)) = b
    BY DEF NumberIn, BlockNo
  <2>2. \A x \in Slot : NumberIn(words[x]) = At(s, i, x)
    <3>1. CASE Readable(s.vol, p)
      BY <3>1, SpotsAre DEF At
    <3>2. CASE ~Readable(s.vol, p)
      <4>1. NumberIn(Zero) = 0
        BY DEF NumberIn, Zero
      <4> QED BY <3>2, <4>1 DEF ZeroBlock
    <3> QED BY <3>1, <3>2
  <2> HIDE DEF words
  <2> QED BY <1>2, <1>4, <2>1, <2>2
<1>7. t = State(u, s.ind, s.size)
  BY DEF Enter, State
<1> HIDE DEF new
<1>8. /\ u.bmap = s.vol.bmap /\ u.itab = s.vol.itab /\ u.imap = s.vol.imap
      /\ u.blk = [s.vol.blk EXCEPT ![p] = new]
      /\ u.end = IF p < s.vol.end THEN s.vol.end ELSE p + 1
  BY DEF write_block, VolOK, Volumes
<1>9. VolOK(u)
  BY <1>3, <1>5, WriteBlockOK
<1>10. u.end \in Nat /\ s.vol.end \in Nat /\ p \in Nat /\ s.vol.end <= u.end /\ p < u.end
  BY <1>3, <1>8, VolumeAssumption DEF VolOK, Volumes, Blocks
<1>11. DOMAIN s.vol.blk = Blocks
  BY DEF VolOK, Volumes
<1> HIDE DEF u, t
<1>12. t.vol = u /\ t.ind = s.ind /\ t.size = s.size
  BY <1>7 DEF State
<1>13. ASSUME NEW j \in Inodes, NEW x \in Spot
       PROVE  At(t, j, x) = IF j = i /\ x = y THEN b ELSE At(s, j, x)
  <2>1. CASE s.ind[j] = 0 \/ x = 0
    BY <1>2, <1>12, <2>1 DEF At
  <2>2. CASE s.ind[j] # 0 /\ x # 0 /\ j # i
    <3>1. At(s, j, 0) = s.ind[j]
      BY <2>2 DEF At
    <3>2. s.ind[j] # p
      BY <1>1, <2>2, <3>1 DEF Apart
    <3>3. s.ind[j] \in Blocks
      BY <2>2 DEF Blocks
    <3>4. u.blk[s.ind[j]] = s.vol.blk[s.ind[j]]
      BY <1>8, <1>11, <3>2, <3>3
    <3> QED BY <1>12, <2>2, <3>4 DEF At
  <2>3. CASE x # 0 /\ j = i
    <3>1. x \in Slot
      BY <2>3, SpotsAre
    <3>2. u.blk[p] = new
      BY <1>3, <1>8, <1>11
    <3>3. At(t, i, x) = NumberIn(new[x])
      BY <1>12, <2>3, <3>2 DEF At
    <3> QED BY <1>6, <2>3, <3>1, <3>3
  <2> QED BY <2>1, <2>2, <2>3
<1> HIDE DEF y
<1>14. Unnamed(u) = Unnamed(s.vol)
  BY <1>8 DEF Unnamed
<1>15. Apart(t)
  <2>1. \A j \in Inodes, x \in Spot : At(t, j, x) # 0 =>
          At(t, j, x) \in Unnamed(u) /\ At(t, j, x) > Reserved
    BY <1>13, <1>14 DEF Apart
  <2>2. ASSUME NEW j \in Inodes, NEW m \in Inodes, NEW x \in Spot, NEW z \in Spot,
               At(t, j, x) # 0, At(t, j, x) = At(t, m, z)
        PROVE  j = m /\ x = z
    <3>1. /\ At(t, j, x) = IF j = i /\ x = y THEN b ELSE At(s, j, x)
          /\ At(t, m, z) = IF m = i /\ z = y THEN b ELSE At(s, m, z)
      BY <1>13
    <3>2. At(s, j, x) # b /\ At(s, m, z) # b
      OBVIOUS
    <3>3. CASE j = i /\ x = y
      BY <2>2, <3>1, <3>2, <3>3
    <3>4. CASE ~(j = i /\ x = y)
      <4>1. At(s, j, x) # 0 /\ At(s, j, x) = At(s, m, z)
        BY <2>2, <3>1, <3>2, <3>4
      <4>2. \A z2 \in Spot : At(s, j, x) = At(s, m, z2) => j = m /\ x = z2
        BY <4>1 DEF Apart
      <4> QED BY <4>1, <4>2
    <3> QED BY <3>3, <3>4
  <2> QED BY <1>12, <2>1, <2>2 DEF Apart
<1>16. Reads(t)
  <2> SUFFICES ASSUME NEW j \in Inodes, s.ind[j] # 0 PROVE s.ind[j] < u.end
    BY <1>12 DEF Reads, Readable
  <2>1. CASE j = i
    BY <1>10, <2>1
  <2>2. CASE j # i
    <3>1. s.ind[j] < s.vol.end /\ s.ind[j] \in Nat
      BY <2>2, VolumeAssumption DEF Readable
    <3> QED BY <1>10, <3>1
  <2> QED BY <2>1, <2>2
<1>17. Keeps(s.vol, u, 0, 0)
  <2>1. \A j \in Inodes, l \in Index : s.vol.itab[j].ptr[l] # p
    BY <1>1 DEF Unnamed
  <2>2. \A j \in Inodes, l \in Index : s.vol.itab[j].ptr[l] # 0 =>
          u.blk[s.vol.itab[j].ptr[l]] = s.vol.blk[s.vol.itab[j].ptr[l]]
    <3> TAKE j \in Inodes, l \in Index
    <3> HAVE s.vol.itab[j].ptr[l] # 0
    <3>1. s.vol.itab[j].ptr[l] \in Blocks
      BY VolumeAssumption DEF VolOK, Volumes, Inode, Blocks
    <3> QED BY <1>8, <1>11, <2>1, <3>1
  <2> QED BY <1>8, <1>10, <2>2 DEF Keeps, SameFile, SameInode
<1> QED BY <1>7, <1>9, <1>12, <1>13, <1>15, <1>16, <1>17 DEF t, y

----------------------------------------------------------------------------
(* The block for an index *)

\* No inode appears or goes, and what is named stays so.
LEMMA GoodMoves ==
  ASSUME NEW s, Good(s), NEW t, t = State(t.vol, t.ind, t.size), VolOK(t.vol), Apart(t), Reads(t),
         t.ind \in [Inodes -> 0 .. BitmapBits], t.size = s.size,
         NEW d, Keeps(s.vol, t.vol, d, 0),
         \A j \in Inodes, x \in Spot : At(s, j, x) # 0 => At(t, j, x) = At(s, j, x)
  PROVE  Good(t) /\ t.vol.imap = s.vol.imap
<1>1. 0 \notin Inodes
  BY DEF Inodes
<1>2. t.vol.imap \subseteq Inodes /\ s.vol.imap \subseteq Inodes
  BY DEF Good, VolOK, Volumes
<1>3. \A j \in Inodes : SameInode(s.vol, t.vol, j)
  BY <1>1 DEF Keeps
<1>4. FreeUntyped(t.vol) /\ t.vol.imap = s.vol.imap
  BY <1>2, <1>3 DEF Good, FreeUntyped, SameInode
<1>5. Whole(t)
  BY <1>1, <1>2, WholeMoves DEF Good
<1> QED BY <1>4, <1>5 DEF Good

\* A block is taken, and nothing names it yet.
LEMMA TookOK ==
  ASSUME NEW s, Good(s), NEW a, a = allocate_block(s.vol), a.ret # 0
  PROVE  LET t == Took(s, a)
         IN  /\ Good(t) /\ t.vol = a.vol /\ t.ind = s.ind /\ t.size = s.size
             /\ t.vol.blk = s.vol.blk /\ t.vol.imap = s.vol.imap /\ t.vol.itab = s.vol.itab
             /\ Outside(s.vol, t.vol)
             /\ a.ret \in Unnamed(t.vol) \ s.vol.bmap /\ a.ret > Reserved
             /\ \A j \in Inodes, x \in Spot : At(t, j, x) = At(s, j, x) /\ At(t, j, x) # a.ret
<1> DEFINE t == Took(s, a)
<1>1. /\ VolOK(s.vol) /\ Apart(s) /\ Reads(s) /\ s = State(s.vol, s.ind, s.size)
      /\ s.ind \in [Inodes -> 0 .. BitmapBits]
  BY DEF Good
<1>2. /\ VolOK(a.vol) /\ a.ret \in Blocks \ s.vol.bmap /\ a.ret > Reserved
      /\ a.vol.bmap = s.vol.bmap \cup {a.ret}
      /\ a.vol.itab = s.vol.itab /\ a.vol.imap = s.vol.imap
      /\ a.vol.blk = s.vol.blk /\ a.vol.end = s.vol.end
  BY <1>1, AllocateBlockOK
<1>3. Outside(s.vol, a.vol)
  BY <1>2 DEF Outside, Unnamed
<1>4. t = State(a.vol, s.ind, s.size)
  BY <1>1 DEF Took, State
<1> HIDE DEF t
<1>5. t.vol = a.vol /\ t.ind = s.ind /\ t.size = s.size /\ t = State(t.vol, t.ind, t.size)
  BY <1>4 DEF State
<1>6. s.vol.end <= t.vol.end
  BY <1>1, <1>2, <1>5 DEF VolOK, Volumes
<1>7. Keeps(s.vol, t.vol, 0, 0)
  <2>1. /\ t.vol.itab = s.vol.itab /\ t.vol.imap = s.vol.imap /\ t.vol.blk = s.vol.blk
        /\ t.vol.end = s.vol.end
    BY <1>2, <1>5
  <2> QED BY <1>6, <2>1 DEF Keeps, SameInode, SameFile
<1>8. Apart(t) /\ Reads(t) /\ \A j \in Inodes, x \in Spot : At(t, j, x) = At(s, j, x)
  BY <1>1, <1>2, <1>3, <1>5, <1>6, ApartMoves
<1>9. Good(t)
  BY <1>1, <1>2, <1>5, <1>7, <1>8, GoodMoves
<1>10. a.ret \in Unnamed(t.vol)
  BY <1>1, <1>2, <1>5, VolumeAssumption DEF Unnamed, VolOK, Owned, Blocks
<1>11. \A j \in Inodes, x \in Spot : At(t, j, x) # a.ret
  BY <1>1, <1>2, <1>8 DEF Apart, Unnamed
<1> QED BY <1>2, <1>3, <1>5, <1>8, <1>9, <1>10, <1>11 DEF t

\* An indirect block that is taken is zero, and has nothing but b entered.
LEMMA EnterInNewOK ==
  ASSUME NEW s, Good(s), NEW c, c = allocate_block(s.vol), c.ret # 0,
         NEW i \in Inodes, s.ind[i] = 0, s.vol.blk[c.ret] = ZeroBlock,
         NEW k \in AllIndex, k >= NDirect,
         NEW b, b \in Unnamed(s.vol), b > Reserved, \A j \in Inodes, x \in Spot : At(s, j, x) # b
  PROVE  LET t == EnterInNew(s, c, i, k, b)
         IN  Good(t) /\ t.vol.imap = s.vol.imap /\ t.size = s.size
<1> DEFINE s3 == Took(s, c)
           s2 == [s3 EXCEPT !.ind[i] = c.ret]
           t  == Enter(s2, i, k, b)
<1>1. /\ Good(s3) /\ s3.vol = c.vol /\ s3.ind = s.ind /\ s3.size = s.size
      /\ s3.vol.blk = s.vol.blk /\ s3.vol.imap = s.vol.imap
      /\ Outside(s.vol, s3.vol)
      /\ c.ret \in Unnamed(s3.vol) \ s.vol.bmap /\ c.ret > Reserved
      /\ \A j \in Inodes, x \in Spot : At(s3, j, x) = At(s, j, x) /\ At(s3, j, x) # c.ret
  BY TookOK
<1>2. EnterInNew(s, c, i, k, b) = t
  BY DEF EnterInNew
<1> HIDE DEF s3
<1>3. /\ s3 = State(s3.vol, s3.ind, s3.size) /\ VolOK(s3.vol) /\ Apart(s3) /\ Reads(s3)
      /\ s3.ind \in [Inodes -> 0 .. BitmapBits]
  BY <1>1 DEF Good
<1>4. /\ s2.vol = s3.vol /\ s2.size = s3.size /\ s2.ind = [s3.ind EXCEPT ![i] = c.ret]
      /\ s2 = State(s2.vol, s2.ind, s2.size)
  BY <1>3 DEF State
<1> HIDE DEF s2
<1>5. c.ret \in Blocks /\ c.ret # 0 /\ c.ret \in 0 .. BitmapBits
  BY <1>1, <1>3, VolumeAssumption DEF Unnamed, VolOK, Volumes, Blocks
<1>6. s2.ind \in [Inodes -> 0 .. BitmapBits] /\ s2.ind[i] = c.ret
  BY <1>3, <1>4, <1>5
<1>7. \A j \in Inodes \ {i} : s2.ind[j] = s3.ind[j]
  BY <1>3, <1>4
<1>8. \A x \in Spot : At(s3, i, x) = 0
  BY <1>1 DEF At
<1>9. ASSUME NEW j \in Inodes, NEW x \in Spot
      PROVE  At(s2, j, x) = IF j = i /\ x = 0 THEN c.ret ELSE At(s3, j, x)
  <2>1. CASE j # i
    BY <1>4, <1>7, <2>1 DEF At
  <2>2. CASE j = i /\ x = 0
    BY <1>5, <1>6, <2>2 DEF At
  <2>3. CASE j = i /\ x # 0
    <3>1. x \in Slot
      BY <2>3, SpotsAre
    <3>2. s2.vol.blk[c.ret][x] = Zero
      BY <1>1, <1>4, <3>1 DEF ZeroBlock
    <3>3. At(s2, i, x) = NumberIn(Zero)
      BY <1>5, <1>6, <2>3, <3>2 DEF At
    <3> QED BY <1>8, <2>3, <3>3 DEF NumberIn, Zero
  <2> QED BY <2>1, <2>2, <2>3
<1>10. Apart(s2)
  <2>1. \A j \in Inodes, x \in Spot : At(s2, j, x) # 0 =>
          At(s2, j, x) \in Unnamed(s3.vol) /\ At(s2, j, x) > Reserved
    BY <1>1, <1>3, <1>9 DEF Apart
  <2>2. ASSUME NEW j \in Inodes, NEW m \in Inodes, NEW x \in Spot, NEW z \in Spot,
               At(s2, j, x) # 0, At(s2, j, x) = At(s2, m, z)
        PROVE  j = m /\ x = z
    <3>1. /\ At(s2, j, x) = IF j = i /\ x = 0 THEN c.ret ELSE At(s3, j, x)
          /\ At(s2, m, z) = IF m = i /\ z = 0 THEN c.ret ELSE At(s3, m, z)
      BY <1>9
    <3>2. At(s3, j, x) # c.ret /\ At(s3, m, z) # c.ret
      BY <1>1
    <3>3. CASE j = i /\ x = 0
      BY <2>2, <3>1, <3>2, <3>3
    <3>4. CASE ~(j = i /\ x = 0)
      <4>1. At(s3, j, x) # 0 /\ At(s3, j, x) = At(s3, m, z)
        BY <2>2, <3>1, <3>2, <3>4
      <4>2. \A z2 \in Spot : At(s3, j, x) = At(s3, m, z2) => j = m /\ x = z2
        BY <1>3, <4>1 DEF Apart
      <4> QED BY <4>1, <4>2
    <3> QED BY <3>3, <3>4
  <2> QED BY <1>4, <2>1, <2>2 DEF Apart
<1>11. \A j \in Inodes \ {i} : s2.ind[j] # 0 => Readable(s2.vol, s2.ind[j])
  BY <1>3, <1>4, <1>7 DEF Reads
<1>12. b \in Unnamed(s2.vol) /\ b \in s.vol.bmap
  BY <1>1, <1>4 DEF Outside, Unnamed
<1>13. \A j \in Inodes, x \in Spot : At(s2, j, x) # b
  BY <1>1, <1>9, <1>12
<1>14. \A x \in Slot : At(s2, i, x) = 0
  BY <1>8, <1>9, SpotsAre
<1>15. VolOK(s2.vol)
  BY <1>3, <1>4
<1>16. /\ t = State(t.vol, s2.ind, s2.size)
       /\ VolOK(t.vol) /\ Apart(t) /\ Reads(t) /\ Keeps(s2.vol, t.vol, 0, 0)
       /\ \A j \in Inodes, x \in Spot :
            At(t, j, x) = IF j = i /\ x = k - NDirect + 1 THEN b ELSE At(s2, j, x)
  BY <1>4, <1>5, <1>6, <1>10, <1>11, <1>12, <1>13, <1>14, <1>15, EnterOK
<1> HIDE DEF t
<1>17. t.ind = s2.ind /\ t.size = s3.size /\ t = State(t.vol, t.ind, t.size)
  BY <1>4, <1>16 DEF State
<1>18. \A j \in Inodes, x \in Spot : At(s3, j, x) # 0 => At(t, j, x) = At(s3, j, x)
  BY <1>8, <1>9, <1>16
<1>19. Good(t) /\ t.vol.imap = s3.vol.imap
  BY <1>1, <1>4, <1>6, <1>16, <1>17, <1>18, GoodMoves
<1> QED BY <1>1, <1>2, <1>17, <1>19 DEF t

\* Index k of inode i has a block, whether it was there, has just been taken, or
\* cannot be: every index keeps its block.
LEMMA WithBlockOK ==
  ASSUME NEW s, Good(s), NEW i \in Inodes, NEW k \in AllIndex, NEW w, w = WithBlock(s, i, k),
         \A j \in Inodes : s.ind[j] = 0 /\ w.ind[j] # 0 => s.vol.blk[w.ind[j]] = ZeroBlock
  PROVE  Good(w) /\ w.size = s.size /\ w.vol.imap = s.vol.imap
<1> DEFINE a  == allocate_block(s.vol)
           s1 == Took(s, a)
           b  == a.ret
<1>0. /\ s = State(s.vol, s.ind, s.size) /\ VolOK(s.vol) /\ Apart(s) /\ Reads(s)
      /\ s.ind \in [Inodes -> 0 .. BitmapBits]
  BY DEF Good
<1>1. CASE BlockAtIndex(s, i, k) # 0 \/ b = 0
  BY <1>1 DEF WithBlock, GiveBlock
<1>2. CASE BlockAtIndex(s, i, k) = 0 /\ b # 0
  <2>1. w = AttachNew(s1, i, k, b)
    BY <1>2 DEF WithBlock, GiveBlock
  <2>2. /\ Good(s1) /\ s1.vol = a.vol /\ s1.ind = s.ind /\ s1.size = s.size
        /\ s1.vol.blk = s.vol.blk /\ s1.vol.imap = s.vol.imap /\ s1.vol.itab = s.vol.itab
        /\ Outside(s.vol, s1.vol)
        /\ b \in Unnamed(s1.vol) \ s.vol.bmap /\ b > Reserved
        /\ \A j \in Inodes, x \in Spot : At(s1, j, x) = At(s, j, x) /\ At(s1, j, x) # b
    BY <1>2, TookOK
  <2>3. CASE k < NDirect
    <3> DEFINE u == set_inode_block(a.vol, i, k, b)
    <3>1. k \in Index /\ s.vol.itab[i].ptr[k] = 0
      BY <1>2, <2>3, VolumeAssumption DEF AllIndex, Index, BlockAtIndex, get_inode_block
    <3>2. BlockFor(s.vol, i, k) = Result(u, b)
      BY <1>2, <3>1 DEF BlockFor, get_inode_block, Attached
    <3>3. VolOK(u) /\ Keeps(s.vol, u, i, 0) /\ Outside(s.vol, u)
      <4>1. BlockFor(s.vol, i, k).vol = u
        BY <3>2 DEF Result
      <4> QED BY <1>0, <3>1, <4>1, BlockForOK, BlockForKeeps, BlockForOutside
    <3>4. w = State(u, s1.ind, s1.size)
      <4>1. s1 = State(s1.vol, s1.ind, s1.size)
        BY <2>2 DEF Good
      <4> HIDE DEF s1, a
      <4>2. w = [s1 EXCEPT !.vol = set_inode_block(s1.vol, i, k, b)]
        BY <2>1, <2>3 DEF AttachNew
      <4> QED BY <2>2, <4>1, <4>2 DEF State
    <3> HIDE DEF u
    <3>5. w.vol = u /\ w.ind = s.ind /\ w.size = s.size /\ w = State(w.vol, w.ind, w.size)
      BY <2>2, <3>4 DEF State
    <3>6. s.vol.end <= u.end
      BY <3>3 DEF Keeps
    <3>7. Apart(w) /\ Reads(w) /\ \A j \in Inodes, x \in Spot : At(w, j, x) = At(s, j, x)
      BY <1>0, <3>3, <3>5, <3>6, ApartMoves
    <3> QED BY <1>0, <3>3, <3>5, <3>7, GoodMoves
  <2>4. CASE k >= NDirect /\ s.ind[i] = 0
    <3> DEFINE c == allocate_block(s1.vol)
    <3>1. w = EnterInNew(s1, c, i, k, b)
      <4> HIDE DEF s1, a, c
      <4>1. ~(k < NDirect)
        BY <2>4, VolumeAssumption DEF AllIndex
      <4> QED BY <2>1, <2>2, <2>4, <4>1 DEF AttachNew, c
    <3> HIDE DEF s1, a
    <3>2. CASE c.ret = 0
      <4> DEFINE u == FreeEach(s1.vol, {b})
      <4>1. VolOK(s1.vol) /\ s1 = State(s1.vol, s1.ind, s1.size)
        BY <2>2 DEF Good
      <4>2. /\ VolOK(u) /\ u.bmap = s1.vol.bmap \ {x \in {b} : x <= MaxBlocks}
            /\ u.itab = s1.vol.itab /\ u.imap = s1.vol.imap /\ u.blk = s1.vol.blk
            /\ u.end = s1.vol.end
        BY <2>2, <4>1, FreeEachOK
      <4>3. w = State(u, s1.ind, s1.size)
        <5>1. w = [s1 EXCEPT !.vol = u]
          BY <3>1, <3>2 DEF EnterInNew
        <5> HIDE DEF u
        <5> QED BY <4>1, <5>1 DEF State
      <4> HIDE DEF u
      <4>4. w.vol = u /\ w.ind = s.ind /\ w.size = s.size /\ w = State(w.vol, w.ind, w.size)
        BY <2>2, <4>3 DEF State
      <4>5. Outside(s.vol, u)
        <5>1. \A x \in Unnamed(s.vol) : x \in Unnamed(s1.vol) /\ x # b /\ u.blk[x] = s.vol.blk[x]
          BY <2>2, <4>2 DEF Outside, Unnamed
        <5>2. \A x \in Unnamed(s.vol) : x \in Unnamed(u)
          BY <4>2, <5>1 DEF Unnamed
        <5> QED BY <5>1, <5>2 DEF Outside
      <4>6. s.vol.end <= s1.vol.end
        <5>1. s1.vol.end = s.vol.end
          BY <1>0, <2>2, AllocateBlockOK DEF a
        <5> QED BY <1>0, <5>1 DEF VolOK, Volumes
      <4>7. Keeps(s.vol, u, 0, 0)
        BY <2>2, <4>2, <4>6 DEF Keeps, SameInode, SameFile
      <4>8. Apart(w) /\ Reads(w) /\ \A j \in Inodes, x \in Spot : At(w, j, x) = At(s, j, x)
        BY <1>0, <4>2, <4>4, <4>5, <4>6, ApartMoves
      <4> QED BY <1>0, <4>2, <4>4, <4>7, <4>8, GoodMoves
    <3>3. CASE c.ret # 0
      <4>1. w.ind[i] = c.ret
        <5>1. w = Enter([Took(s1, c) EXCEPT !.ind[i] = c.ret], i, k, b)
          BY <3>1, <3>3 DEF EnterInNew
        <5>2. s1 = State(s1.vol, s1.ind, s1.size) /\ s1.ind \in [Inodes -> 0 .. BitmapBits]
          BY <2>2 DEF Good
        <5> HIDE DEF c
        <5>3. w.ind = [s1.ind EXCEPT ![i] = c.ret]
          BY <5>1, <5>2 DEF Enter, Took, State
        <5> QED BY <5>2, <5>3
      <4>2. s1.vol.blk[c.ret] = ZeroBlock /\ s1.ind[i] = 0
        BY <2>2, <2>4, <3>3, <4>1
      <4> HIDE DEF c
      <4>3. Good(w) /\ w.vol.imap = s1.vol.imap /\ w.size = s1.size
        <5>1. \A j \in Inodes, x \in Spot : At(s1, j, x) # b
          BY <2>2
        <5>2. b \in Unnamed(s1.vol) /\ c = allocate_block(s1.vol) /\ k >= NDirect
          BY <2>2, <2>4 DEF c
        <5> HIDE DEF b
        <5> QED BY <2>2, <3>1, <3>3, <4>2, <5>1, <5>2, EnterInNewOK
      <4> QED BY <2>2, <4>3
    <3> QED BY <3>2, <3>3
  <2>5. CASE k >= NDirect /\ s.ind[i] # 0
    <3> HIDE DEF s1, a
    <3>1. w = Enter(s1, i, k, b)
      <4>1. ~(k < NDirect)
        BY <2>5, VolumeAssumption DEF AllIndex
      <4> QED BY <2>1, <2>2, <2>5, <4>1 DEF AttachNew
    <3>2. /\ VolOK(s1.vol) /\ s1 = State(s1.vol, s1.ind, s1.size) /\ Apart(s1) /\ Reads(s1)
          /\ s1.ind \in [Inodes -> 0 .. BitmapBits]
      BY <2>2 DEF Good
    <3>3. \A j \in Inodes : s1.ind[j] # 0 => Readable(s1.vol, s1.ind[j])
      BY <3>2 DEF Reads
    <3>4. s1.ind[i] # 0 /\ b \in Unnamed(s1.vol) /\ \A j \in Inodes, x \in Spot : At(s1, j, x) # b
      BY <2>2, <2>5
    <3> HIDE DEF b
    <3>5. /\ w = State(w.vol, s1.ind, s1.size)
          /\ VolOK(w.vol) /\ Apart(w) /\ Reads(w) /\ Keeps(s1.vol, w.vol, 0, 0)
          /\ \A j \in Inodes, x \in Spot :
               At(w, j, x) = IF j = i /\ x = k - NDirect + 1 THEN b ELSE At(s1, j, x)
      BY <2>2, <2>5, <3>1, <3>2, <3>3, <3>4, EnterOK
    <3>6. w.ind = s1.ind /\ w.size = s1.size /\ w = State(w.vol, w.ind, w.size)
      BY <3>5 DEF State
    <3>7. At(s1, i, k - NDirect + 1) = 0
      BY <1>0, <1>2, <2>2, <2>5, IndexIsSpot, SpotsAre
    <3>8. \A j \in Inodes, x \in Spot : At(s1, j, x) # 0 => At(w, j, x) = At(s1, j, x)
      BY <3>5, <3>7
    <3>9. Good(w) /\ w.vol.imap = s1.vol.imap
      BY <2>2, <3>2, <3>5, <3>6, <3>8, GoodMoves
    <3> QED BY <2>2, <3>6, <3>9
  <2>6. k < NDirect \/ k >= NDirect
    BY VolumeAssumption DEF AllIndex
  <2> QED BY <2>3, <2>4, <2>5, <2>6
<1> QED BY <1>1, <1>2

----------------------------------------------------------------------------
(* Writing *)

LEMMA MaxOfTwo ==
  ASSUME NEW x \in Nat, NEW y \in Nat
  PROVE  Max({x, y}) = IF x <= y THEN y ELSE x
<1> DEFINE m == IF x <= y THEN y ELSE x
<1>1. m \in {x, y} /\ \A z \in {x, y} : m >= z
  OBVIOUS
<1>2. \A n \in {x, y} : (\A z \in {x, y} : n >= z) => n = m
  OBVIOUS
<1> QED BY <1>1, <1>2 DEF Max

\* The text goes to the block that file i has at index k, which is no other's.
LEMMA PutTextOK ==
  ASSUME NEW w, Good(w), NEW i \in w.vol.imap, NEW k \in AllIndex, k <= w.size[i], NEW d \in Data
  PROVE  Good(PutTextAt(w, i, k, d))
<1> DEFINE b     == BlockAtIndex(w, i, k)
           words == [t \in Slot |-> Text(d)]
           u     == write_block(w.vol, b, words)
           t     == PutTextAt(w, i, k, d)
<1>0. /\ w = State(w.vol, w.ind, w.size) /\ VolOK(w.vol) /\ Apart(w) /\ Reads(w) /\ Whole(w)
      /\ FreeUntyped(w.vol)
      /\ w.ind \in [Inodes -> 0 .. BitmapBits] /\ w.size \in [Inodes -> Sizes] /\ i \in Inodes
  BY DEF Good, VolOK, Volumes
<1>1. CASE b <= 0 \/ ~Readable(w.vol, b)
  BY <1>1 DEF PutTextAt, PutText
<1>2. CASE ~(b <= 0 \/ ~Readable(w.vol, b))
  <2>1. b \in Blocks /\ \A j \in Inodes : w.ind[j] # 0 => w.ind[j] # b
    <3>1. CASE k < NDirect
      <4>1. k \in Index /\ b = w.vol.itab[i].ptr[k]
        BY <3>1, VolumeAssumption DEF AllIndex, Index, BlockAtIndex, get_inode_block
      <4>2. b \in 0 .. BitmapBits
        BY <1>0, <4>1 DEF VolOK, Volumes, Inode
      <4>3. \A j \in Inodes : w.ind[j] # 0 => w.ind[j] \in Unnamed(w.vol)
        <5> TAKE j \in Inodes
        <5> HAVE w.ind[j] # 0
        <5>1. At(w, j, 0) = w.ind[j] /\ 0 \in Spot
          BY SpotsAre DEF At
        <5> QED BY <1>0, <5>1 DEF Apart
      <4>4. b \notin Unnamed(w.vol)
        BY <1>0, <4>1 DEF Unnamed
      <4> HIDE DEF b
      <4> QED BY <1>2, <4>2, <4>3, <4>4, VolumeAssumption DEF Blocks
    <3>2. CASE k >= NDirect
      <4> DEFINE y == k - NDirect + 1
      <4>1. y \in Slot /\ b = At(w, i, y)
        BY <1>0, <3>2, IndexIsSpot
      <4> HIDE DEF b, y
      <4>2. y \in Spot /\ y # 0 /\ 0 \in Spot
        BY <4>1, SpotsAre
      <4>3. b # 0
        BY <1>2
      <4>4. b \in Unnamed(w.vol)
        BY <1>0, <4>1, <4>2, <4>3 DEF Apart
      <4>5. b \in Blocks
        BY <1>0, <4>4 DEF Unnamed, VolOK, Volumes
      <4>6. \A j \in Inodes : w.ind[j] # b
        <5> TAKE j \in Inodes
        <5>1. w.ind[j] # 0 => At(w, j, 0) = w.ind[j]
          BY DEF At
        <5>2. At(w, i, y) # 0
          BY <4>1, <4>3
        <5>3. At(w, i, y) # At(w, j, 0)
          BY <1>0, <4>2, <5>2 DEF Apart
        <5> QED BY <4>1, <4>3, <5>1, <5>3
      <4> QED BY <4>5, <4>6
    <3> QED BY <3>1, <3>2, VolumeAssumption DEF AllIndex
  <2>2. t = [w EXCEPT !.vol = u, !.size[i] = Max({w.size[i], k + 1})]
    BY <1>2 DEF PutTextAt, PutText
  <2> HIDE DEF t
  <2>3. words \in [Slot -> Word]
    BY DEF Text, Word
  <2>4. VolOK(u)
    BY <1>0, <2>1, <2>3, WriteBlockOK
  <2>5. /\ u.bmap = w.vol.bmap /\ u.itab = w.vol.itab /\ u.imap = w.vol.imap
        /\ u.blk = [w.vol.blk EXCEPT ![b] = words]
        /\ u.end = w.vol.end
    BY <1>0, <1>2 DEF write_block, VolOK, Volumes, Readable
  <2> HIDE DEF words
  <2>6. w.size[i] \in Nat /\ k + 1 \in Nat /\ k + 1 \in Sizes
    BY <1>0, VolumeAssumption DEF Sizes, AllIndex
  <2>7. Max({w.size[i], k + 1}) = IF w.size[i] <= k + 1 THEN k + 1 ELSE w.size[i]
    BY <2>6, MaxOfTwo
  <2>8. /\ t = State(t.vol, t.ind, t.size)
        /\ t.vol = u /\ t.ind = w.ind
        /\ t.size = [w.size EXCEPT ![i] = IF w.size[i] <= k + 1 THEN k + 1 ELSE w.size[i]]
    <3> HIDE DEF u
    <3> QED BY <1>0, <2>2, <2>7 DEF State
  <2> HIDE DEF u
  <2>9. t.size \in [Inodes -> Sizes]
    BY <1>0, <2>6, <2>8
  <2>10. \A j \in Inodes, x \in Spot : At(t, j, x) = At(w, j, x)
    <3> TAKE j \in Inodes, x \in Spot
    <3>1. CASE w.ind[j] = 0
      BY <2>8, <3>1 DEF At
    <3>2. CASE w.ind[j] # 0
      <4>1. w.ind[j] # b /\ w.ind[j] \in Blocks
        BY <1>0, <2>1, <3>2 DEF Blocks
      <4> HIDE DEF b
      <4>2. u.blk[w.ind[j]] = w.vol.blk[w.ind[j]]
        BY <1>0, <2>5, <4>1 DEF VolOK, Volumes
      <4> QED BY <2>8, <4>2 DEF At
    <3> QED BY <3>1, <3>2
  <2>11. Apart(t)
    <3>1. Unnamed(u) = Unnamed(w.vol)
      BY <2>5 DEF Unnamed
    <3>2. \A j \in Inodes, x \in Spot : At(t, j, x) # 0 =>
            At(t, j, x) \in Unnamed(u) /\ At(t, j, x) > Reserved
      BY <1>0, <2>10, <3>1 DEF Apart
    <3>3. ASSUME NEW j \in Inodes, NEW m \in Inodes, NEW x \in Spot, NEW z \in Spot,
                 At(t, j, x) # 0, At(t, j, x) = At(t, m, z)
          PROVE  j = m /\ x = z
      <4>1. At(w, j, x) # 0 /\ At(w, j, x) = At(w, m, z)
        BY <2>10, <3>3
      <4>2. \A z2 \in Spot : At(w, j, x) = At(w, m, z2) => j = m /\ x = z2
        BY <1>0, <4>1 DEF Apart
      <4> QED BY <4>1, <4>2
    <3> QED BY <2>8, <3>2, <3>3 DEF Apart
  <2>12. Reads(t) /\ FreeUntyped(u)
    BY <1>0, <2>5, <2>8 DEF Reads, Readable, FreeUntyped
  <2>13. ASSUME NEW j \in Inodes, NEW l \in AllIndex
         PROVE  BlockAtIndex(t, j, l) = BlockAtIndex(w, j, l)
    <3>1. CASE l < NDirect
      BY <2>5, <2>8, <3>1 DEF BlockAtIndex, get_inode_block
    <3>2. CASE l >= NDirect
      <4>1. /\ l - NDirect + 1 \in Slot
            /\ BlockAtIndex(w, j, l) = At(w, j, l - NDirect + 1)
            /\ BlockAtIndex(t, j, l) = At(t, j, l - NDirect + 1)
        BY <1>0, <2>12, <3>2, IndexIsSpot
      <4>2. l - NDirect + 1 \in Spot
        BY <4>1, SpotsAre
      <4> QED BY <2>10, <4>1, <4>2
    <3> QED BY <3>1, <3>2, VolumeAssumption DEF AllIndex
  <2>14. Whole(t)
    <3> SUFFICES ASSUME NEW j \in w.vol.imap, w.vol.itab[j].type = "reg",
                        NEW l \in 0 .. t.size[j] - 1
                 PROVE  BlockAtIndex(t, j, l) \in 1 .. w.vol.end - 1
      BY <2>5, <2>8 DEF Whole
    <3>1. j \in Inodes
      BY <1>0 DEF VolOK, Volumes
    <3>2. l \in AllIndex
      BY <2>9, <3>1, VolumeAssumption DEF Sizes, AllIndex
    <3>3. CASE l \in 0 .. w.size[j] - 1
      <4>1. BlockAtIndex(w, j, l) \in 1 .. w.vol.end - 1
        BY <1>0, <3>3 DEF Whole
      <4> QED BY <2>13, <3>1, <3>2, <4>1
    <3>4. CASE ~(l \in 0 .. w.size[j] - 1)
      <4>1. j = i /\ l = k
        <5>1. j = i
          BY <1>0, <2>8, <3>1, <3>4
        <5>2. t.size[i] = IF w.size[i] <= k + 1 THEN k + 1 ELSE w.size[i]
          BY <1>0, <2>8
        <5>3. l \in 0 .. t.size[i] - 1 /\ ~(l \in 0 .. w.size[i] - 1)
          BY <3>4, <5>1
        <5>4. l >= w.size[i] /\ l < t.size[i] /\ l \in Nat
          BY <2>6, <5>2, <5>3
        <5>5. k \in Nat /\ k <= w.size[i]
          BY VolumeAssumption DEF AllIndex
        <5> QED BY <2>6, <5>1, <5>2, <5>4, <5>5
      <4>2. b \in Nat /\ b # 0 /\ b < w.vol.end /\ w.vol.end \in Nat
        BY <1>0, <1>2, <2>1 DEF Readable, Blocks, VolOK, Volumes
      <4>3. BlockAtIndex(w, i, k) \in 1 .. w.vol.end - 1
        BY <4>2
      <4> QED BY <2>13, <3>1, <3>2, <4>1, <4>3
    <3> QED BY <3>3, <3>4
  <2> QED BY <1>0, <2>4, <2>8, <2>9, <2>11, <2>12, <2>14 DEF Good, t
<1> QED BY <1>1, <1>2

----------------------------------------------------------------------------
(* The steps *)

Here == State(vol, ind, size)

IInv == ~leftovers => Good(Here)

\* What a command on names keeps: inode c came without contents, or went.
LEMMA NamesGood ==
  ASSUME NEW s, Good(s), NEW t, t = State(t.vol, t.ind, t.size), VolOK(t.vol),
         t.ind \in [Inodes -> 0 .. BitmapBits], t.size \in [Inodes -> Sizes],
         NEW d, NEW c, Keeps(s.vol, t.vol, d, c), Outside(s.vol, t.vol),
         \A i \in Inodes : t.ind[i] = 0 \/ t.ind[i] = s.ind[i],
         \A i \in t.vol.imap \ {c} : t.ind[i] = s.ind[i] /\ t.size[i] = s.size[i],
         c \in t.vol.imap => t.vol.itab[c].type = "dir" \/ t.size[c] = 0,
         c \in Inodes \ t.vol.imap => t.vol.itab[c].type = "none"
  PROVE  Good(t)
<1>0. /\ VolOK(s.vol) /\ Apart(s) /\ Reads(s) /\ Whole(s) /\ FreeUntyped(s.vol)
      /\ s.ind \in [Inodes -> 0 .. BitmapBits] /\ s.size \in [Inodes -> Sizes]
  BY DEF Good
<1>1. t.vol.imap \subseteq Inodes /\ s.vol.imap \subseteq Inodes
  BY <1>0 DEF VolOK, Volumes
<1>2. s.vol.end <= t.vol.end
  BY DEF Keeps
<1>3. /\ Apart(t) /\ Reads(t)
      /\ \A i \in Inodes, x \in Spot : t.ind[i] = s.ind[i] => At(t, i, x) = At(s, i, x)
  BY <1>0, <1>2, ApartMoves
<1>4. \A i \in t.vol.imap \ {c} :
        /\ t.size[i] = s.size[i]
        /\ \A x \in Spot : At(s, i, x) # 0 => At(t, i, x) = At(s, i, x)
  BY <1>1, <1>3
<1>5. c \in t.vol.imap /\ t.vol.itab[c].type = "reg" => t.size[c] = 0
  OBVIOUS
<1>6. Whole(t)
  BY <1>0, <1>3, <1>4, <1>5, WholeMoves
<1>7. FreeUntyped(t.vol)
  BY <1>0 DEF FreeUntyped, Keeps, SameInode
<1> QED BY <1>3, <1>6, <1>7 DEF Good

LEMMA StateFields ==
  ASSUME NEW v, NEW in, NEW sz
  PROVE  LET s == State(v, in, sz)
         IN  s.vol = v /\ s.ind = in /\ s.size = sz /\ s = State(s.vol, s.ind, s.size)
BY DEF State

LEMMA AllocatedIsNew ==
  ASSUME NEW v, VolOK(v), NEW t \in {"reg", "dir"}
  PROVE  allocate_inode(v).ret = create_inode(v, t).ret /\ allocate_inode(v).ret \notin v.imap
<1> DEFINE a == create_inode(v, t)
<1>1. allocate_inode(v).ret = a.ret
  BY DEF create_inode, Result
<1>2. a.ret \in Inodes => a.ret \notin v.imap
  BY CreateInodeKeeps
<1> HIDE DEF a
<1>3. v.imap \subseteq Inodes
  BY DEF VolOK, Volumes
<1> QED BY <1>1, <1>2, <1>3 DEF a

\* What the steps below have of the image before them.
LEMMA HereIs ==
  ASSUME Good(Here)
  PROVE  /\ Here.vol = vol /\ Here.ind = ind /\ Here.size = size
         /\ VolOK(vol) /\ FreeUntyped(vol)
         /\ ind \in [Inodes -> 0 .. BitmapBits] /\ size \in [Inodes -> Sizes]
BY StateFields DEF Good, Here

LEMMA ClearedTypes ==
  ASSUME Good(Here)
  PROVE  /\ Cleared(ind) \in [Inodes -> 0 .. BitmapBits] /\ Cleared(size) \in [Inodes -> Sizes]
         /\ \A i \in Inodes : Cleared(ind)[i] = IF i = allocate_inode(vol).ret THEN 0 ELSE ind[i]
         /\ \A i \in Inodes : Cleared(size)[i] = IF i = allocate_inode(vol).ret THEN 0 ELSE size[i]
<1>1. 0 \in 0 .. BitmapBits /\ 0 \in Sizes
  BY VolumeAssumption DEF Sizes
<1>2. ind \in [Inodes -> 0 .. BitmapBits] /\ size \in [Inodes -> Sizes]
  BY HereIs
<1> QED BY <1>1, <1>2 DEF Cleared

LEMMA CreateGood ==
  ASSUME Good(Here), is_directory(vol, RootIno), NEW n \in Names
  PROVE  Good(State(NewFile(vol, RootIno, n), Cleared(ind), Cleared(size)))
<1> DEFINE u == NewFile(vol, RootIno, n)
           t == State(u, Cleared(ind), Cleared(size))
           f == allocate_inode(vol).ret
<1>1. /\ Here.vol = vol /\ Here.ind = ind /\ Here.size = size
      /\ VolOK(vol) /\ FreeUntyped(vol) /\ n \in AnyName
  BY HereIs DEF AnyName
<1>2. VolOK(u) /\ Outside(vol, u)
  BY <1>1, NewFileOK, NewFileOutside
<1>3. f = create_inode(vol, "reg").ret /\ f \notin vol.imap
  BY <1>1, AllocatedIsNew
<1>4. NamespaceStep(vol, u, RootIno, f)
  BY <1>1, <1>3, NewFileKeeps
<1> HIDE DEF u, f
<1>5. /\ t.vol = u /\ t.ind = Cleared(ind) /\ t.size = Cleared(size)
      /\ t = State(t.vol, t.ind, t.size)
  BY StateFields
<1>6. /\ t.ind \in [Inodes -> 0 .. BitmapBits] /\ t.size \in [Inodes -> Sizes]
      /\ \A i \in Inodes : t.ind[i] = IF i = f THEN 0 ELSE ind[i]
      /\ \A i \in Inodes : t.size[i] = IF i = f THEN 0 ELSE size[i]
  BY <1>5, ClearedTypes DEF f
<1> HIDE DEF t
<1>7. u.imap \subseteq Inodes
  BY <1>2 DEF VolOK, Volumes
<1>8. Keeps(vol, u, RootIno, f) /\ (f \in Inodes \ u.imap => u.itab[f].type = "none")
  BY <1>4 DEF NamespaceStep
<1>9. Good(t)
  BY <1>1, <1>2, <1>5, <1>6, <1>7, <1>8, NamesGood
<1> QED BY <1>9 DEF t, u

LEMMA MkdirGood ==
  ASSUME Good(Here), NEW n \in Names
  PROVE  Good(State(MakeDirectory(vol, RootIno, n).vol, Cleared(ind), Cleared(size)))
<1> DEFINE u == MakeDirectory(vol, RootIno, n).vol
           t == State(u, Cleared(ind), Cleared(size))
           f == allocate_inode(vol).ret
<1>1. /\ Here.vol = vol /\ Here.ind = ind /\ Here.size = size
      /\ VolOK(vol) /\ FreeUntyped(vol) /\ n \in AnyName
  BY HereIs DEF AnyName
<1>2. VolOK(u) /\ Outside(vol, u)
  BY <1>1, MakeDirectoryOK, MakeDirectoryOutside
<1>3. f \notin vol.imap
  BY <1>1, AllocatedIsNew
<1>4. PICK c \in 1 .. MaxInodes :
        /\ NamespaceStep(vol, u, RootIno, c)
        /\ c \in Inodes => c \notin vol.imap /\ (c \in u.imap => u.itab[c].type = "dir")
  BY <1>1, MakeDirectoryKeeps
<1> HIDE DEF u, f
<1>5. /\ t.vol = u /\ t.ind = Cleared(ind) /\ t.size = Cleared(size)
      /\ t = State(t.vol, t.ind, t.size)
  BY StateFields
<1>6. /\ t.ind \in [Inodes -> 0 .. BitmapBits] /\ t.size \in [Inodes -> Sizes]
      /\ \A i \in Inodes : t.ind[i] = IF i = f THEN 0 ELSE ind[i]
      /\ \A i \in Inodes : t.size[i] = IF i = f THEN 0 ELSE size[i]
  BY <1>5, ClearedTypes DEF f
<1> HIDE DEF t
<1>7. u.imap \subseteq Inodes
  BY <1>2 DEF VolOK, Volumes
<1>8. Keeps(vol, u, RootIno, c) /\ (c \in Inodes \ u.imap => u.itab[c].type = "none")
  BY <1>4 DEF NamespaceStep
<1>9. \A i \in u.imap \ {c} : i \in vol.imap
  BY <1>7, <1>8 DEF Keeps, SameInode
<1>10. \A i \in u.imap \ {c} : t.ind[i] = ind[i] /\ t.size[i] = size[i]
  BY <1>3, <1>6, <1>7, <1>9
<1>11. Good(t)
  BY <1>1, <1>2, <1>4, <1>5, <1>6, <1>7, <1>8, <1>10, NamesGood
<1> QED BY <1>11 DEF t, u

\* A volume that a step puts under the same indirect blocks and sizes.
LEMMA VolumeGood ==
  ASSUME Good(Here), NEW u, VolOK(u), Outside(vol, u), NEW d, NEW c, Keeps(vol, u, d, c),
         c \in Inodes => c \notin u.imap /\ u.itab[c].type = "none"
  PROVE  Good(State(u, ind, size))
<1> DEFINE t == State(u, ind, size)
<1>1. /\ Here.vol = vol /\ Here.ind = ind /\ Here.size = size
      /\ ind \in [Inodes -> 0 .. BitmapBits] /\ size \in [Inodes -> Sizes]
  BY HereIs
<1>2. t.vol = u /\ t.ind = ind /\ t.size = size /\ t = State(t.vol, t.ind, t.size)
  BY StateFields
<1> HIDE DEF t
<1>3. u.imap \subseteq Inodes
  BY DEF VolOK, Volumes
<1>4. Good(t)
  BY <1>1, <1>2, <1>3, NamesGood
<1> QED BY <1>4 DEF t

LEMMA RmdirGood ==
  ASSUME Good(Here), NEW p
  PROVE  Good(State(delete_directory(vol, RootIno, p).vol, ind, size))
<1> DEFINE r == delete_directory(vol, RootIno, p)
<1>1. Here = State(vol, ind, size) /\ VolOK(vol)
  BY HereIs DEF Here
<1>2. CASE r.ret = 0
  <2>1. VolOK(r.vol) /\ Outside(vol, r.vol)
    BY <1>1, DeleteDirectoryOK, DeleteDirectoryOutside
  <2>2. \E d, c : NamespaceStep(vol, r.vol, d, c) /\ c \notin r.vol.imap
    BY <1>1, <1>2, DeleteDirectoryKeeps
  <2> HIDE DEF r
  <2>3. PICK d, c : NamespaceStep(vol, r.vol, d, c) /\ c \notin r.vol.imap
    BY <2>2
  <2> QED BY <2>1, <2>3, VolumeGood DEF NamespaceStep, r
<1>3. CASE r.ret # 0
  BY <1>1, <1>3 DEF delete_directory, Fail, Done, Result
<1> QED BY <1>2, <1>3

LEMMA EntryGoneGood ==
  ASSUME Good(Here), NEW n
  PROVE  Good(State(remove_directory_entry(vol, RootIno, n).vol, ind, size))
<1> DEFINE r == remove_directory_entry(vol, RootIno, n)
<1>1. Here = State(vol, ind, size) /\ VolOK(vol)
  BY HereIs DEF Here
<1>2. CASE r.ret = 0
  <2>1. VolOK(r.vol) /\ Outside(vol, r.vol)
    BY <1>1, RemoveEntryOK, RemoveEntryOutside
  <2>3. r = remove_directory_entry(vol, RootIno, n)
    OBVIOUS
  <2> HIDE DEF r
  <2>4. Keeps(vol, r.vol, RootIno, 0)
    BY <1>1, <1>2, <2>3, RemoveEntryKeeps, Zenon
  <2>2. 0 \notin Inodes
    BY DEF Inodes
  <2> QED BY <2>1, <2>2, <2>4, VolumeGood DEF r
<1>3. CASE r.ret # 0
  BY <1>1, <1>3 DEF remove_directory_entry, ClearEntry, Fail, Done, Result
<1> QED BY <1>2, <1>3

\* A file goes with what it names.
LEMMA DeleteFileGood ==
  ASSUME NEW s, Good(s), NEW i \in Inodes
  PROVE  Good(delete_file(s, i))
<1> DEFINE f == FreeIndirect(s.vol, s.ind[i])
           u == delete_inode(f, i)
           t == delete_file(s, i)
<1>0. /\ s = State(s.vol, s.ind, s.size)
      /\ VolOK(s.vol) /\ Apart(s) /\ Reads(s) /\ Whole(s) /\ FreeUntyped(s.vol)
      /\ s.ind \in [Inodes -> 0 .. BitmapBits] /\ s.size \in [Inodes -> Sizes]
  BY DEF Good
<1>1. /\ VolOK(f) /\ f.itab = s.vol.itab /\ f.imap = s.vol.imap
      /\ f.blk = s.vol.blk /\ f.end = s.vol.end
      /\ \A j \in Inodes \ {i}, x \in Spot : At(s, j, x) # 0 => At(s, j, x) \in Unnamed(f)
  BY FreeIndirectOK
<1>2. t = State(u, [s.ind EXCEPT ![i] = 0], [s.size EXCEPT ![i] = 0])
  <2> HIDE DEF f
  <2>1. t = [s EXCEPT !.vol = u, !.ind[i] = 0, !.size[i] = 0]
    BY DEF delete_file, f
  <2> HIDE DEF u, t
  <2> QED BY <1>0, <2>1 DEF State
<1> HIDE DEF f
<1>3. /\ VolOK(u) /\ Outside(f, u) /\ Keeps(f, u, 0, i)
      /\ u.imap = f.imap \ {i} /\ u.itab[i].type = "none"
  BY <1>1, DeleteInodeOK, DeleteInodeOutside, DeleteInodeKeeps
<1> HIDE DEF u, t
<1>4. /\ t.vol = u /\ t.ind = [s.ind EXCEPT ![i] = 0] /\ t.size = [s.size EXCEPT ![i] = 0]
      /\ t = State(t.vol, t.ind, t.size)
  BY <1>2, StateFields
<1>5. /\ t.ind \in [Inodes -> 0 .. BitmapBits] /\ t.size \in [Inodes -> Sizes]
      /\ t.ind[i] = 0 /\ \A j \in Inodes \ {i} : t.ind[j] = s.ind[j] /\ t.size[j] = s.size[j]
  BY <1>0, <1>4, VolumeAssumption DEF Sizes
<1>6. \A x \in Spot : At(t, i, x) = 0
  BY <1>5 DEF At
<1>7. ASSUME NEW j \in Inodes \ {i}, NEW x \in Spot
      PROVE  /\ At(t, j, x) = At(s, j, x)
             /\ At(t, j, x) # 0 => At(t, j, x) \in Unnamed(u)
  <2>1. CASE s.ind[j] = 0
    BY <1>5, <2>1 DEF At
  <2>2. CASE s.ind[j] # 0
    <3>1. At(s, j, 0) = s.ind[j] /\ 0 \in Spot
      BY <2>2, SpotsAre DEF At
    <3>2. s.ind[j] \in Unnamed(f)
      BY <1>1, <2>2, <3>1
    <3>3. u.blk[s.ind[j]] = s.vol.blk[s.ind[j]]
      BY <1>1, <1>3, <3>2 DEF Outside
    <3>4. At(t, j, x) = At(s, j, x)
      BY <1>4, <1>5, <3>3 DEF At
    <3>5. At(t, j, x) # 0 => At(t, j, x) \in Unnamed(f)
      BY <1>1, <3>4
    <3> QED BY <1>3, <3>4, <3>5 DEF Outside
  <2> QED BY <2>1, <2>2
<1>8. Apart(t)
  <2>1. \A j \in Inodes, x \in Spot : At(t, j, x) # 0 =>
          At(t, j, x) \in Unnamed(u) /\ At(t, j, x) > Reserved
    <3> TAKE j \in Inodes, x \in Spot
    <3> HAVE At(t, j, x) # 0
    <3>1. j # i
      BY <1>6
    <3>2. At(t, j, x) = At(s, j, x) /\ At(t, j, x) \in Unnamed(u)
      BY <1>7, <3>1
    <3> QED BY <1>0, <3>2 DEF Apart
  <2>2. ASSUME NEW j \in Inodes, NEW m \in Inodes, NEW x \in Spot, NEW z \in Spot,
               At(t, j, x) # 0, At(t, j, x) = At(t, m, z)
        PROVE  j = m /\ x = z
    <3>1. j # i /\ m # i
      BY <1>6, <2>2
    <3>2. At(s, j, x) # 0 /\ At(s, j, x) = At(s, m, z)
      BY <1>7, <2>2, <3>1
    <3>3. \A z2 \in Spot : At(s, j, x) = At(s, m, z2) => j = m /\ x = z2
      BY <1>0, <3>2 DEF Apart
    <3> QED BY <3>2, <3>3
  <2> QED BY <1>4, <2>1, <2>2 DEF Apart
<1>9. s.vol.end <= u.end /\ s.vol.end \in Nat /\ u.end \in Nat
  BY <1>0, <1>1, <1>3 DEF Keeps, VolOK, Volumes
<1>10. Reads(t)
  <2> SUFFICES ASSUME NEW j \in Inodes, t.ind[j] # 0 PROVE t.ind[j] < u.end
    BY <1>4 DEF Reads, Readable
  <2>1. t.ind[j] = s.ind[j] /\ s.ind[j] \in 0 .. BitmapBits
    BY <1>0, <1>5
  <2>2. s.ind[j] < s.vol.end
    BY <1>0, <2>1 DEF Reads, Readable
  <2> QED BY <1>9, <2>1, <2>2
<1>11. Keeps(s.vol, u, 0, i)
  BY <1>1, <1>3, <1>9 DEF Keeps, SameInode, SameFile
<1>12. t.vol.imap \subseteq Inodes /\ i \notin t.vol.imap
  BY <1>3, <1>4 DEF VolOK, Volumes
<1>13. Whole(t)
  <2>1. \A j \in t.vol.imap \ {i} :
          /\ t.size[j] = s.size[j]
          /\ \A x \in Spot : At(s, j, x) # 0 => At(t, j, x) = At(s, j, x)
    BY <1>5, <1>7, <1>12
  <2>2. VolOK(t.vol) /\ Keeps(s.vol, t.vol, 0, i)
    BY <1>3, <1>4, <1>11
  <2> QED BY <1>0, <1>10, <1>12, <2>1, <2>2, WholeMoves
<1>14. FreeUntyped(u)
  BY <1>0, <1>1, <1>3, <1>11 DEF FreeUntyped, Keeps, SameInode
<1> QED BY <1>3, <1>4, <1>5, <1>8, <1>10, <1>13, <1>14 DEF Good, t

\* What the write has of indirect blocks is what taking its block leaves.
LEMMA StatesStay ==
  ASSUME NEW s, s = State(s.vol, s.ind, s.size), NEW i, NEW k, NEW d
  PROVE  write_block_of_file(s, i, k, d).ind = WithBlock(s, i, k).ind
<1>1. \A t : t = State(t.vol, t.ind, t.size) =>
        \A a : Took(t, a) = State(Took(t, a).vol, Took(t, a).ind, Took(t, a).size)
  BY DEF Took, State
<1>2. \A t : t = State(t.vol, t.ind, t.size) =>
        \A b : Enter(t, i, k, b) = State(Enter(t, i, k, b).vol, Enter(t, i, k, b).ind, Enter(t, i, k, b).size)
  BY DEF Enter, State
<1>3. \A t : t = State(t.vol, t.ind, t.size) =>
        \A a, b : LET u == EnterInNew(t, a, i, k, b) IN u = State(u.vol, u.ind, u.size)
  <2> SUFFICES ASSUME NEW t, t = State(t.vol, t.ind, t.size), NEW a, NEW b
               PROVE  LET u == EnterInNew(t, a, i, k, b) IN u = State(u.vol, u.ind, u.size)
    OBVIOUS
  <2>1. CASE a.ret = 0
    <3>1. [t EXCEPT !.vol = FreeEach(@, {b})] = State(FreeEach(t.vol, {b}), t.ind, t.size)
      BY DEF State
    <3>2. EnterInNew(t, a, i, k, b) = State(FreeEach(t.vol, {b}), t.ind, t.size)
      BY <2>1, <3>1 DEF EnterInNew
    <3> QED BY <3>2, StateFields
  <2>2. CASE a.ret # 0
    <3> DEFINE t2 == [Took(t, a) EXCEPT !.ind[i] = a.ret]
    <3>1. t2 = State(t2.vol, t2.ind, t2.size)
      BY <1>1 DEF State
    <3>2. EnterInNew(t, a, i, k, b) = Enter(t2, i, k, b)
      BY <2>2 DEF EnterInNew
    <3> HIDE DEF t2
    <3> QED BY <1>2, <3>1, <3>2
  <2> QED BY <2>1, <2>2
<1>4. \A t : t = State(t.vol, t.ind, t.size) =>
        \A b : LET u == AttachNew(t, i, k, b) IN u = State(u.vol, u.ind, u.size)
  <2> SUFFICES ASSUME NEW t, t = State(t.vol, t.ind, t.size), NEW b
               PROVE  LET u == AttachNew(t, i, k, b) IN u = State(u.vol, u.ind, u.size)
    OBVIOUS
  <2>1. CASE k < NDirect
    <3>1. [t EXCEPT !.vol = set_inode_block(@, i, k, b)]
            = State(set_inode_block(t.vol, i, k, b), t.ind, t.size)
      BY DEF State
    <3>2. AttachNew(t, i, k, b) = State(set_inode_block(t.vol, i, k, b), t.ind, t.size)
      BY <2>1, <3>1 DEF AttachNew
    <3> QED BY <3>2, StateFields
  <2>2. CASE ~(k < NDirect)
    BY <1>2, <1>3, <2>2 DEF AttachNew
  <2> QED BY <2>1, <2>2
<1> DEFINE w == WithBlock(s, i, k)
<1>5. w = State(w.vol, w.ind, w.size)
  BY <1>1, <1>4 DEF WithBlock, GiveBlock
<1>6. write_block_of_file(s, i, k, d) = PutTextAt(w, i, k, d)
  BY DEF write_block_of_file
<1> HIDE DEF w
<1>7. PutTextAt(w, i, k, d).ind = w.ind
  BY <1>5 DEF PutTextAt, PutText, State
<1> QED BY <1>6, <1>7 DEF w

LEMMA WriteGood ==
  ASSUME Good(Here), NEW i, is_regular_file(vol, i), NEW k \in AllIndex, k <= size[i],
         NEW d \in Data, ~TakesLeftovers(write_block_of_file(Here, i, k, d))
  PROVE  Good(write_block_of_file(Here, i, k, d))
<1> DEFINE w == WithBlock(Here, i, k)
<1>1. /\ Here.vol = vol /\ Here.ind = ind /\ Here.size = size
      /\ Here = State(Here.vol, Here.ind, Here.size) /\ FreeUntyped(vol)
  BY HereIs DEF Good
<1>2. i \in Inodes /\ i \in vol.imap
  BY <1>1 DEF is_regular_file, IsType, FreeUntyped
<1>3. write_block_of_file(Here, i, k, d) = PutTextAt(w, i, k, d)
  BY DEF write_block_of_file
<1>4. write_block_of_file(Here, i, k, d).ind = w.ind
  BY <1>1, StatesStay
<1>5. \A j \in Inodes : Here.ind[j] = 0 /\ w.ind[j] # 0 => Here.vol.blk[w.ind[j]] = ZeroBlock
  BY <1>1, <1>4 DEF TakesLeftovers
<1>6. Good(w) /\ w.size = Here.size /\ w.vol.imap = Here.vol.imap
  BY <1>2, <1>5, WithBlockOK
<1> HIDE DEF w
<1>7. i \in w.vol.imap /\ k <= w.size[i]
  BY <1>1, <1>2, <1>6
<1>8. Good(PutTextAt(w, i, k, d))
  BY <1>6, <1>7, PutTextOK
<1> QED BY <1>3, <1>8

LEMMA InitGood == Init => IInv
<1> SUFFICES ASSUME Init PROVE Good(Here)
  BY DEF IInv
<1> DEFINE v == FormattedVolume
<1>1. vol = v /\ ind = [i \in Inodes |-> 0] /\ size = [i \in Inodes |-> 0]
  BY DEF Init
<1>2. VolOK(v)
  BY FormattedVolumeOK
<1>3. FreeUntyped(v) /\ \A i \in Inodes : v.itab[i].type = "reg" => i \notin v.imap
  <2>1. /\ v.imap = {1, RootIno}
        /\ \A i \in Inodes : i # RootIno => v.itab[i] = ZeroInode
        /\ RootIno \in Inodes => v.itab[RootIno].type = "dir"
    BY DEF FormattedVolume, MountCounters, NewInode
  <2>2. ZeroInode.type = "none"
    BY DEF ZeroInode, NewInode
  <2> QED BY <2>1, <2>2 DEF FreeUntyped
<1> HIDE DEF v
<1>4. Here.vol = v /\ Here.ind = ind /\ Here.size = size /\ Here = State(Here.vol, Here.ind, Here.size)
  BY <1>1, StateFields DEF Here
<1>5. /\ \A i \in Inodes : Here.ind[i] = 0 /\ Here.size[i] = 0
      /\ Here.ind \in [Inodes -> 0 .. BitmapBits] /\ Here.size \in [Inodes -> Sizes]
  BY <1>1, <1>4, VolumeAssumption DEF Sizes
<1> HIDE DEF Here
<1>6. \A i \in Inodes, x \in Spot : At(Here, i, x) = 0
  BY <1>5 DEF At
<1>7. Apart(Here) /\ Reads(Here)
  BY <1>5, <1>6 DEF Apart, Reads
<1>8. v.imap \subseteq Inodes
  BY <1>2 DEF VolOK, Volumes
<1>9. Whole(Here)
  BY <1>3, <1>4, <1>8 DEF Whole
<1> QED BY <1>2, <1>3, <1>4, <1>5, <1>7, <1>9 DEF Good

LEMMA BecomesGood ==
  ASSUME NEW s, Good(s), Become(s)
  PROVE  IInv'
<1>1. s = State(s.vol, s.ind, s.size)
  BY DEF Good
<1>2. Here' = State(vol', ind', size')
  BY DEF Here
<1>3. Here' = s
  BY <1>1, <1>2 DEF Become
<1> QED BY <1>3 DEF IInv

LEMMA StepGood == IInv /\ [Next]_vars => IInv'
<1> SUFFICES ASSUME IInv, [Next]_vars, ~leftovers' PROVE IInv'
  BY DEF IInv
<1>1. CASE vars' = vars
  BY <1>1 DEF vars, IInv, Here, State
<1>2. CASE \E n \in Names : Create(n) \/ Delete(n) \/ Mkdir(n) \/ Rmdir(n)
  <2> PICK n \in Names : Create(n) \/ Delete(n) \/ Mkdir(n) \/ Rmdir(n)
    BY <1>2
  <2>1. Good(Here)
    BY DEF IInv, Create, Delete, Mkdir, Rmdir
  <2>2. CASE Create(n)
    BY <2>1, <2>2, CreateGood, BecomesGood DEF Create
  <2>3. CASE Delete(n)
    <3> DEFINE s == State(remove_directory_entry(vol, RootIno, n).vol, ind, size)
               t == delete_file(s, NodeOf(n))
    <3>1. NodeOf(n) \in Inodes /\ Become(t)
      BY <2>3 DEF Delete, is_regular_file, IsType
    <3>2. Good(s)
      BY <2>1, EntryGoneGood
    <3> HIDE DEF s
    <3>3. Good(t)
      BY <3>1, <3>2, DeleteFileGood
    <3> HIDE DEF t
    <3> QED BY <3>1, <3>3, BecomesGood
  <2>4. CASE Mkdir(n)
    BY <2>1, <2>4, MkdirGood, BecomesGood DEF Mkdir
  <2>5. CASE Rmdir(n)
    BY <2>1, <2>5, RmdirGood, BecomesGood DEF Rmdir
  <2> QED BY <2>2, <2>3, <2>4, <2>5
<1>3. CASE \E n \in Names, k \in AllIndex, d \in Data : Write(n, k, d)
  <2> PICK n \in Names, k \in AllIndex, d \in Data : Write(n, k, d)
    BY <1>3
  <2> DEFINE i == NodeOf(n)
             s == write_block_of_file(Here, i, k, d)
  <2>1. /\ is_regular_file(vol, i) /\ k <= size[i] /\ Become(s)
        /\ leftovers' = (leftovers \/ TakesLeftovers(s))
    BY DEF Write, Here
  <2>2. Good(Here) /\ ~TakesLeftovers(s)
    BY <2>1 DEF IInv
  <2> HIDE DEF i
  <2>3. Good(s)
    BY <2>1, <2>2, WriteGood
  <2> HIDE DEF s
  <2> QED BY <2>1, <2>3, BecomesGood
<1> QED BY <1>1, <1>2, <1>3 DEF Next

----------------------------------------------------------------------------
(* The theorems *)

\* What a place names: a direct pointer or a spot.
LEMMA PlacesAre ==
  ASSUME Good(Here), NEW p \in Place
  PROVE  /\ p[1] \in Inodes /\ p[2] \in AllIndex \cup {-1}
         /\ \/ p[2] \in Index /\ NamedAt(p) = vol.itab[p[1]].ptr[p[2]]
            \/ p[2] \notin Index /\ p[2] = -1 /\ NamedAt(p) = At(Here, p[1], 0)
            \/ /\ p[2] \notin Index /\ p[2] # -1 /\ p[2] - NDirect + 1 \in Slot
               /\ NamedAt(p) = At(Here, p[1], p[2] - NDirect + 1)
<1> DEFINE i == p[1]
           k == p[2]
<1>1. i \in Inodes /\ k \in AllIndex \cup {-1}
  BY DEF Place
<1>2. Here.vol = vol /\ Here.ind = ind
  BY HereIs
<1>3. NamedAt(p) = IF k = -1 THEN ind[i] ELSE BlockAtIndex(Here, i, k)
  BY DEF NamedAt, Here
<1> HIDE DEF i, k
<1>4. CASE k = -1
  <2>1. NamedAt(p) = ind[i] /\ At(Here, i, 0) = ind[i]
    BY <1>2, <1>3, <1>4 DEF At
  <2>2. k \notin Index
    BY <1>4, VolumeAssumption DEF Index
  <2> QED BY <1>1, <1>4, <2>1, <2>2 DEF i, k
<1>5. CASE k # -1 /\ k < NDirect
  <2>1. k \in Index
    BY <1>1, <1>5, VolumeAssumption DEF AllIndex, Index
  <2>2. BlockAtIndex(Here, i, k) = vol.itab[i].ptr[k]
    BY <1>2, <1>5 DEF BlockAtIndex, get_inode_block
  <2> QED BY <1>1, <1>3, <1>5, <2>1, <2>2 DEF i, k
<1>6. CASE k # -1 /\ k >= NDirect
  <2>1. k \in AllIndex /\ k \notin Index
    BY <1>1, <1>6, VolumeAssumption DEF Index
  <2>2. k - NDirect + 1 \in Slot /\ BlockAtIndex(Here, i, k) = At(Here, i, k - NDirect + 1)
    BY <1>1, <1>6, <2>1, IndexIsSpot DEF Good
  <2> QED BY <1>1, <1>3, <1>6, <2>1, <2>2 DEF i, k
<1>7. k = -1 \/ k < NDirect \/ k >= NDirect
  BY <1>1, VolumeAssumption DEF AllIndex
<1> QED BY <1>4, <1>5, <1>6, <1>7

LEMMA PlacesNameOnce ==
  ASSUME Good(Here), NEW p \in Places
  PROVE  /\ NamedAt(p) \in vol.bmap /\ NamedAt(p) > Reserved
         /\ \A q \in Places : NamedAt(p) = NamedAt(q) => p = q
<1>1. VolOK(vol) /\ Owned(vol) /\ Apart(Here) /\ Here.vol = vol
  BY HereIs DEF Good, VolOK
<1>2. \A x \in Slot : x \in Spot /\ x # 0
  BY SpotsAre
<1>3. 0 \in Spot
  BY SpotsAre
<1> DEFINE Direct(q) == q[2] \in Index /\ NamedAt(q) = vol.itab[q[1]].ptr[q[2]]
           Spotted(q, x) == q[2] \notin Index /\ NamedAt(q) = At(Here, q[1], x)
<1>4. ASSUME NEW q \in Places
      PROVE  /\ q[1] \in Inodes /\ q = <<q[1], q[2]>> /\ NamedAt(q) # 0
             /\ \/ Direct(q)
                \/ q[2] = -1 /\ Spotted(q, 0)
                \/ q[2] # -1 /\ q[2] - NDirect + 1 \in Slot /\ Spotted(q, q[2] - NDirect + 1)
             /\ q[2] \in AllIndex \cup {-1}
  <2>1. q \in Place /\ NamedAt(q) # 0
    BY DEF Places
  <2>2. q = <<q[1], q[2]>>
    BY <2>1 DEF Place
  <2> QED BY <2>1, <2>2, PlacesAre
<1>5. \A q \in Places : Direct(q) => NamedAt(q) \in vol.bmap /\ NamedAt(q) > Reserved
  BY <1>1, <1>4 DEF Owned
<1>6. \A q \in Places, x \in Spot : Spotted(q, x) =>
        NamedAt(q) \in Unnamed(vol) /\ NamedAt(q) > Reserved
  BY <1>1, <1>4 DEF Apart
<1>7. NamedAt(p) \in vol.bmap /\ NamedAt(p) > Reserved
  BY <1>2, <1>3, <1>4, <1>5, <1>6 DEF Unnamed
<1>8. ASSUME NEW q \in Places, NamedAt(p) = NamedAt(q) PROVE p = q
  <2>1. CASE Direct(p) /\ Direct(q)
    <3>1. /\ p[1] \in Inodes /\ q[1] \in Inodes /\ p[2] \in Index /\ q[2] \in Index
          /\ vol.itab[p[1]].ptr[p[2]] # 0
          /\ vol.itab[p[1]].ptr[p[2]] = vol.itab[q[1]].ptr[q[2]]
      BY <1>4, <1>8, <2>1
    <3>2. \A l \in Index : vol.itab[p[1]].ptr[p[2]] = vol.itab[q[1]].ptr[l] =>
            p[1] = q[1] /\ p[2] = l
      BY <1>1, <3>1 DEF Owned
    <3>3. p[1] = q[1] /\ p[2] = q[2]
      BY <3>1, <3>2
    <3> QED BY <1>4, <3>3
  <2>2. \A x \in Spot : ~(Direct(p) /\ Spotted(q, x)) /\ ~(Spotted(p, x) /\ Direct(q))
    <3>1. Direct(p) => NamedAt(p) \notin Unnamed(vol)
      BY <1>4 DEF Unnamed
    <3>2. Direct(q) => NamedAt(q) \notin Unnamed(vol)
      BY <1>4 DEF Unnamed
    <3> HIDE DEF Direct, Spotted
    <3> QED BY <1>6, <1>8, <3>1, <3>2
  <2>3. ASSUME NEW x \in Spot, NEW y \in Spot, Spotted(p, x), Spotted(q, y)
        PROVE  p[1] = q[1] /\ x = y
    <3>1. At(Here, p[1], x) # 0 /\ At(Here, p[1], x) = At(Here, q[1], y)
      BY <1>4, <1>8, <2>3
    <3>2. p[1] \in Inodes /\ q[1] \in Inodes
      BY <1>4
    <3>3. \A z \in Spot : At(Here, p[1], x) = At(Here, q[1], z) => p[1] = q[1] /\ x = z
      BY <1>1, <3>1, <3>2 DEF Apart
    <3> QED BY <3>1, <3>3
  <2> HIDE DEF Direct, Spotted
  <2>4. CASE ~Direct(p) /\ ~Direct(q)
    <3>1. PICK x \in Spot : /\ Spotted(p, x)
                            /\ \/ p[2] = -1 /\ x = 0
                               \/ p[2] # -1 /\ x = p[2] - NDirect + 1 /\ x # 0
      BY <1>2, <1>3, <1>4, <2>4
    <3>2. PICK y \in Spot : /\ Spotted(q, y)
                            /\ \/ q[2] = -1 /\ y = 0
                               \/ q[2] # -1 /\ y = q[2] - NDirect + 1 /\ y # 0
      BY <1>2, <1>3, <1>4, <2>4
    <3>3. p[1] = q[1] /\ x = y
      BY <2>3, <3>1, <3>2
    <3>4. p[2] \in Int /\ q[2] \in Int
      BY <1>4, VolumeAssumption DEF AllIndex
    <3>5. p[2] = q[2]
      BY <3>1, <3>2, <3>3, <3>4, VolumeAssumption
    <3> QED BY <1>4, <3>3, <3>5
  <2> QED BY <1>2, <1>3, <1>4, <2>1, <2>2, <2>4
<1> QED BY <1>7, <1>8

LEMMA OwnersApart == IInv => OneOwnerUnlessLeftovers
<1> SUFFICES ASSUME Good(Here)
             PROVE  /\ \A p \in Places : NamedAt(p) \in vol.bmap /\ NamedAt(p) > Reserved
                    /\ \A p, q \in Places : NamedAt(p) = NamedAt(q) => p = q
  BY DEF IInv, OneOwnerUnlessLeftovers
<1> QED BY PlacesNameOnce

LEMMA FilesWhole == IInv => NoHolesUnlessLeftovers
<1> SUFFICES ASSUME Good(Here), NEW i \in Files, NEW k \in 0 .. size[i] - 1
             PROVE  BlockAtIndex(Here, i, k) \in 1 .. vol.end - 1
  BY DEF IInv, NoHolesUnlessLeftovers, Here
<1>1. Here.vol = vol /\ Here.size = size /\ Whole(Here)
  BY HereIs DEF Good
<1>2. i \in vol.imap /\ vol.itab[i].type = "reg"
  BY DEF Files, is_regular_file, IsType
<1> QED BY <1>1, <1>2 DEF Whole

\* As long as every indirect block was zero when taken, each block has one owner
\* (inode.c:105-182, 267-285): write_inode_data takes the block before
\* set_inode_block takes the indirect one, and either may fail.
THEOREM IndirectOneOwner == Spec => []OneOwnerUnlessLeftovers
<1> QED BY InitGood, StepGood, OwnersApart, PTL DEF Spec

\* As long as every indirect block was zero when taken, each block of a file
\* below its size is there and can be read (inode.c:62-103, 267-302).
THEOREM IndirectNoHoles == Spec => []NoHolesUnlessLeftovers
<1> QED BY InitGood, StepGood, FilesWhole, PTL DEF Spec
----------------------------------------------------------------------------
(* Types, also where an indirect block came with leftovers: whatever words   *)
(* count as block numbers then, only blocks of the image are freed or written. *)

TypedState(s) ==
  /\ s = State(s.vol, s.ind, s.size)
  /\ Typed(s.vol)
  /\ s.ind \in [Inodes -> 0 .. BitmapBits]
  /\ s.size \in [Inodes -> Sizes]

\* A state with other fields.
LEMMA StateTyped ==
  ASSUME NEW v, Typed(v), NEW in \in [Inodes -> 0 .. BitmapBits], NEW sz \in [Inodes -> Sizes]
  PROVE  TypedState(State(v, in, sz))
<1> DEFINE s == State(v, in, sz)
<1>1. s.vol = v /\ s.ind = in /\ s.size = sz /\ s = State(s.vol, s.ind, s.size)
  BY StateFields
<1> HIDE DEF s
<1>2. TypedState(s)
  BY <1>1 DEF TypedState
<1> QED BY <1>2 DEF s

LEMMA VolumeTyped ==
  ASSUME NEW s, TypedState(s), NEW v, Typed(v)
  PROVE  TypedState([s EXCEPT !.vol = v])
<1>1. [s EXCEPT !.vol = v] = State(v, s.ind, s.size)
  BY DEF TypedState, State
<1> QED BY <1>1, StateTyped DEF TypedState

LEMMA PointerTyped ==
  ASSUME NEW s, TypedState(s), NEW v, Typed(v), NEW i \in Inodes, NEW b \in 0 .. BitmapBits
  PROVE  TypedState([s EXCEPT !.vol = v, !.ind[i] = b])
<1> DEFINE in == [s.ind EXCEPT ![i] = b]
<1>1. in \in [Inodes -> 0 .. BitmapBits]
  BY DEF TypedState
<1>2. s = State(s.vol, s.ind, s.size)
  BY DEF TypedState
<1>3. [s EXCEPT !.vol = v, !.ind[i] = b] = [s EXCEPT !.vol = v, !.ind = in]
  OBVIOUS
<1> HIDE DEF in
<1>4. [s EXCEPT !.vol = v, !.ind = in] = State(v, in, s.size)
  <2>1. PICK w, p, z : s = State(w, p, z)
    BY <1>2
  <2>2. s.ind = p /\ s.size = z
    BY <2>1, StateFields
  <2>3. [State(w, p, z) EXCEPT !.vol = v, !.ind = in] = [[State(w, p, z) EXCEPT !.vol = v] EXCEPT !.ind = in]
    OBVIOUS
  <2>4. [State(w, p, z) EXCEPT !.vol = v] = State(v, p, z)
    BY DEF State
  <2>5. [State(v, p, z) EXCEPT !.ind = in] = State(v, in, z)
    BY DEF State
  <2> QED BY <2>1, <2>2, <2>3, <2>4, <2>5
<1>5. TypedState(State(v, in, s.size))
  BY <1>1, StateTyped DEF TypedState
<1> QED BY <1>3, <1>4, <1>5

LEMMA SizeTyped ==
  ASSUME NEW s, TypedState(s), NEW v, Typed(v), NEW i \in Inodes, NEW n \in Sizes
  PROVE  TypedState([s EXCEPT !.vol = v, !.size[i] = n])
<1> DEFINE sz == [s.size EXCEPT ![i] = n]
<1>1. sz \in [Inodes -> Sizes]
  BY DEF TypedState
<1>2. s = State(s.vol, s.ind, s.size)
  BY DEF TypedState
<1>3. [s EXCEPT !.vol = v, !.size[i] = n] = [s EXCEPT !.vol = v, !.size = sz]
  OBVIOUS
<1> HIDE DEF sz
<1>4. [s EXCEPT !.vol = v, !.size = sz] = State(v, s.ind, sz)
  <2>1. PICK w, p, z : s = State(w, p, z)
    BY <1>2
  <2>2. s.ind = p /\ s.size = z
    BY <2>1, StateFields
  <2>3. [State(w, p, z) EXCEPT !.vol = v, !.size = sz] = [[State(w, p, z) EXCEPT !.vol = v] EXCEPT !.size = sz]
    OBVIOUS
  <2>4. [State(w, p, z) EXCEPT !.vol = v] = State(v, p, z)
    BY DEF State
  <2>5. [State(v, p, z) EXCEPT !.size = sz] = State(v, p, sz)
    BY DEF State
  <2> QED BY <2>1, <2>2, <2>3, <2>4, <2>5
<1>5. TypedState(State(v, s.ind, sz))
  BY <1>1, StateTyped DEF TypedState
<1> QED BY <1>3, <1>4, <1>5

LEMMA FreeEachTyped ==
  ASSUME NEW v, Typed(v), NEW bs
  PROVE  Typed(FreeEach(v, bs))
<1> DEFINE freed == bs \cap 1 .. MaxBlocks
           n     == (v.bfree + Cardinality(freed)) % CountMod
           u     == [v EXCEPT !.bmap = @ \ freed, !.bfree = n]
<1>1. n \in Nat
  <2>1. IsFiniteSet(1 .. MaxBlocks)
    BY FS_Interval, VolumeAssumption
  <2>2. Cardinality(freed) \in Nat
    BY <2>1, FS_Subset, FS_CardinalityType
  <2> HIDE DEF freed
  <2> QED BY <2>2, ModType, VolumeAssumption DEF Typed, Volumes
<1>2. FreeEach(v, bs) = u
  BY DEF FreeEach
<1> HIDE DEF freed, n
<1>3. Typed(u)
  BY <1>1 DEF Typed, Volumes
<1> QED BY <1>2, <1>3

LEMMA FreeIndirectTyped ==
  ASSUME NEW v, Typed(v), NEW b
  PROVE  Typed(FreeIndirect(v, b))
BY FreeEachTyped DEF FreeIndirect

LEMMA DeleteFileTyped ==
  ASSUME NEW s, TypedState(s), NEW i \in Inodes
  PROVE  TypedState(delete_file(s, i))
<1> DEFINE v == delete_inode(FreeIndirect(s.vol, s.ind[i]), i)
           t == [s EXCEPT !.vol = v, !.ind[i] = 0]
           u == [t EXCEPT !.vol = v, !.size[i] = 0]
<1>1. Typed(v)
  BY FreeIndirectTyped, DeleteInodeTyped DEF TypedState
<1>2. 0 \in 0 .. BitmapBits /\ 0 \in Sizes
  BY VolumeAssumption DEF Sizes
<1>3. delete_file(s, i) = [s EXCEPT !.vol = v, !.ind[i] = 0, !.size[i] = 0]
  BY DEF delete_file
<1> HIDE DEF v
<1>4. [s EXCEPT !.vol = v, !.ind[i] = 0, !.size[i] = 0] = u
  BY DEF TypedState, State
<1>5. TypedState(t)
  BY <1>1, <1>2, PointerTyped
<1> HIDE DEF t
<1>6. TypedState(u)
  BY <1>1, <1>2, <1>5, SizeTyped
<1> QED BY <1>3, <1>4, <1>6

LEMMA NumberType == ASSUME NEW w \in Word PROVE NumberIn(w) \in Nat
BY VolumeAssumption DEF Word, NumberIn, Zero, Blocks, Beyond

\* What can be read at an index is a block of the image.
LEMMA ReadIsBlock ==
  ASSUME NEW s, TypedState(s), NEW i \in Inodes, NEW k \in AllIndex,
         NEW b, b = BlockAtIndex(s, i, k), ~ (b <= 0 \/ ~Readable(s.vol, b))
  PROVE  b \in Blocks
<1>1. b \in Nat \cup {-1}
  <2>1. CASE k < NDirect
    <3>1. k \in Index
      BY <2>1, VolumeAssumption DEF AllIndex, Index
    <3>2. s.vol.itab[i].ptr[k] \in 0 .. BitmapBits
      BY <3>1 DEF TypedState, Typed, Volumes, Inode
    <3> QED BY <2>1, <3>2 DEF BlockAtIndex, get_inode_block
  <2>2. CASE ~ (k < NDirect) /\ s.ind[i] # 0
    <3>1. k - NDirect + 1 \in Slot
      BY <2>2, VolumeAssumption DEF AllIndex, Slot
    <3>2. s.ind[i] \in Blocks
      BY <2>2, VolumeAssumption DEF TypedState, Blocks
    <3>3. s.vol.blk[s.ind[i]][k - NDirect + 1] \in Word
      BY <3>1, <3>2 DEF TypedState, Typed, Volumes
    <3>4. NumberIn(s.vol.blk[s.ind[i]][k - NDirect + 1]) \in Nat
      BY <3>3, NumberType
    <3> QED BY <2>2, <3>4 DEF BlockAtIndex
  <2>3. CASE ~ (k < NDirect) /\ s.ind[i] = 0
    BY <2>3 DEF BlockAtIndex
  <2> QED BY <2>1, <2>2, <2>3
<1> QED BY <1>1, VolumeAssumption DEF TypedState, Typed, Volumes, Readable, Blocks

LEMMA EnterTyped ==
  ASSUME NEW s, TypedState(s), NEW i \in Inodes, NEW k \in AllIndex, ~ (k < NDirect),
         NEW b \in Blocks, s.ind[i] # 0
  PROVE  TypedState(Enter(s, i, k, b))
<1> DEFINE words == IF Readable(s.vol, s.ind[i]) THEN s.vol.blk[s.ind[i]] ELSE ZeroBlock
           new   == [words EXCEPT ![k - NDirect + 1] = BlockNo(b)]
           v     == write_block(s.vol, s.ind[i], new)
<1>1. s.ind[i] \in Blocks
  BY VolumeAssumption DEF TypedState, Blocks
<1>2. words \in [Slot -> Word]
  <2>1. ZeroBlock \in [Slot -> Word]
    BY DEF ZeroBlock, Word
  <2>2. s.vol.blk[s.ind[i]] \in [Slot -> Word]
    BY <1>1 DEF TypedState, Typed, Volumes
  <2> QED BY <2>1, <2>2
<1>3. Enter(s, i, k, b) = [s EXCEPT !.vol = v]
  BY DEF Enter
<1> HIDE DEF words
<1>4. BlockNo(b) \in Word
  BY DEF BlockNo, Word
<1>5. new \in [Slot -> Word]
  BY <1>2, <1>4
<1> HIDE DEF new
<1>6. Typed(v)
  BY <1>1, <1>5, WriteBlockTyped DEF TypedState
<1> HIDE DEF v
<1> QED BY <1>3, <1>6, VolumeTyped

LEMMA EnterInNewTyped ==
  ASSUME NEW s, TypedState(s), NEW i \in Inodes, NEW k \in AllIndex, ~ (k < NDirect),
         NEW b \in Blocks
  PROVE  TypedState(EnterInNew(s, allocate_block(s.vol), i, k, b))
<1> DEFINE a == allocate_block(s.vol)
           t == [s EXCEPT !.vol = a.vol, !.ind[i] = a.ret]
<1>1. Typed(a.vol) /\ a.ret \in 0 .. BitmapBits
  BY AllocateBlockTyped DEF TypedState
<1> HIDE DEF a
<1>2. CASE a.ret = 0
  <2>1. Typed(FreeEach(s.vol, {b}))
    BY FreeEachTyped DEF TypedState
  <2>2. TypedState([s EXCEPT !.vol = FreeEach(s.vol, {b})])
    BY <2>1, VolumeTyped
  <2> QED BY <1>2, <2>2 DEF EnterInNew, a
<1>3. CASE a.ret # 0
  <2>1. TypedState(t)
    BY <1>1, PointerTyped
  <2>2. t.ind[i] = a.ret
    BY DEF TypedState, State
  <2>3. [Took(s, a) EXCEPT !.ind[i] = a.ret] = t
    BY DEF Took, TypedState, State
  <2>4. EnterInNew(s, a, i, k, b) = Enter(t, i, k, b)
    BY <1>3, <2>3 DEF EnterInNew
  <2> HIDE DEF t
  <2> QED BY <1>3, <2>1, <2>2, <2>4, EnterTyped DEF a
<1> QED BY <1>2, <1>3

LEMMA WithBlockTyped ==
  ASSUME NEW s, TypedState(s), NEW i \in Inodes, NEW k \in AllIndex
  PROVE  TypedState(WithBlock(s, i, k))
<1> DEFINE a == allocate_block(s.vol)
           t == [s EXCEPT !.vol = a.vol]
           u == set_inode_block(t.vol, i, k, a.ret)
<1>1. Typed(a.vol) /\ a.ret \in 0 .. BitmapBits
  BY AllocateBlockTyped DEF TypedState
<1>2. WithBlock(s, i, k) = s \/ (a.ret # 0 /\ WithBlock(s, i, k) = AttachNew(t, i, k, a.ret))
  BY DEF WithBlock, GiveBlock, Took
<1> HIDE DEF a
<1>3. TypedState(t)
  BY <1>1, VolumeTyped
<1> HIDE DEF t
<1>4. ASSUME a.ret # 0 PROVE TypedState(AttachNew(t, i, k, a.ret))
  <2>1. a.ret \in Blocks
    BY <1>1, <1>4, VolumeAssumption DEF Blocks
  <2>2. CASE k < NDirect
    <3>1. k \in Index
      BY <2>2, VolumeAssumption DEF AllIndex, Index
    <3>2. Typed(u)
      BY <1>1, <1>3, <3>1, AttachTyped DEF TypedState
    <3>3. AttachNew(t, i, k, a.ret) = [t EXCEPT !.vol = u]
      BY <2>2 DEF AttachNew
    <3> HIDE DEF u
    <3> QED BY <1>3, <3>2, <3>3, VolumeTyped
  <2>3. CASE ~ (k < NDirect) /\ t.ind[i] = 0
    <3>1. AttachNew(t, i, k, a.ret) = EnterInNew(t, allocate_block(t.vol), i, k, a.ret)
      BY <2>3 DEF AttachNew
    <3> QED BY <1>3, <2>1, <2>3, <3>1, EnterInNewTyped
  <2>4. CASE ~ (k < NDirect) /\ t.ind[i] # 0
    <3>1. AttachNew(t, i, k, a.ret) = Enter(t, i, k, a.ret)
      BY <2>4 DEF AttachNew
    <3> QED BY <1>3, <2>1, <2>4, <3>1, EnterTyped
  <2> QED BY <2>2, <2>3, <2>4
<1> QED BY <1>2, <1>4

LEMMA WriteTyped ==
  ASSUME NEW s, TypedState(s), NEW i \in Inodes, NEW k \in AllIndex, NEW d \in Data
  PROVE  TypedState(write_block_of_file(s, i, k, d))
<1> DEFINE t     == WithBlock(s, i, k)
           b     == BlockAtIndex(t, i, k)
           words == [x \in Slot |-> Text(d)]
           v     == write_block(t.vol, b, words)
           n     == Max({t.size[i], k + 1})
<1>1. TypedState(t)
  BY WithBlockTyped
<1>2. write_block_of_file(s, i, k, d) =
        IF b <= 0 \/ ~Readable(t.vol, b) THEN t ELSE [t EXCEPT !.vol = v, !.size[i] = Max({@, k + 1})]
  BY DEF write_block_of_file, PutTextAt, PutText
<1> HIDE DEF t
<1>3. CASE b <= 0 \/ ~Readable(t.vol, b)
  BY <1>1, <1>2, <1>3
<1>4. CASE ~ (b <= 0 \/ ~Readable(t.vol, b))
  <2>1. b \in Blocks
    BY <1>1, <1>4, ReadIsBlock
  <2>2. words \in [Slot -> Word]
    BY DEF Text, Word
  <2> HIDE DEF b, words
  <2>3. Typed(v)
    BY <1>1, <2>1, <2>2, WriteBlockTyped DEF TypedState
  <2>4. n \in Sizes
    <3>1. t.size[i] \in Sizes
      BY <1>1 DEF TypedState
    <3>2. /\ t.size[i] \in Nat /\ t.size[i] <= NDirect + Slots
          /\ k + 1 \in Nat /\ k + 1 <= NDirect + Slots
      BY <3>1, VolumeAssumption DEF Sizes, AllIndex
    <3>3. n = IF t.size[i] <= k + 1 THEN k + 1 ELSE t.size[i]
      BY <3>2, MaxOfTwo
    <3> QED BY <3>2, <3>3, VolumeAssumption DEF Sizes
  <2>5. write_block_of_file(s, i, k, d) = [t EXCEPT !.vol = v, !.size[i] = n]
    BY <1>2, <1>4
  <2> HIDE DEF v, n
  <2>6. TypedState([t EXCEPT !.vol = v, !.size[i] = n])
    BY <1>1, <2>3, <2>4, SizeTyped
  <2> QED BY <2>5, <2>6
<1> QED BY <1>3, <1>4

----------------------------------------------------------------------------
TInv == TypedState(Here) /\ leftovers \in BOOLEAN

LEMMA TypedHere ==
  ASSUME TInv
  PROVE  /\ Here.vol = vol /\ Here.ind = ind /\ Here.size = size
         /\ Typed(vol) /\ ind \in [Inodes -> 0 .. BitmapBits] /\ size \in [Inodes -> Sizes]
BY StateFields DEF TInv, TypedState, Here

LEMMA ClearedTyped ==
  ASSUME TInv, NEW v, Typed(v)
  PROVE  TypedState(State(v, Cleared(ind), Cleared(size))) /\ TypedState(State(v, ind, size))
<1>1. 0 \in 0 .. BitmapBits /\ 0 \in Sizes
  BY VolumeAssumption DEF Sizes
<1>2. ind \in [Inodes -> 0 .. BitmapBits] /\ size \in [Inodes -> Sizes]
  BY TypedHere
<1>3. Cleared(ind) \in [Inodes -> 0 .. BitmapBits] /\ Cleared(size) \in [Inodes -> Sizes]
  BY <1>1, <1>2 DEF Cleared
<1> QED BY <1>2, <1>3, StateFields DEF TypedState

LEMMA TypesInit == Init => TInv
<1> SUFFICES ASSUME Init PROVE TInv
  OBVIOUS
<1>1. Typed(FormattedVolume)
  <2>1. FormattedVolume \in Volumes
    BY FormattedVolumeOK DEF VolOK
  <2>2. FormattedVolume.end = MaxBlocks
    BY DEF FormattedVolume, MountCounters
  <2> QED BY <2>1, <2>2, VolumeAssumption DEF Typed
<1>2. /\ [i \in Inodes |-> 0] \in [Inodes -> 0 .. BitmapBits]
      /\ [i \in Inodes |-> 0] \in [Inodes -> Sizes]
  BY VolumeAssumption DEF Sizes
<1>3. /\ Here.vol = FormattedVolume /\ Here.ind = [i \in Inodes |-> 0]
      /\ Here.size = [i \in Inodes |-> 0] /\ Here = State(Here.vol, Here.ind, Here.size)
  BY StateFields DEF Init, Here
<1>4. TypedState(Here)
  BY <1>1, <1>2, <1>3 DEF TypedState
<1> QED BY <1>4 DEF TInv, Init

LEMMA BecomesTyped ==
  ASSUME NEW s, TypedState(s), Become(s), leftovers' \in BOOLEAN PROVE TInv'
<1>1. s = State(s.vol, s.ind, s.size)
  BY DEF TypedState
<1>2. Here' = State(vol', ind', size')
  BY DEF Here
<1>3. Here' = s
  BY <1>1, <1>2 DEF Become
<1> QED BY <1>3 DEF TInv

LEMMA TypesStep == TInv /\ [Next]_vars => TInv'
<1> SUFFICES ASSUME TInv, [Next]_vars PROVE TInv'
  OBVIOUS
<1>1. CASE vars' = vars
  BY <1>1 DEF vars, TInv, Here, State
<1>2. Typed(vol) /\ leftovers \in BOOLEAN
  BY TypedHere DEF TInv
<1>3. ASSUME NEW n \in Names, Create(n) PROVE TInv'
  <2>1. Typed(NewFile(vol, RootIno, n))
    BY <1>2, NewFileTyped DEF AnyName
  <2> QED BY <1>2, <1>3, <2>1, ClearedTyped, BecomesTyped DEF Create
<1>4. ASSUME NEW n \in Names, Delete(n) PROVE TInv'
  <2> DEFINE s == State(remove_directory_entry(vol, RootIno, n).vol, ind, size)
             t == delete_file(s, NodeOf(n))
  <2>1. NodeOf(n) \in Inodes /\ Become(t) /\ leftovers' = leftovers
    BY <1>4 DEF Delete, is_regular_file, IsType
  <2>2. Typed(remove_directory_entry(vol, RootIno, n).vol)
    BY <1>2, RemoveEntryTyped
  <2>3. TypedState(s)
    BY <2>2, ClearedTyped
  <2> HIDE DEF s
  <2>4. TypedState(t)
    BY <2>1, <2>3, DeleteFileTyped
  <2> HIDE DEF t
  <2> QED BY <1>2, <2>1, <2>4, BecomesTyped
<1>5. ASSUME NEW n \in Names, Mkdir(n) PROVE TInv'
  <2>1. Typed(MakeDirectory(vol, RootIno, n).vol)
    BY <1>2, MakeDirectoryTyped DEF AnyName
  <2> QED BY <1>2, <1>5, <2>1, ClearedTyped, BecomesTyped DEF Mkdir
<1>6. ASSUME NEW n \in Names, Rmdir(n) PROVE TInv'
  <2>1. Typed(delete_directory(vol, RootIno, [abs |-> TRUE, comps |-> <<n>>]).vol)
    BY <1>2, DeleteDirectoryTyped
  <2> QED BY <1>2, <1>6, <2>1, ClearedTyped, BecomesTyped DEF Rmdir
<1>7. ASSUME NEW n \in Names, NEW k \in AllIndex, NEW d \in Data, Write(n, k, d) PROVE TInv'
  <2> DEFINE i == NodeOf(n)
             s == write_block_of_file(Here, i, k, d)
  <2>1. i \in Inodes /\ Become(s) /\ leftovers' = (leftovers \/ TakesLeftovers(s))
    BY <1>7 DEF Write, Here, is_regular_file, IsType
  <2> HIDE DEF i
  <2>2. TypedState(s)
    BY <2>1, WriteTyped DEF TInv
  <2> HIDE DEF s
  <2>3. leftovers' \in BOOLEAN
    BY <1>2, <2>1
  <2> QED BY <2>1, <2>2, <2>3, BecomesTyped
<1> QED BY <1>1, <1>3, <1>4, <1>5, <1>6, <1>7 DEF Next

\* Every variable has its type, also once leftovers count as block numbers: what
\* deletion and the write loop take from an indirect block (inode.c:62-182) reaches
\* no word beyond the bitmap and the image.
THEOREM IndirectTypes == Spec => []TypeOK
<1>1. TInv => TypeOK
  BY TypedHere DEF TypeOK, TInv, Typed, Sizes
<1> QED BY <1>1, TypesInit, TypesStep, PTL DEF Spec
=============================================================================
