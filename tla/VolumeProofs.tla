---------------------------- MODULE VolumeProofs ----------------------------
(***************************************************************************)
(* What the operations of modules Volume and Directory preserve: the type  *)
(* of the volume and the ownership of its blocks, for every size of table  *)
(* and bitmap and whatever entries, file text or leftovers the scanned     *)
(* blocks hold; what they leave alone; and what they count.  At the end,   *)
(* volumes that nothing was removed from, where names stay found.          *)
(***************************************************************************)
EXTENDS Directory, TLAPS, FiniteSetTheorems, WellFoundedInduction

\* Block ownership, over inode numbers and indices: a pointer that is not zero
\* names a marked block beyond the reserved ones, and no other pointer names it.
Owned(v) ==
  /\ 1 .. Reserved \subseteq v.bmap
  /\ \A i \in Inodes, k \in Index : v.itab[i].ptr[k] # 0 =>
       v.itab[i].ptr[k] \in v.bmap /\ v.itab[i].ptr[k] > Reserved
  /\ \A i, j \in Inodes, k, l \in Index :
       v.itab[i].ptr[k] # 0 /\ v.itab[i].ptr[k] = v.itab[j].ptr[l] => i = j /\ k = l

VolOK(v) == v \in Volumes /\ Owned(v)

LEMMA ModType == ASSUME NEW x \in Int, NEW m \in Nat \ {0} PROVE x % m \in Nat
  OBVIOUS

LEMMA MinIsLeast ==
  ASSUME NEW S, S \subseteq Nat, S # {}
  PROVE  Min(S) \in S /\ \A y \in S : Min(S) <= y
<1>1. PICK x \in S : \A y \in S : ~ (<<y, x>> \in OpToRel(<, Nat))
  BY NatLessThanWellFounded, WFMin
<1>2. \A y \in S : ~ (y < x)
  BY <1>1, Zenon DEF OpToRel
<1>3. \A y \in S : x <= y
  BY <1>2
<1> QED BY <1>3 DEF Min

LEMMA WriteBlockOK ==
  ASSUME NEW v, VolOK(v), NEW b \in Blocks, NEW w \in [Slot -> Word]
  PROVE  VolOK(write_block(v, b, w))
<1> DEFINE u == write_block(v, b, w)
<1>1. /\ v \in Volumes /\ u.bmap = v.bmap /\ u.imap = v.imap /\ u.itab = v.itab
      /\ u.bfree = v.bfree /\ u.ifree = v.ifree
      /\ u.blk = [v.blk EXCEPT ![b] = w] /\ u.end = IF b < v.end THEN v.end ELSE b + 1
  BY DEF VolOK, Volumes, write_block
<1>2. u.end \in Nat
  BY <1>1, VolumeAssumption DEF Volumes, Blocks
<1>3. u \in Volumes
  BY <1>1, <1>2 DEF Volumes, write_block
<1>4. Owned(u)
  BY <1>1 DEF VolOK, Owned
<1> QED BY <1>3, <1>4 DEF VolOK

LEMMA AllocateBlockOK ==
  ASSUME NEW v, VolOK(v)
  PROVE  LET a == allocate_block(v)
         IN  /\ VolOK(a.vol)
             /\ a.ret = 0 => a.vol = v
             /\ a.ret # 0 => /\ a.ret \in Blocks \ v.bmap /\ a.ret > Reserved
                             /\ a.vol.bmap = v.bmap \cup {a.ret}
             /\ a.vol.itab = v.itab /\ a.vol.imap = v.imap
             /\ a.vol.blk = v.blk /\ a.vol.end = v.end
<1> DEFINE free == Blocks \ v.bmap
<1>1. CASE free = {}
  BY <1>1 DEF allocate_block, Result
<1>2. CASE free # {}
  <2>1. Min(free) \in free
    BY <1>2, MinIsLeast DEF Blocks
  <2> DEFINE w == [v EXCEPT !.bmap = @ \cup {Min(free)}, !.bfree = (@ - 1) % CountMod]
  <2>2. allocate_block(v) = Result(w, Min(free))
    BY <1>2 DEF allocate_block
  <2>3. w \in Volumes
    <3>1. v \in Volumes /\ (v.bfree - 1) % CountMod \in Nat
      BY ModType, VolumeAssumption DEF VolOK, Volumes
    <3>2. v.bmap \cup {Min(free)} \in SUBSET Blocks
      BY <2>1, <3>1 DEF Volumes
    <3> QED BY <3>1, <3>2 DEF Volumes
  <2>4. Owned(w)
    BY DEF VolOK, Owned, Volumes
  <2>5. Min(free) \in Blocks /\ Min(free) > Reserved
    BY <2>1, VolumeAssumption DEF VolOK, Owned, Blocks
  <2>6. /\ w.bmap = v.bmap \cup {Min(free)} /\ w.itab = v.itab /\ w.imap = v.imap
        /\ w.blk = v.blk /\ w.end = v.end
    BY DEF VolOK, Volumes
  <2> HIDE DEF w
  <2>7. allocate_block(v).vol = w /\ allocate_block(v).ret = Min(free)
    BY <2>2 DEF Result
  <2> QED BY <2>1, <2>3, <2>4, <2>5, <2>6, <2>7 DEF VolOK, Blocks
<1> QED BY <1>1, <1>2

----------------------------------------------------------------------------
(* Inodes *)

\* Changing what an inode holds besides its pointers.
LEMMA InodeUpdateOK ==
  ASSUME NEW v, VolOK(v), NEW i \in Inodes, NEW t \in Inode, t.ptr = v.itab[i].ptr
  PROVE  VolOK([v EXCEPT !.itab[i] = t])
<1> DEFINE u == [v EXCEPT !.itab[i] = t]
<1>1. v \in Volumes /\ u.itab = [v.itab EXCEPT ![i] = t] /\ u.bmap = v.bmap
  BY DEF VolOK, Volumes
<1>2. u \in Volumes
  BY <1>1 DEF Volumes
<1>3. \A j \in Inodes : u.itab[j].ptr = v.itab[j].ptr
  BY <1>1 DEF Volumes
<1>4. Owned(u)
  BY <1>1, <1>3 DEF VolOK, Owned
<1> QED BY <1>2, <1>4 DEF VolOK

LEMMA LinkCountOK ==
  ASSUME NEW v, VolOK(v), NEW i
  PROVE  VolOK(increment_link_count(v, i)) /\ VolOK(decrement_link_count(v, i))
<1>1. CASE i \notin Inodes
  BY <1>1 DEF increment_link_count, decrement_link_count
<1>2. CASE i \in Inodes
  <2>1. v.itab[i] \in Inode
    BY <1>2 DEF VolOK, Volumes
  <2>2. ASSUME NEW n \in Nat
        PROVE  VolOK([v EXCEPT !.itab[i].links = n])
    <3>1. /\ [v.itab[i] EXCEPT !.links = n] \in Inode
          /\ [v.itab[i] EXCEPT !.links = n].ptr = v.itab[i].ptr
      BY <2>1 DEF Inode
    <3>2. VolOK([v EXCEPT !.itab[i] = [v.itab[i] EXCEPT !.links = n]])
      BY <1>2, <3>1, InodeUpdateOK
    <3>3. [v EXCEPT !.itab[i].links = n] = [v EXCEPT !.itab[i] = [v.itab[i] EXCEPT !.links = n]]
      OBVIOUS
    <3> QED BY <3>2, <3>3
  <2>3. /\ (v.itab[i].links + 1) % LinkMod \in Nat
        /\ (IF v.itab[i].links > 0 THEN v.itab[i].links - 1 ELSE 0) \in Nat
    BY <2>1, ModType, VolumeAssumption DEF Inode
  <2> QED BY <1>2, <2>2, <2>3 DEF increment_link_count, decrement_link_count
<1> QED BY <1>1, <1>2

LEMMA MaxFileWordsType == MaxFileWords \in Nat
  BY VolumeAssumption DEF MaxFileWords

LEMMA NewInodeType ==
  /\ NewInode("reg") \in Inode /\ NewInode("dir") \in Inode /\ ZeroInode \in Inode
  /\ \A t, k : k \in Index => NewInode(t).ptr[k] = 0 /\ ZeroInode.ptr[k] = 0
<1>1. 1 % LinkMod \in Nat /\ 0 \in 0 .. BitmapBits /\ 0 \in 0 .. MaxFileWords
  BY ModType, MaxFileWordsType, VolumeAssumption
<1> QED BY <1>1 DEF NewInode, ZeroInode, Inode

\* An inode table entry whose pointers are all zero owns nothing.
LEMMA FreshInodeOK ==
  ASSUME NEW v, VolOK(v), NEW i \in Inodes, NEW t \in Inode, \A k \in Index : t.ptr[k] = 0
  PROVE  VolOK([v EXCEPT !.itab[i] = t])
<1> DEFINE u == [v EXCEPT !.itab[i] = t]
<1>1. v \in Volumes /\ u.itab = [v.itab EXCEPT ![i] = t] /\ u.bmap = v.bmap
  BY DEF VolOK, Volumes
<1>2. u \in Volumes
  BY <1>1 DEF Volumes
<1>3. \A j \in Inodes, k \in Index :
        u.itab[j].ptr[k] = IF j = i THEN 0 ELSE v.itab[j].ptr[k]
  BY <1>1 DEF Volumes
<1>4. Owned(u)
  BY <1>1, <1>3 DEF VolOK, Owned
<1> QED BY <1>2, <1>4 DEF VolOK

LEMMA CreateInodeOK ==
  ASSUME NEW v, VolOK(v), NEW t \in {"reg", "dir"}
  PROVE  LET a == create_inode(v, t)
         IN  /\ VolOK(a.vol)
             /\ a.ret \in 1 .. MaxInodes
             /\ a.ret \in Inodes => \A k \in Index : a.vol.itab[a.ret].ptr[k] = 0
<1> DEFINE free == Inodes \ v.imap
<1>1. CASE free = {}
  <2>1. create_inode(v, t) = Result(v, Bad)
    BY <1>1 DEF create_inode, allocate_inode, Result
  <2> QED BY <2>1, VolumeAssumption DEF Result, Bad, Inodes
<1>2. CASE free # {}
  <2>1. Min(free) \in free
    BY <1>2, MinIsLeast DEF Inodes
  <2> DEFINE w == [v EXCEPT !.imap = @ \cup {Min(free)}, !.ifree = (@ - 1) % CountMod]
  <2>2. allocate_inode(v) = Result(w, Min(free))
    BY <1>2 DEF allocate_inode
  <2>3. w \in Volumes /\ w.bmap = v.bmap /\ w.itab = v.itab
    <3>1. v \in Volumes /\ (v.ifree - 1) % CountMod \in Nat
      BY ModType, VolumeAssumption DEF VolOK, Volumes
    <3>2. v.imap \cup {Min(free)} \in SUBSET Inodes
      BY <2>1, <3>1 DEF Volumes
    <3> QED BY <3>1, <3>2 DEF Volumes
  <2>4. VolOK(w)
    BY <2>3 DEF VolOK, Owned
  <2> HIDE DEF w
  <2> DEFINE u == [w EXCEPT !.itab[Min(free)] = NewInode(t)]
  <2>5. create_inode(v, t) = Result(u, Min(free))
    BY <2>1, <2>2, VolumeAssumption DEF create_inode, Result, Inodes, Bad
  <2>6. NewInode(t) \in Inode /\ \A k \in Index : NewInode(t).ptr[k] = 0
    BY NewInodeType
  <2>7. VolOK(u)
    BY <2>1, <2>4, <2>6, FreshInodeOK
  <2>8. u.itab = [w.itab EXCEPT ![Min(free)] = NewInode(t)]
    BY <2>3 DEF Volumes
  <2>9. u.itab[Min(free)] = NewInode(t)
    BY <2>1, <2>3, <2>8 DEF Volumes
  <2> HIDE DEF u
  <2>10. create_inode(v, t).vol = u /\ create_inode(v, t).ret = Min(free)
    BY <2>5 DEF Result
  <2>11. Min(free) \in 1 .. MaxInodes
    BY <2>1, VolumeAssumption DEF Inodes
  <2> QED BY <2>6, <2>7, <2>9, <2>10, <2>11
<1> QED BY <1>1, <1>2

\* delete_inode frees the blocks its pointers name, which no other inode's do.
LEMMA DeleteInodeOK ==
  ASSUME NEW v, VolOK(v), NEW i
  PROVE  VolOK(delete_inode(v, i))
<1>1. CASE i \notin Inodes
  BY <1>1 DEF delete_inode
<1>2. CASE i \in Inodes
  <2> DEFINE freed == {k \in Index : v.itab[i].ptr[k] \in 1 .. MaxBlocks}
             gone  == {v.itab[i].ptr[k] : k \in freed}
             u     == delete_inode(v, i)
  <2>1. v \in Volumes /\ Owned(v)
    BY DEF VolOK
  <2>2. Cardinality(freed) \in Nat
    <3>1. IsFiniteSet(Index)
      BY FS_Interval, VolumeAssumption DEF Index
    <3> QED BY <3>1, FS_Subset, FS_CardinalityType
  <2>3. /\ (v.bfree + Cardinality(freed)) % CountMod \in Nat
        /\ (v.ifree + 1) % CountMod \in Nat
    BY <2>1, <2>2, ModType, VolumeAssumption DEF Volumes
  <2>4. u = [bmap |-> v.bmap \ gone, imap |-> v.imap \ {i},
             itab |-> [v.itab EXCEPT ![i] = ZeroInode], blk |-> v.blk, end |-> v.end,
             bfree |-> (v.bfree + Cardinality(freed)) % CountMod,
             ifree |-> (v.ifree + 1) % CountMod]
    BY <1>2, <2>1 DEF delete_inode, free_inode, free_blocks, Volumes
  <2> HIDE DEF u, freed
  <2>5. u \in Volumes
    BY <2>1, <2>3, <2>4, NewInodeType DEF Volumes
  <2>6. /\ u.bmap = v.bmap \ gone
        /\ \A j \in Inodes, k \in Index :
             u.itab[j].ptr[k] = IF j = i THEN 0 ELSE v.itab[j].ptr[k]
    BY <1>2, <2>1, <2>4, NewInodeType DEF Volumes
  <2>7. \A b \in gone : b > Reserved /\ \E k \in Index : b = v.itab[i].ptr[k] /\ b # 0
    BY <1>2, <2>1 DEF Owned, freed
  <2>8. 1 .. Reserved \subseteq u.bmap
    <3> HIDE DEF gone
    <3>1. \A b \in 1 .. Reserved : b \notin gone
      BY <2>7, VolumeAssumption
    <3> QED BY <2>1, <2>6, <3>1 DEF Owned
  <2>9. \A j \in Inodes, k \in Index : u.itab[j].ptr[k] # 0 =>
          u.itab[j].ptr[k] \in u.bmap /\ u.itab[j].ptr[k] > Reserved
    BY <1>2, <2>1, <2>6, <2>7 DEF Owned
  <2>10. \A j, m \in Inodes, k, l \in Index :
           u.itab[j].ptr[k] # 0 /\ u.itab[j].ptr[k] = u.itab[m].ptr[l] => j = m /\ k = l
    BY <2>1, <2>6 DEF Owned
  <2>11. VolOK(u)
    BY <2>5, <2>8, <2>9, <2>10 DEF VolOK, Owned
  <2> QED BY <2>11 DEF u
<1> QED BY <1>1, <1>2

----------------------------------------------------------------------------
(* Blocks of an inode *)

\* A block that is marked and that no pointer names may be attached.
LEMMA AttachOK ==
  ASSUME NEW v, VolOK(v), NEW i \in Inodes, NEW k \in Index,
         NEW b \in v.bmap, b > Reserved,
         \A j \in Inodes, l \in Index : v.itab[j].ptr[l] # b
  PROVE  VolOK(set_inode_block(v, i, k, b))
<1> DEFINE t == [v.itab[i] EXCEPT !.ptr[k] = b]
           u == [v EXCEPT !.itab[i] = t]
<1>1. v \in Volumes /\ v.itab[i] \in Inode /\ b \in 0 .. BitmapBits
  BY VolumeAssumption DEF VolOK, Volumes, Blocks
<1>2. t \in Inode /\ t.ptr = [v.itab[i].ptr EXCEPT ![k] = b]
  BY <1>1 DEF Inode
<1>3. set_inode_block(v, i, k, b) = u
  BY DEF set_inode_block
<1> HIDE DEF t
<1>4. u.itab = [v.itab EXCEPT ![i] = t] /\ u.bmap = v.bmap
  BY <1>1 DEF Volumes
<1>5. u \in Volumes
  BY <1>1, <1>2 DEF Volumes
<1>6. \A j \in Inodes, l \in Index :
        u.itab[j].ptr[l] = IF j = i /\ l = k THEN b ELSE v.itab[j].ptr[l]
  BY <1>1, <1>2, <1>4 DEF Volumes, Inode
<1>7. Owned(u)
  <2> HIDE DEF u
  <2>1. b # 0
    BY VolumeAssumption
  <2> QED BY <1>4, <1>6, <2>1 DEF VolOK, Owned
<1> QED BY <1>3, <1>5, <1>7 DEF VolOK

\* What BlockFor returns is the block its inode then has at that index.
LEMMA BlockForOK ==
  ASSUME NEW v, VolOK(v), NEW i \in Inodes, NEW k \in Index
  PROVE  LET a == BlockFor(v, i, k)
         IN  VolOK(a.vol) /\ a.ret \in {0} \cup Blocks
<1> DEFINE a == allocate_block(v)
<1>1. v.itab[i].ptr[k] \in 0 .. BitmapBits
  BY DEF VolOK, Volumes, Inode
<1>2. CASE v.itab[i].ptr[k] # 0
  BY <1>1, <1>2, VolumeAssumption DEF BlockFor, get_inode_block, Result, Blocks
<1>3. CASE v.itab[i].ptr[k] = 0 /\ a.ret = 0
  BY <1>3, AllocateBlockOK DEF BlockFor, Attached, get_inode_block
<1>4. CASE v.itab[i].ptr[k] = 0 /\ a.ret # 0
  <2>1. /\ VolOK(a.vol) /\ a.ret \in Blocks \ v.bmap /\ a.ret > Reserved
        /\ a.vol.bmap = v.bmap \cup {a.ret} /\ a.vol.itab = v.itab
    BY <1>4, AllocateBlockOK
  <2> HIDE DEF a
  <2>2. \A j \in Inodes, l \in Index : a.vol.itab[j].ptr[l] # a.ret
    BY <2>1, VolumeAssumption DEF VolOK, Owned, Blocks
  <2>3. VolOK(set_inode_block(a.vol, i, k, a.ret))
    BY <2>1, <2>2, AttachOK
  <2>4. BlockFor(v, i, k) = Result(set_inode_block(a.vol, i, k, a.ret), a.ret)
    BY <1>4 DEF BlockFor, Attached, get_inode_block, a
  <2> QED BY <2>1, <2>3, <2>4 DEF Result
<1> QED BY <1>2, <1>3, <1>4

----------------------------------------------------------------------------
(* The write loop and mounting *)

LEMMA WriteChunkOK ==
  ASSUME NEW v, VolOK(v), NEW i \in Inodes, NEW d \in Data,
         NEW off \in Nat, NEW n \in Nat, off + n <= MaxFileWords, n > 0
  PROVE  LET w == WriteChunk(v, i, off, n, d)
         IN  VolOK(w.vol) /\ w.ret \in 0 .. n
<1> DEFINE pos == off % Slots
           m   == Min({n, Slots - pos})
           at  == BlockFor(v, i, off \div Slots)
           chunk == [s \in Slot |-> IF s \in pos + 1 .. pos + m THEN Text(d)
                                    ELSE at.vol.blk[at.ret][s]]
<1>1. pos \in 0 .. Slots - 1 /\ off \div Slots \in Nat
  BY VolumeAssumption
<1>2. off \div Slots \in Index
  <2> DEFINE q == off \div Slots
  <2>1. off = q * Slots + pos /\ q \in Nat
    BY VolumeAssumption
  <2>2. q * Slots < NDirect * Slots
    BY <2>1, <1>1, VolumeAssumption DEF MaxFileWords
  <2>3. q < NDirect
    BY <2>1, <2>2, VolumeAssumption, Z3
  <2> QED BY <2>1, <2>3, VolumeAssumption DEF Index
<1>3. m \in 0 .. n
  <2>1. {n, Slots - pos} \subseteq Nat
    BY <1>1, VolumeAssumption
  <2>2. m \in {n, Slots - pos} /\ m <= n
    BY <2>1, MinIsLeast
  <2> QED BY <2>1, <2>2
<1>4. VolOK(at.vol) /\ at.ret \in {0} \cup Blocks
  BY <1>2, BlockForOK
<1> HIDE DEF pos, m, at
<1>5. CASE at.ret = 0 \/ ~Readable(at.vol, at.ret)
  <2>1. WriteChunk(v, i, off, n, d) = Result(at.vol, 0)
    BY <1>5 DEF WriteChunk, at
  <2> QED BY <1>4, <2>1 DEF Result
<1>6. CASE ~(at.ret = 0 \/ ~Readable(at.vol, at.ret))
  <2>1. WriteChunk(v, i, off, n, d) = Result(write_block(at.vol, at.ret, chunk), m)
    BY <1>6 DEF WriteChunk, at, pos, m
  <2>2. at.ret \in Blocks
    BY <1>4, <1>6
  <2>3. chunk \in [Slot -> Word]
    BY <1>4, <2>2 DEF VolOK, Volumes, Text, Word
  <2>4. VolOK(write_block(at.vol, at.ret, chunk))
    BY <1>4, <2>2, <2>3, WriteBlockOK
  <2> QED BY <1>3, <2>1, <2>4 DEF Result
<1> QED BY <1>5, <1>6

LEMMA MountCountersOK ==
  ASSUME NEW v, VolOK(v)
  PROVE  VolOK(MountCounters(v))
<1>1. (MaxBlocks - Reserved) % CountMod \in Nat /\ (MaxInodes - 1) % CountMod \in Nat
  BY ModType, VolumeAssumption
<1>2. /\ MountCounters(v).bmap = v.bmap /\ MountCounters(v).itab = v.itab
      /\ MountCounters(v) \in Volumes
  BY <1>1 DEF VolOK, Volumes, MountCounters
<1> QED BY <1>2 DEF VolOK, Owned

\* The root directory's inode is the only one with a pointer.
LEMMA FormattedVolumeOK == VolOK(FormattedVolume)
<1> DEFINE rootBlock == Reserved + 1
           rootInode == [NewInode("dir") EXCEPT !.ptr[0] = rootBlock]
           rootWords == [ZeroBlock EXCEPT ![1] = Entry(Dot, RootIno),
                                          ![2] = Entry(DotDot, RootIno)]
           v == [bmap  |-> 1 .. rootBlock,
                 imap  |-> {1, RootIno},
                 itab  |-> [i \in Inodes |-> IF i = RootIno THEN rootInode ELSE ZeroInode],
                 blk   |-> [b \in Blocks |-> IF b = rootBlock THEN rootWords ELSE ZeroBlock],
                 end   |-> MaxBlocks, bfree |-> 0, ifree |-> 0]
<1>1. NewInode("dir") \in Inode /\ ZeroInode \in Inode /\ 0 \in Index
  BY NewInodeType, VolumeAssumption DEF Index
<1>2. rootBlock \in 1 .. BitmapBits /\ RootIno \in Inodes /\ 1 \in Inodes
  BY VolumeAssumption DEF RootIno, Inodes
<1>3. /\ rootInode \in Inode
      /\ \A k \in Index : rootInode.ptr[k] = IF k = 0 THEN rootBlock ELSE 0
  <2>1. \A k \in Index : NewInode("dir").ptr[k] = 0
    BY NewInodeType
  <2> QED BY <1>1, <1>2, <2>1 DEF Inode
<1>4. ZeroBlock \in [Slot -> Word]
  BY DEF ZeroBlock, Word
<1>5. rootWords \in [Slot -> Word]
  <2>1. Entry(Dot, RootIno) \in Word /\ Entry(DotDot, RootIno) \in Word
    BY VolumeAssumption DEF Entry, Word, RootIno
  <2> QED BY <1>4, <2>1
<1> HIDE DEF rootInode, rootWords
<1>6. v \in Volumes
  BY <1>1, <1>2, <1>3, <1>4, <1>5, VolumeAssumption DEF Volumes, Blocks
<1>7. \A i \in Inodes, k \in Index :
        v.itab[i].ptr[k] = IF i = RootIno /\ k = 0 THEN rootBlock ELSE 0
  BY <1>3, NewInodeType
<1>8. Owned(v)
  <2>1. v.bmap = 1 .. rootBlock
    OBVIOUS
  <2> HIDE DEF v
  <2> QED BY <1>7, <2>1, VolumeAssumption DEF Owned
<1>9. VolOK(v)
  BY <1>6, <1>8 DEF VolOK
<1>10. FormattedVolume = MountCounters(v)
  BY DEF FormattedVolume, rootInode, rootWords
<1> QED BY <1>9, <1>10, MountCountersOK

----------------------------------------------------------------------------
(* What an operation leaves alone *)

\* Inode i stays allocated or free, and keeps its type, its size and the blocks
\* it has.
SameInode(v, u, i) ==
  /\ i \in u.imap <=> i \in v.imap
  /\ u.itab[i].type = v.itab[i].type /\ u.itab[i].size = v.itab[i].size
  /\ \A k \in Index : v.itab[i].ptr[k] # 0 => u.itab[i].ptr[k] = v.itab[i].ptr[k]

\* It gets no block either, and its blocks hold what they held.
SameFile(v, u, i) ==
  /\ SameInode(v, u, i)
  /\ \A k \in Index : u.itab[i].ptr[k] = v.itab[i].ptr[k]
  /\ \A k \in Index : v.itab[i].ptr[k] # 0 => u.blk[v.itab[i].ptr[k]] = v.blk[v.itab[i].ptr[k]]

\* From v to u, inode d may get blocks and words, and anything happen to inode c;
\* 0 stands for no inode.
Keeps(v, u, d, c) ==
  /\ v.end <= u.end
  /\ \A i \in Inodes \ {c} : SameInode(v, u, i)
  /\ \A i \in Inodes \ {c, d} : SameFile(v, u, i)

\* A block that an allocated inode names.
Held(v, b) == \E i \in v.imap, k \in Index : v.itab[i].ptr[k] = b

\* What is marked in u but held by nobody was so in v, up to MAX_BLOCKS.
NoneLost(v, u) ==
  \A b \in u.bmap : b <= MaxBlocks /\ ~Held(u, b) => b \in v.bmap /\ ~Held(v, b)

\* Inodes that are free have no type.
FreeUntyped(v) == \A i \in Inodes \ v.imap : v.itab[i].type = "none"

LEMMA KeepsSelf ==
  ASSUME NEW v, VolOK(v), NEW d, NEW c
  PROVE  Keeps(v, v, d, c) /\ NoneLost(v, v)
<1>1. v.end <= v.end
  BY DEF VolOK, Volumes
<1> QED BY <1>1 DEF Keeps, SameInode, SameFile, NoneLost

LEMMA KeepsTrans ==
  ASSUME NEW v, NEW u, NEW w, VolOK(v), VolOK(u), VolOK(w), NEW d, NEW c,
         Keeps(v, u, d, c), Keeps(u, w, d, c)
  PROVE  Keeps(v, w, d, c)
<1>1. v.end <= w.end
  BY DEF VolOK, Volumes, Keeps
<1>2. \A i \in Inodes \ {c} : SameInode(v, w, i)
  BY DEF Keeps, SameInode
<1>3. ASSUME NEW i \in Inodes \ {c, d} PROVE SameFile(v, w, i)
  <2>1. SameFile(v, u, i) /\ SameFile(u, w, i)
    BY DEF Keeps
  <2>2. \A k \in Index : v.itab[i].ptr[k] # 0 =>
          w.blk[v.itab[i].ptr[k]] = v.blk[v.itab[i].ptr[k]]
    BY <2>1 DEF SameFile
  <2> QED BY <1>2, <2>1, <2>2 DEF SameFile
<1> QED BY <1>1, <1>2, <1>3 DEF Keeps

LEMMA KeepsMore ==
  ASSUME NEW v, NEW u, NEW d, NEW c, NEW d2, NEW c2, d \in {0, d2, c2}, c \in {0, c2},
         Keeps(v, u, d, c)
  PROVE  Keeps(v, u, d2, c2)
  BY DEF Keeps, Inodes

LEMMA NoneLostTrans ==
  ASSUME NEW v, NEW u, NEW w, NoneLost(v, u), NoneLost(u, w)
  PROVE  NoneLost(v, w)
  BY DEF NoneLost

\* A volume that differs from v in none of these keeps everything.
LEMMA SameTablesKeep ==
  ASSUME NEW v, NEW u, VolOK(v), u.end = v.end, u.imap = v.imap, u.blk = v.blk, u.bmap = v.bmap,
         \A i \in Inodes : /\ u.itab[i].type = v.itab[i].type /\ u.itab[i].size = v.itab[i].size
                           /\ u.itab[i].ptr = v.itab[i].ptr
  PROVE  Keeps(v, u, 0, 0) /\ NoneLost(v, u)
<1>1. v.end <= u.end
  BY DEF VolOK, Volumes
<1>2. \A i \in Inodes : SameFile(v, u, i)
  BY DEF SameFile, SameInode
<1>3. NoneLost(v, u)
  BY DEF NoneLost, Held, VolOK, Volumes
<1> QED BY <1>1, <1>2, <1>3 DEF Keeps, SameFile

LEMMA LinkCountKeeps ==
  ASSUME NEW v, VolOK(v), NEW i
  PROVE  LET u == increment_link_count(v, i)
             w == decrement_link_count(v, i)
         IN  /\ Keeps(v, u, 0, 0) /\ NoneLost(v, u)
             /\ Keeps(v, w, 0, 0) /\ NoneLost(v, w)
             /\ u.itab \in [Inodes -> Inode] /\ u.blk = v.blk /\ w.blk = v.blk
             /\ \A j \in Inodes : u.itab[j].ptr = v.itab[j].ptr /\ w.itab[j].ptr = v.itab[j].ptr
<1> DEFINE With(n) == [v EXCEPT !.itab[i].links = n]
<1>1. CASE i \notin Inodes
  <2>1. increment_link_count(v, i) = v /\ decrement_link_count(v, i) = v
    BY <1>1 DEF increment_link_count, decrement_link_count
  <2> QED BY <2>1, KeepsSelf DEF VolOK, Volumes
<1>2. CASE i \in Inodes
  <2>1. ASSUME NEW n
        PROVE  /\ With(n).end = v.end /\ With(n).imap = v.imap
               /\ With(n).blk = v.blk /\ With(n).bmap = v.bmap
               /\ \A j \in Inodes : /\ With(n).itab[j].type = v.itab[j].type
                                    /\ With(n).itab[j].size = v.itab[j].size
                                    /\ With(n).itab[j].ptr = v.itab[j].ptr
    BY <1>2 DEF VolOK, Volumes, Inode
  <2>2. ASSUME NEW n PROVE Keeps(v, With(n), 0, 0) /\ NoneLost(v, With(n))
    <3> HIDE DEF With
    <3> QED BY <2>1, SameTablesKeep
  <2>3. PICK n : increment_link_count(v, i) = With(n)
    BY <1>2 DEF increment_link_count
  <2>4. PICK m : decrement_link_count(v, i) = With(m)
    BY <1>2 DEF decrement_link_count
  <2>5. VolOK(increment_link_count(v, i))
    BY LinkCountOK
  <2> HIDE DEF With
  <2> QED BY <2>1, <2>2, <2>3, <2>4, <2>5 DEF VolOK, Volumes
<1> QED BY <1>1, <1>2

\* A block that inode d names is written.
LEMMA WriteBlockKeeps ==
  ASSUME NEW v, VolOK(v), NEW d \in Inodes, NEW k \in Index, v.itab[d].ptr[k] # 0, NEW w
  PROVE  LET u == write_block(v, v.itab[d].ptr[k], w)
         IN  /\ Keeps(v, u, d, 0) /\ NoneLost(v, u)
             /\ u.itab = v.itab /\ u.imap = v.imap
             /\ u.blk = [v.blk EXCEPT ![v.itab[d].ptr[k]] = w]
<1> DEFINE b == v.itab[d].ptr[k]
           u == write_block(v, b, w)
<1>1. /\ u.bmap = v.bmap /\ u.imap = v.imap /\ u.itab = v.itab
      /\ u.blk = [v.blk EXCEPT ![b] = w] /\ u.end = IF b < v.end THEN v.end ELSE b + 1
  BY DEF VolOK, Volumes, write_block
<1>2. b \in Nat /\ v.end \in Nat
  BY VolumeAssumption DEF VolOK, Volumes, Inode
<1>3. v.end <= u.end
  BY <1>1, <1>2
<1>4. ASSUME NEW i \in Inodes, i # d PROVE SameFile(v, u, i)
  <2>1. \A l \in Index : v.itab[i].ptr[l] # 0 => v.itab[i].ptr[l] # b
    BY <1>4 DEF VolOK, Owned
  <2>2. \A l \in Index : v.itab[i].ptr[l] # 0 => u.blk[v.itab[i].ptr[l]] = v.blk[v.itab[i].ptr[l]]
    BY <1>1, <2>1 DEF VolOK, Volumes, Inode, Blocks
  <2> QED BY <1>1, <2>2 DEF SameFile, SameInode
<1>5. \A i \in Inodes : SameInode(v, u, i)
  BY <1>1 DEF SameInode
<1>6. NoneLost(v, u)
  BY <1>1 DEF NoneLost, Held
<1> QED BY <1>1, <1>3, <1>4, <1>5, <1>6 DEF Keeps

\* A block that nobody names is attached where inode i has none.
LEMMA AttachKeeps ==
  ASSUME NEW v, VolOK(v), NEW i \in Inodes, NEW k \in Index, v.itab[i].ptr[k] = 0, NEW b
  PROVE  LET u == set_inode_block(v, i, k, b)
         IN  /\ Keeps(v, u, i, 0)
             /\ u.bmap = v.bmap /\ u.imap = v.imap /\ u.blk = v.blk /\ u.end = v.end
             /\ u.itab[i].ptr[k] = b /\ u.itab[i].size = v.itab[i].size
             /\ \A j \in Inodes, l \in Index : v.itab[j].ptr[l] # 0 =>
                  u.itab[j].ptr[l] = v.itab[j].ptr[l]
             /\ \A l \in Index : l # k => u.itab[i].ptr[l] = v.itab[i].ptr[l]
<1> DEFINE u == set_inode_block(v, i, k, b)
<1>1. /\ u.bmap = v.bmap /\ u.imap = v.imap /\ u.blk = v.blk /\ u.end = v.end
      /\ \A j \in Inodes : /\ u.itab[j].type = v.itab[j].type /\ u.itab[j].size = v.itab[j].size
                           /\ \A l \in Index : u.itab[j].ptr[l] = IF j = i /\ l = k THEN b
                                                                  ELSE v.itab[j].ptr[l]
  BY DEF set_inode_block, VolOK, Volumes, Inode
<1>2. v.end <= u.end
  BY <1>1 DEF VolOK, Volumes
<1> HIDE DEF u
<1>3. \A j \in Inodes : SameInode(v, u, j)
  BY <1>1 DEF SameInode
<1>4. \A j \in Inodes \ {i} : SameFile(v, u, j)
  BY <1>1, <1>3 DEF SameFile
<1>5. Keeps(v, u, i, 0)
  BY <1>2, <1>3, <1>4 DEF Keeps
<1> QED BY <1>1, <1>5 DEF u

LEMMA BlockForKeeps ==
  ASSUME NEW v, VolOK(v), NEW i \in Inodes, NEW k \in Index
  PROVE  LET a == BlockFor(v, i, k)
         IN  /\ Keeps(v, a.vol, i, 0)
             /\ i \in v.imap => NoneLost(v, a.vol)
             /\ a.vol.blk = v.blk /\ a.vol.end = v.end
             /\ a.ret # 0 => a.vol.itab[i].ptr[k] = a.ret
             /\ a.ret = 0 => a.vol = v
             /\ \A l \in Index : l # k => a.vol.itab[i].ptr[l] = v.itab[i].ptr[l]
<1> DEFINE a == allocate_block(v)
           u == set_inode_block(a.vol, i, k, a.ret)
<1>1. CASE v.itab[i].ptr[k] # 0
  <2>1. BlockFor(v, i, k) = Result(v, v.itab[i].ptr[k])
    BY <1>1 DEF BlockFor, get_inode_block
  <2> QED BY <1>1, <2>1, KeepsSelf DEF Result
<1>2. CASE v.itab[i].ptr[k] = 0 /\ a.ret = 0
  <2>1. BlockFor(v, i, k) = a /\ a.vol = v
    BY <1>2, AllocateBlockOK DEF BlockFor, Attached, get_inode_block
  <2> HIDE DEF a
  <2> QED BY <1>2, <2>1, KeepsSelf
<1>3. CASE v.itab[i].ptr[k] = 0 /\ a.ret # 0
  <2>1. /\ VolOK(a.vol) /\ a.ret \in Blocks \ v.bmap /\ a.vol.bmap = v.bmap \cup {a.ret}
        /\ a.vol.itab = v.itab /\ a.vol.imap = v.imap /\ a.vol.blk = v.blk /\ a.vol.end = v.end
    BY <1>3, AllocateBlockOK
  <2>2. BlockFor(v, i, k) = Result(u, a.ret)
    BY <1>3 DEF BlockFor, Attached, get_inode_block
  <2> HIDE DEF a
  <2>0. a.vol.itab[i].ptr[k] = 0
    BY <1>3, <2>1
  <2>3. /\ Keeps(a.vol, u, i, 0)
        /\ u.bmap = a.vol.bmap /\ u.imap = a.vol.imap /\ u.blk = a.vol.blk /\ u.end = a.vol.end
        /\ u.itab[i].ptr[k] = a.ret
        /\ \A j \in Inodes, l \in Index : a.vol.itab[j].ptr[l] # 0 =>
             u.itab[j].ptr[l] = a.vol.itab[j].ptr[l]
        /\ \A l \in Index : l # k => u.itab[i].ptr[l] = a.vol.itab[i].ptr[l]
    BY <2>0, <2>1, AttachKeeps
  <2> HIDE DEF u
  <2>4. Keeps(v, u, i, 0)
    BY <2>1, <2>3 DEF Keeps, SameInode, SameFile
  <2>5. ASSUME i \in v.imap PROVE NoneLost(v, u)
    <3> SUFFICES ASSUME NEW b \in u.bmap, b <= MaxBlocks, ~Held(u, b)
                 PROVE  b \in v.bmap /\ ~Held(v, b)
      BY DEF NoneLost
    <3>1. b # a.ret
      BY <2>1, <2>3, <2>5 DEF Held
    <3>2. b \in v.bmap /\ b # 0
      BY <2>1, <2>3, <3>1, VolumeAssumption DEF VolOK, Volumes, Blocks
    <3>3. ~Held(v, b)
      <4> SUFFICES ASSUME NEW j \in v.imap, NEW l \in Index, v.itab[j].ptr[l] = b PROVE FALSE
        BY DEF Held
      <4>1. j \in Inodes
        BY DEF VolOK, Volumes
      <4> QED BY <2>1, <2>3, <3>2, <4>1 DEF Held
    <3> QED BY <3>2, <3>3
  <2>6. BlockFor(v, i, k).vol = u /\ BlockFor(v, i, k).ret = a.ret
    BY <2>2 DEF Result
  <2> QED BY <1>3, <2>1, <2>3, <2>4, <2>5, <2>6
<1> QED BY <1>1, <1>2, <1>3

\* create_inode says nothing of the inode it returns, which was free.
LEMMA CreateInodeKeeps ==
  ASSUME NEW v, VolOK(v), NEW t \in {"reg", "dir"}
  PROVE  LET a == create_inode(v, t)
         IN  /\ Keeps(v, a.vol, 0, a.ret) /\ NoneLost(v, a.vol)
             /\ a.ret \in Inodes => /\ a.ret \notin v.imap /\ a.vol.imap = v.imap \cup {a.ret}
                                    /\ a.vol.itab[a.ret].type = t /\ a.vol.itab[a.ret].size = 0
                                    /\ \A k \in Index : a.vol.itab[a.ret].ptr[k] = 0
             /\ a.ret \notin Inodes => a.vol = v /\ v.imap = Inodes
<1> DEFINE free == Inodes \ v.imap
<1>1. CASE free = {}
  <2>1. create_inode(v, t) = Result(v, Bad) /\ v.imap = Inodes
    BY <1>1 DEF create_inode, allocate_inode, Result, VolOK, Volumes
  <2>2. Bad \notin Inodes
    BY VolumeAssumption DEF Bad, Inodes
  <2> QED BY <2>1, <2>2, KeepsSelf DEF Result
<1>2. CASE free # {}
  <2>1. Min(free) \in free
    BY <1>2, MinIsLeast DEF Inodes
  <2> DEFINE i == Min(free)
             w == [v EXCEPT !.imap = @ \cup {i}, !.ifree = (@ - 1) % CountMod]
             u == [w EXCEPT !.itab[i] = NewInode(t)]
  <2>0. allocate_inode(v) = Result(w, i)
    BY <1>2 DEF allocate_inode
  <2>00. i \in Inodes /\ i # Bad
    BY <2>1, VolumeAssumption DEF Inodes, Bad
  <2> HIDE DEF w
  <2>2. create_inode(v, t) = Result(u, i)
    BY <2>0, <2>00 DEF create_inode, Result
  <2> USE DEF w
  <2>3. /\ NewInode(t).type = t /\ NewInode(t).size = 0
        /\ \A k \in Index : NewInode(t).ptr[k] = 0
    BY DEF NewInode
  <2> HIDE DEF i
  <2>4. /\ u.bmap = v.bmap /\ u.imap = v.imap \cup {i} /\ u.blk = v.blk /\ u.end = v.end
        /\ u.itab = [v.itab EXCEPT ![i] = NewInode(t)]
    BY DEF VolOK, Volumes
  <2> HIDE DEF u
  <2>5. i \in Inodes /\ i \notin v.imap
    BY <2>1 DEF i
  <2>6. /\ u.itab[i] = NewInode(t)
        /\ \A j \in Inodes : j # i => u.itab[j] = v.itab[j]
    BY <2>4, <2>5 DEF VolOK, Volumes
  <2>7. v.end <= u.end
    BY <2>4 DEF VolOK, Volumes
  <2>8. \A j \in Inodes \ {i} : SameFile(v, u, j)
    BY <2>4, <2>6 DEF SameFile, SameInode
  <2>9. Keeps(v, u, 0, i)
    BY <2>7, <2>8 DEF Keeps, SameFile
  <2>10. NoneLost(v, u)
    <3> SUFFICES ASSUME NEW b \in u.bmap, ~Held(u, b), Held(v, b) PROVE FALSE
      BY <2>4 DEF NoneLost
    <3>1. PICK j \in v.imap, k \in Index : v.itab[j].ptr[k] = b
      BY DEF Held
    <3>2. j \in Inodes /\ j # i
      BY <2>5 DEF VolOK, Volumes
    <3> QED BY <2>4, <2>6, <3>1, <3>2 DEF Held
  <2>11. create_inode(v, t).vol = u /\ create_inode(v, t).ret = i
    BY <2>2 DEF Result, u
  <2> QED BY <2>3, <2>4, <2>5, <2>6, <2>9, <2>10, <2>11
<1> QED BY <1>1, <1>2

LEMMA DeleteInodeKeeps ==
  ASSUME NEW v, VolOK(v), NEW i \in Inodes
  PROVE  LET u == delete_inode(v, i)
         IN  /\ Keeps(v, u, 0, i) /\ NoneLost(v, u)
             /\ u.imap = v.imap \ {i}
             /\ u.itab[i].type = "none" /\ u.itab[i].size = 0
<1> DEFINE freed == {k \in Index : v.itab[i].ptr[k] \in 1 .. MaxBlocks}
           gone  == {v.itab[i].ptr[k] : k \in freed}
           u     == delete_inode(v, i)
<1>1. u = [bmap |-> v.bmap \ gone, imap |-> v.imap \ {i},
           itab |-> [v.itab EXCEPT ![i] = ZeroInode], blk |-> v.blk, end |-> v.end,
           bfree |-> (v.bfree + Cardinality(freed)) % CountMod,
           ifree |-> (v.ifree + 1) % CountMod]
  BY DEF delete_inode, free_inode, free_blocks, VolOK, Volumes
<1> HIDE DEF u
<1>2. /\ u.bmap = v.bmap \ gone /\ u.imap = v.imap \ {i} /\ u.blk = v.blk /\ u.end = v.end
      /\ u.itab[i] = ZeroInode /\ \A j \in Inodes : j # i => u.itab[j] = v.itab[j]
  BY <1>1 DEF VolOK, Volumes
<1>3. ZeroInode.type = "none" /\ ZeroInode.size = 0
  BY DEF ZeroInode, NewInode
<1>4. v.end <= u.end
  BY <1>2 DEF VolOK, Volumes
<1>5. \A j \in Inodes \ {i} : SameFile(v, u, j)
  BY <1>2 DEF SameFile, SameInode
<1>6. Keeps(v, u, 0, i)
  BY <1>4, <1>5 DEF Keeps, SameFile
<1>7. NoneLost(v, u)
  <2> SUFFICES ASSUME NEW b \in u.bmap, b <= MaxBlocks, ~Held(u, b), Held(v, b) PROVE FALSE
    BY <1>2 DEF NoneLost
  <2>1. PICK j \in v.imap, k \in Index : v.itab[j].ptr[k] = b
    BY DEF Held
  <2>2. CASE j = i
    <3>1. b \in v.bmap
      BY <1>2
    <3>2. b \in Blocks
      BY <3>1 DEF VolOK, Volumes
    <3>3. b \in 1 .. MaxBlocks
      BY <3>2, VolumeAssumption DEF Blocks
    <3> QED BY <1>2, <2>1, <2>2, <3>3
  <2>3. CASE j # i
    <3>1. j \in Inodes
      BY DEF VolOK, Volumes
    <3> QED BY <1>2, <2>1, <2>3, <3>1 DEF Held
  <2> QED BY <2>2, <2>3
<1> QED BY <1>2, <1>3, <1>6, <1>7 DEF u

LEMMA MountCountersKeeps ==
  ASSUME NEW v, VolOK(v)
  PROVE  Keeps(v, MountCounters(v), 0, 0) /\ NoneLost(v, MountCounters(v))
<1> DEFINE u == MountCounters(v)
<1>1. u.end = v.end /\ u.imap = v.imap /\ u.blk = v.blk /\ u.bmap = v.bmap /\ u.itab = v.itab
  BY DEF MountCounters, VolOK, Volumes
<1> HIDE DEF u
<1>2. Keeps(v, u, 0, 0) /\ NoneLost(v, u)
  BY <1>1, SameTablesKeep
<1> QED BY <1>2 DEF u

----------------------------------------------------------------------------
(* Words of a file *)

LEMMA DivModSplit ==
  ASSUME NEW x \in Nat
  PROVE  /\ x = (x \div Slots) * Slots + (x % Slots)
         /\ x \div Slots \in Nat /\ x % Slots \in 0 .. Slots - 1
<1> DEFINE q == x \div Slots
           r == x % Slots
<1>1. Slots \in Nat /\ Slots > 0
  BY VolumeAssumption
<1>2. q \in Nat /\ r \in 0 .. Slots - 1
  BY <1>1
<1>3. x = q * Slots + r
  BY <1>1
<1> QED BY <1>2, <1>3

LEMMA DivModUnique ==
  ASSUME NEW q \in Nat, NEW r \in 0 .. Slots - 1, NEW x \in Nat, x = q * Slots + r
  PROVE  x \div Slots = q /\ x % Slots = r
<1> DEFINE p == x \div Slots
           m == x % Slots
<1>1. x = p * Slots + m /\ p \in Nat /\ m \in 0 .. Slots - 1
  BY DivModSplit
<1> HIDE DEF p, m
<1>2. Slots \in Nat /\ r \in Nat /\ m \in Nat /\ r < Slots /\ m < Slots
  BY <1>1, VolumeAssumption
<1>3. ASSUME p < q PROVE FALSE
  <2>1. PICK e \in Nat : q = p + 1 + e
    <3>1. q - p - 1 \in Nat /\ q = p + 1 + (q - p - 1)
      BY <1>1, <1>3
    <3> QED BY <3>1
  <2>2. q * Slots = p * Slots + Slots + e * Slots /\ e * Slots >= 0
    BY <1>1, <1>2, <2>1
  <2> QED BY <1>1, <1>2, <2>2
<1>4. ASSUME q < p PROVE FALSE
  <2>1. PICK e \in Nat : p = q + 1 + e
    <3>1. p - q - 1 \in Nat /\ p = q + 1 + (p - q - 1)
      BY <1>1, <1>4
    <3> QED BY <3>1
  <2>2. p * Slots = q * Slots + Slots + e * Slots /\ e * Slots >= 0
    BY <1>1, <1>2, <2>1
  <2> QED BY <1>1, <1>2, <2>2
<1>5. p = q
  BY <1>1, <1>3, <1>4
<1>6. m = r
  BY <1>1, <1>2, <1>5
<1> QED BY <1>5, <1>6 DEF p, m

\* A place within the direct blocks is in one of them.
LEMMA PlaceIndex ==
  ASSUME NEW x \in Nat, x < MaxFileWords
  PROVE  x \div Slots \in Index /\ (x % Slots) + 1 \in Slot
<1> DEFINE q == x \div Slots
<1>1. x = q * Slots + (x % Slots) /\ q \in Nat /\ x % Slots \in 0 .. Slots - 1
  BY DivModSplit
<1>2. q * Slots < NDirect * Slots
  BY <1>1, VolumeAssumption DEF MaxFileWords
<1>3. q < NDirect
  BY <1>1, <1>2, VolumeAssumption, Z3
<1> QED BY <1>1, <1>3, VolumeAssumption DEF Index, Slot

\* The word at place x, from 0, of inode i is there, can be read, and is text d.
TextAt(v, i, x, d) ==
  /\ v.itab[i].ptr[x \div Slots] # 0
  /\ Readable(v, v.itab[i].ptr[x \div Slots])
  /\ v.blk[v.itab[i].ptr[x \div Slots]][(x % Slots) + 1] = Text(d)

\* Every word of inode i of v outside the places ps is the same in u.
SparesTheRest(v, u, i, ps) ==
  \A x \in Nat : x < MaxFileWords /\ x \notin ps /\ v.itab[i].ptr[x \div Slots] # 0
     => LET b == v.itab[i].ptr[x \div Slots]
        IN  u.blk[b][(x % Slots) + 1] = v.blk[b][(x % Slots) + 1]

\* One iteration of the write loop puts its text in its places and leaves every
\* other word of the file alone.
LEMMA WriteChunkText ==
  ASSUME NEW v, VolOK(v), NEW i \in Inodes, NEW d \in Data,
         NEW off \in Nat, NEW n \in Nat, off + n <= MaxFileWords, n > 0,
         NEW w, w = WriteChunk(v, i, off, n, d)
  PROVE  /\ Keeps(v, w.vol, i, 0)
         /\ i \in v.imap => NoneLost(v, w.vol)
         /\ \A x \in off .. off + w.ret - 1 : TextAt(w.vol, i, x, d)
         /\ SparesTheRest(v, w.vol, i, off .. off + w.ret - 1)
<1> DEFINE q   == off \div Slots
           pos == off % Slots
           m   == Min({n, Slots - pos})
           at  == BlockFor(v, i, q)
           chunk == [s \in Slot |-> IF s \in pos + 1 .. pos + m THEN Text(d)
                                    ELSE at.vol.blk[at.ret][s]]
           u   == write_block(at.vol, at.ret, chunk)
<1>1. /\ q \in Index /\ q \in Nat
      /\ off = q * Slots + pos /\ pos \in 0 .. Slots - 1
  <2>1. off < MaxFileWords
    BY MaxFileWordsType
  <2> QED BY <2>1, PlaceIndex, DivModSplit
<1>2. m \in Nat /\ m <= Slots - pos
  <2>1. {n, Slots - pos} \subseteq Nat
    BY <1>1, VolumeAssumption
  <2>2. m \in {n, Slots - pos} /\ m <= Slots - pos
    BY <2>1, MinIsLeast
  <2> QED BY <2>1, <2>2
<1>3. /\ VolOK(at.vol) /\ Keeps(v, at.vol, i, 0)
      /\ i \in v.imap => NoneLost(v, at.vol)
      /\ at.vol.blk = v.blk
      /\ at.ret # 0 => at.vol.itab[i].ptr[q] = at.ret
      /\ at.ret \in {0} \cup Blocks
  BY <1>1, BlockForKeeps, BlockForOK
<1>4. \A l \in Index : v.itab[i].ptr[l] # 0 => at.vol.itab[i].ptr[l] = v.itab[i].ptr[l]
  BY <1>3, VolumeAssumption DEF Keeps, SameInode, Inodes
<1> HIDE DEF q, pos, m, at
<1>5. CASE at.ret = 0 \/ ~Readable(at.vol, at.ret)
  <2>1. WriteChunk(v, i, off, n, d) = Result(at.vol, 0)
    BY <1>5 DEF WriteChunk, at, q
  <2>2. \A x \in off .. off + 0 - 1 : FALSE
    OBVIOUS
  <2>3. w.vol = at.vol /\ w.ret = 0
    BY <2>1 DEF Result
  <2>4. SparesTheRest(v, w.vol, i, off .. off + w.ret - 1)
    BY <1>3, <2>3, Zenon DEF SparesTheRest
  <2> QED BY <1>3, <2>2, <2>3, <2>4
<1>6. CASE at.ret # 0 /\ Readable(at.vol, at.ret)
  <2>1. WriteChunk(v, i, off, n, d) = Result(u, m)
    BY <1>6 DEF WriteChunk, at, pos, m, q
  <2>2. at.vol.itab[i].ptr[q] = at.ret /\ at.ret # 0
    BY <1>3, <1>6
  <2>3. /\ Keeps(at.vol, u, i, 0) /\ NoneLost(at.vol, u)
        /\ u.itab = at.vol.itab /\ u.blk = [at.vol.blk EXCEPT ![at.ret] = chunk]
    <3> HIDE DEF chunk, u
    <3>1. u = write_block(at.vol, at.vol.itab[i].ptr[q], chunk)
      BY <2>2 DEF u
    <3> QED BY <1>1, <1>3, <2>2, <3>1, WriteBlockKeeps
  <2>4. at.ret \in Blocks
    BY <1>3, <2>2
  <2>5. chunk \in [Slot -> Word]
    BY <1>3, <2>4 DEF VolOK, Volumes, Text, Word
  <2>6. VolOK(u)
    BY <1>3, <2>4, <2>5, WriteBlockOK
  <2> HIDE DEF u, chunk
  <2>7. Keeps(v, u, i, 0)
    BY <1>3, <2>3, <2>6, KeepsTrans
  <2>8. i \in v.imap => NoneLost(v, u)
    BY <1>3, <2>3, NoneLostTrans
  <2>9. Readable(u, at.ret) /\ u.blk[at.ret] = chunk
    <3>1. at.vol.end <= u.end /\ at.vol.end \in Nat /\ u.end \in Nat /\ at.ret \in Nat
      BY <1>3, <2>3, <2>4, <2>6 DEF Keeps, VolOK, Volumes, Blocks
    <3>2. Readable(u, at.ret)
      BY <1>6, <3>1 DEF Readable
    <3> QED BY <1>3, <2>3, <2>4, <3>2 DEF VolOK, Volumes
  <2>10. ASSUME NEW x \in off .. off + m - 1 PROVE TextAt(u, i, x, d)
    <3> DEFINE r == pos + (x - off)
    <3>1. x \in Nat /\ r \in 0 .. Slots - 1 /\ x = q * Slots + r
      BY <1>1, <1>2, VolumeAssumption
    <3>2. x \div Slots = q /\ x % Slots = r
      BY <1>1, <3>1, DivModUnique
    <3>3. r + 1 \in pos + 1 .. pos + m /\ r + 1 \in Slot
      BY <1>1, <1>2, <3>1, VolumeAssumption DEF Slot
    <3>4. chunk[r + 1] = Text(d)
      BY <3>3 DEF chunk
    <3> QED BY <2>2, <2>3, <2>9, <3>2, <3>4 DEF TextAt
  <2>11. ASSUME NEW x \in Nat, x < MaxFileWords, x \notin off .. off + m - 1,
                v.itab[i].ptr[x \div Slots] # 0
         PROVE  u.blk[v.itab[i].ptr[x \div Slots]][(x % Slots) + 1]
                  = v.blk[v.itab[i].ptr[x \div Slots]][(x % Slots) + 1]
    <3>1. x \div Slots \in Index /\ (x % Slots) + 1 \in Slot
      BY <2>11, PlaceIndex
    <3>2. x = (x \div Slots) * Slots + (x % Slots) /\ x % Slots \in 0 .. Slots - 1
      BY DivModSplit
    <3>3. CASE x \div Slots = q
      <4>1. v.itab[i].ptr[q] = at.ret
        BY <1>1, <1>4, <2>2, <2>11, <3>3
      <4>2. (x % Slots) + 1 \notin pos + 1 .. pos + m
        <5> DEFINE p == x % Slots
        <5>1. x = q * Slots + p /\ p \in Nat
          BY <3>2, <3>3
        <5> HIDE DEF p
        <5>2. ASSUME p + 1 \in pos + 1 .. pos + m PROVE x \in off .. off + m - 1
          <6>1. x - off = p - pos /\ off \in Nat /\ q * Slots \in Nat
            BY <1>1, <5>1, VolumeAssumption
          <6> QED BY <1>1, <1>2, <5>1, <5>2, <6>1
        <5> QED BY <2>11, <5>2 DEF p
      <4>3. chunk[(x % Slots) + 1] = at.vol.blk[at.ret][(x % Slots) + 1]
        BY <3>1, <4>2 DEF chunk
      <4> QED BY <1>3, <2>9, <3>3, <4>1, <4>3
    <3>4. CASE x \div Slots # q
      <4>1. at.vol.itab[i].ptr[x \div Slots] = v.itab[i].ptr[x \div Slots]
        BY <1>4, <2>11, <3>1
      <4>2. v.itab[i].ptr[x \div Slots] # at.ret
        <5>1. \A l \in Index : at.vol.itab[i].ptr[l] = at.ret => l = q
          BY <1>1, <1>3, <2>2 DEF VolOK, Owned
        <5> QED BY <3>1, <3>4, <4>1, <5>1
      <4>3. v.itab[i].ptr[x \div Slots] \in Blocks
        BY <2>11, <3>1, VolumeAssumption DEF VolOK, Volumes, Inode, Blocks
      <4> QED BY <1>3, <2>3, <4>2, <4>3 DEF VolOK, Volumes
    <3> QED BY <3>3, <3>4
  <2>12. w.vol = u /\ w.ret = m
    BY <2>1 DEF Result
  <2>13. SparesTheRest(v, w.vol, i, off .. off + w.ret - 1)
    BY <2>11, <2>12, Zenon DEF SparesTheRest
  <2> QED BY <2>7, <2>8, <2>10, <2>12, <2>13
<1> QED BY <1>5, <1>6

----------------------------------------------------------------------------
(* Counters: numbers that differ by a multiple of CountMod, and the sum of  *)
(* what is free and what is marked, which no operation changes.             *)

LEMMA SmallMultiple ==
  ASSUME NEW m \in Nat \ {0}, NEW k \in Int, k * m < m, -m < k * m
  PROVE  k = 0
<1>1. ASSUME k > 0 PROVE FALSE
  <2>1. k - 1 \in Nat /\ k * m = m + (k - 1) * m
    BY <1>1
  <2>2. (k - 1) * m >= 0
    BY <2>1
  <2> QED BY <2>1, <2>2
<1>2. ASSUME k < 0 PROVE FALSE
  <2>1. -k - 1 \in Nat /\ k * m = -m - (-k - 1) * m
    BY <1>2
  <2>2. (-k - 1) * m >= 0
    BY <2>1
  <2> QED BY <2>1, <2>2
<1> QED BY <1>1, <1>2

LEMMA ModParts ==
  ASSUME NEW m \in Nat \ {0}, NEW x \in Int
  PROVE  \E q \in Int, r \in 0 .. m - 1 : x = q * m + r /\ r = x % m
<1>1. x \div m \in Int /\ x % m \in 0 .. m - 1 /\ x = (x \div m) * m + (x % m)
  OBVIOUS
<1> QED BY <1>1

LEMMA ModIgnoresMultiples ==
  ASSUME NEW m \in Nat \ {0}, NEW x \in Int, NEW y \in Int, NEW q \in Int, x = y + q * m
  PROVE  x % m = y % m
<1>1. PICK a \in Int, r \in 0 .. m - 1 : x = a * m + r /\ r = x % m
  BY ModParts
<1>2. PICK b \in Int, s \in 0 .. m - 1 : y = b * m + s /\ s = y % m
  BY ModParts
<1>3. b + q - a \in Int /\ (b + q - a) * m = r - s
  <2>1. (b + q - a) * m = b * m + q * m - a * m
    OBVIOUS
  <2>2. a * m + r = b * m + s + q * m
    BY <1>1, <1>2
  <2>3. a * m \in Int /\ b * m \in Int /\ q * m \in Int
    OBVIOUS
  <2> QED BY ONLY <2>1, <2>2, <2>3, r \in 0 .. m - 1, s \in 0 .. m - 1, m \in Nat,
                  a \in Int, b \in Int, q \in Int
<1>4. b + q - a = 0
  <2>1. r - s < m /\ -m < r - s
    OBVIOUS
  <2> QED BY ONLY <1>3, <2>1, SmallMultiple, m \in Nat \ {0}
<1>5. (b + q - a) * m = 0
  BY ONLY <1>4, m \in Nat
<1>6. r = s
  BY ONLY <1>3, <1>5, r \in 0 .. m - 1, s \in 0 .. m - 1, m \in Nat
<1> QED BY ONLY <1>1, <1>2, <1>6

LEMMA ModShift ==
  ASSUME NEW m \in Nat \ {0}, NEW x \in Int, NEW y \in Int, x % m = y % m, NEW z \in Int
  PROVE  (x + z) % m = (y + z) % m
<1>1. PICK a \in Int, r \in 0 .. m - 1 : x = a * m + r /\ r = x % m
  BY ModParts
<1>2. PICK b \in Int, s \in 0 .. m - 1 : y = b * m + s /\ s = y % m
  BY ModParts
<1>3. x + z = (y + z) + (a - b) * m
  <2>1. (a - b) * m = a * m - b * m
    OBVIOUS
  <2>2. r = s
    BY ONLY <1>1, <1>2, x % m = y % m
  <2>3. a * m \in Int /\ b * m \in Int
    OBVIOUS
  <2>4. x = a * m + r /\ y = b * m + r
    BY ONLY <1>1, <1>2, <2>2
  <2> QED BY ONLY <2>1, <2>3, <2>4, z \in Int, r \in 0 .. m - 1, m \in Nat \ {0}
<1>4. x + z \in Int /\ y + z \in Int /\ a - b \in Int
  OBVIOUS
<1> QED BY ONLY <1>3, <1>4, ModIgnoresMultiples, m \in Nat \ {0}

\* A counter that is kept within CountMod counts as one that is not.
LEMMA ModInside ==
  ASSUME NEW m \in Nat \ {0}, NEW x \in Int, NEW z \in Int
  PROVE  ((x % m) + z) % m = (x + z) % m
<1>1. PICK a \in Int, r \in 0 .. m - 1 : x = a * m + r /\ r = x % m
  BY ModParts
<1>2. x + z = (r + z) + a * m
  <2>1. a * m \in Int
    OBVIOUS
  <2> QED BY ONLY <1>1, <2>1, z \in Int, r \in 0 .. m - 1
<1>3. x + z \in Int /\ r + z \in Int
  OBVIOUS
<1>4. (x + z) % m = (r + z) % m
  BY ONLY <1>2, <1>3, ModIgnoresMultiples, m \in Nat \ {0}, a \in Int
<1> QED BY ONLY <1>1, <1>4

BlocksTotal(v) == (v.bfree + Cardinality(v.bmap)) % CountMod
InodesTotal(v) == (v.ifree + Cardinality(v.imap)) % CountMod
Counted(v, u)  == BlocksTotal(u) = BlocksTotal(v) /\ InodesTotal(u) = InodesTotal(v)

LEMMA FiniteMaps ==
  ASSUME NEW v, VolOK(v)
  PROVE  /\ IsFiniteSet(v.bmap) /\ Cardinality(v.bmap) \in Nat
         /\ IsFiniteSet(v.imap) /\ Cardinality(v.imap) \in Nat
         /\ v.bfree \in Nat /\ v.ifree \in Nat
<1>1. v.bmap \in SUBSET Blocks /\ v.imap \in SUBSET Inodes /\ v.bfree \in Nat /\ v.ifree \in Nat
  BY DEF VolOK, Volumes
<1>2. IsFiniteSet(Blocks) /\ IsFiniteSet(Inodes)
  BY FS_Interval, VolumeAssumption DEF Blocks, Inodes
<1> QED BY <1>1, <1>2, FS_Subset, FS_CardinalityType

LEMMA SameCounters ==
  ASSUME NEW v, NEW u, u.bmap = v.bmap, u.imap = v.imap, u.bfree = v.bfree, u.ifree = v.ifree
  PROVE  Counted(v, u)
BY DEF Counted, BlocksTotal, InodesTotal

\* A counter goes down by one as its map gets one element more, and the other way.
LEMMA OneTaken ==
  ASSUME NEW f \in Nat, NEW S, IsFiniteSet(S), NEW x, x \notin S
  PROVE  (((f - 1) % CountMod) + Cardinality(S \cup {x})) % CountMod = (f + Cardinality(S)) % CountMod
<1> DEFINE c == Cardinality(S)
<1>1. c \in Nat /\ Cardinality(S \cup {x}) = c + 1
  BY FS_AddElement, FS_CardinalityType
<1>2. f - 1 \in Int /\ c + 1 \in Int /\ (f - 1) + (c + 1) = f + c
  BY <1>1
<1>3. CountMod \in Nat \ {0}
  BY VolumeAssumption
<1> HIDE DEF c
<1>4. (((f - 1) % CountMod) + (c + 1)) % CountMod = ((f - 1) + (c + 1)) % CountMod
  BY <1>2, <1>3, ModInside
<1> QED BY ONLY <1>1, <1>2, <1>4 DEF c

LEMMA ManyGiven ==
  ASSUME NEW f \in Nat, NEW S, IsFiniteSet(S), NEW T, T \subseteq S
  PROVE  /\ Cardinality(T) \in Nat
         /\ (((f + Cardinality(T)) % CountMod) + Cardinality(S \ T)) % CountMod
              = (f + Cardinality(S)) % CountMod
<1> DEFINE c == Cardinality(S)
           t == Cardinality(T)
<1>1. c \in Nat /\ t \in Nat /\ IsFiniteSet(T)
  BY FS_Subset, FS_CardinalityType
<1>2. Cardinality(S \ T) = c - t
  <2>1. S \cap T = T
    OBVIOUS
  <2> QED BY <2>1, FS_Difference
<1>3. CountMod \in Nat \ {0}
  BY VolumeAssumption
<1> HIDE DEF c, t
<1>4. f + t \in Int /\ c - t \in Int /\ (f + t) + (c - t) = f + c
  BY <1>1
<1>5. (((f + t) % CountMod) + (c - t)) % CountMod = ((f + t) + (c - t)) % CountMod
  BY <1>3, <1>4, ModInside
<1> QED BY ONLY <1>1, <1>2, <1>4, <1>5 DEF c, t

LEMMA AllocateBlockCounts ==
  ASSUME NEW v, VolOK(v)
  PROVE  Counted(v, allocate_block(v).vol)
<1> DEFINE free == Blocks \ v.bmap
           b    == Min(free)
<1>1. CASE free = {}
  <2>1. allocate_block(v).vol = v
    BY <1>1 DEF allocate_block, Result
  <2> QED BY <2>1 DEF Counted
<1>2. CASE free # {}
  <2> DEFINE u == allocate_block(v).vol
  <2>1. b \notin v.bmap
    BY <1>2, MinIsLeast DEF Blocks
  <2> HIDE DEF b
  <2>2. /\ u.bmap = v.bmap \cup {b} /\ u.bfree = (v.bfree - 1) % CountMod
        /\ u.imap = v.imap /\ u.ifree = v.ifree
    BY <1>2 DEF allocate_block, Result, VolOK, Volumes, b
  <2> HIDE DEF u
  <2>3. BlocksTotal(u) = BlocksTotal(v)
    BY <2>1, <2>2, FiniteMaps, OneTaken DEF BlocksTotal
  <2>4. InodesTotal(u) = InodesTotal(v)
    BY <2>2 DEF InodesTotal
  <2> QED BY <2>3, <2>4 DEF Counted, u
<1> QED BY <1>1, <1>2

LEMMA BlockForCounts ==
  ASSUME NEW v, VolOK(v), NEW i \in Inodes, NEW k \in Index
  PROVE  Counted(v, BlockFor(v, i, k).vol) /\ BlockFor(v, i, k).vol.imap = v.imap
<1> DEFINE a == allocate_block(v)
           u == BlockFor(v, i, k).vol
<1>1. Counted(v, a.vol) /\ VolOK(a.vol) /\ a.vol.imap = v.imap
  BY AllocateBlockCounts, AllocateBlockOK
<1>2. u = v \/ u = a.vol \/ u = set_inode_block(a.vol, i, k, a.ret)
  BY DEF BlockFor, Attached, Result
<1> HIDE DEF a, u
<1>3. /\ Counted(a.vol, set_inode_block(a.vol, i, k, a.ret))
      /\ set_inode_block(a.vol, i, k, a.ret).imap = a.vol.imap
  <2> DEFINE w == set_inode_block(a.vol, i, k, a.ret)
  <2>1. /\ w.bmap = a.vol.bmap /\ w.imap = a.vol.imap
        /\ w.bfree = a.vol.bfree /\ w.ifree = a.vol.ifree
    BY <1>1 DEF set_inode_block, VolOK, Volumes
  <2> QED BY <2>1, SameCounters
<1> QED BY <1>1, <1>2, <1>3 DEF Counted, u

LEMMA CreateInodeCounts ==
  ASSUME NEW v, VolOK(v), NEW t
  PROVE  Counted(v, create_inode(v, t).vol)
<1> DEFINE free == Inodes \ v.imap
           i    == Min(free)
           u    == create_inode(v, t).vol
<1>1. CASE free = {}
  <2>1. u = v
    BY <1>1 DEF create_inode, allocate_inode, Result
  <2> QED BY <2>1 DEF Counted
<1>2. CASE free # {}
  <2>1. i \in Inodes /\ i \notin v.imap
    BY <1>2, MinIsLeast DEF Inodes
  <2> HIDE DEF i
  <2>2. i # Bad
    BY <2>1, VolumeAssumption DEF Inodes, Bad
  <2>3. /\ u.imap = v.imap \cup {i} /\ u.ifree = (v.ifree - 1) % CountMod
        /\ u.bmap = v.bmap /\ u.bfree = v.bfree
    BY <1>2, <2>2 DEF create_inode, allocate_inode, Result, VolOK, Volumes, i
  <2> HIDE DEF u
  <2>4. InodesTotal(u) = InodesTotal(v)
    BY <2>1, <2>3, FiniteMaps, OneTaken DEF InodesTotal
  <2>5. BlocksTotal(u) = BlocksTotal(v)
    BY <2>3 DEF BlocksTotal
  <2> QED BY <2>4, <2>5 DEF Counted, u
<1> QED BY <1>1, <1>2

\* The blocks come back once each, since they have one owner.  The inode counts
\* even when it was free.
LEMMA DeleteInodeCounts ==
  ASSUME NEW v, VolOK(v), NEW i \in Inodes
  PROVE  LET u == delete_inode(v, i)
         IN  /\ BlocksTotal(u) = BlocksTotal(v)
             /\ i \in v.imap => InodesTotal(u) = InodesTotal(v)
             /\ u.imap = v.imap \ {i} /\ u.ifree = (v.ifree + 1) % CountMod
<1> DEFINE freed == {k \in Index : v.itab[i].ptr[k] \in 1 .. MaxBlocks}
           gone  == {v.itab[i].ptr[k] : k \in freed}
           back  == [k \in freed |-> v.itab[i].ptr[k]]
           u     == delete_inode(v, i)
<1>1. /\ u.bmap = v.bmap \ gone /\ u.imap = v.imap \ {i}
      /\ u.bfree = (v.bfree + Cardinality(freed)) % CountMod
      /\ u.ifree = (v.ifree + 1) % CountMod
  BY DEF delete_inode, free_inode, free_blocks, VolOK, Volumes
<1>2. Cardinality(freed) = Cardinality(gone)
  <2>1. back \in Bijection(freed, gone)
    <3>1. back \in [freed -> gone] /\ \A b \in gone : \E k \in freed : back[k] = b
      OBVIOUS
    <3>2. \A k, l \in freed : back[k] = back[l] => k = l
      BY DEF VolOK, Owned
    <3> HIDE DEF back, freed, gone
    <3> QED BY <3>1, <3>2 DEF Bijection, Injection, Surjection, IsInjective
  <2>2. IsFiniteSet(freed)
    <3>1. IsFiniteSet(Index)
      BY FS_Interval, VolumeAssumption DEF Index
    <3> QED BY <3>1, FS_Subset
  <2> HIDE DEF back, freed, gone
  <2> QED BY <2>1, <2>2, FS_Bijection DEF ExistsBijection
<1>3. gone \subseteq v.bmap
  BY DEF VolOK, Owned
<1>4. BlocksTotal(u) = BlocksTotal(v)
  <2> HIDE DEF gone, u, freed
  <2>1. IsFiniteSet(v.bmap) /\ v.bfree \in Nat
    BY FiniteMaps
  <2>2. (((v.bfree + Cardinality(gone)) % CountMod) + Cardinality(v.bmap \ gone)) % CountMod
          = (v.bfree + Cardinality(v.bmap)) % CountMod
    BY <1>3, <2>1, ManyGiven, Zenon
  <2> QED BY ONLY <1>1, <1>2, <2>2 DEF BlocksTotal
<1>5. ASSUME i \in v.imap PROVE InodesTotal(u) = InodesTotal(v)
  <2>1. Cardinality({i}) = 1 /\ {i} \subseteq v.imap
    BY <1>5, FS_Singleton
  <2> HIDE DEF u
  <2>2. IsFiniteSet(v.imap) /\ v.ifree \in Nat
    BY FiniteMaps
  <2>3. (((v.ifree + Cardinality({i})) % CountMod) + Cardinality(v.imap \ {i})) % CountMod
          = (v.ifree + Cardinality(v.imap)) % CountMod
    BY <2>1, <2>2, ManyGiven, Zenon
  <2> QED BY ONLY <1>1, <2>1, <2>3 DEF InodesTotal
<1> QED BY <1>1, <1>4, <1>5
LEMMA WriteChunkCounts ==
  ASSUME NEW v, VolOK(v), NEW i \in Inodes, NEW off \in Nat, off < MaxFileWords, NEW n, NEW d
  PROVE  Counted(v, WriteChunk(v, i, off, n, d).vol)
<1> DEFINE k == off \div Slots
           a == BlockFor(v, i, k)
           u == WriteChunk(v, i, off, n, d).vol
<1>1. k \in Index
  BY PlaceIndex
<1>2. PICK words : u = a.vol \/ u = write_block(a.vol, a.ret, words)
  BY DEF WriteChunk, Result
<1> HIDE DEF k, u
<1>3. VolOK(a.vol) /\ Counted(v, a.vol)
  BY <1>1, BlockForOK, BlockForCounts
<1> HIDE DEF a
<1>4. Counted(a.vol, write_block(a.vol, a.ret, words))
  <2> DEFINE w == write_block(a.vol, a.ret, words)
  <2>1. /\ w.bmap = a.vol.bmap /\ w.imap = a.vol.imap
        /\ w.bfree = a.vol.bfree /\ w.ifree = a.vol.ifree
    BY <1>3 DEF write_block, VolOK, Volumes
  <2> QED BY <2>1, SameCounters
<1> QED BY <1>2, <1>3, <1>4 DEF Counted, u

----------------------------------------------------------------------------
(* Scans of a directory *)

AnyName == Names \cup {Dot, DotDot}

\* Locate finds a word with the name looked for, or returns block 0.
LEMMA LocateFindsIn ==
  ASSUME NEW v \in Volumes, NEW d, NEW n
  PROVE  LET at == Locate(v, d, n)
         IN  at.block # 0 => /\ at.block \in Blocks /\ at.slot \in Slot
                             /\ IsNamed(v.blk[at.block][at.slot], n)
                             /\ d \in Inodes /\ \E k \in Index : at.block = v.itab[d].ptr[k]
<1> DEFINE stops == {k \in Index : LET b == get_inode_block(v, d, k)
                                   IN  b = 0 \/ ~Readable(v, b) \/ \E s \in Slot : IsNamed(v.blk[b][s], n)}
           k == IF stops = {} THEN NDirect ELSE Min(stops)
           b == get_inode_block(v, d, k)
           hits == {s \in Slot : IsNamed(v.blk[b][s], n)}
<1>1. Locate(v, d, n) = IF d \in Inodes /\ k < NDirect /\ b # 0 /\ Readable(v, b)
                        THEN [block |-> b, slot |-> Min(hits)]
                        ELSE [block |-> 0, slot |-> 0]
  BY DEF Locate, ScanStop, FirstSlot, HasSlot
<1>2. CASE ~(d \in Inodes /\ k < NDirect /\ b # 0 /\ Readable(v, b))
  <2> HIDE DEF k, b, hits
  <2>1. Locate(v, d, n) = [block |-> 0, slot |-> 0]
    BY <1>1, <1>2
  <2> QED BY <2>1
<1>3. CASE d \in Inodes /\ k < NDirect /\ b # 0 /\ Readable(v, b)
  <2>1. stops # {}
    BY <1>3, VolumeAssumption
  <2>2. stops \subseteq Nat
    BY DEF Index
  <2>3. k \in stops
    BY <2>1, <2>2, MinIsLeast
  <2>4. k \in Index /\ \E s \in Slot : IsNamed(v.blk[b][s], n)
    BY <1>3, <2>3
  <2> HIDE DEF k
  <2>5. b \in Blocks
    <3>1. v.itab[d].ptr[k] \in 0 .. BitmapBits
      BY <1>3, <2>4 DEF Volumes, Inode
    <3>2. b = v.itab[d].ptr[k]
      BY DEF get_inode_block
    <3> QED BY <1>3, <3>1, <3>2, VolumeAssumption DEF Blocks
  <2>9. d \in Inodes /\ \E l \in Index : b = v.itab[d].ptr[l]
    BY <1>3, <2>4 DEF get_inode_block
  <2> HIDE DEF b
  <2>6. hits \subseteq Nat /\ hits # {}
    <3>1. hits # {}
      BY <2>4
    <3>2. Slot \subseteq Nat
      BY DEF Slot
    <3> QED BY <3>1, <3>2
  <2>7. Min(hits) \in hits
    BY <2>6, MinIsLeast
  <2>8. Locate(v, d, n).block = b /\ Locate(v, d, n).slot = Min(hits)
    BY <1>1, <1>3
  <2> HIDE DEF hits
  <2>10. \E l \in Index : Locate(v, d, n).block = v.itab[d].ptr[l]
    BY <2>8, <2>9
  <2>11. IsNamed(v.blk[b][Min(hits)], n) /\ Min(hits) \in Slot
    BY <2>7 DEF hits
  <2> QED BY <2>5, <2>8, <2>9, <2>10, <2>11
<1> QED BY <1>2, <1>3

LEMMA LocateFinds ==
  ASSUME NEW v, VolOK(v), NEW d, NEW n
  PROVE  LET at == Locate(v, d, n)
         IN  at.block # 0 => /\ at.block \in Blocks /\ at.slot \in Slot
                             /\ IsNamed(v.blk[at.block][at.slot], n)
                             /\ d \in Inodes /\ \E k \in Index : at.block = v.itab[d].ptr[k]
<1>1. v \in Volumes
  BY DEF VolOK
<1> QED BY <1>1, LocateFindsIn

\* What find_directory_entry returns is 0 or a number an entry may hold.
LEMMA FindTypeIn ==
  ASSUME NEW v \in Volumes, NEW d, NEW n
  PROVE  find_directory_entry(v, d, n) \in 0 .. MaxInodes
<1> DEFINE at == Locate(v, d, n)
<1>1. CASE at.block = 0
  BY <1>1, VolumeAssumption DEF find_directory_entry, FoundIno
<1>2. CASE at.block # 0
  <2>1. at.block \in Blocks /\ at.slot \in Slot
    BY <1>2, LocateFindsIn
  <2> DEFINE w == v.blk[at.block][at.slot]
  <2>2. w \in Word
    BY <2>1 DEF Volumes
  <2>3. EntryIno(w) \in 0 .. MaxInodes
    BY <2>2, VolumeAssumption DEF Word, EntryIno, Bad, Zero
  <2> QED BY <1>2, <2>3 DEF find_directory_entry, FoundIno
<1> QED BY <1>1, <1>2

LEMMA FindType ==
  ASSUME NEW v, VolOK(v), NEW d, NEW n
  PROVE  find_directory_entry(v, d, n) \in 0 .. MaxInodes
<1>1. v \in Volumes
  BY DEF VolOK
<1> QED BY <1>1, FindTypeIn

----------------------------------------------------------------------------
(* Entries *)

\* An entry put in a slot of a block.
LEMMA PutEntryOK ==
  ASSUME NEW v, VolOK(v), NEW b \in Blocks, NEW words \in [Slot -> Word], NEW s,
         NEW n \in AnyName, NEW c \in 1 .. MaxInodes
  PROVE  VolOK(PutEntry(v, b, words, s, n, c).vol)
<1> DEFINE new == [words EXCEPT ![s] = Entry(n, c)]
<1>1. Entry(n, c) \in Word
  BY DEF Entry, Word, AnyName
<1>2. new \in [Slot -> Word]
  BY <1>1
<1> HIDE DEF new
<1>3. VolOK(write_block(v, b, new))
  BY <1>2, WriteBlockOK
<1>4. VolOK(increment_link_count(write_block(v, b, new), c))
  BY <1>3, LinkCountOK
<1> QED BY <1>4 DEF PutEntry, Done, Result, new

\* The scan for a free entry stops at an index, or at none.
LEMMA FreeScanStops ==
  ASSUME NEW v, NEW d
  PROVE  ScanStop(v, d, IsFree) \in Index \cup {NDirect}
<1> DEFINE k == ScanStop(v, d, IsFree)
           stops == {l \in Index : LET x == get_inode_block(v, d, l)
                                   IN  x = 0 \/ ~Readable(v, x) \/ HasSlot(v, x, IsFree)}
<1>1. k = IF stops = {} THEN NDirect ELSE Min(stops)
  BY DEF ScanStop
<1>2. stops \subseteq Nat /\ stops \subseteq Index
  BY DEF Index
<1> HIDE DEF stops, k
<1>3. stops # {} => Min(stops) \in stops
  BY <1>2, MinIsLeast
<1>4. k \in Index \cup {NDirect}
  BY <1>1, <1>2, <1>3
<1> QED BY <1>4 DEF k

LEMMA AddEntryOK ==
  ASSUME NEW v, VolOK(v), NEW d, NEW n \in AnyName, NEW c \in 1 .. MaxInodes
  PROVE  VolOK(add_directory_entry(v, d, n, c).vol)
<1> DEFINE k == ScanStop(v, d, IsFree)
           b == get_inode_block(v, d, k)
           a == BlockFor(v, d, k)
<1>1. CASE d \notin Inodes \/ k = NDirect
  BY <1>1 DEF add_directory_entry, Fail, Result
<1>2. CASE ~(d \notin Inodes \/ k = NDirect)
  <2>1. k \in Index
    BY <1>2, FreeScanStops
  <2>2. VolOK(a.vol) /\ a.ret \in {0} \cup Blocks
    BY <1>2, <2>1, BlockForOK
  <2>3. b \in 0 .. BitmapBits
    BY <1>2, <2>1 DEF VolOK, Volumes, Inode, get_inode_block
  <2> HIDE DEF k, a, b
  <2>4. CASE b = 0
    <3>1. add_directory_entry(v, d, n, c) = PutInNewBlock(a, n, c)
      BY <1>2, <2>4 DEF add_directory_entry, k, a, b
    <3>2. CASE a.ret = 0
      BY <2>2, <3>1, <3>2 DEF PutInNewBlock, Fail, Result
    <3>3. CASE a.ret # 0
      <4>1. ZeroBlock \in [Slot -> Word]
        BY DEF ZeroBlock, Word
      <4>2. VolOK(PutEntry(a.vol, a.ret, ZeroBlock, 1, n, c).vol)
        BY <2>2, <3>3, <4>1, PutEntryOK
      <4> QED BY <3>1, <3>3, <4>2 DEF PutInNewBlock
    <3> QED BY <3>2, <3>3
  <2>5. CASE b # 0 /\ ~Readable(v, b)
    <3>1. add_directory_entry(v, d, n, c) = Fail(v)
      BY <1>2, <2>5 DEF add_directory_entry, k, b
    <3> QED BY <3>1 DEF Fail, Result
  <2>6. CASE b # 0 /\ Readable(v, b)
    <3> DEFINE s == FirstSlot(v, b, IsFree)
    <3>1. b \in Blocks
      BY <2>3, <2>6, VolumeAssumption DEF Blocks
    <3>2. v.blk[b] \in [Slot -> Word]
      BY <3>1 DEF VolOK, Volumes
    <3> HIDE DEF s
    <3>3. VolOK(PutEntry(v, b, v.blk[b], s, n, c).vol)
      BY <3>1, <3>2, PutEntryOK
    <3>4. add_directory_entry(v, d, n, c) = PutEntry(v, b, v.blk[b], s, n, c)
      BY <1>2, <2>6 DEF add_directory_entry, k, b, s
    <3> QED BY <3>3, <3>4
  <2> QED BY <2>4, <2>5, <2>6
<1> QED BY <1>1, <1>2

\* A second entry, whether it is tried or not.
LEMMA AddAfterOK ==
  ASSUME NEW r, VolOK(r.vol), NEW d, NEW n \in AnyName, NEW c \in 1 .. MaxInodes
  PROVE  VolOK(AddAfter(r, d, n, c).vol)
<1>1. VolOK(add_directory_entry(r.vol, d, n, c).vol)
  BY AddEntryOK
<1> QED BY <1>1 DEF AddAfter

LEMMA RemoveEntryOK ==
  ASSUME NEW v, VolOK(v), NEW d, NEW n
  PROVE  VolOK(remove_directory_entry(v, d, n).vol)
<1> DEFINE at    == Locate(v, d, n)
           words == [v.blk[at.block] EXCEPT ![at.slot] = Zero]
           w     == v.blk[at.block][at.slot]
<1>1. CASE at.block = 0
  BY <1>1 DEF remove_directory_entry, ClearEntry, Fail, Result
<1>2. CASE at.block # 0
  <2>1. at.block \in Blocks /\ at.slot \in Slot
    BY <1>2, LocateFinds
  <2> HIDE DEF at
  <2>2. words \in [Slot -> Word]
    BY <2>1 DEF VolOK, Volumes, Word
  <2>3. VolOK(write_block(v, at.block, words))
    BY <2>1, <2>2, WriteBlockOK
  <2>4. VolOK(decrement_link_count(write_block(v, at.block, words), w.ino))
    BY <2>3, LinkCountOK
  <2>5. remove_directory_entry(v, d, n) =
          Done(decrement_link_count(write_block(v, at.block, words), w.ino))
    BY <1>2 DEF remove_directory_entry, ClearEntry, at
  <2> QED BY <2>4, <2>5 DEF Done, Result
<1> QED BY <1>1, <1>2

LEMMA DotEntriesOK ==
  ASSUME NEW v, VolOK(v), NEW d \in 1 .. MaxInodes, NEW p \in 1 .. MaxInodes
  PROVE  VolOK(create_dot_entries(v, d, p).vol)
<1> DEFINE dot == add_directory_entry(v, d, Dot, d)
<1>1. VolOK(dot.vol)
  BY AddEntryOK DEF AnyName
<1> HIDE DEF dot
<1>2. VolOK(AddAfter(dot, d, DotDot, p).vol)
  BY <1>1, AddAfterOK DEF AnyName
<1> QED BY <1>2 DEF create_dot_entries, dot

----------------------------------------------------------------------------
(* Directories *)

\* An inode gets a block no inode has, its entries and its name, or goes again.
LEMMA FillDirectoryOK ==
  ASSUME NEW v, VolOK(v), NEW i \in 1 .. MaxInodes, NEW d \in 1 .. MaxInodes, NEW n \in AnyName
  PROVE  VolOK(FillDirectory(i, allocate_block(v), d, n).vol)
<1> DEFINE b    == allocate_block(v)
           set  == set_inode_block(b.vol, i, 0, b.ret)
           dots == create_dot_entries(set, i, d)
           made == AddAfter(dots, d, n, i)
<1>1. /\ VolOK(b.vol) /\ b.vol.itab = v.itab
      /\ b.ret # 0 => /\ b.ret \in Blocks \ v.bmap /\ b.ret > Reserved
                      /\ b.vol.bmap = v.bmap \cup {b.ret}
  BY AllocateBlockOK
<1> HIDE DEF b
<1>2. CASE b.ret = 0
  <2>1. FillDirectory(i, b, d, n) = Fail(delete_inode(b.vol, i))
    BY <1>2 DEF FillDirectory
  <2> QED BY <1>1, <2>1, DeleteInodeOK DEF Fail, Result, b
<1>3. CASE b.ret # 0
  <2>1. VolOK(set)
    <3>1. CASE i \notin Inodes
      BY <1>1, <3>1 DEF set_inode_block
    <3>2. CASE i \in Inodes
      <4>1. \A j \in Inodes, l \in Index : b.vol.itab[j].ptr[l] # b.ret
        BY <1>1, <1>3 DEF VolOK, Owned
      <4>2. 0 \in Index
        BY VolumeAssumption DEF Index
      <4> QED BY <1>1, <1>3, <3>2, <4>1, <4>2, AttachOK
    <3> QED BY <3>1, <3>2
  <2> HIDE DEF set
  <2>2. VolOK(dots.vol)
    BY <2>1, DotEntriesOK
  <2> HIDE DEF dots
  <2>3. VolOK(made.vol)
    BY <2>2, AddAfterOK
  <2> HIDE DEF made
  <2>4. FillDirectory(i, b, d, n) = IF made.ret = -1 THEN Fail(delete_inode(made.vol, i)) ELSE made
    BY <1>3 DEF FillDirectory, made, dots, set
  <2>5. VolOK(delete_inode(made.vol, i))
    BY <2>3, DeleteInodeOK
  <2> QED BY <2>3, <2>4, <2>5 DEF Fail, Result, b
<1> QED BY <1>2, <1>3

LEMMA MakeDirectoryOK ==
  ASSUME NEW v, VolOK(v), NEW d, NEW n \in AnyName
  PROVE  VolOK(MakeDirectory(v, d, n).vol)
<1> DEFINE i == create_inode(v, "dir")
<1>1. CASE ~is_directory(v, d)
  BY <1>1 DEF MakeDirectory, Fail, Result
<1>2. CASE is_directory(v, d) /\ find_directory_entry(v, d, n) # 0
  BY <1>2 DEF MakeDirectory, Done, Result
<1>3. CASE is_directory(v, d) /\ find_directory_entry(v, d, n) = 0
  <2>1. d \in 1 .. MaxInodes
    BY <1>3, VolumeAssumption DEF is_directory, IsType, Inodes
  <2>2. VolOK(i.vol) /\ i.ret \in 1 .. MaxInodes
    BY CreateInodeOK
  <2> HIDE DEF i
  <2>3. VolOK(FillDirectory(i.ret, allocate_block(i.vol), d, n).vol)
    BY <2>1, <2>2, FillDirectoryOK
  <2> QED BY <1>3, <2>3 DEF MakeDirectory, i
<1> QED BY <1>1, <1>2, <1>3

LEMMA DeleteDirectoryOK ==
  ASSUME NEW v, VolOK(v), NEW cwd, NEW p
  PROVE  VolOK(delete_directory(v, cwd, p).vol)
<1> DEFINE i == path_to_inode(v, cwd, p)
           d == get_parent_inode(v, cwd, p)
           r == remove_directory_entry(v, d, Last(p.comps))
<1>1. VolOK(delete_inode(r.vol, i))
  BY RemoveEntryOK, DeleteInodeOK
<1>2. \/ delete_directory(v, cwd, p) = Fail(v)
      \/ delete_directory(v, cwd, p) = Done(delete_inode(r.vol, i))
  BY DEF delete_directory
<1> QED BY <1>1, <1>2 DEF Fail, Done, Result

----------------------------------------------------------------------------
(* What the directory operations leave alone *)

\* An entry put in a block of inode d.
LEMMA PutEntryKeeps ==
  ASSUME NEW v, VolOK(v), NEW d \in Inodes, NEW k \in Index, v.itab[d].ptr[k] # 0,
         NEW words \in [Slot -> Word], NEW s, NEW n \in AnyName, NEW c \in 1 .. MaxInodes
  PROVE  LET u == PutEntry(v, v.itab[d].ptr[k], words, s, n, c).vol
         IN  Keeps(v, u, d, 0) /\ NoneLost(v, u)
<1> DEFINE b   == v.itab[d].ptr[k]
           new == [words EXCEPT ![s] = Entry(n, c)]
           w   == write_block(v, b, new)
           u   == increment_link_count(w, c)
<1>1. b \in Blocks
  BY VolumeAssumption DEF VolOK, Volumes, Inode, Blocks
<1>2. new \in [Slot -> Word]
  BY DEF Entry, Word, AnyName
<1> HIDE DEF new
<1>3. VolOK(w)
  BY <1>1, <1>2, WriteBlockOK
<1>4. Keeps(v, w, d, 0) /\ NoneLost(v, w)
  BY WriteBlockKeeps
<1>5. PutEntry(v, b, words, s, n, c).vol = u
  BY DEF PutEntry, Done, Result, new
<1> HIDE DEF w
<1>6. VolOK(u) /\ Keeps(w, u, 0, 0) /\ NoneLost(w, u)
  BY <1>3, LinkCountOK, LinkCountKeeps
<1> HIDE DEF u
<1>7. Keeps(w, u, d, 0)
  BY <1>6, KeepsMore
<1>8. Keeps(v, u, d, 0) /\ NoneLost(v, u)
  BY <1>3, <1>4, <1>6, <1>7, KeepsTrans, NoneLostTrans
<1> QED BY <1>5, <1>8

LEMMA AddEntryKeeps ==
  ASSUME NEW v, VolOK(v), NEW d, NEW n \in AnyName, NEW c \in 1 .. MaxInodes
  PROVE  LET u == add_directory_entry(v, d, n, c).vol
         IN  /\ Keeps(v, u, d, 0)
             /\ d \in v.imap => NoneLost(v, u)
             /\ d \notin Inodes => u = v
<1> DEFINE k == ScanStop(v, d, IsFree)
           b == get_inode_block(v, d, k)
           a == BlockFor(v, d, k)
           u == add_directory_entry(v, d, n, c).vol
<1>1. CASE u = v
  BY <1>1, KeepsSelf
<1>2. CASE u # v
  <2>1. d \in Inodes /\ k # NDirect
    BY <1>2 DEF add_directory_entry, Fail, Result
  <2>2. k \in Index
    BY <2>1, FreeScanStops
  <2>3. /\ VolOK(a.vol) /\ a.ret \in {0} \cup Blocks /\ Keeps(v, a.vol, d, 0)
        /\ d \in v.imap => NoneLost(v, a.vol)
        /\ a.ret # 0 => a.vol.itab[d].ptr[k] = a.ret
        /\ a.ret = 0 => a.vol = v
    BY <2>1, <2>2, BlockForOK, BlockForKeeps
  <2>4. b = v.itab[d].ptr[k]
    BY DEF get_inode_block
  <2> HIDE DEF k, a, b, u
  <2>5. CASE b = 0
    <3>1. u = PutInNewBlock(a, n, c).vol
      BY <2>1, <2>5 DEF add_directory_entry, k, a, b, u
    <3>2. a.ret # 0
      BY <1>2, <2>3, <3>1 DEF PutInNewBlock, Fail, Result
    <3>3. u = PutEntry(a.vol, a.ret, ZeroBlock, 1, n, c).vol
      BY <3>1, <3>2 DEF PutInNewBlock
    <3>4. ZeroBlock \in [Slot -> Word]
      BY DEF ZeroBlock, Word
    <3>5. /\ Keeps(a.vol, PutEntry(a.vol, a.vol.itab[d].ptr[k], ZeroBlock, 1, n, c).vol, d, 0)
          /\ NoneLost(a.vol, PutEntry(a.vol, a.vol.itab[d].ptr[k], ZeroBlock, 1, n, c).vol)
      BY <2>1, <2>2, <2>3, <3>2, <3>4, PutEntryKeeps
    <3>6. Keeps(a.vol, u, d, 0) /\ NoneLost(a.vol, u)
      BY <2>3, <3>2, <3>3, <3>5
    <3>7. VolOK(u)
      BY AddEntryOK DEF u
    <3>8. Keeps(v, u, d, 0)
      BY <2>3, <3>6, <3>7, KeepsTrans
    <3> QED BY <2>1, <2>3, <3>6, <3>8, NoneLostTrans DEF u
  <2>6. CASE b # 0
    <3> DEFINE s == FirstSlot(v, b, IsFree)
    <3> HIDE DEF s
    <3>1. u = PutEntry(v, b, v.blk[b], s, n, c).vol
      BY <1>2, <2>1, <2>6 DEF add_directory_entry, Fail, Result, k, b, u, s
    <3>2. v.blk[b] \in [Slot -> Word]
      BY <2>1, <2>2, <2>4, <2>6, VolumeAssumption DEF VolOK, Volumes, Inode, Blocks
    <3>3. /\ Keeps(v, PutEntry(v, v.itab[d].ptr[k], v.blk[b], s, n, c).vol, d, 0)
          /\ NoneLost(v, PutEntry(v, v.itab[d].ptr[k], v.blk[b], s, n, c).vol)
      <4>1. v.itab[d].ptr[k] # 0
        BY <2>4, <2>6
      <4> DEFINE old == v.blk[b]
      <4>2. old \in [Slot -> Word]
        BY <3>2
      <4> HIDE DEF old
      <4>3. /\ Keeps(v, PutEntry(v, v.itab[d].ptr[k], old, s, n, c).vol, d, 0)
            /\ NoneLost(v, PutEntry(v, v.itab[d].ptr[k], old, s, n, c).vol)
        BY <2>1, <2>2, <4>1, <4>2, PutEntryKeeps
      <4> QED BY <4>3 DEF old
    <3>4. Keeps(v, u, d, 0) /\ NoneLost(v, u)
      BY <2>4, <3>1, <3>3
    <3> QED BY <2>1, <3>4 DEF u
  <2> QED BY <2>5, <2>6
<1> QED BY <1>1, <1>2

LEMMA AddAfterKeeps ==
  ASSUME NEW r, VolOK(r.vol), NEW d, NEW n \in AnyName, NEW c \in 1 .. MaxInodes
  PROVE  LET u == AddAfter(r, d, n, c).vol
         IN  /\ Keeps(r.vol, u, d, 0)
             /\ d \in r.vol.imap => NoneLost(r.vol, u)
             /\ d \notin Inodes => u = r.vol
<1> DEFINE u == add_directory_entry(r.vol, d, n, c).vol
<1>1. /\ Keeps(r.vol, u, d, 0)
      /\ d \in r.vol.imap => NoneLost(r.vol, u)
      /\ d \notin Inodes => u = r.vol
  BY AddEntryKeeps
<1>2. Keeps(r.vol, r.vol, d, 0) /\ NoneLost(r.vol, r.vol)
  BY KeepsSelf
<1>3. AddAfter(r, d, n, c).vol \in {r.vol, u}
  BY DEF AddAfter
<1> HIDE DEF u
<1> QED BY <1>1, <1>2, <1>3

\* What delete and rmdir do to directory d: an entry or more of it is zero.
OnlyClears(v, u, d) ==
  /\ \A k \in Index : u.itab[d].ptr[k] = v.itab[d].ptr[k]
  /\ \A k \in Index, s \in Slot : v.itab[d].ptr[k] # 0 =>
       LET b == v.itab[d].ptr[k]
       IN  \/ u.blk[b][s] = v.blk[b][s]
           \/ v.blk[b][s].tag = "entry" /\ u.blk[b][s] = Zero

\* An entry that is removed leaves its place zero; nothing else changes.
LEMMA RemoveEntryKeeps ==
  ASSUME NEW v, VolOK(v), NEW d, NEW n, NEW r, r = remove_directory_entry(v, d, n), r.ret = 0
  PROVE  /\ d \in Inodes /\ Keeps(v, r.vol, d, 0) /\ NoneLost(v, r.vol)
         /\ OnlyClears(v, r.vol, d)
<1> DEFINE at    == Locate(v, d, n)
           words == [v.blk[at.block] EXCEPT ![at.slot] = Zero]
           x     == v.blk[at.block][at.slot].ino
           w     == write_block(v, at.block, words)
           u     == decrement_link_count(w, x)
<1>1. CASE at.block = 0
  <2>1. r = Fail(v)
    BY <1>1 DEF remove_directory_entry, ClearEntry
  <2> QED BY <2>1 DEF Fail, Result
<1>2. CASE at.block # 0
  <2>1. /\ at.block \in Blocks /\ at.slot \in Slot /\ v.blk[at.block][at.slot].tag = "entry"
        /\ d \in Inodes /\ \E k \in Index : at.block = v.itab[d].ptr[k]
    BY <1>2, LocateFinds DEF IsNamed
  <2>2. PICK k \in Index : at.block = v.itab[d].ptr[k]
    BY <2>1
  <2>3. remove_directory_entry(v, d, n) = Done(u)
    BY <1>2 DEF remove_directory_entry, ClearEntry
  <2> HIDE DEF at
  <2>4. words \in [Slot -> Word]
    BY <2>1 DEF VolOK, Volumes, Word
  <2>5. VolOK(w)
    BY <2>1, <2>4, WriteBlockOK
  <2> HIDE DEF words
  <2>6. /\ Keeps(v, w, d, 0) /\ NoneLost(v, w) /\ w.itab = v.itab
        /\ w.blk = [v.blk EXCEPT ![at.block] = words]
    <3>1. w = write_block(v, v.itab[d].ptr[k], words)
      BY <2>2
    <3> HIDE DEF w
    <3> QED BY <1>2, <2>1, <2>2, <3>1, WriteBlockKeeps
  <2> HIDE DEF w
  <2>7. /\ VolOK(u) /\ Keeps(w, u, 0, 0) /\ NoneLost(w, u) /\ u.blk = w.blk
        /\ \A j \in Inodes : u.itab[j].ptr = w.itab[j].ptr
    BY <2>5, LinkCountOK, LinkCountKeeps
  <2> HIDE DEF u
  <2>8. Keeps(w, u, d, 0)
    BY <2>7, KeepsMore
  <2>9. Keeps(v, u, d, 0) /\ NoneLost(v, u)
    BY <2>5, <2>6, <2>7, <2>8, KeepsTrans, NoneLostTrans
  <2>10. \A l \in Index : u.itab[d].ptr[l] = v.itab[d].ptr[l]
    BY <2>1, <2>6, <2>7
  <2>11. ASSUME NEW b \in Blocks, NEW s \in Slot
         PROVE  \/ u.blk[b][s] = v.blk[b][s]
                \/ v.blk[b][s].tag = "entry" /\ u.blk[b][s] = Zero
    <3>1. u.blk = [v.blk EXCEPT ![at.block] = words]
      BY <2>6, <2>7
    <3>2. CASE b # at.block
      <4>1. u.blk[b] = v.blk[b]
        BY <3>1, <3>2 DEF VolOK, Volumes
      <4> QED BY <4>1
    <3>3. CASE b = at.block
      <4>1. u.blk[b] = words
        BY <3>1, <3>3 DEF VolOK, Volumes
      <4>2. words[s] = IF s = at.slot THEN Zero ELSE v.blk[at.block][s]
        BY <2>1 DEF words, VolOK, Volumes
      <4>3. u.blk[b][s] = IF s = at.slot THEN Zero ELSE v.blk[b][s]
        BY <3>3, <4>1, <4>2
      <4>4. s = at.slot => v.blk[b][s].tag = "entry"
        BY <2>1, <3>3
      <4> QED BY <4>3, <4>4
    <3> QED BY <3>2, <3>3
  <2>12. \A l \in Index : v.itab[d].ptr[l] # 0 => v.itab[d].ptr[l] \in Blocks
    BY <2>1, VolumeAssumption DEF VolOK, Volumes, Inode, Blocks
  <2>13. r.vol = u
    BY <2>3 DEF Done, Result
  <2>14. OnlyClears(v, u, d)
    BY <2>10, <2>11, <2>12, Zenon DEF OnlyClears
  <2> QED BY <2>1, <2>9, <2>13, <2>14, Zenon
<1> QED BY <1>1, <1>2

LEMMA DotEntriesKeeps ==
  ASSUME NEW v, VolOK(v), NEW d \in 1 .. MaxInodes, NEW p \in 1 .. MaxInodes
  PROVE  LET u == create_dot_entries(v, d, p)
         IN  /\ Keeps(v, u.vol, d, 0)
             /\ d \in v.imap => NoneLost(v, u.vol)
             /\ d \notin Inodes => u.vol = v /\ u.ret = -1
<1> DEFINE dot == add_directory_entry(v, d, Dot, d)
           u   == AddAfter(dot, d, DotDot, p)
<1>1. /\ VolOK(dot.vol) /\ Keeps(v, dot.vol, d, 0)
      /\ d \in v.imap => NoneLost(v, dot.vol)
      /\ d \notin Inodes => dot.vol = v
  BY AddEntryOK, AddEntryKeeps DEF AnyName
<1>2. d \notin Inodes => dot.ret = -1
  BY DEF add_directory_entry, Fail, Result
<1> HIDE DEF dot
<1>3. /\ VolOK(u.vol) /\ Keeps(dot.vol, u.vol, d, 0)
      /\ d \in dot.vol.imap => NoneLost(dot.vol, u.vol)
      /\ d \notin Inodes => u.vol = dot.vol
  BY <1>1, AddAfterOK, AddAfterKeeps DEF AnyName
<1>4. d \notin Inodes => u.ret = -1
  BY <1>2 DEF AddAfter
<1>5. create_dot_entries(v, d, p) = u
  BY DEF create_dot_entries, dot
<1> HIDE DEF u
<1>6. Keeps(v, u.vol, d, 0)
  BY <1>1, <1>3, KeepsTrans
<1>7. ASSUME d \in v.imap PROVE NoneLost(v, u.vol)
  <2>1. d \in Inodes /\ d # 0
    BY <1>7 DEF VolOK, Volumes, Inodes
  <2>2. d \in dot.vol.imap
    BY <1>1, <1>7, <2>1 DEF Keeps, SameInode
  <2> QED BY <1>1, <1>3, <1>7, <2>2, NoneLostTrans
<1> QED BY <1>1, <1>3, <1>4, <1>5, <1>6, <1>7

\* From v to u, inode d may get blocks and words, and inode i, which was free or
\* is free now, anything but a size.  No block is lost, unless no inode was free.
NamespaceStep(v, u, d, i) ==
  /\ Keeps(v, u, d, i)
  /\ NoneLost(v, u) \/ v.imap = Inodes
  /\ i \in Inodes => /\ i \notin v.imap \cap u.imap
                     /\ u.itab[i].size = 0
                     /\ i \notin u.imap => u.itab[i].type = "none"

\* An inode i that was just created gets a block, its entries and its name.
LEMMA FillDirectoryKeeps ==
  ASSUME NEW v, VolOK(v), NEW i \in 1 .. MaxInodes, NEW d \in v.imap, d # i, NEW n \in AnyName,
         i \in Inodes => /\ i \in v.imap /\ v.itab[i].type = "dir" /\ v.itab[i].size = 0
                         /\ \A k \in Index : v.itab[i].ptr[k] = 0
  PROVE  LET u == FillDirectory(i, allocate_block(v), d, n).vol
         IN  /\ Keeps(v, u, d, i)
             /\ i \in Inodes => /\ NoneLost(v, u)
                                /\ u.itab[i].size = 0
                                /\ i \notin u.imap => u.itab[i].type = "none"
                                /\ i \in u.imap => u.itab[i].type = "dir"
<1> DEFINE b    == allocate_block(v)
           set  == set_inode_block(b.vol, i, 0, b.ret)
           dots == create_dot_entries(set, i, d)
           made == AddAfter(dots, d, n, i)
           gone == delete_inode(made.vol, i)
           u    == FillDirectory(i, b, d, n).vol
<1>0. d \in Inodes /\ d \in 1 .. MaxInodes /\ d # 0 /\ i # 0 /\ 0 \in Index
  BY VolumeAssumption DEF VolOK, Volumes, Inodes, Index
<1>1. /\ VolOK(b.vol) /\ b.vol.itab = v.itab /\ b.vol.imap = v.imap
      /\ b.vol.blk = v.blk /\ b.vol.end = v.end
      /\ b.ret = 0 => b.vol = v
      /\ b.ret # 0 => /\ b.ret \in Blocks \ v.bmap /\ b.ret > Reserved
                      /\ b.vol.bmap = v.bmap \cup {b.ret}
  BY AllocateBlockOK
<1>2. /\ b.ret = 0 => u = delete_inode(v, i)
      /\ b.ret # 0 => u = made.vol \/ u = gone
      /\ b.ret # 0 /\ made.ret = -1 => u = gone
  BY <1>1 DEF FillDirectory, Fail, Result
<1>3. CASE b.ret = 0
  <2>1. CASE i \in Inodes
    <3>1. /\ Keeps(v, u, 0, i) /\ NoneLost(v, u) /\ u.imap = v.imap \ {i}
          /\ u.itab[i].type = "none" /\ u.itab[i].size = 0
      BY <1>2, <1>3, <2>1, DeleteInodeKeeps
    <3>2. Keeps(v, u, d, i)
      BY <3>1, KeepsMore
    <3> QED BY <3>1, <3>2
  <2>2. CASE i \notin Inodes
    <3>1. u = v
      BY <1>2, <1>3, <2>2 DEF delete_inode
    <3>2. Keeps(v, u, d, i)
      BY <3>1, KeepsSelf
    <3> QED BY <2>2, <3>2
  <2> QED BY <2>1, <2>2
<1>4. CASE b.ret # 0 /\ i \notin Inodes
  <2>1. set = b.vol
    BY <1>4 DEF set_inode_block
  <2>2. dots.vol = b.vol /\ dots.ret = -1
    BY <1>0, <1>1, <1>4, <2>1, DotEntriesKeeps
  <2>3. made = dots
    BY <2>2 DEF AddAfter
  <2>4. u = b.vol
    BY <1>2, <1>4, <2>2, <2>3 DEF delete_inode
  <2> HIDE DEF u, b
  <2>5. Keeps(v, b.vol, d, i)
    BY <1>1 DEF Keeps, SameInode, SameFile, VolOK, Volumes
  <2> QED BY <1>4, <2>4, <2>5 DEF u, b
<1>5. CASE b.ret # 0 /\ i \in Inodes
  <2>1. BlockFor(v, i, 0) = Result(set, b.ret)
    BY <1>0, <1>5 DEF BlockFor, get_inode_block, Attached
  <2>2. /\ VolOK(set) /\ Keeps(v, set, i, 0) /\ NoneLost(v, set)
    <3>1. BlockFor(v, i, 0).vol = set
      BY <2>1 DEF Result
    <3> QED BY <1>0, <1>5, <3>1, BlockForOK, BlockForKeeps
  <2> HIDE DEF set
  <2>3. /\ VolOK(dots.vol) /\ Keeps(set, dots.vol, i, 0)
        /\ i \in set.imap => NoneLost(set, dots.vol)
    BY <1>0, <2>2, DotEntriesOK, DotEntriesKeeps
  <2> HIDE DEF dots
  <2>4. /\ VolOK(made.vol) /\ Keeps(dots.vol, made.vol, d, 0)
        /\ d \in dots.vol.imap => NoneLost(dots.vol, made.vol)
    BY <2>3, AddAfterOK, AddAfterKeeps
  <2> HIDE DEF made
  <2>5. /\ VolOK(gone) /\ Keeps(made.vol, gone, 0, i) /\ NoneLost(made.vol, gone)
        /\ gone.imap = made.vol.imap \ {i}
        /\ gone.itab[i].type = "none" /\ gone.itab[i].size = 0
    BY <1>5, <2>4, DeleteInodeOK, DeleteInodeKeeps
  <2> HIDE DEF gone, u, b
  <2>6. /\ SameInode(v, set, i) /\ SameInode(set, dots.vol, i) /\ SameInode(dots.vol, made.vol, i)
        /\ SameInode(v, set, d) /\ SameInode(set, dots.vol, d)
    BY <1>0, <1>5, <2>2, <2>3, <2>4 DEF Keeps
  <2>7. i \in set.imap /\ d \in dots.vol.imap
    BY <1>5, <2>6 DEF SameInode
  <2>8. i \in made.vol.imap /\ made.vol.itab[i].type = "dir" /\ made.vol.itab[i].size = 0
    BY <1>5, <2>6 DEF SameInode
  <2>9. NoneLost(v, made.vol) /\ NoneLost(v, gone)
    BY <2>2, <2>3, <2>4, <2>5, <2>7, NoneLostTrans
  <2>10. Keeps(v, set, d, i) /\ Keeps(set, dots.vol, d, i) /\ Keeps(dots.vol, made.vol, d, i)
         /\ Keeps(made.vol, gone, d, i)
    BY <2>2, <2>3, <2>4, <2>5, KeepsMore
  <2>11. Keeps(v, dots.vol, d, i)
    BY <2>2, <2>3, <2>10, KeepsTrans
  <2>12. Keeps(v, made.vol, d, i)
    BY <2>3, <2>4, <2>10, <2>11, KeepsTrans
  <2>13. Keeps(v, gone, d, i)
    BY <2>4, <2>5, <2>10, <2>12, KeepsTrans
  <2>14. u = made.vol \/ u = gone
    BY <1>2, <1>5
  <2> QED BY <2>5, <2>8, <2>9, <2>12, <2>13, <2>14 DEF u, b
<1> QED BY <1>3, <1>4, <1>5

\* An allocated inode is not the one create_inode returns.
LEMMA DirectoryIsAllocated ==
  ASSUME NEW v, VolOK(v), FreeUntyped(v), NEW d, is_directory(v, d)
  PROVE  d \in v.imap /\ d \in 1 .. MaxInodes
  BY VolumeAssumption DEF FreeUntyped, is_directory, IsType, Inodes

LEMMA NothingHappens ==
  ASSUME NEW v, VolOK(v), NEW d
  PROVE  NamespaceStep(v, v, d, MaxInodes)
<1>1. MaxInodes \notin Inodes
  BY VolumeAssumption DEF Inodes
<1> QED BY <1>1, KeepsSelf DEF NamespaceStep

LEMMA MakeDirectoryKeeps ==
  ASSUME NEW v, VolOK(v), FreeUntyped(v), NEW d, NEW n \in AnyName
  PROVE  LET u == MakeDirectory(v, d, n).vol
         IN  \E i \in 1 .. MaxInodes :
               /\ NamespaceStep(v, u, d, i)
               /\ i \in Inodes => i \notin v.imap /\ (i \in u.imap => u.itab[i].type = "dir")
               /\ u = v \/ is_directory(v, d)
<1> DEFINE a == create_inode(v, "dir")
           u == MakeDirectory(v, d, n).vol
<1>1. CASE ~is_directory(v, d) \/ find_directory_entry(v, d, n) # 0
  <2>1. u = v
    BY <1>1 DEF MakeDirectory, Fail, Done, Result
  <2>2. NamespaceStep(v, v, d, MaxInodes)
    BY NothingHappens
  <2>3. MaxInodes \notin Inodes /\ MaxInodes \in 1 .. MaxInodes
    BY VolumeAssumption DEF Inodes
  <2> HIDE DEF u
  <2> QED BY <2>1, <2>2, <2>3 DEF u
<1>2. CASE is_directory(v, d) /\ find_directory_entry(v, d, n) = 0
  <2>1. u = FillDirectory(a.ret, allocate_block(a.vol), d, n).vol
    BY <1>2 DEF MakeDirectory
  <2>2. /\ VolOK(a.vol) /\ a.ret \in 1 .. MaxInodes
        /\ Keeps(v, a.vol, 0, a.ret) /\ NoneLost(v, a.vol)
        /\ a.ret \in Inodes => /\ a.ret \notin v.imap /\ a.vol.imap = v.imap \cup {a.ret}
                               /\ a.vol.itab[a.ret].type = "dir" /\ a.vol.itab[a.ret].size = 0
                               /\ \A k \in Index : a.vol.itab[a.ret].ptr[k] = 0
        /\ a.ret \notin Inodes => a.vol = v /\ v.imap = Inodes
    BY CreateInodeOK, CreateInodeKeeps
  <2>3. d \in v.imap /\ d \in 1 .. MaxInodes
    BY <1>2, DirectoryIsAllocated
  <2> HIDE DEF a
  <2>4. d \in a.vol.imap /\ d # a.ret
    BY <2>2, <2>3 DEF VolOK, Volumes
  <2> DEFINE w == FillDirectory(a.ret, allocate_block(a.vol), d, n).vol
             i == a.ret
  <2>5. /\ Keeps(a.vol, w, d, i)
        /\ i \in Inodes => /\ NoneLost(a.vol, w)
                           /\ w.itab[i].size = 0
                           /\ i \notin w.imap => w.itab[i].type = "none"
                           /\ i \in w.imap => w.itab[i].type = "dir"
    <3>1. i \in Inodes => /\ i \in a.vol.imap /\ a.vol.itab[i].type = "dir"
                          /\ a.vol.itab[i].size = 0 /\ \A k \in Index : a.vol.itab[i].ptr[k] = 0
      BY <2>2
    <3> HIDE DEF w
    <3> QED BY <2>2, <2>4, <3>1, FillDirectoryKeeps DEF w
  <2>6. VolOK(w)
    BY <2>2, <2>3, FillDirectoryOK
  <2> HIDE DEF w, u
  <2>7. Keeps(v, w, d, i)
    <3>1. Keeps(v, a.vol, d, i)
      BY <2>2, KeepsMore
    <3> QED BY <2>2, <2>5, <2>6, <3>1, KeepsTrans
  <2>8. NoneLost(v, w) \/ v.imap = Inodes
    BY <2>2, <2>5, NoneLostTrans
  <2>9. /\ NamespaceStep(v, w, d, i)
        /\ i \in Inodes => i \notin v.imap /\ (i \in w.imap => w.itab[i].type = "dir")
    BY <2>2, <2>5, <2>7, <2>8 DEF NamespaceStep
  <2>10. u = w
    BY <2>1 DEF w
  <2> QED BY <1>2, <2>2, <2>9, <2>10 DEF u
<1> QED BY <1>1, <1>2

LEMMA NewFileOK ==
  ASSUME NEW v, VolOK(v), NEW d, NEW n \in AnyName
  PROVE  VolOK(NewFile(v, d, n))
<1> DEFINE i    == create_inode(v, "reg")
           link == add_directory_entry(i.vol, d, n, i.ret)
<1>1. VolOK(i.vol) /\ i.ret \in 1 .. MaxInodes
  BY CreateInodeOK
<1>2. VolOK(link.vol)
  BY <1>1, AddEntryOK
<1>3. VolOK(delete_inode(link.vol, i.ret))
  BY <1>2, DeleteInodeOK
<1> QED BY <1>2, <1>3 DEF NewFile

LEMMA NewFileKeeps ==
  ASSUME NEW v, VolOK(v), FreeUntyped(v), NEW d, is_directory(v, d), NEW n \in AnyName
  PROVE  LET u == NewFile(v, d, n)
         IN  \E i \in 1 .. MaxInodes :
               /\ i = create_inode(v, "reg").ret
               /\ NamespaceStep(v, u, d, i)
               /\ i \in Inodes => i \notin v.imap /\ (i \in u.imap => u.itab[i].type = "reg")
<1> DEFINE a    == create_inode(v, "reg")
           i    == a.ret
           link == add_directory_entry(a.vol, d, n, i)
           gone == delete_inode(link.vol, i)
           u    == NewFile(v, d, n)
<1>1. u = link.vol \/ u = gone
  BY DEF NewFile
<1>2. /\ VolOK(a.vol) /\ a.ret \in 1 .. MaxInodes
      /\ Keeps(v, a.vol, 0, a.ret) /\ NoneLost(v, a.vol)
      /\ a.ret \in Inodes => /\ a.ret \notin v.imap /\ a.vol.imap = v.imap \cup {a.ret}
                             /\ a.vol.itab[a.ret].type = "reg" /\ a.vol.itab[a.ret].size = 0
      /\ a.ret \notin Inodes => a.vol = v /\ v.imap = Inodes
  BY CreateInodeOK, CreateInodeKeeps
<1>3. d \in v.imap /\ d \in Inodes /\ d # 0
  BY DirectoryIsAllocated DEF is_directory, IsType, Inodes
<1> HIDE DEF a
<1>4. d \in a.vol.imap /\ d # i
  BY <1>2, <1>3 DEF VolOK, Volumes
<1>5. VolOK(link.vol) /\ Keeps(a.vol, link.vol, d, 0) /\ NoneLost(a.vol, link.vol)
  BY <1>2, <1>4, AddEntryOK, AddEntryKeeps
<1> HIDE DEF link
<1>6. /\ VolOK(gone)
      /\ i \in Inodes => /\ Keeps(link.vol, gone, 0, i) /\ NoneLost(link.vol, gone)
                         /\ gone.imap = link.vol.imap \ {i}
                         /\ gone.itab[i].type = "none" /\ gone.itab[i].size = 0
      /\ i \notin Inodes => gone = link.vol
  BY <1>5, DeleteInodeOK, DeleteInodeKeeps DEF delete_inode
<1> HIDE DEF gone, u
<1>7. Keeps(v, link.vol, d, i) /\ NoneLost(v, link.vol)
  <2>1. Keeps(v, a.vol, d, i) /\ Keeps(a.vol, link.vol, d, i)
    BY <1>2, <1>5, KeepsMore
  <2> QED BY <1>2, <1>5, <2>1, KeepsTrans, NoneLostTrans
<1>8. i \in Inodes => /\ i \in link.vol.imap /\ link.vol.itab[i].type = "reg"
                      /\ link.vol.itab[i].size = 0
  <2> SUFFICES ASSUME i \in Inodes
               PROVE  /\ i \in link.vol.imap /\ link.vol.itab[i].type = "reg"
                      /\ link.vol.itab[i].size = 0
    OBVIOUS
  <2>1. SameInode(a.vol, link.vol, i)
    BY <1>2, <1>5 DEF Keeps, Inodes
  <2> QED BY <1>2, <2>1 DEF SameInode
<1>9. CASE u = link.vol
  <2>1. NamespaceStep(v, u, d, i) /\ (i \in Inodes => u.itab[i].type = "reg")
    BY <1>2, <1>7, <1>8, <1>9 DEF NamespaceStep
  <2> QED BY <1>2, <2>1 DEF u, a
<1>10. CASE u = gone /\ u # link.vol
  <2>1. i \in Inodes
    BY <1>6, <1>10
  <2>2. Keeps(v, gone, d, i) /\ NoneLost(v, gone)
    <3>1. Keeps(link.vol, gone, d, i)
      BY <1>6, <2>1, KeepsMore
    <3> QED BY <1>5, <1>6, <1>7, <2>1, <3>1, KeepsTrans, NoneLostTrans
  <2>3. NamespaceStep(v, u, d, i) /\ i \notin u.imap
    BY <1>6, <1>10, <2>1, <2>2 DEF NamespaceStep
  <2> QED BY <1>2, <2>3 DEF u, a
<1> QED BY <1>1, <1>9, <1>10

\* An entry is removed from d, and the inode that a path led to goes.
LEMMA RemoveKeeps ==
  ASSUME NEW v, VolOK(v), NEW d, NEW n, NEW i \in Inodes,
         remove_directory_entry(v, d, n).ret = 0
  PROVE  LET u == delete_inode(remove_directory_entry(v, d, n).vol, i)
         IN  /\ d \in Inodes /\ NamespaceStep(v, u, d, i) /\ i \notin u.imap
             /\ d # i => OnlyClears(v, u, d)
<1> DEFINE r == remove_directory_entry(v, d, n)
           u == delete_inode(r.vol, i)
<1>1. /\ VolOK(r.vol)
      /\ d \in Inodes /\ Keeps(v, r.vol, d, 0) /\ NoneLost(v, r.vol)
      /\ OnlyClears(v, r.vol, d)
  <2>1. r.ret = 0 /\ VolOK(r.vol)
    BY RemoveEntryOK, Zenon
  <2>2. r = remove_directory_entry(v, d, n)
    OBVIOUS
  <2> HIDE DEF r
  <2> QED BY <2>1, <2>2, RemoveEntryKeeps, Zenon
<1> HIDE DEF r
<1>2. /\ VolOK(u) /\ Keeps(r.vol, u, 0, i) /\ NoneLost(r.vol, u)
      /\ u.imap = r.vol.imap \ {i}
      /\ u.itab[i].type = "none" /\ u.itab[i].size = 0
  BY <1>1, DeleteInodeOK, DeleteInodeKeeps
<1> HIDE DEF u
<1>3. Keeps(v, u, d, i) /\ NoneLost(v, u)
  <2>1. Keeps(v, r.vol, d, i) /\ Keeps(r.vol, u, d, i)
    BY <1>1, <1>2, KeepsMore
  <2> QED BY <1>1, <1>2, <2>1, KeepsTrans, NoneLostTrans
<1>4. NamespaceStep(v, u, d, i) /\ i \notin u.imap
  BY <1>2, <1>3 DEF NamespaceStep
<1>5. ASSUME d # i PROVE OnlyClears(v, u, d)
  <2>1. SameFile(r.vol, u, d)
    BY <1>1, <1>2, <1>5 DEF Keeps, Inodes
  <2>2. \A k \in Index : /\ u.itab[d].ptr[k] = r.vol.itab[d].ptr[k]
                         /\ r.vol.itab[d].ptr[k] = v.itab[d].ptr[k]
    BY <1>1, <2>1 DEF OnlyClears, SameFile
  <2>3. \A k \in Index : v.itab[d].ptr[k] # 0 =>
          u.blk[v.itab[d].ptr[k]] = r.vol.blk[v.itab[d].ptr[k]]
    BY <2>1, <2>2 DEF SameFile
  <2>4. ASSUME NEW k \in Index, NEW s \in Slot, v.itab[d].ptr[k] # 0, NEW b, b = v.itab[d].ptr[k]
        PROVE  \/ u.blk[b][s] = v.blk[b][s]
               \/ v.blk[b][s].tag = "entry" /\ u.blk[b][s] = Zero
    <3>1. u.blk[b] = r.vol.blk[b]
      BY <2>3, <2>4
    <3>2. \/ r.vol.blk[b][s] = v.blk[b][s]
          \/ v.blk[b][s].tag = "entry" /\ r.vol.blk[b][s] = Zero
      BY <1>1, <2>4 DEF OnlyClears
    <3> QED BY <3>1, <3>2
  <2> QED BY <2>2, <2>4 DEF OnlyClears
<1> QED BY <1>1, <1>4, <1>5 DEF u, r

LEMMA DeleteDirectoryKeeps ==
  ASSUME NEW v, VolOK(v), NEW cwd, NEW p, delete_directory(v, cwd, p).ret = 0
  PROVE  LET u == delete_directory(v, cwd, p).vol
             i == path_to_inode(v, cwd, p)
             d == get_parent_inode(v, cwd, p)
         IN  /\ is_directory(v, i) /\ d \in Inodes /\ NamespaceStep(v, u, d, i)
             /\ i \notin u.imap /\ (d # i => OnlyClears(v, u, d))
<1> DEFINE u == delete_directory(v, cwd, p).vol
           i == path_to_inode(v, cwd, p)
           d == get_parent_inode(v, cwd, p)
           n == Last(p.comps)
           r == remove_directory_entry(v, d, n)
<1>1. is_directory(v, i) /\ r.ret # -1 /\ u = delete_inode(r.vol, i)
  BY DEF delete_directory, Fail, Done, Result
<1>2. i \in Inodes
  BY <1>1 DEF is_directory, IsType
<1> HIDE DEF i, d, n, u
<1>3. r.ret = 0
  BY <1>1 DEF remove_directory_entry, ClearEntry, Fail, Done, Result
<1>4. /\ d \in Inodes /\ NamespaceStep(v, u, d, i) /\ i \notin u.imap
      /\ d # i => OnlyClears(v, u, d)
  BY <1>1, <1>2, <1>3, RemoveKeeps
<1> QED BY <1>1, <1>4 DEF i, d, u

----------------------------------------------------------------------------
(* A new entry overwrites none *)

\* The words of inode d that are no free entries stay.
OnlyFills(v, u, d) ==
  \A k \in Index, s \in Slot : v.itab[d].ptr[k] # 0 =>
    LET b == v.itab[d].ptr[k]
    IN  u.blk[b][s] = v.blk[b][s] \/ IsFree(v.blk[b][s])

\* Where the scan for a free entry finds a block it can read, there is one.
LEMMA FreeScanFinds ==
  ASSUME NEW v, NEW d, NEW k, k = ScanStop(v, d, IsFree), k # NDirect,
         NEW b, b = v.itab[d].ptr[k], b # 0, Readable(v, b)
  PROVE  LET s == FirstSlot(v, b, IsFree) IN s \in Slot /\ IsFree(v.blk[b][s])
<1> DEFINE stops == {l \in Index : LET x == get_inode_block(v, d, l)
                                   IN  x = 0 \/ ~Readable(v, x) \/ HasSlot(v, x, IsFree)}
           free  == {s \in Slot : IsFree(v.blk[b][s])}
<1>1. k = IF stops = {} THEN NDirect ELSE Min(stops)
  BY DEF ScanStop
<1>2. stops \subseteq Nat
  BY DEF Index
<1>3. k \in stops
  <2> HIDE DEF stops
  <2> QED BY <1>1, <1>2, MinIsLeast
<1>4. HasSlot(v, b, IsFree)
  BY <1>3 DEF get_inode_block
<1>5. free # {}
  BY <1>4, Zenon DEF HasSlot
<1>6. free \subseteq Slot /\ Slot \subseteq Nat
  <2>1. free \subseteq Slot
    BY Zenon
  <2>2. Slot \subseteq Nat
    BY DEF Slot
  <2> QED BY <2>1, <2>2
<1>7. FirstSlot(v, b, IsFree) = Min(free)
  BY Zenon DEF FirstSlot
<1>8. Min(free) \in free
  <2> HIDE DEF free
  <2> QED BY <1>5, <1>6, MinIsLeast
<1> HIDE DEF stops
<1> QED BY <1>6, <1>7, <1>8, Zenon

LEMMA PutEntryBlocks ==
  ASSUME NEW v, VolOK(v), NEW b \in Blocks, NEW words \in [Slot -> Word], NEW s \in Slot,
         NEW n \in AnyName, NEW c \in 1 .. MaxInodes
  PROVE  PutEntry(v, b, words, s, n, c).vol.blk
           = [v.blk EXCEPT ![b] = [words EXCEPT ![s] = Entry(n, c)]]
<1> DEFINE new == [words EXCEPT ![s] = Entry(n, c)]
           w   == write_block(v, b, new)
<1>1. new \in [Slot -> Word]
  BY DEF Entry, Word, AnyName
<1> HIDE DEF new
<1>2. VolOK(w)
  BY <1>1, WriteBlockOK
<1>3. w.blk = [v.blk EXCEPT ![b] = new]
  BY DEF write_block, VolOK, Volumes
<1>4. PutEntry(v, b, words, s, n, c).vol = increment_link_count(w, c)
  BY DEF PutEntry, Done, Result, new
<1> HIDE DEF w
<1>5. increment_link_count(w, c).blk = w.blk
  BY <1>2, LinkCountKeeps
<1> QED BY <1>3, <1>4, <1>5 DEF new

LEMMA AddEntryFills ==
  ASSUME NEW v, VolOK(v), NEW d \in Inodes, NEW n \in AnyName, NEW c \in 1 .. MaxInodes
  PROVE  OnlyFills(v, add_directory_entry(v, d, n, c).vol, d)
<1> DEFINE k == ScanStop(v, d, IsFree)
           b == get_inode_block(v, d, k)
           a == BlockFor(v, d, k)
           u == add_directory_entry(v, d, n, c).vol
<1>1. CASE u = v
  BY <1>1 DEF OnlyFills
<1>2. CASE u # v
  <2>1. k # NDirect /\ (b # 0 => Readable(v, b))
    BY <1>2 DEF add_directory_entry, Fail, Result
  <2>2. k \in Index
    BY <2>1, FreeScanStops
  <2>3. b = v.itab[d].ptr[k]
    BY DEF get_inode_block
  <2>4. \A l \in Index : v.itab[d].ptr[l] # 0 => v.itab[d].ptr[l] \in Blocks
    BY VolumeAssumption DEF VolOK, Volumes, Inode, Blocks
  <2>5. CASE b = 0
    <3>1. /\ VolOK(a.vol) /\ a.ret \in {0} \cup Blocks /\ a.vol.blk = v.blk
          /\ a.ret # 0 => a.vol.itab[d].ptr[k] = a.ret
          /\ a.ret = 0 => a.vol = v
          /\ \A l \in Index : l # k => a.vol.itab[d].ptr[l] = v.itab[d].ptr[l]
      BY <2>2, BlockForOK, BlockForKeeps
    <3>2. u = PutInNewBlock(a, n, c).vol
      BY <2>1, <2>5 DEF add_directory_entry
    <3> HIDE DEF a, k, b, u
    <3>3. a.ret # 0
      BY <1>2, <3>1, <3>2 DEF PutInNewBlock, Fail, Result
    <3>4. u = PutEntry(a.vol, a.ret, ZeroBlock, 1, n, c).vol
      BY <3>2, <3>3 DEF PutInNewBlock
    <3>5. ZeroBlock \in [Slot -> Word] /\ 1 \in Slot
      BY VolumeAssumption DEF ZeroBlock, Word, Slot
    <3> DEFINE zero == ZeroBlock
               at   == a.ret
               w    == a.vol
    <3> HIDE DEF zero, at, w
    <3>6. w = a.vol /\ at = a.ret /\ zero = ZeroBlock
      BY DEF zero, at, w
    <3>7. VolOK(w) /\ at \in Blocks /\ zero \in [Slot -> Word] /\ 1 \in Slot
      BY <3>1, <3>3, <3>5, <3>6
    <3>8. PutEntry(w, at, zero, 1, n, c).vol.blk = [w.blk EXCEPT ![at] = [zero EXCEPT ![1] = Entry(n, c)]]
      BY <3>7, PutEntryBlocks
    <3>9. u.blk = [a.vol.blk EXCEPT ![a.ret] = [ZeroBlock EXCEPT ![1] = Entry(n, c)]]
      BY <3>4, <3>6, <3>8
    <3>10. ASSUME NEW l \in Index, v.itab[d].ptr[l] # 0
          PROVE  u.blk[v.itab[d].ptr[l]] = v.blk[v.itab[d].ptr[l]]
      <4>1. l # k /\ a.vol.itab[d].ptr[l] = v.itab[d].ptr[l]
        BY <2>3, <2>5, <3>1, <3>10
      <4>2. a.ret # v.itab[d].ptr[l]
        BY <2>2, <3>1, <3>3, <4>1 DEF VolOK, Owned
      <4> QED BY <2>4, <3>1, <3>9, <3>10, <4>2 DEF VolOK, Volumes
    <3> QED BY <3>10 DEF OnlyFills, u
  <2>6. CASE b # 0
    <3> DEFINE s == FirstSlot(v, b, IsFree)
               old == v.blk[b]
    <3>1. s \in Slot /\ IsFree(old[s])
      BY <2>1, <2>3, <2>6, FreeScanFinds
    <3>2. u = PutEntry(v, b, old, s, n, c).vol
      BY <1>2, <2>1, <2>6 DEF add_directory_entry, Fail, Result
    <3>3. old \in [Slot -> Word] /\ b \in Blocks
      BY <2>2, <2>3, <2>4, <2>6 DEF VolOK, Volumes
    <3> HIDE DEF s, b, k, u
    <3>4. u.blk = [v.blk EXCEPT ![b] = [old EXCEPT ![s] = Entry(n, c)]]
      <4> HIDE DEF old
      <4> QED BY <3>1, <3>2, <3>3, PutEntryBlocks
    <3>5. ASSUME NEW l \in Index, NEW t \in Slot, v.itab[d].ptr[l] # 0, NEW x, x = v.itab[d].ptr[l]
          PROVE  u.blk[x][t] = v.blk[x][t] \/ IsFree(v.blk[x][t])
      <4>1. CASE x # b
        BY <2>4, <3>4, <3>5, <4>1 DEF VolOK, Volumes
      <4>2. CASE x = b
        <5>1. u.blk[x] = [old EXCEPT ![s] = Entry(n, c)]
          BY <3>3, <3>4, <4>2 DEF VolOK, Volumes
        <5> QED BY <3>1, <3>3, <4>2, <5>1
      <4> QED BY <4>1, <4>2
    <3> QED BY <3>5 DEF OnlyFills, u
  <2> QED BY <2>5, <2>6
<1> QED BY <1>1, <1>2

\* The entry is put between steps that leave inode d alone.
LEMMA FillsBetween ==
  ASSUME NEW v, NEW w, NEW x, NEW u, NEW d,
         SameFile(v, w, d), OnlyFills(w, x, d), SameInode(w, x, d), x = u \/ SameFile(x, u, d)
  PROVE  OnlyFills(v, u, d)
<1> SUFFICES ASSUME NEW k \in Index, NEW s \in Slot, NEW b, b = v.itab[d].ptr[k], b # 0
             PROVE  u.blk[b][s] = v.blk[b][s] \/ IsFree(v.blk[b][s])
  BY DEF OnlyFills
<1>1. w.itab[d].ptr[k] = b /\ w.blk[b] = v.blk[b]
  BY DEF SameFile
<1>2. x.itab[d].ptr[k] = b
  BY <1>1 DEF SameInode
<1>3. x.blk[b][s] = w.blk[b][s] \/ IsFree(w.blk[b][s])
  BY <1>1 DEF OnlyFills
<1>4. u.blk[b] = x.blk[b]
  BY <1>2 DEF SameFile
<1> QED BY <1>1, <1>3, <1>4

LEMMA MakeDirectoryFills ==
  ASSUME NEW v, VolOK(v), FreeUntyped(v), NEW d \in Inodes, NEW n \in AnyName
  PROVE  OnlyFills(v, MakeDirectory(v, d, n).vol, d)
<1> DEFINE a    == create_inode(v, "dir")
           i    == a.ret
           b    == allocate_block(a.vol)
           set  == set_inode_block(b.vol, i, 0, b.ret)
           dots == create_dot_entries(set, i, d)
           made == AddAfter(dots, d, n, i)
           u    == MakeDirectory(v, d, n).vol
<1>1. CASE u = v
  BY <1>1 DEF OnlyFills
<1>2. CASE u # v
  <2>1. /\ is_directory(v, d)
        /\ u \in {delete_inode(b.vol, i), made.vol, delete_inode(made.vol, i)}
        /\ b.ret = 0 => u = delete_inode(b.vol, i)
    BY <1>2 DEF MakeDirectory, FillDirectory, Fail, Done, Result
  <2>2. /\ VolOK(a.vol) /\ i \in 1 .. MaxInodes /\ Keeps(v, a.vol, 0, i)
        /\ i \in Inodes => /\ i \notin v.imap
                           /\ \A k \in Index : a.vol.itab[i].ptr[k] = 0
    BY CreateInodeOK, CreateInodeKeeps
  <2>3. d \in v.imap /\ d \in 1 .. MaxInodes /\ d # 0
    BY <2>1, DirectoryIsAllocated
  <2>4. d # i
    BY <2>2, <2>3
  <2>5. /\ VolOK(b.vol) /\ b.vol.itab = a.vol.itab /\ b.vol.imap = a.vol.imap
        /\ b.vol.blk = a.vol.blk /\ b.vol.end = a.vol.end
    BY <2>2, AllocateBlockOK
  <2>6. SameFile(v, b.vol, d)
    BY <2>2, <2>3, <2>4, <2>5 DEF Keeps, SameFile, SameInode
  <2>7. ASSUME NEW w, VolOK(w) PROVE SameFile(w, delete_inode(w, i), d)
    <3>1. CASE i \in Inodes
      BY <2>4, <2>7, <3>1, DeleteInodeKeeps DEF Keeps, Inodes
    <3>2. CASE i \notin Inodes
      BY <3>2 DEF delete_inode, SameFile, SameInode
    <3> QED BY <3>1, <3>2
  <2>8. CASE b.ret = 0
    <3>1. SameFile(b.vol, u, d)
      BY <2>1, <2>5, <2>7, <2>8
    <3>2. OnlyFills(b.vol, b.vol, d) /\ SameInode(b.vol, b.vol, d)
      BY DEF OnlyFills, SameInode
    <3> HIDE DEF u, b
    <3> QED BY <2>6, <3>1, <3>2, FillsBetween DEF u
  <2>9. CASE b.ret # 0
    <3>1. VolOK(set) /\ SameFile(b.vol, set, d)
      <4>1. CASE i \notin Inodes
        BY <2>5, <4>1 DEF set_inode_block, SameFile, SameInode
      <4>2. CASE i \in Inodes
        <5>1. 0 \in Index /\ a.vol.itab[i].ptr[0] = 0
          BY <2>2, <4>2, VolumeAssumption DEF Index
        <5>2. BlockFor(a.vol, i, 0) = Result(set, b.ret)
          BY <2>9, <5>1 DEF BlockFor, get_inode_block, Attached
        <5>3. BlockFor(a.vol, i, 0).vol = set
          BY <5>2 DEF Result
        <5>4. VolOK(set) /\ Keeps(a.vol, set, i, 0)
          BY <2>2, <4>2, <5>1, <5>3, BlockForOK, BlockForKeeps
        <5> HIDE DEF set
        <5>5. SameFile(a.vol, set, d)
          BY <2>3, <2>4, <5>4 DEF Keeps
        <5> HIDE DEF b
        <5>6. SameFile(b.vol, set, d)
          BY <2>5, <5>5 DEF SameFile, SameInode
        <5> QED BY <5>4, <5>6
      <4> QED BY <4>1, <4>2
    <3> HIDE DEF set, a, b
    <3>2. VolOK(dots.vol) /\ Keeps(set, dots.vol, i, 0)
      BY <2>2, <2>3, <3>1, DotEntriesOK, DotEntriesKeeps
    <3> HIDE DEF dots
    <3>3. SameFile(set, dots.vol, d)
      BY <2>3, <2>4, <3>2 DEF Keeps
    <3>4. SameFile(v, dots.vol, d)
      <4>1. ASSUME NEW w, NEW x, NEW y, SameFile(w, x, d), SameFile(x, y, d)
            PROVE  SameFile(w, y, d)
        BY <4>1 DEF SameFile, SameInode
      <4> QED BY <2>6, <3>1, <3>3, <4>1
    <3>5. VolOK(made.vol) /\ SameInode(dots.vol, made.vol, d) /\ OnlyFills(dots.vol, made.vol, d)
      <4>1. VolOK(made.vol) /\ Keeps(dots.vol, made.vol, d, 0)
        BY <2>2, <3>2, AddAfterOK, AddAfterKeeps
      <4>2. made.vol \in {dots.vol, add_directory_entry(dots.vol, d, n, i).vol}
        BY DEF AddAfter
      <4>3. OnlyFills(dots.vol, add_directory_entry(dots.vol, d, n, i).vol, d)
        BY <2>2, <3>2, AddEntryFills
      <4> HIDE DEF made
      <4>4. OnlyFills(dots.vol, dots.vol, d)
        BY DEF OnlyFills
      <4> QED BY <2>3, <4>1, <4>2, <4>3, <4>4 DEF Keeps
    <3> HIDE DEF made, u
    <3>6. made.vol = u \/ SameFile(made.vol, u, d) \/ SameFile(b.vol, u, d)
      BY <2>1, <2>5, <2>7, <3>5
    <3>7. CASE made.vol = u \/ SameFile(made.vol, u, d)
      BY <3>4, <3>5, <3>7, FillsBetween DEF u
    <3>8. CASE SameFile(b.vol, u, d)
      <4>1. OnlyFills(b.vol, b.vol, d) /\ SameInode(b.vol, b.vol, d)
        BY DEF OnlyFills, SameInode
      <4> QED BY <2>6, <3>8, <4>1, FillsBetween DEF u
    <3> QED BY <3>6, <3>7, <3>8
  <2> QED BY <2>8, <2>9
<1> QED BY <1>1, <1>2

LEMMA NewFileFills ==
  ASSUME NEW v, VolOK(v), FreeUntyped(v), NEW d, is_directory(v, d), NEW n \in AnyName
  PROVE  OnlyFills(v, NewFile(v, d, n), d)
<1> DEFINE a    == create_inode(v, "reg")
           i    == a.ret
           link == add_directory_entry(a.vol, d, n, i)
           u    == NewFile(v, d, n)
<1>1. u = link.vol \/ u = delete_inode(link.vol, i)
  BY DEF NewFile
<1>2. /\ VolOK(a.vol) /\ i \in 1 .. MaxInodes /\ Keeps(v, a.vol, 0, i)
      /\ i \in Inodes => i \notin v.imap
  BY CreateInodeOK, CreateInodeKeeps
<1>3. d \in v.imap /\ d \in Inodes /\ d # 0
  BY DirectoryIsAllocated DEF is_directory, IsType, Inodes
<1>4. d # i
  BY <1>2, <1>3
<1> HIDE DEF a
<1>5. VolOK(link.vol) /\ Keeps(a.vol, link.vol, d, 0) /\ OnlyFills(a.vol, link.vol, d)
  BY <1>2, <1>3, AddEntryOK, AddEntryKeeps, AddEntryFills
<1> HIDE DEF link, u
<1>6. u = link.vol \/ SameFile(link.vol, u, d)
  <2>1. CASE i \in Inodes
    BY <1>1, <1>3, <1>4, <1>5, <2>1, DeleteInodeKeeps DEF Keeps
  <2>2. CASE i \notin Inodes
    BY <1>1, <2>2 DEF delete_inode
  <2> QED BY <2>1, <2>2
<1>7. SameFile(v, a.vol, d) /\ SameInode(a.vol, link.vol, d)
  BY <1>2, <1>3, <1>4, <1>5 DEF Keeps
<1> QED BY <1>5, <1>6, <1>7, FillsBetween DEF u

----------------------------------------------------------------------------
(* Counters: every operation keeps the sum of what is free and what is      *)
(* marked, on every path, except the deletion of an inode that is free.     *)

CountedInPlace(v, u) == Counted(v, u) /\ u.imap = v.imap

LEMMA CountedTrans ==
  ASSUME NEW v, NEW u, NEW w, CountedInPlace(v, u), CountedInPlace(u, w)
  PROVE  CountedInPlace(v, w)
BY DEF CountedInPlace, Counted

LEMMA WordsCounted ==
  ASSUME NEW v, VolOK(v), NEW b, NEW w, NEW i
  PROVE  /\ CountedInPlace(v, write_block(v, b, w))
         /\ CountedInPlace(v, increment_link_count(v, i))
         /\ CountedInPlace(v, decrement_link_count(v, i))
<1>1. ASSUME NEW u \in {write_block(v, b, w), increment_link_count(v, i), decrement_link_count(v, i)}
      PROVE  u.bmap = v.bmap /\ u.imap = v.imap /\ u.bfree = v.bfree /\ u.ifree = v.ifree
  BY DEF write_block, increment_link_count, decrement_link_count, VolOK, Volumes
<1> QED BY <1>1, SameCounters DEF CountedInPlace

LEMMA PutEntryCounted ==
  ASSUME NEW v, VolOK(v), NEW b \in Blocks, NEW words \in [Slot -> Word], NEW s,
         NEW n \in AnyName, NEW c \in 1 .. MaxInodes
  PROVE  CountedInPlace(v, PutEntry(v, b, words, s, n, c).vol)
<1> DEFINE new == [words EXCEPT ![s] = Entry(n, c)]
           w   == write_block(v, b, new)
<1>1. new \in [Slot -> Word]
  BY DEF Entry, Word, AnyName
<1> HIDE DEF new
<1>2. VolOK(w) /\ CountedInPlace(v, w)
  BY <1>1, WriteBlockOK, WordsCounted
<1>3. PutEntry(v, b, words, s, n, c).vol = increment_link_count(w, c)
  BY DEF PutEntry, Done, Result, new
<1> HIDE DEF w
<1>4. CountedInPlace(w, increment_link_count(w, c))
  BY <1>2, WordsCounted
<1> QED BY <1>2, <1>3, <1>4, CountedTrans

LEMMA AddEntryCounted ==
  ASSUME NEW v, VolOK(v), NEW d, NEW n \in AnyName, NEW c \in 1 .. MaxInodes
  PROVE  CountedInPlace(v, add_directory_entry(v, d, n, c).vol)
<1> DEFINE k == ScanStop(v, d, IsFree)
           b == get_inode_block(v, d, k)
           a == BlockFor(v, d, k)
           u == add_directory_entry(v, d, n, c).vol
<1>1. CASE u = v
  BY <1>1 DEF CountedInPlace, Counted
<1>2. CASE u # v
  <2>1. d \in Inodes /\ k # NDirect
    BY <1>2 DEF add_directory_entry, Fail, Result
  <2>2. k \in Index
    BY <2>1, FreeScanStops
  <2>3. VolOK(a.vol) /\ a.ret \in {0} \cup Blocks /\ CountedInPlace(v, a.vol)
    BY <2>1, <2>2, BlockForOK, BlockForCounts DEF CountedInPlace
  <2>4. b = v.itab[d].ptr[k]
    BY DEF get_inode_block
  <2> HIDE DEF k, a, b, u
  <2>5. CASE b = 0
    <3>1. u = PutInNewBlock(a, n, c).vol
      BY <2>1, <2>5 DEF add_directory_entry, k, a, b, u
    <3>2. CASE a.ret = 0
      BY <2>3, <3>1, <3>2 DEF PutInNewBlock, Fail, Result, u
    <3>3. CASE a.ret # 0
      <4>1. u = PutEntry(a.vol, a.ret, ZeroBlock, 1, n, c).vol
        BY <3>1, <3>3 DEF PutInNewBlock
      <4>2. ZeroBlock \in [Slot -> Word]
        BY DEF ZeroBlock, Word
      <4>3. CountedInPlace(a.vol, PutEntry(a.vol, a.ret, ZeroBlock, 1, n, c).vol)
        BY <2>3, <3>3, <4>2, PutEntryCounted
      <4> QED BY <2>3, <4>1, <4>3, CountedTrans DEF u
    <3> QED BY <3>2, <3>3
  <2>6. CASE b # 0
    <3> DEFINE s == FirstSlot(v, b, IsFree)
               old == v.blk[b]
    <3> HIDE DEF s
    <3>1. u = PutEntry(v, b, old, s, n, c).vol
      BY <1>2, <2>1, <2>6 DEF add_directory_entry, Fail, Result, k, b, u, s
    <3>2. old \in [Slot -> Word] /\ b \in Blocks
      BY <2>1, <2>2, <2>4, <2>6, VolumeAssumption DEF VolOK, Volumes, Inode, Blocks
    <3> HIDE DEF old
    <3>3. CountedInPlace(v, PutEntry(v, b, old, s, n, c).vol)
      BY <3>2, PutEntryCounted
    <3> QED BY <3>1, <3>3 DEF u
  <2> QED BY <2>5, <2>6
<1> QED BY <1>1, <1>2

LEMMA AddAfterCounted ==
  ASSUME NEW r, VolOK(r.vol), NEW d, NEW n \in AnyName, NEW c \in 1 .. MaxInodes
  PROVE  CountedInPlace(r.vol, AddAfter(r, d, n, c).vol)
<1>1. CountedInPlace(r.vol, add_directory_entry(r.vol, d, n, c).vol)
  BY AddEntryCounted
<1>2. CountedInPlace(r.vol, r.vol)
  BY DEF CountedInPlace, Counted
<1> QED BY <1>1, <1>2 DEF AddAfter

LEMMA DotEntriesCounted ==
  ASSUME NEW v, VolOK(v), NEW d \in 1 .. MaxInodes, NEW p \in 1 .. MaxInodes
  PROVE  CountedInPlace(v, create_dot_entries(v, d, p).vol)
<1> DEFINE r == add_directory_entry(v, d, Dot, d)
<1>1. VolOK(r.vol) /\ CountedInPlace(v, r.vol)
  BY AddEntryOK, AddEntryCounted DEF AnyName
<1> HIDE DEF r
<1>2. CountedInPlace(r.vol, AddAfter(r, d, DotDot, p).vol)
  BY <1>1, AddAfterCounted DEF AnyName
<1> QED BY <1>1, <1>2, CountedTrans DEF create_dot_entries, r

\* What was taken for a directory that cannot be made comes back; so the
\* deletion is of an inode in use, or of none.
LEMMA TakenBackCounted ==
  ASSUME NEW v, VolOK(v), NEW i, i \in Inodes => i \in v.imap
  PROVE  Counted(v, delete_inode(v, i))
<1>1. CASE i \in Inodes
  BY <1>1, DeleteInodeCounts DEF Counted
<1>2. CASE i \notin Inodes
  BY <1>2 DEF delete_inode, Counted
<1> QED BY <1>1, <1>2

LEMMA FillDirectoryCounted ==
  ASSUME NEW v, VolOK(v), NEW i \in 1 .. MaxInodes, NEW d \in 1 .. MaxInodes, NEW n \in AnyName,
         i \in Inodes => i \in v.imap,
         i \in Inodes => \A k \in Index : v.itab[i].ptr[k] = 0
  PROVE  Counted(v, FillDirectory(i, allocate_block(v), d, n).vol)
<1> DEFINE b    == allocate_block(v)
           set  == set_inode_block(b.vol, i, 0, b.ret)
           dots == create_dot_entries(set, i, d)
           made == AddAfter(dots, d, n, i)
           u    == FillDirectory(i, b, d, n).vol
<1>1. VolOK(b.vol) /\ CountedInPlace(v, b.vol)
  BY AllocateBlockOK, AllocateBlockCounts DEF CountedInPlace
<1>2. CASE b.ret = 0
  <2>1. u = delete_inode(b.vol, i)
    BY <1>2 DEF FillDirectory, Fail, Result
  <2>2. Counted(b.vol, delete_inode(b.vol, i))
    BY <1>1, TakenBackCounted DEF CountedInPlace
  <2> HIDE DEF b, u
  <2> QED BY <1>1, <2>1, <2>2 DEF CountedInPlace, Counted, b, u
<1>3. CASE b.ret # 0
  <2>1. VolOK(set) /\ CountedInPlace(v, set)
    <3>1. CASE i \notin Inodes
      BY <1>1, <3>1 DEF set_inode_block
    <3>2. CASE i \in Inodes
      <4>1. 0 \in Index /\ v.itab[i].ptr[0] = 0
        BY <3>2, VolumeAssumption DEF Index
      <4>2. BlockFor(v, i, 0).vol = set
        BY <1>3, <4>1 DEF BlockFor, get_inode_block, Attached, Result
      <4> HIDE DEF set
      <4> QED BY <3>2, <4>1, <4>2, BlockForOK, BlockForCounts DEF CountedInPlace
    <3> QED BY <3>1, <3>2
  <2> HIDE DEF set
  <2>2. VolOK(dots.vol) /\ CountedInPlace(set, dots.vol)
    BY <2>1, DotEntriesOK, DotEntriesCounted
  <2> HIDE DEF dots
  <2>3. VolOK(made.vol) /\ CountedInPlace(dots.vol, made.vol)
    BY <2>2, AddAfterOK, AddAfterCounted
  <2>4. u = made.vol \/ u = delete_inode(made.vol, i)
    BY <1>3 DEF FillDirectory, Fail, Result, set, dots
  <2> HIDE DEF made, u, b
  <2>5. CountedInPlace(v, made.vol)
    BY <2>1, <2>2, <2>3, CountedTrans
  <2>6. Counted(made.vol, delete_inode(made.vol, i))
    BY <2>3, <2>5, TakenBackCounted DEF CountedInPlace
  <2> QED BY <2>4, <2>5, <2>6 DEF CountedInPlace, Counted, u, b
<1> QED BY <1>2, <1>3

LEMMA MakeDirectoryCounted ==
  ASSUME NEW v, VolOK(v), NEW d, NEW n \in AnyName
  PROVE  Counted(v, MakeDirectory(v, d, n).vol)
<1> DEFINE a == create_inode(v, "dir")
           u == MakeDirectory(v, d, n).vol
<1>1. CASE ~is_directory(v, d) \/ find_directory_entry(v, d, n) # 0
  BY <1>1 DEF MakeDirectory, Fail, Done, Result, Counted
<1>2. CASE is_directory(v, d) /\ find_directory_entry(v, d, n) = 0
  <2>1. u = FillDirectory(a.ret, allocate_block(a.vol), d, n).vol
    BY <1>2 DEF MakeDirectory
  <2>2. /\ VolOK(a.vol) /\ a.ret \in 1 .. MaxInodes /\ Counted(v, a.vol)
        /\ a.ret \in Inodes => a.ret \in a.vol.imap /\ \A k \in Index : a.vol.itab[a.ret].ptr[k] = 0
    <3>1. VolOK(a.vol) /\ a.ret \in 1 .. MaxInodes
      BY CreateInodeOK
    <3>2. Counted(v, a.vol)
      BY CreateInodeCounts, Zenon
    <3>3. a.ret \in Inodes => a.ret \in a.vol.imap /\ \A k \in Index : a.vol.itab[a.ret].ptr[k] = 0
      BY CreateInodeKeeps
    <3> QED BY <3>1, <3>2, <3>3
  <2>3. d \in 1 .. MaxInodes
    BY <1>2, VolumeAssumption DEF is_directory, IsType, Inodes
  <2> HIDE DEF a, u
  <2>4. Counted(a.vol, FillDirectory(a.ret, allocate_block(a.vol), d, n).vol)
    BY <2>2, <2>3, FillDirectoryCounted
  <2> QED BY <2>1, <2>2, <2>4 DEF Counted, u
<1> QED BY <1>1, <1>2

LEMMA NewFileCounted ==
  ASSUME NEW v, VolOK(v), NEW d, NEW n \in AnyName
  PROVE  Counted(v, NewFile(v, d, n))
<1> DEFINE i    == create_inode(v, "reg")
           link == add_directory_entry(i.vol, d, n, i.ret)
<1>1. /\ VolOK(i.vol) /\ i.ret \in 1 .. MaxInodes /\ Counted(v, i.vol)
      /\ i.ret \in Inodes => i.ret \in i.vol.imap
  <2>1. VolOK(i.vol) /\ i.ret \in 1 .. MaxInodes
    BY CreateInodeOK
  <2>2. Counted(v, i.vol)
    BY CreateInodeCounts, Zenon
  <2>3. i.ret \in Inodes => i.ret \in i.vol.imap
    BY CreateInodeKeeps
  <2> QED BY <2>1, <2>2, <2>3
<1>2. NewFile(v, d, n) \in {link.vol, delete_inode(link.vol, i.ret)}
  BY DEF NewFile
<1> HIDE DEF i
<1>3. VolOK(link.vol) /\ CountedInPlace(i.vol, link.vol)
  BY <1>1, AddEntryOK, AddEntryCounted
<1> HIDE DEF link
<1>4. Counted(link.vol, delete_inode(link.vol, i.ret))
  BY <1>1, <1>3, TakenBackCounted DEF CountedInPlace
<1> QED BY <1>1, <1>2, <1>3, <1>4 DEF CountedInPlace, Counted

LEMMA RemoveEntryCounted ==
  ASSUME NEW v, VolOK(v), NEW d, NEW n
  PROVE  CountedInPlace(v, remove_directory_entry(v, d, n).vol)
<1> DEFINE at   == Locate(v, d, n)
           gone == [v.blk[at.block] EXCEPT ![at.slot] = Zero]
           w    == write_block(v, at.block, gone)
           c    == v.blk[at.block][at.slot].ino
<1>1. CASE at.block = 0
  BY <1>1 DEF remove_directory_entry, ClearEntry, Fail, Result, CountedInPlace, Counted
<1>2. CASE at.block # 0
  <2>1. at.block \in Blocks /\ at.slot \in Slot
    BY <1>2, LocateFinds
  <2>2. remove_directory_entry(v, d, n).vol = decrement_link_count(w, c)
    BY <1>2 DEF remove_directory_entry, ClearEntry, Done, Result
  <2> HIDE DEF at
  <2>3. gone \in [Slot -> Word]
    BY <2>1 DEF VolOK, Volumes, Word
  <2> HIDE DEF gone, c
  <2>4. VolOK(w) /\ CountedInPlace(v, w)
    BY <2>1, <2>3, WriteBlockOK, WordsCounted
  <2> HIDE DEF w
  <2>5. CountedInPlace(w, decrement_link_count(w, c))
    BY <2>4, WordsCounted
  <2> QED BY <2>2, <2>4, <2>5, CountedTrans
<1> QED BY <1>1, <1>2

LEMMA RemoveEntryCounter ==
  ASSUME NEW v, VolOK(v), NEW d, NEW n
  PROVE  remove_directory_entry(v, d, n).vol.ifree = v.ifree
<1> DEFINE at == Locate(v, d, n)
<1>1. remove_directory_entry(v, d, n).vol = v
      \/ \E c, words : remove_directory_entry(v, d, n).vol
                        = decrement_link_count(write_block(v, at.block, words), c)
  BY DEF remove_directory_entry, ClearEntry, Fail, Done, Result
<1> HIDE DEF at
<1>2. ASSUME NEW c, NEW words
      PROVE  decrement_link_count(write_block(v, at.block, words), c).ifree = v.ifree
  BY DEF decrement_link_count, write_block, VolOK, Volumes
<1> QED BY <1>1, <1>2

LEMMA DeleteDirectoryCounted ==
  ASSUME NEW v, VolOK(v), FreeUntyped(v), NEW cwd, NEW p
  PROVE  Counted(v, delete_directory(v, cwd, p).vol)
<1> DEFINE i == path_to_inode(v, cwd, p)
           r == remove_directory_entry(v, get_parent_inode(v, cwd, p), Last(p.comps))
           u == delete_directory(v, cwd, p).vol
<1>1. u = v \/ (is_directory(v, i) /\ u = delete_inode(r.vol, i))
  BY DEF delete_directory, Fail, Done, Result
<1>2. VolOK(r.vol) /\ CountedInPlace(v, r.vol)
  BY RemoveEntryOK, RemoveEntryCounted
<1> HIDE DEF i, r, u
<1>3. CASE u = v
  BY <1>3 DEF Counted, u
<1>4. CASE is_directory(v, i) /\ u = delete_inode(r.vol, i)
  <2>1. i \in r.vol.imap
    BY <1>2, <1>4 DEF CountedInPlace, FreeUntyped, is_directory, IsType
  <2>2. Counted(r.vol, delete_inode(r.vol, i))
    BY <1>2, <2>1, TakenBackCounted
  <2> QED BY <1>2, <1>4, <2>2 DEF CountedInPlace, Counted, u
<1> QED BY <1>1, <1>3, <1>4
----------------------------------------------------------------------------
(* Types alone: on any volume, whoever owns its blocks.  The image file ends *)
(* at most behind the last block that a bit stands for.                      *)

Typed(v) == v \in Volumes /\ v.end <= BitmapBits + 1

LEMMA WriteBlockTyped ==
  ASSUME NEW v, Typed(v), NEW b \in Blocks, NEW w \in [Slot -> Word]
  PROVE  Typed(write_block(v, b, w))
<1> DEFINE u == write_block(v, b, w)
<1>1. /\ v \in Volumes /\ u.bmap = v.bmap /\ u.imap = v.imap /\ u.itab = v.itab
      /\ u.bfree = v.bfree /\ u.ifree = v.ifree
      /\ u.blk = [v.blk EXCEPT ![b] = w] /\ u.end = IF b < v.end THEN v.end ELSE b + 1
  BY DEF Typed, Volumes, write_block
<1>2. u.end \in Nat /\ u.end <= BitmapBits + 1
  BY <1>1, VolumeAssumption DEF Typed, Volumes, Blocks
<1>3. u \in Volumes
  BY <1>1, <1>2 DEF Volumes, write_block
<1> QED BY <1>2, <1>3 DEF Typed

LEMMA AllocateBlockTyped ==
  ASSUME NEW v, Typed(v)
  PROVE  LET a == allocate_block(v)
         IN  Typed(a.vol) /\ a.ret \in 0 .. BitmapBits
<1> DEFINE free == Blocks \ v.bmap
<1>1. CASE free = {}
  BY <1>1, VolumeAssumption DEF allocate_block, Result
<1>2. CASE free # {}
  <2>1. Min(free) \in free
    BY <1>2, MinIsLeast DEF Blocks
  <2> DEFINE w == [v EXCEPT !.bmap = @ \cup {Min(free)}, !.bfree = (@ - 1) % CountMod]
  <2>2. allocate_block(v) = Result(w, Min(free))
    BY <1>2 DEF allocate_block
  <2>3. w \in Volumes /\ w.end = v.end
    <3>1. v \in Volumes /\ (v.bfree - 1) % CountMod \in Nat
      BY ModType, VolumeAssumption DEF Typed, Volumes
    <3>2. v.bmap \cup {Min(free)} \in SUBSET Blocks
      BY <2>1, <3>1 DEF Volumes
    <3> QED BY <3>1, <3>2 DEF Volumes
  <2> HIDE DEF w
  <2>4. allocate_block(v).vol = w /\ allocate_block(v).ret = Min(free)
    BY <2>2 DEF Result
  <2> QED BY <2>1, <2>3, <2>4, VolumeAssumption DEF Typed, Blocks
<1> QED BY <1>1, <1>2

LEMMA InodeTyped ==
  ASSUME NEW v, Typed(v), NEW i \in Inodes, NEW t \in Inode
  PROVE  Typed([v EXCEPT !.itab[i] = t])
<1> DEFINE u == [v EXCEPT !.itab[i] = t]
<1>1. v \in Volumes /\ u.itab = [v.itab EXCEPT ![i] = t] /\ u.end = v.end
  BY DEF Typed, Volumes
<1>2. u \in Volumes
  BY <1>1 DEF Volumes
<1> QED BY <1>1, <1>2 DEF Typed

LEMMA LinkCountTyped ==
  ASSUME NEW v, Typed(v), NEW i
  PROVE  Typed(increment_link_count(v, i)) /\ Typed(decrement_link_count(v, i))
<1>1. CASE i \notin Inodes
  BY <1>1 DEF increment_link_count, decrement_link_count
<1>2. CASE i \in Inodes
  <2>1. v.itab[i] \in Inode
    BY <1>2 DEF Typed, Volumes
  <2>2. ASSUME NEW n \in Nat
        PROVE  Typed([v EXCEPT !.itab[i].links = n])
    <3>1. [v.itab[i] EXCEPT !.links = n] \in Inode
      BY <2>1 DEF Inode
    <3>2. Typed([v EXCEPT !.itab[i] = [v.itab[i] EXCEPT !.links = n]])
      BY <1>2, <3>1, InodeTyped
    <3>3. [v EXCEPT !.itab[i].links = n] = [v EXCEPT !.itab[i] = [v.itab[i] EXCEPT !.links = n]]
      OBVIOUS
    <3> QED BY <3>2, <3>3
  <2>3. /\ (v.itab[i].links + 1) % LinkMod \in Nat
        /\ (IF v.itab[i].links > 0 THEN v.itab[i].links - 1 ELSE 0) \in Nat
    BY <2>1, ModType, VolumeAssumption DEF Inode
  <2> QED BY <1>2, <2>2, <2>3 DEF increment_link_count, decrement_link_count
<1> QED BY <1>1, <1>2

LEMMA CreateInodeTyped ==
  ASSUME NEW v, Typed(v), NEW t \in {"reg", "dir"}
  PROVE  LET a == create_inode(v, t)
         IN  Typed(a.vol) /\ a.ret \in 1 .. MaxInodes
<1> DEFINE free == Inodes \ v.imap
<1>1. CASE free = {}
  <2>1. create_inode(v, t) = Result(v, Bad)
    BY <1>1 DEF create_inode, allocate_inode, Result
  <2> QED BY <2>1, VolumeAssumption DEF Result, Bad, Inodes
<1>2. CASE free # {}
  <2>1. Min(free) \in free
    BY <1>2, MinIsLeast DEF Inodes
  <2> DEFINE w == [v EXCEPT !.imap = @ \cup {Min(free)}, !.ifree = (@ - 1) % CountMod]
  <2>2. allocate_inode(v) = Result(w, Min(free))
    BY <1>2 DEF allocate_inode
  <2>3. Typed(w)
    <3>1. v \in Volumes /\ (v.ifree - 1) % CountMod \in Nat
      BY ModType, VolumeAssumption DEF Typed, Volumes
    <3>2. v.imap \cup {Min(free)} \in SUBSET Inodes
      BY <2>1, <3>1 DEF Volumes
    <3>3. w \in Volumes /\ w.end = v.end
      BY <3>1, <3>2 DEF Volumes
    <3> QED BY <3>3 DEF Typed
  <2> HIDE DEF w
  <2> DEFINE u == [w EXCEPT !.itab[Min(free)] = NewInode(t)]
  <2>4. create_inode(v, t) = Result(u, Min(free))
    BY <2>1, <2>2, VolumeAssumption DEF create_inode, Result, Inodes, Bad
  <2>5. Typed(u)
    BY <2>1, <2>3, InodeTyped, NewInodeType
  <2> HIDE DEF u
  <2>6. create_inode(v, t).vol = u /\ create_inode(v, t).ret = Min(free)
    BY <2>4 DEF Result
  <2>7. Min(free) \in 1 .. MaxInodes
    BY <2>1, VolumeAssumption DEF Inodes
  <2> QED BY <2>5, <2>6, <2>7
<1> QED BY <1>1, <1>2

LEMMA DeleteInodeTyped ==
  ASSUME NEW v, Typed(v), NEW i
  PROVE  Typed(delete_inode(v, i))
<1>1. CASE i \notin Inodes
  BY <1>1 DEF delete_inode
<1>2. CASE i \in Inodes
  <2> DEFINE freed == {k \in Index : v.itab[i].ptr[k] \in 1 .. MaxBlocks}
             gone  == {v.itab[i].ptr[k] : k \in freed}
             u     == delete_inode(v, i)
  <2>1. v \in Volumes
    BY DEF Typed
  <2>2. Cardinality(freed) \in Nat
    <3>1. IsFiniteSet(Index)
      BY FS_Interval, VolumeAssumption DEF Index
    <3> QED BY <3>1, FS_Subset, FS_CardinalityType
  <2>3. /\ (v.bfree + Cardinality(freed)) % CountMod \in Nat
        /\ (v.ifree + 1) % CountMod \in Nat
    BY <2>1, <2>2, ModType, VolumeAssumption DEF Volumes
  <2>4. u = [bmap |-> v.bmap \ gone, imap |-> v.imap \ {i},
             itab |-> [v.itab EXCEPT ![i] = ZeroInode], blk |-> v.blk, end |-> v.end,
             bfree |-> (v.bfree + Cardinality(freed)) % CountMod,
             ifree |-> (v.ifree + 1) % CountMod]
    BY <1>2, <2>1 DEF delete_inode, free_inode, free_blocks, Volumes
  <2> HIDE DEF u, freed
  <2>5. u \in Volumes /\ u.end = v.end
    BY <2>1, <2>3, <2>4, NewInodeType DEF Volumes
  <2> QED BY <2>5 DEF Typed, u
<1> QED BY <1>1, <1>2

LEMMA AttachTyped ==
  ASSUME NEW v, Typed(v), NEW i, NEW k \in Index, NEW b \in 0 .. BitmapBits
  PROVE  Typed(set_inode_block(v, i, k, b))
<1>1. CASE i \notin Inodes
  BY <1>1 DEF set_inode_block
<1>2. CASE i \in Inodes
  <2> DEFINE t == [v.itab[i] EXCEPT !.ptr[k] = b]
  <2>1. v.itab[i] \in Inode
    BY <1>2 DEF Typed, Volumes
  <2>2. t \in Inode
    BY <2>1 DEF Inode
  <2>3. set_inode_block(v, i, k, b) = [v EXCEPT !.itab[i] = t]
    BY <1>2 DEF set_inode_block
  <2> HIDE DEF t
  <2> QED BY <1>2, <2>2, <2>3, InodeTyped
<1> QED BY <1>1, <1>2

LEMMA BlockForTyped ==
  ASSUME NEW v, Typed(v), NEW i \in Inodes, NEW k \in Index
  PROVE  LET a == BlockFor(v, i, k)
         IN  Typed(a.vol) /\ a.ret \in {0} \cup Blocks
<1> DEFINE a == allocate_block(v)
<1>1. v.itab[i].ptr[k] \in 0 .. BitmapBits
  BY DEF Typed, Volumes, Inode
<1>2. CASE v.itab[i].ptr[k] # 0
  BY <1>1, <1>2, VolumeAssumption DEF BlockFor, get_inode_block, Result, Blocks
<1>3. CASE v.itab[i].ptr[k] = 0
  <2>1. Typed(a.vol) /\ a.ret \in 0 .. BitmapBits
    BY AllocateBlockTyped
  <2> HIDE DEF a
  <2>2. Typed(set_inode_block(a.vol, i, k, a.ret))
    BY <2>1, AttachTyped
  <2>3. a.ret \in {0} \cup Blocks
    BY <2>1, VolumeAssumption DEF Blocks
  <2>4. BlockFor(v, i, k) = IF a.ret = 0 THEN a ELSE Result(set_inode_block(a.vol, i, k, a.ret), a.ret)
    BY <1>3 DEF BlockFor, Attached, get_inode_block, a
  <2> QED BY <2>1, <2>2, <2>3, <2>4 DEF Result
<1> QED BY <1>2, <1>3

LEMMA PutEntryTyped ==
  ASSUME NEW v, Typed(v), NEW b \in Blocks, NEW words \in [Slot -> Word], NEW s,
         NEW n \in AnyName, NEW c \in 1 .. MaxInodes
  PROVE  Typed(PutEntry(v, b, words, s, n, c).vol)
<1> DEFINE new == [words EXCEPT ![s] = Entry(n, c)]
<1>1. Entry(n, c) \in Word
  BY DEF Entry, Word, AnyName
<1>2. new \in [Slot -> Word]
  BY <1>1
<1> HIDE DEF new
<1>3. Typed(write_block(v, b, new))
  BY <1>2, WriteBlockTyped
<1>4. Typed(increment_link_count(write_block(v, b, new), c))
  BY <1>3, LinkCountTyped
<1> QED BY <1>4 DEF PutEntry, Done, Result, new

LEMMA AddEntryTyped ==
  ASSUME NEW v, Typed(v), NEW d, NEW n \in AnyName, NEW c \in 1 .. MaxInodes
  PROVE  Typed(add_directory_entry(v, d, n, c).vol)
<1> DEFINE k == ScanStop(v, d, IsFree)
           b == get_inode_block(v, d, k)
           a == BlockFor(v, d, k)
<1>1. CASE d \notin Inodes \/ k = NDirect
  BY <1>1 DEF add_directory_entry, Fail, Result
<1>2. CASE ~(d \notin Inodes \/ k = NDirect)
  <2>1. k \in Index
    BY <1>2, FreeScanStops
  <2>2. Typed(a.vol) /\ a.ret \in {0} \cup Blocks
    BY <1>2, <2>1, BlockForTyped
  <2>3. b \in 0 .. BitmapBits
    BY <1>2, <2>1 DEF Typed, Volumes, Inode, get_inode_block
  <2> HIDE DEF k, a, b
  <2>4. CASE b = 0
    <3>1. add_directory_entry(v, d, n, c) = PutInNewBlock(a, n, c)
      BY <1>2, <2>4 DEF add_directory_entry, k, a, b
    <3>2. CASE a.ret = 0
      BY <2>2, <3>1, <3>2 DEF PutInNewBlock, Fail, Result
    <3>3. CASE a.ret # 0
      <4>1. ZeroBlock \in [Slot -> Word]
        BY DEF ZeroBlock, Word
      <4>2. Typed(PutEntry(a.vol, a.ret, ZeroBlock, 1, n, c).vol)
        BY <2>2, <3>3, <4>1, PutEntryTyped
      <4> QED BY <3>1, <3>3, <4>2 DEF PutInNewBlock
    <3> QED BY <3>2, <3>3
  <2>5. CASE b # 0 /\ ~Readable(v, b)
    <3>1. add_directory_entry(v, d, n, c) = Fail(v)
      BY <1>2, <2>5 DEF add_directory_entry, k, b
    <3> QED BY <3>1 DEF Fail, Result
  <2>6. CASE b # 0 /\ Readable(v, b)
    <3> DEFINE s == FirstSlot(v, b, IsFree)
    <3>1. b \in Blocks
      BY <2>3, <2>6, VolumeAssumption DEF Blocks
    <3>2. v.blk[b] \in [Slot -> Word]
      BY <3>1 DEF Typed, Volumes
    <3> HIDE DEF s
    <3>3. Typed(PutEntry(v, b, v.blk[b], s, n, c).vol)
      BY <3>1, <3>2, PutEntryTyped
    <3>4. add_directory_entry(v, d, n, c) = PutEntry(v, b, v.blk[b], s, n, c)
      BY <1>2, <2>6 DEF add_directory_entry, k, b, s
    <3> QED BY <3>3, <3>4
  <2> QED BY <2>4, <2>5, <2>6
<1> QED BY <1>1, <1>2

LEMMA AddAfterTyped ==
  ASSUME NEW r, Typed(r.vol), NEW d, NEW n \in AnyName, NEW c \in 1 .. MaxInodes
  PROVE  Typed(AddAfter(r, d, n, c).vol)
<1>1. Typed(add_directory_entry(r.vol, d, n, c).vol)
  BY AddEntryTyped
<1> QED BY <1>1 DEF AddAfter

LEMMA RemoveEntryTyped ==
  ASSUME NEW v, Typed(v), NEW d, NEW n
  PROVE  Typed(remove_directory_entry(v, d, n).vol)
<1> DEFINE at    == Locate(v, d, n)
           words == [v.blk[at.block] EXCEPT ![at.slot] = Zero]
           w     == v.blk[at.block][at.slot]
<1>1. CASE at.block = 0
  BY <1>1 DEF remove_directory_entry, ClearEntry, Fail, Result
<1>2. CASE at.block # 0
  <2>1. at.block \in Blocks /\ at.slot \in Slot
    BY <1>2, LocateFindsIn DEF Typed
  <2> HIDE DEF at
  <2>2. words \in [Slot -> Word]
    BY <2>1 DEF Typed, Volumes, Word
  <2>3. Typed(write_block(v, at.block, words))
    BY <2>1, <2>2, WriteBlockTyped
  <2>4. Typed(decrement_link_count(write_block(v, at.block, words), w.ino))
    BY <2>3, LinkCountTyped
  <2>5. remove_directory_entry(v, d, n) =
          Done(decrement_link_count(write_block(v, at.block, words), w.ino))
    BY <1>2 DEF remove_directory_entry, ClearEntry, at
  <2> QED BY <2>4, <2>5 DEF Done, Result
<1> QED BY <1>1, <1>2

LEMMA FillDirectoryTyped ==
  ASSUME NEW v, Typed(v), NEW i \in 1 .. MaxInodes, NEW d \in 1 .. MaxInodes, NEW n \in AnyName
  PROVE  Typed(FillDirectory(i, allocate_block(v), d, n).vol)
<1> DEFINE b    == allocate_block(v)
           set  == set_inode_block(b.vol, i, 0, b.ret)
           dot  == add_directory_entry(set, i, Dot, i)
           dots == create_dot_entries(set, i, d)
           made == AddAfter(dots, d, n, i)
<1>1. Typed(b.vol) /\ b.ret \in 0 .. BitmapBits
  BY AllocateBlockTyped
<1> HIDE DEF b
<1>2. Typed(set)
  <2>1. 0 \in Index
    BY VolumeAssumption DEF Index
  <2> QED BY <1>1, <2>1, AttachTyped
<1> HIDE DEF set
<1>3. Typed(dot.vol) /\ dots = AddAfter(dot, i, DotDot, d)
  BY <1>2, AddEntryTyped DEF create_dot_entries, AnyName
<1> HIDE DEF dot, dots
<1>4. Typed(dots.vol)
  BY <1>3, AddAfterTyped DEF AnyName
<1>5. Typed(made.vol)
  BY <1>4, AddAfterTyped
<1> HIDE DEF made
<1>6. Typed(delete_inode(made.vol, i)) /\ Typed(delete_inode(b.vol, i))
  BY <1>1, <1>5, DeleteInodeTyped
<1>7. FillDirectory(i, b, d, n) = IF b.ret = 0 THEN Fail(delete_inode(b.vol, i))
                                  ELSE IF made.ret = -1 THEN Fail(delete_inode(made.vol, i)) ELSE made
  BY DEF FillDirectory, made, dots, set
<1> QED BY <1>5, <1>6, <1>7 DEF Fail, Result, b

LEMMA MakeDirectoryTyped ==
  ASSUME NEW v, Typed(v), NEW d, NEW n \in AnyName
  PROVE  Typed(MakeDirectory(v, d, n).vol)
<1> DEFINE i == create_inode(v, "dir")
<1>1. CASE ~is_directory(v, d)
  BY <1>1 DEF MakeDirectory, Fail, Result
<1>2. CASE is_directory(v, d) /\ find_directory_entry(v, d, n) # 0
  BY <1>2 DEF MakeDirectory, Done, Result
<1>3. CASE is_directory(v, d) /\ find_directory_entry(v, d, n) = 0
  <2>1. d \in 1 .. MaxInodes
    BY <1>3, VolumeAssumption DEF is_directory, IsType, Inodes
  <2>2. Typed(i.vol) /\ i.ret \in 1 .. MaxInodes
    BY CreateInodeTyped
  <2> HIDE DEF i
  <2>3. Typed(FillDirectory(i.ret, allocate_block(i.vol), d, n).vol)
    BY <2>1, <2>2, FillDirectoryTyped
  <2> QED BY <1>3, <2>3 DEF MakeDirectory, i
<1> QED BY <1>1, <1>2, <1>3

LEMMA NewFileTyped ==
  ASSUME NEW v, Typed(v), NEW d, NEW n \in AnyName
  PROVE  Typed(NewFile(v, d, n))
<1> DEFINE i    == create_inode(v, "reg")
           link == add_directory_entry(i.vol, d, n, i.ret)
<1>1. Typed(i.vol) /\ i.ret \in 1 .. MaxInodes
  BY CreateInodeTyped
<1>2. Typed(link.vol)
  BY <1>1, AddEntryTyped
<1>3. Typed(delete_inode(link.vol, i.ret))
  BY <1>2, DeleteInodeTyped
<1> QED BY <1>2, <1>3 DEF NewFile

LEMMA DeleteDirectoryTyped ==
  ASSUME NEW v, Typed(v), NEW cwd, NEW p
  PROVE  Typed(delete_directory(v, cwd, p).vol)
<1> DEFINE i == path_to_inode(v, cwd, p)
           d == get_parent_inode(v, cwd, p)
           r == remove_directory_entry(v, d, Last(p.comps))
<1>1. Typed(delete_inode(r.vol, i))
  BY RemoveEntryTyped, DeleteInodeTyped
<1>2. \/ delete_directory(v, cwd, p) = Fail(v)
      \/ delete_directory(v, cwd, p) = Done(delete_inode(r.vol, i))
  BY DEF delete_directory
<1> QED BY <1>1, <1>2 DEF Fail, Done, Result

\* A path of one name, or of two, is looked up name by name.
LEMMA ShortPaths ==
  ASSUME NEW v \in Volumes, NEW m, NEW n
  PROVE  Resolve(v, RootIno, <<n>>) \in 0 .. MaxInodes /\ Resolve(v, RootIno, <<m, n>>) \in 0 .. MaxInodes
<1> DEFINE find(d, x) == find_directory_entry(v, d, x)
           one == [k \in 0 .. 1 |-> IF k = 0 THEN RootIno ELSE find(RootIno, n)]
           two == [k \in 0 .. 2 |-> IF k = 0 THEN RootIno
                                    ELSE IF k = 1 THEN find(RootIno, m)
                                    ELSE find(find(RootIno, m), n)]
           Is1(at) == at = [k \in 0 .. 1 |-> IF k = 0 THEN RootIno ELSE find(at[k - 1], <<n>>[k])]
           Is2(at) == at = [k \in 0 .. 2 |-> IF k = 0 THEN RootIno ELSE find(at[k - 1], <<m, n>>[k])]
<1>1. \A d, x : find(d, x) \in 0 .. MaxInodes
  BY FindTypeIn
<1>2. Is1(one)
  OBVIOUS
<1>3. Is2(two)
  OBVIOUS
<1>4. Resolve(v, RootIno, <<n>>) = (CHOOSE at : Is1(at))[1]
  BY DEF Resolve
<1>5. Resolve(v, RootIno, <<m, n>>) = (CHOOSE at : Is2(at))[2]
  BY DEF Resolve
<1>6. \A at : Is1(at) => at[1] \in 0 .. MaxInodes
  BY <1>1
<1>7. \A at : Is2(at) => at[2] \in 0 .. MaxInodes
  BY <1>1
<1> HIDE DEF Is1, Is2
<1> QED BY <1>2, <1>3, <1>4, <1>5, <1>6, <1>7
----------------------------------------------------------------------------
(* Images on which nothing was ever removed: directories are filled from    *)
(* the front, so that a name that is found stays where it is found.         *)

\* Blocks, whosever they are, and the blocks of an inode are filled in order.
Packed(v) ==
  \A b \in Blocks, s, t \in Slot : s < t /\ IsFree(v.blk[b][s]) => IsFree(v.blk[b][t])
FullBefore(v) ==
  \A i \in Inodes, k, l \in Index : k < l /\ v.itab[i].ptr[l] # 0 =>
     v.itab[i].ptr[k] # 0 /\ \A s \in Slot : ~IsFree(v.blk[v.itab[i].ptr[k]][s])

\* A free inode has no blocks; those of the others, but of inode x, can be read.
FreeEmpty(v) == \A i \in Inodes \ v.imap, k \in Index : v.itab[i].ptr[k] = 0
ReadBut(v, x) ==
  \A i \in Inodes \ {x}, k \in Index : v.itab[i].ptr[k] # 0 => v.itab[i].ptr[k] < v.end

TidyBut(v, x) ==
  /\ VolOK(v) /\ FreeUntyped(v)
  /\ Packed(v) /\ FullBefore(v) /\ FreeEmpty(v) /\ ReadBut(v, x)
Tidy(v) == TidyBut(v, 0)

\* Inodes in use keep their types and blocks, and these their entries.
Grows(v, u) ==
  /\ v.end <= u.end /\ v.imap \subseteq u.imap
  /\ \A i \in v.imap : u.itab[i].type = v.itab[i].type
  /\ \A i \in v.imap, k \in Index : v.itab[i].ptr[k] # 0 =>
       /\ u.itab[i].ptr[k] = v.itab[i].ptr[k]
       /\ \A s \in Slot : LET b == v.itab[i].ptr[k]
                          IN  ~IsFree(v.blk[b][s]) => u.blk[b][s] = v.blk[b][s]

LEMMA GrowsKeepsType ==
  ASSUME NEW v, NEW u, Grows(v, u), NEW i \in v.imap
  PROVE  u.itab[i].type = v.itab[i].type
BY Zenon DEF Grows

----------------------------------------------------------------------------
(* Where a name is found *)

FirstAt(v, d, n, k, s) ==
  /\ k \in Index /\ s \in Slot
  /\ \A l \in 0 .. k : v.itab[d].ptr[l] # 0 /\ v.itab[d].ptr[l] < v.end
  /\ IsNamed(v.blk[v.itab[d].ptr[k]][s], n)
  /\ \A l \in Index, t \in Slot : l < k \/ (l = k /\ t < s) => ~IsNamed(v.blk[v.itab[d].ptr[l]][t], n)

LEMMA PlacesAreNat == Index \subseteq Nat /\ Slot \subseteq Nat /\ \A k \in Index : k < NDirect
BY VolumeAssumption DEF Index, Slot

\* The places of a directory up to k are places.
LEMMA UpToIndex == ASSUME NEW k \in Index, NEW l \in 0 .. k PROVE l \in Index /\ k \in 0 .. k
BY VolumeAssumption DEF Index

\* What a first place says, one part at a time.
LEMMA FirstAtHas ==
  ASSUME NEW v, NEW d, NEW n, NEW k, NEW s, FirstAt(v, d, n, k, s)
  PROVE  /\ k \in Index /\ s \in Slot
         /\ \A l \in 0 .. k : v.itab[d].ptr[l] # 0 /\ v.itab[d].ptr[l] < v.end
         /\ IsNamed(v.blk[v.itab[d].ptr[k]][s], n)
BY Zenon DEF FirstAt

LEMMA MinIs ==
  ASSUME NEW S, S \subseteq Nat, NEW n \in S, \A x \in S : n <= x
  PROVE  Min(S) = n
<1>1. Min(S) \in S /\ \A x \in S : Min(S) <= x
  BY MinIsLeast
<1>2. Min(S) \in Nat /\ n \in Nat /\ Min(S) <= n /\ n <= Min(S)
  BY <1>1
<1> QED BY <1>2

LEMMA FindsAt ==
  ASSUME NEW v, VolOK(v), NEW d \in Inodes, NEW n, NEW k, NEW s, FirstAt(v, d, n, k, s)
  PROVE  /\ find_directory_entry(v, d, n) = v.blk[v.itab[d].ptr[k]][s].ino
         /\ find_directory_entry(v, d, n) # 0
<1> DEFINE Stops(l) == LET x == get_inode_block(v, d, l)
                       IN  x = 0 \/ ~Readable(v, x) \/ \E t \in Slot : IsNamed(v.blk[x][t], n)
           stops == {l \in Index : Stops(l)}
           y == IF stops = {} THEN NDirect ELSE Min(stops)
           b == get_inode_block(v, d, y)
           hits == {t \in Slot : IsNamed(v.blk[b][t], n)}
           r == v.itab[d].ptr[k]
<1>1. Locate(v, d, n) = IF d \in Inodes /\ y < NDirect /\ b # 0 /\ Readable(v, b)
                        THEN [block |-> b, slot |-> Min(hits)]
                        ELSE [block |-> 0, slot |-> 0]
  BY DEF Locate, ScanStop, FirstSlot, HasSlot
<1>2. /\ k \in Index /\ Index \subseteq Nat /\ s \in Slot /\ Slot \subseteq Nat
      /\ r # 0 /\ r < v.end /\ IsNamed(v.blk[r][s], n) /\ k < NDirect
  <2>1. k \in Index /\ s \in Slot /\ IsNamed(v.blk[r][s], n)
    BY FirstAtHas, Zenon
  <2>2. k \in 0 .. k
    BY <2>1, PlacesAreNat
  <2>3. r # 0 /\ r < v.end
    BY <2>2, FirstAtHas, Zenon
  <2> QED BY <2>1, <2>3, PlacesAreNat, Zenon
<1>3. y = k
  <2>1. Stops(k)
    BY <1>2 DEF get_inode_block
  <2>2. ASSUME NEW l \in Index, l < k PROVE ~Stops(l)
    <3>1. v.itab[d].ptr[l] # 0 /\ v.itab[d].ptr[l] < v.end
      <4>1. l \in 0 .. k
        BY <1>2, <2>2 DEF Index
      <4> QED BY <4>1 DEF FirstAt
    <3>2. \A t \in Slot : ~IsNamed(v.blk[v.itab[d].ptr[l]][t], n)
      BY <2>2 DEF FirstAt
    <3> QED BY <3>1, <3>2 DEF get_inode_block, Readable
  <2> HIDE DEF Stops
  <2>3. \A l \in stops : l \in Index /\ Stops(l)
    BY Zenon
  <2>4. k \in stops
    BY <1>2, <2>1, Zenon
  <2> HIDE DEF stops
  <2>5. stops \subseteq Nat
    BY <1>2, <2>3
  <2>7. ASSUME NEW l \in stops PROVE k <= l
    <3>1. l \in Index /\ ~(l < k) /\ l \in Nat /\ k \in Nat
      BY <1>2, <2>2, <2>3
    <3> QED BY <3>1
  <2>6. Min(stops) = k /\ stops # {}
    BY <2>4, <2>5, <2>7, MinIs
  <2> QED BY <2>6
<1> HIDE DEF y
<1>4. b = r
  BY <1>3 DEF get_inode_block
<1> HIDE DEF b
<1>5. Min(hits) = s
  <2>1. hits \subseteq Nat
    BY <1>2
  <2>2. s \in hits
    BY <1>2, <1>4
  <2>3. \A t \in hits : s <= t
    <3> TAKE t \in hits
    <3>1. t \in Nat /\ s \in Nat /\ t \in Slot /\ IsNamed(v.blk[r][t], n)
      BY <1>2, <1>4
    <3>2. ~(t < s)
      BY <1>2, <3>1 DEF FirstAt
    <3> QED BY <3>1, <3>2
  <2> HIDE DEF hits
  <2> QED BY <2>1, <2>2, <2>3, MinIs
<1> HIDE DEF hits, r
<1>6. Locate(v, d, n) = [block |-> r, slot |-> s]
  BY <1>1, <1>2, <1>3, <1>4, <1>5 DEF Readable
<1>7. find_directory_entry(v, d, n) = EntryIno(v.blk[r][s])
  BY <1>2, <1>6 DEF find_directory_entry, FoundIno
<1>8. v.blk[r][s] \in Word /\ v.blk[r][s].tag = "entry"
  <2>1. r \in Blocks
    BY <1>2, VolumeAssumption DEF VolOK, Volumes, Inode, Blocks, r
  <2> QED BY <1>2, <2>1 DEF VolOK, Volumes, IsNamed
<1>9. v.blk[r][s].ino \in 1 .. MaxInodes /\ EntryIno(v.blk[r][s]) = v.blk[r][s].ino
  BY <1>8 DEF Word, EntryIno, Zero
<1>10. find_directory_entry(v, d, n) = v.blk[r][s].ino
  BY <1>7, <1>9, Zenon
<1>11. v.blk[r][s].ino # 0
  <2> DEFINE e == v.blk[r][s].ino
  <2>1. e \in 1 .. MaxInodes
    BY <1>9, Zenon
  <2> HIDE DEF e
  <2>2. e # 0
    BY <2>1, VolumeAssumption
  <2> QED BY <2>2, Zenon DEF e
<1> QED BY <1>10, <1>11, Zenon DEF r

LEMMA FoundAt ==
  ASSUME NEW v, VolOK(v), NEW d, NEW n, find_directory_entry(v, d, n) # 0
  PROVE  d \in Inodes /\ \E k \in Index, s \in Slot : FirstAt(v, d, n, k, s)
<1> DEFINE Stops(l) == LET x == get_inode_block(v, d, l)
                       IN  x = 0 \/ ~Readable(v, x) \/ \E t \in Slot : IsNamed(v.blk[x][t], n)
           stops == {l \in Index : Stops(l)}
           k == IF stops = {} THEN NDirect ELSE Min(stops)
           b == get_inode_block(v, d, k)
           hits == {t \in Slot : IsNamed(v.blk[b][t], n)}
           s == Min(hits)
<1>1. Locate(v, d, n) = IF d \in Inodes /\ k < NDirect /\ b # 0 /\ Readable(v, b)
                        THEN [block |-> b, slot |-> Min(hits)]
                        ELSE [block |-> 0, slot |-> 0]
  BY DEF Locate, ScanStop, FirstSlot, HasSlot
<1>2. d \in Inodes /\ k < NDirect /\ b # 0 /\ Readable(v, b)
  <2> HIDE DEF k, b, hits
  <2>1. Locate(v, d, n).block # 0
    BY DEF find_directory_entry, FoundIno
  <2> QED BY <1>1, <2>1
<1>3. k \in stops /\ \A l \in stops : k <= l
  <2>1. stops # {} /\ stops \subseteq Nat
    BY <1>2, VolumeAssumption DEF Index
  <2> HIDE DEF stops
  <2> QED BY <2>1, MinIsLeast
<1>4. k \in Index /\ Index \subseteq Nat
  BY <1>3 DEF Index
<1>5. \A l \in Index : l < k => ~Stops(l)
  <2> HIDE DEF k
  <2>1. \A l \in Index : Stops(l) => l \in stops
    OBVIOUS
  <2> HIDE DEF Stops, stops
  <2> QED BY <1>3, <1>4, <2>1
<1>6. \E t \in Slot : IsNamed(v.blk[b][t], n)
  <2>1. Stops(k)
    BY <1>3, Zenon
  <2> HIDE DEF k
  <2> QED BY <1>2, <2>1
<1> HIDE DEF k, stops
<1>7. b = v.itab[d].ptr[k]
  BY DEF get_inode_block
<1>8. s \in Slot /\ IsNamed(v.blk[b][s], n) /\ \A t \in Slot : IsNamed(v.blk[b][t], n) => s <= t
  <2>1. hits \subseteq Nat /\ hits # {}
    BY <1>6 DEF Slot
  <2>2. s \in hits /\ \A t \in hits : s <= t
    <3> HIDE DEF hits
    <3> QED BY <2>1, MinIsLeast
  <2> QED BY <2>2, Zenon
<1> HIDE DEF b, s, hits
<1>9. \A l \in 0 .. k : v.itab[d].ptr[l] # 0 /\ v.itab[d].ptr[l] < v.end
  <2> SUFFICES ASSUME NEW l \in 0 .. k PROVE v.itab[d].ptr[l] # 0 /\ v.itab[d].ptr[l] < v.end
    OBVIOUS
  <2>1. l \in Index /\ (l < k \/ l = k)
    BY <1>4, VolumeAssumption DEF Index
  <2> QED BY <1>2, <1>5, <1>7, <2>1 DEF get_inode_block, Readable
<1>10. ASSUME NEW l \in Index, NEW t \in Slot, l < k \/ (l = k /\ t < s)
       PROVE  ~IsNamed(v.blk[v.itab[d].ptr[l]][t], n)
  <2>1. CASE l < k
    <3>1. ~Stops(l)
      <4> HIDE DEF Stops
      <4> QED BY <1>5, <2>1, Zenon
    <3>2. ~IsNamed(v.blk[get_inode_block(v, d, l)][t], n)
      BY <3>1, Zenon
    <3> QED BY <3>2, Zenon DEF get_inode_block
  <2>2. CASE l = k /\ t < s
    <3>1. ~(s <= t)
      BY <1>8, <2>2, PlacesAreNat
    <3> QED BY <1>7, <1>8, <2>2, <3>1, Zenon
  <2> QED BY <1>10, <2>1, <2>2
<1> QED BY <1>2, <1>4, <1>7, <1>8, <1>9, <1>10 DEF FirstAt

\* A word that is no entry's number is free; a name is never.
LEMMA NamedIsFull ==
  ASSUME NEW v, VolOK(v), NEW b \in Blocks, NEW s \in Slot, NEW n, IsNamed(v.blk[b][s], n)
  PROVE  ~IsFree(v.blk[b][s])
<1>1. v.blk[b][s] \in Word /\ v.blk[b][s].tag = "entry"
  BY DEF VolOK, Volumes, IsNamed
<1> QED BY <1>1 DEF Word, IsFree, EntryIno, Zero

LEMMA PointsToBlocks ==
  ASSUME NEW v, VolOK(v), NEW i \in Inodes, NEW k \in Index, v.itab[i].ptr[k] # 0
  PROVE  v.itab[i].ptr[k] \in Blocks
BY VolumeAssumption DEF VolOK, Volumes, Inode, Blocks

\* A name that is found stays where it is.
LEMMA StaysFound ==
  ASSUME NEW v, Tidy(v), NEW u, VolOK(u), Grows(v, u), NEW d, NEW n, find_directory_entry(v, d, n) # 0
  PROVE  find_directory_entry(u, d, n) = find_directory_entry(v, d, n)
<1>1. VolOK(v) /\ Packed(v) /\ FullBefore(v) /\ FreeEmpty(v)
  BY DEF Tidy, TidyBut
<1>2. d \in Inodes
  BY <1>1, FoundAt
<1>3. PICK k \in Index, s \in Slot : FirstAt(v, d, n, k, s)
  BY <1>1, FoundAt
<1>4. \A l \in 0 .. k : l \in Index /\ v.itab[d].ptr[l] # 0 /\ v.itab[d].ptr[l] < v.end
  BY <1>3, UpToIndex, FirstAtHas, Zenon
<1>5. k \in 0 .. k /\ v.itab[d].ptr[k] # 0
  <2>1. k \in 0 .. k
    BY <1>3, PlacesAreNat
  <2> QED BY <1>4, <2>1, Zenon
<1>6. d \in v.imap
  BY <1>1, <1>2, <1>3, <1>5 DEF FreeEmpty
<1>7. ASSUME NEW l \in Index, NEW t \in Slot, l < k \/ (l = k /\ t <= s)
      PROVE  /\ u.itab[d].ptr[l] = v.itab[d].ptr[l]
             /\ u.blk[v.itab[d].ptr[l]][t] = v.blk[v.itab[d].ptr[l]][t]
  <2>1. v.itab[d].ptr[l] # 0
    <3>1. l \in 0 .. k
      BY <1>7, VolumeAssumption DEF Index
    <3> QED BY <1>4, <3>1
  <2>2. v.itab[d].ptr[l] \in Blocks
    BY <1>1, <1>2, <2>1, PointsToBlocks
  <2>3. ~IsFree(v.blk[v.itab[d].ptr[l]][t])
    <3>1. CASE l < k
      BY <1>1, <1>2, <1>5, <3>1 DEF FullBefore
    <3>2. CASE l = k /\ t <= s
      <4>1. IsNamed(v.blk[v.itab[d].ptr[l]][s], n)
        BY <1>3, <3>2 DEF FirstAt
      <4>2. ~IsFree(v.blk[v.itab[d].ptr[l]][s])
        BY <1>1, <2>2, <4>1, NamedIsFull
      <4>3. t = s \/ t < s
        BY <3>2 DEF Slot
      <4> QED BY <1>1, <2>2, <4>2, <4>3 DEF Packed
    <3> QED BY <1>7, <3>1, <3>2
  <2> QED BY <1>6, <2>1, <2>3 DEF Grows
<1>8. FirstAt(u, d, n, k, s)
  <2>1. v.end \in Nat /\ u.end \in Nat /\ v.end <= u.end
    BY <1>1 DEF VolOK, Volumes, Grows
  <2>2. ASSUME NEW l \in 0 .. k PROVE u.itab[d].ptr[l] # 0 /\ u.itab[d].ptr[l] < u.end
    <3>1. l \in Index /\ v.itab[d].ptr[l] # 0 /\ v.itab[d].ptr[l] < v.end
      BY <1>4
    <3>2. u.itab[d].ptr[l] = v.itab[d].ptr[l]
      BY <1>6, <3>1 DEF Grows
    <3>3. v.itab[d].ptr[l] \in Nat
      BY <1>1, <1>2, <3>1, PointsToBlocks DEF Blocks
    <3> QED BY <2>1, <3>1, <3>2, <3>3
  <2>3. s <= s
    BY DEF Slot
  <2>4. IsNamed(u.blk[u.itab[d].ptr[k]][s], n)
    <3>1. u.blk[u.itab[d].ptr[k]][s] = v.blk[v.itab[d].ptr[k]][s]
      BY <1>7, <2>3
    <3>2. IsNamed(v.blk[v.itab[d].ptr[k]][s], n)
      BY <1>3 DEF FirstAt
    <3> QED BY <3>1, <3>2
  <2>5. ASSUME NEW l \in Index, NEW t \in Slot, l < k \/ (l = k /\ t < s)
        PROVE  ~IsNamed(u.blk[u.itab[d].ptr[l]][t], n)
    <3>1. t < s => t <= s
      BY DEF Slot
    <3>2. ~IsNamed(v.blk[v.itab[d].ptr[l]][t], n)
      BY <1>3, <2>5 DEF FirstAt
    <3> QED BY <1>7, <2>5, <3>1, <3>2
  <2> QED BY <2>2, <2>4, <2>5 DEF FirstAt
<1>9. /\ find_directory_entry(v, d, n) = v.blk[v.itab[d].ptr[k]][s].ino
      /\ find_directory_entry(u, d, n) = u.blk[u.itab[d].ptr[k]][s].ino
  BY <1>1, <1>2, <1>3, <1>8, FindsAt
<1>10. k \in Index /\ s \in Slot /\ s <= s
  BY DEF Slot
<1>11. /\ u.itab[d].ptr[k] = v.itab[d].ptr[k]
       /\ u.blk[v.itab[d].ptr[k]][s] = v.blk[v.itab[d].ptr[k]][s]
  BY <1>7, <1>10
<1> QED BY <1>9, <1>11, Zenon

\* A name that is not found is not, either, where the directory is the same.
LEMMA StaysMissing ==
  ASSUME NEW v, VolOK(v), ReadBut(v, 0), NEW u, VolOK(u), NEW d \in Inodes, SameFile(v, u, d),
         NEW n, find_directory_entry(v, d, n) = 0
  PROVE  find_directory_entry(u, d, n) = 0
<1> SUFFICES ASSUME find_directory_entry(u, d, n) # 0 PROVE FALSE
  OBVIOUS
<1>1. PICK k \in Index, s \in Slot : FirstAt(u, d, n, k, s)
  BY FoundAt
<1>2. \A l \in Index : /\ u.itab[d].ptr[l] = v.itab[d].ptr[l]
                       /\ v.itab[d].ptr[l] # 0 => v.itab[d].ptr[l] < v.end
                       /\ v.itab[d].ptr[l] # 0 => u.blk[v.itab[d].ptr[l]] = v.blk[v.itab[d].ptr[l]]
  BY DEF SameFile, ReadBut, Inodes
<1>3. \A l \in 0 .. k : l \in Index /\ v.itab[d].ptr[l] # 0 /\ v.itab[d].ptr[l] < v.end
  <2>1. \A l \in 0 .. k : l \in Index /\ u.itab[d].ptr[l] # 0
    BY <1>1, VolumeAssumption DEF FirstAt, Index
  <2> QED BY <1>2, <2>1
<1>4. ASSUME NEW l \in Index, NEW t \in Slot, l < k \/ l = k
      PROVE  u.blk[u.itab[d].ptr[l]][t] = v.blk[v.itab[d].ptr[l]][t]
  <2>1. l \in 0 .. k
    BY <1>4, VolumeAssumption DEF Index
  <2> QED BY <1>2, <1>3, <2>1
<1>5. FirstAt(v, d, n, k, s)
  BY <1>1, <1>3, <1>4 DEF FirstAt
<1> QED BY <1>5, FindsAt

----------------------------------------------------------------------------
(* Where an entry is put *)

\* From v to u, name n of inode c is put in slot s of block b, index k of d; the
\* block was d's, or nobody's and held what is in old.
PutAt(v, u, d, n, c, k, b, s, old) ==
  /\ \A l \in Index : l < k =>
       /\ v.itab[d].ptr[l] # 0 /\ v.itab[d].ptr[l] < v.end
       /\ \A t \in Slot : ~IsFree(v.blk[v.itab[d].ptr[l]][t])
  /\ IsFree(old[s]) /\ \A t \in Slot : t < s => ~IsFree(old[t])
  /\ \/ v.itab[d].ptr[k] = b /\ b < v.end /\ old = v.blk[b]
     \/ v.itab[d].ptr[k] = 0 /\ b \notin v.bmap /\ old = ZeroBlock
  /\ u.blk = [v.blk EXCEPT ![b] = [old EXCEPT ![s] = Entry(n, c)]]
  /\ u.imap = v.imap /\ u.end = IF b < v.end THEN v.end ELSE b + 1
  /\ \A i \in Inodes : u.itab[i].type = v.itab[i].type
  /\ \A i \in Inodes, l \in Index :
       u.itab[i].ptr[l] = IF i = d /\ l = k THEN b ELSE v.itab[i].ptr[l]

Put(v, u, d, n, c) ==
  \E k \in Index, b \in Blocks, s \in Slot, old \in [Slot -> Word] : PutAt(v, u, d, n, c, k, b, s, old)

\* Before the block where the scan for a free entry stops all are full.
LEMMA FreeScanPasses ==
  ASSUME NEW v, NEW d, NEW l \in Index, l < ScanStop(v, d, IsFree)
  PROVE  LET b == v.itab[d].ptr[l]
         IN  b # 0 /\ Readable(v, b) /\ \A t \in Slot : ~IsFree(v.blk[b][t])
<1> DEFINE Stops(y) == LET x == get_inode_block(v, d, y)
                       IN  x = 0 \/ ~Readable(v, x) \/ \E t \in Slot : IsFree(v.blk[x][t])
           stops == {y \in Index : Stops(y)}
           k == IF stops = {} THEN NDirect ELSE Min(stops)
<1>1. ScanStop(v, d, IsFree) = k
  BY DEF ScanStop, HasSlot
<1>2. l \notin stops
  <2>1. stops \subseteq Nat /\ l \in Nat
    BY DEF Index
  <2> HIDE DEF stops
  <2> SUFFICES ASSUME l \in stops PROVE FALSE
    OBVIOUS
  <2>2. Min(stops) \in Nat /\ Min(stops) <= l
    BY <2>1, MinIsLeast
  <2> QED BY <1>1, <2>1, <2>2
<1>3. ~Stops(l)
  <2> HIDE DEF Stops
  <2> QED BY <1>2
<1> QED BY <1>3 DEF get_inode_block

LEMMA FirstFree ==
  ASSUME NEW v, NEW b, \E s \in Slot : IsFree(v.blk[b][s])
  PROVE  LET s == FirstSlot(v, b, IsFree)
         IN  s \in Slot /\ IsFree(v.blk[b][s]) /\ \A t \in Slot : t < s => ~IsFree(v.blk[b][t])
<1> DEFINE free == {s \in Slot : IsFree(v.blk[b][s])}
<1>1. free \subseteq Nat /\ free # {}
  BY DEF Slot
<1>2. FirstSlot(v, b, IsFree) = Min(free)
  BY DEF FirstSlot
<1>3. Min(free) \in free /\ \A t \in free : Min(free) <= t
  <2> HIDE DEF free
  <2> QED BY <1>1, MinIsLeast
<1> DEFINE s == Min(free)
<1>4. s \in Slot /\ IsFree(v.blk[b][s]) /\ \A t \in Slot : IsFree(v.blk[b][t]) => s <= t
  BY <1>3, Zenon
<1> HIDE DEF s
<1>5. \A t \in Slot : t < s => ~IsFree(v.blk[b][t])
  BY <1>4 DEF Slot
<1> QED BY <1>2, <1>4, <1>5 DEF s

LEMMA PutEntryIs ==
  ASSUME NEW v, VolOK(v), NEW b \in Blocks, NEW words \in [Slot -> Word], NEW s \in Slot,
         NEW n \in AnyName, NEW c \in 1 .. MaxInodes
  PROVE  LET r == PutEntry(v, b, words, s, n, c)
             u == r.vol
         IN  /\ r.ret # -1 /\ VolOK(u)
             /\ u.blk = [v.blk EXCEPT ![b] = [words EXCEPT ![s] = Entry(n, c)]]
             /\ u.imap = v.imap /\ u.end = IF b < v.end THEN v.end ELSE b + 1
             /\ \A i \in Inodes : u.itab[i].type = v.itab[i].type /\ u.itab[i].ptr = v.itab[i].ptr
<1> DEFINE new == [words EXCEPT ![s] = Entry(n, c)]
           w   == write_block(v, b, new)
           u   == increment_link_count(w, c)
<1>1. new \in [Slot -> Word]
  BY DEF Entry, Word, AnyName
<1> HIDE DEF new
<1>2. VolOK(w)
  BY <1>1, WriteBlockOK
<1>3. /\ w.blk = [v.blk EXCEPT ![b] = new] /\ w.imap = v.imap /\ w.itab = v.itab
      /\ w.end = IF b < v.end THEN v.end ELSE b + 1
  BY DEF write_block, VolOK, Volumes
<1>4. PutEntry(v, b, words, s, n, c) = Done(u)
  BY DEF PutEntry, new
<1> HIDE DEF w
<1>5. u.end = w.end
  BY <1>2 DEF increment_link_count, VolOK, Volumes
<1>6. VolOK(u) /\ Keeps(w, u, 0, 0) /\ u.blk = w.blk
      /\ \A j \in Inodes : u.itab[j].ptr = w.itab[j].ptr
  BY <1>2, LinkCountOK, LinkCountKeeps
<1> HIDE DEF u
<1>7. \A j \in Inodes : SameInode(w, u, j)
  BY <1>6 DEF Keeps, Inodes
<1>8. u.imap = w.imap
  BY <1>2, <1>6, <1>7 DEF SameInode, VolOK, Volumes
<1>9. \A j \in Inodes : u.itab[j].type = w.itab[j].type
  BY <1>7 DEF SameInode
<1> QED BY <1>3, <1>4, <1>5, <1>6, <1>8, <1>9 DEF Done, Result, new

LEMMA AddIs ==
  ASSUME NEW v, VolOK(v), NEW d, NEW n \in AnyName, NEW c \in 1 .. MaxInodes,
         NEW r, r = add_directory_entry(v, d, n, c)
  PROVE  \/ r.ret = -1 /\ r.vol = v
         \/ r.ret # -1 /\ d \in Inodes /\ VolOK(r.vol) /\ Put(v, r.vol, d, n, c)
<1> DEFINE k == ScanStop(v, d, IsFree)
           b == get_inode_block(v, d, k)
           a == BlockFor(v, d, k)
<1>1. CASE r = Fail(v)
  BY <1>1 DEF Fail, Result
<1>2. CASE r # Fail(v)
  <2>1. d \in Inodes /\ k # NDirect /\ (b # 0 => Readable(v, b))
    BY <1>2 DEF add_directory_entry
  <2>2. k \in Index
    BY <2>1, FreeScanStops
  <2>3. b = v.itab[d].ptr[k]
    BY DEF get_inode_block
  <2>4. \A l \in Index : v.itab[d].ptr[l] # 0 => v.itab[d].ptr[l] \in Blocks
    BY <2>1, PointsToBlocks
  <2>5. \A l \in Index : l < k =>
          /\ v.itab[d].ptr[l] # 0 /\ v.itab[d].ptr[l] < v.end
          /\ \A t \in Slot : ~IsFree(v.blk[v.itab[d].ptr[l]][t])
    BY FreeScanPasses DEF Readable
  <2>6. CASE b = 0
    <3>1. a = Attached(allocate_block(v), d, k)
      BY <2>6 DEF BlockFor
    <3>2. r = PutInNewBlock(a, n, c)
      BY <2>1, <2>6 DEF add_directory_entry
    <3>3. VolOK(a.vol)
      BY <2>1, <2>2, BlockForOK
    <3> DEFINE x == allocate_block(v)
    <3>4. /\ x.ret = 0 => x.vol = v
          /\ x.ret # 0 => x.ret \in Blocks \ v.bmap
          /\ VolOK(x.vol)
          /\ x.vol.itab = v.itab /\ x.vol.imap = v.imap
          /\ x.vol.blk = v.blk /\ x.vol.end = v.end
      BY AllocateBlockOK
    <3>5. CASE x.ret = 0
      <4>1. a.ret = 0 /\ a.vol = v
        <5>1. a = x
          BY <3>1, <3>5 DEF Attached
        <5> QED BY <3>4, <3>5, <5>1
      <4>2. r = Fail(v)
        BY <3>2, <4>1 DEF PutInNewBlock
      <4> QED BY <1>2, <4>2
    <3>6. CASE x.ret # 0
      <4> DEFINE w == a.vol
                 at == x.ret
                 zero == ZeroBlock
      <4>1. a.ret = at /\ w = [x.vol EXCEPT !.itab[d].ptr[k] = at]
        BY <2>1, <3>1, <3>6 DEF Attached, set_inode_block, Result
      <4>2. r = PutEntry(w, at, zero, 1, n, c)
        BY <3>2, <3>6, <4>1 DEF PutInNewBlock
      <4>3. at \in Blocks /\ at \notin v.bmap
        BY <3>4, <3>6
      <4>4. VolOK(w)
        BY <3>3
      <4> HIDE DEF x, a, b
      <4>5. /\ w.blk = v.blk /\ w.imap = v.imap /\ w.end = v.end
            /\ w.itab = [v.itab EXCEPT ![d].ptr[k] = at]
        BY <3>4, <4>1 DEF VolOK, Volumes
      <4>6. /\ \A i \in Inodes : w.itab[i].type = v.itab[i].type
            /\ \A i \in Inodes, l \in Index :
                 w.itab[i].ptr[l] = IF i = d /\ l = k THEN at ELSE v.itab[i].ptr[l]
        BY <2>1, <2>2, <4>5 DEF VolOK, Volumes, Inode
      <4>7. zero \in [Slot -> Word] /\ 1 \in Slot /\ IsFree(zero[1])
        BY VolumeAssumption DEF ZeroBlock, Word, Slot, IsFree, EntryIno, Zero
      <4> HIDE DEF w, at, zero
      <4>8. /\ r.ret # -1 /\ VolOK(r.vol)
            /\ r.vol.blk = [w.blk EXCEPT ![at] = [zero EXCEPT ![1] = Entry(n, c)]]
            /\ r.vol.imap = w.imap /\ r.vol.end = IF at < w.end THEN w.end ELSE at + 1
            /\ \A i \in Inodes : r.vol.itab[i].type = w.itab[i].type /\ r.vol.itab[i].ptr = w.itab[i].ptr
        BY <4>2, <4>3, <4>4, <4>7, PutEntryIs
      <4>9. \A t \in Slot : ~(t < 1)
        BY DEF Slot
      <4>10. PutAt(v, r.vol, d, n, c, k, at, 1, zero)
        <5> HIDE DEF k
        <5>1. zero = ZeroBlock /\ v.itab[d].ptr[k] = 0
          BY <2>3, <2>6 DEF zero
        <5>2. r.vol.blk = [v.blk EXCEPT ![at] = [zero EXCEPT ![1] = Entry(n, c)]]
          BY <4>5, <4>8
        <5>3. r.vol.imap = v.imap /\ r.vol.end = IF at < v.end THEN v.end ELSE at + 1
          BY <4>5, <4>8
        <5>4. /\ \A i \in Inodes : r.vol.itab[i].type = v.itab[i].type
              /\ \A i \in Inodes, l \in Index :
                   r.vol.itab[i].ptr[l] = IF i = d /\ l = k THEN at ELSE v.itab[i].ptr[l]
          BY <4>6, <4>8
        <5> QED BY <2>5, <4>3, <4>7, <4>9, <5>1, <5>2, <5>3, <5>4, Zenon DEF PutAt
      <4> QED BY <2>1, <2>2, <4>3, <4>7, <4>8, <4>10 DEF Put
    <3> QED BY <3>5, <3>6
  <2>7. CASE b # 0
    <3> DEFINE s == FirstSlot(v, b, IsFree)
               old == v.blk[b]
    <3>1. s \in Slot /\ IsFree(v.blk[b][s]) /\ \A t \in Slot : t < s => ~IsFree(v.blk[b][t])
      <4>1. s \in Slot /\ IsFree(v.blk[b][s])
        BY <2>1, <2>3, <2>7, FreeScanFinds
      <4> HIDE DEF b
      <4>2. \E t \in Slot : IsFree(v.blk[b][t])
        BY <4>1
      <4> QED BY <4>2, FirstFree
    <3>2. r = PutEntry(v, b, old, s, n, c)
      BY <1>2, <2>1, <2>7 DEF add_directory_entry
    <3>3. old \in [Slot -> Word] /\ b \in Blocks
      BY <2>2, <2>3, <2>4, <2>7 DEF VolOK, Volumes
    <3>4. b < v.end
      BY <2>1, <2>7 DEF Readable
    <3> HIDE DEF s, b, k, a
    <3>5. /\ r.ret # -1 /\ VolOK(r.vol)
          /\ r.vol.blk = [v.blk EXCEPT ![b] = [old EXCEPT ![s] = Entry(n, c)]]
          /\ r.vol.imap = v.imap /\ r.vol.end = IF b < v.end THEN v.end ELSE b + 1
          /\ \A i \in Inodes : r.vol.itab[i].type = v.itab[i].type /\ r.vol.itab[i].ptr = v.itab[i].ptr
      <4>1. s \in Slot
        BY <3>1
      <4> HIDE DEF old
      <4> QED BY <3>2, <3>3, <4>1, PutEntryIs
    <3>6. PutAt(v, r.vol, d, n, c, k, b, s, old)
      BY <2>3, <2>5, <3>1, <3>4, <3>5 DEF PutAt
    <3> QED BY <2>1, <2>2, <3>1, <3>3, <3>5, <3>6 DEF Put
  <2> QED BY <2>6, <2>7
<1> QED BY <1>1, <1>2

\* The words of u after it; and what v's pointers lead to in u.
PutBlocks(v, u, n, c, b, s, old) ==
  \A x \in Blocks, t \in Slot :
    u.blk[x][t] = IF x = b THEN IF t = s THEN Entry(n, c) ELSE old[t] ELSE v.blk[x][t]
PutPointers(v, u, b, old) ==
  \A i \in Inodes, l \in Index : v.itab[i].ptr[l] # 0 =>
    /\ u.itab[i].ptr[l] = v.itab[i].ptr[l]
    /\ v.itab[i].ptr[l] = b => old = v.blk[b]
    /\ \A t \in Slot : LET x == v.itab[i].ptr[l]
                       IN  ~IsFree(v.blk[x][t]) => u.blk[x][t] = v.blk[x][t]

LEMMA PutWords ==
  ASSUME NEW v, VolOK(v), NEW u, VolOK(u), NEW d \in Inodes, NEW n, NEW c \in 1 .. MaxInodes,
         NEW k \in Index, NEW b \in Blocks, NEW s \in Slot, NEW old \in [Slot -> Word],
         PutAt(v, u, d, n, c, k, b, s, old)
  PROVE  /\ ~IsFree(Entry(n, c))
         /\ PutBlocks(v, u, n, c, b, s, old) /\ PutPointers(v, u, b, old)
<1>1. ~IsFree(Entry(n, c))
  BY DEF Entry, IsFree, EntryIno
<1>2. \A x \in Blocks, t \in Slot :
        u.blk[x][t] = IF x = b THEN IF t = s THEN Entry(n, c) ELSE old[t] ELSE v.blk[x][t]
  <2>1. u.blk = [v.blk EXCEPT ![b] = [old EXCEPT ![s] = Entry(n, c)]]
    BY DEF PutAt
  <2> QED BY <2>1 DEF VolOK, Volumes
<1>3. ASSUME NEW i \in Inodes, NEW l \in Index, v.itab[i].ptr[l] # 0
      PROVE  /\ u.itab[i].ptr[l] = v.itab[i].ptr[l]
             /\ v.itab[i].ptr[l] = b => old = v.blk[b]
             /\ \A t \in Slot : LET x == v.itab[i].ptr[l]
                                IN  ~IsFree(v.blk[x][t]) => u.blk[x][t] = v.blk[x][t]
  <2>1. u.itab[i].ptr[l] = v.itab[i].ptr[l]
    BY <1>3 DEF PutAt
  <2>2. v.itab[i].ptr[l] = b => old = v.blk[b]
    BY <1>3 DEF PutAt, VolOK, Owned
  <2>3. ASSUME NEW t \in Slot, NEW x, x = v.itab[i].ptr[l], ~IsFree(v.blk[x][t])
        PROVE  u.blk[x][t] = v.blk[x][t]
    <3>1. x \in Blocks
      BY <1>3, <2>3, PointsToBlocks
    <3>2. x = b => ~IsFree(old[t])
      BY <2>2, <2>3
    <3>3. IsFree(old[s])
      BY DEF PutAt
    <3> QED BY <1>2, <2>2, <2>3, <3>1, <3>2, <3>3
  <2> QED BY <2>1, <2>2, <2>3
<1> QED BY <1>1, <1>2, <1>3 DEF PutBlocks, PutPointers

LEMMA PutGrows ==
  ASSUME NEW v, VolOK(v), NEW u, VolOK(u), NEW d \in Inodes, NEW n, NEW c \in 1 .. MaxInodes,
         Put(v, u, d, n, c)
  PROVE  Grows(v, u)
<1>1. PICK k \in Index, b \in Blocks, s \in Slot, old \in [Slot -> Word] :
             PutAt(v, u, d, n, c, k, b, s, old)
  BY DEF Put
<1>2. v.end <= u.end
  BY <1>1 DEF PutAt, VolOK, Volumes, Blocks
<1>3. u.imap = v.imap /\ (\A i \in Inodes : u.itab[i].type = v.itab[i].type) /\ v.imap \subseteq Inodes
  BY <1>1 DEF PutAt, VolOK, Volumes
<1>4. PutPointers(v, u, b, old)
  BY <1>1, PutWords
<1> QED BY <1>2, <1>3, <1>4 DEF Grows, PutPointers

LEMMA PutTidy ==
  ASSUME NEW v, Tidy(v), NEW u, VolOK(u), NEW d \in v.imap, NEW n, NEW c \in 1 .. MaxInodes,
         Put(v, u, d, n, c)
  PROVE  Tidy(u)
<1>0. /\ VolOK(v) /\ FreeUntyped(v) /\ Packed(v) /\ FullBefore(v) /\ FreeEmpty(v) /\ ReadBut(v, 0)
      /\ d \in Inodes
  BY DEF Tidy, TidyBut, VolOK, Volumes
<1>1. PICK k \in Index, b \in Blocks, s \in Slot, old \in [Slot -> Word] :
             PutAt(v, u, d, n, c, k, b, s, old)
  BY DEF Put
<1>10. ~IsFree(Entry(n, c)) /\ PutBlocks(v, u, n, c, b, s, old) /\ PutPointers(v, u, b, old)
  BY <1>0, <1>1, PutWords
<1>2. /\ ~IsFree(Entry(n, c))
      /\ \A x \in Blocks, t \in Slot :
           u.blk[x][t] = IF x = b THEN IF t = s THEN Entry(n, c) ELSE old[t] ELSE v.blk[x][t]
      /\ \A i \in Inodes, l \in Index : v.itab[i].ptr[l] # 0 =>
           /\ u.itab[i].ptr[l] = v.itab[i].ptr[l]
           /\ \A t \in Slot : LET x == v.itab[i].ptr[l]
                              IN  ~IsFree(v.blk[x][t]) => u.blk[x][t] = v.blk[x][t]
  BY <1>10 DEF PutBlocks, PutPointers
<1>3. /\ u.imap = v.imap /\ v.end <= u.end /\ b < u.end
      /\ \A i \in Inodes : u.itab[i].type = v.itab[i].type
      /\ \A i \in Inodes, l \in Index :
           u.itab[i].ptr[l] = IF i = d /\ l = k THEN b ELSE v.itab[i].ptr[l]
  BY <1>0, <1>1 DEF PutAt, VolOK, Volumes, Blocks
<1>4. FreeUntyped(u)
  BY <1>0, <1>3 DEF FreeUntyped
<1>5. Packed(u)
  <2>1. \A x, y \in Slot : x < y /\ IsFree(old[x]) => IsFree(old[y])
    <3>1. old = v.blk[b] \/ old = ZeroBlock
      BY <1>1 DEF PutAt
    <3>2. \A x \in Slot : IsFree(ZeroBlock[x])
      BY DEF ZeroBlock, IsFree, EntryIno, Zero
    <3> QED BY <1>0, <3>1, <3>2 DEF Packed
  <2>2. \A t \in Slot : t < s => ~IsFree(old[t])
    BY <1>1 DEF PutAt
  <2> SUFFICES ASSUME NEW z \in Blocks, NEW x \in Slot, NEW y \in Slot, x < y, IsFree(u.blk[z][x])
               PROVE  IsFree(u.blk[z][y])
    BY DEF Packed
  <2>3. CASE z = b
    <3>1. x # s /\ IsFree(old[x])
      BY <1>2, <2>3
    <3>2. ~(x < s)
      BY <2>2, <3>1
    <3>3. y # s
      BY <3>1, <3>2 DEF Slot
    <3> QED BY <1>2, <2>1, <2>3, <3>1, <3>3
  <2>4. CASE z # b
    BY <1>0, <1>2, <2>4 DEF Packed
  <2> QED BY <2>3, <2>4
<1>6. FullBefore(u)
  <2> SUFFICES ASSUME NEW i \in Inodes, NEW x \in Index, NEW y \in Index, x < y, u.itab[i].ptr[y] # 0
               PROVE  /\ u.itab[i].ptr[x] # 0
                      /\ \A t \in Slot : ~IsFree(u.blk[u.itab[i].ptr[x]][t])
    BY DEF FullBefore
  <2>1. v.itab[i].ptr[x] # 0 /\ \A t \in Slot : ~IsFree(v.blk[v.itab[i].ptr[x]][t])
    <3>1. CASE i = d /\ y = k
      BY <1>1, <3>1 DEF PutAt
    <3>2. CASE ~(i = d /\ y = k)
      BY <1>0, <1>3, <3>2 DEF FullBefore
    <3> QED BY <3>1, <3>2
  <2>2. \A t \in Slot : u.blk[v.itab[i].ptr[x]][t] = v.blk[v.itab[i].ptr[x]][t]
    BY <1>2, <2>1
  <2>3. u.itab[i].ptr[x] = v.itab[i].ptr[x]
    BY <1>2, <2>1
  <2> QED BY <2>1, <2>2, <2>3
<1>7. FreeEmpty(u)
  BY <1>0, <1>3 DEF FreeEmpty
<1>8. ReadBut(u, 0)
  <2> SUFFICES ASSUME NEW i \in Inodes \ {0}, NEW l \in Index, u.itab[i].ptr[l] # 0
               PROVE  u.itab[i].ptr[l] < u.end
    BY DEF ReadBut
  <2>1. CASE i = d /\ l = k
    BY <1>3, <2>1
  <2>2. CASE ~(i = d /\ l = k)
    <3>1. v.itab[i].ptr[l] # 0 /\ u.itab[i].ptr[l] = v.itab[i].ptr[l]
      BY <1>3, <2>2
    <3>2. v.itab[i].ptr[l] < v.end
      BY <1>0, <3>1 DEF ReadBut
    <3>3. v.itab[i].ptr[l] \in Nat /\ v.end \in Nat /\ u.end \in Nat
      BY <1>0, <3>1, PointsToBlocks DEF VolOK, Volumes, Blocks
    <3> QED BY <1>3, <3>1, <3>2, <3>3
  <2> QED BY <2>1, <2>2
<1> QED BY <1>4, <1>5, <1>6, <1>7, <1>8 DEF Tidy, TidyBut

\* A name that is not found is in no block the scan passes.
LEMMA NotNamedWhereMissing ==
  ASSUME NEW v, VolOK(v), NEW d \in Inodes, NEW n, find_directory_entry(v, d, n) = 0,
         NEW l \in Index, NEW t \in Slot,
         \A m \in 0 .. l : v.itab[d].ptr[m] # 0 /\ v.itab[d].ptr[m] < v.end
  PROVE  ~IsNamed(v.blk[v.itab[d].ptr[l]][t], n)
<1> DEFINE Named(m) == \E y \in Slot : IsNamed(v.blk[v.itab[d].ptr[m]][y], n)
           ms == {m \in Index : Named(m)}
           m0 == Min(ms)
           ys == {y \in Slot : IsNamed(v.blk[v.itab[d].ptr[m0]][y], n)}
           y0 == Min(ys)
<1> SUFFICES ASSUME IsNamed(v.blk[v.itab[d].ptr[l]][t], n) PROVE FALSE
  OBVIOUS
<1>0. Index \subseteq Nat /\ Slot \subseteq Nat
  BY VolumeAssumption DEF Index, Slot
<1>1. ms \subseteq Nat /\ l \in ms
  <2>1. Named(l)
    OBVIOUS
  <2> HIDE DEF Named
  <2> QED BY <1>0, <2>1
<1>2. m0 \in ms /\ \A m \in ms : m0 <= m
  <2> HIDE DEF ms
  <2> QED BY <1>1, MinIsLeast
<1>3. m0 \in Index /\ Named(m0) /\ \A m \in Index : Named(m) => m0 <= m
  <2> HIDE DEF m0
  <2> QED BY <1>2, Zenon
<1>4. m0 <= l
  BY <1>1, <1>2
<1> HIDE DEF ms, m0
<1>5. ys \subseteq Nat /\ ys # {}
  <2>1. ys # {}
    BY <1>3, Zenon
  <2>2. ys \subseteq Nat
    BY <1>0
  <2> QED BY <2>1, <2>2
<1>6. y0 \in ys /\ \A y \in ys : y0 <= y
  <2> HIDE DEF ys
  <2> QED BY <1>5, MinIsLeast
<1>7. y0 \in Slot /\ IsNamed(v.blk[v.itab[d].ptr[m0]][y0], n)
      /\ \A y \in Slot : IsNamed(v.blk[v.itab[d].ptr[m0]][y], n) => y0 <= y
  <2> HIDE DEF y0
  <2> QED BY <1>6, Zenon
<1> HIDE DEF y0, ys
<1>8. m0 \in Nat /\ y0 \in Nat /\ l \in Nat
  BY <1>0, <1>3, <1>7
<1>9. \A m \in 0 .. m0 : m \in 0 .. l
  BY <1>4, <1>8
<1>10. \A m \in Index : m < m0 => ~Named(m)
  <2> SUFFICES ASSUME NEW m \in Index, m < m0 PROVE ~Named(m)
    OBVIOUS
  <2> HIDE DEF Named
  <2>1. ~(m0 <= m)
    BY <1>0, <1>8
  <2> QED BY <1>3, <2>1, Zenon
<1>11. \A y \in Slot : y < y0 => ~IsNamed(v.blk[v.itab[d].ptr[m0]][y], n)
  <2> SUFFICES ASSUME NEW y \in Slot, y < y0 PROVE ~IsNamed(v.blk[v.itab[d].ptr[m0]][y], n)
    OBVIOUS
  <2>1. ~(y0 <= y)
    BY <1>0, <1>8
  <2> QED BY <1>7, <2>1, Zenon
<1>12. FirstAt(v, d, n, m0, y0)
  BY <1>3, <1>7, <1>9, <1>10, <1>11 DEF FirstAt
<1> QED BY <1>12, FindsAt

\* The name that was put is found, where it was not before.
LEMMA PutFound ==
  ASSUME NEW v, Tidy(v), NEW u, VolOK(u), NEW d \in Inodes, NEW n, NEW c \in 1 .. MaxInodes,
         Put(v, u, d, n, c), find_directory_entry(v, d, n) = 0
  PROVE  find_directory_entry(u, d, n) = c
<1>0. VolOK(v) /\ ReadBut(v, 0)
  BY DEF Tidy, TidyBut
<1>1. PICK k \in Index, b \in Blocks, s \in Slot, old \in [Slot -> Word] :
             PutAt(v, u, d, n, c, k, b, s, old)
  BY DEF Put
<1>10. PutBlocks(v, u, n, c, b, s, old) /\ PutPointers(v, u, b, old)
  BY <1>0, <1>1, PutWords
<1>2. /\ u.blk[b][s] = Entry(n, c)
      /\ \A x \in Blocks, t \in Slot :
           u.blk[x][t] = IF x = b THEN IF t = s THEN Entry(n, c) ELSE old[t] ELSE v.blk[x][t]
      /\ \A l \in Index : v.itab[d].ptr[l] # 0 => u.itab[d].ptr[l] = v.itab[d].ptr[l]
  BY <1>10 DEF PutBlocks, PutPointers
<1>3. /\ \A l \in Index : l < k => v.itab[d].ptr[l] # 0 /\ v.itab[d].ptr[l] < v.end
      /\ u.itab[d].ptr[k] = b /\ b < u.end /\ v.end <= u.end
      /\ (v.itab[d].ptr[k] = b /\ b < v.end /\ old = v.blk[b]) \/ old = ZeroBlock
  BY <1>0, <1>1 DEF PutAt, VolOK, Volumes, Blocks
<1>4. IsNamed(Entry(n, c), n) /\ Entry(n, c).ino = c
  BY DEF IsNamed, Entry
<1>5. ASSUME NEW l \in Index, NEW t \in Slot, v.itab[d].ptr[l] # 0,
             \A m \in 0 .. l : v.itab[d].ptr[m] # 0 /\ v.itab[d].ptr[m] < v.end
      PROVE  ~IsNamed(v.blk[v.itab[d].ptr[l]][t], n)
  BY <1>0, <1>5, NotNamedWhereMissing
<1>6. \A l \in 0 .. k : l \in Index
  BY VolumeAssumption DEF Index
<1>7. ASSUME NEW l \in 0 .. k PROVE u.itab[d].ptr[l] # 0 /\ u.itab[d].ptr[l] < u.end
  <2>1. CASE l = k
    BY <1>3, <2>1 DEF Blocks
  <2>2. CASE l < k
    <3>1. l \in Index /\ v.itab[d].ptr[l] # 0 /\ v.itab[d].ptr[l] < v.end
      BY <1>3, <1>6, <2>2
    <3>2. v.itab[d].ptr[l] \in Nat /\ v.end \in Nat /\ u.end \in Nat
      BY <1>0, <3>1, PointsToBlocks DEF VolOK, Volumes, Blocks
    <3> QED BY <1>2, <1>3, <3>1, <3>2
  <2> QED BY <2>1, <2>2 DEF Index
<1>8. ASSUME NEW l \in Index, NEW t \in Slot, l < k \/ (l = k /\ t < s)
      PROVE  ~IsNamed(u.blk[u.itab[d].ptr[l]][t], n)
  <2>1. CASE v.itab[d].ptr[k] = b /\ b < v.end /\ old = v.blk[b]
    <3>1. \A m \in 0 .. k : v.itab[d].ptr[m] # 0 /\ v.itab[d].ptr[m] < v.end
      <4> SUFFICES ASSUME NEW m \in 0 .. k PROVE v.itab[d].ptr[m] # 0 /\ v.itab[d].ptr[m] < v.end
        OBVIOUS
      <4>1. m = k \/ m < k
        BY VolumeAssumption DEF Index
      <4> QED BY <1>3, <1>6, <2>1, <4>1 DEF Blocks
    <3>2. l \in 0 .. k /\ \A m \in 0 .. l : m \in 0 .. k
      BY <1>8 DEF Index
    <3>3. ~IsNamed(v.blk[v.itab[d].ptr[l]][t], n)
      BY <1>5, <1>8, <3>1, <3>2
    <3>4. u.itab[d].ptr[l] = v.itab[d].ptr[l] /\ v.itab[d].ptr[l] \in Blocks
      BY <1>0, <1>2, <3>1, <3>2, PointsToBlocks
    <3>5. t # s \/ v.itab[d].ptr[l] # b
      <4>1. CASE l = k
        BY <1>8, <4>1 DEF Slot, Index
      <4>2. CASE l # k
        BY <1>0, <2>1, <3>1, <3>2, <4>2 DEF VolOK, Owned
      <4> QED BY <4>1, <4>2
    <3> QED BY <1>2, <2>1, <3>3, <3>4, <3>5
  <2>2. CASE v.itab[d].ptr[k] = 0 /\ b \notin v.bmap /\ old = ZeroBlock
    <3>1. CASE l < k
      <4>1. \A m \in 0 .. l : m \in Index /\ m < k
        BY <3>1, VolumeAssumption DEF Index
      <4>2. v.itab[d].ptr[l] # 0 /\ ~IsNamed(v.blk[v.itab[d].ptr[l]][t], n)
        BY <1>3, <1>5, <1>8, <3>1, <4>1
      <4>3. v.itab[d].ptr[l] # b
        BY <1>0, <2>2, <4>2 DEF VolOK, Owned
      <4>4. v.itab[d].ptr[l] \in Blocks
        BY <1>0, <4>2, PointsToBlocks
      <4>5. u.itab[d].ptr[l] = v.itab[d].ptr[l]
        BY <1>2, <4>2, Zenon
      <4>6. u.blk[v.itab[d].ptr[l]][t] = v.blk[v.itab[d].ptr[l]][t]
        BY <1>2, <4>3, <4>4, Zenon
      <4> QED BY <4>2, <4>5, <4>6, Zenon
    <3>2. CASE l = k /\ t < s
      <4>1. ~IsNamed(ZeroBlock[t], n) /\ t # s
        BY <3>2 DEF ZeroBlock, IsNamed, Zero, Slot
      <4> QED BY <1>2, <1>3, <2>2, <3>2, <4>1
    <3> QED BY <1>8, <3>1, <3>2
  <2> QED BY <1>1, <2>1, <2>2 DEF PutAt
<1>9. FirstAt(u, d, n, k, s)
  BY <1>2, <1>3, <1>4, <1>7, <1>8 DEF FirstAt
<1> QED BY <1>2, <1>3, <1>4, <1>9, FindsAt

----------------------------------------------------------------------------
(* The operations that make directories and files *)

\* Words change to zero or to entries of the two dots only; or name n of inode i
\* comes too.
DotsOnly(v, u) ==
  \A b \in Blocks, s \in Slot :
    \/ u.blk[b][s] \in {v.blk[b][s], Zero}
    \/ \E m \in {Dot, DotDot}, c \in 1 .. MaxInodes : u.blk[b][s] = Entry(m, c)
NewName(v, u, n, i) ==
  \A b \in Blocks, s \in Slot :
    \/ u.blk[b][s] \in {v.blk[b][s], Zero, Entry(n, i)}
    \/ \E m \in {Dot, DotDot}, c \in 1 .. MaxInodes : u.blk[b][s] = Entry(m, c)

Later(v, u) == Tidy(u) /\ Grows(v, u) /\ DotsOnly(v, u)

LEMMA GrowsTrans ==
  ASSUME NEW v, VolOK(v), NEW w, VolOK(w), NEW u, VolOK(u), Grows(v, w), Grows(w, u)
  PROVE  Grows(v, u)
<1>1. v.end <= u.end /\ v.imap \subseteq u.imap
  BY DEF Grows, VolOK, Volumes
<1>2. \A i \in v.imap : u.itab[i].type = v.itab[i].type
  BY DEF Grows
<1>3. ASSUME NEW i \in v.imap, NEW k \in Index, v.itab[i].ptr[k] # 0
      PROVE  /\ u.itab[i].ptr[k] = v.itab[i].ptr[k]
             /\ \A s \in Slot : LET b == v.itab[i].ptr[k]
                                IN  ~IsFree(v.blk[b][s]) => u.blk[b][s] = v.blk[b][s]
  <2>1. i \in w.imap /\ w.itab[i].ptr[k] = v.itab[i].ptr[k]
    BY <1>3 DEF Grows
  <2>2. u.itab[i].ptr[k] = v.itab[i].ptr[k]
    BY <1>3, <2>1 DEF Grows
  <2>3. ASSUME NEW b, b = v.itab[i].ptr[k], NEW s \in Slot, ~IsFree(v.blk[b][s])
        PROVE  u.blk[b][s] = v.blk[b][s]
    <3>1. w.blk[b][s] = v.blk[b][s]
      BY <1>3, <2>3 DEF Grows
    <3>2. i \in w.imap /\ w.itab[i].ptr[k] = b /\ b # 0 /\ ~IsFree(w.blk[b][s])
      BY <1>3, <2>1, <2>3, <3>1
    <3>3. u.blk[b][s] = w.blk[b][s]
      BY <3>2 DEF Grows
    <3> QED BY <3>1, <3>3
  <2> QED BY <2>2, <2>3
<1> QED BY <1>1, <1>2, <1>3 DEF Grows

LEMMA GrowsSelf ==
  ASSUME NEW v, VolOK(v) PROVE Grows(v, v) /\ DotsOnly(v, v)
BY DEF Grows, DotsOnly, VolOK, Volumes

\* A new inode, an empty one.
LEMMA CreateInodeLater ==
  ASSUME NEW v, Tidy(v), NEW t \in {"reg", "dir"}
  PROVE  LET a == create_inode(v, t) IN Later(v, a.vol) /\ a.vol.blk = v.blk
<1> DEFINE a == create_inode(v, t)
           i == a.ret
           w == a.vol
<1>0. VolOK(v) /\ FreeUntyped(v) /\ Packed(v) /\ FullBefore(v) /\ FreeEmpty(v) /\ ReadBut(v, 0)
  BY DEF Tidy, TidyBut
<1>1. /\ VolOK(w) /\ Keeps(v, w, 0, i)
      /\ i \in Inodes => /\ i \notin v.imap /\ w.imap = v.imap \cup {i}
                         /\ \A k \in Index : w.itab[i].ptr[k] = 0
      /\ i \notin Inodes => w = v
  <2>1. VolOK(w)
    BY <1>0, CreateInodeOK
  <2>2. /\ Keeps(v, w, 0, i)
        /\ i \in Inodes => /\ i \notin v.imap /\ w.imap = v.imap \cup {i}
                           /\ \A k \in Index : w.itab[i].ptr[k] = 0
        /\ i \notin Inodes => w = v
    BY <1>0, CreateInodeKeeps
  <2> QED BY <2>1, <2>2
<1>2. w.blk = v.blk /\ w.end = v.end
  BY <1>0 DEF create_inode, allocate_inode, Result, VolOK, Volumes
<1> HIDE DEF w, i, a
<1>3. CASE i \notin Inodes
  BY <1>0, <1>1, <1>2, <1>3, GrowsSelf DEF Later, w, a
<1>4. CASE i \in Inodes
  <2>1. /\ v.imap \subseteq Inodes /\ v.end <= w.end /\ 0 \notin Inodes
    BY <1>0, <1>2 DEF VolOK, Volumes, Inodes
  <2>2. \A j \in Inodes \ {i} : /\ w.itab[j].type = v.itab[j].type
                                /\ \A k \in Index : w.itab[j].ptr[k] = v.itab[j].ptr[k]
    BY <1>1, <2>1 DEF Keeps, SameFile, SameInode
  <2>3. FreeUntyped(w)
    BY <1>0, <1>1, <1>4, <2>2 DEF FreeUntyped
  <2>4. Packed(w)
    BY <1>0, <1>2 DEF Packed
  <2>5. FullBefore(w)
    <3> SUFFICES ASSUME NEW j \in Inodes, NEW x \in Index, NEW y \in Index, x < y, w.itab[j].ptr[y] # 0
                 PROVE  /\ w.itab[j].ptr[x] # 0
                        /\ \A t1 \in Slot : ~IsFree(w.blk[w.itab[j].ptr[x]][t1])
      BY DEF FullBefore
    <3>1. j # i
      BY <1>1, <1>4
    <3> QED BY <1>0, <1>2, <2>2, <3>1 DEF FullBefore
  <2>6. FreeEmpty(w)
    BY <1>0, <1>1, <1>4, <2>2 DEF FreeEmpty
  <2>7. ReadBut(w, 0)
    BY <1>0, <1>1, <1>2, <1>4, <2>2 DEF ReadBut
  <2>8. Grows(v, w)
    BY <1>1, <1>2, <1>4, <2>1, <2>2 DEF Grows
  <2>9. DotsOnly(v, w)
    BY <1>2 DEF DotsOnly
  <2> QED BY <1>1, <1>2, <2>3, <2>4, <2>5, <2>6, <2>7, <2>8, <2>9 DEF Later, Tidy, TidyBut, w, a
<1> QED BY <1>3, <1>4

LEMMA AllocateBlockLater ==
  ASSUME NEW v, VolOK(v), NEW w, Later(v, w)
  PROVE  Later(v, allocate_block(w).vol)
<1> DEFINE u == allocate_block(w).vol
<1>0. VolOK(w) /\ FreeUntyped(w) /\ Packed(w) /\ FullBefore(w) /\ FreeEmpty(w) /\ ReadBut(w, 0)
  BY DEF Later, Tidy, TidyBut
<1>1. VolOK(u) /\ u.itab = w.itab /\ u.imap = w.imap /\ u.blk = w.blk /\ u.end = w.end
  BY <1>0, AllocateBlockOK
<1> HIDE DEF u
<1>2. FreeUntyped(u) /\ Packed(u) /\ FullBefore(u)
  BY <1>0, <1>1 DEF FreeUntyped, Packed, FullBefore
<1>3. FreeEmpty(u) /\ ReadBut(u, 0)
  BY <1>0, <1>1 DEF FreeEmpty, ReadBut
<1>4. Grows(v, u) /\ DotsOnly(v, u)
  BY <1>1 DEF Later, Grows, DotsOnly
<1> QED BY <1>1, <1>2, <1>3, <1>4 DEF Later, Tidy, TidyBut, u

\* An inode of no use before that goes again.
LEMMA DeleteInodeLater ==
  ASSUME NEW v, VolOK(v), NEW w, NEW i, i \notin v.imap,
         TidyBut(w, i), Grows(v, w), DotsOnly(v, w), i \notin Inodes => Tidy(w)
  PROVE  Later(v, delete_inode(w, i)) /\ delete_inode(w, i).blk = w.blk
<1> DEFINE u == delete_inode(w, i)
<1>1. CASE i \notin Inodes
  <2>1. u = w
    BY <1>1 DEF delete_inode
  <2> QED BY <1>1, <2>1 DEF Later
<1>2. CASE i \in Inodes
  <2>0. VolOK(w) /\ FreeUntyped(w) /\ Packed(w) /\ FullBefore(w) /\ FreeEmpty(w) /\ ReadBut(w, i)
        /\ v.imap \subseteq Inodes
    BY DEF TidyBut, VolOK, Volumes
  <2>1. VolOK(u)
    BY <2>0, DeleteInodeOK
  <2>2. u.imap = w.imap \ {i} /\ u.itab[i].type = "none"
    BY <1>2, <2>0, DeleteInodeKeeps
  <2>3. u.blk = w.blk /\ u.end = w.end /\ u.itab = [w.itab EXCEPT ![i] = ZeroInode]
    BY <1>2, <2>0 DEF delete_inode, free_inode, free_blocks, VolOK, Volumes
  <2>4. \A k \in Index : ZeroInode.ptr[k] = 0
    BY NewInodeType
  <2> HIDE DEF u
  <2>5. /\ \A k \in Index : u.itab[i].ptr[k] = 0
        /\ \A j \in Inodes : j # i => u.itab[j] = w.itab[j]
    BY <1>2, <2>0, <2>3, <2>4 DEF VolOK, Volumes
  <2>6. FreeUntyped(u) /\ Packed(u)
    BY <2>0, <2>2, <2>3, <2>5 DEF FreeUntyped, Packed
  <2>7. FullBefore(u)
    BY <2>0, <2>3, <2>5 DEF FullBefore
  <2>8. FreeEmpty(u) /\ ReadBut(u, 0)
    BY <2>0, <2>2, <2>3, <2>5 DEF FreeEmpty, ReadBut
  <2>9. \A j \in v.imap : j \in Inodes /\ j # i /\ u.itab[j] = w.itab[j]
    BY <2>0, <2>5
  <2>10. Grows(v, u)
    BY <2>2, <2>3, <2>9 DEF Grows
  <2>11. DotsOnly(v, u)
    BY <2>3 DEF DotsOnly
  <2> QED BY <2>1, <2>3, <2>6, <2>7, <2>8, <2>10, <2>11 DEF Later, Tidy, TidyBut, u
<1> QED BY <1>1, <1>2

\* An entry that was put.
LEMMA PutNames ==
  ASSUME NEW v, VolOK(v), NEW u, VolOK(u), NEW d \in Inodes, NEW n, NEW c \in 1 .. MaxInodes,
         Put(v, u, d, n, c)
  PROVE  \A b \in Blocks, s \in Slot : u.blk[b][s] \in {v.blk[b][s], Zero, Entry(n, c)}
<1>1. PICK k \in Index, b \in Blocks, s \in Slot, old \in [Slot -> Word] :
             PutAt(v, u, d, n, c, k, b, s, old)
  BY DEF Put
<1>2. PutBlocks(v, u, n, c, b, s, old)
  BY <1>1, PutWords
<1>3. old = v.blk[b] \/ old = ZeroBlock
  BY <1>1 DEF PutAt
<1>4. \A t \in Slot : ZeroBlock[t] = Zero
  BY DEF ZeroBlock
<1> QED BY <1>2, <1>3, <1>4 DEF PutBlocks

LEMMA DotLater ==
  ASSUME NEW v, VolOK(v), NEW w, Later(v, w), NEW d \in w.imap, NEW n \in {Dot, DotDot},
         NEW c \in 1 .. MaxInodes, NEW u, VolOK(u), Put(w, u, d, n, c)
  PROVE  Later(v, u)
<1>1. Tidy(w) /\ VolOK(w) /\ d \in Inodes /\ Grows(v, w) /\ DotsOnly(v, w)
  BY DEF Later, Tidy, TidyBut, VolOK, Volumes
<1>2. Tidy(u) /\ Grows(w, u)
  BY <1>1, PutTidy, PutGrows
<1>3. Grows(v, u)
  BY <1>1, <1>2, GrowsTrans
<1>4. \A b \in Blocks, s \in Slot : u.blk[b][s] \in {w.blk[b][s], Zero, Entry(n, c)}
  BY <1>1, PutNames
<1>5. DotsOnly(v, u)
  BY <1>1, <1>4 DEF DotsOnly
<1> QED BY <1>2, <1>3, <1>5 DEF Later

\* The new directory i gets its block.
LEMMA AttachLater ==
  ASSUME NEW v, VolOK(v), NEW w, Later(v, w), NEW i \in Inodes, i \notin v.imap, i \in w.imap,
         \A k \in Index : w.itab[i].ptr[k] = 0,
         NEW b \in Blocks, NEW u, u = set_inode_block(w, i, 0, b), VolOK(u)
  PROVE  /\ TidyBut(u, i) /\ Grows(v, u) /\ DotsOnly(v, u) /\ u.blk = w.blk /\ u.end = w.end
         /\ u.imap = w.imap /\ u.itab[i].ptr[0] = b /\ u.itab[i].type = w.itab[i].type
         /\ \A k \in Index : u.itab[i].ptr[k] \in {0, b}
         /\ \A j \in Inodes \ {i} : u.itab[j] = w.itab[j]
<1>0. /\ VolOK(w) /\ FreeUntyped(w) /\ Packed(w) /\ FullBefore(w) /\ FreeEmpty(w) /\ ReadBut(w, 0)
      /\ Grows(v, w) /\ DotsOnly(v, w) /\ v.imap \subseteq Inodes /\ 0 \notin Inodes
  BY DEF Later, Tidy, TidyBut, VolOK, Volumes, Inodes
<1>1. 0 \in Index /\ \A k \in Index : ~(k < 0)
  BY VolumeAssumption DEF Index
<1>2. /\ u.blk = w.blk /\ u.imap = w.imap /\ u.end = w.end
      /\ u.itab = [w.itab EXCEPT ![i].ptr[0] = b]
  BY <1>0 DEF set_inode_block, VolOK, Volumes
<1>3. /\ \A j \in Inodes : u.itab[j].type = w.itab[j].type
      /\ \A j \in Inodes \ {i} : u.itab[j] = w.itab[j]
      /\ \A k \in Index : u.itab[i].ptr[k] = IF k = 0 THEN b ELSE 0
  <2>1. w.itab \in [Inodes -> Inode]
    BY <1>0 DEF VolOK, Volumes
  <2>2. \A j \in Inodes \ {i} : u.itab[j] = w.itab[j]
    BY <1>2, <2>1
  <2>3. u.itab[i] = [w.itab[i] EXCEPT !.ptr[0] = b]
    BY <1>2, <2>1
  <2>4. w.itab[i] \in Inode
    BY <2>1
  <2>5. u.itab[i].type = w.itab[i].type /\ u.itab[i].ptr = [w.itab[i].ptr EXCEPT ![0] = b]
    BY <2>3, <2>4 DEF Inode
  <2>6. w.itab[i].ptr \in [Index -> 0 .. BitmapBits]
    BY <2>4 DEF Inode
  <2>7. \A k \in Index : u.itab[i].ptr[k] = IF k = 0 THEN b ELSE 0
    BY <1>1, <2>5, <2>6
  <2> QED BY <2>2, <2>5, <2>7
<1>4. FreeUntyped(u)
  BY <1>0, <1>2, <1>3 DEF FreeUntyped
<1>5. Packed(u)
  BY <1>0, <1>2 DEF Packed
<1>6. FullBefore(u)
  <2> SUFFICES ASSUME NEW j \in Inodes, NEW x \in Index, NEW y \in Index, x < y, u.itab[j].ptr[y] # 0
               PROVE  /\ u.itab[j].ptr[x] # 0
                      /\ \A t \in Slot : ~IsFree(u.blk[u.itab[j].ptr[x]][t])
    BY DEF FullBefore
  <2>1. j # i
    BY <1>1, <1>3
  <2> QED BY <1>0, <1>2, <1>3, <2>1 DEF FullBefore
<1>7. FreeEmpty(u) /\ ReadBut(u, i)
  BY <1>0, <1>2, <1>3 DEF FreeEmpty, ReadBut
<1>8. \A j \in v.imap : j \in Inodes /\ j # i /\ u.itab[j] = w.itab[j]
  BY <1>0, <1>3
<1>9. Grows(v, u)
  BY <1>0, <1>2, <1>8 DEF Grows
<1>10. DotsOnly(v, u)
  BY <1>0, <1>2 DEF DotsOnly
<1> QED BY <1>1, <1>2, <1>3, <1>4, <1>5, <1>6, <1>7, <1>9, <1>10 DEF TidyBut

\* What create_directory makes of such an image: nothing but words of the two dots,
\* or a directory that is found under its name.
LEMMA MakeDirectoryLater ==
  ASSUME NEW v, Tidy(v), NEW d, NEW n \in AnyName, NEW u, u = MakeDirectory(v, d, n).vol
  PROVE  /\ Tidy(u) /\ Grows(v, u)
         /\ \/ DotsOnly(v, u)
            \/ \E i \in Inodes \ v.imap :
                 /\ NewName(v, u, n, i) /\ is_directory(u, i) /\ i \in u.imap
                 /\ find_directory_entry(v, d, n) = 0 /\ find_directory_entry(u, d, n) = i
<1> DEFINE a    == create_inode(v, "dir")
           i    == a.ret
           b    == allocate_block(a.vol)
           set  == set_inode_block(b.vol, i, 0, b.ret)
           one  == add_directory_entry(set, i, Dot, i)
           dots == create_dot_entries(set, i, d)
           made == AddAfter(dots, d, n, i)
<1>0. VolOK(v) /\ FreeUntyped(v) /\ ReadBut(v, 0) /\ Later(v, v)
  BY GrowsSelf DEF Tidy, TidyBut, Later
<1>1. CASE u = v
  BY <1>0, <1>1 DEF Later
<1>2. CASE u # v
  <2>1. is_directory(v, d) /\ find_directory_entry(v, d, n) = 0 /\ u = FillDirectory(i, b, d, n).vol
    BY <1>2 DEF MakeDirectory, Fail, Done, Result
  <2>2. d \in v.imap /\ d \in 1 .. MaxInodes /\ d \in Inodes /\ v.imap \subseteq Inodes
    BY <1>0, <2>1, DirectoryIsAllocated DEF is_directory, IsType, VolOK, Volumes
  <2>3. Later(v, a.vol) /\ a.vol.blk = v.blk
    BY CreateInodeLater
  <2>4. /\ VolOK(a.vol) /\ i \in 1 .. MaxInodes
    BY <1>0, CreateInodeOK
  <2>5. /\ Keeps(v, a.vol, 0, i)
        /\ i \in Inodes => /\ i \notin v.imap /\ a.vol.imap = v.imap \cup {i}
                           /\ a.vol.itab[i].type = "dir"
                           /\ \A k \in Index : a.vol.itab[i].ptr[k] = 0
    BY <1>0, CreateInodeKeeps
  <2> HIDE DEF a
  <2>6. Later(v, b.vol)
    BY <1>0, <2>3, AllocateBlockLater
  <2>7. /\ VolOK(b.vol) /\ b.vol.itab = a.vol.itab /\ b.vol.imap = a.vol.imap
        /\ b.vol.blk = a.vol.blk /\ b.vol.end = a.vol.end /\ b.ret \in {0} \cup Blocks
    BY <2>4, AllocateBlockOK
  <2> HIDE DEF b
  <2>8. i \notin v.imap /\ d # i
    BY <2>2, <2>5
  <2>9. /\ b.ret = 0 => u = delete_inode(b.vol, i)
        /\ b.ret # 0 /\ made.ret = -1 => u = delete_inode(made.vol, i)
        /\ b.ret # 0 /\ made.ret # -1 => u = made.vol
    BY <2>1 DEF FillDirectory, Fail, Result
  <2>10. ASSUME NEW w, Later(v, w), u = delete_inode(w, i) PROVE Later(v, u)
    <3>1. TidyBut(w, i) /\ Grows(v, w) /\ DotsOnly(v, w) /\ Tidy(w)
      BY <2>10 DEF Later, Tidy, TidyBut, ReadBut, Inodes
    <3> QED BY <1>0, <2>8, <2>10, <3>1, DeleteInodeLater
  <2>11. dots = AddAfter(one, i, DotDot, d)
    BY DEF create_dot_entries
  <2>12. CASE b.ret = 0
    BY <2>6, <2>9, <2>10, <2>12 DEF Later
  <2>13. CASE b.ret # 0 /\ i \notin Inodes
    <3>1. set = b.vol
      BY <2>13 DEF set_inode_block
    <3>2. one = Fail(b.vol)
      BY <2>13, <3>1 DEF add_directory_entry
    <3>3. made.vol = b.vol /\ made.ret = -1
      BY <2>11, <3>2 DEF AddAfter, Fail, Result
    <3> HIDE DEF made, i
    <3> QED BY <2>6, <2>9, <2>10, <2>13, <3>3 DEF Later
  <2>14. CASE b.ret # 0 /\ i \in Inodes
    <3>0. i \in b.vol.imap /\ 0 \in Index
      BY <2>5, <2>7, <2>14, VolumeAssumption DEF Index
    <3>1. VolOK(set)
      <4>1. get_inode_block(b.vol, i, 0) = 0
        BY <2>5, <2>7, <2>14, <3>0 DEF get_inode_block
      <4>2. BlockFor(a.vol, i, 0) = Result(set, b.ret)
        <5>1. get_inode_block(a.vol, i, 0) = 0
          BY <2>7, <4>1 DEF get_inode_block
        <5> QED BY <2>14, <5>1 DEF BlockFor, Attached, b
      <4>3. VolOK(BlockFor(a.vol, i, 0).vol)
        BY <2>4, <2>14, <3>0, BlockForOK
      <4> QED BY <4>2, <4>3 DEF Result
    <3>2. /\ TidyBut(set, i) /\ Grows(v, set) /\ DotsOnly(v, set) /\ set.blk = b.vol.blk
          /\ set.imap = b.vol.imap /\ set.itab[i].ptr[0] = b.ret /\ set.itab[i].type = "dir"
          /\ \A k \in Index : set.itab[i].ptr[k] \in {0, b.ret}
          /\ \A j \in Inodes \ {i} : set.itab[j] = b.vol.itab[j]
      <4>1. /\ b.ret \in Blocks /\ set = set_inode_block(b.vol, i, 0, b.ret)
            /\ \A k \in Index : b.vol.itab[i].ptr[k] = 0
            /\ b.vol.itab[i].type = "dir"
        BY <2>5, <2>7, <2>14
      <4> HIDE DEF set, i
      <4>2. /\ TidyBut(set, i) /\ Grows(v, set) /\ DotsOnly(v, set) /\ set.blk = b.vol.blk
            /\ set.imap = b.vol.imap /\ set.itab[i].ptr[0] = b.ret
            /\ set.itab[i].type = b.vol.itab[i].type
            /\ \A k \in Index : set.itab[i].ptr[k] \in {0, b.ret}
            /\ \A j \in Inodes \ {i} : set.itab[j] = b.vol.itab[j]
        BY <1>0, <2>6, <2>8, <2>14, <3>0, <3>1, <4>1, AttachLater
      <4> QED BY <4>1, <4>2
    <3> HIDE DEF i, set
    <3>3. Dot \in AnyName /\ DotDot \in AnyName
      BY DEF AnyName
    <3>4. \/ one.ret = -1 /\ one.vol = set
          \/ one.ret # -1 /\ VolOK(one.vol) /\ Put(set, one.vol, i, Dot, i)
      BY <2>4, <3>1, <3>3, AddIs
    <3>5. CASE one.ret = -1
      <4>1. made = one
        BY <2>11, <3>5 DEF AddAfter
      <4>2. u = delete_inode(set, i)
        BY <2>9, <2>14, <3>4, <3>5, <4>1
      <4>3. Later(v, u)
        BY <1>0, <2>8, <2>14, <3>2, <4>2, DeleteInodeLater
      <4> QED BY <4>3 DEF Later
    <3>6. CASE one.ret # -1
      \* The block of the new directory can be read, then.
      <4>1. b.ret < set.end
        <5>1. PICK k \in Index, x \in Blocks, s \in Slot, old \in [Slot -> Word] :
                     PutAt(set, one.vol, i, Dot, i, k, x, s, old)
          BY <3>4, <3>6 DEF Put
        <5>2. k = 0 \/ 0 < k
          BY <5>1 DEF Index
        <5> QED BY <2>14, <3>0, <3>2, <5>1, <5>2 DEF PutAt
      <4>2. Later(v, set)
        <5>1. ReadBut(set, 0)
          BY <3>2, <4>1 DEF TidyBut, ReadBut
        <5> QED BY <3>2, <5>1 DEF Later, Tidy, TidyBut
      <4>3. i \in set.imap
        BY <3>0, <3>2
      <4>4. Later(v, one.vol) /\ VolOK(one.vol) /\ i \in one.vol.imap
        <5>1. Later(v, one.vol)
          BY <1>0, <2>4, <3>4, <3>6, <4>2, <4>3, DotLater
        <5>2. Grows(set, one.vol)
          BY <2>4, <2>14, <3>1, <3>4, <3>6, PutGrows
        <5> QED BY <3>4, <3>6, <4>3, <5>1, <5>2 DEF Grows
      <4>5. dots = add_directory_entry(one.vol, i, DotDot, d)
        BY <2>11, <3>6 DEF AddAfter
      <4>6. \/ dots.ret = -1 /\ dots.vol = one.vol
            \/ dots.ret # -1 /\ VolOK(dots.vol) /\ Put(one.vol, dots.vol, i, DotDot, d)
        BY <2>2, <3>3, <4>4, <4>5, AddIs
      <4>7. CASE dots.ret = -1
        <5>1. u = delete_inode(one.vol, i)
          BY <2>9, <2>14, <4>6, <4>7 DEF AddAfter
        <5> QED BY <2>10, <4>4, <5>1 DEF Later
      <4>8. CASE dots.ret # -1
        <5>1. VolOK(dots.vol) /\ Put(one.vol, dots.vol, i, DotDot, d) /\ Later(v, dots.vol)
          BY <1>0, <2>2, <4>4, <4>6, <4>8, DotLater
        <5>2. made = add_directory_entry(dots.vol, d, n, i)
          BY <4>8 DEF AddAfter
        <5>3. find_directory_entry(dots.vol, d, n) = 0
          <6>1. SameFile(v, set, d)
            <7>1. SameFile(v, a.vol, d)
              BY <2>2, <2>5, <2>8 DEF Keeps, Inodes
            <7>2. b.vol.itab[d] = a.vol.itab[d] /\ set.itab[d] = b.vol.itab[d]
              BY <2>2, <2>7, <2>8, <3>2
            <7> QED BY <2>7, <3>2, <7>1, <7>2 DEF SameFile, SameInode
          <6>2. find_directory_entry(set, d, n) = 0
            BY <1>0, <2>1, <2>2, <3>1, <6>1, StaysMissing
          <6>3. SameFile(set, dots.vol, d)
            <7>1. Keeps(set, dots.vol, i, 0)
              BY <2>2, <2>4, <3>1, DotEntriesKeeps
            <7> QED BY <2>2, <2>8, <7>1 DEF Keeps, Inodes
          <6>4. ReadBut(set, 0)
            BY <4>2 DEF Later, Tidy, TidyBut
          <6> QED BY <2>2, <3>1, <5>1, <6>2, <6>3, <6>4, StaysMissing
        <5> HIDE DEF dots, one
        <5>4. \/ made.ret = -1 /\ made.vol = dots.vol
              \/ made.ret # -1 /\ VolOK(made.vol) /\ Put(dots.vol, made.vol, d, n, i)
          BY <2>4, <5>1, <5>2, AddIs
        <5> HIDE DEF made
        <5>5. CASE made.ret = -1
          BY <2>9, <2>10, <2>14, <5>1, <5>4, <5>5 DEF Later
        <5>6. CASE made.ret # -1
          <6>1. VolOK(u) /\ Put(dots.vol, u, d, n, i)
            BY <2>9, <2>14, <5>4, <5>6
          <6>2. Tidy(dots.vol) /\ Grows(v, dots.vol) /\ DotsOnly(v, dots.vol) /\ d \in dots.vol.imap
            BY <2>2, <5>1 DEF Later, Grows
          <6>3. Tidy(u) /\ Grows(dots.vol, u)
            BY <2>2, <2>4, <5>1, <6>1, <6>2, PutTidy, PutGrows
          <6>4. Grows(v, u)
            BY <1>0, <5>1, <6>1, <6>2, <6>3, GrowsTrans
          <6>5. find_directory_entry(u, d, n) = i
            BY <2>2, <2>4, <5>3, <6>1, <6>2, PutFound
          <6>6. NewName(v, u, n, i)
            <7>1. \A x \in Blocks, s \in Slot : u.blk[x][s] \in {dots.vol.blk[x][s], Zero, Entry(n, i)}
              BY <2>2, <2>4, <5>1, <6>1, PutNames
            <7> QED BY <6>2, <7>1 DEF NewName, DotsOnly
          <6>7. is_directory(u, i) /\ i \in u.imap
            <7>1. Grows(set, one.vol) /\ Grows(one.vol, dots.vol)
              BY <2>2, <2>4, <2>14, <3>1, <3>4, <3>6, <4>4, <5>1, PutGrows
            <7>2. i \in set.imap /\ i \in one.vol.imap /\ i \in dots.vol.imap /\ i \in u.imap
              BY <4>3, <6>3, <7>1 DEF Grows
            <7>3. /\ one.vol.itab[i].type = set.itab[i].type
                  /\ dots.vol.itab[i].type = one.vol.itab[i].type
                  /\ u.itab[i].type = dots.vol.itab[i].type
              BY <6>3, <7>1, <7>2, GrowsKeepsType, Zenon
            <7>4. u.itab[i].type = "dir"
              BY <3>2, <7>3, Zenon
            <7> QED BY <2>14, <7>2, <7>4 DEF is_directory, IsType
          <6> QED BY <2>1, <2>8, <2>14, <6>3, <6>4, <6>5, <6>6, <6>7
        <5> QED BY <5>5, <5>6
      <4> QED BY <4>7, <4>8
    <3> QED BY <3>5, <3>6
  <2> QED BY <2>7, <2>12, <2>13, <2>14
<1> QED BY <1>1, <1>2

LEMMA NewFileLater ==
  ASSUME NEW v, Tidy(v), NEW d, is_directory(v, d), NEW n \in AnyName, NEW u, u = NewFile(v, d, n)
  PROVE  Tidy(u) /\ Grows(v, u) /\ \E i \in 1 .. MaxInodes : NewName(v, u, n, i)
<1> DEFINE a    == create_inode(v, "reg")
           i    == a.ret
           link == add_directory_entry(a.vol, d, n, i)
<1>0. VolOK(v) /\ FreeUntyped(v)
  BY DEF Tidy, TidyBut
<1>1. d \in v.imap /\ d \in Inodes
  BY <1>0, DirectoryIsAllocated DEF is_directory, IsType
<1>2. Later(v, a.vol) /\ a.vol.blk = v.blk
  BY CreateInodeLater
<1>3. VolOK(a.vol) /\ i \in 1 .. MaxInodes
  BY <1>0, CreateInodeOK
<1>4. i \notin v.imap
  <2>1. i \in Inodes => i \notin v.imap
    BY <1>0, CreateInodeKeeps
  <2> QED BY <1>0, <2>1 DEF VolOK, Volumes
<1>5. u = IF link.ret = -1 THEN delete_inode(link.vol, i) ELSE link.vol
  BY DEF NewFile
<1> HIDE DEF a, i
<1>6. \/ link.ret = -1 /\ link.vol = a.vol
      \/ link.ret # -1 /\ VolOK(link.vol) /\ Put(a.vol, link.vol, d, n, i)
  BY <1>3, AddIs
<1> HIDE DEF link
<1>7. CASE link.ret = -1
  <2>1. TidyBut(a.vol, i) /\ Grows(v, a.vol) /\ DotsOnly(v, a.vol) /\ Tidy(a.vol)
    BY <1>2 DEF Later, Tidy, TidyBut, ReadBut, Inodes
  <2>2. Later(v, u)
    BY <1>0, <1>4, <1>5, <1>6, <1>7, <2>1, DeleteInodeLater
  <2> QED BY <1>3, <2>2 DEF Later, DotsOnly, NewName
<1>8. CASE link.ret # -1
  <2>1. VolOK(u) /\ Put(a.vol, u, d, n, i)
    BY <1>5, <1>6, <1>8
  <2>2. Tidy(a.vol) /\ Grows(v, a.vol) /\ d \in a.vol.imap
    BY <1>1, <1>2 DEF Later, Grows
  <2>3. Tidy(u) /\ Grows(a.vol, u)
    BY <1>1, <1>3, <2>1, <2>2, PutTidy, PutGrows
  <2>4. Grows(v, u)
    BY <1>0, <1>3, <2>1, <2>2, <2>3, GrowsTrans
  <2>5. \A x \in Blocks, s \in Slot : u.blk[x][s] \in {v.blk[x][s], Zero, Entry(n, i)}
    BY <1>1, <1>2, <1>3, <2>1, PutNames
  <2> QED BY <1>3, <2>3, <2>4, <2>5 DEF NewName
<1> QED BY <1>7, <1>8

LEMMA DirectoriesStay ==
  ASSUME NEW v, Tidy(v), NEW u, Grows(v, u), NEW i, is_directory(v, i)
  PROVE  is_directory(u, i)
<1>1. i \in v.imap /\ i \in Inodes
  BY DirectoryIsAllocated DEF Tidy, TidyBut, is_directory, IsType
<1> QED BY <1>1 DEF Grows, is_directory, IsType

\* Where a name is found there is an entry.
LEMMA FoundWord ==
  ASSUME NEW v \in Volumes, NEW d, NEW n, find_directory_entry(v, d, n) # 0
  PROVE  \E b \in Blocks, s \in Slot : /\ v.blk[b][s].tag = "entry" /\ v.blk[b][s].name = n
                                       /\ v.blk[b][s].ino = find_directory_entry(v, d, n)
<1> DEFINE at == Locate(v, d, n)
<1>1. at.block # 0 /\ find_directory_entry(v, d, n) = EntryIno(v.blk[at.block][at.slot])
  BY DEF find_directory_entry, FoundIno
<1>2. at.block \in Blocks /\ at.slot \in Slot /\ IsNamed(v.blk[at.block][at.slot], n)
  BY <1>1, LocateFindsIn
<1> HIDE DEF at
<1> QED BY <1>1, <1>2 DEF IsNamed, EntryIno
=============================================================================
