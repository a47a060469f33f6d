-------------------------- MODULE DiskWritesProofs --------------------------
(***************************************************************************)
(* That the writes of a command add up to what Volume and Directory have   *)
(* it do in one step, for all sizes of the image and whatever the commands *)
(* killed before have left on it; and that a kill after any number of them *)
(* leaves the blocks of the inodes that have a name, the inodes the names  *)
(* lead to and the content of every other file as they were.               *)
(***************************************************************************)
EXTENDS DiskWrites, VolumeProofs, SequenceTheorems

----------------------------------------------------------------------------
(* Recursion and induction, without operators as parameters *)

LEMMA Induction ==
  ASSUME NEW m \in Nat, NEW S, 0 \in S, \A n \in 0 .. m - 1 : n \in S => n + 1 \in S
  PROVE  \A n \in 0 .. m : n \in S
<1> DEFINE Off == {n \in 0 .. m : n \notin S}
<1>1. CASE Off = {}
  BY <1>1
<1>2. CASE Off # {}
  <2>1. Off \subseteq Nat
    OBVIOUS
  <2> HIDE DEF Off
  <2>2. Min(Off) \in Off /\ \A y \in Off : Min(Off) <= y
    BY <1>2, <2>1, MinIsLeast
  <2> DEFINE n == Min(Off)
  <2>3. n \in 0 .. m /\ n \notin S
    BY <2>2 DEF Off
  <2>4. n # 0
    BY <2>3
  <2>5. n - 1 \in 0 .. m - 1 /\ n - 1 \in 0 .. m /\ ~ (n <= n - 1) /\ (n - 1) + 1 = n
    BY <2>3, <2>4
  <2>6. n - 1 \notin Off
    BY <2>2, <2>5
  <2>7. n - 1 \in S
    BY <2>5, <2>6 DEF Off
  <2>8. (n - 1) + 1 \in S
    BY <2>5, <2>7
  <2> HIDE DEF n
  <2> QED BY <2>3, <2>5, <2>8
<1> QED BY <1>1, <1>2

\* What a function defined by recursion over 0 .. m is, when its steps stay in a set.
Recurs(f, m, a, g) ==
  f = [n \in 0 .. m |-> IF n = 0 THEN a ELSE g[<<f[n - 1], n>>]]

LEMMA RecursionExists ==
  ASSUME NEW X, NEW a \in X, NEW m \in Nat, NEW g \in [X \X (1 .. m) -> X]
  PROVE  \E f \in [0 .. m -> X] : Recurs(f, m, a, g)
<1> DEFINE S == {n \in 0 .. m : \E f \in [0 .. n -> X] : Recurs(f, n, a, g)}
<1>1. 0 \in S
  <2> DEFINE f == [n \in 0 .. 0 |-> a]
  <2>1. f \in [0 .. 0 -> X]
    OBVIOUS
  <2>2. Recurs(f, 0, a, g)
    BY DEF Recurs
  <2> QED BY <2>1, <2>2
<1>2. ASSUME NEW n \in 0 .. m - 1, n \in S PROVE n + 1 \in S
  <2>1. PICK f \in [0 .. n -> X] : Recurs(f, n, a, g)
    BY <1>2
  <2> DEFINE h == [k \in 0 .. n + 1 |-> IF k = n + 1 THEN g[<<f[n], n + 1>>] ELSE f[k]]
  <2>2. h \in [0 .. n + 1 -> X]
    <3>1. f[n] \in X /\ n + 1 \in 1 .. m
      OBVIOUS
    <3>2. <<f[n], n + 1>> \in X \X (1 .. m)
      BY <3>1
    <3>3. g[<<f[n], n + 1>>] \in X
      BY <3>2
    <3>4. \A k \in 0 .. n + 1 : k # n + 1 => k \in 0 .. n
      OBVIOUS
    <3> QED BY <3>3, <3>4
  <2>3. ASSUME NEW k \in 0 .. n + 1
        PROVE  h[k] = IF k = 0 THEN a ELSE g[<<h[k - 1], k>>]
    <3>1. CASE k = n + 1
      <4>1. h[k] = g[<<f[n], k>>] /\ k # 0 /\ k - 1 = n /\ h[n] = f[n]
        BY <3>1
      <4> HIDE DEF h
      <4> QED BY <4>1
    <3>2. CASE k # n + 1
      <4>1. k \in 0 .. n
        BY <3>2
      <4>2. h[k] = f[k]
        BY <3>2
      <4>3. f[k] = IF k = 0 THEN a ELSE g[<<f[k - 1], k>>]
        BY <2>1, <4>1 DEF Recurs
      <4>4. k # 0 => h[k - 1] = f[k - 1]
        BY <4>1
      <4> HIDE DEF h
      <4> QED BY <4>2, <4>3, <4>4
    <3> QED BY <3>1, <3>2
  <2>4. h = [k \in 0 .. n + 1 |-> h[k]]
    OBVIOUS
  <2> HIDE DEF h
  <2>5. Recurs(h, n + 1, a, g)
    BY <2>3, <2>4 DEF Recurs
  <2>6. n + 1 \in 0 .. m
    OBVIOUS
  <2> QED BY <2>2, <2>5, <2>6
<1> HIDE DEF S
<1>3. m \in S
  BY <1>1, <1>2, Induction
<1> QED BY <1>3 DEF S

----------------------------------------------------------------------------
(* Single writes *)

Toggled(S, x, on)  == IF on THEN S \cup {x} ELSE S \ {x}
WithBmap(v, S)     == [v EXCEPT !.bmap = S]
WithImap(v, S)     == [v EXCEPT !.imap = S]
WithInode(v, i, t) == [v EXCEPT !.itab[i] = t]
WithBlock(t, k, b) == [t EXCEPT !.ptr[k] = b]
LinkMore(t)        == [t EXCEPT !.links = (@ + 1) % LinkMod]
LinkLess(t)        == [t EXCEPT !.links = IF @ > 0 THEN @ - 1 ELSE 0]
WithSize(t, n)     == [t EXCEPT !.size = n]

\* What changes a volume leaves it one.
LEMMA VolumeUpdates ==
  ASSUME NEW v \in Volumes
  PROVE  /\ \A S \in SUBSET Blocks : WithBmap(v, S) \in Volumes
         /\ \A S \in SUBSET Inodes : WithImap(v, S) \in Volumes
         /\ \A i \in Inodes, t \in Inode : WithInode(v, i, t) \in Volumes
         /\ \A b \in Blocks, w \in [Slot -> Word] : write_block(v, b, w) \in Volumes
         /\ \A n \in Nat : [v EXCEPT !.bfree = n] \in Volumes /\ [v EXCEPT !.ifree = n] \in Volumes
<1>1. \A S \in SUBSET Blocks : WithBmap(v, S) \in Volumes
  BY DEF Volumes, WithBmap
<1>2. \A S \in SUBSET Inodes : WithImap(v, S) \in Volumes
  BY DEF Volumes, WithImap
<1>3. \A i \in Inodes, t \in Inode : WithInode(v, i, t) \in Volumes
  BY DEF Volumes, WithInode
<1>4. ASSUME NEW b \in Blocks, NEW w \in [Slot -> Word]
      PROVE  write_block(v, b, w) \in Volumes
  <2>1. (IF b < v.end THEN v.end ELSE b + 1) \in Nat
    BY VolumeAssumption DEF Volumes, Blocks
  <2>2. [v.blk EXCEPT ![b] = w] \in [Blocks -> [Slot -> Word]]
    BY DEF Volumes
  <2>3. write_block(v, b, w) = [v EXCEPT !.blk = [v.blk EXCEPT ![b] = w],
                                         !.end = IF b < v.end THEN v.end ELSE b + 1]
    BY DEF write_block
  <2> QED BY <2>1, <2>2, <2>3 DEF Volumes
<1>5. \A n \in Nat : [v EXCEPT !.bfree = n] \in Volumes /\ [v EXCEPT !.ifree = n] \in Volumes
  BY DEF Volumes
<1> QED BY <1>1, <1>2, <1>3, <1>4, <1>5

\* Each write is one of these.
LEMMA ApplyIs ==
  ASSUME NEW v
  PROVE  /\ \A b, on : Apply(v, BlockBit(b, on)) = WithBmap(v, Toggled(v.bmap, b, on))
         /\ \A i, on : Apply(v, InodeBit(i, on)) = WithImap(v, Toggled(v.imap, i, on))
         /\ \A i, t : Apply(v, NewSlot(i, t)) = WithInode(v, i, NewInode(t))
         /\ \A i : Apply(v, ClearSlot(i)) = WithInode(v, i, ZeroInode)
         /\ \A i, k, b : Apply(v, Pointer(i, k, b)) = set_inode_block(v, i, k, b)
         /\ \A i : Apply(v, Links1(i, TRUE)) = increment_link_count(v, i)
         /\ \A i : Apply(v, Links1(i, FALSE)) = decrement_link_count(v, i)
         /\ \A i, n : Apply(v, Size(i, n)) = WithInode(v, i, WithSize(v.itab[i], n))
         /\ \A b, words : Apply(v, BlockOf(b, words)) = write_block(v, b, words)
<1>1. \A b, on : Apply(v, BlockBit(b, on)) = WithBmap(v, Toggled(v.bmap, b, on))
  BY DEF Apply, BlockBit, WithBit, WithBmap, Toggled
<1>2. \A i, on : Apply(v, InodeBit(i, on)) = WithImap(v, Toggled(v.imap, i, on))
  BY DEF Apply, InodeBit, WithBit, WithImap, Toggled
<1>3. \A i, t : Apply(v, NewSlot(i, t)) = WithInode(v, i, NewInode(t))
  BY DEF Apply, NewSlot, WithInode
<1>4. \A i : Apply(v, ClearSlot(i)) = WithInode(v, i, ZeroInode)
  BY DEF Apply, ClearSlot, WithInode
<1>5. \A i, k, b : Apply(v, Pointer(i, k, b)) = set_inode_block(v, i, k, b)
  BY DEF Apply, Pointer
<1>6. \A i : Apply(v, Links1(i, TRUE)) = increment_link_count(v, i)
  BY DEF Apply, Links1
<1>7. \A i : Apply(v, Links1(i, FALSE)) = decrement_link_count(v, i)
  BY DEF Apply, Links1
<1>8. \A i, n : Apply(v, Size(i, n)) = WithInode(v, i, WithSize(v.itab[i], n))
  BY DEF Apply, Size, WithInode, WithSize
<1>9. \A b, words : Apply(v, BlockOf(b, words)) = write_block(v, b, words)
  BY DEF Apply, BlockOf
<1> QED BY <1>1, <1>2, <1>3, <1>4, <1>5, <1>6, <1>7, <1>8, <1>9

LEMMA WriteIs ==
  ASSUME NEW w \in Write
  PROVE  \/ \E b \in Blocks, on \in BOOLEAN : w = BlockBit(b, on)
         \/ \E i \in Inodes, on \in BOOLEAN : w = InodeBit(i, on)
         \/ \E i \in Inodes, t \in {"reg", "dir"} : w = NewSlot(i, t)
         \/ \E i \in Inodes : w = ClearSlot(i)
         \/ \E i \in Inodes, k \in Index, b \in Blocks : w = Pointer(i, k, b)
         \/ \E i \in Inodes, up \in BOOLEAN : w = Links1(i, up)
         \/ \E i \in Inodes, n \in 0 .. MaxFileWords : w = Size(i, n)
         \/ \E b \in Blocks, words \in [Slot -> Word] : w = BlockOf(b, words)
<1>1. CASE w \in [kind : {"block bit"}, at : Blocks, on : BOOLEAN]
  BY <1>1 DEF BlockBit
<1>2. CASE w \in [kind : {"inode bit"}, at : Inodes, on : BOOLEAN]
  BY <1>2 DEF InodeBit
<1>3. CASE w \in [kind : {"new inode"}, at : Inodes, type : {"reg", "dir"}]
  BY <1>3 DEF NewSlot
<1>4. CASE w \in [kind : {"cleared inode"}, at : Inodes]
  BY <1>4 DEF ClearSlot
<1>5. CASE w \in [kind : {"pointer"}, at : Inodes, index : Index, block : Blocks]
  BY <1>5 DEF Pointer
<1>6. CASE w \in [kind : {"links"}, at : Inodes, up : BOOLEAN]
  BY <1>6 DEF Links1
<1>7. CASE w \in [kind : {"size"}, at : Inodes, size : 0 .. MaxFileWords]
  BY <1>7 DEF Size
<1>8. CASE w \in [kind : {"block"}, at : Blocks, words : [Slot -> Word]]
  BY <1>8 DEF BlockOf
<1> QED BY <1>1, <1>2, <1>3, <1>4, <1>5, <1>6, <1>7, <1>8 DEF Write

LEMMA WriteTypes ==
  /\ \A b \in Blocks, on \in BOOLEAN : BlockBit(b, on) \in Write
  /\ \A i \in Inodes, on \in BOOLEAN : InodeBit(i, on) \in Write
  /\ \A i \in Inodes, t \in {"reg", "dir"} : NewSlot(i, t) \in Write
  /\ \A i \in Inodes : ClearSlot(i) \in Write
  /\ \A i \in Inodes, k \in Index, b \in Blocks : Pointer(i, k, b) \in Write
  /\ \A i \in Inodes, up \in BOOLEAN : Links1(i, up) \in Write
  /\ \A i \in Inodes, n \in 0 .. MaxFileWords : Size(i, n) \in Write
  /\ \A b \in Blocks, words \in [Slot -> Word] : BlockOf(b, words) \in Write
<1>1. \A b \in Blocks, on \in BOOLEAN : BlockBit(b, on) \in Write
  BY DEF BlockBit, Write
<1>2. \A i \in Inodes, on \in BOOLEAN : InodeBit(i, on) \in Write
  BY DEF InodeBit, Write
<1>3. \A i \in Inodes, t \in {"reg", "dir"} : NewSlot(i, t) \in Write
  BY DEF NewSlot, Write
<1>4. \A i \in Inodes : ClearSlot(i) \in Write
  BY DEF ClearSlot, Write
<1>5. \A i \in Inodes, k \in Index, b \in Blocks : Pointer(i, k, b) \in Write
  BY DEF Pointer, Write
<1>6. \A i \in Inodes, up \in BOOLEAN : Links1(i, up) \in Write
  BY DEF Links1, Write
<1>7. \A i \in Inodes, n \in 0 .. MaxFileWords : Size(i, n) \in Write
  BY DEF Size, Write
<1>8. \A b \in Blocks, words \in [Slot -> Word] : BlockOf(b, words) \in Write
  BY DEF BlockOf, Write
<1> QED BY <1>1, <1>2, <1>3, <1>4, <1>5, <1>6, <1>7, <1>8

LEMMA InodeTypes ==
  /\ \A x \in {"reg", "dir"} : NewInode(x) \in Inode
  /\ ZeroInode \in Inode
  /\ \A t \in Inode :
       /\ \A k \in Index, b \in Blocks : WithBlock(t, k, b) \in Inode
       /\ LinkMore(t) \in Inode /\ LinkLess(t) \in Inode
       /\ \A n \in 0 .. MaxFileWords : WithSize(t, n) \in Inode
<1>1. (\A x \in {"reg", "dir"} : NewInode(x) \in Inode) /\ ZeroInode \in Inode
  BY NewInodeType
<1>2. ASSUME NEW t \in Inode, NEW k \in Index, NEW b \in Blocks PROVE WithBlock(t, k, b) \in Inode
  <2>1. b \in 0 .. BitmapBits
    BY VolumeAssumption DEF Blocks
  <2>2. [t.ptr EXCEPT ![k] = b] \in [Index -> 0 .. BitmapBits]
    BY <2>1 DEF Inode
  <2>3. WithBlock(t, k, b) = [t EXCEPT !.ptr = [t.ptr EXCEPT ![k] = b]]
    BY DEF WithBlock
  <2> QED BY <2>2, <2>3 DEF Inode
<1>3. ASSUME NEW t \in Inode PROVE LinkMore(t) \in Inode /\ LinkLess(t) \in Inode
  <2>1. (t.links + 1) % LinkMod \in Nat /\ (IF t.links > 0 THEN t.links - 1 ELSE 0) \in Nat
    BY ModType, VolumeAssumption DEF Inode
  <2> QED BY <2>1 DEF LinkMore, LinkLess, Inode
<1>4. \A t \in Inode : \A n \in 0 .. MaxFileWords : WithSize(t, n) \in Inode
  BY DEF WithSize, Inode
<1> QED BY <1>1, <1>2, <1>3, <1>4

LEMMA TableWrites ==
  ASSUME NEW v, NEW i \in Inodes
  PROVE  /\ \A k, b : set_inode_block(v, i, k, b) = WithInode(v, i, WithBlock(v.itab[i], k, b))
         /\ increment_link_count(v, i) = WithInode(v, i, LinkMore(v.itab[i]))
         /\ decrement_link_count(v, i) = WithInode(v, i, LinkLess(v.itab[i]))
<1>1. \A k, b : set_inode_block(v, i, k, b) = WithInode(v, i, WithBlock(v.itab[i], k, b))
  BY DEF set_inode_block, WithBlock, WithInode
<1>2. increment_link_count(v, i) = WithInode(v, i, LinkMore(v.itab[i]))
  BY DEF increment_link_count, LinkMore, WithInode
<1>3. decrement_link_count(v, i) = WithInode(v, i, LinkLess(v.itab[i]))
  BY DEF decrement_link_count, LinkLess, WithInode
<1> QED BY <1>1, <1>2, <1>3

\* A write is one of a set of blocks or inodes, of an inode, or of a block.
LEMMA WriteKinds ==
  ASSUME NEW w \in Write
  PROVE  \/ \E b \in Blocks, on \in BOOLEAN : \A v : Apply(v, w) =
              WithBmap(v, Toggled(v.bmap, b, on))
         \/ \E i \in Inodes, on \in BOOLEAN : \A v : Apply(v, w) =
              WithImap(v, Toggled(v.imap, i, on))
         \/ \E i \in Inodes, f \in [Inode -> Inode] : \A v \in Volumes :
              Apply(v, w) = WithInode(v, i, f[v.itab[i]])
         \/ \E b \in Blocks, words \in [Slot -> Word] : \A v : Apply(v, w) = write_block(v, b, words)
<1>1. ASSUME NEW b \in Blocks, NEW on \in BOOLEAN, w = BlockBit(b, on)
      PROVE  \A v : Apply(v, w) = WithBmap(v, Toggled(v.bmap, b, on))
  BY <1>1, ApplyIs, Zenon
<1>2. ASSUME NEW i \in Inodes, NEW on \in BOOLEAN, w = InodeBit(i, on)
      PROVE  \A v : Apply(v, w) = WithImap(v, Toggled(v.imap, i, on))
  BY <1>2, ApplyIs, Zenon
<1>3. ASSUME NEW b \in Blocks, NEW words \in [Slot -> Word], w = BlockOf(b, words)
      PROVE  \A v : Apply(v, w) = write_block(v, b, words)
  BY <1>3, ApplyIs, Zenon
<1>4. ASSUME NEW i \in Inodes, NEW f \in [Inode -> Inode],
             \A v : v.itab[i] \in Inode => Apply(v, w) = WithInode(v, i, f[v.itab[i]])
      PROVE  \A v \in Volumes : Apply(v, w) = WithInode(v, i, f[v.itab[i]])
  BY <1>4 DEF Volumes
<1>5. ASSUME NEW i \in Inodes, NEW t \in {"reg", "dir"}, w = NewSlot(i, t)
      PROVE  \E f \in [Inode -> Inode] : \A v \in Volumes : Apply(v, w) = WithInode(v, i, f[v.itab[i]])
  <2> DEFINE f == [x \in Inode |-> NewInode(t)]
  <2>1. f \in [Inode -> Inode]
    BY InodeTypes
  <2>2. \A v : v.itab[i] \in Inode => Apply(v, w) = WithInode(v, i, f[v.itab[i]])
    <3>1. \A v : Apply(v, w) = WithInode(v, i, NewInode(t))
      BY <1>5, ApplyIs, Zenon
    <3> QED BY <3>1
  <2> HIDE DEF f
  <2> QED BY <1>4, <2>1, <2>2
<1>6. ASSUME NEW i \in Inodes, w = ClearSlot(i)
      PROVE  \E f \in [Inode -> Inode] : \A v \in Volumes : Apply(v, w) = WithInode(v, i, f[v.itab[i]])
  <2> DEFINE f == [x \in Inode |-> ZeroInode]
  <2>1. f \in [Inode -> Inode]
    BY InodeTypes
  <2>2. \A v : v.itab[i] \in Inode => Apply(v, w) = WithInode(v, i, f[v.itab[i]])
    <3>1. \A v : Apply(v, w) = WithInode(v, i, ZeroInode)
      BY <1>6, ApplyIs, Zenon
    <3> QED BY <3>1
  <2> HIDE DEF f
  <2> QED BY <1>4, <2>1, <2>2
<1>7. ASSUME NEW i \in Inodes, NEW k \in Index, NEW b \in Blocks, w = Pointer(i, k, b)
      PROVE  \E f \in [Inode -> Inode] : \A v \in Volumes : Apply(v, w) = WithInode(v, i, f[v.itab[i]])
  <2> DEFINE f == [x \in Inode |-> WithBlock(x, k, b)]
  <2>1. f \in [Inode -> Inode]
    BY InodeTypes
  <2>2. \A v : v.itab[i] \in Inode => Apply(v, w) = WithInode(v, i, f[v.itab[i]])
    <3>1. \A v : Apply(v, w) = set_inode_block(v, i, k, b)
      BY <1>7, ApplyIs, Zenon
    <3>2. \A v : set_inode_block(v, i, k, b) = WithInode(v, i, WithBlock(v.itab[i], k, b))
      BY TableWrites, Zenon
    <3> QED BY <3>1, <3>2
  <2> HIDE DEF f
  <2> QED BY <1>4, <2>1, <2>2
<1>8. ASSUME NEW i \in Inodes, NEW up \in BOOLEAN, w = Links1(i, up)
      PROVE  \E f \in [Inode -> Inode] : \A v \in Volumes : Apply(v, w) = WithInode(v, i, f[v.itab[i]])
  <2> DEFINE f == [x \in Inode |-> IF up THEN LinkMore(x) ELSE LinkLess(x)]
  <2>1. f \in [Inode -> Inode]
    BY InodeTypes
  <2>2. \A v : v.itab[i] \in Inode => Apply(v, w) = WithInode(v, i, f[v.itab[i]])
    <3>1. \A v : Apply(v, w) = IF up THEN increment_link_count(v, i) ELSE decrement_link_count(v, i)
      <4>1. \A v : /\ Apply(v, Links1(i, TRUE)) = increment_link_count(v, i)
                   /\ Apply(v, Links1(i, FALSE)) = decrement_link_count(v, i)
        BY ApplyIs, Zenon
      <4>2. CASE up = TRUE
        BY <1>8, <4>1, <4>2
      <4>3. CASE up = FALSE
        BY <1>8, <4>1, <4>3
      <4> QED BY <4>2, <4>3
    <3>2. \A v : /\ increment_link_count(v, i) = WithInode(v, i, LinkMore(v.itab[i]))
                 /\ decrement_link_count(v, i) = WithInode(v, i, LinkLess(v.itab[i]))
      BY TableWrites, Zenon
    <3> QED BY <3>1, <3>2
  <2> HIDE DEF f
  <2> QED BY <1>4, <2>1, <2>2
<1>9. ASSUME NEW i \in Inodes, NEW n \in 0 .. MaxFileWords, w = Size(i, n)
      PROVE  \E f \in [Inode -> Inode] : \A v \in Volumes : Apply(v, w) = WithInode(v, i, f[v.itab[i]])
  <2> DEFINE f == [x \in Inode |-> WithSize(x, n)]
  <2>1. f \in [Inode -> Inode]
    BY InodeTypes
  <2>2. \A v : v.itab[i] \in Inode => Apply(v, w) = WithInode(v, i, f[v.itab[i]])
    <3>1. \A v : Apply(v, w) = WithInode(v, i, WithSize(v.itab[i], n))
      BY <1>9, ApplyIs, Zenon
    <3> QED BY <3>1
  <2> HIDE DEF f
  <2> QED BY <1>4, <2>1, <2>2
<1> QED BY <1>1, <1>2, <1>3, <1>5, <1>6, <1>7, <1>8, <1>9, WriteIs

\* What the image has of a volume: everything but the counters.
Same(v, u) ==
  u.bmap = v.bmap /\ u.imap = v.imap /\ u.itab = v.itab /\ u.blk = v.blk /\ u.end = v.end

LEMMA ApplyType == ASSUME NEW v \in Volumes, NEW w \in Write PROVE Apply(v, w) \in Volumes
<1>1. ASSUME NEW b \in Blocks, NEW on \in BOOLEAN
      PROVE  (Toggled(v.bmap, b, on)) \in SUBSET Blocks
  BY DEF Volumes, Toggled
<1>2. ASSUME NEW i \in Inodes, NEW on \in BOOLEAN
      PROVE  (Toggled(v.imap, i, on)) \in SUBSET Inodes
  BY DEF Volumes, Toggled
<1>3. ASSUME NEW i \in Inodes, NEW f \in [Inode -> Inode]
      PROVE  WithInode(v, i, f[v.itab[i]]) \in Volumes
  <2>1. v.itab[i] \in Inode
    BY DEF Volumes
  <2>2. f[v.itab[i]] \in Inode
    BY <2>1
  <2> QED BY <2>2, VolumeUpdates
<1>4. CASE \E b \in Blocks, on \in BOOLEAN :
             Apply(v, w) = WithBmap(v, Toggled(v.bmap, b, on))
  BY <1>1, <1>4, VolumeUpdates
<1>5. CASE \E i \in Inodes, on \in BOOLEAN :
             Apply(v, w) = WithImap(v, Toggled(v.imap, i, on))
  BY <1>2, <1>5, VolumeUpdates
<1>6. CASE \E i \in Inodes, f \in [Inode -> Inode] : Apply(v, w) = WithInode(v, i, f[v.itab[i]])
  BY <1>3, <1>6
<1>7. CASE \E b \in Blocks, words \in [Slot -> Word] : Apply(v, w) = write_block(v, b, words)
  BY <1>7, VolumeUpdates
<1> QED BY <1>4, <1>5, <1>6, <1>7, WriteKinds, Zenon

LEMMA ApplySame ==
  ASSUME NEW v \in Volumes, NEW u \in Volumes, Same(v, u), NEW w \in Write
  PROVE  Same(Apply(v, w), Apply(u, w))
<1>1. \A b, on : Same(WithBmap(v, Toggled(v.bmap, b, on)),
                      WithBmap(u, Toggled(u.bmap, b, on)))
  BY DEF Same, Volumes, WithBmap, Toggled
<1>2. \A i, on : Same(WithImap(v, Toggled(v.imap, i, on)),
                      WithImap(u, Toggled(u.imap, i, on)))
  BY DEF Same, Volumes, WithImap, Toggled
<1>3. \A i, f : Same(WithInode(v, i, f[v.itab[i]]), WithInode(u, i, f[u.itab[i]]))
  BY DEF Same, Volumes, WithInode
<1>4. \A b, words : Same(write_block(v, b, words), write_block(u, b, words))
  BY DEF Same, Volumes, write_block
<1>5. CASE \E b \in Blocks, on \in BOOLEAN : \A x :
             Apply(x, w) = WithBmap(x, Toggled(x.bmap, b, on))
  BY <1>1, <1>5, Zenon
<1>6. CASE \E i \in Inodes, on \in BOOLEAN : \A x :
             Apply(x, w) = WithImap(x, Toggled(x.imap, i, on))
  BY <1>2, <1>6, Zenon
<1>7. CASE \E i \in Inodes, f \in [Inode -> Inode] : \A x \in Volumes :
             Apply(x, w) = WithInode(x, i, f[x.itab[i]])
  BY <1>3, <1>7, Zenon
<1>8. CASE \E b \in Blocks, words \in [Slot -> Word] : \A x : Apply(x, w) = write_block(x, b, words)
  BY <1>4, <1>8, Zenon
<1> QED BY <1>5, <1>6, <1>7, <1>8, WriteKinds, Zenon
----------------------------------------------------------------------------
(* Lists of writes *)

DoneTo(v, log) ==
  CHOOSE done : done = [n \in 0 .. Len(log) |-> IF n = 0 THEN v ELSE Apply(done[n - 1], log[n])]

LEMMA RedoneSteps ==
  ASSUME NEW v \in Volumes, NEW log \in Seq(Write)
  PROVE  /\ Redone(v, log) = DoneTo(v, log)[Len(log)]
         /\ DoneTo(v, log)[0] = v
         /\ \A n \in 1 .. Len(log) : DoneTo(v, log)[n] = Apply(DoneTo(v, log)[n - 1], log[n])
         /\ \A n \in 0 .. Len(log) : DoneTo(v, log)[n] \in Volumes
<1> DEFINE m == Len(log)
           d == DoneTo(v, log)
           g == [q \in Volumes \X (1 .. m) |-> Apply(q[1], log[q[2]])]
<1>1. m \in Nat
  OBVIOUS
<1>2. g \in [Volumes \X (1 .. m) -> Volumes]
  <2>1. ASSUME NEW q \in Volumes \X (1 .. m) PROVE Apply(q[1], log[q[2]]) \in Volumes
    <3>1. q[1] \in Volumes /\ log[q[2]] \in Write
      OBVIOUS
    <3> QED BY <3>1, ApplyType
  <2> QED BY <2>1
<1>3. \A x \in Volumes, n \in 1 .. m : g[<<x, n>>] = Apply(x, log[n])
  OBVIOUS
<1> HIDE DEF g, m
<1>4. PICK f \in [0 .. m -> Volumes] : Recurs(f, m, v, g)
  BY <1>1, <1>2, RecursionExists
<1>5. f = [n \in 0 .. m |-> IF n = 0 THEN v ELSE Apply(f[n - 1], log[n])]
  <2>1. ASSUME NEW n \in 0 .. m, n # 0 PROVE g[<<f[n - 1], n>>] = Apply(f[n - 1], log[n])
    <3>1. n \in 1 .. m /\ n - 1 \in 0 .. m
      BY <1>1, <2>1
    <3> QED BY <1>3, <3>1
  <2> QED BY <1>4, <2>1 DEF Recurs
<1>6. d = [n \in 0 .. m |-> IF n = 0 THEN v ELSE Apply(d[n - 1], log[n])]
  BY <1>5 DEF DoneTo, m
<1> HIDE DEF d
<1>7. d[0] = v /\ \A n \in 1 .. m : d[n] = Apply(d[n - 1], log[n])
  <2>1. 0 \in 0 .. m /\ \A n \in 1 .. m : n \in 0 .. m /\ n # 0
    BY <1>1
  <2> QED BY <1>6, <2>1
<1> DEFINE S == {n \in 0 .. m : d[n] \in Volumes}
<1>8. 0 \in S
  BY <1>1, <1>7
<1>9. ASSUME NEW n \in 0 .. m - 1, n \in S PROVE n + 1 \in S
  <2>1. n + 1 \in 1 .. m /\ n + 1 \in 0 .. m /\ (n + 1) - 1 = n
    BY <1>1
  <2>2. log[n + 1] \in Write
    BY <2>1 DEF m
  <2>3. d[n + 1] = Apply(d[n], log[n + 1])
    BY <1>7, <2>1
  <2> QED BY <1>9, <2>1, <2>2, <2>3, ApplyType
<1> HIDE DEF S
<1>10. \A n \in 0 .. m : n \in S
  BY <1>1, <1>8, <1>9, Induction
<1>11. \A n \in 0 .. m : d[n] \in Volumes
  BY <1>10 DEF S
<1>12. Redone(v, log) = d[m]
  BY DEF Redone, d, DoneTo, m
<1> QED BY <1>7, <1>11, <1>12 DEF d, m

LEMMA RedoneNothing == ASSUME NEW v \in Volumes PROVE Redone(v, <<>>) = v
<1>1. <<>> \in Seq(Write) /\ Len(<<>>) = 0
  OBVIOUS
<1>2. Redone(v, <<>>) = DoneTo(v, <<>>)[Len(<<>>)] /\ DoneTo(v, <<>>)[0] = v
  BY <1>1, RedoneSteps, Zenon
<1> QED BY <1>1, <1>2, Zenon

LEMMA RedoneAppend ==
  ASSUME NEW v \in Volumes, NEW log \in Seq(Write), NEW w \in Write
  PROVE  Redone(v, Append(log, w)) = Apply(Redone(v, log), w)
<1> DEFINE m == Len(log)
           l == Append(log, w)
           d == DoneTo(v, log)
           e == DoneTo(v, l)
           S == {n \in 0 .. m : e[n] = d[n]}
<1>1. m \in Nat /\ l \in Seq(Write) /\ Len(l) = m + 1 /\ l[m + 1] = w /\ \A n \in 1 .. m : l[n] = log[n]
  OBVIOUS
<1>2. /\ Redone(v, log) = d[m] /\ d[0] = v
      /\ \A n \in 1 .. m : d[n] = Apply(d[n - 1], log[n])
  BY RedoneSteps
<1> HIDE DEF l
<1>3. /\ Redone(v, l) = e[m + 1] /\ e[0] = v
      /\ \A n \in 1 .. m + 1 : e[n] = Apply(e[n - 1], l[n])
  <2>1. /\ Redone(v, l) = e[Len(l)] /\ e[0] = v
        /\ \A n \in 1 .. Len(l) : e[n] = Apply(e[n - 1], l[n])
    BY <1>1, RedoneSteps, Zenon
  <2> HIDE DEF m, e
  <2> QED BY <1>1, <2>1
<1> HIDE DEF m, d, e
<1>4. 0 \in S
  BY <1>1, <1>2, <1>3
<1>5. ASSUME NEW n \in 0 .. m - 1, n \in S PROVE n + 1 \in S
  <2>1. n + 1 \in 1 .. m /\ n + 1 \in 1 .. m + 1 /\ n + 1 \in 0 .. m /\ (n + 1) - 1 = n
    BY <1>1
  <2>2. e[n + 1] = Apply(e[n], l[n + 1]) /\ d[n + 1] = Apply(d[n], log[n + 1]) /\ l[n + 1] = log[n + 1]
    BY <1>1, <1>2, <1>3, <2>1
  <2> QED BY <1>5, <2>1, <2>2
<1> HIDE DEF S
<1>6. m \in S
  <2>1. m \in 0 .. m
    BY <1>1
  <2> QED BY <1>1, <1>4, <1>5, <2>1, Induction
<1>7. e[m] = d[m]
  BY <1>6 DEF S
<1>8. e[m + 1] = Apply(e[m], w)
  <2>1. m + 1 \in 1 .. m + 1 /\ (m + 1) - 1 = m
    BY <1>1
  <2> QED BY <1>1, <1>3, <2>1
<1>9. Redone(v, l) = Apply(Redone(v, log), w)
  BY <1>2, <1>3, <1>7, <1>8
<1> QED BY <1>9 DEF l

\* A trace of writes from v, and a volume u that it has brought the image to.
Traces == [vol : Volumes, log : Seq(Write), ret : {0, -1}]
Mirrors(v, t, u) == t \in Traces /\ Redone(v, t.log) = t.vol /\ u \in Volumes /\ Same(t.vol, u)

LEMMA TraceMirrors == ASSUME NEW v \in Volumes PROVE Mirrors(v, Trace(v), v) /\ Trace(v).ret = 0
<1>1. <<>> \in Seq(Write)
  OBVIOUS
<1> QED BY <1>1, RedoneNothing DEF Mirrors, Traces, Trace, Same

LEMMA FailedMirrors ==
  ASSUME NEW v, NEW t, NEW u, Mirrors(v, t, u)
  PROVE  Mirrors(v, Failed(t), u) /\ Failed(t).ret = -1
<1>1. Failed(t) \in Traces /\ Failed(t).log = t.log /\ Failed(t).vol = t.vol /\ Failed(t).ret = -1
  BY DEF Failed, Mirrors, Traces
<1> QED BY <1>1 DEF Mirrors

LEMMA DoMirrors ==
  ASSUME NEW v \in Volumes, NEW t, NEW u, Mirrors(v, t, u), NEW w \in Write
  PROVE  Mirrors(v, Do(t, w), Apply(u, w)) /\ Do(t, w).ret = 0
<1>1. t.vol \in Volumes /\ t.log \in Seq(Write) /\ Redone(v, t.log) = t.vol /\ u \in Volumes /\ Same(t.vol, u)
  BY DEF Mirrors, Traces
<1>2. Append(t.log, w) \in Seq(Write)
  BY <1>1
<1>3. Apply(t.vol, w) \in Volumes /\ Apply(u, w) \in Volumes
  BY <1>1, ApplyType
<1>4. Redone(v, Append(t.log, w)) = Apply(t.vol, w)
  BY <1>1, RedoneAppend
<1>5. Same(Apply(t.vol, w), Apply(u, w))
  BY <1>1, ApplySame
<1>6. /\ Do(t, w).vol = Apply(t.vol, w) /\ Do(t, w).log = Append(t.log, w) /\ Do(t, w).ret = 0
      /\ Do(t, w) = [vol |-> Apply(t.vol, w), log |-> Append(t.log, w), ret |-> 0]
  BY DEF Do
<1>7. Do(t, w) \in Traces
  BY <1>2, <1>3, <1>6 DEF Traces
<1> QED BY <1>3, <1>4, <1>5, <1>6, <1>7 DEF Mirrors

\* Counters are not on the image.
LEMMA CountedMirrors ==
  ASSUME NEW v, NEW t, NEW u, Mirrors(v, t, u), NEW x \in Volumes, Same(u, x)
  PROVE  Mirrors(v, t, x)
BY DEF Mirrors, Same
----------------------------------------------------------------------------
(* The operations of Volume, write by write *)

LEMMA SameReads ==
  ASSUME NEW v, NEW u, Same(v, u)
  PROVE  /\ \A i, k : get_inode_block(u, i, k) = get_inode_block(v, i, k)
         /\ \A b : Readable(u, b) <=> Readable(v, b)
         /\ \A d : ScanStop(u, d, IsFree) = ScanStop(v, d, IsFree)
         /\ \A b : FirstSlot(u, b, IsFree) = FirstSlot(v, b, IsFree)
         /\ allocate_block(u).ret = allocate_block(v).ret
         /\ allocate_inode(u).ret = allocate_inode(v).ret
<1>1. \A i, k : get_inode_block(u, i, k) = get_inode_block(v, i, k)
  BY DEF Same, get_inode_block
<1>2. \A b : Readable(u, b) <=> Readable(v, b)
  BY DEF Same, Readable
<1>3. \A d : ScanStop(u, d, IsFree) = ScanStop(v, d, IsFree)
  BY DEF Same, ScanStop, Readable, HasSlot, get_inode_block
<1>4. \A b : FirstSlot(u, b, IsFree) = FirstSlot(v, b, IsFree)
  BY DEF Same, FirstSlot
<1>5. allocate_block(u).ret = allocate_block(v).ret
  <2>1. \A x : allocate_block(x).ret = IF Blocks \ x.bmap = {} THEN 0 ELSE Min(Blocks \ x.bmap)
    BY DEF allocate_block, Result
  <2> QED BY <2>1 DEF Same
<1>6. allocate_inode(u).ret = allocate_inode(v).ret
  <2>1. \A x : allocate_inode(x).ret = IF Inodes \ x.imap = {} THEN Bad ELSE Min(Inodes \ x.imap)
    BY DEF allocate_inode, Result
  <2> QED BY <2>1 DEF Same
<1> QED BY <1>1, <1>2, <1>3, <1>4, <1>5, <1>6

\* A number where a pointer is that is not zero is a block's.
LEMMA PointerType ==
  ASSUME NEW v \in Volumes, NEW i \in Inodes, NEW k \in Index
  PROVE  get_inode_block(v, i, k) \in Blocks \cup {0}
<1>1. v.itab[i].ptr[k] \in 0 .. BitmapBits
  BY DEF Volumes, Inode
<1> QED BY <1>1, VolumeAssumption DEF get_inode_block, Blocks

LEMMA AllocateBlockType ==
  ASSUME NEW u \in Volumes
  PROVE  LET a == allocate_block(u)
         IN  /\ a.ret = 0 => a.vol = u
             /\ a.ret # 0 => /\ a.ret \in Blocks /\ a.vol \in Volumes
                             /\ Same(Apply(u, BlockBit(a.ret, TRUE)), a.vol)
<1> DEFINE free == Blocks \ u.bmap
           b    == Min(free)
           w    == [u EXCEPT !.bmap = @ \cup {b}, !.bfree = (@ - 1) % CountMod]
<1>1. CASE free = {}
  BY <1>1 DEF allocate_block, Result
<1>2. CASE free # {}
  <2>1. b \in Blocks
    BY <1>2, MinIsLeast DEF Blocks
  <2>2. allocate_block(u) = Result(w, b)
    BY <1>2 DEF allocate_block
  <2>3. (u.bfree - 1) % CountMod \in Nat
    BY ModType, VolumeAssumption DEF Volumes
  <2> HIDE DEF b
  <2>4. w \in Volumes
    BY <2>1, <2>3 DEF Volumes
  <2>5. Apply(u, BlockBit(b, TRUE)) = WithBmap(u, u.bmap \cup {b})
    <3>1. Apply(u, BlockBit(b, TRUE)) = WithBmap(u, Toggled(u.bmap, b, TRUE))
      BY ApplyIs, Zenon
    <3> QED BY <3>1 DEF Toggled
  <2>6. Same(WithBmap(u, u.bmap \cup {b}), w)
    BY DEF Same, WithBmap, Volumes
  <2> HIDE DEF w
  <2>7. allocate_block(u).vol = w /\ allocate_block(u).ret = b
    BY <2>2 DEF Result
  <2>8. b # 0
    BY <2>1 DEF Blocks
  <2> QED BY <2>1, <2>4, <2>5, <2>6, <2>7, <2>8
<1> QED BY <1>1, <1>2

LEMMA AllocateBlockMirrors ==
  ASSUME NEW v \in Volumes, NEW t, NEW u, Mirrors(v, t, u), NEW b, b = allocate_block(t.vol).ret
  PROVE  LET a == allocate_block(u)
         IN  /\ a.ret = b
             /\ b = 0 => a.vol = u
             /\ b # 0 => b \in Blocks /\ Mirrors(v, Do(t, BlockBit(b, TRUE)), a.vol)
<1> DEFINE a == allocate_block(u)
<1>1. Same(t.vol, u) /\ u \in Volumes
  BY DEF Mirrors
<1>2. a.ret = b
  BY <1>1, SameReads
<1>3. /\ a.ret = 0 => a.vol = u
      /\ a.ret # 0 => /\ a.ret \in Blocks /\ a.vol \in Volumes
                      /\ Same(Apply(u, BlockBit(a.ret, TRUE)), a.vol)
  BY <1>1, AllocateBlockType
<1> HIDE DEF a
<1>4. ASSUME b # 0 PROVE b \in Blocks /\ Mirrors(v, Do(t, BlockBit(b, TRUE)), a.vol)
  <2>1. b \in Blocks /\ BlockBit(b, TRUE) \in Write
    BY <1>2, <1>3, <1>4, WriteTypes
  <2>2. Mirrors(v, Do(t, BlockBit(b, TRUE)), Apply(u, BlockBit(b, TRUE)))
    BY <2>1, DoMirrors
  <2> QED BY <1>2, <1>3, <1>4, <2>1, <2>2, CountedMirrors
<1> QED BY <1>2, <1>3, <1>4 DEF a

LEMMA BlockMirrors ==
  ASSUME NEW v \in Volumes, NEW t, NEW u, Mirrors(v, t, u), NEW b \in Blocks, NEW words \in [Slot -> Word]
  PROVE  Mirrors(v, Do(t, BlockOf(b, words)), write_block(u, b, words)) /\ Do(t, BlockOf(b, words)).ret = 0
<1>1. BlockOf(b, words) \in Write
  BY WriteTypes
<1>2. Apply(u, BlockOf(b, words)) = write_block(u, b, words)
  BY ApplyIs, Zenon
<1> QED BY <1>1, <1>2, DoMirrors

LEMMA AttachMirrors ==
  ASSUME NEW v \in Volumes, NEW t, NEW u, Mirrors(v, t, u), t.ret = 0, NEW i, NEW k \in Index, NEW b \in Blocks
  PROVE  Mirrors(v, Attach(t, i, k, b), set_inode_block(u, i, k, b)) /\ Attach(t, i, k, b).ret = 0
<1>0. Pointer(i, k, b).at = i
  BY DEF Pointer
<1>1. CASE i \notin Inodes
  BY <1>0, <1>1 DEF Attach, DoInode, set_inode_block
<1>2. CASE i \in Inodes
  <2>1. Pointer(i, k, b) \in Write
    BY <1>2, WriteTypes
  <2>2. Apply(u, Pointer(i, k, b)) = set_inode_block(u, i, k, b)
    BY ApplyIs, Zenon
  <2>3. Attach(t, i, k, b) = Do(t, Pointer(i, k, b))
    BY <1>0, <1>2 DEF Attach, DoInode
  <2> QED BY <2>1, <2>2, <2>3, DoMirrors
<1> QED BY <1>1, <1>2

\* A write that an inode's number may keep from being done.
LEMMA DoInodeMirrors ==
  ASSUME NEW v \in Volumes, NEW t, NEW u, Mirrors(v, t, u), t.ret = 0, NEW w, NEW x,
         w.at \in Inodes => w \in Write /\ Apply(u, w) = x,
         w.at \notin Inodes => x = u
  PROVE  Mirrors(v, DoInode(t, w), x) /\ DoInode(t, w).ret = 0
<1>1. CASE w.at \notin Inodes
  BY <1>1 DEF DoInode
<1>2. CASE w.at \in Inodes
  <2>1. DoInode(t, w) = Do(t, w)
    BY <1>2 DEF DoInode
  <2>2. Mirrors(v, Do(t, w), Apply(u, w)) /\ Do(t, w).ret = 0
    BY <1>2, DoMirrors
  <2> QED BY <1>2, <2>1, <2>2
<1> QED BY <1>1, <1>2

LinkUp(t, c)   == DoInode(t, Links1(c, TRUE))
LinkDown(t, c) == DoInode(t, Links1(c, FALSE))

LEMMA LinkMoreMirrors ==
  ASSUME NEW v \in Volumes, NEW t, NEW u, Mirrors(v, t, u), t.ret = 0, NEW c
  PROVE  Mirrors(v, LinkUp(t, c), increment_link_count(u, c)) /\ LinkUp(t, c).ret = 0
<1> DEFINE w == Links1(c, TRUE)
           x == increment_link_count(u, c)
<1>1. w.at = c
  BY DEF Links1
<1>2. w.at \in Inodes => w \in Write /\ Apply(u, w) = x
  <2>1. Apply(u, Links1(c, TRUE)) = increment_link_count(u, c)
    BY ApplyIs, Zenon
  <2>2. c \in Inodes => Links1(c, TRUE) \in Write
    BY WriteTypes
  <2> QED BY <1>1, <2>1, <2>2
<1>3. w.at \notin Inodes => x = u
  BY <1>1 DEF increment_link_count
<1> HIDE DEF w, x
<1>4. Mirrors(v, DoInode(t, w), x) /\ DoInode(t, w).ret = 0
  BY <1>2, <1>3, DoInodeMirrors
<1> QED BY <1>4 DEF w, x, LinkUp

LEMMA LinkLessMirrors ==
  ASSUME NEW v \in Volumes, NEW t, NEW u, Mirrors(v, t, u), t.ret = 0, NEW c
  PROVE  Mirrors(v, LinkDown(t, c), decrement_link_count(u, c)) /\ LinkDown(t, c).ret = 0
<1> DEFINE w == Links1(c, FALSE)
           x == decrement_link_count(u, c)
<1>1. w.at = c
  BY DEF Links1
<1>2. w.at \in Inodes => w \in Write /\ Apply(u, w) = x
  <2>1. Apply(u, Links1(c, FALSE)) = decrement_link_count(u, c)
    BY ApplyIs, Zenon
  <2>2. c \in Inodes => Links1(c, FALSE) \in Write
    BY WriteTypes
  <2> QED BY <1>1, <2>1, <2>2
<1>3. w.at \notin Inodes => x = u
  BY <1>1 DEF decrement_link_count
<1> HIDE DEF w, x
<1>4. Mirrors(v, DoInode(t, w), x) /\ DoInode(t, w).ret = 0
  BY <1>2, <1>3, DoInodeMirrors
<1> QED BY <1>4 DEF w, x, LinkDown
----------------------------------------------------------------------------
(* The operations of Directory, write by write *)

LEMMA PutMirrors ==
  ASSUME NEW v \in Volumes, NEW t, NEW u, Mirrors(v, t, u), NEW b \in Blocks,
         NEW words \in [Slot -> Word], NEW s, NEW n \in AnyName, NEW c \in 1 .. MaxInodes
  PROVE  /\ Mirrors(v, PutLinked(t, b, words, s, n, c), PutEntry(u, b, words, s, n, c).vol)
         /\ PutLinked(t, b, words, s, n, c).ret = 0 /\ PutEntry(u, b, words, s, n, c).ret = 0
<1> DEFINE new == [words EXCEPT ![s] = Entry(n, c)]
           x   == Do(t, BlockOf(b, new))
<1>1. Entry(n, c) \in Word
  BY DEF Entry, Word, AnyName
<1>2. new \in [Slot -> Word]
  BY <1>1
<1>3. PutLinked(t, b, words, s, n, c) = LinkUp(x, c)
  BY DEF PutLinked, LinkUp
<1>4. /\ PutEntry(u, b, words, s, n, c).vol = increment_link_count(write_block(u, b, new), c)
      /\ PutEntry(u, b, words, s, n, c).ret = 0
  BY DEF PutEntry, Done, Result
<1> HIDE DEF new
<1>5. Mirrors(v, x, write_block(u, b, new)) /\ x.ret = 0
  BY <1>2, BlockMirrors
<1> HIDE DEF x
<1>6. /\ Mirrors(v, LinkUp(x, c), increment_link_count(write_block(u, b, new), c))
      /\ LinkUp(x, c).ret = 0
  <2> DEFINE y == write_block(u, b, new)
  <2>1. Mirrors(v, x, y) /\ x.ret = 0
    BY <1>5
  <2> HIDE DEF y
  <2>2. /\ Mirrors(v, LinkUp(x, c), increment_link_count(y, c))
        /\ LinkUp(x, c).ret = 0
    BY <2>1, LinkMoreMirrors
  <2> QED BY <2>2 DEF y
<1> QED BY <1>3, <1>4, <1>6

\* What a trace and a result have in common.
Matches(v, t, r) == Mirrors(v, t, r.vol) /\ t.ret = r.ret /\ r.ret \in {0, -1}

LEMMA FailMatches ==
  ASSUME NEW v, NEW t, NEW u, Mirrors(v, t, u)
  PROVE  Matches(v, Failed(t), Fail(u))
<1>1. Fail(u).vol = u /\ Fail(u).ret = -1
  BY DEF Fail, Result
<1> QED BY <1>1, FailedMirrors DEF Matches

LEMMA AddEntryMatches ==
  ASSUME NEW v \in Volumes, NEW t, NEW u, Mirrors(v, t, u), t.ret = 0,
         NEW d, NEW n \in AnyName, NEW c \in 1 .. MaxInodes
  PROVE  Matches(v, AddEntry(t, d, n, c), add_directory_entry(u, d, n, c))
<1> DEFINE k == ScanStop(u, d, IsFree)
           b == get_inode_block(u, d, k)
           a == allocate_block(u)
<1>0. t.ret # -1 /\ Same(t.vol, u) /\ u \in Volumes
  BY DEF Mirrors
<1>1. k \in Index \cup {NDirect}
  BY FreeScanStops
<1>2. /\ ScanStop(t.vol, d, IsFree) = k /\ get_inode_block(t.vol, d, k) = b
      /\ Readable(t.vol, b) <=> Readable(u, b)
      /\ FirstSlot(t.vol, b, IsFree) = FirstSlot(u, b, IsFree)
      /\ allocate_block(t.vol).ret = a.ret
      /\ t.vol.blk = u.blk
  <2>1. /\ \A i, l : get_inode_block(u, i, l) = get_inode_block(t.vol, i, l)
        /\ \A x : Readable(u, x) <=> Readable(t.vol, x)
        /\ \A e : ScanStop(u, e, IsFree) = ScanStop(t.vol, e, IsFree)
        /\ \A x : FirstSlot(u, x, IsFree) = FirstSlot(t.vol, x, IsFree)
        /\ allocate_block(u).ret = allocate_block(t.vol).ret
    BY <1>0, SameReads
  <2>2. t.vol.blk = u.blk
    BY <1>0 DEF Same
  <2> HIDE DEF k, b
  <2>3. ScanStop(t.vol, d, IsFree) = ScanStop(u, d, IsFree)
    BY <2>1, Zenon
  <2>4. get_inode_block(t.vol, d, k) = get_inode_block(u, d, k)
    BY <2>1, Zenon
  <2>5. FirstSlot(t.vol, b, IsFree) = FirstSlot(u, b, IsFree)
    BY <2>1, Zenon
  <2>6. Readable(t.vol, b) <=> Readable(u, b)
    BY <2>1, Zenon
  <2> QED BY <2>1, <2>2, <2>3, <2>4, <2>5, <2>6, Zenon DEF k, b
<1>3. AddEntry(t, d, n, c) = IF d \notin Inodes THEN Failed(t)
                             ELSE AddAt(t, d, k, IF k < NDirect THEN b ELSE 0, n, c)
  BY <1>0, <1>2 DEF AddEntry, AddToIndex
<1>4. add_directory_entry(u, d, n, c) =
        IF d \notin Inodes \/ k = NDirect THEN Fail(u)
        ELSE IF b = 0 THEN PutInNewBlock(BlockFor(u, d, k), n, c)
        ELSE IF ~Readable(u, b) THEN Fail(u)
        ELSE PutEntry(u, b, u.blk[b], FirstSlot(u, b, IsFree), n, c)
  BY DEF add_directory_entry
<1> HIDE DEF k
<1>5. CASE d \notin Inodes \/ k = NDirect
  <2>1. k = NDirect => AddAt(t, d, k, IF k < NDirect THEN b ELSE 0, n, c) = Failed(t)
    BY DEF AddAt
  <2>2. AddEntry(t, d, n, c) = Failed(t) /\ add_directory_entry(u, d, n, c) = Fail(u)
    BY <1>3, <1>4, <1>5, <2>1
  <2> QED BY <2>2, FailMatches
<1>6. CASE d \in Inodes /\ k # NDirect
  <2>1. k \in Index /\ k < NDirect
    BY <1>1, <1>6, VolumeAssumption DEF Index
  <2>2. b \in Blocks \cup {0}
    BY <1>0, <1>6, <2>1, PointerType
  <2>3. AddEntry(t, d, n, c) = AddAt(t, d, k, b, n, c)
    BY <1>3, <1>6, <2>1
  <2>4. b = get_inode_block(u, d, k)
    OBVIOUS
  <2> HIDE DEF b
  <2>5. AddAt(t, d, k, b, n, c) =
          IF b = 0 THEN AddInNew(t, d, k, n, c, a.ret)
          ELSE IF ~Readable(u, b) THEN Failed(t)
          ELSE PutLinked(t, b, u.blk[b], FirstSlot(u, b, IsFree), n, c)
    BY <1>2, <1>6 DEF AddAt
  <2>6. CASE b # 0 /\ ~Readable(u, b)
    <3>1. AddEntry(t, d, n, c) = Failed(t) /\ add_directory_entry(u, d, n, c) = Fail(u)
      BY <1>4, <1>6, <2>3, <2>5, <2>6
    <3> QED BY <3>1, FailMatches
  <2>7. CASE b # 0 /\ Readable(u, b)
    <3> DEFINE s == FirstSlot(u, b, IsFree)
    <3>1. /\ AddEntry(t, d, n, c) = PutLinked(t, b, u.blk[b], s, n, c)
          /\ add_directory_entry(u, d, n, c) = PutEntry(u, b, u.blk[b], s, n, c)
      BY <1>4, <1>6, <2>3, <2>5, <2>7
    <3>2. b \in Blocks /\ u.blk[b] \in [Slot -> Word]
      BY <1>0, <2>2, <2>7 DEF Volumes
    <3> HIDE DEF s
    <3>3. /\ Mirrors(v, PutLinked(t, b, u.blk[b], s, n, c), PutEntry(u, b, u.blk[b], s, n, c).vol)
          /\ PutLinked(t, b, u.blk[b], s, n, c).ret = 0 /\ PutEntry(u, b, u.blk[b], s, n, c).ret = 0
      BY <3>2, PutMirrors
    <3> QED BY <3>1, <3>3 DEF Matches
  <2>8. CASE b = 0
    <3>1. AddEntry(t, d, n, c) = AddInNew(t, d, k, n, c, a.ret)
      BY <2>3, <2>5, <2>8
    <3>2. add_directory_entry(u, d, n, c) = PutInNewBlock(Attached(a, d, k), n, c)
      BY <1>4, <1>6, <2>4, <2>8 DEF BlockFor
    <3>3. /\ a.ret = 0 => a.vol = u
          /\ a.ret # 0 => a.ret \in Blocks /\ Mirrors(v, Do(t, BlockBit(a.ret, TRUE)), a.vol)
      <4>1. a.ret = allocate_block(t.vol).ret
        BY <1>2
      <4> QED BY <4>1, AllocateBlockMirrors, Zenon
    <3> HIDE DEF a
    <3>4. CASE a.ret = 0
      <4>1. AddInNew(t, d, k, n, c, a.ret) = Failed(t)
        BY <3>4 DEF AddInNew
      <4>2. PutInNewBlock(Attached(a, d, k), n, c) = Fail(u)
        BY <3>3, <3>4 DEF PutInNewBlock, Attached
      <4> QED BY <3>1, <3>2, <4>1, <4>2, FailMatches
    <3>5. CASE a.ret # 0
      <4> DEFINE x == Do(t, BlockBit(a.ret, TRUE))
                 y == Attach(x, d, k, a.ret)
                 w == set_inode_block(a.vol, d, k, a.ret)
      <4>1. AddInNew(t, d, k, n, c, a.ret) = PutLinked(y, a.ret, ZeroBlock, 1, n, c)
        BY <3>5 DEF AddInNew
      <4>2. PutInNewBlock(Attached(a, d, k), n, c) = PutEntry(w, a.ret, ZeroBlock, 1, n, c)
        BY <3>5 DEF PutInNewBlock, Attached, Result
      <4>3. Mirrors(v, x, a.vol) /\ a.ret \in Blocks /\ x.ret = 0
        BY <3>3, <3>5 DEF Do
      <4> HIDE DEF x
      <4>4. Mirrors(v, y, w)
        BY <2>1, <4>3, AttachMirrors
      <4>5. ZeroBlock \in [Slot -> Word]
        BY DEF ZeroBlock, Word
      <4> HIDE DEF y, w
      <4>6. /\ Mirrors(v, PutLinked(y, a.ret, ZeroBlock, 1, n, c), PutEntry(w, a.ret, ZeroBlock, 1, n, c).vol)
            /\ PutLinked(y, a.ret, ZeroBlock, 1, n, c).ret = 0
            /\ PutEntry(w, a.ret, ZeroBlock, 1, n, c).ret = 0
        BY <4>3, <4>4, <4>5, PutMirrors
      <4> QED BY <3>1, <3>2, <4>1, <4>2, <4>6 DEF Matches
    <3> QED BY <3>4, <3>5
  <2> QED BY <2>6, <2>7, <2>8
<1> QED BY <1>5, <1>6

LEMMA AddAfterMatches ==
  ASSUME NEW v \in Volumes, NEW t, NEW r, Matches(v, t, r),
         NEW d, NEW n \in AnyName, NEW c \in 1 .. MaxInodes
  PROVE  Matches(v, AddEntry(t, d, n, c), AddAfter(r, d, n, c))
<1>1. CASE r.ret = -1
  <2>1. AddEntry(t, d, n, c) = Failed(t) /\ AddAfter(r, d, n, c) = r
    BY <1>1 DEF AddEntry, AddAfter, Matches
  <2>2. Mirrors(v, Failed(t), r.vol) /\ Failed(t).ret = -1
    BY FailedMirrors DEF Matches
  <2> QED BY <1>1, <2>1, <2>2 DEF Matches
<1>2. CASE r.ret = 0
  <2>1. Mirrors(v, t, r.vol) /\ t.ret = 0
    BY <1>2 DEF Matches
  <2>2. AddAfter(r, d, n, c) = add_directory_entry(r.vol, d, n, c)
    BY <1>2 DEF AddAfter
  <2> QED BY <2>1, <2>2, AddEntryMatches
<1> QED BY <1>1, <1>2 DEF Matches
----------------------------------------------------------------------------
(* Deletions, write by write *)

LEMMA RemoveEntryMatches ==
  ASSUME NEW v \in Volumes, NEW d, NEW n, Locate(v, d, n).block # 0
  PROVE  Matches(v, RemoveEntry(Trace(v), Locate(v, d, n), find_directory_entry(v, d, n)),
                 remove_directory_entry(v, d, n))
<1> DEFINE at  == Locate(v, d, n)
           c   == find_directory_entry(v, d, n)
           new == [v.blk[at.block] EXCEPT ![at.slot] = Zero]
           w   == write_block(v, at.block, new)
           x   == Do(Trace(v), BlockOf(at.block, new))
<1>1. at.block \in Blocks /\ at.slot \in Slot /\ IsNamed(v.blk[at.block][at.slot], n)
  BY LocateFindsIn
<1>2. c = v.blk[at.block][at.slot].ino
  BY <1>1 DEF find_directory_entry, FoundIno, EntryIno, IsNamed
<1>3. new \in [Slot -> Word]
  BY <1>1 DEF Volumes, Word
<1>4. RemoveEntry(Trace(v), at, c) = LinkDown(x, c)
  BY DEF RemoveEntry, Trace, LinkDown
<1>5. /\ remove_directory_entry(v, d, n).vol = decrement_link_count(w, c)
      /\ remove_directory_entry(v, d, n).ret = 0
  BY <1>2 DEF remove_directory_entry, ClearEntry, Done, Result
<1>6. Mirrors(v, Trace(v), v)
  BY TraceMirrors
<1> HIDE DEF new, at, c
<1>7. Mirrors(v, x, w) /\ x.ret = 0
  BY <1>1, <1>3, <1>6, BlockMirrors
<1> HIDE DEF x, w
<1>8. Mirrors(v, LinkDown(x, c), decrement_link_count(w, c)) /\ LinkDown(x, c).ret = 0
  BY <1>7, LinkLessMirrors
<1>9. Matches(v, RemoveEntry(Trace(v), at, c), remove_directory_entry(v, d, n))
  BY <1>4, <1>5, <1>8 DEF Matches
<1> QED BY <1>9 DEF at, c

\* The blocks that the first n pointers of inode i name.
GivenBack(v, i, n) ==
  {v.itab[i].ptr[k] : k \in {l \in Index : l < n /\ v.itab[i].ptr[l] \in 1 .. MaxBlocks}}
LessBlocks(v, i, n) == WithBmap(v, v.bmap \ GivenBack(v, i, n))

LEMMA LessBlocksStep ==
  ASSUME NEW v \in Volumes, NEW i, NEW n \in Index
  PROVE  LET b == v.itab[i].ptr[n]
         IN  LessBlocks(v, i, n + 1) =
               IF b \in 1 .. MaxBlocks THEN Apply(LessBlocks(v, i, n), BlockBit(b, FALSE))
               ELSE LessBlocks(v, i, n)
<1> DEFINE b == v.itab[i].ptr[n]
<1>1. \A l \in Index : l < n + 1 <=> l < n \/ l = n
  BY VolumeAssumption DEF Index
<1>2. CASE b \notin 1 .. MaxBlocks
  <2>1. GivenBack(v, i, n + 1) = GivenBack(v, i, n)
    BY <1>1, <1>2 DEF GivenBack
  <2> QED BY <1>2, <2>1 DEF LessBlocks
<1>3. CASE b \in 1 .. MaxBlocks
  <2>1. GivenBack(v, i, n + 1) = GivenBack(v, i, n) \cup {b}
    BY <1>1, <1>3 DEF GivenBack
  <2> DEFINE u == LessBlocks(v, i, n)
  <2>2. u.bmap = v.bmap \ GivenBack(v, i, n) /\ \A S : WithBmap(u, S) = WithBmap(v, S)
    BY DEF LessBlocks, WithBmap, Volumes
  <2> HIDE DEF u, b
  <2>3. Apply(u, BlockBit(b, FALSE)) = WithBmap(u, Toggled(u.bmap, b, FALSE))
    BY ApplyIs, Zenon
  <2>4. Toggled(u.bmap, b, FALSE) = v.bmap \ GivenBack(v, i, n + 1)
    BY <2>1, <2>2 DEF Toggled
  <2>5. LessBlocks(v, i, n + 1) = Apply(u, BlockBit(b, FALSE))
    BY <2>2, <2>3, <2>4 DEF LessBlocks
  <2> QED BY <1>3, <2>5 DEF u, b
<1> QED BY <1>2, <1>3

LEMMA FreeBlockMirrors ==
  ASSUME NEW v \in Volumes, NEW t, NEW u, Mirrors(v, t, u), NEW b
  PROVE  Mirrors(v, FreeBlock(t, b), IF b \in 1 .. MaxBlocks THEN Apply(u, BlockBit(b, FALSE)) ELSE u)
<1>1. CASE b \notin 1 .. MaxBlocks
  BY <1>1 DEF FreeBlock
<1>2. CASE b \in 1 .. MaxBlocks
  <2> DEFINE w == BlockBit(b, FALSE)
  <2>1. FreeBlock(t, b) = Do(t, w)
    BY <1>2 DEF FreeBlock
  <2>2. w \in Write
    <3>1. b \in Blocks
      BY <1>2, VolumeAssumption DEF Blocks
    <3> QED BY <3>1, WriteTypes
  <2> HIDE DEF w
  <2>3. Mirrors(v, Do(t, w), Apply(u, w))
    BY <2>2, DoMirrors
  <2> QED BY <1>2, <2>1, <2>3 DEF w
<1> QED BY <1>1, <1>2

\* Freeing a block keeps a trace a trace.
LEMMA FreeBlockType == ASSUME NEW t \in Traces, NEW b PROVE FreeBlock(t, b) \in Traces
<1>1. CASE b \notin 1 .. MaxBlocks
  BY <1>1 DEF FreeBlock
<1>2. CASE b \in 1 .. MaxBlocks
  <2> DEFINE w == BlockBit(b, FALSE)
  <2>1. FreeBlock(t, b) = Do(t, w)
    BY <1>2 DEF FreeBlock
  <2>2. w \in Write
    <3>1. b \in Blocks
      BY <1>2, VolumeAssumption DEF Blocks
    <3> QED BY <3>1, WriteTypes
  <2> HIDE DEF w
  <2>3. t.vol \in Volumes /\ t.log \in Seq(Write)
    BY DEF Traces
  <2>4. Apply(t.vol, w) \in Volumes /\ Append(t.log, w) \in Seq(Write)
    BY <2>2, <2>3, ApplyType
  <2> QED BY <2>1, <2>4 DEF Do, Traces
<1> QED BY <1>1, <1>2

FreedTo(t, i) ==
  CHOOSE freed : freed = [n \in 0 .. NDirect |->
    IF n = 0 THEN t ELSE FreeBlock(freed[n - 1], t.vol.itab[i].ptr[n - 1])]

LEMMA FreeBlocksSteps ==
  ASSUME NEW t \in Traces, NEW i
  PROVE  /\ FreeBlocks(t, i) = FreedTo(t, i)[NDirect]
         /\ FreedTo(t, i)[0] = t
         /\ \A n \in Index : FreedTo(t, i)[n + 1] = FreeBlock(FreedTo(t, i)[n], t.vol.itab[i].ptr[n])
<1> DEFINE m == NDirect
           p == t.vol.itab[i].ptr
           d == FreedTo(t, i)
           g == [q \in Traces \X (1 .. m) |-> FreeBlock(q[1], p[q[2] - 1])]
<1>1. m \in Nat
  BY VolumeAssumption
<1>2. g \in [Traces \X (1 .. m) -> Traces]
  BY FreeBlockType
<1>3. \A x \in Traces, n \in 1 .. m : g[<<x, n>>] = FreeBlock(x, p[n - 1])
  OBVIOUS
<1> HIDE DEF g, p, m
<1>4. PICK f \in [0 .. m -> Traces] : Recurs(f, m, t, g)
  BY <1>1, <1>2, RecursionExists
<1>5. f = [n \in 0 .. m |-> IF n = 0 THEN t ELSE FreeBlock(f[n - 1], p[n - 1])]
  <2>1. ASSUME NEW n \in 0 .. m, n # 0 PROVE g[<<f[n - 1], n>>] = FreeBlock(f[n - 1], p[n - 1])
    <3>1. n \in 1 .. m /\ n - 1 \in 0 .. m
      BY <1>1, <2>1
    <3> QED BY <1>3, <3>1
  <2> QED BY <1>4, <2>1 DEF Recurs
<1>6. d = [n \in 0 .. m |-> IF n = 0 THEN t ELSE FreeBlock(d[n - 1], p[n - 1])]
  BY <1>5 DEF FreedTo, m, p
<1> HIDE DEF d
<1>7. d[0] = t
  BY <1>1, <1>6
<1>8. ASSUME NEW n \in Index PROVE d[n + 1] = FreeBlock(d[n], p[n])
  <2>1. n + 1 \in 0 .. m /\ n + 1 # 0 /\ (n + 1) - 1 = n
    BY <1>1 DEF Index, m
  <2> QED BY <1>6, <2>1
<1>9. FreeBlocks(t, i) = d[m]
  BY DEF FreeBlocks, d, FreedTo, m, p
<1> QED BY <1>7, <1>8, <1>9 DEF d, m, p

\* The blocks freed one by one are the ones free_blocks takes from the bitmap.
LEMMA FreeBlocksMirror ==
  ASSUME NEW v \in Volumes, NEW t, NEW u, Mirrors(v, t, u), NEW i \in Inodes
  PROVE  Mirrors(v, FreeBlocks(t, i), LessBlocks(t.vol, i, NDirect))
<1> DEFINE d == FreedTo(t, i)
           S == {n \in 0 .. NDirect : Mirrors(v, d[n], LessBlocks(t.vol, i, n))}
<1>1. t \in Traces /\ t.vol \in Volumes /\ Redone(v, t.log) = t.vol
  BY DEF Mirrors, Traces
<1>2. /\ FreeBlocks(t, i) = d[NDirect] /\ d[0] = t
      /\ \A n \in Index : d[n + 1] = FreeBlock(d[n], t.vol.itab[i].ptr[n])
  BY <1>1, FreeBlocksSteps
<1> HIDE DEF d
<1>3. LessBlocks(t.vol, i, 0) = t.vol
  <2>1. GivenBack(t.vol, i, 0) = {}
    BY VolumeAssumption DEF GivenBack, Index
  <2> QED BY <1>1, <2>1 DEF LessBlocks, WithBmap, Volumes
<1>4. 0 \in S
  BY <1>1, <1>2, <1>3, VolumeAssumption DEF Mirrors, Same
<1>5. ASSUME NEW n \in 0 .. NDirect - 1, n \in S PROVE n + 1 \in S
  <2> DEFINE b == t.vol.itab[i].ptr[n]
             x == LessBlocks(t.vol, i, n)
  <2>1. n \in Index /\ n + 1 \in 0 .. NDirect
    BY VolumeAssumption DEF Index
  <2>2. d[n + 1] = FreeBlock(d[n], b)
    BY <1>2, <2>1
  <2>3. LessBlocks(t.vol, i, n + 1) = IF b \in 1 .. MaxBlocks THEN Apply(x, BlockBit(b, FALSE)) ELSE x
    BY <1>1, <2>1, LessBlocksStep
  <2>4. Mirrors(v, d[n], x)
    BY <1>5
  <2> HIDE DEF b, x
  <2>5. Mirrors(v, FreeBlock(d[n], b), IF b \in 1 .. MaxBlocks THEN Apply(x, BlockBit(b, FALSE)) ELSE x)
    BY <2>4, FreeBlockMirrors
  <2> QED BY <2>1, <2>2, <2>3, <2>5
<1> HIDE DEF S
<1>6. NDirect \in S
  BY <1>4, <1>5, Induction, VolumeAssumption
<1> QED BY <1>2, <1>6 DEF S

\* The volume delete_inode leaves, with the counters it leaves.
LEMMA DeleteInodeIs ==
  ASSUME NEW u \in Volumes, NEW i \in Inodes
  PROVE  /\ delete_inode(u, i) \in Volumes
         /\ Same(WithImap(WithInode(LessBlocks(u, i, NDirect), i, ZeroInode), u.imap \ {i}),
                 delete_inode(u, i))
<1> DEFINE freed == {k \in Index : u.itab[i].ptr[k] \in 1 .. MaxBlocks}
           gone  == {u.itab[i].ptr[k] : k \in freed}
           x     == delete_inode(u, i)
           w     == WithImap(WithInode(LessBlocks(u, i, NDirect), i, ZeroInode), u.imap \ {i})
<1>1. GivenBack(u, i, NDirect) = gone
  <2>1. \A l \in Index : l < NDirect
    BY VolumeAssumption DEF Index
  <2> QED BY <2>1 DEF GivenBack
<1>2. Cardinality(freed) \in Nat
  <2>1. IsFiniteSet(Index)
    BY FS_Interval, VolumeAssumption DEF Index
  <2> QED BY <2>1, FS_Subset, FS_CardinalityType
<1> HIDE DEF freed
<1>3. x = [u EXCEPT !.bmap = u.bmap \ gone, !.bfree = (u.bfree + Cardinality(freed)) % CountMod,
                    !.itab = [u.itab EXCEPT ![i] = ZeroInode], !.imap = u.imap \ {i},
                    !.ifree = (u.ifree + 1) % CountMod]
  BY DEF delete_inode, free_inode, free_blocks, freed, Volumes
<1>4. (u.bfree + Cardinality(freed)) % CountMod \in Nat /\ (u.ifree + 1) % CountMod \in Nat
  BY <1>2, ModType, VolumeAssumption DEF Volumes
<1>5. [u.itab EXCEPT ![i] = ZeroInode] \in [Inodes -> Inode]
  BY InodeTypes DEF Volumes
<1> HIDE DEF gone, x
<1>6. x \in Volumes
  <2>1. u.bmap \ gone \in SUBSET Blocks /\ u.imap \ {i} \in SUBSET Inodes
    BY DEF Volumes
  <2> QED BY <1>3, <1>4, <1>5, <2>1 DEF Volumes
<1>7. /\ x.bmap = u.bmap \ gone /\ x.imap = u.imap \ {i} /\ x.blk = u.blk /\ x.end = u.end
      /\ x.itab = [u.itab EXCEPT ![i] = ZeroInode]
  BY <1>3 DEF Volumes
<1>8. /\ w.bmap = u.bmap \ gone /\ w.imap = u.imap \ {i} /\ w.blk = u.blk /\ w.end = u.end
      /\ w.itab = [u.itab EXCEPT ![i] = ZeroInode]
  BY <1>1 DEF LessBlocks, WithBmap, WithInode, WithImap, Volumes
<1> HIDE DEF w
<1>9. Same(w, x)
  BY <1>7, <1>8 DEF Same
<1> QED BY <1>6, <1>9 DEF w, x

LEMMA SameLessBlocks ==
  ASSUME NEW v \in Volumes, NEW u \in Volumes, Same(v, u), NEW i, NEW n
  PROVE  /\ LessBlocks(v, i, n) \in Volumes /\ LessBlocks(u, i, n) \in Volumes
         /\ Same(LessBlocks(v, i, n), LessBlocks(u, i, n))
<1>1. GivenBack(v, i, n) = GivenBack(u, i, n)
  BY DEF Same, GivenBack
<1>2. v.bmap \ GivenBack(v, i, n) \in SUBSET Blocks /\ u.bmap \ GivenBack(u, i, n) \in SUBSET Blocks
  BY DEF Volumes
<1>3. LessBlocks(v, i, n) \in Volumes /\ LessBlocks(u, i, n) \in Volumes
  BY <1>2, VolumeUpdates DEF LessBlocks
<1>4. Same(LessBlocks(v, i, n), LessBlocks(u, i, n))
  BY <1>1 DEF LessBlocks, WithBmap, Same, Volumes
<1> QED BY <1>3, <1>4

LEMMA DeleteInodeMirrors ==
  ASSUME NEW v \in Volumes, NEW t, NEW u, Mirrors(v, t, u), NEW i
  PROVE  Mirrors(v, DeleteInode(t, i), delete_inode(u, i))
<1>1. CASE i \notin Inodes
  BY <1>1 DEF DeleteInode, delete_inode
<1>2. CASE i \in Inodes
  <2> DEFINE a == FreeBlocks(t, i)
             b == Do(a, ClearSlot(i))
             x == LessBlocks(t.vol, i, NDirect)
             y == LessBlocks(u, i, NDirect)
             clear == ClearSlot(i)
             free  == InodeBit(i, FALSE)
  <2>1. t.vol \in Volumes /\ u \in Volumes /\ Same(t.vol, u)
    BY DEF Mirrors, Traces
  <2>2. DeleteInode(t, i) = Do(Do(a, clear), free)
    BY <1>2 DEF DeleteInode
  <2>3. Mirrors(v, a, x)
    BY <1>2, FreeBlocksMirror
  <2>4. y \in Volumes /\ Same(x, y)
    BY <2>1, SameLessBlocks
  <2>5. clear \in Write /\ free \in Write
    BY <1>2, WriteTypes
  <2>6. Apply(y, clear) = WithInode(y, i, ZeroInode)
    BY ApplyIs, Zenon
  <2>7. y.imap = u.imap /\ \A t1 : WithInode(y, i, t1).imap = u.imap
    BY <2>1 DEF LessBlocks, WithBmap, WithInode, Volumes
  <2>8. /\ delete_inode(u, i) \in Volumes
        /\ Same(WithImap(WithInode(y, i, ZeroInode), u.imap \ {i}), delete_inode(u, i))
    BY <1>2, <2>1, DeleteInodeIs
  <2> DEFINE z == WithInode(y, i, ZeroInode)
  <2>9. Apply(z, free) = WithImap(z, z.imap \ {i})
    <3>1. Apply(z, InodeBit(i, FALSE)) = WithImap(z, Toggled(z.imap, i, FALSE))
      BY ApplyIs, Zenon
    <3> QED BY <3>1 DEF Toggled
  <2>10. z.imap = u.imap
    BY <2>7
  <2> HIDE DEF a, x, y, z, clear, free
  <2>11. Mirrors(v, a, y)
    BY <2>3, <2>4, CountedMirrors
  <2>12. Mirrors(v, Do(a, clear), Apply(y, clear))
    BY <2>5, <2>11, DoMirrors
  <2>13. Apply(y, clear) = z
    BY <2>6 DEF z
  <2>14. Mirrors(v, Do(Do(a, clear), free), Apply(z, free))
    BY <2>5, <2>12, <2>13, DoMirrors
  <2>15. Same(Apply(z, free), delete_inode(u, i))
    BY <2>8, <2>9, <2>10 DEF z
  <2> QED BY <2>2, <2>8, <2>14, <2>15, CountedMirrors
<1> QED BY <1>1, <1>2

\* Of cmd_delete and delete_directory, once they have found their entry.
LEMMA RemoveWritesMirror ==
  ASSUME NEW v \in Volumes, NEW d, NEW n, Locate(v, d, n).block # 0
  PROVE  LET i == find_directory_entry(v, d, n)
         IN  Mirrors(v, RemoveWrites(v, Locate(v, d, n), i),
                     delete_inode(remove_directory_entry(v, d, n).vol, i))
<1> DEFINE i == find_directory_entry(v, d, n)
           t == RemoveEntry(Trace(v), Locate(v, d, n), i)
           r == remove_directory_entry(v, d, n)
<1>1. Mirrors(v, t, r.vol)
  BY RemoveEntryMatches DEF Matches
<1>2. RemoveWrites(v, Locate(v, d, n), i) = DeleteInode(t, i)
  BY DEF RemoveWrites
<1> HIDE DEF t, r
<1>3. Mirrors(v, DeleteInode(t, i), delete_inode(r.vol, i))
  BY <1>1, DeleteInodeMirrors
<1> QED BY <1>2, <1>3 DEF r
----------------------------------------------------------------------------
(* Creations, write by write *)

LEMMA CreateInodeMirrors ==
  ASSUME NEW v \in Volumes, NEW type \in {"reg", "dir"}
  PROVE  LET i == allocate_inode(v).ret
             c == create_inode(v, type)
         IN  /\ c.ret = i /\ i \in 1 .. MaxInodes
             /\ Mirrors(v, CreateInode(Trace(v), i, type), c.vol)
             /\ CreateInode(Trace(v), i, type).ret = 0
             /\ c.vol.bmap = v.bmap
<1> DEFINE free == Inodes \ v.imap
           c    == create_inode(v, type)
           s    == Trace(v)
<1>0. Mirrors(v, s, v) /\ s.ret = 0
  BY TraceMirrors
<1> HIDE DEF s
<1>1. CASE free = {}
  <2>1. allocate_inode(v).ret = Bad /\ c.vol = v /\ c.ret = Bad
    BY <1>1 DEF allocate_inode, create_inode, Result
  <2>2. Bad \notin Inodes /\ Bad \in 1 .. MaxInodes
    BY VolumeAssumption DEF Bad, Inodes
  <2>3. CreateInode(s, Bad, type) = s
    BY <2>2 DEF CreateInode
  <2> QED BY <1>0, <2>1, <2>2, <2>3 DEF s
<1>2. CASE free # {}
  <2> DEFINE i == Min(free)
             w == [v EXCEPT !.imap = v.imap \cup {i}, !.ifree = (v.ifree - 1) % CountMod]
             x == [w EXCEPT !.itab[i] = NewInode(type)]
             y == WithImap(v, v.imap \cup {i})
             mark == InodeBit(i, TRUE)
             new  == NewSlot(i, type)
  <2>1. i \in Inodes /\ i \in 1 .. MaxInodes /\ i # Bad
    <3>1. i \in Inodes
      BY <1>2, MinIsLeast DEF Inodes
    <3> QED BY <3>1, VolumeAssumption DEF Inodes, Bad
  <2>2. allocate_inode(v) = Result(w, i)
    BY <1>2 DEF allocate_inode
  <2> HIDE DEF i
  <2>3. c = Result(x, i) /\ allocate_inode(v).ret = i
    <3>1. allocate_inode(v).vol = w /\ allocate_inode(v).ret = i
      BY <2>2 DEF Result
    <3> HIDE DEF w
    <3> QED BY <2>1, <3>1 DEF create_inode
  <2>4. (v.ifree - 1) % CountMod \in Nat
    BY ModType, VolumeAssumption DEF Volumes
  <2>5. x = [v EXCEPT !.imap = v.imap \cup {i}, !.ifree = (v.ifree - 1) % CountMod,
                      !.itab = [v.itab EXCEPT ![i] = NewInode(type)]]
    BY DEF Volumes
  <2>6. [v.itab EXCEPT ![i] = NewInode(type)] \in [Inodes -> Inode] /\ v.imap \cup {i} \in SUBSET Inodes
    BY <2>1, InodeTypes DEF Volumes
  <2>7. /\ x.bmap = v.bmap /\ x.imap = v.imap \cup {i} /\ x.blk = v.blk /\ x.end = v.end
        /\ x.itab = [v.itab EXCEPT ![i] = NewInode(type)]
    BY <2>5 DEF Volumes
  <2> HIDE DEF w, x
  <2>8. x \in Volumes
    BY <2>4, <2>5, <2>6 DEF Volumes
  <2>9. /\ c.ret = i /\ c.vol = x
    BY <2>3 DEF Result
  <2>10. mark \in Write /\ new \in Write
    BY <2>1, WriteTypes
  <2>11. Apply(v, mark) = y
    <3>1. Apply(v, InodeBit(i, TRUE)) = WithImap(v, Toggled(v.imap, i, TRUE))
      BY ApplyIs, Zenon
    <3> QED BY <3>1 DEF Toggled
  <2>12. Apply(y, new) = WithInode(y, i, NewInode(type))
    BY ApplyIs, Zenon
  <2>13. Same(WithInode(y, i, NewInode(type)), x)
    BY <2>7 DEF Same, WithInode, WithImap, Volumes
  <2>14. CreateInode(s, i, type) = Do(Do(s, mark), new)
    BY <2>1 DEF CreateInode
  <2> HIDE DEF c, y, mark, new
  <2>15. Mirrors(v, Do(s, mark), y)
    BY <1>0, <2>10, <2>11, DoMirrors
  <2>16. Mirrors(v, Do(Do(s, mark), new), Apply(y, new)) /\ Do(Do(s, mark), new).ret = 0
    BY <2>10, <2>15, DoMirrors
  <2>17. Mirrors(v, Do(Do(s, mark), new), x)
    BY <2>8, <2>12, <2>13, <2>16, CountedMirrors
  <2> QED BY <2>1, <2>3, <2>7, <2>9, <2>14, <2>16, <2>17 DEF c, s
<1> QED BY <1>1, <1>2

\* A creation that failed takes its inode back.
OrFail(r, i) == IF r.ret = -1 THEN Fail(delete_inode(r.vol, i)) ELSE r

LEMMA OrDeleteMatches ==
  ASSUME NEW v \in Volumes, NEW t, NEW r, Matches(v, t, r), NEW i
  PROVE  Matches(v, OrDelete(t, i), OrFail(r, i))
<1>1. CASE r.ret = -1
  <2> DEFINE u == r.vol
             x == DeleteInode(t, i)
             y == delete_inode(u, i)
  <2>1. OrDelete(t, i) = Failed(x) /\ OrFail(r, i) = Fail(y)
    BY <1>1 DEF OrDelete, OrFail, Matches
  <2>2. Mirrors(v, t, u)
    BY DEF Matches
  <2> HIDE DEF u
  <2>3. Mirrors(v, x, y)
    BY <2>2, DeleteInodeMirrors
  <2> HIDE DEF x, y
  <2>4. Matches(v, Failed(x), Fail(y))
    BY <2>3, FailMatches
  <2> QED BY <2>1, <2>4
<1>2. CASE r.ret # -1
  <2>1. OrDelete(t, i) = t /\ OrFail(r, i) = r
    BY <1>2 DEF OrDelete, OrFail, Matches
  <2> QED BY <2>1
<1> QED BY <1>1, <1>2

LEMMA CreateWritesMirror ==
  ASSUME NEW v \in Volumes, NEW d, NEW n \in AnyName
  PROVE  Mirrors(v, CreateWrites(v, d, n), NewFile(v, d, n))
<1> DEFINE i == allocate_inode(v).ret
           c == create_inode(v, "reg")
           s == CreateInode(Trace(v), i, "reg")
           t == AddEntry(s, d, n, i)
           r == add_directory_entry(c.vol, d, n, i)
<1>1. c.ret = i /\ i \in 1 .. MaxInodes /\ Mirrors(v, s, c.vol) /\ s.ret = 0
  BY CreateInodeMirrors
<1>2. CreateWrites(v, d, n) = OrDelete(t, i)
  BY DEF CreateWrites, CreateAs
<1>3. NewFile(v, d, n) = OrFail(r, i).vol
  BY <1>1 DEF NewFile, OrFail, Fail, Result
<1> DEFINE u == c.vol
<1>4. r = add_directory_entry(u, d, n, i)
  OBVIOUS
<1>5. Mirrors(v, s, u)
  BY <1>1
<1> HIDE DEF u, r, s, i, c
<1>6. Matches(v, t, r)
  BY <1>1, <1>4, <1>5, AddEntryMatches
<1> HIDE DEF t
<1>7. Matches(v, OrDelete(t, i), OrFail(r, i))
  BY <1>6, OrDeleteMatches
<1> QED BY <1>2, <1>3, <1>7 DEF Matches

LEMMA FreeBlockFound ==
  ASSUME NEW v, NEW u, u.bmap = v.bmap
  PROVE  allocate_block(u).ret = allocate_block(v).ret
<1>1. \A x : allocate_block(x).ret = IF Blocks \ x.bmap = {} THEN 0 ELSE Min(Blocks \ x.bmap)
  BY DEF allocate_block, Result
<1> QED BY <1>1

\* The entries of a new directory and its name, once its block is attached.
LEMMA FilledMatches ==
  ASSUME NEW v \in Volumes, NEW t, NEW u, Mirrors(v, t, u), t.ret = 0,
         NEW i \in 1 .. MaxInodes, NEW d \in 1 .. MaxInodes, NEW n \in AnyName
  PROVE  Matches(v, OrDelete(AddEntry(AddEntry(AddEntry(t, i, Dot, i), i, DotDot, d), d, n, i), i),
                 OrFail(AddAfter(create_dot_entries(u, i, d), d, n, i), i))
<1> DEFINE t1 == AddEntry(t, i, Dot, i)
           t2 == AddEntry(t1, i, DotDot, d)
           t3 == AddEntry(t2, d, n, i)
           r1 == add_directory_entry(u, i, Dot, i)
           r2 == AddAfter(r1, i, DotDot, d)
           r3 == AddAfter(r2, d, n, i)
<1>0. Dot \in AnyName /\ DotDot \in AnyName
  BY DEF AnyName
<1>1. create_dot_entries(u, i, d) = r2
  BY DEF create_dot_entries
<1>2. Matches(v, t1, r1)
  BY <1>0, AddEntryMatches
<1> HIDE DEF t1, r1
<1>3. Matches(v, t2, r2)
  BY <1>0, <1>2, AddAfterMatches
<1> HIDE DEF t2, r2
<1>4. Matches(v, t3, r3)
  BY <1>3, AddAfterMatches
<1>5. r3 = AddAfter(create_dot_entries(u, i, d), d, n, i)
  BY <1>1
<1> HIDE DEF t3, r3
<1>6. Matches(v, OrDelete(t3, i), OrFail(r3, i))
  BY <1>4, OrDeleteMatches
<1> QED BY <1>5, <1>6 DEF t3, t2, t1

LEMMA FillDirectoryMatches ==
  ASSUME NEW v \in Volumes, NEW t, NEW u, Mirrors(v, t, u), t.ret = 0,
         NEW i \in 1 .. MaxInodes, NEW d \in 1 .. MaxInodes, NEW n \in AnyName
  PROVE  Matches(v, MkdirAs(t, d, n, i, allocate_block(t.vol).ret),
                 FillDirectory(i, allocate_block(u), d, n))
<1> DEFINE b == allocate_block(t.vol).ret
           a == allocate_block(u)
           x == Do(t, BlockBit(b, TRUE))
           y == Attach(x, i, 0, b)
           w == set_inode_block(a.vol, i, 0, b)
<1>1. /\ a.ret = b
      /\ b = 0 => a.vol = u
      /\ b # 0 => b \in Blocks /\ Mirrors(v, x, a.vol)
  BY AllocateBlockMirrors
<1>2. x.ret = 0
  BY DEF Do
<1> HIDE DEF b, a, x
<1>3. CASE b = 0
  <2>1. MkdirAs(t, d, n, i, b) = Failed(DeleteInode(t, i))
    BY <1>3 DEF MkdirAs
  <2>2. FillDirectory(i, a, d, n) = Fail(delete_inode(u, i))
    BY <1>1, <1>3 DEF FillDirectory
  <2> DEFINE t1 == DeleteInode(t, i)
             u1 == delete_inode(u, i)
  <2>3. Mirrors(v, t1, u1)
    BY DeleteInodeMirrors
  <2> HIDE DEF t1, u1
  <2>4. Matches(v, Failed(t1), Fail(u1))
    BY <2>3, FailMatches
  <2> QED BY <2>1, <2>2, <2>4 DEF t1, u1, a, b
<1>4. CASE b # 0
  <2>1. 0 \in Index
    BY VolumeAssumption DEF Index
  <2>2. Mirrors(v, y, w) /\ y.ret = 0
    <3> DEFINE u1 == a.vol
    <3>1. Mirrors(v, x, u1) /\ b \in Blocks
      BY <1>1, <1>4
    <3> HIDE DEF u1
    <3>2. Mirrors(v, y, set_inode_block(u1, i, 0, b)) /\ y.ret = 0
      BY <1>2, <2>1, <3>1, AttachMirrors
    <3> QED BY <3>2 DEF u1
  <2>3. MkdirAs(t, d, n, i, b)
          = OrDelete(AddEntry(AddEntry(AddEntry(y, i, Dot, i), i, DotDot, d), d, n, i), i)
    BY <1>4 DEF MkdirAs, x
  <2>4. FillDirectory(i, a, d, n) = OrFail(AddAfter(create_dot_entries(w, i, d), d, n, i), i)
    BY <1>1, <1>4 DEF FillDirectory, OrFail
  <2> HIDE DEF y, w
  <2>5. Matches(v, OrDelete(AddEntry(AddEntry(AddEntry(y, i, Dot, i), i, DotDot, d), d, n, i), i),
                OrFail(AddAfter(create_dot_entries(w, i, d), d, n, i), i))
    BY <2>2, FilledMatches
  <2> QED BY <2>3, <2>4, <2>5 DEF a, b
<1> QED BY <1>3, <1>4

LEMMA MkdirWritesMirror ==
  ASSUME NEW v \in Volumes, NEW d, NEW n \in AnyName
  PROVE  Mirrors(v, MkdirWrites(v, d, n), MakeDirectory(v, d, n).vol)
<1> DEFINE i == allocate_inode(v).ret
           c == create_inode(v, "dir")
           s == CreateInode(Trace(v), i, "dir")
<1>0. Mirrors(v, Trace(v), v)
  BY TraceMirrors
<1>1. CASE ~is_directory(v, d)
  <2>1. MkdirWrites(v, d, n) = Failed(Trace(v)) /\ MakeDirectory(v, d, n).vol = v
    BY <1>1 DEF MkdirWrites, MakeDirectory, Fail, Result
  <2> QED BY <1>0, <2>1, FailedMirrors
<1>2. CASE is_directory(v, d) /\ find_directory_entry(v, d, n) # 0
  <2>1. MkdirWrites(v, d, n) = Trace(v) /\ MakeDirectory(v, d, n).vol = v
    BY <1>2 DEF MkdirWrites, MakeDirectory, Done, Result
  <2> QED BY <1>0, <2>1
<1>3. CASE is_directory(v, d) /\ find_directory_entry(v, d, n) = 0
  <2>1. /\ c.ret = i /\ i \in 1 .. MaxInodes /\ Mirrors(v, s, c.vol) /\ s.ret = 0
        /\ c.vol.bmap = v.bmap
    BY CreateInodeMirrors
  <2>2. d \in 1 .. MaxInodes
    BY <1>3, VolumeAssumption DEF is_directory, IsType, Inodes
  <2> HIDE DEF s, c, i
  <2>3. allocate_block(s.vol).ret = allocate_block(v).ret
    BY <2>1, FreeBlockFound DEF Mirrors, Same
  <2>4. MkdirWrites(v, d, n) = MkdirAs(s, d, n, i, allocate_block(v).ret)
    BY <1>3 DEF MkdirWrites, s, i
  <2>5. MakeDirectory(v, d, n) = FillDirectory(i, allocate_block(c.vol), d, n)
    BY <1>3, <2>1 DEF MakeDirectory, c
  <2> DEFINE u == c.vol
  <2>6. Mirrors(v, s, u)
    BY <2>1
  <2> HIDE DEF u
  <2>7. Matches(v, MkdirAs(s, d, n, i, allocate_block(s.vol).ret), FillDirectory(i, allocate_block(u), d, n))
    BY <2>1, <2>2, <2>6, FillDirectoryMatches
  <2> QED BY <2>3, <2>4, <2>5, <2>7 DEF Matches, u
<1> QED BY <1>1, <1>2, <1>3
----------------------------------------------------------------------------
(* Writes to a file, write by write *)

LEMMA MaxOfTwo ==
  ASSUME NEW a \in Nat, NEW b \in Nat
  PROVE  Max({a, b}) = IF b <= a THEN a ELSE b
<1> DEFINE c == IF b <= a THEN a ELSE b
<1>1. c \in {a, b} /\ \A y \in {a, b} : c >= y
  OBVIOUS
<1>2. \A x \in {a, b} : (\A y \in {a, b} : x >= y) => x = c
  OBVIOUS
<1> HIDE DEF c
<1>3. Max({a, b}) = c
  BY <1>1, <1>2 DEF Max
<1> QED BY <1>3 DEF c

\* The block written to, allocated and attached or there already.
LEMMA WriteAtMirrors ==
  ASSUME NEW v \in Volumes, NEW i \in Inodes, NEW k \in Index, NEW off, NEW d
  PROVE  LET a == BlockFor(v, i, k)
             t == WriteAt(Trace(v), i, k, a.ret, off, d)
         IN  /\ Mirrors(v, t, a.vol) /\ a.ret \in Blocks \cup {0}
             /\ t.ret = IF a.ret = 0 THEN -1 ELSE 0
<1> DEFINE s == Trace(v)
           g == get_inode_block(v, i, k)
           a == allocate_block(v)
<1>1. Mirrors(v, s, v) /\ s.ret = 0 /\ s.vol = v
  BY TraceMirrors DEF Trace
<1>2. g \in Blocks \cup {0} /\ g = get_inode_block(s.vol, i, k)
  BY <1>1, PointerType
<1>3. /\ a.ret = 0 => a.vol = v
      /\ a.ret # 0 => a.ret \in Blocks /\ Mirrors(v, Do(s, BlockBit(a.ret, TRUE)), a.vol)
  <2> DEFINE b == allocate_block(s.vol).ret
  <2>1. a.ret = b /\ b = allocate_block(s.vol).ret
    BY <1>1
  <2>2. a.ret = 0 => a.vol = v
    BY AllocateBlockType
  <2> HIDE DEF s, b
  <2>3. b # 0 => b \in Blocks /\ Mirrors(v, Do(s, BlockBit(b, TRUE)), allocate_block(v).vol)
    BY <1>1, <2>1, AllocateBlockMirrors, Zenon
  <2> QED BY <2>1, <2>2, <2>3, Zenon
<1>4. WriteAt(s, i, k, 0, off, d) = Failed(s)
  BY DEF WriteAt
<1>5. \A b : b # 0 => WriteAt(s, i, k, b, off, d) =
               IF g = 0 THEN Attach(Do(s, BlockBit(b, TRUE)), i, k, b) ELSE s
  BY <1>2 DEF WriteAt
<1>6. /\ g # 0 => BlockFor(v, i, k).vol = v /\ BlockFor(v, i, k).ret = g
      /\ g = 0 /\ a.ret = 0 => BlockFor(v, i, k).vol = a.vol /\ BlockFor(v, i, k).ret = 0
      /\ g = 0 /\ a.ret # 0 => /\ BlockFor(v, i, k).vol = set_inode_block(a.vol, i, k, a.ret)
                               /\ BlockFor(v, i, k).ret = a.ret
  BY DEF BlockFor, Attached, Result
<1> HIDE DEF g, a, s
<1>7. CASE g # 0
  <2>1. BlockFor(v, i, k).vol = v /\ BlockFor(v, i, k).ret = g /\ WriteAt(s, i, k, g, off, d) = s
    BY <1>5, <1>6, <1>7
  <2> QED BY <1>1, <1>2, <1>7, <2>1 DEF s
<1>8. CASE g = 0 /\ a.ret = 0
  <2>1. BlockFor(v, i, k).vol = v /\ BlockFor(v, i, k).ret = 0
    BY <1>3, <1>6, <1>8
  <2>2. Mirrors(v, Failed(s), v) /\ Failed(s).ret = -1
    BY <1>1, FailedMirrors
  <2> QED BY <1>4, <2>1, <2>2 DEF s
<1>9. CASE g = 0 /\ a.ret # 0
  <2> DEFINE b == a.ret
             u == a.vol
             x == Do(s, BlockBit(b, TRUE))
  <2>1. BlockFor(v, i, k).vol = set_inode_block(u, i, k, b) /\ BlockFor(v, i, k).ret = b
    BY <1>6, <1>9
  <2>2. Mirrors(v, x, u) /\ b \in Blocks /\ b # 0
    BY <1>3, <1>9
  <2>3. x.ret = 0
    BY DEF Do
  <2>4. WriteAt(s, i, k, b, off, d) = Attach(x, i, k, b)
    <3>1. WriteAt(s, i, k, b, off, d) = IF g = 0 THEN Attach(x, i, k, b) ELSE s
      BY <1>5, <1>9, Zenon
    <3> HIDE DEF b, x
    <3> QED BY <1>9, <3>1
  <2> HIDE DEF b, u, x
  <2>5. Mirrors(v, Attach(x, i, k, b), set_inode_block(u, i, k, b)) /\ Attach(x, i, k, b).ret = 0
    BY <2>2, <2>3, AttachMirrors
  <2> QED BY <2>1, <2>2, <2>4, <2>5 DEF s
<1> QED BY <1>7, <1>8, <1>9

\* The text written from word pos on, to the end of the block.
Filled(v, b, pos, d) == [s \in Slot |-> IF s > pos THEN Text(d) ELSE v.blk[b][s]]

LEMMA FillMirrors ==
  ASSUME NEW v \in Volumes, NEW t, NEW u, Mirrors(v, t, u), NEW b \in Blocks \cup {0},
         t.ret = IF b = 0 THEN -1 ELSE 0, NEW pos, NEW d \in Data
  PROVE  IF b = 0 \/ ~Readable(u, b)
         THEN Mirrors(v, Fill(t, b, pos, d), u) /\ Fill(t, b, pos, d).ret = -1
         ELSE /\ Mirrors(v, Fill(t, b, pos, d), write_block(u, b, Filled(u, b, pos, d)))
              /\ Fill(t, b, pos, d).ret = 0
<1>1. /\ t.vol.blk = u.blk /\ t.vol.end = u.end /\ t.vol \in Volumes /\ u \in Volumes
  BY DEF Mirrors, Same, Traces
<1>2. Readable(t.vol, b) <=> Readable(u, b)
  BY <1>1 DEF Readable
<1>3. CASE b = 0 \/ ~Readable(u, b)
  <2>1. Fill(t, b, pos, d) = Failed(t)
    BY <1>2, <1>3 DEF Fill
  <2> QED BY <1>3, <2>1, FailedMirrors
<1>4. CASE b # 0 /\ Readable(u, b)
  <2> DEFINE words == Filled(u, b, pos, d)
  <2>1. words \in [Slot -> Word] /\ b \in Blocks
    BY <1>1, <1>4 DEF Filled, Volumes, Text, Word
  <2>2. Fill(t, b, pos, d) = Do(t, BlockOf(b, words))
    BY <1>1, <1>2, <1>4 DEF Fill, Filled
  <2> HIDE DEF words
  <2>3. Mirrors(v, Do(t, BlockOf(b, words)), write_block(u, b, words)) /\ Do(t, BlockOf(b, words)).ret = 0
    BY <2>1, BlockMirrors
  <2> QED BY <1>4, <2>2, <2>3 DEF words
<1> QED BY <1>3, <1>4

\* The size a write leaves, when it is larger than before.
LEMMA ExtendMirrors ==
  ASSUME NEW v \in Volumes, NEW t, NEW u, Mirrors(v, t, u), t.ret = 0,
         NEW i \in Inodes, NEW n \in 0 .. MaxFileWords
  PROVE  Mirrors(v, Extend(t, i, n), [u EXCEPT !.itab[i].size = Max({@, n})])
<1> DEFINE old == u.itab[i].size
           x   == [u EXCEPT !.itab[i].size = Max({@, n})]
<1>1. t.vol.itab = u.itab /\ u \in Volumes
  BY DEF Mirrors, Same
<1>2. u.itab[i] \in Inode /\ old \in Nat /\ n \in Nat
  BY <1>1, MaxFileWordsType DEF Volumes, Inode
<1>3. x = WithInode(u, i, WithSize(u.itab[i], Max({old, n})))
  BY DEF WithInode, WithSize
<1>4. Max({old, n}) = IF n <= old THEN old ELSE n
  BY <1>2, MaxOfTwo
<1>5. CASE n <= old
  <2>1. Extend(t, i, n) = t
    BY <1>1, <1>5 DEF Extend
  <2>2. WithSize(u.itab[i], old) = u.itab[i]
    BY <1>2 DEF WithSize, Inode
  <2>3. WithInode(u, i, u.itab[i]) = u
    BY <1>1 DEF WithInode, Volumes
  <2>4. Max({old, n}) = old
    BY <1>4, <1>5
  <2> HIDE DEF old, x
  <2>5. x = u
    BY <1>3, <2>2, <2>3, <2>4
  <2> QED BY <2>1, <2>5 DEF x
<1>6. CASE ~ (n <= old)
  <2> DEFINE w == Size(i, n)
  <2>1. Extend(t, i, n) = Do(t, w)
    BY <1>1, <1>6 DEF Extend
  <2>2. w \in Write
    BY WriteTypes
  <2>3. Apply(u, w) = WithInode(u, i, WithSize(u.itab[i], n))
    BY ApplyIs, Zenon
  <2>4. Max({old, n}) = n
    BY <1>4, <1>6
  <2> HIDE DEF old, x, w
  <2>5. x = Apply(u, w)
    BY <1>3, <2>3, <2>4
  <2>6. Mirrors(v, Do(t, w), Apply(u, w))
    BY <2>2, DoMirrors
  <2> QED BY <2>1, <2>5, <2>6 DEF x
<1> QED BY <1>5, <1>6

\* A chunk to the end of its block.
LEMMA WholeChunkIs ==
  ASSUME NEW v, NEW i, NEW off \in Nat, NEW d
  PROVE  LET a == BlockFor(v, i, off \div Slots)
             w == WriteChunk(v, i, off, Slots, d)
         IN  IF a.ret = 0 \/ ~Readable(a.vol, a.ret) THEN w.vol = a.vol /\ w.ret = 0
             ELSE /\ w.vol = write_block(a.vol, a.ret, Filled(a.vol, a.ret, off % Slots, d))
                  /\ w.ret = Slots - (off % Slots)
<1> DEFINE pos == off % Slots
           m   == Min({Slots, Slots - pos})
           a   == BlockFor(v, i, off \div Slots)
           chunk == [s \in Slot |-> IF s \in pos + 1 .. pos + m THEN Text(d) ELSE a.vol.blk[a.ret][s]]
           w   == WriteChunk(v, i, off, Slots, d)
<1>1. pos \in 0 .. Slots - 1 /\ Slots \in Nat
  BY DivModSplit, VolumeAssumption
<1>2. w = IF a.ret = 0 \/ ~Readable(a.vol, a.ret) THEN Result(a.vol, 0)
          ELSE Result(write_block(a.vol, a.ret, chunk), m)
  BY DEF WriteChunk
<1> HIDE DEF pos, a, w
<1>3. m = Slots - pos
  <2>1. {Slots, Slots - pos} \subseteq Nat /\ Slots - pos <= Slots
    BY <1>1
  <2>2. m \in {Slots, Slots - pos} /\ m <= Slots - pos
    BY <2>1, MinIsLeast
  <2> HIDE DEF m
  <2> QED BY <1>1, <2>1, <2>2
<1> HIDE DEF m
<1>4. chunk = Filled(a.vol, a.ret, pos, d)
  <2>1. \A s \in Slot : s \in pos + 1 .. pos + m <=> s > pos
    BY <1>1, <1>3 DEF Slot
  <2> QED BY <2>1 DEF Filled
<1> HIDE DEF chunk
<1>5. IF a.ret = 0 \/ ~Readable(a.vol, a.ret) THEN w.vol = a.vol /\ w.ret = 0
      ELSE w.vol = write_block(a.vol, a.ret, chunk) /\ w.ret = m
  BY <1>2 DEF Result
<1> QED BY <1>3, <1>4, <1>5 DEF a, pos, w

LEMMA WriteWritesMirror ==
  ASSUME NEW v \in Volumes, NEW i \in Inodes, NEW off \in Nat, off < MaxFileWords, NEW d \in Data
  PROVE  LET w == WriteChunk(v, i, off, Slots, d)
         IN  Mirrors(v, WriteWrites(v, i, off, d),
                     IF w.ret = 0 THEN w.vol ELSE [w.vol EXCEPT !.itab[i].size = Max({@, off + w.ret})])
<1> DEFINE k == off \div Slots
           pos == off % Slots
           n == (k + 1) * Slots
           a == BlockFor(v, i, k)
           b == a.ret
           u == a.vol
           w == WriteChunk(v, i, off, Slots, d)
           t == WriteAt(Trace(v), i, k, b, off, d)
           f == Fill(t, b, pos, d)
<1>1. /\ k \in Index /\ pos \in 0 .. Slots - 1 /\ off = k * Slots + pos /\ k \in Nat
  BY PlaceIndex, DivModSplit
<1>2. Mirrors(v, t, u) /\ b \in Blocks \cup {0} /\ t.ret = IF b = 0 THEN -1 ELSE 0
  BY <1>1, WriteAtMirrors
<1>3. WriteWrites(v, i, off, d) = Extend(f, i, n)
  BY DEF WriteWrites, WriteTo
<1>4. IF b = 0 \/ ~Readable(u, b) THEN w.vol = u /\ w.ret = 0
      ELSE w.vol = write_block(u, b, Filled(u, b, pos, d)) /\ w.ret = Slots - pos
  BY WholeChunkIs
<1> HIDE DEF k, pos, t, u, b, w
<1>5. n \in 0 .. MaxFileWords /\ off + (Slots - pos) = n /\ Slots - pos # 0
  <2>1. k + 1 <= NDirect /\ k + 1 \in Nat
    BY <1>1, VolumeAssumption DEF Index
  <2>2. (k + 1) * Slots <= NDirect * Slots /\ (k + 1) * Slots \in Nat
    BY <2>1, VolumeAssumption, SMTT(30)
  <2>3. (k + 1) * Slots = k * Slots + Slots /\ k * Slots \in Int
    BY <1>1, VolumeAssumption
  <2> QED BY <1>1, <2>2, <2>3, VolumeAssumption DEF MaxFileWords
<1> HIDE DEF n
<1>6. IF b = 0 \/ ~Readable(u, b) THEN Mirrors(v, f, u) /\ f.ret = -1
      ELSE Mirrors(v, f, write_block(u, b, Filled(u, b, pos, d))) /\ f.ret = 0
  BY <1>2, FillMirrors
<1> HIDE DEF f
<1>7. CASE b = 0 \/ ~Readable(u, b)
  <2>1. Extend(f, i, n) = f
    BY <1>6, <1>7 DEF Extend
  <2> QED BY <1>3, <1>4, <1>6, <1>7, <2>1 DEF w
<1>8. CASE ~ (b = 0 \/ ~Readable(u, b))
  <2> DEFINE x == w.vol
  <2>1. Mirrors(v, f, x) /\ f.ret = 0 /\ w.ret = Slots - pos
    BY <1>4, <1>6, <1>8
  <2> HIDE DEF x
  <2>2. Mirrors(v, Extend(f, i, n), [x EXCEPT !.itab[i].size = Max({@, n})])
    BY <1>5, <2>1, ExtendMirrors
  <2>3. w.ret # 0 /\ off + w.ret = n
    BY <1>5, <2>1
  <2> QED BY <1>3, <2>2, <2>3 DEF x, w
<1> QED BY <1>7, <1>8
----------------------------------------------------------------------------
(* Paths *)

ResolvedTo(v, start, comps) ==
  CHOOSE at : at = [k \in 0 .. Len(comps) |->
    IF k = 0 THEN start ELSE find_directory_entry(v, at[k - 1], comps[k])]

LEMMA ResolveSteps ==
  ASSUME NEW v \in Volumes, NEW S, NEW comps \in Seq(S)
  PROVE  /\ Resolve(v, RootIno, comps) = ResolvedTo(v, RootIno, comps)[Len(comps)]
         /\ ResolvedTo(v, RootIno, comps)[0] = RootIno
         /\ \A k \in 1 .. Len(comps) : ResolvedTo(v, RootIno, comps)[k] =
              find_directory_entry(v, ResolvedTo(v, RootIno, comps)[k - 1], comps[k])
<1> DEFINE m == Len(comps)
           X == 0 .. MaxInodes
           d == ResolvedTo(v, RootIno, comps)
           g == [q \in X \X (1 .. m) |-> find_directory_entry(v, q[1], comps[q[2]])]
<1>1. m \in Nat /\ RootIno \in X
  BY VolumeAssumption DEF RootIno
<1>2. g \in [X \X (1 .. m) -> X]
  BY FindTypeIn
<1>3. \A x \in X, n \in 1 .. m : g[<<x, n>>] = find_directory_entry(v, x, comps[n])
  OBVIOUS
<1> HIDE DEF g, m, X
<1>4. PICK f \in [0 .. m -> X] : Recurs(f, m, RootIno, g)
  BY <1>1, <1>2, RecursionExists
<1>5. f = [n \in 0 .. m |-> IF n = 0 THEN RootIno ELSE find_directory_entry(v, f[n - 1], comps[n])]
  <2>1. ASSUME NEW n \in 0 .. m, n # 0
        PROVE  g[<<f[n - 1], n>>] = find_directory_entry(v, f[n - 1], comps[n])
    <3>1. n \in 1 .. m /\ n - 1 \in 0 .. m
      BY <1>1, <2>1
    <3> QED BY <1>3, <3>1
  <2> QED BY <1>4, <2>1 DEF Recurs
<1>6. d = [n \in 0 .. m |-> IF n = 0 THEN RootIno ELSE find_directory_entry(v, d[n - 1], comps[n])]
  BY <1>5 DEF ResolvedTo, m
<1> HIDE DEF d
<1>7. d[0] = RootIno /\ \A n \in 1 .. m : d[n] = find_directory_entry(v, d[n - 1], comps[n])
  <2>1. 0 \in 0 .. m /\ \A n \in 1 .. m : n \in 0 .. m /\ n # 0
    BY <1>1
  <2> QED BY <1>6, <2>1
<1>8. Resolve(v, RootIno, comps) = d[m]
  BY DEF Resolve, d, ResolvedTo, m
<1> QED BY <1>7, <1>8 DEF d, m

\* A path leads to what its last name is in the directory before it.
LEMMA NodeIsFound ==
  ASSUME NEW v \in Volumes, NEW p \in Seq(Names), p # <<>>
  PROVE  NodeIn(v, p) = find_directory_entry(v, ParentIn(v, p), Last(p))
<1> DEFINE m == Len(p) - 1
           q == Front(p)
           d == ResolvedTo(v, RootIno, p)
           e == ResolvedTo(v, RootIno, q)
           S == {k \in 0 .. m : e[k] = d[k]}
<1>1. m \in Nat /\ Len(p) = m + 1 /\ Last(p) = p[m + 1]
  BY DEF Last
<1>2. q \in Seq(Names) /\ Len(q) = m /\ \A k \in 1 .. m : q[k] = p[k]
  <2>1. q = SubSeq(p, 1, m)
    BY DEF Front
  <2>2. 1 \in Int /\ m \in Int /\ \A k \in 1 .. m : p[k] \in Names
    BY <1>1
  <2> HIDE DEF q, m
  <2>3. /\ SubSeq(p, 1, m) \in Seq(Names)
        /\ Len(SubSeq(p, 1, m)) = IF 1 <= m THEN m - 1 + 1 ELSE 0
        /\ \A k \in 1 .. m - 1 + 1 : SubSeq(p, 1, m)[k] = p[1 + k - 1]
    BY <2>2, SubSeqProperties
  <2>4. m - 1 + 1 = m /\ (~ (1 <= m) => m = 0) /\ \A k \in 1 .. m : 1 + k - 1 = k
    BY <1>1
  <2> QED BY <2>1, <2>3, <2>4
<1>3. /\ NodeIn(v, p) = d[m + 1] /\ d[0] = RootIno
      /\ \A k \in 1 .. m + 1 : d[k] = find_directory_entry(v, d[k - 1], p[k])
  BY <1>1, ResolveSteps DEF NodeIn
<1> HIDE DEF q
<1>4. /\ Resolve(v, RootIno, q) = e[m] /\ e[0] = RootIno
      /\ \A k \in 1 .. m : e[k] = find_directory_entry(v, e[k - 1], q[k])
  BY <1>2, ResolveSteps
<1> HIDE DEF d, e, m
<1>5. 0 \in S
  BY <1>1, <1>3, <1>4
<1>6. ASSUME NEW k \in 0 .. m - 1, k \in S PROVE k + 1 \in S
  <2>1. k + 1 \in 1 .. m /\ k + 1 \in 1 .. m + 1 /\ k + 1 \in 0 .. m /\ (k + 1) - 1 = k
    BY <1>1
  <2>2. /\ e[k + 1] = find_directory_entry(v, e[k], q[k + 1])
        /\ d[k + 1] = find_directory_entry(v, d[k], p[k + 1]) /\ q[k + 1] = p[k + 1]
    BY <1>2, <1>3, <1>4, <2>1
  <2> QED BY <1>6, <2>1, <2>2
<1> HIDE DEF S
<1>7. m \in S
  <2>1. m \in 0 .. m
    BY <1>1
  <2> QED BY <1>1, <1>5, <1>6, <2>1, Induction
<1>8. e[m] = d[m]
  BY <1>7 DEF S
<1>9. m + 1 \in 1 .. m + 1 /\ (m + 1) - 1 = m
  BY <1>1
<1> QED BY <1>1, <1>3, <1>4, <1>8, <1>9 DEF ParentIn, q

\* An inode of the table that a path leads to has an entry.
LEMMA NodeHasPlace ==
  ASSUME NEW v \in Volumes, NEW p \in Seq(Names), p # <<>>, NodeIn(v, p) \in Inodes
  PROVE  /\ Locate(v, ParentIn(v, p), Last(p)).block # 0
         /\ Last(p) \in AnyName
<1>1. find_directory_entry(v, ParentIn(v, p), Last(p)) # 0
  BY NodeIsFound, VolumeAssumption DEF Inodes
<1>2. Last(p) \in AnyName
  BY DEF Last, AnyName
<1> QED BY <1>1, <1>2 DEF find_directory_entry, FoundIno
----------------------------------------------------------------------------
(* The commands *)

LEMMA PathTypes ==
  /\ \A p \in FilePaths : p \in Seq(Names) /\ p # <<>>
  /\ \A p \in DirPaths : p \in Seq(Names) /\ p # <<>>
  /\ \A p \in WritePaths : p \in Seq(Names) /\ p # <<>>
  /\ \A p \in Seq(Names) : p # <<>> => Last(p) \in AnyName
<1>1. ASSUME NEW p \in Seq(Names), p # <<>> PROVE Last(p) \in AnyName
  BY <1>1 DEF Last, AnyName
<1> QED BY <1>1, WritesAssumption

LEMMA CreateMirrors ==
  ASSUME NEW v \in Volumes, NEW p \in FilePaths
  PROVE  Mirrors(v, CreateWrites(v, ParentIn(v, p), Last(p)), NewFile(v, ParentIn(v, p), Last(p)))
BY PathTypes, CreateWritesMirror

LEMMA MkdirMirrors ==
  ASSUME NEW v \in Volumes, NEW p \in DirPaths
  PROVE  Mirrors(v, MkdirWrites(v, ParentIn(v, p), Last(p)),
                 MakeDirectory(v, ParentIn(v, p), Last(p)).vol)
BY PathTypes, MkdirWritesMirror

LEMMA RemoveMirrors ==
  ASSUME NEW v \in Volumes, NEW p \in FilePaths \cup DirPaths, NodeIn(v, p) \in Inodes
  PROVE  Mirrors(v, RemoveWrites(v, Locate(v, ParentIn(v, p), Last(p)), NodeIn(v, p)),
                 delete_inode(remove_directory_entry(v, ParentIn(v, p), Last(p)).vol, NodeIn(v, p)))
<1>1. p \in Seq(Names) /\ p # <<>>
  BY PathTypes
<1>2. /\ NodeIn(v, p) = find_directory_entry(v, ParentIn(v, p), Last(p))
      /\ Locate(v, ParentIn(v, p), Last(p)).block # 0
  BY <1>1, NodeIsFound, NodeHasPlace
<1> QED BY <1>2, RemoveWritesMirror

LEMMA DeleteDirectoryIs ==
  ASSUME NEW v, NEW p, delete_directory(v, RootIno, [abs |-> TRUE, comps |-> p]).ret = 0
  PROVE  /\ NodeIn(v, p) \in Inodes
         /\ delete_directory(v, RootIno, [abs |-> TRUE, comps |-> p]).vol =
              delete_inode(remove_directory_entry(v, ParentIn(v, p), Last(p)).vol, NodeIn(v, p))
<1> DEFINE path == [abs |-> TRUE, comps |-> p]
           i == NodeIn(v, p)
           d == ParentIn(v, p)
           r == remove_directory_entry(v, d, Last(p))
<1>1. path_to_inode(v, RootIno, path) = i /\ get_parent_inode(v, RootIno, path) = d /\ path.comps = p
  BY DEF path_to_inode, get_parent_inode, StartOf, NodeIn, ParentIn
<1> HIDE DEF path, i, d
<1>2. delete_directory(v, RootIno, path) =
        IF ~is_directory(v, i) \/ EntryCount(v, i) > 2 \/ d = 0 \/ r.ret = -1 THEN Fail(v)
        ELSE Done(delete_inode(r.vol, i))
  BY <1>1 DEF delete_directory
<1>3. Fail(v).ret = -1
  BY DEF Fail, Result
<1>4. delete_directory(v, RootIno, path).ret = 0
  BY DEF path
<1>5. is_directory(v, i) /\ delete_directory(v, RootIno, path) = Done(delete_inode(r.vol, i))
  BY <1>2, <1>3, <1>4
<1>6. i \in Inodes /\ delete_directory(v, RootIno, path).vol = delete_inode(r.vol, i)
  BY <1>5 DEF is_directory, IsType, Done, Result
<1> QED BY <1>6 DEF path, i, d

LEMMA MirrorsAgree == ASSUME vol \in Volumes, NEW t, NEW u, Mirrors(vol, t, u) PROVE Agrees(t, u)
BY DEF Mirrors, Same, Agrees, OnImage

LEMMA LogType == ASSUME NEW v, NEW t, NEW u, Mirrors(v, t, u) PROVE t.log \in Seq(Write)
BY DEF Mirrors, Traces

----------------------------------------------------------------------------
(* The type invariant *)

LEMMA InitType == Init => TypeOK
<1>1. FormattedVolume \in Volumes
  BY FormattedVolumeOK DEF VolOK
<1>2. <<>> \in Seq(Write) /\ 0 \in 0 .. MaxKills
  BY WritesAssumption
<1> QED BY <1>1, <1>2 DEF Init, TypeOK

LEMMA StepType == TypeOK /\ [Next]_vars => TypeOK'
<1> SUFFICES ASSUME TypeOK, [Next]_vars PROVE TypeOK'
  OBVIOUS
<1>0. vol \in Volumes /\ pending \in Seq(Write) /\ target \in Inodes \cup {0} /\ kills \in 0 .. MaxKills
  BY DEF TypeOK
<1>1. ASSUME NEW t, NEW i \in Inodes \cup {0}, NEW u, Mirrors(vol, t, u), Start(t, i) PROVE TypeOK'
  BY <1>0, <1>1, LogType DEF Start, TypeOK
<1>2. CASE Create
  <2>1. PICK p \in FilePaths : Start(CreateWrites(vol, ParentIn(vol, p), Last(p)), 0)
    BY <1>2 DEF Create
  <2> QED BY <1>0, <1>1, <2>1, CreateMirrors
<1>3. CASE Delete
  <2>1. PICK p \in FilePaths :
          /\ NodeIn(vol, p) \in Inodes
          /\ Start(RemoveWrites(vol, Locate(vol, ParentIn(vol, p), Last(p)), NodeIn(vol, p)), 0)
    BY <1>3 DEF Delete
  <2> QED BY <1>0, <1>1, <2>1, RemoveMirrors
<1>4. CASE Mkdir
  <2>1. PICK p \in DirPaths : Start(MkdirWrites(vol, ParentIn(vol, p), Last(p)), 0)
    BY <1>4 DEF Mkdir
  <2> QED BY <1>0, <1>1, <2>1, MkdirMirrors
<1>5. CASE Rmdir
  <2>1. PICK p \in DirPaths :
          /\ NodeIn(vol, p) \in Inodes
          /\ Start(RemoveWrites(vol, Locate(vol, ParentIn(vol, p), Last(p)), NodeIn(vol, p)), 0)
    BY <1>5 DEF Rmdir, is_directory, IsType
  <2> QED BY <1>0, <1>1, <2>1, RemoveMirrors
<1>6. CASE WriteFile
  <2>1. PICK p \in WritePaths, d \in Data :
          /\ is_regular_file(vol, NodeIn(vol, p))
          /\ \E off \in 0 .. vol.itab[NodeIn(vol, p)].size :
               off < MaxFileWords /\ Start(WriteWrites(vol, NodeIn(vol, p), off, d), NodeIn(vol, p))
    BY <1>6 DEF WriteFile
  <2>2. PICK off \in 0 .. vol.itab[NodeIn(vol, p)].size :
          off < MaxFileWords /\ Start(WriteWrites(vol, NodeIn(vol, p), off, d), NodeIn(vol, p))
    BY <2>1
  <2> DEFINE i == NodeIn(vol, p)
             t == WriteWrites(vol, i, off, d)
             w == WriteChunk(vol, i, off, Slots, d)
             u == IF w.ret = 0 THEN w.vol ELSE [w.vol EXCEPT !.itab[i].size = Max({@, off + w.ret})]
  <2>3. i \in Inodes /\ off \in Nat
    BY <2>1 DEF is_regular_file, IsType
  <2>4. Mirrors(vol, t, u)
    <3> HIDE DEF i
    <3> QED BY <1>0, <2>2, <2>3, WriteWritesMirror
  <2>5. Start(t, i)
    BY <2>2
  <2> HIDE DEF i, t, u
  <2> QED BY <1>1, <2>3, <2>4, <2>5
<1>7. CASE Step
  <2>1. Head(pending) \in Write /\ Tail(pending) \in Seq(Write)
    BY <1>0, <1>7, HeadTailProperties DEF Step
  <2> QED BY <1>0, <1>7, <2>1, ApplyType DEF Step, TypeOK
<1>8. CASE Kill
  <2>1. <<>> \in Seq(Write) /\ kills + 1 \in 0 .. MaxKills
    BY <1>0, <1>8, WritesAssumption DEF Kill
  <2> QED BY <1>0, <1>8, <2>1 DEF Kill, TypeOK
<1>9. CASE UNCHANGED vars
  BY <1>0, <1>9 DEF vars, TypeOK
<1> QED BY <1>2, <1>3, <1>4, <1>5, <1>6, <1>7, <1>8, <1>9 DEF Next

\* Every write a command has still to do is one of a bitmap, an inode or a block
\* of the image, and the image stays one, wherever a kill stops the command.
THEOREM WritesTypes == Spec => []TypeOK
<1> QED BY InitType, StepType, PTL DEF Spec

----------------------------------------------------------------------------
(* The writes add up *)

LEMMA AddsUp == TypeOK => WritesAddUp
<1> SUFFICES ASSUME TypeOK PROVE WritesAddUp
  OBVIOUS
<1>0. vol \in Volumes
  BY DEF TypeOK
<1>1. ASSUME NEW p \in FilePaths
      PROVE  Agrees(CreateWrites(vol, ParentIn(vol, p), Last(p)), NewFile(vol, ParentIn(vol, p), Last(p)))
  BY <1>0, CreateMirrors, MirrorsAgree
<1>2. ASSUME NEW p \in FilePaths, is_regular_file(vol, NodeIn(vol, p))
      PROVE  Agrees(RemoveWrites(vol, Locate(vol, ParentIn(vol, p), Last(p)), NodeIn(vol, p)),
                    delete_inode(remove_directory_entry(vol, ParentIn(vol, p), Last(p)).vol, NodeIn(vol, p)))
  <2>1. NodeIn(vol, p) \in Inodes
    BY <1>2 DEF is_regular_file, IsType
  <2> QED BY <1>0, <2>1, RemoveMirrors, MirrorsAgree
<1>3. ASSUME NEW p \in DirPaths
      PROVE  Agrees(MkdirWrites(vol, ParentIn(vol, p), Last(p)),
                    MakeDirectory(vol, ParentIn(vol, p), Last(p)).vol)
  BY <1>0, MkdirMirrors, MirrorsAgree
<1>4. ASSUME NEW p \in DirPaths, NEW r \in {delete_directory(vol, RootIno, [abs |-> TRUE, comps |-> p])},
             r.ret = 0
      PROVE  Agrees(RemoveWrites(vol, Locate(vol, ParentIn(vol, p), Last(p)), NodeIn(vol, p)), r.vol)
  <2>1. /\ NodeIn(vol, p) \in Inodes
        /\ r.vol = delete_inode(remove_directory_entry(vol, ParentIn(vol, p), Last(p)).vol, NodeIn(vol, p))
    BY <1>4, DeleteDirectoryIs
  <2>2. Agrees(RemoveWrites(vol, Locate(vol, ParentIn(vol, p), Last(p)), NodeIn(vol, p)),
               delete_inode(remove_directory_entry(vol, ParentIn(vol, p), Last(p)).vol, NodeIn(vol, p)))
    BY <1>0, <2>1, RemoveMirrors, MirrorsAgree
  <2> QED BY <2>1, <2>2
<1>5. ASSUME NEW p \in WritePaths, NEW d \in Data, is_regular_file(vol, NodeIn(vol, p)),
             NEW off \in 0 .. vol.itab[NodeIn(vol, p)].size, off < MaxFileWords,
             NEW w \in {WriteChunk(vol, NodeIn(vol, p), off, Slots, d)}
      PROVE  Agrees(WriteWrites(vol, NodeIn(vol, p), off, d),
                    IF w.ret = 0 THEN w.vol
                    ELSE [w.vol EXCEPT !.itab[NodeIn(vol, p)].size = Max({@, off + w.ret})])
  <2> DEFINE i == NodeIn(vol, p)
  <2>1. i \in Inodes
    BY <1>5 DEF is_regular_file, IsType
  <2>2. off \in Nat /\ w = WriteChunk(vol, i, off, Slots, d)
    OBVIOUS
  <2> HIDE DEF i
  <2>3. Mirrors(vol, WriteWrites(vol, i, off, d),
                IF w.ret = 0 THEN w.vol ELSE [w.vol EXCEPT !.itab[i].size = Max({@, off + w.ret})])
    BY <1>0, <1>5, <2>1, <2>2, WriteWritesMirror
  <2> QED BY <1>0, <2>3, MirrorsAgree DEF i
<1> QED BY <1>1, <1>2, <1>3, <1>4, <1>5 DEF WritesAddUp

\* The writes of a command, done to the end, are what Volume and Directory have
\* it do in one step, for all sizes of the image and in whatever state the
\* commands killed before have left it.
THEOREM WritesMakeTheCommand == Spec => []WritesAddUp
<1>1. TypeOK => WritesAddUp
  BY AddsUp
<1> QED BY <1>1, WritesTypes, PTL
----------------------------------------------------------------------------
(* What a kill may not break.  A set S of inodes is safe on a volume when   *)
(* its members own their blocks, and every entry that has a name, wherever  *)
(* it lies, leads to a member of S and lies in a directory of S that is     *)
(* read up to there.                                                        *)

IsName(w) == w.tag = "entry" /\ w.name \in Names
IsDot(w)  == w.tag = "entry" /\ w.name \in {Dot, DotDot}

\* The blocks of d up to index k are there and can be read.
Within(v, d, k) == \A l \in 0 .. k : v.itab[d].ptr[l] # 0 /\ v.itab[d].ptr[l] < v.end

InUse(v, S) ==
  /\ RootIno \in S /\ S \subseteq v.imap \ {1} /\ 1 \in v.imap
  /\ 1 .. Reserved \subseteq v.bmap
MarkedFor(v, S) ==
  \A i \in S, k \in Index : v.itab[i].ptr[k] # 0 =>
     v.itab[i].ptr[k] \in v.bmap /\ v.itab[i].ptr[k] > Reserved
SharesNone(v, S) ==
  \A i, j \in S, k, l \in Index :
     v.itab[i].ptr[k] # 0 /\ v.itab[i].ptr[k] = v.itab[j].ptr[l] => i = j /\ k = l
Owners(v, S) == InUse(v, S) /\ MarkedFor(v, S) /\ SharesNone(v, S)

NamesLead(v, S) ==
  \A b \in Blocks, s \in Slot : IsName(v.blk[b][s]) =>
     v.blk[b][s].ino \in (S \ {RootIno}) \cup {Bad}
NamesLie(v, S) ==
  \A b \in Blocks, s \in Slot : IsName(v.blk[b][s]) =>
     \E d \in S, k \in Index : /\ v.itab[d].type = "dir" /\ v.itab[d].ptr[k] = b
                               /\ Within(v, d, k)
NamesApart(v) ==
  \A b, c \in Blocks, s, t \in Slot :
     /\ IsName(v.blk[b][s]) /\ IsName(v.blk[c][t])
     /\ v.blk[b][s].ino = v.blk[c][t].ino /\ v.blk[b][s].ino # Bad
     => b = c /\ s = t
NamesIn(v, S) == NamesLead(v, S) /\ NamesLie(v, S) /\ NamesApart(v)

\* Where i has "." and "..", in other blocks than x.  A directory that has a name
\* has two such entries, so that one with two entries has no names.
Dots(v, i, x) ==
  {p \in Index \X Slot : /\ Within(v, i, p[1]) /\ v.itab[i].ptr[p[1]] # x
                         /\ IsDot(v.blk[v.itab[i].ptr[p[1]]][p[2]])}
Doubled(D) == \E p, q \in D : p # q
Dotted(v, x) ==
  \A b \in Blocks, s \in Slot :
     LET i == v.blk[b][s].ino
     IN  IsName(v.blk[b][s]) /\ i \in Inodes /\ v.itab[i].type = "dir" => Doubled(Dots(v, i, x))

\* The block x, just taken or 0, holds no name.
NoNames(v, x) == x \in Blocks => \A s \in Slot : ~IsName(v.blk[x][s])
NoHoles(v) ==
  \A i \in Inodes : \A y \in Nat : y < v.itab[i].size => v.itab[i].ptr[y \div Slots] # 0

Safe(v, S, x) ==
  /\ v \in Volumes /\ Owners(v, S) /\ NamesIn(v, S)
  /\ Dotted(v, x) /\ NoNames(v, x) /\ NoHoles(v)
Guarded(v) == \E S : Safe(v, S, 0)

\* What the members of S were and had they are and have still.
Steady(v, u, S) ==
  /\ v.end <= u.end
  /\ \A i \in S : /\ u.itab[i].type = v.itab[i].type
                  /\ \A k \in Index : v.itab[i].ptr[k] # 0 => u.itab[i].ptr[k] = v.itab[i].ptr[k]

LEMMA WithinStays ==
  ASSUME NEW v \in Volumes, NEW u \in Volumes, NEW S, Steady(v, u, S), NEW d \in S, d \in Inodes,
         NEW k \in Index, Within(v, d, k)
  PROVE  Within(u, d, k)
<1> SUFFICES ASSUME NEW l \in 0 .. k PROVE u.itab[d].ptr[l] # 0 /\ u.itab[d].ptr[l] < u.end
  BY DEF Within
<1>1. l \in Index
  BY VolumeAssumption DEF Index
<1>2. v.itab[d].ptr[l] # 0 /\ v.itab[d].ptr[l] < v.end
  BY DEF Within
<1>3. u.itab[d].ptr[l] = v.itab[d].ptr[l] /\ v.end <= u.end
  BY <1>1, <1>2 DEF Steady
<1>4. v.itab[d].ptr[l] \in Int /\ v.end \in Int /\ u.end \in Int
  BY <1>1, VolumeAssumption DEF Volumes, Inode
<1> QED BY <1>2, <1>3, <1>4

LEMMA SafeTypes ==
  ASSUME NEW v, NEW S, NEW x, Safe(v, S, x)
  PROVE  /\ v \in Volumes /\ S \subseteq Inodes /\ RootIno \in S /\ 1 \notin S
         /\ \A i \in S, k \in Index : v.itab[i].ptr[k] \in Blocks \cup {0}
<1>1. v \in Volumes /\ S \subseteq Inodes /\ RootIno \in S /\ 1 \notin S
  BY DEF Safe, Owners, InUse, Volumes
<1> QED BY <1>1, PointerType DEF get_inode_block

\* No member of S has the block b.
Unowned(v, S, b) == \A i \in S, k \in Index : v.itab[i].ptr[k] = 0 \/ v.itab[i].ptr[k] # b

LEMMA EntryWord ==
  ASSUME NEW w \in Word, w.tag = "entry"
  PROVE  w.ino \in 1 .. MaxInodes /\ w.name \in Names \cup {Dot, DotDot}
BY DEF Word, Zero

\* What it is for a place to be one of the dots.
LEMMA DotsAt ==
  ASSUME NEW v, NEW i, NEW x, NEW p
  PROVE  p \in Dots(v, i, x) <=>
           /\ p \in Index \X Slot /\ Within(v, i, p[1]) /\ v.itab[i].ptr[p[1]] # x
           /\ IsDot(v.blk[v.itab[i].ptr[p[1]]][p[2]])
BY Zenon DEF Dots

LEMMA DotsPlace ==
  ASSUME NEW v, NEW i, NEW x, NEW p \in Dots(v, i, x)
  PROVE  /\ p = <<p[1], p[2]>> /\ p[1] \in Index /\ p[2] \in Slot /\ Within(v, i, p[1])
         /\ v.itab[i].ptr[p[1]] # x /\ v.itab[i].ptr[p[1]] # 0
         /\ IsDot(v.blk[v.itab[i].ptr[p[1]]][p[2]])
<1>1. /\ p \in Index \X Slot /\ Within(v, i, p[1]) /\ v.itab[i].ptr[p[1]] # x
      /\ IsDot(v.blk[v.itab[i].ptr[p[1]]][p[2]])
  BY DotsAt
<1>2. p = <<p[1], p[2]>> /\ p[1] \in Index /\ p[2] \in Slot
  BY <1>1
<1>3. p[1] \in 0 .. p[1]
  BY <1>2 DEF Index
<1>4. v.itab[i].ptr[p[1]] # 0
  BY <1>1, <1>3 DEF Within
<1> QED BY <1>1, <1>2, <1>4

LEMMA SafeAnyway == ASSUME NEW v, NEW S, NEW x, Safe(v, S, x) PROVE Safe(v, S, 0)
<1>1. Dotted(v, 0)
  <2>1. \A i : Dots(v, i, x) \subseteq Dots(v, i, 0)
    <3> SUFFICES ASSUME NEW i, NEW p \in Dots(v, i, x) PROVE p \in Dots(v, i, 0)
      BY Zenon
    <3>1. v.itab[i].ptr[p[1]] # 0
      BY DotsPlace
    <3> QED BY <3>1, DotsAt, Zenon
  <2>2. \A i : Doubled(Dots(v, i, x)) => Doubled(Dots(v, i, 0))
    BY <2>1, Zenon DEF Doubled
  <2>3. Dotted(v, x)
    BY DEF Safe
  <2> QED BY <2>2, <2>3, Zenon DEF Dotted
<1>2. NoNames(v, 0)
  <2>1. 0 \notin Blocks
    BY VolumeAssumption DEF Blocks
  <2> QED BY <2>1 DEF NoNames
<1> QED BY <1>1, <1>2 DEF Safe

\* The places of "." and ".." stay when a block no member of S has is attached.
LEMMA DotsCarried ==
  ASSUME NEW v \in Volumes, NEW u \in Volumes, NEW S, S \subseteq Inodes, Steady(v, u, S),
         u.blk = v.blk, NEW x, Unowned(v, S, x), NEW i \in S
  PROVE  Dots(v, i, 0) \subseteq Dots(u, i, x)
<1> SUFFICES ASSUME NEW p \in Dots(v, i, 0) PROVE p \in Dots(u, i, x)
  BY Zenon
<1>1. /\ p \in Index \X Slot /\ Within(v, i, p[1]) /\ v.itab[i].ptr[p[1]] # 0
      /\ IsDot(v.blk[v.itab[i].ptr[p[1]]][p[2]])
  BY DotsAt, Zenon
<1>2. p[1] \in Index
  BY DotsPlace
<1>3. Within(u, i, p[1])
  BY <1>1, <1>2, WithinStays
<1>4. u.itab[i].ptr[p[1]] = v.itab[i].ptr[p[1]]
  BY <1>1, <1>2 DEF Steady
<1>5. u.itab[i].ptr[p[1]] # x
  BY <1>1, <1>2, <1>4 DEF Unowned
<1> QED BY <1>1, <1>3, <1>4, <1>5, DotsAt, Zenon

\* A write of a bitmap or of an inode.
LEMMA TableMoves ==
  ASSUME NEW v, NEW S, Safe(v, S, 0), NEW u \in Volumes, NEW T, S \subseteq T, Steady(v, u, S),
         u.blk = v.blk, Owners(u, T), NoHoles(u), NEW x, Unowned(v, S, x)
  PROVE  Safe(u, T, x)
<1>1. v \in Volumes /\ S \subseteq Inodes /\ T \subseteq Inodes
  BY SafeTypes DEF Owners, InUse, Volumes
<1>2. NamesLead(u, T) /\ NamesApart(u)
  BY DEF Safe, NamesIn, NamesLead, NamesApart
<1>3. NamesLie(u, T)
  <2> SUFFICES ASSUME NEW b \in Blocks, NEW s \in Slot, IsName(v.blk[b][s])
               PROVE  \E d \in T, k \in Index : /\ u.itab[d].type = "dir" /\ u.itab[d].ptr[k] = b
                                                /\ Within(u, d, k)
    BY DEF NamesLie
  <2>1. PICK d \in S, k \in Index : /\ v.itab[d].type = "dir" /\ v.itab[d].ptr[k] = b
                                    /\ Within(v, d, k)
    BY DEF Safe, NamesIn, NamesLie
  <2>2. Within(u, d, k)
    BY <1>1, <2>1, WithinStays
  <2>3. u.itab[d].type = "dir" /\ u.itab[d].ptr[k] = b
    BY <2>1, VolumeAssumption DEF Steady, Blocks
  <2> QED BY <2>2, <2>3
<1>4. Dotted(u, x)
  <2> SUFFICES ASSUME NEW b \in Blocks, NEW s \in Slot, IsName(v.blk[b][s]),
                      v.blk[b][s].ino \in Inodes, u.itab[v.blk[b][s].ino].type = "dir"
               PROVE  Doubled(Dots(u, v.blk[b][s].ino, x))
    BY DEF Dotted
  <2> DEFINE i == v.blk[b][s].ino
  <2>1. i \in S
    BY DEF Safe, NamesIn, NamesLead, Bad, Inodes
  <2>2. v.itab[i].type = "dir"
    BY <2>1 DEF Steady
  <2>3. Doubled(Dots(v, i, 0))
    BY <2>2 DEF Safe, Dotted
  <2> HIDE DEF i
  <2>4. Dots(v, i, 0) \subseteq Dots(u, i, x)
    BY <1>1, <2>1, DotsCarried
  <2> QED BY <2>3, <2>4 DEF Doubled, i
<1>5. NoNames(u, x)
  <2> SUFFICES ASSUME x \in Blocks, NEW s \in Slot, IsName(v.blk[x][s]) PROVE FALSE
    BY DEF NoNames
  <2>1. PICK d \in S, k \in Index : v.itab[d].ptr[k] = x
    BY DEF Safe, NamesIn, NamesLie
  <2> QED BY <2>1 DEF Unowned, Blocks
<1> QED BY <1>2, <1>3, <1>4, <1>5 DEF Safe, NamesIn
----------------------------------------------------------------------------
(* The images a command goes through *)

\* Inode i of u has what it had in v, and its blocks hold what they held.
Alike(v, u, i) ==
  /\ u.itab[i].size = v.itab[i].size
  /\ \A k \in Index : u.itab[i].ptr[k] = v.itab[i].ptr[k]
  /\ \A k \in Index : v.itab[i].ptr[k] # 0 => u.blk[v.itab[i].ptr[k]] = v.blk[v.itab[i].ptr[k]]

\* The regular files among S are alike, but for the one that is written.
Calm(v, u, S, g) ==
  \A i \in S : i # g /\ v.itab[i].type = "reg" /\ u.itab[i].type = "reg" => Alike(v, u, i)
Quiet(v, u, g) == Calm(v, u, Named(v) \cap Named(u), g)

\* f has the images between the writes of log, from v on.
WayBy(f, v, log, g) ==
  /\ f \in [0 .. Len(log) -> Volumes] /\ f[0] = v
  /\ \A n \in 1 .. Len(log) : f[n] = Apply(f[n - 1], log[n]) /\ Quiet(f[n - 1], f[n], g)
  /\ \A n \in 0 .. Len(log) : Guarded(f[n])
Way(v, log, g) == \E f : WayBy(f, v, log, g)

Good(v, t, S, g) ==
  t \in Traces /\ Safe(t.vol, S, 0) /\ \E f : WayBy(f, v, t.log, g) /\ f[Len(t.log)] = t.vol

LEMMA GoodTypes ==
  ASSUME NEW v, NEW t, NEW S, NEW g, Good(v, t, S, g)
  PROVE  /\ t \in Traces /\ t.vol \in Volumes /\ t.log \in Seq(Write) /\ Safe(t.vol, S, 0)
         /\ S \subseteq Inodes /\ RootIno \in S
BY SafeTypes DEF Good, Traces

LEMMA TraceGood ==
  ASSUME NEW v, NEW S, NEW g, Safe(v, S, 0)
  PROVE  Good(v, Trace(v), S, g) /\ Trace(v).ret = 0 /\ Trace(v).vol = v
<1> DEFINE f == [n \in 0 .. 0 |-> v]
<1>1. v \in Volumes /\ Guarded(v)
  BY DEF Safe, Guarded
<1>2. /\ Trace(v).vol = v /\ Trace(v).log = <<>> /\ Trace(v).ret = 0 /\ Trace(v) \in Traces
      /\ Len(<<>>) = 0
  BY <1>1 DEF Trace, Traces
<1>3. WayBy(f, v, <<>>, g) /\ f[Len(<<>>)] = v
  <2>1. /\ f \in [0 .. 0 -> Volumes] /\ f[0] = v /\ 1 .. 0 = {}
        /\ \A n \in 0 .. 0 : f[n] = v
    BY <1>1
  <2> HIDE DEF f
  <2> QED BY <1>1, <1>2, <2>1 DEF WayBy
<1> HIDE DEF f
<1> QED BY <1>2, <1>3 DEF Good

LEMMA FailedGood ==
  ASSUME NEW v, NEW t, NEW S, NEW g, Good(v, t, S, g)
  PROVE  Good(v, Failed(t), S, g) /\ Failed(t).ret = -1 /\ Failed(t).vol = t.vol
<1>1. Failed(t) \in Traces /\ Failed(t).log = t.log /\ Failed(t).vol = t.vol /\ Failed(t).ret = -1
  BY DEF Failed, Good, Traces
<1> QED BY <1>1 DEF Good

\* What names lead to is safe.
LEMMA NamedWithin ==
  ASSUME NEW v, NEW S, NEW x, Safe(v, S, x)
  PROVE  Named(v) \subseteq S
<1> DEFINE edges == {<<l[1], InoAt(v, l[1], l[2])>> : l \in Links(v)}
           X == SUBSET (1 .. MaxInodes)
           g == [q \in X \X (1 .. MaxInodes) |-> q[1] \cup {e[2] : e \in {y \in edges : y[1] \in q[1]}}]
           at == CHOOSE at : at = [n \in 0 .. MaxInodes |->
                   IF n = 0 THEN {RootIno}
                   ELSE at[n - 1] \cup {e[2] : e \in {y \in edges : y[1] \in at[n - 1]}}]
<1>1. \A e \in edges : e[2] \in S \cup {Bad}
  <2> SUFFICES ASSUME NEW l \in Links(v) PROVE InoAt(v, l[1], l[2]) \in S \cup {Bad}
    OBVIOUS
  <2>1. /\ l[1] \in Inodes /\ l[2] \in Index \X Slot /\ l[2] \in NamedPlaces(v, l[1])
    BY DEF Links, Directories, is_directory, IsType
  <2>2. PICK k \in Index, s \in Slot : l[2] = <<k, s>>
    BY <2>1
  <2> DEFINE b == get_inode_block(v, l[1], k)
  <2>3. b # 0 /\ v.blk[b][s].tag = "entry" /\ v.blk[b][s].name \notin {Dot, DotDot}
    BY <2>1, <2>2 DEF NamedPlaces
  <2>4. b \in Blocks
    BY <2>1, <2>3, PointerType DEF Safe
  <2>5. InoAt(v, l[1], l[2]) = v.blk[b][s].ino
    BY <2>2 DEF InoAt
  <2> HIDE DEF b
  <2>6. v.blk[b][s] \in Word
    BY <2>4 DEF Safe, Volumes
  <2>7. IsName(v.blk[b][s])
    BY <2>3, <2>6 DEF IsName, Word, Zero
  <2> QED BY <2>4, <2>5, <2>7 DEF Safe, NamesIn, NamesLead
<1>2. S \cup {Bad} \subseteq 1 .. MaxInodes /\ RootIno \in S /\ MaxInodes \in Nat /\ Bad \notin Inodes
  BY SafeTypes, VolumeAssumption DEF Inodes, Bad
<1>3. Named(v) = at[MaxInodes] \cap Inodes
  BY DEF Named, ReachedBy
<1> HIDE DEF edges
<1>4. g \in [X \X (1 .. MaxInodes) -> X]
  BY <1>1, <1>2
<1>5. {RootIno} \in X
  BY <1>2
<1>6. PICK h \in [0 .. MaxInodes -> X] : Recurs(h, MaxInodes, {RootIno}, g)
  <2> HIDE DEF X, g
  <2> QED BY <1>2, <1>4, <1>5, RecursionExists
<1>7. h = [n \in 0 .. MaxInodes |->
             IF n = 0 THEN {RootIno}
             ELSE h[n - 1] \cup {e[2] : e \in {y \in edges : y[1] \in h[n - 1]}}]
  <2>1. h = [n \in 0 .. MaxInodes |-> IF n = 0 THEN {RootIno} ELSE g[<<h[n - 1], n>>]]
    BY <1>6 DEF Recurs
  <2>2. ASSUME NEW n \in 0 .. MaxInodes, n # 0
        PROVE  g[<<h[n - 1], n>>] = h[n - 1] \cup {e[2] : e \in {y \in edges : y[1] \in h[n - 1]}}
    <3>1. n - 1 \in 0 .. MaxInodes /\ n \in 1 .. MaxInodes
      BY <1>2, <2>2
    <3>2. <<h[n - 1], n>> \in X \X (1 .. MaxInodes)
      BY <1>6, <3>1
    <3> QED BY <3>2
  <2> HIDE DEF g
  <2> QED BY <2>1, <2>2
<1>8. at = [n \in 0 .. MaxInodes |->
              IF n = 0 THEN {RootIno}
              ELSE at[n - 1] \cup {e[2] : e \in {y \in edges : y[1] \in at[n - 1]}}]
  BY <1>7
<1> HIDE DEF at, g, X
<1> DEFINE T == {n \in 0 .. MaxInodes : at[n] \subseteq S \cup {Bad}}
<1>9. 0 \in T
  BY <1>2, <1>8
<1>10. ASSUME NEW n \in 0 .. MaxInodes - 1, n \in T PROVE n + 1 \in T
  <2>1. n + 1 \in 0 .. MaxInodes /\ n + 1 # 0 /\ (n + 1) - 1 = n
    BY <1>2
  <2>2. at[n + 1] = at[n] \cup {e[2] : e \in {y \in edges : y[1] \in at[n]}}
    BY <1>8, <2>1
  <2> QED BY <1>1, <1>10, <2>1, <2>2
<1> HIDE DEF T
<1>11. MaxInodes \in T
  <2>1. MaxInodes \in Nat /\ MaxInodes \in 0 .. MaxInodes
    BY <1>2
  <2>2. \A n \in 0 .. MaxInodes - 1 : n \in T => n + 1 \in T
    BY <1>10
  <2> QED BY <1>9, <2>1, <2>2, Induction
<1> QED BY <1>2, <1>3, <1>11, SafeTypes DEF T

\* One more write.
LEMMA DoGood ==
  ASSUME NEW v, NEW t, NEW S, NEW g, Good(v, t, S, g), NEW w \in Write, NEW T,
         Safe(Apply(t.vol, w), T, 0), Calm(t.vol, Apply(t.vol, w), S \cap T, g)
  PROVE  Good(v, Do(t, w), T, g) /\ Do(t, w).ret = 0 /\ Do(t, w).vol = Apply(t.vol, w)
<1> DEFINE u == Apply(t.vol, w)
           m == Len(t.log)
           log == Append(t.log, w)
<1>1. t.vol \in Volumes /\ t.log \in Seq(Write) /\ m \in Nat /\ u \in Volumes
  BY GoodTypes, ApplyType
<1>2. PICK f : WayBy(f, v, t.log, g) /\ f[m] = t.vol
  BY DEF Good
<1> DEFINE h == [n \in 0 .. m + 1 |-> IF n = m + 1 THEN u ELSE f[n]]
<1>3. /\ log \in Seq(Write) /\ Len(log) = m + 1 /\ log[m + 1] = w
      /\ \A n \in 1 .. m : log[n] = t.log[n]
  BY <1>1
<1>4. /\ Do(t, w).vol = u /\ Do(t, w).log = log /\ Do(t, w).ret = 0
      /\ Do(t, w) \in Traces
  BY <1>1, <1>3 DEF Do, Traces
<1>5. Named(t.vol) \subseteq S /\ Named(u) \subseteq T
  BY GoodTypes, NamedWithin
<1>6. Quiet(t.vol, u, g) /\ Guarded(u)
  <2>1. Calm(t.vol, u, Named(t.vol) \cap Named(u), g)
    BY <1>5 DEF Calm
  <2> QED BY <2>1 DEF Quiet, Guarded
<1>7. /\ f \in [0 .. m -> Volumes] /\ f[0] = v
      /\ \A n \in 1 .. m : f[n] = Apply(f[n - 1], t.log[n]) /\ Quiet(f[n - 1], f[n], g)
      /\ \A n \in 0 .. m : Guarded(f[n])
  BY <1>2 DEF WayBy
<1>8. /\ 0 .. m + 1 = (0 .. m) \cup {m + 1} /\ m + 1 \notin 0 .. m
      /\ 1 .. m + 1 = (1 .. m) \cup {m + 1} /\ 0 \in 0 .. m /\ m \in 0 .. m
      /\ (m + 1) - 1 = m /\ \A n \in 1 .. m : n \in 0 .. m /\ n - 1 \in 0 .. m
  BY <1>1
<1> HIDE DEF u, m, log
<1>9. /\ h \in [0 .. m + 1 -> Volumes] /\ h[m + 1] = u /\ h[m] = f[m]
      /\ \A n \in 0 .. m : h[n] = f[n]
  BY <1>1, <1>7, <1>8
<1> HIDE DEF h
<1>10. u = Apply(t.vol, w)
  BY DEF u
<1>11. WayBy(h, v, log, g)
  <2>1. h[0] = v
    BY <1>7, <1>8, <1>9
  <2>2. \A n \in 1 .. m : h[n] = Apply(h[n - 1], log[n]) /\ Quiet(h[n - 1], h[n], g)
    BY <1>3, <1>7, <1>8, <1>9
  <2>3. h[m + 1] = Apply(h[m], log[m + 1]) /\ Quiet(h[m], h[m + 1], g)
    BY <1>2, <1>3, <1>6, <1>9, <1>10
  <2>4. \A n \in 0 .. m + 1 : Guarded(h[n])
    BY <1>6, <1>7, <1>8, <1>9
  <2>5. \A n \in 1 .. m + 1 : h[n] = Apply(h[n - 1], log[n]) /\ Quiet(h[n - 1], h[n], g)
    BY <1>8, <2>2, <2>3
  <2> QED BY <1>3, <1>9, <2>1, <2>4, <2>5 DEF WayBy
<1>12. h[Len(Do(t, w).log)] = Do(t, w).vol
  BY <1>3, <1>4, <1>9
<1> QED BY <1>4, <1>10, <1>11, <1>12 DEF Good, u

LEMMA TableGood ==
  ASSUME NEW v, NEW t, NEW S, NEW g, Good(v, t, S, g), NEW w \in Write, NEW T, S \subseteq T,
         NEW u, u = Apply(t.vol, w), Steady(t.vol, u, S), u.blk = t.vol.blk, Owners(u, T),
         NoHoles(u), Calm(t.vol, u, S, g)
  PROVE  /\ Good(v, Do(t, w), T, g) /\ Do(t, w).ret = 0 /\ Do(t, w).vol = u
         /\ \A x : Unowned(t.vol, S, x) => Safe(u, T, x)
<1>1. t.vol \in Volumes /\ u \in Volumes /\ Safe(t.vol, S, 0)
  BY GoodTypes, ApplyType
<1>2. \A x : Unowned(t.vol, S, x) => Safe(u, T, x)
  BY <1>1, TableMoves
<1>3. Unowned(t.vol, S, 0)
  BY DEF Unowned
<1>4. S \cap T = S
  OBVIOUS
<1> QED BY <1>2, <1>3, <1>4, DoGood

\* The bit of a block that no member of S has is set or cleared, or one is set.
LEMMA BlockBitGood ==
  ASSUME NEW v, NEW t, NEW S, NEW g, Good(v, t, S, g), NEW b \in Blocks, NEW on \in BOOLEAN,
         on \/ (Unowned(t.vol, S, b) /\ b > Reserved)
  PROVE  /\ Good(v, Do(t, BlockBit(b, on)), S, g) /\ Do(t, BlockBit(b, on)).ret = 0
         /\ Do(t, BlockBit(b, on)).vol = WithBmap(t.vol, Toggled(t.vol.bmap, b, on))
<1> DEFINE u == WithBmap(t.vol, Toggled(t.vol.bmap, b, on))
           w == BlockBit(b, on)
<1>1. t.vol \in Volumes /\ Safe(t.vol, S, 0) /\ S \subseteq Inodes
  BY GoodTypes
<1>2. w \in Write /\ u = Apply(t.vol, w)
  <2>1. w \in Write
    BY WriteTypes
  <2>2. Apply(t.vol, w) = u
    BY ApplyIs, Zenon
  <2> QED BY <2>1, <2>2
<1>3. /\ u.bmap = Toggled(t.vol.bmap, b, on) /\ u.blk = t.vol.blk /\ u.itab = t.vol.itab
      /\ u.imap = t.vol.imap /\ u.end = t.vol.end
  BY <1>1 DEF WithBmap, Volumes
<1> HIDE DEF u, w
<1>4. Owners(u, S)
  <2>1. Owners(t.vol, S)
    BY <1>1 DEF Safe
  <2>2. \A x \in t.vol.bmap : x # b \/ on => x \in u.bmap
    BY <1>3 DEF Toggled
  <2>3. b \in 1 .. Reserved => on
    BY VolumeAssumption
  <2>4. InUse(u, S)
    BY <1>3, <2>1, <2>2, <2>3 DEF Owners, InUse
  <2>5. MarkedFor(u, S)
    BY <1>3, <2>1, <2>2 DEF Owners, MarkedFor, Unowned
  <2>6. SharesNone(u, S)
    BY <1>3, <2>1 DEF Owners, SharesNone
  <2> QED BY <2>4, <2>5, <2>6 DEF Owners
<1>5. NoHoles(u) /\ Steady(t.vol, u, S) /\ Calm(t.vol, u, S, g)
  <2>1. t.vol.end \in Nat
    BY <1>1 DEF Volumes
  <2>2. NoHoles(t.vol)
    BY <1>1 DEF Safe
  <2> QED BY <1>3, <2>1, <2>2 DEF NoHoles, Steady, Calm, Alike
<1> QED BY <1>2, <1>3, <1>4, <1>5, TableGood DEF u, w

\* So is the bit of an inode.
LEMMA InodeBitGood ==
  ASSUME NEW v, NEW t, NEW S, NEW g, Good(v, t, S, g), NEW i \in Inodes, NEW on \in BOOLEAN,
         on \/ (i \notin S /\ i # 1)
  PROVE  /\ Good(v, Do(t, InodeBit(i, on)), S, g) /\ Do(t, InodeBit(i, on)).ret = 0
         /\ Do(t, InodeBit(i, on)).vol = WithImap(t.vol, Toggled(t.vol.imap, i, on))
<1> DEFINE u == WithImap(t.vol, Toggled(t.vol.imap, i, on))
           w == InodeBit(i, on)
<1>1. t.vol \in Volumes /\ Safe(t.vol, S, 0) /\ S \subseteq Inodes
  BY GoodTypes
<1>2. w \in Write /\ u = Apply(t.vol, w)
  <2>1. w \in Write
    BY WriteTypes
  <2>2. Apply(t.vol, w) = u
    BY ApplyIs, Zenon
  <2> QED BY <2>1, <2>2
<1>3. /\ u.imap = Toggled(t.vol.imap, i, on) /\ u.blk = t.vol.blk /\ u.itab = t.vol.itab
      /\ u.bmap = t.vol.bmap /\ u.end = t.vol.end
  BY <1>1 DEF WithImap, Volumes
<1> HIDE DEF u, w
<1>4. Owners(u, S)
  <2>1. Owners(t.vol, S)
    BY <1>1 DEF Safe
  <2>2. \A x \in t.vol.imap : x # i \/ on => x \in u.imap
    BY <1>3 DEF Toggled
  <2>4. InUse(u, S)
    BY <1>3, <2>1, <2>2 DEF Owners, InUse
  <2>5. MarkedFor(u, S)
    BY <1>3, <2>1 DEF Owners, MarkedFor
  <2>6. SharesNone(u, S)
    BY <1>3, <2>1 DEF Owners, SharesNone
  <2> QED BY <2>4, <2>5, <2>6 DEF Owners
<1>5. NoHoles(u) /\ Steady(t.vol, u, S) /\ Calm(t.vol, u, S, g)
  <2>1. t.vol.end \in Nat
    BY <1>1 DEF Volumes
  <2>2. NoHoles(t.vol)
    BY <1>1 DEF Safe
  <2> QED BY <1>3, <2>1, <2>2 DEF NoHoles, Steady, Calm, Alike
<1> QED BY <1>2, <1>3, <1>4, <1>5, TableGood DEF u, w

LEMMA WithInodeIs ==
  ASSUME NEW v \in Volumes, NEW i \in Inodes, NEW x, NEW u, u = WithInode(v, i, x)
  PROVE  /\ u.bmap = v.bmap /\ u.imap = v.imap /\ u.blk = v.blk /\ u.end = v.end
         /\ u.itab[i] = x /\ \A j \in Inodes \ {i} : u.itab[j] = v.itab[j]
BY DEF WithInode, Volumes

\* An inode outside S is written, with no size.
LEMMA OtherSlotGood ==
  ASSUME NEW v, NEW t, NEW S, NEW g, Good(v, t, S, g), NEW w \in Write, NEW i \in Inodes \ S,
         NEW x \in Inode, Apply(t.vol, w) = WithInode(t.vol, i, x), x.size = 0,
         NEW T, T = S \/ (T = S \cup {i} /\ i \in t.vol.imap \ {1} /\ \A k \in Index : x.ptr[k] = 0)
  PROVE  /\ Good(v, Do(t, w), T, g) /\ Do(t, w).ret = 0
         /\ Do(t, w).vol = WithInode(t.vol, i, x)
<1> DEFINE u == WithInode(t.vol, i, x)
<1>1. t.vol \in Volumes /\ Safe(t.vol, S, 0) /\ S \subseteq Inodes
  BY GoodTypes
<1>2. /\ u.bmap = t.vol.bmap /\ u.imap = t.vol.imap /\ u.blk = t.vol.blk /\ u.end = t.vol.end
      /\ u.itab[i] = x /\ \A j \in Inodes \ {i} : u.itab[j] = t.vol.itab[j]
  BY <1>1, WithInodeIs
<1>3. u = Apply(t.vol, w)
  OBVIOUS
<1> HIDE DEF u
<1>4. \A j \in S : u.itab[j] = t.vol.itab[j]
  BY <1>1, <1>2
<1>5. Owners(u, T)
  <2>1. Owners(t.vol, S)
    BY <1>1 DEF Safe
  <2>2. InUse(u, T)
    BY <1>2, <2>1 DEF Owners, InUse
  <2>3. \A j \in T : j \in S \/ \A k \in Index : u.itab[j].ptr[k] = 0
    BY <1>2
  <2>4. MarkedFor(u, T)
    BY <1>2, <1>4, <2>1, <2>3 DEF Owners, MarkedFor
  <2>5. SharesNone(u, T)
    <3> SUFFICES ASSUME NEW j \in T, NEW l \in T, NEW k \in Index, NEW m \in Index,
                        u.itab[j].ptr[k] # 0, u.itab[j].ptr[k] = u.itab[l].ptr[m]
                 PROVE  j = l /\ k = m
      BY DEF SharesNone
    <3>1. j \in S /\ l \in S
      BY <2>3
    <3> QED BY <1>4, <2>1, <3>1 DEF Owners, SharesNone
  <2> QED BY <2>2, <2>4, <2>5 DEF Owners
<1>6. NoHoles(u)
  <2> SUFFICES ASSUME NEW j \in Inodes, NEW y \in Nat, y < u.itab[j].size
               PROVE  u.itab[j].ptr[y \div Slots] # 0
    BY DEF NoHoles
  <2>1. j # i
    BY <1>2
  <2>2. u.itab[j] = t.vol.itab[j]
    BY <1>2, <2>1
  <2> QED BY <1>1, <2>2 DEF Safe, NoHoles
<1>7. Steady(t.vol, u, S) /\ Calm(t.vol, u, S, g)
  <2>1. t.vol.end \in Nat
    BY <1>1 DEF Volumes
  <2> QED BY <1>2, <1>4, <2>1 DEF Steady, Calm, Alike
<1>8. S \subseteq T
  OBVIOUS
<1> QED BY <1>2, <1>3, <1>5, <1>6, <1>7, <1>8, TableGood DEF u

\* r is good, and has come to u.
Gets(v, r, S, g, u) == Good(v, r, S, g) /\ r.ret = 0 /\ r.vol = u

LEMMA NewSlotGood ==
  ASSUME NEW v, NEW t, NEW S, NEW g, Good(v, t, S, g), NEW i \in Inodes \ S,
         i \in t.vol.imap, i # 1, NEW y \in {"reg", "dir"}
  PROVE  Gets(v, Do(t, NewSlot(i, y)), S \cup {i}, g, WithInode(t.vol, i, NewInode(y)))
<1> DEFINE w == NewSlot(i, y)
           x == NewInode(y)
           T == S \cup {i}
<1>1. w \in Write /\ x \in Inode
  BY WriteTypes, InodeTypes
<1>2. Apply(t.vol, w) = WithInode(t.vol, i, x)
  BY ApplyIs, Zenon
<1>3. x.size = 0 /\ \A k \in Index : x.ptr[k] = 0
  BY DEF NewInode
<1> HIDE DEF w, x, T
<1>4. T = S \cup {i} /\ i \in t.vol.imap \ {1}
  BY DEF T
<1>5. Good(v, Do(t, w), T, g) /\ Do(t, w).ret = 0 /\ Do(t, w).vol = WithInode(t.vol, i, x)
  BY <1>1, <1>2, <1>3, <1>4, OtherSlotGood
<1> QED BY <1>5 DEF w, x, T, Gets

LEMMA ClearSlotGood ==
  ASSUME NEW v, NEW t, NEW S, NEW g, Good(v, t, S, g), NEW i \in Inodes \ S
  PROVE  Good(v, Do(t, ClearSlot(i)), S, g)
<1> DEFINE w == ClearSlot(i)
<1>1. w \in Write /\ ZeroInode \in Inode
  BY WriteTypes, InodeTypes
<1>2. Apply(t.vol, w) = WithInode(t.vol, i, ZeroInode)
  BY ApplyIs, Zenon
<1>3. ZeroInode.size = 0
  BY DEF ZeroInode, NewInode
<1> HIDE DEF w
<1>4. Good(v, Do(t, w), S, g)
  BY <1>1, <1>2, <1>3, OtherSlotGood
<1> QED BY <1>4 DEF w

\* An inode is written that keeps its type and its blocks, and its size unless
\* it is the file that is written.
LEMMA SameSlotGood ==
  ASSUME NEW v, NEW t, NEW S, NEW g, Good(v, t, S, g), NEW w \in Write, NEW i \in Inodes,
         NEW x \in Inode, Apply(t.vol, w) = WithInode(t.vol, i, x),
         x.type = t.vol.itab[i].type, x.ptr = t.vol.itab[i].ptr,
         \/ x.size = t.vol.itab[i].size
         \/ i = g /\ \A y \in Nat : y < x.size => x.ptr[y \div Slots] # 0
  PROVE  /\ Good(v, Do(t, w), S, g) /\ Do(t, w).ret = 0
         /\ Do(t, w).vol = WithInode(t.vol, i, x)
<1> DEFINE u == WithInode(t.vol, i, x)
<1>1. t.vol \in Volumes /\ Safe(t.vol, S, 0) /\ S \subseteq Inodes
  BY GoodTypes
<1>2. /\ u.bmap = t.vol.bmap /\ u.imap = t.vol.imap /\ u.blk = t.vol.blk /\ u.end = t.vol.end
      /\ u.itab[i] = x /\ \A j \in Inodes \ {i} : u.itab[j] = t.vol.itab[j]
  BY <1>1, WithInodeIs
<1>3. u = Apply(t.vol, w)
  OBVIOUS
<1> HIDE DEF u
<1>4. \A j \in Inodes : u.itab[j].type = t.vol.itab[j].type /\ u.itab[j].ptr = t.vol.itab[j].ptr
  BY <1>2
<1>5. Owners(u, S)
  <2>1. Owners(t.vol, S)
    BY <1>1 DEF Safe
  <2>2. InUse(u, S)
    BY <1>2, <2>1 DEF Owners, InUse
  <2>3. \A j \in S : u.itab[j].ptr = t.vol.itab[j].ptr
    BY <1>1, <1>4
  <2>4. MarkedFor(u, S)
    BY <1>2, <2>1, <2>3 DEF Owners, MarkedFor
  <2>5. SharesNone(u, S)
    <3>1. SharesNone(t.vol, S)
      BY <2>1 DEF Owners
    <3> SUFFICES ASSUME NEW j \in S, NEW m \in S, NEW k \in Index, NEW l \in Index,
                        u.itab[j].ptr[k] # 0, u.itab[j].ptr[k] = u.itab[m].ptr[l]
                 PROVE  j = m /\ k = l
      BY DEF SharesNone
    <3>2. /\ u.itab[j].ptr = t.vol.itab[j].ptr
          /\ u.itab[m].ptr = t.vol.itab[m].ptr
      BY <2>3, Zenon
    <3> QED BY <3>1, <3>2 DEF SharesNone
  <2> QED BY <2>2, <2>4, <2>5 DEF Owners
<1>6. NoHoles(u)
  <2> SUFFICES ASSUME NEW j \in Inodes, NEW y \in Nat, y < u.itab[j].size
               PROVE  u.itab[j].ptr[y \div Slots] # 0
    BY DEF NoHoles
  <2> DEFINE k == y \div Slots
  <2>1. \A z \in Nat : z < t.vol.itab[j].size => t.vol.itab[j].ptr[z \div Slots] # 0
    BY <1>1 DEF Safe, NoHoles
  <2>2. y < t.vol.itab[j].size => t.vol.itab[j].ptr[k] # 0
    BY <2>1
  <2>3. j = i /\ i = g => y < x.size
    BY <1>2
  <2>4. (\A z \in Nat : z < x.size => x.ptr[z \div Slots] # 0) /\ y < x.size => x.ptr[k] # 0
    OBVIOUS
  <2> HIDE DEF k
  <2>5. u.itab[j].ptr[k] # 0
    BY <1>2, <1>4, <2>2, <2>3, <2>4
  <2> QED BY <2>5 DEF k
<1>7. Steady(t.vol, u, S)
  <2>1. t.vol.end \in Nat
    BY <1>1 DEF Volumes
  <2> QED BY <1>1, <1>2, <1>4, <2>1 DEF Steady
<1>8. Calm(t.vol, u, S, g)
  <2>1. \A j \in S : j # g => u.itab[j].size = t.vol.itab[j].size
    BY <1>1, <1>2
  <2> QED BY <1>1, <1>2, <1>4, <2>1 DEF Calm, Alike
<1> QED BY <1>2, <1>3, <1>5, <1>6, <1>7, <1>8, TableGood DEF u

LEMMA LinksGood ==
  ASSUME NEW v, NEW t, NEW S, NEW g, Good(v, t, S, g), NEW i, NEW up \in BOOLEAN,
         NEW r, r = DoInode(t, Links1(i, up))
  PROVE  /\ Good(v, r, S, g) /\ (t.ret = 0 => r.ret = 0)
         /\ Steady(t.vol, r.vol, S) /\ r.vol.blk = t.vol.blk /\ r.vol.end = t.vol.end
         /\ \A j \in Inodes : /\ r.vol.itab[j].ptr = t.vol.itab[j].ptr
                              /\ r.vol.itab[j].type = t.vol.itab[j].type
<1> DEFINE w == Links1(i, up)
           o == t.vol.itab[i]
           x == IF up THEN LinkMore(o) ELSE LinkLess(o)
<1>1. t.vol \in Volumes /\ S \subseteq Inodes /\ t.vol.end \in Nat
  BY GoodTypes DEF Volumes
<1>2. w.at = i
  BY DEF Links1
<1>3. CASE i \notin Inodes
  <2>1. r = t
    BY <1>2, <1>3 DEF DoInode
  <2> QED BY <1>1, <2>1 DEF Steady
<1>4. CASE i \in Inodes
  <2>1. w \in Write /\ o \in Inode
    BY <1>1, <1>4, WriteTypes DEF Volumes
  <2>2. x \in Inode
    BY <2>1, InodeTypes
  <2>3. x.type = o.type /\ x.ptr = o.ptr /\ x.size = o.size
    BY <2>1 DEF LinkMore, LinkLess, Inode
  <2>4. Apply(t.vol, w) = WithInode(t.vol, i, x)
    <3>1. /\ Apply(t.vol, Links1(i, TRUE)) = increment_link_count(t.vol, i)
          /\ Apply(t.vol, Links1(i, FALSE)) = decrement_link_count(t.vol, i)
      BY ApplyIs, Zenon
    <3>2. /\ increment_link_count(t.vol, i) = WithInode(t.vol, i, LinkMore(o))
          /\ decrement_link_count(t.vol, i) = WithInode(t.vol, i, LinkLess(o))
      BY <1>4, TableWrites, Zenon
    <3>3. CASE up = TRUE
      BY <3>1, <3>2, <3>3
    <3>4. CASE up = FALSE
      BY <3>1, <3>2, <3>4
    <3> QED BY <3>3, <3>4
  <2> HIDE DEF w, x, o
  <2>5. Good(v, Do(t, w), S, g) /\ Do(t, w).ret = 0 /\ Do(t, w).vol = WithInode(t.vol, i, x)
    BY <1>4, <2>1, <2>2, <2>3, <2>4, SameSlotGood DEF o
  <2>6. r = Do(t, w)
    BY <1>2, <1>4 DEF DoInode, w
  <2> DEFINE u == WithInode(t.vol, i, x)
  <2>7. /\ u.blk = t.vol.blk /\ u.end = t.vol.end
        /\ u.itab[i] = x /\ \A j \in Inodes \ {i} : u.itab[j] = t.vol.itab[j]
    BY <1>1, <1>4, WithInodeIs
  <2> HIDE DEF u
  <2>8. \A j \in Inodes : u.itab[j].ptr = t.vol.itab[j].ptr /\ u.itab[j].type = t.vol.itab[j].type
    BY <2>3, <2>7 DEF o
  <2>9. Steady(t.vol, u, S)
    BY <1>1, <2>7, <2>8 DEF Steady
  <2> QED BY <2>5, <2>6, <2>7, <2>8, <2>9 DEF u
<1> QED BY <1>3, <1>4

\* A block that was taken, and belongs to no member of S, may be attached to one.
Joins(v, S, g, i, k, b) ==
  /\ i \in S /\ k \in Index /\ v.itab[i].ptr[k] = 0 /\ (v.itab[i].type = "dir" \/ i = g)
  /\ b \in Blocks /\ b \in v.bmap /\ b > Reserved /\ Unowned(v, S, b)
Joined(v, u, S, i, k, b) ==
  /\ u.itab[i].ptr[k] = b /\ \A l \in Index \ {k} : u.itab[i].ptr[l] = v.itab[i].ptr[l]
  /\ \A j \in Inodes : u.itab[j].type = v.itab[j].type
  /\ u.itab[i].size = v.itab[i].size
  /\ Steady(v, u, S) /\ u.blk = v.blk /\ u.end = v.end

LEMMA PointerGood ==
  ASSUME NEW v, NEW t, NEW S, NEW g, Good(v, t, S, g), NEW i, NEW k, NEW b,
         Joins(t.vol, S, g, i, k, b), NEW r, r = Do(t, Pointer(i, k, b))
  PROVE  /\ Good(v, r, S, g) /\ r.ret = 0 /\ Safe(r.vol, S, b)
         /\ Joined(t.vol, r.vol, S, i, k, b)
<1> DEFINE w == Pointer(i, k, b)
           o == t.vol.itab[i]
           x == WithBlock(o, k, b)
           u == WithInode(t.vol, i, x)
<1>0. /\ i \in S /\ k \in Index /\ t.vol.itab[i].ptr[k] = 0 /\ (t.vol.itab[i].type = "dir" \/ i = g)
      /\ b \in Blocks /\ b \in t.vol.bmap /\ b > Reserved /\ Unowned(t.vol, S, b)
  BY DEF Joins
<1>1. t.vol \in Volumes /\ Safe(t.vol, S, 0) /\ S \subseteq Inodes /\ i \in Inodes
  BY <1>0, GoodTypes
<1>2. o \in Inode /\ w \in Write
  BY <1>0, <1>1, WriteTypes DEF Volumes
<1>3. x.type = o.type /\ x.size = o.size /\ x.ptr[k] = b /\ \A l \in Index \ {k} : x.ptr[l] = o.ptr[l]
  BY <1>0, <1>2 DEF WithBlock, Inode
<1>4. Apply(t.vol, w) = u
  <2>1. Apply(t.vol, w) = set_inode_block(t.vol, i, k, b)
    BY ApplyIs, Zenon
  <2>2. set_inode_block(t.vol, i, k, b) = u
    BY <1>1, TableWrites, Zenon
  <2> QED BY <2>1, <2>2
<1>5. /\ u.bmap = t.vol.bmap /\ u.imap = t.vol.imap /\ u.blk = t.vol.blk /\ u.end = t.vol.end
      /\ u.itab[i] = x /\ \A j \in Inodes \ {i} : u.itab[j] = t.vol.itab[j]
  BY <1>1, WithInodeIs
<1> HIDE DEF u, x, w
<1>6. b # 0
  BY <1>0 DEF Blocks
<1>7. \A j \in Inodes, l \in Index : <<j, l>> # <<i, k>> => u.itab[j].ptr[l] = t.vol.itab[j].ptr[l]
  BY <1>3, <1>5
<1>8. u.itab[i].ptr[k] = b
  BY <1>3, <1>5
<1>9. Owners(u, S)
  <2>1. Owners(t.vol, S)
    BY <1>1 DEF Safe
  <2>2. InUse(u, S)
    BY <1>5, <2>1 DEF Owners, InUse
  <2>3. MarkedFor(u, S)
    BY <1>0, <1>1, <1>5, <1>7, <1>8, <2>1 DEF Owners, MarkedFor
  <2>4. SharesNone(u, S)
    <3> SUFFICES ASSUME NEW j \in S, NEW l \in S, NEW p \in Index, NEW q \in Index,
                        u.itab[j].ptr[p] # 0, u.itab[j].ptr[p] = u.itab[l].ptr[q]
                 PROVE  j = l /\ p = q
      BY DEF SharesNone
    <3>1. CASE <<j, p>> = <<i, k>> /\ <<l, q>> = <<i, k>>
      BY <3>1
    <3>2. CASE <<j, p>> = <<i, k>> /\ <<l, q>> # <<i, k>>
      BY <1>0, <1>1, <1>6, <1>7, <1>8, <3>2 DEF Unowned
    <3>3. CASE <<j, p>> # <<i, k>> /\ <<l, q>> = <<i, k>>
      BY <1>0, <1>1, <1>6, <1>7, <1>8, <3>3 DEF Unowned
    <3>4. CASE <<j, p>> # <<i, k>> /\ <<l, q>> # <<i, k>>
      <4>1. u.itab[j].ptr[p] = t.vol.itab[j].ptr[p] /\ u.itab[l].ptr[q] = t.vol.itab[l].ptr[q]
        BY <1>0, <1>1, <1>7, <3>4
      <4>2. t.vol.itab[j].ptr[p] # 0 /\ t.vol.itab[j].ptr[p] = t.vol.itab[l].ptr[q]
        BY <4>1
      <4>3. SharesNone(t.vol, S)
        BY <2>1 DEF Owners
      <4> QED BY <4>2, <4>3 DEF SharesNone
    <3> QED BY <3>1, <3>2, <3>3, <3>4
  <2> QED BY <2>2, <2>3, <2>4 DEF Owners
<1>10. \A j \in Inodes : u.itab[j].type = t.vol.itab[j].type /\ u.itab[j].size = t.vol.itab[j].size
  BY <1>3, <1>5
<1>11. \A l : \A j \in Inodes : t.vol.itab[j].ptr[l] # 0 /\ l \in Index => u.itab[j].ptr[l] # 0
  BY <1>0, <1>6, <1>7, <1>8
<1>12. NoHoles(u)
  <2> SUFFICES ASSUME NEW j \in Inodes, NEW y \in Nat, y < u.itab[j].size
               PROVE  u.itab[j].ptr[y \div Slots] # 0
    BY DEF NoHoles
  <2>1. y < t.vol.itab[j].size
    BY <1>10
  <2>2. t.vol.itab[j].ptr[y \div Slots] # 0
    BY <1>1, <2>1 DEF Safe, NoHoles
  <2>3. y \div Slots \in Index
    <3>1. t.vol.itab[j].size \in 0 .. MaxFileWords /\ MaxFileWords \in Nat
      BY <1>1, MaxFileWordsType DEF Volumes, Inode
    <3>2. y < MaxFileWords
      BY <2>1, <3>1
    <3> QED BY <3>2, PlaceIndex
  <2> QED BY <1>11, <2>2, <2>3
<1>13. Steady(t.vol, u, S)
  <2>1. t.vol.end \in Nat
    BY <1>1 DEF Volumes
  <2>2. \A j \in S, l \in Index : t.vol.itab[j].ptr[l] # 0 => u.itab[j].ptr[l] = t.vol.itab[j].ptr[l]
    BY <1>0, <1>1, <1>7
  <2> QED BY <1>1, <1>5, <1>10, <2>1, <2>2 DEF Steady
<1>14. Calm(t.vol, u, S, g)
  <2> SUFFICES ASSUME NEW j \in S, j # g, t.vol.itab[j].type = "reg" PROVE Alike(t.vol, u, j)
    BY DEF Calm
  <2>1. j # i
    BY <1>0
  <2>2. u.itab[j] = t.vol.itab[j]
    BY <1>1, <1>5, <2>1
  <2> QED BY <1>5, <2>2 DEF Alike
<1>15. /\ Good(v, Do(t, w), S, g) /\ Do(t, w).ret = 0 /\ Do(t, w).vol = u
       /\ Safe(u, S, b)
  BY <1>2, <1>4, <1>5, <1>9, <1>12, <1>13, <1>14, <1>0, TableGood
<1>16. r = Do(t, w)
  BY DEF w
<1>17. u.itab[i].ptr[k] = b /\ \A l \in Index \ {k} : u.itab[i].ptr[l] = t.vol.itab[i].ptr[l]
  BY <1>0, <1>1, <1>7, <1>8
<1> QED BY <1>1, <1>5, <1>10, <1>13, <1>15, <1>16, <1>17 DEF Joined
----------------------------------------------------------------------------
(* Writes of a block *)

HasName(v, i) == \E b \in Blocks, s \in Slot : IsName(v.blk[b][s]) /\ v.blk[b][s].ino = i

\* The word w, with a name, may go to the block b, which makes v to u.
Fits(v, u, S, x, b, w) ==
  /\ \E d \in S, k \in Index : v.itab[d].type = "dir" /\ v.itab[d].ptr[k] = b /\ Within(u, d, k)
  /\ w.ino \in (S \ {RootIno}) \cup {Bad} /\ (w.ino = Bad \/ ~HasName(v, w.ino))
  /\ w.ino \in Inodes /\ v.itab[w.ino].type = "dir" => Doubled(Dots(v, w.ino, x))

\* The block b gets words, which name nothing new but at slot s, and leave "."
\* and ".." where they are, unless nothing counts on them.
Rewrites(v, u, S, x, b, words, s) ==
  /\ b \in Blocks /\ words \in [Slot -> Word] /\ u = write_block(v, b, words)
  /\ \A q \in Slot \ {s} : IsName(words[q]) => words[q] = v.blk[b][q]
  /\ IsName(words[s]) => Fits(v, u, S, x, b, words[s])
  /\ \/ b = x
     \/ \A q \in Slot : IsDot(v.blk[b][q]) => IsDot(words[q])
     \/ \A d \in S, k \in Index : v.itab[d].type = "dir" => v.itab[d].ptr[k] # b

LEMMA WriteBlockIs ==
  ASSUME NEW v \in Volumes, NEW b \in Blocks, NEW words, NEW u, u = write_block(v, b, words)
  PROVE  /\ u.bmap = v.bmap /\ u.imap = v.imap /\ u.itab = v.itab
         /\ v.end \in Nat /\ u.end \in Nat /\ v.end <= u.end /\ b < u.end
         /\ u.blk[b] = words /\ \A c \in Blocks \ {b} : u.blk[c] = v.blk[c]
<1> DEFINE e == IF b < v.end THEN v.end ELSE b + 1
           k == [v.blk EXCEPT ![b] = words]
<1>1. v.end \in Nat /\ b \in Nat
  BY DEF Volumes, Blocks
<1>2. e \in Nat /\ v.end <= e /\ b < e
  BY <1>1
<1>3. k[b] = words /\ \A c \in Blocks \ {b} : k[c] = v.blk[c]
  <2>1. v.blk \in [Blocks -> [Slot -> Word]]
    BY DEF Volumes
  <2> QED BY <2>1
<1>4. u = [v EXCEPT !.blk = k, !.end = e]
  BY Zenon DEF write_block
<1> HIDE DEF e, k
<1>5. /\ u.bmap = v.bmap /\ u.imap = v.imap /\ u.itab = v.itab
      /\ u.blk = k /\ u.end = e
  BY <1>4 DEF Volumes
<1> QED BY <1>1, <1>2, <1>3, <1>5

LEMMA DotsStay ==
  ASSUME NEW v, NEW S, NEW x, Safe(v, S, x), NEW b, NEW words, NEW s \in Slot,
         NEW u, Rewrites(v, u, S, x, b, words, s), NEW i \in S, v.itab[i].type = "dir"
  PROVE  Dots(v, i, x) \subseteq Dots(u, i, 0)
<1> SUFFICES ASSUME NEW p \in Dots(v, i, x) PROVE p \in Dots(u, i, 0)
  BY Zenon
<1>1. v \in Volumes /\ S \subseteq Inodes /\ b \in Blocks /\ u = write_block(v, b, words)
  BY SafeTypes DEF Rewrites
<1>2. /\ u.itab = v.itab /\ v.end \in Nat /\ u.end \in Nat /\ v.end <= u.end
      /\ u.blk[b] = words /\ \A c \in Blocks \ {b} : u.blk[c] = v.blk[c]
  BY <1>1, WriteBlockIs
<1> DEFINE c == v.itab[i].ptr[p[1]]
<1>3. p \in Index \X Slot /\ Within(v, i, p[1]) /\ c # x /\ IsDot(v.blk[c][p[2]])
  BY DotsAt, Zenon
<1>4. \A k \in Index : v.itab[i].ptr[k] \in Int
  BY <1>1, VolumeAssumption DEF Volumes, Inode
<1>5. Within(u, i, p[1])
  <2> SUFFICES ASSUME NEW l \in 0 .. p[1] PROVE u.itab[i].ptr[l] # 0 /\ u.itab[i].ptr[l] < u.end
    BY DEF Within
  <2>1. l \in Index
    BY <1>3, VolumeAssumption DEF Index
  <2> QED BY <1>2, <1>3, <1>4, <2>1 DEF Within
<1>6. c # 0 /\ c \in Blocks
  <2>1. p[1] \in Index /\ c # 0
    BY DotsPlace
  <2> QED BY <2>1, SafeTypes
<1>7. IsDot(u.blk[c][p[2]])
  <2>1. CASE c # b
    <3>1. u.blk[c] = v.blk[c]
      BY <1>2, <1>6, <2>1
    <3> QED BY <1>3, <3>1, Zenon
  <2>2. CASE c = b
    <3>1. p[1] \in Index /\ p[2] \in Slot
      BY <1>3
    <3>2. \/ \A q \in Slot : IsDot(v.blk[b][q]) => IsDot(words[q])
          \/ \A d \in S, k \in Index : v.itab[d].type = "dir" => v.itab[d].ptr[k] # b
      BY <1>3, <2>2 DEF Rewrites
    <3> QED BY <1>2, <1>3, <2>2, <3>1, <3>2
  <2> QED BY <2>1, <2>2, Zenon
<1>8. p \in Dots(u, i, 0) <=>
        /\ p \in Index \X Slot /\ Within(u, i, p[1]) /\ u.itab[i].ptr[p[1]] # 0
        /\ IsDot(u.blk[u.itab[i].ptr[p[1]]][p[2]])
  BY DotsAt, Zenon
<1>9. u.itab[i].ptr[p[1]] = c
  BY <1>2
<1> QED BY <1>3, <1>5, <1>6, <1>7, <1>8, <1>9, Zenon

LEMMA BlockMoves ==
  ASSUME NEW v, NEW S, NEW x, Safe(v, S, x), NEW b, NEW words, NEW s \in Slot,
         NEW u \in Volumes, Rewrites(v, u, S, x, b, words, s)
  PROVE  Safe(u, S, 0)
<1>1. v \in Volumes /\ S \subseteq Inodes /\ b \in Blocks /\ u = write_block(v, b, words)
  BY SafeTypes DEF Rewrites
<1>2. /\ u.bmap = v.bmap /\ u.imap = v.imap /\ u.itab = v.itab
      /\ v.end \in Nat /\ u.end \in Nat /\ v.end <= u.end
      /\ u.blk[b] = words /\ \A c \in Blocks \ {b} : u.blk[c] = v.blk[c]
  BY <1>1, WriteBlockIs
<1>3. Owners(u, S) /\ NoHoles(u)
  BY <1>2 DEF Safe, Owners, InUse, MarkedFor, SharesNone, NoHoles

\* A name of u is one of v, or the new one.
<1>4. ASSUME NEW c \in Blocks, NEW q \in Slot, IsName(u.blk[c][q])
      PROVE  \/ IsName(v.blk[c][q]) /\ u.blk[c][q] = v.blk[c][q]
             \/ c = b /\ q = s /\ Fits(v, u, S, x, b, u.blk[c][q])
  <2>1. CASE c # b
    BY <1>2, <1>4, <2>1
  <2>2. CASE c = b /\ q # s
    BY <1>2, <1>4, <2>2 DEF Rewrites
  <2>3. CASE c = b /\ q = s
    BY <1>2, <1>4, <2>3 DEF Rewrites
  <2> QED BY <2>1, <2>2, <2>3
<1>5. NamesLead(u, S)
  <2> SUFFICES ASSUME NEW c \in Blocks, NEW q \in Slot, IsName(u.blk[c][q])
               PROVE  u.blk[c][q].ino \in (S \ {RootIno}) \cup {Bad}
    BY DEF NamesLead
  <2> QED BY <1>4 DEF Fits, Safe, NamesIn, NamesLead
<1>6. Steady(v, u, S)
  BY <1>2 DEF Steady
<1>7. NamesLie(u, S)
  <2> SUFFICES ASSUME NEW c \in Blocks, NEW q \in Slot, IsName(u.blk[c][q])
               PROVE  \E d \in S, k \in Index : /\ u.itab[d].type = "dir" /\ u.itab[d].ptr[k] = c
                                                /\ Within(u, d, k)
    BY DEF NamesLie
  <2>1. CASE IsName(v.blk[c][q])
    <3>1. PICK d \in S, k \in Index : /\ v.itab[d].type = "dir" /\ v.itab[d].ptr[k] = c
                                      /\ Within(v, d, k)
      BY <2>1 DEF Safe, NamesIn, NamesLie
    <3>2. Within(u, d, k)
      BY <1>1, <1>6, <3>1, WithinStays
    <3> QED BY <1>2, <3>1, <3>2
  <2>2. CASE c = b /\ Fits(v, u, S, x, b, u.blk[c][q])
    BY <1>2, <2>2 DEF Fits
  <2> QED BY <1>4, <2>1, <2>2
<1>8. NamesApart(u)
  <2> SUFFICES ASSUME NEW c \in Blocks, NEW d \in Blocks, NEW q \in Slot, NEW r \in Slot,
                      IsName(u.blk[c][q]), IsName(u.blk[d][r]),
                      u.blk[c][q].ino = u.blk[d][r].ino, u.blk[c][q].ino # Bad
               PROVE  c = d /\ q = r
    BY DEF NamesApart
  <2>1. CASE /\ IsName(v.blk[c][q]) /\ u.blk[c][q] = v.blk[c][q]
             /\ IsName(v.blk[d][r]) /\ u.blk[d][r] = v.blk[d][r]
    <3>1. NamesApart(v)
      BY DEF Safe, NamesIn
    <3> QED BY <2>1, <3>1 DEF NamesApart
  <2>2. CASE /\ IsName(v.blk[c][q]) /\ u.blk[c][q] = v.blk[c][q]
             /\ d = b /\ r = s /\ Fits(v, u, S, x, b, u.blk[d][r])
    BY <2>2 DEF Fits, HasName
  <2>3. CASE /\ IsName(v.blk[d][r]) /\ u.blk[d][r] = v.blk[d][r]
             /\ c = b /\ q = s /\ Fits(v, u, S, x, b, u.blk[c][q])
    BY <2>3 DEF Fits, HasName
  <2> QED BY <1>4, <2>1, <2>2, <2>3
<1>9. Dotted(u, 0)
  <2> SUFFICES ASSUME NEW c \in Blocks, NEW q \in Slot, IsName(u.blk[c][q]),
                      u.blk[c][q].ino \in Inodes, u.itab[u.blk[c][q].ino].type = "dir"
               PROVE  Doubled(Dots(u, u.blk[c][q].ino, 0))
    BY DEF Dotted
  <2> DEFINE i == u.blk[c][q].ino
  <2>1. i \in S /\ v.itab[i].type = "dir"
    <3>1. Bad \notin Inodes
      BY VolumeAssumption DEF Bad, Inodes
    <3> QED BY <1>2, <1>5, <3>1 DEF NamesLead
  <2>2. Doubled(Dots(v, i, x))
    BY <1>2, <1>4 DEF Safe, Dotted, Fits
  <2>3. Dots(v, i, x) \subseteq Dots(u, i, 0)
    BY <2>1, DotsStay
  <2> QED BY <2>2, <2>3 DEF Doubled
<1>10. NoNames(u, 0)
  BY DEF NoNames, Blocks
<1> QED BY <1>3, <1>5, <1>7, <1>8, <1>9, <1>10 DEF Safe, NamesIn

\* A directory of S has the block b, or the file that is written.
Has(v, S, g, b) ==
  \E d \in S, k \in Index : v.itab[d].ptr[k] = b /\ (v.itab[d].type = "dir" \/ d = g)

\* The block b is written, and u is the volume then.
Stored(v, t, S, g, b, words, u) ==
  /\ Good(v, Do(t, BlockOf(b, words)), S, g) /\ Do(t, BlockOf(b, words)).ret = 0
  /\ Do(t, BlockOf(b, words)).vol = u

LEMMA BlockGood ==
  ASSUME NEW v, NEW t, NEW S, NEW g, Good(v, t, S, g), NEW x, Safe(t.vol, S, x),
         NEW b, NEW words, NEW s \in Slot, NEW u,
         Rewrites(t.vol, u, S, x, b, words, s), Has(t.vol, S, g, b)
  PROVE  Stored(v, t, S, g, b, words, u)
<1> DEFINE w == BlockOf(b, words)
<1>0. PICK d \in S, k \in Index : t.vol.itab[d].ptr[k] = b /\ (t.vol.itab[d].type = "dir" \/ d = g)
  BY DEF Has
<1>1. b \in Blocks /\ words \in [Slot -> Word] /\ u = write_block(t.vol, b, words)
  BY DEF Rewrites
<1>2. t.vol \in Volumes /\ S \subseteq Inodes /\ Safe(t.vol, S, 0)
  BY GoodTypes
<1>3. w \in Write
  BY <1>1, WriteTypes
<1>4. Apply(t.vol, w) = u
  BY <1>1, ApplyIs, Zenon
<1>5. u \in Volumes
  BY <1>2, <1>3, <1>4, ApplyType
<1>6. Safe(u, S, 0)
  BY <1>5, BlockMoves
<1>7. Calm(t.vol, u, S, g)
  <2> SUFFICES ASSUME NEW i \in S, i # g, t.vol.itab[i].type = "reg" PROVE Alike(t.vol, u, i)
    BY DEF Calm
  <2>1. u.itab = t.vol.itab /\ \A c \in Blocks \ {b} : u.blk[c] = t.vol.blk[c]
    BY <1>1, <1>2, WriteBlockIs
  <2>2. ASSUME NEW l \in Index, t.vol.itab[i].ptr[l] # 0
        PROVE  t.vol.itab[i].ptr[l] \in Blocks \ {b}
    <3>1. t.vol.itab[i].ptr[l] \in Blocks
      BY <1>2, <2>2, SafeTypes
    <3>2. i # d
      BY <1>0
    <3>3. SharesNone(t.vol, S)
      BY <1>2 DEF Safe, Owners
    <3>4. t.vol.itab[i].ptr[l] # t.vol.itab[d].ptr[k]
      BY <2>2, <3>2, <3>3 DEF SharesNone
    <3> QED BY <1>0, <3>1, <3>4
  <2> QED BY <2>1, <2>2 DEF Alike
<1>8. S \cap S = S
  OBVIOUS
<1> HIDE DEF w
<1>9. Good(v, Do(t, w), S, g) /\ Do(t, w).ret = 0 /\ Do(t, w).vol = u
  BY <1>3, <1>4, <1>6, <1>7, <1>8, DoGood
<1> QED BY <1>9 DEF w, Stored

\* What the names of u are those of v.
OnlyNames(v, u) ==
  \A b \in Blocks, s \in Slot : IsName(u.blk[b][s]) => IsName(v.blk[b][s]) /\ u.blk[b][s] = v.blk[b][s]

\* Inode i has neither a name nor names.
Spare(v, i) ==
  /\ ~HasName(v, i)
  /\ \A k \in Index, s \in Slot :
       v.itab[i].ptr[k] # 0 => ~IsName(v.blk[v.itab[i].ptr[k]][s])

LEMMA SpareStays ==
  ASSUME NEW v, NEW S, NEW x, Safe(v, S, x), NEW u, NEW y, Safe(u, S, y),
         Steady(v, u, S), OnlyNames(v, u), NEW i \in S, Spare(v, i)
  PROVE  Spare(u, i)
<1>1. ~HasName(u, i)
  <2>1. ~HasName(v, i)
    BY DEF Spare
  <2> QED BY <2>1, Zenon DEF HasName, OnlyNames
<1>2. ASSUME NEW k \in Index, NEW s \in Slot, u.itab[i].ptr[k] # 0,
             IsName(u.blk[u.itab[i].ptr[k]][s])
      PROVE  FALSE
  <2> DEFINE b == u.itab[i].ptr[k]
  <2>1. b \in Blocks
    BY <1>2, SafeTypes
  <2>2. IsName(v.blk[b][s])
    BY <1>2, <2>1 DEF OnlyNames
  <2>3. PICK d \in S, l \in Index : v.itab[d].type = "dir" /\ v.itab[d].ptr[l] = b
    BY <2>1, <2>2 DEF Safe, NamesIn, NamesLie
  <2>4. u.itab[d].ptr[l] = b
    BY <1>2, <2>3 DEF Steady
  <2>5. d = i
    BY <1>2, <2>4 DEF Safe, Owners, SharesNone
  <2>6. v.itab[i].ptr[l] = b
    BY <2>3, <2>5
  <2>7. b # 0
    BY <1>2
  <2> HIDE DEF b
  <2> QED BY <2>2, <2>6, <2>7, Zenon DEF Spare
<1> QED BY <1>1, <1>2 DEF Spare

LEMMA SteadyOn ==
  ASSUME NEW v \in Volumes, NEW u \in Volumes, NEW w \in Volumes, NEW S,
         Steady(v, u, S), Steady(u, w, S)
  PROVE  Steady(v, w, S)
<1>1. v.end \in Nat /\ u.end \in Nat /\ w.end \in Nat
  BY DEF Volumes
<1> QED BY <1>1 DEF Steady
----------------------------------------------------------------------------
(* Adding an entry *)

\* c may get a name.
Welcome(v, S, x, c) ==
  /\ c \in (S \ {RootIno}) \cup {Bad} /\ (c = Bad \/ ~HasName(v, c))
  /\ c \in Inodes /\ v.itab[c].type = "dir" => Doubled(Dots(v, c, x))

\* What an entry n of d, when it is added, does to the volume.
Added(v, u, S, d, n) ==
  /\ Steady(v, u, S) /\ (n \notin Names => OnlyNames(v, u))
  /\ n \in {Dot, DotDot} =>
       \E p : p \notin Dots(v, d, 0) /\ Dots(v, d, 0) \cup {p} \subseteq Dots(u, d, 0)

LEMMA FreeScanIs ==
  ASSUME NEW v \in Volumes, NEW d \in Inodes, NEW k, k = ScanStop(v, d, IsFree)
  PROVE  /\ k \in Index \cup {NDirect}
         /\ \A l \in 0 .. k - 1 : v.itab[d].ptr[l] # 0 /\ v.itab[d].ptr[l] < v.end
         /\ k \in Index => LET b == v.itab[d].ptr[k]
                           IN  \/ b = 0 \/ ~Readable(v, b)
                               \/ FirstSlot(v, b, IsFree) \in Slot /\ IsFree(v.blk[b][FirstSlot(v, b, IsFree)])
<1> DEFINE stops == {l \in Index : LET x == get_inode_block(v, d, l)
                                   IN  x = 0 \/ ~Readable(v, x) \/ HasSlot(v, x, IsFree)}
<1>1. k = IF stops = {} THEN NDirect ELSE Min(stops)
  BY DEF ScanStop
<1>2. stops \subseteq Nat /\ stops \subseteq Index
  BY DEF Index
<1>3. \A l \in Index \ stops : v.itab[d].ptr[l] # 0 /\ v.itab[d].ptr[l] < v.end
  BY DEF get_inode_block, Readable
<1>4. \A l \in stops : \/ v.itab[d].ptr[l] = 0 \/ ~Readable(v, v.itab[d].ptr[l])
                       \/ \E s \in Slot : IsFree(v.blk[v.itab[d].ptr[l]][s])
  BY DEF get_inode_block, HasSlot
<1> HIDE DEF stops
<1>5. stops # {} => k \in stops /\ \A y \in stops : k <= y
  BY <1>1, <1>2, MinIsLeast
<1>6. k \in Index \cup {NDirect} /\ (k \in Index => k \in stops)
  BY <1>1, <1>2, <1>5, VolumeAssumption DEF Index
<1>7. \A l \in 0 .. k - 1 : l \in Index \ stops
  <2>1. NDirect \in Nat /\ k \in 0 .. NDirect
    BY <1>6, VolumeAssumption DEF Index
  <2>2. \A l \in 0 .. k - 1 : l \in Index /\ ~ (k <= l)
    BY <2>1 DEF Index
  <2>3. CASE stops = {}
    BY <2>2, <2>3
  <2>4. CASE stops # {}
    BY <1>5, <2>2, <2>4
  <2> QED BY <2>3, <2>4
<1>8. ASSUME NEW b, NEW s \in Slot, IsFree(v.blk[b][s])
      PROVE  FirstSlot(v, b, IsFree) \in Slot /\ IsFree(v.blk[b][FirstSlot(v, b, IsFree)])
  <2> DEFINE hits == {q \in Slot : IsFree(v.blk[b][q])}
  <2>1. FirstSlot(v, b, IsFree) = Min(hits)
    BY DEF FirstSlot
  <2>2. hits \subseteq Nat /\ hits # {}
    BY <1>8 DEF Slot
  <2>3. \A q \in hits : q \in Slot /\ IsFree(v.blk[b][q])
    OBVIOUS
  <2> HIDE DEF hits
  <2>4. Min(hits) \in hits
    BY <2>2, MinIsLeast
  <2> QED BY <2>1, <2>3, <2>4
<1>9. k \in Index => \/ v.itab[d].ptr[k] = 0 \/ ~Readable(v, v.itab[d].ptr[k])
                     \/ \E s \in Slot : IsFree(v.blk[v.itab[d].ptr[k]][s])
  BY <1>4, <1>6
<1> QED BY <1>3, <1>6, <1>7, <1>8, <1>9

\* Index k of directory d has the block b, and slot s of words is free for an entry.
Room(v, S, x, d, k, b, words, s) ==
  /\ d \in S /\ v.itab[d].type = "dir" /\ k \in Index /\ b \in Blocks /\ v.itab[d].ptr[k] = b
  /\ \A l \in 0 .. k - 1 : v.itab[d].ptr[l] # 0 /\ v.itab[d].ptr[l] < v.end
  /\ words \in [Slot -> Word] /\ s \in Slot
  /\ \A q \in Slot : IsName(words[q]) => words[q] = v.blk[b][q]
  /\ b = x \/ (words = v.blk[b] /\ ~IsDot(words[s]))

\* An entry n for c may be put somewhere; what it does, at the place p of d.
May(v, S, x, n, c) == n \in AnyName /\ c \in 1 .. MaxInodes /\ (n \in Names => Welcome(v, S, x, c))
Puts(v, u, S, x, d, p, n) ==
  /\ Steady(v, u, S) /\ (n \notin Names => OnlyNames(v, u))
  /\ n \in {Dot, DotDot} => p \notin Dots(v, d, x) /\ Dots(v, d, x) \cup {p} \subseteq Dots(u, d, 0)

\* Everything is there to put it, and it has been put.
Ready(v, t, S, g, x, d, k, b, words, s, n, c) ==
  /\ Good(v, t, S, g) /\ Safe(t.vol, S, x)
  /\ Room(t.vol, S, x, d, k, b, words, s) /\ May(t.vol, S, x, n, c)
PutDone(v, t, r, S, g, x, d, k, s, n) ==
  Good(v, r, S, g) /\ r.ret = 0 /\ Puts(t.vol, r.vol, S, x, d, <<k, s>>, n)

LEMMA PutGood ==
  ASSUME NEW v, NEW t, NEW S, NEW g, NEW x, NEW d, NEW k, NEW b, NEW words, NEW s, NEW n, NEW c,
         Ready(v, t, S, g, x, d, k, b, words, s, n, c)
  PROVE  PutDone(v, t, PutLinked(t, b, words, s, n, c), S, g, x, d, k, s, n)
<1> DEFINE r == PutLinked(t, b, words, s, n, c)
<1> SUFFICES Good(v, r, S, g) /\ r.ret = 0 /\ Puts(t.vol, r.vol, S, x, d, <<k, s>>, n)
  BY DEF PutDone
<1>a. /\ Good(v, t, S, g) /\ Safe(t.vol, S, x)
      /\ Room(t.vol, S, x, d, k, b, words, s) /\ May(t.vol, S, x, n, c)
  BY DEF Ready
<1>b. r = PutLinked(t, b, words, s, n, c)
  OBVIOUS
<1> HIDE DEF r
<1> USE <1>a
<1> DEFINE new == [words EXCEPT ![s] = Entry(n, c)]
           u   == write_block(t.vol, b, new)
           y   == Do(t, BlockOf(b, new))
<1>0. s \in Slot /\ d \in S /\ b \in Blocks /\ k \in Index
  BY DEF Room
<1>1. t.vol \in Volumes /\ S \subseteq Inodes /\ t.vol.itab[d].ptr[k] \in Int
  BY GoodTypes DEF Blocks, Room
<1>2. /\ new \in [Slot -> Word] /\ new[s] = Entry(n, c)
      /\ \A q \in Slot \ {s} : new[q] = words[q]
  <2>1. Entry(n, c) \in Word
    BY DEF Entry, Word, AnyName, May
  <2> QED BY <2>1 DEF Room
<1>3. r = DoInode(y, Links1(c, TRUE))
  BY <1>b DEF PutLinked
<1> HIDE DEF new
<1>4. u = write_block(t.vol, b, new)
  OBVIOUS
<1>5. /\ u.itab = t.vol.itab /\ t.vol.end \in Nat /\ u.end \in Nat /\ t.vol.end <= u.end /\ b < u.end
      /\ u.blk[b] = new /\ \A a \in Blocks \ {b} : u.blk[a] = t.vol.blk[a]
  BY <1>0, <1>1, WriteBlockIs
<1> HIDE DEF u
<1>6. (IsName(new[s]) <=> n \in Names) /\ (IsDot(new[s]) <=> n \in {Dot, DotDot}) /\ new[s].ino = c
  BY <1>2 DEF IsName, IsDot, Entry
<1>7. Within(u, d, k)
  <2> SUFFICES ASSUME NEW l \in 0 .. k PROVE u.itab[d].ptr[l] # 0 /\ u.itab[d].ptr[l] < u.end
    BY DEF Within
  <2>1. CASE l = k
    BY <1>5, <2>1 DEF Blocks, Room
  <2>2. CASE l # k
    <3>1. l \in 0 .. k - 1 /\ l \in Index
      BY <1>0, <2>2, VolumeAssumption DEF Index
    <3>2. t.vol.itab[d].ptr[l] \in Int
      BY <1>0, <1>1, <3>1, VolumeAssumption DEF Volumes, Inode
    <3> QED BY <1>5, <3>1, <3>2 DEF Room
  <2> QED BY <2>1, <2>2
<1>8. Rewrites(t.vol, u, S, x, b, new, s)
  <2>1. IsName(new[s]) => Fits(t.vol, u, S, x, b, new[s])
    BY <1>6, <1>7 DEF Fits, Welcome, Room, May
  <2>2. \A q \in Slot \ {s} : IsName(new[q]) => new[q] = t.vol.blk[b][q]
    BY <1>2 DEF Room
  <2>3. b = x \/ \A q \in Slot : IsDot(t.vol.blk[b][q]) => IsDot(new[q])
    BY <1>2 DEF Room
  <2> QED BY <1>0, <1>2, <1>4, <2>1, <2>2, <2>3 DEF Rewrites
<1>9. Good(v, y, S, g) /\ y.ret = 0 /\ y.vol = u
  <2>1. Has(t.vol, S, g, b)
    BY DEF Has, Room
  <2>2. Stored(v, t, S, g, b, new, u)
    BY <1>0, <1>8, <2>1, BlockGood
  <2> QED BY <2>2 DEF y, Stored
<1> HIDE DEF y
<1>10. /\ Good(v, r, S, g) /\ r.ret = 0 /\ Steady(u, r.vol, S) /\ r.vol.blk = u.blk
       /\ r.vol.end = u.end /\ \A j \in Inodes : r.vol.itab[j].ptr = u.itab[j].ptr
  <2>1. PICK up \in BOOLEAN : up = TRUE
    OBVIOUS
  <2>2. r = DoInode(y, Links1(c, up))
    BY <1>3, <2>1
  <2> QED BY <1>9, <2>2, LinksGood
<1>11. r.vol \in Volumes /\ u \in Volumes
  BY <1>9, <1>10, GoodTypes
<1>12. Steady(t.vol, r.vol, S)
  <2>1. Steady(t.vol, u, S)
    BY <1>5 DEF Steady
  <2> QED BY <1>1, <1>10, <1>11, <2>1, SteadyOn
<1>13. ASSUME n \notin Names PROVE OnlyNames(t.vol, r.vol)
  <2> SUFFICES ASSUME NEW a \in Blocks, NEW q \in Slot, IsName(u.blk[a][q])
               PROVE  IsName(t.vol.blk[a][q]) /\ u.blk[a][q] = t.vol.blk[a][q]
    BY <1>10 DEF OnlyNames
  <2>1. CASE a # b
    BY <1>5, <2>1
  <2>2. CASE a = b
    BY <1>2, <1>5, <1>6, <1>13, <2>2 DEF Room
  <2> QED BY <2>1, <2>2
<1>14. ASSUME n \in {Dot, DotDot}
       PROVE  /\ <<k, s>> \notin Dots(t.vol, d, x)
              /\ Dots(t.vol, d, x) \cup {<<k, s>>} \subseteq Dots(r.vol, d, 0)
  <2>1. <<k, s>> \notin Dots(t.vol, d, x)
    BY <1>0 DEF Dots, Room
  <2>2. Dots(t.vol, d, x) \subseteq Dots(u, d, 0)
    BY <1>0, <1>8, DotsStay DEF Room
  <2>3. <<k, s>> \in Dots(u, d, 0)
    <3>1. b # 0
      BY <1>0 DEF Blocks
    <3> QED BY <1>0, <1>5, <1>6, <1>7, <1>14, <3>1 DEF Dots, Room
  <2>4. \A i : (i \in S => Dots(u, i, 0) \subseteq Dots(r.vol, i, 0))
    <3>1. Unowned(u, S, 0)
      BY DEF Unowned
    <3> QED BY <1>1, <1>10, <1>11, <3>1, DotsCarried
  <2> QED BY <1>0, <2>1, <2>2, <2>3, <2>4
<1> QED BY <1>10, <1>12, <1>13, <1>14 DEF Puts

\* The block handed out belongs to no member of S.
LEMMA FreshBlock ==
  ASSUME NEW v, NEW S, NEW x, Safe(v, S, x), NEW b, b = allocate_block(v).ret, b # 0
  PROVE  b \in Blocks /\ b > Reserved /\ Unowned(v, S, b)
<1> DEFINE free == Blocks \ v.bmap
<1>1. b = IF free = {} THEN 0 ELSE Min(free)
  BY DEF allocate_block, Result
<1>2. free \subseteq Nat
  BY DEF Blocks
<1>3. b \in free
  <2> HIDE DEF free
  <2> QED BY <1>1, <1>2, MinIsLeast
<1>4. b \in Blocks /\ b \notin v.bmap
  BY <1>3
<1>5. 1 .. Reserved \subseteq v.bmap
  BY DEF Safe, Owners, InUse
<1>6. b > Reserved
  BY <1>4, <1>5, VolumeAssumption DEF Blocks
<1>7. Unowned(v, S, b)
  BY <1>4 DEF Unowned, Safe, Owners, MarkedFor
<1> QED BY <1>4, <1>6, <1>7

\* It is set in the bitmap, and then attached to a member of S.
TakeBlock(t, b) == Do(t, BlockBit(b, TRUE))

LEMMA TakeBlockGood ==
  ASSUME NEW v, NEW t, NEW S, NEW g, Good(v, t, S, g), NEW b \in Blocks
  PROVE  /\ Good(v, TakeBlock(t, b), S, g) /\ TakeBlock(t, b).ret = 0
         /\ TakeBlock(t, b).vol = WithBmap(t.vol, t.vol.bmap \cup {b})
<1>1. PICK on \in BOOLEAN : on = TRUE
  OBVIOUS
<1>2. TakeBlock(t, b) = Do(t, BlockBit(b, on)) /\ Toggled(t.vol.bmap, b, on) = t.vol.bmap \cup {b}
  BY <1>1 DEF TakeBlock, Toggled
<1>3. Good(v, Do(t, BlockBit(b, on)), S, g) /\ Do(t, BlockBit(b, on)).ret = 0
  BY <1>1, BlockBitGood
<1>4. Do(t, BlockBit(b, on)).vol = WithBmap(t.vol, Toggled(t.vol.bmap, b, on))
  BY <1>1, BlockBitGood
<1> QED BY <1>2, <1>3, <1>4

\* Only the tables and the blocks of the image before matter to what follows.
LEMMA SteadyFrom ==
  ASSUME NEW v, NEW y, NEW r, NEW S, y.itab = v.itab, y.blk = v.blk, y.end = v.end, Steady(y, r, S)
  PROVE  Steady(v, r, S)
BY DEF Steady

LEMMA JoinedFrom ==
  ASSUME NEW v, NEW y, NEW r, NEW S, NEW i, NEW k, NEW b, y.itab = v.itab, y.blk = v.blk, y.end = v.end,
         Joined(y, r, S, i, k, b)
  PROVE  Joined(v, r, S, i, k, b)
<1>1. Steady(y, r, S)
  BY DEF Joined
<1>2. Steady(v, r, S)
  BY <1>1, SteadyFrom
<1> QED BY <1>2 DEF Joined

LEMMA AttachGood ==
  ASSUME NEW v, NEW t, NEW S, NEW g, Good(v, t, S, g), NEW i \in S, NEW k \in Index,
         t.vol.itab[i].ptr[k] = 0, t.vol.itab[i].type = "dir" \/ i = g,
         NEW b, b = allocate_block(t.vol).ret, b # 0,
         NEW r, r = Attach(TakeBlock(t, b), i, k, b)
  PROVE  /\ Good(v, r, S, g) /\ r.ret = 0 /\ Safe(r.vol, S, b)
         /\ b \in Blocks /\ Unowned(t.vol, S, b) /\ Joined(t.vol, r.vol, S, i, k, b)
<1> DEFINE y == TakeBlock(t, b)
           u == WithBmap(t.vol, t.vol.bmap \cup {b})
<1>1. t.vol \in Volumes /\ Safe(t.vol, S, 0) /\ S \subseteq Inodes /\ i \in Inodes
  BY GoodTypes
<1>2. b \in Blocks /\ b > Reserved /\ Unowned(t.vol, S, b)
  BY <1>1, FreshBlock
<1>3. Good(v, y, S, g) /\ y.vol = u
  BY <1>2, TakeBlockGood
<1>4. /\ u.itab = t.vol.itab /\ u.blk = t.vol.blk /\ u.end = t.vol.end /\ b \in u.bmap
  BY <1>1 DEF WithBmap, Volumes
<1> HIDE DEF u
<1>5. r = Do(y, Pointer(i, k, b))
  BY <1>1 DEF Attach, DoInode, Pointer
<1> HIDE DEF y
<1>6. Joins(y.vol, S, g, i, k, b)
  BY <1>2, <1>3, <1>4 DEF Unowned, Joins
<1>7. Good(v, r, S, g) /\ r.ret = 0 /\ Safe(r.vol, S, b) /\ Joined(y.vol, r.vol, S, i, k, b)
  BY <1>3, <1>5, <1>6, PointerGood
<1>8. Joined(t.vol, r.vol, S, i, k, b)
  BY <1>3, <1>4, <1>7, JoinedFrom
<1> QED BY <1>2, <1>7, <1>8

LEMMA AddFails == ASSUME NEW t, t.ret = -1, NEW d, NEW n, NEW c PROVE AddEntry(t, d, n, c) = Failed(t)
BY DEF AddEntry

\* d is a directory of S; r has the entry n added, or has failed.
DirOf(v, S, d) == d \in Inodes => d \in S /\ v.itab[d].type = "dir"
AddDone(v, t, r, S, g, d, n) ==
  /\ Good(v, r, S, g)
  /\ r = Failed(t) \/ (r.ret = 0 /\ Added(t.vol, r.vol, S, d, n))

LEMMA AddEntryGood ==
  ASSUME NEW v, NEW t, NEW S, NEW g, Good(v, t, S, g), t.ret = 0, NEW d, DirOf(t.vol, S, d),
         NEW n, NEW c, May(t.vol, S, 0, n, c), NEW r, r = AddEntry(t, d, n, c)
  PROVE  AddDone(v, t, r, S, g, d, n)
<1> USE DEF AddDone
<1> DEFINE k == ScanStop(t.vol, d, IsFree)
           b == get_inode_block(t.vol, d, k)
           a == allocate_block(t.vol).ret
<1>1. CASE r = Failed(t)
  BY <1>1, FailedGood
<1>2. r = IF d \notin Inodes THEN Failed(t) ELSE AddAt(t, d, k, IF k < NDirect THEN b ELSE 0, n, c)
  BY DEF AddEntry, AddToIndex
<1>3. CASE r # Failed(t)
  <2>1. d \in Inodes /\ d \in S /\ t.vol.itab[d].type = "dir"
    BY <1>2, <1>3 DEF DirOf
  <2>2. t.vol \in Volumes /\ Safe(t.vol, S, 0) /\ S \subseteq Inodes
    BY GoodTypes
  <2>3. /\ k \in Index \cup {NDirect}
        /\ \A l \in 0 .. k - 1 : t.vol.itab[d].ptr[l] # 0 /\ t.vol.itab[d].ptr[l] < t.vol.end
    BY <2>1, <2>2, FreeScanIs
  <2>4. k # NDirect
    BY <1>2, <1>3, <2>1 DEF AddAt
  <2>5. k \in Index /\ k < NDirect
    BY <2>3, <2>4, VolumeAssumption DEF Index
  <2>6. \/ b = 0 \/ ~Readable(t.vol, b)
        \/ FirstSlot(t.vol, b, IsFree) \in Slot /\ IsFree(t.vol.blk[b][FirstSlot(t.vol, b, IsFree)])
    <3>1. b = t.vol.itab[d].ptr[k]
      BY DEF get_inode_block
    <3> HIDE DEF b
    <3> QED BY <2>1, <2>2, <2>5, <3>1, FreeScanIs
  <2>7. b \in Blocks \cup {0} /\ b = t.vol.itab[d].ptr[k]
    BY <2>1, <2>2, <2>5, PointerType DEF get_inode_block
  <2> HIDE DEF k
  <2>8. r = IF b = 0 THEN AddInNew(t, d, k, n, c, a)
            ELSE IF ~Readable(t.vol, b) THEN Failed(t)
            ELSE PutLinked(t, b, t.vol.blk[b], FirstSlot(t.vol, b, IsFree), n, c)
    BY <1>2, <2>1, <2>4, <2>5 DEF AddAt
  <2> HIDE DEF a, b
  <2>9. CASE b # 0
    <3> DEFINE s == FirstSlot(t.vol, b, IsFree)
               words == t.vol.blk[b]
    <3>1. r = PutLinked(t, b, words, s, n, c) /\ s \in Slot /\ IsFree(words[s])
      BY <1>3, <2>6, <2>8, <2>9
    <3>2. b \in Blocks /\ words \in [Slot -> Word]
      BY <2>2, <2>7, <2>9 DEF Volumes
    <3> HIDE DEF s, words
    <3>3. ~IsDot(words[s])
      <4>1. words[s] \in Word
        BY <3>1, <3>2
      <4>2. words[s].tag = "entry" => words[s].ino \in 1 .. MaxInodes
        BY <4>1, EntryWord, Zenon
      <4> QED BY <3>1, <4>2, VolumeAssumption DEF IsDot, IsFree, EntryIno
    <3>4. words = t.vol.blk[b]
      BY Zenon DEF words
    <3>5. Room(t.vol, S, 0, d, k, b, words, s)
      BY <2>1, <2>3, <2>5, <2>7, <2>9, <3>1, <3>2, <3>3, <3>4, Zenon DEF Room
    <3>6. Good(v, r, S, g) /\ r.ret = 0 /\ Puts(t.vol, r.vol, S, 0, d, <<k, s>>, n)
      <4>1. Ready(v, t, S, g, 0, d, k, b, words, s, n, c)
        BY <2>2, <3>5 DEF Ready
      <4>2. PutDone(v, t, r, S, g, 0, d, k, s, n)
        BY <3>1, <4>1, PutGood
      <4> QED BY <4>2 DEF PutDone
    <3> QED BY <3>6 DEF Added, Puts
  <2>10. CASE b = 0
    <3> DEFINE y == Attach(TakeBlock(t, a), d, k, a)
    <3>1. a # 0 /\ r = PutLinked(y, a, ZeroBlock, 1, n, c)
      <4>1. a # 0
        BY <1>3, <2>8, <2>10 DEF AddInNew
      <4> QED BY <2>8, <2>10, <4>1 DEF AddInNew, TakeBlock
    <3>2. a = allocate_block(t.vol).ret
      BY DEF a
    <3>3. t.vol.itab[d].ptr[k] = 0
      BY <2>7, <2>10
    <3> HIDE DEF y
    <3>4. y = Attach(TakeBlock(t, a), d, k, a)
      BY DEF y
    <3>5. /\ Good(v, y, S, g) /\ Safe(y.vol, S, a) /\ a \in Blocks
          /\ Unowned(t.vol, S, a) /\ Joined(t.vol, y.vol, S, d, k, a)
      BY <2>1, <2>5, <3>1, <3>2, <3>3, <3>4, AttachGood
    <3>6. /\ y.vol.itab[d].ptr[k] = a /\ \A l \in Index \ {k} : y.vol.itab[d].ptr[l] = t.vol.itab[d].ptr[l]
          /\ \A j \in Inodes : y.vol.itab[j].type = t.vol.itab[j].type
          /\ Steady(t.vol, y.vol, S) /\ y.vol.blk = t.vol.blk /\ y.vol.end = t.vol.end
      BY <3>5 DEF Joined
    <3>7. Room(y.vol, S, a, d, k, a, ZeroBlock, 1)
      <4>1. ZeroBlock \in [Slot -> Word] /\ 1 \in Slot
        BY VolumeAssumption DEF ZeroBlock, Word, Slot
      <4>2. \A q \in Slot : ~IsName(ZeroBlock[q])
        BY DEF ZeroBlock, Zero, IsName
      <4>3. \A l \in 0 .. k - 1 : l \in Index \ {k}
        BY <2>5, VolumeAssumption DEF Index
      <4>4. \A l \in 0 .. k - 1 : y.vol.itab[d].ptr[l] # 0 /\ y.vol.itab[d].ptr[l] < y.vol.end
        BY <2>3, <3>6, <4>3
      <4> QED BY <2>1, <2>5, <3>5, <3>6, <4>1, <4>2, <4>4 DEF Room
    <3>8. May(y.vol, S, a, n, c)
      <4>1. HasName(y.vol, c) = HasName(t.vol, c)
        BY <3>6 DEF HasName
      <4>2. y.vol \in Volumes
        BY <3>5, GoodTypes
      <4>3. ASSUME NEW e \in S PROVE Dots(t.vol, e, 0) \subseteq Dots(y.vol, e, a)
        BY <2>2, <3>5, <3>6, <4>2, DotsCarried
      <4>4. c \in Inodes => c # Bad
        BY VolumeAssumption DEF Bad, Inodes
      <4> QED BY <3>6, <4>1, <4>3, <4>4 DEF May, Welcome, Doubled
    <3>9. Good(v, r, S, g) /\ r.ret = 0 /\ Puts(y.vol, r.vol, S, a, d, <<k, 1>>, n)
      <4>1. Ready(v, y, S, g, a, d, k, a, ZeroBlock, 1, n, c)
        BY <3>5, <3>7, <3>8 DEF Ready
      <4>2. PutDone(v, y, r, S, g, a, d, k, 1, n)
        BY <3>1, <4>1, PutGood
      <4> QED BY <4>2 DEF PutDone
    <3>10. n \notin Names => OnlyNames(y.vol, r.vol)
      BY <3>9 DEF Puts
    <3>11. n \in {Dot, DotDot} => Dots(y.vol, d, a) \cup {<<k, 1>>} \subseteq Dots(r.vol, d, 0)
      BY <3>9 DEF Puts
    <3>12. y.vol \in Volumes /\ r.vol \in Volumes
      BY <3>5, <3>9, GoodTypes
    <3>13. Steady(t.vol, r.vol, S)
      BY <2>2, <3>6, <3>9, <3>12, SteadyOn DEF Puts
    <3>14. n \notin Names => OnlyNames(t.vol, r.vol)
      BY <3>6, <3>10 DEF OnlyNames
    <3>15. Dots(t.vol, d, 0) \subseteq Dots(y.vol, d, a)
      BY <2>1, <2>2, <3>5, <3>6, <3>12, DotsCarried
    <3>16. <<k, 1>> \notin Dots(t.vol, d, 0)
      BY <3>3 DEF Dots
    <3> QED BY <3>9, <3>11, <3>13, <3>14, <3>15, <3>16 DEF Added
  <2> QED BY <2>9, <2>10
<1> QED BY <1>1, <1>3
----------------------------------------------------------------------------
(* Inodes that come and go *)

\* The inode handed out belongs to nobody.
LEMMA FreshInode ==
  ASSUME NEW v, NEW S, Safe(v, S, 0), NEW i, i = allocate_inode(v).ret, i # Bad
  PROVE  i \in Inodes \ S /\ i # 1 /\ i # RootIno /\ ~HasName(v, i)
<1> DEFINE free == Inodes \ v.imap
<1>1. i = IF free = {} THEN Bad ELSE Min(free)
  BY DEF allocate_inode, Result
<1>2. free \subseteq Nat
  BY DEF Inodes
<1>3. i \in free
  <2> HIDE DEF free
  <2> QED BY <1>1, <1>2, MinIsLeast
<1>4. S \subseteq v.imap /\ 1 \in v.imap /\ RootIno \in S
  BY DEF Safe, Owners, InUse
<1>5. i \notin S
  BY <1>3, <1>4
<1>6. ~HasName(v, i)
  BY <1>5 DEF HasName, Safe, NamesIn, NamesLead
<1> QED BY <1>3, <1>4, <1>5, <1>6

\* u is v with a new inode i.
Born(v, u, S, i, y) ==
  /\ Steady(v, u, S) /\ u.blk = v.blk /\ u.end = v.end /\ u.bmap = v.bmap
  /\ u.itab[i] = NewInode(y) /\ Spare(u, i)

LEMMA CreateInodeGood ==
  ASSUME NEW v, NEW S, NEW g, Safe(v, S, 0), NEW i, i = allocate_inode(v).ret, i # Bad,
         NEW y \in {"reg", "dir"}, NEW r, r = CreateInode(Trace(v), i, y)
  PROVE  Good(v, r, S \cup {i}, g) /\ r.ret = 0 /\ Born(v, r.vol, S, i, y)
<1>1. i \in Inodes \ S /\ i # 1 /\ ~HasName(v, i)
  BY FreshInode
<1>2. PICK on \in BOOLEAN : on = TRUE
  OBVIOUS
<1>3. Good(v, Trace(v), S, g) /\ Trace(v).vol = v
  BY TraceGood
<1> DEFINE a == Trace(v)
           t == Do(a, InodeBit(i, on))
<1>4. r = Do(t, NewSlot(i, y))
  BY <1>1, <1>2 DEF CreateInode
<1> HIDE DEF a
<1>5. Good(v, t, S, g)
  BY <1>1, <1>2, <1>3, InodeBitGood DEF a
<1>6. t.vol = WithImap(v, Toggled(v.imap, i, on))
  <2>1. on \/ (i \notin S /\ i # 1)
    BY <1>2
  <2>2. Do(a, InodeBit(i, on)).vol = WithImap(a.vol, Toggled(a.vol.imap, i, on))
    BY ONLY <1>1, <1>3, <2>1, InodeBitGood DEF a
  <2> QED BY <1>3, <2>2 DEF a
<1>7. v \in Volumes /\ S \subseteq Inodes
  BY SafeTypes
<1>8. /\ t.vol.imap = v.imap \cup {i} /\ t.vol.itab = v.itab /\ t.vol.blk = v.blk
      /\ t.vol.end = v.end /\ t.vol.bmap = v.bmap
  BY <1>2, <1>6, <1>7 DEF WithImap, Toggled, Volumes
<1> HIDE DEF t
<1>9. Gets(v, r, S \cup {i}, g, WithInode(t.vol, i, NewInode(y)))
  <2>1. i \in t.vol.imap
    BY <1>8
  <2> QED BY <1>1, <1>4, <1>5, <2>1, NewSlotGood
<1>10. Good(v, r, S \cup {i}, g) /\ r.ret = 0 /\ r.vol = WithInode(t.vol, i, NewInode(y))
  BY <1>9 DEF Gets
<1>11. /\ r.vol.bmap = t.vol.bmap /\ r.vol.blk = t.vol.blk /\ r.vol.end = t.vol.end
       /\ r.vol.itab[i] = NewInode(y) /\ \A j \in Inodes \ {i} : r.vol.itab[j] = t.vol.itab[j]
  <2>1. t.vol \in Volumes
    BY <1>5, GoodTypes
  <2> QED BY <1>1, <1>10, <2>1, WithInodeIs
<1>12. Steady(v, r.vol, S)
  <2>1. v.end \in Nat
    BY <1>7 DEF Volumes
  <2>2. \A j \in S : j \in Inodes \ {i}
    BY <1>1, <1>7
  <2>3. \A j \in S : r.vol.itab[j] = v.itab[j]
    BY <1>8, <1>11, <2>2
  <2>4. v.end <= r.vol.end
    BY <1>8, <1>11, <2>1
  <2> QED BY <2>3, <2>4 DEF Steady
<1>13. Spare(r.vol, i)
  <2>1. ~HasName(r.vol, i)
    BY <1>1, <1>8, <1>11 DEF HasName
  <2>2. \A k \in Index : r.vol.itab[i].ptr[k] = 0
    BY <1>11 DEF NewInode
  <2> QED BY <2>1, <2>2 DEF Spare
<1> QED BY <1>8, <1>10, <1>11, <1>12, <1>13 DEF Born

\* An inode that has no name and no names can be left out.
Given(v, S, b) == b = 0 \/ (b > Reserved /\ Unowned(v, S, b))
LEMMA DropSafe ==
  ASSUME NEW v, NEW S, Safe(v, S, 0), NEW i \in S, i # RootIno, Spare(v, i)
  PROVE  Safe(v, S \ {i}, 0) /\ \A k \in Index : Given(v, S \ {i}, v.itab[i].ptr[k])
<1> DEFINE T == S \ {i}
<1>1. Owners(v, T)
  BY DEF Safe, Owners, InUse, MarkedFor, SharesNone
<1>2. NamesLead(v, T)
  BY DEF Safe, NamesIn, NamesLead, Spare, HasName
<1>3. NamesLie(v, T)
  <2> SUFFICES ASSUME NEW b \in Blocks, NEW s \in Slot, IsName(v.blk[b][s])
               PROVE  \E d \in T, k \in Index : /\ v.itab[d].type = "dir" /\ v.itab[d].ptr[k] = b
                                                /\ Within(v, d, k)
    BY DEF NamesLie
  <2>1. PICK d \in S, k \in Index : /\ v.itab[d].type = "dir" /\ v.itab[d].ptr[k] = b
                                    /\ Within(v, d, k)
    BY DEF Safe, NamesIn, NamesLie
  <2>2. b # 0
    BY DEF Blocks
  <2>3. d # i
    BY <2>1, <2>2 DEF Spare
  <2> QED BY <2>1, <2>3
<1>4. Safe(v, T, 0)
  BY <1>1, <1>2, <1>3 DEF Safe, NamesIn
<1>5. ASSUME NEW k \in Index, v.itab[i].ptr[k] # 0
      PROVE  v.itab[i].ptr[k] > Reserved /\ Unowned(v, T, v.itab[i].ptr[k])
  <2>1. v.itab[i].ptr[k] > Reserved
    BY <1>5 DEF Safe, Owners, MarkedFor
  <2>2. SharesNone(v, S)
    BY DEF Safe, Owners
  <2>3. ASSUME NEW j \in T, NEW l \in Index PROVE v.itab[j].ptr[l] = 0 \/ v.itab[j].ptr[l] # v.itab[i].ptr[k]
    BY <2>2, <2>3 DEF SharesNone
  <2> QED BY <2>1, <2>3 DEF Unowned
<1> QED BY <1>4, <1>5 DEF Given

LEMMA FreeBlockGood ==
  ASSUME NEW v, NEW t, NEW S, NEW g, Good(v, t, S, g), NEW b, Given(t.vol, S, b)
  PROVE  Good(v, FreeBlock(t, b), S, g) /\ FreeBlock(t, b).vol.itab = t.vol.itab
<1>1. CASE b \notin 1 .. MaxBlocks
  BY <1>1 DEF FreeBlock
<1>2. CASE b \in 1 .. MaxBlocks
  <2>1. PICK on \in BOOLEAN : on = FALSE
    OBVIOUS
  <2>2. FreeBlock(t, b) = Do(t, BlockBit(b, on))
    BY <1>2, <2>1 DEF FreeBlock
  <2>3. b \in Blocks /\ b > Reserved /\ Unowned(t.vol, S, b)
    BY <1>2, VolumeAssumption DEF Blocks, Given
  <2>4. Good(v, FreeBlock(t, b), S, g)
    BY <2>2, <2>3, BlockBitGood
  <2>5. FreeBlock(t, b).vol = WithBmap(t.vol, Toggled(t.vol.bmap, b, on))
    BY <2>2, <2>3, BlockBitGood
  <2>6. t.vol \in Volumes
    BY GoodTypes
  <2> QED BY <2>4, <2>5, <2>6 DEF WithBmap, Volumes
<1> QED BY <1>1, <1>2

LEMMA DeleteInodeGood ==
  ASSUME NEW v, NEW t, NEW S, NEW g, Good(v, t, S, g), NEW i \in S, i # RootIno, Spare(t.vol, i)
  PROVE  Good(v, DeleteInode(t, i), S \ {i}, g)
<1> DEFINE T == S \ {i}
           d == FreedTo(t, i)
           P(n) == Good(v, d[n], T, g) /\ d[n].vol.itab = t.vol.itab
<1>1. /\ t \in Traces /\ Safe(t.vol, S, 0) /\ i \in Inodes /\ i # 1
  BY GoodTypes, SafeTypes
<1>2. Safe(t.vol, T, 0) /\ \A k \in Index : Given(t.vol, T, t.vol.itab[i].ptr[k])
  BY <1>1, DropSafe
<1>3. Good(v, t, T, g)
  BY <1>2 DEF Good
<1>4. /\ FreeBlocks(t, i) = d[NDirect] /\ d[0] = t
      /\ \A n \in Index : d[n + 1] = FreeBlock(d[n], t.vol.itab[i].ptr[n])
  BY <1>1, FreeBlocksSteps
<1> HIDE DEF T, d
<1>5. P(0)
  BY <1>3, <1>4
<1>6. ASSUME NEW n \in Index, P(n) PROVE P(n + 1)
  <2>1. d[n].vol.itab = t.vol.itab
    BY <1>6
  <2>2. Given(d[n].vol, T, t.vol.itab[i].ptr[n])
    BY <1>2, <2>1 DEF Given, Unowned
  <2>3. /\ Good(v, FreeBlock(d[n], t.vol.itab[i].ptr[n]), T, g)
        /\ FreeBlock(d[n], t.vol.itab[i].ptr[n]).vol.itab = d[n].vol.itab
    BY <1>6, <2>2, FreeBlockGood
  <2> QED BY <1>4, <2>1, <2>3
<1>7. P(NDirect)
  <2> HIDE DEF P
  <2> DEFINE M == {n \in 0 .. NDirect : P(n)}
  <2>1. NDirect \in Nat
    BY VolumeAssumption
  <2>2. 0 \in M
    BY <1>5, <2>1
  <2>3. ASSUME NEW n \in M, n # NDirect PROVE n + 1 \in M
    <3>1. n \in Index /\ P(n)
      BY <2>1, <2>3 DEF Index
    <3>2. n + 1 \in 0 .. NDirect
      BY <2>1, <3>1 DEF Index
    <3> QED BY <1>6, <3>1, <3>2
  <2>4. M \subseteq 0 .. NDirect
    OBVIOUS
  <2> HIDE DEF M
  <2>5. NDirect \in 0 .. NDirect
    BY <2>1
  <2>6. NDirect \in M
    BY <2>1, <2>2, <2>3, <2>4, <2>5, Induction
  <2> QED BY <2>6 DEF M
<1> DEFINE a == FreeBlocks(t, i)
           b == Do(a, ClearSlot(i))
<1>8. DeleteInode(t, i) = Do(b, InodeBit(i, FALSE))
  BY <1>1 DEF DeleteInode
<1>9. Good(v, a, T, g) /\ i \in Inodes \ T
  BY <1>1, <1>4, <1>7 DEF T
<1> HIDE DEF a
<1>10. Good(v, b, T, g)
  BY <1>9, ClearSlotGood
<1> HIDE DEF b
<1>11. PICK on \in BOOLEAN : on = FALSE
  OBVIOUS
<1>12. Good(v, Do(b, InodeBit(i, on)), T, g)
  BY <1>1, <1>9, <1>10, InodeBitGood
<1> QED BY <1>8, <1>11, <1>12 DEF T
----------------------------------------------------------------------------
(* The commands, from an image on which S is safe *)

\* What the commands show: some set is safe at the end.
Kept(v, r, g) == \E T : Good(v, r, T, g)

LEMMA KeptSo == ASSUME NEW v, NEW r, NEW T, NEW g, Good(v, r, T, g) PROVE Kept(v, r, g)
BY DEF Kept

LEMMA OrDeleteKept ==
  ASSUME NEW v, NEW t, NEW S, NEW g, Good(v, t, S, g), NEW i,
         t.ret # -1 \/ i \notin Inodes \/ (i \in S \ {RootIno} /\ Spare(t.vol, i))
  PROVE  Kept(v, OrDelete(t, i), g)
<1>1. CASE t.ret # -1
  BY <1>1, KeptSo DEF OrDelete
<1>2. CASE t.ret = -1 /\ i \notin Inodes
  <2>1. OrDelete(t, i) = Failed(t)
    BY <1>2 DEF OrDelete, DeleteInode
  <2>2. Good(v, Failed(t), S, g)
    BY FailedGood
  <2> QED BY <2>1, <2>2, KeptSo
<1>3. CASE t.ret = -1 /\ i \in S \ {RootIno} /\ Spare(t.vol, i)
  <2> DEFINE x == DeleteInode(t, i)
  <2>1. OrDelete(t, i) = Failed(x)
    BY <1>3 DEF OrDelete
  <2>2. Good(v, x, S \ {i}, g)
    BY <1>3, DeleteInodeGood
  <2> HIDE DEF x
  <2>3. Good(v, Failed(x), S \ {i}, g)
    BY <2>2, FailedGood
  <2> QED BY <2>1, <2>3, KeptSo
<1> QED BY <1>1, <1>2, <1>3

LEMMA DirStays ==
  ASSUME NEW v, NEW u, NEW S, NEW T, Steady(v, u, S), S \subseteq T, NEW d, DirOf(v, S, d)
  PROVE  DirOf(u, T, d)
BY DEF DirOf, Steady

LEMMA CreateKept ==
  ASSUME NEW v, NEW S, Safe(v, S, 0), NEW d, DirOf(v, S, d), NEW n \in Names, NEW g
  PROVE  Kept(v, CreateWrites(v, d, n), g)
<1> DEFINE i == allocate_inode(v).ret
           t == CreateInode(Trace(v), i, "reg")
           r == AddEntry(t, d, n, i)
<1>1. CreateWrites(v, d, n) = OrDelete(r, i)
  BY DEF CreateWrites, CreateAs
<1>2. i = allocate_inode(v).ret
  OBVIOUS
<1> HIDE DEF i
<1>3. t = CreateInode(Trace(v), i, "reg") /\ r = AddEntry(t, d, n, i)
  OBVIOUS
<1>4. Bad \notin Inodes /\ Bad \in 1 .. MaxInodes /\ \A j \in Inodes : j \in 1 .. MaxInodes
  BY VolumeAssumption DEF Bad, Inodes
<1>5. n \in AnyName
  BY DEF AnyName
<1>6. CASE i = Bad
  <2>1. t = Trace(v)
    BY <1>4, <1>6 DEF CreateInode
  <2> HIDE DEF r, t
  <2>2. Good(v, t, S, g) /\ t.ret = 0 /\ t.vol = v
    BY <2>1, TraceGood
  <2>3. May(t.vol, S, 0, n, i)
    BY <1>4, <1>5, <1>6 DEF May, Welcome
  <2>4. AddDone(v, t, r, S, g, d, n)
    BY <1>3, <2>2, <2>3, AddEntryGood
  <2>5. Good(v, r, S, g)
    BY <2>4 DEF AddDone
  <2>6. Kept(v, OrDelete(r, i), g)
    BY <1>4, <1>6, <2>5, OrDeleteKept
  <2> QED BY <1>1, <2>6
<1>7. CASE i # Bad
  <2> DEFINE T == S \cup {i}
  <2> HIDE DEF r, t
  <2>1. Good(v, t, S \cup {i}, g) /\ t.ret = 0 /\ Born(v, t.vol, S, i, "reg")
    <3>1. PICK y \in {"reg", "dir"} : y = "reg"
      OBVIOUS
    <3>2. t = CreateInode(Trace(v), i, y)
      BY <1>3, <3>1
    <3>3. Good(v, t, S \cup {i}, g) /\ t.ret = 0 /\ Born(v, t.vol, S, i, y)
      BY <1>2, <1>7, <3>2, CreateInodeGood
    <3> QED BY <3>1, <3>3
  <2>2. i \in Inodes \ S /\ i # RootIno
    BY <1>2, <1>7, FreshInode
  <2>3. Spare(t.vol, i) /\ t.vol.itab[i].type = "reg"
    BY <2>1 DEF Born, NewInode
  <2>4. May(t.vol, T, 0, n, i)
    BY <1>4, <1>5, <2>2, <2>3 DEF May, Welcome, Spare
  <2>5. DirOf(t.vol, T, d)
    BY <2>1, DirStays DEF Born
  <2> HIDE DEF T
  <2>6. AddDone(v, t, r, T, g, d, n)
    BY <1>3, <2>1, <2>4, <2>5, AddEntryGood DEF T
  <2>7. Good(v, r, T, g) /\ (r.ret # -1 \/ r.vol = t.vol)
    <3>1. Failed(t).vol = t.vol
      BY <2>1, FailedGood
    <3> QED BY <2>6, <3>1 DEF AddDone
  <2>8. Kept(v, OrDelete(r, i), g)
    BY <2>2, <2>3, <2>7, OrDeleteKept DEF T
  <2> QED BY <1>1, <2>8
<1> QED BY <1>6, <1>7

\* The new directory i in T gets one of its two entries, or the trace fails.
Nascent(v, t, T, g, i) ==
  /\ Good(v, t, T, g) /\ t.ret \in {0, -1} /\ i \in T \ {RootIno}
  /\ t.vol.itab[i].type = "dir" /\ Spare(t.vol, i)
DotDone(v, t, r, T, g, i) ==
  /\ Nascent(v, r, T, g, i) /\ Steady(t.vol, r.vol, T)
  /\ r.ret = 0 => \E p : p \notin Dots(t.vol, i, 0) /\ Dots(t.vol, i, 0) \cup {p} \subseteq Dots(r.vol, i, 0)

LEMMA DotAdded ==
  ASSUME NEW v, NEW t, NEW T, NEW g, NEW i, Nascent(v, t, T, g, i),
         NEW e \in {Dot, DotDot}, NEW c \in 1 .. MaxInodes, NEW r, r = AddEntry(t, i, e, c)
  PROVE  DotDone(v, t, r, T, g, i)
<1>1. Good(v, t, T, g) /\ i \in T /\ t.vol.itab[i].type = "dir" /\ Spare(t.vol, i)
  BY DEF Nascent
<1>2. CASE r = Failed(t)
  <2>1. Good(v, r, T, g) /\ r.ret = -1 /\ r.vol = t.vol
    BY <1>1, <1>2, FailedGood
  <2>2. Steady(t.vol, r.vol, T)
    <3>1. t.vol.end \in Nat
      BY <1>1, GoodTypes DEF Volumes
    <3> QED BY <2>1, <3>1 DEF Steady
  <2> QED BY <2>1, <2>2 DEF Nascent, DotDone
<1>3. CASE r # Failed(t)
  <2>1. t.ret = 0
    BY <1>3, AddFails DEF Nascent
  <2>2. May(t.vol, T, 0, e, c) /\ e \notin Names
    BY WritesAssumption DEF May, AnyName
  <2>3. DirOf(t.vol, T, i)
    BY <1>1 DEF DirOf
  <2>4. AddDone(v, t, r, T, g, i, e)
    BY <1>1, <2>1, <2>2, <2>3, AddEntryGood
  <2>5. Good(v, r, T, g) /\ r.ret = 0 /\ Added(t.vol, r.vol, T, i, e)
    BY <1>3, <2>4 DEF AddDone
  <2>6. Steady(t.vol, r.vol, T) /\ OnlyNames(t.vol, r.vol)
    BY <2>2, <2>5 DEF Added
  <2>7. Safe(t.vol, T, 0) /\ Safe(r.vol, T, 0)
    BY <1>1, <2>5, GoodTypes
  <2>8. Spare(r.vol, i)
    BY <1>1, <2>6, <2>7, SpareStays
  <2>9. r.vol.itab[i].type = "dir"
    BY <1>1, <2>6 DEF Steady
  <2> QED BY <1>1, <2>5, <2>6, <2>8, <2>9 DEF Added, Nascent, DotDone
<1> QED BY <1>2, <1>3

LEMMA DeletedKept ==
  ASSUME NEW v, NEW t, NEW T, NEW g, NEW i, Nascent(v, t, T, g, i)
  PROVE  Kept(v, Failed(DeleteInode(t, i)), g)
<1> DEFINE x == DeleteInode(t, i)
<1>1. Good(v, x, T \ {i}, g)
  BY DeleteInodeGood DEF Nascent
<1> HIDE DEF x
<1>2. Good(v, Failed(x), T \ {i}, g)
  BY <1>1, FailedGood
<1> QED BY <1>2, KeptSo DEF x

LEMMA MkdirAsKept ==
  ASSUME NEW v, NEW S, Safe(v, S, 0), NEW d \in Inodes, DirOf(v, S, d), NEW n \in Names, NEW g,
         NEW i, i = allocate_inode(v).ret, NEW b, b = allocate_block(v).ret,
         NEW t, t = CreateInode(Trace(v), i, "dir")
  PROVE  Kept(v, MkdirAs(t, d, n, i, b), g)
<1>1. /\ Bad \notin Inodes /\ Bad \in 1 .. MaxInodes /\ \A j \in Inodes : j \in 1 .. MaxInodes
      /\ 0 \in Index
  BY VolumeAssumption DEF Bad, Inodes, Index
<1>2. Dot \in {Dot, DotDot} /\ DotDot \in {Dot, DotDot}
  OBVIOUS
<1> DEFINE t1 == Attach(TakeBlock(t, b), i, 0, b)
           t2 == AddEntry(t1, i, Dot, i)
           t3 == AddEntry(t2, i, DotDot, d)
           t4 == AddEntry(t3, d, n, i)
<1>3. MkdirAs(t, d, n, i, b) = IF b = 0 THEN Failed(DeleteInode(t, i)) ELSE OrDelete(t4, i)
  BY DEF MkdirAs, TakeBlock
<1>4. CASE i = Bad
  <2>1. t = Trace(v)
    BY <1>1, <1>4 DEF CreateInode
  <2>2. Good(v, t, S, g) /\ t.ret = 0 /\ t.vol = v
    BY <2>1, TraceGood
  <2>3. CASE b = 0
    <3>1. MkdirAs(t, d, n, i, b) = Failed(t)
      BY <1>1, <1>3, <1>4, <2>3 DEF DeleteInode
    <3>2. Good(v, Failed(t), S, g)
      BY <2>2, FailedGood
    <3> QED BY <3>1, <3>2, KeptSo
  <2>4. CASE b # 0
    <3>1. t1 = TakeBlock(t, b)
      BY <1>1, <1>4 DEF Attach, DoInode, Pointer
    <3>2. b \in Blocks
      BY <2>4, FreshBlock
    <3>3. Good(v, t1, S, g)
      <4>1. Good(v, TakeBlock(t, b), S, g)
        BY <2>2, <3>2, TakeBlockGood
      <4> QED BY <3>1, <4>1
    <3> HIDE DEF t1
    <3>4. t2 = Failed(t1)
      BY <1>1, <1>4 DEF AddEntry
    <3> HIDE DEF t2
    <3>5. Good(v, t2, S, g) /\ t2.ret = -1
      BY <3>3, <3>4, FailedGood
    <3>6. t3 = Failed(t2)
      BY <3>5, AddFails
    <3> HIDE DEF t3
    <3>7. Good(v, t3, S, g) /\ t3.ret = -1
      BY <3>5, <3>6, FailedGood
    <3>8. t4 = Failed(t3)
      BY <3>7, AddFails
    <3> HIDE DEF t4
    <3>9. Good(v, t4, S, g)
      BY <3>7, <3>8, FailedGood
    <3>10. Kept(v, OrDelete(t4, i), g)
      BY <1>1, <1>4, <3>9, OrDeleteKept
    <3> QED BY <1>3, <2>4, <3>10
  <2> QED BY <2>3, <2>4
<1>5. CASE i # Bad
  <2> DEFINE T == S \cup {i}
  <2>1. i \in Inodes \ S /\ i # RootIno
    BY <1>5, FreshInode
  <2>2. Good(v, t, T, g) /\ t.ret = 0 /\ Born(v, t.vol, S, i, "dir")
    <3>1. PICK y \in {"reg", "dir"} : y = "dir"
      OBVIOUS
    <3>2. t = CreateInode(Trace(v), i, y)
      BY <3>1
    <3>3. Good(v, t, S \cup {i}, g) /\ t.ret = 0 /\ Born(v, t.vol, S, i, y)
      BY <1>5, <3>2, CreateInodeGood
    <3> QED BY <3>1, <3>3
  <2>3. i \in T \ {RootIno} /\ S \subseteq T
    BY <2>1
  <2> HIDE DEF T
  <2>4. t.vol.itab[i].type = "dir" /\ t.vol.itab[i].ptr[0] = 0 /\ Spare(t.vol, i)
    BY <1>1, <2>2 DEF Born, NewInode
  <2>5. Nascent(v, t, T, g, i)
    BY <2>2, <2>3, <2>4 DEF Nascent
  <2>6. CASE b = 0
    BY <1>3, <2>5, <2>6, DeletedKept
  <2>7. CASE b # 0
    <3>1. b = allocate_block(t.vol).ret
      <4>1. t.vol.bmap = v.bmap
        BY <2>2 DEF Born
      <4> QED BY <4>1 DEF allocate_block, Result
    <3> HIDE DEF t1
    <3>2. t1 = Attach(TakeBlock(t, b), i, 0, b)
      BY DEF t1
    <3>3. /\ Good(v, t1, T, g) /\ t1.ret = 0 /\ Joined(t.vol, t1.vol, T, i, 0, b)
      BY <1>1, <2>2, <2>3, <2>4, <2>7, <3>1, <3>2, AttachGood
    <3>4. Steady(t.vol, t1.vol, T) /\ t1.vol.blk = t.vol.blk
      BY <3>3 DEF Joined
    <3>5. Nascent(v, t1, T, g, i)
      <4>1. OnlyNames(t.vol, t1.vol)
        BY <3>4 DEF OnlyNames
      <4>2. Safe(t.vol, T, 0) /\ Safe(t1.vol, T, 0)
        BY <2>2, <3>3, GoodTypes
      <4>3. Spare(t1.vol, i)
        BY <2>3, <2>4, <3>4, <4>1, <4>2, SpareStays
      <4>4. t1.vol.itab[i].type = "dir"
        BY <2>3, <2>4, <3>4 DEF Steady
      <4> QED BY <2>3, <3>3, <4>3, <4>4 DEF Nascent
    <3>6. DotDone(v, t1, t2, T, g, i)
      <4>1. i \in 1 .. MaxInodes
        BY <1>1, <2>1
      <4> QED BY <1>2, <3>5, <4>1, DotAdded
    <3> HIDE DEF t2
    <3>7. Nascent(v, t2, T, g, i)
      BY <3>6 DEF DotDone
    <3>8. DotDone(v, t2, t3, T, g, i)
      <4>1. d \in 1 .. MaxInodes
        BY <1>1
      <4> QED BY <1>2, <3>7, <4>1, DotAdded
    <3> HIDE DEF t3
    <3>9. Nascent(v, t3, T, g, i)
      BY <3>8 DEF DotDone
    <3>10. t4 = AddEntry(t3, d, n, i)
      OBVIOUS
    <3> HIDE DEF t4
    <3>11. Good(v, t3, T, g) /\ Spare(t3.vol, i) /\ Failed(t3).vol = t3.vol /\ t3.ret \in {0, -1}
      BY <3>9, FailedGood DEF Nascent
    <3>12. CASE t4 = Failed(t3)
      <4>1. Good(v, t4, T, g) /\ t4.vol = t3.vol
        BY <3>11, <3>12, FailedGood
      <4>2. Kept(v, OrDelete(t4, i), g)
        BY <2>3, <3>11, <4>1, OrDeleteKept
      <4> QED BY <1>3, <2>7, <4>2
    <3>13. CASE t4 # Failed(t3)
      <4>1. t3.ret = 0
        BY <3>10, <3>11, <3>13, AddFails
      <4>2. t2.ret = 0
        <5>1. t3 = Failed(t2) => FALSE
          <6>1. Good(v, t2, T, g)
            BY <3>7 DEF Nascent
          <6> QED BY <4>1, <6>1, FailedGood
        <5> QED BY <3>7, <5>1, AddFails DEF t3, Nascent
      <4>3. Doubled(Dots(t3.vol, i, 0))
        <5>1. PICK p : p \notin Dots(t1.vol, i, 0) /\ Dots(t1.vol, i, 0) \cup {p} \subseteq Dots(t2.vol, i, 0)
          BY <3>6, <4>2 DEF DotDone
        <5>2. PICK q : q \notin Dots(t2.vol, i, 0) /\ Dots(t2.vol, i, 0) \cup {q} \subseteq Dots(t3.vol, i, 0)
          BY <3>8, <4>1 DEF DotDone
        <5> QED BY <5>1, <5>2 DEF Doubled
      <4>4. May(t3.vol, T, 0, n, i)
        BY <1>1, <2>1, <2>3, <3>11, <4>3 DEF May, Welcome, Spare, AnyName
      <4>5. DirOf(t3.vol, T, d)
        <5>1. DirOf(t.vol, T, d)
          BY <2>2, <2>3, DirStays DEF Born
        <5>2. DirOf(t1.vol, T, d)
          BY <3>4, <5>1, DirStays
        <5>3. DirOf(t2.vol, T, d)
          BY <3>6, <5>2, DirStays DEF DotDone
        <5> QED BY <3>8, <5>3, DirStays DEF DotDone
      <4>6. AddDone(v, t3, t4, T, g, d, n)
        BY <3>10, <3>11, <4>1, <4>4, <4>5, AddEntryGood
      <4>7. Good(v, t4, T, g) /\ t4.ret = 0
        BY <3>13, <4>6 DEF AddDone
      <4>8. Kept(v, OrDelete(t4, i), g)
        BY <4>7, OrDeleteKept
      <4> QED BY <1>3, <2>7, <4>8
    <3> QED BY <3>12, <3>13
  <2> QED BY <2>6, <2>7
<1> QED BY <1>4, <1>5

LEMMA MkdirKept ==
  ASSUME NEW v, NEW S, Safe(v, S, 0), NEW d, DirOf(v, S, d) \/ ~is_directory(v, d),
         NEW n \in Names, NEW g
  PROVE  Kept(v, MkdirWrites(v, d, n), g)
<1>1. Good(v, Trace(v), S, g) /\ Good(v, Failed(Trace(v)), S, g)
  BY TraceGood, FailedGood
<1>2. CASE ~is_directory(v, d)
  BY <1>1, <1>2, KeptSo DEF MkdirWrites
<1>3. CASE is_directory(v, d) /\ find_directory_entry(v, d, n) # 0
  BY <1>1, <1>3, KeptSo DEF MkdirWrites
<1>4. CASE is_directory(v, d) /\ find_directory_entry(v, d, n) = 0
  <2> DEFINE i == allocate_inode(v).ret
             b == allocate_block(v).ret
             t == CreateInode(Trace(v), i, "dir")
  <2>1. MkdirWrites(v, d, n) = MkdirAs(t, d, n, i, b)
    BY <1>4 DEF MkdirWrites
  <2>2. i = allocate_inode(v).ret /\ b = allocate_block(v).ret
    OBVIOUS
  <2> HIDE DEF i, b
  <2>3. t = CreateInode(Trace(v), i, "dir")
    OBVIOUS
  <2> HIDE DEF t
  <2>4. d \in Inodes /\ DirOf(v, S, d)
    BY <1>4 DEF is_directory, IsType
  <2>5. Kept(v, MkdirAs(t, d, n, i, b), g)
    BY <2>2, <2>3, <2>4, MkdirAsKept
  <2> QED BY <2>1, <2>5
<1> QED BY <1>2, <1>3, <1>4

\* No names lie in the blocks of i.
Childless(v, i) ==
  \A k \in Index, s \in Slot : v.itab[i].ptr[k] # 0 => ~IsName(v.blk[v.itab[i].ptr[k]][s])

\* A name in a block of i: i is a directory that is read up to there.
LEMMA NameOf ==
  ASSUME NEW v, NEW S, NEW x, Safe(v, S, x), NEW i \in S, NEW k \in Index, NEW s \in Slot,
         v.itab[i].ptr[k] # 0, IsName(v.blk[v.itab[i].ptr[k]][s])
  PROVE  v.itab[i].type = "dir" /\ Within(v, i, k)
<1> DEFINE b == v.itab[i].ptr[k]
<1>1. b \in Blocks
  BY SafeTypes
<1>2. PICK d \in S, l \in Index : v.itab[d].type = "dir" /\ v.itab[d].ptr[l] = b /\ Within(v, d, l)
  BY <1>1 DEF Safe, NamesIn, NamesLie
<1>3. d = i /\ l = k
  BY <1>2 DEF Safe, Owners, SharesNone
<1> QED BY <1>2, <1>3

LEMMA OtherThanDir ==
  ASSUME NEW v, NEW S, NEW x, Safe(v, S, x), NEW i \in S, v.itab[i].type # "dir"
  PROVE  Childless(v, i)
BY NameOf DEF Childless

\* What rmdir takes for an empty directory has no names, since both its "." and
\* its ".." are counted.
LEMMA EmptyDir ==
  ASSUME NEW v, NEW S, Safe(v, S, 0), NEW i \in S, Doubled(Dots(v, i, 0)), EntryCount(v, i) <= 2
  PROVE  Childless(v, i)
<1> SUFFICES ASSUME NEW k \in Index, NEW s \in Slot, v.itab[i].ptr[k] # 0,
                    IsName(v.blk[v.itab[i].ptr[k]][s])
             PROVE  FALSE
  BY DEF Childless
<1> DEFINE ends == {l \in Index : LET b == get_inode_block(v, i, l) IN b = 0 \/ ~Readable(v, b)}
           seen == {l \in Index : \A e \in ends : l < e}
           E    == {p \in seen \X Slot : EntryIno(v.blk[get_inode_block(v, i, p[1])][p[2]]) # 0}
<1>1. EntryCount(v, i) = Cardinality(E)
  BY DEF EntryCount
<1>2. v \in Volumes /\ \A l \in Index : v.itab[i].ptr[l] \in Blocks \cup {0}
  BY SafeTypes
<1>3. \A l \in Index : Within(v, i, l) => l \in seen /\ v.itab[i].ptr[l] \in Blocks
  <2> SUFFICES ASSUME NEW l \in Index, Within(v, i, l) PROVE l \in seen /\ v.itab[i].ptr[l] \in Blocks
    OBVIOUS
  <2>1. v.itab[i].ptr[l] \in Blocks
    <3>1. l \in 0 .. l
      BY DEF Index
    <3> QED BY <1>2, <3>1 DEF Within
  <2>2. ASSUME NEW e \in ends, e <= l PROVE FALSE
    <3>1. e \in Index /\ LET b == get_inode_block(v, i, e) IN b = 0 \/ ~Readable(v, b)
      BY <2>2, Zenon
    <3>2. e \in 0 .. l
      BY <2>2, <3>1 DEF Index
    <3>3. v.itab[i].ptr[e] # 0 /\ v.itab[i].ptr[e] < v.end
      BY <3>2 DEF Within
    <3> QED BY <3>1, <3>3, Zenon DEF get_inode_block, Readable
  <2>3. \A e \in ends : l < e
    <3>1. ends \subseteq Index
      BY Zenon
    <3> HIDE DEF ends
    <3> QED BY <2>2, <3>1 DEF Index
  <2> HIDE DEF ends
  <2> QED BY <2>1, <2>3, Zenon
<1>4. ASSUME NEW l \in Index, NEW q \in Slot, Within(v, i, l), v.blk[v.itab[i].ptr[l]][q].tag = "entry"
      PROVE  <<l, q>> \in E
  <2> HIDE DEF E, seen, ends
  <2>1. l \in seen /\ v.itab[i].ptr[l] \in Blocks
    BY <1>3, <1>4
  <2>2. v.blk[v.itab[i].ptr[l]][q] \in Word
    BY <1>2, <2>1 DEF Volumes
  <2>3. v.blk[v.itab[i].ptr[l]][q].ino # 0
    <3> DEFINE n == v.blk[v.itab[i].ptr[l]][q].ino
    <3>1. n \in 1 .. MaxInodes
      BY <1>4, <2>2, EntryWord, Zenon
    <3> HIDE DEF n
    <3>2. n # 0
      BY <3>1
    <3> QED BY <3>2, Zenon DEF n
  <2>4. EntryIno(v.blk[get_inode_block(v, i, l)][q]) # 0
    BY <1>4, <2>3, Zenon DEF EntryIno, get_inode_block
  <2>5. <<l, q>>[1] = l /\ <<l, q>>[2] = q /\ <<l, q>> \in seen \X Slot
    BY <1>4, <2>1
  <2> QED BY <2>4, <2>5, Zenon DEF E
<1>5. PICK p \in Dots(v, i, 0), r \in Dots(v, i, 0) : p # r
  BY DEF Doubled
<1>6. p \in E /\ r \in E
  <2> HIDE DEF E, seen, ends
  <2> SUFFICES ASSUME NEW y \in Dots(v, i, 0) PROVE y \in E
    BY Zenon
  <2>1. /\ y = <<y[1], y[2]>> /\ y[1] \in Index /\ y[2] \in Slot /\ Within(v, i, y[1])
        /\ IsDot(v.blk[v.itab[i].ptr[y[1]]][y[2]])
    BY DotsPlace, Zenon
  <2>2. <<y[1], y[2]>> \in E
    BY <1>4, <2>1, Zenon DEF IsDot
  <2> QED BY <2>1, <2>2, Zenon
<1>7. <<k, s>> \in E
  <2>1. Within(v, i, k)
    BY NameOf
  <2> HIDE DEF E
  <2> QED BY <1>4, <2>1, Zenon DEF IsName
<1>8. <<k, s>> \notin Dots(v, i, 0)
  <2> HIDE DEF E, seen, ends
  <2>1. <<k, s>>[1] = k /\ <<k, s>>[2] = s
    OBVIOUS
  <2>2. ~IsDot(v.blk[v.itab[i].ptr[k]][s])
    BY WritesAssumption DEF IsDot, IsName
  <2>3. <<k, s>> \in Dots(v, i, 0) => IsDot(v.blk[v.itab[i].ptr[<<k, s>>[1]]][<<k, s>>[2]])
    BY DotsAt, Zenon
  <2> QED BY <2>1, <2>2, <2>3
<1>9. Cardinality(E) >= 3 /\ Cardinality(E) \in Nat
  <2> DEFINE F == {p, r, <<k, s>>}
  <2>1. F \subseteq E
    BY <1>6, <1>7
  <2>2. IsFiniteSet(E)
    <3>1. IsFiniteSet(Index) /\ IsFiniteSet(Slot)
      <4>1. 0 \in Int /\ 1 \in Int /\ NDirect - 1 \in Int /\ Slots \in Int
        BY VolumeAssumption
      <4>2. IsFiniteSet(0 .. NDirect - 1)
        BY <4>1, FS_Interval
      <4>3. IsFiniteSet(1 .. Slots)
        BY <4>1, FS_Interval
      <4> QED BY <4>2, <4>3 DEF Index, Slot
    <3>2. IsFiniteSet(Index \X Slot)
      BY <3>1, FS_Product
    <3>3. E \subseteq Index \X Slot
      OBVIOUS
    <3> QED BY <3>2, <3>3, FS_Subset
  <2> HIDE DEF E
  <2>3. Cardinality(F) = 3
    <3>1. Cardinality({p}) = 1 /\ IsFiniteSet({p})
      BY FS_Singleton
    <3> DEFINE G == {p} \cup {r}
               H == G \cup {<<k, s>>}
    <3>2. Cardinality(G) = 2 /\ IsFiniteSet(G)
      <4>1. r \notin {p}
        BY <1>5
      <4>2. Cardinality(G) = Cardinality({p}) + 1 /\ IsFiniteSet(G)
        BY <3>1, <4>1, FS_AddElement
      <4> HIDE DEF G
      <4> QED BY <3>1, <4>2
    <3>3. Cardinality(H) = 3
      <4>1. <<k, s>> \notin G
        BY <1>8
      <4> HIDE DEF G
      <4>2. Cardinality(H) = Cardinality(G) + 1
        BY <3>2, <4>1, FS_AddElement
      <4> HIDE DEF H
      <4> QED BY <3>2, <4>2
    <3>4. F = H
      OBVIOUS
    <3> QED BY <3>3, <3>4
  <2> HIDE DEF F
  <2> QED BY <2>1, <2>2, <2>3, FS_Subset, FS_CardinalityType
<1> QED BY <1>1, <1>9

\* The place holds a name of i.
Names1(v, i, at) ==
  /\ at.block \in Blocks /\ at.slot \in Slot
  /\ IsName(v.blk[at.block][at.slot]) /\ v.blk[at.block][at.slot].ino = i

LEMMA RemoveKept ==
  ASSUME NEW v, NEW S, Safe(v, S, 0), NEW i \in Inodes, NEW at, Names1(v, i, at),
         Childless(v, i), NEW g
  PROVE  Kept(v, RemoveWrites(v, at, i), g)
<1> DEFINE t     == Trace(v)
           b     == at.block
           s     == at.slot
           words == [v.blk[b] EXCEPT ![s] = Zero]
           u     == write_block(v, b, words)
           x     == Do(t, BlockOf(b, words))
           y     == DoInode(x, Links1(i, FALSE))
<1>1. b \in Blocks /\ s \in Slot /\ IsName(v.blk[b][s]) /\ v.blk[b][s].ino = i
  BY DEF Names1
<1>2. Good(v, t, S, g) /\ t.vol = v
  BY TraceGood
<1>3. v \in Volumes /\ S \subseteq Inodes /\ Bad \notin Inodes
  BY SafeTypes, VolumeAssumption DEF Bad, Inodes
<1>4. RemoveWrites(v, at, i) = DeleteInode(y, i)
  BY <1>2 DEF RemoveWrites, RemoveEntry
<1>5. i \in S \ {RootIno}
  BY <1>1, <1>3 DEF Safe, NamesIn, NamesLead
<1> HIDE DEF t, b, s
<1>6. /\ words \in [Slot -> Word] /\ words[s] = Zero
      /\ \A q \in Slot \ {s} : words[q] = v.blk[b][q]
  <2>1. v.blk[b] \in [Slot -> Word]
    BY <1>1, <1>3 DEF Volumes
  <2>2. Zero \in Word
    BY DEF Word
  <2> QED BY <1>1, <2>1, <2>2
<1> HIDE DEF words
<1>7. u = write_block(v, b, words)
  OBVIOUS
<1>8. /\ u.itab = v.itab /\ u.blk[b] = words /\ \A a \in Blocks \ {b} : u.blk[a] = v.blk[a]
  BY <1>1, <1>3, WriteBlockIs
<1> HIDE DEF u
<1>9. ~IsName(words[s]) /\ IsDot(v.blk[b][s]) = FALSE
  BY <1>1, <1>6, WritesAssumption DEF IsName, IsDot, Zero
<1>10. Rewrites(v, u, S, 0, b, words, s)
  <2>1. \A q \in Slot : IsDot(v.blk[b][q]) => IsDot(words[q])
    BY <1>6, <1>9
  <2>2. \A q \in Slot \ {s} : IsName(words[q]) => words[q] = v.blk[b][q]
    BY <1>6
  <2> QED BY <1>1, <1>6, <1>7, <1>9, <2>1, <2>2 DEF Rewrites
<1>11. Has(v, S, g, b)
  BY <1>1 DEF Has, Safe, NamesIn, NamesLie
<1>12. Stored(v, t, S, g, b, words, u)
  BY <1>1, <1>2, <1>10, <1>11, BlockGood
<1>13. Good(v, x, S, g) /\ x.vol = u
  BY <1>12 DEF Stored
<1> HIDE DEF x
<1>14. Good(v, y, S, g) /\ y.vol.blk = u.blk /\ \A j \in Inodes : y.vol.itab[j].ptr = u.itab[j].ptr
  <2>1. PICK up \in BOOLEAN : up = FALSE
    OBVIOUS
  <2>2. y = DoInode(x, Links1(i, up))
    BY <2>1
  <2> HIDE DEF y
  <2> QED BY <1>13, <2>2, LinksGood
<1> HIDE DEF y
<1>15. OnlyNames(v, u)
  BY <1>6, <1>8, <1>9 DEF OnlyNames
<1>16. Spare(y.vol, i)
  <2>1. ~HasName(u, i)
    <3> SUFFICES ASSUME NEW a \in Blocks, NEW q \in Slot, IsName(u.blk[a][q]), u.blk[a][q].ino = i
                 PROVE  FALSE
      BY DEF HasName
    <3>1. IsName(v.blk[a][q]) /\ v.blk[a][q].ino = i
      BY <1>15 DEF OnlyNames
    <3>2. NamesApart(v)
      BY DEF Safe, NamesIn
    <3>3. a = b /\ q = s
      BY <1>1, <1>3, <3>1, <3>2 DEF NamesApart
    <3> QED BY <1>8, <1>9, <3>3
  <2>2. \A k \in Index, q \in Slot :
          y.vol.itab[i].ptr[k] # 0 => ~IsName(y.vol.blk[y.vol.itab[i].ptr[k]][q])
    <3> SUFFICES ASSUME NEW k \in Index, NEW q \in Slot, v.itab[i].ptr[k] # 0,
                        IsName(u.blk[v.itab[i].ptr[k]][q])
                 PROVE  FALSE
      BY <1>8, <1>14
    <3>1. v.itab[i].ptr[k] \in Blocks
      BY <1>5, SafeTypes
    <3> QED BY <1>15, <3>1 DEF OnlyNames, Childless
  <2> QED BY <1>14, <2>1, <2>2 DEF Spare, HasName
<1>17. Good(v, DeleteInode(y, i), S \ {i}, g)
  BY <1>5, <1>14, <1>16, DeleteInodeGood
<1> QED BY <1>4, <1>17, KeptSo

\* A write to the regular file i, at its index k, in its block b, has got to t.
Writing(v, t, S, i, k, b) ==
  /\ Good(v, t, S, i) /\ i \in S /\ k \in Index /\ t.vol.itab[i].type = "reg"
  /\ \/ t.ret = -1
     \/ /\ t.ret = 0 /\ b \in Blocks /\ t.vol.itab[i].ptr[k] = b
        /\ \A l \in 0 .. k : t.vol.itab[i].ptr[l] # 0

\* A file has its blocks up to the one of an offset within its size.
LEMMA BlocksBefore ==
  ASSUME NEW v \in Volumes, NoHoles(v), NEW i \in Inodes, NEW off \in Nat, off <= v.itab[i].size,
         NEW l \in 0 .. (off \div Slots) - 1
  PROVE  v.itab[i].ptr[l] # 0
<1> DEFINE k == off \div Slots
<1>1. k \in Nat /\ off = k * Slots + (off % Slots) /\ off % Slots \in 0 .. Slots - 1
  BY DivModSplit
<1> HIDE DEF k
<1>2. l \in Nat /\ l < k
  BY <1>1 DEF k
<1>3. l * Slots \in Nat /\ (l + 1) * Slots \in Nat /\ (l + 1) * Slots = l * Slots + Slots
  BY <1>2, VolumeAssumption
<1>4. (l + 1) * Slots <= k * Slots /\ k * Slots \in Nat
  <2>1. k = (l + 1) + (k - (l + 1)) /\ k - (l + 1) \in Nat
    BY <1>1, <1>2
  <2>2. k * Slots = (l + 1) * Slots + (k - (l + 1)) * Slots
    BY <1>1, <1>2, VolumeAssumption
  <2>3. (k - (l + 1)) * Slots \in Nat
    BY <2>1, VolumeAssumption
  <2> QED BY <1>3, <2>2, <2>3
<1>5. v.itab[i].size \in Nat
  BY MaxFileWordsType DEF Volumes, Inode
<1>6. l * Slots < v.itab[i].size
  <2>1. off % Slots \in Nat
    BY <1>1, VolumeAssumption
  <2> QED BY <1>1, <1>3, <1>4, <1>5, <2>1, VolumeAssumption
<1>7. (l * Slots) \div Slots = l
  <2>1. l * Slots = l * Slots + 0 /\ 0 \in 0 .. Slots - 1
    BY <1>3, VolumeAssumption
  <2> QED BY <1>2, <1>3, <2>1, DivModUnique
<1> QED BY <1>3, <1>6, <1>7 DEF NoHoles

LEMMA WriteAtGood ==
  ASSUME NEW v, NEW S, Safe(v, S, 0), NEW i \in S, v.itab[i].type = "reg",
         NEW off \in Nat, off < MaxFileWords, off <= v.itab[i].size,
         NEW k, k = off \div Slots, NEW b, b = BlockFor(v, i, k).ret, NEW d
  PROVE  Writing(v, WriteAt(Trace(v), i, k, b, off, d), S, i, k, b)
<1> DEFINE t == Trace(v)
           r == WriteAt(t, i, k, b, off, d)
           c == allocate_block(v).ret
<1>1. Good(v, t, S, i) /\ t.ret = 0 /\ t.vol = v
  BY TraceGood
<1>2. v \in Volumes /\ i \in Inodes /\ NoHoles(v)
  BY SafeTypes DEF Safe
<1>3. k \in Index
  BY PlaceIndex
<1>4. v.itab[i].ptr[k] \in Blocks \cup {0}
  BY <1>3, SafeTypes
<1>5. \A l \in 0 .. k - 1 : v.itab[i].ptr[l] # 0
  BY <1>2, BlocksBefore
<1>6. \A l \in 0 .. k : l = k \/ l \in 0 .. k - 1
  BY <1>3, VolumeAssumption DEF Index
<1>7. b = IF v.itab[i].ptr[k] # 0 THEN v.itab[i].ptr[k] ELSE c
  BY DEF BlockFor, Attached, Result, get_inode_block
<1> HIDE DEF t, c
<1>8. r = IF b = 0 THEN Failed(t) ELSE IF v.itab[i].ptr[k] = 0 THEN Attach(TakeBlock(t, b), i, k, b) ELSE t
  BY <1>1 DEF WriteAt, get_inode_block, TakeBlock
<1> HIDE DEF r
<1>9. CASE b = 0
  <2>1. Good(v, r, S, i) /\ r.ret = -1 /\ r.vol = v
    <3>1. r = Failed(t)
      BY <1>8, <1>9
    <3> QED BY <1>1, <3>1, FailedGood
  <2> QED BY <1>3, <2>1 DEF Writing, r, t
<1>10. CASE b # 0 /\ v.itab[i].ptr[k] = 0
  <2>1. b = allocate_block(t.vol).ret
    BY <1>1, <1>7, <1>10 DEF c
  <2>2. r = Attach(TakeBlock(t, b), i, k, b)
    BY <1>8, <1>10
  <2>3. Good(v, r, S, i) /\ r.ret = 0 /\ b \in Blocks /\ Joined(v, r.vol, S, i, k, b)
    BY <1>1, <1>3, <1>10, <2>1, <2>2, AttachGood
  <2>4. /\ r.vol.itab[i].ptr[k] = b /\ \A l \in Index \ {k} : r.vol.itab[i].ptr[l] = v.itab[i].ptr[l]
        /\ r.vol.itab[i].type = "reg"
    BY <1>2, <2>3 DEF Joined
  <2>5. ASSUME NEW l \in 0 .. k PROVE r.vol.itab[i].ptr[l] # 0
    <3>1. l \in Index
      BY <1>3, VolumeAssumption DEF Index
    <3> QED BY <1>5, <1>6, <1>10, <2>4, <3>1
  <2> QED BY <1>3, <2>3, <2>4, <2>5 DEF Writing, r, t
<1>11. CASE b # 0 /\ v.itab[i].ptr[k] # 0
  <2>1. r = t
    BY <1>8, <1>11
  <2>2. b \in Blocks /\ v.itab[i].ptr[k] = b
    BY <1>4, <1>7, <1>11
  <2> QED BY <1>1, <1>3, <1>5, <1>6, <1>11, <2>1, <2>2 DEF Writing, r, t
<1> QED BY <1>9, <1>10, <1>11

LEMMA FillGood ==
  ASSUME NEW v, NEW t, NEW S, NEW i, NEW k, NEW b, Writing(v, t, S, i, k, b),
         NEW pos \in 0 .. Slots - 1, NEW d \in Data
  PROVE  Writing(v, Fill(t, b, pos, d), S, i, k, b)
<1> DEFINE words == [s \in Slot |-> IF s > pos THEN Text(d) ELSE t.vol.blk[b][s]]
           r     == Fill(t, b, pos, d)
           u     == write_block(t.vol, b, words)
<1>1. Good(v, t, S, i) /\ i \in S /\ k \in Index /\ t.vol.itab[i].type = "reg"
  BY DEF Writing
<1>2. CASE r = Failed(t)
  <2>1. Good(v, r, S, i) /\ r.ret = -1 /\ r.vol = t.vol
    BY <1>1, <1>2, FailedGood
  <2> QED BY <1>1, <2>1 DEF Writing
<1>3. CASE r # Failed(t)
  <2>1. t.ret = 0 /\ r = Do(t, BlockOf(b, words))
    BY <1>3 DEF Fill, Writing
  <2>2. b \in Blocks /\ t.vol.itab[i].ptr[k] = b /\ \A l \in 0 .. k : t.vol.itab[i].ptr[l] # 0
    BY <2>1 DEF Writing
  <2>3. Safe(t.vol, S, 0) /\ t.vol \in Volumes
    BY <1>1, GoodTypes
  <2>4. \A q \in Slot : words[q] = Text(d) \/ words[q] = t.vol.blk[b][q]
    OBVIOUS
  <2>5. Slots \in Slot /\ words[Slots] = Text(d)
    BY VolumeAssumption DEF Slot
  <2>6. words \in [Slot -> Word]
    <3>1. Text(d) \in Word
      BY DEF Text, Word
    <3>2. \A q \in Slot : t.vol.blk[b][q] \in Word
      BY <2>2, <2>3 DEF Volumes
    <3> QED BY <3>1, <3>2
  <2> HIDE DEF words, r
  <2>7. ~IsName(Text(d))
    BY DEF IsName, Text
  <2>8. ASSUME NEW e \in S, NEW l \in Index, t.vol.itab[e].type = "dir" PROVE t.vol.itab[e].ptr[l] # b
    <3>1. e # i
      BY <1>1, <2>8
    <3>2. SharesNone(t.vol, S) /\ b # 0
      BY <2>2, <2>3 DEF Safe, Owners, Blocks
    <3> QED BY <1>1, <2>2, <3>1, <3>2 DEF SharesNone
  <2>9. u = write_block(t.vol, b, words)
    OBVIOUS
  <2> HIDE DEF u
  <2>10. Rewrites(t.vol, u, S, 0, b, words, Slots)
    BY <2>2, <2>4, <2>5, <2>6, <2>7, <2>8, <2>9 DEF Rewrites
  <2>11. Has(t.vol, S, i, b)
    BY <1>1, <2>2 DEF Has
  <2>12. Stored(v, t, S, i, b, words, u)
    BY <1>1, <2>3, <2>5, <2>10, <2>11, BlockGood
  <2>13. Good(v, r, S, i) /\ r.ret = 0 /\ r.vol = u
    BY <2>1, <2>12 DEF Stored
  <2>14. u.itab = t.vol.itab
    BY <2>2, <2>3, <2>9, WriteBlockIs
  <2> QED BY <1>1, <2>2, <2>13, <2>14 DEF Writing, r
<1> QED BY <1>2, <1>3

LEMMA ExtendKept ==
  ASSUME NEW v, NEW t, NEW S, NEW i, NEW k, NEW b, Writing(v, t, S, i, k, b),
         NEW n \in 0 .. MaxFileWords, n = (k + 1) * Slots
  PROVE  Kept(v, Extend(t, i, n), i)
<1>1. Good(v, t, S, i) /\ i \in S /\ k \in Index
  BY DEF Writing
<1>2. CASE Extend(t, i, n) = t
  BY <1>1, <1>2, KeptSo
<1>3. CASE Extend(t, i, n) # t
  <2> DEFINE w == Size(i, n)
             x == WithSize(t.vol.itab[i], n)
  <2>1. t.ret = 0 /\ Extend(t, i, n) = Do(t, w)
    BY <1>3 DEF Extend, Writing
  <2>2. \A l \in 0 .. k : t.vol.itab[i].ptr[l] # 0
    BY <2>1 DEF Writing
  <2>3. i \in Inodes /\ t.vol \in Volumes
    BY <1>1, GoodTypes
  <2>4. w \in Write
    BY <2>3, WriteTypes
  <2>5. Apply(t.vol, w) = WithInode(t.vol, i, x)
    BY ApplyIs, Zenon
  <2>6. t.vol.itab[i] \in Inode
    BY <2>3 DEF Volumes
  <2>7. x \in Inode /\ x.type = t.vol.itab[i].type /\ x.ptr = t.vol.itab[i].ptr /\ x.size = n
    BY <2>6 DEF WithSize, Inode
  <2> HIDE DEF w, x
  <2>8. ASSUME NEW y \in Nat, y < x.size PROVE x.ptr[y \div Slots] # 0
    <3>1. y \div Slots \in Nat /\ y = (y \div Slots) * Slots + (y % Slots) /\ y % Slots \in Nat
      BY DivModSplit, VolumeAssumption
    <3> DEFINE q == y \div Slots
    <3>2. y < (k + 1) * Slots
      BY <2>7, <2>8
    <3>3. k \in Nat
      BY <1>1, VolumeAssumption DEF Index
    <3>4. q \in Nat /\ q * Slots \in Nat /\ q * Slots < (k + 1) * Slots
      BY <3>1, <3>2, <3>3, VolumeAssumption
    <3> HIDE DEF q
    <3>5. q <= k
      <4>1. SUFFICES ASSUME q >= k + 1 PROVE FALSE
        BY <3>3, <3>4
      <4>2. q = (k + 1) + (q - (k + 1)) /\ q - (k + 1) \in Nat
        BY <3>3, <3>4, <4>1
      <4>3. q * Slots = (k + 1) * Slots + (q - (k + 1)) * Slots
        BY <3>3, <3>4, VolumeAssumption
      <4>4. (q - (k + 1)) * Slots \in Nat /\ (k + 1) * Slots \in Nat
        BY <3>3, <4>2, VolumeAssumption
      <4> QED BY <3>4, <4>3, <4>4
    <3> QED BY <2>2, <2>7, <3>3, <3>4, <3>5 DEF q
  <2>9. Good(v, Do(t, w), S, i)
    BY <1>1, <2>3, <2>4, <2>5, <2>7, <2>8, SameSlotGood
  <2> QED BY <2>1, <2>9, KeptSo
<1> QED BY <1>2, <1>3

LEMMA WriteKept ==
  ASSUME NEW v, NEW S, Safe(v, S, 0), NEW i \in S, v.itab[i].type = "reg",
         NEW off \in Nat, off < MaxFileWords, off <= v.itab[i].size, NEW d \in Data
  PROVE  Kept(v, WriteWrites(v, i, off, d), i)
<1> DEFINE k   == off \div Slots
           pos == off % Slots
           n   == (k + 1) * Slots
           b   == BlockFor(v, i, k).ret
           t   == WriteAt(Trace(v), i, k, b, off, d)
           f   == Fill(t, b, pos, d)
<1>1. /\ k \in Index /\ pos \in 0 .. Slots - 1 /\ k \in Nat
  BY PlaceIndex, DivModSplit
<1>2. WriteWrites(v, i, off, d) = Extend(f, i, n)
  BY DEF WriteWrites, WriteTo
<1>3. k = off \div Slots /\ b = BlockFor(v, i, k).ret
  OBVIOUS
<1> HIDE DEF k, pos, b
<1>4. n \in 0 .. MaxFileWords
  <2>1. k + 1 <= NDirect /\ k + 1 \in Nat
    BY <1>1, VolumeAssumption DEF Index
  <2>2. (k + 1) * Slots <= NDirect * Slots /\ (k + 1) * Slots \in Nat
    BY <2>1, VolumeAssumption, SMTT(30)
  <2> QED BY <2>2 DEF MaxFileWords
<1>5. n = (k + 1) * Slots
  OBVIOUS
<1> HIDE DEF n
<1>6. Writing(v, t, S, i, k, b)
  BY <1>3, WriteAtGood
<1> HIDE DEF t
<1>7. Writing(v, f, S, i, k, b)
  BY <1>1, <1>6, FillGood
<1> HIDE DEF f
<1> QED BY <1>2, <1>4, <1>5, <1>7, ExtendKept
----------------------------------------------------------------------------
(* What the paths lead to *)

\* What is found by a name belongs to S.
LEMMA FoundNamed ==
  ASSUME NEW v, NEW S, NEW x, Safe(v, S, x), NEW e, NEW n \in Names,
         NEW i \in Inodes, i = find_directory_entry(v, e, n)
  PROVE  i \in S \ {RootIno} /\ Names1(v, i, Locate(v, e, n))
<1> DEFINE at == Locate(v, e, n)
           w  == v.blk[at.block][at.slot]
<1>1. v \in Volumes
  BY SafeTypes
<1>2. i = IF at.block = 0 THEN 0 ELSE EntryIno(w)
  BY DEF find_directory_entry, FoundIno
<1>3. i # 0 /\ i # Bad
  BY VolumeAssumption DEF Inodes, Bad
<1>4. at.block # 0 /\ i = EntryIno(w)
  BY <1>2, <1>3
<1>5. at.block \in Blocks /\ at.slot \in Slot /\ IsNamed(w, n)
  BY <1>1, <1>4, LocateFindsIn
<1> HIDE DEF at
<1>6. IsName(w) /\ w.ino = i
  BY <1>4, <1>5 DEF IsNamed, IsName, EntryIno
<1>7. Names1(v, i, at)
  BY <1>5, <1>6 DEF Names1
<1>8. i \in S \ {RootIno}
  BY <1>3, <1>5, <1>6 DEF Safe, NamesIn, NamesLead
<1> QED BY <1>7, <1>8 DEF at

LEMMA ResolvedIn ==
  ASSUME NEW v, NEW S, NEW x, Safe(v, S, x), NEW comps \in Seq(Names), NEW i \in Inodes,
         i = Resolve(v, RootIno, comps)
  PROVE  i \in S
<1> DEFINE d == ResolvedTo(v, RootIno, comps)
           m == Len(comps)
<1>1. v \in Volumes /\ RootIno \in S /\ m \in Nat
  BY SafeTypes
<1>2. /\ i = d[m] /\ d[0] = RootIno
      /\ \A k \in 1 .. m : d[k] = find_directory_entry(v, d[k - 1], comps[k])
  BY <1>1, ResolveSteps
<1>3. m # 0 => comps[m] \in Names
  BY <1>1
<1> HIDE DEF d, m
<1>4. CASE m = 0
  BY <1>1, <1>2, <1>4
<1>5. CASE m # 0
  <2>1. m \in 1 .. m
    BY <1>1, <1>5
  <2>2. i = find_directory_entry(v, d[m - 1], comps[m])
    BY <1>2, <2>1
  <2> QED BY <1>3, <1>5, <2>2, FoundNamed
<1> QED BY <1>4, <1>5

LEMMA FrontType == ASSUME NEW p \in Seq(Names), p # <<>> PROVE Front(p) \in Seq(Names) /\ Last(p) \in Names
<1> DEFINE m == Len(p) - 1
<1>1. m \in Nat /\ Len(p) = m + 1 /\ Last(p) = p[m + 1] /\ Front(p) = SubSeq(p, 1, m)
  BY DEF Last, Front
<1>2. 1 \in Int /\ m \in Int /\ \A k \in 1 .. m : p[k] \in Names
  BY <1>1
<1>3. Last(p) \in Names
  BY <1>1
<1> HIDE DEF m
<1>4. SubSeq(p, 1, m) \in Seq(Names)
  BY <1>2, SubSeqProperties
<1> QED BY <1>1, <1>3, <1>4

LEMMA ParentDir ==
  ASSUME NEW v, NEW S, NEW x, Safe(v, S, x), NEW p \in Seq(Names), p # <<>>,
         NEW d, d = ParentIn(v, p), is_directory(v, d)
  PROVE  DirOf(v, S, d)
<1>1. d \in Inodes /\ v.itab[d].type = "dir"
  BY DEF is_directory, IsType
<1>2. Front(p) \in Seq(Names) /\ d = Resolve(v, RootIno, Front(p))
  BY FrontType DEF ParentIn
<1>3. d \in S
  BY <1>1, <1>2, ResolvedIn
<1> QED BY <1>1, <1>3 DEF DirOf

LEMMA NodeNamed ==
  ASSUME NEW v, NEW S, NEW x, Safe(v, S, x), NEW p \in Seq(Names), p # <<>>,
         NEW i \in Inodes, i = NodeIn(v, p)
  PROVE  i \in S \ {RootIno} /\ Names1(v, i, Locate(v, ParentIn(v, p), Last(p)))
<1>1. v \in Volumes
  BY SafeTypes
<1>2. i = find_directory_entry(v, ParentIn(v, p), Last(p))
  BY <1>1, NodeIsFound
<1>3. Last(p) \in Names
  BY FrontType
<1> HIDE DEF ParentIn
<1> QED BY <1>2, <1>3, FoundNamed

----------------------------------------------------------------------------
(* The images a command goes through are guarded *)

LEMMA KeptWay == ASSUME NEW v, NEW r, NEW g, Kept(v, r, g) PROVE Way(v, r.log, g)
BY DEF Kept, Good, Way

LEMMA RestWay == ASSUME NEW v, NEW g, Guarded(v) PROVE Way(v, <<>>, g)
<1>1. PICK S : Safe(v, S, 0)
  BY DEF Guarded
<1>2. Kept(v, Trace(v), g)
  BY <1>1, TraceGood, KeptSo
<1>3. Trace(v).log = <<>>
  BY DEF Trace
<1> QED BY <1>2, <1>3, KeptWay

LEMMA WayGuards ==
  ASSUME NEW v, NEW log \in Seq(Write), NEW g, Way(v, log, g)
  PROVE  Guarded(v)
<1>1. PICK f : WayBy(f, v, log, g)
  BY DEF Way
<1>2. Len(log) \in Nat
  OBVIOUS
<1>3. 0 \in 0 .. Len(log)
  BY <1>2
<1> QED BY <1>1, <1>3 DEF WayBy

\* One step on the way.
LEMMA WayOn ==
  ASSUME NEW v, NEW log \in Seq(Write), log # <<>>, NEW g, Way(v, log, g),
         NEW u, u = Apply(v, Head(log))
  PROVE  Way(u, Tail(log), g) /\ Quiet(v, u, g)
<1> DEFINE m    == Len(log) - 1
           rest == Tail(log)
<1>1. PICK f : WayBy(f, v, log, g)
  BY DEF Way
<1>2. m \in Nat /\ Len(log) = m + 1 /\ Len(rest) = m /\ Head(log) = log[1]
  OBVIOUS
<1>3. \A n \in 1 .. m : rest[n] = log[n + 1]
  OBVIOUS
<1> HIDE DEF m, rest
<1>4. /\ f \in [0 .. m + 1 -> Volumes] /\ f[0] = v
      /\ \A n \in 1 .. m + 1 : f[n] = Apply(f[n - 1], log[n]) /\ Quiet(f[n - 1], f[n], g)
      /\ \A n \in 0 .. m + 1 : Guarded(f[n])
  BY <1>1, <1>2 DEF WayBy
<1>5. f[1] = u /\ Quiet(v, u, g)
  <2>1. 1 \in 1 .. m + 1 /\ 1 - 1 = 0
    BY <1>2
  <2> QED BY <1>2, <1>4, <2>1
<1> DEFINE h == [n \in 0 .. m |-> f[n + 1]]
<1>6. \A n \in 0 .. m : n + 1 \in 0 .. m + 1 /\ n + 1 \in 1 .. m + 1
  BY <1>2
<1>7. h \in [0 .. m -> Volumes] /\ \A n \in 0 .. m : h[n] = f[n + 1]
  BY <1>4, <1>6
<1> HIDE DEF h
<1>8. h[0] = u
  <2>1. 0 \in 0 .. m /\ 0 + 1 = 1
    BY <1>2
  <2> QED BY <1>5, <1>7, <2>1
<1>9. ASSUME NEW n \in 1 .. m PROVE h[n] = Apply(h[n - 1], rest[n]) /\ Quiet(h[n - 1], h[n], g)
  <2>1. n \in 0 .. m /\ n - 1 \in 0 .. m /\ n + 1 \in 1 .. m + 1 /\ (n - 1) + 1 = n /\ (n + 1) - 1 = n
    BY <1>2
  <2>2. h[n] = f[n + 1] /\ h[n - 1] = f[n] /\ rest[n] = log[n + 1]
    BY <1>3, <1>7, <2>1
  <2>3. f[n + 1] = Apply(f[n], log[n + 1]) /\ Quiet(f[n], f[n + 1], g)
    BY <1>4, <2>1
  <2> QED BY <2>2, <2>3
<1>10. ASSUME NEW n \in 0 .. m PROVE Guarded(h[n])
  BY <1>4, <1>6, <1>7
<1>11. WayBy(h, u, rest, g)
  BY <1>2, <1>7, <1>8, <1>9, <1>10 DEF WayBy
<1> QED BY <1>5, <1>11 DEF Way, rest

\* The image after a format: the root is safe.
LEMMA FormattedGuarded == Guarded(FormattedVolume)
<1> DEFINE v == FormattedVolume
           b == Reserved + 1
           S == {RootIno}
<1>1. v \in Volumes
  BY FormattedVolumeOK DEF VolOK
<1>2. /\ v.bmap = 1 .. b /\ v.imap = {1, RootIno}
      /\ \A i \in Inodes : i # RootIno => v.itab[i] = ZeroInode
      /\ \A c \in Blocks, s \in Slot : ~IsName(v.blk[c][s])
  <2>1. v.bmap = 1 .. b /\ v.imap = {1, RootIno}
    BY DEF FormattedVolume, MountCounters
  <2>2. \A i \in Inodes : i # RootIno => v.itab[i] = ZeroInode
    BY DEF FormattedVolume, MountCounters
  <2>3. ASSUME NEW c \in Blocks, NEW s \in Slot PROVE ~IsName(v.blk[c][s])
    <3>1. v.blk[c] = IF c = b THEN [ZeroBlock EXCEPT ![1] = Entry(Dot, RootIno), ![2] = Entry(DotDot, RootIno)]
                     ELSE ZeroBlock
      BY DEF FormattedVolume, MountCounters
    <3>2. ZeroBlock[s] = Zero
      BY DEF ZeroBlock
    <3>3. v.blk[c][s] \in {Zero, Entry(Dot, RootIno), Entry(DotDot, RootIno)}
      BY <3>1, <3>2 DEF ZeroBlock
    <3> QED BY <3>3, WritesAssumption DEF IsName, Zero, Entry
  <2> QED BY <2>1, <2>2, <2>3
<1>3. RootIno \in Inodes /\ 0 \in Index /\ RootIno # 1
  BY VolumeAssumption DEF RootIno, Inodes, Index
<1>4. /\ \A k \in Index : v.itab[RootIno].ptr[k] = IF k = 0 THEN b ELSE 0
      /\ v.itab[RootIno].size = 0
  <2>1. v.itab[RootIno] = [NewInode("dir") EXCEPT !.ptr[0] = b]
    BY <1>3 DEF FormattedVolume, MountCounters
  <2> QED BY <1>3, <2>1 DEF NewInode
<1> HIDE DEF v
<1>5. Reserved \in Nat /\ b > Reserved /\ b \in v.bmap /\ 1 .. Reserved \subseteq v.bmap
  BY <1>2, VolumeAssumption
<1>6. Owners(v, S)
  BY <1>2, <1>3, <1>4, <1>5 DEF Owners, InUse, MarkedFor, SharesNone
<1>7. NoHoles(v)
  <2>1. \A i \in Inodes : v.itab[i].size = 0
    BY <1>2, <1>4 DEF ZeroInode, NewInode
  <2> QED BY <2>1 DEF NoHoles
<1>8. Safe(v, S, 0)
  BY <1>1, <1>2, <1>6, <1>7 DEF Safe, NamesIn, NamesLead, NamesLie, NamesApart, Dotted, NoNames
<1> QED BY <1>8 DEF Guarded, v
----------------------------------------------------------------------------
(* The inductive invariant *)

\* The image, and each one that the running command has still to go through, is
\* guarded.  The commands killed before need not be recalled: what they leave is
\* an image guarded like any other.
IInv == TypeOK /\ Way(vol, pending, target)

LEMMA InitGuarded == Init => IInv
<1> SUFFICES ASSUME Init PROVE IInv
  OBVIOUS
<1>1. TypeOK
  BY InitType
<1>2. vol = FormattedVolume /\ pending = <<>>
  BY DEF Init
<1>3. Way(vol, pending, target)
  BY <1>2, FormattedGuarded, RestWay
<1> QED BY <1>1, <1>3 DEF IInv

LEMMA StepGuarded == IInv /\ [Next]_vars => IInv'
<1> SUFFICES ASSUME IInv, [Next]_vars PROVE IInv'
  OBVIOUS
<1>0. TypeOK' /\ TypeOK /\ Way(vol, pending, target)
  BY StepType DEF IInv
<1>1. vol \in Volumes /\ pending \in Seq(Write)
  BY <1>0 DEF TypeOK
<1>2. Guarded(vol)
  BY <1>0, <1>1, WayGuards
<1>3. PICK S : Safe(vol, S, 0)
  BY <1>2 DEF Guarded
<1>4. ASSUME NEW t, NEW i, Kept(vol, t, i), Start(t, i) PROVE IInv'
  <2>1. Way(vol, t.log, i)
    BY <1>4, KeptWay
  <2>2. vol' = vol /\ pending' = t.log /\ target' = i
    BY <1>4 DEF Start
  <2> QED BY <1>0, <2>1, <2>2 DEF IInv
<1>5. CASE Create
  <2>1. PICK p \in FilePaths : /\ is_directory(vol, ParentIn(vol, p))
                               /\ Start(CreateWrites(vol, ParentIn(vol, p), Last(p)), 0)
    BY <1>5 DEF Create
  <2>2. p \in Seq(Names) /\ p # <<>> /\ Last(p) \in Names
    BY PathTypes, FrontType
  <2>3. DirOf(vol, S, ParentIn(vol, p))
    BY <1>3, <2>1, <2>2, ParentDir
  <2>4. Kept(vol, CreateWrites(vol, ParentIn(vol, p), Last(p)), 0)
    BY <1>3, <2>2, <2>3, CreateKept
  <2> QED BY <1>4, <2>1, <2>4
<1>6. CASE Mkdir
  <2>1. PICK p \in DirPaths : Start(MkdirWrites(vol, ParentIn(vol, p), Last(p)), 0)
    BY <1>6 DEF Mkdir
  <2>2. p \in Seq(Names) /\ p # <<>> /\ Last(p) \in Names
    BY PathTypes, FrontType
  <2>3. DirOf(vol, S, ParentIn(vol, p)) \/ ~is_directory(vol, ParentIn(vol, p))
    BY <1>3, <2>2, ParentDir
  <2>4. Kept(vol, MkdirWrites(vol, ParentIn(vol, p), Last(p)), 0)
    BY <1>3, <2>2, <2>3, MkdirKept
  <2> QED BY <1>4, <2>1, <2>4
<1>7. CASE Delete
  <2>1. PICK p \in FilePaths :
          /\ NodeIn(vol, p) \in Inodes /\ ~is_directory(vol, NodeIn(vol, p))
          /\ Start(RemoveWrites(vol, Locate(vol, ParentIn(vol, p), Last(p)), NodeIn(vol, p)), 0)
    BY <1>7 DEF Delete
  <2> DEFINE i  == NodeIn(vol, p)
             at == Locate(vol, ParentIn(vol, p), Last(p))
  <2>2. p \in Seq(Names) /\ p # <<>>
    BY PathTypes
  <2>3. i \in S /\ Names1(vol, i, at)
    BY <1>3, <2>1, <2>2, NodeNamed
  <2>4. i \in Inodes /\ vol.itab[i].type # "dir"
    BY <2>1 DEF is_directory, IsType
  <2>5. Start(RemoveWrites(vol, at, i), 0)
    BY <2>1
  <2> HIDE DEF i, at
  <2>6. Childless(vol, i)
    BY <1>3, <2>3, <2>4, OtherThanDir
  <2>7. Kept(vol, RemoveWrites(vol, at, i), 0)
    BY <1>3, <2>3, <2>4, <2>6, RemoveKept
  <2> QED BY <1>4, <2>5, <2>7
<1>8. CASE Rmdir
  <2>1. PICK p \in DirPaths :
          /\ is_directory(vol, NodeIn(vol, p)) /\ EntryCount(vol, NodeIn(vol, p)) <= 2
          /\ Start(RemoveWrites(vol, Locate(vol, ParentIn(vol, p), Last(p)), NodeIn(vol, p)), 0)
    BY <1>8 DEF Rmdir
  <2> DEFINE i  == NodeIn(vol, p)
             at == Locate(vol, ParentIn(vol, p), Last(p))
  <2>2. p \in Seq(Names) /\ p # <<>>
    BY PathTypes
  <2>3. i \in Inodes /\ vol.itab[i].type = "dir"
    BY <2>1 DEF is_directory, IsType
  <2>4. i \in S /\ Names1(vol, i, at)
    BY <1>3, <2>2, <2>3, NodeNamed
  <2>5. Start(RemoveWrites(vol, at, i), 0) /\ EntryCount(vol, i) <= 2
    BY <2>1
  <2> HIDE DEF i, at
  <2>6. Doubled(Dots(vol, i, 0))
    BY <1>3, <2>3, <2>4 DEF Names1, Safe, Dotted
  <2>7. Childless(vol, i)
    BY <1>3, <2>4, <2>5, <2>6, EmptyDir
  <2>8. Kept(vol, RemoveWrites(vol, at, i), 0)
    BY <1>3, <2>3, <2>4, <2>7, RemoveKept
  <2> QED BY <1>4, <2>5, <2>8
<1>9. CASE WriteFile
  <2>1. PICK p \in WritePaths, d \in Data :
          /\ is_regular_file(vol, NodeIn(vol, p))
          /\ \E off \in 0 .. vol.itab[NodeIn(vol, p)].size :
               off < MaxFileWords /\ Start(WriteWrites(vol, NodeIn(vol, p), off, d), NodeIn(vol, p))
    BY <1>9 DEF WriteFile
  <2>2. PICK off \in 0 .. vol.itab[NodeIn(vol, p)].size :
          off < MaxFileWords /\ Start(WriteWrites(vol, NodeIn(vol, p), off, d), NodeIn(vol, p))
    BY <2>1
  <2> DEFINE i == NodeIn(vol, p)
  <2>3. p \in Seq(Names) /\ p # <<>>
    BY PathTypes
  <2>4. i \in Inodes /\ vol.itab[i].type = "reg"
    BY <2>1 DEF is_regular_file, IsType
  <2>5. i \in S
    BY <1>3, <2>3, <2>4, NodeNamed
  <2>6. off \in Nat /\ off < MaxFileWords /\ off <= vol.itab[i].size
    <3>1. vol.itab[i].size \in Nat
      BY <1>1, <2>4, MaxFileWordsType DEF Volumes, Inode
    <3> QED BY <2>2, <3>1
  <2>7. Start(WriteWrites(vol, i, off, d), i)
    BY <2>2
  <2> HIDE DEF i
  <2>8. Kept(vol, WriteWrites(vol, i, off, d), i)
    BY <1>3, <2>4, <2>5, <2>6, WriteKept
  <2> QED BY <1>4, <2>7, <2>8
<1>10. CASE Step
  <2>1. vol' = Apply(vol, Head(pending)) /\ pending' = Tail(pending) /\ target' = target /\ pending # <<>>
    BY <1>10 DEF Step
  <2>2. Way(vol', pending', target')
    BY <1>0, <1>1, <2>1, WayOn
  <2> QED BY <1>0, <2>2 DEF IInv
<1>11. CASE Kill
  <2>1. Way(vol, <<>>, 0)
    BY <1>2, RestWay
  <2>2. vol' = vol /\ pending' = <<>> /\ target' = 0
    BY <1>11 DEF Kill
  <2> QED BY <1>0, <2>1, <2>2 DEF IInv
<1>12. CASE UNCHANGED vars
  <2>1. vol' = vol /\ pending' = pending /\ target' = target
    BY <1>12 DEF vars
  <2> QED BY <1>0, <2>1 DEF IInv
<1> QED BY <1>5, <1>6, <1>7, <1>8, <1>9, <1>10, <1>11, <1>12 DEF Next

\* Whatever commands are killed, and at whatever write, the image is one on which
\* some set of inodes owns its blocks and holds all the names there are.
THEOREM KillsLeaveAGuardedImage == Spec => []Guarded(vol)
<1>1. IInv => Guarded(vol)
  BY WayGuards DEF IInv, TypeOK
<1> QED BY <1>1, InitGuarded, StepGuarded, PTL DEF Spec

----------------------------------------------------------------------------
(* What follows *)

LEMMA GuardedOwners == ASSUME vol \in Volumes, Guarded(vol) PROVE NamedInodesOwnTheirBlocks
<1>1. PICK S : Safe(vol, S, 0)
  BY DEF Guarded
<1>2. Named(vol) \subseteq S
  BY <1>1, NamedWithin
<1>3. MarkedFor(vol, S) /\ SharesNone(vol, S)
  BY <1>1 DEF Safe, Owners
<1> DEFINE mine == {p \in Pointers(vol) : p[1] \in Named(vol)}
<1>4. ASSUME NEW p \in mine
      PROVE  /\ p[1] \in S /\ p[2] \in Index /\ p = <<p[1], p[2]>>
             /\ BlockAt(vol, p) = vol.itab[p[1]].ptr[p[2]] /\ vol.itab[p[1]].ptr[p[2]] # 0
  BY <1>2 DEF Pointers, BlockAt
<1> HIDE DEF mine
<1>5. ASSUME NEW p \in mine PROVE BlockAt(vol, p) \in vol.bmap /\ BlockAt(vol, p) > Reserved
  BY <1>3, <1>4 DEF MarkedFor
<1>6. ASSUME NEW p \in mine, NEW q \in mine, BlockAt(vol, p) = BlockAt(vol, q) PROVE p = q
  <2>1. p[1] = q[1] /\ p[2] = q[2]
    BY <1>3, <1>4, <1>6 DEF SharesNone
  <2> QED BY <1>4, <2>1
<1> QED BY <1>5, <1>6 DEF NamedInodesOwnTheirBlocks, mine

\* No two inodes that names lead to share a block, and their blocks are marked
\* and none of them is reserved, for all sizes of the image and any number of
\* commands killed, each between any two of its writes.
THEOREM NamedInodesKeepTheirBlocks == Spec => []NamedInodesOwnTheirBlocks
<1>1. IInv => vol \in Volumes /\ Guarded(vol)
  BY WayGuards DEF IInv, TypeOK
<1>2. IInv => NamedInodesOwnTheirBlocks
  BY <1>1, GuardedOwners
<1> QED BY <1>2, InitGuarded, StepGuarded, PTL DEF Spec

LEMMA GuardedNames == ASSUME vol \in Volumes, Guarded(vol) PROVE NoNameWithoutInode
<1>1. PICK S : Safe(vol, S, 0)
  BY DEF Guarded
<1> SUFFICES ASSUME NEW l \in Links(vol)
             PROVE  InoAt(vol, l[1], l[2]) \in (vol.imap \ {1, RootIno}) \cup {Bad}
  BY DEF NoNameWithoutInode
<1>2. S \subseteq vol.imap \ {1}
  BY <1>1 DEF Safe, Owners, InUse
<1>3. /\ l[1] \in Inodes /\ l[2] \in Index \X Slot /\ l[2] \in NamedPlaces(vol, l[1])
  BY DEF Links, Directories, is_directory, IsType
<1>4. PICK k \in Index, s \in Slot : l[2] = <<k, s>>
  BY <1>3
<1> DEFINE b == get_inode_block(vol, l[1], k)
<1>5. b # 0 /\ vol.blk[b][s].tag = "entry" /\ vol.blk[b][s].name \notin {Dot, DotDot}
  BY <1>3, <1>4 DEF NamedPlaces
<1>6. b \in Blocks
  BY <1>3, <1>5, PointerType
<1>7. InoAt(vol, l[1], l[2]) = vol.blk[b][s].ino
  BY <1>4 DEF InoAt
<1> HIDE DEF b
<1>8. vol.blk[b][s] \in Word
  BY <1>6 DEF Volumes
<1>9. IsName(vol.blk[b][s])
  BY <1>5, <1>8 DEF IsName, Word, Zero
<1>10. vol.blk[b][s].ino \in (S \ {RootIno}) \cup {Bad}
  BY <1>1, <1>6, <1>9 DEF Safe, NamesIn, NamesLead
<1> QED BY <1>2, <1>7, <1>10

\* A name leads to an inode in use at every moment, wherever commands are killed.
THEOREM NamesKeepTheirInodes == Spec => []NoNameWithoutInode
<1>1. IInv => vol \in Volumes /\ Guarded(vol)
  BY WayGuards DEF IInv, TypeOK
<1>2. IInv => NoNameWithoutInode
  BY <1>1, GuardedNames
<1> QED BY <1>2, InitGuarded, StepGuarded, PTL DEF Spec

LEMMA AlikeContent ==
  ASSUME NEW v \in Volumes, NEW u, NEW i \in Inodes, NoHoles(v), Alike(v, u, i)
  PROVE  Content(u, i) = Content(v, i)
<1>1. u.itab[i].size = v.itab[i].size /\ v.itab[i].size \in 0 .. MaxFileWords
  BY DEF Alike, Volumes, Inode
<1>2. ASSUME NEW x \in 1 .. v.itab[i].size
      PROVE  u.blk[u.itab[i].ptr[(x - 1) \div Slots]] = v.blk[v.itab[i].ptr[(x - 1) \div Slots]]
  <2>1. x - 1 \in Nat /\ x - 1 < MaxFileWords /\ x - 1 < v.itab[i].size
    BY <1>1, MaxFileWordsType
  <2>2. (x - 1) \div Slots \in Index
    BY <2>1, PlaceIndex
  <2>3. v.itab[i].ptr[(x - 1) \div Slots] # 0
    BY <2>1 DEF NoHoles
  <2> DEFINE k == (x - 1) \div Slots
  <2> HIDE DEF k
  <2>4. k \in Index /\ v.itab[i].ptr[k] # 0
    BY <2>2, <2>3 DEF k
  <2>5. u.itab[i].ptr[k] = v.itab[i].ptr[k] /\ u.blk[v.itab[i].ptr[k]] = v.blk[v.itab[i].ptr[k]]
    BY <2>4 DEF Alike
  <2> QED BY <2>5 DEF k
<1> QED BY <1>1, <1>2 DEF Content, get_inode_block

\* What is read of a file that has a name changes only while it is written.
THEOREM KillsReachNoOtherFile == Spec => OthersKeepTheirContent
<1> DEFINE Kept1(i) == /\ is_regular_file(vol, i) /\ is_regular_file(vol', i)
                       /\ Content(vol', i) # Content(vol, i)
                       => target = i
<1>1. IInv /\ [Next]_vars => [\A i \in Named(vol) \cap Named(vol') : Kept1(i)]_vars
  <2> SUFFICES ASSUME IInv, [Next]_vars, NEW i \in Named(vol) \cap Named(vol'),
                      is_regular_file(vol, i), is_regular_file(vol', i),
                      Content(vol', i) # Content(vol, i)
               PROVE  target = i
    OBVIOUS
  <2>1. vol \in Volumes /\ pending \in Seq(Write) /\ Way(vol, pending, target)
    BY DEF IInv, TypeOK
  <2>2. CASE Step
    <3>1. vol' = Apply(vol, Head(pending)) /\ pending # <<>>
      BY <2>2 DEF Step
    <3>2. Quiet(vol, vol', target)
      BY <2>1, <3>1, WayOn
    <3>3. /\ i \in Inodes /\ vol.itab[i].type = "reg" /\ vol'.itab[i].type = "reg"
      BY DEF is_regular_file, IsType
    <3>4. NoHoles(vol)
      BY <2>1, WayGuards DEF Guarded, Safe
    <3>5. ASSUME target # i PROVE FALSE
      <4>1. Alike(vol, vol', i)
        BY <3>2, <3>3, <3>5 DEF Quiet, Calm
      <4> QED BY <2>1, <3>3, <3>4, <4>1, AlikeContent
    <3> QED BY <3>5
  <2>3. CASE ~Step
    <3>1. vol' = vol
      BY <2>3 DEF Next, Create, Delete, Mkdir, Rmdir, WriteFile, Kill, Start, vars
    <3> QED BY <3>1
  <2> QED BY <2>2, <2>3
<1> QED BY <1>1, InitGuarded, StepGuarded, PTL DEF Spec, OthersKeepTheirContent
===============================================================================
