--------------------------- MODULE IndirectBlocks ---------------------------
(***************************************************************************)
(* Files larger than their direct blocks: i_block[12] names an indirect    *)
(* block, whose words are the numbers of further blocks (inode.c:62-182).  *)
(* An indirect block is an ordinary block that allocate_block hands out    *)
(* as it was left, so words that a file, a directory or another indirect   *)
(* block left in it count as block numbers from then on.                   *)
(*                                                                         *)
(* Files and directories have their names in the root directory.  Files    *)
(* are written in whole blocks, each at most at the end of the file, and   *)
(* the write of one block is a step.                                       *)
(***************************************************************************)
EXTENDS ImageProps

VARIABLES
  vol,      \* the image, but for what ind and size hold
  ind,      \* i_block[12] of every inode, 0 if there is none
  size,     \* i_size of every file written here, in blocks
  leftovers \* history: some indirect block was not zero when it was taken

vars == <<vol, ind, size, leftovers>>

\* The block number that a word stands for in an indirect block: a "." or ".."
\* that is left from a directory is its inode's number, text a number no image
\* has.
Beyond == BitmapBits + 1
NumberIn(w) ==
  IF w.tag = "block" THEN w.number
  ELSE IF w.tag = "entry" /\ w.ino # Bad THEN w.ino
  ELSE IF w.tag = "zero" THEN 0
  ELSE Beyond

AllIndex == 0 .. NDirect + Slots - 1  \* block indexes a file may have
Words(v, b) == {NumberIn(v.blk[b][t]) : t \in Slot} \ {0}

\* Operations take and give the whole image, s.
State(v, in, sz) == [vol |-> v, ind |-> in, size |-> sz]

\* get_inode_block, -1 where it fails.
BlockAtIndex(s, i, k) ==
  IF k < NDirect THEN get_inode_block(s.vol, i, k)
  ELSE IF s.ind[i] = 0 THEN 0
  ELSE IF Readable(s.vol, s.ind[i]) THEN NumberIn(s.vol.blk[s.ind[i]][k - NDirect + 1])
  ELSE -1

\* free_block on each block of a set.
FreeEach(v, bs) ==
  LET freed == bs \cap 1 .. MaxBlocks
  IN  [v EXCEPT !.bmap = @ \ freed, !.bfree = (@ + Cardinality(freed)) % CountMod]

\* delete_inode's way with indirect block b: every word of it is freed, if it
\* can be read, then the block itself.
FreeIndirect(v, b) ==
  IF b = 0 THEN v ELSE FreeEach(v, (IF Readable(v, b) THEN Words(v, b) ELSE {}) \cup {b})

\* Faulty variants: the block's entries in the indirect block are not freed; the
\* pointer to the indirect block stays.
delete_file_KeepsIndirect(s, i) ==
  [s EXCEPT !.vol = delete_inode(@, i), !.ind[i] = 0, !.size[i] = 0]
delete_file_KeepsPointer(s, i) ==
  [s EXCEPT !.vol = delete_inode(FreeIndirect(@, s.ind[i]), i), !.size[i] = 0]

delete_file(s, i) ==
  [s EXCEPT !.vol = delete_inode(FreeIndirect(@, s.ind[i]), i), !.ind[i] = 0, !.size[i] = 0]

\* Block b is entered for index k in the indirect block of i, which is there.
Enter(s, i, k, b) ==
  LET words == IF Readable(s.vol, s.ind[i]) THEN s.vol.blk[s.ind[i]] ELSE ZeroBlock
  IN  [s EXCEPT !.vol = write_block(@, s.ind[i], [words EXCEPT ![k - NDirect + 1] = BlockNo(b)])]

\* What allocate_block gave, a, in the image.
Took(s, a) == [s EXCEPT !.vol = a.vol]

\* The rest of set_inode_block and of the write loop's test of it, where a is
\* what allocate_block gave for the pointers: without a block for them, block b
\* is given back.
EnterInNew(s, a, i, k, b) ==
  IF a.ret = 0 THEN [s EXCEPT !.vol = FreeEach(@, {b})]
  ELSE Enter([Took(s, a) EXCEPT !.ind[i] = a.ret], i, k, b)
AttachNew(s, i, k, b) ==
  IF k < NDirect THEN [s EXCEPT !.vol = set_inode_block(@, i, k, b)]
  ELSE IF s.ind[i] = 0 THEN EnterInNew(s, allocate_block(s.vol), i, k, b)
  ELSE Enter(s, i, k, b)

\* Faulty variant: what is attached need not be a block.
GiveBlock_Untested(s, a, i, k) == AttachNew(Took(s, a), i, k, a.ret)

\* The block for index k of i, allocated and attached if there is none.
GiveBlock(s, a, i, k) == IF a.ret = 0 THEN s ELSE AttachNew(Took(s, a), i, k, a.ret)
WithBlock(s, i, k) ==
  IF BlockAtIndex(s, i, k) = 0 THEN GiveBlock(s, allocate_block(s.vol), i, k) ELSE s

\* Faulty variant: the size follows although the block cannot be read.
PutText_CountsUnread(s, i, k, b, d) ==
  IF b <= 0 THEN s
  ELSE [s EXCEPT !.vol.blk[b] = [t \in Slot |-> Text(d)], !.size[i] = Max({@, k + 1})]

\* The text reaches the block now at index k, if it can be read, and the size
\* follows.
PutText(s, i, k, b, d) ==
  IF b <= 0 \/ ~Readable(s.vol, b) THEN s
  ELSE [s EXCEPT !.vol = write_block(@, b, [t \in Slot |-> Text(d)]), !.size[i] = Max({@, k + 1})]
PutTextAt(s, i, k, d) == PutText(s, i, k, BlockAtIndex(s, i, k), d)
write_block_of_file(s, i, k, d) == PutTextAt(WithBlock(s, i, k), i, k, d)

----------------------------------------------------------------------------
Init ==
  /\ vol = FormattedVolume
  /\ ind = [i \in Inodes |-> 0]
  /\ size = [i \in Inodes |-> 0]
  /\ leftovers = FALSE

Files == {i \in vol.imap \ {1} : is_regular_file(vol, i)}
NodeOf(n) == find_directory_entry(vol, RootIno, n)

Become(s) == vol' = s.vol /\ ind' = s.ind /\ size' = s.size

\* create_inode clears the inode it returns.
Cleared(f) == [i \in Inodes |-> IF i = allocate_inode(vol).ret THEN 0 ELSE f[i]]

Create(n) ==
  /\ NodeOf(n) = 0
  /\ is_directory(vol, RootIno)
  /\ Become(State(NewFile(vol, RootIno, n), Cleared(ind), Cleared(size)))
  /\ UNCHANGED leftovers

Delete(n) ==
  /\ is_regular_file(vol, NodeOf(n))
  /\ Become(delete_file(State(remove_directory_entry(vol, RootIno, n).vol, ind, size), NodeOf(n)))
  /\ UNCHANGED leftovers

Mkdir(n) ==
  /\ NodeOf(n) = 0
  /\ Become(State(MakeDirectory(vol, RootIno, n).vol, Cleared(ind), Cleared(size)))
  /\ UNCHANGED leftovers

\* It may be refused, for a directory that came with entries in its block.
Rmdir(n) ==
  /\ Become(State(delete_directory(vol, RootIno, [abs |-> TRUE, comps |-> <<n>>]).vol, ind, size))
  /\ UNCHANGED leftovers

\* Some indirect block that s has and the image had not held something.
TakesLeftovers(s) == \E i \in Inodes : ind[i] = 0 /\ s.ind[i] # 0 /\ vol.blk[s.ind[i]] # ZeroBlock

Write(n, k, d) ==
  /\ is_regular_file(vol, NodeOf(n))
  /\ k <= size[NodeOf(n)]
  /\ \E s \in {write_block_of_file(State(vol, ind, size), NodeOf(n), k, d)} :
       Become(s) /\ leftovers' = (leftovers \/ TakesLeftovers(s))

Next == \E n \in Names :
          \/ Create(n) \/ Delete(n) \/ Mkdir(n) \/ Rmdir(n)
          \/ \E k \in AllIndex, d \in Data : Write(n, k, d)

Spec == Init /\ [][Next]_vars

----------------------------------------------------------------------------
\* Every variable has its type; a block holds entries, text or numbers.
TypeOK ==
  /\ vol \in Volumes
  /\ ind \in [Inodes -> 0 .. BitmapBits]
  /\ size \in [Inodes -> 0 .. NDirect + Slots]
  /\ leftovers \in BOOLEAN

\* The places that name a block: <<i, k>> for index k of inode i, <<i, -1>> for
\* its indirect block.
Place == Inodes \X (AllIndex \cup {-1})
NamedAt(p) ==
  IF p[2] = -1 THEN ind[p[1]] ELSE BlockAtIndex(State(vol, ind, size), p[1], p[2])
Places == {p \in Place : NamedAt(p) # 0}

\* As long as every indirect block was zero when it was taken, each block has at
\* most one owner, is marked and is not reserved: through the order in which
\* write_inode_data takes the block and set_inode_block the indirect block, and
\* where the second of them fails.
OneOwnerUnlessLeftovers ==
  ~leftovers => /\ \A p \in Places : NamedAt(p) \in vol.bmap /\ NamedAt(p) > Reserved
                /\ \A p, q \in Places : NamedAt(p) = NamedAt(q) => p = q

\* Then also every marked block has an owner: deletion (inode.c:62-86) and the
\* write that breaks off (inode.c:273-277) give all blocks back, but those past
\* MAX_BLOCKS, which free_block ignores.
BlocksComeBackUnlessLeftovers ==
  ~leftovers => \A b \in vol.bmap : b \in 1 .. Reserved \/ b > MaxBlocks
                                   \/ \E p \in Places : NamedAt(p) = b

\* Then also every block of a file below its size is there and can be read.
NoHolesUnlessLeftovers ==
  ~leftovers => \A i \in Files : \A k \in 0 .. size[i] - 1 :
                  BlockAtIndex(State(vol, ind, size), i, k) \in 1 .. vol.end - 1
=============================================================================
