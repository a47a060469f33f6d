----------------------------- MODULE DiskWrites -----------------------------
(***************************************************************************)
(* The commands as the image sees them: one block written at a time.       *)
(* Between two writes a signal may end the process (main.c:10-14), and the *)
(* next process mounts what is there; nothing repairs it.  A command is    *)
(* worked out when it starts, as the list of its writes in the code's      *)
(* order, since nothing else changes the image while it runs.              *)
(*                                                                         *)
(* Paths are sequences of names from the root, none of them "." or "..".   *)
(* The two bitmaps have a block each, so that setting one bit is a write;  *)
(* writing an inode rewrites its block with the other inodes as they were. *)
(***************************************************************************)
EXTENDS ImageProps

CONSTANTS
  FilePaths,  \* the paths given to create and delete
  DirPaths,   \* the paths given to mkdir and rmdir
  WritePaths, \* the paths of the files that are written
  MaxKills    \* bound: how many commands are killed

ASSUME WritesAssumption ==
  /\ MaxKills \in Nat /\ Dot \notin Names /\ DotDot \notin Names
  /\ \A p \in FilePaths \cup DirPaths \cup WritePaths : p \in Seq(Names) /\ p # <<>>

VARIABLES
  vol,     \* the image
  pending, \* the writes the running command has still to do
  target,  \* the file the running command writes to, 0 if none
  kills    \* how many commands were killed

vars == <<vol, pending, target, kills>>

BlockBit(b, on)   == [kind |-> "block bit", at |-> b, on |-> on]
InodeBit(i, on)   == [kind |-> "inode bit", at |-> i, on |-> on]
NewSlot(i, t)     == [kind |-> "new inode", at |-> i, type |-> t]
ClearSlot(i)      == [kind |-> "cleared inode", at |-> i]
Pointer(i, k, b)  == [kind |-> "pointer", at |-> i, index |-> k, block |-> b]
Links1(i, up)     == [kind |-> "links", at |-> i, up |-> up]
Size(i, n)        == [kind |-> "size", at |-> i, size |-> n]
BlockOf(b, words) == [kind |-> "block", at |-> b, words |-> words]

Write ==
  [kind : {"block bit"}, at : Blocks, on : BOOLEAN]
  \cup [kind : {"inode bit"}, at : Inodes, on : BOOLEAN]
  \cup [kind : {"new inode"}, at : Inodes, type : {"reg", "dir"}]
  \cup [kind : {"cleared inode"}, at : Inodes]
  \cup [kind : {"pointer"}, at : Inodes, index : Index, block : Blocks]
  \cup [kind : {"links"}, at : Inodes, up : BOOLEAN]
  \cup [kind : {"size"}, at : Inodes, size : 0 .. MaxFileWords]
  \cup [kind : {"block"}, at : Blocks, words : [Slot -> Word]]

WithBit(set, w) == IF w.on THEN set \cup {w.at} ELSE set \ {w.at}

\* One write of a bitmap, of an inode or of a block.
Apply(v, w) ==
  CASE w.kind = "block bit"     -> [v EXCEPT !.bmap = WithBit(v.bmap, w)]
    [] w.kind = "inode bit"     -> [v EXCEPT !.imap = WithBit(v.imap, w)]
    [] w.kind = "new inode"     -> [v EXCEPT !.itab[w.at] = NewInode(w.type)]
    [] w.kind = "cleared inode" -> [v EXCEPT !.itab[w.at] = ZeroInode]
    [] w.kind = "pointer"       -> set_inode_block(v, w.at, w.index, w.block)
    [] w.kind = "links"         -> IF w.up THEN increment_link_count(v, w.at)
                                   ELSE decrement_link_count(v, w.at)
    [] w.kind = "size"          -> [v EXCEPT !.itab[w.at].size = w.size]
    [] w.kind = "block"         -> write_block(v, w.at, w.words)

----------------------------------------------------------------------------
(* A trace is the image a command has got to, its writes so far, and       *)
(* whether the last operation failed.                                      *)

Trace(v)  == [vol |-> v, log |-> <<>>, ret |-> 0]
Do(t, w)  == [vol |-> Apply(t.vol, w), log |-> Append(t.log, w), ret |-> 0]
Failed(t) == [t EXCEPT !.ret = -1]

\* A number outside the inode table is not written.
DoInode(t, w) == IF w.at \in Inodes THEN Do(t, w) ELSE t

Attach(t, i, k, b) == DoInode(t, Pointer(i, k, b))

PutLinked(t, b, words, s, n, c) ==
  DoInode(Do(t, BlockOf(b, [words EXCEPT ![s] = Entry(n, c)])), Links1(c, TRUE))

\* add_directory_entry: a block added to d is attached before it is cleared.
AddInNew(t, d, k, n, c, b) ==
  IF b = 0 THEN Failed(t)
  ELSE PutLinked(Attach(Do(t, BlockBit(b, TRUE)), d, k, b), b, ZeroBlock, 1, n, c)
AddAt(t, d, k, b, n, c) ==
  IF k = NDirect THEN Failed(t)
  ELSE IF b = 0 THEN AddInNew(t, d, k, n, c, allocate_block(t.vol).ret)
  ELSE IF ~Readable(t.vol, b) THEN Failed(t)
  ELSE PutLinked(t, b, t.vol.blk[b], FirstSlot(t.vol, b, IsFree), n, c)
AddToIndex(t, d, k, n, c) ==
  AddAt(t, d, k, IF k < NDirect THEN get_inode_block(t.vol, d, k) ELSE 0, n, c)
AddEntry(t, d, n, c) ==
  IF t.ret = -1 \/ d \notin Inodes THEN Failed(t)
  ELSE AddToIndex(t, d, ScanStop(t.vol, d, IsFree), n, c)

\* remove_directory_entry of the entry at, which leads to c.
RemoveEntry(t, at, c) ==
  DoInode(Do(t, BlockOf(at.block, [t.vol.blk[at.block] EXCEPT ![at.slot] = Zero])),
          Links1(c, FALSE))

\* Faulty variant: a pointer that is 0 is freed too.
FreeBlock_Unchecked(t, b) == Do(t, BlockBit(b, FALSE))

\* free_block ignores block 0 and blocks beyond MAX_BLOCKS.
FreeBlock(t, b) == IF b \in 1 .. MaxBlocks THEN Do(t, BlockBit(b, FALSE)) ELSE t

\* delete_inode frees the blocks one by one, then clears the inode, then frees
\* it.
FreeBlocks(t, i) ==
  LET freed[n \in 0 .. NDirect] ==
        IF n = 0 THEN t ELSE FreeBlock(freed[n - 1], t.vol.itab[i].ptr[n - 1])
  IN  freed[NDirect]

\* Faulty variant: the inode is not cleared.
DeleteInode_KeepsSlot(t, i) ==
  IF i \notin Inodes THEN t ELSE Do(FreeBlocks(t, i), InodeBit(i, FALSE))

DeleteInode(t, i) ==
  IF i \notin Inodes THEN t
  ELSE Do(Do(FreeBlocks(t, i), ClearSlot(i)), InodeBit(i, FALSE))

\* create_inode got number i.
CreateInode(t, i, type) ==
  IF i \notin Inodes THEN t ELSE Do(Do(t, InodeBit(i, TRUE)), NewSlot(i, type))

OrDelete(t, i) == IF t.ret = -1 THEN Failed(DeleteInode(t, i)) ELSE t

\* cmd_create
CreateAs(t, d, n, i) == OrDelete(AddEntry(CreateInode(t, i, "reg"), d, n, i), i)
CreateWrites(v, d, n) == CreateAs(Trace(v), d, n, allocate_inode(v).ret)

\* create_directory, its parent found
MkdirAs(t, d, n, i, b) ==
  IF b = 0 THEN Failed(DeleteInode(t, i))
  ELSE OrDelete(AddEntry(AddEntry(AddEntry(
         Attach(Do(t, BlockBit(b, TRUE)), i, 0, b), i, Dot, i), i, DotDot, d), d, n, i), i)
MkdirWrites(v, d, n) ==
  IF ~is_directory(v, d) THEN Failed(Trace(v))
  ELSE IF find_directory_entry(v, d, n) # 0 THEN Trace(v)
  ELSE MkdirAs(CreateInode(Trace(v), allocate_inode(v).ret, "dir"), d, n,
               allocate_inode(v).ret, allocate_block(v).ret)

\* Faulty variant: the inode goes before its name.
RemoveWrites_InodeFirst(v, at, i) == RemoveEntry(DeleteInode(Trace(v), i), at, i)

\* cmd_delete and delete_directory, once they have found the entry and its
\* inode and refused nothing.
RemoveWrites(v, at, i) == DeleteInode(RemoveEntry(Trace(v), at, i), i)

\* Faulty variant: the pointer is written before the bitmap.
WriteAt_PointerFirst(t, i, k, b, off, d) ==
  IF b = 0 THEN Failed(t)
  ELSE IF get_inode_block(t.vol, i, k) = 0 THEN Do(Attach(t, i, k, b), BlockBit(b, TRUE))
  ELSE t

\* cmd_write of text d at offset off to the end of the block, by an open file:
\* the block b at index k is there, or was found free.
WriteAt(t, i, k, b, off, d) ==
  IF b = 0 THEN Failed(t)
  ELSE IF get_inode_block(t.vol, i, k) = 0 THEN Attach(Do(t, BlockBit(b, TRUE)), i, k, b)
  ELSE t
Fill(t, b, pos, d) ==
  IF t.ret = -1 \/ ~Readable(t.vol, b) THEN Failed(t)
  ELSE Do(t, BlockOf(b, [s \in Slot |-> IF s > pos THEN Text(d) ELSE t.vol.blk[b][s]]))
Extend(t, i, size) ==
  IF t.ret = -1 \/ size <= t.vol.itab[i].size THEN t
  ELSE Do(t, Size(i, size))
WriteTo(v, i, k, b, off, d) ==
  Extend(Fill(WriteAt(Trace(v), i, k, b, off, d), b, off % Slots, d), i, (k + 1) * Slots)
WriteWrites(v, i, off, d) ==
  WriteTo(v, i, off \div Slots, BlockFor(v, i, off \div Slots).ret, off, d)

----------------------------------------------------------------------------
Init == vol = FormattedVolume /\ pending = <<>> /\ target = 0 /\ kills = 0

ParentIn(v, p) == Resolve(v, RootIno, Front(p))
NodeIn(v, p)   == Resolve(v, RootIno, p)

Start(t, i) == pending' = t.log /\ target' = i /\ UNCHANGED <<vol, kills>>

Create ==
  /\ pending = <<>>
  /\ \E p \in FilePaths :
       /\ is_directory(vol, ParentIn(vol, p))
       /\ Start(CreateWrites(vol, ParentIn(vol, p), Last(p)), 0)

Delete ==
  /\ pending = <<>>
  /\ \E p \in FilePaths :
       /\ NodeIn(vol, p) \in Inodes /\ ~is_directory(vol, NodeIn(vol, p))
       /\ Start(RemoveWrites(vol, Locate(vol, ParentIn(vol, p), Last(p)), NodeIn(vol, p)), 0)

\* mkdir of a path whose parent is there: a missing one is a mkdir of its own.
Mkdir ==
  /\ pending = <<>>
  /\ \E p \in DirPaths : Start(MkdirWrites(vol, ParentIn(vol, p), Last(p)), 0)

Rmdir ==
  /\ pending = <<>>
  /\ \E p \in DirPaths :
       /\ is_directory(vol, NodeIn(vol, p)) /\ EntryCount(vol, NodeIn(vol, p)) <= 2
       /\ Start(RemoveWrites(vol, Locate(vol, ParentIn(vol, p), Last(p)), NodeIn(vol, p)), 0)

WriteFile ==
  /\ pending = <<>>
  /\ \E p \in WritePaths, d \in Data :
       /\ is_regular_file(vol, NodeIn(vol, p))
       /\ \E off \in 0 .. vol.itab[NodeIn(vol, p)].size :
            /\ off < MaxFileWords
            /\ Start(WriteWrites(vol, NodeIn(vol, p), off, d), NodeIn(vol, p))

Step ==
  /\ pending # <<>>
  /\ vol' = Apply(vol, Head(pending))
  /\ pending' = Tail(pending)
  /\ UNCHANGED <<target, kills>>

\* A signal between two writes; the next process starts at its prompt.
Kill ==
  /\ pending # <<>> /\ kills < MaxKills
  /\ pending' = <<>>
  /\ target' = 0
  /\ kills' = kills + 1
  /\ vol' = vol

Next == Create \/ Delete \/ Mkdir \/ Rmdir \/ WriteFile \/ Step \/ Kill

Spec == Init /\ [][Next]_vars

----------------------------------------------------------------------------
\* Every variable has its type.
TypeOK ==
  /\ vol \in Volumes
  /\ pending \in Seq(Write)
  /\ target \in Inodes \cup {0}
  /\ kills \in 0 .. MaxKills

\* However many commands are killed between two of their writes, no two inodes
\* that names lead to share a block, and their blocks are marked and none of
\* them is reserved.  A killed deletion leaves an inode that points to blocks
\* which are free and are handed out again, but no name leads to it any more:
\* the entry is cleared first (commands.c:125, directory.c:114).
NamedInodesOwnTheirBlocks ==
  LET mine == {p \in Pointers(vol) : p[1] \in Named(vol)}
  IN  /\ \A p \in mine : BlockAt(vol, p) \in vol.bmap /\ BlockAt(vol, p) > Reserved
      /\ \A p, q \in mine : BlockAt(vol, p) = BlockAt(vol, q) => p = q

\* A name leads to an inode that is in use, or outside the table, at every
\* moment: the inode is there before its name, and goes after it.  This is what
\* keeps a kill from making two names lead to one inode later.
NoNameWithoutInode ==
  \A l \in Links(vol) : InoAt(vol, l[1], l[2]) \in (vol.imap \ {1, RootIno}) \cup {Bad}

Content(v, i) == [x \in 1 .. v.itab[i].size |->
                    v.blk[get_inode_block(v, i, (x - 1) \div Slots)][((x - 1) % Slots) + 1]]

\* What is read of a file that has a name changes only while a write to it
\* runs: no other command and no kill, of whatever command, at whatever point,
\* and nothing that is done with what the kill left, reaches it.
OthersKeepTheirContent ==
  [][\A i \in Named(vol) \cap Named(vol') :
       /\ is_regular_file(vol, i) /\ is_regular_file(vol', i)
       /\ Content(vol', i) # Content(vol, i)
       => target = i]_vars

OnImage(v) == <<v.bmap, v.imap, v.itab, v.blk, v.end>>
Redone(v, log) ==
  LET done[n \in 0 .. Len(log)] == IF n = 0 THEN v ELSE Apply(done[n - 1], log[n])
  IN  done[Len(log)]
Agrees(t, v) == OnImage(Redone(vol, t.log)) = OnImage(v)

\* The writes of a command, done to the end, are what modules Volume and
\* Directory say it does in one step, in the states that kills leave too.
WritesAddUp ==
  pending = <<>> =>
  /\ \A p \in FilePaths : is_directory(vol, ParentIn(vol, p)) =>
       Agrees(CreateWrites(vol, ParentIn(vol, p), Last(p)), NewFile(vol, ParentIn(vol, p), Last(p)))
  /\ \A p \in FilePaths : is_regular_file(vol, NodeIn(vol, p)) =>
       Agrees(RemoveWrites(vol, Locate(vol, ParentIn(vol, p), Last(p)), NodeIn(vol, p)),
              delete_inode(remove_directory_entry(vol, ParentIn(vol, p), Last(p)).vol, NodeIn(vol, p)))
  /\ \A p \in DirPaths :
       /\ Agrees(MkdirWrites(vol, ParentIn(vol, p), Last(p)),
                 MakeDirectory(vol, ParentIn(vol, p), Last(p)).vol)
       /\ \A r \in {delete_directory(vol, RootIno, [abs |-> TRUE, comps |-> p])} : r.ret = 0 =>
            Agrees(RemoveWrites(vol, Locate(vol, ParentIn(vol, p), Last(p)), NodeIn(vol, p)), r.vol)
  /\ \A p \in WritePaths, d \in Data : is_regular_file(vol, NodeIn(vol, p)) =>
       \A off \in 0 .. vol.itab[NodeIn(vol, p)].size : off < MaxFileWords =>
         \A w \in {WriteChunk(vol, NodeIn(vol, p), off, Slots, d)} :
           Agrees(WriteWrites(vol, NodeIn(vol, p), off, d),
                  IF w.ret = 0 THEN w.vol
                  ELSE [w.vol EXCEPT !.itab[NodeIn(vol, p)].size = Max({@, off + w.ret})])
=============================================================================
