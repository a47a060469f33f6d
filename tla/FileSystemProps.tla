--------------------------- MODULE FileSystemProps ---------------------------
(***************************************************************************)
(* What the file system promises, stated of the module FileSystem.         *)
(***************************************************************************)
EXTENDS FileSystem, ImageProps

\* Every variable has its type.  Offsets of descriptors and of the write that
\* runs stay within the direct blocks, which StartWrite bounds.
TypeOK ==
  /\ vol \in Volumes
  /\ files \in [1 .. MaxOpen -> FileType]
  /\ cwd \in 0 .. MaxInodes
  /\ user \in {"none", "root"}
  /\ cmd \in CmdType
  /\ cmd.op = "mkdir" => cmd.level <= Len(cmd.path.comps)
  /\ cmd.op = "write" => cmd.off + cmd.left <= MaxFileWords /\ files[cmd.slot].open

----------------------------------------------------------------------------
(* Blocks *)

\* A block has one owner: whatever commands run, on live and on freed inodes,
\* through descriptors of deleted files, with the disk or the inode table full
\* and restarts in between, no two pointers of the inode table name the same
\* block, every block named is marked in the bitmap (so that allocate_block
\* cannot hand it out again) and none is one of the reserved blocks.
BlockOwnership == PointersMarked(vol) /\ NoBlockShared(vol) /\ ReservedUntouched(vol)

BlocksOf(v, is) == {BlockAt(v, p) : p \in {q \in Pointers(v) : q[1] \in is}}
LostBlocks(v)   == v.bmap \ (1 .. Reserved \cup BlocksOf(v, v.imap))

\* A block leaves the reach of every allocated inode while it stays marked
\* only in three ways: free_block refuses it, because it is one of the blocks
\* beyond MAX_BLOCKS that allocate_block hands out; a write goes through the
\* descriptor of a file that was deleted (nothing in cmd_write asks whether the
\* inode is still allocated); or mkdir finds no free inode and takes the -1 for
\* a number.
LostBlocksExplained ==
  [][\A b \in LostBlocks(vol') \ LostBlocks(vol) :
       \/ b > MaxBlocks
       \/ cmd.op = "write" /\ files[cmd.slot].ino \notin vol.imap
       \/ vol.imap = Inodes]_vars

\* The words of a block are as they were, but for entries that are now zero.
EntriesCleared(old, new) ==
  \A s \in Slot : new[s] = old[s] \/ (old[s].tag = "entry" /\ new[s] = Zero)

\* What a regular file's blocks hold changes only in a write command that
\* writes to this file: no command on another file or on a directory reaches
\* them, and opening, reading and seeking leave them alone.  One thing else
\* does: remove_directory_entry does not ask what it searches, so a delete or a
\* rmdir whose path goes through the file clears an entry that a removed
\* directory left in one of its blocks, and never a word that was written.
FilesChangeOnlyByTheirWrites ==
  [][\A i \in Inodes :
       is_regular_file(vol, i) /\ is_regular_file(vol', i) =>
         \/ FileBlocks(vol', i) = FileBlocks(vol, i)
         \/ cmd.op = "write" /\ files[cmd.slot].ino = i
         \/ /\ cmd = AtPrompt
            /\ \E p \in DeletePaths \cup RmdirPaths : i = get_parent_inode(vol, cwd, p)
            /\ \A k \in Index : EntriesCleared(FileBlocks(vol, i)[k], FileBlocks(vol', i)[k])]_vars

Missing(v, i) ==
  \E x \in 0 .. v.itab[i].size - 1 : get_inode_block(v, i, x \div Slots) = 0

\* A file's size never covers a block it does not have, except by a write
\* through a descriptor whose offset was beyond the size: lseek allows no such
\* offset, so the descriptor is one of a file that was deleted, whose inode a
\* new file has taken.
HolesOnlyFromStaleOffsets ==
  [][\A i \in Inodes : Missing(vol', i) /\ ~Missing(vol, i) =>
       /\ cmd.op = "write" /\ files[cmd.slot].ino = i
       /\ files[cmd.slot].off > vol.itab[i].size]_vars

Beyond(v, f) == f.off > v.itab[f.ino].size

\* The offset of a descriptor gets beyond the size of its inode only when the
\* file is deleted under it, or when another file takes the inode since.
\* Reads, seeks, writes that break off and writes by other descriptors of the
\* file keep it within.
OffsetsPassSizeOnlyByDelete ==
  [][\A f \in 1 .. MaxOpen :
       /\ files[f].open /\ ~Beyond(vol, files[f])
       /\ files'[f].open /\ Beyond(vol', files'[f])
       => files[f].ino \notin vol.imap \cap vol'.imap]_vars

----------------------------------------------------------------------------
(* Counters *)

Delta(old, new) == (Cardinality(old) - Cardinality(new)) % CountMod

\* Between mounts, the counters that status prints move with the bitmaps: a
\* block or an inode that is allocated or freed counts once, on the paths that
\* fail half way too.  The one exception is a delete that an entry left in a
\* file's block leads to the number of an inode nobody has: free_inode does not
\* ask, and counts it as freed.
CountersFollowBitmaps ==
  [][\/ Mount \/ Restart
     \/ /\ (vol'.bfree - vol.bfree) % CountMod = Delta(vol.bmap, vol'.bmap)
        /\ \/ (vol'.ifree - vol.ifree) % CountMod = Delta(vol.imap, vol'.imap)
           \/ /\ \E p \in DeletePaths : path_to_inode(vol, cwd, p) \in Inodes \ vol.imap
              /\ vol'.imap = vol.imap
              /\ (vol'.ifree - vol.ifree) % CountMod = 1 % CountMod]_vars

----------------------------------------------------------------------------
(* Names *)

\* The names and the inodes in use form a tree: an allocated inode has one name
\* (there are no hard links, README.md:230, and nothing is lost when a create, a
\* mkdir or a rmdir fails half way), every allocated inode is reached from the
\* root, and a name leads to an allocated inode or, when create found no inode
\* left, to a number outside the table.  So the recursion of
\* calculate_directory_size (directory.c:141) ends and counts no file twice.
\* Inodes 1 and 2 have no name.
NamesFormATree == NamesMatchInodes(vol) /\ vol.imap \ {1} \subseteq Named(vol)

\* The climb of get_cwd_path ends, so that it gets its path (commands.c:635) and the
\* next command is read.  Blocks handed out uncleared break this (PromptComesBack of
\* PromptLoop says what is left of it).
PromptReturns == cmd = AtPrompt => ClimbEnds(vol, cwd)

----------------------------------------------------------------------------
(* Descriptors and commands *)

\* Every mkdir and write that starts ends, and the prompt comes back.
CommandsEnd == cmd # AtPrompt ~> cmd = AtPrompt
=============================================================================
