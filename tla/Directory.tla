------------------------------ MODULE Directory ------------------------------
(***************************************************************************)
(* Directories: the entries kept in the blocks of a directory, the         *)
(* resolution of paths over them, and the creation and removal of a        *)
(* directory, from src/src/directory.c, with the path of the prompt from   *)
(* src/src/commands.c.  The session is root's, so every check_permission   *)
(* on an inode the table holds succeeds (inode.c:376).                     *)
(*                                                                         *)
(* A path is [abs, comps]: whether it starts with a slash, and its names.  *)
(***************************************************************************)
EXTENDS Volume, Sequences, SequencesExt

\* What a scan takes for entry.inode: anything but an entry or zero is a number
\* that no inode has; text is four printable characters.
EntryIno(w) == IF w.tag = "entry" THEN w.ino ELSE IF w.tag = "zero" THEN 0 ELSE Bad
IsFree(w)   == EntryIno(w) = 0
IsNamed(w, n) == w.tag = "entry" /\ w.name = n

FirstSlot(v, b, Hit(_)) == Min({s \in Slot : Hit(v.blk[b][s])})
HasSlot(v, b, Hit(_))   == \E s \in Slot : Hit(v.blk[b][s])

(***************************************************************************)
(* The loop the directory operations share walks the direct blocks and     *)
(* stops at the first that is missing, unreadable, or holds a hit.         *)
(***************************************************************************)
ScanStop(v, d, Hit(_)) ==
  LET stops == {k \in Index : LET b == get_inode_block(v, d, k)
                              IN  b = 0 \/ ~Readable(v, b) \/ HasSlot(v, b, Hit)}
  IN  IF stops = {} THEN NDirect ELSE Min(stops)

\* Where the first entry of name n in d is; block 0 when there is none.
Locate(v, d, n) ==
  LET Hit(w) == IsNamed(w, n)
      k == ScanStop(v, d, Hit)
      b == get_inode_block(v, d, k)
  IN  IF d \in Inodes /\ k < NDirect /\ b # 0 /\ Readable(v, b)
      THEN [block |-> b, slot |-> FirstSlot(v, b, Hit)]
      ELSE [block |-> 0, slot |-> 0]

\* The inode number of the entry found, 0 when find_directory_entry fails.
FoundIno(v, at) == IF at.block = 0 THEN 0 ELSE EntryIno(v.blk[at.block][at.slot])
find_directory_entry(v, d, n) == FoundIno(v, Locate(v, d, n))

PutEntry(v, b, words, s, n, c) ==
  Done(increment_link_count(write_block(v, b, [words EXCEPT ![s] = Entry(n, c)]), c))
PutInNewBlock(a, n, c) ==
  IF a.ret = 0 THEN Fail(a.vol) ELSE PutEntry(a.vol, a.ret, ZeroBlock, 1, n, c)

\* The first free entry of d is taken; a block added to d is written zeroed.
add_directory_entry(v, d, n, c) ==
  LET k == ScanStop(v, d, IsFree)
      b == get_inode_block(v, d, k)
  IN  IF d \notin Inodes \/ k = NDirect THEN Fail(v)
      ELSE IF b = 0 THEN PutInNewBlock(BlockFor(v, d, k), n, c)
      ELSE IF ~Readable(v, b) THEN Fail(v)
      ELSE PutEntry(v, b, v.blk[b], FirstSlot(v, b, IsFree), n, c)

\* A second entry, when the first could be added.
AddAfter(r, d, n, c) == IF r.ret = -1 THEN r ELSE add_directory_entry(r.vol, d, n, c)

\* The entry's inode number becomes 0; the name that stays behind it is never
\* looked at again, so the word is as good as zero.
ClearEntry(v, at) ==
  IF at.block = 0 THEN Fail(v)
  ELSE Done(decrement_link_count(
              write_block(v, at.block, [v.blk[at.block] EXCEPT ![at.slot] = Zero]),
              v.blk[at.block][at.slot].ino))
remove_directory_entry(v, d, n) == ClearEntry(v, Locate(v, d, n))

create_dot_entries(v, d, p) ==
  AddAfter(add_directory_entry(v, d, Dot, d), d, DotDot, p)

\* read_directory_entries: the entries up to the first block missing or
\* unreadable, whose number delete_directory compares with 2.
EntryCount(v, d) ==
  LET ends == {k \in Index : LET b == get_inode_block(v, d, k) IN b = 0 \/ ~Readable(v, b)}
      seen == {k \in Index : \A e \in ends : k < e}
  IN  Cardinality({p \in seen \X Slot :
                     EntryIno(v.blk[get_inode_block(v, d, p[1])][p[2]]) # 0})

----------------------------------------------------------------------------
(* Paths *)

StartOf(cwd, p) == IF p.abs THEN RootIno ELSE cwd

\* The names are looked up one after the other, in whatever inode the last
\* one led to, directory or not; 0 when one is not found.
Resolve(v, start, comps) ==
  LET at[k \in 0 .. Len(comps)] ==
        IF k = 0 THEN start ELSE find_directory_entry(v, at[k - 1], comps[k])
  IN  at[Len(comps)]
path_to_inode(v, cwd, p)    == Resolve(v, StartOf(cwd, p), p.comps)
get_parent_inode(v, cwd, p) == Resolve(v, StartOf(cwd, p), Front(p.comps))
PrefixOf(p, k) == [p EXCEPT !.comps = SubSeq(@, 1, k)]

(***************************************************************************)
(* get_cwd_path climbs from the working directory to the root by the ".."  *)
(* entries.  Within the blocks of an inode, it keeps the match of the LAST *)
(* block that holds one, missing blocks skipped; with none it takes the    *)
(* root for the parent.                                                    *)
(***************************************************************************)
LastBlock(v, d, Hit(_)) ==
  LET ks == {k \in Index : LET b == get_inode_block(v, d, k)
                           IN  b # 0 /\ Readable(v, b) /\ HasSlot(v, b, Hit)}
  IN  IF d \notin Inodes \/ ks = {} THEN 0 ELSE get_inode_block(v, d, Max(ks))

LastMatch(v, d, Hit(_)) ==
  LET b == LastBlock(v, d, Hit) IN IF b = 0 THEN {} ELSE {v.blk[b][FirstSlot(v, b, Hit)]}

\* Faulty variant: without a ".." the climb stays where it is.
ParentOf_Stays(v, i) ==
  LET Hit(w) == IsNamed(w, DotDot)
      found  == LastMatch(v, i, Hit)
  IN  IF found = {} THEN i ELSE (CHOOSE w \in found : TRUE).ino

ParentOf(v, i) ==
  LET Hit(w) == IsNamed(w, DotDot)
      found  == LastMatch(v, i, Hit)
  IN  IF found = {} THEN RootIno ELSE (CHOOSE w \in found : TRUE).ino

\* The name the path gets for i: nothing when its parent has no "." or no
\* entry for i.
NameIn(v, d, i) ==
  LET Hit(w) == EntryIno(w) = i
      found  == LastMatch(v, d, Hit)
  IN  IF find_directory_entry(v, d, Dot) = 0 \/ found = {} THEN <<>>
      ELSE <<(CHOOSE w \in found : TRUE).name>>

\* The inodes of the climb, cut after MaxInodes steps: each leads to one parent, so
\* a climb that has not met the root by then never does.
Climb(v, cwd) ==
  LET at[n \in 0 .. MaxInodes] ==
        LET below == at[n - 1]
        IN  IF n = 0 THEN cwd
            ELSE IF below = RootIno THEN below
            ELSE ParentOf(v, below)
  IN  at
ClimbEnds(v, cwd) == Climb(v, cwd)[MaxInodes] = RootIno

get_cwd_path(v, cwd) ==
  LET at == Climb(v, cwd)
      path[n \in 0 .. MaxInodes] ==
        IF n = 0 THEN <<>>
        ELSE IF at[n - 1] = RootIno THEN path[n - 1]
        ELSE NameIn(v, at[n], at[n - 1]) \o path[n - 1]
  IN  path[MaxInodes]

----------------------------------------------------------------------------
(* Creation and removal *)

\* A directory's inode i and block b, as create_inode and allocate_block return
\* them, get their entries and their name n in the parent d; the inode goes
\* again when anything is missing.
FillDirectory(i, b, d, n) ==
  LET made == AddAfter(create_dot_entries(set_inode_block(b.vol, i, 0, b.ret), i, d), d, n, i)
  IN  IF b.ret = 0 THEN Fail(delete_inode(b.vol, i))
      ELSE IF made.ret = -1 THEN Fail(delete_inode(made.vol, i))
      ELSE made

\* create_directory once the parent d of name n is known.  A name that exists
\* is a success, whatever it names.
MakeDirectory(v, d, n) ==
  LET i == create_inode(v, "dir")
  IN  IF ~is_directory(v, d) THEN Fail(v)
      ELSE IF find_directory_entry(v, d, n) # 0 THEN Done(v)
      ELSE FillDirectory(i.ret, allocate_block(i.vol), d, n)

\* Faulty variant: the inode stays when its name does not fit.
NewFile_KeepsInode(v, d, n) ==
  LET i == create_inode(v, "reg") IN add_directory_entry(i.vol, d, n, i.ret).vol

\* A file's inode and its name n in d; the inode goes again when the name does
\* not fit.
NewFile(v, d, n) ==
  LET i    == create_inode(v, "reg")
      link == add_directory_entry(i.vol, d, n, i.ret)
  IN  IF link.ret = -1 THEN delete_inode(link.vol, i.ret) ELSE link.vol

\* Faulty variant: one entry too many counts as empty.
delete_directory_AllowsOneName(v, cwd, p) ==
  LET i == path_to_inode(v, cwd, p)
      d == get_parent_inode(v, cwd, p)
      r == remove_directory_entry(v, d, Last(p.comps))
  IN  IF ~is_directory(v, i) \/ EntryCount(v, i) > 3 \/ d = 0 \/ r.ret = -1 THEN Fail(v)
      ELSE Done(delete_inode(r.vol, i))

\* cmd_rmdir's delete_directory.
delete_directory(v, cwd, p) ==
  LET i == path_to_inode(v, cwd, p)
      d == get_parent_inode(v, cwd, p)
      r == remove_directory_entry(v, d, Last(p.comps))
  IN  IF ~is_directory(v, i) \/ EntryCount(v, i) > 2 \/ d = 0 \/ r.ret = -1 THEN Fail(v)
      ELSE Done(delete_inode(r.vol, i))
=============================================================================
