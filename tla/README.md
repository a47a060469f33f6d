# A TLA+ model of the EXT2 simulator

The program under `src/` is a single process that keeps a small file system in
an image file: a command loop (`src/src/commands.c`) over directories
(`directory.c`), inodes (`inode.c`), blocks and bitmaps (`disk.c`), users
(`user.c`), formatting and mounting (`ext2.c`). This directory holds TLA+
modules of it, TLC configurations that check them on small instances, and
theorems that TLAPS proves for every size.

## 1. Inventory

| Part | State | Operations | What makes it correct |
|---|---|---|---|
| Blocks and bitmaps (`disk.c`) | two bitmaps, in memory and written through; the image file | `read_block`, `write_block`, `allocate_block`, `free_block`, `allocate_inode`, `free_inode` | what is handed out was free; what is freed comes back; counters follow |
| Inode table (`disk.c`, `inode.c`) | mode, owner, size, link count, 12 direct pointers and one indirect per inode | `create_inode`, `delete_inode`, `get_inode_block`, `set_inode_block`, link counts | a block has one owner |
| File data (`inode.c`) | sizes and block contents | `read_inode_data`, `write_inode_data` | a file changes only by its own writes; the size covers blocks it has |
| Directories (`directory.c`) | entries, three to a block | `add_`, `find_`, `remove_directory_entry`, `create_directory`, `delete_directory`, path resolution | names and inodes in use match one to one |
| Prompt (`commands.c`, `get_cwd_path`) | the working directory's inode number | the climb by ".." before every command | it ends |
| Open files (`commands.c`) | 16 slots of inode, flags, offset | `open`, `close`, `read`, `write`, `lseek` | offsets stay within the file; flags are obeyed |
| Users (`user.c`) | table in block 4, current user | `login`, `logout`, `useradd` | login leads to a home directory |
| Permissions (`inode.c`, `user.c`) | modes and owners | `check_permission`, `check_user_path_access` and others | the three classes as usual |
| Image (`ext2.c`) | superblock, layout | `ext2_format`, `ext2_init` | counters true; regions disjoint |
| Process (`main.c`) | everything in memory | start, signals, end | the image survives it |

Everything runs in one thread and calls downwards: a command resolves its paths
(`directory.c`), which reads inodes and blocks, and changes the image by
writing whole blocks through. What the parts share is the image, the `fs`
structure and the working directory. There are no callbacks. The only
asynchronous event is a signal, whose handler closes the image and exits.

The hard behaviours are therefore not races but histories: state that outlives
what it was about (descriptors and working directories of what was deleted,
entries left in blocks that are handed out again, counters that are written
once), operations that fail half way (no block, no inode, no room in the
parent, a block beyond the end of the image), limits that two functions see
differently (1024 and 8192 blocks, inode 128), and a process that ends between
two steps. `PROJECT.json` lists them, each at its line.

## 2. Modules

| Module | Models | Extends |
|---|---|---|
| `Volume` | `disk.c`, the direct-block part of `inode.c`, the formatted image of `ext2.c`: operators from a volume to a volume | |
| `Directory` | `directory.c`, `get_cwd_path` | `Volume` |
| `ImageProps` | ways of looking at an image: owners of blocks, names, the tree | `Directory` |
| `FileSystem` | the process in root's session: variables, one action per command or loop iteration, `Spec`, `Fairness` | `Directory` |
| `FileSystemProps` | its properties | `FileSystem`, `ImageProps` |
| `PromptLoop` | the climb of `get_cwd_path` as a loop of its own between commands | `FileSystem` |
| `CommandLoop` | what each command returns to `command_loop`, and when that ends it | `FileSystem` |
| `AbstractFiles` | the promise: files are separate sequences of words, with descriptors that have a place in them | |
| `FileRefinement` | the mapping from `FileSystem` to `AbstractFiles` | `FileSystemProps` |
| `DiskWrites` | create, delete, write, mkdir and rmdir as single disk writes, killed between any two | `ImageProps` |
| `IndirectBlocks` | files that grow into `i_block[12]` | `ImageProps` |
| `Session` | users, login, logout, useradd, format, mount and umount of several images | `Directory` |
| `Permissions` | modes, owners, the three checks and the commands that make them | |
| `Layout` | where table, users and data lie, cell by cell | |
| `MC…` | instances for TLC: paths, users, names | the module named |
| `…Proofs` | lemmas and theorems (section 6) | the module named |

A volume is a record of the bitmaps (sets), the inode table, the blocks, the
length of the image and the two counters. A C function that changes the image
is an operator of the same name; one whose result is looked at returns
`[vol, ret]`. The variables of `FileSystem` are `vol`, `files`
(`fs.open_files`), `cwd`, `user` and `cmd`, the command that runs. Most
commands are one action. `mkdir`, which creates one directory per level of its
path, and `write`, which handles one block per iteration, are a start, a step
per iteration and, for `write`, a finish that sets size and offset: `Restart`
(a signal, quit, the end of input) may come between them. A command that is
refused changes nothing and is no step.

The other state machines look at one side of the program more closely, over the
same operators:

* `DiskWrites` computes a command as the list of its writes, in the code's
  order, and takes them one by one. `WritesAddUp` ties it to `Volume` and
  `Directory`: done to the end, the writes are the one step the other modules
  take.
* `PromptLoop` replaces the guard `ClimbEnds` of `FileSystem`, which takes the
  climb for an instant, by its iterations. `misled` is a history variable: the
  inodes whose ".." was in its block before they had the block.
* `Session` has images as records with a volume, the users saved on it and the
  owners of its inodes; format is a list of images, one per step, and login and
  useradd are lists that end with the change of owner. A process may be killed
  after any of them. `cut` is a history variable: the images on which that
  happened since they were last formatted. At first an image's path leads to
  nothing or to a file that is no image, which fails to mount.
* `Permissions` knows a file by its path. It has the modes and owners that the
  modules of root's session leave out, and none of the blocks.
* `Layout` has the table's blocks as rows of cells, and is what justifies a
  volume with the table apart from the blocks.

### How the data is abstracted

* A block is a few *words*. A word is zero, a directory entry, or a unit of
  text; in the code a block is three entries or 1024 bytes. A word keeps its
  value until it is overwritten, so blocks come with what they held. In
  `IndirectBlocks` a word may also be a block number; an entry left there reads
  as its inode's number, text as a number beyond every image.
* Read as an entry, text has an inode number outside the table (four printable
  characters) and a name that is never looked for. Text that spells an entry is
  not modelled. Read as text, an entry is just content.
* A removed entry is zero: the code clears its number and leaves the name,
  which nothing compares while the number is 0.
* `Inodes` are the numbers with a table slot; every number outside it is
  `Bad`. This includes the -1 that `create_inode` returns as a number when the
  table is full, and its callers take for one.
* Descriptors stand for slots of the table. `next_fd` gives every open a fresh
  number, so no number comes back with another file.
* `FileSystem` is root's session, for which every check succeeds. Timestamps
  are left out everywhere: nothing else depends on them.
* A path is a sequence of names and whether it starts with a slash. `/` is
  given to `cd` only; trailing slashes, and names cut at buffer sizes, are not
  given. `rmdir` is given no path that ends in "." or ".." (section 5).
* In `Volume` the inode table is apart from the blocks, which `Layout` shows
  while inode numbers stay below 9.
* In `FileSystem` files stay within the direct blocks: `StartWrite` bounds
  offsets by `MaxFileWords`. `IndirectBlocks` is about what lies beyond.
* In `Permissions` the files are there under one name each, and `rmdir`, which
  asks for the same rights as `delete`, is not among the commands. In `Session`
  root's `mkdir` and `create` are given absolute paths.

## 3. Runs

Bounds common to the runs over a volume: `MaxInodes = 6`, that is three or four
files and directories besides the root (number 1 is reserved and 2 is the
root); `NDirect = 2` pointers instead of 12, the smallest number with a first
and a later block; `Slots` 2 or 3 words to a block, where 2 makes "." and ".."
fill a block, so that every entry a directory gets needs a second one, and 3 is
the code's number; `Reserved = 1` instead of 10; one descriptor. `MaxBlocks` is
the image's length and `BitmapBits` the length of the bitmap: where `BitmapBits`
is larger, allocation reaches beyond the image as in the code (1024 and 8192).
`CountMod` and `LinkMod` are 1 where counters and link counts are not the
subject, which leaves them out of the state. Two runs have a constraint
(`indirect` and `reuse`); the others are complete.

| Run | Module | Checks | Why the instance is enough |
|---|---|---|---|
| `namespace` | `MCPromptLoop` | `NamesFormATree`, `PromptComesBack` | directories nested three deep, files, the working directory removed under the process and its inode taken again; blocks run out |
| `full` | `MCFileSystem` | `BlockOwnership`, `NamesFormATree`, `LostBlocksExplained` | four blocks in the image and one beyond; the inode table fills too; the same name for files and directories; the home removed |
| `files` | `MCFileRefinement` | `TypeOK`, `BlockOwnership`, `LostBlocksExplained`, `FilesChangeOnlyByTheirWrites`, `HolesOnlyFromStaleOffsets`, `OffsetsPassSizeOnlyByDelete`, `FilesAreSequences` | two files, two texts; one deleted while open, its inode and blocks go to the other; the disk fills |
| `reuse` | `MCPromptLoop` | `FilesChangeOnlyByTheirWrites`, `CommandsEnd`, `CountersFollowBitmaps`, `PromptComesBack` | a file takes inodes and blocks of removed directories, the working directory among them, and a delete goes through the file by the entries they left; some climbs have no end; counters wrap at 2 |
| `kills` | `MCDiskWrites` | `TypeOK`, `NamedInodesOwnTheirBlocks`, `NoNameWithoutInode`, `WritesAddUp`, `OthersKeepTheirContent` | one kill at any write of any command, then every command on what it left; a directory takes name, inode and blocks of a file |
| `indirect` | `MCIndirectBlocks` | `TypeOK`, `OneOwnerUnlessLeftovers`, `BlocksComeBackUnlessLeftovers`, `NoHolesUnlessLeftovers` | one direct pointer and four indirect ones; the second of two allocations finds no block, or one beyond the image |
| `sessions` | `MCSession` | `TypeOK`, `UsersAreOnTheImage`, `BeganAtHome`, `HomesAreOwned`, `MountedIsWhole`, `RootLostOnlyByBadMounts`, `MountOnlyLoads` | two images mounted over each other, and two files that are none at first; five users of which four fit the block and three are overrun by a failed mount; homes that do not fit, or are files |
| `access` | `MCPermissions` | `TypeOK`, `LooksByTheBits`, `HomeOpensByTheBits` | two users and root, a file and a home that change mode and owner while a descriptor is open |
| `layout_apart` | `MCLayout` | `TypeOK`, `LyingApart` | all eight inodes of the first block of the table, as many as fit, and the code's sizes |

`indirect` stops where an indirect block was taken that was not zero
(`BeforeLeftovers`): its properties say nothing beyond, and section 5 says what
the code does there. `reuse` is given a delete of `/root/f/..`, where `f` is the
file; where that has deleted a directory which still has its name, the run goes
no further (`NamesKept`). `sessions` takes the two images as symmetric, which they
are in `Next` and in every property. `MCSession` bounds who logs in to root and
the user that is added, and `InBlock` and `Covered` stand for 14 and 11 of
sixteen.

Three runs show the code doing something else than it says of itself; each was
also followed in the source.

| Run | Property | What happens |
|---|---|---|
| `prompt_hang` | `PromptReturns` | ".." entries left in a block form a cycle, and no prompt appears |
| `layout_root` | `RootIsKnown` | an inode of the second block of the table is written over the users |
| `loop_ends` | `OnlyQuitEnds` | a read or write of one byte, or a seek to 1, returns what `quit` returns |

A ".." misleads the climb when it was in the block before the inode had the
block. There are two ways to a circle. In `prompt_hang` the working directory is
removed, a file takes its inode, and the file's second block holds an old "..".
Directories alone do it where a first block, which is not cleared
(`directory.c:70`), was the second block of a mkdir that failed
(`directory.c:76-79`); that takes a parent, a leftover first block and a second
block at once, and so one block and one inode more than `namespace` has, with which
the state space is too large for a run. In `namespace` the climb ends in every
state, so what it shows of `PromptComesBack` is about removed directories whose
inodes are taken again. The condition of `PromptComesBack`, that an endless climb
goes by a misled inode, matters in `reuse`, which has the first kind of circle:
without it, the property is violated there.

Each property of a passing run has a mutant in `PROJECT.json`: a faulty variant
of one operator, kept beside it, with which TLC finds the property violated.

Deadlock is checked in every run. A `Restart`, a signal or a login is nearly
always possible, so this says nothing of the prompt that hangs, which is what
`PromptReturns` and `PromptComesBack` are for.

### Fairness

`Fairness` (`FileSystem`) says that a command that has begun takes its steps,
which the single thread does, since nothing in a command waits. It is weak
fairness of `CommandStep` with its enabling condition written out as the state
function `CommandAdvances`. `LoopFairSpec` (`PromptLoop`) adds
`WF_loopVars(ClimbStep)`: the loop of the prompt waits for nothing either.
Nothing is assumed of users: no command need ever be given, and no signal need
ever come. A write that would loop without progress violates `CommandsEnd`, as
does any cycle of steps inside one command; a climb that goes round, and by no misled
inode, violates `PromptComesBack`, since a signal is possible but never due.

### Refinement

`FilesAreSequences` is `Abstract!Spec`, where `Abstract` is `AbstractFiles` with

* `content`: for each inode in use that is a regular file, the words of its
  blocks up to its size, a hole where `read_inode_data` would stop;
* `fds`: the open slots, with inode and offset;
* `write`: the write that runs.

A step of `FileSystem` that is not about files is `Elsewhere`, which may not
change any file. The abstract specification lets a file be deleted under its
descriptors and its number be taken by another, because the program does; it
allows a write no word outside its range, a read no stop before the end but at
a hole, and a kill no loss but of the part of a write that had not reached the
size yet. The run `files` checks this on its instance; `FilesRefineSequences`
(section 6) proves it for every size and all paths.

## 4. What the properties are about

* *Blocks*: `BlockOwnership` and `LostBlocksExplained` (commands), `NamedInodesOwnTheirBlocks`
  and `OthersKeepTheirContent` (kills), `OneOwnerUnlessLeftovers` and
  `BlocksComeBackUnlessLeftovers` (indirect blocks).
* *Counters*: `CountersFollowBitmaps`.
* *Names*: `NamesFormATree`, of instances none of whose paths goes through a file
  (section 5), and `NoNameWithoutInode` under kills, which depends
  on entries being cleared before inodes and written after them.
* *Files*: `FilesAreSequences`, `FilesChangeOnlyByTheirWrites`,
  `HolesOnlyFromStaleOffsets`, `OffsetsPassSizeOnlyByDelete`,
  `NoHolesUnlessLeftovers`.
* *Progress*: `CommandsEnd`, and `PromptComesBack`, which lays every climb that does
  not end to blocks that are handed out uncleared.
* *Users and images*: `UsersAreOnTheImage`, `BeganAtHome`, `HomesAreOwned`,
  `MountedIsWhole`, `RootLostOnlyByBadMounts`, `MountOnlyLoads`. Those
  that a kill breaks are stated of images that no command was cut short on,
  since nothing repairs an image. `RootLostOnlyByBadMounts` has two exceptions: a
  mount of a file that is no image, and of an image that a format was cut short on.
* *Rights*: `LooksByTheBits` (at every read and write, not when the file was
  opened) and `HomeOpensByTheBits` (the rules on paths refuse nothing more in a
  home).

## 5. What else the code does

Behaviour that the models have, or that they were bounded to leave aside, and
that no run above is about. A reader who changes the code should know of it.

* *Blocks and counters.* The superblock is written before the root takes its
  block (`ext2.c:84`) and never again, so the free count is one too high after
  each mount.
* *Directories.* A directory's first block is not cleared (`directory.c:70`):
  one that comes with old entries is refused by `rmdir` as not empty, and an old
  ".." in it leads the prompt astray, for ever where it leads below (section 3). `rmdir .`
  and `rmdir ..` take the parent from the path's text (`directory.c:107-114`):
  the directory is freed and its name stays. A mkdir killed before the block is
  cleared (`directory.c:284`) leaves a directory with another one's entries,
  from which a prompt may not come back.
* *Paths through files.* Neither the resolution of a path nor
  `remove_directory_entry` asks whether what it searches is a directory
  (`directory.c:318`, `commands.c:125`). A file whose block was a directory's
  before, and of which a part was not written over, has that directory's entries
  for names: a delete or rmdir of a path through it clears the entry in the
  file's data, and deletes the inode the entry led to. That inode may have a name
  in the tree as well, or be free, in which case the counter of free inodes goes
  up by one all the same. `FilesChangeOnlyByTheirWrites` and
  `CountersFollowBitmaps` name these two exceptions.
* *Link counts* start at one and are incremented for the first name
  (`inode.c:33`).
* *Descriptors.* The test that keeps a descriptor opened for reading from
  writing is on `O_RDONLY`, which is 0 (`commands.c:278`); README.md:116 has the
  flags.
* *Indirect blocks* are not cleared when taken (`inode.c:157`). What a block held
  counts as pointers: deletion frees blocks of other files, or reserved ones, and
  a write may find a pointer it cannot read and the file cannot grow.
* *The table* reaches beyond the reserved blocks (`disk.c:133`), and the users
  lie on inodes 9 to 16: a logout overwrites those.
* *Format and mount.* The superblock is written first (`ext2.c:128`): an image
  whose format was killed still mounts. A mount that fails has read a block over
  the superblock and the start of the users (`ext2.c:31`): after a mount of any
  file of three blocks that is no image (`ext2.c:37`), root and whoever else is in
  the first eleven slots are not known any more. A format under a
  session keeps the session and its working directory (`ext2.c:214`). A mount
  saves default users to the image still mounted when it finds none there
  (`ext2.c:22`), which takes an image whose format was killed.
* *Users.* The last two of sixteen records do not fit the block (`user.c:21`).
  useradd takes a name that is taken if the number is new (`user.c:77`); the
  second of that name cannot log in. A file at the path of a home is taken for
  the home (`user.c:157`), so login may start in a file. A login killed between
  the creation of a home and the change of its owner leaves it to root
  (`user.c:177`). The passwords of the preset users differ from
  README.md:155-156 (`user.c:58`).
* *Groups.* Callers ask for bits of the owner; for a member of the group they
  are compared with group bits and nothing is required (`inode.c:398`), where
  README.md:225 has owner, group and others.

## 6. Proofs

Proved from the named assumptions on the constants, for every value of them:

| Theorem | Module | States |
|---|---|---|
| `TypeCorrect` | `FileSystemProofs` | `Spec => []TypeOK` |
| `OneOwnerPerBlock` | `FileSystemProofs` | `Spec => []BlockOwnership` |
| `FilesKeptApart` | `FileSystemProofs` | `Spec => FilesChangeOnlyByTheirWrites` |
| `NoHolesBelowTheSize` | `FileSystemProofs` | `Spec => HolesOnlyFromStaleOffsets` |
| `OffsetsWithinTheSize` | `FileSystemProofs` | `Spec => OffsetsPassSizeOnlyByDelete` |
| `OnlyTheseLoseBlocks` | `FileSystemProofs` | `Spec => LostBlocksExplained` |
| `CountersKeepUp` | `FileSystemProofs` | `Spec => CountersFollowBitmaps` |
| `FilesRefineSequences` | `FileRefinementProofs` | `Spec => FilesAreSequences`, if `"hole"` is no text |
| `IndirectOneOwner` | `IndirectProofs` | `Spec => []OneOwnerUnlessLeftovers` |
| `IndirectNoHoles` | `IndirectProofs` | `Spec => []NoHolesUnlessLeftovers` |
| `IndirectTypes` | `IndirectProofs` | `Spec => []TypeOK` of `IndirectBlocks` |
| `WritesMakeTheCommand` | `DiskWritesProofs` | `Spec => []WritesAddUp` |
| `WritesTypes` | `DiskWritesProofs` | `Spec => []TypeOK` of `DiskWrites` |
| `KillsLeaveAGuardedImage` | `DiskWritesProofs` | `Spec => []Guarded(vol)` |
| `NamedInodesKeepTheirBlocks` | `DiskWritesProofs` | `Spec => []NamedInodesOwnTheirBlocks` |
| `NamesKeepTheirInodes` | `DiskWritesProofs` | `Spec => []NoNameWithoutInode` |
| `KillsReachNoOtherFile` | `DiskWritesProofs` | `Spec => OthersKeepTheirContent` |
| `ApartWhileInodesFit` | `LayoutProofs` | `Spec => []LyingApart`, as long as the inodes in use are within the table's first block |
| `LayoutTypes` | `LayoutProofs` | `Spec => []TypeOK` of `Layout` |
| `NobodyLooksWithoutTheBit` | `PermissionsProofs` | `Spec => []LooksByTheBits` |
| `HomesOpenByTheBits` | `PermissionsProofs` | `Spec => []HomeOpensByTheBits` |
| `WorkIsInDirectories` | `PermissionsProofs` | `Spec => []TypeOK` of `Permissions`, if `HomesAtFirst` |
| `MountedImageHasTheUsers` | `SessionProofs` | `Spec => []UsersAreOnTheImage` |
| `RootIsLostOnlyByBadMounts` | `SessionProofs` | `Spec => RootLostOnlyByBadMounts` |
| `MountsOnlyLoad` | `SessionProofs` | `Spec => MountOnlyLoads` |
| `FormattedImagesAreWhole` | `SessionProofs` | `Spec => []MountedIsWhole` |
| `SessionTypes` | `SessionProofs` | `Spec => []TypeOK` of `Session` |
| `SessionsBeginAtHome` | `SessionProofs` | `Spec => []BeganAtHome` |
| `HomesBelongToTheirUsers` | `SessionProofs` | `Spec => []HomesAreOwned`, if `HomesApart` |

**Blocks.** The inductive invariant is `IInv == TypeOK /\ BlockOwnership`, both of
which the run `files` checks. `BlockOwnership` alone is not inductive: that
`allocate_block` hands out what no pointer names follows from pointers being
marked only for a bitmap and a table that have their types, and a block is
attached to an inode of the table at an index of its array only because the
running command's offset and its descriptor are in range.

The argument goes by layers. `VolOK(v)` says that a volume has its type and its
blocks have one owner each. `VolumeProofs` shows that each operator of `Volume`
keeps it: allocation returns an unmarked block, hence an unnamed one; attaching
such a block adds an owner to a block that has none; deletion frees exactly
blocks whose only owner loses its pointers, and a free inode owns none, so that
deleting twice, or writing through a descriptor of a deleted file, breaks
nothing. The same is shown there of entries and directories, on success and on
every failure, whatever the scanned blocks hold: nothing is assumed of entries,
so text or leftovers cannot break it. `FileSystemProofs` adds the values that
actions compute (levels of a path, offsets after a read, sizes after a write),
has one lemma per group of actions, and combines them. The write loop's `offset
/ BLOCK_SIZE` is a direct index as long as `StartWrite`'s bound holds, and a
read never moves an offset beyond the direct blocks.

**What files keep.** The action properties need `FInv`, which is `IInv` and two
more conjuncts:

* `FreeUntyped`: an inode that is not in use has no type. Path resolution takes
  whatever has the type of a directory for one; without this, the inode that a
  create takes could be the one in which it then writes the name.
* `WriteProgress`: a write that runs has put its text at every place from the
  descriptor's offset to its own, so that the size set at its end covers no hole
  but one that was between the old size and the offset it began at.

Two relations between volumes carry the argument through the operators.
`Keeps(v, u, d, c)` says that from `v` to `u` every inode but `c` stays as it
was, and every word in the blocks of those other than `d` and `c`; it follows
for what an operator does to `c` and `d` because a block has one owner.
`NoneLost(v, u)` says that no block lost its owner and stayed marked. Each is
shown of every operator and followed through sequences of them. `StepsMove` and
`WriteStepWrites` then say what each action of `Next` does in these terms, and
the four theorems are read off that. `OffsetsWithinTheSize` needs besides where
a read stops (`ReadCountStops`).

**Counters.** `Counted(v, u)` says that from `v` to `u` the sum of what a counter
says is free and what its bitmap marks stays the same modulo the counter's width,
whatever that is; a few lemmas about `%` carry it over additions, and each
operator keeps it on each of its paths. A deletion adds one for each pointer and
unmarks one block for each: the two agree because no two pointers name one
block. It counts the inode whether or not it was in use, so callers owe that:
`MakeDirectory` and `NewFile` give back only what they took, a rmdir finds a
directory and so, by `FreeUntyped`, an inode in use. Only a delete may be led
elsewhere, which is the exception the property names.

**The refinement.** `FilesRefineSequences` maps the initial state to the initial
state and each step of `FileSystem`, from a state of `FInv`, to a step of
`AbstractFiles` or a stutter. Open, close, seek, read, the start and the end of a
write and the restart map to the action of that name; an iteration of the write
loop maps to one write of its words, or to the write breaking off; every
command on names maps to `Elsewhere`. For that, the words of all files which
exist before and after must be the same as *text*, and they are, though a
delete may clear an entry in a file: an entry is no text, and neither is the
zero it becomes. For a read, the abstract count of words up to a hole is the one
`read_inode_data` reaches, block by block. `TextAssumption` keeps a text from
being the mark of a hole. No property of names is used, so the proof holds for
images whose directories are damaged in any way the code can damage them.

**Indirect blocks.** `IInv` of `IndirectProofs` is `Good`, as long as no indirect
block came with leftovers. To `VolOK` and `FreeUntyped` it adds three things about
*spots*, a spot being the pointer to an indirect block or an entry in one.
`Apart`: what a spot names is marked, not reserved, named by no other spot, and
*unnamed*: by no direct pointer. `Reads`: indirect blocks are within the image,
without which an entry could not be told from none. `Whole`: the blocks of files
below their sizes are there. `Apart` is what makes the two theorems inductive
together: an entry stays what it is only because the block it is in is nobody
else's.

The operators of `Volume` and `Directory` know nothing of spots. Of each of them
`Outside(v, u)` is shown: what is marked and unnamed stays marked, unnamed and
unwritten. That is the whole frame of indirect blocks (`ApartMoves`), and `Keeps`
that of the direct ones (`WholeMoves`), so each command on names is covered by the
two relations (`NamesGood`). Deletion frees the blocks of the spots first, which
then no spot of another inode names. The write takes its block, which is unnamed
until it is attached; where it is entered in an indirect block it stays unnamed
and becomes a spot (`EnterOK`); where that block is new, its other words must be
zero, which is the hypothesis about leftovers (`EnterInNewOK`). `Indirect.cfg`
checks the invariant's consequences; `BlocksComeBackUnlessLeftovers` is not proved,
and does not hold of every size: a mkdir that finds no inode leaves a block marked
(`directory.c:58-70`), and the run has inodes enough.

**Single writes.** `WritesMakeTheCommand` ties `DiskWrites`, where a kill can come
between any two writes, to the operators of `Volume` and `Directory`, of which the
other theorems speak. A kill may leave inodes without a name whose blocks are
unmarked, or another's by now, so nothing of `VolOK` but the type can be assumed,
and nothing more is needed:
`WritesAddUp` holds of every volume. `Mirrors(v, t, u)` says that the writes in
trace `t`, done one by one from `v`, lead to the image of `u`, the free counters
apart, which are not on the image. Each step of a command keeps it
(`DoMirrors`), hence each part of it on each of its paths, the failures too:
`AddEntryMatches`, `DeleteInodeMirrors`, `FillDirectoryMatches`, `WriteWritesMirror`.
A list of writes done, the blocks freed one by one and the names of a path are
functions defined by recursion: that such a function exists and satisfies its
equation is proved from its steps staying in a set (`RecursionExists`), and what it
computes by its least counterexample (`Induction`). A path of names that leads
to an inode of the table leads there by an entry (`NodeIsFound`), so the entry to be
cleared is there. `WritesTypes` follows from the same lemmas, since `Mirrors` has
the type of the writes.

**What a kill leaves.** Inodes without a name may share blocks after a kill; the
claim is that named ones do not, however many commands were cut short. That is
not inductive: names must be known to lie in directories that own their blocks,
and those directories to have names, or be the root. `Safe(v, S, x)` says it of a
set `S` of inodes, among them the root:

* the members of `S` are in use and own their blocks one each, marked and not
  reserved (`Owners`);
* every entry with a name, in whatever block of the image it is, leads to a
  member of `S`, or to no inode at all where none was left to take, and lies in a
  directory of `S`, at an index up to which the directory can be read; no two lead
  to the same inode (`NamesIn`);
* a directory with a name has two dot entries (`Dotted`): `rmdir` takes one with
  at most two entries for empty, and so never frees one that still has names;
* no inode has a hole below its size, so that a scan reaches all its entries.

`Guarded(v) == \E S : Safe(v, S, 0)`. The set is not computed from the names: an
inode may join it as soon as it is marked, before any name leads to it, and
leaves it once its name is cleared, before its blocks are freed. That is the order
of `create`, `mkdir`, `delete` and `rmdir`, and with it the proof goes through;
`x` is the block of a directory being made between its attachment and its first
entries. `IInv` is `TypeOK` and `Way(vol, pending, target)`: the image and each one
the writes still to be done lead to are guarded, and each of these writes leaves
the content of other named files alone. A kill only drops the rest of the way; a
command that starts must have such a way from any guarded image, which is shown
of its writes group by group (a bit, an inode, an entry put or cleared, a block
attached, a directory filled), on each path, failures included. Names that are
not `.` or `..` are assumed (`WritesAssumption`), as in the run. The three properties follow
from `Guarded` and `Way` alone. What a mkdir that is killed before it clears its block
finds there (section 5) are at most the dot entries of a directory removed before:
a block that these commands free has no names left (`NoNames`).

**Layout.** `LyingApart` does not hold of the code: its table has room for 128
inodes in 16 blocks, and the users are in the second of them (`layout_root`). What
is proved is the exact condition under which it does, of a behaviour and not of the
constants: as long as no inode beyond the table's first block is in use (`Fits`).
Writing an inode then disturbs no other cell and no other block, and
what is written over with users or data must not be block 3. The invariant
therefore says of every file's cell, and of the root's and its home's, that it
holds that inode and leads nowhere or to a block of data beyond the reserved
ones: that is what a write goes to and what a deletion frees. It needs `Fits` of
the state before a step and of the one after. `LayoutTypes` does
without that, but `LayoutAssumption` has the whole table on the image
(128 inodes reach to block 18 of 1024): whatever lies where a file's inode should
be, the block written to is one of the image.

**Permissions.** `LooksByTheBits` speaks of the command just done. The invariant
adds that every node has a set of bits for its mode and that the user is one of
those known: a check for `<<"u", l>>` then means the bit `l` of the user's own
class, for owner and others. No induction over the tree is needed there, since the
commands name their file.

`HomeOpensByTheBits` compares what the checks on a path say with what the bits
say, name by name, and needs the tree: `TreeInv` adds that the root is a
directory, that whatever has a name is under directories all the way from the root, that
names on the way are neither `.` nor `..`, and that the working directory has such a
name. `WorkIsInDirectories` adds that the working directory is a directory. A login
goes to the home, so homes have to be directories (`HomesAtFirst`, which the run's
tree satisfies); they stay so, as only files are deleted. Only a file can be deleted and only a directory added to, so that every command
keeps it. Then an absolute path that is there to its end is its own target, the
walk of `check_path_permission` ends at the file, and each check comes down to
one bit. That a path of names leads from the root to itself is an induction over
the path, done without the library's induction theorems: `FoldLeft` folds along
some walk (`WalkExists`, `FoldWalks`), and the least place where a walk goes wrong
leads to a contradiction (`LeastOf`).

**Users on images.** That a mount makes memory and image agree is not enough: the
image may be overwritten while mounted by anything that saves, and what is
loaded must be what could have been saved. `Inv` of `SessionProofs` adds `Kept`
for every image: its user block holds nothing beyond `InBlock`. Format, login
and useradd are sequences of images; the lemmas show every element of them kept,
so that a kill at any place leaves the invariant, and that the directories made
on the way, whatever `MakeDirectory` does to the volume, touch no user.
`Rooted` adds that an image that has the magic number, and on which no command was
cut short, has root, and that what is mounted is an image. That `init_users` at the
start of a mount finds what is there and saves it unchanged follows for every
number of images. A step that loses root is then a mount, since nothing else
loads users or runs over them; a mount of a file with the magic number loads what
is on it, and root is there unless a command was cut short
(`OnlyMountsLoseRoot`). What remains is a file without the number: one that never
was an image.

For `MountedIsWhole` the volumes come in. `Sound` says of one that it is `VolOK`,
that free inodes have no type, and that the first two entries of the root's first
block are the root's names. A whole format makes such a volume: the first free
inode after the reserved one is the root's number, and the first free block is
beyond the reserved ones. `OnlyFills` of `VolumeProofs` says that a step
changes no word of a directory but free ones, which `MakeDirectory` and `NewFile`
keep on all their paths; with `NamespaceStep` this leaves both entries where they
are, whatever is made in the root or elsewhere, and a scan for them stops at the
first block. `SessionAssumption` has the names of homes among the names used, as
the code makes directories of them. An image that a command was cut short on need
not be `VolOK` at all: its bitmaps or its root may not have been written.

**Types on damaged images.** The types of `Session` and `IndirectBlocks` are not
read off the other invariants, which say nothing of an image a command was cut
short on, or of an inode once a block with leftovers counts as an indirect one.
`Typed(v)` asks only that a volume has its type and that the image file ends at
most behind the block of the last bit; `VolumeProofs` shows it kept by every
operator of `Volume` and `Directory`, whoever owns the blocks. In `IndirectBlocks`
any word may then count as a block number; only those below the end of the file can be read,
and so each block written or freed has a bit. In `Session` the users in memory may
be without a name after a failed mount read a block over them (`Nameless`), but none
such is ever saved: what is saved comes from a table that a mount loaded, by `Inv`.

**Homes.** A session is at home as long as its home is found where it was. No
command of a session removes a name, but that alone does not keep a name found:
a scan stops at the first missing block, and takes the first of two entries.
`Tidy(v)` of `VolumeProofs` says how such volumes look: directories, and the words
of a block, are filled from the front, a free inode has no blocks, and the blocks
of the others can be read. Each step of `MakeDirectory` and `NewFile` keeps it, on
their failures too, and between two such volumes inodes keep their types and
blocks, and blocks their entries (`Grows`); then a name that is found stays found,
with the same inode (`StaysFound`), and a directory stays one. A volume is
therefore `Tidy`, or the blank one a killed format leaves, after every step of every
command (`FromFormat`), and `BeganAtHome` is inductive with that, the types and
a name for whoever is logged in: the slot a useradd takes is nobody's
(`NamesAssumption`: the words of a command line are not empty).

`MakeDirectoryLater` says what a step adds: entries of the two dots, or one more, of
the new name and of an inode that was free. So every entry of a user's name
leads to an inode in use that is its user's, as long as login and useradd alone make
anything of such names (`MadeBelongs`): a home that was there has its owner
already, a new one gets it before the command ends. `HomesApart` of `Session` says
so of a choice of users and paths. `MCSession` has it as an assumption, which
TLC evaluates: the run's choice is one of those. Without it the property does not
hold of the code: root can make a file or a directory at the path of a home before
its user is added, and a second user of a name would get the first one's home (5).

Only model-checked: liveness and fairness, `CommandsEnd` and `PromptComesBack`
among it;
`NamesFormATree`, which is about cardinalities and reachability;
`BlocksComeBackUnlessLeftovers` of `IndirectBlocks`, which does not hold of every
size (above).

## 7. Not modelled

* Timestamps; the wording of output; `help`, `ls`, `status` and `users`, which
  change nothing, with `list_directory` and `calculate_directory_size`;
  splitting a line into words.
* Functions nothing calls: `truncate_inode`, `normalize_path`,
  `is_valid_filename`, `remove_user`, `change_password`.
* A second image under descriptors of the first: `Session` has what a mount over
  a mounted image does to users, session and working directory, not what a
  stale descriptor would do to the new image's blocks.
* Single disk writes inside `Session`: a directory made on the way to a home is
  one step there, and its writes are those of `DiskWrites`.
* In `Layout`, what happens once inodes and users overlap beyond the first
  process that does not find root, and data blocks below block 19 under inodes
  from 65 on, which is the same disagreement further on.
* `test_ownership_permissions.sh`, which was read as documentation.

Next would be kills inside writes through indirect blocks, with `Safe` extended by
the spots of `IndirectProofs`.
