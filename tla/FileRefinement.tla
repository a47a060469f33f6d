--------------------------- MODULE FileRefinement ---------------------------
(***************************************************************************)
(* FileSystem implements AbstractFiles: the blocks, pointers and sizes of  *)
(* the image, and the table of open files, are the files of the abstract   *)
(* specification.                                                          *)
(***************************************************************************)
EXTENDS FileSystemProps

\* The mark of a place that cannot be read is no text.
ASSUME TextAssumption == "hole" \notin Data

\* The word that read_inode_data finds at place x of inode i, and the hole where
\* its loop breaks.
WordAt(v, i, x) ==
  LET b == get_inode_block(v, i, (x - 1) \div Slots)
      w == v.blk[b][((x - 1) % Slots) + 1]
  IN  IF b = 0 \/ ~Readable(v, b) THEN "hole"
      ELSE IF w.tag = "text" THEN w.data ELSE "rest"

RegularFiles(v) == {i \in v.imap : is_regular_file(v, i)}
Contents(v)     == [i \in RegularFiles(v) |-> [x \in 1 .. v.itab[i].size |-> WordAt(v, i, x)]]
Descriptors(fs) == [f \in {g \in 1 .. MaxOpen : fs[g].open} |-> [file |-> fs[f].ino, at |-> fs[f].off]]
WriteOf(c)      == IF c.op = "write"
                   THEN [busy |-> TRUE, fd |-> c.slot, data |-> c.data,
                         at |-> c.off, left |-> c.left]
                   ELSE [busy |-> FALSE]

Abstract == INSTANCE AbstractFiles WITH
  Numbers   <- Inodes,
  Fds       <- 1 .. MaxOpen,
  MaxLength <- MaxFileWords,
  content   <- Contents(vol),
  fds       <- Descriptors(files),
  write     <- WriteOf(cmd)

\* Whatever commands run, with files deleted under their descriptors, writes that
\* break off or are killed, and the disk full: to its user the image is a set of
\* separate sequences of words.  A write changes no word outside its range, a
\* read stops only at the end, a kill loses the end of a write and nothing else.
FilesAreSequences == Abstract!Spec /\ []Abstract!TypeOK
=============================================================================
