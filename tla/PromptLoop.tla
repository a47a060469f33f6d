----------------------------- MODULE PromptLoop -----------------------------
(***************************************************************************)
(* The loop of get_cwd_path step by step: before it reads a command,       *)
(* command_loop climbs from the working directory to the root by the ".."  *)
(* entries (commands.c:648), and only a signal gets in between.            *)
(* FileSystem takes the climb for an instant: its guard ClimbEnds, which   *)
(* cuts the climb after MaxInodes steps, stands for it.                    *)
(***************************************************************************)
EXTENDS FileSystem

VARIABLES
  climb,  \* the inode the climb has come to; Reading when it is over
  misled  \* history: the inodes whose ".." was in its block before they had the block

Reading == 0

loopVars == <<vars, climb, misled>>

LoopInit == Init /\ climb = cwd /\ misled = {}

ClimbStep ==
  /\ climb # Reading
  /\ climb' = IF climb = RootIno THEN Reading ELSE ParentOf(vol, climb)
  /\ UNCHANGED <<vars, misled>>

\* The climb takes the ".." of i from block b, and it was there before the step.
IsUp(w) == IsNamed(w, DotDot)
LeftIn(i, b) ==
  /\ b = LastBlock(vol', i, IsUp)
  /\ \E s \in {FirstSlot(vol', b, IsUp)} : vol'.blk[b][s] = vol.blk[b][s]

\* A block that comes into use as it is (the first of a new directory, directory.c:70,
\* and those of a write) may hold the ".." of a removed directory, until another one
\* is put over it or the inode gets another one in a later block.
Misled ==
  {i \in Inodes :
     \E b \in IF i \in misled THEN vol'.bmap ELSE vol'.bmap \ vol.bmap : LeftIn(i, b)}

\* A step of a command; with its last, the next climb begins.
Command ==
  /\ climb = Reading
  /\ Next
  /\ climb' = IF cmd' = AtPrompt THEN cwd' ELSE Reading
  /\ misled' = Misled

Signal == climb # Reading /\ Restart /\ climb' = cwd' /\ UNCHANGED misled

LoopNext == ClimbStep \/ Command \/ Signal

LoopSpec == LoopInit /\ [][LoopNext]_loopVars

\* The process runs: neither the climb nor a command that has begun waits for
\* anything.
LoopFairSpec == LoopSpec /\ WF_loopVars(ClimbStep) /\ Fairness

----------------------------------------------------------------------------
\* Whatever was made, removed and taken again under the working directory, and
\* whichever command ran or was killed: the next command is read in the end, unless
\* the climb goes round by an inode that took the block of a removed directory, its
\* ".." still in it.  No order of mkdir, rmdir, create, delete and cd makes a circle
\* of entries that were all written for the inode they are in, so the leftovers alone
\* are to blame when the prompt never comes back.
PromptComesBack == []<>(climb = Reading \/ climb \in misled)
=============================================================================
