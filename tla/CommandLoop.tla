---------------------------- MODULE CommandLoop ----------------------------
(***************************************************************************)
(* What a command returns, and what command_loop makes of it: quit returns *)
(* 1 (commands.c:934), and whatever returns 1 ends the process             *)
(* (commands.c:959).  Here a word is a byte, so that the counts of read    *)
(* and write and the offset of lseek are what those commands return.       *)
(***************************************************************************)
EXTENDS FileSystem

VARIABLES
  running, \* the loop goes on
  quit     \* quit was given

exitVars == <<vars, running, quit>>

ExitInit == Init /\ running = TRUE /\ quit = FALSE

Returns(result) == running' = (result # 1) /\ quit' = quit

\* By how far the command moves the descriptor it is given.
Moves == Max({files'[f].off - files[f].off : f \in 1 .. MaxOpen})

ReadReturns  == Read /\ Returns(Moves)
WriteReturns == FinishWrite /\ Returns(Moves)
LseekReturns ==
  /\ Lseek
  /\ \E f \in 1 .. MaxOpen :
       /\ files[f].open /\ files'[f].off <= vol.itab[files[f].ino].size
       /\ files' = [files EXCEPT ![f].off = files'[f].off]
       /\ Returns(files'[f].off)

\* The other commands return 0 or -1, open a descriptor, which is above 1.
OtherReturns ==
  /\ Login \/ Logout \/ Mount \/ Create \/ Delete \/ StartMkdir \/ MkdirStep \/ Rmdir \/ Cd
     \/ Open \/ Close \/ StartWrite \/ WriteStep
  /\ Returns(0)

Quit == Prompt /\ quit' = TRUE /\ running' = FALSE /\ UNCHANGED vars

\* After the end, the next process; a signal is that of FileSystem.
NextProcess == Restart /\ running' = TRUE /\ quit' = FALSE

ExitNext ==
  \/ running /\ (ReadReturns \/ WriteReturns \/ LseekReturns \/ OtherReturns \/ Quit)
  \/ NextProcess

ExitSpec == ExitInit /\ [][ExitNext]_exitVars

----------------------------------------------------------------------------
\* The loop ends by quit, which returns the "退出标志" (exit flag,
\* commands.c:934), and by nothing else but a signal.
OnlyQuitEnds == ~running => quit
=============================================================================
