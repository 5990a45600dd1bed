------------------------------ MODULE UndoLog ------------------------------
(***************************************************************************)
(* What the undo/redo history of the command manager promises, without     *)
(* queue, program counter or memory management: a stack of done commands   *)
(* and a stack of undone ones that can be redone until something new is    *)
(* done.  CmdManager is shown to implement it.                             *)
(***************************************************************************)
EXTENDS Naturals, Sequences

CONSTANT Command

VARIABLES
  done,     \* commands in effect that can be undone, oldest first
  undone    \* commands that can be redone, the next one to redo first

vars == <<done, undone>>

Init == done = << >> /\ undone = << >>

\* A new command is done; what was undone can no longer be redone.
Do(c) ==
  /\ done' = Append(done, c)
  /\ undone' = << >>

\* The last command done is undone and becomes the next one to redo.
Undo ==
  /\ done # << >>
  /\ done' = SubSeq(done, 1, Len(done) - 1)
  /\ undone' = <<done[Len(done)]>> \o undone

\* The command undone last is done again.
Redo ==
  /\ undone # << >>
  /\ done' = Append(done, Head(undone))
  /\ undone' = Tail(undone)

\* The undone commands are given up before a new command arrives.
Forget ==
  /\ undone' = << >>
  /\ UNCHANGED done

\* The whole log is dropped.
Clear == done' = << >> /\ undone' = << >>

Next ==
  \/ \E c \in Command : Do(c)
  \/ Undo
  \/ Redo
  \/ Forget
  \/ Clear

Spec == Init /\ [][Next]_vars
=============================================================================
