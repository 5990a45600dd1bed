---------------------------- MODULE MCFileWatch ----------------------------
(* Small instances of FileWatch: the resources share one file. *)
EXTENDS FileWatch

CONSTANTS r1, r2, TheFile

SameFile == [r \in Resource |-> TheFile]

\* Two resources where write times cannot hide a change; one whose watcher is
\* steered, with write times that collide and wrap and contents that return.
PlainAndTimed ==
  {[resources |-> {r1, r2}, steered |-> {}, times |-> FALSE, reverts |-> FALSE,
    edits |-> 2],
   [resources |-> {r1}, steered |-> {r1}, times |-> TRUE, reverts |-> TRUE,
    edits |-> 3]}
=============================================================================
