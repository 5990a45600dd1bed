---------------------------- MODULE MCTaskManager ----------------------------
(* TaskManager for TLC: a task that asks the main thread from the           *)
(* manager's thread, one that asks it from a thread of its own, and a task  *)
(* submitted by the main thread.                                            *)
EXTENDS TaskManager
=============================================================================
