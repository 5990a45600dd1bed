--------------------------- MODULE MCThreadsWorker ---------------------------
(***************************************************************************)
(* Instances of ThreadsWorker for TLC: a producer thread and a consumer    *)
(* thread whose states prepare and draw are coupled by a handshake; the    *)
(* consumer also has a state that is skipped while the producer works.     *)
(***************************************************************************)
EXTENDS ThreadsWorker

CONSTANTS producer, consumer, prepare, draw, present

MCThread == {producer, consumer}
MCThreadOrder == <<producer, consumer>>
MCState == {prepare, draw, present}
MCStatesOf == [t \in MCThread |->
  IF t = producer THEN <<prepare>> ELSE <<draw, present>>]

\* What the states wait for, and what lets a state be skipped.
Waits == [s \in MCState |->
  CASE s = prepare -> {<<draw, "idle">>}
    [] s = draw -> {<<prepare, "ready">>}
    [] OTHER -> {}]
Skips == [s \in MCState |->
  IF s = present THEN {<<prepare, "working">>, <<draw, "idle">>} ELSE {}]
Nothing == [s \in MCState |-> {}]

MCYamlFinish == [s \in MCState |->
  CASE s = prepare -> {<<draw, "ready">>}
    [] s = draw -> {<<prepare, "idle">>}
    [] OTHER -> {}]
MCFinalizeList == <<present, prepare, draw>>
MCMayBreak == {present}
=============================================================================
