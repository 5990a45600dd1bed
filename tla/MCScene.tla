------------------------------ MODULE MCScene ------------------------------
(***************************************************************************)
(* Instances of Scene for TLC.                                             *)
(***************************************************************************)
EXTENDS Scene, TLC

CONSTANTS o1, o2, c1, c2

Loaded(queue, kids, on) ==
  [queue |-> queue,
   children |-> kids @@ [o \in Object |-> <<>>],
   comps |-> on @@ [h \in Host |-> <<>>]]

\* A child with a component below an empty root; two components on the only
\* root.
MCLoads ==
  {Loaded(<<o1, o2>>, o1 :> <<o2>>, o2 :> <<c1>>),
   Loaded(<<o1>>, <<>>, o1 :> <<c1, c2>>)}
=============================================================================
