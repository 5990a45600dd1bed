---------------------------- MODULE MCPeerToPeer ----------------------------
(* PeerToPeer for TLC. *)
EXTENDS PeerToPeer

CONSTANTS n1, n2, n3

Start(s, w, l, r) ==
  [standing |-> s, wanted |-> w, leaving |-> l, returning |-> r]

\* Two peers connect to each other at once, and one may leave and come back;
\* a third peer joins two that know each other, and either of them may leave.
CrossingAndJoining ==
  {Start({}, {<<n1, n2>>, <<n2, n1>>}, {n2}, {n2}),
   Start({<<n1, n2>>}, {<<n2, n1>>}, {n1, n2}, {n1, n2}),
   Start({<<n2, n3>>}, {<<n1, n2>>}, {n2}, {}),
   Start({<<n2, n3>>}, {<<n1, n2>>}, {n3}, {})}
=============================================================================
