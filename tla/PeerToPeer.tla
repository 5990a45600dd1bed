----------------------------- MODULE PeerToPeer -----------------------------
(***************************************************************************)
(* Peers that find each other (PeerToPeer.cpp) over TCP sockets            *)
(* (AsioTCPSocket.cpp, AsioTCPAcceptor.cpp), driven by Context::Poll.      *)
(*                                                                         *)
(* A node is a PeerToPeer with a context of its own, named by the address  *)
(* its acceptor listens at.  A link is a TCP connection; its two ends are  *)
(* the Socket objects of the nodes.  What one end sends reaches the other  *)
(* in order, but as a stream: a header has twelve bytes, a read takes up   *)
(* to sixteen, the size of the largest header.  The stream is kept in      *)
(* words of four bytes, and the first word of a header stands for it.      *)
(*                                                                         *)
(* A header that is read from its middle is taken for one of the types     *)
(* that are ignored (its first byte is the last of an address or of a      *)
(* port).  m_onAccept is the application's and is left out.  AsioContext   *)
(* runs its io_context once, without work, and never restarts it: it is    *)
(* the one of Windows, which a poll still drives after that.               *)
(***************************************************************************)
EXTENDS Naturals, FiniteSets, SequencesExt

CONSTANTS
  Node,        \* the peers
  Starts,      \* what the program starts with, see Init
  MaxLinks,    \* bound: links from one node to another
  None

ASSUME NodeAssumption ==
  /\ IsFiniteSet(Node)
  /\ None \notin Node
\* Peers that stand connected are two, by one socket each (RegisterSocket).
ASSUME StartAssumption ==
  /\ Starts \subseteq [standing : SUBSET (Node \X Node),
                      wanted : SUBSET (Node \X Node),
                      leaving : SUBSET Node, returning : SUBSET Node]
  /\ \A start \in Starts : \A l \in start.standing :
       l[1] # l[2] /\ <<l[2], l[1]>> \notin start.standing
ASSUME BoundAssumption == MaxLinks \in Nat \ {0}

\* The k-th link from one node to another, and its ends.
Link == Node \X Node \X (1..MaxLinks)
End == Link \X {"from", "to"}
Owner(e) == IF e[2] = "from" THEN e[1][1] ELSE e[1][2]
Other(e) == <<e[1], IF e[2] = "from" THEN "to" ELSE "from">>

Header == [type : {"Announce", "KnownHost"}, peer : Node]
Body == [type |-> "Body", peer |-> None]
Words(type, p) == <<[type |-> type, peer |-> p], Body, Body>>

VARIABLES
  running,    \* nodes whose acceptor is open
  wanted,     \* the calls of Connect still to be made
  script,     \* the nodes for which the application may call Close, once each,
              \* and those for which it may call Run again
  left,       \* those for which it has called Close
  socket,     \* of each end there is: "backlog", "open", "closed", or "reset"
              \* when it was closed with data unread
  stream,     \* the words on their way to each end
  receiving,  \* ends that read, now or after the next Poll.  One that has been
              \* announced and not registered ignores all it reads: it is no
              \* longer here, and what is sent to it is not kept
  newPeers,   \* m_newPeers of all nodes
  peer,       \* m_connections of all nodes: the peer behind an end, or None
  toSend,     \* m_asyncSendKnownHostsSockets
  cut         \* ghost: a header was read behind another one

wire == <<socket, stream, receiving>>
book == <<newPeers, peer, toSend>>
app == <<running, wanted, script, left>>
vars == <<wire, book, app, cut>>

\* Some peers have found each other, some are to be connected or closed.
Init ==
  \E start \in Starts :
    LET ends == {<< <<l[1], l[2], 1>>, side>> : l \in start.standing, side \in {"from", "to"}}
    IN /\ running = Node
       /\ wanted = start.wanted
       /\ script = [leaving |-> start.leaving, returning |-> start.returning]
       /\ left = {}
       /\ socket = [e \in ends |-> "open"]
       /\ stream = [e \in ends |-> << >>]
       /\ receiving = ends
       /\ newPeers = {}
       /\ peer = [e \in ends |-> Owner(Other(e))]
       /\ toSend = {}
       /\ cut = FALSE

Made == DOMAIN socket
EndsOf(n) == {e \in Made : Owner(e) = n}
IsOpen(e) == socket[e] = "open"

\* The peer is in m_connections.
HasConnection(n, p) == \E e \in EndsOf(n) : peer[e] = p

-----------------------------------------------------------------------------
(* Sockets *)

\* Close of the ends: what was not read makes the other side see a reset.
Closed(ends, unread) ==
  [e \in Made |-> IF e \notin ends THEN socket[e]
                  ELSE IF unread[e] = << >> THEN "closed" ELSE "reset"]

LinksMade(n, p) == {k \in 1..MaxLinks : << <<n, p, k>>, "from">> \in Made}

\* The end a Connect from n to p would create.
NewEnd(n, p) == << <<n, p, Cardinality(LinksMade(n, p)) + 1>>, "from">>

\* f with the values for the ends of a new link.
WithLink(f, e, here, there) ==
  [g \in DOMAIN f \cup {e, Other(e)} |->
     IF g = e THEN here ELSE IF g = Other(e) THEN there ELSE f[g]]

\* ConnectInternal, with reads of data before it: connect, announce, listen.
\* Nobody listening at p is an error that changes nothing.
ConnectInternal(n, p, before) ==
  LET e == NewEnd(n, p)
  IN \/ /\ p \notin running
        /\ stream' = before
        /\ UNCHANGED <<socket, receiving, newPeers, peer>>
     \/ /\ p \in running
        /\ e \in End
        /\ socket' = WithLink(socket, e, "open", "backlog")
        /\ stream' = WithLink(before, e, << >>, Words("Announce", n))
        /\ peer' = WithLink(peer, e, None, None)
        /\ receiving' = receiving \cup {e}
        /\ newPeers' = newPeers \cup {e}

Connect(n, p) ==
  /\ <<n, p>> \in wanted
  /\ n \in running
  /\ wanted' = wanted \ {<<n, p>>}
  /\ ConnectInternal(n, p, stream)
  /\ UNCHANGED <<running, script, left, toSend, cut>>

\* OnAccept: listen, announce.  If the other end has gone, Send may fail, and
\* then the socket is in no list.
OnAccept(e) ==
  /\ socket[e] = "backlog"
  /\ Owner(e) \in running
  /\ receiving' = receiving \cup {e}
  /\ \/ /\ IsOpen(Other(e))
        /\ socket' = [socket EXCEPT ![e] = "open"]
        /\ stream' = [stream EXCEPT ![Other(e)] = Words("Announce", Owner(e))]
        /\ newPeers' = newPeers \cup {e}
     \/ /\ ~IsOpen(Other(e))
        /\ socket' = [socket EXCEPT ![e] = "open", ![Other(e)] = "reset"]
        /\ newPeers' \in {newPeers, newPeers \cup {e}}
        /\ UNCHANGED stream
  /\ UNCHANGED <<app, peer, toSend, cut>>

-----------------------------------------------------------------------------
(* ProcessMessage *)

\* How many words a read may take: those that have arrived, at most four.
\* Every Send arrives as a whole.
ReadSizes(s) ==
  {IF k < 4 THEN k ELSE 4 : k \in {k \in 1..Len(s) : k = Len(s) \/ s[k + 1] # Body}}

\* Defect: RegisterSocket and its caller do not look for the peer.
Registers_Twice(e, p) == p # Owner(e) /\ e \in newPeers

\* RegisterSocket: an announced peer is new, and not the node itself.
Registers(e, p) ==
  ~HasConnection(Owner(e), p) /\ p # Owner(e) /\ e \in newPeers

\* An announcement on a socket that is not registered.  A second socket to a
\* peer stays open, one that RegisterSocket refuses is closed.
Announced(e, p, rest) ==
  /\ socket' = IF HasConnection(Owner(e), p) \/ Registers(e, p) THEN socket
               ELSE Closed({e}, rest)
  /\ newPeers' = newPeers \ {e}
  /\ toSend' = toSend \cup {e}
  /\ IF Registers(e, p)
     THEN /\ peer' = [peer EXCEPT ![e] = p]
          /\ stream' = rest
          /\ UNCHANGED receiving
     ELSE /\ stream' = [rest EXCEPT ![e] = << >>]
          /\ receiving' = receiving \ {e}
          /\ UNCHANGED peer

\* The handler of a read that took k words.
ProcessMessage(e, k) ==
  LET h == Head(stream[e])
      rest == [stream EXCEPT ![e] = SubSeq(@, k + 1, Len(@))]
  IN /\ e \in receiving
     /\ stream[e] # << >>
     /\ k \in ReadSizes(stream[e])
     /\ \/ /\ peer[e] = None /\ h.type = "Announce"
           /\ Announced(e, h.peer, rest)
        \/ /\ peer[e] # None /\ h.type = "KnownHost"
           /\ ConnectInternal(Owner(e), h.peer, rest)
           /\ UNCHANGED toSend
        \/ /\ h.type # IF peer[e] = None THEN "Announce" ELSE "KnownHost"
           /\ stream' = rest
           /\ UNCHANGED <<socket, receiving, book>>
     /\ cut' = (cut \/ (peer'[e] # None /\ \E i \in 2..k : stream[e][i] # Body))
     /\ UNCHANGED app

\* A read that fails is not repeated; the socket stays where it is.
ReadFails(e) ==
  /\ e \in receiving
  /\ socket[Other(e)] = "reset" \/ (socket[Other(e)] = "closed" /\ stream[e] = << >>)
  /\ receiving' = receiving \ {e}
  /\ stream' = [stream EXCEPT ![e] = << >>]
  /\ UNCHANGED <<socket, book, app, cut>>

-----------------------------------------------------------------------------
(* The last part of Context::Poll *)

\* Defect: the comparison with pSocket is inverted.
KnownHosts_Itself(e) == {peer[e]} \ {None}

\* SendKnownHosts for one socket: the peers behind the others.
KnownHosts(e) == {peer[f] : f \in EndsOf(Owner(e)) \ {e}} \ {None}

KnownHostsSent(order) ==
  [i \in 1..(3 * Len(order)) |->
     IF i % 3 = 1 THEN [type |-> "KnownHost", peer |-> order[(i + 2) \div 3]]
     ELSE Body]

SendKnownHosts(n) ==
  LET mine == toSend \cap EndsOf(n)
      due == {e \in mine : IsOpen(e) /\ n \in running}
      waits == newPeers \cap EndsOf(n) # {}
  IN /\ mine # {}
     /\ waits => due # mine
     /\ toSend' = IF waits THEN toSend \ (mine \ due) ELSE toSend \ mine
     /\ IF waits
        THEN UNCHANGED <<socket, stream>>
        ELSE /\ \E order \in [due -> UNION {SetToSeqs(KnownHosts(e)) : e \in due}] :
                  /\ \A e \in due : order[e] \in SetToSeqs(KnownHosts(e))
                  /\ stream' = [f \in Made |->
                       IF Other(f) \in due /\ (f \in receiving \/ socket[f] = "backlog")
                       THEN stream[f] \o KnownHostsSent(order[Other(f)])
                       ELSE stream[f]]
             /\ socket' = [f \in Made |->
                  IF /\ Other(f) \in due /\ socket[f] = "closed"
                     /\ KnownHosts(Other(f)) # {}
                  THEN "reset" ELSE socket[f]]
     /\ UNCHANGED <<receiving, newPeers, peer, app, cut>>

-----------------------------------------------------------------------------
(* The application *)

\* The sockets of both lists, and the links the acceptor has not accepted.
Listed(n) == {e \in EndsOf(n) : peer[e] # None \/ e \in newPeers}
Pending(n) == {e \in EndsOf(n) : socket[e] = "backlog"}

\* Defect: m_newPeers is not cleared.
WithoutNewPeers_Kept(n) == newPeers

\* m_newPeers is cleared.
WithoutNewPeers(n) == newPeers \ EndsOf(n)

\* Close() of the acceptor and of the sockets in the two lists.
Close(n) ==
  LET gone == Listed(n) \cup Pending(n)
  IN /\ n \in running
     /\ n \in script.leaving \ left
     /\ left' = left \cup {n}
     /\ running' = running \ {n}
     /\ socket' = Closed(gone, stream)
     /\ stream' = [e \in Made |-> IF e \in gone THEN << >> ELSE stream[e]]
     /\ receiving' = receiving \ gone
     /\ newPeers' = WithoutNewPeers(n)
     /\ peer' = [e \in Made |-> IF Owner(e) = n THEN None ELSE peer[e]]
     /\ UNCHANGED <<wanted, script, toSend, cut>>

\* Run() once Poll has delivered what Close cancelled and has dropped what
\* waited to be sent: the cancelled accept still refers to the old acceptor.
Run(n) ==
  /\ n \in script.returning \ running
  /\ toSend \cap EndsOf(n) = {}
  /\ running' = running \cup {n}
  /\ UNCHANGED <<wire, book, wanted, script, left, cut>>

-----------------------------------------------------------------------------

Poll ==
  \/ \E e \in Made : OnAccept(e) \/ ReadFails(e) \/ \E k \in 1..4 : ProcessMessage(e, k)
  \/ \E n \in Node : SendKnownHosts(n)

Next ==
  \/ Poll
  \/ \E n \in Node : Close(n) \/ Run(n) \/ \E p \in Node : Connect(n, p)

Spec == Init /\ [][Next]_vars

\* Every node goes on polling.  A behaviour has finitely many polls that do
\* something, so one condition for all of them says so.
FairSpec == Spec /\ WF_vars(Poll)

-----------------------------------------------------------------------------
(* Properties *)

\* The variables have their types; an end that is read from, or that waits to
\* be announced, is an open socket.
TypeOK ==
  /\ running \cup left \subseteq Node
  /\ wanted \subseteq Node \X Node
  /\ Made \subseteq End /\ DOMAIN stream = Made /\ DOMAIN peer = Made
  /\ \A e \in Made : /\ socket[e] \in {"backlog", "open", "closed", "reset"}
                     /\ stream[e] \in Seq(Header \cup {Body})
                     /\ peer[e] \in Node \cup {None}
  /\ receiving \cup newPeers \subseteq {e \in Made : IsOpen(e)}
  /\ toSend \subseteq Made
  /\ cut \in BOOLEAN

\* However connections cross and double, m_connections of a node has one
\* socket for a peer, never one for the node itself, and the socket leads to
\* that peer: its other end has not been closed unless the peer has left.  And
\* SendKnownHosts never meets the empty m_connections its assertion excludes.
KnownOnce ==
  /\ \A e \in Made : peer[e] # None =>
       /\ peer[e] = Owner(Other(e)) /\ peer[e] # Owner(e)
       /\ IsOpen(e)
       /\ socket[Other(e)] \in {"open", "backlog"} \/ peer[e] \in left
       /\ \A f \in EndsOf(Owner(e)) : peer[f] = peer[e] => f = e
  /\ \A e \in toSend :
       IsOpen(e) /\ Owner(e) \in running => \E f \in EndsOf(Owner(e)) : peer[f] # None

\* A socket in m_newPeers keeps a node from sending known hosts.
Blocked(n) == newPeers \cap EndsOf(n) # {}

Linked(n, p) == \E e \in EndsOf(n) : Owner(Other(e)) = p

\* Nothing is left to read or to send.
Quiet ==
  /\ \A e \in receiving : stream[e] = << >>
  /\ \A e \in toSend : Blocked(Owner(e))

\* The connecting back and forth ends, within MaxLinks links.  Then peers that
\* have not left know each other if a link was made between them; and if a
\* third one links them they have found each other, unless it is blocked by a
\* socket that never announced itself or a header was read behind another.
MeshCompletes ==
  <>[](/\ Quiet
       /\ \A n, p \in Node \ left : n # p =>
            /\ Linked(n, p) => HasConnection(n, p)
            /\ \A q \in Node \ (left \cup {n, p}) :
                 Linked(n, q) /\ Linked(q, p) =>
                   cut \/ Blocked(q) \/ HasConnection(n, p))
=============================================================================
