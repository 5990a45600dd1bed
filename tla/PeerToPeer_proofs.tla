-------------------------- MODULE PeerToPeer_proofs --------------------------
(***************************************************************************)
(* Proofs about PeerToPeer, for any finite set of peers, any connections   *)
(* they begin with and any number of links between them.                   *)
(***************************************************************************)
EXTENDS PeerToPeer, FiniteSetTheorems, SequenceTheorems, TLAPS

-----------------------------------------------------------------------------
(* The inductive invariant *)

IsShut(e) == socket[e] \in {"closed", "reset"}

\* Links are made with both ends, one after the other; only the end that was
\* connected to waits to be accepted, and until then no known hosts are due.
LinkInv ==
  /\ \A e \in Made : Other(e) \in Made
  /\ \A n, p \in Node : \A j, k \in 1..MaxLinks :
       j <= k /\ << <<n, p, k>>, "from">> \in Made => << <<n, p, j>>, "from">> \in Made
  /\ \A e \in Made : socket[e] = "backlog" => e[2] = "to" /\ e \notin toSend

\* What is on its way names the node that sent it.
IsTrue(e, w) == w.type = "Announce" => w.peer = Owner(Other(e))
AnnounceInv ==
  \A e \in Made : \A i \in 1..Len(stream[e]) : IsTrue(e, stream[e][i])

\* Why an end is shut: its node has left or refused to talk to itself, or the
\* other end was shut before.
ShutInv ==
  \A e \in Made : IsShut(e) =>
    \/ Owner(e) \in left
    \/ Owner(Other(e)) = Owner(e)
    \/ IsShut(Other(e))

\* An end in neither list is read from only if its other end is shut.
StrayInv ==
  \A e \in receiving : peer[e] = None /\ e \notin newPeers => IsShut(Other(e))

PeerInv == TypeOK /\ LinkInv /\ AnnounceInv /\ ShutInv /\ StrayInv /\ KnownOnce

-----------------------------------------------------------------------------
(* Ends and links *)

\* An end has an owner and another end, whose other end it is.
LEMMA EndFacts ==
  ASSUME NEW e \in End
  PROVE  /\ Other(e) \in End /\ Other(e) # e /\ Other(Other(e)) = e
         /\ Owner(e) \in Node
         /\ e[2] = "from" \/ e[2] = "to"
         /\ Other(e)[2] # e[2]
<1>1. PICK l \in Link, side \in {"from", "to"} : e = <<l, side>>
  BY DEF End
<1>2. l[1] \in Node /\ l[2] \in Node
  BY DEF Link
<1>3. e[1] = l /\ e[2] = side
  BY <1>1
<1>4. Other(e) = <<l, IF side = "from" THEN "to" ELSE "from">>
  BY <1>3 DEF Other
<1>5. Other(e) \in End
  BY <1>4 DEF End
<1>6. Other(e)[1] = l /\ Other(e)[2] = IF side = "from" THEN "to" ELSE "from"
  BY <1>4
<1>7. Other(Other(e)) = e
  <2>1. Other(Other(e)) = <<l, IF Other(e)[2] = "from" THEN "to" ELSE "from">>
    BY <1>6 DEF Other
  <2>2. CASE side = "from"
    BY <2>1, <2>2, <1>1, <1>6
  <2>3. CASE side = "to"
    BY <2>1, <2>3, <1>1, <1>6
  <2> QED BY <2>2, <2>3
<1>8. Other(e) # e
  BY <1>3, <1>6
<1>9. Owner(e) \in Node
  BY <1>2, <1>3 DEF Owner
<1>10. Other(e)[2] # e[2]
  BY <1>3, <1>6
<1> QED BY <1>3, <1>5, <1>7, <1>8, <1>9, <1>10

\* The links there are between two nodes are the first ones, and a new one
\* comes next.
LEMMA NewEndFacts ==
  ASSUME TypeOK, LinkInv, NEW n \in Node, NEW p \in Node, NewEnd(n, p) \in End
  PROVE  /\ NewEnd(n, p) \notin Made /\ Other(NewEnd(n, p)) \notin Made
         /\ NewEnd(n, p)[2] = "from"
         /\ Owner(NewEnd(n, p)) = n /\ Owner(Other(NewEnd(n, p))) = p
         /\ \E k \in 1..MaxLinks :
              /\ NewEnd(n, p) = << <<n, p, k>>, "from">>
              /\ \A j \in 1..MaxLinks : j < k => << <<n, p, j>>, "from">> \in Made
<1> DEFINE K == LinksMade(n, p)
           c == Cardinality(K)
           e == NewEnd(n, p)
<1>1. MaxLinks \in Nat
  BY BoundAssumption
<1>2. IsFiniteSet(1..MaxLinks) /\ K \subseteq 1..MaxLinks
  BY <1>1, FS_Interval DEF LinksMade
<1>3. IsFiniteSet(K) /\ c \in Nat
  BY <1>2, FS_Subset, FS_CardinalityType
<1>4. e = << <<n, p, c + 1>>, "from">>
  BY DEF NewEnd
<1>5. \A j, k \in 1..MaxLinks : j <= k /\ k \in K => j \in K
  BY DEF LinkInv, LinksMade
<1> HIDE DEF K, e
<1>6. c + 1 \in 1..MaxLinks
  <2>1. PICK l \in Link, side \in {"from", "to"} : e = <<l, side>>
    BY DEF End, e
  <2>2. l = <<n, p, c + 1>>
    BY <2>1, <1>4
  <2>3. l[3] \in 1..MaxLinks
    BY <2>1 DEF Link
  <2> QED BY <2>2, <2>3
<1> HIDE DEF c
<1>7. c + 1 \notin K
  <2> SUFFICES ASSUME c + 1 \in K PROVE FALSE
    OBVIOUS
  <2>1. 1..(c + 1) \subseteq K
    BY <1>1, <1>3, <1>5, <1>6
  <2>2. Cardinality(1..(c + 1)) = c + 1
    BY <1>3, FS_Interval
  <2>3. Cardinality(1..(c + 1)) <= Cardinality(K)
    BY <2>1, <1>3, FS_Subset
  <2> QED BY <2>2, <2>3, <1>3 DEF c
<1>8. ASSUME NEW j \in 1..MaxLinks, j < c + 1
      PROVE  j \in K
  <2> SUFFICES ASSUME j \notin K PROVE FALSE
    OBVIOUS
  <2>1. K \subseteq 1..(j - 1)
    BY <1>1, <1>2, <1>5
  <2>2. IsFiniteSet(1..(j - 1)) /\ Cardinality(1..(j - 1)) = j - 1
    BY FS_Interval
  <2>3. Cardinality(K) <= Cardinality(1..(j - 1))
    BY <2>1, <2>2, FS_Subset
  <2> QED BY <2>2, <2>3, <1>3, <1>8 DEF c
<1>9. e \notin Made /\ \A j \in 1..MaxLinks : j < c + 1 => << <<n, p, j>>, "from">> \in Made
  BY <1>4, <1>6, <1>7, <1>8 DEF K, LinksMade
<1>10. Other(e) \notin Made
  <2> SUFFICES ASSUME Other(e) \in Made PROVE FALSE
    OBVIOUS
  <2>1. Other(Other(e)) \in Made /\ Other(Other(e)) = e
    BY EndFacts DEF LinkInv, e
  <2> QED BY <2>1, <1>9
<1>11. e[1] = <<n, p, c + 1>> /\ e[2] = "from"
  BY <1>4
<1>12. Owner(e) = n
  BY <1>11 DEF Owner
<1>13. Owner(Other(e)) = p
  BY <1>11 DEF Owner, Other
<1> QED BY <1>4, <1>6, <1>9, <1>10, <1>11, <1>12, <1>13 DEF e

-----------------------------------------------------------------------------
(* Words *)

Word == Header \cup {Body}

\* Words on their way to e.
AreTrue(e, ws) == ws \in Seq(Word) /\ \A i \in 1..Len(ws) : IsTrue(e, ws[i])

\* What a stream has the type of, and says, in one.
LEMMA StreamsAreTrue ==
  TypeOK /\ AnnounceInv => \A e \in Made : AreTrue(e, stream[e])
BY DEF TypeOK, AnnounceInv, AreTrue, Word

\* A header that has a type names a node.
LEMMA HeaderFacts ==
  ASSUME NEW w \in Word
  PROVE  /\ w.type = "Announce" \/ w.type = "KnownHost" => w.peer \in Node
         /\ w = Body => w.type = "Body"
BY DEF Word, Header, Body

\* An announcement of the node at the other end is true.
LEMMA AnnouncementIsTrue ==
  ASSUME NEW e \in End, NEW n \in Node, Owner(Other(e)) = n
  PROVE  AreTrue(e, Words("Announce", n))
<1> DEFINE w == Words("Announce", n)
<1>1. w \in Seq(Word) /\ Len(w) = 3
  BY DEF Words, Word, Header, Body
<1>2. ASSUME NEW i \in 1..3
      PROVE  IsTrue(e, w[i])
  <2>1. i = 1 \/ i = 2 \/ i = 3
    OBVIOUS
  <2> QED BY <2>1 DEF Words, Body, IsTrue
<1> QED BY <1>1, <1>2, Zenon DEF AreTrue

\* Reading takes words away.
LEMMA ReadIsTrue ==
  ASSUME NEW e, NEW ws, AreTrue(e, ws), NEW k \in Nat
  PROVE  AreTrue(e, SubSeq(ws, k + 1, Len(ws)))
<1>1. ws \in Seq(Word) /\ Len(ws) \in Nat
  BY DEF AreTrue
<1> DEFINE r == SubSeq(ws, k + 1, Len(ws))
<1>2. r \in Seq(Word) /\ \A i \in 1..Len(r) : i + k \in 1..Len(ws) /\ r[i] = ws[i + k]
  BY <1>1
<1> QED BY <1>2 DEF AreTrue

\* Nothing on its way is true.
LEMMA NothingIsTrue == \A e : AreTrue(e, << >>)
BY DEF AreTrue

\* Known hosts may be sent to anyone.
LEMMA KnownHostsAreTrue ==
  ASSUME NEW e, NEW ws, AreTrue(e, ws),
         NEW S \in SUBSET Node, NEW order \in SetToSeqs(S)
  PROVE  AreTrue(e, ws \o KnownHostsSent(order))
<1> DEFINE sent == KnownHostsSent(order)
<1>1. IsFiniteSet(S)
  BY NodeAssumption, FS_Subset
<1>2. Cardinality(S) \in Nat
  BY <1>1, FS_CardinalityType
<1>3. order \in [1..Cardinality(S) -> S]
  BY DEF SetToSeqs
<1>4. order \in Seq(Node) /\ Len(order) \in Nat
  BY <1>2, <1>3
<1>5. \A i \in 1..(3 * Len(order)) : (i + 2) \div 3 \in 1..Len(order)
  BY <1>4
<1>6. \A i \in 1..(3 * Len(order)) : order[(i + 2) \div 3] \in Node
  BY <1>4, <1>5
<1>7. ASSUME NEW i \in 1..(3 * Len(order))
      PROVE  sent[i] \in Word /\ sent[i].type # "Announce"
  <2>1. CASE i % 3 = 1
    <3>1. sent[i] = [type |-> "KnownHost", peer |-> order[(i + 2) \div 3]]
      BY <2>1 DEF KnownHostsSent
    <3> QED BY <3>1, <1>6 DEF Word, Header
  <2>2. CASE i % 3 # 1
    <3>1. sent[i] = Body
      BY <2>2 DEF KnownHostsSent
    <3> QED BY <3>1 DEF Word, Body
  <2> QED BY <2>1, <2>2
<1>8. DOMAIN sent = 1..(3 * Len(order)) /\ 3 * Len(order) \in Nat
  BY <1>4 DEF KnownHostsSent
<1> HIDE DEF sent
<1>9. sent = [i \in 1..(3 * Len(order)) |-> sent[i]]
  <2> USE DEF sent
  <2> QED BY <1>8 DEF KnownHostsSent
<1>10. sent \in [1..(3 * Len(order)) -> Word]
  BY <1>7, <1>9
<1>11. sent \in Seq(Word) /\ Len(sent) = 3 * Len(order)
  BY <1>8, <1>10
<1>12. ws \in Seq(Word)
  BY DEF AreTrue
<1>13. ws \o sent \in Seq(Word) /\ Len(ws \o sent) = Len(ws) + Len(sent)
  BY <1>11, <1>12
<1>14. ASSUME NEW i \in 1..Len(ws \o sent)
       PROVE  IsTrue(e, (ws \o sent)[i])
  <2>1. CASE i <= Len(ws)
    <3>1. (ws \o sent)[i] = ws[i] /\ i \in 1..Len(ws)
      BY <2>1, <1>11, <1>12, <1>13
    <3> QED BY <3>1 DEF AreTrue
  <2>2. CASE i > Len(ws)
    <3>1. (ws \o sent)[i] = sent[i - Len(ws)] /\ i - Len(ws) \in 1..Len(sent)
      BY <2>2, <1>11, <1>12, <1>13
    <3> QED BY <3>1, <1>7, <1>11 DEF IsTrue
  <2> QED BY <2>1, <2>2, <1>12
<1> USE DEF sent
<1> QED BY <1>13, <1>14, Zenon DEF AreTrue

-----------------------------------------------------------------------------
(* Initial states *)

LEMMA PeerInit == Init => PeerInv
<1> SUFFICES ASSUME Init PROVE PeerInv
  OBVIOUS
<1>1. PICK start \in Starts :
        LET ends == {<< <<l[1], l[2], 1>>, side>> : l \in start.standing, side \in {"from", "to"}}
        IN /\ wanted = start.wanted
           /\ socket = [e \in ends |-> "open"]
           /\ stream = [e \in ends |-> << >>]
           /\ receiving = ends
           /\ peer = [e \in ends |-> Owner(Other(e))]
  BY DEF Init
<1> DEFINE end(l, side) == << <<l[1], l[2], 1>>, side>>
           ends == {end(l, side) : l \in start.standing, side \in {"from", "to"}}
<1>2. start.standing \subseteq Node \X Node /\ start.wanted \subseteq Node \X Node
  BY StartAssumption
<1>3. ASSUME NEW e \in ends
      PROVE  /\ e \in End /\ Other(e) \in ends
             /\ Owner(Other(e)) # Owner(e)
             /\ \A f \in ends :
                  Owner(f) = Owner(e) /\ Owner(Other(f)) = Owner(Other(e)) => f = e
             /\ e[1][3] = 1
  <2>1. PICK l \in start.standing, side \in {"from", "to"} : e = end(l, side)
    OBVIOUS
  <2>2. l[1] \in Node /\ l[2] \in Node /\ l = <<l[1], l[2]>>
    BY <1>2
  <2>3. 1 \in 1..MaxLinks
    BY BoundAssumption
  <2>4. e \in End
    BY <2>1, <2>2, <2>3 DEF End, Link
  <2>5. Other(e) = end(l, IF side = "from" THEN "to" ELSE "from")
    BY <2>1 DEF Other
  <2>6. Other(e) \in ends
    BY <2>5
  <2>7. /\ Owner(e) = IF side = "from" THEN l[1] ELSE l[2]
        /\ Owner(Other(e)) = IF side = "from" THEN l[2] ELSE l[1]
    BY <2>1, <2>5 DEF Owner
  <2>8. l[1] # l[2] /\ <<l[2], l[1]>> \notin start.standing
    BY StartAssumption
  <2>9. ASSUME NEW f \in ends, Owner(f) = Owner(e), Owner(Other(f)) = Owner(Other(e))
        PROVE  f = e
    <3>1. PICK m \in start.standing, s \in {"from", "to"} : f = end(m, s)
      OBVIOUS
    <3>2. m = <<m[1], m[2]>>
      BY <1>2
    <3>3. Other(f) = end(m, IF s = "from" THEN "to" ELSE "from")
      BY <3>1 DEF Other
    <3>4. /\ Owner(f) = IF s = "from" THEN m[1] ELSE m[2]
          /\ Owner(Other(f)) = IF s = "from" THEN m[2] ELSE m[1]
      BY <3>1, <3>3 DEF Owner
    <3>5. CASE s = side
      <4>1. m = l
        BY <2>2, <2>7, <2>9, <3>2, <3>4, <3>5
      <4> QED BY <4>1, <2>1, <3>1, <3>5
    <3>6. CASE s # side
      <4>1. m = <<l[2], l[1]>>
        BY <2>7, <2>9, <3>2, <3>4, <3>6
      <4> QED BY <4>1, <2>8
    <3> QED BY <3>5, <3>6
  <2>10. e[1][3] = 1
    BY <2>1
  <2> QED BY <2>4, <2>6, <2>7, <2>8, <2>9, <2>10
<1> HIDE DEF ends, end
<1>4. /\ socket = [e \in ends |-> "open"] /\ stream = [e \in ends |-> << >>]
      /\ receiving = ends /\ peer = [e \in ends |-> Owner(Other(e))]
      /\ wanted = start.wanted
  BY <1>1 DEF ends, end
<1>5. running = Node /\ left = {} /\ newPeers = {} /\ toSend = {} /\ cut = FALSE
  BY DEF Init
<1>6. Made = ends
  BY <1>4 DEF Made
<1>7. \A e \in ends : Owner(Other(e)) \in Node
  BY <1>3, EndFacts
<1>8. TypeOK
  <2>1. \A e \in ends : stream[e] \in Seq(Header \cup {Body})
    BY <1>4
  <2>2. Made \subseteq End
    BY <1>3, <1>6
  <2> QED BY <1>2, <1>4, <1>5, <1>6, <1>7, <2>1, <2>2 DEF TypeOK, IsOpen
<1>9. LinkInv
  <2>1. ASSUME NEW n \in Node, NEW p \in Node, NEW j \in 1..MaxLinks, NEW k \in 1..MaxLinks,
               j <= k, << <<n, p, k>>, "from">> \in Made
        PROVE  << <<n, p, j>>, "from">> \in Made
    <3>1. k = 1
      BY <2>1, <1>3, <1>6
    <3>2. j = 1
      BY <3>1, <2>1, BoundAssumption
    <3> QED BY <2>1, <3>1, <3>2
  <2>2. \A e \in Made : Other(e) \in Made /\ socket[e] = "open"
    BY <1>3, <1>4, <1>6
  <2> QED BY <2>1, <2>2 DEF LinkInv
<1>10. AnnounceInv
  BY <1>4, <1>6 DEF AnnounceInv
<1>11. ShutInv /\ StrayInv
  <2>1. \A e \in Made : socket[e] = "open" /\ peer[e] \in Node
    BY <1>4, <1>6, <1>7
  <2> QED BY <2>1, <1>4, <1>6, NodeAssumption DEF ShutInv, StrayInv, IsShut
<1>12. KnownOnce
  <2>1. \A e \in Made : socket[e] = "open" /\ peer[e] = Owner(Other(e)) /\ Other(e) \in Made
    BY <1>3, <1>4, <1>6
  <2>2. \A e \in Made : \A f \in EndsOf(Owner(e)) : peer[f] = peer[e] => f = e
    BY <1>3, <1>6, <2>1 DEF EndsOf
  <2> QED BY <2>1, <2>2, <1>3, <1>5, <1>6 DEF KnownOnce, IsOpen
<1> QED BY <1>8, <1>9, <1>10, <1>11, <1>12 DEF PeerInv

-----------------------------------------------------------------------------
(* Steps *)

\* Streams that are true have their type.
LEMMA TrueStreams ==
  /\ (\A e \in Made : AreTrue(e, stream[e]))' =>
       (\A e \in Made : stream[e] \in Seq(Header \cup {Body}))' /\ AnnounceInv'
BY DEF AreTrue, AnnounceInv, Word

\* A node connects to another one, or fails to: what is known does not change.
LEMMA ConnectStep ==
  ASSUME PeerInv, NEW n \in Node, NEW p \in Node,
         NEW before, \A e \in Made : AreTrue(e, before[e]), DOMAIN before = Made,
         ConnectInternal(n, p, before),
         wanted' \subseteq Node \X Node, cut' \in BOOLEAN,
         UNCHANGED <<running, left, toSend>>
  PROVE  PeerInv'
<1> DEFINE e == NewEnd(n, p)
           g == Other(e)
<1> USE DEF PeerInv
<1>1. CASE /\ stream' = before
           /\ UNCHANGED <<socket, receiving, newPeers, peer>>
  <2>1. Made' = Made
    BY <1>1 DEF Made
  <2>2. AnnounceInv' /\ (\A d \in Made : stream[d] \in Seq(Header \cup {Body}))'
    BY <1>1, <2>1, TrueStreams
  <2>3. TypeOK'
    BY <1>1, <2>1, <2>2 DEF TypeOK, IsOpen
  <2>4. LinkInv' /\ ShutInv' /\ StrayInv' /\ KnownOnce'
    BY <1>1, <2>1 DEF LinkInv, ShutInv, IsShut, StrayInv, KnownOnce, IsOpen, EndsOf
  <2> QED BY <2>2, <2>3, <2>4
<1>2. CASE /\ e \in End
           /\ socket' = WithLink(socket, e, "open", "backlog")
           /\ stream' = WithLink(before, e, << >>, Words("Announce", n))
           /\ peer' = WithLink(peer, e, None, None)
           /\ receiving' = receiving \cup {e}
           /\ newPeers' = newPeers \cup {e}
  <2>1. /\ e \notin Made /\ g \notin Made /\ e[2] = "from" /\ Owner(e) = n
        /\ \E k \in 1..MaxLinks :
              /\ e = << <<n, p, k>>, "from">>
              /\ \A j \in 1..MaxLinks : j < k => << <<n, p, j>>, "from">> \in Made
    BY <1>2, NewEndFacts
  <2>2. e \in End /\ g \in End /\ g # e /\ Other(g) = e /\ g[2] = "to"
    BY <1>2, <2>1, EndFacts
  <2> HIDE DEF e
  <2>3. DOMAIN stream = Made /\ DOMAIN peer = Made /\ DOMAIN socket = Made
    BY DEF TypeOK, Made
  <2>4. /\ Made' = Made \cup {e, g}
        /\ DOMAIN stream' = Made' /\ DOMAIN peer' = Made'
        /\ socket'[e] = "open" /\ stream'[e] = << >> /\ peer'[e] = None
        /\ socket'[g] = "backlog" /\ stream'[g] = Words("Announce", n) /\ peer'[g] = None
        /\ \A d \in Made : /\ socket'[d] = socket[d] /\ stream'[d] = before[d]
                           /\ peer'[d] = peer[d] /\ Other(d) \in Made
                           /\ d # e /\ d # g
    <3>1. \A d \in Made : d # e /\ d # g /\ Other(d) \in Made
      BY <2>1 DEF LinkInv
    <3>2. /\ DOMAIN socket' = Made \cup {e, g}
          /\ socket'[e] = "open" /\ socket'[g] = "backlog"
          /\ \A d \in Made : socket'[d] = socket[d]
      BY <1>2, <2>2, <2>3, <3>1 DEF WithLink
    <3>3. /\ DOMAIN peer' = Made \cup {e, g}
          /\ peer'[e] = None /\ peer'[g] = None
          /\ \A d \in Made : peer'[d] = peer[d]
      BY <1>2, <2>2, <2>3, <3>1 DEF WithLink
    <3>4. /\ DOMAIN stream' = Made \cup {e, g}
          /\ stream'[e] = << >> /\ stream'[g] = Words("Announce", n)
          /\ \A d \in Made : stream'[d] = before[d]
      BY <1>2, <2>2, <2>3, <3>1 DEF WithLink
    <3>5. Made' = DOMAIN socket'
      BY DEF Made
    <3> QED BY <3>1, <3>2, <3>3, <3>4, <3>5
  <2> HIDE DEF g
  <2>5. AnnounceInv' /\ (\A d \in Made : stream[d] \in Seq(Header \cup {Body}))'
    <3>1. AreTrue(g, Words("Announce", n))
      BY <2>1, <2>2, AnnouncementIsTrue
    <3>2. AreTrue(e, << >>)
      BY NothingIsTrue
    <3>3. (\A d \in Made : AreTrue(d, stream[d]))'
      BY <2>4, <3>1, <3>2
    <3> QED BY <3>3, TrueStreams
  <2>6. TypeOK'
    <3>1. Made' \subseteq End
      BY <2>2, <2>4 DEF TypeOK
    <3>2. (receiving \cup newPeers \subseteq {d \in Made : IsOpen(d)})'
      BY <1>2, <2>4 DEF TypeOK, IsOpen
    <3>3. (\A d \in Made : /\ socket[d] \in {"backlog", "open", "closed", "reset"}
                           /\ peer[d] \in Node \cup {None})'
      BY <2>4 DEF TypeOK
    <3> QED BY <2>4, <2>5, <3>1, <3>2, <3>3 DEF TypeOK
  <2>7. LinkInv'
    <3>1. \A d \in Made' :
            Other(d) \in Made' /\ (socket'[d] = "backlog" => d[2] = "to" /\ d \notin toSend')
      BY <2>1, <2>2, <2>4 DEF LinkInv, TypeOK, g
    <3>2. ASSUME NEW a \in Node, NEW b \in Node, NEW j \in 1..MaxLinks, NEW k \in 1..MaxLinks,
                 j <= k, << <<a, b, k>>, "from">> \in Made'
          PROVE  << <<a, b, j>>, "from">> \in Made'
      <4>1. CASE << <<a, b, k>>, "from">> \in Made
        BY <4>1, <3>2, <2>4 DEF LinkInv
      <4>2. CASE << <<a, b, k>>, "from">> = e
        BY <4>2, <3>2, <2>1, <2>4
      <4>3. << <<a, b, k>>, "from">> # g
        BY <2>2
      <4> QED BY <4>1, <4>2, <4>3, <3>2, <2>4
    <3> QED BY <3>1, <3>2 DEF LinkInv
  <2>8. ShutInv' /\ StrayInv'
    <3>1. ShutInv'
      BY <1>2, <2>4 DEF ShutInv, IsShut
    <3>2. StrayInv'
      BY <1>2, <2>4 DEF StrayInv, TypeOK, IsShut
    <3> QED BY <3>1, <3>2
  <2>9. KnownOnce'
    <3>1. ASSUME NEW d \in Made', peer'[d] # None
          PROVE  /\ peer'[d] = Owner(Other(d)) /\ peer'[d] # Owner(d)
                 /\ socket'[d] = "open"
                 /\ socket'[Other(d)] \in {"open", "backlog"} \/ peer'[d] \in left'
                 /\ \A f \in Made' : Owner(f) = Owner(d) /\ peer'[f] = peer'[d] => f = d
      <4>1. d \in Made /\ peer[d] # None
        BY <3>1, <2>4
      <4> QED BY <4>1, <3>1, <2>4 DEF KnownOnce, IsOpen, EndsOf
    <3>2. ASSUME NEW d \in toSend', socket'[d] = "open", Owner(d) \in running'
          PROVE  \E f \in Made' : Owner(f) = Owner(d) /\ peer'[f] # None
      BY <3>2, <2>4 DEF KnownOnce, TypeOK, IsOpen, EndsOf
    <3> QED BY <3>1, <3>2 DEF KnownOnce, IsOpen, EndsOf
  <2> QED BY <2>5, <2>6, <2>7, <2>8, <2>9
<1> QED BY <1>1, <1>2 DEF ConnectInternal

\* What a read takes, and what it leaves.
LEMMA ReadFacts ==
  ASSUME TypeOK, AnnounceInv, NEW e \in receiving, stream[e] # << >>,
         NEW k \in ReadSizes(stream[e])
  PROVE  LET rest == [stream EXCEPT ![e] = SubSeq(@, k + 1, Len(@))]
         IN /\ e \in Made
            /\ Head(stream[e]) \in Word /\ IsTrue(e, Head(stream[e]))
            /\ DOMAIN rest = Made
            /\ \A d \in Made : AreTrue(d, rest[d])
            /\ \A d \in Made : d # e => rest[d] = stream[d]
<1> DEFINE rest == [stream EXCEPT ![e] = SubSeq(@, k + 1, Len(@))]
<1>1. e \in Made /\ DOMAIN stream = Made
  BY DEF TypeOK
<1>2. \A d \in Made : AreTrue(d, stream[d])
  BY StreamsAreTrue
<1>3. stream[e] \in Seq(Word) /\ Len(stream[e]) \in Nat
  BY <1>1, <1>2 DEF AreTrue
<1>4. 1 \in 1..Len(stream[e]) /\ Head(stream[e]) = stream[e][1]
  BY <1>3
<1>5. Head(stream[e]) \in Word /\ IsTrue(e, Head(stream[e]))
  BY <1>1, <1>2, <1>3, <1>4 DEF AreTrue
<1>6. k \in Nat
  BY <1>3 DEF ReadSizes
<1>7. AreTrue(e, SubSeq(stream[e], k + 1, Len(stream[e])))
  BY <1>1, <1>2, <1>6, ReadIsTrue
<1>8. \A d \in Made : rest[d] = IF d = e THEN SubSeq(stream[e], k + 1, Len(stream[e])) ELSE stream[d]
  BY <1>1
<1>9. DOMAIN rest = Made
  BY <1>1
<1> HIDE DEF rest
<1>10. \A d \in Made : AreTrue(d, rest[d])
  BY <1>2, <1>7, <1>8
<1> USE DEF rest
<1> QED BY <1>1, <1>5, <1>8, <1>9, <1>10

\* An announcement is registered, ignored or refused.
LEMMA AnnouncedStep ==
  ASSUME PeerInv, NEW e \in receiving, peer[e] = None,
         NEW rest, DOMAIN rest = Made, \A d \in Made : AreTrue(d, rest[d]),
         Announced(e, Owner(Other(e)), rest), cut' \in BOOLEAN,
         UNCHANGED <<running, left, wanted>>
  PROVE  PeerInv'
<1> DEFINE p == Owner(Other(e))
           n == Owner(e)
<1> USE DEF PeerInv
<1>1. /\ e \in Made /\ socket[e] = "open" /\ e \in End
      /\ DOMAIN stream = Made /\ DOMAIN peer = Made /\ DOMAIN socket = Made
      /\ p \in Node /\ n \in Node /\ Other(e) \in Made /\ Other(e) # e
      /\ Other(Other(e)) = e
  BY EndFacts DEF TypeOK, LinkInv, Made, IsOpen
<1>2. \A d \in Made : Other(d) \in Made /\ Other(d) # d /\ Other(Other(d)) = d
  BY EndFacts DEF TypeOK, LinkInv
<1>3. newPeers' = newPeers \ {e} /\ toSend' = toSend \cup {e}
  BY DEF Announced
<1>4. CASE Registers(e, p)
  <2>1. /\ socket' = socket /\ peer' = [peer EXCEPT ![e] = p]
        /\ stream' = rest /\ receiving' = receiving
    BY <1>4 DEF Announced
  <2>2. Made' = Made
    BY <2>1 DEF Made
  <2>3. /\ p # n /\ \A f \in Made : Owner(f) = n => peer[f] # p
    BY <1>4 DEF Registers, HasConnection, EndsOf
  <2>4. /\ DOMAIN peer' = Made /\ peer'[e] = p
        /\ \A d \in Made : d # e => peer'[d] = peer[d]
    BY <1>1, <2>1
  <2>5. AnnounceInv' /\ (\A d \in Made : stream[d] \in Seq(Header \cup {Body}))'
    BY <2>1, <2>2, TrueStreams
  <2>6. TypeOK'
    <3>1. \A d \in Made : peer'[d] \in Node \cup {None}
      BY <1>1, <2>4 DEF TypeOK
    <3>2. receiving' \cup newPeers' \subseteq {d \in Made : socket[d] = "open"}
      BY <1>3, <2>1 DEF TypeOK, IsOpen
    <3>3. toSend' \subseteq Made
      BY <1>1, <1>3 DEF TypeOK
    <3>4. running' \cup left' \subseteq Node /\ wanted' \subseteq Node \X Node
      BY DEF TypeOK
    <3>5. \A d \in Made : socket[d] \in {"backlog", "open", "closed", "reset"}
      BY DEF TypeOK
    <3> QED BY <2>1, <2>2, <2>4, <2>5, <3>1, <3>2, <3>3, <3>4, <3>5 DEF TypeOK, IsOpen
  <2>7. LinkInv'
    BY <1>1, <1>3, <2>1, <2>2 DEF LinkInv
  <2>8. ShutInv' /\ StrayInv'
    <3>1. ShutInv'
      BY <2>1, <2>2 DEF ShutInv, IsShut
    <3>2. ASSUME NEW d \in receiving', peer'[d] = None, d \notin newPeers'
          PROVE  IsShut(Other(d))'
      <4>1. d # e /\ d \in Made
        BY <3>2, <1>1, <2>1, <2>4, NodeAssumption DEF TypeOK
      <4> QED BY <4>1, <3>2, <1>3, <2>1, <2>4 DEF StrayInv, IsShut
    <3> QED BY <3>1, <3>2 DEF StrayInv
  <2>9. KnownOnce'
    <3>1. socket[Other(e)] \in {"open", "backlog"} \/ p \in left
      <4>1. ~IsShut(e)
        BY <1>1 DEF IsShut
      <4>2. IsShut(Other(e)) => p \in left
        BY <4>1, <1>1, <2>3 DEF ShutInv
      <4> QED BY <4>2, <1>1 DEF TypeOK, IsShut
    <3>2. ASSUME NEW d \in Made, peer'[d] # None
          PROVE  /\ peer'[d] = Owner(Other(d)) /\ peer'[d] # Owner(d)
                 /\ socket[d] = "open"
                 /\ socket[Other(d)] \in {"open", "backlog"} \/ peer'[d] \in left
                 /\ \A f \in Made : Owner(f) = Owner(d) /\ peer'[f] = peer'[d] => f = d
      <4>1. CASE d = e
        BY <4>1, <3>1, <1>1, <2>3, <2>4
      <4>2. CASE d # e
        <5>1. peer[d] # None /\ peer'[d] = peer[d]
          BY <4>2, <3>2, <2>4
        <5>2. /\ peer[d] = Owner(Other(d)) /\ peer[d] # Owner(d) /\ socket[d] = "open"
              /\ socket[Other(d)] \in {"open", "backlog"} \/ peer[d] \in left
              /\ \A f \in Made : Owner(f) = Owner(d) /\ peer[f] = peer[d] => f = d
          BY <5>1 DEF KnownOnce, IsOpen, EndsOf
        <5>3. ~(Owner(e) = Owner(d) /\ p = peer[d])
          BY <2>3
        <5> QED BY <5>1, <5>2, <5>3, <2>4
      <4> QED BY <4>1, <4>2
    <3>3. ASSUME NEW d \in toSend', socket[d] = "open", Owner(d) \in running
          PROVE  \E f \in Made : Owner(f) = Owner(d) /\ peer'[f] # None
      <4>1. CASE d = e
        BY <4>1, <1>1, <2>4, NodeAssumption
      <4>2. CASE d # e
        <5>1. PICK f \in Made : Owner(f) = Owner(d) /\ peer[f] # None
          BY <4>2, <3>3, <1>3 DEF KnownOnce, IsOpen, EndsOf
        <5> QED BY <5>1, <1>1, <2>4, NodeAssumption
      <4> QED BY <4>1, <4>2
    <3> QED BY <2>1, <2>2, <3>2, <3>3 DEF KnownOnce, IsOpen, EndsOf
  <2> QED BY <2>5, <2>6, <2>7, <2>8, <2>9
<1>5. CASE ~Registers(e, p)
  <2>1. /\ stream' = [rest EXCEPT ![e] = << >>]
        /\ receiving' = receiving \ {e} /\ peer' = peer
        /\ socket' = IF HasConnection(n, p) THEN socket ELSE Closed({e}, rest)
    BY <1>5 DEF Announced
  <2>2. DOMAIN socket' = Made
    BY <1>1, <2>1 DEF Closed
  <2>3. Made' = Made
    BY <2>2 DEF Made
  <2>4. \A d \in Made : d # e => socket'[d] = socket[d]
    BY <2>1 DEF Closed
  <2>5. \/ socket'[e] = "open" /\ HasConnection(n, p)
        \/ /\ IsShut(e)'
           /\ n = p \/ IsShut(Other(e))
    <3>1. CASE HasConnection(n, p)
      BY <3>1, <1>1, <2>1
    <3>2. CASE ~HasConnection(n, p)
      <4>1. IsShut(e)'
        BY <3>2, <1>1, <2>1 DEF Closed, IsShut
      <4>2. p = n \/ e \notin newPeers
        BY <3>2, <1>5 DEF Registers
      <4>3. e \notin newPeers => IsShut(Other(e))
        BY DEF StrayInv
      <4> QED BY <4>1, <4>2, <4>3
    <3> QED BY <3>1, <3>2
  <2>6. AnnounceInv' /\ (\A d \in Made : stream[d] \in Seq(Header \cup {Body}))'
    <3>1. \A d \in Made : stream'[d] = IF d = e THEN << >> ELSE rest[d]
      BY <2>1
    <3>2. \A d \in Made : AreTrue(d, stream'[d])
      BY <3>1, NothingIsTrue
    <3> QED BY <2>3, <3>2, TrueStreams
  <2>7. \A d \in Made : socket'[d] = "open" => socket[d] = "open"
    BY <1>1, <2>4
  <2>8. TypeOK'
    <3>1. \A d \in Made : socket'[d] \in {"backlog", "open", "closed", "reset"}
      BY <2>4, <2>5 DEF TypeOK, IsShut
    <3>2. receiving' \cup newPeers' \subseteq {d \in Made : socket'[d] = "open"}
      BY <1>3, <2>1, <2>4 DEF TypeOK, IsOpen
    <3>3. DOMAIN stream' = Made
      BY <2>1
    <3>4. /\ toSend' \subseteq Made /\ Made \subseteq End
          /\ running' \cup left' \subseteq Node /\ wanted' \subseteq Node \X Node
          /\ DOMAIN peer = Made /\ \A d \in Made : peer[d] \in Node \cup {None}
      BY <1>1, <1>3 DEF TypeOK
    <3> QED BY <2>1, <2>3, <2>6, <3>1, <3>2, <3>3, <3>4 DEF TypeOK, IsOpen
  <2>9. LinkInv'
    <3>1. \A d \in Made : socket'[d] = "backlog" => d[2] = "to" /\ d \notin toSend'
      BY <1>1, <1>3, <2>4, <2>5 DEF LinkInv, IsShut
    <3> QED BY <2>3, <3>1 DEF LinkInv
  <2>10. \A d \in Made : IsShut(d) => IsShut(d)'
    BY <1>1, <2>4 DEF IsShut
  <2>11. ShutInv'
    <3>1. ASSUME NEW d \in Made, IsShut(d)'
          PROVE  Owner(d) \in left \/ Owner(Other(d)) = Owner(d) \/ IsShut(Other(d))'
      <4>1. CASE d = e
        BY <4>1, <3>1, <1>1, <2>5, <2>10 DEF IsShut
      <4>2. CASE d # e
        <5>1. IsShut(d)
          BY <4>2, <3>1, <2>4 DEF IsShut
        <5> QED BY <5>1, <1>2, <2>10 DEF ShutInv
      <4> QED BY <4>1, <4>2
    <3> QED BY <2>3, <3>1 DEF ShutInv
  <2>12. StrayInv'
    <3>1. ASSUME NEW d \in receiving', peer'[d] = None, d \notin newPeers'
          PROVE  IsShut(Other(d))'
      <4>1. d \in receiving /\ d # e /\ d \in Made /\ d \notin newPeers
        BY <3>1, <1>3, <2>1 DEF TypeOK
      <4> QED BY <4>1, <3>1, <1>2, <2>1, <2>10 DEF StrayInv
    <3> QED BY <3>1 DEF StrayInv
  <2>13. KnownOnce'
    <3>1. ASSUME NEW d \in Made, peer[d] # None
          PROVE  /\ peer[d] = Owner(Other(d)) /\ peer[d] # Owner(d)
                 /\ socket'[d] = "open"
                 /\ socket'[Other(d)] \in {"open", "backlog"} \/ peer[d] \in left
                 /\ \A f \in Made : Owner(f) = Owner(d) /\ peer[f] = peer[d] => f = d
      <4>1. /\ peer[d] = Owner(Other(d)) /\ peer[d] # Owner(d) /\ socket[d] = "open"
            /\ socket[Other(d)] \in {"open", "backlog"} \/ peer[d] \in left
            /\ \A f \in Made : Owner(f) = Owner(d) /\ peer[f] = peer[d] => f = d
        BY <3>1 DEF KnownOnce, IsOpen, EndsOf
      <4>2. d # e /\ socket'[d] = "open"
        BY <3>1, <4>1, <2>4
      <4>3. socket'[Other(d)] \in {"open", "backlog"} \/ peer[d] \in left
        <5>1. CASE Other(d) = e
          <6>1. d = Other(e)
            BY <5>1, <1>2
          <6>2. n # p /\ ~IsShut(Other(e))
            BY <6>1, <5>1, <4>1 DEF IsShut
          <6> QED BY <6>2, <5>1, <2>5
        <5>2. CASE Other(d) # e
          BY <5>2, <4>1, <1>2, <2>4
        <5> QED BY <5>1, <5>2
      <4> QED BY <4>1, <4>2, <4>3
    <3>2. ASSUME NEW d \in toSend', socket'[d] = "open", Owner(d) \in running
          PROVE  \E f \in Made : Owner(f) = Owner(d) /\ peer[f] # None
      <4>1. CASE d = e
        BY <4>1, <3>2, <1>1, <2>5, NodeAssumption DEF HasConnection, EndsOf, IsShut
      <4>2. CASE d # e
        <5>1. d \in toSend /\ d \in Made /\ socket[d] = "open"
          BY <4>2, <3>2, <1>3, <2>4 DEF TypeOK
        <5> QED BY <5>1, <3>2 DEF KnownOnce, IsOpen, EndsOf
      <4> QED BY <4>1, <4>2
    <3>3. UNCHANGED <<peer, left, running>>
      BY <2>1
    <3> QED BY <2>3, <3>1, <3>2, <3>3 DEF KnownOnce, IsOpen, EndsOf
  <2> QED BY <2>6, <2>8, <2>9, <2>11, <2>12, <2>13
<1> QED BY <1>4, <1>5

\* A link is accepted, and announced unless it has gone.
LEMMA AcceptStep ==
  ASSUME PeerInv, NEW e \in Made, OnAccept(e)
  PROVE  PeerInv'
<1> DEFINE o == Other(e)
<1> USE DEF PeerInv
<1>1. \A d \in Made : Other(d) \in Made /\ Other(d) # d /\ Other(Other(d)) = d
  BY EndFacts DEF TypeOK, LinkInv
<1>2. /\ e \in End /\ o \in End /\ o \in Made /\ o # e /\ Other(o) = e /\ o[2] # e[2]
      /\ Owner(e) \in Node
  BY <1>1, EndFacts DEF TypeOK
<1>3. socket[e] = "backlog" /\ e[2] = "to" /\ e \notin toSend /\ socket[o] # "backlog"
  BY <1>2 DEF OnAccept, LinkInv
<1>4. /\ DOMAIN socket = Made /\ DOMAIN stream = Made
      /\ receiving' = receiving \cup {e}
      /\ UNCHANGED <<running, wanted, left, peer, toSend, cut>>
  BY DEF TypeOK, Made, OnAccept, app
<1>5. e \notin receiving /\ e \notin newPeers /\ peer[e] = None
  BY <1>3 DEF TypeOK, KnownOnce, IsOpen
<1>6. /\ DOMAIN socket' = Made /\ socket'[e] = "open"
      /\ socket'[o] = IF socket[o] = "open" THEN "open" ELSE "reset"
      /\ \A d \in Made : d # e /\ d # o => socket'[d] = socket[d]
      /\ newPeers \subseteq newPeers' /\ newPeers' \subseteq newPeers \cup {e}
      /\ socket[o] = "open" => e \in newPeers'
      /\ \/ stream' = stream
         \/ stream' = [stream EXCEPT ![o] = Words("Announce", Owner(e))]
  BY <1>2, <1>4 DEF OnAccept, IsOpen
<1>7. Made' = Made
  BY <1>6 DEF Made
<1>8. /\ \A d \in Made : socket[d] = "open" => socket'[d] = "open"
      /\ \A d \in Made : IsShut(d) => IsShut(d)'
  BY <1>3, <1>6 DEF IsShut
<1>9. \A d \in Made : d # e => (IsShut(d)' => IsShut(d))
  BY <1>3, <1>2, <1>6 DEF IsShut, TypeOK
<1>10. AnnounceInv' /\ (\A d \in Made : stream[d] \in Seq(Header \cup {Body}))'
  <2>1. \A d \in Made : AreTrue(d, stream[d])
    BY StreamsAreTrue
  <2>2. AreTrue(o, Words("Announce", Owner(e)))
    BY <1>2, AnnouncementIsTrue
  <2>3. \A d \in Made : AreTrue(d, stream'[d])
    BY <1>4, <1>6, <2>1, <2>2
  <2> QED BY <1>7, <2>3, TrueStreams
<1>11. TypeOK'
  <2>1. \A d \in Made : socket'[d] \in {"backlog", "open", "closed", "reset"}
    BY <1>6 DEF TypeOK
  <2>2. receiving' \cup newPeers' \subseteq {d \in Made : socket'[d] = "open"}
    BY <1>4, <1>6, <1>8 DEF TypeOK, IsOpen
  <2>3. DOMAIN stream' = Made
    BY <1>4, <1>6
  <2> QED BY <1>4, <1>7, <1>10, <2>1, <2>2, <2>3 DEF TypeOK, IsOpen
<1>12. LinkInv'
  <2>1. \A d \in Made : socket'[d] = "backlog" => socket[d] = "backlog"
    BY <1>6
  <2> QED BY <1>4, <1>7, <2>1 DEF LinkInv
<1>13. ShutInv'
  <2>1. ASSUME NEW d \in Made, IsShut(d)'
        PROVE  Owner(d) \in left \/ Owner(Other(d)) = Owner(d) \/ IsShut(Other(d))'
    <3>1. IsShut(d)
      BY <2>1, <1>6, <1>9 DEF IsShut
    <3> QED BY <3>1, <1>1, <1>8 DEF ShutInv
  <2> QED BY <1>4, <1>7, <2>1 DEF ShutInv
<1>14. StrayInv'
  <2>1. ASSUME NEW d \in receiving', peer[d] = None, d \notin newPeers'
        PROVE  IsShut(Other(d))'
    <3>1. CASE d = e
      BY <3>1, <2>1, <1>6 DEF IsShut
    <3>2. CASE d # e
      BY <3>2, <2>1, <1>1, <1>4, <1>6, <1>8 DEF StrayInv, TypeOK
    <3> QED BY <3>1, <3>2
  <2> QED BY <1>4, <2>1 DEF StrayInv
<1>15. KnownOnce'
  <2>1. ASSUME NEW d \in Made, peer[d] # None
        PROVE  /\ peer[d] = Owner(Other(d)) /\ peer[d] # Owner(d)
               /\ socket'[d] = "open"
               /\ socket'[Other(d)] \in {"open", "backlog"} \/ peer[d] \in left
               /\ \A f \in Made : Owner(f) = Owner(d) /\ peer[f] = peer[d] => f = d
    <3>1. /\ peer[d] = Owner(Other(d)) /\ peer[d] # Owner(d) /\ socket[d] = "open"
          /\ socket[Other(d)] \in {"open", "backlog"} \/ peer[d] \in left
          /\ \A f \in Made : Owner(f) = Owner(d) /\ peer[f] = peer[d] => f = d
      BY <2>1 DEF KnownOnce, IsOpen, EndsOf
    <3>2. d # e /\ Other(d) # o /\ Other(d) \in Made
      BY <2>1, <1>1, <1>2, <1>5
    <3>3. socket'[Other(d)] = "open" \/ socket'[Other(d)] = socket[Other(d)]
      BY <3>2, <1>6
    <3> QED BY <3>1, <3>3, <1>8
  <2>2. ASSUME NEW d \in toSend, socket'[d] = "open", Owner(d) \in running
        PROVE  \E f \in Made : Owner(f) = Owner(d) /\ peer[f] # None
    <3>1. d \in Made /\ d # e /\ socket[d] = "open"
      BY <2>2, <1>2, <1>3, <1>6 DEF TypeOK
    <3> QED BY <3>1, <2>2 DEF KnownOnce, IsOpen, EndsOf
  <2> QED BY <1>4, <1>7, <2>1, <2>2 DEF KnownOnce, IsOpen, EndsOf
<1> QED BY <1>10, <1>11, <1>12, <1>13, <1>14, <1>15

\* A read comes back with a header, or with what is taken for one.
LEMMA ReadStep ==
  ASSUME PeerInv, NEW e \in Made, NEW k \in 1..4, ProcessMessage(e, k)
  PROVE  PeerInv'
<1> DEFINE h == Head(stream[e])
           rest == [stream EXCEPT ![e] = SubSeq(@, k + 1, Len(@))]
<1> USE DEF PeerInv
<1>1. e \in receiving /\ stream[e] # << >> /\ k \in ReadSizes(stream[e])
  BY DEF ProcessMessage
<1>2. /\ h \in Word /\ IsTrue(e, h)
      /\ DOMAIN rest = Made /\ \A d \in Made : AreTrue(d, rest[d])
  BY <1>1, ReadFacts
<1>3. /\ cut' \in BOOLEAN
      /\ UNCHANGED <<running, wanted, left>>
  <2>1. cut' = (cut \/ (peer'[e] # None /\ \E i \in 2..k : stream[e][i] # Body))
    BY DEF ProcessMessage
  <2> QED BY <2>1 DEF ProcessMessage, app
<1>4. Owner(e) \in Node /\ wanted' \subseteq Node \X Node
  BY <1>3, EndFacts DEF TypeOK
<1>5. CASE /\ peer[e] = None /\ h.type = "Announce"
           /\ Announced(e, h.peer, rest)
  <2>1. h.peer = Owner(Other(e))
    BY <1>2, <1>5 DEF IsTrue
  <2> HIDE DEF rest, h
  <2> QED BY <1>1, <1>2, <1>3, <1>5, <2>1, AnnouncedStep
<1>6. CASE /\ peer[e] # None /\ h.type = "KnownHost"
           /\ ConnectInternal(Owner(e), h.peer, rest)
           /\ UNCHANGED toSend
  <2>1. h.peer \in Node
    BY <1>2, <1>6, HeaderFacts
  <2> HIDE DEF rest, h
  <2> QED BY <1>2, <1>3, <1>4, <1>6, <2>1, ConnectStep
<1>7. CASE /\ stream' = rest
           /\ UNCHANGED <<socket, receiving, book>>
  <2> HIDE DEF rest, h
  <2>1. Made' = Made
    BY <1>7 DEF Made
  <2>2. AnnounceInv' /\ (\A d \in Made : stream[d] \in Seq(Header \cup {Body}))'
    BY <1>2, <1>7, <2>1, TrueStreams
  <2>3. TypeOK'
    BY <1>2, <1>3, <1>4, <1>7, <2>1, <2>2 DEF TypeOK, IsOpen, book
  <2>4. LinkInv' /\ ShutInv' /\ StrayInv' /\ KnownOnce'
    BY <1>3, <1>7, <2>1
       DEF LinkInv, ShutInv, IsShut, StrayInv, KnownOnce, IsOpen, EndsOf, book
  <2> QED BY <2>2, <2>3, <2>4
<1> QED BY <1>5, <1>6, <1>7 DEF ProcessMessage

\* A read fails and is not repeated.
LEMMA ReadFailsStep ==
  ASSUME PeerInv, NEW e \in Made, ReadFails(e)
  PROVE  PeerInv'
<1> USE DEF PeerInv
<1>1. /\ receiving' = receiving \ {e} /\ stream' = [stream EXCEPT ![e] = << >>]
      /\ UNCHANGED <<socket, newPeers, peer, toSend, running, wanted, left, cut>>
  BY DEF ReadFails, book, app
<1>2. Made' = Made /\ DOMAIN stream = Made
  BY <1>1 DEF Made, TypeOK
<1>3. \A d \in Made : AreTrue(d, stream[d])
  BY StreamsAreTrue
<1>4. \A d \in Made : AreTrue(d, stream'[d])
  BY <1>1, <1>2, <1>3, NothingIsTrue
<1>5. AnnounceInv' /\ (\A d \in Made : stream[d] \in Seq(Header \cup {Body}))'
  BY <1>2, <1>4, TrueStreams
<1>6. TypeOK'
  BY <1>1, <1>2, <1>5 DEF TypeOK, IsOpen
<1>7. LinkInv' /\ ShutInv' /\ StrayInv' /\ KnownOnce'
  BY <1>1, <1>2 DEF LinkInv, ShutInv, IsShut, StrayInv, KnownOnce, IsOpen, EndsOf
<1> QED BY <1>5, <1>6, <1>7

\* Known hosts are sent, or dropped.
LEMMA SendKnownHostsStep ==
  ASSUME PeerInv, NEW n \in Node, SendKnownHosts(n)
  PROVE  PeerInv'
<1> DEFINE mine == toSend \cap EndsOf(n)
           due == {e \in mine : IsOpen(e) /\ n \in running}
<1> USE DEF PeerInv
<1>1. /\ toSend' \subseteq toSend
      /\ UNCHANGED <<receiving, newPeers, peer, running, wanted, left, cut>>
  BY DEF SendKnownHosts, app
<1>2. \A e \in Made : AreTrue(e, stream[e])
  BY StreamsAreTrue
<1>3. \/ UNCHANGED <<socket, stream>>
      \/ /\ \E order : /\ \A e \in due : order[e] \in SetToSeqs(KnownHosts(e))
                       /\ stream' = [f \in Made |->
                            IF Other(f) \in due /\ (f \in receiving \/ socket[f] = "backlog")
                            THEN stream[f] \o KnownHostsSent(order[Other(f)])
                            ELSE stream[f]]
         /\ socket' = [f \in Made |->
              IF /\ Other(f) \in due /\ socket[f] = "closed"
                 /\ KnownHosts(Other(f)) # {}
              THEN "reset" ELSE socket[f]]
  BY DEF SendKnownHosts
<1>4. /\ DOMAIN socket' = Made
      /\ \A f \in Made : \/ socket'[f] = socket[f]
                         \/ socket'[f] = "reset" /\ socket[f] = "closed"
  BY <1>3 DEF Made
<1>5. Made' = Made
  BY <1>4 DEF Made
<1>6. DOMAIN stream' = Made /\ \A f \in Made : AreTrue(f, stream'[f])
  <2>1. CASE UNCHANGED <<socket, stream>>
    BY <2>1, <1>2 DEF TypeOK
  <2>2. ASSUME NEW order, \A e \in due : order[e] \in SetToSeqs(KnownHosts(e)),
               stream' = [f \in Made |->
                            IF Other(f) \in due /\ (f \in receiving \/ socket[f] = "backlog")
                            THEN stream[f] \o KnownHostsSent(order[Other(f)])
                            ELSE stream[f]]
        PROVE  DOMAIN stream' = Made /\ \A f \in Made : AreTrue(f, stream'[f])
    <3>1. ASSUME NEW f \in Made, Other(f) \in due
          PROVE  AreTrue(f, stream[f] \o KnownHostsSent(order[Other(f)]))
      <4>1. KnownHosts(Other(f)) \in SUBSET Node
        BY DEF KnownHosts, EndsOf, TypeOK
      <4>2. order[Other(f)] \in SetToSeqs(KnownHosts(Other(f)))
        BY <2>2, <3>1
      <4> QED BY <4>1, <4>2, <1>2, KnownHostsAreTrue
    <3>2. \A f \in Made : AreTrue(f, stream'[f])
      BY <2>2, <3>1, <1>2
    <3> QED BY <2>2, <3>2
  <2> HIDE DEF due
  <2> QED BY <2>1, <2>2, <1>3
<1>7. AnnounceInv' /\ (\A d \in Made : stream[d] \in Seq(Header \cup {Body}))'
  BY <1>5, <1>6, TrueStreams
<1>8. TypeOK'
  BY <1>1, <1>4, <1>5, <1>6, <1>7 DEF TypeOK, IsOpen
<1>9. \A e \in Made : Other(e) \in Made
  BY DEF LinkInv
<1>10. LinkInv'
  BY <1>1, <1>4, <1>5 DEF LinkInv
<1>11. ShutInv'
  BY <1>1, <1>4, <1>5, <1>9 DEF ShutInv, IsShut
<1>12. StrayInv'
  BY <1>1, <1>4, <1>5, <1>9 DEF StrayInv, IsShut, TypeOK
<1>13. KnownOnce'
  <2>1. ASSUME NEW d \in Made, peer[d] # None
        PROVE  /\ peer[d] = Owner(Other(d)) /\ peer[d] # Owner(d)
               /\ socket'[d] = "open"
               /\ socket'[Other(d)] \in {"open", "backlog"} \/ peer[d] \in left
               /\ \A f \in Made : Owner(f) = Owner(d) /\ peer[f] = peer[d] => f = d
    BY <2>1, <1>4, <1>9 DEF KnownOnce, IsOpen, EndsOf
  <2>2. ASSUME NEW d \in toSend', socket'[d] = "open", Owner(d) \in running
        PROVE  \E f \in Made : Owner(f) = Owner(d) /\ peer[f] # None
    BY <2>2, <1>1, <1>4 DEF KnownOnce, IsOpen, EndsOf, TypeOK
  <2> QED BY <1>1, <1>5, <2>1, <2>2 DEF KnownOnce, IsOpen, EndsOf
<1> QED BY <1>7, <1>8, <1>10, <1>11, <1>12, <1>13

\* A node leaves: it closes what is in its lists and what it has not accepted.
LEMMA CloseStep ==
  ASSUME PeerInv, NEW n \in Node, Close(n)
  PROVE  PeerInv'
<1> DEFINE gone == Listed(n) \cup Pending(n)
<1> USE DEF PeerInv
<1>1. /\ left' = left \cup {n} /\ running' = running \ {n}
      /\ receiving' = receiving \ gone /\ newPeers' = newPeers \ EndsOf(n)
      /\ socket' = Closed(gone, stream)
      /\ stream' = [e \in Made |-> IF e \in gone THEN << >> ELSE stream[e]]
      /\ peer' = [e \in Made |-> IF Owner(e) = n THEN None ELSE peer[e]]
      /\ UNCHANGED <<wanted, toSend, cut>>
  BY DEF Close, WithoutNewPeers
<1>2. \A e \in Made : Other(e) \in Made /\ Other(Other(e)) = e
  BY EndFacts DEF TypeOK, LinkInv
<1>3. \A e \in Made : e \in gone <=>
        Owner(e) = n /\ (peer[e] # None \/ e \in newPeers \/ socket[e] = "backlog")
  BY DEF Listed, Pending, EndsOf
<1> HIDE DEF gone
<1>4. /\ DOMAIN socket' = Made
      /\ \A e \in Made : IF e \in gone THEN IsShut(e)' ELSE socket'[e] = socket[e]
  BY <1>1 DEF Closed, IsShut
<1>5. Made' = Made
  BY <1>4 DEF Made
<1>6. /\ \A e \in Made : socket'[e] = "open" => socket[e] = "open"
      /\ \A e \in Made : IsShut(e) => IsShut(e)'
      /\ \A e \in Made : socket'[e] = "backlog" => socket[e] = "backlog"
  BY <1>4 DEF IsShut
<1>7. AnnounceInv' /\ (\A d \in Made : stream[d] \in Seq(Header \cup {Body}))'
  <2>1. \A d \in Made : AreTrue(d, stream[d])
    BY StreamsAreTrue
  <2>2. \A d \in Made : AreTrue(d, stream'[d])
    BY <1>1, <2>1, NothingIsTrue
  <2> QED BY <1>5, <2>2, TrueStreams
<1>8. TypeOK'
  <2>1. \A e \in Made : socket'[e] \in {"backlog", "open", "closed", "reset"}
    BY <1>4 DEF TypeOK, IsShut
  <2>2. \A e \in Made : peer'[e] \in Node \cup {None}
    BY <1>1 DEF TypeOK
  <2>3. receiving' \cup newPeers' \subseteq {e \in Made : socket'[e] = "open"}
    <3>1. \A e \in newPeers' : e \in Made /\ socket[e] = "open" /\ e \notin gone
      BY <1>1, <1>3 DEF TypeOK, IsOpen, EndsOf
    <3>2. \A e \in receiving' : e \in Made /\ socket[e] = "open" /\ e \notin gone
      BY <1>1 DEF TypeOK, IsOpen
    <3> QED BY <3>1, <3>2, <1>4
  <2>4. DOMAIN stream' = Made /\ DOMAIN peer' = Made
    BY <1>1
  <2>5. /\ running' \cup left' \subseteq Node /\ wanted' \subseteq Node \X Node
        /\ toSend' \subseteq Made /\ Made \subseteq End /\ cut' \in BOOLEAN
    BY <1>1 DEF TypeOK
  <2> QED BY <1>5, <1>7, <2>1, <2>2, <2>3, <2>4, <2>5 DEF TypeOK, IsOpen
<1>9. LinkInv'
  BY <1>1, <1>5, <1>6 DEF LinkInv
<1>10. ShutInv'
  <2>1. ASSUME NEW d \in Made, IsShut(d)'
        PROVE  Owner(d) \in left' \/ Owner(Other(d)) = Owner(d) \/ IsShut(Other(d))'
    <3>1. CASE d \in gone
      BY <3>1, <1>1, <1>3
    <3>2. CASE d \notin gone
      <4>1. IsShut(d)
        BY <3>2, <2>1, <1>4 DEF IsShut
      <4> QED BY <4>1, <1>1, <1>2, <1>6 DEF ShutInv
    <3> QED BY <3>1, <3>2
  <2> QED BY <1>5, <2>1 DEF ShutInv
<1>11. StrayInv'
  <2>1. ASSUME NEW d \in receiving', peer'[d] = None, d \notin newPeers'
        PROVE  IsShut(Other(d))'
    <3>1. d \in receiving /\ d \in Made /\ d \notin gone
      BY <2>1, <1>1 DEF TypeOK
    <3>2. peer[d] = None /\ d \notin newPeers
      <4>1. CASE Owner(d) = n
        BY <4>1, <3>1, <1>3
      <4>2. CASE Owner(d) # n
        BY <4>2, <3>1, <2>1, <1>1 DEF EndsOf
      <4> QED BY <4>1, <4>2
    <3> QED BY <3>1, <3>2, <1>2, <1>6 DEF StrayInv
  <2> QED BY <2>1 DEF StrayInv
<1>12. KnownOnce'
  <2>1. ASSUME NEW d \in Made, peer'[d] # None
        PROVE  /\ peer'[d] = Owner(Other(d)) /\ peer'[d] # Owner(d)
               /\ socket'[d] = "open"
               /\ socket'[Other(d)] \in {"open", "backlog"} \/ peer'[d] \in left'
               /\ \A f \in Made : Owner(f) = Owner(d) /\ peer'[f] = peer'[d] => f = d
    <3>1. Owner(d) # n /\ peer'[d] = peer[d] /\ peer[d] # None
      BY <2>1, <1>1
    <3>2. /\ peer[d] = Owner(Other(d)) /\ peer[d] # Owner(d) /\ socket[d] = "open"
          /\ socket[Other(d)] \in {"open", "backlog"} \/ peer[d] \in left
          /\ \A f \in Made : Owner(f) = Owner(d) /\ peer[f] = peer[d] => f = d
      BY <3>1 DEF KnownOnce, IsOpen, EndsOf
    <3>3. socket'[d] = "open"
      BY <3>1, <3>2, <1>3, <1>4
    <3>4. socket'[Other(d)] \in {"open", "backlog"} \/ peer[d] \in left'
      BY <3>2, <1>1, <1>2, <1>3, <1>4
    <3>5. \A f \in Made : Owner(f) = Owner(d) => peer'[f] = peer[f]
      BY <3>1, <1>1
    <3> QED BY <3>1, <3>2, <3>3, <3>4, <3>5
  <2>2. ASSUME NEW d \in toSend', socket'[d] = "open", Owner(d) \in running'
        PROVE  \E f \in Made : Owner(f) = Owner(d) /\ peer'[f] # None
    <3>1. d \in toSend /\ d \in Made /\ socket[d] = "open"
      BY <2>2, <1>1, <1>6 DEF TypeOK
    <3>2. Owner(d) \in running /\ Owner(d) # n
      BY <2>2, <1>1
    <3>3. PICK f \in Made : Owner(f) = Owner(d) /\ peer[f] # None
      BY <3>1, <3>2 DEF KnownOnce, IsOpen, EndsOf
    <3> QED BY <3>2, <3>3, <1>1
  <2> QED BY <1>5, <2>1, <2>2 DEF KnownOnce, IsOpen, EndsOf
<1> QED BY <1>7, <1>8, <1>9, <1>10, <1>11, <1>12

\* A node comes back, with nothing left to send from before.
LEMMA RunStep ==
  ASSUME PeerInv, NEW n \in Node, Run(n)
  PROVE  PeerInv'
<1> USE DEF PeerInv
<1>1. /\ running' = running \cup {n} /\ toSend \cap EndsOf(n) = {}
      /\ UNCHANGED <<socket, stream, receiving, newPeers, peer, toSend, wanted, left, cut>>
  BY DEF Run, wire, book
<1>2. Made' = Made
  BY <1>1 DEF Made
<1>3. TypeOK'
  BY <1>1, <1>2 DEF TypeOK, IsOpen
<1>4. LinkInv' /\ AnnounceInv' /\ ShutInv' /\ StrayInv'
  BY <1>1, <1>2 DEF LinkInv, AnnounceInv, ShutInv, IsShut, StrayInv
<1>5. KnownOnce'
  <2>1. \A d \in toSend : d \in Made /\ Owner(d) # n
    BY <1>1 DEF EndsOf, TypeOK
  <2> QED BY <1>1, <1>2, <2>1 DEF KnownOnce, IsOpen, EndsOf
<1> QED BY <1>3, <1>4, <1>5

LEMMA PeerStep == PeerInv /\ [Next]_vars => PeerInv'
<1> SUFFICES ASSUME PeerInv, [Next]_vars PROVE PeerInv'
  OBVIOUS
<1>1. ASSUME NEW e \in Made, OnAccept(e) PROVE PeerInv'
  BY <1>1, AcceptStep
<1>2. ASSUME NEW e \in Made, ReadFails(e) PROVE PeerInv'
  BY <1>2, ReadFailsStep
<1>3. ASSUME NEW e \in Made, NEW k \in 1..4, ProcessMessage(e, k) PROVE PeerInv'
  BY <1>3, ReadStep
<1>4. ASSUME NEW n \in Node, SendKnownHosts(n) PROVE PeerInv'
  BY <1>4, SendKnownHostsStep
<1>5. ASSUME NEW n \in Node, Close(n) PROVE PeerInv'
  BY <1>5, CloseStep
<1>6. ASSUME NEW n \in Node, Run(n) PROVE PeerInv'
  BY <1>6, RunStep
<1>7. ASSUME NEW n \in Node, NEW p \in Node, Connect(n, p) PROVE PeerInv'
  <2>1. \A e \in Made : AreTrue(e, stream[e])
    BY StreamsAreTrue DEF PeerInv
  <2>2. DOMAIN stream = Made /\ wanted \subseteq Node \X Node /\ cut \in BOOLEAN
    BY DEF PeerInv, TypeOK
  <2>3. /\ wanted' = wanted \ {<<n, p>>} /\ ConnectInternal(n, p, stream)
        /\ UNCHANGED <<running, left, toSend, cut>>
    BY <1>7 DEF Connect
  <2> QED BY <2>1, <2>2, <2>3, ConnectStep
<1>8. CASE UNCHANGED vars
  <2>1. UNCHANGED <<running, wanted, left, socket, stream, receiving, newPeers, peer, toSend, cut>>
    BY <1>8 DEF vars, wire, book, app
  <2>2. Made' = Made
    BY <2>1 DEF Made
  <2> QED BY <2>1, <2>2 DEF PeerInv, TypeOK, LinkInv, AnnounceInv, ShutInv, IsShut, StrayInv,
                            KnownOnce, IsOpen, EndsOf
<1> QED BY <1>1, <1>2, <1>3, <1>4, <1>5, <1>6, <1>7, <1>8 DEF Next, Poll

LEMMA PeerInvariant == Spec => []PeerInv
BY PeerInit, PeerStep, PTL DEF Spec

-----------------------------------------------------------------------------
(* Theorems *)

\* The variables have their types: only open sockets are read from and wait to
\* be announced (m_newPeers), and every socket's other end is one of a node.
THEOREM TypeCorrect == Spec => []TypeOK
BY PeerInvariant, PTL DEF PeerInv

\* A node has one socket for a peer in m_connections, never one for itself,
\* and it leads to that peer as long as the peer stays; the assertion of
\* SendKnownHosts holds.
THEOREM PeersAreKnownOnce == Spec => []KnownOnce
BY PeerInvariant, PTL DEF PeerInv
=============================================================================
