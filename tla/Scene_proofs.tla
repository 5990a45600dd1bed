----------------------------- MODULE Scene_proofs -----------------------------
(***************************************************************************)
(* Proofs about Scene, for any finite sets of objects and components, any  *)
(* loaded scenes that are forests and any number of calls.                 *)
(***************************************************************************)
EXTENDS Scene, FiniteSetTheorems, FunctionTheorems, SequenceTheorems, TLAPS

Distinct(s) == \A i, j \in DOMAIN s : s[i] = s[j] => i = j

-----------------------------------------------------------------------------
(* Lists *)

\* Positions and members.
LEMMA ListFacts ==
  ASSUME NEW S, NEW s \in Seq(S)
  PROVE  /\ Len(s) \in Nat /\ DOMAIN s = 1..Len(s)
         /\ \A i \in DOMAIN s : s[i] \in S
         /\ ToSet(s) \subseteq S
         /\ \A x : Contains(s, x) <=> x \in ToSet(s)
         /\ s = <<>> <=> ToSet(s) = {}
         /\ s = <<>> <=> Len(s) = 0
<1>1. Len(s) \in Nat /\ DOMAIN s = 1..Len(s) /\ \A i \in DOMAIN s : s[i] \in S
  BY LenProperties, ElementOfSeq
<1>2. s = <<>> <=> Len(s) = 0
  BY EmptySeq
<1>3. \A x : Contains(s, x) <=> x \in ToSet(s)
  BY <1>1 DEF Contains, ToSet
<1>4. Len(s) = 0 <=> ToSet(s) = {}
  <2>1. CASE Len(s) = 0
    <3>1. DOMAIN s = {}
      BY <1>1, <2>1
    <3> QED BY <2>1, <3>1 DEF ToSet
  <2>2. CASE Len(s) # 0
    <3>1. 1 \in DOMAIN s
      BY <1>1, <2>2
    <3>2. s[1] \in ToSet(s)
      BY <3>1 DEF ToSet
    <3> QED BY <2>2, <3>2
  <2> QED BY <2>1, <2>2
<1>5. ToSet(s) \subseteq S
  BY <1>1 DEF ToSet
<1> QED BY <1>1, <1>2, <1>3, <1>4, <1>5

LEMMA EmptyList ==
  /\ ToSet(<<>>) = {} /\ Distinct(<<>>) /\ Len(<<>>) = 0 /\ DOMAIN <<>> = {}
  /\ \A x : ~Contains(<<>>, x)
  /\ \A S : <<>> \in Seq(S)
BY DEF ToSet, Distinct, Contains

\* An element is put at the end.
LEMMA AppendFacts ==
  ASSUME NEW S, NEW s \in Seq(S), NEW x \in S
  PROVE  /\ Append(s, x) \in Seq(S) /\ Len(Append(s, x)) = Len(s) + 1
         /\ ToSet(Append(s, x)) = ToSet(s) \cup {x}
         /\ \A k \in DOMAIN s : k \in DOMAIN Append(s, x) /\ Append(s, x)[k] = s[k]
         /\ DOMAIN Append(s, x) = DOMAIN s \cup {Len(s) + 1}
         /\ Append(s, x)[Len(s) + 1] = x
         /\ Distinct(s) /\ x \notin ToSet(s) => Distinct(Append(s, x))
<1> DEFINE t == Append(s, x)
<1>1. /\ Len(t) = Len(s) + 1 /\ t \in Seq(S)
      /\ \A i \in 1..Len(s) : t[i] = s[i]
      /\ t[Len(s) + 1] = x
  BY AppendProperties
<1>2. Len(s) \in Nat /\ DOMAIN s = 1..Len(s) /\ DOMAIN t = 1..Len(t)
  BY <1>1, LenProperties
<1> HIDE DEF t
<1>3. DOMAIN t = DOMAIN s \cup {Len(s) + 1}
  BY <1>1, <1>2
<1>4. ToSet(t) = ToSet(s) \cup {x}
  BY <1>1, <1>2, <1>3 DEF ToSet
<1>5. ASSUME Distinct(s), x \notin ToSet(s) PROVE Distinct(t)
  <2> SUFFICES ASSUME NEW i \in DOMAIN t, NEW j \in DOMAIN t, t[i] = t[j]
               PROVE  i = j
    BY DEF Distinct
  <2>1. CASE i \in DOMAIN s /\ j \in DOMAIN s
    BY <1>1, <1>2, <1>5, <2>1 DEF Distinct
  <2>2. CASE i = Len(s) + 1 /\ j \in DOMAIN s
    BY <1>1, <1>2, <1>5, <2>2 DEF ToSet
  <2>3. CASE j = Len(s) + 1 /\ i \in DOMAIN s
    BY <1>1, <1>2, <1>5, <2>3 DEF ToSet
  <2> QED BY <1>3, <2>1, <2>2, <2>3
<1> QED BY <1>1, <1>2, <1>3, <1>4, <1>5 DEF t

\* One list is put behind another.
LEMMA ConcatFacts ==
  ASSUME NEW S, NEW s \in Seq(S), NEW t \in Seq(S)
  PROVE  /\ s \o t \in Seq(S) /\ Len(s \o t) = Len(s) + Len(t)
         /\ ToSet(s \o t) = ToSet(s) \cup ToSet(t)
         /\ \A k \in DOMAIN s : k \in DOMAIN (s \o t) /\ (s \o t)[k] = s[k]
         /\ \A k \in DOMAIN t : Len(s) + k \in DOMAIN (s \o t) /\ (s \o t)[Len(s) + k] = t[k]
         /\ \A k \in DOMAIN (s \o t) :
              k \in DOMAIN s \/ \E j \in DOMAIN t : k = Len(s) + j
         /\ Distinct(s) /\ Distinct(t) /\ ToSet(s) \cap ToSet(t) = {} => Distinct(s \o t)
<1> DEFINE w == s \o t
<1>1. /\ Len(s) \in Nat /\ DOMAIN s = 1..Len(s)
      /\ Len(t) \in Nat /\ DOMAIN t = 1..Len(t)
  BY LenProperties
<1>2. /\ w \in Seq(S)
      /\ Len(w) = Len(s) + Len(t)
      /\ \A k \in 1..(Len(s) + Len(t)) :
           w[k] = IF k <= Len(s) THEN s[k] ELSE t[k - Len(s)]
  BY ConcatProperties
<1>3. DOMAIN w = 1..Len(w)
  BY <1>2, LenProperties
<1> HIDE DEF w
<1>4. \A k \in DOMAIN s : k \in DOMAIN w /\ w[k] = s[k]
  BY <1>1, <1>2, <1>3
<1>5. ASSUME NEW k \in DOMAIN t PROVE Len(s) + k \in DOMAIN w /\ w[Len(s) + k] = t[k]
  <2>1. Len(s) + k \in 1..(Len(s) + Len(t)) /\ ~(Len(s) + k <= Len(s))
    BY <1>1
  <2>2. (Len(s) + k) - Len(s) = k
    BY <1>1
  <2> QED BY <1>2, <1>3, <2>1, <2>2
<1>6. ASSUME NEW k \in DOMAIN w
      PROVE  k \in DOMAIN s \/ \E j \in DOMAIN t : k = Len(s) + j
  <2>1. k \notin 1..Len(s) => k - Len(s) \in 1..Len(t) /\ k = Len(s) + (k - Len(s))
    BY <1>1, <1>2, <1>3
  <2> QED BY <1>1, <2>1
<1>7. ToSet(w) = ToSet(s) \cup ToSet(t)
  <2>1. \A y \in ToSet(w) : y \in ToSet(s) \cup ToSet(t)
    BY <1>4, <1>5, <1>6 DEF ToSet
  <2>2. \A y \in ToSet(s) : y \in ToSet(w)
    BY <1>4 DEF ToSet
  <2>3. \A y \in ToSet(t) : y \in ToSet(w)
    BY <1>5 DEF ToSet
  <2> QED BY <2>1, <2>2, <2>3
<1>8. ASSUME Distinct(s), Distinct(t), ToSet(s) \cap ToSet(t) = {} PROVE Distinct(w)
  <2> SUFFICES ASSUME NEW j \in DOMAIN w, NEW k \in DOMAIN w, w[j] = w[k]
               PROVE  j = k
    BY DEF Distinct
  <2>1. CASE j \in DOMAIN s /\ k \in DOMAIN s
    BY <2>1, <1>4, <1>8 DEF Distinct
  <2>2. CASE j \in DOMAIN s /\ k \notin DOMAIN s
    <3>1. w[j] \in ToSet(s) /\ w[k] \in ToSet(t)
      BY <2>2, <1>4, <1>5, <1>6 DEF ToSet
    <3> QED BY <3>1, <1>8
  <2>3. CASE j \notin DOMAIN s /\ k \in DOMAIN s
    <3>1. w[k] \in ToSet(s) /\ w[j] \in ToSet(t)
      BY <2>3, <1>4, <1>5, <1>6 DEF ToSet
    <3> QED BY <3>1, <1>8
  <2>4. CASE j \notin DOMAIN s /\ k \notin DOMAIN s
    <3>1. PICK a \in DOMAIN t : j = Len(s) + a
      BY <2>4, <1>6
    <3>2. PICK b \in DOMAIN t : k = Len(s) + b
      BY <2>4, <1>6
    <3>3. t[a] = t[b]
      BY <3>1, <3>2, <1>5
    <3> QED BY <3>1, <3>2, <3>3, <1>8 DEF Distinct
  <2> QED BY <2>1, <2>2, <2>3, <2>4
<1> QED BY <1>2, <1>4, <1>5, <1>6, <1>7, <1>8 DEF w

\* The first element is taken.
LEMMA TailFacts ==
  ASSUME NEW S, NEW s \in Seq(S), s # <<>>
  PROVE  /\ Tail(s) \in Seq(S) /\ Head(s) \in S /\ Head(s) = s[1] /\ 1 \in DOMAIN s
         /\ ToSet(s) = {Head(s)} \cup ToSet(Tail(s))
         /\ \A k \in DOMAIN Tail(s) : k + 1 \in DOMAIN s /\ Tail(s)[k] = s[k + 1]
         /\ \A k \in DOMAIN s : k = 1 \/ (k - 1 \in DOMAIN Tail(s) /\ Tail(s)[k - 1] = s[k])
         /\ DOMAIN Tail(s) \subseteq Nat \ {0}
         /\ Len(Tail(s)) = Len(s) - 1
         /\ Distinct(s) => Distinct(Tail(s)) /\ Head(s) \notin ToSet(Tail(s))
<1> DEFINE t == Tail(s)
<1>1. /\ Len(s) \in Nat /\ DOMAIN s = 1..Len(s) /\ Len(s) # 0
      /\ \A i \in DOMAIN s : s[i] \in S
  BY ListFacts
<1>2. /\ t \in Seq(S) /\ Len(t) = Len(s) - 1 /\ Head(s) = s[1]
      /\ \A k \in 1..Len(t) : t[k] = s[k + 1]
  BY <1>1, HeadTailProperties
<1>3. DOMAIN t = 1..Len(t)
  BY <1>2, LenProperties
<1> HIDE DEF t
<1>4. \A k \in DOMAIN t : k + 1 \in DOMAIN s /\ t[k] = s[k + 1]
  BY <1>1, <1>2, <1>3
<1>5. \A k \in DOMAIN s : k = 1 \/ (k - 1 \in DOMAIN t /\ t[k - 1] = s[k])
  <2> SUFFICES ASSUME NEW k \in DOMAIN s, k # 1
               PROVE  k - 1 \in DOMAIN t /\ t[k - 1] = s[k]
    OBVIOUS
  <2>1. k - 1 \in 1..Len(t) /\ (k - 1) + 1 = k
    BY <1>1, <1>2
  <2> QED BY <2>1, <1>2, <1>3
<1>6. ToSet(s) = {Head(s)} \cup ToSet(t)
  <2>1. \A y \in ToSet(s) : y \in {Head(s)} \cup ToSet(t)
    BY <1>2, <1>5 DEF ToSet
  <2>2. \A y \in ToSet(t) : y \in ToSet(s)
    BY <1>4 DEF ToSet
  <2>3. Head(s) \in ToSet(s)
    BY <1>1, <1>2 DEF ToSet
  <2> QED BY <2>1, <2>2, <2>3
<1>7. ASSUME Distinct(s) PROVE Distinct(t) /\ Head(s) \notin ToSet(t)
  <2>1. \A i, j \in DOMAIN t : t[i] = t[j] => i + 1 = j + 1
    BY <1>4, <1>7 DEF Distinct
  <2>2. Distinct(t)
    BY <2>1, <1>2, <1>3 DEF Distinct
  <2>3. \A k \in DOMAIN t : t[k] # Head(s)
    BY <1>1, <1>2, <1>3, <1>4, <1>7 DEF Distinct
  <2> QED BY <2>2, <2>3 DEF ToSet
<1>8. DOMAIN t \subseteq Nat \ {0} /\ Head(s) \in S
  BY <1>1, <1>2, <1>3
<1> QED BY <1>1, <1>2, <1>4, <1>5, <1>6, <1>7, <1>8 DEF t

\* An element is erased.
LEMMA EraseFacts ==
  ASSUME NEW S, NEW s \in Seq(S), NEW x \in ToSet(s), Distinct(s)
  PROVE  /\ Erase(s, x) \in Seq(S) /\ Distinct(Erase(s, x))
         /\ ToSet(Erase(s, x)) = ToSet(s) \ {x}
<1> DEFINE i == Position(s, x)
           front == SubSeq(s, 1, i - 1)
           back == SubSeq(s, i + 1, Len(s))
           w == Erase(s, x)
<1>1. Len(s) \in Nat /\ DOMAIN s = 1..Len(s) /\ \A k \in 1..Len(s) : s[k] \in S
  BY ListFacts
<1>2. i \in 1..Len(s) /\ s[i] = x
  BY <1>1 DEF Position, ToSet
<1>3. w = front \o back
  BY DEF Erase, RemoveAt
<1> HIDE DEF i
<1>4. /\ front \in Seq(S)
      /\ Len(front) = i - 1
      /\ \A k \in 1..(i - 1) : front[k] = s[k]
  <2>1. \A k \in 1..(i - 1) : s[k] \in S
    BY <1>1, <1>2
  <2>2. 1 \in Int /\ i - 1 \in Int
    BY <1>1, <1>2
  <2> QED BY <2>1, <2>2, SubSeqProperties, <1>1, <1>2
<1>5. /\ back \in Seq(S)
      /\ Len(back) = Len(s) - i
      /\ \A k \in 1..(Len(s) - i) : back[k] = s[i + k]
  <2>1. \A k \in (i + 1)..Len(s) : s[k] \in S
    BY <1>1, <1>2
  <2>2. i + 1 \in Int /\ Len(s) \in Int
    BY <1>1, <1>2
  <2>3. /\ back \in Seq(S)
        /\ Len(back) = IF i + 1 <= Len(s) THEN Len(s) - (i + 1) + 1 ELSE 0
        /\ \A k \in 1..(Len(s) - (i + 1) + 1) : back[k] = s[(i + 1) + k - 1]
    BY <2>1, <2>2, SubSeqProperties
  <2> QED BY <2>3, <1>1, <1>2
<1> HIDE DEF front, back, w
<1>6. DOMAIN front = 1..(i - 1) /\ DOMAIN back = 1..(Len(s) - i)
  BY <1>4, <1>5, LenProperties
<1>7. Distinct(front) /\ Distinct(back)
  <2>1. \A j, k \in DOMAIN front : front[j] = front[k] => j = k
    BY <1>1, <1>2, <1>4, <1>6 DEF Distinct
  <2>2. ASSUME NEW j \in DOMAIN back, NEW k \in DOMAIN back, back[j] = back[k]
        PROVE  j = k
    <3>1. i + j \in DOMAIN s /\ i + k \in DOMAIN s /\ s[i + j] = s[i + k]
      BY <1>1, <1>2, <1>5, <1>6, <2>2
    <3>2. i + j = i + k
      BY <3>1 DEF Distinct
    <3> QED BY <3>2, <1>1, <1>2, <1>6
  <2> QED BY <2>1, <2>2 DEF Distinct
<1>8. ToSet(front) \cup ToSet(back) = ToSet(s) \ {x} /\ ToSet(front) \cap ToSet(back) = {}
  <2>1. \A y \in ToSet(front) : \E k \in 1..Len(s) : k < i /\ s[k] = y
    BY <1>1, <1>2, <1>4, <1>6 DEF ToSet
  <2>2. ASSUME NEW y \in ToSet(back) PROVE \E k \in 1..Len(s) : k > i /\ s[k] = y
    <3>1. PICK j \in 1..(Len(s) - i) : back[j] = y
      BY <1>6 DEF ToSet
    <3>2. i + j \in 1..Len(s) /\ i + j > i /\ s[i + j] = y
      BY <3>1, <1>1, <1>2, <1>5
    <3> QED BY <3>2
  <2>3. ASSUME NEW y \in ToSet(s), y # x PROVE y \in ToSet(front) \cup ToSet(back)
    <3>1. PICK k \in 1..Len(s) : s[k] = y
      BY <1>1 DEF ToSet
    <3>2. CASE k < i
      BY <3>1, <3>2, <1>1, <1>2, <1>4, <1>6 DEF ToSet
    <3>3. CASE k > i
      <4>1. k - i \in 1..(Len(s) - i) /\ i + (k - i) = k
        BY <3>3, <1>1, <1>2
      <4>2. back[k - i] = y
        BY <4>1, <3>1, <1>5
      <4> QED BY <4>1, <4>2, <1>6 DEF ToSet
    <3> QED BY <3>1, <3>2, <3>3, <1>1, <1>2, <2>3
  <2>4. ASSUME NEW y \in ToSet(front) \cup ToSet(back) PROVE y \in ToSet(s) /\ y # x
    <3>1. PICK k \in 1..Len(s) : k # i /\ s[k] = y
      BY <2>1, <2>2, <1>1, <1>2
    <3>2. y \in ToSet(s)
      BY <3>1, <1>1 DEF ToSet
    <3> QED BY <3>1, <3>2, <1>1, <1>2 DEF Distinct
  <2>5. ToSet(front) \cap ToSet(back) = {}
    BY <2>1, <2>2, <1>1, <1>2 DEF Distinct
  <2> QED BY <2>3, <2>4, <2>5
<1>9. w \in Seq(S) /\ ToSet(w) = ToSet(front) \cup ToSet(back) /\ Distinct(w)
  BY <1>3, <1>4, <1>5, <1>7, <1>8, ConcatFacts
<1> QED BY <1>8, <1>9 DEF w

\* An order of a set lists each of its elements once.
LEMMA OrderFacts ==
  ASSUME NEW S, IsFiniteSet(S), NEW s \in SetToSeqs(S)
  PROVE  s \in Seq(S) /\ Distinct(s) /\ Len(s) = Cardinality(S) /\ ToSet(s) = S
<1> DEFINE n == Cardinality(S)
<1>1. n \in Nat
  BY FS_CardinalityType
<1> HIDE DEF n
<1>2. s \in [1..n -> S] /\ \A j, k \in 1..n : s[j] = s[k] => j = k
  BY DEF SetToSeqs, n
<1>3. s \in Seq(S) /\ Len(s) = n /\ DOMAIN s = 1..n
  BY <1>1, <1>2
<1>4. s \in Injection(1..n, S)
  BY <1>2, Fun_IsInj
<1>5. IsFiniteSet(1..n) /\ Cardinality(1..n) = n
  BY <1>1, FS_Interval
<1>6. s \in Surjection(1..n, S)
  BY <1>4, <1>5, FS_Injection DEF n
<1>7. \A y \in S : \E k \in 1..n : s[k] = y
  BY <1>6 DEF Surjection
<1>8. ToSet(s) = S
  BY <1>2, <1>7 DEF ToSet
<1> QED BY <1>2, <1>3, <1>8 DEF Distinct, n

\* What is kept of a list.
LEMMA KeptFacts ==
  ASSUME NEW T, NEW s \in Seq(T), NEW S, NEW t \in Kept(s, S)
  PROVE  /\ t \in Seq(T) /\ t \in Seq(S)
         /\ ToSet(t) = ToSet(s) \cap S
         /\ (\A i, j \in DOMAIN s : s[i] = s[j] /\ s[i] \in S => i = j) => Distinct(t)
<1> DEFINE I == {i \in DOMAIN s : s[i] \in S}
<1>1. PICK q \in SetToSeqs(I) : t = [k \in DOMAIN q |-> s[q[k]]]
  BY DEF Kept, InOrder
<1>2. Len(s) \in Nat /\ DOMAIN s = 1..Len(s) /\ \A k \in DOMAIN s : s[k] \in T
  BY ListFacts
<1>3. IsFiniteSet(I)
  <2>1. IsFiniteSet(1..Len(s))
    BY <1>2, FS_Interval
  <2> QED BY <2>1, <1>2, FS_Subset
<1>4. q \in Seq(I) /\ Distinct(q) /\ ToSet(q) = I
  BY <1>1, <1>3, OrderFacts
<1>5. Len(q) \in Nat /\ DOMAIN q = 1..Len(q) /\ \A k \in DOMAIN q : q[k] \in I
  BY <1>4, ListFacts
<1>6. t \in [1..Len(q) -> T] /\ t \in [1..Len(q) -> S]
  BY <1>1, <1>2, <1>5
<1>7. t \in Seq(T) /\ t \in Seq(S) /\ DOMAIN t = DOMAIN q
  BY <1>5, <1>6, SeqDef
<1>8. ToSet(t) = ToSet(s) \cap S
  <2>1. \A y \in ToSet(t) : y \in ToSet(s) \cap S
    BY <1>1, <1>5, <1>7 DEF ToSet
  <2>2. ASSUME NEW y \in ToSet(s) \cap S PROVE y \in ToSet(t)
    <3>1. PICK i \in DOMAIN s : s[i] = y
      BY DEF ToSet
    <3>2. i \in ToSet(q)
      BY <3>1, <1>4
    <3>3. PICK k \in DOMAIN q : q[k] = i
      BY <3>2 DEF ToSet
    <3>4. k \in DOMAIN t /\ t[k] = y
      BY <3>1, <3>3, <1>1, <1>7
    <3> QED BY <3>4 DEF ToSet
  <2> QED BY <2>1, <2>2
<1>9. ASSUME \A i, j \in DOMAIN s : s[i] = s[j] /\ s[i] \in S => i = j PROVE Distinct(t)
  <2> SUFFICES ASSUME NEW j \in DOMAIN q, NEW k \in DOMAIN q, s[q[j]] = s[q[k]]
               PROVE  j = k
    BY <1>1, <1>7 DEF Distinct
  <2>1. q[j] = q[k]
    BY <1>5, <1>9
  <2> QED BY <2>1, <1>4 DEF Distinct
<1> QED BY <1>7, <1>8, <1>9

-----------------------------------------------------------------------------
(* Chains of parents *)

Pointers == [Host -> Object \cup {Null}]

\* What Up makes of the parents of all hosts.
Chain(par, h) ==
  {x \in Host : \A S \in SUBSET Host :
     h \in S /\ (\A y \in S : par[y] # Null => par[y] \in S) => x \in S}

Rooted(par) == \A h \in Host : \E x \in Chain(par, h) : par[x] = Null

LEMMA HostFacts ==
  /\ Object \subseteq Host /\ Scene \in Host /\ Scene \notin Object
  /\ Null \notin Host /\ Null \notin Component /\ Null \notin Object
  /\ Object \cap Component = {} /\ Scene \notin Component
BY PartsAssumption DEF Host

\* A chain is the least set with its start that is closed under parents.
LEMMA ChainFacts ==
  ASSUME NEW par \in Pointers, NEW h \in Host
  PROVE  /\ h \in Chain(par, h) /\ Chain(par, h) \subseteq Host
         /\ \A x \in Chain(par, h) : par[x] # Null => par[x] \in Chain(par, h)
         /\ \A S \in SUBSET Host :
              h \in S /\ (\A y \in S : par[y] # Null => par[y] \in S) => Chain(par, h) \subseteq S
<1>1. \A x \in Host : par[x] # Null => par[x] \in Host
  BY HostFacts DEF Pointers
<1>2. \A x \in Chain(par, h) : par[x] # Null => par[x] \in Chain(par, h)
  BY <1>1 DEF Chain
<1> QED BY <1>2 DEF Chain

\* The chain of a member is part of the chain.
LEMMA ChainTrans ==
  ASSUME NEW par \in Pointers, NEW h \in Host, NEW x \in Chain(par, h)
  PROVE  Chain(par, x) \subseteq Chain(par, h)
<1>1. x \in Host /\ Chain(par, h) \in SUBSET Host
  BY ChainFacts
<1>2. \A y \in Chain(par, h) : par[y] # Null => par[y] \in Chain(par, h)
  BY ChainFacts
<1> QED BY <1>1, <1>2, ChainFacts

\* A chain is its start and the chain of the parent.
LEMMA ChainStep ==
  ASSUME NEW par \in Pointers, NEW h \in Host
  PROVE  Chain(par, h) = {h} \cup (IF par[h] = Null THEN {} ELSE Chain(par, par[h]))
<1>1. CASE par[h] = Null
  <2>1. {h} \in SUBSET Host /\ \A y \in {h} : par[y] # Null => par[y] \in {h}
    BY <1>1
  <2>2. Chain(par, h) \subseteq {h}
    BY <2>1, ChainFacts
  <2> QED BY <1>1, <2>2, ChainFacts
<1>2. CASE par[h] # Null
  <2>1. par[h] \in Host
    BY <1>2, HostFacts DEF Pointers
  <2> DEFINE S == {h} \cup Chain(par, par[h])
  <2>2. S \in SUBSET Host /\ h \in S /\ par[h] \in Chain(par, par[h])
    BY <2>1, ChainFacts
  <2>3. \A y \in S : par[y] # Null => par[y] \in S
    BY <2>1, <2>2, ChainFacts
  <2>4. Chain(par, h) \subseteq S
    <3> HIDE DEF S
    <3> QED BY <2>2, <2>3, ChainFacts
  <2>5. h \in Chain(par, h) /\ par[h] \in Chain(par, h)
    BY <1>2, ChainFacts
  <2>6. Chain(par, par[h]) \subseteq Chain(par, h)
    BY <2>5, ChainTrans
  <2> QED BY <1>2, <2>4, <2>5, <2>6
<1> QED BY <1>1, <1>2

\* Of two members one is above the other.
LEMMA ChainLinear ==
  ASSUME NEW par \in Pointers, NEW h \in Host, NEW x \in Chain(par, h), NEW y \in Chain(par, h)
  PROVE  x \in Chain(par, y) \/ y \in Chain(par, x)
<1> DEFINE S == {z \in Chain(par, h) : x \in Chain(par, z) \/ z \in Chain(par, x)}
<1>1. Chain(par, h) \subseteq Host /\ h \in Chain(par, h)
  BY ChainFacts
<1>2. ASSUME NEW z \in S, par[z] # Null PROVE par[z] \in S
  <2>1. par[z] \in Chain(par, h) /\ z \in Host /\ par[z] \in Host
    BY <1>1, <1>2, ChainFacts
  <2>2. CASE z \in Chain(par, x)
    <3>1. par[z] \in Chain(par, x)
      BY <1>1, <1>2, <2>2, ChainFacts
    <3> QED BY <2>1, <3>1
  <2>3. CASE x \in Chain(par, z)
    <3>1. x = z \/ x \in Chain(par, par[z])
      BY <1>2, <2>1, <2>3, ChainStep
    <3>2. x = z => par[z] \in Chain(par, x)
      BY <1>2, <2>1, ChainFacts
    <3> QED BY <2>1, <3>1, <3>2
  <2> QED BY <2>2, <2>3
<1>3. S \in SUBSET Host /\ h \in S
  BY <1>1
<1>4. Chain(par, h) \subseteq S
  <2> HIDE DEF S
  <2> QED BY <1>2, <1>3, ChainFacts
<1> QED BY <1>4

\* The one member without a parent is above all others.
LEMMA ChainRoot ==
  ASSUME NEW par \in Pointers, NEW h \in Host, NEW t \in Chain(par, h), par[t] = Null
  PROVE  /\ \A x \in Chain(par, h) : t \in Chain(par, x)
         /\ \A x \in Chain(par, h) : par[x] = Null => x = t
         /\ Chain(par, t) = {t}
<1>1. t \in Host /\ Chain(par, t) = {t}
  BY ChainFacts, ChainStep
<1>2. \A x \in Chain(par, h) : t \in Chain(par, x)
  <2> SUFFICES ASSUME NEW x \in Chain(par, h) PROVE t \in Chain(par, x)
    OBVIOUS
  <2>1. t \in Chain(par, x) \/ x \in Chain(par, t)
    BY ChainLinear
  <2> QED BY <1>1, <2>1
<1>3. \A x \in Chain(par, h) : par[x] = Null => x = t
  <2> SUFFICES ASSUME NEW x \in Chain(par, h), par[x] = Null PROVE x = t
    OBVIOUS
  <2>1. x \in Host
    BY ChainFacts
  <2>2. Chain(par, x) = {x}
    BY <2>1, ChainStep
  <2> QED BY <1>2, <2>2
<1> QED BY <1>1, <1>2, <1>3

\* Every other member is the parent of one.
LEMMA ChainBelow ==
  ASSUME NEW par \in Pointers, NEW h \in Host, NEW x \in Chain(par, h), x # h
  PROVE  \E z \in Chain(par, h) : par[z] = x
<1> SUFFICES ASSUME \A z \in Chain(par, h) : par[z] # x PROVE FALSE
  OBVIOUS
<1> DEFINE S == Chain(par, h) \ {x}
<1>1. S \in SUBSET Host /\ h \in S /\ \A y \in S : par[y] # Null => par[y] \in S
  BY ChainFacts
<1>2. Chain(par, h) \subseteq S
  <2> HIDE DEF S
  <2> QED BY <1>1, ChainFacts
<1> QED BY <1>2

\* A chain depends on the parents of its members.
LEMMA ChainSame ==
  ASSUME NEW par \in Pointers, NEW new \in Pointers, NEW h \in Host,
         \A y \in Chain(par, h) : new[y] = par[y]
  PROVE  Chain(new, h) = Chain(par, h)
<1>1. Chain(par, h) \in SUBSET Host /\ h \in Chain(par, h)
  BY ChainFacts
<1>2. Chain(new, h) \subseteq Chain(par, h)
  <2>1. \A y \in Chain(par, h) : new[y] # Null => new[y] \in Chain(par, h)
    BY ChainFacts
  <2> QED BY <1>1, <2>1, ChainFacts
<1> DEFINE S == Chain(par, h) \cap Chain(new, h)
<1>3. S \in SUBSET Host /\ h \in S
  BY <1>1, ChainFacts
<1>4. \A y \in S : par[y] # Null => par[y] \in S
  BY ChainFacts
<1>5. Chain(par, h) \subseteq S
  <2> HIDE DEF S
  <2> QED BY <1>3, <1>4, ChainFacts
<1> QED BY <1>2, <1>5

\* The chains after o has got the parent p, or none: they keep what is not above
\* o, and gain what is above p.
Moves(par, new, o, p) ==
  /\ \A h \in Host : o \notin Chain(par, h) => Chain(new, h) = Chain(par, h)
  /\ p # Null => Chain(new, p) = Chain(par, p)
  /\ \A h \in Host : o \in Chain(par, h) =>
       /\ o \in Chain(new, h)
       /\ \A x \in Chain(par, h) : x \notin Chain(par, o) => x \in Chain(new, h)
       /\ p # Null => Chain(par, p) \subseteq Chain(new, h)

\* One host gets another parent, or none.
LEMMA ChainMove ==
  ASSUME NEW par \in Pointers, NEW o \in Host, NEW p \in Object \cup {Null},
         p # Null => o \notin Chain(par, p),
         NEW new, new = [par EXCEPT ![o] = p]
  PROVE  new \in Pointers /\ Moves(par, new, o, p) /\ (Rooted(par) => Rooted(new))
<1>1. new \in Pointers /\ new[o] = p /\ \A y \in Host : y # o => new[y] = par[y]
  BY DEF Pointers
<1>2. \A h \in Host : o \notin Chain(par, h) => Chain(new, h) = Chain(par, h)
  <2> SUFFICES ASSUME NEW h \in Host, o \notin Chain(par, h)
               PROVE  Chain(new, h) = Chain(par, h)
    OBVIOUS
  <2>1. \A y \in Chain(par, h) : new[y] = par[y]
    BY <1>1, ChainFacts
  <2> QED BY <1>1, <2>1, ChainSame
<1>3. p # Null => p \in Host /\ Chain(new, p) = Chain(par, p)
  BY <1>2, HostFacts
<1>4. ASSUME NEW h \in Host, o \in Chain(par, h)
      PROVE  /\ o \in Chain(new, h)
             /\ \A x \in Chain(par, h) : x \notin Chain(par, o) => x \in Chain(new, h)
             /\ p # Null => Chain(par, p) \subseteq Chain(new, h)
  <2>1. Chain(new, h) \in SUBSET Host /\ h \in Chain(new, h)
        /\ \A y \in Chain(new, h) : new[y] # Null => new[y] \in Chain(new, h)
    BY <1>1, ChainFacts
  <2>2. o \in Chain(new, h)
    <3> SUFFICES ASSUME o \notin Chain(new, h) PROVE FALSE
      OBVIOUS
    <3>1. \A y \in Chain(new, h) : par[y] # Null => par[y] \in Chain(new, h)
      BY <1>1, <2>1
    <3> DEFINE S == Chain(new, h)
    <3>2. S \in SUBSET Host /\ h \in S /\ \A y \in S : par[y] # Null => par[y] \in S
      BY <2>1, <3>1
    <3>3. Chain(par, h) \subseteq S
      <4> HIDE DEF S
      <4> QED BY <3>2, ChainFacts
    <3> QED BY <1>4, <3>3
  <2>3. \A x \in Chain(par, h) : x \notin Chain(par, o) => x \in Chain(new, h)
    <3> DEFINE S == Chain(new, h) \cup Chain(par, o)
    <3>1. S \in SUBSET Host /\ h \in S
      BY <2>1, ChainFacts
    <3>2. \A y \in S : par[y] # Null => par[y] \in S
      <4> SUFFICES ASSUME NEW y \in S, par[y] # Null PROVE par[y] \in S
        OBVIOUS
      <4>1. CASE y \in Chain(par, o)
        BY <4>1, ChainFacts
      <4>2. CASE y \notin Chain(par, o)
        <5>1. y # o
          BY <4>2, ChainFacts
        <5> QED BY <1>1, <2>1, <4>2, <5>1
      <4> QED BY <4>1, <4>2
    <3>3. Chain(par, h) \subseteq S
      <4> HIDE DEF S
      <4> QED BY <3>1, <3>2, ChainFacts
    <3> QED BY <3>3
  <2>4. ASSUME p # Null PROVE Chain(par, p) \subseteq Chain(new, h)
    <3>1. p \in Chain(new, h)
      BY <1>1, <2>1, <2>2, <2>4
    <3>2. Chain(new, p) \subseteq Chain(new, h)
      BY <1>1, <3>1, ChainTrans
    <3> QED BY <1>3, <2>4, <3>2
  <2> QED BY <2>2, <2>3, <2>4
<1>5. ASSUME Rooted(par), NEW h \in Host PROVE \E x \in Chain(new, h) : new[x] = Null
  <2>1. \A g \in Host : o \notin Chain(par, g) => \E x \in Chain(new, g) : new[x] = Null
    <3> SUFFICES ASSUME NEW g \in Host, o \notin Chain(par, g)
                 PROVE  \E x \in Chain(new, g) : new[x] = Null
      OBVIOUS
    <3>1. PICK x \in Chain(par, g) : par[x] = Null
      BY <1>5 DEF Rooted
    <3>2. x \in Host /\ x # o
      BY <3>1, ChainFacts
    <3> QED BY <1>1, <1>2, <3>1, <3>2
  <2>2. CASE o \notin Chain(par, h)
    BY <2>1, <2>2
  <2>3. CASE o \in Chain(par, h) /\ p = Null
    BY <1>1, <1>4, <2>3
  <2>4. CASE o \in Chain(par, h) /\ p # Null
    <3>1. PICK x \in Chain(new, p) : new[x] = Null
      BY <1>3, <2>1, <2>4
    <3> QED BY <1>3, <1>4, <2>4, <3>1
  <2> QED BY <2>2, <2>3, <2>4
<1>6. Moves(par, new, o, p)
  BY <1>2, <1>3, <1>4 DEF Moves
<1>7. Rooted(par) => Rooted(new)
  BY <1>5 DEF Rooted
<1> QED BY <1>1, <1>6, <1>7

\* The hosts below one of them lose their parents.
LEMMA ChainBury ==
  ASSUME NEW par \in Pointers, NEW o \in Host,
         NEW new, new = [x \in Host |-> IF o \in Chain(par, x) THEN Null ELSE par[x]]
  PROVE  /\ new \in Pointers
         /\ \A h \in Host : o \notin Chain(par, h) => Chain(new, h) = Chain(par, h)
         /\ \A h \in Host : o \in Chain(par, h) => Chain(new, h) = {h}
         /\ Rooted(par) => Rooted(new)
<1>1. new \in Pointers /\ \A x \in Host : new[x] = IF o \in Chain(par, x) THEN Null ELSE par[x]
  BY DEF Pointers
<1>2. \A h \in Host : o \notin Chain(par, h) => Chain(new, h) = Chain(par, h)
  <2> SUFFICES ASSUME NEW h \in Host, o \notin Chain(par, h)
               PROVE  Chain(new, h) = Chain(par, h)
    OBVIOUS
  <2>1. \A y \in Chain(par, h) : y \in Host /\ o \notin Chain(par, y)
    BY ChainFacts, ChainTrans
  <2>2. \A y \in Chain(par, h) : new[y] = par[y]
    BY <1>1, <2>1
  <2> QED BY <1>1, <2>2, ChainSame
<1>3. \A h \in Host : o \in Chain(par, h) => Chain(new, h) = {h}
  BY <1>1, ChainStep
<1>4. ASSUME Rooted(par), NEW h \in Host PROVE \E x \in Chain(new, h) : new[x] = Null
  <2>1. CASE o \in Chain(par, h)
    BY <1>1, <1>3, <2>1
  <2>2. CASE o \notin Chain(par, h)
    <3>1. PICK x \in Chain(par, h) : par[x] = Null
      BY <1>4 DEF Rooted
    <3>2. x \in Host /\ Chain(par, x) \subseteq Chain(par, h)
      BY ChainFacts, ChainTrans
    <3> QED BY <1>1, <1>2, <2>2, <3>1, <3>2
  <2> QED BY <2>1, <2>2
<1> QED BY <1>1, <1>2, <1>3, <1>4 DEF Rooted

-----------------------------------------------------------------------------
(* The parents that the lists of children make *)

ParentIn(kids, o) ==
  IF \E p \in Object : Contains(kids[p], o)
  THEN CHOOSE p \in Object : Contains(kids[p], o)
  ELSE Null

ParentsIn(kids) == [x \in Host |-> ParentIn(kids, x)]

Kids == [Object -> Seq(Object)]

\* An object is in the list of its parent and in no other.
LEMMA ParentFacts ==
  ASSUME NEW kids \in Kids, Disjoint(kids)
  PROVE  /\ ParentsIn(kids) \in Pointers
         /\ \A x \in Host : ParentsIn(kids)[x] = ParentIn(kids, x)
         /\ \A x, p \in Object : ParentIn(kids, x) = p <=> x \in ToSet(kids[p])
         /\ \A x : ParentIn(kids, x) \in Object \cup {Null}
         /\ ParentIn(kids, Scene) = Null
         /\ \A g, h \in Object : g # h => ToSet(kids[g]) \cap ToSet(kids[h]) = {}
         /\ \A g \in Object : Distinct(kids[g])
<1>1. \A p \in Object : /\ kids[p] \in Seq(Object) /\ ToSet(kids[p]) \subseteq Object
                        /\ \A x : Contains(kids[p], x) <=> x \in ToSet(kids[p])
  BY ListFacts DEF Kids
<1>2. /\ \A g, h \in Object : g # h => ToSet(kids[g]) \cap ToSet(kids[h]) = {}
      /\ \A g \in Object : Distinct(kids[g])
  BY DEF Disjoint, Distinct, ToSet, Kids
<1>3. \A x, p \in Object : ParentIn(kids, x) = p <=> x \in ToSet(kids[p])
  BY <1>1, <1>2, HostFacts DEF ParentIn
<1>4. \A x : ParentIn(kids, x) \in Object \cup {Null}
  BY DEF ParentIn
<1>5. ParentIn(kids, Scene) = Null
  BY <1>1, HostFacts DEF ParentIn
<1>6. ParentsIn(kids) \in Pointers
  BY <1>4 DEF ParentsIn, Pointers
<1> QED BY <1>2, <1>3, <1>4, <1>5, <1>6 DEF ParentsIn

\* Lists are disjoint when no two share an element and none repeats one.
LEMMA DisjointLists ==
  ASSUME NEW lists, \A g \in DOMAIN lists : Distinct(lists[g]),
         \A g, h \in DOMAIN lists : g # h => ToSet(lists[g]) \cap ToSet(lists[h]) = {}
  PROVE  Disjoint(lists)
<1> SUFFICES ASSUME NEW g \in DOMAIN lists, NEW h \in DOMAIN lists,
                    NEW i \in DOMAIN lists[g], NEW j \in DOMAIN lists[h],
                    lists[g][i] = lists[h][j]
             PROVE  g = h /\ i = j
  BY DEF Disjoint
<1>1. lists[g][i] \in ToSet(lists[g]) /\ lists[h][j] \in ToSet(lists[h])
  BY DEF ToSet
<1>2. g = h
  BY <1>1
<1> QED BY <1>2 DEF Distinct

\* Up is the chain of parents.
LEMMA UpIsChain ==
  /\ \A x : Parent(x) = ParentIn(children, x)
  /\ \A x : Parent(x)' = ParentIn(children', x)
  /\ \A h : Up(h) = Chain(ParentsIn(children), h)
  /\ \A h : Up(h)' = Chain(ParentsIn(children'), h)
<1>1. \A x : Parent(x) = ParentIn(children, x)
  BY DEF Parent, ParentIn
<1>2. \A x : Parent(x)' = ParentIn(children', x)
  BY DEF Parent, ParentIn
<1>3. \A h : Up(h) = Chain(ParentsIn(children), h)
  <2>1. \A x \in Host : ParentsIn(children)[x] = Parent(x)
    BY <1>1 DEF ParentsIn
  <2> SUFFICES ASSUME NEW h PROVE Up(h) = Chain(ParentsIn(children), h)
    OBVIOUS
  <2> QED BY <2>1 DEF Up, Chain
<1>4. \A h : Up(h)' = Chain(ParentsIn(children'), h)
  <2>1. \A x \in Host : ParentsIn(children')[x] = Parent(x)'
    BY <1>2 DEF ParentsIn
  <2> SUFFICES ASSUME NEW h PROVE Up(h)' = Chain(ParentsIn(children'), h)
    OBVIOUS
  <2> QED BY <2>1 DEF Up, Chain
<1> QED BY <1>1, <1>2, <1>3, <1>4

-----------------------------------------------------------------------------
(* The inductive invariant *)

Live == created \ destroyed

\* The children are a forest of living objects.
TreeInv ==
  /\ Disjoint(children)
  /\ \A p \in Object : ToSet(children[p]) \subseteq Live
  /\ \A p \in Object : children[p] # <<>> => p \in Live
  /\ Rooted(ParentsIn(children))

\* New objects have no slot; those destroyed and not freed are in the delete
\* queue.
QueueInv ==
  /\ Distinct(newQueue) /\ ToSet(newQueue) \subseteq Live
  /\ \A o \in Object : o \notin created \/ o \in ToSet(newQueue) => idInScene[o] = 0
  /\ Distinct(deleteQueue) /\ ToSet(deleteQueue) = destroyed \ freed

\* The other objects that live are in their slots, and nothing else is.
SlotInv ==
  /\ FreeListOf(freeIndices, slots)
  /\ \A i \in DOMAIN slots : slots[i] # Null =>
       slots[i] \in Live \ ToSet(newQueue) /\ idInScene[slots[i]] = i
  /\ \A o \in Live \ ToSet(newQueue) : idInScene[o] \in DOMAIN slots /\ slots[idInScene[o]] = o

\* A component is on the host it knows, or waits for its OnDestroy, or is gone.
CompInv ==
  /\ Disjoint(comps)
  /\ \A h \in Host : \A c \in ToSet(comps[h]) : host[c] = h /\ c \in added
  /\ \A o \in Object : comps[o] # <<>> => o \in created \ freed
  /\ \A c \in ToSet(deadComps) : c \in added \ attached /\ \A h \in Host : c \notin ToSet(comps[h])

\* The indices of the components in the pool, and the empty places of it.
PoolTable ==
  /\ FreeListOf(freeIds, pool)
  /\ \A i \in DOMAIN pool : pool[i] # Null => index[pool[i]] = i
  /\ \A c \in InPool : index[c] \in DOMAIN pool /\ pool[index[c]] = c

\* The components in the pool are active, attached and on their hosts.
PoolInv ==
  /\ PoolTable
  /\ \A c \in InPool :
       /\ c \in active \cap attached
       /\ host[c] \in Host /\ c \in ToSet(comps[host[c]])

\* Where the frame and the destruction of the scene can be.
FrameInv ==
  /\ calling # Null => pc \in {"destroy", "build", "update"}
  /\ life = "destroyed" <=> pc = "end"
  /\ pc = "prepare" => life = "destroying"
  /\ life = "destroying" => pc \in {"prepare", "destroy"}
  /\ pc # "build" => work = <<>>

\* What Prepare has not destroyed yet belongs to objects of the ghost late.
LateInv ==
  pc = "destroy" => \A o \in destroyed \ freed : comps[o] # <<>> => o \in late

\* The list of the roots, when it is current, and while Scene::Destroy uses it.
RootInv ==
  /\ life = "alive" /\ ~changed =>
       /\ Distinct(root)
       /\ ToSet(root) = {o \in Object : Parent(o) = Null} \cap ToSet(slots)
  /\ pc = "prepare" =>
       /\ Distinct(root) /\ ToSet(root) \subseteq Live
       /\ \A o \in ToSet(root) : Parent(o) = Null
       /\ \A o \in Live : Up(o) \cap (ToSet(root) \cup ToSet(newQueue)) # {}
  /\ pc = "destroy" /\ life = "destroying" => Live = {}

SceneInv ==
  /\ TreeInv /\ QueueInv /\ SlotInv /\ CompInv /\ PoolInv
  /\ FrameInv /\ LateInv /\ RootInv

Inv == TypeOK /\ AssertionsHold /\ (halts = {} => SceneInv)

-----------------------------------------------------------------------------
(* The types, one group of variables after the other *)

TreeType ==
  freed \subseteq destroyed /\ destroyed \subseteq created /\ created \subseteq Object
  /\ children \in Kids

PartsType ==
  /\ comps \in [Host -> Seq(Component)]
  /\ host \in [Component -> Host \cup {Null}]
  /\ attached \cup awake \cup started \subseteq added /\ added \subseteq Component

FlagsType == enabled \cup active \subseteq Object \cup Component

MarksType == dirty \cup unattached \subseteq Host /\ updaterDirty \in BOOLEAN

TableType ==
  /\ slots \in Seq(Object \cup {Null}) /\ freeIndices \in Seq(Nat)
  /\ newQueue \in Seq(Object) /\ idInScene \in [Object -> Nat]

GravesType == deleteQueue \in Seq(Object) /\ deadComps \in Seq(Component)

RootsType == root \in Seq(Object) /\ changed \in BOOLEAN

UpdaterType ==
  /\ pool \in Seq(Component \cup {Null}) /\ freeIds \in Seq(Nat)
  /\ index \in [Component -> Nat]

PlaceType == [phase : Phases, host : Host, force : BOOLEAN, at : Nat]

ControlType ==
  /\ pc \in {"idle", "prepare", "destroy", "prepared", "build", "update", "end"}
  /\ work \in Seq(PlaceType) /\ cursor \in Nat /\ paused \in BOOLEAN
  /\ calling \in Component \cup {Null}
  /\ life \in {"alive", "destroying", "destroyed"}

GhostsType == calls \in Nat /\ lost \cup blocked \subseteq Host /\ late \subseteq Object

LEMMA TypeGroups ==
  TypeOK <=> /\ TreeType /\ PartsType /\ FlagsType /\ MarksType /\ TableType
             /\ GravesType /\ RootsType /\ UpdaterType /\ ControlType /\ GhostsType
<1>1. {changed, updaterDirty, paused} \subseteq BOOLEAN <=>
        changed \in BOOLEAN /\ updaterDirty \in BOOLEAN /\ paused \in BOOLEAN
  OBVIOUS
<1> QED BY Zenon, <1>1 DEF TypeOK, TreeType, PartsType, FlagsType, MarksType, TableType, GravesType,
      RootsType, UpdaterType, ControlType, GhostsType, Kids, PlaceType

LEMMA TypeGroupsNext ==
  TypeOK' <=> /\ TreeType' /\ PartsType' /\ FlagsType' /\ MarksType' /\ TableType'
              /\ GravesType' /\ RootsType' /\ UpdaterType' /\ ControlType' /\ GhostsType'
BY TypeGroups, PTL

\* What stays as it is keeps its type.
LEMMA TypeFrame ==
  /\ TreeType /\ UNCHANGED tree => TreeType'
  /\ PartsType /\ UNCHANGED parts => PartsType'
  /\ FlagsType /\ UNCHANGED flags => FlagsType'
  /\ MarksType /\ UNCHANGED marks => MarksType'
  /\ TableType /\ UNCHANGED table => TableType'
  /\ GravesType /\ UNCHANGED graves => GravesType'
  /\ RootsType /\ UNCHANGED roots => RootsType'
  /\ UpdaterType /\ UNCHANGED updater => UpdaterType'
  /\ ControlType /\ UNCHANGED control => ControlType'
  /\ GhostsType /\ UNCHANGED ghosts => GhostsType'
<1>1. TreeType /\ UNCHANGED tree => TreeType'
  BY DEF TreeType, tree
<1>2. PartsType /\ UNCHANGED parts => PartsType'
  BY DEF PartsType, parts
<1>3. FlagsType /\ UNCHANGED flags => FlagsType'
  BY DEF FlagsType, flags
<1>4. MarksType /\ UNCHANGED marks => MarksType'
  BY DEF MarksType, marks
<1>5. TableType /\ UNCHANGED table => TableType'
  BY DEF TableType, table
<1>6. GravesType /\ UNCHANGED graves => GravesType'
  BY DEF GravesType, graves
<1>7. RootsType /\ UNCHANGED roots => RootsType'
  BY DEF RootsType, roots
<1>8. UpdaterType /\ UNCHANGED updater => UpdaterType'
  BY DEF UpdaterType, updater
<1>9. ControlType /\ UNCHANGED control => ControlType'
  BY DEF ControlType, control
<1>10. GhostsType /\ UNCHANGED ghosts => GhostsType'
  BY DEF GhostsType, ghosts
<1> QED BY <1>1, <1>2, <1>3, <1>4, <1>5, <1>6, <1>7, <1>8, <1>9, <1>10

-----------------------------------------------------------------------------
(* Tables and their free lists *)

\* Places of a table are emptied and put at the end of its free list.
LEMMA FreeMore ==
  ASSUME NEW tbl, NEW free \in Seq(Nat), FreeListOf(free, tbl),
         NEW more \in Seq(Nat), Distinct(more),
         \A i \in ToSet(more) : i \in DOMAIN tbl /\ tbl[i] # Null,
         NEW new, DOMAIN new = DOMAIN tbl,
         \A i \in DOMAIN tbl : new[i] = IF i \in ToSet(more) THEN Null ELSE tbl[i]
  PROVE  free \o more \in Seq(Nat) /\ FreeListOf(free \o more, new)
<1>1. Distinct(free) /\ ToSet(free) = {i \in DOMAIN tbl : tbl[i] = Null}
  BY DEF FreeListOf, Distinct
<1>2. ToSet(free) \cap ToSet(more) = {}
  BY <1>1
<1>3. /\ free \o more \in Seq(Nat) /\ ToSet(free \o more) = ToSet(free) \cup ToSet(more)
      /\ Distinct(free \o more)
  BY <1>1, <1>2, ConcatFacts
<1>4. ToSet(free) \cup ToSet(more) = {i \in DOMAIN new : new[i] = Null}
  BY <1>1
<1> QED BY <1>3, <1>4 DEF FreeListOf, Distinct

\* The place at the head of the free list is taken.
LEMMA FreeOne ==
  ASSUME NEW tbl, NEW free \in Seq(Nat), FreeListOf(free, tbl), free # <<>>,
         NEW n, n = Head(free), NEW new, DOMAIN new = DOMAIN tbl,
         \A i \in DOMAIN tbl : i # n => new[i] = tbl[i],
         n \in DOMAIN tbl => new[n] # Null
  PROVE  /\ n \in DOMAIN tbl /\ tbl[n] = Null
         /\ Tail(free) \in Seq(Nat) /\ FreeListOf(Tail(free), new)
<1>1. Distinct(free) /\ ToSet(free) = {i \in DOMAIN tbl : tbl[i] = Null}
  BY DEF FreeListOf, Distinct
<1>2. /\ Tail(free) \in Seq(Nat)
      /\ ToSet(free) = {Head(free)} \cup ToSet(Tail(free))
      /\ Distinct(Tail(free)) /\ Head(free) \notin ToSet(Tail(free))
  BY <1>1, TailFacts
<1>3. ToSet(Tail(free)) = {i \in DOMAIN new : new[i] = Null}
  BY <1>1, <1>2
<1> QED BY <1>1, <1>2, <1>3 DEF FreeListOf, Distinct

-----------------------------------------------------------------------------
(* The pool *)

\* Components of the pool leave it.
LEMMA UnRegisterFacts ==
  ASSUME UpdaterType, PoolTable,
         NEW cs \in Seq(Component), Distinct(cs), ToSet(cs) \subseteq InPool,
         UnRegister(cs)
  PROVE  /\ UpdaterType' /\ PoolTable' /\ halts' = halts
         /\ InPool' = InPool \ ToSet(cs)
<1>1. /\ pool \in Seq(Component \cup {Null}) /\ freeIds \in Seq(Nat)
      /\ index \in [Component -> Nat]
  BY DEF UpdaterType
<1>2. /\ Len(pool) \in Nat /\ DOMAIN pool = 1..Len(pool)
      /\ \A i \in DOMAIN pool : pool[i] \in Component \cup {Null}
  BY <1>1, ListFacts
<1>3. /\ Len(cs) \in Nat /\ DOMAIN cs = 1..Len(cs) /\ ToSet(cs) \subseteq Component
      /\ \A c : Contains(cs, c) <=> c \in ToSet(cs)
      /\ \A k \in DOMAIN cs : cs[k] \in ToSet(cs)
  BY ListFacts DEF ToSet
<1>4. \A c \in ToSet(cs) : index[c] \in DOMAIN pool /\ pool[index[c]] = c /\ c # Null
  BY <1>3, HostFacts DEF PoolTable
<1> DEFINE more == [k \in DOMAIN cs |-> index[cs[k]]]
<1>5. /\ index' = [c \in Component |-> IF c \in ToSet(cs) THEN 0 ELSE index[c]]
      /\ freeIds' = freeIds \o more
      /\ pool' = [i \in DOMAIN pool |->
                    IF \E c \in ToSet(cs) : index[c] = i THEN Null ELSE pool[i]]
      /\ halts' = halts
  BY <1>3, <1>4 DEF UnRegister
<1>6. more \in Seq(Nat) /\ ToSet(more) = {index[c] : c \in ToSet(cs)} /\ Distinct(more)
  <2>1. more \in [1..Len(cs) -> Nat]
    BY <1>1, <1>3
  <2>2. more \in Seq(Nat)
    BY <2>1, <1>3, SeqDef
  <2>3. ToSet(more) = {index[c] : c \in ToSet(cs)}
    BY <1>3 DEF ToSet
  <2>4. \A j, k \in DOMAIN cs : index[cs[j]] = index[cs[k]] => cs[j] = cs[k]
    BY <1>3, <1>4
  <2>5. Distinct(more)
    BY <2>4 DEF Distinct
  <2> QED BY <2>2, <2>3, <2>5
<1> HIDE DEF more
<1>7. /\ DOMAIN pool' = DOMAIN pool
      /\ \A i \in DOMAIN pool : pool'[i] = IF i \in ToSet(more) THEN Null ELSE pool[i]
  BY <1>5, <1>6
<1>8. freeIds' \in Seq(Nat) /\ FreeListOf(freeIds', pool')
  <2>1. \A i \in ToSet(more) : i \in DOMAIN pool /\ pool[i] # Null
    BY <1>4, <1>6
  <2>2. FreeListOf(freeIds, pool)
    BY DEF PoolTable
  <2>3. freeIds \in Seq(Nat) /\ more \in Seq(Nat) /\ Distinct(more)
    BY <1>1, <1>6
  <2>4. freeIds \o more \in Seq(Nat) /\ FreeListOf(freeIds \o more, pool')
    BY <1>7, <2>1, <2>2, <2>3, FreeMore
  <2> QED BY <1>5, <2>4
<1>9. pool' \in Seq(Component \cup {Null})
  <2>1. pool' \in [1..Len(pool) -> Component \cup {Null}]
    BY <1>2, <1>5
  <2> QED BY <2>1, <1>2, SeqDef
<1>10. index' \in [Component -> Nat] /\ InPool' = InPool \ ToSet(cs)
  BY <1>1, <1>5 DEF InPool
<1>11. ASSUME NEW i \in DOMAIN pool', pool'[i] # Null PROVE index'[pool'[i]] = i
  <2>1. i \in DOMAIN pool /\ i \notin ToSet(more) /\ pool'[i] = pool[i] /\ index[pool[i]] = i
    BY <1>7, <1>11 DEF PoolTable
  <2>2. pool[i] \in Component /\ pool[i] \notin ToSet(cs)
    BY <2>1, <1>2, <1>6, <1>7, <1>11
  <2> QED BY <2>1, <2>2, <1>5
<1>12. ASSUME NEW c \in InPool \ ToSet(cs)
       PROVE  index'[c] \in DOMAIN pool' /\ pool'[index'[c]] = c
  <2>1. c \in Component /\ index'[c] = index[c] /\ index[c] \in DOMAIN pool /\ pool[index[c]] = c
    BY <1>5, <1>12 DEF PoolTable, InPool
  <2>2. index[c] \notin ToSet(more)
    BY <2>1, <1>4, <1>6
  <2> QED BY <2>1, <2>2, <1>7
<1> QED BY <1>5, <1>8, <1>9, <1>10, <1>11, <1>12 DEF PoolTable, UpdaterType

\* A component that is not in the pool gets a place of its own.
LEMMA RegisterFacts ==
  ASSUME UpdaterType, PoolTable, NEW c \in Component \ InPool, RegisterComponent(c)
  PROVE  /\ UpdaterType' /\ PoolTable' /\ halts' = halts /\ updaterDirty' = TRUE
         /\ InPool' = InPool \cup {c}
<1>1. /\ pool \in Seq(Component \cup {Null}) /\ freeIds \in Seq(Nat)
      /\ index \in [Component -> Nat] /\ index[c] = 0 /\ c # Null
  BY HostFacts DEF UpdaterType, InPool
<1>2. /\ Len(pool) \in Nat /\ DOMAIN pool = 1..Len(pool)
      /\ \A i \in DOMAIN pool : pool[i] \in Component \cup {Null}
  BY <1>1, ListFacts
<1>3. halts' = halts /\ updaterDirty' = TRUE
  BY <1>1 DEF RegisterComponent
<1>4. FreeListOf(freeIds, pool)
  BY DEF PoolTable
<1>5. CASE freeIds = <<>>
  <2>1. /\ index' = [index EXCEPT ![c] = Len(pool) + 1]
        /\ pool' = Append(pool, c) /\ freeIds' = freeIds
    BY <1>5 DEF RegisterComponent
  <2>2. /\ pool' \in Seq(Component \cup {Null})
        /\ \A i \in DOMAIN pool : i \in DOMAIN pool' /\ pool'[i] = pool[i]
        /\ DOMAIN pool' = DOMAIN pool \cup {Len(pool) + 1}
        /\ pool'[Len(pool) + 1] = c
    BY <1>1, <2>1, AppendFacts
  <2>3. Len(pool) + 1 \notin DOMAIN pool /\ Len(pool) + 1 \in Nat \ {0}
    BY <1>2
  <2>4. index' \in [Component -> Nat] /\ InPool' = InPool \cup {c}
    BY <1>1, <2>1, <2>3 DEF InPool
  <2>5. FreeListOf(freeIds', pool')
    BY <1>1, <1>4, <2>1, <2>2, <2>3 DEF FreeListOf
  <2>6. \A i \in DOMAIN pool' : pool'[i] # Null => index'[pool'[i]] = i
    <3> SUFFICES ASSUME NEW i \in DOMAIN pool', pool'[i] # Null PROVE index'[pool'[i]] = i
      OBVIOUS
    <3>1. CASE i \in DOMAIN pool
      <4>1. pool[i] \in Component /\ index[pool[i]] = i /\ pool'[i] = pool[i]
        BY <3>1, <1>2, <2>2 DEF PoolTable
      <4>2. pool[i] # c
        BY <4>1, <1>1, <1>2, <3>1
      <4> QED BY <4>1, <4>2, <2>1
    <3>2. CASE i = Len(pool) + 1
      BY <3>2, <1>1, <2>1, <2>2
    <3> QED BY <3>1, <3>2, <2>2
  <2>7. \A d \in InPool' : index'[d] \in DOMAIN pool' /\ pool'[index'[d]] = d
    <3> SUFFICES ASSUME NEW d \in InPool' PROVE index'[d] \in DOMAIN pool' /\ pool'[index'[d]] = d
      OBVIOUS
    <3>1. d \in InPool => d \in Component /\ d # c /\ index[d] \in DOMAIN pool /\ pool[index[d]] = d
      BY <1>1 DEF PoolTable, InPool
    <3>2. CASE d \in InPool
      BY <3>1, <3>2, <1>1, <2>1, <2>2
    <3>3. CASE d = c
      BY <3>3, <1>1, <2>1, <2>2
    <3> QED BY <3>2, <3>3, <2>4
  <2> QED BY <1>1, <1>3, <2>1, <2>2, <2>4, <2>5, <2>6, <2>7 DEF PoolTable, UpdaterType
<1>6. CASE freeIds # <<>>
  <2> DEFINE n == Head(freeIds)
  <2>1. /\ index' = [index EXCEPT ![c] = n]
        /\ pool' = [pool EXCEPT ![n] = c] /\ freeIds' = Tail(freeIds)
    BY <1>6 DEF RegisterComponent
  <2>2. n \in DOMAIN pool /\ pool[n] = Null /\ freeIds' \in Seq(Nat) /\ FreeListOf(freeIds', pool')
    <3>1. /\ DOMAIN pool' = DOMAIN pool
          /\ \A i \in DOMAIN pool : i # n => pool'[i] = pool[i]
          /\ n \in DOMAIN pool => pool'[n] # Null
      BY <1>1, <2>1
    <3>2. n = Head(freeIds)
      OBVIOUS
    <3> HIDE DEF n
    <3>3. /\ n \in DOMAIN pool /\ pool[n] = Null /\ Tail(freeIds) \in Seq(Nat)
          /\ FreeListOf(Tail(freeIds), pool')
      BY <1>1, <1>4, <1>6, <3>1, <3>2, FreeOne
    <3> QED BY <2>1, <3>3
  <2> HIDE DEF n
  <2>3. pool' \in Seq(Component \cup {Null}) /\ DOMAIN pool' = DOMAIN pool
    <3>1. pool' \in [1..Len(pool) -> Component \cup {Null}]
      BY <1>2, <2>1, <2>2
    <3> QED BY <3>1, <1>2, SeqDef
  <2>4. n \in Nat \ {0} /\ index' \in [Component -> Nat] /\ InPool' = InPool \cup {c}
    BY <1>1, <1>2, <2>1, <2>2 DEF InPool
  <2>5. \A i \in DOMAIN pool : i # n => pool'[i] = pool[i]
    BY <2>1
  <2>6. pool'[n] = c /\ index'[c] = n
    BY <1>1, <2>1, <2>2
  <2>7. \A i \in DOMAIN pool' : pool'[i] # Null => index'[pool'[i]] = i
    <3> SUFFICES ASSUME NEW i \in DOMAIN pool, pool'[i] # Null PROVE index'[pool'[i]] = i
      BY <2>3
    <3>1. CASE i # n
      <4>1. pool[i] \in Component /\ index[pool[i]] = i /\ pool'[i] = pool[i]
        BY <3>1, <1>2, <2>5 DEF PoolTable
      <4>2. pool[i] # c
        BY <4>1, <1>1, <1>2, <3>1
      <4> QED BY <4>1, <4>2, <2>1
    <3> QED BY <3>1, <2>6
  <2>8. \A d \in InPool' : index'[d] \in DOMAIN pool' /\ pool'[index'[d]] = d
    <3> SUFFICES ASSUME NEW d \in InPool' PROVE index'[d] \in DOMAIN pool' /\ pool'[index'[d]] = d
      OBVIOUS
    <3>1. d \in InPool => /\ d \in Component /\ d # c /\ d # Null
                          /\ index[d] \in DOMAIN pool /\ pool[index[d]] = d
      BY <1>1, HostFacts DEF PoolTable, InPool
    <3>2. CASE d \in InPool
      <4>1. index[d] # n /\ index'[d] = index[d]
        BY <3>1, <3>2, <2>1, <2>2
      <4> QED BY <4>1, <3>1, <3>2, <2>3, <2>5
    <3>3. CASE d = c
      BY <3>3, <2>2, <2>3, <2>6
    <3> QED BY <3>2, <3>3, <2>4
  <2> QED BY <1>1, <1>3, <2>2, <2>3, <2>4, <2>7, <2>8 DEF PoolTable, UpdaterType
<1> QED BY <1>5, <1>6

\* Components that are destroyed leave the pool.
LEMMA DestroyFacts ==
  ASSUME UpdaterType, PoolTable, GravesType, NEW cs \in Seq(Component), Distinct(cs),
         DestroyComponent(cs)
  PROVE  /\ UpdaterType' /\ PoolTable' /\ halts' = halts
         /\ InPool' = InPool \ (ToSet(cs) \cap attached)
         /\ attached' = attached \ ToSet(cs)
         /\ deadComps' \in Seq(Component) /\ ToSet(deadComps') = ToSet(deadComps) \cup ToSet(cs)
<1>1. attached' = attached \ ToSet(cs) /\ deadComps' = deadComps \o cs
  BY DEF DestroyComponent
<1>2. PICK gone \in Kept(cs, attached \cap InPool) : UnRegister(gone)
  BY DEF DestroyComponent
<1>3. /\ gone \in Seq(Component) /\ ToSet(gone) = ToSet(cs) \cap (attached \cap InPool)
      /\ Distinct(gone)
  <2>1. \A i, j \in DOMAIN cs : cs[i] = cs[j] /\ cs[i] \in attached \cap InPool => i = j
    BY DEF Distinct
  <2> QED BY <1>2, <2>1, KeptFacts
<1>4. /\ UpdaterType' /\ PoolTable' /\ halts' = halts
      /\ InPool' = InPool \ ToSet(gone)
  BY <1>2, <1>3, UnRegisterFacts
<1>5. deadComps' \in Seq(Component) /\ ToSet(deadComps') = ToSet(deadComps) \cup ToSet(cs)
  BY <1>1, ConcatFacts DEF GravesType
<1> QED BY <1>1, <1>3, <1>4, <1>5

-----------------------------------------------------------------------------
(* The tree: what its operations change *)

\* The parents of a forest.
LEMMA TreeFacts ==
  ASSUME TreeType, TreeInv
  PROVE  /\ ParentsIn(children) \in Pointers /\ Rooted(ParentsIn(children))
         /\ \A x \in Host : Parent(x) = ParentsIn(children)[x]
         /\ \A x, p \in Object : Parent(x) = p <=> x \in ToSet(children[p])
         /\ \A x : Parent(x) \in Object \cup {Null}
         /\ \A x \in Object : Parent(x) # Null => x \in Live /\ Parent(x) \in Live
         /\ Parent(Scene) = Null /\ Up(Scene) = {Scene}
         /\ \A x \in Object : Up(x) \subseteq Object
         /\ \A x \in Live : Up(x) \subseteq Live
         /\ \A p \in Object : Distinct(children[p])
<1> DEFINE par == ParentsIn(children)
<1>1. children \in Kids /\ Disjoint(children) /\ Rooted(par)
  BY DEF TreeType, TreeInv
<1>2. /\ par \in Pointers /\ \A x \in Host : Parent(x) = par[x]
      /\ \A x, p \in Object : Parent(x) = p <=> x \in ToSet(children[p])
      /\ \A x : Parent(x) \in Object \cup {Null}
      /\ Parent(Scene) = Null
      /\ \A p \in Object : Distinct(children[p])
  BY <1>1, ParentFacts, UpIsChain
<1>3. ASSUME NEW x \in Object, Parent(x) # Null PROVE x \in Live /\ Parent(x) \in Live
  <2>1. Parent(x) \in Object /\ x \in ToSet(children[Parent(x)])
    BY <1>2, <1>3
  <2>2. children[Parent(x)] # <<>>
    BY <2>1, EmptyList
  <2> QED BY <2>1, <2>2 DEF TreeInv
<1> HIDE DEF par
<1>4. Up(Scene) = {Scene}
  <2>1. Scene \in Host /\ par[Scene] = Null
    BY <1>2, HostFacts
  <2> QED BY <2>1, <1>2, ChainStep, UpIsChain DEF par
<1>5. ASSUME NEW S \in SUBSET Object, NEW x \in S, \A y \in S : Parent(y) # Null => Parent(y) \in S
      PROVE  Up(x) \subseteq S
  <2>1. S \in SUBSET Host /\ x \in Host /\ \A y \in S : par[y] # Null => par[y] \in S
    BY <1>2, <1>5, HostFacts
  <2>2. Chain(par, x) \subseteq S
    BY <2>1, <1>2, ChainFacts
  <2> QED BY <2>2, UpIsChain DEF par
<1>6. \A x \in Object : Up(x) \subseteq Object
  BY <1>2, <1>5
<1>7. \A x \in Live : Up(x) \subseteq Live
  <2>1. Live \in SUBSET Object
    BY DEF Live, TreeType
  <2>2. \A y \in Live : Parent(y) # Null => Parent(y) \in Live
    BY <1>3, <2>1
  <2> QED BY <2>1, <2>2, <1>5
<1> QED BY <1>1, <1>2, <1>3, <1>4, <1>6, <1>7 DEF par

\* Going up.
LEMMA UpFacts ==
  ASSUME TreeType, TreeInv, NEW h \in Host
  PROVE  /\ h \in Up(h) /\ Up(h) \subseteq Host
         /\ \A x \in Up(h) : Up(x) \subseteq Up(h) /\ (Parent(x) # Null => Parent(x) \in Up(h))
         /\ Up(h) = {h} \cup (IF Parent(h) = Null THEN {} ELSE Up(Parent(h)))
         /\ \A x, y \in Up(h) : x \in Up(y) \/ y \in Up(x)
         /\ Top(h) \in Up(h) /\ Parent(Top(h)) = Null
         /\ \A x \in Up(h) : Top(h) \in Up(x) /\ (Parent(x) = Null => x = Top(h))
<1> DEFINE par == ParentsIn(children)
<1>1. /\ par \in Pointers /\ Rooted(par) /\ \A x \in Host : Parent(x) = par[x]
      /\ \A x : Up(x) = Chain(par, x)
  BY TreeFacts, UpIsChain
<1> HIDE DEF par
<1>2. /\ h \in Up(h) /\ Up(h) \subseteq Host
      /\ \A x \in Up(h) : Up(x) \subseteq Up(h) /\ (Parent(x) # Null => Parent(x) \in Up(h))
  BY <1>1, ChainFacts, ChainTrans
<1>3. Up(h) = {h} \cup (IF Parent(h) = Null THEN {} ELSE Up(Parent(h)))
  BY <1>1, ChainStep
<1>4. \A x, y \in Up(h) : x \in Up(y) \/ y \in Up(x)
  BY <1>1, ChainLinear
<1>5. \E x \in Up(h) : Parent(x) = Null
  BY <1>1, <1>2 DEF Rooted
<1>6. Top(h) \in Up(h) /\ Parent(Top(h)) = Null
  BY <1>5 DEF Top
<1>7. \A x \in Up(h) : Top(h) \in Up(x) /\ (Parent(x) = Null => x = Top(h))
  BY <1>1, <1>2, <1>6, ChainRoot
<1> QED BY <1>2, <1>3, <1>4, <1>6, <1>7

\* An object that loses its parent.
LEMMA MoveToRootFacts ==
  ASSUME TreeType, TreeInv, NEW o \in Object, MoveToRoot(o)
  PROVE  /\ children' \in Kids /\ Disjoint(children')
         /\ ParentsIn(children') = [ParentsIn(children) EXCEPT ![o] = Null]
         /\ \A p \in Object : ToSet(children'[p]) = ToSet(children[p]) \ {o}
<1>1. /\ Parent(o) # Null
      /\ children' = [children EXCEPT ![Parent(o)] = Erase(@, o)]
  BY DEF MoveToRoot
<1>2. children \in Kids /\ Disjoint(children)
  BY DEF TreeType, TreeInv
<1>3. Parent(o) \in Object /\ o \in ToSet(children[Parent(o)]) /\ Distinct(children[Parent(o)])
  BY <1>1, TreeFacts
<1>4. \A p \in Object : children[p] \in Seq(Object)
  BY <1>2 DEF Kids
<1>5. /\ Erase(children[Parent(o)], o) \in Seq(Object) /\ Distinct(Erase(children[Parent(o)], o))
      /\ ToSet(Erase(children[Parent(o)], o)) = ToSet(children[Parent(o)]) \ {o}
  BY <1>3, <1>4, EraseFacts
<1>6. \A p \in Object : children'[p] = IF p = Parent(o) THEN Erase(children[p], o) ELSE children[p]
  BY <1>1, <1>2 DEF Kids
<1>7. \A p \in Object : p # Parent(o) => o \notin ToSet(children[p])
  BY <1>3, TreeFacts
<1>8. \A p \in Object : ToSet(children'[p]) = ToSet(children[p]) \ {o} /\ Distinct(children'[p])
  BY <1>5, <1>6, <1>7, TreeFacts
<1>9. children' \in Kids
  BY <1>1, <1>2, <1>3, <1>5 DEF Kids
<1>10. Disjoint(children')
  <2>1. \A g, h \in Object : g # h => ToSet(children[g]) \cap ToSet(children[h]) = {}
    BY <1>2, ParentFacts
  <2>2. DOMAIN children' = Object
    BY <1>9 DEF Kids
  <2> QED BY <1>8, <2>1, <2>2, DisjointLists
<1>11. \A x \in Host : ParentIn(children', x) = IF x = o THEN Null ELSE ParentIn(children, x)
  <2> SUFFICES ASSUME NEW x \in Object
               PROVE  ParentIn(children', x) = IF x = o THEN Null ELSE ParentIn(children, x)
    BY <1>2, <1>9, <1>10, ParentFacts, HostFacts DEF Host
  <2>1. \A p \in Object : ParentIn(children', x) = p <=> x # o /\ ParentIn(children, x) = p
    <3> SUFFICES ASSUME NEW p \in Object
                 PROVE  ParentIn(children', x) = p <=> x # o /\ ParentIn(children, x) = p
      OBVIOUS
    <3>1. ParentIn(children', x) = p <=> x \in ToSet(children'[p])
      BY <1>9, <1>10, ParentFacts
    <3>2. ParentIn(children, x) = p <=> x \in ToSet(children[p])
      BY <1>2, ParentFacts
    <3> QED BY <3>1, <3>2, <1>8
  <2>2. ParentIn(children', x) \in Object \cup {Null} /\ ParentIn(children, x) \in Object \cup {Null}
    BY <1>2, <1>9, <1>10, ParentFacts
  <2> QED BY <2>1, <2>2
<1>12. ParentsIn(children') = [ParentsIn(children) EXCEPT ![o] = Null]
  BY <1>11, HostFacts DEF ParentsIn
<1> QED BY <1>8, <1>9, <1>10, <1>12

\* An object that is moved below another.
LEMMA MoveToTreeFacts ==
  ASSUME TreeType, TreeInv, NEW o \in Object, NEW p \in Object, MoveToTree(o, p)
  PROVE  /\ children' \in Kids /\ Disjoint(children')
         /\ ParentsIn(children') = [ParentsIn(children) EXCEPT ![o] = p]
         /\ o \in Live /\ p \in Live /\ o \notin Up(p)
         /\ \A q \in Object : ToSet(children'[q]) =
              IF q = p THEN ToSet(children[q]) \cup {o} ELSE ToSet(children[q]) \ {o}
<1>1. /\ o \in Live /\ p \in Live /\ p \notin Below(o) /\ p # Parent(o)
      /\ children' = [q \in Object |->
                    IF q = p THEN Append(children[q], o)
                    ELSE IF q = Parent(o) THEN Erase(children[q], o) ELSE children[q]]
  BY HostFacts DEF MoveToTree, Usable, Live
<1>2. children \in Kids /\ Disjoint(children)
  BY DEF TreeType, TreeInv
<1>3. o \notin Up(p)
  BY <1>1 DEF Below
<1>4. \A q \in Object : children[q] \in Seq(Object) /\ Distinct(children[q])
  BY <1>2, TreeFacts DEF Kids
<1>5. \A q \in Object : o \in ToSet(children[q]) <=> q = Parent(o)
  BY TreeFacts
<1>6. /\ children'[p] \in Seq(Object) /\ Distinct(children'[p])
      /\ ToSet(children'[p]) = ToSet(children[p]) \cup {o}
  <2>1. children'[p] = Append(children[p], o) /\ o \notin ToSet(children[p])
    BY <1>1, <1>5
  <2> QED BY <2>1, <1>4, AppendFacts
<1>7. ASSUME NEW q \in Object, q # p
      PROVE  /\ children'[q] \in Seq(Object) /\ Distinct(children'[q])
             /\ ToSet(children'[q]) = ToSet(children[q]) \ {o}
  <2>1. CASE q = Parent(o)
    <3>1. children'[q] = Erase(children[q], o) /\ o \in ToSet(children[q])
      BY <2>1, <1>1, <1>5, <1>7
    <3> QED BY <3>1, <1>4, EraseFacts
  <2>2. CASE q # Parent(o)
    <3>1. children'[q] = children[q] /\ o \notin ToSet(children[q])
      BY <2>2, <1>1, <1>5, <1>7
    <3> QED BY <3>1, <1>4
  <2> QED BY <2>1, <2>2
<1>8. children' \in Kids
  BY <1>1, <1>6, <1>7 DEF Kids
<1>9. Disjoint(children')
  <2>1. \A g, h \in Object : g # h => ToSet(children[g]) \cap ToSet(children[h]) = {}
    BY <1>2, ParentFacts
  <2>2. DOMAIN children' = Object
    BY <1>8 DEF Kids
  <2>3. \A g, h \in Object : g # h => ToSet(children'[g]) \cap ToSet(children'[h]) = {}
    <3>1. \A q \in Object : ToSet(children'[q]) =
            IF q = p THEN ToSet(children[q]) \cup {o} ELSE ToSet(children[q]) \ {o}
      BY <1>6, <1>7
    <3> SUFFICES ASSUME NEW g \in Object, NEW h \in Object, g # h
                 PROVE  ToSet(children'[g]) \cap ToSet(children'[h]) = {}
      OBVIOUS
    <3>2. ToSet(children[g]) \cap ToSet(children[h]) = {}
      BY <2>1
    <3>3. CASE g = p
      BY <3>1, <3>2, <3>3
    <3>4. CASE h = p
      BY <3>1, <3>2, <3>4
    <3>5. CASE g # p /\ h # p
      BY <3>1, <3>2, <3>5
    <3> QED BY <3>3, <3>4, <3>5
  <2>4. \A g \in Object : Distinct(children'[g])
    BY <1>6, <1>7
  <2> QED BY <2>2, <2>3, <2>4, DisjointLists
<1>10. \A x \in Host : ParentIn(children', x) = IF x = o THEN p ELSE ParentIn(children, x)
  <2> SUFFICES ASSUME NEW x \in Object
               PROVE  ParentIn(children', x) = IF x = o THEN p ELSE ParentIn(children, x)
    BY <1>2, <1>8, <1>9, ParentFacts, HostFacts DEF Host
  <2>1. \A q \in Object : /\ ParentIn(children', x) = q <=> x \in ToSet(children'[q])
                          /\ ParentIn(children, x) = q <=> x \in ToSet(children[q])
    BY <1>2, <1>8, <1>9, ParentFacts
  <2>2. ParentIn(children', x) \in Object \cup {Null} /\ ParentIn(children, x) \in Object \cup {Null}
    BY <1>2, <1>8, <1>9, ParentFacts
  <2>3. CASE x = o
    BY <2>1, <2>3, <1>6
  <2>4. CASE x # o
    <3>1. \A q \in Object : x \in ToSet(children'[q]) <=> x \in ToSet(children[q])
      BY <2>4, <1>6, <1>7
    <3> QED BY <3>1, <2>1, <2>2, <2>4
  <2> QED BY <2>3, <2>4
<1>11. ParentsIn(children') = [ParentsIn(children) EXCEPT ![o] = p]
  BY <1>10, HostFacts DEF ParentsIn
<1> QED BY <1>1, <1>3, <1>6, <1>7, <1>8, <1>9, <1>11

\* An object is destroyed with all that is below it.
LEMMA BuryFacts ==
  ASSUME TreeType, TreeInv, TableType, GravesType, QueueInv, SlotInv,
         NEW o \in Live, Bury(o)
  PROVE  /\ o \in Below(o) /\ Below(o) \subseteq Live
         /\ \A x \in Below(o), p \in Object : x \in ToSet(children[p]) => x = o \/ p \in Below(o)
         /\ destroyed' = destroyed \cup Below(o) /\ changed' = TRUE /\ halts' = halts
         /\ children' \in Kids /\ Disjoint(children')
         /\ \A p \in Object : ToSet(children'[p]) =
              IF p \in Below(o) THEN {} ELSE ToSet(children[p]) \ {o}
         /\ ParentsIn(children') = [x \in Host |-> IF o \in Up(x) THEN Null ELSE Parent(x)]
         /\ deleteQueue' \in Seq(Object) /\ Distinct(deleteQueue')
         /\ ToSet(deleteQueue') = ToSet(deleteQueue) \cup Below(o)
         /\ newQueue' \in Seq(Object) /\ Distinct(newQueue')
         /\ ToSet(newQueue') = ToSet(newQueue) \ Below(o)
         /\ slots' \in Seq(Object \cup {Null}) /\ DOMAIN slots' = DOMAIN slots
         /\ \A i \in DOMAIN slots : slots'[i] = IF slots[i] \in Below(o) THEN Null ELSE slots[i]
         /\ freeIndices' \in Seq(Nat) /\ FreeListOf(freeIndices', slots')
<1>1. o \in Object /\ Below(o) \subseteq Object /\ Live \subseteq Object
  BY DEF Below, Live, TreeType
<1>2. \A x \in Object : Up(x) = {x} \cup (IF Parent(x) = Null THEN {} ELSE Up(Parent(x)))
  BY UpFacts, HostFacts
<1>3. o \in Below(o) /\ Below(o) \subseteq Live
  <2>1. o \in Below(o)
    BY <1>1, UpFacts, HostFacts DEF Below
  <2>2. ASSUME NEW x \in Below(o) PROVE x \in Live
    <3>1. Parent(x) = Null => x = o
      BY <1>2 DEF Below
    <3> QED BY <1>1, <3>1, TreeFacts
  <2> QED BY <2>1, <2>2
<1>4. \A x \in Object : x # o /\ Parent(x) # Null => (x \in Below(o) <=> Parent(x) \in Below(o))
  BY <1>2, TreeFacts DEF Below
<1>5. \A x \in Object, p \in Object : Parent(x) = p <=> x \in ToSet(children[p])
  BY TreeFacts
<1>6. \A x \in Below(o), p \in Object : x \in ToSet(children[p]) => x = o \/ p \in Below(o)
  BY <1>1, <1>4, <1>5, HostFacts
<1>7. IsFiniteSet(Below(o))
  BY <1>1, FS_Subset, PartsAssumption
<1> DEFINE Tabled == {x \in Object : InTable(x)}
<1> DEFINE Known(x) == IF InTable(x) THEN slots[idInScene[x]] = x ELSE Contains(newQueue, x)
           Buried(q, t) ==
             /\ destroyed' = destroyed \cup ToSet(q)
             /\ children' = [x \in Object |->
                               IF Contains(q, x) THEN <<>>
                               ELSE IF x = Parent(o) THEN Erase(children[x], o) ELSE children[x]]
             /\ deleteQueue' = deleteQueue \o q
             /\ slots' = [i \in DOMAIN slots |->
                            IF \E x \in ToSet(t) : idInScene[x] = i THEN Null ELSE slots[i]]
             /\ freeIndices' = freeIndices \o [k \in DOMAIN t |-> idInScene[t[k]]]
             /\ newQueue' \in Kept(newQueue, Object \ ToSet(q))
             /\ changed' = TRUE
             /\ halts' = halts \cup (IF \A x \in ToSet(q) : x \notin destroyed /\ Known(x)
                                     THEN {} ELSE {"not in the scene"})
<1>8. PICK q \in Preorder(o) : \E t \in Kept(q, Tabled) : Buried(q, t)
  BY DEF Bury
<1>9. PICK t \in Kept(q, Tabled) : Buried(q, t)
  BY <1>8
<1>10. q \in SetToSeqs(Below(o))
  BY DEF Preorder, InOrder
<1>11. q \in Seq(Object) /\ Distinct(q) /\ ToSet(q) = Below(o)
       /\ \A x : Contains(q, x) <=> x \in Below(o)
  <2>1. q \in Seq(Below(o)) /\ Distinct(q) /\ ToSet(q) = Below(o)
    BY <1>7, <1>10, OrderFacts
  <2>2. q \in Seq(Object)
    BY <2>1, <1>1, SeqMonotonic
  <2> QED BY <2>1, <2>2, ListFacts
<1>12. t \in Seq(Object) /\ Distinct(t) /\ ToSet(t) = Below(o) \cap Tabled
  <2>1. \A i, j \in DOMAIN q : q[i] = q[j] /\ q[i] \in Tabled => i = j
    BY <1>11 DEF Distinct
  <2> HIDE DEF Tabled
  <2> QED BY <1>11, <2>1, KeptFacts
<1>13. /\ slots \in Seq(Object \cup {Null}) /\ freeIndices \in Seq(Nat)
       /\ newQueue \in Seq(Object) /\ idInScene \in [Object -> Nat]
       /\ deleteQueue \in Seq(Object)
  BY DEF TableType, GravesType
<1>14. /\ Len(slots) \in Nat /\ DOMAIN slots = 1..Len(slots)
       /\ \A i \in DOMAIN slots : slots[i] \in Object \cup {Null}
  BY <1>13, ListFacts
<1>15. /\ \A x : Contains(newQueue, x) <=> x \in ToSet(newQueue)
       /\ Distinct(newQueue) /\ ToSet(newQueue) \subseteq Live
       /\ \A x \in Object : x \in ToSet(newQueue) => idInScene[x] = 0
       /\ Distinct(deleteQueue) /\ ToSet(deleteQueue) = destroyed \ freed
  BY <1>13, ListFacts DEF QueueInv
<1>16. /\ FreeListOf(freeIndices, slots)
       /\ \A i \in DOMAIN slots : slots[i] # Null =>
            slots[i] \in Live \ ToSet(newQueue) /\ idInScene[slots[i]] = i
       /\ \A x \in Live \ ToSet(newQueue) : idInScene[x] \in DOMAIN slots /\ slots[idInScene[x]] = x
  BY DEF SlotInv
<1>17. \A x \in Live : InTable(x) <=> x \notin ToSet(newQueue)
  BY <1>1, <1>14, <1>15, <1>16 DEF InTable
<1>18. halts' = halts
  <2>1. \A x \in Below(o) : /\ x \notin destroyed
                            /\ IF InTable(x) THEN slots[idInScene[x]] = x ELSE Contains(newQueue, x)
    BY <1>3, <1>15, <1>16, <1>17 DEF Live
  <2> QED BY <2>1, <1>9, <1>11
<1>19. destroyed' = destroyed \cup Below(o) /\ changed' = TRUE
  BY <1>9, <1>11
<1>20. /\ deleteQueue' \in Seq(Object) /\ Distinct(deleteQueue')
       /\ ToSet(deleteQueue') = ToSet(deleteQueue) \cup Below(o)
  <2>1. ToSet(deleteQueue) \cap ToSet(q) = {} /\ deleteQueue' = deleteQueue \o q
    BY <1>3, <1>9, <1>11, <1>15 DEF Live
  <2> QED BY <2>1, <1>11, <1>13, <1>15, ConcatFacts
<1>21. /\ newQueue' \in Seq(Object) /\ Distinct(newQueue')
       /\ ToSet(newQueue') = ToSet(newQueue) \ Below(o)
  <2> DEFINE S == Object \ ToSet(q)
  <2>1. newQueue' \in Kept(newQueue, S)
    BY <1>9
  <2>2. \A i, j \in DOMAIN newQueue : newQueue[i] = newQueue[j] /\ newQueue[i] \in S => i = j
    BY <1>15 DEF Distinct
  <2>3. ToSet(newQueue) \cap S = ToSet(newQueue) \ Below(o)
    BY <1>1, <1>11, <1>15
  <2> HIDE DEF S
  <2> QED BY <1>13, <2>1, <2>2, <2>3, KeptFacts
<1> DEFINE more == [k \in DOMAIN t |-> idInScene[t[k]]]
<1>22. /\ Len(t) \in Nat /\ DOMAIN t = 1..Len(t) /\ \A k \in DOMAIN t : t[k] \in ToSet(t)
  BY <1>12, ListFacts DEF ToSet
<1>23. \A x \in ToSet(t) : x \in Object /\ x # Null /\ idInScene[x] \in DOMAIN slots /\ slots[idInScene[x]] = x
  <2>1. \A x \in ToSet(t) : x \in Live \ ToSet(newQueue)
    BY <1>3, <1>12, <1>17
  <2> QED BY <2>1, <1>1, <1>16, HostFacts
<1>24. more \in Seq(Nat) /\ ToSet(more) = {idInScene[x] : x \in ToSet(t)} /\ Distinct(more)
  <2>1. more \in [1..Len(t) -> Nat]
    BY <1>13, <1>22, <1>23
  <2>2. more \in Seq(Nat)
    BY <2>1, <1>22, SeqDef
  <2>3. ToSet(more) = {idInScene[x] : x \in ToSet(t)}
    BY <1>22 DEF ToSet
  <2>4. \A j, k \in DOMAIN t : idInScene[t[j]] = idInScene[t[k]] => t[j] = t[k]
    BY <1>22, <1>23
  <2>5. Distinct(more)
    BY <2>4, <1>12 DEF Distinct
  <2> QED BY <2>2, <2>3, <2>5
<1>25. freeIndices' = freeIndices \o more
  BY <1>9
<1>26. /\ slots' = [i \in DOMAIN slots |->
                      IF \E x \in ToSet(t) : idInScene[x] = i THEN Null ELSE slots[i]]
  BY <1>9
<1> HIDE DEF more, Tabled
<1>27. /\ DOMAIN slots' = DOMAIN slots
       /\ \A i \in DOMAIN slots : slots'[i] = IF i \in ToSet(more) THEN Null ELSE slots[i]
  BY <1>24, <1>26
<1>28. freeIndices' \in Seq(Nat) /\ FreeListOf(freeIndices', slots')
  <2>1. \A i \in ToSet(more) : i \in DOMAIN slots /\ slots[i] # Null
    BY <1>23, <1>24
  <2>2. freeIndices \o more \in Seq(Nat) /\ FreeListOf(freeIndices \o more, slots')
    BY <1>13, <1>16, <1>24, <1>27, <2>1, FreeMore
  <2> QED BY <2>2, <1>25
<1>29. \A i \in DOMAIN slots : slots'[i] = IF slots[i] \in Below(o) THEN Null ELSE slots[i]
  <2> SUFFICES ASSUME NEW i \in DOMAIN slots
               PROVE  i \in ToSet(more) <=> slots[i] \in Below(o)
    BY <1>27
  <2>1. i \in ToSet(more) => slots[i] \in ToSet(t) /\ slots[i] \in Below(o)
    BY <1>12, <1>23, <1>24
  <2>2. slots[i] \in Below(o) => slots[i] \in ToSet(t) /\ idInScene[slots[i]] = i
    BY <1>1, <1>3, <1>12, <1>16, <1>17, HostFacts DEF Tabled
  <2> QED BY <2>1, <2>2, <1>24
<1>30. slots' \in Seq(Object \cup {Null})
  <2>1. slots' \in [1..Len(slots) -> Object \cup {Null}]
    BY <1>14, <1>26
  <2> QED BY <2>1, <1>14, SeqDef
<1>31. ASSUME NEW p \in Object
       PROVE  /\ children'[p] \in Seq(Object) /\ Distinct(children'[p])
              /\ ToSet(children'[p]) = IF p \in Below(o) THEN {} ELSE ToSet(children[p]) \ {o}
  <2>1. /\ children[p] \in Seq(Object) /\ Distinct(children[p])
        /\ o \in ToSet(children[p]) <=> p = Parent(o)
    BY <1>1, <1>5, TreeFacts DEF TreeType, Kids
  <2>2. children'[p] = IF p \in Below(o) THEN <<>>
                       ELSE IF p = Parent(o) THEN Erase(children[p], o) ELSE children[p]
    BY <1>9, <1>11
  <2>3. CASE p \in Below(o)
    BY <2>2, <2>3, EmptyList
  <2>4. CASE p \notin Below(o) /\ p = Parent(o)
    BY <2>1, <2>2, <2>4, EraseFacts
  <2>5. CASE p \notin Below(o) /\ p # Parent(o)
    BY <2>1, <2>2, <2>5
  <2> QED BY <2>3, <2>4, <2>5
<1>32. children' \in Kids
  BY <1>9, <1>31 DEF Kids
<1>33. Disjoint(children')
  <2>1. \A g, h \in Object : g # h => ToSet(children[g]) \cap ToSet(children[h]) = {}
    BY ParentFacts DEF TreeType, TreeInv
  <2>2. DOMAIN children' = Object
    BY <1>32 DEF Kids
  <2>3. \A g, h \in Object : g # h => ToSet(children'[g]) \cap ToSet(children'[h]) = {}
    BY <2>1, <1>31
  <2> QED BY <2>2, <2>3, <1>31, DisjointLists
<1>34. \A x \in Host : ParentIn(children', x) = IF o \in Up(x) THEN Null ELSE Parent(x)
  <2> SUFFICES ASSUME NEW x \in Object
               PROVE  ParentIn(children', x) = IF x \in Below(o) THEN Null ELSE Parent(x)
    <3>1. ParentIn(children', Scene) = Null /\ Parent(Scene) = Null /\ o \notin Up(Scene)
      BY <1>1, <1>32, <1>33, ParentFacts, TreeFacts, HostFacts
    <3> QED BY <3>1 DEF Below, Host
  <2>1. \A p \in Object : ParentIn(children', x) = p <=> x \in ToSet(children'[p])
    BY <1>32, <1>33, ParentFacts
  <2>2. ParentIn(children', x) \in Object \cup {Null} /\ Parent(x) \in Object \cup {Null}
    BY <1>32, <1>33, ParentFacts, TreeFacts
  <2>3. CASE x \in Below(o)
    <3>1. \A p \in Object : x \notin ToSet(children'[p])
      BY <2>3, <1>6, <1>31
    <3> QED BY <3>1, <2>1, <2>2, <2>3
  <2>4. CASE x \notin Below(o)
    <3>1. \A p \in Object : x \in ToSet(children'[p]) <=> Parent(x) = p
      <4> SUFFICES ASSUME NEW p \in Object
                   PROVE  x \in ToSet(children'[p]) <=> Parent(x) = p
        OBVIOUS
      <4>1. x # o /\ p # Null /\ (Parent(x) = p <=> x \in ToSet(children[p]))
        BY <2>4, <1>3, <1>5, HostFacts
      <4>2. Parent(x) = p => p \notin Below(o)
        BY <2>4, <4>1, <1>4
      <4>3. ToSet(children'[p]) = IF p \in Below(o) THEN {} ELSE ToSet(children[p]) \ {o}
        BY <1>31
      <4> QED BY <4>1, <4>2, <4>3
    <3> QED BY <3>1, <2>1, <2>2, <2>4
  <2> QED BY <2>3, <2>4
<1>35. ParentsIn(children') = [x \in Host |-> IF o \in Up(x) THEN Null ELSE Parent(x)]
  BY <1>34 DEF ParentsIn
<1> QED BY <1>3, <1>6, <1>18, <1>19, <1>20, <1>21, <1>27, <1>28, <1>29, <1>30, <1>31, <1>32, <1>33, <1>35

-----------------------------------------------------------------------------
(* The table of objects: what Prepare fills in *)

\* The free list when its first places have been taken.
LEMMA FreeAfterFacts ==
  ASSUME freeIndices \in Seq(Nat), Distinct(freeIndices), NEW r \in 0..Len(freeIndices)
  PROVE  /\ FreeAfter(r) \in Seq(Nat) /\ Distinct(FreeAfter(r))
         /\ ToSet(FreeAfter(r)) = ToSet(freeIndices) \ {freeIndices[k] : k \in 1..r}
<1> DEFINE f == freeIndices
           m == Len(freeIndices)
           w == FreeAfter(r)
<1>1. m \in Nat /\ DOMAIN f = 1..m /\ \A k \in 1..m : f[k] \in Nat
  BY ListFacts
<1>2. Distinct(f) /\ w = SubSeq(f, r + 1, m) /\ r \in 0..m
  BY DEF FreeAfter
<1> HIDE DEF w, f, m
<1>3. /\ w \in Seq(Nat)
      /\ Len(w) = m - r
      /\ \A k \in 1..(m - r) : w[k] = f[r + k]
  <2>1. \A k \in (r + 1)..m : f[k] \in Nat
    BY <1>1, <1>2
  <2>2. r + 1 \in Int /\ m \in Int /\ r \in Int
    BY <1>1, <1>2
  <2>3. /\ w \in Seq(Nat)
        /\ Len(w) = IF r + 1 <= m THEN m - (r + 1) + 1 ELSE 0
        /\ \A k \in 1..(m - (r + 1) + 1) : w[k] = f[(r + 1) + k - 1]
    BY SMTT(30), <2>1, <2>2, <1>2, SubSeqProperties
  <2>4. r + 1 <= m \/ r = m
    BY <1>1, <1>2
  <2>5. Len(w) = m - r /\ m - (r + 1) + 1 = m - r
    BY <2>2, <2>3, <2>4
  <2>6. \A k \in 1..(m - r) : (r + 1) + k - 1 = r + k
    BY <2>2
  <2> QED BY <2>3, <2>5, <2>6
<1>4. DOMAIN w = 1..(m - r)
  BY <1>3, LenProperties
<1>5. \A k \in DOMAIN w : r + k \in DOMAIN f /\ r + k > r /\ w[k] = f[r + k]
  BY SMTT(30), <1>1, <1>3, <1>4, <1>2
<1>6. Distinct(w)
  <2> SUFFICES ASSUME NEW j \in DOMAIN w, NEW k \in DOMAIN w, w[j] = w[k] PROVE j = k
    BY DEF Distinct
  <2>1. r + j = r + k
    BY <1>2, <1>5 DEF Distinct
  <2> QED BY <2>1, <1>4
<1>7. ASSUME NEW y \in ToSet(w) PROVE y \in ToSet(f) /\ \A k \in 1..r : f[k] # y
  <2>1. PICK k \in DOMAIN w : w[k] = y
    BY DEF ToSet
  <2>2. r + k \in DOMAIN f /\ f[r + k] = y /\ \A j \in 1..r : j \in DOMAIN f /\ j # r + k
    BY SMTT(30), <2>1, <1>1, <1>2, <1>5
  <2> QED BY <2>2, <1>2 DEF ToSet, Distinct
<1>8. ASSUME NEW y \in ToSet(f), \A k \in 1..r : f[k] # y PROVE y \in ToSet(w)
  <2>1. PICK k \in DOMAIN f : f[k] = y
    BY DEF ToSet
  <2>2. k - r \in 1..(m - r) /\ r + (k - r) = k
    BY <2>1, <1>1, <1>2, <1>8
  <2>3. k - r \in DOMAIN w /\ w[k - r] = y
    BY <2>1, <2>2, <1>3, <1>4
  <2> QED BY <2>3 DEF ToSet
<1>9. ToSet(w) = ToSet(f) \ {f[k] : k \in 1..r}
  BY <1>7, <1>8
<1> QED BY <1>3, <1>6, <1>9 DEF w, f

\* Every object of the new queue gets a place of its own: a free one, or a
\* new one behind the table.
LEMMA PrepareTable ==
  ASSUME TreeType, TableType, QueueInv, SlotInv, PrepareBegin
  PROVE  /\ TableType' /\ newQueue' = <<>>
         /\ FreeListOf(freeIndices', slots')
         /\ \A i \in DOMAIN slots' : slots'[i] # Null =>
              slots'[i] \in Live /\ idInScene'[slots'[i]] = i
         /\ \A o \in Live : idInScene'[o] \in DOMAIN slots' /\ slots'[idInScene'[o]] = o
         /\ \A o \in Object \ created : idInScene'[o] = 0
         /\ ToSet(slots') \ {Null} = Live
<1> DEFINE q == newQueue
           r == IF Len(newQueue) < Len(freeIndices) THEN Len(newQueue) ELSE Len(freeIndices)
           IdOf(k) == IF k <= r THEN freeIndices[k] ELSE Len(slots) + k - r
           size == Len(slots) + Len(newQueue) - r
           len == Len(slots)
           n == Len(newQueue)
           m == Len(freeIndices)
<1>1. /\ idInScene' = [o \in Object |-> IF Contains(newQueue, o)
                               THEN IdOf(Position(newQueue, o)) ELSE idInScene[o]]
      /\ slots' = [i \in 1..size |->
                     IF \E k \in DOMAIN newQueue : IdOf(k) = i
                     THEN newQueue[CHOOSE k \in DOMAIN newQueue : IdOf(k) = i]
                     ELSE slots[i]]
      /\ freeIndices' = FreeAfter(r)
      /\ newQueue' = <<>>
  BY DEF PrepareBegin
<1>2. /\ slots \in Seq(Object \cup {Null}) /\ freeIndices \in Seq(Nat)
      /\ newQueue \in Seq(Object) /\ idInScene \in [Object -> Nat]
  BY DEF TableType
<1>3. /\ len \in Nat /\ DOMAIN slots = 1..len
      /\ \A i \in DOMAIN slots : slots[i] \in Object \cup {Null}
  BY <1>2, ListFacts
<1>4. /\ n \in Nat /\ DOMAIN q = 1..n
      /\ \A k \in DOMAIN q : q[k] \in Object /\ q[k] \in ToSet(q)
      /\ \A x : Contains(q, x) <=> x \in ToSet(q)
      /\ Distinct(q) /\ ToSet(q) \subseteq Live
  BY <1>2, ListFacts DEF QueueInv, ToSet
<1>5. m \in Nat /\ DOMAIN freeIndices = 1..m
  BY <1>2, ListFacts
<1>6. /\ r = IF n < m THEN n ELSE m
      /\ size = len + n - r
      /\ \A k : k <= r => IdOf(k) = freeIndices[k]
      /\ \A k : ~(k <= r) => IdOf(k) = len + k - r
  BY Zenon
<1>7. /\ Distinct(freeIndices)
      /\ ToSet(freeIndices) = {i \in DOMAIN slots : slots[i] = Null}
  BY DEF SlotInv, FreeListOf, Distinct
<1>8. /\ \A i \in DOMAIN slots : slots[i] # Null =>
           slots[i] \in Live \ ToSet(q) /\ idInScene[slots[i]] = i
      /\ \A o \in Live \ ToSet(q) : idInScene[o] \in DOMAIN slots /\ slots[idInScene[o]] = o
  BY DEF SlotInv
<1>9. \A o \in Live : o \in Object /\ o # Null
  BY HostFacts DEF Live, TreeType
<1> HIDE DEF r, q, IdOf, size, len, n, m
<1>12. /\ r \in Nat /\ r <= n /\ r <= m /\ size \in Nat /\ len <= size
  BY <1>3, <1>4, <1>5, <1>6
<1>10. \A k \in 1..r : k \in DOMAIN freeIndices /\ freeIndices[k] \in DOMAIN slots
                       /\ slots[freeIndices[k]] = Null
  <2>1. \A k \in DOMAIN freeIndices : freeIndices[k] \in ToSet(freeIndices)
    BY DEF ToSet
  <2> QED BY <2>1, <1>5, <1>12, <1>7
<1>11. \A k \in DOMAIN q : /\ k <= r => IdOf(k) = freeIndices[k] /\ k \in 1..r
                           /\ ~(k <= r) => IdOf(k) = len + k - r /\ k > r
  <2>1. \A k \in DOMAIN q : k \in Nat /\ k >= 1
    BY <1>4
  <2>2. \A k \in DOMAIN q : (k <= r => k \in 1..r) /\ (~(k <= r) => k > r)
    BY <2>1, <1>12
  <2> QED BY <2>2, <1>6, Zenon
<1>13. \A k \in 1..r : k \in DOMAIN q /\ k <= r
  BY <1>4, <1>12
<1>14. \A k \in DOMAIN q : IdOf(k) \in 1..size
                           /\ (k \in 1..r \/ IdOf(k) > len)
  <2> SUFFICES ASSUME NEW k \in DOMAIN q
               PROVE  IdOf(k) \in 1..size /\ (k \in 1..r \/ IdOf(k) > len)
    OBVIOUS
  <2>1. CASE k <= r
    <3>1. IdOf(k) \in DOMAIN slots /\ k \in 1..r
      BY <2>1, <1>10, <1>11
    <3> QED BY <3>1, <1>3, <1>12
  <2>2. CASE ~(k <= r)
    <3>1. IdOf(k) = len + k - r /\ k > r
      BY <2>2, <1>11
    <3> QED BY <3>1, <1>3, <1>4, <1>12, <1>6, <1>6
  <2> QED BY <2>1, <2>2
<1>15. \A j, k \in DOMAIN q : IdOf(j) = IdOf(k) => j = k
  <2> SUFFICES ASSUME NEW j \in DOMAIN q, NEW k \in DOMAIN q, IdOf(j) = IdOf(k) PROVE j = k
    OBVIOUS
  <2>1. CASE j <= r /\ k <= r
    BY <2>1, <1>7, <1>10, <1>11 DEF Distinct
  <2>2. CASE ~(j <= r) /\ ~(k <= r)
    BY SMTT(30), <2>2, <1>3, <1>4, <1>12, <1>6, <1>11
  <2>3. CASE j <= r /\ ~(k <= r)
    <3>1. IdOf(j) \in 1..len
      BY <2>3, <1>3, <1>10, <1>11
    <3>2. IdOf(k) > len
      BY <2>3, <1>3, <1>4, <1>12, <1>6, <1>11
    <3> QED BY <3>1, <3>2, <1>3
  <2>4. CASE ~(j <= r) /\ k <= r
    <3>1. IdOf(k) \in 1..len
      BY <2>4, <1>3, <1>10, <1>11
    <3>2. IdOf(j) > len
      BY <2>4, <1>3, <1>4, <1>12, <1>6, <1>11
    <3> QED BY <3>1, <3>2, <1>3
  <2> QED BY <2>1, <2>2, <2>3, <2>4
<1> DEFINE Taken(i) == \E k \in DOMAIN q : IdOf(k) = i
<1>16. DOMAIN slots' = 1..size
  BY <1>1
<1>17. \A k \in DOMAIN q : slots'[IdOf(k)] = q[k]
  <2> SUFFICES ASSUME NEW k \in DOMAIN q PROVE slots'[IdOf(k)] = q[k]
    OBVIOUS
  <2>1. slots'[IdOf(k)] = q[CHOOSE j \in DOMAIN q : IdOf(j) = IdOf(k)]
    BY <1>1, <1>14 DEF q
  <2>2. (CHOOSE j \in DOMAIN q : IdOf(j) = IdOf(k)) = k
    BY <1>15
  <2> QED BY <2>1, <2>2
<1>18. \A i \in 1..size : ~Taken(i) => slots'[i] = slots[i] /\ i \in DOMAIN slots
  <2> SUFFICES ASSUME NEW i \in 1..size, ~Taken(i)
               PROVE  slots'[i] = slots[i] /\ i \in DOMAIN slots
    OBVIOUS
  <2>1. slots'[i] = slots[i]
    BY <1>1 DEF q
  <2>2. ASSUME i > len PROVE FALSE
    <3>3. /\ i \in Nat /\ i <= size /\ size = len + n - r
          /\ len \in Nat /\ n \in Nat /\ r \in Nat /\ i > len
      BY <2>2, <1>3, <1>4, <1>6, <1>12
    <3>4. (i - len) + r \in 1..n /\ ~((i - len) + r <= r)
          /\ len + ((i - len) + r) - r = i
      BY <3>3
    <3>1. (i - len) + r \in DOMAIN q /\ ~((i - len) + r <= r)
          /\ len + ((i - len) + r) - r = i
      BY <3>4, <1>4
    <3>2. IdOf((i - len) + r) = i
      BY <3>1, <1>11
    <3> QED BY <3>1, <3>2
  <2> QED BY <2>1, <2>2, <1>3, <1>12
<1>19. \A o \in Object :
         /\ o \in ToSet(q) => \E k \in DOMAIN q : q[k] = o /\ idInScene'[o] = IdOf(k)
         /\ o \notin ToSet(q) => idInScene'[o] = idInScene[o]
  <2> SUFFICES ASSUME NEW o \in Object, o \in ToSet(q)
               PROVE  \E k \in DOMAIN q : q[k] = o /\ idInScene'[o] = IdOf(k)
    BY <1>1, <1>4 DEF q
  <2>1. Position(q, o) \in DOMAIN q /\ q[Position(q, o)] = o
    BY DEF Position, ToSet
  <2>2. idInScene'[o] = IdOf(Position(q, o))
    BY <1>1, <1>4 DEF q
  <2> QED BY <2>1, <2>2
<1>20. ASSUME NEW o \in Live
       PROVE  idInScene'[o] \in 1..size /\ slots'[idInScene'[o]] = o
  <2>1. CASE o \in ToSet(q)
    BY <2>1, <1>9, <1>14, <1>17, <1>19
  <2>2. CASE o \notin ToSet(q)
    <3>1. /\ idInScene'[o] = idInScene[o] /\ idInScene[o] \in DOMAIN slots
          /\ slots[idInScene[o]] = o
      BY <2>2, <1>8, <1>9, <1>19
    <3>2. ~Taken(idInScene[o])
      <4>1. ASSUME NEW k \in DOMAIN q, IdOf(k) = idInScene[o] PROVE FALSE
        <5>1. k \in 1..r
          BY <4>1, <3>1, <1>3, <1>14
        <5>2. IdOf(k) = freeIndices[k] /\ slots[freeIndices[k]] = Null
          BY <4>1, <5>1, <1>12, <1>6, <1>10, <1>11
        <5> QED BY <4>1, <5>2, <3>1, <1>9
      <4> QED BY <4>1
    <3>3. idInScene[o] \in 1..size
      BY <3>1, <1>3, <1>12
    <3> QED BY <3>1, <3>2, <3>3, <1>18
  <2> QED BY <2>1, <2>2
<1>21. ASSUME NEW i \in 1..size, slots'[i] # Null
       PROVE  slots'[i] \in Live /\ idInScene'[slots'[i]] = i
  <2>1. CASE Taken(i)
    <3>1. PICK k \in DOMAIN q : IdOf(k) = i
      BY <2>1
    <3>2. slots'[i] = q[k] /\ q[k] \in Object /\ q[k] \in ToSet(q)
      BY <3>1, <1>4, <1>17
    <3>3. PICK j \in DOMAIN q : q[j] = q[k] /\ idInScene'[q[k]] = IdOf(j)
      BY <3>2, <1>19
    <3>4. j = k
      BY <3>3, <1>4 DEF Distinct
    <3> QED BY <3>1, <3>2, <3>3, <3>4, <1>4
  <2>2. CASE ~Taken(i)
    <3>1. slots'[i] = slots[i] /\ i \in DOMAIN slots
      BY <2>2, <1>18
    <3>2. slots[i] \in Live \ ToSet(q) /\ idInScene[slots[i]] = i
      BY <3>1, <1>8, <1>21
    <3> QED BY <3>1, <3>2, <1>9, <1>19
  <2> QED BY <2>1, <2>2
<1>22. \A i \in 1..size : slots'[i] \in Object \cup {Null}
  BY <1>9, <1>21
<1>23. slots' \in Seq(Object \cup {Null})
  <2>1. slots' \in [1..size -> Object \cup {Null}]
    BY <1>1, <1>22
  <2> QED BY <2>1, <1>12, SeqDef
<1>24. idInScene' \in [Object -> Nat]
  <2>1. \A o \in Object : idInScene'[o] \in Nat
    <3>1. \A k \in DOMAIN q : IdOf(k) \in Nat
      BY <1>12, <1>14
    <3> QED BY <3>1, <1>2, <1>19
  <2> QED BY <2>1, <1>1
<1>25. freeIndices' \in Seq(Nat) /\ FreeListOf(freeIndices', slots')
  <2>1. /\ freeIndices' \in Seq(Nat) /\ Distinct(freeIndices')
        /\ ToSet(freeIndices') = ToSet(freeIndices) \ {freeIndices[k] : k \in 1..r}
    <3>1. r \in 0..Len(freeIndices) /\ freeIndices' = FreeAfter(r)
      BY <1>1, <1>5, <1>12 DEF r, m
    <3> QED BY <3>1, <1>2, <1>7, FreeAfterFacts
  <2>2. ASSUME NEW i \in 1..size
        PROVE  slots'[i] = Null <=> i \in ToSet(freeIndices) /\ \A k \in 1..r : freeIndices[k] # i
    <3>1. CASE Taken(i)
      <4>1. PICK k \in DOMAIN q : IdOf(k) = i
        BY <3>1
      <4>2. slots'[i] # Null
        BY <4>1, <1>4, <1>17, HostFacts
      <4>3. k \in 1..r => freeIndices[k] = i
        BY <4>1, <1>12, <1>6, <1>11
      <4>4. k \notin 1..r => i \notin ToSet(freeIndices)
        BY <4>1, <1>3, <1>7, <1>14
      <4> QED BY <4>2, <4>3, <4>4
    <3>2. CASE ~Taken(i)
      <4>1. slots'[i] = slots[i] /\ i \in DOMAIN slots
        BY <3>2, <1>18
      <4>2. \A k \in 1..r : freeIndices[k] # i
        <5>1. \A k \in 1..r : k \in DOMAIN q /\ IdOf(k) = freeIndices[k]
          BY <1>11, <1>13
        <5> QED BY <5>1, <3>2
      <4> QED BY <4>1, <4>2, <1>7
    <3> QED BY <3>1, <3>2
  <2>3. \A i \in ToSet(freeIndices) : i \in 1..size
    BY <1>3, <1>7, <1>12
  <2>4. ToSet(freeIndices') = {i \in DOMAIN slots' : slots'[i] = Null}
    BY <2>1, <2>2, <2>3, <1>16
  <2> QED BY <2>1, <2>4 DEF FreeListOf, Distinct
<1>26. TableType'
  BY <1>1, <1>23, <1>24, <1>25, EmptyList DEF TableType
<1>27. \A o \in Object \ created : idInScene'[o] = 0
  <2>1. \A o \in Object \ created : o \notin ToSet(q) /\ idInScene[o] = 0
    BY <1>4 DEF Live, QueueInv
  <2> QED BY <2>1, <1>19
<1>28. ToSet(slots') \ {Null} = Live
  BY <1>9, <1>16, <1>20, <1>21 DEF ToSet
<1> QED BY <1>1, <1>16, <1>20, <1>21, <1>25, <1>26, <1>27, <1>28

-----------------------------------------------------------------------------
(* What the actions leave alone *)

LEMMA Keeps ==
  /\ \A o \in Object :
       /\ InstanceGameObject(o) => UNCHANGED <<parts, flags, graves, updater, control>>
       /\ SetObjectEnabled(o) =>
            UNCHANGED <<tree, parts, table, graves, roots, updater, control>>
       /\ MoveToRoot(o) => UNCHANGED <<parts, flags, marks, table, graves, updater, control>>
       /\ Destroy(o) => UNCHANGED <<parts, flags, updater, control>>
       /\ \A p \in Object :
            MoveToTree(o, p) => UNCHANGED <<parts, flags, table, graves, updater, control>>
  /\ \A h \in Host, c \in Component :
       /\ AddComponent(h, c) =>
            UNCHANGED <<tree, flags, table, graves, roots, updater, control>>
       /\ RemoveComponent(h, c) => UNCHANGED <<tree, flags, table, roots, control>>
  /\ \A c \in Component : SetComponentEnabled(c) =>
       UNCHANGED <<tree, parts, table, graves, roots, updater, control>>
  /\ PrepareBegin => UNCHANGED <<tree, flags>>
  /\ PrepareOnDestroy => UNCHANGED <<tree, flags, marks, table, roots, updater, ghosts>>
  /\ PrepareEnd => UNCHANGED <<parts, flags, marks, table, updater>>
  /\ BuildBegin => UNCHANGED <<tree, parts, flags, table, graves, updater, ghosts>>
  /\ Visit => UNCHANGED <<tree, parts, table, graves, roots, updater, ghosts>>
  /\ CallComponent => UNCHANGED <<tree, table, graves, roots>>
  /\ LeaveComponents =>
       UNCHANGED <<tree, parts, flags, table, graves, roots, updater, ghosts>>
  /\ BuildEnd \/ Update \/ UpdateEnd =>
       UNCHANGED <<tree, parts, flags, marks, table, graves, roots, updater, ghosts>>
  /\ SceneDestroyObject => UNCHANGED <<parts, flags, updater, control>>
  /\ SceneDestroy => UNCHANGED <<tree, flags, table>>
<1> USE DEF tree, parts, flags, marks, table, graves, roots, updater, control, ghosts
<1>1. ASSUME NEW o \in Object
      PROVE  /\ InstanceGameObject(o) => UNCHANGED <<parts, flags, graves, updater, control>>
             /\ SetObjectEnabled(o) =>
                  UNCHANGED <<tree, parts, table, graves, roots, updater, control>>
             /\ MoveToRoot(o) =>
                  UNCHANGED <<parts, flags, marks, table, graves, updater, control>>
             /\ Destroy(o) => UNCHANGED <<parts, flags, updater, control>>
  BY DEF InstanceGameObject, SetObjectEnabled, MoveToRoot, Destroy
<1>2. \A o, p \in Object :
        MoveToTree(o, p) => UNCHANGED <<parts, flags, table, graves, updater, control>>
  BY DEF MoveToTree
<1>3. \A h \in Host, c \in Component :
        /\ AddComponent(h, c) =>
             UNCHANGED <<tree, flags, table, graves, roots, updater, control>>
        /\ RemoveComponent(h, c) => UNCHANGED <<tree, flags, table, roots, control>>
  BY DEF AddComponent, RemoveComponent
<1>4. \A c \in Component : SetComponentEnabled(c) =>
        UNCHANGED <<tree, parts, table, graves, roots, updater, control>>
  BY DEF SetComponentEnabled
<1>5. PrepareBegin => UNCHANGED <<tree, flags>>
  BY DEF PrepareBegin
<1>6. PrepareOnDestroy => UNCHANGED <<tree, flags, marks, table, roots, updater, ghosts>>
  BY DEF PrepareOnDestroy
<1>7. PrepareEnd => UNCHANGED <<parts, flags, marks, table, updater>>
  BY DEF PrepareEnd
<1>8. BuildBegin => UNCHANGED <<tree, parts, flags, table, graves, updater, ghosts>>
  BY DEF BuildBegin
<1>9. Visit => UNCHANGED <<tree, parts, table, graves, roots, updater, ghosts>>
  BY DEF Visit
<1>10. CallComponent => UNCHANGED <<tree, table, graves, roots>>
  BY DEF CallComponent
<1>11. LeaveComponents =>
         UNCHANGED <<tree, parts, flags, table, graves, roots, updater, ghosts>>
  BY DEF LeaveComponents
<1>12. BuildEnd \/ Update \/ UpdateEnd =>
         UNCHANGED <<tree, parts, flags, marks, table, graves, roots, updater, ghosts>>
  BY DEF BuildEnd, Update, UpdateEnd
<1>13. SceneDestroyObject => UNCHANGED <<parts, flags, updater, control>>
  BY DEF SceneDestroyObject
<1>14. SceneDestroy => UNCHANGED <<tree, flags, table>>
  BY DEF SceneDestroy
<1> QED BY <1>1, <1>2, <1>3, <1>4, <1>5, <1>6, <1>7, <1>8, <1>9, <1>10, <1>11, <1>12,
           <1>13, <1>14, Zenon

\* What can happen to an object: nothing runs once an assertion has failed.
LEMMA Running ==
  ASSUME Next
  PROVE  halts = {}
BY DEF Next, Application, Frame, MayCall, InstanceGameObject, SetObjectEnabled, MoveToRoot,
  Destroy, MoveToTree, AddComponent, RemoveComponent, SetComponentEnabled, PrepareBegin,
  PrepareOnDestroy, PrepareEnd, BuildBegin, Visit, CallComponent, LeaveComponents, BuildEnd,
  Update, UpdateEnd, SceneDestroyObject, SceneDestroy

\* What is usable lives.
LEMMA UsableFacts ==
  \A o \in Object : Usable(o) <=> o \in Live
BY HostFacts DEF Usable, Live

\* The object that Scene::Destroy destroys next.
LEMMA SceneDestroyObjectFacts ==
  ASSUME TypeOK, SceneInv, SceneDestroyObject
  PROVE  \E o \in Live :
           /\ Bury(o)
           /\ \/ root # <<>> /\ o = Head(root) /\ root' = Tail(root)
              \/ root = <<>> /\ newQueue # <<>> /\ o = Head(newQueue) /\ root' = root
<1>1. /\ pc = "prepare" /\ (root # <<>> \/ newQueue # <<>>)
      /\ Bury(IF root # <<>> THEN Head(root) ELSE Head(newQueue))
      /\ root' = IF root # <<>> THEN Tail(root) ELSE root
  BY DEF SceneDestroyObject
<1>2. newQueue \in Seq(Object) /\ root \in Seq(Object)
  BY TypeGroups DEF TableType, RootsType
<1>3. ToSet(root) \subseteq Live /\ ToSet(newQueue) \subseteq Live
  BY <1>1 DEF SceneInv, RootInv, QueueInv
<1>4. CASE root # <<>>
  <2>1. Head(root) \in Live
    BY <1>2, <1>3, <1>4, TailFacts
  <2> QED BY <1>1, <1>4, <2>1
<1>5. CASE root = <<>>
  <2>1. Head(newQueue) \in Live
    BY <1>1, <1>2, <1>3, <1>5, TailFacts
  <2> QED BY <1>1, <1>5, <2>1
<1> QED BY <1>4, <1>5

-----------------------------------------------------------------------------
(* The tree is preserved *)

LEMMA TreeStep ==
  ASSUME TypeOK, SceneInv, Next
  PROVE  TreeType' /\ TreeInv'
<1> DEFINE par == ParentsIn(children)
<1>1. /\ TreeType /\ TreeInv /\ TableType /\ GravesType /\ QueueInv /\ SlotInv
      /\ par \in Pointers /\ Rooted(par)
  BY TypeGroups, TreeFacts DEF SceneInv
<1>2. /\ freed \subseteq destroyed /\ destroyed \subseteq created /\ created \subseteq Object
      /\ children \in Kids
      /\ Disjoint(children)
      /\ \A p \in Object : ToSet(children[p]) \subseteq Live
      /\ \A p \in Object : children[p] # <<>> => p \in Live
  BY <1>1 DEF TreeType, TreeInv
<1> HIDE DEF par
<1>3. ASSUME children' \in Kids, Disjoint(children'), Rooted(ParentsIn(children')),
             \A p \in Object : ToSet(children'[p]) \subseteq Live',
             \A p \in Object : ToSet(children'[p]) # {} => p \in Live',
             freed' \subseteq destroyed', destroyed' \subseteq created', created' \subseteq Object
      PROVE  TreeType' /\ TreeInv'
  <2>1. \A p \in Object : children'[p] # <<>> => ToSet(children'[p]) # {}
    BY <1>3, ListFacts DEF Kids
  <2> QED BY <1>3, <2>1 DEF TreeType, TreeInv
<1>4. \A p \in Object : ToSet(children[p]) # {} => p \in Live
  BY <1>2, EmptyList
<1>5. ASSUME NEW o \in Live, Bury(o), UNCHANGED <<created, freed>> PROVE TreeType' /\ TreeInv'
  <2>1. /\ children' \in Kids /\ Disjoint(children')
        /\ destroyed' = destroyed \cup Below(o) /\ Below(o) \subseteq Live
        /\ \A x \in Below(o), p \in Object : x \in ToSet(children[p]) => x = o \/ p \in Below(o)
        /\ \A p \in Object : ToSet(children'[p]) =
              IF p \in Below(o) THEN {} ELSE ToSet(children[p]) \ {o}
        /\ ParentsIn(children') = [x \in Host |-> IF o \in Up(x) THEN Null ELSE Parent(x)]
    BY <1>1, <1>5, BuryFacts
  <2>2. Live' = Live \ Below(o)
    BY <1>5, <2>1 DEF Live
  <2>3. o \in Host
    BY <1>2, HostFacts DEF Live
  <2>4. Rooted(ParentsIn(children'))
    <3>1. /\ \A x \in Host : Parent(x) = par[x]
          /\ \A x : Up(x) = Chain(par, x)
      BY <1>1, TreeFacts, UpIsChain DEF par
    <3>2. ParentsIn(children') = [x \in Host |-> IF o \in Chain(par, x) THEN Null ELSE par[x]]
      BY <2>1, <3>1
    <3> QED BY <1>1, <2>3, <3>2, ChainBury
  <2>5. ASSUME NEW p \in Object
        PROVE  ToSet(children'[p]) \subseteq Live' /\ (ToSet(children'[p]) # {} => p \in Live')
    <3>1. p \notin Below(o) => ToSet(children[p]) \ {o} \subseteq Live \ Below(o)
      BY <1>2, <2>1
    <3> QED BY <3>1, <1>4, <2>1, <2>2
  <2>6. freed' \subseteq destroyed' /\ destroyed' \subseteq created' /\ created' \subseteq Object
    BY <1>2, <1>5, <2>1 DEF Live
  <2> QED BY <1>3, <2>1, <2>4, <2>5, <2>6
<1>6. ASSUME NEW o \in Object, InstanceGameObject(o) PROVE TreeType' /\ TreeInv'
  <2>1. UNCHANGED <<destroyed, freed, children>> /\ created' = created \cup {o}
    BY <1>6 DEF InstanceGameObject
  <2>2. Live \subseteq Live'
    BY <2>1 DEF Live
  <2> QED BY <1>1, <1>2, <1>3, <1>4, <2>1, <2>2 DEF par
<1>7. ASSUME NEW o \in Object, MoveToRoot(o) PROVE TreeType' /\ TreeInv'
  <2>1. /\ children' \in Kids /\ Disjoint(children')
        /\ ParentsIn(children') = [par EXCEPT ![o] = Null]
        /\ \A p \in Object : ToSet(children'[p]) = ToSet(children[p]) \ {o}
    BY <1>1, <1>7, MoveToRootFacts DEF par
  <2>2. UNCHANGED <<created, destroyed, freed>> /\ Live' = Live
    BY <1>7 DEF MoveToRoot, Live
  <2>3. Rooted(ParentsIn(children'))
    <3>1. o \in Host
      BY HostFacts
    <3> QED BY <1>1, <2>1, <3>1, ChainMove
  <2>4. \A p \in Object : ToSet(children'[p]) \subseteq Live' /\ (ToSet(children'[p]) # {} => p \in Live')
    BY <1>2, <1>4, <2>1, <2>2
  <2> QED BY <1>2, <1>3, <2>1, <2>2, <2>3, <2>4
<1>8. ASSUME NEW o \in Object, NEW p \in Object, MoveToTree(o, p) PROVE TreeType' /\ TreeInv'
  <2>1. /\ children' \in Kids /\ Disjoint(children')
        /\ ParentsIn(children') = [par EXCEPT ![o] = p]
        /\ o \in Live /\ p \in Live /\ o \notin Up(p)
        /\ \A q \in Object : ToSet(children'[q]) =
              IF q = p THEN ToSet(children[q]) \cup {o} ELSE ToSet(children[q]) \ {o}
    BY <1>1, <1>8, MoveToTreeFacts DEF par
  <2>2. UNCHANGED <<created, destroyed, freed>> /\ Live' = Live
    BY <1>8 DEF MoveToTree, Live
  <2>3. Rooted(ParentsIn(children'))
    <3>1. o \in Host /\ p \in Object /\ o \notin Chain(par, p)
      BY <2>1, HostFacts, UpIsChain DEF par
    <3> QED BY <1>1, <2>1, <3>1, ChainMove
  <2>4. ASSUME NEW q \in Object
        PROVE  ToSet(children'[q]) \subseteq Live' /\ (ToSet(children'[q]) # {} => q \in Live')
    <3>1. ToSet(children[q]) \subseteq Live /\ (ToSet(children[q]) # {} => q \in Live)
      BY <1>2, <1>4
    <3> QED BY <3>1, <2>1, <2>2
  <2> QED BY <1>2, <1>3, <2>1, <2>2, <2>3, <2>4
<1>9. ASSUME NEW o \in Object, Destroy(o) PROVE TreeType' /\ TreeInv'
  BY <1>5, <1>9, UsableFacts DEF Destroy
<1>10. ASSUME SceneDestroyObject PROVE TreeType' /\ TreeInv'
  <2>1. UNCHANGED <<created, freed>>
    BY <1>10 DEF SceneDestroyObject
  <2> QED BY <1>5, <1>10, <2>1, SceneDestroyObjectFacts
<1>11. ASSUME PrepareEnd PROVE TreeType' /\ TreeInv'
  <2>1. UNCHANGED <<created, destroyed, children>> /\ freed' = freed \cup ToSet(deleteQueue)
    BY <1>11 DEF PrepareEnd
  <2>2. ToSet(deleteQueue) \subseteq destroyed /\ Live' = Live
    BY <1>1, <2>1 DEF QueueInv, Live
  <2> QED BY <1>1, <1>2, <1>3, <1>4, <2>1, <2>2 DEF par
<1>12. ASSUME UNCHANGED tree PROVE TreeType' /\ TreeInv'
  <2>1. UNCHANGED <<created, destroyed, freed, children>> /\ Live' = Live
    BY <1>12 DEF tree, Live
  <2> QED BY <1>1, <1>2, <1>3, <1>4, <2>1 DEF par
<1> QED BY <1>6, <1>7, <1>8, <1>9, <1>10, <1>11, <1>12, Keeps, Zenon DEF Next, Application, Frame

-----------------------------------------------------------------------------
(* The queues and the table of objects are preserved *)

LEMMA TableStep ==
  ASSUME TypeOK, SceneInv, Next
  PROVE  TableType' /\ QueueInv' /\ SlotInv' /\ deleteQueue' \in Seq(Object)
<1>1. /\ TreeType /\ TreeInv /\ TableType /\ GravesType /\ QueueInv /\ SlotInv
  BY TypeGroups DEF SceneInv
<1>2. /\ freed \subseteq destroyed /\ destroyed \subseteq created /\ created \subseteq Object
      /\ slots \in Seq(Object \cup {Null}) /\ freeIndices \in Seq(Nat)
      /\ newQueue \in Seq(Object) /\ idInScene \in [Object -> Nat]
      /\ deleteQueue \in Seq(Object)
  BY <1>1 DEF TreeType, TableType, GravesType
<1>3. /\ Distinct(newQueue) /\ ToSet(newQueue) \subseteq Live
      /\ \A o \in Object : o \notin created \/ o \in ToSet(newQueue) => idInScene[o] = 0
      /\ Distinct(deleteQueue) /\ ToSet(deleteQueue) = destroyed \ freed
  BY <1>1 DEF QueueInv
<1>4. /\ FreeListOf(freeIndices, slots)
      /\ \A i \in DOMAIN slots : slots[i] # Null =>
           slots[i] \in Live \ ToSet(newQueue) /\ idInScene[slots[i]] = i
      /\ \A o \in Live \ ToSet(newQueue) : idInScene[o] \in DOMAIN slots /\ slots[idInScene[o]] = o
  BY <1>1 DEF SlotInv
<1>5. \A o \in Live : o \in Object /\ o # Null
  BY <1>2, HostFacts DEF Live
<1>6. ASSUME NEW o \in Live, Bury(o), UNCHANGED <<created, freed, idInScene>>
      PROVE  TableType' /\ QueueInv' /\ SlotInv' /\ deleteQueue' \in Seq(Object)
  <2>1. /\ destroyed' = destroyed \cup Below(o) /\ Below(o) \subseteq Live
        /\ deleteQueue' \in Seq(Object) /\ Distinct(deleteQueue')
        /\ ToSet(deleteQueue') = ToSet(deleteQueue) \cup Below(o)
        /\ newQueue' \in Seq(Object) /\ Distinct(newQueue')
        /\ ToSet(newQueue') = ToSet(newQueue) \ Below(o)
        /\ slots' \in Seq(Object \cup {Null}) /\ DOMAIN slots' = DOMAIN slots
        /\ \A i \in DOMAIN slots : slots'[i] = IF slots[i] \in Below(o) THEN Null ELSE slots[i]
        /\ freeIndices' \in Seq(Nat) /\ FreeListOf(freeIndices', slots')
    BY <1>1, <1>6, BuryFacts
  <2>2. Live' = Live \ Below(o)
    BY <1>6, <2>1 DEF Live
  <2>3. TableType'
    BY <1>2, <1>6, <2>1 DEF TableType
  <2>4. QueueInv'
    <3>1. destroyed' \ freed' = (destroyed \ freed) \cup Below(o)
      BY <1>2, <1>6, <2>1 DEF Live
    <3>2. \A x \in Object : x \notin created' \/ x \in ToSet(newQueue') => idInScene'[x] = 0
      BY <1>3, <1>6, <2>1
    <3>3. ToSet(newQueue') \subseteq Live'
      BY <1>3, <2>1, <2>2
    <3> QED BY <1>3, <2>1, <3>1, <3>2, <3>3 DEF QueueInv
  <2>5. \A i \in DOMAIN slots : slots'[i] # Null =>
          slots'[i] \in Live' \ ToSet(newQueue') /\ idInScene'[slots'[i]] = i
    <3> SUFFICES ASSUME NEW i \in DOMAIN slots, slots'[i] # Null
                 PROVE  slots'[i] \in Live' \ ToSet(newQueue') /\ idInScene'[slots'[i]] = i
      OBVIOUS
    <3>1. slots'[i] = slots[i] /\ slots[i] \notin Below(o) /\ slots[i] # Null
      BY <2>1
    <3> QED BY <3>1, <1>4, <1>6, <2>1, <2>2
  <2>6. \A x \in Live' \ ToSet(newQueue') :
          idInScene'[x] \in DOMAIN slots' /\ slots'[idInScene'[x]] = x
    <3> SUFFICES ASSUME NEW x \in Live' \ ToSet(newQueue')
                 PROVE  idInScene[x] \in DOMAIN slots' /\ slots'[idInScene[x]] = x
      BY <1>6
    <3>1. x \in Live \ ToSet(newQueue) /\ x \notin Below(o)
      BY <2>1, <2>2
    <3>2. idInScene[x] \in DOMAIN slots /\ slots[idInScene[x]] = x
      BY <3>1, <1>4
    <3> QED BY <3>1, <3>2, <2>1
  <2> QED BY <2>1, <2>3, <2>4, <2>5, <2>6 DEF SlotInv
<1>7. ASSUME NEW o \in Object, InstanceGameObject(o)
      PROVE  TableType' /\ QueueInv' /\ SlotInv' /\ deleteQueue' \in Seq(Object)
  <2>1. /\ o \notin created /\ created' = created \cup {o} /\ newQueue' = Append(newQueue, o)
        /\ UNCHANGED <<destroyed, freed, slots, freeIndices, idInScene, deleteQueue>>
    BY <1>7 DEF InstanceGameObject, graves
  <2>2. Live' = Live \cup {o} /\ o \notin Live
    BY <1>2, <2>1 DEF Live
  <2>3. /\ newQueue' \in Seq(Object) /\ Distinct(newQueue')
        /\ ToSet(newQueue') = ToSet(newQueue) \cup {o}
    BY <1>2, <1>3, <2>1, <2>2, AppendFacts
  <2>4. TableType'
    BY <1>2, <2>1, <2>3 DEF TableType
  <2>5. QueueInv'
    <3>1. \A x \in Object : x \notin created' \/ x \in ToSet(newQueue') => idInScene'[x] = 0
      BY <1>3, <2>1, <2>3
    <3> QED BY <1>3, <2>1, <2>2, <2>3, <3>1 DEF QueueInv
  <2>6. SlotInv'
    <3>1. Live' \ ToSet(newQueue') = Live \ ToSet(newQueue)
      BY <2>2, <2>3
    <3> QED BY <1>4, <2>1, <3>1 DEF SlotInv
  <2> QED BY <1>2, <2>1, <2>4, <2>5, <2>6
<1>8. ASSUME NEW o \in Object, Destroy(o)
      PROVE  TableType' /\ QueueInv' /\ SlotInv' /\ deleteQueue' \in Seq(Object)
  <2>1. UNCHANGED <<created, freed, idInScene>> /\ o \in Live /\ Bury(o)
    BY <1>8, UsableFacts DEF Destroy
  <2> QED BY <1>6, <2>1
<1>9. ASSUME SceneDestroyObject
      PROVE  TableType' /\ QueueInv' /\ SlotInv' /\ deleteQueue' \in Seq(Object)
  <2>1. UNCHANGED <<created, freed, idInScene>>
    BY <1>9 DEF SceneDestroyObject
  <2> QED BY <1>6, <1>9, <2>1, SceneDestroyObjectFacts
<1>10. ASSUME PrepareBegin
       PROVE  TableType' /\ QueueInv' /\ SlotInv' /\ deleteQueue' \in Seq(Object)
  <2>1. UNCHANGED <<created, destroyed, freed, deleteQueue>> /\ Live' = Live
    BY <1>10 DEF PrepareBegin, tree, Live
  <2>2. /\ TableType' /\ newQueue' = <<>>
        /\ FreeListOf(freeIndices', slots')
        /\ \A i \in DOMAIN slots' : slots'[i] # Null =>
             slots'[i] \in Live /\ idInScene'[slots'[i]] = i
        /\ \A o \in Live : idInScene'[o] \in DOMAIN slots' /\ slots'[idInScene'[o]] = o
        /\ \A o \in Object \ created : idInScene'[o] = 0
    BY <1>1, <1>10, PrepareTable
  <2>3. ToSet(newQueue') = {} /\ Distinct(newQueue')
    BY <2>2, EmptyList
  <2>4. QueueInv'
    BY <1>3, <2>1, <2>2, <2>3 DEF QueueInv
  <2>5. SlotInv'
    BY <2>1, <2>2, <2>3 DEF SlotInv
  <2> QED BY <1>2, <2>1, <2>2, <2>4, <2>5
<1>11. ASSUME PrepareEnd
       PROVE  TableType' /\ QueueInv' /\ SlotInv' /\ deleteQueue' \in Seq(Object)
  <2>1. UNCHANGED <<created, destroyed, slots, freeIndices, newQueue, idInScene>>
        /\ freed' = freed \cup ToSet(deleteQueue) /\ deleteQueue' = <<>> /\ Live' = Live
    BY <1>11 DEF PrepareEnd, table, Live
  <2>2. ToSet(deleteQueue') = destroyed' \ freed' /\ Distinct(deleteQueue')
    BY <1>3, <2>1, EmptyList
  <2> QED BY <1>2, <1>3, <1>4, <2>1, <2>2 DEF TableType, QueueInv, SlotInv
<1>12. ASSUME UNCHANGED <<tree, table, deleteQueue>>
       PROVE  TableType' /\ QueueInv' /\ SlotInv' /\ deleteQueue' \in Seq(Object)
  <2>1. UNCHANGED <<created, destroyed, freed, slots, freeIndices, newQueue, idInScene,
                    deleteQueue>> /\ Live' = Live
    BY <1>12 DEF tree, table, Live
  <2> QED BY <1>2, <1>3, <1>4, <2>1 DEF TableType, QueueInv, SlotInv
<1>13. \A o \in Object, p \in Object : MoveToRoot(o) \/ MoveToTree(o, p) =>
         TableType' /\ QueueInv' /\ SlotInv' /\ deleteQueue' \in Seq(Object)
  <2> SUFFICES ASSUME NEW o \in Object, NEW p \in Object, MoveToRoot(o) \/ MoveToTree(o, p)
               PROVE  TableType' /\ QueueInv' /\ SlotInv' /\ deleteQueue' \in Seq(Object)
    OBVIOUS
  <2>1. UNCHANGED <<created, destroyed, freed, slots, freeIndices, newQueue, idInScene,
                    deleteQueue>> /\ Live' = Live
    BY DEF MoveToRoot, MoveToTree, table, graves, Live
  <2> QED BY <1>2, <1>3, <1>4, <2>1 DEF TableType, QueueInv, SlotInv
<1>14. \/ \E o \in Object : InstanceGameObject(o) \/ Destroy(o) \/ MoveToRoot(o)
                            \/ \E p \in Object : MoveToTree(o, p)
       \/ SceneDestroyObject \/ PrepareBegin \/ PrepareEnd
       \/ UNCHANGED <<tree, table, deleteQueue>>
  <2>1. \A h \in Host, c \in Component : RemoveComponent(h, c) =>
          UNCHANGED <<tree, table, deleteQueue>>
    BY Keeps DEF RemoveComponent
  <2>2. PrepareOnDestroy \/ SceneDestroy => UNCHANGED <<tree, table, deleteQueue>>
    BY Keeps DEF PrepareOnDestroy, SceneDestroy
  <2>3. UNCHANGED graves => UNCHANGED deleteQueue
    BY DEF graves
  <2>4. \A o \in Object : SetObjectEnabled(o) => UNCHANGED <<tree, table, deleteQueue>>
    BY Keeps, <2>3
  <2>5. \A h \in Host, c \in Component : AddComponent(h, c) \/ SetComponentEnabled(c) =>
          UNCHANGED <<tree, table, deleteQueue>>
    BY Keeps, <2>3
  <2>6. BuildBegin \/ Visit \/ CallComponent \/ LeaveComponents \/ BuildEnd \/ Update \/ UpdateEnd =>
          UNCHANGED <<tree, table, deleteQueue>>
    BY Keeps, <2>3
  <2>7. Host # {}
    BY HostFacts
  <2> QED BY <2>1, <2>2, <2>4, <2>5, <2>6, <2>7, Zenon DEF Next, Application, Frame
<1> QED BY <1>7, <1>8, <1>9, <1>10, <1>11, <1>12, <1>13, <1>14, Zenon

-----------------------------------------------------------------------------
(* The components and the pool are preserved *)

LEMMA CompFacts ==
  ASSUME PartsType, CompInv
  PROVE  /\ \A h \in Host : /\ comps[h] \in Seq(Component) /\ Distinct(comps[h])
                            /\ ToSet(comps[h]) \subseteq Component
                            /\ \A c : Contains(comps[h], c) <=> c \in ToSet(comps[h])
         /\ \A h \in Host : \A c \in ToSet(comps[h]) : host[c] = h /\ c \in added
         /\ \A o \in Object : ToSet(comps[o]) # {} => o \in created \ freed
<1>1. \A h \in Host : comps[h] \in Seq(Component)
  BY DEF PartsType
<1>2. \A h \in Host : Distinct(comps[h])
  BY DEF CompInv, PartsType, Disjoint, Distinct
<1>3. \A o \in Object : ToSet(comps[o]) # {} => o \in created \ freed
  BY EmptyList DEF CompInv
<1> QED BY <1>1, <1>2, <1>3, ListFacts DEF CompInv

LEMMA CompIntro ==
  ASSUME comps' \in [Host -> Seq(Component)], \A h \in Host : Distinct(comps'[h]),
         \A h \in Host : \A c \in ToSet(comps'[h]) : host'[c] = h /\ c \in added',
         \A o \in Object : ToSet(comps'[o]) # {} => o \in created' \ freed',
         \A c \in ToSet(deadComps') :
           c \in added' \ attached' /\ \A h \in Host : c \notin ToSet(comps'[h])
  PROVE  CompInv'
<1>1. Disjoint(comps')
  <2>1. DOMAIN comps' = Host
    OBVIOUS
  <2>2. \A g, h \in Host : g # h => ToSet(comps'[g]) \cap ToSet(comps'[h]) = {}
    OBVIOUS
  <2> QED BY <2>1, <2>2, DisjointLists
<1>2. \A o \in Object : comps'[o] # <<>> => ToSet(comps'[o]) # {}
  <2>1. \A o \in Object : comps'[o] \in Seq(Component)
    BY HostFacts
  <2> QED BY <2>1, ListFacts
<1> QED BY <1>1, <1>2 DEF CompInv

\* Components that are destroyed while their hosts let go of them.
LEMMA CompsGo ==
  ASSUME PartsType, CompInv, UpdaterType, PoolInv, GravesType,
         NEW cs \in Seq(Component), Distinct(cs), DestroyComponent(cs),
         ToSet(cs) \subseteq UNION {ToSet(comps[h]) : h \in Host},
         comps' \in [Host -> Seq(Component)],
         \A h \in Host : Distinct(comps'[h]) /\ ToSet(comps'[h]) = ToSet(comps[h]) \ ToSet(cs),
         UNCHANGED <<host, added, awake, started, active, created, freed>>
  PROVE  /\ PartsType' /\ deadComps' \in Seq(Component) /\ UpdaterType' /\ CompInv' /\ PoolInv'
         /\ halts' = halts
<1>1. /\ UpdaterType' /\ PoolTable' /\ halts' = halts
      /\ InPool' = InPool \ (ToSet(cs) \cap attached)
      /\ attached' = attached \ ToSet(cs)
      /\ deadComps' \in Seq(Component) /\ ToSet(deadComps') = ToSet(deadComps) \cup ToSet(cs)
  BY DestroyFacts DEF PoolInv
<1>2. PartsType'
  BY <1>1 DEF PartsType
<1>3. \A h \in Host : \A c \in ToSet(comps[h]) : host[c] = h /\ c \in added
  BY CompFacts
<1>4. CompInv'
  <2>1. \A h \in Host : \A c \in ToSet(comps'[h]) : host'[c] = h /\ c \in added'
    BY <1>3
  <2>2. \A o \in Object : ToSet(comps'[o]) # {} => o \in created' \ freed'
    BY CompFacts, HostFacts
  <2>3. ASSUME NEW c \in ToSet(deadComps')
        PROVE  c \in added' \ attached' /\ \A h \in Host : c \notin ToSet(comps'[h])
    <3>1. CASE c \in ToSet(cs)
      BY <3>1, <1>1, <1>3
    <3>2. CASE c \in ToSet(deadComps)
      BY <3>2, <1>1 DEF CompInv
    <3> QED BY <3>1, <3>2, <1>1
  <2> QED BY <2>1, <2>2, <2>3, CompIntro
<1>5. PoolInv'
  <2>1. ASSUME NEW c \in InPool'
        PROVE  c \in active' \cap attached' /\ host'[c] \in Host /\ c \in ToSet(comps'[host'[c]])
    <3>1. /\ c \in InPool /\ c \in active \cap attached /\ c \notin ToSet(cs)
          /\ host[c] \in Host /\ c \in ToSet(comps[host[c]])
      BY <1>1 DEF PoolInv
    <3> QED BY <3>1, <1>1
  <2> QED BY <1>1, <2>1 DEF PoolInv
<1> QED BY <1>1, <1>2, <1>4, <1>5

\* The components of the objects that Prepare buries.
LEMMA PrepareComps ==
  ASSUME PartsType, CompInv, GravesType, PrepareBegin
  PROVE  \E gone \in Seq(Component) :
           /\ Distinct(gone) /\ DestroyComponent(gone)
           /\ ToSet(gone) = UNION {ToSet(comps[o]) : o \in ToSet(deleteQueue)}
<1> DEFINE Before(c, d) == \E i, j \in DOMAIN deleteQueue :
             LET on == comps[deleteQueue[i]]
             IN  IF i = j
                 THEN \E k, l \in DOMAIN on : k < l /\ on[k] = c /\ on[l] = d
                 ELSE i < j /\ Contains(on, c) /\ Contains(comps[deleteQueue[j]], d)
           condemned == UNION {ToSet(comps[o]) : o \in ToSet(deleteQueue)}
<1>1. PICK gone \in InOrder(condemned, Before) : DestroyComponent(gone)
  BY Zenon DEF PrepareBegin
<1>2. gone \in SetToSeqs(condemned)
  BY DEF InOrder
<1>3. condemned \subseteq Component /\ IsFiniteSet(condemned)
  <2>1. ToSet(deleteQueue) \subseteq Host
    BY ListFacts, HostFacts DEF GravesType
  <2>2. condemned \subseteq Component
    BY ZenonT(60), <2>1, CompFacts
  <2> QED BY <2>2, FS_Subset, PartsAssumption
<1> HIDE DEF condemned
<1>4. gone \in Seq(condemned) /\ Distinct(gone) /\ ToSet(gone) = condemned
  BY <1>2, <1>3, OrderFacts
<1>5. gone \in Seq(Component)
  BY <1>3, <1>4, SeqMonotonic
<1> QED BY <1>1, <1>4, <1>5 DEF condemned

\* A component of a host is called or checked.
LEMMA CheckFacts ==
  ASSUME UpdaterType, PoolInv, NEW c \in Component, CheckActivity(c), halts = {},
         UNCHANGED <<host, comps, attached>>,
         c \in attached, host[c] \in Host, c \in ToSet(comps[host[c]])
  PROVE  UpdaterType' /\ PoolInv' /\ halts' = {}
<1>1. /\ PoolTable
      /\ \A d \in InPool : /\ d \in active \cap attached
                           /\ host[d] \in Host /\ d \in ToSet(comps[host[d]])
  BY DEF PoolInv
<1>2. CASE active' = active /\ UNCHANGED <<updater, halts>>
  <2>1. UNCHANGED <<pool, freeIds, index, halts>>
    BY <1>2 DEF updater
  <2>2. InPool' = InPool
    BY <2>1 DEF InPool
  <2>3. UpdaterType' /\ PoolTable'
    BY <1>1, <2>1, <2>2 DEF UpdaterType, PoolTable
  <2> QED BY <1>1, <1>2, <2>1, <2>2, <2>3 DEF PoolInv
<1>3. CASE c \notin active /\ active' = active \cup {c} /\ RegisterComponent(c)
  <2>1. c \notin InPool
    BY <1>1, <1>3
  <2>2. UpdaterType' /\ PoolTable' /\ halts' = halts /\ InPool' = InPool \cup {c}
    BY <1>1, <1>3, <2>1, RegisterFacts
  <2> QED BY <1>1, <1>3, <2>2 DEF PoolInv
<1>4. CASE c \in InPool /\ active' = active \ {c} /\ UnRegister(<<c>>)
  <2>1. <<c>> \in Seq(Component) /\ Distinct(<<c>>) /\ ToSet(<<c>>) = {c}
    BY DEF Distinct, ToSet
  <2>2. UpdaterType' /\ PoolTable' /\ halts' = halts /\ InPool' = InPool \ {c}
    BY <1>1, <1>4, <2>1, UnRegisterFacts
  <2> QED BY <1>1, <1>4, <2>2 DEF PoolInv
<1>5. CASE c \notin InPool /\ active' = active \ {c} /\ UNCHANGED <<updater, halts>>
  <2>1. UNCHANGED <<pool, freeIds, index, halts>>
    BY <1>5 DEF updater
  <2>2. InPool' = InPool
    BY <2>1 DEF InPool
  <2>3. UpdaterType' /\ PoolTable'
    BY <1>1, <2>1, <2>2 DEF UpdaterType, PoolTable
  <2> QED BY <1>1, <1>5, <2>1, <2>2, <2>3 DEF PoolInv
<1> QED BY <1>2, <1>3, <1>4, <1>5 DEF CheckActivity

LEMMA PartsStep ==
  ASSUME TypeOK, SceneInv, Next
  PROVE  /\ PartsType' /\ deadComps' \in Seq(Component) /\ UpdaterType'
         /\ halts' = {} => CompInv'
         /\ PoolInv'
         /\ PrepareEnd \/ halts' = {}
<1> DEFINE Good == /\ PartsType' /\ deadComps' \in Seq(Component) /\ UpdaterType'
                   /\ halts' = {} => CompInv'
                   /\ PoolInv'
                   /\ PrepareEnd \/ halts' = {}
<1>1. /\ TreeType /\ PartsType /\ FlagsType /\ TableType /\ GravesType /\ UpdaterType /\ ControlType
      /\ TreeInv /\ QueueInv /\ SlotInv /\ CompInv /\ PoolInv
      /\ halts = {}
  BY TypeGroups, Running DEF SceneInv
<1>2. /\ freed \subseteq destroyed /\ created \subseteq Object
      /\ comps \in [Host -> Seq(Component)]
      /\ host \in [Component -> Host \cup {Null}]
      /\ attached \cup awake \cup started \subseteq added /\ added \subseteq Component
      /\ deadComps \in Seq(Component) /\ deleteQueue \in Seq(Object)
  BY <1>1 DEF TreeType, PartsType, GravesType
<1>3. /\ \A h \in Host : /\ comps[h] \in Seq(Component) /\ Distinct(comps[h])
                         /\ ToSet(comps[h]) \subseteq Component
                         /\ \A c : Contains(comps[h], c) <=> c \in ToSet(comps[h])
      /\ \A h \in Host : \A c \in ToSet(comps[h]) : host[c] = h /\ c \in added
      /\ \A o \in Object : ToSet(comps[o]) # {} => o \in created \ freed
      /\ \A c \in ToSet(deadComps) : c \in added \ attached /\ \A h \in Host : c \notin ToSet(comps[h])
  BY <1>1, CompFacts DEF CompInv
<1>4. /\ PoolTable
      /\ \A c \in InPool : /\ c \in active \cap attached
                           /\ host[c] \in Host /\ c \in ToSet(comps[host[c]])
  BY <1>1 DEF PoolInv
<1>5. ASSUME UNCHANGED updater, active \cap Component \subseteq active',
             \A c \in InPool : /\ c \in attached' /\ host'[c] = host[c]
                               /\ c \in ToSet(comps'[host[c]])
      PROVE  UpdaterType' /\ PoolInv'
  <2>1. UNCHANGED <<pool, freeIds, index>> /\ InPool' = InPool
    BY <1>5 DEF updater, InPool
  <2>2. UpdaterType' /\ PoolTable'
    BY <1>1, <1>4, <2>1 DEF UpdaterType, PoolTable
  <2>3. InPool \subseteq Component
    BY DEF InPool
  <2> QED BY <1>4, <1>5, <2>1, <2>2, <2>3 DEF PoolInv
<1>6. ASSUME UNCHANGED <<parts, deadComps, updater>>, active \cap Component \subseteq active',
             created \subseteq created', freed' = freed, halts' = {}
      PROVE  Good
  <2>1. UNCHANGED <<comps, host, added, attached, awake, started>>
    BY <1>6 DEF parts
  <2>2. UpdaterType' /\ PoolInv'
    BY <1>4, <1>5, <1>6, <2>1
  <2>3. PartsType'
    BY <1>1, <2>1 DEF PartsType
  <2>4. CompInv'
    BY <1>1, <1>6, <2>1 DEF CompInv
  <2> QED BY <1>2, <1>6, <2>2, <2>3, <2>4
<1>7. ASSUME NEW o \in Object,
             InstanceGameObject(o) \/ MoveToRoot(o) \/ SetObjectEnabled(o)
      PROVE  Good
  <2>1. UNCHANGED <<parts, deadComps, updater>>
    BY <1>7, Keeps DEF graves
  <2>2. active \cap Component \subseteq active' /\ created \subseteq created' /\ freed' = freed /\ halts' = {}
    BY <1>1, <1>7 DEF InstanceGameObject, MoveToRoot, SetObjectEnabled, flags, tree
  <2> HIDE DEF Good
  <2> QED BY <1>6, <2>1, <2>2
<1>8. ASSUME NEW o \in Object, NEW p \in Object, MoveToTree(o, p) PROVE Good
  <2>1. UNCHANGED <<parts, deadComps, updater>>
    BY <1>8, Keeps DEF graves
  <2>2. active \cap Component \subseteq active' /\ created \subseteq created' /\ freed' = freed /\ halts' = {}
    BY <1>1, <1>8 DEF MoveToTree, flags
  <2> HIDE DEF Good
  <2> QED BY <1>6, <2>1, <2>2
<1>9. ASSUME NEW o \in Live, Bury(o), UNCHANGED <<parts, deadComps, updater, active, created, freed>>
      PROVE  Good
  <2>1. halts' = {}
    BY <1>1, <1>9, BuryFacts
  <2> HIDE DEF Good
  <2> QED BY <1>6, <1>9, <2>1
<1>10. ASSUME NEW o \in Object, Destroy(o) PROVE Good
  <2>1. o \in Live /\ Bury(o) /\ UNCHANGED <<parts, deadComps, updater, active, created, freed>>
    BY <1>10, UsableFacts DEF Destroy, flags
  <2> HIDE DEF Good
  <2> QED BY <1>9, <2>1
<1>11. ASSUME SceneDestroyObject PROVE Good
  <2>1. UNCHANGED <<parts, deadComps, updater, active, created, freed>>
    BY <1>11 DEF SceneDestroyObject, flags
  <2> HIDE DEF Good
  <2> QED BY <1>1, <1>9, <1>11, <2>1, SceneDestroyObjectFacts
<1>12. ASSUME NEW c \in Component, SetComponentEnabled(c) PROVE Good
  <2>1. UNCHANGED <<parts, deadComps, updater, active, created, freed, halts>>
    BY <1>12 DEF SetComponentEnabled, graves, tree
  <2> HIDE DEF Good
  <2> QED BY <1>1, <1>6, <2>1
<1>13. ASSUME NEW h \in Host, NEW c \in Component, AddComponent(h, c) PROVE Good
  <2>1. /\ Usable(h) /\ c \notin added /\ added' = added \cup {c}
        /\ comps' = [comps EXCEPT ![h] = Append(@, c)]
        /\ host' = [host EXCEPT ![c] = h]
        /\ UNCHANGED <<created, freed, attached, awake, started, active, deadComps, updater, halts>>
    BY <1>13 DEF AddComponent, tree, flags, graves
  <2>2. h \in Object => h \in created \ freed
    BY <1>2, <2>1, HostFacts DEF Usable
  <2>3. \A g \in Host : c \notin ToSet(comps[g])
    BY <1>3, <2>1
  <2>4. /\ comps'[h] \in Seq(Component) /\ Distinct(comps'[h])
        /\ ToSet(comps'[h]) = ToSet(comps[h]) \cup {c}
        /\ \A g \in Host : g # h => comps'[g] = comps[g]
    <3>1. comps'[h] = Append(comps[h], c) /\ \A g \in Host : g # h => comps'[g] = comps[g]
      BY <1>2, <2>1
    <3> QED BY <3>1, <1>3, <2>3, AppendFacts
  <2>5. comps' \in [Host -> Seq(Component)] /\ host' \in [Component -> Host \cup {Null}]
        /\ host'[c] = h /\ \A d \in Component : d # c => host'[d] = host[d]
    BY <1>2, <2>1, <2>4
  <2>6. PartsType'
    BY <1>2, <2>1, <2>5 DEF PartsType
  <2>7. CompInv'
    <3>1. \A g \in Host : Distinct(comps'[g])
      BY <1>3, <2>4
    <3>2. \A g \in Host : \A d \in ToSet(comps'[g]) : host'[d] = g /\ d \in added'
      <4> SUFFICES ASSUME NEW g \in Host, NEW d \in ToSet(comps'[g])
                   PROVE  host'[d] = g /\ d \in added'
        OBVIOUS
      <4>1. CASE d = c
        BY <4>1, <2>1, <2>3, <2>4, <2>5
      <4>2. CASE d # c
        <5>1. d \in ToSet(comps[g]) /\ d \in Component
          BY <4>2, <1>3, <2>4
        <5> QED BY <4>2, <5>1, <1>3, <2>1, <2>5
      <4> QED BY <4>1, <4>2
    <3>3. \A o \in Object : ToSet(comps'[o]) # {} => o \in created' \ freed'
      BY ZenonT(60), <1>3, <2>1, <2>2, <2>4, HostFacts
    <3>4. \A d \in ToSet(deadComps') :
            d \in added' \ attached' /\ \A g \in Host : d \notin ToSet(comps'[g])
      BY <1>3, <2>1, <2>4
    <3> QED BY <2>5, <3>1, <3>2, <3>3, <3>4, CompIntro
  <2>8. UpdaterType' /\ PoolInv'
    <3>1. \A d \in InPool : d \in Component /\ d # c
      BY <1>2, <1>4, <2>1
    <3>2. \A d \in InPool : /\ d \in attached' /\ host'[d] = host[d]
                            /\ d \in ToSet(comps'[host[d]])
      BY <1>4, <2>1, <2>4, <2>5, <3>1
    <3> QED BY <1>5, <2>1, <3>2
  <2> QED BY <1>1, <1>2, <2>1, <2>6, <2>7, <2>8
<1>14. ASSUME NEW h \in Host, NEW c \in Component, RemoveComponent(h, c) PROVE Good
  <2>1. /\ Contains(comps[h], c)
        /\ comps' = [comps EXCEPT ![h] = Erase(@, c)]
        /\ DestroyComponent(<<c>>)
        /\ UNCHANGED <<host, added, awake, started, active, created, freed>>
    BY <1>14 DEF RemoveComponent, tree, flags
  <2>2. <<c>> \in Seq(Component) /\ Distinct(<<c>>) /\ ToSet(<<c>>) = {c}
    BY DEF Distinct, ToSet
  <2>3. c \in ToSet(comps[h])
    BY <1>3, <2>1
  <2>4. /\ comps'[h] = Erase(comps[h], c) /\ \A g \in Host : g # h => comps'[g] = comps[g]
        /\ comps'[h] \in Seq(Component) /\ Distinct(comps'[h])
        /\ ToSet(comps'[h]) = ToSet(comps[h]) \ {c}
    <3>1. comps'[h] = Erase(comps[h], c) /\ \A g \in Host : g # h => comps'[g] = comps[g]
      BY <1>2, <2>1
    <3> QED BY <3>1, <1>3, <2>3, EraseFacts
  <2>5. comps' \in [Host -> Seq(Component)]
    BY <1>2, <2>1, <2>4
  <2>6. \A g \in Host : Distinct(comps'[g]) /\ ToSet(comps'[g]) = ToSet(comps[g]) \ ToSet(<<c>>)
    <3> SUFFICES ASSUME NEW g \in Host, g # h PROVE c \notin ToSet(comps[g])
      BY <1>3, <2>2, <2>4
    <3> QED BY <1>3, <2>3
  <2>7. ToSet(<<c>>) \subseteq UNION {ToSet(comps[g]) : g \in Host}
    BY <2>2, <2>3
  <2> QED BY <1>1, <2>1, <2>2, <2>5, <2>6, <2>7, CompsGo
<1>15. ASSUME PrepareBegin PROVE Good
  <2>1. /\ comps' = [h \in Host |-> IF Contains(deleteQueue, h) THEN <<>> ELSE comps[h]]
        /\ UNCHANGED <<host, added, awake, started, active, created, freed>>
    BY <1>15 DEF PrepareBegin, tree, flags
  <2>2. PICK gone \in Seq(Component) :
          /\ Distinct(gone) /\ DestroyComponent(gone)
          /\ ToSet(gone) = UNION {ToSet(comps[o]) : o \in ToSet(deleteQueue)}
    BY <1>1, <1>15, PrepareComps
  <2>3. \A h : Contains(deleteQueue, h) <=> h \in ToSet(deleteQueue)
    BY <1>2, ListFacts
  <2>4. ToSet(deleteQueue) \subseteq Host
    BY <1>2, ListFacts, HostFacts
  <2>5. \A h \in Host : /\ comps'[h] \in Seq(Component) /\ Distinct(comps'[h])
                        /\ ToSet(comps'[h]) = ToSet(comps[h]) \ ToSet(gone)
    <3> SUFFICES ASSUME NEW h \in Host
                 PROVE  /\ comps'[h] \in Seq(Component) /\ Distinct(comps'[h])
                        /\ ToSet(comps'[h]) = ToSet(comps[h]) \ ToSet(gone)
      OBVIOUS
    <3>1. CASE h \in ToSet(deleteQueue)
      <4>1. comps'[h] = <<>> /\ ToSet(comps[h]) \subseteq ToSet(gone)
        BY <3>1, <2>1, <2>2, <2>3
      <4> QED BY <4>1, EmptyList
    <3>2. CASE h \notin ToSet(deleteQueue)
      <4>1. comps'[h] = comps[h]
        BY <3>2, <2>1, <2>3
      <4>2. ToSet(comps[h]) \cap ToSet(gone) = {}
        <5> SUFFICES ASSUME NEW d \in ToSet(comps[h]), NEW o \in ToSet(deleteQueue),
                            d \in ToSet(comps[o])
                     PROVE  FALSE
          BY <2>2
        <5>1. host[d] = h /\ host[d] = o
          BY <1>3, <2>4
        <5> QED BY <5>1, <3>2
      <4> QED BY <4>1, <4>2, <1>3
    <3> QED BY <3>1, <3>2
  <2>6. comps' \in [Host -> Seq(Component)]
    BY <2>1, <2>5
  <2>7. ToSet(gone) \subseteq UNION {ToSet(comps[g]) : g \in Host}
    BY <2>2, <2>4
  <2> QED BY <1>1, <2>1, <2>2, <2>5, <2>6, <2>7, CompsGo
<1>16. ASSUME SceneDestroy PROVE Good
  <2>1. /\ DestroyComponent(comps[Scene])
        /\ comps' = [comps EXCEPT ![Scene] = <<>>]
        /\ UNCHANGED <<host, added, awake, started, active, created, freed>>
    BY <1>16 DEF SceneDestroy, tree, flags
  <2>2. /\ comps[Scene] \in Seq(Component) /\ Distinct(comps[Scene])
        /\ ToSet(comps[Scene]) \subseteq UNION {ToSet(comps[g]) : g \in Host}
    BY <1>3, HostFacts
  <2>3. \A h \in Host : /\ comps'[h] \in Seq(Component) /\ Distinct(comps'[h])
                        /\ ToSet(comps'[h]) = ToSet(comps[h]) \ ToSet(comps[Scene])
    <3> SUFFICES ASSUME NEW h \in Host
                 PROVE  /\ comps'[h] \in Seq(Component) /\ Distinct(comps'[h])
                        /\ ToSet(comps'[h]) = ToSet(comps[h]) \ ToSet(comps[Scene])
      OBVIOUS
    <3>1. CASE h = Scene
      <4>1. comps'[h] = <<>>
        BY <3>1, <1>2, <2>1
      <4> QED BY <4>1, <3>1, EmptyList
    <3>2. CASE h # Scene
      <4>1. comps'[h] = comps[h]
        BY <3>2, <1>2, <2>1
      <4>2. ToSet(comps[h]) \cap ToSet(comps[Scene]) = {}
        BY <3>2, <1>3, HostFacts
      <4> QED BY <4>1, <4>2, <1>3
    <3> QED BY <3>1, <3>2
  <2>4. comps' \in [Host -> Seq(Component)]
    BY <1>2, <2>1, <2>3
  <2> QED BY <1>1, <2>1, <2>2, <2>3, <2>4, CompsGo
<1>17. ASSUME PrepareOnDestroy PROVE Good
  <2>1. /\ deadComps # <<>> /\ host' = [host EXCEPT ![Head(deadComps)] = Null]
        /\ deadComps' = Tail(deadComps)
        /\ UNCHANGED <<comps, added, attached, awake, started, active, created, freed, updater, halts>>
    BY <1>17 DEF PrepareOnDestroy, tree, flags, ghosts
  <2> DEFINE c == Head(deadComps)
  <2>2. /\ c \in Component /\ c \in ToSet(deadComps) /\ deadComps' \in Seq(Component)
        /\ ToSet(deadComps') \subseteq ToSet(deadComps)
    BY <1>2, <2>1, TailFacts
  <2>3. \A h \in Host : c \notin ToSet(comps[h])
    BY <1>3, <2>2
  <2>4. host' \in [Component -> Host \cup {Null}] /\ \A d \in Component : d # c => host'[d] = host[d]
    BY <1>2, <2>1
  <2> HIDE DEF c
  <2>5. \A h \in Host : \A d \in ToSet(comps[h]) : d \in Component /\ host'[d] = host[d]
    BY <1>3, <2>3, <2>4
  <2>6. PartsType'
    BY <1>2, <2>1, <2>4 DEF PartsType
  <2>7. CompInv'
    <3>1. \A h \in Host : Distinct(comps'[h])
      BY <1>3, <2>1
    <3>2. \A h \in Host : \A d \in ToSet(comps'[h]) : host'[d] = h /\ d \in added'
      BY <1>3, <2>1, <2>5
    <3>3. \A o \in Object : ToSet(comps'[o]) # {} => o \in created' \ freed'
      BY <1>3, <2>1
    <3>4. \A d \in ToSet(deadComps') :
            d \in added' \ attached' /\ \A h \in Host : d \notin ToSet(comps'[h])
      BY <1>3, <2>1, <2>2
    <3> QED BY <1>2, <2>1, <3>1, <3>2, <3>3, <3>4, CompIntro
  <2>8. UpdaterType' /\ PoolInv'
    BY <1>4, <1>5, <2>1, <2>5
  <2> QED BY <1>1, <2>1, <2>2, <2>6, <2>7, <2>8
<1>18. ASSUME PrepareEnd PROVE Good
  <2>1. /\ UNCHANGED <<comps, host, added, attached, awake, started, active, created, deadComps, updater>>
        /\ freed' = freed \cup ToSet(deleteQueue)
        /\ halts' = {} => \A o \in ToSet(deleteQueue) : comps[o] = <<>>
    BY <1>18 DEF PrepareEnd, parts, flags
  <2>2. PartsType'
    BY <1>1, <2>1 DEF PartsType
  <2>3. halts' = {} => CompInv'
    BY <1>1, <2>1 DEF CompInv
  <2>4. UpdaterType' /\ PoolInv'
    BY <1>4, <1>5, <2>1
  <2> QED BY <1>2, <1>18, <2>1, <2>2, <2>3, <2>4
<1>19. ASSUME Visit PROVE Good
  <2>1. UNCHANGED <<parts, deadComps, updater, created, freed, halts>>
    BY <1>19, Keeps DEF graves, tree, ghosts
  <2>2. active \cap Component \subseteq active'
    <3> DEFINE h == Head(work).host
    <3>1. /\ work # <<>>
          /\ \/ active' = active
             \/ active' = IF h = Scene THEN active
                          ELSE IF h \in enabled /\ (Parent(h) = Null \/ Parent(h) \in active)
                               THEN active \cup {h} ELSE active \ {h}
      BY <1>19 DEF Visit
    <3>2. h \in Host
      <4>1. work \in Seq(PlaceType)
        BY <1>1 DEF ControlType
      <4>2. Head(work) \in PlaceType
        BY <3>1, <4>1, TailFacts
      <4> QED BY <4>2 DEF PlaceType
    <3>3. h \notin Component
      BY <3>2, HostFacts DEF Host
    <3> HIDE DEF h
    <3> QED BY <3>1, <3>3
  <2> HIDE DEF Good
  <2> QED BY <1>1, <1>6, <2>1, <2>2
<1>20. ASSUME CallComponent PROVE Good
  <2> DEFINE h == Head(work).host
             k == Head(work).at
             c == comps[h][k]
  <2>1. /\ work # <<>> /\ k \in DOMAIN comps[h]
        /\ UNCHANGED <<comps, host, added, enabled, created, freed, deadComps>>
        /\ \/ /\ attached' = attached \cup {c}
              /\ UNCHANGED <<awake, started, active, updater, halts>>
           \/ /\ awake' \subseteq awake \cup {c} /\ (c \in awake' => c \in awake \/ c \in attached)
              /\ UNCHANGED <<attached, started, active, updater, halts>>
           \/ /\ c \in attached /\ CheckActivity(c)
              /\ UNCHANGED <<attached, awake, started>>
           \/ /\ UNCHANGED <<attached, awake, started, active, updater, halts>>
           \/ /\ started' \subseteq started \cup {c}
              /\ UNCHANGED <<attached, awake, active, updater, halts>>
    BY <1>20 DEF CallComponent, graves, tree
  <2>2. h \in Host
    <3>1. work \in Seq(PlaceType)
      BY <1>1 DEF ControlType
    <3>2. Head(work) \in PlaceType
      BY <2>1, <3>1, TailFacts
    <3> QED BY <3>2 DEF PlaceType
  <2>3. c \in ToSet(comps[h]) /\ c \in Component /\ c \in added /\ host[c] = h
    <3>1. c \in ToSet(comps[h])
      BY <2>1 DEF ToSet
    <3> QED BY <3>1, <1>3, <2>2
  <2> HIDE DEF h, k, c
  <2>4. PartsType'
    BY <1>2, <2>1, <2>3 DEF PartsType
  <2>5. attached' \subseteq attached \cup {c} /\ attached \subseteq attached'
    BY <2>1
  <2>6. CompInv'
    <3>1. \A g \in Host : Distinct(comps'[g])
      BY <1>3, <2>1
    <3>2. \A g \in Host : \A d \in ToSet(comps'[g]) : host'[d] = g /\ d \in added'
      BY <1>3, <2>1
    <3>3. \A o \in Object : ToSet(comps'[o]) # {} => o \in created' \ freed'
      BY <1>3, <2>1
    <3>4. \A d \in ToSet(deadComps') :
            d \in added' \ attached' /\ \A g \in Host : d \notin ToSet(comps'[g])
      BY <1>3, <2>1, <2>2, <2>3, <2>5
    <3> QED BY <1>2, <2>1, <3>1, <3>2, <3>3, <3>4, CompIntro
  <2>7. UpdaterType' /\ PoolInv' /\ halts' = {}
    <3>1. CASE UNCHANGED <<active, updater, halts>>
      BY <3>1, <1>1, <1>4, <1>5, <2>1, <2>5
    <3>2. CASE c \in attached /\ CheckActivity(c) /\ attached' = attached
      BY <3>2, <1>1, <2>1, <2>2, <2>3, CheckFacts
    <3> QED BY <3>1, <3>2, <2>1
  <2> QED BY <1>2, <2>1, <2>4, <2>6, <2>7
<1>21. ASSUME BuildBegin \/ LeaveComponents \/ BuildEnd \/ Update \/ UpdateEnd PROVE Good
  <2>1. UNCHANGED <<parts, deadComps, updater, active, created, freed, halts>>
    BY <1>21, Keeps DEF graves, tree, flags, ghosts
  <2> HIDE DEF Good
  <2> QED BY <1>1, <1>6, <2>1
<1> HIDE DEF Good
<1>22. Good
  BY <1>7, <1>8, <1>10, <1>11, <1>12, <1>13, <1>14, <1>15, <1>16, <1>17, <1>18, <1>19,
     <1>20, <1>21, Zenon DEF Next, Application, Frame
<1> QED BY <1>22 DEF Good

-----------------------------------------------------------------------------
(* The frame, the objects destroyed late and the roots are preserved *)

LEMMA FrameStep ==
  ASSUME TypeOK, SceneInv, Next
  PROVE  FrameInv'
<1>1. ControlType /\ FrameInv
  BY TypeGroups DEF SceneInv
<1>2. ASSUME UNCHANGED control PROVE FrameInv'
  BY <1>1, <1>2 DEF control, FrameInv
<1>3. Application => UNCHANGED control
  BY Keeps, Zenon DEF Application
<1>4. ASSUME PrepareBegin PROVE FrameInv'
  BY <1>1, <1>4 DEF PrepareBegin, FrameInv
<1>5. ASSUME PrepareOnDestroy PROVE FrameInv'
  BY <1>1, <1>5 DEF PrepareOnDestroy, FrameInv
<1>6. ASSUME PrepareEnd PROVE FrameInv'
  BY <1>1, <1>6 DEF PrepareEnd, FrameInv, ControlType
<1>7. ASSUME BuildBegin PROVE FrameInv'
  BY <1>1, <1>7 DEF BuildBegin, FrameInv
<1>8. ASSUME Visit PROVE FrameInv'
  BY <1>1, <1>8 DEF Visit, FrameInv
<1>9. ASSUME CallComponent PROVE FrameInv'
  BY <1>1, <1>9 DEF CallComponent, FrameInv
<1>10. ASSUME LeaveComponents PROVE FrameInv'
  BY <1>1, <1>10 DEF LeaveComponents, FrameInv
<1>11. ASSUME BuildEnd PROVE FrameInv'
  BY <1>1, <1>11 DEF BuildEnd, FrameInv
<1>12. ASSUME Update \/ UpdateEnd PROVE FrameInv'
  BY <1>1, <1>12 DEF Update, UpdateEnd, FrameInv
<1>13. SceneDestroyObject => UNCHANGED control
  BY Keeps
<1>14. ASSUME SceneDestroy PROVE FrameInv'
  BY <1>1, <1>14 DEF SceneDestroy, FrameInv
<1> QED BY <1>2, <1>3, <1>4, <1>5, <1>6, <1>7, <1>8, <1>9, <1>10, <1>11, <1>12, <1>13,
           <1>14, Zenon DEF Next, Frame

\* A callback may call the application's operations; the destruction of the
\* objects by Scene::Destroy calls none.
LEMMA CallsWhen ==
  ASSUME TypeOK, SceneInv, Application
  PROVE  /\ pc # "prepare" /\ pc' = pc /\ life' = life /\ calling' = calling
<1>1. MayCall
  BY Zenon DEF Application, InstanceGameObject, SetObjectEnabled, MoveToRoot, Destroy, MoveToTree,
     AddComponent, RemoveComponent, SetComponentEnabled
<1>2. pc # "prepare"
  BY <1>1 DEF MayCall, SceneInv, FrameInv
<1>3. UNCHANGED control
  BY Keeps, Zenon DEF Application
<1> QED BY <1>2, <1>3 DEF control

LEMMA LateStep ==
  ASSUME TypeOK, SceneInv, Next
  PROVE  LateInv'
<1>1. /\ TreeType /\ PartsType /\ TableType /\ GravesType /\ TreeInv /\ QueueInv /\ SlotInv
      /\ CompInv /\ LateInv
  BY TypeGroups DEF SceneInv
<1>2. /\ comps \in [Host -> Seq(Component)] /\ created \subseteq Object
      /\ destroyed \subseteq created
  BY <1>1 DEF PartsType, TreeType
<1>3. ASSUME UNCHANGED <<destroyed, freed, comps, late, pc>> PROVE LateInv'
  BY <1>1, <1>3 DEF LateInv
<1>4. ASSUME pc' # "destroy" PROVE LateInv'
  BY <1>4 DEF LateInv
<1>5. ASSUME NEW o \in Object, InstanceGameObject(o) \/ MoveToRoot(o) \/ SetObjectEnabled(o)
      PROVE  LateInv'
  <2>1. UNCHANGED <<destroyed, freed, comps, late, pc>>
    BY <1>5 DEF InstanceGameObject, MoveToRoot, SetObjectEnabled, parts, tree, control
  <2> QED BY <1>3, <2>1
<1>6. ASSUME NEW o \in Object, NEW p \in Object, MoveToTree(o, p) PROVE LateInv'
  <2>1. UNCHANGED <<destroyed, freed, comps, late, pc>>
    BY <1>6 DEF MoveToTree, parts, control
  <2> QED BY <1>3, <2>1
<1>7. ASSUME NEW c \in Component, SetComponentEnabled(c) PROVE LateInv'
  <2>1. UNCHANGED <<destroyed, freed, comps, late, pc>>
    BY <1>7 DEF SetComponentEnabled, parts, tree, control
  <2> QED BY <1>3, <2>1
<1>8. ASSUME NEW o \in Object, Destroy(o) PROVE LateInv'
  <2>1. /\ o \in Live /\ Bury(o) /\ UNCHANGED <<freed, comps, pc>>
        /\ late' = IF pc = "destroy" THEN late \cup Below(o) ELSE late
    BY <1>8, UsableFacts DEF Destroy, parts, control
  <2>2. destroyed' = destroyed \cup Below(o)
    BY <1>1, <2>1, BuryFacts
  <2> QED BY <1>1, <2>1, <2>2 DEF LateInv
<1>9. ASSUME NEW h \in Host, NEW c \in Component, AddComponent(h, c) PROVE LateInv'
  <2>1. /\ comps' = [comps EXCEPT ![h] = Append(@, c)] /\ UNCHANGED <<destroyed, freed, pc, late>>
        /\ h \in Object => h \notin destroyed
    BY <1>9, HostFacts DEF AddComponent, tree, control, Usable
  <2>2. \A o \in destroyed : o \in Object /\ o \in Host
    BY <1>2, HostFacts
  <2>3. \A o \in destroyed : comps'[o] = comps[o]
    BY <1>2, <2>1, <2>2
  <2> QED BY <1>1, <2>1, <2>3 DEF LateInv
<1>10. ASSUME NEW h \in Host, NEW c \in Component, RemoveComponent(h, c) PROVE LateInv'
  <2>1. /\ comps' = [comps EXCEPT ![h] = Erase(@, c)] /\ UNCHANGED <<destroyed, freed, pc, late>>
        /\ Contains(comps[h], c)
    BY <1>10 DEF RemoveComponent, tree, control
  <2>2. \A o \in destroyed : o \in Object /\ o \in Host
    BY <1>2, HostFacts
  <2>3. comps[h] # <<>>
    BY <2>1, EmptyList
  <2>4. \A o \in destroyed : comps'[o] # <<>> => comps[o] # <<>>
    BY <1>2, <2>1, <2>2, <2>3
  <2> QED BY <1>1, <2>1, <2>4 DEF LateInv
<1>11. ASSUME PrepareBegin PROVE LateInv'
  <2>1. /\ comps' = [h \in Host |-> IF Contains(deleteQueue, h) THEN <<>> ELSE comps[h]]
        /\ UNCHANGED <<destroyed, freed>>
    BY <1>11 DEF PrepareBegin, tree
  <2>2. \A o \in destroyed \ freed : o \in Host /\ Contains(deleteQueue, o)
    BY <1>1, <1>2, ListFacts, HostFacts DEF QueueInv, GravesType
  <2>3. \A o \in destroyed \ freed : comps'[o] = <<>>
    BY <2>1, <2>2
  <2> QED BY <2>1, <2>3 DEF LateInv
<1>12. ASSUME PrepareOnDestroy PROVE LateInv'
  <2>1. UNCHANGED <<destroyed, freed, comps, late, pc>>
    BY <1>12 DEF PrepareOnDestroy, tree, ghosts
  <2> QED BY <1>3, <2>1
<1>13. ASSUME PrepareEnd \/ BuildBegin \/ Visit \/ CallComponent \/ LeaveComponents
              \/ BuildEnd \/ Update \/ UpdateEnd \/ SceneDestroyObject \/ SceneDestroy
       PROVE  pc' # "destroy"
  BY <1>13 DEF PrepareEnd, BuildBegin, Visit, CallComponent, LeaveComponents, BuildEnd, Update,
     UpdateEnd, SceneDestroyObject, SceneDestroy, control
<1> QED BY <1>4, <1>5, <1>6, <1>7, <1>8, <1>9, <1>10, <1>11, <1>12, <1>13,
           Zenon DEF Next, Application, Frame

\* Every living object is below one without a parent.
LEMMA TopFacts ==
  ASSUME TreeType, TreeInv, NEW o \in Live
  PROVE  /\ Top(o) \in Up(o) /\ Top(o) \in Live /\ Top(o) \in Object /\ Parent(Top(o)) = Null
<1>1. o \in Host
  BY HostFacts DEF Live, TreeType
<1>2. Up(o) \subseteq Live
  BY TreeFacts
<1> QED BY <1>1, <1>2, UpFacts DEF Live, TreeType

\* GetRootSceneObjects: the objects of the table that have no parent.
LEMMA RootsFacts ==
  ASSUME TypeOK, SceneInv, life = "alive", NEW r \in GetRootSceneObjects
  PROVE  /\ r \in Seq(Object) /\ Distinct(r)
         /\ ToSet(r) = {o \in Object : Parent(o) = Null} \cap ToSet(slots)
<1>1. RootsType /\ TableType /\ SlotInv /\ RootInv
  BY TypeGroups DEF SceneInv
<1>2. CASE changed
  <2> DEFINE S == {o \in Object : Parent(o) = Null}
  <2>1. r \in Kept(slots, S)
    BY <1>2 DEF GetRootSceneObjects
  <2>2. \A i, j \in DOMAIN slots : slots[i] = slots[j] /\ slots[i] \in S => i = j
    BY <1>1, HostFacts DEF SlotInv
  <2>3. slots \in Seq(Object \cup {Null}) /\ S \subseteq Object
    BY <1>1 DEF TableType
  <2> HIDE DEF S
  <2>4. r \in Seq(S) /\ ToSet(r) = ToSet(slots) \cap S /\ Distinct(r)
    BY <2>1, <2>2, <2>3, KeptFacts
  <2>5. r \in Seq(Object)
    BY <2>3, <2>4, SeqMonotonic
  <2> QED BY <2>4, <2>5 DEF S
<1>3. CASE ~changed
  BY <1>1, <1>3 DEF GetRootSceneObjects, RootInv, RootsType
<1> QED BY <1>2, <1>3

\* The parents when the children are the same.
LEMMA SameTree ==
  ASSUME UNCHANGED children
  PROVE  /\ \A x : Parent(x)' = Parent(x)
         /\ \A h : Up(h)' = Up(h)
BY UpIsChain

LEMMA RootStep ==
  ASSUME TypeOK, SceneInv, Next
  PROVE  RootInv'
<1>1. /\ TreeType /\ TableType /\ RootsType /\ ControlType /\ GravesType
      /\ TreeInv /\ QueueInv /\ SlotInv /\ FrameInv /\ RootInv
  BY TypeGroups DEF SceneInv
<1>2. /\ created \subseteq Object /\ slots \in Seq(Object \cup {Null})
      /\ newQueue \in Seq(Object) /\ root \in Seq(Object)
      /\ ToSet(newQueue) \subseteq Live /\ Live \subseteq Object
  BY <1>1 DEF TreeType, TableType, RootsType, QueueInv, Live
<1>3. /\ \A x : (x \in ToSet(slots) /\ x # Null) <=> x \in Live \ ToSet(newQueue)
      /\ \A x \in Live : x # Null
  <2>1. \A x \in ToSet(slots) : x # Null => x \in Live \ ToSet(newQueue)
    BY <1>1 DEF SlotInv, ToSet
  <2>2. \A x \in Live \ ToSet(newQueue) : x \in ToSet(slots)
    BY <1>1 DEF SlotInv, ToSet
  <2>3. \A x \in Live : x # Null
    BY <1>2, HostFacts
  <2> QED BY <2>1, <2>2, <2>3
<1>4. ASSUME UNCHANGED <<created, destroyed, children, slots, newQueue, root, changed>>,
             life' = life, pc' = pc \/ pc' \notin {"prepare", "destroy"}
      PROVE  RootInv'
  <2>1. Live' = Live /\ \A x : Parent(x)' = Parent(x) /\ Up(x)' = Up(x)
    BY <1>4, SameTree DEF Live
  <2>2. life' = "alive" /\ ~changed' =>
          /\ Distinct(root')
          /\ ToSet(root') = {o \in Object : Parent(o)' = Null} \cap ToSet(slots')
    BY <1>1, <1>4, <2>1 DEF RootInv
  <2>3. pc' = "prepare" =>
          /\ Distinct(root') /\ ToSet(root') \subseteq Live'
          /\ \A o \in ToSet(root') : Parent(o)' = Null
          /\ \A o \in Live' : Up(o)' \cap (ToSet(root') \cup ToSet(newQueue')) # {}
    BY <1>1, <1>4, <2>1 DEF RootInv
  <2>4. pc' = "destroy" /\ life' = "destroying" => Live' = {}
    BY <1>1, <1>4, <2>1 DEF RootInv
  <2> QED BY <2>2, <2>3, <2>4 DEF RootInv
<1>5. ASSUME Application, changed' = TRUE, life = "alive" \/ Live' \subseteq Live
      PROVE  RootInv'
  <2>1. pc # "prepare" /\ pc' = pc /\ life' = life
    BY <1>5, CallsWhen
  <2> QED BY <1>1, <1>5, <2>1 DEF RootInv
<1>6. ASSUME NEW o \in Object, InstanceGameObject(o) PROVE RootInv'
  <2>1. Application
    BY <1>6 DEF Application
  <2> QED BY <1>5, <1>6, <2>1 DEF InstanceGameObject
<1>7. ASSUME NEW o \in Object, MoveToRoot(o) \/ Destroy(o) PROVE RootInv'
  <2>1. Application
    BY <1>7 DEF Application
  <2>2. changed' = TRUE /\ Live' \subseteq Live
    <3>1. MoveToRoot(o) => changed' = TRUE /\ Live' \subseteq Live
      BY DEF MoveToRoot, Live
    <3>2. Destroy(o) => changed' = TRUE /\ Live' \subseteq Live
      <4> SUFFICES ASSUME Destroy(o) PROVE changed' = TRUE /\ Live' \subseteq Live
        OBVIOUS
      <4>1. o \in Live /\ Bury(o) /\ created' = created
        BY UsableFacts DEF Destroy
      <4> QED BY ZenonT(60), <1>1, <4>1, BuryFacts DEF Live
    <3> QED BY <1>7, <3>1, <3>2
  <2> QED BY <1>5, <2>1, <2>2
<1>8. ASSUME NEW o \in Object, NEW p \in Object, MoveToTree(o, p) PROVE RootInv'
  <2>1. Application
    BY <1>8 DEF Application
  <2>2. changed' = TRUE /\ Live' \subseteq Live
    BY <1>8 DEF MoveToTree, Live
  <2> QED BY <1>5, <2>1, <2>2
<1>9. ASSUME UNCHANGED <<tree, table, roots, control>> PROVE RootInv'
  BY <1>4, <1>9 DEF tree, table, roots, control
<1>10. ASSUME PrepareBegin PROVE RootInv'
  <2>1. /\ UNCHANGED <<created, destroyed, children, root, life>> /\ pc' = "destroy"
        /\ pc \in {"idle", "prepare"}
        /\ life = "alive" \/ (root = <<>> /\ newQueue = <<>>)
        /\ ~changed' => ~changed /\ newQueue = <<>>
    BY <1>10 DEF PrepareBegin, tree
  <2>2. Live' = Live /\ \A x : Parent(x)' = Parent(x) /\ Up(x)' = Up(x)
    BY <2>1, SameTree DEF Live
  <2>3. life' = "alive" /\ ~changed' =>
          /\ Distinct(root')
          /\ ToSet(root') = {o \in Object : Parent(o)' = Null} \cap ToSet(slots')
    <3> SUFFICES ASSUME life' = "alive", ~changed'
                 PROVE  /\ Distinct(root')
                        /\ ToSet(root') = {o \in Object : Parent(o)' = Null} \cap ToSet(slots')
      OBVIOUS
    <3>1. Distinct(root) /\ ToSet(root) = {o \in Object : Parent(o) = Null} \cap ToSet(slots)
      BY <1>1, <2>1 DEF RootInv
    <3>2. ToSet(slots') \ {Null} = Live
      BY <1>1, <1>10, PrepareTable
    <3>3. ToSet(newQueue) = {}
      BY <2>1, EmptyList
    <3>4. \A x \in Object : x \in ToSet(slots') <=> x \in ToSet(slots)
      BY <1>3, <3>2, <3>3, HostFacts
    <3> QED BY <2>1, <2>2, <3>1, <3>4
  <2>4. life' = "destroying" => Live' = {}
    <3> SUFFICES ASSUME life = "destroying" PROVE Live = {}
      BY <2>1, <2>2
    <3>1. pc = "prepare" /\ ToSet(root) = {} /\ ToSet(newQueue) = {}
      BY <1>1, <2>1, EmptyList DEF FrameInv
    <3> QED BY <1>1, <3>1 DEF RootInv
  <2> QED BY <2>1, <2>3, <2>4 DEF RootInv
<1>11. ASSUME PrepareOnDestroy PROVE RootInv'
  <2>1. UNCHANGED <<created, destroyed, children, slots, newQueue, root, changed, pc, life>>
    BY <1>11 DEF PrepareOnDestroy, tree, table, roots
  <2> QED BY <1>4, <2>1
<1>12. ASSUME PrepareEnd PROVE RootInv'
  <2>1. /\ UNCHANGED <<created, destroyed, children, slots, newQueue, root>>
        /\ \/ life' = "destroyed" /\ pc' = "end"
           \/ life' = life /\ changed' = changed /\ pc' = "prepared"
    BY <1>12 DEF PrepareEnd, table
  <2>2. CASE life' = "destroyed" /\ pc' = "end"
    BY <2>2 DEF RootInv
  <2>3. CASE life' = life /\ changed' = changed /\ pc' = "prepared"
    BY <1>4, <2>1, <2>3
  <2> QED BY <2>1, <2>2, <2>3
<1>13. ASSUME BuildBegin PROVE RootInv'
  <2>1. /\ UNCHANGED <<created, destroyed, children, slots, newQueue, life>>
        /\ pc = "prepared" /\ pc' = "build"
        /\ \/ root' \in GetRootSceneObjects
           \/ root' = root /\ changed' = changed
    BY <1>13 DEF BuildBegin, tree, table, roots
  <2>2. life = "alive"
    BY <1>1, <2>1 DEF FrameInv, ControlType
  <2>3. CASE root' \in GetRootSceneObjects
    <3>1. /\ Distinct(root')
          /\ ToSet(root') = {o \in Object : Parent(o) = Null} \cap ToSet(slots)
      BY <2>2, <2>3, RootsFacts
    <3>2. \A x : Parent(x)' = Parent(x)
      BY <2>1, SameTree
    <3> QED BY <2>1, <3>1, <3>2 DEF RootInv
  <2>4. CASE root' = root /\ changed' = changed
    BY <1>4, <2>1, <2>4
  <2> QED BY <2>1, <2>3, <2>4
<1>14. ASSUME Visit \/ CallComponent \/ LeaveComponents \/ BuildEnd \/ Update \/ UpdateEnd
       PROVE  RootInv'
  <2>1. UNCHANGED <<tree, table, roots>>
    BY <1>14, Keeps
  <2>2. life' = life /\ pc' \notin {"prepare", "destroy"}
    BY <1>14 DEF Visit, CallComponent, LeaveComponents, BuildEnd, Update, UpdateEnd
  <2> QED BY <1>4, <2>1, <2>2 DEF tree, table, roots
<1>15. ASSUME SceneDestroyObject PROVE RootInv'
  <2>1. UNCHANGED <<created, pc, life>> /\ pc = "prepare"
    BY <1>15 DEF SceneDestroyObject, control
  <2>2. PICK o \in Live :
          /\ Bury(o)
          /\ \/ root # <<>> /\ o = Head(root) /\ root' = Tail(root)
             \/ root = <<>> /\ newQueue # <<>> /\ o = Head(newQueue) /\ root' = root
    BY <1>15, SceneDestroyObjectFacts
  <2>3. /\ Distinct(root) /\ ToSet(root) \subseteq Live
        /\ \A x \in ToSet(root) : Parent(x) = Null
        /\ \A x \in Live : Up(x) \cap (ToSet(root) \cup ToSet(newQueue)) # {}
        /\ life = "destroying"
    BY <1>1, <2>1 DEF RootInv, FrameInv
  <2>4. /\ o \in Below(o) /\ Below(o) \subseteq Live
        /\ destroyed' = destroyed \cup Below(o)
        /\ ParentsIn(children') = [x \in Host |-> IF o \in Up(x) THEN Null ELSE Parent(x)]
        /\ ToSet(newQueue') = ToSet(newQueue) \ Below(o)
    BY <1>1, <2>2, BuryFacts
  <2>5. Live' = Live \ Below(o)
    BY <2>1, <2>4 DEF Live
  <2>6. \A x \in Host : o \notin Up(x) => Up(x)' = Up(x) /\ Parent(x)' = Parent(x)
    <3> DEFINE par == ParentsIn(children)
    <3>1. /\ par \in Pointers /\ \A x \in Host : Parent(x) = par[x]
          /\ \A x : Up(x) = Chain(par, x)
      BY <1>1, TreeFacts, UpIsChain
    <3> HIDE DEF par
    <3>2. o \in Host
      BY <1>2, HostFacts
    <3>3. ParentsIn(children') = [x \in Host |-> IF o \in Chain(par, x) THEN Null ELSE par[x]]
      BY <2>4, <3>1
    <3>4. \A x \in Host : o \notin Up(x) => Up(x)' = Up(x)
      BY <3>1, <3>2, <3>3, ChainBury, UpIsChain
    <3>5. \A x \in Host : Parent(x)' = ParentsIn(children')[x]
      BY UpIsChain DEF ParentsIn
    <3> QED BY <3>1, <3>3, <3>4, <3>5
  <2>7. ASSUME NEW x \in Live, x \notin Below(o)
        PROVE  x \in Host /\ o \notin Up(x) /\ Up(x) \cap Below(o) = {}
    <3>1. x \in Object /\ x \in Host /\ o \notin Up(x)
      BY <1>2, <2>7, HostFacts DEF Below
    <3>2. \A y \in Up(x) : Up(y) \subseteq Up(x)
      BY <1>1, <3>1, UpFacts
    <3> QED BY <3>1, <3>2 DEF Below
  <2>8. Distinct(root') /\ ToSet(root') = ToSet(root) \ {o}
    <3>1. CASE root # <<>>
      <4>1. root' = Tail(root) /\ o = Head(root)
        BY <2>2, <3>1
      <4> QED BY <1>2, <2>3, <3>1, <4>1, TailFacts
    <3>2. CASE root = <<>>
      <4>1. root' = <<>>
        BY <2>2, <3>2
      <4> QED BY <3>2, <4>1, EmptyList
    <3> QED BY <3>1, <3>2
  <2>9. \A x \in ToSet(root) : x \in Below(o) => x = o
    <3> SUFFICES ASSUME NEW x \in ToSet(root), x \in Below(o) PROVE x = o
      OBVIOUS
    <3>1. x \in Host /\ Parent(x) = Null /\ o \in Up(x)
      BY <1>2, <2>3, HostFacts DEF Below
    <3> QED BY <1>1, <3>1, UpFacts
  <2>10. ToSet(root') \subseteq Live' /\ \A x \in ToSet(root') : Parent(x)' = Null
    <3> SUFFICES ASSUME NEW x \in ToSet(root') PROVE x \in Live' /\ Parent(x)' = Null
      OBVIOUS
    <3>1. x \in Live /\ x \notin Below(o) /\ Parent(x) = Null
      BY <2>3, <2>8, <2>9
    <3> QED BY <2>5, <2>6, <2>7, <3>1
  <2>11. \A x \in Live' : Up(x)' \cap (ToSet(root') \cup ToSet(newQueue')) # {}
    <3> SUFFICES ASSUME NEW x \in Live'
                 PROVE  Up(x)' \cap (ToSet(root') \cup ToSet(newQueue')) # {}
      OBVIOUS
    <3>1. x \in Live /\ x \notin Below(o)
      BY <2>5
    <3>2. Up(x)' = Up(x) /\ Up(x) \cap Below(o) = {}
      BY <2>6, <2>7, <3>1
    <3>3. PICK y \in Up(x) : y \in ToSet(root) \cup ToSet(newQueue)
      BY <2>3, <3>1
    <3>4. y \in ToSet(root') \cup ToSet(newQueue')
      BY <2>4, <2>8, <3>2, <3>3
    <3> QED BY <3>2, <3>3, <3>4
  <2> QED BY <2>1, <2>3, <2>8, <2>10, <2>11 DEF RootInv
<1>16. ASSUME SceneDestroy PROVE RootInv'
  <2>1. /\ UNCHANGED <<created, destroyed, children, slots, newQueue>>
        /\ life = "alive" /\ life' = "destroying" /\ pc' = "prepare"
        /\ root' \in GetRootSceneObjects
    BY <1>16 DEF SceneDestroy, tree, table
  <2>2. Live' = Live /\ \A x : Parent(x)' = Parent(x) /\ Up(x)' = Up(x)
    BY <2>1, SameTree DEF Live
  <2>3. /\ Distinct(root')
        /\ ToSet(root') = {o \in Object : Parent(o) = Null} \cap ToSet(slots)
    BY <2>1, RootsFacts
  <2>4. ToSet(root') \subseteq Live' /\ \A x \in ToSet(root') : Parent(x)' = Null
    BY <1>3, <2>2, <2>3, HostFacts
  <2>5. \A x \in Live : Up(x) \cap (ToSet(root') \cup ToSet(newQueue)) # {}
    <3> SUFFICES ASSUME NEW x \in Live
                 PROVE  Top(x) \in Up(x) /\ Top(x) \in ToSet(root') \cup ToSet(newQueue)
      OBVIOUS
    <3>1. /\ Top(x) \in Up(x) /\ Top(x) \in Live /\ Top(x) \in Object
          /\ Parent(Top(x)) = Null
      BY <1>1, TopFacts
    <3> QED BY <1>3, <2>3, <3>1
  <2> QED BY <2>1, <2>2, <2>3, <2>4, <2>5 DEF RootInv
<1>17. \A o \in Object : SetObjectEnabled(o) => UNCHANGED <<tree, table, roots, control>>
  BY Keeps
<1>18. \A h \in Host, c \in Component :
         AddComponent(h, c) \/ RemoveComponent(h, c) \/ SetComponentEnabled(c) =>
           UNCHANGED <<tree, table, roots, control>>
  BY Keeps
<1>19. Host # {}
  BY HostFacts
<1> QED BY <1>6, <1>7, <1>8, <1>9, <1>10, <1>11, <1>12, <1>13, <1>14, <1>15, <1>16, <1>17,
           <1>18, <1>19, Zenon DEF Next, Application, Frame

-----------------------------------------------------------------------------
(* The other types are preserved *)

\* The place that Build visits next.
LEMMA HeadFacts ==
  ASSUME ControlType, work # <<>>
  PROVE  /\ Head(work) \in PlaceType /\ Head(work).phase \in Phases /\ Head(work).host \in Host
         /\ Head(work).at \in Nat /\ Head(work).force \in BOOLEAN
         /\ Tail(work) \in Seq(PlaceType)
<1>1. work \in Seq(PlaceType)
  BY DEF ControlType
<1>2. Head(work) \in PlaceType /\ Tail(work) \in Seq(PlaceType)
  BY <1>1, TailFacts
<1> QED BY <1>2 DEF PlaceType

\* The component of a host that Build calls next.
LEMMA CalledFacts ==
  ASSUME PartsType, ControlType, work # <<>>, Head(work).at \in DOMAIN comps[Head(work).host]
  PROVE  comps[Head(work).host][Head(work).at] \in Component
<1>1. Head(work).host \in Host
  BY HeadFacts
<1>2. comps[Head(work).host] \in Seq(Component)
  BY <1>1 DEF PartsType
<1> QED BY <1>2, ListFacts

LEMMA FlagsStep ==
  ASSUME TypeOK, SceneInv, Next
  PROVE  FlagsType'
<1>1. FlagsType /\ ControlType /\ PartsType
  BY TypeGroups
<1>2. ASSUME UNCHANGED flags PROVE FlagsType'
  BY <1>1, <1>2, TypeFrame
<1>3. ASSUME NEW c \in Component, SetComponentEnabled(c) PROVE FlagsType'
  BY <1>1, <1>3 DEF SetComponentEnabled, Toggle, FlagsType
<1>4. ASSUME NEW o \in Object, SetObjectEnabled(o) PROVE FlagsType'
  BY <1>1, <1>4 DEF SetObjectEnabled, Toggle, FlagsType
<1>5. ASSUME Visit PROVE FlagsType'
  <2> DEFINE h == Head(work).host
  <2>1. /\ work # <<>> /\ UNCHANGED enabled
        /\ active' \subseteq active \/ (h # Scene /\ active' \subseteq active \cup {h})
    BY <1>5 DEF Visit
  <2>2. h \in Host
    BY <1>1, <2>1, HeadFacts
  <2> HIDE DEF h
  <2>3. h # Scene => h \in Object
    BY <2>2 DEF Host
  <2> QED BY <1>1, <2>1, <2>3 DEF FlagsType
<1>6. ASSUME CallComponent PROVE FlagsType'
  <2> DEFINE c == comps[Head(work).host][Head(work).at]
  <2>1. /\ work # <<>> /\ Head(work).at \in DOMAIN comps[Head(work).host]
        /\ UNCHANGED enabled
        /\ active' = active \/ CheckActivity(c)
    BY <1>6 DEF CallComponent
  <2>2. c \in Component
    BY <1>1, <2>1, CalledFacts
  <2> HIDE DEF c
  <2>3. active' \subseteq active \cup {c}
    BY <2>1 DEF CheckActivity
  <2> QED BY <1>1, <2>1, <2>2, <2>3 DEF FlagsType
<1> QED BY <1>2, <1>3, <1>4, <1>5, <1>6, Keeps, Zenon DEF Next, Application, Frame

\* SetDirty(true) marks hosts.
LEMMA MarkFacts ==
  ASSUME MarksType, NEW h, dirty' = dirty \cup Climb(h)
  PROVE  dirty' \subseteq Host
<1>1. Climb(h) \subseteq Host
  BY DEF Climb, Up
<1> QED BY <1>1 DEF MarksType

LEMMA MarksStep ==
  ASSUME TypeOK, SceneInv, Next
  PROVE  MarksType'
<1>1. MarksType /\ ControlType
  BY TypeGroups
<1>2. ASSUME UNCHANGED marks PROVE MarksType'
  BY <1>1, <1>2, TypeFrame
<1>3. ASSUME NEW h, SetDirtyTrue(h), unattached' \subseteq unattached \cup Host PROVE MarksType'
  <2>1. dirty' = dirty \cup Climb(h) /\ updaterDirty' \in BOOLEAN
    BY <1>3 DEF SetDirtyTrue
  <2> QED BY <1>1, <1>3, <2>1, MarkFacts DEF MarksType
<1>4. ASSUME NEW o \in Object, InstanceGameObject(o) \/ SetObjectEnabled(o) \/ Destroy(o)
      PROVE  MarksType'
  <2>1. \E h : SetDirtyTrue(h)
    BY <1>4 DEF InstanceGameObject, SetObjectEnabled, Destroy
  <2>2. UNCHANGED unattached
    BY <1>4 DEF InstanceGameObject, SetObjectEnabled, Destroy
  <2> QED BY <1>3, <2>1, <2>2
<1>5. ASSUME NEW o \in Object, NEW p \in Object, MoveToTree(o, p) PROVE MarksType'
  <2>1. SetDirtyTrue(p) /\ UNCHANGED unattached
    BY <1>5 DEF MoveToTree
  <2> QED BY <1>3, <2>1
<1>6. ASSUME NEW c \in Component, SetComponentEnabled(c) PROVE MarksType'
  <2>1. SetDirtyTrue(host[c]) /\ UNCHANGED unattached
    BY <1>6 DEF SetComponentEnabled
  <2> QED BY <1>3, <2>1
<1>7. ASSUME NEW h \in Host, NEW c \in Component, AddComponent(h, c) PROVE MarksType'
  <2>1. SetDirtyTrue(h) /\ unattached' = unattached \cup {h}
    BY <1>7 DEF AddComponent
  <2> QED BY <1>3, <2>1
<1>8. ASSUME NEW h \in Host, NEW c \in Component, RemoveComponent(h, c) PROVE MarksType'
  <2>1. dirty' = dirty \cup Climb(h) /\ updaterDirty' \in BOOLEAN /\ UNCHANGED unattached
    BY <1>8 DEF RemoveComponent
  <2> QED BY <1>1, <2>1, MarkFacts DEF MarksType
<1>9. ASSUME PrepareBegin PROVE MarksType'
  <2> DEFINE busy == deleteQueue # <<>> \/ newQueue # <<>> \/ deadComps # <<>>
  <2>1. /\ dirty' = dirty \cup (IF busy THEN {Scene} ELSE {})
                          \cup {h \in Object : Contains(deleteQueue, h) /\ comps[h] # <<>>}
        /\ updaterDirty' = (updaterDirty \/ busy) /\ UNCHANGED unattached
    BY <1>9 DEF PrepareBegin
  <2> HIDE DEF busy
  <2>2. dirty' \subseteq dirty \cup Host
    BY <2>1, HostFacts
  <2>3. updaterDirty' \in BOOLEAN
    BY <2>1
  <2> QED BY <1>1, <2>1, <2>2, <2>3 DEF MarksType
<1>10. ASSUME BuildBegin PROVE MarksType'
  <2>1. UNCHANGED <<dirty, unattached>> /\ (updaterDirty' = FALSE \/ UNCHANGED updaterDirty)
    BY <1>10 DEF BuildBegin
  <2> QED BY <1>1, <2>1 DEF MarksType
<1>11. ASSUME Visit PROVE MarksType'
  <2> DEFINE h == Head(work).host
  <2>1. /\ UNCHANGED unattached
        /\ UNCHANGED <<dirty, updaterDirty>> \/ SetDirtyFalse(h)
    BY <1>11 DEF Visit
  <2> HIDE DEF h
  <2>2. SetDirtyFalse(h) => dirty' \subseteq dirty \cup {Scene}
                            /\ (updaterDirty' = TRUE \/ UNCHANGED updaterDirty)
    BY DEF SetDirtyFalse
  <2> QED BY <1>1, <2>1, <2>2, HostFacts DEF MarksType
<1>12. ASSUME CallComponent PROVE MarksType'
  <2> DEFINE c == comps[Head(work).host][Head(work).at]
  <2>1. /\ UNCHANGED <<dirty, unattached>>
        /\ UNCHANGED updaterDirty \/ CheckActivity(c)
    BY <1>12 DEF CallComponent
  <2> HIDE DEF c
  <2>2. CheckActivity(c) => updaterDirty' = TRUE \/ UNCHANGED updaterDirty
    BY DEF CheckActivity, RegisterComponent
  <2> QED BY <1>1, <2>1, <2>2 DEF MarksType
<1>13. ASSUME LeaveComponents PROVE MarksType'
  <2>1. UNCHANGED <<dirty, updaterDirty>> /\ unattached' \subseteq unattached
    BY <1>13 DEF LeaveComponents
  <2> QED BY <1>1, <2>1 DEF MarksType
<1>14. ASSUME SceneDestroyObject PROVE MarksType'
  <2>1. SetDirtyTrue(Scene) /\ UNCHANGED unattached
    BY <1>14 DEF SceneDestroyObject
  <2> QED BY <1>3, <2>1
<1>15. ASSUME SceneDestroy PROVE MarksType'
  <2>1. /\ UNCHANGED unattached
        /\ \/ dirty' = dirty \cup {Scene} /\ updaterDirty' = TRUE
           \/ UNCHANGED <<dirty, updaterDirty>>
    BY <1>15 DEF SceneDestroy
  <2> QED BY <1>1, <2>1, HostFacts DEF MarksType
<1>16. \A o \in Object : MoveToRoot(o) => UNCHANGED marks
  BY Keeps
<1>17. PrepareOnDestroy \/ PrepareEnd \/ BuildEnd \/ Update \/ UpdateEnd => UNCHANGED marks
  BY Keeps
<1> QED BY <1>2, <1>4, <1>5, <1>6, <1>7, <1>8, <1>9, <1>10, <1>11, <1>12, <1>13, <1>14,
           <1>15, <1>16, <1>17, Zenon DEF Next, Application, Frame

LEMMA RootsStep ==
  ASSUME TypeOK, SceneInv, Next
  PROVE  RootsType'
<1>1. RootsType /\ ControlType /\ FrameInv
  BY TypeGroups DEF SceneInv
<1>2. ASSUME UNCHANGED roots PROVE RootsType'
  BY <1>1, <1>2, TypeFrame
<1>3. ASSUME root' = root, changed' = TRUE \/ changed' = changed PROVE RootsType'
  BY <1>1, <1>3 DEF RootsType
<1>4. ASSUME NEW o \in Object, InstanceGameObject(o) \/ MoveToRoot(o) \/ Destroy(o)
      PROVE  RootsType'
  <2>1. InstanceGameObject(o) => root' = root /\ changed' = TRUE
    BY DEF InstanceGameObject
  <2>2. MoveToRoot(o) => root' = root /\ changed' = TRUE
    BY DEF MoveToRoot
  <2>3. Destroy(o) => root' = root /\ changed' = TRUE
    BY DEF Destroy, Bury
  <2> QED BY <1>3, <1>4, <2>1, <2>2, <2>3
<1>5. ASSUME NEW o \in Object, NEW p \in Object, MoveToTree(o, p) PROVE RootsType'
  BY <1>3, <1>5 DEF MoveToTree
<1>6. ASSUME PrepareBegin PROVE RootsType'
  <2> DEFINE busy == deleteQueue # <<>> \/ newQueue # <<>> \/ deadComps # <<>>
  <2>1. changed' = (changed \/ busy) /\ root' = root
    BY <1>6 DEF PrepareBegin
  <2> HIDE DEF busy
  <2>2. changed' \in BOOLEAN
    BY <2>1
  <2> QED BY <1>1, <2>1, <2>2 DEF RootsType
<1>7. ASSUME PrepareEnd PROVE RootsType'
  BY <1>3, <1>7 DEF PrepareEnd
<1>8. ASSUME BuildBegin PROVE RootsType'
  <2>1. pc = "prepared" /\ (UNCHANGED roots \/ (root' \in GetRootSceneObjects /\ changed' = FALSE))
    BY <1>8 DEF BuildBegin
  <2>2. life = "alive"
    BY <1>1, <2>1 DEF FrameInv, ControlType
  <2>3. root' \in GetRootSceneObjects => root' \in Seq(Object)
    BY <2>2, RootsFacts
  <2> QED BY <1>2, <2>1, <2>3 DEF RootsType
<1>9. ASSUME SceneDestroyObject PROVE RootsType'
  <2>1. changed' = TRUE
    BY <1>9 DEF SceneDestroyObject, Bury
  <2>2. root' = root \/ (root # <<>> /\ root' = Tail(root))
    BY <1>9 DEF SceneDestroyObject
  <2> QED BY <1>1, <2>1, <2>2, TailFacts DEF RootsType
<1>10. ASSUME SceneDestroy PROVE RootsType'
  <2>1. life = "alive" /\ root' \in GetRootSceneObjects /\ changed' = changed
    BY <1>10 DEF SceneDestroy
  <2> QED BY <1>1, <2>1, RootsFacts DEF RootsType
<1>11. \A o \in Object : SetObjectEnabled(o) => UNCHANGED roots
  BY Keeps
<1>12. \A h \in Host, c \in Component :
         AddComponent(h, c) \/ RemoveComponent(h, c) \/ SetComponentEnabled(c) => UNCHANGED roots
  BY Keeps
<1>13. Host # {}
  BY HostFacts
<1>14. PrepareOnDestroy \/ Visit \/ CallComponent \/ LeaveComponents \/ BuildEnd \/ Update
         \/ UpdateEnd => UNCHANGED roots
  BY Keeps
<1> QED BY <1>2, <1>4, <1>5, <1>6, <1>7, <1>8, <1>9, <1>10, <1>11, <1>12, <1>13, <1>14,
           Zenon DEF Next, Application, Frame

\* Places of the walk.
LEMMA PlaceFacts ==
  /\ \A phase \in Phases, h \in Host, force \in BOOLEAN, at \in Nat :
       Place(phase, h, force, at) \in PlaceType
  /\ \A pl \in PlaceType, k \in Nat : [pl EXCEPT !.at = k] \in PlaceType
BY DEF Place, PlaceType

LEMMA PushFacts ==
  ASSUME NEW S, NEW x \in S, NEW t \in Seq(S)
  PROVE  <<x>> \o t \in Seq(S)
<1> DEFINE s == <<x>>
<1>1. s \in Seq(S)
  OBVIOUS
<1> HIDE DEF s
<1>2. s \o t \in Seq(S)
  BY <1>1, ConcatFacts
<1> QED BY <1>2 DEF s

LEMMA ChildrenType ==
  ASSUME children \in Kids, NEW phase \in Phases, NEW h \in Host
  PROVE  Children(phase, h) \in Seq(PlaceType)
<1>1. CASE h = Scene
  BY <1>1 DEF Children
<1>2. CASE h # Scene
  <2>1. h \in Object /\ children[h] \in Seq(Object)
    BY <1>2 DEF Host, Kids
  <2>2. /\ Len(children[h]) \in Nat /\ DOMAIN children[h] = 1..Len(children[h])
        /\ \A k \in DOMAIN children[h] : children[h][k] \in Host
    BY <2>1, ListFacts, HostFacts
  <2>3. Children(phase, h) = [k \in DOMAIN children[h] |-> Place(phase, children[h][k], TRUE, 0)]
    BY <1>2 DEF Children
  <2>4. \A k \in DOMAIN children[h] : Place(phase, children[h][k], TRUE, 0) \in PlaceType
    BY <2>2, PlaceFacts
  <2>5. Children(phase, h) \in [1..Len(children[h]) -> PlaceType]
    BY <2>2, <2>3, <2>4
  <2> QED BY <2>2, <2>5, SeqDef
<1> QED BY <1>1, <1>2

LEMMA WalkType ==
  ASSUME NEW hs \in Seq(Host)
  PROVE  Walk(hs) \in Seq(PlaceType)
<1> DEFINE Loop(phase) == [k \in DOMAIN hs |-> Place(phase, hs[k], FALSE, 0)]
<1>1. Len(hs) \in Nat /\ DOMAIN hs = 1..Len(hs) /\ \A k \in DOMAIN hs : hs[k] \in Host
  BY ListFacts
<1>2. ASSUME NEW phase \in Phases PROVE Loop(phase) \in Seq(PlaceType)
  <2>1. \A k \in DOMAIN hs : Place(phase, hs[k], FALSE, 0) \in PlaceType
    BY <1>1, PlaceFacts
  <2>2. Loop(phase) \in [1..Len(hs) -> PlaceType]
    BY <1>1, <2>1
  <2> QED BY <1>1, <2>2, SeqDef
<1>3. Walk(hs) = Loop("PostLoad") \o Loop("Awake") \o Loop("CheckActivity") \o Loop("Start")
  BY DEF Walk
<1>4. /\ Loop("PostLoad") \in Seq(PlaceType) /\ Loop("Awake") \in Seq(PlaceType)
      /\ Loop("CheckActivity") \in Seq(PlaceType) /\ Loop("Start") \in Seq(PlaceType)
  BY <1>2 DEF Phases
<1> HIDE DEF Loop
<1> QED BY <1>3, <1>4, ConcatFacts

LEMMA ControlStep ==
  ASSUME TypeOK, SceneInv, Next
  PROVE  ControlType'
<1>1. /\ ControlType /\ PartsType /\ GravesType /\ UpdaterType /\ RootsType /\ FrameInv
      /\ children \in Kids
  BY TypeGroups DEF SceneInv, TreeType
<1>2. /\ pc \in {"idle", "prepare", "destroy", "prepared", "build", "update", "end"}
      /\ work \in Seq(PlaceType) /\ cursor \in Nat /\ paused \in BOOLEAN
      /\ calling \in Component \cup {Null}
      /\ life \in {"alive", "destroying", "destroyed"}
  BY <1>1 DEF ControlType
<1>3. ASSUME UNCHANGED control PROVE ControlType'
  BY <1>1, <1>3, TypeFrame
<1>4. Application \/ SceneDestroyObject => UNCHANGED control
  BY Keeps, Zenon DEF Application
<1>5. ASSUME PrepareBegin PROVE ControlType'
  <2>1. pc' = "destroy" /\ UNCHANGED <<work, cursor, paused, calling, life>>
    BY <1>5 DEF PrepareBegin
  <2> QED BY <1>2, <2>1 DEF ControlType
<1>6. ASSUME PrepareOnDestroy PROVE ControlType'
  <2>1. /\ deadComps # <<>> /\ calling' = Head(deadComps)
        /\ UNCHANGED <<pc, work, cursor, paused, life>>
    BY <1>6 DEF PrepareOnDestroy
  <2>2. Head(deadComps) \in Component
    BY <1>1, <2>1, TailFacts DEF GravesType
  <2> QED BY <1>2, <2>1, <2>2 DEF ControlType
<1>7. ASSUME PrepareEnd PROVE ControlType'
  <2>1. /\ calling' = Null /\ pc' \in {"end", "prepared"} /\ (life' = "destroyed" \/ life' = life)
        /\ UNCHANGED <<work, cursor, paused>>
    BY <1>7 DEF PrepareEnd
  <2> QED BY <1>2, <2>1 DEF ControlType
<1>8. ASSUME BuildBegin PROVE ControlType'
  <2>1. /\ paused' \in Pauses /\ pc' = "build" /\ UNCHANGED <<cursor, calling, life>>
        /\ pc = "prepared"
        /\ \/ work' = work
           \/ root' \in GetRootSceneObjects /\ work' = Walk(<<Scene>>) \o Walk(root')
    BY <1>8 DEF BuildBegin
  <2>2. life = "alive"
    BY <1>1, <2>1 DEF FrameInv, ControlType
  <2>3. ASSUME root' \in GetRootSceneObjects
        PROVE  Walk(<<Scene>>) \o Walk(root') \in Seq(PlaceType)
    <3>1. root' \in Seq(Object)
      BY <2>2, <2>3, RootsFacts
    <3>2. root' \in Seq(Host) /\ <<Scene>> \in Seq(Host)
      BY <3>1, HostFacts, SeqMonotonic
    <3> QED BY <3>2, WalkType, ConcatFacts
  <2>4. paused' \in BOOLEAN
    BY <2>1, PartsAssumption
  <2> QED BY <1>2, <2>1, <2>3, <2>4 DEF ControlType
<1>9. ASSUME Visit PROVE ControlType'
  <2> DEFINE pl == Head(work)
  <2>1. /\ work # <<>> /\ calling' = Null /\ UNCHANGED <<pc, cursor, paused, life>>
        /\ \/ work' = Tail(work)
           \/ work' = <<[pl EXCEPT !.at = 1]>> \o Tail(work)
           \/ work' = Children(pl.phase, pl.host) \o Tail(work)
    <3>1. /\ work # <<>> /\ calling' = Null /\ UNCHANGED <<pc, cursor, paused, life>>
          /\ \/ work' = Tail(work)
             \/ \E w \in BOOLEAN : Enter(pl.phase, pl.host, w)
      <4>1. IsActive(pl.host) \in BOOLEAN
        BY DEF IsActive
      <4> QED BY <1>9, <4>1 DEF Visit
    <3> QED BY <3>1 DEF Enter
  <2>2. /\ pl \in PlaceType /\ pl.phase \in Phases /\ pl.host \in Host
        /\ Tail(work) \in Seq(PlaceType)
    BY <1>1, <2>1, HeadFacts
  <2> HIDE DEF pl
  <2> DEFINE next == [pl EXCEPT !.at = 1]
  <2>3. next \in PlaceType
    BY <2>2, PlaceFacts
  <2>4. Children(pl.phase, pl.host) \in Seq(PlaceType)
    BY <1>1, <2>2, ChildrenType
  <2>5. \/ work' = Tail(work)
        \/ work' = <<next>> \o Tail(work)
        \/ work' = Children(pl.phase, pl.host) \o Tail(work)
    BY <2>1
  <2> HIDE DEF next
  <2>6. <<next>> \o Tail(work) \in Seq(PlaceType)
    BY <2>2, <2>3, PushFacts
  <2>7. Children(pl.phase, pl.host) \o Tail(work) \in Seq(PlaceType)
    BY <2>2, <2>4, ConcatFacts
  <2>8. work' \in Seq(PlaceType)
    BY <2>2, <2>5, <2>6, <2>7
  <2> QED BY <1>2, <2>1, <2>8 DEF ControlType
<1>10. ASSUME CallComponent PROVE ControlType'
  <2> DEFINE pl == Head(work)
             c == comps[Head(work).host][Head(work).at]
  <2>1. /\ work # <<>> /\ Head(work).at \in DOMAIN comps[Head(work).host]
        /\ calling' \in {Null, c} /\ UNCHANGED <<pc, cursor, paused, life>>
        /\ work' = <<[pl EXCEPT !.at = pl.at + 1]>> \o Tail(work)
    <3>1. /\ work # <<>> /\ Head(work).at \in DOMAIN comps[Head(work).host]
          /\ UNCHANGED <<pc, cursor, paused, life>>
          /\ work' = <<[pl EXCEPT !.at = pl.at + 1]>> \o Tail(work)
      BY <1>10 DEF CallComponent
    <3>2. calling' \in {Null, c} \/ CheckActivity(c)
      BY <1>10 DEF CallComponent
    <3> HIDE DEF c, pl
    <3>3. CheckActivity(c) => calling' \in {Null, c}
      BY DEF CheckActivity
    <3> QED BY <3>1, <3>2, <3>3
  <2>2. c \in Component
    BY <1>1, <2>1, CalledFacts
  <2>3. pl \in PlaceType /\ pl.at \in Nat /\ Tail(work) \in Seq(PlaceType)
    BY <1>1, <2>1, HeadFacts
  <2> HIDE DEF c, pl
  <2> DEFINE k == pl.at + 1
             next == [pl EXCEPT !.at = k]
  <2>4. k \in Nat /\ work' = <<next>> \o Tail(work)
    BY <2>1, <2>3
  <2> HIDE DEF k
  <2>5. next \in PlaceType
    BY <2>3, <2>4, PlaceFacts
  <2> HIDE DEF next
  <2>6. <<next>> \o Tail(work) \in Seq(PlaceType)
    BY <2>3, <2>5, PushFacts
  <2>7. work' \in Seq(PlaceType)
    BY <2>4, <2>6
  <2> QED BY <1>2, <2>1, <2>2, <2>7 DEF ControlType
<1>11. ASSUME LeaveComponents PROVE ControlType'
  <2> DEFINE pl == Head(work)
  <2>1. /\ work # <<>> /\ calling' = Null /\ UNCHANGED <<pc, cursor, paused, life>>
        /\ work' = Children(pl.phase, pl.host) \o Tail(work)
    BY <1>11 DEF LeaveComponents
  <2>2. pl.phase \in Phases /\ pl.host \in Host /\ Tail(work) \in Seq(PlaceType)
    BY <1>1, <2>1, HeadFacts
  <2> HIDE DEF pl
  <2>3. work' \in Seq(PlaceType)
    BY <1>1, <2>1, <2>2, ChildrenType, ConcatFacts
  <2> QED BY <1>2, <2>1, <2>3 DEF ControlType
<1>12. ASSUME BuildEnd PROVE ControlType'
  <2>1. pc' = "update" /\ cursor' = 1 /\ calling' = Null /\ UNCHANGED <<work, paused, life>>
    BY <1>12 DEF BuildEnd
  <2> QED BY <1>2, <2>1 DEF ControlType
<1>13. ASSUME Update PROVE ControlType'
  <2>1. /\ cursor \in DOMAIN pool /\ cursor' = cursor + 1 /\ calling' \in {Null, pool[cursor]}
        /\ UNCHANGED <<pc, work, paused, life>>
    BY <1>13 DEF Update
  <2>2. pool[cursor] \in Component \cup {Null}
    BY <1>1, <2>1, ListFacts DEF UpdaterType
  <2> QED BY <1>2, <2>1, <2>2 DEF ControlType
<1>14. ASSUME UpdateEnd PROVE ControlType'
  <2>1. /\ pc' = "idle" /\ cursor' = 1 /\ paused' = FALSE /\ calling' = Null
        /\ UNCHANGED <<work, life>>
    BY <1>14 DEF UpdateEnd
  <2> QED BY <1>2, <2>1 DEF ControlType
<1>15. ASSUME SceneDestroy PROVE ControlType'
  <2>1. life' = "destroying" /\ pc' = "prepare" /\ UNCHANGED <<work, cursor, paused, calling>>
    BY <1>15 DEF SceneDestroy
  <2> QED BY <1>2, <2>1 DEF ControlType
<1> QED BY <1>3, <1>4, <1>5, <1>6, <1>7, <1>8, <1>9, <1>10, <1>11, <1>12, <1>13, <1>14,
           <1>15 DEF Next, Frame

LEMMA GhostsStep ==
  ASSUME TypeOK, SceneInv, Next
  PROVE  GhostsType'
<1>1. GhostsType /\ ControlType /\ PartsType
  BY TypeGroups
<1>2. ASSUME UNCHANGED ghosts PROVE GhostsType'
  BY <1>1, <1>2, TypeFrame
<1>3. ASSUME NEW L \in SUBSET Host, NEW B \in SUBSET Host, NEW O \in SUBSET Object,
             NEW b \in BOOLEAN, NEW d \in BOOLEAN,
             calls' = calls + 1 \/ calls' = calls, Lose(L, b), Block(B, d),
             late' = late \/ late' = late \cup O
      PROVE  GhostsType'
  <2>1. lost' \subseteq lost \cup L
    BY <1>3 DEF Lose
  <2>2. blocked' \subseteq blocked \cup B
    BY <1>3 DEF Block
  <2>3. calls' \in Nat
    BY <1>1, <1>3 DEF GhostsType
  <2> QED BY <1>1, <1>3, <2>1, <2>2, <2>3 DEF GhostsType
<1>4. ASSUME UNCHANGED blocked PROVE Block({}, FALSE)
  BY <1>4 DEF Block
<1>5. \A h : Up(h) \in SUBSET Host
  BY DEF Up
<1>6. \A o : Below(o) \in SUBSET Object
  BY DEF Below
<1>7. \A h : Overtaken(h) \in BOOLEAN
  BY DEF Overtaken
<1>8. ASSUME NEW o \in Object, InstanceGameObject(o) \/ SetObjectEnabled(o) PROVE GhostsType'
  <2> DEFINE h == IF InstanceGameObject(o) THEN Scene ELSE o
  <2>1. /\ calls' = calls + 1 /\ late' = late /\ UNCHANGED blocked
        /\ Lose({h}, Overtaken(h))
    BY <1>8 DEF InstanceGameObject, SetObjectEnabled, MayCall
  <2>2. {h} \in SUBSET Host
    BY HostFacts
  <2> HIDE DEF h
  <2> QED BY <1>3, <1>4, <1>7, <2>1, <2>2
<1>9. ASSUME NEW o \in Object, MoveToRoot(o) PROVE GhostsType'
  <2> DEFINE d == Overtaken(o) \/ Up(o) \cap blocked # {}
  <2>1. calls' = calls + 1 /\ late' = late /\ Lose({o}, TRUE) /\ Block({o}, d)
    BY <1>9 DEF MoveToRoot, MayCall
  <2>2. {o} \in SUBSET Host /\ d \in BOOLEAN
    BY HostFacts
  <2> HIDE DEF d
  <2> QED BY <1>3, <2>1, <2>2
<1>10. ASSUME NEW o \in Object, NEW p \in Object, MoveToTree(o, p) PROVE GhostsType'
  <2> DEFINE b == Overtaken(p) \/ (o \in active /\ p \notin active)
             d == Overtaken(p) \/ o \in blocked
  <2>1. calls' = calls + 1 /\ late' = late /\ Lose({o}, b) /\ Block(Up(p), d)
    BY <1>10 DEF MoveToTree, MayCall
  <2>2. {o} \in SUBSET Host /\ b \in BOOLEAN /\ d \in BOOLEAN
    BY HostFacts
  <2> HIDE DEF b, d
  <2> QED BY <1>3, <1>5, <2>1, <2>2
<1>11. ASSUME NEW o \in Object, Destroy(o) PROVE GhostsType'
  <2>1. /\ calls' = calls + 1 /\ Lose({Scene}, Overtaken(Scene)) /\ UNCHANGED blocked
        /\ late' = late \/ late' = late \cup Below(o)
    BY <1>11 DEF Destroy, MayCall
  <2>2. {Scene} \in SUBSET Host
    BY HostFacts
  <2> QED BY <1>3, <1>4, <1>6, <1>7, <2>1, <2>2
<1>12. ASSUME NEW h \in Host, NEW c \in Component, AddComponent(h, c) PROVE GhostsType'
  <2>1. /\ calls' = calls + 1 /\ late' = late /\ Lose({h}, Overtaken(h))
        /\ Block(Up(h), Overtaken(h))
    BY <1>12 DEF AddComponent, MayCall
  <2> QED BY <1>3, <1>5, <1>7, <2>1
<1>13. ASSUME NEW h \in Host, NEW c \in Component, RemoveComponent(h, c) PROVE GhostsType'
  <2> DEFINE d == h \in unattached /\ comps[h] = <<c>>
  <2>1. /\ calls' = calls + 1 /\ late' = late /\ Lose({h}, Overtaken(h)) /\ Block(Up(h), d)
    BY <1>13 DEF RemoveComponent, MayCall
  <2>2. d \in BOOLEAN
    OBVIOUS
  <2> HIDE DEF d
  <2> QED BY <1>3, <1>5, <1>7, <2>1, <2>2
<1>14. ASSUME NEW c \in Component, SetComponentEnabled(c) PROVE GhostsType'
  <2>1. /\ calls' = calls + 1 /\ late' = late /\ Lose({host[c]}, Overtaken(host[c]))
        /\ UNCHANGED blocked /\ host[c] # Null
    BY <1>14 DEF SetComponentEnabled, MayCall
  <2>2. {host[c]} \in SUBSET Host
    BY <1>1, <2>1 DEF PartsType
  <2> QED BY <1>3, <1>4, <1>7, <2>1, <2>2
<1>15. ASSUME SceneDestroyObject PROVE GhostsType'
  <2>1. /\ calls' = calls /\ late' = late /\ Lose({Scene}, Overtaken(Scene))
        /\ UNCHANGED blocked
    BY <1>15 DEF SceneDestroyObject
  <2>2. {Scene} \in SUBSET Host
    BY HostFacts
  <2> QED BY <1>3, <1>4, <1>7, <2>1, <2>2
<1>16. ASSUME CallComponent PROVE GhostsType'
  <2> DEFINE h == Head(work).host
  <2>1. /\ work # <<>> /\ UNCHANGED <<calls, blocked, late>>
        /\ lost' = lost \/ lost' = lost \cup {h}
    BY <1>16 DEF CallComponent
  <2>2. h \in Host
    BY <1>1, <2>1, HeadFacts
  <2> HIDE DEF h
  <2> QED BY <1>1, <2>1, <2>2 DEF GhostsType
<1>17. ASSUME PrepareBegin \/ PrepareEnd \/ SceneDestroy PROVE GhostsType'
  <2>1. UNCHANGED <<calls, lost, blocked, late>>
    BY <1>17 DEF PrepareBegin, PrepareEnd, SceneDestroy
  <2> QED BY <1>1, <2>1 DEF GhostsType
<1>18. PrepareOnDestroy \/ BuildBegin \/ Visit \/ LeaveComponents \/ BuildEnd \/ Update
         \/ UpdateEnd => UNCHANGED ghosts
  BY Keeps
<1> QED BY <1>2, <1>8, <1>9, <1>10, <1>11, <1>12, <1>13, <1>14, <1>15, <1>16, <1>17, <1>18,
           Zenon DEF Next, Application, Frame

-----------------------------------------------------------------------------
(* The assertions *)

\* A list of all positions of a table, without repetition, is as long as it.
LEMMA AllPositions ==
  ASSUME NEW m \in Nat, NEW f \in Seq(Nat), Distinct(f), ToSet(f) = 1..m
  PROVE  Len(f) = m
<1>1. Len(f) \in Nat /\ DOMAIN f = 1..Len(f) /\ f \in [1..Len(f) -> Nat]
  BY ListFacts, LenProperties
<1> DEFINE n == Len(f)
           I == 1..n
           T == 1..m
<1>2. f \in [I -> T] /\ \A y \in T : \E i \in I : f[i] = y
  BY <1>1 DEF ToSet
<1>3. f \in Injection(I, T) /\ f \in Surjection(I, T)
  BY <1>1, <1>2 DEF Injection, Surjection, IsInjective, Distinct
<1>4. n \in Nat
  BY <1>1
<1> HIDE DEF n
<1>5. /\ IsFiniteSet(I) /\ Cardinality(I) = n
      /\ IsFiniteSet(T) /\ Cardinality(T) = m
  BY <1>4, FS_Interval
<1> HIDE DEF I, T
<1>6. Cardinality(I) = Cardinality(T)
  BY <1>3, <1>5, FS_Injection
<1> QED BY <1>5, <1>6 DEF n

\* The assertions at the end of Prepare, which are the only ones left.
LEMMA AssertStep ==
  ASSUME TypeOK, SceneInv, Next
  PROVE  AssertionsHold'
<1>1. CASE halts' = {}
  BY <1>1 DEF AssertionsHold
<1>2. CASE PrepareEnd
  <2>1. /\ TreeType /\ TableType /\ GravesType /\ QueueInv /\ SlotInv /\ FrameInv /\ LateInv
        /\ RootInv /\ halts = {}
    BY TypeGroups, Running DEF SceneInv
  <2> DEFINE held == \E o \in ToSet(deleteQueue) : comps[o] # <<>>
             left == life = "destroying" /\ Len(slots) # Len(freeIndices)
  <2>2. /\ pc = "destroy" /\ late' = late
        /\ halts' = halts \cup (IF held THEN {"components held"} ELSE {})
                          \cup (IF left THEN {"objects left"} ELSE {})
    BY <1>2 DEF PrepareEnd
  <2>3. held => late # {}
    BY <2>1, <2>2 DEF LateInv, QueueInv
  <2>4. ~left
    <3> SUFFICES ASSUME life = "destroying" PROVE Len(slots) = Len(freeIndices)
      OBVIOUS
    <3>1. Live = {}
      BY <2>1, <2>2 DEF RootInv
    <3>2. Len(slots) \in Nat /\ DOMAIN slots = 1..Len(slots) /\ freeIndices \in Seq(Nat)
      BY <2>1, ListFacts DEF TableType
    <3>3. \A i \in DOMAIN slots : slots[i] = Null
      BY <2>1, <3>1 DEF SlotInv
    <3>4. Distinct(freeIndices) /\ ToSet(freeIndices) = 1..Len(slots)
      BY <2>1, <3>2, <3>3 DEF SlotInv, FreeListOf, Distinct
    <3> QED BY <3>2, <3>4, AllPositions
  <2> HIDE DEF held, left
  <2>5. halts' # {} => held
    BY <2>1, <2>2, <2>4
  <2> QED BY <2>2, <2>3, <2>5 DEF AssertionsHold
<1> QED BY <1>1, <1>2, PartsStep

-----------------------------------------------------------------------------
(* The start *)

\* In a forest every chain of parents ends.
LEMMA ForestRooted ==
  ASSUME NEW kids \in Kids, Disjoint(kids),
         \A S \in SUBSET Object : S # {} => \E o \in S : \A p \in S : ~Contains(kids[p], o)
  PROVE  Rooted(ParentsIn(kids))
<1> DEFINE par == ParentsIn(kids)
<1>1. /\ par \in Pointers /\ \A x, p \in Object : par[x] = p <=> Contains(kids[p], x)
      /\ \A x \in Host : par[x] \in Object \cup {Null}
  <2>1. \A x, p \in Object : Contains(kids[p], x) <=> x \in ToSet(kids[p])
    <3>1. \A p \in Object : kids[p] \in Seq(Object)
      BY DEF Kids
    <3> QED BY <3>1, ListFacts
  <2> QED BY <2>1, ParentFacts, HostFacts
<1> HIDE DEF par
<1> SUFFICES ASSUME NEW h \in Host, \A x \in Chain(par, h) : par[x] # Null PROVE FALSE
  BY DEF Rooted, par
<1> DEFINE S == Chain(par, h) \cap Object
<1>2. /\ h \in Chain(par, h) /\ Chain(par, h) \subseteq Host
      /\ \A x \in Chain(par, h) : par[x] \in S
  BY <1>1, ChainFacts
<1>3. S # {} /\ S \in SUBSET Object
  BY <1>2
<1>4. PICK o \in S : \A p \in S : ~Contains(kids[p], o)
  BY <1>3
<1>5. par[o] \in S /\ o \in Object /\ par[o] \in Object
  BY <1>2, <1>4
<1> QED BY <1>1, <1>4, <1>5

\* What LoadsAssumption says of a load, and the hosts that Init makes of it.
LEMMA LoadFacts ==
  ASSUME NEW load \in Loads
  PROVE  /\ load.queue \in Seq(Object) /\ load.children \in Kids
         /\ load.comps \in [Host -> Seq(Component)]
         /\ Distinct(load.queue) /\ Disjoint(load.children) /\ Disjoint(load.comps)
         /\ Rooted(ParentsIn(load.children))
         /\ \A o \in Object :
              /\ ToSet(load.children[o]) \subseteq ToSet(load.queue)
              /\ o \notin ToSet(load.queue) => load.children[o] = <<>> /\ load.comps[o] = <<>>
<1>1. /\ load.queue \in Seq(Object) /\ load.children \in Kids
      /\ load.comps \in [Host -> Seq(Component)]
  BY LoadsAssumption DEF Kids
<1>2. Distinct(load.queue) /\ Disjoint(load.children) /\ Disjoint(load.comps)
  BY LoadsAssumption DEF Distinct
<1>3. \A S \in SUBSET Object : S # {} =>
        \E o \in S : \A p \in S : ~Contains(load.children[p], o)
  BY LoadsAssumption
<1>4. \A o \in Object :
        /\ ToSet(load.children[o]) \subseteq ToSet(load.queue)
        /\ o \notin ToSet(load.queue) => load.children[o] = <<>> /\ load.comps[o] = <<>>
  BY LoadsAssumption
<1>5. Rooted(ParentsIn(load.children))
  BY <1>1, <1>2, <1>3, ForestRooted
<1> QED BY <1>1, <1>2, <1>4, <1>5

\* The host that has a component.
LEMMA HostOf ==
  ASSUME NEW lists \in [Host -> Seq(Component)], Disjoint(lists)
  PROVE  /\ \A h \in Host : \A c : Contains(lists[h], c) <=> c \in ToSet(lists[h])
         /\ \A h \in Host : ToSet(lists[h]) \subseteq Component
         /\ \A h \in Host : \A c : Contains(lists[h], c) =>
              (CHOOSE g \in Host : Contains(lists[g], c)) = h
<1>1. /\ \A h \in Host : \A c : Contains(lists[h], c) <=> c \in ToSet(lists[h])
      /\ \A h \in Host : ToSet(lists[h]) \subseteq Component
  <2>1. \A h \in Host : lists[h] \in Seq(Component)
    OBVIOUS
  <2> QED BY <2>1, ListFacts
<1>2. \A g, h \in Host : \A c : c \in ToSet(lists[g]) /\ c \in ToSet(lists[h]) => g = h
  BY DEF Disjoint, ToSet
<1> QED BY <1>1, <1>2

LEMMA InvInit == Init => Inv
<1> SUFFICES ASSUME Init PROVE TypeOK /\ AssertionsHold /\ SceneInv
  BY DEF Inv
<1>1. PICK load \in Loads :
        /\ newQueue = load.queue /\ created = ToSet(load.queue)
        /\ children = load.children
        /\ comps = load.comps
        /\ added = UNION {ToSet(load.comps[h]) : h \in Host}
        /\ host = [c \in Component |->
                     IF \E h \in Host : Contains(load.comps[h], c)
                     THEN CHOOSE h \in Host : Contains(load.comps[h], c) ELSE Null]
        /\ unattached = {h \in Host : load.comps[h] # <<>>}
        /\ changed = (load.queue # <<>>)
        /\ updaterDirty = (load.queue # <<>> \/ load.comps[Scene] # <<>>)
  BY DEF Init
<1>2. /\ destroyed = {} /\ freed = {}
      /\ attached = {} /\ awake = {} /\ started = {}
      /\ enabled = Object \cup Component /\ active = {}
      /\ dirty = Host
      /\ slots = <<>> /\ freeIndices = <<>> /\ deleteQueue = <<>> /\ deadComps = <<>>
      /\ idInScene = [o \in Object |-> 0]
      /\ root = <<>> /\ life = "alive"
      /\ pool = <<>> /\ freeIds = <<>> /\ index = [c \in Component |-> 0]
  BY DEF Init
<1>3. /\ pc = "idle" /\ work = <<>> /\ cursor = 1 /\ paused = FALSE /\ calling = Null
      /\ calls = 0 /\ lost = {} /\ blocked = {} /\ late = {} /\ halts = {}
  BY DEF Init
<1>4. /\ newQueue \in Seq(Object) /\ children \in Kids /\ comps \in [Host -> Seq(Component)]
      /\ Distinct(newQueue) /\ Disjoint(children) /\ Disjoint(comps)
      /\ Rooted(ParentsIn(children))
      /\ \A o \in Object :
           /\ ToSet(children[o]) \subseteq ToSet(newQueue)
           /\ o \notin ToSet(newQueue) => children[o] = <<>> /\ comps[o] = <<>>
  BY <1>1, LoadFacts
<1>5. created = ToSet(newQueue) /\ created \subseteq Object /\ Live = created
  BY <1>1, <1>2, <1>4, ListFacts DEF Live
<1>6. /\ added = UNION {ToSet(comps[h]) : h \in Host}
      /\ host = [c \in Component |-> IF \E h \in Host : Contains(comps[h], c)
                                     THEN CHOOSE h \in Host : Contains(comps[h], c) ELSE Null]
      /\ unattached \subseteq Host
      /\ changed = (newQueue # <<>>) /\ updaterDirty \in BOOLEAN
  BY <1>1
<1>7. TreeType /\ TreeInv
  BY <1>2, <1>4, <1>5 DEF TreeType, TreeInv
<1>8. /\ added \subseteq Component /\ host \in [Component -> Host \cup {Null}]
      /\ \A h \in Host : \A c \in ToSet(comps[h]) : host[c] = h /\ c \in added
  <2>1. /\ \A h \in Host : \A c : Contains(comps[h], c) <=> c \in ToSet(comps[h])
        /\ \A h \in Host : ToSet(comps[h]) \subseteq Component
        /\ \A h \in Host : \A c : Contains(comps[h], c) =>
             (CHOOSE g \in Host : Contains(comps[g], c)) = h
    BY <1>4, HostOf
  <2>2. added \subseteq Component
    BY <1>6, <2>1
  <2>3. host \in [Component -> Host \cup {Null}]
    BY <1>6
  <2>4. \A h \in Host : \A c \in ToSet(comps[h]) : host[c] = h
    BY <1>6, <2>1
  <2>5. \A h \in Host : \A c \in ToSet(comps[h]) : c \in added
    BY <1>6
  <2> QED BY <2>2, <2>3, <2>4, <2>5
<1>9. PartsType /\ GravesType /\ CompInv
  <2>1. \A o \in Object : comps[o] # <<>> => o \in created \ freed
    BY <1>2, <1>4, <1>5
  <2>2. deadComps = <<>> /\ deleteQueue = <<>> /\ ToSet(deadComps) = {}
    BY <1>2, EmptyList
  <2> QED BY <1>2, <1>4, <1>8, <2>1, <2>2, EmptyList DEF PartsType, GravesType, CompInv
<1>10. FlagsType /\ MarksType /\ RootsType /\ ControlType /\ GhostsType
  <2>1. FlagsType /\ MarksType
    BY <1>2, <1>6 DEF FlagsType, MarksType
  <2>2. RootsType
    BY <1>2, <1>6, EmptyList DEF RootsType
  <2>3. work \in Seq(PlaceType)
    BY <1>3, EmptyList
  <2>4. ControlType
    BY <1>2, <1>3, <2>3 DEF ControlType
  <2>5. GhostsType
    BY <1>3 DEF GhostsType
  <2> QED BY <2>1, <2>2, <2>4, <2>5
<1>11. TableType /\ QueueInv /\ SlotInv
  <2>1. idInScene \in [Object -> Nat] /\ \A o \in Object : idInScene[o] = 0
    BY <1>2
  <2>2. TableType
    BY <1>2, <1>4, <2>1, EmptyList DEF TableType
  <2>3. QueueInv
    BY <1>2, <1>4, <1>5, <2>1, EmptyList DEF QueueInv
  <2>4. SlotInv
    BY <1>2, <1>5, EmptyList DEF SlotInv, FreeListOf
  <2> QED BY <2>2, <2>3, <2>4
<1>12. UpdaterType /\ PoolInv
  <2>1. index \in [Component -> Nat] /\ InPool = {}
    BY <1>2 DEF InPool
  <2>2. UpdaterType
    BY <1>2, <2>1, EmptyList DEF UpdaterType
  <2>3. PoolInv
    BY <1>2, <2>1, EmptyList DEF PoolInv, PoolTable, FreeListOf
  <2> QED BY <2>2, <2>3
<1>13. FrameInv /\ LateInv
  BY <1>3, <1>2 DEF FrameInv, LateInv
<1>14. RootInv
  <2>1. ToSet(slots) = {} /\ ToSet(root) = {} /\ Distinct(root)
    BY <1>2, EmptyList
  <2> QED BY <1>2, <1>3, <2>1 DEF RootInv
<1>15. TypeOK
  BY <1>7, <1>9, <1>10, <1>11, <1>12, TypeGroups
<1>16. AssertionsHold
  BY <1>3 DEF AssertionsHold
<1> QED BY <1>7, <1>9, <1>11, <1>12, <1>13, <1>14, <1>15, <1>16 DEF SceneInv

-----------------------------------------------------------------------------
(* Every step *)

\* Nothing happens once an assertion has failed.
LEMMA InvNext == Inv /\ [Next]_vars => Inv'
<1> SUFFICES ASSUME Inv, [Next]_vars PROVE Inv'
  OBVIOUS
<1>1. ASSUME Next PROVE Inv'
  <2>1. TypeOK /\ SceneInv
    BY <1>1, Running DEF Inv
  <2>2. /\ TreeType' /\ TreeInv' /\ TableType' /\ QueueInv' /\ SlotInv'
        /\ deleteQueue' \in Seq(Object)
    BY <1>1, <2>1, TreeStep, TableStep
  <2>3. /\ PartsType' /\ deadComps' \in Seq(Component) /\ UpdaterType' /\ PoolInv'
        /\ halts' = {} => CompInv'
    BY <1>1, <2>1, PartsStep
  <2>4. FlagsType' /\ MarksType' /\ RootsType' /\ ControlType' /\ GhostsType'
    BY <1>1, <2>1, FlagsStep, MarksStep, RootsStep, ControlStep, GhostsStep
  <2>5. GravesType'
    BY <2>2, <2>3 DEF GravesType
  <2>6. TypeOK'
    BY <2>2, <2>3, <2>4, <2>5, TypeGroupsNext
  <2>7. FrameInv' /\ LateInv' /\ RootInv' /\ AssertionsHold'
    BY <1>1, <2>1, FrameStep, LateStep, RootStep, AssertStep
  <2>8. halts' = {} => SceneInv'
    BY <2>2, <2>3, <2>7 DEF SceneInv
  <2> QED BY <2>6, <2>7, <2>8 DEF Inv
<1>2. ASSUME UNCHANGED vars PROVE Inv'
  <2>1. UNCHANGED <<tree, parts, flags, marks, table, graves, roots, updater, control, ghosts>>
    BY <1>2 DEF vars
  <2>2. TypeOK'
    BY <2>1, TypeFrame, TypeGroups, TypeGroupsNext DEF Inv
  <2>3. AssertionsHold'
    BY <2>1 DEF Inv, AssertionsHold, ghosts
  <2>4. ASSUME SceneInv PROVE SceneInv'
    <3>1. /\ TreeInv' /\ QueueInv' /\ SlotInv'
      BY <2>1, <2>4 DEF SceneInv, TreeInv, QueueInv, SlotInv, tree, table, graves, Live
    <3>2. CompInv' /\ PoolInv'
      BY <2>1, <2>4 DEF SceneInv, CompInv, PoolInv, PoolTable, InPool, tree, parts, flags, graves,
         updater
    <3>3. FrameInv' /\ LateInv'
      BY <2>1, <2>4 DEF SceneInv, FrameInv, LateInv, tree, parts, control, ghosts
    <3>4. \A x : Parent(x)' = Parent(x) /\ Up(x)' = Up(x)
      BY <2>1, UpIsChain DEF tree
    <3>5. RootInv'
      BY <2>1, <2>4, <3>4 DEF SceneInv, RootInv, tree, table, roots, control, Live
    <3> QED BY <3>1, <3>2, <3>3, <3>5 DEF SceneInv
  <2>5. halts' = halts
    BY <2>1 DEF ghosts
  <2> QED BY <2>2, <2>3, <2>4, <2>5 DEF Inv
<1> QED BY <1>1, <1>2

-----------------------------------------------------------------------------
(* The theorems *)

\* The whole invariant: the tree is a forest of living objects, tables, queues
\* and lists of components agree with it, whatever the callbacks did.
THEOREM SceneInvariant == Spec => []Inv
<1> QED BY InvInit, InvNext, PTL DEF Spec

\* Every variable of the scene and of its updater keeps its type.
THEOREM SceneTypes == Spec => []TypeOK
<1>1. Inv => TypeOK
  BY DEF Inv
<1> QED BY <1>1, SceneInvariant, PTL

\* Scene::Prepare and Scene::Remove keep slots, free list, new queue and delete
\* queue in step.
THEOREM SceneSlots == Spec => []SlotsAgree
<1>1. Inv => SlotsAgree
  <2> SUFFICES ASSUME Inv, halts = {} PROVE SlotsAgree
    BY DEF SlotsAgree
  <2>1. /\ TreeType /\ TableType /\ GravesType /\ QueueInv /\ SlotInv
    BY TypeGroups DEF Inv, SceneInv
  <2>2. /\ \A x : Contains(newQueue, x) <=> x \in ToSet(newQueue)
        /\ \A x : Contains(deleteQueue, x) <=> x \in ToSet(deleteQueue)
    BY <2>1, ListFacts DEF TableType, GravesType
  <2>3. \A o \in created :
          {i \in DOMAIN slots : slots[i] = o}
            = IF o \in destroyed \/ Contains(newQueue, o) THEN {} ELSE {idInScene[o]}
    <3> SUFFICES ASSUME NEW o \in created
                 PROVE  {i \in DOMAIN slots : slots[i] = o}
                          = IF o \in destroyed \/ Contains(newQueue, o) THEN {} ELSE {idInScene[o]}
      OBVIOUS
    <3>1. o # Null
      BY <2>1, HostFacts DEF TreeType
    <3>2. CASE o \in destroyed \/ Contains(newQueue, o)
      BY <2>1, <2>2, <3>1, <3>2 DEF SlotInv, Live
    <3>3. CASE ~(o \in destroyed \/ Contains(newQueue, o))
      BY <2>1, <2>2, <3>1, <3>3 DEF SlotInv, Live
    <3> QED BY <3>2, <3>3
  <2>4. \A o \in destroyed \ freed : Contains(deleteQueue, o)
    BY <2>1, <2>2 DEF QueueInv
  <2> QED BY <2>1, <2>3, <2>4 DEF SlotsAgree, SlotInv
<1> QED BY <1>1, SceneInvariant, PTL

\* The updater's plain pointers: what is in the pool is attached, on its host,
\* and of a host that has not been freed.
THEOREM ScenePool == Spec => []PoolIsLive
<1>1. Inv => PoolIsLive
  <2> SUFFICES ASSUME Inv, halts = {} PROVE PoolIsLive
    BY DEF PoolIsLive
  <2>1. /\ TreeType /\ PartsType /\ UpdaterType /\ CompInv /\ PoolInv
    BY TypeGroups DEF Inv, SceneInv
  <2>2. /\ DOMAIN pool \subseteq Nat \ {0} /\ Null \notin Component
        /\ \A i \in DOMAIN pool : pool[i] # Null => pool[i] \in Component
    BY <2>1, ListFacts, HostFacts DEF UpdaterType
  <2>3. \A i \in DOMAIN pool : pool[i] # Null => index[pool[i]] = i /\ pool[i] \in InPool
    BY <2>1, <2>2 DEF PoolInv, PoolTable, InPool
  <2>4. \A c \in Component :
          {i \in DOMAIN pool : pool[i] = c} = IF index[c] = 0 THEN {} ELSE {index[c]}
    <3> SUFFICES ASSUME NEW c \in Component
                 PROVE  {i \in DOMAIN pool : pool[i] = c} = IF index[c] = 0 THEN {} ELSE {index[c]}
      OBVIOUS
    <3>1. CASE index[c] = 0
      BY <2>2, <2>3, <3>1
    <3>2. CASE index[c] # 0
      <4>1. index[c] \in DOMAIN pool /\ pool[index[c]] = c
        BY <2>1, <3>2 DEF PoolInv, PoolTable, InPool
      <4> QED BY <2>2, <2>3, <3>2, <4>1
    <3> QED BY <3>1, <3>2
  <2>5. ASSUME NEW i \in DOMAIN pool, pool[i] # Null
        PROVE  /\ pool[i] \in attached
               /\ Contains(comps[host[pool[i]]], pool[i])
               /\ host[pool[i]] \notin freed
    <3> DEFINE c == pool[i]
               h == host[c]
    <3>1. c \in attached /\ h \in Host /\ c \in ToSet(comps[h])
      BY <2>3, <2>5, <2>1 DEF PoolInv
    <3> HIDE DEF c, h
    <3>2. comps[h] \in Seq(Component)
      BY <2>1, <3>1 DEF PartsType
    <3>3. Contains(comps[h], c) /\ comps[h] # <<>>
      BY <3>1, <3>2, ListFacts
    <3>4. h \notin freed
      BY <2>1, <3>1, <3>3, HostFacts DEF CompInv, TreeType, Host
    <3> QED BY <3>1, <3>3, <3>4 DEF c, h
  <2> QED BY <2>1, <2>4, <2>5 DEF PoolIsLive, PoolInv, PoolTable
<1> QED BY <1>1, SceneInvariant, PTL

\* No assertion of the scene fails, unless an OnDestroy destroyed an object.
THEOREM SceneAssertions == Spec => []AssertionsHold
<1>1. Inv => AssertionsHold
  BY DEF Inv
<1> QED BY <1>1, SceneInvariant, PTL

-----------------------------------------------------------------------------
(* Dirty flags: the second inductive invariant *)

\* What is above a member of S is in S.
UpClosed(S) == \A o \in Object : Parent(o) # Null /\ o \in S => Parent(o) \in S

\* The updater will be marked when Build gets to the Start of the scene.
SceneDue == Scene \in dirty /\ Overtaken(Scene)

\* Build has yet to attach components of y, or is about to.
Loading(y) == \E pl \in ToSet(work) : pl.phase = "PostLoad" /\ pl.host \in Up(y)

\* The place at which Build clears the flags of an object and below it.
Clears(pl) == pl.phase = "Start" /\ pl.at = 0 /\ ~pl.force

\* Phase p comes after phase q.
Later(p, q) ==
  \/ p = "Start" /\ q # "Start"
  \/ p = "CheckActivity" /\ q \in {"PostLoad", "Awake"}
  \/ p = "Awake" /\ q = "PostLoad"

\* One phase after the other, first for the scene, then for all objects.
Ordered(s) ==
  \A j, k \in DOMAIN s :
    j < k /\ Later(s[j].phase, s[k].phase) => s[j].host = Scene /\ s[k].host # Scene

\* Where the walk goes before the Start, it comes back to clear flags;
\* only children are visited unconditionally.
WalkInv ==
  /\ Ordered(work)
  /\ \A pl \in ToSet(work) : pl.force => Parent(pl.host) # Null
  /\ \A pl \in ToSet(work) : pl.phase # "Start" /\ pl.host # Scene =>
       /\ pl.force => Overtaken(pl.host)
       /\ ~pl.force => \E other \in ToSet(work) : Clears(other) /\ other.host = pl.host

\* What is dirty or blocked makes everything above it so; what waits to be
\* attached is dirty, and blocked when it has lost its components.
MarkInv ==
  /\ UpClosed(dirty) /\ UpClosed(blocked)
  /\ Object \cap unattached \subseteq dirty \cap created
  /\ \A o \in Live \cap unattached : comps[o] = <<>> => o \in blocked
  /\ pc \in {"destroy", "prepared"} /\ newQueue # <<>> => Scene \in dirty

\* Unless it is blocked, what waits to be attached or is dirty will be visited:
\* by this Build or by the next.
DueInv ==
  \A y \in Live : Up(y) \cap blocked = {} /\ ~updaterDirty /\ ~SceneDue =>
    /\ y \in unattached => Loading(y)
    /\ y \in dirty => Overtaken(y)

FlagInv == WalkInv /\ MarkInv /\ DueInv

-----------------------------------------------------------------------------
(* What is above what *)

\* A set closed upward has all that is above a member.
LEMMA ClosedUp ==
  ASSUME TreeType, TreeInv, NEW S, UpClosed(S), NEW h \in Host, h \in S
  PROVE  Up(h) \subseteq S
<1> DEFINE par == ParentsIn(children)
           T == S \cap Host
<1>1. /\ par \in Pointers /\ \A x \in Host : Parent(x) = par[x]
      /\ Up(h) = Chain(par, h) /\ Parent(Scene) = Null
      /\ \A x : Parent(x) \in Object \cup {Null}
  BY TreeFacts, UpIsChain
<1> HIDE DEF par
<1>2. T \in SUBSET Host /\ h \in T
  OBVIOUS
<1>3. \A y \in T : par[y] # Null => par[y] \in T
  <2> SUFFICES ASSUME NEW y \in T, par[y] # Null PROVE par[y] \in T
    OBVIOUS
  <2>1. y \in Host /\ y \in S /\ Parent(y) # Null /\ Parent(y) = par[y]
    BY <1>1
  <2>2. y \in Object
    BY <1>1, <2>1 DEF Host
  <2> QED BY <1>1, <2>1, <2>2, HostFacts DEF UpClosed
<1>4. Chain(par, h) \subseteq T
  <2> HIDE DEF T
  <2> QED BY <1>1, <1>2, <1>3, ChainFacts
<1> QED BY <1>1, <1>4

\* Nothing is above itself.
LEMMA Acyclic ==
  ASSUME TreeType, TreeInv, NEW x \in Host
  PROVE  /\ Parent(x) # Null => x \notin Up(Parent(x)) /\ Parent(x) # x
         /\ \A y \in Up(x) : x \in Up(y) => x = y
<1>1. /\ x \in Up(x) /\ Up(x) \subseteq Host
      /\ Up(x) = {x} \cup (IF Parent(x) = Null THEN {} ELSE Up(Parent(x)))
      /\ Top(x) \in Up(x) /\ Parent(Top(x)) = Null
  BY UpFacts
<1>2. ASSUME Parent(x) # Null PROVE x \notin Up(Parent(x))
  <2> SUFFICES ASSUME x \in Up(Parent(x)) PROVE FALSE
    OBVIOUS
  <2> DEFINE S == {z \in Host : x \in Up(z)}
  <2>1. ASSUME NEW o \in Object, Parent(o) # Null, o \in S PROVE Parent(o) \in S
    <3>1. o \in Host /\ Parent(o) \in Object /\ Parent(o) \in Host
      BY <2>1, TreeFacts, HostFacts
    <3>2. Up(o) = {o} \cup Up(Parent(o))
      BY <2>1, <3>1, UpFacts
    <3> QED BY <2>1, <3>1, <3>2
  <2>2. UpClosed(S)
    BY <2>1 DEF UpClosed
  <2>3. x \in S
    BY <1>1
  <2> HIDE DEF S
  <2>4. Top(x) \in S
    BY <1>1, <2>2, <2>3, ClosedUp
  <2>5. Top(x) \in Host /\ Up(Top(x)) = {Top(x)}
    BY <1>1, UpFacts
  <2>6. x = Top(x)
    BY <2>4, <2>5 DEF S
  <2> QED BY <1>1, <1>2, <2>6
<1>3. ASSUME Parent(x) # Null PROVE Parent(x) # x
  BY <1>1, <1>2, <1>3
<1>4. ASSUME NEW y \in Up(x), x \in Up(y) PROVE x = y
  <2> SUFFICES ASSUME x # y PROVE FALSE
    OBVIOUS
  <2>1. Parent(x) # Null /\ y \in Up(Parent(x))
    BY <1>1, <1>4
  <2>2. Parent(x) \in Host
    BY <2>1, TreeFacts, HostFacts
  <2>3. Up(y) \subseteq Up(Parent(x))
    BY <2>1, <2>2, UpFacts
  <2> QED BY <1>2, <1>4, <2>1, <2>3
<1> QED BY <1>2, <1>3, <1>4

\* What is below a living object lives.
LEMMA BelowLives ==
  ASSUME TreeType, TreeInv, NEW x \in Object, NEW a \in Up(x), a \in Live \/ a # x
  PROVE  x \in Live /\ a \in Live /\ a \in Object
<1>1. x \in Host /\ Up(x) = {x} \cup (IF Parent(x) = Null THEN {} ELSE Up(Parent(x)))
  BY HostFacts, UpFacts
<1>2. x \in Live
  BY <1>1, TreeFacts
<1>3. Up(x) \subseteq Live /\ Up(x) \subseteq Object
  BY <1>2, TreeFacts
<1> QED BY <1>2, <1>3

\* SetDirty(true) keeps the flags closed upward although it stops at the first
\* that is marked.
LEMMA ClimbFacts ==
  ASSUME TreeType, TreeInv, NEW h \in Host, UpClosed(dirty)
  PROVE  /\ Climb(h) \subseteq Up(h) /\ h \in dirty \cup Climb(h)
         /\ \A o \in Object : Parent(o) # Null /\ o \in Climb(h) => Parent(o) \in dirty \cup Climb(h)
         /\ UpClosed(dirty \cup Climb(h))
         /\ Top(h) \in Climb(h) \/ Top(h) \in dirty
         /\ \A y \in Climb(h) : Top(h) \in Up(y)
<1>1. Climb(h) \subseteq Up(h)
  BY DEF Climb
<1>2. /\ h \in Up(h) /\ Up(h) \subseteq Host /\ Top(h) \in Up(h)
      /\ \A x \in Up(h) : Top(h) \in Up(x) /\ (Parent(x) # Null => Parent(x) \in Up(h))
      /\ \A x, y \in Up(h) : x \in Up(y) \/ y \in Up(x)
  BY UpFacts
<1>3. \A w \in Up(h) : w \in dirty => Up(w) \subseteq dirty
  BY <1>2, ClosedUp
<1>4. \A x \in Up(h) : x \in dirty \/ x \in Climb(h)
                       \/ \E w \in Up(h) : x \in Up(w) /\ w \in dirty
  BY DEF Climb
<1>5. \A x \in Up(h) : x \in dirty \cup Climb(h)
  BY <1>3, <1>4
<1>6. \A o \in Object : Parent(o) # Null /\ o \in Climb(h) => Parent(o) \in dirty \cup Climb(h)
  BY <1>1, <1>2, <1>5
<1>7. UpClosed(dirty \cup Climb(h))
  BY <1>6 DEF UpClosed
<1> QED BY <1>1, <1>2, <1>5, <1>6, <1>7

\* The same tree, the same places.
LEMMA OvertakenFacts ==
  ASSUME ControlType
  PROVE  \A h : Overtaken(h) <=> \E pl \in ToSet(work) : Clears(pl) /\ pl.host \in Up(h)
BY DEF Overtaken, Clears, ToSet

LEMMA OvertakenNext ==
  \A h : Overtaken(h)' <=> \E pl \in ToSet(work') : Clears(pl) /\ pl.host \in Up(h)'
BY DEF Overtaken, Clears, ToSet

\* What is above an object after it has lost its parent, or got another.
LEMMA MovedUp ==
  ASSUME TreeType, TreeInv, NEW o \in Object, NEW p \in Object \cup {Null},
         p # Null => o \notin Up(p),
         ParentsIn(children') = [ParentsIn(children) EXCEPT ![o] = p],
         children' \in Kids, Disjoint(children')
  PROVE  /\ \A x \in Host : Parent(x)' = IF x = o THEN p ELSE Parent(x)
         /\ \A h \in Host : o \notin Up(h) => Up(h)' = Up(h)
         /\ p # Null => Up(p)' = Up(p)
         /\ \A h \in Host : o \in Up(h) =>
              /\ o \in Up(h)'
              /\ \A x \in Up(h) : x \notin Up(o) => x \in Up(h)'
              /\ p # Null => Up(p) \subseteq Up(h)'
<1> DEFINE par == ParentsIn(children)
           new == ParentsIn(children')
<1>1. /\ par \in Pointers /\ \A x \in Host : Parent(x) = par[x]
      /\ \A h : Up(h) = Chain(par, h)
      /\ \A h : Up(h)' = Chain(new, h)
  BY TreeFacts, UpIsChain
<1>2. \A x \in Host : Parent(x)' = new[x]
  BY ParentFacts, UpIsChain
<1>3. o \in Host
  BY HostFacts
<1> HIDE DEF par
<1>4. new = [par EXCEPT ![o] = p]
  BY DEF par
<1> HIDE DEF new
<1>5. p # Null => o \notin Chain(par, p)
  BY <1>1
<1>6. Moves(par, new, o, p)
  BY <1>1, <1>3, <1>4, <1>5, ChainMove
<1>7. \A x \in Host : Parent(x)' = IF x = o THEN p ELSE Parent(x)
  BY <1>1, <1>2, <1>4 DEF Pointers
<1> QED BY <1>1, <1>6, <1>7 DEF Moves

\* What is above an object after a subtree has been destroyed.
LEMMA BuriedUp ==
  ASSUME TypeOK, SceneInv, NEW o \in Live, Bury(o)
  PROVE  /\ \A x \in Host : Parent(x)' = IF o \in Up(x) THEN Null ELSE Parent(x)
         /\ \A h \in Host : o \notin Up(h) => Up(h)' = Up(h)
         /\ \A h \in Host : o \in Up(h) => Up(h)' = {h}
         /\ created' = created => Live' = Live \ Below(o)
<1>1. /\ TreeType /\ TreeInv /\ TableType /\ GravesType /\ QueueInv /\ SlotInv
  BY TypeGroups DEF SceneInv
<1> DEFINE par == ParentsIn(children)
           new == ParentsIn(children')
<1>2. /\ par \in Pointers /\ \A x \in Host : Parent(x) = par[x]
      /\ \A h : Up(h) = Chain(par, h)
      /\ \A h : Up(h)' = Chain(new, h)
  BY <1>1, TreeFacts, UpIsChain
<1>3. /\ new = [x \in Host |-> IF o \in Up(x) THEN Null ELSE Parent(x)]
      /\ children' \in Kids /\ Disjoint(children') /\ destroyed' = destroyed \cup Below(o)
  BY <1>1, BuryFacts
<1>4. \A x \in Host : Parent(x)' = new[x]
  BY <1>3, ParentFacts, UpIsChain
<1>5. o \in Host
  BY <1>1, HostFacts DEF Live, TreeType
<1> HIDE DEF par, new
<1>6. new = [x \in Host |-> IF o \in Chain(par, x) THEN Null ELSE par[x]]
  BY <1>2, <1>3
<1>7. /\ \A h \in Host : o \notin Chain(par, h) => Chain(new, h) = Chain(par, h)
      /\ \A h \in Host : o \in Chain(par, h) => Chain(new, h) = {h}
  BY <1>2, <1>5, <1>6, ChainBury
<1>8. \A x \in Host : Parent(x)' = IF o \in Up(x) THEN Null ELSE Parent(x)
  BY <1>3, <1>4
<1>9. created' = created => Live' = Live \ Below(o)
  BY <1>3 DEF Live
<1> QED BY <1>2, <1>7, <1>8, <1>9

-----------------------------------------------------------------------------
(* What SetDirty(false) leaves dirty *)

\* Blocked hosts are above: nothing below an object that none of them is above.
LEMMA Unblocked ==
  ASSUME TreeType, TreeInv, UpClosed(blocked), NEW y \in Host, Up(y) \cap blocked = {},
         NEW z \in Host, y \in Up(z)
  PROVE  Up(z) \cap blocked = {}
<1> SUFFICES ASSUME NEW x \in Up(z), x \in blocked PROVE FALSE
  OBVIOUS
<1>1. x \in Host /\ y \in Up(y) /\ (x \in Up(y) \/ y \in Up(x))
  BY UpFacts
<1>2. Up(x) \subseteq blocked
  BY <1>1, ClosedUp
<1> QED BY <1>1, <1>2

\* An object stays dirty exactly if something at or below it is not attached.
LEMMA StuckFacts ==
  ASSUME TreeType, TreeInv, MarkInv, NEW x \in Object
  PROVE  Stuck(x) <=> \E z \in Below(x) : z \in unattached
<1>1. ASSUME NEW z \in Below(x), z \in unattached PROVE Stuck(x)
  <2>1. z \in Object /\ z \in Host /\ z \in dirty
    BY <1>1, HostFacts DEF Below, MarkInv
  <2>2. Up(z) \subseteq dirty
    BY <2>1, ClosedUp DEF MarkInv
  <2> QED BY <1>1, <2>2 DEF Stuck
<1> QED BY <1>1 DEF Stuck

\* How SetDirty(false) on o gets to x.
Reaches(o, x) ==
  \A a \in Up(x) \cap Below(o) :
    /\ a \in dirty
    /\ a # x => a \notin unattached
    /\ a # o => \A j \in 1..(Position(children[Parent(a)], a) - 1) :
                  ~Stuck(children[Parent(a)][j])

LEMMA CleanedFacts ==
  \A o : Cleaned(o) = {x \in Below(o) : Reaches(o, x) /\ ~Stuck(x)}
BY DEF Cleaned, Reaches

\* The earlier children of a parent.
LEMMA SiblingFacts ==
  ASSUME TreeType, TreeInv, NEW a \in Object, Parent(a) # Null,
         NEW j \in 1..(Position(children[Parent(a)], a) - 1)
  PROVE  /\ children[Parent(a)][j] \in Object
         /\ Parent(children[Parent(a)][j]) = Parent(a)
<1> DEFINE p == Parent(a)
           s == children[p]
<1>1. p \in Object /\ a \in ToSet(s)
  BY TreeFacts
<1>2. s \in Seq(Object) /\ \A x \in ToSet(s) : x \in Object /\ Parent(x) = p
  <2>1. s \in Seq(Object)
    BY <1>1 DEF TreeType, Kids
  <2>2. ToSet(s) \subseteq Object
    BY <2>1, ListFacts
  <2> QED BY <1>1, <2>1, <2>2, TreeFacts
<1> HIDE DEF p, s
<1>3. Position(s, a) \in DOMAIN s
  BY <1>1 DEF Position, ToSet
<1>4. Len(s) \in Nat /\ DOMAIN s = 1..Len(s)
  BY <1>2, ListFacts
<1>5. j \in DOMAIN s
  BY <1>3, <1>4 DEF p, s
<1>6. s[j] \in ToSet(s)
  BY <1>5 DEF ToSet
<1> QED BY <1>2, <1>6 DEF p, s

\* It stays dirty for a reason, and what is above what stays dirty does too.
LEMMA CleanFacts ==
  ASSUME TreeType, TreeInv, MarkInv, NEW h \in Object
  PROVE  /\ UpClosed(dirty \ Cleaned(h))
         /\ \A y \in Object \cap unattached : y \in dirty \ Cleaned(h)
         /\ \A y \in Live : y \in dirty \ Cleaned(h) /\ h \in Up(y) /\ Up(y) \cap blocked = {} =>
              \E z \in Live \cap unattached : Up(z) \cap blocked = {}
<1>1. /\ UpClosed(dirty) /\ UpClosed(blocked) /\ Object \cap unattached \subseteq dirty \cap created
      /\ Live \subseteq Object /\ Object \subseteq Host
  BY HostFacts DEF MarkInv, Live, TreeType
<1>2. \A x \in Object : Stuck(x) <=> \E z \in Below(x) : z \in unattached
  BY StuckFacts
<1>3. \A x \in Object : x \in Up(x) /\ x \in Below(x)
  BY <1>1, UpFacts DEF Below
<1>4. \A y \in Object \cap unattached : y \in dirty \ Cleaned(h)
  BY <1>1, <1>2, <1>3, CleanedFacts
<1>5. ASSUME NEW o \in Object, Parent(o) # Null, o \in dirty \ Cleaned(h)
      PROVE  Parent(o) \in dirty \ Cleaned(h)
  <2> DEFINE p == Parent(o)
  <2>1. p \in Object /\ p \in dirty /\ Up(o) = {o} \cup Up(p) /\ Up(p) \subseteq Up(o)
    BY <1>1, <1>5, TreeFacts, UpFacts DEF UpClosed
  <2> HIDE DEF p
  <2> SUFFICES ASSUME p \in Cleaned(h) PROVE FALSE
    BY <2>1 DEF p
  <2>2. p \in Below(h) /\ Reaches(h, p) /\ ~Stuck(p)
    BY CleanedFacts
  <2>3. o \in Below(h)
    BY <2>1, <2>2 DEF Below
  <2>4. \A z \in Object : p \in Up(z) => z \notin unattached
    BY <1>2, <2>1, <2>2 DEF Below
  <2>5. \A x \in Object : p \in Up(x) => ~Stuck(x)
    <3> SUFFICES ASSUME NEW x \in Object, p \in Up(x), Stuck(x) PROVE FALSE
      OBVIOUS
    <3>1. PICK z \in Below(x) : z \in unattached
      BY <1>2
    <3>2. z \in Object /\ z \in Host /\ x \in Up(z)
      BY <1>1, <3>1 DEF Below
    <3>3. p \in Up(z)
      BY <3>2, UpFacts
    <3> QED BY <2>4, <3>1, <3>2, <3>3
  <2>6. p \in Up(p) /\ p \in Up(o)
    BY <1>3, <2>1
  <2>7. ASSUME NEW j \in 1..(Position(children[Parent(o)], o) - 1)
        PROVE  ~Stuck(children[Parent(o)][j])
    <3> DEFINE x == children[Parent(o)][j]
    <3>1. x \in Object /\ Parent(x) = p
      BY <1>5, <2>7, SiblingFacts DEF p
    <3> HIDE DEF x
    <3>2. x \in Host /\ Parent(x) # Null
      BY <1>1, <2>1, <3>1, HostFacts
    <3>3. p \in Up(x)
      BY <1>3, <3>1, <3>2, UpFacts
    <3>4. ~Stuck(x)
      BY <2>5, <3>1, <3>3
    <3> QED BY <3>4 DEF x
  <2>8. Reaches(h, o)
    <3> SUFFICES ASSUME NEW a \in Up(o) \cap Below(h)
                 PROVE  /\ a \in dirty
                        /\ a # o => a \notin unattached
                        /\ a # h => \A j \in 1..(Position(children[Parent(a)], a) - 1) :
                                      ~Stuck(children[Parent(a)][j])
      BY DEF Reaches
    <3>1. CASE a = o
      BY <1>5, <2>7, <3>1
    <3>2. CASE a # o
      <4>1. a \in Up(p) \cap Below(h)
        BY <2>1, <3>2
      <4>2. a \notin unattached
        BY <2>2, <2>4, <2>6, <2>1, <4>1 DEF Reaches
      <4> QED BY <2>2, <4>1, <4>2 DEF Reaches
    <3> QED BY <3>1, <3>2
  <2>9. ~Stuck(o)
    BY <2>5, <2>6
  <2> QED BY <1>5, <2>3, <2>8, <2>9, CleanedFacts
<1>6. UpClosed(dirty \ Cleaned(h))
  BY <1>5 DEF UpClosed
<1>7. ASSUME NEW y \in Live, y \in dirty \ Cleaned(h), h \in Up(y), Up(y) \cap blocked = {}
      PROVE  \E z \in Live \cap unattached : Up(z) \cap blocked = {}
  <2>1. y \in Object /\ y \in Host /\ y \in Below(h) /\ Up(y) \subseteq dirty
        /\ Up(y) \subseteq Live
    BY <1>1, <1>7, ClosedUp, TreeFacts DEF Below
  <2>2. ASSUME NEW x \in Live, Stuck(x), NEW w \in Up(x), Up(w) \cap blocked = {}
        PROVE  \E z \in Live \cap unattached : Up(z) \cap blocked = {}
    <3>1. x \in Object /\ x \in Host
      BY <1>1
    <3>2. PICK z \in Below(x) : z \in unattached
      BY <1>2, <2>2, <3>1
    <3>3. z \in Object /\ z \in Host /\ x \in Up(z)
      BY <1>1, <3>2 DEF Below
    <3>4. w \in Up(z) /\ w \in Host /\ z \in Live
      BY <2>2, <3>1, <3>3, UpFacts, BelowLives
    <3>5. Up(z) \cap blocked = {}
      BY <1>1, <2>2, <3>3, <3>4, Unblocked
    <3> QED BY <3>2, <3>4, <3>5
  <2>3. CASE Stuck(y)
    BY <1>3, <1>7, <2>1, <2>2, <2>3
  <2>4. CASE ~Reaches(h, y)
    <3>1. PICK a \in Up(y) \cap Below(h) :
            \/ a \notin dirty
            \/ a # y /\ a \in unattached
            \/ a # h /\ \E j \in 1..(Position(children[Parent(a)], a) - 1) :
                          Stuck(children[Parent(a)][j])
      BY <2>4 DEF Reaches
    <3>2. /\ a \in Live /\ a \in Object /\ a \in Host /\ a \in dirty
          /\ Up(a) \subseteq Up(y) /\ Up(a) \cap blocked = {}
      BY <1>1, <1>7, <2>1, UpFacts
    <3>3. CASE a \in unattached
      BY <3>2, <3>3
    <3>4. CASE a # h /\ \E j \in 1..(Position(children[Parent(a)], a) - 1) :
                          Stuck(children[Parent(a)][j])
      <4>1. PICK j \in 1..(Position(children[Parent(a)], a) - 1) : Stuck(children[Parent(a)][j])
        BY <3>4
      <4> DEFINE x == children[Parent(a)][j]
                 w == Parent(a)
      <4>2. h \in Up(a) /\ w # Null
        BY <3>1, <3>2, <3>4, UpFacts DEF Below
      <4>3. x \in Object /\ Parent(x) = w
        BY <3>2, <4>2, SiblingFacts
      <4>4. Stuck(x)
        BY <4>1
      <4>5. w \in Up(a)
        BY <3>2, <4>2, UpFacts
      <4> HIDE DEF x, w
      <4>6. x \in Live /\ x \in Host /\ w \in Host
        BY <1>1, <4>2, <4>3, TreeFacts
      <4>7. w \in Up(x)
        BY <4>2, <4>3, <4>6, UpFacts
      <4>8. Up(w) \subseteq Up(a)
        BY <3>2, <4>5, UpFacts
      <4> QED BY <2>2, <3>2, <4>4, <4>6, <4>7, <4>8
    <3> QED BY <3>1, <3>2, <3>3, <3>4
  <2>5. Stuck(y) \/ ~Reaches(h, y)
    BY <1>7, <2>1, CleanedFacts
  <2> QED BY <2>3, <2>4, <2>5
<1> QED BY <1>4, <1>6, <1>7

-----------------------------------------------------------------------------
(* The flags of hosts are preserved *)

\* A list of one.
LEMMA OnlyOne ==
  ASSUME NEW S, NEW s \in Seq(S), Distinct(s), NEW x \in ToSet(s), ToSet(s) \ {x} = {}
  PROVE  s = <<x>>
<1>1. Len(s) \in Nat /\ DOMAIN s = 1..Len(s) /\ s # <<>>
  BY ListFacts, EmptyList
<1>2. \A i \in DOMAIN s : s[i] = x
  BY DEF ToSet
<1>3. \A i, j \in DOMAIN s : i = j
  BY <1>2 DEF Distinct
<1>4. Len(s) # 0
  BY <1>1, ListFacts
<1>5. 1 \in DOMAIN s /\ Len(s) \in DOMAIN s
  BY <1>1, <1>4
<1>6. Len(s) = 1 /\ s[1] = x
  BY <1>2, <1>3, <1>5
<1> QED BY <1>6

\* SetDirty(true) on h, in the same tree.
LEMMA ClimbNext ==
  ASSUME TreeType, TreeInv, MarkInv, UNCHANGED children, NEW h \in Host,
         dirty' = dirty \cup Climb(h), blocked' \in {blocked, blocked \cup Up(h)}
  PROVE  UpClosed(dirty)' /\ UpClosed(blocked)' /\ h \in dirty' /\ dirty \subseteq dirty'
<1>1. \A x : Parent(x)' = Parent(x)
  BY SameTree
<1>2. UpClosed(dirty \cup Climb(h)) /\ h \in dirty \cup Climb(h)
  BY ClimbFacts DEF MarkInv
<1>3. UpClosed(dirty)'
  BY <1>1, <1>2 DEF UpClosed
<1>4. \A x \in Up(h) : Parent(x) # Null => Parent(x) \in Up(h)
  BY UpFacts
<1>5. UpClosed(blocked)'
  BY <1>1, <1>4 DEF UpClosed, MarkInv
<1> QED BY <1>2, <1>3, <1>5

\* The objects keep their flags.
LEMMA MarkSame ==
  ASSUME TreeType, TreeInv, MarkInv, UNCHANGED <<children, created, destroyed, blocked>>,
         \A o \in Object : o \in dirty' <=> o \in dirty,
         unattached' \subseteq unattached,
         \A o \in Live : comps'[o] = comps[o],
         pc' \in {"destroy", "prepared"} /\ newQueue' # <<>> => Scene \in dirty'
  PROVE  MarkInv'
<1>1. /\ \A x : Parent(x)' = Parent(x)
      /\ \A x : Parent(x) \in Object \cup {Null}
      /\ Live' = Live
  BY SameTree, TreeFacts DEF Live
<1>2. UpClosed(dirty)' /\ UpClosed(blocked)'
  BY <1>1 DEF UpClosed, MarkInv
<1> QED BY <1>1, <1>2 DEF MarkInv

LEMMA MarkCalls ==
  ASSUME TypeOK, SceneInv, MarkInv
  PROVE  /\ \A o \in Object : InstanceGameObject(o) \/ SetObjectEnabled(o) => MarkInv'
         /\ \A c \in Component : SetComponentEnabled(c) => MarkInv'
         /\ \A h \in Host, c \in Component : AddComponent(h, c) \/ RemoveComponent(h, c) => MarkInv'
<1>1. /\ TreeType /\ TreeInv /\ PartsType /\ CompInv
      /\ UpClosed(dirty) /\ UpClosed(blocked) /\ Object \cap unattached \subseteq dirty \cap created
      /\ \A o \in Live \cap unattached : comps[o] = <<>> => o \in blocked
      /\ pc \in {"destroy", "prepared"} /\ newQueue # <<>> => Scene \in dirty
      /\ Scene \in Host /\ Live \subseteq Object /\ Object \subseteq Host
  BY TypeGroups, HostFacts DEF SceneInv, MarkInv, Live, TreeType
<1>2. ASSUME NEW h \in Host, UNCHANGED <<children, created, destroyed, blocked, unattached, comps, pc, newQueue>>,
             dirty' = dirty \cup Climb(h)
      PROVE  MarkInv'
  <2>1. UpClosed(dirty)' /\ UpClosed(blocked)' /\ dirty \subseteq dirty'
    BY <1>1, <1>2, ClimbNext
  <2> QED BY <1>1, <1>2, <2>1 DEF MarkInv, Live
<1>3. ASSUME NEW o \in Object, InstanceGameObject(o) PROVE MarkInv'
  <2>1. /\ UNCHANGED <<children, destroyed, blocked, unattached, comps, pc>>
        /\ created' = created \cup {o} /\ o \notin created /\ dirty' = dirty \cup Climb(Scene)
    BY <1>3 DEF InstanceGameObject, SetDirtyTrue, parts, control
  <2>2. UpClosed(dirty)' /\ UpClosed(blocked)' /\ dirty \subseteq dirty' /\ Scene \in dirty'
    BY <1>1, <2>1, ClimbNext
  <2>3. \A y \in Live' \cap unattached' : comps'[y] = <<>> => y \in blocked'
    BY <1>1, <2>1 DEF Live
  <2> QED BY <1>1, <2>1, <2>2, <2>3 DEF MarkInv
<1>4. ASSUME NEW o \in Object, SetObjectEnabled(o) PROVE MarkInv'
  <2>1. /\ UNCHANGED <<children, created, destroyed, blocked, unattached, comps, pc, newQueue>>
        /\ dirty' = dirty \cup Climb(o)
    BY <1>4 DEF SetObjectEnabled, SetDirtyTrue, parts, control, tree, table
  <2> QED BY <1>1, <1>2, <2>1
<1>5. ASSUME NEW c \in Component, SetComponentEnabled(c) PROVE MarkInv'
  <2>1. /\ UNCHANGED <<children, created, destroyed, blocked, unattached, comps, pc, newQueue>>
        /\ dirty' = dirty \cup Climb(host[c]) /\ host[c] # Null
    BY <1>5 DEF SetComponentEnabled, SetDirtyTrue, parts, control, tree, table
  <2>2. host[c] \in Host
    BY <1>1, <2>1 DEF PartsType
  <2> QED BY <1>2, <2>1, <2>2
<1>6. ASSUME NEW h \in Host, NEW c \in Component, AddComponent(h, c) PROVE MarkInv'
  <2>1. /\ UNCHANGED <<children, created, destroyed, pc, newQueue>> /\ Usable(h)
        /\ dirty' = dirty \cup Climb(h) /\ unattached' = unattached \cup {h}
        /\ blocked' \in {blocked, blocked \cup Up(h)}
        /\ comps' = [comps EXCEPT ![h] = Append(@, c)]
    BY <1>6 DEF AddComponent, SetDirtyTrue, Block, control, tree, table
  <2>2. UpClosed(dirty)' /\ UpClosed(blocked)' /\ dirty \subseteq dirty' /\ h \in dirty'
    BY <1>1, <2>1, ClimbNext
  <2>3. h \in Object => h \in created
    BY <2>1, UsableFacts DEF Live
  <2>4. comps[h] \in Seq(Component) /\ comps'[h] = Append(comps[h], c)
        /\ \A y \in Host : y # h => comps'[y] = comps[y]
    BY <1>1, <2>1 DEF PartsType
  <2>5. comps'[h] # <<>>
    <3>1. ToSet(comps'[h]) = ToSet(comps[h]) \cup {c}
      BY <2>4, AppendFacts
    <3> QED BY <3>1, EmptyList
  <2>6. \A y \in Live' \cap unattached' : comps'[y] = <<>> => y \in blocked'
    BY <1>1, <2>1, <2>4, <2>5 DEF Live
  <2> QED BY <1>1, <2>1, <2>2, <2>3, <2>6 DEF MarkInv
<1>7. ASSUME NEW h \in Host, NEW c \in Component, RemoveComponent(h, c) PROVE MarkInv'
  <2>1. /\ UNCHANGED <<children, created, destroyed, unattached, pc, newQueue>>
        /\ dirty' = dirty \cup Climb(h)
        /\ blocked' \in {blocked, blocked \cup Up(h)}
        /\ h \in unattached /\ comps[h] = <<c>> => blocked' = blocked \cup Up(h)
        /\ comps' = [comps EXCEPT ![h] = Erase(@, c)] /\ Contains(comps[h], c)
    BY <1>7 DEF RemoveComponent, Block, control, tree, table
  <2>2. UpClosed(dirty)' /\ UpClosed(blocked)' /\ dirty \subseteq dirty'
    BY <1>1, <2>1, ClimbNext
  <2>3. /\ comps[h] \in Seq(Component) /\ Distinct(comps[h]) /\ c \in ToSet(comps[h])
        /\ comps'[h] = Erase(comps[h], c)
        /\ \A y \in Host : y # h => comps'[y] = comps[y]
    BY <1>1, <2>1, CompFacts DEF PartsType
  <2>4. comps'[h] = <<>> => comps[h] = <<c>>
    <3>1. ToSet(comps'[h]) = ToSet(comps[h]) \ {c}
      BY <2>3, EraseFacts
    <3> QED BY <2>3, <3>1, EmptyList, OnlyOne
  <2>5. h \in Up(h)
    BY <1>1, UpFacts
  <2>6. \A y \in Live' \cap unattached' : comps'[y] = <<>> => y \in blocked'
    BY <1>1, <2>1, <2>3, <2>4, <2>5 DEF Live
  <2> QED BY <1>1, <2>1, <2>2, <2>6 DEF MarkInv
<1> QED BY <1>3, <1>4, <1>5, <1>6, <1>7

LEMMA MarkMoves ==
  ASSUME TypeOK, SceneInv, MarkInv
  PROVE  /\ \A o \in Object : MoveToRoot(o) => MarkInv'
         /\ \A o, p \in Object : MoveToTree(o, p) => MarkInv'
<1>1. /\ TreeType /\ TreeInv
      /\ UpClosed(dirty) /\ UpClosed(blocked) /\ Object \cap unattached \subseteq dirty \cap created
      /\ \A o \in Live \cap unattached : comps[o] = <<>> => o \in blocked
      /\ pc \in {"destroy", "prepared"} /\ newQueue # <<>> => Scene \in dirty
      /\ Object \subseteq Host /\ Null \notin Object
  BY TypeGroups, HostFacts DEF SceneInv, MarkInv
<1>2. ASSUME UNCHANGED <<created, destroyed, unattached, comps, pc, newQueue>>,
             dirty \subseteq dirty', blocked \subseteq blocked', UpClosed(dirty)', UpClosed(blocked)'
      PROVE  MarkInv'
  BY <1>1, <1>2 DEF MarkInv, Live
<1>3. ASSUME NEW o \in Object, MoveToRoot(o) PROVE MarkInv'
  <2>1. /\ UNCHANGED <<created, destroyed, unattached, comps, pc, newQueue, dirty>>
        /\ blocked' \in {blocked, blocked \cup {o}}
    BY <1>3 DEF MoveToRoot, Block, parts, control, marks, table
  <2>2. \A x \in Host : Parent(x)' = IF x = o THEN Null ELSE Parent(x)
    <3>1. /\ children' \in Kids /\ Disjoint(children')
          /\ ParentsIn(children') = [ParentsIn(children) EXCEPT ![o] = Null]
      BY <1>1, <1>3, MoveToRootFacts
    <3> QED BY <1>1, <3>1, MovedUp
  <2>3. UpClosed(dirty)' /\ UpClosed(blocked)'
    BY <1>1, <2>1, <2>2 DEF UpClosed
  <2> QED BY <1>2, <2>1, <2>3
<1>4. ASSUME NEW o \in Object, NEW p \in Object, MoveToTree(o, p) PROVE MarkInv'
  <2>1. /\ UNCHANGED <<created, destroyed, unattached, comps, pc, newQueue>>
        /\ dirty' = dirty \cup Climb(p)
        /\ blocked' \in {blocked, blocked \cup Up(p)}
        /\ o \in blocked => blocked' = blocked \cup Up(p)
    BY <1>4 DEF MoveToTree, SetDirtyTrue, Block, parts, control, table
  <2>2. /\ \A x \in Host : Parent(x)' = IF x = o THEN p ELSE Parent(x)
        /\ o \notin Up(p)
    <3>1. /\ children' \in Kids /\ Disjoint(children')
          /\ ParentsIn(children') = [ParentsIn(children) EXCEPT ![o] = p]
          /\ o \notin Up(p)
      BY <1>1, <1>4, MoveToTreeFacts
    <3> QED BY <1>1, <3>1, MovedUp
  <2>3. /\ UpClosed(dirty \cup Climb(p)) /\ p \in dirty \cup Climb(p)
        /\ p \in Up(p) /\ \A x \in Up(p) : Parent(x) # Null => Parent(x) \in Up(p)
    BY <1>1, ClimbFacts, UpFacts
  <2>4. UpClosed(dirty)'
    BY <1>1, <2>1, <2>2, <2>3 DEF UpClosed
  <2>5. UpClosed(blocked)'
    BY <1>1, <2>1, <2>2, <2>3 DEF UpClosed
  <2> QED BY <1>2, <2>1, <2>4, <2>5
<1> QED BY <1>3, <1>4

LEMMA MarkBury ==
  ASSUME TypeOK, SceneInv, MarkInv
  PROVE  (\E o \in Object : Destroy(o)) \/ SceneDestroyObject => MarkInv'
<1>1. /\ TreeType /\ TreeInv
      /\ UpClosed(dirty) /\ UpClosed(blocked) /\ Object \cap unattached \subseteq dirty \cap created
      /\ \A o \in Live \cap unattached : comps[o] = <<>> => o \in blocked
      /\ Object \subseteq Host /\ Scene \notin Object /\ Scene \in Host
      /\ Up(Scene) = {Scene}
      /\ \A x : Parent(x) \in Object \cup {Null}
  BY TypeGroups, HostFacts, TreeFacts DEF SceneInv, MarkInv
<1>2. ASSUME NEW o \in Live, Bury(o), UNCHANGED <<created, unattached, comps, blocked>>,
             dirty' = dirty \cup Climb(Scene)
      PROVE  MarkInv'
  <2>1. /\ \A x \in Host : Parent(x)' = IF o \in Up(x) THEN Null ELSE Parent(x)
        /\ Live' = Live \ Below(o)
    BY <1>2, BuriedUp
  <2>2. Climb(Scene) \subseteq {Scene} /\ Scene \in dirty'
    BY <1>1, <1>2, ClimbFacts
  <2>3. UpClosed(dirty)' /\ UpClosed(blocked)'
    BY <1>1, <1>2, <2>1, <2>2 DEF UpClosed
  <2> QED BY <1>1, <1>2, <2>1, <2>2, <2>3 DEF MarkInv
<1>3. ASSUME NEW o \in Object, Destroy(o) PROVE MarkInv'
  <2>1. /\ Bury(o) /\ UNCHANGED <<created, unattached, comps, blocked>>
        /\ dirty' = dirty \cup Climb(Scene) /\ Usable(o)
    BY <1>3 DEF Destroy, SetDirtyTrue, parts
  <2> QED BY <1>2, <2>1, UsableFacts
<1>4. ASSUME SceneDestroyObject PROVE MarkInv'
  <2>1. /\ UNCHANGED <<created, unattached, comps, blocked>>
        /\ dirty' = dirty \cup Climb(Scene)
    BY <1>4 DEF SceneDestroyObject, SetDirtyTrue, parts
  <2> QED BY <1>2, <1>4, <2>1, SceneDestroyObjectFacts
<1> QED BY <1>3, <1>4

LEMMA MarkFrame ==
  ASSUME TypeOK, SceneInv, MarkInv
  PROVE  /\ PrepareBegin \/ PrepareOnDestroy \/ PrepareEnd \/ BuildBegin => MarkInv'
         /\ CallComponent \/ LeaveComponents \/ BuildEnd \/ Update \/ UpdateEnd => MarkInv'
         /\ SceneDestroy \/ Visit => MarkInv'
<1>1. /\ TreeType /\ TreeInv /\ PartsType /\ ControlType /\ QueueInv /\ GravesType
      /\ UpClosed(dirty) /\ UpClosed(blocked) /\ Object \cap unattached \subseteq dirty \cap created
      /\ \A o \in Live \cap unattached : comps[o] = <<>> => o \in blocked
      /\ pc \in {"destroy", "prepared"} /\ newQueue # <<>> => Scene \in dirty
      /\ Object \subseteq Host /\ Scene \notin Object /\ Live \subseteq Object
  BY TypeGroups, HostFacts DEF SceneInv, MarkInv, Live, TreeType
<1>2. ASSUME UNCHANGED <<children, created, destroyed, blocked, dirty, comps>>,
             unattached' \subseteq unattached,
             pc' \notin {"destroy", "prepared"} \/ (pc = "destroy" /\ UNCHANGED newQueue)
      PROVE  MarkInv'
  <2>1. pc' \in {"destroy", "prepared"} /\ newQueue' # <<>> => Scene \in dirty'
    BY <1>1, <1>2
  <2> QED BY <1>1, <1>2, <2>1, MarkSame
<1>3. ASSUME PrepareBegin PROVE MarkInv'
  <2> DEFINE S == {h \in Object : Contains(deleteQueue, h) /\ comps[h] # <<>>}
  <2>1. /\ UNCHANGED <<children, created, destroyed, unattached, blocked>> /\ newQueue' = <<>>
        /\ dirty' = dirty \cup S \/ dirty' = (dirty \cup {Scene}) \cup S
        /\ comps' = [h \in Host |-> IF Contains(deleteQueue, h) THEN <<>> ELSE comps[h]]
    BY <1>3 DEF PrepareBegin, tree
  <2>2. \A o \in Live : ~Contains(deleteQueue, o)
    <3>1. \A x : Contains(deleteQueue, x) <=> x \in ToSet(deleteQueue)
      BY <1>1, ListFacts DEF GravesType
    <3> QED BY <1>1, <3>1 DEF QueueInv, Live
  <2>3. S \subseteq Object /\ \A o \in Live : o \notin S
    BY <2>2
  <2> HIDE DEF S
  <2>4. \A o \in Live : comps'[o] = comps[o]
    BY <1>1, <2>1, <2>2
  <2>5. /\ \A x : Parent(x)' = Parent(x)
        /\ \A x \in Object : Parent(x) # Null => x \in Live
        /\ \A x : Parent(x) \in Object \cup {Null}
        /\ Live' = Live
    BY <1>1, <2>1, SameTree, TreeFacts DEF Live
  <2>6. UpClosed(dirty)' /\ UpClosed(blocked)'
    <3>1. \A x \in Object : x \in dirty' => x \in dirty \/ x \in S
      BY <1>1, <2>1
    <3>2. dirty \subseteq dirty'
      BY <2>1
    <3> QED BY <1>1, <2>1, <2>3, <2>5, <3>1, <3>2 DEF UpClosed
  <2>7. Object \cap unattached' \subseteq dirty' \cap created'
    BY <1>1, <2>1
  <2>8. \A o \in Live' \cap unattached' : comps'[o] = <<>> => o \in blocked'
    BY <1>1, <2>1, <2>4, <2>5
  <2> QED BY <2>1, <2>6, <2>7, <2>8 DEF MarkInv
<1>4. ASSUME PrepareOnDestroy PROVE MarkInv'
  <2>1. UNCHANGED <<children, created, destroyed, blocked, dirty, comps, unattached, newQueue>>
        /\ pc = "destroy"
    BY <1>4 DEF PrepareOnDestroy, tree, marks, table, ghosts
  <2> QED BY <1>2, <2>1
<1>5. ASSUME PrepareEnd PROVE MarkInv'
  <2>1. UNCHANGED <<children, created, destroyed, blocked, dirty, comps, unattached, newQueue>>
        /\ pc = "destroy"
    BY <1>5 DEF PrepareEnd, parts, marks, table
  <2> QED BY <1>2, <2>1
<1>6. ASSUME BuildBegin PROVE MarkInv'
  <2>1. UNCHANGED <<children, created, destroyed, blocked, dirty, comps, unattached>>
        /\ pc' = "build"
    BY <1>6 DEF BuildBegin, tree, parts, ghosts
  <2> QED BY <1>2, <2>1
<1>7. ASSUME CallComponent PROVE MarkInv'
  <2>1. UNCHANGED <<children, created, destroyed, blocked, dirty, comps, unattached>>
        /\ pc' = "build"
    BY <1>7 DEF CallComponent, tree
  <2> QED BY <1>2, <2>1
<1>8. ASSUME LeaveComponents PROVE MarkInv'
  <2>1. UNCHANGED <<children, created, destroyed, blocked, dirty, comps>>
        /\ unattached' \subseteq unattached /\ pc' = "build"
    BY <1>8 DEF LeaveComponents, tree, parts, ghosts
  <2> QED BY <1>2, <2>1
<1>9. ASSUME BuildEnd \/ Update \/ UpdateEnd PROVE MarkInv'
  <2>1. UNCHANGED <<children, created, destroyed, blocked, dirty, comps, unattached>>
    BY <1>9, Keeps DEF tree, marks, parts, ghosts
  <2>2. pc' \in {"update", "idle"}
    BY <1>9 DEF BuildEnd, Update, UpdateEnd
  <2> QED BY <1>2, <2>1, <2>2
<1>10. ASSUME SceneDestroy PROVE MarkInv'
  <2>1. /\ UNCHANGED <<children, created, destroyed, blocked, unattached>>
        /\ dirty' \in {dirty, dirty \cup {Scene}} /\ pc' = "prepare"
        /\ comps' = [comps EXCEPT ![Scene] = <<>>]
    BY <1>10 DEF SceneDestroy, tree
  <2>2. /\ \A o \in Live : comps'[o] = comps[o]
        /\ \A o \in Object : o \in dirty' <=> o \in dirty
    BY <1>1, <2>1 DEF PartsType
  <2> QED BY <1>1, <2>1, <2>2, MarkSame
<1>11. ASSUME Visit PROVE MarkInv'
  <2> DEFINE h == Head(work).host
  <2>1. /\ UNCHANGED <<children, created, destroyed, blocked, unattached, comps>>
        /\ pc' = "build" /\ work # <<>>
        /\ UNCHANGED dirty \/ SetDirtyFalse(h)
    BY <1>11 DEF Visit, tree, parts, ghosts
  <2>2. h \in Host
    BY <1>1, <2>1, HeadFacts
  <2> HIDE DEF h
  <2>3. \/ UNCHANGED dirty
        \/ \A o \in Object : o \in dirty' <=> o \in dirty
        \/ h \in Object /\ dirty' = dirty \ Cleaned(h)
    BY <1>1, <2>1, <2>2 DEF SetDirtyFalse, Host
  <2>4. CASE \A o \in Object : o \in dirty' <=> o \in dirty
    BY <1>1, <2>1, <2>4, MarkSame
  <2>5. CASE h \in Object /\ dirty' = dirty \ Cleaned(h)
    <3>1. /\ UpClosed(dirty \ Cleaned(h))
          /\ \A y \in Object \cap unattached : y \in dirty \ Cleaned(h)
      BY <1>1, <2>5, CleanFacts
    <3>2. /\ \A x : Parent(x)' = Parent(x)
          /\ Live' = Live
      BY <2>1, SameTree DEF Live
    <3>3. UpClosed(dirty)' /\ UpClosed(blocked)'
      BY <1>1, <2>1, <2>5, <3>1, <3>2 DEF UpClosed
    <3>4. Object \cap unattached' \subseteq dirty' \cap created'
      BY <1>1, <2>1, <2>5, <3>1
    <3> QED BY <1>1, <2>1, <3>2, <3>3, <3>4 DEF MarkInv
  <2> QED BY <2>3, <2>4, <2>5
<1> QED BY <1>3, <1>4, <1>5, <1>6, <1>7, <1>8, <1>9, <1>10, <1>11

LEMMA MarkStep ==
  ASSUME TypeOK, SceneInv, MarkInv, Next
  PROVE  MarkInv'
<1>1. Host # {}
  BY HostFacts
<1> QED BY <1>1, MarkCalls, MarkMoves, MarkBury, MarkFrame, Zenon DEF Next, Application, Frame

-----------------------------------------------------------------------------
(* The places of the walk *)

\* One list of places behind another.
LEMMA OrderedConcat ==
  ASSUME NEW s \in Seq(PlaceType), NEW t \in Seq(PlaceType), Ordered(s), Ordered(t),
         \A pl \in ToSet(s), later \in ToSet(t) :
           Later(pl.phase, later.phase) => pl.host = Scene /\ later.host # Scene
  PROVE  Ordered(s \o t)
<1> DEFINE w == s \o t
<1>1. /\ \A k \in DOMAIN s : w[k] = s[k]
      /\ \A k \in DOMAIN t : w[Len(s) + k] = t[k]
      /\ \A k \in DOMAIN w : k \in DOMAIN s \/ \E j \in DOMAIN t : k = Len(s) + j
  BY ConcatFacts
<1>2. /\ Len(s) \in Nat /\ DOMAIN s = 1..Len(s)
      /\ Len(t) \in Nat /\ DOMAIN t = 1..Len(t)
  BY ListFacts
<1> HIDE DEF w
<1> SUFFICES ASSUME NEW j \in DOMAIN w, NEW k \in DOMAIN w, j < k,
                    Later(w[j].phase, w[k].phase)
             PROVE  w[j].host = Scene /\ w[k].host # Scene
  BY DEF Ordered, w
<1>3. CASE k \in DOMAIN s
  <2>1. j \in DOMAIN s
    <3> SUFFICES ASSUME NEW i \in DOMAIN t, j = Len(s) + i PROVE FALSE
      BY <1>1
    <3> QED BY <1>2, <1>3
  <2> QED BY <1>1, <1>3, <2>1 DEF Ordered
<1>4. CASE j \in DOMAIN s /\ k \notin DOMAIN s
  <2>1. w[j] \in ToSet(s) /\ w[k] \in ToSet(t)
    BY <1>1, <1>4 DEF ToSet
  <2> QED BY <2>1
<1>5. CASE j \notin DOMAIN s /\ k \notin DOMAIN s
  <2>1. PICK a \in DOMAIN t : j = Len(s) + a
    BY <1>1, <1>5
  <2>2. PICK b \in DOMAIN t : k = Len(s) + b
    BY <1>1, <1>5
  <2>3. a < b
    BY <1>2, <2>1, <2>2
  <2>4. w[j] = t[a] /\ w[k] = t[b]
    BY <1>1, <2>1, <2>2
  <2> QED BY <2>3, <2>4 DEF Ordered
<1> QED BY <1>3, <1>4, <1>5

\* The loops over a list of hosts.
LEMMA WalkFacts ==
  ASSUME NEW hs \in Seq(Host)
  PROVE  /\ Walk(hs) \in Seq(PlaceType) /\ Ordered(Walk(hs))
         /\ \A pl \in ToSet(Walk(hs)) : ~pl.force /\ pl.host \in ToSet(hs)
         /\ \A h \in ToSet(hs), phase \in Phases :
              Place(phase, h, FALSE, 0) \in ToSet(Walk(hs))
<1> DEFINE Loop(phase) == [k \in DOMAIN hs |-> Place(phase, hs[k], FALSE, 0)]
<1>1. Len(hs) \in Nat /\ DOMAIN hs = 1..Len(hs) /\ \A k \in DOMAIN hs : hs[k] \in Host
  BY ListFacts
<1>2. ASSUME NEW phase \in Phases
      PROVE  /\ Loop(phase) \in Seq(PlaceType)
             /\ \A pl \in ToSet(Loop(phase)) : pl.phase = phase /\ ~pl.force /\ pl.host \in ToSet(hs)
             /\ \A h \in ToSet(hs) : Place(phase, h, FALSE, 0) \in ToSet(Loop(phase))
  <2>1. \A k \in DOMAIN hs : Place(phase, hs[k], FALSE, 0) \in PlaceType
    BY <1>1, PlaceFacts
  <2>2. Loop(phase) \in [1..Len(hs) -> PlaceType]
    BY <1>1, <2>1
  <2>3. Loop(phase) \in Seq(PlaceType)
    BY <1>1, <2>2, SeqDef
  <2>4. ASSUME NEW pl \in ToSet(Loop(phase)) PROVE pl.phase = phase /\ ~pl.force /\ pl.host \in ToSet(hs)
    <3>1. PICK k \in DOMAIN hs : pl = Place(phase, hs[k], FALSE, 0)
      BY DEF ToSet
    <3>2. pl.phase = phase /\ pl.force = FALSE /\ pl.host = hs[k]
      BY <3>1 DEF Place
    <3> QED BY <3>2 DEF ToSet
  <2>5. ASSUME NEW h \in ToSet(hs) PROVE Place(phase, h, FALSE, 0) \in ToSet(Loop(phase))
    <3>1. PICK k \in DOMAIN hs : hs[k] = h
      BY DEF ToSet
    <3>2. k \in DOMAIN Loop(phase) /\ Loop(phase)[k] = Place(phase, h, FALSE, 0)
      BY <3>1
    <3> HIDE DEF Loop
    <3> QED BY <3>2 DEF ToSet
  <2> QED BY <2>3, <2>4, <2>5
<1>3. Walk(hs) = Loop("PostLoad") \o Loop("Awake") \o Loop("CheckActivity") \o Loop("Start")
  BY DEF Walk
<1> HIDE DEF Loop
<1> DEFINE p == Loop("PostLoad")
           a == Loop("Awake")
           c == Loop("CheckActivity")
           t == Loop("Start")
<1>4. /\ p \in Seq(PlaceType) /\ \A pl \in ToSet(p) : pl.phase = "PostLoad"
      /\ a \in Seq(PlaceType) /\ \A pl \in ToSet(a) : pl.phase = "Awake"
      /\ c \in Seq(PlaceType) /\ \A pl \in ToSet(c) : pl.phase = "CheckActivity"
      /\ t \in Seq(PlaceType) /\ \A pl \in ToSet(t) : pl.phase = "Start"
      /\ \A pl \in ToSet(p) \cup ToSet(a) \cup ToSet(c) \cup ToSet(t) : ~pl.force /\ pl.host \in ToSet(hs)
      /\ \A h \in ToSet(hs) : /\ Place("PostLoad", h, FALSE, 0) \in ToSet(p)
                              /\ Place("Awake", h, FALSE, 0) \in ToSet(a)
                              /\ Place("CheckActivity", h, FALSE, 0) \in ToSet(c)
                              /\ Place("Start", h, FALSE, 0) \in ToSet(t)
  BY <1>2 DEF Phases
<1>5. Walk(hs) = p \o a \o c \o t
  BY <1>3
<1> HIDE DEF p, a, c, t
<1>6. Ordered(p) /\ Ordered(a) /\ Ordered(c) /\ Ordered(t)
  <2>1. /\ \A k \in DOMAIN p : p[k].phase = "PostLoad"
        /\ \A k \in DOMAIN a : a[k].phase = "Awake"
        /\ \A k \in DOMAIN c : c[k].phase = "CheckActivity"
        /\ \A k \in DOMAIN t : t[k].phase = "Start"
    BY <1>4 DEF ToSet
  <2> QED BY <2>1 DEF Ordered, Later
<1> DEFINE pa == p \o a
           pac == pa \o c
<1>7. /\ pa \in Seq(PlaceType) /\ ToSet(pa) = ToSet(p) \cup ToSet(a)
  BY <1>4, ConcatFacts
<1>8. Ordered(pa)
  BY <1>4, <1>6, OrderedConcat DEF Later
<1> HIDE DEF pa
<1>9. pac \in Seq(PlaceType) /\ ToSet(pac) = ToSet(pa) \cup ToSet(c)
  BY <1>4, <1>7, ConcatFacts
<1>10. Ordered(pac)
  BY <1>4, <1>6, <1>7, <1>8, OrderedConcat DEF Later
<1> HIDE DEF pac
<1>11. pac \o t \in Seq(PlaceType) /\ ToSet(pac \o t) = ToSet(pac) \cup ToSet(t)
  BY <1>4, <1>9, ConcatFacts
<1>12. Ordered(pac \o t)
  <2>1. \A pl \in ToSet(pac), later \in ToSet(t) : ~Later(pl.phase, later.phase)
    BY <1>4, <1>7, <1>9 DEF Later
  <2> QED BY <1>4, <1>6, <1>9, <1>10, <2>1, OrderedConcat
<1>13. Walk(hs) = pac \o t
  BY <1>5 DEF pac, pa
<1>14. \A h \in ToSet(hs), phase \in Phases : Place(phase, h, FALSE, 0) \in ToSet(pac \o t)
  BY <1>4, <1>7, <1>9, <1>11 DEF Phases
<1> QED BY <1>4, <1>7, <1>9, <1>11, <1>12, <1>13, <1>14

\* Children are visited unconditionally.
LEMMA ChildrenFacts ==
  ASSUME TreeType, TreeInv, NEW phase \in Phases, NEW h \in Host
  PROVE  /\ Children(phase, h) \in Seq(PlaceType)
         /\ \A pl \in ToSet(Children(phase, h)) :
              /\ pl.phase = phase /\ pl.force /\ h # Scene /\ pl.host \in Host
              /\ Parent(pl.host) = h /\ Parent(pl.host) # Null
         /\ \A x \in Object : Parent(x) = h =>
              \E pl \in ToSet(Children(phase, h)) : pl.host = x
<1>1. Children(phase, h) \in Seq(PlaceType)
  BY ChildrenType DEF TreeType
<1>2. CASE h = Scene
  <2>1. ToSet(Children(phase, h)) = {}
    BY <1>2, EmptyList DEF Children
  <2>2. \A x \in Object : Parent(x) # h
    BY <1>2, TreeFacts, HostFacts
  <2> QED BY <1>1, <2>1, <2>2
<1>3. CASE h # Scene
  <2>1. h \in Object /\ children[h] \in Seq(Object) /\ h # Null
    BY <1>3, HostFacts DEF Host, Kids, TreeType
  <2>2. Children(phase, h) = [k \in DOMAIN children[h] |-> Place(phase, children[h][k], TRUE, 0)]
    BY <1>3 DEF Children
  <2>3. \A x \in Object : Parent(x) = h <=> x \in ToSet(children[h])
    BY <2>1, TreeFacts
  <2>4. ASSUME NEW pl \in ToSet(Children(phase, h))
        PROVE  /\ pl.phase = phase /\ pl.force /\ pl.host \in Host
               /\ Parent(pl.host) = h
    <3>1. PICK k \in DOMAIN children[h] : pl = Place(phase, children[h][k], TRUE, 0)
      BY <2>2 DEF ToSet
    <3>2. pl.phase = phase /\ pl.force = TRUE /\ pl.host = children[h][k]
      BY <3>1 DEF Place
    <3>3. children[h][k] \in Object /\ children[h][k] \in ToSet(children[h])
      BY <2>1, ListFacts DEF ToSet
    <3> QED BY <2>3, <3>2, <3>3, HostFacts
  <2>5. ASSUME NEW x \in Object, Parent(x) = h
        PROVE  \E pl \in ToSet(Children(phase, h)) : pl.host = x
    <3>1. PICK k \in DOMAIN children[h] : children[h][k] = x
      BY <2>3, <2>5 DEF ToSet
    <3>2. k \in DOMAIN Children(phase, h) /\ Children(phase, h)[k] = Place(phase, x, TRUE, 0)
      BY <2>2, <3>1
    <3>3. Place(phase, x, TRUE, 0) \in ToSet(Children(phase, h))
      BY <3>2 DEF ToSet
    <3>4. Place(phase, x, TRUE, 0).host = x
      BY DEF Place
    <3> QED BY <3>3, <3>4
  <2> QED BY <1>1, <1>3, <2>1, <2>4, <2>5
<1> QED BY <1>2, <1>3

\* A walk that is under way: it goes past a host, on to a component of it, or
\* below it.
LEMMA WalkSteps ==
  ASSUME TypeOK, SceneInv, Visit \/ CallComponent \/ LeaveComponents
  PROVE  /\ UNCHANGED <<children, created, destroyed, blocked>> /\ work # <<>>
         /\ \E f \in Seq(PlaceType) :
              /\ work' = f \o Tail(work)
              /\ \/ f = <<>>
                 \/ \E next \in PlaceType :
                      /\ f = <<next>> /\ next.at # 0
                      /\ next.phase = Head(work).phase /\ next.host = Head(work).host
                      /\ next.force = Head(work).force
                 \/ f = Children(Head(work).phase, Head(work).host)
<1> DEFINE pl == Head(work)
<1>1. ControlType /\ TreeType /\ TreeInv
  BY TypeGroups DEF SceneInv
<1>2. UNCHANGED <<children, created, destroyed, blocked>> /\ work # <<>>
  <2>1. UNCHANGED tree /\ UNCHANGED blocked
    <3>1. Visit \/ LeaveComponents => UNCHANGED tree /\ UNCHANGED ghosts
      BY Keeps
    <3>2. CallComponent => UNCHANGED tree /\ UNCHANGED blocked
      BY Keeps DEF CallComponent
    <3> QED BY <3>1, <3>2 DEF ghosts
  <2>2. work # <<>>
    BY DEF Visit, CallComponent, LeaveComponents
  <2> QED BY <2>1, <2>2 DEF tree
<1>3. /\ pl \in PlaceType /\ pl.phase \in Phases /\ pl.host \in Host /\ pl.at \in Nat
      /\ Tail(work) \in Seq(PlaceType)
  BY <1>1, <1>2, HeadFacts
<1>4. \/ work' = Tail(work)
      \/ \E k \in Nat \ {0} : work' = <<[pl EXCEPT !.at = k]>> \o Tail(work)
      \/ work' = Children(pl.phase, pl.host) \o Tail(work)
  <2>1. ASSUME Visit
        PROVE  \/ work' = Tail(work)
               \/ work' = <<[pl EXCEPT !.at = 1]>> \o Tail(work)
               \/ work' = Children(pl.phase, pl.host) \o Tail(work)
    <3>1. \/ work' = Tail(work)
          \/ \E w \in BOOLEAN : Enter(pl.phase, pl.host, w)
      <4>1. IsActive(pl.host) \in BOOLEAN
        BY DEF IsActive
      <4> QED BY <2>1, <4>1 DEF Visit
    <3> QED BY <3>1 DEF Enter
  <2>2. ASSUME CallComponent
        PROVE  work' = <<[pl EXCEPT !.at = pl.at + 1]>> \o Tail(work)
    BY <2>2 DEF CallComponent
  <2>3. ASSUME LeaveComponents PROVE work' = Children(pl.phase, pl.host) \o Tail(work)
    BY <2>3 DEF LeaveComponents
  <2>4. 1 \in Nat \ {0} /\ pl.at + 1 \in Nat \ {0}
    BY <1>3
  <2> HIDE DEF pl
  <2>5. Visit \/ CallComponent \/ LeaveComponents
    OBVIOUS
  <2> QED BY <2>1, <2>2, <2>3, <2>4, <2>5, Zenon
<1>5. CASE work' = Tail(work)
  <2>1. <<>> \in Seq(PlaceType) /\ work' = <<>> \o Tail(work)
    BY <1>3, <1>5, EmptyList
  <2> QED BY <1>2, <2>1
<1>6. ASSUME NEW k \in Nat \ {0}, work' = <<[pl EXCEPT !.at = k]>> \o Tail(work)
      PROVE  \E f \in Seq(PlaceType) :
              /\ work' = f \o Tail(work)
              /\ \E next \in PlaceType :
                      /\ f = <<next>> /\ next.at # 0
                      /\ next.phase = pl.phase /\ next.host = pl.host /\ next.force = pl.force
  <2> HIDE DEF pl
  <2> DEFINE next == [pl EXCEPT !.at = k]
  <2>1. next \in PlaceType
    BY <1>3, PlaceFacts
  <2>2. next.at = k /\ next.phase = pl.phase /\ next.host = pl.host /\ next.force = pl.force
    BY <1>3 DEF PlaceType
  <2>3. work' = <<next>> \o Tail(work)
    BY <1>6
  <2> HIDE DEF next
  <2>4. <<next>> \in Seq(PlaceType)
    BY <2>1
  <2> QED BY <2>1, <2>2, <2>3, <2>4
<1>7. CASE work' = Children(pl.phase, pl.host) \o Tail(work)
  <2>1. Children(pl.phase, pl.host) \in Seq(PlaceType)
    BY <1>1, <1>3, ChildrenFacts
  <2> QED BY <1>2, <1>7, <2>1
<1> HIDE DEF pl
<1>8. CASE \E k \in Nat \ {0} : work' = <<[pl EXCEPT !.at = k]>> \o Tail(work)
  <2>1. \E f \in Seq(PlaceType) :
              /\ work' = f \o Tail(work)
              /\ \E next \in PlaceType :
                      /\ f = <<next>> /\ next.at # 0
                      /\ next.phase = pl.phase /\ next.host = pl.host /\ next.force = pl.force
    BY <1>6, <1>8
  <2> QED BY <1>2, <2>1 DEF pl
<1> QED BY <1>4, <1>5, <1>7, <1>8

-----------------------------------------------------------------------------
(* The walk is preserved *)

\* What the walk goes on with comes back to clear flags, as what it left did.
LEMMA WalkOn ==
  ASSUME TypeOK, SceneInv, WalkInv, UNCHANGED children, work # <<>>,
         NEW f \in Seq(PlaceType), work' = f \o Tail(work),
         \A pl \in ToSet(f) :
           /\ pl.phase = Head(work).phase
           /\ pl.force => Parent(pl.host) # Null
           /\ \/ pl.host = Head(work).host /\ pl.force = Head(work).force
              \/ pl.force /\ Head(work).host # Scene /\ Head(work).host \in Up(pl.host)
  PROVE  WalkInv'
<1> DEFINE top == Head(work)
           rest == Tail(work)
<1>1. /\ ControlType /\ TreeType /\ TreeInv /\ Ordered(work)
      /\ \A pl \in ToSet(work) : pl.force => Parent(pl.host) # Null
      /\ \A pl \in ToSet(work) : pl.phase # "Start" /\ pl.host # Scene =>
           /\ pl.force => Overtaken(pl.host)
           /\ ~pl.force => \E other \in ToSet(work) : Clears(other) /\ other.host = pl.host
  BY TypeGroups DEF SceneInv, WalkInv
<1>2. /\ work \in Seq(PlaceType) /\ top \in PlaceType /\ top.host \in Host /\ rest \in Seq(PlaceType)
      /\ top.force \in BOOLEAN
  BY <1>1, HeadFacts DEF ControlType
<1>3. /\ ToSet(work) = {top} \cup ToSet(rest) /\ top = work[1] /\ 1 \in DOMAIN work
      /\ \A k \in DOMAIN rest : k + 1 \in DOMAIN work /\ rest[k] = work[k + 1]
      /\ DOMAIN rest \subseteq Nat \ {0}
  BY <1>2, TailFacts
<1>4. /\ \A x : Parent(x)' = Parent(x)
      /\ \A h : Up(h)' = Up(h)
  BY SameTree
<1>5. \A pl \in ToSet(f) :
        /\ pl.phase = top.phase
        /\ pl.force => Parent(pl.host) # Null
        /\ \/ pl.host = top.host /\ pl.force = top.force
           \/ pl.force /\ top.host # Scene /\ top.host \in Up(pl.host)
  OBVIOUS
<1>6. work' = f \o rest
  OBVIOUS
<1>7. ToSet(f) \subseteq PlaceType /\ ToSet(rest) \subseteq PlaceType
  BY <1>2, ListFacts
<1>8. \A pl \in PlaceType : pl.host \in Host
  BY DEF PlaceType
<1> HIDE DEF top, rest
<1>9. work' \in Seq(PlaceType) /\ ToSet(work') = ToSet(f) \cup ToSet(rest)
  <2>1. f \o rest \in Seq(PlaceType) /\ ToSet(f \o rest) = ToSet(f) \cup ToSet(rest)
    BY <1>2, ConcatFacts
  <2> QED BY <1>6, <2>1
<1>10. \A later \in ToSet(rest) :
         Later(top.phase, later.phase) => top.host = Scene /\ later.host # Scene
  <2> SUFFICES ASSUME NEW later \in ToSet(rest), Later(top.phase, later.phase)
               PROVE  top.host = Scene /\ later.host # Scene
    OBVIOUS
  <2>1. PICK k \in DOMAIN rest : rest[k] = later
    BY DEF ToSet
  <2>2. k + 1 \in DOMAIN work /\ work[k + 1] = later /\ 1 < k + 1
    BY <1>3, <2>1
  <2> QED BY <1>1, <1>3, <2>2 DEF Ordered
<1>11. Ordered(rest)
  <2> SUFFICES ASSUME NEW j \in DOMAIN rest, NEW k \in DOMAIN rest, j < k,
                      Later(rest[j].phase, rest[k].phase)
               PROVE  rest[j].host = Scene /\ rest[k].host # Scene
    BY DEF Ordered
  <2>1. /\ j + 1 \in DOMAIN work /\ rest[j] = work[j + 1]
        /\ k + 1 \in DOMAIN work /\ rest[k] = work[k + 1]
        /\ j + 1 < k + 1
    BY <1>3
  <2> QED BY <1>1, <2>1 DEF Ordered
<1>12. Ordered(work')
  <2>1. Ordered(f)
    <3>1. \A k \in DOMAIN f : f[k].phase = top.phase
      BY <1>5 DEF ToSet
    <3> QED BY <3>1 DEF Ordered, Later
  <2>2. \A pl \in ToSet(f) : top.host = Scene => pl.host = Scene
    BY <1>5
  <2> QED BY <1>2, <1>5, <1>6, <1>10, <1>11, <2>1, <2>2, OrderedConcat
<1>13. \A pl \in ToSet(work') : pl.force => Parent(pl.host)' # Null
  BY <1>1, <1>3, <1>4, <1>9, <1>5
<1>14. \A x : Overtaken(x) <=> \E pl \in ToSet(work) : Clears(pl) /\ pl.host \in Up(x)
  BY <1>1, OvertakenFacts
<1>15. \A x : Overtaken(x)' <=> \E pl \in ToSet(work') : Clears(pl) /\ pl.host \in Up(x)
  BY <1>4, OvertakenNext
<1>16. \A pl \in ToSet(rest) : pl.phase # "Start" /\ top.phase = "Start" => top.host = Scene
  BY <1>10 DEF Later
<1>17. \A x \in Object : Up(x) \subseteq Object /\ Scene \notin Up(x)
  BY <1>1, TreeFacts, HostFacts
<1>18. ASSUME NEW pl \in ToSet(rest), pl.phase # "Start", pl.host # Scene
       PROVE  /\ pl.force => Overtaken(pl.host)'
              /\ ~pl.force => \E other \in ToSet(work') : Clears(other) /\ other.host = pl.host
  <2>1. pl \in ToSet(work) /\ pl.host \in Object
    BY <1>3, <1>7, <1>8, <1>18 DEF Host
  <2>2. pl.host \in Up(pl.host)
    BY <1>1, <1>7, <1>8, <1>18, UpFacts
  <2>3. ASSUME NEW other \in ToSet(work), Clears(other), other.host \in Up(pl.host)
        PROVE  other \in ToSet(work')
    <3>1. other # top
      <4> SUFFICES ASSUME other = top PROVE FALSE
        OBVIOUS
      <4>1. top.phase = "Start"
        BY <2>3 DEF Clears
      <4> QED BY <1>16, <1>17, <1>18, <2>1, <2>3, <4>1
    <3> QED BY <1>3, <1>9, <3>1
  <2>4. pl.force => Overtaken(pl.host)'
    BY <1>1, <1>14, <1>15, <1>18, <2>1, <2>3
  <2>5. ~pl.force => \E other \in ToSet(work') : Clears(other) /\ other.host = pl.host
    BY <1>1, <1>18, <2>1, <2>2, <2>3
  <2> QED BY <2>4, <2>5
<1>19. ASSUME NEW pl \in ToSet(f), pl.phase # "Start", pl.host # Scene
       PROVE  /\ pl.force => Overtaken(pl.host)'
              /\ ~pl.force => \E other \in ToSet(work') : Clears(other) /\ other.host = pl.host
  <2>1. top.phase # "Start" /\ top.host # Scene
    BY <1>5, <1>19
  <2>2. top \in ToSet(work) /\ ~Clears(top) /\ top.host \in Up(top.host)
    BY <1>1, <1>2, <1>3, <2>1, UpFacts DEF Clears
  <2>3. \A other \in ToSet(work) : Clears(other) => other \in ToSet(work')
    BY <1>3, <1>9, <2>2
  <2>4. Overtaken(top.host)
    BY <1>1, <1>2, <1>14, <2>1, <2>2
  <2>5. CASE pl.host = top.host /\ pl.force = top.force
    BY <1>1, <1>14, <1>15, <2>1, <2>2, <2>3, <2>5
  <2>6. CASE pl.force /\ top.host # Scene /\ top.host \in Up(pl.host)
    <3>1. Up(top.host) \subseteq Up(pl.host)
      BY <1>1, <1>7, <1>8, <2>6, UpFacts
    <3> QED BY <1>14, <1>15, <2>3, <2>4, <2>6, <3>1
  <2> QED BY <1>5, <2>5, <2>6
<1> QED BY <1>9, <1>12, <1>13, <1>18, <1>19 DEF WalkInv

LEMMA WalkMoves ==
  ASSUME TypeOK, SceneInv, WalkInv, Visit \/ CallComponent \/ LeaveComponents
  PROVE  WalkInv'
<1>1. /\ ControlType /\ TreeType /\ TreeInv
      /\ \A pl \in ToSet(work) : pl.force => Parent(pl.host) # Null
  BY TypeGroups DEF SceneInv, WalkInv
<1>2. UNCHANGED children /\ work # <<>>
  BY WalkSteps
<1>3. PICK f \in Seq(PlaceType) :
              /\ work' = f \o Tail(work)
              /\ \/ f = <<>>
                 \/ \E next \in PlaceType :
                      /\ f = <<next>> /\ next.at # 0
                      /\ next.phase = Head(work).phase /\ next.host = Head(work).host
                      /\ next.force = Head(work).force
                 \/ f = Children(Head(work).phase, Head(work).host)
  BY WalkSteps
<1>4. /\ Head(work).host \in Host /\ Head(work).phase \in Phases
      /\ Head(work) \in ToSet(work)
  <2>1. work \in Seq(PlaceType)
    BY <1>1 DEF ControlType
  <2> QED BY <1>1, <1>2, <2>1, HeadFacts, TailFacts
<1> DEFINE top == Head(work)
<1> HIDE DEF top
<1>5. ASSUME NEW pl \in ToSet(f)
      PROVE  /\ pl.phase = top.phase
             /\ pl.force => Parent(pl.host) # Null
             /\ \/ pl.host = top.host /\ pl.force = top.force
                \/ pl.force /\ top.host # Scene /\ top.host \in Up(pl.host)
  <2>1. CASE f = <<>>
    BY <2>1, EmptyList
  <2>2. ASSUME NEW next \in PlaceType, f = <<next>>,
               next.phase = top.phase, next.host = top.host, next.force = top.force
        PROVE  /\ pl.phase = top.phase
               /\ pl.force => Parent(pl.host) # Null
               /\ \/ pl.host = top.host /\ pl.force = top.force
                  \/ pl.force /\ top.host # Scene /\ top.host \in Up(pl.host)
    <3>1. pl = next
      BY <2>2 DEF ToSet
    <3> QED BY <1>1, <1>4, <2>2, <3>1 DEF top
  <2>3. CASE f = Children(top.phase, top.host)
    <3>1. /\ pl.phase = top.phase /\ pl.force /\ top.host # Scene /\ pl.host \in Host
          /\ Parent(pl.host) = top.host /\ Parent(pl.host) # Null
      BY <1>1, <1>4, <2>3, ChildrenFacts DEF top
    <3>2. top.host \in Up(pl.host)
      BY <1>1, <3>1, UpFacts
    <3> QED BY <3>1, <3>2
  <2> QED BY <1>3, <2>1, <2>2, <2>3 DEF top
<1> QED BY <1>2, <1>3, <1>5, WalkOn DEF top

\* The places stay, and what is above the children that will be visited.
LEMMA WalkSame ==
  ASSUME ControlType, WalkInv, UNCHANGED work,
         \A pl \in ToSet(work) : pl.force =>
           Parent(pl.host)' # Null /\ Up(pl.host) \subseteq Up(pl.host)'
  PROVE  WalkInv'
<1>1. \A x : Overtaken(x) <=> \E pl \in ToSet(work) : Clears(pl) /\ pl.host \in Up(x)
  BY OvertakenFacts
<1>2. \A x : Overtaken(x)' <=> \E pl \in ToSet(work') : Clears(pl) /\ pl.host \in Up(x)'
  BY OvertakenNext
<1>3. \A pl \in ToSet(work) : pl.phase # "Start" /\ pl.host # Scene =>
           /\ pl.force => Overtaken(pl.host)'
           /\ ~pl.force => \E other \in ToSet(work) : Clears(other) /\ other.host = pl.host
  BY <1>1, <1>2 DEF WalkInv
<1> QED BY <1>3 DEF WalkInv

\* Moving and destroying: the loops over children that are under way go past
\* the parent of o, so none of them is above a place below o.
LEMMA NotIterated ==
  ASSUME ControlType, TreeType, TreeInv, WalkInv, NEW o \in Object, Parent(o) # Null,
         ~Iterated(Parent(o)), NEW pl \in ToSet(work), pl.force
  PROVE  o \notin Up(pl.host)
<1> SUFFICES ASSUME o \in Up(pl.host) PROVE FALSE
  OBVIOUS
<1>1. pl.host \in Host /\ \E k \in DOMAIN work : work[k] = pl
  <2>1. pl \in PlaceType
    BY ListFacts DEF ControlType
  <2> QED BY <2>1 DEF PlaceType, ToSet
<1>2. Parent(o) \in Up(pl.host)
  BY <1>1, UpFacts
<1>3. pl.host = Parent(o)
  BY <1>1, <1>2 DEF Iterated
<1> QED BY <1>3, Acyclic, HostFacts

LEMMA WalkStep ==
  ASSUME TypeOK, SceneInv, WalkInv, Next
  PROVE  WalkInv'
<1>1. /\ ControlType /\ TreeType /\ TreeInv /\ FrameInv
      /\ \A pl \in ToSet(work) : pl.force => Parent(pl.host) # Null
      /\ Object \subseteq Host /\ Null \notin Object
  BY TypeGroups, HostFacts DEF SceneInv, WalkInv
<1>2. \A pl \in ToSet(work) : pl.host \in Host /\ \E k \in DOMAIN work : work[k] = pl
  <2>1. ToSet(work) \subseteq PlaceType
    BY <1>1, ListFacts DEF ControlType
  <2> QED BY <2>1 DEF PlaceType, ToSet
<1>3. ASSUME UNCHANGED <<work, children>> PROVE WalkInv'
  BY <1>1, <1>3, SameTree, WalkSame
<1>4. ASSUME NEW o \in Object, MoveToRoot(o) PROVE WalkInv'
  <2>1. Parent(o) # Null /\ ~Iterated(Parent(o)) /\ UNCHANGED work
    BY <1>4 DEF MoveToRoot, control
  <2>2. /\ \A x \in Host : Parent(x)' = IF x = o THEN Null ELSE Parent(x)
        /\ \A h \in Host : o \notin Up(h) => Up(h)' = Up(h)
    <3>1. /\ children' \in Kids /\ Disjoint(children')
          /\ ParentsIn(children') = [ParentsIn(children) EXCEPT ![o] = Null]
      BY <1>1, <1>4, MoveToRootFacts
    <3> QED BY <1>1, <3>1, MovedUp
  <2>3. ASSUME NEW pl \in ToSet(work), pl.force
        PROVE  Parent(pl.host)' # Null /\ Up(pl.host) \subseteq Up(pl.host)'
    <3>1. o \notin Up(pl.host)
      BY <1>1, <2>1, <2>3, NotIterated
    <3>2. pl.host # o
      BY <1>1, <3>1, UpFacts
    <3> QED BY <1>1, <1>2, <2>2, <2>3, <3>1, <3>2
  <2> QED BY <1>1, <2>1, <2>3, WalkSame
<1>5. ASSUME NEW o \in Object, NEW p \in Object, MoveToTree(o, p) PROVE WalkInv'
  <2>1. Parent(o) \in Object => ~Iterated(Parent(o))
    BY <1>5 DEF MoveToTree
  <2>2. UNCHANGED work
    BY <1>5 DEF MoveToTree, control
  <2>3. /\ \A x \in Host : Parent(x)' = IF x = o THEN p ELSE Parent(x)
        /\ \A h \in Host : o \notin Up(h) => Up(h)' = Up(h)
        /\ \A h \in Host : o \in Up(h) =>
              o \in Up(h)' /\ \A x \in Up(h) : x \notin Up(o) => x \in Up(h)'
    <3>1. /\ children' \in Kids /\ Disjoint(children')
          /\ ParentsIn(children') = [ParentsIn(children) EXCEPT ![o] = p]
          /\ o \notin Up(p)
      BY <1>1, <1>5, MoveToTreeFacts
    <3> QED BY <1>1, <3>1, MovedUp
  <2>4. ASSUME NEW pl \in ToSet(work), pl.force
        PROVE  Parent(pl.host)' # Null /\ Up(pl.host) \subseteq Up(pl.host)'
    <3>1. CASE o \notin Up(pl.host)
      <4>1. pl.host # o
        BY <1>1, <3>1, UpFacts
      <4> QED BY <1>1, <1>2, <2>3, <2>4, <3>1, <4>1
    <3>2. CASE o \in Up(pl.host)
      <4>1. Parent(o) = Null
        BY <1>1, <2>1, <2>4, <3>2, NotIterated, TreeFacts
      <4>2. Up(o) = {o} /\ pl.host # o
        BY <1>1, <2>4, <4>1, UpFacts
      <4> QED BY <1>1, <1>2, <2>3, <2>4, <3>2, <4>2
    <3> QED BY <3>1, <3>2
  <2> QED BY <1>1, <2>2, <2>4, WalkSame
<1>6. ASSUME NEW o \in Object, Destroy(o) PROVE WalkInv'
  <2>1. /\ UNCHANGED work /\ Bury(o) /\ o \in Live
        /\ \A x \in (Below(o) \cup {Parent(o)}) \cap Object : ~Iterated(x)
    BY <1>6, UsableFacts DEF Destroy, control
  <2>2. /\ \A x \in Host : Parent(x)' = IF o \in Up(x) THEN Null ELSE Parent(x)
        /\ \A h \in Host : o \notin Up(h) => Up(h)' = Up(h)
    BY <2>1, BuriedUp
  <2>3. ASSUME NEW pl \in ToSet(work), pl.force
        PROVE  o \notin Up(pl.host)
    <3> SUFFICES ASSUME o \in Up(pl.host) PROVE FALSE
      OBVIOUS
    <3>1. o \in Below(o)
      BY <1>1, UpFacts DEF Below
    <3>2. ~Iterated(o)
      BY <2>1, <3>1
    <3>3. pl.host = o
      BY <1>2, <2>3, <3>2 DEF Iterated
    <3>4. Parent(o) # Null /\ Parent(o) \in Object
      BY <1>1, <2>3, <3>3, TreeFacts
    <3>5. ~Iterated(Parent(o))
      BY <2>1, <3>4
    <3> QED BY <1>1, <2>3, <3>4, <3>5, NotIterated
  <2>4. \A pl \in ToSet(work) : pl.force =>
          Parent(pl.host)' # Null /\ Up(pl.host) \subseteq Up(pl.host)'
    BY <1>1, <1>2, <2>2, <2>3
  <2> QED BY <1>1, <2>1, <2>4, WalkSame
<1>7. ASSUME SceneDestroyObject PROVE WalkInv'
  <2>1. pc = "prepare" /\ UNCHANGED work
    BY <1>7 DEF SceneDestroyObject, control
  <2>2. work = <<>>
    BY <1>1, <2>1 DEF FrameInv
  <2>3. \A pl \in ToSet(work) : FALSE
    BY <2>2, EmptyList
  <2> QED BY <1>1, <2>1, <2>3, WalkSame
<1>8. ASSUME BuildBegin PROVE WalkInv'
  <2>1. /\ UNCHANGED children
        /\ \/ UNCHANGED work
           \/ root' \in GetRootSceneObjects /\ work' = Walk(<<Scene>>) \o Walk(root')
    BY <1>8 DEF BuildBegin, tree
  <2>2. life = "alive"
    BY <1>1, <1>8 DEF BuildBegin, FrameInv, ControlType
  <2>3. CASE root' \in GetRootSceneObjects /\ work' = Walk(<<Scene>>) \o Walk(root')
    <3> DEFINE s == Walk(<<Scene>>)
               t == Walk(root')
               one == <<Scene>>
    <3>1. root' \in Seq(Object)
      BY <2>2, <2>3, RootsFacts
    <3>2. root' \in Seq(Host) /\ one \in Seq(Host) /\ ToSet(one) = {Scene}
      BY <3>1, HostFacts, SeqMonotonic DEF ToSet
    <3> HIDE DEF one
    <3>3. /\ s \in Seq(PlaceType) /\ Ordered(s)
          /\ \A pl \in ToSet(s) : ~pl.force /\ pl.host = Scene
      BY <3>2, WalkFacts DEF one
    <3>4. /\ t \in Seq(PlaceType) /\ Ordered(t)
          /\ \A pl \in ToSet(t) : ~pl.force /\ pl.host \in ToSet(root')
          /\ \A h \in ToSet(root') : Place("Start", h, FALSE, 0) \in ToSet(t)
      BY <3>2, WalkFacts DEF Phases
    <3>5. work' = s \o t
      BY <2>3
    <3> HIDE DEF s, t
    <3>6. Ordered(work') /\ ToSet(work') = ToSet(s) \cup ToSet(t)
      <4>1. \A h \in ToSet(root') : h # Scene
        BY <3>1, ListFacts, HostFacts
      <4>2. \A pl \in ToSet(s), later \in ToSet(t) : pl.host = Scene /\ later.host # Scene
        BY <3>3, <3>4, <4>1
      <4> QED BY <3>3, <3>4, <3>5, <4>2, OrderedConcat, ConcatFacts
    <3>7. \A h : Clears(Place("Start", h, FALSE, 0)) /\ Place("Start", h, FALSE, 0).host = h
      BY DEF Clears, Place
    <3>8. \A pl \in ToSet(work') : ~pl.force /\ (pl.host # Scene =>
            \E other \in ToSet(work') : Clears(other) /\ other.host = pl.host)
      BY <3>3, <3>4, <3>6, <3>7
    <3> QED BY <3>6, <3>8 DEF WalkInv
  <2> QED BY <1>3, <2>1, <2>3
<1>9. ASSUME NEW o \in Object, InstanceGameObject(o) \/ SetObjectEnabled(o) PROVE WalkInv'
  <2>1. UNCHANGED <<work, children>>
    BY <1>9 DEF InstanceGameObject, SetObjectEnabled, tree, control
  <2> QED BY <1>3, <2>1
<1>10. ASSUME NEW h \in Host, NEW c \in Component,
              AddComponent(h, c) \/ RemoveComponent(h, c) \/ SetComponentEnabled(c)
       PROVE  WalkInv'
  <2>1. UNCHANGED <<work, children>>
    BY <1>10 DEF AddComponent, RemoveComponent, SetComponentEnabled, tree, control
  <2> QED BY <1>3, <2>1
<1>11. ASSUME PrepareBegin \/ PrepareOnDestroy \/ PrepareEnd \/ BuildEnd \/ Update \/ UpdateEnd
              \/ SceneDestroy
       PROVE  WalkInv'
  <2>1. UNCHANGED <<work, children>>
    BY <1>11 DEF PrepareBegin, PrepareOnDestroy, PrepareEnd, BuildEnd, Update, UpdateEnd,
                 SceneDestroy, tree
  <2> QED BY <1>3, <2>1
<1>12. Host # {}
  BY HostFacts
<1> QED BY <1>4, <1>5, <1>6, <1>7, <1>8, <1>9, <1>10, <1>11, <1>12, WalkMoves,
           Zenon DEF Next, Application, Frame

-----------------------------------------------------------------------------
(* What is dirty will be visited *)

\* What Overtaken and Loading depend on.
LEMMA PlacesFacts ==
  ASSUME ControlType
  PROVE  /\ \A h : Overtaken(h) <=> \E pl \in ToSet(work) : Clears(pl) /\ pl.host \in Up(h)
         /\ \A h : Overtaken(h)' <=> \E pl \in ToSet(work') : Clears(pl) /\ pl.host \in Up(h)'
         /\ \A h : Loading(h) <=>
              \E pl \in ToSet(work) : pl.phase = "PostLoad" /\ pl.host \in Up(h)
         /\ \A h : Loading(h)' <=>
              \E pl \in ToSet(work') : pl.phase = "PostLoad" /\ pl.host \in Up(h)'
BY OvertakenFacts, OvertakenNext DEF Loading

\* No change of what the invariant is about.
LEMMA DueSame ==
  ASSUME ControlType, TreeType, DueInv, UNCHANGED <<children, created, destroyed, blocked, work>>,
         unattached' \subseteq unattached, updaterDirty => updaterDirty',
         \A o \in Live : o \in dirty' => o \in dirty,
         Scene \in dirty => Scene \in dirty'
  PROVE  DueInv'
<1>1. /\ \A h : Up(h)' = Up(h)
      /\ Live' = Live
  BY SameTree DEF Live
<1>2. /\ \A h : Overtaken(h)' <=> Overtaken(h)
      /\ \A h : Loading(h)' <=> Loading(h)
  BY <1>1, PlacesFacts
<1>3. SceneDue => SceneDue'
  BY <1>2 DEF SceneDue
<1> QED BY <1>1, <1>2, <1>3 DEF DueInv

\* When SetDirty(true) does not get to the updater, it stopped at a flag that
\* Build is about to see.
LEMMA ClimbDue ==
  ASSUME ControlType, TreeType, TreeInv, MarkInv, DueInv, NEW h \in Host, h # Scene,
         ~updaterDirty, ~SceneDue, Top(h) \notin Climb(h),
         NEW y \in Live, y \in dirty \cup Climb(h), Up(y) \cap blocked = {}
  PROVE  Overtaken(y)
<1>1. CASE y \in dirty
  BY <1>1 DEF DueInv
<1>2. CASE y \in Climb(h)
  <2>1. Top(h) \in dirty /\ Top(h) \in Up(y)
    BY <1>2, ClimbFacts DEF MarkInv
  <2>2. y \in Host /\ Up(y) \subseteq Live
    BY TreeFacts, HostFacts DEF Live, TreeType
  <2>3. Top(h) \in Live /\ Up(Top(h)) \subseteq Up(y)
    BY <2>1, <2>2, UpFacts
  <2>4. Overtaken(Top(h))
    BY <2>1, <2>3 DEF DueInv
  <2> QED BY <2>3, <2>4, OvertakenFacts
<1> QED BY <1>1, <1>2

\* Calls that mark a host of the same tree.
LEMMA DueClimb ==
  ASSUME ControlType, TreeType, TreeInv, MarkInv, DueInv, NEW h \in Host,
         UNCHANGED <<children, created, destroyed, work>>,
         dirty' = dirty \cup Climb(h),
         updaterDirty \/ h = Scene \/ Top(h) \in Climb(h) => updaterDirty',
         blocked \subseteq blocked',
         \/ unattached' = unattached
         \/ unattached' = unattached \cup {h} /\ (Overtaken(h) => h \in blocked')
  PROVE  DueInv'
<1>1. /\ \A x : Up(x)' = Up(x)
      /\ Live' = Live
  BY SameTree DEF Live
<1>2. /\ \A x : Overtaken(x)' <=> Overtaken(x)
      /\ \A x : Loading(x)' <=> Loading(x)
  BY <1>1, PlacesFacts
<1>3. SceneDue => SceneDue'
  BY <1>2 DEF SceneDue
<1>4. h \in Up(h) /\ h \in dirty \cup Climb(h)
  BY UpFacts, ClimbFacts DEF MarkInv
<1>5. ASSUME NEW y \in Live, Up(y) \cap blocked' = {}, ~updaterDirty', ~SceneDue'
      PROVE  /\ y \in unattached' => Loading(y)
             /\ y \in dirty' => Overtaken(y)
  <2>1. /\ Up(y) \cap blocked = {} /\ ~updaterDirty /\ ~SceneDue /\ h # Scene
        /\ Top(h) \notin Climb(h)
    BY <1>3, <1>5
  <2>2. y \in dirty' => Overtaken(y)
    BY <2>1, ClimbDue
  <2>3. y \in unattached' => y \in unattached
    BY <1>4, <1>5, <2>2
  <2> QED BY <2>1, <2>2, <2>3 DEF DueInv
<1> QED BY <1>1, <1>2, <1>5 DEF DueInv

LEMMA DueCalls ==
  ASSUME TypeOK, SceneInv, MarkInv, DueInv
  PROVE  /\ \A o \in Object : InstanceGameObject(o) \/ SetObjectEnabled(o) \/ Destroy(o) => DueInv'
         /\ \A c \in Component : SetComponentEnabled(c) => DueInv'
         /\ \A h \in Host, c \in Component : AddComponent(h, c) \/ RemoveComponent(h, c) => DueInv'
         /\ SceneDestroyObject => DueInv'
<1>1. /\ ControlType /\ TreeType /\ TreeInv /\ PartsType /\ Object \subseteq Host
  BY TypeGroups, HostFacts DEF SceneInv
<1>2. updaterDirty' => DueInv'
  BY DEF DueInv
<1>3. ASSUME NEW o \in Object, InstanceGameObject(o) \/ Destroy(o) PROVE DueInv'
  BY <1>2, <1>3 DEF InstanceGameObject, Destroy, SetDirtyTrue
<1>4. ASSUME SceneDestroyObject PROVE DueInv'
  BY <1>2, <1>4 DEF SceneDestroyObject, SetDirtyTrue
<1>5. ASSUME NEW o \in Object, SetObjectEnabled(o) PROVE DueInv'
  <2>1. /\ UNCHANGED <<children, created, destroyed, work, blocked, unattached>>
        /\ dirty' = dirty \cup Climb(o)
        /\ updaterDirty \/ o = Scene \/ Top(o) \in Climb(o) => updaterDirty'
    BY <1>5 DEF SetObjectEnabled, SetDirtyTrue, tree, control
  <2> QED BY <1>1, <2>1, DueClimb
<1>6. ASSUME NEW c \in Component, SetComponentEnabled(c) PROVE DueInv'
  <2> DEFINE h == host[c]
  <2>1. /\ UNCHANGED <<children, created, destroyed, work, blocked, unattached>>
        /\ dirty' = dirty \cup Climb(h) /\ h # Null
        /\ updaterDirty \/ h = Scene \/ Top(h) \in Climb(h) => updaterDirty'
    BY <1>6 DEF SetComponentEnabled, SetDirtyTrue, tree, control
  <2>2. h \in Host
    BY <1>1, <2>1 DEF PartsType
  <2> HIDE DEF h
  <2> QED BY <1>1, <2>1, <2>2, DueClimb
<1>7. ASSUME NEW h \in Host, NEW c \in Component, AddComponent(h, c) PROVE DueInv'
  <2>1. /\ UNCHANGED <<children, created, destroyed, work>>
        /\ dirty' = dirty \cup Climb(h) /\ unattached' = unattached \cup {h}
        /\ updaterDirty \/ h = Scene \/ Top(h) \in Climb(h) => updaterDirty'
        /\ blocked \subseteq blocked' /\ (Overtaken(h) => blocked' = blocked \cup Up(h))
    BY <1>7 DEF AddComponent, SetDirtyTrue, Block, tree, control
  <2>2. h \in Up(h)
    BY <1>1, UpFacts
  <2> QED BY <1>1, <2>1, <2>2, DueClimb
<1>8. ASSUME NEW h \in Host, NEW c \in Component, RemoveComponent(h, c) PROVE DueInv'
  <2>1. /\ UNCHANGED <<children, created, destroyed, work, unattached>>
        /\ dirty' = dirty \cup Climb(h)
        /\ updaterDirty \/ h = Scene \/ Top(h) \in Climb(h) => updaterDirty'
        /\ blocked \subseteq blocked'
    BY <1>8 DEF RemoveComponent, Block, tree, control
  <2> QED BY <1>1, <2>1, DueClimb
<1> QED BY <1>3, <1>4, <1>5, <1>6, <1>7, <1>8

LEMMA DueMoves ==
  ASSUME TypeOK, SceneInv, FlagInv
  PROVE  /\ \A o \in Object : MoveToRoot(o) => DueInv'
         /\ \A o, p \in Object : MoveToTree(o, p) => DueInv'
<1>1. /\ ControlType /\ TreeType /\ TreeInv /\ MarkInv /\ DueInv /\ WalkInv
      /\ UpClosed(blocked) /\ Object \subseteq Host /\ Null \notin Object /\ Scene \in Host
      /\ Scene \notin Object /\ Up(Scene) = {Scene}
      /\ Live \subseteq Object
  BY TypeGroups, HostFacts, TreeFacts DEF SceneInv, FlagInv, MarkInv, Live, TreeType
<1>2. /\ \A h : Overtaken(h) <=> \E pl \in ToSet(work) : Clears(pl) /\ pl.host \in Up(h)
      /\ \A h : Overtaken(h)' <=> \E pl \in ToSet(work') : Clears(pl) /\ pl.host \in Up(h)'
      /\ \A h : Loading(h) <=>
              \E pl \in ToSet(work) : pl.phase = "PostLoad" /\ pl.host \in Up(h)
      /\ \A h : Loading(h)' <=>
              \E pl \in ToSet(work') : pl.phase = "PostLoad" /\ pl.host \in Up(h)'
  BY <1>1, PlacesFacts
<1>3. \A h \in Host : UNCHANGED work /\ Up(h)' = Up(h) =>
        /\ Overtaken(h)' <=> Overtaken(h)
        /\ Loading(h)' <=> Loading(h)
  BY <1>2
<1>4. ASSUME NEW o \in Object, MoveToRoot(o) PROVE DueInv'
  <2>1. /\ UNCHANGED <<created, destroyed, work, dirty, unattached, updaterDirty>>
        /\ blocked \subseteq blocked'
        /\ Overtaken(o) \/ Up(o) \cap blocked # {} => o \in blocked'
    BY <1>4 DEF MoveToRoot, Block, marks, control
  <2>2. /\ \A h \in Host : o \notin Up(h) => Up(h)' = Up(h)
        /\ \A h \in Host : o \in Up(h) =>
              /\ o \in Up(h)'
              /\ \A x \in Up(h) : x \notin Up(o) => x \in Up(h)'
    <3>1. /\ children' \in Kids /\ Disjoint(children')
          /\ ParentsIn(children') = [ParentsIn(children) EXCEPT ![o] = Null]
      BY <1>1, <1>4, MoveToRootFacts
    <3> QED BY <1>1, <3>1, MovedUp
  <2>3. SceneDue => SceneDue'
    BY <1>1, <1>3, <2>1, <2>2 DEF SceneDue
  <2>4. ASSUME NEW y \in Live, Up(y)' \cap blocked' = {}, ~updaterDirty, ~SceneDue
        PROVE  /\ y \in unattached => Loading(y)'
               /\ y \in dirty => Overtaken(y)'
    <3>1. y \in Host /\ y \in Object /\ Up(y) \subseteq Object
      BY <1>1, TreeFacts
    <3>2. CASE o \notin Up(y)
      <4>1. Up(y)' = Up(y) /\ Up(y) \cap blocked = {}
        BY <2>1, <2>2, <2>4, <3>1, <3>2
      <4>2. (y \in unattached => Loading(y)) /\ (y \in dirty => Overtaken(y))
        BY <1>1, <2>4, <4>1 DEF DueInv
      <4> QED BY <1>3, <2>1, <3>1, <4>1, <4>2
    <3>3. CASE o \in Up(y)
      <4>1. o \in Up(y)' /\ \A x \in Up(y) : x \notin Up(o) => x \in Up(y)'
        BY <2>2, <3>1, <3>3
      <4>2. ~Overtaken(o) /\ Up(o) \cap blocked = {}
        BY <2>1, <2>4, <4>1
      <4>3. Up(y) \cap blocked = {}
        BY <1>1, <3>1, <3>3, <4>2, Unblocked
      <4>4. (y \in unattached => Loading(y)) /\ (y \in dirty => Overtaken(y))
        BY <1>1, <2>4, <4>3 DEF DueInv
      <4>5. y \in dirty => Overtaken(y)'
        BY <1>2, <2>1, <4>1, <4>2, <4>4
      <4>6. ASSUME NEW pl \in ToSet(work), pl.phase = "PostLoad", pl.host \in Up(y)
            PROVE  pl.host \in Up(y)'
        <5> SUFFICES ASSUME pl.host \in Up(o) PROVE FALSE
          BY <4>1, <4>6
        <5>1. pl.host # Scene /\ pl.host \in Host /\ Up(pl.host) \subseteq Up(o)
              /\ pl.host \in Up(pl.host)
          BY <1>1, <3>1, <4>6, UpFacts
        <5>2. \/ Overtaken(pl.host)
              \/ \E other \in ToSet(work) : Clears(other) /\ other.host = pl.host
          BY <1>1, <4>6, <5>1 DEF WalkInv
        <5> QED BY <1>2, <4>2, <5>1, <5>2
      <4>7. y \in unattached => Loading(y)'
        BY <1>2, <2>1, <4>4, <4>6
      <4> QED BY <4>5, <4>7
    <3> QED BY <3>2, <3>3
  <2>5. Live' = Live
    BY <2>1 DEF Live
  <2> QED BY <2>1, <2>3, <2>4, <2>5 DEF DueInv
<1>5. ASSUME NEW o \in Object, NEW p \in Object, MoveToTree(o, p) PROVE DueInv'
  <2>1. /\ UNCHANGED <<created, destroyed, work, unattached>>
        /\ dirty' = dirty \cup Climb(p)
        /\ updaterDirty \/ Top(p) \in Climb(p) => updaterDirty'
        /\ blocked \subseteq blocked'
        /\ Overtaken(p) => blocked' = blocked \cup Up(p)
        /\ p # Scene
    BY <1>1, <1>5 DEF MoveToTree, SetDirtyTrue, Block, control
  <2>2. /\ \A h \in Host : o \notin Up(h) => Up(h)' = Up(h)
        /\ \A h \in Host : o \in Up(h) => Up(p) \subseteq Up(h)'
        /\ p \in Live
    <3>1. /\ children' \in Kids /\ Disjoint(children')
          /\ ParentsIn(children') = [ParentsIn(children) EXCEPT ![o] = p]
          /\ o \notin Up(p) /\ p \in Live /\ p # Null
      BY <1>1, <1>5, MoveToTreeFacts
    <3> QED BY <1>1, <3>1, MovedUp
  <2>3. SceneDue => SceneDue'
    BY <1>1, <1>3, <2>1, <2>2 DEF SceneDue
  <2>4. p \in Up(p) /\ p \in dirty \cup Climb(p)
    BY <1>1, UpFacts, ClimbFacts DEF MarkInv
  <2>5. ASSUME NEW y \in Live, Up(y)' \cap blocked' = {}, ~updaterDirty', ~SceneDue'
        PROVE  /\ y \in unattached' => Loading(y)'
               /\ y \in dirty' => Overtaken(y)'
    <3>1. ~updaterDirty /\ ~SceneDue /\ Top(p) \notin Climb(p) /\ y \in Host
      BY <1>1, <2>1, <2>3, <2>5
    <3>2. CASE o \notin Up(y)
      <4>1. Up(y)' = Up(y) /\ Up(y) \cap blocked = {}
        BY <2>1, <2>2, <2>5, <3>1, <3>2
      <4>2. y \in dirty' => Overtaken(y)
        BY <1>1, <2>1, <3>1, <4>1, ClimbDue
      <4>3. y \in unattached => Loading(y)
        BY <1>1, <3>1, <4>1 DEF DueInv
      <4> QED BY <1>3, <2>1, <3>1, <4>1, <4>2, <4>3
    <3>3. CASE o \in Up(y)
      <4>1. Up(p) \cap blocked' = {}
        BY <2>2, <2>5, <3>1, <3>3
      <4>2. Overtaken(p)
        BY <1>1, <2>1, <2>2, <2>4, <3>1, <4>1, ClimbDue
      <4> QED BY <2>1, <2>4, <4>1, <4>2
    <3> QED BY <3>2, <3>3
  <2>6. Live' = Live
    BY <2>1 DEF Live
  <2> QED BY <2>5, <2>6 DEF DueInv
<1> QED BY <1>4, <1>5

\* When Build begins, the roots are visited: all of them, unless the scene is
\* dirty and makes the next Build run anyway.
LEMMA DueBuild ==
  ASSUME TypeOK, SceneInv, MarkInv, DueInv, BuildBegin
  PROVE  DueInv'
<1>1. /\ ControlType /\ TreeType /\ TreeInv /\ FrameInv /\ SlotInv /\ TableType
      /\ pc \in {"destroy", "prepared"} /\ newQueue # <<>> => Scene \in dirty
      /\ Up(Scene) = {Scene} /\ Live \subseteq Object /\ Object \subseteq Host
  BY TypeGroups, HostFacts, TreeFacts DEF SceneInv, MarkInv, Live, TreeType
<1>2. /\ UNCHANGED <<children, created, destroyed, blocked, dirty, unattached>> /\ pc = "prepared"
      /\ \/ UNCHANGED <<work, updaterDirty>>
         \/ root' \in GetRootSceneObjects /\ work' = Walk(<<Scene>>) \o Walk(root')
  BY DEF BuildBegin, tree, ghosts
<1>3. CASE UNCHANGED <<work, updaterDirty>>
  BY <1>1, <1>2, <1>3, DueSame
<1>4. CASE root' \in GetRootSceneObjects /\ work' = Walk(<<Scene>>) \o Walk(root')
  <2>1. life = "alive"
    BY <1>1, <1>2 DEF FrameInv, ControlType
  <2>2. /\ root' \in Seq(Object)
        /\ ToSet(root') = {o \in Object : Parent(o) = Null} \cap ToSet(slots)
    BY <1>4, <2>1, RootsFacts
  <2> DEFINE one == <<Scene>>
             s == Walk(one)
             t == Walk(root')
  <2>3. root' \in Seq(Host) /\ one \in Seq(Host) /\ Scene \in ToSet(one)
    BY <2>2, HostFacts, SeqMonotonic DEF ToSet
  <2> HIDE DEF one
  <2>4. /\ s \in Seq(PlaceType) /\ t \in Seq(PlaceType)
        /\ Place("Start", Scene, FALSE, 0) \in ToSet(s)
        /\ \A h \in ToSet(root') : /\ Place("PostLoad", h, FALSE, 0) \in ToSet(t)
                                   /\ Place("Start", h, FALSE, 0) \in ToSet(t)
    BY <2>3, WalkFacts DEF Phases
  <2>5. work' = s \o t
    BY <1>4 DEF one
  <2> HIDE DEF s, t
  <2>6. ToSet(work') = ToSet(s) \cup ToSet(t)
    BY <2>4, <2>5, ConcatFacts
  <2>7. \A h : /\ Clears(Place("Start", h, FALSE, 0)) /\ Place("Start", h, FALSE, 0).host = h
               /\ Place("PostLoad", h, FALSE, 0).phase = "PostLoad"
               /\ Place("PostLoad", h, FALSE, 0).host = h
    BY DEF Clears, Place
  <2>8. /\ \A h : Up(h)' = Up(h)
        /\ Live' = Live
    BY <1>2, SameTree DEF Live
  <2>9. Overtaken(Scene)'
    BY <1>1, <2>4, <2>6, <2>7, <2>8, PlacesFacts
  <2>10. ASSUME NEW y \in Live, ~SceneDue' PROVE Loading(y)' /\ Overtaken(y)'
    <3>1. Scene \notin dirty
      BY <1>2, <2>9, <2>10 DEF SceneDue
    <3>2. newQueue = <<>>
      BY <1>1, <1>2, <3>1
    <3>3. Top(y) \in Up(y) /\ Top(y) \in Live /\ Top(y) \in Object /\ Parent(Top(y)) = Null
      BY <1>1, TopFacts
    <3>4. Top(y) \in ToSet(slots)
      <4>1. Top(y) \in Live \ ToSet(newQueue)
        BY <3>2, <3>3, EmptyList
      <4> QED BY <1>1, <4>1 DEF SlotInv, ToSet
    <3>5. Top(y) \in ToSet(root')
      BY <2>2, <3>3, <3>4
    <3>6. /\ Place("PostLoad", Top(y), FALSE, 0) \in ToSet(work')
          /\ Place("Start", Top(y), FALSE, 0) \in ToSet(work')
      BY <2>4, <2>6, <3>5
    <3>7. \E pl \in ToSet(work') : pl.phase = "PostLoad" /\ pl.host \in Up(y)'
      BY <2>7, <2>8, <3>3, <3>6
    <3>8. \E pl \in ToSet(work') : Clears(pl) /\ pl.host \in Up(y)'
      BY <2>7, <2>8, <3>3, <3>6
    <3> QED BY <1>1, <3>7, <3>8, PlacesFacts
  <2> QED BY <2>8, <2>10 DEF DueInv
<1> QED BY <1>2, <1>3, <1>4

\* On the way down from h to an object below it there is a child of h.
LEMMA ChildOnTheWay ==
  ASSUME TreeType, TreeInv, NEW y \in Object, NEW h \in Up(y), h # y
  PROVE  \E x \in Object : x \in Up(y) /\ Parent(x) = h
<1> SUFFICES ASSUME \A x \in Object : x \in Up(y) => Parent(x) # h PROVE FALSE
  OBVIOUS
<1>1. /\ y \in Host /\ y \in Up(y) /\ Up(y) \subseteq Object
      /\ \A x \in Up(y) : Parent(x) # Null => Parent(x) \in Up(y)
  BY HostFacts, UpFacts, TreeFacts
<1> DEFINE S == {x \in Up(y) : x # h}
<1>2. UpClosed(S)
  BY <1>1 DEF UpClosed
<1>3. y \in S
  BY <1>1
<1> HIDE DEF S
<1>4. Up(y) \subseteq S
  BY <1>1, <1>2, <1>3, ClosedUp
<1> QED BY <1>4 DEF S

\* What the steps of the walk do to the flags.
LEMMA WalkFlags ==
  ASSUME TypeOK, SceneInv, Visit \/ CallComponent \/ LeaveComponents
  PROVE  /\ updaterDirty => updaterDirty'
         /\ unattached' \subseteq unattached
         /\ \/ dirty' = dirty
            \/ Head(work).host = Scene /\ updaterDirty'
            \/ /\ Head(work).host \in Object /\ Head(work).phase = "Start"
               /\ dirty' = dirty \ Cleaned(Head(work).host)
<1> DEFINE h == Head(work).host
<1>1. ControlType
  BY TypeGroups
<1>2. ASSUME Visit
      PROVE  /\ updaterDirty => updaterDirty'
             /\ unattached' \subseteq unattached
             /\ \/ dirty' = dirty
                \/ h = Scene /\ updaterDirty'
                \/ h \in Object /\ Head(work).phase = "Start" /\ dirty' = dirty \ Cleaned(h)
  <2>1. /\ work # <<>> /\ UNCHANGED unattached
        /\ \/ UNCHANGED <<dirty, updaterDirty>>
           \/ Head(work).phase = "Start" /\ SetDirtyFalse(h)
    BY <1>2 DEF Visit
  <2>2. h \in Host
    BY <1>1, <2>1, HeadFacts
  <2> HIDE DEF h
  <2> QED BY <2>1, <2>2 DEF SetDirtyFalse, Host
<1>3. ASSUME CallComponent
      PROVE  (updaterDirty => updaterDirty') /\ unattached' = unattached /\ dirty' = dirty
  <2> DEFINE c == comps[Head(work).host][Head(work).at]
  <2>1. /\ UNCHANGED <<dirty, unattached>>
        /\ UNCHANGED updaterDirty \/ CheckActivity(c)
    BY <1>3 DEF CallComponent
  <2> HIDE DEF c
  <2>2. CheckActivity(c) => updaterDirty' = TRUE \/ UNCHANGED updaterDirty
    BY DEF CheckActivity, RegisterComponent
  <2> QED BY <2>1, <2>2
<1>4. ASSUME LeaveComponents
      PROVE  updaterDirty' = updaterDirty /\ unattached' \subseteq unattached /\ dirty' = dirty
  BY <1>4 DEF LeaveComponents
<1> HIDE DEF h
<1>5. Visit \/ CallComponent \/ LeaveComponents
  OBVIOUS
<1> QED BY <1>2, <1>3, <1>4, <1>5 DEF h

\* The walk leaves a place of PostLoad for the components of the host and for
\* its children.
LEMMA PostLoadStays ==
  ASSUME TypeOK, SceneInv, Visit \/ CallComponent \/ LeaveComponents,
         Head(work).phase = "PostLoad", Head(work).host \in dirty
  PROVE  \/ \E pl \in ToSet(work') : pl.phase = "PostLoad" /\ pl.host = Head(work).host
         \/ /\ work' = Children("PostLoad", Head(work).host) \o Tail(work)
            /\ comps[Head(work).host] = <<>> \/ Head(work).host \notin unattached'
<1> DEFINE top == Head(work)
           h == top.host
           rest == Tail(work)
<1>1. ControlType /\ work # <<>>
  BY TypeGroups, WalkSteps
<1>2. top \in PlaceType /\ rest \in Seq(PlaceType) /\ top.at \in Nat
  BY <1>1, HeadFacts
<1>3. /\ Visit => Enter("PostLoad", h, TRUE)
      /\ LeaveComponents => work' = Children("PostLoad", h) \o rest /\ unattached' = unattached \ {h}
      /\ CallComponent => work' = <<[top EXCEPT !.at = top.at + 1]>> \o rest
  <2>1. Visit => Enter("PostLoad", h, TRUE)
    BY DEF Visit
  <2>2. LeaveComponents => work' = Children("PostLoad", h) \o rest /\ unattached' = unattached \ {h}
    BY DEF LeaveComponents
  <2>3. CallComponent => work' = <<[top EXCEPT !.at = top.at + 1]>> \o rest
    BY DEF CallComponent
  <2> QED BY <2>1, <2>2, <2>3
<1>4. \/ \E k \in Nat : work' = <<[top EXCEPT !.at = k]>> \o rest
      \/ work' = Children("PostLoad", h) \o rest /\ (comps[h] = <<>> \/ h \notin unattached')
  <2>1. Enter("PostLoad", h, TRUE) =>
          \/ work' = <<[top EXCEPT !.at = 1]>> \o rest
          \/ work' = Children("PostLoad", h) \o rest /\ comps[h] = <<>>
    BY DEF Enter
  <2>2. 1 \in Nat /\ top.at + 1 \in Nat
    BY <1>2
  <2>3. Visit \/ CallComponent \/ LeaveComponents
    OBVIOUS
  <2> HIDE DEF top, h, rest
  <2>4. CASE Visit
    BY <1>3, <2>1, <2>2, <2>4, Zenon
  <2>5. CASE CallComponent
    BY <1>3, <2>2, <2>5, Zenon
  <2>6. CASE LeaveComponents
    BY <1>3, <2>6
  <2> QED BY <2>3, <2>4, <2>5, <2>6
<1>5. ASSUME NEW k \in Nat, work' = <<[top EXCEPT !.at = k]>> \o rest
      PROVE  \E pl \in ToSet(work') : pl.phase = top.phase /\ pl.host = top.host
  <2> HIDE DEF top, rest
  <2> DEFINE next == [top EXCEPT !.at = k]
             one == <<next>>
  <2>1. next \in PlaceType
    BY <1>2, PlaceFacts
  <2>2. next.phase = top.phase /\ next.host = top.host
    BY <1>2 DEF PlaceType
  <2>3. work' = one \o rest
    BY <1>5
  <2> HIDE DEF next
  <2>4. one \in Seq(PlaceType) /\ next \in ToSet(one)
    BY <2>1 DEF ToSet
  <2> HIDE DEF one
  <2>5. ToSet(one \o rest) = ToSet(one) \cup ToSet(rest)
    BY <1>2, <2>4, ConcatFacts
  <2> QED BY <2>2, <2>3, <2>4, <2>5
<1>6. top.phase = "PostLoad"
  OBVIOUS
<1> HIDE DEF top, rest
<1>7. \/ \E pl \in ToSet(work') : pl.phase = "PostLoad" /\ pl.host = h
      \/ work' = Children("PostLoad", h) \o rest /\ (comps[h] = <<>> \/ h \notin unattached')
  BY <1>4, <1>5, <1>6
<1> QED BY <1>7 DEF top, rest

\* A place that clears flags is taken from the list by Visit alone.
LEMMA ClearsVisited ==
  ASSUME TypeOK, SceneInv, Visit \/ CallComponent \/ LeaveComponents, Clears(Head(work)),
         Head(work).host \in dirty
  PROVE  IF Head(work).host = Scene THEN updaterDirty'
         ELSE dirty' = dirty \ Cleaned(Head(work).host)
<1> DEFINE top == Head(work)
           h == top.host
<1>1. ControlType /\ PartsType /\ work # <<>>
  BY TypeGroups, WalkSteps
<1>2. h \in Host
  BY <1>1, HeadFacts
<1>3. top.phase = "Start" /\ top.at = 0 /\ ~top.force
  BY DEF Clears
<1>4. ~CallComponent
  <2> SUFFICES ASSUME CallComponent PROVE FALSE
    OBVIOUS
  <2>1. 0 \in DOMAIN comps[h]
    BY <1>3 DEF CallComponent
  <2>2. comps[h] \in Seq(Component)
    BY <1>1, <1>2 DEF PartsType
  <2> HIDE DEF h
  <2> QED BY <2>1, <2>2, ListFacts
<1>5. ~LeaveComponents
  BY <1>3 DEF LeaveComponents
<1>6. SetDirtyFalse(h)
  <2>1. Visit
    BY <1>4, <1>5
  <2> QED BY <1>3, <2>1 DEF Visit
<1> HIDE DEF h
<1>7. IF h = Scene THEN updaterDirty' ELSE dirty' = dirty \ Cleaned(h)
  BY <1>6 DEF SetDirtyFalse
<1> QED BY <1>7 DEF h

LEMMA DueWalk ==
  ASSUME TypeOK, SceneInv, FlagInv, Visit \/ CallComponent \/ LeaveComponents
  PROVE  DueInv'
<1> DEFINE top == Head(work)
           h == top.host
           rest == Tail(work)
<1>1. /\ ControlType /\ TreeType /\ TreeInv /\ MarkInv /\ DueInv /\ Ordered(work)
      /\ UpClosed(dirty) /\ Object \cap unattached \subseteq dirty
      /\ \A o \in Live \cap unattached : comps[o] = <<>> => o \in blocked
      /\ Object \subseteq Host /\ Scene \notin Object /\ Scene \in Host /\ Up(Scene) = {Scene}
      /\ Live \subseteq Object /\ \A x \in Object : Up(x) \subseteq Object
  BY TypeGroups, HostFacts, TreeFacts DEF SceneInv, FlagInv, WalkInv, MarkInv, Live, TreeType
<1>2. /\ UNCHANGED <<children, created, destroyed, blocked>> /\ work # <<>>
      /\ \E f \in Seq(PlaceType) : work' = f \o rest
  BY WalkSteps
<1>3. /\ work \in Seq(PlaceType) /\ h \in Host /\ top.phase \in Phases /\ rest \in Seq(PlaceType)
      /\ ToSet(work) \subseteq PlaceType
  BY <1>1, <1>2, HeadFacts, ListFacts DEF ControlType
<1>4. /\ ToSet(work) = {top} \cup ToSet(rest) /\ top = work[1] /\ 1 \in DOMAIN work
      /\ \A k \in DOMAIN rest : k + 1 \in DOMAIN work /\ rest[k] = work[k + 1]
      /\ DOMAIN rest \subseteq Nat \ {0}
  BY <1>2, <1>3, TailFacts
<1>5. /\ updaterDirty => updaterDirty'
      /\ unattached' \subseteq unattached
      /\ \/ dirty' = dirty
         \/ h = Scene /\ updaterDirty'
         \/ h \in Object /\ top.phase = "Start" /\ dirty' = dirty \ Cleaned(h)
  BY WalkFlags
<1>6. /\ top.phase = "PostLoad" /\ h \in dirty =>
           \/ \E pl \in ToSet(work') : pl.phase = "PostLoad" /\ pl.host = h
           \/ /\ work' = Children("PostLoad", h) \o rest
              /\ comps[h] = <<>> \/ h \notin unattached'
      /\ Clears(top) /\ h \in dirty =>
           IF h = Scene THEN updaterDirty' ELSE dirty' = dirty \ Cleaned(h)
  BY PostLoadStays, ClearsVisited
<1> HIDE DEF top, rest
<1>7. ToSet(rest) \subseteq ToSet(work')
  <2>1. PICK f \in Seq(PlaceType) : work' = f \o rest
    BY <1>2
  <2>2. ToSet(f \o rest) = ToSet(f) \cup ToSet(rest)
    BY <1>3, ConcatFacts
  <2> QED BY <2>1, <2>2
<1>8. /\ \A x : Up(x)' = Up(x)
      /\ Live' = Live
  BY <1>2, SameTree DEF Live
<1>9. /\ \A x : Overtaken(x) <=> \E pl \in ToSet(work) : Clears(pl) /\ pl.host \in Up(x)
      /\ \A x : Overtaken(x)' <=> \E pl \in ToSet(work') : Clears(pl) /\ pl.host \in Up(x)
      /\ \A x : Loading(x) <=>
              \E pl \in ToSet(work) : pl.phase = "PostLoad" /\ pl.host \in Up(x)
      /\ \A x : Loading(x)' <=>
              \E pl \in ToSet(work') : pl.phase = "PostLoad" /\ pl.host \in Up(x)
  BY <1>1, <1>8, PlacesFacts
<1>10. SceneDue => SceneDue' \/ updaterDirty'
  <2> SUFFICES ASSUME SceneDue PROVE SceneDue' \/ updaterDirty'
    OBVIOUS
  <2>1. Scene \in dirty /\ \E pl \in ToSet(work) : Clears(pl) /\ pl.host = Scene
    BY <1>1, <1>9 DEF SceneDue
  <2>2. CASE Clears(top) /\ h = Scene
    BY <1>6, <2>1, <2>2
  <2>3. CASE ~(Clears(top) /\ h = Scene)
    <3>1. Overtaken(Scene)'
      BY <1>1, <1>4, <1>7, <1>9, <2>1, <2>3
    <3>2. Scene \in dirty' \/ updaterDirty'
      <4>1. h \in Object => Scene \notin Cleaned(h)
        BY <1>1, CleanedFacts DEF Below
      <4> QED BY <1>5, <2>1, <4>1
    <3> QED BY <3>1, <3>2 DEF SceneDue
  <2> QED BY <2>2, <2>3
<1>11. ASSUME NEW y \in Live, Up(y) \cap blocked = {}, ~updaterDirty', ~SceneDue'
       PROVE  /\ y \in unattached' => Loading(y)'
              /\ y \in dirty' => Overtaken(y)'
  <2>1. /\ ~updaterDirty /\ ~SceneDue /\ y \in Object /\ y \in Host /\ Up(y) \subseteq Object
        /\ y \in Up(y) /\ Scene \notin Up(y)
    BY <1>1, <1>5, <1>10, <1>11, UpFacts
  <2>2. /\ y \in unattached => Loading(y)
        /\ y \in dirty => Overtaken(y)
    BY <1>1, <1>11, <2>1 DEF DueInv
  <2>3. y \in dirty => Up(y) \subseteq dirty
    BY <1>1, <2>1, ClosedUp
  <2>4. ASSUME y \in unattached' PROVE Loading(y)'
    <3>1. y \in unattached /\ Up(y) \subseteq dirty
      BY <1>1, <1>5, <2>1, <2>3, <2>4
    <3>2. PICK pl \in ToSet(work) : pl.phase = "PostLoad" /\ pl.host \in Up(y)
      BY <1>9, <2>2, <3>1
    <3>3. CASE pl \in ToSet(rest)
      BY <1>7, <1>9, <3>2, <3>3
    <3>4. CASE pl = top
      <4>1. top.phase = "PostLoad" /\ h \in dirty /\ h \in Up(y)
        BY <3>1, <3>2, <3>4
      <4>2. CASE \E next \in ToSet(work') : next.phase = "PostLoad" /\ next.host = h
        BY <1>9, <4>1, <4>2
      <4>3. CASE /\ work' = Children("PostLoad", h) \o rest
                 /\ comps[h] = <<>> \/ h \notin unattached'
        <5>1. h # y
          BY <1>1, <1>11, <2>1, <2>4, <3>1, <4>3
        <5>2. PICK x \in Object : x \in Up(y) /\ Parent(x) = h
          BY <1>1, <2>1, <4>1, <5>1, ChildOnTheWay
        <5> DEFINE kids == Children("PostLoad", h)
        <5>3. /\ kids \in Seq(PlaceType)
              /\ \E next \in ToSet(kids) : next.phase = "PostLoad" /\ next.host = x
          <6>1. "PostLoad" \in Phases
            BY DEF Phases
          <6>2. /\ kids \in Seq(PlaceType)
                /\ \A next \in ToSet(kids) : next.phase = "PostLoad"
                /\ \E next \in ToSet(kids) : next.host = x
            BY <1>1, <1>3, <5>2, <6>1, ChildrenFacts
          <6> QED BY <6>2
        <5> HIDE DEF kids
        <5>4. ToSet(kids \o rest) = ToSet(kids) \cup ToSet(rest)
          BY <1>3, <5>3, ConcatFacts
        <5>5. work' = kids \o rest
          BY <4>3 DEF kids
        <5> QED BY <1>9, <5>2, <5>3, <5>4, <5>5
      <4> QED BY <1>6, <4>1, <4>2, <4>3
    <3> QED BY <1>4, <3>2, <3>3, <3>4
  <2>5. ASSUME y \in dirty' PROVE Overtaken(y)'
    <3>1. y \in dirty /\ Up(y) \subseteq dirty
      BY <1>5, <1>11, <2>3, <2>5
    <3>2. PICK pl \in ToSet(work) : Clears(pl) /\ pl.host \in Up(y)
      BY <1>9, <2>2, <3>1
    <3>3. CASE pl \in ToSet(rest)
      BY <1>7, <1>9, <3>2, <3>3
    <3>4. CASE pl = top
      <4> SUFFICES ASSUME TRUE PROVE FALSE
        OBVIOUS
      <4>1. Clears(top) /\ h \in dirty /\ h \in Up(y) /\ h \in Object
        BY <2>1, <3>1, <3>2, <3>4
      <4>2. dirty' = dirty \ Cleaned(h)
        BY <1>1, <1>6, <4>1
      <4>3. PICK z \in Live \cap unattached : Up(z) \cap blocked = {}
        BY <1>1, <1>11, <2>5, <4>1, <4>2, CleanFacts
      <4>4. Loading(z)
        BY <1>1, <2>1, <4>3 DEF DueInv
      <4>5. PICK other \in ToSet(work) : other.phase = "PostLoad" /\ other.host \in Up(z)
        BY <1>9, <4>4
      <4>6. other.host # Scene /\ top.phase = "Start" /\ h # Scene
        BY <1>1, <4>1, <4>3, <4>5 DEF Clears
      <4>7. PICK k \in DOMAIN rest : rest[k] = other
        BY <1>4, <4>5, <4>6 DEF ToSet
      <4>8. k + 1 \in DOMAIN work /\ work[k + 1] = other /\ 1 < k + 1
        BY <1>4, <4>7
      <4> QED BY <1>1, <1>4, <4>5, <4>6, <4>8 DEF Ordered, Later
    <3> QED BY <1>4, <3>2, <3>3, <3>4
  <2> QED BY <2>4, <2>5
<1> QED BY <1>2, <1>8, <1>11 DEF DueInv

LEMMA DueStep ==
  ASSUME TypeOK, SceneInv, FlagInv, Next
  PROVE  DueInv'
<1>1. /\ ControlType /\ TreeType /\ TreeInv /\ MarkInv /\ DueInv /\ QueueInv /\ GravesType
      /\ Host # {} /\ Live \subseteq Object /\ Scene \notin Object
  BY TypeGroups, HostFacts DEF SceneInv, FlagInv, Live, TreeType
<1>2. ASSUME PrepareBegin PROVE DueInv'
  <2> DEFINE busy == deleteQueue # <<>> \/ newQueue # <<>> \/ deadComps # <<>>
  <2>1. /\ UNCHANGED <<children, created, destroyed, blocked, work, unattached>>
        /\ dirty' = dirty \cup (IF busy THEN {Scene} ELSE {})
                          \cup {h \in Object : Contains(deleteQueue, h) /\ comps[h] # <<>>}
        /\ updaterDirty' = (updaterDirty \/ busy)
    BY <1>2 DEF PrepareBegin, tree
  <2>2. \A o \in Live : ~Contains(deleteQueue, o)
    <3>1. \A x : Contains(deleteQueue, x) <=> x \in ToSet(deleteQueue)
      BY <1>1, ListFacts DEF GravesType
    <3> QED BY <1>1, <3>1 DEF QueueInv, Live
  <2> HIDE DEF busy
  <2>3. \A o \in Live : o \in dirty' => o \in dirty
    BY <1>1, <2>1, <2>2
  <2>4. dirty \subseteq dirty' /\ (updaterDirty => updaterDirty')
    BY <2>1
  <2> QED BY <1>1, <2>1, <2>3, <2>4, DueSame
<1>3. ASSUME PrepareOnDestroy \/ PrepareEnd \/ BuildEnd \/ Update \/ UpdateEnd PROVE DueInv'
  <2>1. UNCHANGED <<children, created, destroyed, blocked, work, unattached, dirty, updaterDirty>>
    BY <1>3 DEF PrepareOnDestroy, PrepareEnd, BuildEnd, Update, UpdateEnd, tree, marks, ghosts
  <2> QED BY <1>1, <2>1, DueSame
<1>4. ASSUME SceneDestroy PROVE DueInv'
  <2>1. /\ UNCHANGED <<children, created, destroyed, blocked, work, unattached>>
        /\ dirty' = dirty \/ dirty' = dirty \cup {Scene}
        /\ updaterDirty => updaterDirty'
    BY <1>4 DEF SceneDestroy, tree
  <2> QED BY <1>1, <2>1, DueSame
<1>5. /\ \A o \in Object : MoveToRoot(o) => DueInv'
      /\ \A o, p \in Object : MoveToTree(o, p) => DueInv'
  BY DueMoves
<1>6. /\ \A o \in Object : InstanceGameObject(o) \/ SetObjectEnabled(o) \/ Destroy(o) => DueInv'
      /\ \A c \in Component : SetComponentEnabled(c) => DueInv'
      /\ \A h \in Host, c \in Component : AddComponent(h, c) \/ RemoveComponent(h, c) => DueInv'
      /\ SceneDestroyObject => DueInv'
  BY <1>1, DueCalls
<1>7. BuildBegin => DueInv'
  BY <1>1, DueBuild
<1>8. Visit \/ CallComponent \/ LeaveComponents => DueInv'
  BY DueWalk
<1> QED BY <1>1, <1>2, <1>3, <1>4, <1>5, <1>6, <1>7, <1>8, Zenon DEF Next, Application, Frame

-----------------------------------------------------------------------------
(* What is dirty is found again *)

LEMMA FlagSame ==
  ASSUME TypeOK, SceneInv, FlagInv,
         UNCHANGED <<children, created, destroyed, comps, dirty, unattached, updaterDirty,
                     newQueue, pc, work, blocked>>
  PROVE  FlagInv'
<1>1. /\ ControlType /\ TreeType /\ TreeInv /\ WalkInv /\ MarkInv /\ DueInv
      /\ \A x : Parent(x)' = Parent(x)
      /\ \A h : Up(h)' = Up(h)
  BY TypeGroups, SameTree DEF SceneInv, FlagInv
<1>2. WalkInv'
  <2>1. \A pl \in ToSet(work) : pl.force =>
          Parent(pl.host)' # Null /\ Up(pl.host) \subseteq Up(pl.host)'
    BY <1>1 DEF WalkInv
  <2> QED BY <1>1, <2>1, WalkSame
<1>3. MarkInv'
  <2>1. pc' \in {"destroy", "prepared"} /\ newQueue' # <<>> => Scene \in dirty'
    BY <1>1 DEF MarkInv
  <2> QED BY <1>1, <2>1, MarkSame
<1>4. DueInv'
  BY <1>1, DueSame
<1> QED BY <1>2, <1>3, <1>4 DEF FlagInv

LEMMA FlagInit ==
  ASSUME Init
  PROVE  FlagInv
<1>1. PICK load \in Loads :
        /\ newQueue = load.queue /\ created = ToSet(load.queue) /\ comps = load.comps
        /\ unattached = {h \in Host : load.comps[h] # <<>>}
        /\ updaterDirty = (load.queue # <<>> \/ load.comps[Scene] # <<>>)
        /\ destroyed = {} /\ dirty = Host /\ blocked = {} /\ work = <<>> /\ pc = "idle"
  BY DEF Init
<1>2. \A o \in Object : o \notin ToSet(load.queue) => load.comps[o] = <<>>
  BY LoadsAssumption
<1>3. \A x : Parent(x) \in Object \cup {Null}
  BY DEF Parent
<1>4. Object \subseteq Host /\ Null \notin Object
  BY HostFacts
<1>5. MarkInv
  BY <1>1, <1>2, <1>3, <1>4 DEF MarkInv, UpClosed
<1>6. WalkInv
  BY <1>1, EmptyList DEF WalkInv, Ordered
<1>7. DueInv
  <2>1. ~updaterDirty => Live = {}
    BY <1>1, EmptyList DEF Live
  <2> QED BY <2>1 DEF DueInv
<1> QED BY <1>5, <1>6, <1>7 DEF FlagInv

LEMMA FlagNext ==
  ASSUME Inv, halts = {} => FlagInv, [Next]_vars
  PROVE  halts' = {} => FlagInv'
<1>1. CASE Next
  <2>1. halts = {} /\ TypeOK /\ SceneInv /\ FlagInv
    BY <1>1, Running DEF Inv
  <2>2. WalkInv /\ MarkInv
    BY <2>1 DEF FlagInv
  <2>3. WalkInv' /\ MarkInv' /\ DueInv'
    BY <1>1, <2>1, <2>2, WalkStep, MarkStep, DueStep
  <2> QED BY <2>3 DEF FlagInv
<1>2. CASE UNCHANGED vars
  <2>1. /\ UNCHANGED <<children, created, destroyed, comps, dirty, unattached, updaterDirty,
                       newQueue, pc, work, blocked, halts>>
    BY <1>2 DEF vars, tree, parts, marks, table, control, ghosts
  <2>2. ASSUME halts' = {} PROVE FlagInv'
    <3>1. TypeOK /\ SceneInv /\ FlagInv
      BY <2>1, <2>2 DEF Inv
    <3> QED BY <2>1, <3>1, FlagSame
  <2> QED BY <2>2
<1> QED BY <1>1, <1>2

\* SetDirty(true) stops at the first dirty object above it and Build clears flags
\* on its way down; between frames, what is still dirty is found again: everything
\* above it is dirty and the updater will build, unless a callback or a component
\* removed before it was attached left a dirty object behind the walk.
THEOREM SceneDirty == Spec => []DirtyIsScheduled
<1> DEFINE IInv == Inv /\ (halts = {} => FlagInv)
<1>1. Init => IInv
  BY InvInit, FlagInit
<1>2. IInv /\ [Next]_vars => IInv'
  BY InvNext, FlagNext
<1>3. IInv => DirtyIsScheduled
  <2> SUFFICES ASSUME Inv, FlagInv, halts = {} PROVE DirtyIsScheduled
    BY DEF DirtyIsScheduled
  <2>1. /\ ControlType /\ TreeType /\ TreeInv /\ FrameInv /\ MarkInv /\ DueInv
    BY TypeGroups DEF Inv, SceneInv, FlagInv
  <2>2. pc = "idle" => \A h : ~Overtaken(h)
    <3>1. pc = "idle" => ToSet(work) = {}
      BY <2>1, EmptyList DEF FrameInv
    <3> QED BY <2>1, <3>1, OvertakenFacts
  <2>3. ASSUME NEW o \in (created \ destroyed) \cap dirty
        PROVE  /\ Up(o) \subseteq dirty
               /\ Settled /\ Up(o) \cap blocked = {} => updaterDirty
    <3>1. o \in Live /\ o \in Host
      BY <2>1, <2>3, HostFacts DEF Live, TreeType
    <3>2. Up(o) \subseteq dirty
      BY <2>1, <2>3, <3>1, ClosedUp DEF MarkInv
    <3>3. pc = "idle" /\ Up(o) \cap blocked = {} => updaterDirty
      BY <2>1, <2>2, <2>3, <3>1 DEF DueInv, SceneDue
    <3> QED BY <3>2, <3>3 DEF Settled
  <2> QED BY <2>3 DEF DirtyIsScheduled
<1> HIDE DEF IInv
<1> QED BY <1>1, <1>2, <1>3, PTL DEF Spec
=============================================================================
