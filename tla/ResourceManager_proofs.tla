----------------------- MODULE ResourceManager_proofs -----------------------
(***************************************************************************)
(* Proofs about ResourceManager, for any finite sets of resources, holders *)
(* and loaders, any life time and any number of rounds.                    *)
(***************************************************************************)
EXTENDS ResourceManager, FiniteSetTheorems, FunctionTheorems, SequenceTheorems,
        TLAPS

Distinct(s) == \A j, k \in 1..Len(s) : s[j] = s[k] => j = k

-----------------------------------------------------------------------------
(* The list of destroyed resources *)

\* A resource is put at the end.
LEMMA AppendFacts ==
  ASSUME NEW S, NEW s \in Seq(S), NEW x \in S, Distinct(s), ~Occurs(x, s)
  PROVE  /\ Append(s, x) \in Seq(S) /\ Distinct(Append(s, x))
         /\ \A y : Occurs(y, Append(s, x)) <=> y = x \/ Occurs(y, s)
         /\ Len(Append(s, x)) = Len(s) + 1
         /\ \A k \in 1..Len(s) : Append(s, x)[k] = s[k]
         /\ Append(s, x)[Len(s) + 1] = x
<1>1. /\ Len(Append(s, x)) = Len(s) + 1 /\ Append(s, x) \in Seq(S)
      /\ \A i \in 1..Len(s) : Append(s, x)[i] = s[i]
      /\ Append(s, x)[Len(s) + 1] = x
  BY AppendProperties
<1>2. Len(s) \in Nat
  BY LenProperties
<1>3. 1..Len(Append(s, x)) = 1..Len(s) \cup {Len(s) + 1}
  BY <1>1, <1>2
<1>4. \A y : Occurs(y, Append(s, x)) <=> y = x \/ Occurs(y, s)
  BY <1>1, <1>2, <1>3 DEF Occurs
<1>5. Distinct(Append(s, x))
  <2> SUFFICES ASSUME NEW i \in 1..(Len(s) + 1), NEW j \in 1..(Len(s) + 1),
                      Append(s, x)[i] = Append(s, x)[j]
               PROVE  i = j
    BY <1>1 DEF Distinct
  <2>1. CASE i \in 1..Len(s) /\ j \in 1..Len(s)
    BY <1>1, <2>1 DEF Distinct
  <2>2. CASE i = Len(s) + 1 /\ j \in 1..Len(s)
    BY <1>1, <2>2 DEF Occurs
  <2>3. CASE j = Len(s) + 1 /\ i \in 1..Len(s)
    BY <1>1, <2>3 DEF Occurs
  <2> QED BY <1>2, <2>1, <2>2, <2>3
<1> QED BY <1>1, <1>4, <1>5

\* The entry at i is erased.
LEMMA WithoutFacts ==
  ASSUME NEW S, NEW s \in Seq(S), NEW i \in 1..Len(s), Distinct(s)
  PROVE  /\ Without(s, i) \in Seq(S) /\ Distinct(Without(s, i))
         /\ \A y : Occurs(y, Without(s, i)) <=> Occurs(y, s) /\ y # s[i]
         /\ Len(Without(s, i)) = Len(s) - 1
         /\ \A k \in 1..(Len(s) - 1) :
              Without(s, i)[k] = IF k < i THEN s[k] ELSE s[k + 1]
<1> DEFINE front == SubSeq(s, 1, i - 1)
           back == SubSeq(s, i + 1, Len(s))
           w == Without(s, i)
<1>1. Len(s) \in Nat /\ \A k \in 1..Len(s) : s[k] \in S
  BY LenProperties, ElementOfSeq
<1>2. /\ front \in Seq(S)
      /\ Len(front) = i - 1
      /\ \A k \in 1..(i - 1) : front[k] = s[k]
  <2>1. \A k \in 1..(i - 1) : s[k] \in S
    BY <1>1
  <2>2. 1 \in Int /\ i - 1 \in Int
    BY <1>1
  <2> QED BY <2>1, <2>2, SubSeqProperties, <1>1
<1>3. /\ back \in Seq(S)
      /\ Len(back) = Len(s) - i
      /\ \A k \in 1..(Len(s) - i) : back[k] = s[i + k]
  <2>1. \A k \in (i + 1)..Len(s) : s[k] \in S
    BY <1>1
  <2>2. i + 1 \in Int /\ Len(s) \in Int
    BY <1>1
  <2>3. /\ back \in Seq(S)
        /\ Len(back) = IF i + 1 <= Len(s) THEN Len(s) - (i + 1) + 1 ELSE 0
        /\ \A k \in 1..(Len(s) - (i + 1) + 1) : back[k] = s[(i + 1) + k - 1]
    BY <2>1, <2>2, SubSeqProperties
  <2> QED BY <2>3, <1>1
<1>4. w = front \o back
  BY DEF Without
<1> HIDE DEF front, back, w
<1>5. /\ w \in Seq(S)
      /\ Len(w) = Len(front) + Len(back)
      /\ \A j \in 1..(Len(front) + Len(back)) :
           w[j] = IF j <= Len(front) THEN front[j] ELSE back[j - Len(front)]
  <2>1. /\ front \o back \in Seq(S)
        /\ Len(front \o back) = Len(front) + Len(back)
        /\ \A j \in 1..(Len(front) + Len(back)) :
             (front \o back)[j] = IF j <= Len(front) THEN front[j]
                                  ELSE back[j - Len(front)]
    BY <1>2, <1>3, ConcatProperties
  <2> QED BY <2>1, <1>4
<1>6. Len(w) = Len(s) - 1
  BY <1>1, <1>2, <1>3, <1>5
<1>7. ASSUME NEW k \in 1..(Len(s) - 1)
      PROVE  w[k] = IF k < i THEN s[k] ELSE s[k + 1]
  <2>0. k \in 1..(Len(front) + Len(back)) /\ (k < i <=> k <= Len(front))
    BY <1>1, <1>2, <1>3
  <2>1. CASE k < i
    <3>1. w[k] = front[k]
      BY <2>0, <2>1, <1>5
    <3> QED BY <2>1, <3>1, <1>1, <1>2
  <2>2. CASE ~(k < i)
    <3>1. k - (i - 1) \in 1..(Len(s) - i)
      BY <2>2, <1>1
    <3>2. w[k] = back[k - (i - 1)]
      BY <2>0, <2>2, <1>2, <1>5
    <3>3. back[k - (i - 1)] = s[i + (k - (i - 1))]
      BY <3>1, <1>3
    <3>4. i + (k - (i - 1)) = k + 1
      BY <1>1
    <3> QED BY <2>2, <3>2, <3>3, <3>4
  <2> QED BY <2>1, <2>2
<1>8. Distinct(w)
  <2> SUFFICES ASSUME NEW j \in 1..(Len(s) - 1), NEW k \in 1..(Len(s) - 1), w[j] = w[k]
               PROVE  j = k
    BY <1>6 DEF Distinct
  <2> DEFINE m(x) == IF x < i THEN x ELSE x + 1
  <2>1. m(j) \in 1..Len(s) /\ m(k) \in 1..Len(s)
    BY <1>1
  <2>2. s[m(j)] = s[m(k)]
    BY <1>7
  <2>3. m(j) = m(k)
    BY <2>1, <2>2 DEF Distinct
  <2> QED BY <1>1, <2>3
<1>9. ASSUME NEW y, Occurs(y, w) PROVE Occurs(y, s) /\ y # s[i]
  <2>1. PICK k \in 1..(Len(s) - 1) : w[k] = y
    BY <1>6, <1>9 DEF Occurs
  <2> DEFINE m == IF k < i THEN k ELSE k + 1
  <2>2. m \in 1..Len(s) /\ m # i
    BY <1>1
  <2>3. s[m] = y
    BY <1>7, <2>1
  <2> QED BY <2>2, <2>3 DEF Occurs, Distinct
<1>10. ASSUME NEW y, Occurs(y, s), y # s[i] PROVE Occurs(y, w)
  <2>1. PICK k \in 1..Len(s) : s[k] = y
    BY <1>10 DEF Occurs
  <2> DEFINE m == IF k < i THEN k ELSE k - 1
  <2>2. k # i
    BY <1>10, <2>1
  <2>3. m \in 1..(Len(s) - 1)
    BY <1>1, <2>2
  <2>4. w[m] = y
    BY <1>1, <1>7, <2>1, <2>2, <2>3
  <2> QED BY <1>6, <2>3, <2>4 DEF Occurs
<1> QED BY <1>5, <1>6, <1>7, <1>8, <1>9, <1>10 DEF w

\* Other resources are put at the end, in any order.
LEMMA ConcatFacts ==
  ASSUME NEW S, NEW s \in Seq(S), NEW t \in Seq(S), Distinct(s), Distinct(t),
         \A y : ~(Occurs(y, s) /\ Occurs(y, t))
  PROVE  /\ s \o t \in Seq(S) /\ Distinct(s \o t)
         /\ \A y : Occurs(y, s \o t) <=> Occurs(y, s) \/ Occurs(y, t)
         /\ Len(s \o t) = Len(s) + Len(t)
         /\ \A k \in 1..Len(s) : (s \o t)[k] = s[k]
         /\ \A k \in 1..Len(t) : (s \o t)[Len(s) + k] = t[k]
<1> DEFINE w == s \o t
<1>1. Len(s) \in Nat /\ Len(t) \in Nat
  BY LenProperties
<1>2. /\ w \in Seq(S)
      /\ Len(w) = Len(s) + Len(t)
      /\ \A k \in 1..(Len(s) + Len(t)) :
           w[k] = IF k <= Len(s) THEN s[k] ELSE t[k - Len(s)]
  BY ConcatProperties
<1> HIDE DEF w
<1>3. \A k \in 1..Len(s) : w[k] = s[k]
  BY <1>1, <1>2
<1>4. ASSUME NEW k \in 1..Len(t) PROVE w[Len(s) + k] = t[k]
  <2>1. Len(s) + k \in 1..(Len(s) + Len(t)) /\ ~(Len(s) + k <= Len(s))
    BY <1>1
  <2>2. (Len(s) + k) - Len(s) = k
    BY <1>1
  <2> QED BY <1>2, <2>1, <2>2
<1>5. ASSUME NEW k \in 1..Len(w)
      PROVE  k \in 1..Len(s) \/ \E j \in 1..Len(t) : k = Len(s) + j
  <2>1. k \notin 1..Len(s) => k - Len(s) \in 1..Len(t) /\ k = Len(s) + (k - Len(s))
    BY <1>1, <1>2
  <2> QED BY <2>1
<1>6. \A y : Occurs(y, w) <=> Occurs(y, s) \/ Occurs(y, t)
  <2>1. ASSUME NEW y, Occurs(y, w) PROVE Occurs(y, s) \/ Occurs(y, t)
    BY <2>1, <1>3, <1>4, <1>5 DEF Occurs
  <2>2. ASSUME NEW y, Occurs(y, s) PROVE Occurs(y, w)
    <3>1. 1..Len(s) \subseteq 1..Len(w)
      BY <1>1, <1>2
    <3> QED BY <2>2, <3>1, <1>3 DEF Occurs
  <2>3. ASSUME NEW y, Occurs(y, t) PROVE Occurs(y, w)
    <3>1. \A j \in 1..Len(t) : Len(s) + j \in 1..Len(w)
      BY <1>1, <1>2
    <3> QED BY <2>3, <3>1, <1>4 DEF Occurs
  <2> QED BY <2>1, <2>2, <2>3
<1>7. Distinct(w)
  <2> SUFFICES ASSUME NEW j \in 1..Len(w), NEW k \in 1..Len(w), w[j] = w[k]
               PROVE  j = k
    BY DEF Distinct
  <2>1. CASE j \in 1..Len(s) /\ k \in 1..Len(s)
    BY <2>1, <1>3 DEF Distinct
  <2>2. CASE j \in 1..Len(s) /\ k \notin 1..Len(s)
    BY ZenonT(60), <2>2, <1>3, <1>4, <1>5 DEF Occurs
  <2>3. CASE j \notin 1..Len(s) /\ k \in 1..Len(s)
    BY <2>3, <1>3, <1>4, <1>5 DEF Occurs
  <2>4. CASE j \notin 1..Len(s) /\ k \notin 1..Len(s)
    <3>1. PICK a \in 1..Len(t) : j = Len(s) + a
      BY <2>4, <1>5
    <3>2. PICK b \in 1..Len(t) : k = Len(s) + b
      BY <2>4, <1>5
    <3>3. t[a] = t[b]
      BY <3>1, <3>2, <1>4
    <3> QED BY <3>1, <3>2, <3>3 DEF Distinct
  <2> QED BY <2>1, <2>2, <2>3, <2>4
<1> QED BY <1>2, <1>3, <1>4, <1>6, <1>7 DEF w

\* An order of a set lists each of its elements once.
LEMMA OrderFacts ==
  ASSUME NEW S, IsFiniteSet(S), NEW s \in Orders(S)
  PROVE  /\ s \in Seq(S) /\ Distinct(s) /\ Len(s) = Cardinality(S)
         /\ \A y : Occurs(y, s) <=> y \in S
<1> DEFINE n == Cardinality(S)
<1>1. n \in Nat
  BY FS_CardinalityType
<1> HIDE DEF n
<1>2. s \in [1..n -> S] /\ \A j, k \in 1..n : s[j] = s[k] => j = k
  BY DEF Orders, n
<1>3. s \in Seq(S) /\ Len(s) = n
  BY <1>1, <1>2
<1>4. s \in Injection(1..n, S)
  BY <1>2, Fun_IsInj
<1>5. IsFiniteSet(1..n) /\ Cardinality(1..n) = n
  BY <1>1, FS_Interval
<1>6. s \in Surjection(1..n, S)
  BY <1>4, <1>5, FS_Injection DEF n
<1>7. \A y \in S : \E k \in 1..n : s[k] = y
  BY <1>6 DEF Surjection
<1> QED BY <1>2, <1>3, <1>7 DEF Distinct, Occurs, n

-----------------------------------------------------------------------------
(* The inductive invariant *)

LoaderId == Id \ (Revivable \cup {SettingsId})

HeldBy(r) == {h \in Holder : held[h] = r}
UsedBy(r) == {l \in Loader : loader[l].pc = "using" /\ loader[l].res = r}

DirtyInv == dirty <= edits

\* What an object is like in each phase of its life.
ObjectInv ==
  /\ \A r \in Resource :
       /\ status[r] = "unborn" => uses[r] = 0 /\ ~isDestroyed[r] /\ idOf[r] = None
       /\ status[r] # "unborn" => idOf[r] \in Id
       /\ status[r] = "deleted" => isDestroyed[r]
       /\ forced[r] => r = Settings /\ isDestroyed[r]
       /\ idOf[r] = SettingsId <=> r = Settings
  /\ status[Settings] # "unborn"

\* Users have objects of their own kind, and the use points of an object are
\* theirs.
UserInv ==
  /\ \A h \in Holder : held[h] # None =>
       Live(held[h]) /\ ~isDestroyed[held[h]] /\ idOf[held[h]] \in Revivable
  /\ \A l \in Loader : loader[l].pc # "idle" =>
       loader[l].res \in Resource /\ idOf[loader[l].res] \in LoaderId
  /\ \A r \in Resource :
       idOf[r] \in Revivable => uses[r] = Cardinality(HeldBy(r))
  /\ Running => \A r \in Resource :
       idOf[r] \in LoaderId => uses[r] = Cardinality(UsedBy(r))
  /\ uses[Settings] \in {0, 1}

\* Of an id that can be revived there is one object, of the others one that is
\* not destroyed.
CopyInv ==
  \A r, s \in Resource :
    (/\ Live(r) /\ Live(s) /\ idOf[r] = idOf[s]
     /\ idOf[r] \in Revivable \/ (~isDestroyed[r] /\ ~isDestroyed[s]))
      => r = s

\* The collector has the lock while it walks through the list, and stands on a
\* destroyed object when it frees one.
LockInv ==
  /\ lock <=> thread \in {"visit", "free"}
  /\ thread = "free" => gcIt \in 1..Len(destroyed)

\* The settings go through DestroySettings once, and only Synchronize forces
\* collections.
MainInv ==
  /\ force => main = "wait"
  /\ uses[Settings] = 0 => main = "force_destroy" \/ isDestroyed[Settings]
  /\ main = "enlist" => isDestroyed[Settings] /\ Live(Settings) /\ life[Settings] = LifeTime
  /\ (/\ uses[Settings] = 0
      /\ main \in {"run", "join", "stopped"} \/ (main = "wait" /\ rounds < SyncRounds))
       => status[Settings] = "deleted"

\* Collections that an entry of m_destroyed has been through but was not
\* charged for: 1 if this collection has not come to it yet.  What a forced
\* collection takes up it frees in the same turn.
Due(k) ==
  IF ~force /\ ((thread = "visit" /\ k >= gcIt) \/ (thread = "free" /\ k > gcIt))
  THEN 1 ELSE 0

\* The life time runs down by one per collection, and what has none is freed.
LifeInv ==
  /\ \A r \in Resource : ~isDestroyed[r] => life[r] = LifeTime
  /\ \A r \in Resource :
       Live(r) /\ life[r] = 0 => thread = "free" /\ destroyed[gcIt] = r
  /\ ~restarted =>
       \A k \in 1..Len(destroyed) :
         \/ life[destroyed[k]] + age[destroyed[k]] >= LifeTime + Due(k)
         \/ thread = "free" /\ k = gcIt
  /\ LifeTimeIsWaitedOut

ManagerInv ==
  /\ TypeOK /\ DirtyInv /\ ObjectInv /\ UserInv /\ CopyInv
  /\ ListMatchesFlags /\ LockInv /\ MainInv /\ LifeInv

-----------------------------------------------------------------------------
(* The beginning *)

\* Nothing is used but the settings, and nothing is destroyed.
LEMMA InitManager == Init => ManagerInv
<1> SUFFICES ASSUME Init PROVE ManagerInv
  OBVIOUS
<1> USE ObjectAssumption, BoundAssumption DEF Init
<1>1. TypeOK
  <2>1. destroyed \in Seq(Resource)
    BY EmptySeq
  <2>2. loader \in [Loader -> [pc : {"idle", "loaded", "using"}, res : Resource \cup {None}]]
    OBVIOUS
  <2>3. /\ life \in [Resource -> 0..LifeTime] /\ age \in [Resource -> 0..LifeTime]
        /\ uses \in [Resource -> Nat]
    OBVIOUS
  <2>4. /\ status \in [Resource -> {"unborn", "live", "deleted"}]
        /\ idOf \in [Resource -> Id \cup {None}]
        /\ isDestroyed \in [Resource -> BOOLEAN] /\ forced \in [Resource -> BOOLEAN]
        /\ held \in [Holder -> Resource \cup {None}]
    OBVIOUS
  <2>5. /\ gcIt \in Nat \ {0} /\ dirty \in 0..MaxEdits /\ edits \in 0..MaxEdits
        /\ rounds \in 0..SyncRounds /\ syncs \in 0..MaxSyncs
    OBVIOUS
  <2>6. /\ force \in BOOLEAN /\ isRun \in BOOLEAN /\ lock \in BOOLEAN
        /\ restarted \in BOOLEAN /\ fault = "none" /\ thread = "watch" /\ main = "run"
    OBVIOUS
  <2> HIDE DEF Init
  <2> QED BY <2>1, <2>2, <2>3, <2>4, <2>5, <2>6 DEF TypeOK
<1>2. DirtyInv /\ ObjectInv /\ LockInv /\ MainInv
  BY DEF DirtyInv, ObjectInv, LockInv, MainInv, Live
<1>3. UserInv
  <2>1. \A r \in Resource : HeldBy(r) = {} /\ UsedBy(r) = {}
    BY DEF HeldBy, UsedBy
  <2>2. \A r \in Resource : idOf[r] \in Revivable \/ idOf[r] \in LoaderId => uses[r] = 0
    BY DEF LoaderId
  <2> QED BY <2>1, <2>2, FS_EmptySet DEF UserInv
<1>4. CopyInv
  BY DEF CopyInv, Live
<1>5. Len(destroyed) = 0
  BY EmptySeq
<1>6. ListMatchesFlags
  BY <1>5 DEF ListMatchesFlags, Occurs
<1>7. LifeInv
  BY <1>5 DEF LifeInv, LifeTimeIsWaitedOut, Live
<1> QED BY <1>1, <1>2, <1>3, <1>4, <1>6, <1>7 DEF ManagerInv

-----------------------------------------------------------------------------
(* Steps that leave the objects and their users alone *)

\* What is said of objects and users does not depend on where the threads are.
LEMMA ObjectsKept ==
  ASSUME ManagerInv, UNCHANGED <<objects, users, fault>>
  PROVE  ObjectInv' /\ UserInv' /\ CopyInv'
<1> USE DEF ManagerInv, objects, users
<1>1. ObjectInv'
  BY DEF ObjectInv
<1>2. UserInv'
  BY DEF UserInv, Live, Running, HeldBy, UsedBy
<1>3. CopyInv'
  BY DEF CopyInv, Live
<1> QED BY <1>1, <1>2, <1>3

\* The list is right as long as the main thread stays out of ForceDestroy.
LEMMA ListKept ==
  ASSUME ManagerInv, UNCHANGED <<objects, destroyed>>,
         main = "enlist" <=> main' = "enlist"
  PROVE  ListMatchesFlags'
BY DEF ManagerInv, objects, ListMatchesFlags, Live, Occurs

\* The life times are right as long as the collector does not move.
LEMMA LifeKept ==
  ASSUME ManagerInv, UNCHANGED <<objects, destroyed, restarted>>,
         \/ UNCHANGED <<thread, gcIt, force>>
         \/ thread \notin {"visit", "free"} /\ thread' \notin {"visit", "free"}
  PROVE  LifeInv'
<1> USE DEF ManagerInv, objects
<1>1. \A r \in Resource : IsLast(r)' = IsLast(r)
  BY DEF IsLast, Copies, Live
<1>2. CASE UNCHANGED <<thread, gcIt, force>>
  <2>1. \A k \in 1..Len(destroyed) : Due(k)' = Due(k)
    BY <1>2 DEF Due
  <2>2. LifeTimeIsWaitedOut'
    BY <1>2 DEF LifeInv, LifeTimeIsWaitedOut, IsLast, Copies, Live
  <2> QED BY <1>2, <2>1, <2>2 DEF LifeInv, Live
<1>3. CASE thread \notin {"visit", "free"} /\ thread' \notin {"visit", "free"}
  <2>1. \A k \in 1..Len(destroyed) : Due(k)' = 0 /\ Due(k) = 0
    BY <1>3 DEF Due
  <2>2. LifeTimeIsWaitedOut'
    BY <1>3 DEF LifeTimeIsWaitedOut
  <2> QED BY <1>3, <2>1, <2>2 DEF LifeInv, Live
<1> QED BY <1>2, <1>3

\* The steps of the resource thread outside a collection.
LEMMA ThreadQuiet ==
  ASSUME ManagerInv, ThreadWatch \/ ThreadNotYet \/ ThreadCheck
  PROVE  ManagerInv'
<1> USE DEF ThreadWatch, ThreadNotYet, ThreadCheck, ThreadGoto, mainVars, watch
<1>1. TypeOK'
  BY SMTT(30), BoundAssumption DEF ManagerInv, TypeOK, objects, users, DirtyInv
<1>2. DirtyInv' /\ LockInv'
  BY DEF ManagerInv, TypeOK, DirtyInv, LockInv
<1>3. MainInv'
  BY DEF ManagerInv, MainInv, objects, Live
<1>4. ObjectInv' /\ UserInv' /\ CopyInv'
  BY ObjectsKept
<1>5. ListMatchesFlags'
  BY ListKept
<1>6. LifeInv'
  BY LifeKept
<1> QED BY <1>1, <1>2, <1>3, <1>4, <1>5, <1>6 DEF ManagerInv

\* A collection that has come to the end of the list.
LEMMA GCEndKeeps ==
  ASSUME ManagerInv, GCEnd
  PROVE  ManagerInv'
<1> USE DEF GCEnd, ThreadGoto, mainVars, watch
<1>1. TypeOK'
  BY DEF ManagerInv, TypeOK, objects, users
<1>2. DirtyInv' /\ LockInv'
  BY DEF ManagerInv, TypeOK, DirtyInv, LockInv
<1>3. MainInv'
  BY DEF ManagerInv, MainInv, objects, Live
<1>4. ObjectInv' /\ UserInv' /\ CopyInv'
  BY ObjectsKept
<1>5. ListMatchesFlags'
  BY ListKept
<1>6. LifeInv'
  <2>1. \A k \in 1..Len(destroyed) : Due(k)' = 0 /\ Due(k) = 0
    BY LenProperties DEF Due, ManagerInv, TypeOK
  <2> QED BY <2>1 DEF ManagerInv, LifeInv, LifeTimeIsWaitedOut, Live, objects
<1> QED BY <1>1, <1>2, <1>3, <1>4, <1>5, <1>6 DEF ManagerInv

\* The steps of the main thread other than those of DestroySettings.  A turn
\* of Synchronize has seen an empty list: if the settings are destroyed by
\* then, they have been freed.
LEMMA MainQuiet ==
  ASSUME ManagerInv,
         MainDrain \/ Synchronize \/ Shutdown \/ SyncBegin \/ SyncRound
           \/ SyncEnd \/ Join
  PROVE  ManagerInv'
<1> USE DEF MainDrain, Synchronize, Shutdown, SyncBegin, SyncRound, SyncEnd,
            Join, MainGoto, collector, watch
<1>1. TypeOK'
  <2> USE BoundAssumption DEF ManagerInv, TypeOK, objects, users
  <2>1. CASE MainDrain
    BY <2>1
  <2>2. CASE Synchronize
    BY <2>2
  <2>3. CASE Shutdown \/ Join
    BY <2>3
  <2>4. CASE SyncBegin
    BY <2>4
  <2>5. CASE SyncRound
    BY <2>5
  <2>6. CASE SyncEnd
    BY <2>6
  <2> QED BY <2>1, <2>2, <2>3, <2>4, <2>5, <2>6
<1>2. DirtyInv' /\ LockInv'
  BY SMTT(30), BoundAssumption DEF ManagerInv, TypeOK, DirtyInv, LockInv
<1>3. MainInv'
  <2>1. CASE MainDrain
    BY <2>1 DEF ManagerInv, MainInv, objects, Live
  <2>2. CASE Synchronize \/ Shutdown
    BY <2>2 DEF ManagerInv, MainInv, objects, Live
  <2>3. CASE SyncBegin
    BY <2>3, BoundAssumption DEF ManagerInv, MainInv, objects, Live
  <2>4. CASE SyncRound
    <3>1. uses[Settings] = 0 => isDestroyed[Settings]
      BY <2>4 DEF ManagerInv, MainInv
    <3>2. ~Occurs(Settings, destroyed)
      BY <2>4, EmptySeq DEF Occurs
    <3>3. uses[Settings] = 0 => ~Live(Settings)
      BY <2>4, <3>1, <3>2, ObjectAssumption DEF ManagerInv, ListMatchesFlags
    <3>4. status[Settings] \in {"live", "deleted"}
      BY ObjectAssumption DEF ManagerInv, TypeOK, ObjectInv
    <3> QED BY <2>4, <3>3, <3>4 DEF ManagerInv, MainInv, objects, Live
  <2>5. CASE SyncEnd
    BY <2>5, BoundAssumption DEF ManagerInv, MainInv, objects, Live
  <2>6. CASE Join
    BY <2>6 DEF ManagerInv, MainInv, objects, Live
  <2> QED BY <2>1, <2>2, <2>3, <2>4, <2>5, <2>6
<1>4. ObjectInv' /\ UserInv' /\ CopyInv'
  BY ObjectsKept
<1>5. ListMatchesFlags'
  BY ListKept
<1>6. LifeInv'
  <2>1. ~lock => thread \notin {"visit", "free"}
    BY DEF ManagerInv, LockInv
  <2> QED BY <2>1, LifeKept
<1> QED BY <1>1, <1>2, <1>3, <1>4, <1>5, <1>6 DEF ManagerInv

-----------------------------------------------------------------------------
(* DestroySettings *)

\* The use point of the settings is only counted down; it is not that of a
\* mesh or of a prefab.
LEMMA SettingsRemoveUseKeeps ==
  ASSUME ManagerInv, SettingsRemoveUse
  PROVE  ManagerInv'
<1> USE DEF SettingsRemoveUse, MainGoto, collector, watch, users
<1>0. /\ Settings \in Resource /\ uses[Settings] = 1 /\ uses'[Settings] = 0
      /\ \A r \in Resource : r # Settings => uses'[r] = uses[r]
      /\ uses' \in [Resource -> Nat]
  BY ObjectAssumption DEF ManagerInv, TypeOK, UserInv
<1>1. TypeOK'
  BY <1>0 DEF ManagerInv, TypeOK
<1>2. DirtyInv' /\ LockInv' /\ MainInv'
  BY <1>0 DEF ManagerInv, DirtyInv, LockInv, MainInv, Live
<1>3. ObjectInv'
  BY <1>0 DEF ManagerInv, ObjectInv
<1>4. CopyInv'
  BY DEF ManagerInv, CopyInv, Live
<1>5. UserInv'
  <2>1. \A r \in Resource :
          idOf[r] \in Revivable \/ idOf[r] \in LoaderId => uses'[r] = uses[r]
    BY <1>0, ObjectAssumption DEF ManagerInv, ObjectInv, LoaderId
  <2>2. \A r \in Resource : HeldBy(r)' = HeldBy(r) /\ UsedBy(r)' = UsedBy(r)
    BY DEF HeldBy, UsedBy
  <2> QED BY <1>0, <2>1, <2>2 DEF ManagerInv, UserInv, Live, Running
<1>6. ListMatchesFlags'
  BY DEF ManagerInv, ListMatchesFlags, Live, Occurs
<1>7. LifeInv'
  <2>1. LifeTimeIsWaitedOut'
    BY DEF ManagerInv, LifeInv, LifeTimeIsWaitedOut, IsLast, Copies, Live
  <2> QED BY <2>1 DEF ManagerInv, LifeInv, Due, Live
<1> QED BY <1>1, <1>2, <1>3, <1>4, <1>5, <1>6, <1>7 DEF ManagerInv

\* Both flags are set; the entry of the list follows.
LEMMA SettingsForceDestroyKeeps ==
  ASSUME ManagerInv, SettingsForceDestroy
  PROVE  ManagerInv'
<1> USE DEF SettingsForceDestroy, MainGoto, collector, watch, users
<1>0. /\ Settings \in Resource
      /\ \A r \in Resource : r # Settings =>
           isDestroyed'[r] = isDestroyed[r] /\ forced'[r] = forced[r]
      /\ isDestroyed'[Settings]
      /\ isDestroyed' \in [Resource -> BOOLEAN] /\ forced' \in [Resource -> BOOLEAN]
      /\ \A r \in Resource : isDestroyed[r] => isDestroyed'[r]
  BY ZenonT(60), ObjectAssumption DEF ManagerInv, TypeOK, ObjectInv
<1>1. TypeOK'
  BY <1>0 DEF ManagerInv, TypeOK
<1>a. main' = "enlist" => ~isDestroyed[Settings] /\ Live(Settings) /\ life[Settings] = LifeTime
  BY <1>0 DEF ManagerInv, TypeOK, ObjectInv, LifeInv, Live
<1>2. DirtyInv' /\ LockInv' /\ MainInv'
  BY <1>0, <1>a DEF ManagerInv, DirtyInv, LockInv, MainInv, Live
<1>3. ObjectInv'
  BY <1>0 DEF ManagerInv, ObjectInv
<1>4. CopyInv'
  BY <1>0 DEF ManagerInv, CopyInv, Live
<1>5. UserInv'
  <2>1. \A r \in Resource : idOf[r] \in Revivable => isDestroyed'[r] = isDestroyed[r]
    BY <1>0, ObjectAssumption DEF ManagerInv, ObjectInv
  <2>2. \A r \in Resource : HeldBy(r)' = HeldBy(r) /\ UsedBy(r)' = UsedBy(r)
    BY DEF HeldBy, UsedBy
  <2>3. \A h \in Holder : held[h] # None => held[h] \in Resource
    BY DEF ManagerInv, TypeOK
  <2> QED BY <1>0, <2>1, <2>2, <2>3 DEF ManagerInv, UserInv, Live, Running
<1>6. ListMatchesFlags'
  <2>1. CASE forced[Settings] \/ isDestroyed[Settings]
    BY <2>1 DEF ManagerInv, ListMatchesFlags, Live, Occurs
  <2>2. CASE ~(forced[Settings] \/ isDestroyed[Settings])
    BY <1>0, <2>2 DEF ManagerInv, ListMatchesFlags, Live, Occurs
  <2> QED BY <2>1, <2>2
<1>7. LifeInv'
  <2>1. LifeTimeIsWaitedOut'
    <3> SUFFICES ASSUME thread = "free", ~restarted
                 PROVE  LET r == destroyed[gcIt]
                        IN force \/ forced'[r] \/ ~IsLast(r)' \/ age[r] >= LifeTime
      BY DEF LifeTimeIsWaitedOut
    <3>1. destroyed[gcIt] \in Resource
      BY ElementOfSeq DEF ManagerInv, TypeOK, LockInv
    <3>2. IsLast(destroyed[gcIt])' = IsLast(destroyed[gcIt])
      BY DEF IsLast, Copies, Live
    <3>3. forced[destroyed[gcIt]] => forced'[destroyed[gcIt]]
      BY <3>1, ObjectAssumption DEF ManagerInv, TypeOK
    <3> QED BY <3>1, <3>2, <3>3 DEF ManagerInv, LifeInv, LifeTimeIsWaitedOut
  <2> QED BY <1>0, <2>1 DEF ManagerInv, LifeInv, Due, Live
<1> QED BY <1>1, <1>2, <1>3, <1>4, <1>5, <1>6, <1>7 DEF ManagerInv

\* The settings enter the list, at the end and with their life time whole.
LEMMA SettingsEnlistKeeps ==
  ASSUME ManagerInv, SettingsEnlist
  PROVE  ManagerInv'
<1> USE DEF SettingsEnlist, MainGoto, collector, watch, users
<1>0. /\ Settings \in Resource /\ isDestroyed[Settings] /\ Live(Settings)
      /\ life[Settings] = LifeTime /\ ~Occurs(Settings, destroyed)
      /\ thread \notin {"visit", "free"}
  BY ObjectAssumption DEF ManagerInv, MainInv, ListMatchesFlags, LockInv
<1>1. /\ isDestroyed' = isDestroyed
      /\ destroyed' = Append(destroyed, Settings)
      /\ age' = [age EXCEPT ![Settings] = 0]
  BY <1>0 DEF DestroyIf, ManagerInv, TypeOK
<1>2. /\ destroyed' \in Seq(Resource) /\ Distinct(destroyed')
      /\ \A y : Occurs(y, destroyed') <=> y = Settings \/ Occurs(y, destroyed)
      /\ Len(destroyed') = Len(destroyed) + 1
      /\ \A k \in 1..Len(destroyed) : destroyed'[k] = destroyed[k]
      /\ destroyed'[Len(destroyed) + 1] = Settings
  <2>1. destroyed \in Seq(Resource) /\ Distinct(destroyed)
    BY DEF ManagerInv, TypeOK, ListMatchesFlags, Distinct
  <2> QED BY <2>1, <1>0, <1>1, AppendFacts
<1>3. TypeOK'
  BY <1>0, <1>1, <1>2, BoundAssumption DEF ManagerInv, TypeOK
<1>4. DirtyInv' /\ LockInv' /\ MainInv'
  <2>1. DirtyInv' /\ MainInv'
    BY <1>0, <1>1 DEF ManagerInv, DirtyInv, MainInv, Live
  <2>2. LockInv'
    BY <1>0 DEF ManagerInv, LockInv
  <2> QED BY <2>1, <2>2
<1>5. ObjectInv'
  BY <1>1 DEF ManagerInv, ObjectInv
<1>6. CopyInv'
  BY <1>1 DEF ManagerInv, CopyInv, Live
<1>7. UserInv'
  BY <1>1 DEF ManagerInv, UserInv, Live, Running, HeldBy, UsedBy
<1>8. ListMatchesFlags'
  BY <1>0, <1>1, <1>2 DEF ManagerInv, ListMatchesFlags, Distinct, Live
<1>9. LifeInv'
  <2>1. LifeTimeIsWaitedOut'
    BY <1>0 DEF LifeTimeIsWaitedOut
  <2>2. ASSUME ~restarted, NEW k \in 1..(Len(destroyed) + 1)
        PROVE  life[destroyed'[k]] + age'[destroyed'[k]] >= LifeTime
    <3>1. CASE k = Len(destroyed) + 1
      BY <1>0, <1>1, <1>2, <3>1, BoundAssumption DEF ManagerInv, TypeOK
    <3>2. CASE k # Len(destroyed) + 1
      <4>1. k \in 1..Len(destroyed)
        BY <3>2, LenProperties DEF ManagerInv, TypeOK
      <4>2. destroyed[k] \in Resource /\ destroyed[k] # Settings
        BY <4>1, <1>0, ElementOfSeq DEF ManagerInv, TypeOK, Occurs
      <4>3. life[destroyed[k]] + age[destroyed[k]] >= LifeTime
        BY <1>0, <2>2, <4>1, BoundAssumption DEF ManagerInv, LifeInv, Due
      <4>4. age'[destroyed[k]] = age[destroyed[k]]
        BY <1>1, <4>2 DEF ManagerInv, TypeOK
      <4> QED BY <1>2, <4>1, <4>3, <4>4
    <3> QED BY <3>1, <3>2
  <2>3. \A k : Due(k)' = 0
    BY <1>0 DEF Due
  <2>4. \A r \in Resource : ~(Live(r) /\ life[r] = 0)
    BY <1>0 DEF ManagerInv, LifeInv
  <2> QED BY <1>1, <1>2, <2>1, <2>2, <2>3, <2>4, BoundAssumption
          DEF ManagerInv, LifeInv, Live
<1> QED BY <1>3, <1>4, <1>5, <1>6, <1>7, <1>8, <1>9 DEF ManagerInv

-----------------------------------------------------------------------------
(* The collector *)

\* The users of an object are counted: an object with a holder has a use point.
LEMMA HeldIsUsed ==
  ASSUME ManagerInv, NEW h \in Holder, held[h] # None
  PROVE  held[h] \in Resource /\ uses[held[h]] > 0
<1>1. held[h] \in Resource /\ uses[held[h]] = Cardinality(HeldBy(held[h]))
  BY DEF ManagerInv, TypeOK, UserInv
<1>2. IsFiniteSet(HeldBy(held[h]))
  BY FS_Subset, FiniteAssumption DEF HeldBy
<1>3. h \in HeldBy(held[h])
  BY DEF HeldBy
<1> QED BY <1>1, <1>2, <1>3, FS_EmptySet, FS_CardinalityType

\* What is on the list is a destroyed object.
LEMMA ListedFacts ==
  ASSUME ManagerInv, NEW k \in 1..Len(destroyed)
  PROVE  /\ destroyed[k] \in Resource /\ Live(destroyed[k])
         /\ isDestroyed[destroyed[k]]
         /\ ~(destroyed[k] = Settings /\ main = "enlist")
         /\ \A j \in 1..Len(destroyed) : destroyed[j] = destroyed[k] => j = k
<1>1. destroyed[k] \in Resource
  BY ElementOfSeq DEF ManagerInv, TypeOK
<1>2. Occurs(destroyed[k], destroyed)
  BY DEF Occurs
<1> QED BY <1>1, <1>2 DEF ManagerInv, ListMatchesFlags

\* A collection begins: when it is forced, the unused objects join the list.
LEMMA GCBeginKeeps ==
  ASSUME ManagerInv, GCBegin
  PROVE  ManagerInv'
<1>1. CASE dirty > 0 \/ destroyed = << >>
  <2> USE <1>1 DEF GCBegin, ThreadGoto, mainVars, watch
  <2>1. TypeOK'
    BY DEF ManagerInv, TypeOK, objects, users
  <2>2. DirtyInv' /\ LockInv'
    BY DEF ManagerInv, TypeOK, DirtyInv, LockInv
  <2>3. MainInv'
    BY DEF ManagerInv, MainInv, objects, Live
  <2>4. ObjectInv' /\ UserInv' /\ CopyInv'
    BY ObjectsKept
  <2>5. ListMatchesFlags'
    BY ListKept
  <2>6. LifeInv'
    BY LifeKept
  <2> QED BY <2>1, <2>2, <2>3, <2>4, <2>5, <2>6 DEF ManagerInv
<1>2. CASE ~(dirty > 0 \/ destroyed = << >>)
  <2> DEFINE collected == IF force THEN Unused ELSE {}
  <2>1. /\ thread = "gc" /\ thread' = "visit" /\ lock' = TRUE /\ gcIt' = 1
        /\ isDestroyed' = [r \in Resource |-> isDestroyed[r] \/ r \in collected]
        /\ \E s \in Orders(collected) : destroyed' = destroyed \o s
        /\ age' = [r \in Resource |->
                     IF r \in collected THEN 0
                     ELSE IF Occurs(r, destroyed) /\ age[r] < LifeTime THEN age[r] + 1
                     ELSE age[r]]
        /\ UNCHANGED <<status, idOf, uses, forced, life, restarted>>
        /\ UNCHANGED <<main, rounds, syncs, force, isRun>>
        /\ UNCHANGED <<held, loader, dirty, edits, fault>>
    BY <1>2 DEF GCBegin, ThreadGoto, mainVars, users, watch
  <2>2. /\ \A r \in collected : /\ r \in Resource /\ Live(r) /\ uses[r] = 0
                                 /\ ~isDestroyed[r] /\ force
    BY DEF Unused
  <2>3. IsFiniteSet(collected)
    BY <2>2, FS_Subset, FiniteAssumption
  <2> HIDE DEF collected
  <2>4. PICK s \in Orders(collected) : destroyed' = destroyed \o s
    BY <2>1
  <2>5. /\ s \in Seq(collected) /\ Distinct(s) /\ Len(s) = Cardinality(collected)
        /\ \A y : Occurs(y, s) <=> y \in collected
    BY <2>3, OrderFacts
  <2>6. s \in Seq(Resource)
    BY <2>2, <2>5
  <2>7. /\ destroyed \in Seq(Resource) /\ Distinct(destroyed)
        /\ \A y : Occurs(y, destroyed) => y \in Resource /\ isDestroyed[y]
    BY SMTT(30), ListedFacts DEF ManagerInv, TypeOK, ListMatchesFlags, Distinct, Occurs
  <2>8. /\ destroyed' \in Seq(Resource) /\ Distinct(destroyed')
        /\ \A y : Occurs(y, destroyed') <=> Occurs(y, destroyed) \/ Occurs(y, s)
        /\ Len(destroyed') = Len(destroyed) + Len(s)
        /\ \A k \in 1..Len(destroyed) : destroyed'[k] = destroyed[k]
        /\ \A k \in 1..Len(s) : destroyed'[Len(destroyed) + k] = s[k]
    <3>1. \A y : ~(Occurs(y, destroyed) /\ Occurs(y, s))
      BY <2>2, <2>5, <2>7
    <3> QED BY <3>1, <2>4, <2>5, <2>6, <2>7, ConcatFacts
  <2>9. \A r \in Resource : isDestroyed'[r] <=> isDestroyed[r] \/ r \in collected
    BY <2>1
  <2>10. TypeOK'
    <3>1. age' \in [Resource -> 0..LifeTime]
      BY <2>1, BoundAssumption DEF ManagerInv, TypeOK
    <3>2. isDestroyed' \in [Resource -> BOOLEAN]
      <4>1. \A r \in Resource : (isDestroyed[r] \/ r \in collected) \in BOOLEAN
        OBVIOUS
      <4> QED BY <4>1, <2>1
    <3> QED BY <3>1, <3>2, <2>1, <2>8 DEF ManagerInv, TypeOK
  <2>11. DirtyInv' /\ LockInv'
    BY <2>1 DEF ManagerInv, DirtyInv, LockInv
  <2>12. MainInv'
    BY <2>1, <2>9, ObjectAssumption DEF ManagerInv, MainInv, Live
  <2>13. ObjectInv'
    BY <2>1, <2>2, <2>9, ObjectAssumption DEF ManagerInv, ObjectInv, Live
  <2>14. CopyInv'
    BY <2>1, <2>9 DEF ManagerInv, CopyInv, Live
  <2>15. UserInv'
    <3>1. \A h \in Holder : held[h] # None => held[h] \in Resource /\ uses[held[h]] > 0
      BY HeldIsUsed
    <3>2. \A h \in Holder : held[h] # None => ~isDestroyed'[held[h]]
      BY <2>2, <2>9, <3>1 DEF ManagerInv, UserInv
    <3>3. \A r \in Resource : HeldBy(r)' = HeldBy(r) /\ UsedBy(r)' = UsedBy(r)
      BY <2>1 DEF HeldBy, UsedBy
    <3> QED BY <2>1, <3>2, <3>3 DEF ManagerInv, UserInv, Live, Running
  <2>16. ListMatchesFlags'
    <3>1. main = "enlist" => collected = {}
      BY <2>2 DEF ManagerInv, MainInv
    <3>2. \A r \in Resource : Occurs(r, destroyed') <=>
            Live(r)' /\ isDestroyed'[r] /\ ~(r = Settings /\ main' = "enlist")
      BY <2>1, <2>2, <2>5, <2>8, <2>9, <3>1 DEF ManagerInv, ListMatchesFlags, Live
    <3> QED BY <2>8, <3>2 DEF ListMatchesFlags, Distinct
  <2>17. LifeInv'
    <3>1. LifeTimeIsWaitedOut'
      BY <2>1 DEF LifeTimeIsWaitedOut
    <3>2. \A r \in Resource : ~(Live(r) /\ life[r] = 0)
      BY <2>1 DEF ManagerInv, LifeInv
    <3>3. \A r \in Resource : ~isDestroyed'[r] => life'[r] = LifeTime
      BY <2>1, <2>9 DEF ManagerInv, LifeInv
    <3>4. ASSUME ~restarted, NEW k \in 1..(Len(destroyed) + Len(s))
          PROVE  life[destroyed'[k]] + age'[destroyed'[k]] >= LifeTime + Due(k)'
      <4>1. Len(destroyed) \in Nat /\ Len(s) \in Nat
        BY <2>5, <2>7, LenProperties
      <4>2. Due(k)' = IF force THEN 0 ELSE 1
        BY <2>1, <4>1 DEF Due
      <4>3. CASE k \in 1..Len(destroyed)
        <5> DEFINE r == destroyed[k]
        <5>1. /\ r \in Resource /\ Occurs(r, destroyed) /\ r \notin collected
              /\ destroyed'[k] = r
          BY <4>3, <2>2, <2>7, <2>8 DEF Occurs
        <5>2. Live(r)
          BY <4>3, ListedFacts
        <5>3. life[r] \in 1..LifeTime /\ age[r] \in 0..LifeTime
          BY <3>2, <5>1, <5>2, BoundAssumption DEF ManagerInv, TypeOK
        <5>4. life[r] + age[r] >= LifeTime
          BY <2>1, <3>4, <4>3, BoundAssumption DEF ManagerInv, LifeInv, Due
        <5>5. age'[r] = IF age[r] < LifeTime THEN age[r] + 1 ELSE age[r]
          BY <2>1, <5>1
        <5> HIDE DEF r
        <5> QED BY <4>2, <5>1, <5>3, <5>4, <5>5, BoundAssumption
      <4>4. CASE k \notin 1..Len(destroyed)
        <5>1. k - Len(destroyed) \in 1..Len(s) /\ k = Len(destroyed) + (k - Len(destroyed))
          BY <4>1, <4>4
        <5>2. destroyed'[k] = s[k - Len(destroyed)]
          BY <2>8, <5>1
        <5>3. destroyed'[k] \in collected
          BY <2>5, <5>1, <5>2 DEF Occurs
        <5>4. life[destroyed'[k]] = LifeTime /\ age'[destroyed'[k]] = 0 /\ force
          BY <2>1, <2>2, <5>3 DEF ManagerInv, LifeInv
        <5> QED BY <4>2, <5>4, BoundAssumption
      <4> QED BY <4>3, <4>4
    <3> QED BY <2>1, <2>8, <3>1, <3>2, <3>3, <3>4 DEF LifeInv, Live
  <2> QED BY <2>10, <2>11, <2>12, <2>13, <2>14, <2>15, <2>16, <2>17 DEF ManagerInv
<1> QED BY <1>1, <1>2

\* A turn of the loop: what it meets is destroyed, and its life time is
\* charged for one collection at most.
LEMMA GCVisitKeeps ==
  ASSUME ManagerInv, GCVisit
  PROVE  ManagerInv'
<1> DEFINE r == destroyed[gcIt]
           lived == LifeAfterVisit(r)
<1>1. /\ thread = "visit" /\ gcIt \in 1..Len(destroyed) /\ gcIt \in Nat
      /\ Len(destroyed) \in Nat
  BY LenProperties DEF GCVisit, ManagerInv, TypeOK
<1>2. /\ r \in Resource /\ Live(r) /\ isDestroyed[r]
      /\ ~(r = Settings /\ main = "enlist")
      /\ \A j \in 1..Len(destroyed) : destroyed[j] = r => j = gcIt
  BY <1>1, ListedFacts
<1>3. /\ life' = [life EXCEPT ![r] = lived]
      /\ \/ Keep(r) /\ gcIt' = gcIt + 1 /\ thread' = "visit"
         \/ ~Keep(r) /\ gcIt' = gcIt /\ thread' = "free"
      /\ UNCHANGED <<destroyed, status, idOf, uses, isDestroyed, forced, age, lock>>
      /\ UNCHANGED <<restarted, main, rounds, syncs, force, isRun>>
      /\ UNCHANGED <<held, loader, dirty, edits, fault>>
  BY <1>1, <1>2 DEF GCVisit, ThreadGoto, mainVars, users, watch
<1>4. \A x \in Resource : ~(Live(x) /\ life[x] = 0)
  BY <1>1 DEF ManagerInv, LifeInv
<1>5. life[r] \in 1..LifeTime /\ age[r] \in 0..LifeTime /\ uses[r] \in Nat
  BY <1>2, <1>4, BoundAssumption DEF ManagerInv, TypeOK
<1>6. /\ lived \in 0..LifeTime
      /\ lived = 0 => ~Keep(r)
      /\ Keep(r) => lived = LifeTime \/ (lived = life[r] - 1 /\ ~force)
      /\ ~Keep(r) => forced[r] \/ force \/ ~IsLast(r) \/ life[r] = 1
  BY <1>5, BoundAssumption DEF LifeAfterVisit, Keep
<1>7. /\ life' \in [Resource -> 0..LifeTime] /\ life'[r] = lived
      /\ \A x \in Resource : x # r => life'[x] = life[x]
  BY <1>2, <1>3, <1>6 DEF ManagerInv, TypeOK
<1> HIDE DEF lived
<1>8. TypeOK'
  <2>1. gcIt' \in Nat \ {0} /\ thread' \in {"visit", "free"}
    BY <1>1, <1>3
  <2> QED BY ZenonT(60), <1>3, <1>7, <2>1 DEF ManagerInv, TypeOK
<1>9. DirtyInv' /\ LockInv'
  BY <1>1, <1>3 DEF ManagerInv, DirtyInv, LockInv
<1>10. MainInv'
  BY <1>2, <1>3, <1>7, ObjectAssumption DEF ManagerInv, MainInv, Live
<1>11. ObjectInv' /\ CopyInv'
  BY <1>3 DEF ManagerInv, ObjectInv, CopyInv, Live
<1>12. UserInv'
  BY <1>3 DEF ManagerInv, UserInv, Live, Running, HeldBy, UsedBy
<1>13. ListMatchesFlags'
  BY <1>3 DEF ManagerInv, ListMatchesFlags, Live, Occurs
<1>14. LifeInv'
  <2>1. \A x \in Resource : ~isDestroyed'[x] => life'[x] = LifeTime
    BY <1>2, <1>3, <1>7 DEF ManagerInv, LifeInv
  <2>2. \A x \in Resource : Live(x)' /\ life'[x] = 0 => thread' = "free" /\ destroyed'[gcIt'] = x
    <3> SUFFICES ASSUME NEW x \in Resource, Live(x), life'[x] = 0
                 PROVE  thread' = "free" /\ destroyed'[gcIt'] = x
      BY <1>3 DEF Live
    <3>1. x = r
      BY <1>4, <1>7
    <3>2. ~Keep(r)
      BY <1>6, <1>7, <3>1
    <3> QED BY <1>3, <3>1, <3>2
  <2>3. ~restarted => life[r] + age[r] >= LifeTime + Due(gcIt)
    BY <1>1 DEF ManagerInv, LifeInv
  <2>4. Due(gcIt) = IF force THEN 0 ELSE 1
    BY <1>1 DEF Due
  <2>5. LifeTimeIsWaitedOut'
    <3> SUFFICES ASSUME thread' = "free", ~restarted
                 PROVE  force \/ forced[r] \/ ~IsLast(r)' \/ age[r] >= LifeTime
      BY <1>3 DEF LifeTimeIsWaitedOut
    <3>1. ~Keep(r)
      BY <1>3
    <3>2. IsLast(r)' = IsLast(r)
      BY <1>3 DEF IsLast, Copies, Live
    <3>3. force \/ life[r] + age[r] >= LifeTime + 1
      BY <2>3, <2>4
    <3> QED BY <1>5, <1>6, <3>1, <3>2, <3>3, BoundAssumption
  <2>6. ASSUME ~restarted, NEW k \in 1..Len(destroyed)
        PROVE  \/ life'[destroyed[k]] + age[destroyed[k]] >= LifeTime + Due(k)'
               \/ thread' = "free" /\ k = gcIt'
    <3>1. CASE k = gcIt /\ Keep(r)
      <4>1. Due(k)' = 0
        BY <1>1, <1>3, <3>1 DEF Due
      <4>2. lived + age[r] >= LifeTime
        BY <1>5, <1>6, <2>3, <2>4, <2>6, <3>1, BoundAssumption
      <4> QED BY <1>7, <3>1, <4>1, <4>2, BoundAssumption
    <3>2. CASE k = gcIt /\ ~Keep(r)
      BY <1>3, <3>2
    <3>3. CASE k # gcIt
      <4>1. destroyed[k] \in Resource /\ destroyed[k] # r
        BY <1>2, <3>3, ListedFacts
      <4>2. Due(k)' = Due(k)
        BY <1>1, <1>3, <3>3 DEF Due
      <4>3. life[destroyed[k]] + age[destroyed[k]] >= LifeTime + Due(k)
        BY <1>1, <2>6 DEF ManagerInv, LifeInv
      <4> QED BY <1>7, <4>1, <4>2, <4>3
    <3> QED BY <3>1, <3>2, <3>3
  <2> QED BY <1>3, <2>1, <2>2, <2>5, <2>6 DEF LifeInv
<1> QED BY <1>8, <1>9, <1>10, <1>11, <1>12, <1>13, <1>14 DEF ManagerInv

\* A destroyed object is freed and leaves the list; no holder has it.
LEMMA GCFreeKeeps ==
  ASSUME ManagerInv, GCFree
  PROVE  ManagerInv'
<1> DEFINE r == destroyed[gcIt]
<1>1. thread = "free" /\ gcIt \in 1..Len(destroyed) /\ Len(destroyed) \in Nat
  BY LenProperties DEF GCFree, ManagerInv, TypeOK, LockInv
<1>2. /\ r \in Resource /\ Live(r) /\ isDestroyed[r]
      /\ ~(r = Settings /\ main = "enlist")
  BY <1>1, ListedFacts
<1>3. /\ status' = [status EXCEPT ![r] = "deleted"]
      /\ fault' \in {fault, "deleted_in_use"} /\ fault = "none"
      /\ destroyed' = Without(destroyed, gcIt)
      /\ gcIt' = 1 /\ thread' = "visit"
      /\ restarted' = (restarted \/ gcIt > 1)
      /\ UNCHANGED <<idOf, uses, isDestroyed, forced, life, age, lock>>
      /\ UNCHANGED <<main, rounds, syncs, force, isRun>>
      /\ UNCHANGED <<held, loader, dirty, edits>>
  BY DEF GCFree, ThreadGoto, Running, mainVars, users, watch
<1>4. /\ destroyed' \in Seq(Resource) /\ Distinct(destroyed')
      /\ \A y : Occurs(y, destroyed') <=> Occurs(y, destroyed) /\ y # r
      /\ Len(destroyed') = Len(destroyed) - 1
      /\ \A k \in 1..(Len(destroyed) - 1) :
           destroyed'[k] = IF k < gcIt THEN destroyed[k] ELSE destroyed[k + 1]
  <2>1. destroyed \in Seq(Resource) /\ Distinct(destroyed)
    BY DEF ManagerInv, TypeOK, ListMatchesFlags, Distinct
  <2> DEFINE w == Without(destroyed, gcIt)
  <2>2. /\ w \in Seq(Resource) /\ Distinct(w)
        /\ \A y : Occurs(y, w) <=> Occurs(y, destroyed) /\ y # destroyed[gcIt]
        /\ Len(w) = Len(destroyed) - 1
        /\ \A k \in 1..(Len(destroyed) - 1) :
             w[k] = IF k < gcIt THEN destroyed[k] ELSE destroyed[k + 1]
    BY <2>1, <1>1, WithoutFacts
  <2>3. destroyed' = w
    BY <1>3
  <2> HIDE DEF w
  <2> QED BY <2>2, <2>3
<1>5. /\ status'[r] = "deleted" /\ \A x \in Resource : x # r => status'[x] = status[x]
      /\ status' \in [Resource -> {"unborn", "live", "deleted"}]
  BY <1>2, <1>3 DEF ManagerInv, TypeOK
<1> HIDE DEF r
<1>6. TypeOK'
  <2>1. restarted' \in BOOLEAN
    BY <1>3
  <2> QED BY SMTT(30), <1>3, <1>4, <1>5, <2>1 DEF ManagerInv, TypeOK
<1>7. DirtyInv' /\ LockInv'
  BY <1>1, <1>3 DEF ManagerInv, DirtyInv, LockInv
<1>8. MainInv'
  <2>1. main = "enlist" => Live(Settings)'
    BY <1>2, <1>5, ObjectAssumption DEF ManagerInv, MainInv, Live
  <2>2. status[Settings] = "deleted" => status'[Settings] = "deleted"
    BY <1>5, ObjectAssumption
  <2> QED BY <1>3, <2>1, <2>2 DEF ManagerInv, MainInv
<1>9. ObjectInv'
  BY <1>2, <1>3, <1>5, ObjectAssumption DEF ManagerInv, ObjectInv, Live
<1>10. CopyInv'
  BY <1>2, <1>3, <1>5 DEF ManagerInv, CopyInv, Live
<1>11. UserInv'
  <2>1. \A h \in Holder : held[h] # None => held[h] \in Resource /\ held[h] # r
    BY <1>2 DEF ManagerInv, TypeOK, UserInv
  <2>2. \A x \in Resource : HeldBy(x)' = HeldBy(x) /\ UsedBy(x)' = UsedBy(x)
    BY <1>3 DEF HeldBy, UsedBy
  <2>3. Running
    BY <1>3 DEF Running
  <2> QED BY <1>3, <1>5, <2>1, <2>2, <2>3 DEF ManagerInv, UserInv, Live
<1>12. ListMatchesFlags'
  <2>1. \A x \in Resource : Occurs(x, destroyed') <=>
          Live(x)' /\ isDestroyed'[x] /\ ~(x = Settings /\ main' = "enlist")
    BY <1>2, <1>3, <1>4, <1>5 DEF ManagerInv, ListMatchesFlags, Live
  <2> QED BY <1>4, <2>1 DEF ListMatchesFlags, Distinct
<1>13. LifeInv'
  <2>1. LifeTimeIsWaitedOut'
    BY <1>3 DEF LifeTimeIsWaitedOut
  <2>2. \A x \in Resource : ~isDestroyed'[x] => life'[x] = LifeTime
    BY <1>3 DEF ManagerInv, LifeInv
  <2>3. \A x \in Resource : ~(Live(x)' /\ life'[x] = 0)
    BY <1>3, <1>5 DEF ManagerInv, LifeInv, Live, r
  <2>4. ASSUME ~restarted', NEW k \in 1..(Len(destroyed) - 1)
        PROVE  life'[destroyed'[k]] + age'[destroyed'[k]] >= LifeTime + Due(k)'
    <3>0. ~(restarted \/ gcIt > 1)
      BY <1>3, <2>4
    <3>1. gcIt = 1 /\ ~restarted
      BY <1>1, <3>0
    <3>2. k + 1 \in 1..Len(destroyed) /\ destroyed'[k] = destroyed[k + 1]
      BY <1>1, <1>4, <3>1
    <3>3. Due(k)' = Due(k + 1)
      BY <1>1, <1>3, <3>1 DEF Due
    <3>4. life[destroyed[k + 1]] + age[destroyed[k + 1]] >= LifeTime + Due(k + 1)
      BY <3>1, <3>2 DEF ManagerInv, LifeInv
    <3> QED BY <1>3, <3>2, <3>3, <3>4
  <2> QED BY <1>4, <2>1, <2>2, <2>3, <2>4 DEF LifeInv
<1> QED BY <1>6, <1>7, <1>8, <1>9, <1>10, <1>11, <1>12, <1>13 DEF ManagerInv

-----------------------------------------------------------------------------
(* What the critical sections of the users are made of *)

\* IResource::Destroy, if the condition holds: the flag, the entry and the age
\* of that object, and nothing of the others.
LEMMA DestroyFacts ==
  ASSUME ManagerInv, NEW cond \in BOOLEAN, NEW r, NEW flags \in [Resource -> BOOLEAN],
         NEW list \in Seq(Resource), Distinct(list),
         cond => r \in Resource /\ ~Occurs(r, list),
         DestroyIf(cond, r, flags, list)
  PROVE  /\ destroyed' \in Seq(Resource) /\ Distinct(destroyed')
         /\ isDestroyed' \in [Resource -> BOOLEAN] /\ age' \in [Resource -> 0..LifeTime]
         /\ \A y : Occurs(y, destroyed') <=> Occurs(y, list) \/ (cond /\ y = r)
         /\ \A x \in Resource : isDestroyed'[x] <=> flags[x] \/ (cond /\ x = r)
         /\ \A x \in Resource : ~(cond /\ x = r) => age'[x] = age[x]
<1>1. age \in [Resource -> 0..LifeTime]
  BY DEF ManagerInv, TypeOK
<1>2. CASE cond
  <2>1. /\ isDestroyed' = [flags EXCEPT ![r] = TRUE] /\ age' = [age EXCEPT ![r] = 0]
        /\ destroyed' = Append(list, r)
    BY <1>2 DEF DestroyIf
  <2>2. /\ Append(list, r) \in Seq(Resource) /\ Distinct(Append(list, r))
        /\ \A y : Occurs(y, Append(list, r)) <=> y = r \/ Occurs(y, list)
    BY <1>2, AppendFacts
  <2>3. age' \in [Resource -> 0..LifeTime] /\ \A x \in Resource : x # r => age'[x] = age[x]
    BY <1>1, <1>2, <2>1, BoundAssumption
  <2>4. /\ isDestroyed' \in [Resource -> BOOLEAN]
        /\ \A x \in Resource : isDestroyed'[x] <=> flags[x] \/ x = r
    BY <1>2, <2>1
  <2> QED BY <1>2, <2>1, <2>2, <2>3, <2>4
<1>3. CASE ~cond
  BY <1>1, <1>3 DEF DestroyIf
<1> QED BY <1>2, <1>3

\* ResourceType::Find and Load: the object that is returned is not the
\* settings and is not destroyed any more, and every other object of its id is
\* destroyed and not of a kind that can be revived.
LEMMA LoadFacts ==
  ASSUME ManagerInv, NEW r \in Resource, NEW i \in Id \ {SettingsId}, Load(r, i)
  PROVE  /\ r # Settings
         /\ status' \in [Resource -> {"unborn", "live", "deleted"}]
         /\ idOf' \in [Resource -> Id \cup {None}] /\ life' \in [Resource -> 0..LifeTime]
         /\ status'[r] = "live" /\ idOf'[r] = i /\ life'[r] = LifeTime
         /\ \A x \in Resource : x # r =>
              status'[x] = status[x] /\ idOf'[x] = idOf[x] /\ life'[x] = life[x]
         /\ (status[r] = "live" /\ idOf[r] = i) \/ status[r] = "unborn"
         /\ FlagsAfterLoad(r) \in [Resource -> BOOLEAN] /\ ~FlagsAfterLoad(r)[r]
         /\ \A x \in Resource : x # r => FlagsAfterLoad(r)[x] = isDestroyed[x]
         /\ ListAfterLoad(r) \in Seq(Resource) /\ Distinct(ListAfterLoad(r))
         /\ \A y : Occurs(y, ListAfterLoad(r)) <=> Occurs(y, destroyed) /\ y # r
         /\ \A x \in Resource : x # r /\ Live(x) /\ idOf[x] = i =>
              i \notin Revivable /\ isDestroyed[x]
<1>1. (status[r] = "live" /\ idOf[r] = i) \/ status[r] = "unborn"
  BY DEF Load, CanFind, Copies, Live
<1>2. r # Settings
  BY <1>1, ObjectAssumption DEF ManagerInv, ObjectInv
<1>3. /\ status' \in [Resource -> {"unborn", "live", "deleted"}]
      /\ idOf' \in [Resource -> Id \cup {None}] /\ life' \in [Resource -> 0..LifeTime]
      /\ status'[r] = "live" /\ idOf'[r] = i /\ life'[r] = LifeTime
      /\ \A x \in Resource : x # r =>
           status'[x] = status[x] /\ idOf'[x] = idOf[x] /\ life'[x] = life[x]
  BY BoundAssumption DEF Load, ManagerInv, TypeOK
<1>4. /\ FlagsAfterLoad(r) \in [Resource -> BOOLEAN] /\ ~FlagsAfterLoad(r)[r]
      /\ \A x \in Resource : x # r => FlagsAfterLoad(r)[x] = isDestroyed[x]
  BY DEF FlagsAfterLoad, ManagerInv, TypeOK
<1>5. /\ ListAfterLoad(r) \in Seq(Resource) /\ Distinct(ListAfterLoad(r))
      /\ \A y : Occurs(y, ListAfterLoad(r)) <=> Occurs(y, destroyed) /\ y # r
  <2>1. destroyed \in Seq(Resource) /\ Distinct(destroyed)
    BY DEF ManagerInv, TypeOK, ListMatchesFlags, Distinct
  <2>2. CASE ~isDestroyed[r]
    <3>1. ~Occurs(r, destroyed) /\ ListAfterLoad(r) = destroyed
      BY <2>2 DEF ManagerInv, ListMatchesFlags, ListAfterLoad
    <3> QED BY <2>1, <3>1
  <2>3. CASE isDestroyed[r]
    <3>1. Occurs(r, destroyed)
      BY <1>1, <1>2, <2>3 DEF ManagerInv, ListMatchesFlags, ObjectInv, Live
    <3>2. PICK k \in 1..Len(destroyed) : destroyed[k] = r
      BY <3>1 DEF Occurs
    <3>3. \A j \in 1..(k - 1) : destroyed[j] # r
      <4> SUFFICES ASSUME NEW j \in 1..(k - 1), destroyed[j] = r PROVE FALSE
        OBVIOUS
      <4>1. j \in 1..Len(destroyed) /\ j # k
        BY <2>1, LenProperties
      <4> QED BY <2>1, <3>2, <4>1 DEF Distinct
    <3>4. PlaceOf(r) \in 1..Len(destroyed) /\ destroyed[PlaceOf(r)] = r
      BY <3>2, <3>3 DEF PlaceOf
    <3>5. ListAfterLoad(r) = Without(destroyed, PlaceOf(r))
      BY <2>3 DEF ListAfterLoad
    <3>6. /\ Without(destroyed, PlaceOf(r)) \in Seq(Resource)
          /\ Distinct(Without(destroyed, PlaceOf(r)))
          /\ \A y : Occurs(y, Without(destroyed, PlaceOf(r)))
                     <=> Occurs(y, destroyed) /\ y # destroyed[PlaceOf(r)]
      BY <2>1, <3>4, WithoutFacts
    <3> QED BY <3>4, <3>5, <3>6
  <2> QED BY <2>2, <2>3
<1>6. ASSUME NEW x \in Resource, x # r, Live(x), idOf[x] = i
      PROVE  i \notin Revivable /\ isDestroyed[x]
  <2>1. CASE CanFind(r, i)
    <3>1. Live(r) /\ idOf[r] = i /\ (isDestroyed[r] => i \in Revivable)
      BY <2>1 DEF CanFind, Copies
    <3> QED BY <1>6, <3>1 DEF ManagerInv, CopyInv
  <2>2. CASE \A c \in Resource : ~CanFind(c, i)
    <3>1. isDestroyed[x] /\ ~(i \in Revivable /\ Occurs(x, destroyed))
      BY <1>6, <2>2 DEF CanFind, Copies
    <3>2. x # Settings
      BY <1>6, ObjectAssumption DEF ManagerInv, ObjectInv
    <3>3. Occurs(x, destroyed)
      BY <1>6, <3>1, <3>2 DEF ManagerInv, ListMatchesFlags
    <3> QED BY <3>1, <3>3
  <2> QED BY <2>1, <2>2 DEF Load
<1> QED BY <1>1, <1>2, <1>3, <1>4, <1>5, <1>6

\* Outside a collection every object on the list has been charged for the
\* collections it has been through, and no object is left without life time.
LEMMA LifeOutside ==
  ASSUME ManagerInv, ~lock
  PROVE  /\ \A x \in Resource : ~(Live(x) /\ life[x] = 0)
         /\ ~restarted => \A y : Occurs(y, destroyed) => life[y] + age[y] >= LifeTime
<1>1. thread \notin {"visit", "free"}
  BY DEF ManagerInv, LockInv
<1>2. \A k \in 1..Len(destroyed) : Due(k) = 0
  BY <1>1 DEF Due
<1> QED BY <1>1, <1>2, BoundAssumption DEF ManagerInv, LifeInv, Occurs

\* The same of the next state.
LEMMA LifeOutsideNext ==
  ASSUME thread' \notin {"visit", "free"},
         \A x \in Resource : ~isDestroyed'[x] => life'[x] = LifeTime,
         \A x \in Resource : ~(Live(x)' /\ life'[x] = 0),
         ~restarted' => \A y : Occurs(y, destroyed') => life'[y] + age'[y] >= LifeTime
  PROVE  LifeInv'
<1>1. \A k \in 1..Len(destroyed') : Due(k)' = 0
  BY DEF Due
<1>2. LifeTimeIsWaitedOut'
  BY DEF LifeTimeIsWaitedOut
<1> QED BY <1>1, <1>2, BoundAssumption DEF LifeInv, Occurs

-----------------------------------------------------------------------------
(* Users *)

\* A critical section that may destroy an object and changes no use points but
\* those of that object keeps everything but what is said of the users.
LEMMA DestroyKeeps ==
  ASSUME ManagerInv, ~lock, NEW cond \in BOOLEAN, NEW r \in Resource, r # Settings,
         idOf[r] \in Id, cond => ~isDestroyed[r],
         DestroyIf(cond, r, isDestroyed, destroyed),
         \A x \in Resource : x # r => uses'[x] = uses[x],
         UNCHANGED <<status, idOf, forced, life, collector, mainVars, watch>>
  PROVE  /\ destroyed' \in Seq(Resource) /\ age' \in [Resource -> 0..LifeTime]
         /\ isDestroyed' \in [Resource -> BOOLEAN]
         /\ \A x \in Resource : isDestroyed'[x] <=> isDestroyed[x] \/ (cond /\ x = r)
         /\ DirtyInv' /\ ObjectInv' /\ CopyInv' /\ ListMatchesFlags'
         /\ LockInv' /\ MainInv' /\ LifeInv'
<1> USE DEF collector, mainVars, watch
<1>1. /\ destroyed \in Seq(Resource) /\ Distinct(destroyed)
      /\ isDestroyed \in [Resource -> BOOLEAN]
      /\ cond => ~Occurs(r, destroyed)
  BY DEF ManagerInv, TypeOK, ListMatchesFlags, Distinct
<1>2. /\ destroyed' \in Seq(Resource) /\ Distinct(destroyed')
      /\ isDestroyed' \in [Resource -> BOOLEAN] /\ age' \in [Resource -> 0..LifeTime]
      /\ \A y : Occurs(y, destroyed') <=> Occurs(y, destroyed) \/ (cond /\ y = r)
      /\ \A x \in Resource : isDestroyed'[x] <=> isDestroyed[x] \/ (cond /\ x = r)
      /\ \A x \in Resource : ~(cond /\ x = r) => age'[x] = age[x]
  BY <1>1, DestroyFacts
<1>3. status[r] # "unborn" /\ (cond => Live(r))
  BY ObjectAssumption DEF ManagerInv, TypeOK, ObjectInv, Live
<1>4. thread \notin {"visit", "free"}
  BY DEF ManagerInv, LockInv
<1>5. DirtyInv' /\ LockInv'
  BY <1>4 DEF ManagerInv, DirtyInv, LockInv
<1>6. MainInv'
  BY <1>2, ObjectAssumption DEF ManagerInv, MainInv, Live
<1>7. ObjectInv'
  BY <1>2, <1>3, ObjectAssumption DEF ManagerInv, ObjectInv
<1>8. CopyInv'
  BY <1>2 DEF ManagerInv, CopyInv, Live
<1>9. ListMatchesFlags'
  <2>1. \A x \in Resource : Occurs(x, destroyed') <=>
          Live(x)' /\ isDestroyed'[x] /\ ~(x = Settings /\ main' = "enlist")
    BY <1>2, <1>3 DEF ManagerInv, ListMatchesFlags, Live
  <2> QED BY <1>2, <2>1 DEF ListMatchesFlags, Distinct
<1>10. LifeInv'
  <2>1. \A x \in Resource : ~(Live(x)' /\ life'[x] = 0)
    BY LifeOutside DEF Live
  <2>2. \A x \in Resource : ~isDestroyed'[x] => life'[x] = LifeTime
    BY <1>2 DEF ManagerInv, LifeInv
  <2>3. ASSUME ~restarted', NEW y, Occurs(y, destroyed')
        PROVE  life'[y] + age'[y] >= LifeTime
    <3>1. y \in Resource
      BY <1>2, <2>3, ElementOfSeq DEF Occurs
    <3>2. CASE cond /\ y = r
      <4>1. life[r] = LifeTime
        BY <3>2 DEF ManagerInv, LifeInv
      <4>2. age'[r] \in 0..LifeTime
        BY <1>2
      <4> QED BY <3>2, <4>1, <4>2, BoundAssumption
    <3>3. CASE ~(cond /\ y = r)
      <4>1. age'[y] = age[y] /\ Occurs(y, destroyed)
        BY <1>2, <2>3, <3>1, <3>3
      <4>2. life[y] + age[y] >= LifeTime
        BY <2>3, <4>1, LifeOutside
      <4> QED BY <4>1, <4>2
    <3> QED BY <3>2, <3>3
  <2> QED BY <1>4, <2>1, <2>2, <2>3, LifeOutsideNext
<1> QED BY <1>2, <1>5, <1>6, <1>7, <1>8, <1>9, <1>10

\* The users of an object, and what one more or one less makes of their number.
LEMMA CountFacts ==
  ASSUME NEW S, IsFiniteSet(S), NEW x
  PROVE  /\ Cardinality(S) \in Nat
         /\ x \in S => Cardinality(S) > 0 /\ Cardinality(S \ {x}) = Cardinality(S) - 1
         /\ x \notin S => Cardinality(S \cup {x}) = Cardinality(S) + 1
         /\ \A y \in S : y # x /\ x \in S => Cardinality(S) > 1
<1>1. /\ Cardinality(S) \in Nat /\ (x \in S => Cardinality(S) > 0)
  BY FS_CardinalityType, FS_EmptySet
<1>2. /\ IsFiniteSet(S \ {x})
      /\ x \in S => Cardinality(S \ {x}) = Cardinality(S) - 1
      /\ x \notin S => Cardinality(S \cup {x}) = Cardinality(S) + 1
  BY FS_RemoveElement, FS_AddElement
<1>3. ASSUME NEW y \in S, y # x, x \in S PROVE Cardinality(S) > 1
  <2>1. S \ {x} # {}
    BY <1>3
  <2>2. Cardinality(S \ {x}) \in Nat /\ Cardinality(S \ {x}) # 0
    BY <1>2, <2>1, FS_EmptySet, FS_CardinalityType
  <2> QED BY <1>1, <1>2, <1>3, <2>2
<1> QED BY <1>1, <1>2, <1>3

\* There are finitely many of them.
LEMMA UsersAreFinite ==
  \A r : IsFiniteSet(HeldBy(r)) /\ IsFiniteSet(UsedBy(r))
<1>1. \A r : HeldBy(r) \in SUBSET Holder /\ UsedBy(r) \in SUBSET Loader
  BY DEF HeldBy, UsedBy
<1> QED BY <1>1, FS_Subset, FiniteAssumption

\* A holder gives its mesh up; the mesh is destroyed with the last of them.
LEMMA ClearRawMeshKeeps ==
  ASSUME ManagerInv, NEW h \in Holder, ClearRawMesh(h)
  PROVE  ManagerInv'
<1>0. PICK r : r = held[h]
  OBVIOUS
<1>a. PICK last \in BOOLEAN : last = (uses[r] = 1 /\ ~isDestroyed[r])
  <2> WITNESS (uses[r] = 1 /\ ~isDestroyed[r]) \in BOOLEAN
  <2> QED OBVIOUS
<1>1. /\ last <=> uses[r] = 1 /\ ~isDestroyed[r]
      /\ r # None /\ Running /\ ~lock
      /\ uses' = [uses EXCEPT ![r] = @ - 1]
      /\ DestroyIf(last, r, isDestroyed, destroyed)
      /\ held' = [held EXCEPT ![h] = None]
      /\ UNCHANGED <<status, idOf, forced, life, collector, mainVars, watch>>
      /\ UNCHANGED <<loader, fault>>
  BY <1>0, <1>a DEF ClearRawMesh, RemoveUsePoint
<1>2. /\ r \in Resource /\ idOf[r] \in Revivable /\ idOf[r] \in Id /\ r # Settings
      /\ uses[r] = Cardinality(HeldBy(r)) /\ h \in HeldBy(r)
  <2>1. r \in Resource /\ idOf[r] \in Revivable /\ h \in HeldBy(r)
    BY <1>0, <1>1 DEF ManagerInv, TypeOK, UserInv, HeldBy
  <2>2. idOf[r] \in Id /\ r # Settings
    BY <2>1, ObjectAssumption DEF ManagerInv, ObjectInv
  <2> QED BY <2>1, <2>2 DEF ManagerInv, UserInv
<1>3. uses[r] > 0 /\ uses[r] \in Nat /\ Cardinality(HeldBy(r) \ {h}) = uses[r] - 1
  BY <1>2, UsersAreFinite, CountFacts
<1>4. /\ uses' \in [Resource -> Nat] /\ uses'[r] = uses[r] - 1
      /\ \A x \in Resource : x # r => uses'[x] = uses[x]
  BY <1>1, <1>2, <1>3 DEF ManagerInv, TypeOK
<1>5. /\ held' \in [Holder -> Resource \cup {None}]
      /\ held'[h] = None /\ \A g \in Holder : g # h => held'[g] = held[g]
  BY <1>1 DEF ManagerInv, TypeOK
<1>6. /\ destroyed' \in Seq(Resource) /\ age' \in [Resource -> 0..LifeTime]
      /\ isDestroyed' \in [Resource -> BOOLEAN]
      /\ \A x \in Resource : isDestroyed'[x] <=> isDestroyed[x] \/ (last /\ x = r)
      /\ DirtyInv' /\ ObjectInv' /\ CopyInv' /\ ListMatchesFlags'
      /\ LockInv' /\ MainInv' /\ LifeInv'
  BY <1>1, <1>2, <1>4, DestroyKeeps
<1>7. TypeOK'
  BY SMTT(30), <1>1, <1>4, <1>5, <1>6 DEF ManagerInv, TypeOK, collector, mainVars, watch
<1>8. UserInv'
  <2>1. ASSUME NEW g \in Holder, held'[g] # None
        PROVE  /\ status'[held'[g]] = "live" /\ ~isDestroyed'[held'[g]]
               /\ idOf'[held'[g]] \in Revivable
    <3>1. PICK x \in Resource : x = held[g] /\ g # h /\ held'[g] = x
      BY <1>5, <2>1 DEF ManagerInv, TypeOK
    <3>2. Live(x) /\ ~isDestroyed[x] /\ idOf[x] \in Revivable
      BY <1>5, <2>1, <3>1 DEF ManagerInv, UserInv
    <3>3. ASSUME x = r PROVE uses[r] > 1
      <4>1. g \in HeldBy(r)
        BY <3>1, <3>3 DEF HeldBy
      <4> QED BY <1>2, <3>1, <4>1, UsersAreFinite, CountFacts
    <3>4. ~(last /\ x = r)
      BY <1>1, <1>3, <3>3
    <3> QED BY <1>1, <1>6, <3>1, <3>2, <3>4 DEF Live
  <2>2. ASSUME NEW x \in Resource, idOf'[x] \in Revivable
        PROVE  uses'[x] = Cardinality(HeldBy(x)')
    <3>1. CASE x = r
      <4>1. HeldBy(r)' = HeldBy(r) \ {h}
        BY <1>2, <1>5, ObjectAssumption DEF HeldBy
      <4> QED BY <1>3, <1>4, <3>1, <4>1
    <3>2. CASE x # r
      <4>1. HeldBy(x)' = HeldBy(x)
        BY <1>0, <1>5, <3>2, ObjectAssumption DEF HeldBy
      <4> QED BY <1>1, <1>4, <2>2, <3>2, <4>1 DEF ManagerInv, UserInv
    <3> QED BY <3>1, <3>2
  <2>3. ASSUME NEW x \in Resource, idOf'[x] \in LoaderId
        PROVE  uses'[x] = Cardinality(UsedBy(x)')
    <3>1. x # r
      BY <1>1, <1>2, <2>3 DEF LoaderId
    <3>2. UsedBy(x)' = UsedBy(x)
      BY <1>1 DEF UsedBy
    <3> QED BY <1>1, <1>4, <2>3, <3>1, <3>2 DEF ManagerInv, UserInv
  <2>4. uses'[Settings] \in {0, 1}
    BY <1>2, <1>4, ObjectAssumption DEF ManagerInv, UserInv
  <2>5. \A l \in Loader : loader'[l].pc # "idle" =>
          loader'[l].res \in Resource /\ idOf'[loader'[l].res] \in LoaderId
    BY <1>1 DEF ManagerInv, UserInv
  <2> QED BY <2>1, <2>2, <2>3, <2>4, <2>5 DEF UserInv, Live, LoaderId
<1> QED BY <1>6, <1>7, <1>8 DEF ManagerInv

\* What is said of the users after a step of the loader l on its object r, with
\* n users then.
LEMMA LoaderStep ==
  ASSUME ManagerInv, NEW l \in Loader, NEW r \in Resource, idOf[r] \in LoaderId,
         uses' \in [Resource -> Nat], UNCHANGED <<status, idOf, held>>,
         \A x \in Resource : x # r =>
           uses'[x] = uses[x] /\ (isDestroyed'[x] <=> isDestroyed[x]),
         \A k \in Loader : k # l => loader'[k] = loader[k],
         loader[l].pc # "idle" /\ loader[l].res = r,
         loader'[l].pc # "idle" => loader'[l].res = r,
         fault = "none",
         fault' = "none" => uses'[r] = Cardinality(UsedBy(r)')
  PROVE  UserInv'
<1>1. \A h \in Holder : held[h] # None => held[h] \in Resource /\ held[h] # r
  BY DEF ManagerInv, TypeOK, UserInv, LoaderId
<1>2. r # Settings
  BY DEF ManagerInv, ObjectInv, LoaderId
<1>3. ASSUME NEW h \in Holder, held'[h] # None
      PROVE  /\ status'[held'[h]] = "live" /\ ~isDestroyed'[held'[h]]
             /\ idOf'[held'[h]] \in Revivable
  <2>1. PICK x \in Resource : x = held[h] /\ x # r
    BY <1>1, <1>3
  <2> QED BY <1>3, <2>1 DEF ManagerInv, UserInv, Live
<1>4. \A k \in Loader : loader'[k].pc # "idle" =>
        loader'[k].res \in Resource /\ idOf'[loader'[k].res] \in LoaderId
  BY DEF ManagerInv, UserInv
<1>5. ASSUME NEW x \in Resource, idOf'[x] \in Revivable
      PROVE  uses'[x] = Cardinality(HeldBy(x)')
  <2>1. x # r /\ HeldBy(x)' = HeldBy(x)
    BY <1>5 DEF LoaderId, HeldBy
  <2> QED BY <1>5, <2>1 DEF ManagerInv, UserInv
<1>6. ASSUME fault' = "none", NEW x \in Resource, idOf'[x] \in LoaderId
      PROVE  uses'[x] = Cardinality(UsedBy(x)')
  <2>1. CASE x = r
    BY <1>6, <2>1
  <2>2. CASE x # r
    <3>1. UsedBy(x)' = UsedBy(x)
      BY <2>2 DEF UsedBy
    <3> QED BY <1>6, <2>2, <3>1 DEF ManagerInv, UserInv, Running
  <2> QED BY <2>1, <2>2
<1>7. uses'[Settings] \in {0, 1}
  BY <1>2, ObjectAssumption DEF ManagerInv, UserInv
<1> QED BY <1>3, <1>4, <1>5, <1>6, <1>7 DEF UserInv, Live, Running, LoaderId

\* The object a loader is at, and the number of its users.
LEMMA LoaderFacts ==
  ASSUME ManagerInv, Running, NEW l \in Loader, loader[l].pc # "idle"
  PROVE  LET r == loader[l].res
         IN /\ r \in Resource /\ idOf[r] \in LoaderId /\ r # Settings
            /\ uses[r] = Cardinality(UsedBy(r)) /\ IsFiniteSet(UsedBy(r))
            /\ l \in UsedBy(r) <=> loader[l].pc = "using"
<1>1. PICK r : r = loader[l].res
  OBVIOUS
<1>2. r \in Resource /\ idOf[r] \in LoaderId
  BY <1>1 DEF ManagerInv, UserInv
<1>3. r # Settings /\ uses[r] = Cardinality(UsedBy(r))
  BY <1>2 DEF ManagerInv, UserInv, ObjectInv, LoaderId
<1>4. l \in UsedBy(r) <=> loader[l].pc = "using"
  BY <1>1 DEF UsedBy
<1> QED BY <1>1, <1>2, <1>3, <1>4, UsersAreFinite

\* The use point of a loader, without the lock: no flag and no entry changes.
LEMMA LoaderAddUseKeeps ==
  ASSUME ManagerInv, NEW l \in Loader, LoaderAddUse(l)
  PROVE  ManagerInv'
<1>0. PICK r : r = loader[l].res
  OBVIOUS
<1>1. /\ Running /\ loader[l].pc = "loaded"
      /\ \/ uses' = [uses EXCEPT ![r] = @ + 1] /\ fault' = fault
         \/ uses' = uses /\ fault' = "use_after_free"
      /\ loader' = [loader EXCEPT ![l] = [pc |-> "using", res |-> r]]
      /\ UNCHANGED <<status, idOf, isDestroyed, forced, life, age, destroyed>>
      /\ UNCHANGED <<collector, mainVars, held, watch>>
  BY <1>0 DEF LoaderAddUse, LoaderGoto
<1>2. /\ r \in Resource /\ idOf[r] \in LoaderId /\ r # Settings
      /\ uses[r] = Cardinality(UsedBy(r)) /\ IsFiniteSet(UsedBy(r)) /\ l \notin UsedBy(r)
  BY <1>0, <1>1, LoaderFacts
<1>3. /\ uses' \in [Resource -> Nat] /\ \A x \in Resource : x # r => uses'[x] = uses[x]
      /\ fault' = "none" => uses'[r] = uses[r] + 1
  BY <1>1, <1>2 DEF ManagerInv, TypeOK
<1>4. /\ loader' \in [Loader -> [pc : {"idle", "loaded", "using"},
                                 res : Resource \cup {None}]]
      /\ loader'[l] = [pc |-> "using", res |-> r]
      /\ \A k \in Loader : k # l => loader'[k] = loader[k]
  BY <1>1, <1>2 DEF ManagerInv, TypeOK
<1>5. TypeOK'
  BY SMTT(30), <1>1, <1>3, <1>4 DEF ManagerInv, TypeOK, collector, mainVars, watch
<1>6. UserInv'
  <2>1. UsedBy(r)' = UsedBy(r) \cup {l}
    BY <1>4 DEF UsedBy
  <2>2. fault' = "none" => uses'[r] = Cardinality(UsedBy(r)')
    BY <1>2, <1>3, <2>1, CountFacts
  <2> QED BY <1>0, <1>1, <1>2, <1>3, <1>4, <2>2, LoaderStep DEF Running
<1>7. DirtyInv' /\ LockInv' /\ MainInv'
  BY <1>1, <1>2, <1>3, ObjectAssumption
     DEF ManagerInv, DirtyInv, LockInv, MainInv, collector, mainVars, watch, Live
<1>8. ObjectInv' /\ CopyInv'
  <2>1. status[r] # "unborn"
    BY <1>2, ObjectAssumption DEF ManagerInv, ObjectInv, LoaderId
  <2> QED BY <1>1, <1>2, <1>3, <2>1 DEF ManagerInv, ObjectInv, CopyInv, Live
<1>9. ListMatchesFlags'
  BY <1>1 DEF ManagerInv, ListMatchesFlags, Live, Occurs, mainVars
<1>10. LifeInv'
  <2>1. LifeTimeIsWaitedOut'
    BY <1>1 DEF ManagerInv, LifeInv, LifeTimeIsWaitedOut, IsLast, Copies, Live,
                collector, mainVars
  <2> QED BY <1>1, <2>1 DEF ManagerInv, LifeInv, Due, Live, collector, mainVars
<1> QED BY <1>5, <1>6, <1>7, <1>8, <1>9, <1>10 DEF ManagerInv

\* A loader gives its use point up; the last one destroys the object.
LEMMA LoaderRemoveUseKeeps ==
  ASSUME ManagerInv, NEW l \in Loader, LoaderRemoveUse(l)
  PROVE  ManagerInv'
<1>0. PICK r : r = loader[l].res
  OBVIOUS
<1>a. PICK last \in BOOLEAN : last = (uses[r] = 1 /\ ~isDestroyed[r])
  <2> WITNESS (uses[r] = 1 /\ ~isDestroyed[r]) \in BOOLEAN
  <2> QED OBVIOUS
<1>1. /\ last <=> uses[r] = 1 /\ ~isDestroyed[r]
      /\ loader[l].pc = "using" /\ Running /\ ~lock
      /\ uses' = [uses EXCEPT ![r] = @ - 1]
      /\ DestroyIf(last, r, isDestroyed, destroyed)
      /\ loader' = [loader EXCEPT ![l] = [pc |-> "idle", res |-> None]]
      /\ UNCHANGED <<status, idOf, forced, life, collector, mainVars, watch>>
      /\ UNCHANGED <<held, fault>>
  BY <1>0, <1>a DEF LoaderRemoveUse, RemoveUsePoint, LoaderGoto
<1>2. /\ r \in Resource /\ idOf[r] \in LoaderId /\ r # Settings
      /\ uses[r] = Cardinality(UsedBy(r)) /\ IsFiniteSet(UsedBy(r)) /\ l \in UsedBy(r)
  BY <1>0, <1>1, LoaderFacts
<1>3. uses[r] > 0 /\ uses[r] \in Nat /\ Cardinality(UsedBy(r) \ {l}) = uses[r] - 1
  BY <1>2, CountFacts
<1>4. /\ uses' \in [Resource -> Nat] /\ uses'[r] = uses[r] - 1
      /\ \A x \in Resource : x # r => uses'[x] = uses[x]
  BY <1>1, <1>2, <1>3 DEF ManagerInv, TypeOK
<1>5. /\ loader' \in [Loader -> [pc : {"idle", "loaded", "using"},
                                 res : Resource \cup {None}]]
      /\ loader'[l] = [pc |-> "idle", res |-> None]
      /\ \A k \in Loader : k # l => loader'[k] = loader[k]
  BY <1>1 DEF ManagerInv, TypeOK
<1>6. /\ destroyed' \in Seq(Resource) /\ age' \in [Resource -> 0..LifeTime]
      /\ isDestroyed' \in [Resource -> BOOLEAN]
      /\ \A x \in Resource : isDestroyed'[x] <=> isDestroyed[x] \/ (last /\ x = r)
      /\ DirtyInv' /\ ObjectInv' /\ CopyInv' /\ ListMatchesFlags'
      /\ LockInv' /\ MainInv' /\ LifeInv'
  <2>1. idOf[r] \in Id
    BY <1>2 DEF LoaderId
  <2> QED BY <1>1, <1>2, <1>4, <2>1, DestroyKeeps
<1>7. TypeOK'
  BY <1>1, <1>4, <1>5, <1>6 DEF ManagerInv, TypeOK, collector, mainVars, watch
<1>8. UserInv'
  <2>1. UsedBy(r)' = UsedBy(r) \ {l}
    BY <1>5 DEF UsedBy
  <2>2. \A x \in Resource : x # r => (isDestroyed'[x] <=> isDestroyed[x])
    BY <1>6
  <2>3. fault' = "none" => uses'[r] = Cardinality(UsedBy(r)')
    BY <1>3, <1>4, <2>1
  <2> QED BY <1>0, <1>1, <1>2, <1>4, <1>5, <2>2, <2>3, LoaderStep DEF Running
<1> QED BY <1>6, <1>7, <1>8 DEF ManagerInv

\* A loader without an instance: the object is destroyed if nobody uses it.
LEMMA LoaderCheckUsageKeeps ==
  ASSUME ManagerInv, NEW l \in Loader, LoaderCheckUsage(l)
  PROVE  ManagerInv'
<1>0. PICK r : r = loader[l].res
  OBVIOUS
<1>a. PICK unused \in BOOLEAN : unused = (Live(r) /\ uses[r] = 0 /\ ~isDestroyed[r])
  <2> WITNESS (Live(r) /\ uses[r] = 0 /\ ~isDestroyed[r]) \in BOOLEAN
  <2> QED OBVIOUS
<1>1. /\ unused <=> Live(r) /\ uses[r] = 0 /\ ~isDestroyed[r]
      /\ loader[l].pc = "loaded" /\ Running /\ ~lock
      /\ DestroyIf(unused, r, isDestroyed, destroyed)
      /\ fault' \in {fault, "use_after_free"}
      /\ loader' = [loader EXCEPT ![l] = [pc |-> "idle", res |-> None]]
      /\ UNCHANGED <<status, idOf, forced, life, collector, mainVars, watch>>
      /\ UNCHANGED <<uses, held>>
  <2>1. CASE Live(r)
    <3>1. unused = (uses[r] = 0 /\ ~isDestroyed[r])
      BY <1>a, <2>1
    <3> QED BY <1>0, <1>a, <2>1, <3>1 DEF LoaderCheckUsage, LoaderGoto
  <2>2. CASE ~Live(r)
    BY <1>0, <1>a, <2>2 DEF LoaderCheckUsage, LoaderGoto, DestroyIf
  <2> QED BY <2>1, <2>2
<1>2. /\ r \in Resource /\ idOf[r] \in LoaderId /\ r # Settings
      /\ uses[r] = Cardinality(UsedBy(r)) /\ l \notin UsedBy(r)
  BY <1>0, <1>1, LoaderFacts
<1>3. uses \in [Resource -> Nat] /\ fault' \in {"none", "use_after_free"}
  BY <1>1 DEF ManagerInv, TypeOK, Running
<1>4. /\ loader' \in [Loader -> [pc : {"idle", "loaded", "using"},
                                 res : Resource \cup {None}]]
      /\ loader'[l] = [pc |-> "idle", res |-> None]
      /\ \A k \in Loader : k # l => loader'[k] = loader[k]
  BY <1>1 DEF ManagerInv, TypeOK
<1>5. /\ destroyed' \in Seq(Resource) /\ age' \in [Resource -> 0..LifeTime]
      /\ isDestroyed' \in [Resource -> BOOLEAN]
      /\ \A x \in Resource : isDestroyed'[x] <=> isDestroyed[x] \/ (unused /\ x = r)
      /\ DirtyInv' /\ ObjectInv' /\ CopyInv' /\ ListMatchesFlags'
      /\ LockInv' /\ MainInv' /\ LifeInv'
  <2>1. idOf[r] \in Id
    BY <1>2 DEF LoaderId
  <2> QED BY <1>1, <1>2, <2>1, DestroyKeeps
<1>6. TypeOK'
  BY <1>1, <1>3, <1>4, <1>5 DEF ManagerInv, TypeOK, collector, mainVars, watch
<1>7. UserInv'
  <2>1. UsedBy(r)' = UsedBy(r)
    BY <1>2, <1>4 DEF UsedBy
  <2>2. \A x \in Resource : x # r => (isDestroyed'[x] <=> isDestroyed[x])
    BY <1>5
  <2>3. uses'[r] = Cardinality(UsedBy(r)')
    BY <1>1, <1>2, <2>1
  <2> QED BY <1>0, <1>1, <1>2, <1>3, <1>4, <2>2, <2>3, LoaderStep DEF Running
<1> QED BY <1>5, <1>6, <1>7 DEF ManagerInv

\* A critical section that loads r and then may destroy another object keeps
\* everything but what is said of the users.
LEMMA LoadKeeps ==
  ASSUME ManagerInv, ~lock, NEW r \in Resource, NEW i \in Id \ {SettingsId}, Load(r, i),
         NEW cond \in BOOLEAN, NEW old,
         cond => /\ old \in Resource /\ old # r /\ old # Settings
                 /\ Live(old) /\ ~isDestroyed[old],
         DestroyIf(cond, old, FlagsAfterLoad(r), ListAfterLoad(r)),
         \A x \in Resource : x # r /\ status[x] = "unborn" => uses'[x] = uses[x],
         uses'[Settings] = uses[Settings],
         UNCHANGED <<forced, collector, mainVars, watch>>
  PROVE  /\ destroyed' \in Seq(Resource) /\ age' \in [Resource -> 0..LifeTime]
         /\ isDestroyed' \in [Resource -> BOOLEAN] /\ ~isDestroyed'[r]
         /\ \A x \in Resource : x # r =>
              (isDestroyed'[x] <=> isDestroyed[x] \/ (cond /\ x = old))
         /\ DirtyInv' /\ ObjectInv' /\ CopyInv' /\ ListMatchesFlags'
         /\ LockInv' /\ MainInv' /\ LifeInv'
<1> USE DEF collector, mainVars, watch
<1> DEFINE F == FlagsAfterLoad(r)
           L == ListAfterLoad(r)
<1>1. /\ r # Settings /\ Settings \in Resource
      /\ status'[r] = "live" /\ idOf'[r] = i /\ life'[r] = LifeTime
      /\ \A x \in Resource : x # r =>
           status'[x] = status[x] /\ idOf'[x] = idOf[x] /\ life'[x] = life[x]
      /\ (status[r] = "live" /\ idOf[r] = i) \/ status[r] = "unborn"
  BY LoadFacts, ObjectAssumption
<1>2. /\ F \in [Resource -> BOOLEAN] /\ ~F[r]
      /\ \A x \in Resource : x # r => F[x] = isDestroyed[x]
      /\ L \in Seq(Resource) /\ Distinct(L)
      /\ \A y : Occurs(y, L) <=> Occurs(y, destroyed) /\ y # r
  BY LoadFacts
<1>3. \A x \in Resource : x # r /\ Live(x) /\ idOf[x] = i =>
        i \notin Revivable /\ isDestroyed[x]
  BY LoadFacts
<1>4. cond => old \in Resource /\ ~Occurs(old, L)
  BY <1>2 DEF ManagerInv, ListMatchesFlags
<1>5. DestroyIf(cond, old, F, L)
  OBVIOUS
<1> HIDE DEF F, L
<1>6. /\ destroyed' \in Seq(Resource) /\ Distinct(destroyed')
      /\ isDestroyed' \in [Resource -> BOOLEAN] /\ age' \in [Resource -> 0..LifeTime]
      /\ \A y : Occurs(y, destroyed') <=> Occurs(y, L) \/ (cond /\ y = old)
      /\ \A x \in Resource : isDestroyed'[x] <=> F[x] \/ (cond /\ x = old)
      /\ \A x \in Resource : ~(cond /\ x = old) => age'[x] = age[x]
  BY ZenonT(60), <1>2, <1>4, <1>5, DestroyFacts
<1>7. /\ ~isDestroyed'[r]
      /\ \A x \in Resource : x # r =>
           (isDestroyed'[x] <=> isDestroyed[x] \/ (cond /\ x = old))
  BY <1>2, <1>6
<1>8. \A y : Occurs(y, destroyed') <=>
        (Occurs(y, destroyed) /\ y # r) \/ (cond /\ y = old)
  BY <1>2, <1>6
<1>9. thread \notin {"visit", "free"} /\ UNCHANGED <<thread, lock, main, restarted>>
  BY DEF ManagerInv, LockInv
<1>10. DirtyInv' /\ LockInv'
  BY <1>9 DEF ManagerInv, DirtyInv, LockInv
<1>11. MainInv'
  BY <1>1, <1>7 DEF ManagerInv, MainInv, Live
<1>12. ObjectInv'
  <2>1. ~forced[r]
    BY <1>1 DEF ManagerInv, ObjectInv
  <2>2. \A x \in Resource : x # r /\ status[x] = "unborn" => ~(cond /\ x = old)
    BY DEF Live
  <2>3. ASSUME NEW x \in Resource
        PROVE  /\ status'[x] = "unborn" => uses'[x] = 0 /\ ~isDestroyed'[x] /\ idOf'[x] = None
               /\ status'[x] # "unborn" => idOf'[x] \in Id
               /\ status'[x] = "deleted" => isDestroyed'[x]
               /\ forced'[x] => x = Settings /\ isDestroyed'[x]
               /\ idOf'[x] = SettingsId <=> x = Settings
    <3>1. CASE x = r
      BY <1>1, <2>1, <3>1
    <3>2. CASE x # r
      BY <1>1, <1>7, <2>2, <3>2 DEF ManagerInv, ObjectInv
    <3> QED BY <3>1, <3>2
  <2> QED BY <1>1, <2>3 DEF ManagerInv, ObjectInv
<1>13. CopyInv'
  <2> SUFFICES ASSUME NEW x \in Resource, NEW y \in Resource,
                      status'[x] = "live", status'[y] = "live", idOf'[x] = idOf'[y],
                      idOf'[x] \in Revivable \/ (~isDestroyed'[x] /\ ~isDestroyed'[y])
               PROVE  x = y
    BY DEF CopyInv, Live
  <2>1. CASE x # r /\ y # r
    BY <1>1, <1>7, <2>1 DEF ManagerInv, CopyInv, Live
  <2>2. CASE x = r /\ y # r
    BY <1>1, <1>3, <1>7, <2>2 DEF Live
  <2>3. CASE x # r /\ y = r
    BY <1>1, <1>3, <1>7, <2>3 DEF Live
  <2> QED BY <2>1, <2>2, <2>3
<1>14. ListMatchesFlags'
  <2>1. ASSUME NEW x \in Resource
        PROVE  Occurs(x, destroyed') <=>
          status'[x] = "live" /\ isDestroyed'[x] /\ ~(x = Settings /\ main' = "enlist")
    <3>1. CASE x = r
      BY <1>7, <1>8, <3>1
    <3>2. CASE x # r
      BY <1>1, <1>7, <1>8, <1>9, <3>2 DEF ManagerInv, ListMatchesFlags, Live
    <3> QED BY <3>1, <3>2
  <2> QED BY <1>6, <2>1 DEF ListMatchesFlags, Distinct, Live
<1>15. LifeInv'
  <2>1. \A x \in Resource : ~(Live(x)' /\ life'[x] = 0)
    BY <1>1, LifeOutside, BoundAssumption DEF Live
  <2>2. \A x \in Resource : ~isDestroyed'[x] => life'[x] = LifeTime
    BY <1>1, <1>7 DEF ManagerInv, LifeInv
  <2>3. ASSUME ~restarted', NEW y, Occurs(y, destroyed')
        PROVE  life'[y] + age'[y] >= LifeTime
    <3>1. y \in Resource
      BY <1>6, <2>3, ElementOfSeq DEF Occurs
    <3>2. CASE cond /\ y = old
      <4>1. life'[y] = LifeTime
        BY <1>1, <3>2 DEF ManagerInv, LifeInv
      <4>2. age'[y] \in 0..LifeTime
        BY <1>6, <3>1
      <4> QED BY <4>1, <4>2, BoundAssumption
    <3>3. CASE ~(cond /\ y = old)
      <4>1. age'[y] = age[y] /\ Occurs(y, destroyed) /\ y # r
        BY <1>6, <1>8, <2>3, <3>1, <3>3
      <4>2. life[y] + age[y] >= LifeTime
        BY <1>9, <2>3, <4>1, LifeOutside
      <4> QED BY <1>1, <3>1, <4>1, <4>2
    <3> QED BY <3>2, <3>3
  <2> QED BY <1>9, <2>1, <2>2, <2>3, LifeOutsideNext
<1> QED BY <1>6, <1>7, <1>10, <1>11, <1>12, <1>13, <1>14, <1>15

\* A prefab is loaded; nobody has a use point for it yet.
LEMMA LoaderLoadKeeps ==
  ASSUME ManagerInv, NEW l \in Loader, NEW r \in Resource, NEW i \in LoaderId,
         LoaderLoad(l, r, i)
  PROVE  ManagerInv'
<1>1. /\ Running /\ ~lock /\ loader[l].pc = "idle" /\ Load(r, i)
      /\ DestroyIf(FALSE, None, FlagsAfterLoad(r), ListAfterLoad(r))
      /\ loader' = [loader EXCEPT ![l] = [pc |-> "loaded", res |-> r]]
      /\ UNCHANGED <<forced, collector, mainVars, watch>>
      /\ UNCHANGED <<uses, held, fault>>
  BY DEF LoaderLoad, LoaderGoto, DestroyIf
<1>2. i \in Id \ {SettingsId} /\ i \notin Revivable
  BY DEF LoaderId
<1>3. /\ r # Settings /\ Settings \in Resource
      /\ status' \in [Resource -> {"unborn", "live", "deleted"}]
      /\ idOf' \in [Resource -> Id \cup {None}] /\ life' \in [Resource -> 0..LifeTime]
      /\ status'[r] = "live" /\ idOf'[r] = i
      /\ \A x \in Resource : x # r => status'[x] = status[x] /\ idOf'[x] = idOf[x]
      /\ (status[r] = "live" /\ idOf[r] = i) \/ status[r] = "unborn"
  BY <1>1, <1>2, LoadFacts, ObjectAssumption
<1>4. /\ destroyed' \in Seq(Resource) /\ age' \in [Resource -> 0..LifeTime]
      /\ isDestroyed' \in [Resource -> BOOLEAN] /\ ~isDestroyed'[r]
      /\ \A x \in Resource : x # r => (isDestroyed'[x] <=> isDestroyed[x])
      /\ DirtyInv' /\ ObjectInv' /\ CopyInv' /\ ListMatchesFlags'
      /\ LockInv' /\ MainInv' /\ LifeInv'
  BY <1>1, <1>2, LoadKeeps
<1>5. /\ loader' \in [Loader -> [pc : {"idle", "loaded", "using"},
                                 res : Resource \cup {None}]]
      /\ loader'[l] = [pc |-> "loaded", res |-> r]
      /\ \A k \in Loader : k # l => loader'[k] = loader[k]
  BY <1>1 DEF ManagerInv, TypeOK
<1>6. TypeOK'
  BY ZenonT(60), <1>1, <1>3, <1>4, <1>5 DEF ManagerInv, TypeOK, collector, mainVars, watch
<1>7. UserInv'
  <2>1. ASSUME NEW h \in Holder, held'[h] # None
        PROVE  /\ status'[held'[h]] = "live" /\ ~isDestroyed'[held'[h]]
               /\ idOf'[held'[h]] \in Revivable
    <3>1. PICK x \in Resource : x = held[h] /\ held'[h] = x
      BY <1>1, <2>1 DEF ManagerInv, TypeOK
    <3>2. Live(x) /\ ~isDestroyed[x] /\ idOf[x] \in Revivable
      BY <1>1, <2>1, <3>1 DEF ManagerInv, UserInv
    <3>3. x # r
      BY <1>2, <1>3, <3>2 DEF Live
    <3> QED BY <1>3, <1>4, <3>1, <3>2, <3>3 DEF Live
  <2>2. \A k \in Loader : loader'[k].pc # "idle" =>
          loader'[k].res \in Resource /\ idOf'[loader'[k].res] \in LoaderId
    <3> SUFFICES ASSUME NEW k \in Loader, loader'[k].pc # "idle"
                 PROVE  loader'[k].res \in Resource /\ idOf'[loader'[k].res] \in LoaderId
      OBVIOUS
    <3>1. CASE k = l
      BY <1>3, <1>5, <3>1
    <3>2. CASE k # l
      <4>1. loader[k].res \in Resource /\ idOf[loader[k].res] \in LoaderId
        BY <1>5, <3>2 DEF ManagerInv, UserInv
      <4>2. idOf'[loader[k].res] \in LoaderId
        BY <1>3, <4>1
      <4> QED BY <1>5, <3>2, <4>1, <4>2
    <3> QED BY <3>1, <3>2
  <2>3. ASSUME NEW x \in Resource, idOf'[x] \in Revivable
        PROVE  uses'[x] = Cardinality(HeldBy(x)')
    <3>1. x # r /\ HeldBy(x)' = HeldBy(x)
      BY <1>1, <1>2, <1>3, <2>3 DEF HeldBy
    <3> QED BY <1>1, <1>3, <2>3, <3>1 DEF ManagerInv, UserInv
  <2>4. ASSUME NEW x \in Resource, idOf'[x] \in LoaderId
        PROVE  uses'[x] = Cardinality(UsedBy(x)')
    <3>1. UsedBy(x)' = UsedBy(x)
      BY <1>1, <1>5 DEF UsedBy
    <3>2. CASE x = r /\ status[r] = "unborn"
      <4>1. uses[r] = 0 /\ idOf[r] = None
        BY <3>2 DEF ManagerInv, ObjectInv
      <4>2. UsedBy(r) = {}
        BY <4>1, ObjectAssumption DEF ManagerInv, UserInv, UsedBy, LoaderId
      <4> QED BY <1>1, <3>1, <3>2, <4>1, <4>2, FS_EmptySet
    <3>3. CASE ~(x = r /\ status[r] = "unborn")
      <4>1. idOf[x] \in LoaderId
        BY <1>3, <2>4, <3>3
      <4> QED BY <1>1, <3>1, <4>1 DEF ManagerInv, UserInv
    <3> QED BY <3>2, <3>3
  <2>5. uses'[Settings] \in {0, 1}
    BY <1>1 DEF ManagerInv, UserInv
  <2> QED BY <2>1, <2>2, <2>3, <2>4, <2>5 DEF UserInv, Live, LoaderId
<1> QED BY <1>4, <1>6, <1>7 DEF ManagerInv

\* A holder takes a mesh and gives the one it had up, in one critical section.
LEMMA SetRawMeshKeeps ==
  ASSUME ManagerInv, NEW h \in Holder, NEW r \in Resource, NEW i \in Revivable,
         SetRawMesh(h, r, i)
  PROVE  ManagerInv'
<1>0. PICK old : old = held[h]
  OBVIOUS
<1>a. PICK last \in BOOLEAN :
        last = (old \notin {None, r} /\ uses[old] = 1 /\ ~isDestroyed[old])
  <2> WITNESS (old \notin {None, r} /\ uses[old] = 1 /\ ~isDestroyed[old]) \in BOOLEAN
  <2> QED OBVIOUS
<1>1. /\ last <=> old # None /\ old # r /\ uses[old] = 1 /\ ~isDestroyed[old]
      /\ Running /\ ~lock /\ Load(r, i)
      /\ uses' = [x \in Resource |->
                    IF x = r /\ old # r THEN uses[x] + 1
                    ELSE IF x = old /\ old \notin {None, r} THEN uses[x] - 1
                    ELSE uses[x]]
      /\ DestroyIf(last, old, FlagsAfterLoad(r), ListAfterLoad(r))
      /\ held' = [held EXCEPT ![h] = r]
      /\ UNCHANGED <<forced, collector, mainVars, watch>>
      /\ UNCHANGED <<loader, fault>>
  BY <1>0, <1>a DEF SetRawMesh
<1>2. i \in Id \ {SettingsId} /\ i \notin LoaderId /\ None \notin Resource
  BY ObjectAssumption DEF LoaderId
<1>3. /\ r # Settings /\ Settings \in Resource
      /\ status' \in [Resource -> {"unborn", "live", "deleted"}]
      /\ idOf' \in [Resource -> Id \cup {None}] /\ life' \in [Resource -> 0..LifeTime]
      /\ status'[r] = "live" /\ idOf'[r] = i
      /\ \A x \in Resource : x # r => status'[x] = status[x] /\ idOf'[x] = idOf[x]
      /\ (status[r] = "live" /\ idOf[r] = i) \/ status[r] = "unborn"
  BY <1>1, <1>2, LoadFacts, ObjectAssumption
<1>4. old # None =>
        /\ old \in Resource /\ idOf[old] \in Revivable /\ Live(old) /\ ~isDestroyed[old]
        /\ old # Settings /\ h \in HeldBy(old)
        /\ uses[old] = Cardinality(HeldBy(old)) /\ uses[old] > 0
  <2> SUFFICES ASSUME old # None
               PROVE  /\ old \in Resource /\ idOf[old] \in Revivable
                      /\ Live(old) /\ ~isDestroyed[old]
                      /\ old # Settings /\ h \in HeldBy(old)
                      /\ uses[old] = Cardinality(HeldBy(old)) /\ uses[old] > 0
    OBVIOUS
  <2>1. /\ old \in Resource /\ idOf[old] \in Revivable /\ Live(old) /\ ~isDestroyed[old]
        /\ h \in HeldBy(old)
    BY <1>0 DEF ManagerInv, TypeOK, UserInv, HeldBy
  <2>2. old # Settings
    BY <2>1, ObjectAssumption DEF ManagerInv, ObjectInv
  <2>3. uses[old] = Cardinality(HeldBy(old))
    BY <2>1 DEF ManagerInv, UserInv
  <2> QED BY <2>1, <2>2, <2>3, UsersAreFinite, CountFacts
<1>5. uses[r] \in Nat /\ uses[r] = Cardinality(HeldBy(r)) /\ (h \in HeldBy(r) <=> old = r)
  <2>1. h \in HeldBy(r) <=> old = r
    BY <1>0 DEF HeldBy
  <2>2. CASE status[r] = "unborn"
    <3>1. uses[r] = 0
      BY <2>2 DEF ManagerInv, ObjectInv
    <3>2. HeldBy(r) = {}
      BY <1>2, <2>2 DEF ManagerInv, UserInv, HeldBy, Live
    <3> QED BY <2>1, <3>1, <3>2, FS_EmptySet
  <2>3. CASE status[r] # "unborn"
    <3>1. idOf[r] \in Revivable
      BY <1>3, <2>3
    <3> QED BY <2>1, <3>1 DEF ManagerInv, TypeOK, UserInv
  <2> QED BY <2>2, <2>3
<1>6. /\ uses' \in [Resource -> Nat]
      /\ uses'[r] = IF old = r THEN uses[r] ELSE uses[r] + 1
      /\ old # None /\ old # r => uses'[old] = uses[old] - 1
      /\ \A x \in Resource : x # r /\ x # old => uses'[x] = uses[x]
  <2>1. ASSUME NEW x \in Resource
        PROVE  (IF x = r /\ old # r THEN uses[x] + 1
                ELSE IF x = old /\ old \notin {None, r} THEN uses[x] - 1
                ELSE uses[x]) \in Nat
    <3>1. uses[x] \in Nat
      BY DEF ManagerInv, TypeOK
    <3>2. CASE x = old /\ old \notin {None, r}
      BY <1>4, <3>1, <3>2
    <3> QED BY <3>1, <3>2
  <2>2. uses' \in [Resource -> Nat]
    BY <1>1, <2>1
  <2>3. uses'[r] = IF old = r THEN uses[r] ELSE uses[r] + 1
    BY <1>1
  <2>4. old # None /\ old # r => uses'[old] = uses[old] - 1
    BY <1>1, <1>4
  <2>5. \A x \in Resource : x # r /\ x # old => uses'[x] = uses[x]
    BY <1>1
  <2> QED BY <2>2, <2>3, <2>4, <2>5
<1>7. /\ held' \in [Holder -> Resource \cup {None}]
      /\ held'[h] = r /\ \A g \in Holder : g # h => held'[g] = held[g]
  BY <1>1 DEF ManagerInv, TypeOK
<1>8. /\ destroyed' \in Seq(Resource) /\ age' \in [Resource -> 0..LifeTime]
      /\ isDestroyed' \in [Resource -> BOOLEAN] /\ ~isDestroyed'[r]
      /\ \A x \in Resource : x # r =>
           (isDestroyed'[x] <=> isDestroyed[x] \/ (last /\ x = old))
      /\ DirtyInv' /\ ObjectInv' /\ CopyInv' /\ ListMatchesFlags'
      /\ LockInv' /\ MainInv' /\ LifeInv'
  <2>1. last => /\ old \in Resource /\ old # r /\ old # Settings
                /\ Live(old) /\ ~isDestroyed[old]
    BY <1>1, <1>4
  <2>2. \A x \in Resource : x # r /\ status[x] = "unborn" => uses'[x] = uses[x]
    BY <1>2, <1>4, <1>6 DEF Live
  <2>3. uses'[Settings] = uses[Settings]
    BY <1>2, <1>3, <1>4, <1>6
  <2> QED BY <1>1, <1>2, <2>1, <2>2, <2>3, LoadKeeps
<1>9. TypeOK'
  BY ZenonT(60), <1>1, <1>3, <1>6, <1>7, <1>8 DEF ManagerInv, TypeOK, collector, mainVars, watch
<1>10. UserInv'
  <2>1. ASSUME NEW g \in Holder, held'[g] # None
        PROVE  /\ status'[held'[g]] = "live" /\ ~isDestroyed'[held'[g]]
               /\ idOf'[held'[g]] \in Revivable
    <3>1. CASE held'[g] = r
      BY <1>3, <1>8, <3>1
    <3>2. CASE held'[g] # r
      <4>1. PICK x \in Resource : x = held[g] /\ g # h /\ held'[g] = x /\ x # r
        BY <1>7, <2>1, <3>2 DEF ManagerInv, TypeOK
      <4>2. Live(x) /\ ~isDestroyed[x] /\ idOf[x] \in Revivable
        BY <1>7, <2>1, <4>1 DEF ManagerInv, UserInv
      <4>3. ASSUME x = old PROVE uses[old] > 1
        <5>1. g \in HeldBy(old)
          BY <4>1, <4>3 DEF HeldBy
        <5> QED BY <1>2, <1>4, <4>1, <4>3, <5>1, UsersAreFinite, CountFacts
      <4>4. ~(last /\ x = old)
        BY <1>1, <4>3
      <4> QED BY <1>3, <1>8, <4>1, <4>2, <4>4 DEF Live
    <3> QED BY <3>1, <3>2
  <2>2. ASSUME NEW l \in Loader, loader'[l].pc # "idle"
        PROVE  loader'[l].res \in Resource /\ idOf'[loader'[l].res] \in LoaderId
    <3>1. PICK x \in Resource : x = loader[l].res /\ idOf[x] \in LoaderId
      BY <1>1, <2>2 DEF ManagerInv, UserInv
    <3>2. x # r
      BY <1>2, <1>3, <3>1, ObjectAssumption DEF ManagerInv, ObjectInv, LoaderId
    <3> QED BY <1>1, <1>3, <3>1, <3>2
  <2>3. ASSUME NEW x \in Resource, idOf'[x] \in Revivable
        PROVE  uses'[x] = Cardinality(HeldBy(x)')
    <3>1. CASE x = r /\ old = r
      <4>1. HeldBy(r)' = HeldBy(r)
        BY <1>0, <1>7, <3>1 DEF HeldBy
      <4> QED BY <1>5, <1>6, <3>1, <4>1
    <3>2. CASE x = r /\ old # r
      <4>1. HeldBy(r)' = HeldBy(r) \cup {h}
        BY <1>7 DEF HeldBy
      <4>2. Cardinality(HeldBy(r) \cup {h}) = uses[r] + 1
        BY <1>5, <3>2, UsersAreFinite, CountFacts
      <4> QED BY <1>6, <3>2, <4>1, <4>2
    <3>3. CASE x # r /\ x = old
      <4>1. HeldBy(x)' = HeldBy(x) \ {h}
        BY <1>0, <1>7, <3>3 DEF HeldBy
      <4>2. Cardinality(HeldBy(x) \ {h}) = uses[x] - 1
        BY <1>2, <1>4, <3>3, UsersAreFinite, CountFacts
      <4> QED BY <1>2, <1>6, <3>3, <4>1, <4>2
    <3>4. CASE x # r /\ x # old
      <4>1. HeldBy(x)' = HeldBy(x)
        BY <1>0, <1>7, <3>4 DEF HeldBy
      <4> QED BY <1>3, <1>6, <2>3, <3>4, <4>1 DEF ManagerInv, UserInv
    <3> QED BY <3>1, <3>2, <3>3, <3>4
  <2>4. ASSUME NEW x \in Resource, idOf'[x] \in LoaderId
        PROVE  uses'[x] = Cardinality(UsedBy(x)')
    <3>1. x # r /\ idOf[x] \in LoaderId
      BY <1>2, <1>3, <2>4
    <3>2. x # old
      BY <1>2, <1>4, <3>1 DEF LoaderId
    <3>3. UsedBy(x)' = UsedBy(x)
      BY <1>1 DEF UsedBy
    <3> QED BY <1>1, <1>6, <3>1, <3>2, <3>3 DEF ManagerInv, UserInv
  <2>5. uses'[Settings] \in {0, 1}
    <3>1. Settings # old
      BY <1>2, <1>3, <1>4
    <3> QED BY <1>3, <1>6, <3>1 DEF ManagerInv, UserInv
  <2> QED BY <2>1, <2>2, <2>3, <2>4, <2>5 DEF UserInv, Live, LoaderId
<1> QED BY <1>8, <1>9, <1>10 DEF ManagerInv

-----------------------------------------------------------------------------
(* Every step, and the theorems *)

\* Every step of every thread keeps the invariant.
LEMMA NextManager ==
  ManagerInv /\ [Next]_vars => ManagerInv'
<1> SUFFICES ASSUME ManagerInv, [Next]_vars PROVE ManagerInv'
  OBVIOUS
<1>1. CASE ThreadWatch \/ ThreadNotYet \/ ThreadCheck
  BY <1>1, ThreadQuiet
<1>2. CASE GCBegin
  BY <1>2, GCBeginKeeps
<1>3. CASE GCVisit
  BY <1>3, GCVisitKeeps
<1>4. CASE GCFree
  BY <1>4, GCFreeKeeps
<1>5. CASE GCEnd
  BY <1>5, GCEndKeeps
<1>6. CASE \/ MainDrain \/ Synchronize \/ Shutdown \/ SyncBegin \/ SyncRound
           \/ SyncEnd \/ Join
  BY <1>6, MainQuiet
<1>7. CASE SettingsRemoveUse
  BY <1>7, SettingsRemoveUseKeeps
<1>8. CASE SettingsForceDestroy
  BY <1>8, SettingsForceDestroyKeeps
<1>9. CASE SettingsEnlist
  BY <1>9, SettingsEnlistKeeps
<1>10. CASE Users
  BY <1>10, ClearRawMeshKeeps, SetRawMeshKeeps, LoaderAddUseKeeps,
     LoaderCheckUsageKeeps, LoaderRemoveUseKeeps, LoaderLoadKeeps DEF Users, LoaderId
<1>11. CASE UNCHANGED vars
  <2> USE <1>11 DEF vars, collector, mainVars, watch
  <2>1. TypeOK' /\ DirtyInv'
    BY SMTT(30) DEF ManagerInv, TypeOK, DirtyInv, objects, users
  <2>2. LockInv' /\ MainInv'
    BY DEF ManagerInv, LockInv, MainInv, objects, Live
  <2>3. ObjectInv' /\ UserInv' /\ CopyInv'
    BY ObjectsKept
  <2>4. ListMatchesFlags' /\ LifeInv'
    BY ListKept, LifeKept
  <2> QED BY <2>1, <2>2, <2>3, <2>4 DEF ManagerInv
<1> QED
  BY <1>1, <1>2, <1>3, <1>4, <1>5, <1>6, <1>7, <1>8, <1>9, <1>10, <1>11
  DEF Next, GCThread, MainThread

\* So it holds in every reachable state.
LEMMA ManagerIsInvariant == Spec => []ManagerInv
BY InitManager, NextManager, PTL DEF Spec

\* The variables have their types: no use point is taken away that is not
\* there, and no index of the collector leaves the list.
THEOREM TypeCorrect == Spec => []TypeOK
<1>1. ManagerInv => TypeOK
  BY DEF ManagerInv
<1> QED BY <1>1, ManagerIsInvariant, PTL

\* A mesh that IRawMeshHolder keeps is allocated, not destroyed and has one
\* use point per holder, for any number of holders, resources and collections.
THEOREM HeldMeshesAreAlive == Spec => []HeldIsAlive
<1>1. ManagerInv => HeldIsAlive
  BY DEF ManagerInv, TypeOK, UserInv, HeldIsAlive, HeldBy
<1> QED BY <1>1, ManagerIsInvariant, PTL

\* m_destroyed lists exactly the allocated resources with m_isDestroyed set,
\* each once, so that the SRHalts of Destroy and ReviveResource are not met.
THEOREM ListAndFlagsAgree == Spec => []ListMatchesFlags
<1>1. ManagerInv => ListMatchesFlags
  BY DEF ManagerInv
<1> QED BY <1>1, ManagerIsInvariant, PTL

\* ResourceType never has two current objects of one id.
THEOREM OneCopyPerId == Spec => []OneCurrentCopy
<1>1. ManagerInv => OneCurrentCopy
  BY DEF ManagerInv, CopyInv, OneCurrentCopy
<1> QED BY <1>1, ManagerIsInvariant, PTL

\* DestroySettings and the shutdown return with the settings object deleted,
\* whatever number of rounds Synchronize makes.
THEOREM SettingsAreFreed == Spec => []SettingsAreGone
<1>1. ManagerInv => SettingsAreGone
  BY DEF ManagerInv, MainInv, SettingsAreGone
<1> QED BY <1>1, ManagerIsInvariant, PTL

\* The last resource of an id waits out ResourceLifeTime before a collection
\* that is not forced frees it, unless a collection has begun again.
THEOREM LifeTimesAreWaitedOut == Spec => []LifeTimeIsWaitedOut
<1>1. ManagerInv => LifeTimeIsWaitedOut
  BY DEF ManagerInv, LifeInv
<1> QED BY <1>1, ManagerIsInvariant, PTL
=============================================================================
