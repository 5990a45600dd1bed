-------------------------- MODULE FileWatch_proofs --------------------------
(***************************************************************************)
(* Proofs about FileWatch, for any set of resources and files, any         *)
(* assignment of the ones to the others and any number of edits.           *)
(***************************************************************************)
EXTENDS FileWatch, FiniteSetTheorems, SequenceTheorems, TLAPS

Cause == {"none", "unwatched", "ignored", "overtaken", "deaf"}

\* No element occurs twice.
Once(s) == \A i, j \in 1..Len(s) : s[i] = s[j] => i = j

-----------------------------------------------------------------------------
(* The queues *)

\* What is in a queue after a push.
LEMMA InAppend ==
  ASSUME NEW S, NEW s \in Seq(S), NEW x \in S, NEW y
  PROVE  In(y, Append(s, x)) <=> y = x \/ In(y, s)
<1>1. /\ Len(Append(s, x)) = Len(s) + 1
      /\ \A i \in 1..Len(s) : Append(s, x)[i] = s[i]
      /\ Append(s, x)[Len(s) + 1] = x
  BY AppendProperties
<1>2. Len(s) \in Nat
  BY LenProperties
<1>3. 1..Len(Append(s, x)) = 1..Len(s) \cup {Len(s) + 1}
  BY <1>1, <1>2
<1> QED BY <1>1, <1>2, <1>3 DEF In

\* What is in a queue before a pop.
LEMMA InTail ==
  ASSUME NEW S, NEW s \in Seq(S), s # << >>, NEW y
  PROVE  In(y, s) <=> y = Head(s) \/ In(y, Tail(s))
<1>1. /\ Len(Tail(s)) = Len(s) - 1
      /\ \A i \in 1..Len(Tail(s)) : Tail(s)[i] = s[i + 1]
  BY HeadTailProperties
<1>2. Len(s) \in Nat \ {0}
  BY EmptySeq
<1>3. Head(s) = s[1]
  OBVIOUS
<1>4. ASSUME In(y, s) PROVE y = s[1] \/ In(y, Tail(s))
  <2>1. PICK k \in 1..Len(s) : s[k] = y
    BY <1>4 DEF In
  <2>2. CASE k = 1
    BY <2>1, <2>2
  <2>3. CASE k # 1
    <3>1. k - 1 \in 1..Len(Tail(s)) /\ (k - 1) + 1 = k
      BY <2>3, <1>1, <1>2
    <3>2. Tail(s)[k - 1] = y
      BY <3>1, <1>1, <2>1
    <3> QED BY <3>1, <3>2 DEF In
  <2> QED BY <2>2, <2>3
<1>5. ASSUME In(y, Tail(s)) PROVE In(y, s)
  <2>1. PICK k \in 1..Len(Tail(s)) : Tail(s)[k] = y
    BY <1>5 DEF In
  <2>2. k + 1 \in 1..Len(s) /\ s[k + 1] = y
    BY <2>1, <1>1, <1>2
  <2> QED BY <2>2 DEF In
<1>6. In(s[1], s)
  BY <1>2 DEF In
<1> QED BY <1>3, <1>4, <1>5, <1>6

\* A push of what is not queued keeps the elements distinct.
LEMMA OnceAppend ==
  ASSUME NEW S, NEW s \in Seq(S), NEW x \in S, Once(s), ~In(x, s)
  PROVE  Once(Append(s, x))
<1>1. /\ Len(Append(s, x)) = Len(s) + 1
      /\ \A i \in 1..Len(s) : Append(s, x)[i] = s[i]
      /\ Append(s, x)[Len(s) + 1] = x
  BY AppendProperties
<1>2. Len(s) \in Nat
  BY LenProperties
<1> SUFFICES ASSUME NEW i \in 1..(Len(s) + 1), NEW j \in 1..(Len(s) + 1),
                    Append(s, x)[i] = Append(s, x)[j]
             PROVE  i = j
  BY <1>1 DEF Once
<1>3. CASE i \in 1..Len(s) /\ j \in 1..Len(s)
  BY <1>1, <1>3 DEF Once
<1>4. CASE i = Len(s) + 1 /\ j \in 1..Len(s)
  BY <1>1, <1>4 DEF In
<1>5. CASE j = Len(s) + 1 /\ i \in 1..Len(s)
  BY <1>1, <1>5 DEF In
<1> QED BY <1>2, <1>3, <1>4, <1>5

\* So does a pop, and what was popped is not queued any more.
LEMMA OnceTail ==
  ASSUME NEW S, NEW s \in Seq(S), s # << >>, Once(s)
  PROVE  Once(Tail(s)) /\ ~In(Head(s), Tail(s))
<1>1. /\ Len(Tail(s)) = Len(s) - 1
      /\ \A i \in 1..Len(Tail(s)) : Tail(s)[i] = s[i + 1]
  BY HeadTailProperties
<1>2. Len(s) \in Nat \ {0}
  BY EmptySeq
<1>3. Head(s) = s[1]
  OBVIOUS
<1>4. Once(Tail(s))
  <2> SUFFICES ASSUME NEW i \in 1..Len(Tail(s)), NEW j \in 1..Len(Tail(s)),
                      Tail(s)[i] = Tail(s)[j]
               PROVE  i = j
    BY DEF Once
  <2>1. i + 1 \in 1..Len(s) /\ j + 1 \in 1..Len(s) /\ s[i + 1] = s[j + 1]
    BY <1>1, <1>2
  <2>2. i + 1 = j + 1
    BY <2>1 DEF Once
  <2> QED BY <2>2
<1>5. ASSUME In(Head(s), Tail(s)) PROVE FALSE
  <2>1. PICK k \in 1..Len(Tail(s)) : Tail(s)[k] = s[1]
    BY <1>5, <1>3 DEF In
  <2>2. k + 1 \in 1..Len(s) /\ 1 \in 1..Len(s) /\ s[k + 1] = s[1] /\ k \in Nat
    BY <2>1, <1>1, <1>2
  <2>3. k + 1 = 1
    BY <2>2 DEF Once
  <2> QED BY <2>1, <2>3
<1> QED BY <1>4, <1>5
-----------------------------------------------------------------------------
(* The inductive invariant *)

TypeInv ==
  /\ content \in [File -> Int] /\ edits \in Int
  /\ status \in [Resource -> {"unborn", "live", "deleted"}]
  /\ isDestroyed \in [Resource -> BOOLEAN]
  /\ isActive \in [Resource -> BOOLEAN] /\ isInit \in [Resource -> BOOLEAN]
  /\ isDirty \in [Resource -> BOOLEAN] /\ isPaused \in [Resource -> BOOLEAN]
  /\ loaded \in [Resource -> Int] /\ hash \in [Resource -> Int]
  /\ watchers \in Seq(Resource) /\ dirtyWatchers \in Seq(Resource)
  /\ dirtyResources \in Seq(File)
  /\ lock \in {"none", "thread", "signal", "reload"}
  /\ toReload \in SUBSET Resource
  /\ cause \in [Resource -> Cause]

\* Who may still be called: an active watcher, a queued one and a resource the
\* reloader has still to visit belong to a resource that is not deleted, and
\* while Update compares the front watcher nobody stops it or marks it.
UseInv ==
  /\ \A r \in Resource : isActive[r] \/ In(r, dirtyWatchers) => Live(r)
  /\ \A r \in toReload : Live(r)
  /\ toReload # {} => lock = "reload"
  /\ writeTime # NotRunning =>
       /\ lock = "thread" /\ watchers # << >>
       /\ isActive[watchers[1]] /\ ~isDirty[watchers[1]]
  /\ fault = "none"

\* A watcher is queued once while it is dirty, and only then.
QueueInv ==
  /\ Once(dirtyWatchers)
  /\ \A r \in Resource :
       /\ In(r, dirtyWatchers) => isDirty[r]
       /\ isDirty[r] /\ isActive[r] /\ cause[r] # "deaf" => In(r, dirtyWatchers)
       /\ status[r] = "unborn" => ~isDirty[r] /\ ~isInit[r]

\* A noticed change is loaded or on its way, for a destroyed resource too: it
\* may be revived.  Where
\* contents do not return, a new one is not one that a watcher has seen.
NoticeInv ==
  /\ ~world.reverts =>
       /\ \A f \in File : content[f] <= edits
       /\ \A r \in Resource : hash[r] <= edits
  /\ \A r \in Resource :
       Live(r) /\ isInit[r] /\ ~Excused(r) =>
         \/ loaded[r] = hash[r]
         \/ Pending(r)
         \/ cause[r] = "overtaken" /\ hash[r] # Current(r)

WatchInv == TypeInv /\ UseInv /\ QueueInv /\ NoticeInv

\* It contains what is to be shown.
LEMMA WatchInvShows ==
  WatchInv => NoCallbackAfterDelete /\ DirtyIsQueued /\ NoticedIsLoaded
<1> SUFFICES ASSUME WatchInv
             PROVE  NoCallbackAfterDelete /\ DirtyIsQueued /\ NoticedIsLoaded
  OBVIOUS
<1> USE DEF WatchInv
<1>1. NoCallbackAfterDelete
  BY DEF UseInv, NoCallbackAfterDelete, Live
<1>2. DirtyIsQueued
  <2> SUFFICES ASSUME NEW r \in Resource
               PROVE  LET places == {k \in 1..Len(dirtyWatchers) :
                                       dirtyWatchers[k] = r}
                      IN /\ Cardinality(places) <= 1
                         /\ places # {} => isDirty[r]
                         /\ isDirty[r] /\ isActive[r] /\ cause[r] # "deaf"
                              => places # {}
    BY DEF DirtyIsQueued
  <2> DEFINE places == {k \in 1..Len(dirtyWatchers) : dirtyWatchers[k] = r}
  <2>1. places # {} <=> In(r, dirtyWatchers)
    BY DEF In
  <2>2. Cardinality(places) <= 1
    <3>1. CASE places = {}
      <4> HIDE DEF places
      <4> QED BY <3>1, FS_EmptySet
    <3>2. CASE places # {}
      <4>1. PICK k : k \in places
        BY <3>2
      <4>2. ASSUME NEW j \in places PROVE j = k
        BY <4>1, <4>2 DEF QueueInv, Once
      <4>3. places = {k}
        BY <4>1, <4>2
      <4> HIDE DEF places
      <4> QED BY <4>3, FS_Singleton
    <3> QED BY <3>1, <3>2
  <2>3. /\ places # {} => isDirty[r]
        /\ isDirty[r] /\ isActive[r] /\ cause[r] # "deaf" => places # {}
    BY <2>1 DEF QueueInv
  <2> QED BY <2>2, <2>3, Zenon
<1>3. NoticedIsLoaded
  BY DEF NoticeInv, NoticedIsLoaded
<1> QED BY <1>1, <1>2, <1>3

\* It holds before anything is loaded.
LEMMA InitWatch == Init => WatchInv
<1> SUFFICES ASSUME Init PROVE WatchInv
  OBVIOUS
<1>1. << >> \in Seq(Resource) /\ << >> \in Seq(File) /\ Len(<< >>) = 0
  BY EmptySeq
<1>2. \A x : ~In(x, << >>)
  BY <1>1 DEF In
<1>3. TypeInv
  BY <1>1 DEF Init, TypeInv, NoHash, Cause
<1>4. UseInv
  BY <1>2 DEF Init, UseInv
<1>5. QueueInv
  BY <1>1, <1>2 DEF Init, QueueInv, Once
<1>6. NoticeInv
  BY DEF Init, NoticeInv, NoHash, Live
<1> QED BY <1>3, <1>4, <1>5, <1>6 DEF WatchInv

-----------------------------------------------------------------------------
(* One lemma per action *)

\* A file changes: only what is compared with it can be disturbed.
LEMMA EditStep ==
  ASSUME WatchInv, NEW f \in File, NEW c \in Content, Edit(f, c)
  PROVE  WatchInv'
<1> USE DEF Edit, flags, seen, queues, control
<1>1. c \in Int
  BY TimeAssumption DEF Content
<1>2. TypeInv'
  BY <1>1 DEF WatchInv, TypeInv
<1>3. UseInv'
  BY DEF WatchInv, UseInv, Live
<1>4. QueueInv'
  BY DEF WatchInv, QueueInv
<1>5. NoticeInv'
  <2>1. ASSUME ~world.reverts
        PROVE  /\ c = edits + 1
               /\ \A g \in File : content'[g] <= edits'
               /\ \A r \in Resource : hash[r] <= edits
    BY <2>1, <1>1 DEF WatchInv, TypeInv, NoticeInv
  <2>2. \A r \in Resource : FileOf[r] \in File
    BY FileAssumption
  <2>3. ASSUME NEW r \in Resource, ~world.reverts, hash[r] # Current(r)
        PROVE  hash[r] # Current(r)'
    BY <2>1, <2>2, <2>3 DEF WatchInv, TypeInv, Current
  <2> QED
    BY <2>1, <2>3 DEF WatchInv, TypeInv, NoticeInv, Live, Excused, Pending
<1> QED BY <1>2, <1>3, <1>4, <1>5 DEF WatchInv

\* Steps that move only the clock, the lock, or the flags that nothing in the
\* invariant depends on.
LEMMA QuietStep ==
  ASSUME WatchInv,
         \/ Tick
         \/ \E b \in BOOLEAN : SetWatchingEnabled(b)
         \/ \E r \in Resource :
              \/ Destroy(r)
              \/ ReviveResource(r)
              \/ \E b \in BOOLEAN : SetPaused(r, b)
         \/ UpdateWatchers
         \/ ReloadResources
         \/ Release
         \/ UNCHANGED vars
  PROVE  WatchInv'
<1>1. /\ UNCHANGED <<world, content, edits, status, loaded, isActive, isInit,
                     isDirty, hash, watchers, dirtyWatchers, dirtyResources,
                     writeTime, toReload, cause, fault>>
      /\ isDestroyed' \in [Resource -> BOOLEAN]
      /\ isPaused' \in [Resource -> BOOLEAN]
  BY DEF Tick, SetWatchingEnabled, Destroy, ReviveResource, SetPaused,
         UpdateWatchers, ReloadResources, Release, vars, files, flags, seen,
         queues, control, WatchInv, TypeInv
<1>2. /\ lock' \in {"none", "thread", "signal", "reload"}
      /\ toReload # {} => lock' = "reload"
      /\ writeTime # NotRunning => lock' = "thread"
  BY DEF Tick, SetWatchingEnabled, Destroy, ReviveResource, SetPaused,
         UpdateWatchers, ReloadResources, Release, vars, files, flags, seen,
         queues, control, WatchInv, TypeInv, UseInv
<1>3. TypeInv'
  BY <1>1, <1>2 DEF WatchInv, TypeInv
<1>4. UseInv'
  BY <1>1, <1>2 DEF WatchInv, UseInv, Live
<1>5. QueueInv'
  BY <1>1 DEF WatchInv, QueueInv
<1>6. NoticeInv'
  BY <1>1 DEF WatchInv, NoticeInv, Live, Excused, Pending, Current
<1> QED BY <1>3, <1>4, <1>5, <1>6 DEF WatchInv

\* A resource is loaded and its watcher started.
LEMMA LoadStep ==
  ASSUME WatchInv, NEW r \in Resource, Load(r)
  PROVE  WatchInv'
<1> USE DEF Load, StartWatch, files, seen, control
<1>1. watchers' \in Seq(Resource)
  BY AppendProperties DEF WatchInv, TypeInv
<1>2. Current(r) \in Int
  BY FileAssumption DEF WatchInv, TypeInv, Current
<1>3. TypeInv'
  BY <1>1, <1>2 DEF WatchInv, TypeInv
<1>4. UseInv'
  BY DEF WatchInv, TypeInv, UseInv, Live
<1>5. QueueInv'
  BY DEF WatchInv, TypeInv, QueueInv
<1>6. NoticeInv'
  BY DEF WatchInv, TypeInv, QueueInv, NoticeInv, Live, Excused, Pending, Current
<1> QED BY <1>3, <1>4, <1>5, <1>6 DEF WatchInv

\* The collector deletes only what neither queue nor the reloader names.
LEMMA GCStep ==
  ASSUME WatchInv, NEW r \in Resource, GC(r)
  PROVE  WatchInv'
<1> USE DEF GC, StopWatch, files, seen, queues, control
<1>1. TypeInv'
  BY DEF WatchInv, TypeInv
<1>2. ~In(r, dirtyWatchers) /\ toReload = {}
  BY EmptySeq DEF WatchInv, UseInv, In
<1>3. UseInv'
  BY <1>2 DEF WatchInv, TypeInv, UseInv, Live
<1>4. QueueInv'
  BY DEF WatchInv, TypeInv, QueueInv
<1>5. NoticeInv'
  BY DEF WatchInv, TypeInv, NoticeInv, Live, Excused, Pending, Current
<1> QED BY <1>1, <1>3, <1>4, <1>5 DEF WatchInv

\* The first look takes what is in the file for what was loaded; when it was
\* not, the resource is excused.
LEMMA FirstLookFacts ==
  ASSUME WatchInv, NEW r \in Resource, FirstLook(r), UNCHANGED <<content, edits,
         world, status, loaded, isDirty, isActive, dirtyWatchers,
         dirtyResources, toReload>>, Live(r)
  PROVE  /\ hash' \in [Resource -> Int] /\ isInit' \in [Resource -> BOOLEAN]
         /\ cause' \in [Resource -> Cause]
         /\ QueueInv' /\ NoticeInv'
<1> USE DEF FirstLook, Because
<1>1. Current(r) \in Int
  BY FileAssumption DEF WatchInv, TypeInv, Current
<1>2. /\ hash' \in [Resource -> Int] /\ isInit' \in [Resource -> BOOLEAN]
      /\ cause' \in [Resource -> Cause]
  BY <1>1 DEF WatchInv, TypeInv, Cause
<1>3. QueueInv'
  BY DEF WatchInv, TypeInv, QueueInv, Live
<1>4. ~world.reverts => \A q \in Resource : hash'[q] <= edits
  BY FileAssumption DEF WatchInv, TypeInv, NoticeInv, Current
<1>5. ASSUME NEW q \in Resource, Live(q)', isInit'[q], ~Excused(q)'
      PROVE  \/ loaded'[q] = hash'[q]
             \/ Pending(q)'
             \/ cause'[q] = "overtaken" /\ hash'[q] # Current(q)'
  <2>1. CASE q = r
    BY <1>5, <2>1 DEF WatchInv, TypeInv, Excused
  <2>2. CASE q # r
    BY <1>5, <2>2 DEF WatchInv, TypeInv, NoticeInv, Live, Excused, Pending, Current
  <2> QED BY <2>1, <2>2
<1>6. NoticeInv'
  BY <1>4, <1>5 DEF WatchInv, NoticeInv
<1> QED BY <1>2, <1>3, <1>6

\* Init of a watcher by its owner.
LEMMA WatcherInitStep ==
  ASSUME WatchInv, NEW r \in Resource, WatcherInit(r)
  PROVE  WatchInv'
<1> USE DEF WatcherInit, files, queues, control
<1>1. /\ hash' \in [Resource -> Int] /\ isInit' \in [Resource -> BOOLEAN]
      /\ cause' \in [Resource -> Cause]
      /\ QueueInv' /\ NoticeInv'
  BY FirstLookFacts
<1>2. TypeInv'
  BY <1>1 DEF WatchInv, TypeInv
<1>3. UseInv'
  BY DEF WatchInv, UseInv, Live
<1> QED BY <1>1, <1>2, <1>3 DEF WatchInv

\* The front of m_watchers is a resource, and so is what rotation leaves.
LEMMA RotateFacts ==
  ASSUME WatchInv, watchers # << >>, Rotate(watchers[1])
  PROVE  watchers[1] \in Resource /\ watchers' \in Seq(Resource)
<1>1. watchers \in Seq(Resource) /\ Head(watchers) = watchers[1]
  BY DEF WatchInv, TypeInv
<1>2. watchers[1] \in Resource /\ Tail(watchers) \in Seq(Resource)
  BY <1>1, HeadTailProperties
<1> QED BY <1>2, AppendProperties DEF Rotate

\* A turn of the thread that needs no comparison.
LEMMA AsyncUpdateStep ==
  ASSUME WatchInv, AsyncUpdateWatchers
  PROVE  WatchInv'
<1> DEFINE r == watchers[1]
<1> USE DEF AsyncUpdateWatchers, files, control
<1>1. r \in Resource /\ watchers' \in Seq(Resource)
  BY RotateFacts
<1>2. UseInv'
  BY DEF WatchInv, UseInv, Live
<1>3. CASE UNCHANGED <<hash, isInit, cause>>
  <2>1. TypeInv'
    BY <1>1, <1>3 DEF WatchInv, TypeInv
  <2>2. QueueInv'
    BY <1>3 DEF WatchInv, QueueInv
  <2>3. NoticeInv'
    BY <1>3 DEF WatchInv, NoticeInv, Live, Excused, Pending, Current
  <2> QED BY <1>2, <2>1, <2>2, <2>3 DEF WatchInv
<1>4. CASE isActive[r] /\ FirstLook(r)
  <2>1. Live(r)
    BY <1>1, <1>4 DEF WatchInv, UseInv
  <2>2. /\ hash' \in [Resource -> Int] /\ isInit' \in [Resource -> BOOLEAN]
        /\ cause' \in [Resource -> Cause]
        /\ QueueInv' /\ NoticeInv'
    BY <1>1, <1>4, <2>1, FirstLookFacts
  <2>3. TypeInv'
    BY <1>1, <2>2 DEF WatchInv, TypeInv
  <2> QED BY <1>2, <2>2, <2>3 DEF WatchInv
<1> QED BY <1>3, <1>4

\* Update reads the write time of the front watcher, which is active and clean.
LEMMA ReadTimeStep ==
  ASSUME WatchInv, UpdateReadTime
  PROVE  WatchInv'
<1> USE DEF UpdateReadTime, files, flags, seen, queues
<1>1. TypeInv'
  BY DEF WatchInv, TypeInv
<1>2. UseInv'
  BY DEF WatchInv, UseInv, Live, Rests
<1>3. QueueInv'
  BY DEF WatchInv, QueueInv
<1>4. NoticeInv'
  BY DEF WatchInv, NoticeInv, Live, Excused, Pending, Current
<1> QED BY <1>1, <1>2, <1>3, <1>4 DEF WatchInv

\* Update compares the content: a change makes the watcher dirty and queues it.
LEMMA ReadHashStep ==
  ASSUME WatchInv, UpdateReadHash
  PROVE  WatchInv'
<1> DEFINE r == watchers[1]
           changed == Looks(r) /\ hash[r] # Current(r)
<1> USE DEF files, flags
<1>1. /\ watchers # << >> /\ lock = "thread"
      /\ isActive[r] /\ ~isDirty[r] /\ toReload = {}
  BY DEF WatchInv, UseInv, UpdateReadHash
<1>2. r \in Resource /\ watchers' \in Seq(Resource)
  BY <1>1, RotateFacts DEF UpdateReadHash
<1>3. Live(r) /\ ~In(r, dirtyWatchers)
  BY <1>1, <1>2 DEF WatchInv, UseInv, QueueInv
<1>4. Current(r) \in Int
  BY <1>2, FileAssumption DEF WatchInv, TypeInv, Current
<1>5. /\ UNCHANGED <<world, content, edits, status, isDestroyed, loaded,
                     isActive, isInit, isPaused, dirtyResources, toReload,
                     cause, fault>>
      /\ lock' = "none" /\ writeTime' = NotRunning
  BY DEF UpdateReadHash
<1>6. CASE changed
  <2>1. /\ hash' = [hash EXCEPT ![r] = Current(r)]
        /\ isDirty' = [isDirty EXCEPT ![r] = TRUE]
        /\ dirtyWatchers' = Append(dirtyWatchers, r)
    BY <1>6 DEF UpdateReadHash
  <2>2. dirtyWatchers \in Seq(Resource)
    BY DEF WatchInv, TypeInv
  <2>3. /\ dirtyWatchers' \in Seq(Resource)
        /\ \A q : In(q, dirtyWatchers') <=> q = r \/ In(q, dirtyWatchers)
    BY <1>2, <2>1, <2>2, AppendProperties, InAppend
  <2>4. Once(dirtyWatchers')
    BY <1>2, <1>3, <2>1, <2>2, OnceAppend DEF WatchInv, QueueInv
  <2>5. TypeInv'
    BY <1>2, <1>4, <1>5, <2>1, <2>3 DEF WatchInv, TypeInv
  <2>6. UseInv'
    BY <1>1, <1>2, <1>3, <1>5, <2>3 DEF WatchInv, UseInv, Live
  <2>7. QueueInv'
    BY <1>2, <1>3, <1>5, <2>1, <2>3, <2>4 DEF WatchInv, TypeInv, QueueInv, Live
  <2>8. ~world.reverts => \A q \in Resource : hash'[q] <= edits
    BY <1>2, <2>1, FileAssumption DEF WatchInv, TypeInv, NoticeInv, Current
  <2>9. NoticeInv'
    BY <1>2, <1>5, <2>1, <2>3, <2>8
    DEF WatchInv, TypeInv, NoticeInv, Live, Excused, Pending, Current
  <2> QED BY <2>5, <2>6, <2>7, <2>9 DEF WatchInv
<1>7. CASE ~changed
  <2>1. UNCHANGED <<hash, isDirty, dirtyWatchers>>
    BY <1>7 DEF UpdateReadHash
  <2>2. TypeInv'
    BY <1>2, <1>5, <2>1 DEF WatchInv, TypeInv
  <2>3. UseInv'
    BY <1>1, <1>5, <2>1 DEF WatchInv, UseInv, Live
  <2>4. QueueInv'
    BY <1>5, <2>1 DEF WatchInv, QueueInv
  <2>5. NoticeInv'
    BY <1>5, <2>1 DEF WatchInv, NoticeInv, Live, Excused, Pending, Current
  <2> QED BY <2>2, <2>3, <2>4, <2>5 DEF WatchInv
<1> QED BY <1>6, <1>7

\* A turn of UpdateWatchers: the watcher that leaves the queue is signalled, and
\* then its file is queued or the resource is excused, or it stays dirty and
\* deaf.  It is dirty because it was queued, and not queued a second time.
LEMMA SignalStep ==
  ASSUME WatchInv, SignalFront
  PROVE  WatchInv'
<1> DEFINE r == Head(dirtyWatchers)
<1> USE DEF files, flags, seen, control
<1>1. dirtyWatchers \in Seq(Resource) /\ dirtyWatchers # << >>
  BY DEF WatchInv, TypeInv, SignalFront
<1>2. r \in Resource /\ dirtyWatchers' \in Seq(Resource)
  BY <1>1, HeadTailProperties DEF SignalFront
<1>3. \A q : In(q, dirtyWatchers) <=> q = r \/ In(q, dirtyWatchers')
  BY <1>1, InTail DEF SignalFront
<1>4. Once(dirtyWatchers') /\ ~In(r, dirtyWatchers')
  BY <1>1, OnceTail DEF SignalFront, WatchInv, QueueInv
<1>5. Live(r) /\ isDirty[r]
  BY <1>2, <1>3 DEF WatchInv, UseInv, QueueInv
<1>6. UNCHANGED <<world, content, edits, status, isDestroyed, loaded, isActive,
                  isInit, isPaused, hash, watchers, lock, writeTime, toReload>>
  BY DEF SignalFront
<1>7. writeTime = NotRunning
  BY DEF SignalFront, WatchInv, UseInv
<1>8. FileOf[r] \in File /\ dirtyResources \in Seq(File)
  BY <1>2, FileAssumption DEF WatchInv, TypeInv
<1> DEFINE Deaf    == isDirty' = isDirty /\ cause'[r] = "deaf"
           Ignored == isDirty'[r] = FALSE /\ cause'[r] \in {"ignored", "deaf"}
           Passed  == /\ isDirty'[r] = FALSE /\ cause' = cause
                      /\ dirtyResources' = Append(dirtyResources, FileOf[r])
<1>9. /\ isDirty' \in [Resource -> BOOLEAN] /\ cause' \in [Resource -> Cause]
      /\ \A q \in Resource : q # r => isDirty'[q] = isDirty[q] /\ cause'[q] = cause[q]
      /\ fault' = fault
      /\ \/ (Deaf \/ Ignored) /\ dirtyResources' = dirtyResources
         \/ Passed
  <2>1. CASE isActive[r] /\ ~isPaused[r] /\ isDirty[r] /\ Signal(r)
    BY <1>2, <1>5, <2>1 DEF Signal, DirtyAfterSignal, Because, Live, WatchInv, TypeInv, Cause
  <2>2. CASE /\ ~isActive[r] \/ isPaused[r]
             /\ Because("deaf", r)
             /\ UNCHANGED <<isDirty, dirtyResources, fault>>
    BY <1>2, <2>2 DEF Because, WatchInv, TypeInv, Cause
  <2> QED BY <1>5, <2>1, <2>2 DEF SignalFront
<1>10. /\ dirtyResources' \in Seq(File)
       /\ \A f : In(f, dirtyResources) => In(f, dirtyResources')
       /\ Passed => In(FileOf[r], dirtyResources')
  <2>1. /\ Append(dirtyResources, FileOf[r]) \in Seq(File)
        /\ \A f : In(f, Append(dirtyResources, FileOf[r]))
                   <=> f = FileOf[r] \/ In(f, dirtyResources)
    BY <1>8, AppendProperties, InAppend
  <2>2. \/ dirtyResources' = dirtyResources
        \/ dirtyResources' = Append(dirtyResources, FileOf[r])
    BY <1>9
  <2> QED BY <1>8, <2>1, <2>2
<1>11. TypeInv'
  BY <1>2, <1>6, <1>9, <1>10 DEF WatchInv, TypeInv
<1>12. UseInv'
  BY <1>3, <1>6, <1>7, <1>9 DEF WatchInv, UseInv, Live
<1>13. QueueInv'
  <2>1. ASSUME NEW q \in Resource
        PROVE  /\ In(q, dirtyWatchers') => isDirty'[q]
               /\ isDirty'[q] /\ isActive'[q] /\ cause'[q] # "deaf"
                    => In(q, dirtyWatchers')
               /\ status'[q] = "unborn" => ~isDirty'[q] /\ ~isInit'[q]
    <3>1. CASE q = r
      BY <3>1, <1>4, <1>5, <1>6, <1>9 DEF Live
    <3>2. CASE q # r
      BY <3>2, <1>3, <1>6, <1>9 DEF WatchInv, QueueInv
    <3> QED BY <3>1, <3>2
  <2> QED BY <2>1, <1>4 DEF QueueInv
<1>14. NoticeInv'
  <2>1. ASSUME NEW q \in Resource, Live(q)', isInit'[q], ~Excused(q)'
        PROVE  \/ loaded'[q] = hash'[q]
               \/ Pending(q)'
               \/ cause'[q] = "overtaken" /\ hash'[q] # Current(q)'
    <3>1. CASE q = r
      BY <3>1, <2>1, <1>9, <1>10 DEF Excused, Pending
    <3>2. CASE q # r
      BY <3>2, <2>1, <1>3, <1>6, <1>9, <1>10
      DEF WatchInv, NoticeInv, Live, Excused, Pending, Current
    <3> QED BY <3>1, <3>2
  <2> QED BY <2>1, <1>6 DEF WatchInv, NoticeInv
<1> QED BY <1>11, <1>12, <1>13, <1>14 DEF WatchInv

\* A turn of ReloadResources: every live resource of the file is to be visited.
LEMMA ReloadFrontStep ==
  ASSUME WatchInv, ReloadFront
  PROVE  WatchInv'
<1> DEFINE f == Head(dirtyResources)
<1> USE DEF files, flags, seen
<1>1. dirtyResources \in Seq(File) /\ dirtyResources # << >>
  BY DEF WatchInv, TypeInv, ReloadFront
<1>2. dirtyResources' \in Seq(File)
  BY <1>1, HeadTailProperties DEF ReloadFront
<1>3. \A g : In(g, dirtyResources) <=> g = f \/ In(g, dirtyResources')
  BY <1>1, InTail DEF ReloadFront
<1>4. /\ UNCHANGED <<world, content, edits, status, isDestroyed, loaded,
                     isActive, isInit, isDirty, isPaused, hash, watchers,
                     dirtyWatchers, lock, writeTime, cause, fault>>
      /\ toReload = {} /\ lock = "reload"
  BY DEF ReloadFront
<1>5. toReload' = {r \in Resource : Live(r) /\ FileOf[r] = f}
  BY DEF ReloadFront, Loaded
<1>6. TypeInv'
  BY <1>2, <1>4, <1>5 DEF WatchInv, TypeInv
<1>7. UseInv'
  BY <1>4, <1>5 DEF WatchInv, UseInv, Live
<1>8. QueueInv'
  BY <1>4 DEF WatchInv, QueueInv
<1>9. NoticeInv'
  BY <1>3, <1>4, <1>5 DEF WatchInv, NoticeInv, Live, Excused, Pending, Current
<1> QED BY <1>6, <1>7, <1>8, <1>9 DEF WatchInv

\* The reloader visits a resource: it is loaded from the file as it is now, or
\* excused when it is destroyed.
LEMMA ReloadStep ==
  ASSUME WatchInv, NEW r \in Resource, Reload(r)
  PROVE  WatchInv'
<1> USE DEF files, flags, seen, queues
<1>1. /\ UNCHANGED <<world, content, edits, status, isDestroyed, isActive,
                     isInit, isDirty, isPaused, hash, watchers, dirtyWatchers,
                     dirtyResources, lock, writeTime, fault>>
      /\ toReload' = toReload \ {r} /\ lock = "reload"
  BY DEF Reload
<1>2. Current(r) \in Int
  BY FileAssumption DEF WatchInv, TypeInv, Current
<1>3. /\ loaded' \in [Resource -> Int] /\ cause' \in [Resource -> Cause]
      /\ \A q \in Resource : q # r => loaded'[q] = loaded[q] /\ cause'[q] = cause[q]
      /\ cause[r] = "deaf" => cause'[r] = "deaf"
      /\ \/ cause'[r] \in {"ignored", "deaf"}
         \/ cause'[r] = "overtaken" /\ hash[r] # Current(r)
         \/ loaded'[r] = Current(r) /\ ~(isInit[r] /\ hash[r] # Current(r))
  BY ZenonT(60), <1>2 DEF Reload, Because, WatchInv, TypeInv, Cause
<1>4. TypeInv'
  BY <1>1, <1>3 DEF WatchInv, TypeInv
<1>5. UseInv'
  BY <1>1 DEF WatchInv, UseInv, Live
<1>6. QueueInv'
  <2>1. \A q \in Resource : cause[q] = "deaf" => cause'[q] = "deaf"
    BY <1>3
  <2> QED BY <1>1, <2>1 DEF WatchInv, QueueInv
<1>7. NoticeInv'
  <2>1. ASSUME NEW q \in Resource, Live(q)', isInit'[q], ~Excused(q)'
        PROVE  \/ loaded'[q] = hash'[q]
               \/ Pending(q)'
               \/ cause'[q] = "overtaken" /\ hash'[q] # Current(q)'
    <3>1. CASE q = r
      BY <3>1, <2>1, <1>1, <1>3 DEF Excused, Current
    <3>2. CASE q # r
      BY <3>2, <2>1, <1>1, <1>3
      DEF WatchInv, NoticeInv, Live, Excused, Pending, Current
    <3> QED BY <3>1, <3>2
  <2> QED BY <2>1, <1>1 DEF WatchInv, NoticeInv
<1> QED BY <1>4, <1>5, <1>6, <1>7 DEF WatchInv

-----------------------------------------------------------------------------

\* Every step keeps the invariant.
LEMMA NextWatch == WatchInv /\ [Next]_vars => WatchInv'
<1> SUFFICES ASSUME WatchInv, [Next]_vars PROVE WatchInv'
  OBVIOUS
<1>1. CASE Thread
  BY <1>1, AsyncUpdateStep, ReadTimeStep, ReadHashStep DEF Thread
<1>2. CASE MainStep
  BY <1>2, QuietStep, SignalStep, ReloadFrontStep, ReloadStep DEF MainStep
<1>3. CASE World
  BY <1>3, EditStep, QuietStep, LoadStep, GCStep, WatcherInitStep DEF World
<1>4. CASE UpdateWatchers \/ ReloadResources \/ UNCHANGED vars
  BY <1>4, QuietStep
<1> QED BY <1>1, <1>2, <1>3, <1>4 DEF Next

\* The inductive invariant holds at all times.
LEMMA WatchInvariant == Spec => []WatchInv
BY InitWatch, NextWatch, PTL DEF Spec

\* The bare pointer that the callback of IResource::StartWatch keeps is never
\* followed after the resource is deleted, and the reloader never visits a
\* deleted resource: whatever the number of resources and the interleaving of
\* the resource thread, the main loop and the collector.
THEOREM CallbacksAreSafe == Spec => []NoCallbackAfterDelete
BY WatchInvariant, WatchInvShows, PTL

\* A watcher is in m_dirtyWatchers exactly once while it is dirty, unless it
\* was paused when UpdateWatchers came to it: no change is signalled twice and
\* none is forgotten in the queue.
THEOREM DirtyWatchersAreQueued == Spec => []DirtyIsQueued
BY WatchInvariant, WatchInvShows, PTL

\* A change that a watcher has noticed is loaded, queued, or overtaken by a
\* newer content that the watcher has still to see.
THEOREM NoticedChangesAreLoaded == Spec => []NoticedIsLoaded
BY WatchInvariant, WatchInvShows, PTL
=============================================================================
