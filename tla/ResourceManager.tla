--------------------------- MODULE ResourceManager ---------------------------
(***************************************************************************)
(* Reference-counted resources and the thread that collects them           *)
(* (ResourceManager.cpp, IResource.cpp, ResourceInfo.cpp), with the users  *)
(* the library itself contains:                                            *)
(*   - mesh holders (IRawMeshHolder::SetRawMesh): load and add the use     *)
(*     point in one ResourceManager::Execute, that is under the lock;      *)
(*   - prefab loaders (ScenePrefabLogic::Load, Scene::InstanceFromFile):   *)
(*     load under the lock, add the use point later without it;            *)
(*   - the main thread: the global settings (Settings.h), Synchronize and  *)
(*     the shutdown in OnSingletonDestroy.                                 *)
(*                                                                         *)
(* m_mutex is held by the collector over many steps (lock = TRUE); every   *)
(* other critical section is one step that needs lock = FALSE.  What the   *)
(* code does without the lock (AddUsePoint, the flags of ForceDestroy) is  *)
(* a step that may fall inside a collection.                               *)
(***************************************************************************)
EXTENDS Integers, Sequences, FiniteSets

CONSTANTS
  Resource,      \* resource objects; each is created at most once
  Settings,      \* the GlobalSettings object, one of them
  Id,            \* resource ids
  SettingsId,    \* the id of the settings
  Revivable,     \* ids whose type says IsAllowedToRevive (RawMesh)
  Holder,        \* mesh holders
  Loader,        \* prefab loaders
  None,          \* nullptr
  LifeTime,      \* ResourceLifeTime, in collections (m_GCDt is 1)
  SyncRounds,    \* turns of the outer loop of Synchronize (255 in the code)
  MaxSyncs,      \* bound: calls of Synchronize before the shutdown
  MaxEdits       \* bound: dirty watchers the thread finds

ASSUME ObjectAssumption ==
  /\ Settings \in Resource
  /\ None \notin Resource \cup Id
  /\ SettingsId \in Id
  /\ SettingsId \notin Revivable
  /\ Revivable \subseteq Id
\* The objects of a program.
ASSUME FiniteAssumption ==
  IsFiniteSet(Resource) /\ IsFiniteSet(Holder) /\ IsFiniteSet(Loader)
ASSUME BoundAssumption ==
  /\ LifeTime \in Nat \ {0}
  /\ SyncRounds \in Nat \ {0}
  /\ MaxSyncs \in Nat
  /\ MaxEdits \in Nat

VARIABLES
  status,        \* "unborn", "live" (allocated and registered), "deleted"
  idOf,          \* m_resourceId
  uses,          \* m_countUses
  isDestroyed,   \* m_isDestroyed
  forced,        \* m_isForceDestroyed
  life,          \* m_lifetime, in collections
  destroyed,     \* m_destroyed
  force,         \* m_force
  isRun,         \* m_isRun
  lock,          \* m_mutex is held by the collecting thread
  thread,        \* where the resource thread is
  gcIt,          \* resourceIt, as an index into destroyed
  dirty,         \* elements of m_dirtyWatchers and m_dirtyResources
  edits,         \* dirty watchers found so far
  held,          \* m_rawMesh of each holder
  loader,        \* [pc, res] of each loader
  main,          \* where the main thread is
  rounds,        \* turns of Synchronize's outer loop left
  syncs,         \* calls of Synchronize so far
  age,           \* ghost: collections since it was destroyed, up to LifeTime
  restarted,     \* ghost: a collection has visited a resource twice
  fault          \* ghost: what has gone wrong, "none" if nothing

objects == <<status, idOf, uses, isDestroyed, forced, life, age>>
collector == <<lock, thread, gcIt, restarted>>
mainVars == <<main, rounds, syncs, force, isRun>>
users == <<held, loader>>
watch == <<dirty, edits>>
vars == <<objects, destroyed, collector, mainVars, users, watch, fault>>

Live(r) == status[r] = "live"
Copies(i) == {r \in Resource : Live(r) /\ idOf[r] = i}
Occurs(r, s) == \E k \in 1..Len(s) : s[k] = r
Without(s, k) == SubSeq(s, 1, k - 1) \o SubSeq(s, k + 1, Len(s))

\* Undefined behaviour ends the run: nothing is claimed of what follows.
Running == fault = "none"

Init ==
  /\ status = [r \in Resource |-> IF r = Settings THEN "live" ELSE "unborn"]
  /\ idOf = [r \in Resource |-> IF r = Settings THEN SettingsId ELSE None]
  /\ uses = [r \in Resource |-> IF r = Settings THEN 1 ELSE 0]
  /\ isDestroyed = [r \in Resource |-> FALSE]
  /\ forced = [r \in Resource |-> FALSE]
  /\ life = [r \in Resource |-> LifeTime]
  /\ age = [r \in Resource |-> 0]
  /\ destroyed = << >>
  /\ force = FALSE
  /\ isRun = TRUE
  /\ lock = FALSE
  /\ thread = "watch"
  /\ gcIt = 1
  /\ dirty = 0
  /\ edits = 0
  /\ held = [h \in Holder |-> None]
  /\ loader = [l \in Loader |-> [pc |-> "idle", res |-> None]]
  /\ main = "run"
  /\ rounds = 0
  /\ syncs = 0
  /\ restarted = FALSE
  /\ fault = "none"

-----------------------------------------------------------------------------
(* What the critical sections are made of *)

\* ReviveResource succeeds: the object is not destroyed, or its type allows
\* the revival and it is found in m_destroyed (otherwise SRHalt, and Find
\* goes on with the next copy).
CanFind(r, i) ==
  /\ r \in Copies(i)
  /\ isDestroyed[r] => i \in Revivable /\ Occurs(r, destroyed)

\* Defect: a new object is loaded without a look for an old one.
Load_NoFind(r, i) ==
  /\ status[r] = "unborn" \/ CanFind(r, i)
  /\ status' = [status EXCEPT ![r] = "live"]
  /\ idOf' = [idOf EXCEPT ![r] = i]
  /\ life' = [life EXCEPT ![r] = LifeTime]

\* Load: ResourceType::Find returns the first of the copies, in the order of a
\* hash set, that can be revived, and renews its life time; if there is none,
\* a new object is loaded and registered.  m_isForceDestroyed stays as it is.
Load(r, i) ==
  /\ \/ CanFind(r, i)
     \/ status[r] = "unborn" /\ \A c \in Resource : ~CanFind(c, i)
  /\ status' = [status EXCEPT ![r] = "live"]
  /\ idOf' = [idOf EXCEPT ![r] = i]
  /\ life' = [life EXCEPT ![r] = LifeTime]

\* Defect: the revival forgets the flag, or the entry of the list.
FlagsAfterLoad_NotCleared(r) == isDestroyed
ListAfterLoad_NotErased(r) == destroyed

\* m_isDestroyed and m_destroyed after that: a revived object is erased where
\* std::find has found it.
PlaceOf(r) ==
  CHOOSE k \in 1..Len(destroyed) :
    destroyed[k] = r /\ \A j \in 1..(k - 1) : destroyed[j] # r
FlagsAfterLoad(r) == [isDestroyed EXCEPT ![r] = FALSE]
ListAfterLoad(r) ==
  IF isDestroyed[r] THEN Without(destroyed, PlaceOf(r)) ELSE destroyed

\* IResource::Destroy under the lock: the flag, then an entry of m_destroyed
\* (SRHalt instead if it has one).
DestroyIf(cond, r, flags, list) ==
  /\ isDestroyed' = IF cond THEN [flags EXCEPT ![r] = TRUE] ELSE flags
  /\ destroyed' = IF cond /\ ~Occurs(r, list) THEN Append(list, r) ELSE list
  /\ age' = IF cond THEN [age EXCEPT ![r] = 0] ELSE age

-----------------------------------------------------------------------------
(* Mesh holders: IRawMeshHolder *)

\* SetRawMesh(path), in one Execute: Load; if the mesh is another one,
\* RemoveUsePoint of the old one and AddUsePoint of the new one.
SetRawMesh(h, r, i) ==
  LET old == held[h]
      dropped == old \notin {None, r}
  IN /\ Running /\ ~lock /\ isRun
     /\ Load(r, i)
     /\ uses' = [x \in Resource |->
                   IF x = r /\ old # r THEN uses[x] + 1
                   ELSE IF x = old /\ dropped THEN uses[x] - 1
                   ELSE uses[x]]
     /\ DestroyIf(dropped /\ uses[old] = 1 /\ ~isDestroyed[old], old,
                  FlagsAfterLoad(r), ListAfterLoad(r))
     /\ held' = [held EXCEPT ![h] = r]
     /\ UNCHANGED <<forced, collector, mainVars, loader, watch, fault>>

\* RemoveUsePoint, under the lock: the last use point destroys the resource.
RemoveUsePoint(r) ==
  /\ Running /\ ~lock
  /\ uses' = [uses EXCEPT ![r] = @ - 1]
  /\ DestroyIf(uses[r] = 1 /\ ~isDestroyed[r], r, isDestroyed, destroyed)
  /\ UNCHANGED <<status, idOf, forced, life, collector, mainVars, watch, fault>>

\* SetRawMesh(nullptr), also what the destructor does.
ClearRawMesh(h) ==
  /\ held[h] # None
  /\ RemoveUsePoint(held[h])
  /\ held' = [held EXCEPT ![h] = None]
  /\ UNCHANGED loader

-----------------------------------------------------------------------------
(* Prefab loaders: ScenePrefabLogic::Load and Scene::InstanceFromFile *)

LoaderGoto(l, pc, r) == loader' = [loader EXCEPT ![l] = [pc |-> pc, res |-> r]]

\* Prefab::Load: the lock is released before the caller has a use point.
LoaderLoad(l, r, i) ==
  /\ Running /\ ~lock /\ isRun
  /\ loader[l].pc = "idle"
  /\ Load(r, i)
  /\ isDestroyed' = FlagsAfterLoad(r)
  /\ destroyed' = ListAfterLoad(r)
  /\ LoaderGoto(l, "loaded", r)
  /\ UNCHANGED <<uses, forced, age, collector, mainVars, held, watch, fault>>

\* AddUsePoint, without the lock.  A destroyed object without uses is the
\* SRHalt "potential multi threading error"; a deleted one is a use after free.
LoaderAddUse(l) ==
  /\ Running
  /\ loader[l].pc = "loaded"
  /\ LET r == loader[l].res
     IN IF Live(r)
        THEN /\ uses' = [uses EXCEPT ![r] = @ + 1]
             /\ UNCHANGED fault
        ELSE /\ fault' = "use_after_free"
             /\ UNCHANGED uses
  /\ LoaderGoto(l, "using", loader[l].res)
  /\ UNCHANGED <<status, idOf, isDestroyed, forced, life, age, destroyed,
                 collector, mainVars, held, watch>>

\* No instance came of it: CheckResourceUsage, under the lock.
LoaderCheckUsage(l) ==
  /\ Running /\ ~lock
  /\ loader[l].pc = "loaded"
  /\ LET r == loader[l].res
     IN IF Live(r)
        THEN /\ DestroyIf(uses[r] = 0 /\ ~isDestroyed[r], r,
                          isDestroyed, destroyed)
             /\ UNCHANGED fault
        ELSE /\ fault' = "use_after_free"
             /\ UNCHANGED <<isDestroyed, destroyed, age>>
  /\ LoaderGoto(l, "idle", None)
  /\ UNCHANGED <<status, idOf, uses, forced, life, collector, mainVars, held,
                 watch>>

LoaderRemoveUse(l) ==
  /\ loader[l].pc = "using"
  /\ RemoveUsePoint(loader[l].res)
  /\ LoaderGoto(l, "idle", None)
  /\ UNCHANGED held

-----------------------------------------------------------------------------
(* The resource thread: watchers, then the collection, then m_isRun *)

ThreadGoto(pc) == thread' = pc

\* AsyncUpdateWatchers may put a watcher into m_dirtyWatchers.
ThreadWatch ==
  /\ Running
  /\ thread = "watch" /\ ThreadGoto("gc")
  /\ \/ ~lock /\ edits < MaxEdits
        /\ dirty' = dirty + 1 /\ edits' = edits + 1
     \/ UNCHANGED watch
  /\ UNCHANGED <<objects, destroyed, lock, gcIt, restarted, mainVars, users, fault>>

\* m_GCDt has not reached 500 ms (100 ms when forced).
ThreadNotYet ==
  /\ Running
  /\ thread = "gc" /\ ThreadGoto("check")
  /\ UNCHANGED <<objects, destroyed, lock, gcIt, restarted, mainVars, users,
                 watch, fault>>

\* ResourceType::CollectUnused: what is unused and not destroyed.
Unused == {r \in Resource : Live(r) /\ uses[r] = 0 /\ ~isDestroyed[r]}
Orders(S) ==
  {s \in [1..Cardinality(S) -> S] :
     \A j, k \in 1..Cardinality(S) : s[j] = s[k] => j = k}

\* GC() returns at once, or collects with the lock held.
GCBegin ==
  /\ Running
  /\ thread = "gc" /\ ~lock
  /\ IF dirty > 0 \/ destroyed = << >>
     THEN /\ ThreadGoto("check")
          /\ UNCHANGED <<objects, destroyed, lock, gcIt>>
     ELSE /\ ThreadGoto("visit")
          /\ lock' = TRUE
          /\ gcIt' = 1
          /\ LET collected == IF force THEN Unused ELSE {}
             IN /\ isDestroyed' =
                     [r \in Resource |-> isDestroyed[r] \/ r \in collected]
                /\ \E s \in Orders(collected) : destroyed' = destroyed \o s
                /\ age' = [r \in Resource |->
                             IF r \in collected THEN 0
                             ELSE IF Occurs(r, destroyed) /\ age[r] < LifeTime
                             THEN age[r] + 1
                             ELSE age[r]]
          /\ UNCHANGED <<status, idOf, uses, forced, life>>
  /\ UNCHANGED <<restarted, mainVars, users, watch, fault>>

IsLast(r) == Cardinality(Copies(idOf[r])) = 1

\* Defect: the life time of the last of an id is not waited for.
LifeAfterVisit_NotLast(r) == IF uses[r] > 0 THEN LifeTime ELSE 0

\* One turn of the loop: the life time of an unused resource runs down only
\* if it is the last of its id; without life time, when forced or when force-
\* destroyed it is freed.
LifeAfterVisit(r) ==
  IF uses[r] > 0 THEN LifeTime ELSE IF IsLast(r) THEN life[r] - 1 ELSE 0
Keep(r) ==
  uses[r] > 0 \/ (~forced[r] /\ LifeAfterVisit(r) > 0 /\ ~force)

GCVisit ==
  /\ Running
  /\ thread = "visit"
  /\ gcIt <= Len(destroyed)
  /\ LET r == destroyed[gcIt]
     IN IF ~isDestroyed[r]
        THEN /\ destroyed' = Without(destroyed, gcIt)
             /\ gcIt' = 1
             /\ UNCHANGED <<thread, life>>
        ELSE /\ life' = [life EXCEPT ![r] = LifeAfterVisit(r)]
             /\ IF Keep(r)
                THEN gcIt' = gcIt + 1 /\ UNCHANGED thread
                ELSE ThreadGoto("free") /\ UNCHANGED gcIt
             /\ UNCHANGED destroyed
  /\ UNCHANGED <<status, idOf, uses, isDestroyed, forced, age, lock, restarted,
                 mainVars, users, watch, fault>>

\* Remove, erase, DeleteResource, and from the beginning again.
GCFree ==
  /\ Running
  /\ thread = "free" /\ ThreadGoto("visit")
  /\ LET r == destroyed[gcIt]
     IN /\ status' = [status EXCEPT ![r] = "deleted"]
        /\ fault' = IF uses[r] > 0 THEN "deleted_in_use" ELSE fault
  /\ destroyed' = Without(destroyed, gcIt)
  /\ gcIt' = 1
  /\ restarted' = (restarted \/ gcIt > 1)
  /\ UNCHANGED <<idOf, uses, isDestroyed, forced, life, age, lock, mainVars,
                 users, watch>>

GCEnd ==
  /\ Running
  /\ thread = "visit"
  /\ gcIt > Len(destroyed)
  /\ ThreadGoto("check")
  /\ lock' = FALSE
  /\ UNCHANGED <<objects, destroyed, gcIt, restarted, mainVars, users, watch,
                 fault>>

ThreadCheck ==
  /\ Running
  /\ thread = "check"
  /\ ThreadGoto(IF isRun THEN "watch" ELSE "exited")
  /\ UNCHANGED <<objects, destroyed, lock, gcIt, restarted, mainVars, users,
                 watch, fault>>

-----------------------------------------------------------------------------
(* The main thread *)

MainGoto(from, to) == Running /\ main = from /\ main' = to

\* Defect: the queues are read but not popped.
MainDrain_NoPop ==
  /\ MainGoto("run", "run") /\ ~lock
  /\ dirty > 0
  /\ UNCHANGED <<objects, destroyed, collector, rounds, syncs, force, isRun,
                 users, watch, fault>>

\* UpdateWatchers and ReloadResources of a frame.
MainDrain ==
  /\ MainGoto("run", "run") /\ ~lock
  /\ dirty > 0 /\ dirty' = 0
  /\ UNCHANGED <<objects, destroyed, collector, rounds, syncs, force, isRun,
                 users, edits, fault>>

\* Defect: the settings are destroyed a second time.
SettingsRemoveUse_Again ==
  /\ MainGoto("run", "force_destroy") /\ isRun
  /\ uses' = [uses EXCEPT ![Settings] = @ - 1]
  /\ UNCHANGED <<status, idOf, isDestroyed, forced, life, age, destroyed,
                 collector, rounds, syncs, force, isRun, users, watch, fault>>

\* DestroySettings: GlobalSettings::RemoveUsePoint only decrements, without
\* the lock; ForceDestroy sets both flags without it and enters m_destroyed
\* with it; then Synchronize.
SettingsRemoveUse ==
  /\ MainGoto("run", "force_destroy")
  /\ uses[Settings] > 0 /\ isRun
  /\ uses' = [uses EXCEPT ![Settings] = @ - 1]
  /\ UNCHANGED <<status, idOf, isDestroyed, forced, life, age, destroyed,
                 collector, rounds, syncs, force, isRun, users, watch, fault>>

SettingsForceDestroy ==
  /\ IF forced[Settings] \/ isDestroyed[Settings]
     THEN MainGoto("force_destroy", "sync") /\ UNCHANGED <<forced, isDestroyed>>
     ELSE /\ MainGoto("force_destroy", "enlist")
          /\ forced' = [forced EXCEPT ![Settings] = TRUE]
          /\ isDestroyed' = [isDestroyed EXCEPT ![Settings] = TRUE]
  /\ UNCHANGED <<status, idOf, uses, life, age, destroyed, collector, rounds,
                 syncs, force, isRun, users, watch, fault>>

SettingsEnlist ==
  /\ MainGoto("enlist", "sync") /\ ~lock
  /\ DestroyIf(TRUE, Settings, isDestroyed, destroyed)
  /\ UNCHANGED <<status, idOf, uses, forced, life, collector, rounds, syncs,
                 force, isRun, users, watch, fault>>

\* Synchronize from elsewhere, and from OnSingletonDestroy after m_isRun is
\* cleared.
Synchronize ==
  /\ MainGoto("run", "sync")
  /\ syncs < MaxSyncs /\ syncs' = syncs + 1
  /\ UNCHANGED <<objects, destroyed, collector, rounds, force, isRun, users,
                 watch, fault>>

Shutdown ==
  /\ MainGoto("run", "sync")
  /\ isRun /\ isRun' = FALSE
  /\ UNCHANGED <<objects, destroyed, collector, rounds, syncs, force, users,
                 watch, fault>>

SyncBegin ==
  /\ MainGoto("sync", "wait") /\ ~lock
  /\ force' = TRUE
  /\ rounds' = SyncRounds
  /\ UNCHANGED <<objects, destroyed, collector, syncs, isRun, users, watch,
                 fault>>

\* Defect: Synchronize does not wait for m_destroyed to be empty.
SyncRound_NoWait ==
  /\ MainGoto("wait", "wait") /\ ~lock
  /\ rounds > 0
  /\ rounds' = rounds - 1
  /\ UNCHANGED <<objects, destroyed, collector, syncs, force, isRun, users,
                 watch, fault>>

\* The inner loop ends when m_destroyed is empty; a thread that has left its
\* function is still joinable, so the other way out is never taken.
SyncRound ==
  /\ MainGoto("wait", "wait") /\ ~lock
  /\ rounds > 0 /\ destroyed = << >>
  /\ rounds' = rounds - 1
  /\ UNCHANGED <<objects, destroyed, collector, syncs, force, isRun, users,
                 watch, fault>>

SyncEnd ==
  /\ MainGoto("wait", IF isRun THEN "run" ELSE "join") /\ ~lock
  /\ rounds = 0
  /\ force' = FALSE
  /\ UNCHANGED <<objects, destroyed, collector, rounds, syncs, isRun, users,
                 watch, fault>>

Join ==
  /\ MainGoto("join", "stopped")
  /\ thread = "exited"
  /\ UNCHANGED <<objects, destroyed, collector, rounds, syncs, force, isRun,
                 users, watch, fault>>

-----------------------------------------------------------------------------
GCThread ==
  \/ ThreadWatch \/ ThreadNotYet \/ GCBegin
  \/ GCVisit \/ GCFree \/ GCEnd \/ ThreadCheck

MainThread ==
  \/ MainDrain
  \/ SettingsRemoveUse \/ SettingsForceDestroy \/ SettingsEnlist
  \/ Synchronize \/ Shutdown \/ SyncBegin \/ SyncRound \/ SyncEnd \/ Join

Users ==
  \/ \E h \in Holder : ClearRawMesh(h)
  \/ \E h \in Holder, r \in Resource, i \in Revivable : SetRawMesh(h, r, i)
  \/ \E l \in Loader : LoaderAddUse(l) \/ LoaderCheckUsage(l) \/ LoaderRemoveUse(l)
  \/ \E l \in Loader, r \in Resource, i \in Id \ (Revivable \cup {SettingsId}) :
       LoaderLoad(l, r, i)

Next == GCThread \/ MainThread \/ Users

Spec == Init /\ [][Next]_vars

\* The resource thread and the main loop keep running.  The timer m_GCDt makes
\* the thread call GC() again and again: strong fairness, since the call is
\* passed by on the turns where the time has not come.
FairSpec ==
  /\ Spec
  /\ WF_vars(GCThread)
  /\ SF_vars(GCBegin)
  /\ WF_vars(MainDrain)
  /\ WF_vars(SettingsForceDestroy \/ SettingsEnlist \/ SyncBegin
              \/ SyncRound \/ SyncEnd \/ Join)

-----------------------------------------------------------------------------
(* Properties *)

TypeOK ==
  /\ status \in [Resource -> {"unborn", "live", "deleted"}]
  /\ idOf \in [Resource -> Id \cup {None}]
  /\ uses \in [Resource -> Nat]
  /\ isDestroyed \in [Resource -> BOOLEAN]
  /\ forced \in [Resource -> BOOLEAN]
  /\ life \in [Resource -> 0..LifeTime]
  /\ age \in [Resource -> 0..LifeTime]
  /\ destroyed \in Seq(Resource)
  /\ force \in BOOLEAN /\ isRun \in BOOLEAN /\ lock \in BOOLEAN
  /\ thread \in {"watch", "gc", "visit", "free", "check", "exited"}
  /\ gcIt \in Nat \ {0}
  /\ dirty \in 0..MaxEdits /\ edits \in 0..MaxEdits
  /\ held \in [Holder -> Resource \cup {None}]
  /\ loader \in [Loader -> [pc : {"idle", "loaded", "using"},
                            res : Resource \cup {None}]]
  /\ main \in {"run", "force_destroy", "enlist", "sync", "wait", "join",
               "stopped"}
  /\ rounds \in 0..SyncRounds /\ syncs \in 0..MaxSyncs
  /\ restarted \in BOOLEAN
  /\ fault \in {"none", "use_after_free", "deleted_in_use"}

\* A mesh a holder keeps is allocated, not destroyed and has a use point per
\* holder, whatever the collector, Synchronize and the loaders do meanwhile.
HeldIsAlive ==
  \A h \in Holder : held[h] # None =>
    /\ Live(held[h])
    /\ ~isDestroyed[held[h]]
    /\ uses[held[h]] = Cardinality({g \in Holder : held[g] = held[h]})

\* Whenever the lock is free, m_destroyed lists exactly the allocated
\* resources whose m_isDestroyed is set, each once.  So neither SRHalt of
\* Destroy and ReviveResource is reached, and GC never meets a revived one.
\* The exception is the settings object between the flags and the lock of
\* ForceDestroy.
ListMatchesFlags ==
  /\ \A r \in Resource :
       Occurs(r, destroyed) <=>
         /\ Live(r) /\ isDestroyed[r]
         /\ ~(r = Settings /\ main = "enlist")
  /\ \A j, k \in 1..Len(destroyed) : destroyed[j] = destroyed[k] => j = k

\* The cache never holds two current objects of one id: Load creates one only
\* when no copy can be found.
OneCurrentCopy ==
  \A r, s \in Resource :
    Live(r) /\ Live(s) /\ ~isDestroyed[r] /\ ~isDestroyed[s]
      /\ idOf[r] = idOf[s] => r = s

\* DestroySettings returns only when the settings object is gone (the comment
\* in Settings.h: forced, so as not to wait for the end of its life time).
SettingsAreGone ==
  main \in {"run", "join", "stopped"} /\ uses[Settings] = 0 =>
    status[Settings] = "deleted"

\* As long as the main loop comes round, a destroyed resource without uses is
\* collected, revived or used again: the dirty watchers that hold up GC() do
\* not hold it up for ever.
UnusedIsCollected ==
  []<>(main = "run") =>
    \A r \in Resource :
      (Live(r) /\ isDestroyed[r] /\ uses[r] = 0 /\ Running) ~>
        (~Live(r) \/ ~isDestroyed[r] \/ uses[r] > 0 \/ ~Running)

\* SRHalt("... potential multi threading error!") in AddUsePoint, and worse,
\* is never reached: the code's own claim.
LoadedIsUsable ==
  \A l \in Loader : loader[l].pc = "loaded" =>
    LET r == loader[l].res IN Live(r) /\ ~(uses[r] = 0 /\ isDestroyed[r])

\* OnSingletonDestroy ends: Synchronize returns or notices that the resource
\* thread is dead.
ShutdownEnds == ~isRun ~> main = "stopped"

\* A resource that is the last of its id and not force-destroyed waits out
\* ResourceLifeTime before a collection that is not forced frees it.  This
\* takes the condition that no collection has begun again at the front of the
\* list after it freed something further back: such a collection lowers the
\* life time of the resources in front once more for the same m_GCDt.
LifeTimeIsWaitedOut ==
  thread = "free" /\ ~restarted =>
    LET r == destroyed[gcIt]
    IN force \/ forced[r] \/ ~IsLast(r) \/ age[r] >= LifeTime
=============================================================================
