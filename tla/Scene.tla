-------------------------------- MODULE Scene --------------------------------
(***************************************************************************)
(* A scene, its tree of objects and the components on them (Scene.cpp,     *)
(* SceneUpdater.cpp, IComponentable.cpp, SceneObject.cpp, Component.cpp).  *)
(*                                                                         *)
(* A frame is Prepare, Build and Update.  They walk over objects and       *)
(* components and call back into the application, and a callback may call  *)
(* every operation of the scene: the walk is a list of places still to     *)
(* visit (work), and the application may act between frames and after     *)
(* each callback (calling).  Boolean members are sets of those for which   *)
(* the member is true.                                                     *)
(***************************************************************************)
EXTENDS Naturals, FiniteSets, SequencesExt

CONSTANTS
  Object,        \* scene objects; each is created at most once
  Component,     \* components; each is added at most once
  Scene,         \* the scene, which is an IComponentable too
  Null,          \* nullptr
  Loads,         \* scenes a program starts with, see Init
  EditMode,      \* components whose ExecuteInEditMode is true
  Pauses,        \* values of isPaused the program calls Build and Update with
  MaxCalls       \* bound: operations the application calls

Host == Object \cup {Scene}

ASSUME PartsAssumption ==
  /\ Scene \notin Object \cup Component
  /\ Null \notin Host \cup Component
  /\ Object \cap Component = {}
  /\ IsFiniteSet(Object) /\ IsFiniteSet(Component)
  /\ EditMode \subseteq Component
  /\ Pauses \subseteq BOOLEAN
  /\ MaxCalls \in Nat

\* Lists that hold no element twice, neither in one list nor in two.
Disjoint(lists) ==
  \A g, h \in DOMAIN lists : \A i \in DOMAIN lists[g], j \in DOMAIN lists[h] :
    lists[g][i] = lists[h][j] => g = h /\ i = j

\* A loaded scene is a forest of registered objects.
ASSUME LoadsAssumption ==
  /\ Loads \subseteq [queue : Seq(Object), children : [Object -> Seq(Object)],
                     comps : [Host -> Seq(Component)]]
  /\ \A load \in Loads :
       /\ \A j, k \in DOMAIN load.queue : load.queue[j] = load.queue[k] => j = k
       /\ Disjoint(load.children) /\ Disjoint(load.comps)
       /\ \A o \in Object :
            /\ ToSet(load.children[o]) \subseteq ToSet(load.queue)
            /\ o \notin ToSet(load.queue) => load.children[o] = <<>> /\ load.comps[o] = <<>>
       /\ \A S \in SUBSET Object : S # {} =>
            \E o \in S : \A p \in S : ~Contains(load.children[p], o)

VARIABLES
  created, destroyed, freed,      \* objects; m_isDestroyed; after DestroyImpl
  children,      \* m_children
  comps,         \* m_components of each host
  host,          \* m_parent of each component
  added,         \* components there have been
  attached, awake, started,       \* m_isAttached, m_isAwake, m_isStarted
  enabled, active,                \* m_isEnabled, m_isActive (objects, components)
  dirty,         \* m_dirty of each host
  unattached,    \* m_hasNotAttachedComponents
  slots, freeIndices,             \* m_sceneObjects, m_freeObjIndices
  newQueue, deleteQueue,          \* m_newQueue, m_deleteQueue
  idInScene,     \* m_idInScene, 0 for SR_ID_INVALID
  deadComps,     \* m_destroyedComponents
  root, changed, \* m_root, m_isHierarchyChanged
  life,          \* of the scene: "alive", "destroying", "destroyed"
  updaterDirty,  \* SceneUpdater::m_dirty
  pool, freeIds, \* m_updatableComponents, m_freeComponentIds
  index,         \* m_indexInSceneUpdater, 0 for SR_ID_INVALID
  pc,            \* where the frame is
  work,          \* places Build has still to visit, in order
  cursor,        \* i in Update
  paused,        \* isPaused of this frame
  calling,       \* the component whose callback is running
  calls,         \* operations called so far
  lost,          \* ghost: hosts whose change was not recorded, see Overtaken
  blocked,       \* ghost: hosts that such a change keeps dirty, see Block
  late,          \* ghost: objects destroyed by a callback of OnDestroy
  halts          \* ghost: assertions that have failed

tree == <<created, destroyed, freed, children>>
parts == <<comps, host, added, attached, awake, started>>
flags == <<enabled, active>>
marks == <<dirty, unattached, updaterDirty>>
table == <<slots, freeIndices, newQueue, idInScene>>
graves == <<deleteQueue, deadComps>>
roots == <<root, changed>>
updater == <<pool, freeIds, index>>
control == <<pc, work, cursor, paused, calling, life>>
ghosts == <<calls, lost, blocked, late, halts>>
vars == <<tree, parts, flags, marks, table, graves, roots, updater, control,
          ghosts>>

-----------------------------------------------------------------------------
(* Lists.                                                                  *)

\* The lists of the elements of S that are in order.
InOrder(S, before(_, _)) ==
  {q \in SetToSeqs(S) : \A j, k \in DOMAIN q : j < k => before(q[j], q[k])}

\* What a list keeps of its elements: the only member of the set.
Kept(s, S) ==
  {[k \in DOMAIN q |-> s[q[k]]] :
     q \in InOrder({i \in DOMAIN s : s[i] \in S}, LAMBDA i, j : i < j)}

Position(s, x) == CHOOSE i \in DOMAIN s : s[i] = x

Erase(s, x) == RemoveAt(s, Position(s, x))

-----------------------------------------------------------------------------
(* The tree.                                                               *)

Parent(o) ==
  IF \E p \in Object : Contains(children[p], o)
  THEN CHOOSE p \in Object : Contains(children[p], o)
  ELSE Null

\* h and the objects above it: what every set has that has h and with an
\* object its parent.
Up(h) ==
  {x \in Host : \A S \in SUBSET Host :
     h \in S /\ (\A y \in S : Parent(y) # Null => Parent(y) \in S) => x \in S}

Below(o) == {x \in Object : o \in Up(x)}

Top(o) == CHOOSE x \in Up(o) : Parent(x) = Null

\* Defect: the children are not destroyed with the object.
Preorder_Shallow(o) == {<<o>>}

\* The order in which SceneObject::Destroy goes through a subtree: what is
\* above first, and what is below a child before what is below a later one.
Preorder(o) ==
  InOrder(Below(o), LAMBDA x, y :
    \/ x \in Up(y)
    \/ \E p \in Object : \E i, j \in DOMAIN children[p] :
         i < j /\ children[p][i] \in Up(x) /\ children[p][j] \in Up(y))

Usable(h) ==
  IF h = Scene THEN life = "alive" ELSE h \in created \ destroyed

\* Defect: the scene is not taken for active.
IsActive_Object(h) == h \in active \ destroyed

IsActive(h) == h = Scene \/ h \in active \ destroyed

-----------------------------------------------------------------------------
(* Dirty flags: set upwards, cleared downwards.                            *)

\* Defect: the parents are not marked.
Climb_Once(h) == {h}

\* Those that SetDirty(true) marks: it stops at the first that is marked.
Climb(h) == {x \in Up(h) : \A y \in Up(h) : x \in Up(y) => y \notin dirty}

SetDirtyTrue(h) ==
  /\ dirty' = dirty \cup Climb(h)
  /\ updaterDirty' = (updaterDirty \/ h = Scene \/ Top(h) \in Climb(h))

\* Build has yet to clear the flags of h, and will do so after it has decided
\* about what a callback changes now.
Overtaken(h) ==
  \E k \in DOMAIN work :
    /\ work[k].phase = "Start" /\ work[k].at = 0 /\ ~work[k].force
    /\ work[k].host \in Up(h)

Lose(hosts, really) == lost' = IF really THEN lost \cup hosts ELSE lost

\* A host below which components wait to be attached, or that was moved, and
\* that Build will not come back to.
Block(hosts, really) == blocked' = IF really THEN blocked \cup hosts ELSE blocked

\* x stays dirty: a component of x, or below x, is not attached yet.
Stuck(x) == \E y \in Below(x) : y \in unattached /\ Up(y) \cap Below(x) \subseteq dirty

\* Those that SetDirty(false) on o clears: it does not go below a host with
\* components to attach, nor past a child that stays dirty.
Cleaned(o) ==
  LET Reached(x) ==
        \A a \in Up(x) \cap Below(o) :
          /\ a \in dirty
          /\ a # x => a \notin unattached
          /\ a # o =>
               \A j \in 1..(Position(children[Parent(a)], a) - 1) :
                 ~Stuck(children[Parent(a)][j])
  IN  {x \in Below(o) : Reached(x) /\ ~Stuck(x)}

\* Defect: Start does not clear the flag.
SetDirtyFalse_Kept(h) ==
  updaterDirty' = (updaterDirty \/ h = Scene) /\ UNCHANGED dirty

SetDirtyFalse(h) ==
  IF h = Scene
  THEN /\ dirty' = IF Scene \in unattached THEN dirty \cup {Scene} ELSE dirty \ {Scene}
       /\ updaterDirty' = TRUE
  ELSE /\ dirty' = dirty \ Cleaned(h)
       /\ UNCHANGED updaterDirty

-----------------------------------------------------------------------------
(* The updater's pool.                                                     *)

RegisterComponent(c) ==
  /\ updaterDirty' = TRUE
  /\ halts' = IF index[c] # 0 THEN halts \cup {"double registration"} ELSE halts
  /\ IF freeIds = <<>>
     THEN /\ index' = [index EXCEPT ![c] = Len(pool) + 1]
          /\ pool' = Append(pool, c)
          /\ UNCHANGED freeIds
     ELSE /\ index' = [index EXCEPT ![c] = Head(freeIds)]
          /\ pool' = [pool EXCEPT ![Head(freeIds)] = c]
          /\ freeIds' = Tail(freeIds)

\* UnRegisterComponent for each of the sequence cs.
UnRegister(cs) ==
  /\ index' = [c \in Component |-> IF Contains(cs, c) THEN 0 ELSE index[c]]
  /\ freeIds' = freeIds \o [k \in DOMAIN cs |-> index[cs[k]]]
  /\ pool' = [i \in DOMAIN pool |->
                IF \E c \in ToSet(cs) : index[c] = i THEN Null ELSE pool[i]]
  /\ halts' = IF \A c \in ToSet(cs) : index[c] \in DOMAIN pool
              THEN halts ELSE halts \cup {"invalid index"}

InPool == {c \in Component : index[c] # 0}

\* Defect: OnDetached leaves the component in the pool.
DestroyComponent_Pooled(cs) ==
  /\ attached' = attached \ ToSet(cs)
  /\ deadComps' = deadComps \o cs
  /\ UNCHANGED <<updater, halts>>

\* DestroyComponent for each of cs, but for the host's dirty flag.
DestroyComponent(cs) ==
  /\ \E gone \in Kept(cs, attached \cap InPool) : UnRegister(gone)
  /\ attached' = attached \ ToSet(cs)
  /\ deadComps' = deadComps \o cs

-----------------------------------------------------------------------------
\* A scene as Scene::Empty or Scene::Load leaves it: its objects are
\* registered and wait in the new queue, nothing is attached.
Init ==
  \E load \in Loads :
    /\ newQueue = load.queue /\ created = ToSet(load.queue)
    /\ children = load.children
    /\ comps = load.comps
    /\ added = UNION {ToSet(load.comps[h]) : h \in Host}
    /\ host = [c \in Component |->
                 IF \E h \in Host : Contains(load.comps[h], c)
                 THEN CHOOSE h \in Host : Contains(load.comps[h], c) ELSE Null]
    /\ unattached = {h \in Host : load.comps[h] # <<>>}
    /\ changed = (load.queue # <<>>)
    /\ updaterDirty = (load.queue # <<>> \/ load.comps[Scene] # <<>>)
    /\ destroyed = {} /\ freed = {}
    /\ attached = {} /\ awake = {} /\ started = {}
    /\ enabled = Object \cup Component /\ active = {}
    /\ dirty = Host
    /\ slots = <<>> /\ freeIndices = <<>> /\ deleteQueue = <<>> /\ deadComps = <<>>
    /\ idInScene = [o \in Object |-> 0]
    /\ root = <<>> /\ life = "alive"
    /\ pool = <<>> /\ freeIds = <<>> /\ index = [c \in Component |-> 0]
    /\ pc = "idle" /\ work = <<>> /\ cursor = 1 /\ paused = FALSE /\ calling = Null
    /\ calls = 0 /\ lost = {} /\ blocked = {} /\ late = {} /\ halts = {}

-----------------------------------------------------------------------------
(* Operations of the application, between frames or from a callback.       *)

MayCall ==
  /\ halts = {}
  /\ pc = "idle" \/ calling # Null
  /\ calls < MaxCalls
  /\ calls' = calls + 1

\* The loop over the children of p is under way: changing them now would
\* invalidate its iterators.
Iterated(p) ==
  \E k \in DOMAIN work :
    work[k].force /\ work[k].host # p /\ p \in Up(work[k].host)

InstanceGameObject(o) ==
  /\ MayCall
  /\ o \notin created
  /\ life = "alive"
  /\ created' = created \cup {o}
  /\ newQueue' = Append(newQueue, o)
  /\ SetDirtyTrue(Scene)
  /\ Lose({Scene}, Overtaken(Scene))
  /\ changed' = TRUE
  /\ UNCHANGED <<destroyed, freed, children, parts, flags, unattached, slots,
                 freeIndices, idInScene, graves, root, updater, control, blocked, late,
                 halts>>

AddComponent(h, c) ==
  /\ MayCall
  /\ Usable(h)
  /\ c \notin added
  /\ added' = added \cup {c}
  /\ comps' = [comps EXCEPT ![h] = Append(@, c)]
  /\ host' = [host EXCEPT ![c] = h]
  /\ unattached' = unattached \cup {h}
  /\ SetDirtyTrue(h)
  /\ Lose({h}, Overtaken(h))
  /\ Block(Up(h), Overtaken(h))
  /\ UNCHANGED <<tree, attached, awake, started, flags, table, graves, roots,
                 updater, control, late, halts>>

RemoveComponent(h, c) ==
  /\ MayCall
  /\ Usable(h)
  /\ Contains(comps[h], c)
  /\ comps' = [comps EXCEPT ![h] = Erase(@, c)]
  /\ DestroyComponent(<<c>>)
  /\ dirty' = dirty \cup Climb(h)
  /\ updaterDirty' = (updaterDirty \/ h = Scene \/ Top(h) \in Climb(h)
                     \/ (c \in attached /\ index[c] # 0))
  /\ Lose({h}, Overtaken(h))
  /\ Block(Up(h), h \in unattached /\ comps[h] = <<c>>)
  /\ UNCHANGED <<tree, host, added, awake, started, flags, unattached, table,
                 deleteQueue, roots, control, late>>

Toggle(x) ==
  enabled' = IF x \in enabled THEN enabled \ {x} ELSE enabled \cup {x}

SetComponentEnabled(c) ==
  /\ MayCall
  /\ host[c] # Null
  /\ Toggle(c)
  /\ SetDirtyTrue(host[c])
  /\ Lose({host[c]}, Overtaken(host[c]))
  /\ UNCHANGED <<tree, parts, active, unattached, table, graves, roots, updater,
                 control, blocked, late, halts>>

SetObjectEnabled(o) ==
  /\ MayCall
  /\ Usable(o)
  /\ Toggle(o)
  /\ SetDirtyTrue(o)
  /\ Lose({o}, Overtaken(o))
  /\ UNCHANGED <<tree, parts, active, unattached, table, graves, roots, updater,
                 control, blocked, late, halts>>

\* RemoveChild: SetParent marks nothing.
MoveToRoot(o) ==
  /\ MayCall
  /\ Usable(o)
  /\ Parent(o) # Null
  /\ ~Iterated(Parent(o))
  /\ children' = [children EXCEPT ![Parent(o)] = Erase(@, o)]
  /\ changed' = TRUE
  /\ Lose({o}, TRUE)
  /\ Block({o}, Overtaken(o) \/ Up(o) \cap blocked # {})
  /\ UNCHANGED <<created, destroyed, freed, parts, flags, marks, table, graves,
                 root, updater, control, late, halts>>

MoveToTree(o, p) ==
  /\ MayCall
  /\ Usable(o) /\ Usable(p)
  /\ p \notin Below(o) /\ p # Parent(o)
  /\ \A q \in {p, Parent(o)} \cap Object : ~Iterated(q)
  /\ children' = [q \in Object |->
                    IF q = p THEN Append(children[q], o)
                    ELSE IF q = Parent(o) THEN Erase(children[q], o) ELSE children[q]]
  /\ changed' = TRUE
  /\ SetDirtyTrue(p)
  /\ Lose({o}, Overtaken(p) \/ (o \in active /\ p \notin active))
  /\ Block(Up(p), Overtaken(p) \/ o \in blocked)
  /\ UNCHANGED <<created, destroyed, freed, parts, flags, unattached, table,
                 graves, root, updater, control, late, halts>>

\* The object has been given a slot.
InTable(o) == idInScene[o] \in DOMAIN slots

\* SceneObject::Destroy and Scene::Remove for o and the objects below it.
Bury(o) ==
  \E q \in Preorder(o) : \E inTable \in Kept(q, {x \in Object : InTable(x)}) :
    LET Known(x) == IF InTable(x) THEN slots[idInScene[x]] = x ELSE Contains(newQueue, x)
    IN  /\ destroyed' = destroyed \cup ToSet(q)
        /\ children' = [x \in Object |->
                          IF Contains(q, x) THEN <<>>
                          ELSE IF x = Parent(o) THEN Erase(children[x], o) ELSE children[x]]
        /\ deleteQueue' = deleteQueue \o q
        /\ slots' = [i \in DOMAIN slots |->
                       IF \E x \in ToSet(inTable) : idInScene[x] = i THEN Null ELSE slots[i]]
        /\ freeIndices' = freeIndices \o [k \in DOMAIN inTable |-> idInScene[inTable[k]]]
        /\ newQueue' \in Kept(newQueue, Object \ ToSet(q))
        /\ changed' = TRUE
        /\ halts' = halts \cup (IF \A x \in ToSet(q) : x \notin destroyed /\ Known(x)
                                THEN {} ELSE {"not in the scene"})

Destroy(o) ==
  /\ MayCall
  /\ Usable(o)
  /\ \A x \in (Below(o) \cup {Parent(o)}) \cap Object : ~Iterated(x)
  /\ Bury(o)
  /\ SetDirtyTrue(Scene)
  /\ Lose({Scene}, Overtaken(Scene))
  /\ late' = IF pc = "destroy" THEN late \cup Below(o) ELSE late
  /\ UNCHANGED <<created, freed, parts, flags, unattached, idInScene, deadComps,
                 root, updater, control, blocked>>

-----------------------------------------------------------------------------
(* Prepare.                                                                *)

\* Defect: a slot that is taken stays on the free list.
FreeAfter_Kept(n) == freeIndices

\* The free list when the first n slots of it have been taken.
FreeAfter(n) == SubSeq(freeIndices, n + 1, Len(freeIndices))

\* Objects of the new queue take the free slots in order, then new ones.
PrepareBegin ==
  LET reused == IF Len(newQueue) < Len(freeIndices) THEN Len(newQueue) ELSE Len(freeIndices)
      IdOf(k) == IF k <= reused THEN freeIndices[k] ELSE Len(slots) + k - reused
      ids == [o \in Object |-> IF Contains(newQueue, o)
                               THEN IdOf(Position(newQueue, o))
                               ELSE idInScene[o]]
      busy == deleteQueue # <<>> \/ newQueue # <<>> \/ deadComps # <<>>
      Before(c, d) == \E i, j \in DOMAIN deleteQueue :
                        LET on == comps[deleteQueue[i]]
                        IN  IF i = j
                            THEN \E k, l \in DOMAIN on : k < l /\ on[k] = c /\ on[l] = d
                            ELSE i < j /\ Contains(on, c) /\ Contains(comps[deleteQueue[j]], d)
      condemned == UNION {ToSet(comps[o]) : o \in ToSet(deleteQueue)}
  IN  /\ halts = {}
      /\ pc \in {"idle", "prepare"}
      /\ life = "alive" \/ (root = <<>> /\ newQueue = <<>>)
      /\ pc' = "destroy"
      /\ idInScene' = ids
      /\ slots' = [i \in 1..(Len(slots) + Len(newQueue) - reused) |->
                     IF \E k \in DOMAIN newQueue : IdOf(k) = i
                     THEN newQueue[CHOOSE k \in DOMAIN newQueue : IdOf(k) = i]
                     ELSE slots[i]]
      /\ freeIndices' = FreeAfter(reused)
      /\ newQueue' = <<>>
      /\ \E gone \in InOrder(condemned, Before) : DestroyComponent(gone)
      /\ comps' = [h \in Host |-> IF Contains(deleteQueue, h) THEN <<>> ELSE comps[h]]
      /\ dirty' = dirty \cup (IF busy THEN {Scene} ELSE {})
                        \cup {h \in Object : Contains(deleteQueue, h) /\ comps[h] # <<>>}
      /\ updaterDirty' = (updaterDirty \/ busy)
      /\ changed' = (changed \/ busy)
      /\ UNCHANGED <<tree, host, added, awake, started, flags, unattached, deleteQueue,
                     root, work, cursor, paused, calling, life, calls, lost, blocked, late>>

\* OnDestroy of the next component.
PrepareOnDestroy ==
  /\ halts = {}
  /\ pc = "destroy"
  /\ deadComps # <<>>
  /\ host' = [host EXCEPT ![Head(deadComps)] = Null]
  /\ deadComps' = Tail(deadComps)
  /\ calling' = Head(deadComps)
  /\ UNCHANGED <<tree, comps, added, attached, awake, started, flags, marks, table,
                 deleteQueue, roots, updater, pc, work, cursor, paused, life, ghosts>>

\* DestroyImpl of the destroyed objects; the end of Scene::Destroy if it was
\* what called Prepare.
PrepareEnd ==
  LET gone == ToSet(deleteQueue)
      held == \E o \in gone : comps[o] # <<>>
      left == life = "destroying" /\ Len(slots) # Len(freeIndices)
  IN  /\ halts = {}
      /\ pc = "destroy"
      /\ deadComps = <<>>
      /\ freed' = freed \cup gone
      /\ deleteQueue' = <<>>
      /\ calling' = Null
      /\ halts' = halts \cup (IF held THEN {"components held"} ELSE {})
                        \cup (IF left THEN {"objects left"} ELSE {})
      /\ IF life = "destroying"
         THEN /\ life' = "destroyed" /\ changed' = TRUE /\ pc' = "end"
         ELSE /\ pc' = "prepared" /\ UNCHANGED <<life, changed>>
      /\ UNCHANGED <<created, destroyed, children, parts, flags, marks, table,
                     deadComps, root, updater, work, cursor, paused, calls, lost, blocked,
                     late>>

-----------------------------------------------------------------------------
(* Build.                                                                  *)

Phases == {"PostLoad", "Awake", "CheckActivity", "Start"}

\* A place of the walk: a host to visit (at = 0), or the component of it that
\* has index at in m_components.
Place(phase, h, force, at) == [phase |-> phase, host |-> h, force |-> force, at |-> at]

\* The objects without a parent, in the order of the table: the only member of
\* the set.  Defect: empty slots are not passed over.
GetRootSceneObjects_Empty ==
  IF changed THEN Kept(slots, {o \in Object \cup {Null} : Parent(o) = Null}) ELSE {root}

GetRootSceneObjects ==
  IF changed THEN Kept(slots, {o \in Object : Parent(o) = Null}) ELSE {root}

\* The four loops over the objects of the list hs.
Walk(hs) ==
  LET Loop(phase) == [k \in DOMAIN hs |-> Place(phase, hs[k], FALSE, 0)]
  IN  Loop("PostLoad") \o Loop("Awake") \o Loop("CheckActivity") \o Loop("Start")

BuildBegin ==
  /\ halts = {}
  /\ pc = "prepared"
  /\ \E isPaused \in Pauses : paused' = isPaused
  /\ IF updaterDirty
     THEN /\ root' \in GetRootSceneObjects
          /\ changed' = FALSE
          /\ work' = Walk(<<Scene>>) \o Walk(root')
          /\ updaterDirty' = FALSE
     ELSE UNCHANGED <<roots, work, updaterDirty>>
  /\ pc' = "build"
  /\ UNCHANGED <<tree, parts, flags, dirty, unattached, table, graves, updater,
                 cursor, calling, life, ghosts>>

\* Defect: the children are visited only when dirty.
Children_Unforced(phase, h) ==
  IF h = Scene THEN <<>>
  ELSE [k \in DOMAIN children[h] |-> Place(phase, children[h][k], FALSE, 0)]

\* What comes after the components of h: its children, all of them forced.
Children(phase, h) ==
  IF h = Scene THEN <<>>
  ELSE [k \in DOMAIN children[h] |-> Place(phase, children[h][k], TRUE, 0)]

Enter(phase, h, withComponents) ==
  work' = IF withComponents /\ comps[h] # <<>>
          THEN <<[Head(work) EXCEPT !.at = 1]>> \o Tail(work)
          ELSE Children(phase, h) \o Tail(work)

\* Step to a host: the guards of the four methods, what they change of the
\* host, and where they go on.
Visit ==
  LET phase == Head(work).phase
      h == Head(work).host
      reached == Head(work).force \/ h \in dirty
      nowActive == h \in enabled /\ (Parent(h) = Null \/ Parent(h) \in active)
  IN  /\ halts = {}
      /\ pc = "build"
      /\ work # <<>>
      /\ Head(work).at = 0
      /\ calling' = Null
      /\ \/ /\ ~reached \/ (phase = "Awake" /\ h # Scene /\ h \notin enabled)
            /\ work' = Tail(work)
            /\ UNCHANGED <<active, dirty, updaterDirty>>
         \/ /\ reached
            /\ phase = "PostLoad" \/ (phase = "Awake" /\ h \in enabled \cup {Scene})
            /\ Enter(phase, h, TRUE)
            /\ UNCHANGED <<active, dirty, updaterDirty>>
         \/ /\ reached /\ phase = "CheckActivity"
            /\ active' = IF h = Scene THEN active
                         ELSE IF nowActive THEN active \cup {h} ELSE active \ {h}
            /\ IF h # Scene /\ ~nowActive /\ h \notin active
               THEN work' = Tail(work)
               ELSE Enter(phase, h, TRUE)
            /\ UNCHANGED <<dirty, updaterDirty>>
         \/ /\ reached /\ phase = "Start"
            /\ SetDirtyFalse(h)
            /\ Enter(phase, h, IsActive(h))
            /\ UNCHANGED active
      /\ UNCHANGED <<tree, parts, enabled, unattached, table, graves, roots,
                     updater, pc, cursor, paused, life, ghosts>>

\* Component::CheckActivity.
CheckActivity(c) ==
  LET now == c \in enabled /\ (host[c] = Scene \/ IsActive(host[c]))
  IN  \/ /\ now = (c \in active)
         /\ calling' = Null
         /\ UNCHANGED <<active, updater, updaterDirty, halts>>
      \/ /\ now /\ c \notin active
         /\ active' = active \cup {c}
         /\ RegisterComponent(c)
         /\ calling' = c
      \/ /\ ~now /\ c \in active
         /\ active' = active \ {c}
         /\ IF c \in InPool THEN UnRegister(<<c>>) /\ updaterDirty' = TRUE
            ELSE UNCHANGED <<updater, updaterDirty, halts>>
         /\ calling' = c

\* The method of a phase on the next component of the host, or none.
CallComponent ==
  LET phase == Head(work).phase
      h == Head(work).host
      c == comps[h][Head(work).at]
      live == c \in attached
      skipped == paused /\ c \notin EditMode
  IN  /\ halts = {}
      /\ pc = "build"
      /\ work # <<>>
      /\ Head(work).at \in DOMAIN comps[h]
      /\ work' = <<[Head(work) EXCEPT !.at = @ + 1]>> \o Tail(work)
      /\ \/ /\ phase = "PostLoad"
            /\ attached' = attached \cup {c}
            /\ calling' = IF live THEN Null ELSE c
            /\ UNCHANGED <<awake, started, active, updater, updaterDirty, lost, halts>>
         \/ /\ phase = "Awake"
            /\ LET woken == live /\ c \in enabled /\ ~skipped /\ c \notin awake
               IN  /\ awake' = IF woken THEN awake \cup {c} ELSE awake
                   /\ calling' = IF woken THEN c ELSE Null
                   /\ lost' = IF skipped /\ c \notin awake THEN lost \cup {h} ELSE lost
            /\ UNCHANGED <<attached, started, active, updater, updaterDirty, halts>>
         \/ /\ phase = "CheckActivity"
            /\ IF live /\ c \in awake
               THEN CheckActivity(c)
               ELSE calling' = Null /\ UNCHANGED <<active, updater, updaterDirty, halts>>
            /\ UNCHANGED <<attached, awake, started, lost>>
         \/ /\ phase = "Start"
            /\ LET due == live /\ {c} \subseteq enabled \cap awake /\ c \notin started
               IN  /\ started' = IF due THEN started \cup {c} ELSE started
                   /\ calling' = IF due THEN c ELSE Null
            /\ UNCHANGED <<attached, awake, active, updater, updaterDirty, lost, halts>>
      /\ UNCHANGED <<tree, comps, host, added, enabled, dirty, unattached, table, graves,
                     roots, pc, cursor, paused, life, calls, blocked, late>>

\* The end of the loop over the components of a host.
LeaveComponents ==
  LET phase == Head(work).phase
      h == Head(work).host
  IN  /\ halts = {}
      /\ pc = "build"
      /\ work # <<>>
      /\ Head(work).at \notin {0} \cup DOMAIN comps[h]
      /\ work' = Children(phase, h) \o Tail(work)
      /\ unattached' = IF phase = "PostLoad" THEN unattached \ {h} ELSE unattached
      /\ calling' = Null
      /\ UNCHANGED <<tree, parts, flags, dirty, updaterDirty, table, graves, roots,
                     updater, pc, cursor, paused, life, ghosts>>

BuildEnd ==
  /\ halts = {}
  /\ pc = "build"
  /\ work = <<>>
  /\ pc' = "update"
  /\ cursor' = 1
  /\ calling' = Null
  /\ UNCHANGED <<tree, parts, flags, marks, table, graves, roots, updater, work,
                 paused, life, ghosts>>

-----------------------------------------------------------------------------
(* Update, FixedUpdate and LateUpdate, which are the same loop.            *)

Update ==
  /\ halts = {}
  /\ pc = "update"
  /\ cursor \in DOMAIN pool
  /\ cursor' = cursor + 1
  /\ calling' = IF paused /\ pool[cursor] \notin EditMode THEN Null ELSE pool[cursor]
  /\ UNCHANGED <<tree, parts, flags, marks, table, graves, roots, updater, pc,
                 work, paused, life, ghosts>>

UpdateEnd ==
  /\ halts = {}
  /\ pc = "update"
  /\ cursor \notin DOMAIN pool
  /\ pc' = "idle"
  /\ cursor' = 1
  /\ paused' = FALSE
  /\ calling' = Null
  /\ UNCHANGED <<tree, parts, flags, marks, table, graves, roots, updater, work,
                 life, ghosts>>

-----------------------------------------------------------------------------
(* Scene::Destroy, which ends with a Prepare.                              *)

SceneDestroy ==
  /\ halts = {}
  /\ pc = "idle"
  /\ life = "alive"
  /\ life' = "destroying"
  /\ pc' = "prepare"
  /\ DestroyComponent(comps[Scene])
  /\ IF comps[Scene] # <<>>
     THEN dirty' = dirty \cup {Scene} /\ updaterDirty' = TRUE
     ELSE UNCHANGED <<dirty, updaterDirty>>
  /\ comps' = [comps EXCEPT ![Scene] = <<>>]
  /\ root' \in GetRootSceneObjects
  /\ UNCHANGED <<tree, host, added, awake, started, flags, unattached, table, deleteQueue,
                 changed, work, cursor, paused, calling, calls, lost, blocked, late>>

\* The next root object, then the next object that is still new.  (m_root
\* itself keeps its elements; nothing reads it again.)
SceneDestroyObject ==
  /\ halts = {}
  /\ pc = "prepare"
  /\ LET o == IF root # <<>> THEN Head(root) ELSE Head(newQueue)
     IN  /\ root # <<>> \/ newQueue # <<>>
         /\ Bury(o)
  /\ root' = IF root # <<>> THEN Tail(root) ELSE root
  /\ SetDirtyTrue(Scene)
  /\ Lose({Scene}, Overtaken(Scene))
  /\ UNCHANGED <<created, freed, parts, flags, unattached, idInScene, deadComps,
                 updater, control, calls, blocked, late>>

-----------------------------------------------------------------------------
Application ==
  \/ \E o \in Object : \/ InstanceGameObject(o)
                       \/ SetObjectEnabled(o)
                       \/ MoveToRoot(o)
                       \/ Destroy(o)
                       \/ \E p \in Object : MoveToTree(o, p)
  \/ \E h \in Host, c \in Component : AddComponent(h, c) \/ RemoveComponent(h, c)
  \/ \E c \in Component : SetComponentEnabled(c)

Frame ==
  \/ PrepareBegin \/ PrepareOnDestroy \/ PrepareEnd
  \/ BuildBegin \/ Visit \/ CallComponent \/ LeaveComponents \/ BuildEnd
  \/ Update \/ UpdateEnd
  \/ SceneDestroyObject

Next == Application \/ Frame \/ SceneDestroy

Spec == Init /\ [][Next]_vars

FairSpec == Spec /\ WF_vars(Frame)

-----------------------------------------------------------------------------
\* Every variable keeps its type; ids and indices are positions or 0.
TypeOK ==
  /\ freed \subseteq destroyed /\ destroyed \subseteq created /\ created \subseteq Object
  /\ children \in [Object -> Seq(Object)]
  /\ comps \in [Host -> Seq(Component)]
  /\ host \in [Component -> Host \cup {Null}]
  /\ attached \cup awake \cup started \subseteq added /\ added \subseteq Component
  /\ enabled \cup active \subseteq Object \cup Component
  /\ dirty \cup unattached \cup lost \cup blocked \subseteq Host
  /\ slots \in Seq(Object \cup {Null}) /\ pool \in Seq(Component \cup {Null})
  /\ freeIndices \in Seq(Nat) /\ freeIds \in Seq(Nat)
  /\ newQueue \in Seq(Object) /\ deleteQueue \in Seq(Object) /\ root \in Seq(Object)
  /\ deadComps \in Seq(Component)
  /\ idInScene \in [Object -> Nat] /\ index \in [Component -> Nat]
  /\ {changed, updaterDirty, paused} \subseteq BOOLEAN
  /\ life \in {"alive", "destroying", "destroyed"}
  /\ pc \in {"idle", "prepare", "destroy", "prepared", "build", "update", "end"}
  /\ work \in Seq([phase : Phases, host : Host, force : BOOLEAN, at : Nat])
  /\ cursor \in Nat /\ calls \in Nat
  /\ calling \in Component \cup {Null}
  /\ late \subseteq Object

\* A sequence of positions lists each empty position of a table once.
FreeListOf(free, tbl) ==
  /\ \A i, j \in DOMAIN free : free[i] = free[j] => i = j
  /\ ToSet(free) = {i \in DOMAIN tbl : tbl[i] = Null}

\* Scene::Prepare and Scene::Remove keep the table of objects and its free
\* list in step: an object that lives is in its own slot or in the new
\* queue, once, and a slot is free exactly when it is empty.
SlotsAgree ==
  halts = {} =>
    /\ FreeListOf(freeIndices, slots)
    /\ \A o \in created :
         {i \in DOMAIN slots : slots[i] = o}
           = IF o \in destroyed \/ Contains(newQueue, o) THEN {} ELSE {idInScene[o]}
    /\ \A o \in destroyed \ freed : Contains(deleteQueue, o)

\* The updater holds plain pointers: whatever callbacks remove, detach or
\* destroy, a component in the pool is attached, its object has not been
\* freed, and no slot is given out twice.
PoolIsLive ==
  halts = {} =>
    /\ FreeListOf(freeIds, pool)
    /\ \A c \in Component :
         {i \in DOMAIN pool : pool[i] = c} = IF index[c] = 0 THEN {} ELSE {index[c]}
    /\ \A i \in DOMAIN pool : pool[i] # Null =>
         /\ pool[i] \in attached
         /\ Contains(comps[host[pool[i]]], pool[i])
         /\ host[pool[i]] \notin freed

\* No assertion of the scene fails (double registration, invalid index,
\* objects that are not in the scene or are left at its end, components held
\* by a freed object), but for objects destroyed from an OnDestroy: Prepare
\* frees those without destroying their components.
AssertionsHold == halts # {} => late # {}

Settled == pc = "idle" /\ halts = {} /\ life = "alive"

\* An object that is dirty can be found between frames: everything above it is
\* dirty, at any time, and the next Build will run.  SetDirty stops climbing at
\* the first dirty object, so this is what it relies on.  Excused are objects
\* below one that a callback, or a component that was removed before it was
\* attached, left dirty after Build had come by.
DirtyIsScheduled ==
  halts = {} =>
    \A o \in (created \ destroyed) \cap dirty :
      /\ Up(o) \subseteq dirty
      /\ Settled /\ Up(o) \cap blocked = {} => updaterDirty

\* Between frames, what is clean is as the application asked for: components
\* are attached; those enabled up to the root are awake, started and in the
\* pool; the others are inactive and not updated.  Excused are hosts changed by
\* a callback while Build still had them dirty, passed over by a paused Build,
\* or moved without being marked.
CleanIsSettled ==
  Settled =>
    \A h \in Host : \A c \in ToSet(comps[h]) :
      Usable(h) /\ Up(h) \cap (dirty \cup lost) = {} =>
        LET on == Up(h) \cap Object \subseteq enabled /\ c \in enabled
        IN  /\ c \in attached
            /\ on <=> c \in active
            /\ on <=> index[c] # 0
            /\ on => c \in awake \cap started

\* An object that is not active and has nothing left to be done has nothing
\* active below it: where CheckActivity stops, "everything is off anyway"
\* (SceneObject.cpp:260).
OffMeansAllOff ==
  Settled /\ ~updaterDirty =>
    \A o \in created \ destroyed :
      Up(o) \cap dirty = {} /\ o \notin active =>
        \A x \in Below(o) : x \notin active /\ ToSet(comps[x]) \cap active = {}

\* A component is updated only between its Start and its OnDetached, and only
\* while its host lives.
UpdatesAreDue ==
  [][(pc = "update" /\ calling' # calling /\ calling' # Null) =>
       /\ calling' \in attached
       /\ calling' \in started \/ Up(host[calling']) \cap (dirty \cup lost \cup destroyed) # {}]_vars

\* Once the application makes no more calls, Build finds nothing to do:
\* registration marks the updater dirty during Build, and so does clearing
\* the flag of the scene, but not for ever.
BuildsSettle ==
  <>[](halts # {} \/ life # "alive" \/ Scene \in blocked \/ ~updaterDirty)
=============================================================================
