---------------------------- MODULE Scene_settled ----------------------------
(***************************************************************************)
(* Proofs about what Build and Update of the scene achieve, for any        *)
(* objects, components and calls from callbacks: what is clean between     *)
(* frames is as the application asked for, and Update calls components     *)
(* only between their Start and their OnDetached.                          *)
(***************************************************************************)
EXTENDS Scene_proofs

-----------------------------------------------------------------------------
(* What Build has done: the third inductive invariant *)

\* The application wants component c of h to run.
On(h, c) == Up(h) \cap Object \subseteq enabled /\ c \in enabled

\* Every change at h or above it was recorded.
Unlost(h) == h \notin destroyed /\ Up(h) \cap lost = {}

\* What is dirty above h has been so since before this Build began.
Sure(h) ==
  /\ Unlost(h)
  /\ \A x \in Up(h) : Parent(x) = Null /\ x \in dirty => Overtaken(x)

\* Build will not pass over the place.
Due(pl) == pl.force \/ pl.at > 0 \/ pl.host \in dirty

\* In this phase, Build has yet to come to component k of h, or to h (k = 0).
ToCome(phase, h, k) ==
  \E pl \in ToSet(work) :
    /\ pl.phase = phase /\ Due(pl)
    /\ pl.host \in Up(h)
    /\ pl.host = h => pl.at <= k

\* What a phase does to component c of h.
Did(phase, h, c) ==
  /\ phase = "PostLoad" => c \in attached
  /\ phase = "Awake" /\ On(h, c) => c \in awake
  /\ phase = "CheckActivity" => (On(h, c) <=> c \in active)
  /\ phase = "Start" /\ On(h, c) => c \in started

PartDone(h, k) == \A phase \in Phases : ToCome(phase, h, k) \/ Did(phase, h, comps[h][k])

\* What CheckActivity has done to o.
ObjectDone(o) == ToCome("CheckActivity", o, 0) \/ (o \in active <=> Up(o) \subseteq enabled)

DoneInv ==
  \A h \in Host : Sure(h) =>
    /\ \A k \in DOMAIN comps[h] : PartDone(h, k)
    /\ h \in Object => ObjectDone(h)

\* CheckActivity is at the components of the parent of o, or about to visit o.
Entering(o) ==
  \E pl \in ToSet(work) :
    /\ pl.phase = "CheckActivity"
    /\ \/ pl.host = Parent(o) /\ pl.at > 0
       \/ pl.host = o /\ pl.at = 0 /\ pl.force

\* CheckActivity has yet to come to component k of o, which it has visited.
PartEntering(o, k) ==
  \E pl \in ToSet(work) : pl.phase = "CheckActivity" /\ pl.host = o /\ pl.at \in 1..k

\* Below what is off everything is off, but where CheckActivity is at work.
OffInv ==
  \A o \in Object \ lost :
    /\ o \in active /\ Parent(o) # Null /\ Parent(o) \notin active => Entering(o)
    /\ \A k \in DOMAIN comps[o] : comps[o][k] \in active /\ o \notin active => PartEntering(o, k)

\* Neither is above the other.
Distant(g, h) == (Sure(h) => g \notin Up(h)) /\ (Sure(g) => h \notin Up(g))

\* CheckActivity visits nothing twice.
Apart(s) ==
  \A j, k \in DOMAIN s :
    j < k /\ s[j].phase = "CheckActivity" /\ s[k].phase = "CheckActivity" =>
      Distant(s[j].host, s[k].host)

\* An active component has been through the phases before, and is in the pool.
ActiveInv ==
  /\ active \cap Component \subseteq added
  /\ \A h \in Host : \A c \in ToSet(comps[h]) :
       c \in active => c \in attached \cap awake /\ c \in InPool

RunInv == DoneInv /\ OffInv /\ Apart(work) /\ ActiveInv

-----------------------------------------------------------------------------
(* Hosts that are sure *)

LEMMA ToComeNext ==
  \A phase, h, k : ToCome(phase, h, k)' <=>
    \E pl \in ToSet(work') :
      /\ pl.phase = phase /\ (pl.force \/ pl.at > 0 \/ pl.host \in dirty')
      /\ pl.host \in Up(h)'
      /\ pl.host = h => pl.at <= k
BY DEF ToCome, Due, ToSet

\* What is above a host that is not lost, is not lost.
LEMMA UnlostUp ==
  ASSUME TreeType, TreeInv, NEW h \in Host, Unlost(h), NEW x \in Up(h)
  PROVE  Unlost(x) /\ x \in Host
<1>1. Up(x) \subseteq Up(h) /\ x \in Host
  BY UpFacts
<1>2. x \notin destroyed
  <2>1. CASE x = h
    BY <2>1 DEF Unlost
  <2>2. CASE x # h
    <3>1. h \in Object
      BY <2>2, TreeFacts DEF Host
    <3> QED BY <2>2, <3>1, BelowLives DEF Live
  <2> QED BY <2>1, <2>2
<1> QED BY <1>1, <1>2 DEF Unlost

LEMMA SureUp ==
  ASSUME ControlType, TreeType, TreeInv, UpClosed(dirty), NEW h \in Host, Sure(h), NEW x \in Up(h)
  PROVE  Sure(x) /\ (x \in dirty => Overtaken(x))
<1>1. Up(x) \subseteq Up(h) /\ x \in Host /\ Unlost(x)
  BY UpFacts, UnlostUp DEF Sure
<1>2. Sure(x)
  BY <1>1 DEF Sure
<1>3. ASSUME x \in dirty PROVE Overtaken(x)
  <2>1. Top(x) \in Up(x) /\ Parent(Top(x)) = Null /\ Up(Top(x)) \subseteq Up(x)
    BY <1>1, UpFacts
  <2>2. Top(x) \in dirty
    BY <1>1, <1>3, <2>1, ClosedUp
  <2>3. Overtaken(Top(x))
    BY <1>1, <2>1, <2>2 DEF Sure
  <2> QED BY <2>1, <2>3, OvertakenFacts
<1> QED BY <1>2, <1>3

\* A call leaves what it changes dirty or lost, and so what is below.
LEMMA NotSure ==
  ASSUME ControlType, TreeType, TreeInv, UpClosed(dirty), UNCHANGED <<children, work>>,
         NEW g \in Host, dirty' = dirty \cup Climb(g), Overtaken(g) => g \in lost',
         NEW h \in Host, g \in Up(h)
  PROVE  ~Sure(h)'
<1> SUFFICES ASSUME Sure(h)' PROVE FALSE
  OBVIOUS
<1>1. /\ \A x : Parent(x)' = Parent(x)
      /\ \A x : Up(x)' = Up(x)
  BY SameTree
<1>2. ~Overtaken(g)
  BY <1>1 DEF Sure, Unlost
<1>3. PICK t \in Up(g) : t = Top(g) /\ Parent(t) = Null /\ Up(t) \subseteq Up(g)
  BY UpFacts
<1>4. g \in dirty' /\ t \in dirty' /\ t \in Up(h)
  BY <1>3, ClimbFacts, UpFacts
<1>5. Overtaken(t)'
  BY <1>1, <1>3, <1>4 DEF Sure
<1>6. Overtaken(g)
  BY <1>1, <1>3, <1>5, OvertakenFacts, OvertakenNext
<1> QED BY <1>2, <1>6

\* A host is not made sure by what leaves the walk alone.
LEMMA SureBack ==
  ASSUME ControlType, UNCHANGED work, NEW h \in Host, Up(h)' = Up(h),
         \A x \in Up(h) : Up(x)' = Up(x) /\ Parent(x)' = Parent(x),
         destroyed \subseteq destroyed', lost \subseteq lost', dirty \subseteq dirty', Sure(h)'
  PROVE  Sure(h)
<1>1. Unlost(h)
  BY DEF Sure, Unlost
<1>2. ASSUME NEW x \in Up(h), Parent(x) = Null, x \in dirty PROVE Overtaken(x)
  <2>1. Overtaken(x)'
    BY <1>2 DEF Sure
  <2> QED BY <1>2, <2>1, OvertakenFacts, OvertakenNext
<1> QED BY <1>1, <1>2 DEF Sure

\* What has been done to a host stays done.
LEMMA DoneStays ==
  ASSUME UNCHANGED <<work, active, awake, started>>, NEW h \in Host, Up(h)' = Up(h),
         dirty \cap Up(h) \subseteq dirty', comps'[h] = comps[h],
         \A x \in Up(h) \cup ToSet(comps[h]) : x \in enabled' <=> x \in enabled,
         \A c \in ToSet(comps[h]) : c \in attached => c \in attached'
  PROVE  /\ \A k \in DOMAIN comps[h] : PartDone(h, k) => PartDone(h, k)'
         /\ ObjectDone(h) => ObjectDone(h)'
<1>1. \A phase, k : ToCome(phase, h, k) => ToCome(phase, h, k)'
  BY ToComeNext DEF ToCome, Due
<1>2. \A c \in ToSet(comps[h]) : On(h, c)' <=> On(h, c)
  BY DEF On
<1>3. ASSUME NEW k \in DOMAIN comps[h], PartDone(h, k) PROVE PartDone(h, k)'
  <2>1. comps[h][k] \in ToSet(comps[h])
    BY DEF ToSet
  <2> QED BY <1>1, <1>2, <1>3, <2>1 DEF PartDone, Did
<1>4. (Up(h) \subseteq enabled)' <=> Up(h) \subseteq enabled
  OBVIOUS
<1>5. ObjectDone(h) => ObjectDone(h)'
  BY <1>1, <1>4 DEF ObjectDone
<1> QED BY <1>3, <1>5

LEMMA DoneFrame ==
  ASSUME DoneInv, UNCHANGED <<work, active, awake, started>>,
         \A h \in Host : Sure(h)' =>
           /\ Sure(h) /\ Up(h)' = Up(h) /\ dirty \cap Up(h) \subseteq dirty'
           /\ comps'[h] = comps[h] \/ (comps'[h] = <<>> /\ h = Scene)
           /\ \A x \in Up(h) \cup ToSet(comps[h]) : x \in enabled' <=> x \in enabled
           /\ h # Scene \/ comps'[h] # <<>> =>
                \A c \in ToSet(comps[h]) : c \in attached => c \in attached'
  PROVE  DoneInv'
<1> SUFFICES ASSUME NEW h \in Host, Sure(h)'
             PROVE  /\ \A k \in DOMAIN comps'[h] : PartDone(h, k)'
                    /\ h \in Object => ObjectDone(h)'
  BY DEF DoneInv
<1>1. /\ \A k \in DOMAIN comps[h] : PartDone(h, k)
      /\ h \in Object => ObjectDone(h)
  BY DEF DoneInv
<1>2. CASE comps'[h] = <<>> /\ h = Scene
  BY <1>2, EmptyList, HostFacts
<1>3. CASE ~(comps'[h] = <<>> /\ h = Scene)
  <2>1. comps'[h] = comps[h]
    BY <1>3
  <2> QED BY <1>1, <1>3, <2>1, DoneStays
<1> QED BY <1>2, <1>3

\* Calls that mark g.
LEMMA DoneCall ==
  ASSUME ControlType, TreeType, TreeInv, UpClosed(dirty), DoneInv, NEW g \in Host,
         UNCHANGED <<children, destroyed, work, active, awake, started>>,
         dirty' = dirty \cup Climb(g), lost \subseteq lost', Overtaken(g) => g \in lost',
         \A h \in Host : g \notin Up(h) =>
           /\ comps'[h] = comps[h]
           /\ \A x \in Up(h) \cup ToSet(comps[h]) : x \in enabled' <=> x \in enabled
           /\ \A c \in ToSet(comps[h]) : c \in attached => c \in attached'
  PROVE  DoneInv'
<1>1. /\ \A x : Parent(x)' = Parent(x)
      /\ \A x : Up(x)' = Up(x)
  BY SameTree
<1>2. ASSUME NEW h \in Host, Sure(h)' PROVE g \notin Up(h) /\ Sure(h)
  <2>1. g \notin Up(h)
    BY <1>2, NotSure
  <2> QED BY <1>1, <1>2, <2>1, SureBack
<1> QED BY <1>1, <1>2, DoneFrame

-----------------------------------------------------------------------------
(* Calls leave what they change dirty or lost *)

LEMMA ApartSame ==
  ASSUME ControlType, Apart(work), UNCHANGED work,
         \A h \in Host : Sure(h)' => Sure(h) /\ Up(h)' = Up(h)
  PROVE  Apart(work)'
<1> SUFFICES ASSUME NEW j \in DOMAIN work, NEW k \in DOMAIN work, j < k,
                    work[j].phase = "CheckActivity", work[k].phase = "CheckActivity"
             PROVE  Distant(work[j].host, work[k].host)'
  BY DEF Apart
<1>1. work[j] \in PlaceType /\ work[k] \in PlaceType
  BY ListFacts DEF ControlType
<1>2. PICK g \in Host, h \in Host : g = work[j].host /\ h = work[k].host
  BY <1>1 DEF PlaceType
<1>3. Distant(g, h)
  BY <1>2 DEF Apart
<1>4. Distant(g, h)'
  BY <1>3 DEF Distant
<1> QED BY <1>2, <1>4

LEMMA OffFrame ==
  ASSUME OffInv, UNCHANGED <<work, active>>,
         \A o \in Object \ lost' :
           /\ o \notin lost
           /\ \/ Parent(o)' = Parent(o)
              \/ o \in active /\ Parent(o)' # Null => Parent(o)' \in active
           /\ \/ comps'[o] = comps[o]
              \/ \A c \in ToSet(comps'[o]) : c \in active => o \in active
  PROVE  OffInv'
<1> SUFFICES ASSUME NEW o \in Object \ lost'
             PROVE  /\ o \in active /\ Parent(o)' # Null /\ Parent(o)' \notin active => Entering(o)'
                    /\ \A k \in DOMAIN comps'[o] :
                         comps'[o][k] \in active /\ o \notin active => PartEntering(o, k)'
  BY DEF OffInv
<1>1. /\ o \in active /\ Parent(o) # Null /\ Parent(o) \notin active => Entering(o)
      /\ \A k \in DOMAIN comps[o] :
           comps[o][k] \in active /\ o \notin active => PartEntering(o, k)
  BY DEF OffInv
<1>2. ASSUME o \in active, Parent(o)' # Null, Parent(o)' \notin active PROVE Entering(o)'
  <2>1. Parent(o)' = Parent(o)
    BY <1>2
  <2> QED BY <1>1, <1>2, <2>1 DEF Entering
<1>3. ASSUME NEW k \in DOMAIN comps'[o], comps'[o][k] \in active, o \notin active
      PROVE  PartEntering(o, k)'
  <2>1. comps'[o] = comps[o]
    <3>1. comps'[o][k] \in ToSet(comps'[o])
      BY DEF ToSet
    <3> QED BY <1>3, <3>1
  <2> QED BY <1>1, <1>3, <2>1 DEF PartEntering
<1> QED BY <1>2, <1>3

\* Build is at the components of an object only as long as its flag is due.
LEMMA NotEntered ==
  ASSUME ControlType, TreeType, TreeInv, WalkInv, OffInv, NEW g \in Object \ lost, ~Overtaken(g)
  PROVE  \A c \in ToSet(comps[g]) : c \in active => g \in active
<1> SUFFICES ASSUME NEW k \in DOMAIN comps[g], comps[g][k] \in active, g \notin active
             PROVE  FALSE
  BY DEF ToSet
<1>1. PICK pl \in ToSet(work) : pl.phase = "CheckActivity" /\ pl.host = g
  BY DEF OffInv, PartEntering
<1>2. pl \in PlaceType
  BY ListFacts DEF ControlType
<1>3. g \in Up(g) /\ g # Scene
  BY UpFacts, HostFacts
<1>4. \E other \in ToSet(work) : Clears(other) /\ other.host = g
  BY <1>1, <1>2, <1>3 DEF WalkInv, PlaceType
<1> QED BY <1>3, <1>4, OvertakenFacts

LEMMA ActiveFrame ==
  ASSUME ActiveInv, UNCHANGED <<active, awake>>, added \subseteq added',
         \A h \in Host : \A c \in ToSet(comps'[h]) : c \in active =>
           /\ c \in ToSet(comps[h])
           /\ c \in attached => c \in attached'
           /\ c \in InPool => c \in InPool'
  PROVE  ActiveInv'
BY DEF ActiveInv

\* A call that marks g.
LEMMA RunCall ==
  ASSUME TypeOK, SceneInv, FlagInv, RunInv, NEW g \in Host,
         UNCHANGED <<children, destroyed, work, active, awake, started>>,
         dirty' = dirty \cup Climb(g), lost \subseteq lost', Overtaken(g) => g \in lost',
         added \subseteq added',
         \A h \in Host : h # g => comps'[h] = comps[h],
         \A h \in Host : g \notin Up(h) =>
           \A x \in Up(h) \cup ToSet(comps[h]) : x \in enabled' <=> x \in enabled,
         \A c \in ToSet(comps'[g]) : c \in active => c \in ToSet(comps[g]),
         \A h \in Host : \A c \in ToSet(comps'[h]) :
           (c \in attached => c \in attached') /\ (c \in InPool => c \in InPool')
  PROVE  RunInv'
<1>1. /\ ControlType /\ TreeType /\ TreeInv /\ UpClosed(dirty) /\ WalkInv
      /\ DoneInv /\ OffInv /\ Apart(work) /\ ActiveInv
  BY TypeGroups DEF SceneInv, FlagInv, MarkInv, RunInv
<1>2. /\ \A x : Parent(x)' = Parent(x)
      /\ \A x : Up(x)' = Up(x)
      /\ \A h \in Host : h \in Up(h)
  BY <1>1, SameTree, UpFacts
<1>3. DoneInv'
  <2>1. \A h \in Host : g \notin Up(h) =>
          /\ comps'[h] = comps[h]
          /\ \A x \in Up(h) \cup ToSet(comps[h]) : x \in enabled' <=> x \in enabled
          /\ \A c \in ToSet(comps[h]) : c \in attached => c \in attached'
    BY <1>2
  <2> QED BY <1>1, <2>1, DoneCall
<1>4. Apart(work)'
  <2>1. ASSUME NEW h \in Host, Sure(h)' PROVE Sure(h) /\ Up(h)' = Up(h)
    BY <1>1, <1>2, <2>1, SureBack
  <2> QED BY <1>1, <2>1, ApartSame
<1>5. OffInv'
  <2>1. ASSUME NEW o \in Object \ lost'
        PROVE  comps'[o] = comps[o] \/ \A c \in ToSet(comps'[o]) : c \in active => o \in active
    <3>1. CASE o = g
      <4>1. o \in Object \ lost /\ ~Overtaken(o)
        BY <3>1
      <4> QED BY <1>1, <3>1, <4>1, NotEntered
    <3>2. CASE o # g
      BY <3>2, HostFacts
    <3> QED BY <3>1, <3>2
  <2>2. \A o \in Object \ lost' : o \notin lost
    OBVIOUS
  <2> QED BY <1>1, <1>2, <2>1, <2>2, OffFrame
<1>6. ActiveInv'
  <2>1. \A h \in Host : \A c \in ToSet(comps'[h]) : c \in active => c \in ToSet(comps[h])
    OBVIOUS
  <2> QED BY <1>1, <2>1, ActiveFrame
<1> QED BY <1>3, <1>4, <1>5, <1>6 DEF RunInv

LEMMA RunCalls ==
  ASSUME TypeOK, SceneInv, FlagInv, RunInv
  PROVE  /\ \A o \in Object : InstanceGameObject(o) \/ SetObjectEnabled(o) => RunInv'
         /\ \A c \in Component : SetComponentEnabled(c) => RunInv'
         /\ \A h \in Host, c \in Component : AddComponent(h, c) \/ RemoveComponent(h, c) => RunInv'
<1>1. /\ PartsType /\ TreeType /\ TreeInv /\ CompInv /\ PoolTable /\ UpdaterType /\ GravesType
      /\ ActiveInv /\ FlagsType
  BY TypeGroups DEF SceneInv, PoolInv, RunInv
<1>2. /\ \A h \in Host : \A c \in ToSet(comps[h]) : host[c] = h /\ c \in Component
      /\ \A h \in Host : Up(h) \subseteq Host /\ h \in Up(h)
      /\ Host \cap Component = {}
  BY <1>1, CompFacts, UpFacts, HostFacts DEF Host
<1>3. ASSUME NEW o \in Object, InstanceGameObject(o) PROVE RunInv'
  <2>1. UNCHANGED <<parts, flags, updater, control>>
    BY <1>3, Keeps
  <2>2. /\ UNCHANGED <<children, destroyed, work, active, awake, started, comps, attached, added,
                       enabled, index>>
        /\ dirty' = dirty \cup Climb(Scene) /\ lost \subseteq lost'
        /\ Overtaken(Scene) => Scene \in lost'
    BY <1>3, <2>1 DEF InstanceGameObject, SetDirtyTrue, Lose, parts, flags, updater, control
  <2>3. InPool' = InPool
    BY <2>2 DEF InPool
  <2> QED BY <2>2, <2>3, HostFacts, RunCall
<1>4. ASSUME NEW o \in Object, SetObjectEnabled(o) PROVE RunInv'
  <2>1. UNCHANGED <<tree, parts, updater, control>>
    BY <1>4, Keeps
  <2>2. /\ UNCHANGED <<children, destroyed, work, active, awake, started, comps, attached, added,
                       index>>
        /\ dirty' = dirty \cup Climb(o) /\ lost \subseteq lost'
        /\ Overtaken(o) => o \in lost'
        /\ \A x : x # o => (x \in enabled' <=> x \in enabled)
    BY <1>4, <2>1 DEF SetObjectEnabled, Toggle, SetDirtyTrue, Lose, tree, parts, updater, control
  <2>3. InPool' = InPool
    BY <2>2 DEF InPool
  <2>4. \A h \in Host : o \notin Up(h) => o \notin Up(h) \cup ToSet(comps[h])
    BY <1>2, HostFacts
  <2> QED BY <2>2, <2>3, <2>4, HostFacts, RunCall
<1>5. ASSUME NEW c \in Component, SetComponentEnabled(c) PROVE RunInv'
  <2>1. UNCHANGED <<tree, parts, updater, control>>
    BY <1>5, Keeps
  <2> DEFINE g == host[c]
  <2>2. /\ UNCHANGED <<children, destroyed, work, active, awake, started, comps, attached, added,
                       index>>
        /\ dirty' = dirty \cup Climb(g) /\ lost \subseteq lost'
        /\ Overtaken(g) => g \in lost'
        /\ \A x : x # c => (x \in enabled' <=> x \in enabled)
        /\ g # Null
    BY <1>5, <2>1 DEF SetComponentEnabled, Toggle, SetDirtyTrue, Lose, tree, parts, updater, control
  <2>3. InPool' = InPool
    BY <2>2 DEF InPool
  <2>4. g \in Host
    BY <1>1, <2>2 DEF PartsType
  <2>5. \A h \in Host : g \notin Up(h) => c \notin Up(h) \cup ToSet(comps[h])
    BY <1>2
  <2> HIDE DEF g
  <2> QED BY <2>2, <2>3, <2>4, <2>5, RunCall
<1>6. ASSUME NEW g \in Host, NEW c \in Component, AddComponent(g, c) PROVE RunInv'
  <2>1. UNCHANGED <<tree, flags, updater, control>>
    BY <1>6, Keeps
  <2>2. /\ UNCHANGED <<children, destroyed, work, active, awake, started, attached, enabled, index>>
        /\ dirty' = dirty \cup Climb(g) /\ lost \subseteq lost'
        /\ Overtaken(g) => g \in lost'
        /\ added' = added \cup {c} /\ c \notin added
        /\ comps' = [comps EXCEPT ![g] = Append(@, c)]
    BY <1>6, <2>1 DEF AddComponent, SetDirtyTrue, Lose, tree, flags, updater, control
  <2>3. InPool' = InPool
    BY <2>2 DEF InPool
  <2>4. comps'[g] = Append(comps[g], c) /\ \A h \in Host : h # g => comps'[h] = comps[h]
    BY <1>1, <2>2 DEF PartsType
  <2>5. ToSet(comps'[g]) = ToSet(comps[g]) \cup {c}
    BY <1>1, <2>4, CompFacts, AppendFacts
  <2>6. c \notin active
    BY <1>1, <2>2 DEF ActiveInv
  <2> QED BY <2>2, <2>3, <2>4, <2>5, <2>6, RunCall
<1>7. ASSUME NEW g \in Host, NEW c \in Component, RemoveComponent(g, c) PROVE RunInv'
  <2>1. UNCHANGED <<tree, flags, control>>
    BY <1>7, Keeps
  <2>2. /\ UNCHANGED <<children, destroyed, work, active, awake, started, enabled, added>>
        /\ dirty' = dirty \cup Climb(g) /\ lost \subseteq lost'
        /\ Overtaken(g) => g \in lost'
        /\ Contains(comps[g], c)
        /\ comps' = [comps EXCEPT ![g] = Erase(@, c)]
        /\ DestroyComponent(<<c>>)
    BY <1>7, <2>1 DEF RemoveComponent, Lose, tree, flags, control
  <2> DEFINE one == <<c>>
  <2>3. one \in Seq(Component) /\ Distinct(one) /\ ToSet(one) = {c}
    BY DEF Distinct, ToSet
  <2>4. DestroyComponent(one)
    BY <2>2
  <2> HIDE DEF one
  <2>5. InPool' = InPool \ ({c} \cap attached) /\ attached' = attached \ {c}
    BY <1>1, <2>3, <2>4, DestroyFacts
  <2>6. comps'[g] = Erase(comps[g], c) /\ \A h \in Host : h # g => comps'[h] = comps[h]
    BY <1>1, <2>2 DEF PartsType
  <2>7. ToSet(comps'[g]) = ToSet(comps[g]) \ {c}
    BY <1>1, <2>2, <2>6, CompFacts, EraseFacts
  <2>8. ASSUME NEW h \in Host PROVE c \notin ToSet(comps'[h])
    <3>1. host[c] = g
      BY <1>1, <1>2, <2>2, CompFacts
    <3> QED BY <1>2, <2>6, <2>7, <3>1
  <2> QED BY <2>2, <2>5, <2>6, <2>7, <2>8, RunCall
<1> QED BY <1>3, <1>4, <1>5, <1>6, <1>7

\* The tree changes, and what is below the change is lost, dirty or destroyed.
LEMMA RunTree ==
  ASSUME ControlType, RunInv,
         UNCHANGED <<comps, added, attached, awake, started, enabled, active, index, work>>,
         dirty \subseteq dirty', lost \subseteq lost',
         \A h \in Host : Sure(h)' => Sure(h) /\ Up(h)' = Up(h),
         \A o \in Object \ lost' :
           \/ Parent(o)' = Parent(o)
           \/ o \in active /\ Parent(o)' # Null => Parent(o)' \in active
  PROVE  RunInv'
<1>1. DoneInv /\ OffInv /\ Apart(work) /\ ActiveInv
  BY DEF RunInv
<1>2. DoneInv'
  BY <1>1, DoneFrame
<1>3. OffInv'
  BY <1>1, OffFrame
<1>4. Apart(work)'
  BY <1>1, ApartSame
<1>5. ActiveInv'
  <2>1. InPool' = InPool
    BY DEF InPool
  <2> QED BY <1>1, <2>1, ActiveFrame
<1> QED BY <1>2, <1>3, <1>4, <1>5 DEF RunInv

LEMMA RunMoves ==
  ASSUME TypeOK, SceneInv, FlagInv, RunInv
  PROVE  /\ \A o \in Object : MoveToRoot(o) => RunInv'
         /\ \A o, p \in Object : MoveToTree(o, p) => RunInv'
<1>1. /\ ControlType /\ TreeType /\ TreeInv /\ UpClosed(dirty) /\ Object \subseteq Host
      /\ \A h \in Host : h \in Up(h) /\ Up(h) \subseteq Host /\ \A x \in Up(h) : Up(x) \subseteq Up(h)
  BY TypeGroups, HostFacts, UpFacts DEF SceneInv, FlagInv, MarkInv
<1>2. ASSUME NEW o \in Object, MoveToRoot(o) PROVE RunInv'
  <2>1. /\ UNCHANGED <<destroyed, comps, added, attached, awake, started, enabled, active, index,
                       work, dirty>>
        /\ lost' = lost \cup {o}
    <3>1. UNCHANGED <<parts, flags, marks, updater, control>>
      BY <1>2, Keeps
    <3> QED BY <1>2, <3>1 DEF MoveToRoot, Lose, parts, flags, marks, updater, control
  <2>2. /\ \A x \in Host : Parent(x)' = IF x = o THEN Null ELSE Parent(x)
        /\ \A h \in Host : o \notin Up(h) => Up(h)' = Up(h)
        /\ \A h \in Host : o \in Up(h) => o \in Up(h)'
    <3>1. /\ children' \in Kids /\ Disjoint(children')
          /\ ParentsIn(children') = [ParentsIn(children) EXCEPT ![o] = Null]
      BY <1>1, <1>2, MoveToRootFacts
    <3> QED BY <1>1, <3>1, MovedUp
  <2>3. ASSUME NEW h \in Host, Sure(h)' PROVE Sure(h) /\ Up(h)' = Up(h)
    <3>1. Up(h)' \cap lost' = {}
      BY <2>3 DEF Sure, Unlost
    <3>2. o \notin Up(h)
      BY <2>1, <2>2, <3>1
    <3>3. Up(h)' = Up(h) /\ \A x \in Up(h) : Up(x)' = Up(x) /\ Parent(x)' = Parent(x)
      BY <1>1, <2>2, <3>2
    <3> QED BY <1>1, <2>1, <2>3, <3>3, SureBack
  <2>4. \A x \in Object \ lost' : Parent(x)' = Parent(x)
    BY <1>1, <2>1, <2>2
  <2>5. dirty \subseteq dirty' /\ lost \subseteq lost'
    BY <2>1
  <2> QED BY <1>1, <2>1, <2>3, <2>4, <2>5, RunTree
<1>3. ASSUME NEW o \in Object, NEW p \in Object, MoveToTree(o, p) PROVE RunInv'
  <2>1. /\ UNCHANGED <<destroyed, comps, added, attached, awake, started, enabled, active, index,
                       work>>
        /\ dirty' = dirty \cup Climb(p) /\ lost \subseteq lost'
        /\ Overtaken(p) => o \in lost'
        /\ o \in active /\ p \notin active => o \in lost'
    <3>1. UNCHANGED <<parts, flags, updater, control>>
      BY <1>3, Keeps
    <3>2. UNCHANGED destroyed
      BY <1>3 DEF MoveToTree
    <3> QED BY <1>3, <3>1, <3>2 DEF MoveToTree, Lose, SetDirtyTrue, parts, flags, updater, control
  <2>2. /\ \A x \in Host : Parent(x)' = IF x = o THEN p ELSE Parent(x)
        /\ \A h \in Host : o \notin Up(h) => Up(h)' = Up(h)
        /\ \A h \in Host : o \in Up(h) => o \in Up(h)' /\ Up(p) \subseteq Up(h)'
        /\ o \notin Up(p) /\ p # Null
    <3>1. /\ children' \in Kids /\ Disjoint(children')
          /\ ParentsIn(children') = [ParentsIn(children) EXCEPT ![o] = p]
          /\ o \notin Up(p) /\ p # Null
      BY <1>1, <1>3, MoveToTreeFacts, HostFacts
    <3> QED BY <1>1, <3>1, MovedUp
  <2>3. ASSUME NEW h \in Host, Sure(h)' PROVE o \notin Up(h)
    <3> SUFFICES ASSUME o \in Up(h) PROVE FALSE
      OBVIOUS
    <3>1. o \notin lost' /\ Up(p) \subseteq Up(h)'
      BY <2>2, <2>3 DEF Sure, Unlost
    <3>2. ~Overtaken(p)
      BY <2>1, <3>1
    <3>3. PICK t \in Up(p) : t = Top(p) /\ Parent(t) = Null /\ Up(t) \subseteq Up(p)
      BY <1>1, UpFacts
    <3>4. t \in dirty' /\ t \in Up(h)' /\ t \in Host
      BY <1>1, <2>1, <3>1, <3>3, ClimbFacts
    <3>5. Up(t)' = Up(t) /\ Parent(t)' = Null
      BY <2>2, <3>3, <3>4
    <3>6. Overtaken(t)'
      BY <2>3, <3>4, <3>5 DEF Sure
    <3>7. Overtaken(p)
      BY <1>1, <2>1, <3>3, <3>5, <3>6, OvertakenFacts, OvertakenNext
    <3> QED BY <3>2, <3>7
  <2>4. ASSUME NEW h \in Host, Sure(h)' PROVE Sure(h) /\ Up(h)' = Up(h)
    <3>1. o \notin Up(h)
      BY <2>3, <2>4
    <3>2. Up(h)' = Up(h) /\ \A x \in Up(h) : Up(x)' = Up(x) /\ Parent(x)' = Parent(x)
      BY <1>1, <2>2, <3>1
    <3>3. dirty \subseteq dirty' /\ destroyed \subseteq destroyed'
      BY <2>1
    <3> QED BY <1>1, <2>1, <2>4, <3>2, <3>3, SureBack
  <2>5. ASSUME NEW x \in Object \ lost'
        PROVE  Parent(x)' = Parent(x) \/ (x \in active => Parent(x)' \in active)
    BY <1>1, <2>1, <2>2
  <2>6. dirty \subseteq dirty'
    BY <2>1
  <2> QED BY <1>1, <2>1, <2>4, <2>5, <2>6, RunTree
<1> QED BY <1>2, <1>3

LEMMA RunBury ==
  ASSUME TypeOK, SceneInv, FlagInv, RunInv
  PROVE  (\E o \in Object : Destroy(o)) \/ SceneDestroyObject => RunInv'
<1>1. /\ ControlType /\ TreeType /\ TreeInv /\ TableType /\ GravesType /\ QueueInv /\ SlotInv
      /\ Object \subseteq Host /\ Scene \notin Object /\ Live \subseteq Object /\ Up(Scene) = {Scene}
      /\ \A h \in Host : \A x \in Up(h) : Up(x) \subseteq Up(h) /\ x \in Host
  BY TypeGroups, HostFacts, TreeFacts, UpFacts DEF SceneInv, TreeType, Live
<1>2. ASSUME NEW o \in Live, Bury(o), UNCHANGED <<parts, flags, updater, control>>,
             dirty \subseteq dirty', lost \subseteq lost'
      PROVE  RunInv'
  <2>1. UNCHANGED <<comps, added, attached, awake, started, enabled, active, index, work>>
    BY <1>2 DEF parts, flags, updater, control
  <2>2. /\ \A x \in Host : Parent(x)' = IF o \in Up(x) THEN Null ELSE Parent(x)
        /\ \A h \in Host : o \notin Up(h) => Up(h)' = Up(h)
        /\ destroyed' = destroyed \cup Below(o)
    BY <1>1, <1>2, BuriedUp, BuryFacts
  <2>3. ASSUME NEW h \in Host, Sure(h)' PROVE Sure(h) /\ Up(h)' = Up(h)
    <3>1. h \notin Below(o)
      BY <2>2, <2>3 DEF Sure, Unlost
    <3>2. o \notin Up(h)
      BY <1>1, <3>1 DEF Below, Host
    <3>3. Up(h)' = Up(h) /\ \A x \in Up(h) : Up(x)' = Up(x) /\ Parent(x)' = Parent(x)
      BY <1>1, <2>2, <3>2
    <3>4. destroyed \subseteq destroyed'
      BY <2>2
    <3> QED BY <1>1, <1>2, <2>1, <2>3, <3>3, <3>4, SureBack
  <2>4. \A x \in Object : Parent(x)' = Parent(x) \/ Parent(x)' = Null
    BY <1>1, <2>2
  <2> QED BY <1>1, <1>2, <2>1, <2>3, <2>4, RunTree
<1>3. ASSUME NEW o \in Object, Destroy(o) PROVE RunInv'
  <2>1. /\ Bury(o) /\ UNCHANGED <<parts, flags, updater, control>> /\ Usable(o)
        /\ dirty \subseteq dirty' /\ lost \subseteq lost'
    BY <1>3, Keeps DEF Destroy, SetDirtyTrue, Lose
  <2> QED BY <1>2, <2>1, UsableFacts
<1>4. ASSUME SceneDestroyObject PROVE RunInv'
  <2>1. /\ UNCHANGED <<parts, flags, updater, control>>
        /\ dirty \subseteq dirty' /\ lost \subseteq lost'
    BY <1>4, Keeps DEF SceneDestroyObject, SetDirtyTrue, Lose
  <2> QED BY <1>2, <1>4, <2>1, SceneDestroyObjectFacts
<1> QED BY <1>3, <1>4

-----------------------------------------------------------------------------
(* Components go, and Build begins *)

\* A property of the pairs of a list, in their order.
Paired(s, R) == \A j, k \in DOMAIN s : j < k => <<s[j], s[k]>> \in R

LEMMA PairedConcat ==
  ASSUME NEW S, NEW R, NEW s \in Seq(S), NEW t \in Seq(S), Paired(s, R), Paired(t, R),
         \A x \in ToSet(s), y \in ToSet(t) : <<x, y>> \in R
  PROVE  Paired(s \o t, R)
<1> DEFINE w == s \o t
<1>1. /\ \A k \in DOMAIN s : w[k] = s[k]
      /\ \A k \in DOMAIN t : w[Len(s) + k] = t[k]
      /\ \A k \in DOMAIN w : k \in DOMAIN s \/ \E j \in DOMAIN t : k = Len(s) + j
  BY ConcatFacts
<1>2. /\ Len(s) \in Nat /\ DOMAIN s = 1..Len(s)
      /\ Len(t) \in Nat /\ DOMAIN t = 1..Len(t)
  BY ListFacts
<1> HIDE DEF w
<1> SUFFICES ASSUME NEW j \in DOMAIN w, NEW k \in DOMAIN w, j < k
             PROVE  <<w[j], w[k]>> \in R
  BY DEF Paired, w
<1>3. CASE k \in DOMAIN s
  <2>1. j \in DOMAIN s
    <3> SUFFICES ASSUME NEW i \in DOMAIN t, j = Len(s) + i PROVE FALSE
      BY <1>1
    <3> QED BY <1>2, <1>3
  <2> QED BY <1>1, <1>3, <2>1 DEF Paired
<1>4. CASE j \in DOMAIN s /\ k \notin DOMAIN s
  <2>1. w[j] \in ToSet(s) /\ w[k] \in ToSet(t)
    BY <1>1, <1>4 DEF ToSet
  <2> QED BY <2>1
<1>5. CASE j \notin DOMAIN s /\ k \notin DOMAIN s
  <2>1. PICK a \in DOMAIN t : j = Len(s) + a
    BY <1>1, <1>5
  <2>2. PICK b \in DOMAIN t : k = Len(s) + b
    BY <1>1, <1>5
  <2>3. a < b
    BY <1>2, <2>1, <2>2
  <2>4. w[j] = t[a] /\ w[k] = t[b]
    BY <1>1, <2>1, <2>2
  <2> QED BY <2>3, <2>4 DEF Paired
<1> QED BY <1>3, <1>4, <1>5

\* Two places of CheckActivity are not those of one host.
Differ == {q \in PlaceType \X PlaceType :
             q[1].phase = "CheckActivity" /\ q[2].phase = "CheckActivity" => q[1].host # q[2].host}

LEMMA WalkDiffers ==
  ASSUME NEW hs \in Seq(Host), Distinct(hs)
  PROVE  Paired(Walk(hs), Differ)
<1> DEFINE Loop(phase) == [k \in DOMAIN hs |-> Place(phase, hs[k], FALSE, 0)]
<1>1. Len(hs) \in Nat /\ DOMAIN hs = 1..Len(hs) /\ \A k \in DOMAIN hs : hs[k] \in Host
  BY ListFacts
<1>2. ASSUME NEW phase \in Phases
      PROVE  /\ Loop(phase) \in Seq(PlaceType) /\ Paired(Loop(phase), Differ)
             /\ \A pl \in ToSet(Loop(phase)) : pl.phase = phase /\ pl \in PlaceType
  <2>1. \A k \in DOMAIN hs : /\ Place(phase, hs[k], FALSE, 0) \in PlaceType
                             /\ Place(phase, hs[k], FALSE, 0).host = hs[k]
                             /\ Place(phase, hs[k], FALSE, 0).phase = phase
    BY <1>1, PlaceFacts DEF Place
  <2>2. Loop(phase) \in [1..Len(hs) -> PlaceType]
    BY <1>1, <2>1
  <2>3. Loop(phase) \in Seq(PlaceType)
    BY <1>1, <2>2, SeqDef
  <2>4. Paired(Loop(phase), Differ)
    <3> SUFFICES ASSUME NEW j \in DOMAIN hs, NEW k \in DOMAIN hs, j < k
                 PROVE  <<Place(phase, hs[j], FALSE, 0), Place(phase, hs[k], FALSE, 0)>> \in Differ
      BY DEF Paired
    <3>1. hs[j] # hs[k]
      BY <1>1 DEF Distinct
    <3> QED BY <2>1, <3>1 DEF Differ
  <2>5. \A pl \in ToSet(Loop(phase)) : pl.phase = phase /\ pl \in PlaceType
    BY <2>1 DEF ToSet
  <2> QED BY <2>3, <2>4, <2>5
<1>3. Walk(hs) = Loop("PostLoad") \o Loop("Awake") \o Loop("CheckActivity") \o Loop("Start")
  BY DEF Walk
<1> HIDE DEF Loop
<1> DEFINE p == Loop("PostLoad")
           a == Loop("Awake")
           c == Loop("CheckActivity")
           t == Loop("Start")
<1>4. /\ p \in Seq(PlaceType) /\ Paired(p, Differ)
      /\ a \in Seq(PlaceType) /\ Paired(a, Differ)
      /\ c \in Seq(PlaceType) /\ Paired(c, Differ)
      /\ t \in Seq(PlaceType) /\ Paired(t, Differ)
      /\ \A pl \in ToSet(p) \cup ToSet(a) \cup ToSet(t) : pl \in PlaceType /\ pl.phase # "CheckActivity"
      /\ \A pl \in ToSet(c) : pl \in PlaceType
  BY <1>2 DEF Phases
<1>5. Walk(hs) = p \o a \o c \o t
  BY <1>3
<1> HIDE DEF p, a, c, t
<1>6. \A x \in ToSet(p) \cup ToSet(a) \cup ToSet(t), y \in PlaceType :
        <<x, y>> \in Differ /\ <<y, x>> \in Differ
  BY <1>4 DEF Differ
<1> DEFINE pa == p \o a
           pac == pa \o c
<1>7. pa \in Seq(PlaceType) /\ ToSet(pa) = ToSet(p) \cup ToSet(a)
  BY <1>4, ConcatFacts
<1>8. Paired(pa, Differ)
  BY <1>4, <1>6, PairedConcat
<1> HIDE DEF pa
<1>9. pac \in Seq(PlaceType) /\ ToSet(pac) = ToSet(pa) \cup ToSet(c)
  BY <1>4, <1>7, ConcatFacts
<1>10. Paired(pac, Differ)
  BY <1>4, <1>6, <1>7, <1>8, PairedConcat
<1> HIDE DEF pac
<1>11. Paired(pac \o t, Differ)
  BY <1>4, <1>6, <1>7, <1>9, <1>10, PairedConcat
<1> QED BY <1>5, <1>11 DEF pac, pa

\* The components cs are destroyed.
LEMMA RunGone ==
  ASSUME TypeOK, SceneInv, RunInv,
         NEW cs \in Seq(Component), Distinct(cs), DestroyComponent(cs),
         UNCHANGED <<children, destroyed, work, enabled, active, awake, started, added, lost>>,
         dirty \subseteq dirty',
         \A h \in Host :
           \/ comps'[h] = comps[h] /\ ToSet(comps[h]) \cap ToSet(cs) = {}
           \/ comps'[h] = <<>> /\ (h \in destroyed \/ h = Scene)
  PROVE  RunInv'
<1>1. /\ ControlType /\ PartsType /\ UpdaterType /\ PoolTable /\ GravesType
      /\ DoneInv /\ OffInv /\ Apart(work) /\ ActiveInv
  BY TypeGroups DEF SceneInv, PoolInv, RunInv
<1>2. /\ \A x : Parent(x)' = Parent(x)
      /\ \A x : Up(x)' = Up(x)
  BY SameTree
<1>3. InPool' = InPool \ (ToSet(cs) \cap attached) /\ attached' = attached \ ToSet(cs)
  BY <1>1, DestroyFacts
<1>4. \A h \in Host : Sure(h)' => Sure(h) /\ Up(h)' = Up(h) /\ h \notin destroyed
  BY <1>1, <1>2, SureBack DEF Sure, Unlost
<1>5. DoneInv'
  <2> SUFFICES ASSUME NEW h \in Host, Sure(h)'
               PROVE  /\ Sure(h) /\ Up(h)' = Up(h) /\ dirty \cap Up(h) \subseteq dirty'
                      /\ comps'[h] = comps[h] \/ (comps'[h] = <<>> /\ h = Scene)
                      /\ \A x \in Up(h) \cup ToSet(comps[h]) : x \in enabled' <=> x \in enabled
                      /\ h # Scene \/ comps'[h] # <<>> =>
                           \A c \in ToSet(comps[h]) : c \in attached => c \in attached'
    BY <1>1, DoneFrame
  <2>1. Sure(h) /\ Up(h)' = Up(h) /\ h \notin destroyed
    BY <1>4
  <2> QED BY <1>3, <2>1
<1>6. OffInv'
  <2>1. \A o \in Object \ lost' :
          comps'[o] = comps[o] \/ \A c \in ToSet(comps'[o]) : c \in active => o \in active
    BY EmptyList, HostFacts
  <2> QED BY <1>1, <1>2, <2>1, OffFrame
<1>7. Apart(work)'
  BY <1>1, <1>4, ApartSame
<1>8. ActiveInv'
  <2>1. \A h \in Host : \A c \in ToSet(comps'[h]) : c \in ToSet(comps[h]) /\ c \notin ToSet(cs)
    BY EmptyList
  <2> QED BY <1>1, <1>3, <2>1, ActiveFrame
<1> QED BY <1>5, <1>6, <1>7, <1>8 DEF RunInv

LEMMA RunSame ==
  ASSUME TypeOK, RunInv,
         UNCHANGED <<children, destroyed, comps, added, attached, awake, started, enabled, active,
                     dirty, index, work, lost>>
  PROVE  RunInv'
<1>1. ControlType
  BY TypeGroups
<1>2. /\ \A x : Parent(x)' = Parent(x)
      /\ \A x : Up(x)' = Up(x)
  BY SameTree
<1>3. \A h \in Host : Sure(h)' => Sure(h) /\ Up(h)' = Up(h)
  BY <1>1, <1>2, SureBack
<1> QED BY <1>1, <1>2, <1>3, RunTree

LEMMA RunBuild ==
  ASSUME TypeOK, SceneInv, RunInv, BuildBegin
  PROVE  RunInv'
<1>1. /\ ControlType /\ TreeType /\ TreeInv /\ FrameInv /\ PartsType
      /\ DoneInv /\ OffInv /\ ActiveInv
      /\ \A h \in Host : h \in Up(h) /\ Up(h) \subseteq Host
      /\ Object \subseteq Host /\ Scene \in Host /\ Scene \notin Object
  BY TypeGroups, UpFacts, HostFacts DEF SceneInv, RunInv
<1>2. /\ UNCHANGED <<children, destroyed, comps, added, attached, awake, started, enabled, active,
                     dirty, index, lost>>
      /\ pc = "prepared"
      /\ \/ UNCHANGED work
         \/ root' \in GetRootSceneObjects /\ work' = Walk(<<Scene>>) \o Walk(root')
  <2>1. UNCHANGED <<tree, parts, flags, updater, ghosts>>
    BY Keeps
  <2> QED BY <2>1 DEF BuildBegin, tree, parts, flags, updater, ghosts
<1>3. CASE UNCHANGED work
  BY <1>2, <1>3, RunSame
<1>4. CASE root' \in GetRootSceneObjects /\ work' = Walk(<<Scene>>) \o Walk(root')
  <2>1. work = <<>> /\ life = "alive"
    BY <1>1, <1>2 DEF FrameInv, ControlType
  <2>2. /\ root' \in Seq(Object) /\ Distinct(root')
        /\ ToSet(root') \subseteq Object
        /\ \A h \in ToSet(root') : Parent(h) = Null
    BY <1>4, <2>1, RootsFacts
  <2> DEFINE one == <<Scene>>
             s == Walk(one)
             t == Walk(root')
  <2>3. /\ root' \in Seq(Host) /\ one \in Seq(Host) /\ Distinct(one) /\ ToSet(one) = {Scene}
    BY <1>1, <2>2, SeqMonotonic DEF ToSet, Distinct
  <2> HIDE DEF one
  <2>4. /\ s \in Seq(PlaceType) /\ t \in Seq(PlaceType)
        /\ Paired(s, Differ) /\ Paired(t, Differ)
        /\ \A pl \in ToSet(s) : pl.host \in ToSet(one)
        /\ \A pl \in ToSet(t) : pl.host \in ToSet(root')
        /\ \A h \in ToSet(one), phase \in Phases : Place(phase, h, FALSE, 0) \in ToSet(s)
        /\ \A h \in ToSet(root'), phase \in Phases : Place(phase, h, FALSE, 0) \in ToSet(t)
    BY <2>2, <2>3, WalkFacts, WalkDiffers
  <2>5. work' = s \o t
    BY <1>4 DEF one
  <2> HIDE DEF s, t
  <2>6. ToSet(work') = ToSet(s) \cup ToSet(t)
    BY <2>4, <2>5, ConcatFacts
  <2>7. \A x \in ToSet(s) \cup ToSet(t) : x \in PlaceType
    BY <2>4, ListFacts
  <2>8. Paired(work', Differ)
    <3>1. \A x \in ToSet(s), y \in ToSet(t) : <<x, y>> \in Differ
      BY <1>1, <2>2, <2>3, <2>4, <2>7 DEF Differ
    <3> QED BY <2>4, <2>5, <3>1, PairedConcat
  <2>9. \A pl \in ToSet(work') : /\ pl \in PlaceType /\ Parent(pl.host) = Null
                                 /\ \A phase \in Phases :
                                      Place(phase, pl.host, FALSE, 0) \in ToSet(work')
    <3>1. Parent(Scene) = Null
      BY <1>1, TreeFacts
    <3> QED BY <2>2, <2>3, <2>4, <2>6, <2>7, <3>1
  <2>10. \A x : Up(x)' = Up(x) /\ Parent(x)' = Parent(x)
    BY <1>2, SameTree
  <2>11. \A h \in Host : Parent(h) = Null => Up(h) = {h}
    BY <1>1, UpFacts
  <2>12. Apart(work)'
    <3> SUFFICES ASSUME NEW j \in DOMAIN work', NEW k \in DOMAIN work', j < k,
                        work'[j].phase = "CheckActivity", work'[k].phase = "CheckActivity"
                 PROVE  Distant(work[j].host, work[k].host)'
      BY DEF Apart
    <3>1. /\ work'[j].host # work'[k].host
          /\ work'[j] \in ToSet(work') /\ work'[k] \in ToSet(work')
      BY <2>8 DEF Paired, Differ, ToSet
    <3>2. PICK g \in Host, h \in Host : g = work'[j].host /\ h = work'[k].host
      BY <2>9, <3>1 DEF PlaceType
    <3>3. Up(g)' = {g} /\ Up(h)' = {h}
      BY <2>9, <2>10, <2>11, <3>1, <3>2
    <3>4. Distant(g, h)'
      BY <3>1, <3>2, <3>3 DEF Distant
    <3> QED BY <3>2, <3>4
  <2>13. OffInv'
    <3>1. \A o : ~Entering(o) /\ \A k : ~PartEntering(o, k)
      BY <2>1, EmptyList DEF Entering, PartEntering
    <3> QED BY <1>1, <1>2, <2>10, <3>1 DEF OffInv
  <2>14. ActiveInv'
    <3>1. InPool' = InPool
      BY <1>2 DEF InPool
    <3> QED BY <1>1, <1>2, <3>1 DEF ActiveInv
  <2>15. DoneInv'
    <3> SUFFICES ASSUME NEW h \in Host, Sure(h)'
                 PROVE  /\ \A k \in DOMAIN comps[h] : PartDone(h, k)'
                        /\ h \in Object => ObjectDone(h)'
      BY <1>2 DEF DoneInv
    <3>1. PICK top \in Up(h) : /\ Parent(top) = Null /\ top \in Host
                             /\ \A x \in Up(h) : Parent(x) = Null => x = top
      BY <1>1, UpFacts
    <3>2. CASE top \in dirty
      <4>1. Overtaken(top)'
        BY <1>2, <2>10, <3>1, <3>2 DEF Sure
      <4>2. PICK pl \in ToSet(work') : pl.host = top
        BY <2>10, <2>11, <3>1, <4>1, OvertakenNext
      <4>3. \A phase \in Phases : Place(phase, top, FALSE, 0) \in ToSet(work')
        BY <2>9, <4>2
      <4>4. \A phase \in Phases, k \in Nat : ToCome(phase, h, k)'
        <5> SUFFICES ASSUME NEW phase \in Phases, NEW k \in Nat PROVE ToCome(phase, h, k)'
          OBVIOUS
        <5>1. PICK place \in ToSet(work') : place = Place(phase, top, FALSE, 0)
          BY <4>3
        <5>2. place.phase = phase /\ place.host = top /\ place.at = 0
          BY <5>1 DEF Place
        <5>3. place.host \in dirty' /\ place.host \in Up(h)' /\ place.at <= k
          BY <1>2, <2>10, <3>1, <3>2, <5>2
        <5> QED BY <5>2, <5>3, ToComeNext
      <4>5. DOMAIN comps[h] \subseteq Nat
        BY <1>1, ListFacts DEF PartsType
      <4>6. \A phase \in Phases, k \in DOMAIN comps[h] : ToCome(phase, h, k)'
        BY <4>4, <4>5
      <4>7. ToCome("CheckActivity", h, 0)'
        BY <4>4 DEF Phases
      <4> QED BY <4>6, <4>7 DEF PartDone, ObjectDone
    <3>3. CASE top \notin dirty
      <4>1. Sure(h)
        BY <1>2, <2>10, <3>1, <3>3 DEF Sure, Unlost
      <4>2. \A phase, k : ~ToCome(phase, h, k)
        BY <2>1, EmptyList DEF ToCome
      <4>3. /\ \A k \in DOMAIN comps[h] : PartDone(h, k)
            /\ h \in Object => ObjectDone(h)
        BY <1>1, <4>1 DEF DoneInv
      <4>4. \A c : On(h, c)' <=> On(h, c)
        BY <1>2, <2>10 DEF On
      <4> QED BY <1>2, <2>10, <4>2, <4>3, <4>4 DEF PartDone, Did, ObjectDone
    <3> QED BY <3>2, <3>3
  <2> QED BY <2>12, <2>13, <2>14, <2>15 DEF RunInv
<1> QED BY <1>2, <1>3, <1>4

LEMMA RunFrame ==
  ASSUME TypeOK, SceneInv, RunInv
  PROVE  /\ PrepareBegin \/ PrepareOnDestroy \/ PrepareEnd \/ SceneDestroy => RunInv'
         /\ BuildEnd \/ Update \/ UpdateEnd => RunInv'
<1>1. /\ PartsType /\ CompInv /\ GravesType /\ QueueInv /\ Object \subseteq Host /\ Scene \in Host
      /\ \A h \in Host : /\ comps[h] \in Seq(Component) /\ Distinct(comps[h])
                         /\ \A c \in ToSet(comps[h]) : host[c] = h
  BY TypeGroups, CompFacts, HostFacts DEF SceneInv
<1>2. ASSUME PrepareBegin PROVE RunInv'
  <2>1. /\ comps' = [h \in Host |-> IF Contains(deleteQueue, h) THEN <<>> ELSE comps[h]]
        /\ UNCHANGED <<children, destroyed, work, enabled, active, awake, started, added, lost>>
        /\ dirty \subseteq dirty'
    <3>1. UNCHANGED <<tree, flags>>
      BY <1>2, Keeps
    <3> QED BY <1>2, <3>1 DEF PrepareBegin, tree, flags
  <2>2. PICK gone \in Seq(Component) :
          /\ Distinct(gone) /\ DestroyComponent(gone)
          /\ ToSet(gone) = UNION {ToSet(comps[o]) : o \in ToSet(deleteQueue)}
    BY <1>1, <1>2, PrepareComps
  <2>3. /\ \A h : Contains(deleteQueue, h) <=> h \in ToSet(deleteQueue)
        /\ ToSet(deleteQueue) \subseteq Object \cap destroyed
    BY <1>1, ListFacts DEF QueueInv, GravesType
  <2>4. ASSUME NEW h \in Host
        PROVE  \/ comps'[h] = comps[h] /\ ToSet(comps[h]) \cap ToSet(gone) = {}
               \/ comps'[h] = <<>> /\ (h \in destroyed \/ h = Scene)
    <3>1. CASE h \in ToSet(deleteQueue)
      BY <2>1, <2>3, <3>1
    <3>2. CASE h \notin ToSet(deleteQueue)
      <4>1. comps'[h] = comps[h]
        BY <2>1, <2>3, <3>2
      <4>2. ASSUME NEW d \in ToSet(comps[h]), d \in ToSet(gone) PROVE FALSE
        <5>1. PICK o \in ToSet(deleteQueue) : d \in ToSet(comps[o])
          BY <2>2, <4>2
        <5>2. host[d] = h /\ host[d] = o
          BY <1>1, <2>3, <4>2, <5>1
        <5> QED BY <3>2, <5>2
      <4> QED BY <4>1, <4>2
    <3> QED BY <3>1, <3>2
  <2> QED BY <2>1, <2>2, <2>4, RunGone
<1>3. ASSUME SceneDestroy PROVE RunInv'
  <2>1. /\ DestroyComponent(comps[Scene])
        /\ comps' = [comps EXCEPT ![Scene] = <<>>]
        /\ UNCHANGED <<children, destroyed, work, enabled, active, awake, started, added, lost>>
        /\ dirty \subseteq dirty'
    BY <1>3 DEF SceneDestroy, tree, flags
  <2>2. ASSUME NEW h \in Host
        PROVE  \/ comps'[h] = comps[h] /\ ToSet(comps[h]) \cap ToSet(comps[Scene]) = {}
               \/ comps'[h] = <<>> /\ (h \in destroyed \/ h = Scene)
    <3>1. CASE h = Scene
      BY <1>1, <2>1, <3>1 DEF PartsType
    <3>2. CASE h # Scene
      <4>1. comps'[h] = comps[h]
        BY <1>1, <2>1, <3>2 DEF PartsType
      <4>2. \A d \in ToSet(comps[h]) : d \notin ToSet(comps[Scene])
        BY <1>1, <3>2
      <4> QED BY <4>1, <4>2
    <3> QED BY <3>1, <3>2
  <2>3. comps[Scene] \in Seq(Component) /\ Distinct(comps[Scene])
    BY <1>1
  <2> QED BY <2>1, <2>2, <2>3, RunGone
<1>4. ASSUME PrepareOnDestroy PROVE RunInv'
  <2>1. UNCHANGED <<children, destroyed, comps, added, attached, awake, started, enabled, active,
                    dirty, index, work, lost>>
    BY <1>4 DEF PrepareOnDestroy, tree, flags, marks, updater, ghosts
  <2> QED BY <2>1, RunSame
<1>5. ASSUME PrepareEnd PROVE RunInv'
  <2>1. UNCHANGED <<children, destroyed, comps, added, attached, awake, started, enabled, active,
                    dirty, index, work, lost>>
    BY <1>5 DEF PrepareEnd, parts, flags, marks, updater
  <2> QED BY <2>1, RunSame
<1>6. ASSUME BuildEnd \/ Update \/ UpdateEnd PROVE RunInv'
  <2>1. UNCHANGED <<children, destroyed, comps, added, attached, awake, started, enabled, active,
                    dirty, index, lost>>
    BY <1>6, Keeps DEF tree, parts, flags, marks, updater, ghosts
  <2>2. UNCHANGED work
    BY <1>6 DEF BuildEnd, Update, UpdateEnd
  <2> QED BY <2>1, <2>2, RunSame
<1> QED BY <1>2, <1>3, <1>4, <1>5, <1>6

LEMMA RunInit ==
  ASSUME Init
  PROVE  RunInv
<1>1. /\ dirty = Host /\ work = <<>> /\ active = {} /\ lost = {} /\ destroyed = {}
  BY DEF Init
<1>2. TypeOK /\ SceneInv
  <2>1. Inv /\ halts = {}
    BY InvInit DEF Init
  <2> QED BY <2>1 DEF Inv
<1>3. TreeType /\ TreeInv /\ ControlType
  BY <1>2, TypeGroups DEF SceneInv
<1>4. DoneInv
  <2> SUFFICES ASSUME NEW h \in Host, Sure(h) PROVE FALSE
    BY DEF DoneInv
  <2>1. PICK top \in Up(h) : Parent(top) = Null /\ top \in Host
    BY <1>3, UpFacts
  <2>2. Overtaken(top)
    BY <1>1, <2>1 DEF Sure
  <2> QED BY <1>1, <2>2, EmptyList DEF Overtaken
<1>5. OffInv
  BY <1>1 DEF OffInv
<1>6. Apart(work)
  BY <1>1, EmptyList DEF Apart
<1>7. ActiveInv
  BY <1>1 DEF ActiveInv
<1> QED BY <1>4, <1>5, <1>6, <1>7 DEF RunInv

-----------------------------------------------------------------------------
(* The walk comes on *)

Walks == Visit \/ CallComponent \/ LeaveComponents

\* The walk is at a place from where it comes to component k of y, or to y.
Ahead(phase, y, k) ==
  /\ Head(work).phase = phase /\ Due(Head(work))
  /\ Head(work).host \in Up(y)
  /\ Head(work).host = y => Head(work).at <= k

LEMMA WalkKeeps ==
  ASSUME TypeOK, SceneInv, Walks
  PROVE  /\ UNCHANGED <<children, destroyed, comps, enabled, added, host>>
         /\ lost \subseteq lost' /\ attached \subseteq attached' /\ awake \subseteq awake'
         /\ started \subseteq started'
         /\ \A x : Up(x)' = Up(x) /\ Parent(x)' = Parent(x)
         /\ work # <<>> /\ halts = {}
         /\ Head(work) \in PlaceType /\ Tail(work) \in Seq(PlaceType)
         /\ ToSet(work) = {Head(work)} \cup ToSet(Tail(work))
         /\ \A pl \in ToSet(work) : pl \in PlaceType
<1>1. ControlType
  BY TypeGroups
<1>2. UNCHANGED <<children, destroyed, comps, enabled, added, host>> /\ work # <<>> /\ halts = {}
  BY DEF Walks, Visit, CallComponent, LeaveComponents, tree, parts, flags
<1>3. lost \subseteq lost' /\ attached \subseteq attached' /\ awake \subseteq awake'
      /\ started \subseteq started'
  <2>1. CASE Visit \/ LeaveComponents
    <3>1. UNCHANGED <<parts, ghosts>>
      BY <2>1, Keeps
    <3> QED BY <3>1 DEF parts, ghosts
  <2>2. CASE CallComponent
    BY <2>2 DEF CallComponent
  <2> QED BY <2>1, <2>2 DEF Walks
<1>4. \A x : Up(x)' = Up(x) /\ Parent(x)' = Parent(x)
  BY <1>2, SameTree
<1>5. /\ Head(work) \in PlaceType /\ Tail(work) \in Seq(PlaceType)
      /\ ToSet(work) = {Head(work)} \cup ToSet(Tail(work))
      /\ \A pl \in ToSet(work) : pl \in PlaceType
  BY <1>1, <1>2, TailFacts, ListFacts DEF ControlType
<1> QED BY <1>2, <1>3, <1>4, <1>5

\* Only the Start of a host clears flags, below it.
LEMMA WalkClears ==
  ASSUME TypeOK, SceneInv, Walks, NEW x \in dirty, x \notin dirty'
  PROVE  /\ Head(work).phase = "Start" /\ Head(work).at = 0 /\ Due(Head(work))
         /\ Head(work).host \in Up(x) /\ x \in Host
<1>1. ControlType /\ TreeType /\ TreeInv /\ MarksType /\ Scene \in Host
  BY TypeGroups, HostFacts DEF SceneInv
<1>2. Visit
  <2>1. CallComponent \/ LeaveComponents => UNCHANGED dirty
    BY DEF CallComponent, LeaveComponents
  <2> QED BY <2>1 DEF Walks
<1>3. /\ Head(work).phase = "Start" /\ Head(work).at = 0 /\ Due(Head(work))
      /\ SetDirtyFalse(Head(work).host)
  BY <1>2 DEF Visit, Due
<1>4. x \in Host
  BY <1>1 DEF MarksType
<1>5. Head(work).host \in Up(x)
  <2>1. CASE Head(work).host = Scene
    <3>1. x = Scene
      BY <1>3, <2>1 DEF SetDirtyFalse
    <3> QED BY <1>1, <2>1, <3>1, UpFacts
  <2>2. CASE Head(work).host # Scene
    <3>1. x \in Cleaned(Head(work).host)
      BY <1>3, <2>2 DEF SetDirtyFalse
    <3> QED BY <3>1, CleanedFacts DEF Below
  <2> QED BY <2>1, <2>2
<1> QED BY <1>3, <1>4, <1>5

\* No host becomes sure while Build is under way.
LEMMA SureWalk ==
  ASSUME TypeOK, SceneInv, WalkInv, Walks, NEW y \in Host, Sure(y)'
  PROVE  Sure(y)
<1>1. ControlType /\ TreeType /\ TreeInv
  BY TypeGroups DEF SceneInv
<1>2. /\ UNCHANGED destroyed /\ lost \subseteq lost'
      /\ \A x : Up(x)' = Up(x) /\ Parent(x)' = Parent(x)
      /\ ToSet(work) = {Head(work)} \cup ToSet(Tail(work))
      /\ Tail(work) \in Seq(PlaceType) /\ Head(work) \in PlaceType
  BY WalkKeeps
<1>3. Unlost(y)
  BY <1>2 DEF Sure, Unlost
<1> SUFFICES ASSUME NEW t \in Up(y), Parent(t) = Null, t \in dirty PROVE Overtaken(t)
  BY <1>3 DEF Sure
<1>4. Up(t) = {t} /\ t \in Host
  BY <1>1, UpFacts
<1>5. CASE t \in dirty'
  <2>1. Overtaken(t)'
    BY <1>2, <1>5 DEF Sure
  <2>2. PICK pl \in ToSet(work') : Clears(pl) /\ pl.host \in Up(t)
    BY <1>2, <2>1, OvertakenNext
  <2>3. pl \in ToSet(Tail(work))
    <3>1. PICK f \in Seq(PlaceType) :
            /\ work' = f \o Tail(work)
            /\ \/ f = <<>>
               \/ \E next \in PlaceType : f = <<next>> /\ next.at # 0
               \/ f = Children(Head(work).phase, Head(work).host)
      BY WalkSteps DEF Walks
    <3>2. ToSet(work') = ToSet(f) \cup ToSet(Tail(work))
      <4>1. Tail(work) \in Seq(PlaceType)
        BY <1>2
      <4>2. ToSet(f \o Tail(work)) = ToSet(f) \cup ToSet(Tail(work))
        BY ZenonT(60), <4>1, ConcatFacts
      <4>3. work' = f \o Tail(work)
        BY <3>1
      <4> QED BY <4>2, <4>3
    <3>3. \A place \in ToSet(f) : ~Clears(place)
      <4>1. CASE f = <<>>
        BY <4>1, EmptyList
      <4>2. CASE \E next \in PlaceType : f = <<next>> /\ next.at # 0
        BY <4>2 DEF ToSet, Clears
      <4>3. CASE f = Children(Head(work).phase, Head(work).host)
        BY <1>1, <1>2, <4>3, ChildrenFacts DEF Clears, PlaceType
      <4> QED BY <3>1, <4>1, <4>2, <4>3
    <3> QED BY <2>2, <3>2, <3>3
  <2> QED BY <1>1, <1>2, <2>2, <2>3, OvertakenFacts
<1>6. CASE t \notin dirty'
  <2>1. /\ Head(work).phase = "Start" /\ Head(work).at = 0 /\ Head(work).host = t
    BY <1>4, <1>6, WalkClears
  <2>2. Head(work) \in ToSet(work) /\ ~Head(work).force
    BY <1>2, <2>1 DEF WalkInv
  <2> QED BY <1>1, <1>4, <2>1, <2>2, OvertakenFacts DEF Clears
<1> QED BY <1>5, <1>6

\* What is behind the place that the walk is at.
LEMMA NoEarlier ==
  ASSUME TypeOK, SceneInv, WalkInv, Walks, NEW y \in Host, Head(work).host \in Up(y),
         NEW pl \in ToSet(Tail(work)), Later(Head(work).phase, pl.phase)
  PROVE  pl.host \notin Up(y)
<1>1. ControlType /\ TreeType /\ TreeInv /\ work \in Seq(PlaceType) /\ work # <<>>
  BY TypeGroups, WalkKeeps DEF SceneInv, ControlType
<1>2. PICK k \in DOMAIN Tail(work) : pl = Tail(work)[k]
  BY DEF ToSet
<1>3. /\ Head(work) = work[1] /\ 1 \in DOMAIN work
      /\ k + 1 \in DOMAIN work /\ pl = work[k + 1] /\ k \in Nat \ {0}
  BY <1>1, <1>2, TailFacts
<1>4. Head(work).host = Scene /\ pl.host # Scene
  <2>1. 1 < k + 1
    BY <1>3
  <2> QED BY <1>3, <2>1 DEF WalkInv, Ordered
<1>5. y = Scene /\ Up(Scene) = {Scene}
  BY <1>1, <1>4, TreeFacts, HostFacts DEF Host
<1> QED BY <1>4, <1>5

LEMMA NotToCome ==
  ASSUME TypeOK, SceneInv, WalkInv, Walks, NEW y \in Host, Head(work).host \in Up(y),
         NEW phase, Later(Head(work).phase, phase)
  PROVE  \A k : ~ToCome(phase, y, k)
<1> SUFFICES ASSUME NEW pl \in ToSet(work), pl.phase = phase, pl.host \in Up(y) PROVE FALSE
  BY DEF ToCome
<1>1. Head(work) \in PlaceType /\ ToSet(work) = {Head(work)} \cup ToSet(Tail(work))
  BY WalkKeeps
<1>2. pl # Head(work)
  BY DEF Later
<1> QED BY <1>1, <1>2, NoEarlier

\* The walk does not lose what is to come.
LEMMA ComesOn ==
  ASSUME TypeOK, SceneInv, WalkInv, Walks, NEW y \in Host, NEW phase, NEW k \in Nat,
         ToCome(phase, y, k), ~ToCome(phase, y, k)'
  PROVE  Ahead(phase, y, k)
<1>1. /\ \A x : Up(x)' = Up(x)
      /\ ToSet(work) = {Head(work)} \cup ToSet(Tail(work))
      /\ \A pl \in ToSet(work) : pl \in PlaceType
      /\ Tail(work) \in Seq(PlaceType)
  BY WalkKeeps
<1>2. TreeType /\ TreeInv
  BY TypeGroups DEF SceneInv
<1>3. PICK pl \in ToSet(work) :
        /\ pl.phase = phase /\ Due(pl) /\ pl.host \in Up(y)
        /\ pl.host = y => pl.at <= k
  BY DEF ToCome
<1>4. CASE pl = Head(work)
  BY <1>3, <1>4 DEF Ahead
<1>5. CASE pl \in ToSet(Tail(work))
  <2>1. pl \in ToSet(work')
    <3>1. PICK f \in Seq(PlaceType) : work' = f \o Tail(work)
      BY WalkSteps DEF Walks
    <3>2. ToSet(work') = ToSet(f) \cup ToSet(Tail(work))
      BY ZenonT(60), <1>1, <3>1, ConcatFacts
    <3> QED BY <1>5, <3>2
  <2>2. ~(pl.force \/ pl.at > 0 \/ pl.host \in dirty')
    BY <1>1, <1>3, <2>1, ToComeNext
  <2>3. pl.host \in dirty /\ pl.host \notin dirty'
    BY <1>3, <2>2 DEF Due
  <2>4. /\ Head(work).phase = "Start" /\ Head(work).at = 0 /\ Due(Head(work))
        /\ Head(work).host \in Up(pl.host) /\ pl.host \in Host
    BY <2>3, WalkClears
  <2>5. Head(work).host \in Up(y)
    BY <1>2, <1>3, <2>4, UpFacts
  <2>6. phase = "Start"
    <3>1. ~Later("Start", phase)
      BY <1>3, <1>5, <2>4, <2>5, NoEarlier
    <3> QED BY <3>1 DEF Later
  <2> QED BY <2>4, <2>5, <2>6 DEF Ahead
<1> QED BY <1>1, <1>4, <1>5

\* It goes on to the components of a host and to its children.
LEMMA NextComes ==
  ASSUME TypeOK, SceneInv, Walks, NEW y \in Host, NEW phase, NEW k \in Nat,
         Head(work).host \in Up(y), NEW next \in ToSet(work'),
         next.phase = phase, next.host = Head(work).host, next.at > 0,
         Head(work).host = y => next.at <= k
  PROVE  ToCome(phase, y, k)'
<1>1. \A x : Up(x)' = Up(x)
  BY WalkKeeps
<1> QED BY <1>1, ToComeNext

LEMMA ChildComes ==
  ASSUME TypeOK, SceneInv, Walks, NEW y \in Host, NEW phase \in Phases, NEW k \in Nat,
         NEW h \in Up(y), h # y, ToSet(Children(phase, h)) \subseteq ToSet(work')
  PROVE  ToCome(phase, y, k)'
<1>1. TreeType /\ TreeInv /\ \A x : Up(x)' = Up(x)
  BY TypeGroups, WalkKeeps DEF SceneInv
<1>2. y \in Object
  BY <1>1, TreeFacts DEF Host
<1>3. PICK x \in Object : x \in Up(y) /\ Parent(x) = h
  BY <1>1, <1>2, ChildOnTheWay
<1>4. h \in Host
  BY <1>1, UpFacts
<1>5. PICK pl \in ToSet(Children(phase, h)) : pl.host = x /\ pl.phase = phase /\ pl.force
  BY <1>1, <1>3, <1>4, ChildrenFacts
<1>6. pl.at = 0
  <2>1. \E z : pl = Place(phase, z, TRUE, 0)
    <3>1. CASE h = Scene
      BY <3>1, <1>5, EmptyList DEF Children
    <3>2. CASE h # Scene
      BY <3>2, <1>5 DEF Children, ToSet
    <3> QED BY <3>1, <3>2
  <2> QED BY <2>1 DEF Place
<1>7. pl \in ToSet(work') /\ pl.host \in Up(y)' /\ pl.at <= k
  BY <1>1, <1>3, <1>5, <1>6
<1> QED BY <1>5, <1>7, ToComeNext

-----------------------------------------------------------------------------
(* CheckActivity *)

\* It visits nothing twice.
LEMMA OnlyHere ==
  ASSUME TypeOK, SceneInv, FlagInv, RunInv, Walks, Head(work).phase = "CheckActivity",
         NEW y \in Host, Sure(y), Head(work).host \in Up(y),
         NEW pl \in ToSet(Tail(work)), pl.phase = "CheckActivity"
  PROVE  pl.host \notin Up(y)
<1> SUFFICES ASSUME pl.host \in Up(y) PROVE FALSE
  OBVIOUS
<1>1. /\ ControlType /\ TreeType /\ TreeInv /\ UpClosed(dirty) /\ Apart(work)
      /\ work \in Seq(PlaceType) /\ work # <<>>
  BY TypeGroups, WalkKeeps DEF SceneInv, FlagInv, MarkInv, RunInv, ControlType
<1>2. PICK k \in DOMAIN Tail(work) : pl = Tail(work)[k]
  BY DEF ToSet
<1>3. /\ Head(work) = work[1] /\ 1 \in DOMAIN work
      /\ k + 1 \in DOMAIN work /\ pl = work[k + 1] /\ k \in Nat \ {0}
  BY <1>1, <1>2, TailFacts
<1>4. 1 < k + 1
  BY <1>3
<1>5. Distant(Head(work).host, pl.host)
  BY <1>1, <1>3, <1>4 DEF Apart
<1>6. Sure(Head(work).host) /\ Sure(pl.host)
  BY <1>1, SureUp
<1>7. pl.host \in Up(Head(work).host) \/ Head(work).host \in Up(pl.host)
  BY <1>1, UpFacts
<1> QED BY <1>5, <1>6, <1>7 DEF Distant

\* When CheckActivity is at an object, it is done with what is above.
LEMMA HereActive ==
  ASSUME TypeOK, SceneInv, FlagInv, RunInv, Walks, Head(work).phase = "CheckActivity",
         NEW h \in Object, h = Head(work).host, Sure(h)
  PROVE  Up(h) \subseteq enabled <=> h \in enabled /\ (Parent(h) = Null \/ Parent(h) \in active)
<1>1. /\ ControlType /\ TreeType /\ TreeInv /\ UpClosed(dirty) /\ DoneInv /\ h \in Host
      /\ ToSet(work) = {Head(work)} \cup ToSet(Tail(work))
      /\ Head(work) \in PlaceType
  BY TypeGroups, WalkKeeps, HostFacts DEF SceneInv, FlagInv, MarkInv, RunInv
<1>2. Up(h) = {h} \cup (IF Parent(h) = Null THEN {} ELSE Up(Parent(h)))
  BY <1>1, UpFacts
<1>3. CASE Parent(h) = Null
  BY <1>2, <1>3
<1>4. CASE Parent(h) # Null
  <2>1. Parent(h) \in Up(h) /\ Parent(h) \in Object /\ Parent(h) \in Host /\ h \notin Up(Parent(h))
        /\ h \in Up(h)
    BY <1>1, <1>4, UpFacts, TreeFacts, Acyclic, HostFacts
  <2>2. Sure(Parent(h))
    BY <1>1, <2>1, SureUp
  <2>3. ~ToCome("CheckActivity", Parent(h), 0)
    <3> SUFFICES ASSUME NEW pl \in ToSet(work), pl.phase = "CheckActivity",
                        pl.host \in Up(Parent(h))
                 PROVE  FALSE
      BY DEF ToCome
    <3>1. pl.host \in Up(h)
      BY <1>2, <1>4
    <3>2. pl \in ToSet(Tail(work))
      BY <1>1, <2>1
    <3> QED BY <1>1, <2>1, <3>1, <3>2, OnlyHere
  <2>4. Parent(h) \in active <=> Up(Parent(h)) \subseteq enabled
    BY <1>1, <2>1, <2>2, <2>3 DEF DoneInv, ObjectDone
  <2> QED BY <1>2, <1>4, <2>4
<1> QED BY <1>3, <1>4

\* Below an object that is off, and at which CheckActivity has not been yet,
\* everything is off.
LEMMA AllOff ==
  ASSUME TypeOK, SceneInv, FlagInv, RunInv, Walks, Head(work).phase = "CheckActivity",
         Head(work).at = 0, NEW h \in Object, h = Head(work).host, h \notin active,
         NEW y \in Object, Sure(y), h \in Up(y)
  PROVE  y \notin active /\ \A k \in DOMAIN comps[y] : comps[y][k] \notin active
<1>1. /\ ControlType /\ TreeType /\ TreeInv /\ UpClosed(dirty) /\ OffInv /\ y \in Host
      /\ Object \subseteq Host
      /\ ToSet(work) = {Head(work)} \cup ToSet(Tail(work))
      /\ Up(y) \cap lost = {}
  BY TypeGroups, WalkKeeps, HostFacts DEF SceneInv, FlagInv, MarkInv, RunInv, Sure, Unlost
<1>2. \A pl \in ToSet(work) : pl.phase = "CheckActivity" /\ pl.host \in Up(y) => pl = Head(work)
  BY <1>1, OnlyHere
<1>3. y \in Up(y) /\ Up(y) \subseteq Host
      /\ \A x \in Up(y) : /\ Parent(x) # Null => Parent(x) \in Up(y)
                          /\ Up(x) = {x} \cup (IF Parent(x) = Null THEN {} ELSE Up(Parent(x)))
  BY <1>1, UpFacts
<1>4. ASSUME y \in active PROVE FALSE
  <2> DEFINE S == {x \in Up(y) : h \in Up(x) => x \in active}
  <2>1. UpClosed(S)
    <3> SUFFICES ASSUME NEW x \in Object, Parent(x) # Null, x \in S PROVE Parent(x) \in S
      BY DEF UpClosed
    <3> SUFFICES ASSUME h \in Up(Parent(x)), Parent(x) \notin active PROVE FALSE
      BY <1>3
    <3>1. h \in Up(x)
      BY <1>3
    <3>2. x \in active /\ x \notin lost
      BY <1>1, <3>1
    <3>3. PICK pl \in ToSet(work) :
            /\ pl.phase = "CheckActivity"
            /\ (pl.host = Parent(x) /\ pl.at > 0) \/ pl.host = x
      BY <1>1, <3>2 DEF OffInv, Entering
    <3>4. pl = Head(work)
      BY <1>2, <1>3, <3>3
    <3> QED BY <3>2, <3>3, <3>4
  <2>2. y \in S
    BY <1>3, <1>4
  <2> HIDE DEF S
  <2>3. Up(y) \subseteq S
    BY <1>1, <2>1, <2>2, ClosedUp
  <2>4. h \in Up(h)
    BY <1>1, UpFacts
  <2> QED BY <2>3, <2>4 DEF S
<1>5. ASSUME NEW k \in DOMAIN comps[y], comps[y][k] \in active PROVE FALSE
  <2>1. y \notin lost
    BY <1>1, <1>3
  <2>2. PICK pl \in ToSet(work) : pl.phase = "CheckActivity" /\ pl.host = y /\ pl.at \in 1..k
    BY <1>1, <1>4, <1>5, <2>1 DEF OffInv, PartEntering
  <2>3. pl = Head(work)
    BY <1>2, <1>3, <2>2
  <2> QED BY <2>2, <2>3
<1> QED BY <1>4, <1>5

\* Places that the walk goes on with are as far apart as the place it was at.
LEMMA ApartWalk ==
  ASSUME TypeOK, SceneInv, FlagInv, RunInv, Walks
  PROVE  Apart(work)'
<1> DEFINE h == Head(work).host
           phase == Head(work).phase
           R == {q \in PlaceType \X PlaceType :
                   q[1].phase = "CheckActivity" /\ q[2].phase = "CheckActivity" =>
                     Distant(q[1].host, q[2].host)}
           T == {q \in PlaceType \X PlaceType :
                   q[1].phase = "CheckActivity" /\ q[2].phase = "CheckActivity" =>
                     /\ Sure(q[2].host)' => q[1].host \notin Up(q[2].host)'
                     /\ Sure(q[1].host)' => q[2].host \notin Up(q[1].host)'}
<1>1. /\ ControlType /\ TreeType /\ TreeInv /\ UpClosed(dirty) /\ WalkInv /\ Apart(work)
      /\ \A x : Up(x)' = Up(x) /\ Parent(x)' = Parent(x)
      /\ work \in Seq(PlaceType) /\ work # <<>>
      /\ Head(work) \in PlaceType /\ Tail(work) \in Seq(PlaceType)
  BY TypeGroups, WalkKeeps DEF SceneInv, FlagInv, MarkInv, RunInv, ControlType
<1>2. h \in Host /\ phase \in Phases
  BY <1>1 DEF PlaceType
<1>3. \A y \in Host : Sure(y)' => Sure(y)
  BY <1>1, SureWalk
<1>4. R \subseteq T
  BY <1>1, <1>3 DEF Distant, PlaceType
<1>5. Paired(Tail(work), T) /\ \A pl \in ToSet(Tail(work)) : <<Head(work), pl>> \in R
  <2>1. /\ \A k \in DOMAIN Tail(work) : k + 1 \in DOMAIN work /\ Tail(work)[k] = work[k + 1] /\ k \in Nat \ {0}
        /\ 1 \in DOMAIN work /\ Head(work) = work[1]
    BY <1>1, TailFacts
  <2>2. \A j, k \in DOMAIN work : j < k => <<work[j], work[k]>> \in R
    <3>1. \A k \in DOMAIN work : work[k] \in PlaceType
      BY <1>1, ListFacts
    <3> QED BY <1>1, <3>1 DEF Apart
  <2> HIDE DEF R, T
  <2>3. ASSUME NEW j \in DOMAIN Tail(work), NEW k \in DOMAIN Tail(work), j < k
        PROVE  <<Tail(work)[j], Tail(work)[k]>> \in T
    <3>1. j + 1 < k + 1
      BY <2>1, <2>3
    <3> QED BY <1>4, <2>1, <2>2, <3>1
  <2>4. ASSUME NEW pl \in ToSet(Tail(work)) PROVE <<Head(work), pl>> \in R
    <3>1. PICK k \in DOMAIN Tail(work) : pl = Tail(work)[k]
      BY DEF ToSet
    <3>2. 1 < k + 1
      BY <2>1
    <3> QED BY <2>1, <2>2, <3>1, <3>2
  <2> QED BY <2>3, <2>4 DEF Paired
<1> DEFINE Good(f) == Paired(f, T) /\ \A x \in ToSet(f), y \in ToSet(Tail(work)) : <<x, y>> \in T
<1>6. PICK f \in Seq(PlaceType) :
        /\ work' = f \o Tail(work)
        /\ \/ f = <<>>
           \/ \E next \in PlaceType : f = <<next>> /\ next.phase = phase /\ next.host = h
           \/ f = Children(phase, h)
  BY WalkSteps DEF Walks
<1>7. \A pl \in ToSet(Tail(work)) : pl \in PlaceType
  BY <1>1, ListFacts
<1>8. Good(f)
  <2>1. CASE f = <<>>
    BY <2>1, EmptyList DEF Paired
  <2>2. ASSUME NEW next \in PlaceType, f = <<next>>, next.phase = phase, next.host = h
        PROVE  Good(f)
    <3>1. \A x \in ToSet(f) : x = next
      BY <2>2 DEF ToSet
    <3>2. ASSUME NEW pl \in ToSet(Tail(work)) PROVE <<next, pl>> \in T
      <4>1. <<next, pl>> \in R
        BY <1>5, <1>7, <2>2
      <4> QED BY <1>4, <4>1
    <3>3. Paired(f, T)
      BY <2>2 DEF Paired
    <3> QED BY <3>1, <3>2, <3>3
  <2>3. CASE f = Children(phase, h)
    <3>1. /\ \A pl \in ToSet(f) : pl.phase = phase /\ Parent(pl.host) = h /\ pl.host \in Host
                                  /\ pl.host # Scene
          /\ \A pl \in ToSet(f) : pl \in PlaceType
          /\ h # Null
      BY <1>1, <1>2, <2>3, ChildrenFacts, ListFacts, TreeFacts, HostFacts
    <3>2. ASSUME NEW x \in ToSet(f), NEW y \in ToSet(Tail(work)) PROVE <<x, y>> \in T
      <4> SUFFICES ASSUME x.phase = "CheckActivity", y.phase = "CheckActivity"
                   PROVE  /\ Sure(y.host) => x.host \notin Up(y.host)
                          /\ Sure(x.host) => y.host \notin Up(x.host)
        BY <1>1, <1>3, <1>7, <3>1 DEF PlaceType
      <4>1. Distant(h, y.host) /\ y.host \in Host
        BY <1>5, <1>7, <3>1 DEF PlaceType
      <4>2. /\ Up(x.host) = {x.host} \cup Up(h) /\ h \in Up(x.host)
            /\ x.host \in Up(y.host) => h \in Up(y.host)
        <5>1. h \in Up(h)
          BY <1>1, <1>2, UpFacts
        <5> QED BY <1>1, <3>1, <4>1, <5>1, UpFacts
      <4>3. Sure(x.host) => Sure(h)
        BY <1>1, <3>1, <4>2, SureUp
      <4>4. y.host = x.host => h \in Up(y.host)
        BY <4>2
      <4> QED BY <4>1, <4>2, <4>3, <4>4 DEF Distant
    <3>3. Paired(f, T)
      <4> SUFFICES ASSUME NEW j \in DOMAIN f, NEW k \in DOMAIN f, j < k PROVE <<f[j], f[k]>> \in T
        BY DEF Paired
      <4>1. f[j] \in ToSet(f) /\ f[k] \in ToSet(f)
        BY DEF ToSet
      <4>2. f[j].host # f[k].host
        <5>1. h # Scene
          BY <2>3, EmptyList DEF Children
        <5>2. h \in Object /\ Distinct(children[h])
          BY <1>1, <1>2, <5>1, TreeFacts DEF Host
        <5>3. /\ DOMAIN f = DOMAIN children[h]
              /\ f[j] = Place(phase, children[h][j], TRUE, 0)
              /\ f[k] = Place(phase, children[h][k], TRUE, 0)
          BY <2>3, <5>1 DEF Children
        <5>4. f[j].host = children[h][j] /\ f[k].host = children[h][k]
          BY <5>3 DEF Place
        <5>5. j \in Nat /\ k \in Nat
          BY ListFacts
        <5>6. j # k
          BY <5>5
        <5>7. j \in DOMAIN children[h] /\ k \in DOMAIN children[h]
          BY <5>3
        <5> QED BY <5>2, <5>4, <5>6, <5>7 DEF Distinct
      <4>3. \A x, y \in Host : Parent(x) = h /\ Parent(y) = h /\ x # y => x \notin Up(y)
        <5> SUFFICES ASSUME NEW x \in Host, NEW y \in Host, Parent(x) = h, Parent(y) = h,
                            x # y, x \in Up(y)
                     PROVE  FALSE
          OBVIOUS
        <5>1. x \in Up(h)
          BY <1>1, <3>1, UpFacts
        <5> QED BY <1>1, <3>1, <5>1, Acyclic
      <4> QED BY <1>1, <3>1, <4>1, <4>2, <4>3
    <3> QED BY <3>2, <3>3
  <2> QED BY <1>6, <2>1, <2>2, <2>3
<1>9. Paired(work', T)
  <2> HIDE DEF T
  <2>1. Paired(f \o Tail(work), T)
    BY <1>1, <1>5, <1>8, PairedConcat
  <2> QED BY <1>6, <2>1
<1> QED
  <2> SUFFICES ASSUME NEW j \in DOMAIN work', NEW k \in DOMAIN work', j < k,
                      work'[j].phase = "CheckActivity", work'[k].phase = "CheckActivity"
               PROVE  Distant(work[j].host, work[k].host)'
    BY DEF Apart
  <2>1. <<work'[j], work'[k]>> \in T
    BY <1>9 DEF Paired
  <2>2. work'[j] \in PlaceType /\ work'[k] \in PlaceType
    BY <2>1
  <2>3. PICK g \in Host, y \in Host : g = work'[j].host /\ y = work'[k].host
    BY <2>2 DEF PlaceType
  <2>4. (Sure(y)' => g \notin Up(y)') /\ (Sure(g)' => y \notin Up(g)')
    BY <2>1, <2>3
  <2>5. Distant(g, y)'
    BY <2>4 DEF Distant
  <2> QED BY <2>3, <2>5

-----------------------------------------------------------------------------
(* What the walk does *)

LEMMA PushHere ==
  ASSUME TypeOK, SceneInv, Walks, NEW n \in Nat,
         work' = <<[Head(work) EXCEPT !.at = n]>> \o Tail(work)
  PROVE  \E next \in PlaceType :
           /\ next.phase = Head(work).phase /\ next.host = Head(work).host /\ next.at = n
           /\ ToSet(work') = {next} \cup ToSet(Tail(work))
<1> DEFINE next == [Head(work) EXCEPT !.at = n]
<1>1. Head(work) \in PlaceType /\ Tail(work) \in Seq(PlaceType)
  BY WalkKeeps
<1>2. next \in PlaceType
  BY <1>1, PlaceFacts
<1>3. next.at = n /\ next.phase = Head(work).phase /\ next.host = Head(work).host
  BY <1>1 DEF PlaceType
<1>4. work' = <<next>> \o Tail(work)
  OBVIOUS
<1> HIDE DEF next
<1>10. <<next>> \in Seq(PlaceType)
  BY <1>2
<1>5. PICK f \in Seq(PlaceType) : f = <<next>>
  BY <1>10
<1>6. ToSet(f) = {next}
  BY <1>5 DEF ToSet
<1>7. ToSet(f \o Tail(work)) = ToSet(f) \cup ToSet(Tail(work))
  BY ZenonT(60), <1>1, ConcatFacts
<1>8. work' = f \o Tail(work)
  BY <1>4, <1>5
<1>9. ToSet(work') = {next} \cup ToSet(Tail(work))
  BY <1>6, <1>7, <1>8
<1> QED BY <1>2, <1>3, <1>9

LEMMA PushChildren ==
  ASSUME TypeOK, SceneInv, Walks,
         work' = Children(Head(work).phase, Head(work).host) \o Tail(work)
  PROVE  ToSet(work') = ToSet(Children(Head(work).phase, Head(work).host)) \cup ToSet(Tail(work))
<1> DEFINE kids == Children(Head(work).phase, Head(work).host)
<1>1. TreeType /\ TreeInv /\ Head(work) \in PlaceType /\ Tail(work) \in Seq(PlaceType)
  BY TypeGroups, WalkKeeps DEF SceneInv
<1>2. Head(work).phase \in Phases /\ Head(work).host \in Host
  BY <1>1 DEF PlaceType
<1>3. kids \in Seq(PlaceType)
  BY <1>1, <1>2, ChildrenFacts
<1>4. work' = kids \o Tail(work)
  OBVIOUS
<1> HIDE DEF kids
<1>5. ToSet(work') = ToSet(kids) \cup ToSet(Tail(work))
  BY ZenonT(60), <1>1, <1>3, <1>4, ConcatFacts
<1> QED BY <1>5 DEF kids

LEMMA ChildPlace ==
  ASSUME TreeType, TreeInv, NEW phase \in Phases, NEW h \in Host, NEW x \in Object, Parent(x) = h
  PROVE  \E pl \in ToSet(Children(phase, h)) :
           pl.phase = phase /\ pl.host = x /\ pl.force /\ pl.at = 0
<1>1. PICK pl \in ToSet(Children(phase, h)) : pl.host = x /\ pl.phase = phase /\ pl.force
  BY ChildrenFacts
<1>2. \E z : pl = Place(phase, z, TRUE, 0)
  <2>1. CASE h = Scene
    BY <2>1, <1>1, EmptyList DEF Children
  <2>2. CASE h # Scene
    BY <2>2, <1>1 DEF Children, ToSet
  <2> QED BY <2>1, <2>2
<1>3. pl.at = 0
  BY <1>2 DEF Place
<1> QED BY <1>1, <1>3

LEMMA CallPick ==
  ASSUME TypeOK, CallComponent
  PROVE  \E h \in Host, n \in Nat, c \in Component :
           h = Head(work).host /\ n = Head(work).at /\ c = comps[h][n]
<1>1. ControlType /\ PartsType /\ work # <<>> /\ Head(work).at \in DOMAIN comps[Head(work).host]
  BY TypeGroups DEF CallComponent
<1>2. Head(work).host \in Host /\ Head(work).at \in Nat
      /\ comps[Head(work).host][Head(work).at] \in Component
  BY <1>1, HeadFacts, CalledFacts
<1> QED BY <1>2

LEMMA CallHere ==
  ASSUME TypeOK, SceneInv, CallComponent,
         NEW h \in Host, h = Head(work).host, NEW n \in Nat, n = Head(work).at,
         NEW c \in Component, c = comps[h][n]
  PROVE  /\ n \in DOMAIN comps[h] /\ n # 0 /\ host[c] = h /\ c \in ToSet(comps[h])
         /\ \A g \in Host : \A k \in DOMAIN comps[g] : comps[g][k] = c => g = h /\ k = n
<1>1. /\ PartsType /\ CompInv /\ n \in DOMAIN comps[h]
  BY TypeGroups DEF SceneInv, CallComponent
<1>2. comps[h] \in Seq(Component) /\ Disjoint(comps) /\ DOMAIN comps = Host
  BY <1>1, CompFacts DEF CompInv, PartsType
<1>3. c \in ToSet(comps[h]) /\ n # 0
  BY <1>1, <1>2, ListFacts DEF ToSet
<1>4. host[c] = h
  BY <1>1, <1>3, CompFacts
<1>5. \A g \in Host : \A k \in DOMAIN comps[g] : comps[g][k] = c => g = h /\ k = n
  BY <1>1, <1>2 DEF Disjoint
<1> QED BY <1>1, <1>3, <1>4, <1>5

\* What the method of a phase does to a component.
LEMMA CallDoes ==
  ASSUME TypeOK, SceneInv, CallComponent,
         NEW h \in Host, h = Head(work).host, NEW n \in Nat, n = Head(work).at,
         NEW c \in Component, c = comps[h][n]
  PROVE  /\ \A x \in Object \cup Component : x # c => (x \in active' <=> x \in active)
         /\ Head(work).phase = "CheckActivity" \/ active' = active
         /\ Head(work).phase = "CheckActivity" =>
              IF c \in attached \cap awake
              THEN c \in active' <=> c \in enabled /\ (h = Scene \/ h \in active \ destroyed)
              ELSE active' = active
<1>1. host[c] = h
  BY CallHere
<1>2. Head(work).phase # "CheckActivity" => active' = active
  BY DEF CallComponent
<1>3. ASSUME Head(work).phase = "CheckActivity"
      PROVE  IF c \in attached /\ c \in awake THEN CheckActivity(c) ELSE active' = active
  BY <1>3 DEF CallComponent
<1>4. ASSUME CheckActivity(c)
      PROVE  /\ \A x \in Object \cup Component : x # c => (x \in active' <=> x \in active)
             /\ c \in active' <=> c \in enabled /\ (h = Scene \/ h \in active \ destroyed)
  <2> DEFINE now == c \in enabled /\ (host[c] = Scene \/ IsActive(host[c]))
  <2>1. \/ now = (c \in active) /\ active' = active
        \/ now /\ active' = active \cup {c}
        \/ ~now /\ active' = active \ {c}
    BY <1>4 DEF CheckActivity
  <2>2. now <=> c \in enabled /\ (h = Scene \/ h \in active \ destroyed)
    BY <1>1 DEF IsActive
  <2> HIDE DEF now
  <2> QED BY <2>1, <2>2
<1>5. CASE Head(work).phase = "CheckActivity" /\ c \in attached /\ c \in awake
  BY <1>3, <1>4, <1>5
<1>6. CASE Head(work).phase = "CheckActivity" /\ ~(c \in attached /\ c \in awake)
  BY <1>3, <1>6
<1> QED BY <1>2, <1>5, <1>6

\* What becomes active is in the pool.
LEMMA ActiveWalk ==
  ASSUME TypeOK, SceneInv, ActiveInv, Walks
  PROVE  ActiveInv'
<1>1. /\ UNCHANGED <<comps, added>> /\ attached \subseteq attached' /\ awake \subseteq awake'
      /\ UpdaterType /\ PartsType /\ FlagsType /\ PoolInv /\ CompInv /\ ControlType
      /\ Object \cap Component = {}
  BY TypeGroups, WalkKeeps, HostFacts DEF SceneInv
<1>2. \A h \in Host : ToSet(comps[h]) \subseteq Component
  BY <1>1, CompFacts
<1>3. CASE UNCHANGED updater /\ active' \cap Component = active \cap Component
  <2>1. InPool' = InPool
    BY <1>3 DEF updater, InPool
  <2> QED BY <1>1, <1>2, <1>3, <2>1 DEF ActiveInv
<1>4. CASE Visit
  <2>1. UNCHANGED updater
    BY <1>4, Keeps
  <2>2. Head(work).host \in Host /\ Head(work).host # Scene => Head(work).host \notin Component
    BY <1>1, HostFacts DEF Host
  <2>3. \/ active' = active
        \/ /\ Head(work).host # Scene
           /\ active' = active \cup {Head(work).host} \/ active' = active \ {Head(work).host}
    BY <1>4 DEF Visit
  <2>4. work # <<>>
    BY <1>4 DEF Visit
  <2>5. Head(work).host \in Host
    BY <1>1, <2>4, HeadFacts
  <2> QED BY <1>3, <2>1, <2>2, <2>3, <2>5
<1>5. CASE LeaveComponents
  BY <1>3, <1>5 DEF LeaveComponents, flags
<1>6. CASE CallComponent
  <2> DEFINE c == comps[Head(work).host][Head(work).at]
  <2>1. c \in Component /\ host[c] \in Host /\ c \in ToSet(comps[host[c]])
    <3>1. PICK h \in Host, n \in Nat, d \in Component :
            h = Head(work).host /\ n = Head(work).at /\ d = comps[h][n]
      BY <1>6, CallPick
    <3>2. host[d] = h /\ d \in ToSet(comps[h])
      BY <1>6, <3>1, CallHere
    <3>3. d = c
      BY <3>1
    <3> QED BY <3>2, <3>3
  <2>2. \/ UNCHANGED updater /\ active' = active
        \/ c \in attached /\ c \in awake /\ CheckActivity(c)
    BY <1>6 DEF CallComponent
  <2>3. CASE UNCHANGED updater /\ active' = active
    BY <1>3, <2>3
  <2>4. CASE c \in attached /\ c \in awake /\ CheckActivity(c)
    <3> HIDE DEF c
    <3>1. \/ UNCHANGED updater /\ active' = active
          \/ c \notin active /\ active' = active \cup {c} /\ RegisterComponent(c)
          \/ /\ active' = active \ {c}
             /\ (c \in InPool /\ UnRegister(<<c>>)) \/ UNCHANGED updater
      BY <2>4 DEF CheckActivity
    <3>2. CASE UNCHANGED updater /\ active' = active
      BY <1>3, <3>2
    <3>3. CASE c \notin active /\ active' = active \cup {c} /\ RegisterComponent(c)
      <4>1. c \in Component \ InPool /\ PoolTable
        BY <1>1, <2>1, <3>3 DEF PoolInv
      <4>2. InPool' = InPool \cup {c}
        BY <1>1, <3>3, <4>1, RegisterFacts
      <4>3. c \in added
        BY <1>1, <2>4 DEF PartsType
      <4> QED BY <1>1, <2>4, <3>3, <4>2, <4>3 DEF ActiveInv
    <3>4. CASE active' = active \ {c} /\ c \in InPool /\ UnRegister(<<c>>)
      <4>1. <<c>> \in Seq(Component) /\ Distinct(<<c>>) /\ ToSet(<<c>>) = {c} /\ PoolTable
        BY <1>1, <2>1 DEF Distinct, ToSet, PoolInv
      <4>2. InPool' = InPool \ {c}
        BY <1>1, <3>4, <4>1, UnRegisterFacts
      <4> QED BY <1>1, <3>4, <4>2 DEF ActiveInv
    <3>5. CASE active' = active \ {c} /\ UNCHANGED updater
      <4>1. InPool' = InPool
        BY <3>5 DEF updater, InPool
      <4> QED BY <1>1, <3>5, <4>1 DEF ActiveInv
    <3> QED BY <3>1, <3>2, <3>3, <3>4, <3>5
  <2> QED BY <2>2, <2>3, <2>4
<1> QED BY <1>4, <1>5, <1>6 DEF Walks

\* CheckActivity turns off what is below an object that it finds off.
LEMMA OffWalk ==
  ASSUME TypeOK, SceneInv, FlagInv, RunInv, Walks
  PROVE  OffInv'
<1> DEFINE At(pl, o) == \/ pl.host = Parent(o) /\ pl.at > 0
                        \/ pl.host = o /\ pl.at = 0 /\ pl.force
<1>1. /\ ControlType /\ TreeType /\ TreeInv /\ PartsType /\ CompInv /\ FlagsType
      /\ OffInv /\ ActiveInv
      /\ UNCHANGED comps /\ lost \subseteq lost'
      /\ \A x : Parent(x)' = Parent(x)
      /\ ToSet(work) = {Head(work)} \cup ToSet(Tail(work)) /\ work # <<>>
      /\ ToSet(Tail(work)) \subseteq ToSet(work')
  <2>1. PICK f \in Seq(PlaceType) : work' = f \o Tail(work)
    BY WalkSteps DEF Walks
  <2>2. Tail(work) \in Seq(PlaceType)
    BY WalkKeeps
  <2>3. ToSet(work') = ToSet(f) \cup ToSet(Tail(work))
    BY ZenonT(60), <2>1, <2>2, ConcatFacts
  <2> QED BY <2>3, TypeGroups, WalkKeeps DEF SceneInv, RunInv
<1>2. PICK h \in Host, phase \in Phases, n \in Nat :
        h = Head(work).host /\ phase = Head(work).phase /\ n = Head(work).at
  BY <1>1, HeadFacts
<1>3. \A o : Entering(o)' <=> \E pl \in ToSet(work') : pl.phase = "CheckActivity" /\ At(pl, o)
  BY <1>1 DEF Entering
<1>4. \A o : Entering(o) <=> \E pl \in ToSet(work) : pl.phase = "CheckActivity" /\ At(pl, o)
  BY DEF Entering
<1>5. \A o, k : PartEntering(o, k)' <=>
        \E pl \in ToSet(work') : pl.phase = "CheckActivity" /\ pl.host = o /\ pl.at \in 1..k
  BY DEF PartEntering
<1>6. \A o \in Object : \A k \in DOMAIN comps[o] :
        comps[o][k] \in Component /\ k \in Nat \ {0} /\ comps[o][k] # h
  <2>1. \A o \in Object : comps[o] \in Seq(Component)
    BY <1>1, CompFacts, HostFacts
  <2>2. \A o \in Object : \A k \in DOMAIN comps[o] : comps[o][k] \in Component /\ k \in Nat \ {0}
    BY <2>1, ListFacts
  <2> QED BY <2>2, HostFacts DEF Host
<1>7. \A o \in Object : o \notin Component /\ Parent(o) \in Object \cup {Null} /\ Parent(o) # o
  <2>1. \A o \in Object : Parent(o) # o
    BY <1>1, Acyclic, UpFacts, HostFacts
  <2> QED BY <1>1, <2>1, TreeFacts, HostFacts
<1> HIDE DEF At
<1> SUFFICES ASSUME NEW o \in Object \ lost
             PROVE  /\ o \in active' /\ Parent(o) # Null /\ Parent(o) \notin active' => Entering(o)'
                    /\ \A k \in DOMAIN comps[o] :
                         comps[o][k] \in active' /\ o \notin active' => PartEntering(o, k)'
  BY <1>1 DEF OffInv
<1>8. /\ o \in active /\ Parent(o) # Null /\ Parent(o) \notin active => Entering(o)
      /\ \A k \in DOMAIN comps[o] : comps[o][k] \in active /\ o \notin active => PartEntering(o, k)
  BY <1>1 DEF OffInv
\* What is at a later place stays.
<1>9. /\ Entering(o) => Entering(o)' \/ (phase = "CheckActivity" /\ At(Head(work), o))
      /\ \A k : PartEntering(o, k) =>
           PartEntering(o, k)' \/ (phase = "CheckActivity" /\ h = o /\ n \in 1..k)
  BY <1>1, <1>2, <1>3, <1>4, <1>5 DEF PartEntering
<1>10. CASE phase # "CheckActivity"
  <2>1. active' = active
    <3>1. CASE CallComponent
      BY <1>2, <1>10, <3>1 DEF CallComponent
    <3>2. CASE Visit
      BY <1>2, <1>10, <3>2 DEF Visit
    <3>3. CASE LeaveComponents
      BY <3>3 DEF LeaveComponents, flags
    <3> QED BY <3>1, <3>2, <3>3 DEF Walks
  <2> QED BY <1>8, <1>9, <1>10, <2>1
<1>11. CASE Visit /\ phase = "CheckActivity"
  <2>1. n = 0
    BY <1>2, <1>11 DEF Visit
  <2>2. \A k : PartEntering(o, k) => PartEntering(o, k)'
    BY <1>9, <2>1
  <2>3. CASE active' = active /\ ~(h = o /\ Head(work).force /\ o \in active) 
    <3>1. At(Head(work), o) => h = o /\ Head(work).force
      BY <1>2, <2>1 DEF At
    <3> QED BY <1>8, <1>9, <2>2, <2>3, <3>1
  <2>4. CASE /\ h # Scene
             /\ active' = IF h \in enabled /\ (Parent(h) = Null \/ Parent(h) \in active)
                          THEN active \cup {h} ELSE active \ {h}
             /\ Enter(phase, h, TRUE)
    <3>1. h \in Object
      BY <2>4 DEF Host
    <3>2. CASE comps[h] # <<>>
      <4>1. work' = <<[Head(work) EXCEPT !.at = 1]>> \o Tail(work)
        BY <2>4, <3>2 DEF Enter
      <4>2. PICK next \in ToSet(work') :
              next.phase = phase /\ next.host = h /\ next.at = 1
        BY <1>2, <4>1, PushHere
      <4>3. Parent(o) = h => Entering(o)'
        BY <1>3, <1>11, <4>2 DEF At
      <4>4. \A k \in Nat \ {0} : o = h => PartEntering(o, k)'
        BY <1>5, <1>11, <4>2
      <4>5. o # h /\ Parent(o) # h => ~At(Head(work), o)
        BY <1>2, <2>1 DEF At
      <4> QED BY <1>6, <1>7, <1>8, <1>9, <2>2, <2>4, <4>3, <4>4, <4>5
    <3>3. CASE comps[h] = <<>>
      <4>1. work' = Children(phase, h) \o Tail(work)
        BY <2>4, <3>3 DEF Enter
      <4>2. ToSet(Children(phase, h)) \subseteq ToSet(work')
        BY <1>2, <4>1, PushChildren
      <4>3. Parent(o) = h => Entering(o)'
        <5> SUFFICES ASSUME Parent(o) = h PROVE Entering(o)'
          OBVIOUS
        <5>1. PICK pl \in ToSet(Children(phase, h)) :
                pl.phase = phase /\ pl.host = o /\ pl.force /\ pl.at = 0
          BY <1>1, ChildPlace
        <5> QED BY <1>3, <1>11, <4>2, <5>1 DEF At
      <4>4. o # h /\ Parent(o) # h => ~At(Head(work), o)
        BY <1>2, <2>1 DEF At
      <4>5. o = h => DOMAIN comps[o] = {}
        BY <3>3, EmptyList
      <4> QED BY <1>6, <1>7, <1>8, <1>9, <2>2, <2>4, <4>3, <4>4, <4>5
    <3> QED BY <3>2, <3>3
  <2>5. \/ active' = active /\ ~Head(work).force
        \/ active' = active /\ h = Scene
        \/ /\ h \notin active /\ h # Scene /\ active' = active \ {h}
        \/ /\ h # Scene
           /\ active' = IF h \in enabled /\ (Parent(h) = Null \/ Parent(h) \in active)
                        THEN active \cup {h} ELSE active \ {h}
           /\ Enter(phase, h, TRUE)
    BY <1>2, <1>11 DEF Visit
  <2>6. o # Scene
    BY HostFacts
  <2> QED BY <2>3, <2>4, <2>5, <2>6
<1>12. CASE CallComponent /\ phase = "CheckActivity"
  <2>1. PICK c \in Component : c = comps[h][n]
    BY <1>2, <1>12, CallPick
  <2>2. work' = <<[Head(work) EXCEPT !.at = n + 1]>> \o Tail(work)
    BY <1>2, <1>12 DEF CallComponent
  <2>3. PICK next \in ToSet(work') :
          next.phase = phase /\ next.host = h /\ next.at = n + 1
    BY <1>2, <2>2, PushHere
  <2>4. n # 0 /\ \A k \in DOMAIN comps[o] : comps[o][k] = c => o = h /\ k = n
    BY <1>2, <1>12, <2>1, CallHere, HostFacts
  <2>5. /\ \A x \in Object \cup Component : x # c => (x \in active' <=> x \in active)
        /\ IF c \in attached \cap awake
           THEN c \in active' <=> c \in enabled /\ (h = Scene \/ h \in active \ destroyed)
           ELSE active' = active
    BY <1>2, <1>12, <2>1, CallDoes
  <2>6. Entering(o) => Entering(o)'
    <3>1. At(Head(work), o) => Parent(o) = h
      BY <1>2, <2>4 DEF At
    <3>2. Parent(o) = h => Entering(o)'
      BY <1>3, <1>12, <2>3 DEF At
    <3> QED BY <1>9, <3>1, <3>2
  <2>7. o \in active' <=> o \in active
    BY <1>7, <2>5
  <2>8. Parent(o) # Null => (Parent(o) \in active' <=> Parent(o) \in active)
    BY <1>7, <2>5
  <2>9. ASSUME NEW k \in DOMAIN comps[o], comps[o][k] \in active', o \notin active'
        PROVE  PartEntering(o, k)'
    <3>1. CASE o = h /\ k = n
      <4>1. c \in active' /\ h \notin active /\ h # Scene
        BY <2>1, <2>7, <2>9, <3>1, HostFacts
      <4>2. c \in active /\ c \notin attached \cap awake
        BY <2>5, <4>1
      <4>3. c \in ToSet(comps[h])
        BY <1>2, <1>12, <2>1, CallHere
      <4> QED BY <1>1, <4>2, <4>3 DEF ActiveInv
    <3>2. CASE ~(o = h /\ k = n)
      <4>1. comps[o][k] \in active /\ o \notin active
        BY <1>6, <2>4, <2>5, <2>7, <2>9, <3>2
      <4>2. PartEntering(o, k)
        BY <1>8, <4>1
      <4>3. h = o /\ n \in 1..k => PartEntering(o, k)'
        <5>1. h = o /\ n \in 1..k => n + 1 \in 1..k
          BY <1>6, <3>2
        <5> QED BY <1>5, <1>12, <2>3, <5>1
      <4> QED BY <1>9, <4>2, <4>3
    <3> QED BY <3>1, <3>2
  <2> QED BY <1>8, <2>6, <2>7, <2>8, <2>9
<1>13. CASE LeaveComponents /\ phase = "CheckActivity"
  <2>1. /\ active' = active /\ n \notin {0} \cup DOMAIN comps[h]
        /\ work' = Children(phase, h) \o Tail(work)
    BY <1>2, <1>13 DEF LeaveComponents, flags
  <2>2. ToSet(Children(phase, h)) \subseteq ToSet(work')
    BY <1>2, <2>1, PushChildren
  <2>3. Entering(o) => Entering(o)'
    <3>1. At(Head(work), o) => Parent(o) = h
      BY <1>2, <2>1 DEF At
    <3>2. ASSUME Parent(o) = h PROVE Entering(o)'
      <4>1. PICK pl \in ToSet(Children(phase, h)) :
              pl.phase = phase /\ pl.host = o /\ pl.force /\ pl.at = 0
        BY <1>1, <3>2, ChildPlace
      <4> QED BY <1>3, <1>13, <2>2, <4>1 DEF At
    <3> QED BY <1>9, <3>1, <3>2
  <2>4. \A k \in DOMAIN comps[o] : ~(h = o /\ n \in 1..k)
    <3>1. comps[o] \in Seq(Component)
      BY <1>1, CompFacts, HostFacts
    <3>2. \A k \in DOMAIN comps[o] : 1..k \subseteq DOMAIN comps[o]
      BY <3>1, ListFacts
    <3> QED BY <2>1, <3>2
  <2> QED BY <1>8, <1>9, <2>1, <2>3, <2>4
<1> QED BY <1>10, <1>11, <1>12, <1>13 DEF Walks

-----------------------------------------------------------------------------
(* What the walk comes to is done, or still to come *)

\* What the step does to component c of h.
Does(phase, h, c) ==
  /\ phase = "PostLoad" => c \in attached'
  /\ phase = "Awake" /\ On(h, c) => c \in awake'
  /\ phase = "CheckActivity" => (On(h, c) <=> c \in active')
  /\ phase = "Start" /\ On(h, c) => c \in started'

Follows(y) ==
  /\ \A phase \in Phases : \A k \in DOMAIN comps[y] :
       Ahead(phase, y, k) => ToCome(phase, y, k)' \/ Does(phase, y, comps[y][k])
  /\ y \in Object /\ Ahead("CheckActivity", y, 0) =>
       ToCome("CheckActivity", y, 0)' \/ (y \in active' <=> Up(y) \subseteq enabled)

\* Only CheckActivity turns something on or off, and only what it is at.
LEMMA ActiveAt ==
  ASSUME TypeOK, SceneInv, Walks, NEW y \in Host
  PROVE  /\ \A k \in DOMAIN comps[y] :
              Ahead("CheckActivity", y, k) \/ (comps[y][k] \in active' <=> comps[y][k] \in active)
         /\ y \in Object =>
              Ahead("CheckActivity", y, 0) \/ (y \in active' <=> y \in active)
<1>1. /\ ControlType /\ PartsType /\ CompInv /\ TreeType /\ TreeInv /\ work # <<>>
      /\ Object \cap Component = {} /\ Scene \notin Component
  BY TypeGroups, WalkKeeps, HostFacts DEF SceneInv
<1>2. PICK h \in Host, phase \in Phases, n \in Nat :
        h = Head(work).host /\ phase = Head(work).phase /\ n = Head(work).at
  BY <1>1, HeadFacts
<1>3. comps[y] \in Seq(Component) /\ h \in Up(h)
  BY <1>1, CompFacts, UpFacts
<1>4. \A k \in DOMAIN comps[y] : comps[y][k] \in Component /\ k \in Nat
  BY <1>3, ListFacts
<1>5. CASE active' = active
  BY <1>5
<1>6. CASE Visit /\ active' # active
  <2>1. /\ n = 0 /\ phase = "CheckActivity" /\ h # Scene /\ Due(Head(work))
        /\ active' = active \cup {h} \/ active' = active \ {h}
    BY <1>2, <1>6 DEF Visit, Due
  <2>2. h \notin Component
    BY <1>1, <2>1 DEF Host
  <2>3. y = h => Ahead("CheckActivity", y, 0)
    BY <1>2, <1>3, <2>1 DEF Ahead
  <2> QED BY <1>4, <2>1, <2>2, <2>3
<1>7. CASE CallComponent /\ active' # active
  <2>1. PICK c \in Component : c = comps[h][n]
    BY <1>2, <1>7, CallPick
  <2>2. n # 0 /\ \A k \in DOMAIN comps[y] : comps[y][k] = c => y = h /\ k = n
    BY <1>2, <1>7, <2>1, CallHere
  <2>3. /\ \A x \in Object \cup Component : x # c => (x \in active' <=> x \in active)
        /\ phase = "CheckActivity"
    BY <1>2, <1>7, <2>1, CallDoes
  <2>4. \A k : y = h /\ k = n => Ahead("CheckActivity", y, k)
    BY <1>2, <1>3, <2>2, <2>3 DEF Ahead, Due
  <2> QED BY <1>1, <1>4, <2>2, <2>3, <2>4
<1>8. LeaveComponents => active' = active
  BY DEF LeaveComponents, flags
<1> QED BY <1>5, <1>6, <1>7, <1>8 DEF Walks

LEMMA EnterComes ==
  ASSUME TypeOK, SceneInv, Visit, NEW h \in Host, h = Head(work).host,
         NEW phase \in Phases, phase = Head(work).phase, NEW w \in BOOLEAN, Enter(phase, h, w),
         NEW y \in Host, h \in Up(y), NEW k \in Nat,
         h = y => w /\ comps[h] # <<>> /\ k # 0
  PROVE  ToCome(phase, y, k)'
<1>1. Walks
  BY DEF Walks
<1>2. CASE w /\ comps[h] # <<>>
  <2>1. work' = <<[Head(work) EXCEPT !.at = 1]>> \o Tail(work)
    BY <1>2 DEF Enter
  <2>2. PICK next \in ToSet(work') : next.phase = phase /\ next.host = h /\ next.at = 1
    BY <1>1, <2>1, PushHere
  <2>3. h = y => next.at <= k
    BY <2>2
  <2> QED BY <1>1, <2>2, <2>3, NextComes
<1>3. CASE ~(w /\ comps[h] # <<>>)
  <2>1. work' = Children(phase, h) \o Tail(work)
    BY <1>3 DEF Enter
  <2>2. ToSet(Children(phase, h)) \subseteq ToSet(work')
    BY <1>1, <2>1, PushChildren
  <2> QED BY <1>1, <1>3, <2>2, ChildComes
<1> QED BY <1>2, <1>3

LEMMA VisitDone ==
  ASSUME TypeOK, SceneInv, FlagInv, RunInv, Visit, NEW y \in Host, Sure(y)
  PROVE  Follows(y)
<1>1. /\ Walks /\ WalkInv
      /\ ControlType /\ TreeType /\ TreeInv /\ PartsType /\ CompInv /\ UpClosed(dirty) /\ DoneInv
      /\ work # <<>> /\ comps[y] \in Seq(Component)
  BY TypeGroups, CompFacts DEF Walks, Visit, SceneInv, FlagInv, MarkInv, RunInv
<1>2. PICK h \in Host, phase \in Phases :
        h = Head(work).host /\ phase = Head(work).phase
  BY <1>1, HeadFacts
<1>3. \A k \in DOMAIN comps[y] : k \in Nat /\ k # 0 /\ comps[y] # <<>>
  BY <1>1, ListFacts, EmptyList
<1>4. CASE h \notin Up(y) \/ ~Due(Head(work))
  BY <1>2, <1>4 DEF Follows, Ahead
<1>5. CASE h \in Up(y) /\ Due(Head(work))
  <2>1. /\ Sure(h) /\ Up(h) \subseteq Up(y) /\ h \in Up(h) /\ h \notin destroyed
        /\ h = Scene => y = Scene
    BY <1>1, <1>5, SureUp, UpFacts, TreeFacts, HostFacts DEF Sure, Unlost, Host
  <2>2. h # Scene => h \in Object /\ Up(h) \subseteq Object /\ y \in Object
    BY <1>1, <1>5, TreeFacts, HostFacts DEF Host
  <2>3. ~(~(Head(work).force \/ h \in dirty))
    BY <1>2, <1>5 DEF Visit, Due
  \* Awake stops at an object that is disabled.
  <2>4. CASE phase = "Awake" /\ h # Scene /\ h \notin enabled
    <3>1. \A c : ~On(y, c)
      BY <1>5, <2>2, <2>4 DEF On
    <3> QED BY <1>2, <2>4, <3>1 DEF Follows, Ahead, Does
  <2>5. CASE phase # "CheckActivity" /\ Enter(phase, h, TRUE)
    <3>1. \A k \in DOMAIN comps[y] : ToCome(phase, y, k)'
      BY <1>2, <1>3, <1>5, <2>5, EnterComes
    <3> QED BY <1>2, <2>5, <3>1 DEF Follows, Ahead
  \* CheckActivity stops at an object that is off.
  <2>6. CASE /\ phase = "CheckActivity" /\ h # Scene /\ h \notin active /\ active' = active
             /\ ~(h \in enabled /\ (Parent(h) = Null \/ Parent(h) \in active))
    <3>1. ~(Up(h) \subseteq enabled)
      BY <1>1, <1>2, <2>1, <2>2, <2>6, HereActive
    <3>2. ~(Up(y) \subseteq enabled) /\ \A c : ~On(y, c)
      <4>1. PICK x \in Up(h) : x \notin enabled
        BY <3>1
      <4>2. x \in Up(y) \cap Object
        BY <2>1, <2>2, <2>6
      <4>3. \A c : ~On(y, c)
        BY <4>1, <4>2 DEF On
      <4> QED BY <4>1, <4>2, <4>3
    <3>3. Head(work).at = 0
      BY DEF Visit
    <3>4. y \notin active /\ \A k \in DOMAIN comps[y] : comps[y][k] \notin active
      BY <1>1, <1>2, <1>5, <2>2, <2>6, <3>3, AllOff
    <3> QED BY <1>2, <2>6, <3>2, <3>4 DEF Follows, Ahead, Does
  <2>7. CASE /\ phase = "CheckActivity" /\ Enter(phase, h, TRUE)
             /\ active' = IF h = Scene THEN active
                          ELSE IF h \in enabled /\ (Parent(h) = Null \/ Parent(h) \in active)
                               THEN active \cup {h} ELSE active \ {h}
    <3>1. \A k \in DOMAIN comps[y] : ToCome(phase, y, k)'
      BY <1>2, <1>3, <1>5, <2>7, EnterComes
    <3>2. h # y => ToCome(phase, y, 0)'
      BY <1>2, <1>5, <2>7, EnterComes
    <3>3. y \in Object /\ h = y => (y \in active' <=> Up(y) \subseteq enabled)
      <4>1. h # Scene => (Up(h) \subseteq enabled <=>
                            h \in enabled /\ (Parent(h) = Null \/ Parent(h) \in active))
        BY <1>1, <1>2, <2>1, <2>2, <2>7, HereActive
      <4> QED BY <2>7, <4>1, HostFacts
    <3> QED BY <1>2, <2>7, <3>1, <3>2, <3>3 DEF Follows, Ahead
  \* Start does not call the components of an object that is off.
  <2>8. CASE phase = "Start" /\ Enter(phase, h, IsActive(h))
    <3>1. IsActive(h) \in BOOLEAN
      BY DEF IsActive
    <3>2. CASE h # y \/ IsActive(h)
      <4>1. \A k \in DOMAIN comps[y] : ToCome(phase, y, k)'
        BY <1>2, <1>3, <1>5, <2>8, <3>1, <3>2, EnterComes
      <4> QED BY <1>2, <2>8, <4>1 DEF Follows, Ahead
    <3>3. CASE h = y /\ ~IsActive(h)
      <4>1. h # Scene /\ h \notin active
        BY <2>1, <3>3 DEF IsActive
      <4>2. ~ToCome("CheckActivity", h, 0)
        BY <1>1, <1>2, <1>5, <2>8, <3>3, NotToCome DEF Later
      <4>3. ~(Up(h) \subseteq enabled)
        BY <1>1, <2>1, <2>2, <4>1, <4>2 DEF DoneInv, ObjectDone
      <4>4. \A c : ~On(y, c)
        BY <2>2, <3>3, <4>1, <4>3 DEF On
      <4> QED BY <1>2, <2>8, <4>4 DEF Follows, Ahead, Does
    <3> QED BY <3>2, <3>3
  <2>9. \/ phase = "Awake" /\ h # Scene /\ h \notin enabled
        \/ phase # "CheckActivity" /\ Enter(phase, h, TRUE)
        \/ /\ phase = "CheckActivity" /\ h # Scene /\ h \notin active /\ active' = active
           /\ ~(h \in enabled /\ (Parent(h) = Null \/ Parent(h) \in active))
        \/ /\ phase = "CheckActivity" /\ Enter(phase, h, TRUE)
           /\ active' = IF h = Scene THEN active
                        ELSE IF h \in enabled /\ (Parent(h) = Null \/ Parent(h) \in active)
                             THEN active \cup {h} ELSE active \ {h}
        \/ phase = "Start" /\ Enter(phase, h, IsActive(h))
    BY <1>2, <2>3 DEF Visit
  <2> QED BY <2>4, <2>5, <2>6, <2>7, <2>8, <2>9
<1> QED BY <1>4, <1>5

LEMMA CallDone ==
  ASSUME TypeOK, SceneInv, FlagInv, RunInv, CallComponent, NEW y \in Host, Sure(y), Sure(y)'
  PROVE  Follows(y)
<1>1. /\ Walks /\ WalkInv
      /\ ControlType /\ TreeType /\ TreeInv /\ PartsType /\ CompInv /\ UpClosed(dirty) /\ DoneInv
      /\ ActiveInv /\ Up(y)' = Up(y)
      /\ work # <<>> /\ comps[y] \in Seq(Component)
      /\ ToSet(work) = {Head(work)} \cup ToSet(Tail(work))
  BY TypeGroups, CompFacts, WalkKeeps DEF Walks, SceneInv, FlagInv, MarkInv, RunInv
<1>2. PICK h \in Host, phase \in Phases, n \in Nat :
        h = Head(work).host /\ phase = Head(work).phase /\ n = Head(work).at
  BY <1>1, HeadFacts
<1>3. \A k \in DOMAIN comps[y] : k \in Nat
  BY <1>1, ListFacts
<1>4. CASE h \notin Up(y)
  BY <1>2, <1>4 DEF Follows, Ahead
<1>5. CASE h \in Up(y)
  <2>1. /\ Sure(h) /\ Up(h) \subseteq Up(y) /\ h \in Up(h) /\ h \notin destroyed
        /\ Up(h) \cap lost' = {}
    <3>1. Up(y) \cap lost' = {}
      BY <1>1 DEF Sure, Unlost
    <3> QED BY <1>1, <1>5, <3>1, SureUp, UpFacts DEF Sure, Unlost
  <2>2. PICK c \in Component : c = comps[h][n]
    BY <1>2, CallPick
  <2>3. n \in DOMAIN comps[h] /\ n # 0 /\ c \in ToSet(comps[h])
    BY <1>2, <2>2, CallHere
  <2>4. work' = <<[Head(work) EXCEPT !.at = n + 1]>> \o Tail(work)
    BY <1>2 DEF CallComponent
  <2>5. PICK next \in ToSet(work') : next.phase = phase /\ next.host = h /\ next.at = n + 1
    <3>1. PICK m \in Nat : m = n + 1
      OBVIOUS
    <3>2. work' = <<[Head(work) EXCEPT !.at = m]>> \o Tail(work)
      BY <2>4, <3>1
    <3> QED BY <1>1, <1>2, <3>1, <3>2, PushHere
  <2>6. \A k \in Nat : (h = y => n < k) => ToCome(phase, y, k)'
    <3> SUFFICES ASSUME NEW k \in Nat, h = y => n < k PROVE ToCome(phase, y, k)'
      OBVIOUS
    <3>1. h = y => next.at <= k
      BY <2>5
    <3>2. next.at > 0
      BY <2>5
    <3> QED BY <1>1, <1>2, <1>5, <2>5, <3>1, <3>2, NextComes
  \* The phases before have come to the component.
  <2>7. \A p \in Phases : Later(phase, p) => Did(p, h, c)
    <3> SUFFICES ASSUME NEW p \in Phases, Later(phase, p) PROVE Did(p, h, c)
      OBVIOUS
    <3>1. ~ToCome(p, h, n)
      BY <1>1, <1>2, <2>1, NotToCome
    <3>2. PartDone(h, n)
      BY <2>1, <2>3, <1>1 DEF DoneInv
    <3> QED BY <2>2, <3>1, <3>2 DEF PartDone
  <2>8. /\ phase # "PostLoad" => c \in attached
        /\ phase \in {"CheckActivity", "Start"} /\ On(h, c) => c \in awake
    BY <2>7 DEF Later, Did, Phases
  \* CheckActivity has come to the host.
  <2>9. phase = "CheckActivity" /\ h # Scene => (h \in active <=> Up(h) \subseteq enabled)
    <3> SUFFICES ASSUME phase = "CheckActivity", h # Scene
                 PROVE  h \in active <=> Up(h) \subseteq enabled
      OBVIOUS
    <3>1. h \in Object
      BY DEF Host
    <3>2. \A pl \in ToSet(Tail(work)) : pl.phase = "CheckActivity" => pl.host \notin Up(h)
      BY <1>1, <1>2, <2>1, OnlyHere
    <3>3. ~ToCome("CheckActivity", h, 0)
      BY <1>1, <1>2, <2>3, <3>2 DEF ToCome
    <3> QED BY <1>1, <2>1, <3>1, <3>3 DEF DoneInv, ObjectDone
  <2>10. Does(phase, h, c)
    <3>1. CASE phase = "PostLoad"
      BY <1>2, <2>2, <3>1 DEF CallComponent, Does
    <3>2. CASE phase = "Awake"
      <4>1. /\ awake' = IF c \in attached /\ c \in enabled /\ ~(paused /\ c \notin EditMode) /\ c \notin awake
                        THEN awake \cup {c} ELSE awake
            /\ lost' = IF (paused /\ c \notin EditMode) /\ c \notin awake THEN lost \cup {h} ELSE lost
        BY <1>2, <2>2, <3>2 DEF CallComponent
      <4>2. ~((paused /\ c \notin EditMode) /\ c \notin awake)
        BY <2>1, <4>1
      <4>3. On(h, c) => c \in awake'
        BY <2>8, <3>2, <4>1, <4>2 DEF On
      <4> QED BY <3>2, <4>3 DEF Does
    <3>3. CASE phase = "CheckActivity"
      <4>1. IF c \in attached \cap awake
            THEN c \in active' <=> c \in enabled /\ (h = Scene \/ h \in active \ destroyed)
            ELSE active' = active
        BY <1>2, <2>2, <3>3, CallDoes
      <4>2. On(h, c) <=> c \in enabled /\ (h = Scene \/ h \in active \ destroyed)
        <5>1. CASE h = Scene
          <6>1. Up(h) \cap Object = {}
            BY <1>1, <5>1, TreeFacts, HostFacts
          <6> QED BY <5>1, <6>1 DEF On
        <5>2. CASE h # Scene
          <6>1. Up(h) \subseteq Object
            BY <1>1, <5>2, TreeFacts DEF Host
          <6> QED BY <2>1, <2>9, <3>3, <5>2, <6>1 DEF On
        <5> QED BY <5>1, <5>2
      <4>3. CASE c \in attached \cap awake
        BY <3>3, <4>1, <4>2, <4>3 DEF Does
      <4>4. CASE c \notin attached \cap awake
        <5>1. c \notin active
          BY <1>1, <2>3, <4>4 DEF ActiveInv
        <5>2. ~On(h, c)
          BY <2>8, <3>3, <4>4
        <5> QED BY <3>3, <4>1, <4>4, <5>1, <5>2 DEF Does
      <4> QED BY <4>3, <4>4
    <3>4. CASE phase = "Start"
      <4>1. started' = IF c \in attached /\ {c} \subseteq enabled \cap awake /\ c \notin started
                       THEN started \cup {c} ELSE started
        BY <1>2, <2>2, <3>4 DEF CallComponent
      <4>2. On(h, c) => c \in started'
        BY <2>8, <3>4, <4>1 DEF On
      <4> QED BY <3>4, <4>2 DEF Does
    <3> QED BY <3>1, <3>2, <3>3, <3>4 DEF Phases
  <2>11. ASSUME NEW k \in DOMAIN comps[y], Ahead(phase, y, k)
         PROVE  ToCome(phase, y, k)' \/ Does(phase, y, comps[y][k])
    <3>1. h = y => n <= k
      BY <1>2, <2>11 DEF Ahead
    <3>2. CASE h = y /\ k = n
      BY <2>2, <2>10, <3>2
    <3>3. CASE ~(h = y /\ k = n)
      BY <1>3, <2>6, <3>1, <3>3
    <3> QED BY <3>2, <3>3
  <2>12. Ahead(phase, y, 0) => ToCome(phase, y, 0)'
    <3>1. Ahead(phase, y, 0) => h # y
      BY <1>2, <2>3 DEF Ahead
    <3> QED BY <2>6, <3>1
  <2>13. \A p, k : Ahead(p, y, k) => p = phase
    BY <1>2 DEF Ahead
  <2> QED BY <2>11, <2>12, <2>13 DEF Follows
<1> QED BY <1>4, <1>5

LEMMA LeaveDone ==
  ASSUME TypeOK, SceneInv, LeaveComponents, NEW y \in Host
  PROVE  Follows(y)
<1>1. /\ Walks /\ ControlType /\ PartsType /\ CompInv
      /\ work # <<>> /\ comps[y] \in Seq(Component)
  BY TypeGroups, CompFacts, WalkKeeps DEF Walks, SceneInv
<1>2. PICK h \in Host, phase \in Phases, n \in Nat :
        h = Head(work).host /\ phase = Head(work).phase /\ n = Head(work).at
  BY <1>1, HeadFacts
<1>3. /\ n \notin {0} \cup DOMAIN comps[h]
      /\ work' = Children(phase, h) \o Tail(work)
  BY <1>2 DEF LeaveComponents
<1>4. ToSet(Children(phase, h)) \subseteq ToSet(work')
  BY <1>1, <1>2, <1>3, PushChildren
<1>5. \A k \in Nat : h \in Up(y) /\ h # y => ToCome(phase, y, k)'
  BY <1>1, <1>4, ChildComes
<1>6. \A k \in DOMAIN comps[y] : k \in Nat /\ (n <= k => n \in {0} \cup DOMAIN comps[y])
  BY <1>1, ListFacts
<1>7. ASSUME NEW p \in Phases, NEW k \in {0} \cup DOMAIN comps[y], Ahead(p, y, k)
      PROVE  ToCome(p, y, k)'
  <2>1. p = phase /\ h \in Up(y) /\ (h = y => n <= k)
    BY <1>2, <1>7 DEF Ahead
  <2>2. h # y
    BY <1>3, <1>6, <2>1
  <2> QED BY <1>5, <1>6, <2>1, <2>2
<1>8. \A k \in DOMAIN comps[y] : k \in {0} \cup DOMAIN comps[y]
  OBVIOUS
<1> QED BY <1>7, <1>8 DEF Follows, Phases

LEMMA DoneWalk ==
  ASSUME TypeOK, SceneInv, FlagInv, RunInv, Walks
  PROVE  DoneInv'
<1>1. /\ UNCHANGED <<comps, enabled>> /\ attached \subseteq attached' /\ awake \subseteq awake'
      /\ started \subseteq started'
      /\ \A x : Up(x)' = Up(x)
      /\ PartsType /\ CompInv /\ WalkInv /\ DoneInv
      /\ work # <<>> /\ ToSet(work) = {Head(work)} \cup ToSet(Tail(work))
  BY TypeGroups, WalkKeeps DEF SceneInv, FlagInv, RunInv
<1> SUFFICES ASSUME NEW y \in Host, Sure(y)'
             PROVE  /\ \A k \in DOMAIN comps[y] : PartDone(y, k)'
                    /\ y \in Object => ObjectDone(y)'
  BY <1>1 DEF DoneInv
<1>2. Sure(y) /\ Up(y)' = Up(y)
  BY <1>1, SureWalk
<1>3. Follows(y)
  BY <1>2, VisitDone, CallDone, LeaveDone DEF Walks
<1>4. comps[y] \in Seq(Component)
  BY <1>1, CompFacts
<1>5. \A phase, k : Ahead(phase, y, k) => ToCome(phase, y, k)
  BY <1>1 DEF Ahead, ToCome
<1>6. \A c : On(y, c)' <=> On(y, c)
  BY <1>1, <1>2 DEF On
<1>7. ASSUME NEW k \in DOMAIN comps[y] PROVE PartDone(y, k)'
  <2>1. k \in Nat /\ PartDone(y, k)
    BY <1>1, <1>2, <1>4, ListFacts DEF DoneInv
  <2>2. PICK c : c = comps[y][k]
    OBVIOUS
  <2>3. ASSUME NEW phase \in Phases, ~ToCome(phase, y, k)' PROVE Does(phase, y, c)
    <3>1. CASE Ahead(phase, y, k)
      BY <1>3, <2>2, <2>3, <3>1 DEF Follows
    <3>2. CASE ~Ahead(phase, y, k)
      <4>1. ~ToCome(phase, y, k)
        BY <1>1, <2>1, <2>3, <3>2, ComesOn
      <4>2. Did(phase, y, c)
        BY <2>1, <2>2, <4>1 DEF PartDone
      <4>3. phase = "CheckActivity" => (c \in active' <=> c \in active)
        BY <2>2, <3>2, ActiveAt
      <4> QED BY <1>1, <4>2, <4>3 DEF Did, Does
    <3> QED BY <3>1, <3>2
  <2>4. ASSUME NEW phase \in Phases, Does(phase, y, c) PROVE Did(phase, y, c)'
    BY <1>6, <2>4 DEF Does, Did
  <2>5. comps'[y][k] = c
    BY <1>1, <2>2
  <2> QED BY <2>3, <2>4, <2>5 DEF PartDone
<1>8. ASSUME y \in Object PROVE ObjectDone(y)'
  <2> SUFFICES ASSUME ~ToCome("CheckActivity", y, 0)'
               PROVE  y \in active' <=> Up(y) \subseteq enabled
    BY <1>1, <1>2 DEF ObjectDone
  <2>1. CASE Ahead("CheckActivity", y, 0)
    BY <1>3, <1>8, <2>1 DEF Follows
  <2>2. CASE ~Ahead("CheckActivity", y, 0)
    <3>1. ~ToCome("CheckActivity", y, 0)
      BY <1>1, <2>2, ComesOn
    <3>2. y \in active <=> Up(y) \subseteq enabled
      BY <1>1, <1>2, <1>8, <3>1 DEF DoneInv, ObjectDone
    <3> QED BY <1>8, <2>2, <3>2, ActiveAt
  <2> QED BY <2>1, <2>2
<1> QED BY <1>7, <1>8

LEMMA RunStep ==
  ASSUME TypeOK, SceneInv, FlagInv, RunInv, Next
  PROVE  RunInv'
<1>1. CASE Application
  <2>1. /\ \A o \in Object : InstanceGameObject(o) \/ SetObjectEnabled(o) => RunInv'
        /\ \A c \in Component : SetComponentEnabled(c) => RunInv'
        /\ \A h \in Host, c \in Component : AddComponent(h, c) \/ RemoveComponent(h, c) => RunInv'
    BY RunCalls
  <2>2. /\ \A o \in Object : MoveToRoot(o) => RunInv'
        /\ \A o, p \in Object : MoveToTree(o, p) => RunInv'
    BY RunMoves
  <2>3. \A o \in Object : Destroy(o) => RunInv'
    BY RunBury
  <2> QED BY <1>1, <2>1, <2>2, <2>3 DEF Application
<1>2. CASE Walks
  <2>1. DoneInv' /\ OffInv' /\ Apart(work)' /\ ActiveInv'
    <3>1. ActiveInv
      BY DEF RunInv
    <3> QED BY <1>2, <3>1, DoneWalk, OffWalk, ApartWalk, ActiveWalk
  <2> QED BY <2>1 DEF RunInv
<1>3. CASE BuildBegin
  BY <1>3, RunBuild
<1>4. CASE PrepareBegin \/ PrepareOnDestroy \/ PrepareEnd \/ SceneDestroy
           \/ BuildEnd \/ Update \/ UpdateEnd
  BY <1>4, RunFrame
<1>5. CASE SceneDestroyObject
  BY <1>5, RunBury
<1> QED BY <1>1, <1>2, <1>3, <1>4, <1>5 DEF Next, Frame, Walks

LEMMA RunNext ==
  ASSUME Inv, halts = {} => FlagInv /\ RunInv, [Next]_vars
  PROVE  halts' = {} => FlagInv' /\ RunInv'
<1>1. halts' = {} => FlagInv'
  BY FlagNext
<1>2. CASE Next
  <2>1. halts = {} /\ TypeOK /\ SceneInv /\ FlagInv /\ RunInv
    BY <1>2, Running DEF Inv
  <2> QED BY <1>1, <1>2, <2>1, RunStep
<1>3. CASE UNCHANGED vars
  <2>1. /\ UNCHANGED <<children, destroyed, comps, added, attached, awake, started, enabled,
                       active, dirty, index, work, lost, halts>>
    BY <1>3 DEF vars, tree, parts, flags, marks, updater, control, ghosts
  <2>2. halts' = {} => RunInv'
    BY <2>1, RunSame DEF Inv
  <2> QED BY <1>1, <2>2
<1> QED BY <1>2, <1>3

\* The invariant that the last two theorems rest on.
SettledInv == Inv /\ (halts = {} => FlagInv /\ RunInv)

LEMMA SettledInvariant == Spec => []SettledInv
<1>1. Init => SettledInv
  BY InvInit, FlagInit, RunInit DEF SettledInv
<1>2. SettledInv /\ [Next]_vars => SettledInv'
  BY InvNext, RunNext DEF SettledInv
<1> QED BY <1>1, <1>2, PTL DEF Spec

\* When no walk is under way, what is clean and not lost is done.
LEMMA DoneFacts ==
  ASSUME SettledInv, halts = {}, pc # "build", NEW h \in Host, NEW c \in ToSet(comps[h]),
         h \notin destroyed, Up(h) \cap (dirty \cup lost) = {}
  PROVE  /\ c \in attached
         /\ On(h, c) <=> c \in active
         /\ On(h, c) <=> index[c] # 0
         /\ On(h, c) => c \in awake \cap started
<1>1. /\ TypeOK /\ SceneInv /\ PartsType /\ CompInv /\ PoolInv /\ FrameInv /\ DoneInv /\ ActiveInv
  BY TypeGroups DEF SettledInv, Inv, SceneInv, RunInv
<1>2. Sure(h)
  BY DEF Sure, Unlost
<1>3. PICK k \in DOMAIN comps[h] : comps[h][k] = c
  BY DEF ToSet
<1>4. PartDone(h, k)
  BY <1>1, <1>2 DEF DoneInv
<1>5. \A phase : ~ToCome(phase, h, k)
  <2>1. work = <<>>
    BY <1>1 DEF FrameInv
  <2> QED BY <2>1, EmptyList DEF ToCome
<1>6. \A phase \in Phases : Did(phase, h, c)
  BY <1>3, <1>4, <1>5 DEF PartDone
<1>7. /\ c \in attached
      /\ On(h, c) <=> c \in active
      /\ On(h, c) => c \in awake \cap started
  BY <1>6 DEF Phases, Did
<1>8. c \in Component
  BY <1>1, CompFacts
<1>9. c \in active <=> index[c] # 0
  <2>1. c \in InPool => c \in active
    BY <1>1 DEF PoolInv
  <2>2. c \in active => c \in InPool
    BY <1>1 DEF ActiveInv
  <2> QED BY <1>8, <2>1, <2>2 DEF InPool
<1> QED BY <1>7, <1>9

\* However often callbacks change the scene under a Build, between frames every clean host
\* is as the application asked for: attached, and awake, started and in the pool exactly when
\* it is enabled up to its root; Build skipped nothing that it has to come back to.
THEOREM SceneSettled == Spec => []CleanIsSettled
<1>1. SettledInv => CleanIsSettled
  <2> SUFFICES ASSUME SettledInv, pc = "idle", halts = {}, life = "alive",
                      NEW h \in Host, NEW c \in ToSet(comps[h]),
                      Usable(h), Up(h) \cap (dirty \cup lost) = {}
               PROVE  LET on == Up(h) \cap Object \subseteq enabled /\ c \in enabled
                      IN  /\ c \in attached
                          /\ on <=> c \in active
                          /\ on <=> index[c] # 0
                          /\ on => c \in awake \cap started
    BY DEF CleanIsSettled, Settled
  <2>1. h \notin destroyed
    <3>1. destroyed \subseteq Object
      BY TypeGroups DEF SettledInv, Inv, TreeType
    <3> QED BY <3>1, HostFacts DEF Usable
  <2>2. /\ c \in attached
        /\ On(h, c) <=> c \in active
        /\ On(h, c) <=> index[c] # 0
        /\ On(h, c) => c \in awake \cap started
    BY <2>1, DoneFacts
  <2> QED BY <2>2 DEF On
<1> QED BY <1>1, SettledInvariant, PTL

\* Update calls a component only while it is attached to its host, and after its Start, unless
\* something above it was changed since, or was passed over by a paused Build.
THEOREM SceneUpdates == Spec => UpdatesAreDue
<1>1. SettledInv /\ [Next]_vars =>
        [(pc = "update" /\ calling' # calling /\ calling' # Null) =>
           /\ calling' \in attached
           /\ calling' \in started
              \/ Up(host[calling']) \cap (dirty \cup lost \cup destroyed) # {}]_vars
  <2> SUFFICES ASSUME SettledInv, Next, pc = "update", calling' # calling, calling' # Null
               PROVE  /\ calling' \in attached
                      /\ calling' \in started
                         \/ Up(host[calling']) \cap (dirty \cup lost \cup destroyed) # {}
    BY DEF vars, control
  <2>1. halts = {} /\ TypeOK /\ SceneInv /\ PoolInv /\ UpdaterType
    BY Running, TypeGroups DEF SettledInv, Inv, SceneInv
  <2>2. Update
    <3>1. ~Application
      BY <2>1, CallsWhen
    <3>2. ~(PrepareBegin \/ PrepareOnDestroy \/ PrepareEnd)
      BY DEF PrepareBegin, PrepareOnDestroy, PrepareEnd
    <3>3. ~(BuildBegin \/ Visit \/ CallComponent \/ LeaveComponents \/ BuildEnd)
      BY DEF BuildBegin, Visit, CallComponent, LeaveComponents, BuildEnd
    <3>4. ~(SceneDestroyObject \/ SceneDestroy \/ UpdateEnd)
      BY DEF SceneDestroyObject, SceneDestroy, UpdateEnd
    <3> QED BY <3>1, <3>2, <3>3, <3>4 DEF Next, Frame
  <2>3. PICK c : c = pool[cursor] /\ c = calling' /\ cursor \in DOMAIN pool
    BY <2>2 DEF Update
  <2>4. c \in Component /\ index[c] = cursor /\ cursor # 0
    <3>1. pool \in Seq(Component \cup {Null}) /\ \A i \in DOMAIN pool : pool[i] # Null => index[pool[i]] = i
      BY <2>1 DEF UpdaterType, PoolInv, PoolTable
    <3>2. DOMAIN pool = 1..Len(pool) /\ \A i \in DOMAIN pool : pool[i] \in Component \cup {Null}
      BY <3>1, ListFacts
    <3>3. cursor # 0
      BY <2>3, <3>2
    <3> QED BY <2>3, <3>1, <3>2, <3>3
  <2>5. /\ c \in active \cap attached
        /\ host[c] \in Host /\ c \in ToSet(comps[host[c]])
    BY <2>1, <2>4 DEF PoolInv, InPool
  <2>6. PICK h \in Host : h = host[c]
    BY <2>5
  <2>7. h \in Up(h)
    BY <2>1, TypeGroups, UpFacts DEF SceneInv
  <2>8. ASSUME Up(h) \cap (dirty \cup lost \cup destroyed) = {} PROVE c \in started
    <3>1. h \notin destroyed /\ Up(h) \cap (dirty \cup lost) = {}
      BY <2>7, <2>8
    <3>2. On(h, c) => c \in started
      BY <2>1, <2>5, <2>6, <3>1, DoneFacts
    <3>3. On(h, c)
      BY <2>1, <2>5, <2>6, <3>1, DoneFacts
    <3> QED BY <3>2, <3>3
  <2> QED BY <2>3, <2>5, <2>6, <2>8
<1> QED BY <1>1, SettledInvariant, PTL DEF Spec, UpdatesAreDue
=============================================================================
