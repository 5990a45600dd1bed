------------------------------ MODULE FileWatch ------------------------------
(***************************************************************************)
(* Hot reload: the resource thread polls the watched files                 *)
(* (ResourceManager::AsyncUpdateWatchers, FileWatcher::Update), the main   *)
(* loop signals the watchers that saw a change (UpdateWatchers) and        *)
(* reloads their resources (ReloadResources, DefaultResourceReloader,      *)
(* IResource::Reload).  Files change at any moment, m_mutex or not.        *)
(*                                                                         *)
(* A resource has one watcher, so both share a name.  What a load computes *)
(* from a file is the content itself, a failed load included: a file that  *)
(* cannot be parsed is one more content.  Use counts and life times are    *)
(* those of ResourceManager; here a user destroys and revives a resource   *)
(* and the collector deletes it.  m_isForceDestroyed is not kept: only the *)
(* settings are force-destroyed, and they are never revived.               *)
(***************************************************************************)
EXTENDS Integers, Sequences, FiniteSets

CONSTANTS
  Resource,      \* file resources
  File,          \* their files
  FileOf,        \* m_resourcePath
  Worlds,        \* the worlds the program may run in, see world
  TimeModulus,   \* write times are compared modulo 2^32 in the code
  MaxTime,       \* bound: the clock, in seconds
  MaxEdits       \* bound: changes of files

ASSUME FileAssumption ==
  /\ FileOf \in [Resource -> File]
  /\ Worlds \subseteq [resources : SUBSET Resource, steered : SUBSET Resource,
                       times : BOOLEAN, reverts : BOOLEAN, edits : Nat]
ASSUME TimeAssumption ==
  /\ TimeModulus \in Nat \ {0}
  /\ MaxTime \in Nat \ {0}
  /\ MaxEdits \in Nat

Content == 0..MaxEdits
NoHash == -1     \* m_hash before Init: SR_UINT64_MAX

VARIABLES
  world,           \* which resources there are, for which of them an owner calls
                   \* Init, Pause and Resume of the watcher, whether the file
                   \* system keeps write times (else they are 0), whether a file
                   \* may get back a content it had, and how often files change
  content,         \* what is in each file
  mtime,           \* its st_mtime
  clock,           \* the file system's clock
  edits,           \* changes of files so far
  status,          \* "unborn", "live" (loaded and registered), "deleted"
  isDestroyed,     \* m_isDestroyed
  loaded,          \* the content the resource was last loaded from
  isActive, isInit, isDirty, isPaused,   \* the flags of each watcher
  hash,            \* m_hash
  lastWriteTime,   \* m_lastWriteTime
  watchers,        \* m_watchers
  dirtyWatchers,   \* m_dirtyWatchers
  dirtyResources,  \* m_dirtyResources: ResourceInfo, named by its path
  watching,        \* m_isWatchingEnabled
  lock,            \* who holds m_mutex over several steps, or "none"
  writeTime,       \* the local of Update, or -1 when it is not running
  toReload,        \* resources the reloader has still to visit
  cause,           \* ghost: why the resource may be stale
  fault            \* ghost: a callback ran on a deleted resource

files == <<world, content, mtime, clock, edits>>
flags == <<isActive, isInit, isPaused>>
seen == <<hash, lastWriteTime>>
queues == <<watchers, dirtyWatchers, dirtyResources>>
control == <<watching, lock, writeTime, toReload>>
vars == <<files, status, isDestroyed, loaded, flags, isDirty, seen, queues,
          control, cause, fault>>

NotRunning == -1
Live(r) == status[r] = "live"
Current(r) == content[FileOf[r]]
In(x, s) == \E k \in 1..Len(s) : s[k] = x

\* A change this resource misses; a watcher that is deaf stays so.
Because(why, r) ==
  cause' = IF cause[r] = "deaf" THEN cause ELSE [cause EXCEPT ![r] = why]

Init ==
  /\ world \in Worlds
  /\ content = [f \in File |-> 0]
  /\ mtime = [f \in File |-> IF world.times THEN 1 ELSE 0]
  /\ clock = 1
  /\ edits = 0
  /\ status = [r \in Resource |-> "unborn"]
  /\ isDestroyed = [r \in Resource |-> FALSE]
  /\ loaded = [r \in Resource |-> 0]
  /\ isActive = [r \in Resource |-> FALSE]
  /\ isInit = [r \in Resource |-> FALSE]
  /\ isDirty = [r \in Resource |-> FALSE]
  /\ isPaused = [r \in Resource |-> FALSE]
  /\ hash = [r \in Resource |-> NoHash]
  /\ lastWriteTime = [r \in Resource |-> 0]
  /\ watchers = << >>
  /\ dirtyWatchers = << >>
  /\ dirtyResources = << >>
  /\ watching = TRUE
  /\ lock = "none"
  /\ writeTime = NotRunning
  /\ toReload = {}
  /\ cause = [r \in Resource |-> "none"]
  /\ fault = "none"

-----------------------------------------------------------------------------
(* The world: files, and who owns resources and watchers *)

Edit(f, c) ==
  /\ edits < world.edits
  /\ c # content[f]
  /\ world.reverts \/ c = edits + 1
  /\ content' = [content EXCEPT ![f] = c]
  /\ mtime' = [mtime EXCEPT ![f] = IF world.times THEN clock ELSE 0]
  /\ edits' = edits + 1
  /\ UNCHANGED <<world, clock, status, isDestroyed, loaded, flags, isDirty,
                 seen, queues, control, cause, fault>>

Tick ==
  /\ world.times /\ clock < MaxTime
  /\ clock' = clock + 1
  /\ UNCHANGED <<world, content, mtime, edits, status, isDestroyed, loaded,
                 flags, isDirty, seen, queues, control, cause, fault>>

\* StartWatch: an active watcher at the end of m_watchers.
StartWatch(r) ==
  /\ isActive' = [isActive EXCEPT ![r] = TRUE]
  /\ watchers' = Append(watchers, r)

\* RawMesh::Load and its like, in one Execute: Reload, then RegisterResource
\* with StartWatch.  The watcher has not looked at the file yet.
Load(r) ==
  /\ lock = "none"
  /\ r \in world.resources /\ status[r] = "unborn"
  /\ status' = [status EXCEPT ![r] = "live"]
  /\ loaded' = [loaded EXCEPT ![r] = Current(r)]
  /\ StartWatch(r)
  /\ UNCHANGED <<files, isDestroyed, isInit, isPaused, isDirty, seen,
                 dirtyWatchers, dirtyResources, control, cause, fault>>

Destroy(r) ==
  /\ lock = "none"
  /\ Live(r) /\ ~isDestroyed[r]
  /\ isDestroyed' = [isDestroyed EXCEPT ![r] = TRUE]
  /\ UNCHANGED <<files, status, loaded, flags, isDirty, seen, queues, control,
                 cause, fault>>

\* ReviveResource: the content is not loaded again.
ReviveResource(r) ==
  /\ lock = "none"
  /\ Live(r) /\ isDestroyed[r]
  /\ isDestroyed' = [isDestroyed EXCEPT ![r] = FALSE]
  /\ UNCHANGED <<files, status, loaded, flags, isDirty, seen, queues, control,
                 cause, fault>>

\* Defect: the watcher is forgotten but not stopped.
StopWatch_NotStopped(r) == isActive

StopWatch(r) == [isActive EXCEPT ![r] = FALSE]

\* GC: nothing while a queue is not empty; else DeleteResource.
GC(r) ==
  /\ lock = "none"
  /\ dirtyResources = << >> /\ dirtyWatchers = << >>
  /\ Live(r) /\ isDestroyed[r]
  /\ isActive' = StopWatch(r)
  /\ status' = [status EXCEPT ![r] = "deleted"]
  /\ UNCHANGED <<files, isDestroyed, loaded, isInit, isPaused, isDirty, seen,
                 queues, control, cause, fault>>

SetWatchingEnabled(b) ==
  /\ b # watching /\ watching' = b
  /\ UNCHANGED <<files, status, isDestroyed, loaded, flags, isDirty, seen,
                 queues, lock, writeTime, toReload, cause, fault>>

\* Pause and Resume need the watcher's mutex only, which Update holds.
SetPaused(r, b) ==
  /\ r \in world.steered /\ Live(r)
  /\ writeTime = NotRunning \/ r # watchers[1]
  /\ b # isPaused[r]
  /\ isPaused' = [isPaused EXCEPT ![r] = b]
  /\ UNCHANGED <<files, status, isDestroyed, loaded, isActive, isInit, isDirty,
                 seen, queues, control, cause, fault>>

\* The first look at the file, from Init or Update: what has changed since
\* the resource was loaded is taken for what was loaded.
FirstLook(r) ==
  /\ hash' = [hash EXCEPT ![r] = Current(r)]
  /\ isInit' = [isInit EXCEPT ![r] = TRUE]
  /\ IF loaded[r] # Current(r) THEN Because("unwatched", r)
                               ELSE UNCHANGED cause

WatcherInit(r) ==
  /\ r \in world.steered /\ Live(r)
  /\ ~isInit[r]
  /\ FirstLook(r)
  /\ UNCHANGED <<files, status, isDestroyed, loaded, isActive, isPaused,
                 isDirty, lastWriteTime, queues, control, fault>>

-----------------------------------------------------------------------------
(* The resource thread: AsyncUpdateWatchers *)

\* Defect: a watcher that is already queued is looked at again.
Rests_OnlyPaused(r) == isPaused[r]

\* Nothing to do for a watcher that waits for its signal or is paused.
Rests(r) == isDirty[r] \/ isPaused[r]

\* The watcher at the front goes to the back, or away if it is stopped.
Rotate(r) ==
  watchers' = IF isActive[r] THEN Append(Tail(watchers), r) ELSE Tail(watchers)

\* A turn that needs no comparison.
AsyncUpdateWatchers ==
  /\ lock = "none" /\ watching /\ watchers # << >>
  /\ LET r == watchers[1]
     IN /\ Rotate(r)
        /\ \/ /\ ~isActive[r] \/ Rests(r)
              /\ UNCHANGED <<hash, isInit, cause>>
           \/ /\ isActive[r] /\ ~Rests(r) /\ ~isInit[r]
              /\ FirstLook(r)
  /\ UNCHANGED <<files, status, isDestroyed, loaded, isActive, isPaused,
                 isDirty, lastWriteTime, dirtyWatchers, dirtyResources,
                 control, fault>>

\* uint32_t writeTime.
Truncated(t) == t % TimeModulus

\* Update of an initialised watcher: first the write time ...
UpdateReadTime ==
  /\ lock = "none" /\ watching /\ watchers # << >>
  /\ LET r == watchers[1]
     IN /\ isActive[r] /\ ~Rests(r) /\ isInit[r]
        /\ writeTime' = Truncated(mtime[FileOf[r]])
  /\ lock' = "thread"
  /\ UNCHANGED <<files, status, isDestroyed, loaded, flags, isDirty, seen,
                 queues, watching, toReload, cause, fault>>

\* Defect: a file without a write time is never looked at.
Looks_NeedsTime(r) == lastWriteTime[r] # writeTime

\* The content is compared if the write time is another one, or is 0.
Looks(r) == lastWriteTime[r] # writeTime \/ lastWriteTime[r] = 0

\* ... then the content, which may be newer than the write time.
UpdateReadHash ==
  /\ writeTime # NotRunning
  /\ LET r == watchers[1]
         changed == Looks(r) /\ hash[r] # Current(r)
     IN /\ lastWriteTime' = [lastWriteTime EXCEPT ![r] = writeTime]
        /\ hash' = IF changed THEN [hash EXCEPT ![r] = Current(r)] ELSE hash
        /\ isDirty' = IF changed THEN [isDirty EXCEPT ![r] = TRUE] ELSE isDirty
        /\ dirtyWatchers' = IF changed THEN Append(dirtyWatchers, r)
                                       ELSE dirtyWatchers
        /\ Rotate(r)
  /\ writeTime' = NotRunning
  /\ lock' = "none"
  /\ UNCHANGED <<files, status, isDestroyed, loaded, flags, dirtyResources,
                 watching, toReload, cause, fault>>

-----------------------------------------------------------------------------
(* The main loop: UpdateWatchers, ReloadResources *)

\* Each takes the lock if it sees its queue not empty, and keeps it until the
\* queue is.
UpdateWatchers ==
  /\ lock = "none" /\ dirtyWatchers # << >>
  /\ lock' = "signal"
  /\ UNCHANGED <<files, status, isDestroyed, loaded, flags, isDirty, seen,
                 queues, watching, writeTime, toReload, cause, fault>>

ReloadResources ==
  /\ lock = "none" /\ dirtyResources # << >>
  /\ lock' = "reload"
  /\ UNCHANGED <<files, status, isDestroyed, loaded, flags, isDirty, seen,
                 queues, watching, writeTime, toReload, cause, fault>>

Release ==
  /\ \/ lock = "signal" /\ dirtyWatchers = << >>
     \/ lock = "reload" /\ dirtyResources = << >> /\ toReload = {}
  /\ lock' = "none"
  /\ UNCHANGED <<files, status, isDestroyed, loaded, flags, isDirty, seen,
                 queues, watching, writeTime, toReload, cause, fault>>

DirtyAfterSignal(r) == [isDirty EXCEPT ![r] = FALSE]

\* Signal calls SignalWatch of a resource that the callback holds by a bare
\* pointer; a destroyed one ignores it, else ReloadResource.
Signal(r) ==
  /\ isDirty' = DirtyAfterSignal(r)
  /\ \/ /\ status[r] = "deleted"
        /\ fault' = "use_after_free"
        /\ UNCHANGED <<dirtyResources, cause>>
     \/ /\ Live(r) /\ isDestroyed[r]
        /\ Because("ignored", r)
        /\ UNCHANGED <<dirtyResources, fault>>
     \/ /\ Live(r) /\ ~isDestroyed[r]
        /\ dirtyResources' = Append(dirtyResources, FileOf[r])
        /\ UNCHANGED <<cause, fault>>

\* One turn of the loop of UpdateWatchers.  A watcher that is paused is popped
\* and stays dirty: it rests for ever.
SignalFront ==
  /\ lock = "signal" /\ dirtyWatchers # << >>
  /\ dirtyWatchers' = Tail(dirtyWatchers)
  /\ LET r == Head(dirtyWatchers)
     IN \/ isActive[r] /\ ~isPaused[r] /\ isDirty[r] /\ Signal(r)
        \/ /\ ~isActive[r] \/ isPaused[r]
           /\ Because("deaf", r)
           /\ UNCHANGED <<isDirty, dirtyResources, fault>>
        \/ /\ isActive[r] /\ ~isPaused[r] /\ ~isDirty[r]
           /\ UNCHANGED <<isDirty, dirtyResources, cause, fault>>
  /\ UNCHANGED <<files, status, isDestroyed, loaded, flags, seen, watchers,
                 control>>

\* Defect: only the first resource of the file is reloaded.
Loaded_First(f) ==
  LET all == {r \in Resource : Live(r) /\ FileOf[r] = f}
  IN {r \in all : r = CHOOSE x \in all : TRUE}

\* ResourceInfo::m_loaded, destroyed resources included.
Loaded(f) == {r \in Resource : Live(r) /\ FileOf[r] = f}

\* One turn of the loop of ReloadResources: the reloader goes through m_loaded.
\* The weak pointer has not expired: nothing is deleted while it is queued.
ReloadFront ==
  /\ lock = "reload" /\ dirtyResources # << >> /\ toReload = {}
  /\ toReload' = Loaded(Head(dirtyResources))
  /\ dirtyResources' = Tail(dirtyResources)
  /\ UNCHANGED <<files, status, isDestroyed, loaded, flags, isDirty, seen,
                 watchers, dirtyWatchers, watching, lock, writeTime, cause,
                 fault>>

\* IsResourceSuitableForReload, and IResource::Reload.  The file may have
\* changed since the watcher looked.
Reload(r) ==
  /\ lock = "reload" /\ r \in toReload
  /\ toReload' = toReload \ {r}
  /\ IF isDestroyed[r]
     THEN Because("ignored", r) /\ UNCHANGED loaded
     ELSE /\ loaded' = [loaded EXCEPT ![r] = Current(r)]
          /\ Because(IF isInit[r] /\ hash[r] # Current(r) THEN "overtaken"
                                                          ELSE "none", r)
  /\ UNCHANGED <<files, status, isDestroyed, flags, isDirty, seen, queues,
                 watching, lock, writeTime, fault>>

-----------------------------------------------------------------------------

Thread == AsyncUpdateWatchers \/ UpdateReadTime \/ UpdateReadHash

MainStep ==
  \/ Release
  \/ SignalFront
  \/ ReloadFront
  \/ \E r \in Resource : Reload(r)

World ==
  \/ \E f \in File, c \in Content : Edit(f, c)
  \/ Tick
  \/ \E b \in BOOLEAN : SetWatchingEnabled(b)
  \/ \E r \in Resource :
       \/ Load(r)
       \/ Destroy(r)
       \/ ReviveResource(r)
       \/ GC(r)
       \/ \E b \in BOOLEAN : SetPaused(r, b)
       \/ WatcherInit(r)

Next == Thread \/ UpdateWatchers \/ ReloadResources \/ MainStep \/ World

(***************************************************************************)
(* The thread sleeps 5 ms without the lock in every turn, so the main loop *)
(* gets the lock again and again; a critical section ends.                 *)
(***************************************************************************)
Fairness ==
  /\ WF_vars(Thread)
  /\ WF_vars(MainStep)
  /\ SF_vars(UpdateWatchers)
  /\ SF_vars(ReloadResources)

Spec == Init /\ [][Next]_vars /\ Fairness

-----------------------------------------------------------------------------
(* Properties *)

\* The callback of a watcher (IResource.cpp:322) holds a bare pointer to its
\* resource.  It never runs after the collector has deleted the resource: a
\* stopped watcher is not signalled, and nothing is deleted while watchers or
\* resources are queued.
NoCallbackAfterDelete ==
  /\ fault = "none"
  /\ \A r \in Resource :
       status[r] = "deleted" =>
         ~In(r, dirtyWatchers) /\ r \notin toReload

\* A watcher is queued once while it is dirty, and only then: a queued change
\* is neither signalled twice nor forgotten.  The one exception is a watcher
\* that was paused when its turn came.
DirtyIsQueued ==
  \A r \in Resource :
    LET places == {k \in 1..Len(dirtyWatchers) : dirtyWatchers[k] = r}
    IN /\ Cardinality(places) <= 1
       /\ places # {} => isDirty[r]
       /\ isDirty[r] /\ isActive[r] /\ cause[r] # "deaf" => places # {}

Pending(r) ==
  In(r, dirtyWatchers) \/ In(FileOf[r], dirtyResources) \/ r \in toReload

\* What the code does not promise to notice or to act on: a change between the
\* load and the first look at the file, a change signalled to a destroyed
\* resource that is then revived, a watcher paused while queued; and, where a
\* file may get back an old content, a change that was loaded before it was
\* noticed and taken back before it was looked for.
Excused(r) ==
  \/ cause[r] \in {"unwatched", "ignored", "deaf"}
  \/ cause[r] = "overtaken" /\ world.reverts

\* A change that a watcher has seen is loaded or on its way to be: at any
\* moment the resource is what the watcher believes, or it is queued, or it is
\* newer and the watcher is about to see a change.
NoticedIsLoaded ==
  \A r \in Resource :
    Live(r) /\ ~isDestroyed[r] /\ isInit[r] /\ ~Excused(r) =>
      \/ loaded[r] = hash[r]
      \/ Pending(r)
      \/ cause[r] = "overtaken" /\ hash[r] # Current(r)

\* Two changes of a file within the resolution of its write time (a second on
\* Linux, PlatformLinux.cpp:543), or whole periods of 2^32 apart: the second
\* one is never looked at.
Hidden(r) ==
  /\ isInit[r]
  /\ hash[r] # Current(r)
  /\ lastWriteTime[r] # 0
  /\ lastWriteTime[r] = Truncated(mtime[FileOf[r]])

\* Once the changes stop, every resource in use whose file is watched ends up
\* with what is in the file, whatever the order of polls, signals, reloads,
\* destructions and revivals.
EditsArrive ==
  \A r \in Resource :
    <>[](/\ Live(r) /\ ~isDestroyed[r]
         /\ watching /\ ~isPaused[r]
         /\ ~Hidden(r) /\ ~Excused(r))
      => <>[](loaded[r] = Current(r))
=============================================================================
