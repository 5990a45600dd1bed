# SRCommon: models, checks and proofs

SRCommon is the utility library of the SpaRcle engine: resources, threads, commands, an
entity-component layer, containers and a small network layer. This directory holds TLA+
models of the parts whose correctness depends on an order of calls or on an interleaving
of threads, the TLC runs that check them on small instances and the TLAPS proofs that hold
for all instances. `PROJECT.json` links every definition to the lines it models, every
property to a mutation that breaks it, and lists hazards and findings.

## 1. Inventory

| Part | State it keeps | Operations | Interacts with | What is hard | What makes it correct |
|---|---|---|---|---|---|
| Command manager (`CommandManager/CmdManager.cpp`) | request queue, history, `m_historyPC` | Execute (sync, async, force), Cancel, Redo, Update, Clear | the application's commands | any order of queued calls, wrap-around of the counter, history at its limit | a command is owned once; the history is an undo log |
| Resource life cycle (`Resources/ResourceManager.cpp`, `IResource.cpp`, `ResourceInfo.cpp`) | use points, flags and life time per resource, `m_destroyed`, `m_force`, `m_isRun` | Load, AddUsePoint, RemoveUsePoint, Destroy, ForceDestroy, Revive, GC, Synchronize, shutdown | holders, prefabs, settings, file watchers | the collecting thread against users with and without the lock; waiting for each other | used resources live, unused ones go, the cache has one current copy, waits end |
| File watchers and reload (`FileWatcher.cpp`, `ResourceManager.cpp:478-555`) | dirty, paused and active flags, two queues | Update, Signal, Pause, Resume, ReloadResources | resource thread and main thread | lost change notifications, resources freed while queued | every change of a watched file is reloaded in the end |
| Resource dependencies (`ResourceContainer.cpp`) | parents and dependencies | AddDependency, RemoveDependency, UpdateResources | use points, GC | recursion inside the collector | a dependency has one use point per parent |
| Threads worker (`TaskManager/ThreadWorker.cpp`) | `m_state` of each state, `m_currentState`, `m_isActive`, `m_isAlive`, finalize list | Execute, Update, Work, Start, StopAsync, Stop | its threads, by reading each other's states | non-atomic reads of several states, stop at any time | exclusion by conditions, progress, a clean stop |
| Thread, task manager (`Types/Thread.cpp`, `TaskManager/TaskManager.cpp`) | one pending function, task list and results | Execute, Synchronize, Run, IsCompleted | everything that starts threads | two callers of Execute, tasks that never complete | each call runs once and gets its own result |
| Singletons (`Common/Singleton.h`) | registry of instances | Instance, DestroySingleton | all managers | double-checked creation, order of destruction | one initialized instance, destroyed once |
| Containers and pointers (`ObjectPool.h`, `SafeGateArray.h`, `SharedPtr.h`, `SafePointer.h`, `SubscriptionHolder.h`) | free lists, counters, deferred changes | add, remove, flush, lock, broadcast | scenes, resources | change during iteration, reuse of slots | agreement with the plain container |
| Scene, components, entities (`World/Scene*.cpp`, `ECS/*.cpp`) | slots, free list, trees, life-cycle flags | instance, attach, awake, start, enable, destroy | each other, pointers | destruction during update | no call on a detached component, each callback once and in order |
| Network (`Network/PeerToPeer.cpp`, `Context.cpp`, `Asio/*.cpp`) | new peers, connections, sockets waiting for known hosts | Run, Connect, OnAccept, ProcessMessage, SendKnownHosts, Close | sockets (asio), other nodes | crossing connections, streams that cut headers, peers that leave half-way | one connection for a peer, and peers of a peer find each other |
| Math, SRLM, input, serialization, file system, localization, web, debug | - | - | - | numeric or sequential code, I/O | left to tests (reasons in `PROJECT.json`) |

The threads of a program built on the library: the main thread (frames, `UpdateWatchers`,
`ReloadResources`, `Synchronize`, shutdown), the resource thread (watchers and collector),
the task-manager thread, and the threads of a `ThreadsWorker`.

## 2. Modules

| Module | Models |
|---|---|
| `UndoLog` | abstract: a stack of done and a stack of undone commands |
| `CmdManager` | the command manager; implements `UndoLog` |
| `CmdManager_proofs` | theorems about `CmdManager`, among them the refinement of `UndoLog` |
| `ResourceManager` | resources, their users in the library, the collecting thread, Synchronize and shutdown |
| `ResourceManager_proofs` | theorems about `ResourceManager` |
| `FileWatch` | watched files, the polling thread, signals and reloads |
| `FileWatch_proofs` | theorems about `FileWatch` |
| `ThreadsWorker` | worker threads, states and conditions |
| `ThreadsWorker_proofs` | theorems about `ThreadsWorker` |
| `Scene` | objects, components, the frame and the destruction of a scene |
| `Scene_proofs` | theorems about `Scene`: tables, pool, assertions, dirty flags |
| `Scene_settled` | theorems about what Build and Update of a scene achieve, built on the former |
| `TaskManager` | the task manager, the singleton that holds it, `Thread::Execute` |
| `TaskManager_proofs` | theorems about `Thread::Execute` and about the instances of the task manager |
| `PeerToPeer` | peers over TCP streams |
| `PeerToPeer_proofs` | theorems about `PeerToPeer` |
| `MC...` | the instances for TLC |

**CmdManager.** `commands`, `history`, `historyPC` and `lastCmd` are the members of the
class; `UINT32_MAX` is -1, which keeps every comparison and the wrap-around. A public call
holds the recursive mutex; a drain of the queue (Update, synchronous Execute) is one step per
request with `mutex` taken, so that states between requests are checked too. `ExecuteNow`,
`RedoNow` and `UndoNow` are the private Execute and the two cases of `DoCmd`; `Truncated` is
the cut (or, beyond the end, the growth with `nullptr`) that the public Execute does first.
`created`, `freed`, `applied`, `fault`, `mixed` and `overflowed` are ghosts. Undefined
behaviour (null pointer, erase from an empty vector) sets `fault` and ends the run. A command
is submitted once, as its ownership passes to the manager.

**ResourceManager.** One record of flags per object, `destroyed` is `m_destroyed`, `lock` is
the manager's mutex. Critical sections that cannot be observed inside are one step that needs
the lock to be free; the collector holds it over many steps. What the code does without the
lock (`AddUsePoint`, the flags in `ForceDestroy`, the settings' `RemoveUsePoint`) is a step
that can fall anywhere. Users: mesh holders do load and use point in one critical section
(`IRawMeshHolder::SetRawMesh`), prefab loaders do not (`ScenePrefabLogic::Load`,
`Scene::InstanceFromFile`), the main thread destroys the settings, synchronizes and shuts
down. `life` counts collections, `dirty` the elements of both dirty queues.

**FileWatch.** A resource and its watcher share a name, as each resource has one. Files change
without regard to locks, so `FileWatcher::Update` is two steps (the write time, then the content)
and a reload reads the file when it runs, not when the change was seen. The poll rotates
`watchers`; `dirtyWatchers` and `dirtyResources` are the two queues, emptied by the main loop
with the lock held. Write times are whole seconds, compared modulo `TimeModulus` (2^32 in the
code). The collector is reduced to what matters here: it deletes a destroyed resource, and only
when both queues are empty. `cause` is a ghost that records why a resource may be stale.

**ThreadsWorker.** Each thread has a program counter through `Work`, `Update` and
`Execute`; each read of another state's atomic `m_state` is a step. `ExecuteImpl` is
the application's: it may succeed, repeat or (for some states) break off. `main` is the
thread that calls Start and Stop.

**Scene.** `tree`, `parts`, `flags` and `marks` are the members of `SceneObject`, `Component` and
`IComponentable`, a Boolean member being the set of those for which it is true; `slots`,
`freeIndices`, `newQueue`, `deleteQueue` and `deadComps` are `Scene`'s; `pool`, `freeIds` and
`index` are `SceneUpdater`'s. A frame is Prepare, Build (PostLoad, Awake, CheckActivity, Start,
each over the whole tree) and Update. The recursion of Build is a list of places still to
visit, so that the walk stops at every callback; while `calling` names a component, the
application may make any call (add, remove, enable, move, destroy, instance), as it may between
frames. The walk reads the lists at the moment it gets to them, as the code's index loops do. A
failed assertion goes to `halts` and stops the walk. `MoveToTree` is SetParent without cycles.

**TaskManager.** A call goes through `Instance()` (first look, creation under the mutex,
`InitSingleton` in its two parts) and `Execute()`; the manager's thread through `LoopHead`, one
step per element of its pass, and out; a task through its function, which may ask the main
thread for work: `Ask` (wait for the pending function to go), `Store`, `Wait`, `ReadResult` are
the steps of `Thread::Execute`, `SynchronizeCall` and `SynchronizeReturn` those of the main
thread. `DestroySingleton` or `DestroyAll` is `OnSingletonDestroy`, the join, the removal from
the registry and the destructor. Instances are numbered, since a call after the destruction
makes a new one. Use of freed memory sets `fault` and ends the program (`InitFreed`,
`ExecuteFreed`, `PassFreed`, `BodyFreed`, Stop in `Delete`).

**PeerToPeer.** A node is a `PeerToPeer` with its own context, polled by its own loop. A link is a
TCP connection with two ends, the two `Socket` objects; `socket`, `stream` and `receiving` are
what the network knows of them, `newPeers`, `peer` (`m_connections`) and `toSend` the lists of
the code. Streams are kept in words of four bytes: headers have three, a read takes up to four
(`GetMaxP2PHeaderSize` is 16 bytes), so that headers that arrive together are cut as they are in
the code. `ProcessMessage` is one completed read, `ReadFails` one that ends in an error,
`SendKnownHosts` the last loop of `Context::Poll`. Closing a socket with unread data resets the
other side. An announced end that was not registered ignores everything it reads, and what is
sent to it is not kept.

## 3. Runs

| Run | Result | Shows |
|---|---|---|
| `cmd_history` | pass | `OwnedOnce`: nothing is deleted twice, leaked or used after deletion, in any order of calls and even after an overflow. `PCNamesACommand`: until the history is full, no halt and no undefined behaviour. `AppliedIsPrefix`: the commands up to the counter are those in effect. `ImplementsUndoLog`: every step is a step of `UndoLog` or none. The last two hold while no Execute is called with requests queued and the history is not full |
| `cmd_overflow` | violation of `NoInvalidPC` | with a full history the counter points beyond the end |
| `resources` | pass | `HeldIsAlive`, `ListMatchesFlags`, `OneCurrentCopy`, `SettingsAreGone`, `LifeTimeIsWaitedOut`, `UnusedIsCollected` |
| `resources_loader` | violation of `LoadedIsUsable` | a prefab can be destroyed between its load and its use point |
| `resources_shutdown` | violation of `ShutdownEnds` | the shutdown may wait for a thread it has already ended |
| `watch` | pass | `NoCallbackAfterDelete`: no callback reaches a deleted resource. `DirtyIsQueued`: a change is queued once. `NoticedIsLoaded`: a change that was seen is loaded or on its way. `EditsArrive`: once the changes stop, a resource in use ends up with what is in its file; in two worlds, one without write times, one with colliding and wrapping write times, contents that come back and a watcher that is paused and resumed |
| `workers` | pass | `HandshakeExcludes`, `StoppedIsClean`, `NoWorkAfterFinalize`, `StatesComeRound`, `StopReturnsUnlessStuck` |
| `workers_keys` | violation of `StartConditionIsAwaited` | `start_condition` and `skip_condition` are swapped on loading |
| `scenes` | pass | `SlotsAgree`: the object table and its free list agree with the tree. `PoolIsLive`: the updater's bare pointers are attached components of objects that are not freed. `AssertionsHold`: no assertion fails but after a destruction from OnDestroy. `DirtyIsScheduled`: what is dirty will be found. `CleanIsSettled`: what is clean is attached, awake, started, active and updated exactly if the application wants it so. `UpdatesAreDue`: nothing is updated before its Start or after OnDetached. `BuildsSettle`: Build stops marking itself dirty |
| `scenes_off` | violation of `OffMeansAllOff` | an active object moved below an inactive one stays active and is updated, although CheckActivity stops there because "everything is off anyway" |
| `tasks` | pass | `ExecuteRuns`: a function handed to the main thread runs once before the call returns with its result, unless calls overlap. `InlineIsSerial`: tasks without a thread exclude each other. `FaultsAreExplained`: the only ways to touch freed memory. `AnswersAreTrue`: what GetResult's shared identifier still tells. `InlineTasksLeave` and `ShutdownEnds`: progress, up to the deadlocks they name |
| `peers` | pass | `KnownOnce`: one live and true connection for a peer however connections cross, and the assertion of SendKnownHosts. `MeshCompletes`: the exchange dies out, peers with a link know each other, and peers of a common peer find each other |

**Bounds.** `cmd_history`: four commands, history of three, queue of three: the history fills,
overflows and is cut, and three requests of any kind interleave with calls. `resources`:
three objects (the settings and two others) over a revivable and a non-revivable id, two
holders and a loader, a life time of two collections (so that it runs down in steps), one
Synchronize besides the two of settings and shutdown, one dirty watcher. `SyncRounds` stands
for the 255 turns of Synchronize, which all do the same; one is enough to wait. The loader run
has a fourth object so that a second copy of an id can exist. `watch` starts in one of two
worlds: two resources of the same file, two changes (one to be seen, one to overtake it), no
write times, so that the branch for file systems without them decides; or one resource, three
changes (seen, loaded early, taken back), a clock of four seconds and a modulus of three, so that times collide and one of
them is cut to 0. `workers`: two threads, three
states; two in a handshake, one that is skipped on a conjunction of two conditions and may
break off. As the loader swaps the keys, the instance writes the conditions a state is to wait
for under `skip_condition` (`YamlSkip <- Waits`); the `workers_keys` run writes them under
`start_condition`. `scenes`: two objects, two components and three calls of the application, on
an empty scene or one of two loaded ones (a child with a component, two components on one
object): a call before, during and after each phase, with slots reused. Safety was
also checked on larger instances outside the runs: exhaustively with three objects, and by random
simulation with three objects, three components and six calls, where an object can be moved
below one that was moved itself. `tasks`: a task on the manager's thread and one on
its own, which both ask the main thread, a third submitted by the main thread, and one
destruction, after which a late caller makes a second instance. `peers`: two nodes that connect to
each other at once while one leaves and comes back, or a node that joins two others of which one
leaves; at most four links from one node to another, which `MeshCompletes` shows are enough,
since a message that needed a fifth would never be read. Three nodes that all connect at once are
beyond a run of five minutes (more than two million states, no violation met).

**Deadlock** is checked in `watch`. In the others it is not: undefined behaviour ends a run of
`CmdManager`, `ResourceManager` and `TaskManager`, a failed assertion one of `Scene`;
`ResourceManager`, `ThreadsWorker` and `Scene` end when they are stopped or destroyed; peers that
have found each other have nothing left to do; and the task manager has real deadlocks, which
`ShutdownEnds` names.

**Fairness.** Threads are scheduled (weak fairness of the resource thread, of the main loop's
drain, of each worker and of a Stop that has begun). `GCBegin` has strong fairness: the thread
passes it by while `m_GCDt` is short of its limit, but the timer grows on every turn.
`WorkSuccess` has strong fairness: an `ExecuteImpl` that repeats for ever is the application's
fault. In `FileWatch` the main loop's two
entries have strong fairness: the polling thread takes the lock again and again, but sleeps 5 ms
without it in every turn. In `Scene` frames go on (weak fairness of the frame as a whole, which
is one thread). In `TaskManager` every thread goes on; `Execute` has strong fairness because the
manager's thread sleeps 10 ms outside `m_mutex` before every pass. In `PeerToPeer` every node
polls; as a behaviour has finitely many polls that do something, one weak fairness condition
says so. Nothing forces users to release, the owner to call Stop, or Break.

**Conditions stated in properties.** `UnusedIsCollected` assumes that the main loop comes
round: Synchronize called with a dirty watcher blocks the thread that would empty the queue.
`LifeTimeIsWaitedOut` excludes collections that started again at the front after a
deletion further back: the code takes the same time step off the earlier resources once more.
`StopReturnsUnlessStuck` excludes a thread caught in the Repeat loop waiting for one that has
already seen the stop: the code has no way out of it.
`NoticedIsLoaded` and `EditsArrive` excuse the cases in which the code does lose a change. Each
was confirmed by leaving its excuse out, which gives a counterexample: a change between the load
and the first poll; a change signalled to a destroyed resource that is then revived; a second
change within the same second, after the poll; a content that a reload read before a poll saw it
and that was taken back before the next one; a watcher paused while queued.
`CleanIsSettled` and `UpdatesAreDue` excuse hosts in `lost`: those a callback changed while Build still
had them marked dirty (SetDirty climbs no further, and the mark is then cleared), those a paused
Build passed over, and those a move does not mark. `DirtyIsScheduled` and `BuildsSettle` excuse
hosts in `blocked`: such a change, or the removal of a component before it was attached, leaves
them dirty, and SetDirty below them then stops at them and does not reach the updater. `late`
holds the objects destroyed from an OnDestroy, which Prepare frees with their components.
In `TaskManager`, `overlapped` and `lostCall` are calls of `Thread::Execute` that met another one,
`robbed` tasks whose shared identifier another task erased, `hasty` a destruction before
`InitSingleton` had ended. `ShutdownEnds` names three hangs: the main thread joins a thread whose
task waits for the main thread; DestroyAll joins a thread that waits for the registry's mutex,
which DestroyAll holds; InitSingleton sets `m_isRun` again after the destruction cleared it.
`MeshCompletes` is about peers that never left, and excuses a header that was read behind another
(`cut`) and a node with a socket that failed before it was announced (`Blocked`): in both cases
the code never shares its peers. A peer that comes back is not admitted again, because its old
connection is still listed; nothing is claimed about it. `Run` after `Close` waits for a poll: a
pending accept refers to the old acceptor. The model is of the Windows build: `AsioContext::Run`
runs the io_context before there is work, which stops it for good, and asio's POSIX scheduler
delivers nothing from a stopped context.

## 4. Proofs

The theorems hold for all values of the constants that satisfy the assumptions of the modules.
Every one follows from an inductive invariant: a lemma that the initial states satisfy it, one or
more lemmas per action (or per kind of action) that a step keeps it, and a temporal step. The
invariants were checked by TLC on the instances of section 3 before they were proved.

| Module | Theorems (property) | Inductive invariant |
|---|---|---|
| `CmdManager_proofs` | `TypeCorrect` (`TypeOK`), `PCAlwaysNamesACommand` (`PCNamesACommand`), `CommandsAreOwnedOnce` (`OwnedOnce`), `AppliedIsAlwaysThePrefix` (`AppliedIsPrefix`), `CmdManagerImplementsUndoLog` (`ImplementsUndoLog`) | `TypeOK`, `PCInv`, `OwnInv`, `LogInv` |
| `ResourceManager_proofs` | `TypeCorrect` (`TypeOK`), `HeldMeshesAreAlive` (`HeldIsAlive`), `ListAndFlagsAgree` (`ListMatchesFlags`), `OneCopyPerId` (`OneCurrentCopy`), `SettingsAreFreed` (`SettingsAreGone`), `LifeTimesAreWaitedOut` (`LifeTimeIsWaitedOut`) | `ManagerInv` |
| `FileWatch_proofs` | `CallbacksAreSafe` (`NoCallbackAfterDelete`), `DirtyWatchersAreQueued` (`DirtyIsQueued`), `NoticedChangesAreLoaded` (`NoticedIsLoaded`) | `WatchInv` |
| `ThreadsWorker_proofs` | `TypeCorrect` (`TypeOK`), `HandshakesExclude` (`HandshakeExcludes`), `StopIsClean` (`StoppedIsClean`), `FinalizedStatesRest` (`NoWorkAfterFinalize`, an action property) | `WorkerInv` |
| `TaskManager_proofs` | `ExecuteIsSound` (`ExecuteRuns`), `TypeCorrect` (`TypeOK`), `InlineTasksAreSerial` (`InlineIsSerial`), `FaultsAreOnlyThese` (`FaultsAreExplained`), `GetResultAnswers` (`AnswersAreTrue`) | `StartInv` with `AskInv` for the first, `StartInv` with `LifeInv` for the others |
| `Scene_proofs` | `SceneTypes` (`TypeOK`), `SceneSlots` (`SlotsAgree`), `ScenePool` (`PoolIsLive`), `SceneAssertions` (`AssertionsHold`), `SceneDirty` (`DirtyIsScheduled`) | `Inv`, that is `TypeOK`, `AssertionsHold` and `SceneInv`; with it `FlagInv` |
| `Scene_settled` | `SceneSettled` (`CleanIsSettled`), `SceneUpdates` (`UpdatesAreDue`, an action property) | `SettledInv`, that is `Inv`, `FlagInv` and `RunInv` |
| `PeerToPeer_proofs` | `TypeCorrect` (`TypeOK`), `PeersAreKnownOnce` (`KnownOnce`) | `PeerInv` |

**Command manager.** The assumptions are that `NoCommand` is not a command, the history size is
positive and the queue bound is a number. `PCNamesACommand` is not
inductive: a queued request of type execute must carry a command (else `nullptr` would enter
the history) and a synchronous Execute must have one to run; both are in `CallsOK`.
`PCInv == HistoryOK /\ CallsOK` is inductive. `HistoryOK` is shown to survive each thing that
changes the history (`RedoNowOK`, `UndoNowOK`, `ExecuteNowOK`, `ExecuteCallOK`), `CallsOK` each
change of the queue (`AppendRequest`, `DropRequest`), and `NextPC` puts them together action by
action. `TruncatedFacts` and `TrimFacts` say what the two cuts of the history return.

`OwnedOnce` needs more. Draining a queued undo or redo must not drop a command, so a command is
queued once and only in a request of type execute (`QueueOwns`); a synchronous Execute must not
overwrite a command in flight, so there is none unless it holds the mutex; and a command is new
only if everything owned so far is among those created. With `OwnedOnce` these make
`OwnershipOK`, and `OwnInv == PCInv /\ OwnershipOK` is inductive: `ExecuteNowOwns`,
`StepOwns`, `ExecuteCallOwns`, `AppendOwns` and `DropOwns` follow a command through each change
of the history and the queue, `NextOwn` goes through the actions.

`AppliedIsPrefix` and the refinement are about regular runs, in which no Execute met queued
requests and the history did not overflow. There an Execute still to come must find nothing undone,
or the history would have to be cut when it runs: `RegularInv` says that only the oldest request
can be an Execute and that the counter then stands at the end. `RegularSteps` reduces every step
of a regular run to one of six: the history stays, gains a command at the end, is undone or redone
by one, loses what was undone, or is cleared. `PrefixKept` and `StepRefines` go through the six:
each keeps the commands in effect equal to the prefix, and on the two halves of the history is the
corresponding step of `UndoLog` or none. `StackFacts`, `StackUndo` and `StackRedo` say what moving
the counter by one does to the halves.

**Resource manager.** Besides what the module says of identifiers, `FiniteAssumption` says that the
objects, holders and loaders of a program are finitely many; without it use points could not be
counted. `ManagerInv` has these parts. `ObjectInv` is the life of an object: unused and without id
before it is created, destroyed before it is deleted. `UserInv` says that use points are exactly
the holders or loaders that have the object: this is what keeps the collector, which looks only at
`m_countUses`, away from what is held. `CopyInv` is `OneCurrentCopy` made inductive: of an id that can be
revived there is only one object, destroyed or not, as Load revives it and never creates another.
`LockInv` ties the lock to the collector's position in the list. `MainInv` says that the settings
are destroyed once. `LifeInv` counts collections: an entry has been charged for every collection that has passed
it, and `Due` is 1 for those the running collection has still to come to. `ListMatchesFlags` is
inductive with these. `AppendFacts`, `WithoutFacts` and `ConcatFacts` are about the list when
resources are put at its end or erased, `LoadFacts` and `DestroyFacts` about what the critical
sections of all users consist of.

**File watchers.** `NoCallbackAfterDelete` is about bare pointers in three places, so `UseInv` says
for each of them (an active watcher, a queued one, a resource the reloader has still to visit) that
the resource is not deleted, and that while `Update` compares a file nobody else touches its watcher.
`QueueInv` is `DirtyIsQueued` made inductive: queued once, only while dirty. `NoticeInv` is
`NoticedIsLoaded` extended to destroyed resources, which may be revived, and to contents: where they do not
return, no watcher has seen one that is still to be written. No assumption beyond the module's is
used.

**Threads worker.** `OwnerAssumption` says that a state belongs to one thread: loading allocates an
object for each entry of a thread's list, and `AddThread` reports a name used twice. The threads read each other's states one at a time, so exclusion
does not follow from what a thread reads but from what stays true after it: `HandshakeInv` says
that in a handshake a condition that was read as true stays true until the reader acts on it
(`ReadIsTrue`), because the other side cannot move before the reader does. `PlaceInv` says that only a thread sets
its current state. For the stop, `FinalInv` says that the finalizing threads never come back to
`Update`, and `ListInv` that every entry taken from the list has been finalized, or is being by exactly one
thread (counted by `Cardinality`); `JoinInv` follows the joins in order. `FinalizedStatesRest` is
the action property from the same invariant.

**Task manager.** The assumptions are that the sets of tasks with a thread of their own, of those
that ask and of those the main thread submits are sets of tasks, that `None` is not a task and that the
number of destructions is a number. `ExecuteRuns` says that a function runs once; this rests on
its task being started once, over all instances of the manager. So the invariant has two parts.
`StartInv` is about starting: a task is on the list of one instance (`ListsAreApart`), its
function has not begun while its state is Unknown or Waiting nor while its thread is being created
(`BeginsOnce`). `CallerStep`, `ExecuteStep`, `LoopStep`, `BodyStep` and `MainStep` show that the
five kinds of steps keep it. `AskInv` is about `Thread::Execute`: the pending function belongs to
a call that waits (`PendingWaits`), a call that no longer waits for its own function has been
served (`RunsOnce`), and a call that overlaps with none is alone in Execute, so that nobody can
replace its function or its result (`AloneHasItsResult`). `AskStep`, `StoreStep`, `WaitStep`,
`ReadStep` and `SynchronizeStep` follow a call; everything else leaves it alone (`OutsideStep`).

The other properties need to know which instances there are. `RegistryInv`: they are created one
after the other, the last one is registered, and one is alive while it is registered or being
destroyed. `CreatorInv`: one call at a time creates, and its instance has no thread until
InitSingleton. `JoinInv`: unless the destruction was hasty, the thread of a destroyed instance is over; so
all that can still touch a freed instance is named by `FaultsAreExplained`, which is part of the
invariant. `ListInv`: what is listed is not freed, and the common identifier stands for the tasks that
were not robbed of it, which is `AnswersAreTrue`. `InlineInv`: a task without a thread runs in the
pass of the instance that got it, so two that run at once would be two passes of instances alive at
once.

**Peers.** `StartAssumption` says what peers that stand connected are: two different nodes, with one
socket each. `KnownOnce` is not inductive, for three reasons. A node takes an announcement at its
word, so what is on its way must name its sender (`AnnounceInv`). A connection must lead to a peer
that has not closed it, so an end may be shut only because its node left, because a node talked to
itself, or because the other end was shut before (`ShutInv`); in particular a socket that is refused
is not one that the other side has registered: it is stray, and an end in neither list that is still read
from has lost its other end (`StrayInv`). And a link that is made must be new (`LinkInv`,
`NewEndFacts`: links are numbered without gaps). `ConnectStep`, `AcceptStep`, `AnnouncedStep`,
`ReadStep`, `ReadFailsStep`, `SendKnownHostsStep`, `CloseStep` and `RunStep` go through the actions;
`ReadIsTrue` and `KnownHostsAreTrue` are about streams that are cut or continued.

**Scene.** `PartsAssumption` says that objects, components, the scene and `Null` are different and
finitely many; `LoadsAssumption` that a program starts with a forest of registered objects (the tree
of a prefab or of a saved scene). The code's recursions over the tree are stated without recursion,
by what they visit: `Up(h)` is the least set with `h` and the parent of every object in it, `Below` its
inverse, `Preorder` the order of the subtree. `Chain...` lemmas say what `Up` becomes when an object
loses or gets a parent (`ChainMove`) or its subtree is dissolved (`ChainBury`). The run's properties
are not inductive: that a slot is free exactly when it is empty depends on the tree (what
`SceneObject::Destroy` reaches), on the queues and on the phase of the frame. `SceneInv` has these
parts. `TreeInv`: the children are a forest of living objects. `QueueInv`: a new object has no slot,
and what is destroyed and not freed is in the delete queue, once. `SlotInv` is `SlotsAgree` seen from
the slots. `CompInv`: a component is on the host it knows, or waits for its OnDestroy, or is gone.
`PoolInv`: the pool's table and free list agree, and what is in the pool is active, attached and on its
host, which is why removing it always finds a valid index. `FrameInv` ties the callbacks, the walk and
the life of the scene to the phase. `LateInv`: when Prepare frees objects, the only ones that still hold
components were destroyed from an OnDestroy. `RootInv`: the list of the roots is complete when it is
current, so Scene::Destroy reaches every object, and none is left when it ends. `TreeStep`,
`TableStep`, `PartsStep`, `FrameStep`, `LateStep`, `RootStep` and `AssertStep` go through the actions.

`DirtyIsScheduled` is about flags that SetDirty sets from below, up to the first that is set, and that
Build clears from above, while callbacks set them again. `FlagInv` says why nothing is lost between the
two. `MarkInv`: the flags are closed upward, and so is `blocked`; an object that waits to be attached is dirty,
and blocked if the components it waits for were removed. `WalkInv`: one phase comes after
the other, and where Build goes before the Start, it comes back to clear; only children are visited
unconditionally. `DueInv`: below what is not blocked, unless the updater is marked or Build is
about to clear the flag of the scene (which marks the updater), what waits to be attached has a
place of PostLoad above it, and what is dirty a place that will clear it. The hard step is the one that
clears: `CleanFacts` says which objects below stay dirty after `SetDirtyFalse`, namely those with
something to attach, and these are due, so the step that clears would come before them, against
`WalkInv`. `MarkStep`, `WalkStep` and `DueStep` go through the actions. An earlier form of the property
excused only `lost`; it holds on small instances and is false with three objects, two components and five
calls, where a component is removed before it was attached. `blocked` was introduced for it.

`CleanIsSettled` and `UpdatesAreDue` are about what Build has achieved when it is over, so `RunInv`
says what each phase has done to what lies behind the walk. It is about hosts that are `Sure`: no
change at or above them was lost, and if the root above them is dirty, this Build will still clear it, so
that it has been dirty since before the Build began. `DoneInv`: for a component of such a host and for
each phase, either the walk still has to come to it (`ToCome`: there is a place of that phase at the host or
above it that will not be passed over) or the phase has left the component as the application asked for.
A call makes unsure what lies below the host that it marks (`NotSure`): either the walk will still clear
the flag, and the change is lost, or it will not, and the root stays dirty for the next Build.
CheckActivity is the difficult phase, as it decides from the parent's activity and stops at an object that was off and stays off ("everything is off anyway"). `Apart`: it visits nothing twice, so
when it is at an object it is done with what is above (`HereActive`). `OffInv`: below what is off
everything is off, but where CheckActivity is at work; so where it stops there is nothing to be done
(`AllOff`). What `scenes_off` shows does not contradict this: the object it finds was moved without being
marked, and is in `lost`. `ActiveInv`: what is active is attached, awake and in the pool. The steps of the
walk are in `VisitDone`, `CallDone`, `LeaveDone`, `OffWalk`, `ApartWalk` and `ActiveWalk`; that the walk
loses nothing of what is to come is `ComesOn`, and that no host becomes sure under a Build is `SureWalk`.

**Only model-checked.** Every invariant and action property of the passing runs is proved. All liveness
(`UnusedIsCollected`, `EditsArrive`, `StatesComeRound`, `StopReturnsUnlessStuck`, `BuildsSettle`,
`InlineTasksLeave`, `ShutdownEnds`, `MeshCompletes`) rests on fairness, which is out of the prover's reach.

## 5. Not modelled

* In `Scene`: callbacks that change the list of children that is being walked (undefined: the loop
  holds iterators), calls from OnDetached, adding a destroyed component again, cycles through
  SetParent, prefabs, layers, tags, transforms, entity paths, saving, and scene logics, whose
  result is the scene `Init` starts with.
* In `TaskManager`: `m_results`, which nothing reads, a second destroying thread, the other
  singletons in DestroyAll, the map of threads by identifier, `Thread::Run`.
* In `PeerToPeer`: `SharePeer`, which nothing calls, the application's callback, ports in use.
* In `ResourceManager`: Kill, CopyResource, failed loads, dependencies between resources.
* Parts with no module: containers and pointers, subscriptions, entity identifiers, chunks and
  regions could be checked like the others and are the next in the plan; math and transforms are
  floating point; the interpreter of graph scripts, input, serialization, file system,
  localization and web are sequential or I/O. `PROJECT.json` gives the reason for each. By far
  most lines of the repository are vendored libraries under `libs/` and are not the library's own.

## 6. Further hazards

`PROJECT.json` lists the hazards that a property is about. Others met on the way:

* `IResource.cpp:289`: revival does not reset `m_isForceDestroyed`; only the settings are destroyed
  by force, and they are never revived.
* `IResource.cpp:156`: AddUsePoint counts without the lock while the collector decides.
* `FileWatcher.cpp:49`: write times are cut to 32 bits, and one cut to 0 is taken for a file system
  without times (`Truncated`, `Hidden`). `ResourceManager.cpp:540`: a watcher paused while queued
  stays dirty for ever.
* `TaskManager.cpp:186`: GetResult reads `m_ids` without the mutex. `TaskManager.cpp:87`: a task
  with its own thread is never complete. `Singleton.cpp:41`: DestroyAll iterates over a map that
  destructors may add to. `Singleton.h:134`: a singleton is registered before it is initialized.
* `SceneObject.cpp:282`: a callback that changes the children of an object whose `m_children` is
  being iterated invalidates the iterators. `IComponentable.cpp:174`: an object whose last
  component goes before it was attached stays dirty. `IComponentable.cpp:196`: a paused Build passes
  over Awake and cleans the flags.
* `PeerToPeer.cpp:59`: the connection of a peer that has left is never removed.
  `AsioTCPAcceptor.cpp:37`: a pending accept holds a bare pointer to its acceptor, which Run or the
  destructor may free before the next poll. `AsioContext.cpp:50`: the io_context is run before
  there is work and never restarted; on POSIX (`scheduler.ipp:583`) no handler ever runs.

## 7. Plan

1. Done: command manager, resource life cycle, file watching, threads worker, scene with
   components, task manager with singletons and `Thread::Execute`, peer-to-peer network; the
   theorems of section 4, which cover the invariants and action properties of all passing runs.
2. `FileWatch` composed with `ResourceManager`: Synchronize called while queues are dirty.
3. Containers: `ObjectPool`, `SafeGateArray`, `SubscriptionHolder` against reference
   definitions; resource dependencies; entity identifiers.
