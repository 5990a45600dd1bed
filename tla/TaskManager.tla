----------------------------- MODULE TaskManager -----------------------------
(***************************************************************************)
(* The task manager (TaskManager.cpp) with the singleton that holds it     *)
(* (Singleton.h, Singleton.cpp) and the way a task gets work done by the   *)
(* main thread (Thread::Execute and Synchronize in Thread.cpp).            *)
(*                                                                         *)
(* Threads: the callers that submit a task each, through Instance() and    *)
(* Execute(); the manager's own thread, which starts the waiting tasks and *)
(* drops the finished ones under m_mutex; a thread for each task that was  *)
(* submitted with createThread; and the main thread, which synchronizes,   *)
(* submits and at last destroys the manager.  A manager created after the  *)
(* destruction is a new instance: instances are numbered.                  *)
(*                                                                         *)
(* Left out: m_results, which nothing reads; a second DestroySingleton;    *)
(* the other singletons that DestroyAll destroys.                          *)
(***************************************************************************)
EXTENDS Integers, Sequences, FiniteSets, SequencesExt

CONSTANTS
  Task,         \* the tasks, each submitted at most once
  OwnThread,    \* tasks with m_createThread
  Asking,       \* tasks whose function calls Execute of the main thread
  OfMain,       \* tasks submitted by the main thread
  MaxDestroys   \* bound: how often the main thread destroys the manager

ASSUME TaskAssumption ==
  /\ OwnThread \subseteq Task
  /\ Asking \subseteq Task
  /\ OfMain \subseteq Task
ASSUME DestroysAssumption == MaxDestroys \in Nat

None == "none"
ASSUME NoneAssumption == None \notin Task

\* A new instance needs a destruction of the one before.
Manager == 1..(MaxDestroys + 1)
Inline == Task \ OwnThread
State == {"Unknown", "Waiting", "Launched", "Stopped", "Completed", "Failed"}

VARIABLES
  registered,  \* the instance in m_singletons, 0 if there is none
  manager,     \* the instances: alive, m_isRun, m_thread, m_tasks, m_ids
  pass,        \* the manager's thread: where it is and at which task
  call,        \* where the submitting call of each task is
  ref,         \* the instance the call got from Instance()
  state,       \* *m_state of each task
  freed,       \* tasks whose m_state has been deleted
  body,        \* where the function of each task is
  function,    \* m_function of the main thread
  result,      \* m_executeResult: the task whose function gave it
  running,     \* the task whose function Synchronize is calling
  main,        \* where the main thread is
  target,      \* the instance it destroys
  all,         \* by DestroyAll, holding the SingletonManager's mutex
  destroys,    \* how often it has done so
  fault,       \* the use of freed memory that ended the program
  ran,         \* ghost: how often the main thread ran each task's function
  answer,      \* ghost: what Execute returned to each task
  overlapped,  \* ghost: tasks that called Execute while another did
  lostCall,    \* ghost: tasks whose m_function another call overwrote
  robbed,      \* ghost: tasks listed when another task's id was erased
  hasty        \* ghost: an instance was destroyed before InitSingleton ended

single == <<registered, call, ref>>
tasks == <<state, freed, body, robbed>>
asks == <<function, result, running, ran, answer, overlapped, lostCall>>
ending == <<main, target, all, destroys, hasty>>
vars == <<single, manager, pass, tasks, asks, ending, fault>>

Init ==
  /\ registered = 0
  /\ manager = [g \in Manager |-> [alive |-> FALSE, isRun |-> FALSE,
                  thread |-> FALSE, tasks |-> << >>, id |-> FALSE]]
  /\ pass = [g \in Manager |-> [at |-> "unborn", next |-> 1]]
  /\ call = [t \in Task |-> "idle"]
  /\ ref = [t \in Task |-> 0]
  /\ state = [t \in Task |-> "Unknown"]
  /\ freed = {}
  /\ body = [t \in Task |-> "idle"]
  /\ function = None
  /\ result = None
  /\ running = None
  /\ main = "frame"
  /\ target = 0
  /\ all = FALSE
  /\ destroys = 0
  /\ fault = None
  /\ ran = [t \in Task |-> 0]
  /\ answer = [t \in Task |-> None]
  /\ overlapped = {}
  /\ lostCall = {}
  /\ robbed = {}
  /\ hasty = FALSE

-----------------------------------------------------------------------------
(* Singleton::Instance() and TaskManager::Execute(), called for task t *)

Submitting(t) == call[t] \notin {"idle", "done"}

\* The main thread is between two things it does.
MainIsFree ==
  /\ main = "frame"
  /\ running = None
  /\ \A t \in OfMain : ~Submitting(t)

\* m_mutex of the SingletonManager: every other use of it is short.
ManagersOpen == main = "frame" \/ ~all

\* The creation mutex, held from the second GetSingleton to the end.
Creating == \E t \in Task : call[t] \in {"init", "start"}

Step(t, from, to) == call[t] = from /\ call' = [call EXCEPT ![t] = to]

Found(t, from) ==
  /\ registered # 0
  /\ Step(t, from, "execute")
  /\ ref' = [ref EXCEPT ![t] = registered]
  /\ UNCHANGED <<registered, manager>>

\* The first GetSingleton(), without the creation mutex.
Instance(t) ==
  /\ t \in OfMain => MainIsFree
  /\ ManagersOpen
  /\ \/ Found(t, "idle")
     \/ /\ registered = 0
        /\ Step(t, "idle", "create")
        /\ UNCHANGED <<registered, ref, manager>>
  /\ UNCHANGED <<pass, tasks, asks, ending, fault>>

NextManager == Cardinality({g \in Manager : pass[g].at # "unborn"}) + 1

\* new T() and Register: other threads find the instance from here on.
Register(t) ==
  LET g == NextManager
  IN /\ Step(t, "create", "init")
     /\ registered' = g
     /\ ref' = [ref EXCEPT ![t] = g]
     /\ manager' = [manager EXCEPT ![g].alive = TRUE]
     /\ pass' = [pass EXCEPT ![g].at = "new"]

\* Defect: the instance is created without looking for it again.
Create_Unchecked(t) ==
  /\ ManagersOpen
  /\ ~Creating
  /\ Register(t)
  /\ UNCHANGED <<tasks, asks, ending, fault>>

\* The creation mutex is taken and GetSingleton() called again.
Create(t) ==
  /\ ManagersOpen
  /\ ~Creating
  /\ \/ Found(t, "create") /\ UNCHANGED pass
     \/ registered = 0 /\ Register(t)
  /\ UNCHANGED <<tasks, asks, ending, fault>>

Fail(kind) ==
  /\ fault' = kind
  /\ UNCHANGED <<single, manager, pass, tasks, asks, ending>>

\* InitSingleton(): m_isRun is stored, then the thread is created (which
\* looks up the thread factory) and stored in m_thread.
InitSingleton(t) ==
  /\ Step(t, "init", "start")
  /\ manager[ref[t]].alive
  /\ manager' = [manager EXCEPT ![ref[t]].isRun = TRUE]
  /\ UNCHANGED <<registered, ref, pass, tasks, asks, ending, fault>>

InitThread(t) ==
  /\ Step(t, "start", "execute")
  /\ manager[ref[t]].alive
  /\ ManagersOpen
  /\ manager' = [manager EXCEPT ![ref[t]].thread = TRUE]
  /\ pass' = [pass EXCEPT ![ref[t]].at = "head"]
  /\ UNCHANGED <<registered, ref, tasks, asks, ending, fault>>

InitFreed(t) ==
  /\ call[t] \in {"init", "start"}
  /\ ~manager[ref[t]].alive
  /\ Fail("init")

\* m_mutex of the instance, which its thread holds for a whole pass.
Locked(g) == pass[g].at \in {"scan", "create", "body"}

\* Execute(task): GetUniqueId() is 0 for every task, so m_ids is a flag.
Execute(t) ==
  /\ Step(t, "execute", "done")
  /\ manager[ref[t]].alive
  /\ ~Locked(ref[t])
  /\ state' = [state EXCEPT ![t] = "Waiting"]
  /\ manager' = [manager EXCEPT ![ref[t]].tasks = Append(@, t),
                                ![ref[t]].id = TRUE]
  /\ UNCHANGED <<registered, ref, pass, freed, body, robbed, asks, ending,
                 fault>>

ExecuteFreed(t) ==
  /\ call[t] = "execute"
  /\ ~manager[ref[t]].alive
  /\ Fail("execute")

-----------------------------------------------------------------------------
(* The thread of instance g, created by InitSingleton *)

\* The task the pass is at; None at the end of m_tasks.
Current(g) ==
  IF pass[g].next > Len(manager[g].tasks) THEN None
  ELSE manager[g].tasks[pass[g].next]

Goes(g, from, to) ==
  /\ manager[g].alive
  /\ pass[g].at = from
  /\ pass' = [pass EXCEPT ![g] = to]

\* The loop: m_isRun is read, the thread sleeps and takes m_mutex.
LoopHead(g) ==
  /\ \/ manager[g].isRun /\ Goes(g, "head", [at |-> "scan", next |-> 1])
     \/ ~manager[g].isRun /\ Goes(g, "head", [at |-> "over", next |-> 1])
  /\ UNCHANGED <<single, manager, tasks, asks, ending, fault>>

PassEnds(g) ==
  /\ Current(g) = None
  /\ Goes(g, "scan", [at |-> "head", next |-> 1])
  /\ UNCHANGED <<single, manager, tasks, asks, ending, fault>>

\* Run() of a waiting task: on a thread of its own, or here and now.
Run(g) ==
  LET t == Current(g)
  IN /\ t # None
     /\ state[t] = "Waiting"
     /\ state' = [state EXCEPT ![t] = "Launched"]
     /\ \/ /\ t \in OwnThread
           /\ Goes(g, "scan", [pass[g] EXCEPT !.at = "create"])
           /\ UNCHANGED body
        \/ /\ t \in Inline
           /\ Goes(g, "scan", [pass[g] EXCEPT !.at = "body"])
           /\ body' = [body EXCEPT ![t] = "begin"]
     /\ UNCHANGED <<single, manager, freed, robbed, asks, ending, fault>>

\* Factory::Instance().Create: nobody joins the thread, so the task is not
\* complete for the manager, now or later.
CreateThread(g) ==
  /\ ManagersOpen
  /\ Goes(g, "create", [pass[g] EXCEPT !.at = "scan", !.next = @ + 1])
  /\ body' = [body EXCEPT ![Current(g)] = "begin"]
  /\ UNCHANGED <<single, manager, state, freed, robbed, asks, ending, fault>>

\* An inline function has returned.
Returned(g) ==
  /\ Current(g) # None
  /\ body[Current(g)] = "over"
  /\ Goes(g, "body", [pass[g] EXCEPT !.at = "scan"])
  /\ UNCHANGED <<single, manager, tasks, asks, ending, fault>>

\* Defect: a failed task is not taken for finished.
IsCompleted_NotFailed(t) == t \in Inline /\ state[t] \in {"Completed", "Stopped"}

\* Task::IsCompleted(): the thread of a task stays joinable.
IsCompleted(t) ==
  t \in Inline /\ state[t] \in {"Completed", "Failed", "Stopped"}

\* Defect: the identifier of the finished task is kept.
Finish_KeepsId(g) ==
  /\ Current(g) # None
  /\ IsCompleted(Current(g))
  /\ Goes(g, "scan", pass[g])
  /\ manager' = [manager EXCEPT ![g].tasks = RemoveAt(@, pass[g].next)]
  /\ freed' = freed \cup {Current(g)}
  /\ UNCHANGED <<single, state, body, robbed, asks, ending, fault>>

\* A completed task leaves m_tasks and takes the common identifier with it;
\* ~Task deletes its m_state.
Finish(g) ==
  LET t == Current(g)
  IN /\ t # None
     /\ IsCompleted(t)
     /\ Goes(g, "scan", pass[g])
     /\ manager' = [manager EXCEPT ![g].tasks = RemoveAt(@, pass[g].next),
                                   ![g].id = FALSE]
     /\ freed' = freed \cup {t}
     /\ robbed' = robbed \cup (ToSet(manager[g].tasks) \ {t})
     /\ UNCHANGED <<single, state, body, asks, ending, fault>>

Pass(g) ==
  LET t == Current(g)
  IN /\ t # None
     /\ state[t] # "Waiting"
     /\ ~IsCompleted(t)
     /\ Goes(g, "scan", [pass[g] EXCEPT !.next = @ + 1])
     /\ UNCHANGED <<single, manager, tasks, asks, ending, fault>>

PassFreed(g) ==
  /\ pass[g].at \notin {"unborn", "new", "over"}
  /\ ~manager[g].alive
  /\ Fail("pass")

-----------------------------------------------------------------------------
(* The function of task t *)

Moves(t, from, to) == body[t] = from /\ body' = [body EXCEPT ![t] = to]

bodyFrame == <<single, manager, pass, freed, robbed, ending>>

\* A thread of its own first reads the Thread object it belongs to, which
\* goes when the m_state does.
Begin(t) ==
  /\ t \notin freed
  /\ Moves(t, "begin", IF t \in Asking THEN "ask" ELSE "report")
  /\ UNCHANGED <<bodyFrame, state, asks, fault>>

InExecute == {t \in Task : body[t] \in {"store", "wait", "read"}}

\* Thread::Execute from another thread: wait until m_function is null ...
Ask(t) ==
  /\ function = None
  /\ Moves(t, "ask", "store")
  /\ overlapped' = IF InExecute = {} THEN overlapped
                   ELSE overlapped \cup InExecute \cup {t}
  /\ UNCHANGED <<bodyFrame, state, function, result, running, ran, answer,
                 lostCall, fault>>

\* ... store the function under the write lock, which Synchronize holds
\* while it calls one ...
Store(t) ==
  /\ running = None
  /\ Moves(t, "store", "wait")
  /\ function' = t
  /\ lostCall' = lostCall \cup ({function} \ {None})
  /\ UNCHANGED <<bodyFrame, state, result, running, ran, answer, overlapped,
                 fault>>

\* ... wait until m_function is null again, and read m_executeResult.
Wait(t) ==
  /\ function = None
  /\ Moves(t, "wait", "read")
  /\ UNCHANGED <<bodyFrame, state, asks, fault>>

ReadResult(t) ==
  /\ Moves(t, "read", "report")
  /\ answer' = [answer EXCEPT ![t] = result]
  /\ UNCHANGED <<bodyFrame, state, function, result, running, ran, overlapped,
                 lostCall, fault>>

\* The function tells how it went, or forgets to.
Report(t) ==
  /\ Moves(t, "report", "over")
  /\ \/ \E s \in {"Completed", "Failed"} :
          t \notin freed /\ state' = [state EXCEPT ![t] = s]
     \/ UNCHANGED state
  /\ UNCHANGED <<bodyFrame, asks, fault>>

BodyFreed(t) ==
  /\ body[t] \in {"begin", "report"}
  /\ t \in freed
  /\ Fail("task")

-----------------------------------------------------------------------------
(* The main thread *)

\* Defect: m_function is cleared before the call.
SynchronizeCall_Clears ==
  /\ MainIsFree
  /\ function # None
  /\ running' = function
  /\ function' = None
  /\ UNCHANGED <<single, manager, pass, tasks, result, ran, answer,
                 overlapped, lostCall, ending, fault>>

\* Synchronize(): the pending function is called under the write lock.
SynchronizeCall ==
  /\ MainIsFree
  /\ function # None
  /\ running' = function
  /\ UNCHANGED <<single, manager, pass, tasks, function, result, ran, answer,
                 overlapped, lostCall, ending, fault>>

SynchronizeReturn ==
  /\ running # None
  /\ result' = running
  /\ ran' = [ran EXCEPT ![running] = @ + 1]
  /\ function' = None
  /\ running' = None
  /\ UNCHANGED <<single, manager, pass, tasks, answer, overlapped, lostCall,
                 ending, fault>>

destroyFrame == <<call, ref, state, body, robbed, asks>>

\* DestroySingleton() or DestroyAll(): the instance is looked up.
DestroySingleton ==
  /\ MainIsFree
  /\ registered # 0
  /\ destroys < MaxDestroys
  /\ main' = "stop"
  /\ target' = registered
  /\ all' \in BOOLEAN
  /\ destroys' = destroys + 1
  /\ hasty' = (hasty \/ ~manager[registered].thread)
  /\ UNCHANGED <<registered, manager, pass, freed, destroyFrame, fault>>

\* Defect: the thread is told to stop by nobody.
OnSingletonDestroy_Silent ==
  /\ main = "stop"
  /\ main' = "join"
  /\ UNCHANGED <<registered, manager, pass, freed, destroyFrame, target, all,
                 destroys, hasty, fault>>

\* OnSingletonDestroy(): m_isRun is cleared ...
OnSingletonDestroy ==
  /\ main = "stop"
  /\ main' = "join"
  /\ manager' = [manager EXCEPT ![target].isRun = FALSE]
  /\ UNCHANGED <<registered, pass, freed, destroyFrame, target, all, destroys,
                 hasty, fault>>

\* Defect: the thread is freed but not waited for.
TryJoin_NoWait ==
  /\ main = "join"
  /\ main' = IF all THEN "delete" ELSE "remove"
  /\ manager' = [manager EXCEPT ![target].thread = FALSE]
  /\ UNCHANGED <<registered, pass, freed, destroyFrame, target, all, destroys,
                 hasty, fault>>

\* Defect: the instance is taken out of the registry before the join.
TryJoin_Removed ==
  /\ \/ /\ main = "join"
        /\ main' = "joining"
        /\ registered' = 0
        /\ UNCHANGED manager
     \/ /\ main = "joining"
        /\ manager[target].thread => pass[target].at = "over"
        /\ main' = "delete"
        /\ manager' = [manager EXCEPT ![target].thread = FALSE]
        /\ UNCHANGED registered
  /\ UNCHANGED <<pass, freed, destroyFrame, target, all, destroys, hasty,
                 fault>>

\* ... and the thread, if there is one, joined and freed.
TryJoin ==
  /\ main = "join"
  /\ manager[target].thread => pass[target].at = "over"
  /\ main' = IF all THEN "delete" ELSE "remove"
  /\ manager' = [manager EXCEPT ![target].thread = FALSE]
  /\ UNCHANGED <<registered, pass, freed, destroyFrame, target, all, destroys,
                 hasty, fault>>

\* DestroySingleton removes the instance from m_singletons, then deletes it.
RemoveSingleton ==
  /\ main = "remove"
  /\ main' = "delete"
  /\ registered' = 0
  /\ UNCHANGED <<manager, pass, freed, destroyFrame, target, all, destroys,
                 hasty, fault>>

\* Task::Stop: the state of the launched ones of these tasks.  (The others
\* only reach an assertion.)
Stop(left) ==
  [t \in Task |->
     IF t \in left /\ state[t] = "Launched" THEN "Stopped" ELSE state[t]]

\* ~TaskManager: Stop() and ~Task for what is left of m_tasks.  Stop reads
\* m_thread of every launched task, which one without a thread has not.
Delete ==
  LET left == ToSet(manager[target].tasks)
  IN /\ main = "delete"
     /\ main' = "frame"
     /\ registered' = IF all THEN 0 ELSE registered
     /\ manager' = [manager EXCEPT ![target].alive = FALSE,
                      ![target].tasks = << >>, ![target].id = FALSE]
     /\ state' = Stop(left)
     /\ freed' = freed \cup left
     /\ fault' = IF \E t \in left \cap Inline : state[t] = "Launched"
                 THEN "stop" ELSE None
     /\ UNCHANGED <<call, ref, body, robbed, asks, pass, target, all,
                    destroys, hasty>>

-----------------------------------------------------------------------------

Submit(t) ==
  Create(t) \/ InitSingleton(t) \/ InitThread(t) \/ InitFreed(t)
    \/ ExecuteFreed(t)
Loop(g) ==
  LoopHead(g) \/ PassEnds(g) \/ Run(g) \/ CreateThread(g) \/ Returned(g)
    \/ Finish(g) \/ Pass(g) \/ PassFreed(g)
Body(t) ==
  Begin(t) \/ Ask(t) \/ Store(t) \/ Wait(t) \/ ReadResult(t) \/ Report(t)
    \/ BodyFreed(t)
Synchronize == SynchronizeCall \/ SynchronizeReturn
Destroying == OnSingletonDestroy \/ TryJoin \/ RemoveSingleton \/ Delete

\* A use of freed memory ends the program.
Next ==
  /\ fault = None
  /\ \/ \E t \in Task : Instance(t) \/ Submit(t) \/ Execute(t) \/ Body(t)
     \/ \E g \in Manager : Loop(g)
     \/ Synchronize
     \/ DestroySingleton
     \/ Destroying

Spec == Init /\ [][Next]_vars

\* Every thread goes on when it can; nobody has to submit or to destroy.
\* Callers and task functions take finitely many steps each, so one condition
\* for all of them says that each goes on.  A caller gets m_mutex in the end:
\* the manager's thread sleeps 10 ms outside of it before every pass.
Fairness ==
  /\ WF_vars(fault = None /\ \E t \in Task : Submit(t))
  /\ SF_vars(fault = None /\ \E t \in Task : Execute(t))
  /\ WF_vars(fault = None /\ \E t \in Task : Body(t))
  /\ \A g \in Manager : WF_vars(fault = None /\ Loop(g))
  /\ WF_vars(fault = None /\ (Synchronize \/ Destroying))

FairSpec == Spec /\ Fairness

-----------------------------------------------------------------------------
(* Properties *)

\* Types; and the registry never holds more instances over time than the
\* destructions allow: Instance() creates one only when there is none.
TypeOK ==
  /\ registered \in {0} \cup Manager
  /\ manager \in [Manager -> [alive : BOOLEAN, isRun : BOOLEAN,
                    thread : BOOLEAN, tasks : Seq(Task), id : BOOLEAN]]
  /\ pass \in [Manager -> [at : {"unborn", "new", "head", "scan", "create",
                                 "body", "over"}, next : Nat \ {0}]]
  /\ call \in [Task -> {"idle", "create", "init", "start", "execute", "done"}]
  /\ ref \in [Task -> {0} \cup Manager]
  /\ state \in [Task -> State]
  /\ freed \subseteq Task
  /\ body \in [Task -> {"idle", "begin", "ask", "store", "wait", "read",
                        "report", "over"}]
  /\ {function, result, running} \subseteq Task \cup {None}
  /\ main \in {"frame", "stop", "join", "remove", "delete"}
  /\ target \in {0} \cup Manager
  /\ all \in BOOLEAN
  /\ destroys \in 0..MaxDestroys
  /\ fault \in {None, "init", "execute", "pass", "task", "stop"}
  /\ ran \in [Task -> Nat]
  /\ answer \in [Task -> Task \cup {None}]
  /\ overlapped \subseteq Task
  /\ lostCall \subseteq Task
  /\ robbed \subseteq Task
  /\ hasty \in BOOLEAN

\* Thread::Execute runs its function once, on the main thread, before it
\* returns, and returns what the function gave -- unless calls overlapped:
\* then a function may be overwritten and never run, and the result may be
\* another's.  In every case the function that is pending or running is one
\* whose caller still waits, so the pointer to it is good.
ExecuteRuns ==
  /\ \A t \in {function, running} \ {None} : body[t] = "wait"
  /\ \A t \in Task : answer[t] # None =>
       /\ ran[t] = 1 \/ (ran[t] = 0 /\ t \in lostCall)
       /\ answer[t] = t \/ t \in overlapped
  /\ lostCall \subseteq overlapped

\* Tasks without a thread of their own never run at the same time, over all
\* instances of the manager: an instance leaves the registry when its thread
\* has ended.  Excepted: one destroyed before its InitSingleton had ended.
InlineIsSerial ==
  ~hasty =>
    \A t, u \in Inline :
      {body[t], body[u]} \cap {"idle", "over"} = {} => t = u

\* What can touch freed memory.  The manager's thread and InitSingleton do
\* only if the destruction met an unfinished InitSingleton; the function of
\* a task only on a thread of the task's own, which nobody waits for; Stop
\* meets a launched task without a thread only if its function returned and
\* never told its state.  The last case is a caller that got its reference
\* before the destruction.
FaultsAreExplained ==
  /\ fault \in {"init", "pass"} => hasty
  /\ fault = "task" => \E t \in OwnThread :
       t \in freed /\ body[t] \in {"begin", "report"}
  /\ fault = "stop" => \E t \in Inline :
       state[t] = "Stopped" /\ (body[t] = "over" \/ hasty)

\* Task t is on m_tasks of the manager that got it.
Listed(t) == call[t] = "done" /\ t \in ToSet(manager[ref[t]].tasks)

\* GetResult(t) of that manager.
GetResult(t) == IF manager[ref[t]].id THEN "Launched" ELSE "Unknown"

\* All tasks share one identifier.  A task on the list is still answered
\* for with Launched unless another task was finished beside it, and the
\* answer Launched is given only while some task is on the list.
AnswersAreTrue ==
  \A t \in Task : call[t] = "done" =>
    /\ Listed(t) => GetResult(t) = "Launched" \/ t \in robbed
    /\ GetResult(t) = "Launched" =>
         \E u \in Task : Listed(u) /\ ref[u] = ref[t]

\* The main thread waits for the manager's thread, in a join or for m_mutex,
\* while a task on that thread waits for the main thread to synchronize.
WaitForEachOther(g) ==
  /\ pass[g].at = "body"
  /\ Current(g) # None /\ body[Current(g)] \in {"ask", "wait"}
  /\ function # None
  /\ \/ main = "join" /\ target = g
     \/ \E t \in OfMain : call[t] = "execute" /\ ref[t] = g

\* DestroyAll waits for a thread that needs the mutex DestroyAll holds.
WaitsForRegistry(g) ==
  main = "join" /\ target = g /\ all /\ pass[g].at = "create"

\* InitSingleton has stored TRUE after OnSingletonDestroy stored FALSE.
StopWasLost(g) ==
  /\ main = "join" /\ target = g
  /\ hasty
  /\ manager[g].thread /\ manager[g].isRun

\* A task without a thread of its own leaves the list unless its function
\* never tells its state, the manager is stopped, or main and manager wait
\* for each other.  (One with a thread never leaves it.)
InlineTasksLeave ==
  \A t \in Inline :
    Listed(t) ~>
      \/ ~Listed(t)
      \/ body[t] = "over" /\ state[t] = "Launched"
      \/ ~manager[ref[t]].isRun
      \/ WaitForEachOther(ref[t])
      \/ fault # None

\* The destruction ends: the manager's thread sees m_isRun and is joined,
\* save for three deadlocks.
ShutdownEnds ==
  main = "stop" ~>
    \/ main = "frame"
    \/ fault # None
    \/ \E g \in Manager :
         WaitForEachOther(g) \/ WaitsForRegistry(g) \/ StopWasLost(g)

=============================================================================
