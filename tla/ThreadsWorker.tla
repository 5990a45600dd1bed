---------------------------- MODULE ThreadsWorker ----------------------------
(***************************************************************************)
(* Worker threads that run named states in turn and coordinate through     *)
(* conditions on each other's states (ThreadWorker.cpp).  A state begins   *)
(* when its start conditions hold, is passed over when its skip conditions *)
(* hold, and is over when its finish conditions hold.  Stop() clears       *)
(* m_isAlive, waits until the threads have taken every entry of the        *)
(* finalize list, and joins the threads one after the other.               *)
(*                                                                         *)
(* m_state, m_isActive and m_isAlive are atomics: each read of one of them *)
(* is a step of its own, so a loop over several conditions may see values  *)
(* that never held together.                                               *)
(***************************************************************************)
EXTENDS Integers, Sequences, FiniteSets

CONSTANTS
  Thread,         \* ThreadWorker objects
  ThreadOrder,    \* m_threadWorkers: the threads, in the order of the file
  State,          \* ThreadWorkerState objects, by name
  StatesOf,       \* m_states of each thread
  YamlStart,      \* "start_condition" of each state: pairs <<state, value>>
  YamlSkip,       \* "skip_condition"
  YamlFinish,     \* "finish_condition"
  FinalizeList,   \* the "finalize" list of the file
  MayBreak        \* states whose ExecuteImpl may return Break

Value == {"idle", "working", "ready"}
Condition == State \X Value

ASSUME ThreadAssumption ==
  /\ ThreadOrder \in Seq(Thread)
  /\ \A t \in Thread : \E k \in 1..Len(ThreadOrder) : ThreadOrder[k] = t
  /\ StatesOf \in [Thread -> Seq(State)]
  /\ \A t \in Thread : StatesOf[t] # << >>
\* Load allocates an object for every entry of a thread's "states", and
\* AddThread reports a name that a second thread uses.
ASSUME OwnerAssumption ==
  \A t, u \in Thread :
    \A i \in 1..Len(StatesOf[t]), j \in 1..Len(StatesOf[u]) :
      StatesOf[t][i] = StatesOf[u][j] => t = u
ASSUME ConditionAssumption ==
  /\ YamlStart \in [State -> SUBSET Condition]
  /\ YamlSkip \in [State -> SUBSET Condition]
  /\ YamlFinish \in [State -> SUBSET Condition]
  /\ FinalizeList \in Seq(State)
  /\ MayBreak \subseteq State

VARIABLES
  st,          \* m_state of each state
  cur,         \* m_currentState of each thread (from 1)
  pc,          \* where each thread is
  todo,        \* conditions the running loop of a thread has still to read
  fin,         \* index of the thread's loop over its states in finalization
  active,      \* m_isActive of each thread
  isAlive,     \* m_isAlive of the ThreadsWorker
  finalize,    \* m_finalize
  main,        \* where the thread is that calls Start and Stop
  next,        \* its position in m_threadWorkers
  finalized    \* ghost: states whose Finalize has been run, in order

vars == <<st, cur, pc, todo, fin, active, isAlive, finalize, main, next,
          finalized>>

\* Load passes type 0 for "start_condition" and 1 for "skip_condition", and
\* processCondition adds a skip condition for 0 and a start condition for 1.
SkipConditions(s) == YamlStart[s]
StartConditions(s) == YamlSkip[s]
FinishConditions(s) == YamlFinish[s]

Current(t) == StatesOf[t][cur[t]]
Holds(c) == st[c[1]] = c[2]

Init ==
  /\ st = [s \in State |-> "idle"]
  /\ cur = [t \in Thread |-> 1]
  /\ pc = [t \in Thread |-> "unborn"]
  /\ todo = [t \in Thread |-> {}]
  /\ fin = [t \in Thread |-> 1]
  /\ active = [t \in Thread |-> FALSE]
  /\ isAlive = TRUE
  /\ finalize = FinalizeList
  /\ main = "start"
  /\ next = 1
  /\ finalized = << >>

-----------------------------------------------------------------------------
(* A worker thread *)

Goto(t, from, to) == pc[t] = from /\ pc' = [pc EXCEPT ![t] = to]
Read(t, conditions) == todo' = [todo EXCEPT ![t] = conditions]

workerFrame == <<active, isAlive, main, next>>
finalFrame == <<fin, finalize, finalized>>

\* Defect: the loop does not end when m_isActive is cleared.
WorkActive_Ignored(t) ==
  /\ Goto(t, "top", "alive")
  /\ UNCHANGED <<st, cur, todo, workerFrame, finalFrame>>

\* Work(): the head of the endless loop, m_isActive and then m_isAlive.
WorkActive(t) ==
  /\ Goto(t, "top", IF active[t] THEN "alive" ELSE "done")
  /\ UNCHANGED <<st, cur, todo, workerFrame, finalFrame>>

WorkAlive(t) ==
  /\ Goto(t, "alive", IF isAlive THEN "execute" ELSE "final")
  /\ fin' = [fin EXCEPT ![t] = 1]
  /\ UNCHANGED <<st, cur, todo, workerFrame, finalize, finalized>>

\* Execute() of the current state: where it goes on depends on m_state.
Execute(t) ==
  LET s == Current(t)
  IN /\ UNCHANGED <<st, cur, workerFrame, finalFrame>>
     /\ \/ /\ st[s] = "idle"
           /\ Goto(t, "execute", "skip")
           /\ Read(t, SkipConditions(s))
        \/ /\ st[s] = "working"
           /\ Goto(t, "execute", "work")
           /\ UNCHANGED todo
        \/ /\ st[s] = "ready"
           /\ Goto(t, "execute", "finish")
           /\ Read(t, FinishConditions(s))

\* The skip conditions, one read at a time: all must hold and there must be
\* one, else the start conditions decide.
SkipNone(t) ==
  /\ SkipConditions(Current(t)) = {}
  /\ Goto(t, "skip", "start")
  /\ Read(t, StartConditions(Current(t)))
  /\ UNCHANGED <<st, cur, workerFrame, finalFrame>>

SkipRead(t) ==
  \E c \in todo[t] :
    /\ IF Holds(c)
       THEN /\ Goto(t, "skip", IF todo[t] = {c} THEN "success" ELSE "skip")
            /\ Read(t, todo[t] \ {c})
       ELSE /\ Goto(t, "skip", "start")
            /\ Read(t, StartConditions(Current(t)))
    /\ UNCHANGED <<st, cur, workerFrame, finalFrame>>

\* A condition that does not hold is the result Repeat: Execute again.
ConditionRead(t, at) ==
  \E c \in todo[t] :
    /\ Goto(t, at, IF Holds(c) THEN at ELSE "execute")
    /\ Read(t, IF Holds(c) THEN todo[t] \ {c} ELSE {})
    /\ UNCHANGED <<st, cur, workerFrame, finalFrame>>

StartRead(t) == ConditionRead(t, "start")
FinishRead(t) == ConditionRead(t, "finish")

\* Defect: the state begins before every start condition was read.
Start_Early(t) ==
  /\ Goto(t, "start", "work")
  /\ st' = [st EXCEPT ![Current(t)] = "working"]
  /\ UNCHANGED <<cur, todo, workerFrame, finalFrame>>

Start(t) ==
  /\ todo[t] = {}
  /\ Goto(t, "start", "work")
  /\ st' = [st EXCEPT ![Current(t)] = "working"]
  /\ UNCHANGED <<cur, todo, workerFrame, finalFrame>>

\* ExecuteImpl() (external): Success, Repeat, or Break, which goes back to the
\* first state and leaves this one Working.
WorkSuccess(t) ==
  /\ Goto(t, "work", "finish")
  /\ st' = [st EXCEPT ![Current(t)] = "ready"]
  /\ Read(t, FinishConditions(Current(t)))
  /\ UNCHANGED <<cur, workerFrame, finalFrame>>

WorkRepeat(t) ==
  /\ Goto(t, "work", "execute")
  /\ UNCHANGED <<st, cur, todo, workerFrame, finalFrame>>

WorkBreak(t) ==
  /\ Current(t) \in MayBreak
  /\ Goto(t, "work", "top")
  /\ cur' = [cur EXCEPT ![t] = 1]
  /\ UNCHANGED <<st, todo, workerFrame, finalFrame>>

\* Defect: the state is not set back to Idle.
Finish_StaysReady(t) ==
  /\ todo[t] = {}
  /\ Goto(t, "finish", "success")
  /\ UNCHANGED <<st, cur, todo, workerFrame, finalFrame>>

Finish(t) ==
  /\ todo[t] = {}
  /\ Goto(t, "finish", "success")
  /\ st' = [st EXCEPT ![Current(t)] = "idle"]
  /\ UNCHANGED <<cur, todo, workerFrame, finalFrame>>

\* Defect: m_currentState runs past the last state.
Advance_OffByOne(t) ==
  /\ IF ~active[t] \/ ~isAlive
     THEN Goto(t, "success", "top") /\ UNCHANGED cur
     ELSE Goto(t, "success", "execute") /\ cur' = [cur EXCEPT ![t] = @ + 1]
  /\ UNCHANGED <<st, todo, workerFrame, finalFrame>>

\* Update() after Success: only here does it look at m_isActive and m_isAlive.
Advance(t) ==
  /\ IF ~active[t] \/ ~isAlive
     THEN Goto(t, "success", "top") /\ UNCHANGED cur
     ELSE IF cur[t] < Len(StatesOf[t])
     THEN Goto(t, "success", "execute") /\ cur' = [cur EXCEPT ![t] = @ + 1]
     ELSE Goto(t, "success", "top") /\ cur' = [cur EXCEPT ![t] = 1]
  /\ UNCHANGED <<st, todo, workerFrame, finalFrame>>

\* Defect: no `continue' after the loop over the states.
CheckFinalize_FallsThrough(t) ==
  /\ IF fin[t] > Len(StatesOf[t])
     THEN Goto(t, "final", "execute") /\ UNCHANGED <<fin, finalize>>
     ELSE IF finalize # << >> /\ Head(finalize) = StatesOf[t][fin[t]]
     THEN /\ Goto(t, "final", "finalize")
          /\ finalize' = Tail(finalize)
          /\ UNCHANGED fin
     ELSE /\ Goto(t, "final", "final")
          /\ fin' = [fin EXCEPT ![t] = @ + 1]
          /\ UNCHANGED finalize
  /\ UNCHANGED <<st, cur, todo, workerFrame, finalized>>

\* CheckFinalize under the lock: the entry is taken, then Finalize() runs
\* without it.
CheckFinalize(t) ==
  /\ IF fin[t] > Len(StatesOf[t])
     THEN Goto(t, "final", "top") /\ UNCHANGED <<fin, finalize>>
     ELSE IF finalize # << >> /\ Head(finalize) = StatesOf[t][fin[t]]
     THEN /\ Goto(t, "final", "finalize")
          /\ finalize' = Tail(finalize)
          /\ UNCHANGED fin
     ELSE /\ Goto(t, "final", "final")
          /\ fin' = [fin EXCEPT ![t] = @ + 1]
          /\ UNCHANGED finalize
  /\ UNCHANGED <<st, cur, todo, workerFrame, finalized>>

Finalize(t) ==
  /\ Goto(t, "finalize", "final")
  /\ finalized' = Append(finalized, StatesOf[t][fin[t]])
  /\ fin' = [fin EXCEPT ![t] = @ + 1]
  /\ UNCHANGED <<st, cur, todo, workerFrame, finalize>>

-----------------------------------------------------------------------------
(* The owner: Start(), StopAsync(), Stop() *)

ownerFrame == <<st, cur, todo, fin, finalize, finalized>>

StartThread ==
  /\ main = "start"
  /\ IF next <= Len(ThreadOrder)
     THEN /\ active' = [active EXCEPT ![ThreadOrder[next]] = TRUE]
          /\ pc' = [pc EXCEPT ![ThreadOrder[next]] = "top"]
          /\ next' = next + 1
          /\ UNCHANGED main
     ELSE main' = "run" /\ UNCHANGED <<active, pc, next>>
  /\ UNCHANGED <<isAlive, ownerFrame>>

StopAsync ==
  /\ main = "run" /\ isAlive
  /\ isAlive' = FALSE
  /\ UNCHANGED <<pc, active, main, next, ownerFrame>>

Stop ==
  /\ main = "run"
  /\ main' = "wait_finalize"
  /\ isAlive' = FALSE
  /\ UNCHANGED <<pc, active, next, ownerFrame>>

\* Defect: the threads are stopped while finalizations are due.
StopFinalized_NoWait ==
  /\ main = "wait_finalize"
  /\ main' = "stop_thread"
  /\ next' = 1
  /\ UNCHANGED <<pc, active, isAlive, ownerFrame>>

StopFinalized ==
  /\ main = "wait_finalize"
  /\ finalize = << >>
  /\ main' = "stop_thread"
  /\ next' = 1
  /\ UNCHANGED <<pc, active, isAlive, ownerFrame>>

\* ThreadWorker::Stop of the next thread, and the join.
StopThread ==
  /\ main = "stop_thread"
  /\ IF next <= Len(ThreadOrder)
     THEN active' = [active EXCEPT ![ThreadOrder[next]] = FALSE] /\ main' = "join"
     ELSE main' = "stopped" /\ UNCHANGED active
  /\ UNCHANGED <<pc, isAlive, next, ownerFrame>>

JoinThread ==
  /\ main = "join"
  /\ pc[ThreadOrder[next]] = "done"
  /\ next' = next + 1
  /\ main' = "stop_thread"
  /\ UNCHANGED <<pc, active, isAlive, ownerFrame>>

-----------------------------------------------------------------------------
Worker(t) ==
  \/ WorkActive(t) \/ WorkAlive(t)
  \/ Execute(t) \/ SkipNone(t) \/ SkipRead(t) \/ StartRead(t) \/ Start(t)
  \/ WorkSuccess(t) \/ WorkRepeat(t) \/ WorkBreak(t)
  \/ FinishRead(t) \/ Finish(t) \/ Advance(t)
  \/ CheckFinalize(t) \/ Finalize(t)

Owner ==
  StartThread \/ StopAsync \/ Stop \/ StopFinalized \/ StopThread \/ JoinThread

Next == Owner \/ \E t \in Thread : Worker(t)

Spec == Init /\ [][Next]_vars

\* Threads are scheduled, ExecuteImpl succeeds in the end, and an owner that
\* has begun to start or stop the threads goes on; it need not call Stop.
FairSpec ==
  /\ Spec
  /\ \A t \in Thread : WF_vars(Worker(t)) /\ SF_vars(WorkSuccess(t))
  /\ WF_vars(StartThread \/ StopFinalized \/ StopThread \/ JoinThread)

-----------------------------------------------------------------------------
(* Properties *)

TypeOK ==
  /\ st \in [State -> Value]
  /\ cur \in [Thread -> Nat]
  /\ \A t \in Thread : cur[t] \in 1..Len(StatesOf[t])
  /\ pc \in [Thread -> {"unborn", "top", "alive", "execute", "skip", "start",
                        "work", "finish", "success", "final", "finalize",
                        "done"}]
  /\ todo \in [Thread -> SUBSET Condition]
  /\ fin \in [Thread -> Nat]
  /\ \A t \in Thread : fin[t] \in 1..(Len(StatesOf[t]) + 1)
  /\ active \in [Thread -> BOOLEAN]
  /\ isAlive \in BOOLEAN
  /\ finalize \in Seq(State)
  /\ main \in {"start", "run", "wait_finalize", "stop_thread", "join",
               "stopped"}
  /\ next \in 1..(Len(ThreadOrder) + 1)
  /\ finalized \in Seq(State)

OwnerOf(s) ==
  CHOOSE t \in Thread : \E k \in 1..Len(StatesOf[t]) : StatesOf[t][k] = s

\* A four-phase handshake, by the start conditions of a and b: a starts when b
\* is idle and is over when b is ready, b starts when a is ready and is over
\* when a is idle.
Handshake(start, a, b) ==
  /\ <<b, "idle">> \in start[a] /\ <<b, "ready">> \in FinishConditions(a)
  /\ <<a, "ready">> \in start[b] /\ <<a, "idle">> \in FinishConditions(b)

\* The conditions coordinate: while b of a handshake works, a stands ready,
\* although no thread reads and sets states in one step.  (With one of the
\* four conditions left out a stale read breaks it.)
HandshakeExcludes ==
  \A a, b \in State :
    Handshake([s \in State |-> StartConditions(s)], a, b) /\ st[b] = "working"
      => st[a] = "ready"

\* When Stop() has returned every thread has left its function, and every
\* entry of the finalize list that some thread has a state for was finalized,
\* once, by Finalize() that has run to its end.
StoppedIsClean ==
  main = "stopped" =>
    /\ \A t \in Thread : pc[t] = "done"
    /\ finalize = << >>
    /\ Len(finalized) = Len(FinalizeList)
    /\ \A k \in 1..Len(FinalizeList) :
         \E j \in 1..Len(finalized) : finalized[j] = FinalizeList[k]

\* No state is finalized before the stop was asked for, and from its
\* finalization on no thread begins or ends a state of the same thread.
NoWorkAfterFinalize ==
  [][\A t \in Thread : \A k \in 1..Len(StatesOf[t]) :
       (\E j \in 1..Len(finalized) : finalized[j] = StatesOf[t][k])
         => st'[StatesOf[t][k]] = st[StatesOf[t][k]] /\ ~isAlive]_vars

\* As long as nobody stops the threads, every state that is never skipped comes
\* to work again and again: the conditions do not lock the threads up.
StatesComeRound ==
  []isAlive =>
    \A s \in State : SkipConditions(s) = {} => []<>(st[s] = "working")

\* A thread in Update() that waits for a state whose thread has left Update()
\* for good.
Awaited(t) ==
  CASE st[Current(t)] = "idle" -> StartConditions(Current(t))
    [] st[Current(t)] = "working" -> {}
    [] st[Current(t)] = "ready" -> FinishConditions(Current(t))
Stuck(t) ==
  /\ ~isAlive
  /\ pc[t] = "execute"
  /\ \E c \in Awaited(t) :
       /\ ~Holds(c)
       /\ pc[OwnerOf(c[1])] \in {"top", "alive", "final", "finalize", "done"}

\* Stop() returns, unless a thread is caught in the Repeat loop of Update(),
\* which does not look at m_isAlive, waiting for a thread that already has.
StopReturnsUnlessStuck ==
  main = "wait_finalize" ~> (main = "stopped" \/ \E t \in Thread : Stuck(t))

\* The same for conditions written under the key "start_condition", which a
\* state is to wait for before it works.
StartConditionIsAwaited ==
  \A a, b \in State :
    Handshake(YamlStart, a, b) /\ st[b] = "working" => st[a] = "ready"
=============================================================================
