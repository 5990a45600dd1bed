-------------------------- MODULE TaskManager_proofs --------------------------
(***************************************************************************)
(* Proofs about TaskManager, for any tasks and any number of destructions: *)
(* what Thread::Execute does for callers that overlap and for those that   *)
(* do not; then which instances of the manager are alive and which have a  *)
(* thread, where tasks run, what touches freed memory and what GetResult   *)
(* says of the tasks.                                                      *)
(***************************************************************************)
EXTENDS TaskManager, SequenceTheorems, FiniteSetTheorems, TLAPS

-----------------------------------------------------------------------------
(* The inductive invariant *)

ManagerRecord == [alive : BOOLEAN, isRun : BOOLEAN, thread : BOOLEAN,
                  tasks : Seq(Task), id : BOOLEAN]
PassRecord == [at : {"unborn", "new", "head", "scan", "create", "body",
                     "over"}, next : Nat \ {0}]
BodyAt == {"idle", "begin", "ask", "store", "wait", "read", "report", "over"}

ManagerTypes ==
  /\ manager \in [Manager -> ManagerRecord]
  /\ pass \in [Manager -> PassRecord]
  /\ call \in [Task -> {"idle", "create", "init", "start", "execute", "done"}]
  /\ ref = [t \in Task |-> ref[t]]
  /\ state \in [Task -> State]

AskTypes ==
  /\ body \in [Task -> BodyAt]
  /\ function \in Task \cup {None}
  /\ result \in Task \cup {None}
  /\ running \in Task \cup {None}
  /\ ran \in [Task -> Nat]
  /\ answer \in [Task -> Task \cup {None}]

\* A task is on the list of the manager that got it, and of no other.
ListsAreApart ==
  \A g \in Manager : \A i \in 1..Len(manager[g].tasks) :
    /\ call[manager[g].tasks[i]] = "done"
    /\ ref[manager[g].tasks[i]] = g

\* The function of a task has not begun before the task is run, nor while its
\* thread is being created: so it begins once.
BeginsOnce ==
  /\ \A t \in Task : call[t] # "done" => state[t] = "Unknown"
  /\ \A t \in Task : state[t] \in {"Unknown", "Waiting"} => body[t] = "idle"
  /\ \A g \in Manager : manager[g].alive /\ pass[g].at = "create" =>
       /\ Current(g) \in Task
       /\ state[Current(g)] \notin {"Unknown", "Waiting"}
       /\ body[Current(g)] = "idle"

StartInv == ManagerTypes /\ AskTypes /\ ListsAreApart /\ BeginsOnce

\* The function that is pending belongs to a call that waits, and only it can
\* be the one that is running.
PendingWaits ==
  /\ function # None => body[function] = "wait"
  /\ running # None => running = function

\* The call has run its function, or lost it to another call.
Served(t) == ran[t] = 1 \/ (ran[t] = 0 /\ t \in lostCall)

RunsOnce ==
  \A t \in Task :
    /\ body[t] \in {"idle", "begin", "ask", "store"} => ran[t] = 0
    /\ function = t => ran[t] = 0
    /\ body[t] = "wait" /\ function # t => Served(t)
    /\ body[t] = "read" => Served(t)
    /\ answer[t] # None => Served(t) /\ body[t] \in {"report", "over"}

\* A call that overlaps with none is alone in Execute, and the result is its
\* own once its function has been run.
AloneHasItsResult ==
  /\ \A t \in Task : t \in InExecute \ overlapped => InExecute = {t}
  /\ \A t \in Task \ overlapped :
       /\ body[t] = "wait" /\ function # t => result = t
       /\ body[t] = "read" => result = t
       /\ answer[t] # None => answer[t] = t

AskInv ==
  /\ PendingWaits
  /\ RunsOnce
  /\ AloneHasItsResult
  /\ lostCall \subseteq overlapped
  /\ overlapped \subseteq Task

-----------------------------------------------------------------------------
(* Sequences *)

\* RemoveAt closes the gap and leaves the other elements in their order.
LEMMA RemoveAtPlaces ==
  ASSUME NEW S, NEW s \in Seq(S), NEW i \in 1..Len(s)
  PROVE  /\ RemoveAt(s, i) \in Seq(S)
         /\ Len(RemoveAt(s, i)) = Len(s) - 1
         /\ \A j \in 1..(Len(s) - 1) :
              RemoveAt(s, i)[j] = IF j < i THEN s[j] ELSE s[j + 1]
<1> DEFINE front == SubSeq(s, 1, i - 1)
           back == SubSeq(s, i + 1, Len(s))
<1>1. Len(s) \in Nat /\ \A k \in 1..Len(s) : s[k] \in S
  BY LenProperties, ElementOfSeq
<1>2. /\ front \in Seq(S)
      /\ Len(front) = i - 1
      /\ \A k \in 1..(i - 1) : front[k] = s[k]
  <2>1. \A k \in 1..(i - 1) : s[k] \in S
    BY <1>1
  <2>2. 1 \in Int /\ i - 1 \in Int
    BY <1>1
  <2> QED BY <2>1, <2>2, SubSeqProperties, <1>1
<1>3. /\ back \in Seq(S)
      /\ Len(back) = Len(s) - i
      /\ \A k \in 1..(Len(s) - i) : back[k] = s[i + k]
  <2>1. \A k \in (i + 1)..Len(s) : s[k] \in S
    BY <1>1
  <2>2. i + 1 \in Int /\ Len(s) \in Int
    BY <1>1
  <2>3. /\ back \in Seq(S)
        /\ Len(back) = IF i + 1 <= Len(s) THEN Len(s) - (i + 1) + 1 ELSE 0
        /\ \A k \in 1..(Len(s) - (i + 1) + 1) : back[k] = s[(i + 1) + k - 1]
    BY <2>1, <2>2, SubSeqProperties
  <2> QED BY <2>3, <1>1
<1> HIDE DEF front, back
<1>4. /\ front \o back \in Seq(S)
      /\ Len(front \o back) = Len(front) + Len(back)
      /\ \A j \in 1..(Len(front) + Len(back)) : (front \o back)[j] =
           IF j <= Len(front) THEN front[j] ELSE back[j - Len(front)]
  BY <1>2, <1>3, ConcatProperties
<1>5. ASSUME NEW j \in 1..(Len(s) - 1)
      PROVE  (front \o back)[j] = IF j < i THEN s[j] ELSE s[j + 1]
  <2>1. CASE j <= i - 1
    <3>1. (front \o back)[j] = s[j] /\ j \in 1..Len(s)
      BY <2>1, <1>1, <1>2, <1>3, <1>4
    <3> QED BY <3>1, <2>1, <1>1
  <2>2. CASE ~(j <= i - 1)
    <3>1. j - (i - 1) \in 1..(Len(s) - i) /\ j + 1 \in 1..Len(s)
      BY <2>2, <1>1
    <3>2. (front \o back)[j] = back[j - (i - 1)]
      BY <2>2, <1>1, <1>2, <1>3, <1>4
    <3>3. back[j - (i - 1)] = s[i + (j - (i - 1))]
      BY <3>1, <1>3
    <3>4. i + (j - (i - 1)) = j + 1
      BY <1>1
    <3> QED BY <2>2, <3>2, <3>3, <3>4, <1>1
  <2> QED BY <2>1, <2>2
<1>6. RemoveAt(s, i) = front \o back
  BY DEF RemoveAt, front, back
<1>7. Len(front \o back) = Len(s) - 1
  BY <1>1, <1>2, <1>3, <1>4
<1> QED BY <1>4, <1>5, <1>6, <1>7

\* RemoveAt keeps elements of the sequence and adds none.
LEMMA RemoveAtFacts ==
  ASSUME NEW S, NEW s \in Seq(S), NEW i \in 1..Len(s)
  PROVE  /\ RemoveAt(s, i) \in Seq(S)
         /\ \A j \in 1..Len(RemoveAt(s, i)) :
              \E k \in 1..Len(s) : RemoveAt(s, i)[j] = s[k]
<1>1. Len(s) \in Nat
  BY LenProperties
<1>2. /\ RemoveAt(s, i) \in Seq(S)
      /\ Len(RemoveAt(s, i)) = Len(s) - 1
      /\ \A j \in 1..(Len(s) - 1) :
           RemoveAt(s, i)[j] = IF j < i THEN s[j] ELSE s[j + 1]
  BY RemoveAtPlaces
<1>3. ASSUME NEW j \in 1..(Len(s) - 1)
      PROVE  \E k \in 1..Len(s) : RemoveAt(s, i)[j] = s[k]
  <2>1. j \in 1..Len(s) /\ j + 1 \in 1..Len(s)
    BY <1>1
  <2> QED BY <2>1, <1>2
<1> QED BY <1>2, <1>3

\* Append adds its element behind the others.
LEMMA AppendFacts ==
  ASSUME NEW S, NEW s \in Seq(S), NEW e \in S, NEW i \in 1..Len(Append(s, e))
  PROVE  /\ i \in 1..Len(s) => Append(s, e)[i] = s[i] /\ s[i] \in S
         /\ i \notin 1..Len(s) => Append(s, e)[i] = e
<1>1. /\ Len(s) \in Nat
      /\ Len(Append(s, e)) = Len(s) + 1
      /\ \A k \in 1..Len(s) : Append(s, e)[k] = s[k]
      /\ Append(s, e)[Len(s) + 1] = e
  BY AppendProperties, LenProperties
<1>2. i \notin 1..Len(s) => i = Len(s) + 1
  BY <1>1
<1> QED BY <1>1, <1>2, ElementOfSeq

\* The task a pass is at is an element of the list.
LEMMA CurrentFacts ==
  ASSUME ManagerTypes, NEW g \in Manager, Current(g) # None
  PROVE  /\ pass[g].next \in 1..Len(manager[g].tasks)
         /\ Current(g) = manager[g].tasks[pass[g].next]
         /\ Current(g) \in Task
<1>1. manager[g].tasks \in Seq(Task) /\ pass[g].next \in Nat \ {0}
  BY DEF ManagerTypes, ManagerRecord, PassRecord
<1>2. Len(manager[g].tasks) \in Nat
  BY <1>1, LenProperties
<1>3. /\ pass[g].next \in 1..Len(manager[g].tasks)
      /\ Current(g) = manager[g].tasks[pass[g].next]
  BY <1>1, <1>2 DEF Current
<1> QED BY <1>1, <1>3, ElementOfSeq

-----------------------------------------------------------------------------
(* A function begins once *)

\* No function has begun when the program starts.
LEMMA StartInit == Init => StartInv
<1> SUFFICES ASSUME Init PROVE StartInv
  OBVIOUS
<1>1. << >> \in Seq(Task) /\ Len(<< >>) = 0
  BY EmptySeq
<1>2. ManagerTypes
  BY <1>1 DEF Init, ManagerTypes, ManagerRecord, PassRecord, State
<1>3. AskTypes
  BY DEF Init, AskTypes, BodyAt
<1>4. ListsAreApart
  BY <1>1 DEF Init, ListsAreApart
<1>5. BeginsOnce
  BY DEF Init, BeginsOnce
<1> QED BY <1>2, <1>3, <1>4, <1>5 DEF StartInv

\* The steps that change neither the managers, their passes, the calls nor a
\* task's state, but at most where a function is after it has begun.
LEMMA QuietStep ==
  ASSUME StartInv, AskTypes',
         UNCHANGED <<manager, pass, call, ref, state>>,
         \A t \in Task : body[t] = "idle" => body'[t] = "idle"
  PROVE  StartInv'
<1>1. ManagerTypes' /\ ListsAreApart'
  BY DEF StartInv, ManagerTypes, ListsAreApart
<1>2. \A g \in Manager : Current(g)' = Current(g)
  BY DEF Current
<1>3. BeginsOnce'
  BY <1>2 DEF StartInv, BeginsOnce
<1> QED BY <1>1, <1>3 DEF StartInv

\* The steps of a caller and of the destruction that keep every list.
LEMMA SameLists ==
  ASSUME StartInv, ManagerTypes',
         UNCHANGED <<state, body, asks>>,
         \A g \in Manager : manager'[g].tasks = manager[g].tasks,
         \A g \in Manager :
           manager'[g].alive /\ pass'[g].at = "create" =>
             manager[g].alive /\ pass'[g] = pass[g],
         \A t \in Task : call[t] = "done" => call'[t] = "done" /\ ref'[t] = ref[t],
         \A t \in Task : call'[t] = "done" => call[t] = "done"
  PROVE  StartInv'
<1>1. AskTypes'
  BY DEF StartInv, AskTypes, asks
<1>2. ListsAreApart'
  <2> SUFFICES ASSUME NEW g \in Manager, NEW i \in 1..Len(manager[g].tasks)
               PROVE  /\ call'[manager[g].tasks[i]] = "done"
                      /\ ref'[manager[g].tasks[i]] = g
    BY DEF ListsAreApart
  <2>1. manager[g].tasks \in Seq(Task)
    BY DEF StartInv, ManagerTypes, ManagerRecord
  <2>2. manager[g].tasks[i] \in Task
    BY <2>1, ElementOfSeq
  <2> QED BY <2>2 DEF StartInv, ListsAreApart
<1>3. BeginsOnce'
  <2>1. ASSUME NEW g \in Manager, manager'[g].alive, pass'[g].at = "create"
        PROVE  Current(g)' = Current(g) /\ manager[g].alive /\ pass[g].at = "create"
    BY <2>1 DEF Current
  <2>2. \A t \in Task : call'[t] # "done" => state'[t] = "Unknown"
    BY DEF StartInv, BeginsOnce
  <2> QED BY <2>1, <2>2 DEF StartInv, BeginsOnce
<1> QED BY <1>1, <1>2, <1>3 DEF StartInv

\* The steps of a pass that keep the lists and the states.
LEMMA PassStep ==
  ASSUME StartInv, NEW g \in Manager, NEW p \in PassRecord, p.at # "create",
         pass' = [pass EXCEPT ![g] = p],
         UNCHANGED <<manager, call, ref, state, body, asks>>
  PROVE  StartInv'
<1>1. ManagerTypes'
  BY DEF StartInv, ManagerTypes
<1>2. ASSUME NEW h \in Manager, pass'[h].at = "create"
      PROVE  pass'[h] = pass[h]
  BY <1>2 DEF StartInv, ManagerTypes
<1> QED BY <1>1, <1>2, SameLists

\* Submit creates instances and their threads; it gets no task under way.
LEMMA CallerStep ==
  ASSUME StartInv, NEW t \in Task,
         Instance(t) \/ Submit(t)
  PROVE  StartInv'
<1> USE DEF single, tasks, asks, ending
<1>1. CASE Instance(t)
  <2>1. ManagerTypes'
    BY <1>1 DEF Instance, Found, Step, StartInv, ManagerTypes
  <2>2. \A u \in Task : call[u] = "done" => call'[u] = "done" /\ ref'[u] = ref[u]
    BY <1>1 DEF Instance, Found, Step, StartInv, ManagerTypes
  <2>3. \A u \in Task : call'[u] = "done" => call[u] = "done"
    BY <1>1 DEF Instance, Found, Step, StartInv, ManagerTypes
  <2>4. UNCHANGED <<manager, pass, state, body, asks>>
    BY <1>1 DEF Instance, Found
  <2> QED BY <2>1, <2>2, <2>3, <2>4, SameLists
<1>2. CASE Create(t)
  <2>1. UNCHANGED <<state, body, asks>>
    BY <1>2 DEF Create
  <2>2. \A u \in Task : call[u] = "done" => call'[u] = "done" /\ ref'[u] = ref[u]
    BY <1>2 DEF Create, Found, Register, Step, StartInv, ManagerTypes
  <2>3. \A u \in Task : call'[u] = "done" => call[u] = "done"
    BY <1>2 DEF Create, Found, Register, Step, StartInv, ManagerTypes
  <2>4. CASE Found(t, "create") /\ UNCHANGED pass
    <3>1. ManagerTypes' /\ UNCHANGED <<manager, pass>>
      BY <1>2, <2>1, <2>4 DEF Found, Step, StartInv, ManagerTypes
    <3> QED BY <2>1, <2>2, <2>3, <3>1, SameLists
  <2>5. CASE Register(t)
    <3> DEFINE g == NextManager
    <3>1. /\ manager' = [manager EXCEPT ![g].alive = TRUE]
          /\ pass' = [pass EXCEPT ![g].at = "new"]
      BY <2>5 DEF Register
    <3> HIDE DEF g
    <3>2. manager' \in [Manager -> ManagerRecord]
      BY <3>1 DEF StartInv, ManagerTypes, ManagerRecord
    <3>3. pass' \in [Manager -> PassRecord]
      BY <3>1 DEF StartInv, ManagerTypes, PassRecord
    <3>4. call' \in [Task -> {"idle", "create", "init", "start", "execute", "done"}]
      BY <2>5 DEF Register, Step, StartInv, ManagerTypes
    <3>5. ref' = [u \in Task |-> ref'[u]]
      BY <2>5 DEF Register, StartInv, ManagerTypes
    <3>6. ManagerTypes'
      BY <3>2, <3>3, <3>4, <3>5, <2>1 DEF StartInv, ManagerTypes
    <3>7. \A h \in Manager : manager'[h].tasks = manager[h].tasks
      BY <3>1 DEF StartInv, ManagerTypes, ManagerRecord
    <3>8. ASSUME NEW h \in Manager, manager'[h].alive, pass'[h].at = "create"
          PROVE  manager[h].alive /\ pass'[h] = pass[h]
      <4>1. h # g
        BY <3>1, <3>8 DEF StartInv, ManagerTypes, PassRecord
      <4> QED BY <4>1, <3>1, <3>8 DEF StartInv, ManagerTypes
    <3> QED BY <2>1, <2>2, <2>3, <3>6, <3>7, <3>8, SameLists
  <2> QED BY <1>2, <2>4, <2>5 DEF Create
<1>3. CASE InitSingleton(t)
  <2> DEFINE g == ref[t]
  <2>1. /\ manager' = [manager EXCEPT ![g].isRun = TRUE]
        /\ UNCHANGED <<ref, pass, state, body, asks>>
    BY <1>3 DEF InitSingleton
  <2>2. \A u \in Task : call'[u] = "done" <=> call[u] = "done"
    BY <1>3 DEF InitSingleton, Step, StartInv, ManagerTypes
  <2>3. call' \in [Task -> {"idle", "create", "init", "start", "execute", "done"}]
    BY <1>3 DEF InitSingleton, Step, StartInv, ManagerTypes
  <2> HIDE DEF g
  <2>4. /\ manager' \in [Manager -> ManagerRecord]
        /\ \A h \in Manager : /\ manager'[h].tasks = manager[h].tasks
                              /\ manager'[h].alive = manager[h].alive
    BY <2>1 DEF StartInv, ManagerTypes, ManagerRecord
  <2>5. ManagerTypes'
    BY <2>1, <2>3, <2>4 DEF StartInv, ManagerTypes
  <2> QED BY <2>1, <2>2, <2>4, <2>5, SameLists
<1>4. CASE InitThread(t)
  <2> DEFINE g == ref[t]
  <2>1. /\ manager' = [manager EXCEPT ![g].thread = TRUE]
        /\ pass' = [pass EXCEPT ![g].at = "head"]
        /\ UNCHANGED <<ref, state, body, asks>>
    BY <1>4 DEF InitThread
  <2>2. \A u \in Task : call'[u] = "done" <=> call[u] = "done"
    BY <1>4 DEF InitThread, Step, StartInv, ManagerTypes
  <2>3. call' \in [Task -> {"idle", "create", "init", "start", "execute", "done"}]
    BY <1>4 DEF InitThread, Step, StartInv, ManagerTypes
  <2> HIDE DEF g
  <2>4. /\ manager' \in [Manager -> ManagerRecord]
        /\ \A h \in Manager : /\ manager'[h].tasks = manager[h].tasks
                              /\ manager'[h].alive = manager[h].alive
    BY <2>1 DEF StartInv, ManagerTypes, ManagerRecord
  <2>5. /\ pass' \in [Manager -> PassRecord]
        /\ \A h \in Manager : pass'[h].at = "create" => pass'[h] = pass[h]
    BY <2>1 DEF StartInv, ManagerTypes, PassRecord
  <2>6. ManagerTypes'
    BY <2>1, <2>3, <2>4, <2>5 DEF StartInv, ManagerTypes
  <2> QED BY <2>1, <2>2, <2>4, <2>5, <2>6, SameLists
<1>5. CASE InitFreed(t) \/ ExecuteFreed(t)
  <2>1. UNCHANGED <<manager, pass, call, ref, state, body, asks>>
    BY <1>5 DEF InitFreed, ExecuteFreed, Fail
  <2>2. AskTypes'
    BY <2>1 DEF StartInv, AskTypes
  <2> QED BY <2>1, <2>2, QuietStep
<1> QED BY <1>1, <1>2, <1>3, <1>4, <1>5 DEF Submit

\* TaskManager::Execute puts a task, submitted once, at the end of one list.
LEMMA ExecuteStep ==
  ASSUME StartInv, NEW t \in Task, Execute(t)
  PROVE  StartInv'
<1> USE DEF single, tasks, asks, ending
<1> DEFINE g == ref[t]
<1>1. /\ manager' = [manager EXCEPT ![g].tasks = Append(@, t), ![g].id = TRUE]
      /\ state' = [state EXCEPT ![t] = "Waiting"]
      /\ call[t] = "execute"
      /\ call' = [call EXCEPT ![t] = "done"]
      /\ ~Locked(g)
      /\ UNCHANGED <<ref, pass, body, asks>>
  BY DEF Execute, Step
<1> HIDE DEF g
<1>2. ASSUME NEW h \in Manager
      PROVE  /\ manager'[h] \in ManagerRecord
             /\ manager'[h].alive = manager[h].alive
             /\ manager'[h].tasks = IF h = g THEN Append(manager[h].tasks, t)
                                    ELSE manager[h].tasks
  <2>1. manager[h].tasks \in Seq(Task)
    BY DEF StartInv, ManagerTypes, ManagerRecord
  <2>2. Append(manager[h].tasks, t) \in Seq(Task)
    BY <2>1
  <2> QED BY <1>1, <2>2 DEF StartInv, ManagerTypes, ManagerRecord
<1>3. manager' \in [Manager -> ManagerRecord]
  BY <1>1, <1>2 DEF StartInv, ManagerTypes
<1>4. ManagerTypes' /\ AskTypes'
  BY <1>1, <1>3 DEF StartInv, ManagerTypes, AskTypes, State
<1>5. ListsAreApart'
  <2> SUFFICES ASSUME NEW h \in Manager, NEW i \in 1..Len(manager'[h].tasks)
               PROVE  /\ call'[manager'[h].tasks[i]] = "done"
                      /\ ref'[manager'[h].tasks[i]] = h
    BY DEF ListsAreApart
  <2>1. manager[h].tasks \in Seq(Task)
    BY DEF StartInv, ManagerTypes, ManagerRecord
  <2>2. \/ h = g /\ manager'[h].tasks = Append(manager[h].tasks, t)
        \/ h # g /\ manager'[h].tasks = manager[h].tasks
    BY <1>2
  <2>3. CASE i \in 1..Len(manager[h].tasks)
    <3>1. manager'[h].tasks[i] = manager[h].tasks[i] /\ manager[h].tasks[i] \in Task
      <4>1. CASE manager'[h].tasks = Append(manager[h].tasks, t)
        <5>1. i \in 1..Len(Append(manager[h].tasks, t))
          BY <4>1
        <5> QED BY <5>1, <4>1, <2>1, <2>3, AppendFacts
      <4>2. CASE manager'[h].tasks = manager[h].tasks
        BY <4>2, <2>1, <2>3, ElementOfSeq
      <4> QED BY <2>2, <4>1, <4>2
    <3> QED BY <3>1, <2>3, <1>1 DEF StartInv, ListsAreApart, ManagerTypes
  <2>4. CASE i \notin 1..Len(manager[h].tasks)
    <3>1. h = g /\ manager'[h].tasks = Append(manager[h].tasks, t)
      BY <2>2, <2>4
    <3>2. i \in 1..Len(Append(manager[h].tasks, t))
      BY <3>1
    <3>3. manager'[h].tasks[i] = t
      BY <3>1, <3>2, <2>1, <2>4, AppendFacts
    <3> QED BY <3>1, <3>3, <1>1 DEF StartInv, ManagerTypes, g
  <2> QED BY <2>3, <2>4
<1>6. BeginsOnce'
  <2>1. \A u \in Task : call'[u] # "done" => state'[u] = "Unknown"
    BY <1>1 DEF StartInv, BeginsOnce, ManagerTypes
  <2>2. body[t] = "idle" /\ state[t] = "Unknown"
    BY <1>1 DEF StartInv, BeginsOnce
  <2>3. \A u \in Task : state'[u] \in {"Unknown", "Waiting"} => body'[u] = "idle"
    BY <1>1, <2>2 DEF StartInv, BeginsOnce, ManagerTypes
  <2>4. ASSUME NEW h \in Manager, manager'[h].alive, pass'[h].at = "create"
        PROVE  /\ Current(h)' \in Task
               /\ state'[Current(h)'] \notin {"Unknown", "Waiting"}
               /\ body'[Current(h)'] = "idle"
    <3>1. h # g
      BY <1>1, <2>4 DEF Locked
    <3>2. Current(h)' = Current(h) /\ manager[h].alive /\ pass[h].at = "create"
      <4>1. manager'[h].tasks = manager[h].tasks /\ manager'[h].alive = manager[h].alive
        BY <1>2, <3>1
      <4>2. pass' = pass
        BY <1>1
      <4> QED BY <4>1, <4>2, <2>4 DEF Current
    <3> QED BY <3>2, <1>1, <2>2 DEF StartInv, BeginsOnce, ManagerTypes
  <2> QED BY <2>1, <2>3, <2>4 DEF BeginsOnce
<1> QED BY <1>4, <1>5, <1>6 DEF StartInv

\* Run and CreateThread take a task whose function has not begun.
LEMMA LoopStep ==
  ASSUME StartInv, NEW g \in Manager, Loop(g)
  PROVE  StartInv'
<1> USE DEF single, tasks, asks, ending
<1>0. pass[g] \in PassRecord /\ pass[g].next \in Nat \ {0}
  BY DEF StartInv, ManagerTypes, PassRecord
<1>1. CASE LoopHead(g) \/ PassEnds(g) \/ Returned(g) \/ Pass(g)
  <2>1. PICK p \in PassRecord : p.at # "create" /\ pass' = [pass EXCEPT ![g] = p]
    <3>1. /\ [at |-> "scan", next |-> 1] \in PassRecord
          /\ [at |-> "over", next |-> 1] \in PassRecord
          /\ [at |-> "head", next |-> 1] \in PassRecord
          /\ [pass[g] EXCEPT !.at = "scan"] \in PassRecord
          /\ [pass[g] EXCEPT !.at = "scan"].at = "scan"
          /\ [pass[g] EXCEPT !.next = @ + 1] \in PassRecord
          /\ [pass[g] EXCEPT !.next = @ + 1].at = pass[g].at
      BY <1>0 DEF PassRecord
    <3> QED BY <1>1, <3>1 DEF LoopHead, PassEnds, Returned, Pass, Goes
  <2>2. UNCHANGED <<manager, call, ref, state, body, asks>>
    BY <1>1 DEF LoopHead, PassEnds, Returned, Pass
  <2> QED BY <2>1, <2>2, PassStep
<1>2. CASE PassFreed(g)
  <2>1. UNCHANGED <<manager, pass, call, ref, state, body, asks>>
    BY <1>2 DEF PassFreed, Fail
  <2>2. AskTypes'
    BY <2>1 DEF StartInv, AskTypes
  <2> QED BY <2>1, <2>2, QuietStep
<1>3. CASE Run(g)
  <2> DEFINE t == Current(g)
  <2>1. /\ t # None
        /\ state[t] = "Waiting"
        /\ state' = [state EXCEPT ![t] = "Launched"]
        /\ UNCHANGED <<manager, call, ref, asks>>
    BY <1>3 DEF Run
  <2>2. t \in Task /\ pass[g].next \in 1..Len(manager[g].tasks)
        /\ t = manager[g].tasks[pass[g].next]
    BY <2>1, CurrentFacts DEF StartInv
  <2>3. \/ /\ pass' = [pass EXCEPT ![g] = [pass[g] EXCEPT !.at = "create"]]
           /\ body' = body
        \/ /\ pass' = [pass EXCEPT ![g] = [pass[g] EXCEPT !.at = "body"]]
           /\ body' = [body EXCEPT ![t] = "begin"]
    BY <1>3 DEF Run, Goes
  <2>4. call[t] = "done" /\ ref[t] = g
    BY <2>2 DEF StartInv, ListsAreApart
  <2>5. /\ [pass[g] EXCEPT !.at = "create"] \in PassRecord
        /\ [pass[g] EXCEPT !.at = "body"] \in PassRecord
        /\ [pass[g] EXCEPT !.at = "body"].at = "body"
        /\ [pass[g] EXCEPT !.at = "create"].next = pass[g].next
    BY <1>0 DEF PassRecord
  <2>6. body[t] = "idle"
    BY <2>1, <2>2 DEF StartInv, BeginsOnce
  <2>7. Current(g)' = t \/ pass'[g].at = "body"
    BY <2>1, <2>3, <2>5 DEF StartInv, ManagerTypes, Current
  <2>8. ASSUME NEW h \in Manager, h # g
        PROVE  Current(h)' = Current(h) /\ pass'[h] = pass[h]
    BY <2>1, <2>3, <2>8 DEF StartInv, ManagerTypes, Current
  <2> HIDE DEF t
  <2>9. ManagerTypes' /\ AskTypes'
    BY ZenonT(60), <2>1, <2>2, <2>3, <2>5 DEF StartInv, ManagerTypes, AskTypes, State, BodyAt
  <2>10. ListsAreApart'
    BY <2>1 DEF StartInv, ListsAreApart
  <2>11. BeginsOnce'
    <3>1. \A u \in Task : call'[u] # "done" => state'[u] = "Unknown"
      BY <2>1, <2>2, <2>4 DEF StartInv, BeginsOnce, ManagerTypes
    <3>2. \A u \in Task : state'[u] \in {"Unknown", "Waiting"} => body'[u] = "idle"
      BY <2>1, <2>2, <2>3 DEF StartInv, BeginsOnce, ManagerTypes, AskTypes
    <3>3. ASSUME NEW h \in Manager, manager'[h].alive, pass'[h].at = "create"
          PROVE  /\ Current(h)' \in Task
                 /\ state'[Current(h)'] \notin {"Unknown", "Waiting"}
                 /\ body'[Current(h)'] = "idle"
      <4>1. CASE h = g
        <5>1. Current(h)' = t /\ body' = body
          BY <4>1, <3>3, <2>3, <2>5, <2>7 DEF StartInv, ManagerTypes
        <5> QED BY <5>1, <2>1, <2>2, <2>6 DEF StartInv, ManagerTypes
      <4>2. CASE h # g
        <5>1. /\ Current(h)' = Current(h)
              /\ Current(h) \in Task
              /\ state[Current(h)] \notin {"Unknown", "Waiting"}
              /\ body[Current(h)] = "idle"
          BY <4>2, <3>3, <2>1, <2>8 DEF StartInv, BeginsOnce
        <5>2. Current(h) # t
          BY <5>1, <2>1
        <5> QED BY <5>1, <5>2, <2>1, <2>2, <2>3 DEF StartInv, ManagerTypes, AskTypes
      <4> QED BY <4>1, <4>2
    <3> QED BY <3>1, <3>2, <3>3 DEF BeginsOnce
  <2> QED BY <2>9, <2>10, <2>11 DEF StartInv
<1>4. CASE CreateThread(g)
  <2> DEFINE t == Current(g)
             p == [pass[g] EXCEPT !.at = "scan", !.next = @ + 1]
  <2>1. /\ manager[g].alive /\ pass[g].at = "create"
        /\ pass' = [pass EXCEPT ![g] = p]
        /\ body' = [body EXCEPT ![t] = "begin"]
        /\ UNCHANGED <<manager, call, ref, state, asks>>
    BY <1>4 DEF CreateThread, Goes
  <2>2. t \in Task /\ state[t] \notin {"Unknown", "Waiting"} /\ body[t] = "idle"
    BY <2>1 DEF StartInv, BeginsOnce
  <2>3. ref[t] = g
    <3>1. t # None
      BY <2>2, NoneAssumption
    <3>2. pass[g].next \in 1..Len(manager[g].tasks) /\ t = manager[g].tasks[pass[g].next]
      BY <3>1, CurrentFacts DEF StartInv
    <3> QED BY <3>2 DEF StartInv, ListsAreApart
  <2>4. p \in PassRecord /\ p.at = "scan"
    <3> DEFINE q == [pass[g] EXCEPT !.at = "scan"]
    <3>1. q \in PassRecord /\ q.at = "scan"
      BY <1>0 DEF PassRecord
    <3>2. p = [q EXCEPT !.next = @ + 1]
      OBVIOUS
    <3> HIDE DEF p, q
    <3> QED BY <3>1, <3>2 DEF PassRecord
  <2>5. ASSUME NEW h \in Manager, manager'[h].alive, pass'[h].at = "create"
        PROVE  /\ Current(h)' \in Task
               /\ state'[Current(h)'] \notin {"Unknown", "Waiting"}
               /\ body'[Current(h)'] = "idle"
    <3>1. h # g
      BY <2>1, <2>4, <2>5 DEF StartInv, ManagerTypes
    <3>2. Current(h)' = Current(h) /\ pass[h].at = "create" /\ manager[h].alive
      BY <2>1, <2>5, <3>1 DEF StartInv, ManagerTypes, Current
    <3>3. /\ Current(h) \in Task
          /\ state[Current(h)] \notin {"Unknown", "Waiting"}
          /\ body[Current(h)] = "idle"
      BY <3>2 DEF StartInv, BeginsOnce
    <3>4. ref[Current(h)] = h
      <4>1. Current(h) # None
        BY <3>3, NoneAssumption
      <4>2. pass[h].next \in 1..Len(manager[h].tasks)
            /\ Current(h) = manager[h].tasks[pass[h].next]
        BY <4>1, CurrentFacts DEF StartInv
      <4> QED BY <4>2 DEF StartInv, ListsAreApart
    <3>5. Current(h) # t
      BY <3>1, <3>4, <2>3
    <3> HIDE DEF t
    <3> QED BY <3>2, <3>3, <3>5, <2>1, <2>2 DEF StartInv, AskTypes
  <2> HIDE DEF t, p
  <2>6. ManagerTypes' /\ AskTypes'
    BY <2>1, <2>2, <2>4 DEF StartInv, ManagerTypes, AskTypes, BodyAt
  <2>7. ListsAreApart'
    BY <2>1 DEF StartInv, ListsAreApart
  <2>8. BeginsOnce'
    BY <2>1, <2>2, <2>5 DEF StartInv, BeginsOnce, AskTypes
  <2> QED BY <2>6, <2>7, <2>8 DEF StartInv
<1>5. CASE Finish(g)
  <2> DEFINE list == manager[g].tasks
             i == pass[g].next
  <2>1. /\ Current(g) # None
        /\ pass[g].at = "scan"
        /\ pass' = [pass EXCEPT ![g] = pass[g]]
        /\ manager' = [manager EXCEPT ![g].tasks = RemoveAt(@, i), ![g].id = FALSE]
        /\ UNCHANGED <<call, ref, state, body, asks>>
    BY <1>5 DEF Finish, Goes
  <2>2. list \in Seq(Task) /\ i \in 1..Len(list)
    BY <2>1, CurrentFacts DEF StartInv, ManagerTypes, ManagerRecord
  <2>3. /\ RemoveAt(list, i) \in Seq(Task)
        /\ \A j \in 1..Len(RemoveAt(list, i)) :
             \E k \in 1..Len(list) : RemoveAt(list, i)[j] = list[k]
    BY <2>2, RemoveAtFacts
  <2>4. pass' = pass
    BY <2>1 DEF StartInv, ManagerTypes
  <2>5. /\ manager'[g].tasks = RemoveAt(list, i)
        /\ \A h \in Manager : h # g => manager'[h] = manager[h]
    BY <2>1 DEF StartInv, ManagerTypes, ManagerRecord
  <2>6. manager' \in [Manager -> ManagerRecord]
    BY ZenonT(60), <2>1, <2>3 DEF StartInv, ManagerTypes, ManagerRecord
  <2> HIDE DEF list, i
  <2>7. ManagerTypes' /\ AskTypes'
    BY <2>1, <2>4, <2>6 DEF StartInv, ManagerTypes, AskTypes
  <2>8. ListsAreApart'
    <3> SUFFICES ASSUME NEW h \in Manager, NEW j \in 1..Len(manager'[h].tasks)
                 PROVE  /\ call[manager'[h].tasks[j]] = "done"
                        /\ ref[manager'[h].tasks[j]] = h
      BY ZenonT(60), <2>1 DEF ListsAreApart
    <3>1. PICK k \in 1..Len(manager[h].tasks) :
            manager'[h].tasks[j] = manager[h].tasks[k]
      BY <2>3, <2>5 DEF list
    <3> QED BY <3>1 DEF StartInv, ListsAreApart
  <2>9. BeginsOnce'
    <3>1. ASSUME NEW h \in Manager, manager'[h].alive, pass'[h].at = "create"
          PROVE  manager[h].alive /\ pass[h].at = "create" /\ Current(h)' = Current(h)
      <4>1. h # g
        BY <3>1, <2>1, <2>4
      <4>2. manager'[h] = manager[h]
        BY <4>1, <2>5
      <4> QED BY <4>2, <3>1, <2>4 DEF Current
    <3> QED BY <3>1, <2>1 DEF StartInv, BeginsOnce
  <2> QED BY <2>7, <2>8, <2>9 DEF StartInv
<1> QED BY <1>1, <1>2, <1>3, <1>4, <1>5 DEF Loop

\* A function that has begun only goes on; its task has been run before.
LEMMA BodyStep ==
  ASSUME StartInv, NEW t \in Task, Body(t)
  PROVE  StartInv'
<1> USE DEF single, tasks, asks, ending, bodyFrame
<1>1. CASE Begin(t) \/ Ask(t) \/ Store(t) \/ Wait(t) \/ ReadResult(t) \/ BodyFreed(t)
  <2>1. UNCHANGED <<manager, pass, call, ref, state>>
    BY <1>1 DEF Begin, Ask, Store, Wait, ReadResult, BodyFreed, Fail
  <2>2. AskTypes'
    BY <1>1 DEF Begin, Ask, Store, Wait, ReadResult, BodyFreed, Fail, Moves,
                StartInv, AskTypes, BodyAt
  <2>3. \A u \in Task : body[u] = "idle" => body'[u] = "idle"
    BY <1>1 DEF Begin, Ask, Store, Wait, ReadResult, BodyFreed, Fail, Moves,
                StartInv, AskTypes
  <2> QED BY <2>1, <2>2, <2>3, QuietStep
<1>2. CASE Report(t)
  <2>1. /\ UNCHANGED <<manager, pass, call, ref, asks>>
        /\ body[t] = "report"
        /\ body' = [body EXCEPT ![t] = "over"]
        /\ \/ \E s \in {"Completed", "Failed"} : state' = [state EXCEPT ![t] = s]
           \/ state' = state
    BY <1>2 DEF Report, Moves
  <2>2. ManagerTypes' /\ AskTypes'
    BY <2>1 DEF StartInv, ManagerTypes, AskTypes, State, BodyAt
  <2>3. ListsAreApart'
    BY <2>1 DEF StartInv, ListsAreApart
  <2>4. call[t] = "done" /\ state[t] \notin {"Unknown", "Waiting"}
    BY <2>1 DEF StartInv, BeginsOnce
  <2>5. \A u \in Task : u # t => state'[u] = state[u] /\ body'[u] = body[u]
    BY <2>1 DEF StartInv, ManagerTypes, AskTypes
  <2>6. state'[t] \notin {"Unknown", "Waiting"}
    BY <2>1, <2>4 DEF StartInv, ManagerTypes
  <2>7. \A h \in Manager : Current(h)' = Current(h)
    BY <2>1 DEF Current
  <2>8. BeginsOnce'
    <3>1. \A u \in Task : call'[u] # "done" => state'[u] = "Unknown"
      BY <2>1, <2>4, <2>5 DEF StartInv, BeginsOnce
    <3>2. \A u \in Task : state'[u] \in {"Unknown", "Waiting"} => body'[u] = "idle"
      BY <2>5, <2>6 DEF StartInv, BeginsOnce
    <3>3. ASSUME NEW h \in Manager, manager'[h].alive, pass'[h].at = "create"
          PROVE  /\ Current(h)' \in Task
                 /\ state'[Current(h)'] \notin {"Unknown", "Waiting"}
                 /\ body'[Current(h)'] = "idle"
      <4>1. /\ Current(h) \in Task
            /\ state[Current(h)] \notin {"Unknown", "Waiting"}
            /\ body[Current(h)] = "idle"
        BY <3>3, <2>1 DEF StartInv, BeginsOnce
      <4> QED BY <4>1, <2>1, <2>5, <2>7
    <3> QED BY <3>1, <3>2, <3>3 DEF BeginsOnce
  <2> QED BY <2>2, <2>3, <2>8 DEF StartInv
<1> QED BY <1>1, <1>2 DEF Body

\* The main thread starts no function.  Stop leaves the tasks alone that have
\* not been run, and a manager that is gone creates no thread.
LEMMA MainStep ==
  ASSUME StartInv, Synchronize \/ DestroySingleton \/ Destroying
  PROVE  StartInv'
<1> USE DEF single, tasks, asks, ending, destroyFrame
<1>1. CASE Synchronize \/ DestroySingleton \/ RemoveSingleton
  <2>1. UNCHANGED <<manager, pass, call, ref, state, body>>
    BY <1>1 DEF Synchronize, SynchronizeCall, SynchronizeReturn,
                DestroySingleton, RemoveSingleton
  <2>2. AskTypes'
    BY <1>1 DEF Synchronize, SynchronizeCall, SynchronizeReturn,
                DestroySingleton, RemoveSingleton, StartInv, AskTypes
  <2> QED BY <2>1, <2>2, QuietStep
<1>2. CASE OnSingletonDestroy \/ TryJoin
  <2>1. /\ \/ manager' = [manager EXCEPT ![target].isRun = FALSE]
           \/ manager' = [manager EXCEPT ![target].thread = FALSE]
        /\ UNCHANGED <<pass, call, ref, state, body, asks>>
    BY <1>2 DEF OnSingletonDestroy, TryJoin
  <2>2. /\ manager' \in [Manager -> ManagerRecord]
        /\ \A h \in Manager : /\ manager'[h].tasks = manager[h].tasks
                              /\ manager'[h].alive = manager[h].alive
    <3>1. CASE manager' = [manager EXCEPT ![target].isRun = FALSE]
      BY <3>1 DEF StartInv, ManagerTypes, ManagerRecord
    <3>2. CASE manager' = [manager EXCEPT ![target].thread = FALSE]
      BY <3>2 DEF StartInv, ManagerTypes, ManagerRecord
    <3> QED BY <2>1, <3>1, <3>2
  <2>3. ManagerTypes'
    BY <2>1, <2>2 DEF StartInv, ManagerTypes
  <2> QED BY <2>1, <2>2, <2>3, SameLists
<1>3. CASE Delete
  <2>1. PICK left :
          /\ manager' = [manager EXCEPT ![target].alive = FALSE,
                           ![target].tasks = << >>, ![target].id = FALSE]
          /\ state' = Stop(left)
          /\ UNCHANGED <<pass, call, ref, body, asks>>
    BY <1>3 DEF Delete
  <2>2. << >> \in Seq(Task) /\ Len(<< >>) = 0
    BY EmptySeq
  <2>3. ASSUME NEW h \in Manager
        PROVE  /\ manager'[h] \in ManagerRecord
               /\ h # target => manager'[h] = manager[h]
               /\ h = target => manager'[h].tasks = << >> /\ ~manager'[h].alive
    BY ZenonT(60), <2>1, <2>2 DEF StartInv, ManagerTypes, ManagerRecord
  <2>4. manager' \in [Manager -> ManagerRecord]
    BY <2>1, <2>3 DEF StartInv, ManagerTypes
  <2>5. /\ state' \in [Task -> State]
        /\ \A t \in Task : state[t] \in {"Unknown", "Waiting"}
                             => state'[t] = state[t]
        /\ \A t \in Task : state[t] \notin {"Unknown", "Waiting"}
                             => state'[t] \notin {"Unknown", "Waiting"}
    BY <2>1 DEF Stop, StartInv, ManagerTypes, State
  <2>6. ManagerTypes' /\ AskTypes'
    BY <2>1, <2>4, <2>5 DEF StartInv, ManagerTypes, AskTypes
  <2>7. ListsAreApart'
    <3> SUFFICES ASSUME NEW h \in Manager, NEW i \in 1..Len(manager'[h].tasks)
                 PROVE  /\ call[manager'[h].tasks[i]] = "done"
                        /\ ref[manager'[h].tasks[i]] = h
      BY <2>1 DEF ListsAreApart
    <3>1. manager'[h] = manager[h]
      BY <2>2, <2>3
    <3> QED BY <3>1 DEF StartInv, ListsAreApart
  <2>8. BeginsOnce'
    <3>1. ASSUME NEW h \in Manager, manager'[h].alive, pass'[h].at = "create"
          PROVE  /\ manager[h].alive /\ pass[h].at = "create"
                 /\ Current(h)' = Current(h)
      <4>1. manager'[h] = manager[h]
        BY <3>1, <2>3
      <4> QED BY <4>1, <3>1, <2>1 DEF Current
    <3>2. \A u \in Task : call'[u] # "done" => state'[u] = "Unknown"
      BY <2>1, <2>5 DEF StartInv, BeginsOnce
    <3>3. \A u \in Task : state'[u] \in {"Unknown", "Waiting"} => body'[u] = "idle"
      BY <2>1, <2>5 DEF StartInv, BeginsOnce
    <3>4. ASSUME NEW h \in Manager, manager'[h].alive, pass'[h].at = "create"
          PROVE  /\ Current(h)' \in Task
                 /\ state'[Current(h)'] \notin {"Unknown", "Waiting"}
                 /\ body'[Current(h)'] = "idle"
      <4>1. /\ Current(h) \in Task
            /\ state[Current(h)] \notin {"Unknown", "Waiting"}
            /\ body[Current(h)] = "idle"
        BY <3>1, <3>4 DEF StartInv, BeginsOnce
      <4> QED BY <4>1, <3>1, <3>4, <2>1, <2>5
    <3> QED BY <3>2, <3>3, <3>4 DEF BeginsOnce
  <2> QED BY <2>6, <2>7, <2>8 DEF StartInv
<1> QED BY <1>1, <1>2, <1>3 DEF Destroying

\* No step makes a function begin a second time.
LEMMA StartStep == StartInv /\ [Next]_vars => StartInv'
<1> SUFFICES ASSUME StartInv, [Next]_vars PROVE StartInv'
  OBVIOUS
<1>1. CASE UNCHANGED vars
  <2>1. UNCHANGED <<manager, pass, call, ref, state, body, asks>>
    BY <1>1 DEF vars, single, tasks
  <2>2. AskTypes'
    BY <2>1 DEF asks, StartInv, AskTypes
  <2> QED BY <2>1, <2>2, QuietStep
<1>2. CASE Next
  BY <1>2, CallerStep, ExecuteStep, LoopStep, BodyStep, MainStep DEF Next
<1> QED BY <1>1, <1>2

-----------------------------------------------------------------------------
(* What Execute does *)

\* No call is in Thread::Execute when the program starts.
LEMMA AskInit == Init => AskInv
BY NoneAssumption DEF Init, AskInv, PendingWaits, RunsOnce, AloneHasItsResult,
                      InExecute

\* A function that moves outside of Execute disturbs no call.
LEMMA OutsideStep ==
  ASSUME AskTypes, AskInv, NEW t \in Task, NEW to,
         body' = [body EXCEPT ![t] = to],
         \/ body[t] = "idle" /\ to = "begin"
         \/ body[t] = "begin" /\ to \in {"ask", "report"}
         \/ body[t] = "report" /\ to = "over",
         UNCHANGED asks
  PROVE  AskInv'
<1> USE DEF asks
<1>1. \A u \in Task : body'[u] = IF u = t THEN to ELSE body[u]
  BY DEF AskTypes
<1>2. InExecute' = InExecute
  BY <1>1 DEF InExecute
<1>3. function # t
  BY NoneAssumption DEF AskInv, PendingWaits
<1>4. PendingWaits'
  BY <1>1, <1>3 DEF AskTypes, AskInv, PendingWaits
<1>5. RunsOnce'
  BY <1>1, <1>3 DEF AskInv, RunsOnce, Served
<1>6. AloneHasItsResult'
  BY <1>1, <1>2 DEF AskInv, AloneHasItsResult
<1> QED BY <1>4, <1>5, <1>6 DEF AskInv

\* A call that finds another in Execute makes both overlap.
LEMMA AskStep ==
  ASSUME AskTypes, AskInv, NEW t \in Task, Ask(t)
  PROVE  AskInv'
<1>1. /\ function = None
      /\ body[t] = "ask"
      /\ body' = [body EXCEPT ![t] = "store"]
      /\ overlapped' = IF InExecute = {} THEN overlapped
                       ELSE overlapped \cup InExecute \cup {t}
      /\ UNCHANGED <<function, result, running, ran, answer, lostCall>>
  BY DEF Ask, Moves
<1>2. \A u \in Task : body'[u] = IF u = t THEN "store" ELSE body[u]
  BY <1>1 DEF AskTypes
<1>3. InExecute' = InExecute \cup {t}
  BY <1>1, <1>2 DEF InExecute
<1>4. overlapped \subseteq overlapped' /\ overlapped' \subseteq Task
  BY <1>1 DEF AskInv, InExecute
<1>5. PendingWaits'
  BY <1>1 DEF AskInv, PendingWaits
<1>6. RunsOnce'
  BY <1>1, <1>2 DEF AskInv, RunsOnce, Served
<1>7. AloneHasItsResult'
  <2>1. ASSUME NEW u \in Task, u \in InExecute' \ overlapped'
        PROVE  InExecute' = {u}
    <3>1. InExecute = {}
      BY <2>1, <1>1, <1>3
    <3> QED BY <3>1, <2>1, <1>3
  <2>2. ASSUME NEW u \in Task \ overlapped'
        PROVE  /\ body'[u] = "wait" /\ function' # u => result' = u
               /\ body'[u] = "read" => result' = u
               /\ answer'[u] # None => answer'[u] = u
    BY <1>1, <1>2, <1>4 DEF AskInv, AloneHasItsResult
  <2> QED BY <2>1, <2>2 DEF AloneHasItsResult
<1> QED BY <1>1, <1>4, <1>5, <1>6, <1>7 DEF AskInv

\* A function is overwritten only by a call that overlaps with its own.
LEMMA StoreStep ==
  ASSUME AskTypes, AskInv, NEW t \in Task, Store(t)
  PROVE  AskInv'
<1>1. /\ running = None
      /\ body[t] = "store"
      /\ body' = [body EXCEPT ![t] = "wait"]
      /\ function' = t
      /\ lostCall' = lostCall \cup ({function} \ {None})
      /\ UNCHANGED <<result, running, ran, answer, overlapped>>
  BY DEF Store, Moves
<1>2. \A u \in Task : body'[u] = IF u = t THEN "wait" ELSE body[u]
  BY <1>1 DEF AskTypes
<1>3. InExecute' = InExecute /\ t \in InExecute
  BY <1>1, <1>2 DEF InExecute
<1>4. ASSUME function # None
      PROVE  function \in overlapped /\ function # t
  <2>1. function \in Task /\ body[function] = "wait"
    BY <1>4 DEF AskTypes, AskInv, PendingWaits
  <2>2. function \in InExecute /\ function # t
    BY <2>1, <1>1 DEF InExecute
  <2> QED BY <2>1, <2>2, <1>3 DEF AskInv, AloneHasItsResult
<1>5. lostCall' \subseteq overlapped'
  BY <1>1, <1>4 DEF AskInv
<1>6. PendingWaits'
  BY <1>1, <1>2 DEF AskInv, PendingWaits
<1>7. RunsOnce'
  <2> SUFFICES ASSUME NEW u \in Task
               PROVE  /\ body'[u] \in {"idle", "begin", "ask", "store"} => ran'[u] = 0
                      /\ function' = u => ran'[u] = 0
                      /\ body'[u] = "wait" /\ function' # u => Served(u)'
                      /\ body'[u] = "read" => Served(u)'
                      /\ answer'[u] # None => Served(u)' /\ body'[u] \in {"report", "over"}
    BY DEF RunsOnce
  <2>1. Served(u) => Served(u)'
    BY <1>1 DEF Served
  <2>2. CASE u = t
    BY <2>2, <1>1, <1>2 DEF AskInv, RunsOnce
  <2>3. CASE u # t /\ function = u
    <3>1. ran[u] = 0 /\ u \in lostCall' /\ ran' = ran
      BY <2>3, <1>1, NoneAssumption DEF AskInv, RunsOnce
    <3>2. Served(u)'
      BY <3>1 DEF Served
    <3> QED BY <2>3, <3>1, <3>2, <1>1, <1>2 DEF AskInv, RunsOnce
  <2>4. CASE u # t /\ function # u
    BY <2>1, <2>4, <1>1, <1>2 DEF AskInv, RunsOnce
  <2> QED BY <2>2, <2>3, <2>4
<1>8. AloneHasItsResult'
  <2>1. ASSUME NEW u \in Task \ overlapped
        PROVE  /\ body'[u] = "wait" /\ function' # u => result' = u
               /\ body'[u] = "read" => result' = u
               /\ answer'[u] # None => answer'[u] = u
    <3>1. function # u
      BY <1>4, NoneAssumption
    <3> QED BY <3>1, <1>1, <1>2 DEF AskInv, AloneHasItsResult
  <2> QED BY <2>1, <1>1, <1>3 DEF AskInv, AloneHasItsResult
<1> QED BY <1>1, <1>5, <1>6, <1>7, <1>8 DEF AskInv

\* A call goes on when no function is pending: its own has been run or lost.
LEMMA WaitStep ==
  ASSUME AskTypes, AskInv, NEW t \in Task, Wait(t)
  PROVE  AskInv'
<1> USE DEF asks
<1>1. /\ function = None
      /\ body[t] = "wait"
      /\ body' = [body EXCEPT ![t] = "read"]
      /\ UNCHANGED asks
  BY DEF Wait, Moves
<1>2. \A u \in Task : body'[u] = IF u = t THEN "read" ELSE body[u]
  BY <1>1 DEF AskTypes
<1>3. InExecute' = InExecute
  BY <1>1, <1>2 DEF InExecute
<1>4. function # t
  BY <1>1, NoneAssumption
<1>5. PendingWaits'
  BY <1>1 DEF AskInv, PendingWaits
<1>6. RunsOnce'
  BY <1>1, <1>2, <1>4 DEF AskInv, RunsOnce, Served
<1>7. AloneHasItsResult'
  BY <1>1, <1>2, <1>3, <1>4 DEF AskInv, AloneHasItsResult
<1> QED BY <1>1, <1>5, <1>6, <1>7 DEF AskInv

\* A call that overlaps with none reads the result of its own function.
LEMMA ReadStep ==
  ASSUME AskTypes, AskInv, NEW t \in Task, ReadResult(t)
  PROVE  AskInv'
<1>1. /\ body[t] = "read"
      /\ body' = [body EXCEPT ![t] = "report"]
      /\ answer' = [answer EXCEPT ![t] = result]
      /\ UNCHANGED <<function, result, running, ran, overlapped, lostCall>>
  BY DEF ReadResult, Moves
<1>2. /\ \A u \in Task : body'[u] = IF u = t THEN "report" ELSE body[u]
      /\ \A u \in Task : answer'[u] = IF u = t THEN result ELSE answer[u]
  BY <1>1 DEF AskTypes
<1>3. InExecute' = InExecute \ {t} /\ t \in InExecute
  BY <1>1, <1>2 DEF InExecute
<1>4. PendingWaits'
  <2>1. function # None => function \in Task /\ function # t
    BY <1>1 DEF AskTypes, AskInv, PendingWaits
  <2> QED BY <2>1, <1>1, <1>2 DEF AskInv, PendingWaits
<1>5. RunsOnce'
  BY <1>1, <1>2 DEF AskInv, RunsOnce, Served
<1>6. AloneHasItsResult'
  <2>1. ASSUME NEW u \in Task, u \in InExecute' \ overlapped'
        PROVE  FALSE
    BY <2>1, <1>1, <1>3 DEF AskInv, AloneHasItsResult
  <2>2. ASSUME NEW u \in Task \ overlapped
        PROVE  /\ body'[u] = "wait" /\ function' # u => result' = u
               /\ body'[u] = "read" => result' = u
               /\ answer'[u] # None => answer'[u] = u
    BY <1>1, <1>2 DEF AskInv, AloneHasItsResult
  <2> QED BY <2>1, <2>2, <1>1 DEF AloneHasItsResult
<1> QED BY <1>1, <1>4, <1>5, <1>6 DEF AskInv

\* Synchronize runs the pending function once and leaves its result.
LEMMA SynchronizeStep ==
  ASSUME AskTypes, AskInv, Synchronize
  PROVE  AskInv'
<1> USE DEF tasks
<1>1. CASE SynchronizeCall
  <2>1. /\ running' = function
        /\ UNCHANGED <<body, function, result, ran, answer, overlapped, lostCall>>
    BY <1>1 DEF SynchronizeCall
  <2>2. InExecute' = InExecute
    BY <2>1 DEF InExecute
  <2> QED BY <2>1, <2>2 DEF AskInv, PendingWaits, RunsOnce, Served, AloneHasItsResult
<1>2. CASE SynchronizeReturn
  <2> DEFINE r == running
  <2>1. /\ r # None
        /\ result' = r
        /\ ran' = [ran EXCEPT ![r] = @ + 1]
        /\ function' = None
        /\ running' = None
        /\ UNCHANGED <<body, answer, overlapped, lostCall>>
    BY <1>2 DEF SynchronizeReturn
  <2>2. r = function /\ r \in Task /\ body[r] = "wait" /\ ran[r] = 0
    BY <2>1 DEF AskTypes, AskInv, PendingWaits, RunsOnce
  <2>3. InExecute' = InExecute /\ r \in InExecute
    BY <2>1, <2>2 DEF InExecute
  <2> HIDE DEF r
  <2>4. \A u \in Task : ran'[u] = IF u = r THEN 1 ELSE ran[u]
    BY <2>1, <2>2 DEF AskTypes
  <2>5. PendingWaits'
    BY <2>1 DEF PendingWaits
  <2>6. RunsOnce'
    <3> SUFFICES ASSUME NEW u \in Task
                 PROVE  /\ body[u] \in {"idle", "begin", "ask", "store"} => ran'[u] = 0
                        /\ function' = u => ran'[u] = 0
                        /\ body[u] = "wait" /\ function' # u => Served(u)'
                        /\ body[u] = "read" => Served(u)'
                        /\ answer[u] # None => Served(u)' /\ body[u] \in {"report", "over"}
      BY <2>1 DEF RunsOnce
    <3>1. CASE u = r
      BY <3>1, <2>1, <2>2, <2>4, NoneAssumption DEF AskInv, RunsOnce, Served
    <3>2. CASE u # r
      BY <3>2, <2>1, <2>2, <2>4, NoneAssumption DEF AskInv, RunsOnce, Served
    <3> QED BY <3>1, <3>2
  <2>7. AloneHasItsResult'
    <3>1. ASSUME NEW u \in Task \ overlapped, body[u] \in {"wait", "read"}
          PROVE  u = r
      <4>1. u \in InExecute \ overlapped
        BY <3>1 DEF InExecute
      <4> QED BY <4>1, <2>3 DEF AskInv, AloneHasItsResult
    <3>2. ASSUME NEW u \in Task \ overlapped
          PROVE  /\ body'[u] = "wait" /\ function' # u => result' = u
                 /\ body'[u] = "read" => result' = u
                 /\ answer'[u] # None => answer'[u] = u
      BY <3>1, <2>1 DEF AskInv, AloneHasItsResult
    <3> QED BY <3>2, <2>1, <2>3 DEF AskInv, AloneHasItsResult
  <2> QED BY <2>1, <2>5, <2>6, <2>7 DEF AskInv
<1> QED BY <1>1, <1>2 DEF Synchronize

\* Every step keeps what a call of Execute relies on.
LEMMA AskNext == StartInv /\ AskInv /\ [Next]_vars => AskInv'
<1> SUFFICES ASSUME StartInv, AskInv, [Next]_vars PROVE AskInv'
  OBVIOUS
<1> USE DEF single, tasks, asks, ending, bodyFrame, destroyFrame
<1>0. AskTypes
  BY DEF StartInv
<1>1. ASSUME UNCHANGED <<body, asks>>
      PROVE  AskInv'
  <2>1. InExecute' = InExecute
    BY <1>1 DEF InExecute
  <2> QED BY <1>1, <2>1 DEF AskInv, PendingWaits, RunsOnce, Served, AloneHasItsResult
<1>2. CASE UNCHANGED vars
  BY <1>1, <1>2 DEF vars
<1>3. ASSUME NEW t \in Task, Instance(t) \/ Submit(t) \/ Execute(t)
      PROVE  AskInv'
  <2>1. UNCHANGED <<body, asks>>
    BY <1>3 DEF Instance, Submit, Create, InitSingleton, InitThread, InitFreed,
                ExecuteFreed, Execute, Fail
  <2> QED BY <2>1, <1>1
<1>4. ASSUME NEW t \in Task, Body(t)
      PROVE  AskInv'
  <2>1. CASE Begin(t)
    <3>1. PICK to \in {"ask", "report"} :
            body[t] = "begin" /\ body' = [body EXCEPT ![t] = to] /\ UNCHANGED asks
      BY <2>1 DEF Begin, Moves
    <3> QED BY <3>1, <1>0, OutsideStep
  <2>2. CASE Report(t)
    <3>1. body[t] = "report" /\ body' = [body EXCEPT ![t] = "over"] /\ UNCHANGED asks
      BY <2>2 DEF Report, Moves
    <3> QED BY <3>1, <1>0, OutsideStep
  <2>3. CASE BodyFreed(t)
    BY <2>3, <1>1 DEF BodyFreed, Fail
  <2> QED BY <2>1, <2>2, <2>3, <1>0, <1>4, AskStep, StoreStep, WaitStep, ReadStep
          DEF Body
<1>5. ASSUME NEW g \in Manager, Loop(g)
      PROVE  AskInv'
  <2>1. CASE Run(g)
    <3>1. Current(g) # None /\ state[Current(g)] = "Waiting"
      BY <2>1 DEF Run
    <3>2. Current(g) \in Task /\ body[Current(g)] = "idle"
      BY <3>1, CurrentFacts DEF StartInv, BeginsOnce
    <3>3. /\ body' = body \/ body' = [body EXCEPT ![Current(g)] = "begin"]
          /\ UNCHANGED asks
      BY <2>1 DEF Run
    <3> QED BY <3>2, <3>3, <1>0, <1>1, OutsideStep
  <2>2. CASE CreateThread(g)
    <3>1. Current(g) \in Task /\ body[Current(g)] = "idle"
      BY <2>2 DEF CreateThread, Goes, StartInv, BeginsOnce
    <3>2. body' = [body EXCEPT ![Current(g)] = "begin"] /\ UNCHANGED asks
      BY <2>2 DEF CreateThread
    <3> QED BY <3>1, <3>2, <1>0, OutsideStep
  <2>3. CASE LoopHead(g) \/ PassEnds(g) \/ Returned(g) \/ Finish(g) \/ Pass(g)
             \/ PassFreed(g)
    <3>1. UNCHANGED <<body, asks>>
      BY <2>3 DEF LoopHead, PassEnds, Returned, Finish, Pass, PassFreed, Fail
    <3> QED BY <3>1, <1>1
  <2> QED BY <2>1, <2>2, <2>3, <1>5 DEF Loop
<1>6. CASE DestroySingleton \/ Destroying
  <2>1. UNCHANGED <<body, asks>>
    BY <1>6 DEF DestroySingleton, Destroying, OnSingletonDestroy, TryJoin,
                RemoveSingleton, Delete
  <2> QED BY <2>1, <1>1
<1> QED BY <1>0, <1>2, <1>3, <1>4, <1>5, <1>6, SynchronizeStep DEF Next

\* Thread::Execute, for any number of tasks and managers: a call that overlaps
\* with no other runs its function once on the main thread and returns that
\* function's result; one that overlaps runs it once, or not at all if it was
\* overwritten; and m_function never outlives the call it belongs to.
THEOREM ExecuteIsSound == Spec => []ExecuteRuns
<1>1. Init => StartInv /\ AskInv
  BY StartInit, AskInit
<1>2. StartInv /\ AskInv /\ [Next]_vars => StartInv' /\ AskInv'
  BY StartStep, AskNext
<1>3. StartInv /\ AskInv => ExecuteRuns
  BY DEF StartInv, AskTypes, AskInv, PendingWaits, RunsOnce, AloneHasItsResult,
         Served, ExecuteRuns
<1> QED BY <1>1, <1>2, <1>3, PTL DEF Spec

-----------------------------------------------------------------------------
(* The instances over time: the inductive invariant *)

LifeTypes ==
  /\ registered \in {0} \cup Manager
  /\ ref \in [Task -> {0} \cup Manager]
  /\ freed \subseteq Task
  /\ robbed \subseteq Task
  /\ main \in {"frame", "stop", "join", "remove", "delete"}
  /\ target \in {0} \cup Manager
  /\ all \in BOOLEAN
  /\ hasty \in BOOLEAN
  /\ destroys \in 0..MaxDestroys
  /\ fault \in {None, "init", "execute", "pass", "task", "stop"}

\* The instance that is being destroyed can still be found.
Removing == main \in {"stop", "join", "remove"} \/ (main = "delete" /\ all)

\* The instances are created one after the other, the last one is registered,
\* and an instance lives while it is registered or being destroyed.
RegistryInv ==
  /\ target = destroys
  /\ main # "frame" => destroys # 0
  /\ main = "remove" => ~all
  /\ Removing => registered = destroys
  /\ ~Removing => registered \in {0, destroys + 1}
  /\ \A g \in Manager :
       pass[g].at # "unborn" <=> g <= destroys \/ g = registered
  /\ \A g \in Manager :
       manager[g].alive <=> g = registered \/ (main # "frame" /\ g = target)
  /\ \A g \in Manager : pass[g].at = "unborn" => ~manager[g].thread

Creator(t) == call[t] \in {"init", "start"}
HasRef(t) == call[t] \in {"init", "start", "execute", "done"}

\* One call at a time creates an instance, which has no thread until then; it
\* is the registered one unless the destruction was hasty.
CreatorInv ==
  /\ \A t, u \in Task : Creator(t) /\ Creator(u) => t = u
  /\ \A t \in Task : Creator(t) =>
       /\ ~manager[ref[t]].thread
       /\ pass[ref[t]].at = "new"
       /\ hasty \/ ref[t] = destroys + 1
  /\ \A t \in Task : HasRef(t) =>
       ref[t] \in Manager /\ pass[ref[t]].at # "unborn"

\* The thread of an instance has ended when the instance was joined.
JoinInv ==
  ~hasty =>
    /\ main \in {"stop", "join"} => manager[target].thread
    /\ \A g \in Manager :
         g < destroys \/ (g = destroys /\ main \notin {"stop", "join"})
           => pass[g].at = "over"

\* A task is on a list once and not freed; the common identifier stands for
\* some task, and for all that were not robbed of it.
ListOK(g) ==
  /\ \A i, j \in 1..Len(manager[g].tasks) :
       manager[g].tasks[i] = manager[g].tasks[j] => i = j
  /\ \A i \in 1..Len(manager[g].tasks) :
       /\ manager[g].tasks[i] \notin freed
       /\ manager[g].id \/ manager[g].tasks[i] \in robbed
  /\ manager[g].id => manager[g].tasks # << >>

ListInv ==
  /\ \A t \in freed : call[t] = "done"
  /\ \A g \in Manager : ListOK(g)

Active(t) == body[t] \notin {"idle", "over"}

\* The manager's thread is in the function of t.
RunsIn(t, g) ==
  /\ state[t] = "Launched"
  /\ g \in Manager
  /\ manager[g].alive
  /\ pass[g].at = "body"
  /\ Current(g) = t

\* A task without a thread runs in the pass of the instance that got it.
InlineInv ==
  /\ \A g \in Manager : manager[g].alive =>
       /\ pass[g].at = "create" => Current(g) \in OwnThread
       /\ pass[g].at = "body" => Current(g) \in Inline
  /\ \A t \in Inline : state[t] = "Launched" => body[t] # "idle"
  /\ fault # "stop" \/ ~hasty =>
       \A t \in Inline : Active(t) => RunsIn(t, ref[t])

LifeInv ==
  /\ LifeTypes /\ RegistryInv /\ CreatorInv /\ JoinInv
  /\ ListInv /\ InlineInv /\ FaultsAreExplained

-----------------------------------------------------------------------------
(* What a step leaves alone *)

\* The lists of the instances are sequences of tasks.
LEMMA ListFacts ==
  ASSUME StartInv, NEW g \in Manager
  PROVE  /\ manager[g].tasks \in Seq(Task)
         /\ Len(manager[g].tasks) \in Nat
         /\ \A i \in 1..Len(manager[g].tasks) : manager[g].tasks[i] \in Task
         /\ manager[g].alive \in BOOLEAN /\ manager[g].thread \in BOOLEAN
         /\ manager[g].isRun \in BOOLEAN /\ manager[g].id \in BOOLEAN
<1>1. manager[g] \in ManagerRecord
  BY DEF StartInv, ManagerTypes
<1>2. manager[g].tasks \in Seq(Task)
  BY <1>1 DEF ManagerRecord
<1> QED BY <1>1, <1>2, ElementOfSeq, LenProperties DEF ManagerRecord

\* Steps that move no thread in or out of a function and change no list.
LEMMA InlineSame ==
  ASSUME StartInv, LifeInv, fault = None,
         UNCHANGED <<state, body>>,
         \A g \in Manager : manager'[g].tasks = manager[g].tasks,
         \A g \in Manager :
           manager[g].alive /\ pass[g].at = "body" =>
             manager'[g].alive /\ pass'[g] = pass[g],
         \A g \in Manager :
           manager'[g].alive /\ pass'[g].at \in {"create", "body"} =>
             manager[g].alive /\ pass'[g] = pass[g],
         \A t \in Task : call[t] = "done" => ref'[t] = ref[t]
  PROVE  InlineInv'
<1>1. \A g \in Manager : pass'[g] = pass[g] => Current(g)' = Current(g)
  BY DEF Current
<1>2. \A g \in Manager : manager'[g].alive =>
        /\ pass'[g].at = "create" => Current(g)' \in OwnThread
        /\ pass'[g].at = "body" => Current(g)' \in Inline
  BY <1>1 DEF LifeInv, InlineInv
<1>3. ASSUME NEW t \in Inline, Active(t)
      PROVE  RunsIn(t, ref[t])' /\ ref'[t] = ref[t]
  <2>1. RunsIn(t, ref[t])
    BY <1>3 DEF LifeInv, InlineInv, None
  <2>2. ref'[t] = ref[t]
    BY <2>1 DEF RunsIn, StartInv, BeginsOnce, Inline
  <2>3. PICK g \in Manager : g = ref[t]
    BY <2>1 DEF RunsIn
  <2>4. RunsIn(t, g)'
    BY <2>1, <2>3, <1>1 DEF RunsIn
  <2> QED BY <2>2, <2>3, <2>4 DEF RunsIn
<1>4. \A t \in Inline : Active(t)' => RunsIn(t, ref[t])'
  BY <1>3 DEF Active
<1> QED BY <1>2, <1>4 DEF LifeInv, InlineInv

\* Steps that change neither lists nor what was freed or robbed.
LEMMA ListSame ==
  ASSUME LifeInv,
         UNCHANGED <<freed, robbed>>,
         \A g \in Manager : /\ manager'[g].tasks = manager[g].tasks
                            /\ manager'[g].id = manager[g].id,
         \A t \in Task : call[t] = "done" => call'[t] = "done"
  PROVE  ListInv'
BY DEF LifeInv, ListInv, ListOK, LifeTypes

\* Steps of the threads of managers and tasks: nothing is created, registered
\* or destroyed.
LEMMA RegistrySame ==
  ASSUME LifeInv,
         UNCHANGED <<registered, call, ref, main, target, all, destroys, hasty>>,
         \A g \in Manager : /\ manager'[g].alive = manager[g].alive
                            /\ manager'[g].thread = manager[g].thread,
         \A g \in Manager : /\ pass'[g].at = "unborn" <=> pass[g].at = "unborn"
                            /\ pass[g].at = "new" => pass'[g].at = "new"
                            /\ pass[g].at = "over" => pass'[g].at = "over"
  PROVE  RegistryInv' /\ CreatorInv' /\ JoinInv'
<1>1. RegistryInv'
  BY DEF LifeInv, RegistryInv, Removing
<1>2. CreatorInv'
  <2>1. \A t \in Task : (Creator(t)' <=> Creator(t)) /\ (HasRef(t)' <=> HasRef(t))
    BY DEF Creator, HasRef
  <2>2. \A t \in Task : HasRef(t) => ref[t] \in Manager
    BY DEF LifeInv, CreatorInv
  <2>3. \A t \in Task : Creator(t) => HasRef(t)
    BY DEF Creator, HasRef
  <2> QED BY <2>1, <2>2, <2>3 DEF LifeInv, CreatorInv
<1>3. JoinInv'
  <2> SUFFICES ASSUME ~hasty PROVE JoinInv'
    BY DEF JoinInv
  <2>1. main \in {"stop", "join"} => target \in Manager
    BY DEF LifeInv, LifeTypes, RegistryInv
  <2> QED BY <2>1 DEF LifeInv, JoinInv
<1> QED BY <1>1, <1>2, <1>3

\* The properties hold together at the start.
LEMMA LifeInit == Init => LifeInv
<1> SUFFICES ASSUME Init PROVE LifeInv
  OBVIOUS
<1> USE DestroysAssumption DEF Init
<1>1. LifeTypes
  <2>1. ref \in [Task -> {0} \cup Manager] /\ freed \subseteq Task /\ robbed \subseteq Task
    OBVIOUS
  <2>2. destroys \in 0..MaxDestroys
    OBVIOUS
  <2>3. /\ registered \in {0} \cup Manager /\ target \in {0} \cup Manager
        /\ main \in {"frame", "stop", "join", "remove", "delete"}
        /\ fault \in {None, "init", "execute", "pass", "task", "stop"}
    OBVIOUS
  <2>4. all \in BOOLEAN /\ hasty \in BOOLEAN
    OBVIOUS
  <2> QED BY <2>1, <2>2, <2>3, <2>4 DEF LifeTypes
<1>2. RegistryInv
  BY DEF RegistryInv, Removing, Manager
<1>3. CreatorInv
  BY DEF CreatorInv, Creator, HasRef
<1>4. JoinInv
  BY DEF JoinInv, Manager
<1>5. ListInv
  <2>1. \A g \in Manager : Len(manager[g].tasks) = 0
    BY EmptySeq
  <2> QED BY <2>1 DEF ListInv, ListOK
<1>6. InlineInv
  BY DEF InlineInv, Active, Inline
<1>7. FaultsAreExplained
  BY DEF FaultsAreExplained, None
<1> QED BY <1>1, <1>2, <1>3, <1>4, <1>5, <1>6, <1>7 DEF LifeInv

-----------------------------------------------------------------------------
(* The functions of tasks *)

\* The function of a task changes no list, and one without a thread reports
\* its state when it returns.
LEMMA BodyLife ==
  ASSUME StartInv, LifeInv, fault = None, NEW t \in Task, Body(t)
  PROVE  LifeInv'
<1> USE DEF single, tasks, asks, ending, bodyFrame
<1>1. CASE BodyFreed(t)
  <2>1. /\ UNCHANGED <<single, manager, pass, tasks, ending>> /\ fault' = "task"
        /\ body[t] \in {"begin", "report"} /\ t \in freed
    BY <1>1 DEF BodyFreed, Fail
  <2>2. t \in OwnThread
    <3> SUFFICES ASSUME t \in Inline PROVE FALSE
      BY DEF Inline
    <3>1. RunsIn(t, ref[t])
      BY <2>1 DEF LifeInv, InlineInv, Active, None
    <3>2. PICK g \in Manager : g = ref[t] /\ Current(g) = t
      BY <3>1 DEF RunsIn
    <3>3. /\ pass[g].next \in 1..Len(manager[g].tasks)
          /\ t = manager[g].tasks[pass[g].next]
      BY <3>2, CurrentFacts, NoneAssumption DEF StartInv
    <3> QED BY <3>3, <2>1 DEF LifeInv, ListInv, ListOK
  <2>3. InlineInv' /\ ListInv'
    BY <2>1, InlineSame, ListSame
  <2>4. RegistryInv' /\ CreatorInv' /\ JoinInv'
    BY <2>1, RegistrySame
  <2>5. FaultsAreExplained'
    BY <2>1, <2>2 DEF FaultsAreExplained
  <2>6. LifeTypes'
    BY <2>1 DEF LifeInv, LifeTypes
  <2> QED BY <2>3, <2>4, <2>5, <2>6 DEF LifeInv
<1>2. CASE ~BodyFreed(t)
  <2>1. /\ UNCHANGED <<single, manager, pass, freed, robbed, ending, fault>>
        /\ body[t] \notin {"idle", "over"}
        /\ \E to \in BodyAt \ {"idle"} : body' = [body EXCEPT ![t] = to]
    BY <1>2 DEF Body, Begin, Ask, Store, Wait, ReadResult, Report, Moves, BodyAt
  <2>2. \/ state' = state
        \/ /\ body' = [body EXCEPT ![t] = "over"]
           /\ \E s \in {"Completed", "Failed"} : state' = [state EXCEPT ![t] = s]
    BY <1>2 DEF Body, Begin, Ask, Store, Wait, ReadResult, Report, Moves
  <2>3. /\ body \in [Task -> BodyAt] /\ state \in [Task -> State]
    BY DEF StartInv, AskTypes, ManagerTypes
  <2>4. /\ \A u \in Task : u # t => body'[u] = body[u] /\ state'[u] = state[u]
        /\ body'[t] # "idle"
        /\ Active(t)' => state'[t] = state[t]
    BY <2>1, <2>2, <2>3 DEF Active
  <2>5. ListInv'
    BY <2>1, ListSame
  <2>6. RegistryInv' /\ CreatorInv' /\ JoinInv'
    BY <2>1, RegistrySame
  <2>7. InlineInv'
    <3>1. \A g \in Manager : Current(g)' = Current(g)
      BY <2>1 DEF Current
    <3>2. \A u \in Inline : state'[u] = "Launched" => body'[u] # "idle"
      BY <2>4 DEF LifeInv, InlineInv, Inline
    <3>3. ASSUME NEW u \in Inline, Active(u)'
          PROVE  RunsIn(u, ref[u])'
      <4>1. Active(u) /\ state'[u] = state[u]
        BY <3>3, <2>1, <2>4 DEF Active, Inline
      <4>2. RunsIn(u, ref[u])
        BY <4>1 DEF LifeInv, InlineInv, None
      <4> QED BY <4>1, <4>2, <3>1, <2>1 DEF RunsIn
    <3> QED BY <3>1, <3>2, <3>3, <2>1 DEF LifeInv, InlineInv
  <2>8. FaultsAreExplained'
    BY <2>1 DEF FaultsAreExplained, None
  <2>9. LifeTypes'
    BY <2>1 DEF LifeInv, LifeTypes
  <2> QED BY <2>5, <2>6, <2>7, <2>8, <2>9 DEF LifeInv
<1> QED BY <1>1, <1>2

-----------------------------------------------------------------------------
(* Callers *)

\* A call that finds an instance has one that is registered.
LEMMA FoundLife ==
  ASSUME StartInv, LifeInv, fault = None, NEW t \in Task, NEW from,
         from \in {"idle", "create"}, Found(t, from),
         UNCHANGED <<pass, tasks, ending, fault>>
  PROVE  LifeInv'
<1> USE DEF tasks, ending
<1>1. /\ registered # 0 /\ call[t] = from
      /\ call' = [call EXCEPT ![t] = "execute"]
      /\ ref' = [ref EXCEPT ![t] = registered]
      /\ UNCHANGED <<registered, manager>>
  BY DEF Found, Step
<1>2. /\ \A u \in Task : call'[u] = IF u = t THEN "execute" ELSE call[u]
      /\ \A u \in Task : ref'[u] = IF u = t THEN registered ELSE ref[u]
      /\ ref' \in [Task -> {0} \cup Manager]
  BY <1>1 DEF StartInv, ManagerTypes, LifeInv, LifeTypes
<1>3. registered \in Manager /\ pass[registered].at # "unborn"
  BY <1>1 DEF LifeInv, LifeTypes, RegistryInv
<1>4. LifeTypes'
  BY <1>1, <1>2 DEF LifeInv, LifeTypes
<1>5. RegistryInv'
  BY <1>1 DEF LifeInv, RegistryInv, Removing
<1>6. CreatorInv'
  <2>1. \A u \in Task : Creator(u)' => Creator(u) /\ ref'[u] = ref[u]
    BY <1>2 DEF Creator
  <2>2. \A u \in Task : HasRef(u)' => \/ HasRef(u) /\ ref'[u] = ref[u]
                                      \/ ref'[u] = registered
    BY <1>2 DEF HasRef
  <2> QED BY <2>1, <2>2, <1>1, <1>3 DEF LifeInv, CreatorInv
<1>7. JoinInv'
  BY <1>1 DEF LifeInv, JoinInv
<1>8. ListInv'
  BY <1>1, <1>2, ListSame
<1>9. InlineInv'
  BY <1>1, <1>2, InlineSame
<1>10. FaultsAreExplained'
  BY DEF FaultsAreExplained, None
<1> QED BY <1>4, <1>5, <1>6, <1>7, <1>8, <1>9, <1>10 DEF LifeInv

\* A call that finds none goes to the creation mutex.
LEMMA InstanceLife ==
  ASSUME StartInv, LifeInv, fault = None, NEW t \in Task, Instance(t)
  PROVE  LifeInv'
<1> USE DEF tasks, ending
<1>1. CASE Found(t, "idle")
  BY <1>1, FoundLife DEF Instance
<1>2. CASE ~Found(t, "idle")
  <2>1. /\ call[t] = "idle" /\ call' = [call EXCEPT ![t] = "create"]
        /\ UNCHANGED <<registered, ref, manager, pass, tasks, ending, fault>>
    BY <1>2 DEF Instance, Step
  <2>2. \A u \in Task : call'[u] = IF u = t THEN "create" ELSE call[u]
    BY <2>1 DEF StartInv, ManagerTypes
  <2>3. LifeTypes' /\ RegistryInv' /\ JoinInv'
    BY <2>1 DEF LifeInv, LifeTypes, RegistryInv, Removing, JoinInv
  <2>4. CreatorInv'
    BY <2>1, <2>2 DEF LifeInv, CreatorInv, Creator, HasRef
  <2>5. ListInv'
    BY <2>1, <2>2, ListSame
  <2>6. InlineInv'
    BY <2>1, InlineSame
  <2>7. FaultsAreExplained'
    BY <2>1 DEF FaultsAreExplained, None
  <2> QED BY <2>3, <2>4, <2>5, <2>6, <2>7 DEF LifeInv
<1> QED BY <1>1, <1>2

\* The instances that there have been, counted.
LEMMA NextManagerFacts ==
  ASSUME LifeInv, registered = 0
  PROVE  /\ NextManager = destroys + 1
         /\ destroys + 1 \in Manager
<1>1. destroys \in Nat /\ destroys <= MaxDestroys
  BY DestroysAssumption DEF LifeInv, LifeTypes
<1>2. {g \in Manager : pass[g].at # "unborn"} = 1..destroys
  BY <1>1, DestroysAssumption DEF LifeInv, RegistryInv, Manager
<1>3. Cardinality(1..destroys) = destroys
  BY <1>1, FS_Interval
<1>4. NextManager = destroys + 1
  BY <1>2, <1>3 DEF NextManager
<1>5. destroys + 1 \in Manager
  BY <1>1, DestroysAssumption DEF Manager
<1> QED BY <1>4, <1>5

\* Register creates the next instance; nobody else is creating one, and the
\* one before is not registered any more.
LEMMA RegisterLife ==
  ASSUME StartInv, LifeInv, fault = None, NEW t \in Task,
         ManagersOpen, ~Creating, registered = 0, Register(t),
         UNCHANGED <<tasks, ending, fault>>
  PROVE  LifeInv'
<1> USE DEF tasks, ending
<1>1. PICK g : g = NextManager
  OBVIOUS
<1>2. /\ call[t] = "create" /\ call' = [call EXCEPT ![t] = "init"]
      /\ registered' = g
      /\ ref' = [ref EXCEPT ![t] = g]
      /\ manager' = [manager EXCEPT ![g].alive = TRUE]
      /\ pass' = [pass EXCEPT ![g].at = "new"]
  BY <1>1 DEF Register, Step
<1>3. g = destroys + 1 /\ g \in Manager
  BY <1>1, NextManagerFacts
<1>4. destroys \in Nat
  BY DestroysAssumption DEF LifeInv, LifeTypes
<1>5. /\ \A u \in Task : call'[u] = IF u = t THEN "init" ELSE call[u]
      /\ \A u \in Task : ref'[u] = IF u = t THEN g ELSE ref[u]
      /\ ref' \in [Task -> {0} \cup Manager]
  BY <1>2, <1>3 DEF StartInv, ManagerTypes, LifeInv, LifeTypes
<1>6. manager \in [Manager -> ManagerRecord] /\ pass \in [Manager -> PassRecord]
  BY DEF StartInv, ManagerTypes
<1>7. \A h \in Manager :
        /\ manager'[h].tasks = manager[h].tasks
        /\ manager'[h].id = manager[h].id
        /\ manager'[h].thread = manager[h].thread
        /\ h # g => manager'[h].alive = manager[h].alive
        /\ h = g => manager'[h].alive
  BY <1>2, <1>6 DEF ManagerRecord
<1>8. \A h \in Manager :
        /\ h # g => pass'[h] = pass[h]
        /\ h = g => pass'[h].at = "new"
  BY <1>2, <1>6 DEF PassRecord
<1>9. ~Removing /\ (main = "frame" \/ ~all)
  BY DEF LifeInv, RegistryInv, Removing, ManagersOpen
<1>10. /\ pass[g].at = "unborn" /\ ~manager[g].alive /\ ~manager[g].thread
  BY <1>3, <1>4 DEF LifeInv, RegistryInv
<1>11. LifeTypes'
  BY <1>2, <1>3, <1>5 DEF LifeInv, LifeTypes
<1>12. RegistryInv'
  <2>0. \A h \in Manager : h # 0
    BY DEF Manager
  <2>1. \A h \in Manager :
          pass'[h].at # "unborn" <=> h <= destroys \/ h = registered'
    <3>1. \A h \in Manager : pass[h].at # "unborn" <=> h <= destroys
      BY <2>0 DEF LifeInv, RegistryInv
    <3> QED BY <3>1, <1>2, <1>8
  <2>2. \A h \in Manager :
          manager'[h].alive <=> h = registered' \/ (main # "frame" /\ h = target)
    BY <2>0, <1>2, <1>7 DEF LifeInv, RegistryInv
  <2>3. \A h \in Manager : pass'[h].at = "unborn" => ~manager'[h].thread
    BY <1>7, <1>8 DEF LifeInv, RegistryInv
  <2>4. ~Removing'
    BY <1>9 DEF Removing
  <2> QED BY <2>1, <2>2, <2>3, <2>4, <1>2, <1>3 DEF LifeInv, RegistryInv
<1>13. CreatorInv'
  <2>1. \A u \in Task : ~Creator(u)
    BY DEF Creating, Creator
  <2>2. \A u \in Task : Creator(u)' => u = t
    BY <2>1, <1>5 DEF Creator
  <2>3. ref'[t] = g /\ ~manager'[g].thread /\ pass'[g].at = "new" /\ g = destroys' + 1
    BY <1>3, <1>5, <1>7, <1>8, <1>10
  <2>4. \A u \in Task : u # t =>
          (HasRef(u)' => ref'[u] \in Manager /\ pass'[ref'[u]].at # "unborn")
    BY <1>5, <1>8 DEF HasRef, LifeInv, CreatorInv
  <2>5. \A u \in Task : HasRef(u)' =>
          ref'[u] \in Manager /\ pass'[ref'[u]].at # "unborn"
    BY <2>3, <2>4, <1>3
  <2> QED BY <2>2, <2>3, <2>5 DEF CreatorInv
<1>14. JoinInv'
  <2>1. main \in {"stop", "join"} => target \in Manager
    BY DEF LifeInv, LifeTypes, RegistryInv
  <2>2. \A h \in Manager : h <= destroys => pass'[h] = pass[h]
    BY <1>3, <1>4, <1>8 DEF Manager
  <2>3. \A h \in Manager :
          h < destroys \/ (h = destroys /\ main \notin {"stop", "join"}) => h <= destroys
    BY <1>4 DEF Manager
  <2> QED BY <2>1, <2>2, <2>3, <1>7 DEF LifeInv, JoinInv
<1>15. ListInv'
  BY <1>2, <1>5, <1>7, ListSame
<1>16. InlineInv'
  <2>1. \A h \in Manager : manager[h].alive => h # g
    BY <1>10
  <2>2. \A h \in Manager : manager'[h].alive /\ pass'[h].at \in {"create", "body"} => h # g
    BY <1>8
  <2> QED BY <2>1, <2>2, <1>2, <1>5, <1>7, <1>8, InlineSame
<1>17. FaultsAreExplained'
  BY DEF FaultsAreExplained, None
<1> QED BY <1>11, <1>12, <1>13, <1>14, <1>15, <1>16, <1>17 DEF LifeInv

\* Create, InitSingleton and what goes wrong when the instance is gone.
LEMMA SubmitLife ==
  ASSUME StartInv, LifeInv, fault = None, NEW t \in Task, Submit(t)
  PROVE  LifeInv'
<1> USE DEF single, tasks, ending
<1>1. CASE Create(t)
  BY <1>1, FoundLife, RegisterLife DEF Create
<1>2. CASE InitSingleton(t)
  <2>1. PICK g : g = ref[t]
    OBVIOUS
  <2>2. /\ call[t] = "init" /\ call' = [call EXCEPT ![t] = "start"]
        /\ manager' = [manager EXCEPT ![g].isRun = TRUE]
        /\ UNCHANGED <<registered, ref, pass, tasks, ending, fault>>
    BY <1>2, <2>1 DEF InitSingleton, Step
  <2>3. \A u \in Task : call'[u] = IF u = t THEN "start" ELSE call[u]
    BY <2>2 DEF StartInv, ManagerTypes
  <2>4. \A h \in Manager :
          /\ manager'[h].tasks = manager[h].tasks
          /\ manager'[h].id = manager[h].id
          /\ manager'[h].thread = manager[h].thread
          /\ manager'[h].alive = manager[h].alive
    BY <2>2 DEF StartInv, ManagerTypes, ManagerRecord
  <2>5. LifeTypes'
    BY <2>2 DEF LifeInv, LifeTypes
  <2>6. RegistryInv'
    BY <2>2, <2>4 DEF LifeInv, RegistryInv, Removing
  <2>7. CreatorInv'
    <3>1. \A u \in Task : (Creator(u)' <=> Creator(u)) /\ (HasRef(u)' <=> HasRef(u))
      BY <2>2, <2>3 DEF Creator, HasRef
    <3>2. \A u \in Task : Creator(u) => HasRef(u)
      BY DEF Creator, HasRef
    <3> QED BY <3>1, <3>2, <2>2, <2>4 DEF LifeInv, CreatorInv
  <2>8. JoinInv'
    <3>1. main \in {"stop", "join"} => target \in Manager
      BY DEF LifeInv, LifeTypes, RegistryInv
    <3> QED BY <3>1, <2>2, <2>4 DEF LifeInv, JoinInv
  <2>9. ListInv'
    BY <2>2, <2>3, <2>4, ListSame
  <2>10. InlineInv'
    BY <2>2, <2>4, InlineSame
  <2>11. FaultsAreExplained'
    BY <2>2 DEF FaultsAreExplained, None
  <2> QED BY <2>5, <2>6, <2>7, <2>8, <2>9, <2>10, <2>11 DEF LifeInv
<1>3. CASE InitThread(t)
  <2>1. PICK g : g = ref[t]
    OBVIOUS
  <2>2. /\ call[t] = "start" /\ call' = [call EXCEPT ![t] = "execute"]
        /\ manager' = [manager EXCEPT ![g].thread = TRUE]
        /\ pass' = [pass EXCEPT ![g].at = "head"]
        /\ UNCHANGED <<registered, ref, tasks, ending, fault>>
    BY <1>3, <2>1 DEF InitThread, Step
  <2>3. \A u \in Task : call'[u] = IF u = t THEN "execute" ELSE call[u]
    BY <2>2 DEF StartInv, ManagerTypes
  <2>4. \A h \in Manager :
          /\ manager'[h].tasks = manager[h].tasks
          /\ manager'[h].id = manager[h].id
          /\ h # g => manager'[h].thread = manager[h].thread
          /\ h = g => manager'[h].thread
          /\ manager'[h].alive = manager[h].alive
    BY <2>2 DEF StartInv, ManagerTypes, ManagerRecord
  <2>5. \A h \in Manager : /\ h # g => pass'[h] = pass[h]
                           /\ h = g => pass'[h].at = "head"
    BY <2>2 DEF StartInv, ManagerTypes, PassRecord
  <2>6. Creator(t) /\ HasRef(t)
    BY <2>2 DEF Creator, HasRef
  <2>7. g \in Manager /\ pass[g].at = "new" /\ (hasty \/ g = destroys + 1)
    BY <2>1, <2>6 DEF LifeInv, CreatorInv
  <2>8. LifeTypes'
    BY <2>2 DEF LifeInv, LifeTypes
  <2>9. RegistryInv'
    <3>1. \A h \in Manager : pass'[h].at = "unborn" <=> pass[h].at = "unborn"
      BY <2>5, <2>7
    <3>2. \A h \in Manager : pass'[h].at = "unborn" => ~manager'[h].thread
      BY <2>4, <2>5 DEF LifeInv, RegistryInv
    <3> QED BY <3>1, <3>2, <2>2, <2>4 DEF LifeInv, RegistryInv, Removing
  <2>10. CreatorInv'
    <3>1. \A u \in Task : ~Creator(u)'
      BY <2>3, <2>6 DEF LifeInv, CreatorInv, Creator
    <3>2. \A u \in Task : HasRef(u)' => HasRef(u) /\ ref'[u] = ref[u]
      BY <2>2, <2>3 DEF HasRef
    <3> QED BY <3>1, <3>2, <2>5 DEF LifeInv, CreatorInv
  <2>11. JoinInv'
    <3> SUFFICES ASSUME ~hasty PROVE JoinInv'
      BY <2>2 DEF JoinInv
    <3>1. main \in {"stop", "join"} => target \in Manager
      BY DEF LifeInv, LifeTypes, RegistryInv
    <3>2. main \in {"stop", "join"} => manager'[target].thread
      BY <3>1, <2>4 DEF LifeInv, JoinInv
    <3>3. \A h \in Manager :
            h < destroys \/ (h = destroys /\ main \notin {"stop", "join"})
              => h # g
      BY <2>7, DestroysAssumption DEF LifeInv, LifeTypes, Manager
    <3>4. \A h \in Manager :
            h < destroys \/ (h = destroys /\ main \notin {"stop", "join"})
              => pass'[h].at = "over"
      BY <3>3, <2>5 DEF LifeInv, JoinInv
    <3> QED BY <3>2, <3>4, <2>2 DEF JoinInv
  <2>12. ListInv'
    BY <2>2, <2>3, <2>4, ListSame
  <2>13. InlineInv'
    BY <2>2, <2>4, <2>5, <2>7, InlineSame
  <2>14. FaultsAreExplained'
    BY <2>2 DEF FaultsAreExplained, None
  <2> QED BY <2>8, <2>9, <2>10, <2>11, <2>12, <2>13, <2>14 DEF LifeInv
<1>4. CASE InitFreed(t) \/ ExecuteFreed(t)
  <2>1. UNCHANGED <<single, manager, pass, tasks, ending>>
    BY <1>4 DEF InitFreed, ExecuteFreed, Fail
  <2>2. \/ fault' = "init" /\ Creator(t) /\ ~manager[ref[t]].alive
        \/ fault' = "execute"
    BY <1>4 DEF InitFreed, ExecuteFreed, Fail, Creator
  <2>3. fault' = "init" => hasty
    <3> SUFFICES ASSUME fault' = "init", ~hasty PROVE FALSE
      OBVIOUS
    <3>1. ref[t] = destroys + 1 /\ pass[ref[t]].at = "new" /\ ~manager[ref[t]].alive
      BY <2>2 DEF LifeInv, CreatorInv
    <3>2. ref[t] \in Manager
      BY <2>2 DEF LifeInv, CreatorInv, Creator, HasRef
    <3>3. ~(ref[t] <= destroys)
      BY <3>1, DestroysAssumption DEF LifeInv, LifeTypes
    <3> QED BY <3>1, <3>2, <3>3 DEF LifeInv, RegistryInv
  <2>4. RegistryInv' /\ CreatorInv' /\ JoinInv'
    BY <2>1, RegistrySame
  <2>5. ListInv' /\ InlineInv'
    BY <2>1, ListSame, InlineSame
  <2>6. LifeTypes'
    BY <2>1, <2>2 DEF LifeInv, LifeTypes
  <2>7. FaultsAreExplained'
    BY <2>1, <2>2, <2>3 DEF FaultsAreExplained
  <2> QED BY <2>4, <2>5, <2>6, <2>7 DEF LifeInv
<1> QED BY <1>1, <1>2, <1>3, <1>4 DEF Submit

\* Execute appends a task that was on no list, and sets the identifier.
LEMMA ExecuteLife ==
  ASSUME StartInv, LifeInv, fault = None, NEW t \in Task, Execute(t)
  PROVE  LifeInv'
<1> USE DEF single, tasks, ending
<1>1. PICK g : g = ref[t]
  OBVIOUS
<1>2. /\ call[t] = "execute" /\ call' = [call EXCEPT ![t] = "done"]
      /\ manager[g].alive /\ ~Locked(g)
      /\ state' = [state EXCEPT ![t] = "Waiting"]
      /\ manager' = [manager EXCEPT ![g].tasks = Append(@, t), ![g].id = TRUE]
      /\ UNCHANGED <<registered, ref, pass, freed, body, robbed, ending, fault>>
  BY <1>1 DEF Execute, Step
<1>3. g \in Manager
  BY <1>1, <1>2 DEF LifeInv, CreatorInv, HasRef
<1>4. \A u \in Task : call'[u] = IF u = t THEN "done" ELSE call[u]
  BY <1>2 DEF StartInv, ManagerTypes
<1>5. \A u \in Task : state'[u] = IF u = t THEN "Waiting" ELSE state[u]
  BY <1>2 DEF StartInv, ManagerTypes
<1>6. \A h \in Manager :
        /\ manager'[h].thread = manager[h].thread
        /\ manager'[h].alive = manager[h].alive
        /\ h # g => /\ manager'[h].tasks = manager[h].tasks
                    /\ manager'[h].id = manager[h].id
        /\ h = g => /\ manager'[h].tasks = Append(manager[g].tasks, t)
                    /\ manager'[h].id
  BY <1>2 DEF StartInv, ManagerTypes, ManagerRecord
<1>7. LifeTypes'
  BY <1>2 DEF LifeInv, LifeTypes
<1>8. RegistryInv'
  BY <1>2, <1>6 DEF LifeInv, RegistryInv, Removing
<1>9. CreatorInv'
  <2>1. \A u \in Task : (Creator(u)' <=> Creator(u)) /\ (HasRef(u)' <=> HasRef(u))
    BY <1>2, <1>4 DEF Creator, HasRef
  <2>2. \A u \in Task : Creator(u) => HasRef(u)
    BY DEF Creator, HasRef
  <2> QED BY ZenonT(60), <2>1, <2>2, <1>2, <1>6 DEF LifeInv, CreatorInv
<1>10. JoinInv'
  <2>1. main \in {"stop", "join"} => target \in Manager
    BY DEF LifeInv, LifeTypes, RegistryInv
  <2> QED BY <2>1, <1>2, <1>6 DEF LifeInv, JoinInv
<1>11. ListInv'
  <2> DEFINE s == manager[g].tasks
  <2>1. /\ s \in Seq(Task) /\ Len(s) \in Nat
        /\ \A i \in 1..Len(s) : s[i] \in Task
    BY <1>3, ListFacts
  <2>2. \A i \in 1..Len(s) : s[i] # t
    BY <1>2, <1>3 DEF StartInv, ListsAreApart
  <2>3. t \notin freed
    BY <1>2 DEF LifeInv, ListInv
  <2>4. \A i, j \in 1..Len(s) : s[i] = s[j] => i = j
    BY <1>3 DEF LifeInv, ListInv, ListOK
  <2>5. \A i \in 1..Len(s) : s[i] \notin freed
    BY <1>3 DEF LifeInv, ListInv, ListOK
  <2>6. /\ Len(Append(s, t)) = Len(s) + 1
        /\ \A i \in 1..Len(s) : Append(s, t)[i] = s[i]
        /\ Append(s, t)[Len(s) + 1] = t
    BY <2>1, AppendProperties
  <2> HIDE DEF s
  <2>7. \A i, j \in 1..Len(Append(s, t)) : Append(s, t)[i] = Append(s, t)[j] => i = j
    <3> SUFFICES ASSUME NEW i \in 1..(Len(s) + 1), NEW j \in 1..(Len(s) + 1),
                        Append(s, t)[i] = Append(s, t)[j]
                 PROVE  i = j
      BY <2>6
    <3>1. (i \in 1..Len(s) \/ i = Len(s) + 1) /\ (j \in 1..Len(s) \/ j = Len(s) + 1)
      BY <2>1
    <3> QED BY <3>1, <2>2, <2>4, <2>6
  <2>8. \A i \in 1..Len(Append(s, t)) : Append(s, t)[i] \notin freed
    <3> SUFFICES ASSUME NEW i \in 1..(Len(s) + 1) PROVE Append(s, t)[i] \notin freed
      BY <2>6
    <3>1. i \in 1..Len(s) \/ i = Len(s) + 1
      BY <2>1
    <3> QED BY <3>1, <2>3, <2>5, <2>6
  <2>9. Append(s, t) # << >>
    BY <2>1, AppendProperties
  <2>10. manager'[g].tasks = Append(s, t) /\ manager'[g].id
    BY <1>3, <1>6 DEF s
  <2>11. \A u \in freed' : call'[u] = "done"
    BY <1>2, <1>4 DEF LifeInv, ListInv, LifeTypes
  <2>12. ASSUME NEW h \in Manager
         PROVE  ListOK(h)'
    <3>1. CASE h = g
      BY <3>1, <2>7, <2>8, <2>9, <2>10, <1>2 DEF ListOK
    <3>2. CASE h # g
      <4>1. manager'[h].tasks = manager[h].tasks /\ manager'[h].id = manager[h].id
        BY <3>2, <1>6
      <4>2. ListOK(h)
        BY DEF LifeInv, ListInv
      <4> QED BY <4>1, <4>2, <1>2 DEF ListOK
    <3> QED BY <3>1, <3>2
  <2> QED BY <2>11, <2>12 DEF ListInv
<1>12. InlineInv'
  <2>1. pass[g].at \notin {"create", "body"}
    BY <1>2 DEF Locked
  <2>2. \A h \in Manager : h # g => Current(h)' = Current(h)
    <3>1. pass' = pass
      BY <1>2
    <3> QED BY <3>1, <1>6 DEF Current
  <2>3. \A h \in Manager : manager'[h].alive =>
          /\ pass'[h].at = "create" => Current(h)' \in OwnThread
          /\ pass'[h].at = "body" => Current(h)' \in Inline
    BY <2>1, <2>2, <1>2, <1>6 DEF LifeInv, InlineInv
  <2>4. \A u \in Inline : state'[u] = "Launched" => body'[u] # "idle"
    BY <1>2, <1>5 DEF LifeInv, InlineInv, Inline
  <2>5. ASSUME NEW u \in Inline, Active(u)'
        PROVE  RunsIn(u, ref[u])'
    <3>1. RunsIn(u, ref[u])
      BY <2>5, <1>2 DEF LifeInv, InlineInv, Active, None
    <3>2. PICK h \in Manager : h = ref[u]
      BY <3>1 DEF RunsIn
    <3>3. u # t
      BY <3>1, <1>2 DEF RunsIn, StartInv, BeginsOnce
    <3>4. h # g
      BY <3>1, <3>2, <2>1 DEF RunsIn
    <3>5. RunsIn(u, h)'
      <4>1. state'[u] = state[u] /\ pass' = pass
        BY <3>3, <1>2, <1>5 DEF Inline
      <4>2. manager'[h].alive = manager[h].alive /\ Current(h)' = Current(h)
        BY <3>4, <1>6, <2>2
      <4> QED BY <3>1, <3>2, <4>1, <4>2 DEF RunsIn
    <3> QED BY <3>2, <3>5, <1>2
  <2> QED BY <2>3, <2>4, <2>5 DEF InlineInv
<1>13. FaultsAreExplained'
  BY <1>2 DEF FaultsAreExplained, None
<1> QED BY <1>7, <1>8, <1>9, <1>10, <1>11, <1>12, <1>13 DEF LifeInv

-----------------------------------------------------------------------------
(* The thread of an instance *)

\* What holds after a step of the thread that does not end a task.
LEMMA PassLife ==
  ASSUME StartInv, LifeInv, fault = None, NEW g \in Manager, NEW p \in PassRecord,
         pass' = [pass EXCEPT ![g] = p],
         pass[g].at \notin {"unborn", "new", "over"}, p.at \notin {"unborn", "new"},
         UNCHANGED <<single, manager, freed, robbed, ending, fault>>
  PROVE  /\ LifeTypes' /\ RegistryInv' /\ CreatorInv' /\ JoinInv' /\ ListInv'
         /\ FaultsAreExplained'
         /\ \A h \in Manager : h # g => pass'[h] = pass[h] /\ Current(h)' = Current(h)
         /\ pass'[g] = p
<1> USE DEF single, ending
<1>1. \A h \in Manager : pass'[h] = IF h = g THEN p ELSE pass[h]
  BY DEF StartInv, ManagerTypes
<1>2. \A h \in Manager : /\ pass'[h].at = "unborn" <=> pass[h].at = "unborn"
                         /\ pass[h].at = "new" => pass'[h].at = "new"
                         /\ pass[h].at = "over" => pass'[h].at = "over"
  BY <1>1
<1>3. RegistryInv' /\ CreatorInv' /\ JoinInv'
  BY <1>2, RegistrySame
<1>4. LifeTypes'
  BY DEF LifeInv, LifeTypes
<1>5. ListInv'
  BY ListSame
<1>6. FaultsAreExplained'
  BY DEF FaultsAreExplained, None
<1>7. \A h \in Manager : h # g => pass'[h] = pass[h] /\ Current(h)' = Current(h)
  BY <1>1 DEF Current
<1> QED BY <1>1, <1>3, <1>4, <1>5, <1>6, <1>7

\* The thread goes on without running anything.
LEMMA WalkLife ==
  ASSUME StartInv, LifeInv, fault = None, NEW g \in Manager, NEW p \in PassRecord,
         pass' = [pass EXCEPT ![g] = p],
         pass[g].at \in {"head", "scan"}, p.at \in {"head", "scan", "over"},
         UNCHANGED <<single, manager, tasks, ending, fault>>
  PROVE  LifeInv'
<1> USE DEF single, tasks, ending
<1>1. /\ LifeTypes' /\ RegistryInv' /\ CreatorInv' /\ JoinInv' /\ ListInv'
      /\ FaultsAreExplained'
      /\ \A h \in Manager : h # g => pass'[h] = pass[h]
      /\ pass'[g] = p
  BY PassLife
<1>2. InlineInv'
  BY <1>1, InlineSame
<1> QED BY <1>1, <1>2 DEF LifeInv

\* A task is launched: on the manager's thread, or before its own exists.
LEMMA RunLife ==
  ASSUME StartInv, LifeInv, fault = None, NEW g \in Manager, Run(g)
  PROVE  LifeInv'
<1> USE DEF tasks
<1>1. PICK t : t = Current(g)
  OBVIOUS
<1>2. PICK at \in {"create", "body"} :
        /\ at = "create" => t \in OwnThread /\ body' = body
        /\ at = "body" => t \in Inline /\ body' = [body EXCEPT ![t] = "begin"]
        /\ pass' = [pass EXCEPT ![g] = [pass[g] EXCEPT !.at = at]]
  BY <1>1 DEF Run, Goes
<1>3. /\ t # None /\ state[t] = "Waiting"
      /\ manager[g].alive /\ pass[g].at = "scan"
      /\ state' = [state EXCEPT ![t] = "Launched"]
      /\ UNCHANGED <<single, manager, freed, robbed, ending, fault>>
  BY <1>1 DEF Run, Goes
<1>4. t \in Task /\ body[t] = "idle"
  BY <1>1, <1>3, CurrentFacts DEF StartInv, BeginsOnce
<1>5. PICK p : p = [pass[g] EXCEPT !.at = at]
  OBVIOUS
<1>6. p \in PassRecord /\ p.at = at /\ p.next = pass[g].next
  BY <1>5 DEF StartInv, ManagerTypes, PassRecord
<1>7. /\ LifeTypes' /\ RegistryInv' /\ CreatorInv' /\ JoinInv' /\ ListInv'
      /\ FaultsAreExplained'
      /\ \A h \in Manager : h # g => pass'[h] = pass[h] /\ Current(h)' = Current(h)
      /\ pass'[g] = p
  BY <1>2, <1>3, <1>5, <1>6, PassLife
<1>8. Current(g)' = t
  BY <1>1, <1>3, <1>6, <1>7 DEF Current
<1>9. /\ \A u \in Task : state'[u] = IF u = t THEN "Launched" ELSE state[u]
      /\ \A u \in Task : u # t => body'[u] = body[u]
      /\ at = "body" => body'[t] = "begin"
      /\ at = "create" => body'[t] = "idle"
  BY <1>2, <1>3, <1>4 DEF StartInv, ManagerTypes, AskTypes
<1>10. InlineInv'
  <2>1. ASSUME NEW h \in Manager, manager'[h].alive
        PROVE  /\ pass'[h].at = "create" => Current(h)' \in OwnThread
               /\ pass'[h].at = "body" => Current(h)' \in Inline
    <3>1. CASE h = g
      BY <3>1, <1>2, <1>6, <1>7, <1>8
    <3>2. CASE h # g
      BY <3>2, <2>1, <1>3, <1>7 DEF LifeInv, InlineInv
    <3> QED BY <3>1, <3>2
  <2>2. ASSUME NEW u \in Inline, state'[u] = "Launched"
        PROVE  body'[u] # "idle"
    <3>1. CASE u = t
      BY <3>1, <1>2, <1>9 DEF Inline
    <3>2. CASE u # t
      BY <3>2, <2>2, <1>9 DEF LifeInv, InlineInv, Inline
    <3> QED BY <3>1, <3>2
  <2>3. ASSUME NEW u \in Inline, Active(u)'
        PROVE  RunsIn(u, ref[u])'
    <3>1. CASE u = t
      <4>1. at = "body"
        BY <3>1, <2>3, <1>2, <1>9 DEF Active
      <4>2. ref[t] = g
        BY <1>1, <1>3, CurrentFacts DEF StartInv, ListsAreApart
      <4>3. RunsIn(t, g)'
        BY <4>1, <1>3, <1>4, <1>6, <1>7, <1>8, <1>9 DEF RunsIn
      <4> QED BY <3>1, <4>2, <4>3, <1>3 DEF single
    <3>2. CASE u # t
      <4>1. Active(u) /\ state'[u] = state[u]
        BY <3>2, <2>3, <1>9 DEF Active, Inline
      <4>2. RunsIn(u, ref[u])
        BY <4>1 DEF LifeInv, InlineInv, None
      <4>3. PICK h \in Manager : h = ref[u]
        BY <4>2 DEF RunsIn
      <4>4. h # g
        BY <4>2, <4>3, <1>3 DEF RunsIn
      <4>5. RunsIn(u, h)'
        BY <4>1, <4>2, <4>3, <4>4, <1>3, <1>7 DEF RunsIn
      <4> QED BY <4>3, <4>5, <1>3 DEF single
    <3> QED BY <3>1, <3>2
  <2> QED BY <2>1, <2>2, <2>3 DEF InlineInv
<1> QED BY <1>7, <1>10 DEF LifeInv

\* The thread of a task is created: it is none of the manager's own.
LEMMA CreateThreadLife ==
  ASSUME StartInv, LifeInv, fault = None, NEW g \in Manager, CreateThread(g)
  PROVE  LifeInv'
<1> USE DEF tasks
<1>1. PICK t : t = Current(g)
  OBVIOUS
<1>2. /\ manager[g].alive /\ pass[g].at = "create"
      /\ pass' = [pass EXCEPT ![g] = [pass[g] EXCEPT !.at = "scan", !.next = @ + 1]]
      /\ body' = [body EXCEPT ![t] = "begin"]
      /\ UNCHANGED <<single, manager, state, freed, robbed, ending, fault>>
  BY <1>1 DEF CreateThread, Goes
<1>3. t \in OwnThread /\ t \in Task
  BY <1>1, <1>2, TaskAssumption DEF LifeInv, InlineInv
<1>4. PICK p : p = [pass[g] EXCEPT !.at = "scan", !.next = @ + 1]
  OBVIOUS
<1>5. p \in PassRecord /\ p.at = "scan"
  <2>1. pass[g] \in PassRecord
    BY DEF StartInv, ManagerTypes
  <2>2. pass[g].next + 1 \in Nat \ {0}
    BY <2>1 DEF PassRecord
  <2> QED BY <2>1, <2>2, <1>4 DEF PassRecord
<1>6. /\ LifeTypes' /\ RegistryInv' /\ CreatorInv' /\ JoinInv' /\ ListInv'
      /\ FaultsAreExplained'
      /\ \A h \in Manager : h # g => pass'[h] = pass[h] /\ Current(h)' = Current(h)
      /\ pass'[g] = p
  BY <1>2, <1>4, <1>5, PassLife
<1>7. \A u \in Inline : body'[u] = body[u]
  BY <1>2, <1>3 DEF StartInv, AskTypes, Inline
<1>8. InlineInv'
  <2>1. ASSUME NEW h \in Manager, manager'[h].alive
        PROVE  /\ pass'[h].at = "create" => Current(h)' \in OwnThread
               /\ pass'[h].at = "body" => Current(h)' \in Inline
    <3>1. CASE h = g
      BY <3>1, <1>5, <1>6
    <3>2. CASE h # g
      BY <3>2, <2>1, <1>2, <1>6 DEF LifeInv, InlineInv
    <3> QED BY <3>1, <3>2
  <2>2. \A u \in Inline : state'[u] = "Launched" => body'[u] # "idle"
    BY <1>2, <1>7 DEF LifeInv, InlineInv
  <2>3. ASSUME NEW u \in Inline, Active(u)'
        PROVE  RunsIn(u, ref[u])'
    <3>1. RunsIn(u, ref[u])
      BY <2>3, <1>7 DEF LifeInv, InlineInv, None, Active
    <3>2. PICK h \in Manager : h = ref[u]
      BY <3>1 DEF RunsIn
    <3>3. h # g
      BY <3>1, <3>2, <1>2 DEF RunsIn
    <3>4. RunsIn(u, h)'
      BY <3>1, <3>2, <3>3, <1>2, <1>6 DEF RunsIn
    <3> QED BY <3>2, <3>4, <1>2 DEF single
  <2> QED BY <2>1, <2>2, <2>3 DEF InlineInv
<1> QED BY <1>6, <1>8 DEF LifeInv

\* The manager's thread comes out of a function that has returned.
LEMMA ReturnedLife ==
  ASSUME StartInv, LifeInv, fault = None, NEW g \in Manager, Returned(g)
  PROVE  LifeInv'
<1> USE DEF tasks
<1>1. PICK t : t = Current(g)
  OBVIOUS
<1>2. /\ body[t] = "over" /\ manager[g].alive /\ pass[g].at = "body"
      /\ pass' = [pass EXCEPT ![g] = [pass[g] EXCEPT !.at = "scan"]]
      /\ UNCHANGED <<single, manager, state, body, freed, robbed, ending, fault>>
  BY <1>1 DEF Returned, Goes
<1>3. PICK p : p = [pass[g] EXCEPT !.at = "scan"]
  OBVIOUS
<1>4. p \in PassRecord /\ p.at = "scan"
  BY <1>3 DEF StartInv, ManagerTypes, PassRecord
<1>5. /\ LifeTypes' /\ RegistryInv' /\ CreatorInv' /\ JoinInv' /\ ListInv'
      /\ FaultsAreExplained'
      /\ \A h \in Manager : h # g => pass'[h] = pass[h] /\ Current(h)' = Current(h)
      /\ pass'[g] = p
  BY <1>2, <1>3, <1>4, PassLife
<1>6. InlineInv'
  <2>1. ASSUME NEW h \in Manager, manager'[h].alive
        PROVE  /\ pass'[h].at = "create" => Current(h)' \in OwnThread
               /\ pass'[h].at = "body" => Current(h)' \in Inline
    <3>1. CASE h = g
      BY <3>1, <1>4, <1>5
    <3>2. CASE h # g
      BY <3>2, <2>1, <1>2, <1>5 DEF LifeInv, InlineInv
    <3> QED BY <3>1, <3>2
  <2>2. \A u \in Inline : state'[u] = "Launched" => body'[u] # "idle"
    BY <1>2 DEF LifeInv, InlineInv
  <2>3. ASSUME NEW u \in Inline, Active(u)'
        PROVE  RunsIn(u, ref[u])'
    <3>1. RunsIn(u, ref[u]) /\ body[u] # "over"
      BY <2>3, <1>2 DEF LifeInv, InlineInv, None, Active
    <3>2. PICK h \in Manager : h = ref[u]
      BY <3>1 DEF RunsIn
    <3>3. h # g
      BY <3>1, <3>2, <1>1, <1>2 DEF RunsIn
    <3>4. RunsIn(u, h)'
      BY <3>1, <3>2, <3>3, <1>2, <1>5 DEF RunsIn
    <3> QED BY <3>2, <3>4, <1>2 DEF single
  <2> QED BY <2>1, <2>2, <2>3 DEF InlineInv
<1> QED BY <1>5, <1>6 DEF LifeInv

\* A finished task leaves its list and is freed; what is left of the list has
\* lost the common identifier.
LEMMA FinishLife ==
  ASSUME StartInv, LifeInv, fault = None, NEW g \in Manager, Finish(g)
  PROVE  LifeInv'
<1> USE DEF single, tasks, ending
<1>1. PICK t : t = Current(g)
  OBVIOUS
<1>2. PICK n : n = pass[g].next
  OBVIOUS
<1>3. PICK s : s = manager[g].tasks
  OBVIOUS
<1>4. /\ t # None /\ IsCompleted(t) /\ manager[g].alive /\ pass[g].at = "scan"
      /\ pass' = [pass EXCEPT ![g] = pass[g]]
      /\ manager' = [manager EXCEPT ![g].tasks = RemoveAt(@, n), ![g].id = FALSE]
      /\ freed' = freed \cup {t}
      /\ robbed' = robbed \cup (ToSet(s) \ {t})
      /\ UNCHANGED <<single, state, body, ending, fault>>
  BY <1>1, <1>2, <1>3 DEF Finish, Goes
<1>5. pass' = pass
  BY <1>4 DEF StartInv, ManagerTypes
<1>6. /\ t \in Task /\ n \in 1..Len(s) /\ t = s[n] /\ s \in Seq(Task) /\ Len(s) \in Nat
      /\ \A i \in 1..Len(s) : s[i] \in Task
  BY <1>1, <1>2, <1>3, <1>4, CurrentFacts, ListFacts DEF StartInv
<1>7. \A h \in Manager :
        /\ manager'[h].alive = manager[h].alive
        /\ manager'[h].thread = manager[h].thread
        /\ h # g => /\ manager'[h].tasks = manager[h].tasks
                    /\ manager'[h].id = manager[h].id
        /\ h = g => manager'[h].tasks = RemoveAt(s, n) /\ ~manager'[h].id
  BY <1>3, <1>4 DEF StartInv, ManagerTypes, ManagerRecord
<1>8. LifeTypes'
  <2>1. ToSet(s) \subseteq Task
    BY <1>6 DEF ToSet
  <2> QED BY <2>1, <1>4, <1>6 DEF LifeInv, LifeTypes
<1>9. RegistryInv' /\ CreatorInv' /\ JoinInv'
  BY <1>4, <1>5, <1>7, RegistrySame
<1>10. ListInv'
  <2> DEFINE r == RemoveAt(s, n)
  <2>1. /\ Len(r) = Len(s) - 1
        /\ \A j \in 1..(Len(s) - 1) : r[j] = IF j < n THEN s[j] ELSE s[j + 1]
    BY <1>6, RemoveAtPlaces
  <2> HIDE DEF r
  <2>2. /\ \A i, j \in 1..Len(s) : s[i] = s[j] => i = j
        /\ \A i \in 1..Len(s) : s[i] \notin freed
    BY <1>3 DEF LifeInv, ListInv, ListOK
  <2>3. \A j \in 1..Len(r) : r[j] \in ToSet(s) \ {t} /\ r[j] \notin freed
    <3> SUFFICES ASSUME NEW j \in 1..(Len(s) - 1)
                 PROVE  r[j] \in ToSet(s) \ {t} /\ r[j] \notin freed
      BY <2>1
    <3>1. PICK k \in 1..Len(s) : k # n /\ r[j] = s[k]
      <4>1. CASE j < n
        BY <4>1, <1>6, <2>1
      <4>2. CASE ~(j < n)
        <5>1. j + 1 \in 1..Len(s) /\ j + 1 # n /\ r[j] = s[j + 1]
          BY <4>2, <1>6, <2>1
        <5> QED BY <5>1
      <4> QED BY <4>1, <4>2
    <3>2. s[k] # t
      BY <3>1, <2>2, <1>6
    <3>3. s[k] \in ToSet(s)
      BY <1>6 DEF ToSet
    <3> QED BY <3>1, <3>2, <3>3, <2>2
  <2>4. ASSUME NEW i \in 1..Len(r), NEW j \in 1..Len(r), r[i] = r[j]
        PROVE  i = j
    <3>1. PICK k \in 1..Len(s) : r[i] = s[k] /\ k = IF i < n THEN i ELSE i + 1
      <4>1. i \in 1..Len(s) /\ i + 1 \in 1..Len(s) /\ i \in 1..(Len(s) - 1)
        BY <2>1, <1>6
      <4> QED BY <4>1, <2>1
    <3>2. PICK l \in 1..Len(s) : r[j] = s[l] /\ l = IF j < n THEN j ELSE j + 1
      <4>1. j \in 1..Len(s) /\ j + 1 \in 1..Len(s) /\ j \in 1..(Len(s) - 1)
        BY <2>1, <1>6
      <4> QED BY <4>1, <2>1
    <3>3. k = l
      BY <3>1, <3>2, <2>2, <2>4
    <3> QED BY <3>1, <3>2, <3>3, <1>6
  <2>5. manager'[g].tasks = r /\ ~manager'[g].id
    BY <1>7 DEF r
  <2>6. ASSUME NEW h \in Manager
        PROVE  ListOK(h)'
    <3>1. CASE h = g
      <4>1. \A i \in 1..Len(r) : r[i] \notin freed' /\ r[i] \in robbed'
        BY <2>3, <1>4
      <4> QED BY <3>1, <4>1, <2>4, <2>5 DEF ListOK
    <3>2. CASE h # g
      <4>1. manager'[h].tasks = manager[h].tasks /\ manager'[h].id = manager[h].id
        BY <3>2, <1>7
      <4>2. ListOK(h)
        BY DEF LifeInv, ListInv
      <4>3. \A i \in 1..Len(manager[h].tasks) : manager[h].tasks[i] # t
        <5>1. ref[t] = g
          BY <1>3, <1>6 DEF StartInv, ListsAreApart
        <5> QED BY <5>1, <3>2 DEF StartInv, ListsAreApart
      <4>4. freed' = freed \cup {t} /\ robbed \subseteq robbed'
        BY <1>4
      <4> QED BY <4>1, <4>2, <4>3, <4>4 DEF ListOK
    <3> QED BY <3>1, <3>2
  <2>7. \A u \in freed' : call'[u] = "done"
    <3>1. call[t] = "done"
      BY <1>3, <1>6 DEF StartInv, ListsAreApart
    <3> QED BY <3>1, <1>4 DEF LifeInv, ListInv
  <2> QED BY <2>6, <2>7 DEF ListInv
<1>11. InlineInv'
  <2>1. \A h \in Manager : h # g => Current(h)' = Current(h)
    BY <1>5, <1>7 DEF Current
  <2>2. ASSUME NEW h \in Manager, manager'[h].alive
        PROVE  /\ pass'[h].at = "create" => Current(h)' \in OwnThread
               /\ pass'[h].at = "body" => Current(h)' \in Inline
    BY <2>1, <2>2, <1>4, <1>5, <1>7 DEF LifeInv, InlineInv
  <2>3. \A u \in Inline : state'[u] = "Launched" => body'[u] # "idle"
    BY <1>4 DEF LifeInv, InlineInv
  <2>4. ASSUME NEW u \in Inline, Active(u)'
        PROVE  RunsIn(u, ref[u])'
    <3>1. RunsIn(u, ref[u])
      BY <2>4, <1>4 DEF LifeInv, InlineInv, None, Active
    <3>2. PICK h \in Manager : h = ref[u]
      BY <3>1 DEF RunsIn
    <3>3. h # g
      BY <3>1, <3>2, <1>4 DEF RunsIn
    <3>4. RunsIn(u, h)'
      <4>1. state' = state /\ manager'[h].alive = manager[h].alive
        BY <1>4, <1>7
      <4> QED BY <4>1, <3>1, <3>2, <3>3, <2>1, <1>5 DEF RunsIn
    <3> QED BY <3>2, <3>4, <1>4
  <2> QED BY <2>2, <2>3, <2>4 DEF InlineInv
<1>12. FaultsAreExplained'
  BY <1>4 DEF FaultsAreExplained, None
<1> QED BY <1>8, <1>9, <1>10, <1>11, <1>12 DEF LifeInv

\* The thread meets a deleted instance only after a hasty destruction.
LEMMA PassFreedLife ==
  ASSUME StartInv, LifeInv, fault = None, NEW g \in Manager, PassFreed(g)
  PROVE  LifeInv'
<1> USE DEF single, tasks, ending
<1>1. /\ pass[g].at \notin {"unborn", "new", "over"} /\ ~manager[g].alive
      /\ fault' = "pass"
      /\ UNCHANGED <<single, manager, pass, tasks, ending>>
  BY DEF PassFreed, Fail
<1>2. hasty
  <2> SUFFICES ASSUME ~hasty PROVE FALSE
    OBVIOUS
  <2>1. g <= destroys /\ g # registered
    BY <1>1 DEF LifeInv, RegistryInv
  <2>2. g < destroys \/ g = destroys
    BY <2>1, DestroysAssumption DEF LifeInv, LifeTypes, Manager
  <2>3. ~(g = destroys /\ main \in {"stop", "join"})
    BY <1>1 DEF LifeInv, RegistryInv
  <2> QED BY <1>1, <2>2, <2>3 DEF LifeInv, JoinInv
<1>3. RegistryInv' /\ CreatorInv' /\ JoinInv'
  BY <1>1, RegistrySame
<1>4. ListInv' /\ InlineInv'
  BY <1>1, ListSame, InlineSame
<1>5. LifeTypes' /\ FaultsAreExplained'
  BY <1>1, <1>2 DEF LifeInv, LifeTypes, FaultsAreExplained
<1> QED BY <1>3, <1>4, <1>5 DEF LifeInv

\* The steps of an instance's thread.
LEMMA LoopLife ==
  ASSUME StartInv, LifeInv, fault = None, NEW g \in Manager, Loop(g)
  PROVE  LifeInv'
<1>1. CASE LoopHead(g)
  <2>1. PICK at \in {"scan", "over"} :
          /\ pass[g].at = "head"
          /\ pass' = [pass EXCEPT ![g] = [at |-> at, next |-> 1]]
          /\ UNCHANGED <<single, manager, tasks, ending, fault>>
    BY <1>1 DEF LoopHead, Goes
  <2>2. [at |-> at, next |-> 1] \in PassRecord
    BY DEF PassRecord
  <2> QED BY <2>1, <2>2, WalkLife
<1>2. CASE PassEnds(g)
  <2>1. /\ pass[g].at = "scan"
        /\ pass' = [pass EXCEPT ![g] = [at |-> "head", next |-> 1]]
        /\ UNCHANGED <<single, manager, tasks, ending, fault>>
    BY <1>2 DEF PassEnds, Goes
  <2>2. [at |-> "head", next |-> 1] \in PassRecord
    BY DEF PassRecord
  <2> QED BY <2>1, <2>2, WalkLife
<1>3. CASE Pass(g)
  <2>1. PICK p : p = [pass[g] EXCEPT !.next = @ + 1]
    OBVIOUS
  <2>2. /\ pass[g].at = "scan" /\ pass' = [pass EXCEPT ![g] = p]
        /\ UNCHANGED <<single, manager, tasks, ending, fault>>
    BY <1>3, <2>1 DEF Pass, Goes
  <2>3. pass[g] \in PassRecord
    BY DEF StartInv, ManagerTypes
  <2>4. pass[g].next + 1 \in Nat \ {0}
    BY <2>3 DEF PassRecord
  <2>5. p \in PassRecord /\ p.at = "scan"
    BY <2>1, <2>2, <2>3, <2>4 DEF PassRecord
  <2> QED BY <2>2, <2>5, WalkLife
<1> QED BY <1>1, <1>2, <1>3, RunLife, CreateThreadLife, ReturnedLife, FinishLife,
           PassFreedLife DEF Loop

-----------------------------------------------------------------------------
(* The main thread *)

\* Synchronize touches no instance.
LEMMA SynchronizeLife ==
  ASSUME StartInv, LifeInv, fault = None, Synchronize
  PROVE  LifeInv'
<1> USE DEF single, tasks, ending
<1>1. UNCHANGED <<single, manager, pass, tasks, ending, fault>>
  BY DEF Synchronize, SynchronizeCall, SynchronizeReturn
<1>2. RegistryInv' /\ CreatorInv' /\ JoinInv'
  BY <1>1, RegistrySame
<1>3. ListInv' /\ InlineInv'
  BY <1>1, ListSame, InlineSame
<1>4. LifeTypes' /\ FaultsAreExplained'
  BY <1>1 DEF LifeInv, LifeTypes, FaultsAreExplained
<1> QED BY <1>2, <1>3, <1>4 DEF LifeInv

\* The destruction begins with the registered instance, hastily if its thread
\* is not there yet.
LEMMA DestroyLife ==
  ASSUME StartInv, LifeInv, fault = None, DestroySingleton
  PROVE  LifeInv'
<1> USE DEF single, tasks, ending, destroyFrame
<1>1. /\ main = "frame" /\ registered # 0 /\ destroys < MaxDestroys
      /\ main' = "stop" /\ target' = registered /\ all' \in BOOLEAN
      /\ destroys' = destroys + 1
      /\ UNCHANGED <<registered, manager, pass, freed, call, ref, state, body,
                     robbed, fault>>
  BY DEF DestroySingleton, MainIsFree
<1>2. hasty' <=> hasty \/ ~manager[registered].thread
  BY DEF DestroySingleton
<1>3. registered = destroys + 1 /\ registered \in Manager
  BY <1>1 DEF LifeInv, LifeTypes, RegistryInv, Removing
<1>4. destroys \in Nat /\ MaxDestroys \in Nat
  BY DestroysAssumption DEF LifeInv, LifeTypes
<1>5. LifeTypes'
  <2>1. destroys' \in 0..MaxDestroys
    BY <1>1, <1>4
  <2>2. hasty' \in BOOLEAN
    BY DEF DestroySingleton
  <2> QED BY <2>1, <2>2, <1>1, <1>3 DEF LifeInv, LifeTypes
<1>6. RegistryInv'
  <2>1. \A g \in Manager : g <= destroys' \/ g = registered' <=>
                             g <= destroys \/ g = registered
    BY <1>1, <1>3, <1>4 DEF Manager
  <2>2. \A g \in Manager : pass'[g].at # "unborn" <=> g <= destroys' \/ g = registered'
    BY <2>1, <1>1 DEF LifeInv, RegistryInv
  <2>3. \A g \in Manager :
          manager'[g].alive <=> g = registered' \/ (main' # "frame" /\ g = target')
    BY <1>1 DEF LifeInv, RegistryInv
  <2>4. destroys' # 0 /\ target' = destroys' /\ registered' = destroys'
    BY <1>1, <1>3, <1>4
  <2> QED BY <2>2, <2>3, <2>4, <1>1 DEF LifeInv, RegistryInv, Removing
<1>7. CreatorInv'
  <2>1. \A t \in Task : (Creator(t)' <=> Creator(t)) /\ (HasRef(t)' <=> HasRef(t))
    BY <1>1 DEF Creator, HasRef
  <2>2. ASSUME NEW t \in Task, Creator(t)
        PROVE  hasty'
    <3>1. CASE hasty
      BY <3>1, <1>2
    <3>2. CASE ~hasty
      <4>1. ref[t] = registered /\ ~manager[ref[t]].thread
        BY <2>2, <3>2, <1>3 DEF LifeInv, CreatorInv
      <4> QED BY <4>1, <1>2
    <3> QED BY <3>1, <3>2
  <2> QED BY <2>1, <2>2, <1>1 DEF LifeInv, CreatorInv
<1>8. JoinInv'
  <2> SUFFICES ASSUME ~hasty' PROVE JoinInv'
    BY DEF JoinInv
  <2>1. ~hasty /\ manager[registered].thread
    BY <1>2
  <2>2. \A g \in Manager : g < destroys' => g < destroys \/ g = destroys
    BY <1>1, <1>4 DEF Manager
  <2>3. \A g \in Manager : g < destroys' => pass[g].at = "over"
    BY <2>1, <2>2, <1>1 DEF LifeInv, JoinInv
  <2> QED BY <2>1, <2>3, <1>1 DEF JoinInv
<1>9. ListInv'
  BY <1>1, ListSame
<1>10. InlineInv'
  BY <1>1, InlineSame
<1>11. FaultsAreExplained'
  BY <1>1 DEF FaultsAreExplained, None
<1> QED BY <1>5, <1>6, <1>7, <1>8, <1>9, <1>10, <1>11 DEF LifeInv

\* The instance that is being destroyed, by number.
LEMMA TargetFacts ==
  ASSUME LifeInv, main # "frame"
  PROVE  target \in Manager /\ target = destroys /\ destroys \in Nat
BY DestroysAssumption DEF LifeInv, LifeTypes, RegistryInv

\* m_isRun is cleared.
LEMMA StopLife ==
  ASSUME StartInv, LifeInv, fault = None, OnSingletonDestroy
  PROVE  LifeInv'
<1> USE DEF single, tasks, ending, destroyFrame
<1>1. /\ main = "stop" /\ main' = "join"
      /\ manager' = [manager EXCEPT ![target].isRun = FALSE]
      /\ UNCHANGED <<registered, pass, freed, call, ref, state, body, robbed,
                     target, all, destroys, hasty, fault>>
  BY DEF OnSingletonDestroy
<1>2. \A g \in Manager :
        /\ manager'[g].tasks = manager[g].tasks
        /\ manager'[g].id = manager[g].id
        /\ manager'[g].thread = manager[g].thread
        /\ manager'[g].alive = manager[g].alive
  BY <1>1 DEF StartInv, ManagerTypes, ManagerRecord
<1>3. target \in Manager
  BY <1>1, TargetFacts
<1>4. LifeTypes'
  BY <1>1 DEF LifeInv, LifeTypes
<1>5. RegistryInv'
  BY <1>1, <1>2 DEF LifeInv, RegistryInv, Removing
<1>6. CreatorInv'
  <2>1. \A t \in Task : (Creator(t)' <=> Creator(t)) /\ (HasRef(t)' <=> HasRef(t))
    BY <1>1 DEF Creator, HasRef
  <2>2. \A t \in Task : Creator(t) => HasRef(t)
    BY DEF Creator, HasRef
  <2> QED BY <2>1, <2>2, <1>1, <1>2 DEF LifeInv, CreatorInv
<1>7. JoinInv'
  BY <1>1, <1>2, <1>3 DEF LifeInv, JoinInv
<1>8. ListInv'
  BY <1>1, <1>2, ListSame
<1>9. InlineInv'
  BY <1>1, <1>2, InlineSame
<1>10. FaultsAreExplained'
  BY <1>1 DEF FaultsAreExplained, None
<1> QED BY <1>4, <1>5, <1>6, <1>7, <1>8, <1>9, <1>10 DEF LifeInv

\* The thread is joined if there is one.
LEMMA JoinLife ==
  ASSUME StartInv, LifeInv, fault = None, TryJoin
  PROVE  LifeInv'
<1> USE DEF single, tasks, ending, destroyFrame
<1>1. /\ main = "join" /\ main' = IF all THEN "delete" ELSE "remove"
      /\ manager[target].thread => pass[target].at = "over"
      /\ manager' = [manager EXCEPT ![target].thread = FALSE]
      /\ UNCHANGED <<registered, pass, freed, call, ref, state, body, robbed,
                     target, all, destroys, hasty, fault>>
  BY DEF TryJoin
<1>2. \A g \in Manager :
        /\ manager'[g].tasks = manager[g].tasks
        /\ manager'[g].id = manager[g].id
        /\ manager'[g].alive = manager[g].alive
        /\ manager'[g].thread => manager[g].thread
  BY <1>1 DEF StartInv, ManagerTypes, ManagerRecord
<1>3. target \in Manager /\ target = destroys
  BY <1>1, TargetFacts
<1>4. LifeTypes'
  BY <1>1 DEF LifeInv, LifeTypes
<1>5. RegistryInv'
  <2>1. Removing /\ Removing'
    BY <1>1 DEF Removing
  <2>2. main' # "frame" /\ main # "frame" /\ (main' = "remove" => ~all')
    BY <1>1
  <2>3. \A g \in Manager : pass'[g].at = "unborn" => ~manager'[g].thread
    BY <1>1, <1>2 DEF LifeInv, RegistryInv
  <2>4. \A g \in Manager :
          manager'[g].alive <=> g = registered' \/ (main' # "frame" /\ g = target')
    BY <2>2, <1>1, <1>2 DEF LifeInv, RegistryInv
  <2> QED BY <2>1, <2>2, <2>3, <2>4, <1>1 DEF LifeInv, RegistryInv
<1>6. CreatorInv'
  <2>1. \A t \in Task : (Creator(t)' <=> Creator(t)) /\ (HasRef(t)' <=> HasRef(t))
    BY <1>1 DEF Creator, HasRef
  <2>2. \A t \in Task : Creator(t) => HasRef(t)
    BY DEF Creator, HasRef
  <2> QED BY <2>1, <2>2, <1>1, <1>2 DEF LifeInv, CreatorInv
<1>7. JoinInv'
  <2> SUFFICES ASSUME ~hasty PROVE JoinInv'
    BY <1>1 DEF JoinInv
  <2>1. main' \notin {"stop", "join"}
    BY <1>1
  <2>2. pass[target].at = "over"
    BY <1>1 DEF LifeInv, JoinInv
  <2>3. \A g \in Manager : g < destroys \/ g = destroys => pass[g].at = "over"
    BY <2>2, <1>3 DEF LifeInv, JoinInv
  <2> QED BY <2>1, <2>3, <1>1 DEF JoinInv
<1>8. ListInv'
  BY <1>1, <1>2, ListSame
<1>9. InlineInv'
  BY <1>1, <1>2, InlineSame
<1>10. FaultsAreExplained'
  BY <1>1 DEF FaultsAreExplained, None
<1> QED BY <1>4, <1>5, <1>6, <1>7, <1>8, <1>9, <1>10 DEF LifeInv

\* The instance leaves the registry.
LEMMA RemoveLife ==
  ASSUME StartInv, LifeInv, fault = None, RemoveSingleton
  PROVE  LifeInv'
<1> USE DEF single, tasks, ending, destroyFrame
<1>1. /\ main = "remove" /\ main' = "delete" /\ registered' = 0
      /\ UNCHANGED <<manager, pass, freed, call, ref, state, body, robbed,
                     target, all, destroys, hasty, fault>>
  BY DEF RemoveSingleton
<1>2. target \in Manager /\ target = destroys /\ destroys \in Nat
  BY <1>1, TargetFacts
<1>3. ~all /\ registered = destroys
  BY <1>1 DEF LifeInv, RegistryInv, Removing
<1>4. LifeTypes'
  BY <1>1 DEF LifeInv, LifeTypes
<1>5. RegistryInv'
  <2>0. \A g \in Manager : g # 0
    BY DEF Manager
  <2>1. ~Removing'
    BY <1>1, <1>3 DEF Removing
  <2>2. \A g \in Manager : pass[g].at # "unborn" <=> g <= destroys
    BY <1>2, <1>3 DEF LifeInv, RegistryInv, Manager
  <2>3. \A g \in Manager : manager[g].alive <=> g = target
    BY <1>2, <1>3 DEF LifeInv, RegistryInv
  <2>4. \A g \in Manager : pass[g].at = "unborn" => ~manager[g].thread
    BY DEF LifeInv, RegistryInv
  <2>5. destroys # 0
    BY <1>1 DEF LifeInv, RegistryInv
  <2> QED BY <2>0, <2>1, <2>2, <2>3, <2>4, <2>5, <1>1, <1>2 DEF RegistryInv
<1>6. CreatorInv'
  BY <1>1 DEF LifeInv, CreatorInv, Creator, HasRef
<1>7. JoinInv'
  BY <1>1 DEF LifeInv, JoinInv
<1>8. ListInv'
  BY <1>1, ListSame
<1>9. InlineInv'
  BY <1>1, InlineSame
<1>10. FaultsAreExplained'
  BY <1>1 DEF FaultsAreExplained, None
<1> QED BY <1>4, <1>5, <1>6, <1>7, <1>8, <1>9, <1>10 DEF LifeInv

\* The instance is deleted with what is left on its list.
LEMMA DeleteLife ==
  ASSUME StartInv, LifeInv, fault = None, Delete
  PROVE  LifeInv'
<1> USE DEF single, tasks, ending
<1>1. PICK left : left = ToSet(manager[target].tasks)
  OBVIOUS
<1>2. /\ main = "delete" /\ main' = "frame"
      /\ registered' = IF all THEN 0 ELSE registered
      /\ manager' = [manager EXCEPT ![target].alive = FALSE,
                       ![target].tasks = << >>, ![target].id = FALSE]
      /\ state' = Stop(left)
      /\ freed' = freed \cup left
      /\ fault' = IF \E t \in left \cap Inline : state[t] = "Launched"
                  THEN "stop" ELSE None
      /\ UNCHANGED <<call, ref, body, robbed, pass, target, all, destroys, hasty>>
  BY <1>1 DEF Delete
<1>3. target \in Manager /\ target = destroys /\ destroys \in Nat
  BY <1>2, TargetFacts
<1>4. \A g \in Manager :
        /\ manager'[g].thread = manager[g].thread
        /\ g # target => /\ manager'[g].alive = manager[g].alive
                         /\ manager'[g].tasks = manager[g].tasks
                         /\ manager'[g].id = manager[g].id
        /\ g = target => /\ ~manager'[g].alive
                         /\ manager'[g].tasks = << >>
                         /\ ~manager'[g].id
  BY <1>2 DEF StartInv, ManagerTypes, ManagerRecord
<1>5. \A t \in left : t \in Task /\ call[t] = "done" /\ ref[t] = target
  <2>1. ASSUME NEW t \in left
        PROVE  \E i \in 1..Len(manager[target].tasks) : t = manager[target].tasks[i]
    <3>1. manager[target].tasks \in Seq(Task)
      BY <1>3, ListFacts
    <3> QED BY <3>1, <1>1, LenProperties DEF ToSet
  <2> QED BY <2>1, <1>3, ListFacts DEF StartInv, ListsAreApart
<1>6. \A t \in Task : state'[t] = IF t \in left /\ state[t] = "Launched"
                                  THEN "Stopped" ELSE state[t]
  BY <1>2 DEF Stop
<1>7. LifeTypes'
  BY <1>2, <1>5 DEF LifeInv, LifeTypes
<1>8. RegistryInv'
  <2>0. \A g \in Manager : g # 0
    BY DEF Manager
  <2>1. ~Removing'
    BY <1>2 DEF Removing
  <2>2. /\ all => registered = destroys
        /\ ~all => registered \in {0, destroys + 1}
    BY <1>2 DEF LifeInv, RegistryInv, Removing
  <2>3. registered' \in {0, destroys + 1} /\ registered' # target
    BY <2>0, <2>2, <1>2, <1>3
  <2>4. \A g \in Manager : g <= destroys \/ g = registered' <=>
                             g <= destroys \/ g = registered
    BY <2>0, <2>2, <1>2, <1>3 DEF Manager
  <2>5. \A g \in Manager : pass'[g].at # "unborn" <=> g <= destroys' \/ g = registered'
    BY <2>4, <1>2 DEF LifeInv, RegistryInv
  <2>6. \A g \in Manager : manager'[g].alive <=> g = registered'
    <3>1. \A g \in Manager : g # target =>
            (manager'[g].alive <=> g = registered)
      BY <1>4 DEF LifeInv, RegistryInv
    <3>2. \A g \in Manager : g # target => (g = registered <=> g = registered')
      BY <2>0, <2>2, <1>2, <1>3
    <3> QED BY <3>1, <3>2, <2>3, <1>4
  <2>7. \A g \in Manager : pass'[g].at = "unborn" => ~manager'[g].thread
    BY <1>2, <1>4 DEF LifeInv, RegistryInv
  <2>8. target' = destroys'
    BY <1>2, <1>3
  <2> QED BY <2>1, <2>3, <2>5, <2>6, <2>7, <2>8, <1>2 DEF RegistryInv
<1>9. CreatorInv'
  <2>1. \A t \in Task : (Creator(t)' <=> Creator(t)) /\ (HasRef(t)' <=> HasRef(t))
    BY <1>2 DEF Creator, HasRef
  <2>2. \A t \in Task : Creator(t) => HasRef(t)
    BY DEF Creator, HasRef
  <2> QED BY ZenonT(60), <2>1, <2>2, <1>2, <1>4 DEF LifeInv, CreatorInv
<1>10. JoinInv'
  BY <1>2 DEF LifeInv, JoinInv
<1>11. ListInv'
  <2>1. ASSUME NEW g \in Manager
        PROVE  ListOK(g)'
    <3>1. CASE g = target
      <4>1. Len(manager'[g].tasks) = 0 /\ ~manager'[g].id
        BY <3>1, <1>4, EmptySeq
      <4> QED BY <4>1 DEF ListOK
    <3>2. CASE g # target
      <4>1. manager'[g].tasks = manager[g].tasks /\ manager'[g].id = manager[g].id
        BY <3>2, <1>4
      <4>2. ListOK(g)
        BY DEF LifeInv, ListInv
      <4>3. \A i \in 1..Len(manager[g].tasks) : manager[g].tasks[i] \notin left
        BY <3>2, <1>5 DEF StartInv, ListsAreApart
      <4>4. freed' = freed \cup left /\ robbed' = robbed
        BY <1>2
      <4> QED BY <4>1, <4>2, <4>3, <4>4 DEF ListOK
    <3> QED BY <3>1, <3>2
  <2>2. \A t \in freed' : call'[t] = "done"
    BY <1>2, <1>5 DEF LifeInv, ListInv
  <2> QED BY <2>1, <2>2 DEF ListInv
<1>12. \A g \in Manager : g # target => Current(g)' = Current(g)
  <2>1. pass' = pass
    BY <1>2
  <2> QED BY <2>1, <1>4 DEF Current
\* What ran in the deleted instance was on its list.
<1>13. ASSUME NEW t \in Inline, Active(t), ref[t] = target
       PROVE  hasty /\ t \in left /\ state[t] = "Launched"
  <2>1. RunsIn(t, target)
    BY <1>13 DEF LifeInv, InlineInv, None
  <2>2. hasty
    BY <2>1, <1>2, <1>3 DEF RunsIn, LifeInv, JoinInv
  <2>3. /\ pass[target].next \in 1..Len(manager[target].tasks)
        /\ t = manager[target].tasks[pass[target].next]
    BY <2>1, <1>3, CurrentFacts, NoneAssumption DEF RunsIn, StartInv, Inline
  <2>4. t \in left
    <3>1. manager[target].tasks \in Seq(Task)
      BY <1>3, ListFacts
    <3> QED BY <3>1, <2>3, <1>1, LenProperties DEF ToSet
  <2> QED BY <2>1, <2>2, <2>4 DEF RunsIn
<1>14. InlineInv'
  <2>1. ASSUME NEW g \in Manager, manager'[g].alive
        PROVE  /\ pass'[g].at = "create" => Current(g)' \in OwnThread
               /\ pass'[g].at = "body" => Current(g)' \in Inline
    <3>1. g # target
      BY <2>1, <1>4
    <3>2. manager[g].alive /\ pass' = pass /\ Current(g)' = Current(g)
      BY <3>1, <2>1, <1>2, <1>4, <1>12
    <3> QED BY <3>2 DEF LifeInv, InlineInv
  <2>2. \A t \in Inline : state'[t] = "Launched" => body'[t] # "idle"
    BY <1>2, <1>6 DEF LifeInv, InlineInv, Inline
  <2>3. ASSUME fault' # "stop" \/ ~hasty, NEW t \in Inline, Active(t)'
        PROVE  RunsIn(t, ref[t])'
    <3>1. Active(t) /\ RunsIn(t, ref[t])
      BY <2>3, <1>2 DEF LifeInv, InlineInv, None, Active
    <3>2. PICK g \in Manager : g = ref[t]
      BY <3>1 DEF RunsIn
    <3>3. g # target
      BY <3>1, <3>2, <2>3, <1>2, <1>13
    <3>4. t \notin left
      BY <3>2, <3>3, <1>5
    <3>5. RunsIn(t, g)'
      <4>1. state'[t] = state[t] /\ pass' = pass
        BY <3>4, <1>2, <1>6 DEF Inline
      <4>2. manager'[g].alive = manager[g].alive /\ Current(g)' = Current(g)
        BY <3>3, <1>4, <1>12
      <4> QED BY <3>1, <3>2, <4>1, <4>2 DEF RunsIn
    <3> QED BY <3>2, <3>5, <1>2
  <2> QED BY <2>1, <2>2, <2>3, <1>2 DEF InlineInv
<1>15. FaultsAreExplained'
  <2>1. CASE fault' = None
    BY <2>1 DEF FaultsAreExplained, None
  <2>2. CASE fault' # None
    <3>1. fault' = "stop"
      BY <2>2, <1>2
    <3>2. PICK t \in left \cap Inline : state[t] = "Launched"
      BY <2>2, <1>2
    <3>3. state'[t] = "Stopped"
      BY <3>2, <1>5, <1>6
    <3>4. body[t] # "idle"
      BY <3>2 DEF LifeInv, InlineInv
    <3>5. body[t] = "over" \/ hasty
      BY <3>2, <3>4, <1>5, <1>13 DEF Active
    <3> QED BY <3>1, <3>2, <3>3, <3>5, <1>2 DEF FaultsAreExplained
  <2> QED BY <2>1, <2>2
<1> QED BY <1>7, <1>8, <1>9, <1>10, <1>11, <1>14, <1>15 DEF LifeInv

-----------------------------------------------------------------------------
(* The theorems *)

\* Every step keeps the invariant.
LEMMA LifeNext == StartInv /\ LifeInv /\ [Next]_vars => LifeInv'
<1> SUFFICES ASSUME StartInv, LifeInv, [Next]_vars PROVE LifeInv'
  OBVIOUS
<1>1. CASE UNCHANGED vars
  <2> USE DEF vars, single, tasks, ending
  <2>1. RegistryInv' /\ CreatorInv' /\ JoinInv' /\ ListInv'
    BY <1>1, RegistrySame, ListSame
  <2>2. LifeTypes' /\ FaultsAreExplained'
    BY <1>1 DEF LifeInv, LifeTypes, FaultsAreExplained
  <2>3. InlineInv'
    <3>1. \A g \in Manager : Current(g)' = Current(g)
      BY <1>1 DEF Current
    <3>2. \A t \in Task : RunsIn(t, ref[t])' <=> RunsIn(t, ref[t])
      BY <1>1, <3>1 DEF RunsIn
    <3> QED BY <1>1, <3>1, <3>2 DEF LifeInv, InlineInv, Active, Inline
  <2> QED BY <2>1, <2>2, <2>3 DEF LifeInv
<1>2. CASE Next
  <2>1. fault = None
    BY <1>2 DEF Next
  <2>2. CASE \E t \in Task : Instance(t) \/ Submit(t) \/ Execute(t) \/ Body(t)
    BY <2>1, <2>2, InstanceLife, SubmitLife, ExecuteLife, BodyLife
  <2>3. CASE \E g \in Manager : Loop(g)
    BY <2>1, <2>3, LoopLife
  <2>4. CASE Synchronize \/ DestroySingleton \/ Destroying
    BY <2>1, <2>4, SynchronizeLife, DestroyLife, StopLife, JoinLife, RemoveLife,
       DeleteLife DEF Destroying
  <2> QED BY <1>2, <2>2, <2>3, <2>4 DEF Next
<1> QED BY <1>1, <1>2

\* The two invariants hold of every behaviour.
LEMMA LifeAlways == Spec => [](StartInv /\ AskInv /\ LifeInv)
<1>1. Init => StartInv /\ AskInv /\ LifeInv
  BY StartInit, AskInit, LifeInit
<1>2. StartInv /\ AskInv /\ LifeInv /\ [Next]_vars => StartInv' /\ AskInv' /\ LifeInv'
  BY StartStep, AskNext, LifeNext
<1> QED BY <1>1, <1>2, PTL DEF Spec

\* The variables keep their types; in particular Instance() creates one
\* instance more than there were destructions at most, so that the registry
\* (Singleton.h) never loses an instance to a second one.
THEOREM TypeCorrect == Spec => []TypeOK
<1>1. ASSUME StartInv, AskInv, LifeInv PROVE TypeOK
  <2>1. /\ manager \in [Manager -> ManagerRecord] /\ pass \in [Manager -> PassRecord]
        /\ body \in [Task -> BodyAt]
    BY <1>1 DEF StartInv, ManagerTypes, AskTypes
  <2>2. lostCall \subseteq Task /\ overlapped \subseteq Task
    BY <1>1 DEF AskInv
  <2>3. {function, result, running} \subseteq Task \cup {None}
    BY <1>1 DEF StartInv, AskTypes
  <2> QED BY <1>1, <2>1, <2>2, <2>3 DEF StartInv, ManagerTypes, AskTypes, LifeInv,
            LifeTypes, ManagerRecord, PassRecord, BodyAt, TypeOK
<1> QED BY <1>1, LifeAlways, PTL

\* Tasks without a thread of their own never run at the same time, over all
\* instances of the manager, unless one was destroyed before InitSingleton had
\* ended: what the join in OnSingletonDestroy is there for.
THEOREM InlineTasksAreSerial == Spec => []InlineIsSerial
<1>1. ASSUME StartInv, LifeInv PROVE InlineIsSerial
  <2> SUFFICES ASSUME ~hasty, NEW t \in Inline, NEW u \in Inline,
                      {body[t], body[u]} \cap {"idle", "over"} = {}
               PROVE  t = u
    BY DEF InlineIsSerial
  <2>1. Active(t) /\ Active(u)
    BY DEF Active
  <2>2. RunsIn(t, ref[t]) /\ RunsIn(u, ref[u])
    BY <1>1, <2>1 DEF LifeInv, InlineInv
  <2>3. ASSUME NEW g \in Manager, pass[g].at = "body"
        PROVE  g = registered
    <3>1. g <= destroys \/ g = registered
      BY <2>3, <1>1 DEF LifeInv, RegistryInv
    <3>2. ~(g < destroys \/ (g = destroys /\ main \notin {"stop", "join"}))
      BY <2>3, <1>1 DEF LifeInv, JoinInv
    <3>3. g <= destroys => g = destroys /\ main \in {"stop", "join"}
      BY <3>2, <1>1, DestroysAssumption DEF LifeInv, LifeTypes, Manager
    <3>4. main \in {"stop", "join"} => registered = destroys
      BY <1>1 DEF LifeInv, RegistryInv, Removing
    <3> QED BY <3>1, <3>3, <3>4
  <2>4. ref[t] = registered /\ ref[u] = registered
    BY <2>2, <2>3 DEF RunsIn
  <2> QED BY <2>2, <2>4 DEF RunsIn
<1> QED BY <1>1, LifeAlways, PTL

\* Freed memory is touched only in the ways FaultsAreExplained names: the
\* manager's thread and InitSingleton only after a hasty destruction, a task's
\* function only on a thread of its own, Stop only for a launched task without
\* a thread whose function returned and never told its state.
THEOREM FaultsAreOnlyThese == Spec => []FaultsAreExplained
<1>1. LifeInv => FaultsAreExplained
  BY DEF LifeInv
<1> QED BY <1>1, LifeAlways, PTL

\* A listed task is answered for with Launched unless another was finished
\* beside it, and Launched is answered only while some task is on the list:
\* GetResult with the one identifier that all tasks share.
THEOREM GetResultAnswers == Spec => []AnswersAreTrue
<1>1. ASSUME StartInv, LifeInv PROVE AnswersAreTrue
  <2> SUFFICES ASSUME NEW t \in Task, call[t] = "done"
               PROVE  /\ Listed(t) => GetResult(t) = "Launched" \/ t \in robbed
                      /\ GetResult(t) = "Launched" =>
                           \E u \in Task : Listed(u) /\ ref[u] = ref[t]
    BY DEF AnswersAreTrue
  <2>1. PICK g \in Manager : g = ref[t]
    BY <1>1 DEF LifeInv, CreatorInv, HasRef
  <2>2. /\ manager[g].tasks \in Seq(Task) /\ Len(manager[g].tasks) \in Nat
        /\ \A i \in 1..Len(manager[g].tasks) : manager[g].tasks[i] \in Task
    BY <1>1, ListFacts
  <2>3. ToSet(manager[g].tasks)
          = {manager[g].tasks[i] : i \in 1..Len(manager[g].tasks)}
    BY <2>2, LenProperties DEF ToSet
  <2>4. ListOK(g)
    BY <1>1 DEF LifeInv, ListInv
  <2>5. ASSUME Listed(t)
        PROVE  GetResult(t) = "Launched" \/ t \in robbed
    <3>1. PICK i \in 1..Len(manager[g].tasks) : t = manager[g].tasks[i]
      BY <2>1, <2>3, <2>5 DEF Listed
    <3> QED BY <3>1, <2>1, <2>4 DEF ListOK, GetResult
  <2>6. ASSUME GetResult(t) = "Launched"
        PROVE  \E u \in Task : Listed(u) /\ ref[u] = ref[t]
    <3>1. manager[g].id
      BY <2>1, <2>6 DEF GetResult
    <3>2. manager[g].tasks # << >>
      BY <3>1, <2>4 DEF ListOK
    <3>3. 1 \in 1..Len(manager[g].tasks)
      BY <3>2, <2>2, EmptySeq
    <3>4. PICK u \in Task : u = manager[g].tasks[1]
      BY <3>3, <2>2
    <3>5. call[u] = "done" /\ ref[u] = g
      BY <3>3, <3>4, <1>1 DEF StartInv, ListsAreApart
    <3>6. u \in ToSet(manager[g].tasks)
      BY <3>3, <3>4, <2>3
    <3> QED BY <3>5, <3>6, <2>1 DEF Listed
  <2> QED BY <2>5, <2>6
<1> QED BY <1>1, LifeAlways, PTL

=============================================================================
