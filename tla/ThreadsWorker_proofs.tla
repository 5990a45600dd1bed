------------------------ MODULE ThreadsWorker_proofs ------------------------
(***************************************************************************)
(* Proofs about ThreadsWorker, for any threads, states, conditions and     *)
(* finalize list.                                                          *)
(***************************************************************************)
EXTENDS ThreadsWorker, FiniteSetTheorems, SequenceTheorems, TLAPS

-----------------------------------------------------------------------------
(* The inductive invariants *)

\* The owner's loops over m_threadWorkers: Stop joins a thread of the list.
OwnerInv == main = "join" => next <= Len(ThreadOrder)

\* Where a thread is in Execute() tells the value of its current state: nobody
\* else sets it.
Place(t) ==
  /\ pc[t] \in {"skip", "start"} => st[Current(t)] = "idle"
  /\ pc[t] = "work" => st[Current(t)] = "working"
  /\ pc[t] = "finish" => st[Current(t)] = "ready"

PlaceInv == \A t \in Thread : Place(t)

Coupled(a, b) == Handshake([s \in State |-> StartConditions(s)], a, b)

\* The running loop of t has read the condition c of the state s.
HasRead(t, at, s, c) == pc[t] = at /\ Current(t) = s /\ c \notin todo[t]

\* In a handshake what a thread has read stays true until it acts on it.
ReadIsTrue(t, a, b) ==
  /\ HasRead(t, "start", a, <<b, "idle">>) => st[b] = "idle"
  /\ HasRead(t, "start", b, <<a, "ready">>) => st[a] = "ready"
  /\ HasRead(t, "finish", a, <<b, "ready">>) => st[b] = "ready"
  /\ HasRead(t, "finish", b, <<a, "idle">>) => st[a] = "idle"

HandshakeInv ==
  \A a, b \in State :
    Coupled(a, b) =>
      /\ st[a] = "working" => st[b] = "idle"
      /\ st[b] = "working" => st[a] = "ready"
      /\ \A t \in Thread : ReadIsTrue(t, a, b)

\* Outside Update(): where a thread stays once it has seen m_isAlive cleared.
Outside == {"top", "alive", "final", "finalize", "done"}

\* Finalization begins after the stop was asked for, and the threads that have
\* begun it do not come back to Update().
FinalInv ==
  /\ main = "start" => isAlive
  /\ main \in {"wait_finalize", "stop_thread", "join", "stopped"} => ~isAlive
  /\ \A t \in Thread : pc[t] \in {"final", "finalize"} => ~isAlive
  /\ \A t \in Thread : pc[t] = "finalize" => fin[t] <= Len(StatesOf[t])
  /\ \A j \in 1..Len(finalized) :
       /\ ~isAlive
       /\ \A t \in Thread :
            (\E k \in 1..Len(StatesOf[t]) : StatesOf[t][k] = finalized[j])
              => pc[t] \in Outside

\* The threads that have taken an entry and not yet run its Finalize().
Finalizing == {t \in Thread : pc[t] = "finalize"}
Taken == Len(FinalizeList) - Len(finalize)

\* The entries are taken from the front; one that is taken has been finalized
\* or is being, and none is counted twice.
ListInv ==
  /\ Len(finalize) <= Len(FinalizeList)
  /\ \A k \in 1..Len(finalize) : finalize[k] = FinalizeList[Taken + k]
  /\ \A k \in 1..Taken :
       \/ \E j \in 1..Len(finalized) : finalized[j] = FinalizeList[k]
       \/ \E t \in Finalizing : StatesOf[t][fin[t]] = FinalizeList[k]
  /\ Len(finalized) + Cardinality(Finalizing) = Taken

\* Stop joins the threads in order, after the list is empty.
JoinInv ==
  /\ main \in {"stop_thread", "join", "stopped"} => finalize = << >>
  /\ main \in {"stop_thread", "join"} =>
       \A i \in 1..(next - 1) : pc[ThreadOrder[i]] = "done"
  /\ main = "stopped" => \A t \in Thread : pc[t] = "done"

WorkerInv ==
  /\ TypeOK /\ OwnerInv /\ PlaceInv /\ HandshakeInv
  /\ FinalInv /\ ListInv /\ JoinInv

\* The current state of a thread is one of its own, and of no other thread.
LEMMA CurrentFacts ==
  ASSUME TypeOK, NEW t \in Thread
  PROVE  /\ Current(t) \in State
         /\ \E k \in 1..Len(StatesOf[t]) : StatesOf[t][k] = Current(t)
         /\ \A u \in Thread : u # t =>
              \A k \in 1..Len(StatesOf[u]) : StatesOf[u][k] # Current(t)
<1>1. StatesOf[t] \in Seq(State) /\ cur[t] \in 1..Len(StatesOf[t])
  BY ThreadAssumption DEF TypeOK
<1>2. Current(t) \in State
  BY <1>1, ElementOfSeq DEF Current
<1> QED BY <1>1, <1>2, OwnerAssumption DEF Current

\* What a new ThreadsWorker is like.
LEMMA InitWorker == Init => WorkerInv
<1> SUFFICES ASSUME Init PROVE WorkerInv
  OBVIOUS
<1> USE DEF Init
<1>1. /\ \A t \in Thread : StatesOf[t] \in Seq(State) /\ Len(StatesOf[t]) \in Nat \ {0}
      /\ Len(ThreadOrder) \in Nat /\ Len(FinalizeList) \in Nat
      /\ << >> \in Seq(State) /\ Len(<< >>) = 0
  BY ThreadAssumption, ConditionAssumption, EmptySeq, LenProperties
<1>2. TypeOK
  BY <1>1, ConditionAssumption DEF TypeOK, Value
<1>3. OwnerInv /\ JoinInv
  BY DEF OwnerInv, JoinInv
<1>4. PlaceInv
  BY DEF PlaceInv, Place
<1>5. HandshakeInv
  BY DEF HandshakeInv, ReadIsTrue, HasRead
<1>6. FinalInv
  BY <1>1 DEF FinalInv
<1>7. ListInv
  <2>1. Finalizing = {}
    BY DEF Finalizing
  <2>2. Cardinality(Finalizing) = 0
    BY <2>1, FS_EmptySet, Zenon
  <2>3. Taken = 0 /\ finalize = FinalizeList
    BY <1>1 DEF Taken
  <2> QED BY <1>1, <2>2, <2>3 DEF ListInv
<1> QED BY <1>2, <1>3, <1>4, <1>5, <1>6, <1>7 DEF WorkerInv

-----------------------------------------------------------------------------
(* Types *)

\* A thread's own index of its states is set to n.
LEMMA IndexStep ==
  ASSUME NEW f \in [Thread -> Nat], NEW top \in [Thread -> Nat],
         \A u \in Thread : f[u] \in 1..top[u],
         NEW t \in Thread, NEW n \in 1..top[t]
  PROVE  /\ [f EXCEPT ![t] = n] \in [Thread -> Nat]
         /\ \A u \in Thread : [f EXCEPT ![t] = n][u] \in 1..top[u]
OBVIOUS

\* A step of a worker keeps the types and m_currentState within its bounds.
LEMMA WorkerTypes ==
  ASSUME TypeOK, FinalInv, NEW t \in Thread, Worker(t)
  PROVE  TypeOK'
<1>1. /\ Current(t) \in State
      /\ SkipConditions(Current(t)) \in SUBSET Condition
      /\ StartConditions(Current(t)) \in SUBSET Condition
      /\ FinishConditions(Current(t)) \in SUBSET Condition
  BY CurrentFacts, ConditionAssumption
  DEF SkipConditions, StartConditions, FinishConditions
<1>2. StatesOf[t] \in Seq(State) /\ Len(StatesOf[t]) \in Nat \ {0}
  BY ThreadAssumption, EmptySeq
<1> DEFINE last == [u \in Thread |-> Len(StatesOf[u])]
           end == [u \in Thread |-> Len(StatesOf[u]) + 1]
<1>c. \A u \in Thread : Len(StatesOf[u]) \in Nat
  BY ThreadAssumption, LenProperties
<1>0. /\ last \in [Thread -> Nat] /\ end \in [Thread -> Nat]
      /\ \A u \in Thread : last[u] = Len(StatesOf[u])
      /\ \A u \in Thread : end[u] = Len(StatesOf[u]) + 1
  BY <1>c
<1> HIDE DEF last, end
<1>a. ASSUME NEW n \in 1..Len(StatesOf[t]), cur' = [cur EXCEPT ![t] = n]
      PROVE  /\ cur' \in [Thread -> Nat]
             /\ \A u \in Thread : cur'[u] \in 1..Len(StatesOf[u])
  BY SMTT(30), <1>0, <1>a, IndexStep DEF TypeOK
<1>b. ASSUME NEW n \in 1..(Len(StatesOf[t]) + 1), fin' = [fin EXCEPT ![t] = n]
      PROVE  /\ fin' \in [Thread -> Nat]
             /\ \A u \in Thread : fin'[u] \in 1..(Len(StatesOf[u]) + 1)
  BY SMTT(30), <1>0, <1>b, IndexStep DEF TypeOK
<1> USE DEF Goto, Read, workerFrame, finalFrame, TypeOK, Value
<1>3. CASE WorkActive(t)
  BY <1>1, <1>2, <1>3 DEF WorkActive
<1>4. CASE WorkAlive(t)
  BY <1>1, <1>2, <1>4 DEF WorkAlive
<1>5. CASE Execute(t)
  BY ZenonT(60), <1>1, <1>2, <1>5 DEF Execute
<1>6. CASE SkipNone(t)
  BY <1>1, <1>2, <1>6 DEF SkipNone
<1>7. CASE SkipRead(t)
  <2>1. PICK c \in todo[t] :
          IF Holds(c)
          THEN /\ Goto(t, "skip", IF todo[t] = {c} THEN "success" ELSE "skip")
               /\ Read(t, todo[t] \ {c})
          ELSE /\ Goto(t, "skip", "start")
               /\ Read(t, StartConditions(Current(t)))
    BY <1>7 DEF SkipRead
  <2>2. /\ pc' \in {[pc EXCEPT ![t] = "success"], [pc EXCEPT ![t] = "skip"],
                     [pc EXCEPT ![t] = "start"]}
        /\ todo' \in {[todo EXCEPT ![t] = todo[t] \ {c}],
                       [todo EXCEPT ![t] = StartConditions(Current(t))]}
    BY <2>1
  <2>3. todo' \in [Thread -> SUBSET Condition]
    <3>1. todo[t] \ {c} \in SUBSET Condition
      OBVIOUS
    <3>2. CASE todo' = [todo EXCEPT ![t] = todo[t] \ {c}]
      BY <3>1, <3>2
    <3>3. CASE todo' = [todo EXCEPT ![t] = StartConditions(Current(t))]
      BY <1>1, <3>3
    <3> QED BY <2>2, <3>2, <3>3
  <2> QED BY <1>7, <2>2, <2>3 DEF SkipRead
<1>8. CASE StartRead(t)
  BY <1>1, <1>2, <1>8 DEF StartRead, ConditionRead
<1>9. CASE Start(t)
  BY <1>1, <1>2, <1>9 DEF Start
<1>10. CASE WorkSuccess(t)
  BY <1>1, <1>2, <1>10 DEF WorkSuccess
<1>11. CASE WorkRepeat(t)
  BY <1>1, <1>2, <1>11 DEF WorkRepeat
<1>12. CASE WorkBreak(t)
  BY <1>1, <1>2, <1>12 DEF WorkBreak
<1>13. CASE FinishRead(t)
  BY <1>1, <1>2, <1>13 DEF FinishRead, ConditionRead
<1>14. CASE Finish(t)
  BY <1>1, <1>2, <1>14 DEF Finish
<1>15. CASE Advance(t)
  <2>1. CASE ~active[t] \/ ~isAlive
    BY <1>15, <2>1 DEF Advance
  <2>2. CASE active[t] /\ isAlive /\ cur[t] < Len(StatesOf[t])
    <3>1. cur[t] + 1 \in 1..Len(StatesOf[t]) /\ cur' = [cur EXCEPT ![t] = cur[t] + 1]
      BY <1>2, <1>15, <2>2 DEF Advance
    <3> QED BY <1>15, <2>2, <3>1, <1>a DEF Advance
  <2>3. CASE active[t] /\ isAlive /\ ~(cur[t] < Len(StatesOf[t]))
    <3>1. 1 \in 1..Len(StatesOf[t]) /\ cur' = [cur EXCEPT ![t] = 1]
      BY <1>2, <1>15, <2>3 DEF Advance
    <3> QED BY <1>15, <2>3, <3>1, <1>a DEF Advance
  <2> QED BY <2>1, <2>2, <2>3
<1>16. CASE CheckFinalize(t)
  <2>1. finalize # << >> => Tail(finalize) \in Seq(State)
    BY HeadTailProperties
  <2>2. CASE fin[t] > Len(StatesOf[t])
    BY <1>16, <2>2 DEF CheckFinalize
  <2>3. CASE /\ ~(fin[t] > Len(StatesOf[t]))
             /\ finalize # << >> /\ Head(finalize) = StatesOf[t][fin[t]]
    BY <1>16, <2>1, <2>3 DEF CheckFinalize
  <2>4. CASE /\ ~(fin[t] > Len(StatesOf[t]))
             /\ ~(finalize # << >> /\ Head(finalize) = StatesOf[t][fin[t]])
    <3>1. fin[t] + 1 \in 1..(Len(StatesOf[t]) + 1) /\ fin' = [fin EXCEPT ![t] = fin[t] + 1]
      BY <1>2, <1>16, <2>4 DEF CheckFinalize
    <3> QED BY <1>16, <2>4, <3>1, <1>b DEF CheckFinalize
  <2> QED BY <2>2, <2>3, <2>4
<1>17. CASE Finalize(t)
  <2>1. fin[t] \in 1..Len(StatesOf[t])
    BY <1>2, <1>17 DEF Finalize, FinalInv
  <2>2. StatesOf[t][fin[t]] \in State
    BY <1>2, <2>1, ElementOfSeq
  <2>3. finalized' \in Seq(State)
    BY <1>17, <2>2, AppendProperties DEF Finalize
  <2>4. fin[t] + 1 \in 1..(Len(StatesOf[t]) + 1) /\ fin' = [fin EXCEPT ![t] = fin[t] + 1]
    BY SMTT(30), <1>2, <1>17, <2>1 DEF Finalize
  <2> QED BY <1>17, <2>3, <2>4, <1>b DEF Finalize
<1> QED BY <1>3, <1>4, <1>5, <1>6, <1>7, <1>8, <1>9, <1>10,
           <1>11, <1>12, <1>13, <1>14, <1>15, <1>16, <1>17 DEF Worker

\* So does a step of the owner.
LEMMA OwnerTypes ==
  ASSUME TypeOK, OwnerInv, Owner
  PROVE  TypeOK' /\ OwnerInv'
<1>1. Len(ThreadOrder) \in Nat /\ \A k \in 1..Len(ThreadOrder) : ThreadOrder[k] \in Thread
  BY ThreadAssumption, LenProperties, ElementOfSeq
<1> USE DEF ownerFrame, TypeOK, OwnerInv
<1>2. CASE StartThread
  <2>1. CASE next <= Len(ThreadOrder)
    <3>1. ThreadOrder[next] \in Thread /\ next + 1 \in 1..(Len(ThreadOrder) + 1)
      BY <1>1, <2>1
    <3> QED BY <1>2, <2>1, <3>1 DEF StartThread
  <2>2. CASE ~(next <= Len(ThreadOrder))
    BY <1>2, <2>2 DEF StartThread
  <2> QED BY <2>1, <2>2
<1>3. CASE StopAsync \/ Stop
  BY <1>3 DEF StopAsync, Stop
<1>4. CASE StopFinalized
  BY <1>1, <1>4 DEF StopFinalized
<1>5. CASE StopThread
  BY <1>1, <1>5 DEF StopThread
<1>6. CASE JoinThread
  BY <1>1, <1>6 DEF JoinThread
<1> QED BY <1>2, <1>3, <1>4, <1>5, <1>6 DEF Owner

-----------------------------------------------------------------------------
(* The handshake *)

\* No thread but t moves.
Others(t) ==
  \A u \in Thread : u # t =>
    pc'[u] = pc[u] /\ cur'[u] = cur[u] /\ todo'[u] = todo[u]

HandInv == TypeOK /\ PlaceInv /\ HandshakeInv

\* A step of t that sets no state keeps the invariant if t itself does.
LEMMA LocalStep ==
  ASSUME HandInv, NEW t \in Thread, Others(t), st' = st, Place(t)',
         \A a, b \in State : Coupled(a, b) => ReadIsTrue(t, a, b)'
  PROVE  PlaceInv' /\ HandshakeInv'
<1>1. ASSUME NEW u \in Thread, u # t PROVE Place(u)'
  BY <1>1 DEF HandInv, PlaceInv, Place, Others, Current
<1>2. ASSUME NEW u \in Thread, u # t, NEW a, NEW b, ReadIsTrue(u, a, b)
      PROVE  ReadIsTrue(u, a, b)'
  BY <1>2 DEF ReadIsTrue, HasRead, Others, Current
<1>3. PlaceInv'
  BY <1>1 DEF PlaceInv
<1>4. HandshakeInv'
  <2> SUFFICES ASSUME NEW a \in State, NEW b \in State, Coupled(a, b)
               PROVE  /\ st'[a] = "working" => st'[b] = "idle"
                      /\ st'[b] = "working" => st'[a] = "ready"
                      /\ \A u \in Thread : ReadIsTrue(u, a, b)'
    BY DEF HandshakeInv, Coupled, Handshake, StartConditions, FinishConditions
  <2> QED BY <1>2 DEF HandInv, HandshakeInv
<1> QED BY <1>3, <1>4

\* A step after which t is not reading conditions and that sets no state.
LEMMA AwayStep ==
  ASSUME HandInv, NEW t \in Thread, Others(t), st' = st,
         pc'[t] \notin {"skip", "start", "work", "finish"}
  PROVE  PlaceInv' /\ HandshakeInv'
<1>1. Place(t)' /\ \A a, b \in State : ReadIsTrue(t, a, b)'
  BY DEF Place, ReadIsTrue, HasRead
<1> QED BY <1>1, LocalStep

\* A loop begins: t has read none of the conditions yet.
LEMMA BeginRead ==
  ASSUME HandInv, NEW t \in Thread, Others(t), st' = st, cur' = cur,
         \/ /\ pc'[t] = "skip" /\ st[Current(t)] = "idle"
         \/ /\ pc'[t] = "work" /\ st[Current(t)] = "working"
         \/ /\ pc'[t] = "start" /\ st[Current(t)] = "idle"
            /\ todo'[t] = StartConditions(Current(t))
         \/ /\ pc'[t] = "finish" /\ st[Current(t)] = "ready"
            /\ todo'[t] = FinishConditions(Current(t))
  PROVE  PlaceInv' /\ HandshakeInv'
<1>1. Current(t)' = Current(t)
  BY DEF Current
<1>2. Place(t)'
  BY <1>1 DEF Place
<1>3. ASSUME NEW a \in State, NEW b \in State, Coupled(a, b)
      PROVE  ReadIsTrue(t, a, b)'
  BY <1>1, <1>3 DEF ReadIsTrue, HasRead, Coupled, Handshake
<1> QED BY <1>2, <1>3, LocalStep

\* A condition is read, and it holds.
LEMMA ReadOn ==
  ASSUME HandInv, NEW t \in Thread, Others(t), st' = st, cur' = cur,
         pc'[t] = pc[t], NEW c, Holds(c), todo'[t] = todo[t] \ {c}
  PROVE  PlaceInv' /\ HandshakeInv'
<1>1. Current(t)' = Current(t)
  BY DEF Current
<1>2. Place(t)'
  BY <1>1 DEF Place, HandInv, PlaceInv
<1>3. ASSUME NEW a \in State, NEW b \in State, Coupled(a, b)
      PROVE  ReadIsTrue(t, a, b)'
  <2>1. ReadIsTrue(t, a, b)
    BY <1>3 DEF HandInv, HandshakeInv
  <2> QED BY <1>1, <2>1 DEF ReadIsTrue, HasRead, Holds
<1> QED BY <1>2, <1>3, LocalStep

\* Setting its current state, a thread leaves the places of the others true.
LEMMA SetPlace ==
  ASSUME HandInv, NEW t \in Thread, Others(t), cur' = cur, NEW v,
         st' = [st EXCEPT ![Current(t)] = v]
  PROVE  /\ \A u \in Thread : u # t => Place(u)'
         /\ \A s \in State : st'[s] = IF s = Current(t) THEN v ELSE st[s]
         /\ \A u \in Thread : Current(u)' = Current(u) /\ Current(u) \in State
         /\ \A u \in Thread : u # t => Current(u) # Current(t)
<1>1. \A u \in Thread : Current(u)' = Current(u)
  BY DEF Current
<1>2. \A u \in Thread : Current(u) \in State
  BY CurrentFacts DEF HandInv
<1>3. \A u \in Thread : u # t => Current(u) # Current(t)
  BY CurrentFacts DEF HandInv
<1>4. \A s \in State : st'[s] = IF s = Current(t) THEN v ELSE st[s]
  BY DEF HandInv, TypeOK
<1>5. \A u \in Thread : u # t => Place(u)'
  BY <1>1, <1>2, <1>3, <1>4 DEF HandInv, PlaceInv, Place, Others
<1> QED BY <1>1, <1>2, <1>3, <1>4, <1>5

\* A state begins to work: every one of its start conditions has been read.
LEMMA StartStep ==
  ASSUME HandInv, NEW t \in Thread, Start(t)
  PROVE  PlaceInv' /\ HandshakeInv'
<1> DEFINE s == Current(t)
<1>1. /\ pc[t] = "start" /\ todo[t] = {} /\ pc'[t] = "work" /\ st[s] = "idle"
      /\ Others(t) /\ cur' = cur /\ todo' = todo
      /\ st' = [st EXCEPT ![s] = "working"]
  BY DEF Start, Goto, Others, HandInv, TypeOK, PlaceInv, Place
<1>2. /\ \A u \in Thread : u # t => Place(u)'
      /\ \A x \in State : st'[x] = IF x = s THEN "working" ELSE st[x]
      /\ \A u \in Thread : Current(u)' = Current(u) /\ Current(u) \in State
      /\ \A u \in Thread : u # t => Current(u) # s
  BY <1>1, SetPlace
<1> HIDE DEF s
<1>3. PlaceInv'
  BY <1>1, <1>2 DEF PlaceInv, Place, s
<1>4. HandshakeInv'
  <2> SUFFICES ASSUME NEW a \in State, NEW b \in State, Coupled(a, b)
               PROVE  /\ st'[a] = "working" => st'[b] = "idle"
                      /\ st'[b] = "working" => st'[a] = "ready"
                      /\ \A u \in Thread : ReadIsTrue(u, a, b)'
    BY DEF HandshakeInv, Coupled, Handshake, StartConditions, FinishConditions
  <2>1. /\ st[a] = "working" => st[b] = "idle"
        /\ st[b] = "working" => st[a] = "ready"
        /\ \A u \in Thread : ReadIsTrue(u, a, b)
    BY DEF HandInv, HandshakeInv
  <2>2. s = a => st[b] = "idle"
    BY <1>1, <2>1 DEF ReadIsTrue, HasRead, s
  <2>3. s = b => st[a] = "ready"
    BY <1>1, <2>1 DEF ReadIsTrue, HasRead, s
  <2>4. a # b \/ s # a
    BY <1>1, <2>1, <2>2, <2>3
  <2>5. ASSUME NEW u \in Thread PROVE ReadIsTrue(u, a, b)'
    <3>1. CASE u = t
      BY <1>1, <3>1 DEF ReadIsTrue, HasRead
    <3>2. CASE u # t
      BY ZenonT(60), <1>1, <1>2, <2>1, <2>2, <2>3, <2>4, <3>2
      DEF ReadIsTrue, HasRead, HandInv, PlaceInv, Place, Others
    <3> QED BY <3>1, <3>2
  <2> QED BY <1>1, <1>2, <2>1, <2>2, <2>3, <2>4, <2>5
<1> QED BY <1>3, <1>4

\* The work of a state has succeeded; its finish conditions are still to read.
LEMMA SuccessStep ==
  ASSUME HandInv, NEW t \in Thread, WorkSuccess(t)
  PROVE  PlaceInv' /\ HandshakeInv'
<1> DEFINE s == Current(t)
<1>1. /\ pc[t] = "work" /\ pc'[t] = "finish" /\ st[s] = "working"
      /\ Others(t) /\ cur' = cur /\ todo'[t] = FinishConditions(s)
      /\ st' = [st EXCEPT ![s] = "ready"]
  BY DEF WorkSuccess, Goto, Read, Others, HandInv, TypeOK, PlaceInv, Place
<1>2. /\ \A u \in Thread : u # t => Place(u)'
      /\ \A x \in State : st'[x] = IF x = s THEN "ready" ELSE st[x]
      /\ \A u \in Thread : Current(u)' = Current(u) /\ Current(u) \in State
      /\ \A u \in Thread : u # t => Current(u) # s
  BY <1>1, SetPlace
<1> HIDE DEF s
<1>3. PlaceInv'
  BY <1>1, <1>2 DEF PlaceInv, Place, s
<1>4. HandshakeInv'
  <2> SUFFICES ASSUME NEW a \in State, NEW b \in State, Coupled(a, b)
               PROVE  /\ st'[a] = "working" => st'[b] = "idle"
                      /\ st'[b] = "working" => st'[a] = "ready"
                      /\ \A u \in Thread : ReadIsTrue(u, a, b)'
    BY DEF HandshakeInv, Coupled, Handshake, StartConditions, FinishConditions
  <2>1. /\ st[a] = "working" => st[b] = "idle"
        /\ st[b] = "working" => st[a] = "ready"
        /\ \A u \in Thread : ReadIsTrue(u, a, b)
    BY DEF HandInv, HandshakeInv
  <2>2. a # b \/ s # a
    BY <1>1, <2>1
  <2>3. ASSUME NEW u \in Thread PROVE ReadIsTrue(u, a, b)'
    <3>1. CASE u = t
      BY <1>1, <1>2, <3>1 DEF ReadIsTrue, HasRead, Coupled, Handshake, s
    <3>2. CASE u # t
      BY ZenonT(60), <1>1, <1>2, <2>1, <2>2, <3>2
      DEF ReadIsTrue, HasRead, HandInv, PlaceInv, Place, Others
    <3> QED BY <3>1, <3>2
  <2> QED BY <1>1, <1>2, <2>1, <2>2, <2>3
<1> QED BY <1>3, <1>4

\* A state is over: every one of its finish conditions has been read.
LEMMA FinishStep ==
  ASSUME HandInv, NEW t \in Thread, Finish(t)
  PROVE  PlaceInv' /\ HandshakeInv'
<1> DEFINE s == Current(t)
<1>1. /\ pc[t] = "finish" /\ todo[t] = {} /\ pc'[t] = "success" /\ st[s] = "ready"
      /\ Others(t) /\ cur' = cur /\ todo' = todo
      /\ st' = [st EXCEPT ![s] = "idle"]
  BY DEF Finish, Goto, Others, HandInv, TypeOK, PlaceInv, Place
<1>2. /\ \A u \in Thread : u # t => Place(u)'
      /\ \A x \in State : st'[x] = IF x = s THEN "idle" ELSE st[x]
      /\ \A u \in Thread : Current(u)' = Current(u) /\ Current(u) \in State
      /\ \A u \in Thread : u # t => Current(u) # s
  BY <1>1, SetPlace
<1> HIDE DEF s
<1>3. PlaceInv'
  BY <1>1, <1>2 DEF PlaceInv, Place, s
<1>4. HandshakeInv'
  <2> SUFFICES ASSUME NEW a \in State, NEW b \in State, Coupled(a, b)
               PROVE  /\ st'[a] = "working" => st'[b] = "idle"
                      /\ st'[b] = "working" => st'[a] = "ready"
                      /\ \A u \in Thread : ReadIsTrue(u, a, b)'
    BY DEF HandshakeInv, Coupled, Handshake, StartConditions, FinishConditions
  <2>1. /\ st[a] = "working" => st[b] = "idle"
        /\ st[b] = "working" => st[a] = "ready"
        /\ \A u \in Thread : ReadIsTrue(u, a, b)
    BY DEF HandInv, HandshakeInv
  <2>2. s = a => st[b] = "ready"
    BY <1>1, <2>1 DEF ReadIsTrue, HasRead, s
  <2>3. s = b => st[a] = "idle"
    BY <1>1, <2>1 DEF ReadIsTrue, HasRead, s
  <2>4. ASSUME NEW u \in Thread PROVE ReadIsTrue(u, a, b)'
    <3>1. CASE u = t
      BY <1>1, <3>1 DEF ReadIsTrue, HasRead
    <3>2. CASE u # t
      BY ZenonT(60), <1>1, <1>2, <2>1, <2>2, <2>3, <3>2
      DEF ReadIsTrue, HasRead, HandInv, PlaceInv, Place, Others
    <3> QED BY <3>1, <3>2
  <2> QED BY <1>1, <1>2, <2>1, <2>2, <2>3, <2>4
<1> QED BY <1>3, <1>4

\* Every step of a worker keeps the places and the handshakes.
LEMMA WorkerHand ==
  ASSUME HandInv, NEW t \in Thread, Worker(t)
  PROVE  PlaceInv' /\ HandshakeInv'
<1> USE DEF workerFrame, finalFrame
<1>1. CASE WorkActive(t) \/ WorkAlive(t) \/ WorkRepeat(t) \/ WorkBreak(t)
             \/ Finalize(t)
  <2>1. Others(t) /\ st' = st /\ pc'[t] \notin {"skip", "start", "work", "finish"}
    BY <1>1 DEF WorkActive, WorkAlive, WorkRepeat, WorkBreak, Finalize, Goto,
                Others, HandInv, TypeOK
  <2> QED BY <2>1, AwayStep
<1>2. CASE Advance(t)
  <2>1. Others(t) /\ st' = st /\ pc'[t] \notin {"skip", "start", "work", "finish"}
    BY <1>2 DEF Advance, Goto, Others, HandInv, TypeOK
  <2> QED BY <2>1, AwayStep
<1>3. CASE CheckFinalize(t)
  <2>1. Others(t) /\ st' = st /\ pc'[t] \notin {"skip", "start", "work", "finish"}
    BY <1>3 DEF CheckFinalize, Goto, Others, HandInv, TypeOK
  <2> QED BY <2>1, AwayStep
<1>4. CASE Execute(t)
  <2>1. Others(t) /\ st' = st /\ cur' = cur
    BY <1>4 DEF Execute, Goto, Read, Others, HandInv, TypeOK
  <2>2. \/ /\ pc'[t] = "skip" /\ st[Current(t)] = "idle"
        \/ /\ pc'[t] = "work" /\ st[Current(t)] = "working"
        \/ /\ pc'[t] = "finish" /\ st[Current(t)] = "ready"
           /\ todo'[t] = FinishConditions(Current(t))
    BY <1>4 DEF Execute, Goto, Read, HandInv, TypeOK
  <2> QED BY <2>1, <2>2, BeginRead
<1>5. CASE SkipNone(t)
  <2>1. Others(t) /\ st' = st /\ cur' = cur /\ st[Current(t)] = "idle"
    BY <1>5 DEF SkipNone, Goto, Read, Others, HandInv, TypeOK, PlaceInv, Place
  <2>2. pc'[t] = "start" /\ todo'[t] = StartConditions(Current(t))
    BY <1>5 DEF SkipNone, Goto, Read, HandInv, TypeOK
  <2> QED BY <2>1, <2>2, BeginRead
<1>6. CASE SkipRead(t)
  <2>1. PICK c \in todo[t] :
          IF Holds(c)
          THEN /\ Goto(t, "skip", IF todo[t] = {c} THEN "success" ELSE "skip")
               /\ Read(t, todo[t] \ {c})
          ELSE /\ Goto(t, "skip", "start")
               /\ Read(t, StartConditions(Current(t)))
    BY <1>6 DEF SkipRead
  <2>2. Others(t) /\ st' = st /\ cur' = cur /\ st[Current(t)] = "idle"
    BY <1>6, <2>1 DEF SkipRead, Goto, Read, Others, HandInv, TypeOK, PlaceInv, Place
  <2>3. CASE Holds(c) /\ todo[t] = {c}
    BY <2>1, <2>2, <2>3, AwayStep DEF Goto, HandInv, TypeOK
  <2>4. CASE Holds(c) /\ todo[t] # {c}
    BY <2>1, <2>2, <2>4, BeginRead DEF Goto, HandInv, TypeOK
  <2>5. CASE ~Holds(c)
    BY <2>1, <2>2, <2>5, BeginRead DEF Goto, Read, HandInv, TypeOK
  <2> QED BY <2>3, <2>4, <2>5
<1>7. ASSUME NEW at \in {"start", "finish"}, ConditionRead(t, at)
      PROVE  PlaceInv' /\ HandshakeInv'
  <2>1. PICK c \in todo[t] :
          /\ Goto(t, at, IF Holds(c) THEN at ELSE "execute")
          /\ Read(t, IF Holds(c) THEN todo[t] \ {c} ELSE {})
    BY <1>7 DEF ConditionRead
  <2>2. Others(t) /\ st' = st /\ cur' = cur
    BY <1>7, <2>1 DEF ConditionRead, Goto, Read, Others, HandInv, TypeOK
  <2>3. CASE Holds(c)
    <3>1. pc'[t] = pc[t] /\ todo'[t] = todo[t] \ {c}
      BY <2>1, <2>3 DEF Goto, Read, HandInv, TypeOK
    <3> QED BY <2>2, <2>3, <3>1, ReadOn
  <2>4. CASE ~Holds(c)
    <3>1. pc'[t] = "execute"
      BY <2>1, <2>4 DEF Goto, HandInv, TypeOK
    <3> QED BY <2>2, <3>1, AwayStep
  <2> QED BY <2>3, <2>4
<1> QED
  BY <1>1, <1>2, <1>3, <1>4, <1>5, <1>6, <1>7, StartStep, SuccessStep, FinishStep
  DEF Worker, StartRead, FinishRead

\* Nothing that they are about changes.
LEMMA StillHand ==
  ASSUME HandInv, UNCHANGED <<st, pc, cur, todo>>
  PROVE  PlaceInv' /\ HandshakeInv'
<1>1. \A t \in Thread : Current(t)' = Current(t)
  BY DEF Current
<1>2. PlaceInv'
  BY <1>1 DEF HandInv, PlaceInv, Place
<1>3. ASSUME NEW t \in Thread, NEW a, NEW b, ReadIsTrue(t, a, b)
      PROVE  ReadIsTrue(t, a, b)'
  BY <1>1, <1>3 DEF ReadIsTrue, HasRead
<1>4. HandshakeInv'
  <2> SUFFICES ASSUME NEW a \in State, NEW b \in State, Coupled(a, b)
               PROVE  /\ st'[a] = "working" => st'[b] = "idle"
                      /\ st'[b] = "working" => st'[a] = "ready"
                      /\ \A u \in Thread : ReadIsTrue(u, a, b)'
    BY DEF HandshakeInv, Coupled, Handshake, StartConditions, FinishConditions
  <2> QED BY <1>3 DEF HandInv, HandshakeInv
<1> QED BY <1>2, <1>4

\* The owner does not set states; a thread that it starts has read nothing.
LEMMA OwnerHand ==
  ASSUME HandInv, OwnerInv, Owner
  PROVE  PlaceInv' /\ HandshakeInv'
<1> USE DEF ownerFrame
<1>1. \A k \in 1..Len(ThreadOrder) : ThreadOrder[k] \in Thread
  BY ThreadAssumption, ElementOfSeq
<1>2. CASE StartThread /\ next <= Len(ThreadOrder)
  <2> DEFINE t == ThreadOrder[next]
  <2>1. t \in Thread
    BY <1>1, <1>2, ThreadAssumption, LenProperties DEF HandInv, TypeOK
  <2>2. Others(t) /\ st' = st /\ pc'[t] = "top"
    BY <1>2, <2>1 DEF StartThread, Others, HandInv, TypeOK
  <2> QED BY <2>1, <2>2, AwayStep
<1>3. CASE ~(StartThread /\ next <= Len(ThreadOrder))
  <2>1. UNCHANGED <<st, pc, cur, todo>>
    BY <1>3 DEF Owner, StartThread, StopAsync, Stop, StopFinalized, StopThread, JoinThread
  <2> QED BY <2>1, StillHand
<1> QED BY <1>2, <1>3

-----------------------------------------------------------------------------
(* Finalization *)

\* Only pc, cur, todo and fin of the thread itself change.
Alone(t) ==
  /\ \A u \in Thread : u # t => pc'[u] = pc[u] /\ fin'[u] = fin[u]
  /\ UNCHANGED <<isAlive, main, next, active>>

\* A step of t that runs no Finalize().
LEMMA FinalKept ==
  ASSUME FinalInv, NEW t \in Thread, Alone(t), finalized' = finalized,
         pc[t] \in Outside /\ ~isAlive => pc'[t] \in Outside,
         pc'[t] \in {"final", "finalize"} => ~isAlive,
         pc'[t] = "finalize" => fin'[t] <= Len(StatesOf[t])
  PROVE  FinalInv'
<1>1. \A u \in Thread : pc'[u] \in {"final", "finalize"} => ~isAlive
  BY DEF FinalInv, Alone
<1>2. \A u \in Thread : pc'[u] = "finalize" => fin'[u] <= Len(StatesOf[u])
  BY DEF FinalInv, Alone
<1>3. ASSUME NEW j \in 1..Len(finalized), NEW u \in Thread,
             \E k \in 1..Len(StatesOf[u]) : StatesOf[u][k] = finalized[j]
      PROVE  ~isAlive /\ pc'[u] \in Outside
  <2>1. ~isAlive /\ pc[u] \in Outside
    BY <1>3 DEF FinalInv
  <2> QED BY <2>1 DEF Alone
<1> QED BY <1>1, <1>2, <1>3 DEF FinalInv, Alone

\* Every step of a worker keeps the rules of finalization.
LEMMA WorkerFinal ==
  ASSUME TypeOK, FinalInv, NEW t \in Thread, Worker(t)
  PROVE  FinalInv'
<1> USE DEF workerFrame, finalFrame, Goto, Outside
<1>1. CASE WorkActive(t) \/ WorkAlive(t)
  <2>1. Alone(t)
    BY <1>1 DEF WorkActive, WorkAlive, Alone, TypeOK
  <2>2. /\ pc[t] \in Outside /\ ~isAlive => pc'[t] \in Outside
        /\ pc'[t] \in {"final", "finalize"} => ~isAlive
        /\ pc'[t] # "finalize" /\ finalized' = finalized
    BY <1>1 DEF WorkActive, WorkAlive, TypeOK
  <2> QED BY <2>1, <2>2, FinalKept
<1>2. CASE Execute(t) \/ SkipNone(t) \/ SkipRead(t) \/ StartRead(t) \/ Start(t)
             \/ WorkSuccess(t) \/ WorkRepeat(t) \/ WorkBreak(t)
             \/ FinishRead(t) \/ Finish(t) \/ Advance(t)
  <2>1. /\ \A u \in Thread : u # t => pc'[u] = pc[u]
        /\ fin' = fin /\ finalized' = finalized
        /\ UNCHANGED <<isAlive, main, next, active>>
        /\ pc[t] \notin Outside /\ pc'[t] \notin {"final", "finalize"}
    BY <1>2 DEF Execute, SkipNone, SkipRead, StartRead, Start, WorkSuccess,
         WorkRepeat, WorkBreak, FinishRead, Finish, Advance, ConditionRead, TypeOK
  <2> QED BY <2>1, FinalKept DEF Alone
<1>3. CASE CheckFinalize(t)
  <2>1. Alone(t) /\ finalized' = finalized /\ ~isAlive
    BY <1>3 DEF CheckFinalize, Alone, TypeOK, FinalInv
  <2>2. Len(StatesOf[t]) \in Nat
    BY ThreadAssumption, LenProperties
  <2>3. pc'[t] \in Outside /\ (pc'[t] = "finalize" => fin'[t] <= Len(StatesOf[t]))
    BY <1>3, <2>2 DEF CheckFinalize, TypeOK
  <2> QED BY <2>1, <2>3, FinalKept
<1>4. CASE Finalize(t)
  <2>1. /\ Alone(t) /\ ~isAlive /\ pc'[t] = "final"
        /\ fin[t] \in 1..Len(StatesOf[t])
    BY <1>4, ThreadAssumption, LenProperties DEF Finalize, Alone, TypeOK, FinalInv
  <2>2. /\ finalized \in Seq(State) /\ StatesOf[t][fin[t]] \in State
        /\ finalized' = Append(finalized, StatesOf[t][fin[t]])
    BY <1>4, <2>1, ThreadAssumption, ElementOfSeq DEF Finalize, TypeOK
  <2>3. /\ Len(finalized') = Len(finalized) + 1 /\ Len(finalized) \in Nat
        /\ \A i \in 1..Len(finalized) : finalized'[i] = finalized[i]
        /\ finalized'[Len(finalized) + 1] = StatesOf[t][fin[t]]
    BY <2>2, AppendProperties, LenProperties
  <2>4. ASSUME NEW j \in 1..Len(finalized'), NEW u \in Thread,
               NEW k \in 1..Len(StatesOf[u]), StatesOf[u][k] = finalized'[j]
        PROVE  pc'[u] \in Outside
    <3>1. CASE j \in 1..Len(finalized)
      BY <2>1, <2>3, <2>4, <3>1 DEF FinalInv, Alone
    <3>2. CASE j = Len(finalized) + 1
      BY <2>1, <2>3, <2>4, <3>2, OwnerAssumption
    <3> QED BY <2>3, <3>1, <3>2
  <2> QED BY <2>1, <2>4 DEF FinalInv, Alone
<1> QED BY <1>1, <1>2, <1>3, <1>4 DEF Worker

\* The owner never raises m_isAlive again, and starts threads before it falls.
LEMMA OwnerFinal ==
  ASSUME TypeOK, FinalInv, Owner
  PROVE  FinalInv'
<1> USE DEF ownerFrame
<1>1. /\ fin' = fin /\ finalized' = finalized
      /\ ~isAlive => ~isAlive'
      /\ main' = "start" => isAlive'
      /\ main' \in {"wait_finalize", "stop_thread", "join", "stopped"} => ~isAlive'
  BY DEF Owner, StartThread, StopAsync, Stop, StopFinalized, StopThread,
         JoinThread, FinalInv, TypeOK
<1>2. \A u \in Thread : pc'[u] = pc[u] \/ pc'[u] = "top"
  BY DEF Owner, StartThread, StopAsync, Stop, StopFinalized, StopThread,
         JoinThread, TypeOK
<1> QED BY <1>1, <1>2 DEF FinalInv, Outside

\* There are finitely many threads.
LEMMA FiniteThreads == IsFiniteSet(Thread)
<1>1. ThreadOrder \in [1..Len(ThreadOrder) -> Thread] /\ Len(ThreadOrder) \in Nat
  BY ThreadAssumption, LenProperties
<1>2. ThreadOrder \in Surjection(1..Len(ThreadOrder), Thread)
  BY <1>1, ThreadAssumption DEF Surjection
<1>3. IsFiniteSet(1..Len(ThreadOrder))
  BY <1>1, FS_Interval
<1> QED BY <1>2, <1>3, FS_Surjection

\* A step that takes no entry and runs no Finalize().
LEMMA ListKept ==
  ASSUME ListInv, UNCHANGED <<finalize, finalized>>,
         \A u \in Thread : /\ pc'[u] = "finalize" <=> pc[u] = "finalize"
                           /\ pc[u] = "finalize" => fin'[u] = fin[u]
  PROVE  ListInv'
<1>1. Finalizing' = Finalizing /\ Taken' = Taken
  BY DEF Finalizing, Taken
<1>2. \A u \in Finalizing : fin'[u] = fin[u]
  BY DEF Finalizing
<1> QED BY <1>1, <1>2 DEF ListInv

\* CheckFinalize takes the entry at the front of the list for its state.
LEMMA TakeStep ==
  ASSUME TypeOK, ListInv, NEW t \in Thread, pc[t] = "final",
         pc' = [pc EXCEPT ![t] = "finalize"], UNCHANGED <<fin, finalized>>,
         finalize # << >>, Head(finalize) = StatesOf[t][fin[t]],
         finalize' = Tail(finalize)
  PROVE  ListInv'
<1>1. /\ finalize \in Seq(State) /\ Len(finalize) \in Nat \ {0}
      /\ Len(FinalizeList) \in Nat /\ Len(finalized) \in Nat
  BY ConditionAssumption, EmptySeq, LenProperties DEF TypeOK
<1>2. /\ Len(finalize') = Len(finalize) - 1
      /\ \A i \in 1..Len(finalize') : finalize'[i] = finalize[i + 1]
      /\ Head(finalize) = finalize[1]
  BY <1>1, HeadTailProperties
<1>3. Taken' = Taken + 1 /\ Taken \in Nat
  BY <1>1, <1>2 DEF Taken, ListInv
<1>4. Finalizing' = Finalizing \cup {t} /\ t \notin Finalizing
  BY DEF Finalizing, TypeOK
<1>5. IsFiniteSet(Finalizing)
  BY FiniteThreads, FS_Subset DEF Finalizing
<1>6. Cardinality(Finalizing') = Cardinality(Finalizing) + 1
      /\ Cardinality(Finalizing) \in Nat
  BY <1>4, <1>5, FS_AddElement, FS_CardinalityType
<1>7. Len(finalized') + Cardinality(Finalizing') = Taken'
  BY <1>1, <1>3, <1>6 DEF ListInv
<1>8. \A k \in 1..Len(finalize') : finalize'[k] = FinalizeList[Taken' + k]
  <2> SUFFICES ASSUME NEW k \in 1..Len(finalize')
               PROVE  finalize'[k] = FinalizeList[Taken' + k]
    OBVIOUS
  <2>1. k + 1 \in 1..Len(finalize) /\ finalize'[k] = finalize[k + 1]
    BY <1>1, <1>2
  <2>2. finalize[k + 1] = FinalizeList[Taken + (k + 1)]
    BY <2>1 DEF ListInv
  <2>3. Taken + (k + 1) = Taken' + k
    BY <1>3
  <2> QED BY <2>1, <2>2, <2>3
<1>9. FinalizeList[Taken'] = StatesOf[t][fin[t]]
  <2>1. finalize[1] = FinalizeList[Taken + 1]
    BY <1>1 DEF ListInv
  <2> QED BY <1>2, <1>3, <2>1
<1>10. \A k \in 1..Taken' :
         \/ \E j \in 1..Len(finalized') : finalized'[j] = FinalizeList[k]
         \/ \E u \in Finalizing' : StatesOf[u][fin'[u]] = FinalizeList[k]
  <2> SUFFICES ASSUME NEW k \in 1..Taken'
               PROVE  \/ \E j \in 1..Len(finalized) : finalized[j] = FinalizeList[k]
                      \/ \E u \in Finalizing' : StatesOf[u][fin[u]] = FinalizeList[k]
    OBVIOUS
  <2>1. CASE k \in 1..Taken
    BY <1>4, <2>1 DEF ListInv
  <2>2. CASE k = Taken'
    BY <1>4, <1>9, <2>2
  <2> QED BY <1>3, <2>1, <2>2
<1>11. Len(finalize') <= Len(FinalizeList)
  BY <1>1, <1>2 DEF ListInv
<1> QED BY <1>7, <1>8, <1>10, <1>11 DEF ListInv

\* Finalize() of a state has run.
LEMMA FinalizeStep ==
  ASSUME TypeOK, FinalInv, ListInv, NEW t \in Thread, Finalize(t)
  PROVE  ListInv'
<1> USE DEF workerFrame
<1>1. /\ pc[t] = "finalize" /\ pc' = [pc EXCEPT ![t] = "final"]
      /\ finalize' = finalize /\ fin' = [fin EXCEPT ![t] = fin[t] + 1]
      /\ finalized' = Append(finalized, StatesOf[t][fin[t]])
  BY DEF Finalize, Goto
<1>2. fin[t] \in 1..Len(StatesOf[t]) /\ StatesOf[t] \in Seq(State)
  <2>1. StatesOf[t] \in Seq(State) /\ Len(StatesOf[t]) \in Nat
    BY ThreadAssumption, LenProperties
  <2>2. fin[t] <= Len(StatesOf[t])
    BY <1>1 DEF FinalInv
  <2> QED BY <2>1, <2>2 DEF TypeOK
<1>3. StatesOf[t][fin[t]] \in State /\ finalized \in Seq(State)
  BY <1>2, ElementOfSeq DEF TypeOK
<1>4. /\ Len(finalized') = Len(finalized) + 1 /\ Len(finalized) \in Nat
      /\ \A i \in 1..Len(finalized) : finalized'[i] = finalized[i]
      /\ finalized'[Len(finalized) + 1] = StatesOf[t][fin[t]]
  BY <1>1, <1>3, AppendProperties, LenProperties
<1>5. Finalizing' = Finalizing \ {t} /\ t \in Finalizing
  BY <1>1 DEF Finalizing, TypeOK
<1>6. IsFiniteSet(Finalizing)
  BY FiniteThreads, FS_Subset DEF Finalizing
<1>7. Cardinality(Finalizing') = Cardinality(Finalizing) - 1
      /\ Cardinality(Finalizing) \in Nat
  BY <1>5, <1>6, FS_RemoveElement, FS_CardinalityType
<1>8. Taken' = Taken
  BY <1>1 DEF Taken
<1>9. Taken \in Int
  BY <1>4, <1>7 DEF ListInv
<1>10. Len(finalized') + Cardinality(Finalizing') = Taken'
  BY <1>4, <1>7, <1>8, <1>9 DEF ListInv
<1>11. \A u \in Finalizing' : u \in Finalizing /\ fin'[u] = fin[u]
  BY <1>1, <1>5 DEF TypeOK, Finalizing
<1>12. \A k \in 1..Taken' :
         \/ \E j \in 1..Len(finalized') : finalized'[j] = FinalizeList[k]
         \/ \E u \in Finalizing' : StatesOf[u][fin'[u]] = FinalizeList[k]
  <2> SUFFICES ASSUME NEW k \in 1..Taken
               PROVE  \/ \E j \in 1..Len(finalized') : finalized'[j] = FinalizeList[k]
                      \/ \E u \in Finalizing' : StatesOf[u][fin'[u]] = FinalizeList[k]
    BY <1>8
  <2>1. CASE \E j \in 1..Len(finalized) : finalized[j] = FinalizeList[k]
    BY <1>4, <2>1
  <2>2. CASE \E u \in Finalizing : StatesOf[u][fin[u]] = FinalizeList[k]
    <3>1. PICK u \in Finalizing : StatesOf[u][fin[u]] = FinalizeList[k]
      BY <2>2
    <3>2. CASE u = t
      BY <1>4, <3>1, <3>2
    <3>3. CASE u # t
      BY <1>5, <1>11, <3>1, <3>3
    <3> QED BY <3>2, <3>3
  <2> QED BY <2>1, <2>2 DEF ListInv
<1> QED BY <1>1, <1>8, <1>10, <1>12 DEF ListInv

\* Every step of a worker keeps the account of the finalize list.
LEMMA WorkerList ==
  ASSUME TypeOK, FinalInv, ListInv, NEW t \in Thread, Worker(t)
  PROVE  ListInv'
<1> USE DEF workerFrame, finalFrame, Goto
<1>1. CASE WorkActive(t) \/ WorkAlive(t)
  BY <1>1, ListKept DEF WorkActive, WorkAlive, TypeOK
<1>2. CASE Execute(t) \/ SkipNone(t) \/ SkipRead(t) \/ StartRead(t) \/ Start(t)
             \/ WorkSuccess(t) \/ WorkRepeat(t) \/ WorkBreak(t)
             \/ FinishRead(t) \/ Finish(t) \/ Advance(t)
  <2>1. /\ \A u \in Thread : u # t => pc'[u] = pc[u]
        /\ UNCHANGED <<fin, finalize, finalized>>
        /\ pc[t] # "finalize" /\ pc'[t] # "finalize"
    BY <1>2 DEF Execute, SkipNone, SkipRead, StartRead, Start, WorkSuccess,
         WorkRepeat, WorkBreak, FinishRead, Finish, Advance, ConditionRead, TypeOK
  <2> QED BY <2>1, ListKept
<1>3. CASE CheckFinalize(t)
  <2>1. CASE /\ ~(fin[t] > Len(StatesOf[t]))
             /\ finalize # << >> /\ Head(finalize) = StatesOf[t][fin[t]]
    BY <1>3, <2>1, TakeStep DEF CheckFinalize
  <2>2. CASE ~(/\ ~(fin[t] > Len(StatesOf[t]))
               /\ finalize # << >> /\ Head(finalize) = StatesOf[t][fin[t]])
    <3>1. /\ \A u \in Thread : u # t => pc'[u] = pc[u] /\ fin'[u] = fin[u]
          /\ UNCHANGED <<finalize, finalized>>
          /\ pc[t] # "finalize" /\ pc'[t] # "finalize"
      BY <1>3, <2>2 DEF CheckFinalize, TypeOK
    <3> QED BY <3>1, ListKept
  <2> QED BY <2>1, <2>2
<1>4. CASE Finalize(t)
  BY <1>4, FinalizeStep
<1> QED BY <1>1, <1>2, <1>3, <1>4 DEF Worker

\* The owner starts no thread that runs a Finalize().
LEMMA OwnerList ==
  ASSUME TypeOK, FinalInv, ListInv, Owner
  PROVE  ListInv'
<1> USE DEF ownerFrame
<1>1. UNCHANGED <<fin, finalize, finalized>>
  BY DEF Owner, StartThread, StopAsync, Stop, StopFinalized, StopThread, JoinThread
<1>2. \A u \in Thread : pc'[u] = "finalize" <=> pc[u] = "finalize"
  BY DEF Owner, StartThread, StopAsync, Stop, StopFinalized, StopThread,
         JoinThread, TypeOK, FinalInv
<1> QED BY <1>1, <1>2, ListKept

\* A thread that is done stays done, and no entry comes back.
LEMMA WorkerJoin ==
  ASSUME TypeOK, OwnerInv, JoinInv, NEW t \in Thread, Worker(t)
  PROVE  JoinInv' /\ OwnerInv'
<1> USE DEF workerFrame, finalFrame, Goto
<1>1. UNCHANGED <<main, next>>
  BY DEF Worker, WorkActive, WorkAlive, Execute, SkipNone, SkipRead, StartRead,
         Start, WorkSuccess, WorkRepeat, WorkBreak, FinishRead, Finish, Advance,
         ConditionRead, CheckFinalize, Finalize
<1>2. \A u \in Thread : pc[u] = "done" => pc'[u] = "done"
  BY DEF Worker, WorkActive, WorkAlive, Execute, SkipNone, SkipRead, StartRead,
         Start, WorkSuccess, WorkRepeat, WorkBreak, FinishRead, Finish, Advance,
         ConditionRead, CheckFinalize, Finalize, TypeOK
<1>3. finalize = << >> => finalize' = << >>
  BY DEF Worker, WorkActive, WorkAlive, Execute, SkipNone, SkipRead, StartRead,
         Start, WorkSuccess, WorkRepeat, WorkBreak, FinishRead, Finish, Advance,
         ConditionRead, CheckFinalize, Finalize
<1>4. next - 1 <= Len(ThreadOrder) /\ \A k \in 1..Len(ThreadOrder) : ThreadOrder[k] \in Thread
  BY ThreadAssumption, LenProperties, ElementOfSeq DEF TypeOK
<1>5. ASSUME main \in {"stop_thread", "join"}, NEW i \in 1..(next - 1)
      PROVE  pc'[ThreadOrder[i]] = "done"
  <2>1. ThreadOrder[i] \in Thread
    BY <1>4, ThreadAssumption, LenProperties DEF TypeOK
  <2> QED BY <1>2, <1>5, <2>1 DEF JoinInv
<1> QED BY <1>1, <1>2, <1>3, <1>5 DEF JoinInv, OwnerInv

\* Stop goes on to the next thread when the one before it is done.
LEMMA OwnerJoin ==
  ASSUME TypeOK, OwnerInv, JoinInv, Owner
  PROVE  JoinInv'
<1> USE DEF ownerFrame
<1>1. Len(ThreadOrder) \in Nat
  BY ThreadAssumption, LenProperties
<1>2. CASE StartThread
  BY <1>2 DEF StartThread, JoinInv
<1>3. CASE StopAsync \/ Stop
  BY <1>3 DEF StopAsync, Stop, JoinInv
<1>4. CASE StopFinalized
  BY <1>4 DEF StopFinalized, JoinInv
<1>5. CASE StopThread
  <2>1. CASE next <= Len(ThreadOrder)
    BY <1>5, <2>1 DEF StopThread, JoinInv
  <2>2. CASE ~(next <= Len(ThreadOrder))
    <3>1. next - 1 = Len(ThreadOrder)
      BY <1>1, <2>2 DEF TypeOK
    <3>2. \A u \in Thread : pc[u] = "done"
      BY <1>5, <3>1, ThreadAssumption DEF StopThread, JoinInv
    <3> QED BY <1>5, <2>2, <3>2 DEF StopThread, JoinInv
  <2> QED BY <2>1, <2>2
<1>6. CASE JoinThread
  <2>1. /\ \A i \in 1..(next - 1) : pc[ThreadOrder[i]] = "done"
        /\ pc[ThreadOrder[next]] = "done" /\ finalize = << >>
        /\ next' = next + 1 /\ main' = "stop_thread" /\ UNCHANGED <<pc, finalize>>
    BY <1>6 DEF JoinThread, JoinInv
  <2>2. 1..(next' - 1) = 1..(next - 1) \cup {next}
    BY <1>1, <2>1 DEF TypeOK
  <2> QED BY <2>1, <2>2 DEF JoinInv
<1> QED BY <1>2, <1>3, <1>4, <1>5, <1>6 DEF Owner

-----------------------------------------------------------------------------

\* Every step keeps the invariant.
LEMMA NextWorker == WorkerInv /\ [Next]_vars => WorkerInv'
<1> SUFFICES ASSUME WorkerInv, [Next]_vars PROVE WorkerInv'
  OBVIOUS
<1> USE DEF WorkerInv
<1>1. HandInv
  BY DEF HandInv
<1>2. CASE Owner
  BY <1>1, <1>2, OwnerTypes, OwnerHand, OwnerFinal, OwnerList, OwnerJoin
<1>3. ASSUME NEW t \in Thread, Worker(t) PROVE WorkerInv'
  BY <1>1, <1>3, WorkerTypes, WorkerHand, WorkerFinal, WorkerList, WorkerJoin
<1>4. CASE UNCHANGED vars
  <2>1. TypeOK' /\ OwnerInv' /\ FinalInv' /\ JoinInv'
    BY <1>4 DEF vars, TypeOK, OwnerInv, FinalInv, JoinInv
  <2>2. PlaceInv' /\ HandshakeInv'
    BY <1>1, <1>4, StillHand DEF vars
  <2>3. ListInv'
    BY <1>4, ListKept DEF vars
  <2> QED BY <2>1, <2>2, <2>3
<1> QED BY <1>2, <1>3, <1>4 DEF Next

\* The inductive invariant holds at all times.
LEMMA WorkerInvariant == Spec => []WorkerInv
BY InitWorker, NextWorker, PTL DEF Spec

\* m_currentState never leaves the bounds of m_states, and every index, flag
\* and value keeps its type.
THEOREM TypeCorrect == Spec => []TypeOK
<1>1. WorkerInv => TypeOK
  BY DEF WorkerInv
<1> QED BY <1>1, WorkerInvariant, PTL

\* The conditions of two states that shake hands exclude each other's work,
\* for any number of threads and states, although every condition is read in a
\* step of its own.
THEOREM HandshakesExclude == Spec => []HandshakeExcludes
<1>1. WorkerInv => HandshakeExcludes
  BY DEF WorkerInv, HandshakeInv, Coupled, HandshakeExcludes
<1> QED BY <1>1, WorkerInvariant, PTL

\* When Stop() returns, all threads have ended and each entry of the finalize
\* list has been finalized, as often as it is in the list.
THEOREM StopIsClean == Spec => []StoppedIsClean
<1>1. WorkerInv => StoppedIsClean
  <2> SUFFICES ASSUME WorkerInv, main = "stopped" PROVE StoppedIsClean
    BY DEF StoppedIsClean
  <2>1. (\A t \in Thread : pc[t] = "done") /\ finalize = << >>
    BY DEF WorkerInv, JoinInv
  <2>2. Finalizing = {}
    BY <2>1 DEF Finalizing
  <2>3. Cardinality(Finalizing) = 0
    BY <2>2, FS_EmptySet, Zenon
  <2>4. Taken = Len(FinalizeList) /\ Len(FinalizeList) \in Nat /\ Len(finalized) \in Nat
    BY <2>1, EmptySeq, LenProperties, ConditionAssumption DEF Taken, WorkerInv, TypeOK
  <2>5. Len(finalized) = Len(FinalizeList)
    BY <2>3, <2>4 DEF WorkerInv, ListInv
  <2> QED BY <2>1, <2>2, <2>4, <2>5 DEF WorkerInv, ListInv, StoppedIsClean
<1> QED BY <1>1, WorkerInvariant, PTL

\* From the finalization of a state on, its thread sets no state any more, and
\* no state is finalized before the stop was asked for.
THEOREM FinalizedStatesRest == Spec => NoWorkAfterFinalize
<1> DEFINE Rests ==
      \A t \in Thread : \A k \in 1..Len(StatesOf[t]) :
        (\E j \in 1..Len(finalized) : finalized[j] = StatesOf[t][k])
          => st'[StatesOf[t][k]] = st[StatesOf[t][k]] /\ ~isAlive
<1>1. WorkerInv /\ [Next]_vars => [Rests]_vars
  <2> SUFFICES ASSUME WorkerInv, Next,
                      NEW t \in Thread, NEW k \in 1..Len(StatesOf[t]),
                      NEW j \in 1..Len(finalized), finalized[j] = StatesOf[t][k]
               PROVE  st'[StatesOf[t][k]] = st[StatesOf[t][k]] /\ ~isAlive
    OBVIOUS
  <2>1. ~isAlive /\ pc[t] \in Outside
    BY DEF WorkerInv, FinalInv
  <2>2. CASE Owner
    BY <2>1, <2>2 DEF Owner, StartThread, StopAsync, Stop, StopFinalized,
                      StopThread, JoinThread, ownerFrame
  <2>3. ASSUME NEW u \in Thread, Worker(u)
        PROVE  st'[StatesOf[t][k]] = st[StatesOf[t][k]]
    <3>1. \/ st' = st
          \/ /\ pc[u] \in {"start", "work", "finish"}
             /\ \E v : st' = [st EXCEPT ![Current(u)] = v]
      BY <2>3 DEF Worker, WorkActive, WorkAlive, Execute, SkipNone, SkipRead,
           StartRead, Start, WorkSuccess, WorkRepeat, WorkBreak, FinishRead,
           Finish, Advance, ConditionRead, CheckFinalize, Finalize, Goto
    <3>2. CASE /\ pc[u] \in {"start", "work", "finish"}
               /\ \E v : st' = [st EXCEPT ![Current(u)] = v]
      <4>1. u # t
        BY <2>1, <3>2 DEF Outside
      <4>2. StatesOf[t][k] # Current(u)
        BY <4>1, CurrentFacts DEF WorkerInv
      <4>3. StatesOf[t][k] \in State
        BY ThreadAssumption, ElementOfSeq
      <4> QED BY <3>2, <4>2, <4>3 DEF WorkerInv, TypeOK
    <3> QED BY <3>1, <3>2
  <2> QED BY <2>1, <2>2, <2>3 DEF Next
<1> QED BY <1>1, WorkerInvariant, PTL DEF Spec, NoWorkAfterFinalize
=============================================================================
