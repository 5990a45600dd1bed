-------------------------- MODULE CmdManager_proofs --------------------------
(***************************************************************************)
(* Proofs about CmdManager, for any set of commands, any history size and  *)
(* any bound on the queue.                                                 *)
(***************************************************************************)
EXTENDS CmdManager, SequenceTheorems, TLAPS

Entry == Command \cup {NoCommand}

-----------------------------------------------------------------------------
(* The two ways in which the history is cut *)

\* Two intervals from 1 are equal only if they are equally long.
LEMMA IntervalLength ==
  ASSUME NEW m \in Nat, NEW n \in Nat, 1..m = 1..n
  PROVE  m = n
<1>1. m \in 1..m \/ m = 0
  OBVIOUS
<1>2. n \in 1..n \/ n = 0
  OBVIOUS
<1>3. m <= n
  BY <1>1
<1>4. n <= m
  BY <1>2
<1> QED BY <1>3, <1>4

\* What resize(m_historyPC + 1) leaves.
LEMMA TruncatedFacts ==
  ASSUME NEW h \in Seq(Entry), NEW pc \in Int, pc >= None
  PROVE  /\ Truncated(h, pc) \in Seq(Entry)
         /\ Len(Truncated(h, pc)) = pc + 1
         /\ \A i \in 1..(pc + 1) :
              Truncated(h, pc)[i] = IF i <= Len(h) THEN h[i] ELSE NoCommand
<1> DEFINE t == Truncated(h, pc)
<1>1. pc + 1 \in Nat
  BY DEF None
<1>2. t \in [1..(pc + 1) -> Entry]
  <2>1. ASSUME NEW i \in 1..(pc + 1)
        PROVE  (IF i <= Len(h) THEN h[i] ELSE NoCommand) \in Entry
    <3>1. CASE i <= Len(h)
      <4>1. i \in 1..Len(h)
        BY <3>1, <1>1, LenProperties
      <4>2. h[i] \in Entry
        BY <4>1, ElementOfSeq
      <4> QED BY <3>1, <4>2
    <3>2. CASE ~(i <= Len(h))
      BY <3>2 DEF Entry
    <3> QED BY <3>1, <3>2
  <2> QED BY <2>1 DEF Truncated
<1>3. t \in Seq(Entry)
  BY <1>1, <1>2, SeqDef
<1>4. Len(t) = pc + 1
  <2>1. DOMAIN t = 1..Len(t) /\ Len(t) \in Nat
    BY <1>3, LenProperties
  <2>2. DOMAIN t = 1..(pc + 1)
    BY DEF Truncated
  <2> HIDE DEF t
  <2> QED BY <2>1, <2>2, <1>1, IntervalLength
<1>5. \A i \in 1..(pc + 1) : t[i] = IF i <= Len(h) THEN h[i] ELSE NoCommand
  BY DEF Truncated
<1> QED BY <1>3, <1>4, <1>5

\* What the private Execute keeps of the history.
LEMMA TrimFacts ==
  ASSUME NEW h \in Seq(Entry), NEW pc \in Int, pc >= None,
         pc # None => pc < Len(h)
  PROVE  /\ TrimUndone(h, pc) \in Seq(Entry)
         /\ Len(TrimUndone(h, pc)) = IF pc = None THEN Len(h) ELSE pc + 1
         /\ \A i \in 1..Len(TrimUndone(h, pc)) : TrimUndone(h, pc)[i] = h[i]
<1>1. CASE pc = None
  BY <1>1, LenProperties DEF TrimUndone
<1>2. CASE pc # None
  <2>1. pc + 1 \in 1..Len(h)
    BY <1>2, LenProperties DEF None
  <2>2. \A i \in 1..(pc + 1) : h[i] \in Entry
    BY <2>1, LenProperties, ElementOfSeq
  <2>3. /\ SubSeq(h, 1, pc + 1) \in Seq(Entry)
        /\ Len(SubSeq(h, 1, pc + 1)) = IF 1 <= pc + 1 THEN pc + 1 - 1 + 1 ELSE 0
        /\ \A i \in 1..(pc + 1 - 1 + 1) : SubSeq(h, 1, pc + 1)[i] = h[1 + i - 1]
    BY <2>2, <2>1, SubSeqProperties
  <2> QED BY <1>2, <2>1, <2>3, LenProperties DEF TrimUndone
<1> QED BY <1>1, <1>2

-----------------------------------------------------------------------------
(* The inductive invariant, in two parts: the history, which DoCmd and the  *)
(* truncation change, and the queue and the calls, which they leave alone.  *)

HistoryOK ==
  /\ history \in Seq(Entry)
  /\ historyPC \in Int /\ historyPC >= None
  /\ lastCmd \in Entry
  /\ freed \subseteq Command
  /\ applied \subseteq Command
  /\ fault \in Faults
  /\ overflowed \in BOOLEAN
  /\ PCNamesACommand

\* A request that is an execution carries a command, and a synchronous
\* Execute has one to run.
CallsOK ==
  /\ commands \in Seq(Request)
  /\ mutex \in {"free", "update", "sync"}
  /\ syncCmd \in Entry
  /\ created \subseteq Command
  /\ mixed \in BOOLEAN
  /\ \A i \in 1..Len(commands) :
       commands[i].type = "execute" => commands[i].cmd \in Command
  /\ mutex = "sync" => syncCmd \in Command

PCInv == HistoryOK /\ CallsOK

\* The inductive invariant contains what is to be shown.
LEMMA PCInvTypes == PCInv => TypeOK /\ PCNamesACommand
BY Zenon DEF PCInv, HistoryOK, CallsOK, TypeOK, Entry

\* A new manager satisfies it.
LEMMA InitPC == Init => PCInv
<1> SUFFICES ASSUME Init PROVE PCInv
  OBVIOUS
<1>1. << >> \in Seq(Request) /\ << >> \in Seq(Entry) /\ Len(<< >>) = 0
  BY EmptySeq
<1>2. overflowed \in BOOLEAN /\ mixed \in BOOLEAN
  BY Zenon DEF Init
<1>3. historyPC \in Int /\ historyPC >= None
  BY DEF Init, None
<1>4. PCNamesACommand
  BY <1>1 DEF Init, PCNamesACommand, None, Elements
<1>5. HistoryOK
  BY <1>1, <1>2, <1>3, <1>4, Zenon DEF Init, HistoryOK, Faults, Entry
<1>6. \A i \in 1..Len(commands) : FALSE
  BY <1>1 DEF Init
<1>7. CallsOK
  BY <1>1, <1>2, <1>6, Zenon DEF Init, CallsOK, Entry
<1> QED BY <1>5, <1>7 DEF PCInv

-----------------------------------------------------------------------------
(* What the steps do to the history *)

\* Nothing but memory may change.
LEMMA HistoryUnchanged ==
  ASSUME HistoryOK,
         UNCHANGED <<history, historyPC, lastCmd, applied, fault, overflowed>>,
         freed' \subseteq Command
  PROVE  HistoryOK'
BY Zenon DEF HistoryOK, PCNamesACommand, Elements

\* The redo of DoCmd keeps the PC below the size.
LEMMA RedoNowOK ==
  ASSUME HistoryOK, RedoNow
  PROVE  HistoryOK'
<1>1. CASE CannotRedo /\ UNCHANGED <<history, historyPC, lastCmd, freed,
                                      applied, fault, overflowed>>
  BY <1>1, HistoryUnchanged, Zenon DEF HistoryOK
<1>2. CASE ~CannotRedo /\ ~(CannotRedo /\ UNCHANGED <<history, historyPC,
                             lastCmd, freed, applied, fault, overflowed>>)
  <2> DEFINE c == history[historyPC + 2]
  <2>1. /\ historyPC' = historyPC + 1
        /\ UNCHANGED <<history, freed, overflowed>>
        /\ \/ c = NoCommand /\ fault' = "null_deref"
              /\ UNCHANGED <<lastCmd, applied>>
           \/ c # NoCommand /\ lastCmd' = c /\ applied' = applied \cup {c}
              /\ UNCHANGED fault
    BY <1>2, Zenon DEF RedoNow
  <2>2. history \in Seq(Entry) /\ historyPC \in Int /\ historyPC >= -1
    BY DEF HistoryOK, None
  <2>3. Len(history) \in Nat /\ (history # << >> => Len(history) # 0)
    BY <2>2, LenProperties, EmptySeq
  <2>4. historyPC + 2 \in 1..Len(history)
    BY <1>2, <2>2, <2>3 DEF CannotRedo, None
  <2>5. c \in Entry
    BY <2>2, <2>4, ElementOfSeq
  <2>6. historyPC' \in Int /\ historyPC' >= None /\ historyPC' < Len(history')
    BY <2>1, <2>2, <2>3, <2>4 DEF None
  <2>7. lastCmd' \in Entry /\ applied' \subseteq Command /\ fault' \in Faults
    BY <2>1, <2>5, Zenon DEF HistoryOK, Entry, Faults
  <2>8. ~overflowed => c # NoCommand
    BY <2>4, Zenon DEF HistoryOK, PCNamesACommand, Elements
  <2>9. PCNamesACommand'
    BY <2>1, <2>6, <2>8, Zenon DEF HistoryOK, PCNamesACommand, Elements
  <2> QED BY <2>1, <2>6, <2>7, <2>9, Zenon DEF HistoryOK
<1> QED BY <1>1, <1>2, Zenon DEF RedoNow

\* So does the undo, which stops at "nothing in effect".
LEMMA UndoNowOK ==
  ASSUME HistoryOK, UndoNow
  PROVE  HistoryOK'
<1>1. CASE UNCHANGED <<history, historyPC, lastCmd, freed, applied, fault,
                       overflowed>>
  BY <1>1, HistoryUnchanged, Zenon DEF HistoryOK
<1>2. CASE /\ historyPC >= Len(history)
           /\ fault' = "invalid_pc"
           /\ UNCHANGED <<history, historyPC, lastCmd, freed, applied,
                          overflowed>>
  <2>1. overflowed
    <3>1. Len(history) \in Nat /\ historyPC \in Int
      BY LenProperties DEF HistoryOK
    <3>2. ~(historyPC < Len(history))
      BY <1>2, <3>1
    <3> QED BY <3>2, Zenon DEF HistoryOK, PCNamesACommand
  <2> QED BY <1>2, <2>1, Zenon DEF HistoryOK, PCNamesACommand, Faults
<1>3. CASE /\ historyPC # None /\ historyPC < Len(history)
           /\ historyPC' = historyPC - 1
           /\ \/ history[historyPC + 1] = NoCommand /\ fault' = "null_deref"
                 /\ UNCHANGED <<lastCmd, applied>>
              \/ /\ history[historyPC + 1] # NoCommand
                 /\ lastCmd' = history[historyPC + 1]
                 /\ applied' = applied \ {history[historyPC + 1]}
                 /\ UNCHANGED fault
           /\ UNCHANGED <<history, freed, overflowed>>
  <2>1. history \in Seq(Entry) /\ historyPC \in Int /\ historyPC >= -1
    BY DEF HistoryOK, None
  <2>2. historyPC + 1 \in 1..Len(history) /\ Len(history) \in Nat
    BY <1>3, <2>1, LenProperties DEF None
  <2>3. history[historyPC + 1] \in Entry
    BY <2>1, <2>2, ElementOfSeq
  <2>4. historyPC' \in Int /\ historyPC' >= None /\ historyPC' < Len(history')
    BY <1>3, <2>1, <2>2 DEF None
  <2>5. lastCmd' \in Entry /\ applied' \subseteq Command /\ fault' \in Faults
    BY <1>3, <2>3, Zenon DEF HistoryOK, Faults
  <2>6. ~overflowed => history[historyPC + 1] # NoCommand
    BY <2>2, Zenon DEF HistoryOK, PCNamesACommand, Elements
  <2>7. PCNamesACommand'
    BY <1>3, <2>4, <2>6, Zenon DEF HistoryOK, PCNamesACommand, Elements
  <2> QED BY <1>3, <2>4, <2>5, <2>7, Zenon DEF HistoryOK
<1> QED BY <1>1, <1>2, <1>3, Zenon DEF UndoNow

\* The private Execute keeps the PC at the last element, unless it drops the
\* oldest command (overflowed) or the PC was out of range to begin with.
LEMMA ExecuteNowOK ==
  ASSUME HistoryOK, NEW c \in Command, ExecuteNow(c)
  PROVE  HistoryOK'
<1>1. history \in Seq(Entry) /\ historyPC \in Int /\ historyPC >= None
  BY DEF HistoryOK
<1>2. Len(history) \in Nat /\ \A i \in 1..Len(history) : history[i] \in Entry
  BY <1>1, LenProperties, ElementOfSeq
<1>3. Elements(history) \ {NoCommand} \subseteq Command
  BY <1>2, Zenon DEF Elements, Entry
<1>4. CASE historyPC # None /\ historyPC >= Len(history)
  <2>1. overflowed
    <3>1. ~(historyPC < Len(history))
      BY <1>1, <1>2, <1>4
    <3> QED BY <3>1, Zenon DEF HistoryOK, PCNamesACommand
  <2>2. << >> \in Seq(Entry)
    BY EmptySeq
  <2>3. /\ fault' = "erase_from_empty"
        /\ freed' = freed \cup (Elements(history) \ {NoCommand})
        /\ history' = << >>
        /\ UNCHANGED <<historyPC, lastCmd, applied, overflowed>>
    BY <1>4, Zenon DEF ExecuteNow
  <2> QED BY <1>3, <2>1, <2>2, <2>3, Zenon
          DEF HistoryOK, PCNamesACommand, Faults
<1>5. CASE ~(historyPC # None /\ historyPC >= Len(history))
  <2> DEFINE trim == TrimUndone(history, historyPC)
             grown == Append(trim, c)
             full == historyPC + 1 >= MaxHistorySize
             kept == IF full THEN Tail(grown) ELSE grown
  <2>1. /\ history' = kept
        /\ historyPC' = historyPC + 1
        /\ freed' = freed \cup
             ((Elements(history) \ Elements(kept)) \ {NoCommand})
        /\ applied' = (applied \ (IF full THEN {Head(grown)} ELSE {})) \cup {c}
        /\ lastCmd' = c
        /\ overflowed' = (overflowed \/ full)
        /\ UNCHANGED fault
    BY <1>5, Zenon DEF ExecuteNow
  <2>2. historyPC # None => historyPC < Len(history)
    BY <1>1, <1>2, <1>5
  <2>3. /\ trim \in Seq(Entry)
        /\ Len(trim) = IF historyPC = None THEN Len(history) ELSE historyPC + 1
        /\ \A i \in 1..Len(trim) : trim[i] = history[i]
    BY <1>1, <2>2, TrimFacts
  <2> HIDE DEF trim
  <2>4. c \in Entry
    BY DEF Entry
  <2>5. /\ grown \in Seq(Entry)
        /\ Len(grown) = Len(trim) + 1
        /\ \A i \in 1..Len(trim) : grown[i] = trim[i]
        /\ grown[Len(trim) + 1] = c
    BY <2>3, <2>4, AppendProperties
  <2> HIDE DEF grown
  <2>6. Len(trim) \in Nat
    BY <2>3, LenProperties
  <2>7. kept \in Seq(Entry)
    <3>1. grown # << >>
      BY <2>5, <2>6, EmptySeq
    <3>2. Tail(grown) \in Seq(Entry)
      BY <2>5, <3>1, HeadTailProperties
    <3> QED BY <2>5, <3>2
  <2>8. historyPC' \in Int /\ historyPC' >= None
    BY <1>1, <2>1 DEF None
  <2>9. overflowed' \in BOOLEAN
    BY <2>1, Zenon
  <2>10. lastCmd' \in Entry /\ applied' \subseteq Command
         /\ freed' \subseteq Command /\ fault' \in Faults
    BY <1>3, <2>1, <2>4, Zenon DEF HistoryOK
  <2>11. PCNamesACommand'
    <3> SUFFICES ASSUME ~overflowed, ~full, history' = grown, fault' = fault
                 PROVE  /\ historyPC' < Len(history')
                        /\ NoCommand \notin Elements(history')
                        /\ fault' = "none"
      BY <2>1, Zenon DEF PCNamesACommand, Elements
    <3>1. fault = "none" /\ NoCommand \notin Elements(history)
          /\ historyPC < Len(history)
      BY Zenon DEF HistoryOK, PCNamesACommand
    <3>2. historyPC + 1 < Len(grown)
      BY <1>1, <1>2, <2>3, <2>5 DEF None
    <3>3. ASSUME NEW i \in 1..Len(grown) PROVE grown[i] # NoCommand
      <4>1. i \in 1..Len(trim) \/ i = Len(trim) + 1
        BY <2>5, <2>6
      <4>2. Len(trim) <= Len(history)
        BY <1>1, <1>2, <2>3, <3>1
      <4>3. CASE i \in 1..Len(trim)
        <5>1. i \in 1..Len(history) /\ grown[i] = history[i]
          BY <1>2, <2>3, <2>5, <2>6, <4>2, <4>3
        <5> QED BY <3>1, <5>1, Zenon DEF Elements
      <4>4. CASE i = Len(trim) + 1
        BY <2>5, <4>4, NoCommandAssumption
      <4> QED BY <4>1, <4>3, <4>4
    <3>4. NoCommand \notin Elements(grown)
      BY <3>3, Zenon DEF Elements
    <3> QED BY <2>1, <3>1, <3>2, <3>4
  <2> QED BY <2>1, <2>7, <2>8, <2>9, <2>10, <2>11, Zenon DEF HistoryOK
<1> QED BY <1>4, <1>5

\* The truncation of the public Execute.
LEMMA ExecuteCallOK ==
  ASSUME HistoryOK, NEW c \in Command, ExecuteCall(c), lastCmd' = lastCmd,
         NEW S \in SUBSET Command, freed' = freed \cup Undone \cup S
  PROVE  HistoryOK'
<1>1. history \in Seq(Entry) /\ historyPC \in Int /\ historyPC >= None
  BY DEF HistoryOK
<1>2. Len(history) \in Nat /\ \A i \in 1..Len(history) : history[i] \in Entry
  BY <1>1, LenProperties, ElementOfSeq
<1>3. /\ history' = Truncated(history, historyPC)
      /\ UNCHANGED <<historyPC, applied, fault, overflowed>>
  BY DEF ExecuteCall
<1>4. /\ history' \in Seq(Entry)
      /\ Len(history') = historyPC + 1
      /\ \A i \in 1..(historyPC + 1) :
           history'[i] = IF i <= Len(history) THEN history[i] ELSE NoCommand
  BY <1>1, <1>3, TruncatedFacts
<1>5. freed' \subseteq Command
  <2>1. \A i \in (historyPC + 2)..Len(history) : i \in 1..Len(history)
    BY <1>1, <1>2 DEF None
  <2>2. Undone \subseteq Command
    BY <1>2, <2>1, Zenon DEF Undone, Entry
  <2> QED BY <2>2, Zenon DEF HistoryOK
<1>6. PCNamesACommand'
  <2> SUFFICES ASSUME ~overflowed
               PROVE  /\ historyPC' < Len(history')
                      /\ NoCommand \notin Elements(history')
                      /\ fault' = "none"
    BY <1>3, Zenon DEF PCNamesACommand, Elements
  <2>1. fault = "none" /\ NoCommand \notin Elements(history)
        /\ historyPC < Len(history)
    BY Zenon DEF HistoryOK, PCNamesACommand
  <2>2. \A i \in 1..Len(history') :
          i \in 1..Len(history) /\ history'[i] = history[i]
    BY <1>1, <1>2, <1>4, <2>1
  <2>3. NoCommand \notin Elements(history')
    BY <2>1, <2>2, Zenon DEF Elements
  <2>4. historyPC' < Len(history')
    BY <1>1, <1>3, <1>4
  <2> QED BY <1>3, <2>1, <2>3, <2>4
<1> QED BY <1>3, <1>4, <1>5, <1>6, Zenon DEF HistoryOK

-----------------------------------------------------------------------------
(* What the steps do to the queue *)

\* Redo, Cancel and an asynchronous Execute extend the queue.
LEMMA AppendRequest ==
  ASSUME CallsOK, NEW r \in Request,
         r.type = "execute" => r.cmd \in Command,
         commands' = Append(commands, r),
         UNCHANGED <<mutex, syncCmd>>,
         created' \subseteq Command, mixed' \in BOOLEAN
  PROVE  CallsOK'
<1>1. commands \in Seq(Request) /\ Len(commands) \in Nat
  BY LenProperties DEF CallsOK
<1>2. /\ commands' \in Seq(Request)
      /\ Len(commands') = Len(commands) + 1
      /\ \A i \in 1..Len(commands) : commands'[i] = commands[i]
      /\ commands'[Len(commands) + 1] = r
  BY <1>1, AppendProperties
<1>3. ASSUME NEW i \in 1..Len(commands'), commands'[i].type = "execute"
      PROVE  commands'[i].cmd \in Command
  <2>1. i \in 1..Len(commands) \/ i = Len(commands) + 1
    BY <1>1, <1>2
  <2>2. CASE i \in 1..Len(commands)
    BY <1>2, <1>3, <2>2, Zenon DEF CallsOK
  <2>3. CASE i = Len(commands) + 1
    BY <1>2, <1>3, <2>3
  <2> QED BY <2>1, <2>2, <2>3
<1> QED BY <1>2, <1>3, Zenon DEF CallsOK

\* The request at the front of the queue.
LEMMA DropRequestHead ==
  ASSUME CallsOK, commands # << >>
  PROVE  Head(commands).type = "execute" => Head(commands).cmd \in Command
<1>1. commands \in Seq(Request) /\ Len(commands) \in Nat
  BY LenProperties DEF CallsOK
<1>2. Len(commands) # 0
  BY <1>1, EmptySeq
<1>3. Head(commands) = commands[1] /\ 1 \in 1..Len(commands)
  BY <1>1, <1>2
<1> QED BY <1>3, Zenon DEF CallsOK

\* A turn of the drain loop takes the first request.
LEMMA DropRequest ==
  ASSUME CallsOK, commands # << >>,
         commands' = Tail(commands),
         UNCHANGED <<mutex, syncCmd, created, mixed>>
  PROVE  CallsOK'
<1>1. commands \in Seq(Request) /\ Len(commands) \in Nat
  BY LenProperties DEF CallsOK
<1>2. Len(commands) # 0
  BY <1>1, EmptySeq
<1>3. /\ commands' \in Seq(Request)
      /\ Len(commands') = Len(commands) - 1
      /\ \A i \in 1..Len(commands') : commands'[i] = commands[i + 1]
  BY <1>1, HeadTailProperties
<1>4. \A i \in 1..Len(commands') : i + 1 \in 1..Len(commands)
  BY <1>1, <1>3
<1>5. \A i \in 1..Len(commands') :
        commands'[i].type = "execute" => commands'[i].cmd \in Command
  BY <1>3, <1>4, Zenon DEF CallsOK
<1> QED BY <1>3, <1>5, Zenon DEF CallsOK

\* Any of the three requests leaves the history well formed.
LEMMA DoCmdOK ==
  ASSUME HistoryOK, NEW r, r.type = "execute" => r.cmd \in Command, DoCmd(r)
  PROVE  HistoryOK'
BY RedoNowOK, UndoNowOK, ExecuteNowOK, Zenon DEF DoCmd

-----------------------------------------------------------------------------
(* Every step preserves the invariant *)

\* One case per operation of the manager.
LEMMA NextPC == PCInv /\ [Next]_vars => PCInv'
<1> SUFFICES ASSUME PCInv, [Next]_vars PROVE PCInv'
  OBVIOUS
<1> USE DEF PCInv
<1>1. ASSUME NEW c \in Command, ExecuteAsync(c) PROVE PCInv'
  <2>1. HistoryOK'
    <3>1. {} \in SUBSET Command /\ freed' = freed \cup Undone \cup {}
      BY <1>1, Zenon DEF ExecuteAsync
    <3>2. ExecuteCall(c) /\ lastCmd' = lastCmd
      BY <1>1, Zenon DEF ExecuteAsync
    <3> QED BY <3>1, <3>2, ExecuteCallOK, Zenon
  <2>2. CallsOK'
    <3> DEFINE r == [cmd |-> c, type |-> "execute"]
    <3>1. r \in Request /\ r.cmd \in Command
      BY DEF Request
    <3>2. created' \subseteq Command /\ mixed' \in BOOLEAN
      BY <1>1, Zenon DEF ExecuteAsync, ExecuteCall, CallsOK
    <3>3. commands' = Append(commands, r) /\ UNCHANGED <<mutex, syncCmd>>
      BY <1>1, Zenon DEF ExecuteAsync
    <3> HIDE DEF r
    <3> QED BY <3>1, <3>2, <3>3, AppendRequest
  <2> QED BY <2>1, <2>2
<1>2. ASSUME NEW c \in Command, ExecuteSync(c) PROVE PCInv'
  <2>1. HistoryOK'
    <3>1. {} \in SUBSET Command /\ freed' = freed \cup Undone \cup {}
      BY <1>2, Zenon DEF ExecuteSync
    <3>2. ExecuteCall(c) /\ lastCmd' = lastCmd
      BY <1>2, Zenon DEF ExecuteSync
    <3> QED BY <3>1, <3>2, ExecuteCallOK, Zenon
  <2>2. CallsOK'
    BY <1>2, Zenon DEF ExecuteSync, ExecuteCall, CallsOK, Entry
  <2> QED BY <2>1, <2>2
<1>3. ASSUME NEW c \in Command, ExecuteForce(c) PROVE PCInv'
  <2>1. HistoryOK'
    <3>1. {c} \in SUBSET Command /\ freed' = freed \cup Undone \cup {c}
      BY <1>3, Zenon DEF ExecuteForce
    <3>2. ExecuteCall(c) /\ lastCmd' = lastCmd
      BY <1>3, Zenon DEF ExecuteForce
    <3> QED BY <3>1, <3>2, ExecuteCallOK, Zenon
  <2>2. CallsOK'
    BY <1>3, Zenon DEF ExecuteForce, ExecuteCall, CallsOK
  <2> QED BY <2>1, <2>2
<1>4. ASSUME NEW type \in {"redo", "undo"}, Push(type) PROVE PCInv'
  <2>1. HistoryOK'
    BY <1>4, HistoryUnchanged, Zenon DEF Push, HistoryOK
  <2>2. CallsOK'
    <3> DEFINE r == [cmd |-> NoCommand, type |-> type]
    <3>1. r \in Request /\ r.type # "execute"
      BY DEF Request
    <3>2. created' \subseteq Command /\ mixed' \in BOOLEAN
      BY <1>4, Zenon DEF Push, CallsOK
    <3>3. commands' = Append(commands, r) /\ UNCHANGED <<mutex, syncCmd>>
      BY <1>4, Zenon DEF Push
    <3> HIDE DEF r
    <3> QED BY <3>1, <3>2, <3>3, AppendRequest
  <2> QED BY <2>1, <2>2
<1>5. CASE Update
  <2>1. HistoryOK'
    BY <1>5, HistoryUnchanged, Zenon DEF Update, HistoryOK
  <2>2. CallsOK'
    <3>1. mutex' # "sync"
      BY <1>5 DEF Update
    <3> QED BY <1>5, <3>1, Zenon DEF Update, CallsOK
  <2> QED BY <2>1, <2>2
<1>6. CASE Drain
  <2>1. /\ CallsOK'
        /\ Head(commands).type = "execute" => Head(commands).cmd \in Command
    BY <1>6, DropRequest, DropRequestHead, Zenon DEF Drain
  <2>2. HistoryOK'
    BY <1>6, <2>1, DoCmdOK, Zenon DEF Drain
  <2> QED BY <2>1, <2>2
<1>7. CASE UpdateDone
  <2>1. HistoryOK'
    BY <1>7, HistoryUnchanged, Zenon DEF UpdateDone, HistoryOK
  <2>2. CallsOK'
    <3>1. mutex' # "sync"
      BY <1>7 DEF UpdateDone
    <3> QED BY <1>7, <3>1, Zenon DEF UpdateDone, CallsOK
  <2> QED BY <2>1, <2>2
<1>8. CASE SyncDone
  <2>1. HistoryOK'
    BY <1>8, ExecuteNowOK, Zenon DEF SyncDone, CallsOK
  <2>2. CallsOK'
    <3>1. mutex' # "sync"
      BY <1>8 DEF SyncDone
    <3> QED BY <1>8, <3>1, Zenon DEF SyncDone, CallsOK, Entry
  <2> QED BY <2>1, <2>2
<1>9. CASE Clear
  <2>1. << >> \in Seq(Entry) /\ << >> \in Seq(Request) /\ Len(<< >>) = 0
        /\ \A i \in 1..Len(<< >>) : FALSE
    BY EmptySeq
  <2>2. freed' \subseteq Command
    <3>1. \A i \in 1..Len(history) : history[i] \in Entry
      BY ElementOfSeq DEF HistoryOK
    <3>2. \A i \in 1..Len(commands) : commands[i] \in Request
      BY ElementOfSeq DEF CallsOK
    <3>3. \A i \in 1..Len(commands) : commands[i].cmd \in Entry
      BY <3>2 DEF Request, Entry
    <3> QED BY <1>9, <3>1, <3>3, Zenon DEF Clear, HistoryOK, Elements, Entry
  <2>3. historyPC' \in Int /\ historyPC' >= None /\ historyPC' < Len(history')
    BY <1>9, <2>1 DEF Clear, None
  <2>4. PCNamesACommand'
    BY <1>9, <2>1, <2>3, Zenon DEF Clear, HistoryOK, PCNamesACommand, Elements
  <2>5. HistoryOK'
    BY <1>9, <2>1, <2>2, <2>3, <2>4, Zenon DEF Clear, HistoryOK
  <2>6. CallsOK'
    BY <1>9, <2>1, Zenon DEF Clear, CallsOK
  <2> QED BY <2>5, <2>6
<1>10. CASE UNCHANGED vars
  BY <1>10, Zenon DEF vars, HistoryOK, CallsOK, PCNamesACommand, Elements
<1> QED BY <1>1, <1>2, <1>3, <1>4, <1>5, <1>6, <1>7, <1>8, <1>9, <1>10, Zenon
        DEF Next, Redo, Cancel

\* The inductive invariant holds in every state of a run.
LEMMA PCInvariant == Spec => []PCInv
BY InitPC, NextPC, PTL DEF Spec

\* The manager's data have their types in every run, for any set of commands,
\* history size and queue bound: in particular m_historyPC never falls below
\* "nothing in effect" and nothing but a command is ever executed.
THEOREM TypeCorrect == Spec => []TypeOK
BY PCInvariant, PCInvTypes, PTL

\* Until the history is full, m_historyPC names a recorded command and the
\* manager reaches no SRHalt, null pointer or erase from an empty vector.
THEOREM PCAlwaysNamesACommand == Spec => []PCNamesACommand
BY PCInvariant, PCInvTypes, PTL

-----------------------------------------------------------------------------
(* Ownership: the invariant that OwnedOnce needs *)

Distinct(h) ==
  \A i, j \in 1..Len(h) : h[i] = h[j] => i = j \/ h[i] = NoCommand

\* A command is queued once, and only as an execution.
QueueOwns ==
  /\ \A i, j \in 1..Len(commands) :
       commands[i].cmd = commands[j].cmd => i = j \/ commands[i].cmd = NoCommand
  /\ \A i \in 1..Len(commands) :
       commands[i].type # "execute" => commands[i].cmd = NoCommand

\* Nothing is owned that was never handed over, and only a synchronous Execute
\* has a command in flight.
OwnershipOK ==
  /\ OwnedOnce
  /\ Pending \cup Recorded \cup InFlight \cup freed \subseteq created
  /\ QueueOwns
  /\ mutex # "sync" => syncCmd = NoCommand

OwnInv == PCInv /\ OwnershipOK

\* A new manager owns nothing.
LEMMA InitOwn == Init => OwnInv
<1> SUFFICES ASSUME Init PROVE OwnInv
  OBVIOUS
<1>1. PCInv
  BY InitPC
<1>2. Len(<< >>) = 0 /\ \A i \in 1..Len(<< >>) : FALSE
  BY EmptySeq
<1>3. Pending = {} /\ Recorded = {} /\ InFlight = {}
  BY <1>2, Zenon DEF Init, Pending, Recorded, InFlight, Elements
<1>4. OwnedOnce
  BY <1>2, <1>3, Zenon DEF Init, OwnedOnce
<1> QED BY <1>1, <1>2, <1>3, <1>4, Zenon DEF OwnInv, OwnershipOK, QueueOwns, Init

\* The private Execute moves the new command into the history and deletes
\* exactly what leaves it.
LEMMA ExecuteNowOwns ==
  ASSUME HistoryOK, NEW c \in Command, ExecuteNow(c),
         Distinct(history), c \notin Recorded
  PROVE  /\ Distinct(history')
         /\ Recorded' \subseteq Recorded \cup {c}
         /\ freed' = freed \cup (Recorded \ Recorded')
         /\ c \in Recorded' \/ Crashed'
<1>1. history \in Seq(Entry) /\ historyPC \in Int /\ historyPC >= None
  BY DEF HistoryOK
<1>2. Len(history) \in Nat
  BY <1>1, LenProperties
<1>3. CASE historyPC # None /\ historyPC >= Len(history)
  <2>1. /\ fault' = "erase_from_empty"
        /\ freed' = freed \cup (Elements(history) \ {NoCommand})
        /\ history' = << >>
    BY <1>3, Zenon DEF ExecuteNow
  <2>2. \A i \in 1..Len(<< >>) : FALSE
    BY EmptySeq
  <2>3. Recorded' = {} /\ Distinct(history')
    BY <2>1, <2>2, Zenon DEF Recorded, Elements, Distinct
  <2>4. Crashed'
    BY <2>1 DEF Crashed
  <2> QED BY <2>1, <2>3, <2>4, Zenon DEF Recorded
<1>4. CASE ~(historyPC # None /\ historyPC >= Len(history))
  <2> DEFINE trim == TrimUndone(history, historyPC)
             grown == Append(trim, c)
             full == historyPC + 1 >= MaxHistorySize
             kept == IF full THEN Tail(grown) ELSE grown
  <2>1. /\ history' = kept
        /\ freed' = freed \cup
             ((Elements(history) \ Elements(kept)) \ {NoCommand})
    BY <1>4, Zenon DEF ExecuteNow
  <2>2. historyPC # None => historyPC < Len(history)
    BY <1>1, <1>2, <1>4
  <2>3. /\ trim \in Seq(Entry)
        /\ Len(trim) = IF historyPC = None THEN Len(history) ELSE historyPC + 1
        /\ \A i \in 1..Len(trim) : trim[i] = history[i]
    BY <1>1, <2>2, TrimFacts
  <2>4. Len(trim) \in Nat /\ Len(trim) <= Len(history)
    BY <1>1, <1>2, <2>2, <2>3 DEF None
  <2>5. full => Len(trim) # 0
    BY <1>1, <2>3, HistoryAssumption DEF None
  <2> HIDE DEF trim
  <2>6. c \in Entry
    BY DEF Entry
  <2>7. /\ grown \in Seq(Entry)
        /\ Len(grown) = Len(trim) + 1
        /\ \A i \in 1..Len(trim) : grown[i] = trim[i]
        /\ grown[Len(trim) + 1] = c
    BY <2>3, <2>6, AppendProperties
  <2> HIDE DEF grown
  \* The element at position i of the new history.
  <2> DEFINE shift == IF full THEN 1 ELSE 0
  <2>8. /\ Len(kept) = Len(trim) + 1 - shift
        /\ \A i \in 1..Len(kept) : kept[i] = grown[i + shift]
    <3>1. CASE full
      <4>1. grown # << >>
        BY <2>4, <2>7, EmptySeq
      <4>2. /\ Len(Tail(grown)) = Len(grown) - 1
            /\ \A i \in 1..Len(Tail(grown)) : Tail(grown)[i] = grown[i + 1]
        BY <2>7, <4>1, HeadTailProperties
      <4> QED BY <3>1, <2>4, <2>7, <4>2
    <3>2. CASE ~full
      BY <3>2, <2>4, <2>7
    <3> QED BY <3>1, <3>2
  <2> HIDE DEF kept
  <2>9. /\ shift \in {0, 1}
        /\ full => shift = 1
        /\ ~full => shift = 0
    OBVIOUS
  <2> HIDE DEF shift, full
  <2>10. \A i \in 1..Len(kept) :
           \/ i + shift \in 1..Len(history) /\ kept[i] = history[i + shift]
              /\ i + shift \in 1..Len(trim)
           \/ i + shift = Len(trim) + 1 /\ kept[i] = c
    <3> TAKE i \in 1..Len(kept)
    <3>1. i + shift \in 1..Len(trim) \/ i + shift = Len(trim) + 1
      BY <2>4, <2>8, <2>9
    <3>2. CASE i + shift \in 1..Len(trim)
      <4>1. i + shift \in 1..Len(history)
        BY <1>2, <2>4, <3>2
      <4>2. kept[i] = history[i + shift]
        BY <2>3, <2>7, <2>8, <3>2, Zenon
      <4> QED BY <3>2, <4>1, <4>2
    <3>3. CASE i + shift = Len(trim) + 1
      <4>1. kept[i] = c
        BY <2>7, <2>8, <3>3, Zenon
      <4> QED BY <3>3, <4>1
    <3> QED BY <3>1, <3>2, <3>3
  <2>11. Elements(kept) \subseteq Elements(history) \cup {c}
    BY <2>10, Zenon DEF Elements
  <2>12. c \in Elements(kept)
    <3>1. Len(trim) + 1 - shift \in 1..Len(kept)
          /\ (Len(trim) + 1 - shift) + shift = Len(trim) + 1
      BY <2>4, <2>5, <2>8, <2>9
    <3>2. kept[Len(trim) + 1 - shift] = c
      BY <3>1, <2>7, <2>8
    <3> QED BY <3>1, <3>2, Zenon DEF Elements
  <2>13. Distinct(kept)
    <3> SUFFICES ASSUME NEW i \in 1..Len(kept), NEW j \in 1..Len(kept),
                        kept[i] = kept[j], kept[i] # NoCommand
                 PROVE  i = j
      BY Zenon DEF Distinct
    <3>1. i + shift = j + shift
      <4>1. CASE i + shift \in 1..Len(history) /\ kept[i] = history[i + shift]
        <5>1. kept[i] \in Recorded
          BY <4>1, Zenon DEF Recorded, Elements
        <5>2. kept[j] # c
          BY <5>1, Zenon
        <5>3. j + shift \in 1..Len(history) /\ kept[j] = history[j + shift]
          BY <2>10, <5>2, Zenon
        <5> QED BY <4>1, <5>3, Zenon DEF Distinct
      <4>2. CASE i + shift = Len(trim) + 1 /\ kept[i] = c
        <5>1. kept[j] \notin Recorded
          BY <4>2, Zenon
        <5>2. ~(j + shift \in 1..Len(history) /\ kept[j] = history[j + shift])
          BY <5>1, Zenon DEF Recorded, Elements
        <5>3. j + shift = Len(trim) + 1
          BY <2>10, <5>2, Zenon
        <5> QED BY <4>2, <5>3
      <4> QED BY <2>10, <4>1, <4>2, Zenon
    <3> QED BY <3>1, <2>9, <2>4, <2>8
  <2>14. c # NoCommand
    BY NoCommandAssumption
  <2> QED BY ZenonT(60), <2>1, <2>11, <2>12, <2>13, <2>14
          DEF Recorded, Elements, Distinct
<1> QED BY <1>3, <1>4

\* Undo and redo move the counter and touch neither history nor memory.
LEMMA StepOwns ==
  ASSUME UndoNow \/ RedoNow
  PROVE  history' = history /\ freed' = freed
BY Zenon DEF UndoNow, RedoNow

\* The public Execute deletes exactly what it cuts off.
LEMMA ExecuteCallOwns ==
  ASSUME HistoryOK, Distinct(history), NEW c \in Command, ExecuteCall(c)
  PROVE  /\ Distinct(history')
         /\ Recorded' \cup Undone = Recorded
         /\ Recorded' \cap Undone = {}
<1>1. history \in Seq(Entry) /\ historyPC \in Int /\ historyPC >= None
  BY DEF HistoryOK
<1>2. Len(history) \in Nat
  BY <1>1, LenProperties
<1>3. history' = Truncated(history, historyPC)
  BY DEF ExecuteCall
<1>4. /\ Len(history') = historyPC + 1
      /\ \A i \in 1..(historyPC + 1) :
           history'[i] = IF i <= Len(history) THEN history[i] ELSE NoCommand
  BY <1>1, <1>3, TruncatedFacts
<1>5. \A i \in 1..Len(history') :
        \/ i \in 1..Len(history) /\ history'[i] = history[i]
        \/ history'[i] = NoCommand
  BY <1>1, <1>2, <1>4
<1>6. Distinct(history')
  BY <1>5, Zenon DEF Distinct
<1>7. \A i \in 1..Len(history) :
        \/ i \in 1..Len(history') /\ history'[i] = history[i]
        \/ i \in (historyPC + 2)..Len(history)
  BY <1>1, <1>2, <1>4
<1>8. \A i \in (historyPC + 2)..Len(history) :
        i \in 1..Len(history) /\ i \notin 1..Len(history')
  BY <1>1, <1>2, <1>4 DEF None
<1>9. Recorded \subseteq Recorded' \cup Undone
  BY <1>7, Zenon DEF Recorded, Undone, Elements
<1>10. Recorded' \subseteq Recorded /\ Undone \subseteq Recorded
  BY <1>5, <1>8, Zenon DEF Recorded, Undone, Elements
<1>11. ASSUME NEW x \in Recorded', x \in Undone PROVE FALSE
  <2>1. PICK i \in 1..Len(history') : x = history'[i]
    BY Zenon DEF Recorded, Elements
  <2>2. PICK j \in (historyPC + 2)..Len(history) : x = history[j]
    BY <1>11, Zenon DEF Undone
  <2>3. x # NoCommand
    BY Zenon DEF Recorded
  <2>4. i \in 1..Len(history) /\ x = history[i]
    BY <1>5, <2>1, <2>3, Zenon
  <2>5. j \in 1..Len(history) /\ j \notin 1..Len(history')
    BY <1>8, Zenon
  <2>6. i = j
    BY <2>2, <2>3, <2>4, <2>5, Zenon DEF Distinct
  <2> QED BY <2>1, <2>5, <2>6, Zenon
<1> QED BY <1>6, <1>9, <1>10, <1>11

\* A queued request adds its command to the pending ones.
LEMMA AppendOwns ==
  ASSUME commands \in Seq(Request), QueueOwns, NEW r \in Request,
         r.cmd \notin Pending, r.type # "execute" => r.cmd = NoCommand,
         commands' = Append(commands, r)
  PROVE  /\ QueueOwns'
         /\ Pending' = Pending \cup ({r.cmd} \ {NoCommand})
<1>1. Len(commands) \in Nat
  BY LenProperties
<1>2. /\ Len(commands') = Len(commands) + 1
      /\ \A i \in 1..Len(commands) : commands'[i] = commands[i]
      /\ commands'[Len(commands) + 1] = r
  BY AppendProperties
<1>3. \A i \in 1..Len(commands') :
        \/ i \in 1..Len(commands) /\ commands'[i] = commands[i]
        \/ i = Len(commands) + 1 /\ commands'[i] = r
  BY <1>1, <1>2
<1>4. /\ \A i \in 1..Len(commands) : i \in 1..Len(commands')
      /\ Len(commands) + 1 \in 1..Len(commands')
  BY <1>1, <1>2
<1>5. Pending' = Pending \cup ({r.cmd} \ {NoCommand})
  <2>1. Pending' \subseteq Pending \cup ({r.cmd} \ {NoCommand})
    BY <1>3, Zenon DEF Pending
  <2>2. Pending \subseteq Pending' /\ {r.cmd} \ {NoCommand} \subseteq Pending'
    BY <1>2, <1>4, Zenon DEF Pending
  <2> QED BY <2>1, <2>2, Zenon
<1>6. ASSUME NEW i \in 1..Len(commands'), NEW j \in 1..Len(commands'),
             commands'[i].cmd = commands'[j].cmd,
             commands'[i].cmd # NoCommand
      PROVE  i = j
  <2>1. \A k \in 1..Len(commands) :
          commands[k].cmd # NoCommand => commands[k].cmd # r.cmd
    BY Zenon DEF Pending
  <2>2. CASE i \in 1..Len(commands) /\ commands'[i] = commands[i]
    <3>1. commands'[j].cmd # r.cmd
      BY <1>6, <2>1, <2>2, Zenon
    <3>2. j \in 1..Len(commands) /\ commands'[j] = commands[j]
      BY <1>3, <3>1, Zenon
    <3> QED BY <1>6, <2>2, <3>2, Zenon DEF QueueOwns
  <2>3. CASE i = Len(commands) + 1 /\ commands'[i] = r
    <3>1. commands'[j].cmd = r.cmd /\ r.cmd # NoCommand
      BY <1>6, <2>3, Zenon
    <3>2. j = Len(commands) + 1
      BY <1>3, <2>1, <3>1, Zenon
    <3> QED BY <2>3, <3>2
  <2> QED BY <1>3, <2>2, <2>3
<1>7. ASSUME NEW i \in 1..Len(commands'), commands'[i].type # "execute"
      PROVE  commands'[i].cmd = NoCommand
  BY <1>3, <1>7, Zenon DEF QueueOwns
<1> QED BY <1>5, <1>6, <1>7, Zenon DEF QueueOwns

\* The first request takes its command, and only its own, with it.
LEMMA DropOwns ==
  ASSUME commands \in Seq(Request), QueueOwns, commands # << >>,
         commands' = Tail(commands)
  PROVE  /\ QueueOwns'
         /\ Pending = Pending' \cup ({Head(commands).cmd} \ {NoCommand})
         /\ Head(commands).cmd \notin Pending'
         /\ Head(commands).type # "execute" => Head(commands).cmd = NoCommand
<1>1. Len(commands) \in Nat /\ Len(commands) # 0
  BY LenProperties, EmptySeq
<1>2. /\ Len(commands') = Len(commands) - 1
      /\ \A i \in 1..Len(commands') : commands'[i] = commands[i + 1]
  BY HeadTailProperties
<1>3. Head(commands) = commands[1] /\ 1 \in 1..Len(commands)
  BY <1>1
<1>4. \A i \in 1..Len(commands') : i + 1 \in 1..Len(commands) /\ i + 1 # 1
  BY <1>1, <1>2
<1>5. \A i \in 1..Len(commands) :
        i = 1 \/ \E k \in 1..Len(commands') : commands'[k] = commands[i]
  <2> TAKE i \in 1..Len(commands)
  <2>1. CASE i # 1
    <3>1. i - 1 \in 1..Len(commands') /\ (i - 1) + 1 = i
      BY <1>1, <1>2, <2>1
    <3>2. commands'[i - 1] = commands[i]
      BY <1>2, <3>1
    <3> QED BY <3>1, <3>2
  <2> QED BY <2>1
<1>6. Pending = Pending' \cup ({Head(commands).cmd} \ {NoCommand})
  <2>1. ASSUME NEW x \in Pending
        PROVE  x \in Pending' \cup ({Head(commands).cmd} \ {NoCommand})
    <3>1. PICK i \in 1..Len(commands) : x = commands[i].cmd
      BY Zenon DEF Pending
    <3>2. x # NoCommand
      BY Zenon DEF Pending
    <3>3. CASE i = 1
      BY <1>3, <3>1, <3>2, <3>3
    <3>4. CASE \E k \in 1..Len(commands') : commands'[k] = commands[i]
      <4>1. PICK k \in 1..Len(commands') : commands'[k] = commands[i]
        BY <3>4
      <4>2. x = commands'[k].cmd
        BY <3>1, <4>1
      <4> QED BY <3>2, <4>2, Zenon DEF Pending
    <3> QED BY <1>5, <3>3, <3>4
  <2>2. ASSUME NEW x \in Pending'
        PROVE  x \in Pending
    <3>1. PICK k \in 1..Len(commands') : x = commands'[k].cmd
      BY Zenon DEF Pending
    <3>2. x # NoCommand
      BY Zenon DEF Pending
    <3>3. x = commands[k + 1].cmd /\ k + 1 \in 1..Len(commands)
      BY <1>2, <1>4, <3>1
    <3> QED BY <3>2, <3>3, Zenon DEF Pending
  <2>3. {Head(commands).cmd} \ {NoCommand} \subseteq Pending
    BY <1>3, Zenon DEF Pending
  <2> QED BY <2>1, <2>2, <2>3, Zenon
<1>7. Head(commands).cmd \notin Pending'
  <2> SUFFICES ASSUME NEW k \in 1..Len(commands'),
                      commands'[k].cmd = Head(commands).cmd,
                      commands'[k].cmd # NoCommand
               PROVE  FALSE
    BY Zenon DEF Pending
  <2> QED BY <1>2, <1>3, <1>4, Zenon DEF QueueOwns
<1>8. QueueOwns'
  <2>1. ASSUME NEW i \in 1..Len(commands'), NEW j \in 1..Len(commands'),
               commands'[i].cmd = commands'[j].cmd,
               commands'[i].cmd # NoCommand
        PROVE  i = j
    <3>1. i + 1 = j + 1
      BY <1>2, <1>4, <2>1, Zenon DEF QueueOwns
    <3> QED BY <1>1, <1>2, <3>1
  <2>2. \A i \in 1..Len(commands') :
          commands'[i].type # "execute" => commands'[i].cmd = NoCommand
    BY <1>2, <1>4, Zenon DEF QueueOwns
  <2> QED BY <2>1, <2>2, Zenon DEF QueueOwns
<1> QED BY <1>3, <1>6, <1>7, <1>8, Zenon DEF QueueOwns

\* One case per operation: which command moves from where to where.
LEMMA NextOwn == OwnInv /\ [Next]_vars => OwnInv'
<1> SUFFICES ASSUME OwnInv, [Next]_vars PROVE OwnershipOK'
  BY NextPC DEF OwnInv
<1>1. /\ HistoryOK /\ CallsOK
      /\ commands \in Seq(Request)
      /\ OwnershipOK
  BY Zenon DEF OwnInv, PCInv, CallsOK
<1>2. /\ (Pending \cup Recorded \cup InFlight) \cap freed = {}
      /\ Pending \cap Recorded = {}
      /\ InFlight \cap (Pending \cup Recorded) = {}
      /\ Distinct(history)
      /\ ~Crashed => created = Pending \cup Recorded \cup InFlight \cup freed
      /\ Pending \cup Recorded \cup InFlight \cup freed \subseteq created
      /\ QueueOwns
      /\ mutex # "sync" => syncCmd = NoCommand
  BY <1>1, Zenon DEF OwnershipOK, OwnedOnce, Distinct
\* It is enough to look at the four places a command can be.
<1>3. ASSUME (Pending' \cup Recorded' \cup InFlight') \cap freed' = {},
             Pending' \cap Recorded' = {},
             InFlight' \cap (Pending' \cup Recorded') = {},
             Distinct(history'),
             ~Crashed' =>
               created' = Pending' \cup Recorded' \cup InFlight' \cup freed',
             Pending' \cup Recorded' \cup InFlight' \cup freed' \subseteq created',
             QueueOwns',
             mutex' # "sync" => syncCmd' = NoCommand
      PROVE  OwnershipOK'
  BY <1>3, Zenon DEF OwnershipOK, OwnedOnce, Distinct
<1>4. ASSUME NEW c \in Command, ExecuteAsync(c) PROVE OwnershipOK'
  <2> DEFINE r == [cmd |-> c, type |-> "execute"]
  <2>1. /\ ExecuteCall(c) /\ ~Crashed /\ c \notin created
        /\ created' = created \cup {c}
        /\ freed' = freed \cup Undone
        /\ commands' = Append(commands, r)
        /\ UNCHANGED <<mutex, syncCmd>>
    BY <1>4, Zenon DEF ExecuteAsync, ExecuteCall, CallAllowed
  <2>2. r \in Request /\ r.cmd = c /\ r.type = "execute"
    BY DEF Request
  <2>3. c \notin Pending /\ c # NoCommand
    BY <1>2, <2>1, NoCommandAssumption, Zenon
  <2> HIDE DEF r
  <2>4. QueueOwns' /\ Pending' = Pending \cup {c}
    <3>1. QueueOwns' /\ Pending' = Pending \cup ({r.cmd} \ {NoCommand})
      BY <1>1, <1>2, <2>1, <2>2, <2>3, AppendOwns
    <3> QED BY <2>2, <2>3, <3>1
  <2>5. Distinct(history') /\ Recorded' \cup Undone = Recorded
        /\ Recorded' \cap Undone = {}
    BY <1>1, <1>2, <2>1, ExecuteCallOwns
  <2>6. InFlight' = InFlight
    BY <2>1, Zenon DEF InFlight
  <2>7. created' = Pending' \cup Recorded' \cup InFlight' \cup freed'
    BY <1>2, <2>1, <2>4, <2>5, <2>6
  <2>8. /\ (Pending' \cup Recorded' \cup InFlight') \cap freed' = {}
        /\ Pending' \cap Recorded' = {}
        /\ InFlight' \cap (Pending' \cup Recorded') = {}
    BY <1>2, <2>1, <2>4, <2>5, <2>6
  <2> QED BY <1>2, <1>3, <2>1, <2>4, <2>5, <2>7, <2>8, Zenon
<1>5. ASSUME NEW c \in Command, ExecuteSync(c) PROVE OwnershipOK'
  <2>1. /\ ExecuteCall(c) /\ ~Crashed /\ c \notin created
        /\ created' = created \cup {c}
        /\ freed' = freed \cup Undone
        /\ mutex = "free" /\ mutex' = "sync" /\ syncCmd' = c
        /\ UNCHANGED commands
    BY <1>5, Zenon DEF ExecuteSync, ExecuteCall, CallAllowed
  <2>2. QueueOwns' /\ Pending' = Pending
    BY <1>2, <2>1, Zenon DEF QueueOwns, Pending
  <2>3. Distinct(history') /\ Recorded' \cup Undone = Recorded
        /\ Recorded' \cap Undone = {}
    BY <1>1, <1>2, <2>1, ExecuteCallOwns
  <2>4. InFlight = {} /\ InFlight' = {c}
    <3>1. c # NoCommand /\ syncCmd = NoCommand
      BY <1>2, <2>1, NoCommandAssumption
    <3> QED BY <2>1, <3>1 DEF InFlight
  <2>5. created' = Pending' \cup Recorded' \cup InFlight' \cup freed'
    BY <1>2, <2>1, <2>2, <2>3, <2>4
  <2>6. /\ (Pending' \cup Recorded' \cup InFlight') \cap freed' = {}
        /\ Pending' \cap Recorded' = {}
        /\ InFlight' \cap (Pending' \cup Recorded') = {}
    BY <1>2, <2>1, <2>2, <2>3, <2>4
  <2> QED BY <1>3, <2>1, <2>2, <2>3, <2>5, <2>6, Zenon
<1>6. ASSUME NEW c \in Command, ExecuteForce(c) PROVE OwnershipOK'
  <2>1. /\ ExecuteCall(c) /\ ~Crashed /\ c \notin created
        /\ created' = created \cup {c}
        /\ freed' = freed \cup Undone \cup {c}
        /\ UNCHANGED <<commands, mutex, syncCmd>>
    BY <1>6, Zenon DEF ExecuteForce, ExecuteCall, CallAllowed
  <2>2. QueueOwns' /\ Pending' = Pending /\ InFlight' = InFlight
    BY <1>2, <2>1, Zenon DEF QueueOwns, Pending, InFlight
  <2>3. Distinct(history') /\ Recorded' \cup Undone = Recorded
        /\ Recorded' \cap Undone = {}
    BY <1>1, <1>2, <2>1, ExecuteCallOwns
  <2>4. created' = Pending' \cup Recorded' \cup InFlight' \cup freed'
    BY <1>2, <2>1, <2>2, <2>3
  <2>5. /\ (Pending' \cup Recorded' \cup InFlight') \cap freed' = {}
        /\ Pending' \cap Recorded' = {}
        /\ InFlight' \cap (Pending' \cup Recorded') = {}
    BY <1>2, <2>1, <2>2, <2>3
  <2> QED BY <1>2, <1>3, <2>1, <2>2, <2>3, <2>4, <2>5, Zenon
<1>7. ASSUME NEW type \in {"redo", "undo"}, Push(type) PROVE OwnershipOK'
  <2> DEFINE r == [cmd |-> NoCommand, type |-> type]
  <2>1. /\ commands' = Append(commands, r)
        /\ UNCHANGED <<history, mutex, syncCmd, created, freed, fault>>
    BY <1>7, Zenon DEF Push
  <2>2. r \in Request /\ r.cmd = NoCommand
    BY DEF Request
  <2>3. NoCommand \notin Pending
    BY Zenon DEF Pending
  <2> HIDE DEF r
  <2>4. QueueOwns' /\ Pending' = Pending
    <3>1. QueueOwns' /\ Pending' = Pending \cup ({r.cmd} \ {NoCommand})
      BY <1>1, <1>2, <2>1, <2>2, <2>3, AppendOwns
    <3> QED BY <2>2, <3>1
  <2>5. Recorded' = Recorded /\ InFlight' = InFlight /\ (Crashed' <=> Crashed)
    BY <2>1, Zenon DEF Recorded, Elements, InFlight, Crashed
  <2> QED BY <1>2, <1>3, <2>1, <2>4, <2>5, Zenon DEF Distinct
<1>8. CASE Update \/ UpdateDone
  <2>1. /\ UNCHANGED <<commands, history, syncCmd, created, freed, fault>>
        /\ mutex # "sync"
    BY <1>8 DEF Update, UpdateDone, CallAllowed
  <2>2. /\ Pending' = Pending /\ Recorded' = Recorded /\ InFlight' = InFlight
        /\ (Crashed' <=> Crashed) /\ QueueOwns'
    BY <1>2, <2>1, Zenon
       DEF Pending, Recorded, Elements, InFlight, Crashed, QueueOwns
  <2> QED BY <1>2, <1>3, <2>1, <2>2, Zenon DEF Distinct
<1>9. CASE Drain
  <2> DEFINE r == Head(commands)
  <2>1. /\ ~Crashed /\ commands # << >> /\ DoCmd(r)
        /\ commands' = Tail(commands)
        /\ UNCHANGED <<mutex, syncCmd, created>>
    BY <1>9, Zenon DEF Drain
  <2>2. /\ QueueOwns'
        /\ Pending = Pending' \cup ({r.cmd} \ {NoCommand})
        /\ r.cmd \notin Pending'
        /\ r.type # "execute" => r.cmd = NoCommand
    BY <1>1, <1>2, <2>1, DropOwns
  <2>3. InFlight' = InFlight
    BY <2>1, Zenon DEF InFlight
  <2>4. CASE r.type # "execute"
    <3>1. history' = history /\ freed' = freed
      BY <2>1, <2>4, StepOwns, Zenon DEF DoCmd
    <3>2. Pending' = Pending
      BY <2>2, <2>4
    <3>3. Recorded' = Recorded
      BY <3>1, Zenon DEF Recorded, Elements
    <3> QED BY <1>2, <1>3, <2>1, <2>2, <2>3, <3>1, <3>2, <3>3, Zenon
            DEF Distinct
  <2>5. CASE r.type = "execute"
    <3>1. r.cmd \in Command
      BY <1>1, <2>1, <2>5, DropRequestHead
    <3>2. ExecuteNow(r.cmd)
      BY <2>1, <2>5 DEF DoCmd
    <3>3. r.cmd # NoCommand /\ r.cmd \in Pending
      BY <2>2, <3>1, NoCommandAssumption
    <3> HIDE DEF r
    <3>4. r.cmd \notin Recorded
      BY <1>2, <3>3
    <3>5. /\ Distinct(history')
          /\ Recorded' \subseteq Recorded \cup {r.cmd}
          /\ freed' = freed \cup (Recorded \ Recorded')
          /\ r.cmd \in Recorded' \/ Crashed'
      BY <1>1, <1>2, <3>1, <3>2, <3>4, ExecuteNowOwns
    <3>6. ~Crashed' =>
            created' = Pending' \cup Recorded' \cup InFlight' \cup freed'
      <4> SUFFICES ASSUME r.cmd \in Recorded'
                   PROVE  created' = Pending' \cup Recorded' \cup InFlight' \cup freed'
        BY <3>5
      <4>1. created = Pending \cup Recorded \cup InFlight \cup freed
        BY <1>2, <2>1, Zenon
      <4> QED BY <2>1, <2>2, <2>3, <3>3, <3>5, <4>1
    <3>7. Pending' \cup Recorded' \cup InFlight' \cup freed' \subseteq created'
      BY <1>2, <2>1, <2>2, <2>3, <3>3, <3>5
    <3>8. /\ (Pending' \cup Recorded' \cup InFlight') \cap freed' = {}
          /\ Pending' \cap Recorded' = {}
          /\ InFlight' \cap (Pending' \cup Recorded') = {}
      BY <1>2, <2>2, <2>3, <3>3, <3>5
    <3> QED BY <1>2, <1>3, <2>1, <2>2, <3>5, <3>6, <3>7, <3>8, Zenon
  <2> QED BY <2>4, <2>5
<1>10. CASE SyncDone
  <2>1. /\ ~Crashed /\ mutex = "sync" /\ ExecuteNow(syncCmd)
        /\ mutex' = "free" /\ syncCmd' = NoCommand
        /\ UNCHANGED <<commands, created>>
    BY <1>10, Zenon DEF SyncDone
  <2>2. syncCmd \in Command
    BY <1>1, <2>1, Zenon DEF CallsOK
  <2>3. InFlight = {syncCmd} /\ InFlight' = {}
    BY <2>1, <2>2, NoCommandAssumption DEF InFlight
  <2>4. Pending' = Pending /\ QueueOwns'
    BY <1>2, <2>1, Zenon DEF Pending, QueueOwns
  <2>5. syncCmd \notin Recorded
    BY <1>2, <2>3
  <2>6. /\ Distinct(history')
        /\ Recorded' \subseteq Recorded \cup {syncCmd}
        /\ freed' = freed \cup (Recorded \ Recorded')
        /\ syncCmd \in Recorded' \/ Crashed'
    BY <1>1, <1>2, <2>1, <2>2, <2>5, ExecuteNowOwns
  <2>7. ~Crashed' =>
          created' = Pending' \cup Recorded' \cup InFlight' \cup freed'
    <3> SUFFICES ASSUME syncCmd \in Recorded'
                 PROVE  created' = Pending' \cup Recorded' \cup InFlight' \cup freed'
      BY <2>6
    <3>1. created = Pending \cup Recorded \cup InFlight \cup freed
      BY <1>2, <2>1, Zenon
    <3> QED BY <2>1, <2>3, <2>4, <2>6, <3>1
  <2>8. Pending' \cup Recorded' \cup InFlight' \cup freed' \subseteq created'
    BY <1>2, <2>1, <2>3, <2>4, <2>6
  <2>9. /\ (Pending' \cup Recorded' \cup InFlight') \cap freed' = {}
        /\ Pending' \cap Recorded' = {}
        /\ InFlight' \cap (Pending' \cup Recorded') = {}
    BY <1>2, <2>3, <2>4, <2>6
  <2> QED BY <1>3, <2>1, <2>4, <2>6, <2>7, <2>8, <2>9, Zenon
<1>11. CASE Clear
  <2>1. /\ ~Crashed /\ mutex = "free"
        /\ commands' = << >> /\ history' = << >>
        /\ freed' = freed \cup
             ((Elements(history) \cup {r.cmd : r \in Elements(commands)})
                \ {NoCommand})
        /\ UNCHANGED <<mutex, syncCmd, created>>
    BY <1>11, Zenon DEF Clear, CallAllowed
  <2>2. \A i \in 1..Len(<< >>) : FALSE
    BY EmptySeq
  <2>3. /\ Pending' = {} /\ Recorded' = {} /\ QueueOwns' /\ Distinct(history')
    BY <2>1, <2>2, Zenon DEF Pending, Recorded, Elements, QueueOwns, Distinct
  <2>4. InFlight = {} /\ InFlight' = {}
    BY <1>2, <2>1 DEF InFlight
  <2>5. freed' = freed \cup Recorded \cup Pending
    <3>1. {r.cmd : r \in Elements(commands)} \ {NoCommand} = Pending
      BY Zenon DEF Elements, Pending
    <3> QED BY <2>1, <3>1, Zenon DEF Recorded
  <2>6. created' = Pending' \cup Recorded' \cup InFlight' \cup freed'
    BY <1>2, <2>1, <2>3, <2>4, <2>5
  <2> QED BY <1>2, <1>3, <2>1, <2>3, <2>4, <2>6
<1>12. CASE UNCHANGED vars
  <2>1. /\ Pending' = Pending /\ Recorded' = Recorded /\ InFlight' = InFlight
        /\ freed' = freed /\ created' = created /\ mutex' = mutex
        /\ syncCmd' = syncCmd /\ history' = history /\ commands' = commands
        /\ (Crashed' <=> Crashed)
    BY <1>12, Zenon DEF vars, Pending, Recorded, Elements, InFlight, Crashed
  <2> QED BY <1>2, <1>3, <2>1, Zenon DEF Distinct, QueueOwns
<1> QED BY <1>4, <1>5, <1>6, <1>7, <1>8, <1>9, <1>10, <1>11, <1>12, Zenon
        DEF Next, Redo, Cancel

\* No command is used or deleted after its deletion, none is leaked, and each
\* is in one place only, for every sequence of calls, any history size and
\* also beyond the overflow of the history.
THEOREM CommandsAreOwnedOnce == Spec => []OwnedOnce
<1>1. OwnInv => OwnedOnce
  BY DEF OwnInv, OwnershipOK
<1>2. Spec => []OwnInv
  BY InitOwn, NextOwn, PTL DEF Spec
<1> QED BY <1>1, <1>2, PTL

-----------------------------------------------------------------------------
(***************************************************************************)
(* The refinement of UndoLog: CmdManager implements it as long as no       *)
(* Execute is called with requests still queued and the history does not   *)
(* overflow, and in those runs the commands up to m_historyPC are the ones *)
(* in effect.                                                              *)
(***************************************************************************)

-----------------------------------------------------------------------------
(* The two stacks an undo log makes of a history that is divided at k *)

\* What the stacks consist of.
LEMMA StackFacts ==
  ASSUME NEW S, NEW h \in Seq(S), NEW k \in 0..Len(h)
  PROVE  /\ SubSeq(h, 1, k) \in Seq(S) /\ Len(SubSeq(h, 1, k)) = k
         /\ \A i \in 1..k : SubSeq(h, 1, k)[i] = h[i]
         /\ SubSeq(h, k + 1, Len(h)) \in Seq(S)
         /\ Len(SubSeq(h, k + 1, Len(h))) = Len(h) - k
<1>1. Len(h) \in Nat /\ \A i \in 1..Len(h) : h[i] \in S
  BY LenProperties, ElementOfSeq
<1>2. \A i \in 1..k : h[i] \in S
  BY <1>1
<1>3. \A i \in (k + 1)..Len(h) : h[i] \in S
  BY <1>1
<1>4. /\ SubSeq(h, 1, k) \in Seq(S)
      /\ Len(SubSeq(h, 1, k)) = IF 1 <= k THEN k - 1 + 1 ELSE 0
      /\ \A i \in 1..(k - 1 + 1) : SubSeq(h, 1, k)[i] = h[1 + i - 1]
  BY <1>1, <1>2, SubSeqProperties
<1>5. /\ SubSeq(h, k + 1, Len(h)) \in Seq(S)
      /\ Len(SubSeq(h, k + 1, Len(h))) =
           IF k + 1 <= Len(h) THEN Len(h) - (k + 1) + 1 ELSE 0
  BY <1>1, <1>3, SubSeqProperties
<1> QED BY <1>1, <1>4, <1>5

\* Dividing one element earlier undoes the last command done.
LEMMA StackUndo ==
  ASSUME NEW S, NEW h \in Seq(S), NEW k \in 1..Len(h)
  PROVE  LET done == SubSeq(h, 1, k)
             undone == SubSeq(h, k + 1, Len(h))
         IN /\ done # << >>
            /\ SubSeq(h, 1, k - 1) = SubSeq(done, 1, Len(done) - 1)
            /\ SubSeq(h, k, Len(h)) = <<done[Len(done)]>> \o undone
<1> DEFINE done == SubSeq(h, 1, k)
<1>1. Len(h) \in Nat /\ k \in 0..Len(h) /\ k - 1 \in 0..Len(h)
  BY LenProperties
<1>2. /\ done \in Seq(S) /\ Len(done) = k /\ \A i \in 1..k : done[i] = h[i]
      /\ SubSeq(h, 1, k - 1) \in Seq(S) /\ Len(SubSeq(h, 1, k - 1)) = k - 1
      /\ \A i \in 1..(k - 1) : SubSeq(h, 1, k - 1)[i] = h[i]
  BY <1>1, StackFacts
<1> HIDE DEF done
<1>3. done # << >> /\ done[Len(done)] = h[k]
  BY <1>1, <1>2, EmptySeq
<1>4. /\ SubSeq(done, 1, k - 1) \in Seq(S) /\ Len(SubSeq(done, 1, k - 1)) = k - 1
      /\ \A i \in 1..(k - 1) : SubSeq(done, 1, k - 1)[i] = done[i]
  <2>1. k - 1 \in 0..Len(done)
    BY <1>1, <1>2
  <2> QED BY <1>2, <2>1, StackFacts
<1>5. SubSeq(h, 1, k - 1) = SubSeq(done, 1, k - 1)
  <2>1. \A i \in 1..(k - 1) : SubSeq(h, 1, k - 1)[i] = SubSeq(done, 1, k - 1)[i]
    BY <1>1, <1>2, <1>4
  <2> QED BY <1>2, <1>4, <2>1, SeqEqual
<1>6. SubSeq(h, k, Len(h)) = <<h[k]>> \o SubSeq(h, k + 1, Len(h))
  BY <1>1, SubSeqRecursiveFirst
<1> QED BY <1>2, <1>3, <1>5, <1>6 DEF done

\* Dividing one element later redoes the next command.
LEMMA StackRedo ==
  ASSUME NEW S, NEW h \in Seq(S), NEW k \in 0..(Len(h) - 1)
  PROVE  LET done == SubSeq(h, 1, k)
             undone == SubSeq(h, k + 1, Len(h))
         IN /\ undone # << >>
            /\ SubSeq(h, 1, k + 1) = Append(done, Head(undone))
            /\ SubSeq(h, k + 2, Len(h)) = Tail(undone)
<1> DEFINE done == SubSeq(h, 1, k)
           undone == SubSeq(h, k + 1, Len(h))
           both == SubSeq(h, 1, k + 1)
<1>1. /\ Len(h) \in Nat /\ k \in 0..Len(h) /\ k + 1 \in 0..Len(h)
      /\ k + 1 \in 1..Len(h) /\ Len(h) \in (k + 1)..Len(h) /\ (k + 1) + 1 = k + 2
  BY LenProperties
<1>2. /\ done \in Seq(S) /\ Len(done) = k /\ \A i \in 1..k : done[i] = h[i]
      /\ undone \in Seq(S) /\ Len(undone) = Len(h) - k
      /\ both \in Seq(S) /\ Len(both) = k + 1 /\ \A i \in 1..(k + 1) : both[i] = h[i]
  BY <1>1, StackFacts
<1>3. Head(undone) = h[k + 1] /\ Tail(undone) = SubSeq(h, (k + 1) + 1, Len(h))
  BY <1>1, HeadTailOfSubSeq
<1> HIDE DEF done, undone, both
<1>4. undone # << >> /\ h[k + 1] \in S
  BY <1>1, <1>2, EmptySeq, ElementOfSeq
<1>5. both = Append(done, h[k + 1])
  <2>1. /\ Append(done, h[k + 1]) \in Seq(S) /\ Len(Append(done, h[k + 1])) = k + 1
        /\ \A i \in 1..k : Append(done, h[k + 1])[i] = done[i]
        /\ Append(done, h[k + 1])[k + 1] = h[k + 1]
    BY <1>2, <1>4, AppendProperties
  <2>2. \A i \in 1..(k + 1) : both[i] = Append(done, h[k + 1])[i]
    BY SMTT(30), <1>1, <1>2, <2>1
  <2> QED BY <1>2, <2>1, <2>2, SeqEqual
<1> QED BY <1>1, <1>3, <1>4, <1>5 DEF done, undone, both

-----------------------------------------------------------------------------
(* What DoCmd does to a history that has not overflowed *)

\* Redo does nothing or moves the program counter up.
LEMMA RedoNowLog ==
  ASSUME HistoryOK, ~overflowed, RedoNow
  PROVE  /\ UNCHANGED <<history, overflowed>>
         /\ \/ UNCHANGED <<historyPC, applied>>
            \/ /\ historyPC + 1 \in 0..(Len(history) - 1)
               /\ historyPC' = historyPC + 1
               /\ applied' = applied \cup {history[historyPC + 2]}
<1>1. /\ history \in Seq(Entry) /\ historyPC \in Int /\ historyPC >= -1
      /\ Len(history) \in Nat /\ historyPC < Len(history)
      /\ NoCommand \notin Elements(history)
  BY LenProperties DEF HistoryOK, PCNamesACommand, None
<1>2. CASE CannotRedo
  BY <1>2, Zenon DEF RedoNow
<1>3. CASE ~CannotRedo
  <2>1. historyPC + 1 \in 0..(Len(history) - 1)
    BY <1>1, <1>3, EmptySeq DEF CannotRedo, None
  <2>2. history[historyPC + 2] # NoCommand
    <3>1. historyPC + 2 \in 1..Len(history)
      BY <1>1, <2>1
    <3> QED BY <1>1, <3>1 DEF Elements
  <2>3. /\ UNCHANGED <<history, overflowed>> /\ historyPC' = historyPC + 1
        /\ applied' = applied \cup {history[historyPC + 2]}
    BY <1>3, <2>2, Zenon DEF RedoNow
  <2> QED BY <2>1, <2>3
<1> QED BY <1>2, <1>3

\* Undo does nothing or moves it down.
LEMMA UndoNowLog ==
  ASSUME HistoryOK, ~overflowed, UndoNow
  PROVE  /\ UNCHANGED <<history, overflowed>>
         /\ \/ UNCHANGED <<historyPC, applied>>
            \/ /\ historyPC \in 0..(Len(history) - 1)
               /\ historyPC' = historyPC - 1
               /\ applied' = applied \ {history[historyPC + 1]}
<1>1. /\ history \in Seq(Entry) /\ historyPC \in Int /\ historyPC >= -1
      /\ Len(history) \in Nat /\ historyPC < Len(history)
      /\ NoCommand \notin Elements(history)
  BY LenProperties DEF HistoryOK, PCNamesACommand, None
<1>2. CASE history = << >> \/ historyPC = None
  BY <1>2, Zenon DEF UndoNow
<1>3. CASE ~(history = << >> \/ historyPC = None)
  <2>1. historyPC \in 0..(Len(history) - 1) /\ ~(historyPC >= Len(history))
    BY <1>1, <1>3 DEF None
  <2>2. history[historyPC + 1] # NoCommand
    <3>1. historyPC + 1 \in 1..Len(history)
      BY <1>1, <2>1
    <3> QED BY <1>1, <3>1 DEF Elements
  <2>3. /\ UNCHANGED <<history, overflowed>> /\ historyPC' = historyPC - 1
        /\ applied' = applied \ {history[historyPC + 1]}
    BY <1>3, <2>1, <2>2, Zenon DEF UndoNow
  <2> QED BY <2>1, <2>3
<1> QED BY <1>2, <1>3

\* The private Execute puts the command at the end of a history without
\* undone commands.
LEMMA ExecuteNowLog ==
  ASSUME HistoryOK, ~overflowed', NEW c \in Command, ExecuteNow(c),
         Len(history) = historyPC + 1
  PROVE  /\ history' = Append(history, c)
         /\ historyPC' = historyPC + 1
         /\ applied' = applied \cup {c}
<1>1. /\ history \in Seq(Entry) /\ historyPC \in Int /\ historyPC >= -1
      /\ Len(history) \in Nat
  BY LenProperties DEF HistoryOK, None
<1>2. ~(historyPC # None /\ historyPC >= Len(history))
  BY <1>1
<1> DEFINE grown == Append(TrimUndone(history, historyPC), c)
           full == historyPC + 1 >= MaxHistorySize
<1>3. /\ history' = IF full THEN Tail(grown) ELSE grown
      /\ historyPC' = historyPC + 1
      /\ applied' = (applied \ (IF full THEN {Head(grown)} ELSE {})) \cup {c}
      /\ overflowed' = (overflowed \/ full)
  BY <1>2, Zenon DEF ExecuteNow
<1>4. TrimUndone(history, historyPC) = history
  <2>1. SubSeq(history, 1, Len(history)) = history
    BY <1>1, SubSeqFull
  <2> QED BY <2>1 DEF TrimUndone
<1>5. ~full
  BY <1>3, Zenon
<1> QED BY <1>3, <1>4, <1>5, Zenon

-----------------------------------------------------------------------------
(* The inductive invariant *)

HasExecute == commands # << >> /\ commands[1].type = "execute"

\* An Execute that is to come finds a history without undone commands: only
\* the oldest request can be one, and what undid something came before it.
RegularInv ==
  Regular =>
    /\ \A i \in 2..Len(commands) : commands[i].type # "execute"
    /\ mutex = "sync" => commands = << >>
    /\ HasExecute \/ mutex = "sync" => Len(history) = historyPC + 1
    /\ AppliedIsPrefix

LogInv == OwnInv /\ RegularInv

\* What a step does to the history, m_historyPC and the commands in effect.
HistoryStays == UNCHANGED <<history, historyPC, applied>>
HistoryDoes(c) ==
  /\ Len(history) = historyPC + 1
  /\ history' = Append(history, c)
  /\ historyPC' = historyPC + 1
  /\ applied' = applied \cup {c}
HistoryUndoes ==
  /\ historyPC \in 0..(Len(history) - 1)
  /\ history' = history
  /\ historyPC' = historyPC - 1
  /\ applied' = applied \ {history[historyPC + 1]}
HistoryRedoes ==
  /\ historyPC + 1 \in 0..(Len(history) - 1)
  /\ history' = history
  /\ historyPC' = historyPC + 1
  /\ applied' = applied \cup {history[historyPC + 2]}
HistoryForgets ==
  /\ history' = Truncated(history, historyPC)
  /\ UNCHANGED <<historyPC, applied>>
HistoryClears == history' = << >> /\ historyPC' = None /\ applied' = {}

\* A regular run stays one only if it was one.
LEMMA RegularBefore ==
  ASSUME [Next]_vars, Regular'
  PROVE  Regular
<1>1. mixed => mixed'
  BY Zenon DEF Next, vars, ExecuteAsync, ExecuteSync, ExecuteForce, ExecuteCall, Redo,
     Cancel, Push, Update, Drain, UpdateDone, SyncDone, Clear
<1>2. ASSUME NEW c, ExecuteNow(c), overflowed PROVE overflowed'
  BY <1>2, Zenon DEF ExecuteNow
<1>3. ASSUME NEW r, DoCmd(r), overflowed PROVE overflowed'
  BY <1>2, <1>3, Zenon DEF DoCmd, RedoNow, UndoNow
<1>4. overflowed => overflowed'
  BY <1>2, <1>3, Zenon DEF Next, vars, ExecuteAsync, ExecuteSync, ExecuteForce,
     ExecuteCall, Redo, Cancel, Push, Update, Drain, UpdateDone, SyncDone, Clear
<1> QED BY <1>1, <1>4 DEF Regular

\* Every step of a regular run does one of these six things.
LEMMA RegularSteps ==
  ASSUME LogInv, [Next]_vars, Regular'
  PROVE  \/ HistoryStays \/ \E c \in Command : HistoryDoes(c)
         \/ HistoryUndoes \/ HistoryRedoes \/ HistoryForgets \/ HistoryClears
<1>1. Regular /\ ~overflowed /\ ~overflowed'
  BY RegularBefore DEF Regular
<1>2. /\ HistoryOK /\ CallsOK
      /\ HasExecute \/ mutex = "sync" => Len(history) = historyPC + 1
  BY <1>1, Zenon DEF LogInv, OwnInv, PCInv, RegularInv
<1>3. ASSUME NEW c \in Command, ExecuteAsync(c) \/ ExecuteSync(c) \/ ExecuteForce(c)
      PROVE  HistoryForgets
  BY <1>3, Zenon DEF ExecuteAsync, ExecuteSync, ExecuteForce, ExecuteCall, HistoryForgets
<1>4. CASE Redo \/ Cancel \/ Update \/ UpdateDone \/ UNCHANGED vars
  BY <1>4, Zenon DEF Redo, Cancel, Push, Update, UpdateDone, vars, HistoryStays
<1>5. CASE Clear
  BY <1>5, Zenon DEF Clear, HistoryClears
<1>6. CASE SyncDone
  <2>1. mutex = "sync" /\ ExecuteNow(syncCmd) /\ syncCmd \in Command
    BY <1>2, <1>6, Zenon DEF SyncDone, CallsOK
  <2>2. HistoryDoes(syncCmd)
    BY <1>1, <1>2, <2>1, ExecuteNowLog DEF HistoryDoes
  <2> QED BY <2>1, <2>2
<1>7. CASE Drain
  <2>1. commands # << >> /\ DoCmd(Head(commands))
    BY <1>7 DEF Drain
  <2>2. Head(commands) = commands[1]
    OBVIOUS
  <2>3. CASE Head(commands).type = "redo" /\ RedoNow
    BY <1>1, <1>2, <2>3, RedoNowLog DEF HistoryStays, HistoryRedoes
  <2>4. CASE Head(commands).type = "undo" /\ UndoNow
    BY <1>1, <1>2, <2>4, UndoNowLog DEF HistoryStays, HistoryUndoes
  <2>5. CASE Head(commands).type = "execute" /\ ExecuteNow(Head(commands).cmd)
    <3>1. PICK c \in Command : c = Head(commands).cmd
      BY <1>2, <2>1, <2>5, DropRequestHead
    <3>2. Len(history) = historyPC + 1
      BY <1>2, <2>1, <2>2, <2>5, Zenon DEF HasExecute
    <3>3. ExecuteNow(c)
      BY <2>5, <3>1, Zenon
    <3>4. HistoryDoes(c)
      BY <1>1, <1>2, <3>2, <3>3, ExecuteNowLog DEF HistoryDoes
    <3> QED BY <3>4
  <2> QED BY <2>1, <2>3, <2>4, <2>5, Zenon DEF DoCmd
<1> QED BY <1>3, <1>4, <1>5, <1>6, <1>7, Zenon DEF Next

\* The commands in effect stay the ones up to m_historyPC.
LEMMA PrefixKept ==
  ASSUME LogInv, [Next]_vars
  PROVE  AppliedIsPrefix'
<1> DEFINE prefix == {history[i] : i \in 1..(historyPC + 1)}
<1> SUFFICES ASSUME Regular' PROVE applied' = prefix'
  BY DEF AppliedIsPrefix
<1>1. Regular /\ ~overflowed
  BY RegularBefore DEF Regular
<1>2. /\ history \in Seq(Entry) /\ historyPC \in Int /\ historyPC >= -1
      /\ Len(history) \in Nat /\ historyPC < Len(history)
      /\ NoCommand \notin Elements(history) /\ Distinct(history)
      /\ applied = prefix
  BY <1>1, LenProperties DEF LogInv, OwnInv, PCInv, HistoryOK, PCNamesACommand, None,
     OwnershipOK, OwnedOnce, Distinct, RegularInv, AppliedIsPrefix
<1>3. CASE HistoryStays
  BY <1>2, <1>3 DEF HistoryStays
<1>4. ASSUME NEW c \in Command, HistoryDoes(c) PROVE applied' = prefix'
  <2>1. /\ \A i \in 1..Len(history) : history'[i] = history[i]
        /\ history'[Len(history) + 1] = c
    BY <1>2, <1>4, AppendProperties DEF HistoryDoes, Entry
  <2>2. 1..(historyPC' + 1) = 1..Len(history) \cup {Len(history) + 1}
    BY <1>2, <1>4 DEF HistoryDoes
  <2>3. historyPC + 1 = Len(history)
    BY <1>4 DEF HistoryDoes
  <2>4. prefix' = {history[i] : i \in 1..Len(history)} \cup {c}
    BY <2>1, <2>2
  <2> QED BY <1>2, <1>4, <2>3, <2>4 DEF HistoryDoes
<1>5. CASE HistoryUndoes
  <2>1. /\ historyPC + 1 \in 1..Len(history)
        /\ 1..(historyPC' + 1) = 1..(historyPC + 1) \ {historyPC + 1}
        /\ 1..(historyPC + 1) \subseteq 1..Len(history)
    BY <1>2, <1>5 DEF HistoryUndoes
  <2>2. \A i \in 1..Len(history) : history[i] = history[historyPC + 1] => i = historyPC + 1
    BY <1>2, <2>1 DEF Distinct, Elements
  <2>3. prefix' = {history[i] : i \in 1..(historyPC' + 1)}
    BY <1>5 DEF HistoryUndoes
  <2>4. {history[i] : i \in 1..(historyPC' + 1)} = prefix \ {history[historyPC + 1]}
    BY <2>1, <2>2
  <2> QED BY <1>2, <1>5, <2>3, <2>4 DEF HistoryUndoes
<1>6. CASE HistoryRedoes
  <2>1. 1..(historyPC' + 1) = 1..(historyPC + 1) \cup {historyPC + 2}
    BY <1>2, <1>6 DEF HistoryRedoes
  <2>2. prefix' = prefix \cup {history[historyPC + 2]}
    BY <1>6, <2>1 DEF HistoryRedoes
  <2> QED BY <1>2, <1>6, <2>2 DEF HistoryRedoes
<1>7. CASE HistoryForgets
  <2>1. \A i \in 1..(historyPC + 1) :
          Truncated(history, historyPC)[i] = IF i <= Len(history) THEN history[i] ELSE NoCommand
    BY <1>2, TruncatedFacts DEF None
  <2>2. \A i \in 1..(historyPC + 1) : history'[i] = history[i]
    BY <1>2, <1>7, <2>1 DEF HistoryForgets
  <2> QED BY <1>2, <1>7, <2>2 DEF HistoryForgets
<1>8. CASE HistoryClears
  BY <1>8 DEF HistoryClears, None
<1> QED BY <1>3, <1>4, <1>5, <1>6, <1>7, <1>8, RegularSteps

\* A new manager has nothing to execute and nothing in effect.
LEMMA InitLog == Init => LogInv
<1> SUFFICES ASSUME Init PROVE RegularInv
  BY InitOwn DEF LogInv
<1>1. Len(commands) = 0 /\ ~HasExecute
  BY EmptySeq DEF Init, HasExecute
<1>2. mutex = "free" /\ applied = {} /\ historyPC + 1 = 0
  BY DEF Init, None
<1>3. AppliedIsPrefix
  BY <1>2 DEF AppliedIsPrefix
<1> QED BY <1>1, <1>2, <1>3 DEF RegularInv

\* Executions stay in front of the queue, and find nothing undone.
LEMMA QueueKept ==
  ASSUME LogInv, [Next]_vars, Regular'
  PROVE  /\ \A i \in 2..Len(commands') : commands'[i].type # "execute"
         /\ mutex' = "sync" => commands' = << >>
         /\ HasExecute' \/ mutex' = "sync" => Len(history') = historyPC' + 1
<1>1. Regular
  BY RegularBefore
<1>2. /\ \A i \in 2..Len(commands) : commands[i].type # "execute"
      /\ mutex = "sync" => commands = << >>
      /\ HasExecute \/ mutex = "sync" => Len(history) = historyPC + 1
      /\ commands \in Seq(Request) /\ Len(commands) \in Nat
      /\ mutex \in {"free", "update", "sync"}
      /\ history \in Seq(Entry) /\ historyPC \in Int /\ historyPC >= None
  BY <1>1, LenProperties DEF LogInv, OwnInv, PCInv, HistoryOK, CallsOK, RegularInv
<1>3. ASSUME commands' = << >> PROVE Len(commands') = 0 /\ ~HasExecute'
  BY <1>3, EmptySeq DEF HasExecute
<1>4. ASSUME NEW c \in Command, ExecuteCall(c)
      PROVE  commands = << >> /\ Len(commands) = 0 /\ mutex = "free"
             /\ Len(history') = historyPC' + 1
  <2>1. commands = << >> /\ mutex = "free"
    BY <1>4, Zenon DEF ExecuteCall, CallAllowed, Regular
  <2>2. history' = Truncated(history, historyPC) /\ historyPC' = historyPC
    BY <1>4, Zenon DEF ExecuteCall
  <2>3. Len(Truncated(history, historyPC)) = historyPC + 1
    BY <1>2, TruncatedFacts
  <2> QED BY <2>1, <2>2, <2>3, EmptySeq
<1> DEFINE InFront == \A i \in 2..Len(commands) : commands[i].type # "execute"
           Ready == HasExecute \/ mutex = "sync" => Len(history) = historyPC + 1
<1>5. ASSUME NEW c \in Command, ExecuteAsync(c)
      PROVE  InFront' /\ Ready' /\ mutex' # "sync"
  <2>1. ExecuteCall(c) /\ mutex' = mutex /\ \E r \in Request : commands' = Append(commands, r)
    <3>1. [cmd |-> c, type |-> "execute"] \in Request
      BY DEF Request
    <3> QED BY <1>5, <3>1, Zenon DEF ExecuteAsync
  <2>2. Len(commands') = 1
    BY <1>2, <1>4, <2>1, AppendProperties
  <2> QED BY <1>4, <2>1, <2>2
<1>6. ASSUME NEW c \in Command, ExecuteSync(c)
      PROVE  InFront' /\ Ready' /\ commands' = << >>
  BY <1>4, <1>6 DEF ExecuteSync
<1>7. ASSUME NEW c \in Command, ExecuteForce(c)
      PROVE  InFront' /\ Ready' /\ commands' = << >>
  BY <1>4, <1>7 DEF ExecuteForce
<1>8. CASE Redo \/ Cancel
  <2>1. PICK r \in Request : r.type # "execute" /\ commands' = Append(commands, r)
    <3>1. PICK type \in {"redo", "undo"} : Push(type)
      BY <1>8 DEF Redo, Cancel
    <3>2. [cmd |-> NoCommand, type |-> type] \in Request
      BY DEF Request
    <3>3. commands' = Append(commands, [cmd |-> NoCommand, type |-> type])
      BY <3>1 DEF Push
    <3> QED BY <3>2, <3>3
  <2>2. mutex = "free" /\ UNCHANGED <<mutex, history, historyPC>>
    BY <1>8 DEF Redo, Cancel, Push, CallAllowed
  <2>3. /\ Len(commands') = Len(commands) + 1
        /\ \A i \in 1..Len(commands) : commands'[i] = commands[i]
        /\ commands'[Len(commands) + 1] = r
    BY <1>2, <2>1, AppendProperties
  <2>4. InFront'
    <3> SUFFICES ASSUME NEW i \in 2..(Len(commands) + 1) PROVE commands'[i].type # "execute"
      BY <2>3
    <3>1. CASE i \in 1..Len(commands)
      BY <1>2, <2>3, <3>1
    <3>2. CASE i = Len(commands) + 1
      BY <2>1, <2>3, <3>2
    <3> QED BY <1>2, <3>1, <3>2
  <2>5. HasExecute' => HasExecute
    <3>1. CASE Len(commands) = 0
      BY <2>1, <2>3, <3>1 DEF HasExecute
    <3>2. CASE Len(commands) # 0
      <4>1. 1 \in 1..Len(commands) /\ commands # << >>
        BY <1>2, <3>2, EmptySeq
      <4> QED BY <2>3, <4>1 DEF HasExecute
    <3> QED BY <3>1, <3>2
  <2> QED BY <1>2, <2>2, <2>4, <2>5
<1>9. CASE Update \/ UpdateDone \/ UNCHANGED vars
  <2>1. /\ UNCHANGED <<commands, history, historyPC>>
        /\ mutex' # "sync" \/ mutex' = mutex
    BY <1>9 DEF Update, UpdateDone, vars
  <2> QED BY <1>2, <2>1 DEF HasExecute
<1>10. CASE Drain
  <2>1. commands # << >> /\ commands' = Tail(commands) /\ mutex' = mutex
    BY <1>10 DEF Drain
  <2>2. mutex' # "sync"
    BY <1>2, <2>1
  <2>3. /\ Len(commands') = Len(commands) - 1
        /\ \A i \in 1..Len(commands') : commands'[i] = commands[i + 1]
        /\ commands' \in Seq(Request)
    BY <1>2, <2>1, HeadTailProperties
  <2>4. \A i \in 1..Len(commands') : commands'[i].type # "execute"
    <3> TAKE i \in 1..Len(commands')
    <3>1. i + 1 \in 2..Len(commands)
      BY <1>2, <2>3
    <3> QED BY <1>2, <2>3, <3>1
  <2>5. Len(commands') \in Nat /\ (commands' # << >> => 1 \in 1..Len(commands'))
    BY <2>3, EmptySeq, LenProperties
  <2> QED BY <2>2, <2>4, <2>5 DEF HasExecute
<1>11. CASE SyncDone \/ Clear
  <2>1. commands' = << >> /\ mutex' = "free"
    BY <1>11 DEF SyncDone, Clear, CallAllowed
  <2> QED BY <1>3, <2>1
<1>12. \/ \E c \in Command : ExecuteAsync(c) \/ ExecuteSync(c) \/ ExecuteForce(c)
       \/ Redo \/ Cancel \/ Update \/ UpdateDone \/ UNCHANGED vars
       \/ Drain \/ SyncDone \/ Clear
  BY Zenon DEF Next
<1> QED BY <1>5, <1>6, <1>7, <1>8, <1>9, <1>10, <1>11, <1>12

\* So the invariant is inductive.
LEMMA NextLog == LogInv /\ [Next]_vars => LogInv'
<1> SUFFICES ASSUME LogInv, [Next]_vars PROVE LogInv'
  OBVIOUS
<1>1. OwnInv'
  BY NextOwn DEF LogInv
<1>2. RegularInv'
  BY PrefixKept, QueueKept DEF RegularInv
<1> QED BY <1>1, <1>2 DEF LogInv

\* It holds in every reachable state.
LEMMA LogIsInvariant == Spec => []LogInv
BY InitLog, NextLog, PTL DEF Spec

\* In every regular run the commands up to m_historyPC are exactly the ones in
\* effect, for any number of commands and any history size.
THEOREM AppliedIsAlwaysThePrefix == Spec => []AppliedIsPrefix
<1>1. LogInv => AppliedIsPrefix
  BY Zenon DEF LogInv, RegularInv, AppliedIsPrefix
<1> QED BY <1>1, LogIsInvariant, PTL

-----------------------------------------------------------------------------
(* The refinement *)

\* The manager begins with an empty log.
LEMMA InitRefines == Init => Log!Init
<1> SUFFICES ASSUME Init PROVE Log!Init
  OBVIOUS
<1>1. historyPC + 1 < 1 /\ Len(history) < historyPC + 2
  BY EmptySeq DEF Init, None
<1>2. historyPC + 1 \in Int /\ historyPC + 2 \in Int /\ Len(history) \in Int
  BY EmptySeq DEF Init, None
<1> QED BY <1>1, <1>2, SubSeqEmpty DEF Log!Init

\* Each of the six things a regular step does is a step of the log or none.
LEMMA StepRefines ==
  ASSUME LogInv, [Next]_vars, Regular'
  PROVE  [Log!Next]_(Log!vars)
<1> DEFINE done == SubSeq(history, 1, historyPC + 1)
           undone == SubSeq(history, historyPC + 2, Len(history))
<1>1. Regular /\ ~overflowed
  BY RegularBefore DEF Regular
<1>2. /\ history \in Seq(Entry) /\ historyPC \in Int /\ historyPC >= -1
      /\ Len(history) \in Nat /\ historyPC < Len(history)
  BY <1>1, LenProperties DEF LogInv, OwnInv, PCInv, HistoryOK, PCNamesACommand, None
<1>3. CASE HistoryStays
  BY <1>3 DEF HistoryStays, Log!vars
<1>4. ASSUME NEW c \in Command, HistoryDoes(c) PROVE Log!Do(c)
  <2>1. Append(history, c) \in Seq(Entry) /\ Len(Append(history, c)) = Len(history) + 1
    BY <1>2, AppendProperties DEF Entry
  <2>2. done = history
    BY <1>2, <1>4, SubSeqFull DEF HistoryDoes
  <2>3. done' = Append(history, c)
    <3>1. SubSeq(Append(history, c), 1, Len(history) + 1) = Append(history, c)
      BY <2>1, SubSeqFull
    <3> QED BY <1>4, <3>1 DEF HistoryDoes
  <2>4. undone' = << >>
    <3>1. historyPC' + 2 \in Int /\ Len(history') \in Int /\ Len(history') < historyPC' + 2
      BY <1>2, <1>4, <2>1 DEF HistoryDoes
    <3> QED BY <3>1, SubSeqEmpty
  <2> QED BY <2>2, <2>3, <2>4 DEF Log!Do
<1>5. CASE HistoryUndoes
  <2>1. historyPC + 1 \in 1..Len(history) /\ (historyPC + 1) + 1 = historyPC + 2
        /\ (historyPC + 1) - 1 = historyPC' + 1 /\ historyPC + 1 = historyPC' + 2
        /\ history' = history
    BY <1>2, <1>5 DEF HistoryUndoes
  <2>2. /\ done # << >>
        /\ SubSeq(history, 1, (historyPC + 1) - 1) = SubSeq(done, 1, Len(done) - 1)
        /\ SubSeq(history, historyPC + 1, Len(history))
             = <<done[Len(done)]>> \o SubSeq(history, (historyPC + 1) + 1, Len(history))
    BY <1>2, <2>1, StackUndo
  <2>3. done' = SubSeq(done, 1, Len(done) - 1) /\ undone' = <<done[Len(done)]>> \o undone
    BY <2>1, <2>2
  <2> QED BY <2>2, <2>3 DEF Log!Next, Log!Undo
<1>6. CASE HistoryRedoes
  <2>1. historyPC + 1 \in 0..(Len(history) - 1) /\ (historyPC + 1) + 1 = historyPC + 2
        /\ (historyPC + 1) + 1 = historyPC' + 1 /\ (historyPC + 1) + 2 = historyPC' + 2
        /\ history' = history
    BY <1>2, <1>6 DEF HistoryRedoes
  <2>2. /\ SubSeq(history, (historyPC + 1) + 1, Len(history)) # << >>
        /\ SubSeq(history, 1, (historyPC + 1) + 1)
             = Append(done, Head(SubSeq(history, (historyPC + 1) + 1, Len(history))))
        /\ SubSeq(history, (historyPC + 1) + 2, Len(history))
             = Tail(SubSeq(history, (historyPC + 1) + 1, Len(history)))
    BY <1>2, <2>1, StackRedo
  <2>3. undone # << >> /\ done' = Append(done, Head(undone)) /\ undone' = Tail(undone)
    BY <2>1, <2>2
  <2> QED BY <2>3 DEF Log!Next, Log!Redo
<1>7. CASE HistoryForgets
  <2>1. /\ history' \in Seq(Entry) /\ Len(history') = historyPC + 1
        /\ \A i \in 1..(historyPC + 1) : history'[i] = history[i]
        /\ historyPC' = historyPC
    <3>1. /\ Truncated(history, historyPC) \in Seq(Entry)
          /\ Len(Truncated(history, historyPC)) = historyPC + 1
          /\ \A i \in 1..(historyPC + 1) : Truncated(history, historyPC)[i] =
               IF i <= Len(history) THEN history[i] ELSE NoCommand
      BY <1>2, TruncatedFacts DEF None
    <3> QED BY <1>2, <1>7, <3>1 DEF HistoryForgets
  <2>2. undone' = << >>
    <3>1. historyPC' + 2 \in Int /\ Len(history') \in Int /\ Len(history') < historyPC' + 2
      BY <1>2, <2>1
    <3> QED BY <3>1, SubSeqEmpty
  <2>3. done' = done
    <3>1. historyPC + 1 \in 0..Len(history)
      BY <1>2
    <3>2. /\ done \in Seq(Entry) /\ Len(done) = historyPC + 1
          /\ \A i \in 1..(historyPC + 1) : done[i] = history[i]
      BY <1>2, <3>1, StackFacts
    <3>3. done' = history'
      BY <2>1, SubSeqFull
    <3>4. \A i \in 1..Len(done) : done[i] = history'[i]
      BY <2>1, <3>2
    <3> HIDE DEF done
    <3>5. done = history'
      BY <2>1, <3>2, <3>4, SeqEqual
    <3> QED BY <3>3, <3>5
  <2> QED BY <2>2, <2>3 DEF Log!Next, Log!Forget
<1>8. CASE HistoryClears
  <2>1. /\ historyPC' + 1 \in Int /\ historyPC' + 2 \in Int /\ Len(history') \in Int
        /\ historyPC' + 1 < 1 /\ Len(history') < historyPC' + 2
    BY <1>8, EmptySeq DEF HistoryClears, None
  <2>2. done' = << >> /\ undone' = << >>
    BY <2>1, SubSeqEmpty
  <2> QED BY <2>2 DEF Log!Next, Log!Clear
<1> QED BY <1>3, <1>4, <1>5, <1>6, <1>7, <1>8, RegularSteps DEF Log!Next

\* CmdManager implements the undo log: every step of a regular run is one step
\* of UndoLog or none, for any set of commands and any history size.
THEOREM CmdManagerImplementsUndoLog == Spec => ImplementsUndoLog
<1>1. LogInv /\ [Next]_vars => [Regular' => [Log!Next]_(Log!vars)]_vars
  BY StepRefines
<1> QED BY <1>1, InitRefines, LogIsInvariant, PTL DEF Spec, ImplementsUndoLog
=============================================================================
