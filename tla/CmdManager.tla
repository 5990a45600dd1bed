----------------------------- MODULE CmdManager -----------------------------
(***************************************************************************)
(* The command manager: a queue of requests (execute, undo, redo), and a   *)
(* history of executed commands with a program counter that separates the  *)
(* commands in effect from the undone ones (CmdManager.cpp).               *)
(*                                                                         *)
(* Every public operation holds the recursive m_mutex.  A drain of the     *)
(* queue is many steps here, one per DoCmd, with `mutex' held throughout.  *)
(* The code's UINT32_MAX ("nothing in effect") is -1: m_historyPC only     *)
(* steps by one and is compared with UINT32_MAX, so the wrap-around        *)
(* UINT32_MAX + 1 = 0 is exactly -1 + 1 = 0.  Positions of m_history are   *)
(* 0-based in the code: m_history[i] is history[i + 1] here.               *)
(***************************************************************************)
EXTENDS Integers, Sequences

CONSTANTS
  Command,          \* ReversibleCommand objects, each submitted once
  NoCommand,        \* nullptr
  MaxHistorySize,   \* m_maxHistorySize (128 in the code)
  MaxQueue          \* bound on m_commands

ASSUME NoCommandAssumption == NoCommand \notin Command
ASSUME HistoryAssumption == MaxHistorySize \in Nat \ {0}
ASSUME QueueAssumption == MaxQueue \in Nat

VARIABLES
  commands,    \* m_commands: requests [cmd, type]
  history,     \* m_history
  historyPC,   \* m_historyPC
  lastCmd,     \* the command m_lastCmdName names
  mutex,       \* "free", or the call that holds it: "update", "sync"
  syncCmd,     \* the command a synchronous Execute will run after the drain
  created,     \* ghost: commands handed to the manager
  freed,       \* ghost: commands deleted
  applied,     \* ghost: commands whose effect can still be undone
  fault,       \* ghost: what has gone wrong, "none" if nothing
  mixed,       \* ghost: Execute was called with requests still queued
  overflowed   \* ghost: the history has reached m_maxHistorySize

vars == <<commands, history, historyPC, lastCmd, mutex, syncCmd,
          created, freed, applied, fault, mixed, overflowed>>

None == -1

Request == [cmd : Command \cup {NoCommand}, type : {"redo", "undo", "execute"}]

\* Undefined behaviour ends the run; a failed SRHalt is reported and goes on.
Faults == {"none", "invalid_pc", "null_deref", "erase_from_empty"}
Crashed == fault \in {"null_deref", "erase_from_empty"}

Elements(s) == {s[i] : i \in 1..Len(s)}

Init ==
  /\ commands = << >>
  /\ history = << >>
  /\ historyPC = None
  /\ lastCmd = NoCommand
  /\ mutex = "free"
  /\ syncCmd = NoCommand
  /\ created = {}
  /\ freed = {}
  /\ applied = {}
  /\ fault = "none"
  /\ mixed = FALSE
  /\ overflowed = FALSE

-----------------------------------------------------------------------------
(* The private Execute(cmd) and DoCmd *)

\* while (m_history.size() - 1 != m_historyPC) erase the last: with the PC
\* beyond the end the loop empties the vector and then erases from it.
TrimUndone(h, pc) == IF pc = None THEN h ELSE SubSeq(h, 1, pc + 1)

ExecuteNow(c) ==
  IF historyPC # None /\ historyPC >= Len(history)
  THEN /\ fault' = "erase_from_empty"
       /\ freed' = freed \cup (Elements(history) \ {NoCommand})
       /\ history' = << >>
       /\ UNCHANGED <<historyPC, lastCmd, applied, overflowed>>
  ELSE LET grown == Append(TrimUndone(history, historyPC), c)
           full == historyPC + 1 >= MaxHistorySize
           kept == IF full THEN Tail(grown) ELSE grown
       IN /\ history' = kept
          /\ historyPC' = historyPC + 1
          /\ freed' = freed \cup
               ((Elements(history) \ Elements(kept)) \ {NoCommand})
          /\ applied' = (applied \ (IF full THEN {Head(grown)} ELSE {}))
                          \cup {c}
          /\ lastCmd' = c
          /\ overflowed' = (overflowed \/ full)
          /\ UNCHANGED fault

CannotRedo ==
  \/ historyPC >= Len(history) - 1 /\ historyPC # None
  \/ history = << >>

\* Defect: the command after the PC is redone, the PC stays.
RedoNow_StalePC ==
  \/ /\ CannotRedo
     /\ UNCHANGED <<history, historyPC, lastCmd, freed, applied, fault,
                    overflowed>>
  \/ /\ ~CannotRedo
     /\ LET c == history[historyPC + 2]
        IN lastCmd' = c /\ applied' = applied \cup {c}
     /\ UNCHANGED <<history, historyPC, freed, fault, overflowed>>

RedoNow ==
  \/ /\ CannotRedo
     /\ UNCHANGED <<history, historyPC, lastCmd, freed, applied, fault,
                    overflowed>>
  \/ /\ ~CannotRedo
     /\ historyPC' = historyPC + 1
     /\ LET c == history[historyPC + 2]
        IN IF c = NoCommand
           THEN /\ fault' = "null_deref"
                /\ UNCHANGED <<lastCmd, applied>>
           ELSE /\ lastCmd' = c
                /\ applied' = applied \cup {c}
                /\ UNCHANGED fault
     /\ UNCHANGED <<history, freed, overflowed>>

\* Defect: no check for "nothing in effect".
UndoNow_NoCheck ==
  /\ historyPC' = historyPC - 1
  /\ UNCHANGED <<history, lastCmd, freed, applied, fault, overflowed>>

UndoNow ==
  \/ /\ history = << >> \/ historyPC = None
     /\ UNCHANGED <<history, historyPC, lastCmd, freed, applied, fault,
                    overflowed>>
  \/ /\ history # << >> /\ historyPC # None
     /\ historyPC >= Len(history)
     /\ fault' = "invalid_pc"
     /\ UNCHANGED <<history, historyPC, lastCmd, freed, applied, overflowed>>
  \/ /\ history # << >> /\ historyPC # None
     /\ historyPC < Len(history)
     /\ historyPC' = historyPC - 1
     /\ LET c == history[historyPC + 1]
        IN IF c = NoCommand
           THEN /\ fault' = "null_deref"
                /\ UNCHANGED <<lastCmd, applied>>
           ELSE /\ lastCmd' = c
                /\ applied' = applied \ {c}
                /\ UNCHANGED fault
     /\ UNCHANGED <<history, freed, overflowed>>

DoCmd(r) ==
  \/ r.type = "redo" /\ RedoNow
  \/ r.type = "undo" /\ UndoNow
  \/ r.type = "execute" /\ ExecuteNow(r.cmd)

-----------------------------------------------------------------------------
(* The public operations *)

\* Defects: the element at the PC goes too; nothing goes.
Truncated_OffByOne(h, pc) == SubSeq(h, 1, pc)
Truncated_Keeps(h, pc) == h

\* What the public Execute does to the history before it dispatches: delete
\* everything above the PC; resize(m_historyPC + 1) grows the vector with
\* nullptr when the PC is beyond its end.
Truncated(h, pc) ==
  [i \in 1..(pc + 1) |-> IF i <= Len(h) THEN h[i] ELSE NoCommand]

Undone == {history[i] : i \in (historyPC + 2)..Len(history)} \ {NoCommand}

CallAllowed == mutex = "free" /\ ~Crashed

\* Common to the three kinds of Execute.
ExecuteCall(c) ==
  /\ CallAllowed
  /\ c \in Command \ created
  /\ created' = created \cup {c}
  /\ history' = Truncated(history, historyPC)
  /\ mixed' = (mixed \/ commands # << >>)
  /\ UNCHANGED <<historyPC, applied, fault, overflowed>>

ExecuteAsync(c) ==
  /\ ExecuteCall(c)
  /\ Len(commands) < MaxQueue
  /\ freed' = freed \cup Undone
  /\ commands' = Append(commands, [cmd |-> c, type |-> "execute"])
  /\ UNCHANGED <<lastCmd, mutex, syncCmd>>

ExecuteSync(c) ==
  /\ ExecuteCall(c)
  /\ freed' = freed \cup Undone
  /\ mutex' = "sync"
  /\ syncCmd' = c
  /\ UNCHANGED <<commands, lastCmd>>

\* Redo() at once, then delete: never in the history, can never be undone.
ExecuteForce(c) ==
  /\ ExecuteCall(c)
  /\ freed' = freed \cup Undone \cup {c}
  /\ UNCHANGED <<commands, lastCmd, mutex, syncCmd>>

Push(type) ==
  /\ CallAllowed
  /\ Len(commands) < MaxQueue
  /\ commands' = Append(commands, [cmd |-> NoCommand, type |-> type])
  /\ UNCHANGED <<history, historyPC, lastCmd, mutex, syncCmd,
                 created, freed, applied, fault, mixed, overflowed>>

Redo == Push("redo")
Cancel == Push("undo")

Update ==
  /\ CallAllowed
  /\ commands # << >>
  /\ mutex' = "update"
  /\ UNCHANGED <<commands, history, historyPC, lastCmd, syncCmd,
                 created, freed, applied, fault, mixed, overflowed>>

\* One turn of the drain loop of Update or of a synchronous Execute.
Drain ==
  /\ mutex # "free" /\ ~Crashed
  /\ commands # << >>
  /\ DoCmd(Head(commands))
  /\ commands' = Tail(commands)
  /\ UNCHANGED <<mutex, syncCmd, created, mixed>>

UpdateDone ==
  /\ mutex = "update" /\ ~Crashed
  /\ commands = << >>
  /\ mutex' = "free"
  /\ UNCHANGED <<commands, history, historyPC, lastCmd, syncCmd,
                 created, freed, applied, fault, mixed, overflowed>>

SyncDone ==
  /\ mutex = "sync" /\ ~Crashed
  /\ commands = << >>
  /\ ExecuteNow(syncCmd)
  /\ mutex' = "free"
  /\ syncCmd' = NoCommand
  /\ UNCHANGED <<commands, created, mixed>>

\* Defect: the queued requests are deleted but stay queued.
Clear_KeepsQueue ==
  /\ CallAllowed
  /\ history' = << >>
  /\ historyPC' = None
  /\ freed' = freed \cup
       ((Elements(history) \cup {r.cmd : r \in Elements(commands)})
          \ {NoCommand})
  /\ applied' = {}
  /\ UNCHANGED <<commands, lastCmd, mutex, syncCmd, created, fault, mixed,
                 overflowed>>

\* Clear(), also what Close() and the destructor do: queued and recorded
\* commands are deleted, their effects stay.
Clear ==
  /\ CallAllowed
  /\ commands' = << >>
  /\ history' = << >>
  /\ historyPC' = None
  /\ freed' = freed \cup
       ((Elements(history) \cup {r.cmd : r \in Elements(commands)})
          \ {NoCommand})
  /\ applied' = {}
  /\ UNCHANGED <<lastCmd, mutex, syncCmd, created, fault, mixed, overflowed>>

Next ==
  \/ \E c \in Command : ExecuteAsync(c) \/ ExecuteSync(c) \/ ExecuteForce(c)
  \/ Redo
  \/ Cancel
  \/ Update
  \/ Drain
  \/ UpdateDone
  \/ SyncDone
  \/ Clear

Spec == Init /\ [][Next]_vars

-----------------------------------------------------------------------------
(* Properties *)

Pending == {commands[i].cmd : i \in 1..Len(commands)} \ {NoCommand}
Recorded == Elements(history) \ {NoCommand}
InFlight == {syncCmd} \ {NoCommand}

TypeOK ==
  /\ commands \in Seq(Request)
  /\ history \in Seq(Command \cup {NoCommand})
  /\ historyPC \in Int /\ historyPC >= None
  /\ lastCmd \in Command \cup {NoCommand}
  /\ mutex \in {"free", "update", "sync"}
  /\ syncCmd \in Command \cup {NoCommand}
  /\ created \subseteq Command
  /\ freed \subseteq Command
  /\ applied \subseteq Command
  /\ fault \in Faults
  /\ mixed \in BOOLEAN
  /\ overflowed \in BOOLEAN

\* No command is used or deleted after its deletion and none is leaked: a
\* command the manager was given is deleted, or is in exactly one of the
\* queue, the history and the synchronous Execute that drains the queue.
\* This holds in every order of calls and survives the overflow, up to the
\* undefined behaviour that ends the run.
OwnedOnce ==
  /\ (Pending \cup Recorded \cup InFlight) \cap freed = {}
  /\ Pending \cap Recorded = {} /\ InFlight \cap (Pending \cup Recorded) = {}
  /\ \A i, j \in 1..Len(history) :
       history[i] = history[j] => i = j \/ history[i] = NoCommand
  /\ ~Crashed => created = Pending \cup Recorded \cup InFlight \cup freed

\* Until the history reaches its maximal size, m_historyPC names an element of
\* it (or nothing is in effect), no element is nullptr, and neither the
\* SRHalt of DoCmd nor undefined behaviour is reached, whatever the order of
\* calls.
PCNamesACommand ==
  ~overflowed =>
    /\ historyPC < Len(history)
    /\ NoCommand \notin Elements(history)
    /\ fault = "none"

\* The commands at and below m_historyPC are the ones in effect, the ones
\* above it are the undone ones.  Holds as long as no Execute is called with
\* requests still queued and the history does not overflow.
Regular == ~mixed /\ ~overflowed
AppliedIsPrefix ==
  Regular => applied = {history[i] : i \in 1..(historyPC + 1)}

\* The history is an undo log: each step of the manager is one step of
\* UndoLog, or none.
Log == INSTANCE UndoLog WITH
  done <- SubSeq(history, 1, historyPC + 1),
  undone <- SubSeq(history, historyPC + 2, Len(history))

ImplementsUndoLog == Log!Init /\ [][Regular' => [Log!Next]_(Log!vars)]_vars

\* SRHalt("Invalid history PC!") in DoCmd, and what undefined behaviour comes
\* with it, is never reached: the code's own claim, refuted by an overflow.
NoInvalidPC == fault = "none"
=============================================================================
