------------------------------- MODULE Shutdown -------------------------------
(***************************************************************************)
(* The two goroutines of the server and the word they share, eStatus:      *)
(* RunAsyncServer with EventLoop.Main, and WaitForSignal, which ends the   *)
(* process.  Every access to eStatus is a step.  The loop is that of       *)
(* EventLoop; the two have no name in common, so that one module can       *)
(* extend both.                                                            *)
(***************************************************************************)
EXTENDS Integers

CONSTANT MaxFired       \* maxClients, the events one EpollWait can return

ASSUME FiredAssumption == MaxFired \in Nat

VARIABLES
  eStatus,      \* "WAITING", "BUSY" or "SHUTTING_DOWN"
  loop,         \* where the event loop is
  fired,        \* the events it has not handled yet
  signal        \* where WaitForSignal is

\* History, read by no action: the loop took up work between the two accesses of
\* WaitForSignal to eStatus.
VARIABLE raced

shutdownVars == <<eStatus, loop, fired, signal, raced>>

ShutdownInit ==
  /\ eStatus = "WAITING"
  /\ loop = "start" /\ fired = 0
  /\ signal = "await"
  /\ raced = FALSE

Running == signal # "exited"

LoopAt(from, to) == Running /\ loop = from /\ loop' = to

\* The sockets are made, or something fails and the function returns.
Start ==
  /\ LoopAt("start", "test") \/ LoopAt("start", "return")
  /\ UNCHANGED <<eStatus, fired, signal, raced>>

\* The condition of the loop.
Test ==
  /\ LoopAt("test", IF eStatus = "SHUTTING_DOWN" THEN "return" ELSE "wait")
  /\ UNCHANGED <<eStatus, fired, signal, raced>>

Fired == 0 .. MaxFired

\* beforeSleep and EpollWait: events, an interruption, or an error.
Wait ==
  /\ \/ LoopAt("wait", "swap") /\ fired' \in Fired
     \/ (LoopAt("wait", "test") \/ LoopAt("wait", "return")) /\ UNCHANGED fired
  /\ UNCHANGED <<eStatus, signal, raced>>

\* Fault: a plain store of BUSY.
SwapBlindly ==
  /\ LoopAt("swap", "files")
  /\ eStatus' = "BUSY"
  /\ raced' = (raced \/ (eStatus = "WAITING" /\ signal = "store"))
  /\ UNCHANGED <<fired, signal>>

\* The compare-and-swap; if it fails, eStatus is looked at once more.
Swap ==
  /\ LoopAt("swap", IF eStatus = "WAITING" THEN "files" ELSE "look")
  /\ eStatus' = IF eStatus = "WAITING" THEN "BUSY" ELSE eStatus
  /\ raced' = (raced \/ (eStatus = "WAITING" /\ signal = "store"))
  /\ UNCHANGED <<fired, signal>>

Look ==
  /\ LoopAt("look", IF eStatus = "SHUTTING_DOWN" THEN "return" ELSE "files")
  /\ UNCHANGED <<eStatus, fired, signal, raced>>

\* The handlers of one event.
FileEvent ==
  /\ LoopAt("files", "files")
  /\ fired > 0 /\ fired' = fired - 1
  /\ UNCHANGED <<eStatus, signal, raced>>

\* One of them is REPLICAOF, which reads the answer of another server, and may do so for
\* ever: nothing says that the answer comes.
Hang ==
  /\ LoopAt("files", "hung")
  /\ fired > 0 /\ fired' = fired - 1
  /\ UNCHANGED <<eStatus, signal, raced>>

\* The answer, or the end of the connection.
Answered ==
  /\ LoopAt("hung", "files")
  /\ UNCHANGED <<eStatus, fired, signal, raced>>

TimeEvents ==
  /\ LoopAt("files", "finish")
  /\ fired = 0
  /\ UNCHANGED <<eStatus, fired, signal, raced>>

\* Fault: the loop stays BUSY.
FinishBusy ==
  /\ LoopAt("finish", "test")
  /\ UNCHANGED <<eStatus, fired, signal, raced>>

\* The end of a round, whatever eStatus has become.
Finish ==
  /\ LoopAt("finish", "test")
  /\ eStatus' = "WAITING"
  /\ UNCHANGED <<fired, signal, raced>>

\* The deferred store of RunAsyncServer.  main goes on waiting for the other.
Return ==
  /\ LoopAt("return", "returned")
  /\ eStatus' = "SHUTTING_DOWN"
  /\ UNCHANGED <<fired, signal, raced>>

-----------------------------------------------------------------------------
SignalAt(from, to) ==
  signal = from /\ signal' = to /\ UNCHANGED <<loop, fired, raced>>

Arrive == SignalAt("await", "spin") /\ UNCHANGED eStatus

\* Fault: no waiting.
LeaveSpinAtOnce == SignalAt("spin", "store") /\ UNCHANGED eStatus

LeaveSpin == eStatus # "BUSY" /\ SignalAt("spin", "store") /\ UNCHANGED eStatus

Store == SignalAt("store", "exit") /\ eStatus' = "SHUTTING_DOWN"

\* core.Shutdown does nothing; os.Exit.
Exit == SignalAt("exit", "exited") /\ UNCHANGED eStatus

Round == Start \/ Test \/ Wait \/ Swap \/ Look \/ FileEvent \/ TimeEvents \/ Finish \/ Return

ShutdownNext == Round \/ Hang \/ Answered \/ Arrive \/ LeaveSpin \/ Store \/ Exit

ShutdownSpec == ShutdownInit /\ [][ShutdownNext]_shutdownVars

\* The loop goes round as long as its handlers return: a REPLICAOF that waits is under no
\* fairness.  WaitForSignal spins, and the loop is not BUSY each time it looks: between
\* two rounds it sleeps in EpollWait.
FairShutdownSpec ==
  ShutdownSpec /\ WF_shutdownVars(Round) /\ SF_shutdownVars(LeaveSpin) /\ WF_shutdownVars(Store) /\ WF_shutdownVars(Exit)

-----------------------------------------------------------------------------
Working == loop \in {"files", "hung", "finish"}

\* The state has its type.
ShutdownTypeOK ==
  /\ eStatus \in {"WAITING", "BUSY", "SHUTTING_DOWN"}
  /\ loop \in {"start", "test", "wait", "swap", "look", "files", "hung", "finish", "return", "returned"}
  /\ fired \in 0 .. MaxFired
  /\ signal \in {"await", "spin", "store", "exit", "exited"}
  /\ raced \in BOOLEAN

\* A loop at work says BUSY, until WaitForSignal stores what it decided before
\* the work began; and only a loop at work does.
BusyIsWorking ==
  /\ eStatus = "BUSY" => Working
  /\ Working => eStatus = "BUSY" \/ raced

\* The process does not end in the middle of a round, except when the loop became
\* BUSY between the load and the store of WaitForSignal.
RoundIsWhole == signal = "exited" /\ Working => raced

\* No round begins once the status was stored, with the same exception: the end
\* of a raced round overwrites SHUTTING_DOWN, and the loop goes on.
NoRoundAfter ==
  [][loop = "swap" /\ loop' = "files" /\ signal = "exit" => raced]_shutdownVars

\* A signal ends the process, also when the loop has ended by itself, and however rounds
\* and waits for other servers follow each other; unless one REPLICAOF waits for ever.
SignalEnds == signal = "spin" ~> (signal = "exited" \/ [](loop = "hung"))
=============================================================================
