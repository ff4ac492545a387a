--------------------------- MODULE ReceiverStartup ---------------------------
(***************************************************************************)
(* How the Recorder starts and fails to start (receive_results of          *)
(* src/src/zmq_receiver.cpp, and receive_worker up to its loop): main      *)
(* starts the Writers, makes the ZeroMQ context and one receiver thread    *)
(* per result port, and waits until each of them has reported whether its  *)
(* socket is bound.  When one has not, main returns and the process exits, *)
(* destroying the queues while the detached Writers may still use them.    *)
(*                                                                         *)
(* A condition variable is destroyed as glibc does it: pthread_cond_destroy*)
(* waits until no thread is blocked on it.                                 *)
(*                                                                         *)
(* ZeroMQ is modelled by what the code relies on: after zmq_ctx_shutdown   *)
(* a receive returns with ETERM, and zmq_ctx_term waits for the sockets    *)
(* that are still open.                                                    *)
(***************************************************************************)
EXTENDS Integers, FiniteSets

CONSTANTS NPorts,    \* cfg.result_ports.size()
          NQueues    \* SPECTRUM_WRITER_COUNT

ASSUME StartupAssumption == NPorts \in Nat \ {0} /\ NQueues \in Nat \ {0}

Receivers == 1..NPorts
Queues == 1..NQueues

VARIABLES mainPc,    \* where main is in receive_results
          context,   \* the ZeroMQ context: "none", "live", "shutdown", "terminated"
          spawned,   \* receivers.size()
          rxPc,      \* where each receiver is in receive_worker
          bound,     \* what it reports: its socket is bound
          socket,    \* "none", "open" or "closed"
          completed, \* startup.completed
          failed,    \* startup.failed
          spectral,  \* cfg.observation_mode; else continuum, with one queue
          writer,    \* each queue's detached thread: "unborn", "busy", "waiting"
          intact     \* queues 1..intact are not destroyed yet

vars == <<mainPc, context, spawned, rxPc, bound, socket, completed, failed,
          spectral, writer, intact>>

startup == <<completed, failed>>
receiver == <<rxPc, bound, socket>>
writers == <<spectral, writer, intact>>

Init ==
  /\ mainPc = "begin"
  /\ context = "none"
  /\ spawned = 0
  /\ rxPc = [r \in Receivers |-> "unborn"]
  /\ bound = [r \in Receivers |-> FALSE]
  /\ socket = [r \in Receivers |-> "none"]
  /\ completed = 0
  /\ failed = FALSE
  /\ spectral \in BOOLEAN
  /\ writer = [q \in Queues |-> "unborn"]
  /\ intact = NQueues

-----------------------------------------------------------------------------
(* receive_results *)

\* Eight Writers, or the continuum worker on the one queue it has.
StartWriters ==
  /\ mainPc = "begin"
  /\ mainPc' = "context"
  /\ writer' = [q \in Queues |-> IF spectral \/ q = 1 THEN "busy" ELSE "unborn"]
  /\ UNCHANGED <<context, spawned, receiver, startup, spectral, intact>>

MakeContext ==
  /\ mainPc = "context"
  /\ mainPc' = "spawn"
  /\ context' = "live"
  /\ UNCHANGED <<spawned, receiver, startup, writers>>

\* It cannot be made, or made as wanted: it is terminated again.
NoContext ==
  /\ mainPc = "context"
  /\ mainPc' = "returned"
  /\ context' \in {"none", "terminated"}
  /\ UNCHANGED <<spawned, receiver, startup, writers>>

\* Mutant of Spawn: one thread too many.
SpawnOneMore ==
  /\ mainPc = "spawn"
  /\ spawned <= NPorts
  /\ spawned' = spawned + 1
  /\ rxPc' = [rxPc EXCEPT ![spawned + 1] = "setup"]
  /\ UNCHANGED <<mainPc, context, bound, socket, startup, writers>>

Spawn ==
  /\ mainPc = "spawn"
  /\ spawned < NPorts
  /\ spawned' = spawned + 1
  /\ rxPc' = [rxPc EXCEPT ![spawned + 1] = "setup"]
  /\ UNCHANGED <<mainPc, context, bound, socket, startup, writers>>

AllSpawned ==
  /\ mainPc = "spawn"
  /\ spawned = NPorts
  /\ mainPc' = "check"
  /\ UNCHANGED <<context, spawned, receiver, startup, writers>>

\* startup.ready.wait: the predicate is false, main sleeps.
Sleep ==
  /\ mainPc = "check"
  /\ completed # NPorts
  /\ mainPc' = "waiting"
  /\ UNCHANGED <<context, spawned, receiver, startup, writers>>

SpuriousWake ==
  /\ mainPc = "waiting"
  /\ mainPc' = "check"
  /\ UNCHANGED <<context, spawned, receiver, startup, writers>>

Decide ==
  /\ mainPc = "check"
  /\ completed = NPorts
  /\ mainPc' = IF failed THEN "shutdown" ELSE "running"
  /\ UNCHANGED <<context, spawned, receiver, startup, writers>>

\* zmq_ctx_shutdown
Shutdown ==
  /\ mainPc = "shutdown"
  /\ context' = "shutdown"
  /\ mainPc' = "join"
  /\ UNCHANGED <<spawned, receiver, startup, writers>>

\* Mutant of Join: the receivers are left to themselves.
JoinNobody ==
  /\ mainPc = "join"
  /\ mainPc' = "terminate"
  /\ UNCHANGED <<context, spawned, receiver, startup, writers>>

(***************************************************************************)
(* Every receiver thread has returned.  A Recorder that runs would return  *)
(* 0, leaving its context as it is.                                        *)
(***************************************************************************)
Join ==
  /\ mainPc \in {"join", "running"}
  /\ \A r \in Receivers : rxPc[r] = "done"
  /\ mainPc' = IF mainPc = "join" THEN "terminate" ELSE "returned"
  /\ UNCHANGED <<context, spawned, receiver, startup, writers>>

\* zmq_ctx_term
Terminate ==
  /\ mainPc = "terminate"
  /\ \A r \in Receivers : socket[r] # "open"
  /\ context' = "terminated"
  /\ mainPc' = "returned"
  /\ UNCHANGED <<spawned, receiver, startup, writers>>

-----------------------------------------------------------------------------
(* exit: the queues are destroyed from the last to the first *)

Destroy ==
  /\ mainPc = "returned"
  /\ intact > 0
  /\ writer[intact] # "waiting"
  /\ intact' = intact - 1
  /\ UNCHANGED <<mainPc, context, spawned, receiver, startup, spectral, writer>>

Exit ==
  /\ mainPc = "returned"
  /\ intact = 0
  /\ mainPc' = "exited"
  /\ UNCHANGED <<context, spawned, receiver, startup, writers>>

-----------------------------------------------------------------------------
(* spectrum_writer_worker and continuum_worker: ready.wait and ready.wait_for *)

Wait(q) ==
  /\ mainPc # "exited"
  /\ writer[q] = "busy"
  /\ writer' = [writer EXCEPT ![q] = "waiting"]
  /\ UNCHANGED <<mainPc, context, spawned, receiver, startup, spectral, intact>>

\* A result was queued, or the wake-up is spurious.
Wake(q) ==
  /\ mainPc # "exited"
  /\ writer[q] = "waiting"
  /\ writer' = [writer EXCEPT ![q] = "busy"]
  /\ UNCHANGED <<mainPc, context, spawned, receiver, startup, spectral, intact>>

\* wait_for, in continuum mode.
TimeOut(q) == ~spectral /\ Wake(q)

-----------------------------------------------------------------------------
(* receive_worker *)

\* Socket made, configured and bound.
SetUp(r) ==
  /\ rxPc[r] = "setup"
  /\ rxPc' = [rxPc EXCEPT ![r] = "report"]
  /\ bound' = [bound EXCEPT ![r] = TRUE]
  /\ socket' = [socket EXCEPT ![r] = "open"]
  /\ UNCHANGED <<mainPc, context, spawned, startup, writers>>

\* Mutant of SetUpFails: returns without a report.
SetUpFailsMute(r) ==
  /\ rxPc[r] = "setup"
  /\ rxPc' = [rxPc EXCEPT ![r] = "done"]
  /\ socket' \in {socket, [socket EXCEPT ![r] = "closed"]}
  /\ UNCHANGED <<mainPc, context, spawned, bound, startup, writers>>

\* No socket, or one that is closed because an option or the port was refused.
SetUpFails(r) ==
  /\ rxPc[r] = "setup"
  /\ rxPc' = [rxPc EXCEPT ![r] = "report"]
  /\ socket' \in {socket, [socket EXCEPT ![r] = "closed"]}
  /\ UNCHANGED <<mainPc, context, spawned, bound, startup, writers>>

\* Mutant of Report: the last report counts.
ReportLast(r) ==
  /\ rxPc[r] = "report"
  /\ completed' = completed + 1
  /\ failed' = ~bound[r]
  /\ rxPc' = [rxPc EXCEPT ![r] = "notify"]
  /\ UNCHANGED <<mainPc, context, spawned, bound, socket, writers>>

\* report_receiver_startup, under the lock.
Report(r) ==
  /\ rxPc[r] = "report"
  /\ completed' = completed + 1
  /\ failed' = (failed \/ ~bound[r])
  /\ rxPc' = [rxPc EXCEPT ![r] = "notify"]
  /\ UNCHANGED <<mainPc, context, spawned, bound, socket, writers>>

\* Mutant of Notify: no notify_one().
NotifyNobody(r) ==
  /\ rxPc[r] = "notify"
  /\ rxPc' = [rxPc EXCEPT ![r] = IF bound[r] THEN "receive" ELSE "done"]
  /\ UNCHANGED <<mainPc, context, spawned, bound, socket, startup, writers>>

\* startup.ready.notify_one(), after it; then the loop, or the end of the thread.
Notify(r) ==
  /\ rxPc[r] = "notify"
  /\ mainPc' = IF mainPc = "waiting" THEN "check" ELSE mainPc
  /\ rxPc' = [rxPc EXCEPT ![r] = IF bound[r] THEN "receive" ELSE "done"]
  /\ UNCHANGED <<context, spawned, bound, socket, startup, writers>>

\* A message, an EINTR or another error: the loop goes on.
Receive(r) ==
  /\ rxPc[r] = "receive"
  /\ context = "live"
  /\ UNCHANGED vars

\* ETERM: the loop ends and the socket is closed.
Leave(r) ==
  /\ rxPc[r] = "receive"
  /\ context = "shutdown"
  /\ socket' = [socket EXCEPT ![r] = "closed"]
  /\ rxPc' = [rxPc EXCEPT ![r] = "done"]
  /\ UNCHANGED <<mainPc, context, spawned, bound, startup, writers>>

-----------------------------------------------------------------------------
Main ==
  \/ StartWriters \/ MakeContext \/ NoContext \/ Spawn \/ AllSpawned \/ Sleep
  \/ Decide \/ Shutdown \/ Join \/ Terminate \/ Exit

Receiver(r) == SetUp(r) \/ SetUpFails(r) \/ Report(r) \/ Notify(r) \/ Leave(r)

\* The process has exited.
Exited == mainPc = "exited" /\ UNCHANGED vars

Next ==
  \/ Main
  \/ SpuriousWake
  \/ Destroy
  \/ \E q \in Queues : Wait(q) \/ Wake(q)
  \/ \E r \in Receivers : Receiver(r) \/ Receive(r)
  \/ Exited

Safety == Init /\ [][Next]_vars

(***************************************************************************)
(* Threads that can go on do; main need not be woken without a             *)
(* notification, and a Writer need not be woken at all.  A worker that     *)
(* wakes up every second gives exit a chance each time, of which it takes  *)
(* one in the end (strong fairness of Destroy).                            *)
(***************************************************************************)
Spec ==
  /\ Safety
  /\ WF_vars(Main) /\ SF_vars(Destroy)
  /\ \A r \in Receivers : WF_vars(Receiver(r))
  /\ \A q \in Queues : WF_vars(TimeOut(q))

-----------------------------------------------------------------------------
(* Properties *)

\* Type invariant.
TypeOK ==
  /\ mainPc \in {"begin", "context", "spawn", "check", "waiting", "running", "shutdown",
                 "join", "terminate", "returned", "exited"}
  /\ context \in {"none", "live", "shutdown", "terminated"}
  /\ spawned \in 0..NPorts
  /\ rxPc \in [Receivers -> {"unborn", "setup", "report", "notify", "receive", "done"}]
  /\ bound \in [Receivers -> BOOLEAN]
  /\ socket \in [Receivers -> {"none", "open", "closed"}]
  /\ completed \in 0..NPorts
  /\ failed \in BOOLEAN
  /\ spectral \in BOOLEAN
  /\ writer \in [Queues -> {"unborn", "busy", "waiting"}]
  /\ intact \in 0..NQueues

(***************************************************************************)
(* The Recorder runs on all of its ports or not at all: once main has      *)
(* decided to run, every socket is bound and no receiver ever leaves, so   *)
(* receive_results never returns 0.                                        *)
(***************************************************************************)
AllPortsOrNone ==
  mainPc = "running" =>
    /\ context = "live"
    /\ \A r \in Receivers : socket[r] = "open" /\ rxPc[r] \in {"notify", "receive"}

(***************************************************************************)
(* startup and the context live on main's stack and in main's hands: when  *)
(* receive_results has returned no receiver that was started is still      *)
(* using them, although main goes on as soon as the last report is         *)
(* counted and its notification may still be under way.                    *)
(***************************************************************************)
NothingOutlivesMain ==
  mainPc \in {"returned", "exited"} => \A r \in Receivers : rxPc[r] \in {"unborn", "done"}

\* main never sleeps with all reports in, unless a notification is under way.
NoLostWakeup ==
  mainPc = "waiting" /\ completed = NPorts => \E r \in Receivers : rxPc[r] = "notify"

(***************************************************************************)
(* The start ends: the Recorder runs, or the process exits.  In spectral   *)
(* mode exit may hang instead, on the condition variable of a Writer that  *)
(* waits for results: nobody will send it any, and main's status never     *)
(* becomes that of the process.                                            *)
(***************************************************************************)
HungInExit == spectral /\ mainPc = "returned" /\ intact > 0 /\ writer[intact] = "waiting"

StartEnds == <>(mainPc \in {"running", "exited"} \/ HungInExit)

=============================================================================
