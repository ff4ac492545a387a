----------------------------- MODULE StartProofs ------------------------------
(***************************************************************************)
(* The start of the Recorder for any number of result ports: what becomes  *)
(* of its threads and sockets (ReceiverStartup), and of its threads' cores *)
(* and its directory (RecorderStart).                                      *)
(***************************************************************************)
EXTENDS ReceiverStartup, RecorderStart, FiniteSetTheorems, TLAPS

Reported == {r \in Receivers : rxPc[r] \in {"notify", "receive", "done"}}

\* startup.completed counts the receivers that reported, startup.failed their failures.
ReportsCounted ==
  /\ completed = Cardinality(Reported)
  /\ failed <=> \E r \in Reported : ~bound[r]

\* The receivers there are, and main's place among the starts.
SpawnedInOrder ==
  /\ \A r \in Receivers : rxPc[r] # "unborn" <=> r <= spawned
  /\ mainPc \in {"begin", "context"} => spawned = 0
  /\ mainPc \in {"check", "waiting", "running", "shutdown", "join", "terminate"} =>
       spawned = NPorts
  /\ mainPc = "terminate" => \A r \in Receivers : rxPc[r] = "done"
  /\ mainPc \in {"begin", "context", "returned", "exited"} =>
       \A r \in Receivers : rxPc[r] \in {"unborn", "done"}

\* What is bound is open, until the context is shut down.
BoundIsOpen ==
  \A r \in Receivers :
    /\ rxPc[r] \in {"unborn", "setup"} => ~bound[r]
    /\ rxPc[r] \in {"report", "notify", "receive"} /\ bound[r] => socket[r] = "open"
    /\ rxPc[r] = "receive" => bound[r]
    /\ rxPc[r] = "done" /\ bound[r] => context # "live"

\* main goes on when all have reported, one way or the other.
Decided ==
  /\ mainPc \in {"spawn", "check", "waiting", "running", "shutdown"} => context = "live"
  /\ mainPc \in {"running", "shutdown", "join", "terminate"} => completed = NPorts
  /\ mainPc = "running" => ~failed

IInv ==
  TypeOK /\ ReportsCounted /\ SpawnedInOrder /\ BoundIsOpen /\ Decided /\ NoLostWakeup

-----------------------------------------------------------------------------
LEMMA ReceiversFinite == IsFiniteSet(Receivers) /\ Cardinality(Receivers) = NPorts
BY FS_Interval, StartupAssumption DEF Receivers

LEMMA InitInv == Init => IInv
<1> SUFFICES ASSUME Init PROVE IInv
  OBVIOUS
<1> USE StartupAssumption DEF Init
<1>1. Reported = {}
  BY DEF Reported
<1>2. ReportsCounted
  BY <1>1, FS_EmptySet DEF ReportsCounted
<1>3. TypeOK
  <2>1. 0 \in 0..NPorts
    OBVIOUS
  <2>2. /\ rxPc \in [Receivers -> {"unborn", "setup", "report", "notify", "receive", "done"}]
        /\ bound \in [Receivers -> BOOLEAN]
        /\ socket \in [Receivers -> {"none", "open", "closed"}]
    OBVIOUS
  <2>3. /\ mainPc \in {"begin", "context", "spawn", "check", "waiting", "running", "shutdown",
                         "join", "terminate", "returned", "exited"}
        /\ context \in {"none", "live", "shutdown", "terminated"}
        /\ failed \in BOOLEAN
    OBVIOUS
  <2>4. spectral \in BOOLEAN /\ writer \in [Queues -> {"unborn", "busy", "waiting"}]
        /\ intact \in 0..NQueues
    OBVIOUS
  <2> QED
    BY <2>1, <2>2, <2>3, <2>4 DEF TypeOK
<1>4. SpawnedInOrder
  BY DEF SpawnedInOrder, Receivers
<1>5. BoundIsOpen
  BY DEF BoundIsOpen
<1>6. Decided /\ NoLostWakeup
  BY DEF Decided, NoLostWakeup
<1> QED
  BY <1>2, <1>3, <1>4, <1>5, <1>6 DEF IInv

\* A step that no receiver's report depends on.
LEMMA ReportsUnchanged ==
  ASSUME ReportsCounted, Reported' = Reported, UNCHANGED <<bound, completed, failed>>
  PROVE  ReportsCounted'
BY DEF ReportsCounted

\* When all reports are counted, all receivers have reported.
LEMMA AllReported ==
  ASSUME TypeOK, ReportsCounted, completed = NPorts
  PROVE  Reported = Receivers
<1>1. Reported \in SUBSET Receivers
  BY DEF Reported
<1> QED
  BY <1>1, ReceiversFinite, FS_Subset DEF ReportsCounted

LEMMA MainInv ==
  ASSUME IInv, Main \/ SpuriousWake \/ Destroy
  PROVE  IInv'
<1> USE StartupAssumption DEF IInv
<1>1. CASE Spawn
  <2>1. /\ mainPc = "spawn" /\ spawned < NPorts /\ spawned' = spawned + 1
        /\ rxPc' = [rxPc EXCEPT ![spawned + 1] = "setup"]
        /\ UNCHANGED <<mainPc, context, bound, socket, completed, failed,
                  spectral, writer, intact>>
    BY <1>1 DEF Spawn, startup, writers
  <2>2. spawned + 1 \in Receivers /\ rxPc[spawned + 1] = "unborn"
    BY <2>1 DEF SpawnedInOrder, TypeOK, Receivers
  <2>3. /\ \A r \in Receivers : r # spawned + 1 => rxPc'[r] = rxPc[r]
        /\ rxPc'[spawned + 1] = "setup"
    BY <2>1, <2>2 DEF TypeOK
  <2>4. Reported' = Reported
    BY <2>2, <2>3 DEF Reported
  <2>5. ReportsCounted'
    BY <2>1, <2>4, ReportsUnchanged
  <2>6. TypeOK'
    <3>1. spawned' \in 0..NPorts
      BY <2>1 DEF TypeOK
    <3>2. rxPc' \in [Receivers -> {"unborn", "setup", "report", "notify", "receive", "done"}]
      BY <2>1 DEF TypeOK
    <3> QED
      BY <2>1, <3>1, <3>2 DEF TypeOK
  <2>7. SpawnedInOrder'
    BY <2>1, <2>2, <2>3 DEF SpawnedInOrder, Receivers, TypeOK
  <2>8. BoundIsOpen'
    BY <2>1, <2>2, <2>3 DEF BoundIsOpen
  <2>9. Decided' /\ NoLostWakeup'
    BY <2>1 DEF Decided, NoLostWakeup
  <2> QED
    BY <2>5, <2>6, <2>7, <2>8, <2>9
<1>2. ASSUME UNCHANGED <<spawned, rxPc, bound, socket, completed, failed>>,
             TypeOK', SpawnedInOrder', BoundIsOpen', Decided', NoLostWakeup'
      PROVE  IInv'
  <2>1. Reported' = Reported
    BY <1>2 DEF Reported
  <2> QED
    BY <1>2, <2>1, ReportsUnchanged
<1>3. CASE MakeContext \/ NoContext
  <2>1. UNCHANGED <<spawned, rxPc, bound, socket, completed, failed,
                  spectral, writer, intact>>
    BY <1>3 DEF MakeContext, NoContext, receiver, startup, writers
  <2>2. TypeOK' /\ SpawnedInOrder' /\ Decided' /\ NoLostWakeup'
    BY <1>3, <2>1 DEF MakeContext, NoContext, TypeOK, SpawnedInOrder, Decided, NoLostWakeup
  <2>3. \A r \in Receivers : rxPc[r] = "unborn"
    BY <1>3 DEF MakeContext, NoContext, SpawnedInOrder, Receivers
  <2>4. BoundIsOpen'
    BY <2>1, <2>3 DEF BoundIsOpen
  <2> QED
    BY <1>2, <2>1, <2>2, <2>4
<1>4. CASE AllSpawned \/ Sleep \/ SpuriousWake
  <2>1. UNCHANGED <<context, spawned, rxPc, bound, socket, completed, failed,
                  spectral, writer, intact>>
    BY <1>4 DEF AllSpawned, Sleep, SpuriousWake, receiver, startup, writers
  <2>2. TypeOK' /\ SpawnedInOrder' /\ BoundIsOpen' /\ Decided' /\ NoLostWakeup'
    BY <1>4, <2>1 DEF AllSpawned, Sleep, SpuriousWake, TypeOK, SpawnedInOrder, BoundIsOpen,
                      Decided, NoLostWakeup
  <2> QED
    BY <1>2, <2>1, <2>2
<1>5. CASE Decide
  <2>1. UNCHANGED <<context, spawned, rxPc, bound, socket, completed, failed,
                  spectral, writer, intact>>
    BY <1>5 DEF Decide, receiver, startup, writers
  <2>2. TypeOK' /\ SpawnedInOrder' /\ BoundIsOpen' /\ Decided' /\ NoLostWakeup'
    BY <1>5, <2>1 DEF Decide, TypeOK, SpawnedInOrder, BoundIsOpen, Decided, NoLostWakeup
  <2> QED
    BY <1>2, <2>1, <2>2
<1>6. CASE Shutdown
  <2>1. UNCHANGED <<spawned, rxPc, bound, socket, completed, failed,
                  spectral, writer, intact>>
    BY <1>6 DEF Shutdown, receiver, startup, writers
  <2>2. TypeOK' /\ SpawnedInOrder' /\ BoundIsOpen' /\ Decided' /\ NoLostWakeup'
    BY <1>6, <2>1 DEF Shutdown, TypeOK, SpawnedInOrder, BoundIsOpen, Decided, NoLostWakeup
  <2> QED
    BY <1>2, <2>1, <2>2
<1>7. CASE Join
  <2>1. UNCHANGED <<context, spawned, rxPc, bound, socket, completed, failed,
                  spectral, writer, intact>>
    BY <1>7 DEF Join, receiver, startup, writers
  <2>2. TypeOK' /\ SpawnedInOrder' /\ BoundIsOpen' /\ Decided' /\ NoLostWakeup'
    BY <1>7, <2>1 DEF Join, TypeOK, SpawnedInOrder, BoundIsOpen, Decided, NoLostWakeup
  <2> QED
    BY <1>2, <2>1, <2>2
<1>8. CASE Terminate
  <2>1. UNCHANGED <<spawned, rxPc, bound, socket, completed, failed,
                  spectral, writer, intact>>
    BY <1>8 DEF Terminate, receiver, startup, writers
  <2>2. \A r \in Receivers : rxPc[r] = "done"
    BY <1>8 DEF Terminate, SpawnedInOrder
  <2>3. TypeOK' /\ SpawnedInOrder' /\ BoundIsOpen' /\ Decided' /\ NoLostWakeup'
    BY <1>8, <2>1, <2>2 DEF Terminate, TypeOK, SpawnedInOrder, BoundIsOpen, Decided, NoLostWakeup
  <2> QED
    BY <1>2, <2>1, <2>3
<1>9. CASE StartWriters
  <2>1. /\ UNCHANGED <<context, spawned, rxPc, bound, socket, completed, failed, spectral, intact>>
        /\ mainPc = "begin" /\ mainPc' = "context"
        /\ writer' \in [Queues -> {"unborn", "busy", "waiting"}]
    BY <1>9 DEF StartWriters, receiver, startup
  <2>2. TypeOK' /\ SpawnedInOrder' /\ BoundIsOpen' /\ Decided' /\ NoLostWakeup'
    BY <2>1 DEF TypeOK, SpawnedInOrder, BoundIsOpen, Decided, NoLostWakeup
  <2> QED
    BY <1>2, <2>1, <2>2
<1>10. CASE Destroy
  <2>1. /\ UNCHANGED <<mainPc, context, spawned, rxPc, bound, socket, completed, failed,
                       spectral, writer>>
        /\ intact > 0 /\ intact' = intact - 1
    BY <1>10 DEF Destroy, receiver, startup
  <2>2. TypeOK' /\ SpawnedInOrder' /\ BoundIsOpen' /\ Decided' /\ NoLostWakeup'
    BY <2>1 DEF TypeOK, SpawnedInOrder, BoundIsOpen, Decided, NoLostWakeup
  <2> QED
    BY <1>2, <2>1, <2>2
<1>11. CASE Exit
  <2>1. /\ UNCHANGED <<context, spawned, rxPc, bound, socket, completed, failed,
                       spectral, writer, intact>>
        /\ mainPc = "returned" /\ mainPc' = "exited"
    BY <1>11 DEF Exit, receiver, startup, writers
  <2>2. TypeOK' /\ SpawnedInOrder' /\ BoundIsOpen' /\ Decided' /\ NoLostWakeup'
    BY <2>1 DEF TypeOK, SpawnedInOrder, BoundIsOpen, Decided, NoLostWakeup
  <2> QED
    BY <1>2, <2>1, <2>2
<1> QED
  BY <1>1, <1>3, <1>4, <1>5, <1>6, <1>7, <1>8, <1>9, <1>10, <1>11 DEF Main

LEMMA ReceiverInv ==
  ASSUME IInv, NEW r \in Receivers, Receiver(r)
  PROVE  IInv'
<1> USE StartupAssumption DEF IInv
<1>1. CASE SetUp(r) \/ SetUpFails(r)
  <2>1. /\ rxPc[r] = "setup" /\ rxPc' = [rxPc EXCEPT ![r] = "report"]
        /\ UNCHANGED <<mainPc, context, spawned, completed, failed, spectral, writer, intact>>
    BY <1>1 DEF SetUp, SetUpFails, startup, writers
  <2>2. /\ bound' \in [Receivers -> BOOLEAN]
        /\ socket' \in [Receivers -> {"none", "open", "closed"}]
        /\ bound'[r] => socket'[r] = "open"
        /\ \A q \in Receivers : q # r => bound'[q] = bound[q] /\ socket'[q] = socket[q]
    BY <1>1 DEF SetUp, SetUpFails, TypeOK, BoundIsOpen
  <2>3. /\ rxPc'[r] = "report"
        /\ \A q \in Receivers : q # r => rxPc'[q] = rxPc[q]
    BY <2>1 DEF TypeOK
  <2>4. Reported' = Reported /\ r \notin Reported
    BY <2>1, <2>3 DEF Reported
  <2>5. ReportsCounted'
    <3>1. \A q \in Reported : bound'[q] = bound[q]
      BY <2>2, <2>4 DEF Reported
    <3> QED
      BY <2>1, <2>4, <3>1 DEF ReportsCounted
  <2>6. TypeOK'
    BY <2>1, <2>2 DEF TypeOK
  <2>7. SpawnedInOrder'
    BY <2>1, <2>3 DEF SpawnedInOrder
  <2>8. BoundIsOpen'
    BY <2>1, <2>2, <2>3 DEF BoundIsOpen
  <2>9. Decided' /\ NoLostWakeup'
    BY <2>1, <2>3 DEF Decided, NoLostWakeup
  <2> QED
    BY <2>5, <2>6, <2>7, <2>8, <2>9
<1>2. CASE Report(r)
  <2>1. /\ rxPc[r] = "report" /\ rxPc' = [rxPc EXCEPT ![r] = "notify"]
        /\ completed' = completed + 1 /\ failed' = (failed \/ ~bound[r])
        /\ UNCHANGED <<mainPc, context, spawned, bound, socket, spectral, writer, intact>>
    BY <1>2 DEF Report, writers
  <2>2. /\ rxPc'[r] = "notify"
        /\ \A q \in Receivers : q # r => rxPc'[q] = rxPc[q]
    BY <2>1 DEF TypeOK
  <2>3. Reported' = Reported \cup {r} /\ r \notin Reported
    BY <2>1, <2>2 DEF Reported
  <2>4. IsFiniteSet(Reported)
    BY ReceiversFinite, FS_Subset DEF Reported
  <2>5. Cardinality(Reported') = completed + 1
    BY <2>3, <2>4, FS_AddElement DEF ReportsCounted
  <2>6. completed + 1 \in 0..NPorts
    <3>1. Reported' \in SUBSET Receivers
      BY DEF Reported
    <3>2. Cardinality(Reported') <= NPorts
      BY <3>1, ReceiversFinite, FS_Subset
    <3> QED
      BY <2>5, <3>2 DEF TypeOK
  <2>7. ReportsCounted'
    <3>1. failed' <=> \E q \in Reported' : ~bound'[q]
      BY <2>1, <2>3 DEF ReportsCounted
    <3> QED
      BY <2>1, <2>5, <3>1 DEF ReportsCounted
  <2>8. TypeOK'
    BY <2>1, <2>6 DEF TypeOK
  <2>9. SpawnedInOrder'
    BY <2>1, <2>2 DEF SpawnedInOrder
  <2>10. BoundIsOpen'
    BY <2>1, <2>2 DEF BoundIsOpen
  <2>11. Decided'
    <3>1. completed # NPorts
      BY <2>6 DEF TypeOK
    <3> QED
      BY <2>1, <3>1 DEF Decided
  <2>12. NoLostWakeup'
    BY <2>2 DEF NoLostWakeup
  <2> QED
    BY <2>7, <2>8, <2>9, <2>10, <2>11, <2>12
<1>3. CASE Notify(r)
  <2>1. /\ rxPc[r] = "notify"
        /\ rxPc' = [rxPc EXCEPT ![r] = IF bound[r] THEN "receive" ELSE "done"]
        /\ mainPc' = IF mainPc = "waiting" THEN "check" ELSE mainPc
        /\ UNCHANGED <<context, spawned, bound, socket, completed, failed,
                       spectral, writer, intact>>
    BY <1>3 DEF Notify, startup, writers
  <2>2. /\ rxPc'[r] = IF bound[r] THEN "receive" ELSE "done"
        /\ \A q \in Receivers : q # r => rxPc'[q] = rxPc[q]
    BY <2>1 DEF TypeOK
  <2>3. Reported' = Reported
    BY <2>1, <2>2 DEF Reported
  <2>4. ReportsCounted'
    BY <2>1, <2>3, ReportsUnchanged
  <2>5. TypeOK'
    BY <2>1 DEF TypeOK
  <2>6. SpawnedInOrder'
    BY <2>1, <2>2 DEF SpawnedInOrder
  <2>7. BoundIsOpen'
    BY <2>1, <2>2 DEF BoundIsOpen
  <2>8. Decided' /\ NoLostWakeup'
    BY <2>1 DEF Decided, NoLostWakeup
  <2> QED
    BY <2>4, <2>5, <2>6, <2>7, <2>8
<1>4. CASE Leave(r)
  <2>1. /\ rxPc[r] = "receive" /\ rxPc' = [rxPc EXCEPT ![r] = "done"]
        /\ context = "shutdown" /\ socket' = [socket EXCEPT ![r] = "closed"]
        /\ UNCHANGED <<mainPc, context, spawned, bound, completed, failed,
                  spectral, writer, intact>>
    BY <1>4 DEF Leave, startup, writers
  <2>2. /\ rxPc'[r] = "done" /\ socket'[r] = "closed"
        /\ \A q \in Receivers : q # r => rxPc'[q] = rxPc[q] /\ socket'[q] = socket[q]
    BY <2>1 DEF TypeOK
  <2>3. Reported' = Reported
    BY <2>1, <2>2 DEF Reported
  <2>4. ReportsCounted'
    BY <2>1, <2>3, ReportsUnchanged
  <2>5. TypeOK'
    BY <2>1 DEF TypeOK
  <2>6. SpawnedInOrder'
    BY <2>1, <2>2 DEF SpawnedInOrder
  <2>7. BoundIsOpen'
    BY <2>1, <2>2 DEF BoundIsOpen
  <2>8. Decided' /\ NoLostWakeup'
    BY <2>1 DEF Decided, NoLostWakeup
  <2> QED
    BY <2>4, <2>5, <2>6, <2>7, <2>8
<1> QED
  BY <1>1, <1>2, <1>3, <1>4 DEF Receiver

\* What the Writers do while main starts or exits.
LEMMA WriterInv ==
  ASSUME IInv, NEW q \in Queues, Wait(q) \/ Wake(q)
  PROVE  IInv'
<1> USE StartupAssumption DEF IInv
<1>1. /\ UNCHANGED <<mainPc, context, spawned, rxPc, bound, socket, completed, failed,
                     spectral, intact>>
      /\ writer' \in [Queues -> {"unborn", "busy", "waiting"}]
  BY DEF Wait, Wake, receiver, startup, TypeOK
<1>2. Reported' = Reported
  BY <1>1 DEF Reported
<1>3. ReportsCounted'
  BY <1>1, <1>2, ReportsUnchanged
<1>4. TypeOK' /\ SpawnedInOrder' /\ BoundIsOpen' /\ Decided' /\ NoLostWakeup'
  BY <1>1 DEF TypeOK, SpawnedInOrder, BoundIsOpen, Decided, NoLostWakeup
<1> QED
  BY <1>3, <1>4

LEMMA NextInv == IInv /\ [Next]_vars => IInv'
<1> SUFFICES ASSUME IInv, [Next]_vars PROVE IInv'
  OBVIOUS
<1>1. CASE Main \/ SpuriousWake \/ Destroy
  BY <1>1, MainInv
<1>2. ASSUME NEW r \in Receivers, Receiver(r) PROVE IInv'
  BY <1>2, ReceiverInv
<1>3. ASSUME NEW q \in Queues, Wait(q) \/ Wake(q) PROVE IInv'
  BY <1>3, WriterInv
<1>4. CASE UNCHANGED vars
  <2>1. Reported' = Reported
    BY <1>4 DEF vars, Reported
  <2> QED
    BY <1>4, <2>1 DEF vars, IInv, TypeOK, ReportsCounted, SpawnedInOrder, BoundIsOpen,
                      Decided, NoLostWakeup
<1> QED
  BY <1>1, <1>2, <1>3, <1>4 DEF Next, Receive, Exited

LEMMA Invariance == Safety => []IInv
BY InitInv, NextInv, PTL DEF Safety

-----------------------------------------------------------------------------
\* The types hold: no receiver reports twice, and none too many is started.
THEOREM StartupTypeCorrect == Safety => []TypeOK
<1>1. IInv => TypeOK
  BY DEF IInv
<1> QED
  BY <1>1, Invariance, PTL

\* The Recorder runs on all of its ports or not at all.
THEOREM StartupAllPortsOrNone == Safety => []AllPortsOrNone
<1>1. IInv => AllPortsOrNone
  <2> SUFFICES ASSUME IInv, mainPc = "running", NEW r \in Receivers
               PROVE  context = "live" /\ socket[r] = "open" /\ rxPc[r] \in {"notify", "receive"}
    BY DEF AllPortsOrNone, IInv, Decided
  <2>1. Reported = Receivers /\ context = "live" /\ ~failed
    BY AllReported DEF IInv, Decided
  <2>2. bound[r] /\ rxPc[r] \in {"notify", "receive", "done"}
    BY <2>1 DEF IInv, ReportsCounted, Reported
  <2> QED
    BY <2>1, <2>2 DEF IInv, BoundIsOpen
<1> QED
  BY <1>1, Invariance, PTL

\* When receive_results has returned no receiver uses startup or the context.
THEOREM StartupNothingOutlivesMain == Safety => []NothingOutlivesMain
<1>1. IInv => NothingOutlivesMain
  BY DEF IInv, SpawnedInOrder, NothingOutlivesMain
<1> QED
  BY <1>1, Invariance, PTL

\* main never sleeps with all reports in and no notification under way.
THEOREM StartupNoLostWakeup == Safety => []NoLostWakeup
<1>1. IInv => NoLostWakeup
  BY DEF IInv
<1> QED
  BY <1>1, Invariance, PTL

-----------------------------------------------------------------------------
(* RecorderStart: the core of each thread *)

Bindable == {MainThread} \cup ReceiverThreads \cup WriterThreads

\* Threads are started at their place in main, and as many as the configuration asks for.
StartedInPlace ==
  /\ done \subseteq Bindable
  /\ place \in {"affinity", "log", "config", "refused", "bind"} => done = {}
  /\ place \in {"bind", "writers", "context", "receivers", "running"} => Accepted(config)
  /\ \A t \in WriterThreads : mask[t] # {} =>
       place \in {"context", "receivers", "running"} /\ t[2] < WriterThreadCount
  /\ \A t \in ReceiverThreads : mask[t] # {} => place = "running" /\ t[2] < Ports
  /\ mask[Pool] # {} => place = "running"

\* What is bound runs on the core of its slot, the pool on those of its slots.
OnItsSlots ==
  /\ pool # {} => /\ allowed # <<>> /\ place \in {"receivers", "running"}
                  /\ pool = {CpuForSlot(i) : i \in 1..IoThreads}
  /\ \A t \in pinned \ {Pool} :
       allowed # <<>> /\ mask[t] = {CpuForSlot(Slot(t))}
  /\ Pool \in pinned => pool # {} /\ mask[Pool] = pool

CoresInv == CoresTypeOK /\ StartedInPlace /\ OnItsSlots

LEMMA ThreadFacts ==
  /\ \A t \in ReceiverThreads : t[1] = "receiver" /\ t[2] \in Nat /\ t = <<"receiver", t[2]>>
  /\ \A t \in WriterThreads : t[1] = "writer" /\ t[2] \in Nat /\ t = <<"writer", t[2]>>
  /\ MainThread[1] = "main" /\ Logger[1] = "logger" /\ Pool[1] = "pool"
  /\ Threads = Bindable \cup {Logger, Pool}
  /\ Logger \notin Bindable /\ Pool \notin Bindable /\ Logger # Pool
<1>1. /\ \A t \in ReceiverThreads : t[1] = "receiver" /\ t = <<"receiver", t[2]>>
      /\ \A t \in WriterThreads : t[1] = "writer" /\ t = <<"writer", t[2]>>
      /\ MainThread[1] = "main" /\ Logger[1] = "logger" /\ Pool[1] = "pool"
  BY DEF ReceiverThreads, WriterThreads, MainThread, Logger, Pool
<1>2. /\ \A t \in ReceiverThreads : t[2] \in Nat
      /\ \A t \in WriterThreads : t[2] \in Nat
  BY DEF ReceiverThreads, WriterThreads
<1>3. Threads = Bindable \cup {Logger, Pool}
  BY DEF Threads, Bindable
<1>4. Logger \notin Bindable /\ Pool \notin Bindable /\ Logger # Pool
  BY <1>1 DEF Bindable
<1> QED
  BY <1>1, <1>2, <1>3, <1>4

LEMMA GrantedFacts ==
  ASSUME StartsSound, CoresTypeOK
  PROVE  /\ granted \in Seq(Nat) /\ granted # <<>> /\ Len(granted) \in Nat \ {0}
         /\ granted[1] \in Cpus
         /\ \A i, k \in 1..Len(granted) : i < k => granted[i] < granted[k]
         /\ \A i, k \in 1..Len(granted) : i # k => granted[i] # granted[k]
<1>1. PICK start \in Starts : start.granted = granted
  BY DEF CoresTypeOK
<1>2. /\ granted \in Seq(Nat) /\ granted # <<>>
      /\ \A i, k \in 1..Len(granted) : i < k => granted[i] < granted[k]
  <2>1. MaskSound(start.granted)
    BY DEF StartsSound
  <2> QED
    BY <1>1, <2>1 DEF MaskSound
<1>3. Len(granted) \in Nat \ {0} /\ \A i \in 1..Len(granted) : granted[i] \in Nat
  BY <1>2
<1>4. \A i, k \in 1..Len(granted) : i # k => granted[i] # granted[k]
  <2> SUFFICES ASSUME NEW i \in 1..Len(granted), NEW k \in 1..Len(granted), i # k
               PROVE  granted[i] # granted[k]
    OBVIOUS
  <2>1. i < k \/ k < i
    BY <1>3
  <2> QED
    BY <1>2, <1>3, <2>1
<1>5. granted[1] \in Cpus
  BY <1>3 DEF Cpus
<1> QED
  BY <1>2, <1>3, <1>4, <1>5

\* The CPU of a slot; those of two slots differ as far as the CPUs reach.
LEMMA CpuFacts ==
  ASSUME StartsSound, CoresTypeOK, allowed # <<>>
  PROVE  /\ \A slot \in Nat : CpuForSlot(slot) \in Cpus
         /\ \A i, k \in 0..(Len(granted) - 1) :
              i # k => CpuForSlot(i) # CpuForSlot(k)
<1>1. /\ allowed = granted /\ Len(granted) \in Nat \ {0}
      /\ \A i, k \in 1..Len(granted) : i # k => granted[i] # granted[k]
  BY GrantedFacts DEF CoresTypeOK
<1>2. PICK len \in Nat \ {0} : len = Len(granted)
  BY <1>1
<1>3. \A slot \in Nat : slot % len \in 0..(len - 1)
  BY <1>2
<1>4. ASSUME NEW slot \in Nat PROVE CpuForSlot(slot) \in Cpus
  <2>1. CpuForSlot(slot) = granted[(slot % len) + 1]
    BY <1>1, <1>2 DEF CpuForSlot
  <2>2. (slot % len) + 1 \in 1..Len(granted)
    <3>1. PICK k \in 0..(len - 1) : k = slot % len
      BY <1>3
    <3> QED
      BY <1>2, <3>1
  <2> QED
    BY <2>1, <2>2 DEF Cpus
<1>5. ASSUME NEW slot \in 0..(len - 1) PROVE CpuForSlot(slot) = granted[slot + 1]
  <2>1. slot % len = slot
    BY <1>2
  <2> QED
    BY <1>1, <1>2, <2>1 DEF CpuForSlot
<1>6. ASSUME NEW i \in 0..(len - 1), NEW k \in 0..(len - 1), i # k
      PROVE  CpuForSlot(i) # CpuForSlot(k)
  <2>1. i + 1 \in 1..Len(granted) /\ k + 1 \in 1..Len(granted) /\ i + 1 # k + 1
    BY <1>2, <1>6
  <2> QED
    BY <1>1, <1>5, <2>1
<1> QED
  BY <1>2, <1>4, <1>6

LEMMA CountFacts ==
  ASSUME StartsSound, CoresTypeOK, Accepted(config)
  PROVE  /\ Ports \in Nat /\ Ports <= MaxPorts /\ MaxPorts \in Nat
         /\ IoThreads \in Nat \ {0}
         /\ WriterThreadCount \in Nat \ {0} /\ WriterThreadCount <= WriterCount
<1>1. PICK start \in Starts : start.config = config
  BY DEF CoresTypeOK
<1>2. PortsAccepted(config.result_ports) /\ PortsSound(config.result_ports)
  BY <1>1 DEF Accepted, StartsSound
<1>3. MaxIoThreads \in Nat \ {0} /\ WriterCount \in Nat \ {0} /\ MaxPorts \in Nat
  BY DEF StartsSound
<1>4. Len(config.result_ports) \in Nat /\ Len(config.result_ports) <= MaxPorts
  BY <1>2, <1>3 DEF PortsSound
<1> QED
  BY <1>3, <1>4 DEF Ports, IoThreads, WriterThreadCount

\* The slots of the threads that can be started are below RequiredCpus, and differ.
Slotted(t) ==
  \/ t = MainThread
  \/ t \in ReceiverThreads /\ t[2] < Ports
  \/ t \in WriterThreads /\ t[2] < WriterThreadCount

LEMMA SlotFacts ==
  ASSUME StartsSound, CoresTypeOK, Accepted(config)
  PROVE  /\ \A t \in Bindable : Slot(t) \in Nat
         /\ \A t : Slotted(t) => Slot(t) \in {0} \cup (1 + IoThreads)..(RequiredCpus - 1)
         /\ \A t, u : Slotted(t) /\ Slotted(u) /\ t # u => Slot(t) # Slot(u)
         /\ IoThreads < RequiredCpus /\ RequiredCpus \in Nat
<1>1. PICK ports \in Nat, io \in Nat \ {0}, writing \in Nat \ {0} :
        ports = Ports /\ io = IoThreads /\ writing = WriterThreadCount
  BY CountFacts
<1>2. RequiredCpus = 1 + io + ports + writing
  BY <1>1 DEF RequiredCpus
<1>3. /\ Slot(MainThread) = 0
      /\ \A t \in ReceiverThreads : Slot(t) = 1 + io + t[2]
      /\ \A t \in WriterThreads : Slot(t) = 1 + io + ports + t[2]
  <2>1. Slot(MainThread) = 0
    <3>1. MainThread \notin ReceiverThreads /\ MainThread \notin WriterThreads
      BY ThreadFacts
    <3> QED
      BY <3>1 DEF Slot
  <2>2. ASSUME NEW t \in ReceiverThreads PROVE Slot(t) = 1 + io + t[2]
    <3>1. t # MainThread /\ t \notin WriterThreads
      BY ThreadFacts
    <3> QED
      BY <1>1, <3>1 DEF Slot
  <2>3. ASSUME NEW t \in WriterThreads PROVE Slot(t) = 1 + io + ports + t[2]
    <3>1. t # MainThread /\ t \notin ReceiverThreads
      BY ThreadFacts
    <3> QED
      BY <1>1, <3>1 DEF Slot
  <2> QED
    BY <2>1, <2>2, <2>3
<1>4. \A t \in Bindable : Slot(t) \in Nat
  BY <1>3, ThreadFacts DEF Bindable
<1>5. ASSUME NEW t, Slotted(t)
      PROVE  /\ Slot(t) \in {0} \cup (1 + io)..(io + ports + writing)
             /\ \A u : Slotted(u) /\ t # u => Slot(t) # Slot(u)
  <2>1. CASE t = MainThread
    BY <1>1, <1>3, <2>1, ThreadFacts DEF Slotted
  <2>2. CASE t \in ReceiverThreads /\ t[2] < ports
    BY <1>1, <1>3, <2>2, ThreadFacts DEF Slotted
  <2>3. CASE t \in WriterThreads /\ t[2] < writing
    BY <1>1, <1>3, <2>3, ThreadFacts DEF Slotted
  <2> QED
    BY <1>1, <1>5, <2>1, <2>2, <2>3 DEF Slotted
<1>6. RequiredCpus - 1 = io + ports + writing
  BY <1>2
<1> QED
  BY <1>1, <1>2, <1>4, <1>5, <1>6


LEMMA InitCoresInv == StartsSound /\ CoresInit => CoresInv
<1> SUFFICES ASSUME StartsSound, CoresInit PROVE CoresInv
  OBVIOUS
<1>1. /\ place = "affinity" /\ allowed = <<>> /\ done = {} /\ pinned = {} /\ pool = {}
      /\ mask = [t \in Threads |-> IF t = MainThread THEN Cpus ELSE {}]
  BY DEF CoresInit
<1>2. PICK start \in Starts : config = start.config /\ granted = start.granted
  BY DEF CoresInit
<1>3. Cpus # {}
  <2>1. granted \in Seq(Nat) /\ granted # <<>>
    BY <1>2 DEF StartsSound, MaskSound
  <2>2. 1 \in 1..Len(granted)
    BY <2>1
  <2> QED
    BY <2>2 DEF Cpus
<1>4. mask[MainThread] = Cpus /\ MainThread \in Threads
  BY <1>1 DEF Threads
<1>5. CoresTypeOK
  BY <1>1, <1>2, <1>3, <1>4 DEF CoresTypeOK
<1>6. \A t \in WriterThreads \cup ReceiverThreads \cup {Pool} : mask[t] = {}
  BY <1>1, ThreadFacts DEF Bindable
<1>7. StartedInPlace
  BY <1>1, <1>6 DEF StartedInPlace
<1>8. OnItsSlots
  BY <1>1 DEF OnItsSlots
<1> QED
  BY <1>5, <1>7, <1>8 DEF CoresInv

\* As long as config and the list stay, so do the slots and their CPUs.
LEMMA SlotsKept ==
  ASSUME UNCHANGED <<config, granted>>
  PROVE  /\ Cpus' = Cpus
         /\ Ports' = Ports /\ WriterThreadCount' = WriterThreadCount
         /\ IoThreads' = IoThreads
         /\ Accepted(config)' <=> Accepted(config)
         /\ \A t : Slot(t)' = Slot(t)
         /\ allowed' = allowed => \A i : CpuForSlot(i)' = CpuForSlot(i)
<1>1. Cpus' = Cpus /\ Ports' = Ports
  BY DEF Cpus, Ports
<1>2. WriterThreadCount' = WriterThreadCount /\ IoThreads' = IoThreads
  BY <1>1 DEF WriterThreadCount, IoThreads, Spectral
<1>3. Accepted(config)' <=> Accepted(config)
  OBVIOUS
<1>4. \A t : Slot(t)' = Slot(t)
  BY <1>1, <1>2 DEF Slot
<1>5. allowed' = allowed => \A i : CpuForSlot(i)' = CpuForSlot(i)
  BY DEF CpuForSlot
<1> QED
  BY <1>1, <1>2, <1>3, <1>4, <1>5

\* Before main binds itself nothing is bound.
LEMMA NothingBound ==
  ASSUME CoresInv, done = {}, place # "running"
  PROVE  pinned = {} /\ mask[Pool] = {}
<1>1. pinned \subseteq {Pool} /\ \A t \in pinned : mask[t] # {}
  BY DEF CoresInv, CoresTypeOK
<1>2. mask[Pool] = {}
  BY DEF CoresInv, StartedInPlace
<1> QED
  BY <1>1, <1>2


-----------------------------------------------------------------------------
(* One step of main or of a thread *)

LEMMA AffinityInv == StartsSound /\ CoresInv /\ Affinity => CoresInv'
<1> SUFFICES ASSUME StartsSound, CoresInv, Affinity PROVE CoresInv'
  OBVIOUS
<1>1. /\ place = "affinity" /\ place' = "log"
      /\ UNCHANGED <<config, granted, done, pinned, pool, made>>
      /\ \/ allowed' = <<>> /\ mask' = mask
         \/ allowed' = granted /\ mask' \in {mask, [mask EXCEPT ![MainThread] = {granted[1]}]}
  BY DEF Affinity, Goto
<1>2. /\ done = {} /\ pinned = {} /\ pool = {} /\ mask[Pool] = {}
      /\ \A t \in WriterThreads \cup ReceiverThreads : mask[t] = {}
  BY <1>1, NothingBound DEF CoresInv, StartedInPlace, OnItsSlots
<1>3. /\ mask \in [Threads -> SUBSET Cpus] /\ mask[MainThread] # {}
      /\ granted[1] \in Cpus
  BY GrantedFacts DEF CoresInv, CoresTypeOK
<1>4. /\ mask' \in [Threads -> SUBSET Cpus] /\ mask'[MainThread] # {}
      /\ \A t \in Threads \ {MainThread} : mask'[t] = mask[t]
  BY <1>1, <1>3
<1>5. Cpus' = Cpus
  BY <1>1, SlotsKept
<1>6. CoresTypeOK'
  BY <1>1, <1>2, <1>4, <1>5 DEF CoresInv, CoresTypeOK
<1>7. \A t \in WriterThreads \cup ReceiverThreads \cup {Pool} : mask'[t] = {}
  BY <1>2, <1>4, ThreadFacts DEF Bindable
<1>8. StartedInPlace' /\ OnItsSlots'
  BY <1>1, <1>2, <1>7 DEF StartedInPlace, OnItsSlots
<1> QED
  BY <1>6, <1>8 DEF CoresInv

LEMMA BeforeThreadsInv ==
  StartsSound /\ CoresInv
  /\ (StartLog \/ Refuse \/ CannotMake \/ MakeDirectory) => CoresInv'
<1> SUFFICES ASSUME StartsSound, CoresInv,
                    StartLog \/ Refuse \/ CannotMake \/ MakeDirectory
             PROVE  CoresInv'
  OBVIOUS
<1>1. /\ place \in {"log", "config"} /\ place' \in {"config", "refused", "bind"}
      /\ place' = "bind" => Accepted(config)
      /\ UNCHANGED <<config, granted, allowed, done, pinned, pool>>
      /\ mask' = mask \/ mask' = [mask EXCEPT ![Logger] = mask[MainThread]]
  BY DEF StartLog, Refuse, CannotMake, MakeDirectory, Goto
<1>2. /\ done = {} /\ pinned = {} /\ pool = {} /\ mask[Pool] = {}
      /\ \A t \in WriterThreads \cup ReceiverThreads : mask[t] = {}
  BY <1>1, NothingBound DEF CoresInv, StartedInPlace, OnItsSlots
<1>3. /\ mask \in [Threads -> SUBSET Cpus] /\ mask[MainThread] # {}
      /\ MainThread \in Threads /\ MainThread # Logger
  BY ThreadFacts DEF CoresInv, CoresTypeOK, Bindable
<1>4. /\ mask' \in [Threads -> SUBSET Cpus] /\ mask'[MainThread] # {}
      /\ \A t \in Threads \ {Logger} : mask'[t] = mask[t]
  BY <1>1, <1>3
<1>5. Cpus' = Cpus /\ (Accepted(config)' <=> Accepted(config))
  BY <1>1, SlotsKept
<1>6. CoresTypeOK'
  BY <1>1, <1>2, <1>4, <1>5 DEF CoresInv, CoresTypeOK
<1>7. \A t \in WriterThreads \cup ReceiverThreads \cup {Pool} : mask'[t] = {}
  BY <1>2, <1>4, ThreadFacts DEF Bindable
<1>8. StartedInPlace' /\ OnItsSlots'
  BY <1>1, <1>2, <1>5, <1>7 DEF StartedInPlace, OnItsSlots
<1> QED
  BY <1>6, <1>8 DEF CoresInv

\* A thread that binds itself stays as it is or runs on the core of its slot.
LEMMA BindInv ==
  ASSUME StartsSound, CoresInv, NEW t \in Bindable, t \notin done, Bind(t),
         Accepted(config), mask[t] # {}, Slotted(t),
         place' \notin {"affinity", "log", "config", "refused", "bind"},
         place' = place \/ (place = "bind" /\ place' = "writers"),
         place = "bind" => t = MainThread,
         UNCHANGED <<config, granted, allowed, pool, made>>
  PROVE  CoresInv'
<1>1. /\ done' = done \cup {t}
      /\ \/ mask' = mask /\ pinned' = pinned
         \/ /\ allowed # <<>>
            /\ mask' = [mask EXCEPT ![t] = {CpuForSlot(Slot(t))}]
            /\ pinned' = pinned \cup {t}
  BY DEF Bind
<1>2. /\ t \notin pinned /\ t # Pool /\ t \in Threads
      /\ Pool \in Threads /\ MainThread \in Threads
      /\ pinned \subseteq Threads
  BY ThreadFacts DEF CoresInv, CoresTypeOK, Bindable
<1>3. allowed # <<>> => CpuForSlot(Slot(t)) \in Cpus
  BY CpuFacts, SlotFacts DEF CoresInv
<1>4. /\ Cpus' = Cpus
      /\ Ports' = Ports /\ WriterThreadCount' = WriterThreadCount
      /\ IoThreads' = IoThreads
      /\ Accepted(config)' <=> Accepted(config)
      /\ \A u : Slot(u)' = Slot(u)
      /\ \A i : CpuForSlot(i)' = CpuForSlot(i)
  BY SlotsKept
<1>5. /\ mask \in [Threads -> SUBSET Cpus]
      /\ mask' \in [Threads -> SUBSET Cpus]
      /\ \A u \in Threads \ {t} : mask'[u] = mask[u]
      /\ mask'[t] # {}
      /\ pinned' # pinned => mask'[t] = {CpuForSlot(Slot(t))} /\ allowed # <<>>
  BY <1>1, <1>2, <1>3 DEF CoresInv, CoresTypeOK
<1>6. \A u \in Threads : mask'[u] = {} <=> mask[u] = {}
  BY <1>5
<1>7. CoresTypeOK'
  <2>1. /\ done' \subseteq Threads /\ pinned' \subseteq done' \cup {Pool}
        /\ \A u \in done' \cup pinned' : mask'[u] # {}
    BY <1>1, <1>2, <1>6 DEF CoresInv, CoresTypeOK
  <2>2. place' \in {"affinity", "log", "config", "refused", "bind", "writers", "context",
                    "receivers", "running"}
    BY DEF CoresInv, CoresTypeOK
  <2> QED
    BY <1>2, <1>4, <1>5, <1>6, <2>1, <2>2 DEF CoresInv, CoresTypeOK
<1>8. StartedInPlace'
  <2>1. \A u \in WriterThreads \cup ReceiverThreads \cup {Pool} :
          mask'[u] # {} => mask[u] # {} /\ place' = place
    BY <1>2, <1>6, ThreadFacts DEF CoresInv, StartedInPlace, Bindable
  <2> QED
    BY <1>1, <1>4, <2>1 DEF CoresInv, StartedInPlace
<1>9. OnItsSlots'
  <2>1. pool # {} => place' = place
    BY DEF CoresInv, OnItsSlots
  <2>2. \A u \in pinned' \ {Pool} :
          allowed # <<>> /\ mask'[u] = {CpuForSlot(Slot(u))}
    BY <1>1, <1>2, <1>5 DEF CoresInv, OnItsSlots
  <2>3. Pool \in pinned' => pool # {} /\ mask'[Pool] = pool
    BY <1>1, <1>2, <1>5 DEF CoresInv, OnItsSlots
  <2> QED
    BY <1>4, <2>1, <2>2, <2>3 DEF CoresInv, OnItsSlots
<1> QED
  BY <1>7, <1>8, <1>9 DEF CoresInv


\* A thread that starts takes over main's mask; none of those started here is bound yet.
LEMMA InheritInv ==
  ASSUME StartsSound, CoresInv, NEW started \in SUBSET (Threads \ {MainThread}),
         Inherit(started), started \cap pinned = {}, started \cap done = {},
         \/ /\ place = "writers" /\ place' = "context"
            /\ started = {t \in WriterThreads : t[2] < WriterThreadCount}
         \/ /\ place = "receivers" /\ place' = "running"
            /\ started = {t \in ReceiverThreads : t[2] < Ports},
         UNCHANGED <<config, granted, allowed, done, pinned, pool, made>>
  PROVE  CoresInv'
<1>1. /\ mask \in [Threads -> SUBSET Cpus] /\ mask[MainThread] # {}
      /\ MainThread \in Threads /\ Pool \in Threads
      /\ pinned \subseteq Threads /\ done \subseteq Threads
  BY ThreadFacts DEF CoresInv, CoresTypeOK, Bindable
<1>2. /\ mask' \in [Threads -> SUBSET Cpus]
      /\ \A t \in started : mask'[t] = mask[MainThread]
      /\ \A t \in Threads \ started : mask'[t] = mask[t]
  BY <1>1 DEF Inherit
<1>3. /\ Cpus' = Cpus
      /\ Ports' = Ports /\ WriterThreadCount' = WriterThreadCount
      /\ IoThreads' = IoThreads
      /\ Accepted(config)' <=> Accepted(config)
      /\ \A t : Slot(t)' = Slot(t)
      /\ \A i : CpuForSlot(i)' = CpuForSlot(i)
  BY SlotsKept
<1>4. CoresTypeOK'
  BY <1>1, <1>2, <1>3 DEF CoresInv, CoresTypeOK
<1>5. StartedInPlace'
  <2>1. Pool \notin started /\ mask'[Pool] = mask[Pool]
    BY <1>1, <1>2, ThreadFacts DEF Bindable
  <2>2. \A t \in WriterThreads : mask'[t] # {} =>
          place' \in {"context", "receivers", "running"} /\ t[2] < WriterThreadCount
    BY <1>2, ThreadFacts DEF CoresInv, StartedInPlace, Bindable
  <2>3. \A t \in ReceiverThreads : mask'[t] # {} => place' = "running" /\ t[2] < Ports
    BY <1>2, ThreadFacts DEF CoresInv, StartedInPlace, Bindable
  <2> QED
    BY <1>3, <2>1, <2>2, <2>3 DEF CoresInv, StartedInPlace
<1>6. OnItsSlots'
  <2>1. \A t \in pinned : mask'[t] = mask[t]
    BY <1>1, <1>2
  <2> QED
    BY <1>3, <2>1 DEF CoresInv, OnItsSlots
<1> QED
  BY <1>4, <1>5, <1>6 DEF CoresInv

LEMMA MakeContextInv == StartsSound /\ CoresInv /\ ConfigureContext => CoresInv'
<1> SUFFICES ASSUME StartsSound, CoresInv, ConfigureContext PROVE CoresInv'
  OBVIOUS
<1>1. /\ place = "context" /\ place' = "receivers"
      /\ \/ pool' = {}
         \/ allowed # <<>> /\ pool' = {CpuForSlot(i) : i \in 1..IoThreads}
      /\ UNCHANGED <<config, granted, allowed, mask, done, pinned, made>>
  BY DEF ConfigureContext, Goto
<1>2. /\ Cpus' = Cpus
      /\ Ports' = Ports /\ WriterThreadCount' = WriterThreadCount
      /\ IoThreads' = IoThreads
      /\ Accepted(config)' <=> Accepted(config)
      /\ \A t : Slot(t)' = Slot(t)
      /\ \A i : CpuForSlot(i)' = CpuForSlot(i)
  BY <1>1, SlotsKept
<1>3. mask[Pool] = {} /\ Pool \notin pinned
  BY <1>1 DEF CoresInv, StartedInPlace, CoresTypeOK
<1>4. pool' \subseteq Cpus
  <2>1. IoThreads \in Nat
    BY <1>1, CountFacts DEF CoresInv, StartedInPlace
  <2>2. \A i \in 1..IoThreads : i \in Nat
    BY <2>1
  <2> QED
    BY <1>1, <2>2, CpuFacts DEF CoresInv
<1>5. CoresTypeOK'
  BY <1>1, <1>2, <1>4 DEF CoresInv, CoresTypeOK
<1>6. StartedInPlace'
  BY <1>1, <1>2, <1>3 DEF CoresInv, StartedInPlace
<1>7. pool' # {} => pool' = {CpuForSlot(i)' : i \in 1..IoThreads'}
  BY <1>1, <1>2
<1>8. OnItsSlots'
  BY <1>1, <1>2, <1>3, <1>7 DEF CoresInv, OnItsSlots
<1> QED
  BY <1>5, <1>6, <1>8 DEF CoresInv

\* The first socket starts the pool, on its CPUs or on those of its receiver.
LEMMA OpenSocketInv ==
  ASSUME StartsSound, CoresInv, NEW t \in ReceiverThreads, OpenSocket(t)
  PROVE  CoresInv'
<1>1. /\ t \in done /\ mask[Pool] = {}
      /\ mask' = [mask EXCEPT ![Pool] = IF pool = {} THEN mask[t] ELSE pool]
      /\ pinned' = IF pool = {} THEN pinned ELSE pinned \cup {Pool}
      /\ UNCHANGED <<config, granted, place, allowed, done, pool, made>>
  BY DEF OpenSocket
<1>2. /\ mask \in [Threads -> SUBSET Cpus] /\ pool \subseteq Cpus
      /\ mask[t] # {} /\ t \in Threads /\ Pool \in Threads
      /\ Pool \notin pinned /\ Pool \notin done
      /\ Pool # MainThread /\ Pool \notin WriterThreads \cup ReceiverThreads
      /\ pinned \subseteq Threads /\ done \subseteq Threads
      /\ place = "running"
  BY <1>1, ThreadFacts DEF CoresInv, CoresTypeOK, StartedInPlace, Bindable
<1>3. /\ Cpus' = Cpus
      /\ Ports' = Ports /\ WriterThreadCount' = WriterThreadCount
      /\ IoThreads' = IoThreads
      /\ Accepted(config)' <=> Accepted(config)
      /\ \A u : Slot(u)' = Slot(u)
      /\ \A i : CpuForSlot(i)' = CpuForSlot(i)
  BY <1>1, SlotsKept
<1>4. /\ mask' \in [Threads -> SUBSET Cpus]
      /\ \A u \in Threads \ {Pool} : mask'[u] = mask[u]
      /\ mask'[Pool] # {}
      /\ pool # {} => mask'[Pool] = pool
  BY <1>1, <1>2
<1>5. CoresTypeOK'
  <2>1. /\ pinned' \subseteq done \cup {Pool}
        /\ \A u \in done \cup pinned' : mask'[u] # {}
    BY <1>1, <1>2, <1>4 DEF CoresInv, CoresTypeOK
  <2>2. mask'[MainThread] # {}
    BY <1>2, <1>4, ThreadFacts DEF CoresInv, CoresTypeOK, Bindable
  <2> QED
    BY <1>1, <1>3, <1>4, <2>1, <2>2 DEF CoresInv, CoresTypeOK
<1>6. StartedInPlace'
  <2>1. \A u \in WriterThreads \cup ReceiverThreads : mask'[u] = mask[u]
    BY <1>2, <1>4, ThreadFacts DEF Bindable
  <2> QED
    BY <1>1, <1>2, <1>3, <2>1 DEF CoresInv, StartedInPlace
<1>7. OnItsSlots'
  <2>1. \A u \in pinned' \ {Pool} : u \in pinned /\ mask'[u] = mask[u]
    BY <1>1, <1>2, <1>4
  <2>2. Pool \in pinned' => pool # {}
    BY <1>1, <1>2
  <2> QED
    BY <1>1, <1>3, <1>4, <2>1, <2>2 DEF CoresInv, OnItsSlots
<1> QED
  BY <1>5, <1>6, <1>7 DEF CoresInv

LEMMA NextCoresInv == StartsSound /\ CoresInv /\ [CoresNext]_coresVars => CoresInv'
<1> SUFFICES ASSUME StartsSound, CoresInv, [CoresNext]_coresVars PROVE CoresInv'
  OBVIOUS
<1>1. CASE BindMain
  <2>1. /\ place = "bind" /\ place' = "writers" /\ Bind(MainThread)
        /\ UNCHANGED <<config, granted, allowed, pool, made>>
    BY <1>1 DEF BindMain, Goto
  <2>2. /\ MainThread \in Bindable /\ MainThread \notin done /\ Accepted(config)
        /\ mask[MainThread] # {} /\ Slotted(MainThread)
    BY <2>1 DEF CoresInv, StartedInPlace, CoresTypeOK, Bindable, Slotted
  <2> QED
    BY <2>1, <2>2, BindInv
<1>2. ASSUME NEW t \in ReceiverThreads \cup WriterThreads, BindThread(t) PROVE CoresInv'
  <2>1. /\ mask[t] # {} /\ t \notin done /\ Bind(t)
        /\ UNCHANGED <<config, granted, place, allowed, pool, made>>
    BY <1>2 DEF BindThread
  <2>2. /\ t \in Bindable /\ place \in {"context", "receivers", "running"} /\ Slotted(t)
    BY <1>2, <2>1 DEF CoresInv, StartedInPlace, Bindable, Slotted
  <2>3. Accepted(config)
    BY <2>2 DEF CoresInv, StartedInPlace
  <2> QED
    BY <2>1, <2>2, <2>3, BindInv
<1>3. CASE StartWriterThreads
  <2> DEFINE started == {t \in WriterThreads : t[2] < WriterThreadCount}
  <2>1. /\ place = "writers" /\ place' = "context" /\ Inherit(started)
        /\ UNCHANGED <<config, granted, allowed, done, pinned, pool, made>>
    BY <1>3 DEF StartWriterThreads, Goto
  <2>2. \A t \in started : mask[t] = {} /\ t \in Threads \ {MainThread}
    BY <2>1, ThreadFacts DEF CoresInv, StartedInPlace, Bindable
  <2>3. started \cap pinned = {} /\ started \cap done = {}
    BY <2>2 DEF CoresInv, CoresTypeOK
  <2> QED
    BY <2>1, <2>2, <2>3, InheritInv
<1>4. CASE StartReceiverThreads
  <2> DEFINE started == {t \in ReceiverThreads : t[2] < Ports}
  <2>1. /\ place = "receivers" /\ place' = "running" /\ Inherit(started)
        /\ UNCHANGED <<config, granted, allowed, done, pinned, pool, made>>
    BY <1>4 DEF StartReceiverThreads, Goto
  <2>2. \A t \in started : mask[t] = {} /\ t \in Threads \ {MainThread}
    BY <2>1, ThreadFacts DEF CoresInv, StartedInPlace, Bindable
  <2>3. started \cap pinned = {} /\ started \cap done = {}
    BY <2>2 DEF CoresInv, CoresTypeOK
  <2> QED
    BY <2>1, <2>2, <2>3, InheritInv
<1>5. CASE UNCHANGED coresVars
  <2>1. UNCHANGED <<config, granted, place, allowed, mask, done, pinned, pool, made>>
    BY <1>5 DEF coresVars
  <2>2. /\ Cpus' = Cpus
        /\ Ports' = Ports /\ WriterThreadCount' = WriterThreadCount
        /\ IoThreads' = IoThreads
        /\ Accepted(config)' <=> Accepted(config)
        /\ \A t : Slot(t)' = Slot(t)
        /\ \A i : CpuForSlot(i)' = CpuForSlot(i)
    BY <2>1, SlotsKept
  <2> QED
    BY <2>1, <2>2 DEF CoresInv, CoresTypeOK, StartedInPlace, OnItsSlots
<1> QED
  BY <1>1, <1>2, <1>3, <1>4, <1>5, AffinityInv, BeforeThreadsInv, MakeContextInv, OpenSocketInv
  DEF CoresNext

LEMMA CoresInvariance == CoresSpec => []CoresInv
BY StartsAssumption, InitCoresInv, NextCoresInv, PTL DEF CoresSpec

(***************************************************************************)
(* Whatever sched_setaffinity refuses and whenever the threads get to      *)
(* binding themselves, no thread runs outside the CPUs the process was     *)
(* granted, and none that was started is left without one.                 *)
(***************************************************************************)
THEOREM CoresTypeCorrect == CoresSpec => []CoresTypeOK
<1>1. CoresInv => CoresTypeOK
  BY DEF CoresInv
<1> QED
  BY <1>1, CoresInvariance, PTL

(***************************************************************************)
(* "Separate cores to the main thread, the ZeroMQ I/O pool, each           *)
(* configured PULL endpoint, and each SDFITS Writer" (README): for any     *)
(* CPU mask that has enough CPUs, any number of ports, I/O threads and     *)
(* Writers, no two of those that have been bound share a CPU.              *)
(***************************************************************************)
THEOREM CoresSeparate == CoresSpec => []SeparateCores
<1>1. CoresInv => SeparateCores
  <2> SUFFICES ASSUME CoresInv, Accepted(config), Len(granted) >= RequiredCpus,
                      NEW t \in pinned, NEW u \in pinned, t # u
               PROVE  mask[t] \cap mask[u] = {}
    BY DEF SeparateCores
  <2>1. PICK io \in Nat, required \in Nat, len \in Nat :
          /\ io = IoThreads /\ required = RequiredCpus /\ len = Len(granted)
          /\ io < required /\ required <= len
    BY StartsAssumption, CountFacts, SlotFacts, GrantedFacts DEF CoresInv
  <2>2. \A v \in pinned \ {Pool} :
          /\ allowed # <<>> /\ mask[v] = {CpuForSlot(Slot(v))} /\ Slotted(v)
    <3> SUFFICES ASSUME NEW v \in pinned \ {Pool}
                 PROVE  /\ allowed # <<>> /\ mask[v] = {CpuForSlot(Slot(v))}
                        /\ Slotted(v)
      OBVIOUS
    <3>1. v \in Bindable /\ mask[v] # {}
      BY DEF CoresInv, CoresTypeOK, StartedInPlace
    <3> QED
      BY <3>1 DEF CoresInv, StartedInPlace, OnItsSlots, Bindable, Slotted
  <2>3. Pool \in pinned =>
          allowed # <<>> /\ mask[Pool] = {CpuForSlot(i) : i \in 1..io}
    BY <2>1 DEF CoresInv, OnItsSlots
  <2>4. \A v \in pinned \ {Pool} :
          Slot(v) \in 0..(len - 1) /\ Slot(v) \notin 1..io
    <3>1. \A v \in pinned \ {Pool} : Slot(v) \in {0} \cup (1 + io)..(required - 1)
      BY StartsAssumption, <2>1, <2>2, SlotFacts DEF CoresInv
    <3> QED
      BY <2>1, <3>1
  <2>5. allowed # <<>> =>
          \A i, k \in 0..(len - 1) : i # k => CpuForSlot(i) # CpuForSlot(k)
    BY StartsAssumption, <2>1, CpuFacts DEF CoresInv
  <2>6. CASE t # Pool /\ u # Pool
    <3>1. Slot(t) # Slot(u)
      BY StartsAssumption, <2>2, <2>6, SlotFacts DEF CoresInv
    <3> QED
      BY <2>2, <2>4, <2>5, <2>6, <3>1
  <2>7. \A i \in 1..io : i \in 0..(len - 1)
    BY <2>1
  <2>8. ASSUME NEW v \in pinned \ {Pool}, Pool \in pinned
        PROVE  mask[v] \cap mask[Pool] = {}
    <3>1. \A i \in 1..io : CpuForSlot(Slot(v)) # CpuForSlot(i)
      BY <2>2, <2>4, <2>5, <2>7, <2>8
    <3> QED
      BY <2>2, <2>3, <2>8, <3>1
  <2> QED
    BY <2>6, <2>8
<1> QED
  BY <1>1, CoresInvariance, PTL

-----------------------------------------------------------------------------
(* The name of the directory.  DirectoryComponent folds Sanitize over the  *)
(* characters of a name; what the fold gives is shown by looking at a      *)
(* smallest set of places for which it would give something else.          *)

\* Every non-empty collection of finite sets has a smallest member.
LEMMA SmallestSet ==
  ASSUME NEW B, B # {}, \A T \in B : IsFiniteSet(T)
  PROVE  \E T \in B : \A U \in B : U \subseteq T => U = T
<1> DEFINE Sizes == {Cardinality(T) : T \in B}
<1>1. Sizes \subseteq Nat /\ Sizes # {}
  BY FS_CardinalityType
<1>2. PICK n \in Sizes : \A m \in Sizes : ~(<<m, n>> \in OpToRel(<, Nat))
  <2> HIDE DEF Sizes
  <2> QED
    BY <1>1, NatLessThanWellFounded, WFMin, Zenon
<1>3. \A m \in Sizes : n <= m
  <2> TAKE m \in Sizes
  <2>1. ~(m < n)
    BY Zenon, <1>1, <1>2 DEF OpToRel
  <2> QED
    BY <2>1, <1>1
<1>4. PICK T \in B : Cardinality(T) = n
  OBVIOUS
<1>5. ASSUME NEW U \in B, U \subseteq T PROVE U = T
  <2>1. Cardinality(U) <= Cardinality(T) /\ (Cardinality(T) = Cardinality(U) => T = U)
    BY <1>5, FS_Subset
  <2>2. n <= Cardinality(U)
    BY <1>3
  <2> QED
    BY <2>1, <2>2, <1>1, <1>4, FS_CardinalityType
<1> QED
  BY <1>5

\* A finite set of numbers has a greatest one.
LEMMA MaxFacts ==
  ASSUME NEW S \in SUBSET Nat, S # {}, IsFiniteSet(S)
  PROVE  Max(S) \in S
<1> DEFINE Topless(T) == T # {} /\ \A x \in T : \E y \in T : ~(x >= y)
           B == {T \in SUBSET S : Topless(T)}
<1>1. B = {}
  <2> SUFFICES ASSUME B # {} PROVE FALSE
    OBVIOUS
  <2>1. \A T \in B : IsFiniteSet(T)
    BY FS_Subset
  <2>2. PICK T \in B : \A U \in B : U \subseteq T => U = T
    <3> HIDE DEF B
    <3> QED
      BY <2>1, SmallestSet
  <2>3. PICK x \in T : x \in Nat
    BY <2>2
  <2> DEFINE U == T \ {x}
  <2>4. CASE U = {}
    BY <2>2, <2>3, <2>4
  <2>5. CASE U # {}
    <3>1. U \notin B /\ U \in SUBSET S
      BY <2>2, <2>3
    <3>2. PICK m \in U : \A y \in U : m >= y
      BY <2>5, <3>1
    <3>3. \A y \in T : IF x >= m THEN x >= y ELSE m >= y
      BY <2>3, <3>2
    <3> QED
      BY <2>2, <2>3, <3>2, <3>3
  <2> QED
    BY <2>4, <2>5
<1>2. \E x \in S : \A y \in S : x >= y
  BY <1>1
<1> QED
  BY <1>2 DEF Max

\* g[s] is what Sanitize makes of the characters of value at the places in s.
SanitizedBy(value, T, g) ==
  g = [s \in SUBSET T |-> IF s = {} THEN [text |-> <<>>, separator |-> FALSE]
                          ELSE Sanitize(g[s \ {Max(s)}], value[Max(s)])]

\* The definition of the fold, spelt out.
LEMMA SanitizeByRecursion ==
  ASSUME NEW value
  PROVE  FoldLeft(Sanitize, [text |-> <<>>, separator |-> FALSE], value)
           = (CHOOSE g : SanitizedBy(value, DOMAIN value, g))[DOMAIN value]
BY Zenon DEF FoldLeft, MapThenFoldSet, SanitizedBy

\* Two ways to clean all parts of a name give the same.
LEMMA SanitizedUnique ==
  ASSUME NEW value, NEW T \in SUBSET Nat, IsFiniteSet(T), NEW g, SanitizedBy(value, T, g),
         NEW U, T \subseteq U, NEW h, SanitizedBy(value, U, h)
  PROVE  \A s \in SUBSET T : g[s] = h[s]
<1> DEFINE B == {s \in SUBSET T : g[s] # h[s]}
<1> SUFFICES ASSUME B # {} PROVE FALSE
  OBVIOUS
<1>1. \A s \in B : IsFiniteSet(s)
  BY FS_Subset
<1>2. PICK s \in B : \A u \in B : u \subseteq s => u = s
  <2> HIDE DEF B
  <2> QED
    BY <1>1, SmallestSet
<1>3. s # {}
  BY <1>2 DEF SanitizedBy
<1>4. Max(s) \in s
  BY <1>1, <1>2, <1>3, MaxFacts
<1>5. g[s \ {Max(s)}] = h[s \ {Max(s)}]
  BY <1>2, <1>4
<1>6. g[s] = Sanitize(g[s \ {Max(s)}], value[Max(s)])
  BY <1>3 DEF SanitizedBy
<1>7. h[s] = Sanitize(h[s \ {Max(s)}], value[Max(s)])
  BY <1>3 DEF SanitizedBy
<1> QED
  BY <1>5, <1>6, <1>7

\* There is a way to clean all parts of a name.
LEMMA SanitizedExists ==
  ASSUME NEW value, NEW S \in SUBSET Nat, IsFiniteSet(S)
  PROVE  \E g : SanitizedBy(value, S, g)
<1> DEFINE B == {T \in SUBSET S : ~ \E g : SanitizedBy(value, T, g)}
<1> SUFFICES ASSUME B # {} PROVE FALSE
  OBVIOUS
<1>1. \A T \in B : IsFiniteSet(T)
  BY FS_Subset
<1>2. PICK T \in B : \A U \in B : U \subseteq T => U = T
  <2> HIDE DEF B
  <2> QED
    BY <1>1, SmallestSet
<1> DEFINE Of(U) == CHOOSE g : SanitizedBy(value, U, g)
           Less(s) == s \ {Max(s)}
           Step(s, v) == Sanitize(v, value[Max(s)])
           Empty == [text |-> <<>>, separator |-> FALSE]
           G == [s \in SUBSET T |-> IF s = {} THEN Empty ELSE Step(s, Of(Less(s))[Less(s)])]
<1>3. ASSUME NEW U \in SUBSET T, U # T
      PROVE  SanitizedBy(value, U, Of(U)) /\ IsFiniteSet(U) /\ U \in SUBSET Nat
  BY <1>2, <1>3, FS_Subset
<1>4. \A s \in SUBSET T : s # {} => Less(s) \in SUBSET T /\ Less(s) # T
  <2> TAKE s \in SUBSET T
  <2> HAVE s # {}
  <2>1. s \in SUBSET Nat /\ IsFiniteSet(s)
    BY <1>1, <1>2, FS_Subset
  <2> QED
    BY <2>1, MaxFacts
<1>5. ASSUME NEW U \in SUBSET T, U # T, NEW s \in SUBSET U
      PROVE  Of(U)[s] = IF s = {} THEN Empty ELSE Step(s, Of(U)[Less(s)])
  <2> DEFINE g == Of(U)
  <2>1. SanitizedBy(value, U, g)
    BY <1>3, <1>5
  <2> HIDE DEF g
  <2>2. g[s] = IF s = {} THEN Empty ELSE Step(s, g[Less(s)])
    BY <1>5, <2>1 DEF SanitizedBy
  <2> QED
    BY <2>2 DEF g
<1>6. ASSUME NEW U \in SUBSET T, U # T PROVE G[U] = Of(U)[U]
  <2>1. Of(U)[U] = IF U = {} THEN Empty ELSE Step(U, Of(U)[Less(U)])
    BY <1>5, <1>6
  <2>2. U # {} => Of(Less(U))[Less(U)] = Of(U)[Less(U)]
    <3> HAVE U # {}
    <3>1. Less(U) \in SUBSET T /\ Less(U) # T /\ Less(U) \subseteq U
      BY <1>4
    <3>2. /\ SanitizedBy(value, U, Of(U)) /\ SanitizedBy(value, Less(U), Of(Less(U)))
          /\ IsFiniteSet(Less(U)) /\ Less(U) \in SUBSET Nat
      BY <1>3, <1>6, <3>1
    <3> HIDE DEF Of, Less
    <3> QED
      BY <3>1, <3>2, SanitizedUnique
  <2>3. G[U] = IF U = {} THEN Empty ELSE Step(U, Of(Less(U))[Less(U)])
    <3> HIDE DEF Of, Less, Step, Empty
    <3> QED
      BY <1>6
  <2> HIDE DEF Of, Less, Step, Empty, G
  <2> QED
    BY <2>1, <2>2, <2>3
<1>7. SanitizedBy(value, T, G)
  <2> DEFINE H == [s \in SUBSET T |-> IF s = {} THEN Empty ELSE Step(s, G[Less(s)])]
  <2>1. \A s \in SUBSET T : H[s] = G[s]
    <3> TAKE s \in SUBSET T
    <3>1. s # {} => G[Less(s)] = Of(Less(s))[Less(s)]
      BY <1>4, <1>6
    <3>2. H[s] = IF s = {} THEN Empty ELSE Step(s, G[Less(s)])
      <4> HIDE DEF Of, Less, Step, Empty, G
      <4> QED
        OBVIOUS
    <3>3. G[s] = IF s = {} THEN Empty ELSE Step(s, Of(Less(s))[Less(s)])
      <4> HIDE DEF Of, Less, Step, Empty
      <4> QED
        OBVIOUS
    <3> HIDE DEF Of, Less, Step, Empty, G, H
    <3> QED
      BY <3>1, <3>2, <3>3
  <2>2. G = [s \in SUBSET T |-> G[s]] /\ H = [s \in SUBSET T |-> H[s]]
    <3> HIDE DEF Of, Less, Step, Empty
    <3> QED
      OBVIOUS
  <2>3. G = H
    <3> HIDE DEF G, H
    <3> QED
      BY <2>1, <2>2
  <2> HIDE DEF G
  <2> QED
    BY <2>3 DEF SanitizedBy
<1> QED
  BY <1>2, <1>7

\* Whatever the characters, what is left of them is safe.
LEMMA SanitizedSafe ==
  ASSUME NEW value, Len(value) \in Nat, DOMAIN value = 1..Len(value)
  PROVE  FoldLeft(Sanitize, [text |-> <<>>, separator |-> FALSE], value).text
           \in Seq(SafeCharacters)
<1> DEFINE S == DOMAIN value
           g == CHOOSE h : SanitizedBy(value, S, h)
<1>1. S \in SUBSET Nat /\ IsFiniteSet(S)
  BY FS_Interval
<1>2. SanitizedBy(value, S, g)
  BY <1>1, SanitizedExists
<1>3. FoldLeft(Sanitize, [text |-> <<>>, separator |-> FALSE], value) = g[S]
  BY SanitizeByRecursion
<1> HIDE DEF g, S
<1> DEFINE B == {s \in SUBSET S : g[s].text \notin Seq(SafeCharacters)}
<1>4. ASSUME B # {} PROVE FALSE
  <2>1. \A s \in B : IsFiniteSet(s)
    BY <1>1, FS_Subset
  <2>2. PICK s \in B : \A u \in B : u \subseteq s => u = s
    <3> HIDE DEF B
    <3> QED
      BY <1>4, <2>1, SmallestSet
  <2>3. CASE s = {}
    <3>1. g[s].text = <<>>
      BY <1>2, <2>3 DEF SanitizedBy
    <3>2. <<>> \in Seq(SafeCharacters)
      OBVIOUS
    <3> QED
      BY <2>2, <3>1, <3>2
  <2>4. CASE s # {}
    <3> DEFINE u == s \ {Max(s)}
               c == value[Max(s)]
    <3>1. Max(s) \in s
      BY <1>1, <2>1, <2>2, <2>4, MaxFacts
    <3>2. u \in SUBSET S /\ g[u].text \in Seq(SafeCharacters)
      BY <2>2, <3>1
    <3>3. g[s] = Sanitize(g[u], c)
      BY <1>2, <2>2, <2>4 DEF SanitizedBy
    <3> HIDE DEF u, c
    <3>4. "-" \in SafeCharacters
      BY DEF SafeCharacters
    <3>5. Sanitize(g[u], c).text \in Seq(SafeCharacters)
      <4>1. CASE c \in SafeCharacters
        BY <3>2, <4>1 DEF Sanitize
      <4>2. CASE c \notin SafeCharacters
        BY <3>2, <3>4, <4>2 DEF Sanitize
      <4> QED
        BY <4>1, <4>2
    <3> QED
      BY <2>2, <3>3, <3>5
  <2> QED
    BY <2>3, <2>4
<1>5. g[S].text \in Seq(SafeCharacters)
  BY <1>4
<1> QED
  BY <1>3, <1>5

\* The beginning of a safe text is safe.
LEMMA PrefixSafe ==
  ASSUME NEW text \in Seq(SafeCharacters), NEW n \in 0..Len(text)
  PROVE  SubSeq(text, 1, n) \in Seq(SafeCharacters) /\ Len(SubSeq(text, 1, n)) = n
OBVIOUS

LEMMA JoinSafe ==
  ASSUME NEW a \in Seq(SafeCharacters), NEW b \in Seq(SafeCharacters)
  PROVE  a \o b \in Seq(SafeCharacters) /\ Len(a \o b) = Len(a) + Len(b)
OBVIOUS

LEMMA AppendSafe ==
  ASSUME NEW a \in Seq(SafeCharacters), NEW c \in SafeCharacters
  PROVE  Append(a, c) \in Seq(SafeCharacters) /\ Len(Append(a, c)) = Len(a) + 1
OBVIOUS

LEMMA ReplaceSafe ==
  ASSUME NEW a \in Seq(SafeCharacters), NEW i, NEW c \in SafeCharacters
  PROVE  [a EXCEPT ![i] = c] \in Seq(SafeCharacters) /\ Len([a EXCEPT ![i] = c]) = Len(a)
<1> DEFINE b == [a EXCEPT ![i] = c]
<1>1. PICK n \in Nat : n = Len(a) /\ a \in [1..n -> SafeCharacters]
  OBVIOUS
<1>2. b \in [1..n -> SafeCharacters]
  BY <1>1
<1> HIDE DEF b
<1>3. b \in Seq(SafeCharacters) /\ Len(b) = n
  BY <1>2
<1> QED
  BY <1>1, <1>3 DEF b

LEMMA TextFacts ==
  ASSUME NEW n \in Nat
  PROVE  Text(n) \in Seq(SafeCharacters) /\ Len(Text(n)) = n /\ DOMAIN Text(n) = 1..n
BY DEF Text, SafeCharacters

LEMMA ComponentSafe ==
  ASSUME NEW value, Len(value) \in Nat, DOMAIN value = 1..Len(value)
  PROVE  DirectoryComponent(value) \in Seq(SafeCharacters)
<1> DEFINE safe == FoldLeft(Sanitize, [text |-> <<>>, separator |-> FALSE], value).text
           kept == {i \in 1..Len(safe) : safe[i] # "-"}
           text == WithoutTrailingDashes(safe)
<1>1. safe \in Seq(SafeCharacters)
  BY SanitizedSafe
<1> HIDE DEF safe
<1>2. text \in Seq(SafeCharacters)
  <2>1. kept = {} \/ Max(kept) \in kept
    <3>1. 1..Len(safe) \in SUBSET Nat /\ IsFiniteSet(1..Len(safe))
      BY <1>1, FS_Interval
    <3>2. kept \in SUBSET Nat /\ IsFiniteSet(kept)
      BY <3>1, FS_Subset
    <3> QED
      BY <3>2, MaxFacts
  <2>2. (IF kept = {} THEN 0 ELSE Max(kept)) \in 0..Len(safe)
    BY <1>1, <2>1
  <2> QED
    BY <1>1, <2>2, PrefixSafe DEF WithoutTrailingDashes
<1>3. Text(7) \in Seq(SafeCharacters)
  BY TextFacts
<1>4. DirectoryComponent(value) = IF text = <<>> THEN Text(7) ELSE text
  BY DEF DirectoryComponent, safe
<1> HIDE DEF text
<1> QED
  BY <1>2, <1>3, <1>4

\* A name stays safe and within its length, whatever is appended.
LEMMA AppendFacts ==
  ASSUME NEW id \in Seq(SafeCharacters), Len(id) \in 6..MaxIdLength,
         NEW component, Len(component) \in Nat, DOMAIN component = 1..Len(component)
  PROVE  /\ AppendComponent(id, component) \in Seq(SafeCharacters)
         /\ Len(AppendComponent(id, component)) \in 6..MaxIdLength
<1> USE NameAssumption
<1>1. CASE component = <<>> \/ Len(id) >= MaxIdLength - 1
  BY <1>1 DEF AppendComponent
<1>2. CASE ~(component = <<>> \/ Len(id) >= MaxIdLength - 1)
  <2> DEFINE safe == DirectoryComponent(component)
             available == MaxIdLength - Len(id) - 1
             n == IF Len(safe) < available THEN Len(safe) ELSE available
             new == Append(id, "_") \o SubSeq(safe, 1, n)
  <2>1. safe \in Seq(SafeCharacters)
    BY ComponentSafe
  <2> HIDE DEF safe
  <2>2. n \in 0..Len(safe) /\ Len(id) + 1 + n <= MaxIdLength /\ Len(id) \in Nat
    <3>1. PICK l \in Nat, k \in Nat : l = Len(id) /\ k = Len(safe)
      BY <2>1
    <3>2. MaxIdLength \in Nat /\ l < MaxIdLength - 1
      BY <1>2, <3>1
    <3>3. n = IF k < MaxIdLength - l - 1 THEN k ELSE MaxIdLength - l - 1
      BY <3>1
    <3> HIDE DEF n
    <3>4. n \in 0..k /\ l + 1 + n <= MaxIdLength
      BY <3>2, <3>3
    <3> QED
      BY <3>1, <3>4
  <2>3. AppendComponent(id, component) = new
    BY <1>2 DEF AppendComponent, safe
  <2> HIDE DEF n
  <2>4. SubSeq(safe, 1, n) \in Seq(SafeCharacters) /\ Len(SubSeq(safe, 1, n)) = n
    BY <2>1, <2>2, PrefixSafe
  <2>5. Append(id, "_") \in Seq(SafeCharacters) /\ Len(Append(id, "_")) = Len(id) + 1
    <3>1. "_" \in SafeCharacters
      BY DEF SafeCharacters
    <3> QED
      BY <3>1, AppendSafe
  <2>6. new \in Seq(SafeCharacters) /\ Len(new) = Len(id) + 1 + n
    BY <2>4, <2>5, JoinSafe
  <2>7. Len(id) + 1 + n \in 6..MaxIdLength
    BY <2>2
  <2> HIDE DEF new
  <2> QED
    BY <2>3, <2>6, <2>7
<1> QED
  BY <1>1, <1>2

\* Whatever the object is called, the directory of an accepted configuration has a valid name.
LEMMA DirectoryValid ==
  ASSUME StartsSound, NEW start \in Starts, Accepted(start.config)
  PROVE  ObservationIdIsValid(ObservationDirectory(start.config))
<1> DEFINE c == start.config
           object == IF c.object = Unset THEN <<>> ELSE c.object
           stamped == AppendComponent(Timestamp, object)
           id == AppendComponent(stamped, SourceLabel(c))
<1>1. CASE Configured(c)
  BY <1>1 DEF ObservationDirectory, Accepted
<1>2. CASE ~Configured(c)
  <2>1. Timestamp \in Seq(SafeCharacters) /\ Len(Timestamp) = TimestampLength
    <3>1. /\ Text(TimestampLength) \in Seq(SafeCharacters)
          /\ Len(Text(TimestampLength)) = TimestampLength
      BY TextFacts, NameAssumption
    <3>2. "." \in SafeCharacters
      BY DEF SafeCharacters
    <3> QED
      BY <3>1, <3>2, ReplaceSafe DEF Timestamp
  <2>2. Len(object) \in Nat /\ DOMAIN object = 1..Len(object)
    <3>1. CASE c.object = Unset
      BY <3>1
    <3>2. CASE c.object # Unset
      <4>1. c.object # Malformed /\ NameSound(c.object)
        BY DEF StartsSound, Accepted
      <4> QED
        BY <3>2, <4>1 DEF NameSound
    <3> QED
      BY <3>1, <3>2
  <2>3. stamped \in Seq(SafeCharacters) /\ Len(stamped) \in 6..MaxIdLength
    <3>1. Len(Timestamp) \in 6..MaxIdLength
      BY <2>1, NameAssumption
    <3> HIDE DEF object
    <3> QED
      BY <2>1, <2>2, <3>1, AppendFacts
  <2>4. Len(SourceLabel(c)) \in Nat /\ DOMAIN SourceLabel(c) = 1..Len(SourceLabel(c))
    BY TextFacts DEF SourceLabel
  <2>5. id \in Seq(SafeCharacters) /\ Len(id) \in 6..MaxIdLength
    <3> HIDE DEF stamped, c
    <3> QED
      BY <2>3, <2>4, AppendFacts
  <2>6. ObservationDirectory(c) = id
    BY <1>2 DEF ObservationDirectory, AutomaticDirectoryId
  <2> HIDE DEF id
  <2>7. ObservationIdIsValid(id)
    <3>1. Len(id) \in 1..MaxIdLength /\ \A i \in 1..Len(id) : id[i] \in SafeCharacters
      BY <2>5, NameAssumption
    <3>2. Len(<<".">>) = 1 /\ Len(<<".", ".">>) = 2 /\ Len(id) > 5
      BY <2>5
    <3> QED
      BY <3>1, <3>2 DEF ObservationIdIsValid
  <2> QED
    BY <2>6, <2>7
<1> QED
  BY <1>1, <1>2

\* What has been made so far.
DirectoryMade ==
  /\ place \in {"affinity", "log", "config"} => made = {}
  /\ place = "refused" => made \subseteq {StorageFolder} /\ (~Accepted(config) => made = {})
  /\ place \in {"bind", "writers", "context", "receivers", "running"} =>
       made = {StorageFolder, ObservationDirectory(config)}

LEMMA DirectoryMadeNext == CoresTypeOK /\ DirectoryMade /\ [CoresNext]_coresVars => DirectoryMade'
<1> SUFFICES ASSUME CoresTypeOK, DirectoryMade, [CoresNext]_coresVars PROVE DirectoryMade'
  OBVIOUS
<1>1. CASE Affinity \/ StartLog \/ Refuse \/ CannotMake \/ MakeDirectory
  BY <1>1 DEF DirectoryMade, Affinity, StartLog, Refuse, CannotMake, MakeDirectory, Goto
<1>2. CASE BindMain \/ StartWriterThreads \/ ConfigureContext \/ StartReceiverThreads
  BY <1>2 DEF DirectoryMade, BindMain, StartWriterThreads, ConfigureContext,
              StartReceiverThreads, Goto
<1>3. CASE UNCHANGED <<config, place, made>>
  BY <1>3 DEF DirectoryMade
<1>4. ASSUME NEW t \in ReceiverThreads \cup WriterThreads, BindThread(t)
      PROVE  UNCHANGED <<config, place, made>>
  BY <1>4 DEF BindThread
<1>5. ASSUME NEW t \in ReceiverThreads, OpenSocket(t) PROVE UNCHANGED <<config, place, made>>
  BY <1>5 DEF OpenSocket
<1>6. CASE UNCHANGED coresVars
  BY <1>3, <1>6 DEF coresVars
<1> QED
  BY <1>1, <1>2, <1>3, <1>4, <1>5, <1>6 DEF CoresNext

(***************************************************************************)
(* A configuration that is refused leaves no directory behind; one that is *)
(* accepted has its directory before any Writer starts, under a name that  *)
(* is valid for every name of the object, every length of the timestamp    *)
(* and every limit on names.                                               *)
(***************************************************************************)
THEOREM CoresOwnDirectory == CoresSpec => []OwnDirectory
<1>1. CoresInit => DirectoryMade
  BY DEF CoresInit, DirectoryMade
<1>2. CoresInv /\ DirectoryMade /\ [CoresNext]_coresVars => DirectoryMade'
  BY DirectoryMadeNext DEF CoresInv
<1>3. CoresInv /\ DirectoryMade => OwnDirectory
  <2> SUFFICES ASSUME CoresInv, DirectoryMade, NEW t \in WriterThreads, mask[t] # {}
               PROVE  \E id \in made \ {StorageFolder} : ObservationIdIsValid(id)
    BY DEF OwnDirectory, DirectoryMade
  <2> DEFINE id == ObservationDirectory(config)
  <2>1. place \in {"context", "receivers", "running"} /\ Accepted(config)
    BY DEF CoresInv, StartedInPlace
  <2>2. ObservationIdIsValid(id)
    <3>1. PICK start \in Starts : config = start.config
      BY DEF CoresInv, CoresTypeOK
    <3> QED
      BY <2>1, <3>1, StartsAssumption, DirectoryValid
  <2>3. id \in made
    BY <2>1 DEF DirectoryMade
  <2> HIDE DEF id
  <2>4. id # StorageFolder
    BY <2>2 DEF ObservationIdIsValid, StorageFolder
  <2> QED
    BY <2>2, <2>3, <2>4
<1> QED
  BY <1>1, <1>2, <1>3, CoresInvariance, PTL DEF CoresSpec

=============================================================================
