---------------------------- MODULE RecorderStart ----------------------------
(***************************************************************************)
(* main() of src/src/main.cpp up to the running threads: the CPU mask is   *)
(* read and main bound, the logger made, the configuration read and the    *)
(* observation directory made, and then every thread of receive_results    *)
(* started and bound to a core of its own (src/src/zmq_receiver.cpp).      *)
(*                                                                         *)
(* A thread starts with the mask of the thread that made it, and keeps it  *)
(* until it has bound itself.  How the receivers report back, and how a    *)
(* start fails from the ZeroMQ context on, is in ReceiverStartup.          *)
(***************************************************************************)
EXTENDS ObservationConfig

CONSTANTS Starts,            \* pairs of a configuration and the CPUs the process may use
          MaxIoThreads,      \* MAX_ZMQ_IO_THREADS
          WriterCount,       \* SPECTRUM_WRITER_COUNT
          MaxPorts           \* bound: result_ports

\* sched_getaffinity names at least one CPU.
MaskSound(cpus) ==
  /\ cpus \in Seq(Nat) /\ cpus # <<>>
  /\ \A i, k \in 1..Len(cpus) : i < k => cpus[i] < cpus[k]

\* Ports that are accepted are a list.
PortsSound(ports) == PortsAccepted(ports) => Len(ports) \in 0..MaxPorts

\* A name that can be read is a sequence of characters.
NameSound(name) == name \notin {Unset, Malformed} => Len(name) \in Nat /\ DOMAIN name = 1..Len(name)

StartsSound ==
  /\ MaxIoThreads \in Nat \ {0} /\ WriterCount \in Nat \ {0} /\ MaxPorts \in Nat
  /\ \A start \in Starts :
       MaskSound(start.granted) /\ PortsSound(start.config.result_ports)
       /\ NameSound(start.config.object)

ASSUME StartsAssumption == StartsSound

ReceiverThreads == {<<"receiver", i>> : i \in 0..(MaxPorts - 1)}
WriterThreads == {<<"writer", i>> : i \in 0..(WriterCount - 1)}
MainThread == <<"main", 0>>
Logger == <<"logger", 0>>
Pool == <<"pool", 0>>      \* the ZeroMQ I/O threads, which share one mask
StorageFolder == <<>>

Threads == ReceiverThreads \cup WriterThreads \cup {MainThread, Logger, Pool}

VARIABLES config, granted,   \* config.yaml, and the process's CPUs in ascending order
          place,             \* where main is
          allowed,           \* the static list in allowed_cpus()
          mask,              \* per thread: the CPUs it may run on; {} when not started
          done,              \* threads that are through bind_current_thread
          pinned,            \* threads that run where they were to be bound
          pool,              \* the CPUs the ZeroMQ context was given for its I/O threads
          made               \* directories made, by their path below the storage folder

coresVars == <<config, granted, place, allowed, mask, done, pinned, pool, made>>

Cpus == {granted[i] : i \in 1..Len(granted)}

CoresInit ==
  /\ \E start \in Starts : config = start.config /\ granted = start.granted
  /\ place = "affinity"
  /\ allowed = <<>>
  /\ mask = [t \in Threads |-> IF t = MainThread THEN Cpus ELSE {}]
  /\ done = {}
  /\ pinned = {}
  /\ pool = {}
  /\ made = {}

-----------------------------------------------------------------------------
(* The CPU of each slot *)

Ports == Len(config.result_ports)

\* zmq_io_thread_count
IoThreads == IF Ports < MaxIoThreads THEN (IF Ports < 1 THEN 1 ELSE Ports) ELSE MaxIoThreads

WriterThreadCount == IF Spectral(config) THEN WriterCount ELSE 1

RequiredCpus == 1 + IoThreads + Ports + WriterThreadCount

\* Mutants of CpuForSlot: the pool is counted as one thread; slots taken for CPUs.
CpuForSlotOnePool(slot) ==
  allowed[((IF slot > IoThreads THEN slot - IoThreads + 1 ELSE slot) % Len(allowed)) + 1]

CpuForSlotUnlisted(slot) == slot % Len(allowed)

\* cpu_for_slot, when allowed_cpus() is not empty.
CpuForSlot(slot) == allowed[(slot % Len(allowed)) + 1]

\* receiver_cpu_slot and writer_cpu_slot
Slot(t) ==
  CASE t = MainThread -> 0
    [] t \in ReceiverThreads -> 1 + IoThreads + t[2]
    [] t \in WriterThreads -> 1 + IoThreads + Ports + t[2]

-----------------------------------------------------------------------------
(* main *)

Goto(from, to) == place = from /\ place' = to

(***************************************************************************)
(* initialize_recorder_cpu_affinity: the list is made before main's mask   *)
(* is narrowed.  sched_getaffinity may fail, and so may the binding.       *)
(***************************************************************************)
Affinity ==
  /\ Goto("affinity", "log")
  /\ \/ allowed' = <<>> /\ UNCHANGED mask
     \/ /\ allowed' = granted
        /\ mask' \in {mask, [mask EXCEPT ![MainThread] = {granted[1]}]}
  /\ UNCHANGED <<config, granted, done, pinned, pool, made>>

\* initlog: the logger's thread shares main's core.
StartLog ==
  /\ Goto("log", "config")
  /\ mask' = [mask EXCEPT ![Logger] = mask[MainThread]]
  /\ UNCHANGED <<config, granted, allowed, done, pinned, pool, made>>

Refuse ==
  /\ Goto("config", "refused")
  /\ ~Accepted(config)
  /\ UNCHANGED <<config, granted, allowed, mask, done, pinned, pool, made>>

\* Either create_directories may throw.
CannotMake ==
  /\ Goto("config", "refused")
  /\ Accepted(config)
  /\ made' \in {{}, {StorageFolder}}
  /\ UNCHANGED <<config, granted, allowed, mask, done, pinned, pool>>

MakeDirectory ==
  /\ Goto("config", "bind")
  /\ Accepted(config)
  /\ made' = {StorageFolder, ObservationDirectory(config)}
  /\ UNCHANGED <<config, granted, allowed, mask, done, pinned, pool>>

\* bind_current_thread: with no list, or when refused, a thread stays as it is.
Bind(t) ==
  /\ done' = done \cup {t}
  /\ \/ UNCHANGED <<mask, pinned>>
     \/ /\ allowed # <<>>
        /\ mask' = [mask EXCEPT ![t] = {CpuForSlot(Slot(t))}]
        /\ pinned' = pinned \cup {t}

BindMain ==
  /\ Goto("bind", "writers")
  /\ Bind(MainThread)
  /\ UNCHANGED <<config, granted, allowed, pool, made>>

Inherit(threads) == mask' = [t \in Threads |-> IF t \in threads THEN mask[MainThread] ELSE mask[t]]

StartWriterThreads ==
  /\ Goto("writers", "context")
  /\ Inherit({t \in WriterThreads : t[2] < WriterThreadCount})
  /\ UNCHANGED <<config, granted, allowed, done, pinned, pool, made>>

\* Not every libzmq can bind its I/O threads.
ConfigureContext ==
  /\ Goto("context", "receivers")
  /\ pool' \in {{}, IF allowed = <<>> THEN {} ELSE {CpuForSlot(i) : i \in 1..IoThreads}}
  /\ UNCHANGED <<config, granted, allowed, mask, done, pinned, made>>

StartReceiverThreads ==
  /\ Goto("receivers", "running")
  /\ Inherit({t \in ReceiverThreads : t[2] < Ports})
  /\ UNCHANGED <<config, granted, allowed, done, pinned, pool, made>>

-----------------------------------------------------------------------------
\* The first thing a receiver and a Writer do.
BindThread(t) ==
  /\ mask[t] # {} /\ t \notin done
  /\ Bind(t)
  /\ UNCHANGED <<config, granted, place, allowed, pool, made>>

(***************************************************************************)
(* zmq_socket: the first socket of a context starts its I/O threads, which *)
(* take over the mask of that receiver if they were given none.            *)
(***************************************************************************)
OpenSocket(t) ==
  /\ t \in done
  /\ mask[Pool] = {}
  /\ mask' = [mask EXCEPT ![Pool] = IF pool = {} THEN mask[t] ELSE pool]
  /\ pinned' = IF pool = {} THEN pinned ELSE pinned \cup {Pool}
  /\ UNCHANGED <<config, granted, place, allowed, done, pool, made>>

CoresNext ==
  \/ Affinity \/ StartLog
  \/ Refuse \/ CannotMake \/ MakeDirectory
  \/ BindMain \/ StartWriterThreads \/ ConfigureContext \/ StartReceiverThreads
  \/ \E t \in ReceiverThreads \cup WriterThreads : BindThread(t)
  \/ \E t \in ReceiverThreads : OpenSocket(t)

CoresSpec == CoresInit /\ [][CoresNext]_coresVars

-----------------------------------------------------------------------------
(* Properties *)

\* Type invariant; no thread runs outside the CPUs the process was granted.
CoresTypeOK ==
  /\ \E start \in Starts : config = start.config /\ granted = start.granted
  /\ place \in {"affinity", "log", "config", "refused", "bind", "writers", "context",
                "receivers", "running"}
  /\ allowed \in {<<>>, granted}
  /\ mask \in [Threads -> SUBSET Cpus]
  /\ mask[MainThread] # {}
  /\ pool \subseteq Cpus
  /\ done \subseteq Threads
  /\ pinned \subseteq done \cup {Pool}
  /\ \A t \in done \cup pinned : mask[t] # {}

(***************************************************************************)
(* A configuration that is refused leaves no directory behind.  One that   *)
(* is accepted has its directory right below the storage folder before     *)
(* any thread that writes starts, under a name that any controller could   *)
(* have given: safe, at most 64 characters, and neither "." nor "..",      *)
(* whatever the object is called.                                          *)
(***************************************************************************)
OwnDirectory ==
  /\ place = "refused" => made \subseteq {StorageFolder} /\ (~Accepted(config) => made = {})
  /\ (\E t \in WriterThreads : mask[t] # {}) =>
       \E id \in made \ {StorageFolder} : ObservationIdIsValid(id)

(***************************************************************************)
(* "Assigns separate cores to the main thread, the ZeroMQ I/O pool, each   *)
(* configured PULL endpoint, and each SDFITS Writer" (README): where there *)
(* are enough CPUs, no two that have been bound share one.                 *)
(***************************************************************************)
SeparateCores ==
  Accepted(config) /\ Len(granted) >= RequiredCpus =>
    \A t, u \in pinned : t # u => mask[t] \cap mask[u] = {}

=============================================================================
