# Spectral Line Recorder in TLA+

The Recorder receives complete spectra, or continuum powers, from processing
servers over ZeroMQ and writes them to FITS files. This directory models what
it does between a message and a row on disk, checks it with TLC on small
instances, and proves part of it for all instances with TLAPS. Paths below are
relative to the repository (`src/zmq_receiver.cpp` and so on).

## 1. The system

```
 senders --> PULL socket per port --> receive_worker --> enqueue_spectrum_write --> 8 x SpectrumWriteQueue
 (external)                            (one thread each)                               |
                                            |                            spectrum_writer_worker (8 threads)
                                            |                                          |
                                     enqueue_continuum                  write_spectrum_frame -> map of WriterStates
                                            |                                          |
                                     continuum_worker (1 thread)            sdfits_create / sdfits_write_subint
                                            |                                          |
                            frames -> ContinuumFits::write                     one SDFITS file per band
```

A process runs in one of two modes: spectral (the right-hand path) or continuum.

| component | state | operations | talks to |
|---|---|---|---|
| Receivers (`receive_worker`, `validate_header`) | per port: the last sequence number and time of every stream, counters of gaps and duplicates | receive, check the envelope, check the header, check the sequence, pass on | senders (messages), queues (calls) |
| Writer queues (`SpectrumWriteQueue`) | deque of results, bytes queued, mutex, condition variable | enqueue or drop, wait, take | receivers and one Writer thread share it |
| SDFITS Writers (`write_spectrum_frame`, `sdfits.cpp`) | map band -> open file; per file next row and sticky CFITSIO status; three kinds of mutex | find or create the file, write a row, flush every eighth | Writers share the map and CFITSIO; files outlive the process |
| Continuum aggregation (`accumulate_continuum`, `continuum_worker`) | frames by integration time, time of the last sweep | add, discard, finish, sweep | continuum queue, continuum file |
| Continuum file (`ContinuumFits.cpp`) | file, row counter, status, current HDU | create, write | called by the continuum worker only |
| Start-up and shutdown (`receive_results`) | `ReceiverStartup`: receivers that reported, whether one failed | start threads, wait, shut down, join, exit | receivers, detached Writers |
| CPU assignment (`cpu_for_slot`, `bind_current_thread`) | the list of allowed CPUs, made once; every thread's mask | read the list, slot to CPU, bind | every thread |
| Configuration, observation identity (`Globalcfg.hpp`, `ObservationId.hpp`) | the configuration, constant after start | check, name and make the directory | everyone reads it |
| Metadata and times (`SdfitsMetadata.hpp`, `time_utils.h`) | none | conversions | Writers, continuum file |
| ON/OFF reduction (`make_class_onoff.py`) | none | read two recordings, calibrate, write a spectrum | recorded files |
| Plot scripts, vendored headers, build and service files | - | - | - |

What is hard, and what therefore is modelled first:

- **Threads.** Receivers and Writers share queues, a map and CFITSIO; the
  notification follows the unlock; one mutex is taken inside two others.
- **Messages.** They are lost, repeated, reordered and damaged; senders restart
  and number again from the beginning, possibly on another port.
- **Files.** CFITSIO errors are sticky in one class and reset in the other;
  rows are made visible by flushes; the process dies without notice and may be
  started again on the same directory.
- **Time.** Inputs of one integration come in any order with slightly different
  times, and incomplete integrations must go away, also when results wait in a
  queue behind a worker that is held up.
- **Start and exit.** A port may fail while other receivers already run; detached
  Writers outlive the function that started them; masks are inherited.

`PROJECT.json` lists each hazard at its line with the properties aimed at it.

## 2. Modules

| module | models | state and actions against the code |
|---|---|---|
| `WriterFifo` | the promise of a Writer queue | what is let in leaves in order, once, and eventually |
| `SpectrumWriteQueue` | `enqueue_spectrum_write`, `spectrum_writer_worker` | everything done under `queue.mutex` is one step (`Admit`, `Drop`, `Take`); `Notify` is a step of its own because `notify_one()` follows the unlock; `Sleep`/`SpuriousWake` are the two ends of `ready.wait` |
| `Receiver` | `receive_worker`'s loop and the senders' side of the wire | `wire` is a set that nothing leaves, so messages repeat, overtake each other or never arrive; `Refuse`, `Reject` and `Pass` are the ways a message goes through the checks; a damaged or foreign message carries the kind of flaw instead of bytes |
| `SdfitsWriters` | `write_spectrum_frame`, `sdfits.cpp`, crash and restart | one step for each wait for a mutex: `lookup` waits for the map's, `missing` and `locked` for CFITSIO's, `found` for the band's; `disk` is what a reader of the files would find |
| `ContinuumAggregator` | `find_continuum_frame`, `accumulate_continuum`, `discard_expired_continuum_frames`, `continuum_worker` | the map is a set of frames; the four ways `accumulate_continuum` ends are `Discard`, `Repeat`, `Add`, `Finish`; a frame's age stands for its `created_at` |
| `ContinuumFile` | `ContinuumFits.cpp`, crash and restart | one action for each way `write` returns |
| `ReceiverStartup` | `receive_results`, set-up and end of `receive_worker`, exit | main's and each receiver's place in the code; a report under the lock and its notification are two steps; the ways a set-up fails differ only in whether there was a socket to close; `Destroy` is the destructor of one queue at exit, which waits while a detached Writer waits on its condition variable |
| `ContinuumRecorder` | `enqueue_continuum`, `ContinuumQueue`, the waits of `continuum_worker`, composed with `ContinuumAggregator` | what is done under `continuum_queue.mutex` is one step, `Notify` another, as in `SpectrumWriteQueue`; `TimeOut` is the end of `wait_for`; `Create` may end the worker for good |
| `LossyRecorder` | what the Recorder promises of the results of a stream while it runs | send, accept, record, lose: nothing twice, in order within a life of the sender, every loss counted or logged |
| `SpectralRecorder` | `Receiver`, `spectrum_writer_index`, the Writer queues and the Writers composed | a receiver has a result in its hand between the sequence check and the queue; a queue is what `WriterFifo` promises, and may refuse when it is not empty |
| `ObservationConfig` | `initFromYaml`, `ObservationId.hpp` | no state: what is accepted, and the name of the directory; a name is a sequence of kinds of characters |
| `RecorderStart` | `main`, CPU assignment, the start of every thread, with `ObservationConfig` | main's place in the code and every thread's mask; each thread inherits its maker's mask and then binds itself |
| `MC...` | | values for the constants; `.cfg` files choose among them |
| `...Proofs` | | the theorems about the module of that name; `StartProofs` is about `ReceiverStartup` and `RecorderStart` |

How they compose: `SpectralRecorder` instantiates `Receiver` and implements
`LossyRecorder`; `SpectrumWriteQueue` and `ContinuumRecorder` implement
`WriterFifo`; `ContinuumRecorder` instantiates `ContinuumAggregator`;
`RecorderStart` extends `ObservationConfig`. `SdfitsWriters` and `ContinuumFile`
stand at the end of the two paths: what they may do to a result (a row, or
given up with a log line) is what the compositions let a Writer do.

Abstractions. A spectrum is the order in which it came; payloads have a size
only where the size matters. CFITSIO is modelled by what the code relies on:
calls do nothing while the status is nonzero, a column is written to a row of
the current table, and rows are visible from the next flush on. A wrong magic,
version, length or CRC is one flaw, a wrong header another. The senders are not
in the repository: they number consecutively and their clock never runs back.

Operators that a comment calls a *mutant* are definitions with a plausible bug
in them. No specification uses them: they are there to be put in the place of
the definition they follow, to see that a property notices (section 4).

## 3. Runs

| run | question | bounds, and why they are enough |
|---|---|---|
| `queue` | limit, accounting, order, wake-ups, refinement of `WriterFifo` | three receivers, so that two compete while one still has to notify; capacity 4 with payloads 1, 2, 4: exact fill, overflow and a payload as big as the queue; six results |
| `receiver` | order of what passes, what is rejected, gaps counted | one stream (tables are per stream), two ports, four results, two restarts: a sender can leave a port and come back to its old entry; an abandoned link delivers nothing more (`RejectsOnlyLate` is proved for the other case too) |
| `sdfits_crash` | mutual exclusion, deadlock, content of the files, fate of every result, with faults and a crash, on a reentrant CFITSIO and on another | three Writers, so that one may hold the map, one a band and one CFITSIO; four bands, two of which share a Writer and a file name; a flush every second row, and three results for one band, reach a flush and leave a row unflushed |
| `continuum_frames` | frames, sums, contradictions, timeouts | two integrations, three inputs, times up to twice the tolerance apart: a result may be near no frame, one on either side, or open a second frame of the same integration; one input repeats |
| `continuum_queue` | order and fate of results through the bounded queue | two receivers, a queue of two: one result more than fits while the worker adds one up; an integration of three inputs, one of which may contradict, and the first result of the next one |
| `continuum_file` | rows reported as written | four integrations, two crashes: a hole, rows around it, a second run |
| `spectral` | the whole spectral path against `LossyRecorder` | three results, one restart that may move to the other port: both receivers may hold a result of the stream; one stream, since streams meet only in a queue, whose order `queue` has |
| `start` | directory and cores | names of up to 10 characters after a timestamp of 6 (64 and 20 in the code) reach every case of the cut; CPU masks from one CPU to more than enough; every single flaw of a configuration |
| `startup` | start on all ports or none, and exit | three ports: one may fail before, between and after two others have reported; three queues: exit may be held up at the first, in the middle, at the last |

Three runs end in a counterexample, each against a sentence of the
documentation (section 6): `sdfits_restart`, `continuum_duplicates` and
`continuum_restart`.

Deadlock is checked, except in the runs of `SdfitsWriters`, `ContinuumFile`,
`SpectralRecorder` and `RecorderStart`, which stop when their bounds on results
and crashes are reached, or when everything has started, and nothing is left to
do. `EveryJobEnds` and the liveness of `ImplementsLossy` cover real deadlocks in
the first and third; the other two have one thread, or threads that wait for
nobody.

### Properties

Besides one type invariant per module:

- `SpectrumWriteQueue`: `BytesBounded` (256 MiB limit, no wrap of the
  `size_t`), `NothingLost`, `NoLostWakeup`, `FifoSpec` (with its liveness: what
  was let in is taken and finished).
- `Receiver`: `InSendOrder`, `RejectsOnlyLate`, `GapsReported`.
- `SdfitsWriters`: `CfitsioExclusive`, `OneBandPerFile`, `DiskRowsSound`,
  `AtRiskBounded`, `EveryResultAccounted`, `FilesOnlyGrow`, `EveryJobEnds`.
- `SpectralRecorder`: `OneFate` (a result that passed the checks is in exactly
  one place), `ImplementsLossy` (order and liveness included).
- `ContinuumAggregator`: `FramesApart`, `FramesAgree`, `SumsWhole`,
  `ContradictedNeverWritten`, `EveryFrameEnds`.
- `ContinuumRecorder`: `FifoSafety`, `CompleteWritten` (an integration whose
  results all came and agree is written, unless a frame of it timed out).
- `ContinuumFile`: `AcceptedOnDisk`, `RowsInOrder`.
- `RecorderStart`: `OwnDirectory`, `SeparateCores`; its type invariant says that
  no thread leaves the CPUs the process was granted.
- `ReceiverStartup`: `AllPortsOrNone`, `NothingOutlivesMain`, `NoLostWakeup`,
  `StartEnds`.

### Fairness

- `SpectrumWriteQueue`: weak fairness of each receiver's `Notify` (nothing
  blocks between the unlock and the call), of the Writer's look at the queue
  (`Sleep \/ Take`) and of `Finish` (CFITSIO calls return). Results need not
  come and spurious wake-ups need not happen, so the liveness of `FifoSpec`
  rests on notifications alone.
- `SdfitsWriters`: weak fairness of every Writer's step. `std::mutex` promises
  no order among waiters; `EveryJobEnds` follows because the number of results
  is bounded, so that no Writer can be overtaken for ever.
- `ContinuumAggregator`: time passes (`Tick`), `wait_for` returns at the latest
  by its timeout (`NoResult`), the loop goes on (`Sweep`). No result need come.
- `ContinuumRecorder`: the worker goes on when it can (file calls return,
  `wait_for` ends at the latest by its timeout) and each receiver's `Notify`.
- `SpectralRecorder`: each receiver's hand-over, each Writer's `Take` and
  `Finish`. That a Writer does not sleep on a queue that holds results is what
  `queue` shows. Messages need not come.
- `ReceiverStartup`: main and each receiver go on when they can; none of these
  steps waits for anything but what its guard says. `SpuriousWake`, incoming
  messages and the wake-up of a spectral Writer need not happen. A continuum
  worker's `wait_for` times out every second; each time, the destructor that
  waits for it has a chance to go on, of which it takes one in the end (strong
  fairness of `Destroy`).
- `Receiver`, `ContinuumFile` and `RecorderStart` state safety only.

## 4. Mutants

Each property of each passing run has at least one mutant in `PROJECT.json`: a
dropped notification, a payload not counted, the back of the deque for its
front, a sequence check without times, a status that is reset, an early return
that keeps a mutex, a neighbour not looked at, an underscore not counted, CPU
slots that overlap, results spread over the Writers in turn, and so on. With the mutant in
the place of its definition TLC finds the property violated.

## 5. Proofs

The theorems hold for every value of the constants that satisfies the module's
named assumption.

**Queue** (`SpectrumWriteQueueProofs`). The inductive invariant is `TypeOK /\
BytesAccounted /\ NothingLost /\ NoLostWakeup`. `BytesBounded` alone is not
inductive: after `Take` the counter stays non-negative only because it covers
the job taken, which is what the running totals of `BytesAccounted` say. It also
needs that no payload exceeds the queue (`QueueAssumption`), because an empty
queue checks nothing. `QueueImplementsFifo` maps every step to one of
`WriterFifo` or a stutter.

**Receiver** (`ReceiverProofs`). `RejectsOnlyLate` is proved with: every message
and table entry lies behind its sender (`SenderAhead`), a later result has the
higher number or time (`LaterIsHigher`), and what is fresh is news to its table
(`FreshIsNews`). `ReceiverInSendOrder` assumes `~LateLink` and adds that all
messages of a stream are of its present link; without the assumption it is false
(section 6). `ReceiverGapsReported` needs no such assumption: a life of a sender
has one port (`OnePortPerLife`), the port's table still knows the last result of
that life that passed (`LastRemembered`), and the holes so far, which are the
pairs of neighbours in `passed` that are not consecutive, are no more than the
events counted (`HolesCounted`).

**SDFITS Writers** (`SdfitsWritersProofs`). The invariant ties three things
together: who owns which mutex to where each Writer is in the code (`Owners`),
what a Writer has in hand to the map of files (`Hands`), and each open file to
what is on disk (`OpenFiles`: the rows CFITSIO was given are the band's, all but
the last one good, and the disk lags behind by the remainder of the row counter
modulo the flush interval). `CfitsioOneAtATime` is the first part alone.
`FilesNotShared` holds because bands with one file name have one Writer, which
creates a file only when the directory has none. `FewRowsAtRisk` and
`ReaderFindsSoundRows` read off `OpenFiles`; `NoResultForgotten` follows each
result from the hand of its Writer to a row or to `lost`, and `FilesNeverShrink`
is a property of steps: a crash keeps the disk, and a flush only adds to it.

**Continuum file** (`ContinuumFileProofs`). What is visible is a first part of
what CFITSIO was given (`DiskBehindTable`), whose whole rows are of this run and
in order (`TableInOrder`). A row stays unwritten when `write` fails, and the next
good row goes past it, so order and not position is what the invariant speaks
of.

**Spectral pipeline** (`SpectralRecorderProofs`). The receivers of the
composition are those of `Receiver`, so that module's invariants hold of them
(`Checked`). Above them the invariant says where each result is and what is ahead
of what: a life of a sender has one port (`OnePortPerLife`), a result in a hand,
a queue or a Writer passed and is neither lost nor a row (`Owned`), of two
results of one life the earlier is ahead on the way to the file (`Lined`), and
what passed and is under way no more is a row or lost, not both (`Settled`).
`SpectralOneFate` follows, and so does `SpectralImplementsLossy`: each step of
the composition is a step of `LossyRecorder` or changes nothing it speaks of,
for any number of streams and ports. Both assume `~LateLink`, like
`ReceiverInSendOrder`: a result of an abandoned link may pass twice, and then has
two fates. The types hold either way.

**Aggregation** (`ContinuumAggregatorProofs`). `FramesApart` is its own reason:
because no two frames are within the tolerance of each other, at most one frame
on either side of a time is near it, hence looking at the two neighbours finds a
frame whenever there is one, hence a new frame is only opened away from all
others. `FramesCount` adds that `received_inputs` is the size of the set of
inputs and `power` the sum over it. When the count reaches the number of inputs,
all of them are in: `AggregatorNeverPartial` and `AggregatorSumsWhole`, given that
`continuum_inputs` is the number of inputs there are (`AllInputsEnabled`; the
configuration cannot check this, and with a lower number the Recorder writes
sums over some inputs). `AggregatorContradictedNeverWritten` keeps track of which
results the frames and the written integrations stand for (`InputsCame`,
`OneEach`). It is about senders that are regular (`SendersRegular`): no two
integrations look alike, and an input that sends several results for one
integration repeats itself. An input that contradicts itself after the
integration was written comes too late for any Recorder.

Sums are over sets of any size. `SumFunctionOnSet` is a recursion over sets, and
the induction theorems of the library cannot be used (below); but a finite set
has a smallest subset for which a statement fails, if there is one
(`SmallestSet`), and that is enough for the two facts needed: the recursion has
one solution (`SumsExist`, `SumsUnique`), and the sum does not depend on the
element taken out first (`SumTakeOut`).

**Continuum queue** (`ContinuumRecorderProofs`). The types of the queue and of
the worker (`QueueOK`) are inductive; with the aggregator's own invariant they
are `RecorderTypeCorrect`. Each step of the composition is one of
`WriterFifo` or leaves its variables alone, which is `RecorderFifo`
(`FifoSafety`), and one of `ContinuumAggregator` or leaves its variables alone,
which is `RecorderImplementsAggregator`: waiting, refusing and timing out add
nothing to what the aggregation can do. The theorems about the aggregation are
about its own module; this refinement says that they are about this one's
behaviours too.

**Start** (`StartProofs`, about `ReceiverStartup` and `RecorderStart`).
`completed` is the number of receivers that
have reported and `failed` whether one of them has no socket (`ReportsCounted`).
A set of receivers with as many members as there are ports is all of them, so
when main decides every receiver has reported; with the places of main and of
the receivers (`SpawnedInOrder`, `Decided`) and the sockets (`BoundIsOpen`) this
gives the four theorems about `ReceiverStartup` for any number of ports.

`CoresSeparate` needs to know that a thread that runs has been started at its
place in main and is one of those the configuration asks for (`StartedInPlace`),
and that what is bound has the CPU of its slot (`OnItsSlots`). Slots of
different threads differ and are below `RequiredCpus` (`SlotFacts`), and so the
remainder by the number of CPUs does not bring two of them together as long as
there are enough CPUs (`CpuFacts`). `CoresOwnDirectory` follows a name through
`DirectoryComponent`, whose fold over the characters is dealt with like the sums
above (`SanitizedSafe`), and counts the length of what is appended
(`AppendFacts`).

What the assumptions on constants say: limits are positive; a payload fits its
queue; results are of the type their module gives them; a placeholder
(`NoJob`, `NoResult`, `NoHandle`, `NoFile`, `NoState`) is none of the values it
stands in for; bands with one file name have one Writer, as
`spectrum_writer_index` sees to; the CPUs the system names are in ascending
order and at least one; a list of ports, and a name, is a sequence. The theorems
name two more: `~LateLink`, and that senders are regular.

Only model-checked:

- Liveness and the fairness it rests on: `FifoSpec`, `ImplementsLossy` as far as
  it says that results are recorded, `EveryJobEnds`, `EveryFrameEnds`,
  `CompleteWritten`, `StartEnds`. Weak and strong fairness bring in `ENABLED`,
  which the prover does not handle.
- The three counterexamples of section 6, which are behaviours of small
  instances.

The induction theorems of the library take an operator as a parameter, which
none of the provers used can instantiate; where induction is needed, the proofs
look at a smallest counterexample instead.

## 6. Where the code and its documents differ

- **Restart, spectral.** "An existing directory is reused so Recorder may
  restart during that observation" (`README.md:31-32`). `sdfits_create` refuses
  existing files, so a band that was being recorded is not recorded any more
  after a restart (`sdfits_restart`). What was on disk stays (`FilesOnlyGrow`).
- **Restart, continuum.** The continuum file is created with `!`, which deletes
  what the former run wrote (`continuum_restart`).
- **Duplicates.** "duplicates are not counted twice" (`README.md:149-150`) is
  true while a frame is open (`FramesAgree`). Once it is written its inputs are
  forgotten, and a complete set of repeated results is written again
  (`continuum_duplicates`).
- **Failed start.** "a crash must remain visible" (`README.md:117`). When a port
  cannot be bound, `receive_results` returns -1 and main 1. In spectral mode
  the eight Writers are detached and wait on the condition variables of the
  global queues, whose destructors run next: glibc's `pthread_cond_destroy` waits
  for them for ever, so the process stays instead of exiting with status 1. A
  spurious wake-up of the Writer would be needed to get past each. `StartEnds`
  names this outcome (`HungInExit`); in continuum mode the timed wait lets the
  process exit, and `startup` shows that too. What the destructor does is not
  laid down by the C++ standard, which leaves it undefined.

No run is needed for these, which follow from the definitions:

- An observation without an ID is to have a directory "containing the
  target and pointing state" (`README.md:39-40`). `AppendComponent` leaves a
  component out when the name is full: an object of 42 or more safe characters
  leaves no room for the state (41 leave room for one letter of it).
- Where libzmq cannot bind its I/O threads, the warning at
  `zmq_receiver.cpp:931-933` says that the pool "cannot be CPU-bound". Its
  threads do run on one core then, and not one of their own: they inherit the
  mask of the first receiver to open a socket (`OpenSocket`).
- A frame times out by its age although its missing results may already be in
  the queue behind a worker that was held up; `CompleteWritten` excuses this.
- Rows of two lives of a sender may change places when it moves to another port
  while the last result of the old life is still in a receiver's hand.
  `LossyRecorder` therefore promises order within a life only.

No document promises the order of results across a restart whose old link still
delivers, so this is not a finding: with `LateLink = TRUE` a late message with a
high number passes the gap branch, which ignores times, and `InSendOrder` fails.
The sender's high-water mark of one (`README.md:7-9`) keeps this to one result.

## 7. Not modelled, and why

- `SdfitsMetadata.hpp` and `time_utils.h`: conversions of values. The exceptions
  of `configure_sdfits_metadata`, which nothing catches, are one cause of
  `Crash`.
- The bits of CRC32C and the fields of a header one by one: a message has one
  of four kinds of flaw.
- File rotation (`multifile`) and `sdfits_close`: never enabled, never called.
- Threads that cannot be created (an exception), and two starts within the same
  millisecond that pick the same automatic directory.
- `make_class_onoff.py` and the plot scripts read recorded files offline; their
  content is floating-point arithmetic.
- Headers no source file includes (`readerwriterqueue.h`, `atomicops.h`,
  `readerwritercircularbuffer.h`, `Writer.h`, `VDIF.hpp`), logging, templates,
  build and service files.

## 8. Plan

In this order:

1. What the receiver proofs say of a late link: that `InSendOrder` fails by at
   most the one result the sender's high-water mark lets through.
2. `WriterFifo` inside `SpectralRecorder`: a composition that instantiates
   `SpectrumWriteQueue` for each Writer, refined to the one there is.
3. `OnOffReduction` (row selection, TDIM layouts, pairing) and `TimeUtils` as
   pure operators against reference definitions.
