--------------------------- MODULE SpectralRecorder ---------------------------
(***************************************************************************)
(* Spectral mode from the wire to the rows: the receiver threads of        *)
(* Receiver, each of which carries a result that passed its checks to one  *)
(* of the Writer queues of src/src/zmq_receiver.cpp before it receives     *)
(* again, and the Writer threads that empty them.                          *)
(*                                                                         *)
(* A queue is what WriterFifo promises of it, except that it may refuse a  *)
(* result when it is not empty (SpectrumWriteQueue has the bytes and the   *)
(* notifications).  write_spectrum_frame either adds a row to the file of  *)
(* the stream's band or logs that it gave the result up (SdfitsWriters has *)
(* the files and the mutexes).                                             *)
(***************************************************************************)
EXTENDS Integers, Sequences, FiniteSets

CONSTANTS Streams,       \* SequenceKeys: records of subband, window and beam
          Ports, FirstSeqs, SeqModulus, LateLink, MaxSeq, MaxResults, MaxRestarts,
          MaxPassed, NoState,         \* those of Receiver
          NoResult       \* "this thread has no result in its hands"

VARIABLES sender, wire, sequences, gapEvents, passed, rejected,   \* those of Receiver
          lives,         \* history, per stream: the life each result was sent in
          hand,          \* per port: the result between the checks and a queue
          queue,         \* per Writer: the results in its queue
          held,          \* per Writer: the result being written
          rows,          \* per stream: the results its band's file has a row for
          lost           \* per stream: results counted as dropped, or given up with a log message

reception == <<sender, wire, sequences, gapEvents, passed, rejected>>
vars == <<reception, lives, hand, queue, held, rows, lost>>

Reception == INSTANCE Receiver

\* What Receiver assumes of its constants; no result is taken for none.
ASSUME SpectralAssumption ==
  /\ MaxSeq \in Nat /\ SeqModulus \in Nat /\ MaxSeq + 1 < SeqModulus
  /\ FirstSeqs \subseteq 0..MaxSeq
  /\ MaxResults \in Nat /\ MaxRestarts \in Nat /\ MaxPassed \in Nat
  /\ LateLink \in BOOLEAN
  /\ NoState \notin [seq : 0..MaxSeq, ts : Nat]
  /\ NoResult \notin Reception!Message

SPECTRUM_WRITER_COUNT == 8

Writers == 0..(SPECTRUM_WRITER_COUNT - 1)

Init ==
  /\ Reception!Init
  /\ lives = [s \in Streams |-> <<>>]
  /\ hand = [p \in Ports |-> NoResult]
  /\ queue = [w \in Writers |-> <<>>]
  /\ held = [w \in Writers |-> NoResult]
  /\ rows = [s \in Streams |-> <<>>]
  /\ lost = [s \in Streams |-> {}]

-----------------------------------------------------------------------------
(* The senders *)

Send(s, tick) ==
  /\ Reception!Send(s, tick)
  /\ lives' = [lives EXCEPT ![s] = Append(@, sender[s].life)]
  /\ UNCHANGED <<hand, queue, held, rows, lost>>

Restart(s, port, first) ==
  /\ Reception!Restart(s, port, first)
  /\ UNCHANGED <<lives, hand, queue, held, rows, lost>>

-----------------------------------------------------------------------------
(* receive_worker: up to the sequence check, then enqueue_spectrum_write.  *)
(* Messages that are refused before it change nothing and are left out.    *)

Receive(p, m) ==
  /\ hand[p] = NoResult
  /\ Reception!Receive(p, m)
  /\ hand' = IF passed' = passed THEN hand ELSE [hand EXCEPT ![p] = m]
  /\ UNCHANGED <<lives, queue, held, rows, lost>>

\* ^ on three bits.
Xor3(a, b) ==
  LET bit(n, k) == (n \div k) % 2
      differ(k) == IF bit(a, k) = bit(b, k) THEN 0 ELSE k
  IN differ(1) + differ(2) + differ(4)

(***************************************************************************)
(* spectrum_writer_index: 1315423911, 2654435761 and 2246822519 leave 7, 1 *)
(* and 7 when divided by 8.                                                *)
(***************************************************************************)
SpectrumWriterIndex(s) ==
  Xor3(Xor3((s.subband * 7) % 8, (s.window * 1) % 8), (s.beam * 7) % 8)

\* Mutant of WriterOf: results are spread over the Writers in turn.
WriterInTurn(m) == m.nth % SPECTRUM_WRITER_COUNT

WriterOf(m) == SpectrumWriterIndex(m.stream)

Enqueue(p) ==
  LET m == hand[p]
  IN /\ m # NoResult
     /\ queue' = [queue EXCEPT ![WriterOf(m)] = Append(@, m)]
     /\ hand' = [hand EXCEPT ![p] = NoResult]
     /\ UNCHANGED <<reception, lives, held, rows, lost>>

\* The queue is full: it holds something.
Drop(p) ==
  LET m == hand[p]
  IN /\ m # NoResult
     /\ queue[WriterOf(m)] # <<>>
     /\ lost' = [lost EXCEPT ![m.stream] = @ \cup {m.nth}]
     /\ hand' = [hand EXCEPT ![p] = NoResult]
     /\ UNCHANGED <<reception, lives, queue, held, rows>>

-----------------------------------------------------------------------------
(* spectrum_writer_worker *)

\* Mutant of Take: the front is read and stays.
TakeAndKeep(w) ==
  /\ held[w] = NoResult
  /\ queue[w] # <<>>
  /\ held' = [held EXCEPT ![w] = Head(queue[w])]
  /\ UNCHANGED <<reception, lives, hand, queue, rows, lost>>

Take(w) ==
  /\ held[w] = NoResult
  /\ queue[w] # <<>>
  /\ held' = [held EXCEPT ![w] = Head(queue[w])]
  /\ queue' = [queue EXCEPT ![w] = Tail(@)]
  /\ UNCHANGED <<reception, lives, hand, rows, lost>>

WriteRow(w) ==
  /\ held[w] # NoResult
  /\ rows' = [rows EXCEPT ![held[w].stream] = Append(@, held[w].nth)]
  /\ held' = [held EXCEPT ![w] = NoResult]
  /\ UNCHANGED <<reception, lives, hand, queue, lost>>

GiveUp(w) ==
  /\ held[w] # NoResult
  /\ lost' = [lost EXCEPT ![held[w].stream] = @ \cup {held[w].nth}]
  /\ held' = [held EXCEPT ![w] = NoResult]
  /\ UNCHANGED <<reception, lives, hand, queue, rows>>

-----------------------------------------------------------------------------
HandOver(p) == Enqueue(p) \/ Drop(p)

Finish(w) == WriteRow(w) \/ GiveUp(w)

Next ==
  \/ \E s \in Streams, tick \in {0, 1} : Send(s, tick)
  \/ \E s \in Streams, port \in Ports, first \in FirstSeqs : Restart(s, port, first)
  \/ \E m \in wire : Receive(m.port, m)
  \/ \E p \in Ports : HandOver(p)
  \/ \E w \in Writers : Take(w) \/ Finish(w)

Safety == Init /\ [][Next]_vars

(***************************************************************************)
(* No thread stops with a result in its hands, nor a Writer with something *)
(* in its queue (SpectrumWriteQueue: no wake-up is lost).  Messages need   *)
(* not come.                                                               *)
(***************************************************************************)
Spec ==
  /\ Safety
  /\ \A p \in Ports : WF_vars(HandOver(p))
  /\ \A w \in Writers : WF_vars(Take(w)) /\ WF_vars(Finish(w))

-----------------------------------------------------------------------------
(* Properties *)

Results == Reception!Message

\* Type invariant; a stream's results are all in the hands of one Writer.
TypeOK ==
  /\ Reception!TypeOK
  /\ lives \in [Streams -> Seq(0..MaxRestarts)]
  /\ hand \in [Ports -> Results \cup {NoResult}]
  /\ queue \in [Writers -> Seq(Results)]
  /\ held \in [Writers -> Results \cup {NoResult}]
  /\ \A w \in Writers :
       /\ \A i \in 1..Len(queue[w]) : SpectrumWriterIndex(queue[w][i].stream) = w
       /\ held[w] # NoResult => SpectrumWriterIndex(held[w].stream) = w
  /\ rows \in [Streams -> Seq(Nat)]
  /\ lost \in [Streams -> SUBSET Nat]

(***************************************************************************)
(* Every result that passed the sequence check is in exactly one place: in *)
(* a receiver's hand, in a queue, in a Writer's hand, in a row of its      *)
(* file, or known to be lost.                                              *)
(***************************************************************************)
InHand(s) == {hand[p].nth : p \in {q \in Ports : hand[q] # NoResult /\ hand[q].stream = s}}

QueuedAt(w, s) ==
  {queue[w][i].nth : i \in {k \in 1..Len(queue[w]) : queue[w][k].stream = s}}

Queued(s) == UNION {QueuedAt(w, s) : w \in Writers}

InWriting(s) == {held[w].nth : w \in {v \in Writers : held[v] # NoResult /\ held[v].stream = s}}

Recorded(s) == {rows[s][i] : i \in 1..Len(rows[s])}

PassedOn(s) == {passed[s][i].nth : i \in 1..Len(passed[s])}

OneFate ==
  \A s \in Streams :
    LET places == <<InHand(s), Queued(s), InWriting(s), Recorded(s), lost[s]>>
    IN /\ UNION {places[i] : i \in 1..5} = PassedOn(s)
       /\ \A i, k \in 1..5 : i # k => places[i] \cap places[k] = {}
       /\ Cardinality(Recorded(s)) = Len(rows[s])

(***************************************************************************)
(* Ports, threads, queues and Writers together keep the promise of         *)
(* LossyRecorder: no result becomes two rows, those of one life of their   *)
(* sender become rows in the order sent, and none that passed the checks   *)
(* goes unrecorded and uncounted.  Rows of two lives may change places:    *)
(* the last result of the old life may still be in the hand of the         *)
(* receiver of the port the sender has left.                               *)
(***************************************************************************)
Lossy == INSTANCE LossyRecorder WITH
  Numbers  <- 1..MaxResults,
  Lives    <- 0..MaxRestarts,
  sent     <- lives,
  accepted <- [s \in Streams |-> InHand(s) \cup Queued(s) \cup InWriting(s)],
  recorded <- rows

ImplementsLossy == Lossy!Spec

=============================================================================
