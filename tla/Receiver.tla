------------------------------ MODULE Receiver ------------------------------
(***************************************************************************)
(* The receiver threads of src/src/zmq_receiver.cpp (receive_worker): one  *)
(* per result port, each with its own table of the last sequence number    *)
(* and timestamp seen per result stream, by which it tells duplicates and  *)
(* gaps from the first results of a sender that restarted.                 *)
(*                                                                         *)
(* A stream is a SequenceKey: server, subband, window and beam.  Its       *)
(* sender is not part of the repository; here it numbers its results       *)
(* consecutively, stamps them with a clock that never runs back, and after *)
(* a restart may number from elsewhere and send to another port.           *)
(* Everything in between may lose, repeat, reorder and damage messages.    *)
(***************************************************************************)
EXTENDS Integers, Sequences, FiniteSets

CONSTANTS Streams,       \* the SequenceKeys
          Ports,         \* cfg_ports
          FirstSeqs,     \* numbers a sender may start from
          SeqModulus,    \* transport.sequence is a uint64_t: 2^64
          LateLink,      \* messages of a link abandoned by a restart may still arrive
          MaxSeq,        \* bound: highest sequence number sent
          MaxResults,    \* bound: results sent per stream
          MaxRestarts,   \* bound: restarts of each sender
          MaxPassed,     \* bound: results passed on per stream
          NoState        \* "this key is not in the table"

(***************************************************************************)
(* No sender counts to 2^64 - 1, where the receiver's previous.sequence+1  *)
(* wraps to 0.                                                             *)
(***************************************************************************)
ASSUME ReceiverAssumption ==
  /\ MaxSeq \in Nat /\ SeqModulus \in Nat /\ MaxSeq + 1 < SeqModulus
  /\ FirstSeqs \subseteq 0..MaxSeq
  /\ MaxResults \in Nat /\ MaxRestarts \in Nat /\ MaxPassed \in Nat
  /\ LateLink \in BOOLEAN
  /\ NoState \notin [seq : 0..MaxSeq, ts : Nat]

SequenceState == [seq : 0..MaxSeq, ts : Nat]

(***************************************************************************)
(* What the checks ahead of the sequence check find wrong with a message:  *)
(* shorter than its headers; a transport envelope with the wrong magic,    *)
(* version, length or CRC; a header of another observation, version or     *)
(* size; a subband that does not belong to the sending server.             *)
(***************************************************************************)
Flaws == {"undersized", "transport", "header", "server"}

(***************************************************************************)
(* nth and life are not on the wire: the place of the result among those   *)
(* of its stream, and the restarts of its sender before it was sent.       *)
(***************************************************************************)
Message == [stream : Streams, port : Ports, nth : Nat, life : Nat, seq : 0..MaxSeq,
            ts : Nat, flaw : Flaws \cup {"none"}]

VARIABLES sender,      \* per stream: port, last nth, life, last seq, clock
          wire,        \* messages that may arrive, each any number of times
          sequences,   \* per port: the thread's table of SequenceStates
          gapEvents,   \* per port: sequence_gap_events
          passed,      \* history, per stream: results that passed the checks
          rejected     \* history: messages rejected as duplicate or out of order

vars == <<sender, wire, sequences, gapEvents, passed, rejected>>

Init ==
  /\ sender \in [Streams -> {[port |-> p, nth |-> 0, life |-> 0, seq |-> first - 1,
                              ts |-> 0] : p \in Ports, first \in FirstSeqs}]
  /\ wire = {}
  /\ sequences = [p \in Ports |-> [s \in Streams |-> NoState]]
  /\ gapEvents = [p \in Ports |-> 0]
  /\ passed = [s \in Streams |-> <<>>]
  /\ rejected = {}

-----------------------------------------------------------------------------
(* The senders *)

\* Results of both noise states of an integration may carry the same time.
NextResult(s, tick) ==
  [stream |-> s, port |-> sender[s].port, nth |-> sender[s].nth + 1, life |-> sender[s].life,
   seq |-> sender[s].seq + 1, ts |-> sender[s].ts + tick, flaw |-> "none"]

Send(s, tick) ==
  LET m == NextResult(s, tick)
  IN /\ m.nth <= MaxResults
     /\ m.seq <= MaxSeq
     /\ wire' = wire \cup {m}
     /\ sender' = [sender EXCEPT ![s] = [port |-> m.port, nth |-> m.nth, life |-> m.life,
                                        seq |-> m.seq, ts |-> m.ts]]
     /\ UNCHANGED <<sequences, gapEvents, passed, rejected>>

\* Its clock has advanced when the sender is back.
Restart(s, port, first) ==
  /\ sender[s].life < MaxRestarts
  /\ sender' = [sender EXCEPT ![s] = [port |-> port, nth |-> @.nth, life |-> @.life + 1,
                                     seq |-> first - 1, ts |-> @.ts + 1]]
  /\ wire' = IF LateLink THEN wire ELSE {m \in wire : m.stream # s}
  /\ UNCHANGED <<sequences, gapEvents, passed, rejected>>

-----------------------------------------------------------------------------
(* receive_worker *)

\* Dropped before the table is looked at.
Refuse(p, m) ==
  /\ m.flaw # "none"
  /\ UNCHANGED vars

Known(p, m) == sequences[p][m.stream] # NoState

\* Mutant of Gap: off by one.
GapOfTwo(p, m) ==
  Known(p, m) /\ m.seq > (sequences[p][m.stream].seq + 2) % SeqModulus

Gap(p, m) ==
  Known(p, m) /\ m.seq > (sequences[p][m.stream].seq + 1) % SeqModulus

\* Mutant of Duplicate: the sequence number alone decides.
DuplicateBySequence(p, m) ==
  Known(p, m) /\ ~Gap(p, m) /\ m.seq <= sequences[p][m.stream].seq

\* Mutant of Duplicate: only the last message again is a duplicate.
DuplicateOfLast(p, m) ==
  Known(p, m) /\ sequences[p][m.stream] = [seq |-> m.seq, ts |-> m.ts]

Duplicate(p, m) ==
  /\ Known(p, m)
  /\ ~Gap(p, m)
  /\ m.seq <= sequences[p][m.stream].seq
  /\ m.ts <= sequences[p][m.stream].ts

Reject(p, m) ==
  /\ m.flaw = "none"
  /\ Duplicate(p, m)
  /\ rejected' = rejected \cup {m}
  /\ UNCHANGED <<sender, wire, sequences, gapEvents, passed>>

\* Mutant of Pass: the table holds the number that is expected next.
PassExpecting(p, m) ==
  /\ m.flaw = "none"
  /\ ~Duplicate(p, m)
  /\ Len(passed[m.stream]) < MaxPassed
  /\ sequences' = [sequences EXCEPT ![p][m.stream] = [seq |-> m.seq + 1, ts |-> m.ts]]
  /\ gapEvents' = [gapEvents EXCEPT ![p] = IF Gap(p, m) THEN @ + 1 ELSE @]
  /\ passed' = [passed EXCEPT ![m.stream] = Append(@, m)]
  /\ UNCHANGED <<sender, wire, rejected>>

(***************************************************************************)
(* The table is updated before anything else becomes of the result: a full *)
(* queue may still drop it, or, in continuum mode, a power that is not     *)
(* finite.                                                                 *)
(***************************************************************************)
Pass(p, m) ==
  /\ m.flaw = "none"
  /\ ~Duplicate(p, m)
  /\ Len(passed[m.stream]) < MaxPassed
  /\ sequences' = [sequences EXCEPT ![p][m.stream] = [seq |-> m.seq, ts |-> m.ts]]
  /\ gapEvents' = [gapEvents EXCEPT ![p] = IF Gap(p, m) THEN @ + 1 ELSE @]
  /\ passed' = [passed EXCEPT ![m.stream] = Append(@, m)]
  /\ UNCHANGED <<sender, wire, rejected>>

Receive(p, m) ==
  \/ Refuse(p, m)
  \/ Reject(p, m)
  \/ Pass(p, m)

\* Damaged messages, and well-formed ones that are none of this observation's.
Strays == [stream : Streams, port : Ports, nth : {0}, life : {0},
           seq : {0, MaxSeq}, ts : {0, MaxResults + MaxRestarts}, flaw : Flaws]

-----------------------------------------------------------------------------
Next ==
  \/ \E s \in Streams, tick \in {0, 1} : Send(s, tick)
  \/ \E s \in Streams, port \in Ports, first \in FirstSeqs : Restart(s, port, first)
  \/ \E m \in wire \cup Strays : Receive(m.port, m)

Spec == Init /\ [][Next]_vars

-----------------------------------------------------------------------------
(* Properties *)

\* Type invariant.
TypeOK ==
  /\ sender \in [Streams -> [port : Ports, nth : Nat, life : Nat, seq : -1..MaxSeq, ts : Nat]]
  /\ wire \subseteq Message
  /\ sequences \in [Ports -> [Streams -> SequenceState \cup {NoState}]]
  /\ gapEvents \in [Ports -> Nat]
  /\ passed \in [Streams -> Seq(Message)]
  /\ rejected \subseteq Message

(***************************************************************************)
(* However messages are repeated and reordered on the way, and across      *)
(* restarts and moves to another port of their sender, the results that    *)
(* pass the sequence check are in the order sent and none passes twice.    *)
(***************************************************************************)
InSendOrder ==
  \A s \in Streams : \A i, k \in 1..Len(passed[s]) :
    i < k => passed[s][i].nth < passed[s][k].nth

(***************************************************************************)
(* The sequence check only rejects what is late: some result of the stream *)
(* that was sent no earlier has passed.  In particular a restarted sender  *)
(* is never shut out by the higher numbers of its former life, nor by a    *)
(* message of another observation that uses its stream.                    *)
(***************************************************************************)
RejectsOnlyLate ==
  \A m \in rejected : \E i \in 1..Len(passed[m.stream]) :
    passed[m.stream][i].nth >= m.nth

(***************************************************************************)
(* Every hole in the numbers of one life of a sender, between two results  *)
(* that passed on a port, was counted in that port's sequence_gap_events.  *)
(***************************************************************************)
HoleAfter(p, s, i) ==
  /\ i < Len(passed[s])
  /\ passed[s][i+1].port = p
  /\ passed[s][i+1].life = passed[s][i].life
  /\ passed[s][i+1].seq > passed[s][i].seq + 1

Holes(p) == {h \in Streams \X (1..MaxPassed) : HoleAfter(p, h[1], h[2])}

GapsReported == \A p \in Ports : Cardinality(Holes(p)) <= gapEvents[p]

=============================================================================
