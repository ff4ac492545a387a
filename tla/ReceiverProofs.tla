--------------------------- MODULE ReceiverProofs ---------------------------
(***************************************************************************)
(* The sequence check of receive_worker for any number of streams, ports,  *)
(* results and restarts, and any loss, repetition and reordering.          *)
(***************************************************************************)
EXTENDS Receiver, FiniteSetTheorems, TLAPS

State(m) == sequences[m.port][m.stream]

\* A result that went out before the last one of its stream: unless its number
\* is the lower one, a restart lies between them and its time is the earlier one.
Behind(x, s) ==
  /\ x.ts <= sender[s].ts
  /\ x.seq <= sender[s].seq \/ x.ts < sender[s].ts

\* What was sent, and what a table remembers of it, is behind its sender.
SenderAhead ==
  /\ \A m \in wire : m.flaw = "none" /\ m.nth <= sender[m.stream].nth /\ Behind(m, m.stream)
  /\ \A p \in Ports, s \in Streams :
       sequences[p][s] # NoState => Behind(sequences[p][s], s)

\* Of two results of a stream the later one has the higher number or time.
LaterIsHigher ==
  \A m, n \in wire :
    m.stream = n.stream /\ m.nth < n.nth => m.seq < n.seq \/ m.ts < n.ts

\* What passed no result sent later did not pass, and so is news to its table.
Fresh(m) ==
  \A i \in 1..Len(passed[m.stream]) : passed[m.stream][i].nth < m.nth

FreshIsNews ==
  \A m \in wire :
    Fresh(m) => State(m) = NoState \/ m.seq > State(m).seq \/ m.ts > State(m).ts

IInv == TypeOK /\ SenderAhead /\ LaterIsHigher /\ FreshIsNews /\ RejectsOnlyLate

-----------------------------------------------------------------------------
LEMMA InitInv == Init => IInv
<1> SUFFICES ASSUME Init PROVE IInv
  OBVIOUS
<1>1. TypeOK
  <2>1. sender \in [Streams -> [port : Ports, nth : Nat, life : Nat, seq : -1..MaxSeq, ts : Nat]]
    BY ReceiverAssumption DEF Init
  <2> QED
    BY <2>1 DEF Init, TypeOK
<1>2. SenderAhead /\ LaterIsHigher /\ FreshIsNews /\ RejectsOnlyLate
  BY DEF Init, SenderAhead, LaterIsHigher, FreshIsNews, RejectsOnlyLate
<1> QED
  BY <1>1, <1>2 DEF IInv

LEMMA MessageFacts ==
  ASSUME NEW m \in Message
  PROVE  /\ m.stream \in Streams /\ m.port \in Ports
         /\ m.nth \in Nat /\ m.life \in Nat /\ m.seq \in 0..MaxSeq /\ m.seq \in Int /\ m.ts \in Nat
<1>1. /\ m.stream \in Streams /\ m.port \in Ports
      /\ m.nth \in Nat /\ m.life \in Nat /\ m.seq \in 0..MaxSeq /\ m.ts \in Nat
  BY DEF Message
<1> QED
  BY <1>1

LEMMA WireFacts ==
  ASSUME TypeOK
  PROVE  \A m \in wire : /\ m \in Message
                         /\ m.stream \in Streams /\ m.port \in Ports
                         /\ m.nth \in Nat /\ m.life \in Nat /\ m.seq \in Int /\ m.ts \in Nat
BY MessageFacts DEF TypeOK

LEMMA TableFacts ==
  ASSUME TypeOK
  PROVE  \A p \in Ports, s \in Streams :
           sequences[p][s] # NoState => sequences[p][s].seq \in Int /\ sequences[p][s].ts \in Nat
<1> SUFFICES ASSUME NEW p \in Ports, NEW s \in Streams, sequences[p][s] # NoState
             PROVE  sequences[p][s].seq \in Int /\ sequences[p][s].ts \in Nat
  OBVIOUS
<1>1. sequences[p][s] \in SequenceState
  BY DEF TypeOK
<1>2. \A state \in SequenceState : state.seq \in 0..MaxSeq /\ state.ts \in Nat
  BY DEF SequenceState
<1> QED
  BY <1>1, <1>2, ReceiverAssumption

\* What Send puts on the wire.
LEMMA SendFacts ==
  ASSUME TypeOK, NEW s \in Streams, NEW tick \in {0, 1}, Send(s, tick)
  PROVE  /\ NextResult(s, tick) \in Message
         /\ NextResult(s, tick).nth = sender[s].nth + 1
         /\ NextResult(s, tick).seq = sender[s].seq + 1
         /\ NextResult(s, tick).ts \in {sender[s].ts, sender[s].ts + 1}
         /\ NextResult(s, tick).stream = s
         /\ NextResult(s, tick).flaw = "none"
         /\ wire' = wire \cup {NextResult(s, tick)}
         /\ sender'[s].nth = sender[s].nth + 1
         /\ sender'[s].seq = sender[s].seq + 1
         /\ sender'[s].ts = NextResult(s, tick).ts
         /\ \A r \in Streams \ {s} : sender'[r] = sender[r]
         /\ sender[s].nth \in Nat /\ sender[s].seq \in Int /\ sender[s].ts \in Nat
         /\ UNCHANGED <<sequences, gapEvents, passed, rejected>>
<1>1. sender[s] \in [port : Ports, nth : Nat, life : Nat, seq : -1..MaxSeq, ts : Nat]
  BY DEF TypeOK
<1>2. NextResult(s, tick).seq \in 0..MaxSeq
  BY <1>1, ReceiverAssumption DEF Send, NextResult
<1> QED
  BY <1>1, <1>2 DEF TypeOK, Send, NextResult, Message

LEMMA SendInv ==
  ASSUME IInv, NEW s \in Streams, NEW tick \in {0, 1}, Send(s, tick)
  PROVE  IInv'
<1> DEFINE new == NextResult(s, tick)
<1> USE DEF IInv
<1>1. TypeOK
  OBVIOUS
<1>2. /\ new \in Message
      /\ new.nth = sender[s].nth + 1
      /\ new.seq = sender[s].seq + 1
      /\ new.ts \in {sender[s].ts, sender[s].ts + 1}
      /\ new.stream = s
      /\ new.flaw = "none"
      /\ wire' = wire \cup {new}
      /\ sender'[s].nth = sender[s].nth + 1
      /\ sender'[s].seq = sender[s].seq + 1
      /\ sender'[s].ts = new.ts
      /\ \A r \in Streams \ {s} : sender'[r] = sender[r]
      /\ sender[s].nth \in Nat /\ sender[s].seq \in Int /\ sender[s].ts \in Nat
      /\ UNCHANGED <<sequences, gapEvents, passed, rejected>>
  BY <1>1, SendFacts
<1> HIDE DEF new
<1>3. TypeOK'
  <2>1. sender' \in [Streams -> [port : Ports, nth : Nat, life : Nat, seq : -1..MaxSeq, ts : Nat]]
    BY <1>1, <1>2 DEF TypeOK, Send, NextResult, Message, new
  <2> QED
    BY <1>1, <1>2, <2>1 DEF TypeOK
<1>4. \A m \in wire : /\ m \in Message
                      /\ m.stream \in Streams
                      /\ m.nth \in Nat /\ m.seq \in Int /\ m.ts \in Nat
  BY <1>1, WireFacts
<1>5. \A p \in Ports, r \in Streams :
        sequences[p][r] # NoState => sequences[p][r].seq \in Int /\ sequences[p][r].ts \in Nat
  BY <1>1, TableFacts
<1>6. SenderAhead'
  <2>1. ASSUME NEW m \in wire'
        PROVE  m.flaw = "none" /\ m.nth <= sender'[m.stream].nth /\ Behind(m, m.stream)'
    <3>1. CASE m = new
      BY <1>2, <3>1 DEF Behind
    <3>2. CASE m \in wire
      BY <1>2, <1>4, <3>2 DEF SenderAhead, Behind
    <3> QED
      BY <1>2, <3>1, <3>2
  <2>2. ASSUME NEW p \in Ports, NEW r \in Streams, sequences'[p][r] # NoState
        PROVE  Behind(sequences[p][r], r)'
    BY <1>2, <1>5, <2>2 DEF SenderAhead, Behind
  <2> QED
    BY <2>1, <2>2 DEF SenderAhead
<1>7. LaterIsHigher'
  <2> SUFFICES ASSUME NEW m \in wire', NEW n \in wire', m.stream = n.stream, m.nth < n.nth
               PROVE  m.seq < n.seq \/ m.ts < n.ts
    BY DEF LaterIsHigher
  <2>1. CASE m \in wire /\ n \in wire
    BY <2>1 DEF LaterIsHigher
  <2>2. CASE m \in wire /\ n = new
    BY <1>2, <1>4, <2>2 DEF SenderAhead, Behind
  <2>3. CASE m = new
    BY <1>2, <1>4, <2>3 DEF SenderAhead
  <2> QED
    BY <1>2, <2>1, <2>2, <2>3
<1>8. FreshIsNews'
  <2> SUFFICES ASSUME NEW m \in wire', Fresh(m)'
               PROVE  (State(m) = NoState \/ m.seq > State(m).seq \/ m.ts > State(m).ts)'
    BY DEF FreshIsNews
  <2>1. CASE m \in wire
    BY <1>2, <2>1 DEF FreshIsNews, Fresh, State
  <2>2. CASE m = new
    <3>1. new.port \in Ports
      BY <1>2 DEF Message
    <3> QED
      BY <1>2, <1>5, <2>2, <3>1 DEF SenderAhead, Behind, State
  <2> QED
    BY <1>2, <2>1, <2>2
<1>9. RejectsOnlyLate'
  BY <1>2 DEF RejectsOnlyLate
<1> QED
  BY <1>3, <1>6, <1>7, <1>8, <1>9

LEMMA RestartInv ==
  ASSUME IInv, NEW s \in Streams, NEW port \in Ports, NEW first \in FirstSeqs,
         Restart(s, port, first)
  PROVE  IInv'
<1> USE DEF IInv
<1>1. sender[s] \in [port : Ports, nth : Nat, life : Nat, seq : -1..MaxSeq, ts : Nat]
  BY DEF TypeOK
<1>2. /\ sender'[s] = [port |-> port, nth |-> sender[s].nth, life |-> sender[s].life + 1,
                       seq |-> first - 1, ts |-> sender[s].ts + 1]
      /\ \A r \in Streams \ {s} : sender'[r] = sender[r]
      /\ wire' \subseteq wire
      /\ UNCHANGED <<sequences, gapEvents, passed, rejected>>
  BY DEF Restart, TypeOK
<1>3. TypeOK'
  <2>1. first - 1 \in -1..MaxSeq
    BY ReceiverAssumption
  <2>2. sender'[s] \in [port : Ports, nth : Nat, life : Nat, seq : -1..MaxSeq, ts : Nat]
    BY <1>1, <1>2, <2>1
  <2>3. sender' \in [Streams -> [port : Ports, nth : Nat, life : Nat, seq : -1..MaxSeq, ts : Nat]]
    BY <2>2 DEF Restart, TypeOK
  <2> QED
    BY <1>2, <2>3 DEF TypeOK
<1>4. \A m \in wire : /\ m.stream \in Streams
                      /\ m.nth \in Nat /\ m.seq \in Int /\ m.ts \in Nat
  BY WireFacts
<1>5. \A p \in Ports, r \in Streams :
        sequences[p][r] # NoState => sequences[p][r].seq \in Int /\ sequences[p][r].ts \in Nat
  BY TableFacts
<1>6. SenderAhead'
  <2>1. ASSUME NEW m \in wire'
        PROVE  m.flaw = "none" /\ m.nth <= sender'[m.stream].nth /\ Behind(m, m.stream)'
    BY <1>1, <1>2, <1>4, <2>1 DEF SenderAhead, Behind
  <2>2. ASSUME NEW p \in Ports, NEW r \in Streams, sequences'[p][r] # NoState
        PROVE  Behind(sequences[p][r], r)'
    BY <1>1, <1>2, <1>5, <2>2 DEF SenderAhead, Behind
  <2> QED
    BY <2>1, <2>2 DEF SenderAhead
<1>7. LaterIsHigher' /\ FreshIsNews' /\ RejectsOnlyLate'
  BY <1>2 DEF LaterIsHigher, FreshIsNews, Fresh, State, RejectsOnlyLate
<1> QED
  BY <1>3, <1>6, <1>7

\* A message that gets as far as the table comes from a sender of this observation.
LEMMA OnlyGenuine ==
  ASSUME TypeOK, NEW m \in wire \cup Strays, m.flaw = "none"
  PROVE  /\ m \in wire
         /\ m \in Message
         /\ m.stream \in Streams /\ m.port \in Ports
         /\ m.nth \in Nat /\ m.seq \in 0..MaxSeq /\ m.seq \in Int /\ m.ts \in Nat
<1>1. m \notin Strays
  BY DEF Strays, Flaws
<1> QED
  BY <1>1, ReceiverAssumption DEF TypeOK, Message

LEMMA RejectInv ==
  ASSUME IInv, NEW m \in wire \cup Strays, Reject(m.port, m)
  PROVE  IInv'
<1> USE DEF IInv
<1>1. /\ m \in wire /\ m \in Message
      /\ m.stream \in Streams /\ m.port \in Ports
      /\ m.nth \in Nat /\ m.seq \in Int /\ m.ts \in Nat
  BY OnlyGenuine DEF Reject
<1>2. ~Fresh(m)
  <2>1. /\ State(m) # NoState
        /\ m.seq <= State(m).seq /\ m.ts <= State(m).ts
    BY DEF Reject, Duplicate, Known, State
  <2>2. State(m).seq \in Int /\ State(m).ts \in Int
    BY <1>1, <2>1, ReceiverAssumption DEF TypeOK, SequenceState, State
  <2> QED
    BY <1>1, <2>1, <2>2 DEF FreshIsNews
<1>3. \E i \in 1..Len(passed[m.stream]) : passed[m.stream][i].nth >= m.nth
  <2>1. PICK i \in 1..Len(passed[m.stream]) : ~(passed[m.stream][i].nth < m.nth)
    BY <1>2 DEF Fresh
  <2>2. passed[m.stream] \in Seq(Message)
    BY <1>1 DEF TypeOK
  <2>3. passed[m.stream][i].nth \in Nat
    <3>1. passed[m.stream][i] \in Message
      BY <2>2
    <3> QED
      BY <3>1, MessageFacts
  <2> QED
    BY <1>1, <2>1, <2>3
<1>4. TypeOK'
  BY <1>1 DEF Reject, TypeOK
<1>5. RejectsOnlyLate'
  BY <1>3 DEF Reject, RejectsOnlyLate
<1>6. SenderAhead' /\ LaterIsHigher' /\ FreshIsNews'
  BY DEF Reject, SenderAhead, Behind, LaterIsHigher, FreshIsNews, Fresh, State
<1> QED
  BY <1>4, <1>5, <1>6

\* What Pass does to the table and the history of the streams.
LEMMA PassFacts ==
  ASSUME TypeOK, NEW m \in wire \cup Strays, Pass(m.port, m)
  PROVE  /\ m \in wire
         /\ m \in Message
         /\ m.stream \in Streams /\ m.port \in Ports
         /\ m.nth \in Nat /\ m.seq \in Int /\ m.ts \in Nat
         /\ sequences'[m.port][m.stream] = [seq |-> m.seq, ts |-> m.ts]
         /\ \A p \in Ports, r \in Streams :
              p # m.port \/ r # m.stream => sequences'[p][r] = sequences[p][r]
         /\ \A r \in Streams \ {m.stream} : passed'[r] = passed[r]
         /\ Len(passed[m.stream]) \in Nat
         /\ Len(passed'[m.stream]) = Len(passed[m.stream]) + 1
         /\ \A i \in 1..Len(passed[m.stream]) : passed'[m.stream][i] = passed[m.stream][i]
         /\ passed'[m.stream][Len(passed[m.stream]) + 1] = m
         /\ UNCHANGED <<sender, wire, rejected>>
         /\ TypeOK'
<1>1. /\ m \in wire /\ m \in Message
      /\ m.stream \in Streams /\ m.port \in Ports
      /\ m.nth \in Nat /\ m.seq \in 0..MaxSeq /\ m.seq \in Int /\ m.ts \in Nat
  BY OnlyGenuine DEF Pass
<1> DEFINE state == [seq |-> m.seq, ts |-> m.ts]
<1>2. state \in SequenceState
  BY <1>1 DEF SequenceState
<1>3. passed[m.stream] \in Seq(Message)
  BY <1>1 DEF TypeOK
<1>4. passed' = [passed EXCEPT ![m.stream] = Append(passed[m.stream], m)]
  BY DEF Pass
<1>5. sequences' = [sequences EXCEPT ![m.port] = [sequences[m.port] EXCEPT ![m.stream] = state]]
  BY DEF Pass
<1>6. sequences[m.port] \in [Streams -> SequenceState \cup {NoState}]
  BY <1>1 DEF TypeOK
<1>7. sequences' \in [Ports -> [Streams -> SequenceState \cup {NoState}]]
  <2>1. [sequences[m.port] EXCEPT ![m.stream] = state] \in [Streams -> SequenceState \cup {NoState}]
    BY <1>2, <1>6
  <2> QED
    BY <1>5, <2>1 DEF TypeOK
<1>8. passed' \in [Streams -> Seq(Message)]
  <2>1. Append(passed[m.stream], m) \in Seq(Message)
    BY <1>1, <1>3
  <2> QED
    BY <1>4, <2>1 DEF TypeOK
<1>9. passed'[m.stream] = Append(passed[m.stream], m)
  BY <1>1, <1>4 DEF TypeOK
<1>10. /\ Len(passed[m.stream]) \in Nat
       /\ Len(passed'[m.stream]) = Len(passed[m.stream]) + 1
       /\ \A i \in 1..Len(passed[m.stream]) : passed'[m.stream][i] = passed[m.stream][i]
       /\ passed'[m.stream][Len(passed[m.stream]) + 1] = m
  BY <1>2, <1>3, <1>9
<1>11. \A r \in Streams \ {m.stream} : passed'[r] = passed[r]
  BY <1>4 DEF TypeOK
<1>12. /\ sequences'[m.port][m.stream] = state
       /\ \A p \in Ports, r \in Streams :
            p # m.port \/ r # m.stream => sequences'[p][r] = sequences[p][r]
  BY <1>1, <1>5, <1>6 DEF TypeOK
<1>13. gapEvents' \in [Ports -> Nat] /\ UNCHANGED <<sender, wire, rejected>>
  <2>1. gapEvents' \in [Ports -> Nat]
    <3>1. gapEvents \in [Ports -> Nat] /\ gapEvents[m.port] + 1 \in Nat
      BY <1>1 DEF TypeOK
    <3>2. CASE Gap(m.port, m)
      <4>1. gapEvents' = [gapEvents EXCEPT ![m.port] = gapEvents[m.port] + 1]
        BY <3>2 DEF Pass
      <4> QED
        BY <3>1, <4>1
    <3>3. CASE ~Gap(m.port, m)
      <4>1. gapEvents' = [gapEvents EXCEPT ![m.port] = gapEvents[m.port]]
        BY <3>3 DEF Pass
      <4> QED
        BY <3>1, <4>1
    <3> QED
      BY <3>2, <3>3
  <2> QED
    BY <2>1 DEF Pass
<1>14. TypeOK'
  BY <1>7, <1>8, <1>13 DEF TypeOK
<1> QED
  BY <1>1, <1>10, <1>11, <1>12, <1>13, <1>14

LEMMA PassInv ==
  ASSUME IInv, NEW m \in wire \cup Strays, Pass(m.port, m)
  PROVE  IInv'
<1> USE DEF IInv
<1>1. TypeOK
  OBVIOUS
<1>2. /\ m \in wire /\ m \in Message
      /\ m.stream \in Streams /\ m.port \in Ports
      /\ m.nth \in Nat /\ m.seq \in Int /\ m.ts \in Nat
      /\ sequences'[m.port][m.stream] = [seq |-> m.seq, ts |-> m.ts]
      /\ \A p \in Ports, r \in Streams :
           p # m.port \/ r # m.stream => sequences'[p][r] = sequences[p][r]
      /\ \A r \in Streams \ {m.stream} : passed'[r] = passed[r]
      /\ Len(passed[m.stream]) \in Nat
      /\ Len(passed'[m.stream]) = Len(passed[m.stream]) + 1
      /\ \A i \in 1..Len(passed[m.stream]) : passed'[m.stream][i] = passed[m.stream][i]
      /\ passed'[m.stream][Len(passed[m.stream]) + 1] = m
      /\ UNCHANGED <<sender, wire, rejected>>
      /\ TypeOK'
  BY <1>1, PassFacts
<1>3. \A n \in wire : /\ n \in Message
                      /\ n.stream \in Streams /\ n.port \in Ports
                      /\ n.nth \in Nat /\ n.seq \in Int /\ n.ts \in Nat
  BY <1>1, WireFacts
<1>4. SenderAhead'
  <2>1. \A n \in wire' : n.flaw = "none" /\ n.nth <= sender'[n.stream].nth /\ Behind(n, n.stream)'
    BY <1>2 DEF SenderAhead, Behind
  <2>2. ASSUME NEW p \in Ports, NEW r \in Streams, sequences'[p][r] # NoState
        PROVE  Behind(sequences[p][r], r)'
    <3>1. CASE p = m.port /\ r = m.stream
      BY <1>2, <3>1 DEF SenderAhead, Behind
    <3>2. CASE p # m.port \/ r # m.stream
      BY <1>2, <2>2, <3>2 DEF SenderAhead, Behind
    <3> QED
      BY <3>1, <3>2
  <2> QED
    BY <2>1, <2>2 DEF SenderAhead
<1>5. LaterIsHigher'
  BY <1>2 DEF LaterIsHigher
<1>6. FreshIsNews'
  <2> SUFFICES ASSUME NEW n \in wire', Fresh(n)'
               PROVE  (State(n) = NoState \/ n.seq > State(n).seq \/ n.ts > State(n).ts)'
    BY DEF FreshIsNews
  <2>0. n \in wire
    BY <1>2
  <2>1. CASE n.stream = m.stream
    <3>1. Fresh(n) /\ m.nth < n.nth
      <4>1. \A i \in 1..(Len(passed[m.stream]) + 1) : passed'[m.stream][i].nth < n.nth
        BY <1>2, <2>1 DEF Fresh
      <4>2. m.nth < n.nth
        BY <1>2, <4>1
      <4>3. ASSUME NEW i \in 1..Len(passed[m.stream]) PROVE passed[m.stream][i].nth < n.nth
        <5>1. passed'[m.stream][i] = passed[m.stream][i] /\ i \in 1..(Len(passed[m.stream]) + 1)
          BY <1>2
        <5> QED
          BY <4>1, <5>1
      <4> QED
        BY <2>1, <4>2, <4>3 DEF Fresh
    <3>2. m.seq < n.seq \/ m.ts < n.ts
      BY <1>2, <2>0, <2>1, <3>1 DEF LaterIsHigher
    <3>3. CASE n.port = m.port
      BY <1>2, <1>3, <2>0, <2>1, <3>2, <3>3 DEF State
    <3>4. CASE n.port # m.port
      BY <1>2, <1>3, <2>0, <3>1, <3>4 DEF State, FreshIsNews
    <3> QED
      BY <3>3, <3>4
  <2>2. CASE n.stream # m.stream
    BY <1>2, <1>3, <2>0, <2>2 DEF State, FreshIsNews, Fresh
  <2> QED
    BY <2>1, <2>2
<1>7. RejectsOnlyLate'
  <2> SUFFICES ASSUME NEW n \in rejected
               PROVE  \E i \in 1..Len(passed'[n.stream]) : passed'[n.stream][i].nth >= n.nth
    BY <1>2 DEF RejectsOnlyLate
  <2>1. PICK i \in 1..Len(passed[n.stream]) : passed[n.stream][i].nth >= n.nth
    BY DEF RejectsOnlyLate
  <2>2. n.stream \in Streams
    BY MessageFacts DEF TypeOK
  <2>3. CASE n.stream = m.stream
    BY <1>2, <2>1, <2>3, SMTT(30)
  <2>4. CASE n.stream # m.stream
    BY <1>2, <2>1, <2>2, <2>4
  <2> QED
    BY <2>3, <2>4
<1> QED
  BY <1>2, <1>4, <1>5, <1>6, <1>7

LEMMA NextInv == IInv /\ [Next]_vars => IInv'
<1> SUFFICES ASSUME IInv, [Next]_vars PROVE IInv'
  OBVIOUS
<1>1. ASSUME NEW m \in wire \cup Strays, Receive(m.port, m) PROVE IInv'
  <2>1. CASE Refuse(m.port, m)
    BY <2>1 DEF Refuse, vars, IInv, TypeOK, SenderAhead, Behind, LaterIsHigher, FreshIsNews,
                Fresh, State, RejectsOnlyLate
  <2>2. CASE Reject(m.port, m)
    BY <2>2, RejectInv
  <2>3. ASSUME Pass(m.port, m) PROVE IInv'
    BY <2>3, PassInv
  <2> QED
    BY <1>1, <2>1, <2>2, <2>3 DEF Receive
<1>2. CASE UNCHANGED vars
  BY <1>2 DEF vars, IInv, TypeOK, SenderAhead, Behind, LaterIsHigher, FreshIsNews,
              Fresh, State, RejectsOnlyLate
<1> QED
  BY <1>1, <1>2, SendInv, RestartInv DEF Next

LEMMA Invariance == Spec => []IInv
BY InitInv, NextInv, PTL DEF Spec

-----------------------------------------------------------------------------
(* The order of what passes, when no link outlives a restart of its sender. *)

\* All of a stream's messages on the wire are of its sender's present link.
OneLink ==
  \A m \in wire :
    /\ m.port = sender[m.stream].port
    /\ m.nth <= sender[m.stream].nth
    /\ m.seq <= sender[m.stream].seq
    /\ m.ts <= sender[m.stream].ts

SentInOrder ==
  \A m, n \in wire :
    m.stream = n.stream /\ m.nth <= n.nth => m.seq <= n.seq /\ m.ts <= n.ts

PassedWasSent ==
  \A s \in Streams : \A i \in 1..Len(passed[s]) : passed[s][i].nth <= sender[s].nth

\* What could still arrive too late is no news to the table of its port.
LateIsStale ==
  \A m \in wire :
    ~Fresh(m) => State(m) # NoState /\ m.seq <= State(m).seq /\ m.ts <= State(m).ts

OrderInv == OneLink /\ SentInOrder /\ PassedWasSent /\ LateIsStale /\ InSendOrder

LEMMA PassedFacts ==
  ASSUME TypeOK
  PROVE  \A s \in Streams : /\ Len(passed[s]) \in Nat
                            /\ \A i \in 1..Len(passed[s]) : passed[s][i].nth \in Nat
<1> SUFFICES ASSUME NEW s \in Streams
             PROVE  /\ Len(passed[s]) \in Nat
                    /\ \A i \in 1..Len(passed[s]) : passed[s][i].nth \in Nat
  OBVIOUS
<1>1. passed[s] \in Seq(Message)
  BY DEF TypeOK
<1>2. ASSUME NEW i \in 1..Len(passed[s]) PROVE passed[s][i].nth \in Nat
  <2>1. passed[s][i] \in Message
    BY <1>1
  <2> QED
    BY <2>1, MessageFacts
<1> QED
  BY <1>1, <1>2

LEMMA OrderInit == Init => OrderInv
BY DEF Init, OrderInv, OneLink, SentInOrder, PassedWasSent, LateIsStale, InSendOrder

LEMMA OrderSend ==
  ASSUME TypeOK, OrderInv, NEW s \in Streams, NEW tick \in {0, 1}, Send(s, tick)
  PROVE  OrderInv'
<1> DEFINE new == NextResult(s, tick)
<1> USE DEF OrderInv
<1>1. /\ new \in Message
      /\ new.nth = sender[s].nth + 1
      /\ new.seq = sender[s].seq + 1
      /\ new.ts \in {sender[s].ts, sender[s].ts + 1}
      /\ new.stream = s
      /\ wire' = wire \cup {new}
      /\ sender'[s].nth = sender[s].nth + 1
      /\ sender'[s].seq = sender[s].seq + 1
      /\ sender'[s].ts = new.ts
      /\ \A r \in Streams \ {s} : sender'[r] = sender[r]
      /\ sender[s].nth \in Nat /\ sender[s].seq \in Int /\ sender[s].ts \in Nat
      /\ UNCHANGED <<sequences, gapEvents, passed, rejected>>
  BY SendFacts
<1>2. new.port = sender[s].port /\ sender'[s].port = sender[s].port
  BY DEF Send, NextResult, TypeOK
<1> HIDE DEF new
<1>3. \A m \in wire : /\ m.stream \in Streams
                      /\ m.nth \in Nat /\ m.seq \in Int /\ m.ts \in Nat
  BY WireFacts
<1>4. OneLink'
  <2> SUFFICES ASSUME NEW m \in wire'
               PROVE  /\ m.port = sender'[m.stream].port
                      /\ m.nth <= sender'[m.stream].nth
                      /\ m.seq <= sender'[m.stream].seq
                      /\ m.ts <= sender'[m.stream].ts
    BY DEF OneLink
  <2>1. CASE m = new
    BY <1>1, <1>2, <2>1
  <2>2. CASE m \in wire
    BY <1>1, <1>2, <1>3, <2>2 DEF OneLink
  <2> QED
    BY <1>1, <2>1, <2>2
<1>5. SentInOrder'
  <2> SUFFICES ASSUME NEW m \in wire', NEW n \in wire', m.stream = n.stream, m.nth <= n.nth
               PROVE  m.seq <= n.seq /\ m.ts <= n.ts
    BY DEF SentInOrder
  <2>1. CASE m \in wire /\ n \in wire
    BY <2>1 DEF SentInOrder
  <2>2. CASE m \in wire /\ n = new
    BY <1>1, <1>3, <2>2 DEF OneLink
  <2>3. CASE m = new /\ n \in wire
    BY <1>1, <1>3, <2>3 DEF OneLink
  <2>4. CASE m = new /\ n = new
    BY <1>1, <2>4
  <2> QED
    BY <1>1, <2>1, <2>2, <2>3, <2>4
<1>6. PassedWasSent'
  <2> SUFFICES ASSUME NEW r \in Streams, NEW i \in 1..Len(passed[r])
               PROVE  passed[r][i].nth <= sender'[r].nth
    BY <1>1 DEF PassedWasSent
  <2>1. passed[r][i].nth <= sender[r].nth /\ passed[r][i].nth \in Nat
    BY PassedFacts DEF PassedWasSent
  <2> QED
    BY <1>1, <2>1
<1>7. LateIsStale'
  <2> SUFFICES ASSUME NEW m \in wire', ~Fresh(m)'
               PROVE  (State(m) # NoState /\ m.seq <= State(m).seq /\ m.ts <= State(m).ts)'
    BY DEF LateIsStale
  <2>1. CASE m \in wire
    BY <1>1, <2>1 DEF LateIsStale, Fresh, State
  <2>2. CASE m = new
    <3>1. \A i \in 1..Len(passed[s]) : passed[s][i].nth < new.nth
      BY <1>1, PassedFacts DEF PassedWasSent
    <3> QED
      BY <1>1, <2>2, <3>1 DEF Fresh
  <2> QED
    BY <1>1, <2>1, <2>2
<1>8. InSendOrder'
  BY <1>1 DEF InSendOrder
<1> QED
  BY <1>4, <1>5, <1>6, <1>7, <1>8

LEMMA OrderRestart ==
  ASSUME ~LateLink, TypeOK, OrderInv,
         NEW s \in Streams, NEW port \in Ports, NEW first \in FirstSeqs, Restart(s, port, first)
  PROVE  OrderInv'
<1> USE DEF OrderInv
<1>1. /\ sender'[s].nth = sender[s].nth
      /\ \A r \in Streams \ {s} : sender'[r] = sender[r]
      /\ \A m \in wire' : m \in wire /\ m.stream # s
      /\ UNCHANGED <<sequences, gapEvents, passed, rejected>>
  BY DEF Restart, TypeOK
<1>2. OneLink'
  BY <1>1, WireFacts DEF OneLink
<1>3. PassedWasSent'
  BY <1>1 DEF PassedWasSent
<1>4. SentInOrder' /\ LateIsStale' /\ InSendOrder'
  BY <1>1 DEF SentInOrder, LateIsStale, Fresh, State, InSendOrder
<1> QED
  BY <1>2, <1>3, <1>4

\* previous.sequence + 1 does not wrap, so what is stale is no gap either.
LEMMA PassIsFresh ==
  ASSUME TypeOK, OrderInv, NEW m \in wire \cup Strays, Pass(m.port, m)
  PROVE  Fresh(m)
<1> SUFFICES ASSUME ~Fresh(m) PROVE FALSE
  OBVIOUS
<1>1. m \in wire /\ m.stream \in Streams /\ m.port \in Ports /\ m.seq \in Int
  BY PassFacts
<1>2. State(m) # NoState /\ m.seq <= State(m).seq /\ m.ts <= State(m).ts
  BY <1>1 DEF OrderInv, LateIsStale
<1>3. State(m).seq \in 0..MaxSeq
  BY <1>1, <1>2 DEF TypeOK, SequenceState, State
<1>4. (State(m).seq + 1) % SeqModulus = State(m).seq + 1
  BY <1>3, ReceiverAssumption
<1>5. ~Gap(m.port, m)
  BY <1>1, <1>2, <1>3, <1>4 DEF Gap, State
<1> QED
  BY <1>2, <1>5 DEF Pass, Duplicate, Known, State

LEMMA OrderPass ==
  ASSUME TypeOK, OrderInv, NEW m \in wire \cup Strays, Pass(m.port, m)
  PROVE  OrderInv'
<1> USE DEF OrderInv
<1>1. /\ m \in wire /\ m \in Message
      /\ m.stream \in Streams /\ m.port \in Ports
      /\ m.nth \in Nat /\ m.seq \in Int /\ m.ts \in Nat
      /\ sequences'[m.port][m.stream] = [seq |-> m.seq, ts |-> m.ts]
      /\ \A p \in Ports, r \in Streams :
           p # m.port \/ r # m.stream => sequences'[p][r] = sequences[p][r]
      /\ \A r \in Streams \ {m.stream} : passed'[r] = passed[r]
      /\ Len(passed[m.stream]) \in Nat
      /\ Len(passed'[m.stream]) = Len(passed[m.stream]) + 1
      /\ \A i \in 1..Len(passed[m.stream]) : passed'[m.stream][i] = passed[m.stream][i]
      /\ passed'[m.stream][Len(passed[m.stream]) + 1] = m
      /\ UNCHANGED <<sender, wire, rejected>>
  BY PassFacts
<1>2. \A n \in wire : /\ n.stream \in Streams /\ n.port \in Ports
                      /\ n.nth \in Nat /\ n.seq \in Int /\ n.ts \in Nat
  BY WireFacts
<1>3. Fresh(m)
  BY PassIsFresh
<1>4. \A i \in 1..Len(passed[m.stream]) :
        /\ passed[m.stream][i].nth < m.nth
        /\ passed[m.stream][i].nth \in Nat
  BY <1>1, <1>3, PassedFacts DEF Fresh
<1>5. OneLink' /\ SentInOrder'
  BY <1>1 DEF OneLink, SentInOrder
<1>6. PassedWasSent'
  <2> SUFFICES ASSUME NEW r \in Streams, NEW i \in 1..Len(passed'[r])
               PROVE  passed'[r][i].nth <= sender[r].nth
    BY <1>1 DEF PassedWasSent
  <2>1. CASE r # m.stream
    BY <1>1, <2>1 DEF PassedWasSent
  <2>2. CASE r = m.stream /\ i <= Len(passed[m.stream])
    BY <1>1, <2>2 DEF PassedWasSent
  <2>3. CASE r = m.stream /\ i = Len(passed[m.stream]) + 1
    BY <1>1, <2>3 DEF OneLink
  <2> QED
    BY <1>1, <2>1, <2>2, <2>3
<1>7. LateIsStale'
  <2> SUFFICES ASSUME NEW n \in wire, ~Fresh(n)'
               PROVE  (State(n) # NoState /\ n.seq <= State(n).seq /\ n.ts <= State(n).ts)'
    BY <1>1 DEF LateIsStale
  <2>1. CASE n.stream # m.stream
    BY <1>1, <1>2, <2>1 DEF LateIsStale, Fresh, State
  <2>2. CASE n.stream = m.stream
    <3>1. n.nth <= m.nth
      <4>1. PICK i \in 1..(Len(passed[m.stream]) + 1) : ~(passed'[m.stream][i].nth < n.nth)
        BY <1>1, <2>2 DEF Fresh
      <4>2. CASE i <= Len(passed[m.stream])
        <5>1. i \in 1..Len(passed[m.stream])
          BY <1>1, <4>2
        <5>2. passed'[m.stream][i] = passed[m.stream][i]
          BY <1>1, <5>1
        <5>3. passed[m.stream][i].nth < m.nth /\ passed[m.stream][i].nth \in Nat
          BY <1>4, <5>1
        <5>4. n.nth \in Nat /\ m.nth \in Nat
          BY <1>1, <1>2
        <5> QED
          BY <4>1, <5>2, <5>3, <5>4
      <4>3. CASE i = Len(passed[m.stream]) + 1
        BY <1>1, <1>2, <4>1, <4>3
      <4> QED
        BY <1>1, <4>2, <4>3
    <3>2. n.seq <= m.seq /\ n.ts <= m.ts /\ n.port = m.port
      BY <1>1, <2>2, <3>1 DEF SentInOrder, OneLink
    <3>3. [seq |-> m.seq, ts |-> m.ts] # NoState
      <4>1. m.seq \in 0..MaxSeq
        BY <1>1, MessageFacts
      <4> QED
        BY <1>1, <4>1, ReceiverAssumption
    <3> QED
      BY <1>1, <2>2, <3>2, <3>3 DEF State
  <2> QED
    BY <2>1, <2>2
<1>8. InSendOrder'
  <2> SUFFICES ASSUME NEW r \in Streams,
                      NEW i \in 1..Len(passed'[r]), NEW k \in 1..Len(passed'[r]), i < k
               PROVE  passed'[r][i].nth < passed'[r][k].nth
    BY DEF InSendOrder
  <2>1. CASE r # m.stream
    <3>1. passed'[r] = passed[r]
      BY <1>1, <2>1
    <3> QED
      BY <3>1 DEF InSendOrder
  <2>2. CASE r = m.stream /\ k <= Len(passed[m.stream])
    <3>1. i \in 1..Len(passed[r]) /\ k \in 1..Len(passed[r])
      BY <1>1, <2>2
    <3>2. passed'[r][i] = passed[r][i] /\ passed'[r][k] = passed[r][k]
      BY <1>1, <2>2, <3>1
    <3> QED
      BY <3>1, <3>2 DEF InSendOrder
  <2>3. CASE r = m.stream /\ k = Len(passed[m.stream]) + 1
    <3>1. i \in 1..Len(passed[m.stream])
      BY <1>1, <2>3
    <3>2. passed'[m.stream][i] = passed[m.stream][i] /\ passed'[m.stream][k] = m
      BY <1>1, <2>3, <3>1
    <3> QED
      BY <1>4, <2>3, <3>1, <3>2
  <2> QED
    BY <1>1, <2>1, <2>2, <2>3
<1> QED
  BY <1>5, <1>6, <1>7, <1>8

LEMMA OrderNext == ~LateLink /\ TypeOK /\ OrderInv /\ [Next]_vars => OrderInv'
<1> SUFFICES ASSUME ~LateLink, TypeOK, OrderInv, [Next]_vars PROVE OrderInv'
  OBVIOUS
<1>1. ASSUME UNCHANGED <<sender, wire, sequences, passed>> PROVE OrderInv'
  BY <1>1 DEF OrderInv, OneLink, SentInOrder, PassedWasSent, LateIsStale, Fresh, State, InSendOrder
<1>2. ASSUME NEW m \in wire \cup Strays, Receive(m.port, m) PROVE OrderInv'
  <2>1. CASE Refuse(m.port, m) \/ Reject(m.port, m)
    BY <1>1, <2>1 DEF Refuse, Reject, vars
  <2>2. ASSUME Pass(m.port, m) PROVE OrderInv'
    BY <2>2, OrderPass
  <2> QED
    BY <1>2, <2>1, <2>2 DEF Receive
<1>3. CASE UNCHANGED vars
  BY <1>1, <1>3 DEF vars
<1> QED
  BY <1>2, <1>3, OrderSend, OrderRestart DEF Next

-----------------------------------------------------------------------------
(* The gaps, whether or not a link outlives a restart of its sender *)

\* The last result of a stream that passed.
Last(s) == passed[s][Len(passed[s])]

\* What may still be compared with a later result.
Recent == wire \cup {Last(s) : s \in {r \in Streams : passed[r] # <<>>}}

\* A sender has one port in each of its lives.
OnePortPerLife ==
  /\ \A m \in Recent :
       /\ m.life <= sender[m.stream].life
       /\ m.life = sender[m.stream].life => m.port = sender[m.stream].port
  /\ \A m, n \in Recent : m.stream = n.stream /\ m.life = n.life => m.port = n.port

\* The table of its port remembers it.
LastRemembered ==
  \A s \in Streams : passed[s] # <<>> =>
    /\ Last(s) \in Message /\ Last(s).stream = s
    /\ sequences[Last(s).port][s] = [seq |-> Last(s).seq, ts |-> Last(s).ts]

HolesCounted ==
  \A p \in Ports : IsFiniteSet(Holes(p)) /\ Cardinality(Holes(p)) <= gapEvents[p]

GapInv == OnePortPerLife /\ LastRemembered /\ HolesCounted

LEMMA GapInit == Init => GapInv
<1> SUFFICES ASSUME Init PROVE GapInv
  OBVIOUS
<1>1. \A s \in Streams : passed[s] = <<>>
  BY DEF Init
<1>2. Recent = {}
  BY <1>1 DEF Recent, Init
<1>3. \A p \in Ports : Holes(p) = {}
  BY <1>1 DEF Holes, HoleAfter
<1>4. HolesCounted
  <2>1. \A p \in Ports : gapEvents[p] = 0
    BY DEF Init
  <2>2. IsFiniteSet({}) /\ Cardinality({}) = 0
    BY FS_EmptySet
  <2> QED
    BY <1>3, <2>1, <2>2 DEF HolesCounted
<1> QED
  BY <1>1, <1>2, <1>4 DEF GapInv, OnePortPerLife, LastRemembered

LEMMA RecentFacts ==
  ASSUME TypeOK, LastRemembered
  PROVE  \A m \in Recent : /\ m \in Message /\ m.stream \in Streams
                           /\ m.life \in Nat /\ m.port \in Ports
BY MessageFacts, ZenonT(30) DEF Recent, LastRemembered, TypeOK

LEMMA GapSend ==
  ASSUME TypeOK, GapInv, NEW s \in Streams, NEW tick \in {0, 1}, Send(s, tick)
  PROVE  GapInv'
<1> DEFINE new == NextResult(s, tick)
<1> USE DEF GapInv
<1>1. /\ wire' = wire \cup {new} /\ new.stream = s
      /\ \A r \in Streams \ {s} : sender'[r] = sender[r]
      /\ UNCHANGED <<sequences, gapEvents, passed>>
  BY SendFacts
<1>2. /\ new.port = sender[s].port /\ sender'[s].port = sender[s].port
      /\ new.life = sender[s].life /\ sender'[s].life = sender[s].life
      /\ sender[s].life \in Nat
  BY DEF Send, NextResult, TypeOK
<1> HIDE DEF new
<1>3. Recent' = Recent \cup {new}
  BY <1>1 DEF Recent, Last
<1>4. \A m \in Recent : m.stream \in Streams
  BY RecentFacts
<1>5. OnePortPerLife'
  <2>1. \A m \in Recent' :
          /\ m.life <= sender'[m.stream].life
          /\ m.life = sender'[m.stream].life => m.port = sender'[m.stream].port
    BY <1>1, <1>2, <1>3, <1>4 DEF OnePortPerLife
  <2>2. \A m, n \in Recent' : m.stream = n.stream /\ m.life = n.life => m.port = n.port
    BY <1>1, <1>2, <1>3, <1>4 DEF OnePortPerLife
  <2> QED
    BY <2>1, <2>2 DEF OnePortPerLife
<1>6. LastRemembered' /\ HolesCounted'
  BY <1>1 DEF LastRemembered, Last, HolesCounted, Holes, HoleAfter
<1> QED
  BY <1>5, <1>6

LEMMA GapRestart ==
  ASSUME TypeOK, GapInv, NEW s \in Streams, NEW port \in Ports, NEW first \in FirstSeqs,
         Restart(s, port, first)
  PROVE  GapInv'
<1> USE DEF GapInv
<1>1. /\ sender'[s].life = sender[s].life + 1 /\ sender[s].life \in Nat
      /\ \A r \in Streams \ {s} : sender'[r] = sender[r]
      /\ wire' \subseteq wire
      /\ UNCHANGED <<sequences, gapEvents, passed>>
  BY DEF Restart, TypeOK
<1>2. Recent' \subseteq Recent
  BY <1>1 DEF Recent, Last
<1>3. \A m \in Recent : m.stream \in Streams /\ m.life \in Nat
  BY RecentFacts
<1>4. OnePortPerLife'
  <2>1. \A m \in Recent' :
          /\ m.life <= sender'[m.stream].life
          /\ m.life = sender'[m.stream].life => m.port = sender'[m.stream].port
    BY <1>1, <1>2, <1>3 DEF OnePortPerLife
  <2> QED
    BY <1>2, <2>1 DEF OnePortPerLife
<1>5. LastRemembered' /\ HolesCounted'
  BY <1>1 DEF LastRemembered, Last, HolesCounted, Holes, HoleAfter
<1> QED
  BY <1>4, <1>5

\* The only new hole is the one before the result that passes, and it is counted.
LEMMA GapCounted ==
  ASSUME TypeOK, GapInv, NEW m \in wire \cup Strays, Pass(m.port, m), NEW p \in Ports
  PROVE  /\ Holes(p)' \subseteq Holes(p) \cup {<<m.stream, Len(passed[m.stream])>>}
         /\ Holes(p)' \subseteq Holes(p) \/ (p = m.port /\ Gap(m.port, m))
<1> DEFINE s == m.stream
<1> USE DEF GapInv
<1>0. PICK len \in Nat : len = Len(passed[s])
  BY PassFacts
<1>1. /\ m \in wire /\ m \in Message /\ s \in Streams /\ m.port \in Ports /\ m.seq \in Int
      /\ \A r \in Streams \ {s} : passed'[r] = passed[r]
      /\ Len(passed'[s]) = len + 1
      /\ \A i \in 1..len : passed'[s][i] = passed[s][i]
      /\ passed'[s][len + 1] = m
  BY <1>0, PassFacts
<1>2. ASSUME NEW r \in Streams, NEW i \in 1..MaxPassed, HoleAfter(p, r, i)', <<r, i>> # <<s, len>>
      PROVE  <<r, i>> \in Holes(p)
  <2>1. CASE r # s
    BY <1>0, <1>1, <1>2, <2>1 DEF HoleAfter, Holes
  <2>2. CASE r = s
    <3>1. i < len + 1 /\ i # len /\ i \in Nat
      BY <1>1, <1>2, <2>2, ReceiverAssumption DEF HoleAfter
    <3>2. i < len /\ i \in 1..len /\ i + 1 \in 1..len
      BY <1>1, <3>1, ReceiverAssumption
    <3>3. passed'[s][i] = passed[s][i] /\ passed'[s][i+1] = passed[s][i+1]
      BY <1>1, <3>2
    <3>4. HoleAfter(p, s, i)
      BY <1>0, <1>2, <2>2, <3>2, <3>3 DEF HoleAfter
    <3> QED
      BY <2>2, <3>4 DEF Holes
  <2> QED
    BY <2>1, <2>2
<1>3. ASSUME len \in 1..MaxPassed, HoleAfter(p, s, len)' PROVE p = m.port /\ Gap(m.port, m)
  <2>1. passed'[s][len] = Last(s) /\ passed[s] # <<>>
    BY <1>0, <1>1, <1>3 DEF Last
  <2>2. m.port = p /\ m.life = Last(s).life /\ m.seq > Last(s).seq + 1
    BY <1>1, <1>3, <2>1 DEF HoleAfter
  <2>3. m \in Recent /\ Last(s) \in Recent
    BY <1>1, <2>1 DEF Recent
  <2>4. Last(s).stream = s /\ Last(s) \in Message
    BY <1>1, <2>1 DEF LastRemembered
  <2>5. Last(s).port = m.port
    BY <2>2, <2>3, <2>4 DEF OnePortPerLife
  <2>6. sequences[m.port][s] = [seq |-> Last(s).seq, ts |-> Last(s).ts]
    BY <1>1, <2>1, <2>5 DEF LastRemembered
  <2>7. Last(s).seq \in 0..MaxSeq /\ Last(s).ts \in Nat
    BY <2>4, MessageFacts
  <2>8. sequences[m.port][s] # NoState
    BY <2>6, <2>7, ReceiverAssumption
  <2>9. (Last(s).seq + 1) % SeqModulus = Last(s).seq + 1
    BY <2>7, ReceiverAssumption
  <2> QED
    BY <2>2, <2>6, <2>8, <2>9 DEF Gap, Known
<1>4. \A h \in Holes(p)' : \E r \in Streams, i \in 1..MaxPassed :
        h = <<r, i>> /\ HoleAfter(p, r, i)'
  BY DEF Holes
<1> HIDE DEF s
<1>5. ASSUME NEW h \in Holes(p)'
      PROVE  h \in Holes(p) \/ (h = <<s, len>> /\ p = m.port /\ Gap(m.port, m))
  <2>1. PICK r \in Streams, i \in 1..MaxPassed : h = <<r, i>> /\ HoleAfter(p, r, i)'
    BY <1>4
  <2>2. CASE <<r, i>> = <<s, len>>
    <3>1. r = s /\ i = len
      BY <2>2
    <3> QED
      BY <1>3, <2>1, <2>2, <3>1
  <2> QED
    BY <1>2, <2>1, <2>2
<1> QED
  BY <1>0, <1>5 DEF s

LEMMA GapPass ==
  ASSUME TypeOK, GapInv, NEW m \in wire \cup Strays, Pass(m.port, m)
  PROVE  GapInv'
<1> USE DEF GapInv
<1>1. /\ m \in wire /\ m \in Message
      /\ m.stream \in Streams /\ m.port \in Ports
      /\ sequences'[m.port][m.stream] = [seq |-> m.seq, ts |-> m.ts]
      /\ \A p \in Ports, r \in Streams :
           p # m.port \/ r # m.stream => sequences'[p][r] = sequences[p][r]
      /\ \A r \in Streams \ {m.stream} : passed'[r] = passed[r]
      /\ Len(passed[m.stream]) \in Nat
      /\ Len(passed'[m.stream]) = Len(passed[m.stream]) + 1
      /\ passed'[m.stream][Len(passed[m.stream]) + 1] = m
      /\ UNCHANGED <<sender, wire>>
  BY PassFacts
<1>2. Last(m.stream)' = m /\ \A r \in Streams \ {m.stream} : Last(r)' = Last(r)
  BY <1>1 DEF Last
<1>3. Recent' \subseteq Recent
  <2>1. \A r \in Streams : passed'[r] # <<>> =>
          Last(r)' = m \/ (passed[r] # <<>> /\ Last(r)' = Last(r))
    BY <1>1, <1>2
  <2> QED
    BY <1>1, <2>1 DEF Recent
<1>4. OnePortPerLife'
  BY <1>1, <1>3 DEF OnePortPerLife
<1>5. LastRemembered'
  <2> SUFFICES ASSUME NEW r \in Streams, passed'[r] # <<>>
               PROVE  /\ Last(r)' \in Message /\ Last(r)'.stream = r
                      /\ sequences'[Last(r)'.port][r] = [seq |-> Last(r)'.seq, ts |-> Last(r)'.ts]
    BY DEF LastRemembered
  <2>1. CASE r = m.stream
    BY <1>1, <1>2, <2>1
  <2>2. CASE r # m.stream
    <3>1. Last(r)' = Last(r) /\ passed[r] # <<>>
      BY <1>1, <1>2, <2>2
    <3>2. /\ Last(r) \in Message /\ Last(r).stream = r
          /\ sequences[Last(r).port][r] = [seq |-> Last(r).seq, ts |-> Last(r).ts]
      BY <3>1 DEF LastRemembered
    <3> QED
      BY <1>1, <2>2, <3>1, <3>2, MessageFacts
  <2> QED
    BY <2>1, <2>2
<1>6. HolesCounted'
  <2> SUFFICES ASSUME NEW p \in Ports
               PROVE  IsFiniteSet(Holes(p)') /\ Cardinality(Holes(p)') <= gapEvents'[p]
    BY DEF HolesCounted
  <2>1. /\ IsFiniteSet(Holes(p)) /\ Cardinality(Holes(p)) <= gapEvents[p]
        /\ gapEvents[p] \in Nat /\ Cardinality(Holes(p)) \in Nat
    BY FS_CardinalityType DEF HolesCounted, TypeOK
  <2>2. CASE Holes(p)' \subseteq Holes(p)
    <3>1. IsFiniteSet(Holes(p)') /\ Cardinality(Holes(p)') <= Cardinality(Holes(p))
      BY <2>1, <2>2, FS_Subset
    <3>2. gapEvents'[p] \in {gapEvents[p], gapEvents[p] + 1}
      BY <1>1 DEF Pass, TypeOK
    <3>3. Cardinality(Holes(p)') \in Nat
      BY <3>1, FS_CardinalityType
    <3> QED
      BY <2>1, <3>1, <3>2, <3>3
  <2>3. CASE p = m.port /\ Gap(m.port, m)
    <3> DEFINE h == <<m.stream, Len(passed[m.stream])>>
    <3>1. gapEvents'[p] = gapEvents[p] + 1
      BY <1>1, <2>3 DEF Pass, TypeOK
    <3>2. Holes(p)' \subseteq Holes(p) \cup {h}
      BY GapCounted
    <3> HIDE DEF h
    <3>3. /\ IsFiniteSet(Holes(p) \cup {h})
          /\ Cardinality(Holes(p) \cup {h}) \in {Cardinality(Holes(p)), Cardinality(Holes(p)) + 1}
      BY <2>1, FS_AddElement
    <3>4. IsFiniteSet(Holes(p)') /\ Cardinality(Holes(p)') <= Cardinality(Holes(p) \cup {h})
      BY <3>2, <3>3, FS_Subset
    <3>5. Cardinality(Holes(p)') \in Nat
      BY <3>4, FS_CardinalityType
    <3> QED
      BY <2>1, <3>1, <3>3, <3>4, <3>5
  <2> QED
    BY <2>2, <2>3, GapCounted
<1> QED
  BY <1>4, <1>5, <1>6

LEMMA GapNext == TypeOK /\ GapInv /\ [Next]_vars => GapInv'
<1> SUFFICES ASSUME TypeOK, GapInv, [Next]_vars PROVE GapInv'
  OBVIOUS
<1>1. ASSUME UNCHANGED <<sender, wire, sequences, gapEvents, passed>> PROVE GapInv'
  <2>1. Recent' = Recent /\ \A s \in Streams : Last(s)' = Last(s)
    BY <1>1 DEF Recent, Last
  <2>2. \A p \in Ports : Holes(p)' = Holes(p)
    BY <1>1 DEF Holes, HoleAfter
  <2>3. OnePortPerLife' /\ LastRemembered'
    BY <1>1, <2>1 DEF GapInv, OnePortPerLife, LastRemembered
  <2>4. HolesCounted'
    BY <1>1, <2>2 DEF GapInv, HolesCounted
  <2> QED
    BY <2>3, <2>4 DEF GapInv
<1>2. ASSUME NEW m \in wire \cup Strays, Receive(m.port, m) PROVE GapInv'
  <2>1. CASE Refuse(m.port, m) \/ Reject(m.port, m)
    BY <1>1, <2>1 DEF Refuse, Reject, vars
  <2>2. ASSUME Pass(m.port, m) PROVE GapInv'
    BY <2>2, GapPass
  <2> QED
    BY <1>2, <2>1, <2>2 DEF Receive
<1>3. CASE UNCHANGED vars
  BY <1>1, <1>3 DEF vars
<1> QED
  BY <1>2, <1>3, GapSend, GapRestart DEF Next

-----------------------------------------------------------------------------
(***************************************************************************)
(* Type correctness of the tables, counters and histories of               *)
(* receive_worker.                                                         *)
(***************************************************************************)
THEOREM ReceiverTypeCorrect == Spec => []TypeOK
BY Invariance, PTL DEF IInv

(***************************************************************************)
(* The duplicate test of receive_worker never rejects a result newer than  *)
(* all that passed, whether or not messages of an abandoned link still     *)
(* arrive.                                                                 *)
(***************************************************************************)
THEOREM ReceiverRejectsOnlyLate == Spec => []RejectsOnlyLate
BY Invariance, PTL DEF IInv

(***************************************************************************)
(* When a sender only comes back after its old link has run dry, the       *)
(* results that pass the sequence check of receive_worker are in the order *)
(* sent and none passes twice, whatever numbers and port it comes back     *)
(* with.                                                                   *)
(***************************************************************************)
THEOREM ReceiverInSendOrder ==
  ASSUME ~LateLink
  PROVE  Spec => []InSendOrder
<1>1. Spec => []TypeOK
  BY ReceiverTypeCorrect
<1>2. OrderInv => InSendOrder
  BY DEF OrderInv
<1>3. TypeOK /\ OrderInv /\ [Next]_vars => OrderInv'
  BY OrderNext
<1> QED
  BY <1>1, <1>2, <1>3, OrderInit, PTL DEF Spec

(***************************************************************************)
(* Every hole in the numbers of one life of a sender that opens between    *)
(* two results passed on a port adds to that port's sequence_gap_events,   *)
(* whatever arrives late from a link abandoned by a restart.               *)
(***************************************************************************)
THEOREM ReceiverGapsReported == Spec => []GapsReported
<1>1. Spec => []TypeOK
  BY ReceiverTypeCorrect
<1>2. TypeOK /\ GapInv /\ [Next]_vars => GapInv'
  BY GapNext
<1>3. GapInv => GapsReported
  BY DEF GapInv, HolesCounted, GapsReported
<1> QED
  BY <1>1, <1>2, <1>3, GapInit, PTL DEF Spec

=============================================================================
