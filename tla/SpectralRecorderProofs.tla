------------------------ MODULE SpectralRecorderProofs ------------------------
(***************************************************************************)
(* Receivers, queues and Writers of spectral mode together, for any number *)
(* of streams, ports, results and restarts.  What the sequence check does  *)
(* is taken from ReceiverProofs; here it is what becomes of a result that  *)
(* passed it.                                                              *)
(***************************************************************************)
EXTENDS SpectralRecorder, FiniteSetTheorems, TLAPS

Checked == INSTANCE ReceiverProofs

Bounded == \A s \in Streams : sender[s].nth <= MaxResults /\ sender[s].life <= MaxRestarts

\* The results in the hands of a receiver, of a queue or of a Writer.
InHands ==
  {x \in Results :
     \/ \E p \in Ports : hand[p] = x
     \/ \E w \in Writers : held[w] = x \/ \E i \in 1..Len(queue[w]) : queue[w][i] = x}

\* What a receiver has in its hand came on its port.
HandOfPort == \A p \in Ports : hand[p] # NoResult => hand[p].port = p

\* A sender has one port in each of its lives.
Linked == wire \cup {x \in Results : \E p \in Ports : hand[p] = x}

OnePortPerLife ==
  /\ \A m \in Linked :
       /\ m.life <= sender[m.stream].life
       /\ m.life = sender[m.stream].life => m.port = sender[m.stream].port
  /\ \A m, n \in Linked : m.stream = n.stream /\ m.life = n.life => m.port = n.port

\* lives tells the life of every result that is still under way, in this order.
Told(x) == x.nth \in 1..Len(lives[x.stream]) /\ lives[x.stream][x.nth] = x.life

LivesTold ==
  /\ \A s \in Streams :
       /\ Len(lives[s]) = sender[s].nth
       /\ \A i \in 1..Len(lives[s]) : lives[s][i] <= sender[s].life
  /\ \A m \in wire : Told(m)

\* A result in hand passed, is not lost and has no row; its rows of its life are earlier ones.
Unsettled(x) ==
  /\ x.nth \notin lost[x.stream]
  /\ \A i \in 1..Len(rows[x.stream]) :
       LET k == rows[x.stream][i]
       IN k # x.nth /\ (lives[x.stream][k] = x.life => k < x.nth)

Owned == \A x \in InHands : Told(x) /\ x.nth \in PassedOn(x.stream) /\ Unsettled(x)

\* x becomes a row ahead of y, unless they are of two lives.
Ahead(x, y) ==
  x.stream = y.stream => x.nth # y.nth /\ (x.life = y.life => x.nth < y.nth)

Lined ==
  /\ \A p, q \in Ports :
       p # q /\ hand[p] # NoResult /\ hand[q] # NoResult =>
         Ahead(hand[p], hand[q]) /\ (hand[p].stream = hand[q].stream => hand[p].life # hand[q].life)
  /\ \A w \in Writers :
       /\ \A i, k \in 1..Len(queue[w]) : i < k => Ahead(queue[w][i], queue[w][k])
       /\ held[w] # NoResult => \A i \in 1..Len(queue[w]) : Ahead(held[w], queue[w][i])
       /\ \A p \in Ports : hand[p] # NoResult =>
            /\ \A i \in 1..Len(queue[w]) : Ahead(queue[w][i], hand[p])
            /\ held[w] # NoResult => Ahead(held[w], hand[p])

\* Nothing that passed is forgotten, and no row stands for a result that was lost.
Settled ==
  \A s \in Streams :
    /\ PassedOn(s) \subseteq 1..Len(lives[s])
    /\ \A n \in PassedOn(s) :
         n \in Recorded(s) \cup lost[s] \/ \E x \in InHands : x.stream = s /\ x.nth = n
    /\ Recorded(s) \cup lost[s] \subseteq PassedOn(s)
    /\ Recorded(s) \cap lost[s] = {}
    /\ IsFiniteSet(Recorded(s)) /\ Cardinality(Recorded(s)) = Len(rows[s])

-----------------------------------------------------------------------------
(* What ReceiverProofs says of the reception *)

LEMMA SameReception ==
  /\ Results = Checked!Message
  /\ Reception!TypeOK <=> Checked!TypeOK
  /\ Reception!TypeOK' <=> Checked!TypeOK'
  /\ Reception!Init <=> Checked!Init
  /\ \A s, tick : Reception!Send(s, tick) <=> Checked!Send(s, tick)
  /\ \A s, port, first : Reception!Restart(s, port, first) <=> Checked!Restart(s, port, first)
  /\ \A p, m : Reception!Pass(p, m) <=> Checked!Pass(p, m)
  /\ \A p, m : Reception!Receive(p, m) <=> Checked!Receive(p, m)
<1>1. Results = Checked!Message
  BY DEF Results, Reception!Message, Checked!Message, Reception!Flaws, Checked!Flaws
<1>2. /\ Reception!TypeOK <=> Checked!TypeOK
      /\ Reception!TypeOK' <=> Checked!TypeOK'
  BY <1>1 DEF Results, Reception!TypeOK, Checked!TypeOK, Reception!SequenceState,
              Checked!SequenceState
<1>3. Reception!Init <=> Checked!Init
  BY DEF Reception!Init, Checked!Init
<1>4. ASSUME NEW s, NEW tick PROVE Reception!Send(s, tick) <=> Checked!Send(s, tick)
  BY DEF Reception!Send, Checked!Send, Reception!NextResult, Checked!NextResult
<1>5. ASSUME NEW s, NEW port, NEW first
      PROVE  Reception!Restart(s, port, first) <=> Checked!Restart(s, port, first)
  BY DEF Reception!Restart, Checked!Restart
<1>6. ASSUME NEW p, NEW m
      PROVE  /\ Reception!Pass(p, m) <=> Checked!Pass(p, m)
             /\ Reception!Receive(p, m) <=> Checked!Receive(p, m)
  <2>1. Reception!Duplicate(p, m) <=> Checked!Duplicate(p, m)
    BY DEF Reception!Duplicate, Checked!Duplicate, Reception!Known, Checked!Known,
           Reception!Gap, Checked!Gap
  <2>2. Reception!Pass(p, m) <=> Checked!Pass(p, m)
    BY <2>1 DEF Reception!Pass, Checked!Pass, Reception!Known, Checked!Known,
                Reception!Gap, Checked!Gap
  <2>3. Reception!Reject(p, m) <=> Checked!Reject(p, m)
    BY <2>1 DEF Reception!Reject, Checked!Reject
  <2>4. Reception!Refuse(p, m) <=> Checked!Refuse(p, m)
    BY DEF Reception!Refuse, Checked!Refuse, Reception!vars, Checked!vars
  <2> QED
    BY <2>2, <2>3, <2>4 DEF Reception!Receive, Checked!Receive
<1> QED
  BY <1>1, <1>2, <1>3, <1>4, <1>5, <1>6

\* Every step is one of the reception, or leaves it alone.
LEMMA ReceptionStep == [Next]_vars => [Checked!Next]_(Checked!vars)
<1> SUFFICES ASSUME [Next]_vars PROVE [Checked!Next]_(Checked!vars)
  OBVIOUS
<1>1. ASSUME NEW s \in Streams, NEW tick \in {0, 1}, Send(s, tick) PROVE Checked!Next
  BY <1>1, SameReception DEF Send, Checked!Next
<1>2. ASSUME NEW s \in Streams, NEW port \in Ports, NEW first \in FirstSeqs, Restart(s, port, first)
      PROVE  Checked!Next
  BY <1>2, SameReception DEF Restart, Checked!Next
<1>3. ASSUME NEW m \in wire, Receive(m.port, m) PROVE Checked!Next
  BY <1>3, SameReception DEF Receive, Checked!Next
<1>4. CASE UNCHANGED reception
  BY <1>4 DEF reception, Checked!vars
<1>5. ASSUME NEW p \in Ports, HandOver(p) PROVE UNCHANGED reception
  BY <1>5 DEF HandOver, Enqueue, Drop
<1>6. ASSUME NEW w \in Writers, Take(w) \/ Finish(w) PROVE UNCHANGED reception
  BY <1>6 DEF Take, Finish, WriteRow, GiveUp
<1>7. CASE UNCHANGED vars
  BY <1>4, <1>7 DEF vars
<1> QED
  BY <1>1, <1>2, <1>3, <1>4, <1>5, <1>6, <1>7 DEF Next

LEMMA CheckedInit == Init => Checked!IInv /\ Checked!OrderInv
BY SameReception, Checked!InitInv, Checked!OrderInit, SpectralAssumption DEF Init

LEMMA CheckedNext ==
  /\ Checked!IInv /\ [Next]_vars => Checked!IInv'
  /\ ~LateLink /\ Checked!IInv /\ Checked!OrderInv /\ [Next]_vars => Checked!OrderInv'
<1>1. Checked!IInv => Checked!TypeOK
  BY DEF Checked!IInv
<1> QED
  BY <1>1, ReceptionStep, Checked!NextInv, Checked!OrderNext, SpectralAssumption

LEMMA WireFacts ==
  ASSUME Checked!IInv
  PROVE  \A m \in wire : /\ m \in Results /\ m # NoResult
                         /\ m.stream \in Streams /\ m.port \in Ports
                         /\ m.nth \in Nat /\ m.life \in Nat
<1>1. Checked!TypeOK
  BY DEF Checked!IInv
<1>2. \A m \in wire : /\ m \in Checked!Message
                      /\ m.stream \in Streams /\ m.port \in Ports
                      /\ m.nth \in Nat /\ m.life \in Nat
  BY <1>1, Checked!WireFacts, SpectralAssumption
<1> QED
  BY <1>2, SameReception, SpectralAssumption DEF Results

LEMMA ResultFacts ==
  ASSUME NEW x \in Results
  PROVE  /\ x.stream \in Streams /\ x.port \in Ports /\ x.nth \in Nat /\ x.life \in Nat
         /\ x # NoResult
BY SpectralAssumption DEF Results, Reception!Message

\* A message is rejected, or it passes and is in the hand of its port's receiver.
LEMMA ReceiveCases ==
  ASSUME Checked!IInv, NEW m \in wire, Receive(m.port, m)
  PROVE  /\ hand[m.port] = NoResult
         /\ UNCHANGED <<sender, wire, lives, queue, held, rows, lost>>
         /\ \/ UNCHANGED <<passed, hand>>
            \/ /\ Checked!Pass(m.port, m)
               /\ hand' = [hand EXCEPT ![m.port] = m]
               /\ \A s \in Streams \ {m.stream} : passed'[s] = passed[s]
               /\ Len(passed[m.stream]) \in Nat
               /\ Len(passed'[m.stream]) = Len(passed[m.stream]) + 1
               /\ \A i \in 1..Len(passed[m.stream]) : passed'[m.stream][i] = passed[m.stream][i]
               /\ passed'[m.stream][Len(passed[m.stream]) + 1] = m
<1>1. Checked!TypeOK
  BY DEF Checked!IInv
<1>2. CASE Checked!Refuse(m.port, m) \/ Checked!Reject(m.port, m)
  BY <1>2 DEF Receive, Checked!Refuse, Checked!Reject, Checked!vars
<1>3. CASE Checked!Pass(m.port, m)
  <2>1. /\ \A s \in Streams \ {m.stream} : passed'[s] = passed[s]
        /\ Len(passed[m.stream]) \in Nat
        /\ Len(passed'[m.stream]) = Len(passed[m.stream]) + 1
        /\ \A i \in 1..Len(passed[m.stream]) : passed'[m.stream][i] = passed[m.stream][i]
        /\ passed'[m.stream][Len(passed[m.stream]) + 1] = m
        /\ UNCHANGED <<sender, wire, rejected>>
    BY <1>1, <1>3, Checked!PassFacts, SpectralAssumption
  <2>2. passed' # passed
    BY <2>1
  <2> QED
    BY <1>3, <2>1, <2>2 DEF Receive
<1>4. Checked!Receive(m.port, m)
  BY SameReception DEF Receive
<1> QED
  BY <1>2, <1>3, <1>4 DEF Checked!Receive

-----------------------------------------------------------------------------
(* Types *)

\* Each of the eight Writers can be picked, and no other.
LEMMA IndexOfWriter == \A s : SpectrumWriterIndex(s) \in Writers
<1>1. ASSUME NEW a, NEW b PROVE Xor3(a, b) \in 0..7
  <2> DEFINE bit(n, k) == (n \div k) % 2
             differ(k) == IF bit(a, k) = bit(b, k) THEN 0 ELSE k
  <2>1. differ(1) \in {0, 1} /\ differ(2) \in {0, 2} /\ differ(4) \in {0, 4}
    OBVIOUS
  <2>2. Xor3(a, b) = differ(1) + differ(2) + differ(4)
    BY DEF Xor3
  <2> HIDE DEF differ
  <2> QED
    BY <2>1, <2>2
<1> QED
  BY <1>1 DEF SpectrumWriterIndex, Writers, SPECTRUM_WRITER_COUNT

LEMMA BoundedInit == Init => Bounded
<1> SUFFICES ASSUME Init, NEW s \in Streams
             PROVE  sender[s].nth <= MaxResults /\ sender[s].life <= MaxRestarts
  BY DEF Bounded
<1>1. sender[s].nth = 0 /\ sender[s].life = 0
  BY DEF Init, Reception!Init
<1> QED
  BY <1>1, SpectralAssumption

LEMMA SenderKept ==
  \/ UNCHANGED vars
  \/ \E m \in wire : Checked!IInv /\ Receive(m.port, m)
  \/ \E p \in Ports : HandOver(p)
  \/ \E w \in Writers : Take(w) \/ Finish(w)
  => UNCHANGED <<sender, wire, lives>>
BY ReceiveCases DEF vars, reception, HandOver, Enqueue, Drop, Take, Finish, WriteRow, GiveUp

\* What Send does to the history of lives.
LEMMA SendFacts ==
  ASSUME Checked!IInv, NEW s \in Streams, NEW tick \in {0, 1}, Send(s, tick)
  PROVE  LET m == Checked!NextResult(s, tick)
         IN /\ m \in Results /\ m.stream = s
            /\ m.port = sender[s].port /\ m.nth = sender[s].nth + 1 /\ m.life = sender[s].life
            /\ wire' = wire \cup {m}
            /\ sender'[s].port = sender[s].port /\ sender'[s].life = sender[s].life
            /\ sender'[s].nth = sender[s].nth + 1 /\ sender'[s].nth <= MaxResults
            /\ sender[s].nth \in Nat /\ sender[s].life \in Nat
            /\ \A r \in Streams \ {s} : sender'[r] = sender[r]
            /\ lives' = [lives EXCEPT ![s] = Append(@, sender[s].life)]
            /\ UNCHANGED <<passed, hand, queue, held, rows, lost>>
<1>1. Checked!TypeOK /\ Checked!Send(s, tick)
  BY SameReception DEF Checked!IInv, Send
<1> DEFINE m == Checked!NextResult(s, tick)
<1>2. /\ m \in Checked!Message
      /\ m.nth = sender[s].nth + 1
      /\ m.stream = s
      /\ wire' = wire \cup {m}
      /\ \A r \in Streams \ {s} : sender'[r] = sender[r]
      /\ sender[s].nth \in Nat
      /\ UNCHANGED passed
  BY <1>1, Checked!SendFacts, SpectralAssumption
<1>3. /\ m.port = sender[s].port /\ m.life = sender[s].life
      /\ m.nth = sender[s].nth + 1 /\ m.nth <= MaxResults
  BY <1>1 DEF Checked!NextResult, Checked!Send
<1>4. /\ sender'[s].port = m.port /\ sender'[s].life = m.life /\ sender'[s].nth = m.nth
      /\ sender[s].life \in Nat
  BY <1>1 DEF Checked!Send, Checked!TypeOK
<1> HIDE DEF m
<1>5. /\ lives' = [lives EXCEPT ![s] = Append(@, sender[s].life)]
      /\ UNCHANGED <<hand, queue, held, rows, lost>>
  BY DEF Send
<1> QED
  BY <1>2, <1>3, <1>4, <1>5, SameReception DEF m

LEMMA RestartFacts ==
  ASSUME Checked!IInv, NEW s \in Streams, NEW port \in Ports, NEW first \in FirstSeqs,
         Restart(s, port, first)
  PROVE  /\ sender[s].life \in Nat /\ sender[s].life < MaxRestarts
         /\ sender'[s].life = sender[s].life + 1 /\ sender'[s].nth = sender[s].nth
         /\ sender'[s].port = port
         /\ \A r \in Streams \ {s} : sender'[r] = sender[r]
         /\ wire' \subseteq wire
         /\ UNCHANGED <<passed, lives, hand, queue, held, rows, lost>>
<1>1. Checked!TypeOK /\ Checked!Restart(s, port, first)
  BY SameReception DEF Checked!IInv, Restart
<1>2. /\ sender[s].life \in Nat /\ sender[s].life < MaxRestarts
      /\ sender'[s].life = sender[s].life + 1 /\ sender'[s].nth = sender[s].nth
      /\ sender'[s].port = port
      /\ \A r \in Streams \ {s} : sender'[r] = sender[r]
  BY <1>1 DEF Checked!Restart, Checked!TypeOK
<1>3. wire' \subseteq wire /\ UNCHANGED passed
  BY <1>1 DEF Checked!Restart
<1> QED
  BY <1>2, <1>3 DEF Restart

LEMMA BoundedNext == Checked!IInv /\ Bounded /\ [Next]_vars => Bounded'
<1> SUFFICES ASSUME Checked!IInv, Bounded, [Next]_vars PROVE Bounded'
  OBVIOUS
<1>1. ASSUME NEW s \in Streams, NEW tick \in {0, 1}, Send(s, tick) PROVE Bounded'
  BY <1>1, SendFacts DEF Bounded
<1>2. ASSUME NEW s \in Streams, NEW port \in Ports, NEW first \in FirstSeqs, Restart(s, port, first)
      PROVE  Bounded'
  <2>1. sender'[s].life <= MaxRestarts
    BY <1>2, RestartFacts, SpectralAssumption
  <2> QED
    BY <1>2, <2>1, RestartFacts DEF Bounded
<1>3. CASE UNCHANGED sender
  BY <1>3 DEF Bounded
<1> QED
  BY <1>1, <1>2, <1>3, SenderKept DEF Next

LEMMA TypeInit == Init => TypeOK
<1> SUFFICES ASSUME Init PROVE TypeOK
  OBVIOUS
<1>1. Reception!TypeOK
  BY CheckedInit, SameReception DEF Checked!IInv
<1> QED
  BY <1>1 DEF Init, TypeOK

LEMMA TypeNext == Checked!IInv /\ Bounded /\ TypeOK /\ [Next]_vars => TypeOK'
<1> SUFFICES ASSUME Checked!IInv, Bounded, TypeOK, [Next]_vars PROVE TypeOK'
  OBVIOUS
<1>0. Reception!TypeOK'
  BY CheckedNext, SameReception DEF Checked!IInv
<1>1. ASSUME NEW s \in Streams, NEW tick \in {0, 1}, Send(s, tick) PROVE TypeOK'
  <2>1. sender[s].life \in 0..MaxRestarts
    BY <1>1, SendFacts, SpectralAssumption DEF Bounded
  <2>2. lives' \in [Streams -> Seq(0..MaxRestarts)]
    <3>1. lives' = [lives EXCEPT ![s] = Append(@, sender[s].life)]
      BY <1>1 DEF Send
    <3>2. Append(lives[s], sender[s].life) \in Seq(0..MaxRestarts)
      BY <2>1 DEF TypeOK
    <3> QED
      BY <3>1, <3>2 DEF TypeOK
  <2> QED
    BY <1>0, <1>1, <2>2 DEF TypeOK, Send
<1>2. ASSUME NEW s \in Streams, NEW port \in Ports, NEW first \in FirstSeqs, Restart(s, port, first)
      PROVE  TypeOK'
  BY <1>0, <1>2 DEF TypeOK, Restart
<1>3. ASSUME NEW m \in wire, Receive(m.port, m) PROVE TypeOK'
  <2>1. m \in Results /\ m.port \in Ports
    BY WireFacts
  <2>2. hand' \in [Ports -> Results \cup {NoResult}]
    BY <1>3, <2>1 DEF Receive, TypeOK
  <2> QED
    BY <1>0, <1>3, <2>2 DEF TypeOK, Receive
<1>4. ASSUME NEW p \in Ports, Enqueue(p) PROVE TypeOK'
  <2> DEFINE m == hand[p]
             v == WriterOf(m)
  <2>1. m \in Results /\ v \in Writers /\ v = SpectrumWriterIndex(m.stream)
    BY <1>4, IndexOfWriter DEF TypeOK, Enqueue, WriterOf
  <2>2. /\ queue' = [queue EXCEPT ![v] = Append(@, m)]
        /\ hand' = [hand EXCEPT ![p] = NoResult]
        /\ UNCHANGED <<lives, held, rows, lost>>
    BY <1>4 DEF Enqueue
  <2> HIDE DEF m, v
  <2>3. queue' \in [Writers -> Seq(Results)] /\ hand' \in [Ports -> Results \cup {NoResult}]
    BY <2>1, <2>2 DEF TypeOK
  <2>4. ASSUME NEW w \in Writers, NEW i \in 1..Len(queue'[w])
        PROVE  SpectrumWriterIndex(queue'[w][i].stream) = w
    <3>1. queue[w] \in Seq(Results)
      BY DEF TypeOK
    <3>2. CASE w # v
      BY <2>2, <2>4, <3>2 DEF TypeOK
    <3>3. CASE w = v
      <4>1. queue'[w] = Append(queue[w], m)
        BY <2>2, <3>3 DEF TypeOK
      <4>2. i \in 1..Len(queue[w]) \/ queue'[w][i] = m
        BY <2>4, <3>1, <4>1
      <4>3. i \in 1..Len(queue[w]) => queue'[w][i] = queue[w][i]
        BY <3>1, <4>1
      <4> QED
        BY <2>1, <3>3, <4>2, <4>3 DEF TypeOK
    <3> QED
      BY <3>2, <3>3
  <2> QED
    BY <1>0, <2>2, <2>3, <2>4 DEF TypeOK
<1>5. ASSUME NEW p \in Ports, Drop(p) PROVE TypeOK'
  <2>1. hand[p] \in Results
    BY <1>5 DEF TypeOK, Drop
  <2>2. hand[p].stream \in Streams /\ hand[p].nth \in Nat
    BY <2>1, ResultFacts
  <2>3. lost' \in [Streams -> SUBSET Nat]
    BY <1>5, <2>2 DEF TypeOK, Drop
  <2> QED
    BY <1>0, <1>5, <2>3 DEF TypeOK, Drop
<1>6. ASSUME NEW w \in Writers, Take(w) PROVE TypeOK'
  <2>1. /\ queue[w] \in Seq(Results) /\ queue[w] # <<>>
        /\ queue' = [queue EXCEPT ![w] = Tail(@)] /\ held' = [held EXCEPT ![w] = Head(queue[w])]
        /\ UNCHANGED <<lives, hand, rows, lost>>
    BY <1>6 DEF TypeOK, Take
  <2>2. /\ Head(queue[w]) \in Results /\ Head(queue[w]) = queue[w][1] /\ 1 \in 1..Len(queue[w])
        /\ Tail(queue[w]) \in Seq(Results)
        /\ \A i \in 1..Len(Tail(queue[w])) :
             i + 1 \in 1..Len(queue[w]) /\ Tail(queue[w])[i] = queue[w][i+1]
    BY <2>1
  <2>3. /\ queue' \in [Writers -> Seq(Results)]
        /\ held' \in [Writers -> Results \cup {NoResult}]
    BY <2>1, <2>2 DEF TypeOK
  <2>4. /\ queue'[w] = Tail(queue[w]) /\ held'[w] = queue[w][1]
        /\ \A v \in Writers \ {w} : queue'[v] = queue[v] /\ held'[v] = held[v]
    BY <2>1, <2>2 DEF TypeOK
  <2>5. ASSUME NEW v \in Writers
        PROVE  /\ \A i \in 1..Len(queue'[v]) : SpectrumWriterIndex(queue'[v][i].stream) = v
               /\ held'[v] # NoResult => SpectrumWriterIndex(held'[v].stream) = v
    <3>1. CASE v = w
      <4>1. \A i \in 1..Len(queue[w]) : SpectrumWriterIndex(queue[w][i].stream) = w
        BY DEF TypeOK
      <4>2. ASSUME NEW i \in 1..Len(queue'[w]) PROVE SpectrumWriterIndex(queue'[w][i].stream) = w
        <5>1. queue'[w][i] = queue[w][i+1] /\ i + 1 \in 1..Len(queue[w])
          BY <2>2, <2>4
        <5> QED
          BY <4>1, <5>1
      <4>3. SpectrumWriterIndex(held'[w].stream) = w
        BY <2>2, <2>4, <4>1
      <4> QED
        BY <3>1, <4>2, <4>3
    <3>2. CASE v # w
      BY <2>4, <3>2 DEF TypeOK
    <3> QED
      BY <3>1, <3>2
  <2> QED
    BY <1>0, <2>1, <2>3, <2>5 DEF TypeOK
<1>7. ASSUME NEW w \in Writers, WriteRow(w) \/ GiveUp(w) PROVE TypeOK'
  <2>1. held[w] \in Results /\ held' = [held EXCEPT ![w] = NoResult]
    BY <1>7 DEF TypeOK, WriteRow, GiveUp
  <2>2. held[w].stream \in Streams /\ held[w].nth \in Nat
    BY <2>1, ResultFacts
  <2>3. rows' \in [Streams -> Seq(Nat)] /\ lost' \in [Streams -> SUBSET Nat]
    <3>1. rows \in [Streams -> Seq(Nat)] /\ lost \in [Streams -> SUBSET Nat]
      BY DEF TypeOK
    <3>2. Append(rows[held[w].stream], held[w].nth) \in Seq(Nat)
      BY <2>2, <3>1
    <3>3. CASE WriteRow(w)
      BY <2>2, <3>1, <3>2, <3>3 DEF WriteRow
    <3>4. CASE GiveUp(w)
      BY <2>2, <3>1, <3>4 DEF GiveUp
    <3> QED
      BY <1>7, <3>3, <3>4
  <2> QED
    BY <1>0, <1>7, <2>1, <2>3 DEF TypeOK, WriteRow, GiveUp
<1>8. CASE UNCHANGED vars
  BY <1>0, <1>8 DEF TypeOK, vars
<1> QED
  BY <1>1, <1>2, <1>3, <1>4, <1>5, <1>6, <1>7, <1>8 DEF Next, HandOver, Finish

-----------------------------------------------------------------------------
(* What each step does to the results in hand *)

LEMMA HandFacts ==
  ASSUME TypeOK
  PROVE  /\ \A p \in Ports : hand[p] # NoResult => hand[p] \in Results /\ hand[p] \in InHands
         /\ \A w \in Writers :
              /\ held[w] # NoResult => held[w] \in Results /\ held[w] \in InHands
              /\ queue[w] \in Seq(Results) /\ Len(queue[w]) \in Nat
              /\ \A i \in 1..Len(queue[w]) : queue[w][i] \in Results /\ queue[w][i] \in InHands
         /\ \A x \in InHands : x \in Results /\ x.stream \in Streams /\ x.nth \in Nat /\ x.life \in Nat
<1>1. \A p \in Ports : hand[p] # NoResult => hand[p] \in Results
  BY DEF TypeOK
<1>2. ASSUME NEW w \in Writers
      PROVE  /\ held[w] # NoResult => held[w] \in Results
             /\ queue[w] \in Seq(Results) /\ Len(queue[w]) \in Nat
             /\ \A i \in 1..Len(queue[w]) : queue[w][i] \in Results
  <2>1. queue[w] \in Seq(Results)
    BY DEF TypeOK
  <2> QED
    BY <2>1 DEF TypeOK
<1>3. \A x \in InHands : x \in Results
  BY DEF InHands
<1> QED
  BY <1>1, <1>2, <1>3, ResultFacts DEF InHands

LEMMA PassFacts ==
  ASSUME TypeOK, NEW m \in Results, hand[m.port] = NoResult,
         hand' = [hand EXCEPT ![m.port] = m], UNCHANGED <<queue, held>>
  PROVE  /\ hand'[m.port] = m
         /\ \A q \in Ports \ {m.port} : hand'[q] = hand[q]
         /\ InHands' = InHands \cup {m}
<1>1. m.port \in Ports /\ m # NoResult /\ \A x \in InHands : x # NoResult
  BY ResultFacts DEF InHands
<1>2. hand'[m.port] = m /\ \A q \in Ports \ {m.port} : hand'[q] = hand[q]
  BY <1>1 DEF TypeOK
<1>3. \A x \in Results :
        (\E p \in Ports : hand'[p] = x) <=> x = m \/ \E p \in Ports : hand[p] = x
  BY <1>1, <1>2, ResultFacts
<1> QED
  BY <1>2, <1>3 DEF InHands

LEMMA EnqueueFacts ==
  ASSUME TypeOK, NEW p \in Ports, Enqueue(p), NEW m, m = hand[p], NEW v, v = WriterOf(m)
  PROVE  /\ m \in Results /\ v \in Writers /\ v = SpectrumWriterIndex(m.stream)
         /\ hand'[p] = NoResult /\ \A q \in Ports \ {p} : hand'[q] = hand[q]
         /\ Len(queue[v]) \in Nat /\ Len(queue'[v]) = Len(queue[v]) + 1
         /\ \A i \in 1..Len(queue[v]) : queue'[v][i] = queue[v][i]
         /\ queue'[v][Len(queue[v]) + 1] = m
         /\ \A w \in Writers \ {v} : queue'[w] = queue[w]
         /\ UNCHANGED <<sender, wire, passed, lives, held, rows, lost>>
<1>1. m \in Results /\ v \in Writers /\ v = SpectrumWriterIndex(m.stream)
  BY IndexOfWriter DEF TypeOK, Enqueue, WriterOf
<1>2. /\ queue' = [queue EXCEPT ![v] = Append(queue[v], m)]
      /\ hand' = [hand EXCEPT ![p] = NoResult]
      /\ UNCHANGED <<sender, wire, passed, lives, held, rows, lost>>
  BY DEF Enqueue, reception
<1>3. queue[v] \in Seq(Results)
  BY <1>1 DEF TypeOK
<1>4. queue'[v] = Append(queue[v], m) /\ \A w \in Writers \ {v} : queue'[w] = queue[w]
  BY <1>1, <1>2 DEF TypeOK
<1>5. hand'[p] = NoResult /\ \A q \in Ports \ {p} : hand'[q] = hand[q]
  BY <1>2 DEF TypeOK
<1> QED
  BY <1>1, <1>2, <1>3, <1>4, <1>5

LEMMA EnqueueHands ==
  ASSUME TypeOK, TypeOK', NEW p \in Ports, Enqueue(p)
  PROVE  InHands' = InHands
<1>0. PICK m, v : m = hand[p] /\ v = WriterOf(m)
  OBVIOUS
<1>1. /\ m \in Results /\ v \in Writers
      /\ hand'[p] = NoResult /\ \A q \in Ports \ {p} : hand'[q] = hand[q]
      /\ Len(queue[v]) \in Nat /\ Len(queue'[v]) = Len(queue[v]) + 1
      /\ \A i \in 1..Len(queue[v]) : queue'[v][i] = queue[v][i]
      /\ queue'[v][Len(queue[v]) + 1] = m
      /\ \A w \in Writers \ {v} : queue'[w] = queue[w]
      /\ held' = held
  BY <1>0, EnqueueFacts
<1>2. ASSUME NEW x \in InHands PROVE x \in InHands'
  <2>1. CASE x = m
    BY <1>1, <2>1 DEF InHands
  <2>2. CASE x # m /\ \E q \in Ports : hand[q] = x
    BY <1>0, <1>1, <2>2 DEF InHands
  <2>3. ASSUME NEW w \in Writers, held[w] = x \/ \E i \in 1..Len(queue[w]) : queue[w][i] = x
        PROVE  x \in InHands'
    <3>1. held'[w] = x \/ \E i \in 1..Len(queue'[w]) : queue'[w][i] = x
      BY <1>1, <2>3
    <3> QED
      BY <3>1 DEF InHands
  <2> QED
    BY <2>1, <2>2, <2>3 DEF InHands
<1>3. ASSUME NEW x \in InHands' PROVE x \in InHands
  <2>0. x \in Results /\ x # NoResult
    BY ResultFacts DEF InHands
  <2>1. CASE \E q \in Ports : hand'[q] = x
    BY <1>1, <2>0, <2>1 DEF InHands
  <2>2. ASSUME NEW w \in Writers, held'[w] = x \/ \E i \in 1..Len(queue'[w]) : queue'[w][i] = x
        PROVE  x \in InHands
    <3>1. x = m \/ held[w] = x \/ \E i \in 1..Len(queue[w]) : queue[w][i] = x
      BY <1>1, <2>2
    <3> QED
      BY <1>0, <2>0, <3>1 DEF InHands
  <2> QED
    BY <2>1, <2>2 DEF InHands
<1> QED
  BY <1>2, <1>3

LEMMA TakeFacts ==
  ASSUME TypeOK, NEW w \in Writers, Take(w)
  PROVE  /\ held[w] = NoResult /\ 1 \in 1..Len(queue[w])
         /\ queue[w][1] \in Results /\ held'[w] = queue[w][1]
         /\ Len(queue[w]) \in Nat /\ Len(queue'[w]) = Len(queue[w]) - 1
         /\ \A i \in 1..Len(queue'[w]) :
              i + 1 \in 1..Len(queue[w]) /\ queue'[w][i] = queue[w][i+1]
         /\ \A v \in Writers \ {w} : queue'[v] = queue[v] /\ held'[v] = held[v]
         /\ UNCHANGED <<sender, wire, passed, lives, hand, rows, lost>>
<1>1. /\ queue[w] \in Seq(Results) /\ queue[w] # <<>> /\ held[w] = NoResult
      /\ queue' = [queue EXCEPT ![w] = Tail(@)] /\ held' = [held EXCEPT ![w] = Head(queue[w])]
      /\ UNCHANGED <<sender, wire, passed, lives, hand, rows, lost>>
  BY DEF TypeOK, Take, reception
<1>2. /\ Head(queue[w]) = queue[w][1] /\ 1 \in 1..Len(queue[w]) /\ queue[w][1] \in Results
      /\ Len(queue[w]) \in Nat /\ Len(Tail(queue[w])) = Len(queue[w]) - 1
      /\ \A i \in 1..Len(Tail(queue[w])) :
           i + 1 \in 1..Len(queue[w]) /\ Tail(queue[w])[i] = queue[w][i+1]
  BY <1>1
<1>3. /\ queue'[w] = Tail(queue[w]) /\ held'[w] = Head(queue[w])
      /\ \A v \in Writers \ {w} : queue'[v] = queue[v] /\ held'[v] = held[v]
  BY <1>1 DEF TypeOK
<1> QED
  BY <1>1, <1>2, <1>3

LEMMA TakeHands ==
  ASSUME TypeOK, NEW w \in Writers, Take(w)
  PROVE  InHands' = InHands
<1>1. /\ held[w] = NoResult /\ 1 \in 1..Len(queue[w])
      /\ held'[w] = queue[w][1]
      /\ Len(queue[w]) \in Nat /\ Len(queue'[w]) = Len(queue[w]) - 1
      /\ \A i \in 1..Len(queue'[w]) :
           i + 1 \in 1..Len(queue[w]) /\ queue'[w][i] = queue[w][i+1]
      /\ \A v \in Writers \ {w} : queue'[v] = queue[v] /\ held'[v] = held[v]
      /\ hand' = hand
  BY TakeFacts
<1>2. ASSUME NEW x \in Results, NEW v \in Writers
      PROVE  (held[v] = x \/ \E i \in 1..Len(queue[v]) : queue[v][i] = x)
             <=> (held'[v] = x \/ \E i \in 1..Len(queue'[v]) : queue'[v][i] = x)
  <2>1. CASE v # w
    BY <1>1, <2>1
  <2>2. CASE v = w
    <3>1. ASSUME NEW i \in 1..Len(queue[w]), queue[w][i] = x, i # 1
          PROVE  i - 1 \in 1..Len(queue'[w]) /\ queue'[w][i-1] = x
      <4>1. i - 1 \in 1..Len(queue'[w]) /\ (i - 1) + 1 = i
        BY <1>1, <3>1
      <4> QED
        BY <1>1, <3>1, <4>1
    <3>2. x # NoResult
      BY ResultFacts
    <3> QED
      BY <1>1, <2>2, <3>1, <3>2, ZenonT(30)
  <2> QED
    BY <2>1, <2>2
<1> QED
  BY <1>1, <1>2 DEF InHands

\* y, and no other result of this number, has left the hands.
Left(y) ==
  /\ y \in InHands
  /\ InHands \subseteq InHands' \cup {y} /\ InHands' \subseteq InHands
  /\ \A x \in InHands' : x.stream = y.stream => x.nth # y.nth

LEMMA DropHands ==
  ASSUME TypeOK, Lined, NEW p \in Ports, Drop(p), NEW y, y = hand[p]
  PROVE  /\ Left(y) /\ y \in Results
         /\ hand'[p] = NoResult /\ \A q \in Ports \ {p} : hand'[q] = hand[q]
         /\ lost' = [lost EXCEPT ![y.stream] = @ \cup {y.nth}]
         /\ UNCHANGED <<sender, wire, passed, lives, queue, held, rows>>
<1>1. /\ y \in Results /\ y # NoResult /\ y \in InHands
      /\ hand'[p] = NoResult /\ \A q \in Ports \ {p} : hand'[q] = hand[q]
      /\ lost' = [lost EXCEPT ![y.stream] = @ \cup {y.nth}]
      /\ UNCHANGED <<sender, wire, passed, lives, queue, held, rows>>
  BY HandFacts DEF Drop, reception, TypeOK
<1>2. InHands \subseteq InHands' \cup {y}
  BY <1>1 DEF InHands
<1>3. ASSUME NEW x \in InHands'
      PROVE  x \in InHands /\ (x.stream = y.stream => x.nth # y.nth)
  <2>0. x \in Results /\ x # NoResult
    BY ResultFacts DEF InHands
  <2>1. ASSUME NEW q \in Ports, hand'[q] = x
        PROVE  x \in InHands /\ (x.stream = y.stream => x.nth # y.nth)
    <3>1. q # p /\ hand[q] = x
      BY <1>1, <2>0, <2>1
    <3> QED
      BY <1>1, <2>0, <3>1 DEF InHands, Lined, Ahead
  <2>2. ASSUME NEW w \in Writers, held[w] = x \/ \E i \in 1..Len(queue[w]) : queue[w][i] = x
        PROVE  x \in InHands /\ (x.stream = y.stream => x.nth # y.nth)
    <3>1. x \in InHands
      BY <2>0, <2>2 DEF InHands
    <3>2. Ahead(x, y)
      BY <1>1, <2>0, <2>2 DEF Lined
    <3> QED
      BY <3>1, <3>2 DEF Ahead
  <2> QED
    BY <1>1, <2>1, <2>2 DEF InHands
<1> QED
  BY <1>1, <1>2, <1>3 DEF Left

LEMMA FinishHands ==
  ASSUME TypeOK, Lined, NEW w \in Writers, Finish(w), NEW y, y = held[w]
  PROVE  /\ Left(y) /\ y \in Results
         /\ \A x \in InHands' : Ahead(y, x)
         /\ held'[w] = NoResult /\ \A v \in Writers \ {w} : held'[v] = held[v]
         /\ UNCHANGED <<sender, wire, passed, lives, hand, queue>>
         /\ \/ rows' = [rows EXCEPT ![y.stream] = Append(@, y.nth)] /\ lost' = lost
            \/ lost' = [lost EXCEPT ![y.stream] = @ \cup {y.nth}] /\ rows' = rows
<1>1. /\ y \in Results /\ y # NoResult /\ y \in InHands
      /\ held'[w] = NoResult /\ \A v \in Writers \ {w} : held'[v] = held[v]
      /\ UNCHANGED <<sender, wire, passed, lives, hand, queue>>
      /\ \/ rows' = [rows EXCEPT ![y.stream] = Append(@, y.nth)] /\ lost' = lost
         \/ lost' = [lost EXCEPT ![y.stream] = @ \cup {y.nth}] /\ rows' = rows
  BY HandFacts DEF Finish, WriteRow, GiveUp, reception, TypeOK
<1>2. InHands \subseteq InHands' \cup {y}
  BY <1>1 DEF InHands
<1>3. ASSUME NEW x \in InHands' PROVE x \in InHands /\ Ahead(y, x)
  <2>0. x \in Results /\ x # NoResult
    BY ResultFacts DEF InHands
  <2>1. ASSUME NEW q \in Ports, hand[q] = x PROVE x \in InHands /\ Ahead(y, x)
    BY <1>1, <2>0, <2>1 DEF InHands, Lined
  <2>2. ASSUME NEW v \in Writers, held'[v] = x \/ \E i \in 1..Len(queue[v]) : queue[v][i] = x
        PROVE  x \in InHands /\ Ahead(y, x)
    <3>1. held[v] = x \/ \E i \in 1..Len(queue[v]) : queue[v][i] = x
      BY <1>1, <2>0, <2>2
    <3>2. x \in InHands
      BY <2>0, <3>1 DEF InHands
    <3>3. CASE v # w
      <4>1. SpectrumWriterIndex(x.stream) = v /\ SpectrumWriterIndex(y.stream) = w
        BY <1>1, <2>0, <3>1 DEF TypeOK
      <4> QED
        BY <3>2, <3>3, <4>1 DEF Ahead
    <3>4. CASE v = w
      BY <1>1, <2>0, <2>2, <3>2, <3>4 DEF Lined
    <3> QED
      BY <3>3, <3>4
  <2> QED
    BY <1>1, <2>1, <2>2 DEF InHands
<1> QED
  BY <1>1, <1>2, <1>3 DEF Left, Ahead

-----------------------------------------------------------------------------
(* The invariant and its beginning *)

Types == Checked!IInv /\ Bounded /\ TypeOK

IInv ==
  /\ Types /\ Checked!OrderInv
  /\ HandOfPort /\ OnePortPerLife /\ LivesTold /\ Owned /\ Lined /\ Settled

LEMMA FateInit == Init => IInv
<1> SUFFICES ASSUME Init PROVE IInv
  OBVIOUS
<1>1. Types /\ Checked!OrderInv
  BY CheckedInit, BoundedInit, TypeInit DEF Types
<1>2. /\ wire = {} /\ \A s \in Streams : sender[s].nth = 0 /\ passed[s] = <<>>
      /\ \A p \in Ports : hand[p] = NoResult
      /\ \A w \in Writers : held[w] = NoResult /\ queue[w] = <<>>
      /\ \A s \in Streams : lives[s] = <<>> /\ rows[s] = <<>> /\ lost[s] = {}
  BY DEF Init, Reception!Init
<1>3. InHands = {} /\ Linked = {}
  BY <1>2, ResultFacts DEF InHands, Linked
<1>4. HandOfPort /\ OnePortPerLife /\ LivesTold /\ Owned /\ Lined
  BY <1>2, <1>3 DEF HandOfPort, OnePortPerLife, LivesTold, Owned, Lined
<1>5. Settled
  <2>1. \A s \in Streams : PassedOn(s) = {} /\ Recorded(s) = {} /\ lost[s] = {} /\ Len(rows[s]) = 0
    BY <1>2 DEF PassedOn, Recorded
  <2>2. IsFiniteSet({}) /\ Cardinality({}) = 0
    BY FS_EmptySet
  <2> QED
    BY <2>1, <2>2 DEF Settled
<1> QED
  BY <1>1, <1>4, <1>5 DEF IInv

-----------------------------------------------------------------------------
(* Ports and lives *)

LEMMA HandOfPortNext == Types /\ HandOfPort /\ [Next]_vars => HandOfPort'
<1> SUFFICES ASSUME Types, HandOfPort, [Next]_vars PROVE HandOfPort'
  OBVIOUS
<1>0. TypeOK /\ Checked!IInv
  BY DEF Types
<1>1. ASSUME NEW m \in wire, Receive(m.port, m) PROVE HandOfPort'
  BY <1>0, <1>1 DEF Receive, HandOfPort, TypeOK
<1>2. ASSUME NEW p \in Ports, HandOver(p) PROVE HandOfPort'
  <2>1. hand' = [hand EXCEPT ![p] = NoResult]
    BY <1>2 DEF HandOver, Enqueue, Drop
  <2> QED
    BY <1>0, <2>1 DEF HandOfPort, TypeOK
<1>3. CASE UNCHANGED hand
  BY <1>3 DEF HandOfPort
<1>4. ASSUME \/ \E s \in Streams, tick \in {0, 1} : Send(s, tick)
             \/ \E s \in Streams, port \in Ports, first \in FirstSeqs : Restart(s, port, first)
             \/ \E w \in Writers : Take(w) \/ Finish(w)
             \/ UNCHANGED vars
      PROVE  UNCHANGED hand
  BY <1>4 DEF Send, Restart, Take, Finish, WriteRow, GiveUp, vars
<1> QED
  BY <1>1, <1>2, <1>3, <1>4 DEF Next

LEMMA LinkedFacts ==
  ASSUME Types
  PROVE  \A m \in Linked : m \in Results /\ m.stream \in Streams /\ m.life \in Nat
BY WireFacts, ResultFacts DEF Types, Linked

\* Only what is sent joins the links, and what is received was on the wire.
LEMMA LinkedKept ==
  ASSUME Types,
         \/ \E m \in wire : Receive(m.port, m)
         \/ \E p \in Ports : HandOver(p)
         \/ \E w \in Writers : Take(w) \/ Finish(w)
         \/ UNCHANGED vars
  PROVE  Linked' \subseteq Linked /\ sender' = sender /\ wire' = wire /\ lives' = lives
<1>0. TypeOK /\ Checked!IInv
  BY DEF Types
<1>1. UNCHANGED <<sender, wire, lives>>
  BY <1>0, SenderKept
<1>2. ASSUME NEW m \in wire, Receive(m.port, m) PROVE Linked' \subseteq Linked
  <2>1. m \in Results /\ m.port \in Ports
    BY <1>0, WireFacts
  <2>2. \A p \in Ports : hand'[p] = hand[p] \/ hand'[p] = m
    BY <1>0, <1>2, <2>1 DEF Receive, TypeOK
  <2> QED
    BY <1>1, <2>2 DEF Linked
<1>3. ASSUME NEW p \in Ports, HandOver(p) PROVE Linked' \subseteq Linked
  <2>1. hand' = [hand EXCEPT ![p] = NoResult]
    BY <1>3 DEF HandOver, Enqueue, Drop
  <2>2. \A q \in Ports : hand'[q] = hand[q] \/ hand'[q] = NoResult
    BY <1>0, <2>1 DEF TypeOK
  <2> QED
    BY <1>1, <2>2, ResultFacts DEF Linked
<1>4. CASE UNCHANGED hand
  BY <1>1, <1>4 DEF Linked
<1>5. ASSUME (\E w \in Writers : Take(w) \/ Finish(w)) \/ UNCHANGED vars PROVE UNCHANGED hand
  BY <1>5 DEF Take, Finish, WriteRow, GiveUp, vars
<1> QED
  BY <1>1, <1>2, <1>3, <1>4, <1>5

LEMMA OnePortPerLifeNext == Types /\ OnePortPerLife /\ [Next]_vars => OnePortPerLife'
<1> SUFFICES ASSUME Types, OnePortPerLife, [Next]_vars PROVE OnePortPerLife'
  OBVIOUS
<1>0. TypeOK /\ Checked!IInv
  BY DEF Types
<1>1. ASSUME NEW s \in Streams, NEW tick \in {0, 1}, Send(s, tick) PROVE OnePortPerLife'
  <2> DEFINE m == Checked!NextResult(s, tick)
  <2>1. /\ m \in Results /\ m.stream = s
        /\ m.port = sender[s].port /\ m.life = sender[s].life
        /\ wire' = wire \cup {m}
        /\ sender'[s].port = sender[s].port /\ sender'[s].life = sender[s].life
        /\ sender[s].life \in Nat
        /\ \A r \in Streams \ {s} : sender'[r] = sender[r]
        /\ hand' = hand
    BY <1>0, <1>1, SendFacts
  <2> HIDE DEF m
  <2>2. Linked' = Linked \cup {m}
    BY <2>1 DEF Linked
  <2>3. \A n \in Linked : n.stream \in Streams
    BY LinkedFacts
  <2>4. \A n \in Linked' : /\ n.life <= sender'[n.stream].life
                           /\ n.life = sender'[n.stream].life => n.port = sender'[n.stream].port
    BY <2>1, <2>2, <2>3 DEF OnePortPerLife
  <2>5. \A n, o \in Linked' : n.stream = o.stream /\ n.life = o.life => n.port = o.port
    BY <2>1, <2>2, <2>3 DEF OnePortPerLife
  <2> QED
    BY <2>4, <2>5 DEF OnePortPerLife
<1>2. ASSUME NEW s \in Streams, NEW port \in Ports, NEW first \in FirstSeqs, Restart(s, port, first)
      PROVE  OnePortPerLife'
  <2>1. /\ sender[s].life \in Nat /\ sender'[s].life = sender[s].life + 1
        /\ \A r \in Streams \ {s} : sender'[r] = sender[r]
        /\ wire' \subseteq wire /\ hand' = hand
    BY <1>0, <1>2, RestartFacts
  <2>2. Linked' \subseteq Linked
    BY <2>1 DEF Linked
  <2>3. \A n \in Linked : n.stream \in Streams /\ n.life \in Nat
    BY LinkedFacts
  <2>4. \A n \in Linked' : /\ n.life <= sender'[n.stream].life
                           /\ n.life = sender'[n.stream].life => n.port = sender'[n.stream].port
    BY <2>1, <2>2, <2>3 DEF OnePortPerLife
  <2> QED
    BY <2>2, <2>4 DEF OnePortPerLife
<1>3. ASSUME Linked' \subseteq Linked, sender' = sender PROVE OnePortPerLife'
  BY <1>3 DEF OnePortPerLife
<1> QED
  BY <1>1, <1>2, <1>3, LinkedKept DEF Next

LEMMA LivesToldNext == Types /\ LivesTold /\ [Next]_vars => LivesTold'
<1> SUFFICES ASSUME Types, LivesTold, [Next]_vars PROVE LivesTold'
  OBVIOUS
<1>0. TypeOK /\ Checked!IInv
  BY DEF Types
<1>1. ASSUME NEW s \in Streams, NEW tick \in {0, 1}, Send(s, tick) PROVE LivesTold'
  <2> DEFINE m == Checked!NextResult(s, tick)
  <2>1. /\ m.stream = s /\ m.nth = sender[s].nth + 1 /\ m.life = sender[s].life
        /\ wire' = wire \cup {m}
        /\ sender'[s].life = sender[s].life /\ sender'[s].nth = sender[s].nth + 1
        /\ sender[s].nth \in Nat /\ sender[s].life \in Nat
        /\ \A r \in Streams \ {s} : sender'[r] = sender[r]
        /\ lives' = [lives EXCEPT ![s] = Append(@, sender[s].life)]
    BY <1>0, <1>1, SendFacts
  <2> HIDE DEF m
  <2>2. /\ lives[s] \in Seq(0..MaxRestarts) /\ Len(lives[s]) = sender[s].nth
        /\ lives'[s] = Append(lives[s], sender[s].life)
        /\ \A r \in Streams \ {s} : lives'[r] = lives[r]
    BY <1>0, <2>1 DEF TypeOK, LivesTold
  <2>3. /\ Len(lives'[s]) = sender'[s].nth
        /\ \A i \in 1..Len(lives[s]) : i \in 1..Len(lives'[s]) /\ lives'[s][i] = lives[s][i]
        /\ lives'[s][m.nth] = m.life /\ m.nth \in 1..Len(lives'[s])
        /\ \A i \in 1..Len(lives'[s]) : i \in 1..Len(lives[s]) \/ i = m.nth
    BY <2>1, <2>2
  <2>4. ASSUME NEW r \in Streams
        PROVE  /\ Len(lives'[r]) = sender'[r].nth
               /\ \A i \in 1..Len(lives'[r]) : lives'[r][i] <= sender'[r].life
    BY <2>1, <2>2, <2>3 DEF LivesTold
  <2>5. ASSUME NEW n \in wire' PROVE Told(n)'
    <3>1. n = m \/ (n \in wire /\ n.stream \in Streams)
      BY <1>0, <2>1, WireFacts
    <3> QED
      BY <2>1, <2>2, <2>3, <3>1 DEF LivesTold, Told
  <2> QED
    BY <2>4, <2>5 DEF LivesTold
<1>2. ASSUME NEW s \in Streams, NEW port \in Ports, NEW first \in FirstSeqs, Restart(s, port, first)
      PROVE  LivesTold'
  <2>1. /\ sender[s].life \in Nat /\ sender'[s].life = sender[s].life + 1
        /\ sender'[s].nth = sender[s].nth
        /\ \A r \in Streams \ {s} : sender'[r] = sender[r]
        /\ wire' \subseteq wire /\ lives' = lives
    BY <1>0, <1>2, RestartFacts
  <2>2. lives[s] \in Seq(0..MaxRestarts)
    BY <1>0 DEF TypeOK
  <2>3. \A i \in 1..Len(lives[s]) : lives[s][i] \in Int /\ lives[s][i] <= sender'[s].life
    <3>1. \A i \in 1..Len(lives[s]) : lives[s][i] \in 0..MaxRestarts
      <4> DEFINE Lives == 0..MaxRestarts
      <4>1. lives[s] \in Seq(Lives)
        BY <2>2
      <4> HIDE DEF Lives
      <4>2. \A i \in 1..Len(lives[s]) : lives[s][i] \in Lives
        BY <4>1
      <4> QED
        BY <4>2 DEF Lives
    <3> QED
      BY <2>1, <3>1, SpectralAssumption DEF LivesTold
  <2> QED
    BY <2>1, <2>3 DEF LivesTold, Told
<1>3. ASSUME UNCHANGED <<sender, wire, lives>> PROVE LivesTold'
  BY <1>3 DEF LivesTold, Told
<1> QED
  BY <1>1, <1>2, <1>3, LinkedKept DEF Next

-----------------------------------------------------------------------------
(* The order in hand, and what becomes of each result *)

\* A result that passes is sent later than all before it, and no receiver has
\* another of its life in hand.
LEMMA PassNews ==
  ASSUME IInv, NEW m \in wire, Receive(m.port, m), Checked!Pass(m.port, m)
  PROVE  /\ m \in Results /\ m.stream \in Streams /\ m.port \in Ports /\ m.nth \in Nat
         /\ hand[m.port] = NoResult /\ hand'[m.port] = m
         /\ \A q \in Ports \ {m.port} : hand'[q] = hand[q]
         /\ InHands' = InHands \cup {m}
         /\ UNCHANGED <<lives, queue, held, rows, lost>>
         /\ \A n \in PassedOn(m.stream) : n < m.nth
         /\ PassedOn(m.stream)' = PassedOn(m.stream) \cup {m.nth}
         /\ \A s \in Streams \ {m.stream} : PassedOn(s)' = PassedOn(s)
         /\ \A x \in InHands : x.stream = m.stream => x.nth < m.nth
         /\ \A q \in Ports : hand[q] # NoResult /\ hand[q].stream = m.stream => hand[q].life # m.life
<1>0. TypeOK /\ Checked!IInv /\ Checked!TypeOK /\ Checked!OrderInv
  BY DEF IInv, Types, Checked!IInv
<1>1. m \in Results /\ m.stream \in Streams /\ m.port \in Ports /\ m.nth \in Nat
  BY <1>0, WireFacts
<1>2. /\ hand[m.port] = NoResult
      /\ UNCHANGED <<lives, queue, held, rows, lost>>
      /\ hand' = [hand EXCEPT ![m.port] = m]
      /\ \A s \in Streams \ {m.stream} : passed'[s] = passed[s]
      /\ Len(passed[m.stream]) \in Nat
      /\ Len(passed'[m.stream]) = Len(passed[m.stream]) + 1
      /\ \A i \in 1..Len(passed[m.stream]) : passed'[m.stream][i] = passed[m.stream][i]
      /\ passed'[m.stream][Len(passed[m.stream]) + 1] = m
  <2>1. /\ Len(passed[m.stream]) \in Nat
        /\ Len(passed'[m.stream]) = Len(passed[m.stream]) + 1
    BY <1>0, Checked!PassFacts, SpectralAssumption
  <2>2. passed' # passed
    BY <2>1
  <2> QED
    BY <1>0, <2>2, ReceiveCases
<1>3. /\ hand'[m.port] = m
      /\ \A q \in Ports \ {m.port} : hand'[q] = hand[q]
      /\ InHands' = InHands \cup {m}
  BY <1>0, <1>1, <1>2, PassFacts
<1>4. \A n \in PassedOn(m.stream) : n < m.nth
  <2>1. Checked!Fresh(m)
    BY <1>0, Checked!PassIsFresh, SpectralAssumption
  <2> QED
    BY <2>1 DEF Checked!Fresh, PassedOn
<1>5. PassedOn(m.stream)' = PassedOn(m.stream) \cup {m.nth}
  <2>1. \A i \in 1..Len(passed'[m.stream]) :
          i \in 1..Len(passed[m.stream]) \/ i = Len(passed[m.stream]) + 1
    BY <1>2
  <2>2. \A i \in 1..Len(passed[m.stream]) : i \in 1..Len(passed'[m.stream])
    BY <1>2
  <2>3. Len(passed[m.stream]) + 1 \in 1..Len(passed'[m.stream])
    BY <1>2
  <2>4. \A n : n \in PassedOn(m.stream) => n \in PassedOn(m.stream)'
    BY <1>2, <2>2 DEF PassedOn
  <2>5. m.nth \in PassedOn(m.stream)'
    BY <1>2, <2>3 DEF PassedOn
  <2>6. \A n \in PassedOn(m.stream)' : n \in PassedOn(m.stream) \/ n = m.nth
    BY <1>2, <2>1 DEF PassedOn
  <2> QED
    BY <2>4, <2>5, <2>6
<1>6. \A s \in Streams \ {m.stream} : PassedOn(s)' = PassedOn(s)
  BY <1>2 DEF PassedOn
<1>7. \A x \in InHands : x.stream = m.stream => x.nth < m.nth
  BY <1>4 DEF IInv, Owned
<1>8. ASSUME NEW q \in Ports, hand[q] # NoResult, hand[q].stream = m.stream
      PROVE  hand[q].life # m.life
  <2>1. hand[q] \in Linked /\ m \in Linked
    BY <1>0, <1>8, HandFacts DEF Linked
  <2>2. hand[q].port = q
    BY <1>8 DEF IInv, HandOfPort
  <2>3. hand[q].life = m.life => hand[q].port = m.port
    BY <1>8, <2>1 DEF IInv, OnePortPerLife
  <2> QED
    BY <1>2, <1>8, <2>2, <2>3
<1> QED
  BY <1>1, <1>2, <1>3, <1>4, <1>5, <1>6, <1>7, <1>8

LEMMA LinedNext == IInv /\ [Next]_vars => Lined'
<1> SUFFICES ASSUME IInv, [Next]_vars PROVE Lined'
  OBVIOUS
<1>0. TypeOK /\ Checked!IInv /\ Lined
  BY DEF IInv, Types
<1>1. ASSUME UNCHANGED <<hand, queue, held>> PROVE Lined'
  BY <1>0, <1>1 DEF Lined, Ahead
<1>2. ASSUME NEW m \in wire, Receive(m.port, m) PROVE Lined'
  <2>1. CASE Checked!Pass(m.port, m)
    <3>1. /\ m.port \in Ports /\ hand'[m.port] = m
          /\ \A q \in Ports \ {m.port} : hand'[q] = hand[q]
          /\ UNCHANGED <<queue, held>>
          /\ \A x \in InHands : x.stream = m.stream => x.nth < m.nth
          /\ \A q \in Ports :
               hand[q] # NoResult /\ hand[q].stream = m.stream => hand[q].life # m.life
          /\ m.nth \in Nat
      BY <1>2, <2>1, PassNews
    <3>2. \A x \in InHands : x.nth \in Nat /\ Ahead(x, m)
      BY <1>0, <3>1, HandFacts DEF Ahead
    <3>3. ASSUME NEW p \in Ports, NEW q \in Ports, p # q, hand'[p] # NoResult, hand'[q] # NoResult
          PROVE  /\ Ahead(hand'[p], hand'[q])
                 /\ hand'[p].stream = hand'[q].stream => hand'[p].life # hand'[q].life
      <4>1. CASE p # m.port /\ q # m.port
        BY <1>0, <3>1, <3>3, <4>1 DEF Lined
      <4>2. CASE p = m.port
        BY <1>0, <3>1, <3>2, <3>3, <4>2, HandFacts DEF Ahead
      <4>3. CASE q = m.port
        BY <1>0, <3>1, <3>2, <3>3, <4>3, HandFacts DEF Ahead
      <4> QED
        BY <4>1, <4>2, <4>3
    <3>4. ASSUME NEW w \in Writers, NEW p \in Ports, hand'[p] # NoResult
          PROVE  /\ \A i \in 1..Len(queue[w]) : Ahead(queue[w][i], hand'[p])
                 /\ held[w] # NoResult => Ahead(held[w], hand'[p])
      BY <1>0, <3>1, <3>2, <3>4, HandFacts DEF Lined
    <3> QED
      BY <1>0, <3>1, <3>3, <3>4 DEF Lined, Ahead
  <2>2. CASE UNCHANGED hand
    BY <1>1, <1>2, <2>2 DEF Receive
  <2> QED
    BY <1>0, <1>2, <2>1, <2>2, ReceiveCases
<1>3. ASSUME NEW p \in Ports, Enqueue(p) PROVE Lined'
  <2>0. PICK m, v : m = hand[p] /\ v = WriterOf(m)
    OBVIOUS
  <2>1. /\ m \in Results /\ m # NoResult /\ v \in Writers
        /\ hand'[p] = NoResult /\ \A q \in Ports \ {p} : hand'[q] = hand[q]
        /\ Len(queue[v]) \in Nat /\ Len(queue'[v]) = Len(queue[v]) + 1
        /\ \A i \in 1..Len(queue[v]) : queue'[v][i] = queue[v][i]
        /\ queue'[v][Len(queue[v]) + 1] = m
        /\ \A w \in Writers \ {v} : queue'[w] = queue[w]
        /\ held' = held
    BY <1>0, <1>3, <2>0, EnqueueFacts, ResultFacts
  <2>2. \A i \in 1..Len(queue'[v]) : i \in 1..Len(queue[v]) \/ (i = Len(queue[v]) + 1 /\ queue'[v][i] = m)
    BY <2>1
  <2>3. ASSUME NEW q \in Ports, NEW r \in Ports, q # r, hand'[q] # NoResult, hand'[r] # NoResult
        PROVE  /\ Ahead(hand'[q], hand'[r])
               /\ hand'[q].stream = hand'[r].stream => hand'[q].life # hand'[r].life
    BY <1>0, <2>1, <2>3 DEF Lined
  <2>4. ASSUME NEW w \in Writers, NEW i \in 1..Len(queue'[w]), NEW k \in 1..Len(queue'[w]), i < k
        PROVE  Ahead(queue'[w][i], queue'[w][k])
    <3>1. CASE w # v
      BY <1>0, <2>1, <2>4, <3>1 DEF Lined
    <3>2. CASE w = v /\ k \in 1..Len(queue[v])
      <4>1. i \in 1..Len(queue[v])
        BY <2>1, <2>4, <3>2
      <4> QED
        BY <1>0, <2>1, <2>4, <3>2, <4>1 DEF Lined
    <3>3. CASE w = v /\ k = Len(queue[v]) + 1
      <4>1. i \in 1..Len(queue[v])
        BY <2>1, <2>4, <3>3
      <4> QED
        BY <1>0, <2>0, <2>1, <3>3, <4>1 DEF Lined
    <3> QED
      BY <2>2, <2>4, <3>1, <3>2, <3>3
  <2>5. ASSUME NEW w \in Writers, held[w] # NoResult, NEW i \in 1..Len(queue'[w])
        PROVE  Ahead(held[w], queue'[w][i])
    BY <1>0, <2>0, <2>1, <2>2, <2>5 DEF Lined
  <2>6. ASSUME NEW w \in Writers, NEW q \in Ports, hand'[q] # NoResult
        PROVE  /\ \A i \in 1..Len(queue'[w]) : Ahead(queue'[w][i], hand'[q])
               /\ held[w] # NoResult => Ahead(held[w], hand'[q])
    <3>1. q # p /\ hand'[q] = hand[q] /\ hand[q] # NoResult
      BY <2>1, <2>6
    <3>2. Ahead(m, hand[q])
      BY <1>0, <2>0, <2>1, <3>1 DEF Lined
    <3> QED
      BY <1>0, <2>1, <2>2, <3>1, <3>2 DEF Lined
  <2> QED
    BY <2>1, <2>3, <2>4, <2>5, <2>6 DEF Lined, Ahead
<1>4. ASSUME NEW w \in Writers, Take(w) PROVE Lined'
  <2>1. /\ 1 \in 1..Len(queue[w]) /\ held'[w] = queue[w][1]
        /\ Len(queue[w]) \in Nat /\ Len(queue'[w]) = Len(queue[w]) - 1
        /\ \A i \in 1..Len(queue'[w]) :
             i + 1 \in 1..Len(queue[w]) /\ queue'[w][i] = queue[w][i+1]
        /\ \A v \in Writers \ {w} : queue'[v] = queue[v] /\ held'[v] = held[v]
        /\ hand' = hand
    BY <1>0, <1>4, TakeFacts
  <2>2. ASSUME NEW v \in Writers
        PROVE  /\ \A i, k \in 1..Len(queue'[v]) : i < k => Ahead(queue'[v][i], queue'[v][k])
               /\ held'[v] # NoResult => \A i \in 1..Len(queue'[v]) : Ahead(held'[v], queue'[v][i])
               /\ \A p \in Ports : hand[p] # NoResult =>
                    /\ \A i \in 1..Len(queue'[v]) : Ahead(queue'[v][i], hand[p])
                    /\ held'[v] # NoResult => Ahead(held'[v], hand[p])
    <3>1. CASE v # w
      BY <1>0, <2>1, <3>1 DEF Lined
    <3>2. CASE v = w
      <4>1. \A i, k \in 1..Len(queue[w]) : i < k => Ahead(queue[w][i], queue[w][k])
        BY <1>0 DEF Lined
      <4>2. ASSUME NEW i \in 1..Len(queue'[w]), NEW k \in 1..Len(queue'[w]), i < k
            PROVE  Ahead(queue'[w][i], queue'[w][k])
        <5>1. i + 1 < k + 1 /\ i + 1 \in 1..Len(queue[w]) /\ k + 1 \in 1..Len(queue[w])
          BY <2>1, <4>2
        <5> QED
          BY <2>1, <4>1, <5>1
      <4>3. ASSUME NEW i \in 1..Len(queue'[w]) PROVE Ahead(held'[w], queue'[w][i])
        <5>1. 1 < i + 1 /\ i + 1 \in 1..Len(queue[w])
          BY <2>1, <4>3
        <5> QED
          BY <2>1, <4>1, <5>1
      <4>4. ASSUME NEW p \in Ports, hand[p] # NoResult
            PROVE  /\ \A i \in 1..Len(queue'[w]) : Ahead(queue'[w][i], hand[p])
                   /\ Ahead(held'[w], hand[p])
        BY <1>0, <2>1, <4>4 DEF Lined
      <4> QED
        BY <3>2, <4>2, <4>3, <4>4
    <3> QED
      BY <3>1, <3>2
  <2> QED
    BY <1>0, <2>1, <2>2 DEF Lined, Ahead
<1>5. ASSUME NEW p \in Ports, Drop(p) PROVE Lined'
  <2>1. /\ hand'[p] = NoResult /\ \A q \in Ports \ {p} : hand'[q] = hand[q]
        /\ UNCHANGED <<queue, held>>
    BY <1>0, <1>5, DropHands
  <2> QED
    BY <1>0, <2>1 DEF Lined, Ahead
<1>6. ASSUME NEW w \in Writers, Finish(w) PROVE Lined'
  <2>1. /\ held'[w] = NoResult /\ \A v \in Writers \ {w} : held'[v] = held[v]
        /\ UNCHANGED <<queue, hand>>
    BY <1>0, <1>6, FinishHands
  <2> QED
    BY <1>0, <2>1 DEF Lined, Ahead
<1>7. ASSUME \/ \E s \in Streams, tick \in {0, 1} : Send(s, tick)
             \/ \E s \in Streams, port \in Ports, first \in FirstSeqs : Restart(s, port, first)
             \/ UNCHANGED vars
      PROVE  Lined'
  BY <1>1, <1>7 DEF Send, Restart, vars
<1> QED
  BY <1>2, <1>3, <1>4, <1>5, <1>6, <1>7 DEF Next, HandOver

\* The step of y out of the hands, to a row of its file or to the losses.
Gone(y) ==
  /\ Left(y) /\ y \in Results
  /\ UNCHANGED <<passed, lives>>
  /\ \/ /\ rows' = [rows EXCEPT ![y.stream] = Append(@, y.nth)] /\ lost' = lost
        /\ \A x \in InHands' : Ahead(y, x)
     \/ lost' = [lost EXCEPT ![y.stream] = @ \cup {y.nth}] /\ rows' = rows

LEMMA HandOverOrFinish ==
  ASSUME IInv,
         (\E p \in Ports : Drop(p)) \/ (\E w \in Writers : Finish(w))
  PROVE  \E y \in InHands : Gone(y)
<1>0. TypeOK /\ Lined
  BY DEF IInv, Types
<1>1. ASSUME NEW p \in Ports, Drop(p) PROVE \E y \in InHands : Gone(y)
  <2>1. PICK y : y = hand[p]
    OBVIOUS
  <2>2. /\ Left(y) /\ y \in Results
        /\ lost' = [lost EXCEPT ![y.stream] = @ \cup {y.nth}]
        /\ UNCHANGED <<passed, lives, rows>>
    BY <1>0, <1>1, <2>1, DropHands
  <2> QED
    BY <2>2 DEF Gone, Left
<1>2. ASSUME NEW w \in Writers, Finish(w) PROVE \E y \in InHands : Gone(y)
  <2>1. PICK y : y = held[w]
    OBVIOUS
  <2>2. /\ Left(y) /\ y \in Results
        /\ \A x \in InHands' : Ahead(y, x)
        /\ UNCHANGED <<passed, lives>>
        /\ \/ rows' = [rows EXCEPT ![y.stream] = Append(@, y.nth)] /\ lost' = lost
           \/ lost' = [lost EXCEPT ![y.stream] = @ \cup {y.nth}] /\ rows' = rows
    BY <1>0, <1>2, <2>1, FinishHands
  <2> QED
    BY <2>2 DEF Gone, Left
<1> QED
  BY <1>1, <1>2

\* What becomes a row or a loss is the number of y, which was neither.
LEMMA GoneFacts ==
  ASSUME IInv, NEW y, Gone(y)
  PROVE  /\ y.stream \in Streams /\ y.nth \in Nat
         /\ y.nth \in PassedOn(y.stream)
         /\ y.nth \notin Recorded(y.stream) /\ y.nth \notin lost[y.stream]
         /\ \A s \in Streams : PassedOn(s)' = PassedOn(s)
         /\ \A s \in Streams \ {y.stream} : rows'[s] = rows[s] /\ lost'[s] = lost[s]
         /\ \A s \in Streams \ {y.stream} : Recorded(s)' = Recorded(s)
         /\ \/ /\ rows'[y.stream] = Append(rows[y.stream], y.nth) /\ lost' = lost
               /\ Len(rows[y.stream]) \in Nat
               /\ Len(rows'[y.stream]) = Len(rows[y.stream]) + 1
               /\ \A i \in 1..Len(rows[y.stream]) : rows'[y.stream][i] = rows[y.stream][i]
               /\ rows'[y.stream][Len(rows[y.stream]) + 1] = y.nth
               /\ Recorded(y.stream)' = Recorded(y.stream) \cup {y.nth}
               /\ \A x \in InHands' : Ahead(y, x)
            \/ /\ lost'[y.stream] = lost[y.stream] \cup {y.nth} /\ rows' = rows
               /\ Recorded(y.stream)' = Recorded(y.stream)
<1>0. TypeOK /\ Owned
  BY DEF IInv, Types
<1>1. y \in InHands /\ y \in Results
  BY DEF Gone, Left
<1>2. /\ y.stream \in Streams /\ y.nth \in Nat /\ y.nth \in PassedOn(y.stream)
      /\ Unsettled(y)
  BY <1>0, <1>1, ResultFacts DEF Owned
<1>3. y.nth \notin Recorded(y.stream) /\ y.nth \notin lost[y.stream]
  BY <1>2 DEF Unsettled, Recorded
<1>4. \A s \in Streams : PassedOn(s)' = PassedOn(s)
  BY DEF Gone, PassedOn
<1>5. \A s \in Streams \ {y.stream} : rows'[s] = rows[s] /\ lost'[s] = lost[s]
  BY <1>0 DEF Gone, TypeOK
<1>6. \A s \in Streams \ {y.stream} : Recorded(s)' = Recorded(s)
  BY <1>5 DEF Recorded
<1>7. CASE /\ rows' = [rows EXCEPT ![y.stream] = Append(@, y.nth)] /\ lost' = lost
           /\ \A x \in InHands' : Ahead(y, x)
  <2>1. rows[y.stream] \in Seq(Nat) /\ rows'[y.stream] = Append(rows[y.stream], y.nth)
    BY <1>0, <1>2, <1>7 DEF TypeOK
  <2>2. /\ Len(rows[y.stream]) \in Nat
        /\ Len(rows'[y.stream]) = Len(rows[y.stream]) + 1
        /\ \A i \in 1..Len(rows[y.stream]) : rows'[y.stream][i] = rows[y.stream][i]
        /\ rows'[y.stream][Len(rows[y.stream]) + 1] = y.nth
    BY <1>2, <2>1
  <2>3. \A i \in 1..Len(rows'[y.stream]) :
          i \in 1..Len(rows[y.stream]) \/ i = Len(rows[y.stream]) + 1
    BY <2>2
  <2>4. \A i \in 1..Len(rows[y.stream]) : i \in 1..Len(rows'[y.stream])
    BY <2>2
  <2>5. Len(rows[y.stream]) + 1 \in 1..Len(rows'[y.stream])
    BY <2>2
  <2>6. \A n \in Recorded(y.stream) : n \in Recorded(y.stream)'
    BY <2>2, <2>4 DEF Recorded
  <2>7. y.nth \in Recorded(y.stream)'
    BY <2>2, <2>5 DEF Recorded
  <2>8. \A n \in Recorded(y.stream)' : n \in Recorded(y.stream) \/ n = y.nth
    BY <2>2, <2>3 DEF Recorded
  <2>9. Recorded(y.stream)' = Recorded(y.stream) \cup {y.nth}
    BY <2>6, <2>7, <2>8
  <2> QED
    BY <1>2, <1>3, <1>4, <1>5, <1>6, <1>7, <2>1, <2>2, <2>9
<1>8. CASE lost' = [lost EXCEPT ![y.stream] = @ \cup {y.nth}] /\ rows' = rows
  <2>1. lost'[y.stream] = lost[y.stream] \cup {y.nth}
    BY <1>0, <1>2, <1>8 DEF TypeOK
  <2>2. Recorded(y.stream)' = Recorded(y.stream)
    BY <1>8 DEF Recorded
  <2> QED
    BY <1>2, <1>3, <1>4, <1>5, <1>6, <1>8, <2>1, <2>2
<1> QED
  BY <1>7, <1>8 DEF Gone

LEMMA SettledNext == IInv /\ [Next]_vars => Settled'
<1> SUFFICES ASSUME IInv, [Next]_vars PROVE Settled'
  OBVIOUS
<1>0. Types /\ TypeOK /\ Checked!IInv /\ Settled /\ LivesTold /\ LivesTold' /\ TypeOK'
  BY LivesToldNext, TypeNext DEF IInv, Types
<1>1. ASSUME UNCHANGED <<passed, lives, rows, lost>>, InHands' = InHands PROVE Settled'
  <2>1. \A s \in Streams : PassedOn(s)' = PassedOn(s) /\ Recorded(s)' = Recorded(s)
    BY <1>1 DEF PassedOn, Recorded
  <2> QED
    BY <1>0, <1>1, <2>1 DEF Settled
<1>2. ASSUME NEW m \in wire, Receive(m.port, m) PROVE Settled'
  <2>1. CASE Checked!Pass(m.port, m)
    <3>1. /\ m.stream \in Streams
          /\ InHands' = InHands \cup {m}
          /\ UNCHANGED <<lives, rows, lost>>
          /\ PassedOn(m.stream)' = PassedOn(m.stream) \cup {m.nth}
          /\ \A s \in Streams \ {m.stream} : PassedOn(s)' = PassedOn(s)
      BY <1>2, <2>1, PassNews
    <3>2. \A s \in Streams : Recorded(s)' = Recorded(s)
      BY <3>1 DEF Recorded
    <3>3. m.nth \in 1..Len(lives[m.stream])
      BY <1>0 DEF LivesTold, Told
    <3> QED
      BY <1>0, <3>1, <3>2, <3>3 DEF Settled
  <2>2. CASE UNCHANGED <<passed, hand>>
    <3>1. UNCHANGED <<lives, queue, held, rows, lost>>
      BY <1>2 DEF Receive
    <3>2. InHands' = InHands
      BY <2>2, <3>1 DEF InHands
    <3> QED
      BY <1>1, <2>2, <3>1, <3>2
  <2> QED
    BY <1>0, <1>2, <2>1, <2>2, ReceiveCases
<1>3. ASSUME NEW s \in Streams, NEW tick \in {0, 1}, Send(s, tick) PROVE Settled'
  <2>1. /\ lives' = [lives EXCEPT ![s] = Append(@, sender[s].life)]
        /\ UNCHANGED <<passed, hand, queue, held, rows, lost>>
    BY <1>0, <1>3, SendFacts
  <2>2. InHands' = InHands
    BY <2>1 DEF InHands
  <2>3. \A r \in Streams : PassedOn(r)' = PassedOn(r) /\ Recorded(r)' = Recorded(r)
    BY <2>1 DEF PassedOn, Recorded
  <2>4. \A r \in Streams : \A n \in 1..Len(lives[r]) : n \in 1..Len(lives'[r])
    <3>1. lives[s] \in Seq(0..MaxRestarts) /\ lives'[s] = Append(lives[s], sender[s].life)
          /\ \A r \in Streams \ {s} : lives'[r] = lives[r]
      BY <1>0, <2>1 DEF TypeOK
    <3>2. \A n \in 1..Len(lives[s]) : n \in 1..Len(lives'[s])
      BY <3>1
    <3> QED
      BY <3>1, <3>2
  <2> QED
    BY <1>0, <2>1, <2>2, <2>3, <2>4 DEF Settled
<1>4. ASSUME NEW y \in InHands, Gone(y) PROVE Settled'
  <2> DEFINE st == y.stream
  <2>1. /\ st \in Streams /\ y.nth \in PassedOn(st)
        /\ y.nth \notin Recorded(st) /\ y.nth \notin lost[st]
        /\ \A s \in Streams : PassedOn(s)' = PassedOn(s)
        /\ \A s \in Streams \ {st} : rows'[s] = rows[s] /\ lost'[s] = lost[s]
        /\ \A s \in Streams \ {st} : Recorded(s)' = Recorded(s)
        /\ \/ /\ Len(rows[st]) \in Nat /\ lost' = lost
              /\ Len(rows'[st]) = Len(rows[st]) + 1
              /\ Recorded(st)' = Recorded(st) \cup {y.nth}
           \/ /\ lost'[st] = lost[st] \cup {y.nth} /\ rows' = rows
              /\ Recorded(st)' = Recorded(st)
    BY <1>4, GoneFacts
  <2>2. lives' = lives /\ InHands \subseteq InHands' \cup {y}
    BY <1>4 DEF Gone, Left
  <2>3. IsFiniteSet(Recorded(st)) /\ Cardinality(Recorded(st)) = Len(rows[st])
    BY <1>0, <2>1 DEF Settled
  <2>4. IsFiniteSet(Recorded(st)') /\ Cardinality(Recorded(st)') = Len(rows'[st])
    BY <2>1, <2>3, FS_AddElement, SMTT(30)
  <2> HIDE DEF st
  <2>5. \A s \in Streams : Recorded(s)' \cup lost'[s] \subseteq PassedOn(s)
    BY <1>0, <2>1 DEF Settled
  <2>6. \A s \in Streams : Recorded(s)' \cap lost'[s] = {}
    BY <1>0, <2>1 DEF Settled
  <2>7. \A s \in Streams : \A n \in PassedOn(s) :
          n \in Recorded(s)' \cup lost'[s] \/ \E x \in InHands' : x.stream = s /\ x.nth = n
    BY <1>0, <2>1, <2>2 DEF Settled, st
  <2>8. \A s \in Streams :
          IsFiniteSet(Recorded(s)') /\ Cardinality(Recorded(s)') = Len(rows'[s])
    BY <1>0, <2>1, <2>4 DEF Settled
  <2> QED
    BY <1>0, <2>1, <2>2, <2>5, <2>6, <2>7, <2>8 DEF Settled
<1>5. ASSUME NEW p \in Ports, Enqueue(p) PROVE Settled'
  BY <1>0, <1>1, <1>5, EnqueueHands DEF Enqueue, reception
<1>6. ASSUME NEW w \in Writers, Take(w) PROVE Settled'
  BY <1>0, <1>1, <1>6, TakeHands DEF Take, reception
<1>7. ASSUME NEW s \in Streams, NEW port \in Ports, NEW first \in FirstSeqs, Restart(s, port, first)
      PROVE  Settled'
  <2>1. UNCHANGED <<passed, lives, hand, queue, held, rows, lost>>
    BY <1>0, <1>7, RestartFacts
  <2> QED
    BY <1>1, <2>1 DEF InHands
<1>8. CASE UNCHANGED vars
  BY <1>1, <1>8 DEF vars, reception, InHands
<1> QED
  BY <1>2, <1>3, <1>4, <1>5, <1>6, <1>7, <1>8, HandOverOrFinish DEF Next, HandOver


LEMMA UnsettledKept ==
  ASSUME IInv, NEW x \in InHands, UNCHANGED <<passed, rows, lost>>,
         \A s \in Streams : \A n \in 1..Len(lives[s]) :
           n \in 1..Len(lives'[s]) /\ lives'[s][n] = lives[s][n]
  PROVE  Told(x)' /\ x.nth \in PassedOn(x.stream)' /\ Unsettled(x)'
<1>0. Types /\ TypeOK /\ Owned /\ Settled
  BY DEF IInv, Types
<1>1. x.stream \in Streams /\ Told(x) /\ x.nth \in PassedOn(x.stream) /\ Unsettled(x)
  BY <1>0, HandFacts DEF Owned
<1>2. Told(x)' /\ x.nth \in PassedOn(x.stream)'
  BY <1>1 DEF Told, PassedOn
<1>3. \A i \in 1..Len(rows[x.stream]) :
        /\ rows[x.stream][i] \in 1..Len(lives[x.stream])
        /\ lives'[x.stream][rows[x.stream][i]] = lives[x.stream][rows[x.stream][i]]
  <2>1. \A i \in 1..Len(rows[x.stream]) : rows[x.stream][i] \in Recorded(x.stream)
    BY DEF Recorded
  <2> QED
    BY <1>0, <1>1, <2>1 DEF Settled
<1> QED
  BY <1>1, <1>2, <1>3 DEF Unsettled

LEMMA OwnedNext == IInv /\ [Next]_vars => Owned'
<1> SUFFICES ASSUME IInv, [Next]_vars, NEW x \in InHands'
             PROVE  Told(x)' /\ x.nth \in PassedOn(x.stream)' /\ Unsettled(x)'
  BY DEF Owned
<1>0. Types /\ TypeOK /\ TypeOK' /\ Checked!IInv /\ Settled /\ LivesTold /\ Owned
  BY TypeNext DEF IInv, Types
<1>1. ASSUME UNCHANGED <<passed, lives, rows, lost>>, x \in InHands
      PROVE  Told(x)' /\ x.nth \in PassedOn(x.stream)' /\ Unsettled(x)'
  BY <1>1, UnsettledKept
<1>2. ASSUME NEW m \in wire, Receive(m.port, m)
      PROVE  Told(x)' /\ x.nth \in PassedOn(x.stream)' /\ Unsettled(x)'
  <2>1. CASE Checked!Pass(m.port, m)
    <3>1. /\ m.stream \in Streams /\ m.nth \in Nat
          /\ InHands' = InHands \cup {m}
          /\ UNCHANGED <<lives, rows, lost>>
          /\ \A n \in PassedOn(m.stream) : n < m.nth
          /\ PassedOn(m.stream)' = PassedOn(m.stream) \cup {m.nth}
          /\ \A s \in Streams \ {m.stream} : PassedOn(s)' = PassedOn(s)
      BY <1>2, <2>1, PassNews
    <3>2. CASE x = m
      <4>1. \A n \in Recorded(m.stream) \cup lost[m.stream] : n < m.nth
        BY <1>0, <3>1 DEF Settled
      <4>2. Recorded(m.stream) \subseteq Nat /\ lost[m.stream] \subseteq Nat
        <5>1. rows[m.stream] \in Seq(Nat) /\ lost[m.stream] \subseteq Nat
          BY <1>0, <3>1 DEF TypeOK
        <5> QED
          BY <5>1 DEF Recorded
      <4>3. Unsettled(m)
        BY <3>1, <4>1, <4>2 DEF Unsettled, Recorded
      <4>4. Told(m)
        BY <1>0 DEF LivesTold
      <4> QED
        BY <3>1, <3>2, <4>3, <4>4 DEF Told, Unsettled
    <3>3. CASE x \in InHands
      <4>1. Told(x) /\ x.nth \in PassedOn(x.stream) /\ Unsettled(x) /\ x.stream \in Streams
        BY <1>0, <3>3, HandFacts DEF Owned
      <4>2. x.nth \in PassedOn(x.stream)'
        BY <3>1, <4>1
      <4> QED
        BY <3>1, <4>1, <4>2 DEF Told, Unsettled
    <3> QED
      BY <3>1, <3>2, <3>3
  <2>2. CASE UNCHANGED <<passed, hand>>
    <3>1. UNCHANGED <<lives, queue, held, rows, lost>>
      BY <1>2 DEF Receive
    <3>2. InHands' = InHands
      BY <2>2, <3>1 DEF InHands
    <3> QED
      BY <1>1, <2>2, <3>1, <3>2
  <2> QED
    BY <1>0, <1>2, <2>1, <2>2, ReceiveCases
<1>3. ASSUME NEW s \in Streams, NEW tick \in {0, 1}, Send(s, tick)
      PROVE  Told(x)' /\ x.nth \in PassedOn(x.stream)' /\ Unsettled(x)'
  <2>1. /\ lives' = [lives EXCEPT ![s] = Append(@, sender[s].life)]
        /\ UNCHANGED <<passed, hand, queue, held, rows, lost>>
    BY <1>0, <1>3, SendFacts
  <2>2. InHands' = InHands
    BY <2>1 DEF InHands
  <2>3. \A r \in Streams : \A n \in 1..Len(lives[r]) :
          n \in 1..Len(lives'[r]) /\ lives'[r][n] = lives[r][n]
    <3>1. /\ lives[s] \in Seq(0..MaxRestarts) /\ lives'[s] = Append(lives[s], sender[s].life)
          /\ \A r \in Streams \ {s} : lives'[r] = lives[r]
      BY <1>0, <2>1 DEF TypeOK
    <3>2. \A n \in 1..Len(lives[s]) : n \in 1..Len(lives'[s]) /\ lives'[s][n] = lives[s][n]
      BY <3>1
    <3> QED
      BY <3>1, <3>2
  <2> QED
    BY <2>1, <2>2, <2>3, UnsettledKept
<1>4. ASSUME NEW y \in InHands, Gone(y)
      PROVE  Told(x)' /\ x.nth \in PassedOn(x.stream)' /\ Unsettled(x)'
  <2> DEFINE st == y.stream
  <2>1. /\ st \in Streams /\ y.nth \in Nat
        /\ \A s \in Streams : PassedOn(s)' = PassedOn(s)
        /\ \A s \in Streams \ {st} : rows'[s] = rows[s] /\ lost'[s] = lost[s]
        /\ \/ /\ Len(rows[st]) \in Nat /\ lost' = lost
              /\ Len(rows'[st]) = Len(rows[st]) + 1
              /\ \A i \in 1..Len(rows[st]) : rows'[st][i] = rows[st][i]
              /\ rows'[st][Len(rows[st]) + 1] = y.nth
              /\ \A z \in InHands' : Ahead(y, z)
           \/ lost'[st] = lost[st] \cup {y.nth} /\ rows' = rows
    BY <1>4, GoneFacts
  <2>2. /\ lives' = lives /\ x \in InHands
        /\ x.stream = st => x.nth # y.nth
    BY <1>4 DEF Gone, Left
  <2>3. Told(x) /\ x.nth \in PassedOn(x.stream) /\ Unsettled(x) /\ x.stream \in Streams
    BY <1>0, <2>2, HandFacts DEF Owned
  <2>4. Told(x)' /\ x.nth \in PassedOn(x.stream)'
    BY <2>1, <2>2, <2>3 DEF Told
  <2>5. Told(y)
    BY <1>0, <1>4 DEF Owned
  <2>6. CASE x.stream # st
    BY <2>1, <2>2, <2>3, <2>4, <2>6 DEF Unsettled
  <2>7. CASE x.stream = st
    <3>1. x.nth \notin lost'[st]
      BY <2>1, <2>2, <2>3, <2>7 DEF Unsettled
    <3>2. CASE rows' = rows
      BY <2>2, <2>3, <2>4, <2>7, <3>1, <3>2 DEF Unsettled
    <3>3. CASE rows' # rows
      <4>1. \A i \in 1..Len(rows'[st]) :
              i \in 1..Len(rows[st]) \/ rows'[st][i] = y.nth
        BY <2>1, <3>3
      <4>2. y.nth # x.nth /\ (lives[st][y.nth] = x.life => y.nth < x.nth)
        BY <2>1, <2>2, <2>5, <2>7, <3>3 DEF Ahead, Told
      <4>3. ASSUME NEW i \in 1..Len(rows'[st])
            PROVE  /\ rows'[st][i] # x.nth
                   /\ lives[st][rows'[st][i]] = x.life => rows'[st][i] < x.nth
        <5>1. CASE i \in 1..Len(rows[st])
          BY <2>1, <2>3, <2>7, <3>3, <5>1 DEF Unsettled
        <5>2. CASE rows'[st][i] = y.nth
          BY <4>2, <5>2
        <5> QED
          BY <4>1, <5>1, <5>2
      <4> QED
        BY <2>2, <2>4, <2>7, <3>1, <4>3 DEF Unsettled
    <3> QED
      BY <3>2, <3>3
  <2> QED
    BY <2>6, <2>7
<1>5. ASSUME NEW p \in Ports, Enqueue(p)
      PROVE  Told(x)' /\ x.nth \in PassedOn(x.stream)' /\ Unsettled(x)'
  BY <1>0, <1>1, <1>5, EnqueueHands DEF Enqueue, reception
<1>6. ASSUME NEW w \in Writers, Take(w)
      PROVE  Told(x)' /\ x.nth \in PassedOn(x.stream)' /\ Unsettled(x)'
  BY <1>0, <1>1, <1>6, TakeHands DEF Take, reception
<1>7. ASSUME NEW s \in Streams, NEW port \in Ports, NEW first \in FirstSeqs, Restart(s, port, first)
      PROVE  Told(x)' /\ x.nth \in PassedOn(x.stream)' /\ Unsettled(x)'
  <2>1. UNCHANGED <<passed, lives, hand, queue, held, rows, lost>>
    BY <1>0, <1>7, RestartFacts
  <2> QED
    BY <1>1, <2>1 DEF InHands
<1>8. CASE UNCHANGED vars
  BY <1>1, <1>8 DEF vars, reception, InHands
<1> QED
  BY <1>2, <1>3, <1>4, <1>5, <1>6, <1>7, <1>8, HandOverOrFinish DEF Next, HandOver

LEMMA NextInv == ~LateLink /\ IInv /\ [Next]_vars => IInv'
<1> SUFFICES ASSUME ~LateLink, IInv, [Next]_vars PROVE IInv'
  OBVIOUS
<1>1. Types'
  BY CheckedNext, BoundedNext, TypeNext DEF IInv, Types
<1>2. Checked!OrderInv'
  BY CheckedNext DEF IInv, Types
<1>3. HandOfPort' /\ OnePortPerLife' /\ LivesTold'
  BY HandOfPortNext, OnePortPerLifeNext, LivesToldNext DEF IInv
<1>4. Owned' /\ Lined' /\ Settled'
  BY OwnedNext, LinedNext, SettledNext
<1> QED
  BY <1>1, <1>2, <1>3, <1>4 DEF IInv

LEMMA SafetyInv == ASSUME ~LateLink PROVE Safety => []IInv
BY FateInit, NextInv, PTL DEF Safety

-----------------------------------------------------------------------------
(* Theorems *)

(***************************************************************************)
(* Whatever the senders do, a Writer's queue and hand hold nothing but     *)
(* results of the bands that spectrum_writer_index gives it, and every     *)
(* variable stays what its declaration says (also for a link that delivers *)
(* late).                                                                  *)
(***************************************************************************)
THEOREM SpectralTypeCorrect == Spec => []TypeOK
<1>1. Init => Types
  BY FateInit DEF IInv
<1>2. Types /\ [Next]_vars => Types'
  BY CheckedNext, BoundedNext, TypeNext DEF Types
<1>3. Types => TypeOK
  BY DEF Types
<1>4. Spec => Safety
  BY PTL DEF Spec
<1> QED
  BY <1>1, <1>2, <1>3, <1>4, PTL DEF Safety

\* The three places a result can be in hand, as one.
Accepted(s) == InHand(s) \cup Queued(s) \cup InWriting(s)

AcceptedMeans ==
  \A s : \A n : n \in Accepted(s) <=> \E x \in InHands : x.stream = s /\ x.nth = n

LEMMA AcceptedFacts == TypeOK => AcceptedMeans
<1> SUFFICES ASSUME TypeOK, NEW s, NEW n
             PROVE  n \in Accepted(s) <=> \E x \in InHands : x.stream = s /\ x.nth = n
  BY DEF AcceptedMeans
<1>1. n \in InHand(s) <=> \E p \in Ports : hand[p] # NoResult /\ hand[p].stream = s /\ hand[p].nth = n
  BY DEF InHand
<1>2. n \in Queued(s) <=>
        \E w \in Writers : \E i \in 1..Len(queue[w]) : queue[w][i].stream = s /\ queue[w][i].nth = n
  BY DEF Queued, QueuedAt
<1>3. n \in InWriting(s) <=> \E w \in Writers : held[w] # NoResult /\ held[w].stream = s /\ held[w].nth = n
  BY DEF InWriting
<1>4. ASSUME NEW x \in InHands, x.stream = s, x.nth = n PROVE n \in Accepted(s)
  <2>1. x # NoResult
    BY HandFacts, ResultFacts
  <2> QED
    BY <1>1, <1>2, <1>3, <1>4, <2>1 DEF InHands, Accepted
<1> QED
  BY <1>1, <1>2, <1>3, <1>4, HandFacts DEF Accepted

LEMMA FateHolds == IInv => OneFate
<1> SUFFICES ASSUME IInv, NEW s \in Streams
             PROVE  LET places == <<InHand(s), Queued(s), InWriting(s), Recorded(s), lost[s]>>
                    IN /\ UNION {places[i] : i \in 1..5} = PassedOn(s)
                       /\ \A i, k \in 1..5 : i # k => places[i] \cap places[k] = {}
                       /\ Cardinality(Recorded(s)) = Len(rows[s])
  BY DEF OneFate
<1>0. TypeOK /\ Lined /\ Owned /\ Settled
  BY DEF IInv, Types
<1>1. \A n : n \in InHand(s) <=> \E p \in Ports : hand[p] # NoResult /\ hand[p].stream = s /\ hand[p].nth = n
  BY DEF InHand
<1>2. \A n : n \in Queued(s) <=>
        \E w \in Writers : \E i \in 1..Len(queue[w]) : queue[w][i].stream = s /\ queue[w][i].nth = n
  BY DEF Queued, QueuedAt
<1>3. \A n : n \in InWriting(s) <=> \E w \in Writers : held[w] # NoResult /\ held[w].stream = s /\ held[w].nth = n
  BY DEF InWriting
<1>4. \A n : n \in Accepted(s) <=> \E x \in InHands : x.stream = s /\ x.nth = n
  BY <1>0, AcceptedFacts DEF AcceptedMeans
<1>5. InHand(s) \cap Queued(s) = {} /\ InHand(s) \cap InWriting(s) = {}
  BY <1>0, <1>1, <1>2, <1>3, HandFacts DEF Lined, Ahead
<1>6. Queued(s) \cap InWriting(s) = {}
  <2>1. ASSUME NEW w \in Writers, NEW v \in Writers, NEW i \in 1..Len(queue[w]),
               queue[w][i].stream = s, held[v] # NoResult, held[v].stream = s
        PROVE  queue[w][i].nth # held[v].nth
    <3>1. w = v
      BY <1>0, <2>1 DEF TypeOK
    <3> QED
      BY <1>0, <2>1, <3>1 DEF Lined, Ahead
  <2> QED
    BY <1>2, <1>3, <2>1
<1>7. ASSUME NEW n \in Accepted(s)
      PROVE  n \in PassedOn(s) /\ n \notin Recorded(s) /\ n \notin lost[s]
  BY <1>0, <1>4 DEF Owned, Unsettled, Recorded
<1>8. /\ \A n \in PassedOn(s) :
           n \in Accepted(s) \cup Recorded(s) \cup lost[s]
      /\ Recorded(s) \cup lost[s] \subseteq PassedOn(s)
      /\ Recorded(s) \cap lost[s] = {}
      /\ Cardinality(Recorded(s)) = Len(rows[s])
  BY <1>0, <1>4 DEF Settled
<1> DEFINE places == <<InHand(s), Queued(s), InWriting(s), Recorded(s), lost[s]>>
<1>9. /\ places[1] = InHand(s) /\ places[2] = Queued(s) /\ places[3] = InWriting(s)
      /\ places[4] = Recorded(s) /\ places[5] = lost[s]
      /\ 1..5 = {1, 2, 3, 4, 5}
  OBVIOUS
<1> HIDE DEF places
<1>10. UNION {places[i] : i \in 1..5} = PassedOn(s)
  <2>1. \A n : n \in UNION {places[i] : i \in 1..5}
               <=> n \in Accepted(s) \cup Recorded(s) \cup lost[s]
    BY <1>9 DEF Accepted
  <2> QED
    BY <1>7, <1>8, <2>1
<1>11. \A i, k \in 1..5 : i # k => places[i] \cap places[k] = {}
  BY <1>5, <1>6, <1>7, <1>8, <1>9 DEF Accepted
<1> QED
  BY <1>8, <1>10, <1>11 DEF places

(***************************************************************************)
(* Every result that passed the sequence check is in exactly one place,    *)
(* and no row stands twice, as long as the link of a port the sender has   *)
(* left is dead when it comes back (with a link that delivers late a       *)
(* result may pass twice: MCReceiver).                                     *)
(***************************************************************************)
THEOREM SpectralOneFate == ASSUME ~LateLink PROVE Spec => []OneFate
<1>1. Spec => Safety
  BY PTL DEF Spec
<1> QED
  BY <1>1, SafetyInv, FateHolds, PTL


-----------------------------------------------------------------------------
(* The promise of LossyRecorder *)

LEMMA LossyInit == Init => Lossy!Init
<1> SUFFICES ASSUME Init PROVE Lossy!Init
  OBVIOUS
<1>1. \A s : InHand(s) = {} /\ Queued(s) = {} /\ InWriting(s) = {}
  BY DEF Init, InHand, Queued, QueuedAt, InWriting
<1> QED
  BY <1>1 DEF Init, Lossy!Init

\* What is accepted, by the results in hand before and after a step.
LEMMA AcceptedNext ==
  ASSUME TypeOK, TypeOK'
  PROVE  /\ \A s, n : n \in Accepted(s) <=> \E x \in InHands : x.stream = s /\ x.nth = n
         /\ \A s, n : n \in Accepted(s)' <=> \E x \in InHands' : x.stream = s /\ x.nth = n
<1>1. TypeOK' => AcceptedMeans'
  BY AcceptedFacts, PTL
<1> QED
  BY <1>1, AcceptedFacts DEF AcceptedMeans

LEMMA LossyStep == IInv /\ IInv' /\ [Next]_vars => [Lossy!Next]_(Lossy!lossyVars)
<1> SUFFICES ASSUME IInv, IInv', [Next]_vars PROVE [Lossy!Next]_(Lossy!lossyVars)
  OBVIOUS
<1> DEFINE acc == [s \in Streams |-> InHand(s) \cup Queued(s) \cup InWriting(s)]
<1>0. Types /\ TypeOK /\ TypeOK' /\ Checked!IInv /\ Bounded
  BY DEF IInv, Types
<1>1. acc = [s \in Streams |-> Accepted(s)] /\ acc' = [s \in Streams |-> Accepted(s)']
  BY DEF Accepted
<1>2. /\ \A s, n : n \in Accepted(s) <=> \E x \in InHands : x.stream = s /\ x.nth = n
      /\ \A s, n : n \in Accepted(s)' <=> \E x \in InHands' : x.stream = s /\ x.nth = n
  BY <1>0, AcceptedNext
<1>3. \A s : Lossy!Rows(s) = Recorded(s)
  BY DEF Lossy!Rows, Recorded
<1> HIDE DEF acc
<1>4. InHands' = InHands => acc' = acc
  <2> SUFFICES ASSUME InHands' = InHands PROVE acc' = acc
    OBVIOUS
  <2>1. ASSUME NEW s \in Streams PROVE Accepted(s)' = Accepted(s)
    <3>1. \A n : n \in Accepted(s)' <=> n \in Accepted(s)
      BY <1>2
    <3> QED
      BY <3>1
  <2> QED
    BY <1>1, <2>1
<1>5. ASSUME UNCHANGED <<lives, rows, lost>>, InHands' = InHands
      PROVE  UNCHANGED Lossy!lossyVars
  BY <1>4, <1>5 DEF acc, Lossy!lossyVars
<1>6. ASSUME NEW s \in Streams, NEW tick \in {0, 1}, Send(s, tick) PROVE Lossy!Next
  <2>1. /\ lives' = [lives EXCEPT ![s] = Append(@, sender[s].life)]
        /\ sender[s].life \in Nat
        /\ UNCHANGED <<hand, queue, held, rows, lost>>
    BY <1>0, <1>6, SendFacts
  <2>2. acc' = acc
    BY <1>4, <2>1 DEF InHands
  <2>3. sender[s].life \in 0..MaxRestarts
    BY <1>0, <2>1, SpectralAssumption DEF Bounded
  <2>4. \A i \in 1..Len(lives[s]) : lives[s][i] <= sender[s].life
    BY DEF IInv, LivesTold
  <2>5. Lossy!Send(s, sender[s].life)
    BY <2>1, <2>2, <2>4 DEF Lossy!Send, acc
  <2> QED
    BY <2>3, <2>5 DEF Lossy!Next
<1>7. ASSUME NEW m \in wire, Receive(m.port, m), Checked!Pass(m.port, m) PROVE Lossy!Next
  <2>1. /\ m.stream \in Streams /\ m.nth \in Nat
        /\ InHands' = InHands \cup {m}
        /\ UNCHANGED <<lives, rows, lost>>
        /\ \A n \in PassedOn(m.stream) : n < m.nth
    BY <1>7, PassNews
  <2>2. m.nth \in 1..Len(lives[m.stream]) /\ m.nth \in 1..MaxResults
    <3>1. m.nth \in 1..Len(lives[m.stream]) /\ Len(lives[m.stream]) = sender[m.stream].nth
      BY <2>1 DEF IInv, LivesTold, Told
    <3>2. sender[m.stream].nth <= MaxResults /\ lives[m.stream] \in Seq(0..MaxRestarts)
      BY <1>0, <2>1 DEF Bounded, TypeOK
    <3>3. Len(lives[m.stream]) \in Nat
      BY <3>2
    <3> QED
      BY <3>1, <3>2, <3>3, SpectralAssumption
  <2>3. \A k \in acc[m.stream] \cup Lossy!Rows(m.stream) \cup lost[m.stream] : k < m.nth
    <3>1. \A k \in acc[m.stream] : k \in PassedOn(m.stream)
      BY <1>1, <1>2, <2>1 DEF IInv, Owned
    <3>2. Recorded(m.stream) \cup lost[m.stream] \subseteq PassedOn(m.stream)
      BY <2>1 DEF IInv, Settled
    <3> QED
      BY <1>3, <2>1, <3>1, <3>2
  <2>4. acc' = [acc EXCEPT ![m.stream] = @ \cup {m.nth}]
    <3>1. ASSUME NEW s \in Streams
          PROVE  Accepted(s)' = IF s = m.stream THEN Accepted(s) \cup {m.nth} ELSE Accepted(s)
      <4>1. \A n : n \in Accepted(s)' <=> n \in Accepted(s) \/ (s = m.stream /\ n = m.nth)
        BY <1>2, <2>1
      <4> QED
        BY <4>1
    <3> QED
      BY <1>1, <2>1, <3>1
  <2>5. Lossy!Accept(m.stream, m.nth)
    BY <2>1, <2>2, <2>3, <2>4 DEF Lossy!Accept, acc
  <2> QED
    BY <2>1, <2>2, <2>5 DEF Lossy!Next
<1>8. ASSUME NEW y \in InHands, Gone(y) PROVE Lossy!Next
  <2> DEFINE st == y.stream
  <2>1. /\ st \in Streams /\ y.nth \in PassedOn(st) /\ y.nth \in Nat
        /\ InHands \subseteq InHands' \cup {y} /\ InHands' \subseteq InHands
        /\ \A x \in InHands' : x.stream = st => x.nth # y.nth
        /\ lives' = lives
        /\ \/ rows' = [rows EXCEPT ![st] = Append(@, y.nth)] /\ lost' = lost
           \/ lost' = [lost EXCEPT ![st] = @ \cup {y.nth}] /\ rows' = rows
    BY <1>8, GoneFacts DEF Gone, Left
  <2>2. acc' = [acc EXCEPT ![st] = @ \ {y.nth}] /\ y.nth \in acc[st]
    <3>1. ASSUME NEW s \in Streams
          PROVE  Accepted(s)' = IF s = st THEN Accepted(s) \ {y.nth} ELSE Accepted(s)
      <4>1. \A n : n \in Accepted(s)' <=> n \in Accepted(s) /\ ~(s = st /\ n = y.nth)
        BY <1>2, <2>1
      <4> QED
        BY <4>1
    <3>2. y.nth \in Accepted(st)
      BY <1>2, <1>8
    <3> QED
      BY <1>1, <2>1, <3>1, <3>2
  <2>3. y.nth \in 1..MaxResults
    <3>1. y.nth \in 1..Len(lives[st]) /\ Len(lives[st]) = sender[st].nth
      BY <2>1 DEF IInv, Settled, LivesTold
    <3>2. sender[st].nth <= MaxResults /\ lives[st] \in Seq(0..MaxRestarts)
      BY <1>0, <2>1 DEF Bounded, TypeOK
    <3>3. Len(lives[st]) \in Nat
      BY <3>2
    <3> QED
      BY <3>1, <3>2, <3>3, SpectralAssumption
  <2>4. \A k \in Lossy!Rows(st) : lives[st][k] = lives[st][y.nth] => k < y.nth
    <3>1. Told(y) /\ Unsettled(y)
      BY <1>8 DEF IInv, Owned
    <3> QED
      BY <3>1 DEF Lossy!Rows, Told, Unsettled
  <2>5. CASE rows' = [rows EXCEPT ![st] = Append(@, y.nth)] /\ lost' = lost
    <3>1. Lossy!Record(st, y.nth)
      BY <2>1, <2>2, <2>4, <2>5 DEF Lossy!Record, acc
    <3> QED
      BY <2>1, <2>3, <3>1 DEF Lossy!Next, Lossy!Settle
  <2>6. CASE lost' = [lost EXCEPT ![st] = @ \cup {y.nth}] /\ rows' = rows
    <3>1. Lossy!Lose(st, y.nth)
      BY <2>1, <2>2, <2>6 DEF Lossy!Lose, acc
    <3> QED
      BY <2>1, <2>3, <3>1 DEF Lossy!Next, Lossy!Settle
  <2> QED
    BY <2>1, <2>5, <2>6
<1>9. ASSUME NEW m \in wire, Receive(m.port, m), UNCHANGED <<passed, hand>>
      PROVE  UNCHANGED Lossy!lossyVars
  BY <1>5, <1>9 DEF Receive, InHands
<1>10. ASSUME NEW p \in Ports, Enqueue(p) PROVE UNCHANGED Lossy!lossyVars
  BY <1>0, <1>5, <1>10, EnqueueHands DEF Enqueue
<1>11. ASSUME NEW w \in Writers, Take(w) PROVE UNCHANGED Lossy!lossyVars
  BY <1>0, <1>5, <1>11, TakeHands DEF Take
<1>12. ASSUME NEW s \in Streams, NEW port \in Ports, NEW first \in FirstSeqs,
              Restart(s, port, first)
       PROVE  UNCHANGED Lossy!lossyVars
  BY <1>5, <1>12 DEF Restart, InHands
<1>13. CASE UNCHANGED vars
  BY <1>5, <1>13 DEF vars, InHands
<1> QED
  BY <1>0, <1>6, <1>7, <1>8, <1>9, <1>10, <1>11, <1>12, <1>13, ReceiveCases, HandOverOrFinish
  DEF Next, HandOver

(***************************************************************************)
(* Whatever the threads do, the Recorder keeps the safety part of what     *)
(* LossyRecorder promises: a result is accepted once and in turn, is lost  *)
(* only with a count or a log message, and becomes a row behind those of   *)
(* its sender's life that were sent before it.                             *)
(***************************************************************************)
THEOREM SpectralImplementsLossy == ASSUME ~LateLink PROVE Spec => Lossy!Safety
<1>1. Spec => Safety
  BY PTL DEF Spec
<1>2. Safety => []IInv
  BY SafetyInv
<1> QED
  BY <1>1, <1>2, LossyInit, LossyStep, PTL DEF Safety, Lossy!Safety


=============================================================================
