---------------------------- MODULE LossyRecorder ----------------------------
(***************************************************************************)
(* What the Recorder promises of the results of a stream while it runs:    *)
(* it may lose any of them, but knows of those it lost after having        *)
(* accepted them (it counts or logs them); the others become rows, each    *)
(* once, and those of one life of their sender in the order sent.  Ports,  *)
(* threads, queues and Writers are not part of the promise;                *)
(* SpectralRecorder is shown to implement it.                              *)
(***************************************************************************)
EXTENDS Naturals, Sequences

CONSTANTS Streams,
          Numbers,   \* results of a stream, 1 for the first one sent
          Lives      \* starts of a sender, in order

VARIABLES sent,      \* per stream: the life of its sender in which each result was sent
          accepted,  \* per stream: results in the Recorder's hands, by their number
          recorded,  \* per stream: the rows, by the number of their result
          lost       \* per stream: results counted or logged as lost

lossyVars == <<sent, accepted, recorded, lost>>

Rows(s) == {recorded[s][i] : i \in 1..Len(recorded[s])}

Init ==
  /\ sent = [s \in Streams |-> <<>>]
  /\ accepted = [s \in Streams |-> {}]
  /\ recorded = [s \in Streams |-> <<>>]
  /\ lost = [s \in Streams |-> {}]

Send(s, life) ==
  /\ \A i \in 1..Len(sent[s]) : sent[s][i] <= life
  /\ sent' = [sent EXCEPT ![s] = Append(@, life)]
  /\ UNCHANGED <<accepted, recorded, lost>>

\* Results are accepted in the order sent: never one twice, and none out of turn.
Accept(s, n) ==
  /\ n \in 1..Len(sent[s])
  /\ \A k \in accepted[s] \cup Rows(s) \cup lost[s] : k < n
  /\ accepted' = [accepted EXCEPT ![s] = @ \cup {n}]
  /\ UNCHANGED <<sent, recorded, lost>>

Record(s, n) ==
  /\ n \in accepted[s]
  /\ \A k \in Rows(s) : sent[s][k] = sent[s][n] => k < n
  /\ accepted' = [accepted EXCEPT ![s] = @ \ {n}]
  /\ recorded' = [recorded EXCEPT ![s] = Append(@, n)]
  /\ UNCHANGED <<sent, lost>>

Lose(s, n) ==
  /\ n \in accepted[s]
  /\ accepted' = [accepted EXCEPT ![s] = @ \ {n}]
  /\ lost' = [lost EXCEPT ![s] = @ \cup {n}]
  /\ UNCHANGED <<sent, recorded>>

Settle(s, n) == Record(s, n) \/ Lose(s, n)

Next ==
  \E s \in Streams :
    \/ \E life \in Lives : Send(s, life)
    \/ \E n \in Numbers : Accept(s, n) \/ Settle(s, n)

Safety == Init /\ [][Next]_lossyVars

\* Every accepted result becomes a row or is known to be lost.
AllSettled == \A s \in Streams : \A n \in Numbers : n \in accepted[s] ~> n \notin accepted[s]

Spec == Safety /\ AllSettled

=============================================================================
