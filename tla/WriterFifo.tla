----------------------------- MODULE WriterFifo -----------------------------
(***************************************************************************)
(* What a Writer queue promises to the rest of the Recorder: results that  *)
(* were let in leave in the order they came in, none is lost or repeated,  *)
(* the Writer holds one at a time, and every one of them is eventually     *)
(* taken.  Threads, condition variables and byte counts are not part of    *)
(* the promise; SpectrumWriteQueue is shown to implement it.               *)
(***************************************************************************)
EXTENDS Naturals, Sequences

CONSTANT Item,      \* the results that can be queued
         NoItem     \* "the Writer holds nothing"

VARIABLES queue,    \* results let in and not yet taken
          held      \* the result the Writer is writing

fifoVars == <<queue, held>>

Init ==
  /\ queue = <<>>
  /\ held = NoItem

Put(item) ==
  /\ queue' = Append(queue, item)
  /\ UNCHANGED held

Get ==
  /\ held = NoItem
  /\ queue # <<>>
  /\ held' = Head(queue)
  /\ queue' = Tail(queue)

Release ==
  /\ held # NoItem
  /\ held' = NoItem
  /\ UNCHANGED queue

Next == (\E item \in Item : Put(item)) \/ Get \/ Release

Safety == Init /\ [][Next]_fifoVars

Spec == Safety /\ WF_fifoVars(Get) /\ WF_fifoVars(Release)

=============================================================================
