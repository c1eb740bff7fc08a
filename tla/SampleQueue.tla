------------------------------ MODULE SampleQueue ------------------------------
(***************************************************************************)
(* What the audio ring promises its two users: a bounded FIFO.  A call of  *)
(* Write appends, in one step, a prefix of what it is offered; a call of   *)
(* Read hands over, in one step, the oldest samples.  A sample is known by *)
(* its position in the stream the producer was able to hand over, so loss, *)
(* duplication and reordering are all visible in the values.               *)
(***************************************************************************)
EXTENDS Naturals, Sequences

CONSTANT Bound            \* the most samples the queue ever holds

VARIABLES queue,          \* the buffered samples, oldest first
          accepted,       \* how many samples were ever appended
          delivered       \* what the latest Read returned

qvars == <<queue, accepted, delivered>>

QInit == queue = <<>> /\ accepted = 0 /\ delivered = <<>>

Accept(n) ==
    /\ Len(queue) + n <= Bound
    /\ queue' = queue \o [k \in 1..n |-> accepted + k]
    /\ accepted' = accepted + n
    /\ UNCHANGED delivered

Deliver(n) ==
    /\ n <= Len(queue)
    /\ delivered' = SubSeq(queue, 1, n)
    /\ queue' = SubSeq(queue, n + 1, Len(queue))
    /\ UNCHANGED accepted

\* Reset, which the owner calls between two playbacks.
Discard == queue' = <<>> /\ UNCHANGED <<accepted, delivered>>

QNext == (\E n \in 0..Bound : Accept(n) \/ Deliver(n)) \/ Discard

QSpec == QInit /\ [][QNext]_qvars
================================================================================
