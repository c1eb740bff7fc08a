------------------------------- MODULE SpscRing -------------------------------
(***************************************************************************)
(* The single-producer, single-consumer ring that carries sound samples    *)
(* from the emulation thread to the DSP callback (Utility/SpscRing.h).     *)
(*                                                                         *)
(* Write and Read are split where another thread can interleave: the load  *)
(* of the peer's index, every single copied sample, and the store that     *)
(* publishes the new index.  A thread's own index is changed by no other   *)
(* thread, so the local copy the code keeps of it is the variable itself.  *)
(* Each index is written by one thread only, with release, and read by the *)
(* other with acquire, so sequentially consistent steps lose no behaviour. *)
(*                                                                         *)
(* A sample is its position in the stream of accepted samples.  accepted   *)
(* and taken are history variables: the program has no such counters.      *)
(***************************************************************************)
EXTENDS Integers, Sequences

CONSTANTS Capacity,     \* slots of the ring
          MaxCount,     \* the largest count a caller passes
          MaxAccepted   \* bound of the history counter, for model checking

ASSUME CapacityAssumption == Capacity \in Nat /\ Capacity > 1
ASSUME BoundAssumption == MaxCount \in Nat /\ MaxAccepted \in Nat

VARIABLES
    data,               \* the slots
    read, write,        \* the two atomic indices
    accepted, taken,    \* history: samples published, samples handed over
    wAt, wCount, wDone, \* Write: where it is, its clipped count, samples copied
    rAt, rCount,        \* Read: where it is, its clipped count
    dest,               \* what Read has copied out so far
    delivered,          \* history: what the latest completed Read returned
    sAt, sRead, sTaken, \* Size: where it is, the index it loaded, taken then
    size                \* the latest result of Size

ringVars == <<data, read, write, accepted, taken>>
writerVars == <<wAt, wCount, wDone>>
readerVars == <<rAt, rCount, dest, delivered>>
sizeVars == <<sAt, sRead, sTaken, size>>
vars == <<ringVars, writerVars, readerVars, sizeVars>>

Slots == 0..(Capacity - 1)

Least(a, b) == IF a <= b THEN a ELSE b

\* The slot k places after index i: copy_n to data+i first, then to data.
\* The same slot is (i + k) % capacity, the form of the two index stores:
\* no count exceeds capacity - 1, so the modulus subtracts capacity once.
SlotAt(i, k) == IF k < Capacity - i THEN i + k ELSE k - (Capacity - i)

\* Mutant: no slot is kept free.
Free_NoGap(r, w) == IF r > w THEN r - w ELSE Capacity - w + r

\* free, as Write computes it from its own index w and the loaded index r.
Free(r, w) == IF r > w THEN r - w - 1 ELSE Capacity - w + r - 1

\* available, as Read and Size compute it.
Available(r, w) == IF w >= r THEN w - r ELSE Capacity - r + w

Init ==
    /\ data = [i \in Slots |-> 0]
    /\ read = 0 /\ write = 0
    /\ accepted = 0 /\ taken = 0
    /\ wAt = "idle" /\ wCount = 0 /\ wDone = 0
    /\ rAt = "idle" /\ rCount = 0 /\ dest = <<>> /\ delivered = <<>>
    /\ sAt = "idle" /\ sRead = 0 /\ sTaken = 0 /\ size = 0
-------------------------------------------------------------------------------
\* The producer: Write(source, n).
WriteStart(n) ==
    /\ wAt = "idle"
    /\ accepted + n <= MaxAccepted
    /\ wAt' = "copy"
    /\ wCount' = Least(n, Free(read, write))
    /\ wDone' = 0
    /\ UNCHANGED <<ringVars, readerVars, sizeVars>>

WriteCopy ==
    /\ wAt = "copy" /\ wDone < wCount
    /\ data' = [data EXCEPT ![SlotAt(write, wDone)] = accepted + wDone + 1]
    /\ wDone' = wDone + 1
    /\ UNCHANGED <<read, write, accepted, taken, wAt, wCount, readerVars, sizeVars>>

WritePublish ==
    /\ wAt = "copy" /\ wDone = wCount
    /\ write' = SlotAt(write, wCount)
    /\ accepted' = accepted + wCount
    /\ wAt' = "idle"
    /\ UNCHANGED <<data, read, taken, wCount, wDone, readerVars, sizeVars>>
-------------------------------------------------------------------------------
\* The consumer: Read(destination, n).
ReadStart(n) ==
    /\ rAt = "idle"
    /\ rAt' = "copy"
    /\ rCount' = Least(n, Available(read, write))
    /\ dest' = <<>>
    /\ UNCHANGED <<ringVars, writerVars, delivered, sizeVars>>

ReadCopy ==
    /\ rAt = "copy" /\ Len(dest) < rCount
    /\ dest' = Append(dest, data[SlotAt(read, Len(dest))])
    /\ UNCHANGED <<ringVars, writerVars, rAt, rCount, delivered, sizeVars>>

\* Mutant: the consumer skips to the producer's index, whatever it copied.
ReadPublish_SkipsAll ==
    /\ rAt = "copy" /\ Len(dest) = rCount
    /\ read' = write
    /\ taken' = taken + rCount
    /\ delivered' = dest
    /\ rAt' = "idle"
    /\ UNCHANGED <<data, write, accepted, writerVars, rCount, dest, sizeVars>>

ReadPublish ==
    /\ rAt = "copy" /\ Len(dest) = rCount
    /\ read' = SlotAt(read, rCount)
    /\ taken' = taken + rCount
    /\ delivered' = dest
    /\ rAt' = "idle"
    /\ UNCHANGED <<data, write, accepted, writerVars, rCount, dest, sizeVars>>
-------------------------------------------------------------------------------
\* Size, called by neither user: the two loads are two steps.
SizeStart ==
    /\ sAt = "idle"
    /\ sAt' = "loaded"
    /\ sRead' = read
    /\ sTaken' = taken
    /\ UNCHANGED <<ringVars, writerVars, readerVars, size>>

\* Mutant: equal indices are taken for a full ring.
SizeFinish_EmptyIsFull ==
    /\ sAt = "loaded"
    /\ sAt' = "idle"
    /\ size' = IF write > sRead THEN write - sRead ELSE Capacity - sRead + write
    /\ UNCHANGED <<ringVars, writerVars, readerVars, sRead, sTaken>>

SizeFinish ==
    /\ sAt = "loaded"
    /\ sAt' = "idle"
    /\ size' = Available(sRead, write)
    /\ UNCHANGED <<ringVars, writerVars, readerVars, sRead, sTaken>>

\* Reset, under the precondition its comment states: everyone is quiescent.
Reset ==
    /\ wAt = "idle" /\ rAt = "idle" /\ sAt = "idle"
    /\ read' = 0 /\ write' = 0
    /\ taken' = accepted
    /\ UNCHANGED <<data, accepted, writerVars, readerVars, sizeVars>>
-------------------------------------------------------------------------------
Write == (\E n \in 0..MaxCount : WriteStart(n)) \/ WriteCopy \/ WritePublish
Read == (\E n \in 0..MaxCount : ReadStart(n)) \/ ReadCopy \/ ReadPublish
Size == SizeStart \/ SizeFinish

Next == Write \/ Read \/ Size \/ Reset

Spec == Init /\ [][Next]_vars
-------------------------------------------------------------------------------
TypeOK ==
    /\ data \in [Slots -> Nat]
    /\ read \in Slots /\ write \in Slots
    /\ accepted \in Nat /\ taken \in Nat
    /\ wAt \in {"idle", "copy"} /\ wCount \in Nat /\ wDone \in Nat
    /\ rAt \in {"idle", "copy"} /\ rCount \in Nat
    /\ dest \in Seq(Nat) /\ delivered \in Seq(Nat)
    /\ sAt \in {"idle", "loaded"} /\ sRead \in Slots /\ sTaken \in Nat
    /\ size \in Nat

\* The slots a call in progress has still to touch.
ToWrite == IF wAt = "copy" THEN {SlotAt(write, k) : k \in wDone..(wCount - 1)} ELSE {}
ToRead == IF rAt = "copy" THEN {SlotAt(read, k) : k \in Len(dest)..(rCount - 1)} ELSE {}

\* The plain (non-atomic) copies of the two threads never touch one slot at a
\* time, although each works from an index the other may have moved since.
NoDataRace == ToWrite \cap ToRead = {}

\* Every sample Read has copied is the next one of the stream: nothing that
\* Write accepted is lost, handed over twice, or handed over out of order.
InOrder == rAt = "copy" => \A k \in 1..Len(dest) : dest[k] = taken + k

\* The indices always describe exactly the samples that are in the ring: one
\* slot stays free, so a full ring is never mistaken for an empty one.
IndicesCount == Available(read, write) = accepted - taken

\* Size is exact when no Read completed between its two loads, which is what
\* the diagnostic capture relies on after it has shut the callback out.
SizeExact ==
    [][SizeFinish /\ taken = sTaken => size' = accepted - taken]_vars

\* The buffered samples, as the slots between the indices hold them.
Buffered == [k \in 1..Available(read, write) |-> data[SlotAt(read, k - 1)]]

Queue == INSTANCE SampleQueue WITH Bound <- Capacity - 1, queue <- Buffered

\* With every interleaving of the copies, Write and Read look atomic: the ring
\* implements the bounded queue.
IsQueue == Queue!QSpec
===============================================================================
