---------------------------- MODULE SpscRing_proofs ----------------------------
(***************************************************************************)
(* Proofs about SpscRing, for every capacity, every batch size and every   *)
(* length of the stream.  The invariant says what a call in progress may   *)
(* rely on: the count it clipped to can only become more generous while it *)
(* copies, because the peer moves its index one way only.                  *)
(***************************************************************************)
EXTENDS SpscRing, SequenceTheorems, TLAPS

\* The slots between the indices hold the stream from taken on.
Content ==
    \A k \in Nat : k < Available(read, write) => data[SlotAt(read, k)] = taken + k + 1

\* Write stays inside the free slots; what it has copied is there.
WriterInside ==
    wAt = "copy" =>
        /\ wDone <= wCount
        /\ wCount <= Free(read, write)
        /\ \A k \in Nat : k < wDone => data[SlotAt(write, k)] = accepted + k + 1

\* Read stays inside the occupied slots.
ReaderInside ==
    rAt = "copy" => Len(dest) <= rCount /\ rCount <= Available(read, write)

\* Between the loads of Size the read index moves only as taken does.
SizeInside ==
    sAt = "loaded" => sTaken <= taken /\ (sTaken = taken => sRead = read)

Inv ==
    /\ TypeOK /\ IndicesCount /\ Content /\ InOrder
    /\ WriterInside /\ ReaderInside /\ SizeInside

(***************************************************************************)
(* Arithmetic of the slots: SlotAt is a slot, is injective on distances    *)
(* below the capacity, and what is written goes where nothing is read.     *)
(***************************************************************************)
LEMMA SlotRange ==
    ASSUME NEW i \in Slots, NEW k \in Nat, k < Capacity
    PROVE  SlotAt(i, k) \in Slots
BY CapacityAssumption DEF SlotAt, Slots

LEMMA SlotInjective ==
    ASSUME NEW i \in Slots, NEW j \in Nat, NEW k \in Nat,
           j < Capacity, k < Capacity, SlotAt(i, j) = SlotAt(i, k)
    PROVE  j = k
BY CapacityAssumption DEF SlotAt, Slots

LEMMA FreeAndAvailable ==
    ASSUME NEW r \in Slots, NEW w \in Slots
    PROVE  /\ Available(r, w) \in Nat /\ Free(r, w) \in Nat
           /\ Available(r, w) + Free(r, w) = Capacity - 1
BY CapacityAssumption DEF Available, Free, Slots

\* A free slot at distance k from write is at distance Available + k from read.
LEMMA FreeSlot ==
    ASSUME NEW r \in Slots, NEW w \in Slots, NEW k \in Nat, k < Free(r, w)
    PROVE  SlotAt(w, k) = SlotAt(r, Available(r, w) + k)
BY CapacityAssumption DEF Available, Free, Slots, SlotAt

LEMMA Apart ==
    ASSUME NEW r \in Slots, NEW w \in Slots, NEW j \in Nat, NEW k \in Nat,
           j < Available(r, w), k < Free(r, w)
    PROVE  SlotAt(r, j) # SlotAt(w, k)
<1>1. SlotAt(w, k) = SlotAt(r, Available(r, w) + k)  BY FreeSlot
<1>2. /\ Available(r, w) + k \in Nat /\ Available(r, w) + k < Capacity
      /\ j < Capacity /\ j # Available(r, w) + k
    BY FreeAndAvailable, CapacityAssumption
<1>3. QED  BY <1>1, <1>2, SlotInjective

\* Publishing n free slots moves n from Free to Available.
LEMMA Publish ==
    ASSUME NEW r \in Slots, NEW w \in Slots, NEW n \in Nat, n <= Free(r, w)
    PROVE  /\ SlotAt(w, n) \in Slots
           /\ Available(r, SlotAt(w, n)) = Available(r, w) + n
BY CapacityAssumption DEF Available, Free, Slots, SlotAt

\* Consuming n samples moves n from Available to Free, and distances shrink.
LEMMA Consume ==
    ASSUME NEW r \in Slots, NEW w \in Slots, NEW n \in Nat, n <= Available(r, w)
    PROVE  /\ SlotAt(r, n) \in Slots
           /\ Available(SlotAt(r, n), w) = Available(r, w) - n
           /\ Free(SlotAt(r, n), w) = Free(r, w) + n
           /\ \A k \in Nat : k < Available(r, w) - n
                  => SlotAt(SlotAt(r, n), k) = SlotAt(r, n + k)
BY CapacityAssumption DEF Available, Free, Slots, SlotAt
-------------------------------------------------------------------------------
\* The initial states satisfy the invariant.
LEMMA InitInv == Init => Inv
<1> SUFFICES ASSUME Init PROVE Inv  OBVIOUS
<1> USE CapacityAssumption DEF Init
<1>1. TypeOK  BY DEF TypeOK, Slots
<1>2. Available(read, write) = 0  BY DEF Available
<1>3. IndicesCount /\ Content  BY <1>2 DEF IndicesCount, Content
<1>4. QED
    BY <1>1, <1>3 DEF Inv, InOrder, WriterInside, ReaderInside, SizeInside

\* Every step preserves the invariant; one step of the proof per action.
LEMMA NextInv == Inv /\ [Next]_vars => Inv'
<1> SUFFICES ASSUME Inv, [Next]_vars PROVE Inv'  OBVIOUS
<1> USE DEF ringVars, writerVars, readerVars, sizeVars
<1>a. /\ read \in Slots /\ write \in Slots /\ data \in [Slots -> Nat]
      /\ accepted \in Nat /\ taken \in Nat /\ wCount \in Nat /\ wDone \in Nat
      /\ rCount \in Nat /\ dest \in Seq(Nat) /\ Len(dest) \in Nat
      /\ sRead \in Slots /\ sTaken \in Nat /\ size \in Nat
      /\ delivered \in Seq(Nat)
    BY DEF Inv, TypeOK
<1>b. /\ Available(read, write) \in Nat /\ Free(read, write) \in Nat
      /\ Available(read, write) + Free(read, write) = Capacity - 1
    BY <1>a, FreeAndAvailable
<1>1. ASSUME NEW n \in 0..MaxCount, WriteStart(n) PROVE Inv'
    <2>1. wCount' \in Nat /\ wCount' <= Free(read, write)
        BY <1>1, <1>b, BoundAssumption DEF WriteStart, Least
    <2>2. TypeOK'  BY <1>1, <2>1 DEF Inv, TypeOK, WriteStart
    <2>3. QED
        BY <1>1, <2>1, <2>2 DEF WriteStart, Inv, IndicesCount, Content, InOrder,
            WriterInside, ReaderInside, SizeInside
<1>2. CASE WriteCopy
    <2> DEFINE s == SlotAt(write, wDone)
    <2>1. wDone < Free(read, write) /\ wDone < wCount
        BY <1>2, <1>a, <1>b DEF WriteCopy, Inv, WriterInside
    <2>2. s \in Slots  BY <1>a, <1>b, <2>1, SlotRange, CapacityAssumption
    <2>3. data' = [data EXCEPT ![s] = accepted + wDone + 1]  BY <1>2 DEF WriteCopy
    <2>4. TypeOK'  BY <1>a, <1>2, <2>2, <2>3 DEF Inv, TypeOK, WriteCopy
    <2>5. Content'
        <3>1. ASSUME NEW k \in Nat, k < Available(read, write)
              PROVE  data'[SlotAt(read, k)] = taken + k + 1
            <4>1. SlotAt(read, k) # s  BY <1>a, <2>1, <3>1, Apart
            <4>2. SlotAt(read, k) \in Slots
                BY <1>a, <1>b, <3>1, SlotRange, CapacityAssumption
            <4>3. data'[SlotAt(read, k)] = data[SlotAt(read, k)]
                BY <1>a, <2>3, <4>1, <4>2
            <4>4. QED  BY <3>1, <4>3 DEF Inv, Content
        <3>2. QED  BY <1>2, <3>1 DEF Content, WriteCopy
    <2>6. WriterInside'
        <3>1. ASSUME NEW k \in Nat, k < wDone + 1
              PROVE  data'[SlotAt(write, k)] = accepted + k + 1
            <4>1. CASE k = wDone  BY <1>a, <2>2, <2>3, <4>1
            <4>2. CASE k < wDone
                <5>1. k < Capacity /\ wDone < Capacity /\ k # wDone
                    BY <1>a, <1>b, <2>1, <4>2, CapacityAssumption
                <5>2. SlotAt(write, k) \in Slots  BY <1>a, <5>1, SlotRange
                <5>3. SlotAt(write, k) # s  BY <1>a, <5>1, SlotInjective
                <5>4. data'[SlotAt(write, k)] = data[SlotAt(write, k)]
                    BY <1>a, <2>3, <5>2, <5>3
                <5>5. QED  BY <1>2, <4>2, <5>4 DEF Inv, WriterInside, WriteCopy
            <4>3. QED  BY <1>a, <3>1, <4>1, <4>2
        <3>2. wDone' = wDone + 1 /\ wDone + 1 <= wCount  BY <1>2, <1>a, <2>1 DEF WriteCopy
        <3>3. wCount <= Free(read, write)  BY <1>2 DEF Inv, WriterInside, WriteCopy
        <3>4. QED  BY <1>2, <3>1, <3>2, <3>3 DEF WriterInside, WriteCopy
    <2>7. QED
        BY <1>2, <2>4, <2>5, <2>6 DEF WriteCopy, Inv, IndicesCount, InOrder,
            ReaderInside, SizeInside
<1>3. CASE WritePublish
    <2>1. wCount <= Free(read, write) /\ wDone = wCount
        BY <1>3 DEF WritePublish, Inv, WriterInside
    <2>2. /\ write' \in Slots
          /\ Available(read, write') = Available(read, write) + wCount
        BY <1>3, <1>a, <2>1, Publish DEF WritePublish
    <2>3. TypeOK'  BY <1>a, <1>3, <2>2 DEF Inv, TypeOK, WritePublish
    <2>4. Content'
        <3>1. ASSUME NEW k \in Nat, k < Available(read, write) + wCount
              PROVE  data[SlotAt(read, k)] = taken + k + 1
            <4>1. CASE k < Available(read, write)  BY <4>1 DEF Inv, Content
            <4>2. CASE ~(k < Available(read, write))
                <5> DEFINE j == k - Available(read, write)
                <5>1. j \in Nat /\ j < wCount /\ j < Free(read, write)
                    BY <1>a, <1>b, <2>1, <3>1, <4>2
                <5>2. SlotAt(write, j) = SlotAt(read, k)
                    BY <1>a, <1>b, <5>1, FreeSlot
                <5>3. data[SlotAt(write, j)] = accepted + j + 1
                    BY <1>3, <2>1, <5>1 DEF Inv, WriterInside, WritePublish
                <5>4. Available(read, write) = accepted - taken
                    BY DEF Inv, IndicesCount
                <5>5. QED  BY <1>a, <1>b, <5>2, <5>3, <5>4
            <4>3. QED  BY <4>1, <4>2
        <3>2. QED  BY <1>3, <2>2, <3>1 DEF Content, WritePublish
    <2>5. IndicesCount'
        BY <1>3, <1>a, <2>2 DEF Inv, IndicesCount, WritePublish
    <2>6. ReaderInside'
        BY <1>3, <1>a, <1>b, <2>2 DEF Inv, ReaderInside, WritePublish
    <2>7. QED
        BY <1>3, <2>3, <2>4, <2>5, <2>6 DEF WritePublish, Inv, InOrder,
            WriterInside, SizeInside
<1>4. ASSUME NEW n \in 0..MaxCount, ReadStart(n) PROVE Inv'
    <2>1. rCount' \in Nat /\ rCount' <= Available(read, write)
        BY <1>4, <1>b, BoundAssumption DEF ReadStart, Least
    <2>2. dest' = <<>> /\ Len(dest') = 0  BY <1>4 DEF ReadStart
    <2>3. TypeOK'  BY <1>4, <2>1, <2>2 DEF Inv, TypeOK, ReadStart
    <2>4. QED
        BY <1>4, <2>1, <2>2, <2>3 DEF ReadStart, Inv, IndicesCount, Content,
            InOrder, WriterInside, ReaderInside, SizeInside
<1>5. CASE ReadCopy
    <2> DEFINE m == Len(dest)
    <2>1. m \in Nat /\ m < rCount /\ m < Available(read, write)
        BY <1>5, <1>a, <1>b DEF ReadCopy, Inv, ReaderInside
    <2>2. SlotAt(read, m) \in Slots
        BY <1>a, <1>b, <2>1, SlotRange, CapacityAssumption
    <2>3. data[SlotAt(read, m)] = taken + m + 1 /\ data[SlotAt(read, m)] \in Nat
        BY <1>a, <2>1, <2>2 DEF Inv, Content
    <2>4. dest' = Append(dest, data[SlotAt(read, m)])  BY <1>5 DEF ReadCopy
    <2>5. /\ dest' \in Seq(Nat) /\ Len(dest') = m + 1
          /\ \A k \in 1..m : dest'[k] = dest[k]
          /\ dest'[m + 1] = taken + m + 1
        BY <1>a, <2>3, <2>4
    <2>6. TypeOK'  BY <1>5, <2>5 DEF Inv, TypeOK, ReadCopy
    <2>7. InOrder'
        <3>1. \A k \in 1..m : dest[k] = taken + k
            BY <1>5 DEF Inv, InOrder, ReadCopy
        <3>2. ASSUME NEW k \in 1..(m + 1) PROVE dest'[k] = taken + k
            <4>1. CASE k = m + 1  BY <1>a, <2>1, <2>5, <4>1
            <4>2. CASE k # m + 1
                <5>1. k \in 1..m  BY <2>1, <4>2
                <5>2. QED  BY <2>5, <3>1, <5>1
            <4>3. QED  BY <4>1, <4>2
        <3>3. QED  BY <1>5, <2>5, <3>2 DEF InOrder, ReadCopy
    <2>8. ReaderInside'
        <3>1. m + 1 <= rCount  BY <1>a, <2>1
        <3>2. rCount <= Available(read, write)  BY <1>5 DEF Inv, ReaderInside, ReadCopy
        <3>3. QED  BY <1>5, <2>5, <3>1, <3>2 DEF ReaderInside, ReadCopy
    <2>9. QED
        BY <1>5, <2>6, <2>7, <2>8 DEF ReadCopy, Inv, IndicesCount, Content,
            WriterInside, SizeInside
<1>6. CASE ReadPublish
    <2>1. rCount <= Available(read, write)  BY <1>6 DEF ReadPublish, Inv, ReaderInside
    <2>2. /\ read' = SlotAt(read, rCount) /\ read' \in Slots
          /\ Available(read', write) = Available(read, write) - rCount
          /\ Free(read', write) = Free(read, write) + rCount
          /\ \A k \in Nat : k < Available(read, write) - rCount
                 => SlotAt(read', k) = SlotAt(read, rCount + k)
        BY <1>6, <1>a, <2>1, Consume DEF ReadPublish
    <2>3. TypeOK'  BY <1>a, <1>6, <2>2 DEF Inv, TypeOK, ReadPublish
    <2>4. Content'
        <3>1. ASSUME NEW k \in Nat, k < Available(read, write) - rCount
              PROVE  data[SlotAt(read', k)] = taken + rCount + k + 1
            <4>1. rCount + k \in Nat /\ rCount + k < Available(read, write)
                BY <1>a, <1>b, <3>1
            <4>2. data[SlotAt(read, rCount + k)] = taken + (rCount + k) + 1
                BY <4>1 DEF Inv, Content
            <4>3. SlotAt(read', k) = SlotAt(read, rCount + k)  BY <2>2, <3>1
            <4>4. QED  BY <1>a, <4>2, <4>3
        <3>2. QED  BY <1>6, <2>2, <3>1 DEF Content, ReadPublish
    <2>5. IndicesCount'
        BY <1>6, <1>a, <2>2 DEF Inv, IndicesCount, ReadPublish
    <2>6. WriterInside'
        BY <1>6, <1>a, <1>b, <2>2 DEF Inv, WriterInside, ReadPublish
    <2>7. SizeInside'
        <3>1. CASE rCount = 0
            <4>1. read' = read  BY <1>a, <2>2, <3>1, CapacityAssumption DEF SlotAt, Slots
            <4>2. taken' = taken  BY <1>6, <1>a, <3>1 DEF ReadPublish
            <4>3. QED  BY <1>6, <4>1, <4>2 DEF Inv, SizeInside, ReadPublish
        <3>2. CASE rCount # 0
            BY <1>6, <1>a, <3>2 DEF Inv, SizeInside, ReadPublish
        <3>3. QED  BY <3>1, <3>2
    <2>8. QED
        BY <1>6, <2>3, <2>4, <2>5, <2>6, <2>7 DEF ReadPublish, Inv, InOrder, ReaderInside
<1>7. CASE SizeStart
    BY <1>7, <1>a DEF SizeStart, Inv, TypeOK, IndicesCount, Content, InOrder,
        WriterInside, ReaderInside, SizeInside
<1>8. CASE SizeFinish
    <2>1. size' \in Nat  BY <1>8, <1>a, FreeAndAvailable DEF SizeFinish
    <2>2. QED
        BY <1>8, <2>1 DEF SizeFinish, Inv, TypeOK, IndicesCount, Content, InOrder,
            WriterInside, ReaderInside, SizeInside
<1>9. CASE Reset
    <2>1. read' \in Slots /\ write' \in Slots /\ Available(read', write') = 0
        BY <1>9, CapacityAssumption DEF Reset, Available, Slots
    <2>2. TypeOK'  BY <1>9, <1>a, <2>1 DEF Inv, TypeOK, Reset
    <2>3. IndicesCount' /\ Content'
        BY <1>9, <1>a, <2>1 DEF Reset, IndicesCount, Content
    <2>4. QED
        BY <1>9, <2>2, <2>3 DEF Reset, Inv, InOrder, WriterInside, ReaderInside, SizeInside
<1>10. CASE UNCHANGED vars
    BY <1>10 DEF vars, Inv, TypeOK, IndicesCount, Content, InOrder, WriterInside,
        ReaderInside, SizeInside
<1>11. QED
    BY <1>1, <1>2, <1>3, <1>4, <1>5, <1>6, <1>7, <1>8, <1>9, <1>10
    DEF Next, Write, Read, Size
-------------------------------------------------------------------------------
\* The invariant holds in every reachable state.
THEOREM Invariant == Spec => []Inv
BY InitInv, NextInv, PTL DEF Spec

\* The variables keep their types: no index ever leaves the array.
THEOREM TypeCorrect == Spec => []TypeOK
<1>1. Inv => TypeOK  BY DEF Inv
<1>2. QED  BY <1>1, Invariant, PTL

\* The two unsynchronised copies never touch the same slot, at any capacity.
THEOREM RaceFree == Spec => []NoDataRace
<1>1. ASSUME Inv PROVE NoDataRace
    <2> SUFFICES ASSUME wAt = "copy", rAt = "copy",
                        NEW k \in wDone..(wCount - 1), NEW j \in Len(dest)..(rCount - 1),
                        SlotAt(write, k) = SlotAt(read, j)
                 PROVE  FALSE
        BY DEF NoDataRace, ToWrite, ToRead
    <2>1. /\ read \in Slots /\ write \in Slots /\ wDone \in Nat /\ wCount \in Nat
          /\ rCount \in Nat /\ Len(dest) \in Nat
        BY <1>1 DEF Inv, TypeOK
    <2>2. wCount <= Free(read, write) /\ rCount <= Available(read, write)
        BY <1>1 DEF Inv, WriterInside, ReaderInside
    <2>3. Available(read, write) \in Nat /\ Free(read, write) \in Nat
        BY <2>1, FreeAndAvailable
    <2>4. k \in Nat /\ j \in Nat /\ k < Free(read, write) /\ j < Available(read, write)
        BY <2>1, <2>2, <2>3
    <2>5. QED  BY <2>1, <2>4, Apart
<1>2. QED  BY <1>1, Invariant, PTL

\* What Read hands over is the stream of accepted samples, in order.
THEOREM ReadsInOrder == Spec => [](InOrder /\ IndicesCount)
<1>1. Inv => InOrder /\ IndicesCount  BY DEF Inv
<1>2. QED  BY <1>1, Invariant, PTL

\* Size is exact whenever no Read completed between its two loads.
THEOREM SizeIsExact == Spec => SizeExact
<1>1. ASSUME Inv, SizeFinish, taken = sTaken PROVE size' = accepted - taken
    BY <1>1 DEF Inv, SizeInside, SizeFinish, IndicesCount
<1>2. QED  BY <1>1, Invariant, PTL DEF SizeExact
-------------------------------------------------------------------------------
(***************************************************************************)
(* The ring implements the bounded queue.  Content makes the mapped queue  *)
(* a stretch of the stream, so each publication is one step of the queue.  *)
(***************************************************************************)
\* n samples of the stream, the first of them after position t.
Stretch(t, n) == [k \in 1..n |-> t + k]

LEMMA StretchSeq ==
    ASSUME NEW t \in Nat, NEW n \in Nat
    PROVE  Stretch(t, n) \in Seq(Nat) /\ Len(Stretch(t, n)) = n
BY DEF Stretch

LEMMA StretchConcat ==
    ASSUME NEW t \in Nat, NEW m \in Nat, NEW n \in Nat
    PROVE  Stretch(t, m) \o Stretch(t + m, n) = Stretch(t, m + n)
<1> DEFINE a == Stretch(t, m)
           b == Stretch(t + m, n)
           c == Stretch(t, m + n)
<1>1. a \in Seq(Nat) /\ Len(a) = m /\ \A i \in 1..m : a[i] = t + i
    BY StretchSeq DEF Stretch
<1>2. b \in Seq(Nat) /\ Len(b) = n /\ \A i \in 1..n : b[i] = t + m + i
    <2>1. t + m \in Nat  OBVIOUS
    <2>2. QED  BY <2>1, StretchSeq DEF Stretch
<1>3. c \in Seq(Nat) /\ Len(c) = m + n /\ \A i \in 1..(m + n) : c[i] = t + i
    <2>1. m + n \in Nat  OBVIOUS
    <2>2. QED  BY <2>1, StretchSeq DEF Stretch
<1> HIDE DEF a, b, c
<1>4. /\ a \o b \in Seq(Nat) /\ Len(a \o b) = m + n
      /\ \A i \in 1..(m + n) : (a \o b)[i] = IF i <= m THEN a[i] ELSE b[i - m]
    BY <1>1, <1>2, ConcatProperties
<1>5. ASSUME NEW i \in 1..(m + n) PROVE (a \o b)[i] = c[i]
    <2>1. CASE i <= m
        <3>1. (a \o b)[i] = a[i] /\ i \in 1..m  BY <1>4, <2>1
        <3>2. QED  BY <1>1, <1>3, <3>1
    <2>2. CASE ~(i <= m)
        <3>1. (a \o b)[i] = b[i - m] /\ i - m \in 1..n  BY <1>4, <2>2
        <3>2. b[i - m] = t + m + (i - m)  BY <1>2, <3>1
        <3>3. QED  BY <1>3, <3>1, <3>2
    <2>3. QED  BY <2>1, <2>2
<1>6. a \o b = c  BY <1>3, <1>4, <1>5, SeqEqual
<1>7. QED  BY <1>6 DEF a, b, c

LEMMA StretchSubSeq ==
    ASSUME NEW t \in Nat, NEW m \in Nat, NEW n \in Nat, n <= m
    PROVE  /\ SubSeq(Stretch(t, m), 1, n) = Stretch(t, n)
           /\ SubSeq(Stretch(t, m), n + 1, m) = Stretch(t + n, m - n)
BY DEF Stretch

\* The mapped queue is the stretch of the stream from taken to accepted.
QueueForm ==
    /\ Buffered = Stretch(taken, accepted - taken)
    /\ accepted - taken \in 0..(Capacity - 1)
    /\ taken \in Nat /\ accepted \in Nat

LEMMA MappedQueue == Inv => QueueForm
<1> SUFFICES ASSUME Inv PROVE QueueForm  OBVIOUS
<1>1. /\ read \in Slots /\ write \in Slots /\ taken \in Nat /\ accepted \in Nat
      /\ Available(read, write) = accepted - taken
    BY DEF Inv, TypeOK, IndicesCount
<1>2. accepted - taken \in 0..(Capacity - 1)
    BY <1>1, FreeAndAvailable, CapacityAssumption
<1>3. ASSUME NEW k \in 1..(accepted - taken)
      PROVE  data[SlotAt(read, k - 1)] = taken + k
    <2>1. k - 1 \in Nat /\ k - 1 < Available(read, write)  BY <1>1, <1>2
    <2>2. data[SlotAt(read, k - 1)] = taken + (k - 1) + 1  BY <2>1 DEF Inv, Content
    <2>3. QED  BY <1>1, <2>2
<1>4. QED  BY <1>1, <1>2, <1>3 DEF QueueForm, Buffered, Stretch

\* Every step of the ring is a step of the queue, or leaves the queue alone.
LEMMA StepRefines ==
    ASSUME Inv, QueueForm, QueueForm', [Next]_vars
    PROVE  [Queue!QNext]_(Queue!qvars)
<1> USE DEF ringVars, writerVars, readerVars, sizeVars
<1>1. /\ Buffered = Stretch(taken, accepted - taken)
      /\ accepted - taken \in 0..(Capacity - 1) /\ taken \in Nat /\ accepted \in Nat
    BY DEF QueueForm
<1>2. /\ Buffered' = Stretch(taken', accepted' - taken')
      /\ accepted' - taken' \in 0..(Capacity - 1) /\ taken' \in Nat /\ accepted' \in Nat
    BY DEF QueueForm
<1>3. wCount \in Nat /\ rCount \in Nat /\ dest \in Seq(Nat)  BY DEF Inv, TypeOK
<1>4. CASE accepted' = accepted /\ taken' = taken /\ delivered' = delivered
    BY <1>1, <1>2, <1>4 DEF Queue!qvars
<1>5. CASE WritePublish
    <2>1. accepted' = accepted + wCount /\ taken' = taken /\ delivered' = delivered
        BY <1>5 DEF WritePublish
    <2>2. wCount \in 0..(Capacity - 1) /\ (accepted - taken) + wCount <= Capacity - 1
        BY <1>1, <1>2, <1>3, <2>1, CapacityAssumption
    <2>3. Len(Buffered) = accepted - taken  BY <1>1, StretchSeq
    <2>4. Buffered' = Buffered \o [k \in 1..wCount |-> accepted + k]
        <3>1. Stretch(taken, accepted - taken) \o Stretch(taken + (accepted - taken), wCount)
              = Stretch(taken, (accepted - taken) + wCount)
            <4>1. accepted - taken \in Nat  BY <1>1
            <4>2. QED  BY <1>1, <1>3, <4>1, StretchConcat
        <3>2. taken + (accepted - taken) = accepted
              /\ (accepted - taken) + wCount = accepted' - taken'
            BY <1>1, <1>3, <2>1
        <3>3. QED  BY <1>1, <1>2, <2>1, <3>1, <3>2 DEF Stretch
    <2>5. Queue!Accept(wCount)  BY <2>1, <2>2, <2>3, <2>4 DEF Queue!Accept
    <2>6. QED  BY <2>2, <2>5 DEF Queue!QNext
<1>6. CASE ReadPublish
    <2>1. /\ accepted' = accepted /\ taken' = taken + rCount /\ delivered' = dest
          /\ Len(dest) = rCount /\ rAt = "copy"
        BY <1>6 DEF ReadPublish
    <2>2. rCount <= accepted - taken /\ rCount \in 0..(Capacity - 1)
        BY <1>1, <1>2, <1>3, <2>1, CapacityAssumption
    <2>3. Len(Buffered) = accepted - taken  BY <1>1, StretchSeq
    <2>4. SubSeq(Buffered, 1, rCount) = Stretch(taken, rCount)
        <3>1. accepted - taken \in Nat  BY <1>1
        <3>2. QED  BY <1>1, <1>3, <2>2, <3>1, StretchSubSeq
    <2>5. delivered' = SubSeq(Buffered, 1, rCount)
        <3>1. \A k \in 1..rCount : dest[k] = taken + k
            BY <2>1 DEF Inv, InOrder
        <3>2. Stretch(taken, rCount) \in Seq(Nat) /\ Len(Stretch(taken, rCount)) = rCount
            BY <1>1, <1>3, StretchSeq
        <3>3. \A k \in 1..rCount : Stretch(taken, rCount)[k] = taken + k  BY DEF Stretch
        <3>4. dest = Stretch(taken, rCount)
            BY <1>3, <2>1, <3>1, <3>2, <3>3, SeqEqual
        <3>5. QED  BY <2>1, <2>4, <3>4
    <2>6. Buffered' = SubSeq(Buffered, rCount + 1, Len(Buffered))
        <3>1. SubSeq(Buffered, rCount + 1, accepted - taken)
              = Stretch(taken + rCount, (accepted - taken) - rCount)
            <4>1. accepted - taken \in Nat  BY <1>1
            <4>2. rCount \in Nat /\ rCount <= accepted - taken  BY <1>3, <2>2
            <4>3. taken \in Nat  BY <1>1
            <4>4. SubSeq(Stretch(taken, accepted - taken), rCount + 1, accepted - taken)
                  = Stretch(taken + rCount, (accepted - taken) - rCount)
                BY <4>1, <4>2, <4>3, StretchSubSeq, Zenon
            <4>5. QED  BY <1>1, <4>4, Zenon
        <3>2. (accepted - taken) - rCount = accepted' - taken'  BY <1>1, <1>3, <2>1
        <3>3. QED  BY <1>2, <2>1, <2>3, <3>1, <3>2
    <2>7. Queue!Deliver(rCount)  BY <2>1, <2>2, <2>3, <2>5, <2>6 DEF Queue!Deliver
    <2>8. QED  BY <2>2, <2>7 DEF Queue!QNext
<1>7. CASE Reset
    <2>1. accepted' = accepted /\ delivered' = delivered /\ accepted' - taken' = 0
        BY <1>7, <1>1 DEF Reset
    <2>2. Buffered' = <<>>
        <3>1. Buffered' = Stretch(taken', 0)  BY <1>2, <2>1
        <3>2. Stretch(taken', 0) \in Seq(Nat) /\ Len(Stretch(taken', 0)) = 0
            BY <1>2, StretchSeq
        <3>3. QED  BY <3>1, <3>2, EmptySeq
    <2>3. QED  BY <2>1, <2>2 DEF Queue!QNext, Queue!Discard
<1>8. QED
    BY <1>4, <1>5, <1>6, <1>7
    DEF Next, Write, Read, Size, vars, WriteStart, WriteCopy, ReadStart, ReadCopy,
        SizeStart, SizeFinish

\* The ring, with every interleaving of its two users, is the bounded queue.
THEOREM RingIsQueue == Spec => IsQueue
<1>1. Init => Queue!QInit
    BY CapacityAssumption DEF Init, Queue!QInit, Buffered, Available
<1>2. Inv /\ QueueForm /\ QueueForm' /\ [Next]_vars => [Queue!QNext]_(Queue!qvars)
    BY StepRefines
<1>3. QED  BY <1>1, <1>2, Invariant, MappedQueue, PTL DEF Spec, IsQueue, Queue!QSpec
================================================================================
