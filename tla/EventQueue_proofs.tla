-------------------------- MODULE EventQueue_proofs --------------------------
(***************************************************************************)
(* Proofs about EventQueue at every range of COUNT, period, delay and queue *)
(* size.  The loop of CPU_AddEvent needs an invariant of its own: what is  *)
(* left of the count is what was asked for less the events passed.         *)
(***************************************************************************)
EXTENDS EventQueue, SequenceTheorems, TLAPS

Event == [type : Types, count : Int, left : Int]

\* The loop of CPU_AddEvent: where it is and what is left of the count.
Loop ==
    /\ adding.at <= Len(events) + 1
    /\ ~Ready =>
          adding.rest = adding.asked - IF adding.at = 1 THEN 0 ELSE events[adding.at - 1].left
    /\ adding.at > 1 => adding.rest > 0

\* Every event is the vertical blank, COMPARE or one of an audio task.
Account ==
    /\ Len(events) + (IF Ready THEN 0 ELSE 1) = 1 + (IF Armed THEN 1 ELSE 0) + tasks
    /\ tasks <= MaxTasks

Inv == TypeOK /\ OneOfEach /\ DeltasExact /\ Ordered /\ RaisedOrArmed /\ Loop /\ Account
-------------------------------------------------------------------------------
\* What the operations on the queue return, an event at a time.

LEMMA Inserted ==
    ASSUME NEW S, NEW q \in Seq(S), NEW k \in 1..(Len(q) + 1), NEW e \in S
    PROVE  /\ InsertAt(q, k, e) \in Seq(S)
           /\ Len(InsertAt(q, k, e)) = Len(q) + 1
           /\ \A i \in 1..(Len(q) + 1) :
                 InsertAt(q, k, e)[i] = IF i < k THEN q[i] ELSE IF i = k THEN e ELSE q[i - 1]
<1> DEFINE a == SubSeq(q, 1, k - 1)  b == SubSeq(q, k, Len(q))
<1>1. /\ a \in Seq(S) /\ Len(a) = k - 1
      /\ \A i \in 1..(k - 1) : a[i] = q[i]
    BY SubSeqProperties
<1>2. /\ b \in Seq(S) /\ Len(b) = Len(q) - k + 1
      /\ \A i \in 1..(Len(q) - k + 1) : b[i] = q[k + i - 1]
    BY SubSeqProperties
<1>3. /\ <<e>> \in Seq(S) /\ Len(<<e>>) = 1 /\ <<e>>[1] = e
    OBVIOUS
<1> HIDE DEF a, b
<1>4. /\ a \o <<e>> \in Seq(S) /\ Len(a \o <<e>>) = k
      /\ \A i \in 1..k : (a \o <<e>>)[i] = IF i < k THEN q[i] ELSE e
    BY <1>1, <1>3, ConcatProperties
<1> DEFINE c == a \o <<e>>
<1> HIDE DEF c
<1>5. /\ c \o b \in Seq(S) /\ Len(c \o b) = Len(q) + 1
      /\ \A i \in 1..(Len(q) + 1) : (c \o b)[i] = IF i <= k THEN c[i] ELSE b[i - k]
    <2>1. c \in Seq(S) /\ Len(c) = k  BY <1>4 DEF c
    <2>2. c \o b \in Seq(S) /\ Len(c \o b) = Len(c) + Len(b)
          /\ \A i \in 1..(Len(c) + Len(b)) : (c \o b)[i] = IF i <= Len(c) THEN c[i] ELSE b[i - Len(c)]
        BY <1>2, <2>1, ConcatProperties
    <2>3. Len(c) + Len(b) = Len(q) + 1  BY <1>2, <2>1
    <2>4. QED  BY <2>1, <2>2, <2>3
<1>6. InsertAt(q, k, e) = c \o b  BY DEF InsertAt, a, b, c
<1>7. QED  BY <1>2, <1>4, <1>5, <1>6 DEF c

LEMMA Removed ==
    ASSUME NEW S, NEW q \in Seq(S), NEW k \in 1..Len(q)
    PROVE  /\ RemoveAt(q, k) \in Seq(S)
           /\ Len(RemoveAt(q, k)) = Len(q) - 1
           /\ \A i \in 1..(Len(q) - 1) : RemoveAt(q, k)[i] = IF i < k THEN q[i] ELSE q[i + 1]
<1> DEFINE a == SubSeq(q, 1, k - 1)  b == SubSeq(q, k + 1, Len(q))
<1>1. /\ a \in Seq(S) /\ Len(a) = k - 1
      /\ \A i \in 1..(k - 1) : a[i] = q[i]
    BY SubSeqProperties
<1>2. /\ b \in Seq(S) /\ Len(b) = Len(q) - k
      /\ \A i \in 1..(Len(q) - k) : b[i] = q[k + i]
    BY SubSeqProperties
<1> HIDE DEF a, b
<1>3. /\ a \o b \in Seq(S) /\ Len(a \o b) = Len(q) - 1
      /\ \A i \in 1..(Len(q) - 1) : (a \o b)[i] = IF i < k THEN a[i] ELSE b[i - k + 1]
    <2>1. /\ a \o b \in Seq(S) /\ Len(a \o b) = Len(a) + Len(b)
          /\ \A i \in 1..(Len(a) + Len(b)) :
                (a \o b)[i] = IF i <= Len(a) THEN a[i] ELSE b[i - Len(a)]
        BY <1>1, <1>2, ConcatProperties
    <2>2. Len(q) \in Nat /\ k \in 1..Len(q)
        OBVIOUS
    <2>3. /\ Len(a) = k - 1 /\ Len(a) + Len(b) = Len(q) - 1
        BY <1>1, <1>2, <2>2
    <2>4. ASSUME NEW i \in 1..(Len(q) - 1)
          PROVE  (a \o b)[i] = IF i < k THEN a[i] ELSE b[i - k + 1]
        <3>1. (a \o b)[i] = IF i <= Len(a) THEN a[i] ELSE b[i - Len(a)]
            BY <2>1, <2>3
        <3>2. (i <= Len(a) <=> i < k) /\ i - Len(a) = i - k + 1
            BY <2>2, <2>3
        <3>3. QED  BY <3>1, <3>2
    <2>5. QED  BY <2>1, <2>3, <2>4
<1>4. RemoveAt(q, k) = a \o b  BY DEF RemoveAt, a, b
<1>5. ASSUME NEW i \in 1..(Len(q) - 1)
      PROVE  RemoveAt(q, k)[i] = IF i < k THEN q[i] ELSE q[i + 1]
    <2>1. CASE i < k
        <3>1. i \in 1..(k - 1)  BY <2>1
        <3>2. QED  BY <1>1, <1>3, <1>4, <2>1, <3>1
    <2>2. CASE i >= k
        <3>1. i - k + 1 \in 1..(Len(q) - k) /\ k + (i - k + 1) = i + 1  BY <2>2
        <3>2. b[i - k + 1] = q[i + 1]  BY <1>2, <3>1
        <3>3. QED  BY <1>3, <1>4, <2>2, <3>2
    <2>3. QED  BY <2>1, <2>2
<1>6. QED  BY <1>3, <1>4, <1>5

LEMMA Elapsed ==
    ASSUME NEW q \in Seq(Event), NEW n \in Int
    PROVE  /\ Elapse(q, n) \in Seq(Event) /\ Len(Elapse(q, n)) = Len(q)
           /\ \A i \in 1..Len(q) :
                 /\ Elapse(q, n)[i].type = q[i].type
                 /\ Elapse(q, n)[i].left = q[i].left - n
                 /\ Elapse(q, n)[i].count = IF i = 1 THEN q[i].count - n ELSE q[i].count
<1> DEFINE r == Elapse(q, n)
<1>1. r = [i \in 1..Len(q) |->
             [q[i] EXCEPT !.count = IF i = 1 THEN q[i].count - n ELSE q[i].count,
                          !.left = q[i].left - n]]
    BY DEF Elapse
<1>2. \A i \in 1..Len(q) : q[i] \in Event  BY ElementOfSeq
<1>3. \A i \in 1..Len(q) :
          /\ r[i] \in Event
          /\ r[i].type = q[i].type /\ r[i].left = q[i].left - n
          /\ r[i].count = IF i = 1 THEN q[i].count - n ELSE q[i].count
    <2> SUFFICES ASSUME NEW i \in 1..Len(q)
                 PROVE  /\ r[i] \in Event
                        /\ r[i].type = q[i].type /\ r[i].left = q[i].left - n
                        /\ r[i].count = IF i = 1 THEN q[i].count - n ELSE q[i].count
        OBVIOUS
    <2> DEFINE c == IF i = 1 THEN q[i].count - n ELSE q[i].count
    <2>1. q[i] = [type |-> q[i].type, count |-> q[i].count, left |-> q[i].left]
          /\ q[i].type \in Types /\ q[i].count \in Int /\ q[i].left \in Int
        BY <1>2 DEF Event
    <2>2. r[i] = [q[i] EXCEPT !.count = c, !.left = q[i].left - n]  BY <1>1
    <2>3. c \in Int  BY <2>1
    <2> HIDE DEF c
    <2>4. r[i] = [type |-> q[i].type, count |-> c, left |-> q[i].left - n]
        BY <2>1, <2>2
    <2>5. QED  BY <2>1, <2>3, <2>4 DEF Event, c
<1>4. r \in [1..Len(q) -> Event]  BY <1>1, <1>3
<1>5. Len(q) \in Nat  OBVIOUS
<1>6. r \in Seq(Event) /\ Len(r) = Len(q)  BY <1>4, <1>5, IsASeq, LenProperties
<1>7. QED  BY <1>3, <1>6

LEMMA Popped ==
    ASSUME NEW q \in Seq(Event), Len(q) > 0
    PROVE  /\ PopEvent(q) \in Seq(Event) /\ Len(PopEvent(q)) = Len(q) - 1
           /\ \A i \in 1..(Len(q) - 1) :
                 /\ PopEvent(q)[i].type = q[i + 1].type
                 /\ PopEvent(q)[i].count = q[i + 1].count
                 /\ PopEvent(q)[i].left = q[i + 1].left - q[1].left
<1> DEFINE t == Tail(q)  r == PopEvent(q)
<1>1. /\ t \in Seq(Event) /\ Len(t) = Len(q) - 1 /\ Head(q) = q[1]
      /\ \A i \in 1..(Len(q) - 1) : t[i] = q[i + 1]
    BY HeadTailProperties, EmptySeq
<1>2. r = [i \in 1..(Len(q) - 1) |-> [t[i] EXCEPT !.left = t[i].left - q[1].left]]
    BY <1>1 DEF PopEvent
<1>3. /\ \A i \in 1..Len(q) : q[i] \in Event
      /\ \A i \in 1..(Len(q) - 1) : t[i] \in Event
    BY <1>1, ElementOfSeq
<1> HIDE DEF t
<1>4. \A i \in 1..(Len(q) - 1) :
          /\ r[i] \in Event
          /\ r[i].type = q[i + 1].type /\ r[i].count = q[i + 1].count
          /\ r[i].left = q[i + 1].left - q[1].left
    <2> SUFFICES ASSUME NEW i \in 1..(Len(q) - 1)
                 PROVE  /\ r[i] \in Event
                        /\ r[i].type = q[i + 1].type /\ r[i].count = q[i + 1].count
                        /\ r[i].left = q[i + 1].left - q[1].left
        OBVIOUS
    <2>1. t[i] = q[i + 1] /\ q[i + 1] \in Event /\ q[1] \in Event  BY <1>1, <1>3
    <2>2. r[i] = [q[i + 1] EXCEPT !.left = q[i + 1].left - q[1].left]  BY <1>2, <2>1
    <2>3. r[i] = [type |-> q[i + 1].type, count |-> q[i + 1].count,
                  left |-> q[i + 1].left - q[1].left]
        BY <2>1, <2>2 DEF Event
    <2>4. QED  BY <2>1, <2>3 DEF Event
<1>5. r \in [1..(Len(q) - 1) -> Event]  BY <1>2, <1>4
<1>6. Len(q) - 1 \in Nat  OBVIOUS
<1>7. r \in Seq(Event) /\ Len(r) = Len(q) - 1  BY <1>5, <1>6, IsASeq, LenProperties
<1>8. QED  BY <1>4, <1>7
-------------------------------------------------------------------------------
LEMMA ModRange ==
    ASSUME NEW a \in Int, NEW b \in Nat \ {0} PROVE a % b \in 0..(b - 1)
OBVIOUS

\* The queue after an event has been popped.
LEMMA DueElem ==
    ASSUME Inv, NEW n \in Int, NEW type \in Types, Due(n, type)
    PROVE  /\ events' \in Seq(Event) /\ Len(events') = Len(events) - 1
           /\ Len(events) > 0 /\ events[1].type = type
           /\ \A i \in 1..(Len(events) - 1) :
                 /\ events'[i].type = events[i + 1].type
                 /\ events'[i].count = events[i + 1].count
                 /\ events'[i].left = events[i + 1].left - events[1].left
           /\ compare' = compare /\ count' \in 0..(Wrap - 1) /\ Ready
<1> DEFINE q == Elapse(events, n)
<1>1. events \in Seq(Event) /\ Ready /\ tasks \in Nat
    BY DEF Inv, TypeOK, Event, Due
<1>2. Len(events) > 0
    BY <1>1 DEF Inv, Account
<1>3. /\ q \in Seq(Event) /\ Len(q) = Len(events)
      /\ \A i \in 1..Len(events) :
            /\ q[i].type = events[i].type /\ q[i].left = events[i].left - n
            /\ q[i].count = IF i = 1 THEN events[i].count - n ELSE events[i].count
    BY <1>1, Elapsed
<1>4. events' = PopEvent(q) /\ compare' = compare /\ count' = (count + n) % Wrap
      /\ Head(events).type = type
    BY DEF Due
<1>5. Head(events) = events[1]  BY <1>1, <1>2
<1> HIDE DEF q
<1>6. /\ PopEvent(q) \in Seq(Event) /\ Len(PopEvent(q)) = Len(q) - 1
      /\ \A i \in 1..(Len(q) - 1) :
            /\ PopEvent(q)[i].type = q[i + 1].type
            /\ PopEvent(q)[i].count = q[i + 1].count
            /\ PopEvent(q)[i].left = q[i + 1].left - q[1].left
    BY <1>2, <1>3, Popped
<1>7. \A i \in 1..Len(events) : events[i].left \in Int
    <2>1. \A i \in 1..Len(events) : events[i] \in Event  BY <1>1, ElementOfSeq
    <2>2. QED  BY <2>1 DEF Event
<1>8. count' \in 0..(Wrap - 1)
    BY <1>4, ModRange, CyclesAssumption DEF Inv, TypeOK
<1>9. ASSUME NEW i \in 1..(Len(events) - 1)
      PROVE  /\ events'[i].type = events[i + 1].type
             /\ events'[i].count = events[i + 1].count
             /\ events'[i].left = events[i + 1].left - events[1].left
    <2>1. i + 1 \in 1..Len(events) /\ 1 \in 1..Len(events) /\ i + 1 # 1  BY <1>1, <1>2
    <2>2. q[1].left = events[1].left - n /\ q[i + 1].left = events[i + 1].left - n
          /\ q[i + 1].count = events[i + 1].count /\ q[i + 1].type = events[i + 1].type
        BY <1>3, <2>1
    <2>3. events'[i].type = q[i + 1].type /\ events'[i].count = q[i + 1].count
          /\ events'[i].left = q[i + 1].left - q[1].left
        BY <1>3, <1>4, <1>6
    <2>4. QED  BY <1>7, <2>1, <2>2, <2>3
<1>10. QED  BY <1>1, <1>2, <1>3, <1>4, <1>5, <1>6, <1>8, <1>9

\* What is said of the queue alone survives a pop.
LEMMA DueInv ==
    ASSUME Inv, NEW n \in Int, NEW type \in Types, Due(n, type)
    PROVE  /\ DeltasExact' /\ Ordered'
           /\ \A i, j \in 1..Len(events') :
                 events'[i].type = events'[j].type /\ events'[i].type \in {"VBL", "COMPARE"}
                     => i = j
           /\ \A t \in {"VBL", "COMPARE"} :
                 (\E i \in 1..Len(events') : events'[i].type = t) <=>
                     t # type /\ \E i \in 1..Len(events) : events[i].type = t
<1>1. /\ events' \in Seq(Event) /\ Len(events') = Len(events) - 1
      /\ Len(events) > 0 /\ events[1].type = type
      /\ \A i \in 1..(Len(events) - 1) :
            /\ events'[i].type = events[i + 1].type
            /\ events'[i].count = events[i + 1].count
            /\ events'[i].left = events[i + 1].left - events[1].left
    BY DueElem
<1>2. /\ events \in Seq(Event) /\ Len(events) \in Nat
      /\ DOMAIN events = 1..Len(events) /\ DOMAIN events' = 1..Len(events')
    BY <1>1, LenProperties DEF Inv, TypeOK, Event
<1>3. \A i \in 1..Len(events) : events[i].left \in Int /\ events[i].count \in Int
    <2>1. \A i \in 1..Len(events) : events[i] \in Event  BY <1>2, ElementOfSeq
    <2>2. QED  BY <2>1 DEF Event
<1>4. \A i \in 1..Len(events) :
         events[i].left = events[i].count + IF i = 1 THEN 0 ELSE events[i - 1].left
    BY <1>2 DEF Inv, DeltasExact
<1>5. DeltasExact'
    <2> SUFFICES ASSUME NEW i \in 1..(Len(events) - 1)
                 PROVE  events'[i].left =
                            events'[i].count + IF i = 1 THEN 0 ELSE events'[i - 1].left
        BY <1>1, <1>2 DEF DeltasExact
    <2>1. events[i + 1].left = events[i + 1].count + events[i].left
        BY <1>2, <1>4
    <2>2. CASE i = 1  BY <1>1, <1>2, <1>3, <2>1, <2>2
    <2>3. CASE i > 1
        <3>1. events'[i - 1].left = events[i].left - events[1].left
            <4>1. i - 1 \in 1..(Len(events) - 1) /\ (i - 1) + 1 = i  BY <1>2, <2>3
            <4>2. QED  BY <1>1, <4>1
        <3>2. QED  BY <1>1, <1>2, <1>3, <2>1, <2>3, <3>1
    <2>4. QED  BY <2>2, <2>3
<1>6. Ordered'  BY <1>1, <1>2 DEF Inv, Ordered
<1>7. ASSUME NEW i \in 1..Len(events'), NEW j \in 1..Len(events'),
             events'[i].type = events'[j].type, events'[i].type \in {"VBL", "COMPARE"}
      PROVE  i = j
    <2>1. i + 1 \in 1..Len(events) /\ j + 1 \in 1..Len(events)  BY <1>1, <1>2
    <2>2. events[i + 1].type = events[j + 1].type
          /\ events[i + 1].type \in {"VBL", "COMPARE"}
        BY <1>1, <1>7
    <2>3. i + 1 = j + 1  BY <1>2, <2>1, <2>2 DEF Inv, OneOfEach
    <2>4. QED  BY <1>1, <1>2, <2>3
<1>8. ASSUME NEW t \in {"VBL", "COMPARE"}
      PROVE  (\E i \in 1..Len(events') : events'[i].type = t) <=>
                 t # type /\ \E i \in 1..Len(events) : events[i].type = t
    <2>1. ASSUME NEW i \in 1..Len(events'), events'[i].type = t
          PROVE  t # type /\ \E k \in 1..Len(events) : events[k].type = t
        <3>1. i + 1 \in 1..Len(events) /\ 1 \in 1..Len(events) /\ i + 1 # 1
            BY <1>1, <1>2
        <3>2. events[i + 1].type = t  BY <1>1, <2>1
        <3>3. type # t
            BY <1>1, <1>2, <3>1, <3>2 DEF Inv, OneOfEach
        <3>4. QED  BY <3>1, <3>2, <3>3
    <2>2. ASSUME NEW i \in 1..Len(events), events[i].type = t, t # type
          PROVE  \E k \in 1..Len(events') : events'[k].type = t
        <3>1. i - 1 \in 1..Len(events') /\ (i - 1) + 1 = i  BY <1>1, <1>2, <2>2
        <3>2. events'[i - 1].type = t  BY <1>1, <2>2, <3>1
        <3>3. QED  BY <3>1, <3>2
    <2>3. QED  BY <2>1, <2>2
<1>9. QED  BY <1>5, <1>6, <1>7, <1>8

\* What the type invariant says of the queue, for the leaves below.
LEMMA Shape ==
    ASSUME Inv
    PROVE  /\ events \in Seq(Event) /\ Len(events) \in Nat /\ DOMAIN events = 1..Len(events)
           /\ \A i \in 1..Len(events) :
                 /\ events[i] \in Event /\ events[i].type \in Types
                 /\ events[i].count \in Int /\ events[i].left \in Int
           /\ \A i \in 1..Len(events) :
                 events[i].left = events[i].count + IF i = 1 THEN 0 ELSE events[i - 1].left
<1>1. events \in Seq(Event) /\ Len(events) \in Nat /\ DOMAIN events = 1..Len(events)
    BY LenProperties DEF Inv, TypeOK, Event
<1>2. \A i \in 1..Len(events) : events[i] \in Event  BY <1>1, ElementOfSeq
<1>3. QED  BY <1>1, <1>2 DEF Event, Inv, DeltasExact

LEMMA InitInv == Init => Inv
<1> SUFFICES ASSUME Init PROVE Inv  OBVIOUS
<1> USE CyclesAssumption
<1>1. PICK period \in Periods :
         events = <<[type |-> "VBL", count |-> period, left |-> period]>>
    BY DEF Init
<1>2. period \in Nat \ {0}  OBVIOUS
<1> DEFINE e == [type |-> "VBL", count |-> period, left |-> period]
<1>3. e \in Event  BY <1>2 DEF Event, Types
<1>4. e.type = "VBL" /\ e.left = e.count  OBVIOUS
<1> HIDE DEF e
<1>5. events = <<e>>  BY <1>1 DEF e
<1>6. events \in Seq(Event) /\ Len(events) = 1 /\ events[1] = e /\ DOMAIN events = {1}
    BY <1>3, <1>5
<1>7. /\ adding = Idle /\ count = 0 /\ compare = 0 /\ tasks = 0 /\ ~ip8
      /\ ip8 \in BOOLEAN
    BY Zenon DEF Init
<1>8. adding \in [at : Nat, type : Types, rest : Int, asked : Int]
      /\ adding.at = 0
    BY <1>7 DEF Idle, Types
<1>9. TypeOK  BY <1>6, <1>7, <1>8 DEF TypeOK, Event
<1>10. Compares = {} /\ Ready /\ ~Armed
    BY <1>4, <1>6, <1>8 DEF Compares, Ready, Armed
<1>11. OneOfEach /\ DeltasExact /\ Ordered
    BY <1>3, <1>4, <1>6, <1>10 DEF OneOfEach, DeltasExact, Ordered, Event
<1>12. RaisedOrArmed /\ Loop /\ Account
    BY <1>6, <1>7, <1>8, <1>10 DEF RaisedOrArmed, Loop, Account
<1>13. QED  BY <1>9, <1>11, <1>12 DEF Inv

LEMMA PassInv == Inv /\ Pass => Inv'
<1> SUFFICES ASSUME Inv, Pass PROVE Inv'  OBVIOUS
<1> USE Shape DEF Inv
<1>1. /\ adding.at \in 1..Len(events) /\ adding.rest > events[adding.at].count
      /\ adding' = [adding EXCEPT !.at = adding.at + 1,
                                  !.rest = adding.rest - events[adding.at].count]
      /\ events' = events /\ count' = count /\ compare' = compare /\ ip8' = ip8
      /\ tasks' = tasks
    BY DEF Pass
<1>2. /\ adding'.at = adding.at + 1 /\ adding'.type = adding.type
      /\ adding'.asked = adding.asked /\ adding'.rest = adding.rest - events[adding.at].count
      /\ adding' \in [at : Nat, type : Types, rest : Int, asked : Int]
    <2>1. /\ adding = [at |-> adding.at, type |-> adding.type,
                       rest |-> adding.rest, asked |-> adding.asked]
          /\ adding.at \in Nat /\ adding.type \in Types
          /\ adding.rest \in Int /\ adding.asked \in Int
        BY DEF TypeOK
    <2>2. adding.rest - events[adding.at].count \in Int /\ adding.at + 1 \in Nat
        BY <1>1, <2>1
    <2>3. adding' = [at |-> adding.at + 1, type |-> adding.type,
                     rest |-> adding.rest - events[adding.at].count, asked |-> adding.asked]
        BY <1>1, <2>1
    <2>4. QED  BY <2>1, <2>2, <2>3
<1>3. TypeOK'  BY <1>1, <1>2 DEF TypeOK
<1>4. (Ready <=> Ready') /\ (Armed <=> Armed') /\ Compares' = Compares
    BY <1>1, <1>2 DEF Ready, Armed, Compares
<1>5. OneOfEach' /\ DeltasExact' /\ Ordered' /\ RaisedOrArmed' /\ Account'
    BY <1>1, <1>2, <1>4
    DEF OneOfEach, DeltasExact, Ordered, RaisedOrArmed, Account
<1>6. Loop'
    <2>1. adding.rest \in Int /\ adding.asked \in Int  BY DEF TypeOK
    <2>2. adding.rest = adding.asked - IF adding.at = 1 THEN 0 ELSE events[adding.at - 1].left
        BY <1>1 DEF Loop, Ready
    <2>3. adding'.rest = adding.asked - events[adding.at].left
        <3>1. CASE adding.at = 1  BY <1>1, <1>2, <2>1, <2>2, <3>1
        <3>2. CASE adding.at > 1
            <4>1. adding.at - 1 \in 1..Len(events)  BY <1>1, <3>2
            <4>2. QED  BY <1>1, <1>2, <2>1, <2>2, <3>2, <4>1, SMTT(30)
        <3>3. QED  BY <1>1, <3>1, <3>2
    <2>4. adding'.at # 1 /\ adding'.at - 1 = adding.at /\ adding'.at <= Len(events) + 1
        BY <1>1, <1>2
    <2>5. adding'.rest > 0  BY <1>1, <1>2, <2>1
    <2>6. QED  BY <1>1, <1>2, <2>3, <2>4, <2>5 DEF Loop
<1>7. QED  BY <1>3, <1>5, <1>6

\* The queue after the event has been placed in front of the one it displaces.
LEMMA PlaceElem ==
    ASSUME Inv, Place
    PROVE  /\ events' \in Seq(Event) /\ Len(events') = Len(events) + 1
           /\ adding.at \in 1..(Len(events) + 1)
           /\ adding.at <= Len(events) => adding.rest <= events[adding.at].count
           /\ \A i \in 1..(Len(events) + 1) :
                 IF i = adding.at
                 THEN /\ events'[i].type = adding.type /\ events'[i].count = adding.rest
                      /\ events'[i].left = adding.asked
                 ELSE LET k == IF i < adding.at THEN i ELSE i - 1 IN
                      /\ events'[i].type = events[k].type /\ events'[i].left = events[k].left
                      /\ events'[i].count =
                            events[k].count - IF k = adding.at THEN adding.rest ELSE 0
<1> USE Shape
<1> DEFINE a == adding.at
           behind == IF a > Len(events) THEN events
                     ELSE [events EXCEPT ![a].count = @ - adding.rest]
<1>1. /\ a \in 1..(Len(events) + 1) /\ events' = InsertAt(behind, a, New)
      /\ a <= Len(events) => adding.rest <= events[a].count
    BY DEF Place
<1>2. adding.rest \in Int /\ adding.asked \in Int /\ adding.type \in Types
    BY DEF Inv, TypeOK
<1>3. /\ New \in Event /\ New.type = adding.type /\ New.count = adding.rest
      /\ New.left = adding.asked
    BY <1>2 DEF New, Event
<1>4. /\ behind \in Seq(Event) /\ Len(behind) = Len(events)
      /\ \A k \in 1..Len(events) :
            /\ behind[k].type = events[k].type /\ behind[k].left = events[k].left
            /\ behind[k].count = events[k].count - IF k = a THEN adding.rest ELSE 0
    <2>1. CASE a > Len(events)  BY <1>1, <2>1
    <2>2. CASE a <= Len(events)
        <3> DEFINE e == [events[a] EXCEPT !.count = events[a].count - adding.rest]
        <3>1. a \in 1..Len(events)  BY <1>1, <2>2
        <3>2. behind = [events EXCEPT ![a] = e]  BY <2>2, <3>1
        <3>3. e \in Event /\ e.type = events[a].type /\ e.left = events[a].left
              /\ e.count = events[a].count - adding.rest
            <4>1. events[a] = [type |-> events[a].type, count |-> events[a].count,
                               left |-> events[a].left]
                BY <3>1 DEF Event
            <4>2. e = [type |-> events[a].type, count |-> events[a].count - adding.rest,
                       left |-> events[a].left]
                BY <4>1
            <4>3. QED  BY <1>2, <3>1, <4>2 DEF Event
        <3> HIDE DEF e, behind
        <3>4. /\ behind \in Seq(Event) /\ Len(behind) = Len(events)
              /\ \A k \in 1..Len(events) : behind[k] = IF k = a THEN e ELSE events[k]
            BY <3>1, <3>2, <3>3, ExceptSeq
        <3>5. QED  BY <3>3, <3>4
    <2>3. QED  BY <1>1, <2>1, <2>2
<1> HIDE DEF behind
<1>5. /\ events' \in Seq(Event) /\ Len(events') = Len(events) + 1
      /\ \A i \in 1..(Len(events) + 1) :
            events'[i] = IF i < a THEN behind[i] ELSE IF i = a THEN New ELSE behind[i - 1]
    <2>1. a \in 1..(Len(behind) + 1)  BY <1>1, <1>4
    <2>2. /\ InsertAt(behind, a, New) \in Seq(Event)
          /\ Len(InsertAt(behind, a, New)) = Len(behind) + 1
          /\ \A i \in 1..(Len(behind) + 1) :
                InsertAt(behind, a, New)[i] =
                    IF i < a THEN behind[i] ELSE IF i = a THEN New ELSE behind[i - 1]
        <3>1. behind \in Seq(Event) /\ New \in Event  BY <1>3, <1>4
        <3> DEFINE q == behind  k == a  e == New
        <3>2. q \in Seq(Event) /\ k \in 1..(Len(q) + 1) /\ e \in Event  BY <2>1, <3>1
        <3> HIDE DEF q, k, e
        <3>3. /\ InsertAt(q, k, e) \in Seq(Event)
              /\ Len(InsertAt(q, k, e)) = Len(q) + 1
              /\ \A i \in 1..(Len(q) + 1) :
                    InsertAt(q, k, e)[i] =
                        IF i < k THEN q[i] ELSE IF i = k THEN e ELSE q[i - 1]
            BY <3>2, Inserted
        <3>4. QED  BY <3>3 DEF q, k, e
    <2>3. QED  BY <1>1, <1>4, <2>2
<1>6. \A i \in 1..(Len(events) + 1) :
          /\ i < a => i \in 1..Len(events)
          /\ i > a => i - 1 \in 1..Len(events)
    BY <1>1
<1>7. ASSUME NEW i \in 1..(Len(events) + 1), i # a
      PROVE  LET k == IF i < a THEN i ELSE i - 1 IN
             /\ events'[i].type = events[k].type /\ events'[i].left = events[k].left
             /\ events'[i].count = events[k].count - IF k = a THEN adding.rest ELSE 0
    <2>1. CASE i < a  BY <1>4, <1>5, <1>6, <2>1
    <2>2. CASE i > a  BY <1>4, <1>5, <1>6, <2>2
    <2>3. QED  BY <1>1, <1>7, <2>1, <2>2
<1>8. events'[a] = New  BY <1>1, <1>5
<1> HIDE DEF a
<1>9. QED
    <2>1. ASSUME NEW i \in 1..(Len(events) + 1)
          PROVE  IF i = a
                 THEN /\ events'[i].type = adding.type /\ events'[i].count = adding.rest
                      /\ events'[i].left = adding.asked
                 ELSE LET k == IF i < a THEN i ELSE i - 1 IN
                      /\ events'[i].type = events[k].type /\ events'[i].left = events[k].left
                      /\ events'[i].count = events[k].count - IF k = a THEN adding.rest ELSE 0
        BY <1>3, <1>7, <1>8
    <2>2. QED  BY <1>1, <1>5, <2>1 DEF a

LEMMA PlaceInv == Inv /\ Place => Inv'
<1> SUFFICES ASSUME Inv, Place PROVE Inv'  OBVIOUS
<1> DEFINE a == adding.at
<1>1. /\ events' \in Seq(Event) /\ Len(events') = Len(events) + 1
      /\ a \in 1..(Len(events) + 1)
      /\ a <= Len(events) => adding.rest <= events[a].count
      /\ DOMAIN events' = 1..(Len(events) + 1)
    BY PlaceElem, LenProperties
<1>2. /\ events'[a].type = adding.type /\ events'[a].count = adding.rest
      /\ events'[a].left = adding.asked
    BY <1>1, PlaceElem
<1>3. ASSUME NEW i \in 1..(a - 1)
      PROVE  /\ events'[i].type = events[i].type /\ events'[i].left = events[i].left
             /\ events'[i].count = events[i].count
             /\ i \in 1..Len(events)
    <2>1. i \in 1..(Len(events) + 1) /\ i < a /\ i # a /\ i \in 1..Len(events)
        BY <1>1, Shape
    <2>2. events[i].count - 0 = events[i].count  BY <2>1, Shape
    <2>3. QED  BY <2>1, <2>2, PlaceElem
<1>4. ASSUME NEW i \in (a + 1)..(Len(events) + 1)
      PROVE  /\ events'[i].type = events[i - 1].type /\ events'[i].left = events[i - 1].left
             /\ events'[i].count = events[i - 1].count - IF i - 1 = a THEN adding.rest ELSE 0
             /\ i - 1 \in 1..Len(events)
    <2>1. i \in 1..(Len(events) + 1) /\ ~(i < a) /\ i # a /\ i - 1 \in 1..Len(events)
        BY <1>1, Shape
    <2>2. QED  BY <2>1, PlaceElem
<1>5. /\ adding' = Idle /\ count' = count /\ compare' = compare /\ ip8' = ip8
      /\ tasks' = tasks /\ Ready' /\ ~Ready
    BY <1>1 DEF Place, Idle, Ready
<1>6. TypeOK'
    <2>1. adding' \in [at : Nat, type : Types, rest : Int, asked : Int]
        BY <1>5 DEF Idle, Types
    <2>2. QED  BY <1>1, <1>5, <2>1 DEF Inv, TypeOK, Event
<1>7. /\ adding.rest \in Int /\ adding.asked \in Int
      /\ adding.rest = adding.asked - IF a = 1 THEN 0 ELSE events[a - 1].left
      /\ a > 1 => adding.rest > 0
    BY <1>5 DEF Inv, TypeOK, Loop
<1>8. DeltasExact'
    <2> SUFFICES ASSUME NEW i \in 1..(Len(events) + 1)
                 PROVE  events'[i].left =
                            events'[i].count + IF i = 1 THEN 0 ELSE events'[i - 1].left
        BY <1>1 DEF DeltasExact
    <2>1. CASE i < a
        <3>1. i \in 1..(a - 1) /\ (i # 1 => i - 1 \in 1..(a - 1))  BY <1>1, <2>1, Shape
        <3>2. QED  BY <1>3, <3>1, Shape
    <2>2. CASE i = a
        <3>1. a # 1 => a - 1 \in 1..(a - 1) /\ events'[a - 1].left = events[a - 1].left
                       /\ events[a - 1].left \in Int
            BY <1>1, <1>3, Shape
        <3>2. QED  BY <1>2, <1>7, <2>2, <3>1
    <2>3. CASE i = a + 1
        <3>0. Len(events) \in Nat /\ a \in Nat  BY <1>1, Shape
        <3>1. i \in (a + 1)..(Len(events) + 1) /\ i - 1 = a /\ a \in 1..Len(events) /\ i # 1
            BY <1>1, <2>3, <3>0
        <3>2. events'[i].left = events[a].left /\ events'[i].count = events[a].count - adding.rest
            BY <1>4, <3>1
        <3>3. events[a].left = events[a].count + IF a = 1 THEN 0 ELSE events[a - 1].left
            BY <3>1, Shape
        <3>4. a # 1 => events[a - 1].left \in Int  BY <3>1, Shape
        <3>5. events[a].left \in Int /\ events[a].count \in Int  BY <3>1, Shape
        <3>6. events'[i - 1].left = adding.asked  BY <1>2, <3>1
        <3>7. events[a].left = (events[a].count - adding.rest) + adding.asked
            BY <1>1, <1>7, <3>3, <3>4, <3>5, SMTT(30)
        <3>8. QED  BY <3>1, <3>2, <3>6, <3>7
    <2>4. CASE i > a + 1
        <3>1. /\ i \in (a + 1)..(Len(events) + 1) /\ i - 1 \in (a + 1)..(Len(events) + 1)
              /\ i - 1 # a /\ i - 1 \in 1..Len(events) /\ i - 1 # 1 /\ i # 1
            BY <1>1, <2>4, Shape
        <3>2. events'[i].left = events[i - 1].left /\ events'[i].count = events[i - 1].count
            BY <1>4, <3>1, Shape
        <3>3. events'[i - 1].left = events[(i - 1) - 1].left
            BY <1>4, <3>1
        <3>4. QED  BY <3>1, <3>2, <3>3, Shape
    <2>5. QED  BY <1>1, <2>1, <2>2, <2>3, <2>4, Shape
<1>9. Ordered'
    <2> SUFFICES ASSUME NEW i \in 2..(Len(events) + 1) PROVE events'[i].count >= 0
        BY <1>1 DEF Ordered
    <2>1. \A j \in 2..Len(events) : events[j].count >= 0  BY DEF Inv, Ordered
    <2>2. CASE i < a  BY <1>1, <1>3, <2>1, <2>2, Shape
    <2>3. CASE i = a  BY <1>2, <1>7, <2>3
    <2>4. CASE i > a
        <3>1. i \in (a + 1)..(Len(events) + 1) /\ i - 1 \in 1..Len(events)
            BY <1>1, <2>4, Shape
        <3>2. CASE i - 1 = a
            <4>1. a <= Len(events)  BY <3>1, <3>2
            <4>2. events[a].count \in Int  BY <3>1, <3>2, Shape
            <4>3. QED  BY <1>1, <1>4, <1>7, <3>1, <3>2, <4>1, <4>2
        <3>3. CASE i - 1 # a
            <4>1. i - 1 \in 2..Len(events)  BY <1>1, <2>4, <3>1, <3>3, Shape
            <4>2. events'[i].count = events[i - 1].count
                BY <1>4, <3>1, <3>3, Shape
            <4>3. QED  BY <2>1, <4>1, <4>2
        <3>4. QED  BY <3>2, <3>3
    <2>5. QED  BY <1>1, <2>2, <2>3, <2>4, Shape
\* The types that are queued afterwards, and where each of them came from.
<1>10. ASSUME NEW i \in 1..(Len(events) + 1)
       PROVE  \/ i = a /\ events'[i].type = adding.type
              \/ i < a /\ i \in 1..Len(events) /\ events'[i].type = events[i].type
              \/ i > a /\ i - 1 \in 1..Len(events) /\ events'[i].type = events[i - 1].type
    <2>1. CASE i = a  BY <1>2, <2>1
    <2>2. CASE i < a  BY <1>1, <1>3, <2>2, Shape
    <2>3. CASE i > a  BY <1>1, <1>4, <2>3, Shape
    <2>4. QED  BY <1>1, <2>1, <2>2, <2>3
<1>11. ASSUME NEW i \in 1..Len(events)
       PROVE  \E j \in 1..(Len(events) + 1) : events'[j].type = events[i].type
    <2>1. CASE i < a
        <3>1. i \in 1..(a - 1) /\ i \in 1..(Len(events) + 1)  BY <1>1, <2>1, Shape
        <3>2. QED  BY <1>3, <3>1
    <2>2. CASE i >= a
        <3>1. i + 1 \in (a + 1)..(Len(events) + 1) /\ (i + 1) - 1 = i
              /\ i + 1 \in 1..(Len(events) + 1)
            BY <1>1, <2>2, Shape
        <3>2. events'[i + 1].type = events[(i + 1) - 1].type  BY <1>4, <3>1
        <3>3. QED  BY <3>1, <3>2
    <2>3. QED  BY <1>1, <2>1, <2>2, Shape
<1>12. OneOfEach'
    <2>1. \E i \in DOMAIN events' : events'[i].type = "VBL"
        <3>1. CASE adding.type = "VBL"  BY <1>1, <1>2, <3>1
        <3>2. CASE adding.type # "VBL"
            <4>1. \E i \in 1..Len(events) : events[i].type = "VBL"
                BY <1>5, <3>2, Shape DEF Inv, OneOfEach
            <4>2. QED  BY <1>1, <1>11, <4>1
        <3>3. QED  BY <3>1, <3>2
    <2>2. ASSUME NEW i \in 1..(Len(events) + 1), NEW j \in 1..(Len(events) + 1),
                 events'[i].type = events'[j].type,
                 events'[i].type \in {"VBL", "COMPARE"}
          PROVE  i = j
        <3>1. \A k \in 1..Len(events) :
                 events[k].type \in {"VBL", "COMPARE"} => events[k].type # adding.type
            BY <1>5, Shape DEF Inv, OneOfEach, Compares
        <3>2. \A k, l \in 1..Len(events) :
                 events[k].type = events[l].type /\ events[k].type \in {"VBL", "COMPARE"}
                     => k = l
            BY Shape DEF Inv, OneOfEach
        <3>3. /\ i = a => events'[i].type = adding.type
              /\ j = a => events'[j].type = adding.type
              /\ i # a => \E k \in 1..Len(events) : events'[i].type = events[k].type
              /\ j # a => \E k \in 1..Len(events) : events'[j].type = events[k].type
            <4>1. ASSUME NEW n \in 1..(Len(events) + 1)
                  PROVE  /\ n = a => events'[n].type = adding.type
                         /\ n # a => \E k \in 1..Len(events) : events'[n].type = events[k].type
                <5>1. CASE n = a  BY <1>1, <1>10, <5>1
                <5>2. CASE n < a  BY <1>1, <1>10, <5>2
                <5>3. CASE n > a  BY <1>1, <1>10, <5>3
                <5>4. QED  BY <1>1, <5>1, <5>2, <5>3
            <4>2. QED  BY <4>1
        <3>4. i = a <=> j = a
            <4>1. CASE i = a /\ j # a
                <5>1. PICK k \in 1..Len(events) : events'[j].type = events[k].type
                    BY <3>3, <4>1
                <5>2. events[k].type = adding.type /\ events[k].type \in {"VBL", "COMPARE"}
                    BY <2>2, <3>3, <4>1, <5>1
                <5>3. QED  BY <3>1, <5>2
            <4>2. CASE i # a /\ j = a
                <5>1. PICK k \in 1..Len(events) : events'[i].type = events[k].type
                    BY <3>3, <4>2
                <5>2. events[k].type = adding.type /\ events[k].type \in {"VBL", "COMPARE"}
                    BY <2>2, <3>3, <4>2, <5>1
                <5>3. QED  BY <3>1, <5>2
            <4>3. QED  BY <4>1, <4>2
        <3>5. CASE i # a /\ j # a
            <4> DEFINE k == IF i < a THEN i ELSE i - 1
                       l == IF j < a THEN j ELSE j - 1
            <4>1. k \in 1..Len(events) /\ events'[i].type = events[k].type
                <5>1. CASE i < a  BY <1>10, <5>1, <1>1, Shape
                <5>2. CASE i > a  BY <1>10, <5>2, <1>1, Shape
                <5>3. QED  BY <1>1, <3>5, <5>1, <5>2
            <4>2. l \in 1..Len(events) /\ events'[j].type = events[l].type
                <5>1. CASE j < a  BY <1>10, <5>1, <1>1, Shape
                <5>2. CASE j > a  BY <1>10, <5>2, <1>1, Shape
                <5>3. QED  BY <1>1, <3>5, <5>1, <5>2
            <4> HIDE DEF k, l
            <4>3. k = l  BY <2>2, <3>2, <4>1, <4>2
            <4>4. QED  BY <1>1, <3>5, <4>3 DEF k, l
        <3>6. QED  BY <3>4, <3>5
    <2>3. QED  BY <1>1, <1>5, <2>1, <2>2 DEF OneOfEach
<1>13. Armed' <=> Armed
    <2>0. /\ Armed' <=> \E i \in 1..(Len(events) + 1) : events'[i].type = "COMPARE"
          /\ Armed <=> \/ adding.type = "COMPARE"
                       \/ \E i \in 1..Len(events) : events[i].type = "COMPARE"
        <3>1. DOMAIN events = 1..Len(events)  BY Shape
        <3>2. QED  BY <1>1, <1>5, <3>1 DEF Armed, Compares
    <2>1. Armed' => Armed
        <3>1. \A i \in 1..(Len(events) + 1) :
                 \/ events'[i].type = adding.type
                 \/ \E k \in 1..Len(events) : events'[i].type = events[k].type
            BY <1>10
        <3>2. QED  BY <2>0, <3>1
    <2>2. Armed => Armed'
        <3>1. CASE adding.type = "COMPARE"  BY <1>1, <1>2, <2>0, <3>1
        <3>2. CASE adding.type # "COMPARE"  BY <1>11, <2>0, <3>2
        <3>3. QED  BY <3>1, <3>2
    <2>3. QED  BY <2>1, <2>2
<1>14. RaisedOrArmed' /\ Account'
    BY <1>1, <1>5, <1>13, Shape DEF Inv, RaisedOrArmed, Account, TypeOK
<1>15. Loop'  BY <1>1, <1>5, Shape DEF Loop, Idle
<1>16. QED  BY <1>6, <1>8, <1>9, <1>12, <1>14, <1>15 DEF Inv
-------------------------------------------------------------------------------
\* Time passes and no event is due.
LEMMA TickInv == ASSUME Inv, NEW n \in 1..MaxOps, Tick(n) PROVE Inv'
<1>1. /\ events' = Elapse(events, n) /\ count' = (count + n) % Wrap
      /\ adding' = adding /\ compare' = compare /\ ip8' = ip8 /\ tasks' = tasks
      /\ Ready /\ Ready'
    BY DEF Tick, Ready
<1>2. /\ events' \in Seq(Event) /\ Len(events') = Len(events)
      /\ DOMAIN events' = 1..Len(events)
      /\ \A i \in 1..Len(events) :
            /\ events'[i].type = events[i].type /\ events'[i].left = events[i].left - n
            /\ events'[i].count = IF i = 1 THEN events[i].count - n ELSE events[i].count
    BY <1>1, Elapsed, Shape, LenProperties
<1>3. TypeOK'
    <2>1. count' \in 0..(Wrap - 1)
        BY <1>1, ModRange, CyclesAssumption DEF Inv, TypeOK
    <2>2. QED  BY <1>1, <1>2, <2>1 DEF Inv, TypeOK, Event
<1>4. DeltasExact'
    <2> SUFFICES ASSUME NEW i \in 1..Len(events)
                 PROVE  events'[i].left =
                            events'[i].count + IF i = 1 THEN 0 ELSE events'[i - 1].left
        BY <1>2 DEF DeltasExact
    <2>1. events[i].left = events[i].count + IF i = 1 THEN 0 ELSE events[i - 1].left
        BY Shape
    <2>2. events'[i].left = events[i].left - n
          /\ events'[i].count = IF i = 1 THEN events[i].count - n ELSE events[i].count
        BY <1>2
    <2>3. events[i].left \in Int /\ events[i].count \in Int  BY Shape
    <2>4. CASE i = 1  BY <2>1, <2>2, <2>3, <2>4
    <2>5. CASE i # 1
        <3>1. i - 1 \in 1..Len(events)  BY <2>5, Shape
        <3>2. events'[i - 1].left = events[i - 1].left - n /\ events[i - 1].left \in Int
            BY <1>2, <3>1, Shape
        <3>3. QED  BY <2>1, <2>2, <2>3, <2>5, <3>2
    <2>6. QED  BY <2>4, <2>5
<1>5. Ordered'
    <2> SUFFICES ASSUME NEW i \in 2..Len(events) PROVE events'[i].count >= 0
        BY <1>2 DEF Ordered
    <2>1. i \in 1..Len(events) /\ i # 1  BY Shape
    <2>2. events'[i].count = events[i].count  BY <1>2, <2>1
    <2>3. QED  BY <2>2 DEF Inv, Ordered
<1>6. OneOfEach'
    <2>1. DOMAIN events = 1..Len(events)  BY Shape
    <2>2. \A i \in DOMAIN events' : events'[i].type = events[i].type  BY <1>2
    <2>3. Ready /\ Ready' /\ DOMAIN events' = DOMAIN events  BY <1>1, <1>2, <2>1
    <2>4. QED  BY <2>2, <2>3, Zenon DEF Inv, OneOfEach
<1>7. Armed' <=> Armed
    BY <1>1, <1>2, Shape, SMTT(30) DEF Armed, Compares
<1>8. RaisedOrArmed' /\ Account'
    BY <1>1, <1>2, <1>7 DEF Inv, RaisedOrArmed, Account
<1>9. Loop'  BY <1>1, <1>2, Shape DEF Inv, Loop, Ready
<1>10. QED  BY <1>3, <1>4, <1>5, <1>6, <1>8, <1>9 DEF Inv

\* A COMPARE event is armed after a pop when it was before and was not popped.
LEMMA DueArmed ==
    ASSUME Inv, NEW n \in Int, NEW type \in Types, Due(n, type)
    PROVE  /\ (\E i \in DOMAIN events' : events'[i].type = "COMPARE") <=>
                 Armed /\ type # "COMPARE"
           /\ type = "COMPARE" => Armed
           /\ (\E i \in DOMAIN events' : events'[i].type = "VBL") <=> type # "VBL"
<1>1. /\ events' \in Seq(Event) /\ Len(events') = Len(events) - 1
      /\ Len(events) > 0 /\ events[1].type = type /\ Ready
    BY DueElem
<1>2. DOMAIN events' = 1..Len(events') /\ DOMAIN events = 1..Len(events)
    BY <1>1, Shape, LenProperties
<1>3. \A t \in {"VBL", "COMPARE"} :
         (\E i \in 1..Len(events') : events'[i].type = t) <=>
             t # type /\ \E i \in 1..Len(events) : events[i].type = t
    BY DueInv
<1>4. Armed <=> \E i \in 1..Len(events) : events[i].type = "COMPARE"
    BY <1>1, <1>2 DEF Armed, Compares
<1>5. \E i \in 1..Len(events) : events[i].type = "VBL"
    BY <1>1, <1>2 DEF Inv, OneOfEach
<1>6. 1 \in 1..Len(events)  BY <1>1, Shape
<1>7. QED  BY <1>1, <1>2, <1>3, <1>4, <1>5, <1>6

LEMMA VerticalBlankInv == ASSUME Inv, NEW n \in Int, VerticalBlank(n) PROVE Inv'
<1>1. PICK period \in Periods : AddEvent(period, "VBL")  BY DEF VerticalBlank
<1>2. Due(n, "VBL") /\ ip8' = ip8 /\ tasks' = tasks /\ "VBL" \in Types
    BY DEF VerticalBlank, Types
<1>3. /\ adding' = [at |-> 1, type |-> "VBL", rest |-> period, asked |-> period]
      /\ period \in Nat /\ ~Ready' /\ Ready
    BY <1>1, <1>2, CyclesAssumption DEF AddEvent, Ready, Due
<1>4. /\ events' \in Seq(Event) /\ Len(events') = Len(events) - 1 /\ Len(events) \in Nat
      /\ Len(events) > 0 /\ DOMAIN events' = 1..Len(events')
      /\ compare' = compare /\ count' \in 0..(Wrap - 1)
    BY <1>2, DueElem, Shape, LenProperties
<1>5. DeltasExact' /\ Ordered'  BY <1>2, DueInv
<1>6. TypeOK'
    <2>1. adding' \in [at : Nat, type : Types, rest : Int, asked : Int]
        BY <1>2, <1>3
    <2>2. QED  BY <1>2, <1>4, <2>1 DEF Inv, TypeOK, Event
<1>7. OneOfEach'
    <2>1. \A i, j \in DOMAIN events' :
             events'[i].type = events'[j].type /\ events'[i].type \in {"VBL", "COMPARE"}
                 => i = j
        BY <1>2, <1>4, DueInv
    <2>2. ~\E i \in DOMAIN events' : events'[i].type = "VBL"
        BY <1>2, DueArmed
    <2>3. QED  BY <1>3, <2>1, <2>2 DEF OneOfEach
<1>8. Armed' <=> Armed
    <2>1. (\E i \in DOMAIN events' : events'[i].type = "COMPARE") <=> Armed
        BY <1>2, DueArmed
    <2>2. QED  BY <1>3, <2>1 DEF Armed, Compares
<1>9. RaisedOrArmed' /\ Account'
    BY <1>2, <1>3, <1>4, <1>8 DEF Inv, RaisedOrArmed, Account
<1>10. Loop'  BY <1>3, <1>4 DEF Loop
<1>11. QED  BY <1>5, <1>6, <1>7, <1>9, <1>10 DEF Inv

LEMMA CompareDueInv == ASSUME Inv, NEW n \in Int, CompareDue(n) PROVE Inv'
<1>1. Due(n, "COMPARE") /\ ip8' = TRUE /\ tasks' = tasks /\ adding' = adding
      /\ "COMPARE" \in Types
    BY DEF CompareDue, Types
<1>2. Ready' /\ Ready  BY <1>1 DEF Ready, Due
<1>3. /\ events' \in Seq(Event) /\ Len(events') = Len(events) - 1 /\ Len(events) \in Nat
      /\ Len(events) > 0 /\ DOMAIN events' = 1..Len(events')
      /\ compare' = compare /\ count' \in 0..(Wrap - 1)
    BY <1>1, DueElem, Shape, LenProperties
<1>4. DeltasExact' /\ Ordered'  BY <1>1, DueInv
<1>5. TypeOK'  BY <1>1, <1>3 DEF Inv, TypeOK, Event
<1>6. /\ ~\E i \in DOMAIN events' : events'[i].type = "COMPARE"
      /\ \E i \in DOMAIN events' : events'[i].type = "VBL"
      /\ Armed
    BY <1>1, DueArmed
<1>7. OneOfEach'
    <2>1. \A i, j \in DOMAIN events' :
             events'[i].type = events'[j].type /\ events'[i].type \in {"VBL", "COMPARE"}
                 => i = j
        BY <1>1, <1>3, DueInv
    <2>2. QED  BY <1>2, <1>6, <2>1 DEF OneOfEach
<1>8. ~Armed'  BY <1>2, <1>6 DEF Armed, Compares
<1>9. RaisedOrArmed' /\ Account'
    <2>1. RaisedOrArmed'  BY <1>8 DEF RaisedOrArmed
    <2>2. tasks \in Nat /\ MaxTasks \in Nat  BY CyclesAssumption DEF Inv, TypeOK
    <2>3. Account'  BY <1>1, <1>2, <1>3, <1>6, <1>8, <2>2 DEF Inv, Account
    <2>4. QED  BY <2>1, <2>3
<1>10. Loop'
    BY <1>1, <1>2, <1>3 DEF Loop, Ready
<1>11. QED  BY <1>4, <1>5, <1>7, <1>9, <1>10 DEF Inv

\* An event of an audio task is popped, and the task has another or is over.
LEMMA TaskEventInv ==
    ASSUME Inv, NEW n \in Int, NEW type \in {"AUDIO", "SPINT"}, Due(n, type), ip8' = ip8,
           \/ AddEvent(SpDelay, "SPINT") /\ tasks' = tasks
           \/ tasks' = tasks - 1 /\ adding' = adding
    PROVE  Inv'
<1>1. Ready /\ type \in Types  BY DEF Due, Types
<1>2. /\ events' \in Seq(Event) /\ Len(events') = Len(events) - 1 /\ Len(events) \in Nat
      /\ Len(events) > 0 /\ DOMAIN events' = 1..Len(events')
      /\ compare' = compare /\ count' \in 0..(Wrap - 1)
    BY <1>1, DueElem, Shape, LenProperties
<1>3. DeltasExact' /\ Ordered'  BY <1>1, DueInv
<1>4. /\ (\E i \in DOMAIN events' : events'[i].type = "COMPARE") <=> Armed
      /\ \E i \in DOMAIN events' : events'[i].type = "VBL"
    BY <1>1, DueArmed
\* The popped event was one the account has a task for.
<1>5. tasks > 0
    <2>1. events[1].type = type  BY <1>1, DueElem
    <2>2. \E i \in 1..Len(events) : events[i].type = "VBL"
        BY <1>1, Shape DEF Inv, OneOfEach
    <2>3. Len(events) > 1  BY <1>2, <2>1, <2>2
    <2>4. CASE ~Armed  BY <1>1, <1>2, <2>3, <2>4 DEF Inv, Account, TypeOK
    <2>5. CASE Armed
        <3>1. PICK i \in 1..Len(events) : events[i].type = "VBL"  BY <2>2
        <3>2. PICK j \in 1..Len(events) : events[j].type = "COMPARE"
            BY <1>1, <2>5, Shape DEF Armed, Compares
        <3>3. i # j /\ i # 1 /\ j # 1  BY <2>1, <3>1, <3>2
        <3>4. Len(events) > 2  BY <1>2, <3>3
        <3>5. QED  BY <1>1, <1>2, <2>5, <3>4 DEF Inv, Account, TypeOK
    <2>6. QED  BY <2>4, <2>5
<1>6. \A i, j \in DOMAIN events' :
         events'[i].type = events'[j].type /\ events'[i].type \in {"VBL", "COMPARE"}
             => i = j
    BY <1>1, <1>2, DueInv
<1>7. CASE AddEvent(SpDelay, "SPINT") /\ tasks' = tasks
    <2>1. /\ adding' = [at |-> 1, type |-> "SPINT", rest |-> SpDelay, asked |-> SpDelay]
          /\ SpDelay \in Nat /\ ~Ready'
        BY <1>7, CyclesAssumption DEF AddEvent, Ready
    <2>2. TypeOK'
        <3>1. adding' \in [at : Nat, type : Types, rest : Int, asked : Int]
            BY <2>1 DEF Types
        <3>2. QED  BY <1>2, <1>7, <3>1 DEF Inv, TypeOK, Event
    <2>3. OneOfEach'  BY <1>4, <1>6, <2>1 DEF OneOfEach
    <2>4. Armed' <=> Armed  BY <1>4, <2>1 DEF Armed, Compares
    <2>5. RaisedOrArmed' /\ Account'
        BY <1>1, <1>2, <1>7, <2>1, <2>4 DEF Inv, RaisedOrArmed, Account
    <2>6. Loop'  BY <1>2, <2>1 DEF Loop
    <2>7. QED  BY <1>3, <2>2, <2>3, <2>5, <2>6 DEF Inv
<1>8. CASE tasks' = tasks - 1 /\ adding' = adding
    <2>1. Ready'  BY <1>1, <1>8 DEF Ready
    <2>2. TypeOK'
        <3>1. tasks' \in Nat  BY <1>5, <1>8 DEF Inv, TypeOK
        <3>2. QED  BY <1>2, <1>8, <3>1 DEF Inv, TypeOK, Event
    <2>3. OneOfEach'  BY <1>4, <1>6, <2>1 DEF OneOfEach
    <2>4. Armed' <=> Armed  BY <1>1, <1>4, <2>1 DEF Armed, Compares
    <2>5. RaisedOrArmed' /\ Account'
        <3>1. tasks \in Nat /\ MaxTasks \in Nat  BY CyclesAssumption DEF Inv, TypeOK
        <3>2. QED  BY <1>1, <1>2, <1>8, <2>1, <2>4, <3>1 DEF Inv, RaisedOrArmed, Account
    <2>6. Loop'
        BY <1>1, <1>2, <1>8, <2>1 DEF Loop, Ready
    <2>7. QED  BY <1>3, <2>2, <2>3, <2>5, <2>6 DEF Inv
<1>9. QED  BY <1>7, <1>8

LEMMA FireInv == ASSUME Inv, NEW n \in Int, Fire(n) PROVE Inv'
<1>1. CASE VerticalBlank(n)  BY <1>1, VerticalBlankInv
<1>2. CASE CompareDue(n)  BY <1>2, CompareDueInv
<1>3. CASE AudioDone(n)
    <2>1. Due(n, "AUDIO") /\ ip8' = ip8
          /\ \/ AddEvent(SpDelay, "SPINT") /\ tasks' = tasks
             \/ tasks' = tasks - 1 /\ adding' = adding
        BY <1>3 DEF AudioDone
    <2>2. QED  BY <2>1, TaskEventInv
<1>4. CASE SpInterrupt(n)
    <2>1. Due(n, "SPINT") /\ ip8' = ip8 /\ tasks' = tasks - 1 /\ adding' = adding
        BY <1>4 DEF SpInterrupt
    <2>2. QED  BY <2>1, TaskEventInv
<1>5. QED  BY <1>1, <1>2, <1>3, <1>4 DEF Fire
-------------------------------------------------------------------------------
LEMMA ProcessAListInv == Inv /\ ProcessAList => Inv'
<1> SUFFICES ASSUME Inv, ProcessAList PROVE Inv'  OBVIOUS
<1>1. /\ Ready /\ tasks < MaxTasks /\ tasks' = tasks + 1
      /\ adding' = [at |-> 1, type |-> "AUDIO", rest |-> 1, asked |-> 1]
      /\ events' = events /\ count' = count /\ compare' = compare /\ ip8' = ip8
    BY DEF ProcessAList, AddEvent
<1>2. ~Ready' /\ tasks \in Nat /\ MaxTasks \in Nat
    BY <1>1, CyclesAssumption DEF Ready, Inv, TypeOK
<1>3. TypeOK'
    <2>1. adding' \in [at : Nat, type : Types, rest : Int, asked : Int]
        BY <1>1 DEF Types
    <2>2. QED  BY <1>1, <1>2, <2>1 DEF Inv, TypeOK
<1>4. DeltasExact' /\ Ordered'  BY <1>1 DEF Inv, DeltasExact, Ordered
<1>5. OneOfEach'  BY <1>1, <1>2 DEF Inv, OneOfEach
<1>6. Armed' <=> Armed  BY <1>1, <1>2 DEF Armed, Compares
<1>7. RaisedOrArmed'  BY <1>1, <1>6 DEF Inv, RaisedOrArmed
<1>8. Account'
    <2>1. Len(events') = Len(events) /\ Len(events) \in Nat  BY <1>1, Shape
    <2>2. Len(events) = 1 + (IF Armed THEN 1 ELSE 0) + tasks
        BY <1>1, <2>1 DEF Inv, Account
    <2>3. CASE Armed  BY <1>1, <1>2, <1>6, <2>1, <2>2, <2>3 DEF Account
    <2>4. CASE ~Armed  BY <1>1, <1>2, <1>6, <2>1, <2>2, <2>4 DEF Account
    <2>5. QED  BY <2>3, <2>4
<1>9. Loop'  BY <1>1, <1>2, Shape DEF Loop
<1>10. QED  BY <1>3, <1>4, <1>5, <1>7, <1>8, <1>9 DEF Inv

LEMMA SetCountInv == ASSUME Inv, NEW value \in 0..(Wrap - 1), SetCount(value) PROVE Inv'
<1>1. /\ events' = events /\ adding' = adding /\ compare' = compare /\ ip8' = ip8
      /\ tasks' = tasks /\ count' = value
    BY DEF SetCount
<1>2. TypeOK'  BY <1>1 DEF Inv, TypeOK
<1>3. QED
    BY <1>1, <1>2 DEF Inv, OneOfEach, DeltasExact, Ordered, RaisedOrArmed, Loop, Account,
                      Armed, Compares, Ready

LEMMA KeepCompareInv == ASSUME Inv, NEW value \in 0..(Wrap - 1), KeepCompare(value) PROVE Inv'
<1>1. /\ events' = events /\ adding' = adding /\ compare' = value /\ ip8' = FALSE
      /\ tasks' = tasks /\ count' = count
    BY DEF KeepCompare
<1>2. TypeOK'  BY <1>1 DEF Inv, TypeOK
<1>3. RaisedOrArmed'  BY <1>1 DEF RaisedOrArmed
<1>4. QED
    BY <1>1, <1>2, <1>3 DEF Inv, OneOfEach, DeltasExact, Ordered, Loop, Account, Armed,
                            Compares, Ready

\* What Without returns: the queue without one event, the others where they were.
LEMMA WithoutElem ==
    ASSUME Inv, NEW i \in 1..Len(events)
    PROVE  /\ Without(events, i) \in Seq(Event)
           /\ Len(Without(events, i)) = Len(events) - 1
           /\ \A k \in 1..(Len(events) - 1) :
                 IF k < i THEN Without(events, i)[k] = events[k]
                 ELSE /\ Without(events, i)[k].type = events[k + 1].type
                      /\ Without(events, i)[k].left = events[k + 1].left
                      /\ Without(events, i)[k].count =
                            events[k + 1].count + IF k = i THEN events[i].count ELSE 0
<1> USE Shape
<1> DEFINE q == IF i < Len(events)
                THEN [events EXCEPT ![i + 1].count = @ + events[i].count] ELSE events
<1>1. /\ q \in Seq(Event) /\ Len(q) = Len(events)
      /\ \A k \in 1..Len(events) :
            IF i < Len(events) /\ k = i + 1
            THEN /\ q[k].type = events[k].type /\ q[k].left = events[k].left
                 /\ q[k].count = events[k].count + events[i].count
            ELSE q[k] = events[k]
    <2>1. CASE ~(i < Len(events))  BY <2>1
    <2>2. CASE i < Len(events)
        <3> DEFINE e == [events[i + 1] EXCEPT !.count = events[i + 1].count + events[i].count]
        <3>1. i + 1 \in 1..Len(events)  BY <2>2
        <3>2. q = [events EXCEPT ![i + 1] = e]  BY <2>2, <3>1
        <3>3. e \in Event /\ e.type = events[i + 1].type /\ e.left = events[i + 1].left
              /\ e.count = events[i + 1].count + events[i].count
            <4>1. events[i + 1] = [type |-> events[i + 1].type, count |-> events[i + 1].count,
                                   left |-> events[i + 1].left]
                BY <3>1 DEF Event
            <4>2. e = [type |-> events[i + 1].type,
                       count |-> events[i + 1].count + events[i].count,
                       left |-> events[i + 1].left]
                BY <4>1
            <4>3. events[i + 1].count \in Int /\ events[i].count \in Int  BY <3>1
            <4>4. QED  BY <3>1, <4>2, <4>3 DEF Event
        <3> HIDE DEF e, q
        <3>4. /\ q \in Seq(Event) /\ Len(q) = Len(events)
              /\ \A k \in 1..Len(events) : q[k] = IF k = i + 1 THEN e ELSE events[k]
            BY <3>1, <3>2, <3>3, ExceptSeq
        <3>5. QED  BY <2>2, <3>3, <3>4
    <2>3. QED  BY <2>1, <2>2
<1>2. Without(events, i) = RemoveAt(q, i)  BY DEF Without
<1> HIDE DEF q
<1>3. /\ RemoveAt(q, i) \in Seq(Event) /\ Len(RemoveAt(q, i)) = Len(q) - 1
      /\ \A k \in 1..(Len(q) - 1) : RemoveAt(q, i)[k] = IF k < i THEN q[k] ELSE q[k + 1]
    BY <1>1, Removed
<1>4. ASSUME NEW k \in 1..(Len(events) - 1)
      PROVE  IF k < i THEN Without(events, i)[k] = events[k]
             ELSE /\ Without(events, i)[k].type = events[k + 1].type
                  /\ Without(events, i)[k].left = events[k + 1].left
                  /\ Without(events, i)[k].count =
                        events[k + 1].count + IF k = i THEN events[i].count ELSE 0
    <2>1. k \in 1..Len(events) /\ k + 1 \in 1..Len(events) /\ (i < Len(events) \/ k < i)
        OBVIOUS
    <2>2. CASE k < i
        <3>1. k \in 1..Len(events) /\ k # i + 1  BY <2>2
        <3>2. QED  BY <1>1, <1>2, <1>3, <2>2, <3>1
    <2>3. CASE k = i
        <3>1. k + 1 \in 1..Len(events) /\ i < Len(events)  BY <2>3
        <3>2. QED  BY <1>1, <1>2, <1>3, <2>3, <3>1
    <2>4. CASE k > i
        <3>1. k + 1 \in 1..Len(events) /\ k + 1 # i + 1  BY <2>4
        <3>2. Without(events, i)[k] = events[k + 1]  BY <1>1, <1>2, <1>3, <2>4, <3>1
        <3>3. events[k + 1].count \in Int  BY <3>1
        <3>4. QED  BY <2>4, <3>2, <3>3
    <2>5. QED  BY <2>2, <2>3, <2>4
<1>5. QED  BY <1>1, <1>2, <1>3, <1>4

\* The queue CPU_SetCompare leaves: the COMPARE event, if there is one, is gone.
LEMMA SetCompareElem ==
    ASSUME Inv, NEW value \in 0..(Wrap - 1), SetCompare(value)
    PROVE  /\ events' \in Seq(Event)
           /\ Len(events') = Len(events) - IF Armed THEN 1 ELSE 0
           /\ DeltasExact' /\ Ordered'
           /\ ~\E k \in DOMAIN events' : events'[k].type = "COMPARE"
           /\ \E k \in DOMAIN events' : events'[k].type = "VBL"
           /\ \A k, l \in DOMAIN events' :
                 events'[k].type = events'[l].type /\ events'[k].type \in {"VBL", "COMPARE"}
                     => k = l
<1>1. /\ Ready
      /\ \/ Compares = {} /\ events' = events
         \/ \E i \in Compares : events' = Without(events, i)
    BY DEF SetCompare
<1>2. Armed <=> Compares # {}  BY <1>1 DEF Armed
<1>3. /\ \E k \in 1..Len(events) : events[k].type = "VBL"
      /\ \A k, l \in 1..Len(events) :
            events[k].type = events[l].type /\ events[k].type \in {"VBL", "COMPARE"} => k = l
    BY <1>1, Shape DEF Inv, OneOfEach
<1>4. CASE Compares = {} /\ events' = events
    <2>1. ~Armed  BY <1>2, <1>4
    <2>2. Len(events') = Len(events) - 0  BY <1>4, Shape
    <2>3. DeltasExact' /\ Ordered'  BY <1>4 DEF Inv, DeltasExact, Ordered
    <2>4. ~\E k \in DOMAIN events' : events'[k].type = "COMPARE"
        BY <1>4 DEF Compares
    <2>5. QED  BY <1>3, <1>4, <2>1, <2>2, <2>3, <2>4, Shape
<1>5. ASSUME NEW i \in Compares, events' = Without(events, i)
      PROVE  /\ events' \in Seq(Event)
             /\ Len(events') = Len(events) - IF Armed THEN 1 ELSE 0
             /\ DeltasExact' /\ Ordered'
             /\ ~\E k \in DOMAIN events' : events'[k].type = "COMPARE"
             /\ \E k \in DOMAIN events' : events'[k].type = "VBL"
             /\ \A k, l \in DOMAIN events' :
                   events'[k].type = events'[l].type /\ events'[k].type \in {"VBL", "COMPARE"}
                       => k = l
    <2>1. i \in 1..Len(events) /\ events[i].type = "COMPARE"  BY Shape DEF Compares
    <2>2. /\ events' \in Seq(Event) /\ Len(events') = Len(events) - 1
          /\ \A k \in 1..(Len(events) - 1) :
                IF k < i THEN events'[k] = events[k]
                ELSE /\ events'[k].type = events[k + 1].type
                     /\ events'[k].left = events[k + 1].left
                     /\ events'[k].count =
                           events[k + 1].count + IF k = i THEN events[i].count ELSE 0
        BY <1>5, <2>1, WithoutElem
    <2>3. DOMAIN events' = 1..(Len(events) - 1) /\ Len(events) \in Nat
        BY <2>2, Shape, LenProperties
    <2>4. Len(events') = Len(events) - IF Armed THEN 1 ELSE 0  BY <1>2, <2>2
    <2> DEFINE at(k) == IF k < i THEN k ELSE k + 1
    <2>5. \A k \in 1..(Len(events) - 1) :
             /\ at(k) \in 1..Len(events) /\ at(k) # i
             /\ events'[k].type = events[at(k)].type /\ events'[k].left = events[at(k)].left
        BY <2>1, <2>2, <2>3
    <2>6. DeltasExact'
        <3> SUFFICES ASSUME NEW k \in 1..(Len(events) - 1)
                     PROVE  events'[k].left =
                                events'[k].count + IF k = 1 THEN 0 ELSE events'[k - 1].left
            BY <2>3 DEF DeltasExact
        <3>1. k # 1 => k - 1 \in 1..(Len(events) - 1)  BY <2>3
        <3>2. CASE k < i
            <4>1. k \in 1..Len(events) /\ (k # 1 => k - 1 < i)  BY <2>1, <3>2
            <4>2. events'[k] = events[k] /\ (k # 1 => events'[k - 1] = events[k - 1])
                BY <2>2, <3>1, <3>2, <4>1
            <4>3. events[k].left = events[k].count + IF k = 1 THEN 0 ELSE events[k - 1].left
                BY <4>1, Shape
            <4>4. QED  BY <4>2, <4>3
        <3>3. CASE k = i
            <4>1. k + 1 \in 1..Len(events) /\ k + 1 # 1 /\ (k + 1) - 1 = k
                BY <2>3
            <4>2. events[k + 1].left = events[k + 1].count + events[k].left
                BY <4>1, Shape
            <4>3. events[k].left = events[k].count + IF k = 1 THEN 0 ELSE events[k - 1].left
                BY <2>1, <3>3, Shape
            <4>4. events'[k].left = events[k + 1].left
                  /\ events'[k].count = events[k + 1].count + events[k].count
                BY <2>2, <3>3
            <4>5. k # 1 => events'[k - 1] = events[k - 1] /\ events[k - 1].left \in Int
                BY <2>1, <2>2, <3>1, <3>3, Shape
            <4>6. events[k].count \in Int /\ events[k + 1].count \in Int
                BY <2>1, <3>3, <4>1, Shape
            <4>7. QED  BY <4>2, <4>3, <4>4, <4>5, <4>6
        <3>4. CASE k > i
            <4>1. k + 1 \in 1..Len(events) /\ k + 1 # 1 /\ (k + 1) - 1 = k
                  /\ ~(k < i) /\ k # i /\ ~(k - 1 < i) /\ k # 1 /\ (k - 1) + 1 = k
                BY <2>1, <2>3, <3>4
            <4>2. events[k + 1].left = events[k + 1].count + events[k].left
                BY <4>1, Shape
            <4>3. events'[k].left = events[k + 1].left
                  /\ events'[k].count = events[k + 1].count + 0
                BY <2>2, <4>1
            <4>4. events'[k - 1].left = events[(k - 1) + 1].left
                BY <2>2, <3>1, <4>1
            <4>5. events[k + 1].count \in Int  BY <4>1, Shape
            <4>6. QED  BY <4>1, <4>2, <4>3, <4>4, <4>5
        <3>5. QED  BY <2>1, <3>2, <3>3, <3>4
    <2>7. Ordered'
        <3> SUFFICES ASSUME NEW k \in 2..(Len(events) - 1) PROVE events'[k].count >= 0
            BY <2>2 DEF Ordered
        <3>0. \A j \in 2..Len(events) : events[j].count >= 0 /\ events[j].count \in Int
            BY Shape DEF Inv, Ordered
        <3>1. k \in 1..(Len(events) - 1) /\ k \in 2..Len(events) /\ k + 1 \in 2..Len(events)
            BY <2>3
        <3>2. CASE k < i  BY <2>2, <3>0, <3>1, <3>2
        <3>3. CASE k = i
            <4>1. events'[k].count = events[k + 1].count + events[k].count
                BY <2>2, <3>1, <3>3
            <4>2. QED  BY <3>0, <3>1, <4>1
        <3>4. CASE k > i
            <4>1. ~(k < i) /\ k # i  BY <2>1, <3>4
            <4>2. events'[k].count = events[k + 1].count + 0  BY <2>2, <3>1, <4>1
            <4>3. QED  BY <3>0, <3>1, <4>2
        <3>5. QED  BY <2>1, <3>2, <3>3, <3>4
    <2>8. ASSUME NEW k \in 1..(Len(events) - 1), events'[k].type = "COMPARE" PROVE FALSE
        <3> HIDE DEF at
        <3>1. events[at(k)].type = "COMPARE" /\ at(k) \in 1..Len(events) /\ at(k) # i
            BY <2>5, <2>8
        <3>2. QED  BY <1>3, <2>1, <3>1
    <2>9. \E k \in 1..(Len(events) - 1) : events'[k].type = "VBL"
        <3>1. PICK j \in 1..Len(events) : events[j].type = "VBL"  BY <1>3
        <3>2. j # i  BY <2>1, <3>1
        <3>3. CASE j < i
            <4>1. j \in 1..(Len(events) - 1)  BY <2>1, <3>3
            <4>2. QED  BY <2>2, <3>1, <3>3, <4>1
        <3>4. CASE j > i
            <4>1. j - 1 \in 1..(Len(events) - 1) /\ ~(j - 1 < i) /\ (j - 1) + 1 = j
                BY <2>1, <3>4
            <4>2. events'[j - 1].type = events[j].type  BY <2>2, <4>1
            <4>3. QED  BY <3>1, <4>1, <4>2
        <3>5. QED  BY <2>1, <3>2, <3>3, <3>4
    <2>10. ASSUME NEW k \in 1..(Len(events) - 1), NEW l \in 1..(Len(events) - 1),
                  events'[k].type = events'[l].type, events'[k].type \in {"VBL", "COMPARE"}
           PROVE  k = l
        <3>1. at(k) = at(l)
            <4> HIDE DEF at
            <4>1. QED  BY <1>3, <2>5, <2>10
        <3>2. QED  BY <2>1, <3>1
    <2>11. QED  BY <2>2, <2>3, <2>4, <2>6, <2>7, <2>8, <2>9, <2>10
<1>6. QED  BY <1>1, <1>4, <1>5

LEMMA SetCompareInv == ASSUME Inv, NEW value \in 0..(Wrap - 1), SetCompare(value) PROVE Inv'
<1> DEFINE asked == Signed((value - count) % Wrap)
<1>1. /\ Ready /\ compare' = value /\ ip8' = FALSE /\ count' = count /\ tasks' = tasks
      /\ adding' = [at |-> 1, type |-> "COMPARE", rest |-> asked, asked |-> asked]
    BY DEF SetCompare, AddEvent
<1>2. asked \in Int
    <2>1. (value - count) % Wrap \in Int /\ Wrap \in Int
        BY ModRange, CyclesAssumption DEF Inv, TypeOK
    <2>2. QED  BY <2>1 DEF Signed
<1> HIDE DEF asked
<1>3. /\ events' \in Seq(Event)
      /\ Len(events') = Len(events) - IF Armed THEN 1 ELSE 0
      /\ DeltasExact' /\ Ordered'
      /\ ~\E k \in DOMAIN events' : events'[k].type = "COMPARE"
      /\ \E k \in DOMAIN events' : events'[k].type = "VBL"
      /\ \A k, l \in DOMAIN events' :
            events'[k].type = events'[l].type /\ events'[k].type \in {"VBL", "COMPARE"}
                => k = l
    BY SetCompareElem
<1>4. ~Ready' /\ Len(events') \in Nat /\ Len(events) \in Nat
      /\ tasks \in Nat /\ MaxTasks \in Nat
    <2>1. ~Ready'  BY <1>1 DEF Ready
    <2>2. Len(events') \in Nat  BY <1>3, LenProperties
    <2>3. QED  BY <2>1, <2>2, Shape, CyclesAssumption DEF Inv, TypeOK
<1>5. TypeOK'
    <2>1. adding' \in [at : Nat, type : Types, rest : Int, asked : Int]
        BY <1>1, <1>2 DEF Types
    <2>2. QED  BY <1>1, <1>3, <2>1 DEF Inv, TypeOK, Event
<1>6. OneOfEach'
    <2>1. Compares' = {}  BY <1>3 DEF Compares
    <2>2. QED  BY <1>1, <1>3, <1>4, <2>1 DEF OneOfEach
<1>7. RaisedOrArmed'  BY <1>1 DEF RaisedOrArmed
<1>8. Account'
    <2>1. Armed'  BY <1>1, <1>4 DEF Armed
    <2>2. Len(events) = 1 + (IF Armed THEN 1 ELSE 0) + tasks /\ tasks <= MaxTasks
        BY <1>1, <1>4 DEF Inv, Account
    <2>3. Len(events') = 1 + tasks
        <3>1. CASE Armed  BY <1>3, <1>4, <2>2, <3>1
        <3>2. CASE ~Armed  BY <1>3, <1>4, <2>2, <3>2
        <3>3. QED  BY <3>1, <3>2
    <2>4. QED  BY <1>1, <1>4, <2>1, <2>2, <2>3 DEF Account
<1>9. Loop'  BY <1>1, <1>2, <1>4 DEF Loop
<1>10. QED  BY <1>3, <1>5, <1>6, <1>7, <1>8, <1>9 DEF Inv
-------------------------------------------------------------------------------
LEMMA NextInv == Inv /\ [Next]_vars => Inv'
<1> SUFFICES ASSUME Inv, [Next]_vars PROVE Inv'  OBVIOUS
<1>1. CASE Pass  BY <1>1, PassInv
<1>2. CASE Place  BY <1>2, PlaceInv
<1>3. CASE UpdateCounter
    <2>1. PICK n \in 1..MaxOps : Tick(n) \/ Fire(n) \/ Fire(SkipToNextEvent(n))
        BY <1>3 DEF UpdateCounter
    <2>2. CASE Tick(n)  BY <2>2, TickInv
    <2>3. CASE Fire(n)
        <3>1. n \in Int  OBVIOUS
        <3>2. QED  BY <2>3, <3>1, FireInv
    <2>4. CASE Fire(SkipToNextEvent(n))
        <3>1. Ready  BY <2>4 DEF Fire, VerticalBlank, CompareDue, AudioDone, SpInterrupt, Due
        <3>2. Len(events) > 0  BY <3>1, Shape DEF Inv, OneOfEach
        <3>3. Head(events) = events[1] /\ events[1].count \in Int  BY <3>2, Shape
        <3>4. SkipToNextEvent(n) \in Int  BY <3>3, CyclesAssumption DEF SkipToNextEvent
        <3>5. QED  BY <2>4, <3>4, FireInv
    <2>5. QED  BY <2>1, <2>2, <2>3, <2>4
<1>4. CASE Guest
    BY <1>4, ProcessAListInv, SetCountInv, KeepCompareInv, SetCompareInv DEF Guest
<1>5. CASE UNCHANGED vars
    BY <1>5 DEF Inv, TypeOK, OneOfEach, DeltasExact, Ordered, RaisedOrArmed, Loop, Account,
                Armed, Compares, Ready, vars
<1>6. QED  BY <1>1, <1>2, <1>3, <1>4, <1>5 DEF Next

THEOREM Invariant == Spec => []Inv
<1>1. Init => Inv  BY InitInv
<1>2. Inv /\ [Next]_vars => Inv'  BY NextInv
<1>3. QED  BY <1>1, <1>2, PTL DEF Spec

\* Every event always keeps to its own timer, whatever is inserted in front of
\* it or removed: the relative counts of CPU_AddEvent, CPU_SetCompareEvent and
\* CPU_PopEvent.
THEOREM CountsExact == Spec => []DeltasExact
<1>1. Inv => DeltasExact  BY DEF Inv
<1>2. QED  BY <1>1, Invariant, PTL

\* The queue stays in the order in which its events are due.
THEOREM InOrder == Spec => []Ordered
<1>1. Inv => Ordered  BY DEF Inv
<1>2. QED  BY <1>1, Invariant, PTL

\* The vertical blank is never lost or doubled, nor COMPARE doubled.
THEOREM BlankArmedOnce == Spec => []OneOfEach
<1>1. Inv => OneOfEach  BY DEF Inv
<1>2. QED  BY <1>1, Invariant, PTL

\* A pending timer interrupt has no second event to come.
THEOREM RaisedOnce == Spec => []RaisedOrArmed
<1>1. Inv => RaisedOrArmed  BY DEF Inv
<1>2. QED  BY <1>1, Invariant, PTL

\* A queue with room for the blank, COMPARE and an event of each task in flight
\* never overflows, and never runs empty.
THEOREM NeverOverflows == Spec => []((MaxTasks + 2 <= MaxEvents) => FitsQueue)
<1>1. Inv => ((MaxTasks + 2 <= MaxEvents) => FitsQueue)
    <2> SUFFICES ASSUME Inv, MaxTasks + 2 <= MaxEvents PROVE FitsQueue  OBVIOUS
    <2>1. /\ Len(events) \in Nat /\ tasks \in Nat /\ tasks <= MaxTasks
          /\ MaxTasks \in Nat /\ MaxEvents \in Nat
        BY Shape, CyclesAssumption DEF Inv, TypeOK, Account
    <2>2. Len(events) + (IF Ready THEN 0 ELSE 1) = 1 + (IF Armed THEN 1 ELSE 0) + tasks
        BY DEF Inv, Account
    <2>3. CASE Ready
        <3>1. Len(events) >= 1  BY <2>1, <2>2, <2>3
        <3>2. QED  BY <2>3, <3>1 DEF FitsQueue
    <2>4. CASE ~Ready
        <3>1. Len(events) <= 1 + tasks  BY <2>1, <2>2, <2>4
        <3>2. QED  BY <2>1, <2>4, <3>1 DEF FitsQueue
    <2>5. QED  BY <2>3, <2>4
<1>2. QED  BY <1>1, Invariant, PTL
===============================================================================
