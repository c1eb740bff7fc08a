------------------------------ MODULE EventQueue ------------------------------
(***************************************************************************)
(* The CPU's timed events (Core/CPU.cpp): a queue in which each event holds *)
(* the cycles left after the event before it.  The vertical blank re-arms   *)
(* itself, the guest arms COMPARE, and an asynchronous audio task takes an *)
(* AUDIO event and then, if the guest asked for it, an SPINT event.        *)
(*                                                                         *)
(* One cycle of the model stands for many of the code, and COUNT has Wrap  *)
(* values instead of 2^32.  The loop of CPU_AddEvent is walked an event at *)
(* a time in `adding`; nothing else runs until it has ended.  The MI        *)
(* interrupts the events raise are Interrupts' own.                        *)
(*                                                                         *)
(* A field of an event is history: `left` is what a timer of its own, not   *)
(* one relative to the others, would show.  The queue must never differ.   *)
(***************************************************************************)
EXTENDS Integers, SequencesExt

CONSTANTS
    Wrap,               \* the number of values of COUNT and COMPARE
    MaxOps,             \* the most cycles between two updates of the counter
    Periods,            \* the values of VI_INTR_CYCLES
    SpDelay,            \* the delay of the SP interrupt of an audio task
    Deltas,             \* how far from COUNT the guest sets COMPARE
    MaxTasks,           \* audio tasks started and not yet reported
    MaxEvents,          \* MAX_CPU_EVENTS
    MaxCycles           \* bound of the cycles to an event, for model checking

ASSUME CyclesAssumption ==
    /\ Wrap \in Nat \ {0} /\ MaxOps \in Nat \ {0} /\ SpDelay \in Nat \ {0}
    /\ Periods \subseteq Nat \ {0} /\ Periods # {} /\ Deltas \subseteq 0..(Wrap - 1)
    /\ MaxTasks \in Nat /\ MaxEvents \in Nat /\ MaxCycles \in Nat

VARIABLES
    events,             \* Events[0 .. NumEvents - 1]
    adding,             \* the event being added, the loop's index and count
    count, compare,     \* C0_COUNT and C0_COMPARE
    ip8,                \* CAUSE_IP8
    tasks               \* audio tasks in flight

vars == <<events, adding, count, compare, ip8, tasks>>

Types == {"VBL", "COMPARE", "AUDIO", "SPINT"}

Idle == [at |-> 0, type |-> "VBL", rest |-> 0, asked |-> 0]

\* CPU_AddEvent is entered with a count; `asked` keeps it while `rest` shrinks.
AddEvent(cycles, type) ==
    adding' = [at |-> 1, type |-> type, rest |-> cycles, asked |-> cycles]

Init ==
    /\ \E period \in Periods :
          events = <<[type |-> "VBL", count |-> period, left |-> period]>>
    /\ adding = Idle /\ count = 0 /\ compare = 0
    /\ ip8 = FALSE /\ tasks = 0

Ready == adding.at = 0
-------------------------------------------------------------------------------
New == [type |-> adding.type, count |-> adding.rest, left |-> adding.asked]

\* This event belongs after the one the loop is at.
Pass ==
    /\ adding.at \in 1..Len(events)
    /\ adding.rest > events[adding.at].count
    /\ adding' = [adding EXCEPT !.at = @ + 1, !.rest = @ - events[adding.at].count]
    /\ UNCHANGED <<events, count, compare, ip8, tasks>>

\* Mutant: an event that belongs last is not added.
Place_NeverLast ==
    /\ adding.at \in 1..Len(events) /\ adding.rest <= events[adding.at].count
    /\ events' = InsertAt([events EXCEPT ![adding.at].count = @ - adding.rest],
                          adding.at, New)
    /\ adding' = Idle
    /\ UNCHANGED <<count, compare, ip8, tasks>>

\* It belongs here, or the loop has reached the end.
Place ==
    /\ adding.at \in 1..(Len(events) + 1)
    /\ adding.at <= Len(events) => adding.rest <= events[adding.at].count
    /\ LET behind == IF adding.at > Len(events) THEN events
                     ELSE [events EXCEPT ![adding.at].count = @ - adding.rest]
       IN  events' = InsertAt(behind, adding.at, New)
    /\ adding' = Idle
    /\ UNCHANGED <<count, compare, ip8, tasks>>

\* n cycles pass for every timer.
Elapse(queue, n) ==
    [i \in DOMAIN queue |->
        [queue[i] EXCEPT !.count = IF i = 1 THEN @ - n ELSE @, !.left = @ - n]]

\* CPU_UpdateCounter, when no event is due afterwards.
Tick(n) ==
    /\ Ready /\ Head(events).count > n
    /\ events' = Elapse(events, n)
    /\ count' = (count + n) % Wrap
    /\ UNCHANGED <<adding, compare, ip8, tasks>>

\* CPU_PopEvent discards by how much the event was late: the timers behind it
\* are put back by as much.
PopEvent(queue) ==
    [i \in DOMAIN Tail(queue) |->
        [Tail(queue)[i] EXCEPT !.left = @ - Head(queue).left]]

\* CPU_UpdateCounter and CPU_HANDLE_COUNT_INTERRUPT, when the first event is due.
Due(n, type) ==
    /\ Ready /\ Head(events).count <= n /\ Head(events).type = type
    /\ events' = PopEvent(Elapse(events, n))
    /\ count' = (count + n) % Wrap
    /\ UNCHANGED compare

\* Mutant: the vertical blank is armed again only while an event is queued.
VerticalBlank_NotAlone(n) ==
    /\ Due(n, "VBL")
    /\ \E period \in Periods :
          IF Len(events) > 1 THEN AddEvent(period, "VBL") ELSE UNCHANGED adding
    /\ UNCHANGED <<ip8, tasks>>

VerticalBlank(n) ==
    /\ Due(n, "VBL")
    /\ \E period \in Periods : AddEvent(period, "VBL")
    /\ UNCHANGED <<ip8, tasks>>

CompareDue(n) ==
    /\ Due(n, "COMPARE")
    /\ ip8' = TRUE
    /\ UNCHANGED <<adding, tasks>>

\* The SP interrupt follows when SP_STATUS_INTR_BREAK is set.
AudioDone(n) ==
    /\ Due(n, "AUDIO")
    /\ \/ AddEvent(SpDelay, "SPINT") /\ UNCHANGED tasks
       \/ tasks' = tasks - 1 /\ UNCHANGED adding
    /\ UNCHANGED ip8

SpInterrupt(n) ==
    /\ Due(n, "SPINT")
    /\ tasks' = tasks - 1
    /\ UNCHANGED <<adding, ip8>>

\* The guest starts an audio task that the worker thread will process.
ProcessAList ==
    /\ Ready /\ tasks < MaxTasks
    /\ tasks' = tasks + 1
    /\ AddEvent(1, "AUDIO")
    /\ UNCHANGED <<events, count, compare, ip8>>

\* The guest writes COUNT; the events are left as they are.
SetCount(value) ==
    /\ Ready
    /\ count' = value
    /\ UNCHANGED <<events, adding, compare, ip8, tasks>>

\* CPU_SetCompare with the value COMPARE has, or with 0: an old event stays.
KeepCompare(value) ==
    /\ Ready /\ value \in {compare, 0}
    /\ compare' = value
    /\ ip8' = FALSE
    /\ UNCHANGED <<events, adding, count, tasks>>

\* CPU_SetCompareEvent takes its count as a signed number.
Signed(delta) == IF 2 * delta >= Wrap THEN delta - Wrap ELSE delta

\* COMPARE below COUNT moves the events behind it away, each time a little more.
InTime == \A i \in DOMAIN events : events[i].left <= MaxCycles

Compares == {i \in DOMAIN events : events[i].type = "COMPARE"}

\* Mutant: the event behind the removed one is not put back.
Without_LosesCount(queue, i) == RemoveAt(queue, i)

\* What is behind the removed event waits for it as well.
Without(queue, i) ==
    RemoveAt(IF i < Len(queue)
             THEN [queue EXCEPT ![i + 1].count = @ + queue[i].count]
             ELSE queue, i)

\* Mutant: the COMPARE event that is queued is not removed.
SetCompare_KeepsOld(value) ==
    LET delta == (value - count) % Wrap IN
    /\ Ready /\ InTime /\ value \notin {compare, 0} /\ delta \in Deltas
    /\ compare' = value
    /\ ip8' = FALSE
    /\ AddEvent(Signed(delta), "COMPARE")
    /\ UNCHANGED <<events, count, tasks>>

\* Mutant: the timer interrupt is not acknowledged.
SetCompare_KeepsIp8(value) ==
    LET delta == (value - count) % Wrap IN
    /\ Ready /\ InTime /\ value \notin {compare, 0} /\ delta \in Deltas
    /\ compare' = value
    /\ \/ Compares = {} /\ UNCHANGED events
       \/ \E i \in Compares : events' = Without(events, i)
    /\ AddEvent(Signed(delta), "COMPARE")
    /\ UNCHANGED <<count, ip8, tasks>>

SetCompare(value) ==
    LET delta == (value - count) % Wrap IN
    /\ Ready /\ InTime /\ value \notin {compare, 0} /\ delta \in Deltas
    /\ compare' = value
    /\ ip8' = FALSE
    /\ \/ Compares = {} /\ UNCHANGED events
       \/ \E i \in Compares : events' = Without(events, i)
    /\ AddEvent(Signed(delta), "COMPARE")
    /\ UNCHANGED <<count, tasks>>
-------------------------------------------------------------------------------
Fire(n) == VerticalBlank(n) \/ CompareDue(n) \/ AudioDone(n) \/ SpInterrupt(n)

\* A busy wait of the guest is skipped to one cycle before the next event; the
\* n cycles of the wait itself follow.
SkipToNextEvent(n) == Head(events).count - 1 + n

UpdateCounter ==
    \E n \in 1..MaxOps : Tick(n) \/ Fire(n) \/ Fire(SkipToNextEvent(n))

Guest ==
    \/ ProcessAList
    \/ \E value \in 0..(Wrap - 1) : SetCount(value) \/ KeepCompare(value) \/ SetCompare(value)

Next == Pass \/ Place \/ UpdateCounter \/ Guest

\* Every operation of the guest ends in an update of the counter, so it cannot
\* go on for ever without one, however many events it adds in between.
Spec == Init /\ [][Next]_vars /\ WF_vars(Pass \/ Place) /\ SF_vars(UpdateCounter)
-------------------------------------------------------------------------------
TypeOK ==
    /\ events \in Seq([type : Types, count : Int, left : Int])
    /\ adding \in [at : Nat, type : Types, rest : Int, asked : Int]
    /\ count \in 0..(Wrap - 1) /\ compare \in 0..(Wrap - 1)
    /\ ip8 \in BOOLEAN /\ tasks \in Nat

Armed == Compares # {} \/ (~Ready /\ adding.type = "COMPARE")

\* The vertical blank is always due, exactly once, and there is at most one
\* COMPARE event, through every insertion, removal and firing.
OneOfEach ==
    /\ ~Ready /\ adding.type = "VBL" <=> ~\E i \in DOMAIN events : events[i].type = "VBL"
    /\ ~Ready /\ adding.type = "COMPARE" => Compares = {}
    /\ \A i, j \in DOMAIN events :
          events[i].type = events[j].type /\ events[i].type \in {"VBL", "COMPARE"} => i = j

\* The counts, each relative to the one before, say of every event what a timer
\* of its own would say: no insertion or removal moves another event.
DeltasExact ==
    \A i \in DOMAIN events :
        events[i].left = events[i].count + IF i = 1 THEN 0 ELSE events[i - 1].left

\* What is not first in the queue is never due before what is.
Ordered == \A i \in 2..Len(events) : events[i].count >= 0

\* The timer interrupt is pending or its event is still to come, never both.
RaisedOrArmed == ip8 => ~Armed

\* The assertions of CPU_AddEvent and CPU_HANDLE_COUNT_INTERRUPT: there is
\* room for an event to be added, and there is always one left.
FitsQueue ==
    /\ ~Ready => Len(events) < MaxEvents
    /\ Ready => Len(events) > 0

\* The guest has set COMPARE to COUNT or, as signed numbers go, below: the count is
\* one that the assertion of CPU_SetCompareEvent calls invalid.  The event is due
\* at once, and what passes until then does not count for those behind it.
SetLate == \E value \in 0..(Wrap - 1) : SetCompare(value) /\ adding'.rest <= 0

\* The guest gets vertical blanks for ever, whatever it skips, arms or adds, if it
\* does not for ever set COMPARE late, which postpones them.
BlanksRecur == <>[][~SetLate]_vars => []<>(~Ready /\ adding.type = "VBL")
===============================================================================
