----------------------------- MODULE TraceRecorder -----------------------------
(***************************************************************************)
(* The recorder of hot traces (DynaRec/TraceRecorder.cpp): the ops the      *)
(* interpreter executes from a hot address on, the details of the branches  *)
(* among them, and the address at which the trace is left.  The operators   *)
(* give the next value of `trace`; Dynarec takes the steps.                 *)
(***************************************************************************)
EXTENDS Integers, Sequences

CONSTANT MaxTrace       \* MAX_TRACE_LENGTH

ASSUME TraceAssumption == MaxTrace \in Nat

VARIABLE trace          \* the members of CTraceRecorder

Unpredicted == -1      \* ~0, the target of an indirect exit

NoTrace ==
    [active |-> FALSE, start |-> 0, ops |-> <<>>, branches |-> <<>>,
     exit |-> 0, open |-> 0, stopAfter |-> FALSE]

StartTrace(a) == [NoTrace EXCEPT !.active = TRUE, !.start = a, !.exit = a + 1]

StopTrace(a) == [trace EXCEPT !.active = FALSE, !.exit = a]

\* The op is not recorded: it has a fragment, or the trace is long enough.
StopsBefore(hit) == (hit \/ Len(trace.ops) > MaxTrace) /\ trace.open = 0

IsConditional(op) == op.kind \in {"branch", "likely"}
IsBranch(op) == op.kind \in {"branch", "likely", "jump", "jr", "eret"}

\* The details of the branch `last` that went to `to` if it was taken: where a
\* run goes that does not follow the trace.
Details(last, op, taken, to) ==
    [kind |-> op.kind, at |-> Len(trace.ops) + 1, slot |-> 0,
     taken |-> op.kind \in {"jump", "jr"} \/ (IsConditional(op) /\ taken),
     target |-> CASE op.kind = "eret" -> Unpredicted
                  [] op.kind \in {"jump", "jr"} -> to
                  [] IsConditional(op) /\ taken -> last.addr + 2
                  [] OTHER -> op.to]

\* Where the trace is left if this op is its last.
ExitAfter(last, op, taken, to) ==
    CASE op.kind = "eret" -> Unpredicted
      [] op.kind \in {"jump", "jr"} -> to
      [] IsConditional(op) -> IF taken THEN op.to ELSE last.addr + 2
      [] OTHER -> IF last.slot THEN trace.exit ELSE last.addr + 1

\* An indirect jump, or a branch backwards, is followed by its slot only.
EndsAfterSlot(op, taken, from, to) ==
    \/ op.kind = "jr"
    \/ op.kind = "jump" /\ to <= from
    \/ IsConditional(op) /\ taken /\ to <= from

\* UpdateTrace: the op `last` is recorded, and ends the trace if it is an ERET
\* or the slot such a branch was waiting for.
Recorded(last, op, taken, to) ==
    LET filled == IF trace.open = 0 THEN trace.branches
                  ELSE [trace.branches EXCEPT ![trace.open].slot = Len(trace.ops) + 1]
        ended == trace.stopAfter /\ last.slot
        entry == [addr |-> last.addr, slot |-> last.slot, ver |-> last.ver,
                  branch |-> IF IsBranch(op) THEN Len(filled) + 1 ELSE 0]
    IN  [trace EXCEPT
            !.active = ~ended /\ op.kind # "eret",
            !.ops = Append(@, entry),
            !.branches = IF IsBranch(op)
                         THEN Append(filled, Details(last, op, taken, to)) ELSE filled,
            !.open = IF IsBranch(op) THEN Len(filled) + 1 ELSE 0,
            !.exit = ExitAfter(last, op, taken, to),
            !.stopAfter = \/ @ /\ ~last.slot
                          \/ EndsAfterSlot(op, taken, last.addr, to)]

\* What CreateFragment makes of a trace that has stopped; `late` is history:
\* whether memory has changed since its ops were recorded.
FragmentOf(t, loop, late) ==
    [exit |-> t.exit, ops |-> t.ops, branches |-> t.branches, loop |-> loop, late |-> late]
================================================================================
