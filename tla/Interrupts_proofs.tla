--------------------------- MODULE Interrupts_proofs ---------------------------
(***************************************************************************)
(* Proofs about Interrupts for every set of sources and of save states.     *)
(* They follow the registers through an operation: each part of it either   *)
(* updates CAUSE or is one of the few that do not.                          *)
(***************************************************************************)
EXTENDS Interrupts, TLAPS

RegSet == [intr : SUBSET Sources, cause : SUBSET Lines, jobs : SUBSET Jobs]

\* CAUSE_IP3 says what the two registers of the MIPS interface say.
Exact(r, m) == "IP3" \in r.cause <=> r.intr \cap m # {}

\* No exception is added.
Keeps(r, t) == "EXCEPTIONS" \in t.jobs <=> "EXCEPTIONS" \in r.jobs

Inv == TypeOK /\ VectorSet
-------------------------------------------------------------------------------
LEMMA Updated ==
    ASSUME NEW r \in RegSet, NEW m
    PROVE  /\ UpdateCause3(r, m) \in RegSet
           /\ UpdateCause3(r, m).intr = r.intr
           /\ Exact(UpdateCause3(r, m), m)
           /\ Keeps(r, UpdateCause3(r, m))
<1>1. r = [intr |-> r.intr, cause |-> r.cause, jobs |-> r.jobs]
      /\ r.intr \subseteq Sources /\ r.cause \subseteq Lines /\ r.jobs \subseteq Jobs
    BY DEF RegSet
<1>2. CASE r.intr \cap m = {}
    <2>1. UpdateCause3(r, m) = [intr |-> r.intr, cause |-> r.cause \ {"IP3"}, jobs |-> r.jobs]
        BY <1>1, <1>2 DEF UpdateCause3
    <2>2. QED  BY <1>1, <1>2, <2>1 DEF RegSet, Exact, Keeps
<1>3. CASE r.intr \cap m # {}
    <2>1. UpdateCause3(r, m) = [intr |-> r.intr, cause |-> r.cause \cup {"IP3"},
                                jobs |-> r.jobs \cup {"INTERRUPTS"}]
        BY <1>1, <1>3 DEF UpdateCause3
    <2>2. "IP3" \in Lines /\ "INTERRUPTS" \in Jobs  BY DEF Lines, Jobs
    <2>3. QED  BY <1>1, <1>3, <2>1, <2>2 DEF RegSet, Exact, Keeps
<1>4. QED  BY <1>2, <1>3

LEMMA Raised ==
    ASSUME NEW r \in RegSet, NEW source
    PROVE  /\ Raise(r, source) \in RegSet
           /\ Raise(r, source).intr = r.intr \cup ({source} \cap Sources)
           /\ Exact(Raise(r, source), mask) /\ Keeps(r, Raise(r, source))
<1> DEFINE q == [r EXCEPT !.intr = @ \cup ({source} \cap Sources)]
<1>1. r = [intr |-> r.intr, cause |-> r.cause, jobs |-> r.jobs]  BY DEF RegSet
<1>2. q = [intr |-> r.intr \cup ({source} \cap Sources), cause |-> r.cause, jobs |-> r.jobs]
    BY <1>1
<1>3. q \in RegSet  BY <1>2 DEF RegSet
<1>4. Raise(r, source) = UpdateCause3(q, mask)  BY DEF Raise
<1> HIDE DEF q
<1>5. /\ UpdateCause3(q, mask) \in RegSet /\ UpdateCause3(q, mask).intr = q.intr
      /\ Exact(UpdateCause3(q, mask), mask) /\ Keeps(q, UpdateCause3(q, mask))
    BY <1>3, Updated
<1>6. q.intr = r.intr \cup ({source} \cap Sources) /\ q.jobs = r.jobs  BY <1>2
<1>7. QED  BY <1>4, <1>5, <1>6 DEF Keeps

LEMMA Cleared ==
    ASSUME NEW r \in RegSet, NEW source
    PROVE  /\ Clear(r, source) \in RegSet /\ Clear(r, source).intr = r.intr \ {source}
           /\ Exact(Clear(r, source), mask) /\ Keeps(r, Clear(r, source))
<1> DEFINE q == [r EXCEPT !.intr = @ \ {source}]
<1>1. r = [intr |-> r.intr, cause |-> r.cause, jobs |-> r.jobs]  BY DEF RegSet
<1>2. q = [intr |-> r.intr \ {source}, cause |-> r.cause, jobs |-> r.jobs]  BY <1>1
<1>3. q \in RegSet  BY <1>2 DEF RegSet
<1>4. Clear(r, source) = UpdateCause3(q, mask)  BY DEF Clear
<1> HIDE DEF q
<1>5. /\ UpdateCause3(q, mask) \in RegSet /\ UpdateCause3(q, mask).intr = q.intr
      /\ Exact(UpdateCause3(q, mask), mask) /\ Keeps(q, UpdateCause3(q, mask))
    BY <1>3, Updated
<1>6. q.intr = r.intr \ {source} /\ q.jobs = r.jobs  BY <1>2
<1>7. QED  BY <1>4, <1>5, <1>6 DEF Keeps

LEMMA RDPFinished ==
    ASSUME NEW r \in RegSet
    PROVE  /\ FinishRDPJob(r) \in RegSet
           /\ FinishRDPJob(r).intr = r.intr \cup ({"DP"} \cap Sources)
           /\ FinishRDPJob(r).cause = r.cause /\ Keeps(r, FinishRDPJob(r))
<1>1. r = [intr |-> r.intr, cause |-> r.cause, jobs |-> r.jobs]  BY DEF RegSet
<1>2. FinishRDPJob(r) = [intr |-> r.intr \cup ({"DP"} \cap Sources), cause |-> r.cause,
                         jobs |-> r.jobs \cup {"INTERRUPTS"}]
    <2> DEFINE f == FinishRDPJob(r)
    <2>1. f = [r EXCEPT !.intr = r.intr \cup ({"DP"} \cap Sources),
                        !.jobs = r.jobs \cup {"INTERRUPTS"}]
        BY DEF FinishRDPJob
    <2>2. f = [[r EXCEPT !.intr = r.intr \cup ({"DP"} \cap Sources)]
                  EXCEPT !.jobs = r.jobs \cup {"INTERRUPTS"}]
        BY <2>1
    <2>3. [r EXCEPT !.intr = r.intr \cup ({"DP"} \cap Sources)]
          = [intr |-> r.intr \cup ({"DP"} \cap Sources), cause |-> r.cause, jobs |-> r.jobs]
        BY <1>1
    <2>4. QED  BY <2>2, <2>3
<1>3. "INTERRUPTS" \in Jobs /\ r.intr \subseteq Sources /\ r.cause \subseteq Lines
      /\ r.jobs \subseteq Jobs
    BY DEF Jobs, RegSet
<1>4. FinishRDPJob(r) \in RegSet  BY <1>2, <1>3 DEF RegSet
<1> DEFINE q == FinishRDPJob(r)
<1>5. q = [intr |-> r.intr \cup ({"DP"} \cap Sources), cause |-> r.cause,
           jobs |-> r.jobs \cup {"INTERRUPTS"}]
    BY <1>2
<1> HIDE DEF q
<1>6. q.intr = r.intr \cup ({"DP"} \cap Sources) /\ q.cause = r.cause
      /\ q.jobs = r.jobs \cup {"INTERRUPTS"}
    BY <1>5
<1>7. Keeps(r, q)  BY <1>6 DEF Keeps
<1>8. QED  BY <1>4, <1>6, <1>7 DEF q

\* A task leaves the registers exact, or as they were, or with MI_INTR_DP added.
LEMMA Processed ==
    ASSUME NEW r \in RegSet, NEW t \in ProcessTask(r)
    PROVE  /\ t \in RegSet /\ Keeps(r, t)
           /\ \/ Exact(t, mask)
              \/ t.cause = r.cause /\ t.intr \in {r.intr, r.intr \cup ({"DP"} \cap Sources)}
<1>1. /\ FinishRDPJob(r) \in RegSet
      /\ FinishRDPJob(r).intr = r.intr \cup ({"DP"} \cap Sources)
      /\ FinishRDPJob(r).cause = r.cause /\ Keeps(r, FinishRDPJob(r))
    BY RDPFinished
<1>2. Raise(r, "DP") \in RegSet /\ Keeps(r, Raise(r, "DP")) /\ Exact(Raise(r, "DP"), mask)
    BY Raised
<1>3. \A q \in RegSet : Raise(q, "SP") \in RegSet /\ Keeps(q, Raise(q, "SP"))
                        /\ Exact(Raise(q, "SP"), mask)
    BY Raised
<1>4. \/ t = r \/ t = FinishRDPJob(r) \/ t = Raise(r, "DP")
      \/ \E q \in {r, FinishRDPJob(r), Raise(r, "DP")} : t = Raise(q, "SP")
    BY DEF ProcessTask, Finished
<1>5. \A q \in {r, FinishRDPJob(r), Raise(r, "DP")} : q \in RegSet /\ Keeps(r, q)
    BY <1>1, <1>2 DEF Keeps
<1>6. QED  BY <1>1, <1>2, <1>3, <1>4, <1>5 DEF Keeps
-------------------------------------------------------------------------------
\* The two ways in which a step may leave CAUSE and MI in disagreement.
Gaps ==
    /\ Missed' /\ ~Missed => "DP" \in intr' \ intr \/ (delaysSi /\ "SI" \in intr' \ intr)
    /\ Spurious' /\ ~Spurious => intr' = intr /\ mask' # mask

\* What a step does to the registers of interrupts and to the jobs.
Step ==
    /\ intr' \subseteq Sources /\ mask' \subseteq Sources /\ cause' \subseteq Lines
    /\ jobs' \subseteq Jobs
    /\ VectorSet'
    /\ Gaps

LEMMA RegsTyped == Inv => Regs \in RegSet
BY DEF Inv, TypeOK, Regs, RegSet

\* An operation that stores registers in which CAUSE is exact.
LEMMA StoreExact ==
    ASSUME Inv, NEW r \in RegSet, Store(r), Exact(r, mask), Keeps(Regs, r),
           mask' = mask, exception' = exception
    PROVE  Step
<1>1. intr' = r.intr /\ cause' = r.cause /\ jobs' = r.jobs
      /\ r.intr \subseteq Sources /\ r.cause \subseteq Lines /\ r.jobs \subseteq Jobs
    BY DEF Store, RegSet
<1>2. VectorSet'  BY <1>1 DEF Inv, VectorSet, Keeps, Regs
<1>3. ~Missed' /\ ~Spurious'  BY <1>1 DEF Exact, Missed, Spurious, Pending
<1>4. QED  BY <1>1, <1>2, <1>3 DEF Step, Gaps, Inv, TypeOK

\* An operation that at most adds one source, from registers of its own that are
\* exact or the ones it began with.
LEMMA StoreMore ==
    ASSUME Inv, NEW r \in RegSet, NEW t \in RegSet, Store(t), Keeps(Regs, t),
           mask' = mask, exception' = exception,
           NEW source \in {"DP", "SI"}, source = "SI" => delaysSi,
           t.cause = r.cause, t.intr \in {r.intr, r.intr \cup ({source} \cap Sources)},
           r.intr \ {"SP"} = intr \ {"SP"},
           Exact(r, mask) \/ (r.cause = cause /\ r.intr = intr)
    PROVE  Step
<1>1. intr' = t.intr /\ cause' = t.cause /\ jobs' = t.jobs
      /\ t.intr \subseteq Sources /\ t.cause \subseteq Lines /\ t.jobs \subseteq Jobs
    BY DEF Store, RegSet
<1>2. VectorSet'  BY <1>1 DEF Inv, VectorSet, Keeps, Regs
<1>3. ASSUME Missed', ~Missed
      PROVE  "DP" \in intr' \ intr \/ (delaysSi /\ "SI" \in intr' \ intr)
    <2>1. t.intr \cap mask # {} /\ "IP3" \notin r.cause
        BY <1>1, <1>3 DEF Missed, Pending
    <2>2. r.intr \cap mask = {}
        BY <1>3, <2>1 DEF Exact, Missed, Pending
    <2>3. source \in t.intr /\ source \notin r.intr  BY <2>1, <2>2
    <2>4. source \notin intr  BY <2>3
    <2>5. QED  BY <1>1, <2>3, <2>4
<1>4. ~(Spurious' /\ ~Spurious)
    BY <1>1 DEF Spurious, Pending, Exact
<1>5. QED  BY <1>1, <1>2, <1>3, <1>4 DEF Step, Gaps, Inv, TypeOK

LEMMA TaskStep ==
    ASSUME Inv, NEW r \in RegSet, NEW t \in ProcessTask(r), Store(t), Keeps(Regs, r),
           mask' = mask, exception' = exception, r.intr \ {"SP"} = intr \ {"SP"},
           Exact(r, mask) \/ (r.cause = cause /\ r.intr = intr)
    PROVE  Step
<1>1. /\ t \in RegSet /\ Keeps(r, t)
      /\ \/ Exact(t, mask)
         \/ t.cause = r.cause /\ t.intr \in {r.intr, r.intr \cup ({"DP"} \cap Sources)}
    BY Processed
<1>2. Keeps(Regs, t)  BY <1>1 DEF Keeps
<1>3. CASE Exact(t, mask)  BY <1>1, <1>2, <1>3, StoreExact
<1>4. CASE t.cause = r.cause /\ t.intr \in {r.intr, r.intr \cup ({"DP"} \cap Sources)}
    BY <1>1, <1>2, <1>4, StoreMore
<1>5. QED  BY <1>1, <1>3, <1>4
-------------------------------------------------------------------------------
LEMMA RegsSelf == Keeps(Regs, Regs) /\ Regs.intr = intr /\ Regs.cause = cause /\ Regs.jobs = jobs
BY DEF Regs, Keeps

LEMMA DelayedSi ==
    [Regs EXCEPT !.intr = @ \cup ({"SI"} \cap Sources)]
    = [intr |-> intr \cup ({"SI"} \cap Sources), cause |-> cause, jobs |-> jobs]
<1>1. Regs = [intr |-> intr, cause |-> cause, jobs |-> jobs]  BY DEF Regs
<1>2. QED  BY <1>1

LEMMA GuestStep == Inv /\ Guest => Step
<1> SUFFICES ASSUME Inv, Guest PROVE Step  OBVIOUS
<1> USE RegsTyped, RegsSelf
<1>0. ASSUME Store(Regs) \/ (intr' = intr /\ cause' = cause), mask' = mask, VectorSet',
             jobs' \subseteq Jobs
      PROVE  Step
    BY <1>0 DEF Step, Gaps, Missed, Spurious, Pending, Inv, TypeOK, Store, Regs
<1>1. CASE WriteSPStatus
    <2>1. PICK r \in {Regs, Raise(Regs, "SP"), Clear(Regs, "SP")} :
             \E t \in ProcessTask(r) : Store(t)
        BY <1>1 DEF WriteSPStatus
    <2>2. r \in RegSet /\ Keeps(Regs, r) /\ r.intr \ {"SP"} = intr \ {"SP"}
          /\ (Exact(r, mask) \/ (r.cause = cause /\ r.intr = intr))
        <3>1. CASE r = Regs  BY <3>1
        <3>2. CASE r = Raise(Regs, "SP")
            <4>1. r \in RegSet /\ r.intr = Regs.intr \cup ({"SP"} \cap Sources)
                  /\ Exact(r, mask) /\ Keeps(Regs, r)
                BY <3>2, Raised
            <4>2. QED  BY <4>1
        <3>3. CASE r = Clear(Regs, "SP")
            <4>1. r \in RegSet /\ r.intr = Regs.intr \ {"SP"}
                  /\ Exact(r, mask) /\ Keeps(Regs, r)
                BY <3>3, Cleared
            <4>2. QED  BY <4>1
        <3>4. QED  BY <3>1, <3>2, <3>3
    <2>3. mask' = mask /\ exception' = exception  BY <1>1 DEF WriteSPStatus
    <2>4. QED  BY <2>1, <2>2, <2>3, TaskStep
<1>2. CASE WriteDPCStatus
    <2>1. PICK t \in ProcessTask(Regs) : Store(t)  BY <1>2 DEF WriteDPCStatus
    <2>2. mask' = mask /\ exception' = exception  BY <1>2 DEF WriteDPCStatus
    <2>3. QED  BY <2>1, <2>2, TaskStep
<1>3. CASE Transfer
    <2>1. PICK source \in {"DP", "PI", "SI"} : Store(Raise(Regs, source))
        BY <1>3 DEF Transfer
    <2>2. mask' = mask /\ exception' = exception  BY <1>3 DEF Transfer
    <2>3. QED  BY <2>1, <2>2, Raised, StoreExact
<1>4. CASE ReadPif
    <2>1. mask' = mask /\ exception' = exception  BY <1>4 DEF ReadPif
    <2>2. CASE ~delaysSi
        <3>1. Store(Raise(Regs, "SI"))  BY <1>4, <2>2 DEF ReadPif
        <3>2. QED  BY <2>1, <3>1, Raised, StoreExact
    <2>3. CASE delaysSi
        <3> DEFINE t == [Regs EXCEPT !.intr = @ \cup ({"SI"} \cap Sources)]
        <3>1. Store(t)  BY <1>4, <2>3 DEF ReadPif
        <3>2. t = [intr |-> intr \cup ({"SI"} \cap Sources), cause |-> cause, jobs |-> jobs]
            BY DelayedSi
        <3>3. t \in RegSet /\ Keeps(Regs, t)
            BY <3>2 DEF RegSet, Keeps, Inv, TypeOK
        <3>4. t.cause = cause /\ t.intr = intr \cup ({"SI"} \cap Sources)  BY <3>2
        <3> HIDE DEF t
        <3>5. QED  BY <2>1, <2>3, <3>1, <3>3, <3>4, StoreMore
    <2>4. QED  BY <2>2, <2>3
<1>5. CASE Acknowledge
    <2>1. PICK source \in {"DP", "VI", "AI", "PI", "SI"} : Store(Clear(Regs, source))
        BY <1>5 DEF Acknowledge
    <2>2. mask' = mask /\ exception' = exception  BY <1>5 DEF Acknowledge
    <2>3. QED  BY <2>1, <2>2, Cleared, StoreExact
<1>6. CASE WriteMask
    <2>1. mask' \subseteq Sources /\ exception' = exception
          /\ Store(IF mask' \cap intr # {} THEN UpdateCause3(Regs, mask') ELSE Regs)
        BY <1>6 DEF WriteMask
    <2>2. CASE mask' \cap intr # {}
        <3> DEFINE r == UpdateCause3(Regs, mask')
        <3>1. r \in RegSet /\ r.intr = intr /\ Exact(r, mask') /\ Keeps(Regs, r)
            BY Updated
        <3>2. intr' = r.intr /\ cause' = r.cause /\ jobs' = r.jobs
            BY <2>1, <2>2 DEF Store
        <3> HIDE DEF r
        <3>3. intr' \subseteq Sources /\ cause' \subseteq Lines /\ jobs' \subseteq Jobs
            BY <3>1, <3>2 DEF RegSet
        <3>4. VectorSet'  BY <2>1, <3>1, <3>2 DEF Inv, VectorSet, Keeps
        <3>5. ~Missed' /\ ~Spurious'  BY <3>1, <3>2 DEF Exact, Missed, Spurious, Pending
        <3>6. QED  BY <2>1, <3>3, <3>4, <3>5 DEF Step, Gaps
    <2>3. CASE mask' \cap intr = {}
        <3>1. intr' = intr /\ cause' = cause /\ jobs' = jobs
            BY <2>1, <2>3 DEF Store, Regs
        <3>2. VectorSet'  BY <2>1, <3>1 DEF Inv, VectorSet
        <3>3. ~Missed'  BY <2>3, <3>1 DEF Missed, Pending
        <3>4. Spurious' /\ ~Spurious => mask' # mask
            BY <3>1 DEF Spurious, Pending
        <3>5. QED  BY <2>1, <3>1, <3>2, <3>3, <3>4 DEF Step, Gaps, Inv, TypeOK
    <2>4. QED  BY <2>2, <2>3
<1>7. CASE SetSR
    BY <1>0, <1>7 DEF SetSR, Op, Inv, VectorSet, Jobs
<1>8. CASE RestoreInt
    BY <1>0, <1>8 DEF RestoreInt, Op, Inv, VectorSet, Jobs
<1>9. CASE Eret
    BY <1>0, <1>9 DEF Eret, Op, Inv, VectorSet, Jobs
<1>10. CASE SetCompare
    <2>1. /\ intr' = intr /\ mask' = mask /\ jobs' = jobs /\ exception' = exception
          /\ cause' = cause \ {"IP8"}
        BY <1>10 DEF SetCompare
    <2>2. QED
        BY <2>1 DEF Step, Gaps, Missed, Spurious, Pending, VectorSet, Inv, TypeOK
<1>11. CASE RaiseException
    BY <1>0, <1>11 DEF RaiseException, VectorSet, Jobs
<1>12. CASE Compute
    BY <1>0, <1>12 DEF Compute, Op, Inv, VectorSet, Jobs
<1>13. QED
    BY <1>1, <1>2, <1>3, <1>4, <1>5, <1>6, <1>7, <1>8, <1>9, <1>10, <1>11, <1>12 DEF Guest

\* What a load makes of the registers it finds.
LEMMA RegsLoaded ==
    ASSUME NEW r \in RegSet, NEW s \in Saved
    PROVE  /\ Loaded(r, s).intr = s.intr /\ Loaded(r, s).cause = s.cause
           /\ Loaded(r, s).jobs \subseteq Jobs /\ Keeps(r, Loaded(r, s))
<1> DEFINE v == [r EXCEPT !.intr = s.intr \ {"VI"}]
           vi == UpdateCause3(v, s.mask)
           a == [vi EXCEPT !.intr = @ \ {"AI"}]
           ai == UpdateCause3(a, s.mask)
           seen == s.sr.im \cap (ai.cause \ {"IP8"})
           checks == IF ~sr.ie /\ s.sr.ie /\ seen # {} THEN {"INTERRUPTS"} ELSE {}
<1>1. s.intr \subseteq Sources  BY SavedAssumption
<1>2. v \in RegSet /\ v.jobs = r.jobs
    <2>1. r = [intr |-> r.intr, cause |-> r.cause, jobs |-> r.jobs]  BY DEF RegSet
    <2>2. v = [intr |-> s.intr \ {"VI"}, cause |-> r.cause, jobs |-> r.jobs]  BY <2>1
    <2>3. QED  BY <1>1, <2>2 DEF RegSet
<1> HIDE DEF v
<1>3. vi \in RegSet /\ Keeps(v, vi)  BY <1>2, Updated
<1> HIDE DEF vi
<1>4. a \in RegSet /\ a.jobs = vi.jobs
    <2>1. vi = [intr |-> vi.intr, cause |-> vi.cause, jobs |-> vi.jobs]  BY <1>3 DEF RegSet
    <2>2. a = [intr |-> vi.intr \ {"AI"}, cause |-> vi.cause, jobs |-> vi.jobs]  BY <2>1
    <2>3. QED  BY <1>3, <2>2 DEF RegSet
<1> HIDE DEF a
<1>5. ai \in RegSet /\ Keeps(a, ai)  BY <1>4, Updated
<1>6. Loaded(r, s) = [intr |-> s.intr, cause |-> s.cause, jobs |-> ai.jobs \cup checks]
    BY DEF Loaded, v, vi, a
<1> HIDE DEF ai
<1>7. checks \subseteq {"INTERRUPTS"}  OBVIOUS
<1> HIDE DEF checks, seen
<1>8. ai.jobs \subseteq Jobs /\ "INTERRUPTS" \in Jobs  BY <1>5 DEF RegSet, Jobs
<1>9. "EXCEPTIONS" \in ai.jobs <=> "EXCEPTIONS" \in r.jobs
    BY <1>2, <1>3, <1>4, <1>5 DEF Keeps
<1> DEFINE t == Loaded(r, s)
<1>10. t.intr = s.intr /\ t.cause = s.cause /\ t.jobs = ai.jobs \cup checks  BY <1>6
<1> HIDE DEF t
<1>11. t.jobs \subseteq Jobs /\ Keeps(r, t)  BY <1>7, <1>8, <1>9, <1>10 DEF Keeps
<1>12. QED  BY <1>10, <1>11 DEF t

LEMMA OtherStep == Inv /\ (Event \/ HandleInterrupt \/ HandleException) => Step
<1> SUFFICES ASSUME Inv, Event \/ HandleInterrupt \/ HandleException PROVE Step  OBVIOUS
<1> USE RegsTyped, RegsSelf
<1>1. CASE VerticalBlank
    <2>1. Store(Raise(Regs, "VI")) /\ mask' = mask /\ exception' = exception
        BY <1>1 DEF VerticalBlank, Due, Count
    <2>2. QED  BY <2>1, Raised, StoreExact
<1>2. CASE SpInterrupt
    <2>1. Store(Raise(Regs, "SP")) /\ mask' = mask /\ exception' = exception
        BY <1>2 DEF SpInterrupt, Due, Count
    <2>2. QED  BY <2>1, Raised, StoreExact
<1>3. CASE CompareDue
    <2>1. /\ intr' = intr /\ mask' = mask /\ exception' = exception
          /\ cause' = cause \cup {"IP8"} /\ jobs' = jobs \cup {"INTERRUPTS"}
        BY <1>3 DEF CompareDue, Due, Count
    <2>2. QED
        BY <2>1 DEF Step, Gaps, Missed, Spurious, Pending, VectorSet, Inv, TypeOK, Lines, Jobs
<1>4. CASE NothingDue
    BY <1>4 DEF NothingDue, Due, Count, Step, Gaps, Missed, Spurious, Pending, VectorSet, Inv, TypeOK
<1>5. CASE HandleInterrupt
    <2>1. /\ intr' = intr /\ mask' = mask /\ cause' = cause /\ exception' = exception
          /\ jobs' = jobs \ {"INTERRUPTS"}
        BY <1>5 DEF HandleInterrupt, Check
    <2>2. QED
        BY <2>1 DEF Step, Gaps, Missed, Spurious, Pending, VectorSet, Inv, TypeOK
<1>6. CASE HandleException
    <2>1. /\ intr' = intr /\ mask' = mask /\ cause' = cause /\ exception' = FALSE
          /\ jobs' = jobs \ {"EXCEPTIONS"}
        BY <1>6 DEF HandleException, Check
    <2>2. QED
        BY <2>1 DEF Step, Gaps, Missed, Spurious, Pending, VectorSet, Inv, TypeOK
<1>7. CASE LoadState
    <2>1. PICK s \in Saved : Store(Loaded(Raise(Regs, "VI"), s)) /\ mask' = s.mask
        BY <1>7 DEF LoadState
    <2>2. exception' = exception  BY <1>7 DEF LoadState, Count
    <2>3. Raise(Regs, "VI") \in RegSet /\ Keeps(Regs, Raise(Regs, "VI"))  BY Raised
    <2> DEFINE t == Loaded(Raise(Regs, "VI"), s)
    <2>4. /\ t.intr = s.intr /\ t.cause = s.cause
          /\ t.jobs \subseteq Jobs /\ Keeps(Regs, t)
        BY <2>3, RegsLoaded DEF Keeps
    <2>5. intr' = t.intr /\ cause' = t.cause /\ jobs' = t.jobs  BY <2>1 DEF Store
    <2> HIDE DEF t
    <2>6. /\ s.intr \subseteq Sources /\ s.mask \subseteq Sources /\ s.cause \subseteq Lines
          /\ ("IP3" \in s.cause <=> s.intr \cap s.mask # {})
        BY SavedAssumption
    <2>7. VectorSet'  BY <2>2, <2>4, <2>5 DEF Inv, VectorSet, Keeps
    <2>8. ~Missed' /\ ~Spurious'
        BY <2>1, <2>4, <2>5, <2>6 DEF Missed, Spurious, Pending
    <2>9. QED  BY <2>1, <2>4, <2>5, <2>6, <2>7, <2>8 DEF Step, Gaps
<1>8. QED  BY <1>1, <1>2, <1>3, <1>4, <1>5, <1>6, <1>7 DEF Event

LEMMA StatusUpdated ==
    ASSUME NEW s \in Status
    PROVE  /\ [s EXCEPT !.ie = TRUE] \in Status /\ [s EXCEPT !.exl = TRUE] \in Status
           /\ [s EXCEPT !.exl = FALSE] \in Status /\ [s EXCEPT !.erl = FALSE] \in Status
<1>1. /\ [s EXCEPT !.ie = TRUE] \in Status
    BY Zenon DEF Status
<1>2. [s EXCEPT !.exl = TRUE] \in Status  BY Zenon DEF Status
<1>3. [s EXCEPT !.exl = FALSE] \in Status  BY Zenon DEF Status
<1>4. [s EXCEPT !.erl = FALSE] \in Status  BY Zenon DEF Status
<1>5. QED  BY <1>1, <1>2, <1>3, <1>4

\* STATUS and the two flags, the rest of the type invariant.
LEMMA StatusTyped ==
    Inv /\ Next => /\ sr' \in Status
                   /\ exception' \in BOOLEAN /\ counting' \in BOOLEAN /\ delaysSi' = delaysSi
<1> SUFFICES ASSUME Inv, Next
             PROVE  /\ sr' \in Status
                    /\ exception' \in BOOLEAN /\ counting' \in BOOLEAN /\ delaysSi' = delaysSi
    OBVIOUS
<1>1. sr \in Status /\ exception \in BOOLEAN /\ counting \in BOOLEAN
    BY Zenon DEF Inv, TypeOK, Status
<1>4. [sr EXCEPT !.ie = TRUE] \in Status /\ [sr EXCEPT !.exl = TRUE] \in Status
      /\ [sr EXCEPT !.exl = FALSE] \in Status /\ [sr EXCEPT !.erl = FALSE] \in Status
    BY <1>1, StatusUpdated
<1>5. sr' \in Status
    <2>1. \/ sr' = sr \/ SetSR \/ LoadState \/ RestoreInt \/ Eret \/ HandleInterrupt \/ HandleException
        BY DEF Next, Guest, Event, Due, WriteSPStatus, WriteDPCStatus, Transfer, ReadPif, Acknowledge,
               WriteMask, SetCompare, RaiseException, Compute, VerticalBlank, CompareDue,
               SpInterrupt, NothingDue, Count
    <2>2. CASE SetSR  BY <2>2 DEF SetSR, Status
    <2>3. CASE RestoreInt  BY <1>1, <1>4, <2>3 DEF RestoreInt
    <2>4. CASE Eret  BY <1>4, <2>4 DEF Eret
    <2>5. CASE HandleInterrupt  BY <1>1, <1>4, <2>5 DEF HandleInterrupt
    <2>6. CASE HandleException  BY <1>4, <2>6 DEF HandleException
    <2>7. CASE LoadState  BY <2>7, SavedAssumption DEF LoadState
    <2>8. QED  BY <1>1, <2>1, <2>2, <2>3, <2>4, <2>5, <2>6, <2>7
<1>6. exception' \in {exception, TRUE, FALSE}
    BY DEF Next, Guest, Event, Due, WriteSPStatus, WriteDPCStatus, Transfer, ReadPif, Acknowledge,
           WriteMask, SetSR, RestoreInt, Eret, SetCompare, RaiseException, Compute,
           VerticalBlank, CompareDue, SpInterrupt, LoadState, NothingDue, Count, HandleInterrupt,
           HandleException
<1>7. counting' \in {counting, TRUE, FALSE}
    BY DEF Next, Guest, Event, Due, WriteSPStatus, WriteDPCStatus, Transfer, ReadPif, Acknowledge,
           WriteMask, SetSR, RestoreInt, Eret, SetCompare, RaiseException, Compute, Op,
           VerticalBlank, CompareDue, SpInterrupt, LoadState, NothingDue, Count, HandleInterrupt,
           HandleException, Check
<1>8. delaysSi' = delaysSi
    <2>1. Op \/ Count \/ Check
        BY DEF Next, Guest, Event, Due, WriteSPStatus, WriteDPCStatus, Transfer, ReadPif, Acknowledge,
               WriteMask, SetSR, RestoreInt, Eret, SetCompare, RaiseException, Compute,
               VerticalBlank, CompareDue, SpInterrupt, LoadState, NothingDue, HandleInterrupt,
               HandleException
    <2>2. QED  BY <2>1, Zenon DEF Op, Count, Check
<1>9. QED  BY <1>1, <1>5, <1>6, <1>7, <1>8, Zenon DEF Status
-------------------------------------------------------------------------------
LEMMA InitInv == Init => Inv
<1> SUFFICES ASSUME Init PROVE Inv  OBVIOUS
<1>1. sr \in Status
    BY DEF Init, Lines, Status
<1>2. QED  BY <1>1 DEF Init, Inv, TypeOK, VectorSet

LEMMA NextInv == Inv /\ [Next]_vars => Inv' /\ [Gaps]_vars
<1> SUFFICES ASSUME Inv, [Next]_vars PROVE Inv' /\ [Gaps]_vars  OBVIOUS
<1>1. CASE Next
    <2>1. Step  BY <1>1, GuestStep, OtherStep DEF Next
    <2>2. /\ sr' \in Status
          /\ exception' \in BOOLEAN /\ counting' \in BOOLEAN /\ delaysSi' = delaysSi
        BY <1>1, StatusTyped
    <2>3. QED  BY <2>1, <2>2, Zenon DEF Step, Inv, TypeOK
<1>2. CASE UNCHANGED vars
    BY <1>2 DEF Inv, TypeOK, VectorSet, vars
<1>3. QED  BY <1>1, <1>2

\* The registers keep their types, and the exception vector is set exactly while
\* an exception waits to be served: the assertions of Interrupts.cpp on it.
THEOREM VectorSound == Spec => [](TypeOK /\ VectorSet)
<1>1. Init => Inv  BY InitInv
<1>2. Inv /\ [Next]_vars => Inv'  BY NextInv
<1>3. Inv => TypeOK /\ VectorSet  BY DEF Inv
<1>4. QED  BY <1>1, <1>2, <1>3, PTL DEF Spec

\* No path but the display list, the delayed SI interrupt and a change of the
\* mask ever makes CAUSE_IP3 disagree with the MIPS interface.
THEOREM NoOtherGap == Spec => OnlyKnownGaps
<1>1. Init => Inv  BY InitInv
<1>2. Inv /\ [Next]_vars => Inv' /\ [Gaps]_vars  BY NextInv
<1>3. Inv /\ [Next]_vars =>
          [/\ Missed' /\ ~Missed => \/ "DP" \in intr' \ intr
                                    \/ delaysSi /\ "SI" \in intr' \ intr
           /\ Spurious' /\ ~Spurious => intr' = intr /\ mask' # mask]_vars
    BY <1>2 DEF Gaps
<1>4. QED  BY <1>1, <1>2, <1>3, PTL DEF Spec, OnlyKnownGaps
===============================================================================
