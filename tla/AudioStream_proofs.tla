--------------------------- MODULE AudioStream_proofs ---------------------------
(***************************************************************************)
(* Proofs about AudioStream for every size of the ring, the buffers and    *)
(* the batches: the life of the device, the gate of the diagnostics, the    *)
(* types, and the stream from AddSamples to the speaker.  The samples on    *)
(* their way are cut into pieces; each action cuts them anew.               *)
(***************************************************************************)
EXTENDS AudioStream, TLAPS

\* Where the emulation thread is decides what is open and what is paused.
Leaving == {"unregister", "clear", "exit"}

Flags ==
    /\ playing \in BOOLEAN /\ stopped \in BOOLEAN /\ open \in BOOLEAN /\ registered \in BOOLEAN
    /\ paused \in BOOLEAN /\ held \in BOOLEAN /\ wasHeld \in BOOLEAN

Life ==
    /\ at \in {"run", "add", "pausing", "dump"} \cup Leaving
    /\ playing => at \notin Leaving
    /\ at = "add" => playing
    /\ open <=> playing \/ at \in Leaving
    /\ registered <=> playing \/ at = "unregister"
    /\ ~open => dsp = <<>>

\* The gate counts the callback from its first step to its last, and whoever
\* passed the gate is gone before the dump begins.
Gate ==
    /\ cb \in {"idle", "arrived", "refused", "refill", "drained"}
    /\ active = IF cb = "idle" THEN 0 ELSE 1
    /\ cb # "idle" => open
    /\ paused <=> at \in {"pausing", "dump"}
    /\ at = "dump" => ~Refilling

Channel ==
    /\ at = "dump" /\ open => held /\ ~wasHeld
    /\ held => at = "dump" \/ ~open

Inv == Flags /\ Life /\ Gate /\ Channel
-------------------------------------------------------------------------------
LEMMA InitInv == Init => Inv
BY DEF Init, Inv, Flags, Life, Leaving, Gate, Refilling, Channel, Ring!QInit

LEMMA FlagsStep == Inv /\ [Next]_vars => Flags'
<1> SUFFICES ASSUME Inv, [Next]_vars PROVE Flags'  OBVIOUS
<1>1. /\ playing' \in {playing, TRUE, FALSE}
      /\ open' \in {open, TRUE, FALSE}
      /\ registered' \in {registered, TRUE, FALSE} /\ paused' \in {paused, TRUE, FALSE}
      /\ held' \in {held, TRUE, FALSE} \/ held' = (open \/ held)
                                       \/ held' = (IF open THEN wasHeld ELSE held)
      /\ wasHeld' \in {wasHeld} \/ wasHeld' = (open /\ held)
    BY DEF Next, vars, emulation, ring, device, waveBuf, callback, AddBuffer, StartAudio,
           AudioInit, AddSamplesOf, AddSamples, NextBatch, Send, GiveUp, StopAudio, AudioExit,
           Unregister, ClearWaveBufs, ExitAudio, Free, Enter, Diagnostics, Pause, Hold, Resume,
           AudioCallback, Arrive, Check, Turn, Drain, AddWaveBuf, Leave, Play
<1>2. stopped' \in {stopped, TRUE, FALSE}
    BY DEF Next, vars, emulation, AddBuffer, StartAudio, AddSamples, NextBatch, Send, StopAudio,
           AudioExit, Unregister, ClearWaveBufs, ExitAudio, Free, Enter, Diagnostics, Pause, Hold,
           Resume, AudioCallback, Arrive, Check, Turn, Drain, AddWaveBuf, Leave, Play
<1>3. stopped' \in BOOLEAN  BY <1>2 DEF Inv, Flags
<1>4. QED  BY <1>1, <1>3 DEF Inv, Flags

\* AddBuffer and AddSamples: the device opens with the playback.
LEMMA FeedStep ==
    ASSUME Inv, Flags', (\E n \in 1..MaxAccepted : AddBuffer(n)) \/ AddSamples
    PROVE  Life' /\ Gate' /\ Channel'
<1>1. CASE \E n \in 1..MaxAccepted : AddBuffer(n)
    <2>1. PICK n \in 1..MaxAccepted : AddBuffer(n)  BY <1>1
    <2>2. CASE ~playing /\ StartAudio(n)
        <3>1. CASE AudioInit /\ AddSamplesOf(n)
            BY <2>1, <2>2, <3>1 DEF AddBuffer, AudioInit, AddSamplesOf, Inv, Life, Leaving,
               Gate, Refilling, Channel, callback
        <3>2. CASE UNCHANGED <<at, left, playing, device, waveBuf>>
            BY <2>1, <2>2, <3>2 DEF AddBuffer, device, Inv, Life, Leaving, Gate, Refilling,
               Channel, callback
        <3>3. QED  BY <2>2, <3>1, <3>2 DEF StartAudio
    <2>3. CASE playing /\ AddSamplesOf(n) /\ UNCHANGED <<playing, device>>
        BY <2>1, <2>3 DEF AddBuffer, AddSamplesOf, device, Inv, Life, Leaving, Gate, Refilling,
           Channel, callback
    <2>4. QED  BY <2>1, <2>2, <2>3 DEF AddBuffer
<1>2. CASE AddSamples
    <2>1. /\ at = "add" /\ at' \in {"add", "run"}
          /\ UNCHANGED <<playing, device, callback, paused, active, wasHeld>>
        BY <1>2 DEF AddSamples, NextBatch, Send, GiveUp
    <2>2. QED
        BY <2>1 DEF device, callback, Inv, Life, Leaving, Gate, Refilling, Channel
<1>3. QED  BY <1>1, <1>2

LEMMA CloseStep ==
    ASSUME Inv, Flags', StopAudio \/ AudioExit
    PROVE  Life' /\ Gate' /\ Channel'
<1>1. CASE StopAudio
    BY <1>1 DEF StopAudio, device, callback, Inv, Life, Leaving, Gate, Refilling, Channel
<1>2. CASE Unregister
    BY <1>2 DEF Unregister, Enter, callback, Inv, Life, Leaving, Gate, Refilling, Channel
<1>3. CASE ClearWaveBufs
    BY <1>3 DEF ClearWaveBufs, Enter, callback, Inv, Life, Leaving, Gate, Refilling, Channel
<1>4. CASE ExitAudio
    BY <1>4 DEF ExitAudio, Free, Enter, callback, Inv, Life, Leaving, Gate, Refilling, Channel
<1>5. QED  BY <1>1, <1>2, <1>3, <1>4 DEF AudioExit

LEMMA DumpStep ==
    ASSUME Inv, Flags', Diagnostics
    PROVE  Life' /\ Gate' /\ Channel'
<1>1. CASE Pause
    BY <1>1 DEF Pause, Enter, device, callback, Inv, Life, Leaving, Gate, Refilling, Channel
<1>2. CASE Hold
    <2>1. cb = "idle"  BY <1>2 DEF Hold, Inv, Gate
    <2>2. QED
        BY <1>2, <2>1 DEF Hold, Enter, callback, Inv, Flags, Life, Leaving, Gate, Refilling, Channel
<1>3. CASE Resume
    BY <1>3 DEF Resume, Enter, callback, Inv, Flags, Life, Leaving, Gate, Refilling, Channel
<1>4. QED  BY <1>1, <1>2, <1>3 DEF Diagnostics

LEMMA CallbackStep ==
    ASSUME Inv, Flags', AudioCallback \/ Play
    PROVE  Life' /\ Gate' /\ Channel'
<1>1. CASE Arrive
    BY <1>1 DEF Arrive, emulation, device, Inv, Life, Leaving, Gate, Refilling, Channel
<1>2. CASE Check
    BY <1>2 DEF Check, emulation, device, Inv, Life, Leaving, Gate, Refilling, Channel
<1>3. CASE Turn
    BY <1>3 DEF Turn, emulation, device, Inv, Life, Leaving, Gate, Refilling, Channel
<1>4. CASE Drain
    BY <1>4 DEF Drain, emulation, device, Inv, Life, Leaving, Gate, Refilling, Channel
<1>5. CASE AddWaveBuf
    <2>1. open  BY <1>5 DEF AddWaveBuf, Inv, Gate
    <2>2. QED
        BY <1>5, <2>1 DEF AddWaveBuf, emulation, Inv, Life, Leaving, Gate, Refilling, Channel
<1>6. CASE Leave
    BY <1>6 DEF Leave, emulation, device, Inv, Life, Leaving, Gate, Refilling, Channel
<1>7. CASE Play
    BY <1>7 DEF Play, emulation, callback, Inv, Life, Leaving, Gate, Refilling, Channel
<1>8. QED  BY <1>1, <1>2, <1>3, <1>4, <1>5, <1>6, <1>7 DEF AudioCallback

LEMMA NextInv == Inv /\ [Next]_vars => Inv'
<1> SUFFICES ASSUME Inv, [Next]_vars PROVE Inv'  OBVIOUS
<1>1. Flags'  BY FlagsStep
<1>2. CASE UNCHANGED vars
    BY <1>2 DEF vars, emulation, ring, device, waveBuf, callback, Inv, Flags, Life, Gate,
       Refilling, Channel
<1>3. CASE Next
    BY <1>1, <1>3, FeedStep, CloseStep, DumpStep, CallbackStep DEF Next, Inv
<1>4. QED  BY <1>2, <1>3

THEOREM Invariant == Spec => []Inv
<1>1. Init => Inv  BY InitInv
<1>2. Inv /\ [Next]_vars => Inv'  BY NextInv
<1>3. QED  BY <1>1, <1>2, PTL DEF Spec

\* At every size, the callback refills only buffers that are allocated.
THEOREM BuffersAlive == Spec => []NoUseAfterFree
<1>1. Inv => NoUseAfterFree  BY DEF Inv, Gate, Refilling, NoUseAfterFree
<1>2. QED  BY <1>1, Invariant, PTL

\* A stopped playback is over: Reset of the ring meets no reader.
THEOREM StopsClean == Spec => []Quiescent
<1>1. Inv => Quiescent  BY DEF Inv, Life, Leaving, Gate, Quiescent
<1>2. QED  BY <1>1, Invariant, PTL

\* The diagnostics give the channel back as they found it.
THEOREM ChannelReleased == Spec => []HeldForDump
<1>1. Inv => HeldForDump  BY DEF Inv, Channel, HeldForDump
<1>2. QED  BY <1>1, Invariant, PTL

\* From the return of the gate's Pause to Resume, no callback and no playing
\* changes the samples, the buffers or the DSP's queue.
THEOREM DumpUndisturbed == Spec => DumpQuiet
<1>1. ASSUME Inv, [Next]_vars
      PROVE  [at = "dump" => UNCHANGED <<queue, content, status, dsp>>]_vars
    <2> SUFFICES ASSUME at = "dump", Next PROVE UNCHANGED <<queue, content, status, dsp>>
        BY <1>1
    <2>1. ~Refilling /\ (open => held) /\ (~open => dsp = <<>>)
        BY <1>1 DEF Inv, Gate, Life, Channel
    <2>2. Resume \/ Arrive \/ Check \/ Turn
        BY <2>1 DEF Next, AddBuffer, AddSamples, NextBatch, Send, StopAudio, AudioExit,
           Unregister, ClearWaveBufs, ExitAudio, Diagnostics, Pause, Hold, AudioCallback,
           Drain, AddWaveBuf, Leave, Play, Refilling
    <2>3. QED
        BY <2>2 DEF Resume, Arrive, Check, Turn, ring, waveBuf, device
<1>2. QED  BY <1>1, Invariant, PTL DEF Spec, DumpQuiet
-------------------------------------------------------------------------------
\* The rest of the types, those of the sequences included, and what the callback
\* knows while it holds a buffer that it has refilled.
Kinds ==
    /\ left \in Nat /\ unsent \in 0..Batch /\ waits \in 0..MaxWaits
    /\ accepted \in Nat /\ heard \in Nat
    /\ waveBufId \in Buffers /\ status \in [Buffers -> {"free", "queued", "done"}]
    /\ count \in 0..BufferCount /\ (cb = "drained" => count < BufferCount)
    /\ dsp \in Seq(Buffers) /\ content \in [Buffers -> Seq(Nat)]
    /\ queue \in Seq(Nat) /\ delivered \in Seq(Nat)

LEMMA NextBuffer == ASSUME NEW i \in Buffers PROVE (i + 1) % BufferCount \in Buffers
BY SizesAssumption DEF Buffers

LEMMA FirstBuffer == 0 \in Buffers /\ [k \in 1..BufferCount |-> k - 1] \in Seq(Buffers)
<1>1. BufferCount \in Nat /\ BufferCount > 0  BY SizesAssumption
<1>2. \A k \in 1..BufferCount : k - 1 \in Buffers  BY <1>1 DEF Buffers
<1>3. QED  BY <1>1, <1>2 DEF Buffers

LEMMA Silent == Silence \in [Buffers -> Seq(Nat)]
BY DEF Silence

\* What the two sides of the ring do to it.
LEMMA Accepted ==
    ASSUME NEW n \in Nat, Kinds, Ring!Accept(n)
    PROVE  accepted' \in Nat /\ queue' \in Seq(Nat) /\ delivered' = delivered
<1>1. [k \in 1..n |-> accepted + k] \in Seq(Nat)  BY DEF Kinds
<1>2. QED  BY <1>1 DEF Ring!Accept, Kinds

LEMMA Delivered ==
    ASSUME NEW n \in Nat, Kinds, Ring!Deliver(n)
    PROVE  /\ accepted' = accepted /\ queue' \in Seq(Nat) /\ delivered' \in Seq(Nat)
           /\ Len(delivered') = n /\ Len(queue') = Len(queue) - n /\ n <= Len(queue)
           /\ \A i \in 1..n : delivered'[i] = queue[i]
           /\ \A i \in 1..(Len(queue) - n) : queue'[i] = queue[n + i]
<1>1. queue \in Seq(Nat) /\ Len(queue) \in Nat /\ n <= Len(queue)
    BY DEF Kinds, Ring!Deliver
<1>2. delivered' = SubSeq(queue, 1, n) /\ queue' = SubSeq(queue, n + 1, Len(queue))
      /\ accepted' = accepted
    BY DEF Ring!Deliver
<1>3. \A i \in 1..Len(queue) : queue[i] \in Nat  BY <1>1
<1>4. /\ SubSeq(queue, 1, n) \in Seq(Nat) /\ Len(SubSeq(queue, 1, n)) = n
      /\ \A i \in 1..n : SubSeq(queue, 1, n)[i] = queue[i]
    BY <1>1, <1>3
<1>5. /\ SubSeq(queue, n + 1, Len(queue)) \in Seq(Nat)
      /\ Len(SubSeq(queue, n + 1, Len(queue))) = Len(queue) - n
      /\ \A i \in 1..(Len(queue) - n) : SubSeq(queue, n + 1, Len(queue))[i] = queue[n + i]
    BY <1>1, <1>3
<1>6. QED  BY <1>1, <1>2, <1>4, <1>5

LEMMA KindsStep == Inv /\ Kinds /\ [Next]_vars => Kinds'
<1> SUFFICES ASSUME Inv, Kinds, [Next]_vars PROVE Kinds'  OBVIOUS
<1> USE DEF Kinds
<1>0. /\ BufferCount \in Nat \ {0} /\ Batch \in Nat \ {0} /\ MaxWaits \in Nat
      /\ NumSamples \in Nat \ {0}
    BY SizesAssumption
<1>1. CASE UNCHANGED vars
    BY <1>1 DEF vars, emulation, ring, device, waveBuf, callback
<1>2. CASE \E n \in 1..MaxAccepted : AddBuffer(n)
    <2>1. PICK n \in 1..MaxAccepted : AddBuffer(n)  BY <1>2
    <2>2. n \in Nat  OBVIOUS
    <2>3. UNCHANGED <<unsent, waits, callback>>  BY <2>1 DEF AddBuffer
    <2>4. CASE playing /\ AddSamplesOf(n)
               /\ UNCHANGED <<stopped, heard, playing, ring, device, waveBuf>>
        BY <2>2, <2>3, <2>4 DEF AddSamplesOf, ring, device, waveBuf, callback
    <2>5. CASE ~playing /\ StartAudio(n)
        <3>1. /\ queue' = <<>> /\ accepted' = accepted /\ delivered' = delivered
              /\ heard' = accepted
            BY <2>5 DEF StartAudio, Ring!Discard
        <3>2. CASE AudioInit /\ AddSamplesOf(n)
            <4>1. at = "run" /\ cb' = cb /\ count' = count  BY <2>1, <2>3 DEF AddBuffer, callback
            <4>2. cb = "idle"  BY <2>5, <4>1 DEF Inv, Life, Gate, Leaving
            <4>3. /\ left' = n /\ waveBufId' = 0 /\ content' = Silence
                  /\ status' = [i \in Buffers |-> "queued"]
                  /\ dsp' = [k \in 1..BufferCount |-> k - 1]
                BY <3>2 DEF AudioInit, AddSamplesOf
            <4>4. status' \in [Buffers -> {"free", "queued", "done"}]  BY <4>3
            <4>5. waveBufId' \in Buffers /\ dsp' \in Seq(Buffers) /\ content' \in [Buffers -> Seq(Nat)]
                BY <4>3, FirstBuffer, Silent
            <4>6. QED
                BY <2>2, <2>3, <3>1, <4>1, <4>2, <4>3, <4>4, <4>5
        <3>3. CASE UNCHANGED <<at, left, playing, device, waveBuf>>
            BY <2>3, <3>1, <3>3 DEF device, waveBuf, callback
        <3>4. QED  BY <2>5, <3>2, <3>3 DEF StartAudio
    <2>6. QED  BY <2>1, <2>4, <2>5 DEF AddBuffer
<1>3. CASE NextBatch
    BY <1>0, <1>3 DEF NextBatch, ring, device, waveBuf, callback
<1>4. CASE Send
    <2>1. PICK n \in 0..unsent :
             /\ Ring!Accept(n)
             /\ IF n < unsent /\ (stopped \/ waits = MaxWaits)
                THEN GiveUp
                ELSE /\ unsent' = unsent - n
                     /\ waits' = IF n < unsent THEN waits + 1 ELSE waits
                     /\ UNCHANGED <<at, left>>
        BY <1>4 DEF Send
    <2>2. n \in Nat  OBVIOUS
    <2>3. accepted' \in Nat /\ queue' \in Seq(Nat) /\ delivered' = delivered
        BY <2>1, <2>2, Accepted
    <2>4. UNCHANGED <<stopped, device, waveBuf, callback, heard>>  BY <1>4 DEF Send
    <2>5. left' \in Nat /\ unsent' \in 0..Batch /\ waits' \in 0..MaxWaits
        BY <1>0, <2>1 DEF GiveUp
    <2>6. QED  BY <2>3, <2>4, <2>5 DEF device, waveBuf, callback
<1>5. CASE StopAudio \/ Unregister \/ ClearWaveBufs \/ Pause \/ Hold \/ Resume
    <2>1. /\ UNCHANGED <<left, unsent, waits, ring, waveBuf, callback, heard>>
          /\ dsp' \in {dsp, <<>>}
        BY <1>5 DEF StopAudio, Unregister, ClearWaveBufs, Pause, Hold, Resume, Enter, device
    <2>2. dsp' \in Seq(Buffers)
        <3>1. CASE dsp' = dsp  BY <3>1
        <3>2. CASE dsp' = <<>>  BY <3>2
        <3>3. QED  BY <2>1, <3>1, <3>2
    <2>3. /\ UNCHANGED <<left, unsent, waits, accepted, delivered, queue, heard>>
          /\ UNCHANGED <<waveBufId, status, content, cb, count>>
        BY <2>1 DEF ring, waveBuf, callback
    <2>4. QED  BY <2>2, <2>3
<1>6. CASE ExitAudio
    BY <1>6, Silent DEF ExitAudio, Free, Enter, ring, callback, Zeroed
<1>7. CASE Arrive \/ Turn \/ Leave
    BY <1>7 DEF Arrive, Turn, Leave, emulation, ring, device, waveBuf
<1>8. CASE Check
    BY <1>0, <1>8 DEF Check, emulation, ring, device, waveBuf
<1>9. CASE Drain
    <2>1. PICK n \in 0..NumSamples : Ring!Deliver(n)  BY <1>9 DEF Drain
    <2>2. n \in Nat  BY <1>0
    <2>3. accepted' = accepted /\ queue' \in Seq(Nat) /\ delivered' \in Seq(Nat)
        BY <2>1, <2>2, Delivered
    <2>4. /\ content' = [content EXCEPT ![waveBufId] = delivered'] /\ count < BufferCount
          /\ UNCHANGED <<emulation, device, waveBufId, status, count, heard>>
        BY <1>9 DEF Drain
    <2>5. content' \in [Buffers -> Seq(Nat)]  BY <2>3, <2>4
    <2>6. QED  BY <2>3, <2>4, <2>5 DEF emulation, device
<1>10. CASE AddWaveBuf
    <2>1. /\ cb = "drained" /\ cb' = "refill" /\ count' = count + 1
          /\ status' = [status EXCEPT ![waveBufId] = "queued"]
          /\ dsp' = Append(dsp, waveBufId) /\ waveBufId' = (waveBufId + 1) % BufferCount
          /\ UNCHANGED <<emulation, ring, content, heard>>
        BY <1>10 DEF AddWaveBuf
    <2>2. waveBufId' \in Buffers  BY <2>1, NextBuffer
    <2>3. count' \in 0..BufferCount  BY <1>0, <2>1
    <2>4. dsp' \in Seq(Buffers)  BY <2>1
    <2>5. QED  BY <2>1, <2>2, <2>3, <2>4 DEF emulation, ring
<1>11. CASE Play
    <2>1. /\ dsp # <<>> /\ dsp' = Tail(dsp) /\ status' = [status EXCEPT ![Head(dsp)] = "done"]
          /\ heard' = IF content[Head(dsp)] = <<>> THEN heard ELSE Last(content[Head(dsp)])
          /\ UNCHANGED <<emulation, ring, waveBufId, content, callback>>
        BY <1>11 DEF Play
    <2>2. Head(dsp) \in Buffers /\ dsp' \in Seq(Buffers)  BY <2>1
    <2>3. heard' \in Nat
        <3>1. content[Head(dsp)] \in Seq(Nat)  BY <2>2
        <3>2. QED  BY <2>1, <3>1 DEF Last
    <2>4. QED  BY <2>1, <2>2, <2>3 DEF emulation, ring, callback
<1>12. QED
    BY <1>1, <1>2, <1>3, <1>4, <1>5, <1>6, <1>7, <1>8, <1>9, <1>10, <1>11
    DEF Next, AddSamples, AudioExit, Diagnostics, AudioCallback

LEMMA KindsInit == Init => Kinds
<1> SUFFICES ASSUME Init PROVE Kinds  OBVIOUS
<1>1. Zeroed \in [Buffers -> {"free", "queued", "done"}]  BY DEF Zeroed
<1>2. QED
    BY <1>1, SizesAssumption, FirstBuffer, Silent DEF Init, Kinds, Ring!QInit

\* The registers, flags and counters of the playback keep their ranges: the
\* rotation stays among the buffers and no wait exceeds its limit.
THEOREM WellTyped == Spec => []TypeOK
<1>1. Init => Kinds  BY KindsInit
<1>2. Inv /\ Kinds /\ [Next]_vars => Kinds'  BY KindsStep
<1>3. Inv /\ Kinds => TypeOK
    BY DEF Inv, Flags, Life, Leaving, Gate, Kinds, TypeOK
<1>4. QED  BY <1>1, <1>2, <1>3, Invariant, PTL DEF Spec
-------------------------------------------------------------------------------
\* A sample is in one of the pieces.
Among(x, f) == \E k \in DOMAIN f : \E i \in DOMAIN f[k] : f[k][i] = x

LEMMA WholeMeans ==
    ASSUME NEW f, NEW a, NEW b
    PROVE  Whole(f, a, b) <=>
             /\ \A k \in DOMAIN f : Rising(f[k])
             /\ \A k, l \in DOMAIN f : k < l => Before(f[k], f[l])
             /\ \A x : Among(x, f) <=> x \in a..b
<1>1. \A x : x \in UNION {Range(f[k]) : k \in DOMAIN f} <=> Among(x, f)
    <2> SUFFICES ASSUME NEW x
                 PROVE  x \in UNION {Range(f[k]) : k \in DOMAIN f} <=> Among(x, f)
        OBVIOUS
    <2>1. x \in UNION {Range(f[k]) : k \in DOMAIN f} <=> \E k \in DOMAIN f : x \in Range(f[k])
        OBVIOUS
    <2>2. \A k \in DOMAIN f : x \in Range(f[k]) <=> \E i \in DOMAIN f[k] : f[k][i] = x
        BY Zenon DEF Range
    <2>3. QED  BY <2>1, <2>2 DEF Among
<1>2. QED  BY <1>1, Zenon DEF Whole

\* The DSP has played the first piece.
LEMMA WholePlayed ==
    ASSUME NEW m \in Nat \ {0}, NEW h \in Nat, NEW a \in Nat,
           NEW f \in [1..m -> Seq(Nat)], NEW g \in [1..(m - 1) -> Seq(Nat)],
           \A k \in 1..(m - 1) : g[k] = f[k + 1], Whole(f, h + 1, a),
           NEW t, t = IF f[1] = <<>> THEN h ELSE Last(f[1])
    PROVE  Whole(g, t + 1, a)
<1>1. /\ \A k \in 1..m : Rising(f[k])
      /\ \A k, l \in 1..m : k < l => Before(f[k], f[l])
      /\ \A x : Among(x, f) <=> x \in (h + 1)..a
    BY WholeMeans
<1>2. DOMAIN f = 1..m /\ DOMAIN g = 1..(m - 1)  OBVIOUS
<1>3. 1 \in 1..m /\ f[1] \in Seq(Nat)  OBVIOUS
<1>4. f[1] # <<>> => /\ Len(f[1]) \in DOMAIN f[1] /\ t = f[1][Len(f[1])]
                     /\ t \in (h + 1)..a
    <2> SUFFICES ASSUME f[1] # <<>>
                 PROVE  /\ Len(f[1]) \in DOMAIN f[1] /\ t = f[1][Len(f[1])]
                        /\ t \in (h + 1)..a
        OBVIOUS
    <2>1. Len(f[1]) \in DOMAIN f[1] /\ t = f[1][Len(f[1])]  BY <1>3 DEF Last
    <2>2. Among(t, f)  BY <1>2, <1>3, <2>1 DEF Among
    <2>3. QED  BY <1>1, <2>1, <2>2
<1>5. t \in Nat /\ h <= t  BY <1>4
<1>6. \A k \in 1..(m - 1) : k + 1 \in 1..m /\ g[k] = f[k + 1]  OBVIOUS
<1>7. \A k \in 1..(m - 1) : Rising(g[k])  BY <1>1, <1>6
<1>8. ASSUME NEW k \in 1..(m - 1), NEW l \in 1..(m - 1), k < l PROVE Before(g[k], g[l])
    <2>1. k + 1 \in 1..m /\ l + 1 \in 1..m /\ k + 1 < l + 1  BY <1>8
    <2>2. QED  BY <1>1, <1>6, <2>1
<1>9. ASSUME NEW x, Among(x, g) PROVE x \in (t + 1)..a
    <2>1. PICK k \in 1..(m - 1) : \E i \in DOMAIN g[k] : g[k][i] = x  BY <1>2, <1>9 DEF Among
    <2>2. PICK i \in DOMAIN f[k + 1] : f[k + 1][i] = x  BY <1>6, <2>1
    <2>3. Among(x, f)  BY <1>2, <1>6, <2>2 DEF Among
    <2>4. x \in (h + 1)..a  BY <1>1, <2>3
    <2>5. CASE f[1] = <<>>  BY <2>4, <2>5
    <2>6. CASE f[1] # <<>>
        <3>1. Before(f[1], f[k + 1])  BY <1>1, <1>3, <1>6
        <3>2. t < x  BY <1>4, <2>2, <2>6, <3>1 DEF Before
        <3>3. QED  BY <1>5, <2>4, <3>2
    <2>7. QED  BY <2>5, <2>6
<1>10. ASSUME NEW x \in (t + 1)..a PROVE Among(x, g)
    <2>1. x \in (h + 1)..a  BY <1>5
    <2>2. PICK k \in 1..m : \E i \in DOMAIN f[k] : f[k][i] = x  BY <1>1, <1>2, <2>1 DEF Among
    <2>3. PICK i \in DOMAIN f[k] : f[k][i] = x  BY <2>2
    <2>4. k # 1
        <3> SUFFICES ASSUME k = 1 PROVE FALSE  OBVIOUS
        <3>1. f[1] # <<>> /\ i \in 1..Len(f[1]) /\ Len(f[1]) \in Nat  BY <1>3, <2>3
        <3>2. i = Len(f[1]) \/ i < Len(f[1])  BY <3>1
        <3>3. x = t \/ x < t  BY <1>1, <1>3, <1>4, <2>3, <3>1, <3>2 DEF Rising
        <3>4. QED  BY <1>5, <3>3
    <2>5. k - 1 \in 1..(m - 1) /\ g[k - 1] = f[k]  BY <1>6, <2>4
    <2>6. QED  BY <1>2, <2>3, <2>5 DEF Among
<1>11. \A x : Among(x, g) <=> x \in (t + 1)..a  BY <1>9, <1>10
<1>12. QED  BY <1>2, <1>7, <1>8, <1>11, WholeMeans

\* A new piece that is empty, before the last.
LEMMA WholeTurned ==
    ASSUME NEW m \in Nat \ {0}, NEW a, NEW b,
           NEW f \in [1..m -> Seq(Nat)], NEW g \in [1..(m + 1) -> Seq(Nat)],
           \A k \in 1..(m - 1) : g[k] = f[k], g[m] = <<>>, g[m + 1] = f[m], Whole(f, a, b)
    PROVE  Whole(g, a, b)
<1>1. /\ \A k \in 1..m : Rising(f[k])
      /\ \A k, l \in 1..m : k < l => Before(f[k], f[l])
      /\ \A x : Among(x, f) <=> x \in a..b
    BY WholeMeans
<1>2. DOMAIN f = 1..m /\ DOMAIN g = 1..(m + 1)  OBVIOUS
<1> DEFINE p(k) == IF k < m THEN k ELSE m
<1>3. \A k \in 1..(m + 1) : k # m => p(k) \in 1..m /\ g[k] = f[p(k)]  OBVIOUS
<1>4. \A k, l \in 1..(m + 1) : k < l /\ k # m /\ l # m => p(k) < p(l)  OBVIOUS
<1>5. DOMAIN g[m] = {}  OBVIOUS
<1> HIDE DEF p
<1>6. \A k \in 1..(m + 1) : Rising(g[k])  BY <1>1, <1>3, <1>5 DEF Rising
<1>7. ASSUME NEW k \in 1..(m + 1), NEW l \in 1..(m + 1), k < l PROVE Before(g[k], g[l])
    <2>1. CASE k = m \/ l = m  BY <1>5, <2>1 DEF Before
    <2>2. CASE k # m /\ l # m  BY <1>1, <1>3, <1>4, <1>7, <2>2
    <2>3. QED  BY <2>1, <2>2
<1>8. ASSUME NEW x, Among(x, g) PROVE Among(x, f)
    <2>1. PICK k \in 1..(m + 1) : \E i \in DOMAIN g[k] : g[k][i] = x  BY <1>2, <1>8 DEF Among
    <2>2. k # m  BY <1>5, <2>1
    <2>3. QED  BY <1>2, <1>3, <2>1, <2>2 DEF Among
<1>9. ASSUME NEW x, Among(x, f) PROVE Among(x, g)
    <2>1. PICK k \in 1..m : \E i \in DOMAIN f[k] : f[k][i] = x  BY <1>2, <1>9 DEF Among
    <2>2. \E l \in 1..(m + 1) : g[l] = f[k]
        <3>1. CASE k < m  BY <3>1
        <3>2. CASE k = m  BY <3>2
        <3>3. QED  BY <3>1, <3>2
    <2>3. QED  BY <1>2, <2>1, <2>2 DEF Among
<1>10. QED  BY <1>1, <1>2, <1>6, <1>7, <1>8, <1>9, WholeMeans

\* An empty piece takes the first n samples of the last one.
LEMMA WholeDrained ==
    ASSUME NEW m \in Nat \ {0, 1}, NEW a, NEW b, NEW n \in Nat,
           NEW f \in [1..m -> Seq(Nat)], NEW g \in [1..m -> Seq(Nat)],
           \A k \in 1..(m - 2) : g[k] = f[k], f[m - 1] = <<>>, n <= Len(f[m]),
           Len(g[m - 1]) = n, Len(g[m]) = Len(f[m]) - n,
           \A i \in 1..n : g[m - 1][i] = f[m][i],
           \A i \in 1..(Len(f[m]) - n) : g[m][i] = f[m][n + i],
           Whole(f, a, b)
    PROVE  Whole(g, a, b)
<1>1. /\ \A k \in 1..m : Rising(f[k])
      /\ \A k, l \in 1..m : k < l => Before(f[k], f[l])
      /\ \A x : Among(x, f) <=> x \in a..b
    BY WholeMeans
<1>2. DOMAIN f = 1..m /\ DOMAIN g = 1..m  OBVIOUS
<1>3. /\ m \in 1..m /\ m - 1 \in 1..m /\ m - 1 < m
      /\ \A k \in 1..m : k \in 1..(m - 2) \/ k = m - 1 \/ k = m
    OBVIOUS
<1> DEFINE u == f[m]
           v == g[m - 1]
           w == g[m]
           c == Len(u)
<1>4. u \in Seq(Nat) /\ v \in Seq(Nat) /\ w \in Seq(Nat)  BY <1>3
<1>c. n <= c /\ Len(v) = n /\ Len(w) = c - n  OBVIOUS
<1>a. (\A i \in 1..n : v[i] = u[i]) /\ (\A i \in 1..(c - n) : w[i] = u[n + i])  OBVIOUS
<1>b. f[m] = u /\ g[m - 1] = v /\ g[m] = w  OBVIOUS
<1> HIDE DEF u, v, w
<1>d. c \in Nat /\ DOMAIN u = 1..c /\ DOMAIN v = 1..Len(v) /\ DOMAIN w = 1..Len(w)
    BY <1>4
<1> HIDE DEF c
<1>5. /\ c \in Nat /\ n <= c /\ DOMAIN u = 1..c
      /\ DOMAIN v = 1..n /\ DOMAIN w = 1..(c - n)
    BY <1>c, <1>d
<1>6. \A i \in 1..n : i \in DOMAIN u /\ v[i] = u[i]  BY <1>5, <1>a
<1>7. \A i \in 1..(c - n) : n + i \in DOMAIN u /\ w[i] = u[n + i]
    <2>1. \A i \in 1..(c - n) : n + i \in 1..c  BY <1>5
    <2>2. QED  BY <1>5, <1>a, <2>1
<1>8. DOMAIN f[m - 1] = {}  OBVIOUS
<1>9. Rising(u)  BY <1>1, <1>3, <1>b
<1>10. Rising(v)  BY <1>5, <1>6, <1>9 DEF Rising
<1>11. Rising(w)
    <2> SUFFICES ASSUME NEW i \in 1..(c - n), NEW j \in 1..(c - n), i < j
                 PROVE  w[i] < w[j]
        BY <1>5 DEF Rising
    <2>1. n + i \in DOMAIN u /\ n + j \in DOMAIN u /\ n + i < n + j  BY <1>7
    <2>2. QED  BY <1>7, <1>9, <2>1 DEF Rising
<1>12. Before(v, w)
    <2> SUFFICES ASSUME NEW i \in 1..n, NEW j \in 1..(c - n)
                 PROVE  v[i] < w[j]
        BY <1>5 DEF Before
    <2>1. i \in DOMAIN u /\ n + j \in DOMAIN u /\ i < n + j  BY <1>5, <1>6, <1>7
    <2>2. QED  BY <1>6, <1>7, <1>9, <2>1 DEF Rising
<1>13. ASSUME NEW k \in 1..(m - 2) PROVE Before(g[k], v) /\ Before(g[k], w)
    <2>1. k \in 1..m /\ k < m /\ g[k] = f[k]  OBVIOUS
    <2>2. Before(f[k], u)  BY <1>1, <1>3, <1>b, <2>1
    <2>3. QED  BY <1>5, <1>6, <1>7, <2>1, <2>2 DEF Before
<1>14. \A k \in 1..m : Rising(g[k])
    <2> SUFFICES ASSUME NEW k \in 1..m PROVE Rising(g[k])  OBVIOUS
    <2>1. CASE k \in 1..(m - 2)  BY <1>1, <2>1
    <2>2. QED  BY <1>3, <1>b, <1>10, <1>11, <2>1
<1>15. ASSUME NEW k \in 1..m, NEW l \in 1..m, k < l PROVE Before(g[k], g[l])
    <2>1. CASE l \in 1..(m - 2)
        <3>1. k \in 1..(m - 2)  BY <1>15, <2>1
        <3>2. QED  BY <1>1, <1>15, <2>1, <3>1
    <2>2. CASE l = m - 1
        <3>1. k \in 1..(m - 2)  BY <1>15, <2>2
        <3>2. QED  BY <1>b, <1>13, <2>2, <3>1
    <2>3. CASE l = m
        <3>1. k \in 1..(m - 2) \/ k = m - 1  BY <1>15, <2>3
        <3>2. QED  BY <1>b, <1>12, <1>13, <2>3, <3>1
    <2>4. QED  BY <1>3, <2>1, <2>2, <2>3
<1>16. ASSUME NEW x, Among(x, g) PROVE Among(x, f)
    <2>1. PICK k \in 1..m : \E i \in DOMAIN g[k] : g[k][i] = x  BY <1>2, <1>16 DEF Among
    <2>2. PICK i \in DOMAIN g[k] : g[k][i] = x  BY <2>1
    <2>3. CASE k \in 1..(m - 2)  BY <1>2, <2>1, <2>3 DEF Among
    <2>4. CASE k = m - 1  BY <1>2, <1>3, <1>b, <1>5, <1>6, <2>2, <2>4 DEF Among
    <2>5. CASE k = m  BY <1>2, <1>3, <1>b, <1>5, <1>7, <2>2, <2>5 DEF Among
    <2>6. QED  BY <1>3, <2>3, <2>4, <2>5
<1>17. ASSUME NEW x, Among(x, f) PROVE Among(x, g)
    <2>1. PICK k \in 1..m : \E i \in DOMAIN f[k] : f[k][i] = x  BY <1>2, <1>17 DEF Among
    <2>2. PICK i \in DOMAIN f[k] : f[k][i] = x  BY <2>1
    <2>3. k # m - 1  BY <1>8, <2>2
    <2>4. CASE k \in 1..(m - 2)  BY <1>2, <2>1, <2>4 DEF Among
    <2>5. CASE k = m
        <3>0. i \in 1..c /\ u[i] = x  BY <1>5, <1>b, <2>2, <2>5
        <3>1. CASE i <= n
            <4>1. i \in DOMAIN v /\ v[i] = x  BY <1>5, <1>6, <3>0, <3>1
            <4>2. QED  BY <1>2, <1>3, <1>b, <4>1 DEF Among
        <3>2. CASE ~(i <= n)
            <4>1. i - n \in 1..(c - n) /\ n + (i - n) = i  BY <1>5, <3>0, <3>2
            <4>2. w[i - n] = u[n + (i - n)]  BY <1>7, <4>1
            <4>3. i - n \in DOMAIN w /\ w[i - n] = x  BY <1>5, <3>0, <4>1, <4>2
            <4>4. QED  BY <1>2, <1>3, <1>b, <4>3 DEF Among
        <3>3. QED  BY <3>1, <3>2
    <2>6. QED  BY <1>3, <2>3, <2>4, <2>5
<1>18. QED  BY <1>1, <1>2, <1>14, <1>15, <1>16, <1>17, WholeMeans

\* The last piece grows by n samples.
LEMMA WholeAccepted ==
    ASSUME NEW m \in Nat \ {0}, NEW h \in Nat, NEW b \in Nat, NEW n \in Nat,
           NEW f \in [1..m -> Seq(Nat)], NEW g \in [1..m -> Seq(Nat)], h <= b + 1,
           \A k \in 1..(m - 1) : g[k] = f[k], Len(g[m]) = Len(f[m]) + n,
           \A i \in 1..Len(f[m]) : g[m][i] = f[m][i],
           \A i \in 1..n : g[m][Len(f[m]) + i] = b + i,
           Whole(f, h, b)
    PROVE  Whole(g, h, b + n)
<1>1. /\ \A k \in 1..m : Rising(f[k])
      /\ \A k, l \in 1..m : k < l => Before(f[k], f[l])
      /\ \A x : Among(x, f) <=> x \in h..b
    BY WholeMeans
<1>2. DOMAIN f = 1..m /\ DOMAIN g = 1..m /\ m \in 1..m
      /\ \A k \in 1..m : k \in 1..(m - 1) \/ k = m
    OBVIOUS
<1> DEFINE u == f[m]
           w == g[m]
           s == Len(u)
<1>3. u \in Seq(Nat) /\ w \in Seq(Nat) /\ s \in Nat /\ DOMAIN u = 1..s /\ DOMAIN w = 1..(s + n)
    BY <1>2
<1>a. (\A i \in 1..s : w[i] = u[i]) /\ (\A i \in 1..n : w[s + i] = b + i)  OBVIOUS
<1>b. f[m] = u /\ g[m] = w  OBVIOUS
<1> HIDE DEF u, w, s
<1>4. /\ \A i \in 1..s : i \in DOMAIN w /\ w[i] = u[i]
      /\ \A i \in 1..n : s + i \in DOMAIN w /\ w[s + i] = b + i
    <2>1. \A i \in 1..s : i \in 1..(s + n)  BY <1>3
    <2>2. \A i \in 1..n : s + i \in 1..(s + n)  BY <1>3
    <2>3. QED  BY <1>3, <1>a, <2>1, <2>2
<1>5. \A i \in 1..(s + n) : i \in 1..s \/ (i - s \in 1..n /\ w[i] = b + (i - s))
    <2> SUFFICES ASSUME NEW i \in 1..(s + n), ~(i \in 1..s)
                 PROVE  i - s \in 1..n /\ w[i] = b + (i - s)
        OBVIOUS
    <2>1. i - s \in 1..n /\ s + (i - s) = i  BY <1>3
    <2>2. QED  BY <1>4, <2>1
<1>6. \A k \in 1..m : \A i \in DOMAIN f[k] : f[k][i] \in h..b
    BY <1>1, <1>2 DEF Among
<1>7. Rising(w)
    <2> SUFFICES ASSUME NEW i \in 1..(s + n), NEW j \in 1..(s + n), i < j
                 PROVE  w[i] < w[j]
        BY <1>3 DEF Rising
    <2>1. CASE i \in 1..s /\ j \in 1..s
        BY <1>1, <1>2, <1>b, <1>3, <1>4, <2>1 DEF Rising
    <2>2. CASE i \in 1..s /\ ~(j \in 1..s)
        <3>1. w[i] \in h..b  BY <1>2, <1>b, <1>3, <1>4, <1>6, <2>2
        <3>2. j - s \in 1..n /\ w[j] = b + (j - s)  BY <1>5, <2>2
        <3>3. QED  BY <3>1, <3>2
    <2>3. CASE ~(i \in 1..s)
        <3>1. ~(j \in 1..s)  BY <1>3, <2>3
        <3>2. w[i] = b + (i - s) /\ w[j] = b + (j - s)  BY <1>5, <2>3, <3>1
        <3>3. QED  BY <1>3, <3>2
    <2>4. QED  BY <2>1, <2>2, <2>3
<1>8. \A k \in 1..m : Rising(g[k])
    <2> SUFFICES ASSUME NEW k \in 1..m PROVE Rising(g[k])  OBVIOUS
    <2>1. CASE k \in 1..(m - 1)  BY <1>1, <2>1
    <2>2. QED  BY <1>2, <1>b, <1>7, <2>1
<1>9. ASSUME NEW k \in 1..m, NEW l \in 1..m, k < l PROVE Before(g[k], g[l])
    <2>1. k \in 1..(m - 1) /\ g[k] = f[k]  BY <1>9
    <2>2. CASE l \in 1..(m - 1)  BY <1>1, <1>9, <2>1, <2>2
    <2>3. CASE l = m
        <3> SUFFICES ASSUME NEW i \in DOMAIN f[k], NEW j \in 1..(s + n)
                     PROVE  f[k][i] < w[j]
            BY <1>b, <1>3, <2>1, <2>3 DEF Before
        <3>1. f[k][i] \in h..b  BY <1>6
        <3>2. CASE j \in 1..s  BY <1>1, <1>2, <1>b, <1>3, <1>4, <1>9, <2>3, <3>2 DEF Before
        <3>3. CASE ~(j \in 1..s)
            <4>1. j - s \in 1..n /\ w[j] = b + (j - s)  BY <1>5, <3>3
            <4>2. QED  BY <3>1, <4>1
        <3>4. QED  BY <3>2, <3>3
    <2>4. QED  BY <1>2, <2>2, <2>3
<1>10. ASSUME NEW x, Among(x, g) PROVE x \in h..(b + n)
    <2>1. PICK k \in 1..m : \E i \in DOMAIN g[k] : g[k][i] = x  BY <1>2, <1>10 DEF Among
    <2>2. PICK i \in DOMAIN g[k] : g[k][i] = x  BY <2>1
    <2>3. CASE k \in 1..(m - 1)
        <3>1. x \in h..b  BY <1>6, <2>2, <2>3
        <3>2. QED  BY <3>1
    <2>4. CASE k = m
        <3>1. i \in 1..(s + n)  BY <1>b, <1>3, <2>2, <2>4
        <3>2. CASE i \in 1..s
            <4>1. x \in h..b  BY <1>2, <1>b, <1>3, <1>4, <1>6, <2>2, <2>4, <3>2
            <4>2. QED  BY <4>1
        <3>3. CASE ~(i \in 1..s)
            <4>1. i - s \in 1..n /\ x = b + (i - s)  BY <1>5, <1>b, <2>2, <2>4, <3>1, <3>3
            <4>2. \A d \in 1..n : b + d \in h..(b + n)  OBVIOUS
            <4>3. QED  BY <4>1, <4>2
        <3>4. QED  BY <3>2, <3>3
    <2>5. QED  BY <1>2, <2>3, <2>4
<1>11. ASSUME NEW x \in h..(b + n) PROVE Among(x, g)
    <2>1. CASE x <= b
        <3>0. x \in h..b  BY <2>1
        <3>1. Among(x, f)  BY <1>1, <3>0
        <3>2. PICK k \in 1..m : \E i \in DOMAIN f[k] : f[k][i] = x  BY <1>2, <3>1 DEF Among
        <3>3. CASE k \in 1..(m - 1)  BY <1>2, <3>2, <3>3 DEF Among
        <3>4. CASE k = m  BY <1>2, <1>b, <1>3, <1>4, <3>2, <3>4 DEF Among
        <3>5. QED  BY <1>2, <3>3, <3>4
    <2>2. CASE ~(x <= b)
        <3>1. x - b \in 1..n /\ b + (x - b) = x  BY <2>2
        <3>2. s + (x - b) \in DOMAIN w /\ w[s + (x - b)] = x  BY <1>4, <3>1
        <3>3. QED  BY <1>2, <1>b, <3>2 DEF Among
    <2>3. QED  BY <2>1, <2>2
<1>12. \A x : Among(x, g) <=> x \in h..(b + n)  BY <1>10, <1>11
<1>13. QED  BY <1>2, <1>8, <1>9, <1>12, WholeMeans
-------------------------------------------------------------------------------
\* Each buffer is with the DSP once, and the one being refilled is not.
Rotation ==
    playing =>
        /\ \A k \in 1..Len(dsp) : status[dsp[k]] = "queued"
        /\ \A k, l \in 1..Len(dsp) : dsp[k] = dsp[l] => k = l
        /\ cb = "drained" => status[waveBufId] = "done"
        /\ heard <= accepted

Stream == Rotation /\ StreamIntact

LEMMA PiecesTyped == Kinds => Len(dsp) \in Nat /\ Pieces \in [1..(Len(dsp) + 2) -> Seq(Nat)]
<1> SUFFICES ASSUME Kinds
             PROVE  Len(dsp) \in Nat /\ Pieces \in [1..(Len(dsp) + 2) -> Seq(Nat)]
    OBVIOUS
<1>1. /\ Len(dsp) \in Nat /\ \A k \in 1..Len(dsp) : content[dsp[k]] \in Seq(Nat)
      /\ InFlight \in Seq(Nat) /\ queue \in Seq(Nat)
    BY DEF Kinds, InFlight
<1>2. \A k \in 1..(Len(dsp) + 2) : k <= Len(dsp) => k \in 1..Len(dsp)  BY <1>1
<1>3. QED  BY <1>1, <1>2 DEF Pieces

LEMMA PiecesTypedNext ==
    Kinds' => Len(dsp') \in Nat /\ Pieces' \in [1..(Len(dsp') + 2) -> Seq(Nat)]
<1> SUFFICES ASSUME Kinds'
             PROVE  Len(dsp') \in Nat /\ Pieces' \in [1..(Len(dsp') + 2) -> Seq(Nat)]
    OBVIOUS
<1>1. /\ Len(dsp') \in Nat /\ \A k \in 1..Len(dsp') : content'[dsp'[k]] \in Seq(Nat)
      /\ InFlight' \in Seq(Nat) /\ queue' \in Seq(Nat)
    BY DEF Kinds, InFlight
<1>2. \A k \in 1..(Len(dsp') + 2) : k <= Len(dsp') => k \in 1..Len(dsp')  BY <1>1
<1>3. QED  BY <1>1, <1>2 DEF Pieces

\* A step that moves no samples and finds or leaves no buffer half refilled.
LEMMA Unmoved ==
    ASSUME Stream, playing' => playing, InFlight' = InFlight,
           UNCHANGED <<dsp, content, queue, accepted, heard, status, waveBufId>>,
           cb' = "drained" => cb = "drained"
    PROVE  Stream'
<1>1. Pieces' = Pieces  BY DEF Pieces
<1>2. Rotation'  BY DEF Stream, Rotation
<1>3. StreamIntact'  BY <1>1 DEF Stream, StreamIntact, Whole
<1>4. QED  BY <1>2, <1>3 DEF Stream

\* A playback begins with the DSP's buffers silent and the ring empty.
LEMMA StartStream ==
    ASSUME Inv, Kinds, Kinds', NEW n, AddBuffer(n), ~playing, playing'
    PROVE  Stream'
<1>0. BufferCount \in Nat \ {0}  BY SizesAssumption
<1>1. /\ heard' = accepted /\ accepted' = accepted /\ queue' = <<>>
      /\ cb' = cb /\ at = "run" /\ AudioInit
    BY DEF AddBuffer, StartAudio, Ring!Discard, callback
<1>2. /\ content' = Silence /\ status' = [i \in Buffers |-> "queued"]
      /\ dsp' = [k \in 1..BufferCount |-> k - 1]
    BY <1>1 DEF AudioInit
<1>3. cb = "idle"  BY <1>1 DEF Inv, Life, Gate, Leaving
<1>4. Len(dsp') = BufferCount /\ \A k \in 1..BufferCount : dsp'[k] = k - 1 /\ dsp'[k] \in Buffers
    BY <1>0, <1>2, FirstBuffer DEF Buffers
<1>5. accepted \in Nat  BY DEF Kinds
<1>6. Rotation'
    <2>1. \A k \in 1..Len(dsp') : status'[dsp'[k]] = "queued"  BY <1>2, <1>4
    <2>2. \A k, l \in 1..Len(dsp') : dsp'[k] = dsp'[l] => k = l  BY <1>0, <1>4
    <2>3. heard' <= accepted' /\ cb' # "drained"  BY <1>1, <1>3, <1>5
    <2>4. QED  BY <2>1, <2>2, <2>3 DEF Rotation
<1>7. \A k \in 1..(BufferCount + 2) : Pieces'[k] = <<>>
    <2>1. \A k \in 1..BufferCount : content'[dsp'[k]] = <<>>  BY <1>2, <1>4 DEF Silence
    <2>2. InFlight' = <<>>  BY <1>1, <1>3 DEF InFlight
    <2>3. \A k \in 1..(BufferCount + 2) : k <= BufferCount => k \in 1..BufferCount  BY <1>0
    <2>4. QED  BY <1>1, <1>4, <2>1, <2>2, <2>3 DEF Pieces
<1>8. DOMAIN Pieces' = 1..(BufferCount + 2)  BY <1>4, PiecesTypedNext
<1> DEFINE f == Pieces'
<1>9. \A k \in DOMAIN f : DOMAIN f[k] = {}  BY <1>7, <1>8
<1> HIDE DEF f
<1>10. \A k \in DOMAIN f : Rising(f[k])  BY <1>9 DEF Rising
<1>11. \A k, l \in DOMAIN f : Before(f[k], f[l])  BY <1>9 DEF Before
<1>12. (accepted + 1)..accepted = {}  BY <1>5
<1>13. \A x : ~Among(x, f)  BY <1>9 DEF Among
<1>14. Whole(f, accepted + 1, accepted)  BY <1>10, <1>11, <1>12, <1>13, WholeMeans
<1>15. StreamIntact'  BY <1>1, <1>14 DEF StreamIntact, Whole, f
<1>16. QED  BY <1>6, <1>15 DEF Stream

LEMMA Joined ==
    ASSUME NEW q \in Seq(Nat), NEW t \in Seq(Nat)
    PROVE  /\ Len(q \o t) = Len(q) + Len(t)
           /\ \A i \in 1..Len(q) : (q \o t)[i] = q[i]
           /\ \A i \in 1..Len(t) : (q \o t)[Len(q) + i] = t[i]
<1>1. Len(q) \in Nat /\ Len(t) \in Nat  OBVIOUS
<1>2. Len(q \o t) = Len(q) + Len(t)  OBVIOUS
<1>3. \A i \in 1..(Len(q) + Len(t)) : (q \o t)[i] = IF i <= Len(q) THEN q[i] ELSE t[i - Len(q)]
    OBVIOUS
<1>4. ASSUME NEW i \in 1..Len(t) PROVE (q \o t)[Len(q) + i] = t[i]
    <2>1. Len(q) + i \in 1..(Len(q) + Len(t)) /\ ~(Len(q) + i <= Len(q))
          /\ (Len(q) + i) - Len(q) = i
        BY <1>1
    <2>2. QED  BY <1>3, <2>1
<1>5. \A i \in 1..Len(q) : i \in 1..(Len(q) + Len(t)) /\ i <= Len(q)  BY <1>1
<1>6. QED  BY <1>2, <1>3, <1>4, <1>5

LEMMA SendStream ==
    ASSUME Inv, Kinds, Kinds', Stream, Send, playing'
    PROVE  Stream'
<1> DEFINE m == Len(dsp) + 2
<1>1. /\ playing
      /\ UNCHANGED <<dsp, content, heard, status, waveBufId, cb>>
    BY DEF Send, device, waveBuf, callback
<1>2. PICK n \in 0..unsent : Ring!Accept(n)  BY DEF Send
<1>3. n \in Nat /\ accepted \in Nat /\ heard \in Nat /\ queue \in Seq(Nat)  BY DEF Kinds
<1>4. queue' = queue \o [k \in 1..n |-> accepted + k] /\ accepted' = accepted + n
    BY <1>2 DEF Ring!Accept
<1>5. /\ Len(queue') = Len(queue) + n
      /\ \A i \in 1..Len(queue) : queue'[i] = queue[i]
      /\ \A i \in 1..n : queue'[Len(queue) + i] = accepted + i
    <2>1. [k \in 1..n |-> accepted + k] \in Seq(Nat) /\ Len([k \in 1..n |-> accepted + k]) = n
        BY <1>3
    <2> DEFINE t == [k \in 1..n |-> accepted + k]
    <2>2. \A k \in 1..n : t[k] = accepted + k  OBVIOUS
    <2> HIDE DEF t
    <2>3. t \in Seq(Nat) /\ Len(t) = n /\ queue' = queue \o t  BY <1>4, <2>1 DEF t
    <2>4. /\ Len(queue \o t) = Len(queue) + n
          /\ \A i \in 1..Len(queue) : (queue \o t)[i] = queue[i]
          /\ \A i \in 1..n : (queue \o t)[Len(queue) + i] = t[i]
        BY <1>3, <2>3, Joined
    <2>5. QED  BY <2>2, <2>3, <2>4
<1>6. /\ Len(dsp) \in Nat /\ Pieces \in [1..m -> Seq(Nat)]
      /\ Pieces' \in [1..m -> Seq(Nat)]
    BY <1>1, PiecesTyped, PiecesTypedNext
<1>7. /\ \A k \in 1..(m - 1) : Pieces'[k] = Pieces[k]
      /\ Pieces[m] = queue /\ Pieces'[m] = queue'
    <2>1. InFlight' = InFlight  BY <1>1 DEF InFlight
    <2>2. /\ m \in 1..m /\ ~(m <= Len(dsp)) /\ m # Len(dsp) + 1
          /\ \A k \in 1..(m - 1) : k \in 1..m /\ (k <= Len(dsp) \/ k = Len(dsp) + 1)
        BY <1>6
    <2>3. QED  BY <1>1, <2>1, <2>2 DEF Pieces
<1>8. Whole(Pieces, heard + 1, accepted) /\ heard <= accepted
    BY <1>1 DEF Stream, StreamIntact, Rotation
<1> DEFINE f == Pieces
           g == Pieces'
<1>9. /\ \A k \in 1..(m - 1) : g[k] = f[k]
      /\ Len(g[m]) = Len(f[m]) + n /\ \A i \in 1..Len(f[m]) : g[m][i] = f[m][i]
      /\ \A i \in 1..n : g[m][Len(f[m]) + i] = accepted + i
    BY <1>5, <1>7
<1>10. /\ f \in [1..m -> Seq(Nat)] /\ g \in [1..m -> Seq(Nat)] /\ m \in Nat \ {0}
       /\ heard + 1 \in Nat /\ heard + 1 <= accepted + 1 /\ Whole(f, heard + 1, accepted)
    BY <1>3, <1>6, <1>8
<1> HIDE DEF f, g, m
<1>11. Whole(g, heard + 1, accepted + n)  BY <1>3, <1>9, <1>10, WholeAccepted
<1>12. StreamIntact'  BY <1>1, <1>4, <1>11 DEF StreamIntact, Whole, g
<1>13. Rotation'  BY <1>1, <1>3, <1>4 DEF Stream, Rotation
<1>14. QED  BY <1>12, <1>13 DEF Stream

LEMMA DrainStream ==
    ASSUME Inv, Kinds, Kinds', Stream, Drain, playing'
    PROVE  Stream'
<1> DEFINE m == Len(dsp) + 2
<1>1. /\ playing /\ cb = "refill" /\ cb' = "drained" /\ status[waveBufId] = "done"
      /\ content' = [content EXCEPT ![waveBufId] = delivered']
      /\ UNCHANGED <<dsp, heard, status, waveBufId>>
    BY DEF Drain, emulation, device
<1>2. PICK n \in 0..NumSamples : Ring!Deliver(n)  BY DEF Drain
<1>3. n \in Nat /\ waveBufId \in Buffers  BY SizesAssumption DEF Kinds
<1>4. /\ accepted' = accepted /\ Len(delivered') = n /\ Len(queue') = Len(queue) - n
      /\ n <= Len(queue) /\ \A i \in 1..n : delivered'[i] = queue[i]
      /\ \A i \in 1..(Len(queue) - n) : queue'[i] = queue[n + i]
    BY <1>2, <1>3, Delivered
<1>5. /\ \A k \in 1..Len(dsp) : status[dsp[k]] = "queued"
      /\ Whole(Pieces, heard + 1, accepted)
    BY <1>1 DEF Stream, Rotation, StreamIntact
<1>6. \A k \in 1..Len(dsp) : content'[dsp[k]] = content[dsp[k]]
    <2> SUFFICES ASSUME NEW k \in 1..Len(dsp) PROVE content'[dsp[k]] = content[dsp[k]]
        OBVIOUS
    <2>1. dsp[k] \in Buffers /\ content \in [Buffers -> Seq(Nat)]
        <3>1. dsp \in Seq(Buffers) /\ content \in [Buffers -> Seq(Nat)]  BY DEF Kinds
        <3>2. QED  BY <3>1
    <2>2. dsp[k] # waveBufId  BY <1>1, <1>5
    <2>3. QED  BY <1>1, <1>3, <2>1, <2>2
<1>7. InFlight = <<>> /\ InFlight' = delivered'  BY <1>1, <1>3 DEF InFlight, Kinds
<1>8. /\ Len(dsp) \in Nat /\ Pieces \in [1..m -> Seq(Nat)]
      /\ Pieces' \in [1..m -> Seq(Nat)]
    BY <1>1, PiecesTyped, PiecesTypedNext
<1>9. /\ \A k \in 1..(m - 2) : Pieces'[k] = Pieces[k]
      /\ Pieces[m - 1] = <<>> /\ Pieces'[m - 1] = delivered'
      /\ Pieces[m] = queue /\ Pieces'[m] = queue'
    <2>1. /\ m \in 1..m /\ ~(m <= Len(dsp)) /\ m # Len(dsp) + 1
          /\ m - 1 \in 1..m /\ ~(m - 1 <= Len(dsp)) /\ m - 1 = Len(dsp) + 1
          /\ \A k \in 1..(m - 2) : k \in 1..m /\ k <= Len(dsp) /\ k \in 1..Len(dsp)
        BY <1>8
    <2>2. QED  BY <1>1, <1>6, <1>7, <2>1 DEF Pieces
<1> DEFINE f == Pieces
           g == Pieces'
<1>10. /\ f \in [1..m -> Seq(Nat)] /\ g \in [1..m -> Seq(Nat)] /\ m \in Nat \ {0, 1}
       /\ Whole(f, heard + 1, accepted)
    BY <1>5, <1>8
<1>11. /\ \A k \in 1..(m - 2) : g[k] = f[k]
       /\ f[m - 1] = <<>> /\ n <= Len(f[m]) /\ Len(g[m - 1]) = n /\ Len(g[m]) = Len(f[m]) - n
       /\ \A i \in 1..n : g[m - 1][i] = f[m][i]
       /\ \A i \in 1..(Len(f[m]) - n) : g[m][i] = f[m][n + i]
    BY <1>4, <1>9
<1> HIDE DEF f, g, m
<1>12. Whole(g, heard + 1, accepted)  BY <1>3, <1>10, <1>11, WholeDrained
<1>13. StreamIntact'  BY <1>1, <1>4, <1>12 DEF StreamIntact, Whole, g
<1>14. Rotation'  BY <1>1, <1>4 DEF Stream, Rotation
<1>15. QED  BY <1>13, <1>14 DEF Stream

\* The buffers that the DSP holds, as the two lemmas on their order use them.
LEMMA HeldTyped ==
    ASSUME Kinds
    PROVE  /\ waveBufId \in Buffers /\ dsp \in Seq(Buffers) /\ Len(dsp) \in Nat
           /\ dsp # <<>> => Len(dsp) \in Nat \ {0}
           /\ status \in [Buffers -> {"free", "queued", "done"}]
           /\ heard \in Nat /\ accepted \in Nat
<1>1. /\ waveBufId \in Buffers /\ dsp \in Seq(Buffers)
      /\ status \in [Buffers -> {"free", "queued", "done"}]
      /\ heard \in Nat /\ accepted \in Nat
    BY DEF Kinds
<1>2. Len(dsp) \in Nat /\ (dsp # <<>> => Len(dsp) # 0)  BY <1>1
<1>3. QED  BY <1>1, <1>2

LEMMA TurnStream ==
    ASSUME Inv, Kinds, Kinds', Stream, AddWaveBuf, playing'
    PROVE  Stream'
<1> DEFINE m == Len(dsp) + 2
<1>1. /\ playing /\ cb = "drained" /\ cb' = "refill"
      /\ status' = [status EXCEPT ![waveBufId] = "queued"]
      /\ dsp' = Append(dsp, waveBufId)
      /\ UNCHANGED <<content, heard, accepted, queue>>
    BY DEF AddWaveBuf, emulation, ring
<1>2. /\ waveBufId \in Buffers /\ dsp \in Seq(Buffers) /\ Len(dsp) \in Nat
      /\ status \in [Buffers -> {"free", "queued", "done"}]
    BY HeldTyped
<1>3. /\ \A k \in 1..Len(dsp) : status[dsp[k]] = "queued"
      /\ \A k, l \in 1..Len(dsp) : dsp[k] = dsp[l] => k = l
      /\ status[waveBufId] = "done" /\ heard <= accepted
      /\ Whole(Pieces, heard + 1, accepted)
    BY <1>1 DEF Stream, Rotation, StreamIntact
<1>4. /\ Len(dsp') = Len(dsp) + 1 /\ dsp'[Len(dsp) + 1] = waveBufId
      /\ \A k \in 1..Len(dsp) : dsp'[k] = dsp[k]
      /\ \A k \in 1..(Len(dsp) + 1) : k \in 1..Len(dsp) \/ k = Len(dsp) + 1
    BY <1>1, <1>2
<1>5. \A k \in 1..Len(dsp) : dsp[k] # waveBufId /\ dsp[k] \in Buffers  BY <1>2, <1>3
<1>6. Rotation'
    <2>1. \A k \in 1..Len(dsp') : status'[dsp'[k]] = "queued"
        BY <1>1, <1>2, <1>3, <1>4, <1>5
    <2>2. ASSUME NEW k \in 1..Len(dsp'), NEW l \in 1..Len(dsp'), dsp'[k] = dsp'[l]
          PROVE  k = l
        BY <1>3, <1>4, <1>5, <2>2
    <2>3. heard' <= accepted'  BY <1>1, <1>3
    <2>4. QED  BY <1>1, <2>1, <2>2, <2>3 DEF Rotation
<1>7. /\ Pieces \in [1..m -> Seq(Nat)] /\ Pieces' \in [1..(m + 1) -> Seq(Nat)]
    <2>1. Len(dsp') + 2 = m + 1  BY <1>2, <1>4
    <2>2. QED  BY <2>1, PiecesTyped, PiecesTypedNext
<1>8. /\ \A k \in 1..(m - 1) : Pieces'[k] = Pieces[k]
      /\ Pieces'[m] = <<>> /\ Pieces[m] = queue /\ Pieces'[m + 1] = queue
    <2>1. InFlight = content[waveBufId] /\ InFlight' = <<>>  BY <1>1 DEF InFlight
    <2>2. Pieces' = [k \in 1..(m + 1) |->
                        IF k <= Len(dsp) + 1 THEN content[dsp'[k]]
                        ELSE IF k = m THEN <<>> ELSE queue]
        <3>1. Len(dsp') = Len(dsp) + 1 /\ Len(dsp') + 2 = m + 1 /\ Len(dsp') + 1 = m
            BY <1>2, <1>4
        <3>2. QED  BY <1>1, <2>1, <3>1 DEF Pieces
    <2>3. \A k \in 1..(m - 1) : Pieces[k] = content[dsp'[k]]
        <3> SUFFICES ASSUME NEW k \in 1..(m - 1) PROVE Pieces[k] = content[dsp'[k]]  OBVIOUS
        <3>1. k \in 1..m /\ k \in 1..(Len(dsp) + 1)  BY <1>2
        <3>2. CASE k \in 1..Len(dsp)
            <4>1. k <= Len(dsp)  BY <3>2
            <4>2. QED  BY <1>4, <3>1, <3>2, <4>1 DEF Pieces
        <3>3. CASE k = Len(dsp) + 1
            <4>1. ~(k <= Len(dsp))  BY <1>2, <3>3
            <4>2. QED  BY <1>4, <2>1, <3>1, <3>3, <4>1 DEF Pieces
        <3>4. QED  BY <1>4, <3>1, <3>2, <3>3
    <2>4. /\ \A k \in 1..(m - 1) : k \in 1..(m + 1) /\ k <= Len(dsp) + 1
          /\ m \in 1..(m + 1) /\ ~(m <= Len(dsp) + 1)
          /\ m + 1 \in 1..(m + 1) /\ ~(m + 1 <= Len(dsp) + 1) /\ m + 1 # m
          /\ m \in 1..m /\ ~(m <= Len(dsp)) /\ m # Len(dsp) + 1
        BY <1>2
    <2>5. Pieces[m] = queue  BY <2>4 DEF Pieces
    <2>6. QED  BY <2>2, <2>3, <2>4, <2>5
<1> DEFINE f == Pieces
           g == Pieces'
<1>9. /\ f \in [1..m -> Seq(Nat)] /\ g \in [1..(m + 1) -> Seq(Nat)] /\ m \in Nat \ {0}
      /\ \A k \in 1..(m - 1) : g[k] = f[k]
      /\ g[m] = <<>> /\ g[m + 1] = f[m] /\ Whole(f, heard + 1, accepted)
    BY <1>2, <1>3, <1>7, <1>8
<1> HIDE DEF f, g, m
<1>10. Whole(g, heard + 1, accepted)  BY <1>9, WholeTurned
<1>11. StreamIntact'  BY <1>1, <1>10 DEF StreamIntact, Whole, g
<1>12. QED  BY <1>6, <1>11 DEF Stream

LEMMA PlayStream ==
    ASSUME Inv, Kinds, Kinds', Stream, Play, playing'
    PROVE  Stream'
<1> DEFINE m == Len(dsp) + 2
<1>1. /\ playing /\ dsp # <<>> /\ dsp' = Tail(dsp)
      /\ status' = [status EXCEPT ![Head(dsp)] = "done"]
      /\ heard' = IF content[Head(dsp)] = <<>> THEN heard ELSE Last(content[Head(dsp)])
      /\ UNCHANGED <<content, accepted, queue, waveBufId, cb>>
    BY DEF Play, emulation, ring, callback
<1>2. /\ waveBufId \in Buffers /\ dsp \in Seq(Buffers) /\ Len(dsp) \in Nat \ {0}
      /\ status \in [Buffers -> {"free", "queued", "done"}]
      /\ heard \in Nat /\ accepted \in Nat
    BY <1>1, HeldTyped
<1>3. /\ \A k \in 1..Len(dsp) : status[dsp[k]] = "queued"
      /\ \A k, l \in 1..Len(dsp) : dsp[k] = dsp[l] => k = l
      /\ cb = "drained" => status[waveBufId] = "done"
      /\ heard <= accepted /\ Whole(Pieces, heard + 1, accepted)
    BY <1>1 DEF Stream, Rotation, StreamIntact
<1>4. /\ Head(dsp) = dsp[1] /\ Len(dsp') = Len(dsp) - 1
      /\ \A k \in 1..(Len(dsp) - 1) : dsp'[k] = dsp[k + 1] /\ k + 1 \in 1..Len(dsp)
      /\ 1 \in 1..Len(dsp) /\ \A k \in 1..Len(dsp) : dsp[k] \in Buffers
    BY <1>1, <1>2
<1>5. /\ Pieces \in [1..m -> Seq(Nat)] /\ Pieces' \in [1..(m - 1) -> Seq(Nat)]
    <2>1. Len(dsp') + 2 = m - 1  BY <1>2, <1>4
    <2>2. QED  BY <2>1, PiecesTyped, PiecesTypedNext
<1>6. Pieces[1] = content[dsp[1]] /\ \A k \in 1..(m - 1) : Pieces'[k] = Pieces[k + 1]
    <2>1. InFlight' = InFlight  BY <1>1 DEF InFlight
    <2>2. Pieces' = [k \in 1..(m - 1) |->
                        IF k <= Len(dsp) - 1 THEN content[dsp'[k]]
                        ELSE IF k = Len(dsp) THEN InFlight ELSE queue]
        <3>1. Len(dsp') = Len(dsp) - 1 /\ Len(dsp') + 2 = m - 1 /\ Len(dsp') + 1 = Len(dsp)
            BY <1>2, <1>4
        <3>2. QED  BY <1>1, <2>1, <3>1 DEF Pieces
    <2>3. ASSUME NEW k \in 1..(m - 1) PROVE Pieces'[k] = Pieces[k + 1]
        <3>1. k + 1 \in 1..m  BY <1>2
        <3>2. CASE k <= Len(dsp) - 1
            <4>1. k \in 1..(Len(dsp) - 1) /\ k + 1 <= Len(dsp)  BY <1>2, <3>2
            <4>2. QED  BY <1>4, <2>2, <3>1, <3>2, <4>1 DEF Pieces
        <3>3. CASE ~(k <= Len(dsp) - 1)
            <4>1. ~(k + 1 <= Len(dsp)) /\ (k = Len(dsp) <=> k + 1 = Len(dsp) + 1)
                BY <1>2, <3>3
            <4>2. QED  BY <2>2, <3>1, <3>3, <4>1 DEF Pieces
        <3>4. QED  BY <3>2, <3>3
    <2>4. 1 \in 1..m /\ 1 <= Len(dsp)  BY <1>2
    <2>5. QED  BY <2>3, <2>4 DEF Pieces
<1> DEFINE f == Pieces
           g == Pieces'
           t == IF f[1] = <<>> THEN heard ELSE Last(f[1])
<1>7. /\ f \in [1..m -> Seq(Nat)] /\ g \in [1..(m - 1) -> Seq(Nat)] /\ m \in Nat \ {0}
      /\ \A k \in 1..(m - 1) : g[k] = f[k + 1]
      /\ Whole(f, heard + 1, accepted)
    BY <1>2, <1>3, <1>5, <1>6
<1>8. heard' = t  BY <1>1, <1>4, <1>6
<1>9. t <= accepted
    <2>1. CASE f[1] = <<>>  BY <1>3, <2>1
    <2>2. CASE f[1] # <<>>
        <3>1. 1 \in DOMAIN f /\ f[1] \in Seq(Nat)  BY <1>2, <1>5
        <3>2. Len(f[1]) \in DOMAIN f[1] /\ t = f[1][Len(f[1])]  BY <2>2, <3>1 DEF Last
        <3> HIDE DEF f, t
        <3>3. Among(t, f)  BY <3>1, <3>2 DEF Among
        <3>4. t \in (heard + 1)..accepted  BY <1>7, <3>3, WholeMeans
        <3>5. QED  BY <1>2, <3>4
    <2>3. QED  BY <2>1, <2>2
<1>10. Whole(g, t + 1, accepted)
    <2>1. heard \in Nat /\ accepted \in Nat  BY <1>2
    <2>2. t = IF f[1] = <<>> THEN heard ELSE Last(f[1])  OBVIOUS
    <2> HIDE DEF f, g, m, t
    <2>3. QED  BY <1>7, <2>1, <2>2, WholePlayed
<1> HIDE DEF f, g, m, t
<1>11. StreamIntact'  BY <1>1, <1>8, <1>10 DEF StreamIntact, Whole, g
<1>12. Rotation'
    <2>1. \A k \in 1..(Len(dsp) - 1) : dsp[k + 1] # dsp[1]
        <3> SUFFICES ASSUME NEW k \in 1..(Len(dsp) - 1) PROVE dsp[k + 1] # dsp[1]  OBVIOUS
        <3>1. k + 1 # 1  OBVIOUS
        <3>2. QED  BY <1>3, <1>4, <3>1
    <2>2. \A k \in 1..Len(dsp') : status'[dsp'[k]] = "queued"
        BY <1>1, <1>2, <1>3, <1>4, <2>1
    <2>3. ASSUME NEW k \in 1..Len(dsp'), NEW l \in 1..Len(dsp'), dsp'[k] = dsp'[l]
          PROVE  k = l
        <3>1. k + 1 = l + 1  BY <1>3, <1>4, <2>3
        <3>2. QED  BY <3>1
    <2>4. cb' = "drained" => status'[waveBufId'] = "done"  BY <1>1, <1>2, <1>3, <1>4
    <2>5. QED  BY <1>1, <1>8, <1>9, <2>2, <2>3, <2>4 DEF Rotation
<1>13. QED  BY <1>11, <1>12 DEF Stream

LEMMA StreamStep == Inv /\ Kinds /\ Stream /\ [Next]_vars => Stream'
<1> SUFFICES ASSUME Inv, Kinds, Stream, [Next]_vars PROVE Stream'  OBVIOUS
<1>1. Kinds'  BY KindsStep
<1>2. CASE ~playing'  BY <1>2 DEF Stream, Rotation, StreamIntact
<1>3. CASE playing'
    <2>1. CASE UNCHANGED vars
        BY <2>1, Unmoved DEF vars, emulation, ring, device, waveBuf, callback, InFlight
    <2>2. CASE \E n \in 1..MaxAccepted : AddBuffer(n)
        <3>1. PICK n \in 1..MaxAccepted : AddBuffer(n)  BY <2>2
        <3>2. CASE ~playing  BY <1>1, <1>3, <3>1, <3>2, StartStream
        <3>3. CASE playing
            BY <3>1, <3>3, Unmoved DEF AddBuffer, ring, device, waveBuf, callback, InFlight
        <3>4. QED  BY <3>2, <3>3
    <2>3. CASE NextBatch
        BY <2>3, Unmoved DEF NextBatch, ring, device, waveBuf, callback, InFlight
    <2>4. CASE Send  BY <1>1, <1>3, <2>4, SendStream
    <2>5. CASE StopAudio  BY <1>3, <2>5 DEF StopAudio
    <2>6. CASE AudioExit
        <3>1. at \in Leaving /\ playing' = playing
            BY <2>6 DEF AudioExit, Unregister, ClearWaveBufs, ExitAudio, Free, Enter, Leaving
        <3>2. QED  BY <1>3, <3>1 DEF Inv, Life
    <2>7. CASE Diagnostics
        BY <2>7, Unmoved DEF Diagnostics, Pause, Hold, Resume, Enter, ring, device, waveBuf,
           callback, InFlight
    <2>8. CASE Arrive \/ Check \/ Turn \/ Leave
        BY <2>8, Unmoved DEF Arrive, Check, Turn, Leave, emulation, ring, device, waveBuf, InFlight
    <2>9. CASE Drain  BY <1>1, <1>3, <2>9, DrainStream
    <2>10. CASE AddWaveBuf  BY <1>1, <1>3, <2>10, TurnStream
    <2>11. CASE Play  BY <1>1, <1>3, <2>11, PlayStream
    <2>12. QED
        BY <2>1, <2>2, <2>3, <2>4, <2>5, <2>6, <2>7, <2>8, <2>9, <2>10, <2>11
        DEF Next, AddSamples, AudioCallback
<1>4. QED  BY <1>2, <1>3

\* At every size of ring, buffers and batches a playback loses, repeats and
\* reorders nothing between AddSamples and the speaker.
THEOREM StreamKept == Spec => []StreamIntact
<1>1. Init => Kinds  BY KindsInit
<1>2. Init => Stream  BY DEF Init, Stream, Rotation, StreamIntact
<1>3. Inv /\ Kinds /\ [Next]_vars => Kinds'  BY KindsStep
<1>4. Inv /\ Kinds /\ Stream /\ [Next]_vars => Stream'  BY StreamStep
<1>5. Stream => StreamIntact  BY DEF Stream
<1>6. QED  BY <1>1, <1>2, <1>3, <1>4, <1>5, Invariant, PTL DEF Spec
-------------------------------------------------------------------------------
\* AddReturns and PauseEnds as far as safety goes: how many steps each of the two
\* loops still has.  Calls counts those of AddSamples, a batch takes at most
\* MaxWaits + 1 calls of Write, and the samples left make at most left batches.
Calls ==
    IF at # "add" THEN 0
    ELSE left * (MaxWaits + 2) + (IF unsent = 0 THEN 0 ELSE MaxWaits + 1 - waits) + 1

\* ... and Steps those of an audioCallback that has begun.
Steps ==
    CASE cb = "idle" -> 0
      [] cb = "refused" -> 1
      [] cb = "arrived" -> 2 * BufferCount + 2
      [] cb = "refill" -> 2 * (BufferCount - count) + 1
      [] cb = "drained" -> 2 * (BufferCount - count)

\* AddSamples comes nearer to its return with every step, and nobody sets it back.
AddRunsDown ==
    at = "add" => Calls' <= Calls /\ (AddSamples => Calls' < Calls)

\* So does a callback, and while the gate is closed none gets past it again.
CallbackRunsDown ==
    /\ AudioCallback /\ cb # "idle" => Steps' < Steps
    /\ cb # "idle" => Steps' <= Steps
    /\ paused /\ ~Refilling => ~Refilling'

LEMMA Product == ASSUME NEW l \in Nat, NEW m \in Nat PROVE l * (m + 2) \in Nat
OBVIOUS

\* Another batch costs at least one of the samples left.
LEMMA Batches ==
    ASSUME NEW m \in Nat, NEW l \in Nat, NEW k \in Nat, k < l
    PROVE  k * (m + 2) + m + 2 <= l * (m + 2)
<1>1. l - k - 1 \in Nat  OBVIOUS
<1>2. l * (m + 2) = (k + 1) * (m + 2) + (l - k - 1) * (m + 2)  BY <1>1
<1>3. (l - k - 1) * (m + 2) \in Nat  BY <1>1
<1>4. (k + 1) * (m + 2) = k * (m + 2) + (m + 2)  OBVIOUS
<1>5. k * (m + 2) \in Nat  OBVIOUS
<1>6. QED  BY <1>2, <1>3, <1>4, <1>5

LEMMA AddSamplesCounts ==
    ASSUME Kinds, AddSamples
    PROVE  Calls' < Calls
<1>1. /\ left \in Nat /\ unsent \in 0..Batch /\ waits \in 0..MaxWaits
      /\ Batch \in Nat \ {0} /\ MaxWaits \in Nat /\ at = "add"
    BY SizesAssumption DEF Kinds, AddSamples, NextBatch, Send
<1>2. left * (MaxWaits + 2) \in Nat  BY <1>1, Product
<1>3. CASE at' # "add"  BY <1>1, <1>2, <1>3 DEF Calls
<1>4. CASE at' = "add" /\ NextBatch
    <2>1. /\ unsent = 0 /\ left # 0 /\ waits' = 0
          /\ unsent' = IF left < Batch THEN left ELSE Batch
          /\ left' = left - unsent'
        BY <1>4 DEF NextBatch
    <2>2. left' \in Nat /\ left' < left /\ unsent' # 0  BY <1>1, <2>1
    <2>3. left' * (MaxWaits + 2) + MaxWaits + 2 <= left * (MaxWaits + 2)
        BY <1>1, <2>2, Batches
    <2>4. left' * (MaxWaits + 2) \in Nat  BY <1>1, <2>2, Product
    <2>5. /\ Calls' = left' * (MaxWaits + 2) + (MaxWaits + 1) + 1
          /\ Calls = left * (MaxWaits + 2) + 1
        BY <1>1, <1>2, <1>4, <2>1, <2>2, <2>4 DEF Calls
    <2>6. QED  BY <1>1, <1>2, <2>3, <2>4, <2>5
<1>5. CASE at' = "add" /\ Send
    <2>1. PICK n \in 0..unsent :
              /\ unsent > 0 /\ left' = left /\ unsent' = unsent - n
              /\ waits' = IF n < unsent THEN waits + 1 ELSE waits
              /\ n < unsent => waits # MaxWaits
        BY <1>5 DEF Send, GiveUp
    <2>2. CASE n < unsent
        BY <1>1, <1>2, <1>5, <2>1, <2>2 DEF Calls
    <2>3. CASE n = unsent
        BY <1>1, <1>2, <1>5, <2>1, <2>3 DEF Calls
    <2>4. QED  BY <1>1, <2>1, <2>2, <2>3
<1>6. QED  BY <1>3, <1>4, <1>5 DEF AddSamples

\* AddSamples has at most Calls steps before it: that AddReturns holds depends on
\* its thread being scheduled, neither on the callback nor on the DSP.
THEOREM AddSamplesBounded == Spec => [][AddRunsDown]_vars
<1>1. ASSUME Inv, Kinds, [Next]_vars
      PROVE  [AddRunsDown]_vars
    <2> SUFFICES ASSUME Next, at = "add"
                 PROVE  Calls' <= Calls /\ (AddSamples => Calls' < Calls)
        BY <1>1 DEF AddRunsDown
    <2>1. Calls \in Nat
        <3>1. /\ left \in Nat /\ unsent \in 0..Batch /\ waits \in 0..MaxWaits
              /\ MaxWaits \in Nat
            BY <1>1, SizesAssumption DEF Kinds
        <3>2. left * (MaxWaits + 2) \in Nat  BY <3>1, Product
        <3>3. QED  BY <3>1, <3>2 DEF Calls
    <2>2. CASE AddSamples
        <3>1. Calls' < Calls  BY <1>1, <2>2, AddSamplesCounts
        <3>2. Calls' \in Int
            <4>1. Kinds'  BY <1>1, KindsStep
            <4>2. /\ left' \in Nat /\ unsent' \in Nat /\ waits' \in Nat /\ MaxWaits \in Nat
                BY <4>1, SizesAssumption DEF Kinds
            <4>3. left' * (MaxWaits + 2) \in Nat  BY <4>2, Product
            <4>4. QED  BY <4>2, <4>3 DEF Calls
        <3>3. QED  BY <2>1, <3>1, <3>2
    <2>3. CASE ~AddSamples
        <3>1. UNCHANGED <<at, left, unsent, waits>>
            BY <2>3 DEF Next, AddBuffer, StopAudio, AudioExit, Unregister, ClearWaveBufs,
               ExitAudio, Diagnostics, Pause, Hold, Resume, AudioCallback, Arrive, Check, Turn,
               Drain, AddWaveBuf, Leave, Play, emulation
        <3>2. Calls' = Calls  BY <3>1 DEF Calls
        <3>3. QED  BY <2>1, <2>3, <3>2
    <2>4. QED  BY <2>2, <2>3
<1>2. Init => Kinds  BY KindsInit
<1>3. Inv /\ Kinds /\ [Next]_vars => Kinds'  BY KindsStep
<1>4. QED  BY <1>1, <1>2, <1>3, Invariant, PTL DEF Spec

\* A callback is over after as many steps as the buffers allow, whatever the DSP
\* plays meanwhile, and while the diagnostics wait one that comes is turned away.
\* That the gate's wait ends depends on the service's thread being scheduled.
THEOREM CallbackBounded == Spec => [][CallbackRunsDown]_vars
<1>1. ASSUME Inv, Kinds, [Next]_vars
      PROVE  [CallbackRunsDown]_vars
    <2> SUFFICES ASSUME Next PROVE CallbackRunsDown  BY <1>1
    <2>0. /\ BufferCount \in Nat \ {0} /\ count \in 0..BufferCount
          /\ cb = "drained" => count < BufferCount
          /\ cb \in {"idle", "arrived", "refused", "refill", "drained"}
        BY <1>1, SizesAssumption DEF Kinds, Inv, Gate
    <2>1. CASE Arrive
        BY <2>0, <2>1 DEF Arrive, CallbackRunsDown, Steps, Refilling
    <2>2. CASE Check
        BY <2>0, <2>2 DEF Check, CallbackRunsDown, Steps, Refilling
    <2>3. CASE Turn
        BY <2>0, <2>3 DEF Turn, CallbackRunsDown, Steps, Refilling
    <2>4. CASE Drain
        BY <2>0, <2>4 DEF Drain, CallbackRunsDown, Steps, Refilling
    <2>5. CASE AddWaveBuf
        BY <2>0, <2>5 DEF AddWaveBuf, CallbackRunsDown, Steps, Refilling
    <2>6. CASE Leave
        BY <2>0, <2>6 DEF Leave, CallbackRunsDown, Steps, Refilling
    <2>7. CASE ~AudioCallback
        <3>1. UNCHANGED callback
            BY <2>7 DEF Next, AddBuffer, AddSamples, NextBatch, Send, StopAudio, AudioExit,
               Unregister, ClearWaveBufs, ExitAudio, Free, Diagnostics, Pause, Hold, Resume, Play
        <3>2. Steps' = Steps /\ (Refilling' <=> Refilling)
            BY <3>1 DEF callback, Steps, Refilling
        <3>3. Steps \in Int  BY <2>0 DEF Steps
        <3>4. QED  BY <2>7, <3>2, <3>3 DEF CallbackRunsDown
    <2>8. QED  BY <2>1, <2>2, <2>3, <2>4, <2>5, <2>6, <2>7 DEF AudioCallback
<1>2. Init => Kinds  BY KindsInit
<1>3. Inv /\ Kinds /\ [Next]_vars => Kinds'  BY KindsStep
<1>4. QED  BY <1>1, <1>2, <1>3, Invariant, PTL DEF Spec
================================================================================
