------------------------------ MODULE AudioStream ------------------------------
(***************************************************************************)
(* Playback (SysCTR/HLEAudio/AudioOutput.cpp and AudioBufferCTR.cpp): the  *)
(* emulation thread hands samples to the ring and waits a bounded time for *)
(* room; the DSP service's thread calls audioCallback, which refills the   *)
(* wave buffers the DSP has finished, in rotation; the diagnostics pause   *)
(* the callback with a CallbackGate that the callback never waits on.      *)
(*                                                                         *)
(* The ring is SampleQueue, which SpscRing implements.  The DSP is          *)
(* external: it plays what it was given, at any moment, or not at all.     *)
(***************************************************************************)
EXTENDS Naturals, SequencesExt

CONSTANTS
    Capacity,           \* CTR_BUFFER_SIZE
    BufferCount,        \* CTR_BUFFER_COUNT
    NumSamples,         \* CTR_NUM_SAMPLES
    Batch,              \* samples AddSamples converts at a time
    MaxWaits,           \* waits of AddSamples for room, per batch
    MaxAccepted         \* bound of the stream, for model checking

ASSUME SizesAssumption ==
    /\ Capacity \in Nat /\ Capacity > 1 /\ MaxWaits \in Nat /\ MaxAccepted \in Nat
    /\ BufferCount \in Nat \ {0} /\ NumSamples \in Nat \ {0} /\ Batch \in Nat \ {0}

VARIABLES
    at,                 \* the emulation thread
    playing, stopped,   \* mAudioPlaying, mStopped
    left, unsent, waits,\* AddSamples: to convert, to send of the batch, waits
    queue, accepted, delivered,     \* the ring (SampleQueue)
    open, registered,   \* audioOpen, and the callback is set
    waveBufId, status, content,     \* waveBuf_id and waveBuf[]
    cb, count,          \* audioCallback
    paused, active,     \* diagnosticGate
    dsp, held, wasHeld, \* the DSP's queue; its channel is paused, and was
    heard               \* history: the last sample played or given up

emulation == <<at, playing, stopped, left, unsent, waits>>
ring == <<queue, accepted, delivered>>
device == <<open, registered, dsp, held>>
waveBuf == <<waveBufId, status, content>>
callback == <<cb, count>>
vars == <<emulation, ring, device, waveBuf, callback, paused, active, wasHeld, heard>>

Ring == INSTANCE SampleQueue WITH Bound <- Capacity - 1

Buffers == 0..(BufferCount - 1)
Zeroed == [i \in Buffers |-> "free"]
Silence == [i \in Buffers |-> <<>>]

Init ==
    /\ at = "run" /\ playing = FALSE /\ stopped = FALSE
    /\ left = 0 /\ unsent = 0 /\ waits = 0
    /\ Ring!QInit
    /\ open = FALSE /\ registered = FALSE
    /\ waveBufId = 0 /\ status = Zeroed /\ content = Silence
    /\ cb = "idle" /\ count = 0 /\ paused = FALSE /\ active = 0
    /\ dsp = <<>> /\ held = FALSE /\ wasHeld = FALSE /\ heard = 0

Enter(step) == at' = step /\ UNCHANGED <<playing, stopped, left, unsent, waits>>
-------------------------------------------------------------------------------
AddSamplesOf(n) == at' = "add" /\ left' = n

AudioInit ==
    /\ playing' = TRUE /\ open' = TRUE /\ registered' = TRUE /\ held' = FALSE
    /\ waveBufId' = 0 /\ content' = Silence
    /\ status' = [i \in Buffers |-> "queued"]
    /\ dsp' = [k \in 1..BufferCount |-> k - 1]

\* Mutant: the ring keeps the end of the previous playback.
StartAudio_NoReset(n) ==
    /\ UNCHANGED ring /\ heard' = accepted /\ stopped' = FALSE
    /\ \/ AudioInit /\ AddSamplesOf(n)
       \/ UNCHANGED <<at, left, playing, device, waveBuf>>

\* StartAudio, before the samples of the first AddBuffer.  Nothing else uses the
\* ring or the device yet; if AudioInit fails it frees what it had allocated.
StartAudio(n) ==
    /\ Ring!Discard /\ heard' = accepted /\ stopped' = FALSE
    /\ \/ AudioInit /\ AddSamplesOf(n)
       \/ UNCHANGED <<at, left, playing, device, waveBuf>>

\* AddBuffer with n samples at the output rate.
AddBuffer(n) ==
    /\ at = "run" /\ accepted + n <= MaxAccepted
    /\ \/ ~playing /\ StartAudio(n)
       \/ playing /\ AddSamplesOf(n) /\ UNCHANGED <<stopped, heard, playing, ring, device, waveBuf>>
    /\ UNCHANGED <<unsent, waits, callback, paused, active, wasHeld>>

\* The outer loop of AddSamples: the next batch, or the end.
NextBatch ==
    /\ at = "add" /\ unsent = 0
    /\ IF left = 0 \/ stopped
       THEN at' = "run" /\ left' = 0 /\ UNCHANGED <<unsent, waits>>
       ELSE /\ unsent' = IF left < Batch THEN left ELSE Batch
            /\ left' = left - unsent' /\ waits' = 0 /\ UNCHANGED at
    /\ UNCHANGED <<playing, stopped, ring, device, waveBuf, callback, paused, active,
                   wasHeld, heard>>

GiveUp == at' = "run" /\ left' = 0 /\ unsent' = 0 /\ waits' = 0

\* Mutant: the wait for room has no limit.
Send_NoLimit ==
    /\ at = "add" /\ unsent > 0
    /\ \E n \in 0..unsent :
          /\ Ring!Accept(n)
          /\ IF n < unsent /\ stopped
             THEN GiveUp
             ELSE unsent' = unsent - n /\ UNCHANGED <<at, left, waits>>
    /\ UNCHANGED <<playing, stopped, device, waveBuf, callback, paused, active, wasHeld, heard>>

\* The inner loop of AddSamples.  Write takes what fits; the index it compares
\* with may be old, so that may be less than there is room for.
Send ==
    /\ at = "add" /\ unsent > 0
    /\ \E n \in 0..unsent :
          /\ Ring!Accept(n)
          /\ IF n < unsent /\ (stopped \/ waits = MaxWaits)
             THEN GiveUp
             ELSE /\ unsent' = unsent - n
                  /\ waits' = IF n < unsent THEN waits + 1 ELSE waits
                  /\ UNCHANGED <<at, left>>
    /\ UNCHANGED <<playing, stopped, device, waveBuf, callback, paused, active, wasHeld, heard>>
-------------------------------------------------------------------------------
\* StopAudio and AudioExit.
StopAudio ==
    /\ at = "run" /\ playing
    /\ stopped' = TRUE /\ playing' = FALSE /\ at' = "unregister"
    /\ UNCHANGED <<left, unsent, waits, ring, device, waveBuf, callback, paused, active,
                   wasHeld, heard>>

\* Mutant: the callback stays set.
Unregister_Skipped ==
    /\ at = "unregister" /\ Enter("clear")
    /\ UNCHANGED <<ring, device, waveBuf, callback, paused, active, wasHeld, heard>>

Unregister ==
    /\ at = "unregister" /\ Enter("clear")
    /\ registered' = FALSE
    /\ UNCHANGED <<ring, open, dsp, held, waveBuf, callback, paused, active, wasHeld, heard>>

ClearWaveBufs ==
    /\ at = "clear" /\ Enter("exit")
    /\ dsp' = <<>>
    /\ UNCHANGED <<ring, open, registered, held, waveBuf, callback, paused, active, wasHeld, heard>>

Free ==
    /\ Enter("run")
    /\ open' = FALSE /\ dsp' = <<>> /\ status' = Zeroed /\ content' = Silence
    /\ UNCHANGED <<ring, registered, held, waveBufId, callback, paused, active, wasHeld, heard>>

\* Mutant: the buffers are freed while the callback may still run.
ExitAudio_NoJoin == at = "exit" /\ Free

\* ndspExit joins the callback's thread; then the buffers are freed.
ExitAudio == at = "exit" /\ cb = "idle" /\ Free
-------------------------------------------------------------------------------
\* CTR_BeginDiagnosticAudioPause and CTR_EndDiagnosticAudioPause.
Pause ==
    /\ at = "run" /\ Enter("pausing")
    /\ paused' = TRUE
    /\ UNCHANGED <<ring, device, waveBuf, callback, active, wasHeld, heard>>

\* Mutant: nobody waits for the callback to leave.
Hold_NoWait ==
    /\ at = "pausing" /\ Enter("dump")
    /\ wasHeld' = (open /\ held) /\ held' = (open \/ held)
    /\ UNCHANGED <<ring, open, registered, dsp, waveBuf, callback, paused, active, heard>>

\* The wait of CallbackGate::Pause ends.
Hold ==
    /\ at = "pausing" /\ active = 0 /\ Enter("dump")
    /\ wasHeld' = (open /\ held) /\ held' = (open \/ held)
    /\ UNCHANGED <<ring, open, registered, dsp, waveBuf, callback, paused, active, heard>>

Resume ==
    /\ at = "dump" /\ Enter("run")
    /\ held' = IF open THEN wasHeld ELSE held
    /\ paused' = FALSE
    /\ UNCHANGED <<ring, open, registered, dsp, waveBuf, callback, active, wasHeld, heard>>
-------------------------------------------------------------------------------
\* audioCallback: CallbackGate::Enter, in its two atomic steps.
Arrive ==
    /\ registered /\ cb = "idle" /\ cb' = "arrived"
    /\ active' = active + 1
    /\ UNCHANGED <<emulation, ring, device, waveBuf, count, paused, wasHeld, heard>>

Check ==
    /\ cb = "arrived" /\ cb' = (IF paused THEN "refused" ELSE "refill")
    /\ count' = 0
    /\ UNCHANGED <<emulation, ring, device, waveBuf, paused, active, wasHeld, heard>>

\* Mutant: a refused callback is still counted.
Turn_KeepsCount ==
    /\ cb = "refused" /\ cb' = "idle"
    /\ UNCHANGED <<emulation, ring, device, waveBuf, count, paused, active, wasHeld, heard>>

Turn ==
    /\ cb = "refused" /\ cb' = "idle"
    /\ active' = active - 1
    /\ UNCHANGED <<emulation, ring, device, waveBuf, count, paused, wasHeld, heard>>

\* Mutant: the buffer is refilled whether the DSP is done with it or not.
Drain_AnyStatus ==
    /\ cb = "refill" /\ count < BufferCount
    /\ \E n \in 0..NumSamples : Ring!Deliver(n)
    /\ content' = [content EXCEPT ![waveBufId] = delivered']
    /\ cb' = "drained"
    /\ UNCHANGED <<emulation, device, waveBufId, status, count, paused, active, wasHeld, heard>>

\* The DSP is done with the buffer: Drain, and silence after what it returns.
Drain ==
    /\ cb = "refill" /\ count < BufferCount /\ status[waveBufId] = "done"
    /\ \E n \in 0..NumSamples : Ring!Deliver(n)
    /\ content' = [content EXCEPT ![waveBufId] = delivered']
    /\ cb' = "drained"
    /\ UNCHANGED <<emulation, device, waveBufId, status, count, paused, active, wasHeld, heard>>

\* Mutant: the rotation does not wrap.
AddWaveBuf_NoWrap ==
    /\ cb = "drained" /\ cb' = "refill" /\ count' = count + 1
    /\ status' = [status EXCEPT ![waveBufId] = "queued"]
    /\ dsp' = Append(dsp, waveBufId)
    /\ waveBufId' = waveBufId + 1
    /\ UNCHANGED <<emulation, ring, open, registered, held, content, paused, active, wasHeld, heard>>

\* Mutant: the buffer is never given back to the DSP.
AddWaveBuf_Missing ==
    /\ cb = "drained" /\ cb' = "refill" /\ count' = count + 1
    /\ waveBufId' = (waveBufId + 1) % BufferCount
    /\ UNCHANGED <<emulation, ring, device, status, content, paused, active, wasHeld, heard>>

AddWaveBuf ==
    /\ cb = "drained" /\ cb' = "refill" /\ count' = count + 1
    /\ status' = [status EXCEPT ![waveBufId] = "queued"]
    /\ dsp' = Append(dsp, waveBufId)
    /\ waveBufId' = (waveBufId + 1) % BufferCount
    /\ UNCHANGED <<emulation, ring, open, registered, held, content, paused, active, wasHeld, heard>>

Leave ==
    /\ cb = "refill" /\ cb' = "idle"
    /\ count = BufferCount \/ status[waveBufId] # "done"
    /\ active' = active - 1
    /\ UNCHANGED <<emulation, ring, device, waveBuf, count, paused, wasHeld, heard>>
-------------------------------------------------------------------------------
\* The DSP has played the oldest buffer.
Play ==
    /\ dsp # <<>> /\ ~held
    /\ dsp' = Tail(dsp)
    /\ status' = [status EXCEPT ![Head(dsp)] = "done"]
    /\ heard' = IF content[Head(dsp)] = <<>> THEN heard ELSE Last(content[Head(dsp)])
    /\ UNCHANGED <<emulation, ring, open, registered, held, waveBufId, content, callback,
                   paused, active, wasHeld>>

AddSamples == NextBatch \/ Send
AudioExit == Unregister \/ ClearWaveBufs \/ ExitAudio
Diagnostics == Pause \/ Hold \/ Resume
AudioCallback == Arrive \/ Check \/ Turn \/ Drain \/ AddWaveBuf \/ Leave

Next ==
    \/ (\E n \in 1..MaxAccepted : AddBuffer(n)) \/ AddSamples
    \/ StopAudio \/ AudioExit \/ Diagnostics \/ AudioCallback \/ Play

\* Both threads are scheduled, and the service calls back for every frame, for
\* microseconds: the wait of the gate sees it away.  The DSP need not play.
Fairness ==
    /\ WF_vars(AddSamples) /\ WF_vars(AudioExit) /\ WF_vars(AudioCallback)
    /\ SF_vars(Hold) /\ WF_vars(Resume)

Spec == Init /\ [][Next]_vars /\ Fairness
-------------------------------------------------------------------------------
TypeOK ==
    /\ at \in {"run", "add", "unregister", "clear", "exit", "pausing", "dump"}
    /\ playing \in BOOLEAN /\ stopped \in BOOLEAN
    /\ left \in Nat /\ unsent \in 0..Batch /\ waits \in 0..MaxWaits
    /\ accepted \in Nat /\ heard \in Nat
    /\ open \in BOOLEAN /\ registered \in BOOLEAN
    /\ waveBufId \in Buffers
    /\ status \in [Buffers -> {"free", "queued", "done"}]
    /\ cb \in {"idle", "arrived", "refused", "refill", "drained"} /\ count \in 0..BufferCount
    /\ paused \in BOOLEAN /\ active \in {0, 1}
    /\ held \in BOOLEAN /\ wasHeld \in BOOLEAN

Refilling == cb \in {"refill", "drained"}

\* The callback touches no buffer that AudioExit has freed.
NoUseAfterFree == Refilling => open

\* A playback that has stopped has left nothing behind: no callback runs or will
\* run, so Reset has the ring to itself (the condition in SpscRing.h).
Quiescent == at = "run" /\ ~playing => ~open /\ ~registered /\ cb = "idle" /\ dsp = <<>>

InFlight == IF cb = "drained" THEN content[waveBufId] ELSE <<>>

\* Where the samples are that have not been heard, the oldest first: in the DSP's
\* buffers, in the one being refilled, in the ring.
Pieces ==
    [k \in 1..(Len(dsp) + 2) |->
        IF k <= Len(dsp) THEN content[dsp[k]]
        ELSE IF k = Len(dsp) + 1 THEN InFlight ELSE queue]

Rising(s) == \A i, j \in DOMAIN s : i < j => s[i] < s[j]
Before(s, t) == \A i \in DOMAIN s, j \in DOMAIN t : s[i] < t[j]

\* The pieces, one after the other, are the samples from first to last.
Whole(pieces, first, last) ==
    /\ \A k \in DOMAIN pieces : Rising(pieces[k])
    /\ \A k, l \in DOMAIN pieces : k < l => Before(pieces[k], pieces[l])
    /\ UNION {Range(pieces[k]) : k \in DOMAIN pieces} = first..last

\* What has not been heard of a playback is all there, once and in order.
StreamIntact == playing => Whole(Pieces, heard + 1, accepted)

\* While the diagnostics write, neither the samples nor the buffers change.
DumpQuiet == [][at = "dump" => UNCHANGED <<queue, content, status, dsp>>]_vars

\* The channel is left paused by nothing else.
HeldForDump == held => at = "dump" \/ ~open

\* The emulation thread returns from AddSamples, whatever the DSP does.
AddReturns == at = "add" ~> at # "add"

\* So does the diagnostics' wait for the callback, however often it is called.
PauseEnds == at = "pausing" ~> at = "dump"

\* A DSP that ran out of buffers is given new ones, even if the callbacks for
\* the last of them were refused, unless dumps follow each other for ever.
StarvationEnds == (<>[]~paused) => (registered /\ dsp = <<>> ~> dsp # <<>> \/ ~registered)
===============================================================================
