----------------------------- MODULE MCSynthesis ------------------------------
(* The synthesis for TLC, one part in each behaviour: the playback queue between *)
(* a synthesizer of 6 samples per millisecond and devices of 4 and 8; the         *)
(* synthesizer's audio, with glottal frames that can outlast a chunk; and its      *)
(* filter, with three formants.                                                   *)
EXTENDS Integers

CONSTANTS
    Parts,                                              \* the parts to run
    SynthesisRate, OutRates, InitialDuration, SleepTime, MaxLate, MaxCallbackTime, StartTime, PullTime,
    MaxOpens, MaxDuration,                              \* of the queue, see PlaybackQueue
    MaxFormants, InRate, OutRate, Chunk, Lengths, Periods, FadeTime, Modulus,
                                                        \* of the synthesizer, see there
    MaxHeld                                             \* of both

VARIABLES
    part,                                                           \* the one that runs
    outRate, duration, queued, kept, blockSizeSrc, thread, left, device, due, ranOutOfData, opens,
                                                                    \* see PlaybackQueue
    formants, masterGain, glotGain, realMasterGain, realGlotGain, formantCount, realFormants, i,
    realFilter, realFilterMutex, surplus, glotSurplus, nextGlot, lastGlot, held, length, pc, reader,
    filterCopy                                                      \* see Synthesizer

queueVars == <<outRate, duration, queued, kept, blockSizeSrc, thread, left, device, due, ranOutOfData, opens>>
synthesizerVars ==
    <<formants, masterGain, glotGain, realMasterGain, realGlotGain, formantCount, realFormants, i,
      realFilter, realFilterMutex, surplus, glotSurplus, nextGlot, lastGlot, held, length, pc, reader, filterCopy>>
vars == <<part, queueVars, synthesizerVars>>

Queue == INSTANCE PlaybackQueue WITH InRate <- SynthesisRate, held <- kept, pc <- thread
Audio == INSTANCE Synthesizer WITH MaxFormants <- 1, Others <- {"gains"}
Filter == INSTANCE Synthesizer WITH
    Lengths <- {2}, Periods <- {1}, Modulus <- 2, Others <- {"formants", "filter"}

ASSUME SynthesisAssumption ==
    Queue!PlaybackAssumption /\ Audio!SynthesizerAssumption /\ Filter!SynthesizerAssumption
------------------------------------------------------------------------------
NoQueue ==
    /\ outRate = 0 /\ duration = 0 /\ queued = 0 /\ kept = 0 /\ blockSizeSrc = 0 /\ thread = "none"
    /\ left = 0 /\ device = "closed" /\ due = 0 /\ ranOutOfData = FALSE /\ opens = 0
NoSynthesizer ==
    /\ formants = 0 /\ masterGain = 0 /\ glotGain = 0 /\ realMasterGain = 0 /\ realGlotGain = 0
    /\ formantCount = 0 /\ realFormants = 0 /\ i = 0 /\ realFilter = 0 /\ realFilterMutex = "free"
    /\ surplus = 0 /\ glotSurplus = <<>> /\ nextGlot = 0 /\ lastGlot = 0 /\ held = 0 /\ length = 0
    /\ pc = "idle" /\ reader = "idle" /\ filterCopy = 0

Init ==
    /\ part \in Parts
    /\ \/ part = "queue" /\ Queue!Init /\ NoSynthesizer
       \/ part = "audio" /\ Audio!Init /\ NoQueue
       \/ part = "filter" /\ Filter!Init /\ NoQueue

InQueue(step) == part = "queue" /\ step /\ UNCHANGED <<part, synthesizerVars>>
InAudio(step) == part = "audio" /\ step /\ UNCHANGED <<part, queueVars>>
InFilter(step) == part = "filter" /\ step /\ UNCHANGED <<part, queueVars>>

Next == InQueue(Queue!Next) \/ InAudio(Audio!Next) \/ InFilter(Filter!Next)

\* As in PlaybackQueue and Synthesizer.
Fairness ==
    /\ WF_vars(InQueue(Queue!StartSynthesisThread)) /\ WF_vars(InQueue(Queue!PushIfNeeded))
    /\ WF_vars(InQueue(Queue!CallbackReturns)) /\ WF_vars(InQueue(Queue!Pull))
    /\ WF_vars(InQueue(Queue!Tick)) /\ WF_vars(InQueue(Queue!OpenDevice))
    /\ SF_vars(InFilter(Filter!Synthesis)) /\ WF_vars(InFilter(Filter!Copying))

Spec == Init /\ [][Next]_vars /\ Fairness
------------------------------------------------------------------------------
(* What the synthesis promises: the properties of each module, named there.     *)

\* The delay is bounded, and the resampler is not called without a rate.
QueueCorrect ==
    part = "queue" => Queue!TypeOK /\ Queue!DelayBounded /\ Queue!RateKnown

\* The samples left over follow those used, the bank is bounded, the loop over
\* the formants stays within the filter, and a copy of the filter is of one
\* callback.
SynthesizerCorrect ==
    /\ part = "audio" => Audio!TypeOK /\ Audio!SurplusFollows /\ Audio!BankBounded
    /\ part = "filter" => Filter!TypeOK /\ Filter!SmoothsWithin /\ Filter!FilterCopyWhole

\* No glottal sample is lost, played twice or out of order.
GlotContiguous == [][part = "audio" /\ lastGlot' # lastGlot
                       => lastGlot' = Audio!Number(lastGlot + Audio!inputLength)]_vars

\* After silence there is sound, for which the blocks grow no longer than the
\* thread's sleep and the device's period call for; a callback ends, and the
\* filter comes to have as many formants as were set.
SoundFollows ==
    /\ Queue!SoundReturns /\ [](part = "queue" => Queue!DurationSettles)
    /\ (part = "filter" /\ pc # "idle") ~> pc = "idle"
    /\ Filter!FormantsFollow
==============================================================================
