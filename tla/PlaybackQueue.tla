--------------------------- MODULE PlaybackQueue ---------------------------
(***************************************************************************)
(* Audio::Queue (src/src/modules/audio/queue/queue.cpp) between the        *)
(* synthesis thread, which every 20 ms tops it up, and the device, which   *)
(* pulls a period of samples at a time and has it filled with silence when *)
(* they run out; every time that happens the blocks grow by a quarter of a *)
(* millisecond, which is also the model's unit of time.                    *)
(*                                                                         *)
(* Time passes when nobody is late: a pull and a step of the thread happen *)
(* when they are due.  Samples are counted; their order in the queue is    *)
(* ReaderWriterQueue's.                                                    *)
(***************************************************************************)
EXTENDS Integers, FiniteSetsExt, Resampler

CONSTANTS
    InRate, OutRates,   \* samples per millisecond, of the synthesizer and of devices
    InitialDuration,    \* the first block duration
    SleepTime,          \* the thread's sleep
    MaxLate,            \* the most it oversleeps
    MaxCallbackTime,    \* the longest the callback takes to make a block
    StartTime,          \* the longest from the device's start to the thread's
    PullTime,           \* the time a device's period lasts
    MaxHeld,            \* frames in the resampler
    MaxOpens,           \* bound: how often a device is opened
    MaxDuration         \* bound: of the block duration, above what it settles at

PlaybackAssumption ==
    /\ \A c \in {InRate, InitialDuration, SleepTime, PullTime, MaxOpens, MaxDuration} \cup OutRates : c \in Nat \ {0}
    /\ \A c \in {MaxLate, MaxCallbackTime, StartTime, MaxHeld} : c \in Nat
    /\ \A r \in OutRates : (r * PullTime) % 4 = 0
    /\ \E fastest \in OutRates : \A r \in OutRates : r <= fastest

VARIABLES
    outRate,            \* the resampler's mOutRate, 0 before a device is open
    duration,           \* mBlockDuration
    queued,             \* samples in mQueue
    held,               \* frames in the resampler
    blockSizeSrc,       \* of the block the callback makes
    pc,                 \* the thread: "none", "check", "callback"
    left,               \* time until its next step
    device,             \* "closed", "running"
    due,                \* time until the next pull
    ranOutOfData,       \* in the last pull
    opens

vars == <<outRate, duration, queued, held, blockSizeSrc, pc, left, device, due, ranOutOfData, opens>>
thread == <<held, blockSizeSrc, pc, left>>
playing == <<device, due, ranOutOfData, opens>>

TypeOK ==
    /\ outRate \in {0} \cup OutRates
    /\ \A c \in {duration, queued, blockSizeSrc, left, due, opens} : c \in Nat
    /\ held \in 0..MaxHeld
    /\ pc \in {"none", "check", "callback"}
    /\ device \in {"closed", "running"}
    /\ ranOutOfData \in BOOLEAN

Init ==
    /\ outRate = 0
    /\ duration = InitialDuration
    /\ queued = 0 /\ held = 0 /\ blockSizeSrc = 0
    /\ pc = "none" /\ left = 0
    /\ device = "closed" /\ due = 0 /\ ranOutOfData = FALSE /\ opens = 0

\* (int) std::round((duration * rate) / 1000), of quarters of a millisecond
BlockSize(rate) == (2 * duration * rate + 4) \div 8

\* openPlaybackStream sets the rate, the stream is started and pulls at once.
OpenDevice ==
    /\ device = "closed"
    /\ opens < MaxOpens
    /\ outRate' \in OutRates
    /\ device' = "running" /\ due' = PullTime /\ opens' = opens + 1
    /\ left' \in IF pc = "none" THEN 0..StartTime ELSE {left}
    /\ ranOutOfData' = FALSE
    /\ UNCHANGED <<duration, queued, held, blockSizeSrc, pc>>

\* The backend is changed: its stream goes; the queue keeps what is in it.
CloseDevice ==
    /\ device = "running"
    /\ pc # "none"
    /\ opens < MaxOpens
    /\ device' = "closed" /\ due' = 0 /\ ranOutOfData' = FALSE
    /\ UNCHANGED <<outRate, duration, queued, thread, opens>>

\* ContextManager::exec starts the thread when the streams run.
StartSynthesisThread ==
    /\ pc = "none"
    /\ device = "running" /\ left = 0
    /\ pc' = "check"
    /\ UNCHANGED <<outRate, duration, queued, held, blockSizeSrc, left, playing>>

\* Mutant of EnoughData: it takes two blocks.
EnoughDataForTwo == queued > 2 * BlockSize(outRate)

\* "There's already enough data in the queue."
EnoughData == queued > BlockSize(outRate)

\* pushIfNeeded, until the callback; then 20 ms of sleep, or the callback.
PushIfNeeded ==
    /\ pc = "check" /\ left = 0
    /\ IF EnoughData
       THEN left' \in SleepTime..(SleepTime + MaxLate) /\ UNCHANGED <<pc, blockSizeSrc>>
       ELSE /\ blockSizeSrc' = BlockSize(InRate)
            /\ left' \in 0..MaxCallbackTime
            /\ pc' = "callback"
    /\ UNCHANGED <<outRate, duration, queued, held, playing>>

\* The callback has made the block; it is resampled and enqueued.
CallbackReturns ==
    /\ pc = "callback" /\ left = 0
    /\ \E p \in process(blockSizeSrc, InRate, outRate, held, MaxHeld) :
          queued' = queued + p.generated /\ held' = p.held
    /\ pc' = "check"
    /\ left' \in SleepTime..(SleepTime + MaxLate)
    /\ UNCHANGED <<outRate, duration, blockSizeSrc, playing>>

PullLength == (outRate * PullTime) \div 4

\* Mutant of Adjusted: every pull makes the blocks longer.
AdjustedAlways(short) == IF duration < MaxDuration THEN duration + 1 ELSE duration

Adjusted(short) == IF short /\ duration < MaxDuration THEN duration + 1 ELSE duration

Remaining == IF queued < PullLength THEN 0 ELSE queued - PullLength

\* Queue::pull, with zeroes for what is not there
Pull ==
    /\ device = "running" /\ due = 0
    /\ LET short == queued < PullLength
       IN /\ ranOutOfData' = short
          /\ duration' = Adjusted(short)
          /\ queued' = Remaining
    /\ due' = PullTime
    /\ UNCHANGED <<outRate, thread, device, opens>>

\* External: a unit of time.
Tick ==
    /\ device = "running" => due > 0
    /\ pc # "none" => left > 0
    /\ pc = "none" => device = "running" /\ left > 0
    /\ left' = left - 1
    /\ due' = IF device = "running" THEN due - 1 ELSE due
    /\ UNCHANGED <<outRate, duration, queued, held, blockSizeSrc, pc, device, ranOutOfData, opens>>

Next == OpenDevice \/ CloseDevice \/ StartSynthesisThread \/ PushIfNeeded \/ CallbackReturns \/ Pull \/ Tick
Fairness == WF_vars(StartSynthesisThread) /\ WF_vars(PushIfNeeded) /\ WF_vars(CallbackReturns)
            /\ WF_vars(Pull) /\ WF_vars(Tick) /\ WF_vars(OpenDevice)
Spec == Init /\ [][Next]_vars /\ Fairness
-----------------------------------------------------------------------------
\* The longest from one block in the queue to the next, and the pulls in it
Gap == SleepTime + MaxLate + MaxCallbackTime
Pulls(time) == time \div PullTime + 1

\* A block that lasts for the gap and a pull, and makes up for what the
\* resampler keeps, is long enough.
Enough == Gap + PullTime + (4 * MaxHeld + Min(OutRates) - 1) \div Min(OutRates) + 1

\* The adjustment of pull() settles: nothing ever makes the blocks shorter, but
\* they grow no further than what the thread's sleep and the device's period
\* call for, and, for each device opened, the pulls before its first block.
DurationSettles ==
    duration <= Max({InitialDuration + Pulls(StartTime + MaxCallbackTime), Enough})
                + (opens - 1) * Pulls(Gap + MaxCallbackTime)

\* The queue, and so the delay of the sound, is never longer than two blocks, at
\* the fastest rate, and what the roundings add.
DelayBounded == queued <= 2 * BlockSize(Max(OutRates)) + Max(OutRates) \div (2 * InRate) + 1

\* The resampler is never called before a device has given it a rate: a ratio
\* of 0 is an error of the library, which ends the thread and the program.
RateKnown == pc = "callback" => outRate # 0

\* After silence there is sound: the thread fills the queue again.
SoundReturns == (device = "running" /\ ranOutOfData) ~> (queued >= PullLength \/ device = "closed")
=============================================================================
