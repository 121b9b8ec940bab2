------------------------------- MODULE Pipeline -------------------------------
(***************************************************************************)
(* Module::App::Pipeline (src/src/modules/app/pipeline): the analysis      *)
(* thread moves blocks of samples from the capture buffer to the           *)
(* pipeline's own buffer (processAll) and starts the processing thread,    *)
(* which slides a window over them and hands frames of it to the           *)
(* processors (callbackProcessing).  The destructor stops that thread.     *)
(*                                                                         *)
(* The two audio buffers are numbers of samples here, which is what        *)
(* SampleStream promises of them: a pull waits until all its samples are   *)
(* there, or ends with what there is once pulls are cancelled, and a       *)
(* sample for which there is no memory when it is pushed is lost.          *)
(* Durations are counted in ticks, TicksPerSecond of them to the second.   *)
(* The code sums them up in doubles, whose error stays far below a tick:   *)
(* a comparison of two durations comes out as it should unless they are    *)
(* equal, and then either way.                                             *)
(***************************************************************************)
EXTENDS Integers, Sequences

CONSTANTS
    TicksPerSecond,
    Rates,            \* sample rates, in samples per second
    Granularity,      \* analysis granularity, in ticks
    Processors,       \* sequence of [space, length]: mFrameSpace and mFrameLength
    InitialBlock,     \* 512: the first block size
    Step,             \* 128: by how much it is adjusted
    LowBlock,         \* 512: from here on it may shrink
    HighBlock,        \* 16384: up to here it may grow
    GrowAt,           \* 8192: change of the backlog at which it grows
    ShrinkAt,         \* 1024: change of the backlog at which it shrinks
    CaptureLengths,   \* lengths of the blocks the capture callback pushes
    MaxBacklog,       \* bound on the samples in the capture buffer
    MaxBuffered       \* bound on the samples in mBuffer

ASSUME PipelineAssumption ==
    /\ TicksPerSecond \in Nat \ {0}
    /\ Rates \subseteq Nat \ {0}
    /\ Granularity \in Nat \ {0}
    /\ Processors \in Seq([space : Nat, length : Nat]) /\ Processors # << >>
    /\ {InitialBlock, Step, LowBlock, HighBlock, GrowAt, ShrinkAt} \subseteq Nat \ {0}
    /\ Step < LowBlock
    /\ InitialBlock \in LowBlock..HighBlock
    /\ InitialBlock < GrowAt
    /\ CaptureLengths \subseteq Nat
    /\ MaxBacklog \in Nat
    /\ MaxBuffered \in Nat

VARIABLES
    backlog,            \* length of the capture buffer
    captureRate,        \* mCaptureBuffer's sample rate
    analysis,           \* where the analysis thread stands in processAll
    fs,                 \* processAll's local sample rate
    blockSize,          \* the static block size
    lastBufferLength,   \* the static last backlog
    mSampleRate,        \* the pipeline's sample rate; NoRate: not yet assigned
    buffered,           \* length of mBuffer
    mThreadRunning,
    mStopThread,
    joinable,           \* mProcessingThread is a thread that was not joined
    processing,         \* where the processing thread stands
    block,              \* [size, rate]: its block and the rate it was sized with
    window,             \* [size, rate]: its sliding window, likewise
    frame,              \* [size, rate]: the frame last taken from this window
    turn,               \* the processor whose turn it is
    since,              \* per processor: ticks from its mTime to the loop's time
    sCancel,            \* Buffer::sCancel
    dtor                \* where the destructor stands

bufferVars == <<backlog, captureRate, buffered>>
analysisVars == <<analysis, fs, blockSize, lastBufferLength, mSampleRate>>
threadVars == <<mThreadRunning, mStopThread, joinable>>
processingVars == <<processing, block, window, frame, turn, since>>
vars == <<bufferVars, analysisVars, threadVars, processingVars, sCancel, dtor>>

NoRate == 0
Nothing == [size |-> 0, rate |-> NoRate]

Least(x, y) == IF x <= y THEN x ELSE y

\* resize(seconds * rate) and (int) conversions truncate ...
Truncated(ticks, rate) == (ticks * rate) \div TicksPerSecond

\* ... and std::round rounds halves up.
Rounded(ticks, rate) == (2 * ticks * rate + TicksPerSecond) \div (2 * TicksPerSecond)

\* Mutant of MaxFrameLength: the comparison with the processors is reversed.
MaxFrameLengthReversed == Granularity

MaxFrameLength ==
    LET lengths == {Granularity} \cup {Processors[p].length : p \in DOMAIN Processors}
    IN  CHOOSE longest \in lengths : \A length \in lengths : length <= longest

Sized == [size : Nat, rate : Rates \cup {NoRate}]

\* Both buffers stay within their bounds: no pull takes samples that are not there.
TypeOK ==
    /\ backlog \in 0..MaxBacklog
    /\ captureRate \in Rates
    /\ analysis \in {"idle", "pull", "push", "spawn", "adjust", "ended"}
    /\ fs \in Rates \cup {NoRate}
    /\ blockSize \in Nat
    /\ lastBufferLength \in 0..MaxBacklog
    /\ mSampleRate \in Rates \cup {NoRate}
    /\ buffered \in 0..MaxBuffered
    /\ mThreadRunning \in BOOLEAN /\ mStopThread \in BOOLEAN
    /\ joinable \in BOOLEAN /\ sCancel \in BOOLEAN
    /\ processing \in {"none", "check", "pull", "window", "process", "exited"}
    /\ block \in Sized /\ window \in Sized /\ frame \in Sized
    /\ turn \in DOMAIN Processors
    /\ since \in [DOMAIN Processors -> Nat]
    /\ dtor \in {"no", "stop", "cancel", "join", "done"}

Init ==
    /\ backlog = 0
    /\ captureRate \in Rates
    /\ analysis = "idle"
    /\ fs = NoRate
    /\ blockSize = InitialBlock
    /\ lastBufferLength = 0
    /\ mSampleRate = NoRate
    /\ buffered = 0
    /\ mThreadRunning = FALSE
    /\ mStopThread = FALSE
    /\ joinable = FALSE
    /\ processing = "none"
    /\ block = Nothing /\ window = Nothing /\ frame = Nothing
    /\ turn = 1
    /\ since = [p \in DOMAIN Processors |-> 0]
    /\ sCancel = FALSE
    /\ dtor = "no"
-----------------------------------------------------------------------------
(* Around the pipeline *)

\* A capture callback pushes a block of samples, of which some may be lost.
Capture(n) ==
    /\ backlog + n <= MaxBacklog
    /\ \E k \in 0..n : backlog' = backlog + k
    /\ UNCHANGED <<captureRate, buffered, analysisVars, threadVars, processingVars, sCancel, dtor>>

\* Opening a capture stream sets the rate of the capture buffer.
SetSampleRate(rate) ==
    /\ captureRate' = rate
    /\ UNCHANGED <<backlog, buffered, analysisVars, threadVars, processingVars, sCancel, dtor>>

\* stopAnalysisThread() cancels the pulls, and the analysis thread's loop ends
\* with the call of processAll it is in.
CancelPulls ==
    /\ dtor = "no"
    /\ sCancel' = TRUE
    /\ UNCHANGED <<bufferVars, analysisVars, threadVars, processingVars, dtor>>

AnalysisEnds ==
    /\ analysis = "idle"
    /\ sCancel
    /\ analysis' = "ended"
    /\ UNCHANGED <<bufferVars, fs, blockSize, lastBufferLength, mSampleRate, threadVars,
                   processingVars, sCancel, dtor>>
-----------------------------------------------------------------------------
(* processAll(), in the analysis thread *)

\* It reads the capture rate and asks the capture buffer for a block.  (The
\* analysis thread is slowed down where mBuffer would pass its bound.)
ProcessAll ==
    /\ analysis = "idle"
    /\ buffered + blockSize <= MaxBuffered
    /\ fs' = captureRate
    /\ analysis' = "pull"
    /\ UNCHANGED <<bufferVars, blockSize, lastBufferLength, mSampleRate, threadVars,
                   processingVars, sCancel, dtor>>

\* The pull has filled the block, or was cancelled and leaves zeros in it.
PullCaptured ==
    /\ analysis = "pull"
    /\ \E n \in 0..Least(backlog, blockSize) :
         /\ n = blockSize \/ sCancel
         /\ backlog' = backlog - n
    /\ mSampleRate' = fs
    /\ analysis' = "push"
    /\ UNCHANGED <<captureRate, buffered, fs, blockSize, lastBufferLength, threadVars,
                   processingVars, sCancel, dtor>>

\* The whole block goes into mBuffer, holes included, but for what is lost.
PushBuffered ==
    /\ analysis = "push"
    /\ \E k \in 0..blockSize : buffered' = buffered + k
    /\ analysis' = "spawn"
    /\ UNCHANGED <<backlog, captureRate, fs, blockSize, lastBufferLength, mSampleRate,
                   threadVars, processingVars, sCancel, dtor>>

\* The compare_exchange of mThreadRunning, and the thread if it succeeds.
SpawnOnce ==
    /\ analysis = "spawn"
    /\ mThreadRunning' = TRUE
    /\ IF mThreadRunning
         THEN UNCHANGED <<joinable, processing>>
         ELSE joinable' = TRUE /\ processing' = "check"
    /\ analysis' = "adjust"
    /\ UNCHANGED <<bufferVars, fs, blockSize, lastBufferLength, mSampleRate, mStopThread,
                   block, window, frame, turn, since, sCancel, dtor>>

\* The next block size, from the change of the backlog.
AdjustedBlock(bufferLength) ==
    IF blockSize <= HighBlock /\ lastBufferLength - bufferLength >= GrowAt
    THEN blockSize + Step
    ELSE IF blockSize >= LowBlock /\ lastBufferLength - bufferLength <= -ShrinkAt
    THEN blockSize - Step
    ELSE blockSize

AdjustBlock ==
    /\ analysis = "adjust"
    /\ blockSize' = AdjustedBlock(backlog)
    /\ lastBufferLength' = backlog
    /\ analysis' = "idle"
    /\ UNCHANGED <<bufferVars, fs, mSampleRate, threadVars, processingVars, sCancel, dtor>>
-----------------------------------------------------------------------------
(* callbackProcessing(), in the processing thread *)

\* The loop's condition, and the size of the next block.
LoopTest ==
    /\ processing = "check"
    /\ IF mThreadRunning /\ ~mStopThread
         THEN /\ processing' = "pull"
              /\ block' = [size |-> Truncated(Granularity, mSampleRate), rate |-> mSampleRate]
         ELSE processing' = "exited" /\ UNCHANGED block
    /\ UNCHANGED <<bufferVars, analysisVars, threadVars, window, frame, turn, since, sCancel, dtor>>

\* Mutant of PullBlock: a pull that ignores the cancellation.
PullBlockUncancelled ==
    /\ processing = "pull"
    /\ buffered >= block.size
    /\ buffered' = buffered - block.size
    /\ processing' = "window"
    /\ UNCHANGED <<backlog, captureRate, analysisVars, threadVars, block, window, frame, turn,
                   since, sCancel, dtor>>

\* mBuffer.pull() has filled the block, or was cancelled and leaves the rest of
\* the previous block in it.
PullBlock ==
    /\ processing = "pull"
    /\ \E n \in 0..Least(buffered, block.size) :
         /\ n = block.size \/ sCancel
         /\ buffered' = buffered - n
    /\ processing' = "window"
    /\ UNCHANGED <<backlog, captureRate, analysisVars, threadVars, block, window, frame, turn,
                   since, sCancel, dtor>>

\* The window is resized with the rate of the moment, rotated by the block's
\* length and the block copied to its end.
SlideWindow ==
    /\ processing = "window"
    /\ window' = [size |-> Truncated(MaxFrameLength, mSampleRate), rate |-> mSampleRate]
    /\ frame' = Nothing
    /\ turn' = 1
    /\ processing' = "process"
    /\ UNCHANGED <<bufferVars, analysisVars, threadVars, block, since, sCancel, dtor>>

\* What timeNow - mTime >= space may be.  Both times are sums of granularities,
\* rounded at every addition, so at exactly the space it may be either; without
\* a space it is true, since the time never goes back.
Reached(p, space) ==
    IF since[p] = space /\ space > 0 THEN BOOLEAN ELSE {since[p] >= space}

\* Mutant of CanProcess: the time is compared with the length of a frame.
CanProcessLength(p) == Reached(p, Processors[p].length)

\* canProcess(time)
CanProcess(p) == Reached(p, Processors[p].space)

\* One turn of the loop over the processors: process() copies its frame from
\* the end of the window, works on it and notes the time.  After the last
\* processor the loop's time advances by the granularity.
ProcessTurn ==
    /\ processing = "process"
    /\ \E can \in CanProcess(turn) :
         LET p == turn
             last == p = Len(Processors)
             noted == IF can THEN [since EXCEPT ![p] = 0] ELSE since
         IN  /\ frame' = IF can THEN [size |-> Rounded(Processors[p].length, mSampleRate),
                                      rate |-> mSampleRate]
                         ELSE frame
             /\ since' = IF last THEN [q \in DOMAIN since |-> noted[q] + Granularity] ELSE noted
             /\ turn' = IF last THEN 1 ELSE p + 1
             /\ processing' = IF last THEN "check" ELSE "process"
    /\ UNCHANGED <<bufferVars, analysisVars, threadVars, block, window, sCancel, dtor>>
-----------------------------------------------------------------------------
(* ~Pipeline(), in the main thread, after the analysis thread was joined *)

Destroy ==
    /\ dtor = "no"
    /\ analysis = "ended"
    /\ mThreadRunning' = FALSE
    /\ dtor' = "stop"
    /\ UNCHANGED <<bufferVars, analysisVars, mStopThread, joinable, processingVars, sCancel>>

DestroyStop ==
    /\ dtor = "stop"
    /\ mStopThread' = TRUE
    /\ dtor' = "cancel"
    /\ UNCHANGED <<bufferVars, analysisVars, mThreadRunning, joinable, processingVars, sCancel>>

DestroyCancel ==
    /\ dtor = "cancel"
    /\ sCancel' = TRUE
    /\ dtor' = "join"
    /\ UNCHANGED <<bufferVars, analysisVars, threadVars, processingVars>>

\* Mutant of DestroyJoin: the thread is not waited for.
DestroyDetached ==
    /\ dtor = "join"
    /\ joinable' = FALSE
    /\ dtor' = "done"
    /\ UNCHANGED <<bufferVars, analysisVars, mThreadRunning, mStopThread, processingVars, sCancel>>

DestroyJoin ==
    /\ dtor = "join"
    /\ joinable => processing = "exited"
    /\ joinable' = FALSE
    /\ dtor' = "done"
    /\ UNCHANGED <<bufferVars, analysisVars, mThreadRunning, mStopThread, processingVars, sCancel>>

\* The program is over.
Terminated == dtor = "done" /\ UNCHANGED vars
-----------------------------------------------------------------------------
AnalysisStep == PullCaptured \/ PushBuffered \/ SpawnOnce \/ AdjustBlock

ProcessingStep == LoopTest \/ PullBlock \/ SlideWindow \/ ProcessTurn

DestructorStep == DestroyStop \/ DestroyCancel \/ DestroyJoin

Environment ==
    \/ \E n \in CaptureLengths : Capture(n)
    \/ \E rate \in Rates : SetSampleRate(rate)
    \/ CancelPulls

Next ==
    \/ Environment \/ ProcessAll \/ AnalysisStep \/ AnalysisEnds
    \/ ProcessingStep
    \/ Destroy \/ DestructorStep \/ Terminated

Spec == Init /\ [][Next]_vars

(* The threads are scheduled inside processAll, callbackProcessing and the    *)
(* destructor.  Nobody has to capture, to call processAll or to cancel.       *)
FairSpec ==
    /\ Spec
    /\ WF_vars(AnalysisStep)
    /\ WF_vars(ProcessingStep)
    /\ WF_vars(DestructorStep)
-----------------------------------------------------------------------------
(* Properties *)

\* std::rotate and std::copy stay inside the sliding window: while the sample
\* rate does not change between the reads of it, the block is no longer than
\* the window, and neither is the frame, except for the one sample by which
\* std::round may exceed the truncation when a frame is not a whole number of
\* samples.
WholeFrames(rate) ==
    \A p \in DOMAIN Processors : (Processors[p].length * rate) % TicksPerSecond = 0

WindowHolds ==
    processing \in {"process", "check"} =>
        /\ block.rate = window.rate => block.size <= window.size
        /\ frame.rate = window.rate =>
             frame.size <= window.size + IF WholeFrames(window.rate) THEN 0 ELSE 1

\* With the types, which say that both buffers stay within their bounds.
WindowSound == TypeOK /\ WindowHolds

\* The processing thread sizes nothing before the sample rate is assigned,
\* although the member has no initial value.
RateKnown == processing # "none" => mSampleRate # NoRate

\* processAll never assigns a new thread to mProcessingThread while that still
\* holds one, which would end the program.
NoThreadOverwritten == analysis = "spawn" /\ ~mThreadRunning => ~joinable

\* The thread does not outlive the object it works on.
NoOrphanThread == dtor = "done" => processing \in {"none", "exited"}

\* However the backlog swings, the block size stays positive and never exceeds
\* the initial one: a call takes at most one block from the backlog, so that
\* never drops by GrowAt between two calls and the branch that grows the block
\* is not taken.
BlockSizeInRange == blockSize \in (LowBlock - Step)..InitialBlock

\* The four together: the thread is started once, with a rate, on a block size
\* that is in range, and is joined.
ThreadsSound == RateKnown /\ NoThreadOverwritten /\ NoOrphanThread /\ BlockSizeInRange

\* No processor falls behind: when the loop comes round, no more than its
\* spacing and one granularity have passed since its last frame.  A frame that
\* the rounded times miss when it is due comes the next time round.
Cadence ==
    processing = "check" =>
        \A p \in DOMAIN Processors : since[p] <= Processors[p].space + Granularity

\* A cancelled processAll returns, whatever the capture stream does.
ProcessAllReturns == analysis = "pull" /\ sCancel ~> analysis = "idle"

\* The destructor returns: the processing thread leaves its loop although
\* nobody pushes samples any more.
DestructorReturns == dtor = "stop" ~> dtor = "done"

\* Neither call is left waiting for samples that never come.
CancelledReturns == ProcessAllReturns /\ DestructorReturns

\* "dynamically adjust blockSize to consume all the buffer": the block does not
\* shrink when the backlog has grown.
KeepsUpWithBacklog == [][backlog > lastBufferLength => blockSize' >= blockSize]_vars
=============================================================================
