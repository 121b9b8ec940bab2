--------------------------- MODULE Pipeline_proofs ---------------------------
(***************************************************************************)
(* Proofs about Pipeline: the block size stays in its range, the           *)
(* processing thread is started when the sample rate is known, never       *)
(* assigned over a thread that was not joined, and gone when the           *)
(* destructor returns; a block and a frame fit in the window; and no       *)
(* processor falls behind.                                                 *)
(***************************************************************************)
EXTENDS Pipeline, WellFoundedInduction, TLAPS

\* The numbers the block size depends on.
BlockTypes ==
    /\ backlog \in Nat
    /\ lastBufferLength \in Nat
    /\ blockSize \in Int
    /\ captureRate \in Rates
    /\ analysis \in {"idle", "pull", "push", "spawn", "adjust", "ended"}

\* The backlog has not fallen since the last call, but for the one block the
\* current call has taken.
BacklogInv ==
    /\ analysis \in {"idle", "ended", "pull"} => lastBufferLength <= backlog
    /\ analysis \in {"push", "spawn", "adjust"} => lastBufferLength <= backlog + blockSize

\* A pull has a rate to pass on, and it is passed on before the thread is started.
RateInv ==
    /\ analysis = "pull" => fs # NoRate
    /\ analysis \in {"push", "spawn", "adjust"} => mSampleRate # NoRate
    /\ mSampleRate # NoRate \/ processing = "none"
    /\ analysis \notin {"idle", "ended"} => fs # NoRate

\* The destructor runs after the analysis thread, and the thread object stands
\* for the thread until it is joined.
ThreadInv ==
    /\ dtor # "no" => analysis = "ended"
    /\ joinable /\ dtor = "no" => mThreadRunning
    /\ processing # "none" => joinable \/ dtor = "done"
    /\ dtor = "done" => processing \in {"none", "exited"}

PipelineInv ==
    /\ BlockTypes
    /\ BlockSizeInRange
    /\ BacklogInv
    /\ RateInv
    /\ ThreadInv
-----------------------------------------------------------------------------
\* A rate a stream is opened with is not the missing one.
LEMMA RateIsNotMissing == \A rate \in Rates : rate # NoRate
  BY PipelineAssumption DEF NoRate

\* A new pipeline has the initial block size, no backlog and no thread.
LEMMA PipelineInitInv == Init => PipelineInv
  BY PipelineAssumption
  DEF Init, PipelineInv, BlockTypes, BlockSizeInRange, BacklogInv, RateInv, ThreadInv, NoRate

\* The block size is only ever reduced, and not below its lower limit: the
\* backlog cannot have dropped by GrowAt.
LEMMA AdjustKeepsRange ==
    ASSUME PipelineInv, AdjustBlock
    PROVE  blockSize' \in (LowBlock - Step)..InitialBlock
  <1>1. /\ {InitialBlock, Step, LowBlock, HighBlock, GrowAt, ShrinkAt} \subseteq Nat
        /\ InitialBlock < GrowAt /\ LowBlock <= InitialBlock
    BY PipelineAssumption
  <1>2. /\ lastBufferLength - backlog <= blockSize
        /\ blockSize \in (LowBlock - Step)..InitialBlock
        /\ backlog \in Nat /\ lastBufferLength \in Nat
    BY <1>1 DEF PipelineInv, BlockTypes, BlockSizeInRange, BacklogInv, AdjustBlock
  <1>3. ~(lastBufferLength - backlog >= GrowAt)
    BY <1>1, <1>2
  <1>4. \/ blockSize' = blockSize
        \/ blockSize >= LowBlock /\ blockSize' = blockSize - Step
    BY <1>3 DEF AdjustBlock, AdjustedBlock
  <1> QED
    BY <1>1, <1>2, <1>4

\* The steps around the pipeline: samples only add to the backlog.
LEMMA EnvironmentKeeps == PipelineInv /\ Environment => PipelineInv'
  <1> SUFFICES ASSUME PipelineInv, Environment PROVE PipelineInv'
    OBVIOUS
  <1> USE DEF PipelineInv, BlockTypes, BlockSizeInRange, BacklogInv, RateInv, ThreadInv
  <1>1. ASSUME NEW n \in CaptureLengths, Capture(n) PROVE PipelineInv'
    <2>1. n \in Nat
      BY PipelineAssumption
    <2>2. blockSize \in Int /\ backlog \in Nat /\ lastBufferLength \in Nat
      OBVIOUS
    <2>3. PICK k \in 0..n : backlog' = backlog + k
      BY <1>1 DEF Capture
    <2>4. backlog' \in Nat /\ backlog' >= backlog
      BY <2>1, <2>2, <2>3
    <2>5. UNCHANGED <<captureRate, buffered, analysisVars, threadVars, processingVars, sCancel, dtor>>
      BY <1>1 DEF Capture
    <2>6. UNCHANGED <<captureRate, analysis, fs, blockSize, lastBufferLength, mSampleRate,
                      mThreadRunning, joinable, processing, dtor>>
      BY <2>5 DEF analysisVars, threadVars, processingVars
    <2>7. BlockTypes' /\ BlockSizeInRange' /\ RateInv' /\ ThreadInv'
      BY <2>4, <2>6
    <2>8. BacklogInv'
      <3>1. \A x, y, z \in Nat, b \in Int :
              /\ x <= y /\ y <= z => x <= z
              /\ x <= y + b /\ y <= z => x <= z + b
        OBVIOUS
      <3> QED
        BY <2>2, <2>4, <2>6, <3>1
    <2> QED
      BY <2>7, <2>8
  <1>2. ASSUME NEW rate \in Rates, SetSampleRate(rate) PROVE PipelineInv'
    BY <1>2 DEF SetSampleRate, analysisVars, threadVars, processingVars
  <1>3. CASE CancelPulls
    BY <1>3 DEF CancelPulls, bufferVars, analysisVars, threadVars, processingVars
  <1> QED
    BY <1>1, <1>2, <1>3 DEF Environment

\* The steps of the analysis thread.
LEMMA AnalysisKeeps ==
    PipelineInv /\ (ProcessAll \/ AnalysisStep \/ AnalysisEnds) => PipelineInv'
  <1> SUFFICES ASSUME PipelineInv, ProcessAll \/ AnalysisStep \/ AnalysisEnds
               PROVE  PipelineInv'
    OBVIOUS
  <1>1. CASE ProcessAll
    <2>1. fs' # NoRate
      BY <1>1, RateIsNotMissing DEF ProcessAll, PipelineInv, BlockTypes
    <2> QED
      BY <1>1, <2>1
      DEF ProcessAll, PipelineInv, BlockTypes, BlockSizeInRange, BacklogInv, RateInv, ThreadInv,
          bufferVars, threadVars, processingVars
  <1>2. CASE PullCaptured
    <2>1. PICK n \in 0..Least(backlog, blockSize) : backlog' = backlog - n
      BY <1>2 DEF PullCaptured
    <2>2. /\ backlog' \in Nat
          /\ backlog <= backlog' + blockSize
      BY <2>1 DEF Least, PipelineInv, BlockTypes
    <2>3. BlockTypes' /\ BlockSizeInRange'
      BY <1>2, <2>2 DEF PullCaptured, PipelineInv, BlockTypes, BlockSizeInRange
    <2>4. BacklogInv'
      BY <1>2, <2>2 DEF PullCaptured, PipelineInv, BlockTypes, BacklogInv
    <2>5. RateInv' /\ ThreadInv'
      BY <1>2 DEF PullCaptured, PipelineInv, RateInv, ThreadInv, threadVars, processingVars
    <2> QED
      BY <2>3, <2>4, <2>5 DEF PipelineInv
  <1>3. CASE PushBuffered
    BY <1>3
    DEF PushBuffered, PipelineInv, BlockTypes, BlockSizeInRange, BacklogInv, RateInv, ThreadInv,
        threadVars, processingVars
  <1>4. CASE SpawnOnce
    <2>1. BlockTypes' /\ BlockSizeInRange' /\ BacklogInv'
      BY <1>4 DEF SpawnOnce, PipelineInv, BlockTypes, BlockSizeInRange, BacklogInv, bufferVars
    <2>2. RateInv'
      BY <1>4 DEF SpawnOnce, PipelineInv, RateInv
    <2>3. dtor = "no" /\ dtor' = "no"
      BY <1>4 DEF SpawnOnce, PipelineInv, ThreadInv
    <2>4. ThreadInv'
      BY <1>4, <2>3 DEF SpawnOnce, PipelineInv, ThreadInv
    <2> QED
      BY <2>1, <2>2, <2>4 DEF PipelineInv
  <1>5. CASE AdjustBlock
    <2>1. blockSize' \in (LowBlock - Step)..InitialBlock
      BY <1>5, AdjustKeepsRange
    <2>2. LowBlock - Step \in Int
      BY PipelineAssumption
    <2>3. BlockTypes' /\ BlockSizeInRange' /\ BacklogInv'
      BY <1>5, <2>1, <2>2
      DEF AdjustBlock, PipelineInv, BlockTypes, BlockSizeInRange, BacklogInv, bufferVars
    <2>4. RateInv' /\ ThreadInv'
      BY <1>5 DEF AdjustBlock, PipelineInv, RateInv, ThreadInv, threadVars, processingVars
    <2> QED
      BY <2>3, <2>4 DEF PipelineInv
  <1>6. CASE AnalysisEnds
    BY <1>6
    DEF AnalysisEnds, PipelineInv, BlockTypes, BlockSizeInRange, BacklogInv, RateInv, ThreadInv,
        bufferVars, threadVars, processingVars
  <1> QED
    BY <1>1, <1>2, <1>3, <1>4, <1>5, <1>6 DEF AnalysisStep

\* The steps of the processing thread, which exists when it takes one.
LEMMA ProcessingKeeps == PipelineInv /\ ProcessingStep => PipelineInv'
  <1> SUFFICES ASSUME PipelineInv, ProcessingStep PROVE PipelineInv'
    OBVIOUS
  <1>1. processing \notin {"none", "exited"} /\ processing' # "none"
    BY DEF ProcessingStep, LoopTest, PullBlock, SlideWindow, ProcessTurn
  <1>2. UNCHANGED <<backlog, captureRate, analysisVars, threadVars, dtor>>
    BY DEF ProcessingStep, LoopTest, PullBlock, SlideWindow, ProcessTurn, bufferVars
  <1>3. BlockTypes' /\ BlockSizeInRange' /\ BacklogInv'
    BY <1>2 DEF PipelineInv, BlockTypes, BlockSizeInRange, BacklogInv, analysisVars
  <1>4. RateInv' /\ ThreadInv'
    BY <1>1, <1>2 DEF PipelineInv, RateInv, ThreadInv, analysisVars, threadVars
  <1> QED
    BY <1>3, <1>4 DEF PipelineInv

\* The steps of the destructor, which finds the analysis thread ended.
LEMMA DestructorKeeps == PipelineInv /\ (Destroy \/ DestructorStep) => PipelineInv'
  <1> SUFFICES ASSUME PipelineInv, Destroy \/ DestructorStep PROVE PipelineInv'
    OBVIOUS
  <1>1. UNCHANGED <<bufferVars, analysisVars, processingVars>>
    BY DEF Destroy, DestructorStep, DestroyStop, DestroyCancel, DestroyJoin
  <1>2. BlockTypes' /\ BlockSizeInRange' /\ BacklogInv' /\ RateInv'
    BY <1>1
    DEF PipelineInv, BlockTypes, BlockSizeInRange, BacklogInv, RateInv, bufferVars, analysisVars,
        processingVars
  <1>3. ThreadInv'
    <2>1. CASE Destroy
      BY <2>1 DEF Destroy, PipelineInv, ThreadInv, analysisVars, processingVars
    <2>2. CASE DestroyStop
      BY <2>2 DEF DestroyStop, PipelineInv, ThreadInv, analysisVars, processingVars
    <2>3. CASE DestroyCancel
      BY <2>3 DEF DestroyCancel, PipelineInv, ThreadInv, analysisVars, processingVars, threadVars
    <2>4. CASE DestroyJoin
      BY <2>4 DEF DestroyJoin, PipelineInv, ThreadInv, analysisVars, processingVars
    <2> QED
      BY <2>1, <2>2, <2>3, <2>4 DEF DestructorStep
  <1> QED
    BY <1>2, <1>3 DEF PipelineInv

\* Every step keeps the invariant.
LEMMA PipelineNextInv == PipelineInv /\ [Next]_vars => PipelineInv'
  <1> SUFFICES ASSUME PipelineInv, [Next]_vars PROVE PipelineInv'
    OBVIOUS
  <1>1. CASE UNCHANGED vars
    BY <1>1
    DEF vars, bufferVars, analysisVars, threadVars, processingVars, PipelineInv, BlockTypes,
        BlockSizeInRange, BacklogInv, RateInv, ThreadInv
  <1>2. CASE Next
    BY <1>1, <1>2, EnvironmentKeeps, AnalysisKeeps, ProcessingKeeps, DestructorKeeps
    DEF Next, Terminated
  <1> QED
    BY <1>1, <1>2

\* The inductive invariant holds of every behaviour of the pipeline.
THEOREM PipelineInvariance == Spec => []PipelineInv
  BY PipelineInitInv, PipelineNextInv, PTL DEF Spec

\* For every adjustment the code may be built with, the block size stays
\* between LowBlock - Step and InitialBlock: the branch that enlarges it is dead.
THEOREM BlockSizeStaysInRange == Spec => []BlockSizeInRange
  <1>1. PipelineInv => BlockSizeInRange
    BY DEF PipelineInv
  <1> QED
    BY <1>1, PipelineInvariance, PTL

\* callbackProcessing() never runs without a sample rate.
THEOREM RateIsKnown == Spec => []RateKnown
  <1>1. PipelineInv => RateKnown
    BY DEF PipelineInv, RateInv, RateKnown
  <1> QED
    BY <1>1, PipelineInvariance, PTL

\* processAll() never assigns over a thread that was not joined.
THEOREM ThreadIsNotOverwritten == Spec => []NoThreadOverwritten
  <1>1. PipelineInv => NoThreadOverwritten
    BY DEF PipelineInv, ThreadInv, NoThreadOverwritten
  <1> QED
    BY <1>1, PipelineInvariance, PTL

\* When ~Pipeline() has returned, no thread works on the object.
THEOREM ThreadIsNotOrphaned == Spec => []NoOrphanThread
  <1>1. PipelineInv => NoOrphanThread
    BY DEF PipelineInv, ThreadInv, NoOrphanThread
  <1> QED
    BY <1>1, PipelineInvariance, PTL

\* The four together, for any rates, processors, limits and steps.
THEOREM ThreadsAreSound == Spec => []ThreadsSound
  BY BlockSizeStaysInRange, RateIsKnown, ThreadIsNotOverwritten, ThreadIsNotOrphaned, PTL DEF ThreadsSound
-----------------------------------------------------------------------------
(* The sliding window and the pace of the processors *)

\* processAll pulls no block that mBuffer has no room for.
RoomInv == analysis \in {"pull", "push"} => buffered + blockSize <= MaxBuffered

\* Block, window and frame are as long as the rate they were sized with says.
SizesInv ==
    /\ block.size = Truncated(Granularity, block.rate)
    /\ window.size = Truncated(MaxFrameLength, window.rate)
    /\ \/ frame.size = 0
       \/ \E p \in DOMAIN Processors : frame.size = Rounded(Processors[p].length, frame.rate)

\* A processor whose turn is over is no more than its spacing away from its last
\* frame; until its turn comes the last granularity may be added.
PaceInv ==
    \A p \in DOMAIN Processors :
        since[p] <= Processors[p].space +
                      (IF processing = "process" /\ p < turn THEN 0 ELSE Granularity)

WindowInv == TypeOK /\ RoomInv /\ SizesInv /\ PaceInv
-----------------------------------------------------------------------------
(* Lengths *)

\* A set of natural numbers has a least element: the well-foundedness of <.
LEMMA LeastNatural ==
    ASSUME NEW T \in SUBSET Nat, T # {}
    PROVE  \E x \in T : \A y \in T : x <= y
  <1> DEFINE R == {ss \in Nat \X Nat : ss[1] < ss[2]}
  <1>1. IsWellFoundedOn(R, Nat)
    <2>1. R = OpToRel(<, Nat)
      BY DEF OpToRel
    <2> QED
      BY <2>1, NatLessThanWellFounded
  <1>2. \A x, y \in Nat : y < x => <<y, x>> \in R
    OBVIOUS
  <1> HIDE DEF R
  <1>3. PICK x \in T : \A y \in T : ~(<<y, x>> \in R)
    BY <1>1, WFMin
  <1>4. \A y \in T : ~(y < x)
    BY <1>2, <1>3
  <1> QED
    BY <1>4

\* The first m values of a sequence of natural numbers have a bound, for every
\* m up to its length: there is no least m for which they have not.
LEMMA ValuesAreBounded ==
    ASSUME NEW N \in Nat, NEW f \in [1..N -> Nat]
    PROVE  \E b \in Nat : \A i \in 1..N : f[i] <= b
  <1> DEFINE Bounded(m) == \E b \in Nat : \A i \in 1..m : f[i] <= b
             Bad == {m \in Nat : m <= N /\ ~Bounded(m)}
  <1> SUFFICES ASSUME Bad # {} PROVE FALSE
    <2>1. N \in Bad \/ Bounded(N)
      OBVIOUS
    <2> QED
      BY <2>1
  <1> HIDE DEF Bad
  <1>1. PICK m \in Bad : \A k \in Bad : m <= k
    <2>1. Bad \in SUBSET Nat
      BY DEF Bad
    <2> QED
      BY <2>1, LeastNatural
  <1>2. m \in Nat /\ m <= N /\ ~Bounded(m)
    BY <1>1 DEF Bad
  <1>3. m # 0
    BY <1>2
  <1>4. m - 1 \in Nat /\ m - 1 \notin Bad
    BY <1>1, <1>2, <1>3
  <1>5. PICK b \in Nat : \A i \in 1..(m - 1) : f[i] <= b
    BY <1>2, <1>4 DEF Bad
  <1>6. f[m] \in Nat
    BY <1>2, <1>3
  <1>7. ASSUME NEW i \in 1..m PROVE f[i] <= b + f[m]
    <2>1. CASE i = m
      BY <1>5, <1>6, <2>1
    <2>2. CASE i # m
      <3>1. i \in 1..(m - 1) /\ f[i] \in Nat
        BY <1>2, <2>2
      <3> QED
        BY <1>5, <1>6, <3>1
    <2> QED
      BY <2>1, <2>2
  <1>8. b + f[m] \in Nat
    BY <1>5, <1>6
  <1>9. Bounded(m)
    BY <1>7, <1>8
  <1> QED
    BY <1>2, <1>9

\* A bounded set of natural numbers has a greatest element.
LEMMA GreatestNatural ==
    ASSUME NEW T \in SUBSET Nat, T # {}, NEW n \in Nat, \A x \in T : x <= n
    PROVE  \E x \in T : \A y \in T : y <= x
  <1> DEFINE U == {u \in Nat : n - u \in T}
  <1>1. PICK t \in T : TRUE
    OBVIOUS
  <1>2. n - t \in U
    <2>1. t \in Nat /\ t <= n
      BY <1>1
    <2>2. n - t \in Nat /\ n - (n - t) = t
      BY <2>1
    <2> QED
      BY <1>1, <2>2
  <1>3. PICK u \in U : \A v \in U : u <= v
    <2> HIDE DEF U
    <2>1. U \in SUBSET Nat
      BY DEF U
    <2> QED
      BY <1>2, <2>1, LeastNatural
  <1>4. ASSUME NEW y \in T PROVE y <= n - u
    <2>1. n - y \in Nat /\ n - (n - y) = y
      OBVIOUS
    <2>2. n - y \in U
      BY <2>1
    <2>3. u <= n - y /\ u \in Nat
      BY <1>3, <2>2
    <2> QED
      BY <2>3
  <1>5. n - u \in T
    BY <1>3
  <1> QED
    BY <1>4, <1>5

\* The processors are numbered from 1, and there is one.
LEMMA ProcessorTypes ==
    /\ Len(Processors) \in Nat \ {0}
    /\ DOMAIN Processors = 1..Len(Processors)
    /\ \A p \in DOMAIN Processors : Processors[p].length \in Nat /\ Processors[p].space \in Nat
  <1> DEFINE Processor == [space : Nat, length : Nat]
  <1>1. Processors \in Seq(Processor) /\ Processors # << >>
    BY PipelineAssumption
  <1> HIDE DEF Processor
  <1>2. /\ Len(Processors) \in Nat /\ DOMAIN Processors = 1..Len(Processors)
        /\ \A p \in DOMAIN Processors : Processors[p] \in Processor
    BY <1>1
  <1>3. Len(Processors) # 0
    BY <1>1
  <1> QED
    BY <1>2, <1>3 DEF Processor

\* The numbers the lengths are computed from.
LEMMA NumberTypes ==
    /\ TicksPerSecond \in Nat \ {0} /\ Granularity \in Nat \ {0}
    /\ MaxBacklog \in Nat /\ MaxBuffered \in Nat
    /\ \A rate \in Rates \cup {NoRate} : rate \in Nat
  BY PipelineAssumption DEF NoRate

\* The longest frame is as long as the granularity and as every processor's.
LEMMA LongestFrame ==
    /\ MaxFrameLength \in Nat
    /\ Granularity <= MaxFrameLength
    /\ \A p \in DOMAIN Processors : Processors[p].length <= MaxFrameLength
  <1> DEFINE lengths == {Granularity} \cup {Processors[p].length : p \in DOMAIN Processors}
             f == [p \in 1..Len(Processors) |-> Processors[p].length]
  <1>1. /\ Len(Processors) \in Nat /\ DOMAIN Processors = 1..Len(Processors)
        /\ \A p \in DOMAIN Processors : Processors[p].length \in Nat
        /\ Granularity \in Nat
    BY ProcessorTypes, PipelineAssumption
  <1>2. PICK b \in Nat : \A p \in DOMAIN Processors : Processors[p].length <= b
    <2>1. f \in [1..Len(Processors) -> Nat]
      BY <1>1
    <2>2. \E b \in Nat : \A i \in 1..Len(Processors) : f[i] <= b
      BY <1>1, <2>1, ValuesAreBounded
    <2> QED
      BY <1>1, <2>2
  <1>3. lengths \in SUBSET Nat /\ lengths # {}
    BY <1>1
  <1>4. b + Granularity \in Nat /\ \A x \in lengths : x <= b + Granularity
    BY <1>1, <1>2
  <1>5. \E x \in lengths : \A y \in lengths : y <= x
    BY <1>3, <1>4, GreatestNatural
  <1>6. MaxFrameLength \in lengths /\ \A y \in lengths : y <= MaxFrameLength
    BY <1>5 DEF MaxFrameLength
  <1>7. Granularity \in lengths /\ \A p \in DOMAIN Processors : Processors[p].length \in lengths
    OBVIOUS
  <1> HIDE DEF lengths
  <1> QED
    BY <1>3, <1>6, <1>7

\* Products and quotients of natural numbers are monotonic.
LEMMA TimesMonotonic == \A a, b, c \in Nat : a <= b => a * c <= b * c
  OBVIOUS

LEMMA DivMonotonic == \A a, b \in Nat, t \in Nat \ {0} : a <= b => a \div t <= b \div t
  OBVIOUS

\* std::round exceeds the truncation by one at most, and not at all when there
\* is nothing to round.
LEMMA RoundedQuotient ==
    \A a \in Nat, t \in Nat \ {0} :
        (2 * a + t) \div (2 * t) <= (a \div t) + (IF a % t = 0 THEN 0 ELSE 1)
  OBVIOUS

\* Durations become whole numbers of samples, and a longer one not fewer.
LEMMA SampleTypes ==
    \A a, rate \in Nat : Truncated(a, rate) \in Nat /\ Rounded(a, rate) \in Nat
  <1> SUFFICES ASSUME NEW a \in Nat, NEW rate \in Nat
               PROVE  Truncated(a, rate) \in Nat /\ Rounded(a, rate) \in Nat
    OBVIOUS
  <1>1. a * rate \in Nat /\ 2 * a * rate \in Nat
    OBVIOUS
  <1> QED
    BY <1>1, NumberTypes DEF Truncated, Rounded

LEMMA TruncatedMonotonic ==
    ASSUME NEW a \in Nat, NEW b \in Nat, NEW rate \in Nat, a <= b
    PROVE  Truncated(a, rate) <= Truncated(b, rate)
  <1>1. a * rate \in Nat /\ b * rate \in Nat /\ a * rate <= b * rate
    BY TimesMonotonic
  <1>2. TicksPerSecond \in Nat \ {0}
    BY PipelineAssumption
  <1> QED
    BY <1>1, <1>2, DivMonotonic DEF Truncated

\* A rounded frame fits the truncated window, but for the one sample.
LEMMA RoundedFits ==
    ASSUME NEW a \in Nat, NEW b \in Nat, NEW rate \in Nat, a <= b
    PROVE  Rounded(a, rate) <=
             Truncated(b, rate) + (IF (a * rate) % TicksPerSecond = 0 THEN 0 ELSE 1)
  <1> DEFINE n == a * rate
  <1>1. n \in Nat /\ TicksPerSecond \in Nat \ {0}
    BY PipelineAssumption
  <1>2. Rounded(a, rate) = (2 * n + TicksPerSecond) \div (2 * TicksPerSecond)
    BY PipelineAssumption DEF Rounded
  <1> HIDE DEF n
  <1>3. Rounded(a, rate) <= (n \div TicksPerSecond) + (IF n % TicksPerSecond = 0 THEN 0 ELSE 1)
    BY <1>1, <1>2, RoundedQuotient
  <1>4. Rounded(a, rate) \in Nat /\ Truncated(b, rate) \in Nat
    BY SampleTypes
  <1>5. n \div TicksPerSecond = Truncated(a, rate) /\ Truncated(a, rate) \in Nat
    BY SampleTypes DEF Truncated, n
  <1>6. Truncated(a, rate) <= Truncated(b, rate)
    BY TruncatedMonotonic
  <1> QED
    BY <1>3, <1>4, <1>5, <1>6 DEF n
-----------------------------------------------------------------------------
\* A new pipeline has nothing in its buffers and nothing sized.
LEMMA WindowInitInv == Init => WindowInv
  <1> SUFFICES ASSUME Init PROVE WindowInv
    OBVIOUS
  <1>1. NoRate \in Nat /\ Nothing \in Sized /\ Nothing.size = 0 /\ Nothing.rate = 0
    BY DEF Nothing, Sized, NoRate
  <1>2. TypeOK
    <2>1. /\ mThreadRunning \in BOOLEAN /\ mStopThread \in BOOLEAN /\ joinable \in BOOLEAN
          /\ sCancel \in BOOLEAN
      BY Zenon DEF Init
    <2>2. 0 \in 0..MaxBacklog /\ 0 \in 0..MaxBuffered /\ InitialBlock \in Nat
      BY PipelineAssumption
    <2>3. since \in [DOMAIN Processors -> Nat] /\ turn \in DOMAIN Processors
      BY ProcessorTypes DEF Init
    <2> QED
      BY <1>1, <2>1, <2>2, <2>3 DEF Init, TypeOK
  <1>3. RoomInv
    BY DEF Init, RoomInv
  <1>4. SizesInv
    <2>1. \A ticks \in Nat : Truncated(ticks, 0) = 0
      BY PipelineAssumption DEF Truncated
    <2> QED
      BY <1>1, <2>1, LongestFrame, PipelineAssumption DEF Init, SizesInv
  <1>5. PaceInv
    BY ProcessorTypes, PipelineAssumption, SMTT(60) DEF Init, PaceInv
  <1> QED
    BY <1>2, <1>3, <1>4, <1>5 DEF WindowInv

\* The steps around the pipeline size nothing and leave mBuffer alone.
LEMMA WindowEnvironment == WindowInv /\ Environment => WindowInv'
  <1> SUFFICES ASSUME WindowInv, Environment PROVE WindowInv'
    OBVIOUS
  <1>1. UNCHANGED <<buffered, analysisVars, threadVars, processingVars, dtor>>
    BY DEF Environment, Capture, SetSampleRate, CancelPulls, bufferVars
  <1>2. RoomInv' /\ SizesInv' /\ PaceInv'
    BY <1>1 DEF WindowInv, RoomInv, SizesInv, PaceInv, analysisVars, processingVars
  <1>3. backlog' \in 0..MaxBacklog /\ captureRate' \in Rates /\ sCancel' \in BOOLEAN
    <2>1. ASSUME NEW n \in CaptureLengths, Capture(n)
          PROVE  backlog' \in 0..MaxBacklog /\ captureRate' \in Rates /\ sCancel' \in BOOLEAN
      <3>1. n \in Nat /\ MaxBacklog \in Nat /\ backlog \in Nat /\ backlog + n <= MaxBacklog
        BY <2>1, PipelineAssumption DEF Capture, WindowInv, TypeOK
      <3>2. PICK k \in 0..n : backlog' = backlog + k
        BY <2>1 DEF Capture
      <3>3. backlog' \in 0..MaxBacklog
        BY <3>1, <3>2
      <3> QED
        BY <2>1, <3>3 DEF Capture, WindowInv, TypeOK
    <2>2. ASSUME NEW rate \in Rates, SetSampleRate(rate)
          PROVE  backlog' \in 0..MaxBacklog /\ captureRate' \in Rates /\ sCancel' \in BOOLEAN
      BY <2>2 DEF SetSampleRate, WindowInv, TypeOK
    <2>3. CASE CancelPulls
      BY <2>3 DEF CancelPulls, bufferVars, WindowInv, TypeOK
    <2> QED
      BY <2>1, <2>2, <2>3 DEF Environment
  <1>4. TypeOK'
    BY <1>1, <1>3 DEF WindowInv, TypeOK, analysisVars, threadVars, processingVars
  <1> QED
    BY <1>2, <1>4 DEF WindowInv

\* The analysis thread sizes nothing either; its block goes where room was
\* found for it, since mBuffer only empties in the meantime.
LEMMA WindowAnalysis ==
    PipelineInv /\ WindowInv /\ (ProcessAll \/ AnalysisStep \/ AnalysisEnds) => WindowInv'
  <1> SUFFICES ASSUME PipelineInv, WindowInv, ProcessAll \/ AnalysisStep \/ AnalysisEnds
               PROVE  WindowInv'
    OBVIOUS
  <1>1. blockSize \in Nat /\ blockSize' \in Nat
    <2>1. PipelineInv'
      BY AnalysisKeeps
    <2>2. LowBlock - Step \in Nat /\ InitialBlock \in Nat
      BY PipelineAssumption
    <2> QED
      BY <2>1, <2>2 DEF PipelineInv, BlockSizeInRange
  <1>2. UNCHANGED <<block, window, frame, turn, since, mStopThread, sCancel, dtor, captureRate>>
    BY DEF ProcessAll, AnalysisStep, AnalysisEnds, PullCaptured, PushBuffered, SpawnOnce,
       AdjustBlock, bufferVars, threadVars, processingVars
  <1>3. processing' = processing \/ (processing' = "check" /\ processing # "process")
    <2>1. CASE SpawnOnce
      BY <2>1 DEF SpawnOnce, PipelineInv, ThreadInv, WindowInv, TypeOK
    <2> QED
      BY <2>1 DEF ProcessAll, AnalysisStep, AnalysisEnds, PullCaptured, PushBuffered,
         AdjustBlock, processingVars
  <1>4. SizesInv' /\ PaceInv'
    BY <1>2, <1>3 DEF WindowInv, SizesInv, PaceInv
  <1> DEFINE Rest == /\ backlog' \in 0..MaxBacklog /\ buffered' \in 0..MaxBuffered
                     /\ lastBufferLength' \in 0..MaxBacklog
                     /\ analysis' \in {"idle", "pull", "push", "spawn", "adjust", "ended"}
                     /\ fs' \in Rates \cup {NoRate} /\ mSampleRate' \in Rates \cup {NoRate}
                     /\ mThreadRunning' \in BOOLEAN /\ joinable' \in BOOLEAN
                     /\ RoomInv'
  <1>5. Rest
    <2> USE <1>1, PipelineAssumption DEF WindowInv, TypeOK, RoomInv, bufferVars, threadVars
    <2>1. CASE ProcessAll
      BY <2>1 DEF ProcessAll
    <2>2. CASE PullCaptured
      <3>1. PICK n \in 0..Least(backlog, blockSize) : backlog' = backlog - n
        BY <2>2 DEF PullCaptured
      <3>2. backlog' \in 0..MaxBacklog
        BY <3>1, SMTT(60) DEF Least
      <3> QED
        BY <2>2, <3>2 DEF PullCaptured
    <2>3. CASE PushBuffered
      <3>1. PICK k \in 0..blockSize : buffered' = buffered + k
        BY <2>3 DEF PushBuffered
      <3>2. buffered' \in 0..MaxBuffered
        BY <2>3, <3>1 DEF PushBuffered
      <3> QED
        BY <2>3, <3>2 DEF PushBuffered
    <2>4. CASE SpawnOnce
      BY <2>4 DEF SpawnOnce
    <2>5. CASE AdjustBlock
      BY <2>5 DEF AdjustBlock
    <2>6. CASE AnalysisEnds
      BY <2>6 DEF AnalysisEnds
    <2> QED
      BY <2>1, <2>2, <2>3, <2>4, <2>5, <2>6 DEF AnalysisStep
  <1>6. TypeOK'
    BY <1>1, <1>2, <1>3, <1>5 DEF WindowInv, TypeOK
  <1> QED
    BY <1>4, <1>5, <1>6 DEF WindowInv

\* The processing thread sizes the block, the window and the frames with the
\* rate of the moment, and lets no processor pass its spacing.
LEMMA WindowProcessing == PipelineInv /\ WindowInv /\ ProcessingStep => WindowInv'
  <1> SUFFICES ASSUME PipelineInv, WindowInv, ProcessingStep PROVE WindowInv'
    OBVIOUS
  <1>1. UNCHANGED <<backlog, captureRate, analysisVars, threadVars, sCancel, dtor>>
    BY DEF ProcessingStep, LoopTest, PullBlock, SlideWindow, ProcessTurn, bufferVars
  <1>2. \A rate \in Rates \cup {NoRate} : rate \in Nat
    BY PipelineAssumption DEF NoRate
  <1>3. mSampleRate \in Rates \cup {NoRate} /\ mSampleRate \in Nat
    BY <1>2 DEF WindowInv, TypeOK
  <1>4. CASE LoopTest
    <2>1. block' \in Sized /\ block'.size = Truncated(Granularity, block'.rate)
      <3>1. Truncated(Granularity, mSampleRate) \in Nat
        BY <1>3, SampleTypes, NumberTypes
      <3> QED
        BY <1>3, <1>4, <3>1 DEF LoopTest, WindowInv, TypeOK, SizesInv, Sized
    <2>2. TypeOK'
      BY <1>1, <1>4, <2>1
      DEF LoopTest, WindowInv, TypeOK, bufferVars, analysisVars, threadVars
    <2>3. RoomInv' /\ SizesInv' /\ PaceInv'
      BY <1>1, <1>4, <2>1
      DEF LoopTest, WindowInv, RoomInv, SizesInv, PaceInv, bufferVars, analysisVars
    <2> QED
      BY <2>2, <2>3 DEF WindowInv
  <1>5. CASE PullBlock
    <2>1. PICK n \in 0..Least(buffered, block.size) : buffered' = buffered - n
      BY <1>5 DEF PullBlock
    <2>2. buffered' \in 0..MaxBuffered /\ buffered' <= buffered
      <3>1. buffered \in 0..MaxBuffered /\ block.size \in Nat
        BY DEF WindowInv, TypeOK, Sized
      <3> QED
        BY <2>1, <3>1, NumberTypes DEF Least
    <2>3. TypeOK' /\ RoomInv'
      <3>1. /\ processing' = "window"
            /\ UNCHANGED <<backlog, captureRate, analysis, fs, blockSize, lastBufferLength,
                           mSampleRate, mThreadRunning, mStopThread, joinable, sCancel, block,
                           window, frame, turn, since, dtor>>
        BY <1>1, <1>5 DEF PullBlock, analysisVars, threadVars
      <3>2. TypeOK'
        BY <2>2, <3>1 DEF WindowInv, TypeOK
      <3>3. buffered \in Nat /\ buffered' \in Nat /\ blockSize \in Nat /\ MaxBuffered \in Nat
        BY <2>2, NumberTypes DEF WindowInv, TypeOK
      <3>4. analysis \in {"pull", "push"} => buffered + blockSize <= MaxBuffered
        BY DEF WindowInv, RoomInv
      <3>5. buffered + blockSize <= MaxBuffered => buffered' + blockSize <= MaxBuffered
        <4>1. \A x, y, z, m \in Nat : y <= x /\ x + z <= m => y + z <= m
          OBVIOUS
        <4> QED
          BY <2>2, <3>3, <4>1
      <3>6. RoomInv'
        BY <3>1, <3>4, <3>5 DEF RoomInv
      <3> QED
        BY <3>2, <3>6
    <2>4. SizesInv' /\ PaceInv'
      BY <1>5 DEF PullBlock, WindowInv, SizesInv, PaceInv
    <2> QED
      BY <2>3, <2>4 DEF WindowInv
  <1>6. CASE SlideWindow
    <2>1. /\ window' \in Sized /\ window'.size = Truncated(MaxFrameLength, window'.rate)
          /\ frame' \in Sized /\ frame'.size = 0
      <3>1. Truncated(MaxFrameLength, mSampleRate) \in Nat
        BY <1>3, SampleTypes, LongestFrame
      <3> QED
        BY <1>3, <1>6, <3>1 DEF SlideWindow, Sized, Nothing, NoRate
    <2>2. TypeOK'
      BY <1>1, <1>6, <2>1, ProcessorTypes
      DEF SlideWindow, WindowInv, TypeOK, bufferVars, analysisVars, threadVars
    <2>3. RoomInv' /\ SizesInv'
      BY <1>1, <1>6, <2>1
      DEF SlideWindow, WindowInv, RoomInv, SizesInv, bufferVars, analysisVars
    <2>4. PaceInv'
      BY <1>6, ProcessorTypes DEF SlideWindow, WindowInv, PaceInv
    <2> QED
      BY <2>2, <2>3, <2>4 DEF WindowInv
  <1>7. CASE ProcessTurn
    <2>0. PICK can \in CanProcess(turn) :
            LET last == turn = Len(Processors)
                noted == IF can THEN [since EXCEPT ![turn] = 0] ELSE since
            IN  /\ frame' = IF can THEN [size |-> Rounded(Processors[turn].length, mSampleRate),
                                         rate |-> mSampleRate]
                            ELSE frame
                /\ since' = IF last THEN [q \in DOMAIN since |-> noted[q] + Granularity] ELSE noted
                /\ turn' = IF last THEN 1 ELSE turn + 1
                /\ processing' = IF last THEN "check" ELSE "process"
      BY <1>7 DEF ProcessTurn
    <2> DEFINE noted == IF can THEN [since EXCEPT ![turn] = 0] ELSE since
    <2>1. turn \in DOMAIN Processors /\ since \in [DOMAIN Processors -> Nat]
      BY DEF WindowInv, TypeOK
    <2>2. noted \in [DOMAIN Processors -> Nat]
      BY <2>1
    <2>3. frame' \in Sized /\ (frame' = frame \/ \E p \in DOMAIN Processors :
                                 frame'.size = Rounded(Processors[p].length, frame'.rate))
      <3>1. Rounded(Processors[turn].length, mSampleRate) \in Nat
        BY <1>3, <2>1, SampleTypes, ProcessorTypes
      <3> QED
        BY <1>3, <2>0, <2>1, <3>1 DEF WindowInv, TypeOK, Sized
    <2>4. \A p \in DOMAIN Processors : p <= turn => noted[p] <= Processors[p].space
      <3>1. processing = "process" /\ turn \in Nat
        BY <1>7, <2>1, ProcessorTypes DEF ProcessTurn
      <3>2. noted[turn] <= Processors[turn].space
        <4>1. Processors[turn].space \in Nat /\ since[turn] \in Nat
          BY <2>1, ProcessorTypes
        <4>2. CASE can
          BY <2>1, <4>1, <4>2
        <4>3. CASE ~can
          <5>1. ASSUME since[turn] > Processors[turn].space PROVE FALSE
            <6>1. /\ since[turn] >= Processors[turn].space
                  /\ ~(since[turn] = Processors[turn].space)
              BY <4>1, <5>1
            <6>2. CanProcess(turn) = {since[turn] >= Processors[turn].space}
              BY <6>1, Zenon DEF CanProcess, Reached
            <6>3. can = (since[turn] >= Processors[turn].space)
              BY <2>0, <6>2, Zenon
            <6> QED
              BY <4>3, <6>1, <6>3, Zenon
          <5>2. noted[turn] = since[turn]
            BY <4>3
          <5> QED
            BY <4>1, <5>1, <5>2
        <4> QED
          BY <4>2, <4>3
      <3>3. ASSUME NEW p \in DOMAIN Processors, p < turn PROVE noted[p] <= Processors[p].space
        <4>1. noted[p] = since[p] /\ p \in Nat /\ Processors[p].space \in Nat
          BY <2>1, <3>1, <3>3, ProcessorTypes
        <4>2. since[p] <= Processors[p].space + 0
          BY <3>1, <3>3 DEF WindowInv, PaceInv
        <4> QED
          BY <4>1, <4>2
      <3>4. \A p \in DOMAIN Processors : p <= turn => p < turn \/ p = turn
        BY <3>1, ProcessorTypes
      <3> QED
        BY <3>2, <3>3, <3>4
    <2>5. \A p \in DOMAIN Processors : p > turn => noted[p] = since[p]
      BY <2>1, ProcessorTypes
    <2> HIDE DEF noted
    <2>6. CASE turn = Len(Processors)
      <3>1. /\ since' = [q \in DOMAIN Processors |-> noted[q] + Granularity]
            /\ turn' = 1 /\ processing' = "check"
        BY <2>0, <2>1, <2>6 DEF noted
      <3>2. since' \in [DOMAIN Processors -> Nat] /\ turn' \in DOMAIN Processors
        BY <2>2, <3>1, ProcessorTypes, PipelineAssumption, SMTT(60)
      <3>3. PaceInv'
        <4> SUFFICES ASSUME NEW p \in DOMAIN Processors
                     PROVE  since'[p] <= Processors[p].space + Granularity
          BY <3>1 DEF PaceInv
        <4>1. noted[p] <= Processors[p].space
          BY <2>4, <2>6, ProcessorTypes
        <4>2. since'[p] = noted[p] + Granularity /\ noted[p] \in Nat
          BY <2>2, <3>1
        <4> QED
          BY <4>1, <4>2, ProcessorTypes, NumberTypes
      <3>4. TypeOK'
        BY <1>1, <1>7, <2>3, <3>1, <3>2
        DEF ProcessTurn, WindowInv, TypeOK, bufferVars, analysisVars, threadVars
      <3>5. RoomInv' /\ SizesInv'
        BY <1>1, <1>7, <2>3
        DEF ProcessTurn, WindowInv, RoomInv, SizesInv, bufferVars, analysisVars
      <3> QED
        BY <3>3, <3>4, <3>5 DEF WindowInv
    <2>7. CASE turn # Len(Processors)
      <3>1. since' = noted /\ turn' = turn + 1 /\ processing' = "process"
        BY <2>0, <2>7 DEF noted
      <3>2. turn' \in DOMAIN Processors
        BY <2>1, <2>7, <3>1, ProcessorTypes
      <3>3. PaceInv'
        <4> SUFFICES ASSUME NEW p \in DOMAIN Processors
                     PROVE  noted[p] <= Processors[p].space +
                              (IF p < turn + 1 THEN 0 ELSE Granularity)
          BY <3>1 DEF PaceInv
        <4>1. p \in Nat /\ turn \in Nat /\ Processors[p].space \in Nat /\ noted[p] \in Nat
          BY <2>1, <2>2, ProcessorTypes
        <4>2. CASE p <= turn
          BY <2>4, <4>1, <4>2
        <4>3. CASE p > turn
          <5>1. since[p] <= Processors[p].space + Granularity
            BY <4>1, <4>3 DEF WindowInv, PaceInv
          <5> QED
            BY <2>5, <4>1, <4>3, <5>1
        <4> QED
          BY <4>1, <4>2, <4>3
      <3>4. TypeOK'
        BY <1>1, <1>7, <2>2, <2>3, <3>1, <3>2
        DEF ProcessTurn, WindowInv, TypeOK, bufferVars, analysisVars, threadVars
      <3>5. RoomInv' /\ SizesInv'
        BY <1>1, <1>7, <2>3
        DEF ProcessTurn, WindowInv, RoomInv, SizesInv, bufferVars, analysisVars
      <3> QED
        BY <3>3, <3>4, <3>5 DEF WindowInv
    <2> QED
      BY <2>6, <2>7
  <1> QED
    BY <1>4, <1>5, <1>6, <1>7 DEF ProcessingStep

\* The destructor touches neither.
LEMMA WindowDestructor == WindowInv /\ (Destroy \/ DestructorStep) => WindowInv'
  <1> SUFFICES ASSUME WindowInv, Destroy \/ DestructorStep PROVE WindowInv'
    OBVIOUS
  <1>1. UNCHANGED <<bufferVars, analysisVars, processingVars>>
    BY DEF Destroy, DestructorStep, DestroyStop, DestroyCancel, DestroyJoin
  <1>2. /\ mThreadRunning' \in BOOLEAN /\ mStopThread' \in BOOLEAN /\ joinable' \in BOOLEAN
        /\ sCancel' \in BOOLEAN
    BY Zenon
    DEF Destroy, DestructorStep, DestroyStop, DestroyCancel, DestroyJoin, threadVars, WindowInv, TypeOK
  <1>3. dtor' \in {"no", "stop", "cancel", "join", "done"}
    BY DEF Destroy, DestructorStep, DestroyStop, DestroyCancel, DestroyJoin
  <1> QED
    BY <1>1, <1>2, <1>3
    DEF WindowInv, TypeOK, RoomInv, SizesInv, PaceInv, bufferVars, analysisVars, processingVars

\* Every step keeps the invariant.
LEMMA WindowNextInv == PipelineInv /\ WindowInv /\ [Next]_vars => WindowInv'
  <1> SUFFICES ASSUME PipelineInv, WindowInv, [Next]_vars PROVE WindowInv'
    OBVIOUS
  <1>1. CASE UNCHANGED vars
    BY <1>1
    DEF vars, bufferVars, analysisVars, threadVars, processingVars, WindowInv, TypeOK, RoomInv,
        SizesInv, PaceInv
  <1>2. CASE Next
    BY <1>1, <1>2, WindowEnvironment, WindowAnalysis, WindowProcessing, WindowDestructor
    DEF Next, Terminated
  <1> QED
    BY <1>1, <1>2

\* What was sized fits: the window is sized for the longest frame.
LEMMA SizesFit == WindowInv => WindowHolds
  <1> SUFFICES ASSUME WindowInv PROVE WindowHolds
    OBVIOUS
  <1>1. block.rate \in Nat /\ window.rate \in Nat /\ window.size \in Nat
    <2>1. block \in Sized /\ window \in Sized
      BY DEF WindowInv, TypeOK
    <2> QED
      BY <2>1, NumberTypes DEF Sized
  <1>2. block.rate = window.rate => block.size <= window.size
    <2>1. Truncated(Granularity, window.rate) <= Truncated(MaxFrameLength, window.rate)
      BY <1>1, LongestFrame, TruncatedMonotonic, NumberTypes
    <2> QED
      BY <2>1 DEF WindowInv, SizesInv
  <1>3. ASSUME frame.rate = window.rate
        PROVE  frame.size <= window.size + IF WholeFrames(window.rate) THEN 0 ELSE 1
    <2>1. CASE frame.size = 0
      BY <1>1, <2>1
    <2>2. ASSUME NEW p \in DOMAIN Processors,
                 frame.size = Rounded(Processors[p].length, frame.rate)
          PROVE  frame.size <= window.size + IF WholeFrames(window.rate) THEN 0 ELSE 1
      <3>1. Processors[p].length \in Nat /\ Processors[p].length <= MaxFrameLength
        BY LongestFrame, ProcessorTypes
      <3>2. /\ frame.size \in Nat
            /\ frame.size <= window.size +
                 (IF (Processors[p].length * window.rate) % TicksPerSecond = 0 THEN 0 ELSE 1)
        <4>1. frame.size \in Nat
          BY <1>1, <1>3, <2>2, <3>1, SampleTypes
        <4>2. Rounded(Processors[p].length, window.rate) <=
                Truncated(MaxFrameLength, window.rate) +
                  (IF (Processors[p].length * window.rate) % TicksPerSecond = 0 THEN 0 ELSE 1)
          BY <1>1, <3>1, LongestFrame, RoundedFits
        <4> QED
          BY <1>3, <2>2, <4>1, <4>2 DEF WindowInv, SizesInv
      <3> QED
        BY <1>1, <3>2 DEF WholeFrames
    <2> QED
      BY <2>1, <2>2 DEF WindowInv, SizesInv
  <1> QED
    BY <1>2, <1>3 DEF WindowHolds

\* The sizes of the block, the window and the frames, and the pace of the
\* processors, in every behaviour of the pipeline.
THEOREM WindowInvariance == Spec => []WindowInv
  <1>1. Init => PipelineInv /\ WindowInv
    BY PipelineInitInv, WindowInitInv
  <1>2. PipelineInv /\ WindowInv /\ [Next]_vars => (PipelineInv /\ WindowInv)'
    BY PipelineNextInv, WindowNextInv
  <1> QED
    BY <1>1, <1>2, PTL DEF Spec

\* std::rotate and std::copy stay inside the sliding window, for any rates,
\* frame lengths and granularity, and both buffers within their bounds.
THEOREM WindowIsSound == Spec => []WindowSound
  <1>1. WindowInv => WindowSound
    BY SizesFit DEF WindowInv, WindowSound
  <1> QED
    BY <1>1, WindowInvariance, PTL

\* No processor falls behind by more than a granularity, whatever its spacing and
\* however the times are rounded when they are equal to it.
THEOREM CadenceIsKept == Spec => []Cadence
  <1>1. WindowInv => Cadence
    BY DEF WindowInv, PaceInv, Cadence
  <1> QED
    BY <1>1, WindowInvariance, PTL
=============================================================================
