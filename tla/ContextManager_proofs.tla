------------------------- MODULE ContextManager_proofs -------------------------
(***************************************************************************)
(* The safety properties of ContextManager.  None of them is inductive:    *)
(* they follow from LifeInv, which says of every place of the main thread  *)
(* which threads run there, which flags they read, which members are gone  *)
(* and how the clock stands.                                                *)
(***************************************************************************)
EXTENDS ContextManager, TLAPS

\* The places of the main thread from the end of a join to the end of exec().
AfterSynthesis == {"destroy", "joinProcessing", "done"}
AfterDatavis == AfterSynthesis \cup {"stopSynthesis", "joinSynthesis"}
AfterAnalysis == AfterDatavis \cup {"joinDatavis"}

\* The places at which a thread was not started yet.
BeforeAnalysis == {"open", "aborted", "startAnalysis"}
BeforeDatavis == BeforeAnalysis \cup {"startDatavis"}
BeforeSynthesis == BeforeDatavis \cup {"startSynthesis"}

\* A thread exists from its start to its join, and not outside.
ThreadsInv ==
    /\ main \in BeforeAnalysis => analysis = "none"
    /\ main \in BeforeDatavis => datavis = "none"
    /\ main \in BeforeSynthesis => synthesis = "none"
    /\ main \in AfterAnalysis => analysis = "exited"
    /\ main \in AfterDatavis => datavis = "exited"
    /\ main \in AfterSynthesis => synthesis = "exited"

\* What the destructors have taken away: the audio streams first, and the
\* processing thread with the pipeline, the fifth member.
DestroyedInv ==
    /\ destroyed # 0 => main \in AfterSynthesis
    /\ main = "joinProcessing" => destroyed = 4
    /\ destroyed >= 1 => capture = "closed" /\ playback = "closed"
    /\ destroyed >= 5 => processing # "running"

\* The flags that the loops read are set from the start of the thread until
\* the main thread clears them.
FlagsInv ==
    /\ main \in MainPlaces \ (BeforeAnalysis \cup AfterAnalysis \cup {"joinAnalysis"})
         => mAnalysisRunning
    /\ main \in MainPlaces \ (BeforeSynthesis \cup AfterSynthesis \cup {"joinSynthesis"})
         => mSynthesisRunning

\* processAll has started the clock.
Started == ~firstCall \/ analysis = "pull"

\* The clock is switched by the first processAll and by the handler of
\* pausedChanged, of which the later one has its way.
ClockInv ==
    /\ main \in BeforeSynthesis => ~mPaused
    /\ main \in {"stopCapture", "stopClock"} => mPaused
    /\ main \in {"startCapture", "startClock"} => ~mPaused
    /\ begunPaused => Started
    /\ main \in BeforeSynthesis \cup {"gui"} /\ Started => (clock <=> ~mPaused \/ begunPaused)

LifeInv ==
    TypeOK /\ ThreadsInv /\ DestroyedInv /\ FlagsInv /\ ClockInv

\* Ten members, the pipeline fifth.
LEMMA DestroyLength ==
    /\ Len(DestroyOrder) = 10
    /\ DestroyOrder[1] = "mAudioContext"
    /\ DestroyOrder[5] = "mPipeline"
    /\ \A i \in 1..10 : DestroyOrder[i] = "mAudioContext" => i = 1
    /\ \A i \in 1..10 : DestroyOrder[i] = "mPipeline" => i = 5
  BY DEF DestroyOrder

\* exec() up to the event loop keeps the invariant.
LEMMA StartingInv == LifeInv /\ (OpenAndStartAudioStreams \/ OpenFails \/ StartAnalysisThread \/ StartDatavisThread
                        \/ StartSynthesisThread) => LifeInv'
  <1> USE DestroyLength DEF LifeInv, TypeOK, ThreadsInv, DestroyedInv, FlagsInv, ClockInv, Started,
     MainPlaces, BeforeAnalysis, BeforeDatavis, BeforeSynthesis, AfterAnalysis, AfterDatavis,
     AfterSynthesis, audioVars, clockVars, analysisVars, processingVars, flagVars
  <1>1. ASSUME LifeInv, OpenAndStartAudioStreams PROVE LifeInv'
    BY <1>1 DEF OpenAndStartAudioStreams
  <1>2. ASSUME LifeInv, OpenFails PROVE LifeInv'
    BY <1>2 DEF OpenFails
  <1>3. ASSUME LifeInv, StartAnalysisThread PROVE LifeInv'
    BY <1>3 DEF StartAnalysisThread
  <1>4. ASSUME LifeInv, StartDatavisThread PROVE LifeInv'
    BY <1>4 DEF StartDatavisThread
  <1>5. ASSUME LifeInv, StartSynthesisThread PROVE LifeInv'
    BY <1>5 DEF StartSynthesisThread
  <1> QED
    BY <1>1, <1>2, <1>3, <1>4, <1>5

\* So does the event loop, with the handler of pausedChanged.
LEMMA PausingInv == LifeInv /\ (SetPaused \/ StopCaptureStream \/ StartCaptureStream \/ StopRealTime
                        \/ StartRealTime \/ Quit) => LifeInv'
  <1> USE DestroyLength DEF LifeInv, TypeOK, ThreadsInv, DestroyedInv, FlagsInv, ClockInv, Started,
     MainPlaces, BeforeAnalysis, BeforeDatavis, BeforeSynthesis, AfterAnalysis, AfterDatavis,
     AfterSynthesis, audioVars, clockVars, analysisVars, processingVars, flagVars
  <1>1. ASSUME LifeInv, SetPaused PROVE LifeInv'
    <2>1. mPaused' \in BOOLEAN /\ (mPaused' <=> ~mPaused)
      BY <1>1, Zenon DEF SetPaused
    <2> QED
      BY <1>1, <2>1 DEF SetPaused
  <1>2. ASSUME LifeInv, StopCaptureStream PROVE LifeInv'
    BY <1>2 DEF StopCaptureStream
  <1>3. ASSUME LifeInv, StartCaptureStream PROVE LifeInv'
    BY <1>3 DEF StartCaptureStream
  <1>4. ASSUME LifeInv, StopRealTime PROVE LifeInv'
    <2>1. clock' \in BOOLEAN /\ ~clock' /\ begunPaused' \in BOOLEAN /\ ~begunPaused'
      BY <1>4, Zenon DEF StopRealTime
    <2> QED
      BY <1>4, <2>1 DEF StopRealTime
  <1>5. ASSUME LifeInv, StartRealTime PROVE LifeInv'
    <2>1. clock' \in BOOLEAN /\ clock' /\ begunPaused' \in BOOLEAN /\ ~begunPaused'
      BY <1>5, Zenon DEF StartRealTime
    <2> QED
      BY <1>5, <2>1 DEF StartRealTime
  <1>6. ASSUME LifeInv, Quit PROVE LifeInv'
    BY <1>6 DEF Quit
  <1> QED
    BY <1>1, <1>2, <1>3, <1>4, <1>5, <1>6

\* So do the loops of the threads.
LEMMA LoopsInv == LifeInv /\ (AnalysisLoop \/ ProcessAllReturns \/ DatavisStep \/ SynthesisStep
                        \/ ProcessingExits) => LifeInv'
  <1> USE DestroyLength DEF LifeInv, TypeOK, ThreadsInv, DestroyedInv, FlagsInv, ClockInv, Started,
     MainPlaces, BeforeAnalysis, BeforeDatavis, BeforeSynthesis, AfterAnalysis, AfterDatavis,
     AfterSynthesis, audioVars, clockVars, analysisVars, processingVars, flagVars
  <1>1. ASSUME LifeInv, AnalysisTest PROVE LifeInv'
    BY <1>1 DEF AnalysisTest
  <1>2. ASSUME LifeInv, ProcessAllBegins PROVE LifeInv'
    <2>1. clock' \in BOOLEAN /\ begunPaused' \in BOOLEAN
          /\ (clock' <=> clock \/ firstCall)
          /\ (begunPaused' <=> begunPaused \/ (firstCall /\ mPaused))
      BY <1>2, Zenon DEF ProcessAllBegins
    <2> QED
      BY <1>2, <2>1 DEF ProcessAllBegins
  <1>3. ASSUME LifeInv, PauseTest PROVE LifeInv'
    BY <1>3 DEF PauseTest
  <1>4. ASSUME LifeInv, ProcessAllReturns PROVE LifeInv'
    <2>1. firstCall' \in BOOLEAN /\ ~firstCall'
      BY <1>4, Zenon DEF ProcessAllReturns
    <2> QED
      BY <1>4, <2>1 DEF ProcessAllReturns
  <1>5. ASSUME LifeInv, DatavisTest PROVE LifeInv'
    BY <1>5 DEF DatavisTest
  <1>6. ASSUME LifeInv, DatavisBody PROVE LifeInv'
    BY <1>6 DEF DatavisBody
  <1>7. ASSUME LifeInv, SynthesisTest PROVE LifeInv'
    BY <1>7 DEF SynthesisTest
  <1>8. ASSUME LifeInv, SynthesisBody PROVE LifeInv'
    BY <1>8 DEF SynthesisBody
  <1>9. ASSUME LifeInv, ProcessingExits PROVE LifeInv'
    BY <1>9 DEF ProcessingExits
  <1> QED
    BY <1>1, <1>2, <1>3, <1>4, <1>5, <1>6, <1>7, <1>8, <1>9 DEF AnalysisLoop, DatavisStep, SynthesisStep

\* So do the stops and the joins.
LEMMA StoppingInv == LifeInv /\ (StopAnalysisCancel \/ StopAnalysisFlag \/ JoinAnalysis \/ JoinDatavis
                        \/ StopSynthesisFlag \/ JoinSynthesis) => LifeInv'
  <1> USE DestroyLength DEF LifeInv, TypeOK, ThreadsInv, DestroyedInv, FlagsInv, ClockInv, Started,
     MainPlaces, BeforeAnalysis, BeforeDatavis, BeforeSynthesis, AfterAnalysis, AfterDatavis,
     AfterSynthesis, audioVars, clockVars, analysisVars, processingVars, flagVars
  <1>1. ASSUME LifeInv, StopAnalysisCancel PROVE LifeInv'
    BY <1>1 DEF StopAnalysisCancel
  <1>2. ASSUME LifeInv, StopAnalysisFlag PROVE LifeInv'
    <2>1. mAnalysisRunning' \in BOOLEAN /\ ~mAnalysisRunning'
      BY <1>2, Zenon DEF StopAnalysisFlag
    <2> QED
      BY <1>2, <2>1 DEF StopAnalysisFlag
  <1>3. ASSUME LifeInv, JoinAnalysis PROVE LifeInv'
    BY <1>3 DEF JoinAnalysis
  <1>4. ASSUME LifeInv, JoinDatavis PROVE LifeInv'
    BY <1>4 DEF JoinDatavis
  <1>5. ASSUME LifeInv, StopSynthesisFlag PROVE LifeInv'
    <2>1. mSynthesisRunning' \in BOOLEAN /\ ~mSynthesisRunning'
      BY <1>5, Zenon DEF StopSynthesisFlag
    <2> QED
      BY <1>5, <2>1 DEF StopSynthesisFlag
  <1>6. ASSUME LifeInv, JoinSynthesis PROVE LifeInv'
    BY <1>6 DEF JoinSynthesis
  <1> QED
    BY <1>1, <1>2, <1>3, <1>4, <1>5, <1>6

\* So do the destructors.
LEMMA DestroyingInv == LifeInv /\ (DestroyMember \/ DestroyPipeline \/ JoinProcessing \/ Done) => LifeInv'
  <1> USE DestroyLength DEF LifeInv, TypeOK, ThreadsInv, DestroyedInv, FlagsInv, ClockInv, Started,
     MainPlaces, BeforeAnalysis, BeforeDatavis, BeforeSynthesis, AfterAnalysis, AfterDatavis,
     AfterSynthesis, audioVars, clockVars, analysisVars, processingVars, flagVars
  <1>1. ASSUME LifeInv, DestroyMember PROVE LifeInv'
    BY <1>1 DEF DestroyMember, NextDestroyed
  <1>2. ASSUME LifeInv, DestroyPipeline PROVE LifeInv'
    BY <1>2 DEF DestroyPipeline, NextDestroyed
  <1>3. ASSUME LifeInv, JoinProcessing PROVE LifeInv'
    BY <1>3 DEF JoinProcessing
  <1>4. ASSUME LifeInv, Done PROVE LifeInv'
    BY <1>4 DEF Done
  <1> QED
    BY <1>1, <1>2, <1>3, <1>4

\* Before exec() no thread exists, nothing is destroyed and the clock stands.
LEMMA LifeInitInv == Init => LifeInv
  <1> SUFFICES ASSUME Init PROVE LifeInv
    OBVIOUS
  <1>1. TypeOK
    <2>1. /\ mPaused \in BOOLEAN /\ clock \in BOOLEAN /\ sCancel \in BOOLEAN
          /\ mStopThread \in BOOLEAN /\ begunPaused \in BOOLEAN
      BY Zenon DEF Init
    <2> QED
      BY <2>1, DestroyLength DEF Init, TypeOK, MainPlaces
  <1>2. ThreadsInv /\ DestroyedInv /\ FlagsInv
    BY DEF Init, ThreadsInv, DestroyedInv, FlagsInv, BeforeAnalysis, BeforeDatavis,
       BeforeSynthesis, AfterAnalysis, AfterDatavis, AfterSynthesis
  <1>3. ClockInv
    <2>1. ~begunPaused
      BY Zenon DEF Init
    <2> QED
      BY <2>1 DEF Init, ClockInv, Started, BeforeAnalysis, BeforeDatavis, BeforeSynthesis
  <1> QED
    BY <1>1, <1>2, <1>3 DEF LifeInv

\* Every step of every thread keeps the invariant.
LEMMA LifeNextInv == LifeInv /\ [Next]_vars => LifeInv'
  <1>1. ASSUME LifeInv, UNCHANGED vars PROVE LifeInv'
    BY <1>1 DEF LifeInv, TypeOK, ThreadsInv, DestroyedInv, FlagsInv, ClockInv,
       Started, vars, audioVars, clockVars, analysisVars, processingVars, flagVars
  <1>2. Next => \/ OpenAndStartAudioStreams \/ OpenFails \/ StartAnalysisThread
                \/ StartDatavisThread \/ StartSynthesisThread
                \/ SetPaused \/ StopCaptureStream \/ StartCaptureStream \/ StopRealTime
                \/ StartRealTime \/ Quit
                \/ AnalysisLoop \/ ProcessAllReturns \/ DatavisStep \/ SynthesisStep
                \/ ProcessingExits
                \/ StopAnalysisCancel \/ StopAnalysisFlag \/ JoinAnalysis \/ JoinDatavis
                \/ StopSynthesisFlag \/ JoinSynthesis
                \/ DestroyMember \/ DestroyPipeline \/ JoinProcessing \/ Done
                \/ UNCHANGED vars
    BY DEF Next, MainStep, UserStep, Terminated
  <1> QED
    BY <1>1, <1>2, StartingInv, PausingInv, LoopsInv, StoppingInv, DestroyingInv

\* The life of the program: at every place of the main thread the threads, the
\* flags, the members and the clock are as LifeInv says.
THEOREM LifeInvariance == Spec => []LifeInv
  BY LifeInitInv, LifeNextInv, PTL DEF Spec

\* No thread and no audio callback works on a member that is destroyed: the
\* threads are joined, and the streams closed, before the first member they
\* use, and the processing thread with the pipeline, before the data store,
\* the solvers and the configuration.
THEOREM MembersAreSound == Spec => []MembersSound
  <1>1. ASSUME LifeInv PROVE MembersSound
    <2> USE <1>1 DEF LifeInv
    <2>1. destroyed \in 0..10
      BY DestroyLength DEF TypeOK
    <2>2. CASE destroyed = 0
      BY <2>2 DEF MembersSound, MembersOutliveUsers, IsAlive
    <2>3. CASE destroyed # 0
      <3>1. analysis = "exited" /\ datavis = "exited" /\ synthesis = "exited"
        BY <2>3 DEF DestroyedInv, ThreadsInv, AfterAnalysis, AfterDatavis
      <3>2. capture = "closed" /\ playback = "closed"
        BY <2>1, <2>3 DEF DestroyedInv
      <3>3. processing = "running" =>
              \A m \in {"mPipeline", "mDataStore", "mSolvers", "mConfig"} : IsAlive(m)
        <4> SUFFICES ASSUME processing = "running", NEW i \in 1..destroyed
                     PROVE  DestroyOrder[i] \notin
                              {"mPipeline", "mDataStore", "mSolvers", "mConfig"}
          BY DEF IsAlive
        <4>1. i \in 1..4
          BY <2>1 DEF DestroyedInv
        <4> QED
          BY <4>1 DEF DestroyOrder
      <3> QED
        BY <3>1, <3>2, <3>3 DEF MembersSound, MembersOutliveUsers
    <2> QED
      BY <2>2, <2>3
  <1> QED
    BY <1>1, LifeInvariance, PTL

\* In the event loop the clock runs exactly when the program is not paused, once
\* processAll has been called, but for a first call in a pause.
THEOREM ClockIsPaused == Spec => []ClockFollowsPause
  <1>1. ASSUME LifeInv PROVE ClockFollowsPause
    <2>1. main = "gui" /\ ~firstCall => (clock <=> ~mPaused \/ begunPaused)
      BY <1>1 DEF LifeInv, ClockInv, Started
    <2>2. clock \in BOOLEAN /\ mPaused \in BOOLEAN /\ begunPaused \in BOOLEAN
      BY <1>1 DEF LifeInv, TypeOK
    <2> QED
      BY <2>1, <2>2, Zenon DEF ClockFollowsPause
  <1> QED
    BY <1>1, LifeInvariance, PTL
=============================================================================
