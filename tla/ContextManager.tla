---------------------------- MODULE ContextManager ----------------------------
(***************************************************************************)
(* Main::ContextManager (src/src/context/contextmanager.cpp) with the      *)
(* stream flags of Main::AudioContext and the clock switch of DataStore:   *)
(* the life of the program from exec() to the last destructor.  The main   *)
(* thread opens the audio streams, starts the analysis, data visualisation *)
(* and synthesis threads, runs the GUI, in which the user pauses, resumes  *)
(* and quits, and at the end stops and joins the threads and destroys the  *)
(* members.  The processing thread is started by the first processAll and  *)
(* joined by the pipeline's destructor (module Pipeline has its inside).   *)
(***************************************************************************)
EXTENDS Naturals, Sequences

VARIABLES
    main,               \* where the main thread stands
    mAnalysisRunning,
    mSynthesisRunning,
    mPaused,            \* Config::mPaused
    capture,            \* the capture stream: "closed", "opened" or "started"
    playback,           \* the playback stream
    clock,              \* DataStore::mIsRealTimeStarted
    sCancel,            \* Buffer::sCancel
    analysis,           \* where the analysis thread stands
    firstCall,          \* Pipeline::mTime is still 0
    processing,         \* "none", "running" or "exited"
    mStopThread,        \* the pipeline's destructor has told that thread to stop
    datavis,
    synthesis,
    destroyed,          \* number of members destroyed
    begunPaused         \* history: the first processAll came in a pause, and
                        \* started a clock that nothing has switched since

audioVars == <<capture, playback>>
clockVars == <<clock, begunPaused>>
analysisVars == <<analysis, firstCall>>
processingVars == <<processing, mStopThread>>
flagVars == <<mAnalysisRunning, mSynthesisRunning, mPaused, sCancel>>
vars == <<main, audioVars, clockVars, analysisVars, processingVars, datavis, flagVars,
          synthesis, destroyed>>

\* Mutant of DestroyOrder: the data store is declared after the pipeline.
DestroyOrderStoreFirst ==
    <<"mAudioContext", "mDataVisWrapper", "mSynthWrapper", "mSynthesizer", "mDataStore",
      "mPipeline", "mPlaybackQueue", "mCaptureBuffer", "mSolvers", "mConfig">>

\* The members that threads use, in the reverse of their declaration order.
DestroyOrder ==
    <<"mAudioContext", "mDataVisWrapper", "mSynthWrapper", "mSynthesizer", "mPipeline",
      "mDataStore", "mPlaybackQueue", "mCaptureBuffer", "mSolvers", "mConfig">>

MainPlaces ==
    {"open", "startAnalysis", "startDatavis", "startSynthesis", "gui",
     "stopCapture", "stopClock", "startCapture", "startClock",
     "cancel", "stopAnalysis", "joinAnalysis", "joinDatavis", "stopSynthesis",
     "joinSynthesis", "destroy", "joinProcessing", "done", "aborted"}

\* The threads are where their loops have places, and no member is destroyed twice.
TypeOK ==
    /\ main \in MainPlaces
    /\ mAnalysisRunning \in BOOLEAN /\ mSynthesisRunning \in BOOLEAN
    /\ mPaused \in BOOLEAN /\ clock \in BOOLEAN /\ sCancel \in BOOLEAN
    /\ firstCall \in BOOLEAN /\ mStopThread \in BOOLEAN
    /\ begunPaused \in BOOLEAN
    /\ {capture, playback} \subseteq {"closed", "opened", "started"}
    /\ analysis \in {"none", "test", "begin", "pull", "pauseTest", "exited"}
    /\ processing \in {"none", "running", "exited"}
    /\ datavis \in {"none", "test", "body", "exited"}
    /\ synthesis \in {"none", "test", "body", "exited"}
    /\ destroyed \in 0..Len(DestroyOrder)

\* The two std::atomic_bool flags have no initializer: any value.
Init ==
    /\ main = "open"
    /\ mAnalysisRunning \in BOOLEAN
    /\ mSynthesisRunning \in BOOLEAN
    /\ mPaused = FALSE
    /\ capture = "closed" /\ playback = "closed"
    /\ clock = FALSE
    /\ sCancel = FALSE
    /\ analysis = "none" /\ firstCall = TRUE
    /\ processing = "none" /\ mStopThread = FALSE
    /\ datavis = "none" /\ synthesis = "none"
    /\ destroyed = 0
    /\ begunPaused = FALSE
-----------------------------------------------------------------------------
(* exec(), up to the event loop *)

\* openAndStartAudioStreams() ...
OpenAndStartAudioStreams ==
    /\ main = "open"
    /\ capture' = "started"
    /\ playback' = "started"
    /\ main' = "startAnalysis"
    /\ UNCHANGED <<clockVars, analysisVars, processingVars, datavis, flagVars, synthesis,
                   destroyed>>

\* ... throws when a device cannot be opened, which nothing catches.
OpenFails ==
    /\ main = "open"
    /\ main' = "aborted"
    /\ UNCHANGED <<audioVars, clockVars, analysisVars, processingVars, datavis, flagVars,
                   synthesis, destroyed>>

StartAnalysisThread ==
    /\ main = "startAnalysis"
    /\ mAnalysisRunning' = TRUE
    /\ analysis' = "test"
    /\ main' = "startDatavis"
    /\ UNCHANGED <<audioVars, clockVars, firstCall, processingVars, datavis,
                   mSynthesisRunning, mPaused, sCancel, synthesis, destroyed>>

StartDatavisThread ==
    /\ main = "startDatavis"
    /\ datavis' = "test"
    /\ main' = "startSynthesis"
    /\ UNCHANGED <<audioVars, clockVars, analysisVars, processingVars, flagVars, synthesis,
                   destroyed>>

StartSynthesisThread ==
    /\ main = "startSynthesis"
    /\ mSynthesisRunning' = TRUE
    /\ synthesis' = "test"
    /\ main' = "gui"
    /\ UNCHANGED <<audioVars, clockVars, analysisVars, processingVars, datavis,
                   mAnalysisRunning, mPaused, sCancel, destroyed>>
-----------------------------------------------------------------------------
(* The event loop: Config::setPaused and the handler of pausedChanged *)

SetPaused ==
    /\ main = "gui"
    /\ mPaused' = ~mPaused
    /\ main' = IF mPaused THEN "startCapture" ELSE "stopCapture"
    /\ UNCHANGED <<audioVars, clockVars, analysisVars, processingVars, datavis,
                   mAnalysisRunning, mSynthesisRunning, sCancel, synthesis, destroyed>>

StopCaptureStream ==
    /\ main = "stopCapture"
    /\ capture' = "opened"
    /\ main' = "stopClock"
    /\ UNCHANGED <<playback, clockVars, analysisVars, processingVars, datavis, flagVars,
                   synthesis, destroyed>>

StartCaptureStream ==
    /\ main = "startCapture"
    /\ capture' = "started"
    /\ main' = "startClock"
    /\ UNCHANGED <<playback, clockVars, analysisVars, processingVars, datavis, flagVars,
                   synthesis, destroyed>>

\* Mutant of StopRealTime: the clock is left running.
StopRealTimeForgotten ==
    /\ main = "stopClock"
    /\ main' = "gui"
    /\ UNCHANGED <<audioVars, clockVars, analysisVars, processingVars, datavis,
                   flagVars, synthesis, destroyed>>

StopRealTime ==
    /\ main = "stopClock"
    /\ clock' = FALSE
    /\ begunPaused' = FALSE
    /\ main' = "gui"
    /\ UNCHANGED <<audioVars, analysisVars, processingVars, datavis,
                   flagVars, synthesis, destroyed>>

StartRealTime ==
    /\ main = "startClock"
    /\ clock' = TRUE
    /\ begunPaused' = FALSE
    /\ main' = "gui"
    /\ UNCHANGED <<audioVars, analysisVars, processingVars, datavis,
                   flagVars, synthesis, destroyed>>

Quit ==
    /\ main = "gui"
    /\ main' = "cancel"
    /\ UNCHANGED <<audioVars, clockVars, analysisVars, processingVars, datavis, flagVars,
                   synthesis, destroyed>>
-----------------------------------------------------------------------------
(* analysisThreadLoop() *)

AnalysisTest ==
    /\ analysis = "test"
    /\ analysis' = IF mAnalysisRunning THEN "begin" ELSE "exited"
    /\ UNCHANGED <<main, audioVars, clockVars, firstCall, processingVars, datavis, flagVars,
                   synthesis, destroyed>>

\* The first call of processAll starts the clock, paused or not.
ProcessAllBegins ==
    /\ analysis = "begin"
    /\ clock' = (clock \/ firstCall)
    /\ begunPaused' = (begunPaused \/ (firstCall /\ mPaused))
    /\ analysis' = "pull"
    /\ UNCHANGED <<main, audioVars, firstCall, processingVars, datavis, flagVars, synthesis,
                   destroyed>>

\* The rest of processAll, after a pull that may block for good while no
\* samples come; it starts the processing thread.
ProcessAllReturns ==
    /\ analysis = "pull"
    /\ firstCall' = FALSE
    /\ processing' = IF processing = "none" THEN "running" ELSE processing
    /\ analysis' = "pauseTest"
    /\ UNCHANGED <<main, audioVars, clockVars, mStopThread, datavis, flagVars, synthesis,
                   destroyed>>

\* The inner loop sleeps while paused and running.
PauseTest ==
    /\ analysis = "pauseTest"
    /\ ~(mPaused /\ mAnalysisRunning)
    /\ analysis' = "test"
    /\ UNCHANGED <<main, audioVars, clockVars, firstCall, processingVars, datavis, flagVars,
                   synthesis, destroyed>>
-----------------------------------------------------------------------------
(* The other threads *)

\* datavisThreadLoop(): the condition of the loop, and its body.  (A thread that
\* tests it before StartSynthesisThread reads a flag that has no value yet.)
DatavisTest ==
    /\ datavis = "test"
    /\ datavis' = IF mAnalysisRunning /\ mSynthesisRunning THEN "body" ELSE "exited"
    /\ UNCHANGED <<main, audioVars, clockVars, analysisVars, processingVars, flagVars,
                   synthesis, destroyed>>

DatavisBody ==
    /\ datavis = "body"
    /\ datavis' = "test"
    /\ UNCHANGED <<main, audioVars, clockVars, analysisVars, processingVars, flagVars,
                   synthesis, destroyed>>

\* synthesisThreadLoop(): the condition of the loop, and pushIfNeeded().
SynthesisTest ==
    /\ synthesis = "test"
    /\ synthesis' = IF mSynthesisRunning THEN "body" ELSE "exited"
    /\ UNCHANGED <<main, audioVars, clockVars, analysisVars, processingVars, datavis,
                   flagVars, destroyed>>

SynthesisBody ==
    /\ synthesis = "body"
    /\ synthesis' = "test"
    /\ UNCHANGED <<main, audioVars, clockVars, analysisVars, processingVars, datavis,
                   flagVars, destroyed>>

\* callbackProcessing() leaves its loop once it is told to and its pull is
\* cancelled (Pipeline!DestructorReturns).
ProcessingExits ==
    /\ processing = "running"
    /\ mStopThread /\ sCancel
    /\ processing' = "exited"
    /\ UNCHANGED <<main, audioVars, clockVars, analysisVars, mStopThread, datavis, flagVars,
                   synthesis, destroyed>>
-----------------------------------------------------------------------------
(* exec(), after the event loop *)

\* Mutant of StopAnalysisCancel: the pulls are not cancelled.
StopAnalysisUncancelled ==
    /\ main = "cancel"
    /\ main' = "stopAnalysis"
    /\ UNCHANGED <<audioVars, clockVars, analysisVars, processingVars, datavis,
                   flagVars, synthesis, destroyed>>

\* stopAnalysisThread(): cancelPulls() comes first.
StopAnalysisCancel ==
    /\ main = "cancel"
    /\ sCancel' = TRUE
    /\ main' = "stopAnalysis"
    /\ UNCHANGED <<audioVars, clockVars, analysisVars, processingVars, datavis,
                   mAnalysisRunning, mSynthesisRunning, mPaused, synthesis, destroyed>>

StopAnalysisFlag ==
    /\ main = "stopAnalysis"
    /\ mAnalysisRunning' = FALSE
    /\ main' = "joinAnalysis"
    /\ UNCHANGED <<audioVars, clockVars, analysisVars, processingVars, datavis,
                   mSynthesisRunning, mPaused, sCancel, synthesis, destroyed>>

JoinAnalysis ==
    /\ main = "joinAnalysis"
    /\ analysis = "exited"
    /\ main' = "joinDatavis"
    /\ UNCHANGED <<audioVars, clockVars, analysisVars, processingVars, datavis, flagVars,
                   synthesis, destroyed>>

JoinDatavis ==
    /\ main = "joinDatavis"
    /\ datavis = "exited"
    /\ main' = "stopSynthesis"
    /\ UNCHANGED <<audioVars, clockVars, analysisVars, processingVars, datavis, flagVars,
                   synthesis, destroyed>>

StopSynthesisFlag ==
    /\ main = "stopSynthesis"
    /\ mSynthesisRunning' = FALSE
    /\ main' = "joinSynthesis"
    /\ UNCHANGED <<audioVars, clockVars, analysisVars, processingVars, datavis,
                   mAnalysisRunning, mPaused, sCancel, synthesis, destroyed>>

JoinSynthesis ==
    /\ main = "joinSynthesis"
    /\ synthesis = "exited"
    /\ main' = "destroy"
    /\ UNCHANGED <<audioVars, clockVars, analysisVars, processingVars, datavis, flagVars,
                   synthesis, destroyed>>
-----------------------------------------------------------------------------
(* The destructors of the members *)

NextDestroyed == DestroyOrder[destroyed + 1]

\* ~AudioContext() stops and closes the streams; the others just go.
DestroyMember ==
    /\ main = "destroy"
    /\ destroyed < Len(DestroyOrder)
    /\ NextDestroyed # "mPipeline"
    /\ destroyed' = destroyed + 1
    /\ IF NextDestroyed = "mAudioContext"
         THEN capture' = "closed" /\ playback' = "closed"
         ELSE UNCHANGED audioVars
    /\ UNCHANGED <<main, clockVars, analysisVars, processingVars, datavis, flagVars,
                   synthesis>>

\* ~Pipeline() tells the processing thread to stop ...
DestroyPipeline ==
    /\ main = "destroy"
    /\ destroyed < Len(DestroyOrder)
    /\ NextDestroyed = "mPipeline"
    /\ mStopThread' = TRUE
    /\ sCancel' = TRUE
    /\ main' = "joinProcessing"
    /\ UNCHANGED <<audioVars, clockVars, analysisVars, processing, datavis,
                   mAnalysisRunning, mSynthesisRunning, mPaused, synthesis, destroyed>>

\* ... and joins it, if it was ever started.
JoinProcessing ==
    /\ main = "joinProcessing"
    /\ processing # "running"
    /\ destroyed' = destroyed + 1
    /\ main' = "destroy"
    /\ UNCHANGED <<audioVars, clockVars, analysisVars, processingVars, datavis, flagVars,
                   synthesis>>

Done ==
    /\ main = "destroy"
    /\ destroyed = Len(DestroyOrder)
    /\ main' = "done"
    /\ UNCHANGED <<audioVars, clockVars, analysisVars, processingVars, datavis, flagVars,
                   synthesis, destroyed>>

Terminated == main \in {"done", "aborted"} /\ UNCHANGED vars
-----------------------------------------------------------------------------
MainStep ==
    \/ OpenAndStartAudioStreams \/ OpenFails
    \/ StartAnalysisThread \/ StartDatavisThread \/ StartSynthesisThread
    \/ StopCaptureStream \/ StartCaptureStream \/ StopRealTime \/ StartRealTime
    \/ StopAnalysisCancel \/ StopAnalysisFlag \/ JoinAnalysis \/ JoinDatavis
    \/ StopSynthesisFlag \/ JoinSynthesis
    \/ DestroyMember \/ DestroyPipeline \/ JoinProcessing \/ Done

UserStep == SetPaused \/ Quit

AnalysisLoop == AnalysisTest \/ ProcessAllBegins \/ PauseTest

DatavisStep == DatavisTest \/ DatavisBody

SynthesisStep == SynthesisTest \/ SynthesisBody

Next ==
    \/ MainStep \/ UserStep
    \/ AnalysisLoop \/ ProcessAllReturns
    \/ DatavisStep \/ SynthesisStep \/ ProcessingExits
    \/ Terminated

Spec == Init /\ [][Next]_vars

(* Every thread is scheduled; a pull is only sure to return once pulls are    *)
(* cancelled (AudioBuffer!CancelUnblocks); the user need not do anything.     *)
FairSpec ==
    /\ Spec
    /\ WF_vars(MainStep)
    /\ WF_vars(AnalysisLoop)
    /\ WF_vars(sCancel /\ ProcessAllReturns)
    /\ WF_vars(DatavisStep)
    /\ WF_vars(SynthesisStep)
    /\ WF_vars(ProcessingExits)
-----------------------------------------------------------------------------
(* Properties *)

IsAlive(member) == \A i \in 1..destroyed : DestroyOrder[i] # member

\* No thread and no audio callback works on a member that is destroyed.
MembersOutliveUsers ==
    LET Uses(active, members) == active => \A m \in members : IsAlive(m)
    IN  /\ Uses(analysis \notin {"none", "exited"},
                {"mAudioContext", "mPipeline", "mCaptureBuffer", "mDataStore", "mConfig"})
        /\ Uses(processing = "running", {"mPipeline", "mDataStore", "mSolvers", "mConfig"})
        /\ Uses(datavis \notin {"none", "exited"},
                {"mDataStore", "mDataVisWrapper", "mSynthWrapper", "mSynthesizer"})
        /\ Uses(synthesis \notin {"none", "exited"}, {"mPlaybackQueue", "mSynthesizer"})
        /\ Uses(capture = "started", {"mAudioContext", "mCaptureBuffer"})
        /\ Uses(playback = "started", {"mAudioContext", "mPlaybackQueue"})

\* ... and every variable is of its type on the way.
MembersSound == TypeOK /\ MembersOutliveUsers

\* In the event loop the clock runs exactly when the program is not paused, once
\* processAll has been called, however the user's clicks and that first call fall.
\* The one exception is a first call in a pause: it starts the clock, which then
\* runs until the user resumes.
ClockFollowsPause ==
    main = "gui" /\ ~firstCall => clock = (~mPaused \/ begunPaused)

\* Quitting ends the program, paused or not, with or without samples coming
\* in: every thread is joined and every member destroyed.
QuitEnds == main = "cancel" ~> main = "done"
=============================================================================
