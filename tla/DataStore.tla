------------------------------ MODULE DataStore ------------------------------
(***************************************************************************)
(* Main::DataStore (src/src/context/datastore.cpp) and the four threads    *)
(* that share it.  The processing thread inserts the results of the four   *)
(* processors into the tracks; the render thread drops what is too old and *)
(* draws the rest (View::Spectrogram::render); the datavis thread copies   *)
(* the newest results to the charts.  The analysis thread starts the clock *)
(* in its first processAll; the main thread stops and starts it again when *)
(* the user pauses and resumes, before or after that.  A read-write lock   *)
(* guards the tracks, nothing guards the clock.                            *)
(*                                                                         *)
(* All times are in ticks.  The time of the samples and the wall clock     *)
(* advance independently: the audio device has a clock of its own.  The    *)
(* sums of the code are of doubles: two times that are equal in ticks may  *)
(* compare either way (Reached).                                           *)
(***************************************************************************)
EXTENDS TimeTrack, FiniteSets

CONSTANTS
    Granularity,         \* ticks of samples per turn of the processing loop
    Spacing,             \* mFrameSpace of each processor
    HalfLength,          \* mFrameLength / 2 of each processor
    SpectrogramDelays,   \* values of (fftSamples / 2) / fsView the user can choose
    FormantTracks,       \* 4: setFormantTrackCount
    MaxFormants,         \* bound on the formants a solver returns
    KeepDuration,        \* 50 s
    MaxTime,             \* bound on the time of the samples
    MaxNow               \* bound on the wall clock

Processors == {"spectrogram", "pitch", "formants", "oscilloscope"}

ASSUME DataStoreAssumption ==
    /\ Granularity \in Nat \ {0}
    /\ Spacing \in [Processors -> Nat]
    /\ HalfLength \in [Processors -> Nat]
    /\ SpectrogramDelays \subseteq Nat
    /\ FormantTracks \in Nat
    /\ MaxFormants \in Nat
    /\ KeepDuration \in Nat
    /\ MaxTime \in Nat
    /\ MaxNow \in Nat

\* The order in which Pipeline's constructor pushes them.
mProcessors == <<"spectrogram", "pitch", "formants", "oscilloscope">>

mFormantTracks == [i \in 1..FormantTracks |-> <<"formant", i>>]

FormantNames == {mFormantTracks[i] : i \in 1..FormantTracks}

Tracks == {<<"spectrogram">>, <<"pitch">>, <<"sound">>, <<"gif">>} \cup FormantNames

\* The tracks render() calls remove_before on.
PrunedTracks == {<<"spectrogram">>, <<"sound">>, <<"gif">>}

VARIABLES
    now,                  \* the wall clock
    mIsRealTimeStarted,
    mRealTimeOffset,
    mRealTimeStart,
    gui,                  \* "idle", or "stopping" in the middle of stopRealTime()
    mPaused,              \* Config::mPaused
    begun,                \* the first processAll() has started the clock
    running,              \* history: ticks since then during which the program
                          \* was not paused
    pausedTwice,          \* history: the user paused, resumed and paused before
    begunPaused,          \* history: it did in the pause that still lasts
    writer,               \* who holds mLock for writing
    readers,              \* who holds it for reading
    track,                \* the tracks: sequences of [time, frame]
    time,                 \* the processing loop's time
    mTime,                \* per processor: mTime
    turn,                 \* index of the processor whose turn it is
    processing,           \* where the processing thread stands
    stamp,                \* the time of the results it is about to insert
    pending,              \* the tracks it still has to insert them in, in order
    frame,                \* history, per processor: number of its latest frame
    render,               \* where the render thread stands
    realTimeEnd,          \* the time it read
    torn,                 \* history: it read a later time than the running time
    datavis,              \* where the datavis thread stands
    shown                 \* the frames of the charts: sound, gif, and the formants

pauseVars == <<gui, mPaused, begun, pausedTwice, begunPaused>>
clockVars == <<mIsRealTimeStarted, mRealTimeOffset, mRealTimeStart, pauseVars>>
lockVars == <<writer, readers>>
processingVars == <<time, mTime, turn, processing, stamp, pending, frame>>
renderVars == <<render, realTimeEnd, torn>>
datavisVars == <<datavis, shown>>
vars == <<now, running, clockVars, lockVars, track, processingVars, renderVars, datavisVars>>

Nobody == "nobody"
NoFrame == 0

\* Every entry of a track is a result of a frame that was processed, and every
\* thread is where its code has a place.
TypeOK ==
    /\ now \in 0..MaxNow
    /\ mIsRealTimeStarted \in BOOLEAN /\ torn \in BOOLEAN
    /\ mRealTimeOffset \in 0..MaxNow /\ mRealTimeStart \in 0..MaxNow /\ running \in 0..MaxNow
    /\ gui \in {"idle", "stopping"}
    /\ mPaused \in BOOLEAN /\ begun \in BOOLEAN /\ begunPaused \in BOOLEAN
    /\ pausedTwice \in BOOLEAN
    /\ writer \in {Nobody, "processing", "render"}
    /\ readers \subseteq {"render", "datavis"}
    /\ DOMAIN track = Tracks
    /\ \A t \in Tracks : \A i \in DOMAIN track[t] :
         track[t][i].time \in Int /\ track[t][i].frame \in 1..(MaxTime + 1)
    /\ time \in 0..MaxTime
    /\ mTime \in [Processors -> 0..MaxTime]
    /\ turn \in DOMAIN mProcessors
    /\ processing \in {"turn", "lock", "write"}
    /\ stamp \in Int
    /\ pending \in Seq(Tracks)
    /\ frame \in [Processors -> 0..(MaxTime + 1)]
    /\ render \in {"idle", "lock", "prune", "gap", "draw"}
    /\ realTimeEnd \in Nat
    /\ datavis \in {"idle", "sound", "gif", "formants"}
    /\ {shown.sound, shown.gif} \cup shown.formants \subseteq 0..(MaxTime + 1)

Init ==
    /\ now = 0 /\ running = 0
    /\ mIsRealTimeStarted = FALSE
    /\ mRealTimeOffset = 0 /\ mRealTimeStart = 0
    /\ gui = "idle" /\ mPaused = FALSE
    /\ begun = FALSE /\ pausedTwice = FALSE /\ begunPaused = FALSE
    /\ writer = Nobody /\ readers = {}
    /\ track = [t \in Tracks |-> <<>>]
    /\ time = 0
    /\ mTime = [p \in Processors |-> 0]
    /\ turn = 1
    /\ processing = "turn"
    /\ stamp = 0
    /\ pending = <<>>
    /\ frame = [p \in Processors |-> NoFrame]
    /\ render = "idle" /\ realTimeEnd = 0 /\ torn = FALSE
    /\ datavis = "idle"
    /\ shown = [sound |-> NoFrame, gif |-> NoFrame, formants |-> {}]
-----------------------------------------------------------------------------
(* The clock *)

Tick ==
    /\ now < MaxNow
    /\ now' = now + 1
    /\ running' = IF begun /\ ~mPaused THEN running + 1 ELSE running
    /\ UNCHANGED <<clockVars, lockVars, track, processingVars, renderVars, datavisVars>>

\* getRealTime()
GetRealTime ==
    IF mIsRealTimeStarted THEN mRealTimeOffset + (now - mRealTimeStart) ELSE mRealTimeOffset

\* Mutant of StartRealTime: the instant is not noted again when the clock runs.
StartRealTimeOnce ==
    /\ mRealTimeStart' = IF mIsRealTimeStarted THEN mRealTimeStart ELSE now
    /\ mIsRealTimeStarted' = TRUE

\* startRealTime(): the instant is noted again also when the clock runs.
StartRealTime ==
    /\ mRealTimeStart' = now
    /\ mIsRealTimeStarted' = TRUE

\* The first processAll() starts the clock, whatever the user has done so far.
FirstProcessAll ==
    /\ ~begun
    /\ StartRealTime
    /\ begun' = TRUE
    /\ begunPaused' = (gui = "idle" /\ mPaused)
    /\ UNCHANGED <<now, running, mRealTimeOffset, gui, mPaused, pausedTwice, lockVars, track,
                   processingVars, renderVars, datavisVars>>

\* setPaused(false) and the handler of pausedChanged.
Resume ==
    /\ gui = "idle"
    /\ mPaused
    /\ StartRealTime
    /\ mPaused' = FALSE
    /\ begunPaused' = FALSE
    /\ UNCHANGED <<now, running, mRealTimeOffset, gui, begun, pausedTwice, lockVars, track,
                   processingVars, renderVars, datavisVars>>

\* setPaused(true) and the handler, stopRealTime(): the offset is stored ...  (A
\* clock that runs before the first processAll() was started by Resume.)
StopRealTime ==
    /\ gui = "idle"
    /\ ~mPaused
    /\ mRealTimeOffset' = GetRealTime
    /\ gui' = "stopping"
    /\ mPaused' = TRUE
    /\ pausedTwice' = (pausedTwice \/ (~begun /\ mIsRealTimeStarted))
    /\ UNCHANGED <<now, running, mIsRealTimeStarted, mRealTimeStart, begun, begunPaused,
                   lockVars, track, processingVars, renderVars, datavisVars>>

\* ... before the flag is cleared.
ClearRealTime ==
    /\ gui = "stopping"
    /\ mIsRealTimeStarted' = FALSE
    /\ gui' = "idle"
    /\ UNCHANGED <<now, running, mRealTimeOffset, mRealTimeStart, mPaused, begun, pausedTwice,
                   begunPaused, lockVars, track, processingVars, renderVars, datavisVars>>
-----------------------------------------------------------------------------
(* mLock, a QReadWriteLock *)

BeginWrite(thread) ==
    /\ writer = Nobody
    /\ readers = {}
    /\ writer' = thread
    /\ UNCHANGED readers

EndWrite == writer' = Nobody /\ UNCHANGED readers

BeginRead(thread) ==
    /\ writer = Nobody
    /\ readers' = readers \cup {thread}
    /\ UNCHANGED writer

EndRead(thread) == readers' = readers \ {thread} /\ UNCHANGED writer
-----------------------------------------------------------------------------
(* The processing thread: the loop over the processors *)

Processor == mProcessors[turn]

\* The loop goes on to the next processor, or round.
NextTurn ==
    IF turn < Len(mProcessors)
    THEN turn' = turn + 1 /\ UNCHANGED time
    ELSE turn' = 1 /\ time' = time + Granularity

\* canProcess(time): a tie of two sums of doubles can go either way.
Reached(p) ==
    IF time - mTime[p] = Spacing[p] /\ Spacing[p] > 0 THEN BOOLEAN
    ELSE {time - mTime[p] >= Spacing[p]}

\* It is false.  (The processing thread is started by the first processAll().)
SkipTurn ==
    /\ processing = "turn"
    /\ begun
    /\ time + Granularity <= MaxTime
    /\ FALSE \in Reached(Processor)
    /\ NextTurn
    /\ UNCHANGED <<now, running, clockVars, lockVars, track, mTime, processing, stamp, pending,
                   frame, renderVars, datavisVars>>

\* The tracks the formant processor inserts in when its solver has returned n
\* formants: one loop for those, ...
FoundFormants(n) ==
    SubSeq(mFormantTracks, 1, IF n <= FormantTracks THEN n ELSE FormantTracks)

\* Mutant of MissingFormants: the tracks beyond are not filled in.
MissingFormantsSkipped(n) == <<>>

\* ... and one for the tracks beyond.
MissingFormants(n) == SubSeq(mFormantTracks, n + 1, FormantTracks)

Written(p, n) ==
    CASE p = "spectrogram"  -> << <<"spectrogram">> >>
      [] p = "pitch"        -> << <<"pitch">> >>
      [] p = "formants"     -> FoundFormants(n) \o MissingFormants(n)
      [] p = "oscilloscope" -> << <<"sound">>, <<"gif">> >>

\* A spectrum goes back by half of the FFT's length.
SpectrumTimes(centered) == {centered - delay : delay \in SpectrogramDelays}

\* getCenteredTime(), with the mTime of the frame before.
Stamps(p) ==
    LET centered == mTime[p] + HalfLength[p]
    IN  IF p = "spectrogram" THEN SpectrumTimes(centered) ELSE {centered}

\* process(): the frame is analysed, without the lock.
Process ==
    /\ processing = "turn"
    /\ begun
    /\ time + Granularity <= MaxTime
    /\ TRUE \in Reached(Processor)
    /\ \E n \in 0..MaxFormants :
         /\ Processor = "formants" \/ n = 0
         /\ pending' = Written(Processor, n)
    /\ stamp' \in Stamps(Processor)
    /\ frame' = [frame EXCEPT ![Processor] = @ + 1]
    /\ processing' = "lock"
    /\ UNCHANGED <<now, running, clockVars, lockVars, track, time, mTime, turn, renderVars,
                   datavisVars>>

\* Mutant of ProcessBeginWrite: the tracks are written without the lock.
ProcessUnlocked ==
    /\ processing = "lock"
    /\ processing' = "write"
    /\ UNCHANGED <<now, running, clockVars, lockVars, track, time, mTime, turn, stamp, pending,
                   frame, renderVars, datavisVars>>

ProcessBeginWrite ==
    /\ processing = "lock"
    /\ BeginWrite("processing")
    /\ processing' = "write"
    /\ UNCHANGED <<now, running, clockVars, track, time, mTime, turn, stamp, pending, frame,
                   renderVars, datavisVars>>

\* One of the inserts.
ProcessInsert ==
    /\ processing = "write"
    /\ pending # <<>>
    /\ track' = [track EXCEPT ![Head(pending)] =
                   Insert(@, [time |-> stamp, frame |-> frame[Processor]])]
    /\ pending' = Tail(pending)
    /\ UNCHANGED <<now, running, clockVars, lockVars, time, mTime, turn, processing, stamp, frame,
                   renderVars, datavisVars>>

\* endWrite(), and process() notes the time.
ProcessEndWrite ==
    /\ processing = "write"
    /\ pending = <<>>
    /\ EndWrite
    /\ mTime' = [mTime EXCEPT ![Processor] = time]
    /\ NextTurn
    /\ processing' = "turn"
    /\ stamp' = 0
    /\ UNCHANGED <<now, running, clockVars, track, pending, frame, renderVars, datavisVars>>
-----------------------------------------------------------------------------
(* The render thread: View::Spectrogram::render() *)

\* It reads the clock, without a lock, ...
RenderTime ==
    /\ render = "idle"
    /\ realTimeEnd' = GetRealTime
    /\ torn' = (GetRealTime > running)
    /\ render' = "lock"
    /\ UNCHANGED <<now, running, clockVars, lockVars, track, processingVars, datavisVars>>

RenderBeginWrite ==
    /\ render = "lock"
    /\ BeginWrite("render")
    /\ render' = "prune"
    /\ UNCHANGED <<now, running, clockVars, track, processingVars, realTimeEnd, torn,
                   datavisVars>>

\* ... drops what is too old, ...
RenderPrune ==
    /\ render = "prune"
    /\ track' = [t \in Tracks |->
                   IF t \in PrunedTracks
                   THEN RemoveBefore(track[t], realTimeEnd - KeepDuration)
                   ELSE track[t]]
    /\ EndWrite
    /\ render' = "gap"
    /\ UNCHANGED <<now, running, clockVars, processingVars, realTimeEnd, torn, datavisVars>>

\* ... and draws between iterators into the tracks.
RenderBeginRead ==
    /\ render = "gap"
    /\ BeginRead("render")
    /\ render' = "draw"
    /\ UNCHANGED <<now, running, clockVars, track, processingVars, realTimeEnd, torn,
                   datavisVars>>

RenderDraw ==
    /\ render = "draw"
    /\ EndRead("render")
    /\ render' = "idle"
    /\ realTimeEnd' = 0
    /\ torn' = FALSE
    /\ UNCHANGED <<now, running, clockVars, track, processingVars, datavisVars>>
-----------------------------------------------------------------------------
(* The datavis thread: the locked part of datavisThreadLoop() *)

Newest(t) == IF track[t] = <<>> THEN NoFrame ELSE Back(track[t]).frame

DatavisBeginRead ==
    /\ datavis = "idle"
    /\ BeginRead("datavis")
    /\ datavis' = "sound"
    /\ UNCHANGED <<now, running, clockVars, track, processingVars, renderVars, shown>>

\* setSound(), which may return early until a first setGif() has given mGifStart
\* and mGifEnd their values.
DatavisSound ==
    /\ datavis = "sound"
    /\ \/ /\ Newest(<<"sound">>) # NoFrame
          /\ shown' = [shown EXCEPT !.sound = Newest(<<"sound">>)]
       \/ /\ NoFrame \in {Newest(<<"sound">>), shown.gif}
          /\ UNCHANGED shown
    /\ datavis' = "gif"
    /\ UNCHANGED <<now, running, clockVars, lockVars, track, processingVars, renderVars>>

\* setGif()
DatavisGif ==
    /\ datavis = "gif"
    /\ shown' = IF Newest(<<"gif">>) = NoFrame THEN shown
                ELSE [shown EXCEPT !.gif = Newest(<<"gif">>)]
    /\ datavis' = "formants"
    /\ UNCHANGED <<now, running, clockVars, lockVars, track, processingVars, renderVars>>

\* setFormants() with the newest value of every track, and endRead().
DatavisFormants ==
    /\ datavis = "formants"
    /\ shown' = [shown EXCEPT !.formants = {Newest(t) : t \in FormantNames}]
    /\ EndRead("datavis")
    /\ datavis' = "idle"
    /\ UNCHANGED <<now, running, clockVars, track, processingVars, renderVars>>
-----------------------------------------------------------------------------
Clock == Tick \/ FirstProcessAll \/ Resume \/ StopRealTime \/ ClearRealTime

ProcessingStep ==
    SkipTurn \/ Process \/ ProcessBeginWrite \/ ProcessInsert \/ ProcessEndWrite

RenderStep ==
    RenderTime \/ RenderBeginWrite \/ RenderPrune \/ RenderBeginRead \/ RenderDraw

DatavisStep == DatavisBeginRead \/ DatavisSound \/ DatavisGif \/ DatavisFormants

Next == Clock \/ ProcessingStep \/ RenderStep \/ DatavisStep

Spec == Init /\ [][Next]_vars
-----------------------------------------------------------------------------
(* Properties *)

\* std::upper_bound and std::lower_bound are only ever called on sorted tracks,
\* also when a longer FFT sends a spectrum behind the ones that are there.
TracksSorted == \A t \in Tracks : IsSorted(track[t])

\* Outside a write, the sound and its glottal flow are of the same frames, and
\* so are all the formants, however many the solver returned.
TracksAligned ==
    writer = Nobody =>
        /\ track[<<"sound">>] = track[<<"gif">>]
        /\ \A t, u \in FormantNames : track[t] = track[u]

\* No iterator that render() or the datavis thread holds is invalidated: no
\* track changes while it is read.
ReadsAreStable ==
    [][render = "draw" \/ datavis \in {"sound", "gif", "formants"} => UNCHANGED track]_vars

\* What the charts and the synthesizer are given is of one frame.  (The sound may
\* be missing from the first round, the glottal flow may not.)
OneFrameShown ==
    datavis = "idle" =>
        /\ shown.sound # NoFrame => shown.sound = shown.gif
        /\ Cardinality(shown.formants) <= 1

\* back() is the latest result: the times of a processor's frames never go back
\* (but for the spectrogram's, whose last element nobody asks for).
BackIsLatest ==
    LET Latest(t, p) == track[t] # <<>> => Back(track[t]).frame = frame[p]
    IN  processing = "turn" =>
          /\ Latest(<<"pitch">>, "pitch")
          /\ Latest(<<"sound">>, "oscilloscope")
          /\ \A t \in FormantNames : Latest(t, "formants")

\* The parts of what the reading threads are shown, with the types: the formant
\* tracks have the same times, the formants read under one lock are of one
\* frame, and the last entry of a track is the one inserted last at its time.
FramesWhole == TypeOK /\ TracksAligned /\ OneFrameShown /\ BackIsLatest

\* The clock counts the time since the first processAll() during which the
\* program was not paused, and never less.  It counts more in two cases only,
\* both of a user who pauses before processAll() is first called: until the end
\* of the pause in which that happens, and for good if he paused twice.
ClockCountsRunningTime ==
    gui = "idle" =>
        /\ GetRealTime >= running
        /\ begun /\ ~begunPaused /\ ~pausedTwice => GetRealTime = running

\* render() drops nothing of the last KeepDuration, unless the clock it has read
\* was ahead: in the middle of stopRealTime(), or as ClockCountsRunningTime says.
PruneKeepsRecent ==
    [][~torn =>
         \A t \in Tracks : \A i \in DOMAIN track[t] :
             track[t][i].time > running - KeepDuration
                 => \E j \in DOMAIN track'[t] : track'[t][j] = track[t][i]]_vars
=============================================================================
