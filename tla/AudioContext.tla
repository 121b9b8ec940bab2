---------------------------- MODULE AudioContext ----------------------------
(***************************************************************************)
(* AudioContext (src/src/context/audiocontext.cpp) and the backends it     *)
(* drives (src/src/modules/audio): the capture and playback streams that   *)
(* feed the capture buffer and drain the playback queue, their threads and *)
(* callbacks, and the replacement of one backend by another while the      *)
(* program runs.  The main thread makes the calls, one a step; libraries   *)
(* under the backends are external and call back whenever their contract   *)
(* lets them.                                                              *)
(*                                                                         *)
(* A stream is a record: `handle`, the library's stream; `pause`, the      *)
(* backend's pause flag; `at`, where the thread that serves it stands.     *)
(* "transfer" is the part in which it touches the shared buffer or queue.  *)
(***************************************************************************)
EXTENDS Naturals, Sequences, FiniteSets

CONSTANTS
    Platforms,      \* sets of backends that are built together
    MaxContexts     \* bound on the contexts made in a behaviour

Backends == {"ALSA", "PortAudio", "Pulse", "Oboe", "WebAudio"}

ASSUME AudioContextAssumption ==
    /\ Platforms \subseteq SUBSET Backends
    /\ MaxContexts \in Nat \ {0}

Contexts == 1..MaxContexts
Directions == {"capture", "playback"}

VARIABLES
    available,          \* the backends of this build
    kind,               \* the backend of each context; "none": not made
    dead,               \* the contexts that are destroyed
    stream,             \* the streams of each context
    threadsRunning,     \* Alsa::mThreadsRunning of each context
    opened, started,    \* the m...StreamOpened and m...StreamStarted flags
    rate,               \* whose sample rate the buffer and the queue have; 0: their own
    todo,               \* the calls the main thread has yet to make
    paused,             \* config.paused
    changed,            \* history: the backend was changed since the user paused
    over                \* an exception has ended the program

vars == <<available, kind, dead, stream, threadsRunning, opened, started, rate, todo, paused,
          changed, over>>

Current == CHOOSE c \in Contexts : kind[c] # "none" /\ \A b \in Contexts : kind[b] # "none" => b <= c

NoStream(k) == [handle |-> "none", pause |-> TRUE, at |-> IF k = "ALSA" THEN "loop" ELSE "idle"]

Call(op, c, d) == [op |-> op, context |-> c, direction |-> d]

\* openAndStartAudioStreams()
OpenAndStart(c) == <<Call("open", c, "capture"), Call("start", c, "capture"),
                     Call("open", c, "playback"), Call("start", c, "playback")>>

\* Mutant of Destructor: the backend is not terminated.
DestructorNoTerminate(c) == <<Call("stop", c, "capture"), Call("close", c, "capture"),
                              Call("stop", c, "playback"), Call("close", c, "playback"),
                              Call("gone", c, "capture")>>

\* ~AudioContext()
Destructor(c) == <<Call("stop", c, "capture"), Call("close", c, "capture"),
                   Call("stop", c, "playback"), Call("close", c, "playback"),
                   Call("terminate", c, "capture"), Call("join", c, "capture"),
                   Call("gone", c, "capture")>>

TypeOK ==
    /\ kind \in [Contexts -> available \cup {"none"}]
    /\ stream \in [Contexts -> [Directions ->
          [handle: {"none", "connecting", "failed", "stopped", "running", "stopping", "complete",
                    "closed"},
           pause: BOOLEAN, at: {"idle", "loop", "query", "transfer", "gone"}]]]
    /\ opened \in [Contexts -> [Directions -> BOOLEAN]]
    /\ started \in [Contexts -> [Directions -> BOOLEAN]]
    /\ rate \in [Directions -> 0..MaxContexts]
    /\ \A c \in dead, d \in Directions : ~opened[c][d] /\ ~started[c][d]

Init ==
    /\ available \in Platforms
    /\ \E k \in available :
          /\ kind = [c \in Contexts |-> IF c = 1 THEN k ELSE "none"]
          /\ stream = [c \in Contexts |-> [d \in Directions |-> NoStream(kind[c])]]
    /\ dead = {}
    /\ threadsRunning = [c \in Contexts |-> c = 1]
    /\ opened = [c \in Contexts |-> [d \in Directions |-> FALSE]]
    /\ started = opened
    /\ rate = [d \in Directions |-> 0]
    /\ todo = OpenAndStart(1)
    /\ paused = FALSE /\ changed = FALSE /\ over = FALSE
-----------------------------------------------------------------------------
(* What open, start, stop and close do to a stream of each backend *)

\* Mutant of AlsaStream: the stop forgets the pause flag.
AlsaStreamNoPause(op, s) ==
    CASE op = "open"  -> [s EXCEPT !.pause = TRUE, !.handle = "stopped"]
      [] op = "start" -> [s EXCEPT !.pause = FALSE, !.handle = "running"]
      [] op = "stop"  -> s
      [] op = "close" -> [s EXCEPT !.pause = TRUE, !.handle = "closed"]

AlsaStream(op, s) ==
    CASE op = "open"  -> [s EXCEPT !.pause = TRUE, !.handle = "stopped"]
      [] op = "start" -> [s EXCEPT !.pause = FALSE, !.handle = "running"]
      [] op = "stop"  -> [s EXCEPT !.pause = TRUE]
      [] op = "close" -> [s EXCEPT !.pause = TRUE, !.handle = "closed"]

\* start and stop look at Pa_IsStreamStopped() and return early.
PortAudioStream(op, s) ==
    CASE op = "open"  -> [s EXCEPT !.pause = TRUE, !.handle = "stopped"]
      [] op = "start" -> IF s.handle # "stopped" THEN s
                         ELSE [s EXCEPT !.pause = FALSE, !.handle = "running"]
      [] op = "stop"  -> IF s.handle = "stopped" THEN s
                         ELSE [s EXCEPT !.pause = TRUE, !.handle = "stopped"]
      [] op = "close" -> [s EXCEPT !.handle = "closed"]

\* Connecting is left to the server; uncork and cork take effect later.
PulseStream(op, s) ==
    CASE op = "open"  -> [s EXCEPT !.handle = "connecting"]
      [] op = "start" -> [s EXCEPT !.handle = "running"]
      [] op = "stop"  -> [s EXCEPT !.handle = "stopping"]
      [] op = "close" -> [s EXCEPT !.handle = "closed"]

\* requestStart() and requestStop() are requests too; close() waits.
OboeStream(op, s) ==
    CASE op = "open"  -> [s EXCEPT !.handle = "stopped"]
      [] op = "start" -> [s EXCEPT !.handle = "running"]
      [] op = "stop"  -> [s EXCEPT !.handle = "stopping"]
      [] op = "close" -> [s EXCEPT !.handle = "closed"]

\* context.resume() and suspend(), and the silenced flag
WebAudioStream(op, s) ==
    CASE op = "open"  -> [s EXCEPT !.handle = "stopped", !.pause = TRUE]
      [] op = "start" -> [s EXCEPT !.handle = "running", !.pause = FALSE]
      [] op = "stop"  -> [s EXCEPT !.handle = "stopped", !.pause = TRUE]
      [] op = "close" -> [s EXCEPT !.handle = "closed"]

StreamOp(k, op, s) ==
    CASE k = "ALSA"      -> AlsaStream(op, s)
      [] k = "PortAudio" -> PortAudioStream(op, s)
      [] k = "Pulse"     -> PulseStream(op, s)
      [] k = "Oboe"      -> OboeStream(op, s)
      [] k = "WebAudio"  -> WebAudioStream(op, s)

\* The calls of a library that return when no callback of the stream runs
\* (Pa_StopStream, Pa_CloseStream, AudioStream::close).
Waits(k, op) ==
    \/ k = "PortAudio" /\ op \in {"stop", "close"}
    \/ k = "Oboe" /\ op = "close"

\* Mutant of SetsRate: the playback stream of one backend forgets it.
SetsRateNotOnSwitch(k, c) == k # "WebAudio" /\ c = 1

\* Every backend but WebAudio gives its rate to the buffer or queue on opening.
SetsRate(k, c) == k # "WebAudio"
-----------------------------------------------------------------------------
(* AudioContext, in the main thread *)

Returned == todo' = Tail(todo)
Head1(op) == todo # <<>> /\ ~over /\ Head(todo).op = op

IsOpen(c, d) ==
    /\ opened' = [opened EXCEPT ![c][d] = TRUE]
    /\ rate' = IF SetsRate(kind[c], c) THEN [rate EXCEPT ![d] = c] ELSE rate

\* m...StreamOpened is set when the backend's call has returned; Pulse's waits.
OpenStream ==
    /\ Head1("open")
    /\ LET c == Head(todo).context  d == Head(todo).direction
       IN IF opened[c][d] THEN UNCHANGED <<stream, opened, rate>> /\ Returned
          ELSE /\ stream' = [stream EXCEPT ![c][d] = StreamOp(kind[c], "open", @)]
               /\ IF kind[c] = "Pulse"
                  THEN todo' = <<Call("await", c, d)>> \o Tail(todo) /\ UNCHANGED <<opened, rate>>
                  ELSE Returned /\ IsOpen(c, d)
    /\ UNCHANGED <<available, kind, dead, threadsRunning, started, paused, changed, over>>

\* Mutant of AwaitStream: the loop has no time-out.
AwaitStreamPatiently ==
    /\ Head1("await")
    /\ LET c == Head(todo).context  d == Head(todo).direction
       IN /\ stream[c][d].handle # "connecting"
          /\ over' = (stream[c][d].handle # "stopped")
          /\ IF over' THEN UNCHANGED <<opened, rate>> ELSE IsOpen(c, d)
    /\ Returned
    /\ UNCHANGED <<available, kind, dead, stream, threadsRunning, started, paused, changed>>

\* Pulse waits for the connection: it is ready, or failed or timed out and throws.
AwaitStream ==
    /\ Head1("await")
    /\ LET c == Head(todo).context  d == Head(todo).direction
       IN /\ over' = (stream[c][d].handle # "stopped")
          /\ IF over' THEN UNCHANGED <<opened, rate>> ELSE IsOpen(c, d)
    /\ Returned
    /\ UNCHANGED <<available, kind, dead, stream, threadsRunning, started, paused, changed>>

\* m...StreamStarted after the call
FlagAfter(op, flag) == op = "start"

\* startStream() and stopStream(): only if the flag says so
StartStopStream ==
    /\ Head1("start") \/ Head1("stop")
    /\ LET c == Head(todo).context  d == Head(todo).direction  op == Head(todo).op
       IN IF started[c][d] = (op = "start") THEN UNCHANGED <<stream, started>>
          ELSE /\ Waits(kind[c], op) => stream[c][d].at # "transfer"
               /\ stream' = [stream EXCEPT ![c][d] = StreamOp(kind[c], op, @)]
               /\ started' = [started EXCEPT ![c][d] = FlagAfter(op, @)]
    /\ Returned
    /\ UNCHANGED <<available, kind, dead, threadsRunning, opened, rate, paused, changed, over>>

CloseStream ==
    /\ Head1("close")
    /\ LET c == Head(todo).context  d == Head(todo).direction
       IN IF ~opened[c][d] THEN UNCHANGED <<stream, opened>>
          ELSE /\ Waits(kind[c], "close") => stream[c][d].at # "transfer"
               /\ stream' = [stream EXCEPT ![c][d] = StreamOp(kind[c], "close", @)]
               /\ opened' = [opened EXCEPT ![c][d] = FALSE]
    /\ Returned
    /\ UNCHANGED <<available, kind, dead, threadsRunning, started, rate, paused, changed, over>>

\* mAudio->terminate(): ALSA asks its threads to end ...
Terminate ==
    /\ Head1("terminate")
    /\ threadsRunning' = [threadsRunning EXCEPT ![Head(todo).context] = FALSE]
    /\ Returned
    /\ UNCHANGED <<available, kind, dead, stream, opened, started, rate, paused, changed, over>>

\* ... and joins them; the Pulse main loop is stopped between two callbacks.
Join ==
    /\ Head1("join")
    /\ LET c == Head(todo).context
       IN CASE kind[c] = "ALSA"  -> \A d \in Directions : stream[c][d].at = "gone"
            [] kind[c] = "Pulse" -> \A d \in Directions : stream[c][d].at = "idle"
            [] OTHER             -> TRUE
    /\ Returned
    /\ UNCHANGED <<available, kind, dead, stream, threadsRunning, opened, started, rate, paused,
                   changed, over>>

Gone ==
    /\ Head1("gone")
    /\ dead' = dead \cup {Head(todo).context}
    /\ Returned
    /\ UNCHANGED <<available, kind, stream, threadsRunning, opened, started, rate, paused, changed,
                   over>>

\* checkError(): an error of the library is thrown, and nobody catches it.  ALSA
\* tests for errors only when it opens a stream.
Throws ==
    /\ todo # <<>> /\ ~over
    /\ LET k == kind[Head(todo).context]  op == Head(todo).op
       IN \/ k = "ALSA" /\ op = "open"
          \/ k = "PortAudio" /\ op \in {"open", "start", "stop", "close", "terminate"}
          \/ k = "Oboe" /\ op \in {"open", "start", "stop", "close"}
    /\ over' = TRUE
    /\ UNCHANGED <<available, kind, dead, stream, threadsRunning, opened, started, rate, todo,
                   paused, changed>>
-----------------------------------------------------------------------------
(* The user: the handlers of pausedChanged and audioBackendChanged, and quitting *)

\* The main thread is in none of its own calls, nor in a callback of WebAudio.
Idle ==
    /\ todo = <<>> /\ ~over /\ Current \notin dead
    /\ kind[Current] = "WebAudio" => \A d \in Directions : stream[Current][d].at = "idle"

SetPaused(p) ==
    /\ Idle
    /\ paused # p
    /\ paused' = p
    /\ changed' = FALSE
    /\ todo' = <<Call(IF p THEN "stop" ELSE "start", Current, "capture")>>
    /\ UNCHANGED <<available, kind, dead, stream, threadsRunning, opened, started, rate, over>>

\* The new context is assigned to mAudioContext: the old one is destroyed first.
Replacement(old, new) == Destructor(old) \o OpenAndStart(new)

\* The new context is made (initialize() starts ALSA's threads) before.
ChangeBackend(k) ==
    /\ Idle
    /\ Current < MaxContexts
    /\ LET new == Current + 1
       IN /\ kind' = [kind EXCEPT ![new] = k]
          /\ stream' = [stream EXCEPT ![new] = [d \in Directions |-> NoStream(k)]]
          /\ threadsRunning' = [threadsRunning EXCEPT ![new] = TRUE]
          /\ todo' = Replacement(Current, new)
    /\ changed' = paused
    /\ UNCHANGED <<available, dead, opened, started, rate, paused, over>>

Quit ==
    /\ Idle
    /\ todo' = Destructor(Current)
    /\ UNCHANGED <<available, kind, dead, stream, threadsRunning, opened, started, rate, paused,
                   changed, over>>
-----------------------------------------------------------------------------
(* The threads and callbacks that serve the streams *)

OnlyStream == UNCHANGED <<available, kind, dead, threadsRunning, opened, started, rate, todo,
                          paused, changed, over>>

AlsaPauses(c, s) == threadsRunning[c] /\ s.pause

\* captureThreadLoop() and playbackThreadLoop(): out of the pause loop, to the
\* query for frames or, with mThreadsRunning cleared, to the end
AlsaLoop(c, d) ==
    /\ kind[c] = "ALSA"
    /\ stream[c][d].at = "loop"
    /\ ~AlsaPauses(c, stream[c][d])
    /\ stream' = [stream EXCEPT ![c][d].at = IF threadsRunning[c] THEN "query" ELSE "gone"]
    /\ OnlyStream

\* snd_pcm_avail(): frames to transfer, or none or an error
AlsaQuery(c, d) ==
    /\ stream[c][d].at = "query"
    /\ \E place \in {"transfer", "loop"} : stream' = [stream EXCEPT ![c][d].at = place]
    /\ OnlyStream

\* readi and push, or pull and writei, with a recovery that may fail
AlsaTransfer(c, d) ==
    /\ kind[c] = "ALSA"
    /\ stream[c][d].at = "transfer"
    /\ stream' = [stream EXCEPT ![c][d].at = "loop"]
    /\ OnlyStream

\* A library calls back while the stream runs, or until a request to stop is
\* done, but not while a call waits for its callbacks.  Pulse has one thread for
\* both streams, WebAudio the main thread.
CallbackBegins(c, d) ==
    /\ kind[c] \notin {"none", "ALSA"}
    /\ stream[c][d].handle \in {"running", "stopping"}
    /\ stream[c][d].at = "idle"
    /\ kind[c] \in {"Pulse", "WebAudio"} => \A e \in Directions : stream[c][e].at = "idle"
    /\ kind[c] = "WebAudio" => todo = <<>>
    /\ todo # <<>> /\ Head(todo) = Call(Head(todo).op, c, d) => ~Waits(kind[c], Head(todo).op)
    /\ stream' = [stream EXCEPT ![c][d].at = "transfer"]
    /\ OnlyStream

\* PortAudio's callbacks return paComplete if the pause flag is set.
CallbackEnds(c, d) ==
    /\ kind[c] # "ALSA"
    /\ stream[c][d].at = "transfer"
    /\ stream' = [stream EXCEPT ![c][d].at = "idle",
                                ![c][d].handle = IF kind[c] = "PortAudio" /\ stream[c][d].pause
                                                    THEN "complete" ELSE @]
    /\ OnlyStream

\* A server answers: the connection is ready or failed, the stream is stopped.
ServerAnswers(c, d) ==
    /\ \/ /\ stream[c][d].handle = "connecting"
          /\ \E h \in {"stopped", "failed"} : stream' = [stream EXCEPT ![c][d].handle = h]
       \/ /\ stream[c][d].handle = "stopping"
          /\ stream' = [stream EXCEPT ![c][d].handle = "stopped"]
    /\ OnlyStream

Main == OpenStream \/ AwaitStream \/ StartStopStream \/ CloseStream \/ Terminate \/ Join \/ Gone
User == (\E p \in BOOLEAN : SetPaused(p)) \/ (\E k \in available : ChangeBackend(k)) \/ Quit
Served(c, d) == AlsaLoop(c, d) \/ AlsaTransfer(c, d) \/ CallbackEnds(c, d)
Service(c, d) == Served(c, d) \/ AlsaQuery(c, d) \/ CallbackBegins(c, d) \/ ServerAnswers(c, d)

Next == ~over /\ (Main \/ Throws \/ User \/ \E c \in Contexts, d \in Directions : Service(c, d))

\* A thread that can go on does: the main thread returns from a call that does
\* not wait, a callback ends, and ALSA's threads come round their loops.
Spec == Init /\ [][Next]_vars
FairSpec == Spec /\ WF_vars(~over /\ Main)
    /\ \A c \in Contexts, d \in Directions :
          WF_vars(~over /\ Served(c, d)) /\ WF_vars(~over /\ AlsaQuery(c, d))
-----------------------------------------------------------------------------
(* Properties *)

Running(c, d) == stream[c][d].handle = "running" /\ (kind[c] = "ALSA" => ~stream[c][d].pause)

\* "There can be only one reader and one writer at a given time" (buffer.h:13):
\* through every replacement of the backend, at most one thread of all the
\* contexts ever made is in the capture buffer, and one in the playback queue.
OneAtATime ==
    \A d \in Directions : Cardinality({c \in Contexts : stream[c][d].at = "transfer"}) <= 1

\* ~AudioContext() leaves no thread or callback behind that would use it.
NothingOutlivesContext ==
    \A c \in dead, d \in Directions : stream[c][d].at \in {"idle", "gone"}

\* A stream that has been closed is not used by a callback (Pulse keeps its own
\* reference); only ALSA's threads may still be at it, and only until the
\* destructor, which comes to join them next, has done so.
ClosedStreamsAtRest ==
    \A c \in Contexts, d \in Directions :
        stream[c][d].handle = "closed" /\ stream[c][d].at \in {"query", "transfer"} =>
            \/ kind[c] = "Pulse"
            \/ kind[c] = "ALSA" /\ \E i \in DOMAIN todo : todo[i] = Call("join", c, "capture")

\* Between two calls the flags of AudioContext say what the streams are doing.
FlagsAgree ==
    todo = <<>> /\ ~over => \A d \in Directions : started[Current][d] = Running(Current, d)

\* The four together, with the types: one user of the buffer and of the queue,
\* nothing left behind by a context, a closed stream at rest, and flags that say
\* what the streams do.
StreamsSound == TypeOK /\ OneAtATime /\ NothingOutlivesContext /\ ClosedStreamsAtRest /\ FlagsAgree

\* The capture buffer, and the playback queue that resamples for it, have the
\* rate of the device that is running; WebAudio never sets it.
RateOfRunningDevice ==
    ~over => \A c \in Contexts, d \in Directions :
        Running(c, d) /\ kind[c] # "WebAudio" => rate[d] = c

\* A paused program captures nothing, unless its backend was changed meanwhile:
\* openAndStartAudioStreams() starts the new stream whatever the setting says.
PausedIsSilent == todo = <<>> /\ paused /\ ~changed /\ ~over => ~Running(Current, "capture")

\* No call hangs: a pause, a change of backend and the destructor, which wait
\* for callbacks, threads and the server, come to an end.
CallsReturn == todo # <<>> ~> (todo = <<>> \/ over)
=============================================================================
