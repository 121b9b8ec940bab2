------------------------- MODULE AudioContext_proofs -------------------------
(***************************************************************************)
(* The safety properties of AudioContext for any number of contexts and    *)
(* any sets of backends.  They follow from ContextInv: where the main      *)
(* thread is in its calls (PhaseInv, DeadInv) decides which context may    *)
(* use the buffer and the queue, and the flags of AudioContext decide what *)
(* the library's streams are doing (StreamInv).  An exception ends the     *)
(* program where it stands: after it only the properties are kept.         *)
(***************************************************************************)
EXTENDS AudioContext, SequenceTheorems, FiniteSetTheorems, TLAPS

Calls == [op : {"open", "await", "start", "stop", "close", "terminate", "join", "gone"},
          context : 0..MaxContexts, direction : Directions]

Handles == {"none", "connecting", "failed", "stopped", "running", "stopping", "complete", "closed"}

Streams == [handle : Handles, pause : BOOLEAN,
            at : {"idle", "loop", "query", "transfer", "gone"}]

Types ==
    /\ available \subseteq Backends
    /\ kind \in [Contexts -> Backends \cup {"none"}]
    /\ kind \in [Contexts -> available \cup {"none"}]
    /\ stream \in [Contexts -> [Directions -> Streams]]
    /\ opened \in [Contexts -> [Directions -> BOOLEAN]]
    /\ started \in [Contexts -> [Directions -> BOOLEAN]]
    /\ rate \in [Directions -> 0..MaxContexts]
    /\ dead \subseteq Contexts
    /\ todo \in Seq(Calls)
    /\ paused \in BOOLEAN /\ changed \in BOOLEAN /\ over \in BOOLEAN

\* The contexts are made in order.
MadeInv == \E n \in Contexts : \A c \in Contexts : kind[c] # "none" <=> c <= n

\* What is left to do are the last calls of p, of which the first may be in
\* Pulse's wait for a connection.
Follows(p) ==
    /\ Len(todo) <= Len(p)
    /\ \A i \in 1..Len(todo) :
         LET call == p[Len(p) - Len(todo) + i]
         IN  \/ todo[i] = call
             \/ i = 1 /\ call.op = "open" /\ todo[i] = [call EXCEPT !.op = "await"]

\* Pulse waits for the connection of this stream.
Awaiting(c, d) == todo # <<>> /\ todo[1] = Call("await", c, d)

\* Both streams of the current context are open.
AllOpened == \A d \in Directions : opened[Current][d]

\* A paused program captures nothing.
Silent == paused /\ ~changed => ~started[Current]["capture"]

\* What a destructor that has n calls left has done.
Destroyed(c, n) ==
    /\ n < 7 => ~started[c]["capture"]
    /\ n < 6 => ~opened[c]["capture"]
    /\ n < 5 => ~started[c]["playback"]
    /\ n < 4 => ~opened[c]["playback"]
    /\ n < 2 => \A d \in Directions : stream[c][d].at \in {"idle", "gone"}

(* The phases of the main thread; x is the context it destroys, 0 if none. *)

IdlePhase(x) == x = 0 /\ todo = <<>> /\ (Current \in dead \/ AllOpened) /\ Silent

\* It destroys the previous context; the streams of the current one are new.
ReplacePhase(x) ==
    /\ x = Current - 1 /\ x # 0
    /\ Len(todo) > 4 /\ Follows(Replacement(Current - 1, Current))
    /\ Destroyed(x, Len(todo) - 4)
    /\ \A d \in Directions : stream[Current][d].handle = "none"
    /\ paused => changed

\* It opens and starts the streams of the current context.
OpenPhase(x) ==
    /\ x = 0
    /\ Len(todo) \in 1..4 /\ Follows(Replacement(Current - 1, Current))
    /\ Len(todo) < 4 => opened[Current]["capture"]
    /\ Len(todo) < 2 => opened[Current]["playback"]
    /\ paused => changed

\* It destroys the current context.
QuitPhase(x) ==
    /\ x = Current
    /\ Len(todo) > 0 /\ Follows(Destructor(Current))
    /\ Destroyed(x, Len(todo))
    /\ Silent

\* It stops or starts the capture stream of the current context.
PausePhase(x) ==
    /\ x = 0
    /\ \/ todo = <<Call("stop", Current, "capture")>>
       \/ todo = <<Call("start", Current, "capture")>> /\ ~paused
    /\ AllOpened

PhaseInv(x) == IdlePhase(x) \/ ReplacePhase(x) \/ OpenPhase(x) \/ QuitPhase(x) \/ PausePhase(x)

\* A context is gone before the next one opens a stream.
DeadInv(x) ==
    /\ \A c \in dead : /\ c <= Current /\ c # x
                       /\ \A d \in Directions : ~opened[c][d] /\ stream[c][d].at \in {"idle", "gone"}
    /\ \A c \in Contexts : c < Current => c \in dead \/ c = x
    /\ Current \in dead => todo = <<>>

\* A stream does what the flags say, each backend in its way.
StreamInv(x, c, d) ==
    LET s == stream[c][d]
    IN  /\ started[c][d] => opened[c][d]
        /\ started[c][d] <=> Running(c, d)
        /\ opened[c][d] => s.handle \in {"stopped", "running", "stopping"}
        /\ ~opened[c][d] => s.handle \in {"none", "closed"} \/ Awaiting(c, d)
        /\ Awaiting(c, d) => /\ kind[c] = "Pulse" /\ ~opened[c][d]
                             /\ s.handle \in {"connecting", "failed", "stopped"}
        /\ s.handle = "closed" => c \in dead \/ c = x
        /\ s.handle = "stopping" => kind[c] \in {"Pulse", "Oboe"}
        /\ s.handle = "none" => s.at \notin {"query", "transfer"}
        /\ kind[c] = "ALSA" => s.at # "idle" /\ (s.handle = "none" => s.pause)
        /\ kind[c] # "ALSA" => s.at \in {"idle", "transfer"}
        /\ kind[c] = "PortAudio" => /\ started[c][d] => ~s.pause
                                    /\ s.at = "transfer" => started[c][d]
        /\ kind[c] = "Oboe" => (s.at = "transfer" => opened[c][d])
        /\ kind[c] = "WebAudio" => (s.at = "transfer" => todo = <<>>)
        /\ kind[c] = "none" => s.handle = "none"

StreamsInv(x) == \A c \in Contexts, d \in Directions : StreamInv(x, c, d)

RateInv ==
    \A c \in Contexts, d \in Directions : opened[c][d] /\ kind[c] # "WebAudio" => rate[d] = c

LiveAt(x) == PhaseInv(x) /\ DeadInv(x) /\ StreamsInv(x)

LiveInv == MadeInv /\ RateInv /\ \E x \in 0..MaxContexts : LiveAt(x)

Safe == OneAtATime /\ NothingOutlivesContext /\ ClosedStreamsAtRest
        /\ \A c \in dead, d \in Directions : ~opened[c][d] /\ ~started[c][d]

ContextInv == Types /\ Safe /\ (~over => LiveInv)
-----------------------------------------------------------------------------
(* The calls of the main thread *)

\* The seven calls of the destructor.
LEMMA DestructorIs ==
    ASSUME NEW c
    PROVE  /\ Len(Destructor(c)) = 7
           /\ Destructor(c)[1] = Call("stop", c, "capture")
           /\ Destructor(c)[2] = Call("close", c, "capture")
           /\ Destructor(c)[3] = Call("stop", c, "playback")
           /\ Destructor(c)[4] = Call("close", c, "playback")
           /\ Destructor(c)[5] = Call("terminate", c, "capture")
           /\ Destructor(c)[6] = Call("join", c, "capture")
           /\ Destructor(c)[7] = Call("gone", c, "capture")
  BY DEF Destructor

\* The four of openAndStartAudioStreams().
LEMMA OpenAndStartIs ==
    ASSUME NEW c
    PROVE  /\ Len(OpenAndStart(c)) = 4
           /\ OpenAndStart(c)[1] = Call("open", c, "capture")
           /\ OpenAndStart(c)[2] = Call("start", c, "capture")
           /\ OpenAndStart(c)[3] = Call("open", c, "playback")
           /\ OpenAndStart(c)[4] = Call("start", c, "playback")
  BY DEF OpenAndStart

\* Calls are calls.
LEMMA CallsAre ==
    ASSUME NEW c \in 0..MaxContexts
    PROVE  /\ Destructor(c) \in Seq(Calls) /\ OpenAndStart(c) \in Seq(Calls)
           /\ \A d \in Directions : Call("await", c, d) \in Calls
           /\ \A op \in {"stop", "start"} : <<Call(op, c, "capture")>> \in Seq(Calls)
  BY DEF Destructor, OpenAndStart, Calls, Call, Directions

\* The eleven of a replacement.
LEMMA ReplacementIs ==
    ASSUME NEW o \in 0..MaxContexts, NEW c \in 0..MaxContexts
    PROVE  /\ Replacement(o, c) \in Seq(Calls)
           /\ Len(Replacement(o, c)) = 11
           /\ Replacement(o, c)[1] = Call("stop", o, "capture")
           /\ Replacement(o, c)[2] = Call("close", o, "capture")
           /\ Replacement(o, c)[3] = Call("stop", o, "playback")
           /\ Replacement(o, c)[4] = Call("close", o, "playback")
           /\ Replacement(o, c)[5] = Call("terminate", o, "capture")
           /\ Replacement(o, c)[6] = Call("join", o, "capture")
           /\ Replacement(o, c)[7] = Call("gone", o, "capture")
           /\ Replacement(o, c)[8] = Call("open", c, "capture")
           /\ Replacement(o, c)[9] = Call("start", c, "capture")
           /\ Replacement(o, c)[10] = Call("open", c, "playback")
           /\ Replacement(o, c)[11] = Call("start", c, "playback")
  <1> DEFINE p == Destructor(o)  q == OpenAndStart(c)
  <1>1. p \in Seq(Calls) /\ q \in Seq(Calls) /\ Len(p) = 7 /\ Len(q) = 4
    BY CallsAre, DestructorIs, OpenAndStartIs
  <1> HIDE DEF p, q
  <1> DEFINE r == p \o q
  <1>2. /\ r \in Seq(Calls) /\ Len(r) = Len(p) + Len(q)
        /\ \A i \in 1..(Len(p) + Len(q)) : r[i] = IF i <= Len(p) THEN p[i] ELSE q[i - Len(p)]
    BY <1>1, ConcatProperties
  <1>3. Replacement(o, c) = r
    BY DEF Replacement, p, q
  <1> HIDE DEF r
  <1>4. Len(r) = 11 /\ \A i \in 1..11 : r[i] = IF i <= 7 THEN p[i] ELSE q[i - 7]
    BY <1>1, <1>2
  <1>5. /\ r[1] = p[1] /\ r[2] = p[2] /\ r[3] = p[3] /\ r[4] = p[4] /\ r[5] = p[5]
        /\ r[6] = p[6] /\ r[7] = p[7]
    BY <1>4
  <1>6. r[8] = q[1] /\ r[9] = q[2] /\ r[10] = q[3] /\ r[11] = q[4]
    BY <1>4
  <1> QED
    BY <1>2, <1>3, <1>4, <1>5, <1>6, DestructorIs, OpenAndStartIs DEF p, q

\* The fields of a call.
LEMMA CallFields ==
    \A op, c, d : /\ Call(op, c, d).op = op
                  /\ Call(op, c, d).context = c
                  /\ Call(op, c, d).direction = d
                  /\ [Call(op, c, d) EXCEPT !.op = "await"] = Call("await", c, d)
  BY DEF Call

\* When a call has returned, the rest of the calls is left.
LEMMA ReturnedLeaves ==
    ASSUME todo \in Seq(Calls), todo # <<>>, Returned
    PROVE  /\ todo' \in Seq(Calls)
           /\ Len(todo) \in Nat /\ Len(todo) >= 1
           /\ Head(todo) = todo[1] /\ todo[1] \in Calls
           /\ Len(todo') = Len(todo) - 1
           /\ \A i \in 1..Len(todo') : todo'[i] = todo[i + 1]
  <1>1. Len(todo) \in Nat /\ Len(todo) >= 1 /\ todo[1] \in Calls
    BY EmptySeq, LenProperties, ElementOfSeq
  <1> QED
    BY <1>1, HeadTailProperties DEF Returned

\* The largest context that was made is the one that CHOOSE finds.
LEMMA LargestIs ==
    ASSUME NEW f, NEW n \in Contexts, \A c \in Contexts : f[c] # "none" <=> c <= n
    PROVE  n = CHOOSE c \in Contexts : f[c] # "none" /\ \A b \in Contexts : f[b] # "none" => b <= c
  <1> DEFINE Largest(c) == f[c] # "none" /\ \A b \in Contexts : f[b] # "none" => b <= c
  <1>1. \A c \in Contexts : c \in Nat
    BY AudioContextAssumption DEF Contexts
  <1>2. Largest(n)
    BY <1>1
  <1>3. \A c \in Contexts : Largest(c) => c = n
    BY <1>1, <1>2
  <1> HIDE DEF Largest
  <1>4. n = CHOOSE c \in Contexts : Largest(c)
    BY <1>2, <1>3
  <1> QED
    BY <1>4 DEF Largest

\* There is one largest context that was made.
LEMMA CurrentIs ==
    ASSUME MadeInv
    PROVE  /\ Current \in Contexts
           /\ \A c \in Contexts : kind[c] # "none" <=> c <= Current
  <1>1. PICK n \in Contexts : \A c \in Contexts : kind[c] # "none" <=> c <= n
    BY DEF MadeInv
  <1>2. Current = n
    BY <1>1, LargestIs DEF Current
  <1> QED
    BY <1>1, <1>2
-----------------------------------------------------------------------------
(* Streams and flags *)

\* A step that changes one stream changes no other.
LEMMA OneStream ==
    ASSUME Types, NEW c \in Contexts, NEW d \in Directions, NEW s \in Streams,
           stream' = [stream EXCEPT ![c][d] = s]
    PROVE  /\ stream' \in [Contexts -> [Directions -> Streams]]
           /\ stream'[c][d] = s
           /\ \A b \in Contexts, e \in Directions :
                 b # c \/ e # d => stream'[b][e] = stream[b][e]
  BY DEF Types

\* The same of the flags of AudioContext.
LEMMA OneFlag ==
    \A f \in [Contexts -> [Directions -> BOOLEAN]], c \in Contexts, d \in Directions,
       v \in BOOLEAN :
        LET g == [f EXCEPT ![c][d] = v]
        IN  /\ g \in [Contexts -> [Directions -> BOOLEAN]]
            /\ g[c][d] = v
            /\ \A b \in Contexts, e \in Directions : b # c \/ e # d => g[b][e] = f[b][e]
  OBVIOUS

\* What each call leaves of a stream.
LEMMA OperationIs ==
    ASSUME NEW k \in Backends, NEW s \in Streams
    PROVE  /\ \A op \in {"open", "start", "stop", "close"} :
                 StreamOp(k, op, s) \in Streams /\ StreamOp(k, op, s).at = s.at
           /\ StreamOp(k, "open", s).handle = IF k = "Pulse" THEN "connecting" ELSE "stopped"
           /\ StreamOp(k, "close", s).handle = "closed"
           /\ k # "PortAudio" => StreamOp(k, "start", s).handle = "running"
           /\ k = "ALSA" => /\ ~StreamOp(k, "start", s).pause
                            /\ StreamOp(k, "stop", s).pause
                            /\ StreamOp(k, "stop", s).handle = s.handle
           /\ k = "PortAudio" /\ s.handle = "stopped" =>
                 StreamOp(k, "start", s).handle = "running" /\ ~StreamOp(k, "start", s).pause
           /\ k \in {"PortAudio", "WebAudio"} => StreamOp(k, "stop", s).handle = "stopped"
           /\ k \in {"Pulse", "Oboe"} => StreamOp(k, "stop", s).handle = "stopping"
  <1>1. CASE k = "ALSA"
    BY <1>1, ZenonT(60) DEF StreamOp, AlsaStream, Streams, Handles
  <1>2. CASE k = "PortAudio"
    BY <1>2, ZenonT(60) DEF StreamOp, PortAudioStream, Streams, Handles
  <1>3. CASE k = "Pulse"
    BY <1>3, ZenonT(60) DEF StreamOp, PulseStream, Streams, Handles
  <1>4. CASE k = "Oboe"
    BY <1>4, ZenonT(60) DEF StreamOp, OboeStream, Streams, Handles
  <1>5. CASE k = "WebAudio"
    BY <1>5, ZenonT(60) DEF StreamOp, WebAudioStream, Streams, Handles
  <1> QED
    BY <1>1, <1>2, <1>3, <1>4, <1>5 DEF Backends

\* A stream that no call or callback touches goes on as it was.
LEMMA UntouchedStream ==
    ASSUME NEW x, NEW y, NEW c, NEW d, StreamInv(x, c, d),
           stream'[c][d] = stream[c][d], opened'[c][d] = opened[c][d],
           started'[c][d] = started[c][d], kind'[c] = kind[c],
           Awaiting(c, d)' <=> Awaiting(c, d),
           c \in dead \/ c = x => c \in dead' \/ c = y,
           kind[c] = "WebAudio" => (todo = <<>> => todo' = <<>>) \/ stream[c][d].at # "transfer"
    PROVE  StreamInv(y, c, d)'
  <1>1. Running(c, d)' <=> Running(c, d)
    BY DEF Running
  <1> QED
    BY <1>1, Zenon DEF StreamInv
-----------------------------------------------------------------------------
(* The threads and callbacks *)

\* A thread or callback that moves on in one stream, and begins nothing in a
\* stream that is not open, keeps the invariant if it keeps that stream's.
LEMMA ServiceKeeps ==
    ASSUME Types, NEW x \in 0..MaxContexts, LiveAt(x), RateInv, MadeInv, ~over, OnlyStream,
           NEW c \in Contexts, NEW d \in Directions, NEW s \in Streams,
           stream' = [stream EXCEPT ![c][d] = s],
           s.handle = "none" <=> stream[c][d].handle = "none",
           \/ s.at \in {"idle", "gone"}
           \/ stream[c][d].at \notin {"idle", "gone"}
           \/ opened[c][d],
           StreamInv(x, c, d)'
    PROVE  Types' /\ LiveInv'
  <1>1. /\ stream' \in [Contexts -> [Directions -> Streams]]
        /\ stream'[c][d] = s
        /\ \A b \in Contexts, e \in Directions : b # c \/ e # d => stream'[b][e] = stream[b][e]
    BY OneStream
  <1>2. Types'
    BY <1>1 DEF Types, OnlyStream
  <1>3. RateInv' /\ MadeInv' /\ Current' = Current
    BY DEF RateInv, MadeInv, OnlyStream, Current
  <1>4. \A b \in Contexts : /\ b \in dead \/ Destroyed(b, 1) =>
                                 \A e \in Directions : ~opened[b][e] /\ stream[b][e].at \in {"idle", "gone"}
    BY DEF LiveAt, DeadInv, Destroyed, Directions
  <1>5. \A b \in Contexts, e \in Directions :
           ~opened[b][e] /\ stream[b][e].at \in {"idle", "gone"} => stream'[b][e].at \in {"idle", "gone"}
    BY <1>1
  <1>6. \A b \in Contexts, n \in Nat : Destroyed(b, n) => Destroyed(b, n)'
    <2> SUFFICES ASSUME NEW b \in Contexts, NEW n \in Nat, Destroyed(b, n)
                 PROVE  Destroyed(b, n)'
      OBVIOUS
    <2>1. n < 2 => \A e \in Directions : ~opened[b][e] /\ stream[b][e].at \in {"idle", "gone"}
      BY DEF Destroyed, Directions
    <2> QED
      BY <2>1, <1>5 DEF Destroyed, OnlyStream
  <1>7. DeadInv(x)'
    BY <1>3, <1>4, <1>5, <1>2 DEF LiveAt, DeadInv, OnlyStream, Types
  <1>8. StreamsInv(x)'
    <2> SUFFICES ASSUME NEW b \in Contexts, NEW e \in Directions PROVE StreamInv(x, b, e)'
      BY DEF StreamsInv
    <2>1. CASE b = c /\ e = d
      BY <2>1
    <2>2. CASE b # c \/ e # d
      <3>1. StreamInv(x, b, e) /\ stream'[b][e] = stream[b][e]
        BY <1>1, <2>2 DEF LiveAt, StreamsInv
      <3>2. Awaiting(b, e)' <=> Awaiting(b, e)
        BY DEF Awaiting, OnlyStream
      <3> QED
        BY <3>1, <3>2, UntouchedStream DEF OnlyStream
    <2> QED
      BY <2>1, <2>2
  <1>9. PhaseInv(x)'
    <2>1. CASE IdlePhase(x)
      BY <2>1, <1>3 DEF PhaseInv, IdlePhase, AllOpened, Silent, OnlyStream
    <2>2. CASE ReplacePhase(x)
      <3>1. Current \in Contexts /\ x \in Contexts /\ Len(todo) \in Nat /\ Len(todo) - 4 \in Nat
        BY <2>2, CurrentIs, AudioContextAssumption DEF ReplacePhase, Contexts, Types
      <3>2. Destroyed(x, Len(todo) - 4)'
        BY <3>1, <2>2, <1>6 DEF ReplacePhase, OnlyStream
      <3>3. \A e \in Directions : stream'[Current][e].handle = "none"
        BY <3>1, <1>1, <2>2 DEF ReplacePhase
      <3> QED
        BY <2>2, <3>1, <3>2, <3>3, <1>3 DEF PhaseInv, ReplacePhase, OnlyStream, Follows
    <2>3. CASE OpenPhase(x)
      BY <2>3, <1>3 DEF PhaseInv, OpenPhase, OnlyStream, Follows
    <2>4. CASE QuitPhase(x)
      <3>1. Current \in Contexts /\ x \in Contexts /\ Len(todo) \in Nat
        BY <2>4, CurrentIs DEF QuitPhase, Types
      <3>2. Destroyed(x, Len(todo))'
        BY <3>1, <2>4, <1>6 DEF QuitPhase, OnlyStream
      <3> QED
        BY <2>4, <3>1, <3>2, <1>3 DEF PhaseInv, QuitPhase, OnlyStream, Follows, Silent
    <2>5. CASE PausePhase(x)
      BY <2>5, <1>3 DEF PhaseInv, PausePhase, AllOpened, OnlyStream
    <2> QED
      BY <2>1, <2>2, <2>3, <2>4, <2>5 DEF LiveAt, PhaseInv
  <1> QED
    BY <1>2, <1>3, <1>7, <1>8, <1>9 DEF LiveInv, LiveAt

\* Every step of a thread or callback keeps the invariant.
LEMMA ServiceStep ==
    ASSUME Types, LiveInv, ~over, NEW c \in Contexts, NEW d \in Directions, Service(c, d)
    PROVE  Types' /\ LiveInv' /\ ~over'
  <1>1. PICK x \in 0..MaxContexts : LiveAt(x)
    BY DEF LiveInv
  <1> DEFINE s == stream[c][d]
  <1>2. s \in Streams /\ StreamInv(x, c, d) /\ kind[c] \in Backends \cup {"none"}
    BY <1>1 DEF Types, LiveAt, StreamsInv
  <1>3. OnlyStream
    BY DEF Service, Served, AlsaLoop, AlsaQuery, AlsaTransfer, CallbackBegins, CallbackEnds,
           ServerAnswers
  <1>4. ~over' /\ kind' = kind /\ opened' = opened /\ started' = started /\ dead' = dead /\ todo' = todo
    BY <1>3 DEF OnlyStream
  <1>5. (Awaiting(c, d)' <=> Awaiting(c, d))
    BY <1>4 DEF Awaiting
  <1>6. ASSUME NEW t \in Streams, stream' = [stream EXCEPT ![c][d] = t]
        PROVE  stream'[c][d] = t
    BY <1>6 DEF Types
  <1> DEFINE Keeps(t) == /\ t \in Streams /\ stream' = [stream EXCEPT ![c][d] = t]
                         /\ t.handle = "none" <=> s.handle = "none"
                         /\ \/ t.at \in {"idle", "gone"}
                            \/ s.at \notin {"idle", "gone"}
                            \/ opened[c][d]
                         /\ StreamInv(x, c, d)'
  <1>7. SUFFICES \E t \in Streams : Keeps(t)
    BY <1>1, <1>3, <1>4, ServiceKeeps DEF LiveInv
  <1>8. CASE AlsaLoop(c, d)
    <2> DEFINE t == [s EXCEPT !.at = IF threadsRunning[c] THEN "query" ELSE "gone"]
    <2>1. t \in Streams /\ stream' = [stream EXCEPT ![c][d] = t] /\ t.handle = s.handle /\ t.pause = s.pause
          /\ t.at \in {"query", "gone"} /\ (t.at = "query" => ~s.pause)
      BY <1>2, <1>8 DEF AlsaLoop, AlsaPauses, Streams, Types
    <2>2. stream'[c][d] = t
      BY <1>6, <2>1
    <2> HIDE DEF t
    <2>3. Running(c, d)' <=> Running(c, d)
      BY <1>4, <2>1, <2>2 DEF Running
    <2>4. kind[c] = "ALSA" /\ s.at = "loop"
      BY <1>8 DEF AlsaLoop
    <2>5. StreamInv(x, c, d)'
      BY <1>2, <1>4, <1>5, <2>1, <2>2, <2>3, <2>4 DEF StreamInv
    <2> QED
      BY <2>1, <2>4, <2>5
  <1>9. CASE AlsaQuery(c, d)
    <2>1. PICK place \in {"transfer", "loop"} : stream' = [stream EXCEPT ![c][d].at = place]
      BY <1>9 DEF AlsaQuery
    <2> DEFINE t == [s EXCEPT !.at = place]
    <2>2. t \in Streams /\ stream' = [stream EXCEPT ![c][d] = t] /\ t.handle = s.handle /\ t.pause = s.pause
          /\ t.at = place
      BY <1>2, <2>1 DEF Streams, Types
    <2>3. stream'[c][d] = t
      BY <1>6, <2>2
    <2> HIDE DEF t
    <2>4. Running(c, d)' <=> Running(c, d)
      BY <1>4, <2>2, <2>3 DEF Running
    <2>5. s.at = "query"
      BY <1>9 DEF AlsaQuery
    <2>6. StreamInv(x, c, d)'
      BY <1>2, <1>4, <1>5, <2>2, <2>3, <2>4, <2>5 DEF StreamInv
    <2> QED
      BY <2>2, <2>5, <2>6
  <1>10. CASE AlsaTransfer(c, d)
    <2> DEFINE t == [s EXCEPT !.at = "loop"]
    <2>2. t \in Streams /\ stream' = [stream EXCEPT ![c][d] = t] /\ t.handle = s.handle /\ t.pause = s.pause
          /\ t.at = "loop"
      BY <1>2, <1>10 DEF Streams, Types, AlsaTransfer
    <2>3. stream'[c][d] = t
      BY <1>6, <2>2
    <2> HIDE DEF t
    <2>4. Running(c, d)' <=> Running(c, d)
      BY <1>4, <2>2, <2>3 DEF Running
    <2>5. kind[c] = "ALSA" /\ s.at = "transfer"
      BY <1>10 DEF AlsaTransfer
    <2>6. StreamInv(x, c, d)'
      BY <1>2, <1>4, <1>5, <2>2, <2>3, <2>4, <2>5 DEF StreamInv
    <2> QED
      BY <2>2, <2>5, <2>6
  <1>11. CASE CallbackBegins(c, d)
    <2> DEFINE t == [s EXCEPT !.at = "transfer"]
    <2>2. t \in Streams /\ stream' = [stream EXCEPT ![c][d] = t] /\ t.handle = s.handle /\ t.pause = s.pause
          /\ t.at = "transfer"
      BY <1>2, <1>11 DEF Streams, Types, CallbackBegins
    <2>3. stream'[c][d] = t
      BY <1>6, <2>2
    <2> HIDE DEF t
    <2>4. Running(c, d)' <=> Running(c, d)
      BY <1>4, <2>2, <2>3 DEF Running
    <2>5. /\ kind[c] \notin {"none", "ALSA"} /\ s.handle \in {"running", "stopping"}
          /\ kind[c] = "WebAudio" => todo = <<>>
      BY <1>11 DEF CallbackBegins
    <2>6. opened[c][d] /\ (s.handle = "running" => started[c][d])
      BY <1>2, <2>5 DEF StreamInv, Running
    <2>7. StreamInv(x, c, d)'
      BY <1>2, <1>4, <1>5, <2>2, <2>3, <2>4, <2>5, <2>6 DEF StreamInv
    <2> QED
      BY <2>2, <2>6, <2>7
  <1>12. CASE CallbackEnds(c, d)
    <2> DEFINE t == [s EXCEPT !.at = "idle"]
    <2>1. kind[c] # "ALSA" /\ s.at = "transfer" /\ ~(kind[c] = "PortAudio" /\ s.pause)
      BY <1>2, <1>12 DEF CallbackEnds, StreamInv
    <2>2. t \in Streams /\ stream' = [stream EXCEPT ![c][d] = t] /\ t.handle = s.handle /\ t.pause = s.pause
          /\ t.at = "idle"
      <3>1. t \in Streams /\ t.handle = s.handle /\ t.pause = s.pause /\ t.at = "idle"
            /\ t = [s EXCEPT !.at = "idle", !.handle = @]
        BY <1>2 DEF Streams
      <3>2. stream' = [stream EXCEPT ![c][d].at = "idle", ![c][d].handle = @]
        BY <1>12, <2>1 DEF CallbackEnds
      <3>3. stream' = [stream EXCEPT ![c][d] = [s EXCEPT !.at = "idle", !.handle = @]]
        BY <3>2 DEF Types
      <3> QED
        BY <3>1, <3>3
    <2>3. stream'[c][d] = t
      BY <1>6, <2>2
    <2> HIDE DEF t
    <2>4. Running(c, d)' <=> Running(c, d)
      BY <1>4, <2>2, <2>3 DEF Running
    <2>6. StreamInv(x, c, d)'
      BY <1>2, <1>4, <1>5, <2>1, <2>2, <2>3, <2>4 DEF StreamInv
    <2> QED
      BY <2>2, <2>6
  <1>13. CASE ServerAnswers(c, d)
    <2>1. PICK h \in {"stopped", "failed"} :
             /\ stream' = [stream EXCEPT ![c][d].handle = h]
             /\ s.handle = "connecting" \/ (s.handle = "stopping" /\ h = "stopped")
      BY <1>13 DEF ServerAnswers
    <2> DEFINE t == [s EXCEPT !.handle = h]
    <2>2. t \in Streams /\ stream' = [stream EXCEPT ![c][d] = t] /\ t.handle = h /\ t.pause = s.pause
          /\ t.at = s.at
      BY <1>2, <2>1 DEF Streams, Handles, Types
    <2>3. stream'[c][d] = t
      BY <1>6, <2>2
    <2> HIDE DEF t
    <2>4. ~Running(c, d)' /\ ~Running(c, d)
      BY <1>4, <2>1, <2>2, <2>3 DEF Running
    <2>6. StreamInv(x, c, d)'
      BY <1>2, <1>4, <1>5, <2>1, <2>2, <2>3, <2>4 DEF StreamInv
    <2> QED
      BY <2>1, <2>2, <2>6
  <1> QED
    BY <1>8, <1>9, <1>10, <1>11, <1>12, <1>13 DEF Service, Served
-----------------------------------------------------------------------------
(* The calls of the main thread and its phases *)

\* The next call is the first.
LEMMA FirstIsHead ==
    \A s \in Seq(Calls) : Len(s) > 0 => s # <<>> /\ Head(s) = s[1]
  <1>1. Len(<<>>) = 0
    OBVIOUS
  <1> QED
    BY <1>1

\* A call that returns leaves the rest of the calls, and waits for nothing.
LEMMA FollowsOn ==
    ASSUME NEW p \in Seq(Calls), todo \in Seq(Calls), todo # <<>>, Follows(p), Returned,
           \A i \in 1..Len(p) : p[i].op # "await"
    PROVE  /\ Follows(p)'
           /\ Len(todo') = Len(todo) - 1
           /\ \A c, d : ~Awaiting(c, d)'
  <1>1. /\ todo' \in Seq(Calls)
        /\ Len(todo) \in Nat /\ Len(todo) >= 1
        /\ Len(todo') = Len(todo) - 1
        /\ \A i \in 1..Len(todo') : todo'[i] = todo[i + 1]
    BY ReturnedLeaves
  <1>2. Len(p) \in Nat /\ Len(todo) <= Len(p)
    BY LenProperties DEF Follows
  <1>3. \A i \in 1..Len(todo') : todo'[i] = p[Len(p) - Len(todo') + i]
    <2> SUFFICES ASSUME NEW i \in 1..Len(todo')
                 PROVE  todo'[i] = p[Len(p) - Len(todo') + i]
      OBVIOUS
    <2>1. i + 1 \in 1..Len(todo) /\ i + 1 # 1 /\ Len(p) - Len(todo) + (i + 1) = Len(p) - Len(todo') + i
      BY <1>1, <1>2
    <2>2. todo[i + 1] = p[Len(p) - Len(todo) + (i + 1)]
      BY <2>1 DEF Follows
    <2> QED
      BY <1>1, <2>1, <2>2
  <1>4. Follows(p)'
    BY <1>1, <1>2, <1>3 DEF Follows
  <1>5. \A c, d : ~Awaiting(c, d)'
    <2> SUFFICES ASSUME NEW c, NEW d, Awaiting(c, d)' PROVE FALSE
      OBVIOUS
    <2>1. 1 \in 1..Len(todo')
      BY <1>1, EmptySeq, LenProperties DEF Awaiting
    <2>2. todo'[1] = p[Len(p) - Len(todo') + 1] /\ Len(p) - Len(todo') + 1 \in 1..Len(p)
      BY <1>1, <1>2, <1>3, <2>1
    <2> QED
      BY <2>2, CallFields DEF Awaiting
  <1> QED
    BY <1>1, <1>4, <1>5

\* No call of these is Pulse's wait, and a destructor opens nothing.
LEMMA NoneWaits ==
    ASSUME NEW o \in 0..MaxContexts, NEW c \in 0..MaxContexts
    PROVE  /\ \A i \in 1..7 : Destructor(c)[i].op \notin {"open", "await"}
           /\ \A i \in 1..7 : Replacement(o, c)[i] = Destructor(o)[i]
           /\ \A i \in 1..11 : Replacement(o, c)[i].op # "await"
  <1> DEFINE p == Destructor(c)  q == Destructor(o)  r == Replacement(o, c)
  <1>1. \A i \in 1..7 : i = 1 \/ i = 2 \/ i = 3 \/ i = 4 \/ i = 5 \/ i = 6 \/ i = 7
    OBVIOUS
  <1>2. \A i \in 1..11 : i \in 1..7 \/ i = 8 \/ i = 9 \/ i = 10 \/ i = 11
    OBVIOUS
  <1>3. /\ p[1].op = "stop" /\ p[2].op = "close" /\ p[3].op = "stop" /\ p[4].op = "close"
        /\ p[5].op = "terminate" /\ p[6].op = "join" /\ p[7].op = "gone"
    BY DestructorIs, CallFields
  <1>4. /\ q[1].op = "stop" /\ q[2].op = "close" /\ q[3].op = "stop" /\ q[4].op = "close"
        /\ q[5].op = "terminate" /\ q[6].op = "join" /\ q[7].op = "gone"
    BY DestructorIs, CallFields
  <1>5. /\ r[1] = q[1] /\ r[2] = q[2] /\ r[3] = q[3] /\ r[4] = q[4]
        /\ r[5] = q[5] /\ r[6] = q[6] /\ r[7] = q[7]
    BY DestructorIs, ReplacementIs, SMTT(60)
  <1>6. r[8].op = "open" /\ r[9].op = "start" /\ r[10].op = "open" /\ r[11].op = "start"
    BY ReplacementIs, CallFields, SMTT(60)
  <1> HIDE DEF p, q, r
  <1>7. \A i \in 1..7 : p[i].op \notin {"open", "await"}
    BY <1>1, <1>3
  <1>8. \A i \in 1..7 : r[i] = q[i]
    BY <1>1, <1>5
  <1>9. \A i \in 1..7 : q[i].op \notin {"open", "await"}
    BY <1>1, <1>4
  <1>10. \A i \in 1..11 : r[i].op # "await"
    BY <1>2, <1>6, <1>8, <1>9
  <1> QED
    BY <1>7, <1>8, <1>10 DEF p, q, r

\* Which call a destructor with m calls left makes.
LEMMA DestroyHead ==
    ASSUME Types, MadeInv, NEW x \in 0..MaxContexts, NEW m,
           \/ ReplacePhase(x) /\ m = Len(todo) - 4
           \/ QuitPhase(x) /\ m = Len(todo)
    PROVE  /\ m \in 1..7 /\ x \in Contexts
           /\ Head(todo) = Destructor(x)[8 - m] /\ todo[1] = Head(todo) /\ todo # <<>>
           /\ Destroyed(x, m)
  <1>1. Current \in Contexts /\ todo \in Seq(Calls) /\ Len(todo) \in Nat /\ MaxContexts \in Nat
    BY CurrentIs, LenProperties, AudioContextAssumption DEF Types
  <1>2. CASE ReplacePhase(x) /\ m = Len(todo) - 4
    <2>1. PICK k \in Contexts : k = Current
      BY <1>1
    <2>2. x = k - 1 /\ x \in 0..MaxContexts /\ k \in 0..MaxContexts /\ x \in Contexts
      BY <1>1, <2>1, <1>2 DEF ReplacePhase, Contexts
    <2> DEFINE p == Replacement(x, k)
    <2>3. Len(todo) > 4 /\ Follows(p) /\ Destroyed(x, m) /\ Len(p) = 11
      BY <1>2, <2>1, <2>2, ReplacementIs DEF ReplacePhase
    <2>4. Len(todo) <= 11 /\ 1 \in 1..Len(todo)
      BY <1>1, <2>3 DEF Follows
    <2>5. LET call == p[8 - m]
          IN todo[1] = call \/ (call.op = "open" /\ todo[1] = [call EXCEPT !.op = "await"])
      <3>1. Len(p) - Len(todo) + 1 = 8 - m
        BY <1>1, <1>2, <2>3
      <3> QED
        BY <2>3, <2>4, <3>1 DEF Follows
    <2> HIDE DEF p
    <2>6. 8 - m \in 1..7 /\ m \in 1..7
      <3>1. PICK n \in Nat : n = Len(todo)
        BY <1>1
      <3>2. n > 4 /\ n <= 11 /\ m = n - 4
        BY <3>1, <2>3, <2>4, <1>2
      <3> QED
        BY <3>2
    <2> USE DEF p
    <2>7. \A i \in 1..7 : p[i] = Destructor(x)[i] /\ p[i].op # "open"
      BY <2>2, NoneWaits
    <2>8. todo # <<>> /\ Head(todo) = todo[1]
      BY <1>1, <2>4, EmptySeq, HeadTailProperties
    <2> QED
      BY <2>2, <2>3, <2>5, <2>6, <2>7, <2>8
  <1>3. CASE QuitPhase(x) /\ m = Len(todo)
    <2>0. x = Current /\ x \in Contexts /\ x \in 0..MaxContexts
      BY <1>1, <1>3 DEF QuitPhase, Contexts
    <2>1. Len(todo) > 0 /\ Follows(Destructor(x)) /\ Destroyed(x, m)
      BY <2>0, <1>3 DEF QuitPhase
    <2>a. Len(Destructor(x)) = 7 /\ Len(todo) <= Len(Destructor(x))
      BY <2>1, DestructorIs DEF Follows
    <2>2. m \in 1..7 /\ 1 \in 1..Len(todo) /\ 8 - m \in 1..7
          /\ Len(Destructor(x)) - Len(todo) + 1 = 8 - m
      <3>1. PICK n \in Nat : n = Len(todo)
        BY <1>1
      <3>2. n > 0 /\ n <= 7 /\ m = n
        BY <3>1, <2>1, <2>a, <1>3
      <3>3. n \in 1..7 /\ 8 - n \in 1..7 /\ 7 - n + 1 = 8 - n /\ 1 \in 1..n
        BY <3>2
      <3> QED
        BY <3>1, <3>2, <3>3, <2>a
    <2>3. LET call == Destructor(x)[8 - m]
          IN todo[1] = call \/ (call.op = "open" /\ todo[1] = [call EXCEPT !.op = "await"])
      BY <2>1, <2>2 DEF Follows
    <2>4. \A i \in 1..7 : Destructor(x)[i].op # "open"
      BY <2>0, NoneWaits
    <2>5. todo # <<>> /\ Head(todo) = todo[1]
      BY <1>1, <2>1, FirstIsHead
    <2> QED
      BY <2>0, <2>1, <2>2, <2>3, <2>4, <2>5
  <1> QED
    BY <1>2, <1>3

\* Which call openAndStartAudioStreams() makes.
LEMMA OpenHead ==
    ASSUME Types, MadeInv, NEW x, OpenPhase(x)
    PROVE  /\ todo # <<>> /\ todo[1] = Head(todo)
           /\ Len(todo) = 4 => \/ Head(todo) = Call("open", Current, "capture")
                               \/ Head(todo) = Call("await", Current, "capture")
           /\ Len(todo) = 3 => Head(todo) = Call("start", Current, "capture")
           /\ Len(todo) = 2 => \/ Head(todo) = Call("open", Current, "playback")
                               \/ Head(todo) = Call("await", Current, "playback")
           /\ Len(todo) = 1 => Head(todo) = Call("start", Current, "playback")
  <1>1. PICK k \in Contexts : k = Current
    BY CurrentIs
  <1>2. k \in 0..MaxContexts /\ k - 1 \in 0..MaxContexts /\ todo \in Seq(Calls)
    BY <1>1, AudioContextAssumption DEF Contexts, Types
  <1> DEFINE p == Replacement(k - 1, k)
  <1>3. Len(todo) \in 1..4 /\ Follows(p) /\ Len(p) = 11
    BY <1>1, <1>2, ReplacementIs DEF OpenPhase
  <1> HIDE DEF p
  <1>4. todo # <<>> /\ Head(todo) = todo[1]
    <2>1. PICK n \in 1..4 : n = Len(todo)
      BY <1>3
    <2>2. Len(todo) > 0
      BY <2>1
    <2> QED
      BY <1>2, <2>2, FirstIsHead
  <1>5. LET call == p[12 - Len(todo)]
        IN todo[1] = call \/ (call.op = "open" /\ todo[1] = [call EXCEPT !.op = "await"])
    <2>1. 1 \in 1..Len(todo) /\ Len(p) - Len(todo) + 1 = 12 - Len(todo)
      <3>1. PICK n \in 1..4 : n = Len(todo)
        BY <1>3
      <3>2. 1 \in 1..n /\ 11 - n + 1 = 12 - n
        OBVIOUS
      <3> QED
        BY <3>1, <3>2, <1>3
    <2> QED
      BY <1>3, <2>1 DEF Follows
  <1>6. /\ p[8] = Call("open", k, "capture") /\ p[9] = Call("start", k, "capture")
        /\ p[10] = Call("open", k, "playback") /\ p[11] = Call("start", k, "playback")
    BY <1>2, ReplacementIs DEF p
  <1>7. CASE Len(todo) = 4
    <2>1. 12 - Len(todo) = 8
      BY <1>7
    <2> QED
      BY <1>1, <1>4, <1>5, <1>6, <1>7, <2>1, CallFields
  <1>8. CASE Len(todo) = 3
    <2>1. 12 - Len(todo) = 9
      BY <1>8
    <2> QED
      BY <1>1, <1>4, <1>5, <1>6, <1>8, <2>1, CallFields
  <1>9. CASE Len(todo) = 2
    <2>1. 12 - Len(todo) = 10
      BY <1>9
    <2> QED
      BY <1>1, <1>4, <1>5, <1>6, <1>9, <2>1, CallFields
  <1>10. CASE Len(todo) = 1
    <2>1. 12 - Len(todo) = 11
      BY <1>10
    <2> QED
      BY <1>1, <1>4, <1>5, <1>6, <1>10, <2>1, CallFields
  <1> QED
    BY <1>3, <1>4, <1>7, <1>8, <1>9, <1>10

\* A step touches at most one stream and its flags, and moves no thread.
Touches(c, d) ==
    /\ \A b \in Contexts, e \in Directions :
          b # c \/ e # d => /\ stream'[b][e] = stream[b][e]
                            /\ opened'[b][e] = opened[b][e] /\ started'[b][e] = started[b][e]
    /\ \A b \in Contexts, e \in Directions : stream'[b][e].at = stream[b][e].at

\* A call made for one stream keeps what the invariant says of the others.
LEMMA CallKeepsStreams ==
    ASSUME NEW x, NEW y, NEW c, NEW d, NEW op,
           StreamsInv(x), todo # <<>>, todo[1] = Call(op, c, d), kind' = kind, Touches(c, d),
           \A b \in Contexts : b \in dead \/ b = x => b \in dead' \/ b = y,
           \A b, e : Awaiting(b, e)' => b = c /\ e = d,
           c \in Contexts => StreamInv(y, c, d)'
    PROVE  StreamsInv(y)'
  <1> SUFFICES ASSUME NEW b \in Contexts, NEW e \in Directions PROVE StreamInv(y, b, e)'
    BY DEF StreamsInv
  <1>1. CASE b = c /\ e = d
    BY <1>1
  <1>2. CASE b # c \/ e # d
    <2>1. ~Awaiting(b, e) /\ ~Awaiting(b, e)'
      BY <1>2, CallFields DEF Awaiting
    <2>2. StreamInv(x, b, e)
      BY DEF StreamsInv
    <2> QED
      BY <1>2, <2>1, <2>2, UntouchedStream DEF Touches
  <1> QED
    BY <1>1, <1>2

\* It keeps what is said of the contexts that are gone.
LEMMA CallKeepsDead ==
    ASSUME Types, NEW x, NEW c, NEW d, DeadInv(x), todo # <<>>, kind' = kind, dead' = dead,
           Touches(c, d), c \notin dead
    PROVE  DeadInv(x)' /\ Current' = Current
  <1>1. Current' = Current
    BY DEF Current
  <1>2. \A b \in dead : b \in Contexts /\ b # c
    BY DEF Types
  <1> QED
    BY <1>1, <1>2 DEF DeadInv, Touches

\* A destructor with more calls to make goes on to the next.
LEMMA DestroyGoesOn ==
    ASSUME Types, MadeInv, NEW x \in 0..MaxContexts, NEW m,
           \/ ReplacePhase(x) /\ m = Len(todo) - 4
           \/ QuitPhase(x) /\ m = Len(todo),
           m > 1, Returned, kind' = kind, paused' = paused, changed' = changed,
           Destroyed(x, m - 1)',
           \A e \in Directions : Current # x => stream'[Current][e] = stream[Current][e],
           started'[x]["capture"] => started[x]["capture"]
    PROVE  PhaseInv(x)' /\ \A c, d : ~Awaiting(c, d)'
  <1>1. m \in 1..7 /\ x \in Contexts /\ todo # <<>>
    BY DestroyHead
  <1>2. PICK k \in Contexts : k = Current /\ k = Current'
    BY CurrentIs DEF Current
  <1>3. k \in 0..MaxContexts /\ k - 1 \in 0..MaxContexts /\ todo \in Seq(Calls) /\ MaxContexts \in Nat
    BY AudioContextAssumption DEF Contexts, Types
  <1>4. PICK n \in Nat : n = Len(todo)
    BY <1>3, LenProperties
  <1>5. CASE ReplacePhase(x) /\ m = Len(todo) - 4
    <2>1. Replacement(k - 1, k) \in Seq(Calls)
          /\ \A i \in 1..Len(Replacement(k - 1, k)) : Replacement(k - 1, k)[i].op # "await"
      <3>1. Replacement(k - 1, k) \in Seq(Calls) /\ Len(Replacement(k - 1, k)) = 11
        BY <1>3, ReplacementIs
      <3>2. \A i \in 1..11 : Replacement(k - 1, k)[i].op # "await"
        BY <1>3, NoneWaits
      <3> QED
        BY <3>1, <3>2
    <2>2. Follows(Replacement(k - 1, k)) /\ x = k - 1 /\ x # 0
      BY <1>2, <1>5 DEF ReplacePhase
    <2>3. /\ Follows(Replacement(k - 1, k))'
          /\ Len(todo') = Len(todo) - 1
          /\ \A c, d : ~Awaiting(c, d)'
      BY <1>1, <1>3, <2>1, <2>2, FollowsOn
    <2>4. Len(todo') > 4 /\ Len(todo') - 4 = m - 1
      BY <1>4, <1>5, <2>3, <1>1
    <2>5. Destroyed(x, Len(todo) - 4)'
      BY <2>4
    <2>6. \A d \in Directions : stream'[Current'][d].handle = "none"
      <3>1. k # x
        BY <1>3, <2>2
      <3>2. \A d \in Directions : stream[k][d].handle = "none"
        BY <1>2, <1>5 DEF ReplacePhase
      <3> QED
        BY <1>2, <3>1, <3>2
    <2>7. ReplacePhase(x)'
      BY <1>2, <1>5, <2>2, <2>3, <2>4, <2>5, <2>6 DEF ReplacePhase, Follows
    <2> QED
      BY <2>3, <2>7 DEF PhaseInv
  <1>6. CASE QuitPhase(x) /\ m = Len(todo)
    <2>1. Destructor(k) \in Seq(Calls) /\ \A i \in 1..Len(Destructor(k)) : Destructor(k)[i].op # "await"
      <3>1. Destructor(k) \in Seq(Calls) /\ Len(Destructor(k)) = 7
        BY <1>3, CallsAre, DestructorIs
      <3>2. \A i \in 1..7 : Destructor(k)[i].op # "await"
        BY <1>3, NoneWaits
      <3> QED
        BY <3>1, <3>2
    <2>2. Follows(Destructor(k)) /\ x = k
      BY <1>2, <1>6 DEF QuitPhase
    <2>3. /\ Follows(Destructor(k))'
          /\ Len(todo') = Len(todo) - 1
          /\ \A c, d : ~Awaiting(c, d)'
      BY <1>1, <1>3, <2>1, <2>2, FollowsOn
    <2>4. Len(todo') > 0 /\ Len(todo') = m - 1
      BY <1>4, <1>6, <2>3, <1>1
    <2>5. Destroyed(x, Len(todo))'
      BY <2>4
    <2>6. Silent'
      BY <1>2, <1>6, <2>2 DEF QuitPhase, Silent
    <2>7. QuitPhase(x)'
      BY <1>2, <1>6, <2>2, <2>3, <2>4, <2>5, <2>6 DEF QuitPhase, Follows
    <2> QED
      BY <2>3, <2>7 DEF PhaseInv
  <1> QED
    BY <1>5, <1>6

\* openAndStartAudioStreams() goes on to its next call, or returns.
LEMMA OpenGoesOn ==
    ASSUME Types, MadeInv, NEW x, OpenPhase(x), Returned, kind' = kind, paused' = paused,
           changed' = changed,
           Len(todo) < 5 => opened'[Current]["capture"],
           Len(todo) < 3 => opened'[Current]["playback"]
    PROVE  PhaseInv(x)' /\ \A c, d : ~Awaiting(c, d)'
  <1>1. todo # <<>> /\ x = 0 /\ Len(todo) \in 1..4
    BY OpenHead DEF OpenPhase
  <1>2. PICK k \in Contexts : k = Current /\ k = Current'
    BY CurrentIs DEF Current
  <1>3. k \in 0..MaxContexts /\ k - 1 \in 0..MaxContexts /\ todo \in Seq(Calls)
    BY AudioContextAssumption DEF Contexts, Types
  <1>4. PICK n \in 1..4 : n = Len(todo)
    BY <1>1
  <1>5. Replacement(k - 1, k) \in Seq(Calls)
        /\ \A i \in 1..Len(Replacement(k - 1, k)) : Replacement(k - 1, k)[i].op # "await"
    <2>1. Replacement(k - 1, k) \in Seq(Calls) /\ Len(Replacement(k - 1, k)) = 11
      BY <1>3, ReplacementIs
    <2>2. \A i \in 1..11 : Replacement(k - 1, k)[i].op # "await"
      BY <1>3, NoneWaits
    <2> QED
      BY <2>1, <2>2
  <1>6. Follows(Replacement(k - 1, k)) /\ (paused => changed)
    BY <1>2 DEF OpenPhase
  <1>7. /\ Follows(Replacement(k - 1, k))'
        /\ Len(todo') = Len(todo) - 1
        /\ \A c, d : ~Awaiting(c, d)'
    BY <1>1, <1>3, <1>5, <1>6, FollowsOn
  <1>8. CASE n = 1
    <2>1. todo' \in Seq(Calls) /\ Len(todo') = 0
      BY <1>1, <1>3, <1>4, <1>7, <1>8, ReturnedLeaves
    <2>2. todo' = <<>>
      BY <2>1, EmptySeq
    <2>3. AllOpened'
      BY <1>2, <1>4, <1>8 DEF AllOpened, Directions
    <2> QED
      BY <1>1, <1>6, <1>7, <2>2, <2>3 DEF PhaseInv, IdlePhase, Silent
  <1>9. CASE n # 1
    <2>1. Len(todo') \in 1..4 /\ (Len(todo') < 4 => opened'[k]["capture"])
          /\ (Len(todo') < 2 => opened'[k]["playback"])
      BY <1>2, <1>4, <1>7, <1>9
    <2>2. OpenPhase(x)'
      BY <1>1, <1>2, <1>6, <1>7, <2>1 DEF OpenPhase, Follows
    <2> QED
      BY <1>7, <2>2 DEF PhaseInv
  <1> QED
    BY <1>8, <1>9

\* The handler of pausedChanged returns.
LEMMA PauseReturns ==
    ASSUME Types, MadeInv, NEW x, PausePhase(x), Returned, kind' = kind, paused' = paused,
           changed' = changed, opened' = opened,
           Head(todo).op = "stop" => ~started'[Current]["capture"]
    PROVE  PhaseInv(x)' /\ \A c, d : ~Awaiting(c, d)'
  <1>1. todo' = <<>>
    <2>1. \A a : Tail(<<a>>) = <<>>
      OBVIOUS
    <2> QED
      BY <2>1, Zenon DEF PausePhase, Returned
  <1>2. Current' = Current
    BY DEF Current
  <1>3. Head(todo) = Call("stop", Current, "capture") \/ ~paused
    BY DEF PausePhase
  <1>4. Silent' /\ AllOpened'
    BY <1>2, <1>3, CallFields DEF Silent, AllOpened, PausePhase
  <1> QED
    BY <1>1, <1>4 DEF PhaseInv, IdlePhase, PausePhase, Awaiting

\* Starting an open stream, and stopping a stream, does what the flag then says.
LEMMA StartStopKeeps ==
    ASSUME Types, NEW x, NEW c \in Contexts, NEW d \in Directions, NEW op \in {"start", "stop"},
           todo # <<>>, Head(todo) = Call(op, c, d), todo[1] = Head(todo), StartStopStream,
           StreamInv(x, c, d), kind[c] \in Backends, op = "start" => opened[c][d],
           \A b, e : ~Awaiting(b, e)', todo' \in Seq(Calls)
    PROVE  /\ Types' /\ Touches(c, d)
           /\ started'[c][d] <=> op = "start"
           /\ StreamInv(x, c, d)'
  <1>1. /\ kind' = kind /\ dead' = dead /\ opened' = opened /\ rate' = rate /\ paused' = paused
        /\ changed' = changed /\ over' = over /\ available' = available
    BY DEF StartStopStream
  <1> DEFINE s == stream[c][d]  t == StreamOp(kind[c], op, s)
  <1>2. s \in Streams /\ started[c][d] \in BOOLEAN /\ opened[c][d] \in BOOLEAN
    BY DEF Types
  <1>3. ~Awaiting(c, d) /\ ~Awaiting(c, d)'
    BY CallFields DEF Awaiting
  <1>4. CASE started[c][d] = (op = "start")
    <2>1. stream' = stream /\ started' = started
      BY <1>4, CallFields DEF StartStopStream
    <2>2. started[c][d] <=> op = "start"
      BY <1>2, <1>4, Zenon
    <2>3. StreamInv(x, c, d)'
      BY <1>1, <1>3, <2>1, UntouchedStream
    <2> QED
      BY <1>1, <2>1, <2>2, <2>3 DEF Types, Touches
  <1>5. CASE ~(started[c][d] = (op = "start"))
    <2>1. /\ Waits(kind[c], op) => s.at # "transfer"
          /\ stream' = [stream EXCEPT ![c][d] = t]
          /\ started' = [started EXCEPT ![c][d] = (op = "start")]
      BY <1>5, CallFields DEF StartStopStream, FlagAfter
    <2>2. ~(started[c][d] <=> op = "start")
      BY <1>2, <1>5, Zenon
    <2>3. t \in Streams /\ t.at = s.at
      BY <1>2, OperationIs
    <2>4. /\ stream' \in [Contexts -> [Directions -> Streams]]
          /\ stream'[c][d] = t
          /\ \A b \in Contexts, e \in Directions : b # c \/ e # d => stream'[b][e] = stream[b][e]
      BY <2>1, <2>3, OneStream
    <2>5. /\ started' \in [Contexts -> [Directions -> BOOLEAN]]
          /\ started'[c][d] = (op = "start")
          /\ \A b \in Contexts, e \in Directions : b # c \/ e # d => started'[b][e] = started[b][e]
      <3>1. (op = "start") \in BOOLEAN /\ started \in [Contexts -> [Directions -> BOOLEAN]]
        BY Zenon DEF Types
      <3>2. PICK v \in BOOLEAN : v = (op = "start")
        BY <3>1, Zenon
      <3>3. started' = [started EXCEPT ![c][d] = v]
        BY <2>1, <3>2, Zenon
      <3>4. /\ started' \in [Contexts -> [Directions -> BOOLEAN]]
            /\ started'[c][d] = v
            /\ \A b \in Contexts, e \in Directions : b # c \/ e # d => started'[b][e] = started[b][e]
        BY <3>1, <3>3, OneFlag
      <3> QED
        BY <3>2, <3>4, Zenon
    <2>6. started'[c][d] <=> op = "start"
      BY <2>5, Zenon
    <2>7. Types' /\ Touches(c, d)
      BY <1>1, <2>3, <2>4, <2>5 DEF Types, Touches
    <2>8. s.at = "transfer" /\ kind[c] = "WebAudio" => FALSE
      BY DEF StreamInv
    <2>9. CASE op = "start"
      <3>1. ~started[c][d] /\ opened[c][d] /\ started'[c][d]
        BY <2>2, <2>6, <2>9
      <3>2. s.handle # "none" /\ s.handle # "closed" /\ (kind[c] = "PortAudio" => s.handle = "stopped")
        BY <1>2, <3>1 DEF StreamInv, Running, Streams, Handles
      <3>3. t.handle = "running" /\ (kind[c] \in {"ALSA", "PortAudio"} => ~t.pause)
        BY <1>2, <2>9, <3>2, OperationIs
      <3> HIDE DEF t
      <3>4. Running(c, d)'
        BY <1>1, <2>4, <3>3 DEF Running
      <3>5. StreamInv(x, c, d)'
        BY <1>1, <1>3, <2>3, <2>4, <2>8, <3>1, <3>3, <3>4 DEF StreamInv
      <3> QED
        BY <2>6, <2>7, <3>5
    <2>10. CASE op = "stop"
      <3>1. started[c][d] /\ opened[c][d] /\ ~started'[c][d] /\ Running(c, d)
        BY <2>2, <2>6, <2>10 DEF StreamInv
      <3>2. s.handle = "running" /\ ~(kind[c] = "PortAudio" /\ s.at = "transfer")
        BY <2>1, <2>10, <3>1 DEF Running, Waits
      <3>3. /\ kind[c] = "ALSA" => t.handle = "running" /\ t.pause
            /\ kind[c] \in {"PortAudio", "WebAudio"} => t.handle = "stopped"
            /\ kind[c] \in {"Pulse", "Oboe"} => t.handle = "stopping"
        BY <1>2, <2>10, <3>2, OperationIs
      <3> HIDE DEF t
      <3>4. ~Running(c, d)' /\ t.handle \in {"stopped", "running", "stopping"}
        BY <1>1, <2>4, <3>3 DEF Running, Backends
      <3>5. StreamInv(x, c, d)'
        BY <1>1, <1>3, <2>3, <2>4, <2>8, <3>1, <3>2, <3>3, <3>4 DEF StreamInv, Backends
      <3> QED
        BY <2>6, <2>7, <3>5
    <2> QED
      BY <2>9, <2>10
  <1> QED
    BY <1>4, <1>5

\* The destructor of x has m calls left.
DestroyAt(x, m) ==
    \/ ReplacePhase(x) /\ m = Len(todo) - 4
    \/ QuitPhase(x) /\ m = Len(todo)

\* The call a destructor comes to.
LEMMA DestroyCalls ==
    ASSUME Types, MadeInv, NEW x \in 0..MaxContexts, NEW m, DestroyAt(x, m)
    PROVE  /\ m \in 1..7 /\ x \in Contexts /\ kind[x] \in Backends
           /\ todo # <<>> /\ todo[1] = Head(todo) /\ Destroyed(x, m)
           /\ m = 7 => Head(todo) = Call("stop", x, "capture")
           /\ m = 6 => Head(todo) = Call("close", x, "capture")
           /\ m = 5 => Head(todo) = Call("stop", x, "playback")
           /\ m = 4 => Head(todo) = Call("close", x, "playback")
           /\ m = 3 => Head(todo) = Call("terminate", x, "capture")
           /\ m = 2 => Head(todo) = Call("join", x, "capture")
           /\ m = 1 => Head(todo) = Call("gone", x, "capture")
  <1>1. /\ m \in 1..7 /\ x \in Contexts
        /\ Head(todo) = Destructor(x)[8 - m] /\ todo[1] = Head(todo) /\ todo # <<>>
        /\ Destroyed(x, m)
    BY DestroyHead DEF DestroyAt
  <1>2. kind[x] \in Backends
    <2>1. Current \in Contexts /\ (x <= Current => kind[x] # "none")
      BY <1>1, CurrentIs
    <2>2. x = Current \/ x = Current - 1
      BY DEF DestroyAt, ReplacePhase, QuitPhase
    <2>3. x <= Current
      BY <2>1, <2>2, AudioContextAssumption DEF Contexts
    <2> QED
      BY <1>1, <2>1, <2>3 DEF Types
  <1>3. /\ m = 7 => 8 - m = 1
        /\ m = 6 => 8 - m = 2
        /\ m = 5 => 8 - m = 3
        /\ m = 4 => 8 - m = 4
        /\ m = 3 => 8 - m = 5
        /\ m = 2 => 8 - m = 6
        /\ m = 1 => 8 - m = 7
    BY <1>1
  <1> DEFINE p == Destructor(x)
  <1>4. /\ p[1] = Call("stop", x, "capture") /\ p[2] = Call("close", x, "capture")
        /\ p[3] = Call("stop", x, "playback") /\ p[4] = Call("close", x, "playback")
        /\ p[5] = Call("terminate", x, "capture") /\ p[6] = Call("join", x, "capture")
        /\ p[7] = Call("gone", x, "capture") /\ Head(todo) = p[8 - m]
    BY <1>1, DestructorIs
  <1> HIDE DEF p
  <1> QED
    BY <1>1, <1>2, <1>3, <1>4

\* A call of a destructor leaves nothing to wait for.
LEMMA DestroyAwaitsNothing ==
    ASSUME Types, MadeInv, NEW x \in 0..MaxContexts, NEW m, DestroyAt(x, m), todo # <<>>, Returned
    PROVE  \A c, d : ~Awaiting(c, d)'
  <1>1. CASE ReplacePhase(x)
    <2>1. PICK k \in Contexts : k = Current
      BY CurrentIs
    <2>2. k \in 0..MaxContexts /\ k - 1 \in 0..MaxContexts /\ todo \in Seq(Calls)
      BY AudioContextAssumption DEF Contexts, Types
    <2>3. Replacement(k - 1, k) \in Seq(Calls) /\ Len(Replacement(k - 1, k)) = 11
          /\ \A i \in 1..11 : Replacement(k - 1, k)[i].op # "await"
      BY <2>2, ReplacementIs, NoneWaits
    <2> QED
      BY <2>1, <2>2, <2>3, <1>1, FollowsOn DEF ReplacePhase
  <1>2. CASE QuitPhase(x)
    <2>1. Destructor(x) \in Seq(Calls) /\ Len(Destructor(x)) = 7
          /\ \A i \in 1..7 : Destructor(x)[i].op # "await"
      BY CallsAre, DestructorIs, NoneWaits
    <2> QED
      BY <2>1, <1>2, FollowsOn DEF QuitPhase, Types
  <1> QED
    BY <1>1, <1>2 DEF DestroyAt

\* A main thread that has a call to make is in one of three phases.
LEMMA BusyPhases ==
    ASSUME Types, MadeInv, NEW x \in 0..MaxContexts, PhaseInv(x), todo # <<>>
    PROVE  (\E m \in 1..7 : DestroyAt(x, m)) \/ OpenPhase(x) \/ PausePhase(x)
  <1>1. Len(todo) \in Int
    BY LenProperties DEF Types
  <1>2. CASE ReplacePhase(x)
    <2>1. PICK m : m = Len(todo) - 4
      OBVIOUS
    <2> QED
      BY <1>2, <2>1, DestroyCalls DEF DestroyAt
  <1>3. CASE QuitPhase(x)
    <2>1. PICK m : m = Len(todo)
      OBVIOUS
    <2> QED
      BY <1>3, <2>1, DestroyCalls DEF DestroyAt
  <1> QED
    BY <1>2, <1>3 DEF PhaseInv, IdlePhase

\* The context whose destructor runs, and the current one while calls are made
\* for it, are not gone.
LEMMA Alive ==
    ASSUME Types, MadeInv, NEW x, DeadInv(x), todo # <<>>
    PROVE  x \notin dead /\ Current \notin dead /\ Current \in Contexts /\ kind[Current] \in Backends
  <1>1. Current \in Contexts /\ kind[Current] # "none"
    BY CurrentIs, AudioContextAssumption DEF Contexts
  <1> QED
    BY <1>1 DEF DeadInv, Types

\* A call for one stream that returns keeps the invariant, if it keeps what is
\* said of that stream and of the phase.
LEMMA CallReturns ==
    ASSUME Types, MadeInv, NEW x \in 0..MaxContexts, DeadInv(x), StreamsInv(x),
           NEW c \in Contexts, NEW d \in Directions, NEW op, todo # <<>>, todo[1] = Call(op, c, d),
           c \notin dead, kind' = kind, dead' = dead, Touches(c, d), StreamInv(x, c, d)',
           \A b, e : Awaiting(b, e)' => b = c /\ e = d,
           PhaseInv(x)', RateInv'
    PROVE  LiveInv'
  <1>1. StreamsInv(x)'
    BY CallKeepsStreams
  <1>2. DeadInv(x)'
    BY CallKeepsDead
  <1>3. MadeInv'
    BY DEF MadeInv
  <1> QED
    BY <1>1, <1>2, <1>3 DEF LiveInv, LiveAt

\* stopStream() and startStream() keep the invariant.
LEMMA StartStopStep ==
    ASSUME Types, LiveInv, ~over, StartStopStream
    PROVE  Types' /\ LiveInv' /\ ~over'
  <1>1. PICK x \in 0..MaxContexts : LiveAt(x)
    BY DEF LiveInv
  <1>2. /\ kind' = kind /\ dead' = dead /\ opened' = opened /\ rate' = rate /\ paused' = paused
        /\ changed' = changed /\ over' = over /\ Returned /\ todo # <<>>
        /\ Head(todo).op \in {"start", "stop"}
    BY DEF StartStopStream, Head1
  <1>3. Types /\ MadeInv /\ RateInv /\ PhaseInv(x) /\ DeadInv(x) /\ StreamsInv(x) /\ todo' \in Seq(Calls)
    BY <1>1, <1>2, ReturnedLeaves DEF LiveInv, LiveAt, Types
  <1>4. MadeInv' /\ RateInv' /\ Current' = Current
    BY <1>2, <1>3 DEF MadeInv, RateInv, Current
  <1>5. x \notin dead /\ Current \notin dead /\ Current \in Contexts /\ kind[Current] \in Backends
    BY <1>2, <1>3, Alive
  <1>6. ASSUME NEW c \in Contexts, NEW d \in Directions, NEW op \in {"start", "stop"},
               Head(todo) = Call(op, c, d), todo[1] = Head(todo), c \notin dead,
               Types', Touches(c, d), StreamInv(x, c, d)', PhaseInv(x)', \A b, e : ~Awaiting(b, e)'
        PROVE  Types' /\ LiveInv' /\ ~over'
    BY <1>2, <1>3, <1>4, <1>6, CallReturns
  <1>7. CASE \E m \in 1..7 : DestroyAt(x, m)
    <2>1. PICK m \in 1..7 : DestroyAt(x, m)
      BY <1>7
    <2>2. m = 7 \/ m = 5
      <3>1. m = 6 \/ m = 4 \/ m = 3 \/ m = 2 \/ m = 1 => Head(todo).op \notin {"start", "stop"}
        BY <1>3, <2>1, DestroyCalls, CallFields
      <3> QED
        BY <1>2, <3>1
    <2> DEFINE d == IF m = 7 THEN "capture" ELSE "playback"
    <2>3. /\ Head(todo) = Call("stop", x, d) /\ todo[1] = Head(todo) /\ d \in Directions
          /\ x \in Contexts /\ kind[x] \in Backends /\ Destroyed(x, m)
      BY <1>3, <2>1, <2>2, DestroyCalls DEF Directions
    <2>4. PICK e \in Directions : e = d
      BY <2>3
    <2>5. \A b, f : ~Awaiting(b, f)'
      BY <1>2, <1>3, <2>1, DestroyAwaitsNothing
    <2>6. /\ Types' /\ Touches(x, e) /\ ~started'[x][e] /\ StreamInv(x, x, e)'
      <3>1. StreamInv(x, x, e)
        BY <1>3, <2>3 DEF StreamsInv
      <3>2. Head(todo) = Call("stop", x, e)
        BY <2>3, <2>4
      <3> QED
        BY <1>2, <1>3, <2>3, <2>5, <3>1, <3>2, StartStopKeeps
    <2>7. Destroyed(x, m - 1)'
      <3>1. CASE m = 7
        BY <3>1, <2>4, <2>6 DEF Destroyed
      <3>2. CASE m = 5
        <4>1. ~started'[x]["capture"] /\ ~opened'[x]["capture"] /\ ~started'[x]["playback"]
          <5>1. ~started[x]["capture"] /\ ~opened[x]["capture"]
            BY <2>3, <3>2 DEF Destroyed
          <5> QED
            BY <1>2, <2>3, <2>4, <2>6, <3>2, <5>1 DEF Touches, Directions
        <4> QED
          BY <3>2, <4>1 DEF Destroyed
      <3> QED
        BY <2>2, <3>1, <3>2
    <2>8. PhaseInv(x)'
      <3>1. started'[x]["capture"] => started[x]["capture"]
        BY <2>3, <2>4, <2>6 DEF Touches, Directions
      <3>2. \A f \in Directions : Current # x => stream'[Current][f] = stream[Current][f]
        BY <1>5, <2>6 DEF Touches
      <3>3. m > 1
        BY <2>2
      <3> QED
        BY <1>2, <1>3, <2>1, <2>7, <3>1, <3>2, <3>3, DestroyGoesOn DEF DestroyAt
    <2> QED
      BY <1>5, <1>6, <2>3, <2>4, <2>5, <2>6, <2>8
  <1>8. CASE OpenPhase(x)
    <2>1. PICK k \in Contexts : k = Current
      BY <1>5
    <2>2. PICK n \in 1..4 : n = Len(todo)
      BY <1>8 DEF OpenPhase
    <2>3. n = 3 \/ n = 1
      <3>1. n = 4 \/ n = 2 => Head(todo).op \notin {"start", "stop"}
        BY <1>3, <1>8, <2>2, OpenHead, CallFields
      <3> QED
        BY <1>2, <3>1
    <2>4. PICK d \in Directions : d = IF n = 3 THEN "capture" ELSE "playback"
      BY DEF Directions
    <2>5. Head(todo) = Call("start", k, d) /\ todo[1] = Head(todo)
      BY <1>3, <1>8, <2>1, <2>2, <2>3, <2>4, OpenHead
    <2>6. /\ opened[k]["capture"] /\ (n = 1 => opened[k]["playback"])
      BY <1>8, <2>1, <2>2, <2>3 DEF OpenPhase
    <2>7. PhaseInv(x)' /\ \A b, e : ~Awaiting(b, e)'
      <3>1. Len(todo) < 3 => opened'[Current]["playback"]
        <4>1. n < 3 => n = 1
          BY <2>3
        <4> QED
          BY <1>2, <2>1, <2>2, <2>6, <4>1
      <3> QED
        BY <1>2, <1>3, <1>8, <2>1, <2>6, <3>1, OpenGoesOn
    <2>8. Types' /\ Touches(k, d) /\ StreamInv(x, k, d)'
      <3>1. StreamInv(x, k, d) /\ opened[k][d]
        BY <1>3, <2>3, <2>4, <2>6 DEF StreamsInv
      <3> QED
        BY <1>2, <1>3, <1>5, <2>1, <2>5, <2>7, <3>1, StartStopKeeps
    <2> QED
      BY <1>5, <1>6, <2>1, <2>5, <2>7, <2>8
  <1>9. CASE PausePhase(x)
    <2>1. PICK k \in Contexts : k = Current
      BY <1>5
    <2>2. PICK op \in {"start", "stop"} :
             Head(todo) = Call(op, k, "capture") /\ todo[1] = Head(todo)
      BY <1>9, <2>1 DEF PausePhase
    <2>3. opened[k]["capture"]
      BY <1>9, <2>1 DEF PausePhase, AllOpened, Directions
    <2>4. \A b, e : ~Awaiting(b, e)'
      <3>1. \A a : Tail(<<a>>) = <<>>
        OBVIOUS
      <3>2. todo' = <<>>
        BY <1>2, <1>9, <3>1, Zenon DEF PausePhase, Returned
      <3> QED
        BY <3>2 DEF Awaiting
    <2>5. "capture" \in Directions /\ StreamInv(x, k, "capture")
      BY <1>3 DEF StreamsInv, Directions
    <2>6. /\ Types' /\ Touches(k, "capture") /\ StreamInv(x, k, "capture")'
          /\ started'[k]["capture"] <=> op = "start"
      BY <1>2, <1>3, <1>5, <2>1, <2>2, <2>3, <2>4, <2>5, StartStopKeeps
    <2>7. PhaseInv(x)'
      <3>1. Head(todo).op = "stop" => ~started'[Current]["capture"]
        BY <2>1, <2>2, <2>6, CallFields
      <3> QED
        BY <1>2, <1>3, <1>9, <3>1, PauseReturns
    <2> QED
      BY <1>5, <1>6, <2>1, <2>2, <2>4, <2>5, <2>6, <2>7
  <1> QED
    BY <1>2, <1>3, <1>7, <1>8, <1>9, BusyPhases

\* Closing a stream keeps the invariant.
LEMMA CloseStep ==
    ASSUME Types, LiveInv, ~over, CloseStream
    PROVE  Types' /\ LiveInv' /\ ~over'
  <1>1. PICK x \in 0..MaxContexts : LiveAt(x)
    BY DEF LiveInv
  <1>2. /\ kind' = kind /\ dead' = dead /\ started' = started /\ rate' = rate /\ paused' = paused
        /\ changed' = changed /\ over' = over /\ available' = available /\ Returned /\ todo # <<>>
        /\ Head(todo).op = "close"
    BY DEF CloseStream, Head1
  <1>3. Types /\ MadeInv /\ RateInv /\ PhaseInv(x) /\ DeadInv(x) /\ StreamsInv(x) /\ todo' \in Seq(Calls)
    BY <1>1, <1>2, ReturnedLeaves DEF LiveInv, LiveAt, Types
  <1>4. x \notin dead /\ Current \notin dead /\ Current \in Contexts
    BY <1>2, <1>3, Alive
  <1>5. PICK m \in 1..7 : DestroyAt(x, m)
    <2>1. ~OpenPhase(x)
      <3>1. SUFFICES ASSUME OpenPhase(x) PROVE FALSE
        OBVIOUS
      <3>2. PICK n \in 1..4 : n = Len(todo)
        BY <3>1 DEF OpenPhase
      <3> QED
        BY <1>2, <1>3, <3>1, <3>2, OpenHead, CallFields
    <2>2. ~PausePhase(x)
      BY <1>2, CallFields DEF PausePhase
    <2> QED
      BY <1>2, <1>3, <2>1, <2>2, BusyPhases
  <1>6. m = 6 \/ m = 4
    <2>1. m = 7 \/ m = 5 \/ m = 3 \/ m = 2 \/ m = 1 => Head(todo).op # "close"
      BY <1>3, <1>5, DestroyCalls, CallFields
    <2> QED
      BY <1>2, <2>1
  <1>7. PICK d \in Directions : d = IF m = 6 THEN "capture" ELSE "playback"
    BY DEF Directions
  <1>8. /\ Head(todo) = Call("close", x, d) /\ todo[1] = Head(todo)
        /\ x \in Contexts /\ kind[x] \in Backends /\ Destroyed(x, m)
    BY <1>3, <1>5, <1>6, <1>7, DestroyCalls
  <1>9. \A b, f : ~Awaiting(b, f)'
    BY <1>2, <1>3, <1>5, DestroyAwaitsNothing
  <1> DEFINE s == stream[x][d]  t == StreamOp(kind[x], "close", s)
  <1>10. /\ s \in Streams /\ StreamInv(x, x, d) /\ ~Awaiting(x, d) /\ ~started[x][d]
         /\ opened[x][d] \in BOOLEAN
    <2>1. s \in Streams /\ opened[x][d] \in BOOLEAN
      BY <1>3, <1>8 DEF Types
    <2>2. StreamInv(x, x, d)
      BY <1>3, <1>8 DEF StreamsInv
    <2>3. ~Awaiting(x, d)
      BY <1>8, CallFields DEF Awaiting
    <2>4. ~started[x][d]
      BY <1>6, <1>7, <1>8 DEF Destroyed
    <2> QED
      BY <2>1, <2>2, <2>3, <2>4
  <1>11. Types' /\ Touches(x, d) /\ ~opened'[x][d] /\ StreamInv(x, x, d)'
    <2>1. CASE ~opened[x][d]
      <3>1. stream' = stream /\ opened' = opened
        BY <1>8, <2>1, CallFields DEF CloseStream
      <3>2. StreamInv(x, x, d)'
        BY <1>2, <1>9, <1>10, <3>1, UntouchedStream
      <3> QED
        BY <1>2, <1>3, <2>1, <3>1, <3>2 DEF Types, Touches
    <2>2. CASE opened[x][d]
      <3>1. /\ Waits(kind[x], "close") => s.at # "transfer"
            /\ stream' = [stream EXCEPT ![x][d] = t]
            /\ opened' = [opened EXCEPT ![x][d] = FALSE]
        BY <1>8, <2>2, CallFields DEF CloseStream
      <3>2. t \in Streams /\ t.at = s.at /\ t.handle = "closed"
        BY <1>8, <1>10, OperationIs
      <3> HIDE DEF t
      <3>3. /\ stream' \in [Contexts -> [Directions -> Streams]]
            /\ stream'[x][d] = t
            /\ \A b \in Contexts, e \in Directions : b # x \/ e # d => stream'[b][e] = stream[b][e]
        BY <1>3, <1>8, <3>1, <3>2, OneStream, ZenonT(60)
      <3>4. /\ opened' \in [Contexts -> [Directions -> BOOLEAN]]
            /\ ~opened'[x][d]
            /\ \A b \in Contexts, e \in Directions : b # x \/ e # d => opened'[b][e] = opened[b][e]
        <4>1. opened \in [Contexts -> [Directions -> BOOLEAN]] /\ FALSE \in BOOLEAN
          BY Zenon DEF Types
        <4>2. PICK v \in BOOLEAN : v = FALSE
          BY <4>1, Zenon
        <4>3. opened' = [opened EXCEPT ![x][d] = v]
          BY <3>1, <4>2, Zenon
        <4>4. /\ opened' \in [Contexts -> [Directions -> BOOLEAN]]
              /\ opened'[x][d] = v
              /\ \A b \in Contexts, e \in Directions : b # x \/ e # d => opened'[b][e] = opened[b][e]
          BY <1>8, <4>1, <4>3, OneFlag
        <4> QED
          BY <4>2, <4>4, Zenon
      <3>5. ~opened'[x][d]
        BY <3>4
      <3>6. Types' /\ Touches(x, d)
        BY <1>2, <1>3, <3>2, <3>3, <3>4 DEF Types, Touches
      <3>7. ~Running(x, d)' /\ ~Awaiting(x, d)'
        BY <1>9, <3>2, <3>3 DEF Running
      <3>8. s.at = "transfer" => kind[x] \in {"ALSA", "Pulse"}
        <4>1. kind[x] # "PortAudio" \/ s.at # "transfer"
          BY <3>1 DEF Waits
        <4>2. kind[x] # "Oboe" \/ s.at # "transfer"
          BY <3>1 DEF Waits
        <4>3. kind[x] # "WebAudio" \/ s.at # "transfer"
          BY <1>2, <1>10 DEF StreamInv
        <4> QED
          BY <1>8, <4>1, <4>2, <4>3 DEF Backends
      <3>9. StreamInv(x, x, d)'
        BY <1>2, <1>8, <1>10, <3>2, <3>3, <3>5, <3>7, <3>8 DEF StreamInv, Backends
      <3> QED
        BY <3>5, <3>6, <3>9
    <2> QED
      BY <1>10, <2>1, <2>2
  <1>12. Destroyed(x, m - 1)'
    <2>1. CASE m = 6
      BY <1>2, <1>7, <1>8, <1>11, <2>1 DEF Destroyed
    <2>2. CASE m = 4
      <3>1. ~started[x]["capture"] /\ ~opened[x]["capture"] /\ ~started[x]["playback"]
        BY <1>8, <2>2 DEF Destroyed
      <3>2. ~opened'[x]["capture"]
        BY <1>7, <1>8, <1>11, <2>2, <3>1 DEF Touches, Directions
      <3> QED
        BY <1>2, <1>7, <1>11, <2>2, <3>1, <3>2 DEF Destroyed
    <2> QED
      BY <1>6, <2>1, <2>2
  <1>13. PhaseInv(x)'
    <2>1. \A f \in Directions : Current # x => stream'[Current][f] = stream[Current][f]
      BY <1>4, <1>11 DEF Touches
    <2>2. m > 1
      BY <1>6
    <2> QED
      BY <1>2, <1>3, <1>5, <1>12, <2>1, <2>2, DestroyGoesOn DEF DestroyAt
  <1>14. RateInv'
    <2>1. \A b \in Contexts, e \in Directions : opened'[b][e] => opened[b][e]
      BY <1>11 DEF Touches
    <2> QED
      BY <1>2, <1>3, <2>1 DEF RateInv
  <1>15. LiveInv'
    BY <1>2, <1>3, <1>4, <1>8, <1>9, <1>11, <1>13, <1>14, CallReturns
  <1> QED
    BY <1>2, <1>11, <1>15

\* Ending and joining the threads of a backend keeps the invariant, and the
\* threads and callbacks of the context are at rest afterwards.
LEMMA JoinStep ==
    ASSUME Types, LiveInv, ~over, Terminate \/ Join
    PROVE  Types' /\ LiveInv' /\ ~over'
  <1>1. PICK x \in 0..MaxContexts : LiveAt(x)
    BY DEF LiveInv
  <1>2. /\ kind' = kind /\ dead' = dead /\ started' = started /\ rate' = rate /\ paused' = paused
        /\ changed' = changed /\ over' = over /\ available' = available /\ Returned /\ todo # <<>>
        /\ opened' = opened /\ stream' = stream
    BY DEF Terminate, Join, Head1
  <1>3. Head(todo).op \in {"terminate", "join"} /\ (Head(todo).op = "join" => Join)
    BY DEF Terminate, Join, Head1
  <1>4. Types /\ MadeInv /\ RateInv /\ PhaseInv(x) /\ DeadInv(x) /\ StreamsInv(x) /\ todo' \in Seq(Calls)
    BY <1>1, <1>2, ReturnedLeaves DEF LiveInv, LiveAt, Types
  <1>5. x \notin dead /\ Current \notin dead /\ Current \in Contexts
    BY <1>2, <1>4, Alive
  <1>6. PICK m \in 1..7 : DestroyAt(x, m)
    <2>1. ~OpenPhase(x)
      <3>1. SUFFICES ASSUME OpenPhase(x) PROVE FALSE
        OBVIOUS
      <3>2. PICK n \in 1..4 : n = Len(todo)
        BY <3>1 DEF OpenPhase
      <3> QED
        BY <1>3, <1>4, <3>1, <3>2, OpenHead, CallFields
    <2>2. ~PausePhase(x)
      BY <1>3, CallFields DEF PausePhase
    <2> QED
      BY <1>2, <1>4, <2>1, <2>2, BusyPhases
  <1>7. (m = 3 \/ m = 2) /\ (m = 2 => Head(todo).op = "join")
    <2>1. m = 7 \/ m = 6 \/ m = 5 \/ m = 4 \/ m = 1 => Head(todo).op \notin {"terminate", "join"}
      BY <1>4, <1>6, DestroyCalls, CallFields
    <2>2. m = 2 => Head(todo).op = "join"
      BY <1>4, <1>6, DestroyCalls, CallFields
    <2> QED
      BY <1>3, <2>1, <2>2
  <1>8. /\ Head(todo) = Call(Head(todo).op, x, "capture") /\ todo[1] = Head(todo)
        /\ x \in Contexts /\ kind[x] \in Backends /\ Destroyed(x, m)
    BY <1>4, <1>6, <1>7, DestroyCalls, CallFields
  <1>9. \A b, f : ~Awaiting(b, f)'
    BY <1>2, <1>4, <1>6, DestroyAwaitsNothing
  <1>10. Types' /\ Touches(x, "capture") /\ RateInv'
    BY <1>2, <1>4 DEF Types, Touches, RateInv
  <1>11. StreamInv(x, x, "capture")'
    <2>1. StreamInv(x, x, "capture")
      BY <1>4, <1>8 DEF StreamsInv, Directions
    <2>2. ~Awaiting(x, "capture")
      BY <1>3, <1>8, CallFields DEF Awaiting
    <2> QED
      BY <1>2, <1>9, <2>1, <2>2, UntouchedStream
  <1>12. m = 2 => \A d \in Directions : stream[x][d].at \in {"idle", "gone"}
    <2> SUFFICES ASSUME m = 2, NEW d \in Directions PROVE stream[x][d].at \in {"idle", "gone"}
      OBVIOUS
    <2>1. /\ kind[x] = "ALSA" => stream[x][d].at = "gone"
          /\ kind[x] = "Pulse" => stream[x][d].at = "idle"
      BY <1>3, <1>7, <1>8, CallFields DEF Join
    <2>2. StreamInv(x, x, d) /\ ~opened[x][d] /\ ~started[x][d]
      BY <1>4, <1>8 DEF StreamsInv, Destroyed, Directions
    <2> QED
      BY <1>2, <1>8, <2>1, <2>2 DEF StreamInv, Backends
  <1>13. Destroyed(x, m - 1)'
    BY <1>2, <1>7, <1>8, <1>12 DEF Destroyed
  <1>14. PhaseInv(x)'
    <2>1. m > 1
      BY <1>7
    <2> QED
      BY <1>2, <1>4, <1>6, <1>13, <2>1, DestroyGoesOn DEF DestroyAt
  <1>15. LiveInv'
    <2>1. "capture" \in Directions
      BY DEF Directions
    <2> QED
      BY <1>2, <1>4, <1>5, <1>8, <1>9, <1>10, <1>11, <1>14, <2>1, CallReturns
  <1> QED
    BY <1>2, <1>10, <1>15

\* The end of a destructor keeps the invariant: the context is gone, and the
\* calls that open the streams of the next come now.
LEMMA GoneStep ==
    ASSUME Types, LiveInv, ~over, Gone
    PROVE  Types' /\ LiveInv' /\ ~over'
  <1>1. PICK x \in 0..MaxContexts : LiveAt(x)
    BY DEF LiveInv
  <1>2. /\ kind' = kind /\ started' = started /\ rate' = rate /\ paused' = paused
        /\ changed' = changed /\ over' = over /\ available' = available /\ Returned /\ todo # <<>>
        /\ opened' = opened /\ stream' = stream /\ Head(todo).op = "gone"
        /\ dead' = dead \cup {Head(todo).context}
    BY DEF Gone, Head1
  <1>3. Types /\ MadeInv /\ RateInv /\ PhaseInv(x) /\ DeadInv(x) /\ StreamsInv(x) /\ todo' \in Seq(Calls)
    BY <1>1, <1>2, ReturnedLeaves DEF LiveInv, LiveAt, Types
  <1>4. x \notin dead /\ Current \notin dead /\ Current \in Contexts
    BY <1>2, <1>3, Alive
  <1>5. PICK m \in 1..7 : DestroyAt(x, m)
    <2>1. ~OpenPhase(x)
      <3>1. SUFFICES ASSUME OpenPhase(x) PROVE FALSE
        OBVIOUS
      <3>2. PICK n \in 1..4 : n = Len(todo)
        BY <3>1 DEF OpenPhase
      <3> QED
        BY <1>2, <1>3, <3>1, <3>2, OpenHead, CallFields
    <2>2. ~PausePhase(x)
      BY <1>2, CallFields DEF PausePhase
    <2> QED
      BY <1>2, <1>3, <2>1, <2>2, BusyPhases
  <1>6. m = 1
    <2>1. m = 7 \/ m = 6 \/ m = 5 \/ m = 4 \/ m = 3 \/ m = 2 => Head(todo).op # "gone"
      BY <1>3, <1>5, DestroyCalls, CallFields
    <2> QED
      BY <1>2, <2>1
  <1>7. /\ Head(todo) = Call("gone", x, "capture") /\ todo[1] = Head(todo)
        /\ x \in Contexts /\ Destroyed(x, 1) /\ dead' = dead \cup {x}
    BY <1>2, <1>3, <1>5, <1>6, DestroyCalls, CallFields
  <1>8. \A b, f : ~Awaiting(b, f)'
    BY <1>2, <1>3, <1>5, DestroyAwaitsNothing
  <1>9. Types' /\ Touches(x, "capture") /\ RateInv' /\ MadeInv' /\ Current' = Current
    BY <1>2, <1>3, <1>7 DEF Types, Touches, RateInv, MadeInv, Current
  <1>10. StreamsInv(0)'
    <2>1. StreamInv(x, x, "capture")
      BY <1>3, <1>7 DEF StreamsInv, Directions
    <2>2. ~Awaiting(x, "capture")
      BY <1>7, CallFields DEF Awaiting
    <2>3. StreamInv(0, x, "capture")'
      BY <1>2, <1>7, <1>8, <2>1, <2>2, UntouchedStream
    <2> QED
      BY <1>2, <1>3, <1>7, <1>8, <1>9, <2>3, CallKeepsStreams
  <1>11. \A d \in Directions : ~opened[x][d] /\ stream[x][d].at \in {"idle", "gone"}
    BY <1>7 DEF Destroyed, Directions
  <1>12. x <= Current /\ x # 0 /\ (x = Current \/ x = Current - 1)
    BY <1>4, <1>5, <1>7, AudioContextAssumption DEF DestroyAt, ReplacePhase, QuitPhase, Contexts
  <1>13. PICK k \in Contexts : k = Current /\ k = Current'
    BY <1>4, <1>9
  <1>14. k \in 0..MaxContexts /\ k - 1 \in 0..MaxContexts /\ todo \in Seq(Calls) /\ MaxContexts \in Nat
    BY AudioContextAssumption DEF Contexts, Types
  <1>15. PICK n \in Nat : n = Len(todo)
    BY <1>14, LenProperties
  <1>16. PhaseInv(0)' /\ (x = Current => todo' = <<>>)
    <2>1. CASE ReplacePhase(x) /\ m = Len(todo) - 4
      <3>1. /\ Replacement(k - 1, k) \in Seq(Calls) /\ Len(Replacement(k - 1, k)) = 11
            /\ \A i \in 1..11 : Replacement(k - 1, k)[i].op # "await"
        BY <1>14, ReplacementIs, NoneWaits
      <3>2. Follows(Replacement(k - 1, k)) /\ x = k - 1 /\ (paused => changed)
        BY <1>13, <2>1 DEF ReplacePhase
      <3>3. Follows(Replacement(k - 1, k))' /\ Len(todo') = Len(todo) - 1
        BY <1>2, <1>14, <3>1, <3>2, FollowsOn
      <3>4. Len(todo') = 4 /\ x # Current
        <4>1. n = 5 /\ Len(todo') = n - 1
          BY <1>6, <1>15, <2>1, <3>3
        <4>2. x # k
          BY <1>14, <3>2
        <4> QED
          BY <1>13, <4>1, <4>2
      <3>5. OpenPhase(0)'
        <4>1. Len(todo') \in 1..4 /\ ~(Len(todo') < 4) /\ ~(Len(todo') < 2)
          BY <3>4
        <4>2. Follows(Replacement(Current - 1, Current))'
          BY <1>13, <3>3, Zenon
        <4> QED
          BY <1>2, <3>2, <4>1, <4>2 DEF OpenPhase
      <3> QED
        BY <3>4, <3>5 DEF PhaseInv
    <2>2. CASE QuitPhase(x) /\ m = Len(todo)
      <3>1. Len(todo') = Len(todo) - 1 /\ Len(todo) = 1
        BY <1>2, <1>6, <1>14, <2>2, ReturnedLeaves
      <3>2. todo' = <<>>
        <4>1. Len(todo') = 0
          BY <3>1
        <4> QED
          BY <1>3, <4>1, EmptySeq
      <3>3. Silent' /\ x = Current
        BY <1>2, <1>9, <2>2 DEF QuitPhase, Silent
      <3>4. IdlePhase(0)'
        BY <1>7, <1>9, <3>2, <3>3 DEF IdlePhase
      <3> QED
        BY <3>2, <3>4 DEF PhaseInv
    <2> QED
      BY <1>5, <2>1, <2>2 DEF DestroyAt
  <1>17. DeadInv(0)'
    <2>1. \A c \in dead' : /\ c <= Current /\ c # 0
                           /\ \A d \in Directions : ~opened[c][d] /\ stream[c][d].at \in {"idle", "gone"}
      <3>1. \A c \in dead : c # 0
        BY <1>14 DEF Types, Contexts
      <3> QED
        BY <1>3, <1>7, <1>11, <1>12, <3>1 DEF DeadInv
    <2>2. \A c \in Contexts : c < Current => c \in dead'
      BY <1>3, <1>7 DEF DeadInv
    <2>3. Current \in dead' => todo' = <<>>
      BY <1>4, <1>7, <1>16
    <2> QED
      BY <1>2, <1>9, <2>1, <2>2, <2>3 DEF DeadInv
  <1>18. 0 \in 0..MaxContexts
    BY <1>14
  <1> QED
    BY <1>2, <1>9, <1>10, <1>16, <1>17, <1>18 DEF LiveInv, LiveAt

\* While a stream of the current context is opened, no other context has one open.
LEMMA OnlyCurrentOpens ==
    ASSUME Types, MadeInv, DeadInv(0), StreamsInv(0)
    PROVE  \A c \in Contexts, d \in Directions : c # Current => ~opened[c][d]
  <1>1. Current \in Contexts /\ \A c \in Contexts : kind[c] # "none" <=> c <= Current
    BY CurrentIs
  <1> SUFFICES ASSUME NEW c \in Contexts, NEW d \in Directions, c # Current
               PROVE  ~opened[c][d]
    OBVIOUS
  <1>2. c \in Nat \ {0} /\ Current \in Nat
    BY <1>1, AudioContextAssumption DEF Contexts
  <1>3. CASE c < Current
    BY <1>2, <1>3 DEF DeadInv
  <1>4. CASE c > Current
    <2>1. kind[c] = "none"
      BY <1>1, <1>2, <1>4
    <2> QED
      BY <2>1 DEF StreamsInv, StreamInv
  <1> QED
    BY <1>2, <1>3, <1>4

\* What a stream that has been opened gives: the flag, and its rate.
LEMMA OpenGives ==
    ASSUME Types, MadeInv, RateInv, DeadInv(0), StreamsInv(0), kind' = kind,
           NEW c \in Contexts, NEW d \in Directions, c = Current, IsOpen(c, d)
    PROVE  /\ opened' \in [Contexts -> [Directions -> BOOLEAN]]
           /\ opened'[c][d]
           /\ \A b \in Contexts, e \in Directions : b # c \/ e # d => opened'[b][e] = opened[b][e]
           /\ rate' \in [Directions -> 0..MaxContexts]
           /\ RateInv'
  <1>1. /\ opened' \in [Contexts -> [Directions -> BOOLEAN]]
        /\ opened'[c][d]
        /\ \A b \in Contexts, e \in Directions : b # c \/ e # d => opened'[b][e] = opened[b][e]
    <2>1. opened \in [Contexts -> [Directions -> BOOLEAN]] /\ TRUE \in BOOLEAN
      BY Zenon DEF Types
    <2>2. PICK v \in BOOLEAN : v = TRUE
      BY <2>1, Zenon
    <2>3. opened' = [opened EXCEPT ![c][d] = v]
      BY <2>2, Zenon DEF IsOpen
    <2>4. /\ opened' \in [Contexts -> [Directions -> BOOLEAN]]
          /\ opened'[c][d] = v
          /\ \A b \in Contexts, e \in Directions : b # c \/ e # d => opened'[b][e] = opened[b][e]
      BY <2>1, <2>3, OneFlag
    <2> QED
      BY <2>2, <2>4, Zenon
  <1>2. rate' = IF kind[c] # "WebAudio" THEN [rate EXCEPT ![d] = c] ELSE rate
    BY DEF IsOpen, SetsRate
  <1>3. c \in 0..MaxContexts
    BY AudioContextAssumption DEF Contexts
  <1>4. rate' \in [Directions -> 0..MaxContexts]
    BY <1>2, <1>3 DEF Types
  <1>5. \A b \in Contexts, e \in Directions : b # c => ~opened[b][e]
    BY OnlyCurrentOpens
  <1>6. RateInv'
    <2> SUFFICES ASSUME NEW b \in Contexts, NEW e \in Directions, opened'[b][e], kind[b] # "WebAudio"
                 PROVE  rate'[e] = b
      BY DEF RateInv
    <2>1. b = c
      BY <1>1, <1>5
    <2> QED
      BY <1>1, <1>2, <2>1 DEF RateInv, Types
  <1> QED
    BY <1>1, <1>4, <1>6

\* The streams are opened only by openAndStartAudioStreams(), at two places.
LEMMA OpensAt ==
    ASSUME Types, MadeInv, NEW x \in 0..MaxContexts, PhaseInv(x), todo # <<>>,
           Head(todo).op \in {"open", "await"}
    PROVE  /\ OpenPhase(x) /\ x = 0 /\ todo[1] = Head(todo)
           /\ \E n \in {2, 4}, d \in Directions :
                 /\ n = Len(todo) /\ d = IF n = 4 THEN "capture" ELSE "playback"
                 /\ Head(todo) = Call(Head(todo).op, Current, d)
  <1>1. OpenPhase(x)
    <2>1. ~\E m \in 1..7 : DestroyAt(x, m)
      <3> SUFFICES ASSUME NEW m \in 1..7, DestroyAt(x, m) PROVE FALSE
        OBVIOUS
      <3>1. m = 7 \/ m = 6 \/ m = 5 \/ m = 4 \/ m = 3 \/ m = 2 \/ m = 1
        OBVIOUS
      <3> QED
        BY <3>1, DestroyCalls, CallFields
    <2>2. ~PausePhase(x)
      BY CallFields DEF PausePhase
    <2> QED
      BY <2>1, <2>2, BusyPhases
  <1>2. PICK n \in 1..4 : n = Len(todo)
    BY <1>1 DEF OpenPhase
  <1>3. n = 4 \/ n = 2
    <2>1. n = 3 \/ n = 1 => Head(todo).op \notin {"open", "await"}
      BY <1>1, <1>2, OpenHead, CallFields
    <2> QED
      BY <2>1
  <1>4. PICK d \in Directions : d = IF n = 4 THEN "capture" ELSE "playback"
    BY DEF Directions
  <1>5. Head(todo) = Call(Head(todo).op, Current, d) /\ todo[1] = Head(todo)
    BY <1>1, <1>2, <1>3, <1>4, OpenHead, CallFields
  <1> QED
    BY <1>1, <1>2, <1>3, <1>4, <1>5 DEF OpenPhase

\* The wait for a connection stands in for the opening it is part of.
LEMMA AwaitFollows ==
    ASSUME NEW p, NEW c, NEW d, todo \in Seq(Calls), todo # <<>>, Follows(p),
           Head(todo) = Call("open", c, d), todo[1] = Head(todo), Call("await", c, d) \in Calls,
           todo' = <<Call("await", c, d)>> \o Tail(todo)
    PROVE  /\ todo' \in Seq(Calls) /\ Len(todo') = Len(todo)
           /\ todo' # <<>> /\ todo'[1] = Call("await", c, d)
           /\ Follows(p)'
  <1> DEFINE a == <<Call("await", c, d)>>  b == Tail(todo)
  <1>1. /\ a \in Seq(Calls) /\ Len(a) = 1 /\ a[1] = Call("await", c, d)
        /\ b \in Seq(Calls) /\ Len(b) = Len(todo) - 1 /\ \A i \in 1..Len(b) : b[i] = todo[i + 1]
    BY HeadTailProperties
  <1>2. Len(todo) \in Nat /\ Len(todo) >= 1
    BY EmptySeq, LenProperties
  <1>3. todo' = a \o b
    OBVIOUS
  <1> HIDE DEF a, b
  <1>4. /\ todo' \in Seq(Calls) /\ Len(todo') = 1 + Len(b)
        /\ \A i \in 1..(1 + Len(b)) : todo'[i] = IF i <= 1 THEN a[i] ELSE b[i - 1]
    BY <1>1, <1>3, ConcatProperties
  <1>5. Len(todo') = Len(todo)
    BY <1>1, <1>2, <1>4
  <1>6. todo'[1] = Call("await", c, d) /\ \A i \in 2..Len(todo) : todo'[i] = todo[i]
    <2>1. todo'[1] = a[1]
      BY <1>1, <1>2, <1>4
    <2>2. ASSUME NEW i \in 2..Len(todo) PROVE todo'[i] = todo[i]
      <3>1. i \in 1..(1 + Len(b)) /\ ~(i <= 1) /\ i - 1 \in 1..Len(b) /\ (i - 1) + 1 = i
        BY <1>1, <1>2
      <3> QED
        BY <1>1, <1>4, <3>1
    <2> QED
      BY <1>1, <2>1, <2>2
  <1>7. todo' # <<>>
    <2>1. Len(<<>>) = 0
      OBVIOUS
    <2> QED
      BY <1>2, <1>5, <2>1
  <1>8. Follows(p)'
    <2>1. \A i \in 1..Len(todo) : i = 1 \/ i \in 2..Len(todo)
      BY <1>2
    <2>2. 1 \in 1..Len(todo)
      BY <1>2
    <2>3. LET call == p[Len(p) - Len(todo) + 1]
          IN call.op = "open" /\ Call("await", c, d) = [call EXCEPT !.op = "await"]
      <3>1. LET call == p[Len(p) - Len(todo) + 1]
            IN todo[1] = call \/ (call.op = "open" /\ todo[1] = [call EXCEPT !.op = "await"])
        BY <2>2 DEF Follows
      <3>2. \A call : call.op = "open" /\ Call("open", c, d) = [call EXCEPT !.op = "await"] => FALSE
        <4> SUFFICES ASSUME NEW call, Call("open", c, d) = [call EXCEPT !.op = "await"],
                            call.op = "open"
                     PROVE  FALSE
          OBVIOUS
        <4>1. Call("open", c, d).op = "open" /\ "op" \in DOMAIN Call("open", c, d)
          BY DEF Call
        <4>2. "op" \in DOMAIN call
          BY <4>1
        <4>3. [call EXCEPT !.op = "await"].op = "await"
          BY <4>2
        <4> QED
          BY <4>1, <4>3
      <3> QED
        BY <3>1, <3>2, CallFields
    <2> DEFINE Right(i) == LET call == p[Len(p) - Len(todo) + i]
                           IN  \/ todo'[i] = call
                               \/ i = 1 /\ call.op = "open" /\ todo'[i] = [call EXCEPT !.op = "await"]
    <2>4. Right(1)
      BY <1>6, <2>3
    <2>5. ASSUME NEW i \in 2..Len(todo) PROVE Right(i)
      <3>1. i \in 1..Len(todo) /\ i # 1 /\ todo'[i] = todo[i]
        BY <1>2, <1>6
      <3> QED
        BY <3>1 DEF Follows
    <2>6. \A i \in 1..Len(todo) : Right(i)
      BY <2>1, <2>4, <2>5
    <2>7. Len(todo) <= Len(p)
      BY DEF Follows
    <2> QED
      BY <1>5, <2>6, <2>7 DEF Follows
  <1> QED
    BY <1>4, <1>5, <1>6, <1>7, <1>8

\* openStream() keeps the invariant, whether it returns or is in Pulse's wait.
LEMMA OpenStep ==
    ASSUME Types, LiveInv, ~over, OpenStream
    PROVE  Types' /\ LiveInv' /\ ~over'
  <1>1. PICK x \in 0..MaxContexts : LiveAt(x)
    BY DEF LiveInv
  <1>2. /\ kind' = kind /\ dead' = dead /\ started' = started /\ paused' = paused
        /\ changed' = changed /\ over' = over /\ available' = available /\ todo # <<>>
        /\ Head(todo).op = "open"
    BY DEF OpenStream, Head1
  <1>3. Types /\ MadeInv /\ RateInv /\ PhaseInv(x) /\ DeadInv(x) /\ StreamsInv(x)
    BY <1>1 DEF LiveInv, LiveAt
  <1>4. PICK n \in {2, 4}, d \in Directions :
           /\ OpenPhase(x) /\ x = 0 /\ todo[1] = Head(todo)
           /\ n = Len(todo) /\ d = IF n = 4 THEN "capture" ELSE "playback"
           /\ Head(todo) = Call("open", Current, d)
    BY <1>2, <1>3, OpensAt
  <1>5. PICK k \in Contexts : /\ k = Current /\ k = Current' /\ kind[k] \in Backends /\ k \notin dead
                              /\ k # x
    <2>1. Current \in Contexts /\ kind[Current] \in Backends /\ Current \notin dead
      BY <1>2, <1>3, Alive
    <2>2. Current # 0
      BY <2>1, AudioContextAssumption DEF Contexts
    <2> QED
      BY <1>2, <1>4, <2>1, <2>2 DEF Current
  <1> DEFINE s == stream[k][d]  t == StreamOp(kind[k], "open", s)
  <1>6. /\ Head(todo) = Call("open", k, d) /\ todo[1] = Call("open", k, d)
        /\ s \in Streams /\ StreamInv(x, k, d) /\ ~Awaiting(k, d)
    <2>1. Head(todo) = Call("open", k, d) /\ todo[1] = Call("open", k, d)
      BY <1>4, <1>5
    <2>2. s \in Streams
      BY <1>3 DEF Types
    <2>3. StreamInv(x, k, d)
      BY <1>3 DEF StreamsInv
    <2>4. ~Awaiting(k, d)
      BY <2>1, CallFields DEF Awaiting
    <2> QED
      BY <2>1, <2>2, <2>3, <2>4
  <1>7. n = 2 => opened[k]["capture"]
    BY <1>4, <1>5 DEF OpenPhase
  <1>8. CASE opened[k][d]
    <2>1. Returned /\ stream' = stream /\ opened' = opened /\ rate' = rate
      BY <1>6, <1>8, CallFields DEF OpenStream
    <2>2. todo' \in Seq(Calls)
      BY <1>2, <1>3, <2>1, ReturnedLeaves DEF Types
    <2>3. Len(todo) < 5 => opened'[Current]["capture"]
      BY <1>4, <1>5, <1>7, <1>8, <2>1
    <2>4. Len(todo) < 3 => opened'[Current]["playback"]
      BY <1>4, <1>5, <1>8, <2>1, SMTT(60)
    <2>5. PhaseInv(x)' /\ \A b, e : ~Awaiting(b, e)'
      BY <1>2, <1>3, <1>4, <2>1, <2>3, <2>4, OpenGoesOn
    <2>6. Types' /\ RateInv' /\ Touches(k, d)
      BY <1>2, <1>3, <2>1, <2>2 DEF Types, RateInv, Touches
    <2>7. StreamInv(x, k, d)'
      BY <1>2, <1>6, <2>1, <2>5, UntouchedStream
    <2> QED
      BY <1>2, <1>3, <1>5, <1>6, <2>5, <2>6, <2>7, CallReturns
  <1>9. CASE ~opened[k][d]
    <2>1. stream' = [stream EXCEPT ![k][d] = t]
      BY <1>6, <1>9, CallFields DEF OpenStream
    <2>2. t \in Streams /\ t.at = s.at /\ t.handle = IF kind[k] = "Pulse" THEN "connecting" ELSE "stopped"
      BY <1>5, <1>6, OperationIs
    <2> HIDE DEF t
    <2>3. /\ stream' \in [Contexts -> [Directions -> Streams]]
          /\ stream'[k][d] = t
          /\ \A b \in Contexts, e \in Directions : b # k \/ e # d => stream'[b][e] = stream[b][e]
      BY <1>3, <2>1, <2>2, OneStream, ZenonT(60)
    <2>4. s.handle = "none" /\ ~started[k][d] /\ s.at \notin {"query", "transfer"}
      BY <1>5, <1>6, <1>9 DEF StreamInv
    <2>5. ~Running(k, d)'
      BY <2>2, <2>3 DEF Running
    <2>6. CASE kind[k] = "Pulse"
      <3>1. todo' = <<Call("await", k, d)>> \o Tail(todo) /\ opened' = opened /\ rate' = rate
        BY <1>6, <1>9, <2>6, CallFields DEF OpenStream
      <3>2. k \in 0..MaxContexts /\ k - 1 \in 0..MaxContexts /\ todo \in Seq(Calls)
        BY AudioContextAssumption DEF Contexts, Types
      <3>3. Follows(Replacement(k - 1, k)) /\ (paused => changed) /\ Call("await", k, d) \in Calls
        BY <1>4, <1>5, <3>2, CallsAre DEF OpenPhase
      <3>4. /\ todo' \in Seq(Calls) /\ Len(todo') = Len(todo)
            /\ todo' # <<>> /\ todo'[1] = Call("await", k, d)
            /\ Follows(Replacement(k - 1, k))'
        BY <1>2, <1>4, <1>6, <3>1, <3>2, <3>3, AwaitFollows
      <3>5. Awaiting(k, d)' /\ \A b, e : Awaiting(b, e)' => b = k /\ e = d
        BY <3>4, CallFields DEF Awaiting
      <3>6. PhaseInv(x)'
        <4>1. Follows(Replacement(Current - 1, Current))'
          BY <1>5, <3>4, Zenon
        <4>2. Len(todo') \in 1..4 /\ (Len(todo') < 4 => opened'[Current']["capture"]) /\ ~(Len(todo') < 2)
          BY <1>4, <1>5, <1>7, <3>1, <3>4
        <4> QED
          BY <1>2, <1>4, <3>3, <4>1, <4>2 DEF PhaseInv, OpenPhase
      <3>7. Types' /\ RateInv' /\ Touches(k, d)
        <4>1. Types'
          BY <1>2, <1>3, <2>3, <3>1, <3>4 DEF Types
        <4>2. Touches(k, d)
          BY <1>2, <2>2, <2>3, <3>1 DEF Touches
        <4>3. RateInv'
          BY <1>2, <1>3, <3>1 DEF RateInv
        <4> QED
          BY <4>1, <4>2, <4>3
      <3>8. StreamInv(x, k, d)'
        BY <1>2, <1>6, <1>9, <2>2, <2>3, <2>4, <2>5, <2>6, <3>1, <3>5 DEF StreamInv
      <3> QED
        BY <1>2, <1>3, <1>5, <1>6, <3>5, <3>6, <3>7, <3>8, CallReturns
    <2>7. CASE kind[k] # "Pulse"
      <3>1. Returned /\ IsOpen(k, d)
        BY <1>6, <1>9, <2>7, CallFields DEF OpenStream
      <3>2. todo' \in Seq(Calls)
        BY <1>2, <1>3, <3>1, ReturnedLeaves DEF Types
      <3>3. /\ opened' \in [Contexts -> [Directions -> BOOLEAN]]
            /\ opened'[k][d]
            /\ \A b \in Contexts, e \in Directions : b # k \/ e # d => opened'[b][e] = opened[b][e]
            /\ rate' \in [Directions -> 0..MaxContexts]
            /\ RateInv'
        BY <1>2, <1>3, <1>4, <1>5, <3>1, OpenGives
      <3>4. opened'[k]["capture"] /\ (n = 2 => opened'[k]["playback"])
        <4>1. CASE n = 4
          BY <1>4, <3>3, <4>1
        <4>2. CASE n = 2
          BY <1>4, <1>7, <3>3, <4>2 DEF Directions
        <4> QED
          BY <4>1, <4>2
      <3>5. Len(todo) < 3 => opened'[Current]["playback"]
        BY <1>4, <1>5, <3>4
      <3>6. PhaseInv(x)' /\ \A b, e : ~Awaiting(b, e)'
        BY <1>2, <1>3, <1>4, <1>5, <3>1, <3>4, <3>5, OpenGoesOn
      <3>7. Types' /\ Touches(k, d)
        BY <1>2, <1>3, <2>2, <2>3, <3>2, <3>3 DEF Types, Touches
      <3>8. StreamInv(x, k, d)'
        BY <1>2, <1>5, <1>6, <1>9, <2>2, <2>3, <2>4, <2>5, <2>7, <3>3, <3>6 DEF StreamInv, Backends
      <3> QED
        BY <1>2, <1>3, <1>5, <1>6, <3>3, <3>6, <3>7, <3>8, CallReturns
    <2> QED
      BY <2>6, <2>7
  <1> QED
    BY <1>8, <1>9

\* So does the end of the wait, when the connection is ready.
LEMMA AwaitStep ==
    ASSUME Types, LiveInv, ~over, AwaitStream
    PROVE  Types' /\ (~over' => LiveInv')
  <1>1. PICK x \in 0..MaxContexts : LiveAt(x)
    BY DEF LiveInv
  <1>2. /\ kind' = kind /\ dead' = dead /\ started' = started /\ paused' = paused /\ stream' = stream
        /\ changed' = changed /\ available' = available /\ todo # <<>>
        /\ Head(todo).op = "await" /\ Returned
    BY DEF AwaitStream, Head1
  <1>3. Types /\ MadeInv /\ RateInv /\ PhaseInv(x) /\ DeadInv(x) /\ StreamsInv(x) /\ todo' \in Seq(Calls)
    BY <1>1, <1>2, ReturnedLeaves DEF LiveInv, LiveAt, Types
  <1>4. PICK n \in {2, 4}, d \in Directions :
           /\ OpenPhase(x) /\ x = 0 /\ todo[1] = Head(todo)
           /\ n = Len(todo) /\ d = IF n = 4 THEN "capture" ELSE "playback"
           /\ Head(todo) = Call("await", Current, d)
    BY <1>2, <1>3, OpensAt
  <1>5. PICK k \in Contexts : k = Current /\ k = Current' /\ k \notin dead
    BY <1>2, <1>3, Alive DEF Current
  <1>6. /\ Head(todo) = Call("await", k, d) /\ todo[1] = Call("await", k, d)
        /\ StreamInv(x, k, d) /\ Awaiting(k, d)
    BY <1>2, <1>3, <1>4, <1>5 DEF StreamsInv, Awaiting
  <1>7. /\ over' = (stream[k][d].handle # "stopped")
        /\ IF over' THEN UNCHANGED <<opened, rate>> ELSE IsOpen(k, d)
    BY <1>6, CallFields DEF AwaitStream
  <1>8. over' \in BOOLEAN /\ (over' <=> stream[k][d].handle # "stopped")
    BY <1>7, Zenon
  <1>9. CASE over'
    <2>1. opened' = opened /\ rate' = rate
      BY <1>7, <1>9
    <2> QED
      BY <1>2, <1>3, <1>8, <1>9, <2>1 DEF Types
  <1>10. CASE ~over'
    <2>1. IsOpen(k, d) /\ stream[k][d].handle = "stopped"
      BY <1>7, <1>8, <1>10
    <2>2. /\ opened' \in [Contexts -> [Directions -> BOOLEAN]]
          /\ opened'[k][d]
          /\ \A b \in Contexts, e \in Directions : b # k \/ e # d => opened'[b][e] = opened[b][e]
          /\ rate' \in [Directions -> 0..MaxContexts]
          /\ RateInv'
      BY <1>2, <1>3, <1>4, <1>5, <2>1, OpenGives
    <2>3. n = 2 => opened[k]["capture"]
      BY <1>4, <1>5 DEF OpenPhase
    <2>4. opened'[k]["capture"] /\ (n = 2 => opened'[k]["playback"])
      <3>1. CASE n = 4
        BY <1>4, <2>2, <3>1
      <3>2. CASE n = 2
        BY <1>4, <2>2, <2>3, <3>2 DEF Directions
      <3> QED
        BY <3>1, <3>2
    <2>5. Len(todo) < 3 => opened'[Current]["playback"]
      BY <1>4, <1>5, <2>4
    <2>6. PhaseInv(x)' /\ \A b, e : ~Awaiting(b, e)'
      BY <1>2, <1>3, <1>4, <1>5, <2>4, <2>5, OpenGoesOn
    <2>7. Types' /\ Touches(k, d)
      BY <1>2, <1>3, <1>8, <2>2 DEF Types, Touches
    <2>8. ~started[k][d] /\ ~Running(k, d) /\ ~Running(k, d)' /\ kind[k] = "Pulse"
      BY <1>2, <1>6, <2>1 DEF StreamInv, Running
    <2>9. StreamInv(x, k, d)'
      BY <1>2, <1>6, <2>1, <2>2, <2>6, <2>8 DEF StreamInv
    <2> QED
      BY <1>2, <1>3, <1>5, <1>6, <2>2, <2>6, <2>7, <2>9, CallReturns
  <1> QED
    BY <1>9, <1>10
-----------------------------------------------------------------------------
(* The user *)

\* Between two calls no context is being destroyed, the streams of the current
\* one are open, and no callback of WebAudio runs.
LEMMA IdleIs ==
    ASSUME Types, LiveInv, Idle
    PROVE  /\ todo = <<>> /\ ~over /\ Current \in Contexts /\ Current \notin dead
           /\ \A c \in Contexts : kind[c] # "none" <=> c <= Current
           /\ AllOpened /\ Silent /\ DeadInv(0) /\ StreamsInv(0) /\ RateInv /\ MadeInv
           /\ \A c, d : ~Awaiting(c, d)
           /\ \A c \in Contexts, d \in Directions : kind[c] = "WebAudio" => stream[c][d].at # "transfer"
  <1>1. PICK x \in 0..MaxContexts : LiveAt(x)
    BY DEF LiveInv
  <1>2. todo = <<>> /\ ~over /\ Current \notin dead
    BY DEF Idle
  <1>3. x = 0 /\ AllOpened /\ Silent
    <2>1. Len(todo) = 0
      BY <1>2
    <2>2. ~ReplacePhase(x) /\ ~OpenPhase(x) /\ ~QuitPhase(x)
      BY <2>1 DEF ReplacePhase, OpenPhase, QuitPhase
    <2>3. ~PausePhase(x)
      BY <1>2 DEF PausePhase
    <2> QED
      BY <1>1, <1>2, <2>2, <2>3 DEF LiveAt, PhaseInv, IdlePhase
  <1>4. MadeInv /\ RateInv /\ DeadInv(0) /\ StreamsInv(0)
    BY <1>1, <1>3 DEF LiveInv, LiveAt
  <1>5. Current \in Contexts /\ \A c \in Contexts : kind[c] # "none" <=> c <= Current
    BY <1>4, CurrentIs
  <1>6. ASSUME NEW c \in Contexts, NEW d \in Directions, kind[c] = "WebAudio"
        PROVE  stream[c][d].at # "transfer"
    <2>1. c \in Nat \ {0} /\ Current \in Nat /\ c <= Current
      BY <1>5, <1>6, AudioContextAssumption DEF Contexts
    <2>2. CASE c = Current
      BY <1>6, <2>2 DEF Idle
    <2>3. CASE c < Current
      BY <1>4, <2>1, <2>3 DEF DeadInv
    <2> QED
      BY <2>1, <2>2, <2>3
  <1> QED
    BY <1>2, <1>3, <1>4, <1>5, <1>6 DEF Awaiting

\* A pause, a change of backend and quitting give the main thread the calls of
\* the phase that they begin.
LEMMA UserStep ==
    ASSUME Types, LiveInv, User
    PROVE  Types' /\ LiveInv' /\ ~over'
  <1>1. Idle
    BY DEF User, SetPaused, ChangeBackend, Quit
  <1>2. /\ todo = <<>> /\ ~over /\ Current \in Contexts /\ Current \notin dead
        /\ \A c \in Contexts : kind[c] # "none" <=> c <= Current
        /\ AllOpened /\ Silent /\ DeadInv(0) /\ StreamsInv(0) /\ RateInv /\ MadeInv
        /\ \A c, d : ~Awaiting(c, d)
        /\ \A c \in Contexts, d \in Directions : kind[c] = "WebAudio" => stream[c][d].at # "transfer"
    BY <1>1, IdleIs
  <1>3. PICK k \in Contexts : k = Current
    BY <1>2
  <1>4. k \in 0..MaxContexts /\ k \in Nat \ {0} /\ MaxContexts \in Nat /\ 0 \in 0..MaxContexts
    BY AudioContextAssumption DEF Contexts
  <1>5. ASSUME NEW p \in BOOLEAN, SetPaused(p)
        PROVE  Types' /\ LiveInv' /\ ~over'
    <2>1. /\ kind' = kind /\ dead' = dead /\ stream' = stream /\ opened' = opened
          /\ started' = started /\ rate' = rate /\ over' = over /\ available' = available
          /\ todo' = <<Call(IF p THEN "stop" ELSE "start", k, "capture")>> /\ paused' = p
      BY <1>3, <1>5 DEF SetPaused
    <2>2. changed' \in BOOLEAN
      BY <1>5, Zenon DEF SetPaused
    <2>3. PICK op \in {"stop", "start"} : op = IF p THEN "stop" ELSE "start"
      OBVIOUS
    <2>4. todo' = <<Call(op, k, "capture")>> /\ todo' \in Seq(Calls)
      BY <1>4, <2>1, <2>3, CallsAre
    <2>5. Types' /\ RateInv' /\ MadeInv' /\ Current' = k
      BY <1>2, <1>3, <2>1, <2>2, <2>4 DEF Types, RateInv, MadeInv, Current
    <2>6. PausePhase(0)'
      <3>1. op = "start" => ~paused'
        BY <2>1, <2>3
      <3>2. AllOpened'
        BY <1>2, <1>3, <2>1, <2>5 DEF AllOpened
      <3> QED
        BY <2>4, <2>5, <3>1, <3>2 DEF PausePhase
    <2>7. DeadInv(0)'
      BY <1>2, <1>3, <2>1, <2>5 DEF DeadInv
    <2>8. StreamsInv(0)'
      <3> SUFFICES ASSUME NEW c \in Contexts, NEW d \in Directions PROVE StreamInv(0, c, d)'
        BY DEF StreamsInv
      <3>1. ~Awaiting(c, d)'
        BY <2>4, CallFields DEF Awaiting
      <3>2. StreamInv(0, c, d)
        BY <1>2 DEF StreamsInv
      <3> QED
        BY <1>2, <2>1, <3>1, <3>2, UntouchedStream
    <2> QED
      BY <1>2, <1>4, <2>1, <2>5, <2>6, <2>7, <2>8 DEF LiveInv, LiveAt, PhaseInv
  <1>6. CASE Quit
    <2>1. /\ kind' = kind /\ dead' = dead /\ stream' = stream /\ opened' = opened
          /\ started' = started /\ rate' = rate /\ over' = over /\ available' = available
          /\ paused' = paused /\ changed' = changed /\ todo' = Destructor(k)
      BY <1>3, <1>6 DEF Quit
    <2>2. todo' \in Seq(Calls) /\ Len(todo') = 7 /\ todo'[1] = Call("stop", k, "capture")
      BY <1>4, <2>1, CallsAre, DestructorIs
    <2>3. Types' /\ RateInv' /\ MadeInv' /\ Current' = k
      BY <1>2, <1>3, <2>1, <2>2 DEF Types, RateInv, MadeInv, Current
    <2>4. QuitPhase(k)'
      <3>1. Follows(Destructor(k))'
        <4>1. Len(todo') <= Len(Destructor(k))
              /\ \A i \in 1..Len(todo') : Len(Destructor(k)) - Len(todo') + i = i
          BY <2>1, <2>2
        <4> QED
          BY <2>1, <4>1 DEF Follows
      <3>2. Destroyed(k, 7)
        BY DEF Destroyed
      <3>3. Destroyed(k, Len(todo))'
        BY <2>1, <2>2, <3>2 DEF Destroyed
      <3>4. Silent'
        BY <1>2, <1>3, <2>1, <2>3 DEF Silent
      <3>5. Follows(Destructor(Current))'
        BY <2>3, <3>1, Zenon
      <3>6. Len(todo') > 0
        BY <2>2
      <3> QED
        BY <2>3, <3>3, <3>4, <3>5, <3>6 DEF QuitPhase
    <2>5. DeadInv(k)'
      BY <1>2, <1>3, <1>4, <2>1, <2>3 DEF DeadInv, Types, Contexts
    <2>6. StreamsInv(k)'
      <3> SUFFICES ASSUME NEW c \in Contexts, NEW d \in Directions PROVE StreamInv(k, c, d)'
        BY DEF StreamsInv
      <3>1. ~Awaiting(c, d)'
        BY <2>2, CallFields DEF Awaiting
      <3>2. StreamInv(0, c, d) /\ c # 0
        BY <1>2, <1>4 DEF StreamsInv, Contexts
      <3> QED
        BY <1>2, <2>1, <3>1, <3>2, UntouchedStream
    <2> QED
      BY <1>2, <1>4, <2>1, <2>3, <2>4, <2>5, <2>6 DEF LiveInv, LiveAt, PhaseInv
  <1>7. ASSUME NEW b \in available, ChangeBackend(b)
        PROVE  Types' /\ LiveInv' /\ ~over'
    <2> DEFINE new == k + 1
    <2>1. /\ kind' = [kind EXCEPT ![new] = b]
          /\ stream' = [stream EXCEPT ![new] = [d \in Directions |-> NoStream(b)]]
          /\ todo' = Replacement(k, new) /\ changed' = paused /\ k < MaxContexts
          /\ dead' = dead /\ opened' = opened /\ started' = started /\ rate' = rate
          /\ over' = over /\ available' = available /\ paused' = paused
      BY <1>3, <1>7 DEF ChangeBackend
    <2>2. new \in Contexts /\ new \in 0..MaxContexts /\ new - 1 = k /\ new # k /\ new > k
      BY <1>4, <2>1 DEF Contexts
    <2>3. kind[new] = "none" /\ new \notin dead /\ b \in Backends /\ b # "none"
      <3>1. ~(new <= k)
        BY <1>4
      <3>2. b \in Backends
        BY DEF Types
      <3> QED
        BY <1>2, <1>3, <2>2, <3>1, <3>2 DEF DeadInv, Backends
    <2>4. /\ todo' \in Seq(Calls) /\ Len(todo') = 11 /\ todo'[1] = Call("stop", k, "capture")
      BY <1>4, <2>1, <2>2, ReplacementIs
    <2> HIDE DEF new
    <2>5. /\ kind' \in [Contexts -> available \cup {"none"}] /\ kind'[new] = b
          /\ \A c \in Contexts : c # new => kind'[c] = kind[c]
      BY <2>1, <2>2 DEF Types
    <2>6. NoStream(b) \in Streams /\ NoStream(b).handle = "none" /\ NoStream(b).pause
          /\ NoStream(b).at = IF b = "ALSA" THEN "loop" ELSE "idle"
      BY DEF NoStream, Streams, Handles
    <2>7. /\ stream' \in [Contexts -> [Directions -> Streams]]
          /\ \A d \in Directions : stream'[new][d] = NoStream(b)
          /\ \A c \in Contexts : c # new => stream'[c] = stream[c]
      BY <2>1, <2>2, <2>6 DEF Types
    <2>8. Types'
      BY <2>1, <2>4, <2>5, <2>7 DEF Types
    <2>9. \A c \in Contexts : kind'[c] # "none" <=> c <= new
      <3> SUFFICES ASSUME NEW c \in Contexts PROVE kind'[c] # "none" <=> c <= new
        OBVIOUS
      <3>1. c \in Nat /\ (c # new => (c <= new <=> c <= k))
        BY <1>4, <2>2 DEF Contexts
      <3>2. c = new => c <= new
        BY <3>1
      <3> QED
        BY <1>2, <1>3, <2>3, <2>5, <3>1, <3>2
    <2>10. MadeInv' /\ Current' = new
      <3>1. MadeInv'
        BY <2>2, <2>9 DEF MadeInv
      <3>2. Current' = new
        BY <2>2, <2>9, LargestIs DEF Current
      <3> QED
        BY <3>1, <3>2
    <2>11. \A d \in Directions : ~opened[new][d] /\ ~started[new][d]
      BY <1>2, <2>2, <2>3 DEF StreamsInv, StreamInv
    <2>12. RateInv'
      <3> SUFFICES ASSUME NEW c \in Contexts, NEW d \in Directions, opened[c][d], kind'[c] # "WebAudio"
                   PROVE  rate[d] = c
        BY <2>1 DEF RateInv
      <3> QED
        BY <1>2, <2>5, <2>11 DEF RateInv
    <2>13. ReplacePhase(k)'
      <3>1. Follows(Replacement(k, new))'
        <4>1. Len(todo') <= Len(Replacement(k, new))
              /\ \A i \in 1..Len(todo') : Len(Replacement(k, new)) - Len(todo') + i = i
          BY <2>1, <2>4
        <4> QED
          BY <2>1, <4>1 DEF Follows
      <3>2. Destroyed(k, Len(todo) - 4)'
        <4>1. /\ ~(Len(todo') - 4 < 7) /\ ~(Len(todo') - 4 < 6) /\ ~(Len(todo') - 4 < 5)
              /\ ~(Len(todo') - 4 < 4) /\ ~(Len(todo') - 4 < 2)
          BY <2>4
        <4> QED
          BY <4>1 DEF Destroyed
      <3>3. Follows(Replacement(Current - 1, Current))' /\ k = Current' - 1
        BY <2>2, <2>10, <3>1, Zenon
      <3>4. Len(todo') > 4
        BY <2>4
      <3>5. \A d \in Directions : stream'[Current'][d].handle = "none"
        BY <2>6, <2>7, <2>10
      <3> QED
        BY <1>4, <2>1, <3>2, <3>3, <3>4, <3>5 DEF ReplacePhase
    <2>14. DeadInv(k)'
      <3>1. ASSUME NEW c \in dead
            PROVE  /\ c <= new /\ c # k
                   /\ \A d \in Directions : ~opened[c][d] /\ stream'[c][d].at \in {"idle", "gone"}
        <4>1. c \in Contexts /\ c <= k /\ c # new /\ c # k
          BY <1>2, <1>3, <2>3 DEF DeadInv, Types
        <4>2. c <= new
          BY <1>4, <2>2, <4>1 DEF Contexts
        <4> QED
          BY <1>2, <2>7, <4>1, <4>2 DEF DeadInv
      <3>2. ASSUME NEW c \in Contexts, c < new PROVE c \in dead \/ c = k
        <4>1. c # 0 /\ (c < k \/ c = k)
          BY <1>4, <2>2, <3>2 DEF Contexts
        <4> QED
          BY <1>2, <1>3, <4>1 DEF DeadInv
      <3> QED
        BY <2>1, <2>3, <2>10, <3>1, <3>2 DEF DeadInv
    <2>15. StreamsInv(k)'
      <3> SUFFICES ASSUME NEW c \in Contexts, NEW d \in Directions PROVE StreamInv(k, c, d)'
        BY DEF StreamsInv
      <3>1. ~Awaiting(c, d)'
        BY <2>4, CallFields DEF Awaiting
      <3>2. CASE c # new
        <4>1. StreamInv(0, c, d) /\ c # 0
          BY <1>2, <1>4 DEF StreamsInv, Contexts
        <4> QED
          BY <1>2, <2>1, <2>5, <2>7, <3>1, <3>2, <4>1, UntouchedStream
      <3>3. CASE c = new
        <4>1. ~Running(c, d)'
          BY <2>6, <2>7, <3>3 DEF Running
        <4> QED
          BY <2>1, <2>3, <2>5, <2>6, <2>7, <2>11, <3>1, <3>3, <4>1 DEF StreamInv, Backends
      <3> QED
        BY <3>2, <3>3
    <2> QED
      BY <1>2, <1>4, <2>1, <2>8, <2>10, <2>12, <2>13, <2>14, <2>15 DEF LiveInv, LiveAt, PhaseInv
  <1> QED
    BY <1>5, <1>6, <1>7 DEF User
-----------------------------------------------------------------------------
(* The properties *)

\* In a program that runs, what the invariant says of the streams keeps them
\* apart: the one context whose threads may be in the buffer or the queue is the
\* one that is destroyed or, when its destructor is done, the current one.
LEMMA LiveIsSafe ==
    ASSUME Types, LiveInv
    PROVE  Safe
  <1>1. PICK x \in 0..MaxContexts : LiveAt(x)
    BY DEF LiveInv
  <1>2. /\ MadeInv /\ PhaseInv(x) /\ DeadInv(x)
        /\ \A c \in Contexts, d \in Directions : StreamInv(x, c, d)
    BY <1>1 DEF LiveInv, LiveAt, StreamsInv
  <1>3. Current \in Contexts /\ \A c \in Contexts : kind[c] # "none" <=> c <= Current
    BY <1>2, CurrentIs
  <1>4. \A c \in Contexts : c \in Nat \ {0}
    BY AudioContextAssumption DEF Contexts
  <1>5. PICK a \in Contexts : \A c \in Contexts, d \in Directions : stream[c][d].at = "transfer" => c = a
    <2>1. ASSUME NEW c \in Contexts, NEW d \in Directions, stream[c][d].at = "transfer"
          PROVE  c = Current \/ c = x
      <3>1. kind[c] # "none"
        BY <1>2, <2>1 DEF StreamInv
      <3>2. c <= Current /\ c \notin dead
        BY <1>2, <1>3, <2>1, <3>1 DEF DeadInv
      <3> QED
        BY <1>2, <1>3, <1>4, <3>2 DEF DeadInv
    <2>2. CASE ReplacePhase(x)
      <3>1. x \in Contexts
        BY <1>3, <1>4, <2>2 DEF ReplacePhase, Contexts
      <3>2. \A d \in Directions : stream[Current][d].at # "transfer"
        BY <1>2, <1>3, <2>2 DEF ReplacePhase, StreamInv
      <3> QED
        BY <2>1, <3>1, <3>2
    <2>3. CASE ~ReplacePhase(x)
      <3>1. x = 0 \/ x = Current
        BY <1>2, <2>3 DEF PhaseInv, IdlePhase, OpenPhase, QuitPhase, PausePhase
      <3> QED
        BY <1>3, <1>4, <2>1, <3>1
    <2> QED
      BY <2>2, <2>3
  <1>6. OneAtATime
    <2> SUFFICES ASSUME NEW d \in Directions
                 PROVE  Cardinality({c \in Contexts : stream[c][d].at = "transfer"}) <= 1
      BY DEF OneAtATime
    <2> DEFINE S == {c \in Contexts : stream[c][d].at = "transfer"}
    <2>1. S \subseteq {a}
      BY <1>5
    <2>2. IsFiniteSet({a}) /\ Cardinality({a}) = 1
      BY FS_Singleton
    <2> HIDE DEF S
    <2>3. Cardinality(S) <= 1
      BY <2>1, <2>2, FS_Subset
    <2> QED
      BY <2>3 DEF S
  <1>7. NothingOutlivesContext
    BY <1>2 DEF NothingOutlivesContext, DeadInv
  <1>8. \A c \in dead, d \in Directions : ~opened[c][d] /\ ~started[c][d]
    BY <1>2 DEF DeadInv, StreamInv, Types
  <1>9. ClosedStreamsAtRest
    <2> SUFFICES ASSUME NEW c \in Contexts, NEW d \in Directions, stream[c][d].handle = "closed",
                        stream[c][d].at \in {"query", "transfer"}
                 PROVE  \/ kind[c] = "Pulse"
                        \/ kind[c] = "ALSA" /\ \E i \in DOMAIN todo : todo[i] = Call("join", c, "capture")
      BY DEF ClosedStreamsAtRest
    <2>1. c = x /\ c \notin dead
      BY <1>2 DEF StreamInv, DeadInv
    <2>2. PICK m \in 1..7 : DestroyAt(x, m)
      <3>1. ReplacePhase(x) \/ QuitPhase(x)
        BY <1>2, <1>4, <2>1 DEF PhaseInv, IdlePhase, OpenPhase, PausePhase
      <3>2. CASE ReplacePhase(x)
        <4>1. PICK m : m = Len(todo) - 4
          OBVIOUS
        <4>2. DestroyAt(x, m)
          BY <3>2, <4>1 DEF DestroyAt
        <4> QED
          BY <1>2, <4>2, DestroyCalls
      <3>3. CASE QuitPhase(x)
        <4>1. DestroyAt(x, Len(todo))
          BY <3>3 DEF DestroyAt
        <4>2. PICK m : m = Len(todo)
          OBVIOUS
        <4> QED
          BY <1>2, <4>1, <4>2, DestroyCalls
      <3> QED
        BY <3>1, <3>2, <3>3
    <2>3. todo # <<>> /\ Destroyed(x, m) /\ kind[x] \in Backends
      BY <1>2, <2>2, DestroyCalls
    <2>4. ~started[c][d] /\ ~opened[c][d] /\ StreamInv(x, c, d)
      <3>1. StreamInv(x, c, d)
        BY <1>2
      <3>2. ~Running(c, d)
        BY DEF Running
      <3> QED
        BY <3>1, <3>2 DEF StreamInv
    <2>5. kind[c] \in {"ALSA", "Pulse"}
      BY <2>1, <2>3, <2>4 DEF StreamInv, Backends
    <2>6. ~(m < 2)
      BY <2>1, <2>3 DEF Destroyed
    <2>7. \E i \in DOMAIN todo : todo[i] = Call("join", x, "capture")
      <3>1. PICK k \in Contexts : k = Current
        BY <1>3
      <3>2. k \in 0..MaxContexts /\ k - 1 \in 0..MaxContexts /\ todo \in Seq(Calls) /\ MaxContexts \in Nat
        BY AudioContextAssumption DEF Contexts, Types
      <3>3. PICK n \in Nat : n = Len(todo) /\ DOMAIN todo = 1..n
        BY <3>2, LenProperties
      <3>4. CASE ReplacePhase(x) /\ m = Len(todo) - 4
        <4>1. Follows(Replacement(k - 1, k)) /\ x = k - 1
          BY <3>1, <3>4 DEF ReplacePhase
        <4>2. Len(Replacement(k - 1, k)) = 11 /\ Replacement(k - 1, k)[6] = Call("join", k - 1, "capture")
          BY <3>2, ReplacementIs
        <4>3. n - 5 \in 1..n /\ 11 - n + (n - 5) = 6
          BY <2>6, <3>3, <3>4
        <4>4. LET call == Replacement(k - 1, k)[6]
              IN todo[n - 5] = call \/ call.op = "open"
          <5>1. LET call == Replacement(k - 1, k)[Len(Replacement(k - 1, k)) - Len(todo) + (n - 5)]
                IN todo[n - 5] = call \/ call.op = "open"
            BY <3>3, <4>1, <4>3 DEF Follows
          <5>2. Len(Replacement(k - 1, k)) - Len(todo) + (n - 5) = 6
            BY <3>3, <4>2, <4>3
          <5> QED
            BY <5>1, <5>2
        <4> QED
          BY <3>3, <4>1, <4>2, <4>3, <4>4, CallFields
      <3>5. CASE QuitPhase(x) /\ m = Len(todo)
        <4>1. Follows(Destructor(x))
          BY <3>5 DEF QuitPhase
        <4>2. Len(Destructor(x)) = 7 /\ Destructor(x)[6] = Call("join", x, "capture")
          BY DestructorIs
        <4>3. n - 1 \in 1..n /\ 7 - n + (n - 1) = 6
          BY <2>6, <3>3, <3>5
        <4>4. LET call == Destructor(x)[6]
              IN todo[n - 1] = call \/ call.op = "open"
          <5>1. LET call == Destructor(x)[Len(Destructor(x)) - Len(todo) + (n - 1)]
                IN todo[n - 1] = call \/ call.op = "open"
            BY <3>3, <4>1, <4>3 DEF Follows
          <5>2. Len(Destructor(x)) - Len(todo) + (n - 1) = 6
            BY <3>3, <4>2, <4>3
          <5> QED
            BY <5>1, <5>2
        <4> QED
          BY <3>3, <4>2, <4>3, <4>4, CallFields
      <3> QED
        BY <2>2, <3>4, <3>5 DEF DestroyAt
    <2> QED
      BY <2>1, <2>5, <2>7
  <1> QED
    BY <1>6, <1>7, <1>8, <1>9 DEF Safe

\* An exception leaves the streams as they are, and the threads unjoined.
LEMMA ExceptionIsSafe ==
    ASSUME Types, Safe, todo' \in Seq(Calls),
           stream' = stream, dead' = dead, opened' = opened, started' = started, kind' = kind,
           \/ todo' = todo
           \/ todo # <<>> /\ Head(todo).op = "await" /\ Returned
    PROVE  Safe'
  <1>1. \A c : (\E i \in DOMAIN todo : todo[i] = Call("join", c, "capture")) =>
                  \E i \in DOMAIN todo' : todo'[i] = Call("join", c, "capture")
    <2>1. CASE todo' = todo
      BY <2>1
    <2>2. CASE todo # <<>> /\ Head(todo).op = "await" /\ Returned
      <3> SUFFICES ASSUME NEW c, NEW i \in DOMAIN todo, todo[i] = Call("join", c, "capture")
                   PROVE  \E j \in DOMAIN todo' : todo'[j] = Call("join", c, "capture")
        OBVIOUS
      <3>1. /\ Len(todo) \in Nat /\ Len(todo') = Len(todo) - 1 /\ Head(todo) = todo[1]
            /\ \A j \in 1..Len(todo') : todo'[j] = todo[j + 1]
            /\ DOMAIN todo = 1..Len(todo) /\ DOMAIN todo' = 1..Len(todo')
        BY <2>2, ReturnedLeaves, LenProperties DEF Types
      <3>2. i # 1
        BY <2>2, <3>1, CallFields
      <3>3. i - 1 \in 1..Len(todo') /\ (i - 1) + 1 = i
        BY <3>1, <3>2
      <3> QED
        BY <3>1, <3>3
    <2> QED
      BY <2>1, <2>2
  <1>2. ClosedStreamsAtRest'
    BY <1>1 DEF Safe, ClosedStreamsAtRest
  <1> QED
    BY <1>2 DEF Safe, OneAtATime, NothingOutlivesContext

\* The first context opens and starts its streams.
LEMMA InitIsLive ==
    ASSUME Init
    PROVE  Types /\ LiveInv
  <1>1. PICK b \in available : /\ kind = [c \in Contexts |-> IF c = 1 THEN b ELSE "none"]
                               /\ stream = [c \in Contexts |-> [d \in Directions |-> NoStream(kind[c])]]
    BY DEF Init
  <1>2. /\ available \in Platforms /\ dead = {} /\ opened = [c \in Contexts |-> [d \in Directions |-> FALSE]]
        /\ started = opened /\ rate = [d \in Directions |-> 0] /\ todo = OpenAndStart(1)
    BY DEF Init
  <1>3. paused \in BOOLEAN /\ changed \in BOOLEAN /\ over \in BOOLEAN /\ ~paused /\ ~over
    BY Zenon DEF Init
  <1>4. available \subseteq Backends /\ b \in Backends /\ b # "none"
    BY <1>2, AudioContextAssumption DEF Backends
  <1>5. 1 \in Contexts /\ MaxContexts \in Nat /\ 0 \in 0..MaxContexts /\ 1 \in 0..MaxContexts
        /\ \A c \in Contexts : c \in Nat /\ c >= 1
    BY AudioContextAssumption DEF Contexts
  <1>6. kind \in [Contexts -> available \cup {"none"}] /\ kind \in [Contexts -> Backends \cup {"none"}]
        /\ kind[1] = b /\ \A c \in Contexts : c # 1 => kind[c] = "none"
    BY <1>1, <1>4, <1>5
  <1>7. \A k \in Backends \cup {"none"} :
           /\ NoStream(k) \in Streams /\ NoStream(k).handle = "none" /\ NoStream(k).pause
           /\ NoStream(k).at = IF k = "ALSA" THEN "loop" ELSE "idle"
    BY DEF NoStream, Streams, Handles
  <1>8. /\ stream \in [Contexts -> [Directions -> Streams]]
        /\ \A c \in Contexts, d \in Directions : stream[c][d] = NoStream(kind[c])
    BY <1>1, <1>6, <1>7
  <1>9. /\ opened \in [Contexts -> [Directions -> BOOLEAN]] /\ started \in [Contexts -> [Directions -> BOOLEAN]]
        /\ \A c \in Contexts, d \in Directions : ~opened[c][d] /\ ~started[c][d]
    BY <1>2, Zenon
  <1>10. todo \in Seq(Calls) /\ Len(todo) = 4
    BY <1>2, <1>5, CallsAre, OpenAndStartIs
  <1>11. Types
    BY <1>2, <1>3, <1>4, <1>5, <1>6, <1>8, <1>9, <1>10 DEF Types
  <1>12. MadeInv /\ Current = 1
    <2>1. \A c \in Contexts : kind[c] # "none" <=> c <= 1
      BY <1>4, <1>5, <1>6
    <2> QED
      BY <1>5, <2>1, LargestIs DEF MadeInv, Current
  <1>13. RateInv
    BY <1>9 DEF RateInv
  <1>14. OpenPhase(0)
    <2> DEFINE p == Replacement(0, 1)  q == OpenAndStart(1)
    <2>1. /\ Len(p) = 11 /\ p[8] = q[1] /\ p[9] = q[2] /\ p[10] = q[3] /\ p[11] = q[4]
      BY <1>5, ReplacementIs, OpenAndStartIs
    <2>2. todo = q
      BY <1>2
    <2> HIDE DEF p, q
    <2>3. \A i \in 1..Len(todo) : (i = 1 \/ i = 2 \/ i = 3 \/ i = 4) /\ Len(p) - Len(todo) + i = 7 + i
      BY <1>10, <2>1
    <2>4. \A i \in 1..Len(todo) : todo[i] = p[7 + i]
      BY <2>1, <2>2, <2>3
    <2>5. \A i \in 1..Len(todo) : todo[i] = p[Len(p) - Len(todo) + i]
      BY <2>3, <2>4
    <2>6. Len(todo) <= Len(p)
      BY <1>10, <2>1
    <2>7. Follows(p)
      BY <2>5, <2>6 DEF Follows
    <2>8. p = Replacement(Current - 1, Current)
      BY <1>12 DEF p
    <2> QED
      BY <1>3, <1>10, <2>7, <2>8 DEF OpenPhase
  <1>15. DeadInv(0)
    BY <1>2, <1>5, <1>12 DEF DeadInv
  <1>16. \A c, d : ~Awaiting(c, d)
    BY <1>2, OpenAndStartIs, CallFields DEF Awaiting
  <1>17. StreamsInv(0)
    <2> SUFFICES ASSUME NEW c \in Contexts, NEW d \in Directions PROVE StreamInv(0, c, d)
      BY DEF StreamsInv
    <2>1. kind[c] \in Backends \cup {"none"} /\ stream[c][d] = NoStream(kind[c])
      BY <1>6, <1>8
    <2>2. /\ stream[c][d].handle = "none" /\ stream[c][d].pause
          /\ stream[c][d].at = IF kind[c] = "ALSA" THEN "loop" ELSE "idle"
      BY <1>7, <2>1
    <2>3. ~Running(c, d)
      BY <2>2 DEF Running
    <2> QED
      BY <1>9, <1>16, <2>1, <2>2, <2>3 DEF StreamInv
  <1> QED
    BY <1>5, <1>11, <1>12, <1>13, <1>14, <1>15, <1>17 DEF LiveInv, LiveAt, PhaseInv

\* The inductive invariant of AudioContext holds in every behaviour.
THEOREM ContextInvariance == Spec => []ContextInv
  <1>1. Init => ContextInv
    BY InitIsLive, LiveIsSafe DEF ContextInv
  <1>2. ContextInv /\ [Next]_vars => ContextInv'
    <2> SUFFICES ASSUME ContextInv, [Next]_vars PROVE ContextInv'
      OBVIOUS
    <2>1. CASE UNCHANGED vars
      <3>1. Types'
        BY <2>1 DEF ContextInv, Types, vars
      <3>2. Safe'
        BY <2>1 DEF ContextInv, Safe, OneAtATime, NothingOutlivesContext, ClosedStreamsAtRest, vars
      <3>3. LiveInv => LiveInv'
        <4> SUFFICES ASSUME LiveInv PROVE LiveInv'
          OBVIOUS
        <4>1. PICK x \in 0..MaxContexts : LiveAt(x)
          BY DEF LiveInv
        <4>2. /\ kind' = kind /\ dead' = dead /\ stream' = stream /\ opened' = opened
              /\ started' = started /\ rate' = rate /\ todo' = todo /\ paused' = paused
              /\ changed' = changed
          BY <2>1 DEF vars
        <4>3. MadeInv' /\ RateInv' /\ Current' = Current
          BY <4>2 DEF LiveInv, MadeInv, RateInv, Current
        <4>4. DeadInv(x)'
          BY <4>1, <4>2, <4>3 DEF LiveAt, DeadInv
        <4>5. StreamsInv(x)'
          BY <4>1, <4>2, UntouchedStream DEF LiveAt, StreamsInv, Awaiting
        <4>6. PhaseInv(x)'
          BY <4>1, <4>2, <4>3, SMTT(60) DEF LiveAt, PhaseInv, IdlePhase, ReplacePhase, OpenPhase, QuitPhase,
                                  PausePhase, Follows, AllOpened, Silent, Destroyed
        <4> QED
          BY <4>3, <4>4, <4>5, <4>6 DEF LiveInv, LiveAt
      <3> QED
        BY <2>1, <3>1, <3>2, <3>3 DEF ContextInv, vars
    <2>2. CASE Next
      <3>1. ~over /\ Types /\ LiveInv /\ Safe
        BY <2>2 DEF Next, ContextInv
      <3>2. ASSUME Types', LiveInv' PROVE ContextInv'
        <4>1. Safe'
          BY <3>2, LiveIsSafe, PTL
        <4> QED
          BY <3>2, <4>1 DEF ContextInv
      <3>3. CASE Throws
        <4>1. /\ UNCHANGED <<available, kind, dead, stream, opened, started, rate, todo, paused, changed>>
              /\ over' \in BOOLEAN /\ over'
          BY <3>3, Zenon DEF Throws
        <4>2. Types'
          BY <3>1, <4>1 DEF Types
        <4>3. Safe'
          BY <3>1, <4>1, <4>2, ExceptionIsSafe DEF Types
        <4> QED
          BY <4>1, <4>2, <4>3 DEF ContextInv
      <3>4. CASE AwaitStream
        <4>1. Types' /\ (~over' => LiveInv')
          BY <3>1, <3>4, AwaitStep
        <4>2. CASE over'
          <5>1. /\ UNCHANGED <<kind, dead, stream, started, opened>> /\ Returned
                /\ todo # <<>> /\ Head(todo).op = "await"
            BY <3>4, <4>2 DEF AwaitStream, Head1
          <5>2. Safe'
            BY <3>1, <4>1, <5>1, ExceptionIsSafe DEF Types
          <5> QED
            BY <4>1, <4>2, <5>2 DEF ContextInv
        <4> QED
          BY <3>2, <4>1, <4>2
      <3>5. CASE OpenStream
        BY <3>1, <3>2, <3>5, OpenStep
      <3>6. CASE StartStopStream
        BY <3>1, <3>2, <3>6, StartStopStep
      <3>7. CASE CloseStream
        BY <3>1, <3>2, <3>7, CloseStep
      <3>8. CASE Terminate \/ Join
        BY <3>1, <3>2, <3>8, JoinStep
      <3>9. CASE Gone
        BY <3>1, <3>2, <3>9, GoneStep
      <3>10. CASE User
        BY <3>1, <3>2, <3>10, UserStep
      <3>11. CASE \E c \in Contexts, d \in Directions : Service(c, d)
        BY <3>1, <3>2, <3>11, ServiceStep
      <3> QED
        BY <2>2, <3>3, <3>4, <3>5, <3>6, <3>7, <3>8, <3>9, <3>10, <3>11 DEF Next, Main
    <2> QED
      BY <2>1, <2>2
  <1> QED
    BY <1>1, <1>2, PTL DEF Spec

\* Through every replacement of the backend, in any number, at most one thread is
\* in the capture buffer and one in the playback queue, nothing outlives a
\* context, closed streams are at rest, and the flags of AudioContext say what
\* the streams do.
THEOREM StreamsAreSound == Spec => []StreamsSound
  <1>1. ContextInv => StreamsSound
    <2> SUFFICES ASSUME ContextInv PROVE StreamsSound
      OBVIOUS
    <2>1. Types /\ Safe /\ (~over => LiveInv)
      BY DEF ContextInv
    <2>2. TypeOK
      BY <2>1 DEF TypeOK, Types, Safe, Streams, Handles
    <2>3. FlagsAgree
      <3> SUFFICES ASSUME todo = <<>>, ~over, NEW d \in Directions
                   PROVE  started[Current][d] = Running(Current, d)
        BY DEF FlagsAgree
      <3>1. PICK x \in 0..MaxContexts : LiveAt(x)
        BY <2>1 DEF LiveInv
      <3>2. Current \in Contexts
        BY <2>1, CurrentIs DEF LiveInv
      <3>3. started[Current][d] \in BOOLEAN
        BY <2>1, <3>2 DEF Types
      <3>4. started[Current][d] <=> Running(Current, d)
        BY <3>1, <3>2 DEF LiveAt, StreamsInv, StreamInv
      <3>5. Running(Current, d) \in BOOLEAN
        BY DEF Running
      <3>6. \A a, b \in BOOLEAN : (a <=> b) => a = b
        BY Zenon
      <3>7. PICK a \in BOOLEAN : a = started[Current][d]
        BY <3>3, Zenon
      <3>8. PICK b \in BOOLEAN : b = Running(Current, d)
        BY <3>5, Zenon
      <3>9. a <=> b
        BY <3>4, <3>7, <3>8, Zenon
      <3> QED
        BY <3>6, <3>7, <3>8, <3>9, Zenon
    <2> QED
      BY <2>1, <2>2, <2>3 DEF StreamsSound, Safe
  <1> QED
    BY <1>1, ContextInvariance, PTL

\* The capture buffer and the playback queue have the rate of the device that is
\* running, whichever backends came before it.
THEOREM RateIsTheDevices == Spec => []RateOfRunningDevice
  <1>1. ContextInv => RateOfRunningDevice
    <2> SUFFICES ASSUME ContextInv, ~over, NEW c \in Contexts, NEW d \in Directions,
                        Running(c, d), kind[c] # "WebAudio"
                 PROVE  rate[d] = c
      BY DEF RateOfRunningDevice
    <2>1. PICK x \in 0..MaxContexts : LiveAt(x)
      BY DEF ContextInv, LiveInv
    <2>2. opened[c][d]
      BY <2>1 DEF LiveAt, StreamsInv, StreamInv
    <2> QED
      BY <2>2 DEF ContextInv, LiveInv, RateInv
  <1> QED
    BY <1>1, ContextInvariance, PTL

\* A program whose user has paused it captures nothing between its calls, unless
\* the backend was changed since.
THEOREM PausedStaysSilent == Spec => []PausedIsSilent
  <1>1. ContextInv => PausedIsSilent
    <2> SUFFICES ASSUME ContextInv, todo = <<>>, paused, ~changed, ~over
                 PROVE  ~Running(Current, "capture")
      BY DEF PausedIsSilent
    <2>1. Types /\ LiveInv /\ MadeInv
      BY DEF ContextInv, LiveInv
    <2>2. PICK x \in 0..MaxContexts : LiveAt(x)
      BY <2>1 DEF LiveInv
    <2>3. Silent
      <3>1. Len(todo) = 0
        OBVIOUS
      <3>2. ~ReplacePhase(x) /\ ~OpenPhase(x) /\ ~QuitPhase(x)
        BY <3>1 DEF ReplacePhase, OpenPhase, QuitPhase
      <3>3. ~PausePhase(x)
        BY DEF PausePhase
      <3> QED
        BY <2>2, <3>2, <3>3 DEF LiveAt, PhaseInv, IdlePhase
    <2>4. Current \in Contexts /\ "capture" \in Directions
      BY <2>1, CurrentIs DEF Directions
    <2>5. StreamInv(x, Current, "capture")
      BY <2>2, <2>4 DEF LiveAt, StreamsInv
    <2> QED
      BY <2>3, <2>5 DEF Silent, StreamInv
  <1> QED
    BY <1>1, ContextInvariance, PTL
=============================================================================
