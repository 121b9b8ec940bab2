----------------------------- MODULE AudioBuffer -----------------------------
(***************************************************************************)
(* Module::Audio::Buffer (src/src/modules/audio/buffer), the queue between *)
(* the capture callback and the analysis thread, and again between the     *)
(* analysis thread and the processing thread.  It is a                     *)
(* BlockingReaderWriterQueue (src/src/readerwriterqueue.h): a lock-free    *)
(* FIFO `inner` and a LightweightSemaphore that counts its elements.       *)
(*                                                                         *)
(* The two threads run at the grain of the semaphore's atomic operations;  *)
(* inner.enqueue and inner.try_dequeue are one step each.  A sample is the *)
(* number of its push.  A sample for which the queue finds no memory is    *)
(* lost, without a word to push().                                         *)
(***************************************************************************)
EXTENDS LightweightSemaphore, Sequences

\* A sample is a permit: MaxSignals also bounds the samples pushed.
CONSTANTS
    PushLengths,    \* the block lengths the writer pushes
    PullLengths     \* the block lengths the reader asks for

ASSUME LengthsAssumption ==
    /\ PushLengths \subseteq Nat \ {0}
    /\ PullLengths \subseteq Nat \ {0}

VARIABLES
    inner,       \* the elements of the FIFO
    enqueued,    \* history: number of samples enqueued
    pushed,      \* history: number of samples handed to enqueue()
    lost,        \* history: the samples for which there was no memory
    pulled,      \* history: the sample that left the FIFO last
    writer,      \* "idle", "enqueue" or "signal": where the writing thread stands
    toPush,      \* elements of the current push still to come
    reader,      \* "idle" or "pull"
    outLength,   \* the length asked for by the current pull
    pOut,        \* the elements of the block that are done; Hole: left as it was
    sCancel      \* Buffer::sCancel

writerVars == <<enqueued, pushed, lost, writer, toPush>>
fifoVars == <<inner, pulled>>
pullVars == <<reader, outLength, pOut>>
vars == <<semaVars, writerVars, fifoVars, pullVars, sCancel>>

Hole == 0

\* What is in the FIFO and in a pulled block are samples that were pushed, or
\* holes, and a push enqueues no more elements than it was given.
TypeOK ==
    /\ SemaTypeOK
    /\ inner \in Seq(1..MaxSignals)
    /\ enqueued \in 0..MaxSignals /\ pushed \in 0..MaxSignals /\ pulled \in 0..MaxSignals
    /\ lost \subseteq 1..MaxSignals
    /\ writer \in {"idle", "enqueue", "signal"}
    /\ toPush \in Nat
    /\ reader \in {"idle", "pull"}
    /\ outLength \in Nat
    /\ pOut \in Seq(Hole..MaxSignals)
    /\ sCancel \in BOOLEAN

Init ==
    /\ SemaInit
    /\ inner = <<>>
    /\ enqueued = 0 /\ pushed = 0 /\ pulled = 0
    /\ lost = {}
    /\ writer = "idle"
    /\ toPush = 0
    /\ reader = "idle"
    /\ outLength = 0
    /\ pOut = <<>>
    /\ sCancel = FALSE
-----------------------------------------------------------------------------
(* push(pIn, inLength), in the writing thread *)

Push(n) ==
    /\ writer = "idle"
    /\ pushed + n <= MaxSignals
    /\ writer' = "enqueue"
    /\ toPush' = n
    /\ UNCHANGED <<semaVars, enqueued, pushed, lost, fifoVars, pullVars, sCancel>>

\* Mutant of EnqueueFails: the result of inner.enqueue is not looked at, and an
\* element that did not get into the FIFO is counted.
EnqueueUnchecked ==
    /\ writer = "enqueue"
    /\ pushed' = pushed + 1
    /\ lost' = lost \cup {pushed + 1}
    /\ enqueued' = enqueued + 1
    /\ writer' = "signal"
    /\ UNCHANGED <<semaVars, toPush, fifoVars, pullVars, sCancel>>

\* enqueue(element): the element goes into the FIFO before it is counted.
Enqueue ==
    /\ writer = "enqueue"
    /\ inner' = Append(inner, pushed + 1)
    /\ pushed' = pushed + 1
    /\ enqueued' = enqueued + 1
    /\ writer' = "signal"
    /\ UNCHANGED <<semaVars, lost, pulled, toPush, pullVars, sCancel>>

\* The loop of push() comes round.
NextElement ==
    /\ toPush' = toPush - 1
    /\ writer' = IF toPush > 1 THEN "enqueue" ELSE "idle"

\* inner.enqueue finds no memory for a block and returns false: nothing is
\* counted, and push(), which does not look at the result, goes on.
EnqueueFails ==
    /\ writer = "enqueue"
    /\ pushed' = pushed + 1
    /\ lost' = lost \cup {pushed + 1}
    /\ NextElement
    /\ UNCHANGED <<semaVars, enqueued, fifoVars, pullVars, sCancel>>

\* sema->signal(), the fetch_add: the end of it unless the reader sleeps.
EnqueueSignal ==
    /\ writer = "signal"
    /\ SignalAdd
    /\ IF signaller' = "post" THEN UNCHANGED <<toPush, writer>> ELSE NextElement
    /\ UNCHANGED <<enqueued, pushed, lost, fifoVars, pullVars, sCancel>>

\* sema->signal(), the post
EnqueuePost ==
    /\ writer = "signal"
    /\ SignalPost
    /\ NextElement
    /\ UNCHANGED <<enqueued, pushed, lost, fifoVars, pullVars, sCancel>>
-----------------------------------------------------------------------------
(* pull(pOut, outLength), in the reading thread *)

Pull(n) ==
    /\ reader = "idle"
    /\ reader' = "pull"
    /\ outLength' = n
    /\ pOut' = <<>>
    /\ UNCHANGED <<semaVars, writerVars, fifoVars, sCancel>>

\* wait_dequeue_timed(): sema->wait(50), called for element Len(pOut) + 1 ...
PullWait ==
    /\ reader = "pull"
    /\ TimedWait
    /\ UNCHANGED <<writerVars, fifoVars, pullVars, sCancel>>

\* ... and what happens inside it.
PullWaitStep ==
    /\ reader = "pull"
    /\ WaitStep
    /\ UNCHANGED <<writerVars, fifoVars, pullVars, sCancel>>

\* The loop of pull() comes round with `element` in place.
ElementDone(element) ==
    /\ pOut' = Append(pOut, element)
    /\ reader' = IF Len(pOut) + 1 < outLength THEN "pull" ELSE "idle"
    /\ UNCHANGED outLength

\* wait() was granted: inner.try_dequeue(result) takes the front element.  An
\* empty FIFO would leave the element as it was, with assert(success) failing.
PullDequeue ==
    /\ reader = "pull"
    /\ waiter = "granted"
    /\ Return
    /\ IF inner = <<>>
         THEN ElementDone(Hole) /\ UNCHANGED fifoVars
         ELSE /\ ElementDone(Head(inner))
              /\ inner' = Tail(inner) /\ pulled' = Head(inner)
    /\ UNCHANGED <<writerVars, sCancel>>

\* Mutant of PullRefused: one time-out is enough to give the element up.
PullRefusedNoRetry ==
    /\ reader = "pull"
    /\ waiter = "refused"
    /\ Return
    /\ ElementDone(Hole)
    /\ UNCHANGED <<writerVars, fifoVars, sCancel>>

\* Mutant of PullRefused: the flag is not looked at.
PullRefusedNoCancel ==
    /\ reader = "pull"
    /\ waiter = "refused"
    /\ Return
    /\ UNCHANGED <<writerVars, fifoVars, pullVars, sCancel>>

\* wait() was refused: "while (!... && !sCancel);" tries the same element again,
\* or goes on to the next one and leaves this one as it was.
PullRefused ==
    /\ reader = "pull"
    /\ waiter = "refused"
    /\ Return
    /\ IF sCancel THEN ElementDone(Hole) ELSE UNCHANGED pullVars
    /\ UNCHANGED <<writerVars, fifoVars, sCancel>>
-----------------------------------------------------------------------------
\* cancelPulls(): sCancel is never reset.
CancelPulls ==
    /\ sCancel' = TRUE
    /\ UNCHANGED <<semaVars, writerVars, fifoVars, pullVars>>

\* getLength()
GetLength == AvailableApprox
-----------------------------------------------------------------------------
WriterStep == Enqueue \/ EnqueueFails \/ EnqueueSignal \/ EnqueuePost

ReaderStep == PullWait \/ PullWaitStep \/ PullDequeue \/ PullRefused

Next ==
    \/ \E n \in PushLengths : Push(n)
    \/ WriterStep
    \/ \E n \in PullLengths : Pull(n)
    \/ ReaderStep
    \/ CancelPulls

Spec == Init /\ [][Next]_vars

(* The two threads are scheduled while they are inside push() and pull().   *)
(* Nobody has to call them, and nobody has to cancel.                       *)
FairSpec == Spec /\ WF_vars(WriterStep) /\ WF_vars(ReaderStep)
-----------------------------------------------------------------------------
(* Properties *)

\* "assert(success)" of wait_dequeue_timed: a permit stands for an element
\* that is already in the FIFO.
DequeueSucceeds == waiter = "granted" => inner # <<>>

\* getLength() never counts an element that cannot be pulled, so a reader that
\* asks for that many elements does not block.
LengthIsAvailable == GetLength <= Len(inner)

\* Both, with the types: what the asserts of the queue and the callers of
\* getLength() rely on.
BufferSound == TypeOK /\ DequeueSucceeds /\ LengthIsAvailable

\* A pull returns the next samples of the stream, each once and in order.  None
\* is left out but those for which there was no memory when they were pushed,
\* and elements stay unwritten only after cancelPulls().
Stream == INSTANCE SampleStream WITH block <- pOut, cancelled <- sCancel

StreamSpec == Stream!Spec

\* Cancelling ends a pull that is in progress, whether or not samples come.
CancelUnblocks == sCancel /\ reader = "pull" ~> reader = "idle"

\* No wake-up is lost: a sample the writer has signalled reaches the reader
\* that is asking for it.
SignalledIsDelivered ==
    \A k \in 1..MaxSignals :
        signalled >= k /\ reader = "pull"
            ~> enqueued - Len(inner) >= k \/ reader = "idle"
=============================================================================
