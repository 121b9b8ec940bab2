-------------------------- MODULE AudioBuffer_proofs --------------------------
(***************************************************************************)
(* The safety properties of LightweightSemaphore and of AudioBuffer, which *)
(* extends it, for any number of samples and any block lengths.            *)
(***************************************************************************)
EXTENDS AudioBuffer, SequenceTheorems, TLAPS

(***************************************************************************)
(* The semaphore, for any number of signals.  None of its properties is    *)
(* inductive: they follow from SemaInv, which accounts for every permit    *)
(* (m_count is the number of available permits less the decrement a waiter *)
(* has outstanding) and for every wake-up (a post is pending or delivered  *)
(* exactly while a waiter with an outstanding decrement has a permit       *)
(* coming to it).                                                          *)
(***************************************************************************)

\* A wait that has decremented m_count below the number of permits.
Indebted == waiter \in {"asleep", "restore", "tryKernel"}

\* One wake-up is on its way or has arrived, or none is.
OneWakeUp ==
    \/ mSema = 1 /\ signaller = "idle"
    \/ mSema = 0 /\ signaller = "post"

NoWakeUp == mSema = 0 /\ signaller = "idle"

PermitsInv ==
    /\ acquired <= signalled
    /\ mCount = signalled - acquired - (IF Indebted THEN 1 ELSE 0)
    /\ waiter = "take" => mCount > 0

WakeUpInv ==
    /\ ~Indebted /\ waiter # "retake" => NoWakeUp
    /\ Indebted /\ mCount < 0 => NoWakeUp
    /\ Indebted /\ mCount >= 0 => OneWakeUp
    /\ waiter = "retake" => mCount > 0 /\ OneWakeUp
    /\ waiter = "tryKernel" => mCount >= 0

SemaInv == SemaTypeOK /\ PermitsInv /\ WakeUpInv

\* A new semaphore has no permits and nobody waiting: the account starts even.
LEMMA SemaInitInv == SemaInit => SemaInv
  <1> SUFFICES ASSUME SemaInit PROVE SemaInv
    OBVIOUS
  <1>1. SemaTypeOK
    BY MaxSignalsAssumption DEF SemaInit, SemaTypeOK, SignallerPlaces, WaiterPlaces
  <1>2. PermitsInv
    <2>1. ~Indebted /\ waiter # "take"
      BY DEF SemaInit, Indebted
    <2>2. mCount = signalled - acquired - 0 /\ acquired <= signalled
      BY DEF SemaInit
    <2> QED
      BY <2>1, <2>2 DEF PermitsInv
  <1>3. WakeUpInv
    BY DEF SemaInit, WakeUpInv, Indebted, NoWakeUp
  <1> QED
    BY <1>1, <1>2, <1>3 DEF SemaInv

\* A step of the signalling thread keeps the account.
LEMMA SignallerInv == SemaInv /\ Signaller => SemaInv'
  <1> USE MaxSignalsAssumption DEF SemaInv, SemaTypeOK, PermitsInv, WakeUpInv, Indebted,
     NoWakeUp, OneWakeUp, SignallerPlaces, WaiterPlaces
  <1>1. ASSUME SemaInv, SignalAdd PROVE SemaInv'
    BY <1>1 DEF SignalAdd
  <1>2. ASSUME SemaInv, SignalPost PROVE SemaInv'
    BY <1>2 DEF SignalPost
  <1> QED
    BY <1>1, <1>2 DEF Signaller

\* A step inside wait() keeps the account.
LEMMA WaitStepInv == SemaInv /\ WaitStep => SemaInv'
  <1> USE DEF SemaInv, SemaTypeOK, PermitsInv, WakeUpInv, Indebted,
     NoWakeUp, OneWakeUp, SignallerPlaces, WaiterPlaces, Go
  <1>1. ASSUME SemaInv, Take PROVE SemaInv'
    BY <1>1 DEF Take
  <1>2. ASSUME SemaInv, SpinFound PROVE SemaInv'
    BY <1>2 DEF SpinFound
  <1>3. ASSUME SemaInv, SpinExhausted PROVE SemaInv'
    BY <1>3 DEF SpinExhausted
  <1>4. ASSUME SemaInv, Decrement PROVE SemaInv'
    BY <1>4 DEF Decrement
  <1>5. ASSUME SemaInv, Wake PROVE SemaInv'
    BY <1>5 DEF Wake
  <1>6. ASSUME SemaInv, TimeOut PROVE SemaInv'
    BY <1>6 DEF TimeOut
  <1>7. ASSUME SemaInv, Restore PROVE SemaInv'
    BY <1>7 DEF Restore
  <1>8. ASSUME SemaInv, Retake PROVE SemaInv'
    BY <1>8 DEF Retake
  <1>9. ASSUME SemaInv, TryKernel PROVE SemaInv'
    BY <1>9 DEF TryKernel
  <1> QED
    BY <1>1, <1>2, <1>3, <1>4, <1>5, <1>6, <1>7, <1>8, <1>9 DEF WaitStep

\* Calling tryWait() or wait(), and returning from it, keeps the account.
LEMMA CallInv == SemaInv /\ (TryWait \/ TimedWait \/ Return) => SemaInv'
  <1> USE DEF SemaInv, SemaTypeOK, PermitsInv, WakeUpInv, Indebted,
     NoWakeUp, OneWakeUp, SignallerPlaces, WaiterPlaces, Go
  <1>1. ASSUME SemaInv, TryWait PROVE SemaInv'
    BY <1>1 DEF TryWait, TryWaitLoad
  <1>2. ASSUME SemaInv, TimedWait PROVE SemaInv'
    BY <1>2 DEF TimedWait, TryWaitLoad
  <1>3. ASSUME SemaInv, Return PROVE SemaInv'
    BY <1>3 DEF Return
  <1> QED
    BY <1>1, <1>2, <1>3

\* Every step of either thread keeps the account.
LEMMA SemaNextInv == SemaInv /\ [SemaNext]_semaVars => SemaInv'
  <1>1. ASSUME SemaInv, UNCHANGED semaVars PROVE SemaInv'
    BY <1>1 DEF SemaInv, SemaTypeOK, PermitsInv, WakeUpInv, Indebted, NoWakeUp, OneWakeUp,
       semaVars
  <1> QED
    BY <1>1, SignallerInv, WaitStepInv, CallInv DEF SemaNext, Waiter

\* The inductive invariant holds of every behaviour of the semaphore.
THEOREM SemaInvariance == SemaSpec => []SemaInv
  BY SemaInitInv, SemaNextInv, PTL DEF SemaSpec

\* The types of m_count and of the two threads' places, for any bound.
THEOREM SemaTypeCorrect == SemaSpec => []SemaTypeOK
  <1>1. SemaInv => SemaTypeOK
    BY DEF SemaInv
  <1> QED
    BY <1>1, SemaInvariance, PTL

\* The assertion of signal() never fails.
THEOREM AssertionHolds == SemaSpec => []OldCountAssertion
  <1>1. SemaInv => OldCountAssertion
    BY DEF SemaInv, SemaTypeOK, PermitsInv, OldCountAssertion
  <1> QED
    BY <1>1, SemaInvariance, PTL

\* No wake-up outlives the wait it was posted for.
THEOREM NoStrayWakeUpHolds == SemaSpec => []NoStrayWakeUp
  <1>1. SemaInv => NoStrayWakeUp
    BY DEF SemaInv, WakeUpInv, NoStrayWakeUp, Indebted, NoWakeUp
  <1> QED
    BY <1>1, SemaInvariance, PTL

\* size_approx() counts no permit that is not there and misses at most one.
THEOREM ApproxIsHonestHolds == SemaSpec => []ApproxIsHonest
  <1>1. SemaInv => ApproxIsHonest
    BY MaxSignalsAssumption DEF SemaInv, SemaTypeOK, PermitsInv, ApproxIsHonest, AvailableApprox, Available
  <1> QED
    BY <1>1, SemaInvariance, PTL

\* The four together, for any number of signals.
THEOREM SemaphoreIsSound == SemaSpec => []SemaphoreSound
  BY SemaTypeCorrect, AssertionHolds, NoStrayWakeUpHolds, ApproxIsHonestHolds, PTL DEF SemaphoreSound
-----------------------------------------------------------------------------
(* The refinement *)

\* A new semaphore is an abstract semaphore without permits.
LEMMA CountingInit == SemaInit => Counting!Init
  BY DEF SemaInit, Counting!Init, Available

\* A step of the signaller is an abstract signal, or the post, which is invisible.
LEMMA CountingSignal == SemaInv /\ Signaller => [Counting!Next]_(Counting!csVars)
  <1> USE MaxSignalsAssumption DEF SemaInv, SemaTypeOK, Available, Counting!csVars
  <1>1. ASSUME SemaInv, SignalAdd PROVE Counting!Signal
    BY <1>1 DEF SignalAdd, Counting!Signal
  <1>2. ASSUME SemaInv, SignalPost PROVE UNCHANGED Counting!csVars
    BY <1>2 DEF SignalPost
  <1> QED
    BY <1>1, <1>2 DEF Signaller, Counting!Next

\* A step inside wait() is invisible until the one that decides the result.
LEMMA CountingWaitStep == SemaInv /\ WaitStep => [Counting!Next]_(Counting!csVars)
  <1> USE MaxSignalsAssumption DEF SemaInv, SemaTypeOK, PermitsInv, WakeUpInv, Indebted,
      NoWakeUp, OneWakeUp, Available, Counting!csVars, Go, Counting!Grant, Counting!Refuse
  <1>1. ASSUME SemaInv, Take PROVE Counting!Grant
    BY <1>1 DEF Take
  <1>2. ASSUME SemaInv, SpinFound PROVE UNCHANGED Counting!csVars
    BY <1>2 DEF SpinFound
  <1>3. ASSUME SemaInv, SpinExhausted PROVE UNCHANGED Counting!csVars
    BY <1>3 DEF SpinExhausted
  <1>4. ASSUME SemaInv, Decrement PROVE Counting!Grant \/ UNCHANGED Counting!csVars
    BY <1>4 DEF Decrement
  <1>5. ASSUME SemaInv, Wake PROVE Counting!Grant
    BY <1>5 DEF Wake
  <1>6. ASSUME SemaInv, TimeOut PROVE UNCHANGED Counting!csVars
    BY <1>6 DEF TimeOut
  <1>7. ASSUME SemaInv, Restore PROVE Counting!Refuse \/ UNCHANGED Counting!csVars
    BY <1>7 DEF Restore
  <1>8. ASSUME SemaInv, Retake PROVE UNCHANGED Counting!csVars
    BY <1>8 DEF Retake
  <1>9. ASSUME SemaInv, TryKernel PROVE Counting!Grant \/ UNCHANGED Counting!csVars
    BY <1>9 DEF TryKernel
  <1> QED
    BY <1>1, <1>2, <1>3, <1>4, <1>5, <1>6, <1>7, <1>8, <1>9 DEF WaitStep, Counting!Next

\* A call is invisible, unless tryWait() refuses at once; a return is a return.
LEMMA CountingCall ==
    SemaInv /\ (TryWait \/ TimedWait \/ Return) => [Counting!Next]_(Counting!csVars)
  <1> USE MaxSignalsAssumption DEF SemaInv, SemaTypeOK, PermitsInv, Indebted,
      Available, Counting!csVars, Go, Counting!Refuse, Counting!Return
  <1>1. ASSUME SemaInv, TryWait PROVE Counting!Refuse \/ UNCHANGED Counting!csVars
    BY <1>1 DEF TryWait, TryWaitLoad
  <1>2. ASSUME SemaInv, TimedWait PROVE UNCHANGED Counting!csVars
    BY <1>2 DEF TimedWait, TryWaitLoad
  <1>3. ASSUME SemaInv, Return PROVE Counting!Return
    BY <1>3 DEF Return
  <1> QED
    BY <1>1, <1>2, <1>3 DEF Counting!Next

\* The semaphore implements the counting semaphore: every grant takes a permit
\* that was signalled, every refusal happens when there is none.
THEOREM ImplementsCounting == SemaSpec => CountingSpec
  <1>1. SemaInv /\ [SemaNext]_semaVars => [Counting!Next]_(Counting!csVars)
    <2>1. UNCHANGED semaVars => UNCHANGED Counting!csVars
      BY DEF semaVars, Counting!csVars, Available
    <2> QED
      BY <2>1, CountingSignal, CountingWaitStep, CountingCall DEF SemaNext, Waiter
  <1> QED
    BY <1>1, CountingInit, SemaInvariance, PTL DEF SemaSpec, CountingSpec, Counting!Spec

(***************************************************************************)
(* The buffer.  Every step of it is a step of its semaphore or leaves that *)
(* alone, so SemaInv carries over; FifoInv ties the semaphore's account of *)
(* permits to the elements that are in the FIFO.                           *)
(***************************************************************************)

\* Every element in the FIFO is a permit, except the one whose signal is still
\* to come and the one that is granted and about to be dequeued.
FifoInv ==
    /\ signaller = "post" => writer = "signal"
    /\ enqueued = signalled + (IF writer = "signal" /\ signaller = "idle" THEN 1 ELSE 0)
    /\ Len(inner) = enqueued - acquired + (IF waiter = "granted" THEN 1 ELSE 0)

\* The FIFO holds, in order, what was pushed after the last sample pulled, but
\* for what was lost.
OrderInv ==
    /\ pulled <= pushed
    /\ \A i \in 1..Len(inner) : pulled < inner[i] /\ inner[i] <= pushed /\ inner[i] \notin lost
    /\ \A i, j \in 1..Len(inner) : i < j => inner[i] < inner[j]
    /\ \A s \in (pulled + 1)..pushed : s \in lost \/ \E i \in 1..Len(inner) : inner[i] = s

\* The push in progress stays within the bound.
PushInv ==
    /\ writer # "idle" => toPush > 0
    /\ writer = "idle" => toPush = 0
    /\ pushed + toPush - (IF writer = "signal" THEN 1 ELSE 0) <= MaxSignals

BufferTypes ==
    /\ inner \in Seq(Nat)
    /\ pulled \in Nat
    /\ enqueued \in Nat /\ pushed \in Nat /\ enqueued <= pushed
    /\ lost \subseteq 1..pushed
    /\ writer \in {"idle", "enqueue", "signal"}
    /\ toPush \in Nat
    /\ reader \in {"idle", "pull"}
    /\ outLength \in Nat
    /\ pOut \in Seq(Nat)
    /\ \A i \in 1..Len(pOut) : pOut[i] <= pushed
    /\ sCancel \in BOOLEAN

BufferInv == SemaInv /\ BufferTypes /\ FifoInv /\ OrderInv /\ PushInv

\* A function on 1..n is a sequence.
LEMMA FunctionIsSeq ==
    ASSUME NEW S, NEW n \in Nat, NEW f \in [1..n -> S]
    PROVE  f \in Seq(S)
  <1>1. f \in UNION {[1..k -> S] : k \in Nat}
    OBVIOUS
  <1> QED
    BY <1>1, SeqDef, Zenon
-----------------------------------------------------------------------------
(* The semaphore under the buffer *)

\* The buffer drives its semaphore only through the semaphore's own steps.
LEMMA BufferDrivesSema == [Next]_vars => [SemaNext]_semaVars
  BY DEF Next, vars, semaVars, SemaNext, Signaller, Waiter, Push, WriterStep, Enqueue,
     EnqueueFails, EnqueueSignal, EnqueuePost, Pull, ReaderStep, PullWait, PullWaitStep,
     PullDequeue, PullRefused, CancelPulls

\* In particular it is a behaviour of the semaphore, whose theorems apply.
THEOREM BufferImplementsSema == Spec => SemaSpec
  <1>1. Init => SemaInit
    BY DEF Init
  <1> QED
    BY <1>1, BufferDrivesSema, PTL DEF Spec, SemaSpec
-----------------------------------------------------------------------------
(* The inductive invariant *)

\* A new buffer is empty, and its semaphore agrees.
LEMMA BufferInitInv == Init => BufferInv
  <1> SUFFICES ASSUME Init PROVE BufferInv
    OBVIOUS
  <1>1. SemaInv
    BY SemaInitInv DEF Init
  <1>2. inner = <<>> /\ pOut = <<>> /\ enqueued = 0 /\ pushed = 0 /\ pulled = 0 /\ lost = {}
    BY DEF Init
  <1>3. inner \in Seq(Nat) /\ pOut \in Seq(Nat) /\ Len(pOut) = 0 /\ Len(inner) = 0
    BY <1>2, EmptySeq
  <1>4. BufferTypes
    <2>1. \A i \in 1..Len(pOut) : pOut[i] <= pushed
      BY <1>3
    <2>2. toPush = 0 /\ outLength = 0 /\ sCancel = FALSE /\ writer = "idle" /\ reader = "idle"
      BY DEF Init
    <2>3. enqueued \in Nat /\ pushed \in Nat /\ pulled \in Nat /\ enqueued <= pushed
      BY <1>2
    <2>4. lost \subseteq 1..pushed
      BY <1>2
    <2> QED
      BY <1>3, <2>1, <2>2, <2>3, <2>4 DEF BufferTypes
  <1>5. FifoInv
    <2>1. signaller = "idle" /\ waiter = "idle" /\ writer = "idle"
      BY DEF Init, SemaInit
    <2>2. enqueued = signalled + 0 /\ Len(inner) = enqueued - acquired + 0
      BY <1>2, <1>3 DEF Init, SemaInit
    <2> QED
      BY <2>1, <2>2 DEF FifoInv
  <1>6. OrderInv
    BY <1>2, <1>3 DEF OrderInv
  <1>7. PushInv
    <2>1. writer = "idle" /\ toPush = 0
      BY DEF Init
    <2> QED
      BY <1>2, <2>1, MaxSignalsAssumption DEF PushInv
  <1> QED
    BY <1>1, <1>4, <1>5, <1>6, <1>7 DEF BufferInv

\* Starting a push.
LEMMA PushKeeps ==
    ASSUME NEW n \in PushLengths, BufferInv, Push(n)
    PROVE  BufferTypes' /\ FifoInv' /\ OrderInv' /\ PushInv'
  <1>1. n \in Nat \ {0}
    BY LengthsAssumption
  <1> QED
    BY <1>1, MaxSignalsAssumption
    DEF BufferInv, BufferTypes, FifoInv, OrderInv, PushInv, Push, semaVars, fifoVars, pullVars

\* The element enters the FIFO behind the ones that are there.
LEMMA EnqueueKeeps ==
    ASSUME BufferInv, Enqueue
    PROVE  BufferTypes' /\ FifoInv' /\ OrderInv' /\ PushInv'
  <1> DEFINE n == Len(inner)
  <1>1. /\ inner \in Seq(Nat) /\ n \in Nat /\ pushed \in Nat /\ enqueued \in Nat /\ pulled \in Nat
        /\ enqueued <= pushed /\ lost \subseteq 1..pushed /\ pushed + 1 \in Nat
    BY LenProperties DEF BufferInv, BufferTypes
  <1>2. /\ pushed' = pushed + 1 /\ enqueued' = enqueued + 1 /\ writer' = "signal"
        /\ inner' = Append(inner, pushed + 1)
        /\ UNCHANGED <<lost, pulled, toPush, reader, outLength, pOut, sCancel>>
        /\ UNCHANGED <<signaller, signalled, waiter, acquired>>
    BY DEF Enqueue, semaVars, pullVars
  <1>3. /\ inner' \in Seq(Nat)
        /\ Len(inner') = n + 1
        /\ \A i \in 1..n : inner'[i] = inner[i]
        /\ inner'[n + 1] = pushed + 1
    BY <1>1, <1>2, AppendProperties
  <1>4. BufferTypes'
    BY <1>1, <1>2, <1>3 DEF BufferInv, BufferTypes
  <1> HIDE DEF n
  <1>5. FifoInv'
    <2>1. signaller = "idle" /\ writer = "enqueue" /\ acquired \in Nat /\ signalled \in Nat
      BY DEF BufferInv, FifoInv, SemaInv, SemaTypeOK, SignallerPlaces, Enqueue
    <2>2. enqueued = signalled
      BY <2>1 DEF BufferInv, FifoInv
    <2>3. n = enqueued - acquired + (IF waiter = "granted" THEN 1 ELSE 0)
      BY DEF BufferInv, FifoInv, n
    <2>4. Len(inner') = enqueued' - acquired' + (IF waiter' = "granted" THEN 1 ELSE 0)
      <3>1. CASE waiter = "granted"
        BY <3>1, <1>1, <1>2, <1>3, <2>1, <2>3
      <3>2. CASE waiter # "granted"
        BY <3>2, <1>1, <1>2, <1>3, <2>1, <2>3
      <3> QED
        BY <3>1, <3>2
    <2> QED
      BY <1>1, <1>2, <2>1, <2>2, <2>4 DEF FifoInv
  <1>6. \A i \in 1..(n + 1) : i \in 1..n \/ i = n + 1
    BY <1>1
  <1>7. OrderInv'
    <2>1. /\ pulled <= pushed
          /\ \A i \in 1..n : pulled < inner[i] /\ inner[i] <= pushed /\ inner[i] \notin lost
          /\ \A i, j \in 1..n : i < j => inner[i] < inner[j]
          /\ \A s \in (pulled + 1)..pushed : s \in lost \/ \E i \in 1..n : inner[i] = s
      BY DEF BufferInv, OrderInv, n
    <2>2. \A i \in 1..n : inner[i] \in Nat
      BY <1>1 DEF n
    <2>3. \A i \in 1..(n + 1) :
            pulled < inner'[i] /\ inner'[i] <= pushed + 1 /\ inner'[i] \notin lost
      <3>1. ASSUME NEW i \in 1..n
            PROVE  pulled < inner'[i] /\ inner'[i] <= pushed + 1 /\ inner'[i] \notin lost
        <4>1. inner'[i] = inner[i] /\ inner[i] \in Nat
          BY <1>3, <2>2
        <4>2. pulled < inner[i] /\ inner[i] <= pushed /\ inner[i] \notin lost
          BY <2>1
        <4> QED
          BY <1>1, <4>1, <4>2
      <3>2. pulled < pushed + 1 /\ pushed + 1 \notin lost
        BY <1>1, <2>1
      <3> QED
        BY <1>1, <1>3, <1>6, <3>1, <3>2
    <2>4. ASSUME NEW i \in 1..(n + 1), NEW j \in 1..(n + 1), i < j
          PROVE  inner'[i] < inner'[j]
      <3>1. i \in 1..n
        BY <1>1, <2>4
      <3>2. CASE j \in 1..n
        BY <1>3, <2>1, <2>4, <3>1, <3>2
      <3>3. CASE j = n + 1
        <4>1. inner'[i] = inner[i] /\ inner'[j] = pushed + 1
          BY <1>3, <3>1, <3>3
        <4>2. inner[i] \in Nat /\ inner[i] <= pushed
          BY <2>1, <2>2, <3>1
        <4> QED
          BY <1>1, <4>1, <4>2
      <3> QED
        BY <1>6, <3>2, <3>3
    <2>5. ASSUME NEW s \in (pulled + 1)..(pushed + 1)
          PROVE  s \in lost \/ \E i \in 1..(n + 1) : inner'[i] = s
      <3>1. CASE s = pushed + 1
        <4>1. n + 1 \in 1..(n + 1)
          BY <1>1
        <4> QED
          BY <1>3, <3>1, <4>1
      <3>2. CASE s # pushed + 1
        <4>1. s \in (pulled + 1)..pushed
          BY <1>1, <3>2
        <4>2. \A i \in 1..n : i \in 1..(n + 1)
          BY <1>1
        <4>3. CASE s \in lost
          BY <4>3
        <4>4. CASE s \notin lost
          <5>1. PICK i \in 1..n : inner[i] = s
            BY <2>1, <4>1, <4>4
          <5>2. inner'[i] = s /\ i \in 1..(n + 1)
            BY <1>3, <4>2, <5>1
          <5> QED
            BY <5>2
        <4> QED
          BY <4>3, <4>4
      <3> QED
        BY <3>1, <3>2
    <2> QED
      <3>1. pulled' = pulled /\ lost' = lost /\ pushed' = pushed + 1 /\ Len(inner') = n + 1
        BY <1>2, <1>3
      <3>2. pulled <= pushed + 1
        BY <1>1, <2>1
      <3> QED
        BY <2>3, <2>4, <2>5, <3>1, <3>2 DEF OrderInv
  <1>8. PushInv'
    BY <1>1, <1>2, MaxSignalsAssumption DEF BufferInv, BufferTypes, PushInv, Enqueue
  <1> QED
    BY <1>4, <1>5, <1>7, <1>8

\* An element for which there is no memory is neither in the FIFO nor counted.
LEMMA FailureKeeps ==
    ASSUME BufferInv, EnqueueFails
    PROVE  BufferTypes' /\ FifoInv' /\ OrderInv' /\ PushInv'
  <1>1. /\ inner \in Seq(Nat) /\ Len(inner) \in Nat /\ pushed \in Nat /\ pulled \in Nat
        /\ enqueued \in Nat /\ enqueued <= pushed /\ lost \subseteq 1..pushed
        /\ toPush \in Nat /\ \A i \in 1..Len(inner) : inner[i] \in Nat
        /\ toPush > 0 /\ writer = "enqueue"
    BY LenProperties DEF BufferInv, BufferTypes, PushInv, EnqueueFails
  <1>2. /\ pushed' = pushed + 1 /\ lost' = lost \cup {pushed + 1}
        /\ toPush' = toPush - 1 /\ writer' = IF toPush > 1 THEN "enqueue" ELSE "idle"
        /\ UNCHANGED <<inner, pulled, enqueued, reader, outLength, pOut, sCancel>>
        /\ UNCHANGED <<signaller, signalled, waiter, acquired>>
    BY DEF EnqueueFails, NextElement, semaVars, fifoVars, pullVars
  <1>3. BufferTypes'
    <2>1. \A i \in 1..Len(pOut) : pOut[i] <= pushed + 1
      <3>1. \A i \in 1..Len(pOut) : pOut[i] <= pushed /\ pOut[i] \in Nat
        BY DEF BufferInv, BufferTypes
      <3> QED
        BY <1>1, <3>1
    <2> QED
      BY <1>1, <1>2, <2>1 DEF BufferInv, BufferTypes
  <1>4. FifoInv'
    <2>1. signaller = "idle"
      BY <1>1 DEF BufferInv, FifoInv, SemaInv, SemaTypeOK, SignallerPlaces
    <2>2. writer' # "signal" /\ enqueued = signalled + 0
      BY <1>1, <1>2, <2>1 DEF BufferInv, FifoInv
    <2>3. Len(inner) = enqueued - acquired + (IF waiter = "granted" THEN 1 ELSE 0)
      BY DEF BufferInv, FifoInv
    <2> QED
      BY <1>2, <2>1, <2>2, <2>3 DEF FifoInv
  <1>5. OrderInv'
    <2>1. /\ pulled <= pushed
          /\ \A i \in 1..Len(inner) : pulled < inner[i] /\ inner[i] <= pushed /\ inner[i] \notin lost
          /\ \A i, j \in 1..Len(inner) : i < j => inner[i] < inner[j]
          /\ \A s \in (pulled + 1)..pushed : s \in lost \/ \E i \in 1..Len(inner) : inner[i] = s
      BY DEF BufferInv, OrderInv
    <2>2. \A i \in 1..Len(inner) :
            pulled < inner[i] /\ inner[i] <= pushed + 1 /\ inner[i] \notin lost \cup {pushed + 1}
      BY <1>1, <2>1
    <2>3. \A s \in (pulled + 1)..(pushed + 1) : s = pushed + 1 \/ s \in (pulled + 1)..pushed
      BY <1>1
    <2> QED
      BY <1>1, <1>2, <2>1, <2>2, <2>3 DEF OrderInv
  <1>6. PushInv'
    <2>1. pushed + toPush - 0 <= MaxSignals
      BY <1>1 DEF BufferInv, PushInv
    <2> QED
      BY <1>1, <1>2, <2>1, MaxSignalsAssumption DEF PushInv
  <1> QED
    BY <1>3, <1>4, <1>5, <1>6

\* Counting the element.
LEMMA SignalKeeps ==
    ASSUME BufferInv, EnqueueSignal
    PROVE  BufferTypes' /\ FifoInv' /\ OrderInv' /\ PushInv'
  <1> USE MaxSignalsAssumption
      DEF BufferInv, EnqueueSignal, SignalAdd, NextElement, fifoVars, pullVars
  <1>1. BufferTypes'
    BY DEF BufferTypes, PushInv
  <1>2. FifoInv'
    <2>1. /\ UNCHANGED <<inner, enqueued, waiter, acquired>>
          /\ signaller = "idle" /\ writer = "signal"
          /\ signalled \in Nat /\ signalled' = signalled + 1
      BY DEF SemaInv, SemaTypeOK
    <2>2. enqueued = signalled'
      BY <2>1 DEF FifoInv
    <2>3. signaller' = "post" => writer' = "signal"
      BY <2>1
    <2>4. ~(writer' = "signal" /\ signaller' = "idle")
      BY <2>1
    <2>5. enqueued' = signalled' + 0
      BY <2>1, <2>2
    <2> QED
      BY <2>1, <2>3, <2>4, <2>5 DEF FifoInv
  <1>3. OrderInv'
    BY DEF OrderInv
  <1>4. PushInv'
    BY DEF PushInv, BufferTypes
  <1> QED
    BY <1>1, <1>2, <1>3, <1>4

\* Waking the reader.
LEMMA PostKeeps ==
    ASSUME BufferInv, EnqueuePost
    PROVE  BufferTypes' /\ FifoInv' /\ OrderInv' /\ PushInv'
  <1> USE MaxSignalsAssumption
      DEF BufferInv, EnqueuePost, SignalPost, NextElement, fifoVars, pullVars
  <1>1. BufferTypes'
    BY DEF BufferTypes, PushInv
  <1>2. FifoInv'
    BY DEF FifoInv, BufferTypes, SemaInv, SemaTypeOK
  <1>3. OrderInv'
    BY DEF OrderInv
  <1>4. PushInv'
    BY DEF PushInv, BufferTypes
  <1> QED
    BY <1>1, <1>2, <1>3, <1>4

\* Starting a pull.
LEMMA PullKeeps ==
    ASSUME NEW n \in PullLengths, BufferInv, Pull(n)
    PROVE  BufferTypes' /\ FifoInv' /\ OrderInv' /\ PushInv'
  <1>1. n \in Nat
    BY LengthsAssumption
  <1> QED
    BY <1>1 DEF BufferInv, BufferTypes, FifoInv, OrderInv, PushInv, Pull, semaVars, writerVars, fifoVars

\* Waiting: a grant takes a permit and leaves the element to be dequeued.
LEMMA WaitKeeps ==
    ASSUME BufferInv, PullWait \/ PullWaitStep
    PROVE  BufferTypes' /\ FifoInv' /\ OrderInv' /\ PushInv'
  <1>1. signaller' = signaller /\ signalled' = signalled
    BY DEF PullWait, PullWaitStep, TimedWait, TryWaitLoad, WaitStep, Take, SpinFound,
       SpinExhausted, Decrement, Wake, TimeOut, Restore, Retake, TryKernel, Go
  <1>2. /\ waiter # "granted"
        /\ acquired' = acquired + (IF waiter' = "granted" THEN 1 ELSE 0)
    BY DEF PullWait, PullWaitStep, TimedWait, TryWaitLoad, WaitStep, Take, SpinFound,
       SpinExhausted, Decrement, Wake, TimeOut, Restore, Retake, TryKernel, Go,
       BufferInv, SemaInv, SemaTypeOK
  <1>3. UNCHANGED <<writerVars, fifoVars, pullVars, sCancel>>
    BY DEF PullWait, PullWaitStep
  <1>4. UNCHANGED <<inner, pulled, enqueued, pushed, lost, writer, toPush, reader, outLength, pOut,
                    sCancel>>
    BY <1>3 DEF writerVars, fifoVars, pullVars
  <1>5. BufferTypes'
    BY <1>4 DEF BufferInv, BufferTypes
  <1>6. FifoInv'
    <2>1. acquired \in Nat /\ enqueued \in Nat
      BY DEF BufferInv, SemaInv, SemaTypeOK, BufferTypes
    <2>2. Len(inner) = enqueued - acquired + 0
      BY <1>2 DEF BufferInv, FifoInv
    <2>3. Len(inner) = enqueued - acquired' + (IF waiter' = "granted" THEN 1 ELSE 0)
      <3>1. CASE waiter' = "granted"
        BY <1>2, <2>1, <2>2, <3>1
      <3>2. CASE waiter' # "granted"
        BY <1>2, <2>1, <2>2, <3>2
      <3> QED
        BY <3>1, <3>2
    <2> QED
      BY <1>1, <1>4, <2>3 DEF BufferInv, FifoInv
  <1>7. OrderInv' /\ PushInv'
    BY <1>4 DEF BufferInv, OrderInv, PushInv
  <1> QED
    BY <1>5, <1>6, <1>7

\* The granted element is at the front of the FIFO.
LEMMA GrantedIsThere == BufferInv /\ waiter = "granted" => inner # <<>>
  <1> SUFFICES ASSUME BufferInv, waiter = "granted" PROVE Len(inner) > 0
    OBVIOUS
  <1> QED
    BY DEF BufferInv, SemaInv, SemaTypeOK, PermitsInv, FifoInv, BufferTypes

\* What a dequeue takes: the front element, which is a sample after the one
\* pulled before, with nothing between the two but what was lost.
LEMMA FrontIsNext ==
    ASSUME BufferInv, inner # <<>>
    PROVE  /\ Head(inner) = inner[1] /\ Head(inner) \in (pulled + 1)..pushed
           /\ Head(inner) \notin lost
           /\ (pulled + 1)..(Head(inner) - 1) \subseteq lost
           /\ Tail(inner) \in Seq(Nat) /\ Len(Tail(inner)) = Len(inner) - 1
           /\ \A i \in 1..(Len(inner) - 1) : Tail(inner)[i] = inner[i + 1]
           /\ Len(inner) \in Nat \ {0}
  <1>1. inner \in Seq(Nat) /\ Len(inner) \in Nat \ {0} /\ pushed \in Nat /\ pulled \in Nat
    BY EmptySeq DEF BufferInv, BufferTypes
  <1>2. /\ Tail(inner) \in Seq(Nat) /\ Len(Tail(inner)) = Len(inner) - 1
        /\ \A i \in 1..(Len(inner) - 1) : Tail(inner)[i] = inner[i + 1]
        /\ Head(inner) \in Nat
    BY <1>1, HeadTailProperties
  <1>3. Head(inner) = inner[1] /\ 1 \in 1..Len(inner)
    BY <1>1
  <1>4. pulled < inner[1] /\ inner[1] <= pushed /\ inner[1] \notin lost
    BY <1>3 DEF BufferInv, OrderInv
  <1>5. ASSUME NEW m \in (pulled + 1)..(inner[1] - 1), m \notin lost PROVE FALSE
    <2>1. m \in (pulled + 1)..pushed /\ m < inner[1] /\ inner[1] \in Nat
      BY <1>1, <1>2, <1>3, <1>4
    <2>2. PICK i \in 1..Len(inner) : inner[i] = m
      BY <1>5, <2>1 DEF BufferInv, OrderInv
    <2>3. i = 1 \/ 1 < i
      BY <1>1
    <2>4. 1 < i => inner[1] < inner[i]
      BY <1>3 DEF BufferInv, OrderInv
    <2> QED
      BY <2>1, <2>2, <2>3, <2>4
  <1> QED
    BY <1>1, <1>2, <1>3, <1>4, <1>5

\* Dequeuing the granted element: FIFO and permits go down together.
LEMMA DequeueKeeps ==
    ASSUME BufferInv, PullDequeue
    PROVE  BufferTypes' /\ FifoInv' /\ OrderInv' /\ PushInv'
  <1> DEFINE n == Len(inner)
  <1>1. inner # <<>> /\ waiter = "granted"
    BY GrantedIsThere DEF PullDequeue
  <1>2. inner' = Tail(inner) /\ pulled' = Head(inner) /\ pOut' = Append(pOut, Head(inner))
    BY <1>1 DEF PullDequeue, ElementDone
  <1>3. /\ inner \in Seq(Nat) /\ n \in Nat \ {0} /\ pOut \in Seq(Nat)
        /\ pushed \in Nat /\ enqueued \in Nat /\ pulled \in Nat
    BY <1>1, FrontIsNext DEF BufferInv, BufferTypes
  <1>4. /\ Tail(inner) \in Seq(Nat) /\ Len(Tail(inner)) = n - 1
        /\ \A i \in 1..(n - 1) : Tail(inner)[i] = inner[i + 1]
        /\ Head(inner) = inner[1] /\ Head(inner) \in Nat
        /\ Head(inner) <= pushed /\ pulled < Head(inner)
    BY <1>1, <1>3, FrontIsNext
  <1>5. /\ UNCHANGED <<enqueued, pushed, lost, writer, toPush, outLength, sCancel>>
        /\ reader' \in {"idle", "pull"}
        /\ waiter' = "idle"
        /\ UNCHANGED <<signaller, signalled, acquired>>
    BY <1>1 DEF PullDequeue, ElementDone, Return, Go, writerVars
  <1>6. FifoInv'
    <2>1. n = enqueued - acquired + 1 /\ acquired \in Nat
      BY <1>1 DEF BufferInv, FifoInv, SemaInv, SemaTypeOK
    <2>2. Len(inner') = enqueued' - acquired' + 0
      BY <1>2, <1>3, <1>4, <1>5, <2>1
    <2> QED
      BY <1>5, <2>2 DEF BufferInv, FifoInv
  <1> HIDE DEF n
  <1>7. BufferTypes'
    <2>1. /\ pOut' \in Seq(Nat)
          /\ Len(pOut') = Len(pOut) + 1
          /\ \A i \in 1..Len(pOut) : pOut'[i] = pOut[i]
          /\ pOut'[Len(pOut) + 1] = Head(inner)
      BY <1>2, <1>3, <1>4, AppendProperties
    <2>2. \A i \in 1..(Len(pOut) + 1) : i \in 1..Len(pOut) \/ i = Len(pOut) + 1
      BY <1>3, LenProperties
    <2>3. \A i \in 1..Len(pOut') : pOut'[i] <= pushed
      BY <1>4, <2>1, <2>2 DEF BufferInv, BufferTypes
    <2> QED
      BY <1>2, <1>4, <1>5, <2>1, <2>3 DEF BufferInv, BufferTypes
  <1>8. OrderInv'
    <2>1. /\ \A i \in 1..n : inner[i] <= pushed /\ inner[i] \notin lost
          /\ \A i, j \in 1..n : i < j => inner[i] < inner[j]
          /\ \A s \in (pulled + 1)..pushed : s \in lost \/ \E i \in 1..n : inner[i] = s
      BY DEF BufferInv, OrderInv, n
    <2>2. Len(inner') = n - 1 /\ \A i \in 1..(n - 1) : inner'[i] = inner[i + 1] /\ i + 1 \in 1..n
      BY <1>2, <1>3, <1>4
    <2>3. pulled' = inner[1] /\ 1 \in 1..n
      BY <1>2, <1>3, <1>4
    <2>4. \A i \in 1..(n - 1) : inner[1] < inner[i + 1] /\ 1 < i + 1
      BY <1>3, <2>1, <2>2, <2>3
    <2>5. \A i \in 1..(n - 1) : pulled' < inner'[i] /\ inner'[i] <= pushed /\ inner'[i] \notin lost
      BY <2>1, <2>2, <2>3, <2>4
    <2>6. ASSUME NEW i \in 1..(n - 1), NEW j \in 1..(n - 1), i < j PROVE inner'[i] < inner'[j]
      <3>1. i + 1 \in 1..n /\ j + 1 \in 1..n /\ i + 1 < j + 1
        BY <1>3, <2>6
      <3> QED
        BY <2>1, <2>2, <3>1
    <2>7. ASSUME NEW s \in (pulled' + 1)..pushed, s \notin lost
          PROVE  \E i \in 1..(n - 1) : inner'[i] = s
      <3>1. s \in (pulled + 1)..pushed /\ inner[1] < s
        BY <1>3, <1>4, <2>3
      <3>2. PICK k \in 1..n : inner[k] = s
        BY <2>1, <2>7, <3>1
      <3>3. k # 1 /\ inner[1] \in Nat
        BY <1>4, <3>1, <3>2
      <3>4. k - 1 \in 1..(n - 1) /\ (k - 1) + 1 = k
        BY <1>3, <3>3
      <3> QED
        BY <2>2, <3>2, <3>4
    <2>8. pulled' <= pushed
      BY <1>2, <1>4
    <2> QED
      BY <1>5, <2>2, <2>5, <2>6, <2>7, <2>8 DEF OrderInv
  <1>9. PushInv'
    BY <1>5 DEF BufferInv, PushInv
  <1> QED
    BY <1>6, <1>7, <1>8, <1>9

\* A refused wait leaves the FIFO alone.
LEMMA RefusedKeeps ==
    ASSUME BufferInv, PullRefused
    PROVE  BufferTypes' /\ FifoInv' /\ OrderInv' /\ PushInv'
  <1> USE DEF BufferInv, PullRefused, Return, Go, ElementDone, writerVars, fifoVars, pullVars, Hole
  <1>1. BufferTypes'
    <2>1. CASE sCancel
      <3>1. pOut \in Seq(Nat) /\ pOut' = Append(pOut, 0) /\ pushed \in Nat
        BY <2>1 DEF BufferTypes
      <3>2. /\ pOut' \in Seq(Nat)
            /\ Len(pOut') = Len(pOut) + 1
            /\ \A i \in 1..Len(pOut) : pOut'[i] = pOut[i]
            /\ pOut'[Len(pOut) + 1] = 0
        BY <3>1, AppendProperties
      <3>3. \A i \in 1..(Len(pOut) + 1) : i \in 1..Len(pOut) \/ i = Len(pOut) + 1
        BY <3>1, LenProperties
      <3>4. \A i \in 1..Len(pOut') : pOut'[i] <= pushed
        BY <3>1, <3>2, <3>3 DEF BufferTypes
      <3> QED
        BY <2>1, <3>2, <3>4 DEF BufferTypes
    <2>2. CASE ~sCancel
      BY <2>2 DEF BufferTypes
    <2> QED
      BY <2>1, <2>2
  <1>2. FifoInv'
    BY DEF FifoInv, BufferTypes, SemaInv, SemaTypeOK
  <1>3. OrderInv' /\ PushInv'
    BY DEF OrderInv, PushInv
  <1> QED
    BY <1>1, <1>2, <1>3

\* Every step of writer, reader and canceller keeps the invariant.
LEMMA BufferNextInv == BufferInv /\ [Next]_vars => BufferInv'
  <1> SUFFICES ASSUME BufferInv, [Next]_vars PROVE BufferInv'
    OBVIOUS
  <1>1. SemaInv'
    BY BufferDrivesSema, SemaNextInv DEF BufferInv
  <1>2. BufferTypes' /\ FifoInv' /\ OrderInv' /\ PushInv'
    <2>1. CASE CancelPulls
      BY <2>1 DEF CancelPulls, BufferInv, BufferTypes, FifoInv, OrderInv, PushInv, semaVars,
         writerVars, fifoVars, pullVars
    <2>2. CASE UNCHANGED vars
      BY <2>2 DEF vars, BufferInv, BufferTypes, FifoInv, OrderInv, PushInv, semaVars, writerVars,
         fifoVars, pullVars
    <2> QED
      BY <2>1, <2>2, PushKeeps, EnqueueKeeps, FailureKeeps, SignalKeeps, PostKeeps, PullKeeps, WaitKeeps,
         DequeueKeeps, RefusedKeeps DEF Next, WriterStep, ReaderStep
  <1> QED
    BY <1>1, <1>2 DEF BufferInv

\* The inductive invariant holds of every behaviour of the buffer.
THEOREM BufferInvariance == Spec => []BufferInv
  BY BufferInitInv, BufferNextInv, PTL DEF Spec

\* The types of the buffer's state: no sample number beyond the bound.
THEOREM BufferTypeCorrect == Spec => []TypeOK
  <1>1. ASSUME BufferInv PROVE TypeOK
    <2>1. /\ enqueued \in 0..MaxSignals /\ pushed \in 0..MaxSignals /\ pulled \in 0..MaxSignals
          /\ lost \subseteq 1..MaxSignals
      <3>1. pushed \in 0..MaxSignals
        BY <1>1, MaxSignalsAssumption DEF BufferInv, BufferTypes, PushInv
      <3> QED
        BY <1>1, <3>1, MaxSignalsAssumption DEF BufferInv, BufferTypes, OrderInv
    <2>2. /\ inner \in Seq(Nat) /\ pOut \in Seq(Nat)
          /\ inner \in [1..Len(inner) -> Nat] /\ pOut \in [1..Len(pOut) -> Nat]
          /\ Len(inner) \in Nat /\ Len(pOut) \in Nat
      BY <1>1, LenProperties DEF BufferInv, BufferTypes
    <2>3. \A i \in 1..Len(inner) : inner[i] \in Nat /\ pulled < inner[i] /\ inner[i] <= pushed
      BY <1>1, <2>2 DEF BufferInv, OrderInv
    <2>4. \A i \in 1..Len(inner) : inner[i] \in 1..MaxSignals
      BY <2>1, <2>3, MaxSignalsAssumption
    <2>5. inner \in Seq(1..MaxSignals)
      <3>1. inner \in [1..Len(inner) -> 1..MaxSignals]
        BY <2>2, <2>4
      <3> QED
        BY <2>2, <3>1, FunctionIsSeq
    <2>6. \A i \in 1..Len(pOut) : pOut[i] \in 0..MaxSignals
      BY <1>1, <2>1, <2>2, MaxSignalsAssumption DEF BufferInv, BufferTypes
    <2>7. pOut \in Seq(0..MaxSignals)
      <3>1. pOut \in [1..Len(pOut) -> 0..MaxSignals]
        BY <2>2, <2>6
      <3> QED
        BY <2>2, <3>1, FunctionIsSeq
    <2> QED
      BY <1>1, <2>1, <2>5, <2>7 DEF BufferInv, BufferTypes, SemaInv, TypeOK, Hole
  <1> QED
    BY <1>1, BufferInvariance, PTL

\* assert(success) of wait_dequeue_timed never fails.
THEOREM DequeueAlwaysSucceeds == Spec => []DequeueSucceeds
  <1>1. BufferInv => DequeueSucceeds
    BY GrantedIsThere DEF DequeueSucceeds
  <1> QED
    BY <1>1, BufferInvariance, PTL

\* getLength() never promises an element that cannot be pulled.
THEOREM LengthIsAlwaysAvailable == Spec => []LengthIsAvailable
  <1>1. BufferInv => LengthIsAvailable
    BY DEF BufferInv, BufferTypes, SemaInv, SemaTypeOK, PermitsInv, FifoInv,
       LengthIsAvailable, GetLength, AvailableApprox
  <1> QED
    BY <1>1, BufferInvariance, PTL

\* The three together, for any lengths of pushes and pulls.
THEOREM BufferIsSound == Spec => []BufferSound
  BY BufferTypeCorrect, DequeueAlwaysSucceeds, LengthIsAlwaysAvailable, PTL DEF BufferSound
-----------------------------------------------------------------------------
(* The refinement *)

\* A new buffer is a stream nothing was pushed to.
LEMMA StreamInit == Init => Stream!Init
  BY DEF Init, Stream!Init

\* Steps that touch neither the FIFO nor the block are invisible.
LEMMA StreamStutter ==
    ASSUME UNCHANGED <<pushed, lost, pulled, pOut, sCancel>>
    PROVE  UNCHANGED Stream!streamVars
  BY DEF Stream!streamVars

\* A sample belongs to the stream from the moment it is in the FIFO, ...
LEMMA StreamEnqueue == ASSUME Enqueue PROVE Stream!Push
  BY DEF Enqueue, pullVars, Stream!Push

\* ... or is lost when it does not get there.
LEMMA StreamFailure == ASSUME EnqueueFails PROVE Stream!Lose
  BY DEF EnqueueFails, fifoVars, pullVars, Stream!Lose

\* The front of the FIFO is the first sample of the stream after the last one
\* pulled.
LEMMA StreamDequeue == ASSUME BufferInv, PullDequeue PROVE Stream!Fill
  <1>1. inner # <<>>
    BY GrantedIsThere DEF PullDequeue
  <1>2. /\ pulled' = Head(inner) /\ pOut' = Append(pOut, Head(inner))
        /\ UNCHANGED <<pushed, lost, sCancel>>
    BY <1>1 DEF PullDequeue, ElementDone, writerVars
  <1>3. /\ Head(inner) \in (pulled + 1)..pushed /\ Head(inner) \notin lost
        /\ (pulled + 1)..(Head(inner) - 1) \subseteq lost
    BY <1>1, FrontIsNext
  <1> QED
    BY <1>2, <1>3 DEF Stream!Fill

\* A refusal is retried, or after cancelPulls() leaves a hole.
LEMMA StreamRefused ==
    ASSUME PullRefused
    PROVE  Stream!Skip \/ UNCHANGED Stream!streamVars
  <1>1. CASE sCancel
    BY <1>1 DEF PullRefused, ElementDone, writerVars, fifoVars, Stream!Skip, Stream!Hole, Hole
  <1>2. CASE ~sCancel
    BY <1>2, StreamStutter DEF PullRefused, writerVars, fifoVars, pullVars
  <1> QED
    BY <1>1, <1>2

\* The buffer implements the sample stream: pulls deliver the pushed samples in
\* order and none twice; none is left out but those that found no memory when
\* they were pushed, and there are holes only after cancelPulls().
THEOREM ImplementsStream == Spec => StreamSpec
  <1>1. ASSUME BufferInv, [Next]_vars PROVE [Stream!Next]_(Stream!streamVars)
    <2>1. ASSUME NEW n \in PushLengths, Push(n) PROVE UNCHANGED Stream!streamVars
      BY <2>1, StreamStutter DEF Push, fifoVars, pullVars
    <2>2. CASE EnqueueSignal \/ EnqueuePost
      <3>1. UNCHANGED Stream!streamVars
        BY <2>2, StreamStutter DEF EnqueueSignal, EnqueuePost, fifoVars, pullVars
      <3> QED
        BY <3>1
    <2>3. ASSUME NEW n \in PullLengths, Pull(n) PROVE Stream!StartPull
      BY <2>3 DEF Pull, writerVars, fifoVars, Stream!StartPull
    <2>4. CASE PullWait \/ PullWaitStep
      <3>1. UNCHANGED Stream!streamVars
        BY <2>4, StreamStutter DEF PullWait, PullWaitStep, writerVars, fifoVars, pullVars
      <3> QED
        BY <3>1
    <2>5. CASE CancelPulls
      <3>1. Stream!Cancel
        BY <2>5 DEF CancelPulls, writerVars, fifoVars, pullVars, Stream!Cancel
      <3> QED
        BY <3>1 DEF Stream!Next
    <2>6. CASE UNCHANGED vars
      <3>1. UNCHANGED Stream!streamVars
        BY <2>6, StreamStutter DEF vars, writerVars, fifoVars, pullVars
      <3> QED
        BY <3>1
    <2>7. CASE Enqueue
      BY <2>7, StreamEnqueue DEF Stream!Next
    <2>8. CASE PullDequeue
      BY <1>1, <2>8, StreamDequeue DEF Stream!Next
    <2>9. CASE PullRefused
      BY <2>9, StreamRefused DEF Stream!Next
    <2>10. CASE EnqueueFails
      BY <2>10, StreamFailure DEF Stream!Next
    <2> QED
      BY <1>1, <2>1, <2>2, <2>3, <2>4, <2>5, <2>6, <2>7, <2>8, <2>9, <2>10
         DEF Next, WriterStep, ReaderStep, Stream!Next
  <1> QED
    BY <1>1, StreamInit, BufferInvariance, PTL DEF Spec, StreamSpec, Stream!Spec
=============================================================================
