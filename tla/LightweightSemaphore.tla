------------------------- MODULE LightweightSemaphore -------------------------
(***************************************************************************)
(* moodycamel::spsc_sema::LightweightSemaphore (src/src/atomicops.h), the  *)
(* semaphore under every audio queue of the program, at the grain of its   *)
(* atomic operations.  One thread signals and one thread waits, the        *)
(* contract buffer.h states ("only one reader and one writer").            *)
(*                                                                         *)
(* m_count may be one below the number of permits: a waiter that found     *)
(* none decrements it before it sleeps on the kernel semaphore m_sema, and *)
(* has to give the decrement back when the sleep times out.  The signaller *)
(* posts m_sema in a second step, after its fetch_add, and the time-out    *)
(* can fall between the two.                                               *)
(*                                                                         *)
(* The fetch_adds are read-modify-write operations of one location, so     *)
(* they are totally ordered whatever their memory order, and each is one   *)
(* step here.                                                              *)
(***************************************************************************)
EXTENDS Integers

CONSTANT MaxSignals     \* bound on the permits signalled in a behaviour

ASSUME MaxSignalsAssumption == MaxSignals \in Nat

VARIABLES
    mCount,      \* m_count, a signed integer
    mSema,       \* the value of the kernel semaphore m_sema
    signaller,   \* where the signalling thread stands
    waiter,      \* where the waiting thread stands
    signalled,   \* history: permits added by signal()
    acquired     \* history: permits granted to the waiter

semaVars == <<mCount, mSema, signaller, waiter, signalled, acquired>>

SignallerPlaces == {"idle", "post"}

\* Between two operations "idle"; "granted" and "refused" are the two results,
\* held until the caller has acted on them.
WaiterPlaces == {"idle", "take", "spin", "decrement", "asleep", "restore",
                 "retake", "tryKernel", "granted", "refused"}

\* The kernel semaphore's value is never negative: try_wait and timed_wait take
\* only what was posted.
SemaTypeOK ==
    /\ mCount \in Int
    /\ mSema \in Nat
    /\ signaller \in SignallerPlaces
    /\ waiter \in WaiterPlaces
    /\ signalled \in 0..MaxSignals
    /\ acquired \in Nat

SemaInit ==
    /\ mCount = 0
    /\ mSema = 0
    /\ signaller = "idle"
    /\ waiter = "idle"
    /\ signalled = 0
    /\ acquired = 0
-----------------------------------------------------------------------------
(* signal(1) *)

\* The fetch_add; a negative old value means that the waiter sleeps.
SignalAdd ==
    /\ signaller = "idle"
    /\ signalled < MaxSignals
    /\ mCount' = mCount + 1
    /\ signalled' = signalled + 1
    /\ signaller' = IF mCount < 0 THEN "post" ELSE "idle"
    /\ UNCHANGED <<mSema, waiter, acquired>>

\* Mutant of SignalPost: the post is lost.
SignalPostLost ==
    /\ signaller = "post"
    /\ signaller' = "idle"
    /\ UNCHANGED <<mCount, mSema, waiter, signalled, acquired>>

\* m_sema.signal(1)
SignalPost ==
    /\ signaller = "post"
    /\ mSema' = mSema + 1
    /\ signaller' = "idle"
    /\ UNCHANGED <<mCount, waiter, signalled, acquired>>
-----------------------------------------------------------------------------
(* tryWait() and wait(timeout) *)

\* The waiter goes on to `place`; m_count and m_sema are left to the caller.
Go(place) ==
    /\ waiter' = place
    /\ acquired' = IF place = "granted" THEN acquired + 1 ELSE acquired
    /\ UNCHANGED <<signaller, signalled>>

\* The load that opens tryWait(); wait(timeout) goes on to the spinning loop
\* where tryWait() gives up.
TryWaitLoad(giveUp) ==
    /\ waiter = "idle"
    /\ Go(IF mCount > 0 THEN "take" ELSE giveUp)
    /\ UNCHANGED <<mCount, mSema>>

TryWait == TryWaitLoad("refused")

TimedWait == TryWaitLoad("spin")

\* The decrement after a load that found a positive count.
Take ==
    /\ waiter = "take"
    /\ mCount' = mCount - 1
    /\ Go("granted")
    /\ UNCHANGED mSema

\* A load in the spinning loop finds a permit ...
SpinFound ==
    /\ waiter = "spin"
    /\ mCount > 0
    /\ Go("take")
    /\ UNCHANGED <<mCount, mSema>>

\* ... or the last of the 1024 loads found none.
SpinExhausted ==
    /\ waiter = "spin"
    /\ mCount <= 0
    /\ Go("decrement")
    /\ UNCHANGED <<mCount, mSema>>

\* Mutant of Decrement: the old count is compared with >= instead of >.
DecrementOffByOne ==
    /\ waiter = "decrement"
    /\ mCount' = mCount - 1
    /\ Go(IF mCount >= 0 THEN "granted" ELSE "asleep")
    /\ UNCHANGED mSema

\* The decrement that may announce a sleeping waiter.
Decrement ==
    /\ waiter = "decrement"
    /\ mCount' = mCount - 1
    /\ Go(IF mCount > 0 THEN "granted" ELSE "asleep")
    /\ UNCHANGED mSema

\* m_sema.timed_wait() is woken ...
Wake ==
    /\ waiter = "asleep"
    /\ mSema > 0
    /\ mSema' = mSema - 1
    /\ Go("granted")
    /\ UNCHANGED mCount

\* ... or times out, also when a post comes in at the same moment.
TimeOut ==
    /\ waiter = "asleep"
    /\ Go("restore")
    /\ UNCHANGED <<mCount, mSema>>

\* Mutant of Restore: the old count is not looked at.
RestoreUnchecked ==
    /\ waiter = "restore"
    /\ mCount' = mCount + 1
    /\ Go("refused")
    /\ UNCHANGED mSema

\* The fetch_add(1) that undoes the decrement; an old value that is not
\* negative means that the signaller has counted on the sleeper.
Restore ==
    /\ waiter = "restore"
    /\ mCount' = mCount + 1
    /\ Go(IF mCount < 0 THEN "refused" ELSE "retake")
    /\ UNCHANGED mSema

\* Mutant of Retake: the kernel semaphore is never tried again.
RetakeWithoutTryWait ==
    /\ waiter = "retake"
    /\ mCount' = mCount - 1
    /\ Go("restore")
    /\ UNCHANGED mSema

\* The fetch_add(-1) that claims the permit of that signal.
Retake ==
    /\ waiter = "retake"
    /\ mCount' = mCount - 1
    /\ Go(IF mCount > 0 THEN "tryKernel" ELSE "restore")
    /\ UNCHANGED mSema

\* m_sema.try_wait(), which fails while the post is still to come.
TryKernel ==
    /\ waiter = "tryKernel"
    /\ mSema' = IF mSema > 0 THEN mSema - 1 ELSE mSema
    /\ Go(IF mSema > 0 THEN "granted" ELSE "restore")
    /\ UNCHANGED mCount

\* The caller has taken note of the result.
Return ==
    /\ waiter \in {"granted", "refused"}
    /\ Go("idle")
    /\ UNCHANGED <<mCount, mSema>>

\* availableApprox()
AvailableApprox == IF mCount > 0 THEN mCount ELSE 0
-----------------------------------------------------------------------------
Signaller == SignalAdd \/ SignalPost

WaitStep ==
    \/ Take \/ SpinFound \/ SpinExhausted \/ Decrement \/ Wake \/ TimeOut
    \/ Restore \/ Retake \/ TryKernel

Waiter == TryWait \/ TimedWait \/ WaitStep \/ Return

SemaNext == Signaller \/ Waiter

SemaSpec == SemaInit /\ [][SemaNext]_semaVars

(* Both threads are scheduled: a signaller that has done its fetch_add gets  *)
(* to the post, and a waiter inside wait() goes on.  Nobody has to signal,   *)
(* and nobody has to call wait().                                            *)
SemaFairSpec ==
    SemaSpec /\ WF_semaVars(SignalPost) /\ WF_semaVars(WaitStep \/ Return)
-----------------------------------------------------------------------------
(* Properties *)

\* The permits the callers know of.
Available == signalled - acquired

\* The assertion in signal(): "assert(oldCount >= -1)".  However time-outs and
\* signals interleave, at most one decrement is outstanding.
OldCountAssertion == mCount >= -1

\* A wake-up of the kernel semaphore belongs to the wait it was meant for:
\* when a wait has returned, for whatever reason, no post is pending and none
\* is left in m_sema to wake a later wait that has no permit.
NoStrayWakeUp ==
    waiter \in {"idle", "take", "spin", "decrement", "granted", "refused"}
        => mSema = 0 /\ signaller # "post"

\* size_approx() may be stale, but it never counts a permit that is not there
\* and never misses more than the one the waiter has in hand.
ApproxIsHonest == AvailableApprox \in {Available - 1, Available} \cap Nat

\* All four: no count, post or approximation goes wrong under any interleaving.
SemaphoreSound == SemaTypeOK /\ OldCountAssertion /\ NoStrayWakeUp /\ ApproxIsHonest

\* A wait is granted only a permit that was signalled, and refused only at an
\* instant without permits: the semaphore implements the counting semaphore.
Counting == INSTANCE CountingSemaphore WITH
    available <- Available,
    reply <- IF waiter \in {"granted", "refused"} THEN waiter ELSE "none"

CountingSpec == Counting!Spec

\* Every wait with a time-out returns, also when the time-out falls between
\* the signaller's fetch_add and its post and the restore loop has to spin.
WaitReturns == waiter # "idle" ~> waiter \in {"granted", "refused"}
=============================================================================
