-------------------------- MODULE CountingSemaphore --------------------------
(***************************************************************************)
(* What a LightweightSemaphore (src/src/atomicops.h) promises to the one   *)
(* thread that signals it and the one thread that waits on it: a counter   *)
(* of permits.  A wait is answered once: it is granted a permit that was   *)
(* there, or it is refused at an instant at which there was none.          *)
(***************************************************************************)
EXTENDS Naturals

VARIABLES
    available,   \* permits signalled and not yet granted
    reply        \* the answer to the wait in progress

csVars == <<available, reply>>

Init ==
    /\ available = 0
    /\ reply = "none"

Signal ==
    /\ available' = available + 1
    /\ UNCHANGED reply

Grant ==
    /\ reply = "none"
    /\ available > 0
    /\ available' = available - 1
    /\ reply' = "granted"

Refuse ==
    /\ reply = "none"
    /\ available = 0
    /\ reply' = "refused"
    /\ UNCHANGED available

Return ==
    /\ reply # "none"
    /\ reply' = "none"
    /\ UNCHANGED available

Next == Signal \/ Grant \/ Refuse \/ Return

Spec == Init /\ [][Next]_csVars
=============================================================================
