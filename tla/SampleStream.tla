----------------------------- MODULE SampleStream -----------------------------
(***************************************************************************)
(* What an Audio::Buffer promises: a stream of samples, numbered in the    *)
(* order in which they are pushed.  A sample is in the stream or, when     *)
(* there is no memory for it, lost.  A pull fills a block, one element at  *)
(* a time, with the next samples of the stream; once pulls are cancelled,  *)
(* and only then, it may leave elements as they are.                       *)
(***************************************************************************)
EXTENDS Naturals, Sequences

VARIABLES
    pushed,      \* number of samples pushed
    lost,        \* the samples that are not in the stream
    pulled,      \* the sample pulled last
    block,       \* the elements of the current pull so far
    cancelled    \* cancelPulls() was called

streamVars == <<pushed, lost, pulled, block, cancelled>>

Hole == 0

Init ==
    /\ pushed = 0
    /\ lost = {}
    /\ pulled = 0
    /\ block = <<>>
    /\ cancelled = FALSE

Push ==
    /\ pushed' = pushed + 1
    /\ UNCHANGED <<lost, pulled, block, cancelled>>

\* There is no memory for the sample.
Lose ==
    /\ pushed' = pushed + 1
    /\ lost' = lost \cup {pushed + 1}
    /\ UNCHANGED <<pulled, block, cancelled>>

StartPull ==
    /\ block' = <<>>
    /\ UNCHANGED <<pushed, lost, pulled, cancelled>>

\* The next sample is the first one after the last that was pulled.
Fill ==
    /\ \E next \in (pulled + 1)..pushed :
         /\ next \notin lost
         /\ (pulled + 1)..(next - 1) \subseteq lost
         /\ pulled' = next
         /\ block' = Append(block, next)
    /\ UNCHANGED <<pushed, lost, cancelled>>

Skip ==
    /\ cancelled
    /\ block' = Append(block, Hole)
    /\ UNCHANGED <<pushed, lost, pulled, cancelled>>

Cancel ==
    /\ cancelled' = TRUE
    /\ UNCHANGED <<pushed, lost, pulled, block>>

Next == Push \/ Lose \/ StartPull \/ Fill \/ Skip \/ Cancel

Spec == Init /\ [][Next]_streamVars
=============================================================================
