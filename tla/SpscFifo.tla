------------------------------- MODULE SpscFifo -------------------------------
(***************************************************************************)
(* What a single-producer, single-consumer queue promises: elements leave  *)
(* in the order they came, each once, and a call of the consumer comes     *)
(* back empty-handed only if the queue was empty when the call began.      *)
(***************************************************************************)
EXTENDS Naturals, Sequences

CONSTANT Elements

VARIABLES
    queue,      \* the elements, in order
    asked,      \* "idle", or what the consumer's call found: "some" or "none"
    result      \* what the last call returned; 0: nothing

Init == queue = <<>> /\ asked = "idle" /\ result = 0

Enqueue == \E e \in Elements : queue' = Append(queue, e) /\ UNCHANGED <<asked, result>>

Ask ==
    /\ asked = "idle"
    /\ asked' = IF queue = <<>> THEN "none" ELSE "some"
    /\ result' = 0
    /\ UNCHANGED queue

\* try_dequeue() and pop() remove the front element, peek() leaves it
Answer ==
    /\ asked # "idle"
    /\ queue # <<>>
    /\ asked' = "idle"
    /\ result' = Head(queue)
    /\ queue' \in {queue, Tail(queue)}

Refuse == asked = "none" /\ asked' = "idle" /\ UNCHANGED <<queue, result>>

Spec == Init /\ [][Enqueue \/ Ask \/ Answer \/ Refuse]_<<queue, asked, result>>
===============================================================================
