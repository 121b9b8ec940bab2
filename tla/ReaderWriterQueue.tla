-------------------------- MODULE ReaderWriterQueue --------------------------
(***************************************************************************)
(* moodycamel::ReaderWriterQueue (src/src/readerwriterqueue.h), the        *)
(* lock-free FIFO inside every audio queue: a ring of circular blocks.     *)
(* The producer owns the tails, the consumer the fronts; each keeps a      *)
(* shadow copy of the other's index in every block and looks at the        *)
(* shared one only when the copy says "full" or "empty".                   *)
(*                                                                         *)
(* A step reads or writes one location the other thread writes.  Steps are *)
(* sequentially consistent: the acquire and release fences between them    *)
(* forbid the reorderings that would matter.                               *)
(***************************************************************************)
EXTENDS Integers, Sequences, SequencesExt

CONSTANTS
    Shapes,         \* the queues: MAX_BLOCK_SIZE and the constructor's argument
    MaxBlocks,      \* bound on the blocks: malloc() fails at the latest after them
    MaxEnqueues     \* bound on the elements enqueued

PowersOfTwo == {2^k : k \in 0..30}      \* as far as TLC's integers go

\* The constructor's asserts: a power of two, at least 2.  A queue of size 0,
\* which the program does not make, starts with a block that has no usable slot.
ASSUME ShapesAssumption ==
    \A s \in Shapes : s.maxBlockSize \in PowersOfTwo \ {1} /\ s.size \in 1 .. (2^30 - 1)

VARIABLES
    shape,                  \* which of the shapes this queue has
    blk,                    \* the blocks, in the order they were allocated
    frontBlock, tailBlock, largestBlockSize,
    producer,               \* where the producer stands in inner_enqueue
    dest,                   \* the block it is about to publish
    canAlloc, enqueued,     \* its AllocationMode; history: elements enqueued
    lengthAsked,            \* history: elements queued when its call began
    consumer, op,           \* where the consumer stands, and in which function
    seen,                   \* history: what its call found when it began
    result                  \* the element it moved out; 0: none

queueVars == <<shape, blk, frontBlock, tailBlock, largestBlockSize>>
producerVars == <<producer, dest, canAlloc, enqueued, lengthAsked>>
consumerVars == <<consumer, op, seen, result>>
vars == <<queueVars, producerVars, consumerVars>>

Raw == 0            \* a slot that holds no constructed element

CeilToPow2(x) == CHOOSE p \in PowersOfTwo : p >= x /\ p < 2 * x

Slots(capacity) == 0 .. capacity - 1

\* make_block(capacity), linked to `next`
Block(capacity, next) ==
    [sizeMask |-> capacity - 1, front |-> 0, tail |-> 0, localFront |-> 0, localTail |-> 0,
     next |-> next, data |-> [i \in Slots(capacity) |-> Raw]]

After(b, i) == (i + 1) % (blk[b].sizeMask + 1)      \* (i + 1) & sizeMask

\* The blocks from frontBlock on, as far as tailBlock, and what they hold.
Ring == LET r[k \in Nat] == IF k = 0 THEN frontBlock ELSE blk[r[k - 1]].next IN r
Held(b) == [i \in 1 .. (blk[b].tail - blk[b].front) % (blk[b].sizeMask + 1) |->
               blk[b].data[(blk[b].front + i - 1) % (blk[b].sizeMask + 1)]]
Distance == CHOOSE d \in 0 .. Len(blk) - 1 : Ring[d] = tailBlock
Contents == FlattenSeq([k \in 1 .. Distance + 1 |-> Held(Ring[k - 1])])

\* Every index is inside its block, and nothing but an element is returned.
TypeOK ==
    /\ \A b \in DOMAIN blk :
          /\ blk[b].data \in [Slots(blk[b].sizeMask + 1) -> 0 .. enqueued + 1]
          /\ {blk[b].front, blk[b].tail, blk[b].localFront, blk[b].localTail}
                \subseteq DOMAIN blk[b].data
          /\ blk[b].next \in DOMAIN blk
    /\ {frontBlock, tailBlock} \subseteq DOMAIN blk
    /\ result \in 0 .. enqueued

InitialBlockCount(s) == (s.size + s.maxBlockSize * 2 - 3) \div (s.maxBlockSize - 1)

\* The constructor: one block, or a ring of blocks of the largest size.
Init ==
    /\ shape \in Shapes
    /\ LET capacity == CeilToPow2(shape.size + 1)
           many == capacity > shape.maxBlockSize * 2
           n == IF many THEN InitialBlockCount(shape) ELSE 1
       IN /\ largestBlockSize = IF many THEN shape.maxBlockSize ELSE capacity
          /\ blk = [b \in 1..n |-> Block(largestBlockSize, (b % n) + 1)]
    /\ frontBlock = 1 /\ tailBlock = 1
    /\ producer = "idle" /\ dest = 1 /\ canAlloc = FALSE /\ enqueued = 0 /\ lengthAsked = 0
    /\ consumer = "idle" /\ op = "peek" /\ seen = "idle" /\ result = Raw
-----------------------------------------------------------------------------
(* inner_enqueue<canAlloc>, in the producer *)

ProducerGoes(place) ==
    producer' = place /\ UNCHANGED <<canAlloc, enqueued, lengthAsked, consumerVars>>

\* try_enqueue() / enqueue() / emplace(): is there room, by the shadow copy?
Enqueue(alloc) ==
    /\ producer = "idle"
    /\ enqueued < MaxEnqueues
    /\ canAlloc' = alloc
    /\ lengthAsked' = Len(Contents)
    /\ dest' = tailBlock
    /\ LET t == blk[tailBlock]
       IN producer' = IF After(tailBlock, t.tail) # t.localFront THEN "construct" ELSE "loadFront"
    /\ UNCHANGED <<queueVars, enqueued, consumerVars>>

\* Mutant of LoadFront: a block is full when its tail meets its front.
LoadFrontNoSpareSlot ==
    /\ producer = "loadFront"
    /\ blk' = [blk EXCEPT ![tailBlock].localFront = blk[tailBlock].front]
    /\ ProducerGoes(IF blk[tailBlock].tail # blk[tailBlock].front THEN "construct" ELSE "full")
    /\ UNCHANGED <<shape, frontBlock, tailBlock, largestBlockSize, dest>>

LoadFront ==
    /\ producer = "loadFront"
    /\ blk' = [blk EXCEPT ![tailBlock].localFront = blk[tailBlock].front]
    /\ ProducerGoes(IF After(tailBlock, blk[tailBlock].tail) # blk[tailBlock].front
                      THEN "construct" ELSE "full")
    /\ UNCHANGED <<shape, frontBlock, tailBlock, largestBlockSize, dest>>

\* The tail block is full.  A free block ahead, one the consumer has left, is used.
TryNextBlock ==
    /\ producer = "full"
    /\ blk[tailBlock].next # frontBlock
    /\ dest' = blk[tailBlock].next
    /\ blk' = [blk EXCEPT ![dest'].localFront = blk[dest'].front]
    /\ ProducerGoes("construct")
    /\ UNCHANGED <<shape, frontBlock, tailBlock, largestBlockSize>>

\* A block with the element in it, linked to what follows the tail block
NewBlock(capacity) ==
    [sizeMask |-> capacity - 1, front |-> 0, tail |-> 1, localFront |-> 0, localTail |-> 1,
     next |-> blk[tailBlock].next,
     data |-> [i \in Slots(capacity) |-> IF i = 0 THEN enqueued + 1 ELSE Raw]]

\* No free block: one is made, twice as large until MAX_BLOCK_SIZE is reached,
\* and then linked ...
Grow ==
    /\ producer = "full"
    /\ blk[tailBlock].next = frontBlock
    /\ canAlloc
    /\ Len(blk) < MaxBlocks
    /\ largestBlockSize' = IF largestBlockSize >= shape.maxBlockSize
                              THEN largestBlockSize ELSE largestBlockSize * 2
    /\ blk' = Append(blk, NewBlock(largestBlockSize'))
    /\ dest' = Len(blk')
    /\ ProducerGoes("link")
    /\ UNCHANGED <<shape, frontBlock, tailBlock>>

\* ... into the ring.
Link ==
    /\ producer = "link"
    /\ blk' = [blk EXCEPT ![tailBlock].next = dest]
    /\ ProducerGoes("moveTail")
    /\ UNCHANGED <<shape, frontBlock, tailBlock, largestBlockSize, dest>>

\* try_enqueue() may not allocate, and enqueue() may find no memory: false.
EnqueueFails ==
    /\ producer = "full"
    /\ blk[tailBlock].next = frontBlock
    /\ ProducerGoes("idle")
    /\ UNCHANGED <<queueVars, dest>>

\* new (location) T(...)
Construct ==
    /\ producer = "construct"
    /\ blk' = [blk EXCEPT ![dest].data[blk[dest].tail] = enqueued + 1]
    /\ ProducerGoes("setTail")
    /\ UNCHANGED <<shape, frontBlock, tailBlock, largestBlockSize, dest>>

\* tail = next index: the element is published if the block is the tail block.
SetTail ==
    /\ producer = "setTail"
    /\ blk' = [blk EXCEPT ![dest].tail = After(dest, blk[dest].tail)]
    /\ IF dest = tailBlock THEN producer' = "idle" /\ enqueued' = enqueued + 1
                           ELSE producer' = "moveTail" /\ UNCHANGED enqueued
    /\ UNCHANGED <<shape, frontBlock, tailBlock, largestBlockSize, dest, canAlloc, lengthAsked,
                   consumerVars>>

MoveTail ==
    /\ producer = "moveTail"
    /\ tailBlock' = dest
    /\ enqueued' = enqueued + 1
    /\ producer' = "idle"
    /\ UNCHANGED <<shape, blk, frontBlock, largestBlockSize, dest, canAlloc, lengthAsked,
                   consumerVars>>

Producer ==
    \/ \E alloc \in BOOLEAN : Enqueue(alloc)
    \/ LoadFront \/ TryNextBlock \/ Grow \/ Link \/ EnqueueFails
    \/ Construct \/ SetTail \/ MoveTail
-----------------------------------------------------------------------------
(* try_dequeue(), pop() and peek(), in the consumer *)

ConsumerGoes(place) == consumer' = place /\ UNCHANGED <<op, seen, result, producerVars>>

\* Is there an element in the front block, by the shadow copy?
Dequeue(function) ==
    /\ consumer = "idle"
    /\ op' = function
    /\ seen' = IF Contents = <<>> THEN "none" ELSE "some"
    /\ result' = Raw
    /\ LET f == blk[frontBlock] IN consumer' = IF f.front # f.localTail THEN "take" ELSE "loadTail"
    /\ UNCHANGED <<queueVars, producerVars>>

\* The shared tail is read: before tailBlock, and once more after it.
LoadTail ==
    /\ consumer \in {"loadTail", "again"}
    /\ blk' = [blk EXCEPT ![frontBlock].localTail = blk[frontBlock].tail]
    /\ ConsumerGoes(IF blk[frontBlock].front # blk[frontBlock].tail THEN "take"
                      ELSE IF consumer = "again" THEN "nextBlock" ELSE "tailBlock")
    /\ UNCHANGED <<shape, frontBlock, tailBlock, largestBlockSize>>

\* Mutant of LoadTailBlock: the front block is not looked at again.
LoadTailBlockNoRecheck ==
    /\ consumer = "tailBlock"
    /\ frontBlock # tailBlock
    /\ ConsumerGoes("nextBlock")
    /\ UNCHANGED queueVars

\* The front block looked empty, and the producer is in another one.  It may
\* have filled the front block in between: look again.
LoadTailBlock ==
    /\ consumer = "tailBlock"
    /\ frontBlock # tailBlock
    /\ ConsumerGoes("again")
    /\ UNCHANGED queueVars

DequeueFails ==
    /\ consumer = "tailBlock"
    /\ frontBlock = tailBlock
    /\ consumer' = "idle"
    /\ seen' = "idle"
    /\ UNCHANGED <<queueVars, op, result, producerVars>>

\* The front block is done with.  peek() looks into the next one and stays.
NextBlock ==
    /\ consumer = "nextBlock"
    /\ LET b == blk[frontBlock].next
       IN /\ IF op = "peek" THEN UNCHANGED blk
                            ELSE blk' = [blk EXCEPT ![b].localTail = blk[b].tail]
          /\ ConsumerGoes(IF op = "peek" THEN "takeNext" ELSE "moveFront")
    /\ UNCHANGED <<shape, frontBlock, tailBlock, largestBlockSize>>

MoveFront ==
    /\ consumer = "moveFront"
    /\ frontBlock' = blk[frontBlock].next
    /\ ConsumerGoes("take")
    /\ UNCHANGED <<shape, blk, tailBlock, largestBlockSize>>

\* The block the consumer takes its element from
Source == IF consumer = "takeNext" THEN blk[frontBlock].next ELSE frontBlock

\* result = std::move(*element), element->~T(); peek() returns at once
Take ==
    /\ consumer \in {"take", "takeNext"}
    /\ result' = blk[Source].data[blk[Source].front]
    /\ IF op = "peek"
         THEN consumer' = "idle" /\ seen' = "idle" /\ UNCHANGED blk
         ELSE /\ blk' = [blk EXCEPT ![Source].data[blk[Source].front] = Raw]
              /\ consumer' = "release" /\ UNCHANGED seen
    /\ UNCHANGED <<shape, frontBlock, tailBlock, largestBlockSize, op, producerVars>>

\* front = next index: the slot is the producer's again.
Release ==
    /\ consumer = "release"
    /\ blk' = [blk EXCEPT ![frontBlock].front = After(frontBlock, blk[frontBlock].front)]
    /\ consumer' = "idle"
    /\ seen' = "idle"
    /\ UNCHANGED <<shape, frontBlock, tailBlock, largestBlockSize, op, result, producerVars>>

Consumer ==
    \/ \E function \in {"try_dequeue", "pop", "peek"} : Dequeue(function)
    \/ LoadTail \/ LoadTailBlock \/ DequeueFails \/ NextBlock \/ MoveFront \/ Take \/ Release

Next == Producer \/ Consumer

Spec == Init /\ [][Next]_vars
-----------------------------------------------------------------------------
(* Properties *)

\* The asserts of the two threads: a block the consumer advances to holds an
\* element, and a block the producer advances to holds none.
AdvanceAsserts ==
    /\ consumer \in {"moveFront", "takeNext"} =>
          LET b == blk[blk[frontBlock].next] IN b.front # b.tail
    /\ producer = "construct" /\ dest # tailBlock => blk[dest].front = blk[dest].tail

\* Neither thread touches a slot that is the other's: an element is constructed
\* in a slot that holds none, and one is taken from a slot that holds one.
SlotsHandedOver ==
    /\ producer = "construct" => blk[dest].data[blk[dest].tail] = Raw
    /\ consumer \in {"take", "takeNext"} => blk[Source].data[blk[Source].front] # Raw

\* Every index stays inside its block, the asserts of both threads hold, and
\* neither takes an element from, or puts one into, a slot of the other's.
RingSound == TypeOK /\ AdvanceAsserts /\ SlotsHandedOver

\* "Constructs a queue that can hold at least `size` elements without further
\* allocations" (readerwriterqueue.h:101): a call of try_enqueue() that fails
\* found at least `size` elements in the queue when it began.
HoldsItsSize ==
    producer = "full" /\ blk[tailBlock].next = frontBlock => lengthAsked >= shape.size

\* The blocks are one ring, and those the consumer has left behind are empty
\* but for the one the producer is writing: size_approx() and the destructor,
\* which go round it, meet every block once, and every element.
RingWhole ==
    LET n == IF producer = "link" THEN Len(blk) - 1 ELSE Len(blk)
    IN /\ {Ring[k] : k \in 0 .. n - 1} = 1..n
       /\ Ring[n] = frontBlock
       /\ \A k \in Distance + 1 .. n - 1 : Ring[k] # dest => Held(Ring[k]) = <<>>

\* The ring of blocks is a FIFO: an element gets in when its tail, or the tail
\* block, is stored and out when its front is; and a call that began with an
\* element in the queue returns one.  It is what the assert(success) of
\* BlockingReaderWriterQueue::try_dequeue relies on, whose semaphore has
\* counted the element before.  All the while it holds its size, and the blocks
\* are one ring.
QueueOf(c) == IF consumer = "release" THEN <<result>> \o Tail(c) ELSE c
Fifo == INSTANCE SpscFifo WITH Elements <- 1..MaxEnqueues, queue <- QueueOf(Contents),
            asked <- seen, result <- IF consumer = "release" THEN Raw ELSE result
FifoSpec == Fifo!Spec /\ [](HoldsItsSize /\ RingWhole)
=============================================================================
