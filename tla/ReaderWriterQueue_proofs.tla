----------------------- MODULE ReaderWriterQueue_proofs -----------------------
(***************************************************************************)
(* The ring of blocks for every number and size of blocks: the asserts of  *)
(* both threads hold, neither touches a slot of the other's, and the       *)
(* elements are in the order they were enqueued in.                        *)
(*                                                                         *)
(* No induction along the ring is needed.  The blocks from the consumer's  *)
(* to the producer's can be told from the others where they stand (Live):  *)
(* all but the first hold elements, and a block that holds none is not one *)
(* of them.  What `next` does is then a property of single blocks: it      *)
(* leads from one of them to another until the producer's, and from no     *)
(* other into them but to the consumer's (RingInv).                        *)
(***************************************************************************)
EXTENDS ReaderWriterQueue, SequenceTheorems, TLAPS

\* Slot i is one of those from f to t, going round: the ones that hold elements.
FilledAt(f, t, i) == IF f <= t THEN f <= i /\ i < t ELSE f <= i \/ i < t

Filled(b, i) == FilledAt(blk[b].front, blk[b].tail, i)

\* Going round from a to c one meets x.
Between(a, x, c) == (a <= x /\ x <= c) \/ (x <= c /\ c < a) \/ (c < a /\ a <= x)

\* The slots after and before i, in a block whose last slot is m.
Up(m, i) == IF i = m THEN 0 ELSE i + 1
Down(m, i) == IF i = 0 THEN m ELSE i - 1

Empty(b) == blk[b].front = blk[b].tail

Datas == UNION {[0..m -> Nat] : m \in Nat}
Blocks == [sizeMask : Nat, front : Nat, tail : Nat, localFront : Nat, localTail : Nat, next : Nat,
           data : Datas]

QueueTypes ==
    /\ blk \in Seq(Blocks)
    /\ enqueued \in Nat
    /\ result \in 0..enqueued
    /\ {frontBlock, tailBlock, dest} \subseteq DOMAIN blk
    /\ largestBlockSize \in Nat /\ largestBlockSize >= 2
    /\ producer \in {"idle", "loadFront", "full", "link", "construct", "setTail", "moveTail"}
    /\ consumer \in {"idle", "loadTail", "tailBlock", "again", "nextBlock", "moveFront", "take",
                     "takeNext", "release"}
    /\ op \in {"peek", "pop", "try_dequeue"}

\* The indices of a block: it has a usable slot, and the copies are behind the
\* indices they are copies of, by less than a lap.
IndexInv ==
    \A b \in DOMAIN blk :
        /\ blk[b].sizeMask >= 1
        /\ blk[b].front <= blk[b].sizeMask /\ blk[b].tail <= blk[b].sizeMask
        /\ blk[b].localFront <= blk[b].sizeMask /\ blk[b].localTail <= blk[b].sizeMask
        /\ blk[b].next \in DOMAIN blk
        /\ Between(blk[b].localFront, blk[b].front, blk[b].tail)
        /\ Between(blk[b].front, blk[b].localTail, blk[b].tail)

\* The block the producer has made or filled but not yet moved to.
Ahead == IF producer \in {"link", "moveTail"} THEN {dest} ELSE {}
Unlinked == IF producer = "link" THEN {dest} ELSE {}

\* The blocks from the consumer's to the producer's.
Live == ({frontBlock, tailBlock} \cup {b \in DOMAIN blk : ~Empty(b)}) \ Ahead

\* A slot holds an element if it is filled, but for the one the consumer has
\* just taken and the one the producer has just constructed.
SlotInv ==
    \A b \in DOMAIN blk :
        /\ blk[b].data \in [0..blk[b].sizeMask -> 0..(enqueued + 1)]
        /\ \A i \in 0..blk[b].sizeMask :
             /\ blk[b].data[i] # Raw <=>
                  \/ Filled(b, i) /\ ~(consumer = "release" /\ b = frontBlock /\ i = blk[b].front)
                  \/ producer = "setTail" /\ b = dest /\ i = blk[b].tail
             /\ b \notin Ahead /\ Filled(b, i) => blk[b].data[i] <= enqueued

RingInv ==
    /\ frontBlock \notin Ahead /\ tailBlock \notin Ahead
    /\ tailBlock # frontBlock => ~Empty(tailBlock)
    /\ \A b, c \in DOMAIN blk \ Unlinked : blk[b].next = blk[c].next => b = c
    /\ \A b \in DOMAIN blk \ Unlinked : blk[b].next \notin Unlinked
    /\ \A b \in Live \ {tailBlock} : blk[b].next \in Live \ {frontBlock}
    /\ \A b \in DOMAIN blk \ Unlinked :
         b \notin Live \/ b = tailBlock => blk[b].next \notin Live \ {frontBlock}

ProducerInv ==
    /\ producer \in {"loadFront", "full"} => dest = tailBlock
    /\ producer \in {"construct", "setTail"} =>
         /\ dest = tailBlock \/ (dest = blk[tailBlock].next /\ dest \notin Live)
         /\ After(dest, blk[dest].tail) # blk[dest].localFront
    /\ producer = "link" => blk[dest].next = blk[tailBlock].next
    /\ producer = "moveTail" => dest = blk[tailBlock].next
    /\ producer \in {"link", "moveTail"} => ~Empty(dest)

ConsumerInv ==
    /\ consumer \in {"again", "nextBlock", "moveFront", "takeNext"} => frontBlock # tailBlock
    /\ consumer \in {"nextBlock", "moveFront", "takeNext"} => Empty(frontBlock)
    /\ consumer \in {"take", "release"} => blk[frontBlock].front # blk[frontBlock].localTail
    /\ consumer = "moveFront" =>
         blk[blk[frontBlock].next].front # blk[blk[frontBlock].next].localTail
    /\ consumer = "takeNext" => op = "peek"
    /\ consumer \in {"moveFront", "release"} => op # "peek"

\* The element of a slot, also while the consumer is moving it out.
Val(b, i) ==
    IF consumer = "release" /\ b = frontBlock /\ i = blk[b].front THEN result ELSE blk[b].data[i]

LastSlot(b) == Down(blk[b].sizeMask, blk[b].tail)

\* Elements are numbered as they are enqueued.
InOrder ==
    /\ \A b \in Live : \A i \in 0..blk[b].sizeMask :
         Filled(b, i) /\ After(b, i) # blk[b].tail => Val(b, After(b, i)) = Val(b, i) + 1
    /\ \A b \in Live \ {tailBlock} : ~Empty(b) =>
         Val(blk[b].next, blk[blk[b].next].front) = Val(b, LastSlot(b)) + 1
    /\ ~Empty(tailBlock) => Val(tailBlock, LastSlot(tailBlock)) = enqueued

NewestInv ==
    /\ producer \in {"link", "moveTail"} =>
         /\ blk[dest].data[blk[dest].front] = enqueued + 1
         /\ After(dest, blk[dest].front) = blk[dest].tail
    /\ producer = "setTail" => blk[dest].data[blk[dest].tail] = enqueued + 1

QueueInv ==
    /\ QueueTypes /\ IndexInv /\ SlotInv /\ RingInv /\ ProducerInv /\ ConsumerInv
    /\ InOrder /\ NewestInv
-----------------------------------------------------------------------------
(* Going round a block *)

\* The masked increment.
LEMMA MaskedIncrement ==
    ASSUME NEW m \in Nat, NEW i \in 0..m
    PROVE  (i + 1) % (m + 1) = Up(m, i)
  BY DEF Up

\* A tail that does not run into the copy of the front does not run into the
\* front, and fills the slot it leaves.
LEMMA TailMoves ==
    ASSUME NEW m \in Nat, NEW f \in 0..m, NEW t \in 0..m, NEW lf \in 0..m, NEW lt \in 0..m,
           Between(lf, f, t), Between(f, lt, t), Up(m, t) # lf
    PROVE  /\ Up(m, t) \in 0..m /\ Up(m, t) # f
           /\ Between(lf, f, Up(m, t)) /\ Between(f, lt, Up(m, t))
           /\ \A i \in 0..m : FilledAt(f, Up(m, t), i) <=> FilledAt(f, t, i) \/ i = t
  BY DEF FilledAt, Up, Between

\* A front that is not at the copy of the tail is not at the tail, and frees the
\* slot it leaves.
LEMMA FrontMoves ==
    ASSUME NEW m \in Nat, NEW f \in 0..m, NEW t \in 0..m, NEW lf \in 0..m, NEW lt \in 0..m,
           Between(lf, f, t), Between(f, lt, t), f # lt
    PROVE  /\ Up(m, f) \in 0..m /\ f # t
           /\ Between(lf, Up(m, f), t) /\ Between(Up(m, f), lt, t)
           /\ \A i \in 0..m : FilledAt(Up(m, f), t, i) <=> FilledAt(f, t, i) /\ i # f
  BY DEF FilledAt, Up, Between

\* A copy that is fresh.
LEMMA FreshCopies ==
    ASSUME NEW f \in Nat, NEW t \in Nat
    PROVE  Between(f, f, t) /\ Between(f, t, t)
  BY DEF Between
-----------------------------------------------------------------------------
(* The blocks, and a change of one field of one of them *)

\* A block of the ring.
LEMMA BlockFields ==
    ASSUME QueueTypes, IndexInv, NEW b \in DOMAIN blk
    PROVE  /\ DOMAIN blk = 1..Len(blk) /\ Len(blk) \in Nat
           /\ blk[b] \in Blocks
           /\ blk[b].sizeMask \in Nat /\ blk[b].sizeMask >= 1
           /\ blk[b].front \in Nat /\ blk[b].tail \in Nat
           /\ blk[b].front \in 0..blk[b].sizeMask /\ blk[b].tail \in 0..blk[b].sizeMask
           /\ blk[b].localFront \in 0..blk[b].sizeMask /\ blk[b].localTail \in 0..blk[b].sizeMask
           /\ blk[b].next \in DOMAIN blk
           /\ \A i \in 0..blk[b].sizeMask : After(b, i) = Up(blk[b].sizeMask, i)
  <1>1. blk \in Seq(Blocks)
    BY DEF QueueTypes
  <1>2. DOMAIN blk = 1..Len(blk) /\ Len(blk) \in Nat
    BY <1>1, LenProperties
  <1>3. blk[b] \in Blocks
    BY <1>1, <1>2, ElementOfSeq
  <1>4. /\ blk[b].sizeMask \in Nat /\ blk[b].front \in Nat /\ blk[b].tail \in Nat
        /\ blk[b].localFront \in Nat /\ blk[b].localTail \in Nat
    BY <1>3 DEF Blocks
  <1>5. \A i \in 0..blk[b].sizeMask : After(b, i) = Up(blk[b].sizeMask, i)
    BY <1>4, MaskedIncrement DEF After
  <1> QED
    BY <1>2, <1>3, <1>4, <1>5 DEF IndexInv

\* Nothing of a block but the two copies changes from blk to new.
Shared(new) ==
    /\ DOMAIN new = DOMAIN blk
    /\ \A c \in DOMAIN blk :
         /\ new[c].sizeMask = blk[c].sizeMask /\ new[c].next = blk[c].next
         /\ new[c].front = blk[c].front /\ new[c].tail = blk[c].tail
         /\ new[c].data = blk[c].data

\* A function of the ring's domain and of its blocks is a ring.
LEMMA RingOfBlocks ==
    ASSUME blk \in Seq(Blocks), NEW new, NEW b \in DOMAIN blk, NEW r \in Blocks,
           new = [blk EXCEPT ![b] = r]
    PROVE  /\ new \in Seq(Blocks) /\ DOMAIN new = DOMAIN blk /\ Len(new) = Len(blk)
           /\ \A c \in DOMAIN blk : new[c] = IF c = b THEN r ELSE blk[c]
  <1>1. Len(blk) \in Nat /\ blk \in [1..Len(blk) -> Blocks] /\ DOMAIN blk = 1..Len(blk)
    BY LenProperties
  <1>2. new \in [1..Len(blk) -> Blocks]
    BY <1>1
  <1>3. new \in Seq(Blocks) /\ Len(new) = Len(blk)
    BY <1>1, <1>2, LenProperties, SeqDef
  <1> QED
    BY <1>1, <1>2, <1>3

\* Release: the consumer's index.
LEMMA SetsFront ==
    ASSUME blk \in Seq(Blocks), NEW b \in DOMAIN blk, NEW v \in Nat,
           blk' = [blk EXCEPT ![b].front = v]
    PROVE  /\ blk' \in Seq(Blocks) /\ DOMAIN blk' = DOMAIN blk /\ Len(blk') = Len(blk)
           /\ \A c \in DOMAIN blk :
                /\ blk'[c].front = IF c = b THEN v ELSE blk[c].front
                /\ blk'[c].sizeMask = blk[c].sizeMask /\ blk'[c].next = blk[c].next
                /\ blk'[c].tail = blk[c].tail /\ blk'[c].data = blk[c].data
                /\ blk'[c].localFront = blk[c].localFront /\ blk'[c].localTail = blk[c].localTail
  <1> DEFINE r == [blk[b] EXCEPT !.front = v]
  <1>1. blk[b] \in Blocks
    BY ElementOfSeq
  <1>2. r \in Blocks /\ r.front = v
        /\ r.sizeMask = blk[b].sizeMask /\ r.next = blk[b].next /\ r.tail = blk[b].tail
        /\ r.data = blk[b].data /\ r.localFront = blk[b].localFront /\ r.localTail = blk[b].localTail
    BY <1>1 DEF Blocks
  <1>3. blk' = [blk EXCEPT ![b] = r]
    OBVIOUS
  <1> HIDE DEF r
  <1> QED
    BY <1>2, <1>3, RingOfBlocks

\* SetTail: the producer's index.
LEMMA SetsTail ==
    ASSUME blk \in Seq(Blocks), NEW b \in DOMAIN blk, NEW v \in Nat,
           blk' = [blk EXCEPT ![b].tail = v]
    PROVE  /\ blk' \in Seq(Blocks) /\ DOMAIN blk' = DOMAIN blk /\ Len(blk') = Len(blk)
           /\ \A c \in DOMAIN blk :
                /\ blk'[c].tail = IF c = b THEN v ELSE blk[c].tail
                /\ blk'[c].sizeMask = blk[c].sizeMask /\ blk'[c].next = blk[c].next
                /\ blk'[c].front = blk[c].front /\ blk'[c].data = blk[c].data
                /\ blk'[c].localFront = blk[c].localFront /\ blk'[c].localTail = blk[c].localTail
  <1> DEFINE r == [blk[b] EXCEPT !.tail = v]
  <1>1. blk[b] \in Blocks
    BY ElementOfSeq
  <1>2. r \in Blocks /\ r.tail = v
        /\ r.sizeMask = blk[b].sizeMask /\ r.next = blk[b].next /\ r.front = blk[b].front
        /\ r.data = blk[b].data /\ r.localFront = blk[b].localFront /\ r.localTail = blk[b].localTail
    BY <1>1 DEF Blocks
  <1>3. blk' = [blk EXCEPT ![b] = r]
    OBVIOUS
  <1> HIDE DEF r
  <1> QED
    BY <1>2, <1>3, RingOfBlocks

\* The producer's copy of the front.
LEMMA SetsLocalFront ==
    ASSUME blk \in Seq(Blocks), NEW b \in DOMAIN blk, NEW v \in Nat,
           blk' = [blk EXCEPT ![b].localFront = v]
    PROVE  /\ blk' \in Seq(Blocks) /\ DOMAIN blk' = DOMAIN blk /\ Len(blk') = Len(blk)
           /\ \A c \in DOMAIN blk :
                /\ blk'[c].localFront = IF c = b THEN v ELSE blk[c].localFront
                /\ blk'[c].sizeMask = blk[c].sizeMask /\ blk'[c].next = blk[c].next
                /\ blk'[c].front = blk[c].front /\ blk'[c].tail = blk[c].tail
                /\ blk'[c].data = blk[c].data /\ blk'[c].localTail = blk[c].localTail
  <1> DEFINE r == [blk[b] EXCEPT !.localFront = v]
  <1>1. blk[b] \in Blocks
    BY ElementOfSeq
  <1>2. r \in Blocks /\ r.localFront = v
        /\ r.sizeMask = blk[b].sizeMask /\ r.next = blk[b].next /\ r.front = blk[b].front
        /\ r.tail = blk[b].tail /\ r.data = blk[b].data /\ r.localTail = blk[b].localTail
    BY <1>1 DEF Blocks
  <1>3. blk' = [blk EXCEPT ![b] = r]
    OBVIOUS
  <1> HIDE DEF r
  <1> QED
    BY <1>2, <1>3, RingOfBlocks

\* The consumer's copy of the tail.
LEMMA SetsLocalTail ==
    ASSUME blk \in Seq(Blocks), NEW b \in DOMAIN blk, NEW v \in Nat,
           blk' = [blk EXCEPT ![b].localTail = v]
    PROVE  /\ blk' \in Seq(Blocks) /\ DOMAIN blk' = DOMAIN blk /\ Len(blk') = Len(blk)
           /\ \A c \in DOMAIN blk :
                /\ blk'[c].localTail = IF c = b THEN v ELSE blk[c].localTail
                /\ blk'[c].sizeMask = blk[c].sizeMask /\ blk'[c].next = blk[c].next
                /\ blk'[c].front = blk[c].front /\ blk'[c].tail = blk[c].tail
                /\ blk'[c].data = blk[c].data /\ blk'[c].localFront = blk[c].localFront
  <1> DEFINE r == [blk[b] EXCEPT !.localTail = v]
  <1>1. blk[b] \in Blocks
    BY ElementOfSeq
  <1>2. r \in Blocks /\ r.localTail = v
        /\ r.sizeMask = blk[b].sizeMask /\ r.next = blk[b].next /\ r.front = blk[b].front
        /\ r.tail = blk[b].tail /\ r.data = blk[b].data /\ r.localFront = blk[b].localFront
    BY <1>1 DEF Blocks
  <1>3. blk' = [blk EXCEPT ![b] = r]
    OBVIOUS
  <1> HIDE DEF r
  <1> QED
    BY <1>2, <1>3, RingOfBlocks

\* Link: the ring.
LEMMA SetsNext ==
    ASSUME blk \in Seq(Blocks), NEW b \in DOMAIN blk, NEW v \in Nat,
           blk' = [blk EXCEPT ![b].next = v]
    PROVE  /\ blk' \in Seq(Blocks) /\ DOMAIN blk' = DOMAIN blk /\ Len(blk') = Len(blk)
           /\ \A c \in DOMAIN blk :
                /\ blk'[c].next = IF c = b THEN v ELSE blk[c].next
                /\ blk'[c].sizeMask = blk[c].sizeMask /\ blk'[c].front = blk[c].front
                /\ blk'[c].tail = blk[c].tail /\ blk'[c].data = blk[c].data
                /\ blk'[c].localFront = blk[c].localFront /\ blk'[c].localTail = blk[c].localTail
  <1> DEFINE r == [blk[b] EXCEPT !.next = v]
  <1>1. blk[b] \in Blocks
    BY ElementOfSeq
  <1>2. r \in Blocks /\ r.next = v
        /\ r.sizeMask = blk[b].sizeMask /\ r.front = blk[b].front /\ r.tail = blk[b].tail
        /\ r.data = blk[b].data /\ r.localFront = blk[b].localFront /\ r.localTail = blk[b].localTail
    BY <1>1 DEF Blocks
  <1>3. blk' = [blk EXCEPT ![b] = r]
    OBVIOUS
  <1> HIDE DEF r
  <1> QED
    BY <1>2, <1>3, RingOfBlocks

\* Construct and Take: a slot.
LEMMA SetsData ==
    ASSUME blk \in Seq(Blocks), NEW b \in DOMAIN blk, NEW v \in Datas,
           blk' = [blk EXCEPT ![b].data = v]
    PROVE  /\ blk' \in Seq(Blocks) /\ DOMAIN blk' = DOMAIN blk /\ Len(blk') = Len(blk)
           /\ \A c \in DOMAIN blk :
                /\ blk'[c].data = IF c = b THEN v ELSE blk[c].data
                /\ blk'[c].sizeMask = blk[c].sizeMask /\ blk'[c].next = blk[c].next
                /\ blk'[c].front = blk[c].front /\ blk'[c].tail = blk[c].tail
                /\ blk'[c].localFront = blk[c].localFront /\ blk'[c].localTail = blk[c].localTail
  <1> DEFINE r == [blk[b] EXCEPT !.data = v]
  <1>1. blk[b] \in Blocks
    BY ElementOfSeq
  <1>2. r \in Blocks /\ r.data = v
        /\ r.sizeMask = blk[b].sizeMask /\ r.next = blk[b].next /\ r.front = blk[b].front
        /\ r.tail = blk[b].tail /\ r.localFront = blk[b].localFront /\ r.localTail = blk[b].localTail
    BY <1>1 DEF Blocks
  <1>3. blk' = [blk EXCEPT ![b] = r]
    OBVIOUS
  <1> HIDE DEF r
  <1> QED
    BY <1>2, <1>3, RingOfBlocks
-----------------------------------------------------------------------------
(* The steps that change the copies only *)

\* The indices are integers.
LEMMA Indices ==
    ASSUME QueueInv, NEW b \in DOMAIN blk
    PROVE  /\ blk[b].sizeMask \in Nat /\ blk[b].front \in Int /\ blk[b].tail \in Int
           /\ LastSlot(b) \in Int
           /\ \A i \in 0..blk[b].sizeMask : After(b, i) \in Int
  <1>1. QueueTypes /\ IndexInv
    BY DEF QueueInv
  <1>2. /\ blk[b].sizeMask \in Nat
        /\ blk[b].front \in 0..blk[b].sizeMask /\ blk[b].tail \in 0..blk[b].sizeMask
        /\ \A i \in 0..blk[b].sizeMask : After(b, i) = Up(blk[b].sizeMask, i)
    BY <1>1, BlockFields
  <1> QED
    BY <1>2 DEF LastSlot, Up, Down

\* Neither the filled slots nor the elements in them depend on the copies.
LEMMA CopiesDoNotCount ==
    ASSUME QueueInv, Shared(blk'), UNCHANGED <<frontBlock, tailBlock, enqueued>>,
           \/ producer' = producer /\ dest' = dest
           \/ /\ producer \notin {"link", "setTail", "moveTail"}
              /\ producer' \notin {"link", "setTail", "moveTail"},
           \/ consumer' = consumer /\ result' = result
           \/ consumer # "release" /\ consumer' # "release"
    PROVE  /\ Live' = Live /\ Unlinked' = Unlinked /\ Ahead' = Ahead
           /\ \A b \in DOMAIN blk : Empty(b)' <=> Empty(b)
           /\ SlotInv' /\ RingInv' /\ InOrder' /\ NewestInv'
  <1>1. /\ DOMAIN blk' = DOMAIN blk
        /\ \A c \in DOMAIN blk :
             /\ blk'[c].sizeMask = blk[c].sizeMask /\ blk'[c].next = blk[c].next
             /\ blk'[c].front = blk[c].front /\ blk'[c].tail = blk[c].tail
             /\ blk'[c].data = blk[c].data
    BY DEF Shared
  <1>2. Ahead' = Ahead /\ Unlinked' = Unlinked
    BY DEF Ahead, Unlinked
  <1>3. \A b \in DOMAIN blk : Empty(b)' <=> Empty(b)
    BY <1>1 DEF Empty
  <1>4. Live' = Live
    BY <1>1, <1>2, <1>3 DEF Live
  <1>5. /\ {frontBlock, tailBlock, dest} \subseteq DOMAIN blk
        /\ Live \subseteq DOMAIN blk
        /\ \A b \in DOMAIN blk : blk[b].next \in DOMAIN blk
    BY DEF QueueInv, QueueTypes, IndexInv, Live
  <1>6. /\ \A b \in DOMAIN blk, i \in Int : Filled(b, i)' <=> Filled(b, i)
        /\ \A b \in DOMAIN blk, i \in Int : After(b, i)' = After(b, i)
        /\ \A b \in DOMAIN blk : LastSlot(b)' = LastSlot(b)
    BY <1>1 DEF Filled, After, LastSlot
  <1>7. \A b \in DOMAIN blk, i \in Int : Val(b, i)' = Val(b, i)
    BY <1>1 DEF Val
  <1>8. \/ producer' = "setTail" /\ producer = "setTail" /\ dest' = dest
        \/ producer' # "setTail" /\ producer # "setTail"
    OBVIOUS
  <1>9. SlotInv'
    BY <1>1, <1>2, <1>6, <1>8 DEF QueueInv, SlotInv
  <1>10. RingInv'
    BY <1>1, <1>2, <1>3, <1>4, <1>5, SMTT(60) DEF QueueInv, RingInv
  <1>11. InOrder'
    <2>1. ASSUME NEW b \in Live, NEW i \in 0..blk[b].sizeMask,
                 Filled(b, i)', (After(b, i) # blk[b].tail)'
          PROVE  Val(b, After(b, i))' = Val(b, i)' + 1
      <3>1. b \in DOMAIN blk /\ i \in Int /\ After(b, i) \in Int /\ After(b, i)' = After(b, i)
        BY <1>5, <1>6, Indices
      <3>2. Filled(b, i) /\ After(b, i) # blk[b].tail
        BY <1>1, <1>6, <2>1, <3>1
      <3>3. Val(b, After(b, i)) = Val(b, i) + 1
        BY <3>2 DEF QueueInv, InOrder
      <3> QED
        BY <1>7, <3>1, <3>3
    <2>2. ASSUME NEW b \in Live \ {tailBlock}, ~Empty(b)'
          PROVE  Val(blk[b].next, blk[blk[b].next].front)' = Val(b, LastSlot(b))' + 1
      <3>1. b \in DOMAIN blk /\ blk[b].next \in DOMAIN blk
        BY <1>5
      <3>2. LastSlot(b) \in Int /\ blk[blk[b].next].front \in Int
        BY <3>1, Indices
      <3>3. Val(blk[b].next, blk[blk[b].next].front) = Val(b, LastSlot(b)) + 1
        BY <1>3, <2>2, <3>1 DEF QueueInv, InOrder
      <3> QED
        BY <1>1, <1>6, <1>7, <3>1, <3>2, <3>3
    <2>3. ~Empty(tailBlock)' => (Val(tailBlock, LastSlot(tailBlock)) = enqueued)'
      <3>1. tailBlock \in DOMAIN blk /\ LastSlot(tailBlock) \in Int
        BY <1>5, Indices
      <3> QED
        BY <1>3, <1>6, <1>7, <3>1 DEF QueueInv, InOrder
    <2> QED
      BY <1>1, <1>4, <1>5, <2>1, <2>2, <2>3 DEF InOrder
  <1>12. NewestInv'
    <2>1. producer' \in {"link", "moveTail", "setTail"} => producer' = producer /\ dest' = dest
      OBVIOUS
    <2>2. dest \in DOMAIN blk /\ blk[dest].front \in Int
      BY <1>5, Indices
    <2> QED
      BY <1>1, <1>5, <1>6, <2>1, <2>2 DEF QueueInv, NewestInv
  <1> QED
    BY <1>2, <1>3, <1>4, <1>9, <1>10, <1>11, <1>12

\* A copy that is renewed is behind what it is a copy of.
LEMMA CopyIsRenewed ==
    ASSUME QueueInv, NEW b \in DOMAIN blk,
           \/ blk' = blk
           \/ blk' = [blk EXCEPT ![b].localFront = blk[b].front]
           \/ blk' = [blk EXCEPT ![b].localTail = blk[b].tail]
    PROVE  blk' \in Seq(Blocks) /\ Shared(blk') /\ IndexInv'
  <1>1. blk \in Seq(Blocks) /\ QueueTypes /\ IndexInv
    BY DEF QueueInv, QueueTypes
  <1>2. blk[b].front \in Nat /\ blk[b].tail \in Nat /\ blk[b].sizeMask \in Nat
        /\ blk[b].front <= blk[b].sizeMask /\ blk[b].tail <= blk[b].sizeMask
    BY <1>1, BlockFields
  <1>3. CASE blk' = blk
    BY <1>1, <1>3 DEF Shared, IndexInv
  <1>4. CASE blk' = [blk EXCEPT ![b].localFront = blk[b].front]
    <2>1. /\ blk' \in Seq(Blocks) /\ DOMAIN blk' = DOMAIN blk
          /\ \A c \in DOMAIN blk :
                /\ blk'[c].localFront = IF c = b THEN blk[b].front ELSE blk[c].localFront
                /\ blk'[c].sizeMask = blk[c].sizeMask /\ blk'[c].next = blk[c].next
                /\ blk'[c].front = blk[c].front /\ blk'[c].tail = blk[c].tail
                /\ blk'[c].data = blk[c].data /\ blk'[c].localTail = blk[c].localTail
      BY <1>1, <1>2, <1>4, SetsLocalFront
    <2>2. Between(blk[b].front, blk[b].front, blk[b].tail)
      BY <1>2, FreshCopies
    <2>3. Shared(blk')
      BY <2>1 DEF Shared
    <2>4. ASSUME NEW c \in DOMAIN blk
          PROVE  /\ blk'[c].sizeMask >= 1
                 /\ blk'[c].front <= blk'[c].sizeMask /\ blk'[c].tail <= blk'[c].sizeMask
                 /\ blk'[c].localFront <= blk'[c].sizeMask
                 /\ blk'[c].localTail <= blk'[c].sizeMask
                 /\ blk'[c].next \in DOMAIN blk
                 /\ Between(blk'[c].localFront, blk'[c].front, blk'[c].tail)
                 /\ Between(blk'[c].front, blk'[c].localTail, blk'[c].tail)
      BY <1>1, <1>2, <2>1, <2>2, ZenonT(60) DEF IndexInv
    <2> QED
      BY <2>1, <2>3, <2>4 DEF IndexInv
  <1>5. CASE blk' = [blk EXCEPT ![b].localTail = blk[b].tail]
    <2>1. /\ blk' \in Seq(Blocks) /\ DOMAIN blk' = DOMAIN blk
          /\ \A c \in DOMAIN blk :
                /\ blk'[c].localTail = IF c = b THEN blk[b].tail ELSE blk[c].localTail
                /\ blk'[c].sizeMask = blk[c].sizeMask /\ blk'[c].next = blk[c].next
                /\ blk'[c].front = blk[c].front /\ blk'[c].tail = blk[c].tail
                /\ blk'[c].data = blk[c].data /\ blk'[c].localFront = blk[c].localFront
      BY <1>1, <1>2, <1>5, SetsLocalTail, ZenonT(60)
    <2>2. Between(blk[b].front, blk[b].tail, blk[b].tail)
      BY <1>2, FreshCopies
    <2>3. Shared(blk')
      BY <2>1 DEF Shared
    <2>4. ASSUME NEW c \in DOMAIN blk
          PROVE  /\ blk'[c].sizeMask >= 1
                 /\ blk'[c].front <= blk'[c].sizeMask /\ blk'[c].tail <= blk'[c].sizeMask
                 /\ blk'[c].localFront <= blk'[c].sizeMask
                 /\ blk'[c].localTail <= blk'[c].sizeMask
                 /\ blk'[c].next \in DOMAIN blk
                 /\ Between(blk'[c].localFront, blk'[c].front, blk'[c].tail)
                 /\ Between(blk'[c].front, blk'[c].localTail, blk'[c].tail)
      BY <1>1, <1>2, <2>1, <2>2, ZenonT(60) DEF IndexInv
    <2> QED
      BY <2>1, <2>3, <2>4 DEF IndexInv
  <1> QED
    BY <1>3, <1>4, <1>5

\* The producer looks for room: in the tail block, then in the next one.
LEMMA ProducerLooks ==
    ASSUME QueueInv,
           \/ \E alloc \in BOOLEAN : Enqueue(alloc)
           \/ LoadFront \/ TryNextBlock \/ EnqueueFails
    PROVE  QueueInv'
  <1>1. /\ {frontBlock, tailBlock, dest} \subseteq DOMAIN blk
        /\ blk[tailBlock].next \in DOMAIN blk /\ blk[frontBlock].next \in DOMAIN blk
        /\ blk \in Seq(Blocks) /\ \A c \in DOMAIN blk : blk[c].front \in Nat
        /\ QueueTypes /\ IndexInv /\ RingInv /\ ProducerInv /\ ConsumerInv
    <2>1. QueueTypes /\ IndexInv /\ RingInv /\ ProducerInv /\ ConsumerInv
      BY DEF QueueInv
    <2>2. \A c \in DOMAIN blk : blk[c].front \in Nat
      BY <2>1, BlockFields
    <2> QED
      BY <2>1, <2>2 DEF QueueTypes, IndexInv
  <1>2. /\ UNCHANGED <<frontBlock, tailBlock, enqueued, largestBlockSize, consumerVars>>
        /\ producer \notin {"link", "setTail", "moveTail"}
        /\ producer' \in {"idle", "construct", "loadFront", "full"}
    BY DEF Enqueue, LoadFront, TryNextBlock, EnqueueFails, ProducerGoes, queueVars
  <1>3. dest' \in {dest, tailBlock, blk[tailBlock].next} /\ dest' \in DOMAIN blk
    BY <1>1 DEF Enqueue, LoadFront, TryNextBlock, EnqueueFails
  <1>4. PICK b \in DOMAIN blk :
           blk' = blk \/ blk' = [blk EXCEPT ![b].localFront = blk[b].front]
    BY <1>1, <1>3 DEF Enqueue, LoadFront, TryNextBlock, EnqueueFails, queueVars
  <1>5. blk' \in Seq(Blocks) /\ Shared(blk') /\ IndexInv'
    BY <1>4, CopyIsRenewed
  <1>6. Live' = Live /\ SlotInv' /\ RingInv' /\ InOrder' /\ NewestInv'
    BY <1>2, <1>5, CopiesDoNotCount DEF consumerVars
  <1>7. DOMAIN blk' = DOMAIN blk
    BY <1>5 DEF Shared
  <1>8. QueueTypes'
    BY <1>1, <1>2, <1>3, <1>5, <1>7 DEF QueueTypes, consumerVars
  <1>9. \A c \in DOMAIN blk :
            /\ blk'[c].next = blk[c].next /\ blk'[c].sizeMask = blk[c].sizeMask
            /\ blk'[c].front = blk[c].front /\ blk'[c].tail = blk[c].tail
            /\ blk'[c].localTail = blk[c].localTail
    <2>2. CASE blk' = blk
      BY <2>2
    <2>3. CASE blk' = [blk EXCEPT ![b].localFront = blk[b].front]
      BY <1>1, <2>3, SetsLocalFront
    <2> QED
      BY <1>4, <2>2, <2>3
  <1>10. ConsumerInv'
    BY <1>1, <1>2, <1>9 DEF ConsumerInv, consumerVars, Empty
  <1>11. ProducerInv'
    <2>1. ASSUME NEW alloc \in BOOLEAN, Enqueue(alloc)
          PROVE  ProducerInv'
      BY <2>1 DEF Enqueue, ProducerInv, queueVars, After
    <2>2. CASE EnqueueFails
      BY <2>2 DEF EnqueueFails, ProducerGoes, ProducerInv
    <2>3. CASE LoadFront
      <3>1. blk'[tailBlock].localFront = blk[tailBlock].front
        <4>1. blk' = [blk EXCEPT ![tailBlock].localFront = blk[tailBlock].front]
          BY <2>3 DEF LoadFront
        <4>2. tailBlock \in DOMAIN blk /\ blk[tailBlock].front \in Nat
          BY <1>1
        <4>3. \A c \in DOMAIN blk : blk'[c].localFront =
                  IF c = tailBlock THEN blk[tailBlock].front ELSE blk[c].localFront
          BY <1>1, <4>1, <4>2, SetsLocalFront
        <4> QED
          BY <4>2, <4>3
      <3>2. dest = tailBlock /\ dest' = dest /\ producer' \in {"construct", "full"}
        BY <1>1, <2>3 DEF LoadFront, ProducerGoes, ProducerInv
      <3>3. producer' = "construct" => After(tailBlock, blk[tailBlock].tail) # blk[tailBlock].front
        BY <2>3 DEF LoadFront, ProducerGoes
      <3>4. After(tailBlock, blk[tailBlock].tail)' = After(tailBlock, blk[tailBlock].tail)
        BY <1>1, <1>2, <1>9 DEF After
      <3> QED
        BY <1>2, <3>1, <3>2, <3>3, <3>4 DEF ProducerInv
    <2>4. CASE TryNextBlock
      <3>1. /\ dest' = blk[tailBlock].next /\ dest' # frontBlock /\ producer' = "construct"
            /\ blk' = [blk EXCEPT ![dest'].localFront = blk[dest'].front]
        BY <2>4 DEF TryNextBlock, ProducerGoes
      <3>2. tailBlock \in DOMAIN blk \ Unlinked
        BY <1>1, <1>2 DEF Unlinked
      <3>3. dest' \notin Live
        BY <1>1, <3>1, <3>2 DEF RingInv
      <3>4. Empty(dest')
        BY <1>1, <1>2, <1>3, <3>3 DEF Live, Ahead
      <3>5. PICK n \in DOMAIN blk : n = dest'
        BY <1>3
      <3>6. blk'[n].localFront = blk[n].front
        <4>1. blk' = [blk EXCEPT ![n].localFront = blk[n].front] /\ blk[n].front \in Nat
          BY <1>1, <3>1, <3>5
        <4>2. \A c \in DOMAIN blk : blk'[c].localFront =
                  IF c = n THEN blk[n].front ELSE blk[c].localFront
          BY <1>1, <4>1, SetsLocalFront
        <4> QED
          BY <4>2
      <3>7. After(n, blk[n].tail) # blk[n].tail
        <4>1. /\ blk[n].sizeMask \in Nat /\ blk[n].sizeMask >= 1
              /\ blk[n].tail \in 0..blk[n].sizeMask
              /\ After(n, blk[n].tail) = Up(blk[n].sizeMask, blk[n].tail)
          BY <1>1, BlockFields
        <4> QED
          BY <4>1 DEF Up
      <3>8. (After(n, blk[n].tail) # blk[n].localFront)'
        BY <1>9, <3>4, <3>5, <3>6, <3>7 DEF After, Empty
      <3>9. (dest = blk[tailBlock].next)'
        BY <1>1, <1>2, <1>9, <3>1
      <3>10. dest' \notin Live'
        BY <1>6, <3>3
      <3> QED
        BY <3>1, <3>5, <3>8, <3>9, <3>10 DEF ProducerInv
    <2> QED
      BY <2>1, <2>2, <2>3, <2>4
  <1> QED
    BY <1>5, <1>6, <1>8, <1>10, <1>11 DEF QueueInv

\* The consumer looks for an element: in the front block, then in the next one.
LEMMA ConsumerLooks ==
    ASSUME QueueInv,
           \/ \E function \in {"try_dequeue", "pop", "peek"} : Dequeue(function)
           \/ LoadTail \/ LoadTailBlock \/ DequeueFails \/ NextBlock
    PROVE  QueueInv'
  <1>1. /\ {frontBlock, tailBlock, dest} \subseteq DOMAIN blk
        /\ blk[tailBlock].next \in DOMAIN blk /\ blk[frontBlock].next \in DOMAIN blk
        /\ blk \in Seq(Blocks) /\ \A c \in DOMAIN blk : blk[c].tail \in Nat
        /\ QueueTypes /\ IndexInv /\ RingInv /\ ProducerInv /\ ConsumerInv
    <2>1. QueueTypes /\ IndexInv /\ RingInv /\ ProducerInv /\ ConsumerInv
      BY DEF QueueInv
    <2>2. \A c \in DOMAIN blk : blk[c].tail \in Nat
      BY <2>1, BlockFields
    <2> QED
      BY <2>1, <2>2 DEF QueueTypes, IndexInv
  <1>2. /\ UNCHANGED <<frontBlock, tailBlock, enqueued, largestBlockSize, producer, dest>>
        /\ consumer # "release"
        /\ consumer' \in {"idle", "loadTail", "tailBlock", "again", "nextBlock", "moveFront",
                          "take", "takeNext"}
        /\ op' \in {op, "peek", "pop", "try_dequeue"}
        /\ result' \in {result, Raw}
    BY DEF Dequeue, LoadTail, LoadTailBlock, DequeueFails, NextBlock, ConsumerGoes, queueVars,
           producerVars
  <1>3. PICK b \in DOMAIN blk :
           blk' = blk \/ blk' = [blk EXCEPT ![b].localTail = blk[b].tail]
    BY <1>1 DEF Dequeue, LoadTail, LoadTailBlock, DequeueFails, NextBlock, queueVars
  <1>4. blk' \in Seq(Blocks) /\ Shared(blk') /\ IndexInv'
    BY <1>3, CopyIsRenewed
  <1>5. consumer' # "release"
    BY <1>2
  <1>6. Live' = Live /\ SlotInv' /\ RingInv' /\ InOrder' /\ NewestInv'
    BY <1>2, <1>4, <1>5, CopiesDoNotCount
  <1>7. DOMAIN blk' = DOMAIN blk
    BY <1>4 DEF Shared
  <1>8. QueueTypes'
    BY <1>1, <1>2, <1>4, <1>7 DEF QueueTypes, Raw
  <1>9. \A c \in DOMAIN blk :
            /\ blk'[c].next = blk[c].next /\ blk'[c].sizeMask = blk[c].sizeMask
            /\ blk'[c].front = blk[c].front /\ blk'[c].tail = blk[c].tail
            /\ blk'[c].localFront = blk[c].localFront
    <2>1. CASE blk' = blk
      BY <2>1
    <2>2. CASE blk' = [blk EXCEPT ![b].localTail = blk[b].tail]
      BY <1>1, <2>2, SetsLocalTail
    <2> QED
      BY <1>3, <2>1, <2>2
  <1>10. ProducerInv'
    <2>1. \A c \in DOMAIN blk : After(c, blk[c].tail)' = After(c, blk[c].tail)
      BY <1>9 DEF After
    <2> QED
      BY <1>1, <1>2, <1>6, <1>9, <2>1 DEF ProducerInv, Empty
  <1>11. ConsumerInv'
    <2>1. ASSUME NEW function \in {"try_dequeue", "pop", "peek"}, Dequeue(function)
          PROVE  ConsumerInv'
      BY <2>1 DEF Dequeue, ConsumerInv, queueVars
    <2>2. CASE LoadTailBlock
      BY <2>2 DEF LoadTailBlock, ConsumerGoes, ConsumerInv, queueVars
    <2>3. CASE DequeueFails
      BY <2>3 DEF DequeueFails, ConsumerInv
    <2>4. CASE LoadTail
      <3>1. /\ frontBlock \in DOMAIN blk /\ blk[frontBlock].tail \in Nat
            /\ blk' = [blk EXCEPT ![frontBlock].localTail = blk[frontBlock].tail]
        BY <1>1, <2>4 DEF LoadTail
      <3>2. \A c \in DOMAIN blk : blk'[c].localTail =
                IF c = frontBlock THEN blk[frontBlock].tail ELSE blk[c].localTail
        BY <1>1, <3>1, SetsLocalTail
      <3>3. /\ consumer' \in {"take", "nextBlock", "tailBlock"}
            /\ consumer' = "take" => blk[frontBlock].front # blk[frontBlock].tail
            /\ consumer' = "nextBlock" =>
                 consumer = "again" /\ blk[frontBlock].front = blk[frontBlock].tail
        BY <2>4 DEF LoadTail, ConsumerGoes
      <3>4. /\ blk'[frontBlock].localTail = blk[frontBlock].tail
            /\ blk'[frontBlock].front = blk[frontBlock].front
            /\ blk'[frontBlock].tail = blk[frontBlock].tail
        BY <1>9, <3>1, <3>2
      <3>5. consumer' = "nextBlock" => frontBlock # tailBlock
        BY <1>1, <3>3 DEF ConsumerInv
      <3> QED
        BY <1>2, <3>3, <3>4, <3>5 DEF ConsumerInv, Empty
    <2>5. CASE NextBlock
      <3>1. /\ consumer = "nextBlock" /\ op' = op
            /\ consumer' = IF op = "peek" THEN "takeNext" ELSE "moveFront"
        BY <2>5 DEF NextBlock, ConsumerGoes
      <3>2. frontBlock # tailBlock /\ Empty(frontBlock)
        BY <1>1, <3>1 DEF ConsumerInv
      <3>3. PICK n \in DOMAIN blk : n = blk[frontBlock].next
        BY <1>1
      <3>4. n \in Live \ {frontBlock}
        BY <1>1, <3>2, <3>3 DEF RingInv, Live
      <3>5. ~Empty(n)
        BY <1>1, <3>4 DEF RingInv, Live
      <3>6. op # "peek" => blk'[n].localTail = blk[n].tail
        <4>1. ASSUME op # "peek" PROVE \A c \in DOMAIN blk : blk'[c].localTail =
                IF c = n THEN blk[n].tail ELSE blk[c].localTail
          <5>1. blk' = [blk EXCEPT ![n].localTail = blk[n].tail] /\ blk[n].tail \in Nat
            BY <1>1, <2>5, <3>3, <4>1 DEF NextBlock
          <5> QED
            BY <1>1, <5>1, SetsLocalTail
        <4> QED
          BY <4>1
      <3>7. Empty(frontBlock)' /\ blk'[frontBlock].next = n /\ blk'[n].front = blk[n].front
        BY <1>1, <1>2, <1>9, <3>2, <3>3 DEF Empty
      <3> QED
        BY <1>2, <3>1, <3>2, <3>5, <3>6, <3>7 DEF ConsumerInv, Empty
    <2> QED
      BY <2>1, <2>2, <2>3, <2>4, <2>5
  <1> QED
    BY <1>4, <1>6, <1>8, <1>10, <1>11 DEF QueueInv

-----------------------------------------------------------------------------
(* The steps that move from block to block *)

\* The parts of the invariant, and where the two threads are.
LEMMA InvParts ==
    ASSUME QueueInv
    PROVE  /\ QueueTypes /\ IndexInv /\ SlotInv /\ RingInv /\ ProducerInv /\ ConsumerInv
           /\ InOrder /\ NewestInv
           /\ blk \in Seq(Blocks)
           /\ frontBlock \in DOMAIN blk /\ tailBlock \in DOMAIN blk /\ dest \in DOMAIN blk
           /\ \A b \in DOMAIN blk : blk[b].next \in DOMAIN blk
           /\ frontBlock \in Live /\ tailBlock \in Live
           /\ Live \subseteq DOMAIN blk /\ Unlinked \subseteq Ahead /\ Live \cap Ahead = {}
           /\ \A b \in Live \ {frontBlock} : ~Empty(b)
  <1>1. /\ QueueTypes /\ IndexInv /\ SlotInv /\ RingInv /\ ProducerInv /\ ConsumerInv
        /\ InOrder /\ NewestInv
    BY DEF QueueInv
  <1>2. /\ blk \in Seq(Blocks)
        /\ frontBlock \in DOMAIN blk /\ tailBlock \in DOMAIN blk /\ dest \in DOMAIN blk
        /\ \A b \in DOMAIN blk : blk[b].next \in DOMAIN blk
    BY <1>1 DEF QueueTypes, IndexInv
  <1>3. frontBlock \in Live /\ tailBlock \in Live
    BY <1>1 DEF RingInv, Live
  <1>4. Live \subseteq DOMAIN blk /\ Unlinked \subseteq Ahead /\ Live \cap Ahead = {}
    BY <1>2 DEF Live, Unlinked, Ahead
  <1>5. \A b \in Live \ {frontBlock} : ~Empty(b)
    BY <1>1 DEF RingInv, Live
  <1> QED
    BY <1>1, <1>2, <1>3, <1>4, <1>5

\* The consumer leaves a block that is empty for one that is not.
LEMMA FrontBlockMoves ==
    ASSUME QueueInv, MoveFront
    PROVE  QueueInv'
  <1>1. /\ QueueTypes /\ IndexInv /\ SlotInv /\ RingInv /\ ProducerInv /\ ConsumerInv
        /\ InOrder /\ NewestInv
        /\ frontBlock \in DOMAIN blk /\ tailBlock \in DOMAIN blk
        /\ frontBlock \in Live /\ tailBlock \in Live
        /\ Live \subseteq DOMAIN blk /\ Unlinked \subseteq Ahead /\ Live \cap Ahead = {}
        /\ \A b \in Live \ {frontBlock} : ~Empty(b)
    BY InvParts
  <1>2. /\ consumer = "moveFront" /\ consumer' = "take" /\ frontBlock' = blk[frontBlock].next
        /\ UNCHANGED <<blk, tailBlock, largestBlockSize, op, result, producer, dest, enqueued>>
    BY DEF MoveFront, ConsumerGoes, producerVars
  <1>3. frontBlock # tailBlock /\ Empty(frontBlock)
    BY <1>1, <1>2 DEF ConsumerInv
  <1>4. PICK n \in Live \ {frontBlock} : n = blk[frontBlock].next
    BY <1>1, <1>3 DEF RingInv
  <1>5. Ahead' = Ahead /\ Unlinked' = Unlinked
    BY <1>2 DEF Ahead, Unlinked
  <1>6. \A b : Empty(b)' <=> Empty(b)
    BY <1>2 DEF Empty
  <1>7. Live' = Live \ {frontBlock}
    BY <1>1, <1>2, <1>3, <1>4, <1>5, <1>6 DEF Live
  <1>8. QueueTypes' /\ IndexInv'
    BY <1>1, <1>2, <1>4 DEF QueueTypes, IndexInv
  <1>9. SlotInv'
    <2>1. consumer # "release" /\ consumer' # "release"
      BY <1>2
    <2>2. \A b, i : Filled(b, i)' <=> Filled(b, i)
      BY <1>2 DEF Filled
    <2> QED
      BY <1>1, <1>2, <1>5, <2>1, <2>2 DEF SlotInv
  <1>10. RingInv'
    <2>1. frontBlock' \notin Ahead' /\ tailBlock' \notin Ahead'
      BY <1>1, <1>2, <1>4, <1>5
    <2>2. ~Empty(tailBlock)'
      BY <1>1, <1>2, <1>3, <1>6
    <2>3. /\ \A b, c \in DOMAIN blk \ Unlinked : blk[b].next = blk[c].next => b = c
          /\ \A b \in DOMAIN blk \ Unlinked : blk[b].next \notin Unlinked
      BY <1>1 DEF RingInv
    <2>4. \A b \in Live' \ {tailBlock} : blk[b].next \in Live' \ {n}
      <3>1. SUFFICES ASSUME NEW b \in Live \ {frontBlock, tailBlock}
                     PROVE  blk[b].next \in Live \ {frontBlock, n}
        BY <1>7
      <3>2. blk[b].next \in Live \ {frontBlock}
        BY <1>1 DEF RingInv
      <3>3. b \in DOMAIN blk \ Unlinked /\ frontBlock \in DOMAIN blk \ Unlinked
        BY <1>1
      <3> QED
        BY <1>4, <2>3, <3>2, <3>3
    <2>5. \A b \in DOMAIN blk \ Unlinked :
            b \notin Live' \/ b = tailBlock => blk[b].next \notin Live' \ {n}
      <3>1. \A b \in DOMAIN blk \ Unlinked :
              b \notin Live \/ b = tailBlock => blk[b].next \notin Live \ {frontBlock}
        BY <1>1 DEF RingInv
      <3> QED
        BY <1>4, <1>7, <3>1
    <2> QED
      BY <1>2, <1>4, <1>5, <2>1, <2>2, <2>3, <2>4, <2>5 DEF RingInv
  <1>11. ProducerInv'
    BY <1>1, <1>2, <1>6, <1>7 DEF ProducerInv, After
  <1>12. ConsumerInv'
    BY <1>1, <1>2, <1>3, <1>4 DEF ConsumerInv
  <1>13. InOrder'
    <2>1. \A b, i : Val(b, i)' = Val(b, i)
      BY <1>2 DEF Val
    <2>2. \A b, i : (Filled(b, i)' <=> Filled(b, i)) /\ After(b, i)' = After(b, i)
      BY <1>2 DEF Filled, After
    <2>3. \A b : LastSlot(b)' = LastSlot(b)
      BY <1>2 DEF LastSlot
    <2> QED
      BY <1>1, <1>2, <1>6, <1>7, <2>1, <2>2, <2>3 DEF InOrder
  <1>14. NewestInv'
    BY <1>1, <1>2 DEF NewestInv, After
  <1> QED
    BY <1>8, <1>9, <1>10, <1>11, <1>12, <1>13, <1>14 DEF QueueInv

\* A block with one element.
LEMMA OneElement ==
    ASSUME NEW m \in Nat, NEW f \in 0..m, NEW t \in 0..m, Up(m, f) = t, m >= 1
    PROVE  /\ \A i \in 0..m : FilledAt(f, t, i) <=> i = f
           /\ Down(m, t) = f /\ f # t
  BY DEF FilledAt, Up, Down

\* The producer moves on to the block it has filled.
LEMMA TailBlockMoves ==
    ASSUME QueueInv, MoveTail
    PROVE  QueueInv'
  <1>1. /\ QueueTypes /\ IndexInv /\ SlotInv /\ RingInv /\ ProducerInv /\ ConsumerInv
        /\ InOrder /\ NewestInv
        /\ frontBlock \in DOMAIN blk /\ tailBlock \in DOMAIN blk /\ dest \in DOMAIN blk
        /\ frontBlock \in Live /\ tailBlock \in Live
        /\ Live \subseteq DOMAIN blk /\ Live \cap Ahead = {}
        /\ \A b \in Live \ {frontBlock} : ~Empty(b)
    BY InvParts
  <1>2. /\ producer = "moveTail" /\ producer' = "idle" /\ tailBlock' = dest
        /\ enqueued' = enqueued + 1 /\ enqueued \in Nat
        /\ UNCHANGED <<blk, frontBlock, largestBlockSize, dest, consumer, op, result>>
    BY <1>1 DEF MoveTail, consumerVars, QueueTypes
  <1>3. Ahead = {dest} /\ Ahead' = {} /\ Unlinked = {} /\ Unlinked' = {}
    BY <1>2 DEF Ahead, Unlinked
  <1>4. /\ dest = blk[tailBlock].next /\ ~Empty(dest)
        /\ dest # frontBlock /\ dest # tailBlock /\ dest \notin Live
    BY <1>1, <1>2, <1>3 DEF ProducerInv
  <1>5. \A b : Empty(b)' <=> Empty(b)
    BY <1>2 DEF Empty
  <1>6. Live' = Live \cup {dest}
    BY <1>1, <1>2, <1>3, <1>4, <1>5 DEF Live
  <1>7. QueueTypes' /\ IndexInv'
    BY <1>1, <1>2 DEF QueueTypes, IndexInv
  <1>8. \A b, i : Filled(b, i)' <=> Filled(b, i)
    BY <1>2 DEF Filled
  <1>9. SlotInv'
    <2>1. ASSUME NEW b \in DOMAIN blk
          PROVE  /\ blk[b].data \in [0..blk[b].sizeMask -> 0..(enqueued + 2)]
                 /\ \A i \in 0..blk[b].sizeMask : blk[b].data[i] <= enqueued + 1
      <3>1. blk[b].data \in [0..blk[b].sizeMask -> 0..(enqueued + 1)]
        BY <1>1 DEF SlotInv
      <3>2. 0..(enqueued + 1) \subseteq 0..(enqueued + 2)
        BY <1>2
      <3>3. \A i \in 0..blk[b].sizeMask : blk[b].data[i] \in 0..(enqueued + 1)
        BY <3>1
      <3> QED
        BY <1>2, <3>1, <3>2, <3>3
    <2>2. producer # "setTail" /\ producer' # "setTail" /\ enqueued' + 1 = enqueued + 2
      BY <1>2
    <2>3. ASSUME NEW b \in DOMAIN blk, NEW i \in 0..blk[b].sizeMask
          PROVE  blk[b].data[i] # Raw <=>
                   Filled(b, i)' /\ ~(consumer = "release" /\ b = frontBlock /\ i = blk[b].front)
      BY <1>1, <1>8, <2>2 DEF SlotInv
    <2> QED
      BY <1>2, <2>1, <2>2, <2>3 DEF SlotInv
  <1>10. RingInv'
    <2>1. /\ \A b, c \in DOMAIN blk : blk[b].next = blk[c].next => b = c
          /\ \A b \in Live \ {tailBlock} : blk[b].next \in Live \ {frontBlock}
          /\ \A b \in DOMAIN blk :
               b \notin Live \/ b = tailBlock => blk[b].next \notin Live \ {frontBlock}
      BY <1>1, <1>3 DEF RingInv
    <2>2. \A b \in Live' \ {dest} : blk[b].next \in Live' \ {frontBlock}
      BY <1>4, <1>6, <2>1
    <2>3. \A b \in DOMAIN blk :
            b \notin Live' \/ b = dest => blk[b].next \notin Live' \ {frontBlock}
      BY <1>1, <1>4, <1>6, <2>1
    <2> QED
      BY <1>2, <1>3, <1>4, <1>5, <2>1, <2>2, <2>3 DEF RingInv
  <1>11. ProducerInv'
    BY <1>2 DEF ProducerInv
  <1>12. ConsumerInv'
    BY <1>1, <1>2, <1>4, <1>5 DEF ConsumerInv
  <1>13. InOrder'
    <2>1. \A b, i : Val(b, i)' = Val(b, i)
      BY <1>2 DEF Val
    <2>2. \A b, i : After(b, i)' = After(b, i)
      BY <1>2 DEF After
    <2>3. \A b : LastSlot(b)' = LastSlot(b)
      BY <1>2 DEF LastSlot
    <2>4. /\ blk[dest].data[blk[dest].front] = enqueued + 1
          /\ After(dest, blk[dest].front) = blk[dest].tail
      BY <1>1, <1>2 DEF NewestInv
    <2>5. /\ \A i \in 0..blk[dest].sizeMask : Filled(dest, i) <=> i = blk[dest].front
          /\ LastSlot(dest) = blk[dest].front
      <3>1. /\ blk[dest].sizeMask \in Nat /\ blk[dest].sizeMask >= 1
            /\ blk[dest].front \in 0..blk[dest].sizeMask
            /\ blk[dest].tail \in 0..blk[dest].sizeMask
            /\ \A i \in 0..blk[dest].sizeMask : After(dest, i) = Up(blk[dest].sizeMask, i)
        BY <1>1, BlockFields
      <3>2. Up(blk[dest].sizeMask, blk[dest].front) = blk[dest].tail
        BY <2>4, <3>1
      <3> QED
        BY <3>1, <3>2, OneElement DEF Filled, LastSlot
    <2>6. Val(dest, blk[dest].front) = enqueued + 1
      BY <1>4, <2>4 DEF Val
    <2>7. ASSUME NEW b \in Live', NEW i \in 0..blk[b].sizeMask,
                 Filled(b, i), After(b, i) # blk[b].tail
          PROVE  Val(b, After(b, i)) = Val(b, i) + 1
      <3>1. b # dest
        BY <2>4, <2>5, <2>7
      <3> QED
        BY <1>1, <1>6, <2>7, <3>1 DEF InOrder
    <2>8. ASSUME NEW b \in Live' \ {dest}, ~Empty(b)
          PROVE  Val(blk[b].next, blk[blk[b].next].front) = Val(b, LastSlot(b)) + 1
      <3>1. CASE b = tailBlock
        BY <1>1, <1>4, <2>6, <2>8, <3>1 DEF InOrder
      <3>2. CASE b # tailBlock
        BY <1>1, <1>6, <2>8, <3>2 DEF InOrder
      <3> QED
        BY <3>1, <3>2
    <2> QED
      BY <1>2, <1>5, <1>8, <2>1, <2>2, <2>3, <2>5, <2>6, <2>7, <2>8 DEF InOrder
  <1>14. NewestInv'
    BY <1>2 DEF NewestInv
  <1> QED
    BY <1>7, <1>9, <1>10, <1>11, <1>12, <1>13, <1>14 DEF QueueInv

\* What does not touch the elements in the queue leaves them in order.
LEMMA OrderIsKept ==
    ASSUME QueueInv, Live' = Live, tailBlock' = tailBlock, enqueued' = enqueued,
           \A b \in Live :
               /\ blk'[b].sizeMask = blk[b].sizeMask
               /\ b # tailBlock => blk'[b].next = blk[b].next
               /\ blk'[b].front = blk[b].front /\ blk'[b].tail = blk[b].tail
               /\ \A i \in 0..blk[b].sizeMask : i # blk[b].tail => Val(b, i)' = Val(b, i)
    PROVE  InOrder'
  <1>1. /\ QueueTypes /\ IndexInv /\ RingInv /\ InOrder
        /\ frontBlock \in Live /\ tailBlock \in Live /\ Live \subseteq DOMAIN blk
        /\ \A b \in Live \ {frontBlock} : ~Empty(b)
    BY InvParts
  <1>2. \A b \in Live :
            /\ Empty(b)' <=> Empty(b)
            /\ LastSlot(b)' = LastSlot(b)
            /\ \A i \in Int : (Filled(b, i)' <=> Filled(b, i)) /\ After(b, i)' = After(b, i)
    BY DEF Empty, LastSlot, Filled, After
  <1>3. ASSUME NEW b \in Live
        PROVE  /\ LastSlot(b) \in 0..blk[b].sizeMask /\ LastSlot(b) # blk[b].tail
               /\ blk[b].front \in 0..blk[b].sizeMask
               /\ \A i \in 0..blk[b].sizeMask : After(b, i) \in 0..blk[b].sizeMask
               /\ \A i \in 0..blk[b].sizeMask : Filled(b, i) => i # blk[b].tail
    <2>1. b \in DOMAIN blk
      BY <1>1
    <2>2. PICK m, f, t \in Nat :
            /\ f \in 0..m /\ t \in 0..m
            /\ m = blk[b].sizeMask /\ m >= 1 /\ f = blk[b].front /\ t = blk[b].tail
      <3>1. /\ blk[b].sizeMask \in Nat /\ blk[b].front \in Nat /\ blk[b].tail \in Nat
            /\ blk[b].front \in 0..blk[b].sizeMask /\ blk[b].tail \in 0..blk[b].sizeMask
            /\ blk[b].sizeMask >= 1
        BY <1>1, <2>1, BlockFields
      <3> QED
        BY <3>1
    <2>3. \A i \in 0..m : After(b, i) = Up(m, i)
      BY <1>1, <2>1, <2>2, BlockFields
    <2>4. /\ Down(m, t) \in 0..m /\ Down(m, t) # t
          /\ \A i \in 0..m : Up(m, i) \in 0..m
          /\ \A i \in 0..m : FilledAt(f, t, i) => i # t
      BY <2>2 DEF Down, Up, FilledAt
    <2> QED
      BY <2>2, <2>3, <2>4 DEF LastSlot, Filled
  <1>4. ASSUME NEW b \in Live, NEW i \in 0..blk[b].sizeMask,
               Filled(b, i)', (After(b, i) # blk[b].tail)'
        PROVE  (Val(b, After(b, i)) = Val(b, i) + 1)'
    <2>1. i \in Int /\ Filled(b, i) /\ After(b, i)' = After(b, i) /\ After(b, i) # blk[b].tail
      <3>1. i \in Int
        BY <1>3
      <3> QED
        BY <1>2, <1>4, <3>1
    <2>2. Val(b, After(b, i)) = Val(b, i) + 1
      BY <1>1, <2>1 DEF InOrder
    <2>3. After(b, i) \in 0..blk[b].sizeMask /\ i # blk[b].tail
      BY <1>3, <2>1
    <2> QED
      BY <2>1, <2>2, <2>3
  <1>5. ASSUME NEW b \in Live \ {tailBlock}, ~Empty(b)'
        PROVE  (Val(blk[b].next, blk[blk[b].next].front) = Val(b, LastSlot(b)) + 1)'
    <2>1. PICK n \in Live \ {frontBlock} : n = blk[b].next
      BY <1>1 DEF RingInv
    <2>2. Val(n, blk[n].front) = Val(b, LastSlot(b)) + 1
      BY <1>1, <1>2, <1>5, <2>1 DEF InOrder
    <2>3. blk[n].front # blk[n].tail /\ blk[n].front \in 0..blk[n].sizeMask
      BY <1>1, <1>3, <2>1 DEF Empty
    <2>4. Val(n, blk[n].front)' = Val(n, blk[n].front) /\ Val(b, LastSlot(b))' = Val(b, LastSlot(b))
      BY <1>2, <1>3, <2>1, <2>3
    <2> QED
      BY <2>1, <2>2, <2>4
  <1>6. ~Empty(tailBlock)' => (Val(tailBlock, LastSlot(tailBlock)) = enqueued)'
    BY <1>1, <1>2, <1>3 DEF InOrder
  <1> QED
    BY <1>4, <1>5, <1>6 DEF InOrder

\* The producer links the block it has made behind the tail block.
LEMMA BlockIsLinked ==
    ASSUME QueueInv, Link
    PROVE  QueueInv'
  <1>1. /\ QueueTypes /\ IndexInv /\ SlotInv /\ RingInv /\ ProducerInv /\ ConsumerInv
        /\ InOrder /\ NewestInv /\ blk \in Seq(Blocks)
        /\ frontBlock \in DOMAIN blk /\ tailBlock \in DOMAIN blk /\ dest \in DOMAIN blk
        /\ \A b \in DOMAIN blk : blk[b].next \in DOMAIN blk
        /\ frontBlock \in Live /\ tailBlock \in Live
        /\ Live \subseteq DOMAIN blk /\ Live \cap Ahead = {}
    BY InvParts
  <1>2. /\ producer = "link" /\ producer' = "moveTail"
        /\ UNCHANGED <<frontBlock, tailBlock, largestBlockSize, enqueued, dest, consumer, op, result>>
    BY DEF Link, ProducerGoes, consumerVars
  <1>3. /\ blk' \in Seq(Blocks) /\ DOMAIN blk' = DOMAIN blk /\ Len(blk') = Len(blk)
        /\ \A c \in DOMAIN blk :
             /\ blk'[c].next = IF c = tailBlock THEN dest ELSE blk[c].next
             /\ blk'[c].sizeMask = blk[c].sizeMask /\ blk'[c].front = blk[c].front
             /\ blk'[c].tail = blk[c].tail /\ blk'[c].data = blk[c].data
             /\ blk'[c].localFront = blk[c].localFront /\ blk'[c].localTail = blk[c].localTail
    <2>1. dest \in Nat
      <3>1. DOMAIN blk = 1..Len(blk) /\ Len(blk) \in Nat
        BY <1>1, LenProperties
      <3> QED
        BY <1>1, <3>1
    <2>2. blk' = [blk EXCEPT ![tailBlock].next = dest]
      BY DEF Link
    <2>3. blk \in Seq(Blocks) /\ tailBlock \in DOMAIN blk
      BY <1>1
    <2> QED
      BY <2>1, <2>2, <2>3, SetsNext
  <1>4. Ahead = {dest} /\ Ahead' = {dest} /\ Unlinked = {dest} /\ Unlinked' = {}
    BY <1>2 DEF Ahead, Unlinked
  <1>5. /\ blk[dest].next = blk[tailBlock].next /\ ~Empty(dest)
        /\ dest # frontBlock /\ dest # tailBlock /\ dest \notin Live
    BY <1>1, <1>2, <1>4 DEF ProducerInv
  <1>6. \A b \in DOMAIN blk : Empty(b)' <=> Empty(b)
    BY <1>3 DEF Empty
  <1>7. Live' = Live
    BY <1>2, <1>3, <1>4, <1>6 DEF Live
  <1>8. QueueTypes' /\ IndexInv'
    BY <1>1, <1>2, <1>3 DEF QueueTypes, IndexInv
  <1>9. \A b \in DOMAIN blk, i \in Int :
            /\ Filled(b, i)' <=> Filled(b, i)
            /\ After(b, i)' = After(b, i)
            /\ Val(b, i)' = Val(b, i)
            /\ LastSlot(b)' = LastSlot(b)
    BY <1>2, <1>3 DEF Filled, After, Val, LastSlot
  <1>10. SlotInv'
    <2>1. producer # "setTail" /\ producer' # "setTail"
      BY <1>2
    <2> QED
      BY <1>1, <1>2, <1>3, <1>4, <1>9, <2>1 DEF SlotInv
  <1>11. RingInv'
    <2>1. /\ \A b, c \in DOMAIN blk \ {dest} : blk[b].next = blk[c].next => b = c
          /\ \A b \in DOMAIN blk \ {dest} : blk[b].next # dest
          /\ \A b \in Live \ {tailBlock} : blk[b].next \in Live \ {frontBlock}
          /\ \A b \in DOMAIN blk \ {dest} :
               b \notin Live \/ b = tailBlock => blk[b].next \notin Live \ {frontBlock}
          /\ tailBlock # frontBlock => ~Empty(tailBlock)
      BY <1>1, <1>4 DEF RingInv
    <2>2. ASSUME NEW b \in DOMAIN blk, NEW c \in DOMAIN blk, blk'[b].next = blk'[c].next
          PROVE  b = c
      <3>1. \A d \in DOMAIN blk : d # tailBlock =>
              /\ blk'[d].next # dest
              /\ blk'[d].next = blk[tailBlock].next => d = dest
        BY <1>1, <1>3, <1>5, <2>1
      <3>2. CASE b = tailBlock \/ c = tailBlock
        BY <1>1, <1>3, <2>2, <3>1, <3>2
      <3>3. CASE b # tailBlock /\ c # tailBlock /\ (b = dest \/ c = dest)
        BY <1>1, <1>3, <1>5, <2>2, <3>1, <3>3
      <3>4. CASE b \notin {tailBlock, dest} /\ c \notin {tailBlock, dest}
        BY <1>3, <2>1, <2>2, <3>4
      <3> QED
        BY <3>2, <3>3, <3>4
    <2>3. \A b \in Live \ {tailBlock} : blk'[b].next \in Live \ {frontBlock}
      BY <1>1, <1>3, <2>1
    <2>4. \A b \in DOMAIN blk :
            b \notin Live \/ b = tailBlock => blk'[b].next \notin Live \ {frontBlock}
      BY <1>1, <1>3, <1>5, <2>1
    <2> QED
      BY <1>1, <1>2, <1>3, <1>4, <1>5, <1>6, <1>7, <2>1, <2>2, <2>3, <2>4 DEF RingInv
  <1>12. ProducerInv'
    BY <1>1, <1>2, <1>3, <1>5, <1>6 DEF ProducerInv
  <1>13. ConsumerInv'
    BY <1>1, <1>2, <1>3, <1>6 DEF ConsumerInv
  <1>14. InOrder'
    <2>1. ASSUME NEW b \in Live
          PROVE  /\ blk'[b].sizeMask = blk[b].sizeMask
                 /\ b # tailBlock => blk'[b].next = blk[b].next
                 /\ blk'[b].front = blk[b].front /\ blk'[b].tail = blk[b].tail
                 /\ \A i \in 0..blk[b].sizeMask : Val(b, i)' = Val(b, i)
      <3>1. b \in DOMAIN blk
        BY <1>1
      <3> QED
        BY <1>3, <1>9, <3>1
    <2> QED
      BY <1>2, <1>7, <2>1, OrderIsKept
  <1>15. NewestInv'
    <2>1. blk[dest].front \in Int
      BY <1>1, Indices
    <2> QED
      BY <1>1, <1>2, <1>3, <1>9, <2>1 DEF NewestInv
  <1> QED
    BY <1>8, <1>10, <1>11, <1>12, <1>13, <1>14, <1>15 DEF QueueInv

\* A new block, with the element in its first slot.
LEMMA NewBlockFields ==
    ASSUME NEW capacity \in Nat, capacity >= 2, enqueued \in Nat, blk[tailBlock].next \in Nat
    PROVE  /\ NewBlock(capacity) \in Blocks
           /\ NewBlock(capacity).sizeMask = capacity - 1
           /\ NewBlock(capacity).front = 0 /\ NewBlock(capacity).localFront = 0
           /\ NewBlock(capacity).tail = 1 /\ NewBlock(capacity).localTail = 1
           /\ NewBlock(capacity).next = blk[tailBlock].next
           /\ NewBlock(capacity).data \in [0..(capacity - 1) -> {0, enqueued + 1}]
           /\ \A i \in 0..(capacity - 1) :
                NewBlock(capacity).data[i] = IF i = 0 THEN enqueued + 1 ELSE Raw
  <1> DEFINE d == [i \in 0..(capacity - 1) |-> IF i = 0 THEN enqueued + 1 ELSE 0]
  <1> DEFINE r == [sizeMask |-> capacity - 1, front |-> 0, tail |-> 1, localFront |-> 0,
                   localTail |-> 1, next |-> blk[tailBlock].next, data |-> d]
  <1>1. NewBlock(capacity) = r
    BY DEF NewBlock, Slots, Raw
  <1>2. capacity - 1 \in Nat
    OBVIOUS
  <1>3. d \in [0..(capacity - 1) -> {0, enqueued + 1}] /\ d \in [0..(capacity - 1) -> Nat]
    OBVIOUS
  <1>4. d \in Datas
    BY <1>2, <1>3 DEF Datas
  <1>5. \A i \in 0..(capacity - 1) : d[i] = IF i = 0 THEN enqueued + 1 ELSE Raw
    BY DEF Raw
  <1> HIDE DEF d
  <1>6. r \in Blocks
    BY <1>2, <1>4 DEF Blocks
  <1> QED
    BY <1>1, <1>3, <1>5, <1>6

\* The producer makes a block, when the one behind the tail block is the consumer's.
LEMMA BlockIsMade ==
    ASSUME QueueInv, Grow
    PROVE  QueueInv'
  <1>1. /\ QueueTypes /\ IndexInv /\ SlotInv /\ RingInv /\ ProducerInv /\ ConsumerInv
        /\ InOrder /\ NewestInv /\ blk \in Seq(Blocks)
        /\ frontBlock \in DOMAIN blk /\ tailBlock \in DOMAIN blk
        /\ \A b \in DOMAIN blk : blk[b].next \in DOMAIN blk
        /\ frontBlock \in Live /\ tailBlock \in Live
        /\ Live \subseteq DOMAIN blk
    BY InvParts
  <1>2. /\ producer = "full" /\ producer' = "link"
        /\ UNCHANGED <<frontBlock, tailBlock, enqueued, consumer, op, result>>
    BY DEF Grow, ProducerGoes, consumerVars
  <1>3. PICK capacity \in Nat : capacity >= 2 /\ capacity = largestBlockSize'
    <2>1. largestBlockSize \in Nat /\ largestBlockSize >= 2
      BY <1>1 DEF QueueTypes
    <2>2. largestBlockSize' = largestBlockSize \/ largestBlockSize' = largestBlockSize * 2
      BY DEF Grow
    <2> QED
      BY <2>1, <2>2
  <1>4. enqueued \in Nat /\ DOMAIN blk = 1..Len(blk) /\ Len(blk) \in Nat
    BY <1>1, LenProperties DEF QueueTypes
  <1>5. PICK m \in Nat, r \in Blocks :
           /\ m = capacity - 1 /\ m >= 1 /\ r = NewBlock(capacity)
           /\ r.sizeMask = m /\ r.front = 0 /\ r.localFront = 0 /\ r.tail = 1
           /\ r.localTail = 1 /\ r.next = blk[tailBlock].next
           /\ r.data \in [0..m -> {0, enqueued + 1}]
           /\ \A i \in 0..m : r.data[i] = IF i = 0 THEN enqueued + 1 ELSE Raw
    <2>1. blk[tailBlock].next \in Nat
      BY <1>1, <1>4
    <2>2. \A c \in Nat : c >= 2 => c - 1 \in Nat /\ c - 1 >= 1
      OBVIOUS
    <2>3. capacity >= 2 /\ capacity - 1 \in Nat /\ capacity - 1 >= 1
      BY <1>3, <2>2
    <2> QED
      BY <1>4, <2>1, <2>3, NewBlockFields
  <1>6. PICK d \in Nat : d = Len(blk) + 1 /\ d \notin DOMAIN blk
    BY <1>4
  <1>7. /\ blk' \in Seq(Blocks) /\ DOMAIN blk' = DOMAIN blk \cup {d}
        /\ blk'[d] = r /\ \A c \in DOMAIN blk : blk'[c] = blk[c]
        /\ dest' = d
    <2>1. blk' = Append(blk, r) /\ dest' = Len(blk')
      BY <1>3, <1>5 DEF Grow
    <2>2. /\ blk' \in Seq(Blocks) /\ Len(blk') = Len(blk) + 1
          /\ \A i \in 1..Len(blk) : blk'[i] = blk[i]
          /\ blk'[Len(blk) + 1] = r
      BY <1>1, <1>5, <2>1, AppendProperties
    <2>3. DOMAIN blk' = 1..(Len(blk) + 1)
      BY <2>2, LenProperties
    <2> QED
      BY <1>4, <1>6, <2>1, <2>2, <2>3
  <1>8. Ahead = {} /\ Ahead' = {d} /\ Unlinked = {} /\ Unlinked' = {d}
    BY <1>2, <1>7 DEF Ahead, Unlinked
  <1>9. \A b \in DOMAIN blk : Empty(b)' <=> Empty(b)
    BY <1>7 DEF Empty
  <1>10. Live' = Live /\ d \notin Live
    BY <1>1, <1>2, <1>6, <1>7, <1>8, <1>9 DEF Live
  <1>11. \A b \in DOMAIN blk, i \in Int :
            /\ Filled(b, i)' <=> Filled(b, i)
            /\ After(b, i)' = After(b, i)
            /\ Val(b, i)' = Val(b, i)
            /\ LastSlot(b)' = LastSlot(b)
    BY <1>2, <1>7 DEF Filled, After, Val, LastSlot
  <1>12. QueueTypes'
    BY <1>1, <1>2, <1>3, <1>7 DEF QueueTypes
  <1>13. IndexInv'
    <2>1. Between(0, 0, 1) /\ Between(0, 1, 1)
      BY DEF Between
    <2>2. ASSUME NEW b \in DOMAIN blk
          PROVE  /\ blk'[b].sizeMask >= 1
                 /\ blk'[b].front <= blk'[b].sizeMask /\ blk'[b].tail <= blk'[b].sizeMask
                 /\ blk'[b].localFront <= blk'[b].sizeMask
                 /\ blk'[b].localTail <= blk'[b].sizeMask
                 /\ blk'[b].next \in DOMAIN blk
                 /\ Between(blk'[b].localFront, blk'[b].front, blk'[b].tail)
                 /\ Between(blk'[b].front, blk'[b].localTail, blk'[b].tail)
      BY <1>1, <1>7 DEF IndexInv
    <2>3. /\ r.sizeMask >= 1 /\ r.front <= r.sizeMask /\ r.tail <= r.sizeMask
          /\ r.localFront <= r.sizeMask /\ r.localTail <= r.sizeMask
          /\ r.next \in DOMAIN blk
          /\ Between(r.localFront, r.front, r.tail) /\ Between(r.front, r.localTail, r.tail)
      <3>1. m >= 1 /\ 0 <= m /\ 1 <= m
        BY <1>5
      <3> QED
        BY <1>1, <1>5, <2>1, <3>1
    <2>4. \A b \in DOMAIN blk' : b \in DOMAIN blk \/ blk'[b] = r
      BY <1>7
    <2>5. DOMAIN blk \subseteq DOMAIN blk'
      BY <1>7
    <2> QED
      BY <2>2, <2>3, <2>4, <2>5 DEF IndexInv
  <1>14. SlotInv'
    <2>1. producer # "setTail" /\ producer' # "setTail"
      BY <1>2
    <2>2. ASSUME NEW b \in DOMAIN blk
          PROVE  /\ blk[b].data \in [0..blk[b].sizeMask -> 0..(enqueued + 1)]
                 /\ \A i \in 0..blk[b].sizeMask :
                      /\ blk[b].data[i] # Raw <=>
                           Filled(b, i)' /\ ~(consumer = "release" /\ b = frontBlock /\ i = blk[b].front)
                      /\ Filled(b, i)' => blk[b].data[i] <= enqueued
      <3>1. /\ blk[b].data \in [0..blk[b].sizeMask -> 0..(enqueued + 1)]
            /\ \A i \in 0..blk[b].sizeMask :
                 /\ blk[b].data[i] # Raw <=>
                      Filled(b, i) /\ ~(consumer = "release" /\ b = frontBlock /\ i = blk[b].front)
                 /\ Filled(b, i) => blk[b].data[i] <= enqueued
        BY <1>1, <1>8, <2>1 DEF SlotInv
      <3>2. \A i \in 0..blk[b].sizeMask : Filled(b, i)' <=> Filled(b, i)
        BY <1>11
      <3> QED
        BY <3>1, <3>2
    <2>3. /\ r.data \in [0..m -> 0..(enqueued + 1)]
          /\ \A i \in 0..m : r.data[i] # Raw <=> Filled(d, i)'
      <3>1. \A i \in 0..m : Filled(d, i)' <=> i = 0
        BY <1>5, <1>6, <1>7 DEF Filled, FilledAt
      <3>2. {0, enqueued + 1} \subseteq 0..(enqueued + 1) /\ enqueued + 1 # 0
        BY <1>4
      <3> QED
        BY <1>5, <3>1, <3>2 DEF Raw
    <2>4. d # frontBlock
      BY <1>1, <1>6
    <2> QED
      BY <1>2, <1>5, <1>7, <1>8, <2>1, <2>2, <2>3, <2>4 DEF SlotInv
  <1>15. RingInv'
    <2>1. DOMAIN blk' \ Unlinked' = DOMAIN blk /\ DOMAIN blk \ Unlinked = DOMAIN blk
      BY <1>6, <1>7, <1>8
    <2>2. \A b \in DOMAIN blk : blk[b].next # d
      BY <1>1, <1>6
    <2>3. /\ \A b, c \in DOMAIN blk : blk[b].next = blk[c].next => b = c
          /\ \A b \in Live \ {tailBlock} : blk[b].next \in Live \ {frontBlock}
          /\ \A b \in DOMAIN blk :
               b \notin Live \/ b = tailBlock => blk[b].next \notin Live \ {frontBlock}
          /\ tailBlock # frontBlock => ~Empty(tailBlock)
      BY <1>1, <2>1 DEF RingInv
    <2>4. /\ frontBlock' \notin Ahead' /\ tailBlock' \notin Ahead'
          /\ tailBlock' # frontBlock' => ~Empty(tailBlock)'
      BY <1>1, <1>2, <1>6, <1>8, <1>9, <2>3
    <2>5. \A b \in DOMAIN blk : blk'[b].next = blk[b].next
      BY <1>7
    <2>6. /\ \A b \in Live' \ {tailBlock'} : blk'[b].next \in Live' \ {frontBlock'}
          /\ \A b \in DOMAIN blk :
               b \notin Live' \/ b = tailBlock' => blk'[b].next \notin Live' \ {frontBlock'}
      BY <1>1, <1>2, <1>10, <2>3, <2>5
    <2>7. /\ \A b, c \in DOMAIN blk : blk'[b].next = blk'[c].next => b = c
          /\ \A b \in DOMAIN blk : blk'[b].next \notin Unlinked'
      BY <1>8, <2>2, <2>3, <2>5
    <2> QED
      BY <2>1, <2>4, <2>6, <2>7 DEF RingInv
  <1>16. ProducerInv'
    <2>1. ~Empty(d)'
      BY <1>5, <1>7 DEF Empty
    <2> QED
      BY <1>1, <1>2, <1>5, <1>7, <2>1 DEF ProducerInv
  <1>17. ConsumerInv'
    BY <1>1, <1>2, <1>7, <1>9 DEF ConsumerInv
  <1>18. InOrder'
    <2>1. ASSUME NEW b \in Live
          PROVE  /\ blk'[b] = blk[b]
                 /\ \A i \in 0..blk[b].sizeMask : Val(b, i)' = Val(b, i)
      <3>1. b \in DOMAIN blk
        BY <1>1
      <3> QED
        BY <1>7, <1>11, <3>1
    <2> QED
      BY <1>2, <1>10, <2>1, OrderIsKept
  <1>19. NewestInv'
    <2>1. After(d, 0)' = 1
      <3>1. (0 + 1) % (m + 1) = Up(m, 0) /\ Up(m, 0) = 1
        BY <1>5, MaskedIncrement DEF Up
      <3> QED
        BY <1>5, <1>7, <3>1 DEF After
    <2> QED
      BY <1>2, <1>5, <1>6, <1>7, <2>1 DEF NewestInv
  <1> QED
    BY <1>12, <1>13, <1>14, <1>15, <1>16, <1>17, <1>18, <1>19 DEF QueueInv

-----------------------------------------------------------------------------
(* The steps that fill and free a slot *)

\* What leaves the links and the live blocks alone leaves the ring as it is.
LEMMA RingIsKept ==
    ASSUME QueueInv, Live' = Live, Unlinked' = Unlinked, DOMAIN blk' = DOMAIN blk,
           frontBlock' = frontBlock, tailBlock' = tailBlock,
           \A b \in DOMAIN blk : blk'[b].next = blk[b].next,
           frontBlock \notin Ahead', tailBlock \notin Ahead',
           tailBlock # frontBlock => ~Empty(tailBlock)'
    PROVE  RingInv'
  <1>1. RingInv /\ Live \subseteq DOMAIN blk
    BY InvParts
  <1>2. /\ \A b, c \in DOMAIN blk \ Unlinked : blk'[b].next = blk'[c].next => b = c
        /\ \A b \in DOMAIN blk \ Unlinked : blk'[b].next \notin Unlinked
        /\ \A b \in Live \ {tailBlock} : blk'[b].next \in Live \ {frontBlock}
        /\ \A b \in DOMAIN blk \ Unlinked :
             b \notin Live \/ b = tailBlock => blk'[b].next \notin Live \ {frontBlock}
    BY <1>1 DEF RingInv
  <1>3. tailBlock' # frontBlock' => ~Empty(tailBlock)'
    OBVIOUS
  <1> QED
    BY <1>2, <1>3 DEF RingInv

\* The element is constructed in a slot that is not filled yet.
LEMMA ElementIsConstructed ==
    ASSUME QueueInv, Construct
    PROVE  QueueInv'
  <1>1. /\ QueueTypes /\ IndexInv /\ SlotInv /\ RingInv /\ ProducerInv /\ ConsumerInv
        /\ InOrder /\ NewestInv /\ blk \in Seq(Blocks)
        /\ frontBlock \in DOMAIN blk /\ tailBlock \in DOMAIN blk /\ dest \in DOMAIN blk
        /\ \A b \in DOMAIN blk : blk[b].next \in DOMAIN blk
        /\ Live \subseteq DOMAIN blk
    BY InvParts
  <1>2. /\ producer = "construct" /\ producer' = "setTail"
        /\ UNCHANGED <<frontBlock, tailBlock, largestBlockSize, enqueued, dest, consumer, op, result>>
    BY DEF Construct, ProducerGoes, consumerVars
  <1>3. PICK m, t \in Nat :
          /\ t \in 0..m
          /\ m = blk[dest].sizeMask /\ t = blk[dest].tail
          /\ blk[dest].data \in [0..m -> 0..(enqueued + 1)]
          /\ enqueued \in Nat
    <2>1. /\ blk[dest].sizeMask \in Nat /\ blk[dest].tail \in Nat
          /\ blk[dest].tail \in 0..blk[dest].sizeMask
      BY <1>1, BlockFields
    <2>2. blk[dest].data \in [0..blk[dest].sizeMask -> 0..(enqueued + 1)] /\ enqueued \in Nat
      BY <1>1 DEF SlotInv, QueueTypes
    <2> QED
      BY <2>1, <2>2
  <1>4. PICK v \in Datas : v = [blk[dest].data EXCEPT ![t] = enqueued + 1]
    <2>1. [blk[dest].data EXCEPT ![t] = enqueued + 1] \in [0..m -> Nat]
      BY <1>3
    <2> QED
      BY <1>3, <2>1 DEF Datas
  <1>4a. /\ v \in [0..m -> 0..(enqueued + 1)]
         /\ \A i \in 0..m : v[i] = IF i = t THEN enqueued + 1 ELSE blk[dest].data[i]
    BY <1>3, <1>4
  <1>5. /\ blk' \in Seq(Blocks) /\ DOMAIN blk' = DOMAIN blk /\ Len(blk') = Len(blk)
        /\ \A c \in DOMAIN blk :
             /\ blk'[c].data = IF c = dest THEN v ELSE blk[c].data
             /\ blk'[c].sizeMask = blk[c].sizeMask /\ blk'[c].next = blk[c].next
             /\ blk'[c].front = blk[c].front /\ blk'[c].tail = blk[c].tail
             /\ blk'[c].localFront = blk[c].localFront /\ blk'[c].localTail = blk[c].localTail
    <2>1. blk' = [blk EXCEPT ![dest].data = v]
      BY <1>3, <1>4 DEF Construct
    <2>2. blk \in Seq(Blocks) /\ dest \in DOMAIN blk /\ v \in Datas
      BY <1>1, <1>4
    <2> QED
      BY <2>1, <2>2, SetsData
  <1>6. Ahead = {} /\ Ahead' = {} /\ Unlinked = {} /\ Unlinked' = {}
    BY <1>2 DEF Ahead, Unlinked
  <1>7. \A b \in DOMAIN blk : /\ Empty(b)' <=> Empty(b)
                              /\ \A i \in Int : Filled(b, i)' <=> Filled(b, i)
                              /\ \A i \in Int : After(b, i)' = After(b, i)
    BY <1>5 DEF Empty, Filled, After
  <1>8. Live' = Live
    BY <1>2, <1>5, <1>6, <1>7 DEF Live
  <1>9. QueueTypes'
    BY <1>1, <1>2, <1>5 DEF QueueTypes
  <1>10. IndexInv'
    BY <1>1, <1>5 DEF IndexInv
  <1>11. ~Filled(dest, t)
    <2>1. blk[dest].front \in 0..m
      BY <1>1, <1>3, BlockFields
    <2>2. ~FilledAt(blk[dest].front, t, t)
      BY <1>3, <2>1 DEF FilledAt
    <2> QED
      BY <1>3, <2>2 DEF Filled
  <1>12. SlotInv'
    <2>1. ASSUME NEW b \in DOMAIN blk
          PROVE  /\ blk'[b].data \in [0..blk[b].sizeMask -> 0..(enqueued + 1)]
                 /\ \A i \in 0..blk[b].sizeMask :
                      /\ blk'[b].data[i] # Raw <=>
                           \/ /\ Filled(b, i)
                              /\ ~(consumer = "release" /\ b = frontBlock /\ i = blk[b].front)
                           \/ b = dest /\ i = blk[b].tail
                      /\ Filled(b, i) => blk'[b].data[i] <= enqueued
      <3>1. /\ blk[b].data \in [0..blk[b].sizeMask -> 0..(enqueued + 1)]
            /\ \A i \in 0..blk[b].sizeMask :
                 /\ blk[b].data[i] # Raw <=>
                      Filled(b, i) /\ ~(consumer = "release" /\ b = frontBlock /\ i = blk[b].front)
                 /\ Filled(b, i) => blk[b].data[i] <= enqueued
        BY <1>1, <1>2, <1>6 DEF SlotInv
      <3>2. CASE b = dest
        <4>1. enqueued + 1 # Raw
          BY <1>3 DEF Raw
        <4> QED
          BY <1>3, <1>5, <1>11, <1>4a, <3>1, <3>2, <4>1
      <3>3. CASE b # dest
        BY <1>5, <3>1, <3>3
      <3> QED
        BY <3>2, <3>3
    <2>2. \A b \in DOMAIN blk : \A i \in 0..blk[b].sizeMask : Filled(b, i)' <=> Filled(b, i)
      BY <1>7
    <2>3. \A b \in DOMAIN blk :
            blk'[b].sizeMask = blk[b].sizeMask /\ blk'[b].front = blk[b].front
            /\ blk'[b].tail = blk[b].tail
      BY <1>5
    <2> QED
      BY <1>2, <1>5, <2>1, <2>2, <2>3 DEF SlotInv
  <1>13. RingInv'
    <2>1. tailBlock # frontBlock => ~Empty(tailBlock)'
      BY <1>1, <1>2, <1>7 DEF RingInv
    <2>2. \A b \in DOMAIN blk : blk'[b].next = blk[b].next
      BY <1>5
    <2> QED
      BY <1>2, <1>5, <1>6, <1>8, <2>1, <2>2, RingIsKept
  <1>14. ProducerInv'
    <2>1. After(dest, blk[dest].tail)' = After(dest, blk[dest].tail)
      BY <1>1, <1>2, <1>5 DEF After
    <2> QED
      BY <1>1, <1>2, <1>5, <1>8, <2>1 DEF ProducerInv
  <1>15. ConsumerInv'
    BY <1>1, <1>2, <1>5, <1>7 DEF ConsumerInv
  <1>16. InOrder'
    <2>1. ASSUME NEW b \in Live
          PROVE  /\ blk'[b].sizeMask = blk[b].sizeMask /\ blk'[b].next = blk[b].next
                 /\ blk'[b].front = blk[b].front /\ blk'[b].tail = blk[b].tail
                 /\ \A i \in 0..blk[b].sizeMask : i # blk[b].tail => Val(b, i)' = Val(b, i)
      BY <1>1, <1>2, <1>3, <1>5, <1>4a, SMTT(60) DEF Val
    <2> QED
      BY <1>2, <1>8, <2>1, OrderIsKept
  <1>17. NewestInv'
    BY <1>1, <1>2, <1>3, <1>5, <1>4a DEF NewestInv
  <1> QED
    BY <1>9, <1>10, <1>12, <1>13, <1>14, <1>15, <1>16, <1>17 DEF QueueInv

\* The first element of a block the consumer is in, or about to be in, is one
\* that has been enqueued.
LEMMA FrontHoldsElement ==
    ASSUME QueueInv, consumer # "release", NEW b \in Live, ~Empty(b)
    PROVE  /\ blk[b].front \in 0..blk[b].sizeMask
           /\ blk[b].data[blk[b].front] # Raw
           /\ blk[b].data[blk[b].front] \in 0..enqueued
  <1>1. QueueTypes /\ IndexInv /\ SlotInv /\ b \in DOMAIN blk /\ b \notin Ahead
    BY InvParts
  <1>2. PICK m, f, t \in Nat :
          /\ f \in 0..m /\ t \in 0..m
          /\ m = blk[b].sizeMask /\ f = blk[b].front /\ t = blk[b].tail
    BY <1>1, BlockFields
  <1>3. Filled(b, f)
    BY <1>2 DEF Filled, FilledAt, Empty
  <1>4. /\ blk[b].data \in [0..m -> 0..(enqueued + 1)]
        /\ blk[b].data[f] # Raw /\ blk[b].data[f] <= enqueued
    BY <1>1, <1>2, <1>3 DEF SlotInv
  <1>5. blk[b].data[f] \in 0..(enqueued + 1) /\ enqueued \in Nat
    BY <1>1, <1>2, <1>4 DEF QueueTypes
  <1> QED
    BY <1>2, <1>4, <1>5

\* Where the consumer takes its element from there is one.
LEMMA SourceHoldsElement ==
    ASSUME QueueInv, consumer \in {"take", "takeNext"}
    PROVE  Source \in Live /\ ~Empty(Source)
  <1>1. /\ QueueTypes /\ IndexInv /\ RingInv /\ ConsumerInv
        /\ frontBlock \in DOMAIN blk /\ frontBlock \in Live
        /\ \A b \in Live \ {frontBlock} : ~Empty(b)
    BY InvParts
  <1>2. CASE consumer = "take"
    <2>1. blk[frontBlock].front # blk[frontBlock].localTail
      BY <1>1, <1>2 DEF ConsumerInv
    <2>2. PICK m, f, t, lt \in Nat :
            /\ f \in 0..m /\ t \in 0..m /\ lt \in 0..m
            /\ f = blk[frontBlock].front /\ t = blk[frontBlock].tail
            /\ lt = blk[frontBlock].localTail /\ Between(f, lt, t)
      <3>1. /\ blk[frontBlock].front \in 0..blk[frontBlock].sizeMask
            /\ blk[frontBlock].tail \in 0..blk[frontBlock].sizeMask
            /\ blk[frontBlock].localTail \in 0..blk[frontBlock].sizeMask
            /\ blk[frontBlock].sizeMask \in Nat
        BY <1>1, BlockFields
      <3>2. Between(blk[frontBlock].front, blk[frontBlock].localTail, blk[frontBlock].tail)
        BY <1>1 DEF IndexInv
      <3> QED
        BY <3>1, <3>2
    <2>3. f # lt => f # t
      BY <2>2 DEF Between
    <2> QED
      BY <1>1, <1>2, <2>1, <2>2, <2>3 DEF Source, Empty
  <1>3. CASE consumer = "takeNext"
    BY <1>1, <1>3 DEF Source, ConsumerInv, RingInv
  <1> QED
    BY <1>2, <1>3

\* The consumer moves the element out; peek() copies it.
LEMMA ElementIsTaken ==
    ASSUME QueueInv, Take
    PROVE  QueueInv'
  <1>1. /\ QueueTypes /\ IndexInv /\ SlotInv /\ RingInv /\ ProducerInv /\ ConsumerInv
        /\ InOrder /\ NewestInv /\ blk \in Seq(Blocks)
        /\ frontBlock \in DOMAIN blk /\ tailBlock \in DOMAIN blk /\ dest \in DOMAIN blk
        /\ \A b \in DOMAIN blk : blk[b].next \in DOMAIN blk
        /\ Live \subseteq DOMAIN blk /\ frontBlock \in Live /\ Live \cap Ahead = {}
    BY InvParts
  <1>2. /\ consumer \in {"take", "takeNext"} /\ result' = blk[Source].data[blk[Source].front]
        /\ UNCHANGED <<frontBlock, tailBlock, largestBlockSize, enqueued, dest, producer, op>>
    BY DEF Take, producerVars
  <1>3. Source \in Live /\ ~Empty(Source)
    BY <1>2, SourceHoldsElement
  <1>4. result' \in 0..enqueued
    BY <1>2, <1>3, FrontHoldsElement
  <1>5. CASE op = "peek"
    <2>1. consumer' = "idle" /\ blk' = blk
      BY <1>5 DEF Take
    <2>2. Shared(blk')
      BY <2>1 DEF Shared
    <2>3. SlotInv' /\ RingInv' /\ InOrder' /\ NewestInv' /\ Live' = Live
      BY <1>2, <2>1, <2>2, CopiesDoNotCount
    <2>4. QueueTypes' /\ IndexInv'
      BY <1>1, <1>2, <1>4, <2>1 DEF QueueTypes, IndexInv
    <2>5. ProducerInv'
      BY <1>1, <1>2, <2>1, <2>3 DEF ProducerInv, After, Empty
    <2>6. ConsumerInv'
      BY <2>1 DEF ConsumerInv
    <2> QED
      BY <2>3, <2>4, <2>5, <2>6 DEF QueueInv
  <1>6. CASE op # "peek"
    <2>1. /\ consumer = "take" /\ consumer' = "release" /\ Source = frontBlock
          /\ blk' = [blk EXCEPT ![frontBlock].data[blk[frontBlock].front] = Raw]
      <3>1. consumer = "take"
        BY <1>1, <1>2, <1>6 DEF ConsumerInv
      <3>2. Source = frontBlock
        BY <3>1 DEF Source
      <3> QED
        BY <1>6, <3>1, <3>2 DEF Take
    <2>2. PICK m, f \in Nat :
            /\ f \in 0..m
            /\ m = blk[frontBlock].sizeMask /\ f = blk[frontBlock].front
            /\ blk[frontBlock].data \in [0..m -> 0..(enqueued + 1)]
            /\ enqueued \in Nat
      <3>1. /\ blk[frontBlock].sizeMask \in Nat /\ blk[frontBlock].front \in Nat
            /\ blk[frontBlock].front \in 0..blk[frontBlock].sizeMask
        BY <1>1, BlockFields
      <3>2. /\ blk[frontBlock].data \in [0..blk[frontBlock].sizeMask -> 0..(enqueued + 1)]
            /\ enqueued \in Nat
        BY <1>1 DEF SlotInv, QueueTypes
      <3> QED
        BY <3>1, <3>2
    <2>3. PICK v \in Datas : v = [blk[frontBlock].data EXCEPT ![f] = Raw]
      <3>1. [blk[frontBlock].data EXCEPT ![f] = Raw] \in [0..m -> Nat]
        BY <2>2 DEF Raw
      <3> QED
        BY <2>2, <3>1 DEF Datas
    <2>4. /\ v \in [0..m -> 0..(enqueued + 1)]
          /\ \A i \in 0..m : v[i] = IF i = f THEN Raw ELSE blk[frontBlock].data[i]
      BY <2>2, <2>3 DEF Raw
    <2>5. /\ blk' \in Seq(Blocks) /\ DOMAIN blk' = DOMAIN blk /\ Len(blk') = Len(blk)
          /\ \A c \in DOMAIN blk :
               /\ blk'[c].data = IF c = frontBlock THEN v ELSE blk[c].data
               /\ blk'[c].sizeMask = blk[c].sizeMask /\ blk'[c].next = blk[c].next
               /\ blk'[c].front = blk[c].front /\ blk'[c].tail = blk[c].tail
               /\ blk'[c].localFront = blk[c].localFront /\ blk'[c].localTail = blk[c].localTail
      <3>1. blk' = [blk EXCEPT ![frontBlock].data = v]
        BY <2>1, <2>2, <2>3
      <3>2. blk \in Seq(Blocks) /\ frontBlock \in DOMAIN blk /\ v \in Datas
        BY <1>1
      <3> QED
        BY <3>1, <3>2, SetsData
    <2>6. Ahead' = Ahead /\ Unlinked' = Unlinked
      BY <1>2 DEF Ahead, Unlinked
    <2>7. \A b \in DOMAIN blk : /\ Empty(b)' <=> Empty(b)
                                /\ \A i \in Int : Filled(b, i)' <=> Filled(b, i)
                                /\ \A i \in Int : After(b, i)' = After(b, i)
      BY <2>5 DEF Empty, Filled, After
    <2>8. Live' = Live
      BY <1>2, <2>5, <2>6, <2>7 DEF Live
    <2>9. QueueTypes'
      BY <1>1, <1>2, <1>4, <2>1, <2>5 DEF QueueTypes
    <2>10. IndexInv'
      BY <1>1, <2>5 DEF IndexInv
    <2>11. f # blk[frontBlock].tail
      BY <1>3, <2>1, <2>2 DEF Empty
    <2>12. SlotInv'
      <3>1. ASSUME NEW b \in DOMAIN blk
            PROVE  /\ blk'[b].data \in [0..blk[b].sizeMask -> 0..(enqueued + 1)]
                   /\ \A i \in 0..blk[b].sizeMask :
                        /\ blk'[b].data[i] # Raw <=>
                             \/ Filled(b, i) /\ ~(b = frontBlock /\ i = blk[b].front)
                             \/ producer = "setTail" /\ b = dest /\ i = blk[b].tail
                        /\ b \notin Ahead /\ Filled(b, i) => blk'[b].data[i] <= enqueued
        <4>1. /\ blk[b].data \in [0..blk[b].sizeMask -> 0..(enqueued + 1)]
              /\ \A i \in 0..blk[b].sizeMask :
                   /\ blk[b].data[i] # Raw <=>
                        Filled(b, i) \/ (producer = "setTail" /\ b = dest /\ i = blk[b].tail)
                   /\ b \notin Ahead /\ Filled(b, i) => blk[b].data[i] <= enqueued
          BY <1>1, <2>1 DEF SlotInv
        <4>2. CASE b = frontBlock
          <5>1. Raw <= enqueued
            BY <2>2 DEF Raw
          <5> QED
            BY <2>2, <2>4, <2>5, <2>11, <4>1, <4>2, <5>1, SMTT(60)
        <4>3. CASE b # frontBlock
          BY <2>5, <4>1, <4>3
        <4> QED
          BY <4>2, <4>3
      <3>2. \A b \in DOMAIN blk : \A i \in 0..blk[b].sizeMask : Filled(b, i)' <=> Filled(b, i)
        BY <2>7
      <3>3. \A b \in DOMAIN blk :
              blk'[b].sizeMask = blk[b].sizeMask /\ blk'[b].front = blk[b].front
              /\ blk'[b].tail = blk[b].tail
        BY <2>5
      <3> QED
        BY <1>2, <2>1, <2>5, <2>6, <3>1, <3>2, <3>3 DEF SlotInv
    <2>13. RingInv'
      <3>1. tailBlock # frontBlock => ~Empty(tailBlock)'
        BY <1>1, <1>2, <2>7 DEF RingInv
      <3>2. frontBlock \notin Ahead' /\ tailBlock \notin Ahead'
        BY <1>1, <2>6 DEF RingInv
      <3>3. \A b \in DOMAIN blk : blk'[b].next = blk[b].next
        BY <2>5
      <3> QED
        BY <1>2, <2>5, <2>6, <2>8, <3>1, <3>2, <3>3, RingIsKept
    <2>14. ProducerInv'
      <3>1. After(dest, blk[dest].tail)' = After(dest, blk[dest].tail)
        BY <1>1, <1>2, <2>5 DEF After
      <3> QED
        BY <1>1, <1>2, <2>5, <2>7, <2>8, <3>1 DEF ProducerInv
    <2>15. ConsumerInv'
      BY <1>1, <1>2, <1>6, <2>1, <2>5 DEF ConsumerInv
    <2>16. InOrder'
      <3>1. ASSUME NEW b \in Live
            PROVE  /\ blk'[b].sizeMask = blk[b].sizeMask /\ blk'[b].next = blk[b].next
                   /\ blk'[b].front = blk[b].front /\ blk'[b].tail = blk[b].tail
                   /\ \A i \in 0..blk[b].sizeMask : i # blk[b].tail => Val(b, i)' = Val(b, i)
        <4>1. b \in DOMAIN blk
          BY <1>1
        <4>2. ASSUME NEW i \in 0..blk[b].sizeMask
              PROVE  Val(b, i)' = Val(b, i)
          BY <1>2, <2>1, <2>2, <2>4, <2>5, <4>1 DEF Val
        <4> QED
          BY <2>5, <4>1, <4>2
      <3> QED
        BY <1>2, <2>8, <3>1, OrderIsKept
    <2>17. NewestInv'
      <3>1. producer \in {"link", "moveTail"} => dest # frontBlock
        BY <1>1 DEF Ahead
      <3>2. producer = "setTail" =>
              blk[dest].tail \in 0..blk[dest].sizeMask /\ blk'[dest].data[blk[dest].tail] = blk[dest].data[blk[dest].tail]
        <4>1. blk[dest].tail \in 0..blk[dest].sizeMask
          BY <1>1, BlockFields
        <4> QED
          BY <1>1, <2>2, <2>4, <2>5, <2>11, <4>1, ZenonT(60)
      <3>3. blk[dest].front \in Int
        BY <1>1, Indices
      <3> QED
        BY <1>1, <1>2, <2>5, <2>7, <3>1, <3>2, <3>3 DEF NewestInv
    <2> QED
      BY <2>9, <2>10, <2>12, <2>13, <2>14, <2>15, <2>16, <2>17 DEF QueueInv
  <1> QED
    BY <1>5, <1>6

\* A slot that is freed is not the one after a filled one, and is the last one
\* only if the block is then empty.
LEMMA FreedSlot ==
    ASSUME NEW m \in Nat, NEW f \in 0..m, NEW t \in 0..m, f # t
    PROVE  /\ \A i \in 0..m : FilledAt(f, t, i) => Up(m, i) # f
           /\ Up(m, f) # t => Down(m, t) # f
  BY DEF FilledAt, Up, Down

\* The consumer hands the slot back to the producer.
LEMMA SlotIsReleased ==
    ASSUME QueueInv, Release
    PROVE  QueueInv'
  <1>1. /\ QueueTypes /\ IndexInv /\ SlotInv /\ RingInv /\ ProducerInv /\ ConsumerInv
        /\ InOrder /\ NewestInv /\ blk \in Seq(Blocks)
        /\ frontBlock \in DOMAIN blk /\ tailBlock \in DOMAIN blk /\ dest \in DOMAIN blk
        /\ \A b \in DOMAIN blk : blk[b].next \in DOMAIN blk
        /\ Live \subseteq DOMAIN blk /\ frontBlock \in Live /\ tailBlock \in Live
        /\ Live \cap Ahead = {}
    BY InvParts
  <1>2. /\ consumer = "release" /\ consumer' = "idle"
        /\ UNCHANGED <<frontBlock, tailBlock, largestBlockSize, enqueued, dest, producer, op, result>>
    BY DEF Release, producerVars
  <1>3. PICK m, f, t, lf, lt \in Nat :
          /\ f \in 0..m /\ t \in 0..m /\ lf \in 0..m /\ lt \in 0..m
          /\ m = blk[frontBlock].sizeMask /\ f = blk[frontBlock].front
          /\ t = blk[frontBlock].tail /\ lf = blk[frontBlock].localFront
          /\ lt = blk[frontBlock].localTail
          /\ f # lt /\ Between(lf, f, t) /\ Between(f, lt, t)
          /\ \A i \in 0..m : After(frontBlock, i) = Up(m, i)
    <2>1. /\ blk[frontBlock].sizeMask \in Nat
          /\ blk[frontBlock].front \in 0..blk[frontBlock].sizeMask
          /\ blk[frontBlock].tail \in 0..blk[frontBlock].sizeMask
          /\ blk[frontBlock].localFront \in 0..blk[frontBlock].sizeMask
          /\ blk[frontBlock].localTail \in 0..blk[frontBlock].sizeMask
          /\ \A i \in 0..blk[frontBlock].sizeMask :
               After(frontBlock, i) = Up(blk[frontBlock].sizeMask, i)
      BY <1>1, BlockFields
    <2>2. /\ blk[frontBlock].front # blk[frontBlock].localTail
          /\ Between(blk[frontBlock].localFront, blk[frontBlock].front, blk[frontBlock].tail)
          /\ Between(blk[frontBlock].front, blk[frontBlock].localTail, blk[frontBlock].tail)
      BY <1>1, <1>2 DEF ConsumerInv, IndexInv
    <2>3. /\ blk[frontBlock].front \in Nat /\ blk[frontBlock].tail \in Nat
          /\ blk[frontBlock].localFront \in Nat /\ blk[frontBlock].localTail \in Nat
      BY <2>1
    <2> QED
      BY <2>1, <2>2, <2>3
  <1>4. PICK g \in Nat : g = Up(m, f) /\ g \in 0..m
    BY <1>3 DEF Up
  <1>5. /\ f # t /\ Between(lf, g, t) /\ Between(g, lt, t)
        /\ \A i \in 0..m : FilledAt(g, t, i) <=> FilledAt(f, t, i) /\ i # f
    <2>1. /\ f \in 0..m /\ t \in 0..m /\ lf \in 0..m /\ lt \in 0..m
          /\ f # lt /\ Between(lf, f, t) /\ Between(f, lt, t)
      BY <1>3
    <2>2. /\ f # t /\ Between(lf, Up(m, f), t) /\ Between(Up(m, f), lt, t)
          /\ \A i \in 0..m : FilledAt(Up(m, f), t, i) <=> FilledAt(f, t, i) /\ i # f
      BY <2>1, FrontMoves
    <2> QED
      BY <1>4, <2>2
  <1>6. /\ \A i \in 0..m : FilledAt(f, t, i) => Up(m, i) # f
        /\ g # t => Down(m, t) # f
    BY <1>3, <1>4, <1>5, FreedSlot
  <1>7. /\ blk' \in Seq(Blocks) /\ DOMAIN blk' = DOMAIN blk /\ Len(blk') = Len(blk)
        /\ \A c \in DOMAIN blk :
             /\ blk'[c].front = IF c = frontBlock THEN g ELSE blk[c].front
             /\ blk'[c].sizeMask = blk[c].sizeMask /\ blk'[c].next = blk[c].next
             /\ blk'[c].tail = blk[c].tail /\ blk'[c].data = blk[c].data
             /\ blk'[c].localFront = blk[c].localFront /\ blk'[c].localTail = blk[c].localTail
    <2>1. blk' = [blk EXCEPT ![frontBlock].front = g]
      BY <1>3, <1>4 DEF Release
    <2>2. blk \in Seq(Blocks) /\ frontBlock \in DOMAIN blk
      BY <1>1
    <2> QED
      BY <2>1, <2>2, SetsFront, ZenonT(60)
  <1>8. Ahead' = Ahead /\ Unlinked' = Unlinked
    BY <1>2 DEF Ahead, Unlinked
  <1>9. \A b \in DOMAIN blk \ {frontBlock} :
            /\ Empty(b)' <=> Empty(b)
            /\ \A i \in Int : Filled(b, i)' <=> Filled(b, i)
    BY <1>7 DEF Empty, Filled
  <1>10. \A b \in DOMAIN blk : /\ LastSlot(b)' = LastSlot(b)
                               /\ \A i \in Int : After(b, i)' = After(b, i)
    BY <1>7 DEF After, LastSlot
  <1>11. Live' = Live
    BY <1>1, <1>2, <1>7, <1>8, <1>9 DEF Live
  <1>12. QueueTypes'
    BY <1>1, <1>2, <1>7 DEF QueueTypes
  <1>13. IndexInv'
    <2>1. ASSUME NEW b \in DOMAIN blk
          PROVE  /\ blk'[b].sizeMask >= 1
                 /\ blk'[b].front <= blk'[b].sizeMask /\ blk'[b].tail <= blk'[b].sizeMask
                 /\ blk'[b].localFront <= blk'[b].sizeMask
                 /\ blk'[b].localTail <= blk'[b].sizeMask
                 /\ blk'[b].next \in DOMAIN blk
                 /\ Between(blk'[b].localFront, blk'[b].front, blk'[b].tail)
                 /\ Between(blk'[b].front, blk'[b].localTail, blk'[b].tail)
      <3>1. CASE b # frontBlock
        BY <1>1, <1>7, <3>1 DEF IndexInv
      <3>2. CASE b = frontBlock
        <4>1. g <= m
          BY <1>4
        <4> QED
          BY <1>1, <1>3, <1>5, <1>7, <3>2, <4>1 DEF IndexInv
      <3> QED
        BY <3>1, <3>2
    <2> QED
      BY <1>7, <2>1 DEF IndexInv
  <1>14. \A i \in 0..m : Filled(frontBlock, i) <=> FilledAt(f, t, i)
    BY <1>3 DEF Filled
  <1>15. ASSUME NEW b, b = frontBlock
         PROVE  \A i \in 0..m : Filled(b, i)' <=> FilledAt(f, t, i) /\ i # f
    BY <1>1, <1>3, <1>5, <1>7, <1>15 DEF Filled
  <1>16. SlotInv'
    <2>1. ASSUME NEW b \in DOMAIN blk
          PROVE  /\ blk[b].data \in [0..blk[b].sizeMask -> 0..(enqueued + 1)]
                 /\ \A i \in 0..blk[b].sizeMask :
                      /\ blk[b].data[i] # Raw <=>
                           \/ Filled(b, i)'
                           \/ producer = "setTail" /\ b = dest /\ i = blk[b].tail
                      /\ b \notin Ahead /\ Filled(b, i)' => blk[b].data[i] <= enqueued
      <3>1. /\ blk[b].data \in [0..blk[b].sizeMask -> 0..(enqueued + 1)]
            /\ \A i \in 0..blk[b].sizeMask :
                 /\ blk[b].data[i] # Raw <=>
                      \/ Filled(b, i) /\ ~(b = frontBlock /\ i = blk[b].front)
                      \/ producer = "setTail" /\ b = dest /\ i = blk[b].tail
                 /\ b \notin Ahead /\ Filled(b, i) => blk[b].data[i] <= enqueued
        BY <1>1, <1>2 DEF SlotInv
      <3>2. CASE b = frontBlock
        BY <1>3, <1>14, <1>15, <3>1, <3>2
      <3>3. CASE b # frontBlock
        <4>1. \A i \in 0..blk[b].sizeMask : Filled(b, i)' <=> Filled(b, i)
          BY <1>9, <3>3
        <4> QED
          BY <3>1, <3>3, <4>1
      <3> QED
        BY <3>2, <3>3
    <2>2. \A b \in DOMAIN blk :
            /\ blk'[b].sizeMask = blk[b].sizeMask /\ blk'[b].tail = blk[b].tail
            /\ blk'[b].data = blk[b].data
      BY <1>7
    <2> QED
      BY <1>2, <1>7, <1>8, <2>1, <2>2 DEF SlotInv
  <1>17. RingInv'
    <2>1. tailBlock # frontBlock => ~Empty(tailBlock)'
      BY <1>1, <1>2, <1>9 DEF RingInv
    <2>2. frontBlock \notin Ahead' /\ tailBlock \notin Ahead'
      BY <1>1, <1>8
    <2>3. \A b \in DOMAIN blk : blk'[b].next = blk[b].next
      BY <1>7
    <2> QED
      BY <1>2, <1>7, <1>8, <1>11, <2>1, <2>2, <2>3, RingIsKept
  <1>18. ProducerInv'
    <2>1. After(dest, blk[dest].tail)' = After(dest, blk[dest].tail)
      BY <1>1, <1>2, <1>7 DEF After
    <2>2. producer \in {"link", "moveTail"} => dest # frontBlock
      BY <1>1 DEF Ahead
    <2> QED
      BY <1>1, <1>2, <1>7, <1>9, <1>11, <2>1, <2>2 DEF ProducerInv
  <1>19. ConsumerInv'
    BY <1>2 DEF ConsumerInv
  <1>20. \A b \in DOMAIN blk, i \in Int : ~(b = frontBlock /\ i = f) => Val(b, i)' = Val(b, i)
    BY <1>2, <1>3, <1>7 DEF Val
  <1>21. InOrder'
    <2>1. ASSUME NEW b \in Live, NEW i \in 0..blk[b].sizeMask,
                 Filled(b, i)', (After(b, i) # blk[b].tail)'
          PROVE  (Val(b, After(b, i)) = Val(b, i) + 1)'
      <3>1. b \in DOMAIN blk /\ blk[b].sizeMask \in Nat
        BY <1>1, BlockFields
      <3>2. i \in Int /\ After(b, i) \in Int
        BY <3>1, Indices
      <3>3. After(b, i)' = After(b, i) /\ After(b, i) # blk[b].tail
        BY <1>7, <1>10, <2>1, <3>1, <3>2
      <3>4. Filled(b, i) /\ ~(b = frontBlock /\ (i = f \/ After(b, i) = f))
        <4>1. CASE b = frontBlock
          BY <1>3, <1>6, <1>14, <1>15, <2>1, <4>1
        <4>2. CASE b # frontBlock
          BY <1>9, <2>1, <3>1, <3>2, <4>2
        <4> QED
          BY <4>1, <4>2
      <3>5. Val(b, After(b, i)) = Val(b, i) + 1
        BY <1>1, <3>3, <3>4 DEF InOrder
      <3> QED
        BY <1>20, <3>1, <3>2, <3>3, <3>4, <3>5
    <2>2. ASSUME NEW b \in Live, ~Empty(b)'
          PROVE  ~Empty(b) /\ Val(b, LastSlot(b))' = Val(b, LastSlot(b))
      <3>1. b \in DOMAIN blk
        BY <1>1
      <3>2. LastSlot(b) \in Int /\ LastSlot(b)' = LastSlot(b)
        BY <1>10, <3>1, Indices
      <3>3. CASE b # frontBlock
        BY <1>9, <1>20, <2>2, <3>1, <3>2, <3>3
      <3>4. CASE b = frontBlock
        <4>1. ~Empty(b)
          BY <1>3, <1>5, <3>4 DEF Empty
        <4>2. g # t
          BY <1>2, <1>3, <1>7, <2>2, <3>1, <3>4 DEF Empty
        <4>3. LastSlot(b) # f
          BY <1>3, <1>6, <3>4, <4>2 DEF LastSlot
        <4> QED
          BY <1>20, <3>1, <3>2, <4>1, <4>3
      <3> QED
        BY <3>3, <3>4
    <2>3. ASSUME NEW b \in Live \ {tailBlock}, ~Empty(b)'
          PROVE  (Val(blk[b].next, blk[blk[b].next].front) = Val(b, LastSlot(b)) + 1)'
      <3>1. PICK n \in Live \ {frontBlock} : n = blk[b].next
        BY <1>1 DEF RingInv
      <3>2. b \in DOMAIN blk /\ n \in DOMAIN blk /\ blk'[b].next = n /\ blk'[n].front = blk[n].front
        BY <1>1, <1>7, <3>1
      <3>3. blk[n].front \in Int
        BY <3>2, Indices
      <3>4. Val(n, blk[n].front)' = Val(n, blk[n].front)
        BY <1>20, <3>1, <3>2, <3>3
      <3>5. ~Empty(b) /\ Val(b, LastSlot(b))' = Val(b, LastSlot(b))
        BY <2>2, <2>3
      <3>6. Val(n, blk[n].front) = Val(b, LastSlot(b)) + 1
        BY <1>1, <3>1, <3>5 DEF InOrder
      <3> QED
        BY <3>2, <3>4, <3>5, <3>6
    <2>4. ~Empty(tailBlock)' => (Val(tailBlock, LastSlot(tailBlock)) = enqueued)'
      <3>1. ASSUME ~Empty(tailBlock)'
            PROVE  ~Empty(tailBlock) /\ Val(tailBlock, LastSlot(tailBlock))' = Val(tailBlock, LastSlot(tailBlock))
        BY <1>1, <1>2, <2>2, <3>1
      <3> QED
        BY <1>1, <1>2, <3>1 DEF InOrder
    <2>5. \A b \in Live : blk'[b].sizeMask = blk[b].sizeMask
      BY <1>1, <1>7
    <2> QED
      BY <1>2, <1>11, <2>1, <2>3, <2>4, <2>5 DEF InOrder
  <1>22. NewestInv'
    <2>1. producer \in {"link", "moveTail"} => dest # frontBlock
      BY <1>1 DEF Ahead
    <2>2. blk[dest].front \in Int
      BY <1>1, Indices
    <2> QED
      BY <1>1, <1>2, <1>7, <1>10, <2>1, <2>2 DEF NewestInv
  <1> QED
    BY <1>12, <1>13, <1>16, <1>17, <1>18, <1>19, <1>21, <1>22 DEF QueueInv

\* The producer fills the slot: the element is in the queue if the block is.
LEMMA SlotIsFilled ==
    ASSUME QueueInv, SetTail
    PROVE  QueueInv'
  <1>1. /\ QueueTypes /\ IndexInv /\ SlotInv /\ RingInv /\ ProducerInv /\ ConsumerInv
        /\ InOrder /\ NewestInv /\ blk \in Seq(Blocks)
        /\ frontBlock \in DOMAIN blk /\ tailBlock \in DOMAIN blk /\ dest \in DOMAIN blk
        /\ \A b \in DOMAIN blk : blk[b].next \in DOMAIN blk
        /\ Live \subseteq DOMAIN blk /\ frontBlock \in Live /\ tailBlock \in Live
        /\ \A b \in Live \ {frontBlock} : ~Empty(b)
    BY InvParts
  <1>2. /\ producer = "setTail" /\ enqueued \in Nat
        /\ dest = tailBlock => producer' = "idle" /\ enqueued' = enqueued + 1
        /\ dest # tailBlock => producer' = "moveTail" /\ enqueued' = enqueued
        /\ UNCHANGED <<frontBlock, tailBlock, largestBlockSize, dest, consumer, op, result>>
    BY <1>1 DEF SetTail, consumerVars, QueueTypes
  <1>3. dest # tailBlock => dest = blk[tailBlock].next /\ dest \notin Live
    BY <1>1, <1>2 DEF ProducerInv
  <1>4. PICK m, f, t, lf, lt \in Nat :
          /\ f \in 0..m /\ t \in 0..m /\ lf \in 0..m /\ lt \in 0..m /\ m >= 1
          /\ m = blk[dest].sizeMask /\ f = blk[dest].front
          /\ t = blk[dest].tail /\ lf = blk[dest].localFront
          /\ lt = blk[dest].localTail
          /\ Up(m, t) # lf /\ Between(lf, f, t) /\ Between(f, lt, t)
          /\ \A i \in 0..m : After(dest, i) = Up(m, i)
    <2>1. /\ blk[dest].sizeMask \in Nat /\ blk[dest].sizeMask >= 1
          /\ blk[dest].front \in 0..blk[dest].sizeMask
          /\ blk[dest].tail \in 0..blk[dest].sizeMask
          /\ blk[dest].localFront \in 0..blk[dest].sizeMask
          /\ blk[dest].localTail \in 0..blk[dest].sizeMask
          /\ \A i \in 0..blk[dest].sizeMask : After(dest, i) = Up(blk[dest].sizeMask, i)
      BY <1>1, BlockFields
    <2>2. /\ After(dest, blk[dest].tail) # blk[dest].localFront
          /\ Between(blk[dest].localFront, blk[dest].front, blk[dest].tail)
          /\ Between(blk[dest].front, blk[dest].localTail, blk[dest].tail)
      BY <1>1, <1>2 DEF ProducerInv, IndexInv
    <2>3. /\ blk[dest].front \in Nat /\ blk[dest].tail \in Nat
          /\ blk[dest].localFront \in Nat /\ blk[dest].localTail \in Nat
      BY <2>1
    <2>4. Up(blk[dest].sizeMask, blk[dest].tail) # blk[dest].localFront
      BY <2>1, <2>2
    <2> QED
      BY <2>1, <2>2, <2>3, <2>4
  <1>5. PICK u \in Nat : u = Up(m, t) /\ u \in 0..m /\ u # t /\ Down(m, u) = t
    BY <1>4 DEF Up, Down
  <1>6. /\ u # f /\ Between(lf, f, u) /\ Between(f, lt, u)
        /\ \A i \in 0..m : FilledAt(f, u, i) <=> FilledAt(f, t, i) \/ i = t
    <2>1. /\ f \in 0..m /\ t \in 0..m /\ lf \in 0..m /\ lt \in 0..m
          /\ Up(m, t) # lf /\ Between(lf, f, t) /\ Between(f, lt, t)
      BY <1>4
    <2>2. /\ Up(m, t) # f /\ Between(lf, f, Up(m, t)) /\ Between(f, lt, Up(m, t))
          /\ \A i \in 0..m : FilledAt(f, Up(m, t), i) <=> FilledAt(f, t, i) \/ i = t
      BY <2>1, TailMoves
    <2> QED
      BY <1>5, <2>2
  <1>7. /\ blk' \in Seq(Blocks) /\ DOMAIN blk' = DOMAIN blk /\ Len(blk') = Len(blk)
        /\ \A c \in DOMAIN blk :
             /\ blk'[c].tail = IF c = dest THEN u ELSE blk[c].tail
             /\ blk'[c].sizeMask = blk[c].sizeMask /\ blk'[c].next = blk[c].next
             /\ blk'[c].front = blk[c].front /\ blk'[c].data = blk[c].data
             /\ blk'[c].localFront = blk[c].localFront /\ blk'[c].localTail = blk[c].localTail
    <2>1. blk' = [blk EXCEPT ![dest].tail = u]
      BY <1>4, <1>5 DEF SetTail
    <2>2. blk \in Seq(Blocks) /\ dest \in DOMAIN blk
      BY <1>1
    <2> QED
      BY <2>1, <2>2, SetsTail
  <1>8. /\ Ahead = {} /\ Unlinked = {} /\ Unlinked' = {}
        /\ Ahead' = IF dest = tailBlock THEN {} ELSE {dest}
    <2>1. producer' # "link"
      BY <1>2
    <2> QED
      BY <1>2, <2>1 DEF Ahead, Unlinked
  <1>9. \A b \in DOMAIN blk : Empty(b)' <=> Empty(b) /\ b # dest
    BY <1>1, <1>4, <1>6, <1>7 DEF Empty
  <1>10. ASSUME NEW b \in DOMAIN blk, b # dest
         PROVE  /\ \A i \in Int : Filled(b, i)' <=> Filled(b, i)
                /\ LastSlot(b)' = LastSlot(b)
    BY <1>7, <1>10 DEF Filled, LastSlot
  <1>11. ASSUME NEW b, b = dest
         PROVE  /\ \A i \in 0..m : Filled(b, i)' <=> FilledAt(f, t, i) \/ i = t
                /\ \A i \in 0..m : Filled(b, i) <=> FilledAt(f, t, i)
                /\ LastSlot(b)' = t
    BY <1>1, <1>4, <1>5, <1>6, <1>7, <1>11 DEF Filled, LastSlot
  <1>12. \A b \in DOMAIN blk, i \in Int : After(b, i)' = After(b, i) /\ Val(b, i)' = Val(b, i)
    BY <1>2, <1>7 DEF After, Val
  <1>13. Live' = Live
    <2>1. CASE dest = tailBlock
      BY <1>1, <1>2, <1>7, <1>8, <1>9, <2>1 DEF Live
    <2>2. CASE dest # tailBlock
      BY <1>1, <1>2, <1>3, <1>7, <1>8, <1>9, <2>2 DEF Live
    <2> QED
      BY <2>1, <2>2
  <1>14. QueueTypes'
    <2>1. result \in 0..enqueued'
      <3>1. result \in 0..enqueued /\ enqueued \in Nat
        BY <1>1 DEF QueueTypes
      <3>2. enqueued' = enqueued \/ enqueued' = enqueued + 1
        BY <1>2
      <3> QED
        BY <3>1, <3>2
    <2>2. enqueued' \in Nat
      BY <1>2
    <2> QED
      BY <1>1, <1>2, <1>7, <2>1, <2>2 DEF QueueTypes
  <1>15. IndexInv'
    <2>1. ASSUME NEW b \in DOMAIN blk
          PROVE  /\ blk'[b].sizeMask >= 1
                 /\ blk'[b].front <= blk'[b].sizeMask /\ blk'[b].tail <= blk'[b].sizeMask
                 /\ blk'[b].localFront <= blk'[b].sizeMask
                 /\ blk'[b].localTail <= blk'[b].sizeMask
                 /\ blk'[b].next \in DOMAIN blk
                 /\ Between(blk'[b].localFront, blk'[b].front, blk'[b].tail)
                 /\ Between(blk'[b].front, blk'[b].localTail, blk'[b].tail)
      <3>1. CASE b # dest
        BY <1>1, <1>7, <3>1 DEF IndexInv
      <3>2. CASE b = dest
        <4>1. u <= m
          BY <1>5
        <4> QED
          BY <1>1, <1>4, <1>6, <1>7, <3>2, <4>1 DEF IndexInv
      <3> QED
        BY <3>1, <3>2
    <2> QED
      BY <1>7, <2>1 DEF IndexInv
  <1>16. consumer = "release" /\ frontBlock = dest => f # t
    <2>1. consumer = "release" /\ frontBlock = dest => f # lt
      BY <1>1, <1>4 DEF ConsumerInv
    <2>2. f # lt => f # t
      BY <1>4 DEF Between
    <2> QED
      BY <2>1, <2>2
  <1>17. SlotInv'
    <2>1. ASSUME NEW b \in DOMAIN blk
          PROVE  /\ blk[b].data \in [0..blk[b].sizeMask -> 0..(enqueued' + 1)]
                 /\ \A i \in 0..blk[b].sizeMask :
                      /\ blk[b].data[i] # Raw <=>
                           /\ Filled(b, i)'
                           /\ ~(consumer = "release" /\ b = frontBlock /\ i = blk[b].front)
                      /\ b \notin Ahead' /\ Filled(b, i)' => blk[b].data[i] <= enqueued'
      <3>1. /\ blk[b].data \in [0..blk[b].sizeMask -> 0..(enqueued + 1)]
            /\ \A i \in 0..blk[b].sizeMask :
                 /\ blk[b].data[i] # Raw <=>
                      \/ /\ Filled(b, i)
                         /\ ~(consumer = "release" /\ b = frontBlock /\ i = blk[b].front)
                      \/ b = dest /\ i = blk[b].tail
                 /\ Filled(b, i) => blk[b].data[i] <= enqueued
        BY <1>1, <1>2, <1>8 DEF SlotInv
      <3>2. 0..(enqueued + 1) \subseteq 0..(enqueued' + 1)
        BY <1>2
      <3>3. blk[b].data \in [0..blk[b].sizeMask -> 0..(enqueued' + 1)]
        BY <3>1, <3>2
      <3>4. CASE b = dest
        <4>1. \A i \in 0..m : Filled(b, i)' <=> Filled(b, i) \/ i = t
          BY <1>11, <3>4
        <4>2. ASSUME NEW i \in 0..m
              PROVE  blk[b].data[i] # Raw <=>
                       /\ Filled(b, i)'
                       /\ ~(consumer = "release" /\ b = frontBlock /\ i = blk[b].front)
          BY <1>4, <1>16, <3>1, <3>4, <4>1
        <4>3. ASSUME NEW i \in 0..m, b \notin Ahead'
              PROVE  blk[b].data[i] <= enqueued'
          <5>1. enqueued' = enqueued + 1
            BY <1>2, <1>8, <3>4, <4>3
          <5>2. blk[b].data[i] \in 0..(enqueued + 1)
            BY <1>4, <3>1, <3>4
          <5> QED
            BY <1>2, <5>1, <5>2
        <4> QED
          BY <1>4, <3>3, <3>4, <4>2, <4>3
      <3>5. CASE b # dest
        <4>1. \A i \in 0..blk[b].sizeMask : Filled(b, i)' <=> Filled(b, i)
          BY <1>10, <3>5
        <4>2. \A i \in 0..blk[b].sizeMask : Filled(b, i) => blk[b].data[i] <= enqueued'
          <5>1. ASSUME NEW i \in 0..blk[b].sizeMask, Filled(b, i)
                PROVE  blk[b].data[i] <= enqueued'
            <6>1. blk[b].data[i] \in 0..(enqueued + 1) /\ blk[b].data[i] <= enqueued
              BY <3>1, <5>1
            <6> QED
              BY <1>2, <6>1
          <5> QED
            BY <5>1
        <4> QED
          BY <3>1, <3>3, <3>5, <4>1, <4>2
      <3> QED
        BY <3>4, <3>5
    <2>2. producer' # "setTail"
      BY <1>2
    <2>3. \A b \in DOMAIN blk :
            /\ blk'[b].sizeMask = blk[b].sizeMask /\ blk'[b].front = blk[b].front
            /\ blk'[b].data = blk[b].data
      BY <1>7
    <2> QED
      BY <1>2, <1>7, <2>1, <2>2, <2>3 DEF SlotInv
  <1>18. RingInv'
    <2>1. tailBlock # frontBlock => ~Empty(tailBlock)'
      BY <1>1, <1>2, <1>9 DEF RingInv
    <2>2. frontBlock \notin Ahead' /\ tailBlock \notin Ahead'
      BY <1>1, <1>3, <1>8
    <2>3. \A b \in DOMAIN blk : blk'[b].next = blk[b].next
      BY <1>7
    <2> QED
      BY <1>2, <1>7, <1>8, <1>13, <2>1, <2>2, <2>3, RingIsKept
  <1>19. ProducerInv'
    <2>1. ~Empty(dest)'
      BY <1>1, <1>2, <1>9
    <2>2. producer' = "moveTail" => dest' = blk'[tailBlock'].next
      BY <1>1, <1>2, <1>3, <1>7
    <2>3. producer' \in {"idle", "moveTail"}
      BY <1>2
    <2> QED
      BY <2>1, <2>2, <2>3 DEF ProducerInv
  <1>20. ConsumerInv'
    <2>1. frontBlock # tailBlock => frontBlock # dest
      BY <1>1, <1>3
    <2>2. /\ \A b \in DOMAIN blk : blk'[b].front = blk[b].front /\ blk'[b].next = blk[b].next
                                   /\ blk'[b].localTail = blk[b].localTail
          /\ frontBlock # tailBlock => (Empty(frontBlock)' <=> Empty(frontBlock))
      BY <1>1, <1>2, <1>7, <1>9, <2>1
    <2> QED
      BY <1>1, <1>2, <2>2 DEF ConsumerInv
  <1>21. NewestInv'
    <2>1. ASSUME dest # tailBlock
          PROVE  blk[dest].data[f] = enqueued + 1 /\ Up(m, f) = u
      <3>1. Empty(dest)
        BY <1>1, <1>3, <1>8, <2>1 DEF Live
      <3>2. f = t /\ blk[dest].data[t] = enqueued + 1
        BY <1>1, <1>2, <1>4, <3>1 DEF Empty, NewestInv
      <3> QED
        BY <1>5, <3>2
    <2>2. CASE dest = tailBlock
      BY <1>2, <2>2 DEF NewestInv
    <2>3. CASE dest # tailBlock
      <3>1. After(dest, f)' = After(dest, f) /\ After(dest, f) = Up(m, f)
        <4>1. f \in Int /\ dest \in DOMAIN blk /\ dest' = dest
          BY <1>1, <1>2
        <4>2. After(dest, f) = Up(m, f)
          BY <1>4
        <4>3. After(dest, f)' = After(dest, f)
          BY <1>12, <4>1
        <4> QED
          BY <4>2, <4>3
      <3>2. blk'[dest].front = f /\ blk'[dest].data = blk[dest].data /\ blk'[dest].tail = u
        BY <1>1, <1>4, <1>7
      <3> QED
        BY <1>2, <2>1, <2>3, <3>1, <3>2 DEF NewestInv
    <2> QED
      BY <2>2, <2>3
  <1>22. InOrder'
    <2>1. CASE dest # tailBlock
      <3>1. ASSUME NEW b \in Live
            PROVE  /\ blk'[b].sizeMask = blk[b].sizeMask /\ blk'[b].next = blk[b].next
                   /\ blk'[b].front = blk[b].front /\ blk'[b].tail = blk[b].tail
                   /\ \A i \in 0..blk[b].sizeMask : i # blk[b].tail => Val(b, i)' = Val(b, i)
        <4>1. b \in DOMAIN blk /\ b # dest
          BY <1>1, <1>3, <2>1
        <4>2. \A i \in 0..blk[b].sizeMask : Val(b, i)' = Val(b, i)
          BY <1>12, <4>1
        <4> QED
          BY <1>7, <4>1, <4>2
      <3>2. enqueued' = enqueued
        BY <1>2, <2>1
      <3> QED
        BY <1>2, <1>13, <3>1, <3>2, OrderIsKept
    <2>2. CASE dest = tailBlock
      <3>1. Val(dest, t) = enqueued + 1
        <4>1. blk[dest].data[t] = enqueued + 1
          BY <1>1, <1>2, <1>4 DEF NewestInv
        <4> QED
          BY <1>4, <1>16, <4>1 DEF Val
      <3>2. ASSUME NEW b \in Live, NEW i \in 0..blk[b].sizeMask,
                   Filled(b, i)', (After(b, i) # blk[b].tail)'
            PROVE  (Val(b, After(b, i)) = Val(b, i) + 1)'
        <4>1. b \in DOMAIN blk
          BY <1>1
        <4>2. i \in Int /\ After(b, i) \in Int
          BY <4>1, Indices
        <4>3. /\ After(b, i)' = After(b, i) /\ Val(b, i)' = Val(b, i)
              /\ Val(b, After(b, i))' = Val(b, After(b, i))
          BY <1>12, <4>1, <4>2
        <4>4. CASE b # dest
          <5>1. Filled(b, i) /\ After(b, i) # blk[b].tail
            BY <1>7, <1>10, <3>2, <4>1, <4>2, <4>3, <4>4
          <5>2. Val(b, After(b, i)) = Val(b, i) + 1
            BY <1>1, <5>1 DEF InOrder
          <5> QED
            BY <4>3, <5>2
        <4>5. CASE b = dest
          <5>1. i \in 0..m /\ After(b, i) = Up(m, i) /\ Up(m, i) # Up(m, t)
            BY <1>4, <1>5, <1>7, <3>2, <4>1, <4>3, <4>5
          <5>2. i # t /\ Filled(b, i)
            BY <1>11, <3>2, <4>5, <5>1
          <5>3. CASE Up(m, i) # t
            <6>1. Val(b, After(b, i)) = Val(b, i) + 1
              BY <1>1, <1>4, <4>5, <5>1, <5>2, <5>3 DEF InOrder
            <6> QED
              BY <4>3, <6>1
          <5>4. CASE Up(m, i) = t
            <6>1. LastSlot(b) = i
              <7>1. Down(m, t) = i
                BY <1>4, <5>1, <5>4 DEF Up, Down
              <7> QED
                BY <1>4, <4>5, <7>1 DEF LastSlot
            <6>2. ~Empty(b)
              <7>1. f # t
                BY <1>4, <1>11, <4>5, <5>1, <5>2 DEF FilledAt
              <7> QED
                BY <1>4, <4>5, <7>1 DEF Empty
            <6>3. Val(b, i) = enqueued
              BY <1>1, <2>2, <4>5, <6>1, <6>2 DEF InOrder
            <6> QED
              BY <3>1, <4>3, <4>5, <5>1, <5>4, <6>3
          <5> QED
            BY <5>3, <5>4
        <4> QED
          BY <4>4, <4>5
      <3>3. ASSUME NEW b \in Live \ {tailBlock}, ~Empty(b)'
            PROVE  (Val(blk[b].next, blk[blk[b].next].front) = Val(b, LastSlot(b)) + 1)'
        <4>1. PICK n \in DOMAIN blk : n = blk[b].next
          BY <1>1
        <4>2. /\ b \in DOMAIN blk /\ blk'[b].next = n /\ blk'[n].front = blk[n].front
              /\ b # dest
          BY <1>1, <1>7, <2>2, <4>1
        <4>3. blk[n].front \in Int /\ LastSlot(b) \in Int
          BY <4>1, <4>2, Indices
        <4>4. /\ Val(n, blk[n].front)' = Val(n, blk[n].front)
              /\ LastSlot(b)' = LastSlot(b) /\ Val(b, LastSlot(b))' = Val(b, LastSlot(b))
          BY <1>10, <1>12, <4>1, <4>2, <4>3
        <4>5. Val(n, blk[n].front) = Val(b, LastSlot(b)) + 1
          BY <1>1, <1>9, <3>3, <4>1, <4>2 DEF InOrder
        <4> QED
          BY <4>2, <4>4, <4>5
      <3>4. (Val(tailBlock, LastSlot(tailBlock)) = enqueued)'
        <4>1. PICK b \in DOMAIN blk : b = dest /\ b = tailBlock /\ b = tailBlock'
          BY <1>1, <1>2, <2>2
        <4>2. LastSlot(b)' = t
          BY <1>11, <4>1
        <4>3. Val(b, t)' = Val(b, t)
          BY <1>12, <4>1
        <4>4. enqueued' = enqueued + 1
          BY <1>2, <2>2
        <4> QED
          BY <3>1, <4>1, <4>2, <4>3, <4>4
      <3>5. \A b \in Live : blk'[b].sizeMask = blk[b].sizeMask
        BY <1>1, <1>7
      <3> QED
        BY <1>2, <1>13, <3>2, <3>3, <3>4, <3>5 DEF InOrder
    <2> QED
      BY <2>1, <2>2
  <1> QED
    BY <1>14, <1>15, <1>17, <1>18, <1>19, <1>20, <1>21, <1>22 DEF QueueInv

-----------------------------------------------------------------------------
(* The constructor *)

\* A number has a power of two at or above it and below its double.
LEMMA PowerAbove ==
    ASSUME NEW x \in 1..2^30
    PROVE  \E p \in PowersOfTwo : p >= x /\ p < 2 * x
  <1>1. /\ {1, 2, 4, 8, 16, 32, 64, 128, 256, 512, 1024, 2048, 4096, 8192, 16384, 32768,
            65536, 131072, 262144, 524288, 1048576, 2097152, 4194304, 8388608, 16777216,
            33554432, 67108864, 134217728, 268435456, 536870912, 1073741824}
             \subseteq PowersOfTwo
        /\ 2^30 = 1073741824
    BY SMT DEF PowersOfTwo
  <1>2. SUFFICES ASSUME \A p \in PowersOfTwo : ~(p >= x /\ p < 2 * x)
                 PROVE  FALSE
    BY Zenon
  <1>3. /\ ~(1 >= x /\ 1 < 2 * x) /\ ~(2 >= x /\ 2 < 2 * x)
        /\ ~(4 >= x /\ 4 < 2 * x) /\ ~(8 >= x /\ 8 < 2 * x)
        /\ ~(16 >= x /\ 16 < 2 * x) /\ ~(32 >= x /\ 32 < 2 * x)
        /\ ~(64 >= x /\ 64 < 2 * x) /\ ~(128 >= x /\ 128 < 2 * x)
        /\ ~(256 >= x /\ 256 < 2 * x) /\ ~(512 >= x /\ 512 < 2 * x)
        /\ ~(1024 >= x /\ 1024 < 2 * x) /\ ~(2048 >= x /\ 2048 < 2 * x)
        /\ ~(4096 >= x /\ 4096 < 2 * x) /\ ~(8192 >= x /\ 8192 < 2 * x)
        /\ ~(16384 >= x /\ 16384 < 2 * x) /\ ~(32768 >= x /\ 32768 < 2 * x)
        /\ ~(65536 >= x /\ 65536 < 2 * x) /\ ~(131072 >= x /\ 131072 < 2 * x)
        /\ ~(262144 >= x /\ 262144 < 2 * x) /\ ~(524288 >= x /\ 524288 < 2 * x)
        /\ ~(1048576 >= x /\ 1048576 < 2 * x) /\ ~(2097152 >= x /\ 2097152 < 2 * x)
        /\ ~(4194304 >= x /\ 4194304 < 2 * x) /\ ~(8388608 >= x /\ 8388608 < 2 * x)
        /\ ~(16777216 >= x /\ 16777216 < 2 * x) /\ ~(33554432 >= x /\ 33554432 < 2 * x)
        /\ ~(67108864 >= x /\ 67108864 < 2 * x) /\ ~(134217728 >= x /\ 134217728 < 2 * x)
        /\ ~(268435456 >= x /\ 268435456 < 2 * x) /\ ~(536870912 >= x /\ 536870912 < 2 * x)
        /\ ~(1073741824 >= x /\ 1073741824 < 2 * x)
    BY <1>1, <1>2, SMT
  <1> QED
    BY <1>1, <1>3, SMT

\* The block ceilToPow2() gives has room for one element more than asked for.
LEMMA CapacityHolds ==
    ASSUME NEW size \in 1 .. (2^30 - 1)
    PROVE  CeilToPow2(size + 1) \in Nat /\ CeilToPow2(size + 1) >= size + 1
  <1>1. size + 1 \in 1..2^30 /\ PowersOfTwo \subseteq Nat
    BY SMT DEF PowersOfTwo
  <1>2. \E p \in PowersOfTwo : p >= size + 1 /\ p < 2 * (size + 1)
    BY <1>1, PowerAbove
  <1>3. CeilToPow2(size + 1) \in PowersOfTwo /\ CeilToPow2(size + 1) >= size + 1
    BY <1>2, Zenon DEF CeilToPow2
  <1> QED
    BY <1>1, <1>3, Zenon

\* A ring has at least one block.
LEMMA SomeBlocks ==
    ASSUME NEW a \in Nat, NEW b \in Nat, b >= 1, a >= b
    PROVE  a \div b \in Nat /\ a \div b >= 1
  BY SMT

\* The constructor makes a ring of empty blocks.
LEMMA InitialRing ==
    ASSUME Init
    PROVE  \E n \in Nat :
             /\ n >= 1 /\ largestBlockSize \in Nat /\ largestBlockSize >= 2
             /\ blk = [b \in 1..n |-> Block(largestBlockSize, (b % n) + 1)]
  <1>1. /\ shape \in Shapes /\ shape.maxBlockSize \in PowersOfTwo \ {1}
        /\ shape.size \in 1 .. (2^30 - 1)
    BY ShapesAssumption DEF Init
  <1>2. shape.maxBlockSize \in Nat /\ shape.maxBlockSize >= 2
    <2>1. \A p \in PowersOfTwo \ {1} : p \in Nat /\ p >= 2
      BY SMT DEF PowersOfTwo
    <2> QED
      BY <1>1, <2>1
  <1> DEFINE capacity == CeilToPow2(shape.size + 1)
             many == capacity > shape.maxBlockSize * 2
             n == IF many THEN InitialBlockCount(shape) ELSE 1
  <1>3. capacity \in Nat /\ capacity >= 2
    <2>1. capacity \in Nat /\ capacity >= shape.size + 1
      BY <1>1, CapacityHolds
    <2>2. shape.size + 1 >= 2 /\ shape.size \in Nat
      BY <1>1, SMT
    <2> QED
      BY <2>1, <2>2, SMT
  <1>4. n \in Nat /\ n >= 1
    <2>1. InitialBlockCount(shape) \in Nat /\ InitialBlockCount(shape) >= 1
      <3>1. PICK a, b \in Nat : /\ a = shape.size + shape.maxBlockSize * 2 - 3
                                /\ b = shape.maxBlockSize - 1 /\ b >= 1 /\ a >= b
        BY <1>1, <1>2, SMT
      <3>2. a \div b \in Nat /\ a \div b >= 1
        BY <3>1, SomeBlocks
      <3> QED
        BY <3>1, <3>2, Zenon DEF InitialBlockCount
    <2> QED
      BY <2>1
  <1>5. /\ largestBlockSize = IF many THEN shape.maxBlockSize ELSE capacity
        /\ blk = [b \in 1..n |-> Block(largestBlockSize, (b % n) + 1)]
    BY DEF Init
  <1> HIDE DEF capacity, many, n
  <1>6. largestBlockSize \in Nat /\ largestBlockSize >= 2
    BY <1>2, <1>3, <1>5
  <1> QED
    BY <1>4, <1>5, <1>6

\* The invariant holds of a new queue.
LEMMA InitialQueue ==
    ASSUME Init
    PROVE  QueueInv
  <1>1. PICK n \in Nat :
          /\ n >= 1 /\ largestBlockSize \in Nat /\ largestBlockSize >= 2
          /\ blk = [b \in 1..n |-> Block(largestBlockSize, (b % n) + 1)]
    BY InitialRing
  <1>2. PICK m \in Nat : m = largestBlockSize - 1 /\ m >= 1
    BY <1>1
  <1>3. /\ frontBlock = 1 /\ tailBlock = 1 /\ dest = 1 /\ enqueued = 0 /\ result = 0
        /\ producer = "idle" /\ consumer = "idle" /\ op = "peek"
    BY DEF Init, Raw
  <1>4. PICK d \in Datas : d = [i \in 0..m |-> 0] /\ d \in [0..m -> 0..1]
    <2>1. [i \in 0..m |-> 0] \in [0..m -> Nat] /\ [i \in 0..m |-> 0] \in [0..m -> 0..1]
      OBVIOUS
    <2> QED
      BY <2>1 DEF Datas
  <1>5. \A b \in 1..n : (b % n) + 1 = IF b = n THEN 1 ELSE b + 1
    <2>1. \A k \in Nat : k >= 1 => \A b \in 1..k : (b % k) + 1 = IF b = k THEN 1 ELSE b + 1
      BY SMT
    <2> QED
      BY <1>1, <2>1
  <1>6. ASSUME NEW b \in 1..n
        PROVE  /\ blk[b] \in Blocks
               /\ blk[b].sizeMask = m /\ blk[b].front = 0 /\ blk[b].tail = 0
               /\ blk[b].localFront = 0 /\ blk[b].localTail = 0 /\ blk[b].data = d
               /\ blk[b].next = IF b = n THEN 1 ELSE b + 1
    <2>1. PICK next \in Nat : next = (b % n) + 1 /\ next = IF b = n THEN 1 ELSE b + 1
      BY <1>5
    <2>2. blk[b] = [sizeMask |-> m, front |-> 0, tail |-> 0, localFront |-> 0, localTail |-> 0,
                    next |-> next, data |-> d]
      BY <1>1, <1>2, <1>4, <2>1 DEF Block, Slots, Raw
    <2> QED
      BY <2>1, <2>2 DEF Blocks
  <1>7. blk \in Seq(Blocks) /\ DOMAIN blk = 1..n
    <2>1. DOMAIN blk = 1..n /\ blk = [b \in 1..n |-> blk[b]]
      BY <1>1
    <2>2. blk \in [1..n -> Blocks]
      BY <1>6, <2>1
    <2> QED
      BY <2>1, <2>2, SeqDef
  <1>8. 1 \in 1..n
    BY <1>1
  <1>9. Ahead = {} /\ Unlinked = {} /\ \A b \in 1..n : Empty(b)
    BY <1>3, <1>6 DEF Ahead, Unlinked, Empty
  <1>10. Live = {1}
    BY <1>3, <1>7, <1>9 DEF Live
  <1>11. QueueTypes
    BY <1>1, <1>3, <1>7, <1>8 DEF QueueTypes
  <1>12. IndexInv
    <2>1. Between(0, 0, 0)
      BY DEF Between
    <2>2. \A b \in 1..n : (IF b = n THEN 1 ELSE b + 1) \in 1..n
      BY <1>1
    <2> QED
      BY <1>2, <1>6, <1>7, <2>1, <2>2 DEF IndexInv
  <1>13. \A b \in 1..n : \A i \in 0..m : ~Filled(b, i) /\ blk[b].data[i] = Raw
    BY <1>4, <1>6 DEF Filled, FilledAt, Raw
  <1>14. SlotInv
    BY <1>3, <1>4, <1>6, <1>7, <1>13 DEF SlotInv
  <1>15. RingInv
    <2>1. \A b, c \in 1..n : (IF b = n THEN 1 ELSE b + 1) = (IF c = n THEN 1 ELSE c + 1) => b = c
      BY <1>1
    <2>2. \A b, c \in DOMAIN blk : blk[b].next = blk[c].next => b = c
      BY <1>6, <1>7, <2>1
    <2> QED
      BY <1>3, <1>9, <1>10, <2>2 DEF RingInv
  <1>16. ProducerInv /\ ConsumerInv /\ NewestInv
    BY <1>3 DEF ProducerInv, ConsumerInv, NewestInv
  <1>17. InOrder
    BY <1>3, <1>6, <1>8, <1>9, <1>10, <1>13 DEF InOrder
  <1> QED
    BY <1>11, <1>12, <1>14, <1>15, <1>16, <1>17 DEF QueueInv

-----------------------------------------------------------------------------
(* The theorems *)

\* A step that changes nothing.
LEMMA QueueStutters ==
    ASSUME QueueInv, UNCHANGED vars
    PROVE  QueueInv'
  <1>1. UNCHANGED <<blk, frontBlock, tailBlock, largestBlockSize, producer, dest, enqueued,
                    consumer, op, result>>
    BY DEF vars, queueVars, producerVars, consumerVars
  <1>2. QueueTypes /\ IndexInv /\ ProducerInv /\ ConsumerInv
    BY DEF QueueInv
  <1>3. Shared(blk')
    BY <1>1 DEF Shared
  <1>4. SlotInv' /\ RingInv' /\ InOrder' /\ NewestInv' /\ Live' = Live
    BY <1>1, <1>3, CopiesDoNotCount
  <1>5. QueueTypes' /\ IndexInv'
    BY <1>1, <1>2 DEF QueueTypes, IndexInv
  <1>6. ProducerInv' /\ ConsumerInv'
    BY <1>1, <1>2, <1>4 DEF ProducerInv, ConsumerInv, After, Empty
  <1> QED
    BY <1>4, <1>5, <1>6 DEF QueueInv

\* The queue keeps its invariant, whatever the two threads' steps and their
\* order: at every store and load of inner_enqueue(), try_dequeue(), pop() and
\* peek(), for every number and size of blocks.
THEOREM QueueInvariance == Spec => []QueueInv
  <1>1. Init => QueueInv
    BY InitialQueue
  <1>2. QueueInv /\ [Next]_vars => QueueInv'
    <2>1. SUFFICES ASSUME QueueInv, [Next]_vars
                   PROVE  QueueInv'
      OBVIOUS
    <2>2. CASE UNCHANGED vars
      BY <2>1, <2>2, QueueStutters
    <2>3. CASE Producer
      BY <2>1, <2>3, ProducerLooks, BlockIsMade, BlockIsLinked, ElementIsConstructed, SlotIsFilled,
         TailBlockMoves DEF Producer
    <2>4. CASE Consumer
      BY <2>1, <2>4, ConsumerLooks, FrontBlockMoves, ElementIsTaken, SlotIsReleased DEF Consumer
    <2> QED
      BY <2>1, <2>2, <2>3, <2>4 DEF Next
  <1> QED
    BY <1>1, <1>2, PTL DEF Spec

\* Every index stays inside its block, the asserts of readerwriterqueue.h on the
\* block a thread advances to hold, an element is constructed only in a slot that
\* holds none, and only a slot that holds one is read.
THEOREM RingIsSound == Spec => []RingSound
  <1>1. QueueInv => RingSound
    <2> SUFFICES ASSUME QueueInv PROVE RingSound
      OBVIOUS
    <2>1. /\ QueueTypes /\ IndexInv /\ SlotInv /\ RingInv /\ ProducerInv /\ ConsumerInv
          /\ frontBlock \in DOMAIN blk /\ tailBlock \in DOMAIN blk /\ dest \in DOMAIN blk
          /\ frontBlock \in Live /\ Live \subseteq DOMAIN blk
          /\ \A b \in Live \ {frontBlock} : ~Empty(b)
      BY InvParts
    <2>2. TypeOK
      <3>1. ASSUME NEW b \in DOMAIN blk
            PROVE  /\ blk[b].data \in [Slots(blk[b].sizeMask + 1) -> 0 .. enqueued + 1]
                   /\ {blk[b].front, blk[b].tail, blk[b].localFront, blk[b].localTail}
                         \subseteq DOMAIN blk[b].data
                   /\ blk[b].next \in DOMAIN blk
        <4>1. /\ blk[b].sizeMask \in Nat /\ blk[b].next \in DOMAIN blk
              /\ blk[b].front \in 0..blk[b].sizeMask /\ blk[b].tail \in 0..blk[b].sizeMask
              /\ blk[b].localFront \in 0..blk[b].sizeMask
              /\ blk[b].localTail \in 0..blk[b].sizeMask
          BY <2>1, BlockFields
        <4>2. Slots(blk[b].sizeMask + 1) = 0..blk[b].sizeMask
          BY <4>1 DEF Slots
        <4>3. blk[b].data \in [0..blk[b].sizeMask -> 0..(enqueued + 1)]
          BY <2>1 DEF SlotInv
        <4> QED
          BY <4>1, <4>2, <4>3
      <3> QED
        BY <2>1, <3>1 DEF TypeOK, QueueTypes
    <2>3. AdvanceAsserts
      <3>1. consumer \in {"moveFront", "takeNext"} =>
              blk[blk[frontBlock].next].front # blk[blk[frontBlock].next].tail
        <4>1. ASSUME consumer \in {"moveFront", "takeNext"}
              PROVE  ~Empty(blk[frontBlock].next)
          BY <2>1, <4>1 DEF ConsumerInv, RingInv
        <4> QED
          BY <4>1 DEF Empty
      <3>2. producer = "construct" /\ dest # tailBlock => blk[dest].front = blk[dest].tail
        <4>1. ASSUME producer = "construct", dest # tailBlock
              PROVE  Empty(dest)
          BY <2>1, <4>1 DEF ProducerInv, Live, Ahead
        <4> QED
          BY <4>1 DEF Empty
      <3> QED
        BY <3>1, <3>2 DEF AdvanceAsserts
    <2>4. SlotsHandedOver
      <3>1. ASSUME producer = "construct"
            PROVE  blk[dest].data[blk[dest].tail] = Raw
        <4>1. /\ blk[dest].front \in 0..blk[dest].sizeMask
              /\ blk[dest].tail \in 0..blk[dest].sizeMask /\ blk[dest].sizeMask \in Nat
          BY <2>1, BlockFields
        <4>2. ~Filled(dest, blk[dest].tail)
          BY <4>1 DEF Filled, FilledAt
        <4> QED
          BY <2>1, <3>1, <4>1, <4>2 DEF SlotInv
      <3>2. ASSUME consumer \in {"take", "takeNext"}
            PROVE  blk[Source].data[blk[Source].front] # Raw
        <4>1. Source \in Live /\ ~Empty(Source) /\ consumer # "release"
          BY <3>2, SourceHoldsElement
        <4> QED
          BY <4>1, FrontHoldsElement
      <3> QED
        BY <3>1, <3>2 DEF SlotsHandedOver
    <2> QED
      BY <2>2, <2>3, <2>4 DEF RingSound
  <1> QED
    BY <1>1, QueueInvariance, PTL

\* The elements between the consumer's index and the producer's are in the order
\* they were enqueued in, none missing and none twice: in a block each is followed
\* by the next, the last of a block by the first of the block after it, and the
\* last of the tail block is the last one enqueued.
THEOREM ElementsInOrder == Spec => []InOrder
  <1>1. QueueInv => InOrder
    BY DEF QueueInv
  <1> QED
    BY <1>1, QueueInvariance, PTL
=============================================================================
