-------------------------- MODULE DataStore_proofs ---------------------------
(***************************************************************************)
(* Proofs about DataStore: the tracks stay sorted, no track changes while  *)
(* it is read, the clock counts the time that was not paused, and pruning  *)
(* keeps what is recent (StoreInv); what the readers are shown is of one   *)
(* frame, and the last entry of a track is the latest (FramesInv).         *)
(***************************************************************************)
EXTENDS DataStore, SequenceTheorems, FiniteSetTheorems, WellFoundedInduction, TLAPS

Entries == [time : Int, frame : Int]

\* The clock, also in the middle of stopRealTime() and before the first
\* processAll(): nothing has run by then, and what a pause has stored is nothing
\* unless the clock ran, which makes it a second pause.
ClockInv ==
    /\ now \in Nat /\ running \in Nat /\ mRealTimeOffset \in Nat
    /\ mRealTimeStart \in 0..now
    /\ mIsRealTimeStarted \in BOOLEAN
    /\ gui \in {"idle", "stopping"}
    /\ mPaused \in BOOLEAN /\ begun \in BOOLEAN
    /\ begunPaused \in BOOLEAN /\ pausedTwice \in BOOLEAN
    /\ ~begun => running = 0 /\ (~pausedTwice => mRealTimeOffset = 0)
    /\ begunPaused => /\ begun /\ mPaused /\ gui = "idle" /\ mIsRealTimeStarted
                      /\ running = 0 /\ (~pausedTwice => mRealTimeOffset = 0)
    /\ gui = "idle" /\ mPaused /\ ~begunPaused => ~mIsRealTimeStarted
    /\ begun /\ ~mPaused => mIsRealTimeStarted
    /\ gui = "stopping" => /\ mPaused
                           /\ mRealTimeOffset >= running
                           /\ ~pausedTwice => mRealTimeOffset = running
    /\ ClockCountsRunningTime

\* The lock is held by the threads that are where the code holds it.
LockInv ==
    /\ render \in {"idle", "lock", "prune", "gap", "draw"}
    /\ datavis \in {"idle", "sound", "gif", "formants"}
    /\ processing = "write" <=> writer = "processing"
    /\ render = "prune" <=> writer = "render"
    /\ render = "draw" => "render" \in readers
    /\ datavis # "idle" => "datavis" \in readers
    /\ writer # Nobody => readers = {}

\* What the processing thread is about to insert has a time and a frame.
ProcessingTypes ==
    /\ time \in Int
    /\ mTime \in [Processors -> Int]
    /\ turn \in 1..4
    /\ stamp \in Int
    /\ frame \in [Processors -> Int]

TracksInv ==
    /\ track \in [Tracks -> Seq(Entries)]
    /\ \A t \in Tracks : IsSorted(track[t])

\* The time the render thread has read is not later than the clock's.
RenderInv ==
    /\ realTimeEnd \in Int
    /\ torn \in BOOLEAN
    /\ ~torn /\ render # "idle" => realTimeEnd <= running

StoreInv == ClockInv /\ LockInv /\ ProcessingTypes /\ TracksInv /\ RenderInv

(* For what the readers are shown, which processor fills a track and whether it *)
(* has yet to insert its latest result there matter.                           *)

Owner(t) ==
    IF t[1] = "formant" THEN "formants"
    ELSE IF t[1] \in {"sound", "gif"} THEN "oscilloscope" ELSE t[1]

InPending(t) == \E i \in DOMAIN pending : pending[i] = t

Result == [time |-> stamp, frame |-> frame[Processor]]

\* The processing thread inserts one result in all the tracks of a processor.
PendingInv ==
    /\ pending \in Seq(Tracks)
    /\ \A i, j \in DOMAIN pending : pending[i] = pending[j] => i = j
    /\ \A i \in DOMAIN pending : Owner(pending[i]) = Processor
    /\ processing \in {"turn", "lock", "write"}
    /\ processing = "turn" => pending = <<>>
    /\ processing = "lock" => \A t \in Tracks : Owner(t) = Processor => InPending(t)
    /\ processing # "turn" /\ Processor # "spectrogram" =>
         stamp = mTime[Processor] + HalfLength[Processor]

\* Tracks of one processor differ by at most that result.
AlignInv ==
    \A t, u \in Tracks : Owner(t) = Owner(u) =>
        /\ (InPending(t) <=> InPending(u)) => track[t] = track[u]
        /\ ~InPending(t) /\ InPending(u) => track[t] = Insert(track[u], Result)

\* No entry is later than the next one will be, and the last is the latest.
LatestInv ==
    \A t \in Tracks : Owner(t) # "spectrogram" =>
        /\ \A i \in DOMAIN track[t] : track[t][i].time <= mTime[Owner(t)] + HalfLength[Owner(t)]
        /\ ~InPending(t) /\ track[t] # <<>> => Back(track[t]).frame = frame[Owner(t)]

\* The frame numbers of the processors that had their turn, and of the others.
Counted ==
    \A i \in 1..4 : /\ frame[mProcessors[i]] \in Nat
                    /\ i < turn \/ (i = turn /\ processing # "turn") =>
                         frame[mProcessors[i]] <= time + 1
                    /\ ~(i < turn \/ (i = turn /\ processing # "turn")) =>
                         frame[mProcessors[i]] <= time

\* The frames of the entries are frames that were processed.
EntriesCounted ==
    \A t \in Tracks : \A i \in DOMAIN track[t] : track[t][i].frame \in 1..(MaxTime + 1)

\* A processor has at most one frame a round.
RoundInv ==
    /\ time \in 0..MaxTime
    /\ \A p \in Processors : mTime[p] \in 0..time
    /\ Counted
    /\ processing # "turn" => time + Granularity <= MaxTime /\ frame[Processor] >= 1
    /\ EntriesCounted

\* The charts, also between the steps of the datavis thread.
ShownInv ==
    /\ shown \in [sound : 0..(MaxTime + 1), gif : 0..(MaxTime + 1),
                   formants : SUBSET (0..(MaxTime + 1))]
    /\ \E v \in 0..(MaxTime + 1) : shown.formants \subseteq {v}
    /\ datavis # "gif" /\ shown.sound # NoFrame => shown.sound = shown.gif
    /\ datavis = "gif" /\ shown.sound # NoFrame =>
         \/ Newest(<<"sound">>) = shown.sound
         \/ Newest(<<"sound">>) = NoFrame /\ shown.sound = shown.gif

\* The numbers of the clock, and who can hold the lock.
WhereInv ==
    /\ now \in 0..MaxNow /\ running \in 0..now
    /\ mRealTimeOffset \in 0..now /\ mRealTimeStart \in 0..now
    /\ gui = "idle" /\ mIsRealTimeStarted => mRealTimeOffset <= mRealTimeStart
    /\ writer \in {Nobody, "processing", "render"}
    /\ readers \subseteq {"render", "datavis"}
    /\ realTimeEnd \in Nat

FramesInv == PendingInv /\ AlignInv /\ LatestInv /\ RoundInv /\ ShownInv /\ WhereInv
-----------------------------------------------------------------------------
(* The operators of TimeTrack *)

\* The elements of a track.
LEMMA TrackElements ==
    ASSUME NEW s \in Seq(Entries)
    PROVE  /\ Len(s) \in Nat
           /\ DOMAIN s = 1..Len(s)
           /\ \A k \in 1..Len(s) : s[k] \in Entries /\ s[k].time \in Int
  <1>1. Len(s) \in Nat /\ DOMAIN s = 1..Len(s)
    BY LenProperties
  <1>2. \A k \in 1..Len(s) : s[k] \in Entries
    BY ElementOfSeq
  <1>3. \A e \in Entries : e.time \in Int
    BY DEF Entries
  <1> QED
    BY <1>1, <1>2, <1>3

\* In a sorted track there is a position for std::upper_bound to return.
LEMMA UpperBoundExists ==
    ASSUME NEW s \in Seq(Entries), IsSorted(s), NEW t \in Int
    PROVE  \E i \in 1..(Len(s) + 1) : \A k \in DOMAIN s : k < i <=> s[k].time <= t
  <1> DEFINE S == {k \in 1..(Len(s) + 1) : k = Len(s) + 1 \/ s[k].time > t}
  <1>1. /\ Len(s) \in Nat /\ DOMAIN s = 1..Len(s)
        /\ \A k \in 1..Len(s) : s[k].time \in Int
    BY TrackElements
  <1>2. S \subseteq Nat /\ S # {}
    <2>1. Len(s) + 1 \in S
      BY <1>1
    <2> QED
      BY <1>1, <2>1
  <1>3. PICK m \in S : \A y \in S : ~(<<y, m>> \in OpToRel(<, Nat))
    <2> HIDE DEF S
    <2> QED
      BY <1>2, NatLessThanWellFounded, WFMin, Zenon
  <1>4. \A y \in S : m <= y
    <2> SUFFICES ASSUME NEW y \in S, y < m
                 PROVE  FALSE
      BY <1>2
    <2>1. <<y, m>> \in Nat \X Nat /\ <<y, m>>[1] < <<y, m>>[2]
      BY <1>2
    <2>2. <<y, m>> \in OpToRel(<, Nat)
      BY <2>1, Zenon DEF OpToRel
    <2> QED
      BY <1>3, <2>2
  <1>5. \A k \in DOMAIN s : k < m <=> s[k].time <= t
    <2> SUFFICES ASSUME NEW k \in DOMAIN s
                 PROVE  k < m <=> s[k].time <= t
      OBVIOUS
    <2>1. k < m => s[k].time <= t
      BY <1>1, <1>4
    <2>2. ~(k < m) => s[k].time > t
      BY <1>1 DEF IsSorted
    <2> QED
      BY <1>1, <2>1, <2>2
  <1> QED
    BY <1>5

\* What std::upper_bound returns for a sorted track.
LEMMA UpperBoundIs ==
    ASSUME NEW s \in Seq(Entries), IsSorted(s), NEW t \in Int
    PROVE  /\ UpperBound(s, t) \in 1..(Len(s) + 1)
           /\ \A k \in DOMAIN s : k < UpperBound(s, t) <=> s[k].time <= t
  BY UpperBoundExists, Zenon DEF UpperBound

\* insert() keeps a sorted track sorted, loses nothing and adds its entry, at the
\* end if nothing is later.
LEMMA InsertKeeps ==
    ASSUME NEW s \in Seq(Entries), IsSorted(s), NEW e \in Entries
    PROVE  /\ Insert(s, e) \in Seq(Entries)
           /\ IsSorted(Insert(s, e))
           /\ \A k \in DOMAIN s : \E j \in DOMAIN Insert(s, e) : Insert(s, e)[j] = s[k]
           /\ \A j \in DOMAIN Insert(s, e) :
                Insert(s, e)[j] = e \/ \E k \in DOMAIN s : Insert(s, e)[j] = s[k]
           /\ (\A k \in DOMAIN s : s[k].time <= e.time) => Back(Insert(s, e)) = e
  <1> DEFINE i == UpperBound(s, e.time)
             a == SubSeq(s, 1, i - 1)
             b == SubSeq(s, i, Len(s))
             ae == a \o <<e>>
             r == ae \o b
             n == Len(s)
  <1>1. /\ n \in Nat /\ DOMAIN s = 1..n
        /\ \A k \in 1..n : s[k] \in Entries /\ s[k].time \in Int
        /\ e.time \in Int
    BY TrackElements DEF Entries
  <1>2. i \in 1..(n + 1) /\ \A k \in 1..n : k < i <=> s[k].time <= e.time
    BY <1>1, UpperBoundIs
  <1> HIDE DEF i
  <1>3. a \in Seq(Entries) /\ Len(a) = i - 1 /\ \A k \in 1..(i - 1) : a[k] = s[k]
    <2>1. \A k \in 1..(i - 1) : s[k] \in Entries
      BY <1>1, <1>2
    <2>2. /\ a \in Seq(Entries)
          /\ Len(a) = IF 1 <= i - 1 THEN (i - 1) - 1 + 1 ELSE 0
          /\ \A k \in 1..((i - 1) - 1 + 1) : a[k] = s[1 + k - 1]
      BY <1>2, <2>1, SubSeqProperties
    <2> HIDE DEF a
    <2> QED
      BY <1>2, <2>2
  <1>4. b \in Seq(Entries) /\ Len(b) = n - i + 1 /\ \A k \in 1..(n - i + 1) : b[k] = s[i + k - 1]
    <2>1. \A k \in i..n : s[k] \in Entries
      BY <1>1, <1>2
    <2>2. /\ b \in Seq(Entries)
          /\ Len(b) = IF i <= n THEN n - i + 1 ELSE 0
          /\ \A k \in 1..(n - i + 1) : b[k] = s[i + k - 1]
      BY <1>1, <1>2, <2>1, SubSeqProperties
    <2> HIDE DEF b
    <2> QED
      BY <1>1, <1>2, <2>2
  <1> HIDE DEF a, b
  <1>5. <<e>> \in Seq(Entries) /\ Len(<<e>>) = 1 /\ <<e>>[1] = e
    OBVIOUS
  <1>6. ae \in Seq(Entries) /\ Len(ae) = i
        /\ (\A k \in 1..i : ae[k] = IF k <= i - 1 THEN s[k] ELSE e)
    <2>1. /\ ae \in Seq(Entries) /\ Len(ae) = Len(a) + Len(<<e>>)
          /\ \A k \in 1..(Len(a) + Len(<<e>>)) :
                ae[k] = IF k <= Len(a) THEN a[k] ELSE <<e>>[k - Len(a)]
      BY <1>3, <1>5, ConcatProperties
    <2> HIDE DEF ae
    <2> QED
      BY <1>2, <1>3, <1>5, <2>1
  <1> HIDE DEF ae
  <1>7. /\ r \in Seq(Entries) /\ Len(r) = n + 1 /\ DOMAIN r = 1..(n + 1)
        /\ \A k \in 1..(n + 1) :
             r[k] = IF k < i THEN s[k] ELSE IF k = i THEN e ELSE s[k - 1]
    <2>1. /\ r \in Seq(Entries) /\ Len(r) = Len(ae) + Len(b)
          /\ \A k \in 1..(Len(ae) + Len(b)) :
                r[k] = IF k <= Len(ae) THEN ae[k] ELSE b[k - Len(ae)]
      BY <1>4, <1>6, ConcatProperties
    <2>2. DOMAIN r = 1..Len(r)
      BY <2>1, LenProperties
    <2> HIDE DEF r
    <2>3. Len(r) = n + 1
      BY <1>1, <1>2, <1>4, <1>6, <2>1
    <2>4. ASSUME NEW k \in 1..(n + 1)
          PROVE  r[k] = IF k < i THEN s[k] ELSE IF k = i THEN e ELSE s[k - 1]
      <3>1. CASE k <= i
        BY <1>1, <1>2, <1>4, <1>6, <2>1, <3>1
      <3>2. CASE k > i
        <4>1. k - i \in 1..(n - i + 1)
          BY <1>1, <1>2, <3>2
        <4>2. r[k] = b[k - i]
          BY <1>1, <1>2, <1>4, <1>6, <2>1, <3>2
        <4>3. b[k - i] = s[i + (k - i) - 1]
          BY <1>4, <4>1
        <4>4. i + (k - i) - 1 = k - 1
          BY <1>2
        <4> QED
          BY <1>2, <3>2, <4>2, <4>3, <4>4
      <3> QED
        BY <1>2, <3>1, <3>2
    <2> QED
      BY <2>1, <2>2, <2>3, <2>4
  <1>8. r = Insert(s, e)
    BY DEF r, ae, a, b, i, Insert, EmplacedAt
  <1> HIDE DEF r
  <1>9. IsSorted(r)
    <2> SUFFICES ASSUME NEW p \in 1..(n + 1), NEW q \in 1..(n + 1), p <= q
                 PROVE  r[p].time <= r[q].time
      BY <1>7 DEF IsSorted
    <2>1. \A k, l \in 1..n : k <= l => s[k].time <= s[l].time
      BY <1>1 DEF IsSorted
    <2>2. CASE p = q
      <3>1. r[p] \in Entries
        BY <1>7, ElementOfSeq
      <3> QED
        BY <2>2, <3>1 DEF Entries
    <2>3. CASE p < q /\ q < i
      BY <1>1, <1>2, <1>7, <2>1, <2>3
    <2>4. CASE p < q /\ q = i
      <3>1. r[q] = e /\ r[p] = s[p] /\ p \in 1..n
        BY <1>1, <1>2, <1>7, <2>4
      <3> QED
        BY <1>2, <2>4, <3>1
    <2>5. CASE p < q /\ i < q
      <3>1. q - 1 \in 1..n /\ r[q] = s[q - 1]
        BY <1>1, <1>2, <1>7, <2>5
      <3>2. CASE p < i
        <4>1. p \in 1..n /\ r[p] = s[p] /\ p <= q - 1
          BY <1>1, <1>2, <1>7, <2>5, <3>2
        <4> QED
          BY <2>1, <3>1, <4>1
      <3>3. CASE p = i
        <4>1. r[p] = e /\ ~(q - 1 < i)
          BY <1>1, <1>2, <1>7, <2>5, <3>3
        <4>2. ~(s[q - 1].time <= e.time)
          BY <1>2, <3>1, <4>1
        <4> QED
          BY <1>1, <3>1, <4>1, <4>2
      <3>4. CASE i < p
        <4>1. p - 1 \in 1..n /\ r[p] = s[p - 1] /\ p - 1 <= q - 1
          BY <1>1, <1>2, <1>7, <2>5, <3>4
        <4> QED
          BY <2>1, <3>1, <4>1
      <3> QED
        BY <1>2, <3>2, <3>3, <3>4
    <2> QED
      BY <1>2, <2>2, <2>3, <2>4, <2>5
  <1>10. \A k \in DOMAIN s : \E j \in DOMAIN r : r[j] = s[k]
    <2> SUFFICES ASSUME NEW k \in 1..n
                 PROVE  \E j \in 1..(n + 1) : r[j] = s[k]
      BY <1>1, <1>7
    <2>1. CASE k < i
      <3>1. k \in 1..(n + 1) /\ r[k] = s[k]
        BY <1>1, <1>2, <1>7, <2>1
      <3> QED
        BY <3>1
    <2>2. CASE ~(k < i)
      <3>1. k + 1 \in 1..(n + 1) /\ r[k + 1] = s[(k + 1) - 1] /\ (k + 1) - 1 = k
        BY <1>1, <1>2, <1>7, <2>2
      <3> QED
        BY <3>1
    <2> QED
      BY <2>1, <2>2
  <1>11. ASSUME NEW j \in DOMAIN r
         PROVE  r[j] = e \/ \E k \in DOMAIN s : r[j] = s[k]
    <2>1. j \in 1..(n + 1) /\ (j < i => j \in 1..n) /\ (j > i => j - 1 \in 1..n)
      BY <1>1, <1>2, <1>7
    <2> QED
      BY <1>1, <1>2, <1>7, <2>1
  <1>12. (\A k \in DOMAIN s : s[k].time <= e.time) => Back(r) = e
    <2> SUFFICES ASSUME \A k \in 1..n : s[k].time <= e.time PROVE Back(r) = e
      BY <1>1
    <2>1. i = n + 1
      <3>1. CASE n = 0
        BY <1>2, <3>1
      <3>2. CASE n # 0
        <4>1. n \in 1..n
          BY <1>1, <3>2
        <4>2. n < i
          BY <1>2, <4>1
        <4> QED
          BY <1>1, <1>2, <4>2
      <3> QED
        BY <3>1, <3>2
    <2>2. n + 1 \in 1..(n + 1) /\ ~(n + 1 < n + 1)
      BY <1>1
    <2> QED
      BY <1>7, <2>1, <2>2 DEF Back
  <1> QED
    BY <1>7, <1>8, <1>9, <1>10, <1>11, <1>12

\* remove_before() keeps a sorted track sorted, and all that is later, with the
\* last entry if anything is left.
LEMMA RemoveBeforeKeeps ==
    ASSUME NEW s \in Seq(Entries), IsSorted(s), NEW t \in Int
    PROVE  /\ RemoveBefore(s, t) \in Seq(Entries)
           /\ IsSorted(RemoveBefore(s, t))
           /\ \A k \in DOMAIN s : s[k].time > t =>
                \E j \in DOMAIN RemoveBefore(s, t) : RemoveBefore(s, t)[j] = s[k]
           /\ \A j \in DOMAIN RemoveBefore(s, t) : \E k \in DOMAIN s : RemoveBefore(s, t)[j] = s[k]
           /\ RemoveBefore(s, t) # <<>> => s # <<>> /\ Back(RemoveBefore(s, t)) = Back(s)
  <1> DEFINE i == UpperBound(s, t)
             n == Len(s)
             r == SubSeq(s, i, n)
  <1>1. /\ n \in Nat /\ DOMAIN s = 1..n
        /\ \A k \in 1..n : s[k] \in Entries /\ s[k].time \in Int
    BY TrackElements
  <1>2. i \in 1..(n + 1) /\ \A k \in 1..n : k < i <=> s[k].time <= t
    BY <1>1, UpperBoundIs
  <1>3. r = RemoveBefore(s, t)
    BY DEF RemoveBefore
  <1> HIDE DEF i
  <1>4. /\ r \in Seq(Entries) /\ Len(r) = n - i + 1 /\ DOMAIN r = 1..(n - i + 1)
        /\ \A k \in 1..(n - i + 1) : r[k] = s[i + k - 1]
    <2>1. \A k \in i..n : s[k] \in Entries
      BY <1>1, <1>2
    <2>2. /\ r \in Seq(Entries)
          /\ Len(r) = IF i <= n THEN n - i + 1 ELSE 0
          /\ \A k \in 1..(n - i + 1) : r[k] = s[i + k - 1]
      BY <1>1, <1>2, <2>1, SubSeqProperties
    <2>3. DOMAIN r = 1..Len(r)
      BY <2>2, LenProperties
    <2> HIDE DEF r
    <2> QED
      BY <1>1, <1>2, <2>2, <2>3
  <1> HIDE DEF r
  <1>5. IsSorted(r)
    <2> SUFFICES ASSUME NEW p \in 1..(n - i + 1), NEW q \in 1..(n - i + 1), p <= q
                 PROVE  r[p].time <= r[q].time
      BY <1>4 DEF IsSorted
    <2>1. i + p - 1 \in 1..n /\ i + q - 1 \in 1..n /\ i + p - 1 <= i + q - 1
      BY <1>1, <1>2
    <2>2. s[i + p - 1].time <= s[i + q - 1].time
      BY <1>1, <2>1 DEF IsSorted
    <2> QED
      BY <1>4, <2>2
  <1>6. ASSUME NEW k \in DOMAIN s, s[k].time > t
        PROVE  \E j \in DOMAIN r : r[j] = s[k]
    <2>1. k \in 1..n /\ ~(k < i)
      BY <1>1, <1>2, <1>6
    <2>2. k - i + 1 \in 1..(n - i + 1) /\ i + (k - i + 1) - 1 = k
      BY <1>1, <1>2, <2>1
    <2> QED
      BY <1>4, <2>2
  <1>7. ASSUME NEW j \in DOMAIN r
        PROVE  \E k \in DOMAIN s : r[j] = s[k]
    <2>1. j \in 1..(n - i + 1) /\ i + j - 1 \in 1..n
      BY <1>1, <1>2, <1>4
    <2> QED
      BY <1>1, <1>4, <2>1
  <1>8. r # <<>> => s # <<>> /\ Back(r) = Back(s)
    <2> SUFFICES ASSUME r # <<>> PROVE s # <<>> /\ Back(r) = Back(s)
      OBVIOUS
    <2>1. Len(r) # 0
      BY <1>4, EmptySeq
    <2>2. 1 \in 1..(n - i + 1)
      <3>1. n - i + 1 # 0
        BY <1>4, <2>1
      <3> QED
        BY <1>1, <1>2, <3>1
    <2>4. n - i + 1 \in 1..(n - i + 1) /\ i + (n - i + 1) - 1 = n /\ n # 0
      BY <1>1, <1>2, <2>2
    <2>5. r[n - i + 1] = s[n]
      BY <1>4, <2>4
    <2>6. s # <<>>
      <3>1. Len(<<>>) = 0
        OBVIOUS
      <3> QED
        BY <2>4, <3>1
    <2> QED
      BY <1>4, <2>5, <2>6 DEF Back
  <1> QED
    BY <1>3, <1>4, <1>5, <1>6, <1>7, <1>8
-----------------------------------------------------------------------------
(* The invariant, one lemma per part *)

\* A new store: empty tracks, a clock at zero, a free lock.
LEMMA StoreInitInv == Init => StoreInv
  <1> SUFFICES ASSUME Init
               PROVE  StoreInv
    OBVIOUS
  <1>1. ClockInv
    <2>1. /\ ~mIsRealTimeStarted /\ mIsRealTimeStarted \in BOOLEAN
          /\ ~mPaused /\ mPaused \in BOOLEAN
          /\ ~begun /\ begun \in BOOLEAN
          /\ ~begunPaused /\ begunPaused \in BOOLEAN
          /\ ~pausedTwice /\ pausedTwice \in BOOLEAN
      BY Zenon DEF Init
    <2> QED
      BY <2>1 DEF Init, ClockInv, ClockCountsRunningTime, GetRealTime
  <1>2. LockInv
    BY DEF Init, LockInv, Nobody
  <1>3. ProcessingTypes
    BY DEF Init, ProcessingTypes, NoFrame
  <1>4. TracksInv
    <2>1. track = [t \in Tracks |-> <<>>] /\ <<>> \in Seq(Entries)
      BY EmptySeq DEF Init
    <2>2. IsSorted(<<>>)
      BY DEF IsSorted
    <2> QED
      BY <2>1, <2>2 DEF TracksInv
  <1>5. RenderInv
    <2>1. torn \in BOOLEAN
      BY Zenon DEF Init
    <2> QED
      BY <2>1 DEF Init, RenderInv
  <1> QED
    BY <1>1, <1>2, <1>3, <1>4, <1>5 DEF StoreInv

\* Only Tick, the starts and the two halves of a stop matter to the clock.
LEMMA ClockStep == ASSUME ClockInv, [Next]_vars PROVE ClockInv'
  <1> USE DEF ClockInv, ClockCountsRunningTime, GetRealTime
  <1>1. CASE Tick
    <2>1. \/ ~begun /\ running' = running
          \/ mPaused /\ running' = running
          \/ begun /\ ~mPaused /\ running' = running + 1
      BY <1>1 DEF Tick
    <2>2. now' = now + 1 /\ UNCHANGED clockVars
      BY <1>1 DEF Tick
    <2> QED
      BY <2>1, <2>2 DEF clockVars, pauseVars
  <1>2. CASE FirstProcessAll
    <2>1. /\ begun' /\ begun' \in BOOLEAN
          /\ mIsRealTimeStarted' /\ mIsRealTimeStarted' \in BOOLEAN
          /\ begunPaused' \in BOOLEAN
          /\ begunPaused' <=> gui = "idle" /\ mPaused
          /\ (mPaused' <=> mPaused) /\ mPaused' \in BOOLEAN
          /\ (pausedTwice' <=> pausedTwice) /\ pausedTwice' \in BOOLEAN
      BY <1>2, Zenon DEF FirstProcessAll, StartRealTime
    <2>2. /\ ~begun /\ mRealTimeStart' = now
          /\ UNCHANGED <<now, running, mRealTimeOffset, gui>>
      BY <1>2 DEF FirstProcessAll, StartRealTime
    <2> QED
      BY <2>1, <2>2
  <1>3. CASE Resume
    <2>1. /\ ~mPaused' /\ mPaused' \in BOOLEAN
          /\ mIsRealTimeStarted' /\ mIsRealTimeStarted' \in BOOLEAN
          /\ ~begunPaused' /\ begunPaused' \in BOOLEAN
          /\ (begun' <=> begun) /\ begun' \in BOOLEAN
          /\ (pausedTwice' <=> pausedTwice) /\ pausedTwice' \in BOOLEAN
      BY <1>3, Zenon DEF Resume, StartRealTime
    <2>2. /\ gui = "idle" /\ mPaused /\ mRealTimeStart' = now
          /\ UNCHANGED <<now, running, mRealTimeOffset, gui>>
      BY <1>3 DEF Resume, StartRealTime
    <2> QED
      BY <2>1, <2>2
  <1>4. CASE StopRealTime
    <2>1. /\ mPaused' /\ mPaused' \in BOOLEAN
          /\ (mIsRealTimeStarted' <=> mIsRealTimeStarted) /\ mIsRealTimeStarted' \in BOOLEAN
          /\ (begunPaused' <=> begunPaused) /\ begunPaused' \in BOOLEAN
          /\ (begun' <=> begun) /\ begun' \in BOOLEAN
          /\ pausedTwice' \in BOOLEAN
          /\ pausedTwice' <=> pausedTwice \/ (~begun /\ mIsRealTimeStarted)
      BY <1>4, Zenon DEF StopRealTime
    <2>2. /\ gui = "idle" /\ ~mPaused /\ gui' = "stopping"
          /\ mRealTimeOffset' = GetRealTime
          /\ UNCHANGED <<now, running, mRealTimeStart>>
      BY <1>4 DEF StopRealTime
    <2> QED
      BY <2>1, <2>2
  <1>5. CASE ClearRealTime
    <2>1. /\ (mPaused' <=> mPaused) /\ mPaused' \in BOOLEAN
          /\ ~mIsRealTimeStarted' /\ mIsRealTimeStarted' \in BOOLEAN
          /\ (begunPaused' <=> begunPaused) /\ begunPaused' \in BOOLEAN
          /\ (begun' <=> begun) /\ begun' \in BOOLEAN
          /\ (pausedTwice' <=> pausedTwice) /\ pausedTwice' \in BOOLEAN
      BY <1>5, Zenon DEF ClearRealTime
    <2>2. /\ gui = "stopping" /\ gui' = "idle"
          /\ UNCHANGED <<now, running, mRealTimeStart, mRealTimeOffset>>
      BY <1>5 DEF ClearRealTime
    <2> QED
      BY <2>1, <2>2
  <1>6. CASE UNCHANGED <<now, running, clockVars>>
    BY <1>6 DEF clockVars, pauseVars
  <1>7. ProcessingStep \/ RenderStep \/ DatavisStep \/ UNCHANGED vars
            => UNCHANGED <<now, running, clockVars>>
    BY DEF ProcessingStep, SkipTurn, Process, ProcessBeginWrite, ProcessInsert, ProcessEndWrite,
           RenderStep, RenderTime, RenderBeginWrite, RenderPrune, RenderBeginRead, RenderDraw,
           DatavisStep, DatavisBeginRead, DatavisSound, DatavisGif, DatavisFormants, vars
  <1> QED
    BY <1>1, <1>2, <1>3, <1>4, <1>5, <1>6, <1>7 DEF Next, Clock

\* The lock changes hands as QReadWriteLock lets it.
LEMMA LockStep == ASSUME LockInv, [Next]_vars PROVE LockInv'
  <1> USE DEF LockInv, Nobody
  <1>1. CASE ProcessBeginWrite
    BY <1>1 DEF ProcessBeginWrite, BeginWrite, renderVars, datavisVars
  <1>2. CASE ProcessEndWrite
    BY <1>2 DEF ProcessEndWrite, EndWrite, renderVars, datavisVars
  <1>3. CASE SkipTurn \/ ProcessInsert
    BY <1>3 DEF SkipTurn, ProcessInsert, lockVars, renderVars, datavisVars
  <1>4. CASE Process
    BY <1>4 DEF Process, lockVars, renderVars, datavisVars
  <1>5. CASE RenderTime
    BY <1>5 DEF RenderTime, lockVars, processingVars, datavisVars
  <1>6. CASE RenderBeginWrite
    BY <1>6 DEF RenderBeginWrite, BeginWrite, processingVars, datavisVars
  <1>7. CASE RenderPrune
    BY <1>7 DEF RenderPrune, EndWrite, processingVars, datavisVars
  <1>8. CASE RenderBeginRead
    BY <1>8 DEF RenderBeginRead, BeginRead, processingVars, datavisVars
  <1>9. CASE RenderDraw
    BY <1>9 DEF RenderDraw, EndRead, processingVars, datavisVars
  <1>10. CASE DatavisBeginRead
    BY <1>10 DEF DatavisBeginRead, BeginRead, processingVars, renderVars
  <1>11. CASE DatavisSound \/ DatavisGif
    BY <1>11 DEF DatavisSound, DatavisGif, lockVars, processingVars, renderVars
  <1>12. CASE DatavisFormants
    BY <1>12 DEF DatavisFormants, EndRead, processingVars, renderVars
  <1>13. CASE Clock \/ UNCHANGED vars
    BY <1>13 DEF Clock, Tick, FirstProcessAll, Resume, StopRealTime, ClearRealTime, vars, lockVars,
                 processingVars, renderVars, datavisVars
  <1> QED
    BY <1>1, <1>2, <1>3, <1>4, <1>5, <1>6, <1>7, <1>8, <1>9, <1>10, <1>11, <1>12, <1>13
    DEF Next, ProcessingStep, RenderStep, DatavisStep

\* The loop over the processors has one in hand.
LEMMA ProcessorIsOne == ASSUME turn \in 1..4 PROVE Processor \in Processors
  BY DEF Processor, mProcessors, Processors

\* Going on to the next processor, or round to the first.
LEMMA NextTurnTypes ==
    ASSUME ProcessingTypes, NextTurn
    PROVE  time' \in Int /\ turn' \in 1..4
  <1>1. Len(mProcessors) = 4
    BY DEF mProcessors
  <1> QED
    BY <1>1, DataStoreAssumption DEF ProcessingTypes, NextTurn

\* The times of the results are numbers.
LEMMA ProcessingTypesStep == ASSUME ProcessingTypes, [Next]_vars PROVE ProcessingTypes'
  <1>1. CASE SkipTurn
    BY <1>1, NextTurnTypes DEF SkipTurn, ProcessingTypes
  <1>2. CASE Process
    <2>1. Processor \in Processors
      BY ProcessorIsOne DEF ProcessingTypes
    <2>2. \A x \in Stamps(Processor) : x \in Int
      BY <2>1, DataStoreAssumption DEF Stamps, SpectrumTimes, ProcessingTypes
    <2>3. stamp' \in Int
      BY <1>2, <2>2 DEF Process
    <2>4. frame' \in [Processors -> Int]
      BY <1>2, <2>1 DEF Process, ProcessingTypes
    <2> QED
      BY <1>2, <2>3, <2>4 DEF Process, ProcessingTypes
  <1>3. CASE ProcessBeginWrite \/ ProcessInsert
    BY <1>3 DEF ProcessBeginWrite, ProcessInsert, ProcessingTypes
  <1>4. CASE ProcessEndWrite
    <2>1. mTime' \in [Processors -> Int]
      BY <1>4, ProcessorIsOne DEF ProcessEndWrite, ProcessingTypes
    <2> QED
      BY <1>4, <2>1, NextTurnTypes DEF ProcessEndWrite, ProcessingTypes
  <1>5. CASE UNCHANGED processingVars
    BY <1>5 DEF processingVars, ProcessingTypes
  <1>6. Clock \/ RenderStep \/ DatavisStep \/ UNCHANGED vars => UNCHANGED processingVars
    BY DEF Clock, Tick, FirstProcessAll, Resume, StopRealTime, ClearRealTime, vars,
           RenderStep, RenderTime, RenderBeginWrite, RenderPrune, RenderBeginRead, RenderDraw,
           DatavisStep, DatavisBeginRead, DatavisSound, DatavisGif, DatavisFormants
  <1> QED
    BY <1>1, <1>2, <1>3, <1>4, <1>5, <1>6 DEF Next, ProcessingStep

\* The tracks change in ProcessInsert and RenderPrune only.
LEMMA WhoChangesTracks ==
    ASSUME [Next]_vars
    PROVE  ProcessInsert \/ RenderPrune \/ UNCHANGED track
  BY DEF Next, Clock, Tick, FirstProcessAll, Resume, StopRealTime, ClearRealTime, vars,
         ProcessingStep, SkipTurn, Process, ProcessBeginWrite, ProcessEndWrite,
         RenderStep, RenderTime, RenderBeginWrite, RenderBeginRead, RenderDraw,
         DatavisStep, DatavisBeginRead, DatavisSound, DatavisGif, DatavisFormants

\* What an insert makes of each track.
LEMMA InsertedTracks ==
    ASSUME TracksInv, ProcessingTypes, ProcessInsert
    PROVE  \E e \in Entries :
             /\ DOMAIN track' = Tracks
             /\ \A t \in Tracks : track'[t] = track[t] \/ track'[t] = Insert(track[t], e)
  <1> DEFINE e == [time |-> stamp, frame |-> frame[Processor]]
  <1>1. e \in Entries
    BY ProcessorIsOne DEF ProcessingTypes, Entries
  <1>2. track' = [track EXCEPT ![Head(pending)] = Insert(@, e)]
    BY DEF ProcessInsert
  <1> HIDE DEF e
  <1> QED
    BY <1>1, <1>2 DEF TracksInv

\* insert() and remove_before() keep the tracks sorted.
LEMMA TracksStep ==
    ASSUME TracksInv, ProcessingTypes, RenderInv, [Next]_vars
    PROVE  TracksInv'
  <1>1. CASE ProcessInsert
    <2>1. PICK e \in Entries :
             /\ DOMAIN track' = Tracks
             /\ \A t \in Tracks : track'[t] = track[t] \/ track'[t] = Insert(track[t], e)
      BY <1>1, InsertedTracks
    <2>2. \A t \in Tracks : track'[t] \in Seq(Entries) /\ IsSorted(track'[t])
      <3> SUFFICES ASSUME NEW t \in Tracks
                   PROVE  track'[t] \in Seq(Entries) /\ IsSorted(track'[t])
        OBVIOUS
      <3>1. track[t] \in Seq(Entries) /\ IsSorted(track[t])
        BY DEF TracksInv
      <3>2. Insert(track[t], e) \in Seq(Entries) /\ IsSorted(Insert(track[t], e))
        BY <3>1, InsertKeeps
      <3>3. CASE track'[t] = track[t]
        BY <3>1, <3>3
      <3>4. CASE track'[t] = Insert(track[t], e)
        BY <3>2, <3>4
      <3> QED
        BY <2>1, <3>3, <3>4
    <2>3. track' = [t \in Tracks |-> track'[t]]
      BY <1>1, <2>1 DEF ProcessInsert, TracksInv
    <2> QED
      BY <2>2, <2>3 DEF TracksInv
  <1>2. CASE RenderPrune
    <2> DEFINE old == realTimeEnd - KeepDuration
    <2>1. old \in Int
      BY DataStoreAssumption DEF RenderInv
    <2>2. track' = [t \in Tracks |-> IF t \in PrunedTracks THEN RemoveBefore(track[t], old)
                                     ELSE track[t]]
      BY <1>2 DEF RenderPrune
    <2> HIDE DEF old
    <2>3. \A t \in Tracks : track'[t] \in Seq(Entries) /\ IsSorted(track'[t])
      BY <2>1, <2>2, RemoveBeforeKeeps DEF TracksInv
    <2> QED
      BY <2>2, <2>3 DEF TracksInv
  <1>3. CASE UNCHANGED track
    BY <1>3 DEF TracksInv
  <1> QED
    BY <1>1, <1>2, <1>3, WhoChangesTracks

\* The clock does not run backwards under the time that was read.
LEMMA RenderInvStep == ASSUME ClockInv, RenderInv, [Next]_vars PROVE RenderInv'
  <1>1. GetRealTime \in Int
    BY DEF ClockInv, GetRealTime
  <1>2. CASE RenderTime
    <2>1. torn' \in BOOLEAN /\ (torn' <=> GetRealTime > running)
      <3>1. torn' = (GetRealTime > running)
        BY <1>2 DEF RenderTime
      <3>2. (GetRealTime > running) \in BOOLEAN
        BY <1>1 DEF ClockInv
      <3> QED
        BY <3>1, <3>2, Zenon
    <2>2. running \in Int /\ running' = running /\ realTimeEnd' = GetRealTime
      BY <1>2 DEF RenderTime, ClockInv
    <2> QED
      BY <1>1, <2>1, <2>2 DEF RenderInv
  <1>3. CASE RenderDraw
    <2>1. torn' \in BOOLEAN
      BY <1>3, Zenon DEF RenderDraw
    <2> QED
      BY <1>3, <2>1 DEF RenderDraw, RenderInv
  <1>4. CASE RenderBeginWrite \/ RenderPrune \/ RenderBeginRead
    BY <1>4 DEF RenderBeginWrite, RenderPrune, RenderBeginRead, RenderInv
  <1>5. CASE UNCHANGED renderVars /\ (running' = running \/ running' = running + 1)
    BY <1>5 DEF renderVars, RenderInv, ClockInv
  <1>6. Clock \/ ProcessingStep \/ DatavisStep \/ UNCHANGED vars
            => UNCHANGED renderVars /\ (running' = running \/ running' = running + 1)
    BY DEF Clock, Tick, FirstProcessAll, Resume, StopRealTime, ClearRealTime, vars,
           ProcessingStep, SkipTurn, Process, ProcessBeginWrite, ProcessInsert, ProcessEndWrite,
           DatavisStep, DatavisBeginRead, DatavisSound, DatavisGif, DatavisFormants
  <1> QED
    BY <1>2, <1>3, <1>4, <1>5, <1>6 DEF Next, RenderStep

\* The parts together are an invariant of the store.
THEOREM StoreInvariance == Spec => []StoreInv
  <1>1. Init => StoreInv
    BY StoreInitInv
  <1>2. StoreInv /\ [Next]_vars => StoreInv'
    BY ClockStep, LockStep, ProcessingTypesStep, TracksStep, RenderInvStep DEF StoreInv
  <1> QED
    BY <1>1, <1>2, PTL DEF Spec
-----------------------------------------------------------------------------
(* The properties *)

\* std::upper_bound and std::lower_bound are only called on sorted tracks, for
\* any spacings, FFT delays and numbers of formants.
THEOREM TracksStaySorted == Spec => []TracksSorted
  <1>1. StoreInv => TracksSorted
    BY DEF StoreInv, TracksInv, TracksSorted
  <1> QED
    BY <1>1, StoreInvariance, PTL

\* The clock counts the time since the first processAll() during which the
\* program was not paused, but for a user who pauses before that: until the end of
\* the pause in which it came, and for good if it was the second pause.
THEOREM ClockIsRunningTime == Spec => []ClockCountsRunningTime
  <1>1. StoreInv => ClockCountsRunningTime
    BY DEF StoreInv, ClockInv, ClockCountsRunningTime
  <1> QED
    BY <1>1, StoreInvariance, PTL

\* No track changes while render() or the datavis thread reads it.
THEOREM ReadersSeeStableTracks == Spec => ReadsAreStable
  <1>1. StoreInv /\ [Next]_vars =>
          [render = "draw" \/ datavis \in {"sound", "gif", "formants"} => UNCHANGED track]_vars
    <2> SUFFICES ASSUME StoreInv, [Next]_vars,
                        render = "draw" \/ datavis \in {"sound", "gif", "formants"}
                 PROVE  UNCHANGED track
      OBVIOUS
    <2>1. readers # {}
      BY DEF StoreInv, LockInv
    <2>2. writer = Nobody
      BY <2>1 DEF StoreInv, LockInv
    <2>3. ~ProcessInsert /\ ~RenderPrune
      BY <2>2 DEF StoreInv, LockInv, Nobody, ProcessInsert, RenderPrune
    <2> QED
      BY <2>3, WhoChangesTracks
  <1> QED
    BY <1>1, StoreInvariance, PTL DEF Spec, ReadsAreStable

\* render() drops nothing of the last KeepDuration, and no insert drops anything.
THEOREM PruningKeepsRecent == Spec => PruneKeepsRecent
  <1>1. StoreInv /\ [Next]_vars =>
          [~torn =>
             \A t \in Tracks : \A i \in DOMAIN track[t] :
                 track[t][i].time > running - KeepDuration
                     => \E j \in DOMAIN track'[t] : track'[t][j] = track[t][i]]_vars
    <2> SUFFICES ASSUME StoreInv, [Next]_vars, ~torn,
                        NEW t \in Tracks, NEW i \in DOMAIN track[t],
                        track[t][i].time > running - KeepDuration
                 PROVE  \E j \in DOMAIN track'[t] : track'[t][j] = track[t][i]
      OBVIOUS
    <2>1. track[t] \in Seq(Entries) /\ IsSorted(track[t])
      BY DEF StoreInv, TracksInv
    <2>2. CASE ProcessInsert
      <3>1. PICK e \in Entries : track'[t] = track[t] \/ track'[t] = Insert(track[t], e)
        BY <2>2, InsertedTracks DEF StoreInv
      <3>2. \E j \in DOMAIN Insert(track[t], e) : Insert(track[t], e)[j] = track[t][i]
        BY <2>1, InsertKeeps
      <3>3. CASE track'[t] = track[t]
        BY <3>3
      <3>4. CASE track'[t] = Insert(track[t], e)
        BY <3>2, <3>4
      <3> QED
        BY <3>1, <3>3, <3>4
    <2>3. CASE RenderPrune
      <3> DEFINE old == realTimeEnd - KeepDuration
      <3>1. old \in Int /\ old <= running - KeepDuration /\ running - KeepDuration \in Int
        BY <2>3, DataStoreAssumption DEF StoreInv, RenderInv, ClockInv, RenderPrune
      <3>2. track[t][i].time \in Int
        BY <2>1, TrackElements
      <3>3. track[t][i].time > old
        BY <3>1, <3>2
      <3>4. track'[t] = IF t \in PrunedTracks THEN RemoveBefore(track[t], old) ELSE track[t]
        BY <2>3 DEF RenderPrune
      <3> HIDE DEF old
      <3>5. CASE t \in PrunedTracks
        <4>1. \E j \in DOMAIN RemoveBefore(track[t], old) :
                 RemoveBefore(track[t], old)[j] = track[t][i]
          BY <2>1, <3>1, <3>3, RemoveBeforeKeeps
        <4> QED
          BY <3>4, <3>5, <4>1
      <3>6. CASE t \notin PrunedTracks
        BY <3>4, <3>6
      <3> QED
        BY <3>5, <3>6
    <2>4. CASE UNCHANGED track
      BY <2>4
    <2> QED
      BY <2>2, <2>3, <2>4, WhoChangesTracks
  <1> QED
    BY <1>1, StoreInvariance, PTL DEF Spec, PruneKeepsRecent
-----------------------------------------------------------------------------
(* What the readers are shown: the tracks of a processor *)

\* The processors and the tracks each fills.
LEMMA OwnerIs ==
    /\ \A t \in Tracks : Owner(t) \in Processors
    /\ \A t \in FormantNames : t \in Tracks /\ Owner(t) = "formants"
    /\ {<<"spectrogram">>, <<"pitch">>, <<"sound">>, <<"gif">>} \subseteq Tracks
    /\ Owner(<<"spectrogram">>) = "spectrogram" /\ Owner(<<"pitch">>) = "pitch"
    /\ Owner(<<"sound">>) = "oscilloscope" /\ Owner(<<"gif">>) = "oscilloscope"
  <1>1. \A t \in FormantNames : t[1] = "formant"
    BY DEF FormantNames, mFormantTracks
  <1> QED
    BY <1>1 DEF Owner, Tracks, Processors

\* render() prunes all the tracks of a processor or none.
LEMMA PrunedTogether ==
    ASSUME NEW t \in Tracks, NEW u \in Tracks, Owner(t) = Owner(u)
    PROVE  t \in PrunedTracks <=> u \in PrunedTracks
  <1>1. \A v \in Tracks : v \in PrunedTracks <=> Owner(v) \in {"spectrogram", "oscilloscope"}
    <2>1. \A v \in FormantNames : v \notin PrunedTracks
      BY DEF FormantNames, mFormantTracks, PrunedTracks
    <2> QED
      BY <2>1, OwnerIs DEF Tracks, PrunedTracks
  <1> QED
    BY <1>1

\* The two loops of the formant processor insert in every formant track once,
\* however many formants there are.
LEMMA FormantsWritten ==
    ASSUME NEW n \in Nat
    PROVE  LET w == FoundFormants(n) \o MissingFormants(n)
           IN  /\ w \in Seq(FormantNames)
               /\ DOMAIN w = 1..FormantTracks
               /\ \A k \in 1..FormantTracks : w[k] = <<"formant", k>>
  <1> DEFINE F == FormantTracks
             s == mFormantTracks
             m == IF n <= F THEN n ELSE F
             a == SubSeq(s, 1, m)
             b == SubSeq(s, n + 1, F)
             w == a \o b
  <1>1. F \in Nat
    BY DataStoreAssumption
  <1>2. /\ \A k \in 1..F : s[k] = <<"formant", k>> /\ s[k] \in FormantNames
        /\ s \in Seq(FormantNames) /\ Len(s) = F
    <2>1. s = [k \in 1..F |-> <<"formant", k>>] /\ \A k \in 1..F : s[k] \in FormantNames
      BY DEF mFormantTracks, FormantNames
    <2>2. s \in [1..F -> FormantNames]
      BY <2>1
    <2> QED
      BY <1>1, <2>1, <2>2, LenProperties, SeqDef
  <1> HIDE DEF s
  <1>3. a \in Seq(FormantNames) /\ Len(a) = m /\ \A k \in 1..m : a[k] = s[k]
    <2>1. m \in 0..F /\ \A k \in 1..m : s[k] \in FormantNames
      BY <1>1, <1>2
    <2> HIDE DEF m
    <2>2. /\ a \in Seq(FormantNames)
          /\ Len(a) = IF 1 <= m THEN m - 1 + 1 ELSE 0
          /\ \A k \in 1..(m - 1 + 1) : a[k] = s[1 + k - 1]
      BY <1>2, <2>1, SubSeqProperties
    <2> HIDE DEF a
    <2> QED
      BY <2>1, <2>2
  <1>4. b \in Seq(FormantNames) /\ Len(b) = F - m /\ (\A k \in 1..(F - m) : b[k] = s[m + k])
    <2>1. \A k \in (n + 1)..F : s[k] \in FormantNames
      BY <1>1, <1>2
    <2>2. /\ b \in Seq(FormantNames)
          /\ Len(b) = IF n + 1 <= F THEN F - (n + 1) + 1 ELSE 0
          /\ \A k \in 1..(F - (n + 1) + 1) : b[k] = s[(n + 1) + k - 1]
      BY <1>1, <1>2, <2>1, SubSeqProperties
    <2> HIDE DEF b
    <2>3. Len(b) = F - m
      BY <1>1, <2>2
    <2>4. ASSUME NEW k \in 1..(F - m) PROVE b[k] = s[m + k]
      <3>1. k \in 1..(F - (n + 1) + 1) /\ (n + 1) + k - 1 = m + k
        BY <1>1
      <3>2. b[k] = s[(n + 1) + k - 1]
        BY <2>2, <3>1
      <3> QED
        BY <3>1, <3>2
    <2> QED
      BY <2>2, <2>3, <2>4
  <1>5. m \in 0..F
    BY <1>1
  <1> HIDE DEF m, a, b
  <1>6. /\ w \in Seq(FormantNames) /\ Len(w) = Len(a) + Len(b)
        /\ \A k \in 1..(Len(a) + Len(b)) : w[k] = IF k <= Len(a) THEN a[k] ELSE b[k - Len(a)]
    BY <1>3, <1>4, ConcatProperties
  <1>7. DOMAIN w = 1..Len(w)
    BY <1>6, LenProperties
  <1> HIDE DEF w
  <1>8. Len(w) = F
    BY <1>1, <1>3, <1>4, <1>5, <1>6
  <1>9. ASSUME NEW k \in 1..F PROVE w[k] = s[k]
    <2>1. CASE k <= m
      BY <1>1, <1>3, <1>4, <1>5, <1>6, <2>1
    <2>2. CASE ~(k <= m)
      <3>1. k - m \in 1..(F - m) /\ m + (k - m) = k
        BY <1>1, <1>5, <2>2
      <3>2. w[k] = b[k - m]
        BY <1>1, <1>3, <1>4, <1>5, <1>6, <2>2
      <3>3. b[k - m] = s[m + (k - m)]
        BY <1>4, <3>1
      <3> QED
        BY <3>1, <3>2, <3>3
    <2> QED
      BY <2>1, <2>2
  <1>10. w = FoundFormants(n) \o MissingFormants(n)
    BY DEF w, a, b, s, m, FoundFormants, MissingFormants
  <1> QED
    BY <1>2, <1>6, <1>7, <1>8, <1>9, <1>10

\* A processor inserts once in each of its tracks, and in no other.
LEMMA WrittenIs ==
    ASSUME NEW p \in Processors, NEW n \in Nat
    PROVE  /\ Written(p, n) \in Seq(Tracks)
           /\ \A i, j \in DOMAIN Written(p, n) : Written(p, n)[i] = Written(p, n)[j] => i = j
           /\ \A i \in DOMAIN Written(p, n) : Owner(Written(p, n)[i]) = p
           /\ \A t \in Tracks : Owner(t) = p => \E i \in DOMAIN Written(p, n) : Written(p, n)[i] = t
  <1> DEFINE w == Written(p, n)
  <1> SUFFICES /\ w \in Seq(Tracks)
               /\ \A i, j \in DOMAIN w : w[i] = w[j] => i = j
               /\ \A i \in DOMAIN w : Owner(w[i]) = p
               /\ \A t \in Tracks : Owner(t) = p => \E i \in DOMAIN w : w[i] = t
    OBVIOUS
  <1>1. CASE p = "formants"
    <2>1. w = FoundFormants(n) \o MissingFormants(n)
      BY <1>1 DEF Written
    <2>2. /\ w \in Seq(FormantNames) /\ DOMAIN w = 1..FormantTracks
          /\ \A k \in 1..FormantTracks : w[k] = <<"formant", k>>
      BY <2>1, FormantsWritten
    <2> HIDE DEF w
    <2>3. w \in Seq(Tracks)
      <3>1. FormantNames \subseteq Tracks
        BY DEF Tracks
      <3> QED
        BY <2>2, <3>1
    <2>4. \A i, j \in DOMAIN w : w[i] = w[j] => i = j
      BY <2>2
    <2>5. \A k \in 1..FormantTracks : w[k] \in FormantNames
      BY <2>2 DEF FormantNames, mFormantTracks
    <2>6. ASSUME NEW t \in Tracks, Owner(t) = p PROVE \E i \in DOMAIN w : w[i] = t
      <3>1. t \in FormantNames
        BY <1>1, <2>6, OwnerIs DEF Tracks
      <3> QED
        BY <2>2, <3>1 DEF FormantNames, mFormantTracks
    <2> QED
      BY <1>1, <2>2, <2>3, <2>4, <2>5, <2>6, OwnerIs
  <1>2. CASE p = "spectrogram" \/ p = "pitch"
    <2>1. w = << <<p>> >>
      BY <1>2 DEF Written
    <2>2. <<p>> \in Tracks /\ Owner(<<p>>) = p
      BY <1>2, OwnerIs
    <2>3. \A t \in Tracks : Owner(t) = p => t = <<p>>
      BY <1>2, OwnerIs DEF Tracks
    <2> HIDE DEF w
    <2> QED
      BY <2>1, <2>2, <2>3
  <1>3. CASE p = "oscilloscope"
    <2>1. w = << <<"sound">>, <<"gif">> >>
      BY <1>3 DEF Written
    <2>2. \A t \in Tracks : Owner(t) = p => t \in {<<"sound">>, <<"gif">>}
      BY <1>3, OwnerIs DEF Tracks
    <2> HIDE DEF w
    <2>3. DOMAIN w = 1..2 /\ w[1] = <<"sound">> /\ w[2] = <<"gif">> /\ <<"sound">> # <<"gif">>
      BY <2>1
    <2>4. w \in Seq(Tracks)
      BY <2>1, OwnerIs
    <2>5. \A t \in Tracks : Owner(t) = p => \E i \in 1..2 : w[i] = t
      BY <2>2, <2>3
    <2> QED
      BY <1>3, <2>3, <2>4, <2>5, OwnerIs
  <1> QED
    BY <1>1, <1>2, <1>3 DEF Processors
-----------------------------------------------------------------------------
(* What the readers are shown: the steps of the processing thread *)

\* An insert takes the first of the pending tracks out.
LEMMA InsertTakes ==
    ASSUME PendingInv, ProcessInsert
    PROVE  /\ pending' \in Seq(Tracks)
           /\ Head(pending) \in Tracks /\ InPending(Head(pending))
           /\ Owner(Head(pending)) = Processor
           /\ \A i \in DOMAIN pending' : i + 1 \in DOMAIN pending /\ pending'[i] = pending[i + 1]
           /\ \A t \in Tracks : InPending(t)' <=> InPending(t) /\ t # Head(pending)
  <1> DEFINE s == pending
             r == pending'
  <1>1. s \in Seq(Tracks) /\ s # <<>> /\ r = Tail(s)
    BY DEF PendingInv, ProcessInsert
  <1>2. PICK n \in Nat : n = Len(s)
    BY <1>1, LenProperties
  <1>3. n # 0 /\ DOMAIN s = 1..n
    BY <1>1, <1>2, EmptySeq, LenProperties
  <1>4. Head(s) = s[1] /\ 1 \in 1..n /\ s[1] \in Tracks
    BY <1>1, <1>2, <1>3, HeadTailProperties, ElementOfSeq
  <1>5. r \in Seq(Tracks) /\ DOMAIN r = 1..(n - 1) /\ \A i \in 1..(n - 1) : r[i] = s[i + 1]
    <2>1. r \in Seq(Tracks) /\ Len(r) = n - 1 /\ \A i \in 1..(n - 1) : r[i] = s[i + 1]
      BY <1>1, <1>2, HeadTailProperties
    <2>2. DOMAIN r = 1..Len(r)
      BY <2>1, LenProperties
    <2> QED
      BY <2>1, <2>2
  <1>6. \A i \in 1..(n - 1) : i + 1 \in 1..n
    BY <1>2
  <1>7. ASSUME NEW t \in Tracks
        PROVE  InPending(t)' <=> InPending(t) /\ t # Head(pending)
    <2>1. InPending(t)' <=> \E i \in 1..(n - 1) : s[i + 1] = t
      BY <1>5 DEF InPending
    <2>2. InPending(t) <=> \E i \in 1..n : s[i] = t
      BY <1>3 DEF InPending
    <2>3. ASSUME NEW i \in 1..(n - 1), s[i + 1] = t
          PROVE  InPending(t) /\ t # Head(pending)
      <3>1. i + 1 \in 1..n /\ i + 1 # 1
        BY <1>2
      <3>2. s[i + 1] # s[1]
        BY <1>3, <1>4, <3>1 DEF PendingInv
      <3> QED
        BY <1>4, <2>2, <2>3, <3>1, <3>2
    <2>4. ASSUME NEW i \in 1..n, s[i] = t, t # Head(pending)
          PROVE  InPending(t)'
      <3>1. i # 1
        BY <1>4, <2>4
      <3>2. i - 1 \in 1..(n - 1) /\ (i - 1) + 1 = i
        BY <1>2, <3>1
      <3> QED
        BY <2>1, <2>4, <3>2
    <2> QED
      BY <2>1, <2>2, <2>3, <2>4
  <1>8. InPending(Head(pending)) /\ Owner(Head(pending)) = Processor
    BY <1>3, <1>4 DEF PendingInv, InPending
  <1> QED
    BY <1>3, <1>4, <1>5, <1>6, <1>7, <1>8

\* Nothing is pending but of the processor in hand, and then everything or, while
\* the lock is held, some of it.
LEMMA PendingTogether ==
    ASSUME PendingInv, processing # "write",
           NEW t \in Tracks, NEW u \in Tracks, Owner(t) = Owner(u)
    PROVE  InPending(t) <=> InPending(u)
  <1>1. CASE processing = "turn"
    BY <1>1 DEF PendingInv, InPending
  <1>2. CASE processing = "lock"
    <2>1. \A v \in Tracks : InPending(v) => Owner(v) = Processor
      BY DEF PendingInv, InPending
    <2> QED
      BY <1>2, <2>1 DEF PendingInv
  <1> QED
    BY <1>1, <1>2 DEF PendingInv

\* What a step changes of the processing thread's state.
LEMMA WhoProcesses ==
    ASSUME [Next]_vars
    PROVE  ProcessingStep \/ UNCHANGED processingVars
  BY DEF Next, Clock, Tick, FirstProcessAll, Resume, StopRealTime, ClearRealTime, vars,
         RenderStep, RenderTime, RenderBeginWrite, RenderPrune, RenderBeginRead, RenderDraw,
         DatavisStep, DatavisBeginRead, DatavisSound, DatavisGif, DatavisFormants

\* Once the analysis of a frame is done, all the tracks of its processor wait for
\* the result, and no other.
LEMMA ProcessPends ==
    ASSUME ProcessingTypes, Process
    PROVE  /\ pending' \in Seq(Tracks)
           /\ \A i, j \in DOMAIN pending' : pending'[i] = pending'[j] => i = j
           /\ \A i \in DOMAIN pending' : Owner(pending'[i]) = Processor
           /\ \A t \in Tracks : InPending(t)' <=> Owner(t) = Processor
           /\ Processor # "spectrogram" => stamp' = mTime[Processor] + HalfLength[Processor]
  <1>1. Processor \in Processors
    BY ProcessorIsOne DEF ProcessingTypes
  <1>2. PICK n \in 0..MaxFormants : pending' = Written(Processor, n)
    BY DEF Process
  <1>3. n \in Nat
    BY <1>2, DataStoreAssumption
  <1>4. /\ pending' \in Seq(Tracks)
        /\ \A i, j \in DOMAIN pending' : pending'[i] = pending'[j] => i = j
        /\ \A i \in DOMAIN pending' : Owner(pending'[i]) = Processor
        /\ \A t \in Tracks : Owner(t) = Processor => \E i \in DOMAIN pending' : pending'[i] = t
    BY <1>1, <1>2, <1>3, WrittenIs
  <1>5. \A t \in Tracks : InPending(t)' <=> Owner(t) = Processor
    BY <1>4 DEF InPending
  <1>6. Processor # "spectrogram" => stamp' = mTime[Processor] + HalfLength[Processor]
    BY DEF Process, Stamps
  <1> QED
    BY <1>4, <1>5, <1>6

\* The results go where they should.
LEMMA PendingStep ==
    ASSUME ProcessingTypes, PendingInv, [Next]_vars
    PROVE  PendingInv'
  <1>1. CASE SkipTurn \/ ProcessEndWrite
    <2>1. pending = <<>> /\ pending' = <<>> /\ processing' = "turn"
      BY <1>1 DEF SkipTurn, ProcessEndWrite, PendingInv
    <2>2. pending' \in Seq(Tracks) /\ DOMAIN pending' = {}
      BY <2>1, EmptySeq
    <2> QED
      BY <2>1, <2>2 DEF PendingInv
  <1>2. CASE Process
    <2>1. Processor' = Processor /\ processing' = "lock" /\ UNCHANGED mTime
      BY <1>2 DEF Process, Processor
    <2> QED
      BY <1>2, <2>1, ProcessPends DEF PendingInv
  <1>3. CASE ProcessBeginWrite
    <2>1. UNCHANGED <<Processor, pending, mTime, stamp>> /\ processing' = "write"
          /\ processing = "lock"
      BY <1>3 DEF ProcessBeginWrite, Processor
    <2> QED
      BY <2>1 DEF PendingInv
  <1>4. CASE ProcessInsert
    <2>1. UNCHANGED <<Processor, mTime, stamp>> /\ processing' = "write" /\ processing = "write"
      BY <1>4 DEF ProcessInsert, Processor
    <2>2. /\ pending' \in Seq(Tracks)
          /\ \A i \in DOMAIN pending' : i + 1 \in DOMAIN pending /\ pending'[i] = pending[i + 1]
      BY <1>4, InsertTakes
    <2>3. DOMAIN pending' \subseteq Nat
      BY <2>2, LenProperties
    <2>4. ASSUME NEW i \in DOMAIN pending', NEW j \in DOMAIN pending', pending'[i] = pending'[j]
          PROVE  i = j
      <3>1. i + 1 = j + 1
        BY <2>2, <2>4 DEF PendingInv
      <3> QED
        BY <2>3, <3>1
    <2>5. \A i \in DOMAIN pending' : Owner(pending'[i]) = Processor
      BY <2>2 DEF PendingInv
    <2> QED
      BY <2>1, <2>2, <2>4, <2>5 DEF PendingInv
  <1>5. CASE UNCHANGED processingVars
    BY <1>5 DEF processingVars, PendingInv, Processor, InPending
  <1> QED
    BY <1>1, <1>2, <1>3, <1>4, <1>5, WhoProcesses DEF ProcessingStep

\* What an insert does to a track.
LEMMA InsertWrites ==
    ASSUME TracksInv, PendingInv, ProcessInsert, NEW t \in Tracks
    PROVE  track'[t] = IF t = Head(pending) THEN Insert(track[t], Result) ELSE track[t]
  <1>1. Head(pending) \in Tracks
    BY InsertTakes
  <1>2. track' = [track EXCEPT ![Head(pending)] = Insert(@, Result)]
    BY DEF ProcessInsert, Result
  <1> QED
    BY <1>1, <1>2 DEF TracksInv

\* The result does not change while it is inserted.
LEMMA ResultStays == ASSUME UNCHANGED <<stamp, frame, turn>> PROVE Result' = Result
  BY DEF Result, Processor

\* Pruning and inserting keep the tracks of a processor alike.
LEMMA AlignStep ==
    ASSUME ProcessingTypes, LockInv, TracksInv, PendingInv, AlignInv, [Next]_vars
    PROVE  AlignInv'
  <1> SUFFICES ASSUME NEW t \in Tracks, NEW u \in Tracks, Owner(t) = Owner(u)
               PROVE  /\ (InPending(t)' <=> InPending(u)') => track'[t] = track'[u]
                      /\ ~InPending(t)' /\ InPending(u)' =>
                            track'[t] = Insert(track'[u], Result')
    BY DEF AlignInv
  <1>1. /\ (InPending(t) <=> InPending(u)) => track[t] = track[u]
        /\ ~InPending(t) /\ InPending(u) => track[t] = Insert(track[u], Result)
        /\ ~InPending(u) /\ InPending(t) => track[u] = Insert(track[t], Result)
    BY DEF AlignInv
  <1>2. CASE processing = "turn" /\ UNCHANGED track /\ (InPending(t)' <=> InPending(u)')
    <2>1. InPending(t) <=> InPending(u)
      BY <1>2, PendingTogether
    <2> QED
      BY <1>1, <1>2, <2>1
  <1>3. CASE SkipTurn
    <2>1. pending' = <<>>
      BY <1>3 DEF SkipTurn, PendingInv
    <2>2. InPending(t)' <=> InPending(u)'
      BY <2>1 DEF InPending
    <2> QED
      BY <1>2, <1>3, <2>2 DEF SkipTurn
  <1>4. CASE Process
    <2>1. InPending(t)' <=> InPending(u)'
      BY <1>4, ProcessPends
    <2> QED
      BY <1>2, <1>4, <2>1 DEF Process
  <1>5. CASE ProcessEndWrite
    <2>1. pending = <<>> /\ pending' = <<>> /\ UNCHANGED track
      BY <1>5 DEF ProcessEndWrite
    <2>2. ~InPending(t) /\ ~InPending(u) /\ ~InPending(t)' /\ ~InPending(u)'
      BY <2>1 DEF InPending
    <2> QED
      BY <1>1, <2>1, <2>2
  <1>6. CASE UNCHANGED <<track, pending, stamp, frame, turn>>
    <2>1. (InPending(t)' <=> InPending(t)) /\ (InPending(u)' <=> InPending(u))
      BY <1>6 DEF InPending
    <2> QED
      BY <1>1, <1>6, <2>1, ResultStays
  <1>7. CASE ProcessInsert
    <2> DEFINE h == Head(pending)
    <2>1. /\ InPending(h) /\ (InPending(t)' <=> InPending(t) /\ t # h)
          /\ (InPending(u)' <=> InPending(u) /\ u # h)
      BY <1>7, InsertTakes
    <2>2. /\ track'[t] = IF t = h THEN Insert(track[t], Result) ELSE track[t]
          /\ track'[u] = IF u = h THEN Insert(track[u], Result) ELSE track[u]
      BY <1>7, InsertWrites
    <2>3. Result' = Result
      BY <1>7, ResultStays DEF ProcessInsert
    <2> HIDE DEF h
    <2>4. CASE t = h /\ u = h
      BY <2>1, <2>2, <2>4
    <2>5. CASE t = h /\ u # h
      <3>1. track'[t] = Insert(track[t], Result) /\ track'[u] = track[u]
        BY <2>2, <2>5
      <3>2. InPending(t) /\ ~InPending(t)' /\ (InPending(u)' <=> InPending(u))
        BY <2>1, <2>5
      <3> QED
        BY <1>1, <2>3, <3>1, <3>2
    <2>6. CASE t # h /\ u = h
      <3>1. track'[u] = Insert(track[u], Result) /\ track'[t] = track[t]
        BY <2>2, <2>6
      <3>2. InPending(u) /\ ~InPending(u)' /\ (InPending(t)' <=> InPending(t))
        BY <2>1, <2>6
      <3> QED
        BY <1>1, <2>3, <3>1, <3>2
    <2>7. CASE t # h /\ u # h
      BY <1>1, <2>1, <2>2, <2>3, <2>7
    <2> QED
      BY <2>4, <2>5, <2>6, <2>7
  <1>8. CASE RenderPrune
    <2>1. processing # "write" /\ UNCHANGED pending
      BY <1>8 DEF RenderPrune, LockInv, processingVars
    <2>2. InPending(t) <=> InPending(u)
      BY <2>1, PendingTogether
    <2>3. (InPending(t)' <=> InPending(t)) /\ (InPending(u)' <=> InPending(u))
      BY <2>1 DEF InPending
    <2>4. track[t] = track[u]
      BY <1>1, <2>2
    <2>5. track'[t] = track'[u]
      BY <1>8, <2>4, PrunedTogether DEF RenderPrune
    <2> QED
      BY <2>2, <2>3, <2>5
  <1>9. ProcessBeginWrite => UNCHANGED <<track, pending, stamp, frame, turn>>
    BY DEF ProcessBeginWrite
  <1>10. UNCHANGED processingVars /\ UNCHANGED track =>
           UNCHANGED <<track, pending, stamp, frame, turn>>
    BY DEF processingVars
  <1>11. UNCHANGED processingVars => UNCHANGED track \/ RenderPrune
    <2>1. ProcessInsert => pending' # pending
      BY InsertTakes DEF InPending
    <2> QED
      BY <2>1, WhoChangesTracks DEF processingVars
  <1> QED
    BY <1>3, <1>4, <1>5, <1>6, <1>7, <1>8, <1>9, <1>10, <1>11, WhoProcesses DEF ProcessingStep

\* Every result is later than the ones before, so back() returns it.
LEMMA LatestStep ==
    ASSUME ProcessingTypes, TracksInv, RenderInv, PendingInv, RoundInv, LatestInv, [Next]_vars
    PROVE  LatestInv'
  <1> SUFFICES ASSUME NEW t \in Tracks, Owner(t) # "spectrogram"
               PROVE  /\ \A i \in DOMAIN track'[t] :
                           track'[t][i].time <= mTime'[Owner(t)] + HalfLength[Owner(t)]
                      /\ ~InPending(t)' /\ track'[t] # <<>> =>
                           Back(track'[t]).frame = frame'[Owner(t)]
    BY DEF LatestInv
  <1> DEFINE p == Owner(t)
             last == mTime[p] + HalfLength[p]
  <1>1. p \in Processors /\ Processor \in Processors
    BY OwnerIs, ProcessorIsOne DEF ProcessingTypes
  <1>2. /\ mTime[p] \in Int /\ HalfLength[p] \in Int /\ frame[p] \in Int
        /\ last \in Int
    BY <1>1, DataStoreAssumption DEF ProcessingTypes
  <1>3. track[t] \in Seq(Entries) /\ IsSorted(track[t])
    BY DEF TracksInv
  <1>4. \A i \in DOMAIN track[t] : track[t][i].time \in Int /\ track[t][i].time <= last
    BY <1>3, TrackElements DEF LatestInv
  <1>5. ~InPending(t) /\ track[t] # <<>> => Back(track[t]).frame = frame[p]
    BY DEF LatestInv
  <1> HIDE DEF p
  <1>6. CASE Process
    <2>1. /\ track' = track /\ mTime' = mTime
          /\ frame' = [frame EXCEPT ![Processor] = @ + 1]
          /\ processing = "turn"
      BY <1>6 DEF Process
    <2>2. ~InPending(t)
      BY <2>1 DEF PendingInv, InPending
    <2>3. InPending(t)' <=> p = Processor
      BY <1>6, ProcessPends DEF p
    <2>4. p # Processor => frame'[p] = frame[p]
      BY <1>1, <2>1 DEF ProcessingTypes
    <2> QED
      BY <1>4, <1>5, <2>1, <2>2, <2>3, <2>4 DEF p
  <1>7. CASE ProcessInsert
    <2>1. UNCHANGED <<mTime, frame>> /\ processing = "write"
      BY <1>7 DEF ProcessInsert
    <2>2. track'[t] = IF t = Head(pending) THEN Insert(track[t], Result) ELSE track[t]
      BY <1>7, InsertWrites
    <2>3. CASE t # Head(pending)
      <3>1. InPending(t)' <=> InPending(t)
        BY <1>7, <2>3, InsertTakes
      <3> QED
        BY <1>4, <1>5, <2>1, <2>2, <2>3, <3>1 DEF p
    <2>4. CASE t = Head(pending)
      <3>1. p = Processor
        BY <1>7, <2>4, InsertTakes DEF p
      <3>2. Result.time = last /\ Result.frame = frame[p] /\ Result \in Entries
        <4>1. stamp = last
          BY <2>1, <3>1 DEF PendingInv, p
        <4> QED
          BY <1>2, <3>1, <4>1 DEF Result, Entries, ProcessingTypes
      <3> DEFINE r == Insert(track[t], Result)
      <3>3. /\ \A j \in DOMAIN r : r[j] = Result \/ \E k \in DOMAIN track[t] : r[j] = track[t][k]
            /\ (\A k \in DOMAIN track[t] : track[t][k].time <= Result.time) => Back(r) = Result
        BY <1>3, <3>2, InsertKeeps
      <3> HIDE DEF r
      <3>4. track'[t] = r
        BY <2>2, <2>4 DEF r
      <3>5. Back(r) = Result
        BY <1>4, <3>2, <3>3
      <3>6. \A j \in DOMAIN r : r[j].time <= last
        <4>1. last <= last
          BY <1>2
        <4> QED
          BY <1>4, <3>2, <3>3, <4>1
      <3> QED
        BY <2>1, <3>2, <3>4, <3>5, <3>6 DEF p
    <2> QED
      BY <2>3, <2>4
  <1>8. CASE ProcessEndWrite
    <2>1. /\ track' = track /\ frame' = frame /\ pending' = pending
          /\ mTime' = [mTime EXCEPT ![Processor] = time]
      BY <1>8 DEF ProcessEndWrite
    <2>2. mTime'[p] \in Int /\ mTime[p] <= mTime'[p]
      BY <1>1, <2>1 DEF RoundInv, ProcessingTypes
    <2>3. \A i \in DOMAIN track[t] : track[t][i].time <= mTime'[p] + HalfLength[p]
      BY <1>2, <1>4, <2>2
    <2>4. InPending(t)' <=> InPending(t)
      BY <2>1 DEF InPending
    <2> QED
      BY <1>5, <2>1, <2>3, <2>4 DEF p
  <1>9. CASE RenderPrune
    <2> DEFINE old == realTimeEnd - KeepDuration
               r == RemoveBefore(track[t], old)
    <2>1. UNCHANGED <<mTime, frame, pending>>
          /\ track'[t] = IF t \in PrunedTracks THEN r ELSE track[t]
      BY <1>9 DEF RenderPrune, processingVars
    <2>2. old \in Int
      BY DataStoreAssumption DEF RenderInv
    <2> HIDE DEF old
    <2>3. /\ \A j \in DOMAIN r : \E k \in DOMAIN track[t] : r[j] = track[t][k]
          /\ r # <<>> => track[t] # <<>> /\ Back(r) = Back(track[t])
      BY <1>3, <2>2, RemoveBeforeKeeps
    <2> HIDE DEF r
    <2>4. InPending(t)' <=> InPending(t)
      BY <2>1 DEF InPending
    <2>5. \A j \in DOMAIN r : r[j].time <= last
      BY <1>4, <2>3
    <2>6. CASE t \in PrunedTracks
      BY <1>5, <2>1, <2>3, <2>4, <2>5, <2>6 DEF p
    <2>7. CASE t \notin PrunedTracks
      BY <1>4, <1>5, <2>1, <2>4, <2>7 DEF p
    <2> QED
      BY <2>6, <2>7
  <1>10. CASE UNCHANGED <<track, mTime, frame, pending>>
    <2>1. InPending(t)' <=> InPending(t)
      BY <1>10 DEF InPending
    <2> QED
      BY <1>4, <1>5, <1>10, <2>1 DEF p
  <1>11. SkipTurn \/ ProcessBeginWrite \/ (UNCHANGED processingVars /\ UNCHANGED track)
           => UNCHANGED <<track, mTime, frame, pending>>
    BY DEF SkipTurn, ProcessBeginWrite, processingVars
  <1>12. UNCHANGED processingVars => UNCHANGED track \/ RenderPrune
    <2>1. ProcessInsert => pending' # pending
      BY InsertTakes DEF InPending
    <2> QED
      BY <2>1, WhoChangesTracks DEF processingVars
  <1> QED
    BY <1>6, <1>7, <1>8, <1>9, <1>10, <1>11, <1>12, WhoProcesses DEF ProcessingStep

\* Going on to the next processor keeps the numbers under the time.
LEMMA NextTurnCounts ==
    ASSUME RoundInv, ProcessingTypes, NextTurn, time + Granularity <= MaxTime,
           UNCHANGED frame, processing' = "turn"
    PROVE  /\ time' \in 0..MaxTime /\ time <= time'
           /\ Counted'
  <1>1. Len(mProcessors) = 4
    BY DEF mProcessors
  <1>2. time \in Nat /\ Granularity \in Nat /\ Granularity >= 1 /\ MaxTime \in Nat /\ turn \in 1..4
    BY DataStoreAssumption DEF RoundInv, ProcessingTypes
  <1>3. Counted
    BY DEF RoundInv
  <1>4. \A i \in 1..4 : mProcessors'[i] = mProcessors[i]
    OBVIOUS
  <1>5. CASE turn < 4
    <2>1. turn' = turn + 1 /\ time' = time
      BY <1>1, <1>5 DEF NextTurn
    <2>2. Counted'
      <3> SUFFICES ASSUME NEW i \in 1..4
                   PROVE  /\ frame[mProcessors[i]] \in Nat
                          /\ i < turn + 1 => frame[mProcessors[i]] <= time + 1
                          /\ ~(i < turn + 1) => frame[mProcessors[i]] <= time
        BY <2>1 DEF Counted
      <3> DEFINE f == frame[mProcessors[i]]
      <3>1. f \in Nat /\ (f <= time + 1) /\ (i > turn => f <= time)
        <4>1. f \in Nat /\ (f <= time \/ f <= time + 1)
          BY <1>3 DEF Counted
        <4>2. i > turn => f <= time
          BY <1>2, <1>3 DEF Counted
        <4> HIDE DEF f
        <4> QED
          BY <1>2, <4>1, <4>2
      <3> HIDE DEF f
      <3>2. (i < turn + 1 => f <= time + 1) /\ (~(i < turn + 1) => f <= time)
        BY <1>2, <3>1
      <3> QED
        BY <3>1, <3>2 DEF f
    <2> QED
      BY <1>2, <2>1, <2>2 DEF RoundInv
  <1>6. CASE ~(turn < 4)
    <2>1. turn' = 1 /\ time' = time + Granularity
      BY <1>1, <1>6 DEF NextTurn
    <2>2. Counted'
      <3> SUFFICES ASSUME NEW i \in 1..4
                   PROVE  frame[mProcessors[i]] \in Nat /\ frame[mProcessors[i]] <= time'
        <4>1. \A j \in 1..4 : ~(j < 1)
          OBVIOUS
        <4> QED
          BY <2>1, <4>1 DEF Counted
      <3> DEFINE f == frame[mProcessors[i]]
      <3>1. f \in Nat /\ (f <= time \/ f <= time + 1)
        BY <1>3 DEF Counted
      <3> HIDE DEF f
      <3>2. f <= time + Granularity
        BY <1>2, <3>1
      <3> QED
        BY <2>1, <3>1, <3>2 DEF f
    <2> QED
      BY <1>2, <2>1, <2>2
  <1> QED
    BY <1>5, <1>6

\* An insert adds the frame just processed, and pruning adds none.
LEMMA EntriesStep ==
    ASSUME ProcessingTypes, TracksInv, RenderInv, PendingInv, RoundInv, [Next]_vars
    PROVE  EntriesCounted'
  <1> SUFFICES ASSUME NEW t \in Tracks
               PROVE  \A i \in DOMAIN track'[t] : track'[t][i].frame \in 1..(MaxTime + 1)
    BY DEF EntriesCounted
  <1>1. track[t] \in Seq(Entries) /\ IsSorted(track[t])
    BY DEF TracksInv
  <1>2. \A i \in DOMAIN track[t] : track[t][i].frame \in 1..(MaxTime + 1)
    BY DEF RoundInv, EntriesCounted
  <1>3. CASE ProcessInsert
    <2>1. track'[t] = track[t] \/ track'[t] = Insert(track[t], Result)
      BY <1>3, InsertWrites
    <2>2. Result \in Entries
      BY ProcessorIsOne DEF Result, Entries, ProcessingTypes
    <2>3. Result.frame \in 1..(MaxTime + 1)
      <3>1. processing # "turn" /\ turn \in 1..4
        BY <1>3 DEF ProcessInsert, ProcessingTypes
      <3>2. frame[Processor] \in Nat /\ frame[Processor] <= time + 1 /\ frame[Processor] >= 1
        BY <3>1 DEF RoundInv, Counted, Processor
      <3>3. frame[Processor] \in 1..(MaxTime + 1)
        BY <3>2, DataStoreAssumption DEF RoundInv
      <3> QED
        BY <3>3 DEF Result
    <2> DEFINE r == Insert(track[t], Result)
    <2>4. \A j \in DOMAIN r : r[j] = Result \/ \E k \in DOMAIN track[t] : r[j] = track[t][k]
      BY <1>1, <2>2, InsertKeeps
    <2> HIDE DEF r
    <2>5. \A j \in DOMAIN r : r[j].frame \in 1..(MaxTime + 1)
      BY <1>2, <2>3, <2>4
    <2>6. track'[t] = track[t] \/ track'[t] = r
      BY <2>1 DEF r
    <2> QED
      BY <1>2, <2>5, <2>6
  <1>4. CASE RenderPrune
    <2> DEFINE old == realTimeEnd - KeepDuration
               r == RemoveBefore(track[t], old)
    <2>1. track'[t] = r \/ track'[t] = track[t]
      BY <1>4 DEF RenderPrune
    <2>2. old \in Int
      BY DataStoreAssumption DEF RenderInv
    <2> HIDE DEF old
    <2>3. \A j \in DOMAIN r : \E k \in DOMAIN track[t] : r[j] = track[t][k]
      BY <1>1, <2>2, RemoveBeforeKeeps
    <2> HIDE DEF r
    <2> QED
      BY <1>2, <2>1, <2>3
  <1>5. CASE UNCHANGED track
    BY <1>2, <1>5
  <1> QED
    BY <1>3, <1>4, <1>5, WhoChangesTracks

\* A processor processes at most one frame a round, and the time grows by the
\* granularity each round.
LEMMA RoundStep ==
    ASSUME ProcessingTypes, TracksInv, RenderInv, PendingInv, RoundInv, [Next]_vars
    PROVE  RoundInv'
  <1>1. EntriesCounted'
    BY EntriesStep
  <1>2. /\ time \in 0..MaxTime /\ MaxTime \in Nat /\ Granularity \in Nat
        /\ \A p \in Processors : mTime[p] \in 0..time
        /\ Counted
    BY DataStoreAssumption DEF RoundInv
  <1>3. SUFFICES /\ (time \in 0..MaxTime)'
                 /\ \A p \in Processors : mTime'[p] \in 0..time'
                 /\ Counted'
                 /\ processing' # "turn" =>
                       time' + Granularity <= MaxTime /\ (frame[Processor])' >= 1
    BY <1>1 DEF RoundInv
  <1>4. CASE SkipTurn
    <2>1. time' \in 0..MaxTime /\ time <= time' /\ Counted' /\ processing' = "turn"
          /\ UNCHANGED mTime
      BY <1>4, NextTurnCounts DEF SkipTurn
    <2> QED
      BY <1>2, <2>1
  <1>5. CASE ProcessEndWrite
    <2>1. time + Granularity <= MaxTime
      BY <1>5 DEF ProcessEndWrite, RoundInv
    <2>2. time' \in 0..MaxTime /\ time <= time' /\ Counted' /\ processing' = "turn"
      BY <1>5, <2>1, NextTurnCounts DEF ProcessEndWrite
    <2>3. \A p \in Processors : mTime'[p] = mTime[p] \/ mTime'[p] = time
      BY <1>5 DEF ProcessEndWrite, ProcessingTypes
    <2>4. \A p \in Processors : mTime'[p] \in 0..time'
      BY <1>2, <2>2, <2>3
    <2> QED
      BY <2>2, <2>4
  <1>6. CASE Process
    <2>1. /\ UNCHANGED <<time, mTime, turn, Processor>>
          /\ processing = "turn" /\ processing' = "lock"
          /\ time + Granularity <= MaxTime
          /\ frame' = [frame EXCEPT ![Processor] = @ + 1]
      BY <1>6 DEF Process, Processor
    <2>2. Processor \in Processors /\ turn \in 1..4 /\ Processor = mProcessors[turn]
      BY ProcessorIsOne DEF ProcessingTypes, Processor
    <2>3. frame[Processor] \in Nat /\ frame[Processor] <= time
      <3>1. ~(turn < turn \/ (turn = turn /\ processing # "turn"))
        BY <2>1, <2>2
      <3> QED
        BY <1>2, <2>2, <3>1 DEF Counted
    <2>4. frame'[Processor] = frame[Processor] + 1
      BY <2>1, <2>2 DEF ProcessingTypes
    <2>5. \A i \in 1..4 : i # turn => mProcessors[i] # Processor /\ mProcessors[i] \in Processors
      BY <2>2 DEF mProcessors, Processors
    <2>6. \A i \in 1..4 : i # turn => frame'[mProcessors[i]] = frame[mProcessors[i]]
      BY <2>1, <2>2, <2>5 DEF ProcessingTypes
    <2>7. Counted'
      <3> SUFFICES ASSUME NEW i \in 1..4
                   PROVE  /\ frame'[mProcessors[i]] \in Nat
                          /\ i < turn \/ i = turn => frame'[mProcessors[i]] <= time + 1
                          /\ ~(i < turn \/ i = turn) => frame'[mProcessors[i]] <= time
        BY <2>1 DEF Counted
      <3>1. CASE i = turn
        BY <1>2, <2>2, <2>3, <2>4, <3>1
      <3>2. CASE i # turn
        BY <1>2, <2>1, <2>6, <3>2 DEF Counted
      <3> QED
        BY <3>1, <3>2
    <2>8. (frame[Processor])' >= 1
      BY <2>1, <2>3, <2>4
    <2> QED
      BY <1>2, <2>1, <2>7, <2>8
  <1>7. CASE UNCHANGED <<time, mTime, turn, frame>>
             /\ (processing = "turn" <=> processing' = "turn")
    <2>1. Processor' = Processor
      BY <1>7 DEF Processor
    <2> QED
      BY <1>2, <1>7, <2>1 DEF Counted, RoundInv
  <1>8. ProcessBeginWrite \/ ProcessInsert \/ UNCHANGED processingVars =>
          /\ UNCHANGED <<time, mTime, turn, frame>>
          /\ processing = "turn" <=> processing' = "turn"
    BY DEF ProcessBeginWrite, ProcessInsert, processingVars
  <1> QED
    BY <1>4, <1>5, <1>6, <1>7, <1>8, WhoProcesses DEF ProcessingStep
-----------------------------------------------------------------------------
(* What the readers are shown: the charts *)

\* The frames of the newest entries.
LEMMA NewestIs ==
    ASSUME TracksInv, EntriesCounted, NEW t \in Tracks
    PROVE  Newest(t) \in 0..(MaxTime + 1)
  <1>1. MaxTime \in Nat
    BY DataStoreAssumption
  <1>2. CASE track[t] = <<>>
    BY <1>1, <1>2 DEF Newest, NoFrame
  <1>3. CASE track[t] # <<>>
    <2>1. track[t] \in Seq(Entries)
      BY DEF TracksInv
    <2>2. PICK n \in Nat : n = Len(track[t])
      BY <2>1, LenProperties
    <2>3. n \in DOMAIN track[t]
      BY <1>3, <2>1, <2>2, EmptySeq, LenProperties
    <2>4. Back(track[t]).frame \in 1..(MaxTime + 1)
      BY <2>2, <2>3 DEF Back, EntriesCounted
    <2> QED
      BY <1>1, <1>3, <2>4 DEF Newest
  <1> QED
    BY <1>2, <1>3

\* While the tracks are not written, those of a processor are equal.
LEMMA AlikeUnwritten ==
    ASSUME PendingInv, AlignInv, processing # "write",
           NEW t \in Tracks, NEW u \in Tracks, Owner(t) = Owner(u)
    PROVE  track[t] = track[u]
  BY PendingTogether DEF AlignInv

\* A thread that reads keeps the writers out.
LEMMA ReadUnwritten ==
    ASSUME LockInv, datavis # "idle"
    PROVE  processing # "write" /\ render # "prune"
  BY DEF LockInv, Nobody

\* The charts and who fills them in.
LEMMA WhoShows ==
    ASSUME [Next]_vars
    PROVE  DatavisStep \/ UNCHANGED datavisVars
  BY DEF Next, Clock, Tick, FirstProcessAll, Resume, StopRealTime, ClearRealTime, vars,
         ProcessingStep, SkipTurn, Process, ProcessBeginWrite, ProcessInsert, ProcessEndWrite,
         RenderStep, RenderTime, RenderBeginWrite, RenderPrune, RenderBeginRead, RenderDraw

\* What the datavis thread reads under one lock is of one frame.
LEMMA ShownStep ==
    ASSUME LockInv, TracksInv, PendingInv, AlignInv, RoundInv, ShownInv, [Next]_vars
    PROVE  ShownInv'
  <1> DEFINE N == 0..(MaxTime + 1)
             Shapes == [sound : N, gif : N, formants : SUBSET N]
  <1>1. shown \in Shapes
    BY DEF ShownInv
  <1>2. \A t \in Tracks : Newest(t) \in N
    BY NewestIs DEF RoundInv
  <1> HIDE DEF N
  <1>3. CASE UNCHANGED datavisVars
    <2>1. shown' = shown /\ datavis' = datavis
      BY <1>3 DEF datavisVars
    <2>2. datavis = "gif" => UNCHANGED track
      BY ReadUnwritten, WhoChangesTracks DEF ProcessInsert, RenderPrune
    <2>3. datavis = "gif" => Newest(<<"sound">>)' = Newest(<<"sound">>)
      BY <2>2 DEF Newest
    <2> QED
      BY <2>1, <2>3 DEF ShownInv
  <1>4. CASE DatavisBeginRead
    BY <1>4 DEF DatavisBeginRead, ShownInv
  <1>5. CASE DatavisSound
    <2> DEFINE newest == Newest(<<"sound">>)
    <2>1. newest \in N
      BY <1>2, OwnerIs
    <2>2. datavis = "sound" /\ datavis' = "gif" /\ newest' = newest
      BY <1>5 DEF DatavisSound, Newest
    <2>3. \/ newest # NoFrame /\ shown' = [shown EXCEPT !.sound = newest]
          \/ NoFrame \in {newest, shown.gif} /\ shown' = shown
      BY <1>5 DEF DatavisSound
    <2>4. shown.sound # NoFrame => shown.sound = shown.gif
      BY <2>2 DEF ShownInv
    <2>5. (\E v \in N : shown.formants \subseteq {v})
      BY DEF ShownInv, N
    <2>6. /\ shown' \in Shapes /\ shown'.formants = shown.formants
          /\ shown'.sound # NoFrame =>
               \/ newest = shown'.sound
               \/ newest = NoFrame /\ shown'.sound = shown'.gif
      <3> HIDE DEF newest
      <3>1. CASE shown' = shown
        BY <1>1, <2>3, <2>4, <3>1
      <3>2. CASE shown' = [shown EXCEPT !.sound = newest]
        BY <1>1, <2>1, <3>2
      <3> QED
        BY <2>3, <3>1, <3>2
    <2> QED
      BY <2>2, <2>5, <2>6 DEF ShownInv, N
  <1>6. CASE DatavisGif
    <2> DEFINE newest == Newest(<<"gif">>)
    <2>1. datavis = "gif" /\ datavis' = "formants"
          /\ shown' = IF newest = NoFrame THEN shown ELSE [shown EXCEPT !.gif = newest]
      BY <1>6 DEF DatavisGif
    <2>2. newest = Newest(<<"sound">>) /\ newest \in N
      <3>1. track[<<"sound">>] = track[<<"gif">>]
        BY <2>1, ReadUnwritten, AlikeUnwritten, OwnerIs
      <3> QED
        BY <1>2, <3>1, OwnerIs DEF Newest
    <2>3. shown.sound # NoFrame =>
            newest = shown.sound \/ (newest = NoFrame /\ shown.sound = shown.gif)
      BY <2>1, <2>2 DEF ShownInv
    <2>4. \E v \in N : shown.formants \subseteq {v}
      BY DEF ShownInv, N
    <2> HIDE DEF newest
    <2>5. /\ shown' \in Shapes /\ shown'.formants = shown.formants
          /\ shown'.sound # NoFrame => shown'.sound = shown'.gif
      BY <1>1, <2>1, <2>2, <2>3
    <2> QED
      BY <2>1, <2>4, <2>5 DEF ShownInv, N
  <1>7. CASE DatavisFormants
    <2> DEFINE all == {Newest(t) : t \in FormantNames}
    <2>1. datavis = "formants" /\ datavis' = "idle" /\ shown' = [shown EXCEPT !.formants = all]
      BY <1>7 DEF DatavisFormants
    <2>2. \A t, u \in FormantNames : track[t] = track[u]
      BY <2>1, ReadUnwritten, AlikeUnwritten, OwnerIs
    <2>3. all \subseteq N
      BY <1>2, OwnerIs
    <2>4. \E v \in N : all \subseteq {v}
      <3>1. CASE FormantNames = {}
        <4>1. 0 \in N
          BY DataStoreAssumption DEF N
        <4> QED
          BY <3>1, <4>1
      <3>2. CASE FormantNames # {}
        <4>1. PICK t \in FormantNames : TRUE
          BY <3>2
        <4>2. \A u \in FormantNames : Newest(u) = Newest(t)
          BY <2>2 DEF Newest
        <4> QED
          BY <2>3, <4>2
      <3> QED
        BY <3>1, <3>2
    <2> HIDE DEF all
    <2>5. shown.sound # NoFrame => shown.sound = shown.gif
      BY <2>1 DEF ShownInv
    <2>6. /\ shown' \in Shapes /\ shown'.formants = all
          /\ shown'.sound # NoFrame => shown'.sound = shown'.gif
      BY <1>1, <2>1, <2>3, <2>5
    <2> QED
      BY <2>1, <2>4, <2>6 DEF ShownInv, N
  <1> QED
    BY <1>3, <1>4, <1>5, <1>6, <1>7, WhoShows DEF DatavisStep

\* The clock stays in its bounds, and only its threads hold the lock.
LEMMA WhereStep == ASSUME ClockInv, WhereInv, [Next]_vars PROVE WhereInv'
  <1> DEFINE Numbers == /\ now \in 0..MaxNow /\ running \in 0..now
                        /\ mRealTimeOffset \in 0..now /\ mRealTimeStart \in 0..now
                        /\ gui = "idle" /\ mIsRealTimeStarted =>
                             mRealTimeOffset <= mRealTimeStart
             Holders == /\ writer \in {Nobody, "processing", "render"}
                        /\ readers \subseteq {"render", "datavis"}
  <1>1. MaxNow \in Nat
    BY DataStoreAssumption
  <1>2. Numbers'
    <2>1. CASE Tick
      BY <1>1, <2>1 DEF Tick, clockVars, pauseVars, WhereInv
    <2>2. CASE FirstProcessAll \/ Resume
      BY <1>1, <2>2 DEF FirstProcessAll, Resume, StartRealTime, WhereInv
    <2>3. CASE StopRealTime
      <3>1. mRealTimeOffset' \in 0..now
        BY <2>3 DEF StopRealTime, GetRealTime, WhereInv
      <3> QED
        BY <1>1, <2>3, <3>1 DEF StopRealTime, WhereInv
    <2>4. CASE ClearRealTime
      <3>1. ~mIsRealTimeStarted'
        BY <2>4, Zenon DEF ClearRealTime
      <3> QED
        BY <1>1, <2>4, <3>1 DEF ClearRealTime, WhereInv
    <2>5. CASE UNCHANGED <<now, running, clockVars>>
      BY <2>5 DEF clockVars, pauseVars, WhereInv
    <2>6. ProcessingStep \/ RenderStep \/ DatavisStep \/ UNCHANGED vars
            => UNCHANGED <<now, running, clockVars>>
      BY DEF ProcessingStep, SkipTurn, Process, ProcessBeginWrite, ProcessInsert, ProcessEndWrite,
             RenderStep, RenderTime, RenderBeginWrite, RenderPrune, RenderBeginRead, RenderDraw,
             DatavisStep, DatavisBeginRead, DatavisSound, DatavisGif, DatavisFormants, vars
    <2> QED
      BY <2>1, <2>2, <2>3, <2>4, <2>5, <2>6 DEF Next, Clock
  <1>3. Holders'
    <2>1. Holders
      BY DEF WhereInv
    <2>2. CASE UNCHANGED lockVars
      BY <2>1, <2>2 DEF lockVars
    <2>3. Clock \/ SkipTurn \/ Process \/ ProcessInsert \/ RenderTime \/ DatavisSound
            \/ DatavisGif \/ UNCHANGED vars => UNCHANGED lockVars
      BY DEF Clock, Tick, FirstProcessAll, Resume, StopRealTime, ClearRealTime, SkipTurn, Process,
             ProcessInsert, RenderTime, DatavisSound, DatavisGif, vars
    <2>4. CASE ProcessBeginWrite \/ RenderBeginWrite
      BY <2>1, <2>4 DEF ProcessBeginWrite, RenderBeginWrite, BeginWrite
    <2>5. CASE ProcessEndWrite \/ RenderPrune
      BY <2>1, <2>5 DEF ProcessEndWrite, RenderPrune, EndWrite
    <2>6. CASE RenderBeginRead \/ DatavisBeginRead
      BY <2>1, <2>6 DEF RenderBeginRead, DatavisBeginRead, BeginRead
    <2>7. CASE RenderDraw \/ DatavisFormants
      BY <2>1, <2>7 DEF RenderDraw, DatavisFormants, EndRead
    <2> QED
      BY <2>2, <2>3, <2>4, <2>5, <2>6, <2>7 DEF Next, ProcessingStep, RenderStep, DatavisStep
  <1>4. (realTimeEnd \in Nat)'
    <2>1. GetRealTime \in Nat
      <3>1. GetRealTime = mRealTimeOffset \/ GetRealTime = mRealTimeOffset + (now - mRealTimeStart)
        BY DEF GetRealTime
      <3> QED
        BY <1>1, <3>1 DEF WhereInv
    <2>2. realTimeEnd' = realTimeEnd \/ realTimeEnd' = GetRealTime \/ realTimeEnd' = 0
      BY DEF Next, Clock, Tick, FirstProcessAll, Resume, StopRealTime, ClearRealTime, vars, renderVars,
             ProcessingStep, SkipTurn, Process, ProcessBeginWrite, ProcessInsert, ProcessEndWrite,
             RenderStep, RenderTime, RenderBeginWrite, RenderPrune, RenderBeginRead, RenderDraw,
             DatavisStep, DatavisBeginRead, DatavisSound, DatavisGif, DatavisFormants
    <2> QED
      BY <2>1, <2>2 DEF WhereInv
  <1> QED
    BY <1>2, <1>3, <1>4 DEF WhereInv

\* A new store has shown nothing.
LEMMA FramesInitInv == Init => FramesInv
  <1> SUFFICES ASSUME Init
               PROVE  FramesInv
    OBVIOUS
  <1>1. \A t \in Tracks : track[t] = <<>> /\ DOMAIN track[t] = {} /\ ~InPending(t)
    BY DEF Init, InPending
  <1>2. PendingInv
    <2>1. pending = <<>> /\ pending \in Seq(Tracks) /\ DOMAIN pending = {} /\ processing = "turn"
      BY EmptySeq DEF Init
    <2> QED
      BY <2>1 DEF PendingInv
  <1>3. AlignInv
    BY <1>1 DEF AlignInv
  <1>4. LatestInv
    BY <1>1 DEF LatestInv
  <1>5. RoundInv
    <2>1. \A i \in 1..4 : mProcessors[i] \in Processors
      BY DEF mProcessors, Processors
    <2>2. Counted
      BY <2>1 DEF Init, Counted, NoFrame
    <2> QED
      BY <1>1, <2>2, DataStoreAssumption DEF Init, RoundInv, EntriesCounted
  <1>6. ShownInv
    <2>1. 0 \in 0..(MaxTime + 1)
      BY DataStoreAssumption
    <2>2. shown = [sound |-> 0, gif |-> 0, formants |-> {}] /\ datavis = "idle"
      BY DEF Init, NoFrame
    <2> QED
      BY <2>1, <2>2 DEF ShownInv, NoFrame
  <1>7. WhereInv
    BY DataStoreAssumption DEF Init, WhereInv
  <1> QED
    BY <1>2, <1>3, <1>4, <1>5, <1>6, <1>7 DEF FramesInv

\* The tracks and the charts, at every step of every thread.
THEOREM FramesInvariance == Spec => [](StoreInv /\ FramesInv)
  <1>1. Init => StoreInv /\ FramesInv
    BY StoreInitInv, FramesInitInv
  <1>2. StoreInv /\ FramesInv /\ [Next]_vars => StoreInv' /\ FramesInv'
    <2> SUFFICES ASSUME StoreInv, FramesInv, [Next]_vars
                 PROVE  StoreInv' /\ FramesInv'
      OBVIOUS
    <2>1. StoreInv'
      BY ClockStep, LockStep, ProcessingTypesStep, TracksStep, RenderInvStep DEF StoreInv
    <2>2. FramesInv'
      BY PendingStep, AlignStep, LatestStep, RoundStep, ShownStep, WhereStep
      DEF StoreInv, FramesInv
    <2> QED
      BY <2>1, <2>2
  <1> QED
    BY <1>1, <1>2, PTL DEF Spec

\* Outside a write the sound is aligned with its glottal flow and the formants
\* with each other, a chart shows one frame, and back() is the latest result, for
\* any spacings, numbers of formants and FFT delays.
THEOREM FramesAreWhole == Spec => []FramesWhole
  <1>1. StoreInv /\ FramesInv => FramesWhole
    <2> SUFFICES ASSUME StoreInv, FramesInv
                 PROVE  FramesWhole
      OBVIOUS
    <2>1. ClockInv /\ LockInv /\ ProcessingTypes /\ TracksInv /\ RenderInv
      BY DEF StoreInv
    <2>2. PendingInv /\ AlignInv /\ LatestInv /\ RoundInv /\ ShownInv /\ WhereInv
      BY DEF FramesInv
    <2>3. TypeOK
      <3>1. MaxNow \in Nat /\ MaxTime \in Nat
        BY DataStoreAssumption
      <3>2. /\ now \in 0..MaxNow /\ running \in 0..MaxNow
            /\ mRealTimeOffset \in 0..MaxNow /\ mRealTimeStart \in 0..MaxNow
        BY <2>2, <3>1 DEF WhereInv
      <3>3. /\ DOMAIN track = Tracks
            /\ \A t \in Tracks : \A i \in DOMAIN track[t] :
                 track[t][i].time \in Int /\ track[t][i].frame \in 1..(MaxTime + 1)
        BY <2>1, <2>2, TrackElements DEF TracksInv, RoundInv, EntriesCounted
      <3>4. mTime \in [Processors -> 0..MaxTime]
        BY <2>1, <2>2, <3>1 DEF ProcessingTypes, RoundInv
      <3>5. frame \in [Processors -> 0..(MaxTime + 1)]
        <4>1. \A i \in 1..4 : frame[mProcessors[i]] \in 0..(MaxTime + 1)
          <5> SUFFICES ASSUME NEW i \in 1..4 PROVE frame[mProcessors[i]] \in 0..(MaxTime + 1)
            OBVIOUS
          <5>1. /\ frame[mProcessors[i]] \in Nat /\ time \in 0..MaxTime
                /\ frame[mProcessors[i]] <= time \/ frame[mProcessors[i]] <= time + 1
            BY <2>2 DEF RoundInv, Counted
          <5> QED
            BY <3>1, <5>1
        <4>2. \A p \in Processors : \E i \in 1..4 : p = mProcessors[i]
          BY DEF Processors, mProcessors
        <4>3. \A p \in Processors : frame[p] \in 0..(MaxTime + 1)
          BY <4>1, <4>2
        <4> QED
          BY <2>1, <4>3 DEF ProcessingTypes
      <3>6. turn \in DOMAIN mProcessors
        BY <2>1 DEF ProcessingTypes, mProcessors
      <3>7. {shown.sound, shown.gif} \cup shown.formants \subseteq 0..(MaxTime + 1)
        BY <2>2 DEF ShownInv
      <3>8. /\ mIsRealTimeStarted \in BOOLEAN /\ torn \in BOOLEAN
            /\ mPaused \in BOOLEAN /\ begun \in BOOLEAN
            /\ begunPaused \in BOOLEAN /\ pausedTwice \in BOOLEAN
        BY <2>1 DEF ClockInv, RenderInv
      <3>9. /\ gui \in {"idle", "stopping"} /\ stamp \in Int
            /\ render \in {"idle", "lock", "prune", "gap", "draw"}
            /\ datavis \in {"idle", "sound", "gif", "formants"}
        BY <2>1 DEF ClockInv, LockInv, ProcessingTypes
      <3>10. /\ writer \in {Nobody, "processing", "render"} /\ readers \subseteq {"render", "datavis"}
             /\ time \in 0..MaxTime /\ realTimeEnd \in Nat /\ pending \in Seq(Tracks)
             /\ processing \in {"turn", "lock", "write"}
        BY <2>2 DEF WhereInv, RoundInv, PendingInv
      <3> QED
        BY <3>2, <3>3, <3>4, <3>5, <3>6, <3>7, <3>8, <3>9, <3>10, Zenon DEF TypeOK
    <2>4. TracksAligned
      <3> SUFFICES ASSUME writer = Nobody
                   PROVE  /\ track[<<"sound">>] = track[<<"gif">>]
                          /\ \A t, u \in FormantNames : track[t] = track[u]
        BY DEF TracksAligned
      <3>1. processing # "write"
        BY <2>1 DEF LockInv, Nobody
      <3> QED
        BY <2>2, <3>1, AlikeUnwritten, OwnerIs
    <2>5. OneFrameShown
      <3>1. Cardinality(shown.formants) <= 1
        <4>1. PICK v \in 0..(MaxTime + 1) : shown.formants \subseteq {v}
          BY <2>2 DEF ShownInv
        <4>2. IsFiniteSet({v}) /\ Cardinality({v}) = 1
          BY FS_Singleton
        <4> QED
          BY <4>1, <4>2, FS_Subset
      <3> QED
        BY <2>2, <3>1 DEF ShownInv, OneFrameShown
    <2>6. BackIsLatest
      <3> SUFFICES ASSUME processing = "turn", NEW t \in Tracks, Owner(t) # "spectrogram",
                          track[t] # <<>>
                   PROVE  Back(track[t]).frame = frame[Owner(t)]
        BY OwnerIs DEF BackIsLatest
      <3>1. ~InPending(t)
        BY <2>2 DEF PendingInv, InPending
      <3> QED
        BY <2>2, <3>1 DEF LatestInv
    <2> QED
      BY <2>3, <2>4, <2>5, <2>6 DEF FramesWhole
  <1> QED
    BY <1>1, FramesInvariance, PTL
=============================================================================
