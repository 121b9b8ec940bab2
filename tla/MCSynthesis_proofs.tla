-------------------------- MODULE MCSynthesis_proofs --------------------------
(***************************************************************************)
(* Proofs about the synthesis, for all rates, lengths and durations: the   *)
(* playback queue is never longer than two blocks (QueueInv); the glottal  *)
(* stream goes on from chunk to chunk and the bank is bounded (AudioInv);  *)
(* the smoothing stays within its vectors and a copy of the filter is of   *)
(* one callback (FilterInv).                                               *)
(***************************************************************************)
EXTENDS MCSynthesis, Sequences, SequenceTheorems, TLAPS

(***************************************************************************)
(* Division and remainders.                                                *)
(***************************************************************************)

\* A product with a factor that is not zero is not smaller than the other factor.
LEMMA SmallMultiple ==
  ASSUME NEW m \in Nat \ {0}, NEW d \in Int, -m < m * d, m * d < m
  PROVE  d = 0
<1>1. CASE d >= 1
  <2>1. m * d >= m * 1
    BY <1>1, SMTT(60)
  <2> QED
    BY <2>1
<1>2. CASE d <= -1
  <2>1. m * d <= m * (-1)
    BY <1>2, SMTT(60)
  <2> QED
    BY <2>1
<1> QED
  BY <1>1, <1>2

LEMMA DivMod ==
  ASSUME NEW a \in Nat, NEW m \in Nat \ {0}
  PROVE  /\ a \div m \in Nat /\ a % m \in 0..(m - 1)
         /\ a = (m * (a \div m)) + (a % m)
BY SMTT(60)

LEMMA ModOfSum ==
  ASSUME NEW m \in Nat \ {0}, NEW a \in Nat, NEW b \in Nat
  PROVE  ((a % m) + b) % m = (a + b) % m
<1> DEFINE r == a % m
           q == a \div m
           x == (r + b) % m
           y == (a + b) % m
           u == (r + b) \div m
           v == (a + b) \div m
<1>1. r \in 0..(m - 1) /\ q \in Nat /\ a = m * q + r
  BY DivMod
<1>2. x \in 0..(m - 1) /\ u \in Nat /\ r + b = m * u + x
  <2>1. r + b \in Nat
    BY <1>1
  <2> QED
    BY <2>1, DivMod
<1>3. y \in 0..(m - 1) /\ v \in Nat /\ a + b = m * v + y
  <2>1. a + b \in Nat
    OBVIOUS
  <2> QED
    BY <2>1, DivMod
<1> HIDE DEF r, q, x, y, u, v
<1>4. m * (v - u - q) = m * v - m * u - m * q
  BY <1>1, <1>2, <1>3
<1>5. m * (v - u - q) = x - y
  BY <1>1, <1>2, <1>3, <1>4
<1>6. v - u - q = 0
  BY <1>1, <1>2, <1>3, <1>5, SmallMultiple
<1>7. x = y
  BY <1>1, <1>2, <1>3, <1>5, <1>6
<1> QED
  BY <1>7 DEF x, y, r

(***************************************************************************)
(* The stream of glottal samples.                                          *)
(***************************************************************************)

Mod(a, m) == a % m

Samples(m) == 0..(m - 1)

LEMMA ModFacts ==
  ASSUME NEW m \in Nat \ {0}, NEW a \in Nat, NEW b \in Nat
  PROVE  Mod(a, m) \in Samples(m) /\ Mod(Mod(a, m) + b, m) = Mod(a + b, m)
BY DivMod, ModOfSum DEF Mod, Samples

\* The samples s follow the one that was last, and next follows them.
Follows(s, m, last, next) ==
    \A n \in 1..(Len(s) + 1) : Mod(last + n, m) = IF n <= Len(s) THEN s[n] ELSE next

LEMMA NextFollows ==
  ASSUME NEW m, NEW S, NEW s \in Seq(S), NEW last, NEW next, Follows(s, m, last, next)
  PROVE  next = Mod(last + (Len(s) + 1), m)
<1>1. Len(s) + 1 \in 1..(Len(s) + 1) /\ ~ (Len(s) + 1 <= Len(s))
  OBVIOUS
<1> QED
  BY <1>1 DEF Follows

\* New frames, from the next one on
Fresh(next, total, m) == [n \in 1..total |-> Mod(next + n - 1, m)]

LEMMA NewFrames ==
  ASSUME NEW m \in Nat \ {0}, NEW next \in Samples(m), NEW total \in Nat
  PROVE  /\ Fresh(next, total, m) \in Seq(Samples(m)) /\ Len(Fresh(next, total, m)) = total
         /\ \A n \in 1..total : Fresh(next, total, m)[n] = Mod(next + n - 1, m)
<1> next \in Nat
  BY DEF Samples
<1>1. \A n \in 1..total : Mod(next + n - 1, m) \in Samples(m)
  <2> SUFFICES ASSUME NEW n \in 1..total
               PROVE  Mod(next + n - 1, m) \in Samples(m)
    OBVIOUS
  <2>1. next + n - 1 \in Nat
    OBVIOUS
  <2> QED
    BY <2>1, ModFacts
<1> QED
  BY <1>1 DEF Fresh

LEMMA PrefixOf ==
  ASSUME NEW S, NEW s \in Seq(S), NEW k \in 1..Len(s)
  PROVE  SubSeq(s, 1, k) \in Seq(S) /\ Len(SubSeq(s, 1, k)) = k /\ SubSeq(s, 1, k)[k] = s[k]
<1>1. k \in Nat /\ \A n \in 1..k : s[n] \in S
  OBVIOUS
<1>2. k - 1 + 1 = k /\ 1 + k - 1 = k /\ k \in 1..(k - 1 + 1) /\ 1 <= k /\ k \in Int /\ 1 \in Int
  OBVIOUS
<1>3. /\ SubSeq(s, 1, k) \in Seq(S)
      /\ Len(SubSeq(s, 1, k)) = IF 1 <= k THEN k - 1 + 1 ELSE 0
      /\ \A j \in 1..(k - 1 + 1) : SubSeq(s, 1, k)[j] = s[1 + j - 1]
  BY <1>1, SubSeqProperties
<1> QED
  BY <1>2, <1>3

\* A new frame follows what is left over.
LEMMA FramesFollow ==
  ASSUME NEW m \in Nat \ {0}, NEW s \in Seq(Samples(m)), NEW last \in Samples(m), NEW next \in Samples(m),
         Follows(s, m, last, next), NEW total \in Nat
  PROVE  /\ s \o Fresh(next, total, m) \in Seq(Samples(m)) /\ Len(s \o Fresh(next, total, m)) = Len(s) + total
         /\ Follows(s \o Fresh(next, total, m), m, last, Mod(next + total, m))
<1> next \in Nat /\ last \in Nat
  BY DEF Samples
<1> DEFINE fresh == Fresh(next, total, m)
<1>2. fresh \in Seq(Samples(m)) /\ Len(fresh) = total /\ \A n \in 1..total : fresh[n] = Mod(next + n - 1, m)
  BY NewFrames
<1> HIDE DEF fresh
<1> DEFINE t == s \o fresh
<1>3. /\ t \in Seq(Samples(m)) /\ Len(t) = Len(s) + total
      /\ \A n \in 1..(Len(s) + total) : t[n] = IF n <= Len(s) THEN s[n] ELSE fresh[n - Len(s)]
  BY <1>2, ConcatProperties
<1> HIDE DEF t
<1>4. Len(s) \in Nat /\ Len(t) = Len(s) + total /\ Len(t) \in Nat
  BY <1>3
<1>5. next = Mod(last + (Len(s) + 1), m)
  BY NextFollows
<1>6. ASSUME NEW k \in Nat
      PROVE  Mod(next + k, m) = Mod(last + (Len(s) + 1 + k), m)
  <2>1. last + (Len(s) + 1) \in Nat
    BY <1>4
  <2>2. Mod(next + k, m) = Mod(last + (Len(s) + 1) + k, m)
    BY <1>5, <2>1, ModFacts
  <2>3. last + (Len(s) + 1) + k = last + (Len(s) + 1 + k)
    BY <1>4
  <2> QED
    BY <2>2, <2>3
<1>7. ASSUME NEW n \in 1..(Len(t) + 1)
      PROVE  Mod(last + n, m) = IF n <= Len(t) THEN t[n] ELSE Mod(next + total, m)
  <2>1. CASE n <= Len(s)
    <3>1. n \in 1..(Len(s) + 1) /\ n <= Len(t) /\ n \in 1..(Len(s) + total)
      BY <2>1, <1>4
    <3>2. Mod(last + n, m) = s[n]
      BY <2>1, <3>1 DEF Follows
    <3> QED
      BY <2>1, <3>1, <3>2, <1>3
  <2>2. CASE n > Len(s) /\ n <= Len(t)
    <3>1. PICK j \in 1..total : n = Len(s) + j /\ n \in 1..(Len(s) + total) /\ ~ (n <= Len(s)) /\ n - Len(s) = j
      <4>1. n - Len(s) \in 1..total /\ n = Len(s) + (n - Len(s)) /\ n \in 1..(Len(s) + total) /\ ~ (n <= Len(s))
        BY <2>2, <1>4
      <4> QED
        BY <4>1
    <3>2. t[n] = fresh[j]
      BY <3>1, <1>3
    <3>3. next + j - 1 = next + (j - 1) /\ j - 1 \in Nat /\ n = Len(s) + 1 + (j - 1)
      BY <3>1, <1>4
    <3>4. fresh[j] = Mod(next + (j - 1), m)
      BY <3>1, <3>3, <1>2
    <3>5. Mod(next + (j - 1), m) = Mod(last + n, m)
      BY <3>3, <1>6
    <3> QED
      BY <2>2, <3>2, <3>4, <3>5
  <2>3. CASE ~ (n <= Len(t))
    <3>1. n = Len(s) + 1 + total
      <4>1. PICK l \in Nat : l = Len(t)
        BY <1>4
      <4>2. n \in 1..(l + 1) /\ ~ (n <= l)
        BY <2>3, <4>1
      <4>3. n = l + 1
        BY <4>2
      <4>4. l = Len(s) + total
        BY <4>1, <1>4
      <4> QED
        BY <4>3, <4>4, <1>4
    <3>2. Mod(last + n, m) = Mod(next + total, m)
      BY <3>1, <1>6
    <3> QED
      BY <2>3, <3>2
  <2>4. n <= Len(s) \/ (n > Len(s) /\ n <= Len(t)) \/ ~ (n <= Len(t))
    BY <1>4
  <2> QED
    BY <2>1, <2>2, <2>3, <2>4
<1> QED
  BY <1>3, <1>7 DEF Follows, t, fresh

\* So does what is left over when some is used.
LEMMA RestFollows ==
  ASSUME NEW m \in Nat \ {0}, NEW s \in Seq(Samples(m)), NEW last \in Samples(m), NEW next \in Samples(m),
         Follows(s, m, last, next), NEW k \in 1..Len(s)
  PROVE  /\ s[k] \in Samples(m) /\ s[k] = Mod(last + k, m)
         /\ SubSeq(s, k + 1, Len(s)) \in Seq(Samples(m))
         /\ Follows(SubSeq(s, k + 1, Len(s)), m, s[k], next)
<1> next \in Nat /\ last \in Nat
  BY DEF Samples
<1> DEFINE t == SubSeq(s, k + 1, Len(s))
<1>1. Len(s) \in Nat /\ k \in Nat
  OBVIOUS
<1>2. t \in Seq(Samples(m)) /\ Len(t) = Len(s) - k /\ \A n \in 1..(Len(s) - k) : t[n] = s[k + n]
  BY <1>1
<1>3. s[k] \in Samples(m) /\ s[k] = Mod(last + k, m)
  BY <1>1 DEF Follows
<1> HIDE DEF t
<1>4. ASSUME NEW n \in 1..(Len(t) + 1)
      PROVE  Mod(s[k] + n, m) = IF n <= Len(t) THEN t[n] ELSE next
  <2>1. n \in Nat /\ k + n \in 1..(Len(s) + 1) /\ last + k \in Nat
    BY <1>1, <1>2
  <2>2. Mod(s[k] + n, m) = Mod(last + k + n, m)
    BY <1>3, <2>1, ModFacts
  <2>3. last + k + n = last + (k + n)
    BY <1>1, <2>1
  <2>4. Mod(s[k] + n, m) = IF k + n <= Len(s) THEN s[k + n] ELSE next
    BY <2>1, <2>2, <2>3 DEF Follows
  <2> QED
    BY <1>1, <1>2, <2>1, <2>4
<1> QED
  BY <1>2, <1>3, <1>4 DEF Follows, t

UsedOf(s, k) == IF Len(s) <= k THEN s ELSE SubSeq(s, 1, k)
ChunkOf(s, k, next, total, m) == UsedOf(s, k) \o Fresh(next, total, m)
RestOf(s, k, next, total, m) ==
    SubSeq(s, Len(UsedOf(s, k)) + 1, Len(s))
    \o SubSeq(ChunkOf(s, k, next, total, m), k + 1, Len(ChunkOf(s, k, next, total, m)))

LEMMA UsedLength ==
  ASSUME NEW S, NEW s \in Seq(S), NEW k \in Nat \ {0}
  PROVE  Len(UsedOf(s, k)) \in Nat
<1>1. CASE Len(s) <= k
  BY <1>1 DEF UsedOf
<1>2. CASE ~ (Len(s) <= k)
  <2>1. k \in 1..Len(s)
    BY <1>2
  <2>2. Len(SubSeq(s, 1, k)) = k
    BY <2>1, PrefixOf, Zenon
  <2> QED
    BY <1>2, <2>2 DEF UsedOf
<1> QED
  BY <1>1, <1>2

\* A chunk of k samples: those left over, then new frames, and what is left then.
LEMMA ChunkFollows ==
  ASSUME NEW m \in Nat \ {0}, NEW s \in Seq(Samples(m)), NEW last \in Samples(m), NEW next \in Samples(m),
         Follows(s, m, last, next), NEW k \in Nat \ {0}, NEW total \in Nat,
         total >= k - Len(UsedOf(s, k)), k - Len(UsedOf(s, k)) <= 0 => total = 0
  PROVE  /\ ChunkOf(s, k, next, total, m)[k] \in Samples(m)
         /\ ChunkOf(s, k, next, total, m)[k] = Mod(last + k, m)
         /\ Mod(next + total, m) \in Samples(m)
         /\ RestOf(s, k, next, total, m) \in Seq(Samples(m))
         /\ Follows(RestOf(s, k, next, total, m), m, ChunkOf(s, k, next, total, m)[k], Mod(next + total, m))
<1> DEFINE used == UsedOf(s, k)
           played == ChunkOf(s, k, next, total, m)[k]
           rest == RestOf(s, k, next, total, m)
<1>a. /\ used = IF Len(s) <= k THEN s ELSE SubSeq(s, 1, k)
      /\ played = (used \o Fresh(next, total, m))[k]
      /\ rest = SubSeq(s, Len(used) + 1, Len(s))
                \o SubSeq(used \o Fresh(next, total, m), k + 1, Len(used \o Fresh(next, total, m)))
      /\ total >= k - Len(used) /\ (k - Len(used) <= 0 => total = 0)
  BY DEF UsedOf, ChunkOf, RestOf
<1>b. SUFFICES /\ played \in Samples(m) /\ played = Mod(last + k, m)
               /\ Mod(next + total, m) \in Samples(m)
               /\ rest \in Seq(Samples(m)) /\ Follows(rest, m, played, Mod(next + total, m))
  OBVIOUS
<1> HIDE DEF used, played, rest
<1> USE <1>a
<1> next \in Nat /\ last \in Nat
  BY DEF Samples
<1> DEFINE fresh == Fresh(next, total, m)
<1>1. Len(s) \in Nat
  OBVIOUS
<1>2. Mod(next + total, m) \in Samples(m)
  <2>1. next + total \in Nat
    OBVIOUS
  <2> QED
    BY <2>1, ModFacts
<1>6. fresh \in Seq(Samples(m)) /\ Len(fresh) = total /\ \A n \in 1..total : fresh[n] = Mod(next + n - 1, m)
  BY NewFrames
<1> HIDE DEF fresh
<1>3. CASE Len(s) <= k
  <2> DEFINE t == s \o fresh
  <2>1. used = s
    BY <1>3
  <2>2. t \in Seq(Samples(m)) /\ Len(t) = Len(s) + total /\ Follows(t, m, last, Mod(next + total, m))
    <3> HIDE DEF t
    <3>1. /\ s \o fresh \in Seq(Samples(m)) /\ Len(s \o fresh) = Len(s) + total
          /\ Follows(s \o fresh, m, last, Mod(next + total, m))
      BY FramesFollow DEF fresh
    <3> QED
      BY <3>1 DEF t
  <2>3. played = t[k]
    BY <2>1 DEF fresh
  <2>4. rest = SubSeq(s, Len(s) + 1, Len(s)) \o SubSeq(t, k + 1, Len(t))
    BY <2>1 DEF fresh
  <2> HIDE DEF t
  <2>5. k \in 1..Len(t)
    BY <1>1, <2>1, <2>2
  <2>6. /\ t[k] \in Samples(m) /\ t[k] = Mod(last + k, m)
        /\ SubSeq(t, k + 1, Len(t)) \in Seq(Samples(m))
        /\ Follows(SubSeq(t, k + 1, Len(t)), m, t[k], Mod(next + total, m))
    BY <1>2, <2>2, <2>5, RestFollows
  <2>7. SubSeq(s, Len(s) + 1, Len(s)) = <<>>
    BY <1>1, SubSeqEmpty
  <2>8. rest = SubSeq(t, k + 1, Len(t))
    BY <2>4, <2>6, <2>7, ConcatEmptySeq
  <2> QED
    BY <1>2, <2>3, <2>6, <2>8
<1>4. CASE Len(s) > k
  <2>1. used = SubSeq(s, 1, k)
    BY <1>1, <1>4
  <2>2. used \in Seq(Samples(m)) /\ Len(used) = k /\ used[k] = s[k]
    <3>1. k \in 1..Len(s)
      BY <1>1, <1>4
    <3>2. SubSeq(s, 1, k) \in Seq(Samples(m)) /\ Len(SubSeq(s, 1, k)) = k /\ SubSeq(s, 1, k)[k] = s[k]
      BY <3>1, PrefixOf, Zenon
    <3> QED
      BY <2>1, <3>2, Zenon
  <2>3. total = 0
    BY <2>2
  <2>4. fresh = <<>>
    BY <2>3, <1>6, EmptySeq
  <2>5. used \o fresh = used
    BY <2>2, <2>4, ConcatEmptySeq
  <2>6. played = s[k]
    BY <2>2, <2>5 DEF fresh
  <2>7. SubSeq(used, k + 1, Len(used)) = <<>>
    BY <2>2, SubSeqEmpty
  <2>8. k \in 1..Len(s)
    BY <1>1, <1>4
  <2>9. /\ s[k] \in Samples(m) /\ s[k] = Mod(last + k, m)
        /\ SubSeq(s, k + 1, Len(s)) \in Seq(Samples(m))
        /\ Follows(SubSeq(s, k + 1, Len(s)), m, s[k], next)
    BY <2>8, RestFollows
  <2>10. rest = SubSeq(s, k + 1, Len(s))
    BY <2>2, <2>5, <2>7, <2>9, ConcatEmptySeq DEF fresh
  <2>11. Mod(next + total, m) = next
    <3>1. last + (Len(s) + 1) \in Nat
      BY <1>1
    <3>2. next = Mod(last + (Len(s) + 1), m)
      BY NextFollows
    <3>3. Mod(next + 0, m) = Mod(last + (Len(s) + 1) + 0, m)
      BY <3>1, <3>2, ModFacts
    <3> QED
      BY <1>1, <2>3, <3>2, <3>3
  <2> QED
    BY <2>6, <2>9, <2>10, <2>11
<1>5. Len(s) <= k \/ Len(s) > k
  BY <1>1
<1> QED
  BY <1>2, <1>3, <1>4, <1>5, Zenon

(***************************************************************************)
(* The lengths of a chunk.                                                 *)
(***************************************************************************)

InLength == ((Chunk + 1) * InRate) \div OutRate
OutLength == (2 * InLength * OutRate + InRate) \div (2 * InRate)

LEMMA Rates ==
  /\ InRate \in Nat \ {0} /\ OutRate \in Nat \ {0} /\ Chunk \in Nat \ {0} /\ Modulus \in Nat \ {0}
  /\ FadeTime \in Nat /\ MaxHeld \in Nat /\ MaxFormants \in Nat \ {0}
  /\ \A n \in Lengths : n \in Nat \ {0}
  /\ OutRate <= (Chunk + 1) * InRate
<1> USE SynthesisAssumption DEF Audio!SynthesizerAssumption, Filter!SynthesizerAssumption
<1>1. \A c \in {1, InRate, OutRate, Chunk, FadeTime, Modulus} \cup Lengths \cup Periods : c \in Nat \ {0}
  OBVIOUS
<1>2. \A c \in {MaxFormants, InRate, OutRate, Chunk, FadeTime, 2} \cup {2} \cup {1} : c \in Nat \ {0}
  OBVIOUS
<1>3. MaxHeld \in Nat /\ OutRate <= (Chunk + 1) * InRate
  OBVIOUS
<1> QED
  BY <1>1, <1>2, <1>3

\* A chunk takes a sample at least, and makes one.
LEMMA ChunkLengths ==
  /\ InLength \in Nat \ {0} /\ OutLength \in Nat \ {0}
  /\ Audio!inputLength = InLength /\ Filter!inputLength = InLength
<1> DEFINE a == (Chunk + 1) * InRate
           b == 2 * InLength * OutRate + InRate
<1> USE Rates
<1>1. a \in Nat /\ a >= 2 * InRate /\ a >= OutRate
  BY SMTT(60)
<1>2. InLength = a \div OutRate
  BY DEF InLength
<1> HIDE DEF a
<1>3. PICK r \in 0..(OutRate - 1) : InLength \in Nat /\ a = OutRate * InLength + r
  <2>1. a \div OutRate \in Nat /\ a % OutRate \in 0..(OutRate - 1) /\ a = (OutRate * (a \div OutRate)) + (a % OutRate)
    BY <1>1, DivMod
  <2>2. InLength \in Nat /\ a = OutRate * InLength + (a % OutRate)
    BY <1>2, <2>1, Zenon
  <2> QED
    BY <2>1, <2>2, Zenon
<1>4. InLength # 0
  <2> SUFFICES ASSUME InLength = 0 PROVE FALSE
    OBVIOUS
  <2>1. OutRate * InLength = 0
    OBVIOUS
  <2> QED
    BY <2>1, <1>1, <1>3
<1>5. PICK x \in Nat : x = OutRate * InLength /\ x >= OutRate /\ 2 * InLength * OutRate = 2 * x
  <2>1. OutRate * InLength \in Nat /\ OutRate * InLength >= OutRate * 1 /\ 2 * InLength * OutRate = 2 * (OutRate * InLength)
    BY <1>3, <1>4, SMTT(60)
  <2> QED
    BY <2>1
<1>6. 2 * x > a
  BY <1>1, <1>3, <1>5
<1>7. b = 2 * x + InRate /\ b \in Nat /\ b > 2 * InRate
  BY <1>1, <1>5, <1>6
<1>8. OutLength = b \div (2 * InRate)
  BY DEF OutLength
<1> HIDE DEF b
<1>9. PICK y \in 0..(2 * InRate - 1) : OutLength \in Nat /\ b = (2 * InRate) * OutLength + y
  <2>1. 2 * InRate \in Nat \ {0}
    OBVIOUS
  <2>2. /\ b \div (2 * InRate) \in Nat /\ b % (2 * InRate) \in 0..(2 * InRate - 1)
        /\ b = ((2 * InRate) * (b \div (2 * InRate))) + (b % (2 * InRate))
    BY <2>1, <1>7, DivMod
  <2>3. OutLength \in Nat /\ b = (2 * InRate) * OutLength + (b % (2 * InRate))
    BY <1>8, <2>2, Zenon
  <2> QED
    BY <2>2, <2>3, Zenon
<1>10. OutLength # 0
  <2> SUFFICES ASSUME OutLength = 0 PROVE FALSE
    OBVIOUS
  <2>1. (2 * InRate) * OutLength = 0
    OBVIOUS
  <2> QED
    BY <2>1, <1>7, <1>9
<1>11. Audio!inputLength = InLength /\ Filter!inputLength = InLength
  BY DEF Audio!inputLength, Filter!inputLength, Audio!getRequiredInLength, Filter!getRequiredInLength, InLength
<1> QED
  BY <1>3, <1>4, <1>9, <1>10, <1>11

\* The number of formants stays between the old one and the new.
LEMMA Smoothing ==
  ASSUME NEW M \in Nat, NEW c \in 0..(10 * M), NEW f \in 0..M, NEW d,
         \/ d = 10 * f
         \/ d = (4 * c + 60 * f) \div 10
         \/ d = ((4 * c + 60 * f) + 9) \div 10
  PROVE  d \in 0..(10 * M) /\ (d + 5) \div 10 \in 0..M
<1>1. d \in 0..(10 * M)
  OBVIOUS
<1> QED
  BY <1>1

\* What the resampler generates, and keeps.
LEMMA AudioResampled ==
  ASSUME NEW p \in Audio!process(InLength, InRate, OutRate, held, MaxHeld), held \in 0..MaxHeld
  PROVE  p.generated \in 0..OutLength /\ p.held \in 0..MaxHeld
<1>1. Audio!getExpectedOutLength(InLength, InRate, OutRate) = OutLength
  BY ChunkLengths DEF Audio!getExpectedOutLength, OutLength
<1> QED
  BY <1>1 DEF Audio!process, Audio!src_process

LEMMA FilterResampled ==
  ASSUME NEW p \in Filter!process(InLength, InRate, OutRate, held, MaxHeld), held \in 0..MaxHeld
  PROVE  p.generated \in 0..OutLength /\ p.held \in 0..MaxHeld
<1>1. Filter!getExpectedOutLength(InLength, InRate, OutRate) = OutLength
  BY ChunkLengths DEF Filter!getExpectedOutLength, OutLength
<1> QED
  BY <1>1 DEF Filter!process, Filter!src_process

\* New frames fill the chunk, and none are made when it is full.
LEMMA AudioFrames ==
  ASSUME NEW missing \in Int, NEW total \in Audio!FrameTotals(missing)
  PROVE  total \in Nat /\ total >= missing /\ (missing <= 0 => total = 0)
<1>1. Audio!Longest \in Nat
  <2>1. \E p \in Periods : \A q \in Periods : p >= q
    BY SynthesisAssumption DEF Audio!SynthesizerAssumption
  <2>2. \A p \in Periods : p \in Nat
    BY SynthesisAssumption DEF Audio!SynthesizerAssumption
  <2> QED
    BY <2>1, <2>2 DEF Audio!Longest
<1> QED
  BY <1>1 DEF Audio!FrameTotals

LEMMA FilterFrames ==
  ASSUME NEW missing \in Int, NEW total \in Filter!FrameTotals(missing)
  PROVE  total \in Nat /\ total >= missing /\ (missing <= 0 => total = 0)
<1>1. Filter!Longest = 1
  BY DEF Filter!Longest
<1> QED
  BY <1>1 DEF Filter!FrameTotals

(***************************************************************************)
(* The audio: what is left over follows, and the bank is bounded.          *)
(***************************************************************************)

AudioInv ==
    /\ Audio!TypeOK
    /\ Follows(glotSurplus, Modulus, lastGlot, nextGlot)
    /\ surplus < OutLength + (IF pc = "idle" THEN 0 ELSE length)

LEMMA AudioStarts ==
  ASSUME Audio!Init
  PROVE  AudioInv
<1> USE Rates, ChunkLengths DEF Audio!Init
<1>1. Audio!TypeOK
  <2>1. {masterGain, glotGain} \subseteq BOOLEAN
    BY Zenon
  <2> QED
    BY <2>1 DEF Audio!TypeOK
<1>2. Follows(glotSurplus, Modulus, lastGlot, nextGlot)
  <2>1. Len(glotSurplus) = 0 /\ 1..(0 + 1) = {1}
    OBVIOUS
  <2>2. Mod(lastGlot + 1, Modulus) = 0
    BY SMTT(60) DEF Mod
  <2> QED
    BY <2>1, <2>2 DEF Follows
<1>3. surplus < OutLength + (IF pc = "idle" THEN 0 ELSE length)
  OBVIOUS
<1> QED
  BY <1>1, <1>2, <1>3 DEF AudioInv

\* The chunk's samples go on from the last chunk's.
LEMMA AudioGlot ==
  ASSUME AudioInv, Audio!GenerateGlot
  PROVE  /\ glotSurplus' \in Seq(Samples(Modulus)) /\ nextGlot' \in Samples(Modulus) /\ lastGlot' \in Samples(Modulus)
         /\ Follows(glotSurplus', Modulus, lastGlot', nextGlot')
         /\ lastGlot' = Mod(lastGlot + InLength, Modulus)
<1> USE Rates, ChunkLengths
<1>1. glotSurplus \in Seq(Samples(Modulus)) /\ nextGlot \in Samples(Modulus) /\ lastGlot \in Samples(Modulus)
  BY DEF AudioInv, Audio!TypeOK, Samples
<1>2. Follows(glotSurplus, Modulus, lastGlot, nextGlot)
  BY DEF AudioInv
<1>3. Audio!Used = UsedOf(glotSurplus, InLength)
  BY DEF Audio!Used, UsedOf
<1>4. PICK total \in Audio!FrameTotals(InLength - Len(UsedOf(glotSurplus, InLength))) :
          /\ nextGlot' = Mod(nextGlot + total, Modulus)
          /\ lastGlot' = ChunkOf(glotSurplus, InLength, nextGlot, total, Modulus)[InLength]
          /\ glotSurplus' = RestOf(glotSurplus, InLength, nextGlot, total, Modulus)
  BY <1>3, Zenon DEF Audio!GenerateGlot, Audio!Kept, Audio!Number, Mod, Fresh, ChunkOf, RestOf
<1>5. Len(UsedOf(glotSurplus, InLength)) \in Nat
  BY <1>1, UsedLength
<1>6. InLength - Len(UsedOf(glotSurplus, InLength)) \in Int
  BY <1>5
<1>7. /\ total \in Nat /\ total >= InLength - Len(UsedOf(glotSurplus, InLength))
      /\ InLength - Len(UsedOf(glotSurplus, InLength)) <= 0 => total = 0
  BY <1>6, AudioFrames, Zenon
<1>8. /\ ChunkOf(glotSurplus, InLength, nextGlot, total, Modulus)[InLength] \in Samples(Modulus)
      /\ ChunkOf(glotSurplus, InLength, nextGlot, total, Modulus)[InLength] = Mod(lastGlot + InLength, Modulus)
      /\ Mod(nextGlot + total, Modulus) \in Samples(Modulus)
      /\ RestOf(glotSurplus, InLength, nextGlot, total, Modulus) \in Seq(Samples(Modulus))
      /\ Follows(RestOf(glotSurplus, InLength, nextGlot, total, Modulus), Modulus,
                 ChunkOf(glotSurplus, InLength, nextGlot, total, Modulus)[InLength], Mod(nextGlot + total, Modulus))
  BY <1>1, <1>2, <1>7, ChunkFollows
<1> QED
  BY <1>4, <1>8, Zenon

LEMMA AudioSteps ==
  ASSUME AudioInv, Audio!Next
  PROVE  AudioInv'
<1> USE Rates, ChunkLengths
<1>1. CASE \E n \in Lengths : Audio!AudioCallback(n)
  <2>1. PICK n \in Lengths : Audio!AudioCallback(n)
    BY <1>1
  <2> USE <2>1 DEF Audio!AudioCallback, Audio!params, Audio!audio
  <2>2. {masterGain', glotGain'} \subseteq BOOLEAN
    BY Zenon DEF AudioInv, Audio!TypeOK
  <2>3. formantCount' \in 0..(10 * 1) /\ realFormants' \in 0..1
    <3>1. formantCount \in 0..(10 * 1) /\ formants \in 0..1
      BY DEF AudioInv, Audio!TypeOK
    <3>2. \/ formantCount' = 10 * formants
          \/ formantCount' = (4 * formantCount + 60 * formants) \div 10
          \/ formantCount' = ((4 * formantCount + 60 * formants) + 9) \div 10
      <4>1. formantCount' \in Audio!Smoothed
        OBVIOUS
      <4> QED
        BY <4>1, Zenon DEF Audio!Smoothed
    <3>3. realFormants' = (formantCount' + 5) \div 10
      BY DEF Audio!Resized, Audio!Rounded
    <3>4. formantCount' \in 0..(10 * 1) /\ (formantCount' + 5) \div 10 \in 0..1
      <4> HIDE <2>1
      <4>1. PICK M \in Nat : M = 1
        OBVIOUS
      <4>2. formantCount' \in 0..(10 * M) /\ (formantCount' + 5) \div 10 \in 0..M
        BY <3>1, <3>2, <4>1, Smoothing, Zenon
      <4> QED
        BY <4>1, <4>2
    <3> QED
      BY <3>3, <3>4, Zenon
  <2>4. {realMasterGain', realGlotGain'} \subseteq 0..FadeTime
    <3>1. ASSUME NEW real \in 0..FadeTime, NEW gain
          PROVE  Audio!Faded(real, gain) \in 0..FadeTime
      BY DEF Audio!Faded
    <3> QED
      BY <3>1 DEF AudioInv, Audio!TypeOK
  <2>5. Audio!TypeOK'
    BY <2>2, <2>3, <2>4 DEF AudioInv, Audio!TypeOK
  <2>6. (Follows(glotSurplus, Modulus, lastGlot, nextGlot))'
    BY DEF AudioInv, Follows
  <2>7. (surplus < OutLength + (IF pc = "idle" THEN 0 ELSE length))'
    BY DEF AudioInv, Audio!TypeOK
  <2> QED
    BY <2>5, <2>6, <2>7 DEF AudioInv
<1>2. CASE Audio!SmoothFormant
  <2> USE <1>2 DEF Audio!SmoothFormant, Audio!params, Audio!audio, Audio!smooth
  <2>1. {masterGain', glotGain'} \subseteq BOOLEAN
    BY Zenon DEF AudioInv, Audio!TypeOK
  <2>2. i' \in 0..1
    BY DEF AudioInv, Audio!TypeOK
  <2>3. Audio!TypeOK'
    BY <2>1, <2>2 DEF AudioInv, Audio!TypeOK
  <2>4. (Follows(glotSurplus, Modulus, lastGlot, nextGlot))'
    BY DEF AudioInv, Follows
  <2>5. (surplus < OutLength + (IF pc = "idle" THEN 0 ELSE length))'
    BY DEF AudioInv
  <2> QED
    BY <2>3, <2>4, <2>5 DEF AudioInv
<1>3. CASE Audio!LockRealFilter \/ Audio!AssignFilter
  <2> USE <1>3 DEF Audio!LockRealFilter, Audio!AssignFilter, Audio!callback, Audio!params, Audio!audio, Audio!smooth
  <2>1. {masterGain', glotGain'} \subseteq BOOLEAN
    BY Zenon DEF AudioInv, Audio!TypeOK
  <2>2. Audio!TypeOK'
    BY <2>1 DEF AudioInv, Audio!TypeOK
  <2>3. (Follows(glotSurplus, Modulus, lastGlot, nextGlot))'
    BY DEF AudioInv, Follows
  <2>4. (surplus < OutLength + (IF pc = "idle" THEN 0 ELSE length))'
    BY DEF AudioInv
  <2> QED
    BY <2>2, <2>3, <2>4 DEF AudioInv
<1>4. CASE Audio!GenerateAudio
  <2> USE <1>4 DEF Audio!GenerateAudio, Audio!params, Audio!smooth
  <2>1. {masterGain', glotGain'} \subseteq BOOLEAN
    BY Zenon DEF AudioInv, Audio!TypeOK
  <2>2. /\ glotSurplus' \in Seq(Samples(Modulus)) /\ nextGlot' \in Samples(Modulus) /\ lastGlot' \in Samples(Modulus)
        /\ Follows(glotSurplus', Modulus, lastGlot', nextGlot')
    <3>1. CASE Audio!GenerateGlot
      BY <3>1, AudioGlot, Zenon
    <3>2. CASE UNCHANGED <<glotSurplus, nextGlot, lastGlot>>
      BY <3>2 DEF AudioInv, Audio!TypeOK, Samples
    <3> QED
      BY <3>1, <3>2, Zenon
  <2>3. held \in 0..MaxHeld
    BY DEF AudioInv, Audio!TypeOK
  <2>4. PICK p \in Audio!process(InLength, InRate, OutRate, held, MaxHeld) :
            surplus' = surplus + p.generated /\ held' = p.held
    BY Zenon
  <2>5. p.generated \in 0..OutLength /\ p.held \in 0..MaxHeld
    BY <2>3, AudioResampled
  <2>6. surplus' \in Nat /\ held' \in 0..MaxHeld
    <3>1. surplus \in Nat
      BY DEF AudioInv, Audio!TypeOK
    <3> HIDE <1>4 DEF Audio!GenerateAudio
    <3> QED
      BY <2>4, <2>5, <3>1
  <2>7. Audio!TypeOK'
    BY <2>1, <2>2, <2>6 DEF AudioInv, Audio!TypeOK, Samples
  <2>8. (surplus < OutLength + (IF pc = "idle" THEN 0 ELSE length))'
    <3>1. pc' = pc /\ pc # "idle" /\ length' = length /\ surplus < length
      BY DEF Audio!Missing
    <3>2. surplus \in Nat /\ length \in Nat
      BY DEF AudioInv, Audio!TypeOK
    <3> HIDE <1>4 DEF Audio!GenerateAudio
    <3> QED
      BY <2>4, <2>5, <3>1, <3>2
  <2> QED
    BY <2>2, <2>7, <2>8 DEF AudioInv
<1>5. CASE Audio!Deliver
  <2> USE <1>5 DEF Audio!Deliver, Audio!params, Audio!smooth
  <2>1. {masterGain', glotGain'} \subseteq BOOLEAN
    BY Zenon DEF AudioInv, Audio!TypeOK
  <2>2. surplus' \in Nat
    BY DEF AudioInv, Audio!TypeOK, Audio!Missing
  <2>3. Audio!TypeOK'
    BY <2>1, <2>2 DEF AudioInv, Audio!TypeOK
  <2>4. (Follows(glotSurplus, Modulus, lastGlot, nextGlot))'
    BY DEF AudioInv, Follows
  <2>5. (surplus < OutLength + (IF pc = "idle" THEN 0 ELSE length))'
    BY DEF AudioInv, Audio!TypeOK
  <2> QED
    BY <2>3, <2>4, <2>5 DEF AudioInv
<1>6. CASE Audio!Copying
  <2> USE <1>6 DEF Audio!Copying, Audio!CopyFilter, Audio!UnlockFilter, Audio!reading, Audio!params, Audio!audio, Audio!smooth
  <2>1. {masterGain', glotGain'} \subseteq BOOLEAN
    BY Zenon DEF AudioInv, Audio!TypeOK
  <2>2. Audio!TypeOK'
    BY <2>1 DEF AudioInv, Audio!TypeOK
  <2>3. (Follows(glotSurplus, Modulus, lastGlot, nextGlot))'
    BY DEF AudioInv, Follows
  <2>4. (surplus < OutLength + (IF pc = "idle" THEN 0 ELSE length))'
    BY DEF AudioInv
  <2> QED
    BY <2>2, <2>3, <2>4 DEF AudioInv
<1>7. CASE \E master, glot \in BOOLEAN : Audio!setGains(master, glot)
  <2> USE <1>7 DEF Audio!setGains, Audio!audio, Audio!smooth
  <2>1. {masterGain', glotGain'} \subseteq BOOLEAN
    BY Zenon
  <2>2. Audio!TypeOK'
    BY <2>1 DEF AudioInv, Audio!TypeOK
  <2>3. (Follows(glotSurplus, Modulus, lastGlot, nextGlot))'
    BY DEF AudioInv, Follows
  <2>4. (surplus < OutLength + (IF pc = "idle" THEN 0 ELSE length))'
    BY DEF AudioInv
  <2> QED
    BY <2>2, <2>3, <2>4 DEF AudioInv
<1> QED
  BY <1>1, <1>2, <1>3, <1>4, <1>5, <1>6, <1>7 DEF Audio!Next, Audio!Synthesis

(***************************************************************************)
(* The filter: the smoothing stays within its vectors, and who holds the   *)
(* mutex sees a filter that is whole.                                      *)
(***************************************************************************)

FilterTypes ==
    /\ Filter!TypeOK
    /\ Follows(glotSurplus, 2, lastGlot, nextGlot)
    /\ realFormants = Filter!Rounded(formantCount)

FilterWhole ==
    /\ reader # "idle" <=> realFilterMutex = "datavis"
    /\ pc \in {"assign", "assigned"} <=> realFilterMutex = "synthesis"
    /\ realFilter \in [1..2 -> 0..1] /\ filterCopy \in [1..2 -> 0..1]
    /\ pc # "assigned" => realFilter[1] = realFilter[2]
    /\ pc = "assigned" => realFilter[1] = 1 - realFilter[2]
    /\ reader = "half" => filterCopy[1] = realFilter[1]
    /\ reader \in {"idle", "copied"} => filterCopy[1] = filterCopy[2]

FilterInv == FilterTypes /\ FilterWhole

LEMMA FilterStarts ==
  ASSUME Filter!Init
  PROVE  FilterInv
<1> USE Rates, ChunkLengths DEF Filter!Init
<1>1. Filter!TypeOK
  <2>1. {masterGain, glotGain} \subseteq BOOLEAN
    BY Zenon
  <2> QED
    BY <2>1 DEF Filter!TypeOK
<1>2. Follows(glotSurplus, 2, lastGlot, nextGlot)
  <2>1. Len(glotSurplus) = 0 /\ 1..(0 + 1) = {1}
    OBVIOUS
  <2>2. Mod(lastGlot + 1, 2) = 0
    BY DEF Mod
  <2> QED
    BY <2>1, <2>2 DEF Follows
<1>3. realFormants = Filter!Rounded(formantCount)
  BY DEF Filter!Rounded
<1>4. FilterWhole
  BY DEF FilterWhole
<1> QED
  BY <1>1, <1>2, <1>3, <1>4 DEF FilterInv, FilterTypes

LEMMA FilterGlot ==
  ASSUME FilterTypes, Filter!GenerateGlot
  PROVE  /\ glotSurplus' \in Seq(Samples(2)) /\ nextGlot' \in Samples(2) /\ lastGlot' \in Samples(2)
         /\ Follows(glotSurplus', 2, lastGlot', nextGlot')
<1> USE Rates, ChunkLengths
<1>1. glotSurplus \in Seq(Samples(2)) /\ nextGlot \in Samples(2) /\ lastGlot \in Samples(2) /\ 2 \in Nat \ {0}
  BY DEF FilterTypes, Filter!TypeOK, Samples
<1>2. Follows(glotSurplus, 2, lastGlot, nextGlot)
  BY DEF FilterTypes
<1>3. Filter!Used = UsedOf(glotSurplus, InLength)
  BY DEF Filter!Used, UsedOf
<1>4. PICK total \in Filter!FrameTotals(InLength - Len(UsedOf(glotSurplus, InLength))) :
          /\ nextGlot' = Mod(nextGlot + total, 2)
          /\ lastGlot' = ChunkOf(glotSurplus, InLength, nextGlot, total, 2)[InLength]
          /\ glotSurplus' = RestOf(glotSurplus, InLength, nextGlot, total, 2)
  BY <1>3, Zenon DEF Filter!GenerateGlot, Filter!Kept, Filter!Number, Mod, Fresh, ChunkOf, RestOf
<1>5. Len(UsedOf(glotSurplus, InLength)) \in Nat
  BY <1>1, UsedLength
<1>6. InLength - Len(UsedOf(glotSurplus, InLength)) \in Int
  BY <1>5
<1>7. /\ total \in Nat /\ total >= InLength - Len(UsedOf(glotSurplus, InLength))
      /\ InLength - Len(UsedOf(glotSurplus, InLength)) <= 0 => total = 0
  BY <1>6, FilterFrames, Zenon
<1>8. /\ ChunkOf(glotSurplus, InLength, nextGlot, total, 2)[InLength] \in Samples(2)
      /\ Mod(nextGlot + total, 2) \in Samples(2)
      /\ RestOf(glotSurplus, InLength, nextGlot, total, 2) \in Seq(Samples(2))
      /\ Follows(RestOf(glotSurplus, InLength, nextGlot, total, 2), 2,
                 ChunkOf(glotSurplus, InLength, nextGlot, total, 2)[InLength], Mod(nextGlot + total, 2))
  BY <1>1, <1>2, <1>7, ChunkFollows
<1> QED
  BY <1>4, <1>8, Zenon

LEMMA FilterTypeSteps ==
  ASSUME FilterTypes, Filter!Next
  PROVE  FilterTypes'
<1> USE Rates, ChunkLengths
<1>1. CASE \E n \in {2} : Filter!AudioCallback(n)
  <2>0. PICK n \in {2} : Filter!AudioCallback(n)
    BY <1>1
  <2> USE <2>0 DEF Filter!AudioCallback, Filter!params, Filter!audio
  <2>1. {masterGain', glotGain'} \subseteq BOOLEAN
    BY Zenon DEF FilterTypes, Filter!TypeOK
  <2>2. realFormants' = (formantCount' + 5) \div 10
    BY DEF Filter!Resized, Filter!Rounded
  <2>3. formantCount' \in 0..(10 * MaxFormants) /\ realFormants' \in 0..MaxFormants
    <3>1. formantCount \in 0..(10 * MaxFormants) /\ formants \in 0..MaxFormants
      BY DEF FilterTypes, Filter!TypeOK
    <3>2. \/ formantCount' = 10 * formants
          \/ formantCount' = (4 * formantCount + 60 * formants) \div 10
          \/ formantCount' = ((4 * formantCount + 60 * formants) + 9) \div 10
      <4>1. formantCount' \in Filter!Smoothed
        OBVIOUS
      <4> QED
        BY <4>1, Zenon DEF Filter!Smoothed
    <3>3. formantCount' \in 0..(10 * MaxFormants) /\ (formantCount' + 5) \div 10 \in 0..MaxFormants
      <4> HIDE <2>0
      <4>1. MaxFormants \in Nat
        OBVIOUS
      <4> QED
        BY <3>1, <3>2, <4>1, Smoothing, Zenon
    <3> QED
      BY <2>2, <3>3, Zenon
  <2>4. {realMasterGain', realGlotGain'} \subseteq 0..FadeTime
    <3>1. ASSUME NEW real \in 0..FadeTime, NEW gain
          PROVE  Filter!Faded(real, gain) \in 0..FadeTime
      BY DEF Filter!Faded
    <3> QED
      BY <3>1 DEF FilterTypes, Filter!TypeOK
  <2>7. Filter!TypeOK'
    BY <2>1, <2>3, <2>4 DEF FilterTypes, Filter!TypeOK
  <2>8. (Follows(glotSurplus, 2, lastGlot, nextGlot))'
    BY DEF FilterTypes, Follows
  <2>9. (realFormants = Filter!Rounded(formantCount))'
    BY <2>2 DEF Filter!Rounded
  <2> QED
    BY <2>7, <2>8, <2>9 DEF FilterTypes
<1>2. CASE Filter!SmoothFormant
  <2> USE <1>2 DEF Filter!SmoothFormant, Filter!params, Filter!audio, Filter!smooth
  <2>1. {masterGain', glotGain'} \subseteq BOOLEAN
    BY Zenon DEF FilterTypes, Filter!TypeOK
  <2>2. i' \in 0..MaxFormants
    BY DEF FilterTypes, Filter!TypeOK
  <2>7. Filter!TypeOK'
    BY <2>1, <2>2 DEF FilterTypes, Filter!TypeOK
  <2>8. (Follows(glotSurplus, 2, lastGlot, nextGlot))'
    BY DEF FilterTypes, Follows
  <2>9. (realFormants = Filter!Rounded(formantCount))'
    BY DEF FilterTypes, Filter!Rounded
  <2> QED
    BY <2>7, <2>8, <2>9 DEF FilterTypes
<1>3. CASE Filter!LockRealFilter \/ Filter!AssignFilter
  <2> USE <1>3 DEF Filter!LockRealFilter, Filter!AssignFilter, Filter!callback, Filter!params, Filter!audio, Filter!smooth
  <2>1. {masterGain', glotGain'} \subseteq BOOLEAN
    BY Zenon DEF FilterTypes, Filter!TypeOK
  <2>7. Filter!TypeOK'
    BY <2>1 DEF FilterTypes, Filter!TypeOK
  <2>8. (Follows(glotSurplus, 2, lastGlot, nextGlot))'
    BY DEF FilterTypes, Follows
  <2>9. (realFormants = Filter!Rounded(formantCount))'
    BY DEF FilterTypes, Filter!Rounded
  <2> QED
    BY <2>7, <2>8, <2>9 DEF FilterTypes
<1>4. CASE Filter!GenerateAudio
  <2> USE <1>4 DEF Filter!GenerateAudio, Filter!params, Filter!smooth
  <2>1. {masterGain', glotGain'} \subseteq BOOLEAN
    BY Zenon DEF FilterTypes, Filter!TypeOK
  <2>2. /\ glotSurplus' \in Seq(Samples(2)) /\ nextGlot' \in Samples(2) /\ lastGlot' \in Samples(2)
        /\ Follows(glotSurplus', 2, lastGlot', nextGlot')
    <3>1. CASE Filter!GenerateGlot
      BY <3>1, FilterGlot, Zenon
    <3>2. CASE UNCHANGED <<glotSurplus, nextGlot, lastGlot>>
      BY <3>2 DEF FilterTypes, Filter!TypeOK, Samples
    <3> QED
      BY <3>1, <3>2, Zenon
  <2>3. held \in 0..MaxHeld
    BY DEF FilterTypes, Filter!TypeOK
  <2>4. PICK p \in Filter!process(InLength, InRate, OutRate, held, MaxHeld) :
            surplus' = surplus + p.generated /\ held' = p.held
    BY Zenon
  <2>5. p.generated \in 0..OutLength /\ p.held \in 0..MaxHeld
    BY <2>3, FilterResampled
  <2>6. surplus' \in Nat /\ held' \in 0..MaxHeld
    <3>1. surplus \in Nat
      BY DEF FilterTypes, Filter!TypeOK
    <3> HIDE <1>4 DEF Filter!GenerateAudio
    <3> QED
      BY <2>4, <2>5, <3>1
  <2>7. Filter!TypeOK'
    BY <2>1, <2>2, <2>6 DEF FilterTypes, Filter!TypeOK, Samples
  <2>8. (Follows(glotSurplus, 2, lastGlot, nextGlot))'
    BY <2>2
  <2>9. (realFormants = Filter!Rounded(formantCount))'
    BY DEF FilterTypes, Filter!Rounded
  <2> QED
    BY <2>7, <2>8, <2>9 DEF FilterTypes
<1>5. CASE Filter!Deliver
  <2> USE <1>5 DEF Filter!Deliver, Filter!params, Filter!smooth
  <2>1. {masterGain', glotGain'} \subseteq BOOLEAN
    BY Zenon DEF FilterTypes, Filter!TypeOK
  <2>2. surplus' \in Nat
    BY DEF FilterTypes, Filter!TypeOK, Filter!Missing
  <2>7. Filter!TypeOK'
    BY <2>1, <2>2 DEF FilterTypes, Filter!TypeOK
  <2>8. (Follows(glotSurplus, 2, lastGlot, nextGlot))'
    BY DEF FilterTypes, Follows
  <2>9. (realFormants = Filter!Rounded(formantCount))'
    BY DEF FilterTypes, Filter!Rounded
  <2> QED
    BY <2>7, <2>8, <2>9 DEF FilterTypes
<1>6. CASE Filter!Copying \/ Filter!LockFilter
  <2> USE <1>6 DEF Filter!Copying, Filter!CopyFilter, Filter!UnlockFilter, Filter!LockFilter, Filter!reading,
         Filter!params, Filter!audio, Filter!smooth
  <2>1. {masterGain', glotGain'} \subseteq BOOLEAN
    BY Zenon DEF FilterTypes, Filter!TypeOK
  <2>7. Filter!TypeOK'
    BY <2>1 DEF FilterTypes, Filter!TypeOK
  <2>8. (Follows(glotSurplus, 2, lastGlot, nextGlot))'
    BY DEF FilterTypes, Follows
  <2>9. (realFormants = Filter!Rounded(formantCount))'
    BY DEF FilterTypes, Filter!Rounded
  <2> QED
    BY <2>7, <2>8, <2>9 DEF FilterTypes
<1>7. CASE \E n \in 0..MaxFormants : Filter!setFormants(n)
  <2> USE <1>7 DEF Filter!setFormants, Filter!audio, Filter!smooth
  <2>1. {masterGain', glotGain'} \subseteq BOOLEAN
    BY Zenon DEF FilterTypes, Filter!TypeOK
  <2>7. Filter!TypeOK'
    BY <2>1 DEF FilterTypes, Filter!TypeOK
  <2>8. (Follows(glotSurplus, 2, lastGlot, nextGlot))'
    BY DEF FilterTypes, Follows
  <2>9. (realFormants = Filter!Rounded(formantCount))'
    BY DEF FilterTypes, Filter!Rounded
  <2> QED
    BY <2>7, <2>8, <2>9 DEF FilterTypes
<1> QED
  BY <1>1, <1>2, <1>3, <1>4, <1>5, <1>6, <1>7 DEF Filter!Next, Filter!Synthesis

\* Who is in the middle of an assignment or of a copy has the mutex, so that the
\* other's filter does not change under it.
LEMMA FilterWholeSteps ==
  ASSUME FilterTypes, FilterWhole, Filter!Next
  PROVE  FilterWhole'
<1>1. CASE \E n \in {2} : Filter!AudioCallback(n)
  BY <1>1 DEF FilterWhole, Filter!AudioCallback
<1>2. CASE Filter!SmoothFormant
  BY <1>2 DEF FilterWhole, Filter!SmoothFormant
<1>3. CASE Filter!LockRealFilter
  BY <1>3 DEF FilterWhole, Filter!LockRealFilter, Filter!callback
<1>4. CASE Filter!AssignFilter
  <2>1. CASE pc = "assign"
    BY <1>4, <2>1 DEF FilterWhole, Filter!AssignFilter, Filter!callback
  <2>2. CASE pc = "assigned"
    BY <1>4, <2>2 DEF FilterWhole, Filter!AssignFilter, Filter!callback
  <2> QED
    BY <1>4, <2>1, <2>2 DEF Filter!AssignFilter
<1>5. CASE Filter!GenerateAudio \/ Filter!Deliver
  BY <1>5 DEF FilterWhole, Filter!GenerateAudio, Filter!Deliver
<1>6. CASE Filter!CopyFilter
  BY <1>6 DEF FilterWhole, Filter!CopyFilter, Filter!reading
<1>7. CASE Filter!UnlockFilter
  BY <1>7 DEF FilterWhole, Filter!UnlockFilter, Filter!reading
<1>8. CASE Filter!LockFilter
  BY <1>8 DEF FilterWhole, Filter!LockFilter, Filter!reading
<1>9. CASE \E n \in 0..MaxFormants : Filter!setFormants(n)
  BY <1>9 DEF FilterWhole, Filter!setFormants
<1> QED
  BY <1>1, <1>2, <1>3, <1>4, <1>5, <1>6, <1>7, <1>8, <1>9 DEF Filter!Next, Filter!Synthesis, Filter!Copying

(***************************************************************************)
(* The playback queue: never longer than two blocks.                       *)
(***************************************************************************)

LEMMA TimesGrows ==
  ASSUME NEW a \in Int, NEW b \in Int, NEW c \in Nat, a <= b
  PROVE  c * a <= c * b
<1>1. (b - a) \in Nat
  OBVIOUS
<1>2. c * (b - a) >= 0
  BY <1>1, SMTT(60)
<1>3. c * (b - a) = c * b - c * a
  BY SMTT(60)
<1> QED
  BY <1>2, <1>3

\* A block is longer when it lasts longer, or at a faster rate.
LEMMA BlockGrows ==
  ASSUME NEW d \in Nat, NEW e \in Nat, NEW r \in Nat, NEW q \in Nat, d <= e, r <= q
  PROVE  (2 * d * r + 4) \div 8 <= (2 * e * q + 4) \div 8
<1>1. d * r <= d * q
  BY TimesGrows
<1>2. q * d <= q * e
  BY TimesGrows
<1>3. PICK x, y \in Nat : x = d * r /\ y = e * q /\ x <= y
  BY <1>1, <1>2
<1>4. 2 * d * r = 2 * x /\ 2 * e * q = 2 * y
  BY <1>3
<1> QED
  BY <1>3, <1>4

\* What a block of the synthesizer's becomes is no longer than a block of the
\* device's, but for the roundings.
LEMMA BlockResampled ==
  ASSUME NEW S \in Nat \ {0}, NEW F \in Nat, NEW d \in Nat, NEW b \in Nat, NEW r \in Nat,
         r <= F, 8 * b <= 2 * d * S + 4
  PROVE  (2 * b * r + S) \div (2 * S) <= (2 * d * F + 4) \div 8 + F \div (2 * S) + 1
<1> DEFINE e == (2 * b * r + S) \div (2 * S)
           B == (2 * d * F + 4) \div 8
           y == F \div (2 * S)
<1>1. e \in Nat /\ (2 * S) * e <= 2 * b * r + S
  <2>1. PICK x, n \in Nat : x = 2 * b * r + S /\ n = 2 * S /\ n # 0
    OBVIOUS
  <2>2. e = x \div n
    BY <2>1
  <2> HIDE DEF e
  <2>3. e \in Nat /\ x % n \in 0..(n - 1) /\ x = (n * e) + (x % n)
    BY <2>1, <2>2, DivMod
  <2>4. PICK w \in Int : w = n * e
    BY <2>3
  <2>5. w <= x
    BY <2>1, <2>3, <2>4
  <2> QED
    BY <2>1, <2>3, <2>4, <2>5
<1>2. B \in Nat /\ 8 * B >= 2 * d * F - 3
  <2>1. PICK x \in Nat : x = 2 * d * F
    OBVIOUS
  <2> QED
    BY <2>1
<1>3. y \in Nat /\ (2 * S) * y >= F - 2 * S + 1
  <2>1. 2 * S \in Nat \ {0}
    OBVIOUS
  <2>2. y \in Nat /\ F % (2 * S) \in 0..(2 * S - 1) /\ F = ((2 * S) * y) + (F % (2 * S))
    BY <2>1, DivMod
  <2> HIDE DEF y
  <2> QED
    BY <2>1, <2>2
<1> HIDE DEF e, B, y
<1>4. PICK X, Z, W \in Int : X = S * e /\ Z = S * B /\ W = S * y
  BY <1>1, <1>2, <1>3
<1>5. PICK P, G \in Int : P = S * (d * F) /\ G = b * F
  OBVIOUS
<1>6. 2 * X <= 2 * G + S
  <2>1. b * r <= G
    BY <1>5, TimesGrows
  <2>2. (2 * S) * e = 2 * X /\ 2 * b * r = 2 * (b * r)
    BY <1>1, <1>4, SMTT(60)
  <2> QED
    BY <1>1, <1>4, <1>5, <2>1, <2>2
<1>7. 8 * G <= 2 * P + 4 * F
  <2>1. F * (8 * b) <= F * (2 * d * S + 4)
    BY TimesGrows
  <2>2. F * (8 * b) = 8 * G
    BY <1>5, SMTT(60)
  <2>3. F * (2 * d * S + 4) = 2 * P + 4 * F
    BY <1>5, SMTT(60)
  <2> QED
    BY <2>1, <2>2, <2>3
<1>8. 8 * Z >= 2 * P - 3 * S
  <2>1. S * (2 * d * F - 3) <= S * (8 * B)
    BY <1>2, TimesGrows
  <2>2. S * (2 * d * F - 3) = 2 * P - 3 * S
    BY <1>5, SMTT(60)
  <2>3. S * (8 * B) = 8 * Z
    BY <1>2, <1>4, SMTT(60)
  <2> QED
    BY <2>1, <2>2, <2>3
<1>9. 2 * W >= F - 2 * S + 1
  <2>1. (2 * S) * y = 2 * W
    BY <1>3, <1>4, SMTT(60)
  <2> QED
    BY <1>3, <2>1
<1>10. e <= B + y + 1
  <2> SUFFICES ASSUME B + y + 2 <= e
               PROVE  FALSE
    BY <1>1, <1>2, <1>3
  <2>1. S * (B + y + 2) <= S * e
    BY <1>1, <1>2, <1>3, TimesGrows
  <2>2. S * (B + y + 2) = Z + W + 2 * S
    BY <1>2, <1>3, <1>4, SMTT(60)
  <2> QED
    BY <1>4, <1>5, <1>6, <1>7, <1>8, <1>9, <2>1, <2>2
<1> QED
  BY <1>10 DEF e, B, y

Fastest == Queue!Max(OutRates)

LEMMA QueueRates ==
  /\ SynthesisRate \in Nat \ {0} /\ Fastest \in OutRates /\ 0 \notin OutRates
  /\ \A r \in OutRates : r \in Nat /\ r <= Fastest
  /\ InitialDuration \in Nat /\ SleepTime \in Nat /\ PullTime \in Nat /\ MaxDuration \in Nat
  /\ MaxLate \in Nat /\ MaxCallbackTime \in Nat /\ StartTime \in Nat /\ MaxHeld \in Nat
<1> USE SynthesisAssumption DEF Queue!PlaybackAssumption
<1>1. \A c \in {SynthesisRate, InitialDuration, SleepTime, PullTime, MaxOpens, MaxDuration} \cup OutRates : c \in Nat \ {0}
  OBVIOUS
<1>2. MaxLate \in Nat /\ MaxCallbackTime \in Nat /\ StartTime \in Nat /\ MaxHeld \in Nat
  OBVIOUS
<1>3. \E f \in OutRates : \A r \in OutRates : r <= f
  OBVIOUS
<1>4. \E f \in OutRates : \A r \in OutRates : f >= r
  BY <1>1, <1>3
<1>5. Fastest \in OutRates /\ \A r \in OutRates : Fastest >= r
  BY <1>4, Zenon DEF Fastest, Queue!Max
<1> QED
  BY <1>1, <1>2, <1>5

Block(d, r) == (2 * d * r + 4) \div 8

QueueInv ==
    /\ Queue!TypeOK
    /\ thread # "none" \/ device = "running" => outRate \in OutRates
    /\ thread = "callback" => queued <= Block(duration, Fastest) /\ 8 * blockSizeSrc <= 2 * duration * SynthesisRate + 4
    /\ queued <= 2 * Block(duration, Fastest) + Fastest \div (2 * SynthesisRate) + 1

LEMMA QueueNats ==
  ASSUME Queue!TypeOK
  PROVE  /\ outRate \in {0} \cup OutRates /\ outRate \in Nat /\ outRate <= Fastest
         /\ duration \in Nat /\ queued \in Nat /\ blockSizeSrc \in Nat /\ left \in Nat /\ due \in Nat /\ opens \in Nat
         /\ kept \in 0..MaxHeld
<1>1. outRate \in {0} \cup OutRates /\ kept \in 0..MaxHeld
  BY DEF Queue!TypeOK
<1>2. \A c \in {duration, queued, blockSizeSrc, left, due, opens} : c \in Nat
  BY Zenon DEF Queue!TypeOK
<1>3. outRate \in Nat /\ outRate <= Fastest
  BY <1>1, QueueRates
<1> QED
  BY <1>1, <1>2, <1>3

\* A longer duration allows for as many samples at least.
LEMMA DelayGrows ==
  ASSUME NEW d \in Nat, NEW e \in Nat, d <= e
  PROVE  /\ Block(d, Fastest) \in Nat /\ Block(e, Fastest) \in Nat /\ Block(d, Fastest) <= Block(e, Fastest)
         /\ 2 * d * SynthesisRate <= 2 * e * SynthesisRate
         /\ Fastest \div (2 * SynthesisRate) \in Nat
<1> USE QueueRates
<1>1. Block(d, Fastest) <= Block(e, Fastest)
  BY BlockGrows DEF Block
<1>2. Block(d, Fastest) \in Nat /\ Block(e, Fastest) \in Nat
  <2>1. 2 * d * Fastest + 4 \in Nat /\ 2 * e * Fastest + 4 \in Nat /\ 8 \in Nat \ {0}
    OBVIOUS
  <2> QED
    BY <2>1, DivMod DEF Block
<1>3. 2 * d * SynthesisRate <= 2 * e * SynthesisRate
  <2>1. SynthesisRate * d <= SynthesisRate * e
    BY TimesGrows
  <2>2. 2 * d * SynthesisRate = 2 * (SynthesisRate * d) /\ 2 * e * SynthesisRate = 2 * (SynthesisRate * e)
    BY SMTT(60)
  <2> QED
    BY <2>1, <2>2
<1>4. Fastest \div (2 * SynthesisRate) \in Nat
  <2>1. 2 * SynthesisRate \in Nat \ {0} /\ Fastest \in Nat
    OBVIOUS
  <2> QED
    BY <2>1, DivMod
<1> QED
  BY <1>1, <1>2, <1>3, <1>4

LEMMA QueueStarts ==
  ASSUME Queue!Init
  PROVE  QueueInv
<1> USE QueueRates DEF Queue!Init
<1>1. Queue!TypeOK
  <2>1. \A c \in {duration, queued, blockSizeSrc, left, due, opens} : c \in Nat
    OBVIOUS
  <2>2. ranOutOfData \in BOOLEAN
    BY Zenon
  <2> QED
    BY <2>1, <2>2 DEF Queue!TypeOK
<1>2. queued <= 2 * Block(duration, Fastest) + Fastest \div (2 * SynthesisRate) + 1
  BY DelayGrows
<1> QED
  BY <1>1, <1>2 DEF QueueInv

\* The queue is no longer than it was, and a block no shorter.
LEMMA DelayKept ==
  ASSUME QueueInv, queued' \in Nat, queued' <= queued, duration' \in Nat, duration <= duration'
  PROVE  /\ queued' <= 2 * Block(duration', Fastest) + Fastest \div (2 * SynthesisRate) + 1
         /\ thread = "callback" => /\ queued' <= Block(duration', Fastest)
                                   /\ 8 * blockSizeSrc <= 2 * duration' * SynthesisRate + 4
<1>1. duration \in Nat /\ queued \in Nat /\ blockSizeSrc \in Nat
  BY QueueNats DEF QueueInv
<1>2. /\ Block(duration, Fastest) \in Nat /\ Block(duration', Fastest) \in Nat
      /\ Block(duration, Fastest) <= Block(duration', Fastest)
      /\ 2 * duration * SynthesisRate <= 2 * duration' * SynthesisRate
      /\ Fastest \div (2 * SynthesisRate) \in Nat
  BY <1>1, DelayGrows
<1>3. 2 * duration * SynthesisRate \in Nat /\ 2 * duration' * SynthesisRate \in Nat
  <2>1. ASSUME NEW d \in Nat PROVE 2 * d * SynthesisRate \in Nat
    <3>1. SynthesisRate \in Nat
      BY QueueRates
    <3> QED
      BY <3>1
  <2> QED
    BY <1>1, <2>1
<1>4. PICK B, C, x, y \in Nat, w \in Nat :
          /\ B = Block(duration, Fastest) /\ C = Block(duration', Fastest) /\ w = Fastest \div (2 * SynthesisRate)
          /\ x = 2 * duration * SynthesisRate /\ y = 2 * duration' * SynthesisRate
  BY <1>2, <1>3
<1>5. B <= C /\ x <= y
  BY <1>2, <1>4
<1>6. queued' <= 2 * C + w + 1
  <2>1. queued <= 2 * B + w + 1
    BY <1>4 DEF QueueInv
  <2> QED
    BY <1>1, <1>5, <2>1
<1>7. ASSUME thread = "callback"
      PROVE  queued' <= C /\ 8 * blockSizeSrc <= y + 4
  <2>1. queued <= B /\ 8 * blockSizeSrc <= x + 4
    BY <1>4, <1>7 DEF QueueInv
  <2> QED
    BY <1>1, <1>5, <2>1
<1> QED
  BY <1>4, <1>6, <1>7

LEMMA QueueSteps ==
  ASSUME QueueInv, Queue!Next
  PROVE  QueueInv'
<1> USE QueueRates, QueueNats
<1>1. CASE Queue!OpenDevice
  <2> USE <1>1 DEF Queue!OpenDevice
  <2>1. /\ left' \in Nat /\ due' \in Nat /\ opens' \in Nat /\ outRate' \in OutRates /\ duration' = duration /\ queued' = queued
        /\ blockSizeSrc' = blockSizeSrc /\ thread' = thread
    BY DEF QueueInv
  <2>2. Queue!TypeOK'
    <3>1. ranOutOfData' \in BOOLEAN
      BY Zenon
    <3> QED
      BY <2>1, <3>1 DEF QueueInv, Queue!TypeOK
  <2> HIDE <1>1 DEF Queue!OpenDevice
  <2> QED
    BY <2>1, <2>2 DEF QueueInv
<1>2. CASE Queue!CloseDevice
  <2> USE <1>2 DEF Queue!CloseDevice, Queue!thread
  <2>1. /\ thread # "none" /\ due' = 0
        /\ UNCHANGED <<outRate, duration, queued, kept, blockSizeSrc, thread, left, opens>>
    BY DEF QueueInv
  <2>2. Queue!TypeOK'
    <3>1. ranOutOfData' \in BOOLEAN
      BY Zenon
    <3> QED
      BY <2>1, <3>1 DEF QueueInv, Queue!TypeOK
  <2> HIDE <1>2 DEF Queue!CloseDevice
  <2> QED
    BY <2>1, <2>2 DEF QueueInv
<1>3. CASE Queue!StartSynthesisThread
  <2> USE <1>3 DEF Queue!StartSynthesisThread, Queue!playing
  <2>1. Queue!TypeOK'
    <3>1. ranOutOfData' \in BOOLEAN
      BY Zenon DEF QueueInv, Queue!TypeOK
    <3> QED
      BY <3>1 DEF QueueInv, Queue!TypeOK
  <2> QED
    BY <2>1 DEF QueueInv
<1>4. CASE Queue!PushIfNeeded
  <2> USE <1>4 DEF Queue!PushIfNeeded, Queue!playing
  <2>1. /\ thread = "check" /\ UNCHANGED <<outRate, duration, queued, kept, device, due, opens>>
        /\ outRate \in OutRates /\ outRate \in Nat /\ outRate <= Fastest
    BY DEF QueueInv
  <2>2. ranOutOfData' \in BOOLEAN
    BY Zenon DEF QueueInv, Queue!TypeOK
  <2>3. CASE Queue!EnoughData
    <3>1. left' \in Nat /\ thread' = thread /\ blockSizeSrc' = blockSizeSrc
      BY <2>3
    <3>2. Queue!TypeOK'
      BY <2>1, <2>2, <3>1 DEF QueueInv, Queue!TypeOK
    <3> HIDE <1>4 DEF Queue!PushIfNeeded
    <3> QED
      BY <2>1, <3>1, <3>2 DEF QueueInv
  <2>4. CASE ~Queue!EnoughData
    <3>1. left' \in Nat /\ thread' = "callback" /\ blockSizeSrc' = Block(duration, SynthesisRate)
      BY <2>4 DEF Queue!BlockSize, Block
    <3>2. blockSizeSrc' \in Nat /\ 8 * blockSizeSrc' <= 2 * duration * SynthesisRate + 4
      <4>1. PICK x \in Nat : x = 2 * duration * SynthesisRate
        BY DEF QueueInv
      <4>2. blockSizeSrc' = (x + 4) \div 8
        BY <3>1, <4>1 DEF Block
      <4> HIDE <1>4 DEF Queue!PushIfNeeded
      <4>3. blockSizeSrc' \in Nat /\ 8 * blockSizeSrc' <= x + 4
        BY <4>2
      <4> QED
        BY <4>1, <4>3
    <3>3. queued <= Block(duration, Fastest)
      <4>1. duration \in Nat /\ queued \in Nat
        BY DEF QueueInv
      <4>2. Block(duration, outRate) <= Block(duration, Fastest)
        BY <2>1, <4>1, BlockGrows DEF Block
      <4>3. Block(duration, outRate) \in Nat /\ Block(duration, Fastest) \in Nat
        <5>1. Block(duration, outRate) \in Nat
          <6>1. 2 * duration * outRate + 4 \in Nat /\ 8 \in Nat \ {0}
            BY <2>1, <4>1
          <6> QED
            BY <6>1, DivMod DEF Block
        <5> QED
          BY <5>1, <4>1, DelayGrows
      <4>4. ~ (queued > Block(duration, outRate))
        BY <2>4 DEF Queue!EnoughData, Queue!BlockSize, Block
      <4> HIDE <1>4 DEF Queue!PushIfNeeded
      <4> QED
        BY <4>1, <4>2, <4>3, <4>4
    <3>4. Queue!TypeOK'
      BY <2>1, <2>2, <3>1, <3>2 DEF QueueInv, Queue!TypeOK
    <3> HIDE <1>4 DEF Queue!PushIfNeeded
    <3> QED
      BY <2>1, <3>1, <3>2, <3>3, <3>4 DEF QueueInv
  <2> QED
    BY <2>3, <2>4
<1>5. CASE Queue!CallbackReturns
  <2> USE <1>5 DEF Queue!CallbackReturns, Queue!playing
  <2>1. /\ thread = "callback" /\ UNCHANGED <<outRate, duration, blockSizeSrc, device, due, opens>>
        /\ thread' = "check" /\ left' \in Nat
        /\ outRate \in OutRates /\ outRate \in Nat /\ outRate <= Fastest
        /\ duration \in Nat /\ queued \in Nat /\ blockSizeSrc \in Nat /\ kept \in 0..MaxHeld
    BY DEF QueueInv
  <2>2. ranOutOfData' \in BOOLEAN
    BY Zenon DEF QueueInv, Queue!TypeOK
  <2> DEFINE e == Queue!getExpectedOutLength(blockSizeSrc, SynthesisRate, outRate)
  <2>3. /\ e \in Nat /\ Block(duration, Fastest) \in Nat /\ Fastest \div (2 * SynthesisRate) \in Nat
        /\ e <= Block(duration, Fastest) + Fastest \div (2 * SynthesisRate) + 1
    <3>1. Block(duration, Fastest) \in Nat /\ Fastest \div (2 * SynthesisRate) \in Nat
      BY <2>1, DelayGrows
    <3>2. CASE blockSizeSrc = 0
      BY <3>1, <3>2 DEF Queue!getExpectedOutLength
    <3>3. CASE blockSizeSrc # 0
      <4>1. e = (2 * blockSizeSrc * outRate + SynthesisRate) \div (2 * SynthesisRate)
        BY <3>3 DEF Queue!getExpectedOutLength
      <4>2. 2 * blockSizeSrc * outRate + SynthesisRate \in Nat /\ 2 * SynthesisRate \in Nat \ {0}
        BY <2>1
      <4>3. e \in Nat
        <5> HIDE <1>5 DEF Queue!CallbackReturns, e
        <5>1. (2 * blockSizeSrc * outRate + SynthesisRate) \div (2 * SynthesisRate) \in Nat
          BY <4>2, DivMod, Zenon
        <5> QED
          BY <4>1, <5>1, Zenon
      <4>4. 8 * blockSizeSrc <= 2 * duration * SynthesisRate + 4
        BY <2>1 DEF QueueInv
      <4> HIDE <1>5 DEF Queue!CallbackReturns, e
      <4>5. e <= (2 * duration * Fastest + 4) \div 8 + Fastest \div (2 * SynthesisRate) + 1
        BY <2>1, <4>1, <4>4, BlockResampled
      <4> QED
        BY <3>1, <4>3, <4>5 DEF Block
    <3> QED
      BY <3>2, <3>3
  <2>4. PICK p \in Queue!process(blockSizeSrc, SynthesisRate, outRate, kept, MaxHeld) :
            queued' = queued + p.generated /\ kept' = p.held
    BY Zenon
  <2> HIDE <1>5 DEF Queue!CallbackReturns
  <2>5. p.generated \in 0..e /\ p.held \in 0..MaxHeld
    BY <2>1, <2>3 DEF Queue!process, Queue!src_process
  <2> HIDE DEF e
  <2>6. queued' \in Nat /\ kept' \in 0..MaxHeld
    BY <2>1, <2>3, <2>4, <2>5
  <2>7. queued' <= 2 * Block(duration, Fastest) + Fastest \div (2 * SynthesisRate) + 1
    <3>1. queued <= Block(duration, Fastest)
      BY <2>1 DEF QueueInv
    <3>2. PICK B, w \in Nat : B = Block(duration, Fastest) /\ w = Fastest \div (2 * SynthesisRate)
      BY <2>3
    <3>3. e \in Nat /\ e <= B + w + 1 /\ queued <= B
      BY <2>3, <3>1, <3>2
    <3>4. queued' <= 2 * B + w + 1
      BY <2>1, <2>4, <2>5, <3>2, <3>3
    <3> QED
      BY <3>2, <3>4
  <2>8. Queue!TypeOK'
    BY <2>1, <2>2, <2>6 DEF QueueInv, Queue!TypeOK
  <2> QED
    BY <2>1, <2>7, <2>8 DEF QueueInv
<1>6. CASE Queue!Pull
  <2> USE <1>6 DEF Queue!Pull, Queue!thread
  <2>1. /\ device = "running" /\ due' \in Nat /\ UNCHANGED <<outRate, kept, blockSizeSrc, thread, left, device, opens>>
        /\ duration \in Nat /\ queued \in Nat /\ outRate \in Nat
    BY DEF QueueInv
  <2>2. duration' \in Nat /\ duration <= duration'
    BY <2>1 DEF Queue!Adjusted
  <2>3. queued' \in Nat /\ queued' <= queued
    <3>1. Queue!PullLength \in Nat
      <4>1. outRate * PullTime \in Nat /\ 4 \in Nat \ {0}
        BY <2>1
      <4> QED
        BY <4>1, DivMod DEF Queue!PullLength
    <3>2. queued' = IF queued < Queue!PullLength THEN 0 ELSE queued - Queue!PullLength
      BY DEF Queue!Remaining
    <3> HIDE <1>6 DEF Queue!Pull
    <3> QED
      BY <2>1, <3>1, <3>2
  <2>4. ranOutOfData' \in BOOLEAN
    <3>1. ranOutOfData' = (queued < Queue!PullLength)
      BY Zenon
    <3> QED
      BY <3>1
  <2>5. Queue!TypeOK'
    BY <2>1, <2>2, <2>3, <2>4 DEF QueueInv, Queue!TypeOK
  <2> HIDE <1>6 DEF Queue!Pull
  <2>6. /\ queued' <= 2 * Block(duration', Fastest) + Fastest \div (2 * SynthesisRate) + 1
        /\ thread = "callback" => /\ queued' <= Block(duration', Fastest)
                                  /\ 8 * blockSizeSrc <= 2 * duration' * SynthesisRate + 4
    BY <2>2, <2>3, DelayKept
  <2> QED
    BY <2>1, <2>5, <2>6 DEF QueueInv
<1>7. CASE Queue!Tick
  <2> USE <1>7 DEF Queue!Tick
  <2>1. /\ UNCHANGED <<outRate, duration, queued, kept, blockSizeSrc, thread, device, opens>>
        /\ left' \in Nat /\ due' \in Nat
    BY DEF QueueInv
  <2>2. ranOutOfData' \in BOOLEAN
    BY Zenon DEF QueueInv, Queue!TypeOK
  <2>3. Queue!TypeOK'
    BY <2>1, <2>2 DEF QueueInv, Queue!TypeOK
  <2> HIDE <1>7 DEF Queue!Tick
  <2> QED
    BY <2>1, <2>3 DEF QueueInv
<1> QED
  BY <1>1, <1>2, <1>3, <1>4, <1>5, <1>6, <1>7 DEF Queue!Next

(***************************************************************************)
(* The theorems.                                                           *)
(***************************************************************************)

Inv ==
    /\ part = "queue" => QueueInv
    /\ part = "audio" => AudioInv
    /\ part = "filter" => FilterInv

LEMMA InvStarts ==
  ASSUME Init
  PROVE  Inv
<1>1. CASE part = "queue" /\ Queue!Init
  BY <1>1, QueueStarts DEF Inv
<1>2. CASE part = "audio" /\ Audio!Init
  BY <1>2, AudioStarts DEF Inv
<1>3. CASE part = "filter" /\ Filter!Init
  BY <1>3, FilterStarts DEF Inv
<1> QED
  BY <1>1, <1>2, <1>3, Zenon DEF Init

LEMMA InvSteps ==
  ASSUME Inv, Next
  PROVE  Inv'
<1>1. CASE InQueue(Queue!Next)
  <2>1. part = "queue" /\ part' = part /\ Queue!Next /\ QueueInv
    BY <1>1 DEF InQueue, Inv
  <2> QED
    BY <2>1, QueueSteps DEF Inv
<1>2. CASE InAudio(Audio!Next)
  <2>1. part = "audio" /\ part' = part /\ Audio!Next /\ AudioInv
    BY <1>2 DEF InAudio, Inv
  <2> QED
    BY <2>1, AudioSteps DEF Inv
<1>3. CASE InFilter(Filter!Next)
  <2>1. part = "filter" /\ part' = part /\ Filter!Next /\ FilterTypes /\ FilterWhole
    BY <1>3 DEF InFilter, Inv, FilterInv
  <2> QED
    BY <2>1, FilterTypeSteps, FilterWholeSteps DEF Inv, FilterInv
<1> QED
  BY <1>1, <1>2, <1>3 DEF Next

LEMMA InvStutters ==
  ASSUME Inv, UNCHANGED vars
  PROVE  Inv'
<1> USE DEF vars, queueVars, synthesizerVars
<1>1. part' = part
  OBVIOUS
<1>2. QueueInv => QueueInv'
  BY DEF QueueInv, Queue!TypeOK, Block
<1>3. AudioInv => AudioInv'
  BY DEF AudioInv, Audio!TypeOK, Follows
<1>4. FilterInv => FilterInv'
  BY DEF FilterInv, FilterTypes, FilterWhole, Filter!TypeOK, Filter!Rounded, Follows
<1> HIDE DEF vars, queueVars, synthesizerVars
<1> QED
  BY <1>1, <1>2, <1>3, <1>4 DEF Inv

LEMMA InvHolds == Spec => []Inv
<1>1. Init => Inv
  BY InvStarts
<1>2. Inv /\ [Next]_vars => Inv'
  BY InvSteps, InvStutters
<1> QED
  BY <1>1, <1>2, PTL DEF Spec

\* However the device and the thread interleave, whatever the rates and the
\* durations are, and when the device is changed while the callback runs: the
\* queue, which pushIfNeeded() tops up and pull() takes from, is never longer than
\* two blocks, but for the roundings, and the resampler has a rate.
THEOREM QueueHolds == Spec => []QueueCorrect
<1>1. Inv => QueueCorrect
  <2> SUFFICES ASSUME QueueInv
               PROVE  Queue!TypeOK /\ Queue!DelayBounded /\ Queue!RateKnown
    BY DEF Inv, QueueCorrect
  <2>1. Queue!TypeOK
    BY DEF QueueInv
  <2>2. Queue!DelayBounded
    BY DEF QueueInv, Queue!DelayBounded, Queue!BlockSize, Block, Fastest
  <2>3. Queue!RateKnown
    BY QueueRates DEF QueueInv, Queue!RateKnown
  <2> QED
    BY <2>1, <2>2, <2>3
<1> QED
  BY <1>1, InvHolds, PTL

\* For all lengths of chunks, of blocks and of glottal frames: what generateAudio()
\* leaves over goes on from what it used, up to the next sample to generate; less
\* than a chunk stays in the bank between two callbacks; the loop over the formants,
\* whose number the datavis thread changes under it, stays within realFormants; and
\* getFilterCopy() returns the filter of one callback.
THEOREM SynthesizerHolds == Spec => []SynthesizerCorrect
<1>1. AudioInv => Audio!TypeOK /\ Audio!SurplusFollows /\ Audio!BankBounded
  <2> SUFFICES ASSUME AudioInv
               PROVE  Audio!TypeOK /\ Audio!SurplusFollows /\ Audio!BankBounded
    OBVIOUS
  <2>1. Audio!TypeOK
    BY DEF AudioInv
  <2>2. Audio!SurplusFollows
    BY Zenon DEF AudioInv, Audio!SurplusFollows, Audio!Number, Follows, Mod
  <2>3. Audio!BankBounded
    <3>1. Audio!getExpectedOutLength(Audio!inputLength, InRate, OutRate) = OutLength
      BY ChunkLengths DEF Audio!getExpectedOutLength, OutLength
    <3>2. pc = "idle" => surplus < OutLength + 0
      BY DEF AudioInv
    <3> QED
      BY <3>1, <3>2, ChunkLengths DEF Audio!BankBounded
  <2> QED
    BY <2>1, <2>2, <2>3
<1>2. FilterInv => Filter!TypeOK /\ Filter!SmoothsWithin /\ Filter!FilterCopyWhole
  BY DEF FilterInv, FilterTypes, FilterWhole, Filter!SmoothsWithin, Filter!Writes, Filter!FilterCopyWhole
<1>3. Inv => SynthesizerCorrect
  BY <1>1, <1>2 DEF Inv, SynthesizerCorrect
<1> QED
  BY <1>3, InvHolds, PTL

\* From one chunk to the next generateAudio() plays the glottal samples in order,
\* each of them once, however the frames and the chunks overlap, and through silence.
THEOREM GlotGoesOn == Spec => GlotContiguous
<1> DEFINE Goes == part = "audio" /\ lastGlot' # lastGlot => lastGlot' = Audio!Number(lastGlot + Audio!inputLength)
<1>1. Inv /\ [Next]_vars => [Goes]_vars
  <2> SUFFICES ASSUME Inv, [Next]_vars, part = "audio", lastGlot' # lastGlot
               PROVE  lastGlot' = Audio!Number(lastGlot + Audio!inputLength)
    OBVIOUS
  <2>1. AudioInv
    BY DEF Inv
  <2>2. Audio!Next
    BY DEF Next, InQueue, InAudio, InFilter, vars, synthesizerVars
  <2>3. Audio!GenerateAudio
    BY <2>2 DEF Audio!Next, Audio!Synthesis, Audio!Copying, Audio!AudioCallback, Audio!SmoothFormant,
                Audio!LockRealFilter, Audio!AssignFilter, Audio!Deliver, Audio!CopyFilter, Audio!UnlockFilter,
                Audio!setGains, Audio!audio, Audio!callback, Audio!reading
  <2>4. Audio!GenerateGlot
    BY <2>3 DEF Audio!GenerateAudio
  <2>5. lastGlot' = Mod(lastGlot + InLength, Modulus)
    BY <2>1, <2>4, AudioGlot, Zenon
  <2> QED
    BY <2>5, ChunkLengths, Zenon DEF Mod, Audio!Number
<1> QED
  BY <1>1, InvHolds, PTL DEF Spec, GlotContiguous
==============================================================================
