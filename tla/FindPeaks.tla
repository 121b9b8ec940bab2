------------------------------ MODULE FindPeaks ------------------------------
(***************************************************************************)
(* Analysis::findPeaks (src/src/analysis/util/find_peaks.cpp) and the use  *)
(* RAPT makes of it (findPeaksWithThreshold in pitch/rapt.cpp).            *)
(*                                                                         *)
(* The array is cut down to its first element, the elements where it       *)
(* turns, and its last; of these, which alternate, a peak is one that      *)
(* stands out by a quarter of the array's range.  Heights are numbers of   *)
(* a small set.  Both callers leave the sign at +1.                        *)
(***************************************************************************)
EXTENDS Integers, Sequences, FiniteSets, SequencesExt

CONSTANTS
    PeakLengths,    \* lengths of the arrays; the code needs two elements
    Heights,        \* what they hold
    n_cands         \* candidates of a frame, 20 in RAPT

VARIABLES
    array,          \* the array, from 0 as in the code
    pc,             \* where findPeaks stands
    ind,            \* places of the elements that are left; the array's length for the last
    i,              \* how many of them were looked at
    tempLoc, tempMag,   \* the peak in hand: its place in ind, and its height
    foundPeak,      \* it has been added
    minMag,         \* the lowest of the elements, before one of them is removed
    leftMin,        \* the lowest element since the last peak
    peakLoc,        \* the peaks, as places in ind
    peakInds,       \* the result
    candidates      \* what findPeaksWithThreshold makes of it

vars == <<array, pc, ind, i, tempLoc, tempMag, foundPeak, minMag, leftMin, peakLoc, peakInds, candidates>>

len0 == Cardinality(DOMAIN array)
Lowest == CHOOSE h \in Range(array) : \A g \in Range(array) : h <= g
Highest == CHOOSE h \in Range(array) : \A g \in Range(array) : h >= g

\* One height is more than sel, a quarter of the range, above another.
StandsOut(high, low) == 4 * (high - low) > Highest - Lowest

\* The last element is at the place behind the end.
Height(k) == array[IF k = len0 THEN len0 - 1 ELSE k]
X(n) == Height(ind[n])

Init ==
    /\ \E n \in PeakLengths : array \in [0 .. n - 1 -> Heights]
    /\ pc = "prepare"
    /\ ind = <<>> /\ i = 0
    /\ tempLoc = 1 /\ tempMag = 0 /\ foundPeak = FALSE /\ minMag = 0 /\ leftMin = 0
    /\ peakLoc = <<>> /\ peakInds = <<>> /\ candidates = <<>>
------------------------------------------------------------------------------
\* The sign of a difference, where no difference is a small descent
Sign(k) == IF array[k + 1] > array[k] THEN 1 ELSE -1

Turns == {k \in 1 .. len0 - 2 : Sign(k - 1) # Sign(k)}

\* The first element need not alternate with the others: if the first two steps
\* go the same way, the second goes if that is down, the first if it is up.
Alternating(seq) ==
    LET first == Height(seq[2]) - Height(seq[1])
        second == Height(seq[3]) - Height(seq[2])
    IN  CASE (first < 0 /\ second < 0) \/ (first = 0 /\ second = 0) -> RemoveAt(seq, 2)
          [] first > 0 /\ second > 0 -> Tail(seq)
          [] OTHER -> seq

Prepare ==
    /\ pc = "prepare"
    /\ LET turns == SetToSortSeq(Turns, LAMBDA a, b : a < b)
           all == <<0>> \o turns \o <<len0>>
           least == CHOOSE h \in {Height(k) : k \in Range(all)} : \A k \in Range(all) : h <= Height(k)
       IN  IF turns = <<>>
           THEN pc' = "select" /\ UNCHANGED <<ind, i, tempMag, minMag, leftMin>>
           ELSE /\ ind' = Alternating(all)
                /\ i' = IF Height(ind'[1]) >= Height(ind'[2]) THEN 0 ELSE 1
                /\ minMag' = least /\ tempMag' = least /\ leftMin' = least
                /\ pc' = "peak"
    /\ UNCHANGED <<array, tempLoc, foundPeak, peakLoc, peakInds, candidates>>

\* The next element that may be a peak
Peak ==
    /\ pc = "peak"
    /\ LET mag == IF foundPeak THEN minMag ELSE tempMag
           taken == X(i + 1) > mag /\ StandsOut(X(i + 1), leftMin)
       IN  /\ tempLoc' = IF taken THEN i + 1 ELSE tempLoc
           /\ tempMag' = IF taken THEN X(i + 1) ELSE mag
    /\ foundPeak' = FALSE
    /\ i' = i + 1
    /\ pc' = IF i + 1 = Len(ind) THEN "end" ELSE "valley"
    /\ UNCHANGED <<array, ind, minMag, leftMin, peakLoc, peakInds, candidates>>

\* Mutant of Descended: any descent will do.
DescendedAtAll(low) == tempMag > low

\* "Come down at least sel from peak"
Descended(low) == StandsOut(tempMag, low)

\* ... and the valley behind it
Valley ==
    /\ pc = "valley"
    /\ LET low == X(i + 1)
       IN  IF Descended(low)
           THEN foundPeak' = TRUE /\ leftMin' = low /\ peakLoc' = Append(peakLoc, tempLoc)
           ELSE /\ leftMin' = IF low < leftMin THEN low ELSE leftMin
                /\ UNCHANGED <<foundPeak, peakLoc>>
    /\ i' = i + 1
    /\ pc' = IF i + 1 < Len(ind) THEN "peak" ELSE "end"
    /\ UNCHANGED <<array, ind, tempLoc, tempMag, minMag, peakInds, candidates>>

\* The end point, or the peak still in hand
Added ==
    LET last == X(Len(ind))
    IN  IF last > tempMag /\ StandsOut(last, leftMin) THEN Append(peakLoc, Len(ind))
        ELSE IF ~foundPeak /\ tempMag > minMag THEN Append(peakLoc, tempLoc)
        ELSE peakLoc

End ==
    /\ pc = "end"
    /\ peakLoc' = Added
    /\ peakInds' = [n \in DOMAIN Added |-> ind[Added[n]]]
    /\ pc' = "select"
    /\ UNCHANGED <<array, ind, i, tempLoc, tempMag, foundPeak, minMag, leftMin, candidates>>

\* findPeaksWithThreshold: those above three tenths of the maximum, the highest
\* first, one fewer than the candidates of a frame.
Accepted(k) == k >= 0 /\ k < len0 /\ 10 * array[k] > 3 * Highest

Select ==
    /\ pc = "select"
    /\ \E sorted \in SetToSeqs({k \in Range(peakInds) : Accepted(k)}) :
          /\ \A m, n \in DOMAIN sorted : m < n => array[sorted[m]] >= array[sorted[n]]
          /\ candidates' = SubSeq(sorted, 1, IF Len(sorted) > n_cands - 1 THEN n_cands - 1 ELSE Len(sorted))
    /\ pc' = "done"
    /\ UNCHANGED <<array, ind, i, tempLoc, tempMag, foundPeak, minMag, leftMin, peakLoc, peakInds>>

Next == Prepare \/ Peak \/ Valley \/ End \/ Select
------------------------------------------------------------------------------
(* What callers rely on.                                                      *)

\* peakLoc and peakMag are vectors of half the elements, rounded up, and written
\* without a check.
PeaksFit == 2 * Len(peakLoc) <= Len(ind) + 1

\* Peaks are reported in order, and between two of them the array goes down by
\* more than a quarter of its range from both.
PeaksProminent ==
    pc = "done" => \A n \in 1 .. Len(peakInds) - 1 :
        LET p == peakInds[n]
            q == peakInds[n + 1]
        IN  /\ p < q
            /\ \E v \in p .. q - 1 : StandsOut(Height(p), array[v]) /\ StandsOut(Height(q), array[v])

\* Of an array that turns, the highest element is reported, whatever comes before it.
HighestFound ==
    pc = "done" /\ ind # <<>> /\ Lowest < Highest => \E k \in Range(peakInds) : Height(k) = Highest

\* parabolicInterpolation reads both neighbours of a candidate, or the right one
\* of the first element: they are in the array.
InterpolatesWithin == \A k \in Range(candidates) : k + 1 < len0
==============================================================================
