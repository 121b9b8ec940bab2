------------------------------ MODULE FilteredLP ------------------------------
(***************************************************************************)
(* Formant::FilteredLP::solve (src/src/analysis/formant/filteredlp.cpp):   *)
(* which roots of the predictor become formants.  A root that is far below *)
(* the next may stand for several, and is replaced by them if the number   *)
(* of roots in its sector says so.                                         *)
(*                                                                         *)
(* The roots are external.  A root is its frequency in steps of 50 Hz, the *)
(* side of the real axis and whether its radius is accepted; the number of *)
(* roots in a sector comes from CauchyIntegral.                            *)
(***************************************************************************)
EXTENDS Integers, Sequences, SequencesExt, FiniteSets, FiniteSetsExt

CONSTANTS
    Frequencies,    \* of the roots, all different
    HalfRate,       \* sampleRate / 2, 5500 Hz
    Counts,         \* abs(n4 - n3)
    Extras          \* what aberthRootsAroundInitial returns; a NaN is a root not accepted

VARIABLES
    roots,          \* findRoots(polynomial)
    pc,             \* where solve stands
    pickedRoots,    \* frequencies of those that are picked, in order
    i,              \* the one that is looked at, from 0
    formants,       \* result.formants
    mergedPeaks,    \* the frequencies of the peaks that may be several
    resolvedRoots,  \* what they turn out to be
    split           \* history: the peaks that were replaced

vars == <<roots, pc, pickedRoots, i, formants, mergedPeaks, resolvedRoots, split>>

Hz(f) == f \div 50
Root(f, up, accepted) == [freq |-> f, upper |-> up, inRing |-> accepted]
Less(a, b) == a < b

\* The roots of a real polynomial come in pairs.
RootsOf(fs, ring) == {Root(f, up, f \in ring) : f \in fs, up \in BOOLEAN}

Init ==
    /\ \E fs \in SUBSET Frequencies : \E ring \in SUBSET fs : roots = RootsOf(fs, ring)
    /\ pc = "pick"
    /\ pickedRoots = <<>> /\ i = 0
    /\ formants = <<>> /\ mergedPeaks = <<>> /\ resolvedRoots = <<>> /\ split = {}
------------------------------------------------------------------------------
\* phi > phiDelta && phi < M_PI - phiDelta
InBand(f) == f > Hz(50) /\ f < HalfRate - Hz(50)

Pick ==
    /\ pc = "pick"
    /\ pickedRoots' = SetToSortSeq({z.freq : z \in {y \in roots : y.upper /\ y.inRing /\ InBand(y.freq)}}, Less)
    /\ pc' = "merged"
    /\ UNCHANGED <<roots, i, formants, mergedPeaks, resolvedRoots, split>>

\* The next is more than 700 Hz above; of the first, also above 1800 Hz.
MayBeSeveral(k) ==
    /\ pickedRoots[k + 2] - pickedRoots[k + 1] > Hz(700)
    /\ k > 0 \/ pickedRoots[k + 2] > Hz(1800)

FindMerged ==
    /\ pc = "merged"
    /\ i < Len(pickedRoots) - 1
    /\ IF MayBeSeveral(i)
       THEN mergedPeaks' = Append(mergedPeaks, pickedRoots[i + 1]) /\ UNCHANGED formants
       ELSE formants' = Append(formants, pickedRoots[i + 1]) /\ UNCHANGED mergedPeaks
    /\ i' = i + 1
    /\ UNCHANGED <<roots, pc, pickedRoots, resolvedRoots, split>>

LastFormant ==
    /\ pc = "merged"
    /\ i >= Len(pickedRoots) - 1
    /\ formants' = IF pickedRoots = <<>> THEN formants ELSE Append(formants, Last(pickedRoots))
    /\ i' = 0
    /\ pc' = "resolve"
    /\ UNCHANGED <<roots, pickedRoots, mergedPeaks, resolvedRoots, split>>

\* Two roots or more are looked for around the peak; else it stays what it is.
Resolve ==
    /\ pc = "resolve"
    /\ i < Len(mergedPeaks)
    /\ \E count \in Counts :
          IF count >= 2
          THEN /\ \E extra \in [1 .. count -> Extras] : resolvedRoots' = resolvedRoots \o extra
               /\ split' = split \cup {mergedPeaks[i + 1]}
          ELSE /\ resolvedRoots' = Append(resolvedRoots, Root(mergedPeaks[i + 1], TRUE, TRUE))
               /\ UNCHANGED split
    /\ i' = i + 1
    /\ UNCHANGED <<roots, pc, pickedRoots, formants, mergedPeaks>>

\* formant.frequency > 50.0 && formant.frequency < sampleRate / 2 - 50.0
Keeps(z) == z.upper /\ z.inRing /\ z.freq > Hz(50) /\ z.freq < HalfRate - Hz(50)

\* Those that are kept are added, and sortFormants orders all.
Add ==
    /\ pc = "resolve"
    /\ i >= Len(mergedPeaks)
    /\ LET kept == SelectSeq(resolvedRoots, Keeps)
       IN  formants' = SortSeq(formants \o [k \in DOMAIN kept |-> kept[k].freq], Less)
    /\ pc' = "done"
    /\ UNCHANGED <<roots, pickedRoots, i, mergedPeaks, resolvedRoots, split>>

Next == Pick \/ FindMerged \/ LastFormant \/ Resolve \/ Add
------------------------------------------------------------------------------
(* What the formant tracks rely on.                                            *)

\* The formants are in order and in the band between 50 Hz and 50 Hz under half
\* the sample rate, whatever the second search for roots returns.
FormantsInOrder ==
    pc = "done" => \A k \in DOMAIN formants :
        /\ InBand(formants[k])
        /\ k > 1 => formants[k - 1] <= formants[k]

\* A root that was picked and not found to be several is a formant, once but
\* for roots the second search finds again: the two filters agree on the root
\* that is only set aside.
NoneLost ==
    pc = "done" =>
        \A f \in Range(pickedRoots) \ split :
            LET times == Cardinality({k \in DOMAIN formants : formants[k] = f})
                foundAgain == Cardinality({k \in DOMAIN resolvedRoots : resolvedRoots[k].freq = f})
            IN  times >= 1 /\ times <= 1 + foundAgain
==============================================================================
