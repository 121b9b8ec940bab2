----------------------------- MODULE PitchSearch -----------------------------
(***************************************************************************)
(* How the pitch solvers MPM (src/src/analysis/pitch/mpm.cpp) and YIN      *)
(* (pitch/yin.cpp) choose a lag, once their curve is computed: MPM among   *)
(* the peaks of the autocorrelation, YIN at the first dip of the           *)
(* normalised difference.  The curves are external: numbers of a small     *)
(* set, in twentieths.                                                     *)
(***************************************************************************)
EXTENDS Integers, Sequences, SequencesExt, FiniteSets, FiniteSetsExt

CONSTANTS
    CurveLengths,   \* how many lags the curve has: length for MPM, length / 2 for YIN
    Levels,         \* what MPM's curve holds
    Dips,           \* what YIN's curve holds, NaN apart
    mThreshold,     \* of YIN
    LongestLag      \* sample_rate / MPM_LOWER_PITCH_CUTOFF

VARIABLES
    method,         \* the solver
    curve,          \* audio_buffer after its normalisation, or mCMND; from lag 0
    pc,             \* where it stands
    pos,            \* the lag it looks at; k in YIN
    cur_max_pos,    \* the highest peak of this stretch above zero, 0 for none
    max_positions,  \* the peaks
    voiced,         \* the result: is there a pitch
    period          \* ... and the lag it was taken from

vars == <<method, curve, pc, pos, cur_max_pos, max_positions, voiced, period>>

size == Cardinality(DOMAIN curve)

\* 0.0 / 0.0, where the running sum of the differences is zero.  Every comparison
\* with it is false.
NaN == 1000
Less(a, b) == a # NaN /\ b # NaN /\ a < b
NotLess(a, b) == a # NaN /\ b # NaN /\ a >= b

\* No lag correlates more than lag 0; below max = 0.02 the curve stays under 1.
Autocorrelations(n) ==
    {c \in [0 .. n - 1 -> Levels \cup {0}] :
        \A l \in 0 .. n - 1 : c[l] <= c[0] /\ -c[l] <= c[0]}

\* mCMND[0] is 1.
Differences(n) == {c \in [0 .. n - 1 -> Dips \cup {NaN, 20}] : c[0] = 20}

Init ==
    /\ \E n \in CurveLengths :
          \/ method = "MPM" /\ curve \in Autocorrelations(n) /\ pc = "skip" /\ pos = 0
          \/ method = "YIN" /\ n >= 2 /\ curve \in Differences(n) /\ pc = "search" /\ pos = 2
    /\ cur_max_pos = 0 /\ max_positions = <<>>
    /\ voiced = FALSE /\ period = 0
------------------------------------------------------------------------------
(* MPM: peak_picking, and the choice in solve.                                 *)

\* Where the loop over the lags before last that satisfy skip leaves pos.
SkipPositive(from, last) == Min({l \in from .. last : l = last \/ curve[l] <= 0})
SkipOthers(from, last) == Min({l \in from .. last : l = last \/ curve[l] > 0})

\* At most a third of the curve is skipped with the peak at lag 0.
Beginning ==
    LET l == SkipOthers(SkipPositive(0, (size - 1) \div 3), size - 1)
    IN  IF l = 0 THEN 1 ELSE l

Skip ==
    /\ pc = "skip"
    /\ pos' = Beginning
    /\ pc' = "peaks"
    /\ UNCHANGED <<method, curve, cur_max_pos, max_positions, voiced, period>>

IsPeak(l) == curve[l] > curve[l - 1] /\ curve[l] >= curve[l + 1]

Highest == IF IsPeak(pos) /\ (cur_max_pos = 0 \/ curve[pos] > curve[cur_max_pos]) THEN pos ELSE cur_max_pos

Pushed(l) == IF l > 0 THEN Append(max_positions, l) ELSE max_positions

\* One turn of the loop: the lag, and behind it the stretch that is not positive.
Look ==
    /\ pc = "peaks"
    /\ pos < size - 1
    /\ IF pos + 1 < size - 1 /\ curve[pos + 1] <= 0
       THEN /\ max_positions' = Pushed(Highest)
            /\ cur_max_pos' = 0
            /\ pos' = SkipOthers(pos + 1, size - 1)
       ELSE /\ cur_max_pos' = Highest
            /\ pos' = pos + 1
            /\ UNCHANGED max_positions
    /\ UNCHANGED <<method, curve, pc, voiced, period>>

PushLast ==
    /\ pc = "peaks"
    /\ pos >= size - 1
    /\ max_positions' = Pushed(cur_max_pos)
    /\ pc' = "choose"
    /\ UNCHANGED <<method, curve, pos, cur_max_pos, voiced, period>>

\* parabolicInterpolation of a peak: the parabola through it and its neighbours,
\* as fractions; the divisor is positive, as a peak is above its left neighbour.
Divisor(l) == 2 * curve[l] - curve[l + 1] - curve[l - 1]
Delta(l) == curve[l - 1] - curve[l + 1]
Top(l) == [num |-> 8 * Divisor(l) * curve[l] + Delta(l) * Delta(l), den |-> 8 * Divisor(l)]
Shift(l) == [num |-> 2 * Divisor(l) * l - Delta(l), den |-> 2 * Divisor(l)]

\* The peaks above MPM_SMALL_CUTOFF; the first within MPM_CUTOFF of the highest
\* gives the period.  As only the interpolated can be highest, no other counts.
Estimates == SelectSeq(max_positions, LAMBDA l : curve[l] > 10)
AboveCutoff(l) ==
    \A h \in Range(Estimates) : 100 * Top(l).num * Top(h).den >= 93 * Top(h).num * Top(l).den

Choose ==
    /\ pc = "choose"
    /\ LET above == SelectSeq(Estimates, AboveCutoff)
       IN  IF Estimates = <<>>
           THEN voiced' = FALSE /\ period' = 0
           ELSE /\ period' = IF above = <<>> THEN 0 ELSE Head(above)
                /\ voiced' = (period' = 0 \/ Shift(period').num < LongestLag * Shift(period').den)
    /\ pc' = "done"
    /\ UNCHANGED <<method, curve, pos, cur_max_pos, max_positions>>
------------------------------------------------------------------------------
(* YIN: the first lag under the threshold, and from there to the bottom.        *)

Search ==
    /\ pc = "search"
    /\ \/ pos < size /\ ~Less(curve[pos], mThreshold) /\ pos' = pos + 1 /\ UNCHANGED pc
       \/ pos < size /\ Less(curve[pos], mThreshold) /\ pc' = "descend" /\ UNCHANGED pos
       \/ pos >= size /\ pc' = "answer" /\ UNCHANGED pos
    /\ UNCHANGED <<method, curve, cur_max_pos, max_positions, voiced, period>>

Descend ==
    /\ pc = "descend"
    /\ IF pos + 1 < size /\ Less(curve[pos + 1], curve[pos])
       THEN pos' = pos + 1 /\ UNCHANGED pc
       ELSE pc' = "answer" /\ UNCHANGED pos
    /\ UNCHANGED <<method, curve, cur_max_pos, max_positions, voiced, period>>

Answer ==
    /\ pc = "answer"
    /\ voiced' = ~(pos = size \/ NotLess(curve[pos], mThreshold))
    /\ period' = IF voiced' THEN pos ELSE 0
    /\ pc' = "done"
    /\ UNCHANGED <<method, curve, pos, cur_max_pos, max_positions>>

Next == Skip \/ Look \/ PushLast \/ Choose \/ Search \/ Descend \/ Answer
------------------------------------------------------------------------------
(* What the pitch track relies on.                                             *)

\* The peaks of MPM are, in order, one for each stretch above zero that has any:
\* the highest of its peaks, the first of equal ones.
SameStretch(a, b) == \A l \in (a .. b) \cup (b .. a) : curve[l] > 0
PeakOfStretch(l) ==
    /\ IsPeak(l) /\ curve[l] > 0
    /\ \A m \in Beginning .. size - 2 :
          IsPeak(m) /\ SameStretch(l, m) => curve[m] < curve[l] \/ (curve[m] = curve[l] /\ l <= m)
OnePeakEach ==
    method = "MPM" /\ pc = "done" =>
        max_positions = SetToSortSeq({l \in Beginning .. size - 2 : PeakOfStretch(l)}, LAMBDA a, b : a < b)

\* A voiced frame has a lag from within the curve: the sample rate is never
\* divided by a period of zero.
PeriodFound == voiced => period > 0 /\ period < size

\* YIN answers with the bottom of the first dip under the threshold, and with no
\* pitch only if there is none, whatever lags are not a number.
FirstDip ==
    method = "YIN" /\ pc = "done" =>
        LET under == {l \in 2 .. size - 1 : Less(curve[l], mThreshold)}
        IN  /\ voiced <=> under # {}
            /\ voiced => /\ period >= Min(under)
                         /\ \A l \in Min(under) + 1 .. period : Less(curve[l], curve[l - 1])
                         /\ period + 1 < size => ~Less(curve[period + 1], curve[period])
==============================================================================
