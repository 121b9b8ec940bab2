----------------------------- MODULE AxisLabels -----------------------------
(***************************************************************************)
(* The axes of the view (QPainterWrapper::drawTimeAxis and                 *)
(* drawFrequencyScale of src/src/gui/qpainterwrapper.cpp): three classes   *)
(* of ticks, drawn class after class, whose labels are left out where they *)
(* would cover one that is there.  Times are in tenths of a second; the    *)
(* range of frequencies is whole, as in the settings, and may be reversed, *)
(* which the window's slider does not do but a settings file can; a tick's *)
(* place on the logarithmic scales is any increasing function of it.       *)
(***************************************************************************)
EXTENDS Integers, Sequences, FiniteSetsExt, SequencesExt

CONSTANTS
    TimeStarts, TimeSpans,      \* time ranges, in tenths
    LinearRanges, LogRanges,    \* ranges of frequencies: pairs <<min, max>>
    Extents,                    \* widths or heights of the viewport
    LabelExtents                \* of a label along the axis: a function of the class

AxisAssumption ==
    /\ \A r \in LinearRanges \cup LogRanges : {r[1], r[2]} \subseteq Nat \ {0} /\ r[1] # r[2]
    /\ TimeStarts \subseteq Int /\ TimeSpans \subseteq Nat \ {0}
    /\ \A l \in LabelExtents : DOMAIN l = {1, 2, 3}

VARIABLES
    axis,       \* "time", "linear", "log"
    lo, hi,     \* the range
    extent, labelExtent,
    ticks,      \* the three classes of ticks
    class, at,  \* the loop: the class of ticks, 4 at the end, and the tick's number
    bits,       \* the pixels covered
    drawn,      \* the labels drawn, <<class, tick, first pixel, last pixel>>
    omitted     \* the labels left out

vars == <<axis, lo, hi, extent, labelExtent, ticks, class, at, bits, drawn, omitted>>

TypeOK ==
    /\ axis \in {"time", "linear", "log"} /\ class \in 1..4 /\ at \in Nat
    /\ bits \subseteq 0..(extent - 1)

\* floor, ceil and the truncation of a double that becomes an int
Floor(n, d) == (n \div d) * d
Ceil(n, d) == -((-n) \div d) * d
Trunc(n, d) == IF n >= 0 THEN n \div d ELSE -((-n) \div d)

\* drawTimeAxis: seconds, halves and, without labels, the other tenths; only the
\* seconds before 0.
TimeTicks(c) ==
    LET seconds == [i \in 1..((Ceil(hi, 10) - Floor(lo, 10)) \div 10 + 1) |-> Floor(lo, 10) + 10 * (i - 1)]
        later == SelectSeq(seconds, LAMBDA t : t >= 0)
    IN  CASE c = 1 -> seconds
          [] c = 2 -> [i \in DOMAIN later |-> later[i] + 5]
          [] c = 3 -> <<>>

\* drawFrequencyScale, linear: thousands, five hundreds and the other hundreds.
LinearTicks(c) ==
    LET first == Floor(lo, 1000)
        thousands == [i \in 1..((Ceil(hi, 1000) - first) \div 1000 + 1) |-> first + 1000 * (i - 1)]
        others == <<1, 2, 3, 4, 6, 7, 8, 9>>
    IN  CASE c = 1 -> thousands
          [] c = 2 -> [i \in DOMAIN thousands |-> thousands[i] + 500]
          [] c = 3 -> [i \in 1..(8 * Len(thousands)) |->
                         thousands[(i - 1) \div 8 + 1] + 100 * others[((i - 1) % 8) + 1]]

\* A reversed range is gone through downwards.
Reversed == hi < lo
rMin == Min({lo, hi})
rMax == Max({lo, hi})
InRange(f) == rMin <= f /\ f < rMax

\* "for (int i = 0; i <= steps; ++i)": i <= log10(rMax / rMin) + extra.  Decades and
\* multiples below 1, where a reversed range may lead, are in no range.
startDecade == Max({10 ^ i : i \in {j \in 0..4 : 10 ^ j <= lo}})
Decades(extra) ==
    LET count == Cardinality({i \in 0..7 : i < extra \/ 10 ^ (i - extra) * rMin <= rMax})
        decade(i) == IF Reversed THEN startDecade \div 10 ^ i ELSE startDecade * 10 ^ i
    IN  SelectSeq([i \in 1..count |-> decade(i - 1)], LAMBDA d : d >= 1)

\* ... logarithmic: decades, their multiples and, from 10 on, the tenths of these.
MinorTicks ==
    LET ds == Decades(1)
        multiple(k) == IF Reversed THEN 9 - k ELSE 2 + k
    IN  [i \in 1..(8 * Len(ds)) |-> ds[(i - 1) \div 8 + 1] * multiple((i - 1) % 8)]
MinorMinorTicks ==
    LET tens == SelectSeq(Decades(2), LAMBDA d : d >= 10)
        tenths(k) == IF Reversed THEN 99 - k - k \div 9 ELSE 11 + k + k \div 9
    IN  [i \in 1..(81 * Len(tens)) |-> (tens[(i - 1) \div 81 + 1] * tenths((i - 1) % 81)) \div 10]
LogTicks(c) ==
    SelectSeq(CASE c = 1 -> Decades(0) [] c = 2 -> MinorTicks [] c = 3 -> MinorMinorTicks, InRange)

TicksOf(c) ==
    CASE axis = "time" -> TimeTicks(c)
      [] axis = "linear" -> LinearTicks(c)
      [] axis = "log" -> LogTicks(c)

\* mapTimeToX, mapFrequencyToY
Decade(f) == Max({10 ^ i : i \in {j \in 0..5 : 10 ^ j <= f}})
Height(f) == IF axis = "linear" THEN f
             ELSE 90 * Cardinality({i \in 1..5 : 10 ^ i <= f}) + (10 * (f - Decade(f))) \div Decade(f)
Place(t) ==
    IF axis = "time" THEN [n |-> extent * (t - lo), d |-> hi - lo]
    ELSE LET sign == IF Reversed THEN -1 ELSE 1
         IN  [n |-> sign * extent * (Height(hi) - Height(t)), d |-> sign * (Height(hi) - Height(lo))]

\* The pixels of a label: rect.x() to rect.x() + rect.width(), or the same of y.
Rect(c, t) ==
    LET size == labelExtent[c]
        first == IF axis = "time" THEN Trunc(Place(t).n - (size \div 2) * Place(t).d, Place(t).d)
                 ELSE Trunc(Place(t).n + (size \div 2) * Place(t).d, Place(t).d)
    IN  first..(first + size)
InView(pixels) == pixels \cap 0..(extent - 1)

\* Mutant of Marked: only the label's first pixel is taken.
MarkedFirst(pixels) == InView({Min(pixels)})

Marked(pixels) == InView(pixels)

Covered(pixels) == InView(pixels) \cap bits # {}

Init ==
    /\ extent \in Extents /\ labelExtent \in LabelExtents
    /\ \/ axis = "time" /\ lo \in TimeStarts /\ \E s \in TimeSpans : hi = lo + s
       \/ axis = "linear" /\ \E r \in LinearRanges : lo = r[1] /\ hi = r[2]
       \/ axis = "log" /\ \E r \in LogRanges : lo = r[1] /\ hi = r[2]
    /\ ticks = <<TicksOf(1), TicksOf(2), TicksOf(3)>>
    /\ class = 1 /\ at = 1 /\ bits = {} /\ drawn = {} /\ omitted = {}

\* One tick: its label is drawn, ...
HasLabel(c, t) == axis = "time" /\ c = 1 => t >= 0
Label ==
    /\ class <= 3 /\ at <= Len(ticks[class])
    /\ LET t == ticks[class][at]
           pixels == Rect(class, t)
       IN  /\ HasLabel(class, t)
           /\ ~ Covered(pixels)
           /\ bits' = bits \cup Marked(pixels)
           /\ drawn' = drawn \cup {<<class, t, Min(pixels), Max(pixels)>>}
    /\ at' = at + 1
    /\ UNCHANGED <<axis, lo, hi, extent, labelExtent, ticks, class, omitted>>

\* ... or left out.
NoLabel ==
    /\ class <= 3 /\ at <= Len(ticks[class])
    /\ LET t == ticks[class][at]
       IN  /\ ~ HasLabel(class, t) \/ Covered(Rect(class, t))
           /\ omitted' = IF HasLabel(class, t) THEN omitted \cup {<<class, t>>} ELSE omitted
    /\ at' = at + 1
    /\ UNCHANGED <<axis, lo, hi, extent, labelExtent, ticks, class, bits, drawn>>

NextClass ==
    /\ class <= 3 /\ at > Len(ticks[class])
    /\ class' = class + 1 /\ at' = 1
    /\ UNCHANGED <<axis, lo, hi, extent, labelExtent, ticks, bits, drawn, omitted>>

Next == Label \/ NoLabel \/ NextClass

Spec == Init /\ [][Next]_vars /\ WF_vars(Next)

-----------------------------------------------------------------------------
(* What the axes show.                                                     *)

\* Two labels never share a pixel of the viewport, whatever their classes.
LabelsApart ==
    \A a, b \in drawn : a # b => InView((a[3]..a[4]) \cap (b[3]..b[4])) = {}

\* A label is left out only where one of its own or of a larger class is drawn.
OmittedForLarger ==
    \A o \in omitted : \E d \in drawn : d[1] <= o[1] /\ InView((d[3]..d[4]) \cap Rect(o[1], o[2])) # {}

\* A frequency is a tick of one class only, once.
TicksOnce ==
    axis # "time" /\ class = 1 /\ at = 1 => \A c, e \in 1..3 : \A i \in DOMAIN ticks[c], j \in DOMAIN ticks[e] :
        ticks[c][i] = ticks[e][j] => c = e /\ i = j

\* When the axis is done, every label of every tick was drawn or left out.
LabelsDecided ==
    class = 4 => \A c \in 1..3 : \A i \in DOMAIN ticks[c] :
        HasLabel(c, ticks[c][i]) => <<c, ticks[c][i]>> \in omitted \cup {<<d[1], d[2]>> : d \in drawn}

\* "Major ticks are the decades." (qpainterwrapper.cpp:190): every power of ten in
\* the range is a major tick.
DecadesAreMajor ==
    axis = "log" /\ class = 1 /\ at = 1 => \A i \in 0..5 : InRange(10 ^ i) => \E j \in DOMAIN ticks[1] : ticks[1][j] = 10 ^ i
=============================================================================
