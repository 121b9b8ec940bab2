-------------------------------- MODULE Sigma --------------------------------
(***************************************************************************)
(* The last part of SIGMA::analyse (src/src/analysis/gci/sigma.cpp), which *)
(* drops the glottal closure instants that stand alone, with the iterators *)
(* of its list, and the window lengths of xewgrdel().                      *)
(***************************************************************************)
EXTENDS Integers, Sequences, SequencesExt, FiniteSets, FiniteSetsExt

CONSTANTS
    Length,     \* samples of the signal
    Tmax,       \* Tmax * fs, in samples
    Fewest,     \* bound: the fewest instants the list starts with
    WindowSamples   \* gwlen * fs, rounded

VARIABLES
    gw,         \* the window length of xewgrdel()
    found,      \* the instants before the filter
    fgci,       \* the list
    i2, iend,   \* the iterators, as the instants they point at
    pc

vars == <<gw, found, fgci, i2, iend, pc>>

At(n) == fgci[n + 1]                    \* std::next(fgci.begin(), n)
Place(t) == CHOOSE n \in DOMAIN fgci : fgci[n] = t
Before(t) == fgci[Place(t) - 1]         \* std::prev
After(t) == fgci[Place(t) + 1]          \* std::next

\* 2 * (int) std::round(gwlen * fs) / 2 + 1
Window(n) == (2 * n) \div 2 + 1

Init ==
    /\ gw \in {Window(n) : n \in WindowSamples}
    /\ found \in {S \in SUBSET (0..Length-1) : Cardinality(S) >= Fewest}
    /\ fgci = [n \in 1..Cardinality(found) |->
                 CHOOSE t \in found : Cardinality({u \in found : u < t}) = n - 1]
    /\ i2 = 0 /\ iend = 0
    /\ pc = "first"

CheckFirst ==
    /\ pc = "first"
    /\ fgci' = IF At(1) - At(0) > Tmax THEN Tail(fgci) ELSE fgci
    /\ i2' = fgci'[3]
    /\ iend' = Last(fgci')
    /\ pc' = "middle"
    /\ UNCHANGED <<gw, found>>

Isolated(t) == t - Before(t) > Tmax /\ After(t) - t > Tmax

CheckMiddle ==
    /\ pc = "middle"
    /\ IF i2 = iend THEN pc' = "last" /\ UNCHANGED <<fgci, i2>>
       ELSE /\ i2' = After(i2)
            /\ fgci' = IF Isolated(i2) THEN Remove(fgci, i2) ELSE fgci
            /\ UNCHANGED pc
    /\ UNCHANGED <<gw, found, iend>>

CheckLast ==
    /\ pc = "last"
    /\ fgci' = IF iend - Before(iend) > Tmax THEN Front(fgci) ELSE fgci
    /\ pc' = "done"
    /\ UNCHANGED <<gw, found, i2, iend>>

Next == CheckFirst \/ CheckMiddle \/ CheckLast
Spec == Init /\ [][Next]_vars
-----------------------------------------------------------------------------
Distance(t, u) == IF t < u THEN u - t ELSE t - u
Alone(t) == \A u \in found \ {t} : Distance(t, u) > Tmax

\* An instant that has another one within Tmax stays, whatever was dropped
\* around it before.
KeepsCompany == \A t \in found : ~Alone(t) => t \in Range(fgci)

\* Of the instants that stand alone none is left but, possibly, the second or
\* third, which the loop in the middle never looks at.
LeavesFewAlone ==
    pc = "done" => \A t \in Range(fgci) : Alone(t) => Cardinality({u \in found : u < t}) \in {1, 2}

\* "If a gci is separated from all others by more than Tmax, delete"
IsolatedDeleted == pc = "done" => \A t \in Range(fgci) : ~Alone(t)

\* "Force window length to be odd."
WindowIsOdd == gw % 2 = 1
=============================================================================
