---------------------------- MODULE Synthesizer ----------------------------
(***************************************************************************)
(* App::Synthesizer (src/src/modules/app/synthesizer/synthesizer.cpp): the *)
(* callback on the synthesis thread, which smooths the parameters, makes   *)
(* the filter and generates audio in chunks, while the datavis thread sets *)
(* the formants and copies the filter and the GUI's sets the gains.        *)
(*                                                                         *)
(* A glottal sample is its number in the stream, modulo Modulus.  A gain   *)
(* is how many callbacks it takes to fade below 1e-7.  The number of       *)
(* formants, which the code smooths as a double, is in tenths, rounded     *)
(* either way.  The filter is in two halves, as a vector that is being     *)
(* assigned is; each has the version of the callback that wrote it.        *)
(***************************************************************************)
EXTENDS Integers, Sequences, Resampler

CONSTANTS
    MaxFormants,
    InRate, OutRate,    \* of the synthesizer's resampler
    Chunk,              \* 4096 in the code
    Lengths,            \* the lengths the queue asks for
    Periods,            \* lengths of glottal frames
    FadeTime,           \* callbacks until a gain that is set to zero has no effect
    MaxHeld,            \* frames in the resampler
    Modulus,            \* bound: numbers of glottal samples
    Others              \* bound: what the other threads do: "formants", "gains", "filter"

SynthesizerAssumption ==
    /\ \A c \in {MaxFormants, InRate, OutRate, Chunk, FadeTime, Modulus} \cup Lengths \cup Periods : c \in Nat \ {0}
    /\ MaxHeld \in Nat
    /\ \E p \in Periods : \A q \in Periods : p >= q
    /\ OutRate <= (Chunk + 1) * InRate     \* a chunk takes a sample at least

VARIABLES
    formants,           \* how many, set by setFormants()
    masterGain, glotGain,           \* whether they are set to more than zero
    realMasterGain, realGlotGain,   \* callbacks until they have faded
    formantCount,       \* in tenths
    realFormants,       \* how many
    i,                  \* of the loop over the formants
    realFilter,         \* the versions of its two halves
    realFilterMutex,    \* "free" or who holds it
    surplus,            \* samples generated but not delivered
    glotSurplus,        \* glottal samples generated but not used
    nextGlot, lastGlot, \* the next one to generate, and the last one used
    held,               \* frames in the resampler
    length,             \* that the queue asks for
    pc, reader,         \* the synthesis thread and the datavis thread
    filterCopy

params == <<formants, masterGain, glotGain>>
smooth == <<realMasterGain, realGlotGain, formantCount, realFormants>>
audio == <<surplus, glotSurplus, nextGlot, lastGlot, held>>
vars == <<params, smooth, i, realFilter, realFilterMutex, audio, length, pc, reader, filterCopy>>

TypeOK ==
    /\ formants \in 0..MaxFormants /\ realFormants \in 0..MaxFormants
    /\ formantCount \in 0..(10 * MaxFormants)
    /\ {masterGain, glotGain} \subseteq BOOLEAN
    /\ {realMasterGain, realGlotGain} \subseteq 0..FadeTime
    /\ i \in 0..MaxFormants
    /\ realFilterMutex \in {"free", "synthesis", "datavis"}
    /\ surplus \in Nat /\ held \in 0..MaxHeld /\ length \in {0} \cup Lengths
    /\ glotSurplus \in Seq(0..Modulus-1) /\ {nextGlot, lastGlot} \subseteq 0..Modulus-1
    /\ pc \in {"idle", "formants", "lock", "assign", "assigned", "generate"}
    /\ reader \in {"idle", "locked", "half", "copied"}

Init ==
    /\ formants = 1                     \* {{1000, 100}}
    /\ masterGain = FALSE /\ glotGain = TRUE
    /\ realMasterGain = 0 /\ realGlotGain = 0
    /\ formantCount = 0 /\ realFormants = 0 /\ i = 0
    /\ realFilter = <<0, 0>> /\ realFilterMutex = "free" /\ filterCopy = <<0, 0>>
    /\ surplus = 0 /\ glotSurplus = <<>> /\ nextGlot = 0 /\ lastGlot = Modulus - 1
    /\ held = 0 /\ length = 0
    /\ pc = "idle" /\ reader = "idle"
-----------------------------------------------------------------------------
(* The other threads *)

setFormants(n) ==
    /\ reader = "idle"
    /\ formants' = n
    /\ UNCHANGED <<masterGain, glotGain, smooth, i, realFilter, realFilterMutex, audio, length, pc, reader, filterCopy>>

setGains(master, glot) ==
    /\ masterGain' = master /\ glotGain' = glot
    /\ UNCHANGED <<formants, smooth, i, realFilter, realFilterMutex, audio, length, pc, reader, filterCopy>>

reading == <<params, smooth, i, realFilter, audio, length, pc>>

\* Mutant of LockFilter: the copy is made without the mutex.
LockFilterNot ==
    /\ reader = "idle"
    /\ reader' = "locked"
    /\ UNCHANGED <<reading, realFilterMutex, filterCopy>>

\* getFilterCopy
LockFilter ==
    /\ reader = "idle"
    /\ realFilterMutex = "free"
    /\ realFilterMutex' = "datavis"
    /\ reader' = "locked"
    /\ UNCHANGED <<reading, filterCopy>>

CopyFilter ==
    \/ /\ reader = "locked"
       /\ filterCopy' = [filterCopy EXCEPT ![1] = realFilter[1]]
       /\ reader' = "half"
       /\ UNCHANGED <<reading, realFilterMutex>>
    \/ /\ reader = "half"
       /\ filterCopy' = [filterCopy EXCEPT ![2] = realFilter[2]]
       /\ reader' = "copied"
       /\ UNCHANGED <<reading, realFilterMutex>>

\* Mutant of UnlockFilter: the mutex is kept.
UnlockFilterNot ==
    /\ reader = "copied"
    /\ reader' = "idle"
    /\ UNCHANGED <<reading, realFilterMutex, filterCopy>>

UnlockFilter ==
    /\ reader = "copied"
    /\ realFilterMutex' = "free"
    /\ reader' = "idle"
    /\ UNCHANGED <<reading, filterCopy>>
-----------------------------------------------------------------------------
(* audioCallback *)

\* 0.1 * real + 0.9 * gain, as the callbacks until it is below 1e-7
Faded(real, gain) == IF gain THEN FadeTime ELSE IF real > 0 THEN real - 1 ELSE 0

Rounded(count) == (count + 5) \div 10

\* realFormants.resize(std::round(formantCount))
Resized(count) == Rounded(count)

\* The number of formants, 0.4 of the old one and 0.6 of the new, or the new
\* one if there was none.
Smoothed ==
    IF formantCount = 0 THEN {10 * formants}
    ELSE LET tenths == 4 * formantCount + 60 * formants
         IN {tenths \div 10, (tenths + 9) \div 10}

AudioCallback(n) ==
    /\ pc = "idle"
    /\ length' = n
    /\ realMasterGain' = Faded(realMasterGain, masterGain)
    /\ realGlotGain' = Faded(realGlotGain, glotGain)
    /\ formantCount' \in Smoothed
    /\ realFormants' = Resized(formantCount')
    /\ i' = 0
    /\ pc' = "formants"
    /\ UNCHANGED <<params, realFilter, realFilterMutex, audio, reader, filterCopy>>

Writes == i < Rounded(formantCount)

\* The loop over the formants, whose number may change between its rounds.
SmoothFormant ==
    /\ pc = "formants"
    /\ IF i < formants THEN i' = i + 1 /\ UNCHANGED pc
       ELSE pc' = "lock" /\ UNCHANGED i
    /\ UNCHANGED <<params, smooth, realFilter, realFilterMutex, audio, length, reader, filterCopy>>

callback == <<params, smooth, i, audio, length, reader, filterCopy>>

LockRealFilter ==
    /\ pc = "lock"
    /\ realFilterMutex = "free"
    /\ realFilterMutex' = "synthesis"
    /\ pc' = "assign"
    /\ UNCHANGED <<callback, realFilter>>

AssignFilter ==
    \/ /\ pc = "assign"
       /\ realFilter' = [realFilter EXCEPT ![1] = 1 - @]
       /\ pc' = "assigned"
       /\ UNCHANGED <<callback, realFilterMutex>>
    \/ /\ pc = "assigned"
       /\ realFilter' = [realFilter EXCEPT ![2] = 1 - @]
       /\ realFilterMutex' = "free"
       /\ pc' = "generate"
       /\ UNCHANGED callback

-----------------------------------------------------------------------------
(* generateAudio *)

inputLength == getRequiredInLength(Chunk, InRate, OutRate)

Number(n) == n % Modulus

\* Glottal frames of any period follow until the chunk is full: how many
\* samples may have been generated when it is.
Longest == CHOOSE p \in Periods : \A q \in Periods : p >= q
FrameTotals(missing) == IF missing <= 0 THEN {0} ELSE missing..(missing + Longest - 1)

\* Mutant of Used: the surplus stays where it is.
UsedNone == <<>>

\* What is used of the surplus
Used == IF Len(glotSurplus) <= inputLength THEN glotSurplus ELSE SubSeq(glotSurplus, 1, inputLength)

Kept == SubSeq(glotSurplus, Len(Used) + 1, Len(glotSurplus))

\* The glottal samples of a chunk: those left over, then new frames, of which
\* the rest is left over in turn.
GenerateGlot ==
    \E total \in FrameTotals(inputLength - Len(Used)) :
        LET fresh == [n \in 1..total |-> Number(nextGlot + n - 1)]
            glot == Used \o fresh
        IN /\ nextGlot' = Number(nextGlot + total)
           /\ lastGlot' = glot[inputLength]
           /\ glotSurplus' = Kept \o SubSeq(glot, inputLength + 1, Len(glot))

Missing == surplus < length

GenerateAudio ==
    /\ pc = "generate"
    /\ Missing
    /\ IF realMasterGain > 0 /\ realGlotGain > 0 THEN GenerateGlot
       ELSE UNCHANGED <<glotSurplus, nextGlot, lastGlot>>
    /\ \E p \in process(inputLength, InRate, OutRate, held, MaxHeld) :
          surplus' = surplus + p.generated /\ held' = p.held
    /\ UNCHANGED <<params, smooth, i, realFilter, realFilterMutex, length, pc, reader, filterCopy>>

\* The block is copied out of the bank.
Deliver ==
    /\ pc = "generate"
    /\ ~Missing
    /\ surplus' = surplus - length
    /\ length' = 0
    /\ pc' = "idle"
    /\ UNCHANGED <<params, smooth, i, realFilter, realFilterMutex, glotSurplus, nextGlot, lastGlot, held, reader, filterCopy>>

Synthesis ==
    \/ \E n \in Lengths : AudioCallback(n)
    \/ SmoothFormant \/ LockRealFilter \/ AssignFilter \/ GenerateAudio \/ Deliver

Copying == CopyFilter \/ UnlockFilter

Next ==
    \/ Synthesis \/ Copying
    \/ "filter" \in Others /\ LockFilter
    \/ "formants" \in Others /\ \E n \in 0..MaxFormants : setFormants(n)
    \/ "gains" \in Others /\ \E master, glot \in BOOLEAN : setGains(master, glot)

\* The synthesis thread runs for as long as the program; a copy that has begun ends.
Fairness == SF_vars(Synthesis) /\ WF_vars(Copying)
Spec == Init /\ [][Next]_vars /\ Fairness
-----------------------------------------------------------------------------
\* Whatever size the formants have when the loop looks at them, the element it
\* smooths exists in realFormants, which was resized before.
SmoothsWithin == pc = "formants" /\ i < formants /\ Writes => i < realFormants

\* A copy of the filter is all of one callback's.
FilterCopyWhole == reader \in {"idle", "copied"} => filterCopy[1] = filterCopy[2]

\* No glottal sample is lost, played twice or out of order, however the periods
\* and the chunks overlap, and through silence.
GlotContiguous ==
    [][lastGlot' # lastGlot => lastGlot' = Number(lastGlot + inputLength)]_vars

\* What is left over follows what was used, up to the next one.
SurplusFollows ==
    \A n \in 1..(Len(glotSurplus) + 1) :
        Number(lastGlot + n) = IF n <= Len(glotSurplus) THEN glotSurplus[n] ELSE nextGlot

\* Between two callbacks the bank holds less than a chunk, so that what is heard
\* is at most that old.
BankBounded == pc = "idle" => surplus < getExpectedOutLength(inputLength, InRate, OutRate)

\* A callback ends, although it waits for the mutex and for the resampler.
CallbackReturns == pc # "idle" ~> pc = "idle"

\* When the formants keep their number, the filter comes to have as many.
FormantsFollow ==
    \A n \in 0..MaxFormants : <>[](formants = n) => <>[](pc = "generate" => realFormants = n)
=============================================================================
