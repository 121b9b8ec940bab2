------------------------------ MODULE MCAnalysis ------------------------------
(* The kernels of the analysis for TLC, one in each behaviour: the convolutions  *)
(* beneath the wavelet transforms, the tables of the wavelets, the stationary    *)
(* transform, the transforms along an axis, the filter at the end of SIGMA, the  *)
(* peak picking of RAPT, the choice of a lag in MPM and YIN, linear prediction,  *)
(* and the formants of FilteredLP with the integral that counts roots.           *)
EXTENDS Integers, Sequences, Functions

CONSTANTS
    Kernels,                \* the kernels to run
    MaxSignal, MaxFilter,   \* lengths of the signals and filters convolved
    MaxOrder,               \* of the wavelets asked for
    MaxSize, MaxLevel,      \* of the stationary transform
    Shapes,                 \* of the arrays transformed along an axis
    Length, Tmax, Fewest,   \* of SIGMA's signal, see there
    PeakLengths, n_cands,   \* of the arrays searched for peaks, see FindPeaks
    CurveLengths, Levels,   \* of the curves of MPM and YIN, see PitchSearch
    lpcOrder, Samples, LengthsOf,       \* see LinearPrediction
    Frequencies, Extras,                \* see FilteredLP
    Spacing, ipc, maxDepth, Regions     \* see CauchyIntegral

VARIABLES
    kernel,                                             \* the one that runs
    pc, i,                                              \* its control and first index
    job, loop, j, k, half, edge, tmp, sum, output,      \* see WaveletConvolution
    asked, discrete, continuous,                        \* see Wavelets
    request, data, ret,                                 \* see Swt
    call, written, returned,                            \* see WaveletAxes
    gw, found, fgci, i2, iend,                          \* see Sigma
    array, ind, tempLoc, tempMag, foundPeak, minMag,    \* see FindPeaks
    leftMin, peakLoc, peakInds, candidates,
    method, curve, pos, cur_max_pos, max_positions, voiced, period,     \* see PitchSearch
    solver, signal, predictor, gain, cc, rows, beta, b1, b2, lpc,       \* see LinearPrediction
    roots, pickedRoots, formants, mergedPeaks, resolvedRoots, split,    \* see FilteredLP
    C, partCurrent, depth, partition, N                                 \* see CauchyIntegral

convolutionVars == <<job, loop, j, k, half, edge, tmp, sum, output>>
waveletsVars == <<asked, discrete, continuous>>
swtVars == <<request, data, ret>>
axesVars == <<call, written, returned>>
sigmaVars == <<gw, found, fgci, i2, iend>>
peaksVars == <<array, ind, tempLoc, tempMag, foundPeak, minMag, leftMin, peakLoc, peakInds, candidates>>
pitchVars == <<method, curve, pos, cur_max_pos, max_positions, voiced, period>>
predictionVars == <<solver, signal, predictor, gain, cc, rows, beta, b1, b2, lpc>>
formantsVars == <<roots, pickedRoots, formants, mergedPeaks, resolvedRoots, split>>
integralVars == <<C, partCurrent, depth, partition, N>>
transformVars == <<convolutionVars, waveletsVars, swtVars, axesVars>>
solverVars == <<sigmaVars, peaksVars, pitchVars, predictionVars, formantsVars, integralVars>>
vars == <<kernel, pc, i, transformVars, solverVars>>
------------------------------------------------------------------------------
(* The instances.                                                              *)

\* Reflecting a single sample does not end, see README.
Modes == {"zeropad", "symmetric", "antisymmetric", "constant_edge", "smooth", "periodic",
          "periodization", "reflect", "antireflect"}
Job(m, n, f, s, fs) == [mode |-> m, N |-> n, F |-> f, step |-> s, fstep |-> fs]
Jobs ==
    {Job(m, n, f, s, 1) : m \in Modes, n \in 2..MaxSignal, f \in 1..MaxFilter, s \in {1, 2}}
    \cup {Job(m, 1, f, s, 1) : m \in Modes \ {"reflect", "antireflect"},
                               f \in 1..MaxFilter, s \in {1, 2}}
    \cup {Job("periodization", nf[1], nf[2], 1, nf[3]) :
            nf \in {<<4, 4, 2>>, <<8, 4, 2>>, <<4, 12, 2>>, <<8, 8, 4>>, <<8, 24, 4>>}}

Requests == [size: 0..MaxSize, level: 0..MaxLevel, startLevel: 0..2, trimApprox: BOOLEAN]

\* Arrays in the order of C, in that of Fortran, and with a gap after each row
Elements(s) == FoldFunction(LAMBDA a, b : a * b, 1, s)
Strides(s, order) ==
    CASE order = "C"       -> [d \in DOMAIN s |-> Elements(SubSeq(s, d + 1, Len(s)))]
      [] order = "Fortran" -> [d \in DOMAIN s |-> Elements(SubSeq(s, 1, d - 1))]
      [] order = "gaps"    -> [d \in DOMAIN s |-> 2 * Elements(SubSeq(s, d + 1, Len(s)))]
Info(s, order) == [shape |-> s, strides |-> Strides(s, order)]
Infos == {Info(s, order) : s \in Shapes, order \in {"C", "Fortran", "gaps"}}
Calls ==
    [transform: {"dwt", "swt"}, ins: {<<a>> : a \in Infos}, out: Infos, axis: 0..2,
     mode: {"periodization"}, f: {2}]
    \cup [transform: {"idwt"},
          ins: {<<>>} \cup {<<a>> : a \in Infos} \cup {<<a, a>> : a \in Infos}
               \cup {<<Info(<<2, 3>>, "C"), Info(<<2, 3>>, "gaps")>>,
                     <<Info(<<2, 3>>, "C"), Info(<<3, 3>>, "C")>>},
          out: Infos, axis: 0..2, mode: {"periodization"}, f: {2}]
MCShapes == {<<3>>, <<2, 3>>, <<3, 3>>, <<3, 2>>, <<2, 2>>, <<2, 3, 2>>, <<2, 2, 2>>, <<4, 3>>}

Convolution == INSTANCE WaveletConvolution
Wavelet == INSTANCE Wavelets WITH Orders <- 0..MaxOrder
Stationary == INSTANCE Swt
Axes == INSTANCE WaveletAxes
Instants == INSTANCE Sigma WITH WindowSamples <- {120}
Peaks == INSTANCE FindPeaks WITH Heights <- {-1, 0, 1, 3, 8}
Lag == INSTANCE PitchSearch WITH Dips <- {1, 2, 8}, mThreshold <- 3, LongestLag <- 4
Prediction == INSTANCE LinearPrediction WITH x <- signal, a <- predictor, b <- rows
Formant == INSTANCE FilteredLP WITH HalfRate <- 110, Counts <- 0..2
Integral == INSTANCE CauchyIntegral

MCLevels == {-8, 9, 12, 20}
MCSamples == {-1, 0, 1}
MCLengthsOf == [Autocorr |-> 4..6, Covar |-> 4..6, Burg |-> {4}]
MCExtras ==
    {[freq |-> 17, upper |-> TRUE, inRing |-> TRUE], [freq |-> 109, upper |-> TRUE, inRing |-> TRUE],
     [freq |-> 20, upper |-> FALSE, inRing |-> TRUE], [freq |-> 30, upper |-> TRUE, inRing |-> FALSE]}
------------------------------------------------------------------------------
NoConvolution == job = 0 /\ loop = 0 /\ j = 0 /\ k = 0 /\ half = 0 /\ edge = 0 /\ tmp = 0 /\ sum = 0 /\ output = 0
NoWavelets == asked = 0 /\ discrete = 0 /\ continuous = 0
NoSwt == request = 0 /\ data = 0 /\ ret = 0
NoAxes == call = 0 /\ written = 0 /\ returned = 0
NoSigma == gw = 0 /\ found = 0 /\ fgci = 0 /\ i2 = 0 /\ iend = 0
NoPeaks ==
    /\ array = 0 /\ ind = 0 /\ tempLoc = 0 /\ tempMag = 0 /\ foundPeak = 0 /\ minMag = 0
    /\ leftMin = 0 /\ peakLoc = 0 /\ peakInds = 0 /\ candidates = 0
NoPitch ==
    /\ method = 0 /\ curve = 0 /\ pos = 0 /\ cur_max_pos = 0 /\ max_positions = 0
    /\ voiced = 0 /\ period = 0
NoPrediction ==
    /\ solver = 0 /\ signal = 0 /\ predictor = 0 /\ gain = 0 /\ cc = 0 /\ rows = 0
    /\ beta = 0 /\ b1 = 0 /\ b2 = 0 /\ lpc = 0
NoFormants ==
    /\ roots = 0 /\ pickedRoots = 0 /\ formants = 0 /\ mergedPeaks = 0
    /\ resolvedRoots = 0 /\ split = 0
NoIntegral == C = 0 /\ partCurrent = 0 /\ depth = 0 /\ partition = 0 /\ N = 0

Init ==
    /\ kernel \in Kernels
    /\ \/ kernel = "convolution" /\ Convolution!Init
       \/ kernel = "wavelets" /\ Wavelet!Init /\ pc = 0 /\ i = 0
       \/ kernel = "swt" /\ Stationary!Init
       \/ kernel = "axes" /\ Axes!Init /\ pc = 0
       \/ kernel = "sigma" /\ Instants!Init /\ i = 0
       \/ kernel = "peaks" /\ Peaks!Init
       \/ kernel = "pitch" /\ Lag!Init /\ i = 0
       \/ kernel = "prediction" /\ Prediction!Init
       \/ kernel = "formants" /\ Formant!Init
       \/ kernel = "integral" /\ Integral!Init /\ i = 0
    /\ kernel # "convolution" => NoConvolution
    /\ kernel # "wavelets" => NoWavelets
    /\ kernel # "swt" => NoSwt
    /\ kernel # "axes" => NoAxes
    /\ kernel # "sigma" => NoSigma
    /\ kernel # "peaks" => NoPeaks
    /\ kernel # "pitch" => NoPitch
    /\ kernel # "prediction" => NoPrediction
    /\ kernel # "formants" => NoFormants
    /\ kernel # "integral" => NoIntegral

\* One kernel runs; the variables of the others stay as they are.
NextTransform ==
    /\ UNCHANGED solverVars
    /\ \/ kernel = "convolution" /\ Convolution!Next /\ UNCHANGED <<waveletsVars, swtVars, axesVars>>
       \/ kernel = "wavelets" /\ Wavelet!Next /\ UNCHANGED <<convolutionVars, swtVars, axesVars, pc, i>>
       \/ kernel = "swt" /\ Stationary!Next /\ UNCHANGED <<convolutionVars, waveletsVars, axesVars>>
       \/ kernel = "axes" /\ Axes!Next /\ UNCHANGED <<convolutionVars, waveletsVars, swtVars, pc>>

NextSolver ==
    /\ UNCHANGED transformVars
    /\ \/ kernel = "sigma" /\ Instants!Next /\ UNCHANGED <<peaksVars, pitchVars, predictionVars, formantsVars, integralVars, i>>
       \/ kernel = "peaks" /\ Peaks!Next /\ UNCHANGED <<sigmaVars, pitchVars, predictionVars, formantsVars, integralVars>>
       \/ kernel = "pitch" /\ Lag!Next /\ UNCHANGED <<sigmaVars, peaksVars, predictionVars, formantsVars, integralVars, i>>
       \/ kernel = "prediction" /\ Prediction!Next /\ UNCHANGED <<sigmaVars, peaksVars, pitchVars, formantsVars, integralVars>>
       \/ kernel = "formants" /\ Formant!Next /\ UNCHANGED <<sigmaVars, peaksVars, pitchVars, predictionVars, integralVars>>
       \/ kernel = "integral" /\ Integral!Next /\ UNCHANGED <<sigmaVars, peaksVars, pitchVars, predictionVars, formantsVars, i>>

Next == UNCHANGED kernel /\ (NextTransform \/ NextSolver)

\* Linear prediction needs no fairness: its loops count up to the order, and
\* KernelsEnd says nothing of it.
Spec == Init /\ [][Next]_vars /\ WF_vars(kernel # "prediction" /\ Next)
------------------------------------------------------------------------------
(* What the kernels promise: the properties of each module, named there.        *)

\* Every convolution is that of the extended signal, extended as the examples of
\* common.h say as far as the two agree, fills the caller's buffer, and the four
\* filters and both convolutions reconstruct the signal.
ConvolutionCorrect ==
    kernel = "convolution" =>
        /\ Convolution!TypeOK /\ Convolution!Convolves /\ Convolution!AsDescribed
        /\ Convolution!FillsBuffer
        /\ Convolution!PerfectReconstruction /\ Convolution!FullAndValidAgree

\* No wavelet reads outside its table, a symmetric one takes the table's middle,
\* and a name is of one kind; what passes the checks of swt() is transformed, and
\* SIGMA multiplies details only; a transform along an axis maps row to row and
\* stays within the arrays.
TransformsCorrect ==
    /\ kernel = "wavelets" => Wavelet!TypeOK /\ Wavelet!ReadsInTable /\ Wavelet!TakesTheMiddle /\ Wavelet!OneConstructor
    /\ kernel = "swt" => Stationary!TypeOK /\ Stationary!ChecksSuffice /\ Stationary!ProductOfDetails
    /\ kernel = "axes" => Axes!RowForRow /\ Axes!WithinArrays

\* SIGMA's filter keeps every instant that has company and leaves few alone; the
\* peaks that RAPT takes for candidates are prominent, the highest is among them,
\* and their neighbours, which it interpolates, are in the array; MPM takes one
\* peak of each stretch and never a period of zero, YIN the bottom of the first
\* dip; the predictors are the best of their order, and numbers but in one case;
\* the formants are in order and none is lost; the integral is over the whole ray
\* and counts turns.
SolversCorrect ==
    /\ kernel = "sigma" => Instants!KeepsCompany /\ Instants!LeavesFewAlone
    /\ kernel = "peaks" => /\ Peaks!PeaksFit /\ Peaks!PeaksProminent
                           /\ Peaks!HighestFound /\ Peaks!InterpolatesWithin
    /\ kernel = "pitch" => Lag!OnePeakEach /\ Lag!PeriodFound /\ Lag!FirstDip
    /\ kernel = "prediction" => Prediction!Solves /\ Prediction!ErrorsInPlace /\ Prediction!NumbersOnly
    /\ kernel = "formants" => Formant!FormantsInOrder /\ Formant!NoneLost
    /\ kernel = "integral" => Integral!CoversRay /\ Integral!Resolved /\ Integral!CountsTurns

\* Every kernel comes to an end: the loops of the convolutions, whose edges are
\* left by counters that several loops share, above all.
KernelsEnd ==
    <>CASE kernel \in {"wavelets", "prediction"} -> TRUE
        [] kernel = "axes" -> returned # -1
        [] kernel = "swt"  -> pc \notin {"checks", "levels"}
        [] OTHER           -> pc = "done"
==============================================================================
