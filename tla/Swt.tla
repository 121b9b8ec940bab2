--------------------------------- MODULE Swt ---------------------------------
(***************************************************************************)
(* The stationary wavelet transform (src/src/analysis/wavelet/wavelet.h),  *)
(* level by level, and the multiscale product SIGMA makes of its result.   *)
(* A band of coefficients is its kind and its level; what a level's        *)
(* convolution computes is in WaveletConvolution.                          *)
(***************************************************************************)
EXTENDS Integers, Sequences, SequencesExt, WaveletCommon

CONSTANT Requests   \* records: size, level, startLevel, trimApprox

VARIABLES
    request,
    i,          \* the level
    data,       \* the band the next level decomposes
    ret,        \* the bands, as they lie in the result
    pc          \* "checks", "levels", "done", or what was thrown

vars == <<request, i, data, ret, pc>>

A(level) == [kind |-> "cA", level |-> level]
D(level) == [kind |-> "cD", level |-> level]

TypeOK ==
    /\ pc \in {"checks", "levels", "done", "odd length", "empty", "level too low",
               "start too high", "level too high", "SWT failed"}
    /\ i \in Nat
    /\ Len(ret) <= IF request.trimApprox THEN request.level + 1 ELSE 2 * request.level
    /\ \A b \in {data} \cup Range(ret) : b.kind \in {"cA", "cD"} /\ b.level \in Nat

Init ==
    /\ request \in Requests
    /\ i = request.startLevel + 1
    /\ data = A(request.startLevel)
    /\ ret = <<>>
    /\ pc = "checks"

endLevel == request.startLevel + request.level

\* The checks throw in this order.
CheckOutcome ==
    LET maxLevel == swt_max_level(request.size)
    IN IF request.size % 2 = 1 THEN "odd length"
       ELSE IF request.size < 1 THEN "empty"
       ELSE IF request.level < 1 THEN "level too low"
       ELSE IF request.startLevel >= maxLevel THEN "start too high"
       ELSE IF endLevel > maxLevel THEN "level too high"
       ELSE "levels"

Checks ==
    /\ pc = "checks"
    /\ pc' = CheckOutcome
    /\ UNCHANGED <<request, i, data, ret>>

\* double_swt_a and double_swt_d: _swt_() has checks of its own.
swt_fails == i < 1 \/ i > swt_max_level(request.size)

\* What a level appends to the result.
Bands == IF request.trimApprox THEN <<D(i)>> ELSE <<A(i), D(i)>>

Level ==
    /\ pc = "levels"
    /\ i < endLevel + 1
    /\ IF swt_fails THEN pc' = "SWT failed" /\ UNCHANGED <<i, data, ret>>
       ELSE /\ data' = A(i)
            /\ ret' = ret \o Bands
            /\ i' = i + 1
            /\ UNCHANGED pc
    /\ UNCHANGED request

\* The last approximation is appended if the others were not, and all of it is
\* reversed, which also turns every band round.
Finish ==
    /\ pc = "levels"
    /\ i = endLevel + 1
    /\ ret' = Reverse(IF request.trimApprox THEN ret \o <<data>> ELSE ret)
    /\ pc' = "done"
    /\ UNCHANGED <<request, i, data>>

Next == Checks \/ Level \/ Finish
Spec == Init /\ [][Next]_vars
-----------------------------------------------------------------------------
\* SIGMA multiplies the blocks from the second on.
multiscaleProduct == SubSeq(ret, 2, Len(ret))

\* What has passed swt()'s own checks never fails one of _swt_()'s.
ChecksSuffice == pc # "SWT failed"

\* The trimmed result is one approximation and then the details of every level,
\* the coarsest first; the multiscale product has each detail band as a factor
\* once and no approximation.
ProductOfDetails ==
    pc = "done" /\ request.trimApprox =>
        /\ Head(ret) = A(endLevel)
        /\ multiscaleProduct = [x \in 1..request.level |-> D(endLevel + 1 - x)]

=============================================================================
