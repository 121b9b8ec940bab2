----------------------------- MODULE Resampler -----------------------------
(***************************************************************************)
(* Audio::Resampler (src/src/modules/audio/resampler/resampler.cpp): the   *)
(* lengths it computes, and libsamplerate's src_process() beneath it, of   *)
(* which the code uses how many frames it generates.  Rates are in the     *)
(* same unit, whatever it is.                                              *)
(***************************************************************************)
LOCAL INSTANCE Integers

\* Both take the rates as arguments: the object's can change between calls.
getRequiredInLength(outLength, inRate, outRate) ==
    IF outLength = 0 THEN 0 ELSE ((outLength + 1) * inRate) \div outRate

getExpectedOutLength(inLength, inRate, outRate) ==
    IF inLength = 0 THEN 0 ELSE (2 * inLength * outRate + inRate) \div (2 * inRate)

\* External.  The library holds frames back, `held` of them before the call and
\* no more than maxHeld after it, and fills at most the buffer it is given.
src_process(expected, held, maxHeld) ==
    {[generated |-> held + expected - h, held |-> h] :
        h \in {x \in 0..maxHeld : held + expected - x \in 0..expected}}

\* Resampler::process
process(inLength, inRate, outRate, held, maxHeld) ==
    src_process(getExpectedOutLength(inLength, inRate, outRate), held, maxHeld)
=============================================================================
