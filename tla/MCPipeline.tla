------------------------------ MODULE MCPipeline ------------------------------
(* Pipeline for TLC, scaled down: a tick of half a second, rates of two and    *)
(* three samples a second, so that a frame of an odd number of ticks is a      *)
(* whole number of samples at one rate and not at the other.  The processors   *)
(* stand for the spectrogram (no spacing, one granularity long) and the        *)
(* oscilloscope (the longest frame, the widest spacing).                       *)
EXTENDS Pipeline

MCProcessors == << [space |-> 0, length |-> 1], [space |-> 2, length |-> 3] >>
MCTwoRates == {2, 3}
MCOneRate == {2}
MCCaptureLengths == {1, 3}
=============================================================================
