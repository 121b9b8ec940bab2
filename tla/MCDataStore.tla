----------------------------- MODULE MCDataStore -----------------------------
(* DataStore for TLC: processors without spacing, so that two of their frames  *)
(* have the same time, a pitch whose spacing is the granularity, a tie at every *)
(* turn, two FFT lengths, fewer and more formants than tracks, and a history   *)
(* short enough to be dropped within the bounds.                               *)
EXTENDS DataStore

MCSpacing == [p \in Processors |-> IF p = "pitch" THEN 1 ELSE 0]
MCHalfLength == [p \in Processors |-> IF p = "spectrogram" THEN 1 ELSE 0]
MCDelays == {0, 2}
=============================================================================
