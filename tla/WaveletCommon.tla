---------------------------- MODULE WaveletCommon ----------------------------
(***************************************************************************)
(* The buffer lengths and highest levels of the wavelet transforms         *)
(* (src/src/analysis/wavelet/common.cpp).                                  *)
(***************************************************************************)
LOCAL INSTANCE Integers
LOCAL INSTANCE FiniteSetsExt

dwt_buffer_length(n, f, mode) ==
    IF n < 1 \/ f < 1 THEN 0
    ELSE IF mode = "periodization" THEN n \div 2 + (n % 2)
    ELSE (n + f - 1) \div 2

reconstruction_buffer_length(n, f) == IF n < 1 \/ f < 1 THEN 0 ELSE 2 * n + f - 2

idwt_buffer_length(n, f, mode) == IF mode = "periodization" THEN 2 * n ELSE 2 * n - f + 2

swt_buffer_length(n) == n

\* How many times the length, an int, is divisible by two.
swt_max_level(n) == IF n = 0 THEN 0 ELSE Max({j \in 0..30 : n % (2 ^ j) = 0})
=============================================================================
