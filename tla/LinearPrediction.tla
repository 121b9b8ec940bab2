--------------------------- MODULE LinearPrediction ---------------------------
(***************************************************************************)
(* The linear prediction solvers: LP::Autocorr, LP::Covar and LP::Burg     *)
(* (src/src/analysis/linpred/autocorr.cpp, covar.cpp and burg.cpp).        *)
(*                                                                         *)
(* Each raises the order of the predictor one by one, in place, and may    *)
(* stop early.  The floating-point numbers are fractions, with the NaN of  *)
(* 0/0; rounding is not modelled.                                          *)
(***************************************************************************)
EXTENDS Integers, Sequences, Functions

CONSTANTS
    Samples,        \* what the signal holds
    LengthsOf,      \* bound: the lengths n of the signal, for each solver
    lpcOrder        \* m, fewer than the samples; 10 for the formants

VARIABLES
    solver,     \* the solver asked
    x,          \* the signal, from 1
    pc, i,      \* its control, and the order it computes
    a,          \* the predictor: from a[1] = 1 in Autocorr and Covar; Burg's a[i] are from 1
    gain,       \* the error that is left; xms in Burg
    cc, b, beta,    \* Covar: a row of the covariances, the triangular matrix, its diagonal
    b1, b2,     \* Burg: the errors of both directions
    lpc         \* the result

vars == <<solver, x, pc, i, a, gain, cc, b, beta, b1, b2, lpc>>

n == Len(x)
m == lpcOrder
------------------------------------------------------------------------------
(* Fractions.                                                                  *)

gcd(p, q) ==
    LET g[u \in Nat, v \in Nat] == IF v = 0 THEN u ELSE g[v, u % v]
    IN  g[p, q]
Abs(p) == IF p < 0 THEN -p ELSE p

NaN == <<0, 0>>
Frac(p, q) ==
    IF q = 0 THEN NaN
    ELSE LET g == (IF q < 0 THEN -1 ELSE 1) * gcd(Abs(p), Abs(q))
         IN  <<(IF g < 0 THEN -p ELSE p) \div Abs(g), (IF g < 0 THEN -q ELSE q) \div Abs(g)>>
Whole(p) == <<p, 1>>
Zero == Whole(0)
One == Whole(1)

Plus(f, g) ==
    IF f = NaN \/ g = NaN THEN NaN
    ELSE LET d == gcd(f[2], g[2])
         IN  Frac(f[1] * (g[2] \div d) + g[1] * (f[2] \div d), f[2] * (g[2] \div d))
Times(f, g) ==
    IF f = NaN \/ g = NaN THEN NaN
    ELSE LET l == Frac(f[1], g[2])
             r == Frac(g[1], f[2])
         IN  <<l[1] * r[1], l[2] * r[2]>>
Negated(f) == <<-f[1], f[2]>>
Over(f, g) == IF f = NaN \/ g = NaN THEN NaN ELSE Times(f, Frac(g[2], g[1]))

\* Sum of the fractions of a function
Total(fun) == FoldFunction(Plus, Zero, fun)

\* Comparisons with NaN are false.
AtMostZero(f) == f # NaN /\ f[1] <= 0
------------------------------------------------------------------------------
Init ==
    /\ solver \in {"Autocorr", "Covar", "Burg"}
    /\ \E length \in LengthsOf[solver] : x \in [1 .. length -> Samples]
    /\ pc = "start" /\ i = 1
    /\ a = <<>> /\ gain = Zero
    /\ cc = <<>> /\ b = <<>> /\ beta = <<>>
    /\ b1 = <<>> /\ b2 = <<>>
    /\ lpc = <<>>

\* gain <= 0: the last order goes, "--i" after the label end.  (The gain that is
\* returned for a silent signal, 1e-10, is left out: the formant solvers ignore it.)
Continue == IF AtMostZero(gain') THEN pc' = "end" /\ UNCHANGED i ELSE pc' = "order" /\ i' = i + 1
------------------------------------------------------------------------------
(* Autocorr: the recursion of Levinson and Durbin.                             *)

\* r[k + 1], the correlation at lag k
r(k) == Total([t \in k + 1 .. n |-> Whole(x[t] * x[t - k])])

AutocorrStart ==
    /\ solver = "Autocorr" /\ pc = "start"
    /\ IF r(0) = Zero
       THEN pc' = "end" /\ UNCHANGED <<i, a, gain>>
       ELSE /\ a' = <<One, Negated(Over(r(1), r(0)))>>
            /\ gain' = Plus(r(0), Times(r(1), a'[2]))
            /\ pc' = "order" /\ i' = 2
    /\ UNCHANGED <<solver, x, cc, b, beta, b1, b2, lpc>>

\* The coefficients are changed in pairs, j and i - j + 2, from both ends.
PairsEnd(order) == order \div 2 + 1

Raised(rc) ==
    [j \in 1 .. i + 1 |->
        CASE j = i + 1 -> rc
          [] j >= 2 /\ j <= i /\ (j <= PairsEnd(i) \/ i - j + 2 <= PairsEnd(i)) -> Plus(a[j], Times(rc, a[i - j + 2]))
          [] OTHER -> a[j]]

AutocorrOrder ==
    /\ solver = "Autocorr" /\ pc = "order" /\ i <= m
    /\ LET s == Total([j \in 1 .. i |-> Times(r(i - j + 1), a[j])])
           rc == Negated(Over(s, gain))
       IN  /\ a' = Raised(rc)
           /\ gain' = Plus(gain, Times(rc, s))
    /\ Continue
    /\ UNCHANGED <<solver, x, cc, b, beta, b1, b2, lpc>>
------------------------------------------------------------------------------
(* Covar: the matrix of covariances is brought to triangular form row by row.  *)

\* The samples that are predicted are those behind the first m.
Cov(k, l) == Total([t \in m + 1 .. n |-> Whole(x[t - k] * x[t - l])])

CovarStart ==
    /\ solver = "Covar" /\ pc = "start"
    /\ IF Cov(0, 0) = Zero
       THEN pc' = "end" /\ UNCHANGED <<i, a, gain, cc, b, beta>>
       ELSE /\ cc' = <<Cov(0, 1), Cov(1, 1)>>
            /\ b' = << <<One>> >> /\ beta' = <<cc'[2]>>
            /\ a' = <<One, Negated(Over(cc'[1], cc'[2]))>>
            /\ gain' = Plus(Cov(0, 0), Times(a'[2], cc'[1]))
            /\ pc' = "order" /\ i' = 2
    /\ UNCHANGED <<solver, x, b1, b2, lpc>>

\* The next row of the covariances, from the one before: a sample enters each
\* sum at its beginning and one leaves it at its end.
NextRow ==
    [k \in 1 .. i + 1 |->
        IF k = 1 THEN Cov(0, i)
        ELSE Plus(cc[k - 1], Whole(x[m - i + 1] * x[m - k + 2] - x[n - i + 1] * x[n - k + 2]))]

\* The row of the matrix that is orthogonal to those before it
Row ==
    LET gam(j) == Over(Total([k \in 1 .. j |-> Times(cc'[k + 1], b[j][k])]), beta[j])
    IN  [k \in 1 .. i |->
            IF k = i THEN One
            ELSE Total([j \in {l \in k .. i - 1 : beta[l] # Zero} |-> Negated(Times(gam(j), b[j][k]))])]

CovarOrder ==
    /\ solver = "Covar" /\ pc = "order" /\ i <= m
    /\ cc' = NextRow
    /\ IF \E j \in 1 .. i - 1 : beta[j][1] < 0
       THEN pc' = "end" /\ UNCHANGED <<i, a, gain, b, beta>>
       ELSE /\ b' = Append(b, Row)
            /\ beta' = Append(beta, Total([j \in 1 .. i |-> Times(cc'[j + 1], b'[i][j])]))
            /\ IF AtMostZero(beta'[i])
               THEN pc' = "end" /\ UNCHANGED <<i, a, gain>>
               ELSE LET s == Total([j \in 1 .. i |-> Times(cc'[j], a[j])])
                        grc == Negated(Over(s, beta'[i]))
                    IN  /\ a' = [j \in 1 .. i + 1 |->
                                    CASE j = 1 -> One
                                      [] j = i + 1 -> grc
                                      [] OTHER -> Plus(a[j], Times(grc, b'[i][j - 1]))]
                        /\ gain' = Plus(gain, Negated(Times(Times(grc, grc), beta'[i])))
                        /\ Continue
    /\ UNCHANGED <<solver, x, b1, b2, lpc>>
------------------------------------------------------------------------------
(* Burg: the errors of the prediction forward and backward are kept.           *)

BurgStart ==
    /\ solver = "Burg" /\ pc = "start"
    /\ gain' = Over(r(0), Whole(n))
    /\ IF AtMostZero(gain')
       THEN pc' = "end" /\ UNCHANGED <<b1, b2>>
       ELSE /\ b1' = [j \in 1 .. n - 1 |-> Whole(x[j])]
            /\ b2' = [j \in 1 .. n - 1 |-> Whole(x[j + 1])]
            /\ pc' = "order"
    /\ UNCHANGED <<solver, x, i, a, cc, b, beta, lpc>>

BurgOrder ==
    /\ solver = "Burg" /\ pc = "order" /\ i <= m
    /\ LET num == Total([j \in 1 .. n - i |-> Times(b1[j], b2[j])])
           denum == Total([j \in 1 .. n - i |-> Plus(Times(b1[j], b1[j]), Times(b2[j], b2[j]))])
           k == Over(Times(Whole(2), num), denum)
       IN  IF AtMostZero(denum)
           THEN gain' = Zero /\ pc' = "end" /\ UNCHANGED <<i, a, b1, b2>>
           ELSE /\ a' = [j \in 1 .. i |-> IF j = i THEN k ELSE Plus(a[j], Negated(Times(k, a[i - j])))]
                /\ gain' = Times(gain, Plus(One, Negated(Times(k, k))))
                /\ IF i < m
                   THEN /\ b1' = [j \in 1 .. n - i - 1 |-> Plus(b1[j], Negated(Times(k, b2[j])))]
                        /\ b2' = [j \in 1 .. n - i - 1 |-> Plus(b2[j + 1], Negated(Times(k, b1[j + 1])))]
                   ELSE UNCHANGED <<b1, b2>>
                /\ i' = i + 1 /\ UNCHANGED pc
    /\ UNCHANGED <<solver, x, cc, b, beta, lpc>>
------------------------------------------------------------------------------
\* Autocorr and Covar return what is left without the order that was not completed,
\* Burg everything or, if nothing is left to predict, nothing.
Completed == [j \in 1 .. i - 1 |-> a[j + 1]]
BurgResult == IF AtMostZero(gain) THEN <<>> ELSE [j \in 1 .. m |-> Negated(a[j])]

Finish ==
    /\ pc = "end" \/ (pc = "order" /\ i > m)
    /\ lpc' = IF solver = "Burg" THEN BurgResult ELSE Completed
    /\ pc' = "done"
    /\ UNCHANGED <<solver, x, i, a, gain, cc, b, beta, b1, b2>>

Next == AutocorrStart \/ AutocorrOrder \/ CovarStart \/ CovarOrder \/ BurgStart \/ BurgOrder \/ Finish
------------------------------------------------------------------------------
(* What the formant solvers rely on.                                           *)

\* The predictor is the best there is: its error is orthogonal to every sample it
\* predicts from.  Nothing is said of the predictor that leaves no error, whose
\* last coefficient is cut off.
Orthogonal(phi(_, _)) ==
    \A k \in DOMAIN lpc :
        Plus(phi(k, 0), Total([j \in DOMAIN lpc |-> Times(lpc[j], phi(k, j))])) = Zero
Solves ==
    pc = "done" /\ gain # NaN /\ ~AtMostZero(gain) =>
        /\ solver = "Autocorr" => Orthogonal(LAMBDA k, l : r(Abs(k - l)))
        /\ solver = "Covar" => Orthogonal(Cov)

\* In place, Burg's two arrays are the errors of the predictor, backward and
\* forward, of every sample that has enough neighbours.
ErrorsInPlace ==
    solver = "Burg" /\ pc = "order" /\ i <= m =>
        \A j \in 1 .. n - i :
            /\ b1[j] = Plus(Whole(x[j]), Total([k \in 1 .. i - 1 |-> Negated(Times(a[k], Whole(x[j + k])))]))
            /\ b2[j] = Plus(Whole(x[j + i]), Total([k \in 1 .. i - 1 |-> Negated(Times(a[k], Whole(x[j + i - k])))]))

\* The coefficients are numbers, but for one case of Covar: of the samples that
\* count, only the last is not silent.  (A NaN keeps the root finder, which
\* iterates until it converges, from ever returning.)
OnlyLastSounds == x[n] # 0 /\ \A t \in m .. n - 1 : x[t] = 0
NumbersOnly ==
    pc = "done" => (NaN \in Range(lpc) <=> solver = "Covar" /\ OnlyLastSounds)
==============================================================================
