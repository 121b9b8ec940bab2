------------------------ MODULE WaveletConvolution ------------------------
(***************************************************************************)
(* The convolutions under the wavelet transforms                           *)
(* (src/src/analysis/wavelet/convolution.template.cpp): the downsampling   *)
(* convolution, which extends the signal at its edges in nine ways, as the *)
(* four loops over output elements and the loops inside them, and the      *)
(* upsampling convolutions that undo it, as sets of the terms they add.    *)
(*                                                                         *)
(* Everything is linear in the signal and in the filter, so neither needs  *)
(* values: a value made from the signal is the vector of the weights of    *)
(* its elements, and a sum holds one such vector for each filter element.  *)
(***************************************************************************)
EXTENDS Integers, Sequences, FiniteSetsExt, Functions, TLC, WaveletCommon

CONSTANT Jobs   \* the calls: records of mode, N, F, step and fstep

Modes == {"zeropad", "symmetric", "antisymmetric", "reflect", "antireflect", "constant_edge",
          "smooth", "periodic", "periodization"}

VARIABLES
    job,        \* the call
    pc,         \* "row": about to choose a loop; "right", "plain", "left": in it; "done"
    loop,       \* which of the four loops over the output
    i, j, k,    \* the counters of the code
    half,       \* which of two alternating inner loops
    edge, tmp,  \* le or re, and tmp
    sum,        \* of the current output element
    output

vars == <<job, pc, loop, i, j, k, half, edge, tmp, sum, output>>

N == job.N
F == job.F
Periodized == job.mode = "periodization"
Padding == (job.step - (N % job.step)) % job.step

Zero == [n \in 0..N-1 |-> 0]
Unit(x) == [n \in 0..N-1 |-> IF n = x THEN 1 ELSE 0]
Plus(v, w) == [n \in 0..N-1 |-> v[n] + w[n]]
Times(c, v) == [n \in 0..N-1 |-> c * v[n]]
Minus(v, w) == Plus(v, Times(-1, w))

\* MODE_SMOOTH is MODE_CONSTANT_EDGE for a single sample.
Mode == IF job.mode = "smooth" /\ N < 2 THEN "constant_edge" ELSE job.mode

TypeOK ==
    /\ pc \in {"row", "right", "plain", "left", "done"}
    /\ loop \in 1..4 /\ half \in 1..2
    /\ i \in 0..(N + 2 * F) /\ j \in 0..(F + job.fstep) /\ k \in 0..(N + 2 * F)
    /\ \A x \in DOMAIN sum : DOMAIN sum[x] = 0..N-1
    /\ \A x \in DOMAIN output : DOMAIN output[x] = 0..F-1

Start == IF Periodized THEN F \div 2 ELSE job.step - 1

Init ==
    /\ job \in Jobs
    /\ pc = "row" /\ loop = 1
    /\ i = Start
    /\ j = 0 /\ k = 0 /\ half = 1
    /\ edge = Zero /\ tmp = Zero
    /\ sum = [x \in 0..F-1 |-> Zero]
    /\ output = <<>>
-----------------------------------------------------------------------------
(* The inner loops.  Past either edge two loops over the signal alternate,  *)
(* first of k in K0..Bound-1, until the filter is used up.                  *)

Endless == N + 2 * F
K0 == IF Mode \in {"reflect", "antireflect"} THEN 1 ELSE 0

\* Mutant of Bound: both loops are over the padding.
BoundPadding(h) ==
    CASE Mode \in {"constant_edge", "smooth"} -> Endless
      [] Periodized                           -> Padding
      [] OTHER                                -> N

Bound(h) ==
    CASE Mode \in {"constant_edge", "smooth"} -> Endless
      [] Periodized /\ h = 1                  -> Padding
      [] OTHER                                -> N

\* What the loop past the left edge multiplies with filter[j].
LeftValue ==
    CASE Mode = "symmetric"     -> Unit(IF half = 1 THEN k ELSE N - 1 - k)
      [] Mode = "antisymmetric" -> IF half = 1 THEN Times(-1, Unit(k)) ELSE Unit(N - 1 - k)
      [] Mode = "reflect"       -> Unit(IF half = 1 THEN k ELSE N - 1 - k)
      [] Mode = "antireflect"   -> IF half = 1 THEN Minus(edge, Minus(Unit(k), Unit(0)))
                                   ELSE Plus(edge, Minus(Unit(N - 1 - k), Unit(N - 1)))
      [] Mode = "constant_edge" -> Unit(0)
      [] Mode = "smooth"        -> Plus(Unit(0), Times(k + 1, Minus(Unit(0), Unit(1))))
      [] Mode = "periodic"      -> Unit(N - 1 - k)
      [] Periodized             -> Unit(IF half = 1 THEN N - 1 ELSE N - 1 - k)

\* The same past the right edge, with filter[RightTap].
RightValue ==
    CASE Mode = "symmetric"     -> Unit(IF half = 1 THEN N - 1 - k ELSE k)
      [] Mode = "antisymmetric" -> IF half = 1 THEN Times(-1, Unit(N - 1 - k)) ELSE Unit(k)
      [] Mode = "reflect"       -> Unit(IF half = 1 THEN N - 1 - k ELSE k)
      [] Mode = "antireflect"   -> IF half = 1 THEN Minus(edge, Minus(Unit(N - 1 - k), Unit(N - 1)))
                                   ELSE Plus(edge, Minus(Unit(k), Unit(0)))
      [] Mode = "constant_edge" -> Unit(N - 1)
      [] Mode = "smooth"        -> Plus(Unit(N - 1),
                                        Times(i - j - N + 1, Minus(Unit(N - 1), Unit(N - 2))))
      [] Mode = "periodic"      -> Unit(k)
      [] Periodized             -> Unit(IF half = 1 THEN N - 1 ELSE k)

\* Past the right edge most modes go through the filter backwards.
RightTap == IF Mode \in {"constant_edge", "smooth"} THEN j ELSE i - N - j

\* One round of an inner loop: adds v for the tap, or goes on to the other half.
Round(tap, v, by, first) ==
    IF k < Bound(half)
    THEN /\ sum' = [sum EXCEPT ![tap] = Plus(@, v)]
         /\ tmp' = v
         /\ j' = j + by /\ k' = k + by
         /\ UNCHANGED <<edge, half>>
    ELSE /\ half' = 3 - half
         /\ k' = first
         /\ edge' = tmp
         /\ UNCHANGED <<sum, tmp, j>>

\* Past the right edge j goes up by one, and at the end to a tap that is not zero.
Right ==
    /\ pc = "right"
    /\ IF Mode # "zeropad" /\ i - j >= N
       THEN Round(RightTap, RightValue, 1, K0) /\ UNCHANGED pc
       ELSE /\ j' = IF Mode = "zeropad" THEN i - N + 1
                    ELSE j + ((job.fstep - (j % job.fstep)) % job.fstep)
            /\ pc' = "plain"
            /\ UNCHANGED <<k, half, edge, tmp, sum>>
    /\ UNCHANGED <<job, loop, i, output>>

FinishRow ==
    /\ output' = Append(output, sum)
    /\ i' = i + job.step
    /\ pc' = "row"

\* The taps within the signal.  The first and third loop go on past the left edge.
Plain ==
    /\ pc = "plain"
    /\ LET last == IF loop \in {1, 3} THEN i ELSE F - 1
           taps == {x \in j..last : (x - j) % job.fstep = 0}
       IN /\ sum' = [x \in 0..F-1 |-> IF x \in taps THEN Plus(sum[x], Unit(i - x)) ELSE sum[x]]
          /\ j' = IF taps = {} THEN j ELSE Max(taps) + job.fstep
    /\ k' = IF loop \in {1, 3} /\ job.fstep > 1 THEN j' - (i + 1) ELSE K0
    /\ half' = 1
    /\ edge' = Unit(0) /\ tmp' = Zero
    /\ pc' = "left"
    /\ UNCHANGED <<job, loop, i, output>>

\* Where the left loops restart: k_start for a spread-out filter.
LeftFirst == IF job.fstep > 1 THEN (j - (i + 1)) % job.fstep ELSE K0

Left ==
    /\ pc = "left"
    /\ IF loop \in {1, 3} /\ Mode # "zeropad" /\ j < F
       THEN Round(j, LeftValue, job.fstep, LeftFirst) /\ UNCHANGED <<pc, i, output>>
       ELSE FinishRow /\ UNCHANGED <<j, k, half, edge, tmp, sum>>
    /\ UNCHANGED <<job, loop>>

\* The conditions of the four loops over the output, which follow each other.
Enters(l) ==
    CASE l = 1 -> i < F /\ i < N
      [] l = 2 -> i < N
      [] l = 3 -> i < F /\ (Periodized => i < N + F \div 2)
      [] l = 4 -> i < N + (IF Periodized THEN F \div 2 ELSE F - 1)

Row ==
    /\ pc = "row"
    /\ LET open == {l \in loop..4 : Enters(l)}
       IN IF open = {} THEN pc' = "done" /\ UNCHANGED loop
          ELSE loop' = Min(open) /\ pc' = IF loop' \in {3, 4} THEN "right" ELSE "plain"
    /\ j' = 0 /\ k' = K0 /\ half' = 1
    /\ sum' = [x \in 0..F-1 |-> Zero]
    /\ edge' = Unit(N - 1) /\ tmp' = Zero
    /\ UNCHANGED <<job, i, output>>

Next == Row \/ Right \/ Plain \/ Left
Spec == Init /\ [][Next]_vars /\ WF_vars(Next)
-----------------------------------------------------------------------------
(* The upsampling convolutions, of n coefficients and a filter of length f,  *)
(* as the terms [to, tap, from, at]: output[to] += filter[tap]*input[from].   *)
(* A call that returns an error adds none.                                    *)

\* The two statements that are in every loop, of the even and of the odd tap.
Pair(o, x, y) == {[to |-> o, tap |-> 2 * x.tap, from |-> x.from, at |-> y],
                  [to |-> o + 1, tap |-> 2 * x.tap + 1, from |-> x.from, at |-> y]}

upsampling_convolution_full(n, f) ==
    LET js(ii) == CASE ii < n /\ ii < f \div 2  -> 0..ii
                    [] ii < n /\ ii >= f \div 2 -> 0..(f \div 2 - 1)
                    [] ii >= n /\ ii < f \div 2 -> (ii - (n - 1))..ii
                    [] OTHER                    -> (ii - (n - 1))..(f \div 2 - 1)
    IN IF f < 2 \/ f % 2 = 1 THEN {}
       ELSE UNION {Pair(2 * ii, [tap |-> jj, from |-> ii - jj], <<ii, jj>>) :
                      <<ii, jj>> \in UNION {{ii} \X js(ii) : ii \in 0..(n + f \div 2 - 1)}}

upsampling_convolution_valid(n, f) ==
    IF f % 2 = 1 \/ n < f \div 2 THEN {} ELSE
    UNION {UNION {Pair(2 * (ii - (f \div 2 - 1)), [tap |-> jj, from |-> ii - jj], <<ii, jj>>) :
                  jj \in 0..(f \div 2 - 1)} : ii \in (f \div 2 - 1)..(n - 1)}

\* Past the right edge the loop over j takes the taps backwards, then the
\* signal is read, then it wraps to the left.
upsampling_convolution_valid_periodization(n, f) ==
    LET start == f \div 4
        even == (f \div 2) % 2 = 0
        o(ii) == 2 * (ii - start) + (IF even THEN 1 ELSE 0)
        Tap(ii, jj) == IF ii - jj >= n THEN ii - n - jj ELSE jj
        From(ii, jj) == CASE ii - jj >= n -> jj % n
                          [] ii - jj < n /\ jj <= ii -> ii - jj
                          [] OTHER -> n - 1 - ((jj - ii - 1) % n)
        x(ii, jj) == [tap |-> Tap(ii, jj), from |-> From(ii, jj)]
        rows == start..(n + start - (IF even THEN 2 ELSE 1))
        shifted == {LET p == Pair(2 * n - 1, x(n + start - 1, jj), <<n + start - 1, jj>>)
                    IN {[t EXCEPT !.to = @ % (2 * n)] : t \in p} : jj \in 0..(f \div 2 - 1)}
    IN IF f % 2 = 1 THEN {}
       ELSE UNION {UNION {Pair(o(ii), x(ii, jj), <<ii, jj>>) : jj \in 0..(f \div 2 - 1)} : ii \in rows}
            \cup IF even THEN UNION shifted ELSE {}

upsampling_convolution_valid_sf(n, f, mode) ==
    IF mode = "periodization" THEN upsampling_convolution_valid_periodization(n, f)
    ELSE upsampling_convolution_valid(n, f)
-----------------------------------------------------------------------------
(* The four filters of a wavelet (DiscreteWavelet::init) and the transforms *)

Sign(n) == IF n % 2 = 0 THEN 1 ELSE -1
rec_lo(h) == h
dec_lo(h) == [x \in DOMAIN h |-> h[F - 1 - x]]
rec_hi(h) == [x \in DOMAIN h |-> Sign(x) * h[F - 1 - x]]

\* Mutant of dec_hi: the signs start from the wrong end.
dec_hi_signs(h) == [x \in DOMAIN h |-> Sign(x) * h[x]]

dec_hi(h) == [x \in DOMAIN h |-> Sign(F - 1 - x) * h[x]]

SumOver(S, v(_)) == FoldSet(LAMBDA x, acc : Plus(v(x), acc), Zero, S)

\* dec_a and dec_d: the output of the convolution, for the values of a filter
Decomposed(filter) ==
    [x \in 0..Len(output)-1 |-> SumOver(0..F-1, LAMBDA t : Times(filter[t], output[x + 1][t]))]

\* idwt: both halves, added up
idwt(a, d, h) ==
    LET n == Cardinality(DOMAIN a)
        terms == upsampling_convolution_valid_sf(n, F, job.mode)
        Part(c, filter, t) == Times(filter[t.tap], c[t.from])
    IN [p \in 0..(idwt_buffer_length(n, F, job.mode) - 1) |->
          SumOver({t \in terms : t.to = p},
                  LAMBDA t : Plus(Part(a, rec_lo(h), t), Part(d, rec_hi(h), t)))]
-----------------------------------------------------------------------------
(* Properties *)

\* The signal continued without end past both edges.  The comments of common.h
\* describe the modes, with examples for some (Example, below); that of antireflect
\* turns back where the signal continued with its slopes goes on.
Extension(p) ==
    LET q2 == p % (2 * N)
        q1 == p % (2 * N - 2)
        turns == p \div (2 * N - 2)
        mirror == Unit(IF q2 < N THEN q2 ELSE 2 * N - 1 - q2)
        slope == Minus(Unit(N - 1), Unit(0))
    IN CASE 0 <= p /\ p < N          -> Unit(p)
         [] Periodized               -> Unit(Min({p % (N + Padding), N - 1}))
         [] Mode = "zeropad"         -> Zero
         [] Mode = "symmetric"       -> mirror
         [] Mode = "antisymmetric"   -> IF q2 < N THEN mirror ELSE Times(-1, mirror)
         [] Mode = "reflect"         -> Unit(IF q1 < N THEN q1 ELSE 2 * N - 2 - q1)
         [] Mode = "antireflect"     ->
               Plus(Times(2 * turns, slope),
                    IF q1 < N THEN Unit(q1)
                    ELSE Minus(Times(2, Unit(N - 1)), Unit(2 * N - 2 - q1)))
         [] Mode = "constant_edge"   -> Unit(IF p < 0 THEN 0 ELSE N - 1)
         [] Mode = "smooth"          -> IF p < 0 THEN Plus(Unit(0), Times(-p, Minus(Unit(0), Unit(1))))
                                        ELSE Plus(Unit(N - 1), Times(p - N + 1, Minus(Unit(N - 1), Unit(N - 2))))
         [] Mode = "periodic"        -> Unit(p % N)

\* Whatever loops an output element goes through, it is the convolution of the
\* filter with the extended signal: "output[o] = sum(filter[j] * input[i-j] ...)".
\* (A spread-out filter is zero between its taps.)
Convolves ==
    \A r \in DOMAIN output : \A x \in {t \in 0..F-1 : t % job.fstep = 0} :
        output[r][x] = Extension(Start + (r - 1) * job.step - x)

\* The examples of common.h:28-50, with a signal of 1 2 3 in the middle.
Example ==
    [symmetric     |-> <<2, 3, 3, 2, 1,     1, 2, 3,   3, 2, 1, 1, 2>>,
     reflect       |-> <<1, 2, 3, 2,        1, 2, 3,   2, 1, 2, 3>>,
     antisymmetric |-> <<2, 3, -3, -2, -1,  1, 2, 3,   -3, -2, -1, 1, 2>>,
     antireflect   |-> <<0, -1, -2, -1, 0,  1, 2, 3,   4, 5, 6, 5, 4>>]

\* With three samples the code extends them as the examples do, but for antireflect
\* more than three samples past an edge, where it goes on to -3 and to 7.
AsDescribed ==
    N = 3 /\ Mode \in DOMAIN Example =>
        LET example == Example[Mode]
            past == (Len(example) - 3) \div 2
            Agreed(p) == p \in (-past)..(past + 2) /\ (Mode = "antireflect" => p \in -3..5)
            Value(v) == v[0] + 2 * v[1] + 3 * v[2]
        IN \A r \in DOMAIN output : \A x \in {t \in 0..F-1 : t % job.fstep = 0} :
             LET p == Start + (r - 1) * job.step - x
             IN  /\ Agreed(p) => Value(output[r][x]) = example[p + past + 1]
                 /\ Mode = "antireflect" /\ p \in {-4, 6} => Value(output[r][x]) \in {-3, 7}

\* The convolution writes the output buffer the callers allocate, no more and,
\* in the end, no less.
FillsBuffer ==
    LET length == CASE job.step = 2 -> dwt_buffer_length(N, F, job.mode)
                    [] Periodized   -> N
                    [] OTHER        -> N + F - 1
    IN Len(output) <= length /\ (pc = "done" => Len(output) = length)

\* An orthogonal filter of each even length, with integer values.
Orthogonal == (2 :> [x \in 0..1 |-> 1])
           @@ (4 :> [x \in 0..3 |-> <<1, 2, 2, -1>>[x + 1]])
           @@ (6 :> [x \in 0..5 |-> <<1, 1, 0, 0, 1, -1>>[x + 1]])

\* idwt(dwt(x)) gives x back, times the norm of the filter, in every mode: the
\* edges, the lengths, the four filters and both convolutions fit together.
PerfectReconstruction ==
    pc = "done" /\ job.step = 2 /\ F \in DOMAIN Orthogonal =>
        LET h == Orthogonal[F]
            norm == FoldSet(LAMBDA x, acc : h[x] * h[x] + acc, 0, DOMAIN h)
            back == idwt(Decomposed(dec_lo(h)), Decomposed(dec_hi(h)), h)
        IN \A n \in 0..N-1 : back[n] = Times(norm, Unit(n))

\* Direct reconstruction is the whole convolution with the upsampled
\* coefficients, within reconstruction_buffer_length(), and what idwt() takes is
\* its part in which the whole filter is used.
FullAndValidAgree ==
    pc = "done" /\ F % 2 = 0 =>
        LET full == upsampling_convolution_full(N, F)
            plain(T) == {[to |-> t.to, tap |-> t.tap, from |-> t.from] : t \in T}
            wanted == {[to |-> m, tap |-> m - 2 * n, from |-> n] :
                         m \in 0..(reconstruction_buffer_length(N, F) - 1), n \in 0..N-1}
        IN /\ plain(full) = {t \in wanted : t.tap \in 0..F-1}
           /\ Cardinality(full) = Cardinality(plain(full))
           /\ plain(upsampling_convolution_valid(N, F)) =
                 {[t EXCEPT !.to = @ - (F - 2)] : t \in {u \in plain(full) : u.to \in (F - 2)..(2 * N - 1)}}
=============================================================================
