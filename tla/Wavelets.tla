------------------------------ MODULE Wavelets ------------------------------
(***************************************************************************)
(* The construction of wavelets (src/src/analysis/wavelet/wavelets.cpp):   *)
(* from a name and an order, which of the coefficient tables of coeffs.cpp *)
(* are read, at which indices, or that the order is refused.  The values   *)
(* of the coefficients are left out; a table is its length.                *)
(***************************************************************************)
EXTENDS Integers, Sequences, FiniteSets, TLC

CONSTANT Orders     \* the orders asked for

DiscreteNames == {"HAAR", "RBIO", "DB", "SYM", "COIF", "BIOR", "DMEY"}
ContinuousNames == {"GAUS", "MEXH", "MORL", "CGAU", "SHAN", "FBSP", "CMOR"}

VARIABLES asked, discrete, continuous
vars == <<asked, discrete, continuous>>

\* The tables, and the lengths of the arrays they are
DbLength == [x \in 0..37 |-> 2 * (x + 1)]
SymLength == [x \in 0..18 |-> 2 * (x + 2)]
CoifLength == [x \in 0..16 |-> 6 * (x + 1)]
DmeyLength == 62
BiorLength == <<(0 :> 10 @@ 1 :> 2 @@ 2 :> 6 @@ 3 :> 10),
                (0 :> 18 @@ 1 :> 6 @@ 2 :> 10 @@ 3 :> 14 @@ 4 :> 18),
                (0 :> 20 @@ 1 :> 4 @@ 2 :> 8 @@ 3 :> 12 @@ 4 :> 16 @@ 5 :> 20),
                (0 :> 10 @@ 1 :> 10), (0 :> 12 @@ 1 :> 12), (0 :> 18 @@ 1 :> 18)>>

Err == [length |-> 0, lo |-> {}, hi |-> {}]

\* An odd length is made even.
FilterLength(n) == IF n % 2 = 1 THEN n + 1 ELSE n

\* Of an orthogonal wavelet, all four filters are made from one table; `lo` are
\* the reads for rec_lo and dec_hi, `hi` those for dec_lo and rec_hi.
FromTable(table, n) ==
    LET len == FilterLength(n)
    IN [length |-> len, lo |-> {<<table, x>> : x \in 0..len-1},
        hi |-> {<<table, len - 1 - x>> : x \in 0..len-1}]

\* The index is compared with the unsigned number of tables.
Db(order) == IF order - 1 \notin DOMAIN DbLength THEN Err
             ELSE FromTable(<<"DB", order - 1>>, 2 * order)
Sym(order) == IF order - 2 \notin DOMAIN SymLength THEN Err
              ELSE FromTable(<<"SYM", order - 2>>, 2 * order)
Coif(order) == IF order - 1 \notin DOMAIN CoifLength THEN Err
               ELSE FromTable(<<"COIF", order - 1>>, 6 * order)

BiorValid(n, m) ==
    CASE n = 1        -> m % 2 = 1 /\ m <= 5
      [] n = 2        -> m % 2 = 0 /\ m >= 2 /\ m <= 8
      [] n = 3        -> m % 2 = 1
      [] n \in {4, 5} -> m = n
      [] n = 6        -> m = 8
      [] OTHER        -> FALSE

BiorIndex(n, m) == CASE n \in {1, 3} -> m \div 2 [] n = 2 -> m \div 2 - 1 [] OTHER -> 0

BiorMax(n, m) == CASE n = 1 -> 5 [] n = 2 -> 8 [] n = 3 -> 9 [] n = 6 -> 8 [] OTHER -> m

\* A biorthogonal wavelet takes the middle of its family's first table.
Bior(order) ==
    LET n == order \div 10
        m == order % 10
        len == FilterLength(IF n = 1 THEN 2 * m ELSE 2 * m + 2)
        from == BiorMax(n, m) - m
    IN IF ~BiorValid(n, m) THEN Err
       ELSE [length |-> len,
             lo |-> {<<<<"BIOR", n, 0>>, x + from>> : x \in 0..len-1},
             hi |-> {<<<<"BIOR", n, BiorIndex(n, m) + 1>>, len - 1 - x>> : x \in 0..len-1}]

\* DiscreteWavelet::init.  RBIO swaps the decomposing and reconstructing filters.
DiscreteWavelet(name, order) ==
    CASE name = "HAAR" -> Db(1)
      [] name = "RBIO" -> LET b == Bior(order) IN [b EXCEPT !.lo = b.hi, !.hi = b.lo]
      [] name = "DB"   -> Db(order)
      [] name = "SYM"  -> Sym(order)
      [] name = "COIF" -> Coif(order)
      [] name = "BIOR" -> Bior(order)
      [] name = "DMEY" -> FromTable(<<"DMEY">>, 62)
      [] OTHER         -> Err

\* ContinuousWavelet::ContinuousWavelet: the symmetry
ContinuousWavelet(name, order) ==
    LET parity == IF order % 2 = 0 THEN "SYMMETRIC" ELSE "ANTI_SYMMETRIC"
    IN CASE name = "GAUS" -> IF order > 8 THEN "error" ELSE parity
         [] name = "CGAU" -> IF order > 8 THEN "error" ELSE parity
         [] name \in {"MEXH", "MORL"} -> "SYMMETRIC"
         [] name \in {"SHAN", "FBSP", "CMOR"} -> "ASYMMETRIC"
         [] OTHER -> "error"

TypeOK ==
    /\ discrete.length \in Nat
    /\ \A r \in discrete.lo \cup discrete.hi : r[2] \in Int
    /\ continuous \in {"none", "error", "SYMMETRIC", "ANTI_SYMMETRIC", "ASYMMETRIC"}

Init ==
    /\ asked \in (DiscreteNames \cup ContinuousNames) \X Orders
    /\ discrete = Err /\ continuous = "none"

\* One of the two constructors is called.
Construct ==
    /\ discrete = Err /\ continuous = "none"
    /\ \/ discrete' = DiscreteWavelet(asked[1], asked[2]) /\ UNCHANGED continuous
       \/ continuous' = ContinuousWavelet(asked[1], asked[2]) /\ UNCHANGED discrete
    /\ UNCHANGED asked

Next == Construct
Spec == Init /\ [][Next]_vars
-----------------------------------------------------------------------------
LengthOf(table) ==
    CASE table[1] = "DB"   -> DbLength[table[2]]
      [] table[1] = "SYM"  -> SymLength[table[2]]
      [] table[1] = "COIF" -> CoifLength[table[2]]
      [] table[1] = "BIOR" -> BiorLength[table[2]][table[3]]
      [] table[1] = "DMEY" -> DmeyLength

ReadsOf(reads) == {r[2] : r \in reads}

\* No order that is accepted reads a table outside its bounds.
ReadsInTable ==
    \A r \in discrete.lo \cup discrete.hi : r[2] \in 0..LengthOf(r[1]) - 1

\* What is left out of a table is the same length at either end, so that a
\* symmetric filter stays symmetric; and a table of the dual filter is used whole.
TakesTheMiddle ==
    discrete # Err =>
        LET table == (CHOOSE r \in discrete.lo : TRUE)[1]
            dual == (CHOOSE r \in discrete.hi : TRUE)[1]
            Whole(t, reads) == ReadsOf(reads) = 0..LengthOf(t) - 1
            Middle(t, reads) == \A x \in ReadsOf(reads) : LengthOf(t) - 1 - x \in ReadsOf(reads)
        IN /\ Middle(table, discrete.lo) /\ Middle(dual, discrete.hi)
           /\ Whole(table, discrete.lo) \/ Whole(dual, discrete.hi)

\* A name is a discrete wavelet's or a continuous one's, never both: what one
\* constructor accepts, the other refuses.
OneConstructor ==
    /\ discrete # Err => ContinuousWavelet(asked[1], asked[2]) = "error"
    /\ continuous \notin {"none", "error"} => DiscreteWavelet(asked[1], asked[2]) = Err
=============================================================================
