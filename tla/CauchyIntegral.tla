---------------------------- MODULE CauchyIntegral ----------------------------
(***************************************************************************)
(* cauchyIntegral and its helpers (src/src/analysis/formant/               *)
(* filteredlp.cpp): how often the polynomial passes between regions 7 and  *)
(* 0 along a ray, on a partition of the ray that is halved where its       *)
(* regions are far apart.                                                  *)
(*                                                                         *)
(* The polynomial is external: a point's region is any, but always the     *)
(* same.  Points are whole numbers, and halfway between two neighbours is  *)
(* the even one, as for floating-point numbers at the end of their         *)
(* precision.                                                              *)
(***************************************************************************)
EXTENDS Integers, Sequences, SequencesExt, FiniteSets, Functions

CONSTANTS
    Spacing,        \* numbers between two points of the first partition
    ipc,            \* points of the first partition, 7 in the code
    maxDepth,       \* 100 in the code
    Regions         \* those the polynomial visits

VARIABLES
    pc,
    C,              \* the regions that are known
    partCurrent,    \* the partition, as pairs
    depth,          \* how often it was refined
    partition,      \* the result of snellCalcPartition
    N               \* the result of cauchyIntegral

vars == <<pc, C, partCurrent, depth, partition, N>>

Abs(k) == IF k < 0 THEN -k ELSE k
ray == Spacing * (ipc - 1)

Init ==
    /\ pc = "refine"
    /\ C = <<>>
    /\ partCurrent = [k \in 1 .. ipc - 1 |-> <<Spacing * (k - 1), Spacing * k>>]
    /\ depth = 0
    /\ partition = <<>> /\ N = 0
------------------------------------------------------------------------------
\* snellCalcRegion for each of some points: "Do not calculate again."
Known(points) == \E new \in [points \ DOMAIN C -> Regions] : C' = C @@ new

Points(parts) == UNION {{parts[k][1], parts[k][2]} : k \in DOMAIN parts}

\* (t1 + t2) / 2.0, rounded to even
Middle(t1, t2) ==
    LET half == (t1 + t2) \div 2
    IN  IF (t1 + t2) % 2 = 0 \/ half % 2 = 0 THEN half ELSE half + 1

\* A part whose ends are more than a region apart is halved.
Halves(part) ==
    IF Abs(C'[part[1]] - C'[part[2]]) % 8 <= 1
    THEN <<part>>
    ELSE << <<part[1], Middle(part[1], part[2])>>, <<Middle(part[1], part[2]), part[2]>> >>

\* One turn of the loop: until no part changes, or often enough.
Refine ==
    /\ pc = "refine"
    /\ Known(Points(partCurrent))
    /\ LET partNext == FlattenSeq([k \in DOMAIN partCurrent |-> Halves(partCurrent[k])])
           converged == depth' > maxDepth \/ IsPrefix(partCurrent, partNext)
       IN  /\ depth' = depth + 1
           /\ pc' = IF converged THEN "count" ELSE "refine"
           /\ partCurrent' = partNext
    /\ UNCHANGED <<partition, N>>

\* The passages from region 7 to region 0, less those back
Passages(from, to) == Cardinality({k \in 1 .. Len(partition') - 1 : C'[partition'[k]] = from /\ C'[partition'[k + 1]] = to})

Count ==
    /\ pc = "count"
    /\ partition' = <<partCurrent[1][1]>> \o [k \in DOMAIN partCurrent |-> partCurrent[k][2]]
    /\ Known(Range(partition'))
    /\ N' = Passages(7, 0) - Passages(0, 7)
    /\ pc' = "done"
    /\ UNCHANGED <<partCurrent, depth>>

Next == Refine \/ Count
------------------------------------------------------------------------------
(* What solve relies on.                                                       *)

\* The partition goes from one end of the ray to the other, without a gap.
CoversRay ==
    /\ partCurrent[1][1] = 0 /\ Last(partCurrent)[2] = ray
    /\ \A k \in 1 .. Len(partCurrent) - 1 : partCurrent[k][2] = partCurrent[k + 1][1]
    /\ \A k \in DOMAIN partCurrent : partCurrent[k][1] <= partCurrent[k][2]

\* A search that ends before its depth is exhausted has resolved every part that
\* can be halved at all, so that no region is skipped.
Resolved ==
    pc = "done" /\ depth <= maxDepth =>
        \A k \in 1 .. Len(partition) - 1 :
            \/ partition[k + 1] - partition[k] <= 1
            \/ Abs(C[partition[k]] - C[partition[k + 1]]) <= 1

\* What is counted where the partition skips no region is the number of turns: as
\* far as the regions have come from the first to the last, eight to a turn.
Step(c, d) == CASE d - c > 4 -> d - c - 8 [] c - d > 4 -> d - c + 8 [] OTHER -> d - c
Turned == FoldFunction(LAMBDA p, q : p + q, 0,
            [k \in 1 .. Len(partition) - 1 |-> Step(C[partition[k]], C[partition[k + 1]])])
CountsTurns ==
    pc = "done" /\ (\A k \in 1 .. Len(partition) - 1 : Abs(Step(C[partition[k]], C[partition[k + 1]])) <= 1) =>
        Turned = 8 * N + C[ray] - C[0]
==============================================================================
