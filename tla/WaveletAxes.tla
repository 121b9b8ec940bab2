----------------------------- MODULE WaveletAxes -----------------------------
(***************************************************************************)
(* The transforms along one axis of an array                               *)
(* (src/src/analysis/wavelet/wt.template.cpp): downcoef_axis and idwt_axis *)
(* check the shapes, then go through the rows of the arrays, whose         *)
(* elements they find by strides.  An address is a number of elements; the *)
(* transform of a row is in WaveletConvolution.                            *)
(***************************************************************************)
EXTENDS Integers, Sequences, FiniteSets, FiniteSetsExt, SequencesExt, WaveletCommon

CONSTANT Calls  \* records: transform, ins (one array info, or two for idwt), out, axis, mode, f

VARIABLES
    call,
    i,          \* the row, num_loops at the end
    written,    \* what the rows have written: records of to and the set from
    returned    \* the return code; -1: still running

vars == <<call, i, written, returned>>

Dim(info) == Len(info.shape)
Axis == call.axis + 1           \* 1-based, as the sequences are

\* Every index of an array, and where the element is
Indices(info) == {x \in [1..Dim(info) -> 0..Max(Range(info.shape))] :
                    \A d \in 1..Dim(info) : x[d] < info.shape[d]}
Address(info, x) == FoldFunction(LAMBDA a, b : a + b, 0, [d \in 1..Dim(info) |-> x[d] * info.strides[d]])

Init ==
    /\ call \in Calls
    /\ i = 0
    /\ written = {}
    /\ returned = -1

-----------------------------------------------------------------------------
\* The length along the axis fits the transform.
LengthFits ==
    LET n == call.ins[1].shape[Axis]
    IN call.out.shape[Axis] =
        CASE call.transform = "dwt"  -> dwt_buffer_length(n, call.f, call.mode)
          [] call.transform = "swt"  -> swt_buffer_length(n)
          [] call.transform = "idwt" -> idwt_buffer_length(n, call.f, call.mode)

\* The lengths agree on an axis, the transform's included.
AxisFits(d) ==
    IF d = Axis
    THEN LengthFits /\ \A a \in Range(call.ins) : a.shape[d] = call.ins[1].shape[d]
    ELSE \A a \in Range(call.ins) : a.shape[d] = call.out.shape[d]

\* Mutant of Misfits: the other axes are not compared.
MisfitsOneAxis == {d \in {Axis} : ~AxisFits(d)}

Misfits == {d \in 1..Dim(call.out) : ~AxisFits(d)}

\* The codes of the checks, in their order; the first axis that does not fit
\* counts.  idwt_axis has one code for all but its first check.
Check ==
    IF call.ins = <<>> THEN 3
    ELSE IF \E a \in Range(call.ins) : Dim(a) # Dim(call.out) THEN 1
    ELSE IF call.axis >= Dim(call.out) THEN (IF call.transform = "idwt" THEN 1 ELSE 2)
    ELSE IF Misfits = {} THEN 0
    ELSE IF call.transform = "idwt" THEN 1
    ELSE IF Min(Misfits) # Axis THEN 5
    ELSE IF call.transform = "dwt" THEN 3 ELSE 4

Fails ==
    /\ returned = -1 /\ i = 0
    /\ Check # 0
    /\ returned' = Check
    /\ UNCHANGED <<call, i, written>>

\* A temporary row, for an array that is not contiguous along the axis, can
\* not be allocated.
AllocationFails ==
    /\ returned = -1 /\ i = 0
    /\ Check = 0
    /\ \E a \in Range(call.ins) \cup {call.out} : a.strides[Axis] # 1
    /\ returned' = IF call.transform = "idwt" THEN 2 ELSE 6
    /\ UNCHANGED <<call, i, written>>

num_loops == FoldFunction(LAMBDA a, b : a * b, 1, [d \in 1..Dim(call.out) |->
                                   IF d = Axis THEN 1 ELSE call.out.shape[d]])

\* The row's number, in the mixed radix of the other axes, the last one first.
Offset(info, row) ==
    FoldRight(LAMBDA d, acc :
                IF d = Axis THEN acc
                ELSE [left |-> acc.left \div call.out.shape[d],
                      at |-> acc.at + (acc.left % call.out.shape[d]) * info.strides[d]],
              [d \in 1..Dim(info) |-> d], [left |-> row, at |-> 0]).at

\* The addresses of a row of an array, directly or through the temporary copy
RowOf(info, row) ==
    {Offset(info, row) + n * info.strides[Axis] : n \in 0..info.shape[Axis]-1}

\* The transform of a row: each element it writes is made from all it reads.
TransformRow ==
    /\ returned = -1
    /\ Check = 0
    /\ i < num_loops
    /\ written' = written \cup
          {[to |-> p, row |-> i, from |-> UNION {RowOf(a, i) : a \in Range(call.ins)}] :
             p \in RowOf(call.out, i)}
    /\ i' = i + 1
    /\ UNCHANGED <<call, returned>>

Return ==
    /\ returned = -1
    /\ Check = 0
    /\ i = num_loops
    /\ returned' = 0
    /\ UNCHANGED <<call, i, written>>

Next == Fails \/ AllocationFails \/ TransformRow \/ Return
Spec == Init /\ [][Next]_vars
-----------------------------------------------------------------------------
\* Every element of the output is written, by one row, and from the elements of
\* the inputs that have the same index on every other axis.
RowForRow ==
    returned = 0 =>
        /\ \A x \in Indices(call.out) :
              LET w == {v \in written : v.to = Address(call.out, x)}
                  same == UNION {{Address(a, y) : y \in {z \in Indices(a) :
                             \A d \in 1..Dim(a) : d # Axis => z[d] = x[d]}} : a \in Range(call.ins)}
              IN Cardinality(w) = 1 /\ \A v \in w : v.from = same
        /\ Cardinality(written) = Cardinality(Indices(call.out))

\* No row touches memory outside the arrays, at any time.
WithinArrays ==
    \A w \in written :
        /\ w.to \in {Address(call.out, x) : x \in Indices(call.out)}
        /\ w.from \subseteq UNION {{Address(a, x) : x \in Indices(a)} : a \in Range(call.ins)}
=============================================================================
