------------------------------ MODULE TimeTrack ------------------------------
(***************************************************************************)
(* TimeTrack<T> (src/src/timetrack.ipp): values kept in the order of their *)
(* times, as a sequence of records with a field `time`.  std::upper_bound  *)
(* and std::lower_bound are defined by what they return for a sorted       *)
(* sequence, which is their precondition.                                  *)
(***************************************************************************)
EXTENDS Integers, Sequences

IsSorted(track) ==
    \A i, j \in DOMAIN track : i <= j => track[i].time <= track[j].time

\* The position behind the elements that are not later than t.
UpperBound(track, t) ==
    CHOOSE i \in 1..(Len(track) + 1) :
        \A k \in DOMAIN track : k < i <=> track[k].time <= t

EmplacedAt(track, i, entry) ==
    SubSeq(track, 1, i - 1) \o <<entry>> \o SubSeq(track, i, Len(track))

\* Mutant of Insert: the entry is put at the end.
InsertBack(track, entry) == Append(track, entry)

\* insert(t, o)
Insert(track, entry) == EmplacedAt(track, UpperBound(track, entry.time), entry)

\* Mutant of RemoveBefore: the first later element goes too.
RemoveBeforeOneMore(track, t) == SubSeq(track, UpperBound(track, t) + 1, Len(track))

\* remove_before(t)
RemoveBefore(track, t) == SubSeq(track, UpperBound(track, t), Len(track))

\* back()
Back(track) == track[Len(track)]
=============================================================================
