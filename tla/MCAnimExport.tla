---------------------------- MODULE MCAnimExport ----------------------------
(* Animations of keyed objects for TLC. *)
EXTENDS AnimExport, FiniteSets, FiniteSetsExt

\* Ranges of one frame, of whole frames, and with an end between frames.
Ranges == {[start |-> s, end |-> e, step |-> 3] : s \in {3}, e \in {3, 9, 10}}

\* The validity intervals of an object that changes at the ticks of B.
FromChanges(B) ==
    [t \in Times |->
        LET later == {b \in B : b > t}
        IN  [start |-> Max({0} \union {b \in B : b <= t}),
             end |-> IF later = {} THEN Horizon ELSE Min(later) - 1]]

Shapes == {FromChanges(B) : B \in SUBSET (1..Horizon - 1)}
Keyed == {f \in Shapes : \A c \in Ranges : IsKeyed(f, c)}
All == [Objects -> Shapes]
KeyedPairs == [Objects -> Keyed]

\* What KeyedFramesAreExact assumes holds in the run.
ASSUME RunIsKeyed == KeyedData
=============================================================================
