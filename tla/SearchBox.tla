------------------------------ MODULE SearchBox ------------------------------
(***************************************************************************)
(* What a search box with results computed in the background promises: the  *)
(* results shown are those of some filter that was asked for, they only     *)
(* change to those of the filter that is wanted now, and a filter that stays *)
(* wanted is shown in the end.  How results are computed, and how many       *)
(* searches are given up on the way, does not show.                          *)
(***************************************************************************)
CONSTANTS Filters, Empty

VARIABLES wanted,   \* the filter the user has typed
          shown     \* the filter of the results on display

Init == wanted = Empty /\ shown = Empty

Request(f) == wanted # f /\ wanted' = f /\ UNCHANGED shown

Show(f) == wanted = f /\ shown # f /\ shown' = f /\ UNCHANGED wanted

Next == \E f \in Filters : Request(f) \/ Show(f)

Spec == /\ Init /\ [][Next]_<<wanted, shown>>
        /\ \A f \in Filters : WF_<<wanted, shown>>(Show(f))
=============================================================================
