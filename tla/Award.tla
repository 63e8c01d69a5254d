------------------------------- MODULE Award -------------------------------
(***************************************************************************)
(* What the winner selection of a pitching event promises, without         *)
(* requests, rows or copies: vendors pitch, once each; one of those who    *)
(* pitched is chosen; and the choice stands unless the chosen vendor is    *)
(* suspended ("winner has already been selected for this event").          *)
(***************************************************************************)
CONSTANTS Events, Vendors, None

VARIABLES
    pitches,    \* pairs <<event, vendor>>
    chosen,     \* the winner of each event, or None
    suspended   \* vendors currently suspended

vars == <<pitches, chosen, suspended>>

Init ==
    /\ pitches = {}
    /\ chosen = [e \in Events |-> None]
    /\ suspended = {}

Pitch(e, v) ==
    /\ pitches' = pitches \cup {<<e, v>>}
    /\ UNCHANGED <<chosen, suspended>>

Choose(e, v) ==
    /\ <<e, v>> \in pitches
    /\ chosen[e] = None \/ chosen[e] \in suspended
    /\ chosen' = [chosen EXCEPT ![e] = v]
    /\ UNCHANGED <<pitches, suspended>>

Suspend(v) ==
    /\ suspended' = suspended \cup {v}
    /\ UNCHANGED <<pitches, chosen>>

Reinstate(v) ==
    /\ suspended' = suspended \ {v}
    /\ UNCHANGED <<pitches, chosen>>

Next ==
    \/ \E e \in Events, v \in Vendors : Pitch(e, v) \/ Choose(e, v)
    \/ \E v \in Vendors : Suspend(v) \/ Reinstate(v)

Spec == Init /\ [][Next]_vars

=============================================================================
