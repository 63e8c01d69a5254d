--------------------------- MODULE MCEventService ---------------------------
(* Small instances of EventService for TLC.                                *)
EXTENDS EventService, TLC

\* No definition of EventService tells one vendor, submission or slot from
\* another.
Symmetry == Permutations(Events) \cup Permutations(Vendors)
            \cup Permutations(Subs) \cup Permutations(Requests)

=============================================================================
