---------------------------- MODULE MCFormPages ----------------------------
(* A small instance of FormPages: every form, for new records and old.     *)
EXTENDS FormPages, TLC

CONSTANTS f1, f2, p1, p2

MCVisits == {<<f, m>> : f \in {"events", "payments", "users", "roles", "menus",
                               "vendors"}, m \in {"new", "edit"}}
            \cup {<<"evaluations", "new">>, <<"evaluations", "edit">>,
                   <<"vendors", "self">>, <<"photos", "edit">>, <<"pitch", "new">>,
                   <<"score", "edit">>, <<"register", "new">>,
                   <<"winner", "edit">>, <<"reset", "edit">>, <<"password", "edit">>}
\* New records start empty: it takes more to fill them in, and a role has four
\* fields to fill, before it is submitted, renamed and submitted again.  Two
\* photos are chosen, uploaded, and changed meanwhile.  The vendors to pick
\* from multiply the states of a payment.
MCMaxInputs == [v \in MCVisits |->
                   IF v = <<"roles", "new">> THEN 7 ELSE IF v[1] = "photos" THEN 5
                   ELSE IF v = <<"payments", "edit">> THEN 2
                   ELSE IF v[2] = "new" THEN 4 ELSE 3]

Symmetry == Permutations({f1, f2}) \cup Permutations({p1, p2})
=============================================================================
