------------------------ MODULE MCEvaluationService ------------------------
(* Small instances of EvaluationService for TLC.                           *)
EXTENDS EvaluationService, TLC

\* No definition of EvaluationService tells one id from another.
Symmetry == Permutations(Events) \cup Permutations(Vendors) \cup Permutations(Evals)
            \cup Permutations(Photos) \cup Permutations(Requests)

=============================================================================
