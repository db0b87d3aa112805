--------------------------- MODULE MCCaseSessions ---------------------------
(* Instances of CaseSessions for TLC. *)
EXTENDS CaseSessions, TLC

\* One customer owns every case.
MCRef == [c \in Cases |-> CHOOSE u \in Customers : TRUE]

Symmetry == Permutations(Workers)

\* CHECK (classified_state IN ...) of migration 0001; "no_response" behaves as
\* "unresolved" does.
MigratedStates == {"promise_made", "needs_new_payment_method", "disputed",
                   "opt_out", "unresolved"}

\* CHECK (final_state IN ...) of migration 0007, as far as it names closed statuses.
MigratedFinals == {"recovered", "stopped", "disputed", "timeout"}
=============================================================================
