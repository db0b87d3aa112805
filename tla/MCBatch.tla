------------------------------ MODULE MCBatch ------------------------------
(* Instances of Batch for TLC. *)
EXTENDS Batch

\* The pairs of scripted reply and outcome_path the fixtures and the generator
\* hold.
MCScripts ==
    {[reply |-> r, path |-> p] : r \in BOOLEAN, p \in {"", "stalled"}}
    \cup {[reply |-> TRUE, path |-> "resolved_via_reply"],
          [reply |-> FALSE, path |-> "resolved_no_reply"],
          [reply |-> FALSE, path |-> "resolved_via_webhook"]}

\* Base.metadata.create_all: no CHECK on either column.
Models == [states |-> ReplyStates, finals |-> CaseStatuses]

\* alembic upgrade head.
Migrations ==
    [states |-> {"promise_made", "needs_new_payment_method", "disputed", "opt_out",
                 "unresolved"},
     finals |-> {"recovered", "escalated", "stopped", "disputed"}]

MCSchemas == {Models, Migrations}
=============================================================================
