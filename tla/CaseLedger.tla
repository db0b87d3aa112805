----------------------------- MODULE CaseLedger -----------------------------
(***************************************************************************)
(* What the tables cases and outcomes promise to everything that reads     *)
(* them (dashboard, reports, scheduler), with no word about sessions: a    *)
(* case has a status that may move, and at most one Outcome row, written   *)
(* in the same commit as the closing status and never changed after it.    *)
(*                                                                         *)
(* Two contracts are stated.  LedgerSpec lets a closed case drift back to  *)
(* an active status: this much survives any interleaving of the sessions.  *)
(* LifecycleSpec is the stronger one the README describes, where a locked  *)
(* case is final: it is what the code gives when sessions do not overlap.  *)
(***************************************************************************)
CONSTANT Cases

VARIABLES status, outcome

ledgerVars == <<status, outcome>>

\* Statuses every writer of which also inserts the Outcome row of that name.
Closed == {"recovered", "stopped", "human_escalated", "retained_paused",
           "timeout", "disputed"}

\* Statuses a conversation can be in while the agent still works on it.
Working == {"open", "promise_pending", "payment_method_required"}

\* Statuses in which an inbound reply is stored and otherwise ignored: every
\* closed status except "disputed".
Locked == Closed \ {"disputed"}

Statuses == Working \cup Closed \cup {"absent"}

LedgerInit ==
    /\ status = [c \in Cases |-> "absent"]
    /\ outcome = [c \in Cases |-> "none"]

Open(c) ==
    /\ status[c] = "absent"
    /\ status' = [status EXCEPT ![c] = "open"]
    /\ UNCHANGED outcome

\* The closing status and its Outcome row are one commit.
Close(c, f) ==
    /\ status[c] # "absent"
    /\ outcome[c] = "none"
    /\ status' = [status EXCEPT ![c] = f]
    /\ outcome' = [outcome EXCEPT ![c] = f]

\* A status write with no Outcome row: only to the two waiting statuses.
Drift(c, s) ==
    /\ status[c] # "absent"
    /\ status' = [status EXCEPT ![c] = s]
    /\ UNCHANGED outcome

LedgerNext ==
    \E c \in Cases :
        \/ Open(c)
        \/ \E f \in Closed : Close(c, f)
        \/ \E s \in Working \ {"open"} : Drift(c, s)

LedgerSpec == LedgerInit /\ [][LedgerNext]_ledgerVars

LifecycleNext ==
    \E c \in Cases :
        \/ Open(c)
        \/ \E f \in Closed : Close(c, f)
        \/ \E s \in Working \ {"open"} : status[c] \notin Locked /\ Drift(c, s)

LifecycleSpec == LedgerInit /\ [][LifecycleNext]_ledgerVars

\* A closed status is backed by the Outcome row that says the same.
ClosedMatchesOutcome ==
    \A c \in Cases : status[c] \in Closed => outcome[c] = status[c]
=============================================================================
