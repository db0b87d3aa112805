------------------------------ MODULE Ingestion ------------------------------
(***************************************************************************)
(* From a Razorpay failure event to a case and its first-contact pipeline. *)
(*                                                                         *)
(* Razorpay delivers at least once: until it has read a 2xx answer it      *)
(* redelivers, and now and then it does so after one.  The handler looks   *)
(* the idempotency key up, inserts the case and, once the answer is out,   *)
(* runs the pipeline as a background task of the same request, in memory.  *)
(* Requests for one event may overlap, answers get lost, the process dies. *)
(*                                                                         *)
(* CaseSessions starts where this module ends: its FailureArrives is what  *)
(* Deliver, Lookup, Flush, Commit and Answer come to for a new event.      *)
(***************************************************************************)
EXTENDS Naturals, FiniteSets

CONSTANTS
    Events,         \* idempotency keys "{event_type}:{entity_id}"
    Ignored,        \* those of unsupported type or with a malformed payload
    Requests,       \* requests the server can have in flight
    MaxDuplicates,  \* bound: deliveries of an event Razorpay knows answered
    MaxFaults       \* bound: answers lost and crashes

ASSUME IngestionConstants ==
    /\ Ignored \subseteq Events
    /\ MaxDuplicates \in Nat
    /\ MaxFaults \in Nat

VARIABLES
    rows,        \* committed cases rows with that razorpay_event_id
    started,     \* pipelines started for the event
    finished,    \* events a pipeline has run to its end for
    acked,       \* events Razorpay has read a 2xx answer for
    req,         \* each request: the step it is parked at and its event
    duplicates,  \* deliveries of answered events so far
    lost,        \* answers lost so far
    crashes      \* crashes so far

vars == <<rows, started, finished, acked, req, duplicates, lost, crashes>>

Points == {"idle", "selecting", "flushing", "committing", "answering", "piping"}

None == "none"
Request == [at : Points, event : Events \cup {None}]
Idle == [at |-> "idle", event |-> None]

Failures == Events \ Ignored

TypeOK ==
    /\ rows \in [Events -> Nat]
    /\ started \in [Events -> Nat]
    /\ finished \subseteq Events
    /\ acked \subseteq Events
    /\ req \in [Requests -> Request]
    /\ duplicates \in Nat
    /\ lost \in Nat
    /\ crashes \in Nat

At(r, p, e) == req[r] = [at |-> p, event |-> e]
Move(r, p) == req' = [req EXCEPT ![r].at = p]

\* Faulty variant: a request that is over keeps its slot.
FaultyFree(r) == req' = [req EXCEPT ![r].at = "over"]

Free(r) == req' = [req EXCEPT ![r] = Idle]

\* Razorpay reads the 2xx answer, or the answer is lost on the way.
Acknowledge(e) ==
    \/ acked' = acked \cup {e} /\ UNCHANGED lost
    \/ lost + crashes < MaxFaults /\ lost' = lost + 1 /\ UNCHANGED acked

\* A first delivery, or a retry.
Deliver(r, e) ==
    /\ req[r] = Idle
    /\ e \notin acked
    /\ req' = [req EXCEPT ![r] = [at |-> "selecting", event |-> e]]
    /\ UNCHANGED <<rows, started, finished, acked, duplicates, lost, crashes>>

\* Razorpay redelivers although it has its answer.
Redeliver(r, e) ==
    /\ req[r] = Idle
    /\ e \in acked
    /\ duplicates < MaxDuplicates
    /\ duplicates' = duplicates + 1
    /\ req' = [req EXCEPT ![r] = [at |-> "selecting", event |-> e]]
    /\ UNCHANGED <<rows, started, finished, acked, lost, crashes>>

\* Faulty variant: an event type is missing from SUPPORTED_EVENTS.
FaultyIgnore(r, e) ==
    /\ At(r, "selecting", e)
    /\ Acknowledge(e)
    /\ Free(r)
    /\ UNCHANGED <<rows, started, finished, duplicates, crashes>>

\* Unsupported type, malformed payload: answered 200 and forgotten.
Ignore(r, e) ==
    /\ At(r, "selecting", e)
    /\ e \in Ignored
    /\ Acknowledge(e)
    /\ Free(r)
    /\ UNCHANGED <<rows, started, finished, duplicates, crashes>>

\* Faulty variant: a duplicate is answered with an error status.
FaultyDeduplicate(r, e) ==
    /\ At(r, "selecting", e)
    /\ e \in Failures
    /\ rows[e] > 0
    /\ Free(r)
    /\ UNCHANGED <<rows, started, finished, acked, duplicates, lost, crashes>>

\* The idempotency check finds the case: 200, deduplicated.
Deduplicate(r, e) ==
    /\ At(r, "selecting", e)
    /\ e \in Failures
    /\ rows[e] > 0
    /\ Acknowledge(e)
    /\ Free(r)
    /\ UNCHANGED <<rows, started, finished, duplicates, crashes>>

\* The idempotency check finds nothing.
Lookup(r, e) ==
    /\ At(r, "selecting", e)
    /\ e \in Failures
    /\ rows[e] = 0
    /\ Move(r, "flushing")
    /\ UNCHANGED <<rows, started, finished, acked, duplicates, lost, crashes>>

\* Faulty variant: razorpay_event_id without its UNIQUE.
FaultyFlush(r, e) ==
    /\ At(r, "flushing", e)
    /\ Move(r, "committing")
    /\ UNCHANGED <<rows, started, finished, acked, duplicates, lost, crashes>>

\* The INSERT waits for another uncommitted INSERT of the same key (a UNIQUE
\* index of PostgreSQL) and goes through if the key is still free.
Flush(r, e) ==
    /\ At(r, "flushing", e)
    /\ \A q \in Requests : ~At(q, "committing", e)
    /\ rows[e] = 0
    /\ Move(r, "committing")
    /\ UNCHANGED <<rows, started, finished, acked, duplicates, lost, crashes>>

\* The key was taken in the meantime: IntegrityError, 500, Razorpay retries.
FlushRefused(r, e) ==
    /\ At(r, "flushing", e)
    /\ rows[e] > 0
    /\ Free(r)
    /\ UNCHANGED <<rows, started, finished, acked, duplicates, lost, crashes>>

Commit(r, e) ==
    /\ At(r, "committing", e)
    /\ rows' = [rows EXCEPT ![e] = @ + 1]
    /\ Move(r, "answering")
    /\ UNCHANGED <<started, finished, acked, duplicates, lost, crashes>>


\* Faulty variant: the answer is sent, the background task is not queued.
FaultyAnswer(r, e) ==
    /\ At(r, "answering", e)
    /\ Acknowledge(e)
    /\ Free(r)
    /\ UNCHANGED <<rows, started, finished, duplicates, crashes>>

\* The answer goes out and the background task starts.
Answer(r, e) ==
    /\ At(r, "answering", e)
    /\ Acknowledge(e)
    /\ started' = [started EXCEPT ![e] = @ + 1]
    /\ Move(r, "piping")
    /\ UNCHANGED <<rows, finished, duplicates, crashes>>

\* process_new_webhook_case returns: contact made, blocked or failed, it logs
\* every exception and lets none escape.
PipelineEnds(r, e) ==
    /\ At(r, "piping", e)
    /\ finished' = finished \cup {e}
    /\ Free(r)
    /\ UNCHANGED <<rows, started, acked, duplicates, lost, crashes>>

\* The process dies: transactions in flight are rolled back, tasks forgotten.
Crash ==
    /\ lost + crashes < MaxFaults
    /\ crashes' = crashes + 1
    /\ req' = [r \in Requests |-> Idle]
    /\ UNCHANGED <<rows, started, finished, acked, duplicates, lost>>

Init ==
    /\ rows = [e \in Events |-> 0]
    /\ started = [e \in Events |-> 0]
    /\ finished = {}
    /\ acked = {}
    /\ req = [r \in Requests |-> Idle]
    /\ duplicates = 0
    /\ lost = 0
    /\ crashes = 0

\* One step of the request r, which the event loop keeps running.
Handle(r) ==
    \E e \in Events :
        \/ Ignore(r, e)
        \/ Deduplicate(r, e)
        \/ Lookup(r, e)
        \/ Flush(r, e)
        \/ FlushRefused(r, e)
        \/ Commit(r, e)
        \/ Answer(r, e)
        \/ PipelineEnds(r, e)

Next ==
    \/ \E r \in Requests, e \in Events : Deliver(r, e) \/ Redeliver(r, e)
    \/ \E r \in Requests : Handle(r)
    \/ Crash

Spec == Init /\ [][Next]_vars

\* The event loop runs every request it has, and Razorpay retries an event it
\* has no answer for: again and again it finds the server with room for it.
Fairness ==
    /\ \A r \in Requests : WF_vars(Handle(r))
    /\ \A e \in Events : SF_vars(\E r \in Requests : Deliver(r, e))

FairSpec == Spec /\ Fairness

-----------------------------------------------------------------------------
\* Properties.

\* However its deliveries overlap, an event makes one case and one first
\* contact: the key is unique and only the request that committed the row
\* starts the pipeline.
ProcessedOnce == \A e \in Events : rows[e] <= 1 /\ started[e] <= rows[e]

\* Razorpay stops retrying only when the case is committed, so that no crash
\* and no lost answer loses a failure for good.
AckedStored == \A e \in Failures \cap acked : rows[e] > 0

\* Every failure is acknowledged in the end, although retries race each other
\* into 500 answers.
EventuallyAcked == \A e \in Events : <>(e \in acked)

\* A committed case gets its pipeline, unless the process dies in between: the
\* task is in memory only and a retry is answered as a duplicate.
PipelineFollows == \A e \in Failures : rows[e] > 0 ~> e \in finished \/ crashes > 0

\* What is known of a request at each of its steps.
RequestFits(r) ==
    \A e \in Events :
        /\ At(r, "flushing", e) => e \in Failures
        /\ At(r, "committing", e) => e \in Failures /\ rows[e] = 0
        /\ At(r, "answering", e) => rows[e] = 1 /\ started[e] = 0

\* At most one request is past the INSERT and short of the answer.
Exclusive ==
    \A q, r \in Requests, e \in Events :
        /\ At(q, "committing", e) /\ At(r, "committing", e) => q = r
        /\ At(q, "answering", e) /\ At(r, "answering", e) => q = r

Consistent ==
    /\ TypeOK
    /\ \A r \in Requests : RequestFits(r)
    /\ Exclusive
    /\ ProcessedOnce
    /\ AckedStored
=============================================================================
