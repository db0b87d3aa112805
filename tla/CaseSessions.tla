---------------------------- MODULE CaseSessions ----------------------------
(***************************************************************************)
(* The recovery agent's handlers over the shared database: the WhatsApp    *)
(* reply handler, the Razorpay capture and failure handlers, the first-    *)
(* contact pipeline and the follow-up scheduler, each an asyncio task with *)
(* an SQLAlchemy session of its own.                                       *)
(*                                                                         *)
(* A session loads the Case row once (expire_on_commit=False, identity     *)
(* map) and decides from that copy across awaits on the LLM and on the     *)
(* WhatsApp API; nothing locks the row and nothing compares versions, so   *)
(* other sessions commit in between.  job[w] is the session of task w: the *)
(* await it is parked at, its case and its copy of the status.             *)
(*                                                                         *)
(* The two CHECK constraints that differ between the schema `alembic       *)
(* upgrade head` builds and the one Base.metadata.create_all builds are    *)
(* constants: StoredStates for replies.classified_state, FinalStates for   *)
(* outcomes.final_state.                                                   *)
(***************************************************************************)
EXTENDS Naturals, FiniteSets

CONSTANTS
    Workers,            \* request and background tasks
    Scheduler,          \* the follow-up scheduler's task
    Customers,          \* customer references
    NumCases,           \* cases are 1..NumCases in created_at order
    Ref,                \* customer_ref of each case
    StoredStates,       \* classified_state values the CHECK accepts
    FinalStates,        \* final_state values the CHECK accepts
    MaxRetries,         \* stopping_rules.MAX_RETRIES
    MaxBrokenPromises,  \* stopping_rules.MAX_BROKEN_PROMISES
    MaxEvents,          \* bound: webhooks and scans delivered
    MaxFaults           \* bound: crashes and raised exceptions

Cases == 1..NumCases

VARIABLES
    opened,     \* number of case rows
    status,     \* cases.status
    outcome,    \* final_state of the case's Outcome row, or "none"
    promises,   \* replies of the case classified promise_made
    contacts,   \* interventions rows of the case
    sent,       \* messages handed to the channel for the case
    job,        \* the session of each task
    backlog,    \* case ids the scheduler's last scan has left
    events,     \* webhooks and scans so far
    faults      \* crashes and raised exceptions so far

db == <<opened, status, outcome, promises, contacts>>
vars == <<opened, status, outcome, promises, contacts, sent, job, backlog,
          events, faults>>

INSTANCE CaseLedger

Tasks == Workers \cup {Scheduler}

ReplyStates == {"promise_made", "needs_new_payment_method", "disputed", "paused",
                "opt_out", "human_escalation", "unresolved", "other"}

Causes == {"needs_info", "dispute"}

Steps == {"idle",
          "analysing", "acking", "committing", "ruling", "handing_off", "handed_off",
          "crediting", "confirming",
          "queued", "diagnosing", "gating", "disputing", "filing",
          "reminding", "logging"}

Job == [at : Steps, case : 0..NumCases, seen : Statuses,
        state : ReplyStates \cup {"none"}, causes : SUBSET Causes]

ASSUME ConstantsOK ==
    /\ Scheduler \notin Workers
    /\ NumCases \in Nat \ {0}
    /\ Ref \in [Cases -> Customers]
    /\ StoredStates \subseteq ReplyStates
    /\ FinalStates \subseteq Closed
    /\ MaxRetries \in Nat \ {0}
    /\ MaxBrokenPromises \in Nat \ {0}
    /\ MaxEvents \in Nat
    /\ MaxFaults \in Nat

TypeOK ==
    /\ opened \in 0..NumCases
    /\ status \in [Cases -> Statuses]
    /\ outcome \in [Cases -> Closed \cup {"none"}]
    /\ promises \in [Cases -> Nat]
    /\ contacts \in [Cases -> Nat]
    /\ sent \in [Cases -> Nat]
    /\ job \in [Tasks -> Job]
    /\ backlog \subseteq Cases
    /\ events \in Nat
    /\ faults \in Nat

-----------------------------------------------------------------------------
\* Helpers.

Task(at, c, seen) == [at |-> at, case |-> c, seen |-> seen, state |-> "none",
                      causes |-> {}]

Idle == Task("idle", 0, "absent")

\* A new session: the case is loaded, its status copied.
Session(at, c) == Task(at, c, status[c])

Start(w, j) ==
    /\ job[w] = Idle
    /\ events < MaxEvents
    /\ events' = events + 1
    /\ job' = [job EXCEPT ![w] = j]

Goto(w, at) == job' = [job EXCEPT ![w].at = at]
End(w) == job' = [job EXCEPT ![w] = Idle]

\* An exception nobody in the handler expects: a connection error of the
\* WhatsApp client, a rate limit the LLM client gave up on.
Raise == faults < MaxFaults /\ faults' = faults + 1

Send(c) == sent' = [sent EXCEPT ![c] = @ + 1]

\* Faulty variant: outcomes.case_id without its UNIQUE.
FaultyCanInsert(c, f) == f \in FinalStates

\* INSERT of the case's Outcome row passes the UNIQUE and the CHECK.
CanInsert(c, f) == outcome[c] = "none" /\ f \in FinalStates

\* The flush of a session that loaded status `old` and assigned `new`: the ORM
\* emits the UPDATE only if the value changed in memory, and overwrites
\* whatever the row holds by then.
Flushed(c, old, new) == IF new = old THEN status ELSE [status EXCEPT ![c] = new]

\* ORDER BY created_at DESC LIMIT 1: c is the newest case of its customer, the
\* one an event that names only the customer is matched to.
Newest(c) ==
    /\ c <= opened
    /\ \A d \in Cases : d <= opened /\ Ref[d] = Ref[c] => d <= c

-----------------------------------------------------------------------------
\* WhatsApp reply webhook: process_inbound_reply.

\* Faulty variant: hands off to a status no table knows.
FaultyReplyTarget(state, old) == IF state = "human_escalation" THEN "handed_off" ELSE old

ReplyTarget(state, old) ==
    CASE state = "promise_made"                     -> "promise_pending"
      [] state = "needs_new_payment_method"         -> "payment_method_required"
      [] state \in {"disputed", "human_escalation"} -> "human_escalated"
      [] state = "paused"                           -> "retained_paused"
      [] state = "opt_out"                          -> "stopped"
      [] OTHER                                      -> old

\* Faulty variant: a reply is processed whatever the status.
FaultyReplyArrives(w, c) ==
    /\ Newest(c)
    /\ Start(w, Session("analysing", c))
    /\ UNCHANGED <<opened, status, outcome, promises, contacts, sent, backlog,
                   faults>>

\* The Reply row of a locked case is committed and nothing else happens; any
\* other reply goes to the LLM with the status as loaded.
ReplyArrives(w, c) ==
    /\ Newest(c)
    /\ Start(w, IF status[c] \in Locked THEN Idle ELSE Session("analysing", c))
    /\ UNCHANGED <<opened, status, outcome, promises, contacts, sent, backlog,
                   faults>>

\* The LLM answered: the flush of classified_state passes its CHECK, or the
\* whole transaction, Reply row included, is rolled back (HTTP 500).
ReplyClassified(w, s) ==
    /\ job[w].at = "analysing"
    /\ job' = [job EXCEPT ![w] =
                 IF s \in StoredStates THEN [@ EXCEPT !.at = "acking", !.state = s]
                                       ELSE Idle]
    /\ UNCHANGED <<opened, status, outcome, promises, contacts, sent, backlog,
                   events, faults>>

\* The LLM client gave up: the webhook swallows it and commits the Reply row
\* with no classification.
ReplyUnclassified(w) ==
    /\ job[w].at = "analysing"
    /\ Raise
    /\ End(w)
    /\ UNCHANGED <<opened, status, outcome, promises, contacts, sent, backlog,
                   events>>

\* The drafted answer goes out before anything is committed and before any
\* stopping rule is looked at.
ReplyAcked(w) ==
    /\ job[w].at = "acking"
    /\ Send(job[w].case)
    /\ Goto(w, "committing")
    /\ UNCHANGED <<opened, status, outcome, promises, contacts, backlog, events,
                   faults>>

\* Faulty variant: "retained_paused" forgotten in the list of closing statuses.
FaultyReplyCloses(j) ==
    /\ ReplyTarget(j.state, j.seen) # j.seen
    /\ ReplyTarget(j.state, j.seen) \in {"human_escalated", "stopped", "timeout"}

ReplyCloses(j) ==
    /\ ReplyTarget(j.state, j.seen) # j.seen
    /\ ReplyTarget(j.state, j.seen) \in
         {"human_escalated", "stopped", "retained_paused", "timeout"}

\* What the reply session holds, written to the tables: status, Outcome row and
\* classification together, whatever the status has become since it was loaded.
ReplyWrites(j) ==
    LET new == ReplyTarget(j.state, j.seen)
    IN  /\ ReplyCloses(j) => CanInsert(j.case, new)
        /\ status' = Flushed(j.case, j.seen, new)
        /\ outcome' = IF ReplyCloses(j) THEN [outcome EXCEPT ![j.case] = new]
                                        ELSE outcome
        /\ promises' = IF j.state = "promise_made"
                       THEN [promises EXCEPT ![j.case] = @ + 1] ELSE promises

\* The Outcome row is refused: IntegrityError, everything rolled back.
ReplyRefused(j) == ReplyCloses(j) /\ ~CanInsert(j.case, ReplyTarget(j.state, j.seen))

ReplyCommits(w) ==
    LET j == job[w]
    IN  /\ j.at = "committing"
        /\ ReplyWrites(j)
        /\ contacts' = [contacts EXCEPT ![j.case] = @ + 1]
        /\ job' = [job EXCEPT ![w].at = "ruling",
                              ![w].seen = ReplyTarget(j.state, j.seen)]
        /\ UNCHANGED <<opened, sent, backlog, events, faults>>

\* The answer is out, the commit fails, the webhook answers 500.
ReplyCommitFails(w) ==
    /\ job[w].at = "committing"
    /\ ReplyRefused(job[w])
    /\ End(w)
    /\ UNCHANGED <<opened, status, outcome, promises, contacts, sent, backlog,
                   events, faults>>

\* channel.send raises: the webhook swallows it and its own final commit stores
\* the transition, with no Intervention row and no stopping rule run.
ReplySendRaises(w) ==
    /\ job[w].at = "acking"
    /\ Raise
    /\ \/ ReplyWrites(job[w])
       \/ ReplyRefused(job[w]) /\ UNCHANGED <<status, outcome, promises>>
    /\ End(w)
    /\ UNCHANGED <<opened, contacts, sent, backlog, events>>

\* Faulty variant: the cap compared with > instead of >=.
FaultyCapReached(j) == j.seen # "stopped" /\ promises[j.case] > MaxBrokenPromises

\* check_stopping_rules(action_type="follow_up") on the session's own copy: a
\* stopped case ends the job, the broken-promise cap escalates the case.
CapReached(j) ==
    /\ j.seen # "stopped"
    /\ promises[j.case] >= MaxBrokenPromises

RulesQuiet(w) ==
    /\ job[w].at = "ruling"
    /\ ~CapReached(job[w])
    /\ End(w)
    /\ UNCHANGED <<opened, status, outcome, promises, contacts, sent, backlog,
                   events, faults>>

\* Faulty variant: the escalation ends the job, as a blocked follow-up does.
FaultyBrokenPromises(w) ==
    LET j == job[w]
    IN  /\ j.at = "ruling"
        /\ CapReached(j)
        /\ IF CanInsert(j.case, "human_escalated")
           THEN /\ status' = Flushed(j.case, j.seen, "human_escalated")
                /\ outcome' = [outcome EXCEPT ![j.case] = "human_escalated"]
           ELSE UNCHANGED <<status, outcome>>
        /\ End(w)
        /\ UNCHANGED <<opened, promises, contacts, sent, backlog, events, faults>>

BrokenPromises(w) ==
    LET j == job[w]
    IN  /\ j.at = "ruling"
        /\ CapReached(j)
        /\ IF CanInsert(j.case, "human_escalated")
           THEN /\ status' = Flushed(j.case, j.seen, "human_escalated")
                /\ outcome' = [outcome EXCEPT ![j.case] = "human_escalated"]
                /\ Goto(w, "handing_off")
           ELSE /\ End(w)
                /\ UNCHANGED <<status, outcome>>
        /\ UNCHANGED <<opened, promises, contacts, sent, backlog, events, faults>>

HandoffSent(w) ==
    /\ job[w].at = "handing_off"
    /\ Send(job[w].case)
    /\ Goto(w, "handed_off")
    /\ UNCHANGED <<opened, status, outcome, promises, contacts, backlog, events,
                   faults>>

HandoffRaises(w) ==
    /\ job[w].at = "handing_off"
    /\ Raise
    /\ End(w)
    /\ UNCHANGED <<opened, status, outcome, promises, contacts, sent, backlog,
                   events>>

HandoffCommits(w) ==
    /\ job[w].at = "handed_off"
    /\ contacts' = [contacts EXCEPT ![job[w].case] = @ + 1]
    /\ End(w)
    /\ UNCHANGED <<opened, status, outcome, promises, sent, backlog, events,
                   faults>>

-----------------------------------------------------------------------------
\* Razorpay webhook, success events: process_webhook.

CaptureArrives(w, c) ==
    /\ Newest(c)
    /\ Start(w, IF status[c] \in {"recovered", "stopped", "escalated"}
                THEN Idle ELSE Session("crediting", c))
    /\ UNCHANGED <<opened, status, outcome, promises, contacts, sent, backlog,
                   faults>>

CaptureCommits(w) ==
    LET c == job[w].case
    IN  /\ job[w].at = "crediting"
        /\ CanInsert(c, "recovered")
        /\ status' = [status EXCEPT ![c] = "recovered"]
        /\ outcome' = [outcome EXCEPT ![c] = "recovered"]
        /\ Goto(w, "confirming")
        /\ UNCHANGED <<opened, promises, contacts, sent, backlog, events, faults>>

\* The case has an Outcome row already: HTTP 500, the payment is not recorded.
CaptureRefused(w) ==
    /\ job[w].at = "crediting"
    /\ ~CanInsert(job[w].case, "recovered")
    /\ End(w)
    /\ UNCHANGED <<opened, status, outcome, promises, contacts, sent, backlog,
                   events, faults>>

CaptureConfirmed(w) ==
    /\ job[w].at = "confirming"
    /\ \/ Send(job[w].case) /\ UNCHANGED faults
       \/ Raise /\ UNCHANGED sent
    /\ End(w)
    /\ UNCHANGED <<opened, status, outcome, promises, contacts, backlog, events>>

-----------------------------------------------------------------------------
\* Razorpay webhook, failure events, and the background task they queue:
\* process_new_webhook_case.

FailureArrives(w) ==
    /\ opened < NumCases
    /\ opened' = opened + 1
    /\ status' = [status EXCEPT ![opened + 1] = "open"]
    /\ Start(w, Task("queued", opened + 1, "absent"))
    /\ UNCHANGED <<outcome, promises, contacts, sent, backlog, faults>>

PipelineLoads(w) ==
    /\ job[w].at = "queued"
    /\ job' = [job EXCEPT ![w] = Session("diagnosing", job[w].case)]
    /\ UNCHANGED <<opened, status, outcome, promises, contacts, sent, backlog,
                   events, faults>>

PipelineDiagnosed(w, causes) ==
    /\ job[w].at = "diagnosing"
    /\ job' = [job EXCEPT ![w].at = "gating", ![w].causes = causes]
    /\ UNCHANGED <<opened, status, outcome, promises, contacts, sent, backlog,
                   events, faults>>

\* The diagnosis or the channel raises: logged, rolled back, never retried.
PipelineRaises(w) ==
    /\ job[w].at \in {"diagnosing", "disputing"}
    /\ job[w].at = "disputing" => "dispute" \notin job[w].causes
    /\ Raise
    /\ End(w)
    /\ UNCHANGED <<opened, status, outcome, promises, contacts, sent, backlog,
                   events>>

\* check_stopping_rules(action_type="retry"), rules 1 and 2: the opt-out gate on
\* the session's copy, the retry cap on the committed Intervention rows.
PipelineOptedOut(w) ==
    /\ job[w].at = "gating"
    /\ job[w].seen = "stopped"
    /\ End(w)
    /\ UNCHANGED <<opened, status, outcome, promises, contacts, sent, backlog,
                   events, faults>>

PipelineTimesOut(w) ==
    LET j == job[w]
    IN  /\ j.at = "gating"
        /\ j.seen # "stopped"
        /\ contacts[j.case] >= MaxRetries
        /\ IF CanInsert(j.case, "timeout")
           THEN /\ status' = Flushed(j.case, j.seen, "timeout")
                /\ outcome' = [outcome EXCEPT ![j.case] = "timeout"]
           ELSE UNCHANGED <<status, outcome>>
        /\ End(w)
        /\ UNCHANGED <<opened, promises, contacts, sent, backlog, events, faults>>

\* Rule 3 moves the case to payment_method_required, commits, and lets the
\* first contact proceed.
Redirects(j) ==
    /\ "needs_info" \in j.causes
    /\ j.seen \notin {"payment_method_required", "escalated", "stopped", "recovered"}

PipelineRedirects(w) ==
    LET j == job[w]
        new == IF Redirects(j) THEN "payment_method_required" ELSE j.seen
    IN  /\ j.at = "gating"
        /\ j.seen # "stopped"
        /\ contacts[j.case] < MaxRetries
        /\ status' = Flushed(j.case, j.seen, new)
        /\ job' = [job EXCEPT ![w].at = "disputing", ![w].seen = new]
        /\ UNCHANGED <<opened, outcome, promises, contacts, sent, backlog, events,
                       faults>>

\* Rule 4: a dispute closes the case and blocks the first contact.
PipelineDisputes(w) ==
    LET j == job[w]
        writes == j.seen \notin {"disputed", "escalated", "stopped", "recovered"}
    IN  /\ j.at = "disputing"
        /\ "dispute" \in j.causes
        /\ IF writes /\ CanInsert(j.case, "disputed")
           THEN /\ status' = Flushed(j.case, j.seen, "disputed")
                /\ outcome' = [outcome EXCEPT ![j.case] = "disputed"]
           ELSE UNCHANGED <<status, outcome>>
        /\ End(w)
        /\ UNCHANGED <<opened, promises, contacts, sent, backlog, events, faults>>

FirstContact(w) ==
    /\ job[w].at = "disputing"
    /\ "dispute" \notin job[w].causes
    /\ Send(job[w].case)
    /\ Goto(w, "filing")
    /\ UNCHANGED <<opened, status, outcome, promises, contacts, backlog, events,
                   faults>>

PipelineCommits(w) ==
    /\ job[w].at = "filing"
    /\ contacts' = [contacts EXCEPT ![job[w].case] = @ + 1]
    /\ End(w)
    /\ UNCHANGED <<opened, status, outcome, promises, sent, backlog, events,
                   faults>>

-----------------------------------------------------------------------------
\* The follow-up scheduler: run_followup_scan, and check_followup(force=True)
\* for one case id after the other.

ActiveStatuses == {"open", "promise_pending", "payment_method_required"}

\* Any active case may have been silent long enough.
ScanFinds(ids) ==
    /\ job[Scheduler] = Idle
    /\ backlog = {}
    /\ ids # {}
    /\ \A c \in ids : c <= opened /\ status[c] \in ActiveStatuses
    /\ events < MaxEvents
    /\ events' = events + 1
    /\ backlog' = ids
    /\ UNCHANGED <<opened, status, outcome, promises, contacts, sent, job, faults>>

\* Faulty variant: the Intervention row is committed when the check starts.
FaultyFollowupLoads(c) ==
    /\ job[Scheduler] = Idle
    /\ c \in backlog
    /\ backlog' = backlog \ {c}
    /\ contacts' = [contacts EXCEPT ![c] = @ + 1]
    /\ job' = [job EXCEPT ![Scheduler] = Session("reminding", c)]
    /\ UNCHANGED <<opened, status, outcome, promises, sent, events, faults>>

\* force=True: the case is loaded afresh and its status does not matter.
FollowupLoads(c) ==
    /\ job[Scheduler] = Idle
    /\ c \in backlog
    /\ backlog' = backlog \ {c}
    /\ job' = [job EXCEPT ![Scheduler] = Session("reminding", c)]
    /\ UNCHANGED <<opened, status, outcome, promises, contacts, sent, events,
                   faults>>

FollowupSent ==
    /\ job[Scheduler].at = "reminding"
    /\ Send(job[Scheduler].case)
    /\ Goto(Scheduler, "logging")
    /\ UNCHANGED <<opened, status, outcome, promises, contacts, backlog, events,
                   faults>>

FollowupRaises ==
    /\ job[Scheduler].at = "reminding"
    /\ Raise
    /\ End(Scheduler)
    /\ UNCHANGED <<opened, status, outcome, promises, contacts, sent, backlog,
                   events>>

\* Faulty variant: the session ends without its commit.
FaultyFollowupCommits ==
    /\ job[Scheduler].at = "logging"
    /\ End(Scheduler)
    /\ UNCHANGED <<opened, status, outcome, promises, contacts, sent, backlog, events,
                   faults>>

FollowupCommits ==
    /\ job[Scheduler].at = "logging"
    /\ contacts' = [contacts EXCEPT ![job[Scheduler].case] = @ + 1]
    /\ End(Scheduler)
    /\ UNCHANGED <<opened, status, outcome, promises, sent, backlog, events,
                   faults>>

-----------------------------------------------------------------------------
\* The process dies: every uncommitted session and queued task is gone.
Crash ==
    /\ Raise
    /\ job' = [w \in Tasks |-> Idle]
    /\ backlog' = {}
    /\ UNCHANGED <<opened, status, outcome, promises, contacts, sent, events>>

Init ==
    /\ LedgerInit
    /\ opened = 0
    /\ promises = [c \in Cases |-> 0]
    /\ contacts = [c \in Cases |-> 0]
    /\ sent = [c \in Cases |-> 0]
    /\ job = [w \in Tasks |-> Idle]
    /\ backlog = {}
    /\ events = 0
    /\ faults = 0

ReplyStep(w) ==
    \/ \E s \in ReplyStates : ReplyClassified(w, s)
    \/ ReplyUnclassified(w)
    \/ ReplyAcked(w)
    \/ ReplyCommits(w)
    \/ ReplyCommitFails(w)
    \/ ReplySendRaises(w)
    \/ RulesQuiet(w)
    \/ BrokenPromises(w)
    \/ HandoffSent(w)
    \/ HandoffRaises(w)
    \/ HandoffCommits(w)

CaptureStep(w) == CaptureCommits(w) \/ CaptureRefused(w) \/ CaptureConfirmed(w)

PipelineStep(w) ==
    \/ PipelineLoads(w)
    \/ \E causes \in SUBSET Causes : PipelineDiagnosed(w, causes)
    \/ PipelineRaises(w)
    \/ PipelineOptedOut(w)
    \/ PipelineTimesOut(w)
    \/ PipelineRedirects(w)
    \/ PipelineDisputes(w)
    \/ FirstContact(w)
    \/ PipelineCommits(w)

SchedulerStep ==
    \/ \E ids \in SUBSET Cases : ScanFinds(ids)
    \/ \E c \in Cases : FollowupLoads(c)
    \/ FollowupSent
    \/ FollowupRaises
    \/ FollowupCommits

Arrival(w) ==
    \/ FailureArrives(w)
    \/ \E c \in Cases : ReplyArrives(w, c) \/ CaptureArrives(w, c)

Next ==
    \/ \E w \in Workers : Arrival(w) \/ ReplyStep(w) \/ CaptureStep(w) \/ PipelineStep(w)
    \/ SchedulerStep
    \/ Crash

Spec == Init /\ [][Next]_vars

-----------------------------------------------------------------------------
\* Properties.

\* A recovered or stopped case is moved only by a session that loaded it before
\* it became so: the terminal-status guards leave no other way (process_inbound_
\* reply, process_webhook and rules 1 to 4 each read the status their own way).
SettledMovesOnlyStale ==
    [][\A c \in Cases :
         status[c] \in {"recovered", "stopped"} /\ status'[c] # status[c]
         => \E w \in Tasks : /\ job[w].case = c
                             /\ job[w].seen \notin {"recovered", "stopped"}]_vars

\* The inductive part of the argument: what is known of the session of a task
\* parked at each await, n cases having been opened.
JobFits(j, n) ==
    /\ j.at # "idle" => j.case \in 1..n
    /\ j.at \in {"analysing", "acking", "committing"} => j.seen \notin Locked
    /\ j.at = "crediting" => j.seen \notin {"recovered", "stopped"}

SessionsFit ==
    /\ \A w \in Tasks : JobFits(job[w], opened)
    /\ backlog \subseteq 1..opened

\* Case rows are created in order, and a row once created has a status.
RowsInOrder == \A c \in Cases : status[c] = "absent" <=> c > opened

\* A session that holds a closed status in its copy holds that of a case whose
\* Outcome row is committed.
CopiesBacked ==
    \A w \in Tasks :
        job[w].at # "idle" /\ job[w].seen \in Closed => outcome[job[w].case] # "none"

Consistent ==
    TypeOK /\ SessionsFit /\ RowsInOrder /\ CopiesBacked /\ ClosedMatchesOutcome

\* No Intervention row is committed for a message that was not handed to the
\* channel, in whatever order sessions send, record, fail and crash.
NoUnsentContact == \A c \in Cases : contacts[c] <= sent[c]

\* Where a session stands that has sent a message and not yet committed the
\* Intervention row for it.
Owing == {"committing", "handed_off", "filing", "logging"}

Unfiled(c) == {w \in Tasks : job[w].case = c /\ job[w].at \in Owing}

\* The other direction: as long as the case is not closed, a message that is out
\* and not on record is one a session is about to record, or one whose record a
\* crash has taken, no more than one of each task.  By so much may the count of
\* the retry cap lag behind what the customer has received.
MessagesOnRecord ==
    \A c \in Cases :
        outcome[c] = "none" =>
            sent[c] <= contacts[c] + Cardinality(Unfiled(c)) + faults * Cardinality(Tasks)

HandingOff(c) ==
    \E w \in Workers : job[w].case = c /\ job[w].at \in {"handing_off", "handed_off"}

\* A message the case still owes its customer for having been escalated.
Due(c) == IF outcome[c] = "human_escalated" /\ ~HandingOff(c) THEN 1 ELSE 0

\* The customer is not left without a word: every promise has its answer on record,
\* and an escalation, committed before the hand-off message goes out, has that
\* message or the acknowledgement that led to it; each fault costs one at most.
TurnsAnswered == \A c \in Cases : promises[c] + Due(c) <= contacts[c] + faults

\* The broken-promise cap is never passed silently: without faults, a case with
\* that many promises is closed or a session that will count them is at work.
PromiseCapPending ==
    faults = 0 =>
        \A c \in Cases :
            promises[c] >= MaxBrokenPromises =>
                \/ outcome[c] # "none"
                \/ \E w \in Workers : job[w].case = c /\ job[w].at = "ruling"

\* A stopped case is never contacted again (README, section 5, opt-out gate): at
\* the least, not by a session that read the status as stopped itself.
OptOutRespected ==
    [][\A w \in Tasks :
         job[w].seen = "stopped" /\ job'[w] # job[w] => sent' = sent]_vars

\* A disputed case is not contacted by the agent (README, section 5, rule 4).
DisputeLockout ==
    [][\A c \in Cases : status[c] = "disputed" => sent'[c] = sent[c]]_vars

\* A case whose payment is recorded stays recovered: a reply that arrives or is
\* answered later changes nothing (README, section 3, dual trigger).
RecoveredStays ==
    \A c \in Cases : outcome[c] = "recovered" => status[c] = "recovered"

\* A payment accepted for an active case is recorded, or a no-op because it is
\* recorded already (README, section 3, dual trigger).
CaptureRecorded ==
    [][\A w \in Workers :
         job[w].at = "crediting" /\ job'[w].at # "crediting" /\ faults' = faults
         => outcome'[job[w].case] = "recovered"]_vars
=============================================================================
