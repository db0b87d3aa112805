# RevenueRecoveryAgent: a TLA+ model

The program recovers failed subscription payments. Razorpay reports a failed
charge by webhook; the agent opens a *case*, asks an LLM for the cause, writes
to the customer on WhatsApp, classifies the answers, moves the case through a
status machine, and stops on its own rules. This directory models what the
handlers do to the shared database, checks it with TLC on small instances, and
proves the main invariants with TLAPS for every instance.

Paths below are relative to `src/`.

## 1. Inventory

| part | code | state it keeps | operations | status |
|---|---|---|---|---|
| Reply handler | `core/services/state_machine.py`, `core/routers/webhooks.py` | `cases.status`, `replies`, `interventions`, `outcomes` | one inbound message | modelled |
| Stopping rules | `core/services/stopping_rules.py` | the same tables | five rules, two paths | modelled |
| Capture handler | `core/webhooks/razorpay.py` | `cases.status`, `outcomes` | `payment.captured`, `invoice.paid` | modelled |
| Failure ingestion | `core/webhooks/razorpay.py`, `core/routers/webhooks.py` | `cases` | deduplicate, insert, queue the pipeline | modelled |
| First-contact pipeline | `core/services/pipeline.py`, `intervention.py` | `diagnoses`, `interventions`, what the rules write | one background task per case | modelled |
| Follow-up scheduler | `core/services/followup_scheduler.py`, `scripts/trigger_followup.py` | `interventions` | scan, forced check of each id | modelled |
| Tables and constraints | `core/models/`, `migrations/versions/` | UNIQUEs and CHECKs | insert, update | modelled |
| Diagnosis, reply classification, LLM client | `core/services/diagnosis.py`, `reply_classification.py`, `core/llm/client.py` | none | tiers, parse retries, back-off | modelled |
| Channels | `core/channels/` | none | send | partly: sent or raised |
| Sandbox API | `core/routers/sandbox.py` | rate limiter, session table (in memory), cases | simulate, poll, collect | partly: the simulation, not the limiter |
| Batch runner, report | `scripts/run_batch.py`, `generate_report.py` | whole tables | run a batch, aggregate | partly: the runner |
| Persona and e2e harnesses | `scripts/run_live_persona_harness.py`, `run_e2e_simulation.py` | a session per case, the report | play a persona, report | partly: the persona harness |
| Dashboard, explorer, Next.js | `core/routers/dashboard.py`, `dashboard/` | none | read-only | not modelled |
| Wiring, logging, debug scripts | `core/config.py`, `main.py`, `db.py`, `scripts/*.py` | none | | not modelled |

**How the parts interact.** They share the database and nothing else. Each
request, background task and scheduler check opens its own SQLAlchemy session,
loads the case, awaits the LLM or the WhatsApp API one or more times, and
commits. No row is locked and no version is compared. The session factory sets
`expire_on_commit=False`, and the identity map keeps one copy of the row per
session, so a session goes on deciding from the status it read first. An event
that names only a customer is matched to the newest case of that customer
(`ORDER BY created_at DESC LIMIT 1`). The pipeline runs as an in-memory
background task of the webhook request that created the case.

**What is hard.** Sessions overlapping across awaits; two of them closing one
case; the scheduler's list of ids going stale while it works through it; a
message going out before the commit that records it, which may then fail; a
UNIQUE or CHECK refusing a row and taking the whole transaction along;
at-least-once webhooks racing each other; a crash with tasks in memory only.
`PROJECT.json` lists these hazards line by line.

**What makes each part correct.**

- *Tables*: at most one Outcome per case, never changed (`LedgerSpec`); a closed
  status is backed by the Outcome of that name (`ClosedMatchesOutcome`).
- *Reply handler*: a settled case is left alone (`SettledMovesOnlyStale`,
  `LifecycleSpec`); every recorded contact was sent (`NoUnsentContact`), what was
  sent is on record but for what faults have taken (`MessagesOnRecord`); a promise
  and an escalation are answered (`TurnsAnswered`).
- *Stopping rules*: the promise cap is enforced (`PromiseCapPending`), the count of
  the retry cap lags by a bounded number of messages (`MessagesOnRecord`), opted-out
  and disputed cases are not written to (`OptOutRespected`, `DisputeLockout`).
- *Capture handler*: a payment is recorded (`CaptureRecorded`) and the record
  stands (`RecoveredStays`).
- *Ingestion*: one case and one pipeline per event, nothing acknowledged is
  lost, everything is acknowledged in the end.
- *Scheduler*: it reminds a silent case each time it goes stale, whatever fails
  (`QuietCasesReminded`), and no case twice within the stale time
  (`RemindersSpaced`); free text is for an open window (`FreeTextInWindow`).
- *Diagnosis and LLM client*: the attempts only count up (`BatchAdvances`), so
  the retries come to an end with an answer or an exception (`BatchEnds`); one
  bad answer costs one case (`TruncationIsParseFailure`).
- *Batch runner*: every case it leaves behind is settled and counted by its rows
  (`CasesSettle`, `TallyMatchesRows`), every message on record
  (`MessagesRecorded`), the lifecycle of the live handlers kept
  (`BatchLifecycle`), the cap of the rules it calls never reached by its own
  rounds (`CapUnreached`).
- *Sandbox and harness*: no turn after the conversation closed the case, unless
  the pipeline has overwritten its status (`NoTurnTooMany`), an honest report (`ReportBacked`), no step back whatever
  the service does (`DriverAdvances`), an end the dashboard sees (`RunsEnd`).

## 2. Plan

1. **CaseLedger**, **CaseSessions** (done): what the tables promise, and the
   handlers over them. `CaseSessions` implements `CaseLedger`.
2. **Ingestion** (done): the front half of the failure webhook, of which
   `CaseSessions` has the one-step summary `FailureArrives`.
3. **Followup** (done): the scheduler against a clock, and liveness: a case gone
   stale is reminded.
4. **Analysis** (done): the LLM client's retry loop, the parse attempts of its
   two callers and the two tiers of the diagnosis.
5. **Batch** (done): the batch runner over `Analysis`, killed anywhere, on either
   schema. It implements `CaseLedger`.
6. **Simulation** (done): the sandbox's loop and the persona harness against the
   service of a case. It implements `CaseLedger`.
7. **Proofs** (done): every invariant, action property and refinement a passing
   run checks is a theorem. Liveness is not: sections 5 and 6.
8. What could still be modelled: the sandbox's limiter and session table, and a
   webhook call that carries several messages.

Each state-machine module takes its limits as CONSTANTS with a named
assumption, has one action per step between two awaits, keeps its invariant as
named conjuncts, and declares no RECURSIVE operator.

## 3. Modules

### CaseLedger

The abstract contract of `cases.status` and `outcomes`, without sessions. A
case opens; it closes together with its Outcome row, once; it drifts between
the waiting statuses. `LedgerSpec` lets even a closed case drift back to
`promise_pending` or `payment_method_required`, because that is all that
survives overlapping sessions. `LifecycleSpec` does not let a locked case drift.
`disputed` is not locked in either: the reply handler does not treat it as
terminal.

### CaseSessions

The core. `job[w]` is the session of task `w`: the await it is parked at, its
case, its copy of the status, and the classification or causes it holds. The
tables are `status`, `outcome`, `promises` (replies stored as `promise_made`)
and `contacts` (Intervention rows). `sent` counts messages handed to the
channel. `backlog` is what is left of the scheduler's list of ids.

| actions | code |
|---|---|
| `ReplyArrives` ... `ReplySendRaises` | `process_inbound_reply`, with the webhook's catch-all and final commit |
| `RulesQuiet`, `BrokenPromises`, `HandoffSent`, `HandoffRaises`, `HandoffCommits` | `check_stopping_rules(action_type="follow_up")` and the hand-off message |
| `CaptureArrives` ... `CaptureConfirmed` | `process_webhook`, success events |
| `FailureArrives`, `PipelineLoads` ... `PipelineCommits` | failure events; `process_new_webhook_case` with rules 1 to 4 |
| `ScanFinds`, `FollowupLoads` ... `FollowupCommits` | `run_followup_scan`, `check_followup(force=True)` |
| `Crash` | the process dies |

An action is the code from one await that lets another session in to the next.
How the database is modelled:

- `Flushed` is the ORM's UPDATE: nothing if the value did not change *in
  memory*, otherwise an overwrite of whatever the row holds by then.
- `CanInsert` is the UNIQUE on `outcomes.case_id` and the CHECK on
  `final_state`. A refused row raises, the transaction is rolled back, and in a
  webhook the final commit raises too: HTTP 500, nothing stored.
- An exception from the LLM or the channel inside the reply handler is
  swallowed by the webhook, which then commits whatever is pending in the
  session (`ReplyUnclassified`, `ReplySendRaises`).
- A provider's *error answer* is a dict the callers do not inspect, so it counts
  as sent; only a raised exception is not.
- `StoredStates` and `FinalStates` are the CHECK lists, which differ between the
  schema `alembic upgrade head` builds and the one `Base.metadata.create_all`
  builds (`scripts/test_conversation.py:23`, `scripts/test_automated.py:21`).
  Every theorem holds for any lists.

Left out or abstracted: one text message per webhook call; StateTransition,
AuditEvent and Diagnosis rows, which no decision reads back; message text;
silence thresholds and the 24-hour window, which are `Followup`'s (here the scan
may find any active case);
the query and the commit of rule 2 and rule 3 are one step each; the
status `escalated`, which only the batch runner writes, is in `Batch`, and the
forced calls of `check_followup` by the sandbox and the harness in `Simulation`.
Creating the case is one step here and detailed
in `Ingestion`.

### Ingestion

Deliveries of failure events to a handler that looks the key up, inserts,
commits, answers, and runs the pipeline in the same request. PostgreSQL's
UNIQUE index makes the second INSERT of a key wait for the first
(`Flush` is not enabled while another request holds the key uncommitted).
Answers get lost, Razorpay repeats, the process dies. Razorpay and its
retrying are external: the model takes from them only that an unanswered event
is delivered again, and an answered one perhaps.

### Analysis

One question to the LLM. `ask` is its state: which question, tier, parse attempt
and API attempt, whether `raw_text` has been assigned, the answer or the error.

| actions | code |
|---|---|
| `Transient`, `Exhausted`, `Refused` | `call_llm`'s loop: back off, give up, raise at once |
| `Unparsable`, `Truncated` | the two attempts of `_run_llm_diagnosis` and `analyze_reply` |
| `Answered`, `Escalates`, `Unfit`, `Conclusive` | `diagnose_case`: threshold, second tier, `float`, the flush of the row |
| `Analysed` | `analyze_reply`, its fallback to `unresolved` included |

The API is external: each class of outcome may happen to any call. A confidence
is one of four classes (below the threshold, at or above it, a number the column
cannot hold, not a number), because these are the four the code tells apart.
Delays are left out; a back-off is followed by the next attempt. The module has
no behaviour of its own and is checked inside `Batch`.

### Batch

`scripts/run_batch.py`. `db` is what is committed, `mem` the current case's row
in the open session, so that what an exception loses is the difference of the
two; `tally` is `stats["outcomes"]`, `sent` what the channel was handed.

| actions | code |
|---|---|
| `Ingests`, `Finishes` | the loop over the data set |
| `Waits`, `Diagnosed`, `DiagnosisFails`, `QuestionRaises` | `diagnose_case` and the one exception the runner catches |
| `RoundEnds`, `RulesPass`, `RuleBlocks`, `Contacts` | the head of a round: rules 3 and 4, the template or the reminder |
| `Replies`, `NoReply`, `Acknowledged`, `ClassificationRefused` | the scripted reply through `process_inbound_reply` |
| `Recovers`, `Exhausts`, `NextRound`, `ReplyEndsRounds` | the tail of a round |
| `Settles` | the safety net and the tally |
| `Killed` | the process ends |

Rules 1 and 2 never fire in the runner; `CapUnreached` is the reason, a property
and not an assumption. A rule that commits inside `_log_stopping_event` is a
`Commit` in the model, a row that is only flushed a `Flush`. `Schemas` holds the
CHECK lists of both ways to build the database. `Ledger` maps the script's
`escalated`, which no live handler writes, to the ledger's `human_escalated`.
Two things a reader of the code may not expect: the docstring
(`scripts/run_batch.py:26`) says that a case redirected by rule 3 gets no reply
simulated, but rule 3 does not block any more, so the message goes out and a
scripted reply is processed; and `human_escalated` and `retained_paused` are no
keys of the tally, so these cases are counted as `open`.

### Followup

The scheduler's loop, its scan and the forced checks against a clock. Time is a
tick, the tables are ages: `quiet[c]` of the last recorded activity, `silent[c]`
of the last recorded reply, capped at the age after which no comparison changes
any more. A row's `created_at` is the start of the transaction that inserts it,
so a reminder is, when it is committed, as old as its draft took, and a reply as
old as its webhook's session (`MaxLag`). `last` and `lost` record what the
customer saw and the tables may not.

| actions | code |
|---|---|
| `Scan`, `ScanFails`, `ScanEnds` | `run_followup_scan`, `followup_scheduler_loop` |
| `Load`, `Drafted`, `DraftRaises`, `Send`, `Record`, `CheckRaises` | `check_followup(force=True)`, text or template |
| `ReplyCommits`, `Closes`, `Crash` | the customer, the other handlers, the process |
| `Tick` | the clock |

A tick is minutes and a send has a timeout of seconds, so the clock does not
tick between a send and its commit; during a draft, which asks the LLM with all
its back-offs, it may tick as often as it likes. A closed case that a stale
session reopens (`CaseSessions`) is left out here.

### Simulation

The two programs that play a customer: `run_sandbox_simulation` and the rounds
of `run_live_persona_harness.py` for one case. `driver` says which, `at` where in
a round it is. The service is seen as its commits: `ServesReply` and
`ServesCapture` are what a webhook may have done to the rows by the time it
answers (the first commit of a reply and those of rule 5 and its hand-off are one
step here and several in `CaseSessions`), `PipelineRedirects` and `PipelineEnds`
the two commits of the background pipeline. `late` holds requests the driver gave
up on, which may still be served. `closer` is history: who closed the case,
remembered whatever becomes of its status.

| actions | code |
|---|---|
| `Starts`, `StartFails`, `NoCase` | the failure webhook; no row yet |
| `PendingReminder`, `Concludes`, `Notices`, `Quiet` | the head of a round: what the poll found |
| `Reminds`, `Nudges` | `check_followup` with no window, with the 24-hour window |
| `Answers`, `ReplyServed`, `CaptureServed`, `PostAgain` | the persona's answer and its webhooks |
| `Refreshes` | the sandbox's re-read past the identity map |
| `Raises`, `Sweeps` | an exception; the last round and the harness's final sweep |
| `PipelineRedirects`, `PipelineEnds`, `LateService` | the service behind their backs |

Of the messages the drivers tell apart only whether the newest Intervention was
seen (`unseen`) and whether the last event was an acknowledgement (`ack`). The
harness has no re-read after a turn: it may ask the persona again about a case
that its own payment closed, which is why `NoTurnTooMany` is about the sandbox.

The sandbox takes a turn too many as well, in one event: while the pipeline is
still diagnosing, a forced reminder brings the persona to pay or to opt out, rule 3
then writes `payment_method_required` over the closing status, and the re-read
finds nothing closed. It is the overwrite of the run `recovered`, seen from the
other end. `NoTurnTooMany` names it as its exception, and says that it is the only
one; a case in this state can never be closed again, its Outcome exists.

### MCCaseSessions, MCIngestion, MCBatch, MCFollowup, MCSimulation

Values of constants for TLC and the symmetry of the request tasks (which no
action tells apart, and no run that uses it checks liveness).

### The proof modules

| module | about |
|---|---|
| `CaseSessionsProofs` | types, Outcome rows and the ledger refinement of `CaseSessions` |
| `ContactsProofs` | its two counting properties: contact records and the promise cap |
| `RecordsProofs` | its other two: messages not on record, and answers owed |
| `SerialProofs` | the lifecycle with one request task |
| `IngestionProofs`, `FollowupProofs`, `BatchProofs`, `SimulationProofs` | the module of that name |

Section 6 has their arguments. `Faulty...` operators in the modules are variants of
the operator that follows them, each with one plausible bug; no specification
uses them.

## 4. Runs

| run | instance | shows |
|---|---|---|
| `race` | 2 request tasks, the scheduler, 1 case, 4 events, caps 2, 1 fault, permissive CHECKs | however sessions interleave, one Outcome per case that stands, closed status backed by it, no contact recorded unsent, no message of a case still open missing from the records and no promise or escalation unanswered beyond what the fault explains, the promise cap always pending; settled cases are moved by stale copies only; `LedgerSpec` is implemented. 207,892 states |
| `serial` | 1 request task, the scheduler, 2 cases of one customer, 5 events, 1 fault | `LifecycleSpec`: without overlapping requests a locked case is final. 331,818 states |
| `ingestion` | 2 events (1 of them ignorable), 3 requests, 1 duplicate, 2 faults | one case and one pipeline per event, nothing acknowledged is lost; every event is acknowledged; a committed case gets its pipeline unless the process dies. 8,008 states |
| `batch` | 2 cases, 3 rounds, retry cap 3, 2 API attempts, 2 parses, 7 scripts, 2 schemas | whatever the API answers or raises, and wherever the batch is killed: every finished case settled, counted by its rows and its messages recorded; `LifecycleSpec` is implemented; no step leads back and the batch ends. 132,852 states |
| `followup` | 2 cases, interval 1, stale time 1, window 3, lag 2, 1 fault | a silent case is reminded whenever it goes stale, reminders keep their distance unless a record was lost, free text leaves the window only by the time of its draft. 152,900 states |
| `simulation` | 8 rounds, a reminder every 2 quiet ones, 2 replies, 2 attempts, retry cap 3, either driver | no turn too many but after an overwrite of the pipeline, a backed report, no step back and every run ends, `LedgerSpec` is implemented, with a slow pipeline, exceptions anywhere and requests served late. 63,699 states |

Six runs check what the documentation says and find the code doing otherwise:

| run | the text | what the code does |
|---|---|---|
| `optout` | `README.md:117`: a stopped case never gets contacted again | the scan's list of ids is stale, and `check_followup(force=True)` sends although it has just read `stopped` |
| `dispute` | `README.md:120`: a dispute blocks all further automated contact | the next reply on a disputed case is classified and answered |
| `recovered` | `README.md:74`: the other trigger arriving late is a no-op | a pipeline that loaded the case before the payment writes `payment_method_required` over `recovered` |
| `capture` | `core/models/outcomes.py:23`: the amount is updated when recovered | a second Outcome row is inserted and refused: the payment of a disputed, escalated, paused or timed-out case is not recorded, and each retry gets 500 |
| `cap` | `core/services/stopping_rules.py:21`: after the cap, escalate to a human | the migrated CHECK has no `human_escalated`, so the escalation is rolled back and the case stays open |
| `truncated` | `core/llm/client.py:206`: an answer truncated inside its JSON is a parse failure and does not crash the whole batch | the handler of the first attempt logs `raw_text` before anything assigned it: `UnboundLocalError`, which the batch does not catch |

`cap` checks `PromiseCapPending`, which holds in `race`: the two differ in the
schema only.

**Bounds.** `MaxEvents` and `MaxFaults` (`MaxDuplicates` in `Ingestion`) bound
what the environment does; nothing inside a handler is bounded. Cases meet in
two places only, the newest-case match and the scheduler's list, so one case
with two overlapping request tasks and the scheduler shows the races, and two
cases of one customer (`serial`) the rest. Caps of 2 rather than 3 bring the
retry cap and the promise cap within reach of four events: a failure event, two
promises and one more to interfere. Two tasks are the fewest that overlap; the
proofs cover any number. In `Ingestion` three requests let two deliveries of an
event race while a third waits or a duplicate arrives, and two faults let an
answer be lost and the process die. In `Batch` two
cases are what it takes for one to be left in a state the next finds (tally,
session, rows); rounds and cap are the code's own 3 and 3, and two attempts are
the fewest with a first and a last. In `Followup` the orders that matter are
interval <= stale < window, as in the configuration
(15 minutes, 4 hours, 24 hours), and one fault lets any one
scan, send, commit or process fail at any moment; two cases make a queue whose
second id ages while the first is drafted. In `Simulation` eight rounds fit two
forced reminders, two replies and their payments in any order (the code has 40),
and the stall counter, the reply cap and the attempts all reach their limit.

**Deadlock** is checked in `followup`, whose loop never ends. The other systems
rightly stop: the budget of events is spent and every session finished, the
batch or the simulated run is over.

## 5. Fairness

*Ingestion*, `FairSpec`. Weak fairness of each request's step: the event loop
runs every task that is ready, and the INSERT waits only for a transaction that
ends. Strong fairness of delivery: Razorpay keeps retrying an event without a
2xx, and the server has room again and again. Crashes and lost answers are
bounded by `MaxFaults`; a server that dies on every attempt acknowledges nothing.

*Followup*. Weak fairness of `Tick`, time passes, and of `Scheduler`, its task
takes the next step it has: every await in it has a timeout. Nothing is assumed
of the LLM: every draft may fail for ever, and the reminder then comes when the
window has closed and the template needs none. `QuietCasesReminded` is
conditional on a customer who has fallen silent.

*Batch*. Weak fairness of `Work`, not of `Killed`: one coroutine with an event
loop to itself, and the client's calls have timeouts. Answers are not assumed:
`BatchEnds` rests on the attempts being bounded.

*Simulation*. Weak fairness of `Driver`: its sleeps end and its requests have
timeouts. The pipeline and requests served late may never take a step.

`CaseSessions` states none: its properties are about what a step may not do.

## 6. Proofs

Assumptions: `ConstantsOK`, `IngestionConstants`, `FollowupConstantsOK` and
`SimulationConstantsOK`, which say no more than what types the constants have
(and that there is a case to follow up); any number of tasks, cases, customers,
events and requests, any caps, any CHECK lists, any interval, stale time and
window, any number of rounds, replies, attempts and faults. `BatchConstantsOK`
says three things more, all of them of constants of the code or its fixtures: the
runner has no more rounds than the rules allow retries (both are 3), a case the
script pays without a reply has no scripted reply, and no schema refuses the four
final states the runner writes. Three theorems have hypotheses of their own:
`CapNeverSilent` a schema that admits `human_escalated` (the models' does, the
migrated one does not, and `cap` shows the property fail there),
`MessagesAlwaysOnRecord` a schema that admits every final state (elsewhere the
answer of a reply that closes a case is out and its commit refused) and finitely
many tasks, and `SerialSessionsKeepLifecycle` at most one request task (`race` has
two, and `recovered` shows a locked case move).

*CaseSessions.* `ClosedMatchesOutcome` is not inductive: `BrokenPromises` writes
nothing when its copy already says `human_escalated`, and a rule that inserts an
Outcome may have an unchanged status to flush, so one has to know what a copy
that says "closed" stands for. `Consistent` adds `CopiesBacked` (such a copy is
of a case whose Outcome is committed, hence the insert is refused),
`SessionsFit` (what a session may have read at each await: a reply session past
the guard never read a locked status) and `RowsInOrder` (a row has a status
exactly when it is opened). `InitConsistent` and `StepConsistent` prove it
inductive, the latter by one lemma per conjunct with a step per action. The
rest hangs on `StepMoves`: every step leaves the ledger alone, opens a case,
closes one together with its Outcome, or drifts one. From it follow

- `AlwaysConsistent`, `TypeCorrect`, `ClosedCasesHaveOutcome`;
- `SettledCasesMoveOnlyByStaleSessions`, the action property;
- `SessionsImplementLedger`: `Spec => LedgerSpec`.

*Contacts and the promise cap* (`ContactsProofs`). `NoUnsentContact` says nothing
about sessions, yet what it needs is exactly the sessions between a send and its
record: `ContactsOwed` says that a case has at least as many messages as it has
rows *and* sessions that still owe one (`Unfiled`, at `committing`, `handed_off`,
`filing` or `logging`). Sending makes the sender one of them, filing takes it out,
and a crash or a refused row only lowers the left side. That the set is finite is
part of the invariant, so there need not be finitely many tasks.
`PromiseCapPending` is inductive together with `Consistent`; `StepPromises` shows
that whoever counts a promise goes on to `ruling`, `StepRules` that without a fault
a session leaves `ruling` only by the rules, `RulesClose` that the rules leave a
case that reached the cap with an Outcome. From these follow `AlwaysOwed`,
`NoContactUnsent` and `CapNeverSilent`.

*Records and answers* (`RecordsProofs`). `MessagesOnRecord` is the converse of
`NoUnsentContact`: a fault may take the records of as many messages as there are
tasks, and otherwise what is sent and not filed is owed by a session. `Moved` names
the four things a session's step does to one case (it keeps, it sends, it files, or
the case is closed and it no longer counts), every action is shown to be one of them
(`ReplyRecords` and its siblings), and `MovedRecords` does the counting once. Two
steps need a reason to be of the fourth kind: a commit that is refused, whose case
has its Outcome already because the CHECK admits all of them, and the thanks for a
payment, which no record follows and which go out after the payment has closed the
case (`ThanksAfterClosing`). `TurnsAnswered` is inductive with the types: a step
that raises what is owed, a promise, an escalation or the end of a hand-off, files a
record or is a fault (`TurnPays`), and the escalation by the promise cap, which does
neither, leaves a session at `handing_off`. From these follow
`MessagesAlwaysOnRecord` and `TurnsAlwaysAnswered`.

*One request task* (`SerialProofs`). `CopiesCurrent`: the copy a reply or pipeline
session decides from is what the row holds now. It fails with two request tasks
and holds with one because the scheduler, the only task beside it, writes no
status (the call it makes is forced past the rules). With it,
`DriftsUnlocked` shows that a status write without an Outcome meets no locked
row: `SerialSessionsKeepLifecycle`, the stronger refinement.

*Ingestion.* `Consistent` adds to the properties `RequestFits` (a request about
to commit sees no row, one about to answer sees one row and no pipeline) and
`Exclusive` (one request per event is in either place). From it follow
`IngestionConsistent`, `TypeCorrect`, `OneCaseOnePipeline` and
`AcknowledgedIsStored`.

*Followup.* Both safety properties are about a decision used later than it was
made. `QueueOverdue` (a case in the list is still overdue) holds because a
reminder is sent only to a case that has left the list (`QueueAhead`) and
because, when the list was read, the recorded age was no more than the real one
(`RecordsCurrent`); for the latter the record must be as old as the message it
is of (`RecordsSent`). `TextInTime` carries the window from the load through the
draft. From it follow `FollowupConsistent`, `TypeCorrect`, `FreeTextOnTime` and
`RemindersKeepDistance`, the action property.

*Batch.* None of the properties is inductive: they speak of finished cases, and a
case is finished from the row in the open session. `Consistent` adds `CaseOpen`
(session and committed row agree in status and Outcome at every step, and differ
by at most the record of the first contact), `StepFits` (at each step of a round:
how many messages, and whether the case can still be closed), `AheadUntouched`
(later cases are as they were) and `TallyKept` (the buckets against the sets of
closed cases, also in the middle of a case). `StepOpens` goes through the actions;
`StepTouches` reduces them to five kinds (a case opens, the current one is worked
on, it ends and is counted in one of two ways, nothing moves), from which
`StepAhead`, `StepSettles`, `StepRecorded` and `StepTally` follow. From it follow

- `AlwaysConsistent`, `TypeCorrect`, `CasesAlwaysSettle`, `MessagesAlwaysRecorded`,
  `TallyAlwaysMatches`;
- `CapNeverReached`: the contacts of a round are its number, and rounds are no more
  than the cap;
- `BatchKeepsLifecycle`: `StepMoves` says what a commit may make of the open row,
  `CommitIsLedger` maps each kind to a step of the ledger;
- `BatchNeverGoesBack`: case, round, step, tier, parse and try advance in
  lexicographic order. Each is bounded (`TypeCorrect`), so there is no infinite run:
  `BatchEnds` then needs nothing but that `Work` is not forgotten.

*Simulation.* `NoTurnTooMany` is not inductive: it needs to know where the
sandbox can be when the conversation closes a case. `Consistent` adds
`OverAfterClosing` (posting the payment that belongs to the reply, re-reading, or
over), `ConversationCloses` (what it re-reads is terminal, so that the re-read
ends the run), both but for `Overwritten`, which once it holds stays (the status
cannot close a second time and the pipeline does not redirect twice), and
`LateAfterOver` (the sandbox leaves no request behind while it
runs; the harness, which posts again, may). `ReportBacked` needs `StatusBacked`
(the row the harness reads agrees with the Outcome) and that the first Outcome
stands, which `StepRows` proves for whatever the service commits. `RoundOpen` and
`ReplyLeft` carry the caps to the step that counts. From it follow

- `SimulationConsistent`, `TypeCorrect`;
- `NoTurnAfterClosing` and `ReportsAreBacked`;
- `SimulationImplementsLedger`: each step opens the case, closes it, drifts it or
  stutters in the ledger of the one case;
- `DriverNeverGoesBack`: round, step and attempt advance with every step of the
  driver, and no step of the service touches them.

Only model-checked: `EventuallyAcked`, `PipelineFollows`, `QuietCasesReminded`,
`BatchEnds` and `RunsEnd`, which are liveness under fairness and out of the
prover's reach; for the last two the safety half is proved. The properties of the
six runs that expect a violation do not hold and have no theorem, except that
`CapNeverSilent` states `PromiseCapPending` for the schemas that admit the
escalation. Nothing is proved by induction over data and no operator is recursive.

## 7. Not modelled

- The dashboard router and the Next.js application only read. `generate_report.py`
  aggregates: of its counts, the ones `TallyMatchesRows` relates to rows are
  modelled where the batch makes them.
- Configuration, logging and application start are wiring; the debug scripts call
  handlers that are modelled.
- The sandbox's access key, its limiter of runs per hour and the trimming of its
  session table concern many sessions, `Simulation` follows one. The trimming
  starts at a thousand sessions and the limiter lets in twenty an hour.
- `run_e2e_simulation.py` posts the webhooks of `Simulation` in one fixed order.
- `seed_synthetic.py` is a constant of `Batch`: the pairs of scripted reply and
  outcome path it can produce.
- Signature checks and payload parsing are pure functions of one request. A
  WhatsApp webhook call is taken to carry one message.
- Delays are abstracted to their end, the text of messages and prompts to what
  is done with it.
