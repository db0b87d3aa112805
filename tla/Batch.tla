------------------------------- MODULE Batch -------------------------------
(***************************************************************************)
(* scripts/run_batch.py: one process takes the cases one after the other,  *)
(* each in a session of its own, through ingestion, diagnosis, up to       *)
(* Rounds rounds of contact and reply, a simulated payment and a safety    *)
(* net, and counts where they ended.                                       *)
(*                                                                         *)
(* mem is the row of the current case as its session has flushed it and    *)
(* db what is committed: an exception nobody catches, or a kill, ends the  *)
(* batch and loses the difference.  The question the process waits for is  *)
(* Analysis's.                                                             *)
(***************************************************************************)
EXTENDS Naturals, FiniteSets, Analysis

CONSTANTS
    NumCases,           \* cases of the data set
    Rounds,             \* range(3) of the runner
    MaxRetries,         \* stopping_rules.MAX_RETRIES
    Scripts,            \* scripted reply and outcome_path of a case
    Schemas             \* CHECK lists: of the migrations, of the models

Cases == 1..NumCases

VARIABLES
    db,         \* committed row of each case
    mem,        \* row of the current case in the open session
    at,         \* where the runner is
    current,    \* index of the current case
    round,      \* round_num
    script,     \* the current case's script
    causes,     \* causes of its latest diagnosis
    replied,    \* reply_text is not None
    sent,       \* messages handed to the channel, by case
    tally,      \* stats["outcomes"]
    schema      \* CHECK lists of this database

vars == <<db, mem, at, current, round, script, causes, replied, sent, tally,
          schema, ask>>

Paths == {"", "resolved_via_reply", "resolved_via_webhook", "resolved_no_reply",
          "stalled"}
Causes == {"needs_info", "dispute"}

CaseStatuses == {"absent", "open", "promise_pending", "payment_method_required",
                 "escalated", "recovered", "disputed", "stopped",
                 "human_escalated", "retained_paused"}

\* The keys of stats["outcomes"].
Buckets == {"recovered", "promise_pending", "payment_method_required",
            "escalated", "disputed", "stopped", "open"}

Row == [status : CaseStatuses, outcome : CaseStatuses \cup {"none"},
        contacts : Nat, tier : 0..2]

Steps == {"next", "diagnosing", "round", "contacting", "replying", "classifying",
          "paying", "settling", "done", "crashed"}

\* A case the script pays behind the agent's back has no scripted reply (the
\* fixtures hold no other).
ASSUME BatchConstantsOK ==
    /\ NumCases \in Nat \ {0}
    /\ Rounds \in Nat \ {0}
    /\ MaxRetries \in Nat
    /\ MaxRetries >= Rounds
    /\ Scripts # {}
    /\ Scripts \subseteq [reply : BOOLEAN, path : Paths]
    /\ Schemas \subseteq [states : SUBSET ReplyStates, finals : SUBSET CaseStatuses]
    /\ \A s \in Scripts :
         s.path \in {"resolved_via_webhook", "resolved_no_reply"} => ~s.reply
    /\ \A s \in Schemas : {"recovered", "disputed", "stopped", "escalated"} \subseteq s.finals

TypeOK ==
    /\ db \in [Cases -> Row]
    /\ mem \in Row
    /\ at \in Steps
    /\ current \in 0..NumCases
    /\ round \in 0..Rounds
    /\ script \in Scripts
    /\ causes \in SUBSET Causes
    /\ replied \in BOOLEAN
    /\ sent \in [Cases -> Nat]
    /\ tally \in [Buckets -> Nat]
    /\ schema \in Schemas
    /\ AskTypeOK

-----------------------------------------------------------------------------
\* Helpers.

Absent == [status |-> "absent", outcome |-> "none", contacts |-> 0, tier |-> 0]

\* session.commit() of row r of the current case.
Commit(r) == mem' = r /\ db' = [db EXCEPT ![current] = r]
Flush(r) == mem' = r /\ UNCHANGED db

\* A final status and its Outcome row.
Closing(r, f) == [r EXCEPT !.status = f, !.outcome = f]

\* Faulty variant: the runner records what draft_and_send_intervention recorded.
FaultyContacted(r) == [r EXCEPT !.contacts = @ + 2]

Contacted(r) == [r EXCEPT !.contacts = @ + 1]
Sends == sent' = [sent EXCEPT ![current] = @ + 1]

\* stats["outcomes"], for a status that is no key of it counted as open.
Bucket(s) == IF s \in Buckets THEN s ELSE "open"
Count(s) == tally' = [tally EXCEPT ![Bucket(s)] = @ + 1]

Goto(step) == at' = step

\* Uncaught: the session is rolled back and the process ends.
Dies == Goto("crashed") /\ mem' = Absent

-----------------------------------------------------------------------------
\* Ingestion and diagnosis.

Ingests ==
    /\ at = "next"
    /\ current < NumCases
    /\ current' = current + 1
    /\ mem' = [Absent EXCEPT !.status = "open"]
    /\ db' = [db EXCEPT ![current + 1] = mem']
    /\ script' \in Scripts
    /\ round' = 0
    /\ causes' = {}
    /\ replied' = FALSE
    /\ ask' = Asking("diagnosis", 1)
    /\ Goto("diagnosing")
    /\ UNCHANGED <<sent, tally, schema>>

Finishes ==
    /\ at = "next"
    /\ current = NumCases
    /\ Goto("done")
    /\ UNCHANGED <<db, mem, current, round, script, causes, replied, sent, tally,
                   schema, ask>>

\* The API, the retry loop and diagnose_case at work on the question.
Waits ==
    /\ at \in {"diagnosing", "classifying"}
    /\ AskNext
    /\ UNCHANGED <<db, mem, at, current, round, script, causes, replied, sent,
                   tally, schema>>

\* The diagnoses row is flushed, not committed.
Diagnosed(cs) ==
    /\ at = "diagnosing"
    /\ Conclusive
    /\ causes' = cs
    /\ Flush([mem EXCEPT !.tier = ask.tier])
    /\ ask' = NoQuestion
    /\ Goto("round")
    /\ UNCHANGED <<current, round, script, replied, sent, tally, schema>>

\* DiagnosisFailedError, the one exception the runner catches: the case is left
\* open for good.
DiagnosisFails ==
    /\ at = "diagnosing"
    /\ ask.at = "unparsed"
    /\ Commit(mem)
    /\ Count("open")
    /\ ask' = NoQuestion
    /\ Goto("next")
    /\ UNCHANGED <<current, round, script, causes, replied, sent, schema>>

\* Any other exception of a question ends the batch.
QuestionRaises ==
    /\ at \in {"diagnosing", "classifying"}
    /\ ask.at = "raised"
    /\ Dies
    /\ UNCHANGED <<db, current, round, script, causes, replied, sent, tally,
                   schema, ask>>

-----------------------------------------------------------------------------
\* A round: the rules, the message, the reply, the payment.

Ended == {"escalated", "stopped", "recovered", "disputed", "payment_method_required"}

\* range(3) is exhausted, or the case has reached a status the loop stops at.
RoundEnds ==
    /\ at = "round"
    /\ round = Rounds \/ mem.status \in Ended
    /\ Goto("settling")
    /\ UNCHANGED <<db, mem, current, round, script, causes, replied, sent, tally,
                   schema, ask>>

\* check_stopping_rules(action_type="retry"), rules 3 and 4; rules 1 and 2 have
\* nothing to stop here (CapUnreached).  Rule 3 commits and lets the contact go
\* on, rule 4 commits and blocks it.
RulesPass ==
    LET new == IF "needs_info" \in causes THEN "payment_method_required" ELSE mem.status
        row == [mem EXCEPT !.status = new]
    IN  /\ at = "round"
        /\ round < Rounds
        /\ mem.status \notin Ended
        /\ IF "needs_info" \in causes THEN Commit(row) ELSE Flush(row)
        /\ Goto("contacting")
        /\ UNCHANGED <<current, round, script, causes, replied, sent, tally,
                       schema, ask>>

RuleBlocks ==
    /\ at = "contacting"
    /\ "dispute" \in causes
    /\ Commit(Closing(mem, "disputed"))
    /\ Goto("settling")
    /\ UNCHANGED <<current, round, script, causes, replied, sent, tally, schema,
                   ask>>

\* Faulty variant: the reminders of the later rounds are not committed either.
FaultyContacts ==
    /\ at = "contacting"
    /\ "dispute" \notin causes
    /\ Sends
    /\ Flush(Contacted(mem))
    /\ Goto("replying")
    /\ UNCHANGED <<current, round, script, causes, replied, tally, schema, ask>>

\* Round 0: draft_and_send_intervention flushes its row.  Later rounds send the
\* reminder and commit theirs.
Contacts ==
    /\ at = "contacting"
    /\ "dispute" \notin causes
    /\ Sends
    /\ IF round = 0 THEN Flush(Contacted(mem)) ELSE Commit(Contacted(mem))
    /\ Goto("replying")
    /\ UNCHANGED <<current, round, script, causes, replied, tally, schema, ask>>

\* A scripted reply comes on round 0 only: process_inbound_reply asks the LLM.
Replies ==
    /\ at = "replying"
    /\ round = 0
    /\ script.reply
    /\ replied' = TRUE
    /\ ask' = Asking("reply", 1)
    /\ Goto("classifying")
    /\ UNCHANGED <<db, mem, current, round, script, causes, sent, tally, schema>>

NoReply ==
    /\ at = "replying"
    /\ ~(round = 0 /\ script.reply)
    /\ replied' = FALSE
    /\ Goto("paying")
    /\ UNCHANGED <<db, mem, current, round, script, causes, sent, tally, schema,
                   ask>>

\* Faulty variant: a state the prompt does not list becomes the status.
FaultyReplyTarget(s) == IF s = "promise_made" THEN "promise_pending" ELSE s

ReplyTarget(s) ==
    CASE s = "promise_made"                     -> "promise_pending"
      [] s = "needs_new_payment_method"         -> "payment_method_required"
      [] s \in {"disputed", "human_escalation"} -> "human_escalated"
      [] s = "paused"                           -> "retained_paused"
      [] s = "opt_out"                          -> "stopped"
      [] OTHER                                  -> mem.status

Handed == {"human_escalated", "stopped", "retained_paused"}

\* The classification passes its CHECK, the answer goes out, and status, Outcome
\* row and Intervention row are one commit.
Acknowledged(s) ==
    LET new == ReplyTarget(s)
    IN  /\ at = "classifying"
        /\ Analysed(s)
        /\ s \in schema.states
        /\ Sends
        /\ IF new \in Handed \ schema.finals
           THEN Dies /\ UNCHANGED db
           ELSE /\ Commit(Contacted(IF new \in Handed THEN Closing(mem, new)
                                                      ELSE [mem EXCEPT !.status = new]))
                /\ Goto("paying")
        /\ ask' = NoQuestion
        /\ UNCHANGED <<current, round, script, causes, replied, tally, schema>>

\* A state the CHECK does not list: the flush fails, the batch with it.
ClassificationRefused(s) ==
    /\ at = "classifying"
    /\ Analysed(s)
    /\ s \notin schema.states
    /\ Dies
    /\ UNCHANGED <<db, current, round, script, causes, replied, sent, tally,
                   schema, ask>>

\* should_recover.
Pays ==
    \/ mem.status = "promise_pending" /\ script.path = "resolved_via_reply"
    \/ script.path \in {"resolved_via_webhook", "resolved_no_reply"}

Recovers ==
    /\ at = "paying"
    /\ Pays
    /\ Commit(Closing(mem, "recovered"))
    /\ Goto("settling")
    /\ UNCHANGED <<current, round, script, causes, replied, sent, tally, schema,
                   ask>>

\* Faulty variant: the Outcome row of the escalation is forgotten.
FaultyExhausts ==
    /\ at = "paying"
    /\ ~Pays
    /\ ~replied
    /\ round = Rounds - 1
    /\ Commit([mem EXCEPT !.status = "escalated"])
    /\ round' = round + 1
    /\ Goto("round")
    /\ UNCHANGED <<current, script, causes, replied, sent, tally, schema, ask>>

\* The last round went by with no reply.
Exhausts ==
    /\ at = "paying"
    /\ ~Pays
    /\ ~replied
    /\ round = Rounds - 1
    /\ Commit(Closing(mem, "escalated"))
    /\ round' = round + 1
    /\ Goto("round")
    /\ UNCHANGED <<current, script, causes, replied, sent, tally, schema, ask>>

NextRound ==
    /\ at = "paying"
    /\ ~Pays
    /\ ~replied
    /\ round < Rounds - 1
    /\ round' = round + 1
    /\ Goto("round")
    /\ UNCHANGED <<db, mem, current, script, causes, replied, sent, tally, schema,
                   ask>>

\* A reply ends the rounds.
ReplyEndsRounds ==
    /\ at = "paying"
    /\ ~Pays
    /\ replied
    /\ Goto("settling")
    /\ UNCHANGED <<db, mem, current, round, script, causes, replied, sent, tally,
                   schema, ask>>

\* Faulty variant: a promise nobody kept is not caught by the safety net.
FaultySettled(r) == IF r.status = "open" THEN Closing(r, "escalated") ELSE r

\* The safety net: what is still open, or a promise, goes to a person.
Settled(r) ==
    IF r.status \in {"open", "promise_pending"} THEN Closing(r, "escalated") ELSE r

\* Faulty variant: the case is counted by the status it had before the net.
FaultySettles ==
    /\ at = "settling"
    /\ Commit(Settled(mem))
    /\ Count(mem.status)
    /\ Goto("next")
    /\ UNCHANGED <<current, round, script, causes, replied, sent, schema, ask>>

Settles ==
    /\ at = "settling"
    /\ Commit(Settled(mem))
    /\ Count(Settled(mem).status)
    /\ Goto("next")
    /\ UNCHANGED <<current, round, script, causes, replied, sent, schema, ask>>

\* The operator interrupts the batch, or its process dies.
Killed ==
    /\ at \notin {"done", "crashed"}
    /\ Dies
    /\ UNCHANGED <<db, current, round, script, causes, replied, sent, tally,
                   schema, ask>>

-----------------------------------------------------------------------------
Init ==
    /\ db = [c \in Cases |-> Absent]
    /\ mem = Absent
    /\ at = "next"
    /\ current = 0
    /\ round = 0
    /\ script = CHOOSE s \in Scripts : TRUE
    /\ causes = {}
    /\ replied = FALSE
    /\ sent = [c \in Cases |-> 0]
    /\ tally = [b \in Buckets |-> 0]
    /\ schema \in Schemas
    /\ ask = NoQuestion

Work ==
    \/ Ingests \/ Finishes
    \/ Waits \/ (\E cs \in SUBSET Causes : Diagnosed(cs)) \/ DiagnosisFails \/ QuestionRaises
    \/ RoundEnds \/ RulesPass \/ RuleBlocks \/ Contacts
    \/ Replies \/ NoReply
    \/ (\E s \in ReplyStates : Acknowledged(s) \/ ClassificationRefused(s))
    \/ Recovers \/ Exhausts \/ NextRound \/ ReplyEndsRounds \/ Settles

Next == Work \/ Killed

\* One coroutine on an event loop of its own: it takes its next step whenever it
\* has one, and every API call ends (the client has a timeout).
Spec == Init /\ [][Next]_vars /\ WF_vars(Work)

-----------------------------------------------------------------------------
\* Properties.

\* The batch runner keeps the lifecycle the live handlers promise: a case opens
\* once, a closing status and its one Outcome row are one commit, and a closed
\* case does not move again.  "escalated", which only this script writes, is the
\* ledger's handing over to a person.
Name(s) == IF s = "escalated" THEN "human_escalated" ELSE s
Ledger == INSTANCE CaseLedger WITH
            status <- [c \in Cases |-> Name(db[c].status)],
            outcome <- [c \in Cases |-> Name(db[c].outcome)]
BatchLifecycle == Ledger!LifecycleSpec

\* Between two cases nothing is half done: a case that was diagnosed is closed
\* with the Outcome row of its status or waits for a payment method, a case that
\* was not is open and was never contacted.
DoneCases == IF at \in {"next", "done"} THEN 1..current ELSE 1..(current - 1)

CasesSettle ==
    \A c \in DoneCases :
        IF db[c].tier = 0
        THEN db[c].status = "open" /\ db[c].outcome = "none" /\ sent[c] = 0
        ELSE \/ db[c].status = "payment_method_required" /\ db[c].outcome = "none"
             \/ db[c].status \notin {"open", "promise_pending"} /\ db[c].outcome = db[c].status

\* The report's outcome table is one of cases: recovered is the number of Outcome
\* rows that say so, escalated likewise, and every case is in one bucket.
TallyMatchesRows ==
    at \in {"next", "done"} =>
        /\ \A b \in {"recovered", "escalated", "disputed", "stopped"} :
             tally[b] = Cardinality({c \in Cases : db[c].outcome = b})
        /\ tally["promise_pending"] = 0
        /\ tally["recovered"] + tally["payment_method_required"] + tally["escalated"]
           + tally["disputed"] + tally["stopped"] + tally["open"] = current

\* Every message of a case the batch got through is on record, and a batch that
\* stops in the middle has lost the record of at most the first contact and one
\* answer.
MessagesRecorded ==
    /\ \A c \in DoneCases : db[c].contacts = sent[c]
    /\ \A c \in Cases : db[c].contacts <= sent[c] /\ sent[c] <= db[c].contacts + 2

\* The runner's rounds stay below the cold-outreach cap of the rules it calls, so
\* that a silent case ends as escalated by the runner and not as timed out.
CapUnreached == at = "round" /\ round < Rounds => mem.contacts < MaxRetries

\* The runner never comes back to where it was, whatever the API does: the next
\* case, the next round, the next step of a round, or the question advances.  All
\* of these are bounded, so this is why the batch ends.
StepRank == [diagnosing |-> 1, round |-> 2, contacting |-> 3, replying |-> 4,
             classifying |-> 5, paying |-> 6, settling |-> 7, next |-> 8,
             done |-> 9, crashed |-> 9]

Advances ==
    \/ current < current'
    \/ current = current' /\ round < round'
    \/ current = current' /\ round = round' /\ StepRank[at] < StepRank[at']
    \/ current = current' /\ round = round' /\ at = at' /\ AskAdvances

BatchAdvances == [][Advances]_vars

\* Whatever the API does, the batch comes to its end or to an exception.
BatchEnds == <>(at \in {"done", "crashed"})

\* An answer truncated inside its JSON is a parse failure of one case, "instead
\* of crashing the whole batch" (client.py, at the BadRequestError handler).
TruncationIsParseFailure ==
    at = "crashed" => ~(ask.at = "raised" /\ ask.error = "truncated")
=============================================================================
