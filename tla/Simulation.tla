----------------------------- MODULE Simulation -----------------------------
(***************************************************************************)
(* The two drivers that play a customer against the running service: the   *)
(* sandbox's run_sandbox_simulation and the rounds of the live persona     *)
(* harness for one of its cases.  Both poll the case's row and its newest  *)
(* message, ask a persona LLM and post webhooks, while the background      *)
(* pipeline of the case is still at work and requests the driver gave up   *)
(* on may still be served.                                                 *)
(*                                                                         *)
(* The service is seen as its commits; how its sessions overlap is the     *)
(* subject of CaseSessions.  The queries at the start of a round are one   *)
(* step.  Of the case's messages the drivers tell apart only whether the   *)
(* newest one is in seen_interventions and which audit event came last.    *)
(***************************************************************************)
EXTENDS Naturals

CONSTANTS
    MaxRounds,      \* range(40) of the loops
    StalledRounds,  \* rounds without news before the sandbox forces a reminder
    MaxReplies,     \* max_replies of the harness
    MaxPosts,       \* attempts of the harness at a webhook
    MaxRetries      \* stopping_rules.MAX_RETRIES

ASSUME SimulationConstantsOK ==
    /\ MaxRounds \in Nat
    /\ StalledRounds \in Nat \ {0}
    /\ MaxReplies \in Nat
    /\ MaxPosts \in Nat \ {0}
    /\ MaxRetries \in Nat \ {0}

VARIABLES
    \* The service: rows of the case, its pipeline, requests without a reader.
    status, outcome, contacts, replied, pipeline, late,
    \* History: who closed the case, remembered whatever becomes of its status.
    closer,
    \* What the drivers can see of the messages.
    unseen,     \* the newest Intervention is not in seen_interventions
    ack,        \* the latest message event is followup_sent
    \* The driver.
    driver,     \* "sandbox" or "harness"
    at, round, stalled, pending, pay, post, replies,
    verdict,    \* the harness's outcome of the case
    done        \* the session's flag, which the dashboard polls

service == <<status, outcome, contacts, replied, pipeline, late, closer>>
messages == <<unseen, ack>>
counters == <<stalled, pending, pay, post, replies>>
vars == <<service, messages, driver, at, round, counters, verdict, done>>

\* Every closing status but "disputed": both drivers list these five.
Terminal == {"recovered", "retained_paused", "stopped", "human_escalated", "timeout"}
Statuses == {"absent", "open", "promise_pending", "payment_method_required",
             "disputed"} \cup Terminal

Steps == {"starting", "polling", "reminding", "nudging", "asking", "replying",
          "paying", "refreshing", "over"}

\* The background task of the case: not there, with a copy of the status that says
\* open, or past the commit of rule 3.
PipelineStates == {"none", "deciding", "redirected"}

TypeOK ==
    /\ status \in Statuses
    /\ outcome \in Terminal \cup {"disputed", "none"}
    /\ contacts \in 0..MaxRetries
    /\ replied \in BOOLEAN /\ unseen \in BOOLEAN /\ ack \in BOOLEAN
    /\ pipeline \in PipelineStates
    /\ late \subseteq {"reply", "capture"}
    /\ closer \in {"nobody", "conversation", "pipeline"}
    /\ driver \in {"sandbox", "harness"}
    /\ at \in Steps
    /\ round \in 0..MaxRounds
    /\ stalled \in 0..(StalledRounds - 1)
    /\ pending \in BOOLEAN /\ pay \in BOOLEAN
    /\ post \in 1..MaxPosts
    /\ replies \in 0..MaxReplies
    /\ verdict \in Terminal \cup {"active"}
    /\ done \in BOOLEAN

-----------------------------------------------------------------------------
\* The service.

\* Faulty variant: outcomes.case_id without its UNIQUE.
FaultyCloses(f, by) ==
    /\ status' = f
    /\ outcome' = f
    /\ closer' = by

\* A closing status and its Outcome row, which must be the case's first.
Closes(f, by) ==
    /\ outcome = "none"
    /\ status' = f
    /\ outcome' = f
    /\ closer' = by

\* A status write with no Outcome row.
Moves(s) == status' = s /\ UNCHANGED <<outcome, closer>>

Stays == UNCHANGED <<status, outcome, closer>>

\* An Intervention row and its audit event are committed.
Messages(reactive) ==
    /\ contacts' = IF contacts < MaxRetries THEN contacts + 1 ELSE contacts
    /\ unseen' = TRUE
    /\ ack' = reactive

Silence == UNCHANGED <<contacts, unseen, ack>>

\* The WhatsApp webhook: a locked case stores the reply; otherwise it is
\* classified, acknowledged and applied, or stored unclassified when the LLM gave
\* up, or rolled back when a flush or the commit failed.
ServesReply ==
    \/ /\ status \in Terminal
       /\ replied' = TRUE
       /\ Stays /\ Silence
    \/ /\ status \notin Terminal
       /\ replied' = TRUE
       /\ \/ \E s \in {status, "promise_pending", "payment_method_required"} : Moves(s)
          \/ \E f \in {"human_escalated", "retained_paused", "stopped"} :
               Closes(f, "conversation")
       /\ Messages(TRUE)
    \/ /\ status \notin Terminal
       /\ replied' \in {replied, TRUE}
       /\ Stays /\ Silence

\* The Razorpay webhook: recovered, or ignored, refused by the UNIQUE or rolled
\* back; the confirmation leaves no Intervention row.
ServesCapture ==
    /\ \/ status \notin {"recovered", "stopped"} /\ Closes("recovered", "conversation")
       \/ Stays
    /\ Silence
    /\ UNCHANGED replied

\* Rule 3 commits its redirection before the message goes out, and overwrites
\* whatever the status is by now.
PipelineRedirects ==
    /\ pipeline = "deciding"
    /\ pipeline' = "redirected"
    /\ Moves("payment_method_required")
    /\ Silence
    /\ UNCHANGED <<replied, late, driver, at, round, counters, verdict, done>>

\* The background pipeline comes to its end: a first contact, whose message carries
\* the start of its transaction and may not be the newest; rule 4; rule 2, if
\* reminders were quicker; or an exception, or an Outcome that is refused.
PipelineEnds ==
    /\ pipeline # "none"
    /\ pipeline' = "none"
    /\ \/ /\ Stays
          /\ contacts' = IF contacts < MaxRetries THEN contacts + 1 ELSE contacts
          /\ unseen' \in {TRUE} \cup (IF contacts = 0 THEN {} ELSE {unseen})
          /\ ack' = FALSE
       \/ Closes("disputed", "pipeline") /\ Silence
       \/ /\ pipeline = "deciding" /\ contacts >= MaxRetries
          /\ Closes("timeout", "pipeline") /\ Silence
       \/ Stays /\ Silence
    /\ UNCHANGED <<replied, late, driver, at, round, counters, verdict, done>>

\* A request whose client stopped waiting is served after all.
LateService ==
    /\ \/ "reply" \in late /\ ServesReply /\ late' = late \ {"reply"}
       \/ "capture" \in late /\ ServesCapture /\ late' = late \ {"capture"}
    /\ UNCHANGED <<pipeline, driver, at, round, counters, verdict, done>>

-----------------------------------------------------------------------------
\* The drivers.

Goto(step) == at' = step

\* Faulty variant: an exception leaves the session running for the dashboard.
FaultyOver == Goto("over") /\ UNCHANGED done

Over == Goto("over") /\ done' = TRUE

NextRound == Goto("polling") /\ round' = round + 1 /\ UNCHANGED done
Within(step) == Goto(step) /\ UNCHANGED <<round, done>>

\* The failure webhook: the case row is committed before it answers, or it failed
\* and there will never be one.
Starts ==
    /\ at = "starting"
    /\ \/ /\ status' = "open"
          /\ pipeline' = "deciding"
       \/ UNCHANGED <<status, pipeline>>
    /\ Within("polling")
    /\ UNCHANGED <<outcome, contacts, replied, late, closer, messages, driver,
                   counters, verdict>>

StartFails ==
    /\ at = "starting"
    /\ Over
    /\ UNCHANGED <<service, messages, driver, round, counters, verdict>>

Polls == at = "polling" /\ round < MaxRounds

\* No row, no round.
NoCase ==
    /\ Polls
    /\ status = "absent"
    /\ NextRound
    /\ UNCHANGED <<service, messages, driver, counters, verdict>>

\* The last round is over: the harness reads the row once more, and anything that
\* is not terminal counts as a timeout.
Sweeps ==
    /\ at = "polling"
    /\ round = MaxRounds
    /\ verdict' = IF driver = "sandbox" \/ verdict # "active" THEN verdict
                  ELSE IF status \in Terminal THEN status ELSE "timeout"
    /\ Over
    /\ UNCHANGED <<service, messages, driver, round, counters>>

\* The sandbox acts on its promise to remind, if the case still waits.
PendingReminder ==
    /\ Polls
    /\ pending
    /\ status # "absent"
    /\ pending' = FALSE
    /\ IF status = "promise_pending" THEN Within("reminding") ELSE NextRound
    /\ UNCHANGED <<service, messages, driver, stalled, pay, post, replies, verdict>>

\* Terminal, and nothing left that the persona has not seen.
Concludes ==
    /\ Polls
    /\ ~pending
    /\ status \in Terminal
    /\ ~unseen
    /\ verdict' = IF driver = "harness" THEN status ELSE verdict
    /\ Over
    /\ UNCHANGED <<service, messages, driver, round, counters>>

\* Faulty variant: the cap is tested after one reply more.
FaultyMuted == replies > MaxReplies

Muted == replies >= MaxReplies

\* A new message is taken note of before anything is done about it: the sandbox
\* answers no acknowledgement of a promise, the harness stops at its last reply.
Notices ==
    /\ Polls
    /\ ~pending
    /\ status # "absent"
    /\ unseen
    /\ unseen' = FALSE
    /\ stalled' = 0
    /\ IF driver = "sandbox"
       THEN /\ pending' = (ack /\ status = "promise_pending")
            /\ IF pending' THEN NextRound ELSE Within("asking")
       ELSE /\ pending' = FALSE
            /\ IF Muted
               THEN round' = MaxRounds /\ Goto("polling") /\ UNCHANGED done
               ELSE Within("asking")
    /\ UNCHANGED <<service, ack, driver, pay, post, replies, verdict>>

\* Nothing new: every StalledRounds-th time the sandbox, at every other throw of
\* a coin the harness, forces a follow-up.
Quiet ==
    /\ Polls
    /\ ~pending
    /\ status \notin Terminal \cup {"absent"}
    /\ ~unseen
    /\ IF driver = "sandbox"
       THEN IF stalled + 1 >= StalledRounds
            THEN stalled' = 0 /\ Within("nudging")
            ELSE stalled' = stalled + 1 /\ NextRound
       ELSE /\ UNCHANGED stalled
            /\ NextRound \/ Within("nudging")
    /\ UNCHANGED <<service, messages, driver, pending, pay, post, replies, verdict>>

\* check_followup with a window of next to nothing: always the template.
Reminds ==
    /\ at = "reminding"
    /\ Messages(FALSE)
    /\ NextRound
    /\ UNCHANGED <<status, outcome, replied, pipeline, late, closer, driver,
                   counters, verdict>>

\* check_followup with the 24-hour window: free text to a customer who replied.
Nudges ==
    /\ at = "nudging"
    /\ Messages(replied)
    /\ NextRound
    /\ UNCHANGED <<status, outcome, replied, pipeline, late, closer, driver,
                   counters, verdict>>

\* get_persona_reply: a text or none, a payment or not.  It raises nothing; an
\* error of its API is silence.
PersonaReplies == [text : BOOLEAN, pays : BOOLEAN]

\* The persona's answer.  The sandbox posts the text and then the payment, the
\* harness a payment without its text; silence makes it force a follow-up, or not.
Answers(reply) ==
    /\ at = "asking"
    /\ post' = 1
    /\ pay' = (reply.pays /\ driver = "sandbox")
    /\ \/ /\ driver = "sandbox"
          /\ Within(IF reply.text THEN "replying"
                    ELSE IF reply.pays THEN "paying" ELSE "refreshing")
          /\ UNCHANGED replies
       \/ /\ driver = "harness" /\ reply.pays
          /\ Within("paying")
          /\ UNCHANGED replies
       \/ /\ driver = "harness" /\ ~reply.pays /\ reply.text
          /\ Within("replying")
          /\ replies' = replies + 1
       \/ /\ driver = "harness" /\ ~reply.pays /\ ~reply.text
          /\ NextRound \/ Within("nudging")
          /\ UNCHANGED replies
    /\ UNCHANGED <<service, messages, driver, stalled, pending, verdict>>

\* The webhook answers; its status code is not looked at.
ReplyServed ==
    /\ at = "replying"
    /\ ServesReply
    /\ IF driver = "harness" THEN NextRound
       ELSE Within(IF pay THEN "paying" ELSE "refreshing")
    /\ UNCHANGED <<pipeline, late, driver, counters, verdict>>

\* Faulty variant: the harness takes the persona's word for the payment.
FaultyCaptureServed ==
    /\ at = "paying"
    /\ ServesCapture
    /\ IF driver = "harness" THEN Over ELSE Within("refreshing")
    /\ IF driver = "harness" THEN UNCHANGED round ELSE TRUE
    /\ verdict' = IF driver = "harness" THEN "recovered" ELSE verdict
    /\ UNCHANGED <<pipeline, late, driver, counters>>

CaptureServed ==
    /\ at = "paying"
    /\ ServesCapture
    /\ IF driver = "harness" THEN NextRound ELSE Within("refreshing")
    /\ UNCHANGED <<pipeline, late, driver, counters, verdict>>

Posts == at \in {"replying", "paying"}
Posting == IF at = "replying" THEN {"reply"} ELSE {"capture"}

\* Faulty variant: the attempts are not counted.
FaultyPostAgain ==
    /\ Posts
    /\ driver = "harness"
    /\ late' \in {late, late \cup Posting}
    /\ UNCHANGED <<status, outcome, contacts, replied, pipeline, closer, messages,
                   driver, at, round, counters, verdict, done>>

\* The harness posts the whole request again; the one it gave up on may have
\* reached the service.
PostAgain ==
    /\ Posts
    /\ driver = "harness"
    /\ post < MaxPosts
    /\ post' = post + 1
    /\ late' \in {late, late \cup Posting}
    /\ UNCHANGED <<status, outcome, contacts, replied, pipeline, closer, messages,
                   driver, at, round, stalled, pending, pay, replies, verdict, done>>

\* An exception: the end of a sandbox session, the end of a round of the harness.
Raises ==
    /\ at \notin {"starting", "over"}
    /\ at = "polling" => round < MaxRounds
    /\ late' \in {late} \cup (IF Posts THEN {late \cup Posting} ELSE {})
    /\ IF driver = "sandbox" THEN Over /\ UNCHANGED round ELSE NextRound
    /\ UNCHANGED <<status, outcome, contacts, replied, pipeline, closer, messages,
                   driver, counters, verdict>>

\* Faulty variant: the identity map's copy of the row, which was not terminal when
\* the round read it.
FaultyRefreshes ==
    /\ at = "refreshing"
    /\ NextRound
    /\ UNCHANGED <<service, messages, driver, counters, verdict>>

\* The sandbox reads the row again, past the identity map.
Refreshes ==
    /\ at = "refreshing"
    /\ IF status \in Terminal THEN Over /\ UNCHANGED round ELSE NextRound
    /\ UNCHANGED <<service, messages, driver, counters, verdict>>

-----------------------------------------------------------------------------
Init ==
    /\ status = "absent"
    /\ outcome = "none"
    /\ contacts = 0
    /\ replied = FALSE
    /\ pipeline = "none"
    /\ late = {}
    /\ closer = "nobody"
    /\ unseen = FALSE
    /\ ack = FALSE
    /\ driver \in {"sandbox", "harness"}
    /\ at = "starting"
    /\ round = 0
    /\ stalled = 0
    /\ pending = FALSE
    /\ pay = FALSE
    /\ post = 1
    /\ replies = 0
    /\ verdict = "active"
    /\ done = FALSE

Driver ==
    \/ Starts \/ StartFails
    \/ NoCase \/ Sweeps \/ PendingReminder \/ Concludes \/ Notices \/ Quiet
    \/ Reminds \/ Nudges
    \/ (\E reply \in PersonaReplies : Answers(reply))
    \/ ReplyServed \/ CaptureServed \/ PostAgain
    \/ Raises \/ Refreshes

Background == PipelineRedirects \/ PipelineEnds \/ LateService

Next == Driver \/ Background

\* The driver's coroutine takes its next step whenever it has one: its sleeps end
\* and its requests have a timeout.  Nothing is assumed of the service's tasks.
Spec == Init /\ [][Next]_vars /\ WF_vars(Driver)

-----------------------------------------------------------------------------
\* Properties.

\* Every run comes to its end and says so to the dashboard that polls it, whatever
\* the service, the persona or the database raises.
RunsEnd == <>(at = "over" /\ done)

\* A driver never comes back to where it was: the next round, the next step of the
\* round or the next attempt at a webhook, all of them bounded; and no commit of
\* the service behind its back sets it back.
StepRank == [starting |-> 0, polling |-> 1, asking |-> 2, reminding |-> 3,
             nudging |-> 3, replying |-> 4, paying |-> 5, refreshing |-> 6,
             over |-> 7]

Advances ==
    \/ round < round'
    \/ round = round' /\ StepRank[at] < StepRank[at']
    \/ round = round' /\ at = at' /\ post < post'

DriverAdvances ==
    [][Advances \/ (Background /\ UNCHANGED <<round, at, post>>)]_vars

\* When the conversation itself has closed the case, by a reply, a broken promise
\* or a payment, the sandbox turns to the persona again, or reminds, in one event
\* only: the pipeline has overwritten the closing status, and is past doing so, and
\* that is what the sandbox's re-read found (README, section 9, "one turn too many").
NoTurnTooMany ==
    driver = "sandbox" /\ closer = "conversation"
    /\ at \in {"asking", "reminding", "nudging"} =>
        status # outcome /\ pipeline # "deciding"

\* The recovery rate is honest: a final state the harness reports is the one of
\* the case's Outcome row, timeout excepted, which is also its word for unresolved.
ReportBacked == verdict \notin {"active", "timeout"} => outcome = verdict

\* The service the drivers play against is the one of the ledger: a case opens
\* once and its first Outcome row is final.
Ledger == INSTANCE CaseLedger WITH
            Cases <- {"case"},
            status <- [c \in {"case"} |-> status],
            outcome <- [c \in {"case"} |-> outcome]
ServiceIsLedger == Ledger!LedgerSpec
=============================================================================
