------------------------------ MODULE Followup ------------------------------
(***************************************************************************)
(* The follow-up scheduler against the clock: followup_scheduler_loop,     *)
(* run_followup_scan and check_followup(force=True), with the customer and *)
(* the other handlers as their environment.                                *)
(*                                                                         *)
(* Time is counted in ticks and the tables are seen as ages, capped where  *)
(* nothing compares them any more.  A row carries the start of the         *)
(* transaction that inserted it (server default NOW()), so an Intervention *)
(* or Reply row is, when it is committed, as old as its session.           *)
(***************************************************************************)
EXTENDS Naturals, FiniteSets, FiniteSetsExt

CONSTANTS
    Cases,
    Interval,   \* followup_scan_interval_minutes, in ticks
    Stale,      \* followup_stale_hours
    Window,     \* session_window_hours
    MaxLag,     \* bound: ticks a webhook works on a reply
    MaxFaults   \* bound: failed scans, failed sends, failed commits, crashes

ASSUME FollowupConstantsOK ==
    /\ Cases # {}
    /\ Interval \in Nat \ {0}
    /\ Stale \in Nat
    /\ Window \in Nat
    /\ MaxLag \in Nat
    /\ MaxFaults \in Nat

VARIABLES
    active,     \* cases in one of ACTIVE_STATUSES
    quiet,      \* age of the latest recorded activity: reply, contact, creation
    silent,     \* age of the latest recorded reply
    wait,       \* ticks the loop still sleeps
    queue,      \* case ids of the scan not yet checked
    check,      \* the check in progress
    last,       \* age of the check that sent the latest reminder
    lost,       \* cases whose latest reminder is not on record
    faults

vars == <<active, quiet, silent, wait, queue, check, last, lost, faults>>
customer == <<active, quiet, silent>>
reminders == <<last, lost>>

Cap == 1 + Max({Stale, Window})
Ages == 0..Cap

Steps == {"asleep", "choosing", "drafting", "sending", "recording"}
Check == [at : Steps, case : Cases, form : {"text", "template"}, age : Ages]

TypeOK ==
    /\ active \subseteq Cases
    /\ quiet \in [Cases -> Ages]
    /\ silent \in [Cases -> Ages]
    /\ wait \in 0..Interval
    /\ queue \subseteq Cases
    /\ check \in Check
    /\ last \in [Cases -> Ages]
    /\ lost \subseteq Cases
    /\ faults \in 0..MaxFaults

-----------------------------------------------------------------------------
\* Helpers.

\* Faulty variant: no cap.
FaultyOlder(age) == age + 1

Older(age) == IF age < Cap THEN age + 1 ELSE age
Least(a, b) == Min({a, b})

Raise == faults < MaxFaults /\ faults' = faults + 1

NoCheck(at) == [at |-> at, case |-> CHOOSE c \in Cases : TRUE, form |-> "template", age |-> 0]
Sleep == check' = NoCheck("asleep") /\ wait' = Interval
Choose == check' = NoCheck("choosing")
Goto(at) == check' = [check EXCEPT !.at = at]

\* _find_stale_case_ids.
IsStale(c) == c \in active /\ quiet[c] > Stale

\* Faulty variant: the comparison with the window lets its end in.
FaultySessionOpen(c) == silent[c] <= Window

\* Faulty variant: any case with a reply on record gets free text.
UnboundedSession(c) == silent[c] <= Cap

\* is_session_open of check_followup.
SessionOpen(c) == silent[c] < Window

-----------------------------------------------------------------------------
\* A tick is minutes: a send has a timeout of seconds and ends within it.
Tick ==
    /\ check.at \notin {"sending", "recording"}
    /\ quiet' = [c \in Cases |-> Older(quiet[c])]
    /\ silent' = [c \in Cases |-> Older(silent[c])]
    /\ last' = [c \in Cases |-> Older(last[c])]
    /\ wait' = IF wait > 0 THEN wait - 1 ELSE 0
    /\ check' = IF check.at = "drafting" THEN [check EXCEPT !.age = Older(@)] ELSE check
    /\ UNCHANGED <<active, queue, lost, faults>>

-----------------------------------------------------------------------------
\* The scheduler.

\* The sleep is over: the ids are read once, in a session of their own.
Scan ==
    /\ check.at = "asleep"
    /\ wait = 0
    /\ queue' = {c \in Cases : IsStale(c)}
    /\ IF queue' = {} THEN Sleep ELSE Choose /\ UNCHANGED wait
    /\ UNCHANGED <<customer, reminders, faults>>

\* The query raises: logged, and back to sleep.
ScanFails ==
    /\ check.at = "asleep"
    /\ wait = 0
    /\ Raise
    /\ Sleep
    /\ UNCHANGED <<customer, reminders, queue>>

ScanEnds ==
    /\ check.at = "choosing"
    /\ queue = {}
    /\ Sleep
    /\ UNCHANGED <<customer, reminders, queue, faults>>

\* check_followup of the next id begins its transaction, reads the latest reply
\* and settles the form; force=True ignores the status.
Load(c) ==
    /\ check.at = "choosing"
    /\ c \in queue
    /\ queue' = queue \ {c}
    /\ check' = IF SessionOpen(c)
                THEN [at |-> "drafting", case |-> c, form |-> "text", age |-> 0]
                ELSE [at |-> "sending", case |-> c, form |-> "template", age |-> 0]
    /\ UNCHANGED <<customer, reminders, wait, faults>>

\* draft_and_send_followup: the draft may take any number of ticks, and the LLM
\* may fail every time it is asked.
Drafted ==
    /\ check.at = "drafting"
    /\ Goto("sending")
    /\ UNCHANGED <<customer, reminders, wait, queue, faults>>

DraftRaises ==
    /\ check.at = "drafting"
    /\ Choose
    /\ UNCHANGED <<customer, reminders, wait, queue, faults>>

\* The message is out, and on nobody's record until the commit.
Send ==
    /\ check.at = "sending"
    /\ last' = [last EXCEPT ![check.case] = check.age]
    /\ lost' = lost \cup {check.case}
    /\ Goto("recording")
    /\ UNCHANGED <<customer, wait, queue, faults>>

\* Faulty variant: the Intervention row of a free-text reminder is left to the
\* caller, as the audit event of the template is.
FaultyRecord ==
    /\ check.at = "recording"
    /\ quiet' = IF check.form = "text" THEN quiet
                ELSE [quiet EXCEPT ![check.case] = Least(@, check.age)]
    /\ lost' = lost \ {check.case}
    /\ Choose
    /\ UNCHANGED <<active, silent, wait, queue, last, faults>>

\* The Intervention row, with the session's age.
Record ==
    /\ check.at = "recording"
    /\ quiet' = [quiet EXCEPT ![check.case] = Least(@, check.age)]
    /\ lost' = lost \ {check.case}
    /\ Choose
    /\ UNCHANGED <<active, silent, wait, queue, last, faults>>

\* The channel or the commit raises: logged, the next id follows.
CheckRaises ==
    /\ check.at \in {"sending", "recording"}
    /\ Raise
    /\ Choose
    /\ UNCHANGED <<customer, reminders, wait, queue>>

-----------------------------------------------------------------------------
\* The customer and the other handlers.

\* The reply, the answer's Intervention row and the status are one commit, as old
\* as the webhook's session, in which the LLM was asked and the answer sent.
ReplyCommits(c, lag) ==
    /\ silent' = [silent EXCEPT ![c] = Least(@, lag)]
    /\ quiet' = [quiet EXCEPT ![c] = Least(@, lag)]
    /\ active' \in {active, active \ {c}}
    /\ UNCHANGED <<wait, queue, check, reminders, faults>>

\* A payment or a stopping rule closes the case.
Closes(c) ==
    /\ c \in active
    /\ active' = active \ {c}
    /\ UNCHANGED <<quiet, silent, wait, queue, check, reminders, faults>>

\* The process dies and the loop starts over with a whole sleep.
Crash ==
    /\ Raise
    /\ queue' = {}
    /\ Sleep
    /\ UNCHANGED <<active, quiet, silent, reminders>>

-----------------------------------------------------------------------------
Init ==
    /\ active = Cases
    /\ quiet = [c \in Cases |-> 0]
    /\ silent = [c \in Cases |-> Cap]
    /\ wait = Interval
    /\ queue = {}
    /\ check = NoCheck("asleep")
    /\ last = [c \in Cases |-> Cap]
    /\ lost = {}
    /\ faults = 0

Scheduler ==
    \/ Scan
    \/ ScanFails
    \/ ScanEnds
    \/ \E c \in Cases : Load(c)
    \/ Drafted
    \/ DraftRaises
    \/ Send
    \/ Record
    \/ CheckRaises

Environment ==
    \/ \E c \in Cases : Closes(c) \/ \E lag \in 0..Min({MaxLag, Cap}) : ReplyCommits(c, lag)
    \/ Crash

Next == Tick \/ Scheduler \/ Environment

\* Time passes, and the scheduler's task takes its next step whenever it has one:
\* each of its awaits has a timeout.  Nothing is assumed of the LLM's answers.
Spec == Init /\ [][Next]_vars /\ WF_vars(Tick) /\ WF_vars(Scheduler)

-----------------------------------------------------------------------------
\* Properties.

\* A customer who has fallen silent is re-engaged each time the case goes stale
\* (README, section 3, the scheduler): whatever scans, checks and sends fail, and
\* even if every draft does, for then the window closes and the template needs
\* none.  Nothing ends this: a case that stays active is reminded for ever.
QuietCasesReminded ==
    \A c \in Cases :
        <>[][silent'[c] >= silent[c]]_silent => (IsStale(c) ~> ~IsStale(c))

\* A reminder does not follow another within the stale time, counted from check
\* to check, unless the record of the other was lost between send and commit.
RemindersSpaced ==
    [][\A c \in Cases :
         c \in queue /\ c \notin queue' /\ check'.at # "asleep"
         => last[c] > Stale \/ c \in lost]_vars

\* Free text goes out after the 24-hour window only if the window closed during
\* the draft: at the time of the load it was open.
FreeTextInWindow ==
    check.at = "sending" /\ check.form = "text" =>
        silent[check.case] < Window + check.age
=============================================================================
