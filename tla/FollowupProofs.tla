--------------------------- MODULE FollowupProofs ---------------------------
(***************************************************************************)
(* The safety properties of Followup, for any set of cases, any interval,  *)
(* stale time and window, and any number of faults.                        *)
(***************************************************************************)
EXTENDS Followup, TLAPS

Checking == {"drafting", "sending", "recording"}

\* A reminder that is on record was recorded no older than it is.
RecordsCurrent == \A c \in Cases \ lost : quiet[c] <= last[c]

\* What a scan found overdue is still overdue when its turn comes.
QueueOverdue == \A c \in queue : last[c] > Stale \/ c \in lost

\* The case under check is not waiting for another one.
QueueAhead == check.at \in Checking => check.case \notin queue

\* Between the send and its commit the clock does not tick.
RecordsSent == check.at = "recording" => last[check.case] = check.age

\* Free text was decided on in an open window and is no older than the check.
TextInTime ==
    check.at \in {"drafting", "sending"} /\ check.form = "text" =>
        Window > 0 /\ silent[check.case] < Window + check.age

Consistent ==
    /\ TypeOK
    /\ RecordsCurrent
    /\ QueueOverdue
    /\ QueueAhead
    /\ RecordsSent
    /\ TextInTime

-----------------------------------------------------------------------------
\* Ages.

LEMMA LeastOfTwo ==
    ASSUME NEW a \in Nat, NEW b \in Nat
    PROVE  Least(a, b) \in {a, b} /\ Least(a, b) <= a /\ Least(a, b) <= b
<1>1. \E x \in {a, b} : \A y \in {a, b} : x =< y
  <2>1. CASE a <= b
    BY <2>1
  <2>2. CASE ~(a <= b)
    BY <2>2
  <2>3. QED BY <2>1, <2>2
<1>2. Least(a, b) \in {a, b} /\ \A y \in {a, b} : Least(a, b) =< y
  BY <1>1 DEF Least, Min
<1>3. QED BY <1>2

LEMMA CapAbove == Cap \in Nat /\ Stale < Cap /\ Window < Cap
<1>1. Stale \in Nat /\ Window \in Nat
  BY FollowupConstantsOK
<1>2. \E x \in {Stale, Window} : \A y \in {Stale, Window} : x >= y
  <2>1. CASE Stale <= Window
    BY <1>1, <2>1
  <2>2. CASE ~(Stale <= Window)
    BY <1>1, <2>2
  <2>3. QED BY <2>1, <2>2
<1>3. /\ Max({Stale, Window}) \in {Stale, Window}
      /\ \A y \in {Stale, Window} : Max({Stale, Window}) >= y
  BY <1>2 DEF Max
<1>4. QED BY <1>1, <1>3 DEF Cap

\* Growing older keeps an age an age, and keeps two of them in their order.
LEMMA OlderAges ==
    ASSUME NEW a \in Ages
    PROVE  /\ Older(a) \in Ages
           /\ Older(a) >= a
           /\ \A b \in Ages : a <= b => Older(a) <= Older(b)
  BY CapAbove DEF Ages, Older

LEMMA YoungerAges ==
    ASSUME NEW a \in Ages, NEW b \in Ages
    PROVE  Least(a, b) \in Ages /\ Least(a, b) <= a /\ Least(a, b) <= b
  BY LeastOfTwo, CapAbove DEF Ages

LEMMA NoCheckType == \A at \in Steps : NoCheck(at) \in Check
<1>1. (CHOOSE c \in Cases : TRUE) \in Cases
  BY FollowupConstantsOK
<1>2. 0 \in Ages
  BY CapAbove DEF Ages
<1>3. QED BY <1>1, <1>2 DEF NoCheck, Check

-----------------------------------------------------------------------------
\* Types.

LEMMA StepType ==
    ASSUME TypeOK, Next
    PROVE  TypeOK'
<1> USE DEF customer, reminders
<1>1. CASE Tick
  <2>1. /\ quiet' \in [Cases -> Ages]
        /\ silent' \in [Cases -> Ages]
        /\ last' \in [Cases -> Ages]
    BY <1>1, OlderAges DEF Tick, TypeOK
  <2>2. wait' \in 0..Interval
    BY <1>1, FollowupConstantsOK DEF Tick, TypeOK
  <2>3. check' \in Check
    BY <1>1, OlderAges DEF Tick, TypeOK, Check
  <2>4. QED BY <1>1, <2>1, <2>2, <2>3 DEF Tick, TypeOK
<1>2. CASE Scan \/ ScanFails \/ ScanEnds \/ Crash
  <2>1. check' \in Check
    BY <1>2, NoCheckType DEF Scan, ScanFails, ScanEnds, Crash, Sleep, Choose, Steps
  <2>2. wait' \in 0..Interval
    BY <1>2, FollowupConstantsOK
       DEF Scan, ScanFails, ScanEnds, Crash, Sleep, TypeOK
  <2>3. queue' \subseteq Cases /\ faults' \in 0..MaxFaults
    BY <1>2, FollowupConstantsOK DEF Scan, ScanFails, ScanEnds, Crash, Raise, TypeOK
  <2>4. QED BY <1>2, <2>1, <2>2, <2>3 DEF Scan, ScanFails, ScanEnds, Crash, TypeOK
<1>3. ASSUME NEW c \in Cases, Load(c) PROVE TypeOK'
  <2>1. 0 \in Ages
    BY CapAbove DEF Ages
  <2>2. check' \in Check
    BY <1>3, <2>1 DEF Load, Check, Steps
  <2>3. QED BY <1>3, <2>2 DEF Load, TypeOK
<1>4. CASE Drafted
  BY <1>4 DEF Drafted, Goto, TypeOK, Check, Steps
<1>5. CASE DraftRaises \/ CheckRaises
  <2>1. check' \in Check
    BY <1>5, NoCheckType DEF DraftRaises, CheckRaises, Choose, Steps
  <2>2. faults' \in 0..MaxFaults
    BY <1>5, FollowupConstantsOK DEF DraftRaises, CheckRaises, Raise, TypeOK
  <2>3. QED BY <1>5, <2>1, <2>2 DEF DraftRaises, CheckRaises, TypeOK
<1>6. CASE Send
  BY <1>6 DEF Send, Goto, TypeOK, Check, Steps
<1>7. CASE Record
  <2>1. check' \in Check
    BY <1>7, NoCheckType DEF Record, Choose, Steps
  <2>2. quiet' \in [Cases -> Ages]
    BY <1>7, YoungerAges DEF Record, TypeOK, Check
  <2>3. QED BY <1>7, <2>1, <2>2 DEF Record, TypeOK
<1>8. ASSUME NEW c \in Cases, Closes(c) PROVE TypeOK'
  BY <1>8 DEF Closes, TypeOK
<1>9. ASSUME NEW c \in Cases, NEW lag \in 0..Min({MaxLag, Cap}), ReplyCommits(c, lag)
      PROVE  TypeOK'
  <2>1. lag \in Ages
    BY LeastOfTwo, CapAbove, FollowupConstantsOK DEF Least, Ages
  <2>2. quiet' \in [Cases -> Ages] /\ silent' \in [Cases -> Ages]
    BY <1>9, <2>1, YoungerAges DEF ReplyCommits, TypeOK
  <2>3. QED BY <1>9, <2>2 DEF ReplyCommits, TypeOK
<1>10. QED BY <1>1, <1>2, <1>3, <1>4, <1>5, <1>6, <1>7, <1>8, <1>9
           DEF Next, Scheduler, Environment

-----------------------------------------------------------------------------
\* One lemma per conjunct: what may disturb it.

\* Steps that leave the reminders the customer saw and their records alone.
RecordsKept == last' = last /\ lost' = lost /\ \A c \in Cases : quiet'[c] <= quiet[c]

LEMMA Untouched ==
    ASSUME TypeOK, Next
    PROVE  Tick \/ Send \/ Record \/ RecordsKept
<1> USE DEF RecordsKept, customer, reminders
<1>1. \A c \in Cases : quiet[c] <= quiet[c]
  BY CapAbove DEF TypeOK, Ages
<1>2. CASE Scan \/ ScanFails \/ ScanEnds \/ Drafted \/ DraftRaises \/ CheckRaises \/ Crash
  BY <1>1, <1>2 DEF Scan, ScanFails, ScanEnds, Drafted, DraftRaises, CheckRaises, Crash
<1>3. ASSUME NEW c \in Cases, Load(c) \/ Closes(c) PROVE RecordsKept
  BY <1>1, <1>3 DEF Load, Closes
<1>4. ASSUME NEW c \in Cases, NEW lag \in 0..Min({MaxLag, Cap}), ReplyCommits(c, lag)
      PROVE  RecordsKept
  <2>1. lag \in Ages
    BY LeastOfTwo, CapAbove, FollowupConstantsOK DEF Least, Ages
  <2>2. \A d \in Cases : quiet'[d] <= quiet[d]
    BY <1>1, <1>4, <2>1, YoungerAges DEF ReplyCommits, TypeOK
  <2>3. QED BY <1>4, <2>2 DEF ReplyCommits
<1>5. QED BY <1>2, <1>3, <1>4 DEF Next, Scheduler, Environment

LEMMA StepRecords ==
    ASSUME Consistent, Next
    PROVE  RecordsCurrent'
<1> SUFFICES ASSUME NEW c \in Cases, c \notin lost' PROVE quiet'[c] <= last'[c]
  BY DEF RecordsCurrent
<1>1. quiet[c] \in Ages /\ last[c] \in Ages /\ check \in Check
  BY DEF Consistent, TypeOK
<1>2. CASE Tick
  <2>1. quiet[c] <= last[c]
    BY <1>2 DEF Tick, Consistent, RecordsCurrent
  <2>2. quiet'[c] = Older(quiet[c]) /\ last'[c] = Older(last[c])
    BY <1>2 DEF Tick
  <2>3. QED BY <1>1, <2>1, <2>2, OlderAges
<1>3. CASE Send
  BY <1>3 DEF Send, customer, Consistent, TypeOK, RecordsCurrent
<1>4. CASE Record
  <2>1. CASE c = check.case
    <3>1. quiet'[c] <= check.age
      BY <1>1, <1>4, <2>1, YoungerAges DEF Record, Consistent, TypeOK, Check
    <3>2. last'[c] = check.age
      BY <1>4, <2>1 DEF Record, Consistent, RecordsSent
    <3>3. QED BY <3>1, <3>2
  <2>2. CASE c # check.case
    BY <1>4, <2>2 DEF Record, Consistent, TypeOK, RecordsCurrent
  <2>3. QED BY <2>1, <2>2
<1>5. CASE RecordsKept
  <2>1. quiet[c] <= last[c] /\ quiet'[c] <= quiet[c] /\ last'[c] = last[c]
    BY <1>5 DEF RecordsKept, Consistent, RecordsCurrent
  <2>2. quiet'[c] \in Ages
    BY StepType DEF Consistent, TypeOK
  <2>3. QED BY <1>1, <2>1, <2>2, CapAbove DEF Ages
<1>6. QED BY <1>2, <1>3, <1>4, <1>5, Untouched DEF Consistent

LEMMA StepQueue ==
    ASSUME Consistent, Next
    PROVE  QueueOverdue' /\ QueueAhead'
<1> USE DEF Consistent, reminders
<1>1. CASE Tick
  <2>1. QueueOverdue'
    <3> SUFFICES ASSUME NEW c \in queue PROVE Older(last[c]) > Stale \/ c \in lost
      BY <1>1 DEF Tick, TypeOK, QueueOverdue
    <3>1. last[c] \in Ages /\ Older(last[c]) \in Ages /\ Older(last[c]) >= last[c]
      BY OlderAges DEF TypeOK
    <3>2. QED BY <3>1, CapAbove, FollowupConstantsOK DEF QueueOverdue, Ages
  <2>2. QueueAhead'
    BY <1>1 DEF Tick, TypeOK, Check, QueueAhead
  <2>3. QED BY <2>1, <2>2
<1>2. CASE Scan
  <2>1. QueueAhead'
    BY <1>2 DEF Scan, Sleep, Choose, NoCheck, QueueAhead, Checking
  <2>2. \A c \in queue' : c \in Cases /\ quiet[c] > Stale /\ last' = last /\ lost' = lost
    BY <1>2 DEF Scan, IsStale
  <2>3. ASSUME NEW c \in queue' PROVE last'[c] > Stale \/ c \in lost'
    <3>1. quiet[c] \in Ages /\ last[c] \in Ages
      BY <2>2, <2>3 DEF TypeOK
    <3>2. c \in lost \/ quiet[c] <= last[c]
      BY <2>2, <2>3 DEF RecordsCurrent
    <3>3. QED BY <2>2, <2>3, <3>1, <3>2, CapAbove, FollowupConstantsOK DEF Ages
  <2>4. QED BY <2>1, <2>3 DEF QueueOverdue
<1>3. CASE ScanFails \/ ScanEnds \/ DraftRaises \/ CheckRaises \/ Crash
  BY <1>3 DEF ScanFails, ScanEnds, DraftRaises, CheckRaises, Crash, Sleep, Choose,
              NoCheck, QueueAhead, QueueOverdue, Checking
<1>4. ASSUME NEW c \in Cases, Load(c) PROVE QueueOverdue' /\ QueueAhead'
  BY <1>4 DEF Load, QueueAhead, QueueOverdue
<1>5. CASE Drafted
  BY <1>5 DEF Drafted, Goto, TypeOK, Check, QueueAhead, QueueOverdue, Checking
<1>6. CASE Send
  <2>1. check.case \notin queue /\ queue' = queue /\ check'.case = check.case
    BY <1>6 DEF Send, Goto, TypeOK, Check, QueueAhead, Checking
  <2>2. QueueOverdue'
    BY <1>6, <2>1 DEF Send, TypeOK, QueueOverdue
  <2>3. QED BY <2>1, <2>2 DEF QueueAhead
<1>7. CASE Record
  <2>1. check.case \notin queue /\ queue' = queue /\ check'.at = "choosing"
    BY <1>7 DEF Record, Choose, NoCheck, QueueAhead, Checking
  <2>2. QueueOverdue'
    BY <1>7, <2>1 DEF Record, QueueOverdue
  <2>3. QED BY <2>1, <2>2 DEF QueueAhead, Checking
<1>8. CASE \E c \in Cases : Closes(c) \/ \E lag \in 0..Min({MaxLag, Cap}) : ReplyCommits(c, lag)
  BY <1>8 DEF Closes, ReplyCommits, QueueAhead, QueueOverdue
<1>9. QED BY <1>1, <1>2, <1>3, <1>4, <1>5, <1>6, <1>7, <1>8
          DEF Next, Scheduler, Environment

\* The check in progress, step by step.
LEMMA StepCheck ==
    ASSUME Consistent, Next
    PROVE  RecordsSent' /\ TextInTime'
<1> USE DEF Consistent, customer
<1>1. check \in Check /\ Window \in Nat
  BY FollowupConstantsOK DEF TypeOK
<1>2. CASE Tick
  <2>1. RecordsSent'
    BY <1>1, <1>2 DEF Tick, RecordsSent, Check
  <2>2. CASE check.at = "drafting" /\ check.form = "text"
    <3>1. /\ check'.age = Older(check.age) /\ check'.case = check.case
          /\ silent'[check.case] = Older(silent[check.case])
      BY <1>1, <1>2, <2>2 DEF Tick, Check
    <3>2. Window > 0 /\ silent[check.case] < Window + check.age
      BY <2>2 DEF TextInTime
    <3>3. check.age \in Ages /\ silent[check.case] \in Ages
      BY <1>1 DEF Check, TypeOK
    <3>4. Older(silent[check.case]) < Window + Older(check.age)
      BY <1>1, <3>2, <3>3, CapAbove DEF Older, Ages
    <3>5. QED BY <2>1, <3>1, <3>2, <3>4 DEF TextInTime
  <2>3. CASE ~(check.at = "drafting" /\ check.form = "text")
    BY <1>1, <1>2, <2>1, <2>3 DEF Tick, Check, TextInTime
  <2>4. QED BY <2>2, <2>3
<1>3. CASE Scan \/ ScanFails \/ ScanEnds \/ DraftRaises \/ CheckRaises \/ Crash \/ Record
  <2>1. check'.at \in {"asleep", "choosing"}
    BY <1>3 DEF Scan, ScanFails, ScanEnds, DraftRaises, CheckRaises, Crash, Record,
                Sleep, Choose, NoCheck
  <2>2. QED BY <2>1 DEF RecordsSent, TextInTime
<1>4. ASSUME NEW c \in Cases, Load(c) PROVE RecordsSent' /\ TextInTime'
  <2>1. silent' = silent /\ silent[c] \in Nat
    BY <1>4, CapAbove DEF Load, TypeOK, Ages
  <2>2. CASE SessionOpen(c)
    BY <1>1, <1>4, <2>1, <2>2 DEF Load, SessionOpen, RecordsSent, TextInTime
  <2>3. CASE ~SessionOpen(c)
    BY <1>4, <2>3 DEF Load, RecordsSent, TextInTime
  <2>4. QED BY <2>2, <2>3
<1>5. CASE Drafted
  BY <1>1, <1>5 DEF Drafted, Goto, Check, RecordsSent, TextInTime
<1>6. CASE Send
  BY <1>1, <1>6 DEF Send, Goto, Check, TypeOK, RecordsSent, TextInTime
<1>7. ASSUME NEW c \in Cases, Closes(c) PROVE RecordsSent' /\ TextInTime'
  BY <1>7 DEF Closes, reminders, RecordsSent, TextInTime
<1>8. ASSUME NEW c \in Cases, NEW lag \in 0..Min({MaxLag, Cap}), ReplyCommits(c, lag)
      PROVE  RecordsSent' /\ TextInTime'
  <2>1. lag \in Ages
    BY LeastOfTwo, CapAbove, FollowupConstantsOK DEF Least, Ages
  <2>2. check' = check /\ last' = last
    BY <1>8 DEF ReplyCommits, reminders
  <2>3. /\ silent[check.case] \in Ages /\ silent'[check.case] \in Ages
        /\ silent'[check.case] <= silent[check.case]
    <3>1. check.case \in Cases /\ silent \in [Cases -> Ages]
      BY <1>1 DEF Check, TypeOK
    <3>2. silent'[check.case] \in {silent[check.case], Least(silent[check.case], lag)}
      BY <1>8, <3>1 DEF ReplyCommits
    <3>3. silent[check.case] \in Ages /\ silent[check.case] <= silent[check.case]
      BY <3>1, CapAbove DEF Ages
    <3>4. QED BY <2>1, <3>2, <3>3, YoungerAges
  <2>4. RecordsSent'
    BY <2>2 DEF RecordsSent
  <2>5. check.age \in Nat
    BY <1>1, CapAbove DEF Check, Ages
  <2>6. TextInTime'
    BY <1>1, <2>2, <2>3, <2>5, CapAbove DEF TextInTime, Ages
  <2>7. QED BY <2>4, <2>6
<1>9. QED BY <1>2, <1>3, <1>4, <1>5, <1>6, <1>7, <1>8
          DEF Next, Scheduler, Environment

-----------------------------------------------------------------------------
LEMMA InitConsistent == Init => Consistent
<1> SUFFICES ASSUME Init PROVE Consistent
  OBVIOUS
<1>1. TypeOK
  <2>1. check \in Check
    BY NoCheckType DEF Init, Steps
  <2>2. 0 \in Ages /\ Cap \in Ages
    BY CapAbove DEF Ages
  <2>3. QED BY <2>1, <2>2, FollowupConstantsOK DEF Init, TypeOK
<1>2. RecordsCurrent
  BY CapAbove DEF Init, RecordsCurrent
<1>3. QED BY <1>1, <1>2 DEF Init, NoCheck, Consistent, QueueOverdue, QueueAhead,
                            RecordsSent, TextInTime, Checking

LEMMA StepConsistent == Consistent /\ [Next]_vars => Consistent'
<1> SUFFICES ASSUME Consistent, [Next]_vars PROVE Consistent'
  OBVIOUS
<1>1. CASE Next
  <2>1. TypeOK'
    BY <1>1, StepType DEF Consistent
  <2>2. QED BY <1>1, <2>1, StepRecords, StepQueue, StepCheck DEF Consistent
<1>2. CASE UNCHANGED vars
  BY <1>2 DEF vars, Consistent, TypeOK, RecordsCurrent, QueueOverdue, QueueAhead,
              RecordsSent, TextInTime
<1>3. QED BY <1>1, <1>2

\* The inductive invariant: records are as old as the reminders they are of, the
\* scan's list is overdue until its turn, free text was decided on in time.
THEOREM FollowupConsistent == Spec => []Consistent
  BY InitConsistent, StepConsistent, PTL DEF Spec

\* Ages stay within their cap and the list of the scan within the cases.
THEOREM TypeCorrect == Spec => []TypeOK
  BY FollowupConsistent, PTL DEF Consistent

\* check_followup decides on free text before the LLM drafts it: for any window
\* and however long the draft takes, the message is late by no more than that.
THEOREM FreeTextOnTime == Spec => []FreeTextInWindow
<1>1. Consistent => FreeTextInWindow
  BY DEF Consistent, TextInTime, FreeTextInWindow
<1>2. QED BY <1>1, FollowupConsistent, PTL

\* The scheduler's reminders keep the stale time between them although the list of
\* ids is read once and worked through later; only a reminder whose commit failed
\* may be followed too soon.
THEOREM RemindersKeepDistance == Spec => RemindersSpaced
<1>1. Consistent /\ [Next]_vars =>
        [\A c \in Cases :
           c \in queue /\ c \notin queue' /\ check'.at # "asleep"
           => last[c] > Stale \/ c \in lost]_vars
  BY DEF Consistent, QueueOverdue
<1>2. QED BY <1>1, FollowupConsistent, PTL DEF Spec, RemindersSpaced
=============================================================================
