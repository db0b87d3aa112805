---------------------------- MODULE RecordsProofs ----------------------------
(***************************************************************************)
(* The other two counting properties of CaseSessions: what may be missing  *)
(* from the records of a case that is not closed, and what its customer    *)
(* may not have been told.  Both carry the faults in the count.            *)
(***************************************************************************)
EXTENDS ContactsProofs

\* The thanks for a payment, the one message that leaves no Intervention row, goes
\* out after the payment has closed the case.
ThanksAfterClosing ==
    \A w \in Workers : job[w].at = "confirming" => outcome[job[w].case] # "none"

\* What MessagesOnRecord says of one case.
OnRecord(c) ==
    outcome[c] = "none" =>
        sent[c] <= contacts[c] + Cardinality(Unfiled(c)) + faults * Cardinality(Tasks)

\* A step leaves no Outcome behind and adds at most one fault.
Later(c) ==
    /\ outcome'[c] = "none" => outcome[c] = "none"
    /\ faults' \in {faults, faults + 1}

LEMMA StepLater ==
    ASSUME Consistent, [Next]_vars, NEW c \in Cases
    PROVE  Later(c)
<1>1. outcome[c] # "none" => outcome'[c] = outcome[c]
  BY StepMoves, OutcomeKept
<1>2. faults' = faults \/ faults' = faults + 1
  BY StepRaises DEF Raise
<1>3. QED BY <1>1, <1>2 DEF Later

-----------------------------------------------------------------------------
\* The arithmetic of one case.

LEMMA Margin ==
    ASSUME NEW f \in Nat, NEW g \in {f, f + 1}, NEW n \in Nat
    PROVE  f * n \in Nat /\ g * n \in Nat /\ f * n <= g * n
           /\ (g = f + 1 => g * n = f * n + n)
  OBVIOUS

LEMMA RecordNumbers ==
    ASSUME TypeOK, TypeOK', ContactsOwed, IsFiniteSet(Tasks), NEW c \in Cases, Later(c)
    PROVE  /\ sent[c] \in Nat /\ contacts[c] \in Nat
           /\ sent'[c] \in Nat /\ contacts'[c] \in Nat
           /\ IsFiniteSet(Unfiled(c)) /\ Cardinality(Unfiled(c)) \in Nat
           /\ Cardinality(Unfiled(c)) <= Cardinality(Tasks)
           /\ Cardinality(Tasks) \in Nat
           /\ faults * Cardinality(Tasks) \in Nat
           /\ faults' * Cardinality(Tasks) \in Nat
           /\ faults * Cardinality(Tasks) <= faults' * Cardinality(Tasks)
           /\ faults' = faults + 1 =>
                faults' * Cardinality(Tasks) = faults * Cardinality(Tasks) + Cardinality(Tasks)
<1>1. sent[c] \in Nat /\ contacts[c] \in Nat /\ sent'[c] \in Nat /\ contacts'[c] \in Nat
      /\ faults \in Nat
  BY DEF TypeOK
<1>2. IsFiniteSet(Unfiled(c)) /\ Unfiled(c) \subseteq Tasks
  BY DEF ContactsOwed, Unfiled
<1>3. Cardinality(Unfiled(c)) \in Nat /\ Cardinality(Tasks) \in Nat
      /\ Cardinality(Unfiled(c)) <= Cardinality(Tasks)
  BY <1>2, FS_CardinalityType, FS_Subset
<1>4. QED BY <1>1, <1>2, <1>3, Margin DEF Later

\* Nothing is sent, nothing filed.
LEMMA RecordKept ==
    ASSUME TypeOK, TypeOK', ContactsOwed, IsFiniteSet(Tasks), NEW c \in Cases, Later(c),
           OnRecord(c), sent'[c] = sent[c], contacts'[c] = contacts[c],
           Unfiled(c)' = Unfiled(c)
    PROVE  OnRecord(c)'
  BY RecordNumbers DEF OnRecord, Later

\* A message goes out, and a session comes to owe its record.
LEMMA RecordSent ==
    ASSUME TypeOK, TypeOK', ContactsOwed, IsFiniteSet(Tasks), NEW c \in Cases, Later(c),
           OnRecord(c), sent'[c] = sent[c] + 1, contacts'[c] = contacts[c],
           NEW w, w \notin Unfiled(c), Unfiled(c)' = Unfiled(c) \cup {w}
    PROVE  OnRecord(c)'
<1>1. IsFiniteSet(Unfiled(c))
  BY RecordNumbers
<1>2. Cardinality(Unfiled(c)') = Cardinality(Unfiled(c)) + 1
  BY <1>1, FS_AddElement
<1>3. QED BY <1>2, RecordNumbers DEF OnRecord, Later

\* A session files the record it owes.
LEMMA RecordFiled ==
    ASSUME TypeOK, TypeOK', ContactsOwed, IsFiniteSet(Tasks), NEW c \in Cases, Later(c),
           OnRecord(c), sent'[c] = sent[c], contacts'[c] = contacts[c] + 1,
           NEW w \in Unfiled(c), Unfiled(c)' = Unfiled(c) \ {w}
    PROVE  OnRecord(c)'
<1>1. IsFiniteSet(Unfiled(c))
  BY RecordNumbers
<1>2. Cardinality(Unfiled(c)') = Cardinality(Unfiled(c)) - 1
  BY <1>1, FS_RemoveElement
<1>3. QED BY <1>2, RecordNumbers DEF OnRecord, Later

\* A crash takes every record that was owed.
LEMMA RecordLost ==
    ASSUME TypeOK, TypeOK', ContactsOwed, IsFiniteSet(Tasks), NEW c \in Cases, Later(c),
           OnRecord(c), sent'[c] = sent[c], contacts'[c] = contacts[c],
           faults' = faults + 1, Unfiled(c)' = {}
    PROVE  OnRecord(c)'
<1>1. Cardinality(Unfiled(c)') = 0
  BY FS_EmptySet
<1>2. QED BY <1>1, RecordNumbers DEF OnRecord, Later

-----------------------------------------------------------------------------
\* The four things a step of one session does to messages and records.

Keeps(w, k) ==
    /\ job[w].at \notin Owing /\ k.at \notin Owing
    /\ sent' = sent /\ contacts' = contacts

Sends(w, k) ==
    /\ job[w].at \notin Owing /\ k.at \in Owing
    /\ job[w].case \in Cases /\ k.case = job[w].case
    /\ Send(job[w].case) /\ contacts' = contacts

Files(w, k) ==
    /\ job[w].at \in Owing /\ k.at \notin Owing
    /\ sent' = sent
    /\ job[w].case \in Cases
    /\ contacts' = [contacts EXCEPT ![job[w].case] = @ + 1]

\* A closed case is left to itself.
Leaves(w, k) ==
    /\ outcome[job[w].case] # "none" /\ k.at \notin Owing
    /\ sent' = sent \/ Send(job[w].case)
    /\ contacts' = contacts

Moved(w, k) ==
    /\ job' = [job EXCEPT ![w] = k]
    /\ Keeps(w, k) \/ Sends(w, k) \/ Files(w, k) \/ Leaves(w, k)

LEMMA MovedRecords ==
    ASSUME TypeOK, TypeOK', ContactsOwed, IsFiniteSet(Tasks), NEW c \in Cases, Later(c),
           OnRecord(c), NEW w \in Tasks, NEW k, Moved(w, k)
    PROVE  OnRecord(c)'
<1>1. Unfiled(c)' = IF k.case = c /\ k.at \in Owing
                    THEN Unfiled(c) \cup {w} ELSE Unfiled(c) \ {w}
  BY UnfiledMove DEF Moved
<1>2. w \in Unfiled(c) <=> job[w].case = c /\ job[w].at \in Owing
  BY DEF Unfiled
<1>3. CASE Keeps(w, k)
  <2>1. Unfiled(c)' = Unfiled(c)
    BY <1>1, <1>2, <1>3 DEF Keeps
  <2>2. QED BY <1>3, <2>1, RecordKept DEF Keeps
<1>4. CASE Sends(w, k)
  <2>1. CASE c = job[w].case
    <3>1. w \notin Unfiled(c) /\ Unfiled(c)' = Unfiled(c) \cup {w}
      BY <1>1, <1>2, <1>4, <2>1 DEF Sends
    <3>2. sent'[c] = sent[c] + 1 /\ contacts'[c] = contacts[c]
      BY <1>4, <2>1 DEF Sends, Send, TypeOK
    <3>3. QED BY <3>1, <3>2, RecordSent
  <2>2. CASE c # job[w].case
    <3>1. Unfiled(c)' = Unfiled(c)
      BY <1>1, <1>2, <1>4, <2>2 DEF Sends
    <3>2. sent'[c] = sent[c] /\ contacts'[c] = contacts[c]
      BY <1>4, <2>2 DEF Sends, Send, TypeOK
    <3>3. QED BY <3>1, <3>2, RecordKept
  <2>3. QED BY <2>1, <2>2
<1>5. CASE Files(w, k)
  <2>1. CASE c = job[w].case
    <3>1. w \in Unfiled(c) /\ Unfiled(c)' = Unfiled(c) \ {w}
      BY <1>1, <1>2, <1>5, <2>1 DEF Files
    <3>2. sent'[c] = sent[c] /\ contacts'[c] = contacts[c] + 1
      BY <1>5, <2>1 DEF Files, TypeOK
    <3>3. QED BY <3>1, <3>2, RecordFiled
  <2>2. CASE c # job[w].case
    <3>1. Unfiled(c)' = Unfiled(c)
      BY <1>1, <1>2, <1>5, <2>2 DEF Files
    <3>2. sent'[c] = sent[c] /\ contacts'[c] = contacts[c]
      BY <1>5, <2>2 DEF Files, TypeOK
    <3>3. QED BY <3>1, <3>2, RecordKept
  <2>3. QED BY <2>1, <2>2
<1>6. CASE Leaves(w, k)
  <2>1. CASE c = job[w].case
    BY <1>6, <2>1 DEF Leaves, Later, OnRecord
  <2>2. CASE c # job[w].case
    <3>1. Unfiled(c)' = Unfiled(c)
      BY <1>1, <1>2, <1>6, <2>2 DEF Leaves
    <3>2. sent'[c] = sent[c] /\ contacts'[c] = contacts[c]
      BY <1>6, <2>2 DEF Leaves, Send, TypeOK
    <3>3. QED BY <3>1, <3>2, RecordKept
  <2>3. QED BY <2>1, <2>2
<1>7. QED BY <1>3, <1>4, <1>5, <1>6 DEF Moved

-----------------------------------------------------------------------------
\* Every session step is one of the four.

LEMMA MovedEnd ==
    ASSUME NEW w \in Tasks, End(w), contacts' = contacts,
           \/ job[w].at \notin Owing /\ sent' = sent
           \/ outcome[job[w].case] # "none" /\ (sent' = sent \/ Send(job[w].case))
    PROVE  \E k : Moved(w, k)
<1>1. Idle.at \notin Owing
  BY DEF Idle, Task, Owing
<1>2. Moved(w, Idle)
  BY <1>1 DEF Moved, Keeps, Leaves, End
<1>3. QED BY <1>2

LEMMA MovedGoto ==
    ASSUME TypeOK, NEW w \in Tasks, NEW at, Goto(w, at), contacts' = contacts,
           job[w].at \notin Owing, job[w].case \in Cases,
           \/ at \notin Owing /\ sent' = sent
           \/ at \in Owing /\ Send(job[w].case)
    PROVE  \E k : Moved(w, k)
<1> DEFINE k == [job[w] EXCEPT !.at = at]
<1>1. k.at = at /\ k.case = job[w].case /\ job' = [job EXCEPT ![w] = k]
  BY DEF Goto, TypeOK, Job
<1>2. Moved(w, k)
  BY <1>1 DEF Moved, Keeps, Sends
<1>3. QED BY <1>2

LEMMA MovedFile ==
    ASSUME NEW w \in Tasks, NEW k, k.at \notin Owing, job' = [job EXCEPT ![w] = k],
           job[w].at \in Owing, job[w].case \in Cases, sent' = sent,
           contacts' = [contacts EXCEPT ![job[w].case] = @ + 1]
    PROVE  \E l : Moved(w, l)
<1>1. Moved(w, k)
  BY DEF Moved, Files
<1>2. QED BY <1>1

LEMMA MovedKeep ==
    ASSUME NEW w \in Tasks, NEW k, k.at \notin Owing, job' = [job EXCEPT ![w] = k],
           job[w].at \notin Owing, sent' = sent, contacts' = contacts
    PROVE  \E l : Moved(w, l)
<1>1. Moved(w, k)
  BY DEF Moved, Keeps
<1>2. QED BY <1>1

LEMMA ArrivalRecords ==
    ASSUME NEW w \in Workers, Arrival(w)
    PROVE  \E k : Moved(w, k)
<1>0. w \in Tasks
  BY DEF Tasks
<1>1. job[w].at \notin Owing
  BY DEF Arrival, FailureArrives, ReplyArrives, CaptureArrives, Start, Idle, Task, Owing
<1>2. ASSUME NEW c \in Cases, ReplyArrives(w, c) PROVE \E k : Moved(w, k)
  <2> DEFINE k == IF status[c] \in Locked THEN Idle ELSE Session("analysing", c)
  <2>1. k.at \notin Owing
    BY DEF Idle, Session, Task, Owing
  <2>2. job' = [job EXCEPT ![w] = k] /\ contacts' = contacts /\ sent' = sent
    BY <1>2 DEF ReplyArrives, Start
  <2>3. QED BY <1>0, <1>1, <2>1, <2>2, MovedKeep
<1>3. ASSUME NEW c \in Cases, CaptureArrives(w, c) PROVE \E k : Moved(w, k)
  <2> DEFINE k == IF status[c] \in {"recovered", "stopped", "escalated"}
                  THEN Idle ELSE Session("crediting", c)
  <2>1. k.at \notin Owing
    BY DEF Idle, Session, Task, Owing
  <2>2. job' = [job EXCEPT ![w] = k] /\ contacts' = contacts /\ sent' = sent
    BY <1>3 DEF CaptureArrives, Start
  <2>3. QED BY <1>0, <1>1, <2>1, <2>2, MovedKeep
<1>4. CASE FailureArrives(w)
  <2>1. Task("queued", opened + 1, "absent").at \notin Owing
    BY DEF Task, Owing
  <2>2. QED BY <1>0, <1>1, <1>4, <2>1, MovedKeep DEF FailureArrives, Start
<1>5. QED BY <1>2, <1>3, <1>4 DEF Arrival

LEMMA ReplyRecords ==
    ASSUME Consistent, Closed \subseteq FinalStates, NEW w \in Workers, ReplyStep(w)
    PROVE  \E k : Moved(w, k)
<1> DEFINE j == job[w]
<1>0. w \in Tasks /\ TypeOK /\ j \in Job
  BY DEF Tasks, Consistent, TypeOK
<1>1. j.case \in Cases
  <2>1. j.at # "idle"
    BY DEF ReplyStep, ReplyClassified, ReplyUnclassified, ReplyAcked, ReplyCommits,
           ReplyCommitFails, ReplySendRaises, RulesQuiet, BrokenPromises, HandoffSent,
           HandoffRaises, HandoffCommits
  <2>2. QED BY <1>0, <2>1, BusyCase
<1>2. ASSUME NEW s \in ReplyStates, ReplyClassified(w, s) PROVE \E k : Moved(w, k)
  <2> DEFINE k == IF s \in StoredStates THEN [j EXCEPT !.at = "acking", !.state = s]
                                        ELSE Idle
  <2>1. k.at \notin Owing
    BY <1>0 DEF Idle, Task, Owing, Job
  <2>2. job' = [job EXCEPT ![w] = k] /\ contacts' = contacts /\ sent' = sent
        /\ j.at \notin Owing
    BY <1>2 DEF ReplyClassified, Owing
  <2>3. QED BY <1>0, <2>1, <2>2, MovedKeep
<1>3. CASE ReplyUnclassified(w) \/ ReplySendRaises(w) \/ RulesQuiet(w) \/ HandoffRaises(w)
  <2>1. End(w) /\ contacts' = contacts /\ sent' = sent /\ j.at \notin Owing
    BY <1>3 DEF ReplyUnclassified, ReplySendRaises, RulesQuiet, HandoffRaises, Owing
  <2>2. QED BY <1>0, <2>1, MovedEnd
<1>4. CASE ReplyCommitFails(w)
  <2>1. ReplyTarget(j.state, j.seen) \in FinalStates
    BY <1>4 DEF ReplyCommitFails, ReplyRefused, ReplyCloses, Closed
  <2>2. outcome[j.case] # "none"
    BY <1>4, <2>1 DEF ReplyCommitFails, ReplyRefused, CanInsert
  <2>3. QED BY <1>0, <1>4, <2>2, MovedEnd DEF ReplyCommitFails
<1>5. CASE ReplyAcked(w)
  <2>1. "committing" \in Owing /\ j.at \notin Owing
    BY <1>5 DEF ReplyAcked, Owing
  <2>2. QED BY <1>0, <1>1, <1>5, <2>1, MovedGoto DEF ReplyAcked
<1>6. CASE ReplyCommits(w)
  <2> DEFINE k == [j EXCEPT !.at = "ruling", !.seen = ReplyTarget(j.state, j.seen)]
  <2>1. k.at \notin Owing
    BY <1>0 DEF Owing, Job
  <2>2. job' = [job EXCEPT ![w] = k] /\ sent' = sent /\ j.at \in Owing
        /\ contacts' = [contacts EXCEPT ![j.case] = @ + 1]
    BY <1>6 DEF ReplyCommits, Owing
  <2>3. QED BY <1>0, <1>1, <2>1, <2>2, MovedFile
<1>7. CASE BrokenPromises(w)
  <2>1. "handing_off" \notin Owing /\ j.at \notin Owing
    BY <1>7 DEF BrokenPromises, Owing
  <2>2. QED BY <1>0, <1>1, <1>7, <2>1, MovedEnd, MovedGoto DEF BrokenPromises
<1>8. CASE HandoffSent(w)
  <2>1. "handed_off" \in Owing /\ j.at \notin Owing
    BY <1>8 DEF HandoffSent, Owing
  <2>2. QED BY <1>0, <1>1, <1>8, <2>1, MovedGoto DEF HandoffSent
<1>9. CASE HandoffCommits(w)
  <2>1. Idle.at \notin Owing /\ j.at \in Owing
    BY <1>9 DEF HandoffCommits, Idle, Task, Owing
  <2>2. QED BY <1>0, <1>1, <1>9, <2>1, MovedFile DEF HandoffCommits, End
<1>10. QED BY <1>2, <1>3, <1>4, <1>5, <1>6, <1>7, <1>8, <1>9 DEF ReplyStep

LEMMA CaptureRecords ==
    ASSUME Consistent, ThanksAfterClosing, NEW w \in Workers, CaptureStep(w)
    PROVE  \E k : Moved(w, k)
<1>0. w \in Tasks /\ TypeOK
  BY DEF Tasks, Consistent
<1>1. job[w].at \notin Owing /\ "confirming" \notin Owing /\ job[w].at # "idle"
  BY DEF CaptureStep, CaptureCommits, CaptureRefused, CaptureConfirmed, Owing
<1>2. CASE CaptureCommits(w)
  BY <1>0, <1>1, <1>2, BusyCase, MovedGoto DEF CaptureCommits
<1>3. CASE CaptureRefused(w)
  BY <1>0, <1>1, <1>3, MovedEnd DEF CaptureRefused
<1>4. CASE CaptureConfirmed(w)
  BY <1>0, <1>4, MovedEnd DEF CaptureConfirmed, ThanksAfterClosing
<1>5. QED BY <1>2, <1>3, <1>4 DEF CaptureStep

LEMMA PipelineRecords ==
    ASSUME Consistent, NEW w \in Workers, PipelineStep(w)
    PROVE  \E k : Moved(w, k)
<1> DEFINE j == job[w]
<1>0. w \in Tasks /\ TypeOK /\ j \in Job
  BY DEF Tasks, Consistent, TypeOK
<1>1. j.case \in Cases
  <2>1. j.at # "idle"
    BY DEF PipelineStep, PipelineLoads, PipelineDiagnosed, PipelineRaises,
           PipelineOptedOut, PipelineTimesOut, PipelineRedirects, PipelineDisputes,
           FirstContact, PipelineCommits
  <2>2. QED BY <1>0, <2>1, BusyCase
<1>2. CASE PipelineLoads(w)
  <2>1. Session("diagnosing", j.case).at \notin Owing /\ j.at \notin Owing
    BY <1>2 DEF PipelineLoads, Session, Task, Owing
  <2>2. QED BY <1>0, <1>2, <2>1, MovedKeep DEF PipelineLoads
<1>3. ASSUME NEW causes \in SUBSET Causes, PipelineDiagnosed(w, causes)
      PROVE  \E k : Moved(w, k)
  <2> DEFINE k == [j EXCEPT !.at = "gating", !.causes = causes]
  <2>1. k.at \notin Owing
    BY <1>0 DEF Owing, Job
  <2>2. job' = [job EXCEPT ![w] = k] /\ contacts' = contacts /\ sent' = sent
        /\ j.at \notin Owing
    BY <1>3 DEF PipelineDiagnosed, Owing
  <2>3. QED BY <1>0, <2>1, <2>2, MovedKeep
<1>4. CASE PipelineRedirects(w)
  <2> DEFINE new == IF Redirects(j) THEN "payment_method_required" ELSE j.seen
             k == [j EXCEPT !.at = "disputing", !.seen = new]
  <2>1. k.at \notin Owing
    BY <1>0 DEF Owing, Job
  <2>2. job' = [job EXCEPT ![w] = k] /\ contacts' = contacts /\ sent' = sent
        /\ j.at \notin Owing
    BY <1>4 DEF PipelineRedirects, Owing
  <2>3. QED BY <1>0, <2>1, <2>2, MovedKeep
<1>5. CASE PipelineRaises(w) \/ PipelineOptedOut(w) \/ PipelineTimesOut(w)
           \/ PipelineDisputes(w)
  <2>1. End(w) /\ contacts' = contacts /\ sent' = sent /\ j.at \notin Owing
    BY <1>5 DEF PipelineRaises, PipelineOptedOut, PipelineTimesOut, PipelineDisputes, Owing
  <2>2. QED BY <1>0, <2>1, MovedEnd
<1>6. CASE FirstContact(w)
  <2>1. "filing" \in Owing /\ j.at \notin Owing
    BY <1>6 DEF FirstContact, Owing
  <2>2. QED BY <1>0, <1>1, <1>6, <2>1, MovedGoto DEF FirstContact
<1>7. CASE PipelineCommits(w)
  <2>1. Idle.at \notin Owing /\ j.at \in Owing
    BY <1>7 DEF PipelineCommits, Idle, Task, Owing
  <2>2. QED BY <1>0, <1>1, <1>7, <2>1, MovedFile DEF PipelineCommits, End
<1>8. QED BY <1>2, <1>3, <1>4, <1>5, <1>6, <1>7 DEF PipelineStep

LEMMA SchedulerRecords ==
    ASSUME Consistent, SchedulerStep
    PROVE  (\E k : Moved(Scheduler, k)) \/ UNCHANGED <<job, sent, contacts, faults>>
<1> DEFINE w == Scheduler
<1>0. w \in Tasks /\ TypeOK
  BY DEF Tasks, Consistent
<1>1. ASSUME NEW ids \in SUBSET Cases, ScanFinds(ids)
      PROVE  UNCHANGED <<job, sent, contacts, faults>>
  BY <1>1 DEF ScanFinds
<1>2. ASSUME NEW c \in Cases, FollowupLoads(c) PROVE \E k : Moved(w, k)
  <2>1. Session("reminding", c).at \notin Owing /\ job[w].at \notin Owing
    BY <1>2 DEF FollowupLoads, Idle, Session, Task, Owing
  <2>2. QED BY <1>0, <1>2, <2>1, MovedKeep DEF FollowupLoads
<1>3. CASE FollowupSent
  <2>1. "logging" \in Owing /\ job[w].at \notin Owing /\ job[w].at # "idle"
    BY <1>3 DEF FollowupSent, Owing
  <2>2. QED BY <1>0, <1>3, <2>1, BusyCase, MovedGoto DEF FollowupSent
<1>4. CASE FollowupRaises
  <2>1. job[w].at \notin Owing
    BY <1>4 DEF FollowupRaises, Owing
  <2>2. QED BY <1>0, <1>4, <2>1, MovedEnd DEF FollowupRaises
<1>5. CASE FollowupCommits
  <2>1. Idle.at \notin Owing /\ job[w].at \in Owing /\ job[w].at # "idle"
    BY <1>5 DEF FollowupCommits, Idle, Task, Owing
  <2>2. QED BY <1>0, <1>5, <2>1, BusyCase, MovedFile DEF FollowupCommits, End
<1>6. QED BY <1>1, <1>2, <1>3, <1>4, <1>5 DEF SchedulerStep

\* A session comes to the thanks by no other way than recording the payment.
LEMMA ComesToThanks ==
    ASSUME Consistent, [Next]_vars, NEW w \in Workers, job'[w].at = "confirming"
    PROVE  job'[w] = job[w] \/ CaptureCommits(w)
<1>0. job \in [Tasks -> Job] /\ w \in Tasks /\ Scheduler \in Tasks /\ w # Scheduler
  BY ConstantsOK DEF Consistent, TypeOK, Tasks
<1>1. CASE Crash \/ UNCHANGED vars
  BY <1>0, <1>1 DEF Crash, vars, Idle, Task
<1>2. CASE SchedulerStep
  BY <1>0, <1>2 DEF SchedulerStep, ScanFinds, FollowupLoads, FollowupSent,
                    FollowupRaises, FollowupCommits, Goto, End
<1>3. ASSUME NEW v \in Workers, v # w,
             Arrival(v) \/ ReplyStep(v) \/ CaptureStep(v) \/ PipelineStep(v)
      PROVE  job'[w] = job[w]
  <2>1. CASE Arrival(v)
    BY <1>0, <1>3, <2>1 DEF Arrival, FailureArrives, ReplyArrives, CaptureArrives, Start
  <2>2. CASE ReplyStep(v)
    BY <1>0, <1>3, <2>2 DEF ReplyStep, ReplyClassified, ReplyUnclassified, ReplyAcked,
         ReplyCommits, ReplyCommitFails, ReplySendRaises, RulesQuiet, BrokenPromises,
         HandoffSent, HandoffRaises, HandoffCommits, End, Goto
  <2>3. CASE CaptureStep(v)
    BY <1>0, <1>3, <2>3 DEF CaptureStep, CaptureCommits, CaptureRefused, CaptureConfirmed,
                            End, Goto
  <2>4. CASE PipelineStep(v)
    BY <1>0, <1>3, <2>4 DEF PipelineStep, PipelineLoads, PipelineDiagnosed, PipelineRaises,
         PipelineOptedOut, PipelineTimesOut, PipelineRedirects, PipelineDisputes,
         FirstContact, PipelineCommits, End, Goto
  <2>5. QED BY <1>3, <2>1, <2>2, <2>3, <2>4
<1>4. ~Arrival(w)
  BY <1>0 DEF Arrival, FailureArrives, ReplyArrives, CaptureArrives, Start, Idle,
              Session, Task
<1>5. ~ReplyStep(w)
  <2>1. ~ \E s \in ReplyStates : ReplyClassified(w, s)
    <3>1. ASSUME NEW s \in ReplyStates, ReplyClassified(w, s) PROVE FALSE
      <4>1. [job[w] EXCEPT !.at = "acking", !.state = s].at = "acking" /\ Idle.at = "idle"
        BY <1>0 DEF Job, Idle, Task
      <4>2. job'[w].at \in {"acking", "idle"}
        BY <1>0, <3>1, <4>1 DEF ReplyClassified
      <4>3. QED BY <4>2
    <3>2. QED BY <3>1
  <2>2. ~ReplyCommits(w)
    <3>1. ReplyCommits(w) => job'[w].at = "ruling"
      BY <1>0 DEF ReplyCommits, Job
    <3>2. QED BY <3>1
  <2>3. ~ReplyUnclassified(w) /\ ~ReplyAcked(w) /\ ~ReplyCommitFails(w)
        /\ ~ReplySendRaises(w) /\ ~RulesQuiet(w)
    BY <1>0 DEF ReplyUnclassified, ReplyAcked, ReplyCommitFails, ReplySendRaises,
                RulesQuiet, End, Goto, Idle, Task, Job
  <2>4. ~BrokenPromises(w) /\ ~HandoffSent(w) /\ ~HandoffRaises(w) /\ ~HandoffCommits(w)
    BY <1>0 DEF BrokenPromises, HandoffSent, HandoffRaises, HandoffCommits, End, Goto,
                Idle, Task, Job
  <2>5. QED BY <2>1, <2>2, <2>3, <2>4 DEF ReplyStep
<1>6. CaptureStep(w) => CaptureCommits(w)
  BY <1>0 DEF CaptureStep, CaptureRefused, CaptureConfirmed, End, Idle, Task
<1>7. ~PipelineStep(w)
  BY <1>0 DEF PipelineStep, PipelineLoads, PipelineDiagnosed, PipelineRaises,
       PipelineOptedOut, PipelineTimesOut, PipelineRedirects, PipelineDisputes,
       FirstContact, PipelineCommits, End, Goto, Idle, Session, Task, Job
<1>8. QED BY <1>1, <1>2, <1>3, <1>4, <1>5, <1>6, <1>7 DEF Next

LEMMA StepThanks ==
    ASSUME Consistent, ThanksAfterClosing, [Next]_vars
    PROVE  ThanksAfterClosing'
<1> SUFFICES ASSUME NEW w \in Workers, job'[w].at = "confirming"
             PROVE  outcome'[job'[w].case] # "none"
  BY DEF ThanksAfterClosing
<1>0. w \in Tasks /\ job \in [Tasks -> Job] /\ outcome \in [Cases -> Closed \cup {"none"}]
  BY DEF Tasks, Consistent, TypeOK
<1>1. CASE job'[w] = job[w]
  <2>1. job[w].case \in Cases /\ outcome[job[w].case] # "none"
    BY <1>0, <1>1, BusyCase DEF ThanksAfterClosing
  <2>2. QED BY <1>1, <2>1, StepMoves, OutcomeKept
<1>2. CASE CaptureCommits(w)
  <2>1. job[w].case \in Cases
    BY <1>0, <1>2, BusyCase DEF CaptureCommits
  <2>2. job'[w].case = job[w].case
    BY <1>0, <1>2 DEF CaptureCommits, Goto, Job
  <2>3. QED BY <1>0, <1>2, <2>1, <2>2 DEF CaptureCommits
<1>3. QED BY <1>1, <1>2, ComesToThanks

LEMMA StepOnRecord ==
    ASSUME IsFiniteSet(Tasks), Closed \subseteq FinalStates,
           Consistent, Consistent', ContactsOwed, ThanksAfterClosing,
           MessagesOnRecord, [Next]_vars
    PROVE  MessagesOnRecord'
<1> SUFFICES ASSUME NEW c \in Cases PROVE OnRecord(c)'
  BY DEF MessagesOnRecord, OnRecord
<1>0. TypeOK /\ TypeOK' /\ Later(c) /\ OnRecord(c) /\ Scheduler \in Tasks
      /\ Workers \subseteq Tasks
  BY StepLater DEF Consistent, MessagesOnRecord, OnRecord, Tasks
<1>1. CASE Crash
  <2>1. sent'[c] = sent[c] /\ contacts'[c] = contacts[c] /\ faults' = faults + 1
    BY <1>1 DEF Crash, Raise
  <2>2. Unfiled(c)' = {}
    BY <1>1 DEF Crash, Unfiled, Idle, Task, Owing
  <2>3. QED BY <1>0, <2>1, <2>2, RecordLost
<1>2. ASSUME NEW w \in Tasks, NEW k, Moved(w, k) PROVE OnRecord(c)'
  BY <1>0, <1>2, MovedRecords
<1>3. CASE UNCHANGED <<job, sent, contacts, faults>>
  <2>1. Unfiled(c)' = Unfiled(c)
    BY <1>3 DEF Unfiled
  <2>2. QED BY <1>0, <1>3, <2>1, RecordKept
<1>4. CASE SchedulerStep
  BY <1>0, <1>2, <1>3, <1>4, SchedulerRecords
<1>5. ASSUME NEW w \in Workers,
             Arrival(w) \/ ReplyStep(w) \/ CaptureStep(w) \/ PipelineStep(w)
      PROVE  OnRecord(c)'
  <2>1. \E k : Moved(w, k)
    BY <1>5, ArrivalRecords, ReplyRecords, CaptureRecords, PipelineRecords
  <2>2. QED BY <1>0, <1>2, <2>1
<1>6. CASE UNCHANGED vars
  BY <1>3, <1>6 DEF vars
<1>7. QED BY <1>1, <1>4, <1>5, <1>6 DEF Next

-----------------------------------------------------------------------------
\* The theorem on records.

\* With finitely many tasks and tables that accept every final state of the
\* models, a customer of a case that is not closed has received no more messages
\* than are on record, plus those a session is about to record, plus what the
\* faults so far can have cost, one record of each task every time.  The retry cap
\* counts the records: it is late by no more than this.
THEOREM MessagesAlwaysOnRecord ==
    ASSUME IsFiniteSet(Workers), Closed \subseteq FinalStates
    PROVE  Spec => []MessagesOnRecord
<1>0. IsFiniteSet(Tasks)
  BY FS_AddElement DEF Tasks
<1>1. Init => ThanksAfterClosing
  BY DEF Init, ThanksAfterClosing, Tasks, Idle, Task
<1>2. Init => MessagesOnRecord
  <2> SUFFICES ASSUME Init, NEW c \in Cases PROVE OnRecord(c)
    BY DEF MessagesOnRecord, OnRecord
  <2>1. Unfiled(c) = {}
    BY DEF Init, Unfiled, Idle, Task, Owing
  <2>2. sent[c] = 0 /\ contacts[c] = 0 /\ faults = 0
    BY DEF Init
  <2>3. Cardinality(Tasks) \in Nat /\ 0 * Cardinality(Tasks) = 0
    BY <1>0, FS_CardinalityType
  <2>4. QED BY <2>1, <2>2, <2>3, FS_EmptySet DEF OnRecord
<1>3. Consistent /\ ThanksAfterClosing /\ [Next]_vars => ThanksAfterClosing'
  BY StepThanks
<1>4. Consistent /\ Consistent' /\ ContactsOwed /\ ThanksAfterClosing
      /\ MessagesOnRecord /\ [Next]_vars => MessagesOnRecord'
  BY <1>0, StepOnRecord
<1>5. QED BY <1>1, <1>2, <1>3, <1>4, AlwaysConsistent, AlwaysOwed, PTL DEF Spec

-----------------------------------------------------------------------------
\* What the customer is owed: the arithmetic of one case, and the hand-offs.

Handing == {"handing_off", "handed_off"}

LEMMA DueNumbers ==
    ASSUME TypeOK, TypeOK', NEW c \in Cases
    PROVE  /\ promises[c] \in Nat /\ promises'[c] \in Nat
           /\ contacts[c] \in Nat /\ contacts'[c] \in Nat
           /\ faults \in Nat /\ faults' \in Nat
           /\ Due(c) \in 0..1 /\ Due(c)' \in 0..1
<1>1. Due(c) \in 0..1 /\ Due(c)' \in 0..1
  BY DEF Due
<1>2. QED BY <1>1 DEF TypeOK

\* The demands of the case do not grow, its answers do not shrink.
LEMMA TurnKept ==
    ASSUME TypeOK, TypeOK', NEW c \in Cases,
           promises[c] + Due(c) <= contacts[c] + faults,
           promises'[c] = promises[c], Due(c)' <= Due(c),
           contacts[c] <= contacts'[c], faults <= faults'
    PROVE  promises'[c] + Due(c)' <= contacts'[c] + faults'
  BY DueNumbers

\* One more is demanded, and paid for.
LEMMA TurnPaid ==
    ASSUME TypeOK, TypeOK', NEW c \in Cases,
           promises[c] + Due(c) <= contacts[c] + faults,
           promises'[c] + Due(c)' <= promises[c] + Due(c) + 1,
           contacts'[c] + faults' = contacts[c] + faults + 1
    PROVE  promises'[c] + Due(c)' <= contacts'[c] + faults'
  BY DueNumbers

LEMMA DueKept ==
    ASSUME NEW c, outcome'[c] = "human_escalated" => outcome[c] = "human_escalated",
           HandingOff(c) => HandingOff(c)'
    PROVE  Due(c)' <= Due(c)
  BY DEF Due

\* Hand-offs end with the session that makes them only.
LEMMA HandsOn ==
    ASSUME TypeOK, NEW w \in Tasks, NEW k, job' = [job EXCEPT ![w] = k], NEW c,
           job[w].case = c => job[w].at \notin Handing, HandingOff(c)
    PROVE  HandingOff(c)'
<1>1. PICK v \in Workers : job[v].case = c /\ job[v].at \in Handing
  BY DEF HandingOff, Handing
<1>2. job'[v] = job[v]
  BY <1>1 DEF TypeOK, Tasks
<1>3. QED BY <1>1, <1>2 DEF HandingOff, Handing

\* A step that neither promises nor escalates nor ends a hand-off.
LEMMA TurnQuiet ==
    ASSUME TypeOK, TypeOK', TurnsAnswered, NEW w \in Tasks, NEW k,
           job' = [job EXCEPT ![w] = k], job[w].at \notin Handing,
           promises' = promises,
           \A c \in Cases : outcome'[c] = "human_escalated" => outcome[c] = "human_escalated",
           \A c \in Cases : contacts[c] <= contacts'[c],
           faults <= faults'
    PROVE  TurnsAnswered'
<1> SUFFICES ASSUME NEW c \in Cases
             PROVE  promises'[c] + Due(c)' <= contacts'[c] + faults'
  BY DEF TurnsAnswered
<1>1. Due(c)' <= Due(c)
  BY HandsOn, DueKept
<1>2. QED BY <1>1, TurnKept DEF TurnsAnswered

\* A step of a session on its case, paid for by a record or by a fault.
LEMMA TurnPays ==
    ASSUME TypeOK, TypeOK', TurnsAnswered, NEW w \in Tasks, NEW k,
           job' = [job EXCEPT ![w] = k],
           \A c \in Cases : c # job[w].case => promises'[c] = promises[c]
                                               /\ outcome'[c] = outcome[c],
           \A c \in Cases : promises'[c] + Due(c)' <= promises[c] + Due(c) + 1,
           \/ contacts' = [contacts EXCEPT ![job[w].case] = @ + 1] /\ faults' = faults
           \/ contacts' = contacts /\ faults' = faults + 1
    PROVE  TurnsAnswered'
<1> SUFFICES ASSUME NEW c \in Cases
             PROVE  promises'[c] + Due(c)' <= contacts'[c] + faults'
  BY DEF TurnsAnswered
<1>0. promises[c] + Due(c) <= contacts[c] + faults
  BY DEF TurnsAnswered
<1>1. CASE contacts' = contacts /\ faults' = faults + 1
  <2>1. contacts'[c] + faults' = contacts[c] + faults + 1
    BY <1>1, DueNumbers
  <2>2. QED BY <1>0, <2>1, TurnPaid
<1>2. CASE contacts' = [contacts EXCEPT ![job[w].case] = @ + 1] /\ faults' = faults
  <2>1. CASE c = job[w].case
    <3>1. contacts'[c] = contacts[c] + 1
      BY <1>2, <2>1 DEF TypeOK
    <3>2. contacts'[c] + faults' = contacts[c] + faults + 1
      BY <1>2, <3>1, DueNumbers
    <3>3. QED BY <1>0, <3>2, TurnPaid
  <2>2. CASE c # job[w].case
    <3>1. Due(c)' <= Due(c)
      BY <2>2, HandsOn, DueKept
    <3>2. contacts[c] <= contacts'[c] /\ faults <= faults'
      BY <1>2, <2>2, DueNumbers DEF TypeOK
    <3>3. QED BY <1>0, <2>2, <3>1, <3>2, TurnKept
  <2>3. QED BY <2>1, <2>2
<1>3. QED BY <1>1, <1>2

-----------------------------------------------------------------------------
\* Every step, one lemma per group of actions.

LEMMA TurnEnd ==
    ASSUME TypeOK, TypeOK', TurnsAnswered, NEW w \in Tasks, End(w) \/ \E at : Goto(w, at),
           job[w].at \notin Handing, promises' = promises, contacts' = contacts,
           \A c \in Cases : outcome'[c] = "human_escalated" => outcome[c] = "human_escalated",
           faults <= faults'
    PROVE  TurnsAnswered'
<1>1. \A c \in Cases : contacts[c] <= contacts'[c]
  BY DEF TypeOK
<1>2. CASE End(w)
  BY <1>1, <1>2, TurnQuiet DEF End
<1>3. ASSUME NEW at, Goto(w, at) PROVE TurnsAnswered'
  <2> DEFINE k == [job[w] EXCEPT !.at = at]
  <2>1. job' = [job EXCEPT ![w] = k]
    BY <1>3 DEF Goto
  <2> HIDE DEF k
  <2>2. QED BY <1>1, <2>1, TurnQuiet
<1>4. QED BY <1>2, <1>3

LEMMA TurnArrival ==
    ASSUME TypeOK, TypeOK', TurnsAnswered, NEW w \in Workers, Arrival(w)
    PROVE  TurnsAnswered'
<1>0. w \in Tasks
  BY DEF Tasks
<1>1. PICK k : job' = [job EXCEPT ![w] = k]
  BY DEF Arrival, FailureArrives, ReplyArrives, CaptureArrives, Start
<1>2. job[w].at \notin Handing
  BY DEF Arrival, FailureArrives, ReplyArrives, CaptureArrives, Start, Idle, Task, Handing
<1>3. UNCHANGED <<promises, outcome, contacts, faults>>
  BY DEF Arrival, FailureArrives, ReplyArrives, CaptureArrives
<1>4. (\A c \in Cases : contacts[c] <= contacts'[c]) /\ faults <= faults'
  BY <1>3 DEF TypeOK
<1>5. QED BY <1>0, <1>1, <1>2, <1>3, <1>4, TurnQuiet

LEMMA TurnCapture ==
    ASSUME TypeOK, TypeOK', TurnsAnswered, NEW w \in Workers, CaptureStep(w)
    PROVE  TurnsAnswered'
<1>0. w \in Tasks
  BY DEF Tasks
<1>1. job[w].at \notin Handing /\ promises' = promises /\ contacts' = contacts
      /\ (End(w) \/ \E at : Goto(w, at))
  BY DEF CaptureStep, CaptureCommits, CaptureRefused, CaptureConfirmed, Handing
<1>2. \A c \in Cases : outcome'[c] = "human_escalated" => outcome[c] = "human_escalated"
  BY DEF CaptureStep, CaptureCommits, CaptureRefused, CaptureConfirmed, TypeOK
<1>3. faults <= faults'
  BY DEF CaptureStep, CaptureCommits, CaptureRefused, CaptureConfirmed, Raise, TypeOK
<1>4. QED BY <1>0, <1>1, <1>2, <1>3, TurnEnd

LEMMA TurnPipeline ==
    ASSUME TypeOK, TypeOK', TurnsAnswered, NEW w \in Workers, PipelineStep(w)
    PROVE  TurnsAnswered'
<1>0. w \in Tasks
  BY DEF Tasks
<1>1. PICK k : job' = [job EXCEPT ![w] = k]
  BY DEF PipelineStep, PipelineLoads, PipelineDiagnosed, PipelineRaises,
         PipelineOptedOut, PipelineTimesOut, PipelineRedirects, PipelineDisputes,
         FirstContact, PipelineCommits, End, Goto
<1>2. job[w].at \notin Handing /\ promises' = promises
  BY DEF PipelineStep, PipelineLoads, PipelineDiagnosed, PipelineRaises,
         PipelineOptedOut, PipelineTimesOut, PipelineRedirects, PipelineDisputes,
         FirstContact, PipelineCommits, Handing
<1>3. \A c \in Cases : outcome'[c] = "human_escalated" => outcome[c] = "human_escalated"
  BY DEF PipelineStep, PipelineLoads, PipelineDiagnosed, PipelineRaises,
         PipelineOptedOut, PipelineTimesOut, PipelineRedirects, PipelineDisputes,
         FirstContact, PipelineCommits, TypeOK
<1>4. \A c \in Cases : contacts[c] <= contacts'[c]
  BY DEF PipelineStep, PipelineLoads, PipelineDiagnosed, PipelineRaises,
         PipelineOptedOut, PipelineTimesOut, PipelineRedirects, PipelineDisputes,
         FirstContact, PipelineCommits, TypeOK
<1>5. faults <= faults'
  BY DEF PipelineStep, PipelineLoads, PipelineDiagnosed, PipelineRaises,
         PipelineOptedOut, PipelineTimesOut, PipelineRedirects, PipelineDisputes,
         FirstContact, PipelineCommits, Raise, TypeOK
<1>6. QED BY <1>0, <1>1, <1>2, <1>3, <1>4, <1>5, TurnQuiet

LEMMA TurnScheduler ==
    ASSUME TypeOK, TypeOK', TurnsAnswered, SchedulerStep
    PROVE  TurnsAnswered'
<1>0. Scheduler \in Tasks
  BY DEF Tasks
<1>1. promises' = promises /\ outcome' = outcome
  BY DEF SchedulerStep, ScanFinds, FollowupLoads, FollowupSent, FollowupRaises,
         FollowupCommits
<1>2. \A c \in Cases : contacts[c] <= contacts'[c]
  BY DEF SchedulerStep, ScanFinds, FollowupLoads, FollowupSent, FollowupRaises,
         FollowupCommits, TypeOK
<1>3. faults <= faults'
  BY DEF SchedulerStep, ScanFinds, FollowupLoads, FollowupSent, FollowupRaises,
         FollowupCommits, Raise, TypeOK
<1>4. CASE job' = job
  <2>1. \A c \in Cases : Due(c)' = Due(c)
    BY <1>1, <1>4 DEF Due, HandingOff
  <2>2. QED BY <1>1, <1>2, <1>3, <2>1, DueNumbers, TurnKept DEF TurnsAnswered
<1>5. CASE job' # job
  <2>1. job[Scheduler].at \notin Handing
    BY <1>5 DEF SchedulerStep, ScanFinds, FollowupLoads, FollowupSent, FollowupRaises,
                FollowupCommits, Idle, Task, Handing
  <2>2. PICK k : job' = [job EXCEPT ![Scheduler] = k]
    BY <1>5 DEF SchedulerStep, ScanFinds, FollowupLoads, FollowupSent, FollowupRaises,
                FollowupCommits, End, Goto
  <2>3. QED BY <1>0, <1>1, <1>2, <1>3, <2>1, <2>2, TurnQuiet
<1>6. QED BY <1>4, <1>5

\* What a reply writes: a promise, or an escalation, or neither; never both.
LEMMA ReplyDue ==
    ASSUME TypeOK, TypeOK', NEW w \in Tasks, job[w].at \in {"acking", "committing"},
           NEW k, job' = [job EXCEPT ![w] = k],
           ReplyWrites(job[w]) \/ UNCHANGED <<outcome, promises>>, NEW c \in Cases
    PROVE  /\ c # job[w].case => promises'[c] = promises[c] /\ outcome'[c] = outcome[c]
           /\ promises'[c] + Due(c)' <= promises[c] + Due(c) + 1
<1> DEFINE j == job[w]
<1>0. job[w].at \notin Handing
  BY DEF Handing
<1>1. c # j.case => promises'[c] = promises[c] /\ outcome'[c] = outcome[c]
  BY DEF ReplyWrites, TypeOK
<1>2. CASE promises'[c] = promises[c]
  BY <1>1, <1>2, DueNumbers
<1>3. CASE promises'[c] # promises[c]
  <2>1. ReplyWrites(j) /\ j.state = "promise_made"
    BY <1>3 DEF ReplyWrites, TypeOK
  <2>2. ~ReplyCloses(j)
    BY <2>1 DEF ReplyCloses, ReplyTarget
  <2>3. outcome' = outcome
    BY <2>1, <2>2 DEF ReplyWrites
  <2>4. Due(c)' <= Due(c)
    BY <1>0, <2>3, HandsOn, DueKept
  <2>5. promises'[c] = promises[c] + 1
    BY <1>3, <2>1 DEF ReplyWrites, TypeOK
  <2>6. QED BY <1>1, <2>4, <2>5, DueNumbers
<1>4. QED BY <1>2, <1>3

LEMMA TurnReply ==
    ASSUME TypeOK, TypeOK', TurnsAnswered, NEW w \in Workers, ReplyStep(w)
    PROVE  TurnsAnswered'
<1> DEFINE j == job[w]
<1>0. w \in Tasks /\ j \in Job
  BY DEF Tasks, TypeOK
<1>1. CASE \E s \in ReplyStates : ReplyClassified(w, s)
  <2>1. PICK k : job' = [job EXCEPT ![w] = k]
    BY <1>1 DEF ReplyClassified
  <2>2. j.at \notin Handing /\ UNCHANGED <<promises, outcome, contacts, faults>>
    BY <1>1 DEF ReplyClassified, Handing
  <2>3. (\A c \in Cases : contacts[c] <= contacts'[c]) /\ faults <= faults'
    BY <2>2 DEF TypeOK
  <2>4. QED BY <1>0, <2>1, <2>2, <2>3, TurnQuiet
<1>2. CASE ReplyUnclassified(w) \/ ReplyAcked(w) \/ ReplyCommitFails(w) \/ RulesQuiet(w)
  <2>1. j.at \notin Handing /\ UNCHANGED <<promises, outcome, contacts>>
        /\ (End(w) \/ \E at : Goto(w, at))
    BY <1>2 DEF ReplyUnclassified, ReplyAcked, ReplyCommitFails, RulesQuiet, Handing
  <2>2. faults <= faults'
    BY <1>2 DEF ReplyUnclassified, ReplyAcked, ReplyCommitFails, RulesQuiet, Raise, TypeOK
  <2>3. QED BY <1>0, <2>1, <2>2, TurnEnd
<1>3. CASE ReplyCommits(w)
  <2> DEFINE k == [j EXCEPT !.at = "ruling", !.seen = ReplyTarget(j.state, j.seen)]
  <2>1. job' = [job EXCEPT ![w] = k] /\ j.at \in {"acking", "committing"}
        /\ ReplyWrites(j) /\ contacts' = [contacts EXCEPT ![j.case] = @ + 1]
        /\ faults' = faults
    BY <1>3 DEF ReplyCommits
  <2> HIDE DEF k
  <2>2. QED BY <1>0, <2>1, ReplyDue, TurnPays
<1>4. CASE ReplySendRaises(w)
  <2>1. job' = [job EXCEPT ![w] = Idle] /\ j.at \in {"acking", "committing"}
        /\ (ReplyWrites(j) \/ UNCHANGED <<outcome, promises>>)
        /\ contacts' = contacts /\ faults' = faults + 1
    BY <1>4 DEF ReplySendRaises, End, Raise
  <2>2. QED BY <1>0, <2>1, ReplyDue, TurnPays
<1>5. CASE BrokenPromises(w)
  <2>1. UNCHANGED <<promises, contacts, faults>> /\ j.at \notin Handing
    BY <1>5 DEF BrokenPromises, Handing
  <2>2. CASE CanInsert(j.case, "human_escalated")
    <3> SUFFICES ASSUME NEW c \in Cases
                 PROVE  promises'[c] + Due(c)' <= contacts'[c] + faults'
      BY DEF TurnsAnswered
    <3>1. Goto(w, "handing_off") /\ outcome' = [outcome EXCEPT ![j.case] = "human_escalated"]
      BY <1>5, <2>2 DEF BrokenPromises
    <3>2. Due(c)' <= Due(c)
      <4>1. CASE c = j.case
        <5>1. job'[w].case = j.case /\ job'[w].at = "handing_off"
          BY <1>0, <3>1 DEF Goto, TypeOK, Job
        <5>2. HandingOff(c)'
          BY <4>1, <5>1 DEF HandingOff
        <5>3. Due(c)' = 0
          BY <5>2 DEF Due
        <5>4. QED BY <5>3, DueNumbers
      <4>2. CASE c # j.case
        <5>1. outcome'[c] = outcome[c]
          BY <3>1, <4>2 DEF TypeOK
        <5>2. HandingOff(c) => HandingOff(c)'
          BY <1>0, <3>1, <4>2, HandsOn DEF Goto
        <5>3. QED BY <5>1, <5>2, DueKept
      <4>3. QED BY <4>1, <4>2
    <3>3. QED BY <2>1, <3>2, DueNumbers, TurnKept DEF TurnsAnswered
  <2>3. CASE ~CanInsert(j.case, "human_escalated")
    <3>1. End(w) /\ outcome' = outcome
      BY <1>5, <2>3 DEF BrokenPromises
    <3>2. faults <= faults'
      BY <2>1 DEF TypeOK
    <3>3. QED BY <1>0, <2>1, <3>1, <3>2, TurnEnd
  <2>4. QED BY <2>2, <2>3
<1>6. CASE HandoffSent(w)
  <2> SUFFICES ASSUME NEW c \in Cases
               PROVE  promises'[c] + Due(c)' <= contacts'[c] + faults'
    BY DEF TurnsAnswered
  <2>1. UNCHANGED <<outcome, promises, contacts, faults>> /\ Goto(w, "handed_off")
    BY <1>6 DEF HandoffSent
  <2>2. job'[w].case = j.case /\ job'[w].at = "handed_off"
    BY <1>0, <2>1 DEF Goto, TypeOK, Job
  <2>3. HandingOff(c) => HandingOff(c)'
    <3>1. CASE c = j.case
      BY <2>2, <3>1 DEF HandingOff
    <3>2. CASE c # j.case
      BY <1>0, <2>1, <3>2, HandsOn DEF Goto
    <3>3. QED BY <3>1, <3>2
  <2>4. Due(c)' <= Due(c)
    BY <2>1, <2>3, DueKept
  <2>5. QED BY <2>1, <2>4, DueNumbers, TurnKept DEF TurnsAnswered
<1>7. CASE HandoffRaises(w) \/ HandoffCommits(w)
  <2>1. job' = [job EXCEPT ![w] = Idle] /\ UNCHANGED <<outcome, promises>>
    BY <1>7 DEF HandoffRaises, HandoffCommits, End
  <2>2. \/ contacts' = [contacts EXCEPT ![j.case] = @ + 1] /\ faults' = faults
        \/ contacts' = contacts /\ faults' = faults + 1
    BY <1>7 DEF HandoffRaises, HandoffCommits, Raise
  <2>3. \A c \in Cases : promises'[c] + Due(c)' <= promises[c] + Due(c) + 1
    BY <2>1, DueNumbers
  <2>4. QED BY <1>0, <2>1, <2>2, <2>3, TurnPays
<1>8. QED BY <1>1, <1>2, <1>3, <1>4, <1>5, <1>6, <1>7 DEF ReplyStep

LEMMA StepTurns ==
    ASSUME TypeOK, TypeOK', TurnsAnswered, [Next]_vars
    PROVE  TurnsAnswered'
<1>1. CASE Crash
  <2> SUFFICES ASSUME NEW c \in Cases
               PROVE  promises'[c] + Due(c)' <= contacts'[c] + faults'
    BY DEF TurnsAnswered
  <2>1. UNCHANGED <<promises, contacts>> /\ faults' = faults + 1
    BY <1>1 DEF Crash, Raise
  <2>2. QED BY <2>1, DueNumbers, TurnPaid DEF TurnsAnswered
<1>2. CASE SchedulerStep
  BY <1>2, TurnScheduler
<1>3. ASSUME NEW w \in Workers,
             Arrival(w) \/ ReplyStep(w) \/ CaptureStep(w) \/ PipelineStep(w)
      PROVE  TurnsAnswered'
  BY <1>3, TurnArrival, TurnReply, TurnCapture, TurnPipeline
<1>4. CASE UNCHANGED vars
  BY <1>4 DEF vars, TurnsAnswered, Due, HandingOff
<1>5. QED BY <1>1, <1>2, <1>3, <1>4 DEF Next

-----------------------------------------------------------------------------
\* The theorem on answers.

\* On either schema, in whatever order any number of sessions promise, escalate,
\* answer, fail and crash: the promises of a case and the hand-off it is owed
\* never outnumber the answers on record by more than the faults so far.
THEOREM TurnsAlwaysAnswered == Spec => []TurnsAnswered
<1>1. Init => TurnsAnswered
  BY ConstantsOK DEF Init, LedgerInit, TurnsAnswered, Due
<1>2. Consistent /\ Consistent' /\ TurnsAnswered /\ [Next]_vars => TurnsAnswered'
  BY StepTurns DEF Consistent
<1>3. QED BY <1>1, <1>2, AlwaysConsistent, PTL DEF Spec

=============================================================================
