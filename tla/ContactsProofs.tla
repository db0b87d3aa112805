---------------------------- MODULE ContactsProofs ----------------------------
(***************************************************************************)
(* Two safety properties of CaseSessions that count: Intervention rows     *)
(* against messages handed to the channel, and promises against the cap.   *)
(* Both follow the sessions between the await on the channel, or the       *)
(* commit of a promise, and the step that acts on it.                      *)
(***************************************************************************)
EXTENDS CaseSessionsProofs, FiniteSetTheorems

\* Every Intervention row has its message, and every session that owes one has
\* a message of its own besides.  Nothing bounds the number of tasks; but only
\* finitely many can have sent something.
ContactsOwed ==
    \A c \in Cases :
        /\ IsFiniteSet(Unfiled(c))
        /\ contacts[c] + Cardinality(Unfiled(c)) <= sent[c]

-----------------------------------------------------------------------------
\* How the number of sessions that owe a row changes when one session moves.

LEMMA UnfiledMove ==
    ASSUME TypeOK, NEW w \in Tasks, NEW k, job' = [job EXCEPT ![w] = k], NEW c
    PROVE  Unfiled(c)' = IF k.case = c /\ k.at \in Owing
                         THEN Unfiled(c) \cup {w} ELSE Unfiled(c) \ {w}
<1>1. job \in [Tasks -> Job]
  BY DEF TypeOK
<1>2. \A v \in Tasks : job'[v] = IF v = w THEN k ELSE job[v]
  BY <1>1
<1>3. QED BY <1>2 DEF Unfiled

\* Nobody files a row and nobody comes to owe one.
LEMMA OwedKept ==
    ASSUME TypeOK, TypeOK', ContactsOwed, contacts' = contacts,
           \A c \in Cases : sent[c] <= sent'[c],
           \A c \in Cases : Unfiled(c)' \subseteq Unfiled(c)
    PROVE  ContactsOwed'
<1> SUFFICES ASSUME NEW c \in Cases
             PROVE  /\ IsFiniteSet(Unfiled(c)')
                    /\ contacts'[c] + Cardinality(Unfiled(c)') <= sent'[c]
  BY DEF ContactsOwed
<1>1. IsFiniteSet(Unfiled(c)) /\ contacts[c] + Cardinality(Unfiled(c)) <= sent[c]
  BY DEF ContactsOwed
<1>2. IsFiniteSet(Unfiled(c)') /\ Cardinality(Unfiled(c)') <= Cardinality(Unfiled(c))
  BY <1>1, FS_Subset
<1>3. Cardinality(Unfiled(c)) \in Nat /\ Cardinality(Unfiled(c)') \in Nat
  BY <1>1, <1>2, FS_CardinalityType
<1>4. contacts[c] \in Nat /\ sent[c] \in Nat /\ sent'[c] \in Nat /\ sent[c] <= sent'[c]
  BY DEF TypeOK
<1>5. QED BY <1>1, <1>2, <1>3, <1>4

\* A session hands a message to the channel and goes on to where it owes a row.
LEMMA OwedSent ==
    ASSUME TypeOK, ContactsOwed, NEW w \in Tasks, job[w].case \in Cases,
           job[w].at \notin Owing, NEW at \in Owing, Goto(w, at),
           contacts' = contacts, Send(job[w].case)
    PROVE  ContactsOwed'
<1> DEFINE d == job[w].case
           k == [job[w] EXCEPT !.at = at]
<1> SUFFICES ASSUME NEW c \in Cases
             PROVE  /\ IsFiniteSet(Unfiled(c)')
                    /\ contacts'[c] + Cardinality(Unfiled(c)') <= sent'[c]
  BY DEF ContactsOwed
<1>1. IsFiniteSet(Unfiled(c)) /\ contacts[c] + Cardinality(Unfiled(c)) <= sent[c]
  BY DEF ContactsOwed
<1>2. Cardinality(Unfiled(c)) \in Nat
  BY <1>1, FS_CardinalityType
<1>3. contacts[c] \in Nat /\ sent[c] \in Nat
  BY DEF TypeOK
<1>4. k.case = d /\ k.at = at /\ job' = [job EXCEPT ![w] = k]
  BY DEF TypeOK, Job, Goto
<1> HIDE DEF k
<1>5. CASE c = d
  <2>1. Unfiled(c)' = Unfiled(c) \cup {w}
    BY <1>4, <1>5, UnfiledMove
  <2>2. w \notin Unfiled(c)
    BY DEF Unfiled
  <2>3. IsFiniteSet(Unfiled(c)') /\ Cardinality(Unfiled(c)') = Cardinality(Unfiled(c)) + 1
    BY <1>1, <2>1, <2>2, FS_AddElement
  <2>4. sent'[c] = sent[c] + 1
    BY <1>5 DEF Send, TypeOK
  <2>5. QED BY <1>1, <1>2, <1>3, <2>3, <2>4
<1>6. CASE c # d
  <2>1. Unfiled(c)' = Unfiled(c) \ {w}
    BY <1>4, <1>6, UnfiledMove
  <2>2. w \notin Unfiled(c)
    BY DEF Unfiled
  <2>3. Unfiled(c)' = Unfiled(c)
    BY <2>1, <2>2
  <2>4. sent'[c] = sent[c]
    BY <1>6 DEF Send, TypeOK
  <2>5. QED BY <1>1, <2>3, <2>4
<1>7. QED BY <1>5, <1>6

\* A session that owes a row commits it.
LEMMA OwedFiled ==
    ASSUME TypeOK, ContactsOwed, NEW w \in Tasks, job[w].case \in Cases,
           job[w].at \in Owing, NEW k, k.at \notin Owing,
           job' = [job EXCEPT ![w] = k], sent' = sent,
           contacts' = [contacts EXCEPT ![job[w].case] = @ + 1]
    PROVE  ContactsOwed'
<1> DEFINE d == job[w].case
<1> SUFFICES ASSUME NEW c \in Cases
             PROVE  /\ IsFiniteSet(Unfiled(c)')
                    /\ contacts'[c] + Cardinality(Unfiled(c)') <= sent'[c]
  BY DEF ContactsOwed
<1>1. IsFiniteSet(Unfiled(c)) /\ contacts[c] + Cardinality(Unfiled(c)) <= sent[c]
  BY DEF ContactsOwed
<1>2. Cardinality(Unfiled(c)) \in Nat
  BY <1>1, FS_CardinalityType
<1>3. contacts[c] \in Nat /\ sent[c] \in Nat
  BY DEF TypeOK
<1>4. Unfiled(c)' = Unfiled(c) \ {w}
  BY UnfiledMove
<1>5. IsFiniteSet(Unfiled(c)')
      /\ Cardinality(Unfiled(c)') = IF w \in Unfiled(c) THEN Cardinality(Unfiled(c)) - 1
                                                       ELSE Cardinality(Unfiled(c))
  BY <1>1, <1>4, FS_RemoveElement
<1>6. CASE c = d
  <2>1. w \in Unfiled(c)
    BY <1>6 DEF Unfiled
  <2>2. contacts'[c] = contacts[c] + 1
    BY <1>6 DEF TypeOK
  <2>3. QED BY <1>1, <1>2, <1>3, <1>5, <2>1, <2>2
<1>7. CASE c # d
  <2>1. w \notin Unfiled(c)
    BY <1>7 DEF Unfiled
  <2>2. contacts'[c] = contacts[c]
    BY <1>7 DEF TypeOK
  <2>3. QED BY <1>1, <1>5, <2>1, <2>2
<1>8. QED BY <1>6, <1>7

\* A session moves to a place where it owes nothing, and files nothing.
LEMMA OwedElsewhere ==
    ASSUME TypeOK, TypeOK', ContactsOwed, NEW w \in Tasks, NEW k, k.at \notin Owing,
           job' = [job EXCEPT ![w] = k], contacts' = contacts,
           sent' = sent \/ \E c : Send(c)
    PROVE  ContactsOwed'
<1>1. ASSUME NEW c \in Cases PROVE Unfiled(c)' \subseteq Unfiled(c)
  <2>1. Unfiled(c)' = Unfiled(c) \ {w}
    BY UnfiledMove
  <2>2. QED BY <2>1
<1>2. \A c \in Cases : sent[c] <= sent'[c]
  BY DEF Send, TypeOK
<1>3. QED BY <1>1, <1>2, OwedKept, Zenon

LEMMA OwedEnd ==
    ASSUME TypeOK, TypeOK', ContactsOwed, NEW w \in Tasks, End(w), contacts' = contacts,
           sent' = sent \/ \E c : Send(c)
    PROVE  ContactsOwed'
<1>1. Idle.at \notin Owing
  BY DEF Idle, Task, Owing
<1>2. QED BY <1>1, OwedElsewhere DEF End

LEMMA OwedGoto ==
    ASSUME TypeOK, TypeOK', ContactsOwed, NEW w \in Tasks, NEW at, at \notin Owing,
           Goto(w, at), contacts' = contacts, sent' = sent
    PROVE  ContactsOwed'
<1> DEFINE k == [job[w] EXCEPT !.at = at]
<1>1. k.at \notin Owing /\ job' = [job EXCEPT ![w] = k]
  BY DEF Goto, TypeOK, Job
<1>2. QED BY <1>1, OwedElsewhere

-----------------------------------------------------------------------------
\* Every step, one lemma per group of actions.

LEMMA OwedArrival ==
    ASSUME TypeOK, TypeOK', ContactsOwed, NEW w \in Workers, Arrival(w)
    PROVE  ContactsOwed'
<1>0. w \in Tasks
  BY DEF Tasks
<1>1. ASSUME NEW c \in Cases, ReplyArrives(w, c) PROVE ContactsOwed'
  <2> DEFINE k == IF status[c] \in Locked THEN Idle ELSE Session("analysing", c)
  <2>1. k.at \notin Owing
    BY DEF Idle, Session, Task, Owing
  <2>2. job' = [job EXCEPT ![w] = k] /\ contacts' = contacts /\ sent' = sent
    BY <1>1 DEF ReplyArrives, Start
  <2>3. QED BY <1>0, <2>1, <2>2, OwedElsewhere
<1>2. ASSUME NEW c \in Cases, CaptureArrives(w, c) PROVE ContactsOwed'
  <2> DEFINE k == IF status[c] \in {"recovered", "stopped", "escalated"}
                  THEN Idle ELSE Session("crediting", c)
  <2>1. k.at \notin Owing
    BY DEF Idle, Session, Task, Owing
  <2>2. job' = [job EXCEPT ![w] = k] /\ contacts' = contacts /\ sent' = sent
    BY <1>2 DEF CaptureArrives, Start
  <2>3. QED BY <1>0, <2>1, <2>2, OwedElsewhere
<1>3. ASSUME FailureArrives(w) PROVE ContactsOwed'
  <2> DEFINE k == Task("queued", opened + 1, "absent")
  <2>1. k.at \notin Owing
    BY DEF Task, Owing
  <2>2. job' = [job EXCEPT ![w] = k] /\ contacts' = contacts /\ sent' = sent
    BY <1>3 DEF FailureArrives, Start
  <2>3. QED BY <1>0, <2>1, <2>2, OwedElsewhere
<1>4. QED BY <1>1, <1>2, <1>3 DEF Arrival

LEMMA OwedReplyStep ==
    ASSUME Consistent, TypeOK', ContactsOwed, NEW w \in Workers, ReplyStep(w)
    PROVE  ContactsOwed'
<1> DEFINE j == job[w]
<1>0. w \in Tasks /\ TypeOK /\ j \in Job
  BY DEF Tasks, Consistent, TypeOK
<1>1. ASSUME NEW s \in ReplyStates, ReplyClassified(w, s) PROVE ContactsOwed'
  <2> DEFINE k == IF s \in StoredStates THEN [j EXCEPT !.at = "acking", !.state = s]
                                        ELSE Idle
  <2>1. k.at \notin Owing
    BY <1>0 DEF Idle, Task, Owing, Job
  <2>2. job' = [job EXCEPT ![w] = k] /\ contacts' = contacts /\ sent' = sent
    BY <1>1 DEF ReplyClassified
  <2>3. QED BY <1>0, <2>1, <2>2, OwedElsewhere
<1>2. CASE ReplyUnclassified(w) \/ ReplyCommitFails(w) \/ ReplySendRaises(w)
           \/ RulesQuiet(w) \/ HandoffRaises(w)
  BY <1>0, <1>2, OwedEnd DEF ReplyUnclassified, ReplyCommitFails, ReplySendRaises,
                             RulesQuiet, HandoffRaises
<1>3. ASSUME ReplyAcked(w) PROVE ContactsOwed'
  <2>1. j.at \notin Owing /\ j.at # "idle"
    BY <1>3 DEF ReplyAcked, Owing
  <2>2. "committing" \in Owing
    BY DEF Owing
  <2>3. QED BY <1>0, <1>3, <2>1, <2>2, BusyCase, OwedSent DEF ReplyAcked
<1>4. ASSUME ReplyCommits(w) PROVE ContactsOwed'
  <2> DEFINE k == [j EXCEPT !.at = "ruling", !.seen = ReplyTarget(j.state, j.seen)]
  <2>1. k.at \notin Owing
    BY <1>0 DEF Owing, Job
  <2>2. job' = [job EXCEPT ![w] = k] /\ sent' = sent
        /\ contacts' = [contacts EXCEPT ![j.case] = @ + 1]
    BY <1>4 DEF ReplyCommits
  <2>3. j.at \in Owing /\ j.at # "idle"
    BY <1>4 DEF ReplyCommits, Owing
  <2>4. QED BY <1>0, <2>1, <2>2, <2>3, BusyCase, OwedFiled
<1>5. ASSUME BrokenPromises(w) PROVE ContactsOwed'
  <2>1. "handing_off" \notin Owing
    BY DEF Owing
  <2>2. QED BY <1>0, <1>5, <2>1, OwedEnd, OwedGoto DEF BrokenPromises
<1>6. ASSUME HandoffSent(w) PROVE ContactsOwed'
  <2>1. j.at \notin Owing /\ j.at # "idle"
    BY <1>6 DEF HandoffSent, Owing
  <2>2. "handed_off" \in Owing
    BY DEF Owing
  <2>3. QED BY <1>0, <1>6, <2>1, <2>2, BusyCase, OwedSent DEF HandoffSent
<1>7. ASSUME HandoffCommits(w) PROVE ContactsOwed'
  <2>1. Idle.at \notin Owing
    BY DEF Idle, Task, Owing
  <2>2. j.at \in Owing /\ j.at # "idle"
    BY <1>7 DEF HandoffCommits, Owing
  <2>3. QED BY <1>0, <1>7, <2>1, <2>2, BusyCase, OwedFiled DEF HandoffCommits, End
<1>8. QED BY <1>1, <1>2, <1>3, <1>4, <1>5, <1>6, <1>7 DEF ReplyStep

LEMMA OwedCaptureStep ==
    ASSUME TypeOK, TypeOK', ContactsOwed, NEW w \in Workers, CaptureStep(w)
    PROVE  ContactsOwed'
<1>0. w \in Tasks
  BY DEF Tasks
<1>1. CASE CaptureCommits(w)
  <2>1. "confirming" \notin Owing
    BY DEF Owing
  <2>2. QED BY <1>0, <1>1, <2>1, OwedGoto DEF CaptureCommits
<1>2. CASE CaptureRefused(w) \/ CaptureConfirmed(w)
  BY <1>0, <1>2, OwedEnd DEF CaptureRefused, CaptureConfirmed
<1>3. QED BY <1>1, <1>2 DEF CaptureStep

LEMMA OwedPipelineStep ==
    ASSUME Consistent, TypeOK', ContactsOwed, NEW w \in Workers, PipelineStep(w)
    PROVE  ContactsOwed'
<1> DEFINE j == job[w]
<1>0. w \in Tasks /\ TypeOK /\ j \in Job
  BY DEF Tasks, Consistent, TypeOK
<1>1. ASSUME PipelineLoads(w) PROVE ContactsOwed'
  <2>1. Session("diagnosing", j.case).at \notin Owing
    BY DEF Session, Task, Owing
  <2>2. QED BY <1>0, <1>1, <2>1, OwedElsewhere DEF PipelineLoads
<1>2. ASSUME NEW causes \in SUBSET Causes, PipelineDiagnosed(w, causes)
      PROVE  ContactsOwed'
  <2> DEFINE k == [j EXCEPT !.at = "gating", !.causes = causes]
  <2>1. k.at \notin Owing
    BY <1>0 DEF Owing, Job
  <2>2. job' = [job EXCEPT ![w] = k] /\ contacts' = contacts /\ sent' = sent
    BY <1>2 DEF PipelineDiagnosed
  <2>3. QED BY <1>0, <2>1, <2>2, OwedElsewhere
<1>3. ASSUME PipelineRedirects(w) PROVE ContactsOwed'
  <2> DEFINE new == IF Redirects(j) THEN "payment_method_required" ELSE j.seen
             k == [j EXCEPT !.at = "disputing", !.seen = new]
  <2>1. k.at \notin Owing
    BY <1>0 DEF Owing, Job
  <2>2. job' = [job EXCEPT ![w] = k] /\ contacts' = contacts /\ sent' = sent
    BY <1>3 DEF PipelineRedirects
  <2>3. QED BY <1>0, <2>1, <2>2, OwedElsewhere
<1>4. CASE PipelineRaises(w) \/ PipelineOptedOut(w) \/ PipelineTimesOut(w)
           \/ PipelineDisputes(w)
  BY <1>0, <1>4, OwedEnd DEF PipelineRaises, PipelineOptedOut, PipelineTimesOut,
                             PipelineDisputes
<1>5. ASSUME FirstContact(w) PROVE ContactsOwed'
  <2>1. j.at \notin Owing /\ j.at # "idle"
    BY <1>5 DEF FirstContact, Owing
  <2>2. "filing" \in Owing
    BY DEF Owing
  <2>3. QED BY <1>0, <1>5, <2>1, <2>2, BusyCase, OwedSent DEF FirstContact
<1>6. ASSUME PipelineCommits(w) PROVE ContactsOwed'
  <2>1. Idle.at \notin Owing
    BY DEF Idle, Task, Owing
  <2>2. j.at \in Owing /\ j.at # "idle"
    BY <1>6 DEF PipelineCommits, Owing
  <2>3. QED BY <1>0, <1>6, <2>1, <2>2, BusyCase, OwedFiled DEF PipelineCommits, End
<1>7. QED BY <1>1, <1>2, <1>3, <1>4, <1>5, <1>6 DEF PipelineStep

LEMMA OwedSchedulerStep ==
    ASSUME Consistent, TypeOK', ContactsOwed, SchedulerStep
    PROVE  ContactsOwed'
<1> DEFINE j == job[Scheduler]
<1>0. Scheduler \in Tasks /\ TypeOK
  BY DEF Tasks, Consistent
<1>1. ASSUME NEW ids \in SUBSET Cases, ScanFinds(ids) PROVE ContactsOwed'
  BY <1>1 DEF ScanFinds, ContactsOwed, Unfiled
<1>2. ASSUME NEW c \in Cases, FollowupLoads(c) PROVE ContactsOwed'
  <2>1. Session("reminding", c).at \notin Owing
    BY DEF Session, Task, Owing
  <2>2. QED BY <1>0, <1>2, <2>1, OwedElsewhere DEF FollowupLoads
<1>3. ASSUME FollowupSent PROVE ContactsOwed'
  <2>1. j.at \notin Owing /\ j.at # "idle"
    BY <1>3 DEF FollowupSent, Owing
  <2>2. "logging" \in Owing
    BY DEF Owing
  <2>3. QED BY <1>0, <1>3, <2>1, <2>2, BusyCase, OwedSent DEF FollowupSent
<1>4. ASSUME FollowupRaises PROVE ContactsOwed'
  BY <1>0, <1>4, OwedEnd DEF FollowupRaises
<1>5. ASSUME FollowupCommits PROVE ContactsOwed'
  <2>1. Idle.at \notin Owing
    BY DEF Idle, Task, Owing
  <2>2. j.at \in Owing /\ j.at # "idle"
    BY <1>5 DEF FollowupCommits, Owing
  <2>3. QED BY <1>0, <1>5, <2>1, <2>2, BusyCase, OwedFiled DEF FollowupCommits, End
<1>6. QED BY <1>1, <1>2, <1>3, <1>4, <1>5 DEF SchedulerStep

LEMMA StepOwed ==
    ASSUME Consistent, Consistent', ContactsOwed, [Next]_vars
    PROVE  ContactsOwed'
<1>0. TypeOK /\ TypeOK'
  BY DEF Consistent
<1>1. CASE Crash
  <2>1. contacts' = contacts /\ sent' = sent
    BY <1>1 DEF Crash
  <2>2. \A c \in Cases : sent[c] <= sent'[c]
    BY <1>0, <2>1 DEF TypeOK
  <2>3. \A w \in Tasks : job'[w].at \notin Owing
    BY <1>1 DEF Crash, Idle, Task, Owing
  <2>4. \A c \in Cases : Unfiled(c)' \subseteq Unfiled(c)
    BY <2>3 DEF Unfiled
  <2>5. QED BY <1>0, <2>1, <2>2, <2>4, OwedKept
<1>2. CASE SchedulerStep
  BY <1>0, <1>2, OwedSchedulerStep
<1>3. ASSUME NEW w \in Workers,
             Arrival(w) \/ ReplyStep(w) \/ CaptureStep(w) \/ PipelineStep(w)
      PROVE  ContactsOwed'
  BY <1>0, <1>3, OwedArrival, OwedReplyStep, OwedCaptureStep, OwedPipelineStep
<1>4. CASE UNCHANGED vars
  BY <1>4 DEF vars, ContactsOwed, Unfiled
<1>5. QED BY <1>1, <1>2, <1>3, <1>4 DEF Next

LEMMA InitOwed == Init => ContactsOwed
<1> SUFFICES ASSUME Init, NEW c \in Cases
             PROVE  /\ IsFiniteSet(Unfiled(c))
                    /\ contacts[c] + Cardinality(Unfiled(c)) <= sent[c]
  BY DEF ContactsOwed
<1>1. Unfiled(c) = {}
  BY DEF Init, Unfiled, Idle, Task, Owing
<1>2. contacts[c] = 0 /\ sent[c] = 0
  BY DEF Init
<1>3. QED BY <1>1, <1>2, FS_EmptySet

-----------------------------------------------------------------------------
\* The theorem on messages.

\* The inductive invariant of the count.
THEOREM AlwaysOwed == Spec => []ContactsOwed
<1>1. Consistent /\ Consistent' /\ ContactsOwed /\ [Next]_vars => ContactsOwed'
  BY StepOwed
<1>2. QED BY <1>1, InitOwed, AlwaysConsistent, PTL DEF Spec

\* In whatever order any number of sessions send, record, fail and crash, no
\* Intervention row is committed without a message that was handed to the
\* channel for it.
THEOREM NoContactUnsent == Spec => []NoUnsentContact
<1>1. Consistent /\ ContactsOwed => NoUnsentContact
  <2> SUFFICES ASSUME Consistent, ContactsOwed, NEW c \in Cases
               PROVE  contacts[c] <= sent[c]
    BY DEF NoUnsentContact
  <2>1. IsFiniteSet(Unfiled(c)) /\ contacts[c] + Cardinality(Unfiled(c)) <= sent[c]
    BY DEF ContactsOwed
  <2>2. Cardinality(Unfiled(c)) \in Nat
    BY <2>1, FS_CardinalityType
  <2>3. contacts[c] \in Nat /\ sent[c] \in Nat
    BY DEF Consistent, TypeOK
  <2>4. QED BY <2>1, <2>2, <2>3
<1>2. QED BY <1>1, AlwaysOwed, AlwaysConsistent, PTL

-----------------------------------------------------------------------------
\* The cap on broken promises, where the tables accept "human_escalated".

Ruling(w, c) == job[w].case = c /\ job[w].at = "ruling"

Watched(c) == outcome[c] # "none" \/ \E w \in Workers : Ruling(w, c)

\* A session that counts promises leaves only by the rules themselves.
RulesApplied(w) == RulesQuiet(w) \/ BrokenPromises(w)

\* Faults are only added, one at a time.
LEMMA StepRaises ==
    ASSUME [Next]_vars
    PROVE  faults' = faults \/ Raise
<1>1. CASE Crash \/ SchedulerStep \/ UNCHANGED vars
  BY <1>1 DEF Crash, vars, SchedulerStep, ScanFinds, FollowupLoads, FollowupSent,
              FollowupRaises, FollowupCommits
<1>2. ASSUME NEW w \in Workers, Arrival(w) \/ CaptureStep(w)
      PROVE  faults' = faults \/ Raise
  BY <1>2 DEF Arrival, FailureArrives, ReplyArrives, CaptureArrives,
              CaptureStep, CaptureCommits, CaptureRefused, CaptureConfirmed
<1>3. ASSUME NEW w \in Workers, ReplyStep(w) PROVE faults' = faults \/ Raise
  BY <1>3 DEF ReplyStep, ReplyClassified, ReplyUnclassified, ReplyAcked, ReplyCommits,
              ReplyCommitFails, ReplySendRaises, RulesQuiet, BrokenPromises,
              HandoffSent, HandoffRaises, HandoffCommits
<1>4. ASSUME NEW w \in Workers, PipelineStep(w) PROVE faults' = faults \/ Raise
  BY <1>4 DEF PipelineStep, PipelineLoads, PipelineDiagnosed, PipelineRaises,
              PipelineOptedOut, PipelineTimesOut, PipelineRedirects,
              PipelineDisputes, FirstContact, PipelineCommits
<1>5. QED BY <1>1, <1>2, <1>3, <1>4 DEF Next

LEMMA StepFaults ==
    ASSUME Consistent, [Next]_vars, faults' = 0
    PROVE  faults = 0
  BY StepRaises DEF Raise, Consistent, TypeOK

\* A step without a fault: no session but one moves, none leaves the rules by
\* another way, and a promise is counted only by a session that goes on to them.
LEMMA StepRules ==
    ASSUME Consistent, [Next]_vars, faults' = 0, NEW w \in Workers, job[w].at = "ruling"
    PROVE  job'[w] = job[w] \/ RulesApplied(w)
<1>0. job \in [Tasks -> Job] /\ w \in Tasks /\ Scheduler \in Tasks /\ w # Scheduler
  BY ConstantsOK DEF Consistent, TypeOK, Tasks
<1>1. ~Raise
  BY DEF Raise, Consistent, TypeOK
<1>2. CASE Crash \/ UNCHANGED vars
  BY <1>1, <1>2 DEF Crash, vars
<1>3. CASE SchedulerStep
  BY <1>0, <1>3 DEF SchedulerStep, ScanFinds, FollowupLoads, FollowupSent,
                    FollowupRaises, FollowupCommits, Goto, End
<1>4. ASSUME NEW v \in Workers, v # w,
             Arrival(v) \/ ReplyStep(v) \/ CaptureStep(v) \/ PipelineStep(v)
      PROVE  job'[w] = job[w]
  <2>1. PICK k : job' = [job EXCEPT ![v] = k]
    <3>1. CASE Arrival(v)
      BY <3>1 DEF Arrival, FailureArrives, ReplyArrives, CaptureArrives, Start
    <3>2. CASE ReplyStep(v)
      BY <3>2 DEF ReplyStep, ReplyClassified, ReplyUnclassified, ReplyAcked, ReplyCommits,
                  ReplyCommitFails, ReplySendRaises, RulesQuiet, BrokenPromises,
                  HandoffSent, HandoffRaises, HandoffCommits, End, Goto
    <3>3. CASE CaptureStep(v)
      BY <3>3 DEF CaptureStep, CaptureCommits, CaptureRefused, CaptureConfirmed, End, Goto
    <3>4. CASE PipelineStep(v)
      BY <3>4 DEF PipelineStep, PipelineLoads, PipelineDiagnosed, PipelineRaises,
                  PipelineOptedOut, PipelineTimesOut, PipelineRedirects,
                  PipelineDisputes, FirstContact, PipelineCommits, End, Goto
    <3>5. QED BY <1>4, <3>1, <3>2, <3>3, <3>4
  <2>2. QED BY <1>0, <1>4, <2>1
<1>5. CASE Arrival(w)
  BY <1>5 DEF Arrival, FailureArrives, ReplyArrives, CaptureArrives, Start, Idle, Task
<1>6. CASE ReplyStep(w)
  BY <1>6 DEF ReplyStep, ReplyClassified, ReplyUnclassified, ReplyAcked, ReplyCommits,
              ReplyCommitFails, ReplySendRaises, HandoffSent, HandoffRaises,
              HandoffCommits, RulesApplied
<1>7. CASE CaptureStep(w)
  BY <1>7 DEF CaptureStep, CaptureCommits, CaptureRefused, CaptureConfirmed
<1>8. CASE PipelineStep(w)
  BY <1>8 DEF PipelineStep, PipelineLoads, PipelineDiagnosed, PipelineRaises,
              PipelineOptedOut, PipelineTimesOut, PipelineRedirects, PipelineDisputes,
              FirstContact, PipelineCommits
<1>9. QED BY <1>2, <1>3, <1>4, <1>5, <1>6, <1>7, <1>8 DEF Next

\* Whoever counts a promise of the case goes on to the rules.
LEMMA StepPromises ==
    ASSUME Consistent, [Next]_vars, faults' = 0, NEW c \in Cases,
           promises'[c] # promises[c]
    PROVE  \E w \in Workers : Ruling(w, c)'
<1>1. ~Raise
  BY DEF Raise, Consistent, TypeOK
<1>2. CASE Crash \/ SchedulerStep \/ UNCHANGED vars
  BY <1>2 DEF Crash, vars, SchedulerStep, ScanFinds, FollowupLoads, FollowupSent,
              FollowupRaises, FollowupCommits
<1>3. ASSUME NEW w \in Workers, Arrival(w) \/ CaptureStep(w) \/ PipelineStep(w)
      PROVE  FALSE
  <2>1. promises' = promises
    BY <1>3 DEF Arrival, FailureArrives, ReplyArrives, CaptureArrives,
                CaptureStep, CaptureCommits, CaptureRefused, CaptureConfirmed,
                PipelineStep, PipelineLoads, PipelineDiagnosed, PipelineRaises,
                PipelineOptedOut, PipelineTimesOut, PipelineRedirects,
                PipelineDisputes, FirstContact, PipelineCommits
  <2>2. QED BY <2>1
<1>4. ASSUME NEW w \in Workers, ReplyStep(w) PROVE Ruling(w, c)'
  <2>1. ReplyCommits(w)
    <3>1. CASE \/ \E s \in ReplyStates : ReplyClassified(w, s)
               \/ ReplyUnclassified(w) \/ ReplyAcked(w) \/ ReplyCommitFails(w)
               \/ RulesQuiet(w) \/ BrokenPromises(w) \/ HandoffSent(w)
               \/ HandoffRaises(w) \/ HandoffCommits(w)
      <4>1. promises' = promises
        BY <3>1 DEF ReplyClassified, ReplyUnclassified, ReplyAcked, ReplyCommitFails,
                    RulesQuiet, BrokenPromises, HandoffSent, HandoffRaises, HandoffCommits
      <4>2. QED BY <4>1
    <3>2. ~ReplySendRaises(w)
      BY <1>1 DEF ReplySendRaises
    <3>3. QED BY <1>4, <3>1, <3>2 DEF ReplyStep
  <2>2. job[w].case = c
    BY <2>1 DEF ReplyCommits, ReplyWrites, Consistent, TypeOK
  <2>3. job'[w].case = job[w].case /\ job'[w].at = "ruling"
    BY <2>1 DEF ReplyCommits, Consistent, TypeOK, Tasks, Job
  <2>4. QED BY <2>2, <2>3 DEF Ruling
<1>5. QED BY <1>2, <1>3, <1>4 DEF Next

\* The rules leave a case that reached the cap closed.
LEMMA RulesClose ==
    ASSUME Consistent, "human_escalated" \in FinalStates, NEW w \in Workers,
           RulesApplied(w), promises[job[w].case] >= MaxBrokenPromises
    PROVE  outcome'[job[w].case] # "none"
<1> DEFINE c == job[w].case
<1>0. w \in Tasks /\ job[w].at = "ruling"
  BY DEF Tasks, RulesApplied, RulesQuiet, BrokenPromises
<1>1. c \in Cases
  BY <1>0, BusyCase
<1>2. CASE RulesQuiet(w)
  <2>1. job[w].seen = "stopped"
    BY <1>2 DEF RulesQuiet, CapReached
  <2>2. outcome[c] # "none"
    BY <1>0, <2>1 DEF Consistent, CopiesBacked, Closed
  <2>3. QED BY <1>2, <2>2 DEF RulesQuiet
<1>3. CASE BrokenPromises(w)
  <2>1. CASE CanInsert(c, "human_escalated")
    BY <1>1, <1>3, <2>1 DEF BrokenPromises, Consistent, TypeOK
  <2>2. CASE ~CanInsert(c, "human_escalated")
    BY <1>3, <2>2 DEF BrokenPromises, CanInsert
  <2>3. QED BY <2>1, <2>2
<1>4. QED BY <1>2, <1>3 DEF RulesApplied

LEMMA StepCapPending ==
    ASSUME "human_escalated" \in FinalStates, Consistent, Consistent',
           PromiseCapPending, [Next]_vars
    PROVE  PromiseCapPending'
<1> SUFFICES ASSUME faults' = 0, NEW c \in Cases, promises'[c] >= MaxBrokenPromises
             PROVE  outcome'[c] # "none" \/ \E w \in Workers : Ruling(w, c)'
  BY DEF PromiseCapPending, Ruling
<1>0. faults = 0
  BY StepFaults
<1>1. CASE promises'[c] # promises[c]
  BY <1>1, StepPromises
<1>2. CASE promises'[c] = promises[c]
  <2>1. CASE outcome[c] # "none"
    BY <2>1, StepMoves, OutcomeKept
  <2>2. ASSUME NEW w \in Workers, Ruling(w, c)
        PROVE  outcome'[c] # "none" \/ Ruling(w, c)'
    <3>1. CASE job'[w] = job[w]
      BY <2>2, <3>1 DEF Ruling
    <3>2. CASE RulesApplied(w)
      BY <1>2, <2>2, <3>2, RulesClose DEF Ruling
    <3>3. QED BY <2>2, <3>1, <3>2, StepRules DEF Ruling
  <2>3. QED BY <1>0, <1>2, <2>1, <2>2 DEF PromiseCapPending, Ruling
<1>3. QED BY <1>1, <1>2

\* With the CHECK of the models, which lists "human_escalated", a case whose
\* customer has broken the allowed number of promises is closed, or a session is
\* about to count them: no interleaving of replies, payments and reminders lets
\* the cap pass unnoticed.  A fault may: an exception between the commit of the
\* promise and the rules loses the count until the next reply.
THEOREM CapNeverSilent ==
    ASSUME "human_escalated" \in FinalStates
    PROVE  Spec => []PromiseCapPending
<1>1. Init => PromiseCapPending
  BY ConstantsOK DEF Init, PromiseCapPending
<1>2. Consistent /\ Consistent' /\ PromiseCapPending /\ [Next]_vars => PromiseCapPending'
  BY StepCapPending
<1>3. QED BY <1>1, <1>2, AlwaysConsistent, PTL DEF Spec

=============================================================================
