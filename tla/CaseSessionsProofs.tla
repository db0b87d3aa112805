------------------------- MODULE CaseSessionsProofs -------------------------
(* Theorems about CaseSessions, for every value of its constants. *)
EXTENDS CaseSessions, TLAPS

-----------------------------------------------------------------------------
\* Types of the session records the actions build.

LEMMA TaskType ==
    ASSUME NEW at \in Steps, NEW c \in 0..NumCases, NEW seen \in Statuses
    PROVE  Task(at, c, seen) \in Job
  BY DEF Task, Job

LEMMA IdleType == Idle \in Job
  BY ConstantsOK, TaskType DEF Idle, Steps, Statuses

LEMMA SessionType ==
    ASSUME TypeOK, NEW at \in Steps, NEW c \in Cases
    PROVE  Session(at, c) \in Job
<1>1. c \in 0..NumCases
  BY ConstantsOK DEF Cases
<1>2. status[c] \in Statuses
  BY DEF TypeOK
<1>3. QED BY <1>1, <1>2, TaskType DEF Session

LEMMA StartType ==
    ASSUME TypeOK, NEW w, NEW j \in Job, Start(w, j)
    PROVE  job' \in [Tasks -> Job] /\ events' \in Nat
<1>1. job' \in [Tasks -> Job]
  BY DEF Start, TypeOK
<1>2. events' \in Nat
  BY DEF Start, TypeOK
<1>3. QED BY <1>1, <1>2

LEMMA EndType ==
    ASSUME TypeOK, NEW w, End(w)
    PROVE  job' \in [Tasks -> Job]
  BY IdleType DEF End, TypeOK

LEMMA GotoType ==
    ASSUME TypeOK, NEW w \in Tasks, NEW at \in Steps, Goto(w, at)
    PROVE  job' \in [Tasks -> Job]
  BY DEF Goto, TypeOK, Job

\* A row counter goes up by one, or the index is no case and nothing changes.
LEMMA BumpType ==
    ASSUME NEW f \in [Cases -> Nat], NEW c
    PROVE  [f EXCEPT ![c] = @ + 1] \in [Cases -> Nat]
<1>1. ASSUME NEW d \in Cases PROVE [f EXCEPT ![c] = @ + 1][d] \in Nat
  <2>1. CASE d = c
    <3>1. f[d] + 1 \in Nat OBVIOUS
    <3>2. QED BY <2>1, <3>1
  <2>2. CASE d # c
    BY <2>2
  <2>3. QED BY <2>1, <2>2
<1>2. QED BY <1>1

LEMMA RaiseType == TypeOK /\ Raise => faults' \in Nat
  BY DEF Raise, TypeOK

LEMMA SendType == ASSUME TypeOK, NEW c, Send(c) PROVE sent' \in [Cases -> Nat]
  BY BumpType DEF Send, TypeOK

LEMMA FlushedType ==
    ASSUME TypeOK, NEW c, NEW old, NEW new \in Statuses
    PROVE  Flushed(c, old, new) \in [Cases -> Statuses]
  BY DEF Flushed, TypeOK

LEMMA ReplyTargetType ==
    ASSUME NEW s \in ReplyStates \cup {"none"}, NEW old \in Statuses
    PROVE  ReplyTarget(s, old) \in Statuses
  BY DEF ReplyTarget, ReplyStates, Statuses, Working, Closed

LEMMA ReplyWritesType ==
    ASSUME TypeOK, NEW j \in Job, ReplyWrites(j)
    PROVE  /\ status' \in [Cases -> Statuses]
           /\ outcome' \in [Cases -> Closed \cup {"none"}]
           /\ promises' \in [Cases -> Nat]
<1>1. ReplyTarget(j.state, j.seen) \in Statuses
  BY ReplyTargetType DEF Job
<1>2. status' \in [Cases -> Statuses]
  BY <1>1, FlushedType DEF ReplyWrites
<1>3. outcome' \in [Cases -> Closed \cup {"none"}]
  BY DEF ReplyWrites, ReplyCloses, TypeOK, Closed
<1>4. promises' \in [Cases -> Nat]
  BY BumpType DEF ReplyWrites, TypeOK
<1>5. QED BY <1>2, <1>3, <1>4

-----------------------------------------------------------------------------
\* Every action keeps the types, one lemma per group of actions.

LEMMA ArrivalType ==
    ASSUME TypeOK, NEW w \in Workers, Arrival(w)
    PROVE  TypeOK'
<1>1. ASSUME NEW c \in Cases, ReplyArrives(w, c) PROVE TypeOK'
  <2>1. (IF status[c] \in Locked THEN Idle ELSE Session("analysing", c)) \in Job
    BY IdleType, SessionType DEF Steps
  <2>2. job' \in [Tasks -> Job] /\ events' \in Nat
    BY <1>1, <2>1, StartType DEF ReplyArrives
  <2>3. QED BY <1>1, <2>2 DEF ReplyArrives, TypeOK
<1>2. ASSUME NEW c \in Cases, CaptureArrives(w, c) PROVE TypeOK'
  <2>1. (IF status[c] \in {"recovered", "stopped", "escalated"}
         THEN Idle ELSE Session("crediting", c)) \in Job
    BY IdleType, SessionType DEF Steps
  <2>2. job' \in [Tasks -> Job] /\ events' \in Nat
    BY <1>2, <2>1, StartType DEF CaptureArrives
  <2>3. QED BY <1>2, <2>2 DEF CaptureArrives, TypeOK
<1>3. ASSUME FailureArrives(w) PROVE TypeOK'
  <2>1. opened + 1 \in 1..NumCases
    BY <1>3, ConstantsOK DEF FailureArrives, TypeOK
  <2>2. Task("queued", opened + 1, "absent") \in Job
    BY <2>1, ConstantsOK, TaskType DEF Steps, Statuses
  <2>3. job' \in [Tasks -> Job] /\ events' \in Nat
    BY <1>3, <2>2, StartType DEF FailureArrives
  <2>4. status' \in [Cases -> Statuses]
    BY <1>3 DEF FailureArrives, TypeOK, Statuses, Working
  <2>5. opened' \in 0..NumCases
    BY <1>3, <2>1 DEF FailureArrives
  <2>6. QED BY <1>3, <2>3, <2>4, <2>5 DEF FailureArrives, TypeOK
<1>4. QED BY <1>1, <1>2, <1>3 DEF Arrival

LEMMA ReplyStepType ==
    ASSUME TypeOK, NEW w \in Workers, ReplyStep(w)
    PROVE  TypeOK'
<1> DEFINE j == job[w]
<1>0. w \in Tasks /\ j \in Job
  BY DEF TypeOK, Tasks
<1>1. ASSUME NEW s \in ReplyStates, ReplyClassified(w, s) PROVE TypeOK'
  <2>1. [j EXCEPT !.at = "acking", !.state = s] \in Job
    BY <1>0 DEF Job, Steps
  <2>2. job' \in [Tasks -> Job]
    BY <1>1, <2>1, IdleType DEF ReplyClassified, TypeOK
  <2>3. QED BY <1>1, <2>2 DEF ReplyClassified, TypeOK
<1>2. ASSUME ReplyUnclassified(w) PROVE TypeOK'
  BY <1>2, RaiseType, EndType DEF ReplyUnclassified, TypeOK
<1>3. ASSUME ReplyAcked(w) PROVE TypeOK'
  <2>1. job' \in [Tasks -> Job]
    BY <1>0, <1>3, GotoType DEF ReplyAcked, Steps
  <2>2. QED BY <1>3, <2>1, SendType DEF ReplyAcked, TypeOK
<1>4. ASSUME ReplyCommits(w) PROVE TypeOK'
  <2>1. ReplyTarget(j.state, j.seen) \in Statuses
    BY <1>0, ReplyTargetType DEF Job
  <2>2. [j EXCEPT !.at = "ruling", !.seen = ReplyTarget(j.state, j.seen)] \in Job
    BY <1>0, <2>1 DEF Job, Steps
  <2>3. job' \in [Tasks -> Job]
    BY <1>4, <2>2 DEF ReplyCommits, TypeOK
  <2>4. contacts' \in [Cases -> Nat]
    BY <1>4, BumpType DEF ReplyCommits, TypeOK
  <2>5. QED BY <1>0, <1>4, <2>3, <2>4, ReplyWritesType DEF ReplyCommits, TypeOK
<1>5. ASSUME ReplyCommitFails(w) PROVE TypeOK'
  BY <1>5, EndType DEF ReplyCommitFails, TypeOK
<1>6. ASSUME ReplySendRaises(w) PROVE TypeOK'
  <2>1. CASE ReplyWrites(j)
    BY <1>0, <1>6, <2>1, ReplyWritesType, EndType, RaiseType DEF ReplySendRaises, TypeOK
  <2>2. CASE UNCHANGED <<status, outcome, promises>>
    BY <1>6, <2>2, EndType, RaiseType DEF ReplySendRaises, TypeOK
  <2>3. QED BY <1>6, <2>1, <2>2 DEF ReplySendRaises
<1>7. ASSUME RulesQuiet(w) PROVE TypeOK'
  BY <1>7, EndType DEF RulesQuiet, TypeOK
<1>8. ASSUME BrokenPromises(w) PROVE TypeOK'
  <2>1. job' \in [Tasks -> Job]
    BY <1>0, <1>8, EndType, GotoType DEF BrokenPromises, Steps
  <2>2. status' \in [Cases -> Statuses]
    BY <1>8, FlushedType DEF BrokenPromises, Statuses, Closed, TypeOK
  <2>3. outcome' \in [Cases -> Closed \cup {"none"}]
    BY <1>8 DEF BrokenPromises, TypeOK, Closed
  <2>4. QED BY <1>8, <2>1, <2>2, <2>3 DEF BrokenPromises, TypeOK
<1>9. ASSUME HandoffSent(w) PROVE TypeOK'
  <2>1. job' \in [Tasks -> Job]
    BY <1>0, <1>9, GotoType DEF HandoffSent, Steps
  <2>2. QED BY <1>9, <2>1, SendType DEF HandoffSent, TypeOK
<1>10. ASSUME HandoffRaises(w) PROVE TypeOK'
  BY <1>10, RaiseType, EndType DEF HandoffRaises, TypeOK
<1>11. ASSUME HandoffCommits(w) PROVE TypeOK'
  BY <1>11, BumpType, EndType DEF HandoffCommits, TypeOK
<1>12. QED
  BY <1>1, <1>2, <1>3, <1>4, <1>5, <1>6, <1>7, <1>8, <1>9, <1>10, <1>11
  DEF ReplyStep

LEMMA CaptureStepType ==
    ASSUME TypeOK, NEW w \in Workers, CaptureStep(w)
    PROVE  TypeOK'
<1>0. w \in Tasks
  BY DEF Tasks
<1>1. ASSUME CaptureCommits(w) PROVE TypeOK'
  <2>1. job' \in [Tasks -> Job]
    BY <1>0, <1>1, GotoType DEF CaptureCommits, Steps
  <2>2. status' \in [Cases -> Statuses] /\ outcome' \in [Cases -> Closed \cup {"none"}]
    BY <1>1 DEF CaptureCommits, TypeOK, Closed, Statuses
  <2>3. QED BY <1>1, <2>1, <2>2 DEF CaptureCommits, TypeOK
<1>2. ASSUME CaptureRefused(w) PROVE TypeOK'
  BY <1>2, EndType DEF CaptureRefused, TypeOK
<1>3. ASSUME CaptureConfirmed(w) PROVE TypeOK'
  <2>1. sent' \in [Cases -> Nat] /\ faults' \in Nat
    BY <1>3, SendType, RaiseType DEF CaptureConfirmed, TypeOK
  <2>2. QED BY <1>3, <2>1, EndType DEF CaptureConfirmed, TypeOK
<1>4. QED BY <1>1, <1>2, <1>3 DEF CaptureStep

LEMMA PipelineStepType ==
    ASSUME TypeOK, SessionsFit, NEW w \in Workers, PipelineStep(w)
    PROVE  TypeOK'
<1> DEFINE j == job[w]
<1>0. w \in Tasks /\ j \in Job
  BY DEF TypeOK, Tasks
<1>1. ASSUME PipelineLoads(w) PROVE TypeOK'
  <2>1. j.case \in Cases
    BY <1>0, <1>1, ConstantsOK DEF PipelineLoads, SessionsFit, JobFits, Cases, TypeOK
  <2>2. Session("diagnosing", j.case) \in Job
    BY <2>1, SessionType DEF Steps
  <2>3. QED BY <1>1, <2>2 DEF PipelineLoads, TypeOK
<1>2. ASSUME NEW causes \in SUBSET Causes, PipelineDiagnosed(w, causes) PROVE TypeOK'
  <2>1. [j EXCEPT !.at = "gating", !.causes = causes] \in Job
    BY <1>0 DEF Job, Steps
  <2>2. QED BY <1>2, <2>1 DEF PipelineDiagnosed, TypeOK
<1>3. ASSUME PipelineRaises(w) PROVE TypeOK'
  BY <1>3, RaiseType, EndType DEF PipelineRaises, TypeOK
<1>4. ASSUME PipelineOptedOut(w) PROVE TypeOK'
  BY <1>4, EndType DEF PipelineOptedOut, TypeOK
<1>5. ASSUME PipelineTimesOut(w) PROVE TypeOK'
  <2>1. status' \in [Cases -> Statuses]
    BY <1>5, FlushedType DEF PipelineTimesOut, Statuses, Closed, TypeOK
  <2>2. outcome' \in [Cases -> Closed \cup {"none"}]
    BY <1>5 DEF PipelineTimesOut, TypeOK, Closed
  <2>3. QED BY <1>5, <2>1, <2>2, EndType DEF PipelineTimesOut, TypeOK
<1>6. ASSUME PipelineRedirects(w) PROVE TypeOK'
  <2> DEFINE new == IF Redirects(j) THEN "payment_method_required" ELSE j.seen
  <2>1. new \in Statuses
    BY <1>0 DEF Job, Statuses, Working
  <2>2. [j EXCEPT !.at = "disputing", !.seen = new] \in Job
    BY <1>0, <2>1 DEF Job, Steps
  <2>3. status' \in [Cases -> Statuses]
    BY <1>6, <2>1, FlushedType DEF PipelineRedirects
  <2>4. job' \in [Tasks -> Job]
    BY <1>6, <2>2 DEF PipelineRedirects, TypeOK
  <2>5. QED BY <1>6, <2>3, <2>4 DEF PipelineRedirects, TypeOK
<1>7. ASSUME PipelineDisputes(w) PROVE TypeOK'
  <2>1. status' \in [Cases -> Statuses]
    BY <1>7, FlushedType DEF PipelineDisputes, Statuses, Closed, TypeOK
  <2>2. outcome' \in [Cases -> Closed \cup {"none"}]
    BY <1>7 DEF PipelineDisputes, TypeOK, Closed
  <2>3. QED BY <1>7, <2>1, <2>2, EndType DEF PipelineDisputes, TypeOK
<1>8. ASSUME FirstContact(w) PROVE TypeOK'
  <2>1. job' \in [Tasks -> Job]
    BY <1>0, <1>8, GotoType DEF FirstContact, Steps
  <2>2. QED BY <1>8, <2>1, SendType DEF FirstContact, TypeOK
<1>9. ASSUME PipelineCommits(w) PROVE TypeOK'
  BY <1>9, BumpType, EndType DEF PipelineCommits, TypeOK
<1>10. QED
  BY <1>1, <1>2, <1>3, <1>4, <1>5, <1>6, <1>7, <1>8, <1>9 DEF PipelineStep

LEMMA SchedulerStepType ==
    ASSUME TypeOK, SchedulerStep
    PROVE  TypeOK'
<1>0. Scheduler \in Tasks
  BY DEF Tasks
<1>1. ASSUME NEW ids \in SUBSET Cases, ScanFinds(ids) PROVE TypeOK'
  BY <1>1 DEF ScanFinds, TypeOK
<1>2. ASSUME NEW c \in Cases, FollowupLoads(c) PROVE TypeOK'
  BY <1>2, SessionType DEF FollowupLoads, TypeOK, Steps
<1>3. ASSUME FollowupSent PROVE TypeOK'
  <2>1. job' \in [Tasks -> Job]
    BY <1>0, <1>3, GotoType DEF FollowupSent, Steps
  <2>2. QED BY <1>3, <2>1, SendType DEF FollowupSent, TypeOK
<1>4. ASSUME FollowupRaises PROVE TypeOK'
  BY <1>4, RaiseType, EndType DEF FollowupRaises, TypeOK
<1>5. ASSUME FollowupCommits PROVE TypeOK'
  BY <1>5, BumpType, EndType DEF FollowupCommits, TypeOK
<1>6. QED BY <1>1, <1>2, <1>3, <1>4, <1>5 DEF SchedulerStep

LEMMA StepType ==
    ASSUME TypeOK, SessionsFit, [Next]_vars
    PROVE  TypeOK'
<1>1. CASE Crash
  BY <1>1, IdleType, RaiseType DEF Crash, TypeOK
<1>2. CASE SchedulerStep
  BY <1>2, SchedulerStepType
<1>3. ASSUME NEW w \in Workers,
             Arrival(w) \/ ReplyStep(w) \/ CaptureStep(w) \/ PipelineStep(w)
      PROVE  TypeOK'
  BY <1>3, ArrivalType, ReplyStepType, CaptureStepType, PipelineStepType
<1>4. CASE UNCHANGED vars
  BY <1>4 DEF vars, TypeOK
<1>5. QED BY <1>1, <1>2, <1>3, <1>4 DEF Next

-----------------------------------------------------------------------------
\* Every action keeps what is known of the parked sessions.

\* Only the session of w moves, and no case row disappears.
LEMMA FitStep ==
    ASSUME SessionsFit, TypeOK, NEW w \in Tasks, NEW k, JobFits(k, opened'),
           job' = [job EXCEPT ![w] = k], opened' \in Nat, opened <= opened',
           backlog' \subseteq backlog
    PROVE  SessionsFit'
<1>0. backlog' \subseteq 1..opened'
  BY ConstantsOK DEF SessionsFit, TypeOK
<1> SUFFICES ASSUME NEW v \in Tasks PROVE JobFits(job'[v], opened')
  BY <1>0 DEF SessionsFit
<1>1. CASE v = w
  BY <1>1 DEF TypeOK
<1>2. CASE v # w
  <2>1. job'[v] = job[v] /\ JobFits(job[v], opened)
    BY <1>2 DEF TypeOK, SessionsFit
  <2>2. QED BY <2>1 DEF JobFits, TypeOK
<1>3. QED BY <1>1, <1>2

LEMMA IdleFits == ASSUME NEW n PROVE JobFits(Idle, n)
  BY DEF JobFits, Idle, Task

LEMMA EndFits ==
    ASSUME SessionsFit, TypeOK, NEW w \in Tasks, End(w),
           UNCHANGED <<opened, backlog>>
    PROVE  SessionsFit'
<1>1. opened' \in Nat /\ opened <= opened'
  BY ConstantsOK DEF TypeOK
<1>2. QED BY <1>1, FitStep, IdleFits DEF End

\* A move between awaits that keeps the case and needs no copy of the status.
LEMMA GotoFits ==
    ASSUME SessionsFit, TypeOK, NEW w \in Tasks, job[w].at # "idle",
           NEW at \in Steps \ {"analysing", "acking", "committing", "crediting"},
           Goto(w, at), UNCHANGED <<opened, backlog>>
    PROVE  SessionsFit'
<1> DEFINE k == [job[w] EXCEPT !.at = at]
<1>1. job' = [job EXCEPT ![w] = k]
  BY DEF Goto
<1>2. k.at = at /\ k.case = job[w].case
  BY DEF TypeOK, Job
<1>3. JobFits(k, opened')
  BY <1>2 DEF JobFits, SessionsFit
<1>4. opened' \in Nat /\ opened <= opened'
  BY ConstantsOK DEF TypeOK
<1>5. QED BY <1>1, <1>3, <1>4, FitStep

LEMMA StepFits ==
    ASSUME TypeOK, SessionsFit, [Next]_vars
    PROVE  SessionsFit'
<1> USE DEF Tasks
<1>0. opened \in Nat /\ \A w \in Tasks : job[w] \in Job
  BY ConstantsOK DEF TypeOK
<1>1. ASSUME NEW w \in Workers, NEW c \in Cases, ReplyArrives(w, c) PROVE SessionsFit'
  <2> DEFINE k == IF status[c] \in Locked THEN Idle ELSE Session("analysing", c)
  <2>1. JobFits(k, opened')
    BY <1>0, <1>1, IdleFits DEF ReplyArrives, Newest, Cases, Session, Task, JobFits
  <2>2. job' = [job EXCEPT ![w] = k] /\ UNCHANGED <<opened, backlog>>
    BY <1>1 DEF ReplyArrives, Start
  <2>3. opened' \in Nat /\ opened <= opened'
    BY <1>0, <2>2
  <2>4. QED BY <2>1, <2>2, <2>3, FitStep
<1>2. ASSUME NEW w \in Workers, NEW c \in Cases, CaptureArrives(w, c) PROVE SessionsFit'
  <2> DEFINE k == IF status[c] \in {"recovered", "stopped", "escalated"}
                  THEN Idle ELSE Session("crediting", c)
  <2>1. JobFits(k, opened')
    BY <1>0, <1>2, IdleFits DEF CaptureArrives, Newest, Cases, Session, Task, JobFits
  <2>2. job' = [job EXCEPT ![w] = k] /\ UNCHANGED <<opened, backlog>>
    BY <1>2 DEF CaptureArrives, Start
  <2>3. opened' \in Nat /\ opened <= opened'
    BY <1>0, <2>2
  <2>4. QED BY <2>1, <2>2, <2>3, FitStep
<1>3. ASSUME NEW w \in Workers, FailureArrives(w) PROVE SessionsFit'
  <2> DEFINE k == Task("queued", opened + 1, "absent")
  <2>1. opened' = opened + 1 /\ job' = [job EXCEPT ![w] = k] /\ backlog' = backlog
    BY <1>3 DEF FailureArrives, Start
  <2>2. JobFits(k, opened')
    BY <1>0, <2>1 DEF Task, JobFits
  <2>3. opened' \in Nat /\ opened <= opened'
    BY <1>0, <2>1
  <2>4. QED BY <2>1, <2>2, <2>3, FitStep
<1>4. ASSUME NEW w \in Workers, NEW s \in ReplyStates, ReplyClassified(w, s)
      PROVE  SessionsFit'
  <2> DEFINE k == IF s \in StoredStates
                  THEN [job[w] EXCEPT !.at = "acking", !.state = s] ELSE Idle
  <2>1. JobFits(k, opened')
    BY <1>0, <1>4, IdleFits DEF ReplyClassified, JobFits, SessionsFit, Job
  <2>2. job' = [job EXCEPT ![w] = k] /\ UNCHANGED <<opened, backlog>>
    BY <1>4 DEF ReplyClassified
  <2>3. opened' \in Nat /\ opened <= opened'
    BY <1>0, <2>2
  <2>4. QED BY <2>1, <2>2, <2>3, FitStep
<1>5. ASSUME NEW w \in Workers, ReplyAcked(w) PROVE SessionsFit'
  <2> DEFINE k == [job[w] EXCEPT !.at = "committing"]
  <2>1. JobFits(k, opened')
    BY <1>0, <1>5 DEF ReplyAcked, JobFits, SessionsFit, Job
  <2>2. job' = [job EXCEPT ![w] = k] /\ UNCHANGED <<opened, backlog>>
    BY <1>5 DEF ReplyAcked, Goto
  <2>3. opened' \in Nat /\ opened <= opened'
    BY <1>0, <2>2
  <2>4. QED BY <2>1, <2>2, <2>3, FitStep
<1>6. ASSUME NEW w \in Workers, ReplyCommits(w) PROVE SessionsFit'
  <2> DEFINE k == [job[w] EXCEPT !.at = "ruling",
                                 !.seen = ReplyTarget(job[w].state, job[w].seen)]
  <2>1. JobFits(k, opened')
    BY <1>0, <1>6 DEF ReplyCommits, JobFits, SessionsFit, Job
  <2>2. job' = [job EXCEPT ![w] = k] /\ UNCHANGED <<opened, backlog>>
    BY <1>6 DEF ReplyCommits
  <2>3. opened' \in Nat /\ opened <= opened'
    BY <1>0, <2>2
  <2>4. QED BY <2>1, <2>2, <2>3, FitStep
<1>7. ASSUME NEW w \in Workers, PipelineLoads(w) PROVE SessionsFit'
  <2> DEFINE k == Session("diagnosing", job[w].case)
  <2>1. JobFits(k, opened')
    BY <1>0, <1>7 DEF PipelineLoads, JobFits, SessionsFit, Session, Task
  <2>2. job' = [job EXCEPT ![w] = k] /\ UNCHANGED <<opened, backlog>>
    BY <1>7 DEF PipelineLoads
  <2>3. opened' \in Nat /\ opened <= opened'
    BY <1>0, <2>2
  <2>4. QED BY <2>1, <2>2, <2>3, FitStep
<1>8. ASSUME NEW w \in Workers, NEW causes, PipelineDiagnosed(w, causes)
      PROVE  SessionsFit'
  <2> DEFINE k == [job[w] EXCEPT !.at = "gating", !.causes = causes]
  <2>1. JobFits(k, opened')
    BY <1>0, <1>8 DEF PipelineDiagnosed, JobFits, SessionsFit, Job
  <2>2. job' = [job EXCEPT ![w] = k] /\ UNCHANGED <<opened, backlog>>
    BY <1>8 DEF PipelineDiagnosed
  <2>3. opened' \in Nat /\ opened <= opened'
    BY <1>0, <2>2
  <2>4. QED BY <2>1, <2>2, <2>3, FitStep
<1>9. ASSUME NEW w \in Workers, PipelineRedirects(w) PROVE SessionsFit'
  <2> DEFINE new == IF Redirects(job[w]) THEN "payment_method_required" ELSE job[w].seen
             k == [job[w] EXCEPT !.at = "disputing", !.seen = new]
  <2>1. JobFits(k, opened')
    BY <1>0, <1>9 DEF PipelineRedirects, JobFits, SessionsFit, Job
  <2>2. job' = [job EXCEPT ![w] = k] /\ UNCHANGED <<opened, backlog>>
    BY <1>9 DEF PipelineRedirects
  <2>3. opened' \in Nat /\ opened <= opened'
    BY <1>0, <2>2
  <2>4. QED BY <2>1, <2>2, <2>3, FitStep
<1>10. ASSUME NEW c \in Cases, FollowupLoads(c) PROVE SessionsFit'
  <2> DEFINE k == Session("reminding", c)
  <2>1. JobFits(k, opened')
    BY <1>10 DEF FollowupLoads, JobFits, Session, Task, SessionsFit
  <2>2. job' = [job EXCEPT ![Scheduler] = k] /\ opened' = opened /\ backlog' \subseteq backlog
    BY <1>10 DEF FollowupLoads
  <2>3. opened' \in Nat /\ opened <= opened'
    BY <1>0, <2>2
  <2>4. QED BY <2>1, <2>2, <2>3, FitStep
<1>11. ASSUME NEW w \in Tasks, End(w), UNCHANGED <<opened, backlog>> PROVE SessionsFit'
  BY <1>11, EndFits
<1>12. ASSUME NEW w \in Tasks, job[w].at # "idle", UNCHANGED <<opened, backlog>>,
              NEW at \in {"handing_off", "handed_off", "confirming", "filing", "logging"},
              Goto(w, at)
       PROVE  SessionsFit'
  BY <1>12, GotoFits DEF Steps
<1>13. CASE Crash
  <2>1. (\A w \in Tasks : job'[w] = Idle) /\ backlog' = {}
    BY <1>13 DEF Crash
  <2>2. QED BY <2>1, IdleFits DEF SessionsFit
<1>14. CASE UNCHANGED vars
  BY <1>14 DEF vars, SessionsFit
<1>15. ASSUME NEW w \in Workers, ReplyStep(w) PROVE SessionsFit'
  <2>1. CASE \E s \in ReplyStates : ReplyClassified(w, s)
    BY <2>1, <1>4
  <2>2. CASE ReplyAcked(w) \/ ReplyCommits(w)
    BY <2>2, <1>5, <1>6
  <2>3. CASE ReplyUnclassified(w) \/ ReplyCommitFails(w) \/ ReplySendRaises(w)
             \/ RulesQuiet(w) \/ HandoffRaises(w) \/ HandoffCommits(w)
    BY <2>3, <1>11 DEF ReplyUnclassified, ReplyCommitFails, ReplySendRaises,
                       RulesQuiet, HandoffRaises, HandoffCommits
  <2>4. CASE BrokenPromises(w)
    BY <2>4, <1>11, <1>12 DEF BrokenPromises
  <2>5. CASE HandoffSent(w)
    BY <2>5, <1>12 DEF HandoffSent
  <2>6. QED BY <1>15, <2>1, <2>2, <2>3, <2>4, <2>5 DEF ReplyStep
<1>16. ASSUME NEW w \in Workers, CaptureStep(w) PROVE SessionsFit'
  <2>1. CASE CaptureCommits(w)
    BY <2>1, <1>12 DEF CaptureCommits
  <2>2. CASE CaptureRefused(w) \/ CaptureConfirmed(w)
    BY <2>2, <1>11 DEF CaptureRefused, CaptureConfirmed
  <2>3. QED BY <1>16, <2>1, <2>2 DEF CaptureStep
<1>17. ASSUME NEW w \in Workers, PipelineStep(w) PROVE SessionsFit'
  <2>1. CASE PipelineLoads(w) \/ PipelineRedirects(w)
             \/ \E causes \in SUBSET Causes : PipelineDiagnosed(w, causes)
    BY <2>1, <1>7, <1>8, <1>9
  <2>2. CASE PipelineRaises(w) \/ PipelineOptedOut(w) \/ PipelineTimesOut(w)
             \/ PipelineDisputes(w) \/ PipelineCommits(w)
    BY <2>2, <1>11 DEF PipelineRaises, PipelineOptedOut, PipelineTimesOut,
                       PipelineDisputes, PipelineCommits
  <2>3. CASE FirstContact(w)
    BY <2>3, <1>12 DEF FirstContact
  <2>4. QED BY <1>17, <2>1, <2>2, <2>3 DEF PipelineStep
<1>18. CASE SchedulerStep
  <2>1. ASSUME NEW ids \in SUBSET Cases, ScanFinds(ids) PROVE SessionsFit'
    BY <2>1, <1>0 DEF ScanFinds, SessionsFit, Cases
  <2>2. CASE FollowupSent
    BY <2>2, <1>12 DEF FollowupSent
  <2>3. CASE FollowupRaises \/ FollowupCommits
    BY <2>3, <1>11 DEF FollowupRaises, FollowupCommits
  <2>4. QED BY <1>18, <1>10, <2>1, <2>2, <2>3 DEF SchedulerStep
<1>19. ASSUME NEW w \in Workers, Arrival(w) PROVE SessionsFit'
  BY <1>19, <1>1, <1>2, <1>3 DEF Arrival
<1>20. QED
  BY <1>13, <1>14, <1>15, <1>16, <1>17, <1>18, <1>19 DEF Next

-----------------------------------------------------------------------------
\* What a step does to the ledger.

Moves(c, seen) ==
    \/ \E f \in Closed : Close(c, f)
    \/ /\ seen \notin {"recovered", "stopped"}
       /\ \E s \in Working \ {"open"} : Drift(c, s)

LedgerMove ==
    \/ UNCHANGED <<opened, status, outcome>>
    \/ opened' = opened + 1 /\ opened + 1 \in Cases /\ Open(opened + 1)
    \/ /\ opened' = opened
       /\ \E w \in Tasks : job[w].case \in 1..opened /\ Moves(job[w].case, job[w].seen)

\* A case row exists for every task that is not idle.
LEMMA BusyCase ==
    ASSUME Consistent, NEW w \in Tasks, job[w].at # "idle"
    PROVE  job[w].case \in 1..opened /\ job[w].case \in Cases /\ status[job[w].case] # "absent"
<1>1. job[w].case \in 1..opened
  BY DEF Consistent, SessionsFit, JobFits
<1>2. opened \in 0..NumCases
  BY DEF Consistent, TypeOK
<1>3. job[w].case \in Cases
  BY <1>1, <1>2, ConstantsOK DEF Cases
<1>4. ~(job[w].case > opened)
  BY <1>1, <1>2, ConstantsOK
<1>5. QED BY <1>1, <1>3, <1>4 DEF Consistent, RowsInOrder

\* The Outcome row and the closing status, flushed together, are a Close.
LEMMA FlushCloses ==
    ASSUME Consistent, NEW w \in Tasks, job[w].at # "idle", NEW f \in Closed,
           CanInsert(job[w].case, f),
           status' = Flushed(job[w].case, job[w].seen, f),
           outcome' = [outcome EXCEPT ![job[w].case] = f]
    PROVE  Close(job[w].case, f)
<1>1. job[w].seen # f
  BY DEF CanInsert, Consistent, CopiesBacked
<1>2. status' = [status EXCEPT ![job[w].case] = f]
  BY <1>1 DEF Flushed
<1>3. QED BY <1>2, BusyCase DEF Close, CanInsert

LEMMA ReplyWritesMoves ==
    ASSUME Consistent, NEW w \in Tasks, job[w].at \in {"acking", "committing"},
           ReplyWrites(job[w])
    PROVE  UNCHANGED <<status, outcome>> \/ Moves(job[w].case, job[w].seen)
<1> DEFINE j == job[w]
           new == ReplyTarget(j.state, j.seen)
<1>0. j \in Job /\ j.seen \notin Locked
  BY DEF Consistent, TypeOK, SessionsFit, JobFits
<1>1. CASE new = j.seen
  BY <1>1 DEF ReplyWrites, ReplyCloses, Flushed
<1>2. CASE ReplyCloses(j)
  <2>1. new \in Closed
    BY <1>2 DEF ReplyCloses, Closed
  <2>2. CanInsert(j.case, new) /\ status' = Flushed(j.case, j.seen, new)
        /\ outcome' = [outcome EXCEPT ![j.case] = new]
    BY <1>2 DEF ReplyWrites
  <2>3. Close(j.case, new)
    BY <2>1, <2>2, FlushCloses
  <2>4. QED BY <2>1, <2>3 DEF Moves
<1>3. CASE new # j.seen /\ ~ReplyCloses(j)
  <2>1. new \in {"promise_pending", "payment_method_required"}
    BY <1>3 DEF ReplyCloses, ReplyTarget
  <2>2. status' = [status EXCEPT ![j.case] = new] /\ UNCHANGED outcome
    BY <1>3 DEF ReplyWrites, Flushed
  <2>3. Drift(j.case, new)
    BY <2>2, BusyCase DEF Drift
  <2>4. j.seen \notin {"recovered", "stopped"}
    BY <1>0 DEF Locked, Closed
  <2>5. new \in Working \ {"open"}
    BY <2>1 DEF Working
  <2>6. QED BY <2>3, <2>4, <2>5 DEF Moves
<1>4. QED BY <1>1, <1>2, <1>3

LEMMA ReplyStepMoves ==
    ASSUME Consistent, NEW w \in Workers, ReplyStep(w)
    PROVE  LedgerMove
<1>0. w \in Tasks
  BY DEF Tasks
<1>1. CASE ReplyCommits(w) \/ ReplySendRaises(w)
  <2>1. opened' = opened /\ job[w].at \in {"acking", "committing"}
        /\ (ReplyWrites(job[w]) \/ UNCHANGED <<status, outcome>>)
    BY <1>1 DEF ReplyCommits, ReplySendRaises
  <2>2. UNCHANGED <<status, outcome>> \/ Moves(job[w].case, job[w].seen)
    BY <1>0, <2>1, ReplyWritesMoves
  <2>3. job[w].case \in 1..opened
    BY <1>0, <2>1, BusyCase
  <2>4. QED BY <1>0, <2>1, <2>2, <2>3 DEF LedgerMove
<1>2. CASE BrokenPromises(w)
  <2>1. job[w].at # "idle" /\ opened' = opened
    BY <1>2 DEF BrokenPromises
  <2>2. CASE CanInsert(job[w].case, "human_escalated")
    <3>1. Close(job[w].case, "human_escalated")
      BY <1>0, <1>2, <2>1, <2>2, FlushCloses DEF BrokenPromises, Closed
    <3>2. Moves(job[w].case, job[w].seen)
      BY <3>1 DEF Moves, Closed
    <3>3. QED BY <1>0, <2>1, <3>2, BusyCase DEF LedgerMove
  <2>3. CASE ~CanInsert(job[w].case, "human_escalated")
    BY <1>2, <2>3 DEF BrokenPromises, LedgerMove
  <2>4. QED BY <2>2, <2>3
<1>3. CASE \/ \E s \in ReplyStates : ReplyClassified(w, s)
           \/ ReplyUnclassified(w) \/ ReplyAcked(w) \/ ReplyCommitFails(w)
           \/ RulesQuiet(w) \/ HandoffSent(w) \/ HandoffRaises(w) \/ HandoffCommits(w)
  BY <1>3 DEF LedgerMove, ReplyClassified, ReplyUnclassified, ReplyAcked,
              ReplyCommitFails, RulesQuiet, HandoffSent, HandoffRaises, HandoffCommits
<1>4. QED BY <1>1, <1>2, <1>3 DEF ReplyStep

LEMMA CaptureStepMoves ==
    ASSUME Consistent, NEW w \in Workers, CaptureStep(w)
    PROVE  LedgerMove
<1>0. w \in Tasks
  BY DEF Tasks
<1>1. CASE CaptureCommits(w)
  <2>1. job[w].at # "idle" /\ opened' = opened
    BY <1>1 DEF CaptureCommits
  <2>2. Close(job[w].case, "recovered")
    BY <1>0, <1>1, <2>1, BusyCase DEF CaptureCommits, CanInsert, Close
  <2>3. Moves(job[w].case, job[w].seen)
    BY <2>2 DEF Moves, Closed
  <2>4. QED BY <1>0, <2>1, <2>3, BusyCase DEF LedgerMove
<1>2. CASE CaptureRefused(w) \/ CaptureConfirmed(w)
  BY <1>2 DEF CaptureRefused, CaptureConfirmed, LedgerMove
<1>3. QED BY <1>1, <1>2 DEF CaptureStep

LEMMA PipelineStepMoves ==
    ASSUME Consistent, NEW w \in Workers, PipelineStep(w)
    PROVE  LedgerMove
<1> DEFINE j == job[w]
<1>0. w \in Tasks
  BY DEF Tasks
<1>1. CASE PipelineTimesOut(w)
  <2>1. j.at # "idle" /\ opened' = opened
    BY <1>1 DEF PipelineTimesOut
  <2>2. CASE CanInsert(j.case, "timeout")
    <3>1. Close(j.case, "timeout")
      BY <1>0, <1>1, <2>1, <2>2, FlushCloses DEF PipelineTimesOut, Closed
    <3>2. Moves(j.case, j.seen)
      BY <3>1 DEF Moves, Closed
    <3>3. QED BY <1>0, <2>1, <3>2, BusyCase DEF LedgerMove
  <2>3. CASE ~CanInsert(j.case, "timeout")
    BY <1>1, <2>3 DEF PipelineTimesOut, LedgerMove
  <2>4. QED BY <2>2, <2>3
<1>2. CASE PipelineDisputes(w)
  <2>1. j.at # "idle" /\ opened' = opened
    BY <1>2 DEF PipelineDisputes
  <2>2. CASE UNCHANGED <<status, outcome>>
    BY <2>1, <2>2 DEF LedgerMove
  <2>3. CASE ~UNCHANGED <<status, outcome>>
    <3>1. CanInsert(j.case, "disputed")
          /\ status' = Flushed(j.case, j.seen, "disputed")
          /\ outcome' = [outcome EXCEPT ![j.case] = "disputed"]
      BY <1>2, <2>3 DEF PipelineDisputes
    <3>2. Close(j.case, "disputed")
      BY <1>0, <2>1, <3>1, FlushCloses DEF Closed
    <3>3. Moves(j.case, j.seen)
      BY <3>2 DEF Moves, Closed
    <3>4. QED BY <1>0, <2>1, <3>3, BusyCase DEF LedgerMove
  <2>4. QED BY <2>2, <2>3
<1>3. CASE PipelineRedirects(w)
  <2>1. j.at # "idle" /\ opened' = opened /\ outcome' = outcome
    BY <1>3 DEF PipelineRedirects
  <2>2. CASE ~Redirects(j)
    BY <1>3, <2>1, <2>2 DEF PipelineRedirects, Flushed, LedgerMove
  <2>3. CASE Redirects(j)
    <3>1. j.seen \notin {"recovered", "stopped", "payment_method_required"}
      BY <2>3 DEF Redirects
    <3>2. status' = [status EXCEPT ![j.case] = "payment_method_required"]
      BY <1>3, <2>3, <3>1 DEF PipelineRedirects, Flushed
    <3>3. Drift(j.case, "payment_method_required")
      BY <1>0, <2>1, <3>2, BusyCase DEF Drift
    <3>4. Moves(j.case, j.seen)
      BY <3>1, <3>3 DEF Moves, Working
    <3>5. QED BY <1>0, <2>1, <3>4, BusyCase DEF LedgerMove
  <2>4. QED BY <2>2, <2>3
<1>4. CASE \/ \E causes \in SUBSET Causes : PipelineDiagnosed(w, causes)
           \/ PipelineLoads(w) \/ PipelineRaises(w) \/ PipelineOptedOut(w)
           \/ FirstContact(w) \/ PipelineCommits(w)
  BY <1>4 DEF LedgerMove, PipelineDiagnosed, PipelineLoads, PipelineRaises,
              PipelineOptedOut, FirstContact, PipelineCommits
<1>5. QED BY <1>1, <1>2, <1>3, <1>4 DEF PipelineStep

LEMMA ArrivalMoves ==
    ASSUME Consistent, NEW w \in Workers, Arrival(w)
    PROVE  LedgerMove
<1>1. CASE FailureArrives(w)
  <2>1. opened + 1 \in Cases /\ opened + 1 > opened
    BY <1>1, ConstantsOK DEF FailureArrives, Consistent, TypeOK, Cases
  <2>2. status[opened + 1] = "absent"
    BY <2>1 DEF Consistent, RowsInOrder
  <2>3. QED BY <1>1, <2>1, <2>2 DEF FailureArrives, LedgerMove, Open
<1>2. CASE \E c \in Cases : ReplyArrives(w, c) \/ CaptureArrives(w, c)
  BY <1>2 DEF ReplyArrives, CaptureArrives, LedgerMove
<1>3. QED BY <1>1, <1>2 DEF Arrival

LEMMA StepMoves ==
    ASSUME Consistent, [Next]_vars
    PROVE  LedgerMove
<1>1. CASE SchedulerStep
  BY <1>1 DEF SchedulerStep, LedgerMove, ScanFinds, FollowupLoads, FollowupSent,
              FollowupRaises, FollowupCommits
<1>2. CASE Crash
  BY <1>2 DEF Crash, LedgerMove
<1>3. CASE UNCHANGED vars
  BY <1>3 DEF vars, LedgerMove
<1>4. QED
  BY <1>1, <1>2, <1>3, ReplyStepMoves, CaptureStepMoves, PipelineStepMoves, ArrivalMoves
  DEF Next

-----------------------------------------------------------------------------
\* Consequences of LedgerMove.

LEMMA OutcomeKept ==
    ASSUME Consistent, LedgerMove, NEW c \in Cases, outcome[c] # "none"
    PROVE  outcome'[c] = outcome[c]
<1>1. CASE UNCHANGED outcome
  BY <1>1
<1>2. ASSUME NEW d, NEW f, Close(d, f) PROVE outcome'[c] = outcome[c]
  BY <1>2 DEF Close, Consistent, TypeOK
<1>3. QED BY <1>1, <1>2 DEF LedgerMove, Moves, Open, Drift

LEMMA RowsStep ==
    ASSUME Consistent, LedgerMove
    PROVE  RowsInOrder'
<1> SUFFICES ASSUME NEW c \in Cases PROVE status'[c] = "absent" <=> c > opened'
  BY DEF RowsInOrder
<1>0. c \in Nat /\ opened \in Nat /\ (status[c] = "absent" <=> c > opened)
      /\ status \in [Cases -> Statuses]
  BY ConstantsOK DEF Consistent, TypeOK, RowsInOrder, Cases
<1>1. CASE UNCHANGED <<opened, status, outcome>>
  BY <1>0, <1>1
<1>2. CASE opened' = opened + 1 /\ Open(opened + 1)
  <2>1. CASE c = opened + 1
    <3>1. status'[c] = "open" /\ ~(c > opened')
      BY <1>0, <1>2, <2>1 DEF Open
    <3>2. QED BY <3>1
  <2>2. CASE c # opened + 1
    <3>1. status'[c] = status[c]
      BY <1>0, <1>2, <2>2 DEF Open
    <3>2. c > opened' <=> c > opened
      BY <1>0, <1>2, <2>2
    <3>3. QED BY <1>0, <3>1, <3>2
  <2>3. QED BY <2>1, <2>2
<1>3. ASSUME opened' = opened, NEW d \in 1..opened, NEW s \in Statuses \ {"absent"},
             status' = [status EXCEPT ![d] = s]
      PROVE  status'[c] = "absent" <=> c > opened'
  <2>1. CASE c = d
    BY <1>0, <1>3, <2>1
  <2>2. CASE c # d
    BY <1>0, <1>3, <2>2
  <2>3. QED BY <2>1, <2>2
<1>4. \A f \in Closed \cup Working : f \in Statuses \ {"absent"}
  BY DEF Statuses, Closed, Working
<1>5. QED BY <1>1, <1>2, <1>3, <1>4 DEF LedgerMove, Moves, Close, Drift

LEMMA ClosedStep ==
    ASSUME Consistent, LedgerMove
    PROVE  ClosedMatchesOutcome'
<1> SUFFICES ASSUME NEW c \in Cases, status'[c] \in Closed
             PROVE  outcome'[c] = status'[c]
  BY DEF ClosedMatchesOutcome, Cases
<1>0. status \in [Cases -> Statuses] /\ outcome \in [Cases -> Closed \cup {"none"}]
      /\ (status[c] \in Closed => outcome[c] = status[c])
  BY DEF Consistent, TypeOK, ClosedMatchesOutcome
<1>1. CASE UNCHANGED <<opened, status, outcome>>
  BY <1>0, <1>1
<1>2. ASSUME NEW d, Open(d) PROVE outcome'[c] = status'[c]
  BY <1>0, <1>2 DEF Open, Closed
<1>3. ASSUME NEW d, NEW f \in Closed, Close(d, f) PROVE outcome'[c] = status'[c]
  BY <1>0, <1>3 DEF Close
<1>4. ASSUME NEW d, NEW s \in Working \ {"open"}, Drift(d, s)
      PROVE  outcome'[c] = status'[c]
  BY <1>0, <1>4 DEF Drift, Working, Closed
<1>5. QED BY <1>1, <1>2, <1>3, <1>4 DEF LedgerMove, Moves

\* Only the session of w moves; its new copy, if closed, is backed.
LEMMA CopyStep ==
    ASSUME Consistent, LedgerMove, NEW w \in Tasks, NEW k,
           job' = [job EXCEPT ![w] = k],
           k.at # "idle" /\ k.seen \in Closed => outcome'[k.case] # "none"
    PROVE  CopiesBacked'
<1> SUFFICES ASSUME NEW v \in Tasks, job'[v].at # "idle", job'[v].seen \in Closed
             PROVE  outcome'[job'[v].case] # "none"
  BY DEF CopiesBacked
<1>0. job \in [Tasks -> Job]
  BY DEF Consistent, TypeOK
<1>1. CASE v = w
  BY <1>0, <1>1
<1>2. CASE v # w
  <2>1. job'[v] = job[v]
    BY <1>0, <1>2
  <2>2. job[v].case \in Cases /\ outcome[job[v].case] # "none"
    BY <2>1, BusyCase DEF Consistent, CopiesBacked
  <2>3. QED BY <2>1, <2>2, OutcomeKept
<1>3. QED BY <1>1, <1>2

LEMMA CopyKept ==
    ASSUME Consistent, LedgerMove, NEW w \in Tasks, job[w].at # "idle", NEW k,
           job' = [job EXCEPT ![w] = k], k.case = job[w].case, k.seen = job[w].seen
    PROVE  CopiesBacked'
<1>1. job[w].case \in Cases
  BY BusyCase
<1>2. k.seen \in Closed => outcome'[k.case] # "none"
  BY <1>1, OutcomeKept DEF Consistent, CopiesBacked
<1>3. QED BY <1>2, CopyStep

LEMMA CopyEnd ==
    ASSUME Consistent, LedgerMove, NEW w \in Tasks, End(w)
    PROVE  CopiesBacked'
<1>1. Idle.at = "idle"
  BY DEF Idle, Task
<1>2. QED BY <1>1, CopyStep DEF End

LEMMA CopyGoto ==
    ASSUME Consistent, LedgerMove, NEW w \in Tasks, job[w].at # "idle", NEW at, Goto(w, at)
    PROVE  CopiesBacked'
<1> DEFINE k == [job[w] EXCEPT !.at = at]
<1>1. k.case = job[w].case /\ k.seen = job[w].seen
  BY DEF Consistent, TypeOK, Job
<1>2. job' = [job EXCEPT ![w] = k]
  BY DEF Goto
<1>3. QED BY <1>1, <1>2, CopyKept

\* A session that loads its case copies a status that is backed already.
LEMMA CopyLoaded ==
    ASSUME Consistent, LedgerMove, NEW w \in Tasks, NEW c \in Cases, NEW at,
           job' = [job EXCEPT ![w] = Session(at, c)]
    PROVE  CopiesBacked'
<1> DEFINE k == Session(at, c)
<1>1. k.case = c /\ k.seen = status[c]
  BY DEF Session, Task
<1>2. status[c] \in Closed => outcome[c] # "none"
  BY DEF Consistent, ClosedMatchesOutcome, Closed
<1>3. k.seen \in Closed => outcome'[k.case] # "none"
  BY <1>1, <1>2, OutcomeKept
<1>4. QED BY <1>3, CopyStep

LEMMA StepCopies ==
    ASSUME Consistent, [Next]_vars
    PROVE  CopiesBacked'
<1> USE DEF Tasks
<1>0. LedgerMove
  BY StepMoves
<1>1. ASSUME NEW w \in Workers, Arrival(w) PROVE CopiesBacked'
  <2>1. ASSUME NEW c \in Cases, ReplyArrives(w, c) PROVE CopiesBacked'
    BY <1>0, <2>1, CopyLoaded, CopyEnd DEF ReplyArrives, Start, End
  <2>2. ASSUME NEW c \in Cases, CaptureArrives(w, c) PROVE CopiesBacked'
    BY <1>0, <2>2, CopyLoaded, CopyEnd DEF CaptureArrives, Start, End
  <2>3. CASE FailureArrives(w)
    <3> DEFINE k == Task("queued", opened + 1, "absent")
    <3>1. k.seen \notin Closed
      BY DEF Task, Closed
    <3>2. job' = [job EXCEPT ![w] = k]
      BY <2>3 DEF FailureArrives, Start
    <3>3. QED BY <1>0, <3>1, <3>2, CopyStep
  <2>4. QED BY <1>1, <2>1, <2>2, <2>3 DEF Arrival
<1>2. ASSUME NEW w \in Workers, NEW s \in ReplyStates, ReplyClassified(w, s)
      PROVE  CopiesBacked'
  <2>1. CASE s \in StoredStates
    <3> DEFINE k == [job[w] EXCEPT !.at = "acking", !.state = s]
    <3>1. k.case = job[w].case /\ k.seen = job[w].seen
      BY DEF Consistent, TypeOK, Job
    <3>2. job' = [job EXCEPT ![w] = k] /\ job[w].at # "idle"
      BY <1>2, <2>1 DEF ReplyClassified
    <3>3. QED BY <1>0, <3>1, <3>2, CopyKept
  <2>2. CASE s \notin StoredStates
    BY <1>0, <1>2, <2>2, CopyEnd DEF ReplyClassified, End
  <2>3. QED BY <2>1, <2>2
<1>3. ASSUME NEW w \in Workers, ReplyCommits(w) PROVE CopiesBacked'
  <2> DEFINE j == job[w]
             new == ReplyTarget(j.state, j.seen)
             k == [j EXCEPT !.at = "ruling", !.seen = new]
  <2>1. k.case = j.case /\ k.seen = new
    BY DEF Consistent, TypeOK, Job
  <2>2. job' = [job EXCEPT ![w] = k] /\ j.at # "idle" /\ ReplyWrites(j)
    BY <1>3 DEF ReplyCommits
  <2>3. j.case \in Cases
    BY <2>2, BusyCase
  <2>4. CASE new = j.seen
    BY <1>0, <2>1, <2>2, <2>4, CopyKept
  <2>5. CASE ReplyCloses(j)
    <3>1. outcome'[j.case] = new /\ new # "none"
      BY <2>2, <2>3, <2>5 DEF ReplyWrites, ReplyCloses, Consistent, TypeOK
    <3>2. QED BY <1>0, <2>1, <2>2, <3>1, CopyStep
  <2>6. CASE new # j.seen /\ ~ReplyCloses(j)
    <3>1. new \notin Closed
      BY <2>6 DEF ReplyCloses, ReplyTarget, Closed
    <3>2. QED BY <1>0, <2>1, <2>2, <3>1, CopyStep
  <2>7. QED BY <2>4, <2>5, <2>6
<1>4. ASSUME NEW w \in Workers, PipelineLoads(w) PROVE CopiesBacked'
  <2>1. job[w].case \in Cases
    BY <1>4, BusyCase DEF PipelineLoads
  <2>2. QED BY <1>0, <1>4, <2>1, CopyLoaded DEF PipelineLoads
<1>5. ASSUME NEW w \in Workers, NEW causes, PipelineDiagnosed(w, causes)
      PROVE  CopiesBacked'
  <2> DEFINE k == [job[w] EXCEPT !.at = "gating", !.causes = causes]
  <2>1. k.case = job[w].case /\ k.seen = job[w].seen
    BY DEF Consistent, TypeOK, Job
  <2>2. job' = [job EXCEPT ![w] = k] /\ job[w].at # "idle"
    BY <1>5 DEF PipelineDiagnosed
  <2>3. QED BY <1>0, <2>1, <2>2, CopyKept
<1>6. ASSUME NEW w \in Workers, PipelineRedirects(w) PROVE CopiesBacked'
  <2> DEFINE new == IF Redirects(job[w]) THEN "payment_method_required" ELSE job[w].seen
             k == [job[w] EXCEPT !.at = "disputing", !.seen = new]
  <2>1. k.case = job[w].case /\ k.seen = new
    BY DEF Consistent, TypeOK, Job
  <2>2. job' = [job EXCEPT ![w] = k] /\ job[w].at # "idle"
    BY <1>6 DEF PipelineRedirects
  <2>3. CASE new = job[w].seen
    BY <1>0, <2>1, <2>2, <2>3, CopyKept
  <2>4. CASE new = "payment_method_required"
    <3>1. k.seen \notin Closed
      BY <2>1, <2>4 DEF Closed
    <3>2. QED BY <1>0, <2>2, <3>1, CopyStep
  <2>5. QED BY <2>3, <2>4
<1>7. ASSUME NEW w \in Tasks, End(w) PROVE CopiesBacked'
  BY <1>0, <1>7, CopyEnd
<1>8. ASSUME NEW w \in Tasks, job[w].at # "idle", NEW at, Goto(w, at)
      PROVE  CopiesBacked'
  BY <1>0, <1>8, CopyGoto
<1>9. ASSUME NEW w \in Workers, ReplyStep(w) PROVE CopiesBacked'
  <2>1. CASE ReplyCommits(w) \/ \E s \in ReplyStates : ReplyClassified(w, s)
    BY <2>1, <1>2, <1>3
  <2>2. CASE ReplyUnclassified(w) \/ ReplyCommitFails(w) \/ ReplySendRaises(w)
             \/ RulesQuiet(w) \/ HandoffRaises(w) \/ HandoffCommits(w)
    BY <2>2, <1>7 DEF ReplyUnclassified, ReplyCommitFails, ReplySendRaises,
                      RulesQuiet, HandoffRaises, HandoffCommits
  <2>3. CASE ReplyAcked(w) \/ HandoffSent(w)
    BY <2>3, <1>8 DEF ReplyAcked, HandoffSent
  <2>4. CASE BrokenPromises(w)
    BY <2>4, <1>7, <1>8 DEF BrokenPromises
  <2>5. QED BY <1>9, <2>1, <2>2, <2>3, <2>4 DEF ReplyStep
<1>10. ASSUME NEW w \in Workers, CaptureStep(w) PROVE CopiesBacked'
  BY <1>10, <1>7, <1>8 DEF CaptureStep, CaptureCommits, CaptureRefused, CaptureConfirmed
<1>11. ASSUME NEW w \in Workers, PipelineStep(w) PROVE CopiesBacked'
  <2>1. CASE PipelineLoads(w) \/ PipelineRedirects(w)
             \/ \E causes \in SUBSET Causes : PipelineDiagnosed(w, causes)
    BY <2>1, <1>4, <1>5, <1>6
  <2>2. CASE PipelineRaises(w) \/ PipelineOptedOut(w) \/ PipelineTimesOut(w)
             \/ PipelineDisputes(w) \/ PipelineCommits(w)
    BY <2>2, <1>7 DEF PipelineRaises, PipelineOptedOut, PipelineTimesOut,
                      PipelineDisputes, PipelineCommits
  <2>3. CASE FirstContact(w)
    BY <2>3, <1>8 DEF FirstContact
  <2>4. QED BY <1>11, <2>1, <2>2, <2>3 DEF PipelineStep
<1>12. CASE SchedulerStep
  <2>1. ASSUME NEW ids \in SUBSET Cases, ScanFinds(ids) PROVE CopiesBacked'
    BY <2>1 DEF ScanFinds, Consistent, CopiesBacked
  <2>2. ASSUME NEW c \in Cases, FollowupLoads(c) PROVE CopiesBacked'
    BY <1>0, <2>2, CopyLoaded DEF FollowupLoads
  <2>3. CASE FollowupSent \/ FollowupRaises \/ FollowupCommits
    BY <2>3, <1>7, <1>8 DEF FollowupSent, FollowupRaises, FollowupCommits
  <2>4. QED BY <1>12, <2>1, <2>2, <2>3 DEF SchedulerStep
<1>13. CASE Crash
  BY <1>13 DEF Crash, CopiesBacked, Idle, Task
<1>14. CASE UNCHANGED vars
  BY <1>14 DEF vars, Consistent, CopiesBacked
<1>15. QED BY <1>1, <1>9, <1>10, <1>11, <1>12, <1>13, <1>14 DEF Next

-----------------------------------------------------------------------------
\* The theorems.

LEMMA InitConsistent == Init => Consistent
<1> SUFFICES ASSUME Init PROVE Consistent
  OBVIOUS
<1>1. TypeOK
  BY IdleType, ConstantsOK DEF Init, TypeOK, LedgerInit, Statuses
<1>2. SessionsFit
  BY IdleFits DEF Init, SessionsFit
<1>3. RowsInOrder
  BY DEF Init, LedgerInit, RowsInOrder, Cases
<1>4. CopiesBacked
  BY DEF Init, CopiesBacked, Idle, Task
<1>5. ClosedMatchesOutcome
  BY DEF Init, LedgerInit, ClosedMatchesOutcome, Closed
<1>6. QED BY <1>1, <1>2, <1>3, <1>4, <1>5 DEF Consistent

LEMMA StepConsistent == Consistent /\ [Next]_vars => Consistent'
<1> SUFFICES ASSUME Consistent, [Next]_vars PROVE Consistent'
  OBVIOUS
<1>1. TypeOK' /\ SessionsFit'
  BY StepType, StepFits DEF Consistent
<1>2. LedgerMove
  BY StepMoves
<1>3. QED
  BY <1>1, <1>2, RowsStep, ClosedStep, StepCopies DEF Consistent

\* The inductive invariant: types, what each parked session knows of its case,
\* and the agreement of status, Outcome row and session copies.
THEOREM AlwaysConsistent == Spec => []Consistent
<1>1. QED BY InitConsistent, StepConsistent, PTL DEF Spec

\* Whatever sessions interleave, raise or crash, every row keeps its type; in
\* particular cases.status never leaves the statuses the code knows.
THEOREM TypeCorrect == Spec => []TypeOK
<1>1. Consistent => TypeOK
  BY DEF Consistent
<1>2. QED BY <1>1, AlwaysConsistent, PTL

\* A case that reads as closed has the Outcome row of that very state, although
\* sessions that lose the race for the row overwrite statuses from stale copies.
THEOREM ClosedCasesHaveOutcome == Spec => []ClosedMatchesOutcome
<1>1. Consistent => ClosedMatchesOutcome
  BY DEF Consistent
<1>2. QED BY <1>1, AlwaysConsistent, PTL

\* A recovered or stopped case changes status only by the hand of a session
\* that loaded the case before it was recovered or stopped.
THEOREM SettledCasesMoveOnlyByStaleSessions == Spec => SettledMovesOnlyStale
<1> DEFINE Moved == \A c \in Cases :
             status[c] \in {"recovered", "stopped"} /\ status'[c] # status[c]
             => \E w \in Tasks : /\ job[w].case = c
                                 /\ job[w].seen \notin {"recovered", "stopped"}
<1>1. ASSUME Consistent, [Next]_vars PROVE Moved
  <2> SUFFICES ASSUME NEW c \in Cases, status[c] \in {"recovered", "stopped"},
                      status'[c] # status[c]
               PROVE  \E w \in Tasks : /\ job[w].case = c
                                       /\ job[w].seen \notin {"recovered", "stopped"}
    OBVIOUS
  <2>1. outcome[c] # "none"
    BY <1>1 DEF Consistent, ClosedMatchesOutcome, Closed
  <2>2. status \in [Cases -> Statuses]
    BY <1>1 DEF Consistent, TypeOK
  <2>3. ASSUME NEW d, Open(d) PROVE FALSE
    BY <2>2, <2>3 DEF Open
  <2>4. PICK w \in Tasks : Moves(job[w].case, job[w].seen)
    BY <1>1, <2>3, StepMoves DEF LedgerMove
  <2>5. ASSUME NEW d, NEW f, Close(d, f) PROVE FALSE
    BY <2>1, <2>2, <2>5 DEF Close
  <2>6. PICK s \in Working \ {"open"} : Drift(job[w].case, s)
    BY <2>4, <2>5 DEF Moves
  <2>7. job[w].seen \notin {"recovered", "stopped"}
    BY <2>4, <2>5 DEF Moves
  <2>8. job[w].case = c
    BY <2>2, <2>6 DEF Drift
  <2>9. QED BY <2>7, <2>8
<1>2. Consistent /\ [Next]_vars => [Moved]_vars
  BY <1>1
<1>3. QED BY <1>2, AlwaysConsistent, PTL DEF Spec, SettledMovesOnlyStale

\* The sessions implement the ledger: however they overlap, each step is the
\* opening of a case, the closing of one with its only Outcome row, the return
\* of one to a waiting status, or invisible in the tables.
THEOREM SessionsImplementLedger == Spec => LedgerSpec
<1>1. Init => LedgerInit
  BY DEF Init
<1>2. Consistent /\ [Next]_vars => [LedgerNext]_ledgerVars
  <2> SUFFICES ASSUME Consistent, [Next]_vars PROVE [LedgerNext]_ledgerVars
    OBVIOUS
  <2>1. CASE UNCHANGED <<opened, status, outcome>>
    BY <2>1 DEF ledgerVars
  <2>2. CASE opened + 1 \in Cases /\ Open(opened + 1)
    BY <2>2 DEF LedgerNext
  <2>3. ASSUME NEW w \in Tasks, job[w].case \in 1..opened,
               Moves(job[w].case, job[w].seen)
        PROVE  LedgerNext
    <3>1. job[w].case \in Cases
      BY <2>3, ConstantsOK DEF Consistent, TypeOK, Cases
    <3>2. QED BY <2>3, <3>1 DEF Moves, LedgerNext
  <2>4. QED BY <2>1, <2>2, <2>3, StepMoves DEF LedgerMove
<1>3. QED BY <1>1, <1>2, AlwaysConsistent, PTL DEF Spec, LedgerSpec
=============================================================================
