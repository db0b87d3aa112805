----------------------------- MODULE SerialProofs -----------------------------
(***************************************************************************)
(* CaseSessions with at most one worker: no two handlers overlap, only the *)
(* follow-up scheduler runs beside them.  Then the sessions keep the       *)
(* README's lifecycle, in which a locked case is final.                    *)
(***************************************************************************)
EXTENDS CaseSessionsProofs

OneWorker == \A v, w \in Workers : v = w

\* The copy a reply or pipeline session decides from is what the row holds, and
\* the pipeline runs on a case nobody has touched since it was opened.
CopyCurrent(j) ==
    /\ j.at \in {"analysing", "acking", "committing"} => j.seen = status[j.case]
    /\ j.at \in {"queued", "diagnosing", "gating"} => status[j.case] = "open"

CopiesCurrent == \A w \in Workers : CopyCurrent(job[w])

-----------------------------------------------------------------------------
LEMMA InitCurrent == Init => CopiesCurrent
  BY DEF Init, CopiesCurrent, CopyCurrent, Idle, Task, Tasks

\* The one worker moves to where its copy does not matter.
LEMMA CurrentElsewhere ==
    ASSUME OneWorker, Consistent, NEW w \in Workers, NEW k, job' = [job EXCEPT ![w] = k],
           k.at \notin {"analysing", "acking", "committing", "queued", "diagnosing", "gating"}
    PROVE  CopiesCurrent'
<1> SUFFICES ASSUME NEW v \in Workers PROVE CopyCurrent(job[v])'
  BY DEF CopiesCurrent
<1>1. v = w
  BY DEF OneWorker
<1>2. job'[v] = k
  BY <1>1 DEF Consistent, TypeOK, Tasks
<1>3. QED BY <1>2 DEF CopyCurrent

LEMMA CurrentEnd ==
    ASSUME OneWorker, Consistent, NEW w \in Workers, End(w)
    PROVE  CopiesCurrent'
<1>1. Idle.at = "idle"
  BY DEF Idle, Task
<1>2. QED BY <1>1, CurrentElsewhere DEF End

LEMMA CurrentGoto ==
    ASSUME OneWorker, Consistent, NEW w \in Workers, Goto(w, "handing_off")
             \/ Goto(w, "handed_off") \/ Goto(w, "confirming") \/ Goto(w, "filing")
    PROVE  CopiesCurrent'
<1>1. PICK at \in {"handing_off", "handed_off", "confirming", "filing"} : Goto(w, at)
  OBVIOUS
<1> DEFINE k == [job[w] EXCEPT !.at = at]
<1>2. job' = [job EXCEPT ![w] = k] /\ k.at = at
  BY <1>1 DEF Goto, Consistent, TypeOK, Job, Tasks
<1>3. QED BY <1>2, CurrentElsewhere

\* The one worker moves and the case rows stay as they are.
LEMMA CurrentMoved ==
    ASSUME OneWorker, Consistent, NEW w \in Workers, NEW k, job' = [job EXCEPT ![w] = k],
           status' = status, CopyCurrent(k)
    PROVE  CopiesCurrent'
<1> SUFFICES ASSUME NEW v \in Workers PROVE CopyCurrent(job[v])'
  BY DEF CopiesCurrent
<1>1. v = w
  BY DEF OneWorker
<1>2. job'[v] = k
  BY <1>1 DEF Consistent, TypeOK, Tasks
<1>3. QED BY <1>2 DEF CopyCurrent

-----------------------------------------------------------------------------
LEMMA StepCurrent ==
    ASSUME OneWorker, Consistent, CopiesCurrent, [Next]_vars
    PROVE  CopiesCurrent'
<1>0. job \in [Tasks -> Job] /\ Workers \subseteq Tasks /\ Scheduler \notin Workers
  BY ConstantsOK DEF Consistent, TypeOK, Tasks
<1>1. CASE UNCHANGED vars
  BY <1>1 DEF vars, CopiesCurrent, CopyCurrent
<1>2. CASE Crash
  BY <1>0, <1>2 DEF Crash, CopiesCurrent, CopyCurrent, Idle, Task
<1>3. CASE SchedulerStep
  <2>1. status' = status
    BY <1>3 DEF SchedulerStep, ScanFinds, FollowupLoads, FollowupSent, FollowupRaises,
                FollowupCommits
  <2>2. \A w \in Workers : job'[w] = job[w]
    BY <1>0, <1>3 DEF SchedulerStep, ScanFinds, FollowupLoads, FollowupSent,
                      FollowupRaises, FollowupCommits, End, Goto
  <2>3. QED BY <2>1, <2>2 DEF CopiesCurrent, CopyCurrent
<1>4. ASSUME NEW w \in Workers, Arrival(w) PROVE CopiesCurrent'
  <2>1. ASSUME NEW c \in Cases, ReplyArrives(w, c) PROVE CopiesCurrent'
    <3> DEFINE k == IF status[c] \in Locked THEN Idle ELSE Session("analysing", c)
    <3>1. job' = [job EXCEPT ![w] = k] /\ status' = status
      BY <2>1 DEF ReplyArrives, Start
    <3>2. CopyCurrent(k)
      BY DEF CopyCurrent, Idle, Session, Task
    <3>3. QED BY <3>1, <3>2, CurrentMoved
  <2>2. ASSUME NEW c \in Cases, CaptureArrives(w, c) PROVE CopiesCurrent'
    <3> DEFINE k == IF status[c] \in {"recovered", "stopped", "escalated"}
                    THEN Idle ELSE Session("crediting", c)
    <3>1. job' = [job EXCEPT ![w] = k]
      BY <2>2 DEF CaptureArrives, Start
    <3>2. k.at \in {"idle", "crediting"}
      BY DEF Idle, Session, Task
    <3>3. QED BY <3>1, <3>2, CurrentElsewhere
  <2>3. CASE FailureArrives(w)
    <3> DEFINE k == Task("queued", opened + 1, "absent")
    <3>1. job' = [job EXCEPT ![w] = k] /\ opened + 1 \in Cases
          /\ status' = [status EXCEPT ![opened + 1] = "open"]
      BY <2>3, ConstantsOK DEF FailureArrives, Start, Consistent, TypeOK, Cases
    <3>2. status'[opened + 1] = "open"
      BY <3>1 DEF Consistent, TypeOK
    <3>3. \A v \in Workers : job'[v] = k
      BY <1>0, <3>1 DEF OneWorker
    <3>4. QED BY <3>2, <3>3 DEF CopiesCurrent, CopyCurrent, Task
  <2>4. QED BY <1>4, <2>1, <2>2, <2>3 DEF Arrival
<1>5. ASSUME NEW w \in Workers, ReplyStep(w) PROVE CopiesCurrent'
  <2>1. ASSUME NEW s \in ReplyStates, ReplyClassified(w, s) PROVE CopiesCurrent'
    <3> DEFINE k == IF s \in StoredStates THEN [job[w] EXCEPT !.at = "acking", !.state = s]
                                          ELSE Idle
    <3>1. job' = [job EXCEPT ![w] = k] /\ status' = status /\ job[w].at = "analysing"
      BY <2>1 DEF ReplyClassified
    <3>2. CopyCurrent(k)
      BY <1>0, <3>1 DEF CopiesCurrent, CopyCurrent, Idle, Task, Job
    <3>3. QED BY <3>1, <3>2, CurrentMoved
  <2>2. CASE ReplyAcked(w)
    <3> DEFINE k == [job[w] EXCEPT !.at = "committing"]
    <3>1. job' = [job EXCEPT ![w] = k] /\ status' = status /\ job[w].at = "acking"
      BY <2>2 DEF ReplyAcked, Goto
    <3>2. CopyCurrent(k)
      BY <1>0, <3>1 DEF CopiesCurrent, CopyCurrent, Job
    <3>3. QED BY <3>1, <3>2, CurrentMoved
  <2>3. CASE ReplyCommits(w)
    <3> DEFINE k == [job[w] EXCEPT !.at = "ruling",
                                   !.seen = ReplyTarget(job[w].state, job[w].seen)]
    <3>1. job' = [job EXCEPT ![w] = k] /\ k.at = "ruling"
      BY <1>0, <2>3 DEF ReplyCommits, Job
    <3>2. QED BY <3>1, CurrentElsewhere
  <2>4. CASE ReplyUnclassified(w) \/ ReplyCommitFails(w) \/ ReplySendRaises(w)
             \/ RulesQuiet(w) \/ HandoffRaises(w) \/ HandoffCommits(w)
    BY <2>4, CurrentEnd DEF ReplyUnclassified, ReplyCommitFails, ReplySendRaises,
                            RulesQuiet, HandoffRaises, HandoffCommits
  <2>5. CASE BrokenPromises(w) \/ HandoffSent(w)
    BY <2>5, CurrentEnd, CurrentGoto DEF BrokenPromises, HandoffSent
  <2>6. QED BY <1>5, <2>1, <2>2, <2>3, <2>4, <2>5 DEF ReplyStep
<1>6. ASSUME NEW w \in Workers, CaptureStep(w) PROVE CopiesCurrent'
  BY <1>6, CurrentEnd, CurrentGoto DEF CaptureStep, CaptureCommits, CaptureRefused,
                                       CaptureConfirmed
<1>7. ASSUME NEW w \in Workers, PipelineStep(w) PROVE CopiesCurrent'
  <2>1. CASE PipelineLoads(w)
    <3> DEFINE k == Session("diagnosing", job[w].case)
    <3>1. job' = [job EXCEPT ![w] = k] /\ status' = status /\ job[w].at = "queued"
      BY <2>1 DEF PipelineLoads
    <3>2. CopyCurrent(k)
      BY <3>1 DEF CopiesCurrent, CopyCurrent, Session, Task
    <3>3. QED BY <3>1, <3>2, CurrentMoved
  <2>2. ASSUME NEW causes \in SUBSET Causes, PipelineDiagnosed(w, causes)
        PROVE  CopiesCurrent'
    <3> DEFINE k == [job[w] EXCEPT !.at = "gating", !.causes = causes]
    <3>1. job' = [job EXCEPT ![w] = k] /\ status' = status /\ job[w].at = "diagnosing"
      BY <2>2 DEF PipelineDiagnosed
    <3>2. CopyCurrent(k)
      BY <1>0, <3>1 DEF CopiesCurrent, CopyCurrent, Job
    <3>3. QED BY <3>1, <3>2, CurrentMoved
  <2>3. CASE PipelineRedirects(w)
    <3> DEFINE new == IF Redirects(job[w]) THEN "payment_method_required" ELSE job[w].seen
               k == [job[w] EXCEPT !.at = "disputing", !.seen = new]
    <3>1. job' = [job EXCEPT ![w] = k] /\ k.at = "disputing"
      BY <1>0, <2>3 DEF PipelineRedirects, Job
    <3>2. QED BY <3>1, CurrentElsewhere
  <2>4. CASE PipelineRaises(w) \/ PipelineOptedOut(w) \/ PipelineTimesOut(w)
             \/ PipelineDisputes(w) \/ PipelineCommits(w)
    BY <2>4, CurrentEnd DEF PipelineRaises, PipelineOptedOut, PipelineTimesOut,
                            PipelineDisputes, PipelineCommits
  <2>5. CASE FirstContact(w)
    BY <2>5, CurrentGoto DEF FirstContact
  <2>6. QED BY <1>7, <2>1, <2>2, <2>3, <2>4, <2>5 DEF PipelineStep
<1>8. QED BY <1>1, <1>2, <1>3, <1>4, <1>5, <1>6, <1>7 DEF Next

-----------------------------------------------------------------------------
\* A status that moves with no Outcome row is not a locked one: the session that
\* writes it knows it, and its copy is current.
LEMMA DriftsUnlocked ==
    ASSUME Consistent, CopiesCurrent, Next, outcome' = outcome,
           NEW c \in Cases, status'[c] # status[c]
    PROVE  status[c] \notin Locked
<1>0. /\ job \in [Tasks -> Job] /\ status \in [Cases -> Statuses]
      /\ outcome \in [Cases -> Closed \cup {"none"}]
      /\ Workers \subseteq Tasks
      /\ \A f \in Closed : f # "none"
  BY DEF Consistent, TypeOK, Tasks, Closed
<1>1. ASSUME SchedulerStep \/ Crash PROVE FALSE
  <2>1. status' = status
    BY <1>1 DEF Crash, SchedulerStep, ScanFinds, FollowupLoads, FollowupSent,
                FollowupRaises, FollowupCommits
  <2>2. QED BY <2>1
<1>2. ASSUME NEW w \in Workers, Arrival(w) PROVE status[c] \notin Locked
  <2>1. status' = status \/ status' = [status EXCEPT ![opened + 1] = "open"]
    BY <1>2 DEF Arrival, FailureArrives, ReplyArrives, CaptureArrives
  <2>2. c = opened + 1
    BY <1>0, <2>1
  <2>3. c > opened
    BY <2>2, ConstantsOK DEF Consistent, TypeOK
  <2>4. status[c] = "absent"
    BY <2>3 DEF Consistent, RowsInOrder
  <2>5. QED BY <2>4 DEF Locked, Closed
<1>3. ASSUME NEW w \in Tasks, job[w].at # "idle", NEW f \in Closed, CanInsert(job[w].case, f),
             outcome' = [outcome EXCEPT ![job[w].case] = f]
      PROVE  FALSE
  <2>1. job[w].case \in Cases
    BY <1>3, BusyCase
  <2>2. QED BY <1>0, <1>3, <2>1 DEF CanInsert
<1>4. ASSUME NEW w \in Workers, ReplyStep(w) PROVE status[c] \notin Locked
  <2>1. CASE ReplyCommits(w) \/ ReplySendRaises(w)
    <3>1. job[w].at \in {"acking", "committing"} /\ ReplyWrites(job[w])
      <4>1. status' # status
        OBVIOUS
      <4>2. QED BY <2>1, <4>1 DEF ReplyCommits, ReplySendRaises
    <3>2. c = job[w].case
      BY <1>0, <3>1 DEF ReplyWrites, Flushed
    <3>3. status[c] = job[w].seen
      BY <3>1, <3>2 DEF CopiesCurrent, CopyCurrent
    <3>4. QED BY <1>0, <3>1, <3>3 DEF Consistent, SessionsFit, JobFits
  <2>2. CASE BrokenPromises(w)
    <3>1. CanInsert(job[w].case, "human_escalated") /\ job[w].at # "idle"
          /\ outcome' = [outcome EXCEPT ![job[w].case] = "human_escalated"]
      <4>1. status' # status
        OBVIOUS
      <4>2. QED BY <2>2, <4>1 DEF BrokenPromises
    <3>2. QED BY <1>0, <1>3, <3>1 DEF Closed
  <2>3. CASE \/ \E s \in ReplyStates : ReplyClassified(w, s)
             \/ ReplyUnclassified(w) \/ ReplyAcked(w) \/ ReplyCommitFails(w)
             \/ RulesQuiet(w) \/ HandoffSent(w) \/ HandoffRaises(w) \/ HandoffCommits(w)
    <3>1. status' = status
      BY <2>3 DEF ReplyClassified, ReplyUnclassified, ReplyAcked, ReplyCommitFails,
                  RulesQuiet, HandoffSent, HandoffRaises, HandoffCommits
    <3>2. QED BY <3>1
  <2>4. QED BY <1>4, <2>1, <2>2, <2>3 DEF ReplyStep
<1>5. ASSUME NEW w \in Workers, CaptureStep(w) PROVE FALSE
  <2>1. CASE CaptureCommits(w)
    BY <1>0, <1>3, <2>1 DEF CaptureCommits, Closed
  <2>2. CASE CaptureRefused(w) \/ CaptureConfirmed(w)
    <3>1. status' = status
      BY <2>2 DEF CaptureRefused, CaptureConfirmed
    <3>2. QED BY <3>1
  <2>3. QED BY <1>5, <2>1, <2>2 DEF CaptureStep
<1>6. ASSUME NEW w \in Workers, PipelineStep(w) PROVE status[c] \notin Locked
  <2>1. CASE PipelineTimesOut(w)
    <3>1. CanInsert(job[w].case, "timeout") /\ job[w].at # "idle"
          /\ outcome' = [outcome EXCEPT ![job[w].case] = "timeout"]
      <4>1. status' # status
        OBVIOUS
      <4>2. QED BY <2>1, <4>1 DEF PipelineTimesOut
    <3>2. QED BY <1>0, <1>3, <3>1 DEF Closed
  <2>2. CASE PipelineDisputes(w)
    <3>1. CanInsert(job[w].case, "disputed") /\ job[w].at # "idle"
          /\ outcome' = [outcome EXCEPT ![job[w].case] = "disputed"]
      <4>1. status' # status
        OBVIOUS
      <4>2. QED BY <2>2, <4>1 DEF PipelineDisputes
    <3>2. QED BY <1>0, <1>3, <3>1 DEF Closed
  <2>3. CASE PipelineRedirects(w)
    <3>1. c = job[w].case /\ job[w].at = "gating"
      BY <1>0, <2>3 DEF PipelineRedirects, Flushed
    <3>2. status[c] = "open"
      BY <3>1 DEF CopiesCurrent, CopyCurrent
    <3>3. QED BY <3>2 DEF Locked, Closed
  <2>4. CASE \/ \E causes \in SUBSET Causes : PipelineDiagnosed(w, causes)
             \/ PipelineLoads(w) \/ PipelineRaises(w) \/ PipelineOptedOut(w)
             \/ FirstContact(w) \/ PipelineCommits(w)
    <3>1. status' = status
      BY <2>4 DEF PipelineDiagnosed, PipelineLoads, PipelineRaises, PipelineOptedOut,
                  FirstContact, PipelineCommits
    <3>2. QED BY <3>1
  <2>5. QED BY <1>6, <2>1, <2>2, <2>3, <2>4 DEF PipelineStep
<1>7. QED BY <1>1, <1>2, <1>4, <1>5, <1>6 DEF Next

-----------------------------------------------------------------------------
\* As long as handlers do not overlap, and whatever the scheduler does beside
\* them, whatever raises and whenever the process dies, a case opens once, a
\* closing status and its one Outcome row are one commit, and a locked case does
\* not move again.
THEOREM SerialSessionsKeepLifecycle ==
    ASSUME OneWorker
    PROVE  Spec => LifecycleSpec
<1>1. Spec => []CopiesCurrent
  <2>1. Consistent /\ CopiesCurrent /\ [Next]_vars => CopiesCurrent'
    BY StepCurrent
  <2>2. QED BY <2>1, InitCurrent, AlwaysConsistent, PTL DEF Spec
<1>2. Consistent /\ CopiesCurrent /\ [Next]_vars => [LifecycleNext]_ledgerVars
  <2> SUFFICES ASSUME Consistent, CopiesCurrent, [Next]_vars, ~UNCHANGED ledgerVars
               PROVE  LifecycleNext
    OBVIOUS
  <2>0. Next
    BY DEF vars, ledgerVars
  <2>1. LedgerMove
    BY StepMoves
  <2>2. CASE opened + 1 \in Cases /\ Open(opened + 1)
    BY <2>2 DEF LifecycleNext
  <2>3. ASSUME NEW w \in Tasks, job[w].case \in 1..opened,
               Moves(job[w].case, job[w].seen)
        PROVE  LifecycleNext
    <3>1. job[w].case \in Cases
      BY <2>3, ConstantsOK DEF Consistent, TypeOK, Cases
    <3>2. CASE \E f \in Closed : Close(job[w].case, f)
      BY <3>1, <3>2 DEF LifecycleNext
    <3>3. ASSUME NEW s \in Working \ {"open"}, Drift(job[w].case, s)
          PROVE  LifecycleNext
      <4>1. outcome' = outcome /\ status' = [status EXCEPT ![job[w].case] = s]
            /\ status' # status /\ status \in [Cases -> Statuses]
        BY <3>3 DEF Drift, ledgerVars, Consistent, TypeOK
      <4>2. status'[job[w].case] # status[job[w].case]
        BY <3>1, <4>1
      <4>3. status[job[w].case] \notin Locked
        BY <2>0, <3>1, <4>1, <4>2, DriftsUnlocked
      <4>4. QED BY <3>1, <3>3, <4>3 DEF LifecycleNext
    <3>4. QED BY <2>3, <3>2, <3>3 DEF Moves
  <2>4. QED BY <2>1, <2>2, <2>3 DEF LedgerMove, ledgerVars
<1>3. Init => LedgerInit
  BY DEF Init
<1>4. QED BY <1>1, <1>2, <1>3, AlwaysConsistent, PTL DEF Spec, LifecycleSpec
=============================================================================
