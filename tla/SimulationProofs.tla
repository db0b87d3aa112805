-------------------------- MODULE SimulationProofs --------------------------
(***************************************************************************)
(* The safety properties of Simulation, for any number of rounds, replies  *)
(* and attempts.                                                           *)
(***************************************************************************)
EXTENDS Simulation, TLAPS

Final == Terminal \cup {"disputed"}

\* A closing status is the one of the Outcome row, which is never taken back.
StatusBacked == status \in Final => outcome = status

\* Until the failure webhook is served the case does not exist, and as long as it
\* does not, nothing is done about it.
AbsentUntouched ==
    /\ at = "starting" => status = "absent"
    /\ status = "absent" =>
         /\ outcome = "none" /\ pipeline = "none" /\ late = {}
         /\ at \in {"starting", "polling", "over"}

\* The closing status is gone, and the pipeline, the only one that overwrites it, is
\* past the commit in which it does.
Overwritten == status \notin Final /\ pipeline # "deciding"

\* The conversation closes a case with a status the sandbox calls terminal, and
\* only while it posts a reply or a payment: the re-read that follows ends the run
\* unless the status has been overwritten.
ConversationCloses ==
    closer = "conversation" =>
        outcome \in Terminal /\ (status = outcome \/ Overwritten)
OverAfterClosing ==
    driver = "sandbox" /\ closer = "conversation" =>
        at \in {"paying", "refreshing", "over"} \/ Overwritten

\* The sandbox stops at the first exception: what is served after its client gave
\* up is served to nobody.
LateAfterOver == driver = "sandbox" /\ late # {} => at = "over"

\* A step of a round is taken in a round, and an answer of the persona is one
\* that max_replies still allows.
RoundOpen == at \notin {"starting", "polling", "over"} => round < MaxRounds
ReplyLeft == driver = "harness" /\ at = "asking" => replies < MaxReplies

Consistent ==
    /\ TypeOK
    /\ RoundOpen
    /\ ReplyLeft
    /\ StatusBacked
    /\ AbsentUntouched
    /\ ConversationCloses
    /\ OverAfterClosing
    /\ LateAfterOver
    /\ ReportBacked

-----------------------------------------------------------------------------
\* A reply or a payment that is served leaves the rows of the case alone, closes
\* it with its first Outcome, or moves it between statuses that close nothing.
Conversation ==
    \/ Stays
    \/ \E f \in Terminal : Closes(f, "conversation")
    \/ \E s \in {status, "promise_pending", "payment_method_required"} :
         status \notin Terminal /\ Moves(s)

LEMMA ReplyRows ==
    ASSUME TypeOK, status # "absent", ServesReply
    PROVE  Conversation
<1>1. CASE Stays
  BY <1>1 DEF Conversation
<1>2. ASSUME NEW s \in {status, "promise_pending", "payment_method_required"},
             status \notin Terminal, Moves(s)
      PROVE  Conversation
  BY <1>2 DEF Conversation, TypeOK, Statuses, Terminal
<1>3. ASSUME NEW f \in {"human_escalated", "retained_paused", "stopped"},
             Closes(f, "conversation")
      PROVE  Conversation
  BY <1>3 DEF Conversation, Terminal
<1>4. QED BY <1>1, <1>2, <1>3 DEF ServesReply

LEMMA CaptureRows == ServesCapture => Conversation
  BY DEF ServesCapture, Conversation, Terminal

LEMMA ConversationType ==
    ASSUME TypeOK, Conversation
    PROVE  /\ status' \in Statuses
           /\ outcome' \in Terminal \cup {"disputed", "none"}
           /\ closer' \in {"nobody", "conversation", "pipeline"}
  BY DEF TypeOK, Conversation, Stays, Closes, Moves, Statuses

LEMMA MessagesType ==
    ASSUME TypeOK, NEW b \in BOOLEAN, Messages(b)
    PROVE  contacts' \in 0..MaxRetries /\ unseen' \in BOOLEAN /\ ack' \in BOOLEAN
  BY SimulationConstantsOK DEF TypeOK, Messages

LEMMA ReplyType ==
    ASSUME TypeOK, ServesReply
    PROVE  /\ contacts' \in 0..MaxRetries /\ unseen' \in BOOLEAN /\ ack' \in BOOLEAN
           /\ replied' \in BOOLEAN
  BY MessagesType DEF TypeOK, ServesReply, Silence

-----------------------------------------------------------------------------
\* Types.

DriverType ==
    at \in Steps /\ round \in 0..MaxRounds /\ done \in BOOLEAN

LEMMA NextRoundType == TypeOK /\ round < MaxRounds /\ NextRound => DriverType'
  BY SimulationConstantsOK DEF TypeOK, NextRound, Goto, Steps, DriverType

LEMMA OverType == TypeOK /\ Over /\ round' = round => DriverType'
  BY DEF TypeOK, Over, Goto, Steps, DriverType

LEMMA WithinType ==
    ASSUME TypeOK, NEW step \in Steps, Within(step)
    PROVE  DriverType'
  BY DEF TypeOK, Within, Goto, DriverType

LEMMA StepType ==
    ASSUME TypeOK, AbsentUntouched, RoundOpen, ReplyLeft, Next
    PROVE  TypeOK'
<1> USE SimulationConstantsOK DEF service, messages, counters
<1>0. CASE PipelineRedirects
  <2>1. /\ UNCHANGED <<outcome, closer, contacts, unseen, ack, replied, late, driver>>
        /\ UNCHANGED <<at, round, counters, verdict, done>>
    BY <1>0 DEF PipelineRedirects, Moves, Silence
  <2>2. status' \in Statuses /\ pipeline' \in PipelineStates
    BY <1>0 DEF PipelineRedirects, Moves, Statuses, PipelineStates
  <2>3. QED BY <2>1, <2>2 DEF TypeOK
<1>1. CASE PipelineEnds
  <2>1. /\ status' \in Statuses
        /\ outcome' \in Terminal \cup {"disputed", "none"}
        /\ closer' \in {"nobody", "conversation", "pipeline"}
    BY <1>1 DEF PipelineEnds, TypeOK, Closes, Stays, Statuses, Terminal
  <2>2. \/ contacts' \in {contacts, contacts + 1} /\ ack' = FALSE
           /\ (contacts < MaxRetries \/ contacts' = contacts)
           /\ unseen' \in {TRUE, unseen}
        \/ Silence
    BY <1>1 DEF PipelineEnds
  <2>3. contacts' \in 0..MaxRetries
    <3>1. contacts' = contacts \/ (contacts < MaxRetries /\ contacts' = contacts + 1)
      BY <2>2 DEF Silence
    <3>2. QED BY <3>1 DEF TypeOK
  <2>4. unseen' \in BOOLEAN /\ ack' \in BOOLEAN
    <3>1. unseen \in BOOLEAN /\ ack \in BOOLEAN
      BY DEF TypeOK
    <3>2. CASE Silence
      BY <3>1, <3>2, Zenon DEF Silence
    <3>3. CASE unseen' \in {TRUE, unseen} /\ ack' = FALSE
      BY <3>1, <3>3, Zenon
    <3>4. QED BY <2>2, <3>2, <3>3
  <2>5. pipeline' = "none"
        /\ UNCHANGED <<replied, late, driver, at, round, counters, verdict, done>>
    BY <1>1 DEF PipelineEnds
  <2>6. QED BY <2>1, <2>3, <2>4, <2>5 DEF TypeOK, PipelineStates
<1>2. CASE LateService
  <2>1. Conversation
    BY <1>2, ReplyRows, CaptureRows DEF LateService, AbsentUntouched
  <2>2. /\ contacts' \in 0..MaxRetries /\ unseen' \in BOOLEAN /\ ack' \in BOOLEAN
        /\ replied' \in BOOLEAN
    BY <1>2, ReplyType DEF LateService, ServesCapture, Silence, TypeOK
  <2>3. QED BY <1>2, <2>1, <2>2, ConversationType DEF LateService, TypeOK
<1>3. CASE Starts
  <2>1. DriverType'
    BY <1>3, WithinType DEF Starts, Steps
  <2>2. status' \in Statuses /\ pipeline' \in PipelineStates
    BY <1>3 DEF Starts, TypeOK, Statuses, PipelineStates
  <2>3. QED BY <1>3, <2>1, <2>2 DEF Starts, DriverType, TypeOK
<1>4. CASE StartFails \/ NoCase
  <2>1. DriverType'
    BY <1>4, NextRoundType, OverType DEF StartFails, NoCase, Polls
  <2>2. UNCHANGED <<service, messages, driver, counters, verdict>>
    BY <1>4 DEF StartFails, NoCase
  <2>3. QED BY <2>1, <2>2 DEF DriverType, TypeOK
<1>5. CASE Sweeps \/ Concludes
  <2>1. DriverType'
    BY <1>5, OverType DEF Sweeps, Concludes
  <2>2. verdict' \in Terminal \cup {"active"}
    BY <1>5 DEF Sweeps, Concludes, Terminal, TypeOK
  <2>3. QED BY <1>5, <2>1, <2>2 DEF Sweeps, Concludes, DriverType, TypeOK
<1>6. CASE PendingReminder
  <2>1. DriverType'
    BY <1>6, NextRoundType, WithinType DEF PendingReminder, Polls, Steps
  <2>2. QED BY <1>6, <2>1 DEF PendingReminder, DriverType, TypeOK
<1>7. CASE Notices
  <2>0. /\ stalled' = 0 /\ unseen' = FALSE
        /\ UNCHANGED <<service, ack, driver, pay, post, replies, verdict>>
    BY <1>7 DEF Notices
  <2>1. unseen' \in BOOLEAN
    BY <2>0, Zenon
  <2>2. CASE driver = "sandbox"
    <3>1. DriverType'
      BY <1>7, <2>2, NextRoundType, WithinType DEF Notices, Polls, Steps
    <3>2. pending' = (ack /\ status = "promise_pending")
      BY <1>7, <2>2 DEF Notices
    <3>3. pending' \in BOOLEAN
      BY <3>2, Zenon
    <3>4. QED BY <2>0, <2>1, <3>1, <3>3 DEF DriverType, TypeOK
  <2>3. CASE driver # "sandbox"
    <3>1. DriverType'
      BY <1>7, <2>3, WithinType DEF Notices, Goto, Steps, TypeOK, DriverType
    <3>2. pending' = FALSE
      BY <1>7, <2>3 DEF Notices
    <3>3. pending' \in BOOLEAN
      BY <3>2, Zenon
    <3>4. QED BY <2>0, <2>1, <3>1, <3>3 DEF DriverType, TypeOK
  <2>4. QED BY <2>2, <2>3
<1>8. CASE Quiet
  <2>1. DriverType'
    BY <1>8, NextRoundType, WithinType DEF Quiet, Polls, Steps
  <2>2. stalled' \in 0..(StalledRounds - 1)
    BY <1>8 DEF Quiet, TypeOK
  <2>3. QED BY <1>8, <2>1, <2>2 DEF Quiet, DriverType, TypeOK
<1>9. CASE Reminds \/ Nudges
  <2>1. contacts' \in 0..MaxRetries /\ unseen' \in BOOLEAN /\ ack' \in BOOLEAN
    BY <1>9, MessagesType DEF Reminds, Nudges, TypeOK
  <2>2. DriverType'
    BY <1>9, NextRoundType DEF Reminds, Nudges, RoundOpen
  <2>3. /\ UNCHANGED <<status, outcome, replied, pipeline, late, closer>>
        /\ UNCHANGED <<driver, counters, verdict>>
    BY <1>9 DEF Reminds, Nudges
  <2>4. QED BY <2>1, <2>2, <2>3 DEF DriverType, TypeOK
<1>10. ASSUME NEW reply \in PersonaReplies, Answers(reply) PROVE TypeOK'
  <2>1. DriverType'
    BY <1>10, NextRoundType, WithinType DEF Answers, RoundOpen, Steps
  <2>2. replies' \in 0..MaxReplies
    BY <1>10 DEF Answers, ReplyLeft, TypeOK
  <2>3. pay' \in BOOLEAN
    BY <1>10 DEF Answers
  <2>4. QED BY <1>10, <2>1, <2>2, <2>3 DEF Answers, DriverType, TypeOK
<1>11. CASE ReplyServed \/ CaptureServed
  <2>1. Conversation
    BY <1>11, ReplyRows, CaptureRows DEF ReplyServed, CaptureServed, AbsentUntouched
  <2>2. /\ contacts' \in 0..MaxRetries /\ unseen' \in BOOLEAN /\ ack' \in BOOLEAN
        /\ replied' \in BOOLEAN
    BY <1>11, ReplyType DEF ReplyServed, CaptureServed, ServesCapture, Silence, TypeOK
  <2>3. at' \in Steps /\ round' \in 0..MaxRounds /\ done' \in BOOLEAN
    BY <1>11 DEF ReplyServed, CaptureServed, NextRound, Within, Goto, TypeOK, Steps,
                 RoundOpen
  <2>4. QED BY <1>11, <2>1, <2>2, <2>3, ConversationType
            DEF ReplyServed, CaptureServed, TypeOK
<1>12. CASE PostAgain
  BY <1>12 DEF PostAgain, Posting, TypeOK
<1>13. CASE Raises
  <2>1. DriverType'
    BY <1>13, NextRoundType, OverType DEF Raises, RoundOpen
  <2>2. late' \subseteq {"reply", "capture"}
    BY <1>13 DEF Raises, Posting, TypeOK
  <2>3. QED BY <1>13, <2>1, <2>2 DEF Raises, DriverType, TypeOK
<1>14. CASE Refreshes
  <2>1. DriverType'
    BY <1>14, NextRoundType, OverType DEF Refreshes, RoundOpen
  <2>2. QED BY <1>14, <2>1 DEF Refreshes, DriverType, TypeOK
<1>15. QED BY <1>0, <1>1, <1>2, <1>3, <1>4, <1>5, <1>6, <1>7, <1>8, <1>9, <1>10,
              <1>11, <1>12, <1>13, <1>14 DEF Next, Driver, Background

-----------------------------------------------------------------------------
\* The rows of the case: the first Outcome stands, and it is the closing status.

Served == LateService \/ ReplyServed \/ CaptureServed

LEMMA ServedRows == TypeOK /\ AbsentUntouched /\ Served => Conversation
  BY ReplyRows, CaptureRows
     DEF Served, LateService, ReplyServed, CaptureServed, AbsentUntouched

RowsKept == UNCHANGED <<status, outcome, closer, pipeline>>

LEMMA Elsewhere ==
    ASSUME Next
    PROVE  PipelineRedirects \/ PipelineEnds \/ Served \/ Starts \/ RowsKept
  BY DEF Next, Driver, Background, Served, RowsKept, StartFails, NoCase, Sweeps,
         PendingReminder, Concludes, Notices, Quiet, Reminds, Nudges, Answers,
         PostAgain, Raises, Refreshes, service

LEMMA ServedElsewhere == Served => UNCHANGED pipeline
  BY DEF Served, LateService, ReplyServed, CaptureServed

LEMMA StepRows ==
    ASSUME TypeOK, StatusBacked, AbsentUntouched, ConversationCloses, Next
    PROVE  /\ StatusBacked'
           /\ ConversationCloses'
           /\ outcome # "none" => outcome' = outcome
           /\ outcome # "none" /\ Overwritten => Overwritten'
<1> USE DEF StatusBacked, ConversationCloses, Overwritten, Final, Terminal
<1>1. CASE PipelineRedirects
  BY <1>1 DEF PipelineRedirects, Moves
<1>2. CASE PipelineEnds
  <2>1. \/ Stays
        \/ \E f \in {"disputed", "timeout"} : Closes(f, "pipeline")
    BY <1>2 DEF PipelineEnds
  <2>2. pipeline' = "none"
    BY <1>2 DEF PipelineEnds
  <2>3. QED BY <2>1, <2>2 DEF Stays, Closes
<1>3. CASE Served
  <2>1. Conversation /\ UNCHANGED pipeline
    BY <1>3, ServedRows, ServedElsewhere
  <2>2. CASE Stays
    BY <2>1, <2>2 DEF Stays
  <2>3. ASSUME NEW f \in Terminal, Closes(f, "conversation")
        PROVE  /\ StatusBacked' /\ ConversationCloses'
               /\ outcome = "none"
    BY <2>3 DEF Closes
  <2>4. ASSUME NEW s \in {status, "promise_pending", "payment_method_required"},
               status \notin Terminal, Moves(s)
        PROVE  /\ StatusBacked' /\ ConversationCloses'
               /\ outcome' = outcome
               /\ Overwritten => Overwritten'
    BY <2>1, <2>4 DEF Moves
  <2>5. QED BY <2>1, <2>2, <2>3, <2>4 DEF Conversation
<1>4. CASE Starts
  BY <1>4 DEF Starts, AbsentUntouched
<1>5. CASE RowsKept
  BY <1>5 DEF RowsKept
<1>6. QED BY <1>1, <1>2, <1>3, <1>4, <1>5, Elsewhere

-----------------------------------------------------------------------------
\* Where the driver is.

LEMMA StepPlace ==
    ASSUME Consistent, Next
    PROVE  RoundOpen' /\ ReplyLeft' /\ LateAfterOver'
<1>1. CASE PipelineRedirects \/ PipelineEnds
  BY <1>1 DEF PipelineRedirects, PipelineEnds, counters, Consistent, RoundOpen,
              ReplyLeft, LateAfterOver
<1>2. CASE LateService
  BY <1>2 DEF LateService, counters, Consistent, RoundOpen, ReplyLeft, LateAfterOver
<1>3. CASE Starts \/ StartFails \/ NoCase \/ Sweeps \/ Concludes
  <2>1. at' \in {"polling", "over"}
    BY <1>3 DEF Starts, StartFails, NoCase, Sweeps, Concludes, Over, NextRound, Within,
                Goto
  <2>2. late' = late /\ driver' = driver /\ at # "over"
    BY <1>3 DEF Starts, StartFails, NoCase, Sweeps, Concludes, Polls, service
  <2>3. QED BY <2>1, <2>2 DEF Consistent, RoundOpen, ReplyLeft, LateAfterOver
<1>4. CASE PendingReminder \/ Quiet
  BY <1>4 DEF PendingReminder, Quiet, Polls, NextRound, Within, Goto, service,
              Consistent, TypeOK, RoundOpen, ReplyLeft, LateAfterOver
<1>5. CASE Notices
  <2>1. /\ at = "polling" /\ round < MaxRounds
        /\ late' = late /\ driver' = driver /\ replies' = replies
    BY <1>5 DEF Notices, Polls, service
  <2>2. LateAfterOver'
    BY <2>1 DEF Consistent, LateAfterOver
  <2>3. at' = "polling" \/ (at' = "asking" /\ round' = round)
    BY <1>5 DEF Notices, NextRound, Within, Goto
  <2>4. driver = "harness" /\ at' = "asking" => ~Muted
    BY <1>5 DEF Notices, Goto
  <2>5. RoundOpen'
    BY <2>1, <2>3 DEF RoundOpen
  <2>6. replies \in Nat
    BY SimulationConstantsOK DEF Consistent, TypeOK
  <2>7. ReplyLeft'
    BY <2>1, <2>3, <2>4, <2>6, SimulationConstantsOK DEF Muted, ReplyLeft
  <2>8. QED BY <2>2, <2>5, <2>7
<1>6. CASE Reminds \/ Nudges
  BY <1>6 DEF Reminds, Nudges, NextRound, Goto, counters, Consistent, RoundOpen,
              ReplyLeft, LateAfterOver
<1>7. ASSUME NEW reply \in PersonaReplies, Answers(reply)
      PROVE  RoundOpen' /\ ReplyLeft' /\ LateAfterOver'
  <2>1. round < MaxRounds /\ at = "asking" /\ UNCHANGED <<late, driver>>
    BY <1>7 DEF Answers, service, Consistent, RoundOpen
  <2>2. RoundOpen' /\ ReplyLeft'
    BY <1>7, <2>1 DEF Answers, NextRound, Within, Goto, RoundOpen, ReplyLeft
  <2>3. LateAfterOver'
    BY <2>1 DEF Consistent, LateAfterOver
  <2>4. QED BY <2>2, <2>3
<1>8. CASE ReplyServed \/ CaptureServed
  BY <1>8 DEF ReplyServed, CaptureServed, NextRound, Within, Goto, counters,
              Consistent, RoundOpen, ReplyLeft, LateAfterOver
<1>9. CASE PostAgain
  BY <1>9 DEF PostAgain, Consistent, RoundOpen, ReplyLeft, LateAfterOver
<1>10. CASE Raises
  <2>1. UNCHANGED driver /\ at \notin {"starting", "over"}
    BY <1>10 DEF Raises
  <2>2. CASE driver = "sandbox"
    BY <1>10, <2>1, <2>2 DEF Raises, Over, Goto, RoundOpen, ReplyLeft, LateAfterOver
  <2>3. CASE driver # "sandbox"
    BY <1>10, <2>1, <2>3 DEF Raises, NextRound, Goto, RoundOpen, ReplyLeft, LateAfterOver
  <2>4. QED BY <2>2, <2>3
<1>11. CASE Refreshes
  BY <1>11 DEF Refreshes, Over, NextRound, Goto, counters, service, Consistent,
               RoundOpen, ReplyLeft, LateAfterOver
<1>12. QED BY <1>1, <1>2, <1>3, <1>4, <1>5, <1>6, <1>7, <1>8, <1>9, <1>10, <1>11
           DEF Next, Driver, Background

\* A case that does not exist yet is only made by Starts.
LEMMA StepAbsent ==
    ASSUME Consistent, Next
    PROVE  AbsentUntouched'
<1> USE DEF counters, service
<1>1. ASSUME at # "starting", status # "absent" PROVE AbsentUntouched'
  <2>1. at' # "starting"
    BY <1>1 DEF Next, Driver, Background, PipelineRedirects, PipelineEnds, LateService,
         Starts, StartFails, NoCase, Sweeps, PendingReminder, Concludes, Notices, Quiet,
         Reminds, Nudges, Answers, ReplyServed, CaptureServed, PostAgain, Raises,
         Refreshes, Over, NextRound, Within, Goto, Consistent, TypeOK, Steps
  <2>2. status' # "absent"
    BY <1>1, Elsewhere, ServedRows DEF Consistent, PipelineRedirects, PipelineEnds,
         Starts, RowsKept, Conversation, Stays, Moves, Closes, Terminal
  <2>3. QED BY <2>1, <2>2 DEF AbsentUntouched
<1>2. CASE status = "absent"
  <2>1. /\ outcome = "none" /\ pipeline = "none" /\ late = {}
        /\ at \in {"starting", "polling", "over"}
    BY <1>2 DEF Consistent, AbsentUntouched
  <2>2. Starts \/ StartFails \/ NoCase \/ Sweeps \/ Raises
    BY <1>2, <2>1 DEF Next, Driver, Background, PipelineRedirects, PipelineEnds,
         LateService, PendingReminder, Concludes, Notices, Quiet, Reminds, Nudges, Answers, ReplyServed,
         CaptureServed, PostAgain, Posts, Refreshes, Terminal
  <2>3. QED BY <1>2, <2>1, <2>2 DEF Starts, StartFails, NoCase, Sweeps, Raises, Posts,
         Over, NextRound, Within, Goto, AbsentUntouched
<1>3. QED BY <1>1, <1>2 DEF Consistent, AbsentUntouched

\* The sandbox is posting or refreshing, or over, when the conversation has closed
\* the case; refreshing, it sees it, unless the status has been overwritten, and then
\* it stays so.
LEMMA StepClosing ==
    ASSUME Consistent, Next
    PROVE  OverAfterClosing'
<1> SUFFICES ASSUME driver' = "sandbox", closer' = "conversation"
             PROVE  at' \in {"paying", "refreshing", "over"} \/ Overwritten'
  BY DEF OverAfterClosing
<1>1. driver = "sandbox"
  BY DEF Next, Driver, Background, PipelineRedirects, PipelineEnds, LateService, Starts,
         StartFails, NoCase, Sweeps, PendingReminder, Concludes, Notices, Quiet, Reminds,
         Nudges, Answers, ReplyServed, CaptureServed, PostAgain, Raises, Refreshes
<1>2. CASE LateService
  BY <1>1, <1>2 DEF LateService, Consistent, LateAfterOver
<1>3. CASE ReplyServed \/ CaptureServed
  BY <1>1, <1>3 DEF ReplyServed, CaptureServed, Within, Goto
<1>4. CASE closer = "conversation" /\ Overwritten
  <2>1. outcome # "none"
    BY <1>4 DEF Consistent, ConversationCloses, Terminal
  <2>2. QED BY <1>4, <2>1, StepRows DEF Consistent
<1>5. CASE closer = "conversation" /\ ~Overwritten
  <2>1. status \in Terminal /\ at \in {"paying", "refreshing", "over"}
    BY <1>1, <1>5 DEF Consistent, OverAfterClosing, ConversationCloses
  <2>2. CASE Raises \/ Refreshes \/ PostAgain
    BY <1>1, <2>1, <2>2 DEF Raises, Refreshes, PostAgain, Over, Goto
  <2>3. CASE PipelineRedirects \/ PipelineEnds
    BY <2>1, <2>3 DEF PipelineRedirects, PipelineEnds
  <2>4. CASE ~(Raises \/ Refreshes \/ PostAgain \/ PipelineRedirects \/ PipelineEnds)
    BY <1>2, <1>3, <2>1, <2>4 DEF Next, Driver, Background, Starts, StartFails, NoCase,
       Sweeps, PendingReminder, Concludes, Notices, Quiet, Polls, Reminds, Nudges,
       Answers
  <2>5. QED BY <2>2, <2>3, <2>4
<1>6. CASE closer # "conversation"
  <2>1. ~PipelineRedirects /\ ~PipelineEnds /\ ~Starts /\ ~RowsKept
    BY <1>6 DEF PipelineRedirects, PipelineEnds, Starts, RowsKept, Stays, Moves, Closes
  <2>2. QED BY <1>2, <1>3, <2>1, Elsewhere DEF Served
<1>7. QED BY <1>4, <1>5, <1>6

\* The harness writes its verdict from the row it has just read.
LEMMA StepReport ==
    ASSUME Consistent, Next
    PROVE  ReportBacked'
<1>1. CASE Sweeps \/ Concludes
  <2>1. /\ \/ verdict' \in {verdict, "timeout"}
           \/ verdict' = status /\ status \in Terminal
        /\ UNCHANGED outcome
    BY <1>1 DEF Sweeps, Concludes, service
  <2>2. QED BY <2>1 DEF Consistent, ReportBacked, StatusBacked, Final
<1>2. CASE ~(Sweeps \/ Concludes)
  <2>1. UNCHANGED verdict
    BY <1>2 DEF Next, Driver, Background, PipelineRedirects, PipelineEnds, LateService,
       Starts, StartFails, NoCase, PendingReminder, Notices, Quiet, Reminds, Nudges, Answers, ReplyServed,
       CaptureServed, PostAgain, Raises, Refreshes
  <2>2. outcome # "none" => outcome' = outcome
    BY StepRows DEF Consistent
  <2>3. verdict \notin {"active", "timeout"} => outcome = verdict /\ outcome # "none"
    BY DEF Consistent, ReportBacked, TypeOK, Terminal
  <2>4. QED BY <2>1, <2>2, <2>3 DEF ReportBacked
<1>3. QED BY <1>1, <1>2

-----------------------------------------------------------------------------
LEMMA InitConsistent == Init => Consistent
<1> SUFFICES ASSUME Init PROVE Consistent
  OBVIOUS
<1>1. /\ replied \in BOOLEAN /\ unseen \in BOOLEAN /\ ack \in BOOLEAN
      /\ pending \in BOOLEAN /\ pay \in BOOLEAN
      /\ done \in BOOLEAN
  BY Zenon DEF Init
<1>2. /\ contacts \in 0..MaxRetries /\ round \in 0..MaxRounds
      /\ stalled \in 0..(StalledRounds - 1) /\ post \in 1..MaxPosts
      /\ replies \in 0..MaxReplies
  BY SimulationConstantsOK DEF Init
<1>3. TypeOK
  BY <1>1, <1>2 DEF Init, TypeOK, Statuses, Steps, PipelineStates
<1>4. QED BY <1>3 DEF Init, Consistent, RoundOpen, ReplyLeft, StatusBacked,
                      AbsentUntouched, ConversationCloses, OverAfterClosing,
                      LateAfterOver, ReportBacked, Final, Terminal

LEMMA StepConsistent == Consistent /\ [Next]_vars => Consistent'
<1> SUFFICES ASSUME Consistent, [Next]_vars PROVE Consistent'
  OBVIOUS
<1>1. CASE Next
  <2>1. TypeOK'
    BY <1>1, StepType DEF Consistent
  <2>2. StatusBacked' /\ ConversationCloses'
    BY <1>1, StepRows DEF Consistent
  <2>3. QED BY <1>1, <2>1, <2>2, StepPlace, StepAbsent, StepClosing, StepReport
            DEF Consistent
<1>2. CASE UNCHANGED vars
  <2>1. TypeOK'
    BY <1>2 DEF vars, service, messages, counters, Consistent, TypeOK
  <2>2. QED BY <1>2, <2>1 DEF vars, service, messages, counters, Consistent, RoundOpen,
       ReplyLeft, StatusBacked, AbsentUntouched, ConversationCloses, OverAfterClosing,
       LateAfterOver, ReportBacked, Overwritten
<1>3. QED BY <1>1, <1>2

\* The inductive invariant: the rows agree with each other, the driver is where
\* they let it be, and its report is theirs.
THEOREM SimulationConsistent == Spec => []Consistent
  BY InitConsistent, StepConsistent, PTL DEF Spec

\* Rounds, replies, attempts and the rows of the case keep their ranges: neither
\* loop runs past its last round, the harness never past its last reply.
THEOREM TypeCorrect == Spec => []TypeOK
  BY SimulationConsistent, PTL DEF Consistent

\* The rule run_sandbox_simulation re-reads the row for: once a reply, a broken
\* promise or a payment of the conversation has closed the case, the sandbox takes
\* no persona turn and sends no reminder, for any number of rounds, unless the
\* pipeline has written payment_method_required over the closing status.  It can:
\* then no status in the row tells the sandbox that the case was closed.
THEOREM NoTurnAfterClosing == Spec => []NoTurnTooMany
<1>1. Consistent => NoTurnTooMany
  BY DEF Consistent, ConversationCloses, OverAfterClosing, Overwritten, NoTurnTooMany,
         Final
<1>2. QED BY <1>1, SimulationConsistent, PTL

\* A final state the harness reports is the Outcome row's, although the row is read
\* rounds before the report and answers may be served in between.
THEOREM ReportsAreBacked == Spec => []ReportBacked
  BY SimulationConsistent, PTL DEF Consistent

-----------------------------------------------------------------------------
\* The drivers' view of the service implements the ledger.

Rows(s) == [c \in {"case"} |-> s]

LEMMA RowsWritten ==
    ASSUME NEW s, NEW t
    PROVE  Rows(t) = [Rows(s) EXCEPT !["case"] = t]
  BY Zenon DEF Rows

LEMMA RowRead ==
    ASSUME NEW s
    PROVE  Rows(s)["case"] = s
  BY Zenon DEF Rows

LEMMA OpenIsLedger ==
    ASSUME status = "absent", status' = "open", UNCHANGED outcome
    PROVE  Ledger!LedgerNext
<1>1. Rows(status)["case"] = "absent"
  BY RowRead, Zenon
<1>2. Rows(status)' = [Rows(status) EXCEPT !["case"] = "open"]
  BY RowsWritten, Zenon
<1>3. Rows(outcome)' = Rows(outcome)
  BY Zenon DEF Rows
<1>4. Ledger!Open("case")
  BY <1>1, <1>2, <1>3, Zenon DEF Ledger!Open, Rows
<1>5. QED BY <1>4, Zenon DEF Ledger!LedgerNext

LEMMA CloseIsLedger ==
    ASSUME status # "absent", NEW f \in Final, NEW by, Closes(f, by)
    PROVE  Ledger!LedgerNext
<1>1. f \in Ledger!Closed
  BY DEF Ledger!Closed, Final, Terminal
<1>2. Rows(status)["case"] # "absent" /\ Rows(outcome)["case"] = "none"
  BY RowRead, Zenon DEF Closes
<1>3. Rows(status)' = [Rows(status) EXCEPT !["case"] = f]
  BY RowsWritten, Zenon DEF Closes
<1>4. Rows(outcome)' = [Rows(outcome) EXCEPT !["case"] = f]
  BY RowsWritten, Zenon DEF Closes
<1>5. Ledger!Close("case", f)
  BY <1>2, <1>3, <1>4, Zenon DEF Ledger!Close, Rows
<1>6. QED BY <1>1, <1>5, Zenon DEF Ledger!LedgerNext

LEMMA MoveIsLedger ==
    ASSUME status # "absent", NEW s \in {"promise_pending", "payment_method_required"},
           Moves(s)
    PROVE  Ledger!LedgerNext
<1>1. s \in Ledger!Working \ {"open"}
  BY DEF Ledger!Working
<1>2. Rows(status)["case"] # "absent"
  BY RowRead, Zenon
<1>3. Rows(status)' = [Rows(status) EXCEPT !["case"] = s]
  BY RowsWritten, Zenon DEF Moves
<1>4. Rows(outcome)' = Rows(outcome)
  BY Zenon DEF Moves, Rows
<1>5. Ledger!Drift("case", s)
  BY <1>2, <1>3, <1>4, Zenon DEF Ledger!Drift, Rows
<1>6. QED BY <1>1, <1>5, Zenon DEF Ledger!LedgerNext

LEMMA StepIsLedger ==
    ASSUME Consistent, [Next]_vars
    PROVE  [Ledger!LedgerNext]_(Ledger!ledgerVars)
<1>1. CASE status' = status /\ outcome' = outcome
  BY <1>1, Zenon DEF Ledger!ledgerVars
<1>2. CASE PipelineRedirects \/ PipelineEnds
  <2>1. status # "absent"
    BY <1>2 DEF PipelineRedirects, PipelineEnds, Consistent, AbsentUntouched
  <2>2. CASE PipelineRedirects
    BY <2>1, <2>2, MoveIsLedger DEF PipelineRedirects
  <2>3. ASSUME NEW f \in {"disputed", "timeout"}, Closes(f, "pipeline")
        PROVE  Ledger!LedgerNext
    BY <2>1, <2>3, CloseIsLedger DEF Final, Terminal
  <2>4. QED BY <1>1, <1>2, <2>2, <2>3 DEF PipelineEnds, Stays
<1>3. CASE Served
  <2>1. status # "absent"
    BY <1>3 DEF Served, LateService, ReplyServed, CaptureServed, Consistent,
                AbsentUntouched
  <2>2. ASSUME NEW f \in Terminal, Closes(f, "conversation")
        PROVE  Ledger!LedgerNext
    BY <2>1, <2>2, CloseIsLedger DEF Final
  <2>3. ASSUME NEW s \in {"promise_pending", "payment_method_required"}, Moves(s)
        PROVE  Ledger!LedgerNext
    BY <2>1, <2>3, MoveIsLedger
  <2>4. Conversation
    BY <1>3, ServedRows DEF Consistent
  <2>5. QED BY <1>1, <2>2, <2>3, <2>4 DEF Conversation, Stays, Moves
<1>4. CASE Starts
  BY <1>1, <1>4, OpenIsLedger DEF Starts, Consistent, AbsentUntouched
<1>5. CASE RowsKept \/ UNCHANGED vars
  BY <1>1, <1>5 DEF RowsKept, vars, service
<1>6. QED BY <1>2, <1>3, <1>4, <1>5, Elsewhere

\* The Outcome row the drivers and the reports rely on is the ledger's: the service
\* as either driver sees it opens the case once, closes it once, with the status
\* and the row in one commit, and never changes the row.
THEOREM SimulationImplementsLedger == Spec => ServiceIsLedger
<1>1. Init => Ledger!LedgerInit
  BY Zenon DEF Init, Ledger!LedgerInit
<1>2. Consistent /\ [Next]_vars => [Ledger!LedgerNext]_(Ledger!ledgerVars)
  BY StepIsLedger
<1>3. QED BY <1>1, <1>2, SimulationConsistent, PTL
          DEF Spec, ServiceIsLedger, Ledger!LedgerSpec

-----------------------------------------------------------------------------
\* The driver advances.

LEMMA StepAdvances ==
    ASSUME Consistent, Driver
    PROVE  Advances
<1> USE SimulationConstantsOK DEF Goto, StepRank
<1>0. round \in Nat /\ post \in Nat /\ at \in Steps /\ RoundOpen /\ round <= MaxRounds
  BY DEF Consistent, TypeOK
<1>1. CASE NextRound
  BY <1>0, <1>1 DEF NextRound, Advances
<1>2. CASE Over /\ round' = round /\ at # "over"
  BY <1>0, <1>2 DEF Over, Advances, Steps
<1>3. CASE Starts
  BY <1>3 DEF Starts, Within, Advances
<1>4. CASE StartFails \/ Sweeps \/ Concludes \/ Raises \/ Refreshes
  BY <1>1, <1>2, <1>4 DEF StartFails, Sweeps, Concludes, Raises, Refreshes, Polls
<1>5. CASE NoCase \/ Reminds \/ Nudges
  BY <1>1, <1>5 DEF NoCase, Reminds, Nudges
<1>6. CASE PendingReminder
  BY <1>1, <1>6 DEF PendingReminder, Polls, Within, Advances
<1>7. CASE Notices
  BY <1>0, <1>1, <1>7 DEF Notices, Polls, Within, Advances
<1>8. CASE Quiet
  BY <1>1, <1>8 DEF Quiet, Polls, Within, Advances
<1>9. ASSUME NEW reply \in PersonaReplies, Answers(reply) PROVE Advances
  BY <1>1, <1>9 DEF Answers, Within, Advances
<1>10. CASE ReplyServed \/ CaptureServed
  BY <1>1, <1>10 DEF ReplyServed, CaptureServed, Within, Advances
<1>11. CASE PostAgain
  BY <1>0, <1>11 DEF PostAgain, Advances
<1>12. QED
  BY <1>3, <1>4, <1>5, <1>6, <1>7, <1>8, <1>9, <1>10, <1>11 DEF Driver

\* Every step of a driver takes it forward, through bounded counters, and nothing
\* the service does takes it back: what is left of RunsEnd is that its coroutine is
\* not forgotten.
THEOREM DriverNeverGoesBack == Spec => DriverAdvances
<1>1. Consistent /\ [Next]_vars =>
        [Advances \/ (Background /\ UNCHANGED <<round, at, post>>)]_vars
  <2>1. Background => UNCHANGED <<round, at, post>>
    BY DEF Background, PipelineRedirects, PipelineEnds, LateService, counters
  <2>2. QED BY <2>1, StepAdvances DEF Next
<1>2. QED BY <1>1, SimulationConsistent, PTL DEF Spec, DriverAdvances

=============================================================================
