----------------------------- MODULE BatchProofs -----------------------------
(***************************************************************************)
(* The safety properties of Batch, for any number of cases, rounds and     *)
(* attempts, and its refinement of the ledger's lifecycle.                 *)
(***************************************************************************)
EXTENDS Batch, FiniteSetTheorems, TLAPS

-----------------------------------------------------------------------------
\* The inductive invariant.

Waiting == {"open", "promise_pending", "payment_method_required"}
Final == {"recovered", "disputed", "stopped", "escalated", "human_escalated",
          "retained_paused"}

\* A row waits and has no Outcome, or is closed with the Outcome of its status.
RowFits(r) ==
    \/ r.status \in Waiting /\ r.outcome = "none"
    \/ r.status \in Final /\ r.outcome = r.status

Fresh == [Absent EXCEPT !.status = "open"]

CaseSteps == {"diagnosing", "round", "contacting", "replying", "classifying",
              "paying", "settling"}

\* While a case is in progress, its session and the committed row differ at most
\* by the record of the first contact (and the tier of the diagnosis).
CaseOpen ==
    at \in CaseSteps =>
        /\ current \in Cases
        /\ RowFits(mem)
        /\ db[current].status = mem.status
        /\ db[current].outcome = mem.outcome
        /\ mem.contacts = sent[current]
        /\ \/ db[current].contacts = mem.contacts
           \/ db[current].contacts = 0 /\ mem.contacts = 1

\* Messages are counted by rounds, and what may still close the case is open.
Unanswered == mem.contacts = round + 1 /\ mem.outcome = "none"

StepFits ==
    /\ at = "diagnosing" => mem = Fresh /\ db[current] = Fresh /\ round = 0
    /\ at \in CaseSteps \ {"diagnosing"} => mem.tier \in 1..2
    /\ at = "round" =>
         mem.contacts = round /\ (mem.outcome = "none" \/ mem.status = "escalated")
    /\ at = "contacting" =>
         mem.contacts = round /\ mem.outcome = "none" /\ round < Rounds
    /\ at \in {"replying", "classifying"} => Unanswered /\ round < Rounds
    /\ at = "classifying" => round = 0 /\ replied /\ script.reply
    /\ at = "paying" => round < Rounds /\ (IF replied THEN script.reply ELSE Unanswered)

\* Nothing is done about a case before its turn.
AheadUntouched == \A c \in Cases : c > current => db[c] = Absent /\ sent[c] = 0

\* What the outcome table counts: the cases the batch is done with.
ClosedAs(b) == {c \in DoneCases : db[c].outcome = b}

Counted == {"recovered", "escalated", "disputed", "stopped"}

TallyKept ==
    at # "crashed" =>
        /\ \A b \in Counted : tally[b] = Cardinality(ClosedAs(b))
        /\ tally["promise_pending"] = 0
        /\ tally["recovered"] + tally["payment_method_required"] + tally["escalated"]
           + tally["disputed"] + tally["stopped"] + tally["open"]
           = IF at \in {"next", "done"} THEN current ELSE current - 1

Consistent ==
    /\ TypeOK
    /\ CaseOpen
    /\ StepFits
    /\ AheadUntouched
    /\ CasesSettle
    /\ MessagesRecorded
    /\ TallyKept

-----------------------------------------------------------------------------
\* Types.

LEMMA AskingType ==
    ASSUME NEW kind \in Kinds, NEW tier \in 1..2
    PROVE  Asking(kind, tier) \in Question
  BY AttemptsOK DEF Asking, Question

LEMMA NoQuestionType == NoQuestion \in Question
<1>1. Asking("diagnosis", 1) \in Question
  BY AskingType DEF Kinds
<1>2. QED BY <1>1 DEF NoQuestion, Question

LEMMA TryAgainType ==
    ASSUME ask \in Question, NEW read \in BOOLEAN, TryAgain(read)
    PROVE  ask' \in Question
<1>1. CASE ask.parse < MaxParses
  <2> DEFINE n == ask.parse + 1
  <2>1. n \in 1..MaxParses /\ 1 \in 1..MaxTries
    BY <1>1, AttemptsOK DEF Question
  <2>2. ask' = [ask EXCEPT !.parse = n, !.try = 1, !.read = read]
    BY <1>1 DEF TryAgain
  <2> HIDE DEF n
  <2>3. QED BY <2>1, <2>2 DEF Question
<1>2. CASE ~(ask.parse < MaxParses)
  BY <1>2 DEF TryAgain, Question
<1>3. QED BY <1>1, <1>2

LEMMA AskNextType == AskTypeOK /\ AskNext => AskTypeOK'
<1> SUFFICES ASSUME ask \in Question, AskNext PROVE ask' \in Question
  BY DEF AskTypeOK
<1> USE AttemptsOK DEF Question
<1>1. CASE Transient
  BY <1>1 DEF Transient
<1>2. CASE Exhausted \/ Refused
  BY <1>2 DEF Exhausted, Refused, Raises, Errors
<1>3. CASE Unparsable
  BY <1>3, TryAgainType DEF Unparsable
<1>4. CASE Truncated
  <2>1. CASE Raises("truncated")
    BY <2>1 DEF Raises, Errors
  <2>2. CASE TryAgain(ask.read)
    BY <2>2, TryAgainType
  <2>3. QED BY <1>4, <2>1, <2>2 DEF Truncated
<1>5. ASSUME NEW a \in Confidences \cup ReplyStates, Answered(a)
      PROVE  ask' \in Question
  BY <1>5 DEF Answered
<1>6. CASE Escalates
  BY <1>6, AskingType DEF Escalates, Kinds
<1>7. CASE Unfit
  BY <1>7 DEF Unfit, Raises, Errors
<1>8. QED BY <1>1, <1>2, <1>3, <1>4, <1>5, <1>6, <1>7 DEF AskNext

LEMMA AbsentType == Absent \in Row
  BY DEF Absent, Row, CaseStatuses

LEMMA ClosingType ==
    ASSUME NEW r \in Row, NEW f \in CaseStatuses
    PROVE  Closing(r, f) \in Row
  BY DEF Closing, Row

LEMMA MovedType ==
    ASSUME NEW r \in Row, NEW s \in CaseStatuses
    PROVE  [r EXCEPT !.status = s] \in Row
  BY DEF Row

LEMMA ContactedType == ASSUME NEW r \in Row PROVE Contacted(r) \in Row
  BY DEF Contacted, Row

LEMMA SettledType == ASSUME NEW r \in Row PROVE Settled(r) \in Row
  BY ClosingType DEF Settled, CaseStatuses

LEMMA RowWritten ==
    ASSUME TypeOK, NEW r \in Row, Commit(r) \/ Flush(r)
    PROVE  mem' \in Row /\ db' \in [Cases -> Row]
<1>1. CASE Commit(r)
  BY <1>1 DEF Commit, TypeOK
<1>2. CASE Flush(r)
  BY <1>2 DEF Flush, TypeOK
<1>3. QED BY <1>1, <1>2

LEMMA SendsType == TypeOK /\ Sends => sent' \in [Cases -> Nat]
<1> SUFFICES ASSUME TypeOK, Sends, NEW c \in Cases PROVE sent'[c] \in Nat
  BY DEF TypeOK, Sends
<1>1. QED BY DEF TypeOK, Sends

LEMMA CountType ==
    ASSUME TypeOK, NEW s, Count(s)
    PROVE  tally' \in [Buckets -> Nat]
<1>1. Bucket(s) \in Buckets
  BY DEF Bucket, Buckets
<1>2. QED BY <1>1 DEF TypeOK, Count

LEMMA DiesType == Dies => mem' \in Row /\ at' \in Steps
  BY AbsentType DEF Dies, Goto, Steps

LEMMA ReplyTargetType ==
    ASSUME TypeOK, NEW s
    PROVE  ReplyTarget(s) \in CaseStatuses
<1>1. mem.status \in CaseStatuses
  BY DEF TypeOK, Row
<1>2. QED BY <1>1 DEF ReplyTarget, CaseStatuses

LEMMA CurrentIsCase ==
    ASSUME Consistent, at \in CaseSteps
    PROVE  /\ current \in Cases /\ current \in Nat /\ current - 1 \in Nat
           /\ mem \in Row /\ db[current] \in Row
<1>1. current \in Cases
  BY DEF Consistent, CaseOpen
<1>2. QED BY <1>1, BatchConstantsOK DEF Cases, Consistent, TypeOK

\* Steps that touch neither the rows nor the counters.
LEMMA QuietType ==
    ASSUME TypeOK, UNCHANGED <<db, mem, current, script, causes, sent, tally, schema>>,
           at' \in Steps, round' \in 0..Rounds, replied' \in BOOLEAN, ask' \in Question
    PROVE  TypeOK'
  BY DEF TypeOK, AskTypeOK

LEMMA StepType ==
    ASSUME Consistent, [Next]_vars
    PROVE  TypeOK'
<1> USE BatchConstantsOK
<1>0. TypeOK /\ mem \in Row /\ ask \in Question /\ 0 \in 0..Rounds
  BY DEF Consistent, TypeOK, AskTypeOK
<1>1. CASE Ingests
  <2>1. current' = current + 1 /\ current + 1 \in Cases /\ current' \in 0..NumCases
    BY <1>0, <1>1 DEF Ingests, TypeOK, Cases
  <2>2. mem' = Fresh /\ Fresh \in Row /\ db' = [db EXCEPT ![current + 1] = mem']
    BY <1>1, AbsentType, MovedType DEF Ingests, Fresh, CaseStatuses
  <2>3. db' \in [Cases -> Row]
    BY <1>0, <2>1, <2>2 DEF TypeOK
  <2>4. ask' \in Question
    BY <1>1, AskingType DEF Ingests, Kinds
  <2>5. at' \in Steps /\ script' \in Scripts /\ round' \in 0..Rounds
        /\ causes' \in SUBSET Causes /\ replied' \in BOOLEAN
    BY <1>0, <1>1 DEF Ingests, Goto, Steps
  <2>6. QED BY <1>0, <1>1, <2>1, <2>2, <2>3, <2>4, <2>5 DEF Ingests, TypeOK, AskTypeOK
<1>2. CASE Finishes
  BY <1>0, <1>2, QuietType DEF Finishes, Goto, Steps, TypeOK
<1>3. CASE Waits
  BY <1>0, <1>3, QuietType, AskNextType DEF Waits, TypeOK, AskTypeOK
<1>4. ASSUME NEW cs \in SUBSET Causes, Diagnosed(cs) PROVE TypeOK'
  <2>1. [mem EXCEPT !.tier = ask.tier] \in Row
    BY <1>0 DEF Row, Question
  <2>2. mem' \in Row /\ db' \in [Cases -> Row]
    BY <1>0, <1>4, <2>1, RowWritten DEF Diagnosed
  <2>3. QED BY <1>0, <1>4, <2>2, NoQuestionType DEF Diagnosed, Goto, Steps, TypeOK, AskTypeOK
<1>5. CASE DiagnosisFails
  <2>1. mem' \in Row /\ db' \in [Cases -> Row]
    BY <1>0, <1>5, RowWritten DEF DiagnosisFails
  <2>2. tally' \in [Buckets -> Nat]
    BY <1>0, <1>5, CountType DEF DiagnosisFails
  <2>3. QED BY <1>0, <1>5, <2>1, <2>2, NoQuestionType
               DEF DiagnosisFails, Goto, Steps, TypeOK, AskTypeOK
<1>6. CASE QuestionRaises \/ Killed
  BY <1>0, <1>6, DiesType DEF QuestionRaises, Killed, TypeOK, AskTypeOK
<1>7. CASE RoundEnds
  BY <1>0, <1>7, QuietType DEF RoundEnds, Goto, Steps, TypeOK
<1>8. CASE RulesPass
  <2> DEFINE new == IF "needs_info" \in causes THEN "payment_method_required"
                                               ELSE mem.status
             row == [mem EXCEPT !.status = new]
  <2>1. new \in CaseStatuses
    BY <1>0 DEF Row, CaseStatuses
  <2>2. row \in Row
    BY <1>0, <2>1, MovedType
  <2>3. Commit(row) \/ Flush(row)
    BY <1>8 DEF RulesPass
  <2>4. mem' \in Row /\ db' \in [Cases -> Row]
    BY <1>0, <2>2, <2>3, RowWritten
  <2>5. QED BY <1>0, <1>8, <2>4 DEF RulesPass, Goto, Steps, TypeOK, AskTypeOK
<1>9. CASE RuleBlocks
  <2>1. mem' \in Row /\ db' \in [Cases -> Row]
    BY <1>0, <1>9, RowWritten, ClosingType DEF RuleBlocks, CaseStatuses
  <2>2. QED BY <1>0, <1>9, <2>1 DEF RuleBlocks, Goto, Steps, TypeOK, AskTypeOK
<1>10. CASE Contacts
  <2>1. mem' \in Row /\ db' \in [Cases -> Row]
    BY <1>0, <1>10, RowWritten, ContactedType DEF Contacts
  <2>2. sent' \in [Cases -> Nat]
    BY <1>0, <1>10, SendsType DEF Contacts
  <2>3. QED BY <1>0, <1>10, <2>1, <2>2 DEF Contacts, Goto, Steps, TypeOK, AskTypeOK
<1>11. CASE Replies
  <2>1. ask' \in Question
    BY <1>11, AskingType DEF Replies, Kinds
  <2>2. QED BY <1>0, <1>11, <2>1, QuietType DEF Replies, Goto, Steps, TypeOK
<1>12. CASE NoReply
  BY <1>0, <1>12, QuietType DEF NoReply, Goto, Steps, TypeOK
<1>13. ASSUME NEW s \in ReplyStates, Acknowledged(s) PROVE TypeOK'
  <2> DEFINE new == ReplyTarget(s)
             row == IF new \in Handed THEN Closing(mem, new)
                                      ELSE [mem EXCEPT !.status = new]
  <2>1. new \in CaseStatuses
    BY <1>0, ReplyTargetType
  <2>2. row \in Row
    BY <1>0, <2>1, ClosingType, MovedType
  <2>3. (Dies /\ UNCHANGED db) \/ (Commit(Contacted(row)) /\ at' = "paying")
    BY <1>13 DEF Acknowledged, Goto
  <2>4. mem' \in Row /\ db' \in [Cases -> Row] /\ at' \in Steps
    BY <1>0, <2>2, <2>3, DiesType, ContactedType, RowWritten DEF Steps, TypeOK
  <2>5. sent' \in [Cases -> Nat]
    BY <1>0, <1>13, SendsType DEF Acknowledged
  <2>6. QED BY <1>0, <1>13, <2>4, <2>5, NoQuestionType DEF Acknowledged, TypeOK, AskTypeOK
<1>14. ASSUME NEW s, ClassificationRefused(s) PROVE TypeOK'
  BY <1>0, <1>14, DiesType DEF ClassificationRefused, TypeOK, AskTypeOK
<1>15. CASE Recovers
  <2>1. mem' \in Row /\ db' \in [Cases -> Row]
    BY <1>0, <1>15, RowWritten, ClosingType DEF Recovers, CaseStatuses
  <2>2. QED BY <1>0, <1>15, <2>1 DEF Recovers, Goto, Steps, TypeOK, AskTypeOK
<1>16. CASE Exhausts
  <2>1. mem' \in Row /\ db' \in [Cases -> Row]
    BY <1>0, <1>16, RowWritten, ClosingType DEF Exhausts, CaseStatuses
  <2>2. round' \in 0..Rounds
    BY <1>0, <1>16 DEF Exhausts, TypeOK
  <2>3. QED BY <1>0, <1>16, <2>1, <2>2 DEF Exhausts, Goto, Steps, TypeOK, AskTypeOK
<1>17. CASE NextRound
  <2>1. round' \in 0..Rounds
    BY <1>0, <1>17 DEF NextRound, TypeOK
  <2>2. QED BY <1>0, <1>17, <2>1, QuietType DEF NextRound, Goto, Steps, TypeOK
<1>18. CASE ReplyEndsRounds
  BY <1>0, <1>18, QuietType DEF ReplyEndsRounds, Goto, Steps, TypeOK
<1>19. CASE Settles
  <2>1. mem' \in Row /\ db' \in [Cases -> Row]
    BY <1>0, <1>19, RowWritten, SettledType DEF Settles
  <2>2. tally' \in [Buckets -> Nat]
    BY <1>0, <1>19, CountType DEF Settles
  <2>3. QED BY <1>0, <1>19, <2>1, <2>2 DEF Settles, Goto, Steps, TypeOK, AskTypeOK
<1>20. CASE UNCHANGED vars
  BY <1>0, <1>20 DEF vars, TypeOK, AskTypeOK
<1>21. QED
  BY <1>1, <1>2, <1>3, <1>4, <1>5, <1>6, <1>7, <1>8, <1>9, <1>10, <1>11, <1>12, <1>13,
     <1>14, <1>15, <1>16, <1>17, <1>18, <1>19, <1>20
  DEF Next, Work

-----------------------------------------------------------------------------
\* The case in progress.

LEMMA Committed ==
    ASSUME TypeOK, current \in Cases, NEW r \in Row, Commit(r)
    PROVE  /\ mem' = r /\ db'[current] = r
           /\ \A c \in Cases \ {current} : db'[c] = db[c]
  BY DEF Commit, TypeOK

LEMMA SendsOne ==
    ASSUME TypeOK, current \in Cases, Sends
    PROVE  /\ sent'[current] = sent[current] + 1
           /\ \A c \in Cases \ {current} : sent'[c] = sent[c]
  BY DEF Sends, TypeOK

LEMMA ClosingRow ==
    ASSUME NEW r \in Row, NEW f \in Final
    PROVE  /\ Closing(r, f) \in Row /\ RowFits(Closing(r, f))
           /\ Closing(r, f).status = f /\ Closing(r, f).outcome = f
           /\ Closing(r, f).contacts = r.contacts /\ Closing(r, f).tier = r.tier
  BY DEF Closing, Row, RowFits, Final, CaseStatuses

LEMMA MovedRow ==
    ASSUME NEW r \in Row, NEW s \in Waiting, r.outcome = "none"
    PROVE  LET q == [r EXCEPT !.status = s]
           IN  /\ q \in Row /\ RowFits(q) /\ q.status = s /\ q.outcome = "none"
               /\ q.contacts = r.contacts /\ q.tier = r.tier
  BY DEF Row, RowFits, Waiting, CaseStatuses

LEMMA ContactedRow ==
    ASSUME NEW r \in Row
    PROVE  /\ Contacted(r) \in Row /\ (RowFits(r) => RowFits(Contacted(r)))
           /\ Contacted(r).status = r.status /\ Contacted(r).outcome = r.outcome
           /\ Contacted(r).contacts = r.contacts + 1 /\ Contacted(r).tier = r.tier
  BY DEF Contacted, Row, RowFits

LEMMA ReplyTargetFits ==
    ASSUME mem.status \in Waiting, NEW s, ReplyTarget(s) \notin Handed
    PROVE  ReplyTarget(s) \in Waiting
  BY DEF ReplyTarget, Handed, Waiting

LEMMA SettledRow ==
    ASSUME NEW r \in Row, RowFits(r)
    PROVE  /\ Settled(r) \in Row /\ RowFits(Settled(r))
           /\ Settled(r).status \notin {"open", "promise_pending"}
           /\ Settled(r).contacts = r.contacts /\ Settled(r).tier = r.tier
<1>1. CASE r.status \in {"open", "promise_pending"}
  <2>1. Settled(r) = Closing(r, "escalated") /\ "escalated" \in Final
    BY <1>1 DEF Settled, Final
  <2>2. QED BY <2>1, ClosingRow
<1>2. CASE r.status \notin {"open", "promise_pending"}
  BY <1>2 DEF Settled
<1>3. QED BY <1>1, <1>2

\* A waiting row has no Outcome, and only a waiting row has none.
LEMMA NoOutcomeWaits ==
    ASSUME NEW r, RowFits(r)
    PROVE  r.outcome = "none" <=> r.status \in Waiting
  BY DEF RowFits, Waiting, Final

\* The runner moves on and neither the rows nor the messages change.
LEMMA OpenKept ==
    ASSUME CaseOpen, at \in CaseSteps, UNCHANGED <<db, mem, current, sent>>
    PROVE  CaseOpen'
  BY DEF CaseOpen

\* The row of the case is committed with as many contacts as messages.
LEMMA OpenCommitted ==
    ASSUME TypeOK, current \in Cases, NEW r \in Row, Commit(r), RowFits(r),
           current' = current, r.contacts = sent'[current]
    PROVE  CaseOpen'
<1>1. mem' = r /\ db'[current] = r
  BY Committed
<1>2. QED BY <1>1 DEF CaseOpen

\* The last message of a round is not yet answered, or the case waits for it.
LEMMA StepOpens ==
    ASSUME Consistent, [Next]_vars
    PROVE  CaseOpen' /\ StepFits'
<1> USE BatchConstantsOK
<1>0. TypeOK /\ CaseOpen /\ StepFits
  BY DEF Consistent
<1>a. ASSUME at \in CaseSteps
      PROVE  /\ current \in Cases /\ mem \in Row /\ RowFits(mem)
             /\ mem.contacts = sent[current] /\ mem.contacts \in Nat
             /\ sent[current] \in Nat /\ round \in Nat
             /\ (mem.outcome = "none" <=> mem.status \in Waiting)
  BY <1>0, <1>a, NoOutcomeWaits DEF CaseOpen, TypeOK, Row
<1>1. CASE Ingests
  <2>1. current' = current + 1 /\ current + 1 \in Cases
    BY <1>0, <1>1 DEF Ingests, TypeOK, Cases
  <2>2. mem' = Fresh /\ db' = [db EXCEPT ![current + 1] = mem'] /\ sent' = sent
    BY <1>1 DEF Ingests, Fresh
  <2>3. sent[current + 1] = 0
    BY <2>1 DEF Consistent, AheadUntouched, TypeOK
  <2>4. Fresh.status = "open" /\ Fresh.outcome = "none" /\ Fresh.contacts = 0
    BY DEF Fresh, Absent
  <2>5. db'[current'] = Fresh
    BY <1>0, <2>1, <2>2 DEF TypeOK
  <2>6. CaseOpen'
    BY <2>1, <2>2, <2>3, <2>4, <2>5 DEF CaseOpen, RowFits, Waiting
  <2>7. at' = "diagnosing" /\ round' = 0
    BY <1>1 DEF Ingests, Goto
  <2>8. QED BY <2>2, <2>5, <2>6, <2>7 DEF StepFits
<1>2. CASE Finishes
  BY <1>2 DEF Finishes, Goto, CaseOpen, StepFits, CaseSteps
<1>3. CASE Waits
  <2>1. at \in CaseSteps
    BY <1>3 DEF Waits, CaseSteps
  <2>2. UNCHANGED <<db, mem, at, current, round, script, replied, sent>>
    BY <1>3 DEF Waits
  <2>3. QED BY <1>0, <2>1, <2>2, OpenKept DEF StepFits, Unanswered
<1>4. ASSUME NEW cs \in SUBSET Causes, Diagnosed(cs) PROVE CaseOpen' /\ StepFits'
  <2>0. at = "diagnosing" /\ at \in CaseSteps
    BY <1>4 DEF Diagnosed, CaseSteps
  <2>1. mem = Fresh /\ mem \in Row /\ db' = db /\ mem' = [mem EXCEPT !.tier = ask.tier]
        /\ current' = current /\ sent' = sent /\ round' = round /\ at' = "round"
    BY <1>0, <1>a, <1>4, <2>0 DEF Diagnosed, Flush, Goto, StepFits
  <2>2. ask.tier \in 1..2
    BY <1>0 DEF TypeOK, AskTypeOK, Question
  <2>3. /\ mem'.status = mem.status /\ mem'.outcome = mem.outcome
        /\ mem'.contacts = mem.contacts /\ mem'.tier \in 1..2
    BY <2>1, <2>2 DEF Row
  <2>4. CaseOpen'
    BY <1>0, <2>0, <2>1, <2>3 DEF CaseOpen, RowFits
  <2>5. mem.contacts = 0 /\ mem.outcome = "none" /\ round = 0
    BY <1>0, <2>0 DEF StepFits, Fresh, Absent
  <2>6. QED BY <2>1, <2>3, <2>4, <2>5 DEF StepFits
<1>5. CASE DiagnosisFails \/ Settles
  BY <1>5 DEF DiagnosisFails, Settles, Goto, CaseOpen, StepFits, CaseSteps
<1>6. CASE Dies
  BY <1>6 DEF Dies, Goto, CaseOpen, StepFits, CaseSteps
<1>7. CASE RoundEnds \/ ReplyEndsRounds
  <2>1. at \in CaseSteps \ {"diagnosing"} /\ at' = "settling"
        /\ UNCHANGED <<db, mem, current, sent>>
    BY <1>7 DEF RoundEnds, ReplyEndsRounds, Goto, CaseSteps
  <2>2. QED BY <1>0, <2>1, OpenKept DEF StepFits
<1>8. CASE RulesPass
  <2> DEFINE new == IF "needs_info" \in causes THEN "payment_method_required"
                                               ELSE mem.status
             row == [mem EXCEPT !.status = new]
  <2>0. at = "round" /\ at \in CaseSteps \ {"diagnosing"} /\ round < Rounds
        /\ mem.status \notin Ended /\ at' = "contacting"
        /\ UNCHANGED <<current, round, sent>>
    BY <1>8 DEF RulesPass, Goto, CaseSteps
  <2>1. mem.outcome = "none" /\ mem.contacts = round /\ mem.tier \in 1..2
    BY <1>0, <2>0 DEF StepFits, Ended
  <2>2. new \in Waiting
    BY <1>a, <2>0, <2>1 DEF Waiting
  <2>3. /\ row \in Row /\ RowFits(row) /\ row.status = new /\ row.outcome = "none"
        /\ row.contacts = mem.contacts /\ row.tier = mem.tier
    BY <1>a, <2>0, <2>1, <2>2, MovedRow
  <2>4. mem' = row
    BY <1>8 DEF RulesPass, Commit, Flush
  <2>5. CaseOpen'
    <3>1. CASE Commit(row)
      BY <1>0, <1>a, <2>0, <2>3, <3>1, OpenCommitted
    <3>2. CASE "needs_info" \notin causes
      <4>1. db' = db /\ row = mem
        BY <1>8, <1>a, <2>0, <3>2 DEF RulesPass, Flush, Row
      <4>2. QED BY <1>0, <2>0, <2>4, <4>1, OpenKept
    <3>3. QED BY <1>8, <3>1, <3>2 DEF RulesPass
  <2> HIDE DEF row
  <2>6. QED BY <2>0, <2>1, <2>3, <2>4, <2>5 DEF StepFits
<1>9. CASE RuleBlocks
  <2>0. at = "contacting" /\ at \in CaseSteps \ {"diagnosing"} /\ at' = "settling"
        /\ current' = current /\ sent' = sent /\ Commit(Closing(mem, "disputed"))
    BY <1>9 DEF RuleBlocks, Goto, CaseSteps
  <2>1. /\ Closing(mem, "disputed") \in Row /\ RowFits(Closing(mem, "disputed"))
        /\ Closing(mem, "disputed").contacts = mem.contacts
        /\ Closing(mem, "disputed").tier = mem.tier
    BY <1>a, <2>0, ClosingRow DEF Final
  <2>2. CaseOpen'
    BY <1>0, <1>a, <2>0, <2>1, OpenCommitted
  <2>3. mem'.tier \in 1..2
    BY <1>0, <2>0, <2>1 DEF Commit, StepFits
  <2>4. QED BY <2>0, <2>2, <2>3 DEF StepFits
<1>10. CASE Contacts
  <2> DEFINE row == Contacted(mem)
  <2>0. at = "contacting" /\ at \in CaseSteps \ {"diagnosing"} /\ at' = "replying"
        /\ UNCHANGED <<current, round>> /\ Sends /\ mem' = row
    BY <1>10 DEF Contacts, Goto, CaseSteps, Commit, Flush
  <2>1. /\ row \in Row /\ RowFits(row) /\ row.status = mem.status
        /\ row.outcome = mem.outcome /\ row.contacts = mem.contacts + 1
        /\ row.tier = mem.tier
    BY <1>a, <2>0, ContactedRow
  <2>2. sent'[current] = sent[current] + 1
    BY <1>0, <1>a, <2>0, SendsOne
  <2>3. mem.contacts = round /\ mem.outcome = "none" /\ round < Rounds
        /\ mem.tier \in 1..2
    BY <1>0, <2>0 DEF StepFits
  <2> HIDE DEF row
  <2>4. CaseOpen'
    <3>1. CASE round = 0
      <4>1. db' = db
        BY <1>10, <3>1 DEF Contacts, Flush
      <4>2. db[current].contacts = 0 /\ row.contacts = 1
        BY <1>0, <2>0, <2>1, <2>3, <3>1 DEF CaseOpen
      <4>3. /\ db[current].status = mem.status /\ db[current].outcome = mem.outcome
        BY <1>0, <2>0 DEF CaseOpen
      <4>4. row.contacts = sent'[current]
        BY <1>a, <2>0, <2>1, <2>2
      <4>5. QED BY <1>a, <2>0, <2>1, <4>1, <4>2, <4>3, <4>4 DEF CaseOpen
    <3>2. CASE round # 0
      <4>1. Commit(row)
        BY <1>10, <3>2 DEF Contacts, row
      <4>2. row.contacts = sent'[current]
        BY <1>a, <2>0, <2>1, <2>2
      <4>3. QED BY <1>0, <1>a, <2>0, <2>1, <4>1, <4>2, OpenCommitted
    <3>3. QED BY <3>1, <3>2
  <2>5. Unanswered' /\ round' < Rounds
    BY <2>0, <2>1, <2>3 DEF Unanswered
  <2>6. QED BY <2>0, <2>1, <2>3, <2>4, <2>5 DEF StepFits
<1>11. CASE Replies
  <2>0. at = "replying" /\ at \in CaseSteps \ {"diagnosing"} /\ at' = "classifying"
        /\ UNCHANGED <<db, mem, current, round, script, sent>>
        /\ round = 0 /\ script.reply /\ replied'
    BY <1>11 DEF Replies, Goto, CaseSteps
  <2>1. Unanswered' /\ round' < Rounds /\ mem'.tier \in 1..2
    BY <1>0, <2>0 DEF StepFits, Unanswered
  <2>2. QED BY <1>0, <2>0, <2>1, OpenKept DEF StepFits
<1>12. CASE NoReply
  <2>0. at = "replying" /\ at \in CaseSteps \ {"diagnosing"} /\ at' = "paying"
        /\ UNCHANGED <<db, mem, current, round, script, sent>> /\ ~replied'
    BY <1>12 DEF NoReply, Goto, CaseSteps
  <2>1. Unanswered' /\ round' < Rounds /\ mem'.tier \in 1..2
    BY <1>0, <2>0 DEF StepFits, Unanswered
  <2>2. QED BY <1>0, <2>0, <2>1, OpenKept DEF StepFits
<1>13. ASSUME NEW s \in ReplyStates, Acknowledged(s) PROVE CaseOpen' /\ StepFits'
  <2> DEFINE new == ReplyTarget(s)
             row == IF new \in Handed THEN Closing(mem, new)
                                      ELSE [mem EXCEPT !.status = new]
  <2>0. at = "classifying" /\ at \in CaseSteps \ {"diagnosing"}
        /\ UNCHANGED <<current, round, script, replied>> /\ Sends
        /\ (Dies \/ (Commit(Contacted(row)) /\ at' = "paying"))
    BY <1>13 DEF Acknowledged, Goto, CaseSteps
  <2>1. mem.outcome = "none" /\ mem.tier \in 1..2 /\ replied /\ script.reply
        /\ round < Rounds
    BY <1>0, <2>0 DEF StepFits, Unanswered
  <2>2. CASE Commit(Contacted(row)) /\ at' = "paying"
    <3>1. row \in Row /\ RowFits(row) /\ row.contacts = mem.contacts /\ row.tier = mem.tier
      <4>1. CASE new \in Handed
        BY <1>a, <2>0, <4>1, ClosingRow DEF Handed, Final
      <4>2. CASE new \notin Handed
        <5>1. new \in Waiting
          BY <1>a, <2>0, <2>1, <4>2, ReplyTargetFits
        <5>2. QED BY <1>a, <2>0, <2>1, <4>2, <5>1, MovedRow
      <4>3. QED BY <4>1, <4>2
    <3> HIDE DEF row
    <3>2. /\ Contacted(row) \in Row /\ RowFits(Contacted(row))
          /\ Contacted(row).contacts = mem.contacts + 1 /\ Contacted(row).tier = mem.tier
      BY <3>1, ContactedRow
    <3>3. Contacted(row).contacts = sent'[current]
      BY <1>0, <1>a, <2>0, <3>2, SendsOne
    <3>4. CaseOpen'
      BY <1>0, <1>a, <2>0, <2>2, <3>2, <3>3, OpenCommitted
    <3>5. mem'.tier \in 1..2
      BY <2>1, <2>2, <3>2 DEF Commit
    <3>6. QED BY <2>0, <2>1, <2>2, <3>4, <3>5 DEF StepFits
  <2>3. QED BY <1>6, <2>0, <2>2
<1>14. ASSUME NEW s, ClassificationRefused(s) PROVE CaseOpen' /\ StepFits'
  BY <1>6, <1>14 DEF ClassificationRefused
<1>15. CASE Recovers
  <2>0. at = "paying" /\ at \in CaseSteps \ {"diagnosing"} /\ at' = "settling"
        /\ current' = current /\ sent' = sent /\ Commit(Closing(mem, "recovered"))
    BY <1>15 DEF Recovers, Goto, CaseSteps
  <2>1. /\ Closing(mem, "recovered") \in Row /\ RowFits(Closing(mem, "recovered"))
        /\ Closing(mem, "recovered").contacts = mem.contacts
        /\ Closing(mem, "recovered").tier = mem.tier
    BY <1>a, <2>0, ClosingRow DEF Final
  <2>2. CaseOpen'
    BY <1>0, <1>a, <2>0, <2>1, OpenCommitted
  <2>3. mem'.tier \in 1..2
    BY <1>0, <2>0, <2>1 DEF Commit, StepFits
  <2>4. QED BY <2>0, <2>2, <2>3 DEF StepFits
<1>16. CASE Exhausts
  <2> DEFINE row == Closing(mem, "escalated")
  <2>0. at = "paying" /\ at \in CaseSteps \ {"diagnosing"} /\ at' = "round" /\ ~replied
        /\ current' = current /\ sent' = sent /\ Commit(row) /\ round' = round + 1
    BY <1>16 DEF Exhausts, Goto, CaseSteps
  <2>1. /\ row \in Row /\ RowFits(row) /\ row.status = "escalated"
        /\ row.contacts = mem.contacts /\ row.tier = mem.tier
    BY <1>a, <2>0, ClosingRow DEF Final
  <2> HIDE DEF row
  <2>2. CaseOpen'
    BY <1>0, <1>a, <2>0, <2>1, OpenCommitted
  <2>3. mem' = row /\ mem.tier \in 1..2 /\ mem.contacts = round + 1
    BY <1>0, <2>0 DEF Commit, StepFits, Unanswered
  <2>4. QED BY <2>0, <2>1, <2>2, <2>3 DEF StepFits
<1>17. CASE NextRound
  <2>0. at = "paying" /\ at \in CaseSteps \ {"diagnosing"} /\ at' = "round" /\ ~replied
        /\ UNCHANGED <<db, mem, current, sent>> /\ round' = round + 1
    BY <1>17 DEF NextRound, Goto, CaseSteps
  <2>1. mem.contacts = round + 1 /\ mem.outcome = "none" /\ mem.tier \in 1..2
    BY <1>0, <2>0 DEF StepFits, Unanswered
  <2>2. QED BY <1>0, <2>0, <2>1, OpenKept DEF StepFits
<1>18. CASE UNCHANGED vars
  BY <1>0, <1>18 DEF vars, CaseOpen, StepFits, Unanswered
<1>19. CASE QuestionRaises \/ Killed
  BY <1>6, <1>19 DEF QuestionRaises, Killed
<1>20. QED
  BY <1>1, <1>2, <1>3, <1>4, <1>5, <1>7, <1>8, <1>9, <1>10, <1>11, <1>12, <1>13,
     <1>14, <1>15, <1>16, <1>17, <1>18, <1>19
  DEF Next, Work

-----------------------------------------------------------------------------
\* What a step does to the rows and counters of the whole batch.

\* The case in progress, and no other, is worked on.
Works ==
    /\ at \in CaseSteps
    /\ at' \in CaseSteps \cup {"crashed"}
    /\ UNCHANGED <<current, tally>>
    /\ \A c \in Cases \ {current} : db'[c] = db[c] /\ sent'[c] = sent[c]
    /\ \/ at' \in CaseSteps
       \/ db' = db /\ (sent' = sent \/ Sends)

\* Row r ends the case in progress, and is counted.
Retires(r) ==
    /\ at \in CaseSteps
    /\ at' = "next"
    /\ UNCHANGED <<current, sent>>
    /\ Commit(r)
    /\ Count(r.status)

Rests ==
    /\ UNCHANGED <<db, current, sent, tally>>
    /\ at' = at \/ (at = "next" /\ at' \in {"done", "crashed"})

LEMMA StepTouches ==
    ASSUME Consistent, [Next]_vars
    PROVE  \/ Ingests
           \/ DiagnosisFails /\ Retires(mem)
           \/ Settles /\ Retires(Settled(mem))
           \/ Works
           \/ Rests
<1>0. TypeOK /\ (at \in CaseSteps => current \in Cases)
  BY DEF Consistent, CaseOpen
<1>1. CASE DiagnosisFails
  <2>1. mem.status = "open"
    BY <1>1 DEF DiagnosisFails, Consistent, StepFits, Fresh, Absent
  <2>2. QED BY <1>1, <2>1 DEF DiagnosisFails, Retires, CaseSteps, Goto
<1>2. CASE Settles
  BY <1>2 DEF Settles, Retires, CaseSteps, Goto
<1>3. CASE Finishes \/ UNCHANGED vars
  BY <1>3 DEF Finishes, Rests, Goto, vars
<1>4. CASE Waits
  BY <1>4 DEF Waits, Works, CaseSteps
<1>5. CASE QuestionRaises \/ \E s \in ReplyStates : ClassificationRefused(s)
  BY <1>5 DEF QuestionRaises, ClassificationRefused, Works, Dies, Goto, CaseSteps
<1>6. CASE Killed
  <2>1. at \in CaseSteps \/ at = "next"
    BY <1>0, <1>6 DEF Killed, TypeOK, Steps, CaseSteps
  <2>2. QED BY <1>6, <2>1 DEF Killed, Dies, Goto, Works, Rests
<1>7. CASE (\E cs \in SUBSET Causes : Diagnosed(cs)) \/ RoundEnds \/ Replies \/ NoReply
           \/ NextRound \/ ReplyEndsRounds
  BY <1>7 DEF Diagnosed, RoundEnds, Replies, NoReply, NextRound, ReplyEndsRounds, Flush,
              Works, Goto, CaseSteps
<1>8. CASE RulesPass \/ RuleBlocks \/ Recovers \/ Exhausts
  <2>1. at \in CaseSteps /\ at' \in CaseSteps /\ UNCHANGED <<current, tally, sent>>
    BY <1>8 DEF RulesPass, RuleBlocks, Recovers, Exhausts, Goto, CaseSteps
  <2>2. (\E r : Commit(r)) \/ db' = db
    BY <1>8 DEF RulesPass, RuleBlocks, Recovers, Exhausts, Flush
  <2>3. QED BY <1>0, <2>1, <2>2 DEF Works, Commit, TypeOK
<1>9. CASE Contacts \/ \E s \in ReplyStates : Acknowledged(s)
  <2>1. at \in CaseSteps /\ UNCHANGED <<current, tally>> /\ Sends
    BY <1>9 DEF Contacts, Acknowledged, CaseSteps
  <2>2. (at' \in CaseSteps /\ \E r : Commit(r) \/ Flush(r)) \/ (at' = "crashed" /\ db' = db)
    BY <1>9 DEF Contacts, Acknowledged, Dies, Goto, CaseSteps
  <2>3. \A c \in Cases \ {current} : sent'[c] = sent[c]
    BY <1>0, <2>1, SendsOne
  <2>4. \A c \in Cases \ {current} : db'[c] = db[c]
    BY <1>0, <2>2 DEF Commit, Flush, TypeOK
  <2>5. QED BY <2>1, <2>2, <2>3, <2>4 DEF Works
<1>10. QED
  BY <1>1, <1>2, <1>3, <1>4, <1>5, <1>6, <1>7, <1>8, <1>9 DEF Next, Work

LEMMA CasesAreNumbers == Cases \subseteq Nat /\ NumCases \in Nat
  BY BatchConstantsOK DEF Cases

LEMMA StepAhead ==
    ASSUME Consistent, [Next]_vars
    PROVE  AheadUntouched'
<1> SUFFICES ASSUME NEW c \in Cases, c > current'
             PROVE  db'[c] = Absent /\ sent'[c] = 0
  BY DEF AheadUntouched
<1>0. TypeOK /\ (c > current => db[c] = Absent /\ sent[c] = 0) /\ c \in Nat /\ current \in Nat
  BY CasesAreNumbers DEF Consistent, AheadUntouched, TypeOK
<1>1. CASE Ingests
  <2>1. current' = current + 1 /\ db' = [db EXCEPT ![current + 1] = mem'] /\ sent' = sent
    BY <1>1 DEF Ingests
  <2>2. QED BY <1>0, <2>1 DEF TypeOK
<1>2. CASE Works \/ Rests
  BY <1>0, <1>2 DEF Works, Rests
<1>3. ASSUME NEW r, Retires(r) PROVE db'[c] = Absent /\ sent'[c] = 0
  BY <1>0, <1>3 DEF Retires, Commit, TypeOK
<1>4. QED BY <1>1, <1>2, <1>3, StepTouches

LEMMA DoneKept ==
    ASSUME Consistent, Works \/ Rests \/ Ingests, NEW c \in DoneCases'
    PROVE  /\ c \in DoneCases /\ c \in Cases /\ db'[c] = db[c] /\ sent'[c] = sent[c]
<1>0. TypeOK /\ current \in Nat /\ NumCases \in Nat
      /\ (at \in CaseSteps => current \in Cases)
  BY CasesAreNumbers DEF Consistent, TypeOK, CaseOpen
<1>1. CASE Works
  <2>1. at \notin {"next", "done"} /\ at' \notin {"next", "done"} /\ current' = current
    BY <1>1 DEF Works, CaseSteps
  <2>2. c \in DoneCases /\ c # current /\ c \in Cases
    BY <1>0, <2>1 DEF DoneCases, Cases, TypeOK
  <2>3. QED BY <1>1, <2>2 DEF Works
<1>2. CASE Rests
  <2>1. c \in DoneCases /\ c \in Cases
    BY <1>0, <1>2 DEF Rests, DoneCases, Cases, TypeOK
  <2>2. QED BY <1>2, <2>1 DEF Rests
<1>3. CASE Ingests
  <2>1. at = "next" /\ at' = "diagnosing" /\ current' = current + 1 /\ sent' = sent
        /\ db' = [db EXCEPT ![current + 1] = mem']
    BY <1>3 DEF Ingests, Goto
  <2>2. c \in 1..current
    BY <1>0, <2>1 DEF DoneCases
  <2>3. c \in DoneCases /\ c \in Cases /\ c # current + 1
    BY <1>0, <2>1, <2>2 DEF DoneCases, Cases, TypeOK
  <2>4. QED BY <1>0, <2>1, <2>3 DEF TypeOK
<1>4. QED BY <1>1, <1>2, <1>3

\* The case that ends joins the ones the batch is done with.
LEMMA DoneJoined ==
    ASSUME Consistent, NEW r \in Row, Retires(r)
    PROVE  /\ DoneCases' = DoneCases \cup {current} /\ current \notin DoneCases
           /\ DoneCases \subseteq Cases
           /\ db'[current] = r
           /\ \A c \in DoneCases : db'[c] = db[c]
<1>0. TypeOK /\ current \in Cases /\ current \in Nat /\ NumCases \in Nat /\ current >= 1
  BY CurrentIsCase, CasesAreNumbers DEF Retires, Consistent, Cases
<1>1. at \notin {"next", "done"} /\ at' = "next" /\ current' = current
  BY DEF Retires, CaseSteps
<1>2. DoneCases = 1..(current - 1) /\ DoneCases' = 1..current
  BY <1>1 DEF DoneCases
<1>3. 1..current = (1..(current - 1)) \cup {current}
  BY <1>0
<1>4. db'[current] = r /\ \A c \in Cases \ {current} : db'[c] = db[c]
  BY <1>0, Committed DEF Retires
<1>5. DoneCases \subseteq Cases /\ current \notin DoneCases
  BY <1>0, <1>2 DEF Cases, TypeOK
<1>6. QED BY <1>2, <1>3, <1>4, <1>5

\* The row a case ends with: never diagnosed and never written to, or diagnosed
\* and no longer open; and every message of the case is on it.
LEMMA RetiredRow ==
    ASSUME Consistent, NEW r, Retires(r),
           \/ DiagnosisFails /\ r = mem
           \/ Settles /\ r = Settled(mem)
    PROVE  /\ r \in Row /\ r.contacts = sent[current]
           /\ IF r.tier = 0
              THEN r.status = "open" /\ r.outcome = "none" /\ sent[current] = 0
              ELSE \/ r.status = "payment_method_required" /\ r.outcome = "none"
                   \/ r.status \notin {"open", "promise_pending"} /\ r.outcome = r.status
<1>0. mem \in Row /\ RowFits(mem) /\ mem.contacts = sent[current]
  BY DEF Consistent, TypeOK, CaseOpen, Retires
<1>1. CASE DiagnosisFails /\ r = mem
  <2>1. mem = Fresh
    BY <1>1 DEF DiagnosisFails, Consistent, StepFits
  <2>2. Fresh.status = "open" /\ Fresh.outcome = "none" /\ Fresh.contacts = 0 /\ Fresh.tier = 0
    BY DEF Fresh, Absent
  <2>3. QED BY <1>0, <1>1, <2>1, <2>2
<1>2. CASE Settles /\ r = Settled(mem)
  <2>1. mem.tier \in 1..2
    BY <1>2 DEF Settles, Consistent, StepFits, CaseSteps
  <2>2. /\ r \in Row /\ RowFits(r) /\ r.status \notin {"open", "promise_pending"}
        /\ r.contacts = mem.contacts /\ r.tier = mem.tier
    BY <1>0, <1>2, SettledRow
  <2>3. \/ r.status = "payment_method_required" /\ r.outcome = "none"
        \/ r.status \notin {"open", "promise_pending"} /\ r.outcome = r.status
    BY <2>2 DEF RowFits, Waiting, Final
  <2>4. QED BY <1>0, <2>1, <2>2, <2>3
<1>3. QED BY <1>1, <1>2

LEMMA StepSettles ==
    ASSUME Consistent, [Next]_vars
    PROVE  CasesSettle'
<1> SUFFICES ASSUME NEW c \in DoneCases'
             PROVE  IF db'[c].tier = 0
                    THEN db'[c].status = "open" /\ db'[c].outcome = "none" /\ sent'[c] = 0
                    ELSE \/ db'[c].status = "payment_method_required" /\ db'[c].outcome = "none"
                         \/ /\ db'[c].status \notin {"open", "promise_pending"}
                            /\ db'[c].outcome = db'[c].status
  BY DEF CasesSettle
<1>1. CASE Works \/ Rests \/ Ingests
  <2>1. c \in DoneCases /\ db'[c] = db[c] /\ sent'[c] = sent[c]
    BY <1>1, DoneKept
  <2>2. QED BY <2>1 DEF Consistent, CasesSettle
<1>2. ASSUME NEW r, Retires(r),
             \/ DiagnosisFails /\ r = mem
             \/ Settles /\ r = Settled(mem)
      PROVE  IF db'[c].tier = 0
             THEN db'[c].status = "open" /\ db'[c].outcome = "none" /\ sent'[c] = 0
             ELSE \/ db'[c].status = "payment_method_required" /\ db'[c].outcome = "none"
                  \/ /\ db'[c].status \notin {"open", "promise_pending"}
                     /\ db'[c].outcome = db'[c].status
  <2>0. r \in Row /\ sent' = sent
    BY <1>2, RetiredRow DEF Retires
  <2>1. CASE c = current
    BY <1>2, <2>0, <2>1, RetiredRow, DoneJoined
  <2>2. CASE c # current
    <3>1. c \in DoneCases /\ db'[c] = db[c]
      BY <1>2, <2>0, <2>2, DoneJoined
    <3>2. QED BY <2>0, <3>1 DEF Consistent, CasesSettle
  <2>3. QED BY <2>1, <2>2
<1>3. QED BY <1>1, <1>2, StepTouches

LEMMA StepRecorded ==
    ASSUME Consistent, TypeOK', CaseOpen', [Next]_vars
    PROVE  MessagesRecorded'
<1>0. TypeOK /\ TypeOK'
  BY DEF Consistent
<1>1. ASSUME NEW c \in DoneCases' PROVE db'[c].contacts = sent'[c]
  <2>1. CASE Works \/ Rests \/ Ingests
    <3>1. c \in DoneCases /\ db'[c] = db[c] /\ sent'[c] = sent[c]
      BY <1>1, <2>1, DoneKept
    <3>2. QED BY <3>1 DEF Consistent, MessagesRecorded
  <2>2. ASSUME NEW r, Retires(r),
               \/ DiagnosisFails /\ r = mem
               \/ Settles /\ r = Settled(mem)
        PROVE  db'[c].contacts = sent'[c]
    <3>0. r \in Row /\ sent' = sent /\ r.contacts = sent[current]
      BY <2>2, RetiredRow DEF Retires
    <3>1. CASE c = current
      BY <2>2, <3>0, <3>1, DoneJoined
    <3>2. CASE c # current
      <4>1. c \in DoneCases /\ db'[c] = db[c]
        BY <1>1, <2>2, <3>0, <3>2, DoneJoined
      <4>2. QED BY <3>0, <4>1 DEF Consistent, MessagesRecorded
    <3>3. QED BY <3>1, <3>2
  <2>3. QED BY <2>1, <2>2, StepTouches
<1>2. ASSUME NEW c \in Cases
      PROVE  db'[c].contacts <= sent'[c] /\ sent'[c] <= db'[c].contacts + 2
  <2>0. /\ db[c].contacts <= sent[c] /\ sent[c] <= db[c].contacts + 2
        /\ db[c].contacts \in Nat /\ sent[c] \in Nat
        /\ db'[c].contacts \in Nat /\ sent'[c] \in Nat
    BY <1>0 DEF Consistent, MessagesRecorded, TypeOK, Row
  <2>1. CASE Works
    <3>1. CASE c # current
      BY <2>0, <2>1, <3>1 DEF Works
    <3>2. CASE c = current /\ at' \in CaseSteps
      <4>1. current' = c
        BY <2>1, <3>2 DEF Works
      <4>2. \/ db'[c].contacts = sent'[c]
            \/ db'[c].contacts = 0 /\ sent'[c] = 1
        BY <3>2, <4>1 DEF CaseOpen
      <4>3. QED BY <2>0, <4>2
    <3>3. CASE c = current /\ at' \notin CaseSteps
      <4>1. \/ db[c].contacts = sent[c]
            \/ db[c].contacts = 0 /\ sent[c] = 1
        BY <2>1, <3>3 DEF Works, Consistent, CaseOpen
      <4>2. db' = db /\ (sent' = sent \/ Sends)
        BY <2>1, <3>3 DEF Works
      <4>3. sent'[c] = sent[c] \/ sent'[c] = sent[c] + 1
        BY <1>0, <3>3, <4>2, SendsOne
      <4>4. QED BY <2>0, <4>1, <4>2, <4>3
    <3>4. QED BY <3>1, <3>2, <3>3
  <2>2. CASE Rests
    BY <2>0, <2>2 DEF Rests
  <2>3. CASE Ingests
    <3>1. db' = [db EXCEPT ![current + 1] = Fresh] /\ sent' = sent
      BY <2>3 DEF Ingests, Fresh
    <3>2. CASE c = current + 1
      <4>1. c > current
        BY <1>0, <3>2 DEF TypeOK
      <4>2. sent[c] = 0
        BY <4>1 DEF Consistent, AheadUntouched
      <4>3. db'[c].contacts = 0
        BY <1>0, <3>1, <3>2 DEF TypeOK, Fresh, Absent
      <4>4. QED BY <3>1, <4>2, <4>3
    <3>3. CASE c # current + 1
      BY <1>0, <2>0, <3>1, <3>3 DEF TypeOK
    <3>4. QED BY <3>2, <3>3
  <2>4. ASSUME NEW r, Retires(r),
               \/ DiagnosisFails /\ r = mem
               \/ Settles /\ r = Settled(mem)
        PROVE  db'[c].contacts <= sent'[c] /\ sent'[c] <= db'[c].contacts + 2
    <3>0. r \in Row /\ sent' = sent /\ r.contacts = sent[current]
      BY <2>4, RetiredRow DEF Retires
    <3>1. CASE c = current
      <4>1. db'[c] = r
        BY <2>4, <3>0, <3>1, DoneJoined
      <4>2. QED BY <2>0, <3>0, <3>1, <4>1
    <3>2. CASE c # current
      <4>1. db'[c] = db[c]
        BY <1>0, <2>4, <3>2 DEF Retires, Commit, TypeOK
      <4>2. QED BY <2>0, <3>0, <4>1
    <3>3. QED BY <3>1, <3>2
  <2>5. QED BY <2>1, <2>2, <2>3, <2>4, StepTouches
<1>3. QED BY <1>1, <1>2 DEF MessagesRecorded

-----------------------------------------------------------------------------
\* The outcome table.

LEMMA DoneFinite ==
    ASSUME Consistent
    PROVE  /\ DoneCases \subseteq Cases
           /\ \A b : IsFiniteSet(ClosedAs(b)) /\ Cardinality(ClosedAs(b)) \in Nat
<1>0. TypeOK /\ NumCases \in Nat
  BY CasesAreNumbers DEF Consistent
<1>1. DoneCases \subseteq Cases
  BY <1>0 DEF DoneCases, Cases, TypeOK
<1>2. IsFiniteSet(Cases)
  BY <1>0, FS_Interval DEF Cases
<1>3. ASSUME NEW b PROVE IsFiniteSet(ClosedAs(b)) /\ Cardinality(ClosedAs(b)) \in Nat
  <2>1. ClosedAs(b) \in SUBSET Cases
    BY <1>1 DEF ClosedAs
  <2>2. IsFiniteSet(ClosedAs(b))
    BY <1>2, <2>1, FS_Subset
  <2>3. QED BY <2>2, FS_CardinalityType
<1>4. QED BY <1>1, <1>3

LEMMA ClosedAsKept ==
    ASSUME Consistent, Works \/ Rests \/ Ingests, at' # "crashed", NEW b
    PROVE  ClosedAs(b)' = ClosedAs(b)
<1>0. TypeOK /\ current \in Nat
  BY CasesAreNumbers DEF Consistent, TypeOK
<1>1. DoneCases' = DoneCases
  <2>1. CASE Works
    BY <2>1 DEF Works, DoneCases, CaseSteps
  <2>2. CASE Rests
    BY <2>2 DEF Rests, DoneCases
  <2>3. CASE Ingests
    <3>1. at = "next" /\ at' = "diagnosing" /\ current' = current + 1
      BY <2>3 DEF Ingests, Goto
    <3>2. current' - 1 = current
      BY <1>0, <3>1
    <3>3. QED BY <3>1, <3>2 DEF DoneCases
  <2>4. QED BY <2>1, <2>2, <2>3
<1>2. \A c \in DoneCases : db'[c] = db[c]
  BY <1>1, DoneKept
<1>3. QED BY <1>1, <1>2 DEF ClosedAs

\* A row that ends a case is counted in the bucket of its status.
LEMMA StepTally ==
    ASSUME Consistent, [Next]_vars
    PROVE  TallyKept'
<1> SUFFICES ASSUME at' # "crashed"
             PROVE  /\ \A b \in Counted : tally'[b] = Cardinality(ClosedAs(b)')
                    /\ tally'["promise_pending"] = 0
                    /\ tally'["recovered"] + tally'["payment_method_required"]
                       + tally'["escalated"] + tally'["disputed"] + tally'["stopped"]
                       + tally'["open"]
                       = IF at' \in {"next", "done"} THEN current' ELSE current' - 1
  BY DEF TallyKept
<1>0. TypeOK /\ current \in Nat /\ (at = "crashed" => Rests)
  <2>1. at = "crashed" => Rests
    BY StepTouches DEF DiagnosisFails, Settles, Ingests, Works, CaseSteps
  <2>2. QED BY <2>1, CasesAreNumbers DEF Consistent, TypeOK
<1>1. at # "crashed"
  BY <1>0 DEF Rests
<1>2. /\ \A b \in Counted : tally[b] = Cardinality(ClosedAs(b))
      /\ tally["promise_pending"] = 0
      /\ tally["recovered"] + tally["payment_method_required"] + tally["escalated"]
         + tally["disputed"] + tally["stopped"] + tally["open"]
         = IF at \in {"next", "done"} THEN current ELSE current - 1
  BY <1>1 DEF Consistent, TallyKept
<1>3. CASE Works \/ Rests \/ Ingests
  <2>1. tally' = tally
    BY <1>3 DEF Works, Rests, Ingests
  <2>2. (IF at' \in {"next", "done"} THEN current' ELSE current' - 1)
        = IF at \in {"next", "done"} THEN current ELSE current - 1
    BY <1>0, <1>3 DEF Works, Rests, Ingests, Goto, CaseSteps
  <2>3. QED BY <1>2, <1>3, <2>1, <2>2, ClosedAsKept
<1>4. ASSUME NEW r, Retires(r),
             \/ DiagnosisFails /\ r = mem
             \/ Settles /\ r = Settled(mem)
      PROVE  /\ \A b \in Counted : tally'[b] = Cardinality(ClosedAs(b)')
             /\ tally'["promise_pending"] = 0
             /\ tally'["recovered"] + tally'["payment_method_required"]
                + tally'["escalated"] + tally'["disputed"] + tally'["stopped"]
                + tally'["open"]
                = IF at' \in {"next", "done"} THEN current' ELSE current' - 1
  <2> DEFINE q == Bucket(r.status)
  <2>0. /\ r \in Row /\ q \in Buckets /\ q # "promise_pending"
        /\ \A b \in Counted : q = b <=> r.outcome = b
    <3>1. r \in Row
      BY <1>4, RetiredRow
    <3>2. \/ r.status = "open" /\ r.outcome = "none"
          \/ r.status = "payment_method_required" /\ r.outcome = "none"
          \/ r.status \notin {"open", "promise_pending"} /\ r.outcome = r.status
      BY <1>4, RetiredRow
    <3>3. QED BY <3>1, <3>2 DEF Bucket, Buckets, Counted
  <2>1. tally' = [tally EXCEPT ![q] = @ + 1]
    BY <1>4 DEF Retires, Count
  <2> HIDE DEF q
  <2>2. /\ tally \in [Buckets -> Nat]
        /\ \A b \in Buckets : tally'[b] = IF b = q THEN tally[b] + 1 ELSE tally[b]
    BY <1>0, <2>0, <2>1 DEF TypeOK
  <2>3. ASSUME NEW b \in Counted PROVE tally'[b] = Cardinality(ClosedAs(b)')
    <3>0. b \in Buckets
      BY DEF Counted, Buckets
    <3>1. ClosedAs(b)' = IF r.outcome = b THEN ClosedAs(b) \cup {current} ELSE ClosedAs(b)
      BY <1>4, <2>0, DoneJoined DEF ClosedAs
    <3>2. current \notin ClosedAs(b)
      BY <1>4, <2>0, DoneJoined DEF ClosedAs
    <3>3. Cardinality(ClosedAs(b)') = IF r.outcome = b THEN Cardinality(ClosedAs(b)) + 1
                                                      ELSE Cardinality(ClosedAs(b))
      BY <3>1, <3>2, DoneFinite, FS_AddElement
    <3>4. QED BY <1>2, <2>0, <2>2, <3>0, <3>3
  <2>4. tally'["promise_pending"] = 0
    BY <1>2, <2>0, <2>2 DEF Buckets
  <2>5. at \notin {"next", "done"} /\ at' = "next" /\ current' = current
    BY <1>4 DEF Retires, CaseSteps
  <2>6. tally'["recovered"] + tally'["payment_method_required"] + tally'["escalated"]
        + tally'["disputed"] + tally'["stopped"] + tally'["open"]
        = tally["recovered"] + tally["payment_method_required"] + tally["escalated"]
          + tally["disputed"] + tally["stopped"] + tally["open"] + 1
    BY <2>0, <2>2 DEF Buckets
  <2>7. QED BY <1>0, <1>2, <2>3, <2>4, <2>5, <2>6
<1>5. QED BY <1>3, <1>4, StepTouches

-----------------------------------------------------------------------------
\* The invariant holds.

LEMMA InitConsistent == Init => Consistent
<1> SUFFICES ASSUME Init PROVE Consistent
  OBVIOUS
<1> USE BatchConstantsOK
<1>1. TypeOK
  <2>1. script \in Scripts
    <3>1. \E s \in Scripts : TRUE
      OBVIOUS
    <3>2. QED BY <3>1, Zenon DEF Init
  <2>2. replied \in BOOLEAN
    BY Zenon DEF Init
  <2>3. ask \in Question
    BY NoQuestionType DEF Init
  <2>4. db \in [Cases -> Row] /\ mem \in Row
    BY AbsentType DEF Init
  <2>5. QED BY <2>1, <2>2, <2>3, <2>4 DEF Init, TypeOK, AskTypeOK, Steps, Causes
<1>2. CaseOpen /\ StepFits
  BY DEF Init, CaseOpen, StepFits, CaseSteps
<1>3. DoneCases = {}
  BY DEF Init, DoneCases
<1>4. AheadUntouched
  BY DEF Init, AheadUntouched
<1>5. CasesSettle
  BY <1>3 DEF CasesSettle
<1>6. MessagesRecorded
  BY <1>3 DEF Init, MessagesRecorded, Absent
<1>7. TallyKept
  <2>1. \A b : ClosedAs(b) = {}
    BY <1>3 DEF ClosedAs
  <2>2. /\ tally = [b \in Buckets |-> 0]
        /\ at = "next" /\ current = 0
    BY DEF Init
  <2>3. \A b \in Buckets : tally[b] = 0
    BY <2>2
  <2>4. \A b \in Counted : tally[b] = Cardinality(ClosedAs(b))
    BY <2>1, <2>3, FS_EmptySet DEF Counted, Buckets
  <2>5. QED BY <2>2, <2>3, <2>4 DEF TallyKept, Buckets
<1>8. QED BY <1>1, <1>2, <1>4, <1>5, <1>6, <1>7 DEF Consistent

LEMMA StepConsistent == Consistent /\ [Next]_vars => Consistent'
<1> SUFFICES ASSUME Consistent, [Next]_vars PROVE Consistent'
  OBVIOUS
<1>1. TypeOK' /\ CaseOpen' /\ StepFits'
  BY StepType, StepOpens
<1>2. QED BY <1>1, StepAhead, StepSettles, StepRecorded, StepTally DEF Consistent

\* The inductive invariant: the open session and the committed row, the rounds
\* and the messages, and the counters agree wherever the runner stands.
THEOREM AlwaysConsistent == Spec => []Consistent
<1>1. QED BY InitConsistent, StepConsistent, PTL DEF Spec

\* Every variable keeps its type; in particular a case has no status but those
\* the code knows.
THEOREM TypeCorrect == Spec => []TypeOK
<1>1. Consistent => TypeOK
  BY DEF Consistent
<1>2. QED BY <1>1, AlwaysConsistent, PTL

\* Between two cases nothing is half done, whatever the API answers.
THEOREM CasesAlwaysSettle == Spec => []CasesSettle
<1>1. Consistent => CasesSettle
  BY DEF Consistent
<1>2. QED BY <1>1, AlwaysConsistent, PTL

\* A message of a finished case is on record, and of an interrupted one at most
\* two are not.
THEOREM MessagesAlwaysRecorded == Spec => []MessagesRecorded
<1>1. Consistent => MessagesRecorded
  BY DEF Consistent
<1>2. QED BY <1>1, AlwaysConsistent, PTL

\* With no more rounds than the rules allow retries, the cold-outreach cap is not
\* reached while rounds are left.
THEOREM CapNeverReached == Spec => []CapUnreached
<1>1. Consistent => CapUnreached
  BY BatchConstantsOK DEF Consistent, TypeOK, StepFits, CapUnreached
<1>2. QED BY <1>1, AlwaysConsistent, PTL

\* The outcome table of the report is one of the Outcome rows, and counts every
\* case once.
THEOREM TallyAlwaysMatches == Spec => []TallyMatchesRows
<1>1. Consistent => TallyMatchesRows
  <2> SUFFICES ASSUME Consistent, at \in {"next", "done"} PROVE
         /\ \A b \in Counted : tally[b] = Cardinality({c \in Cases : db[c].outcome = b})
         /\ tally["promise_pending"] = 0
         /\ tally["recovered"] + tally["payment_method_required"] + tally["escalated"]
            + tally["disputed"] + tally["stopped"] + tally["open"] = current
    BY DEF TallyMatchesRows, Counted
  <2>1. ASSUME NEW b \in Counted
        PROVE  {c \in Cases : db[c].outcome = b} = ClosedAs(b)
    <3>1. DoneCases = 1..current /\ DoneCases \subseteq Cases /\ current \in Nat
      BY DoneFinite, CasesAreNumbers DEF DoneCases, Consistent, TypeOK
    <3>2. ASSUME NEW c \in Cases, db[c].outcome = b PROVE c \in DoneCases
      <4>1. db[c] # Absent
        BY <3>2 DEF Absent, Counted
      <4>2. ~(c > current) /\ c \in Nat /\ c >= 1
        BY <4>1, CasesAreNumbers DEF Consistent, AheadUntouched, Cases
      <4>3. QED BY <3>1, <4>2
    <3>3. QED BY <3>1, <3>2 DEF ClosedAs
  <2>2. QED BY <2>1 DEF Consistent, TallyKept
<1>2. QED BY <1>1, AlwaysConsistent, PTL

-----------------------------------------------------------------------------
\* The batch runner keeps the ledger's lifecycle.

\* The committed rows as the ledger reads them.
NamedStatus(d) == [c \in Cases |-> Name(d[c].status)]
NamedOutcome(d) == [c \in Cases |-> Name(d[c].outcome)]

LEMMA NamedRead ==
    ASSUME NEW d, NEW c \in Cases
    PROVE  /\ NamedStatus(d)[c] = Name(d[c].status)
           /\ NamedOutcome(d)[c] = Name(d[c].outcome)
  BY Zenon DEF NamedStatus, NamedOutcome

LEMMA NamedKept ==
    ASSUME NEW d, NEW c \in Cases
    PROVE  /\ [NamedStatus(d) EXCEPT ![c] = NamedStatus(d)[c]] = NamedStatus(d)
           /\ [NamedOutcome(d) EXCEPT ![c] = NamedOutcome(d)[c]] = NamedOutcome(d)
  BY DEF NamedStatus, NamedOutcome

\* The two rows of the ledger after a commit.
LEMMA NamedNext ==
    ASSUME db \in [Cases -> Row], NEW c \in Cases, NEW r \in Row, db' = [db EXCEPT ![c] = r]
    PROVE  /\ NamedStatus(db)' = [NamedStatus(db) EXCEPT ![c] = Name(r.status)]
           /\ NamedOutcome(db)' = [NamedOutcome(db) EXCEPT ![c] = Name(r.outcome)]
<1>1. ASSUME NEW e, e = db'
      PROVE  /\ NamedStatus(e) = [NamedStatus(db) EXCEPT ![c] = Name(r.status)]
             /\ NamedOutcome(e) = [NamedOutcome(db) EXCEPT ![c] = Name(r.outcome)]
  <2>1. e = [db EXCEPT ![c] = r]
    BY <1>1
  <2>2. NamedStatus(e) = [NamedStatus(db) EXCEPT ![c] = Name(r.status)]
    BY <2>1 DEF NamedStatus
  <2>3. NamedOutcome(e) = [NamedOutcome(db) EXCEPT ![c] = Name(r.outcome)]
    BY <2>1 DEF NamedOutcome
  <2>4. QED BY <2>2, <2>3
<1>2. QED BY <1>1, Zenon

LEMMA NamesOfRows ==
    /\ \A s \in Waiting : Name(s) = s
    /\ \A f \in Final : Name(f) \in Ledger!Closed
    /\ Waiting \cap Ledger!Locked = {} /\ Waiting \ {"open"} = Ledger!Working \ {"open"}
    /\ Name("none") = "none" /\ Name("absent") = "absent"
  BY DEF Name, Waiting, Final, Ledger!Closed, Ledger!Locked, Ledger!Working

\* What a commit may make of the open session's row: the same again, the row
\* closed, or the row waiting for something else.
Moves(r) ==
    \/ r.status = mem.status /\ r.outcome = mem.outcome
    \/ mem.outcome = "none" /\ r.status \in Final /\ r.outcome = r.status
    \/ mem.outcome = "none" /\ r.outcome = "none" /\ r.status \in Waiting \ {"open"}

LEMMA StepMoves ==
    ASSUME Consistent, [Next]_vars
    PROVE  \/ Ingests
           \/ db' = db
           \/ at \in CaseSteps /\ \E r \in Row : Commit(r) /\ Moves(r)
<1> SUFFICES ASSUME ~Ingests, db' # db
             PROVE  at \in CaseSteps /\ \E r \in Row : Commit(r) /\ Moves(r)
  OBVIOUS
<1>0. TypeOK /\ CaseOpen /\ StepFits
  BY DEF Consistent
<1>a. ASSUME at \in CaseSteps
      PROVE  mem \in Row /\ RowFits(mem) /\ (mem.outcome = "none" <=> mem.status \in Waiting)
  BY <1>0, <1>a, NoOutcomeWaits DEF CaseOpen, TypeOK
<1>1. CASE DiagnosisFails
  BY <1>a, <1>1 DEF DiagnosisFails, CaseSteps, Moves
<1>2. CASE RulesPass
  <2> DEFINE row == [mem EXCEPT !.status = "payment_method_required"]
  <2>1. at = "round" /\ at \in CaseSteps /\ mem.status \notin Ended
    BY <1>2 DEF RulesPass, CaseSteps
  <2>2. mem.outcome = "none"
    BY <1>0, <2>1 DEF StepFits, Ended
  <2>3. Commit(row)
    BY <1>2 DEF RulesPass, Flush
  <2>4. row \in Row /\ row.status = "payment_method_required" /\ row.outcome = "none"
    BY <1>a, <2>1, <2>2, MovedRow DEF Waiting
  <2> HIDE DEF row
  <2>5. Moves(row)
    BY <2>2, <2>4 DEF Moves, Waiting
  <2>6. QED BY <2>1, <2>3, <2>4, <2>5
<1>3. ASSUME NEW f \in Final, at \in CaseSteps, mem.outcome = "none", Commit(Closing(mem, f))
      PROVE  at \in CaseSteps /\ \E r \in Row : Commit(r) /\ Moves(r)
  <2>1. Closing(mem, f) \in Row /\ Closing(mem, f).status = f /\ Closing(mem, f).outcome = f
    BY <1>a, <1>3, ClosingRow
  <2>2. Moves(Closing(mem, f))
    BY <1>3, <2>1 DEF Moves
  <2>3. QED BY <1>3, <2>1, <2>2
<1>4. CASE RuleBlocks
  <2>1. at \in CaseSteps /\ mem.outcome = "none" /\ Commit(Closing(mem, "disputed"))
    BY <1>0, <1>4 DEF RuleBlocks, CaseSteps, StepFits
  <2>2. QED BY <1>3, <2>1 DEF Final
<1>5. CASE Contacts
  <2>1. at \in CaseSteps /\ Commit(Contacted(mem))
    BY <1>5 DEF Contacts, CaseSteps, Flush
  <2>2. Contacted(mem) \in Row /\ Moves(Contacted(mem))
    BY <1>a, <2>1, ContactedRow DEF Moves
  <2>3. QED BY <2>1, <2>2
<1>6. ASSUME NEW s \in ReplyStates, Acknowledged(s)
      PROVE  at \in CaseSteps /\ \E r \in Row : Commit(r) /\ Moves(r)
  <2> DEFINE new == ReplyTarget(s)
             row == IF new \in Handed THEN Closing(mem, new)
                                      ELSE [mem EXCEPT !.status = new]
  <2>1. at = "classifying" /\ at \in CaseSteps /\ Commit(Contacted(row))
    BY <1>6 DEF Acknowledged, CaseSteps
  <2>2. mem.outcome = "none" /\ mem.status \in Waiting
    BY <1>0, <1>a, <2>1 DEF StepFits, Unanswered
  <2>3. new = mem.status \/ new \in Waiting \ {"open"} \/ new \in Handed
    BY DEF ReplyTarget, Waiting, Handed
  <2> HIDE DEF new
  <2>4. row \in Row /\ Moves(row)
    <3>1. CASE new \in Handed
      <4>1. row = Closing(mem, new) /\ new \in Final
        BY <3>1 DEF Handed, Final
      <4>2. row \in Row /\ row.status = new /\ row.outcome = new
        BY <1>a, <2>1, <4>1, ClosingRow
      <4> HIDE DEF row
      <4>3. QED BY <2>2, <4>1, <4>2 DEF Moves
    <3>2. CASE new \notin Handed
      <4>1. row = [mem EXCEPT !.status = new] /\ new \in Waiting
        BY <2>2, <2>3, <3>2
      <4>2. row \in Row /\ row.status = new /\ row.outcome = "none"
        BY <1>a, <2>1, <2>2, <3>2, <4>1, MovedRow
      <4> HIDE DEF row
      <4>3. QED BY <2>2, <2>3, <3>2, <4>2 DEF Moves
    <3>3. QED BY <3>1, <3>2
  <2> HIDE DEF row
  <2>5. Contacted(row) \in Row /\ Moves(Contacted(row))
    BY <2>4, ContactedRow DEF Moves
  <2>6. QED BY <2>1, <2>5
<1>7. CASE Recovers \/ Exhausts
  <2>1. at = "paying" /\ at \in CaseSteps
        /\ (Commit(Closing(mem, "recovered")) \/ Commit(Closing(mem, "escalated")))
    BY <1>7 DEF Recovers, Exhausts, CaseSteps
  <2>2. CASE ~replied
    <3>1. mem.outcome = "none"
      BY <1>0, <2>1, <2>2 DEF StepFits, Unanswered
    <3>2. QED BY <1>3, <2>1, <3>1 DEF Final
  <2>3. CASE replied
    <3>1. script \in Scripts /\ script.reply
      BY <1>0, <2>1, <2>3 DEF StepFits, TypeOK
    <3>2. script.path \notin {"resolved_via_webhook", "resolved_no_reply"}
      BY <3>1, BatchConstantsOK
    <3>3. mem.status = "promise_pending"
      BY <1>7, <2>3, <3>2 DEF Recovers, Exhausts, Pays
    <3>4. mem.outcome = "none"
      BY <1>a, <2>1, <3>3 DEF Waiting
    <3>5. QED BY <1>3, <2>1, <3>4 DEF Final
  <2>4. QED BY <2>2, <2>3
<1>8. CASE Settles
  <2>1. at \in CaseSteps /\ Commit(Settled(mem))
    BY <1>8 DEF Settles, CaseSteps
  <2>2. CASE mem.status \in {"open", "promise_pending"}
    <3>1. Settled(mem) = Closing(mem, "escalated") /\ mem.outcome = "none"
      BY <1>a, <2>1, <2>2 DEF Settled, Waiting
    <3>2. QED BY <1>3, <2>1, <3>1 DEF Final
  <2>3. CASE mem.status \notin {"open", "promise_pending"}
    BY <1>a, <2>1, <2>3 DEF Settled, Moves
  <2>4. QED BY <2>2, <2>3
<1>9. QED
  BY <1>1, <1>2, <1>4, <1>5, <1>6, <1>7, <1>8
  DEF Next, Work, Finishes, Waits, Diagnosed, Flush, QuestionRaises, RoundEnds, Replies,
      NoReply, ClassificationRefused, NextRound, ReplyEndsRounds, Killed, vars

LEMMA OpenIsLedger ==
    ASSUME Consistent, Ingests
    PROVE  Ledger!LifecycleNext
<1> DEFINE c == current + 1
<1>0. TypeOK /\ c \in Cases /\ c > current
  BY BatchConstantsOK DEF Consistent, TypeOK, Ingests, Cases
<1>1. db \in [Cases -> Row] /\ db[c] = Absent /\ db' = [db EXCEPT ![c] = Fresh]
      /\ Fresh \in Row
  BY <1>0, AbsentType, MovedType
  DEF Consistent, TypeOK, AheadUntouched, Ingests, Fresh, CaseStatuses
<1>2. Fresh.status = "open" /\ Fresh.outcome = "none" /\ Absent.status = "absent"
      /\ Absent.outcome = "none" /\ Name("open") = "open"
  BY DEF Fresh, Absent, Name
<1> HIDE DEF c
<1>3. NamedStatus(db)[c] = "absent" /\ NamedOutcome(db)[c] = "none"
  BY <1>0, <1>1, <1>2, NamedRead, NamesOfRows
<1>4. /\ NamedStatus(db)' = [NamedStatus(db) EXCEPT ![c] = Name(Fresh.status)]
      /\ NamedOutcome(db)' = [NamedOutcome(db) EXCEPT ![c] = Name(Fresh.outcome)]
  BY <1>0, <1>1, NamedNext
<1>5. NamedStatus(db)' = [NamedStatus(db) EXCEPT ![c] = "open"]
  BY <1>2, <1>4
<1>6. NamedOutcome(db)' = NamedOutcome(db)
  BY <1>0, <1>2, <1>3, <1>4, NamedKept, NamesOfRows
<1>7. Ledger!Open(c)
  BY <1>3, <1>5, <1>6, Zenon DEF Ledger!Open, NamedStatus, NamedOutcome
<1>8. QED BY <1>0, <1>7, Zenon DEF Ledger!LifecycleNext

LEMMA CommitIsLedger ==
    ASSUME Consistent, at \in CaseSteps, NEW r \in Row, Commit(r), Moves(r)
    PROVE  [Ledger!LifecycleNext]_(Ledger!ledgerVars)
<1>0. /\ current \in Cases /\ RowFits(mem)
      /\ db[current].status = mem.status /\ db[current].outcome = mem.outcome
      /\ db \in [Cases -> Row] /\ db' = [db EXCEPT ![current] = r]
  BY DEF Consistent, CaseOpen, TypeOK, Commit
<1>1. NamedStatus(db)[current] = Name(mem.status)
      /\ NamedOutcome(db)[current] = Name(mem.outcome)
  BY <1>0, NamedRead
<1>2. /\ NamedStatus(db)' = [NamedStatus(db) EXCEPT ![current] = Name(r.status)]
      /\ NamedOutcome(db)' = [NamedOutcome(db) EXCEPT ![current] = Name(r.outcome)]
  BY <1>0, NamedNext
<1>3. ASSUME mem.outcome = "none"
      PROVE  /\ mem.status \in Waiting /\ NamedStatus(db)[current] = mem.status
             /\ mem.status # "absent" /\ mem.status \notin Ledger!Locked
             /\ NamedOutcome(db)[current] = "none"
  <2>1. mem.status \in Waiting
    BY <1>0, <1>3, NoOutcomeWaits
  <2>2. mem.status # "absent" /\ mem.status \notin Ledger!Locked
    BY <2>1, NamesOfRows DEF Waiting
  <2>3. QED BY <1>1, <1>3, <2>1, <2>2, NamesOfRows
<1>4. CASE r.status = mem.status /\ r.outcome = mem.outcome
  <2>1. NamedStatus(db)' = NamedStatus(db)
    BY <1>0, <1>1, <1>2, <1>4, NamedKept
  <2>2. NamedOutcome(db)' = NamedOutcome(db)
    BY <1>0, <1>1, <1>2, <1>4, NamedKept
  <2>3. QED BY <2>1, <2>2, Zenon DEF Ledger!ledgerVars, NamedStatus, NamedOutcome
<1>5. CASE mem.outcome = "none" /\ r.status \in Final /\ r.outcome = r.status
  <2> DEFINE f == Name(r.status)
  <2>1. f \in Ledger!Closed
    BY <1>5, NamesOfRows
  <2>2. NamedStatus(db)' = [NamedStatus(db) EXCEPT ![current] = f]
    BY <1>2
  <2>3. NamedOutcome(db)' = [NamedOutcome(db) EXCEPT ![current] = f]
    BY <1>2, <1>5
  <2>4. NamedStatus(db)[current] # "absent" /\ NamedOutcome(db)[current] = "none"
    BY <1>3, <1>5
  <2> HIDE DEF f
  <2>5. Ledger!Close(current, f)
    BY <2>2, <2>3, <2>4, Zenon DEF Ledger!Close, NamedStatus, NamedOutcome
  <2>6. QED BY <1>0, <2>1, <2>5, Zenon DEF Ledger!LifecycleNext
<1>6. CASE mem.outcome = "none" /\ r.outcome = "none" /\ r.status \in Waiting \ {"open"}
  <2> DEFINE s == r.status
  <2>1. s \in Ledger!Working \ {"open"} /\ Name(s) = s
    BY <1>6, NamesOfRows
  <2>2. NamedStatus(db)' = [NamedStatus(db) EXCEPT ![current] = s]
    BY <1>2, <2>1
  <2>3. NamedOutcome(db)' = NamedOutcome(db)
    BY <1>0, <1>2, <1>3, <1>6, NamedKept, NamesOfRows
  <2>4. NamedStatus(db)[current] # "absent" /\ NamedStatus(db)[current] \notin Ledger!Locked
    BY <1>3, <1>6
  <2> HIDE DEF s
  <2>5. Ledger!Drift(current, s)
    BY <2>2, <2>3, <2>4, Zenon DEF Ledger!Drift, NamedStatus, NamedOutcome
  <2>6. QED BY <1>0, <2>1, <2>4, <2>5, Zenon DEF Ledger!LifecycleNext, NamedStatus
<1>7. QED BY <1>4, <1>5, <1>6 DEF Moves

\* A case of the batch opens once, a closing status and its Outcome row are one
\* commit, and a closed case does not move again: for any number of cases and any
\* behaviour of the API, with a batch that may be killed at any point.
THEOREM BatchKeepsLifecycle == Spec => BatchLifecycle
<1>1. Init => Ledger!LedgerInit
  <2> SUFFICES ASSUME Init PROVE Ledger!LedgerInit
    OBVIOUS
  <2>1. \A c \in Cases : db[c].status = "absent" /\ db[c].outcome = "none"
    BY DEF Init, Absent
  <2>2. NamedStatus(db) = [c \in Cases |-> "absent"]
    BY <2>1, NamesOfRows DEF NamedStatus
  <2>3. NamedOutcome(db) = [c \in Cases |-> "none"]
    BY <2>1, NamesOfRows DEF NamedOutcome
  <2>4. QED BY <2>2, <2>3, Zenon DEF Ledger!LedgerInit, NamedStatus, NamedOutcome
<1>2. Consistent /\ [Next]_vars => [Ledger!LifecycleNext]_(Ledger!ledgerVars)
  <2> SUFFICES ASSUME Consistent, [Next]_vars
               PROVE  [Ledger!LifecycleNext]_(Ledger!ledgerVars)
    OBVIOUS
  <2>1. CASE Ingests
    BY <2>1, OpenIsLedger, Zenon
  <2>2. CASE db' = db
    BY <2>2, Zenon DEF Ledger!ledgerVars
  <2>3. ASSUME at \in CaseSteps, NEW r \in Row, Commit(r), Moves(r)
        PROVE  [Ledger!LifecycleNext]_(Ledger!ledgerVars)
    BY <2>3, CommitIsLedger, Zenon
  <2>4. QED BY <2>1, <2>2, <2>3, StepMoves, Zenon
<1>3. QED BY <1>1, <1>2, AlwaysConsistent, PTL
          DEF Spec, BatchLifecycle, Ledger!LifecycleSpec

-----------------------------------------------------------------------------
\* The batch advances.

LEMMA QuestionAdvances == AskTypeOK /\ AskNext => AskAdvances
<1> SUFFICES ASSUME ask \in Question, AskNext PROVE AskAdvances
  BY DEF AskTypeOK
<1> USE AttemptsOK
<1>1. CASE Transient
  BY <1>1 DEF Transient, Question, AskAdvances
<1>2. ASSUME NEW e, ask.at \in {"calling", "answered"}, Raises(e) PROVE AskAdvances
  BY <1>2 DEF Raises, Question, AskAdvances
<1>3. ASSUME NEW read, ask.at = "calling", TryAgain(read) PROVE AskAdvances
  BY <1>3 DEF TryAgain, Question, AskAdvances
<1>4. CASE Exhausted \/ Refused \/ Unfit
  BY <1>2, <1>4 DEF Exhausted, Refused, Unfit
<1>5. CASE Unparsable \/ Truncated
  <2>1. ask.at = "calling"
    BY <1>5 DEF Unparsable, Truncated
  <2>2. Raises("truncated") \/ TryAgain(ask.read) \/ TryAgain(TRUE)
    BY <1>5 DEF Unparsable, Truncated
  <2>3. CASE Raises("truncated")
    BY <1>2, <2>1, <2>3
  <2>4. CASE TryAgain(ask.read)
    BY <1>3, <2>1, <2>4
  <2>5. CASE TryAgain(TRUE)
    BY <1>3, <2>1, <2>5
  <2>6. QED BY <2>2, <2>3, <2>4, <2>5
<1>6. ASSUME NEW a, Answered(a) PROVE AskAdvances
  BY <1>6 DEF Answered, Question, AskAdvances
<1>7. CASE Escalates
  BY <1>7 DEF Escalates, Unsure, Asking, AskAdvances
<1>8. QED BY <1>1, <1>4, <1>5, <1>6, <1>7 DEF AskNext

LEMMA StepAdvances == Consistent /\ [Next]_vars => [Advances]_vars
<1> SUFFICES ASSUME Consistent, Next PROVE Advances
  BY DEF vars
<1> USE DEF Goto, StepRank
<1>0. current \in Nat /\ round \in Nat /\ AskTypeOK
  BY CasesAreNumbers, BatchConstantsOK DEF Consistent, TypeOK
<1>1. CASE Ingests
  BY <1>0, <1>1 DEF Ingests, Advances
<1>2. CASE Waits
  BY <1>2, <1>0, QuestionAdvances DEF Waits, Advances
<1>3. CASE Exhausts \/ NextRound
  BY <1>0, <1>3 DEF Exhausts, NextRound, Advances
<1>4. ASSUME at \in CaseSteps \cup {"next"}, at' = "crashed", UNCHANGED <<current, round>>
      PROVE  Advances
  BY <1>4 DEF CaseSteps, Advances
<1>5. CASE QuestionRaises
  BY <1>4, <1>5 DEF QuestionRaises, Dies, CaseSteps
<1>6. CASE Killed
  BY <1>4, <1>6 DEF Killed, Dies, CaseSteps, Consistent, TypeOK, Steps
<1>7. CASE \E s \in ReplyStates : ClassificationRefused(s)
  BY <1>4, <1>7 DEF ClassificationRefused, Dies, CaseSteps
<1>8. CASE \E s \in ReplyStates : Acknowledged(s)
  <2>1. at = "classifying" /\ UNCHANGED <<current, round>> /\ at' \in {"crashed", "paying"}
    BY <1>8 DEF Acknowledged, Dies
  <2>2. QED BY <2>1 DEF Advances
<1>9. CASE Finishes \/ DiagnosisFails \/ RoundEnds \/ RulesPass \/ RuleBlocks
  BY <1>9 DEF Finishes, DiagnosisFails, RoundEnds, RulesPass, RuleBlocks, Advances
<1>10. CASE Contacts \/ Replies \/ NoReply \/ Recovers \/ ReplyEndsRounds \/ Settles
  BY <1>10 DEF Contacts, Replies, NoReply, Recovers, ReplyEndsRounds, Settles, Advances
<1>11. CASE \E cs \in SUBSET Causes : Diagnosed(cs)
  BY <1>11 DEF Diagnosed, Advances
<1>12. QED
  BY <1>1, <1>2, <1>3, <1>5, <1>6, <1>7, <1>8, <1>9, <1>10, <1>11 DEF Next, Work

\* Every step takes the runner forward, through bounded counters: what is left of
\* BatchEnds is that the runner is not forgotten by its event loop.
THEOREM BatchNeverGoesBack == Spec => BatchAdvances
<1>1. QED BY StepAdvances, AlwaysConsistent, PTL DEF Spec, BatchAdvances

=============================================================================
