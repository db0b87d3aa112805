--------------------------- MODULE IngestionProofs ---------------------------
(* Theorems about Ingestion, for every set of events and of requests. *)
EXTENDS Ingestion, TLAPS

\* Request r is now k, the others are as they were.
Becomes(r, k) == \A q \in Requests : req'[q] = IF q = r THEN k ELSE req[q]

LEMMA MoveEffect ==
    ASSUME TypeOK, NEW r \in Requests, NEW p0, NEW e \in Events, At(r, p0, e),
           NEW p \in Points, Move(r, p)
    PROVE  /\ req' \in [Requests -> Request]
           /\ Becomes(r, [at |-> p, event |-> e])
<1>1. [req[r] EXCEPT !.at = p] = [at |-> p, event |-> e]
  BY DEF At
<1>2. req' = [req EXCEPT ![r] = [at |-> p, event |-> e]]
  BY <1>1 DEF Move, TypeOK
<1>3. [at |-> p, event |-> e] \in Request
  BY DEF Request
<1>4. QED BY <1>2, <1>3 DEF TypeOK, Becomes

LEMMA FreeEffect ==
    ASSUME TypeOK, NEW r \in Requests, Free(r)
    PROVE  req' \in [Requests -> Request] /\ Becomes(r, Idle)
<1>1. Idle \in Request
  BY DEF Idle, Request, Points
<1>2. QED BY <1>1 DEF Free, TypeOK, Becomes

LEMMA AcknowledgeType ==
    ASSUME TypeOK, NEW e \in Events, Acknowledge(e)
    PROVE  acked' \subseteq acked \cup {e} /\ acked' \subseteq Events /\ lost' \in Nat
  BY DEF Acknowledge, TypeOK

\* A request that is, or becomes, neither inserting nor answering puts nothing
\* at risk while rows and pipelines stay as they are.
LEMMA HarmlessMove ==
    ASSUME Consistent, NEW r \in Requests, NEW k, Becomes(r, k),
           k.at \in {"idle", "selecting", "flushing", "piping"},
           k.at = "flushing" => k.event \in Failures,
           UNCHANGED <<rows, started>>
    PROVE  (\A q \in Requests : RequestFits(q)') /\ Exclusive' /\ ProcessedOnce'
<1>1. \A q \in Requests, e \in Events, p \in {"committing", "answering"} :
        At(q, p, e)' => At(q, p, e)
  BY DEF Becomes, At
<1>2. ASSUME NEW q \in Requests, NEW e \in Events, At(q, "flushing", e)'
      PROVE  e \in Failures
  <2>1. CASE q = r
    <3>1. k = [at |-> "flushing", event |-> e]
      BY <1>2, <2>1 DEF Becomes, At
    <3>2. QED BY <3>1
  <2>2. CASE q # r
    <3>1. At(q, "flushing", e)
      BY <1>2, <2>2 DEF Becomes, At
    <3>2. QED BY <3>1 DEF Consistent, RequestFits
  <2>3. QED BY <2>1, <2>2
<1>3. \A q \in Requests : RequestFits(q)'
  BY <1>1, <1>2 DEF Consistent, RequestFits
<1>4. Exclusive'
  BY <1>1 DEF Consistent, Exclusive
<1>5. ProcessedOnce'
  BY DEF Consistent, ProcessedOnce
<1>6. QED BY <1>3, <1>4, <1>5

LEMMA DeliverStep ==
    ASSUME Consistent, NEW r \in Requests, NEW e \in Events,
           Deliver(r, e) \/ Redeliver(r, e)
    PROVE  Consistent'
<1> DEFINE k == [at |-> "selecting", event |-> e]
<1>1. req' = [req EXCEPT ![r] = k] /\ UNCHANGED <<rows, started, finished, acked>>
  BY DEF Deliver, Redeliver
<1>2. k \in Request
  BY DEF Request, Points
<1>3. TypeOK'
  BY <1>1, <1>2 DEF Consistent, TypeOK, Deliver, Redeliver
<1>4. Becomes(r, k)
  BY <1>1 DEF Becomes, Consistent, TypeOK
<1>5. (\A q \in Requests : RequestFits(q)') /\ Exclusive' /\ ProcessedOnce'
  BY <1>1, <1>4, HarmlessMove
<1>6. AckedStored'
  BY <1>1 DEF Consistent, AckedStored
<1>7. QED BY <1>3, <1>5, <1>6 DEF Consistent

LEMMA FreeStep ==
    ASSUME Consistent, NEW r \in Requests, Free(r), UNCHANGED <<rows, started>>,
           TypeOK', AckedStored'
    PROVE  Consistent'
<1>1. Becomes(r, Idle) /\ Idle.at = "idle"
  BY FreeEffect DEF Consistent, Idle
<1>2. (\A q \in Requests : RequestFits(q)') /\ Exclusive' /\ ProcessedOnce'
  BY <1>1, HarmlessMove
<1>3. QED BY <1>2 DEF Consistent

LEMMA HandleStep ==
    ASSUME Consistent, NEW r \in Requests, NEW e \in Events,
           \/ Ignore(r, e) \/ Deduplicate(r, e) \/ Lookup(r, e) \/ Flush(r, e)
           \/ FlushRefused(r, e) \/ Commit(r, e) \/ Answer(r, e) \/ PipelineEnds(r, e)
    PROVE  Consistent'
<1>0. TypeOK /\ RequestFits(r) /\ rows[e] \in Nat /\ started[e] \in Nat
  BY DEF Consistent, TypeOK
<1>1. CASE Ignore(r, e) \/ Deduplicate(r, e)
  <2>1. Free(r) /\ Acknowledge(e) /\ UNCHANGED <<rows, started, finished, duplicates, crashes>>
    BY <1>1 DEF Ignore, Deduplicate
  <2>2. e \in Failures => rows[e] > 0
    BY <1>1 DEF Ignore, Deduplicate, Failures
  <2>3. TypeOK'
    BY <1>0, <2>1, FreeEffect, AcknowledgeType DEF TypeOK
  <2>4. AckedStored'
    BY <1>0, <2>1, <2>2, AcknowledgeType DEF Consistent, AckedStored
  <2>5. QED BY <2>1, <2>3, <2>4, FreeStep
<1>2. CASE Lookup(r, e)
  <2> DEFINE k == [at |-> "flushing", event |-> e]
  <2>1. At(r, "selecting", e) /\ e \in Failures /\ Move(r, "flushing")
        /\ UNCHANGED <<rows, started, finished, acked, duplicates, lost, crashes>>
    BY <1>2 DEF Lookup
  <2>2. req' \in [Requests -> Request] /\ Becomes(r, k)
    BY <1>0, <2>1, MoveEffect DEF Points
  <2>3. TypeOK'
    BY <1>0, <2>1, <2>2 DEF TypeOK
  <2>4. (\A q \in Requests : RequestFits(q)') /\ Exclusive' /\ ProcessedOnce'
    BY <2>1, <2>2, HarmlessMove
  <2>5. AckedStored'
    BY <2>1 DEF Consistent, AckedStored
  <2>6. QED BY <2>3, <2>4, <2>5 DEF Consistent
<1>3. CASE Flush(r, e)
  <2> DEFINE k == [at |-> "committing", event |-> e]
  <2>1. At(r, "flushing", e) /\ Move(r, "committing") /\ rows[e] = 0
        /\ (\A q \in Requests : ~At(q, "committing", e))
        /\ UNCHANGED <<rows, started, finished, acked, duplicates, lost, crashes>>
    BY <1>3 DEF Flush
  <2>2. e \in Failures
    BY <1>0, <2>1 DEF RequestFits
  <2>3. req' \in [Requests -> Request] /\ Becomes(r, k)
    BY <1>0, <2>1, MoveEffect DEF Points
  <2>4. TypeOK'
    BY <1>0, <2>1, <2>3 DEF TypeOK
  <2>5. \A q \in Requests, d \in Events :
          /\ At(q, "committing", d)' => At(q, "committing", d) \/ (q = r /\ d = e)
          /\ At(q, "answering", d)' => At(q, "answering", d)
          /\ At(q, "flushing", d)' => At(q, "flushing", d)
    BY <2>3 DEF Becomes, At
  <2>6. \A q \in Requests : RequestFits(q)'
    BY <2>1, <2>2, <2>5 DEF Consistent, RequestFits
  <2>7. Exclusive'
    BY <2>1, <2>5 DEF Consistent, Exclusive
  <2>8. ProcessedOnce' /\ AckedStored'
    BY <2>1 DEF Consistent, ProcessedOnce, AckedStored
  <2>9. QED BY <2>4, <2>6, <2>7, <2>8 DEF Consistent
<1>4. CASE FlushRefused(r, e)
  <2>1. Free(r) /\ UNCHANGED <<rows, started, finished, acked, duplicates, lost, crashes>>
    BY <1>4 DEF FlushRefused
  <2>2. TypeOK'
    BY <1>0, <2>1, FreeEffect DEF TypeOK
  <2>3. AckedStored'
    BY <2>1 DEF Consistent, AckedStored
  <2>4. QED BY <2>1, <2>2, <2>3, FreeStep
<1>5. CASE Commit(r, e)
  <2> DEFINE k == [at |-> "answering", event |-> e]
  <2>1. At(r, "committing", e) /\ Move(r, "answering")
        /\ rows' = [rows EXCEPT ![e] = @ + 1]
        /\ UNCHANGED <<started, finished, acked, duplicates, lost, crashes>>
    BY <1>5 DEF Commit
  <2>2. rows[e] = 0
    BY <1>0, <2>1 DEF RequestFits
  <2>3. rows' = [rows EXCEPT ![e] = 1]
    BY <2>1, <2>2
  <2>4. started[e] = 0
    BY <1>0, <2>2 DEF Consistent, ProcessedOnce
  <2>5. req' \in [Requests -> Request] /\ Becomes(r, k)
    BY <1>0, <2>1, MoveEffect DEF Points
  <2>6. TypeOK'
    BY <1>0, <2>1, <2>3, <2>5 DEF TypeOK
  <2>7. \A d \in Events : rows'[d] = IF d = e THEN 1 ELSE rows[d]
    BY <1>0, <2>3 DEF TypeOK
  <2>8. \A q \in Requests, d \in Events :
          /\ At(q, "committing", d)' => At(q, "committing", d) /\ q # r
          /\ At(q, "answering", d)' => At(q, "answering", d) \/ (q = r /\ d = e)
          /\ At(q, "flushing", d)' => At(q, "flushing", d)
    BY <2>5 DEF Becomes, At
  <2>9. \A q \in Requests : At(q, "committing", e)' => FALSE
    BY <2>1, <2>8 DEF Consistent, Exclusive
  <2>10. \A q \in Requests : ~At(q, "answering", e)
    BY <2>2 DEF Consistent, RequestFits
  <2>11. \A q \in Requests : RequestFits(q)'
    BY <2>1, <2>4, <2>7, <2>8, <2>9 DEF Consistent, RequestFits
  <2>12. Exclusive'
    BY <2>8, <2>10 DEF Consistent, Exclusive
  <2>13. ProcessedOnce'
    BY <2>1, <2>4, <2>7 DEF Consistent, ProcessedOnce
  <2>14. AckedStored'
    BY <2>1, <2>7 DEF Consistent, AckedStored, Failures
  <2>15. QED BY <2>6, <2>11, <2>12, <2>13, <2>14 DEF Consistent
<1>6. CASE Answer(r, e)
  <2> DEFINE k == [at |-> "piping", event |-> e]
  <2>1. At(r, "answering", e) /\ Move(r, "piping") /\ Acknowledge(e)
        /\ started' = [started EXCEPT ![e] = @ + 1]
        /\ UNCHANGED <<rows, finished, duplicates, crashes>>
    BY <1>6 DEF Answer
  <2>2. rows[e] = 1 /\ started[e] = 0
    BY <1>0, <2>1 DEF RequestFits
  <2>3. started' = [started EXCEPT ![e] = 1]
    BY <2>1, <2>2
  <2>4. req' \in [Requests -> Request] /\ Becomes(r, k)
    BY <1>0, <2>1, MoveEffect DEF Points
  <2>5. TypeOK'
    BY <1>0, <2>1, <2>3, <2>4, AcknowledgeType DEF TypeOK
  <2>6. \A d \in Events : started'[d] = IF d = e THEN 1 ELSE started[d]
    BY <1>0, <2>3 DEF TypeOK
  <2>7. \A q \in Requests, d \in Events :
          /\ At(q, "committing", d)' => At(q, "committing", d)
          /\ At(q, "answering", d)' => At(q, "answering", d) /\ q # r
          /\ At(q, "flushing", d)' => At(q, "flushing", d)
    BY <2>4 DEF Becomes, At
  <2>8. \A q \in Requests : At(q, "answering", e)' => FALSE
    BY <2>1, <2>7 DEF Consistent, Exclusive
  <2>9. \A q \in Requests : RequestFits(q)'
    BY <2>1, <2>6, <2>7, <2>8 DEF Consistent, RequestFits
  <2>10. Exclusive'
    BY <2>7 DEF Consistent, Exclusive
  <2>11. ProcessedOnce'
    BY <2>1, <2>2, <2>6 DEF Consistent, ProcessedOnce
  <2>12. AckedStored'
    BY <1>0, <2>1, <2>2, AcknowledgeType DEF Consistent, AckedStored
  <2>13. QED BY <2>5, <2>9, <2>10, <2>11, <2>12 DEF Consistent
<1>7. CASE PipelineEnds(r, e)
  <2>1. Free(r) /\ finished' = finished \cup {e}
        /\ UNCHANGED <<rows, started, acked, duplicates, lost, crashes>>
    BY <1>7 DEF PipelineEnds
  <2>2. TypeOK'
    BY <1>0, <2>1, FreeEffect DEF TypeOK
  <2>3. AckedStored'
    BY <2>1 DEF Consistent, AckedStored
  <2>4. QED BY <2>1, <2>2, <2>3, FreeStep
<1>8. QED BY <1>1, <1>2, <1>3, <1>4, <1>5, <1>6, <1>7

LEMMA CrashStep == Consistent /\ Crash => Consistent'
<1> SUFFICES ASSUME Consistent, Crash PROVE Consistent'
  OBVIOUS
<1>1. Idle \in Request
  BY DEF Idle, Request, Points
<1>2. TypeOK'
  BY <1>1 DEF Crash, Consistent, TypeOK
<1>3. \A q \in Requests, e \in Events,
         p \in {"flushing", "committing", "answering"} : ~At(q, p, e)'
  BY DEF Crash, At, Idle
<1>4. (\A q \in Requests : RequestFits(q)') /\ Exclusive'
  BY <1>3 DEF RequestFits, Exclusive
<1>5. ProcessedOnce' /\ AckedStored'
  BY DEF Crash, Consistent, ProcessedOnce, AckedStored
<1>6. QED BY <1>2, <1>4, <1>5 DEF Consistent

LEMMA InitConsistent == Init => Consistent
<1> SUFFICES ASSUME Init PROVE Consistent
  OBVIOUS
<1>1. Idle \in Request
  BY DEF Idle, Request, Points
<1>2. TypeOK
  BY <1>1 DEF Init, TypeOK
<1>3. \A q \in Requests, e \in Events,
         p \in {"flushing", "committing", "answering"} : ~At(q, p, e)
  BY DEF Init, At, Idle
<1>4. (\A q \in Requests : RequestFits(q)) /\ Exclusive
  BY <1>3 DEF RequestFits, Exclusive
<1>5. ProcessedOnce /\ AckedStored
  BY DEF Init, ProcessedOnce, AckedStored
<1>6. QED BY <1>2, <1>4, <1>5 DEF Consistent

LEMMA StepConsistent == Consistent /\ [Next]_vars => Consistent'
<1> SUFFICES ASSUME Consistent, [Next]_vars PROVE Consistent'
  OBVIOUS
<1>1. CASE UNCHANGED vars
  BY <1>1 DEF vars, Consistent, TypeOK, RequestFits, Exclusive, At, ProcessedOnce,
              AckedStored
<1>2. ASSUME NEW r \in Requests, Handle(r) PROVE Consistent'
  BY <1>2, HandleStep DEF Handle
<1>3. QED BY <1>1, <1>2, DeliverStep, CrashStep DEF Next

\* Rows keep their types, and a request past the idempotency check holds what
\* the check and the unique index promised it.
THEOREM IngestionConsistent == Spec => []Consistent
<1>1. QED BY InitConsistent, StepConsistent, PTL DEF Spec

\* Every request, row and counter keeps its type under every delivery, insert,
\* refusal and crash.
THEOREM TypeCorrect == Spec => []TypeOK
<1>1. Consistent => TypeOK
  BY DEF Consistent
<1>2. QED BY <1>1, IngestionConsistent, PTL

\* One case and at most one first-contact pipeline per event, for any number of
\* overlapping deliveries, lost answers and crashes.
THEOREM OneCaseOnePipeline == Spec => []ProcessedOnce
<1>1. Consistent => ProcessedOnce
  BY DEF Consistent
<1>2. QED BY <1>1, IngestionConsistent, PTL

\* A failure Razorpay no longer retries has its case committed.
THEOREM AcknowledgedIsStored == Spec => []AckedStored
<1>1. Consistent => AckedStored
  BY DEF Consistent
<1>2. QED BY <1>1, IngestionConsistent, PTL
=============================================================================
