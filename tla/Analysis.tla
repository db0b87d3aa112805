------------------------------ MODULE Analysis ------------------------------
(***************************************************************************)
(* One question to the LLM at a time: call_llm with its retry loop, the    *)
(* two attempts its callers give an answer that does not parse, and the    *)
(* escalation of an unsure diagnosis to the second tier.                   *)
(*                                                                         *)
(* What the API does (answers, times out, truncates its JSON, refuses) is  *)
(* not up to the code: each is an action that may happen to any call.  The *)
(* module has no specification of its own; Batch extends it and takes its  *)
(* actions as the steps of the question the batch runner waits for.        *)
(***************************************************************************)
EXTENDS Naturals

CONSTANTS
    MaxTries,   \* client._MAX_RETRIES
    MaxParses   \* attempts of _run_llm_diagnosis and of analyze_reply

VARIABLE ask    \* the question in progress

ASSUME AttemptsOK ==
    /\ MaxTries \in Nat \ {0}
    /\ MaxParses \in Nat \ {0}

Kinds == {"diagnosis", "reply"}

\* A parsed diagnosis by its confidence: below the threshold; at or above it; a
\* number diagnoses.confidence or the audit payload cannot store (ten or more,
\* NaN); not a number at all.  A parsed reply analysis by its state.
Confidences == {"low", "sure", "unstorable", "text"}
ReplyStates == {"promise_made", "needs_new_payment_method", "disputed", "paused",
                "opt_out", "human_escalation", "unresolved", "other"}

Errors == {"exhausted", "fatal", "truncated", "value", "database"}

Question == [at : {"idle", "calling", "answered", "unparsed", "raised"},
             kind : Kinds, tier : 1..2, parse : 1..MaxParses, try : 1..MaxTries,
             read : BOOLEAN,                \* raw_text has been assigned
             answer : Confidences \cup ReplyStates \cup {"none"},
             error : Errors \cup {"none"}]

AskTypeOK == ask \in Question

\* _run_llm_diagnosis, or analyze_reply, begins.
Asking(kind, tier) ==
    [at |-> "calling", kind |-> kind, tier |-> tier, parse |-> 1, try |-> 1,
     read |-> FALSE, answer |-> "none", error |-> "none"]

NoQuestion == [Asking("diagnosis", 1) EXCEPT !.at = "idle"]

Raises(error) == ask' = [ask EXCEPT !.at = "raised", !.error = error]

\* Rate limit, timeout or lost connection: back off and try again.
Transient ==
    /\ ask.at = "calling"
    /\ ask.try < MaxTries
    /\ ask' = [ask EXCEPT !.try = @ + 1]

\* The last attempt failed too: its error is raised.
Exhausted ==
    /\ ask.at = "calling"
    /\ ask.try = MaxTries
    /\ Raises("exhausted")

\* Any other error of the API is raised at once.
Refused == ask.at = "calling" /\ Raises("fatal")

\* Faulty variant: the attempt that did not parse is not counted.
FaultyTryAgain(read) ==
    ask' = IF ask.parse < MaxParses
           THEN [ask EXCEPT !.try = 1, !.read = read]
           ELSE [ask EXCEPT !.at = "unparsed", !.read = read]

\* The handler of an unusable answer: once more, or give up with what the caller
\* makes of it (DiagnosisFailedError, or the fallback analysis).
TryAgain(read) ==
    ask' = IF ask.parse < MaxParses
           THEN [ask EXCEPT !.parse = @ + 1, !.try = 1, !.read = read]
           ELSE [ask EXCEPT !.at = "unparsed", !.read = read]

\* An answer that is no JSON object with the required fields.
Unparsable == ask.at = "calling" /\ TryAgain(TRUE)

\* The model ran out of tokens inside its JSON: call_llm raises ValueError.  The
\* handler of the diagnosis formats raw_text, which no answer has assigned if
\* this is the first attempt: UnboundLocalError leaves the handler.
Truncated ==
    /\ ask.at = "calling"
    /\ IF ask.kind = "diagnosis" /\ ~ask.read THEN Raises("truncated")
                                              ELSE TryAgain(ask.read)

Answered(a) ==
    /\ ask.at = "calling"
    /\ a \in IF ask.kind = "diagnosis" THEN Confidences ELSE ReplyStates
    /\ ask' = [ask EXCEPT !.at = "answered", !.answer = a]

\* Faulty variant: the comparison with the threshold runs for tier 2 as well.
FaultyUnsure == ask.kind = "diagnosis" /\ ask.at = "answered" /\ ask.answer = "low"

\* diagnose_case asks the second tier, once, whatever that answers.
Unsure ==
    /\ ask.kind = "diagnosis"
    /\ ask.at = "answered"
    /\ ask.answer = "low"
    /\ ask.tier = 1

Escalates == Unsure /\ ask' = Asking("diagnosis", 2)

\* float(confidence) or normalise_cause raises, outside every retry; or the
\* flush of the diagnoses row or of its audit event is refused.
Unfit ==
    /\ ask.kind = "diagnosis"
    /\ ask.at = "answered"
    /\ \/ ask.answer = "text" /\ Raises("value")
       \/ ask.answer = "unstorable" /\ Raises("database")

\* The answer diagnose_case stores.
Conclusive ==
    /\ ask.kind = "diagnosis"
    /\ ask.at = "answered"
    /\ ask.answer \in {"low", "sure"}
    /\ ~Unsure

\* What analyze_reply returns: the state the model named, or its fallback.
Analysed(s) ==
    /\ ask.kind = "reply"
    /\ \/ ask.at = "answered" /\ s = ask.answer
       \/ ask.at = "unparsed" /\ s = "unresolved"

AskNext ==
    \/ Transient
    \/ Exhausted
    \/ Refused
    \/ Unparsable
    \/ Truncated
    \/ \E a \in Confidences \cup ReplyStates : Answered(a)
    \/ Escalates
    \/ Unfit

\* A step of the question brings it nearer to its end: tier, parse and try only
\* count up, the outer ones before the inner ones, and an answer leads to no other
\* answer of the same call.
AskAdvances ==
    \/ ask.tier < ask'.tier
    \/ ask.tier = ask'.tier /\ ask.parse < ask'.parse
    \/ ask.tier = ask'.tier /\ ask.parse = ask'.parse /\ ask.try < ask'.try
    \/ /\ ask.tier = ask'.tier /\ ask.parse = ask'.parse /\ ask.try = ask'.try
       /\ \/ ask.at = "calling" /\ ask'.at \in {"answered", "unparsed", "raised"}
          \/ ask.at = "answered" /\ ask'.at = "raised"
=============================================================================
