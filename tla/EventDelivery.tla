--------------------------- MODULE EventDelivery ---------------------------
(***************************************************************************)
(* What one event call promises, whatever the language: the contract of    *)
(* the SDKs' deliver/track loops without their promises, threads, timers   *)
(* and streams.  A call sends copies of one event one after the other; the *)
(* server answers a copy or not, the client sees the answer or not, and    *)
(* the call settles once, with an outcome that the answer of the last copy *)
(* determines.  The per-language modules implement this one.               *)
(***************************************************************************)
EXTENDS Integers

CONSTANTS
  MaximumAttempts,     \* retryCount + 1
  Answers,             \* answers the server may give: [status, retryAfter]
  MaximumRetryAfter,
  RetryableStatuses,
  Absent

VARIABLES
  sent,      \* copies handed to the transport
  answers,   \* answers[n]: the server's answer to the n-th copy
  seen,      \* seen[n]: the answer to the n-th copy as the client saw it
  outcome    \* how the call ended

vars == <<sent, answers, seen, outcome>>

Copies   == 1 .. MaximumAttempts
NoAnswer == [status |-> 0, retryAfter |-> Absent]
Outcomes == {"pending", "ack", "decode", "auth", "notFound", "api",
             "transport", "abort", "validation"}

TypeOK ==
  /\ sent \in 0 .. MaximumAttempts
  /\ answers \in [Copies -> Answers \cup {NoAnswer}]
  /\ seen \in [Copies -> Answers \cup {NoAnswer}]
  /\ outcome \in Outcomes

\* The client may try again after this answer, or after none at all.
MayRetry(answer) ==
  \/ answer = NoAnswer
  \/ /\ answer.status \in RetryableStatuses
     /\ answer.retryAfter = Absent \/ answer.retryAfter <= MaximumRetryAfter

\* The error a status that is not 200 is reported as.
StatusKind(status) ==
  CASE status = 401 -> "auth"
    [] status = 404 -> "notFound"
    [] OTHER        -> "api"

-----------------------------------------------------------------------------
Init ==
  /\ sent = 0
  /\ answers = [n \in Copies |-> NoAnswer]
  /\ seen = [n \in Copies |-> NoAnswer]
  /\ outcome = "pending"

SendCopy ==
  /\ outcome = "pending"
  /\ sent < MaximumAttempts
  /\ sent > 0 => MayRetry(seen[sent])
  /\ sent' = sent + 1
  /\ UNCHANGED <<answers, seen, outcome>>

\* A copy may reach the server long after the client gave up on it.
Answer(n, answer) ==
  /\ n <= sent
  /\ answers[n] = NoAnswer
  /\ answers' = [answers EXCEPT ![n] = answer]
  /\ UNCHANGED <<sent, seen, outcome>>

SeeAnswer ==
  /\ outcome = "pending"
  /\ sent > 0
  /\ seen[sent] = NoAnswer
  /\ answers[sent] # NoAnswer
  /\ seen' = [seen EXCEPT ![sent] = answers[sent]]
  /\ UNCHANGED <<sent, answers, outcome>>

Settle(kind) ==
  /\ outcome = "pending"
  /\ outcome' = kind
  /\ UNCHANGED <<sent, answers, seen>>

Accepted ==
  /\ sent > 0
  /\ seen[sent].status = 200
  /\ Settle("ack") \/ Settle("decode")

Refused ==
  /\ sent > 0
  /\ seen[sent] # NoAnswer
  /\ seen[sent].status # 200
  /\ MayRetry(seen[sent]) => sent = MaximumAttempts
  /\ Settle(StatusKind(seen[sent].status))

Unanswered ==
  /\ sent = MaximumAttempts
  /\ seen[sent] = NoAnswer
  /\ Settle("transport")

Cancelled == Settle("abort")

Invalid ==
  /\ sent = 0
  /\ Settle("validation")

Next ==
  \/ SendCopy
  \/ \E n \in Copies, answer \in Answers : Answer(n, answer)
  \/ SeeAnswer
  \/ Accepted
  \/ Refused
  \/ Unanswered
  \/ Cancelled
  \/ Invalid

Spec == Init /\ [][Next]_vars

-----------------------------------------------------------------------------
\* An acknowledged or undecodable call was accepted by the server: the copy the
\* client saw answered with 200 is one the server answered with 200.
AcceptedMeansAccepted ==
  outcome \in {"ack", "decode"} =>
    \E n \in Copies : answers[n] # NoAnswer /\ answers[n].status = 200

\* A call that reports "nothing was sent" put nothing on the wire.
InvalidMeansNothingSent ==
  outcome = "validation" => /\ sent = 0
                            /\ \A n \in Copies : answers[n] = NoAnswer

\* The client never sends another copy after an answer it must not retry, in
\* particular after a received 200, nor once the call has settled.
NoCopyAfterFinalAnswer ==
  [][ sent' # sent =>
        /\ outcome = "pending"
        /\ \A n \in 1 .. sent : MayRetry(seen[n]) ]_vars

\* What the contract's state carries from step to step: an answer belongs to a copy
\* that was sent, the client sees what the server answered, earlier answers permit
\* a retry, and the outcome follows from the last one.
ContractInvariant ==
  /\ TypeOK
  /\ \A n \in Copies :
       /\ answers[n] # NoAnswer => n <= sent
       /\ seen[n] # NoAnswer => seen[n] = answers[n]
       /\ n < sent => MayRetry(seen[n])
  /\ outcome \in {"ack", "decode"} => sent > 0 /\ seen[sent].status = 200
  /\ outcome = "validation" => sent = 0
=============================================================================
