---------------------------- MODULE PythonClient ----------------------------
(***************************************************************************)
(* One call of the synchronous Python client: _track and _attempt of       *)
(* client.py on top of httpx.  The thread blocks in one operation of httpx *)
(* after the other; each has the timeout to itself, while the deadline of  *)
(* the attempt is looked at between two chunks of the body only.  Another  *)
(* thread may close the client.  Time is counted in ticks.                 *)
(***************************************************************************)
EXTENDS PythonProtocol

CONSTANTS
  RetryCount,    \* retry_count
  Timeout,       \* timeout, in ticks
  Horizon,       \* bound: the ticks of an attempt are counted up to here
  Answers        \* what the server may answer

ASSUME DeliveryAssumption ==
  /\ RetryCount \in Nat
  /\ Timeout \in Nat \ {0}
  /\ Horizon \in Nat /\ Horizon > Timeout
  /\ Answers \subseteq [status : 100 .. 599, retryAfter : Nat \cup {Absent},
                        reason : BOOLEAN, body : Bodies]

VARIABLES
  owned,      \* _owns_http: the client created its httpx.Client
  open,       \* the httpx.Client has not been closed
  pc,         \* the operation the thread blocks in
  attempts,   \* _track's loop counter
  elapsed,    \* ticks since the attempt started
  waited,     \* ticks since the operation started
  silentAt,   \* elapsed at the headers, or at the last read since that brought no chunk
  length,     \* bytes in the BoundedBuffer
  broken,     \* the body of the last response could not be read
  delay,      \* the pause before the next attempt
  seen,       \* seen[n]: the answer whose headers the n-th attempt received
  outcome,    \* how the event method ended
  message,    \* where the message of an HttpError comes from
  inFlight,   \* copies that may still reach the server
  answers     \* answers[n]: what the server answered to the n-th copy

poolVars    == <<owned, open>>
clockVars   == <<elapsed, waited, silentAt>>
bodyVars    == <<length, broken>>
resultVars  == <<outcome, message>>
networkVars == <<inFlight, answers>>
vars == <<owned, open, pc, attempts, elapsed, waited, silentAt, length, broken, delay,
          seen, outcome, message, inFlight, answers>>

MaximumAttempts == RetryCount + 1
AttemptNumbers  == 1 .. MaximumAttempts
NoAnswer        == [status |-> 0, retryAfter |-> Absent]
Sending         == {"connecting", "writing", "awaiting"}

TypeOK ==
  /\ owned \in BOOLEAN /\ open \in BOOLEAN /\ broken \in BOOLEAN
  /\ pc \in Sending \cup {"idle", "reading", "sleeping", "returned"}
  /\ attempts \in 0 .. MaximumAttempts
  /\ {elapsed, silentAt} \subseteq 0 .. Horizon
  /\ delay \in Nat
  /\ waited \in 0 .. Timeout
  /\ length \in 0 .. MaxResponseBytes + 1
  /\ seen \in [AttemptNumbers -> Answers \cup {NoAnswer}]
  /\ outcome \in {"pending", "ack", "decode", "auth", "notFound", "api",
                  "transport", "validation", "closed"}
  /\ message \in {"none", "server", "reason phrase", "status text"}
  /\ inFlight \subseteq AttemptNumbers
  /\ answers \in [AttemptNumbers -> Answers \cup {NoAnswer}]

Init ==
  /\ owned \in BOOLEAN
  /\ open = TRUE
  /\ pc = "idle"
  /\ attempts = 0
  /\ elapsed = 0 /\ waited = 0 /\ silentAt = 0
  /\ length = 0
  /\ broken = FALSE
  /\ delay = 0
  /\ seen = [n \in AttemptNumbers |-> NoAnswer]
  /\ outcome = "pending"
  /\ message = "none"
  /\ inFlight = {}
  /\ answers = [n \in AttemptNumbers |-> NoAnswer]

-----------------------------------------------------------------------------
(* Pieces of the thread's steps.                                           *)

Return(result) ==
  /\ pc' = "returned"
  /\ outcome' = result.kind
  /\ message' = result.message

\* The deadline is set and the request handed to httpx, which refuses it with a
\* RuntimeError once the httpx.Client is closed.
StartAttempt(n) ==
  /\ attempts' = n
  /\ delay' = 0
  /\ length' = 0
  /\ broken' = FALSE
  /\ elapsed' = 0 /\ waited' = 0 /\ silentAt' = 0
  /\ IF open
     THEN pc' = "connecting" /\ UNCHANGED resultVars
     ELSE Return([kind |-> "closed", message |-> "none"])
  /\ UNCHANGED <<poolVars, seen, networkVars>>

\* Mutant: the pause is the jitter, whatever the server asked for.
SleepJitterOnly(requested) ==
  /\ pc' = "sleeping"
  /\ delay' \in 0 .. PythonDelayBound(attempts)
  /\ UNCHANGED resultVars

\* self._sleep(retry_delay(...)) before the next round of the loop.
Sleep(requested) ==
  /\ pc' = "sleeping"
  /\ delay' \in { PythonRetryDelay(requested, jitter) :
                    jitter \in 0 .. PythonDelayBound(attempts) }
  /\ UNCHANGED resultVars

\* Mutant: one attempt too many.
OnTransportErrorOneMore ==
  /\ pc \in Sending
  /\ IF attempts > RetryCount + 1
     THEN Return([kind |-> "transport", message |-> "none"]) /\ UNCHANGED delay
     ELSE Sleep(Absent)
  /\ UNCHANGED <<poolVars, attempts, clockVars, bodyVars, seen, networkVars>>

\* httpx.TransportError instead of a response.
OnTransportError ==
  /\ pc \in Sending
  /\ IF attempts > RetryCount
     THEN Return([kind |-> "transport", message |-> "none"]) /\ UNCHANGED delay
     ELSE Sleep(Absent)
  /\ UNCHANGED <<poolVars, attempts, clockVars, bodyVars, seen, networkVars>>

\* Mutant: the error that ends a body is not caught and counts as a failed attempt.
FinishBodyRaising(bytes, failed) ==
  LET answer == seen[attempts] IN
  /\ length' = bytes
  /\ broken' = failed
  /\ IF (failed \/ answer.status \in RetryableStatuses)
        /\ attempts <= RetryCount /\ RetryAfterAllowed(answer.retryAfter)
     THEN Sleep(answer.retryAfter)
     ELSE Return(Decode(Received(answer, bytes, failed))) /\ UNCHANGED delay
  /\ UNCHANGED <<poolVars, attempts, clockVars, seen, networkVars>>

\* The body has ended, in whatever way: the response is closed and retried by its
\* status or decoded.
FinishBody(bytes, failed) ==
  LET answer == seen[attempts] IN
  /\ length' = bytes
  /\ broken' = failed
  /\ IF /\ answer.status \in RetryableStatuses
        /\ attempts <= RetryCount
        /\ RetryAfterAllowed(answer.retryAfter)
     THEN Sleep(answer.retryAfter)
     ELSE Return(Decode(Received(answer, bytes, failed))) /\ UNCHANGED delay
  /\ UNCHANGED <<poolVars, attempts, clockVars, seen, networkVars>>

-----------------------------------------------------------------------------
(* Steps of the thread.                                                    *)

\* An event method up to the first request; valid says whether build_body accepts
\* the event.
Call(valid) ==
  /\ pc = "idle"
  /\ IF valid
     THEN StartAttempt(1)
     ELSE /\ Return([kind |-> "validation", message |-> "none"])
          /\ UNCHANGED <<poolVars, attempts, clockVars, bodyVars, delay, seen, networkVars>>

\* A connection is there and the request is written: the copy is on the wire.
Progress ==
  /\ \/ pc = "connecting" /\ pc' = "writing" /\ UNCHANGED inFlight
     \/ pc = "writing" /\ pc' = "awaiting" /\ inFlight' = inFlight \cup {attempts}
  /\ waited' = 0
  /\ UNCHANGED <<poolVars, attempts, elapsed, silentAt, bodyVars, delay, seen,
                 resultVars, answers>>

HeadersArrive ==
  /\ pc = "awaiting"
  /\ answers[attempts] # NoAnswer
  /\ pc' = "reading"
  /\ seen' = [seen EXCEPT ![attempts] = answers[attempts]]
  /\ silentAt' = elapsed
  /\ waited' = 0
  /\ UNCHANGED <<poolVars, attempts, elapsed, bodyVars, delay, resultVars, networkVars>>

\* Mutant: the deadline is not looked at.
ReadChunkForever(chunk) ==
  LET bytes == Append(length, chunk) IN
  /\ pc = "reading"
  /\ chunk <= seen[attempts].body.size - length
  /\ IF ~HasRoom(bytes)
     THEN FinishBody(bytes, FALSE)
     ELSE /\ length' = bytes
          /\ waited' = 0
          /\ UNCHANGED <<poolVars, pc, attempts, elapsed, silentAt, broken, delay, seen,
                         resultVars, networkVars>>

\* One chunk of iter_bytes: an oversized body ends the reading, then a deadline
\* that has passed.
ReadChunk(chunk) ==
  LET bytes == Append(length, chunk) IN
  /\ pc = "reading"
  /\ chunk <= seen[attempts].body.size - length
  /\ IF ~HasRoom(bytes)
     THEN FinishBody(bytes, FALSE)
     ELSE IF elapsed > Timeout
          THEN FinishBody(bytes, TRUE)
          ELSE /\ length' = bytes
               /\ waited' = 0
               /\ UNCHANGED <<poolVars, pc, attempts, elapsed, silentAt, broken, delay,
                              seen, resultVars, networkVars>>

BodyEnds ==
  /\ pc = "reading"
  /\ length = seen[attempts].body.size
  /\ FinishBody(length, FALSE)

\* httpx.HTTPError while the body is read.
OnBodyError ==
  /\ pc = "reading"
  /\ FinishBody(length, TRUE)

WakeUp ==
  /\ pc = "sleeping"
  /\ StartAttempt(attempts + 1)

-----------------------------------------------------------------------------
(* httpx, time, other threads and the server.                              *)

\* Mutant: the timeout is not passed to httpx for reads.
OperationTimesOutNoRead ==
  /\ waited = Timeout
  /\ pc # "awaiting"
  /\ OnTransportError \/ OnBodyError

\* An operation of httpx that took the whole timeout raises.
OperationTimesOut ==
  /\ waited = Timeout
  /\ OnTransportError \/ OnBodyError

\* Refused, reset and truncated connections, at any moment.
ConnectionFails == OnTransportError \/ OnBodyError

\* A read that brings no chunk (bytes of the headers, an interim response, framing,
\* encoded bytes that decode to nothing) restarts httpx's read timeout, however often,
\* and never reaches the look at the deadline.
SilentRead ==
  /\ pc \in {"awaiting", "reading"}
  /\ waited' = 0
  /\ silentAt' = IF pc = "reading" THEN elapsed ELSE silentAt
  /\ UNCHANGED <<poolVars, pc, attempts, elapsed, bodyVars, delay, seen, resultVars,
                 networkVars>>

Tick ==
  /\ pc \in Sending \cup {"reading"}
  /\ waited < Timeout
  /\ elapsed' = Lesser(elapsed + 1, Horizon)
  /\ waited' = waited + 1
  /\ UNCHANGED <<poolVars, pc, attempts, silentAt, bodyVars, delay, seen, resultVars,
                 networkVars>>

\* close() on another thread: an injected httpx.Client stays open.
Close ==
  /\ owned
  /\ open
  /\ open' = FALSE
  /\ UNCHANGED <<owned, pc, attempts, clockVars, bodyVars, delay, seen, resultVars,
                 networkVars>>

ServerAnswers(n, answer) ==
  /\ n \in inFlight
  /\ inFlight' = inFlight \ {n}
  /\ answers' = [answers EXCEPT ![n] = answer]
  /\ UNCHANGED <<poolVars, pc, attempts, clockVars, bodyVars, delay, seen, resultVars>>

CopyLost(n) ==
  /\ n \in inFlight
  /\ inFlight' = inFlight \ {n}
  /\ UNCHANGED <<poolVars, pc, attempts, clockVars, bodyVars, delay, seen, resultVars,
                 answers>>

-----------------------------------------------------------------------------
Network ==
  \/ Progress
  \/ HeadersArrive
  \/ SilentRead
  \/ \E chunk \in 1 .. MaxResponseBytes + 1 : ReadChunk(chunk)
  \/ BodyEnds
  \/ ConnectionFails
  \/ \E n \in AttemptNumbers, answer \in Answers : ServerAnswers(n, answer)
  \/ \E n \in AttemptNumbers : CopyLost(n)

Next ==
  \/ \E valid \in BOOLEAN : Call(valid)
  \/ WakeUp
  \/ OperationTimesOut
  \/ Tick
  \/ Close
  \/ Network

Spec == Init /\ [][Next]_vars

\* Time passes, httpx's timeouts fire and a sleep ends.  No step of the network, the
\* server or another thread is assumed to happen.
FairSpec ==
  /\ Spec
  /\ WF_vars(Tick)
  /\ WF_vars(OperationTimesOut)
  /\ WF_vars(WakeUp)

-----------------------------------------------------------------------------
(* Properties.                                                             *)

\* Between two attempts the call pauses as long as the server asked for, never
\* longer than five seconds nor, without such a request, than the jitter bound.
PauseHonoursServer ==
  pc = "sleeping" =>
    LET requested == OrZero(seen[attempts].retryAfter) IN
      /\ delay >= requested
      /\ delay <= Larger(PythonDelayBound(attempts), requested)
      /\ requested <= MaximumRetryAfter
      /\ attempts <= RetryCount

\* However slowly the chunks of a body come, reading it ends at most one operation of
\* httpx after the deadline, or after the headers or the last read that brought no chunk
\* when that was later.  Such reads are unlimited, and so is the time they can take.
BodyReadBounded ==
  pc = "reading" => elapsed <= Larger(silentAt, Timeout) + Timeout

\* A 200 becomes an acknowledgement exactly when its whole body was received in
\* time, fits the limit and is a success envelope: a body cut off after a complete
\* JSON text, by the peer or by the deadline, is not one.
AcknowledgedInFull ==
  outcome \in {"ack", "decode"} =>
    LET body == seen[attempts].body IN
      outcome = "ack" <=> /\ ~broken
                          /\ length = body.size
                          /\ body.size <= MaxResponseBytes
                          /\ body.kind = "ack"

\* Every event method returns or raises, unless the server keeps restarting httpx's
\* read timeout for ever with reads that bring no chunk: the code does not look at the
\* deadline then, and the call stays blocked as long as the server likes.
EveryCallReturns ==
  <>[][~SilentRead]_vars => ((pc = "connecting") ~> (pc = "returned"))

\* The synchronous Python client sends, retries and settles as all SDKs promise of a
\* call.  One that finds the httpx.Client closed has none of the promised outcomes: to
\* the contract it sends nothing more and stays unsettled (see FailuresAreSdkErrors).
Contract == INSTANCE EventDelivery WITH
  sent    <- IF outcome = "closed" THEN attempts - 1 ELSE attempts,
  outcome <- IF outcome = "closed" THEN "pending" ELSE outcome
ImplementsContract == Contract!Spec

\* docs/sdk-contract.md: "Every failure is one of six categories, all deriving from a
\* common SDK base error"; a call returns an acknowledgement or raises one of them.
FailuresAreSdkErrors ==
  pc = "returned" =>
    outcome \in {"ack", "validation", "auth", "notFound", "api", "decode", "transport"}

\* python/README.md: timeout is "seconds per attempt, covering the connection,
\* response headers, and response body".
AttemptWithinTimeout == pc \in Sending \cup {"reading"} => elapsed <= Timeout

\* conformance/README.md: a non-200 whose body read fails "uses the HTTP reason
\* phrase as its error message".
InterruptedErrorUsesReason ==
  outcome \in {"auth", "notFound", "api"} /\ broken => message # "server"
=============================================================================
