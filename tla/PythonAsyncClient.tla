-------------------------- MODULE PythonAsyncClient --------------------------
(***************************************************************************)
(* One call of the asynchronous Python client: _track and _attempt of      *)
(* async_client.py.  A task runs from one await to the next.  The attempt  *)
(* is inside anyio.move_on_after, the closing of its response inside a     *)
(* shielded scope, and the task may be cancelled at any await, in one of   *)
(* two styles: asyncio's Task.cancel() ("edge") throws once, where the     *)
(* task waits, shield or not; a cancelled scope of anyio or Trio around    *)
(* the call ("level") throws at every await outside a shield, unless what  *)
(* is awaited has already happened.                                        *)
(***************************************************************************)
EXTENDS PythonProtocol

CONSTANTS
  RetryCount,   \* retry_count
  Answers       \* what the server may answer

ASSUME DeliveryAssumption ==
  /\ RetryCount \in Nat
  /\ Answers \subseteq [status : 100 .. 599, retryAfter : Nat \cup {Absent},
                        reason : BOOLEAN, body : Bodies]

VARIABLES
  style,      \* how the task is cancelled
  cancel,     \* the cancellation of the task
  open,       \* the httpx.AsyncClient has not been closed
  pc,         \* the await the task is suspended in
  attempts,   \* _track's loop counter
  written,    \* the copy of this attempt is on the wire
  deadline,   \* the deadline of the attempt's move_on_after scope
  response,   \* the response of this attempt
  length,     \* bytes in the BoundedBuffer
  broken,     \* the body of the last response could not be read
  unwinding,  \* the exception the closing of the response delays
  delay,      \* the pause before the next attempt
  seen,       \* seen[n]: the answer whose headers the n-th attempt received
  outcome,    \* how the event method ended
  inFlight,   \* copies that may still reach the server
  answers     \* answers[n]: what the server answered to the n-th copy

attemptVars == <<written, deadline, response, length, broken, unwinding>>
networkVars == <<inFlight, answers>>
vars == <<style, cancel, open, pc, attempts, written, deadline, response, length, broken,
          unwinding, delay, seen, outcome, inFlight, answers>>

MaximumAttempts == RetryCount + 1
AttemptNumbers  == 1 .. MaximumAttempts
NoAnswer        == [status |-> 0, retryAfter |-> Absent]

Init ==
  /\ style \in {"edge", "level"}
  /\ cancel = "none"
  /\ open = TRUE
  /\ pc = "idle"
  /\ attempts = 0
  /\ written = FALSE
  /\ deadline = "off"
  /\ response = "none"
  /\ length = 0
  /\ broken = FALSE
  /\ unwinding = "none"
  /\ delay = 0
  /\ seen = [n \in AttemptNumbers |-> NoAnswer]
  /\ outcome = "pending"
  /\ inFlight = {}
  /\ answers = [n \in AttemptNumbers |-> NoAnswer]

-----------------------------------------------------------------------------
(* Pieces of the task's steps.                                             *)

\* What the task awaited has happened and it goes on: Task.cancel() would have
\* thrown there instead.
Resumes == ~(style = "edge" /\ cancel = "requested")

Return(kind) ==
  /\ pc' = "returned"
  /\ outcome' = kind

StartAttempt(n) ==
  /\ attempts' = n
  /\ delay' = 0
  /\ length' = 0
  /\ broken' = FALSE
  /\ written' = FALSE
  /\ response' = "none"
  /\ unwinding' = "none"
  /\ IF open
     THEN pc' = "sending" /\ deadline' = "armed" /\ UNCHANGED outcome
     ELSE Return("closed") /\ deadline' = "off"
  /\ UNCHANGED <<style, cancel, open, seen, networkVars>>

Sleep(requested) ==
  /\ pc' = "sleeping"
  /\ delay' \in { PythonRetryDelay(requested, jitter) :
                    jitter \in 0 .. PythonDelayBound(attempts) }
  /\ UNCHANGED outcome

\* httpx.TransportError instead of a response: also a deadline that passed before
\* the headers came.
OnTransportError ==
  /\ deadline' = "off"
  /\ IF attempts > RetryCount
     THEN Return("transport") /\ UNCHANGED delay
     ELSE Sleep(Absent)
  /\ UNCHANGED <<style, cancel, open, attempts, written, response, length, broken,
                 unwinding, seen, networkVars>>

\* Mutant: aclose() without the shield is cut off by the exception itself.
CloseResponseUnshielded(bytes, failed, exception) ==
  /\ pc' = "closing"
  /\ length' = bytes
  /\ broken' = failed
  /\ unwinding' = exception
  /\ response' = IF exception = "none" THEN response ELSE "interrupted"
  /\ UNCHANGED <<style, open, attempts, written, deadline, delay, seen, outcome,
                 networkVars>>

\* The finally block: aclose() of the response, with the exception that led there.
CloseResponse(bytes, failed, exception) ==
  /\ pc' = "closing"
  /\ length' = bytes
  /\ broken' = failed
  /\ unwinding' = exception
  /\ UNCHANGED <<style, open, attempts, written, deadline, response, delay, seen,
                 outcome, networkVars>>

-----------------------------------------------------------------------------
(* Steps of the task.                                                      *)

\* An event method up to its first await; valid says whether build_body accepts
\* the event.
Call(valid) ==
  /\ pc = "idle"
  /\ Resumes
  /\ IF valid
     THEN StartAttempt(1)
     ELSE /\ Return("validation")
          /\ UNCHANGED <<style, cancel, open, attempts, attemptVars, delay, seen,
                         networkVars>>

HeadersArrive ==
  /\ pc = "sending"
  /\ Resumes
  /\ answers[attempts] # NoAnswer
  /\ pc' = "reading"
  /\ response' = "open"
  /\ seen' = [seen EXCEPT ![attempts] = answers[attempts]]
  /\ UNCHANGED <<style, cancel, open, attempts, written, deadline, length, broken,
                 unwinding, delay, outcome, networkVars>>

\* One chunk of aiter_bytes; an oversized body ends the reading.
ReadChunk(chunk) ==
  LET bytes == Append(length, chunk) IN
  /\ pc = "reading"
  /\ Resumes
  /\ chunk <= seen[attempts].body.size - length
  /\ IF HasRoom(bytes)
     THEN /\ length' = bytes
          /\ UNCHANGED <<style, cancel, open, pc, attempts, written, deadline, response,
                         broken, unwinding, delay, seen, outcome, networkVars>>
     ELSE CloseResponse(bytes, FALSE, "none") /\ UNCHANGED cancel

BodyEnds ==
  /\ pc = "reading"
  /\ Resumes
  /\ length = seen[attempts].body.size
  /\ CloseResponse(length, FALSE, "none")
  /\ UNCHANGED cancel

\* Refused, reset and truncated connections and httpx's own timeouts.
ConnectionFails ==
  /\ Resumes
  /\ \/ pc = "sending" /\ OnTransportError
     \/ pc = "reading" /\ CloseResponse(length, TRUE, "none") /\ UNCHANGED cancel

\* Mutant: a body that is cut off by the deadline is a transport error.
DeadlineInterruptsRetrying ==
  /\ deadline = "expired"
  /\ Resumes
  /\ pc \in {"sending", "reading"}
  /\ OnTransportError

\* The move_on_after scope has expired and throws where the attempt waits.
DeadlineInterrupts ==
  /\ deadline = "expired"
  /\ Resumes
  /\ \/ pc = "sending" /\ OnTransportError
     \/ pc = "reading" /\ CloseResponse(length, FALSE, "deadline") /\ UNCHANGED cancel

\* Mutant: a cancelled request is retried like a failed one.
CancellationInterruptsRetrying ==
  /\ cancel = "requested"
  /\ \/ pc = "sending" /\ OnTransportError
     \/ pc = "sleeping" /\ Return("cancelled")
        /\ UNCHANGED <<style, cancel, open, attempts, attemptVars, delay, seen, networkVars>>

\* The task's cancellation throws where the task waits, and neither client nor
\* scope catches it.
CancellationInterrupts ==
  /\ cancel = "requested"
  /\ cancel' = "delivered"
  /\ \/ /\ pc = "reading"
        /\ CloseResponse(length, FALSE, "cancellation")
     \/ /\ \/ pc \in {"sending", "sleeping"}
           \/ pc \in {"idle", "closing"} /\ style = "edge"
        /\ Return("cancelled")
        /\ deadline' = "off"
        /\ response' = IF pc = "closing" THEN "interrupted" ELSE response
        /\ UNCHANGED <<style, open, attempts, written, length, broken, unwinding, delay,
                       seen, networkVars>>

\* Mutant: the failure of a body cut off by the deadline is not recorded.
BodyFailedForgetting == broken

\* What received() is told of the body: a scope that caught its own expiry is one
\* more way to fail.
BodyFailed == broken \/ unwinding = "deadline"

\* A cancellation of the task goes on after aclose(), and takes precedence over the
\* scope's own.
CancellationGoesOn ==
  \/ unwinding = "cancellation"
  \/ unwinding = "deadline" /\ cancel = "requested"

\* aclose() is done and the scope is left; then the response is retried by its
\* status or decoded.
ResponseClosed ==
  LET answer == seen[attempts] IN
  /\ pc = "closing"
  /\ Resumes
  /\ response' = IF response = "open" THEN "closed" ELSE response
  /\ deadline' = "off"
  /\ broken' = BodyFailed
  /\ IF CancellationGoesOn
     THEN Return("cancelled") /\ cancel' = "delivered" /\ UNCHANGED delay
     ELSE /\ UNCHANGED cancel
          /\ IF /\ answer.status \in RetryableStatuses
                /\ attempts <= RetryCount
                /\ RetryAfterAllowed(answer.retryAfter)
             THEN Sleep(answer.retryAfter)
             ELSE /\ Return(Decode(Received(answer, length, BodyFailed)).kind)
                  /\ UNCHANGED delay
  /\ UNCHANGED <<style, open, attempts, written, length, unwinding, seen, networkVars>>

WakeUp ==
  /\ pc = "sleeping"
  /\ Resumes
  /\ StartAttempt(attempts + 1)

-----------------------------------------------------------------------------
(* The event loop's clock, other tasks, httpx and the server.              *)

Cancel ==
  /\ cancel = "none"
  /\ pc # "returned"
  /\ cancel' = "requested"
  /\ UNCHANGED <<style, open, pc, attempts, attemptVars, delay, seen, outcome, networkVars>>

\* aclose() of a client that owns its pool, by another task.
Close ==
  /\ open
  /\ open' = FALSE
  /\ UNCHANGED <<style, cancel, pc, attempts, attemptVars, delay, seen, outcome,
                 networkVars>>

\* Mutant: the scope ends when the headers arrive.
DeadlineExpiresBeforeHeaders ==
  /\ deadline = "armed"
  /\ pc = "sending"
  /\ deadline' = "expired"
  /\ UNCHANGED <<style, cancel, open, pc, attempts, written, response, length, broken,
                 unwinding, delay, seen, outcome, networkVars>>

DeadlineExpires ==
  /\ deadline = "armed"
  /\ deadline' = "expired"
  /\ UNCHANGED <<style, cancel, open, pc, attempts, written, response, length, broken,
                 unwinding, delay, seen, outcome, networkVars>>

\* Getting a connection and writing to it await, so nothing leaves a cancelled task.
CopyWritten ==
  /\ pc = "sending"
  /\ ~written
  /\ cancel = "none"
  /\ written' = TRUE
  /\ inFlight' = inFlight \cup {attempts}
  /\ UNCHANGED <<style, cancel, open, pc, attempts, deadline, response, length, broken,
                 unwinding, delay, seen, outcome, answers>>

ServerAnswers(n, answer) ==
  /\ n \in inFlight
  /\ inFlight' = inFlight \ {n}
  /\ answers' = [answers EXCEPT ![n] = answer]
  /\ UNCHANGED <<style, cancel, open, pc, attempts, attemptVars, delay, seen, outcome>>

CopyLost(n) ==
  /\ n \in inFlight
  /\ inFlight' = inFlight \ {n}
  /\ UNCHANGED <<style, cancel, open, pc, attempts, attemptVars, delay, seen, outcome,
                 answers>>

-----------------------------------------------------------------------------
Network ==
  \/ CopyWritten
  \/ HeadersArrive
  \/ \E chunk \in 1 .. MaxResponseBytes + 1 : ReadChunk(chunk)
  \/ BodyEnds
  \/ ConnectionFails
  \/ \E n \in AttemptNumbers, answer \in Answers : ServerAnswers(n, answer)
  \/ \E n \in AttemptNumbers : CopyLost(n)

Next ==
  \/ \E valid \in BOOLEAN : Call(valid)
  \/ ResponseClosed
  \/ WakeUp
  \/ CancellationInterrupts
  \/ DeadlineInterrupts
  \/ DeadlineExpires
  \/ Cancel
  \/ Close
  \/ Network

Spec == Init /\ [][Next]_vars

\* A task that can go on does, deadlines and sleeps end, a cancellation is delivered
\* and aclose(), which waits for no peer, ends; nothing is assumed of network,
\* server and other tasks.
FairSpec ==
  /\ Spec
  /\ WF_vars(ResponseClosed)
  /\ WF_vars(WakeUp)
  /\ WF_vars(CancellationInterrupts)
  /\ WF_vars(DeadlineInterrupts)
  /\ WF_vars(DeadlineExpires)

-----------------------------------------------------------------------------
(* Properties.                                                             *)

\* Outside an attempt its response is closed, whichever exception ended the attempt;
\* only Task.cancel() at the very moment of the closing can interrupt it, and then the
\* call ends with that cancellation.
ResponseReleased ==
  pc \notin {"reading", "closing"} =>
    \/ response \in {"none", "closed"}
    \/ style = "edge" /\ response = "interrupted" /\ outcome = "cancelled"

\* As for the synchronous client: an acknowledgement is one whose body was received
\* whole, not one that the deadline cut off after a complete JSON text.
AcknowledgedInFull ==
  outcome \in {"ack", "decode"} =>
    LET body == seen[attempts].body IN
      outcome = "ack" <=> /\ ~broken
                          /\ unwinding = "none"
                          /\ length = body.size
                          /\ body.size <= MaxResponseBytes
                          /\ body.kind = "ack"

\* Once the task is cancelled no copy leaves, and under Task.cancel() the call ends
\* with the native cancellation and with nothing else.
CancellationIsFinal ==
  [][ cancel # "none" =>
        /\ inFlight' \subseteq inFlight
        /\ style = "edge" /\ pc' = "returned" /\ pc # "returned" =>
             outcome' = "cancelled" ]_vars

\* Every event method ends: the scope covers the request, the headers and the body.
EveryCallReturns == (pc = "sending") ~> (pc = "returned")

\* The asynchronous Python client sends, retries and settles as all SDKs promise of a
\* call.  One that finds the httpx.AsyncClient closed raises httpx's RuntimeError, which is
\* none of the promised outcomes: to the contract it sends nothing more and stays
\* unsettled (the synchronous client's FailuresAreSdkErrors).
Contract == INSTANCE EventDelivery WITH
  sent    <- IF outcome = "closed" THEN attempts - 1 ELSE attempts,
  outcome <- CASE outcome = "closed"    -> "pending"
               [] outcome = "cancelled" -> "abort"
               [] OTHER                 -> outcome
ImplementsContract == Contract!Spec
=============================================================================
