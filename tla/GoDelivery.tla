----------------------------- MODULE GoDelivery -----------------------------
(***************************************************************************)
(* One call of the Go client: track, deliver and doAttempt (go/client.go)  *)
(* with decodeResponse (go/response.go) and defaultSleep (go/retry.go).    *)
(* The call runs in the caller's goroutine; another one may cancel the     *)
(* context at any moment.  net/http learns of a cancelled context on its   *)
(* own: an answer or a body that is already there may still win.           *)
(***************************************************************************)
EXTENDS RetryPolicy

CONSTANTS
  RetryCount,   \* WithRetryCount
  Answers       \* what the server may answer: [status, retryAfter]

ASSUME DeliveryAssumption ==
  /\ RetryCount \in Nat
  /\ Answers \subseteq [status : 100 .. 599, retryAfter : Nat \cup {Absent}]

VARIABLES
  cancelled,  \* ctx.Err() # nil
  pc,         \* the blocking call the goroutine is in
  attempts,   \* deliver's loop counter; every attempt sends one copy
  deadline,   \* the timeout of the attempt's own context
  exchange,   \* what Do() returns
  stream,     \* response.Body
  timer,      \* the timer of the sleep
  delay,      \* the length of the sleep
  seen,       \* seen[n]: the answer Do() returned for the n-th attempt
  outcome,    \* what the event method returned
  inFlight,   \* copies that may still reach the server
  answers     \* answers[n]: what the server answered to the n-th copy

attemptVars == <<deadline, exchange, stream>>
sleepVars   == <<timer, delay>>
networkVars == <<inFlight, answers>>
vars == <<cancelled, pc, attempts, deadline, exchange, stream, timer, delay,
          seen, outcome, inFlight, answers>>

MaximumAttempts == RetryCount + 1
AttemptNumbers  == 1 .. MaximumAttempts
NoAnswer        == [status |-> 0, retryAfter |-> Absent]
Timers          == {"off", "armed", "fired"}

TypeOK ==
  /\ cancelled \in BOOLEAN
  /\ pc \in {"idle", "sending", "reading", "sleeping", "returned"}
  /\ attempts \in 0 .. MaximumAttempts
  /\ deadline \in Timers
  /\ exchange \in {"none", "pending", "response", "error"}
  /\ stream \in {"none", "streaming", "valid", "invalid", "oversized", "broken", "closed"}
  /\ timer \in Timers
  /\ delay \in Nat
  /\ seen \in [AttemptNumbers -> Answers \cup {NoAnswer}]
  /\ outcome \in {"pending", "ack", "decode", "auth", "notFound", "api",
                  "transport", "abort", "validation"}
  /\ inFlight \subseteq AttemptNumbers
  /\ answers \in [AttemptNumbers -> Answers \cup {NoAnswer}]

Init ==
  /\ cancelled \in BOOLEAN
  /\ pc = "idle"
  /\ attempts = 0
  /\ deadline = "off"
  /\ exchange = "none"
  /\ stream = "none"
  /\ timer = "off"
  /\ delay = 0
  /\ seen = [n \in AttemptNumbers |-> NoAnswer]
  /\ outcome = "pending"
  /\ inFlight = {}
  /\ answers = [n \in AttemptNumbers |-> NoAnswer]

-----------------------------------------------------------------------------
(* Pieces of the goroutine's steps.                                        *)

\* The deferred calls of doAttempt: cancel() and response.Body.Close().
EndAttempt ==
  /\ deadline' = "off"
  /\ exchange' = "none"
  /\ stream' = IF stream = "none" THEN "none" ELSE "closed"

Return(kind) ==
  /\ pc' = "returned"
  /\ outcome' = kind
  /\ timer' = "off"
  /\ UNCHANGED <<cancelled, attempts, delay, seen, networkVars>>

\* The top of the loop and Do(): nothing leaves under a cancelled context.
StartAttempt(n) ==
  /\ pc' = "sending"
  /\ attempts' = n
  /\ deadline' = "armed"
  /\ exchange' = "pending"
  /\ stream' = "none"
  /\ timer' = "off"
  /\ delay' = 0
  /\ inFlight' = inFlight \cup {n}
  /\ UNCHANGED <<cancelled, seen, outcome, answers>>

\* Mutant: the sleep forgets what the server asked for.
SleepJitterOnly(requested) ==
  /\ pc' = "sleeping"
  /\ timer' = "armed"
  /\ delay' \in 0 .. GoDelayBound(attempts)
  /\ UNCHANGED <<cancelled, attempts, seen, outcome, networkVars>>

\* The jitter, raised to what the server asked for, and the start of the sleep.
Sleep(requested) ==
  /\ pc' = "sleeping"
  /\ timer' = "armed"
  /\ \E jitter \in 0 .. GoDelayBound(attempts) :
       delay' = IF requested # Absent /\ requested > jitter THEN requested ELSE jitter
  /\ UNCHANGED <<cancelled, attempts, seen, outcome, networkVars>>

\* decodeResponse: what the status and the bounded body of a response stand for.
Decode(status) ==
  CASE status = 200 /\ stream = "valid" -> "ack"
    [] status = 200 /\ stream # "valid" -> "decode"
    [] status = 401                     -> "auth"
    [] status = 404                     -> "notFound"
    [] OTHER                            -> "api"

-----------------------------------------------------------------------------
(* Steps of the goroutine.                                                 *)

\* An event method up to the first Do(); valid says whether buildPayload and
\* json.Marshal accept the event.
Track(valid) ==
  /\ pc = "idle"
  /\ IF ~valid
     THEN Return("validation") /\ UNCHANGED attemptVars
     ELSE IF cancelled
          THEN Return("abort") /\ UNCHANGED attemptVars
          ELSE StartAttempt(1)

\* Mutant: the last attempt's failure is retried once more.
OnErrorOneMore ==
  /\ pc = "sending"
  /\ exchange = "error"
  /\ EndAttempt
  /\ IF cancelled
     THEN Return("abort")
     ELSE IF attempts > MaximumAttempts
          THEN Return("transport")
          ELSE Sleep(Absent)

\* Do() failed.
OnError ==
  /\ pc = "sending"
  /\ exchange = "error"
  /\ EndAttempt
  /\ IF cancelled
     THEN Return("abort")
     ELSE IF attempts = MaximumAttempts
          THEN Return("transport")
          ELSE Sleep(Absent)

\* Mutant: the attempt's timeout ends when the headers arrive.
OnResponseStoppingDeadline ==
  /\ pc = "sending"
  /\ exchange = "response"
  /\ pc' = "reading"
  /\ deadline' = "off"
  /\ UNCHANGED <<cancelled, attempts, exchange, stream, sleepVars, seen, outcome, networkVars>>

\* Do() returned a response, whose body is read whatever its status.
OnResponse ==
  /\ pc = "sending"
  /\ exchange = "response"
  /\ pc' = "reading"
  /\ UNCHANGED <<cancelled, attempts, attemptVars, sleepVars, seen, outcome, networkVars>>

\* Mutant: a 200 with an unreadable body counts as a transport failure.
OnBodyReadRetryingBrokenBody ==
  LET answer == seen[attempts]
      kind   == Decode(answer.status)
      retry  == answer.status \in RetryableStatuses \/ stream = "broken"
  IN
  /\ pc = "reading"
  /\ stream # "streaming"
  /\ EndAttempt
  /\ IF kind = "ack"
     THEN Return("ack")
     ELSE IF cancelled
          THEN Return("abort")
          ELSE IF ~retry \/ attempts = MaximumAttempts \/ ~RetryAfterAllowed(answer.retryAfter)
               THEN Return(kind)
               ELSE Sleep(answer.retryAfter)

\* Mutant: the body of a response that will be retried is not closed.
OnBodyReadLeaking ==
  LET answer == seen[attempts]
      kind   == Decode(answer.status)
  IN
  /\ pc = "reading"
  /\ stream # "streaming"
  /\ IF kind = "ack"
     THEN EndAttempt /\ Return("ack")
     ELSE IF cancelled
          THEN EndAttempt /\ Return("abort")
          ELSE IF \/ answer.status \notin RetryableStatuses
                  \/ attempts = MaximumAttempts
                  \/ ~RetryAfterAllowed(answer.retryAfter)
               THEN EndAttempt /\ Return(kind)
               ELSE UNCHANGED attemptVars /\ Sleep(answer.retryAfter)

\* The bounded body was read, or reading failed.  An acknowledgement wins over a
\* cancelled context, a classified error does not; the status alone decides about
\* a retry.
OnBodyRead ==
  LET answer == seen[attempts]
      kind   == Decode(answer.status)
  IN
  /\ pc = "reading"
  /\ stream # "streaming"
  /\ EndAttempt
  /\ IF kind = "ack"
     THEN Return("ack")
     ELSE IF cancelled
          THEN Return("abort")
          ELSE IF \/ answer.status \notin RetryableStatuses
                  \/ attempts = MaximumAttempts
                  \/ ~RetryAfterAllowed(answer.retryAfter)
               THEN Return(kind)
               ELSE Sleep(answer.retryAfter)

\* Mutant: the loop does not look at the context again after the sleep.
OnWakeUpIgnoringContext ==
  /\ pc = "sleeping"
  /\ IF timer = "fired"
     THEN StartAttempt(attempts + 1)
     ELSE /\ cancelled
          /\ Return("abort") /\ UNCHANGED attemptVars

\* The sleep returned: select may pick either of a fired timer and a cancelled
\* context, and the loop looks at the context again.
OnWakeUp ==
  /\ pc = "sleeping"
  /\ timer = "fired" \/ cancelled
  /\ IF cancelled
     THEN Return("abort") /\ UNCHANGED attemptVars
     ELSE StartAttempt(attempts + 1)

-----------------------------------------------------------------------------
(* The caller's context, timers, net/http and the server.                  *)

Cancel ==
  /\ ~cancelled
  /\ pc # "returned"
  /\ cancelled' = TRUE
  /\ UNCHANGED <<pc, attempts, attemptVars, sleepVars, seen, outcome, networkVars>>

DeadlineExpires ==
  /\ deadline = "armed"
  /\ deadline' = "fired"
  /\ UNCHANGED <<cancelled, pc, attempts, exchange, stream, sleepVars, seen, outcome,
                 networkVars>>

SleepEnds ==
  /\ timer = "armed"
  /\ timer' = "fired"
  /\ UNCHANGED <<cancelled, pc, attempts, attemptVars, delay, seen, outcome, networkVars>>

\* net/http notices that the attempt's context is done.
ContextInterrupts ==
  /\ cancelled \/ deadline = "fired"
  /\ \/ exchange = "pending" /\ exchange' = "error" /\ UNCHANGED stream
     \/ stream = "streaming" /\ stream' = "broken" /\ UNCHANGED exchange
  /\ UNCHANGED <<cancelled, pc, attempts, deadline, sleepVars, seen, outcome, networkVars>>

ConnectionFails ==
  /\ \/ exchange = "pending" /\ exchange' = "error" /\ UNCHANGED stream
     \/ stream = "streaming" /\ stream' = "broken" /\ UNCHANGED exchange
  /\ UNCHANGED <<cancelled, pc, attempts, deadline, sleepVars, seen, outcome, networkVars>>

ResponseArrives ==
  /\ exchange = "pending"
  /\ answers[attempts] # NoAnswer
  /\ exchange' = "response"
  /\ stream' = "streaming"
  /\ seen' = [seen EXCEPT ![attempts] = answers[attempts]]
  /\ UNCHANGED <<cancelled, pc, attempts, deadline, sleepVars, outcome, networkVars>>

\* readBoundedBody reached the end of the body, or the byte past its bound.
BodyArrives(kind) ==
  /\ pc = "reading"
  /\ stream = "streaming"
  /\ stream' = kind
  /\ UNCHANGED <<cancelled, pc, attempts, deadline, exchange, sleepVars, seen, outcome,
                 networkVars>>

ServerAnswers(n, answer) ==
  /\ n \in inFlight
  /\ inFlight' = inFlight \ {n}
  /\ answers' = [answers EXCEPT ![n] = answer]
  /\ UNCHANGED <<cancelled, pc, attempts, attemptVars, sleepVars, seen, outcome>>

CopyLost(n) ==
  /\ n \in inFlight
  /\ inFlight' = inFlight \ {n}
  /\ UNCHANGED <<cancelled, pc, attempts, attemptVars, sleepVars, seen, outcome, answers>>

-----------------------------------------------------------------------------
Goroutine ==
  OnError \/ OnResponse \/ OnBodyRead \/ OnWakeUp

Network ==
  \/ ConnectionFails
  \/ ResponseArrives
  \/ \E kind \in {"valid", "invalid", "oversized"} : BodyArrives(kind)
  \/ \E n \in AttemptNumbers, answer \in Answers : ServerAnswers(n, answer)
  \/ \E n \in AttemptNumbers : CopyLost(n)

Next ==
  \/ \E valid \in BOOLEAN : Track(valid)
  \/ Goroutine
  \/ Cancel
  \/ DeadlineExpires
  \/ SleepEnds
  \/ ContextInterrupts
  \/ Network

Spec == Init /\ [][Next]_vars

\* A goroutine that can run does, timers fire, and a done context interrupts what
\* net/http waits for; nothing is assumed of network, server and caller.
FairSpec ==
  /\ Spec
  /\ WF_vars(Goroutine)
  /\ WF_vars(DeadlineExpires)
  /\ WF_vars(SleepEnds)
  /\ WF_vars(ContextInterrupts)

-----------------------------------------------------------------------------
(* Properties.                                                             *)

\* While the call sleeps, the sleep honours the server's Retry-After, stays within
\* the jitter bound otherwise, and an attempt is left.
PauseHonoursServer ==
  pc = "sleeping" =>
    LET requested == OrZero(seen[attempts].retryAfter) IN
      /\ delay >= requested
      /\ delay <= Larger(GoDelayBound(attempts), requested)
      /\ requested <= MaximumRetryAfter
      /\ attempts < MaximumAttempts

\* Outside an attempt its context is cancelled and its body closed, on every path,
\* so that neither timers nor connections pile up in a long-running process.
AttemptReleased ==
  pc \in {"sleeping", "returned"} =>
    /\ deadline = "off"
    /\ stream \in {"none", "closed"}
    /\ pc = "returned" => timer # "armed"

\* Once the caller's context is done no copy leaves, and the event method returns
\* the context's error, unless the event is invalid or was acknowledged.
CancellationIsReported ==
  [][ cancelled =>
        /\ attempts' = attempts
        /\ pc' = "returned" /\ pc # "returned" =>
             outcome' \in {"abort", "ack", "validation"} ]_vars

\* Every event method returns: the attempt's context covers headers and body.
EveryCallReturns == (pc = "sending") ~> (pc = "returned")

\* The Go client does what all SDKs promise of a call.
Contract == INSTANCE EventDelivery WITH sent <- attempts
ImplementsContract == Contract!Spec
=============================================================================
