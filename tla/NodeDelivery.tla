---------------------------- MODULE NodeDelivery ----------------------------
(***************************************************************************)
(* One call of the Node/Bun client: Client.track builds the payload, and   *)
(* deliver() sends it with retries (node/src/node/client.ts, delivery.ts,  *)
(* body.ts).  JavaScript runs to the next await, so an action of the SDK   *)
(* is everything between two awaits; between two of them the caller may    *)
(* abort its signal or change its event object, timers may fire, and the   *)
(* network and the ingest server act.  A copy of the request that the      *)
(* client gave up on may still reach the server.                           *)
(***************************************************************************)
EXTENDS RetryPolicy, Sequences

CONSTANTS
  RetryCount,   \* the client's retryCount option
  Events,       \* the events a caller may submit
  Malformed,    \* an event that buildPayload refuses
  Answers       \* what the server may answer: [status, retryAfter]

ASSUME DeliveryAssumption ==
  /\ RetryCount \in Nat
  /\ Malformed \notin Events
  /\ Answers \subseteq [status : 100 .. 599, retryAfter : Nat \cup {Absent}]

VARIABLES
  \* the caller
  event,      \* the event object it passed, which it may change afterwards
  aborted,    \* options.signal.aborted
  \* deliver() and attempt()
  phase,      \* the await the call is suspended at
  body,       \* the serialized payload
  attempts,   \* the loop counter
  timer,      \* the attempt's timeout is armed
  listener,   \* the call listens to the caller's signal
  fetch,      \* the promise of fetch()
  stream,     \* the body of the current response
  pause,      \* the timer of the backoff
  delay,      \* the length of the backoff
  seen,       \* seen[n]: the answer fetch() resolved the n-th attempt with
  outcome,    \* how the call settled, and the attempts it reports
  \* network and server
  copies,     \* the bodies sent so far, one per attempt
  inFlight,   \* copies that may still reach the server
  answers     \* answers[n]: what the server answered to the n-th copy

callerVars  == <<event, aborted>>
attemptVars == <<timer, listener, fetch, stream>>
backoffVars == <<pause, delay>>
networkVars == <<copies, inFlight, answers>>
vars == <<event, aborted, phase, body, attempts, timer, listener, fetch,
          stream, pause, delay, seen, outcome, copies, inFlight, answers>>

MaximumAttempts == RetryCount + 1
AttemptNumbers  == 1 .. MaximumAttempts
NoAnswer        == [status |-> 0, retryAfter |-> Absent]
Phases   == {"idle", "fetching", "reading", "cancelling", "sleeping", "settled"}
Promises == {"idle", "pending", "resolved", "rejected"}
Streams  == {"none", "streaming", "valid", "invalid", "oversized", "broken", "cancelled"}
Kinds    == {"pending", "ack", "decode", "auth", "notFound", "api",
             "transport", "abort", "validation"}

TypeOK ==
  /\ event \in Events \cup {Malformed}
  /\ aborted \in BOOLEAN
  /\ phase \in Phases
  /\ body \in Events \cup {Malformed}
  /\ attempts \in 0 .. MaximumAttempts
  /\ timer \in BOOLEAN
  /\ listener \in BOOLEAN
  /\ fetch \in Promises
  /\ stream \in Streams
  /\ pause \in {"off", "armed", "elapsed"}
  /\ delay \in Nat
  /\ seen \in [AttemptNumbers -> Answers \cup {NoAnswer}]
  /\ outcome \in [kind : Kinds, attempts : 0 .. MaximumAttempts]
  /\ copies \in Seq(Events)
  /\ inFlight \subseteq AttemptNumbers
  /\ answers \in [AttemptNumbers -> Answers \cup {NoAnswer}]

Init ==
  /\ event \in Events \cup {Malformed}
  /\ aborted \in BOOLEAN
  /\ phase = "idle"
  /\ body = Malformed
  /\ attempts = 0
  /\ timer = FALSE
  /\ listener = FALSE
  /\ fetch = "idle"
  /\ stream = "none"
  /\ pause = "off"
  /\ delay = 0
  /\ seen = [n \in AttemptNumbers |-> NoAnswer]
  /\ outcome = [kind |-> "pending", attempts |-> 0]
  /\ copies = <<>>
  /\ inFlight = {}
  /\ answers = [n \in AttemptNumbers |-> NoAnswer]

-----------------------------------------------------------------------------
(* Pieces of the SDK's steps.                                              *)

\* The promise of the call settles; every exit of attempt() and of the pause
\* has cleared its timer and removed its listener by then.
Settle(kind, reported) ==
  /\ phase' = "settled"
  /\ outcome' = [kind |-> kind, attempts |-> reported]
  /\ timer' = FALSE
  /\ listener' = FALSE
  /\ pause' = "off"
  /\ UNCHANGED <<attempts, fetch, delay, seen, networkVars>>

\* Mutant: every attempt serializes the caller's object again.
StartAttemptReserializing(n, payload) ==
  /\ attempts' = n
  /\ phase' = "fetching"
  /\ timer' = TRUE
  /\ listener' = TRUE
  /\ fetch' = "pending"
  /\ stream' = "none"
  /\ pause' = "off"
  /\ delay' = 0
  /\ copies' = Append(copies, event)
  /\ inFlight' = inFlight \cup {n}
  /\ UNCHANGED <<seen, outcome, answers>>

\* The loop body up to fetch(): a fresh controller and timer, and the same
\* serialized body as before.
StartAttempt(n, payload) ==
  /\ attempts' = n
  /\ phase' = "fetching"
  /\ timer' = TRUE
  /\ listener' = TRUE
  /\ fetch' = "pending"
  /\ stream' = "none"
  /\ pause' = "off"
  /\ delay' = 0
  /\ copies' = Append(copies, payload)
  /\ inFlight' = inFlight \cup {n}
  /\ UNCHANGED <<seen, outcome, answers>>

\* Mutant: the pause forgets the server's request.
BackoffJitterOnly(requested) ==
  /\ phase' = "sleeping"
  /\ timer' = FALSE
  /\ listener' = TRUE
  /\ pause' = "armed"
  /\ delay' \in 0 .. NodeDelayBound(attempts)
  /\ UNCHANGED <<attempts, fetch, seen, outcome, networkVars>>

\* Mutant: the pause is a plain setTimeout that no abort reaches.
BackoffDeaf(requested) ==
  /\ phase' = "sleeping"
  /\ timer' = FALSE
  /\ listener' = FALSE
  /\ pause' = "armed"
  /\ \E jitter \in 0 .. NodeDelayBound(attempts) :
       delay' = Larger(jitter, OrZero(requested))
  /\ UNCHANGED <<attempts, fetch, seen, outcome, networkVars>>

\* The finally of attempt(), then backoff(): full jitter, raised to what the
\* server asked for.
Backoff(requested) ==
  /\ phase' = "sleeping"
  /\ timer' = FALSE
  /\ listener' = TRUE
  /\ pause' = "armed"
  /\ \E jitter \in 0 .. NodeDelayBound(attempts) :
       delay' = Larger(jitter, OrZero(requested))
  /\ UNCHANGED <<attempts, fetch, seen, outcome, networkVars>>

\* The attempt's controller aborts: a pending fetch rejects, and so does a read
\* of the body that is not complete.
AbortAttempt ==
  /\ fetch' = IF fetch = "pending" THEN "rejected" ELSE fetch
  /\ stream' = IF stream = "streaming" THEN "broken" ELSE stream

StatusKind(status) ==
  CASE status = 401 -> "auth"
    [] status = 404 -> "notFound"
    [] OTHER        -> "api"

\* Mutant: a 200 with an unusable body is an ordinary HTTP error.
ClassifyUnusableAsApiError(status) ==
  IF status = 200 /\ stream = "valid" THEN "ack" ELSE StatusKind(status)

\* classifyResponse: the result the body and the status of a response stand for.
Classify(status) ==
  CASE status = 200 /\ stream = "valid" -> "ack"
    [] status = 200 /\ stream # "valid" -> "decode"
    [] OTHER                            -> StatusKind(status)

\* Mutant: the last attempt is retried too.
WillRetryPastTheEnd(answer) ==
  answer.status \in RetryableStatuses /\ RetryAfterAllowed(answer.retryAfter)

\* Mutant: the loop gives the last attempt away.
WillRetryOneLess(answer) ==
  /\ answer.status \in RetryableStatuses
  /\ attempts + 1 < MaximumAttempts
  /\ RetryAfterAllowed(answer.retryAfter)

\* The response can be given up for another attempt.
WillRetry(answer) ==
  /\ answer.status \in RetryableStatuses
  /\ attempts # MaximumAttempts
  /\ RetryAfterAllowed(answer.retryAfter)

-----------------------------------------------------------------------------
(* Steps of the SDK.                                                       *)

\* An event method of the client, up to its first await.
Call ==
  /\ phase = "idle"
  /\ IF event = Malformed
     THEN Settle("validation", 0) /\ UNCHANGED <<body, stream>>
     ELSE /\ body' = event
          /\ IF aborted
             THEN Settle("abort", 0) /\ UNCHANGED stream
             ELSE StartAttempt(1, event)
  /\ UNCHANGED callerVars

\* Mutant: transport failures are retried once less than the option says.
OnFetchRejectedOneLess ==
  /\ phase = "fetching"
  /\ fetch = "rejected"
  /\ IF aborted
     THEN Settle("abort", 0)
     ELSE IF attempts >= RetryCount
          THEN Settle("transport", attempts)
          ELSE Backoff(Absent)
  /\ UNCHANGED <<callerVars, body, stream>>

\* fetch() rejected: a connection failure, the timeout or the caller's abort.
OnFetchRejected ==
  /\ phase = "fetching"
  /\ fetch = "rejected"
  /\ IF aborted
     THEN Settle("abort", 0)
     ELSE IF attempts = MaximumAttempts
          THEN Settle("transport", attempts)
          ELSE Backoff(Absent)
  /\ UNCHANGED <<callerVars, body, stream>>

\* Mutant: the timeout is cleared as soon as the headers are there.
OnResponseClearingTimer ==
  /\ phase = "fetching"
  /\ fetch = "resolved"
  /\ IF aborted
     THEN Settle("abort", 0)
     ELSE /\ phase' = IF WillRetry(seen[attempts]) THEN "cancelling" ELSE "reading"
          /\ timer' = FALSE
          /\ UNCHANGED <<attempts, listener, fetch, backoffVars, seen, outcome,
                         networkVars>>
  /\ UNCHANGED <<callerVars, body, stream>>

\* fetch() resolved: the status alone decides whether the body is read.
OnResponse ==
  /\ phase = "fetching"
  /\ fetch = "resolved"
  /\ IF aborted
     THEN Settle("abort", 0)
     ELSE /\ phase' = IF WillRetry(seen[attempts]) THEN "cancelling" ELSE "reading"
          /\ UNCHANGED <<attempts, timer, listener, fetch, backoffVars, seen,
                         outcome, networkVars>>
  /\ UNCHANGED <<callerVars, body, stream>>

\* Mutant: a retry abandons the body of the response it replaces.
OnBodyAbandoned ==
  /\ phase = "cancelling"
  /\ UNCHANGED stream
  /\ IF aborted
     THEN Settle("abort", 0)
     ELSE Backoff(seen[attempts].retryAfter)
  /\ UNCHANGED <<callerVars, body>>

\* cancelBody() returned; its failures are swallowed.
OnBodyCancelled ==
  /\ phase = "cancelling"
  /\ stream' = "cancelled"
  /\ IF aborted
     THEN Settle("abort", 0)
     ELSE Backoff(seen[attempts].retryAfter)
  /\ UNCHANGED <<callerVars, body>>

\* Mutant: an error found while the caller aborts is reported as that error.
OnBodyReadIgnoringAbort ==
  /\ phase = "reading"
  /\ stream # "streaming"
  /\ Settle(Classify(seen[attempts].status), attempts)
  /\ UNCHANGED <<callerVars, body, stream>>

\* Mutant: a body that breaks off is a transport failure, and is retried.
OnBodyReadRetrying ==
  /\ phase = "reading"
  /\ stream # "streaming"
  /\ LET kind == Classify(seen[attempts].status) IN
       IF aborted /\ kind # "ack"
       THEN Settle("abort", 0)
       ELSE IF stream = "broken" /\ attempts < MaximumAttempts
            THEN Backoff(Absent)
            ELSE Settle(kind, attempts)
  /\ UNCHANGED <<callerVars, body, stream>>

\* The body has been read, up to its bound, or cannot be.  An acknowledgement
\* wins over a late abort, an error does not.
OnBodyRead ==
  /\ phase = "reading"
  /\ stream # "streaming"
  /\ LET kind == Classify(seen[attempts].status) IN
       IF aborted /\ kind # "ack"
       THEN Settle("abort", 0)
       ELSE Settle(kind, attempts)
  /\ UNCHANGED <<callerVars, body, stream>>

\* The pause is over, or the caller's abort cut it short.
OnWakeUp ==
  /\ phase = "sleeping"
  /\ pause = "elapsed" \/ aborted
  /\ IF aborted
     THEN Settle("abort", 0) /\ UNCHANGED stream
     ELSE StartAttempt(attempts + 1, body)
  /\ UNCHANGED <<callerVars, body>>

-----------------------------------------------------------------------------
(* Timers and the caller.                                                  *)

AttemptTimeout ==
  /\ timer
  /\ timer' = FALSE
  /\ AbortAttempt
  /\ UNCHANGED <<callerVars, phase, body, attempts, listener, backoffVars, seen,
                 outcome, networkVars>>

PauseElapses ==
  /\ pause = "armed"
  /\ pause' = "elapsed"
  /\ UNCHANGED <<callerVars, phase, body, attempts, attemptVars, delay, seen,
                 outcome, networkVars>>

\* The caller aborts its signal; the abort listeners run at once.
CallerAborts ==
  /\ ~aborted
  /\ phase # "settled"
  /\ aborted' = TRUE
  /\ IF listener /\ phase # "sleeping" THEN AbortAttempt ELSE UNCHANGED <<fetch, stream>>
  /\ pause' = IF listener /\ pause = "armed" THEN "off" ELSE pause
  /\ UNCHANGED <<event, phase, body, attempts, timer, listener, delay, seen,
                 outcome, networkVars>>

\* The caller reuses its event object while the call is under way.
CallerChangesEvent ==
  /\ phase # "settled"
  /\ \E e \in Events : event' = e
  /\ UNCHANGED <<aborted, phase, body, attempts, attemptVars, backoffVars, seen,
                 outcome, networkVars>>

-----------------------------------------------------------------------------
(* The network and the ingest server, as fetch() and the response's stream *)
(* show them to the SDK.                                                   *)

ServerAnswers(n, answer) ==
  /\ n \in inFlight
  /\ inFlight' = inFlight \ {n}
  /\ answers' = [answers EXCEPT ![n] = answer]
  /\ UNCHANGED <<callerVars, phase, body, attempts, attemptVars, backoffVars, seen,
                 outcome, copies>>

CopyLost(n) ==
  /\ n \in inFlight
  /\ inFlight' = inFlight \ {n}
  /\ UNCHANGED <<callerVars, phase, body, attempts, attemptVars, backoffVars, seen,
                 outcome, copies, answers>>

FetchResolves ==
  /\ fetch = "pending"
  /\ answers[attempts] # NoAnswer
  /\ fetch' = "resolved"
  /\ stream' = "streaming"
  /\ seen' = [seen EXCEPT ![attempts] = answers[attempts]]
  /\ UNCHANGED <<callerVars, phase, body, attempts, timer, listener, backoffVars,
                 outcome, networkVars>>

FetchFails ==
  /\ fetch = "pending"
  /\ fetch' = "rejected"
  /\ UNCHANGED <<callerVars, phase, body, attempts, timer, listener, stream,
                 backoffVars, seen, outcome, networkVars>>

\* readBoundedBody: the bounded body was read to its end, or past its bound.
BodyArrives(kind) ==
  /\ phase = "reading"
  /\ stream = "streaming"
  /\ stream' = kind
  /\ UNCHANGED <<callerVars, phase, body, attempts, timer, listener, fetch,
                 backoffVars, seen, outcome, networkVars>>

\* The connection is lost after the headers.
BodyBreaks ==
  /\ stream = "streaming"
  /\ stream' = "broken"
  /\ UNCHANGED <<callerVars, phase, body, attempts, timer, listener, fetch,
                 backoffVars, seen, outcome, networkVars>>

-----------------------------------------------------------------------------
\* What the event loop runs when the promise a call awaits has settled.
Continuation ==
  OnFetchRejected \/ OnResponse \/ OnBodyCancelled \/ OnBodyRead \/ OnWakeUp

Timers == AttemptTimeout \/ PauseElapses

Caller == Call \/ CallerAborts \/ CallerChangesEvent

Network ==
  \/ \E n \in AttemptNumbers, answer \in Answers : ServerAnswers(n, answer)
  \/ \E n \in AttemptNumbers : CopyLost(n)
  \/ FetchResolves
  \/ FetchFails
  \/ \E kind \in {"valid", "invalid", "oversized"} : BodyArrives(kind)
  \/ BodyBreaks

Next == Continuation \/ Timers \/ Caller \/ Network

Spec == Init /\ [][Next]_vars

\* The event loop runs a ready continuation and fires a timer that is due; it
\* promises nothing about the network, the server or the caller.
Fairness ==
  /\ WF_vars(Continuation)
  /\ WF_vars(AttemptTimeout)
  /\ WF_vars(PauseElapses)

FairSpec == Spec /\ Fairness

-----------------------------------------------------------------------------
(* Properties.                                                             *)

Settled == phase = "settled"
Last    == Len(copies)

\* The settled outcome is the one the server's answer to the last copy stands
\* for: an acknowledgement or a decode error only after a 200, an HTTP error only
\* after its status, a transport error only after the last attempt the option
\* allows went without an answer, a validation error only if nothing was sent.
\* It reports as many attempts as copies were sent.
OutcomeMatchesLastAnswer ==
  Settled =>
    /\ outcome.kind \in {"ack", "decode"} => answers[Last].status = 200
    /\ outcome.kind \in {"auth", "notFound", "api"} =>
         /\ answers[Last].status \notin {0, 200}
         /\ outcome.kind = StatusKind(answers[Last].status)
    /\ outcome.kind = "transport" => Last = MaximumAttempts /\ seen[Last] = NoAnswer
    /\ outcome.kind = "validation" => Last = 0
    /\ outcome.kind \notin {"abort", "validation"} => outcome.attempts = Last

\* A transient answer is reported as an error only when no attempt is left or the
\* server asked for a pause above the cap: nothing gives up early.
NoEarlySurrender ==
  Settled /\ outcome.kind = "api" /\ answers[Last].status \in RetryableStatuses =>
    Last = MaximumAttempts \/ answers[Last].retryAfter > MaximumRetryAfter

\* Every copy carries the event as it was when the method was called, whatever
\* the caller does to its object meanwhile (one event_id and occurred_at a call).
CopiesCarryOneEvent == \A n \in 1 .. Last : copies[n] = body

\* While the call pauses, the pause honours the last answer's Retry-After, stays
\* within the jitter bound otherwise, never exceeds the cap, and an attempt is left.
PauseHonoursServer ==
  phase = "sleeping" =>
    LET requested == OrZero(seen[attempts].retryAfter) IN
      /\ delay >= requested
      /\ delay <= Larger(NodeDelayBound(attempts), requested)
      /\ requested <= MaximumRetryAfter
      /\ attempts < MaximumAttempts

\* However the call ends or pauses, it leaves no timeout armed, no body half
\* read, and after the end no listener on the caller's (long-lived) signal and no
\* pause timer.
NothingLeftBehind ==
  /\ phase \in {"sleeping", "settled"} => ~timer /\ stream # "streaming"
  /\ Settled => ~listener /\ pause # "armed"

\* Once the caller has aborted, the call waits for no timer, no server and no
\* pause: whatever it awaits has already settled.
AbortNeedsNoTimer ==
  aborted =>
    /\ phase = "fetching" => fetch # "pending"
    /\ phase = "reading" => stream # "streaming"
    /\ phase = "sleeping" => pause # "armed"

\* No copy leaves after the caller aborted, and the call then ends with the abort
\* reason, unless its acknowledgement had been read completely.
AbortStopsTheCall ==
  [][ aborted =>
        /\ copies' = copies
        /\ phase' = "settled" /\ ~Settled =>
             \/ outcome'.kind \in {"abort", "validation"}
             \/ outcome'.kind = "ack" /\ phase = "reading" /\ stream = "valid" ]_vars

\* A retry leaves only when the pause is over, and only after an answer, or a
\* missing answer, that permits one: never after a 200 the client has received.
RetryOnlyWhenPermitted ==
  [][ copies' # copies /\ attempts > 0 =>
        /\ pause = "elapsed"
        /\ \A n \in 1 .. attempts :
             \/ seen[n] = NoAnswer
             \/ /\ seen[n].status \in RetryableStatuses
                /\ RetryAfterAllowed(seen[n].retryAfter) ]_vars

\* Every call settles: the timeout covers the request and the body, and the
\* number of attempts is bounded, whatever server and network do.
EveryCallSettles == (phase = "fetching") ~> Settled

\* The call implements the contract of all SDKs.
Contract == INSTANCE EventDelivery
  WITH sent <- Last, outcome <- outcome.kind
ImplementsContract == Contract!Spec

\* node/README.md:171, "Received responses have known delivery outcome": when the
\* call rejects with an HTTP error, whose deliveryOutcomeUnknown is false, the
\* server has not accepted a copy of the event that the client knows nothing of.
KnownOutcomeIsKnown ==
  Settled /\ outcome.kind \in {"auth", "notFound", "api"} =>
    \A n \in AttemptNumbers : answers[n].status = 200 => seen[n] = answers[n]

-----------------------------------------------------------------------------
(* The inductive invariant behind the properties above.                    *)

\* Counters, copies and answers belong together.
Bookkeeping ==
  /\ Len(copies) = attempts
  /\ \A n \in 1 .. Len(copies) : copies[n] = body
  /\ inFlight \subseteq 1 .. attempts
  /\ \A n \in AttemptNumbers :
       /\ answers[n] # NoAnswer => n <= attempts /\ n \notin inFlight
       /\ seen[n] # NoAnswer => seen[n] = answers[n]

\* The client knew of no answer to an earlier attempt that forbids a retry.
EarlierAnswersPermitRetry ==
  \A n \in AttemptNumbers :
    n < attempts =>
      \/ seen[n] = NoAnswer
      \/ seen[n].status \in RetryableStatuses /\ RetryAfterAllowed(seen[n].retryAfter)

\* What each await of the call means for promises, timers, listeners and body.
PhaseInvariant ==
  /\ phase = "idle" =>
       /\ attempts = 0 /\ body = Malformed
       /\ ~timer /\ ~listener /\ fetch = "idle" /\ pause = "off"
  /\ phase \notin {"idle", "settled"} =>
       attempts >= 1 /\ body \in Events /\ listener
  /\ fetch = "pending" => phase = "fetching" /\ seen[attempts] = NoAnswer
  /\ fetch # "resolved" => stream # "streaming"
  /\ stream = "streaming" => phase \in {"fetching", "reading", "cancelling"}
  /\ phase = "fetching" =>
       /\ fetch # "idle"
       /\ fetch = "rejected" => seen[attempts] = NoAnswer
       /\ fetch = "resolved" => seen[attempts] # NoAnswer
  /\ phase \in {"reading", "cancelling"} =>
       /\ fetch = "resolved"
       /\ seen[attempts] # NoAnswer
       /\ phase = "cancelling" <=> WillRetry(seen[attempts])
  /\ phase \in {"fetching", "reading", "cancelling"} => pause = "off"
  /\ phase = "sleeping" =>
       /\ ~timer
       /\ attempts < MaximumAttempts
       /\ \/ seen[attempts] = NoAnswer
          \/ WillRetry(seen[attempts])
  /\ phase = "settled" => ~timer /\ ~listener /\ pause = "off"
  /\ phase = "settled" <=> outcome.kind # "pending"

\* After an abort nothing the call awaits is outstanding.
AbortInvariant ==
  aborted => /\ fetch # "pending"
             /\ stream # "streaming"
             /\ phase = "sleeping" => pause # "armed"

IInv ==
  /\ TypeOK
  /\ Bookkeeping
  /\ EarlierAnswersPermitRetry
  /\ PhaseInvariant
  /\ AbortInvariant
  /\ PauseHonoursServer
  /\ OutcomeMatchesLastAnswer
  /\ NoEarlySurrender
=============================================================================
