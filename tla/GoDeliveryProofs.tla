-------------------------- MODULE GoDeliveryProofs --------------------------
(***************************************************************************)
(* Proofs about one call of the Go client, for every number of retries,    *)
(* every set of answers and every choice of durations.  GoInvariant is     *)
(* inductive: the pause and the released attempt follow from where the     *)
(* goroutine blocks, and that from the answers the call has seen.          *)
(***************************************************************************)
EXTENDS GoDelivery, TLAPS

\* The answer, or its absence, leaves room for another attempt.
PermitsRetry(answer) ==
  \/ answer = NoAnswer
  \/ answer.status \in RetryableStatuses /\ RetryAfterAllowed(answer.retryAfter)

\* A copy is on its way, answered or lost once it was sent; the call sees what the
\* server answered, and went on only after answers that permit it.
Bookkeeping ==
  /\ inFlight \subseteq 1 .. attempts
  /\ \A n \in AttemptNumbers :
       /\ answers[n] # NoAnswer => n <= attempts /\ n \notin inFlight
       /\ seen[n] # NoAnswer => n <= attempts /\ seen[n] = answers[n]
       /\ n < attempts => PermitsRetry(seen[n])

\* Where the goroutine blocks says what has been seen and what is left running.
WhereItBlocks ==
  /\ pc = "idle" => attempts = 0
  /\ pc \in {"sending", "reading", "sleeping"} => attempts > 0
  /\ pc = "sending" =>
       /\ exchange \in {"pending", "response", "error"}
       /\ exchange # "response" => seen[attempts] = NoAnswer /\ stream = "none"
       /\ exchange = "response" => seen[attempts] # NoAnswer
  /\ pc = "reading" => exchange = "response" /\ seen[attempts] # NoAnswer
  /\ pc = "sleeping" => attempts < MaximumAttempts /\ PermitsRetry(seen[attempts])
  /\ pc \notin {"sending", "reading"} =>
       deadline = "off" /\ exchange = "none" /\ stream \in {"none", "closed"}
  /\ pc # "sleeping" => timer = "off"
  /\ pc # "returned" <=> outcome = "pending"

GoInvariant == TypeOK /\ Bookkeeping /\ WhereItBlocks /\ PauseHonoursServer

-----------------------------------------------------------------------------
(* Lemmas about answers, delay bounds and the instance of the contract.    *)

\* An answer is a record with a status and a Retry-After; so is a missing one, whose
\* status is no HTTP status.
LEMMA AnswerType ==
  ASSUME NEW answer \in Answers \cup {NoAnswer}
  PROVE  /\ answer.status \in Nat
         /\ answer.retryAfter \in Nat \cup {Absent}
         /\ answer = NoAnswer <=> answer.status = 0
         /\ answer = NoAnswer => answer.retryAfter = Absent
         /\ NoAnswer \notin Answers
<1>1. CASE answer = NoAnswer
  BY <1>1, DeliveryAssumption DEF NoAnswer
<1>2. CASE answer \in Answers
  BY <1>2, DeliveryAssumption DEF NoAnswer
<1>3. QED
  BY <1>1, <1>2

\* fullJitterDelay (go/retry.go) draws below an integer bound.
LEMMA DelayBoundType ==
  ASSUME NEW n \in Nat
  PROVE  GoDelayBound(n) \in Int
<1>1. CASE n <= 1 \/ n >= 5
  BY <1>1, PolicyAssumption DEF GoDelayBound
<1>2. CASE n \in 2 .. 4
  <2>1. n - 1 \in Nat
    BY <1>2
  <2>2. 2 ^ (n - 1) \in Int
    BY <2>1
  <2>3. GoDelayBound(n) = InitialBound * 2 ^ (n - 1)
    BY <1>2 DEF GoDelayBound
  <2>4. QED
    BY <2>2, <2>3, PolicyAssumption
<1>3. QED
  BY <1>1, <1>2

\* What Retry-After asks of a pause after an answer that permits a retry.
LEMMA RequestedPause ==
  ASSUME NEW answer \in Answers \cup {NoAnswer}, PermitsRetry(answer)
  PROVE  /\ OrZero(answer.retryAfter) \in Nat
         /\ OrZero(answer.retryAfter) <= MaximumRetryAfter
         /\ answer.retryAfter # Absent => OrZero(answer.retryAfter) = answer.retryAfter
  BY AnswerType, PolicyAssumption DEF PermitsRetry, OrZero, RetryAfterAllowed

\* decodeResponse by the status.
LEMMA DecodeMatchesStatus ==
  ASSUME NEW status \in Nat
  PROVE  /\ Decode(status) \in {"ack", "decode", "auth", "notFound", "api"}
         /\ Decode(status) = "ack" => status = 200
         /\ status = 200 => Decode(status) \in {"ack", "decode"}
         /\ status # 200 => Decode(status) = Contract!StatusKind(status)
<1>1. CASE status = 200
  BY <1>1 DEF Decode
<1>2. CASE status # 200
  BY <1>2 DEF Decode, Contract!StatusKind
<1>3. QED
  BY <1>1, <1>2

\* The constants of the contract are those of the call.
LEMMA ContractConstants ==
  /\ Contract!NoAnswer = NoAnswer
  /\ Contract!Copies = AttemptNumbers
  /\ \A answer : Contract!MayRetry(answer) <=> PermitsRetry(answer)
<1>1. Contract!NoAnswer = NoAnswer /\ Contract!Copies = AttemptNumbers
  BY DEF Contract!NoAnswer, NoAnswer, Contract!Copies, AttemptNumbers
<1>2. QED
  BY <1>1 DEF Contract!MayRetry, PermitsRetry, RetryAfterAllowed

\* The initial states satisfy the invariant.
LEMMA InitInvariant == Init => GoInvariant
<1> SUFFICES ASSUME Init PROVE GoInvariant
  OBVIOUS
<1>1. MaximumAttempts \in Nat /\ 0 \in 0 .. MaximumAttempts
  BY DeliveryAssumption DEF MaximumAttempts
<1>2. TypeOK
  BY <1>1 DEF Init, TypeOK, Timers
<1>3. Bookkeeping
  BY <1>1 DEF Init, Bookkeeping, AttemptNumbers
<1>4. WhereItBlocks /\ PauseHonoursServer
  BY DEF Init, WhereItBlocks, PauseHonoursServer
<1>5. QED
  BY <1>2, <1>3, <1>4 DEF GoInvariant

-----------------------------------------------------------------------------
(* The pieces of the goroutine's steps keep the invariant.                 *)

\* The event method returns, its attempt over.
LEMMA ReturnStep ==
  ASSUME GoInvariant, pc # "returned", EndAttempt \/ (UNCHANGED attemptVars /\ deadline = "off"
                                       /\ exchange = "none" /\ stream \in {"none", "closed"}),
         NEW kind \in {"ack", "decode", "auth", "notFound", "api", "transport", "abort",
                       "validation"},
         Return(kind)
  PROVE  GoInvariant'
<1>1. deadline' = "off" /\ exchange' = "none" /\ stream' \in {"none", "closed"}
  BY DEF EndAttempt, attemptVars
<1>2. TypeOK'
  BY <1>1 DEF GoInvariant, TypeOK, Return, networkVars, Timers
<1>3. Bookkeeping'
  BY DEF GoInvariant, Bookkeeping, Return, networkVars, PermitsRetry
<1>4. WhereItBlocks' /\ PauseHonoursServer'
  BY <1>1 DEF WhereItBlocks, PauseHonoursServer, Return
<1>5. QED
  BY <1>2, <1>3, <1>4 DEF GoInvariant

\* The call sleeps after an attempt whose answer permits another one.
LEMMA SleepStep ==
  ASSUME GoInvariant, EndAttempt, pc \in {"sending", "reading"}, attempts < MaximumAttempts,
         PermitsRetry(seen[attempts]), Sleep(seen[attempts].retryAfter)
  PROVE  GoInvariant'
<1> DEFINE requested == seen[attempts].retryAfter
<1>1. attempts \in AttemptNumbers /\ attempts \in Nat /\ MaximumAttempts \in Nat
  BY DeliveryAssumption
     DEF GoInvariant, TypeOK, WhereItBlocks, AttemptNumbers, MaximumAttempts
<1>2. seen[attempts] \in Answers \cup {NoAnswer}
  BY <1>1 DEF GoInvariant, TypeOK
<1>3. /\ OrZero(requested) \in Nat /\ OrZero(requested) <= MaximumRetryAfter
      /\ requested # Absent => OrZero(requested) = requested
      /\ requested = Absent => OrZero(requested) = 0
  BY <1>2, RequestedPause DEF OrZero
<1>4. GoDelayBound(attempts) \in Int
  BY <1>1, DelayBoundType
<1>5. PICK jitter \in 0 .. GoDelayBound(attempts) :
        delay' = IF requested # Absent /\ requested > jitter THEN requested ELSE jitter
  BY DEF Sleep
<1>6. delay' = Larger(OrZero(requested), jitter)
  BY <1>3, <1>4, <1>5 DEF Larger
<1>7. /\ delay' \in Nat /\ delay' >= OrZero(requested)
      /\ delay' <= Larger(GoDelayBound(attempts), OrZero(requested))
  BY <1>3, <1>4, <1>6 DEF Larger
<1>8. deadline' = "off" /\ exchange' = "none" /\ stream' \in {"none", "closed"}
  BY DEF EndAttempt
<1>9. TypeOK'
  BY <1>7, <1>8 DEF GoInvariant, TypeOK, Sleep, networkVars, Timers
<1>10. Bookkeeping'
  BY DEF GoInvariant, Bookkeeping, Sleep, networkVars, PermitsRetry
<1>11. WhereItBlocks'
  BY <1>8 DEF GoInvariant, WhereItBlocks, Sleep, PermitsRetry
<1>12. PauseHonoursServer'
  <2>1. /\ attempts' = attempts /\ seen' = seen
        /\ GoDelayBound(attempts)' = GoDelayBound(attempts)
    BY DEF Sleep
  <2>2. QED
    BY <1>3, <1>7, <2>1 DEF PauseHonoursServer
<1>13. QED
  BY <1>9, <1>10, <1>11, <1>12 DEF GoInvariant

\* The next attempt starts: its copy leaves.
LEMMA StartAttemptStep ==
  ASSUME GoInvariant, pc \in {"idle", "sleeping"}, StartAttempt(attempts + 1)
  PROVE  GoInvariant'
<1>1. /\ attempts \in Nat /\ MaximumAttempts \in Nat /\ attempts < MaximumAttempts
      /\ attempts + 1 \in AttemptNumbers
  BY DeliveryAssumption
     DEF GoInvariant, TypeOK, WhereItBlocks, AttemptNumbers, MaximumAttempts
<1>2. answers[attempts + 1] = NoAnswer /\ seen[attempts + 1] = NoAnswer
  BY <1>1 DEF GoInvariant, Bookkeeping
<1>3. TypeOK'
  BY <1>1 DEF GoInvariant, TypeOK, StartAttempt, Timers
<1>4. Bookkeeping'
  <2>1. inFlight' \subseteq 1 .. attempts'
    BY <1>1 DEF GoInvariant, Bookkeeping, StartAttempt
  <2>2. ASSUME NEW n \in AttemptNumbers
        PROVE  /\ answers[n] # NoAnswer => n <= attempts + 1 /\ n \notin inFlight'
               /\ seen[n] # NoAnswer => n <= attempts + 1 /\ seen[n] = answers[n]
               /\ n < attempts + 1 => PermitsRetry(seen[n])
    BY <1>1, <1>2 DEF GoInvariant, Bookkeeping, WhereItBlocks, StartAttempt, AttemptNumbers
  <2>3. QED
    BY <2>1, <2>2 DEF Bookkeeping, StartAttempt, PermitsRetry
<1>5. WhereItBlocks' /\ PauseHonoursServer'
  BY <1>1, <1>2 DEF GoInvariant, WhereItBlocks, PauseHonoursServer, StartAttempt
<1>6. QED
  BY <1>3, <1>4, <1>5 DEF GoInvariant

-----------------------------------------------------------------------------
(* The actions keep the invariant.                                         *)

\* An event method, up to the first Do().
LEMMA TrackPreserves == ASSUME GoInvariant, NEW valid \in BOOLEAN, Track(valid) PROVE GoInvariant'
<1>1. pc = "idle" /\ attempts = 0 /\ deadline = "off" /\ exchange = "none"
      /\ stream \in {"none", "closed"}
  BY DEF Track, GoInvariant, WhereItBlocks
<1>2. CASE StartAttempt(1)
  BY <1>1, <1>2, StartAttemptStep
<1>3. CASE Return("validation") /\ UNCHANGED attemptVars
  BY <1>1, <1>3, ReturnStep
<1>4. CASE Return("abort") /\ UNCHANGED attemptVars
  BY <1>1, <1>4, ReturnStep
<1>5. QED
  BY <1>2, <1>3, <1>4 DEF Track

\* Do() failed.
LEMMA OnErrorPreserves == ASSUME GoInvariant, OnError PROVE GoInvariant'
<1>1. pc = "sending" /\ EndAttempt /\ seen[attempts] = NoAnswer
      /\ seen[attempts].retryAfter = Absent
  BY DEF OnError, GoInvariant, WhereItBlocks, NoAnswer
<1>2. CASE Return("abort") \/ Return("transport")
  BY <1>1, <1>2, ReturnStep
<1>3. CASE attempts # MaximumAttempts /\ Sleep(Absent)
  <2>1. attempts < MaximumAttempts
    BY <1>3, DeliveryAssumption DEF GoInvariant, TypeOK, MaximumAttempts
  <2>2. PermitsRetry(seen[attempts])
    BY <1>1 DEF PermitsRetry
  <2>3. QED
    BY <1>1, <1>3, <2>1, <2>2, SleepStep
<1>4. QED
  BY <1>2, <1>3 DEF OnError

\* Do() returned a response.
LEMMA OnResponsePreserves == ASSUME GoInvariant, OnResponse PROVE GoInvariant'
<1> USE DEF OnResponse, attemptVars, sleepVars, networkVars
<1>1. TypeOK'
  BY DEF GoInvariant, TypeOK, Timers
<1>2. Bookkeeping'
  BY DEF GoInvariant, Bookkeeping, PermitsRetry
<1>3. WhereItBlocks' /\ PauseHonoursServer'
  BY DEF GoInvariant, WhereItBlocks, PauseHonoursServer
<1>4. QED
  BY <1>1, <1>2, <1>3 DEF GoInvariant

\* The body was read, or reading failed.
LEMMA OnBodyReadPreserves == ASSUME GoInvariant, OnBodyRead PROVE GoInvariant'
<1> DEFINE answer == seen[attempts]
           kind   == Decode(answer.status)
<1>1. pc = "reading" /\ EndAttempt /\ attempts \in AttemptNumbers /\ answer # NoAnswer
  BY DeliveryAssumption DEF OnBodyRead, GoInvariant, TypeOK, WhereItBlocks, AttemptNumbers,
                            MaximumAttempts
<1>2. answer.status \in Nat
  BY <1>1, AnswerType DEF GoInvariant, TypeOK
<1>3. kind \in {"ack", "decode", "auth", "notFound", "api"}
  BY <1>2, DecodeMatchesStatus
<1>4. CASE Return("ack") \/ Return("abort") \/ Return(kind)
  BY <1>1, <1>3, <1>4, ReturnStep
<1>5. CASE /\ answer.status \in RetryableStatuses /\ attempts # MaximumAttempts
           /\ RetryAfterAllowed(answer.retryAfter) /\ Sleep(answer.retryAfter)
  <2>1. attempts < MaximumAttempts
    BY <1>1, <1>5, DeliveryAssumption DEF AttemptNumbers, MaximumAttempts
  <2>2. PermitsRetry(answer)
    BY <1>5 DEF PermitsRetry
  <2>3. QED
    BY <1>1, <1>5, <2>1, <2>2, SleepStep
<1>6. QED
  BY <1>4, <1>5 DEF OnBodyRead

\* The sleep returned.
LEMMA OnWakeUpPreserves == ASSUME GoInvariant, OnWakeUp PROVE GoInvariant'
<1>1. pc = "sleeping" /\ deadline = "off" /\ exchange = "none" /\ stream \in {"none", "closed"}
  BY DEF OnWakeUp, GoInvariant, WhereItBlocks
<1>2. QED
  BY <1>1, ReturnStep, StartAttemptStep DEF OnWakeUp

\* The caller's context ends, or a timer fires.
LEMMA TimersPreserve ==
  ASSUME GoInvariant, Cancel \/ DeadlineExpires \/ SleepEnds
  PROVE  GoInvariant'
<1> USE DEF Cancel, DeadlineExpires, SleepEnds, attemptVars, sleepVars, networkVars
<1>1. TypeOK'
  BY DEF GoInvariant, TypeOK, Timers
<1>2. Bookkeeping'
  BY DEF GoInvariant, Bookkeeping, PermitsRetry
<1>3. WhereItBlocks'
  BY DEF GoInvariant, WhereItBlocks, PermitsRetry
<1>4. PauseHonoursServer'
  <2>1. UNCHANGED <<attempts, delay, seen>> /\ GoDelayBound(attempts)' = GoDelayBound(attempts)
    OBVIOUS
  <2>2. pc' = pc
    OBVIOUS
  <2>3. QED
    BY <2>1, <2>2 DEF GoInvariant, PauseHonoursServer
<1>5. QED
  BY <1>1, <1>2, <1>3, <1>4 DEF GoInvariant

\* net/http gives up on the exchange or on the body.
LEMMA InterruptionsPreserve ==
  ASSUME GoInvariant, ContextInterrupts \/ ConnectionFails
  PROVE  GoInvariant'
<1> USE DEF ContextInterrupts, ConnectionFails, sleepVars, networkVars
<1>1. TypeOK'
  BY DEF GoInvariant, TypeOK, Timers
<1>2. Bookkeeping'
  BY DEF GoInvariant, Bookkeeping, PermitsRetry
<1>3. pc \in {"sending", "reading"}
  BY DEF GoInvariant, TypeOK, WhereItBlocks
<1>4. WhereItBlocks' /\ PauseHonoursServer'
  BY <1>3 DEF GoInvariant, WhereItBlocks, PauseHonoursServer
<1>5. QED
  BY <1>1, <1>2, <1>4 DEF GoInvariant

\* The response arrives.
LEMMA ResponseArrivesPreserves == ASSUME GoInvariant, ResponseArrives PROVE GoInvariant'
<1>1. /\ pc = "sending" /\ seen[attempts] = NoAnswer /\ attempts \in AttemptNumbers
      /\ attempts > 0 /\ attempts \in Nat
  BY DeliveryAssumption DEF ResponseArrives, GoInvariant, TypeOK, WhereItBlocks,
                            AttemptNumbers, MaximumAttempts
<1>2. TypeOK'
  BY <1>1 DEF ResponseArrives, sleepVars, networkVars, GoInvariant, TypeOK
<1>3. Bookkeeping'
  BY <1>1 DEF ResponseArrives, networkVars, GoInvariant, TypeOK, Bookkeeping, PermitsRetry
<1>4. WhereItBlocks' /\ PauseHonoursServer'
  BY <1>1 DEF ResponseArrives, sleepVars, GoInvariant, TypeOK, WhereItBlocks,
              PauseHonoursServer
<1>5. QED
  BY <1>2, <1>3, <1>4 DEF GoInvariant

\* Its body ends, or outgrows the bound.
LEMMA BodyArrivesPreserves ==
  ASSUME GoInvariant, NEW kind \in {"valid", "invalid", "oversized"}, BodyArrives(kind)
  PROVE  GoInvariant'
<1> USE DEF BodyArrives, sleepVars, networkVars
<1>1. TypeOK'
  BY DEF GoInvariant, TypeOK, Timers
<1>2. Bookkeeping'
  BY DEF GoInvariant, Bookkeeping, PermitsRetry
<1>3. WhereItBlocks' /\ PauseHonoursServer'
  BY DEF GoInvariant, WhereItBlocks, PauseHonoursServer
<1>4. QED
  BY <1>1, <1>2, <1>3 DEF GoInvariant

\* A copy is answered or lost, perhaps long after the client gave up on it.
LEMMA CopiesPreserve ==
  ASSUME GoInvariant, NEW n \in AttemptNumbers,
         CopyLost(n) \/ \E answer \in Answers : ServerAnswers(n, answer)
  PROVE  GoInvariant'
<1>1. n \in inFlight /\ inFlight' = inFlight \ {n} /\ n <= attempts
      /\ UNCHANGED <<cancelled, pc, attempts, attemptVars, sleepVars, seen, outcome>>
  BY DEF CopyLost, ServerAnswers, GoInvariant, Bookkeeping, TypeOK
<1>2. /\ answers' \in [AttemptNumbers -> Answers \cup {NoAnswer}]
      /\ \A m \in AttemptNumbers : m # n => answers'[m] = answers[m]
  BY DEF CopyLost, ServerAnswers, GoInvariant, TypeOK
<1>3. answers[n] = NoAnswer /\ seen[n] = NoAnswer
  BY <1>1 DEF GoInvariant, Bookkeeping
<1>4. TypeOK'
  BY <1>1, <1>2 DEF GoInvariant, TypeOK, attemptVars, sleepVars
<1>5. Bookkeeping'
  BY <1>1, <1>2, <1>3 DEF GoInvariant, Bookkeeping, PermitsRetry
<1>6. WhereItBlocks'
  BY <1>1 DEF GoInvariant, WhereItBlocks, attemptVars, sleepVars, PermitsRetry
<1>7. PauseHonoursServer'
  <2>1. GoDelayBound(attempts)' = GoDelayBound(attempts)
    BY <1>1
  <2>2. QED
    BY <1>1, <2>1 DEF GoInvariant, PauseHonoursServer, sleepVars
<1>8. QED
  BY <1>4, <1>5, <1>6, <1>7 DEF GoInvariant

\* The invariant is inductive.
LEMMA StepInvariant == GoInvariant /\ [Next]_vars => GoInvariant'
<1> SUFFICES ASSUME GoInvariant, [Next]_vars PROVE GoInvariant'
  OBVIOUS
<1>1. CASE \E valid \in BOOLEAN : Track(valid)
  BY <1>1, TrackPreserves
<1>2. CASE Goroutine
  BY <1>2, OnErrorPreserves, OnResponsePreserves, OnBodyReadPreserves, OnWakeUpPreserves
     DEF Goroutine
<1>3. CASE Cancel \/ DeadlineExpires \/ SleepEnds
  BY <1>3, TimersPreserve
<1>4. CASE ContextInterrupts \/ ConnectionFails
  BY <1>4, InterruptionsPreserve
<1>5. CASE Network /\ ~ConnectionFails
  BY <1>5, ResponseArrivesPreserves, BodyArrivesPreserves, CopiesPreserve DEF Network
<1>6. CASE UNCHANGED vars
  BY <1>6 DEF vars, GoInvariant, TypeOK, Bookkeeping, WhereItBlocks, PermitsRetry,
              PauseHonoursServer
<1>7. QED
  BY <1>1, <1>2, <1>3, <1>4, <1>5, <1>6 DEF Next

-----------------------------------------------------------------------------
(* What a call of the Go client promises.                                  *)

\* The inductive invariant holds in every reachable state.
THEOREM Invariance == Spec => []GoInvariant
  BY InitInvariant, StepInvariant, PTL DEF Spec

\* Every variable of the call keeps its type (go/client.go, go/response.go).
THEOREM TypeCorrect == Spec => []TypeOK
<1>1. GoInvariant => TypeOK
  BY DEF GoInvariant
<1>2. QED
  BY <1>1, Invariance, PTL

\* A pause between two attempts is at least what the server asked for, at most that or
\* the jitter bound, and an attempt is left after it.
THEOREM PauseIsHonest == Spec => []PauseHonoursServer
<1>1. GoInvariant => PauseHonoursServer
  BY DEF GoInvariant
<1>2. QED
  BY <1>1, Invariance, PTL

\* The deferred calls of doAttempt leave no context with a running timer and no open
\* body behind, whichever way the attempt ended.
THEOREM AttemptsAreReleased == Spec => []AttemptReleased
<1>1. GoInvariant => AttemptReleased
  BY DEF GoInvariant, WhereItBlocks, AttemptReleased
<1>2. QED
  BY <1>1, Invariance, PTL

\* A done context stops the copies, and is what the event method returns unless the
\* event was invalid or its acknowledgement had been read.
THEOREM CancellationIsHonest == Spec => CancellationIsReported
<1> DEFINE Reported ==
      cancelled =>
        /\ attempts' = attempts
        /\ pc' = "returned" /\ pc # "returned" =>
             outcome' \in {"abort", "ack", "validation"}
<1>1. GoInvariant /\ [Next]_vars => [Reported]_vars
  <2> SUFFICES ASSUME Next, cancelled PROVE Reported
    OBVIOUS
  <2>1. attempts' = attempts
    BY DEF Next, Goroutine, Network, Track, OnError, OnResponse, OnBodyRead, OnWakeUp,
           Return, Cancel, DeadlineExpires, SleepEnds, ContextInterrupts,
           ConnectionFails, ResponseArrives, BodyArrives, ServerAnswers, CopyLost
  <2>2. ASSUME pc' = "returned", pc # "returned"
        PROVE  outcome' \in {"abort", "ack", "validation"}
    <3>1. (\E valid \in BOOLEAN : Track(valid)) \/ Goroutine
      BY <2>2 DEF Next, Network, Cancel, DeadlineExpires, SleepEnds, ContextInterrupts,
                  ConnectionFails, ResponseArrives, BodyArrives, ServerAnswers, CopyLost
    <3>2. ~StartAttempt(1) /\ ~StartAttempt(attempts + 1) /\ ~OnResponse
      BY <2>2 DEF StartAttempt, OnResponse
    <3>3. QED
      BY <3>1, <3>2 DEF Track, Goroutine, OnError, OnBodyRead, OnWakeUp, Return
  <2>3. QED
    BY <2>1, <2>2
<1>2. QED
  BY <1>1, Invariance, PTL DEF Spec, CancellationIsReported

-----------------------------------------------------------------------------
(* The call implements EventDelivery.                                      *)

\* A return is one of the contract's ways to settle.
LEMMA ReturnSettles ==
  ASSUME GoInvariant, pc # "returned", NEW kind, Return(kind)
  PROVE  Contract!Settle(kind)
  BY DEF GoInvariant, WhereItBlocks, Return, networkVars, Contract!Settle

\* A new attempt sends a copy.
LEMMA StartAttemptSendsCopy ==
  ASSUME GoInvariant, pc \in {"idle", "sleeping"}, StartAttempt(attempts + 1)
  PROVE  Contract!SendCopy
<1>1. attempts < MaximumAttempts /\ outcome = "pending"
  BY DeliveryAssumption DEF GoInvariant, TypeOK, WhereItBlocks, MaximumAttempts
<1>2. attempts > 0 => Contract!MayRetry(seen[attempts])
  BY ContractConstants DEF GoInvariant, WhereItBlocks
<1>3. QED
  BY <1>1, <1>2 DEF StartAttempt, Contract!SendCopy

\* Every step of the goroutine is a step of the contract or none.
LEMMA GoroutineImplements ==
  ASSUME GoInvariant, (\E valid \in BOOLEAN : Track(valid)) \/ Goroutine
  PROVE  [Contract!Next]_(Contract!vars)
<1>1. CASE Return("abort") /\ pc # "returned"
  BY <1>1, ReturnSettles DEF Contract!Next, Contract!Cancelled
<1>2. CASE \E valid \in BOOLEAN : Track(valid) /\ ~Return("abort")
  <2>1. pc = "idle" /\ attempts = 0
    BY <1>2 DEF Track, GoInvariant, WhereItBlocks
  <2>2. CASE Return("validation")
    BY <2>1, <2>2, ReturnSettles DEF Contract!Next, Contract!Invalid
  <2>3. CASE StartAttempt(1)
    BY <2>1, <2>3, StartAttemptSendsCopy DEF Contract!Next
  <2>4. QED
    BY <1>2, <2>2, <2>3 DEF Track
<1>3. CASE OnError /\ ~Return("abort")
  <2>1. CASE attempts = MaximumAttempts /\ Return("transport")
    <3>1. pc = "sending" /\ seen[attempts] = NoAnswer
      BY <1>3 DEF OnError, GoInvariant, WhereItBlocks
    <3>2. QED
      BY <2>1, <3>1, ReturnSettles, ContractConstants
         DEF Contract!Next, Contract!Unanswered
  <2>2. CASE Sleep(Absent)
    BY <2>2 DEF Sleep, networkVars, Contract!vars
  <2>3. QED
    BY <1>3, <2>1, <2>2 DEF OnError
<1>4. CASE OnResponse
  BY <1>4 DEF OnResponse, networkVars, Contract!vars
<1>5. CASE OnBodyRead /\ ~Return("abort")
  <2> DEFINE answer == seen[attempts]
             kind   == Decode(answer.status)
  <2>1. /\ pc = "reading" /\ answer # NoAnswer /\ attempts > 0
        /\ attempts \in AttemptNumbers
    BY <1>5, DeliveryAssumption DEF OnBodyRead, GoInvariant, TypeOK, WhereItBlocks,
                                    AttemptNumbers, MaximumAttempts
  <2>2. answer \in Answers \cup {NoAnswer} /\ answer.status \in Nat
    BY <2>1, AnswerType DEF GoInvariant, TypeOK
  <2>3. CASE Sleep(answer.retryAfter)
    BY <2>3 DEF Sleep, networkVars, Contract!vars
  <2>4. CASE Return(kind) /\ answer.status = 200
    BY <2>1, <2>2, <2>4, DecodeMatchesStatus, ReturnSettles
       DEF Contract!Next, Contract!Accepted
  <2>5. CASE Return(kind) /\ answer.status # 200
                          /\ (PermitsRetry(answer) => attempts = MaximumAttempts)
    <3>1. kind = Contract!StatusKind(answer.status)
      BY <2>2, <2>5, DecodeMatchesStatus
    <3>2. QED
      BY <2>1, <2>5, <3>1, ReturnSettles, ContractConstants
         DEF Contract!Next, Contract!Refused
  <2>6. QED
    BY <1>5, <2>1, <2>2, <2>3, <2>4, <2>5, DecodeMatchesStatus DEF OnBodyRead, PermitsRetry
<1>6. CASE OnWakeUp /\ ~Return("abort")
  BY <1>6, StartAttemptSendsCopy DEF OnWakeUp, Contract!Next
<1>7. pc # "returned"
  BY DEF Track, Goroutine, OnError, OnResponse, OnBodyRead, OnWakeUp
<1>8. QED
  BY <1>1, <1>2, <1>3, <1>4, <1>5, <1>6, <1>7 DEF Goroutine

\* Network and server take the contract's steps about answers, or none.
LEMMA NetworkImplements ==
  ASSUME GoInvariant, Network
  PROVE  [Contract!Next]_(Contract!vars)
<1>1. ASSUME NEW n \in AttemptNumbers, NEW answer \in Answers, ServerAnswers(n, answer)
      PROVE  Contract!Next
  <2>1. n <= attempts /\ answers[n] = NoAnswer
    BY <1>1 DEF ServerAnswers, GoInvariant, Bookkeeping
  <2>2. Contract!Answer(n, answer)
    BY <1>1, <2>1, ContractConstants DEF ServerAnswers, Contract!Answer
  <2>3. QED
    BY <1>1, <2>2, ContractConstants DEF Contract!Next
<1>2. CASE ResponseArrives
  <2>1. outcome = "pending" /\ attempts > 0 /\ seen[attempts] = NoAnswer
    BY <1>2 DEF ResponseArrives, GoInvariant, WhereItBlocks, TypeOK
  <2>2. QED
    BY <1>2, <2>1, ContractConstants
       DEF ResponseArrives, networkVars, Contract!Next, Contract!SeeAnswer
<1>3. CASE ConnectionFails \/ (\E n \in AttemptNumbers : CopyLost(n))
           \/ \E kind \in {"valid", "invalid", "oversized"} : BodyArrives(kind)
  BY <1>3 DEF ConnectionFails, CopyLost, BodyArrives, networkVars, Contract!vars
<1>4. QED
  BY <1>1, <1>2, <1>3 DEF Network

\* One call of the Go client does what the contract of the SDKs promises, and
\* nothing else.
THEOREM Implementation == Spec => ImplementsContract
<1>1. Init => Contract!Init
  BY ContractConstants DEF Init, Contract!Init
<1>2. GoInvariant /\ [Next]_vars => [Contract!Next]_(Contract!vars)
  <2> SUFFICES ASSUME GoInvariant, [Next]_vars PROVE [Contract!Next]_(Contract!vars)
    OBVIOUS
  <2>1. CASE \/ Cancel \/ DeadlineExpires \/ SleepEnds \/ ContextInterrupts
             \/ UNCHANGED vars
    BY <2>1 DEF Cancel, DeadlineExpires, SleepEnds, ContextInterrupts, networkVars, vars,
                Contract!vars
  <2>2. QED
    BY <2>1, GoroutineImplements, NetworkImplements DEF Next
<1>3. QED
  BY <1>1, <1>2, Invariance, PTL DEF Spec, ImplementsContract, Contract!Spec
=============================================================================
