------------------------- MODULE NodeDeliveryProofs -------------------------
(***************************************************************************)
(* Proofs about one call of the Node client, for every number of retries,  *)
(* every set of events and of answers, and every choice of durations.      *)
(* IInv is inductive; the lemmas take the pieces SDK steps are made of     *)
(* (settling, pausing, starting an attempt) first and the actions after.   *)
(***************************************************************************)
EXTENDS NodeDelivery, TLAPS

\* The status 0 of a missing answer is no HTTP status.
LEMMA NoAnswerIsNoAnswer == NoAnswer \notin Answers
  BY DeliveryAssumption DEF NoAnswer

\* An answer is a record with a status and a Retry-After; so is a missing one.
LEMMA AnswerType ==
  ASSUME NEW answer \in Answers \cup {NoAnswer}
  PROVE  /\ answer.status \in Nat
         /\ answer.retryAfter \in Nat \cup {Absent}
         /\ answer = NoAnswer <=> answer.status = 0
<1>1. CASE answer = NoAnswer
  BY <1>1 DEF NoAnswer
<1>2. CASE answer \in Answers
  BY <1>2, DeliveryAssumption DEF NoAnswer
<1>3. QED
  BY <1>1, <1>2

\* What classifyResponse makes of a response, by its status.
LEMMA ClassifyMatchesStatus ==
  ASSUME NEW status \in Nat
  PROVE  /\ Classify(status) \in {"ack", "decode", "auth", "notFound", "api"}
         /\ Classify(status) \in {"ack", "decode"} <=> status = 200
         /\ status # 200 => Classify(status) = StatusKind(status)
         /\ Classify(status) = "api" => status # 200
<1>1. CASE status = 200
  BY <1>1 DEF Classify
<1>2. CASE status # 200
  BY <1>2 DEF Classify, StatusKind
<1>3. QED
  BY <1>1, <1>2

\* The jitter is drawn from a set of integers.
LEMMA DelayBoundType ==
  ASSUME NEW n \in Int
  PROVE  NodeDelayBound(n) \in Int
<1>1. Lesser(Larger(n, 1) - 1, 4) \in Nat
  BY DEF Lesser, Larger
<1>2. 2 ^ Lesser(Larger(n, 1) - 1, 4) \in Int
  BY <1>1
<1>3. QED
  BY <1>2, PolicyAssumption DEF NodeDelayBound, Lesser

\* The initial states satisfy the invariant.
LEMMA InitInvariant == Init => IInv
<1> SUFFICES ASSUME Init PROVE IInv
  OBVIOUS
<1>1. MaximumAttempts \in Nat
  BY DeliveryAssumption DEF MaximumAttempts
<1>2. TypeOK
  <2>1. outcome \in [kind : Kinds, attempts : 0 .. MaximumAttempts]
    BY <1>1 DEF Init, Kinds
  <2>2. seen \in [AttemptNumbers -> Answers \cup {NoAnswer}]
    BY DEF Init
  <2>3. answers \in [AttemptNumbers -> Answers \cup {NoAnswer}]
    BY DEF Init
  <2>4. attempts \in 0 .. MaximumAttempts /\ delay \in Nat
    BY <1>1 DEF Init
  <2>5. copies \in Seq(Events) /\ inFlight \subseteq AttemptNumbers
    BY DEF Init
  <2>6. phase \in Phases /\ fetch \in Promises /\ stream \in Streams
    BY DEF Init, Phases, Promises, Streams
  <2>7. QED
    BY <2>1, <2>2, <2>3, <2>4, <2>5, <2>6 DEF Init, TypeOK
<1>3. Bookkeeping /\ EarlierAnswersPermitRetry
  BY DEF Init, Bookkeeping, EarlierAnswersPermitRetry
<1>4. PhaseInvariant /\ AbortInvariant
  BY DEF Init, PhaseInvariant, AbortInvariant
<1>5. PauseHonoursServer /\ OutcomeMatchesLastAnswer /\ NoEarlySurrender
  BY DEF Init, PauseHonoursServer, OutcomeMatchesLastAnswer, NoEarlySurrender, Settled
<1>6. QED
  BY <1>2, <1>3, <1>4, <1>5 DEF IInv

-----------------------------------------------------------------------------
\* The call settles with an outcome that fits the last answer, after the await
\* it was suspended at has settled and its stream is done.
LEMMA SettleStep ==
  ASSUME IInv, NEW kind \in Kinds \ {"pending"}, NEW reported \in 0 .. MaximumAttempts,
         Settle(kind, reported), UNCHANGED callerVars, phase # "settled",
         body' \in Events \cup {Malformed}, phase # "idle" => body' = body,
         stream' \in Streams \ {"streaming"}, fetch # "pending",
         OutcomeMatchesLastAnswer', NoEarlySurrender'
  PROVE  IInv'
<1>1. TypeOK'
  BY DEF IInv, TypeOK, Settle, Phases, callerVars, networkVars
<1>2. Bookkeeping'
  BY DEF IInv, Bookkeeping, PhaseInvariant, Settle, networkVars
<1>3. EarlierAnswersPermitRetry'
  BY DEF IInv, EarlierAnswersPermitRetry, Settle
<1>4. PhaseInvariant' /\ AbortInvariant'
  BY DEF IInv, PhaseInvariant, AbortInvariant, Settle
<1>5. PauseHonoursServer'
  BY DEF PauseHonoursServer, Settle
<1>6. QED
  BY <1>1, <1>2, <1>3, <1>4, <1>5 DEF IInv

\* The call settles with the abort reason.
LEMMA AbortStep ==
  ASSUME IInv, Settle("abort", 0), UNCHANGED callerVars, phase # "settled",
         body' \in Events \cup {Malformed}, phase # "idle" => body' = body,
         stream' \in Streams \ {"streaming"}, fetch # "pending"
  PROVE  IInv'
<1>1. OutcomeMatchesLastAnswer' /\ NoEarlySurrender'
  BY DEF OutcomeMatchesLastAnswer, NoEarlySurrender, Settled, Settle
<1>2. 0 \in 0 .. MaximumAttempts
  BY DeliveryAssumption DEF MaximumAttempts
<1>3. QED
  BY <1>1, <1>2, SettleStep DEF Kinds

\* The call pauses after an attempt that permits another one.
LEMMA BackoffStep ==
  ASSUME IInv, NEW requested, Backoff(requested), ~aborted,
         UNCHANGED <<callerVars, body>>, phase \notin {"idle", "settled"},
         attempts < MaximumAttempts, fetch # "pending",
         stream' \in Streams \ {"streaming"},
         requested = seen[attempts].retryAfter,
         seen[attempts] = NoAnswer \/ WillRetry(seen[attempts])
  PROVE  IInv'
<1>1. attempts \in AttemptNumbers
  BY DeliveryAssumption DEF IInv, TypeOK, PhaseInvariant, AttemptNumbers, MaximumAttempts
<1>2. PICK jitter \in 0 .. NodeDelayBound(attempts) :
        delay' = Larger(jitter, OrZero(requested))
  BY DEF Backoff
<1>3. requested \in Nat \cup {Absent}
  BY <1>1, AnswerType DEF IInv, TypeOK
<1>4. OrZero(requested) \in Nat /\ OrZero(requested) <= MaximumRetryAfter
  BY <1>3, PolicyAssumption DEF OrZero, WillRetry, RetryAfterAllowed, NoAnswer
<1>5. NodeDelayBound(attempts) \in Int
  BY <1>1, DelayBoundType DEF AttemptNumbers
<1>6. TypeOK'
  <2>1. delay' \in Nat
    BY <1>2, <1>4, <1>5 DEF Larger
  <2>2. QED
    BY <2>1 DEF IInv, TypeOK, Backoff, Phases, callerVars, networkVars
<1>7. Bookkeeping' /\ EarlierAnswersPermitRetry'
  BY DEF IInv, Bookkeeping, EarlierAnswersPermitRetry, Backoff, networkVars
<1>8. PhaseInvariant' /\ AbortInvariant'
  BY DEF IInv, PhaseInvariant, AbortInvariant, WillRetry, Backoff, callerVars
<1>9. PauseHonoursServer'
  <2>1. /\ delay' >= OrZero(requested)
        /\ delay' <= Larger(NodeDelayBound(attempts), OrZero(requested))
    BY <1>2, <1>4, <1>5, PolicyAssumption DEF Larger
  <2>2. NodeDelayBound(attempts)' = NodeDelayBound(attempts) /\ attempts' = attempts /\ seen' = seen
    BY DEF Backoff
  <2>3. QED
    BY <1>4, <2>1, <2>2 DEF PauseHonoursServer
<1>10. OutcomeMatchesLastAnswer' /\ NoEarlySurrender'
  BY DEF OutcomeMatchesLastAnswer, NoEarlySurrender, Settled, Backoff
<1>11. QED
  BY <1>6, <1>7, <1>8, <1>9, <1>10 DEF IInv

\* The next attempt starts, with the body of the earlier ones.
LEMMA StartAttemptStep ==
  ASSUME IInv, NEW payload \in Events, StartAttempt(attempts + 1, payload),
         ~aborted, UNCHANGED callerVars, body' = payload,
         phase = "idle" \/ (phase = "sleeping" /\ payload = body)
  PROVE  IInv'
<1>1. attempts \in Nat /\ attempts < MaximumAttempts /\ MaximumAttempts \in Nat
  BY DeliveryAssumption DEF IInv, TypeOK, PhaseInvariant, MaximumAttempts
<1>2. /\ copies' \in Seq(Events)
      /\ Len(copies') = attempts + 1
      /\ \A k \in 1 .. Len(copies') : copies'[k] = payload
  BY <1>1 DEF IInv, TypeOK, Bookkeeping, PhaseInvariant, StartAttempt
<1>3. TypeOK'
  BY <1>1, <1>2 DEF IInv, TypeOK, StartAttempt, Phases, Promises, Streams, callerVars,
                    AttemptNumbers
<1>4. answers[attempts + 1] = NoAnswer /\ seen[attempts + 1] = NoAnswer
  BY <1>1 DEF IInv, Bookkeeping, AttemptNumbers
<1>5. Bookkeeping'
  BY <1>1, <1>2, <1>4 DEF IInv, Bookkeeping, StartAttempt, AttemptNumbers
<1>6. EarlierAnswersPermitRetry'
  BY <1>1 DEF IInv, EarlierAnswersPermitRetry, PhaseInvariant, WillRetry, StartAttempt,
              AttemptNumbers
<1>7. PhaseInvariant' /\ AbortInvariant'
  BY <1>1, <1>4 DEF IInv, PhaseInvariant, AbortInvariant, StartAttempt, callerVars
<1>8. PauseHonoursServer' /\ OutcomeMatchesLastAnswer' /\ NoEarlySurrender'
  BY DEF PauseHonoursServer, OutcomeMatchesLastAnswer, NoEarlySurrender, Settled,
         StartAttempt
<1>9. QED
  BY <1>3, <1>5, <1>6, <1>7, <1>8 DEF IInv

-----------------------------------------------------------------------------
\* An event method, up to its first await.
LEMMA CallPreserves == ASSUME IInv, Call PROVE IInv'
<1>1. phase = "idle" /\ attempts = 0 /\ fetch = "idle" /\ stream # "streaming"
  BY DEF IInv, Call, PhaseInvariant
<1>2. UNCHANGED callerVars /\ stream \in Streams /\ event \in Events \cup {Malformed}
  BY DEF IInv, Call, TypeOK
<1>3. CASE event = Malformed
  <2>1. Settle("validation", 0) /\ body' = body /\ stream' = stream
    BY <1>3 DEF Call
  <2>2. OutcomeMatchesLastAnswer' /\ NoEarlySurrender'
    BY <2>1, <1>1 DEF OutcomeMatchesLastAnswer, NoEarlySurrender, Settled, Last, Settle,
                      networkVars, IInv, Bookkeeping
  <2>3. 0 \in 0 .. MaximumAttempts
    BY DeliveryAssumption DEF MaximumAttempts
  <2>4. QED
    BY <1>1, <1>2, <2>1, <2>2, <2>3, SettleStep DEF Kinds, IInv, TypeOK
<1>4. CASE event # Malformed /\ aborted
  <2>1. Settle("abort", 0) /\ body' = event /\ stream' = stream
    BY <1>4 DEF Call
  <2>2. QED
    BY <1>1, <1>2, <2>1, AbortStep
<1>5. CASE event # Malformed /\ ~aborted
  <2>1. PICK payload \in Events : payload = event
    BY <1>2, <1>5
  <2>2. StartAttempt(attempts + 1, payload) /\ body' = payload
    BY <1>1, <1>5, <2>1 DEF Call
  <2>3. QED
    BY <1>1, <1>2, <1>5, <2>2, StartAttemptStep
<1>6. QED
  BY <1>3, <1>4, <1>5

\* fetch() rejected.
LEMMA OnFetchRejectedPreserves == ASSUME IInv, OnFetchRejected PROVE IInv'
<1>1. /\ phase = "fetching" /\ fetch = "rejected" /\ stream # "streaming"
      /\ seen[attempts] = NoAnswer
      /\ attempts \in 1 .. MaximumAttempts /\ MaximumAttempts \in Nat
  BY DeliveryAssumption DEF IInv, OnFetchRejected, PhaseInvariant, TypeOK, MaximumAttempts
<1>2. /\ UNCHANGED <<callerVars, body>> /\ stream' = stream
      /\ stream \in Streams /\ body \in Events \cup {Malformed}
  BY DEF IInv, OnFetchRejected, TypeOK
<1>3. CASE aborted
  BY <1>1, <1>2, <1>3, AbortStep DEF OnFetchRejected
<1>4. CASE ~aborted /\ attempts = MaximumAttempts
  <2>1. Settle("transport", attempts)
    BY <1>4 DEF OnFetchRejected
  <2>2. OutcomeMatchesLastAnswer' /\ NoEarlySurrender'
    BY <1>1, <1>4, <2>1 DEF OutcomeMatchesLastAnswer, NoEarlySurrender, Settled, Last,
                            Settle, networkVars, IInv, Bookkeeping
  <2>3. QED
    BY <1>1, <1>2, <2>1, <2>2, SettleStep DEF Kinds
<1>5. CASE ~aborted /\ attempts # MaximumAttempts
  <2>1. Backoff(Absent) /\ Absent = seen[attempts].retryAfter
    BY <1>1, <1>5 DEF OnFetchRejected, NoAnswer
  <2>2. QED
    BY <1>1, <1>2, <1>5, <2>1, BackoffStep
<1>6. QED
  BY <1>3, <1>4, <1>5

\* fetch() resolved.
LEMMA OnResponsePreserves == ASSUME IInv, OnResponse PROVE IInv'
<1>1. CASE aborted
  BY <1>1, AbortStep DEF IInv, TypeOK, AbortInvariant, OnResponse
<1>2. CASE ~aborted
  <2>1. TypeOK'
    BY <1>2 DEF IInv, TypeOK, OnResponse, Phases, callerVars, backoffVars, networkVars
  <2>2. Bookkeeping' /\ EarlierAnswersPermitRetry'
    BY <1>2 DEF IInv, Bookkeeping, EarlierAnswersPermitRetry, OnResponse, networkVars
  <2>3. PhaseInvariant' /\ AbortInvariant'
    BY <1>2 DEF IInv, PhaseInvariant, AbortInvariant, OnResponse, WillRetry, callerVars,
                backoffVars
  <2>4. PauseHonoursServer' /\ OutcomeMatchesLastAnswer' /\ NoEarlySurrender'
    BY <1>2 DEF PauseHonoursServer, OutcomeMatchesLastAnswer, NoEarlySurrender, Settled,
                OnResponse
  <2>5. QED
    BY <2>1, <2>2, <2>3, <2>4 DEF IInv
<1>3. QED
  BY <1>1, <1>2

\* The body of a response that will be retried was cancelled.
LEMMA OnBodyCancelledPreserves == ASSUME IInv, OnBodyCancelled PROVE IInv'
<1>1. /\ phase = "cancelling" /\ fetch = "resolved"
      /\ WillRetry(seen[attempts])
      /\ stream' = "cancelled" /\ UNCHANGED <<callerVars, body>>
      /\ body \in Events \cup {Malformed}
  BY DEF IInv, PhaseInvariant, TypeOK, OnBodyCancelled
<1>2. attempts < MaximumAttempts
  BY <1>1, DeliveryAssumption DEF WillRetry, IInv, TypeOK, MaximumAttempts
<1>3. CASE aborted
  BY <1>1, <1>3, AbortStep DEF OnBodyCancelled, Streams
<1>4. CASE ~aborted
  BY <1>1, <1>2, <1>4, BackoffStep DEF OnBodyCancelled, Streams
<1>5. QED
  BY <1>3, <1>4

\* The body was read, or cannot be.
LEMMA OnBodyReadPreserves == ASSUME IInv, OnBodyRead PROVE IInv'
<1>1. /\ phase = "reading" /\ fetch = "resolved" /\ stream # "streaming"
      /\ seen[attempts] # NoAnswer /\ ~WillRetry(seen[attempts])
      /\ attempts \in 1 .. MaximumAttempts /\ MaximumAttempts \in Nat
  BY DeliveryAssumption DEF IInv, OnBodyRead, PhaseInvariant, TypeOK, MaximumAttempts
<1>2. /\ UNCHANGED <<callerVars, body>> /\ stream' = stream
      /\ stream \in Streams /\ body \in Events \cup {Malformed}
  BY DEF IInv, OnBodyRead, TypeOK
<1> DEFINE status == seen[attempts].status
           kind   == Classify(status)
<1>3. CASE Settle("abort", 0)
  BY <1>1, <1>2, <1>3, AbortStep
<1>4. CASE Settle(kind, attempts)
  <2>1. seen[attempts] \in Answers \cup {NoAnswer} /\ seen[attempts] = answers[attempts]
    BY <1>1 DEF IInv, TypeOK, Bookkeeping, AttemptNumbers
  <2>2. status \in Nat /\ status # 0 /\ seen[attempts].retryAfter \in Nat \cup {Absent}
    BY <1>1, <2>1, AnswerType
  <2>3. /\ kind \in {"ack", "decode", "auth", "notFound", "api"}
        /\ kind \in {"ack", "decode"} <=> status = 200
        /\ status # 200 => kind = StatusKind(status)
    BY <2>2, ClassifyMatchesStatus
  <2>4. /\ outcome' = [kind |-> kind, attempts |-> attempts]
        /\ answers'[Last'].status = status /\ Last' = attempts
        /\ answers'[Last'].retryAfter = seen[attempts].retryAfter
    BY <1>4, <2>1 DEF Settle, networkVars, Last, IInv, Bookkeeping
  <2>5. OutcomeMatchesLastAnswer'
    BY <2>2, <2>3, <2>4 DEF OutcomeMatchesLastAnswer
  <2>6. NoEarlySurrender'
    BY <1>1, <2>2, <2>4, PolicyAssumption
       DEF NoEarlySurrender, WillRetry, RetryAfterAllowed
  <2>7. QED
    BY <1>1, <1>2, <1>4, <2>3, <2>5, <2>6, SettleStep DEF Kinds
<1>5. QED
  BY <1>3, <1>4 DEF OnBodyRead

\* The pause is over, or was cut short.
LEMMA OnWakeUpPreserves == ASSUME IInv, OnWakeUp PROVE IInv'
<1>1. /\ phase = "sleeping" /\ fetch # "pending" /\ stream # "streaming"
      /\ UNCHANGED <<callerVars, body>>
      /\ stream \in Streams /\ body \in Events
  BY DEF IInv, PhaseInvariant, TypeOK, OnWakeUp
<1>2. CASE aborted
  BY <1>1, <1>2, AbortStep DEF OnWakeUp
<1>3. CASE ~aborted
  BY <1>1, <1>3, StartAttemptStep DEF OnWakeUp
<1>4. QED
  BY <1>2, <1>3

-----------------------------------------------------------------------------
\* The attempt's timeout fires.
LEMMA AttemptTimeoutPreserves == ASSUME IInv, AttemptTimeout PROVE IInv'
<1>1. TypeOK'
  BY DEF IInv, TypeOK, AttemptTimeout, AbortAttempt, Promises, Streams, callerVars,
         backoffVars, networkVars
<1>2. Bookkeeping' /\ EarlierAnswersPermitRetry'
  BY DEF IInv, Bookkeeping, EarlierAnswersPermitRetry, AttemptTimeout, networkVars
<1>3. PhaseInvariant' /\ AbortInvariant'
  BY DEF IInv, PhaseInvariant, AbortInvariant, WillRetry, AttemptTimeout, AbortAttempt,
         callerVars, backoffVars
<1>4. PauseHonoursServer' /\ OutcomeMatchesLastAnswer' /\ NoEarlySurrender'
  BY DEF IInv, PauseHonoursServer, OutcomeMatchesLastAnswer, NoEarlySurrender, Settled,
         Last, AttemptTimeout, backoffVars, networkVars
<1>5. QED
  BY <1>1, <1>2, <1>3, <1>4 DEF IInv

\* The pause runs out.
LEMMA PauseElapsesPreserves == ASSUME IInv, PauseElapses PROVE IInv'
<1>1. TypeOK'
  BY DEF IInv, TypeOK, PauseElapses, callerVars, attemptVars, networkVars
<1>2. Bookkeeping' /\ EarlierAnswersPermitRetry'
  BY DEF IInv, Bookkeeping, EarlierAnswersPermitRetry, PauseElapses, networkVars
<1>3. PhaseInvariant' /\ AbortInvariant'
  BY DEF IInv, PhaseInvariant, AbortInvariant, WillRetry, PauseElapses, callerVars,
         attemptVars
<1>4. PauseHonoursServer' /\ OutcomeMatchesLastAnswer' /\ NoEarlySurrender'
  BY DEF IInv, PauseHonoursServer, OutcomeMatchesLastAnswer, NoEarlySurrender, Settled,
         Last, PauseElapses, networkVars
<1>5. QED
  BY <1>1, <1>2, <1>3, <1>4 DEF IInv

\* The caller aborts.
LEMMA CallerAbortsPreserves == ASSUME IInv, CallerAborts PROVE IInv'
<1>1. TypeOK'
  BY DEF IInv, TypeOK, CallerAborts, AbortAttempt, Promises, Streams, networkVars
<1>2. Bookkeeping' /\ EarlierAnswersPermitRetry'
  BY DEF IInv, Bookkeeping, EarlierAnswersPermitRetry, CallerAborts, networkVars
<1>3. PhaseInvariant' /\ AbortInvariant'
  BY DEF IInv, PhaseInvariant, AbortInvariant, WillRetry, CallerAborts, AbortAttempt
<1>4. PauseHonoursServer' /\ OutcomeMatchesLastAnswer' /\ NoEarlySurrender'
  BY DEF IInv, PauseHonoursServer, OutcomeMatchesLastAnswer, NoEarlySurrender, Settled,
         Last, CallerAborts, networkVars
<1>5. QED
  BY <1>1, <1>2, <1>3, <1>4 DEF IInv

\* The caller changes the object it passed.
LEMMA CallerChangesEventPreserves == ASSUME IInv, CallerChangesEvent PROVE IInv'
<1>1. TypeOK'
  BY DEF IInv, TypeOK, CallerChangesEvent, attemptVars, backoffVars, networkVars
<1>2. Bookkeeping' /\ EarlierAnswersPermitRetry'
  BY DEF IInv, Bookkeeping, EarlierAnswersPermitRetry, CallerChangesEvent, networkVars
<1>3. PhaseInvariant' /\ AbortInvariant'
  BY DEF IInv, PhaseInvariant, AbortInvariant, WillRetry, CallerChangesEvent,
         attemptVars, backoffVars
<1>4. PauseHonoursServer' /\ OutcomeMatchesLastAnswer' /\ NoEarlySurrender'
  BY DEF IInv, PauseHonoursServer, OutcomeMatchesLastAnswer, NoEarlySurrender, Settled,
         Last, CallerChangesEvent, backoffVars, networkVars
<1>5. QED
  BY <1>1, <1>2, <1>3, <1>4 DEF IInv

\* The server answers a copy, possibly one the call no longer waits for, possibly
\* after the call settled: the outcome rests on an answer that stays as it was.
LEMMA ServerAnswersPreserves ==
  ASSUME IInv, NEW n \in AttemptNumbers, NEW answer \in Answers, ServerAnswers(n, answer)
  PROVE  IInv'
<1>1. TypeOK'
  BY DEF IInv, TypeOK, ServerAnswers, callerVars, attemptVars, backoffVars
<1>2. Bookkeeping' /\ EarlierAnswersPermitRetry'
  BY DEF IInv, TypeOK, Bookkeeping, EarlierAnswersPermitRetry, ServerAnswers
<1>3. PhaseInvariant' /\ AbortInvariant'
  BY DEF IInv, PhaseInvariant, AbortInvariant, WillRetry, ServerAnswers, callerVars,
         attemptVars, backoffVars
<1>4. PauseHonoursServer'
  BY DEF IInv, PauseHonoursServer, ServerAnswers, backoffVars
<1>5. /\ Last' = Last /\ Last \in 1 .. attempts
      /\ answers[Last] # NoAnswer => answers'[Last] = answers[Last]
  BY DEF IInv, Bookkeeping, TypeOK, Last, ServerAnswers
<1>6. OutcomeMatchesLastAnswer' /\ NoEarlySurrender'
  BY <1>5 DEF IInv, OutcomeMatchesLastAnswer, NoEarlySurrender, Settled, NoAnswer,
              ServerAnswers
<1>7. QED
  BY <1>1, <1>2, <1>3, <1>4, <1>6 DEF IInv

\* A copy is lost.
LEMMA CopyLostPreserves ==
  ASSUME IInv, NEW n \in AttemptNumbers, CopyLost(n)
  PROVE  IInv'
<1>1. TypeOK'
  BY DEF IInv, TypeOK, CopyLost, callerVars, attemptVars, backoffVars
<1>2. Bookkeeping' /\ EarlierAnswersPermitRetry'
  BY DEF IInv, Bookkeeping, EarlierAnswersPermitRetry, CopyLost
<1>3. PhaseInvariant' /\ AbortInvariant'
  BY DEF IInv, PhaseInvariant, AbortInvariant, WillRetry, CopyLost, callerVars,
         attemptVars, backoffVars
<1>4. PauseHonoursServer' /\ OutcomeMatchesLastAnswer' /\ NoEarlySurrender'
  BY DEF IInv, PauseHonoursServer, OutcomeMatchesLastAnswer, NoEarlySurrender, Settled,
         Last, CopyLost, backoffVars
<1>5. QED
  BY <1>1, <1>2, <1>3, <1>4 DEF IInv

\* The headers of a response arrive.
LEMMA FetchResolvesPreserves == ASSUME IInv, FetchResolves PROVE IInv'
<1>1. /\ phase = "fetching" /\ ~aborted
      /\ attempts \in AttemptNumbers
  BY DeliveryAssumption DEF IInv, TypeOK, PhaseInvariant, AbortInvariant, FetchResolves,
                            AttemptNumbers, MaximumAttempts
<1>2. TypeOK'
  BY <1>1 DEF IInv, TypeOK, FetchResolves, Promises, Streams, callerVars, backoffVars,
              networkVars
<1>3. Bookkeeping' /\ EarlierAnswersPermitRetry'
  BY <1>1 DEF IInv, TypeOK, Bookkeeping, EarlierAnswersPermitRetry, FetchResolves,
              AttemptNumbers, networkVars
<1>4. PhaseInvariant' /\ AbortInvariant'
  BY <1>1 DEF IInv, TypeOK, PhaseInvariant, AbortInvariant, FetchResolves, callerVars,
              backoffVars
<1>5. PauseHonoursServer' /\ OutcomeMatchesLastAnswer' /\ NoEarlySurrender'
  BY <1>1 DEF PauseHonoursServer, OutcomeMatchesLastAnswer, NoEarlySurrender, Settled,
              FetchResolves
<1>6. QED
  BY <1>2, <1>3, <1>4, <1>5 DEF IInv

\* The request fails on its way.
LEMMA FetchFailsPreserves == ASSUME IInv, FetchFails PROVE IInv'
<1>1. TypeOK'
  BY DEF IInv, TypeOK, FetchFails, Promises, callerVars, backoffVars, networkVars
<1>2. Bookkeeping' /\ EarlierAnswersPermitRetry'
  BY DEF IInv, Bookkeeping, EarlierAnswersPermitRetry, FetchFails, networkVars
<1>3. PhaseInvariant' /\ AbortInvariant'
  BY DEF IInv, PhaseInvariant, AbortInvariant, WillRetry, FetchFails, callerVars,
         backoffVars
<1>4. PauseHonoursServer' /\ OutcomeMatchesLastAnswer' /\ NoEarlySurrender'
  BY DEF IInv, PauseHonoursServer, OutcomeMatchesLastAnswer, NoEarlySurrender, Settled,
         Last, FetchFails, backoffVars, networkVars
<1>5. QED
  BY <1>1, <1>2, <1>3, <1>4 DEF IInv

\* The body is complete, exceeds its bound, or breaks off.
LEMMA BodyEndsPreserves ==
  ASSUME IInv, NEW kind \in {"valid", "invalid", "oversized"},
         BodyArrives(kind) \/ BodyBreaks
  PROVE  IInv'
<1>1. TypeOK'
  BY DEF IInv, TypeOK, BodyArrives, BodyBreaks, Streams, callerVars, backoffVars,
         networkVars
<1>2. Bookkeeping' /\ EarlierAnswersPermitRetry'
  BY DEF IInv, Bookkeeping, EarlierAnswersPermitRetry, BodyArrives, BodyBreaks,
         networkVars
<1>3. PhaseInvariant' /\ AbortInvariant'
  BY DEF IInv, PhaseInvariant, AbortInvariant, WillRetry, BodyArrives, BodyBreaks,
         callerVars, backoffVars
<1>4. PauseHonoursServer' /\ OutcomeMatchesLastAnswer' /\ NoEarlySurrender'
  BY DEF IInv, PauseHonoursServer, OutcomeMatchesLastAnswer, NoEarlySurrender, Settled,
         Last, BodyArrives, BodyBreaks, backoffVars, networkVars
<1>5. QED
  BY <1>1, <1>2, <1>3, <1>4 DEF IInv

-----------------------------------------------------------------------------
\* The invariant is inductive.
LEMMA StepInvariant == IInv /\ [Next]_vars => IInv'
<1> SUFFICES ASSUME IInv, [Next]_vars PROVE IInv'
  OBVIOUS
<1>1. CASE Continuation
  BY <1>1, OnFetchRejectedPreserves, OnResponsePreserves, OnBodyCancelledPreserves,
     OnBodyReadPreserves, OnWakeUpPreserves DEF Continuation
<1>2. CASE Timers
  BY <1>2, AttemptTimeoutPreserves, PauseElapsesPreserves DEF Timers
<1>3. CASE Caller
  BY <1>3, CallPreserves, CallerAbortsPreserves, CallerChangesEventPreserves DEF Caller
<1>4. CASE Network
  BY <1>4, ServerAnswersPreserves, CopyLostPreserves, FetchResolvesPreserves,
     FetchFailsPreserves, BodyEndsPreserves DEF Network
<1>5. CASE UNCHANGED vars
  BY <1>5 DEF vars, IInv, TypeOK, Bookkeeping, EarlierAnswersPermitRetry, PhaseInvariant,
              AbortInvariant, PauseHonoursServer, OutcomeMatchesLastAnswer,
              NoEarlySurrender, Settled, Last, WillRetry
<1>6. QED
  BY <1>1, <1>2, <1>3, <1>4, <1>5 DEF Next

\* The inductive invariant holds in every reachable state.
THEOREM Invariance == Spec => []IInv
  BY InitInvariant, StepInvariant, PTL DEF Spec

\* Every variable of the call keeps its type (node/src/node/delivery.ts, body.ts).
THEOREM TypeCorrect == Spec => []TypeOK
<1>1. IInv => TypeOK
  BY DEF IInv
<1>2. QED
  BY <1>1, Invariance, PTL

\* The promise of an event method settles with what the server's answer to the last
\* copy stands for, and reports as many attempts as copies were sent.
THEOREM OutcomeIsHonest == Spec => []OutcomeMatchesLastAnswer
<1>1. IInv => OutcomeMatchesLastAnswer
  BY DEF IInv
<1>2. QED
  BY <1>1, Invariance, PTL

\* A transient answer becomes an error only when no attempt is left or the server
\* asked for too long a pause.
THEOREM NothingGivesUpEarly == Spec => []NoEarlySurrender
<1>1. IInv => NoEarlySurrender
  BY DEF IInv
<1>2. QED
  BY <1>1, Invariance, PTL

\* All copies of a call carry the event as it was when the method was called.
THEOREM OneEventPerCall == Spec => []CopiesCarryOneEvent
<1>1. IInv => CopiesCarryOneEvent
  BY DEF IInv, Bookkeeping, CopiesCarryOneEvent, Last
<1>2. QED
  BY <1>1, Invariance, PTL

\* A pause honours the server's Retry-After and its cap.
THEOREM PauseIsHonest == Spec => []PauseHonoursServer
<1>1. IInv => PauseHonoursServer
  BY DEF IInv
<1>2. QED
  BY <1>1, Invariance, PTL

\* A call that has ended leaves no timer, no listener and no half-read body.
THEOREM CleansUp == Spec => []NothingLeftBehind
<1>1. IInv => NothingLeftBehind
  BY DEF IInv, PhaseInvariant, NothingLeftBehind, Settled
<1>2. QED
  BY <1>1, Invariance, PTL

\* An aborted call waits for nothing that only a timer or the server could end.
THEOREM AbortIsPrompt == Spec => []AbortNeedsNoTimer
<1>1. IInv => AbortNeedsNoTimer
  BY DEF IInv, AbortInvariant, AbortNeedsNoTimer
<1>2. QED
  BY <1>1, Invariance, PTL

\* A retry leaves only after its pause, and only when every answer the client has
\* seen permits one.
THEOREM RetriesArePermitted == Spec => RetryOnlyWhenPermitted
<1> DEFINE Permitted ==
      copies' # copies /\ attempts > 0 =>
        /\ pause = "elapsed"
        /\ \A n \in 1 .. attempts :
             \/ seen[n] = NoAnswer
             \/ /\ seen[n].status \in RetryableStatuses
                /\ RetryAfterAllowed(seen[n].retryAfter)
<1>1. IInv /\ [Next]_vars => [Permitted]_vars
  <2> SUFFICES ASSUME IInv, Next, copies' # copies, attempts > 0 PROVE Permitted
    OBVIOUS
  <2>1. OnWakeUp /\ ~aborted
    BY DEF Next, Continuation, Timers, Caller, Network, Call, OnFetchRejected, OnResponse,
           OnBodyCancelled, OnBodyRead, OnWakeUp, AttemptTimeout, PauseElapses,
           CallerAborts, CallerChangesEvent, ServerAnswers, CopyLost, FetchResolves,
           FetchFails, BodyArrives, BodyBreaks, Settle, Backoff, networkVars, IInv,
           PhaseInvariant
  <2>2. /\ pause = "elapsed" /\ attempts < MaximumAttempts
        /\ seen[attempts] = NoAnswer \/ WillRetry(seen[attempts])
    BY <2>1 DEF OnWakeUp, IInv, PhaseInvariant
  <2>3. attempts \in Nat /\ MaximumAttempts \in Nat
    BY DeliveryAssumption DEF IInv, TypeOK, MaximumAttempts
  <2>4. QED
    BY <2>2, <2>3 DEF IInv, EarlierAnswersPermitRetry, WillRetry, AttemptNumbers
<1>2. QED
  BY <1>1, Invariance, PTL DEF Spec, RetryOnlyWhenPermitted

\* After an abort no copy leaves, and the call ends with the abort reason unless its
\* acknowledgement had been read.
THEOREM AbortIsFinal == Spec => AbortStopsTheCall
<1> DEFINE Stops ==
      aborted =>
        /\ copies' = copies
        /\ phase' = "settled" /\ ~Settled =>
             \/ outcome'.kind \in {"abort", "validation"}
             \/ outcome'.kind = "ack" /\ phase = "reading" /\ stream = "valid"
<1>1. IInv /\ [Next]_vars => [Stops]_vars
  <2> SUFFICES ASSUME IInv, Next, aborted PROVE Stops
    OBVIOUS
  <2>1. copies' = copies
    BY DEF Next, Continuation, Timers, Caller, Network, Call, OnFetchRejected, OnResponse,
           OnBodyCancelled, OnBodyRead, OnWakeUp, AttemptTimeout, PauseElapses,
           CallerAborts, CallerChangesEvent, ServerAnswers, CopyLost, FetchResolves,
           FetchFails, BodyArrives, BodyBreaks, Settle, networkVars
  <2>2. ASSUME phase' = "settled", phase # "settled"
        PROVE  \/ outcome'.kind \in {"abort", "validation"}
               \/ outcome'.kind = "ack" /\ phase = "reading" /\ stream = "valid"
    <3>1. Call \/ Continuation
      BY <2>2 DEF Next, Timers, Caller, Network, AttemptTimeout, PauseElapses,
             CallerAborts, CallerChangesEvent, ServerAnswers, CopyLost, FetchResolves,
             FetchFails, BodyArrives, BodyBreaks
    <3>2. CASE OnBodyRead
      <4>1. \/ Settle("abort", 0)
            \/ /\ Settle(Classify(seen[attempts].status), attempts)
               /\ Classify(seen[attempts].status) = "ack"
        BY <3>2 DEF OnBodyRead
      <4>2. Classify(seen[attempts].status) = "ack" => stream = "valid"
        BY DEF Classify, StatusKind
      <4>3. QED
        BY <3>2, <4>1, <4>2 DEF OnBodyRead, Settle
    <3>3. CASE Call \/ OnFetchRejected \/ OnResponse \/ OnBodyCancelled \/ OnWakeUp
      BY <3>3 DEF Call, OnFetchRejected, OnResponse, OnBodyCancelled, OnWakeUp, Settle
    <3>4. QED
      BY <3>1, <3>2, <3>3 DEF Continuation
  <2>3. QED
    BY <2>1, <2>2 DEF Settled
<1>2. QED
  BY <1>1, Invariance, PTL DEF Spec, AbortStopsTheCall

-----------------------------------------------------------------------------
(* The call implements EventDelivery.                                      *)

\* The contract's constants are the call's own.
LEMMA ContractConstants ==
  /\ Contract!NoAnswer = NoAnswer
  /\ Contract!Copies = AttemptNumbers
  /\ \A answer \in Answers \cup {NoAnswer} :
       Contract!MayRetry(answer) <=>
         \/ answer = NoAnswer
         \/ answer.status \in RetryableStatuses /\ RetryAfterAllowed(answer.retryAfter)
  /\ \A status \in Nat : Contract!StatusKind(status) = StatusKind(status)
<1>1. Contract!NoAnswer = NoAnswer /\ Contract!Copies = AttemptNumbers
  BY DEF Contract!NoAnswer, NoAnswer, Contract!Copies, AttemptNumbers
<1>2. \A answer \in Answers \cup {NoAnswer} :
        Contract!MayRetry(answer) <=>
          \/ answer = NoAnswer
          \/ answer.status \in RetryableStatuses /\ RetryAfterAllowed(answer.retryAfter)
  BY <1>1 DEF Contract!MayRetry, RetryAfterAllowed
<1>3. \A status \in Nat : Contract!StatusKind(status) = StatusKind(status)
  BY DEF Contract!StatusKind, StatusKind
<1>4. QED
  BY <1>1, <1>2, <1>3

\* A new attempt sends a copy.
LEMMA StartAttemptSendsCopy ==
  ASSUME IInv, NEW payload, StartAttempt(attempts + 1, payload),
         phase = "idle" \/ phase = "sleeping"
  PROVE  Contract!SendCopy
<1>1. Last = attempts /\ Last' = attempts + 1 /\ attempts \in Nat
  BY DeliveryAssumption DEF IInv, TypeOK, Bookkeeping, StartAttempt, Last, MaximumAttempts
<1>2. attempts < MaximumAttempts
  BY DeliveryAssumption DEF IInv, PhaseInvariant, MaximumAttempts
<1>3. ASSUME attempts > 0 PROVE Contract!MayRetry(seen[attempts])
  <2>1. seen[attempts] \in Answers \cup {NoAnswer}
    BY <1>1, <1>2, <1>3, DeliveryAssumption DEF IInv, TypeOK, AttemptNumbers, MaximumAttempts
  <2>2. seen[attempts] = NoAnswer \/ WillRetry(seen[attempts])
    BY <1>3 DEF IInv, PhaseInvariant
  <2>3. QED
    BY <2>1, <2>2, ContractConstants DEF WillRetry
<1>4. outcome.kind = "pending" /\ UNCHANGED <<answers, seen, outcome>>
  BY DEF IInv, PhaseInvariant, StartAttempt
<1>5. QED
  BY <1>1, <1>2, <1>3, <1>4 DEF Contract!SendCopy

\* The call settles in one of the contract's ways.
LEMMA AbortIsCancelled ==
  ASSUME IInv, Settle("abort", 0), phase # "settled"
  PROVE  Contract!Cancelled
<1>1. outcome.kind = "pending" /\ outcome'.kind = "abort"
  BY DEF IInv, PhaseInvariant, Settle
<1>2. UNCHANGED <<Last, answers, seen>>
  BY DEF Settle, networkVars, Last
<1>3. QED
  BY <1>1, <1>2 DEF Contract!Cancelled, Contract!Settle

\* Every step of the SDK is a step of the contract or none.
LEMMA ContinuationImplements ==
  ASSUME IInv, Continuation
  PROVE  [Contract!Next]_(Contract!vars)
<1>1. CASE Settle("abort", 0) /\ phase # "settled"
  BY <1>1, AbortIsCancelled DEF Contract!Next
<1>2. CASE OnFetchRejected /\ ~Settle("abort", 0)
  <2>1. CASE Settle("transport", attempts) /\ attempts = MaximumAttempts
    <3>1. Last = MaximumAttempts /\ seen[Last] = NoAnswer /\ outcome.kind = "pending"
      BY <1>2, <2>1 DEF OnFetchRejected, IInv, Bookkeeping, PhaseInvariant, Last
    <3>2. outcome'.kind = "transport" /\ UNCHANGED <<Last, answers, seen>>
      BY <2>1 DEF Settle, networkVars, Last
    <3>3. QED
      BY <3>1, <3>2, ContractConstants
         DEF Contract!Next, Contract!Unanswered, Contract!Settle
  <2>2. CASE Backoff(Absent)
    BY <2>2 DEF Backoff, networkVars, Contract!vars, Last
  <2>3. QED
    BY <1>2, <2>1, <2>2 DEF OnFetchRejected
<1>3. CASE (OnResponse \/ OnBodyCancelled) /\ ~Settle("abort", 0)
  BY <1>3 DEF OnResponse, OnBodyCancelled, Backoff, networkVars, Contract!vars, Last
<1>4. CASE OnBodyRead /\ ~Settle("abort", 0)
  <2> DEFINE status == seen[attempts].status
             kind   == Classify(status)
  <2>1. Settle(kind, attempts)
    BY <1>4 DEF OnBodyRead
  <2>2. /\ phase = "reading" /\ outcome.kind = "pending" /\ seen[attempts] # NoAnswer
        /\ ~WillRetry(seen[attempts]) /\ Last = attempts /\ attempts > 0
        /\ attempts \in AttemptNumbers
    BY <1>4, DeliveryAssumption
       DEF OnBodyRead, IInv, TypeOK, PhaseInvariant, Bookkeeping, Last, AttemptNumbers,
           MaximumAttempts
  <2>3. seen[attempts] \in Answers \cup {NoAnswer} /\ status \in Nat
    BY <2>2, AnswerType DEF IInv, TypeOK
  <2>4. outcome'.kind = kind /\ UNCHANGED <<Last, answers, seen>>
    BY <2>1 DEF Settle, networkVars, Last
  <2>5. CASE status = 200
    BY <2>2, <2>3, <2>4, <2>5, ClassifyMatchesStatus
       DEF Contract!Next, Contract!Accepted, Contract!Settle
  <2>6. CASE status # 200
    <3>1. kind = Contract!StatusKind(status)
      BY <2>3, <2>6, ClassifyMatchesStatus, ContractConstants
    <3>2. Contract!MayRetry(seen[attempts]) => attempts = MaximumAttempts
      BY <2>2, <2>3, ContractConstants DEF WillRetry
    <3>3. QED
      BY <2>2, <2>4, <2>6, <3>1, <3>2, ContractConstants
         DEF Contract!Next, Contract!Refused, Contract!Settle
  <2>7. QED
    BY <2>5, <2>6
<1>5. CASE OnWakeUp /\ ~Settle("abort", 0)
  BY <1>5, StartAttemptSendsCopy DEF OnWakeUp, Contract!Next
<1>6. phase # "settled"
  BY DEF Continuation, OnFetchRejected, OnResponse, OnBodyCancelled, OnBodyRead, OnWakeUp
<1>7. QED
  BY <1>1, <1>2, <1>3, <1>4, <1>5, <1>6 DEF Continuation

\* The caller's call sends the first copy, or settles the call.
LEMMA CallImplements ==
  ASSUME IInv, Call
  PROVE  Contract!Next
<1>1. /\ phase = "idle" /\ attempts = 0 /\ outcome.kind = "pending" /\ Last = 0
  BY DEF IInv, Call, PhaseInvariant, Bookkeeping, Last
<1>2. CASE Settle("validation", 0)
  <2>1. outcome'.kind = "validation" /\ UNCHANGED <<Last, answers, seen>>
    BY <1>2 DEF Settle, networkVars, Last
  <2>2. QED
    BY <1>1, <2>1 DEF Contract!Next, Contract!Invalid, Contract!Settle
<1>3. CASE Settle("abort", 0)
  BY <1>1, <1>3, AbortIsCancelled DEF Contract!Next
<1>4. CASE StartAttempt(1, event)
  <2>1. PICK payload : payload = event
    OBVIOUS
  <2>2. StartAttempt(attempts + 1, payload)
    BY <1>1, <1>4, <2>1
  <2>3. QED
    BY <1>1, <2>2, StartAttemptSendsCopy DEF Contract!Next
<1>5. QED
  BY <1>2, <1>3, <1>4 DEF Call

\* Network and server take the contract's steps about answers, or none.
LEMMA NetworkImplements ==
  ASSUME IInv, Network
  PROVE  [Contract!Next]_(Contract!vars)
<1>1. ASSUME NEW n \in AttemptNumbers, NEW answer \in Answers, ServerAnswers(n, answer)
      PROVE  Contract!Next
  <2>1. n <= Last /\ answers[n] = NoAnswer
    BY <1>1 DEF ServerAnswers, IInv, Bookkeeping, Last
  <2>2. /\ answers' = [answers EXCEPT ![n] = answer]
        /\ UNCHANGED <<Last, seen, outcome>>
    BY <1>1 DEF ServerAnswers, Last
  <2>3. QED
    BY <2>1, <2>2, ContractConstants DEF Contract!Next, Contract!Answer
<1>2. CASE FetchResolves
  <2>1. /\ phase = "fetching" /\ seen[attempts] = NoAnswer /\ Last = attempts
        /\ attempts > 0 /\ outcome.kind = "pending"
    BY <1>2, DeliveryAssumption
       DEF FetchResolves, IInv, TypeOK, PhaseInvariant, Bookkeeping, Last, MaximumAttempts
  <2>2. /\ seen' = [seen EXCEPT ![attempts] = answers[attempts]]
        /\ answers[attempts] # NoAnswer /\ UNCHANGED <<Last, answers, outcome>>
    BY <1>2 DEF FetchResolves, networkVars, Last
  <2>3. QED
    BY <2>1, <2>2, ContractConstants DEF Contract!Next, Contract!SeeAnswer
<1>3. ASSUME NEW n \in AttemptNumbers, CopyLost(n) PROVE UNCHANGED Contract!vars
  BY <1>3 DEF CopyLost, Contract!vars, Last
<1>4. ASSUME NEW kind, FetchFails \/ BodyArrives(kind) \/ BodyBreaks
      PROVE  UNCHANGED Contract!vars
  BY <1>4 DEF FetchFails, BodyArrives, BodyBreaks, networkVars, Contract!vars, Last
<1>5. QED
  BY <1>1, <1>2, <1>3, <1>4 DEF Network

\* One call of the Node client does what the contract of the SDKs promises, and
\* nothing else.
THEOREM Implementation == Spec => ImplementsContract
<1>1. Init => Contract!Init
  BY ContractConstants DEF Init, Contract!Init, Last
<1>2. IInv /\ [Next]_vars => [Contract!Next]_(Contract!vars)
  <2> SUFFICES ASSUME IInv, [Next]_vars PROVE [Contract!Next]_(Contract!vars)
    OBVIOUS
  <2>1. CASE CallerAborts \/ CallerChangesEvent \/ Timers \/ UNCHANGED vars
    BY <2>1 DEF CallerAborts, CallerChangesEvent, Timers, AttemptTimeout, PauseElapses,
                networkVars, vars, Contract!vars, Last
  <2>2. QED
    BY <2>1, ContinuationImplements, CallImplements, NetworkImplements DEF Next, Caller
<1>3. QED
  BY <1>1, <1>2, Invariance, PTL DEF Spec, ImplementsContract, Contract!Spec
=============================================================================
