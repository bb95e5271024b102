-------------------------- MODULE PythonClientProofs --------------------------
(***************************************************************************)
(* Proofs about one call of the synchronous Python client, for every       *)
(* number of retries, timeout, limit on a body and set of answers.         *)
(* ClientInvariant is inductive.  Its clock says how far a read may lag    *)
(* behind the deadline, in ticks of the operation that is under way, and   *)
(* its body says what the buffer holds of the answer the call has seen.    *)
(***************************************************************************)
EXTENDS PythonClient, TLAPS

\* The answer, or its absence, leaves room for another attempt.
PermitsRetry(answer) ==
  \/ answer = NoAnswer
  \/ answer.status \in RetryableStatuses /\ RetryAfterAllowed(answer.retryAfter)

\* Copies handed to httpx: the attempt that found the pool closed sends none.
Sent == IF outcome = "closed" THEN attempts - 1 ELSE attempts

\* A copy is on its way, answered or lost once it was written; the call sees what the
\* server answered, and went on only after answers that permit it.
Bookkeeping ==
  /\ inFlight \subseteq 1 .. Sent
  /\ pc \in {"connecting", "writing"} => attempts \notin inFlight /\ answers[attempts] = NoAnswer
  /\ \A n \in AttemptNumbers :
       /\ answers[n] # NoAnswer => n <= Sent /\ n \notin inFlight
       /\ seen[n] # NoAnswer => n <= Sent /\ seen[n] = answers[n]
       /\ n < attempts => PermitsRetry(seen[n])

\* What the thread blocks in says what it has seen.
WhereItBlocks ==
  /\ pc = "idle" => attempts = 0
  /\ pc \in Sending \cup {"reading", "sleeping"} => attempts > 0
  /\ pc \in Sending => seen[attempts] = NoAnswer
  /\ pc = "reading" => seen[attempts] # NoAnswer
  /\ pc = "sleeping" => attempts <= RetryCount /\ PermitsRetry(seen[attempts])
  /\ pc # "returned" <=> outcome = "pending"

\* The buffer is empty before the headers are there; then it holds a part of the body,
\* and has room.
BodyInvariant ==
  /\ pc \in Sending => length = 0
  /\ pc = "reading" => length <= MaxResponseBytes /\ length <= seen[attempts].body.size

\* Since the deadline and the last read that brought no chunk, only the read under way
\* has taken time.
ClockInvariant ==
  pc = "reading" => elapsed <= Larger(silentAt, Timeout) + waited

ClientInvariant ==
  /\ TypeOK
  /\ Bookkeeping
  /\ WhereItBlocks
  /\ BodyInvariant
  /\ ClockInvariant
  /\ PauseHonoursServer
  /\ AcknowledgedInFull

-----------------------------------------------------------------------------
(* Lemmas about answers, pauses, bodies and the instance of the contract.  *)

\* The numbers of the instance are natural numbers.
LEMMA Numbers ==
  /\ MaximumAttempts \in Nat /\ MaximumAttempts = RetryCount + 1 /\ RetryCount \in Nat
  /\ Timeout \in Nat /\ Horizon \in Nat /\ MaxResponseBytes \in Nat
  /\ AttemptNumbers = 1 .. MaximumAttempts
  BY DeliveryAssumption, ProtocolAssumption DEF MaximumAttempts, AttemptNumbers

\* An answer is a record with a status, a Retry-After and a body; a missing one has
\* a status that is no HTTP status.
LEMMA AnswerType ==
  ASSUME NEW answer \in Answers \cup {NoAnswer}
  PROVE  /\ answer.status \in Nat
         /\ answer.retryAfter \in Nat \cup {Absent}
         /\ answer = NoAnswer <=> answer.status = 0
         /\ answer = NoAnswer => answer.retryAfter = Absent
         /\ answer # NoAnswer => answer.body \in Bodies
<1>1. CASE answer = NoAnswer
  BY <1>1 DEF NoAnswer
<1>2. CASE answer \in Answers
  BY <1>2, DeliveryAssumption DEF NoAnswer
<1>3. QED
  BY <1>1, <1>2

\* The jitter is drawn from a set of integers.
LEMMA DelayBoundType ==
  ASSUME NEW n \in Nat
  PROVE  PythonDelayBound(n) \in Int
<1>1. Lesser(Larger(n, 1), 5) - 1 \in Nat
  BY DEF Lesser, Larger
<1>2. 2 ^ (Lesser(Larger(n, 1), 5) - 1) \in Int
  BY <1>1
<1>3. QED
  BY <1>2, PolicyAssumption DEF PythonDelayBound, Lesser

\* retry_delay after an answer that permits a retry lies between what the server asked
\* for and the larger of that and the jitter bound.
LEMMA RetryDelayBounds ==
  ASSUME NEW answer \in Answers \cup {NoAnswer}, PermitsRetry(answer),
         NEW n \in Nat, NEW jitter \in 0 .. PythonDelayBound(n)
  PROVE  LET requested == OrZero(answer.retryAfter)
             pause     == PythonRetryDelay(answer.retryAfter, jitter)
         IN  /\ pause \in Nat
             /\ requested <= pause
             /\ pause <= Larger(PythonDelayBound(n), requested)
             /\ requested <= MaximumRetryAfter
<1>1. PythonDelayBound(n) \in Int /\ jitter \in Nat /\ jitter <= PythonDelayBound(n)
  BY DelayBoundType
<1>2. /\ answer.retryAfter \in Nat \cup {Absent}
      /\ answer.retryAfter = Absent \/ answer.retryAfter <= MaximumRetryAfter
  BY AnswerType DEF PermitsRetry, RetryAfterAllowed
<1>3. QED
  BY <1>1, <1>2, PolicyAssumption DEF OrZero, PythonRetryDelay, Larger, Absent

\* The envelope received() hands to decode is that of the body as far as it was kept.
LEMMA ReceivedEnvelope ==
  ASSUME NEW answer \in Answers, NEW bytes \in Nat, bytes <= MaxResponseBytes
  PROVE  Parse(answer.body, Lesser(bytes, MaxResponseBytes)) = "ack"
           <=> answer.body.json <= bytes /\ answer.body.kind = "ack"
<1>1. Lesser(bytes, MaxResponseBytes) = bytes
  BY DEF Lesser
<1>2. answer.body \in Bodies
  BY DeliveryAssumption
<1>3. QED
  BY <1>1, <1>2 DEF Parse, Bodies

\* What decode makes of a response of which bytes were read: an error of every status
\* but 200, and of a 200 an acknowledgement when its body ended by itself and all of its
\* JSON text fits the limit.
DecodedTo(answer, bytes, failed, result) ==
  /\ answer.status # 200 =>
       /\ result.kind = Contract!StatusKind(answer.status)
       /\ result.kind \in {"auth", "notFound", "api"}
       /\ result.message \in {"server", "reason phrase", "status text"}
  /\ answer.status = 200 =>
       /\ result.kind \in {"ack", "decode"}
       /\ result.message = "none"
       /\ result.kind = "ack" <=> /\ ~failed /\ bytes <= MaxResponseBytes
                                 /\ answer.body.json <= bytes /\ answer.body.kind = "ack"

\* The verdict on a status other than 200, however its body ended.
LEMMA DecodeError ==
  ASSUME NEW answer \in Answers, NEW bytes \in Nat, NEW failed \in BOOLEAN,
         answer.status # 200
  PROVE  DecodedTo(answer, bytes, failed, Decode(Received(answer, bytes, failed)))
<1> DEFINE response == Received(answer, bytes, failed)
           result   == Decode(response)
<1>1. result.kind = ErrorKind(answer.status)
  BY DEF Received, Decode
<1>2. ErrorKind(answer.status) = Contract!StatusKind(answer.status)
      /\ ErrorKind(answer.status) \in {"auth", "notFound", "api"}
  BY DEF ErrorKind, Contract!StatusKind
<1>3. result.message \in {"server", "reason phrase", "status text"}
  BY DEF Received, Decode
<1> HIDE DEF result
<1>4. DecodedTo(answer, bytes, failed, result)
  BY <1>1, <1>2, <1>3 DEF DecodedTo
<1>5. QED
  BY <1>4, Zenon DEF result

\* The verdict on a 200 whose body ended by itself.
LEMMA DecodeWhole ==
  ASSUME NEW answer \in Answers, NEW bytes \in Nat, answer.status = 200
  PROVE  DecodedTo(answer, bytes, FALSE, Decode(Received(answer, bytes, FALSE)))
<1>1. PICK response : response = Received(answer, bytes, FALSE)
  OBVIOUS
<1>2. /\ response.status = 200 /\ ~response.failed
      /\ response.truncated = (bytes > MaxResponseBytes)
      /\ response.envelope = Parse(answer.body, Lesser(bytes, MaxResponseBytes))
  BY <1>1 DEF Received
<1>3. PICK result : result = Decode(response)
  OBVIOUS
<1>4. /\ result.message = "none" /\ result.kind \in {"ack", "decode"}
      /\ result.kind = "ack" <=> ~response.truncated /\ response.envelope = "ack"
  BY <1>2, <1>3 DEF Decode, Acknowledgement
<1>5. result.kind = "ack" <=> /\ bytes <= MaxResponseBytes
                              /\ answer.body.json <= bytes /\ answer.body.kind = "ack"
  <2>1. bytes > MaxResponseBytes <=> ~(bytes <= MaxResponseBytes)
    BY Numbers
  <2>2. ~response.truncated <=> bytes <= MaxResponseBytes
    BY <1>2, <2>1
  <2>3. bytes <= MaxResponseBytes =>
          (response.envelope = "ack"
             <=> answer.body.json <= bytes /\ answer.body.kind = "ack")
    BY <1>2, ReceivedEnvelope
  <2>4. QED
    BY <1>4, <2>2, <2>3
<1>6. DecodedTo(answer, bytes, FALSE, result)
  BY <1>4, <1>5 DEF DecodedTo
<1>7. QED
  BY <1>1, <1>3, <1>6, Zenon

\* The verdict on a 200 whose body failed, whatever had been read of it.
LEMMA DecodeFailed ==
  ASSUME NEW answer \in Answers, NEW bytes \in Nat, answer.status = 200
  PROVE  DecodedTo(answer, bytes, TRUE, Decode(Received(answer, bytes, TRUE)))
<1>1. PICK response : response = Received(answer, bytes, TRUE)
  OBVIOUS
<1>2. /\ response.status = 200
      /\ response.truncated = (bytes > MaxResponseBytes)
      /\ response.failed = (TRUE /\ bytes <= MaxResponseBytes)
  BY <1>1 DEF Received
<1>3. response.failed \/ response.truncated
  <2>1. bytes <= MaxResponseBytes \/ bytes > MaxResponseBytes
    BY Numbers
  <2>2. QED
    BY <1>2, <2>1
<1>4. PICK result : result = Decode(response)
  OBVIOUS
<1>5. result.message = "none" /\ result.kind = "decode"
  BY <1>2, <1>3, <1>4 DEF Decode, Acknowledgement
<1>6. DecodedTo(answer, bytes, TRUE, result)
  BY <1>5 DEF DecodedTo
<1>7. QED
  BY <1>1, <1>4, <1>6, Zenon

\* The verdict on any body.
LEMMA Decoded ==
  ASSUME NEW answer \in Answers, NEW bytes \in Nat, NEW failed \in BOOLEAN
  PROVE  DecodedTo(answer, bytes, failed, Decode(Received(answer, bytes, failed)))
<1>1. CASE answer.status # 200
  BY <1>1, DecodeError, Zenon
<1>2. CASE answer.status = 200
  <2>1. /\ DecodedTo(answer, bytes, TRUE, Decode(Received(answer, bytes, TRUE)))
        /\ DecodedTo(answer, bytes, FALSE, Decode(Received(answer, bytes, FALSE)))
    BY <1>2, DecodeWhole, DecodeFailed, Zenon
  <2>2. failed = TRUE \/ failed = FALSE
    OBVIOUS
  <2>3. QED
    BY <2>1, <2>2, Zenon
<1>3. QED
  BY <1>1, <1>2, Zenon

\* The constants of the contract are those of the call.
LEMMA ContractConstants ==
  /\ Contract!NoAnswer = NoAnswer
  /\ Contract!Copies = AttemptNumbers
  /\ \A answer : Contract!MayRetry(answer) <=> PermitsRetry(answer)
<1>1. Contract!NoAnswer = NoAnswer /\ Contract!Copies = AttemptNumbers
  BY DEF Contract!NoAnswer, NoAnswer, Contract!Copies, AttemptNumbers
<1>2. QED
  BY <1>1 DEF Contract!MayRetry, PermitsRetry, RetryAfterAllowed

\* The attempt under way has a number, and the answers to it a type.
LEMMA AttemptUnderWay ==
  ASSUME ClientInvariant
  PROVE  /\ attempts \in Nat /\ attempts <= MaximumAttempts
         /\ pc \in Sending \cup {"reading", "sleeping"} =>
              attempts \in AttemptNumbers /\ seen[attempts] \in Answers \cup {NoAnswer}
         /\ pc = "reading" => seen[attempts] \in Answers
<1>1. /\ attempts \in 0 .. MaximumAttempts
      /\ seen \in [AttemptNumbers -> Answers \cup {NoAnswer}]
  BY DEF ClientInvariant, TypeOK
<1>2. pc \in Sending \cup {"reading", "sleeping"} => attempts \in AttemptNumbers
  BY <1>1, Numbers DEF ClientInvariant, WhereItBlocks
<1>3. QED
  BY <1>1, <1>2, Numbers DEF ClientInvariant, WhereItBlocks

\* The clocks count ticks.
LEMMA ClockTypes ==
  ASSUME ClientInvariant
  PROVE  /\ elapsed \in Nat /\ silentAt \in Nat /\ waited \in Nat
         /\ elapsed <= Horizon /\ silentAt <= Horizon /\ waited <= Timeout
<1>1. {elapsed, silentAt} \subseteq 0 .. Horizon /\ waited \in 0 .. Timeout
  BY DEF ClientInvariant, TypeOK
<1>2. QED
  BY <1>1, Numbers

\* The initial states satisfy the invariant.
LEMMA InitInvariant == Init => ClientInvariant
<1> SUFFICES ASSUME Init PROVE ClientInvariant
  OBVIOUS
<1>1. TypeOK
  <2>1. /\ attempts \in 0 .. MaximumAttempts /\ waited \in 0 .. Timeout
        /\ length \in 0 .. MaxResponseBytes + 1 /\ delay \in Nat
        /\ {elapsed, silentAt} \subseteq 0 .. Horizon
    BY Numbers DEF Init
  <2>2. /\ seen \in [AttemptNumbers -> Answers \cup {NoAnswer}]
        /\ answers \in [AttemptNumbers -> Answers \cup {NoAnswer}]
    BY DEF Init
  <2>3. QED
    BY <2>1, <2>2 DEF Init, TypeOK
<1>2. Bookkeeping
  BY Numbers DEF Init, Bookkeeping, Sent
<1>3. WhereItBlocks /\ BodyInvariant /\ ClockInvariant
  BY DEF Init, WhereItBlocks, BodyInvariant, ClockInvariant, Sending
<1>4. PauseHonoursServer /\ AcknowledgedInFull
  BY DEF Init, PauseHonoursServer, AcknowledgedInFull
<1>5. QED
  BY <1>1, <1>2, <1>3, <1>4 DEF ClientInvariant

-----------------------------------------------------------------------------
(* The pieces of the thread's steps keep the invariant.                    *)

\* The call sleeps after an attempt whose answer permits another one.
LEMMA SleepStep ==
  ASSUME ClientInvariant, pc \in Sending \cup {"reading"}, attempts <= RetryCount,
         PermitsRetry(seen[attempts]), Sleep(seen[attempts].retryAfter),
         UNCHANGED <<poolVars, attempts, clockVars, seen, networkVars>>,
         length' \in 0 .. MaxResponseBytes + 1, broken' \in BOOLEAN
  PROVE  ClientInvariant'
<1> DEFINE requested == OrZero(seen[attempts].retryAfter)
<1>1. attempts \in AttemptNumbers /\ attempts \in Nat
  BY AttemptUnderWay
<1>2. seen[attempts] \in Answers \cup {NoAnswer}
  BY AttemptUnderWay
<1>3. PICK jitter \in 0 .. PythonDelayBound(attempts) :
        delay' = PythonRetryDelay(seen[attempts].retryAfter, jitter)
  BY DEF Sleep
<1>4. /\ delay' \in Nat /\ requested <= delay'
      /\ delay' <= Larger(PythonDelayBound(attempts), requested)
      /\ requested <= MaximumRetryAfter
  BY <1>1, <1>2, <1>3, RetryDelayBounds
<1>5. pc' = "sleeping" /\ UNCHANGED resultVars /\ outcome = "pending"
  BY DEF Sleep, ClientInvariant, WhereItBlocks, Sending
<1>6. TypeOK'
  BY <1>4, <1>5 DEF ClientInvariant, TypeOK, poolVars, clockVars, resultVars, networkVars
<1>7. Bookkeeping'
  BY <1>5 DEF ClientInvariant, Bookkeeping, Sent, PermitsRetry, resultVars, networkVars
<1>8. WhereItBlocks' /\ BodyInvariant' /\ ClockInvariant'
  BY <1>5 DEF ClientInvariant, WhereItBlocks, BodyInvariant, ClockInvariant, PermitsRetry,
              resultVars, Sending
<1>9. PauseHonoursServer'
  <2>1. PythonDelayBound(attempts)' = PythonDelayBound(attempts)
    OBVIOUS
  <2>2. QED
    BY <1>4, <2>1 DEF PauseHonoursServer
<1>10. AcknowledgedInFull'
  BY <1>5 DEF AcknowledgedInFull, resultVars
<1>11. QED
  BY <1>6, <1>7, <1>8, <1>9, <1>10 DEF ClientInvariant

\* The event method ends with what the last attempt came to.
LEMMA ReturnStep ==
  ASSUME ClientInvariant, pc # "returned", NEW result, Return(result),
         result.kind \in {"ack", "decode", "auth", "notFound", "api", "transport", "validation"},
         result.message \in {"none", "server", "reason phrase", "status text"},
         UNCHANGED <<poolVars, attempts, clockVars, delay, seen, networkVars>>,
         length' \in 0 .. MaxResponseBytes + 1, broken' \in BOOLEAN, AcknowledgedInFull'
  PROVE  ClientInvariant'
<1>1. TypeOK'
  BY DEF ClientInvariant, TypeOK, Return, poolVars, clockVars, networkVars
<1>2. Bookkeeping'
  BY DEF ClientInvariant, Bookkeeping, WhereItBlocks, Sent, PermitsRetry, Return, networkVars
<1>3. WhereItBlocks' /\ BodyInvariant' /\ ClockInvariant'
  BY DEF WhereItBlocks, BodyInvariant, ClockInvariant, Return, Sending
<1>4. PauseHonoursServer'
  BY DEF PauseHonoursServer, Return
<1>5. QED
  BY <1>1, <1>2, <1>3, <1>4 DEF ClientInvariant

\* The body has ended, unread bytes being left only after a failure or beyond the limit.
LEMMA FinishBodyStep ==
  ASSUME ClientInvariant, pc = "reading", NEW bytes \in 0 .. MaxResponseBytes + 1,
         NEW failed \in BOOLEAN, FinishBody(bytes, failed),
         failed => bytes <= MaxResponseBytes,
         ~failed => bytes > MaxResponseBytes \/ bytes = seen[attempts].body.size
  PROVE  ClientInvariant'
<1> DEFINE answer == seen[attempts]
           result == Decode(Received(answer, bytes, failed))
<1>0. answer \in Answers /\ bytes \in Nat
  BY AttemptUnderWay, Numbers
<1>1. /\ attempts \in AttemptNumbers /\ answer \in Answers
      /\ bytes \in Nat /\ UNCHANGED <<poolVars, attempts, clockVars, seen, networkVars>>
  BY <1>0, AttemptUnderWay DEF FinishBody
<1>2. CASE /\ answer.status \in RetryableStatuses /\ attempts <= RetryCount
           /\ RetryAfterAllowed(answer.retryAfter)
  BY <1>1, <1>2, SleepStep DEF FinishBody, PermitsRetry
<1>3. DecodedTo(answer, bytes, failed, result)
  BY <1>0, Decoded, Zenon
<1>4. CASE Return(result) /\ UNCHANGED delay
  <2> HIDE DEF result
  <2>1. /\ outcome' = result.kind /\ length' = bytes /\ broken' = failed
        /\ seen'[attempts'] = answer
    BY <1>1, <1>4 DEF Return, FinishBody
  <2>2. /\ result.kind \in {"ack", "decode", "auth", "notFound", "api"}
        /\ result.message \in {"none", "server", "reason phrase", "status text"}
    BY <1>3 DEF DecodedTo
  <2>3. CASE answer.status # 200
    <3>1. outcome' \notin {"ack", "decode"}
      BY <1>3, <2>1, <2>3 DEF DecodedTo
    <3>2. AcknowledgedInFull'
      BY <3>1 DEF AcknowledgedInFull
    <3>3. QED
      BY <1>1, <1>4, <2>1, <2>2, <3>2, ReturnStep
  <2>4. CASE answer.status = 200
    <3>1. outcome' = "ack" <=> /\ ~failed /\ bytes <= MaxResponseBytes
                               /\ answer.body.json <= bytes /\ answer.body.kind = "ack"
      BY <1>3, <2>1, <2>4 DEF DecodedTo
    <3>2. answer.body \in Bodies
      BY <1>0, DeliveryAssumption
    <3>3. answer.body.json <= answer.body.size /\ answer.body.size \in Nat
      BY <3>2 DEF Bodies
    <3>4. outcome' = "ack" <=> /\ ~failed /\ bytes = answer.body.size
                               /\ bytes <= MaxResponseBytes /\ answer.body.kind = "ack"
      BY <1>1, <3>1, <3>3, Numbers
    <3>5. AcknowledgedInFull'
      BY <2>1, <3>4 DEF AcknowledgedInFull
    <3>6. QED
      BY <1>1, <1>4, <2>1, <2>2, <3>5, ReturnStep
  <2>5. QED
    BY <2>3, <2>4
<1>5. QED
  BY <1>2, <1>4 DEF FinishBody

\* The next attempt starts, or finds the pool closed.
LEMMA StartAttemptStep ==
  ASSUME ClientInvariant, pc \in {"idle", "sleeping"}, StartAttempt(attempts + 1)
  PROVE  ClientInvariant'
<1>1. /\ attempts \in Nat /\ attempts + 1 \in AttemptNumbers /\ attempts < MaximumAttempts
      /\ attempts + 1 \in 0 .. MaximumAttempts
      /\ outcome = "pending" /\ Sent = attempts
  BY AttemptUnderWay, Numbers DEF ClientInvariant, WhereItBlocks, Sent
<1>2. /\ answers[attempts + 1] = NoAnswer /\ seen[attempts + 1] = NoAnswer
      /\ attempts + 1 \notin inFlight
  BY <1>1, Numbers DEF ClientInvariant, Bookkeeping
<1>3. /\ pc' \in {"connecting", "returned"} /\ attempts' = attempts + 1
      /\ outcome' \in {"pending", "closed"} /\ message' \in {message, "none"}
      /\ pc' = "returned" <=> outcome' = "closed"
      /\ Sent' >= attempts
      /\ pc' = "connecting" => Sent' = attempts + 1
  BY <1>1 DEF StartAttempt, Return, resultVars, Sent
<1>4. TypeOK'
  <2>1. /\ waited' \in 0 .. Timeout /\ delay' \in Nat
        /\ length' \in 0 .. MaxResponseBytes + 1
        /\ {elapsed', silentAt'} \subseteq 0 .. Horizon
    <3>1. /\ elapsed' = 0 /\ silentAt' = 0 /\ delay' = 0 /\ waited' = 0 /\ length' = 0
      BY DEF StartAttempt
    <3>2. QED
      BY <3>1, Numbers
  <2>2. UNCHANGED <<poolVars, seen, networkVars>> /\ broken' \in BOOLEAN
    BY DEF StartAttempt
  <2>3. QED
    BY <1>1, <1>3, <2>1, <2>2 DEF ClientInvariant, TypeOK, Sending, poolVars, networkVars
<1>5. Bookkeeping'
  <2>1. inFlight' \subseteq 1 .. Sent' /\ Sent' \in Nat
    BY <1>1, <1>3 DEF ClientInvariant, Bookkeeping, StartAttempt, networkVars, Sent
  <2>2. ASSUME NEW n \in AttemptNumbers
        PROVE  /\ answers[n] # NoAnswer => n <= Sent' /\ n \notin inFlight
               /\ seen[n] # NoAnswer => n <= Sent' /\ seen[n] = answers[n]
               /\ n < attempts + 1 => PermitsRetry(seen[n])
    <3>1. n \in Nat /\ n < attempts + 1 => n < attempts \/ n = attempts
      BY <1>1, Numbers
    <3>2. n < attempts + 1 => PermitsRetry(seen[n])
      BY <1>1, <3>1, Numbers DEF ClientInvariant, Bookkeeping, WhereItBlocks, PermitsRetry
    <3>3. Sent <= Sent' /\ n \in Nat /\ Sent \in Nat
      BY <1>1, <1>3, <2>1, Numbers
    <3>4. QED
      BY <2>1, <3>2, <3>3 DEF ClientInvariant, Bookkeeping
  <2>3. QED
    BY <1>2, <1>3, <2>1, <2>2 DEF Bookkeeping, StartAttempt, networkVars, PermitsRetry
<1>6. WhereItBlocks' /\ BodyInvariant' /\ ClockInvariant'
  BY <1>1, <1>2, <1>3 DEF WhereItBlocks, BodyInvariant, ClockInvariant, StartAttempt, Sending
<1>7. PauseHonoursServer' /\ AcknowledgedInFull'
  BY <1>3 DEF PauseHonoursServer, AcknowledgedInFull
<1>8. QED
  BY <1>4, <1>5, <1>6, <1>7 DEF ClientInvariant

-----------------------------------------------------------------------------
(* The actions keep the invariant.                                         *)

\* An event method up to the first request.
LEMMA CallPreserves ==
  ASSUME ClientInvariant, NEW valid \in BOOLEAN, Call(valid)
  PROVE  ClientInvariant'
<1>1. pc = "idle" /\ attempts = 0
  BY DEF Call, ClientInvariant, WhereItBlocks
<1>2. CASE StartAttempt(1)
  BY <1>1, <1>2, StartAttemptStep
<1>3. CASE /\ Return([kind |-> "validation", message |-> "none"])
           /\ UNCHANGED <<poolVars, attempts, clockVars, bodyVars, delay, seen, networkVars>>
  <2>1. length' \in 0 .. MaxResponseBytes + 1 /\ broken' \in BOOLEAN
    BY <1>3 DEF bodyVars, ClientInvariant, TypeOK
  <2>2. AcknowledgedInFull'
    BY <1>3 DEF Return, AcknowledgedInFull
  <2>3. QED
    BY <1>1, <1>3, <2>1, <2>2, ReturnStep
<1>4. QED
  BY <1>2, <1>3 DEF Call

\* The pause is over.
LEMMA WakeUpPreserves == ASSUME ClientInvariant, WakeUp PROVE ClientInvariant'
  BY StartAttemptStep DEF WakeUp

\* An operation of httpx fails before the headers are there.
LEMMA TransportErrorPreserves == ASSUME ClientInvariant, OnTransportError PROVE ClientInvariant'
<1>1. /\ pc \in Sending /\ seen[attempts] = NoAnswer /\ seen[attempts].retryAfter = Absent
      /\ PermitsRetry(seen[attempts])
  BY DEF OnTransportError, ClientInvariant, WhereItBlocks, NoAnswer, PermitsRetry
<1>2. /\ UNCHANGED <<poolVars, attempts, clockVars, bodyVars, seen, networkVars>>
      /\ length' \in 0 .. MaxResponseBytes + 1 /\ broken' \in BOOLEAN
  BY DEF OnTransportError, bodyVars, ClientInvariant, TypeOK
<1>3. CASE ~(attempts > RetryCount) /\ Sleep(Absent)
  BY <1>1, <1>2, <1>3, AttemptUnderWay, Numbers, SleepStep
<1>4. CASE Return([kind |-> "transport", message |-> "none"]) /\ UNCHANGED delay
  <2>1. pc # "returned"
    BY <1>1 DEF Sending
  <2>2. AcknowledgedInFull'
    BY <1>4 DEF Return, AcknowledgedInFull
  <2>3. QED
    BY <1>2, <1>4, <2>1, <2>2, ReturnStep
<1>5. QED
  BY <1>3, <1>4 DEF OnTransportError

\* Reading fails.
LEMMA BodyErrorPreserves == ASSUME ClientInvariant, OnBodyError PROVE ClientInvariant'
<1>1. pc = "reading" /\ length <= MaxResponseBytes /\ length \in 0 .. MaxResponseBytes + 1
  BY DEF OnBodyError, ClientInvariant, BodyInvariant, TypeOK
<1>2. FinishBody(length, TRUE)
  BY DEF OnBodyError
<1>3. QED
  BY <1>1, <1>2, FinishBodyStep

\* The server's last byte was read.
LEMMA BodyEndsPreserves == ASSUME ClientInvariant, BodyEnds PROVE ClientInvariant'
<1>1. pc = "reading" /\ length \in 0 .. MaxResponseBytes + 1
      /\ length = seen[attempts].body.size
  BY DEF BodyEnds, ClientInvariant, TypeOK
<1>2. FinishBody(length, FALSE)
  BY DEF BodyEnds
<1>3. QED
  BY <1>1, <1>2, FinishBodyStep

\* A chunk arrives.
LEMMA ReadChunkPreserves ==
  ASSUME ClientInvariant, NEW chunk \in 1 .. MaxResponseBytes + 1, ReadChunk(chunk)
  PROVE  ClientInvariant'
<1> DEFINE bytes == Append(length, chunk)
<1>1. /\ pc = "reading" /\ seen[attempts] \in Answers
      /\ length \in 0 .. MaxResponseBytes + 1 /\ chunk <= seen[attempts].body.size - length
  BY AttemptUnderWay DEF ReadChunk, ClientInvariant, TypeOK
<1>2. seen[attempts].body.size \in Nat
  BY <1>1, DeliveryAssumption DEF Bodies
<1>3. /\ bytes \in 0 .. MaxResponseBytes + 1 /\ bytes <= seen[attempts].body.size
      /\ HasRoom(bytes) <=> bytes <= MaxResponseBytes
  <2>1. length \in Nat /\ chunk \in Nat /\ length + chunk <= seen[attempts].body.size
    BY <1>1, <1>2, Numbers
  <2>2. bytes \in Nat /\ bytes <= length + chunk /\ bytes <= MaxResponseBytes + 1
    BY <2>1, Numbers DEF Append, Lesser
  <2> HIDE DEF bytes
  <2>3. bytes \in 0 .. MaxResponseBytes + 1 /\ bytes <= seen[attempts].body.size
    BY <1>2, <2>1, <2>2, Numbers
  <2>4. QED
    BY <2>3 DEF HasRoom
<1>4. CASE ~HasRoom(bytes)
  <2>1. FinishBody(bytes, FALSE) /\ bytes > MaxResponseBytes
    <3>1. FinishBody(bytes, FALSE)
      BY <1>4 DEF ReadChunk
    <3>2. bytes > MaxResponseBytes
      BY <1>3, <1>4, Numbers
    <3>3. QED
      BY <3>1, <3>2
  <2>2. QED
    BY <1>1, <1>3, <2>1, FinishBodyStep
<1>5. CASE HasRoom(bytes) /\ elapsed > Timeout
  <2>1. FinishBody(bytes, TRUE) /\ bytes <= MaxResponseBytes
    BY <1>3, <1>5 DEF ReadChunk
  <2>2. QED
    BY <1>1, <1>3, <2>1, FinishBodyStep
<1>6. CASE HasRoom(bytes) /\ ~(elapsed > Timeout)
  <2>1. /\ length' = bytes /\ waited' = 0
        /\ UNCHANGED <<poolVars, pc, attempts, elapsed, silentAt, broken, delay, seen,
                       resultVars, networkVars>>
    BY <1>6 DEF ReadChunk
  <2>2. TypeOK'
    <3>1. waited' \in 0 .. Timeout
      BY <2>1, Numbers
    <3>2. {elapsed', silentAt'} \subseteq 0 .. Horizon /\ delay' \in Nat
      BY <2>1 DEF ClientInvariant, TypeOK
    <3>3. length' \in 0 .. MaxResponseBytes + 1
      BY <1>3, <2>1
    <3>4. owned' \in BOOLEAN /\ open' \in BOOLEAN /\ broken' \in BOOLEAN
      BY <2>1 DEF ClientInvariant, TypeOK, poolVars
    <3>5. QED
      BY <2>1, <3>1, <3>2, <3>3, <3>4, Zenon
         DEF ClientInvariant, TypeOK, resultVars, networkVars
  <2>3. Bookkeeping' /\ WhereItBlocks' /\ BodyInvariant'
    BY <1>1, <1>3, <1>6, <2>1 DEF ClientInvariant, Bookkeeping, Sent, WhereItBlocks, Sending,
                                  BodyInvariant, HasRoom, PermitsRetry, resultVars, networkVars
  <2>4. ClockInvariant'
    <3>1. elapsed \in Nat /\ silentAt \in Nat
      BY ClockTypes
    <3>2. elapsed <= Timeout
      BY <1>6, <3>1, Numbers
    <3>3. elapsed <= Larger(silentAt, Timeout) + 0
      BY <3>1, <3>2, Numbers DEF Larger
    <3>4. QED
      BY <2>1, <3>3 DEF ClockInvariant
  <2>5. PauseHonoursServer' /\ AcknowledgedInFull'
    BY <1>1, <2>1 DEF PauseHonoursServer, AcknowledgedInFull, ClientInvariant, WhereItBlocks,
                      resultVars
  <2>6. QED
    BY <2>2, <2>3, <2>4, <2>5 DEF ClientInvariant
<1>7. QED
  BY <1>4, <1>5, <1>6

\* A connection is there, or the request is written.
LEMMA ProgressPreserves == ASSUME ClientInvariant, Progress PROVE ClientInvariant'
<1>1. /\ pc \in {"connecting", "writing"} /\ outcome = "pending"
      /\ pc' \in {"writing", "awaiting"} /\ waited' = 0
      /\ pc' = "writing" <=> pc = "connecting"
      /\ inFlight' = IF pc = "writing" THEN inFlight \cup {attempts} ELSE inFlight
      /\ UNCHANGED <<poolVars, attempts, elapsed, silentAt, bodyVars, delay, seen,
                     resultVars, answers>>
  BY DEF Progress, ClientInvariant, WhereItBlocks
<1>2. /\ attempts \in AttemptNumbers /\ attempts \in Nat /\ attempts > 0 /\ Sent = attempts
      /\ attempts \notin inFlight /\ answers[attempts] = NoAnswer
  BY <1>1, AttemptUnderWay DEF ClientInvariant, WhereItBlocks, Bookkeeping, Sending, Sent
<1>3. TypeOK'
  <2>1. waited' \in 0 .. Timeout
    BY <1>1, Numbers
  <2>2. QED
    BY <1>1, <1>2, <2>1 DEF ClientInvariant, TypeOK, Sending, poolVars, bodyVars, resultVars
<1>4. Bookkeeping'
  <2>1. Sent' = Sent
    BY <1>1 DEF Sent, resultVars
  <2>2. QED
    BY <1>1, <1>2, <2>1 DEF ClientInvariant, Bookkeeping, PermitsRetry
<1>5. WhereItBlocks' /\ BodyInvariant' /\ ClockInvariant'
  BY <1>1, <1>2 DEF ClientInvariant, WhereItBlocks, BodyInvariant, ClockInvariant, Sending,
                    resultVars, bodyVars
<1>6. PauseHonoursServer' /\ AcknowledgedInFull'
  BY <1>1 DEF PauseHonoursServer, AcknowledgedInFull, resultVars
<1>7. QED
  BY <1>3, <1>4, <1>5, <1>6 DEF ClientInvariant

\* The headers of the answer arrive; the reading of its body starts with an empty buffer.
LEMMA HeadersArrivePreserves == ASSUME ClientInvariant, HeadersArrive PROVE ClientInvariant'
<1>1. /\ pc = "awaiting" /\ outcome = "pending" /\ pc' = "reading"
      /\ answers[attempts] # NoAnswer
      /\ seen' = [seen EXCEPT ![attempts] = answers[attempts]]
      /\ silentAt' = elapsed /\ waited' = 0
      /\ UNCHANGED <<poolVars, attempts, elapsed, bodyVars, delay, resultVars, networkVars>>
  BY DEF HeadersArrive, ClientInvariant, WhereItBlocks
<1>2. /\ attempts \in AttemptNumbers /\ attempts \in Nat /\ attempts > 0 /\ Sent = attempts
      /\ seen[attempts] = NoAnswer
  BY <1>1, AttemptUnderWay DEF ClientInvariant, WhereItBlocks, Bookkeeping, Sending, Sent
<1>3. /\ answers \in [AttemptNumbers -> Answers \cup {NoAnswer}]
      /\ seen \in [AttemptNumbers -> Answers \cup {NoAnswer}]
  BY DEF ClientInvariant, TypeOK
<1>4. /\ answers[attempts] \in Answers
      /\ seen'[attempts] = answers[attempts]
      /\ \A n \in AttemptNumbers : n # attempts => seen'[n] = seen[n]
      /\ seen' \in [AttemptNumbers -> Answers \cup {NoAnswer}]
  BY <1>1, <1>2, <1>3
<1>5. TypeOK'
  <2>1. waited' \in 0 .. Timeout
    BY <1>1, Numbers
  <2>2. {elapsed', silentAt'} \subseteq 0 .. Horizon /\ delay' \in Nat
    BY <1>1 DEF ClientInvariant, TypeOK
  <2>3. QED
    BY <1>1, <1>4, <2>1, <2>2
       DEF ClientInvariant, TypeOK, Sending, poolVars, bodyVars, resultVars, networkVars
<1>6. Bookkeeping'
  <2>1. Sent' = Sent
    BY <1>1 DEF Sent, resultVars
  <2>2. QED
    BY <1>1, <1>2, <1>4, <2>1 DEF ClientInvariant, Bookkeeping, PermitsRetry, networkVars
<1>7. WhereItBlocks'
  BY <1>1, <1>2, <1>4 DEF ClientInvariant, WhereItBlocks, Sending, resultVars
<1>8. BodyInvariant'
  <2>1. answers[attempts].body.size \in Nat
    BY <1>4, DeliveryAssumption DEF Bodies
  <2>2. length = 0
    BY <1>1 DEF ClientInvariant, BodyInvariant, Sending
  <2>3. QED
    BY <1>1, <1>4, <2>1, <2>2, Numbers DEF BodyInvariant, bodyVars
<1>9. ClockInvariant'
  BY <1>1, ClockTypes, Numbers DEF ClockInvariant, Larger
<1>10. PauseHonoursServer' /\ AcknowledgedInFull'
  BY <1>1 DEF PauseHonoursServer, AcknowledgedInFull, resultVars
<1>11. QED
  BY <1>5, <1>6, <1>7, <1>8, <1>9, <1>10 DEF ClientInvariant

\* A read brings nothing, or a tick passes.
LEMMA ClockPreserves == ASSUME ClientInvariant, SilentRead \/ Tick PROVE ClientInvariant'
<1>1. /\ pc \in Sending \cup {"reading"} /\ pc' = pc
      /\ UNCHANGED <<poolVars, attempts, bodyVars, delay, seen, resultVars, networkVars>>
  BY DEF SilentRead, Tick, Sending
<1>2. /\ elapsed' \in 0 .. Horizon /\ silentAt' \in 0 .. Horizon /\ waited' \in 0 .. Timeout
      /\ pc = "reading" => elapsed' <= Larger(silentAt', Timeout) + waited'
  <2>1. CASE SilentRead
    <3>1. /\ elapsed' = elapsed /\ waited' = 0 /\ silentAt' \in {elapsed, silentAt}
          /\ pc = "reading" => silentAt' = elapsed
      BY <2>1 DEF SilentRead
    <3>2. pc = "reading" => elapsed' <= Larger(silentAt', Timeout) + waited'
      BY <3>1, ClockTypes, Numbers DEF Larger
    <3>3. QED
      BY <3>1, <3>2, ClockTypes, Numbers
  <2>2. CASE Tick
    <3>1. /\ elapsed' = Lesser(elapsed + 1, Horizon) /\ waited' = waited + 1
          /\ silentAt' = silentAt /\ waited < Timeout
      BY <2>2 DEF Tick
    <3>2. elapsed' \in Nat /\ elapsed' <= Horizon /\ elapsed' <= elapsed + 1
      BY <3>1, ClockTypes, Numbers DEF Lesser
    <3>3. PICK start \in Nat : start = Larger(silentAt, Timeout)
      BY ClockTypes, Numbers DEF Larger
    <3>4. pc = "reading" => elapsed <= start + waited
      BY <3>3 DEF ClientInvariant, ClockInvariant
    <3>5. pc = "reading" => elapsed' <= start + waited'
      BY <3>1, <3>2, <3>4, ClockTypes
    <3>6. QED
      BY <3>1, <3>2, <3>3, <3>5, ClockTypes, Numbers
  <2>3. QED
    BY <2>1, <2>2
<1>3. TypeOK'
  <2>1. {elapsed', silentAt'} \subseteq 0 .. Horizon /\ delay' \in Nat
    BY <1>1, <1>2 DEF ClientInvariant, TypeOK
  <2>2. owned' \in BOOLEAN /\ open' \in BOOLEAN /\ broken' \in BOOLEAN
    BY <1>1 DEF ClientInvariant, TypeOK, poolVars, bodyVars
  <2>3. QED
    BY <1>1, <1>2, <2>1, <2>2, Zenon
       DEF ClientInvariant, TypeOK, bodyVars, resultVars, networkVars
<1>4. Bookkeeping' /\ WhereItBlocks' /\ BodyInvariant'
  BY <1>1 DEF ClientInvariant, Bookkeeping, Sent, WhereItBlocks, BodyInvariant, PermitsRetry,
              Sending, bodyVars, resultVars, networkVars
<1>5. ClockInvariant'
  BY <1>1, <1>2 DEF ClockInvariant
<1>6. PauseHonoursServer' /\ AcknowledgedInFull'
  BY <1>1 DEF PauseHonoursServer, AcknowledgedInFull, ClientInvariant, WhereItBlocks, Sending,
              resultVars
<1>7. QED
  BY <1>3, <1>4, <1>5, <1>6 DEF ClientInvariant

\* Another thread closes the client.
LEMMA ClosePreserves == ASSUME ClientInvariant, Close PROVE ClientInvariant'
<1> USE DEF Close, clockVars, bodyVars, resultVars, networkVars
<1>1. TypeOK'
  BY DEF ClientInvariant, TypeOK
<1>2. Bookkeeping' /\ WhereItBlocks' /\ BodyInvariant' /\ ClockInvariant'
  BY DEF ClientInvariant, Bookkeeping, Sent, WhereItBlocks, BodyInvariant, ClockInvariant,
         PermitsRetry
<1>3. PauseHonoursServer' /\ AcknowledgedInFull'
  BY DEF ClientInvariant, PauseHonoursServer, AcknowledgedInFull
<1>4. QED
  BY <1>1, <1>2, <1>3 DEF ClientInvariant

\* A copy is answered or lost, perhaps long after the client gave up on it.
LEMMA CopiesPreserve ==
  ASSUME ClientInvariant, NEW n \in AttemptNumbers,
         CopyLost(n) \/ \E answer \in Answers : ServerAnswers(n, answer)
  PROVE  ClientInvariant'
<1>1. n \in inFlight /\ inFlight' = inFlight \ {n}
      /\ UNCHANGED <<poolVars, pc, attempts, clockVars, bodyVars, delay, seen, resultVars>>
  BY DEF CopyLost, ServerAnswers
<1>2. /\ answers' \in [AttemptNumbers -> Answers \cup {NoAnswer}]
      /\ \A m \in AttemptNumbers : m # n => answers'[m] = answers[m]
  <2>1. answers \in [AttemptNumbers -> Answers \cup {NoAnswer}]
    BY DEF ClientInvariant, TypeOK
  <2>2. QED
    BY <2>1 DEF CopyLost, ServerAnswers
<1>3. /\ n <= Sent /\ answers[n] = NoAnswer /\ seen[n] = NoAnswer
      /\ pc \in {"connecting", "writing"} => n # attempts
  <2>1. n \in 1 .. Sent
    BY <1>1 DEF ClientInvariant, Bookkeeping
  <2>2. n <= Sent
    BY <2>1
  <2>3. answers[n] = NoAnswer
    BY <1>1 DEF ClientInvariant, Bookkeeping
  <2>4. seen[n] = NoAnswer
    BY <2>3 DEF ClientInvariant, Bookkeeping
  <2>5. pc \in {"connecting", "writing"} => n # attempts
    BY <1>1 DEF ClientInvariant, Bookkeeping
  <2>6. QED
    BY <2>2, <2>3, <2>4, <2>5
<1>4. TypeOK'
  <2>1. {elapsed', silentAt'} \subseteq 0 .. Horizon /\ delay' \in Nat
    BY <1>1 DEF ClientInvariant, TypeOK, clockVars
  <2>2. inFlight' \subseteq AttemptNumbers
    BY <1>1 DEF ClientInvariant, TypeOK
  <2>3. owned' \in BOOLEAN /\ open' \in BOOLEAN /\ broken' \in BOOLEAN
    BY <1>1 DEF ClientInvariant, TypeOK, poolVars, bodyVars
  <2>4. QED
    BY <1>1, <1>2, <2>1, <2>2, <2>3, Zenon
       DEF ClientInvariant, TypeOK, clockVars, bodyVars, resultVars
<1>5. Bookkeeping'
  <2>1. Sent' = Sent
    BY <1>1 DEF Sent, resultVars
  <2>2. pc \in {"connecting", "writing"} => answers'[attempts] = NoAnswer
    BY <1>2, <1>3, AttemptUnderWay DEF ClientInvariant, Bookkeeping, Sending
  <2>3. QED
    BY <1>1, <1>2, <1>3, <2>1, <2>2 DEF ClientInvariant, Bookkeeping, PermitsRetry
<1>6. WhereItBlocks' /\ BodyInvariant' /\ ClockInvariant'
  BY <1>1 DEF ClientInvariant, WhereItBlocks, BodyInvariant, ClockInvariant, PermitsRetry,
              clockVars, bodyVars, resultVars
<1>7. PauseHonoursServer' /\ AcknowledgedInFull'
  BY <1>1 DEF ClientInvariant, PauseHonoursServer, AcknowledgedInFull, bodyVars, resultVars
<1>8. QED
  BY <1>4, <1>5, <1>6, <1>7 DEF ClientInvariant

\* The invariant is inductive.
LEMMA StepInvariant == ClientInvariant /\ [Next]_vars => ClientInvariant'
<1> SUFFICES ASSUME ClientInvariant, [Next]_vars PROVE ClientInvariant'
  OBVIOUS
<1>1. CASE (\E valid \in BOOLEAN : Call(valid)) \/ WakeUp
  BY <1>1, CallPreserves, WakeUpPreserves
<1>2. CASE OnTransportError \/ OnBodyError
  BY <1>2, TransportErrorPreserves, BodyErrorPreserves
<1>3. CASE Progress \/ HeadersArrive
  BY <1>3, ProgressPreserves, HeadersArrivePreserves
<1>4. CASE (\E chunk \in 1 .. MaxResponseBytes + 1 : ReadChunk(chunk)) \/ BodyEnds
  BY <1>4, ReadChunkPreserves, BodyEndsPreserves
<1>5. CASE Tick \/ SilentRead \/ Close
  BY <1>5, ClockPreserves, ClosePreserves
<1>6. CASE \E n \in AttemptNumbers :
             CopyLost(n) \/ \E answer \in Answers : ServerAnswers(n, answer)
  BY <1>6, CopiesPreserve
<1>7. CASE UNCHANGED vars
  <2>1. TypeOK' /\ BodyInvariant' /\ AcknowledgedInFull'
    <3>1. TypeOK'
      <4>1. {elapsed', silentAt'} \subseteq 0 .. Horizon /\ delay' \in Nat
        BY <1>7 DEF vars, ClientInvariant, TypeOK
      <4>2. owned' \in BOOLEAN /\ open' \in BOOLEAN /\ broken' \in BOOLEAN
        BY <1>7 DEF vars, ClientInvariant, TypeOK
      <4>3. QED
        BY <1>7, <4>1, <4>2, Zenon DEF vars, ClientInvariant, TypeOK
    <3>2. BodyInvariant' /\ AcknowledgedInFull'
      BY <1>7 DEF vars, ClientInvariant, BodyInvariant, AcknowledgedInFull
    <3>3. QED
      BY <3>1, <3>2
  <2>2. Bookkeeping' /\ WhereItBlocks'
    BY <1>7 DEF vars, ClientInvariant, Bookkeeping, Sent, WhereItBlocks, PermitsRetry
  <2>3. ClockInvariant'
    BY <1>7 DEF vars, ClientInvariant, ClockInvariant
  <2>4. PauseHonoursServer'
    <3>1. attempts' = attempts /\ pc' = pc /\ delay' = delay /\ seen' = seen
      BY <1>7 DEF vars
    <3>2. PythonDelayBound(attempts)' = PythonDelayBound(attempts)
      BY <3>1
    <3>3. QED
      BY <3>1, <3>2 DEF ClientInvariant, PauseHonoursServer
  <2>5. QED
    BY <2>1, <2>2, <2>3, <2>4 DEF ClientInvariant
<1>8. QED
  BY <1>1, <1>2, <1>3, <1>4, <1>5, <1>6, <1>7
     DEF Next, Network, OperationTimesOut, ConnectionFails

-----------------------------------------------------------------------------
(* Theorems about every call.                                              *)

\* The invariant holds throughout a call (_track and _attempt of client.py).
THEOREM Invariance == Spec => []ClientInvariant
  BY InitInvariant, StepInvariant, PTL DEF Spec

\* Every variable of the call keeps its type (client.py, protocol.py): in particular
\* the buffer never holds more than one byte over the limit, and no operation of httpx
\* blocks longer than the timeout.
THEOREM TypeCorrect == Spec => []TypeOK
<1>1. ClientInvariant => TypeOK
  BY DEF ClientInvariant
<1>2. QED
  BY <1>1, Invariance, PTL

\* A pause of _track is at least what the server asked for, at most that or the jitter
\* bound, and an attempt is left after it.
THEOREM PauseIsHonest == Spec => []PauseHonoursServer
<1>1. ClientInvariant => PauseHonoursServer
  BY DEF ClientInvariant
<1>2. QED
  BY <1>1, Invariance, PTL

\* The deadline _attempt looks at between two chunks bounds the reading of a body that
\* comes slowly: one operation of httpx after the deadline, the headers or the last read
\* that brought no chunk, however many chunks there are.
THEOREM BodyReadIsBounded == Spec => []BodyReadBounded
<1>1. ClientInvariant => BodyReadBounded
  <2> SUFFICES ASSUME ClientInvariant, pc = "reading"
               PROVE  elapsed <= Larger(silentAt, Timeout) + Timeout
    BY DEF BodyReadBounded
  <2>1. elapsed <= Larger(silentAt, Timeout) + waited
    BY DEF ClientInvariant, ClockInvariant
  <2>2. /\ Larger(silentAt, Timeout) \in Nat /\ elapsed \in Nat
        /\ waited \in Nat /\ waited <= Timeout
    BY ClockTypes, Numbers DEF Larger
  <2>3. QED
    BY <2>1, <2>2, Numbers
<1>2. QED
  BY <1>1, Invariance, PTL

\* The 200 of a body that was cut off, by the peer, by the limit or by the deadline, is
\* never taken for an acknowledgement, whatever text precedes the cut (protocol.py).
THEOREM AcknowledgedOnlyInFull == Spec => []AcknowledgedInFull
<1>1. ClientInvariant => AcknowledgedInFull
  BY DEF ClientInvariant
<1>2. QED
  BY <1>1, Invariance, PTL

-----------------------------------------------------------------------------
(* The call implements EventDelivery.                                      *)

\* A return after at least one operation is one of the contract's ways to settle.
LEMMA ReturnSettles ==
  ASSUME ClientInvariant, pc # "returned", NEW result, Return(result),
         result.kind # "closed", UNCHANGED <<attempts, seen, networkVars>>
  PROVE  Contract!Settle(result.kind)
<1>1. outcome = "pending" /\ outcome' = result.kind
  BY DEF ClientInvariant, WhereItBlocks, Return
<1>2. QED
  BY <1>1 DEF networkVars, Contract!Settle

\* A new attempt sends a copy, or finds the pool closed and takes no step of the contract.
LEMMA StartAttemptImplements ==
  ASSUME ClientInvariant, pc \in {"idle", "sleeping"}, StartAttempt(attempts + 1)
  PROVE  Contract!SendCopy \/ UNCHANGED Contract!vars
<1>1. /\ outcome = "pending" /\ attempts \in Nat /\ attempts < MaximumAttempts
      /\ attempts > 0 => PermitsRetry(seen[attempts])
  BY AttemptUnderWay, Numbers DEF ClientInvariant, WhereItBlocks
<1>2. attempts' = attempts + 1 /\ UNCHANGED <<seen, networkVars>>
  BY DEF StartAttempt
<1>3. CASE open
  <2>1. outcome' = outcome
    BY <1>3 DEF StartAttempt, resultVars
  <2>2. QED
    BY <1>1, <1>2, <2>1, ContractConstants DEF networkVars, Contract!SendCopy
<1>4. CASE ~open
  <2>1. outcome' = "closed"
    BY <1>4 DEF StartAttempt, Return
  <2>2. attempts' - 1 = attempts
    BY <1>1, <1>2
  <2>3. QED
    BY <1>1, <1>2, <2>1, <2>2 DEF networkVars, Contract!vars
<1>5. QED
  BY <1>3, <1>4

\* The end of a body is a pause or the contract's verdict on the status.
LEMMA FinishBodyImplements ==
  ASSUME ClientInvariant, pc = "reading", NEW bytes \in Nat, NEW failed \in BOOLEAN,
         FinishBody(bytes, failed)
  PROVE  [Contract!Next]_(Contract!vars)
<1> DEFINE answer == seen[attempts]
           result == Decode(Received(answer, bytes, failed))
<1>0. answer \in Answers
  BY AttemptUnderWay
<1>1. /\ attempts \in AttemptNumbers /\ attempts \in Nat /\ attempts > 0
      /\ attempts <= MaximumAttempts /\ answer \in Answers /\ answer # NoAnswer
      /\ answer.status \in Nat /\ outcome = "pending"
      /\ UNCHANGED <<attempts, seen, networkVars>>
  BY AttemptUnderWay, AnswerType DEF FinishBody, ClientInvariant, WhereItBlocks
<1>2. CASE Sleep(answer.retryAfter)
  BY <1>1, <1>2 DEF Sleep, resultVars, networkVars, Contract!vars
<1>D. DecodedTo(answer, bytes, failed, result)
  BY <1>0, Decoded, Zenon
<1> HIDE DEF result
<1>3. CASE Return(result) /\ answer.status = 200
  <2>1. result.kind \in {"ack", "decode"}
    BY <1>D, <1>3 DEF DecodedTo
  <2>2. Contract!Settle(result.kind)
    BY <1>1, <1>3, <2>1, ReturnSettles
  <2>3. QED
    BY <1>1, <1>3, <2>1, <2>2 DEF Contract!Next, Contract!Accepted
<1>4. CASE /\ Return(result) /\ answer.status # 200
           /\ PermitsRetry(answer) => attempts = MaximumAttempts
  <2>1. /\ result.kind = Contract!StatusKind(answer.status)
        /\ result.kind \in {"auth", "notFound", "api"}
    BY <1>D, <1>4 DEF DecodedTo
  <2>2. Contract!Settle(result.kind)
    BY <1>1, <1>4, <2>1, ReturnSettles
  <2>3. QED
    BY <1>1, <1>4, <2>1, <2>2, ContractConstants DEF Contract!Next, Contract!Refused
<1>5. CASE /\ ~ (/\ answer.status \in RetryableStatuses /\ attempts <= RetryCount
                 /\ RetryAfterAllowed(answer.retryAfter))
           /\ Return(result)
  <2>1. PermitsRetry(answer) => attempts = MaximumAttempts
    BY <1>1, <1>5, Numbers DEF PermitsRetry
  <2>2. QED
    BY <1>3, <1>4, <1>5, <2>1
<1>6. QED
  BY <1>2, <1>5 DEF FinishBody, result

\* The steps of the thread, and httpx raising.
LEMMA ThreadImplements ==
  ASSUME ClientInvariant,
         \/ \E valid \in BOOLEAN : Call(valid)
         \/ WakeUp \/ OnTransportError \/ OnBodyError \/ BodyEnds
         \/ \E chunk \in 1 .. MaxResponseBytes + 1 : ReadChunk(chunk)
  PROVE  [Contract!Next]_(Contract!vars)
<1>1. ASSUME NEW valid \in BOOLEAN, Call(valid) PROVE [Contract!Next]_(Contract!vars)
  <2>1. pc = "idle" /\ attempts = 0 /\ outcome = "pending"
    BY <1>1 DEF Call, ClientInvariant, WhereItBlocks
  <2>2. CASE StartAttempt(1)
    BY <2>1, <2>2, StartAttemptImplements DEF Contract!Next
  <2>3. CASE /\ Return([kind |-> "validation", message |-> "none"])
             /\ UNCHANGED <<poolVars, attempts, clockVars, bodyVars, delay, seen, networkVars>>
    BY <2>1, <2>3, ReturnSettles DEF Contract!Next, Contract!Invalid
  <2>4. QED
    BY <1>1, <2>2, <2>3 DEF Call
<1>2. CASE WakeUp
  BY <1>2, StartAttemptImplements DEF WakeUp, Contract!Next
<1>3. CASE OnTransportError
  <2>1. /\ pc # "returned" /\ seen[attempts] = NoAnswer /\ attempts <= MaximumAttempts
        /\ attempts \in Nat /\ outcome = "pending"
        /\ UNCHANGED <<attempts, seen, networkVars>>
    BY <1>3, AttemptUnderWay DEF OnTransportError, ClientInvariant, WhereItBlocks, Sending
  <2>2. CASE Sleep(Absent)
    BY <2>1, <2>2 DEF Sleep, resultVars, networkVars, Contract!vars
  <2>3. CASE attempts > RetryCount /\ Return([kind |-> "transport", message |-> "none"])
    <3>1. attempts = MaximumAttempts
      BY <2>1, <2>3, Numbers
    <3>2. QED
      BY <2>1, <2>3, <3>1, ReturnSettles, ContractConstants
         DEF Contract!Next, Contract!Unanswered
  <2>4. QED
    BY <1>3, <2>2, <2>3 DEF OnTransportError
<1>4. CASE OnBodyError \/ BodyEnds
  <2>1. length \in Nat
    <3>1. length \in 0 .. MaxResponseBytes + 1
      BY DEF ClientInvariant, TypeOK
    <3>2. QED
      BY <3>1, Numbers
  <2>2. QED
    BY <1>4, <2>1, FinishBodyImplements DEF OnBodyError, BodyEnds
<1>5. ASSUME NEW chunk \in 1 .. MaxResponseBytes + 1, ReadChunk(chunk)
      PROVE  [Contract!Next]_(Contract!vars)
  <2>1. length \in 0 .. MaxResponseBytes + 1
    BY DEF ClientInvariant, TypeOK
  <2>2. Append(length, chunk) \in Nat
    BY <2>1, Numbers DEF Append, Lesser
  <2>3. CASE FinishBody(Append(length, chunk), FALSE) \/ FinishBody(Append(length, chunk), TRUE)
    BY <1>5, <2>2, <2>3, FinishBodyImplements DEF ReadChunk
  <2>4. CASE UNCHANGED <<attempts, seen, resultVars, networkVars>>
    BY <2>4 DEF resultVars, networkVars, Contract!vars
  <2>5. QED
    BY <1>5, <2>3, <2>4 DEF ReadChunk
<1>6. QED
  BY <1>1, <1>2, <1>3, <1>4, <1>5

\* Network, server, clock and closer take the contract's steps about answers, or none.
LEMMA NetworkImplements ==
  ASSUME ClientInvariant,
         \/ Progress \/ HeadersArrive \/ SilentRead \/ Tick \/ Close
         \/ \E n \in AttemptNumbers :
              CopyLost(n) \/ \E answer \in Answers : ServerAnswers(n, answer)
  PROVE  [Contract!Next]_(Contract!vars)
<1>1. CASE Progress \/ SilentRead \/ Tick \/ Close \/ \E n \in AttemptNumbers : CopyLost(n)
  BY <1>1 DEF Progress, SilentRead, Tick, Close, CopyLost, resultVars, networkVars,
              Contract!vars
<1>2. CASE HeadersArrive
  <2>1. /\ outcome = "pending" /\ attempts > 0 /\ seen[attempts] = NoAnswer
        /\ outcome' = "pending" /\ attempts' = attempts /\ answers' = answers
        /\ answers[attempts] # NoAnswer
        /\ seen' = [seen EXCEPT ![attempts] = answers[attempts]]
    BY <1>2 DEF HeadersArrive, ClientInvariant, WhereItBlocks, Sending, resultVars, networkVars
  <2>2. QED
    BY <2>1, ContractConstants DEF Contract!Next, Contract!SeeAnswer
<1>3. ASSUME NEW n \in AttemptNumbers, NEW answer \in Answers, ServerAnswers(n, answer)
      PROVE  Contract!Next
  <2>1. n \in 1 .. Sent
    BY <1>3 DEF ServerAnswers, ClientInvariant, Bookkeeping
  <2>2. n <= Sent /\ answers[n] = NoAnswer
    BY <1>3, <2>1 DEF ServerAnswers, ClientInvariant, Bookkeeping
  <2>3. /\ answers' = [answers EXCEPT ![n] = answer]
        /\ UNCHANGED <<attempts, seen, outcome>>
    BY <1>3 DEF ServerAnswers, resultVars
  <2>4. Contract!Answer(n, answer)
    BY <2>2, <2>3, ContractConstants DEF Contract!Answer, Sent
  <2>5. QED
    BY <1>3, <2>4, ContractConstants DEF Contract!Next
<1>4. QED
  BY <1>1, <1>2, <1>3

\* One call of the synchronous client sends, retries and settles as the contract of the
\* SDKs promises and in no other way; one that finds the client closed by another thread
\* sends nothing more and has none of the promised outcomes.
THEOREM Implementation == Spec => ImplementsContract
<1>1. Init => Contract!Init
  BY ContractConstants DEF Init, Contract!Init
<1>2. ClientInvariant /\ [Next]_vars => [Contract!Next]_(Contract!vars)
  <2> SUFFICES ASSUME ClientInvariant, [Next]_vars PROVE [Contract!Next]_(Contract!vars)
    OBVIOUS
  <2>1. CASE UNCHANGED vars
    BY <2>1 DEF vars, Contract!vars
  <2>2. CASE Next
    BY <2>2, ThreadImplements, NetworkImplements
       DEF Next, Network, OperationTimesOut, ConnectionFails
  <2>3. QED
    BY <2>1, <2>2
<1>3. QED
  BY <1>1, <1>2, Invariance, PTL DEF Spec, ImplementsContract, Contract!Spec
=============================================================================
