----------------------- MODULE PythonAsyncClientProofs ------------------------
(***************************************************************************)
(* Proofs about one call of the asynchronous Python client, for every      *)
(* number of retries, limit on a body, set of answers and style of         *)
(* cancellation.  ClientInvariant is inductive: it says at every await     *)
(* what became of the response and of its body, and that a cancellation    *)
(* which was delivered leaves the call nothing but to pass it on.          *)
(***************************************************************************)
EXTENDS PythonAsyncClient, TLAPS

\* The answer, or its absence, leaves room for another attempt.
PermitsRetry(answer) ==
  \/ answer = NoAnswer
  \/ answer.status \in RetryableStatuses /\ RetryAfterAllowed(answer.retryAfter)

\* Copies handed to httpx: the attempt that found the client closed sends none.
Sent == IF outcome = "closed" THEN attempts - 1 ELSE attempts

Types ==
  /\ style \in {"edge", "level"}
  /\ cancel \in {"none", "requested", "delivered"}
  /\ open \in BOOLEAN /\ written \in BOOLEAN /\ broken \in BOOLEAN
  /\ pc \in {"idle", "sending", "reading", "closing", "sleeping", "returned"}
  /\ attempts \in 0 .. MaximumAttempts
  /\ deadline \in {"off", "armed", "expired"}
  /\ response \in {"none", "open", "closed", "interrupted"}
  /\ length \in 0 .. MaxResponseBytes + 1
  /\ unwinding \in {"none", "deadline", "cancellation"}
  /\ seen \in [AttemptNumbers -> Answers \cup {NoAnswer}]
  /\ answers \in [AttemptNumbers -> Answers \cup {NoAnswer}]
  /\ outcome \in {"pending", "ack", "decode", "auth", "notFound", "api", "transport",
                  "validation", "closed", "cancelled"}

\* A copy is on its way, answered or lost once it was written; the call sees what the
\* server answered, and went on only after answers that permit it.
Bookkeeping ==
  /\ inFlight \subseteq 1 .. Sent
  /\ pc = "sending" /\ ~written => attempts \notin inFlight /\ answers[attempts] = NoAnswer
  /\ \A n \in AttemptNumbers :
       /\ answers[n] # NoAnswer => n <= Sent /\ n \notin inFlight
       /\ seen[n] # NoAnswer => n <= Sent /\ seen[n] = answers[n]
       /\ n < attempts => PermitsRetry(seen[n])

\* What the task awaits says what it has seen.
WhereItWaits ==
  /\ pc = "idle" => attempts = 0
  /\ pc \in {"sending", "reading", "closing", "sleeping"} => attempts > 0
  /\ pc = "sending" => seen[attempts] = NoAnswer
  /\ pc \in {"reading", "closing"} => seen[attempts] # NoAnswer
  /\ pc = "sleeping" => attempts <= RetryCount /\ PermitsRetry(seen[attempts])
  /\ pc # "returned" <=> outcome = "pending"

\* The buffer is empty until the headers are there; then it holds a part of the body and
\* has room.  An end of the body that nothing cut off is its last byte, or no room.
BodyInvariant ==
  /\ pc \in {"sending", "reading"} => broken = FALSE /\ unwinding = "none"
  /\ pc = "sending" => length = 0
  /\ pc = "reading" => length <= MaxResponseBytes /\ length <= seen[attempts].body.size
  /\ pc = "closing" /\ broken = FALSE /\ unwinding = "none" =>
       length > MaxResponseBytes \/ length = seen[attempts].body.size

\* The response is open while its body is read, and until aclose() is done.
ResponseInvariant ==
  /\ pc \in {"reading", "closing"} => response = "open"
  /\ ResponseReleased

\* A cancellation that was thrown during the attempt is on its way out.
CancellationInvariant ==
  cancel = "delivered" => pc = "returned" \/ (pc = "closing" /\ unwinding = "cancellation")

ClientInvariant ==
  /\ Types
  /\ Bookkeeping
  /\ WhereItWaits
  /\ BodyInvariant
  /\ ResponseInvariant
  /\ CancellationInvariant
  /\ AcknowledgedInFull

-----------------------------------------------------------------------------
(* Lemmas about answers, bodies and the instance of the contract.          *)

\* The numbers of the instance are natural numbers.
LEMMA Numbers ==
  /\ MaximumAttempts \in Nat /\ MaximumAttempts = RetryCount + 1 /\ RetryCount \in Nat
  /\ MaxResponseBytes \in Nat /\ AttemptNumbers = 1 .. MaximumAttempts
  BY DeliveryAssumption, ProtocolAssumption DEF MaximumAttempts, AttemptNumbers

\* An answer of the server has a status and a body; a missing one has a status that is
\* no HTTP status.
LEMMA AnswerType ==
  /\ NoAnswer \notin Answers
  /\ \A answer \in Answers :
       /\ answer.status \in Nat /\ answer.body \in Bodies
       /\ answer.body.size \in Nat /\ answer.body.json \in Nat
       /\ answer.body.json <= answer.body.size
<1>1. \A answer \in Answers : answer.status \in Nat /\ answer.status # 0 /\ answer.body \in Bodies
  BY DeliveryAssumption
<1>2. \A body \in Bodies : body.size \in Nat /\ body.json \in Nat /\ body.json <= body.size
  BY DEF Bodies
<1>3. NoAnswer.status = 0
  BY DEF NoAnswer
<1>4. QED
  BY <1>1, <1>2, <1>3

\* decode makes an error of every status but 200, however its body ended.
LEMMA DecodeError ==
  ASSUME NEW answer \in Answers, NEW bytes, NEW failed, answer.status # 200
  PROVE  LET kind == Decode(Received(answer, bytes, failed)).kind IN
           kind = Contract!StatusKind(answer.status) /\ kind \in {"auth", "notFound", "api"}
<1>1. Decode(Received(answer, bytes, failed)).kind = ErrorKind(answer.status)
  BY DEF Received, Decode
<1>2. ErrorKind(answer.status) = Contract!StatusKind(answer.status)
      /\ ErrorKind(answer.status) \in {"auth", "notFound", "api"}
  BY DEF ErrorKind, Contract!StatusKind
<1>3. QED
  BY <1>1, <1>2

\* A 200 whose body ended by itself is an acknowledgement when all of its JSON text fits
\* the limit.
LEMMA DecodeWhole ==
  ASSUME NEW answer \in Answers, NEW bytes \in Nat, answer.status = 200
  PROVE  Decode(Received(answer, bytes, FALSE)) =
           [ kind    |-> IF /\ bytes <= MaxResponseBytes
                            /\ answer.body.json <= bytes /\ answer.body.kind = "ack"
                         THEN "ack" ELSE "decode",
             message |-> "none" ]
<1> DEFINE received == Received(answer, bytes, FALSE)
<1>1. /\ received.status = 200 /\ received.failed = FALSE
      /\ received.truncated = (bytes > MaxResponseBytes)
      /\ received.envelope = Parse(answer.body, Lesser(bytes, MaxResponseBytes))
  BY DEF Received
<1>2. Decode(received) = Acknowledgement(received)
  BY <1>1 DEF Decode
<1>3. CASE bytes <= MaxResponseBytes
  <2>1. ~received.truncated
    <3>1. ~(bytes > MaxResponseBytes)
      BY <1>3, Numbers
    <3>2. QED
      BY <1>1, <3>1
  <2>2. received.envelope = "ack" <=> answer.body.json <= bytes /\ answer.body.kind = "ack"
    <3>1. Lesser(bytes, MaxResponseBytes) = bytes
      BY <1>3 DEF Lesser
    <3>2. QED
      BY <1>1, <3>1, AnswerType DEF Parse
  <2>3. QED
    BY <1>1, <1>2, <1>3, <2>1, <2>2 DEF Acknowledgement
<1>4. CASE bytes > MaxResponseBytes
  <2>1. received.truncated = TRUE
    BY <1>1, <1>4
  <2>2. ~(bytes <= MaxResponseBytes)
    BY <1>4, Numbers
  <2>3. QED
    BY <1>2, <2>1, <2>2 DEF Acknowledgement
<1>5. bytes <= MaxResponseBytes \/ bytes > MaxResponseBytes
  BY Numbers
<1>6. QED
  BY <1>3, <1>4, <1>5

\* A 200 whose body failed is none, whatever had been read of it.
LEMMA DecodeFailed ==
  ASSUME NEW answer \in Answers, NEW bytes \in Nat, answer.status = 200
  PROVE  Decode(Received(answer, bytes, TRUE)) = [kind |-> "decode", message |-> "none"]
<1> DEFINE received == Received(answer, bytes, TRUE)
<1>1. /\ received.status = 200
      /\ received.truncated = (bytes > MaxResponseBytes)
      /\ received.failed = (TRUE /\ bytes <= MaxResponseBytes)
  BY DEF Received
<1>2. Decode(received) = Acknowledgement(received)
  BY <1>1 DEF Decode
<1>3. CASE bytes <= MaxResponseBytes
  <2>1. received.failed = TRUE
    BY <1>1, <1>3
  <2>2. QED
    BY <1>2, <2>1 DEF Acknowledgement
<1>4. CASE bytes > MaxResponseBytes
  <2>1. received.truncated = TRUE
    BY <1>1, <1>4
  <2>2. QED
    BY <1>2, <2>1 DEF Acknowledgement
<1>5. bytes <= MaxResponseBytes \/ bytes > MaxResponseBytes
  BY Numbers
<1>6. QED
  BY <1>3, <1>4, <1>5

\* The constants of the contract are those of the call.
LEMMA ContractConstants ==
  /\ Contract!NoAnswer = NoAnswer
  /\ Contract!Copies = AttemptNumbers
  /\ \A answer : Contract!MayRetry(answer) <=> PermitsRetry(answer)
<1>1. Contract!NoAnswer = NoAnswer /\ Contract!Copies = AttemptNumbers
  BY DEF Contract!NoAnswer, NoAnswer, Contract!Copies, AttemptNumbers
<1>2. QED
  BY <1>1 DEF Contract!MayRetry, PermitsRetry, RetryAfterAllowed

\* The attempt under way has a number, and the answer whose body is read a type.
LEMMA AttemptUnderWay ==
  ASSUME ClientInvariant
  PROVE  /\ attempts \in Nat /\ attempts <= MaximumAttempts
         /\ length \in 0 .. MaxResponseBytes + 1 /\ length \in Nat
         /\ pc \in {"sending", "reading", "closing", "sleeping"} => attempts \in AttemptNumbers
         /\ pc \in {"reading", "closing"} => seen[attempts] \in Answers
<1>1. /\ attempts \in 0 .. MaximumAttempts /\ length \in 0 .. MaxResponseBytes + 1
      /\ seen \in [AttemptNumbers -> Answers \cup {NoAnswer}]
  BY DEF ClientInvariant, Types
<1>2. pc \in {"sending", "reading", "closing", "sleeping"} => attempts \in AttemptNumbers
  BY <1>1, Numbers DEF ClientInvariant, WhereItWaits
<1>3. QED
  BY <1>1, <1>2, Numbers DEF ClientInvariant, WhereItWaits

\* The initial states satisfy the invariant.
LEMMA InitInvariant == Init => ClientInvariant
<1> SUFFICES ASSUME Init PROVE ClientInvariant
  OBVIOUS
<1>1. Types
  <2>1. attempts \in 0 .. MaximumAttempts /\ length \in 0 .. MaxResponseBytes + 1
    BY Numbers DEF Init
  <2>2. QED
    BY <2>1 DEF Init, Types
<1>2. Bookkeeping
  BY Numbers DEF Init, Bookkeeping, Sent
<1>3. WhereItWaits /\ BodyInvariant
  BY DEF Init, WhereItWaits, BodyInvariant
<1>4. ResponseInvariant /\ CancellationInvariant /\ AcknowledgedInFull
  BY DEF Init, ResponseInvariant, ResponseReleased, CancellationInvariant, AcknowledgedInFull
<1>5. QED
  BY <1>1, <1>2, <1>3, <1>4 DEF ClientInvariant

-----------------------------------------------------------------------------
(* The pieces of the task's steps keep the invariant.                      *)

\* The call sleeps after an attempt whose answer permits another one.
LEMMA SleepStep ==
  ASSUME ClientInvariant, pc \in {"sending", "closing"}, attempts <= RetryCount,
         PermitsRetry(seen[attempts]), cancel # "delivered",
         pc' = "sleeping", deadline' = "off", response' \in {"none", "closed"},
         broken' \in BOOLEAN,
         UNCHANGED <<style, cancel, open, attempts, written, length, unwinding, seen, outcome,
                     networkVars>>
  PROVE  ClientInvariant'
<1>1. outcome = "pending" /\ attempts > 0
  BY DEF ClientInvariant, WhereItWaits
<1>2. Types'
  BY DEF ClientInvariant, Types, networkVars
<1>3. Bookkeeping'
  BY DEF ClientInvariant, Bookkeeping, Sent, PermitsRetry, networkVars
<1>4. WhereItWaits' /\ BodyInvariant'
  BY <1>1 DEF WhereItWaits, BodyInvariant, PermitsRetry
<1>5. ResponseInvariant' /\ CancellationInvariant' /\ AcknowledgedInFull'
  BY <1>1 DEF ResponseInvariant, ResponseReleased, CancellationInvariant, AcknowledgedInFull
<1>6. QED
  BY <1>2, <1>3, <1>4, <1>5 DEF ClientInvariant

\* The event method ends.
LEMMA ReturnStep ==
  ASSUME ClientInvariant, pc # "returned", NEW kind, Return(kind),
         kind \in {"ack", "decode", "auth", "notFound", "api", "transport", "validation",
                   "cancelled"},
         cancel' \in {"none", "requested", "delivered"},
         deadline' \in {"off", "armed", "expired"},
         \/ response' \in {"none", "closed"}
         \/ response' = "interrupted" /\ style = "edge" /\ kind = "cancelled",
         broken' \in BOOLEAN, AcknowledgedInFull',
         UNCHANGED <<style, open, attempts, written, length, unwinding, seen, networkVars>>
  PROVE  ClientInvariant'
<1>1. pc' = "returned" /\ outcome' = kind /\ outcome = "pending"
  BY DEF Return, ClientInvariant, WhereItWaits
<1>2. Types'
  BY <1>1 DEF ClientInvariant, Types, networkVars
<1>3. Bookkeeping'
  BY <1>1 DEF ClientInvariant, Bookkeeping, Sent, PermitsRetry, networkVars
<1>4. WhereItWaits' /\ BodyInvariant' /\ CancellationInvariant'
  BY <1>1 DEF WhereItWaits, BodyInvariant, CancellationInvariant
<1>5. ResponseInvariant'
  BY <1>1 DEF ResponseInvariant, ResponseReleased
<1>6. QED
  BY <1>2, <1>3, <1>4, <1>5 DEF ClientInvariant

\* The reading ends: unread bytes are left only after a failure, an exception or beyond
\* the limit.
LEMMA CloseStep ==
  ASSUME ClientInvariant, pc = "reading", NEW bytes \in 0 .. MaxResponseBytes + 1,
         NEW failed \in BOOLEAN, NEW exception \in {"none", "deadline", "cancellation"},
         CloseResponse(bytes, failed, exception),
         failed = FALSE /\ exception = "none" =>
           bytes > MaxResponseBytes \/ bytes = seen[attempts].body.size,
         cancel' = cancel \/ (cancel' = "delivered" /\ exception = "cancellation")
  PROVE  ClientInvariant'
<1>1. /\ pc' = "closing" /\ length' = bytes /\ broken' = failed /\ unwinding' = exception
      /\ UNCHANGED <<style, open, attempts, written, deadline, response, seen, outcome,
                     networkVars>>
  BY DEF CloseResponse
<1>2. outcome = "pending" /\ response = "open" /\ cancel # "delivered"
  BY DEF ClientInvariant, WhereItWaits, ResponseInvariant, CancellationInvariant
<1>3. Types'
  BY <1>1 DEF ClientInvariant, Types, networkVars
<1>4. Bookkeeping'
  BY <1>1 DEF ClientInvariant, Bookkeeping, Sent, PermitsRetry, networkVars
<1>5. WhereItWaits' /\ BodyInvariant'
  BY <1>1, <1>2 DEF ClientInvariant, WhereItWaits, BodyInvariant
<1>6. ResponseInvariant' /\ CancellationInvariant' /\ AcknowledgedInFull'
  BY <1>1, <1>2 DEF ResponseInvariant, ResponseReleased, CancellationInvariant,
                    AcknowledgedInFull
<1>7. QED
  BY <1>3, <1>4, <1>5, <1>6 DEF ClientInvariant

\* The next attempt starts, or finds the client closed.
LEMMA StartAttemptStep ==
  ASSUME ClientInvariant, pc \in {"idle", "sleeping"}, StartAttempt(attempts + 1)
  PROVE  ClientInvariant'
<1>1. /\ attempts \in Nat /\ attempts + 1 \in AttemptNumbers /\ attempts < MaximumAttempts
      /\ attempts + 1 \in 0 .. MaximumAttempts
      /\ outcome = "pending" /\ Sent = attempts /\ cancel # "delivered"
  BY AttemptUnderWay, Numbers DEF ClientInvariant, WhereItWaits, CancellationInvariant, Sent
<1>2. /\ answers[attempts + 1] = NoAnswer /\ seen[attempts + 1] = NoAnswer
      /\ attempts + 1 \notin inFlight
  BY <1>1, Numbers DEF ClientInvariant, Bookkeeping
<1>3. /\ attempts' = attempts + 1 /\ length' = 0 /\ broken' = FALSE /\ written' = FALSE
      /\ response' = "none" /\ unwinding' = "none" /\ deadline' \in {"armed", "off"}
      /\ UNCHANGED <<style, cancel, open, seen, networkVars>>
  BY DEF StartAttempt, Return
<1>4. \/ pc' = "sending" /\ outcome' = "pending" /\ Sent' = attempts + 1
      \/ pc' = "returned" /\ outcome' = "closed" /\ Sent' = attempts
  BY <1>1 DEF StartAttempt, Return, Sent
<1>5. Types'
  <2>1. length' \in 0 .. MaxResponseBytes + 1
    BY <1>3, Numbers
  <2>2. QED
    BY <1>1, <1>3, <1>4, <2>1 DEF ClientInvariant, Types, networkVars
<1>6. Bookkeeping'
  <2>1. inFlight' \subseteq 1 .. Sent' /\ Sent' \in Nat
    BY <1>1, <1>3, <1>4 DEF ClientInvariant, Bookkeeping, networkVars
  <2>2. ASSUME NEW n \in AttemptNumbers
        PROVE  /\ answers[n] # NoAnswer => n <= Sent' /\ n \notin inFlight
               /\ seen[n] # NoAnswer => n <= Sent' /\ seen[n] = answers[n]
               /\ n < attempts + 1 => PermitsRetry(seen[n])
    BY <1>1, <1>4, <2>1, Numbers DEF ClientInvariant, Bookkeeping, WhereItWaits, PermitsRetry
  <2>3. QED
    BY <1>2, <1>3, <2>1, <2>2 DEF Bookkeeping, networkVars, PermitsRetry
<1>7. WhereItWaits' /\ BodyInvariant'
  BY <1>1, <1>2, <1>3, <1>4 DEF WhereItWaits, BodyInvariant
<1>8. ResponseInvariant' /\ CancellationInvariant' /\ AcknowledgedInFull'
  BY <1>1, <1>3, <1>4 DEF ResponseInvariant, ResponseReleased, CancellationInvariant,
                          AcknowledgedInFull
<1>9. QED
  BY <1>5, <1>6, <1>7, <1>8 DEF ClientInvariant

-----------------------------------------------------------------------------
(* The actions keep the invariant.                                         *)

\* An event method up to its first await.
LEMMA CallPreserves ==
  ASSUME ClientInvariant, NEW valid \in BOOLEAN, Call(valid)
  PROVE  ClientInvariant'
<1>1. pc = "idle" /\ attempts = 0 /\ outcome = "pending"
  BY DEF Call, ClientInvariant, WhereItWaits
<1>2. CASE StartAttempt(1)
  BY <1>1, <1>2, StartAttemptStep
<1>3. CASE /\ Return("validation")
           /\ UNCHANGED <<style, cancel, open, attempts, attemptVars, delay, seen, networkVars>>
  <2>1. /\ cancel' \in {"none", "requested", "delivered"} /\ response' \in {"none", "closed"}
        /\ deadline' \in {"off", "armed", "expired"} /\ broken' \in BOOLEAN
    BY <1>1, <1>3 DEF ClientInvariant, Types, ResponseInvariant, ResponseReleased, attemptVars
  <2>2. AcknowledgedInFull'
    BY <1>3 DEF Return, AcknowledgedInFull
  <2>3. UNCHANGED <<style, open, attempts, written, length, unwinding, seen, networkVars>>
    BY <1>3 DEF attemptVars
  <2>4. QED
    BY <1>1, <1>3, <2>1, <2>2, <2>3, ReturnStep
<1>4. QED
  BY <1>2, <1>3 DEF Call

\* The pause is over.
LEMMA WakeUpPreserves == ASSUME ClientInvariant, WakeUp PROVE ClientInvariant'
  BY StartAttemptStep DEF WakeUp

\* An attempt fails before the headers are there.
LEMMA TransportErrorPreserves ==
  ASSUME ClientInvariant, pc = "sending", OnTransportError
  PROVE  ClientInvariant'
<1>1. /\ response = "none" \/ (response = "closed" /\ outcome = "pending")
      /\ cancel # "delivered" /\ PermitsRetry(seen[attempts])
      /\ broken \in BOOLEAN /\ cancel \in {"none", "requested", "delivered"}
  BY DEF ClientInvariant, Types, WhereItWaits, ResponseInvariant, ResponseReleased,
         CancellationInvariant, PermitsRetry
<1>2. /\ UNCHANGED <<style, cancel, open, attempts, written, response, length, broken,
                     unwinding, seen, networkVars>>
      /\ deadline' = "off"
  BY DEF OnTransportError
<1>3. CASE ~(attempts > RetryCount) /\ Sleep(Absent)
  <2>1. attempts <= RetryCount /\ pc' = "sleeping" /\ outcome' = outcome
    BY <1>3, AttemptUnderWay, Numbers DEF Sleep
  <2>2. QED
    BY <1>1, <1>2, <2>1, SleepStep
<1>4. CASE Return("transport")
  <2>1. AcknowledgedInFull'
    BY <1>4 DEF Return, AcknowledgedInFull
  <2>2. QED
    BY <1>1, <1>2, <1>4, <2>1, ReturnStep
<1>5. QED
  BY <1>3, <1>4 DEF OnTransportError

\* A chunk arrives, or the last byte was read.
LEMMA BodyPreserves ==
  ASSUME ClientInvariant,
         BodyEnds \/ \E chunk \in 1 .. MaxResponseBytes + 1 : ReadChunk(chunk)
  PROVE  ClientInvariant'
<1>1. pc = "reading" /\ seen[attempts] \in Answers /\ seen[attempts].body.size \in Nat
  BY AttemptUnderWay, AnswerType DEF BodyEnds, ReadChunk
<1>2. CASE BodyEnds
  BY <1>1, <1>2, AttemptUnderWay, CloseStep DEF BodyEnds
<1>3. ASSUME NEW chunk \in 1 .. MaxResponseBytes + 1, ReadChunk(chunk)
      PROVE  ClientInvariant'
  <2> DEFINE bytes == Append(length, chunk)
  <2>1. /\ bytes \in 0 .. MaxResponseBytes + 1 /\ bytes <= seen[attempts].body.size
        /\ HasRoom(bytes) <=> bytes <= MaxResponseBytes
        /\ ~HasRoom(bytes) => bytes > MaxResponseBytes
    <3>1. /\ length \in Nat /\ chunk \in Nat
          /\ length + chunk <= seen[attempts].body.size
      BY <1>1, <1>3, AttemptUnderWay, Numbers DEF ReadChunk
    <3>2. bytes \in Nat /\ bytes <= length + chunk /\ bytes <= MaxResponseBytes + 1
      BY <3>1, Numbers DEF Append, Lesser
    <3> HIDE DEF bytes
    <3>3. bytes \in 0 .. MaxResponseBytes + 1 /\ bytes <= seen[attempts].body.size
      BY <1>1, <3>1, <3>2, Numbers
    <3>4. QED
      BY <3>3, Numbers DEF HasRoom
  <2>2. CASE ~HasRoom(bytes)
    <3>1. CloseResponse(bytes, FALSE, "none") /\ cancel' = cancel
      BY <1>3, <2>2 DEF ReadChunk
    <3>2. QED
      BY <1>1, <2>1, <2>2, <3>1, CloseStep
  <2>3. CASE HasRoom(bytes)
    <3>1. /\ length' = bytes
          /\ UNCHANGED <<style, cancel, open, pc, attempts, written, deadline, response, broken,
                         unwinding, seen, outcome, networkVars>>
      BY <1>3, <2>3 DEF ReadChunk
    <3> HIDE DEF bytes
    <3>2. Types'
      BY <2>1, <3>1 DEF ClientInvariant, Types, networkVars
    <3>3. Bookkeeping' /\ WhereItWaits'
      BY <3>1 DEF ClientInvariant, Bookkeeping, Sent, WhereItWaits, PermitsRetry, networkVars
    <3>4. BodyInvariant'
      BY <1>1, <2>1, <2>3, <3>1 DEF ClientInvariant, BodyInvariant
    <3>5. outcome = "pending"
      BY <1>1 DEF ClientInvariant, WhereItWaits
    <3>6. ResponseInvariant' /\ CancellationInvariant' /\ AcknowledgedInFull'
      BY <3>1, <3>5 DEF ClientInvariant, ResponseInvariant, ResponseReleased,
                        CancellationInvariant, AcknowledgedInFull
    <3>7. QED
      BY <3>2, <3>3, <3>4, <3>6 DEF ClientInvariant
  <2>4. QED
    BY <2>2, <2>3
<1>4. QED
  BY <1>2, <1>3

\* The connection fails, or the scope of the attempt throws.
LEMMA FailurePreserves ==
  ASSUME ClientInvariant, ConnectionFails \/ DeadlineInterrupts
  PROVE  ClientInvariant'
<1>1. CASE pc = "sending" /\ OnTransportError
  BY <1>1, TransportErrorPreserves
<1>2. CASE pc = "reading" /\ CloseResponse(length, TRUE, "none") /\ UNCHANGED cancel
  BY <1>2, AttemptUnderWay, CloseStep
<1>3. CASE pc = "reading" /\ CloseResponse(length, FALSE, "deadline") /\ UNCHANGED cancel
  BY <1>3, AttemptUnderWay, CloseStep
<1>4. QED
  BY <1>1, <1>2, <1>3 DEF ConnectionFails, DeadlineInterrupts

\* The cancellation of the task is thrown where it waits.
LEMMA CancellationPreserves ==
  ASSUME ClientInvariant, CancellationInterrupts
  PROVE  ClientInvariant'
<1>1. CASE pc = "reading" /\ CloseResponse(length, FALSE, "cancellation")
  BY <1>1, AttemptUnderWay, CloseStep DEF CancellationInterrupts
<1>2. CASE /\ pc \in {"sending", "sleeping", "idle", "closing"}
           /\ pc = "closing" => style = "edge"
           /\ Return("cancelled")
           /\ deadline' = "off"
           /\ response' = IF pc = "closing" THEN "interrupted" ELSE response
           /\ UNCHANGED <<style, open, attempts, written, length, broken, unwinding, seen,
                          networkVars>>
  <2>1. \/ response' \in {"none", "closed"}
        \/ response' = "interrupted" /\ style = "edge"
    BY <1>2 DEF ClientInvariant, WhereItWaits, ResponseInvariant, ResponseReleased
  <2>2. /\ AcknowledgedInFull' /\ broken' \in BOOLEAN
        /\ cancel' \in {"none", "requested", "delivered"}
    BY <1>2 DEF Return, AcknowledgedInFull, ClientInvariant, Types, CancellationInterrupts
  <2>3. QED
    BY <1>2, <2>1, <2>2, ReturnStep
<1>3. QED
  BY <1>1, <1>2 DEF CancellationInterrupts

\* What an event method ends with after the body of its last answer.
LEMMA DecodedInFull ==
  ASSUME ClientInvariant, pc = "closing", ~CancellationGoesOn,
         broken' = BodyFailed, UNCHANGED <<attempts, seen, length, unwinding>>,
         outcome' = Decode(Received(seen[attempts], length, BodyFailed)).kind
  PROVE  /\ AcknowledgedInFull'
         /\ seen[attempts].status = 200 => outcome' \in {"ack", "decode"}
         /\ seen[attempts].status # 200 =>
              outcome' = Contract!StatusKind(seen[attempts].status)
              /\ outcome' \in {"auth", "notFound", "api"}
<1> DEFINE answer == seen[attempts]
<1>1. answer \in Answers /\ length \in Nat /\ seen'[attempts'] = answer
  BY AttemptUnderWay
<1>2. answer.body.size \in Nat /\ answer.body.json \in Nat /\ answer.body.json <= answer.body.size
  BY <1>1, AnswerType
<1>3. PICK failed \in BOOLEAN :
        /\ failed <=> BodyFailed
        /\ broken' = failed
        /\ outcome' = Decode(Received(answer, length, failed)).kind
  <2>1. BodyFailed \in BOOLEAN
    BY DEF ClientInvariant, Types, BodyFailed
  <2>2. QED
    BY <2>1
<1>4. CASE answer.status # 200
  BY <1>1, <1>3, <1>4, DecodeError DEF AcknowledgedInFull
<1>5. CASE answer.status = 200 /\ failed = TRUE
  <2>1. Decode(Received(answer, length, failed)) = [kind |-> "decode", message |-> "none"]
    BY <1>1, <1>5, DecodeFailed
  <2>2. outcome' = "decode" /\ broken' = TRUE
    BY <1>3, <1>5, <2>1
  <2>3. QED
    BY <1>5, <2>2 DEF AcknowledgedInFull
<1>6. CASE answer.status = 200 /\ failed = FALSE
  <2>1. broken = FALSE /\ unwinding = "none" /\ broken' = FALSE
    BY <1>3, <1>6 DEF BodyFailed, CancellationGoesOn, ClientInvariant, Types
  <2>2. length > MaxResponseBytes \/ length = answer.body.size
    BY <2>1 DEF ClientInvariant, BodyInvariant
  <2>3. Decode(Received(answer, length, failed)) =
          [kind    |-> IF /\ length <= MaxResponseBytes
                          /\ answer.body.json <= length /\ answer.body.kind = "ack"
                       THEN "ack" ELSE "decode",
           message |-> "none"]
    BY <1>1, <1>6, DecodeWhole
  <2>4. outcome' = IF /\ length <= MaxResponseBytes
                      /\ answer.body.json <= length /\ answer.body.kind = "ack"
                   THEN "ack" ELSE "decode"
    BY <1>3, <1>6, <2>3
  <2>5. outcome' = "ack" <=> /\ length = answer.body.size
                             /\ answer.body.size <= MaxResponseBytes
                             /\ answer.body.kind = "ack"
    BY <1>1, <1>2, <2>2, <2>4, Numbers
  <2>6. AcknowledgedInFull'
    BY <1>1, <2>1, <2>5 DEF AcknowledgedInFull
  <2>7. QED
    BY <1>6, <2>4, <2>6
<1>7. QED
  BY <1>3, <1>4, <1>5, <1>6

\* aclose() is done.
LEMMA ResponseClosedPreserves == ASSUME ClientInvariant, ResponseClosed PROVE ClientInvariant'
<1>1. /\ pc = "closing" /\ response' = "closed" /\ deadline' = "off" /\ broken' = BodyFailed
      /\ seen[attempts] \in Answers
      /\ UNCHANGED <<style, open, attempts, written, length, unwinding, seen, networkVars>>
  BY AttemptUnderWay DEF ResponseClosed, ClientInvariant, ResponseInvariant
<1>2. broken' \in BOOLEAN /\ cancel \in {"none", "requested", "delivered"}
  BY <1>1 DEF ClientInvariant, Types, BodyFailed
<1>3. CASE CancellationGoesOn
  <2>1. Return("cancelled") /\ cancel' = "delivered"
    BY <1>3 DEF ResponseClosed
  <2>2. AcknowledgedInFull'
    BY <2>1 DEF Return, AcknowledgedInFull
  <2>3. QED
    BY <1>1, <1>2, <2>1, <2>2, ReturnStep
<1>4. CASE ~CancellationGoesOn
  <2>1. cancel' = cancel /\ cancel # "delivered"
    BY <1>1, <1>4 DEF ResponseClosed, CancellationGoesOn, ClientInvariant, CancellationInvariant
  <2>2. CASE /\ seen[attempts].status \in RetryableStatuses /\ attempts <= RetryCount
             /\ RetryAfterAllowed(seen[attempts].retryAfter)
             /\ Sleep(seen[attempts].retryAfter)
    <3>1. pc' = "sleeping" /\ outcome' = outcome /\ PermitsRetry(seen[attempts])
      BY <2>2 DEF Sleep, PermitsRetry
    <3>2. QED
      BY <1>1, <1>2, <2>1, <2>2, <3>1, SleepStep
  <2>3. CASE Return(Decode(Received(seen[attempts], length, BodyFailed)).kind)
    <3>1. outcome' = Decode(Received(seen[attempts], length, BodyFailed)).kind
      BY <2>3 DEF Return
    <3>2. AcknowledgedInFull' /\ outcome' \in {"ack", "decode", "auth", "notFound", "api"}
      BY <1>1, <1>4, <3>1, DecodedInFull
    <3>3. Return(outcome')
      BY <2>3 DEF Return
    <3>4. QED
      BY <1>1, <1>2, <2>1, <3>2, <3>3, ReturnStep
  <2>4. QED
    BY <1>4, <2>2, <2>3 DEF ResponseClosed
<1>5. QED
  BY <1>3, <1>4

\* The headers of the answer arrive; the reading of its body starts with an empty buffer.
LEMMA HeadersArrivePreserves == ASSUME ClientInvariant, HeadersArrive PROVE ClientInvariant'
<1>1. /\ pc = "sending" /\ outcome = "pending" /\ cancel # "delivered"
      /\ pc' = "reading" /\ response' = "open"
      /\ answers[attempts] # NoAnswer
      /\ seen' = [seen EXCEPT ![attempts] = answers[attempts]]
      /\ UNCHANGED <<style, cancel, open, attempts, written, deadline, length, broken, unwinding,
                     outcome, networkVars>>
  BY DEF HeadersArrive, ClientInvariant, WhereItWaits, CancellationInvariant
<1>2. /\ attempts \in AttemptNumbers /\ attempts \in Nat /\ attempts > 0 /\ Sent = attempts
      /\ seen[attempts] = NoAnswer
  BY <1>1, AttemptUnderWay DEF ClientInvariant, WhereItWaits, Sent
<1>3. /\ answers \in [AttemptNumbers -> Answers \cup {NoAnswer}]
      /\ seen \in [AttemptNumbers -> Answers \cup {NoAnswer}]
  BY DEF ClientInvariant, Types
<1>4. /\ answers[attempts] \in Answers
      /\ seen'[attempts] = answers[attempts]
      /\ \A n \in AttemptNumbers : n # attempts => seen'[n] = seen[n]
      /\ seen' \in [AttemptNumbers -> Answers \cup {NoAnswer}]
  BY <1>1, <1>2, <1>3
<1>5. Types'
  BY <1>1, <1>4 DEF ClientInvariant, Types, networkVars
<1>6. Bookkeeping'
  <2>1. Sent' = Sent
    BY <1>1 DEF Sent
  <2>2. QED
    BY <1>1, <1>2, <1>4, <2>1 DEF ClientInvariant, Bookkeeping, PermitsRetry, networkVars
<1>7. WhereItWaits'
  BY <1>1, <1>2, <1>4 DEF WhereItWaits
<1>8. BodyInvariant'
  <2>1. answers[attempts].body.size \in Nat
    BY <1>4, AnswerType
  <2>2. length = 0 /\ broken = FALSE /\ unwinding = "none"
    BY <1>1 DEF ClientInvariant, BodyInvariant
  <2>3. QED
    BY <1>1, <1>4, <2>1, <2>2, Numbers DEF BodyInvariant
<1>9. ResponseInvariant' /\ CancellationInvariant' /\ AcknowledgedInFull'
  BY <1>1 DEF ResponseInvariant, ResponseReleased, CancellationInvariant, AcknowledgedInFull
<1>10. QED
  BY <1>5, <1>6, <1>7, <1>8, <1>9 DEF ClientInvariant

\* A deadline passes, the task is cancelled or the client closed.
LEMMA OthersPreserve ==
  ASSUME ClientInvariant, DeadlineExpires \/ Cancel \/ Close
  PROVE  ClientInvariant'
<1>1. /\ deadline' \in {"off", "armed", "expired"} /\ open' \in BOOLEAN
      /\ cancel' \in {"none", "requested", "delivered"}
      /\ cancel' = "delivered" => cancel = "delivered"
      /\ UNCHANGED <<style, pc, attempts, written, response, length, broken, unwinding, seen,
                     outcome, networkVars>>
  BY DEF DeadlineExpires, Cancel, Close, attemptVars, ClientInvariant, Types
<1>2. Types'
  BY <1>1 DEF ClientInvariant, Types, networkVars
<1>3. Bookkeeping' /\ WhereItWaits' /\ BodyInvariant'
  BY <1>1 DEF ClientInvariant, Bookkeeping, Sent, WhereItWaits, BodyInvariant, PermitsRetry,
              networkVars
<1>4. ResponseInvariant' /\ CancellationInvariant' /\ AcknowledgedInFull'
  BY <1>1 DEF ClientInvariant, ResponseInvariant, ResponseReleased, CancellationInvariant,
              AcknowledgedInFull
<1>5. QED
  BY <1>2, <1>3, <1>4 DEF ClientInvariant

\* A copy is written, the only one of its attempt.
LEMMA CopyWrittenPreserves == ASSUME ClientInvariant, CopyWritten PROVE ClientInvariant'
<1>1. /\ pc = "sending" /\ outcome = "pending" /\ written' = TRUE
      /\ attempts \notin inFlight /\ answers[attempts] = NoAnswer
      /\ inFlight' = inFlight \cup {attempts}
      /\ UNCHANGED <<style, cancel, open, pc, attempts, deadline, response, length, broken,
                     unwinding, seen, outcome, answers>>
  BY DEF CopyWritten, ClientInvariant, WhereItWaits, Bookkeeping
<1>2. attempts \in AttemptNumbers /\ attempts \in Nat /\ attempts > 0 /\ Sent = attempts
  BY <1>1, AttemptUnderWay DEF ClientInvariant, WhereItWaits, Sent
<1>3. Types'
  BY <1>1 DEF ClientInvariant, Types
<1>4. Bookkeeping'
  <2>1. Sent' = Sent
    BY <1>1 DEF Sent
  <2>2. QED
    BY <1>1, <1>2, <2>1 DEF ClientInvariant, Bookkeeping, PermitsRetry
<1>5. WhereItWaits' /\ BodyInvariant'
  BY <1>1 DEF ClientInvariant, WhereItWaits, BodyInvariant, PermitsRetry
<1>6. ResponseInvariant' /\ CancellationInvariant' /\ AcknowledgedInFull'
  BY <1>1 DEF ClientInvariant, ResponseInvariant, ResponseReleased, CancellationInvariant,
              AcknowledgedInFull
<1>7. QED
  BY <1>3, <1>4, <1>5, <1>6 DEF ClientInvariant

\* A copy is answered or lost, perhaps long after the client gave up on it.
LEMMA CopiesPreserve ==
  ASSUME ClientInvariant, NEW n \in AttemptNumbers,
         CopyLost(n) \/ \E answer \in Answers : ServerAnswers(n, answer)
  PROVE  ClientInvariant'
<1>1. /\ n \in inFlight /\ inFlight' = inFlight \ {n}
      /\ UNCHANGED <<style, cancel, open, pc, attempts, attemptVars, seen, outcome>>
  BY DEF CopyLost, ServerAnswers
<1>2. /\ answers' \in [AttemptNumbers -> Answers \cup {NoAnswer}]
      /\ \A m \in AttemptNumbers : m # n => answers'[m] = answers[m]
  BY DEF CopyLost, ServerAnswers, ClientInvariant, Types
<1>3. /\ n <= Sent /\ seen[n] = NoAnswer
      /\ pc = "sending" /\ ~written => n # attempts
  <2>1. n \in 1 .. Sent /\ answers[n] = NoAnswer
    BY <1>1 DEF ClientInvariant, Bookkeeping
  <2>2. n <= Sent
    BY <2>1
  <2>3. QED
    BY <1>1, <2>1, <2>2 DEF ClientInvariant, Bookkeeping
<1>4. Types'
  BY <1>1, <1>2 DEF ClientInvariant, Types, attemptVars
<1>5. Bookkeeping'
  <2>1. Sent' = Sent
    BY <1>1 DEF Sent
  <2>2. pc = "sending" /\ ~written => answers'[attempts] = NoAnswer
    BY <1>2, <1>3, AttemptUnderWay DEF ClientInvariant, Bookkeeping
  <2>3. QED
    BY <1>1, <1>2, <1>3, <2>1, <2>2 DEF ClientInvariant, Bookkeeping, PermitsRetry, attemptVars
<1>6. WhereItWaits' /\ BodyInvariant'
  BY <1>1 DEF ClientInvariant, WhereItWaits, BodyInvariant, PermitsRetry, attemptVars
<1>7. ResponseInvariant' /\ CancellationInvariant' /\ AcknowledgedInFull'
  BY <1>1 DEF ClientInvariant, ResponseInvariant, ResponseReleased, CancellationInvariant,
              AcknowledgedInFull, attemptVars
<1>8. QED
  BY <1>4, <1>5, <1>6, <1>7 DEF ClientInvariant

\* The invariant is inductive.
LEMMA StepInvariant == ClientInvariant /\ [Next]_vars => ClientInvariant'
<1> SUFFICES ASSUME ClientInvariant, [Next]_vars PROVE ClientInvariant'
  OBVIOUS
<1>1. CASE (\E valid \in BOOLEAN : Call(valid)) \/ WakeUp
  BY <1>1, CallPreserves, WakeUpPreserves
<1>2. CASE ConnectionFails \/ DeadlineInterrupts \/ CancellationInterrupts
  BY <1>2, FailurePreserves, CancellationPreserves
<1>3. CASE ResponseClosed \/ HeadersArrive \/ CopyWritten
  BY <1>3, ResponseClosedPreserves, HeadersArrivePreserves, CopyWrittenPreserves
<1>4. CASE BodyEnds \/ \E chunk \in 1 .. MaxResponseBytes + 1 : ReadChunk(chunk)
  BY <1>4, BodyPreserves
<1>5. CASE DeadlineExpires \/ Cancel \/ Close
  BY <1>5, OthersPreserve
<1>6. CASE \E n \in AttemptNumbers :
             CopyLost(n) \/ \E answer \in Answers : ServerAnswers(n, answer)
  BY <1>6, CopiesPreserve
<1>7. CASE UNCHANGED vars
  <2>1. Types'
    BY <1>7 DEF vars, ClientInvariant, Types
  <2>2. Bookkeeping' /\ WhereItWaits' /\ BodyInvariant'
    BY <1>7 DEF vars, ClientInvariant, Bookkeeping, Sent, WhereItWaits, BodyInvariant,
                PermitsRetry
  <2>3. ResponseInvariant' /\ CancellationInvariant' /\ AcknowledgedInFull'
    BY <1>7 DEF vars, ClientInvariant, ResponseInvariant, ResponseReleased,
                CancellationInvariant, AcknowledgedInFull
  <2>4. QED
    BY <2>1, <2>2, <2>3 DEF ClientInvariant
<1>8. QED
  BY <1>1, <1>2, <1>3, <1>4, <1>5, <1>6, <1>7 DEF Next, Network

-----------------------------------------------------------------------------
(* Theorems about every call.                                              *)

\* The invariant holds throughout a call (_track and _attempt of async_client.py).
THEOREM Invariance == Spec => []ClientInvariant
  BY InitInvariant, StepInvariant, PTL DEF Spec

\* No attempt leaves its response open, whether it ended with an answer, a failure, a
\* deadline or a cancellation: only Task.cancel() during aclose() can interrupt the
\* closing, and the call then ends with that cancellation.
THEOREM ResponsesAreReleased == Spec => []ResponseReleased
<1>1. ClientInvariant => ResponseReleased
  BY DEF ClientInvariant, ResponseInvariant
<1>2. QED
  BY <1>1, Invariance, PTL

\* The 200 of a body that was cut off, by the peer, by the limit or by the scope of the
\* attempt, is never taken for an acknowledgement.
THEOREM AcknowledgedOnlyInFull == Spec => []AcknowledgedInFull
<1>1. ClientInvariant => AcknowledgedInFull
  BY DEF ClientInvariant
<1>2. QED
  BY <1>1, Invariance, PTL

\* A cancelled task sends nothing more, and Task.cancel() ends the call with the native
\* cancellation, in whatever await of _track, _attempt or aclose() it finds the task.
THEOREM CancellationEndsTheCall == Spec => CancellationIsFinal
<1> DEFINE Step == cancel # "none" =>
                     /\ inFlight' \subseteq inFlight
                     /\ style = "edge" /\ pc' = "returned" /\ pc # "returned" =>
                          outcome' = "cancelled"
<1>1. ClientInvariant /\ [Next]_vars => [Step]_vars
  <2> SUFFICES ASSUME ClientInvariant, Next, cancel # "none"
               PROVE  /\ inFlight' \subseteq inFlight
                      /\ style = "edge" /\ pc' = "returned" /\ pc # "returned" =>
                           outcome' = "cancelled"
    OBVIOUS
  <2>1. inFlight' \subseteq inFlight
    <3>1. CASE \E n \in AttemptNumbers :
                 CopyLost(n) \/ \E answer \in Answers : ServerAnswers(n, answer)
      BY <3>1 DEF CopyLost, ServerAnswers
    <3>2. CASE inFlight' = inFlight
      BY <3>2
    <3>3. ASSUME NEW n, StartAttempt(n) PROVE inFlight' = inFlight
      BY <3>3 DEF StartAttempt, networkVars
    <3>4. OnTransportError => inFlight' = inFlight
      BY DEF OnTransportError, networkVars
    <3>5. ASSUME NEW bytes, NEW failed, NEW exception, CloseResponse(bytes, failed, exception)
          PROVE  inFlight' = inFlight
      BY <3>5 DEF CloseResponse, networkVars
    <3>6. CASE (\E valid \in BOOLEAN : Call(valid)) \/ WakeUp
      BY <3>3, <3>6 DEF Call, WakeUp, networkVars
    <3>7. CASE ConnectionFails \/ DeadlineInterrupts \/ CancellationInterrupts
      BY <3>4, <3>5, <3>7
         DEF ConnectionFails, DeadlineInterrupts, CancellationInterrupts, networkVars
    <3>8. CASE BodyEnds \/ \E chunk \in 1 .. MaxResponseBytes + 1 : ReadChunk(chunk)
      BY <3>5, <3>8 DEF BodyEnds, ReadChunk, networkVars
    <3>9. CASE ResponseClosed \/ HeadersArrive \/ DeadlineExpires \/ Cancel \/ Close
      BY <3>9 DEF ResponseClosed, HeadersArrive, DeadlineExpires, Cancel, Close, networkVars
    <3>10. ~CopyWritten
      BY DEF CopyWritten
    <3>11. QED
      BY <3>1, <3>6, <3>7, <3>8, <3>9, <3>10 DEF Next, Network
  <2>2. ASSUME style = "edge", pc' = "returned", pc # "returned"
        PROVE  outcome' = "cancelled"
    <3>1. CASE cancel = "requested"
      <4>1. ~Resumes
        BY <2>2, <3>1 DEF Resumes
      <4>2. CancellationInterrupts
        BY <2>2, <4>1
           DEF Next, Network, Call, ResponseClosed, WakeUp, DeadlineInterrupts, DeadlineExpires,
               Cancel, Close, CopyWritten, HeadersArrive, ReadChunk, BodyEnds, ConnectionFails,
               ServerAnswers, CopyLost
      <4>3. QED
        BY <2>2, <4>2 DEF CancellationInterrupts, CloseResponse, Return
    <3>2. CASE cancel = "delivered"
      <4>1. pc = "closing" /\ unwinding = "cancellation"
        BY <2>2, <3>2 DEF ClientInvariant, CancellationInvariant
      <4>2. ResponseClosed
        BY <2>2, <3>2, <4>1
           DEF Next, Network, Call, WakeUp, CancellationInterrupts, DeadlineInterrupts,
               DeadlineExpires, Cancel, Close, CopyWritten, HeadersArrive, ReadChunk, BodyEnds,
               ConnectionFails, ServerAnswers, CopyLost
      <4>3. QED
        BY <4>1, <4>2 DEF ResponseClosed, CancellationGoesOn, Return
    <3>3. cancel \in {"requested", "delivered"}
      BY DEF ClientInvariant, Types
    <3>4. QED
      BY <3>1, <3>2, <3>3
  <2>3. QED
    BY <2>1, <2>2
<1>2. QED
  BY <1>1, Invariance, PTL DEF Spec, CancellationIsFinal

-----------------------------------------------------------------------------
(* The call implements EventDelivery.                                      *)

\* A return is one of the contract's ways to settle.
LEMMA ReturnSettles ==
  ASSUME ClientInvariant, pc # "returned", NEW kind, Return(kind),
         kind \notin {"closed", "cancelled"}, UNCHANGED <<attempts, seen, networkVars>>
  PROVE  Contract!Settle(kind)
<1>1. outcome = "pending" /\ outcome' = kind
  BY DEF ClientInvariant, WhereItWaits, Return
<1>2. QED
  BY <1>1 DEF networkVars, Contract!Settle

\* A cancellation is the contract's.
LEMMA CancellationSettles ==
  ASSUME ClientInvariant, pc # "returned", Return("cancelled"),
         UNCHANGED <<attempts, seen, networkVars>>
  PROVE  Contract!Cancelled
<1>1. outcome = "pending" /\ outcome' = "cancelled"
  BY DEF ClientInvariant, WhereItWaits, Return
<1>2. QED
  BY <1>1 DEF networkVars, Contract!Settle, Contract!Cancelled

\* A new attempt sends a copy, or finds the client closed and takes no step of the contract.
LEMMA StartAttemptImplements ==
  ASSUME ClientInvariant, pc \in {"idle", "sleeping"}, StartAttempt(attempts + 1)
  PROVE  Contract!SendCopy \/ UNCHANGED Contract!vars
<1>1. /\ outcome = "pending" /\ attempts \in Nat /\ attempts < MaximumAttempts
      /\ attempts > 0 => PermitsRetry(seen[attempts])
  BY AttemptUnderWay, Numbers DEF ClientInvariant, WhereItWaits
<1>2. attempts' = attempts + 1 /\ UNCHANGED <<seen, networkVars>>
  BY DEF StartAttempt
<1>3. CASE open
  <2>1. outcome' = outcome
    BY <1>3 DEF StartAttempt
  <2>2. QED
    BY <1>1, <1>2, <2>1, ContractConstants DEF networkVars, Contract!SendCopy
<1>4. CASE ~open
  <2>1. outcome' = "closed"
    BY <1>4 DEF StartAttempt, Return
  <2>2. attempts' - 1 = attempts
    BY <1>1, <1>2
  <2>3. QED
    BY <1>1, <1>2, <2>1, <2>2 DEF networkVars, Contract!vars
<1>5. QED
  BY <1>3, <1>4

\* An attempt that fails before its headers is retried, or the last of all.
LEMMA TransportErrorImplements ==
  ASSUME ClientInvariant, pc = "sending", OnTransportError
  PROVE  [Contract!Next]_(Contract!vars)
<1>1. /\ pc # "returned" /\ seen[attempts] = NoAnswer /\ attempts <= MaximumAttempts
      /\ attempts \in Nat /\ outcome = "pending"
      /\ UNCHANGED <<attempts, seen, networkVars>>
  BY AttemptUnderWay DEF OnTransportError, ClientInvariant, WhereItWaits
<1>2. CASE Sleep(Absent)
  BY <1>1, <1>2 DEF Sleep, networkVars, Contract!vars
<1>3. CASE attempts > RetryCount /\ Return("transport")
  <2>1. attempts = MaximumAttempts
    BY <1>1, <1>3, Numbers
  <2>2. Contract!Settle("transport")
    BY <1>1, <1>3, ReturnSettles
  <2>3. QED
    BY <1>1, <1>3, <2>1, <2>2, ContractConstants DEF Contract!Next, Contract!Unanswered
<1>4. QED
  BY <1>2, <1>3 DEF OnTransportError

\* The end of an attempt is a cancellation, a pause or the contract's verdict on the status.
LEMMA ResponseClosedImplements ==
  ASSUME ClientInvariant, ResponseClosed
  PROVE  [Contract!Next]_(Contract!vars)
<1> DEFINE answer == seen[attempts]
           kind   == Decode(Received(answer, length, BodyFailed)).kind
<1>1. /\ attempts \in AttemptNumbers /\ attempts \in Nat /\ attempts > 0
      /\ attempts <= MaximumAttempts /\ answer \in Answers /\ answer # NoAnswer
      /\ pc = "closing" /\ outcome = "pending"
      /\ UNCHANGED <<attempts, length, unwinding, seen, networkVars>>
  BY AttemptUnderWay, AnswerType DEF ResponseClosed, ClientInvariant, WhereItWaits
<1>2. CASE CancellationGoesOn
  <2>1. Return("cancelled")
    BY <1>2 DEF ResponseClosed
  <2>2. QED
    BY <1>1, <2>1, CancellationSettles DEF Contract!Next
<1>3. CASE Sleep(answer.retryAfter)
  BY <1>1, <1>3 DEF Sleep, networkVars, Contract!vars
<1>4. CASE /\ ~CancellationGoesOn
           /\ ~ (/\ answer.status \in RetryableStatuses /\ attempts <= RetryCount
                 /\ RetryAfterAllowed(answer.retryAfter))
           /\ Return(kind)
  <2>1. outcome' = kind /\ broken' = BodyFailed
    BY <1>4 DEF Return, ResponseClosed
  <2>2. /\ answer.status = 200 => outcome' \in {"ack", "decode"}
        /\ answer.status # 200 => outcome' = Contract!StatusKind(answer.status)
                                  /\ outcome' \in {"auth", "notFound", "api"}
    BY <1>1, <1>4, <2>1, DecodedInFull
  <2>3. Return(outcome') /\ outcome' \notin {"closed", "cancelled"}
    BY <1>4, <2>2 DEF Return
  <2>4. Contract!Settle(outcome')
    BY <1>1, <2>3, ReturnSettles
  <2>5. PermitsRetry(answer) => attempts = MaximumAttempts
    BY <1>1, <1>4, Numbers DEF PermitsRetry
  <2>6. CASE answer.status = 200
    <3>1. Contract!Accepted
      BY <1>1, <2>2, <2>4, <2>6 DEF Contract!Accepted
    <3>2. QED
      BY <3>1 DEF Contract!Next
  <2>7. CASE answer.status # 200
    <3>1. Contract!Refused
      BY <1>1, <2>2, <2>4, <2>5, <2>7, ContractConstants DEF Contract!Refused
    <3>2. QED
      BY <3>1 DEF Contract!Next
  <2>8. QED
    BY <2>6, <2>7
<1>5. QED
  BY <1>2, <1>3, <1>4 DEF ResponseClosed

\* The other steps of the task.
LEMMA TaskImplements ==
  ASSUME ClientInvariant,
         \/ \E valid \in BOOLEAN : Call(valid)
         \/ WakeUp \/ ConnectionFails \/ DeadlineInterrupts \/ CancellationInterrupts \/ BodyEnds
         \/ \E chunk \in 1 .. MaxResponseBytes + 1 : ReadChunk(chunk)
  PROVE  [Contract!Next]_(Contract!vars)
<1>1. ASSUME NEW valid \in BOOLEAN, Call(valid) PROVE [Contract!Next]_(Contract!vars)
  <2>1. pc = "idle" /\ attempts = 0 /\ outcome = "pending"
    BY <1>1 DEF Call, ClientInvariant, WhereItWaits
  <2>2. CASE StartAttempt(1)
    BY <2>1, <2>2, StartAttemptImplements DEF Contract!Next
  <2>3. CASE Return("validation") /\ UNCHANGED <<attempts, seen, networkVars>>
    BY <2>1, <2>3, ReturnSettles DEF Contract!Next, Contract!Invalid
  <2>4. QED
    BY <1>1, <2>2, <2>3 DEF Call
<1>2. CASE WakeUp
  BY <1>2, StartAttemptImplements DEF WakeUp, Contract!Next
<1>3. ASSUME NEW bytes, NEW failed, NEW exception, CloseResponse(bytes, failed, exception)
      PROVE  UNCHANGED Contract!vars
  BY <1>3 DEF CloseResponse, networkVars, Contract!vars
<1>4. CASE ConnectionFails \/ DeadlineInterrupts
  BY <1>3, <1>4, TransportErrorImplements DEF ConnectionFails, DeadlineInterrupts
<1>5. CASE CancellationInterrupts
  <2>1. CASE CloseResponse(length, FALSE, "cancellation")
    BY <1>3, <2>1
  <2>2. CASE pc # "returned" /\ Return("cancelled") /\ UNCHANGED <<attempts, seen, networkVars>>
    BY <2>2, CancellationSettles DEF Contract!Next
  <2>3. QED
    BY <1>5, <2>1, <2>2 DEF CancellationInterrupts
<1>6. CASE BodyEnds \/ \E chunk \in 1 .. MaxResponseBytes + 1 : ReadChunk(chunk)
  BY <1>3, <1>6 DEF BodyEnds, ReadChunk, networkVars, Contract!vars
<1>7. QED
  BY <1>1, <1>2, <1>4, <1>5, <1>6

\* Network, server, clock and other tasks take the contract's steps about answers, or none.
LEMMA NetworkImplements ==
  ASSUME ClientInvariant,
         \/ CopyWritten \/ HeadersArrive \/ DeadlineExpires \/ Cancel \/ Close
         \/ \E n \in AttemptNumbers :
              CopyLost(n) \/ \E answer \in Answers : ServerAnswers(n, answer)
  PROVE  [Contract!Next]_(Contract!vars)
<1>1. CASE CopyWritten \/ DeadlineExpires \/ Cancel \/ Close \/ \E n \in AttemptNumbers : CopyLost(n)
  BY <1>1 DEF CopyWritten, DeadlineExpires, Cancel, Close, CopyLost, networkVars, Contract!vars
<1>2. CASE HeadersArrive
  <2>1. /\ outcome = "pending" /\ attempts > 0 /\ seen[attempts] = NoAnswer
        /\ outcome' = "pending" /\ attempts' = attempts /\ answers' = answers
        /\ answers[attempts] # NoAnswer
        /\ seen' = [seen EXCEPT ![attempts] = answers[attempts]]
    BY <1>2 DEF HeadersArrive, ClientInvariant, WhereItWaits, networkVars
  <2>2. QED
    BY <2>1, ContractConstants DEF Contract!Next, Contract!SeeAnswer
<1>3. ASSUME NEW n \in AttemptNumbers, NEW answer \in Answers, ServerAnswers(n, answer)
      PROVE  Contract!Next
  <2>1. n \in 1 .. Sent
    BY <1>3 DEF ServerAnswers, ClientInvariant, Bookkeeping
  <2>2. n <= Sent /\ answers[n] = NoAnswer
    BY <1>3, <2>1 DEF ServerAnswers, ClientInvariant, Bookkeeping
  <2>3. /\ answers' = [answers EXCEPT ![n] = answer]
        /\ UNCHANGED <<attempts, seen, outcome>>
    BY <1>3 DEF ServerAnswers
  <2>4. Contract!Answer(n, answer)
    BY <2>2, <2>3, ContractConstants DEF Contract!Answer, Sent
  <2>5. QED
    BY <1>3, <2>4, ContractConstants DEF Contract!Next
<1>4. QED
  BY <1>1, <1>2, <1>3

\* One call of the asynchronous client sends, retries and settles as the contract of the
\* SDKs promises and in no other way, however its task is cancelled; one that finds the
\* client closed sends nothing more and has none of the promised outcomes.
THEOREM Implementation == Spec => ImplementsContract
<1>1. Init => Contract!Init
  BY ContractConstants DEF Init, Contract!Init
<1>2. ClientInvariant /\ [Next]_vars => [Contract!Next]_(Contract!vars)
  <2> SUFFICES ASSUME ClientInvariant, [Next]_vars PROVE [Contract!Next]_(Contract!vars)
    OBVIOUS
  <2>1. CASE UNCHANGED vars
    BY <2>1 DEF vars, Contract!vars
  <2>2. CASE Next
    BY <2>2, ResponseClosedImplements, TaskImplements, NetworkImplements DEF Next, Network
  <2>3. QED
    BY <2>1, <2>2
<1>3. QED
  BY <1>1, <1>2, Invariance, PTL DEF Spec, ImplementsContract, Contract!Spec
=============================================================================
