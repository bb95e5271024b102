# TLA+ specifications of the Cekat event SDKs

The repository holds seven client libraries (Node/Bun, Go, Python, Java, .NET, Ruby,
PHP) of one ingest API, helpers that carry a browser visitor id to the server, and a
mock ingest server for the conformance suite. The specifications here model the part of
that code that is hard to test: what a call of an event method does between its first
copy of an event on the wire and the outcome it reports, while timeouts fire, answers
are late or lost, and the caller cancels. For the Python SDK they also model the visitor
scopes and the validation of an event, and they model the program that runs the shared
conformance fixtures.

## Inventory

### Delivery: one call of an event method

An event method (`userLogin`, `orderPaid`, `customEvent`, ...) validates its input, reads
the current visitor, encodes the payload once and hands it to a delivery loop.

| SDK | loop | state of a call | what can happen at the same time |
| --- | --- | --- | --- |
| Node/Bun | `node/src/node/delivery.ts`, `body.ts` | attempt counter, timer, abort listeners, response stream, pause | caller's `AbortSignal`, timeout, stream, caller's own changes to the event |
| Go | `go/client.go`, `retry.go`, `response.go` | attempt counter, derived context | caller's context, timeout |
| Python | `client.py`, `async_client.py`, `protocol.py`, `retry.py` | attempt counter, deadline, bounded buffer, cancel scope | task cancellation (async), `close()` by others |
| Java | `CekatClient.java`, `JdkHttpTransport.java` | attempt counter, future, body subscriber | the HTTP client's thread, interrupts |
| .NET | `CekatClient.cs` | attempt counter, linked token source | cancellation token, timeout, changes to the input after `Task.Yield` |
| Ruby | `client.rb`, `transport.rb` | attempt counter, deadline between chunks | - |
| PHP | `Client.php`, `GuzzleTransport.php` | attempt counter | - |

All share `docs/sdk-contract.md`: at most `retryCount + 1` attempts; statuses 429, 500,
502, 503 and 504 and missing responses are retried after a full-jitter pause raised to
the server's `Retry-After`; a `Retry-After` above five seconds ends the call; 200 becomes
an acknowledgement or a decode error, 401, 404 and the rest become errors; a body is read
up to 64 KiB. What makes it correct: the outcome tells the truth about the last attempt,
nothing is sent after a final answer or after the caller cancelled, every copy is the
same event, no resource is left behind, and the call ends.

### Visitor propagation

A scope (`AsyncLocalStorage`, `context.Context`, `ContextVar`, a thread-local, `AsyncLocal`,
fiber storage, a shared PHP object) holds the current visitor; framework adapters open it
per request. The hard part is scopes that close out of order, on other threads, or
after asynchronous dispatches (servlet filter). In the browser, `auto.ts` wraps `fetch`
and `XMLHttpRequest` and unwraps them again; other code may wrap them in between.

### Payloads

Before it sends anything an SDK checks its settings and the event, and walks the
properties: depth, cycles, numbers every JSON reader can hold. The walk carries a set of
ancestors through recursive calls, and the number checks meet a language's own ideas of
what an integer is. What makes it correct: whatever is accepted can be sent and read back,
whatever is refused is wrong in the documented way, and nothing is sent before.

### Conformance run

`scripts/conformance.py` starts, for one language after the other, a mock ingest server and
the language's runner, each in a process group of its own, reads the runner's output in a
thread, stops what the runner left behind, and accounts for every fixture. A signal's handler
ends the program from wherever the main thread is. What makes it correct: a language that is
reported as ok has shown every fixture, what a run leaves behind it leaves in a few known windows
only, no process of a language's groups reaches the next language, and the run ends.

### The rest

The mock ingest server keeps a journal and a queue of scripted answers under one mutex; the
other scripts read files and report what is wrong in them. `PROJECT.json` lists every
component with its sources and status.

## Modules

| module | what it is |
| --- | --- |
| `EventDelivery` | the abstract contract of one call: copies sent, answers given, answers seen, outcome |
| `SharedRulesProofs` | the retry policy's agreement between the languages, and what follows from the contract for every client that implements it |
| `RetryPolicy` | retryable statuses, jitter bounds and what a requested pause makes of them, language by language |
| `RetryPolicyCases` | the documented formula and the comparisons of those operators, which `MCPythonClient` checks |
| `NodeDelivery` | one call of the Node client in full, and its inductive invariant |
| `MCNodeDelivery` | the instance TLC checks |
| `NodeDeliveryProofs` | the invariant, the safety properties and the refinement, proved |
| `GoDeliveryProofs`, `PythonClientProofs`, `PythonAsyncClientProofs` | the same for the other three clients, each with its inductive invariant |
| `PythonVisitorProofs`, `PythonPayloadProofs`, `ConformanceRunProofs` | inductive invariants and proofs about visitor scopes, payloads and the conformance run |
| `GoDelivery`, `MCGoDelivery` | one call of the Go client and the instance TLC checks |
| `PythonProtocol` | the bounded buffer and the decoding of a response, shared by both Python clients |
| `PythonClient`, `MCPythonClient` | one call of the synchronous Python client |
| `PythonAsyncClient`, `MCPythonAsyncClient` | one call of the asynchronous Python client |
| `PythonVisitor`, `MCPythonVisitor` | visitor scopes in threads and tasks, the Django, ASGI and Flask integrations, the Stripe helpers |
| `PythonPayload`, `MCPythonPayload` | settings, event arguments and the walk over the properties |
| `ConformanceRun`, `MCConformanceRun` | the conformance script with its threads, processes and signals |

`PythonClient` and `PythonAsyncClient` extend `PythonProtocol`, which extends `RetryPolicy`;
with `NodeDelivery` and `GoDelivery` they instantiate `EventDelivery`. A module's instance for
TLC is the module of the same name with `MC` in front, and what is proved about it is in the
module of the same name with `Proofs` behind.

### NodeDelivery and the code

JavaScript runs from one `await` to the next, so an action of the SDK is everything
between two awaits, and `phase` names the await the call is suspended at:

| `phase` | suspended in | continued by |
| --- | --- | --- |
| `idle` | not called yet | `Call`: `Client.track`, `buildPayload`, the first round of `deliver()` up to `fetch()` |
| `fetching` | `await fetch(...)` in `attempt()` | `OnResponse`, `OnFetchRejected` |
| `reading` | `readBoundedBody` in `classifyResponse` | `OnBodyRead` |
| `cancelling` | `await cancelBody(response)` | `OnBodyCancelled` |
| `sleeping` | `abortableSleep` in `backoff()` | `OnWakeUp` |
| `settled` | the returned promise has settled | |

`timer`, `listener`, `fetch`, `stream` and `pause` are the attempt's `setTimeout`, the abort
listeners on the caller's signal, the promise of `fetch()`, the response body and the
pause's timer. `AttemptTimeout` and `CallerAborts` do what `controller.abort()` does: they
reject a pending `fetch()` and break a stream that is not complete. The caller may abort
before, between or during any of these steps, and may change the object it passed.
A copy in `inFlight` may be answered long after the attempt was given up (`answers`), which
the client then never sees (`seen`).

Abstractions: an event is a model value, and `Malformed` is one `buildPayload` refuses; an
answer is a status and a parsed `Retry-After`; a body is `valid`, `invalid`, `oversized` or
`broken`, whatever chunks it comes in. How a `Retry-After` header is read is not modelled (see
the end). The options of the client are its constants. The promise of a body's `cancel()` always
settles.

### GoDelivery and the code

The call runs in the caller's goroutine, and the only other actor of the process is
whoever cancels the context. What the goroutine does between two blocking calls is one
action: a cancellation in between is the same as one before the next look at `ctx.Err()`.

| `pc` | blocked in | continued by |
| --- | --- | --- |
| `idle` | not called yet | `Track`: `track`, `buildPayload`, `deliver` up to the first `Do` |
| `sending` | `httpClient.Do` in `doAttempt` | `OnResponse`, `OnError` |
| `reading` | `readBoundedBody` in `decodeResponse` | `OnBodyRead` |
| `sleeping` | the `select` of `defaultSleep` | `OnWakeUp` |
| `returned` | the event method has returned | |

`deadline` is the timeout of `context.WithTimeout`, `exchange` what `Do` returns, `stream`
the response body, `timer` and `delay` the sleep. `net/http` watches the context on its own
(`ContextInterrupts`), so an answer or a body that is already there may win over a
cancellation, and a `select` with a fired timer and a done context may take either branch.
A context with a deadline of the caller's is `cancelled` when that passes. Left out: the
`TransportError` for a request that cannot be built, which a validated base URL rules out,
and a retry count whose attempts do not fit an `int`.

### PythonClient and the code

The thread of `_track` and `_attempt` blocks in one operation of httpx after the other;
`pc` names it.

| `pc` | blocked in | continued by |
| --- | --- | --- |
| `idle` | not called yet | `Call`: event method, `build_body`, first round of `_track` |
| `connecting`, `writing`, `awaiting` | `self._http.send`: connection, request, headers | `Progress`, `HeadersArrive`, `OnTransportError` |
| `reading` | `response.iter_bytes()` | `ReadChunk`, `BodyEnds`, `OnBodyError`, each with `FinishBody` when it ends the body |
| `sleeping` | `self._sleep` | `WakeUp` |
| `returned` | returned or raised | |

Time is counted: `elapsed` since the attempt began, which the code compares with its deadline
only in `ReadChunk`, and `waited` since the operation began, which is what httpx limits.
`SilentRead` is a read that brings no chunk (part of the headers, an interim response, chunk
framing, encoded bytes that decode to nothing): it restarts httpx's timeout, passes by the look at
the deadline, and may happen any number of times. `silentAt` remembers when the last one did. A
body is a number of bytes of which a prefix is JSON text, so that a body can be cut off
after the text is complete; the buffer's limit is two bytes in the instance. `Close` is
`close()` on another thread, which ends an owned `httpx.Client`: the next `send` raises a
`RuntimeError` that `_track` does not catch, and the call ends with the outcome "closed".

### PythonAsyncClient and the code

A task runs from one await to the next, and every await is a value of `pc`: `sending`
(`send`), `reading` (`aiter_bytes`), `closing` (`aclose` in its shielded scope), `sleeping`.
`deadline` is the scope of `anyio.move_on_after`, `unwinding` the exception that the `finally`
block delays. The task can be cancelled at any moment in one of two styles, which
differ in what a shield does: `Task.cancel()` of asyncio throws once, where the task waits; a
cancelled scope of anyio or Trio throws at every await outside a shield. When the attempt's
deadline and a cancellation of the task meet, anyio hands the task's cancellation on
(`CancellationGoesOn`). One cancellation a call; nothing is written by a cancelled task.
The deadline has passed or not; durations are not counted.

### PythonVisitor and the code

`current` is the `ContextVar`, one value for each worker thread and task. `stack` holds the
`with` blocks and requests a context is in; a block remembers the value its token restores.
Flask's hooks have no block: their scope is in `g` of the application context, which an
outer request to the same application has pushed already. `CreateTask` copies the
value, as `asyncio.create_task` copies the context. A header or a cookie is a visitor or blank, and the
raw `Cookie` header a sequence of values.

### PythonPayload and the code

`Construct` is the constructor's `Settings.create`, `Call` an event method up to the walk, then
`Visit` and `Leave` are `_normalize` and `_container` with the recursion as an explicit
`stack`, and `Encode` is `json.dumps(...).encode`. Arguments are modelled by class ("blank",
"surrogate", "not finite", ...), one for each way the code treats them; numbers are counted in
quarters, and `AsFloat` rounds one to the nearest double (ties to even), whose spacing grows from a
quarter to 2 around `MaxSafe`. A "signalling" amount and a "huge" timeout are a `Decimal("sNaN")`
and an integer beyond every double, for which `math.isfinite` raises errors of its own: the call
ends as "raised". An order's properties are walked in the copy `with_order_paid_properties`
makes, so that nothing in them leads back to the root. `MaxSafe` stands for 2^53 - 1 and `MaxDepth`
for 256. The walk never stops early in the model either: it raises or visits
everything. What it should find is said with `Paths`, the containers that contain one another
from the properties down; paths of up to `MaxDepth + 1` containers suffice, as a longer one begins with
one that is too deep.

### ConformanceRun and the code

`main` is where the main thread is. A `Popen` and the registration of the process in `active`
are two steps, because the signal handler may run in between; so are `mkdtemp` and the
installation of the handlers. The handler takes the main thread over, so `At` requires that it is
not polling, and does not return; but it runs `ps`, which may fail, and then the exception goes
through the main thread from wherever it is (`HandlerFails`). An exception that is no `Failure`
(a readiness record `urlsplit` refuses, an answer that is no HTTP, a `Popen` that raises) stops
the mock and ends the program (`Unwind`, `raised`). Waits with a deadline (readiness, control
API, stopping, the reader) may end at any time; the wait for the runner has none. A runner writes
any lines, starts a process in its group (`leftover`) or lets one escape with the pipe
(`escaped`), which may write on; the reader may fail to print and end early. A mock server
may announce itself in the wrong form, hang or end at any point. SIGTERM alone promises nothing in the
model, SIGKILL ends what it hits. Once the program has exited the rest of the system stands
still. A line is the sequence of the records on it, of which `parse_records` sees the first; a
record is an id and a status. `results`, `log` and `complete` keep what each verdict was based on.

### EventDelivery

The contract has four variables and steps only for sending a copy, the server answering,
the client seeing an answer, and settling. `NodeDelivery!Contract` maps it: `sent` is
`Len(copies)`, `outcome` the kind of the settled outcome, `answers` and `seen` are the
same; `GoDelivery!Contract` takes `attempts` for `sent`, and the rest as it is. The Python clients
do the same, except that an attempt refused because the client has been closed has
not sent anything, that to the contract such a call stays unsettled, because its error is none of
the contract's outcomes, and that a cancelled call counts as aborted. It says nothing about timers, pauses and streams, so the loops of the other
languages can be held to it too.

## Runs

| run | checks | bounds |
| --- | --- | --- |
| `node_delivery` | all safety, action and liveness properties of one call, and `ImplementsContract` | three attempts, two events, eight answers, pauses in units of 100 ms |
| `node_known_outcome` | expected to fail, see below | as above with one event |
| `go_delivery` | pauses, release of an attempt's resources, cancellation and termination of one call, and `ImplementsContract` | three attempts, eight answers, pauses in units of 100 ms |
| `python_client` | honest pauses, the time chunks of a body may take, whole acknowledgements, termination, `ImplementsContract`; the seven jitter bounds equal the documented formula, and Python's and .NET's one-step delays agree with checking the cap first | two attempts, timeout of two ticks, ticks counted up to seven (`Horizon`), bodies around a limit of two bytes, nine answers; retries 0 to 20 (`LastRetry`), every pause up to one above the cap and every jitter in units of 100 ms |
| `python_attempt_time`, `python_interrupted_error`, `python_closed_client` | expected to fail, see below | as above |
| `python_async` | release of the response, whole acknowledgements, cancellation, termination, `ImplementsContract` | three attempts, one cancellation, six answers |
| `visitor_scope` | the innermost scope is current, events and metadata carry it | one thread, two tasks, two visitors (one not fit for Stripe), three blocks open at once (`MaxOpen`) |
| `flask_nested_request` | expected to fail, see below | as above, with nested Flask requests |
| `event_payload` | the walk, the price of an order, the origin | graphs of three containers with up to two values each, combinations of the head's classes, amounts in quarters up to one integer above the limit, depth two, `MaxSafe` 3 |
| `conformance` | accounting, what survives a run, isolation of languages, termination | two languages, two fixtures, three lines a runner (`MaxLines`) of three kinds, one signal (`MaxSignals`) |

Three attempts are the smallest number with a first, a middle and a last attempt, so that
an attempt with an unseen answer can precede both a retried and a final one. The eight
answers are one of each class the code tells apart, with `Retry-After` missing, below the
jitter bound, at and just above the cap. Two events suffice to see a copy that
is not the caller's first object. Two attempts suffice for the synchronous Python
client, whose attempts differ in nothing but the number, and whose time makes its states many.
Three blocks open at once are what the counterexample of `flask_nested_request` needs (a
request, a scope, a request inside), and enough to restore values out of order. Seven ticks
are one more than three operations that take their whole timeout before the body, so a late body and
one that a silent read has delayed are told apart; beyond that time stands still. Three lines allow a complete account of two fixtures and one
record too many; the kinds are a passed record, a `not_applicable` one only one of the languages may
report, and two records on a line, the second for no fixture (no line without a record, and none
whose first record names no fixture). A second signal only starts the same handler again,
or the handler after one that failed, which the theorems cover. In `event_payload` two
values a container make sharing, cycles and an invalid value beside either; the third
container holds a `Decimal` a quarter above the limit, which is accepted, or leads back to the second.
There is no bound on the depth of the behaviours: every call and every run of the script ends,
and scopes come and go for ever. `CHECK_DEADLOCK FALSE` because a settled call (or the last retry of the
walk) has nothing left to do.

### Fairness

`FairSpec` assumes what an event loop gives: a continuation whose promise has settled runs,
and a timer that is armed fires. Nothing is assumed of network, server or caller; in
particular an answer, a body or a connection error may never come. `EveryCallSettles`
therefore rests on the attempt's timeout covering headers and body, and on the bound on
attempts. In Go a goroutine that is not blocked runs, the timers of the runtime fire, and
`net/http` gives up a request or a body whose context is done; `EveryCallReturns` rests on the
same two facts about the code.

The thread of the synchronous Python client is assumed to see time pass, the timeouts of httpx
fire and sleeps end. That does not suffice: a server that keeps sending what brings no chunk
keeps the call blocked for as long as it likes, so `EveryCallReturns` is stated for the behaviours in
which silent reads stop at last. Otherwise nothing is assumed of network and server there. In the asynchronous client deadlines pass,
a cancellation is delivered and `aclose()`, which waits for no peer, ends; nothing is assumed
of network and server. In the conformance run the main thread and the handler run, and a runner
ends by itself, read or not, as `runner.wait()` has no deadline. That is a presumption about
the seven runners, one of which may block on its output once the reader has failed. What a runner leaves
behind need not end, and the reader need not run.

### What the runs show

`node_delivery` passes. Each of its properties is broken by at least one plausible change
of the code, kept in the module as a `Mutant` operator in front of the definition it
would replace.

`go_delivery` passes too. `CancellationIsReported` settles the question of the order in which
`deliver` looks at results and context: an acknowledgement that was read is returned even
under a done context, every other result is replaced by the context's error, and no copy
leaves after the context is done.

`node_known_outcome` shows a disagreement between the code and its documentation.
`node/README.md` says that received responses "have known delivery outcome". When the
first attempt times out, its copy may still be accepted; if the retry is then
answered with, say, 404, the call rejects with `deliveryOutcomeUnknown: false` although
the server has accepted the event and the client does not know. The other SDKs have
the same loop and the same wording.

`python_client` passes: the chunks of a body, however slowly they drip, cannot keep a call reading
beyond one operation after the deadline, or after the headers if they came later. Reads that bring no chunk can, without limit, because
`client.py:123` is reached with a chunk only: `BodyReadBounded` counts from the last such read, and
`EveryCallReturns` holds when there is a last one. `python_attempt_time` shows that the timeout does not
cover the attempt as `python/README.md` says: each operation before the body has it to itself.

`python_closed_client`: `docs/sdk-contract.md` says that every failure is one of six categories
deriving from a common base error, and `python/README.md` that all errors inherit from
`CekatError`. A call that finds its client closed by another thread, between two attempts say,
raises httpx's `RuntimeError`. The asynchronous client does the same; there the model has the
outcome "closed" too, without a run of its own.

`python_async` passes, for both styles of cancellation. The one response that is not closed is
that of a call whose `aclose()` itself met a `Task.cancel()`, which a shield does not stop.

`python_interrupted_error`: `conformance/README.md` says that an error whose body read fails uses
the reason phrase as its message; the code uses the envelope if the bytes that came are one.

`visitor_scope` passes without nested Flask requests. `flask_nested_request` shows how a worker
keeps a visitor: a view opens a `visitor_scope` and calls the same application
inside it (say through a test client). The inner request's teardown closes the outer request's
scope, because both share `g`; leaving the view's own scope then sets the outer visitor again,
and the outer teardown finds nothing to close.

`event_payload` passes. A `Decimal` less than one half above the safe range is accepted and sent as the
limit (`validation.py:166-169`), which is why `OrderIsPriced` allows a difference of one half between
the amount given and the one sent. `python/README.md:60` limits "integers (and integral
floats)", so this contradicts no line of it. The calls that end as "raised" do contradict
the contract's six categories, as in `python_closed_client`; no property covers them.

`conformance` passes. `OkMeansAccounted` says less than the program's description promises in three
points. It is about the lines that were read when the reader was joined, and about all lines ever
written only where the output had ended by then (`complete`): what a process that left the group writes later, or what
waits behind a blocked output when the six seconds are over (`conformance.py:272`), is not
accounted for, so that a second or a failed record in it passes, although lines 8-11 promise
"every discovered fixture exactly once". Of two records on one line only the first is seen (line 97).
And the mock server is polled when the runner has ended and again before it is stopped (lines 292 and
298): a crash between the two is not reported, although the description promises that the
server "stays up and exits cleanly".

`NothingOutlivesTheRun` names what a run may leave: the directory, when a signal comes between lines
332 and 358; go build, which no signal handler knows, when one comes at line 140; a process that is
started but not yet known to the handler (lines 283 and 237-249); and after a handler that could not run
`ps` the runner's group or the mock server. A process that left its group is outside the property:
nothing in the script ends it.

## Proofs

Every safety and action property of a passing run is a theorem, except `DelayBoundsAgree` and
`RetryDelaysAgree` of `python_client`, of which `ClampsAgree` and `DelaysAgree` prove a part and
the whole for all numbers, and so is the refinement of `EventDelivery` by each of the four clients. The assumptions are those the
modules declare (`PolicyAssumption`, `DeliveryAssumption` and the like: types of the constants, statuses
100 to 599) and the ones named below. In each module but the
last, `Invariance` proves `Spec => []` of an inductive invariant, with one lemma per action or handler; the
theorems follow from it. TLC has checked each inductive invariant on the states of the
component's passing run (the chains `WalkInvariant` speaks of limited to four containers).

| theorems | properties |
| --- | --- |
| `NodeDeliveryProofs`: `TypeCorrect`, `OutcomeIsHonest`, `NothingGivesUpEarly`, `OneEventPerCall`, `PauseIsHonest`, `CleansUp`, `AbortIsPrompt`, `AbortIsFinal`, `RetriesArePermitted`, `Implementation` | `TypeOK`, `OutcomeMatchesLastAnswer`, `NoEarlySurrender`, `CopiesCarryOneEvent`, `PauseHonoursServer`, `NothingLeftBehind`, `AbortNeedsNoTimer`, `AbortStopsTheCall`, `RetryOnlyWhenPermitted`, `ImplementsContract` |
| `GoDeliveryProofs`: `TypeCorrect`, `PauseIsHonest`, `AttemptsAreReleased`, `CancellationIsHonest`, `Implementation` | `TypeOK`, `PauseHonoursServer`, `AttemptReleased`, `CancellationIsReported`, `ImplementsContract` |
| `PythonClientProofs`: `TypeCorrect`, `PauseIsHonest`, `BodyReadIsBounded`, `AcknowledgedOnlyInFull`, `Implementation` | `TypeOK`, `PauseHonoursServer`, `BodyReadBounded`, `AcknowledgedInFull`, `ImplementsContract` |
| `PythonAsyncClientProofs`: `ResponsesAreReleased`, `AcknowledgedOnlyInFull`, `CancellationEndsTheCall`, `Implementation` | `ResponseReleased`, `AcknowledgedInFull`, `CancellationIsFinal`, `ImplementsContract` |
| `PythonVisitorProofs`: `InnermostScopeCounts`, `EventsCarryTheirOwn` | `InnermostScopeIsCurrent`, `EventsCarryTheirVisitor` |
| `PythonPayloadProofs`: `WalkIsExact`, `OrdersArePriced`, `OriginsReadBack` | `WalkIsRight`, `OrderIsPriced`, `OriginReadsBack` |
| `ConformanceRunProofs`: `OkIsEarned`, `NothingIsLeft`, `LanguagesDoNotMeet` | `OkMeansAccounted`, `NothingOutlivesTheRun`, `LanguagesAreIsolated` |
| `SharedRulesProofs`: `DelaysAgree`, `ClampsAgree`, `AcceptanceIsReal`, `InvalidSendsNothing`, `FinalAnswersAreFinal` | no run's property by name: what `RetryDelaysAgree` says of its instance, a part of `DelayBoundsAgree`, and the contract's own |

### The inductive invariants

- Node, `IInv`: that an outcome fits the last answer needs `PhaseInvariant` (which promise,
  timer and stream go with which await, and that a body is read only of a response that
  will not be retried) and `Bookkeeping` (as many copies as attempts, an answer belongs to
  a copy that has left, what the client saw is what the server said).
  `EarlierAnswersPermitRetry` remembers why earlier attempts were given up, and
  `AbortInvariant` that an abort has reached whatever the call awaits.
- Go, `GoInvariant`: where the goroutine blocks determines which context is live and whether a
  body is open, and `Bookkeeping` which answers the call can have seen. A done
  context is reported because `deliver` looks at it after every attempt, whatever the attempt returned.
- Synchronous Python, `ClientInvariant`: a clock part that says how far a read may lag behind the
  deadline or the last silent read, in ticks of the operation under way, and a body part
  that says what the buffer holds of the answer. `BodyReadBounded` alone says nothing
  of an attempt before its first chunk.
- Asynchronous Python, `ClientInvariant`: at each await what became of the response and its body,
  and that a delivered cancellation leaves the call nothing but to pass it on. Without the
  second half the shielded `aclose()` could be thought to lose it.
- Visitor scopes, `VisitorInvariant`: the value every open block will bring back when it ends is
  the one that was visible when it was entered. The property speaks of the innermost block only, which is
  not inductive: leaving it uncovers the next. The theorems assume `NestedFlask = FALSE`; with
  nested Flask requests the property is false, as `flask_nested_request` shows.
- Payloads, `PayloadInvariant`: the shared set of ancestors holds exactly the containers that
  calls of `_container` are in, none twice and at most `MaxDepth + 1`, each of them the
  value read last in the one around it. With it `WalkInvariant` says of every container the walk
  has left that below it no chain of containers returns to itself or to those around it, none
  is too long and every value is sound. When the outermost call ends, this is said of all the
  properties. An object may be walked many times at different depths, so the invariant ties what is
  known of it to the frames around it and keeps no set of objects done.
- Conformance run, `RunInvariant`: for each place of the main thread which processes may be
  alive and which of them the signal handler knows, also when a failed handler has sent the
  main thread on (`Unwound`); that a reader which is done has read all that was written and
  nobody is left to write more; and that a verdict without a problem was earned.

`OrdersArePriced` holds for odd `MaxSafe` only (`PayloadAssumption`): the integer above the limit is
then the even one, and a `Decimal` in the middle between the two is rounded up to it and refused; were the limit even, it would be
rounded down and sent. 2^53 - 1 is odd.

The refinements map the initial state to the initial state and each step to a step or a stutter of the
contract. They have one lemma for the steps of the SDK, one for the start of a call and
one for the network. `SharedRulesProofs` then proves three consequences for every client
that implements the contract: an event reported as accepted was accepted, a validation error means nothing
was sent, and no copy follows a final answer. They need only that no real answer has
status 0.

The retry policy has no state. `DelaysAgree` says that the two ways to combine a requested pause and
the jitter agree, for every limit, request and jitter.
`ClampsAgree` is the part of `DelayBoundsAgree` that is free of exponents: the six languages that clamp the
exponent draw below the same bound for every retry number.

### Model-checked only

- `EveryCallSettles`, `EveryCallReturns` (three modules) and `EveryRunEnds`: liveness under fairness, which the
  provers do not handle.
- `DelayBoundsAgree`: that the clamped exponents agree with the documented formula and with Go's
  shift for every retry number is a law of exponentiation. Its proof is an induction over numbers, of
  which the provers know nothing but that a power is an integer, and it holds for the code's own
  bounds of 100 ms and 1 s only. `ClampsAgree` proves what needs no such law.
- The expected failures are counterexamples, not theorems.

## Hazards not covered yet, and the plan

`PROJECT.json` lists the hazards with the properties that cover them. Open ones, in the
order they will be taken up:

1. `JavaDelivery`: `CekatClient` and `JdkHttpTransport`, with the HTTP client's thread
   delivering bytes while the caller's thread times out or is interrupted.
2. `DotnetDelivery`: the task, its token, and input that is read after `Task.Yield`.
3. `BlockingDelivery`: the synchronous loops of Ruby and PHP, after `PythonClient`.
4. `VisitorScopes`: thread-local scopes, fiber storage and PHP's shared slot against what
   `PythonVisitor` checks; `ServletFilter` for asynchronous dispatches.
5. `BrowserAuto`: enabling, disabling, foreign wrappers, XHRs opened before and after.
6. `MockIngest`: concurrent requests, scripted answers and resets.
7. `NodeClient`: how each event method reports an invalid event.

Theorems worth proving beyond these: for `BrowserAuto` that the header leaves only for
allowed targets; for `MockIngest` that sequence numbers are dense and every scripted answer
is used at most once.

## Not modelled

Payloads of the languages other than Python (the same checks, held to each other by shared
fixtures), the text of messages, redaction of transport causes, the Node
Stripe helpers, `runtime.ts`, and the scripts that validate documents, manifests and the
compatibility matrix: each reads files once and lists what is wrong, without state, time or
concurrency. Of the Python SDK the representations, the exception classes' texts and `init_app` of the
Flask extension are left out. Two limits come from outside the
repository: Bun before 1.4 rejects `fetch()` for a body truncated after the headers, which
the model would see as `FetchFails` after an answer; and a custom `fetch` whose stream
never finishes `cancel()` would stall a retry, which no timeout of the code covers.


How a `Retry-After` header becomes a number of seconds is left to each language's own parsers and
not modelled: an answer in the models carries the number its client read. For delays in
seconds the languages look alike, but for an HTTP-date they are not: Node's `Date.parse`
(`delivery.ts:152`) reads an asctime date as local time and has its own rule for two-digit years, while
Go's `http.ParseTime` (`retry.go:57`) and Python (`retry.py:41-42`) read UTC.

Of the conformance script the exceptions that printing, starting a thread or reading and writing
the files of a language's directory may raise are left out.
