---------------------------- MODULE PythonVisitor ----------------------------
(***************************************************************************)
(* The visitor scopes of the Python SDK: the ContextVar of context.py, the *)
(* Django, ASGI and Flask integrations that open a scope per request, and  *)
(* who reads the current visitor (build_body and the Stripe helpers).      *)
(* A context is a WSGI worker thread, which serves one request after the   *)
(* other, or an asyncio task, which starts with a copy of its creator's    *)
(* context.  The stack of a context holds the with-blocks and requests it  *)
(* is in, the innermost last.  Flask has no with-block: its hooks keep the *)
(* open scope in g, which lives in the application context that an outer   *)
(* request to the same application has pushed already (Flask 3.1).         *)
(***************************************************************************)
EXTENDS Sequences, FiniteSets, Integers

CONSTANTS
  Threads, Tasks,     \* execution contexts
  Visitors,           \* nonblank visitor ids
  StripeVisitors,     \* those _valid_visitor_id accepts
  NoVisitor,          \* None, also what a blank id is normalised to
  Inputs,             \* visitor inputs of a request: [header, rawCookie, cookie], where
                      \* rawCookie holds each value the Cookie header gives the name
  NestedFlask,        \* bound: a Flask request may contain one to the same app
  MaxOpen             \* bound: with-blocks and requests open at the same time

ASSUME VisitorAssumption ==
  /\ Threads \cap Tasks = {}
  /\ NoVisitor \notin Visitors
  /\ StripeVisitors \subseteq Visitors
  /\ LET Ids == Visitors \cup {NoVisitor} IN
       Inputs \subseteq [header : Ids, rawCookie : Seq(Ids), cookie : Ids]
  /\ NestedFlask \in BOOLEAN
  /\ MaxOpen \in Nat

Contexts == Threads \cup Tasks
Ids      == Visitors \cup {NoVisitor}

VARIABLES
  running,    \* contexts that exist
  current,    \* current[c]: the value of the ContextVar
  inherited,  \* inherited[c]: its value when the context was created
  stack,      \* stack[c]: open blocks, [kind, scoped, saved, input] each
  g           \* g[c]: the scope Flask's hooks opened, as the value it will restore

vars == <<running, current, inherited, stack, g>>

NoInput == [header |-> NoVisitor, rawCookie |-> <<>>, cookie |-> NoVisitor]
Closed == [open |-> FALSE, saved |-> NoVisitor]
Init ==
  /\ running = Threads
  /\ current = [c \in Contexts |-> NoVisitor]
  /\ inherited = [c \in Contexts |-> NoVisitor]
  /\ stack = [c \in Contexts |-> <<>>]
  /\ g = [c \in Contexts |-> Closed]

-----------------------------------------------------------------------------
(* Pure helpers.                                                           *)

\* visitor_id_from_cookie_header: the first value that is not blank.
CookieVisitor(values) ==
  LET nonblank == {i \in DOMAIN values : values[i] # NoVisitor}
  IN  IF nonblank = {} THEN NoVisitor
      ELSE values[CHOOSE i \in nonblank : \A j \in nonblank : i <= j]

\* extract_visitor_id: header, raw Cookie header, parsed cookies.
Extract(input) ==
  CASE input.header # NoVisitor -> input.header
    [] input.header = NoVisitor /\ CookieVisitor(input.rawCookie) # NoVisitor ->
         CookieVisitor(input.rawCookie)
    [] OTHER -> input.cookie

\* _valid_visitor_id: only an id Stripe's metadata may hold.
StripeMetadata(visitor) == IF visitor \in StripeVisitors THEN visitor ELSE NoVisitor

\* merge_metadata: a valid id replaces the one in the caller's metadata.
Merged(existing, visitor) ==
  IF StripeMetadata(visitor) # NoVisitor THEN StripeMetadata(visitor) ELSE existing

\* Mutant: the ambient visitor wins.
EventVisitorAmbientFirst(explicit, ambient) ==
  IF ambient # NoVisitor THEN ambient ELSE explicit

\* build_body: the event's own visitor before the ambient one.
EventVisitor(explicit, ambient) == IF explicit # NoVisitor THEN explicit ELSE ambient

\* Every open block, as a context and a position in its stack.
Open == UNION { {c} \X DOMAIN stack[c] : c \in Contexts }

Top(c) == stack[c][Len(stack[c])]
Pop(c) == [stack EXCEPT ![c] = SubSeq(@, 1, Len(@) - 1)]
Push(c, frame) == [stack EXCEPT ![c] = Append(@, frame)]
InFlask(c) == \E i \in DOMAIN stack[c] : stack[c][i].kind = "flask"

-----------------------------------------------------------------------------
(* Code that runs in context c.                                            *)

\* with visitor_scope(...), visitor_from_request(...) or an integration that uses
\* them: the token of the with-block remembers the value to restore.
EnterScope(c, kind, input) ==
  /\ c \in running
  /\ Cardinality(Open) < MaxOpen
  /\ current' = [current EXCEPT ![c] = Extract(input)]
  /\ stack' = Push(c, [kind |-> kind, scoped |-> TRUE, saved |-> current[c],
                       input |-> input])
  /\ UNCHANGED <<running, inherited, g>>

\* Mutant: the block clears the visitor instead of restoring the outer one.
LeaveScopeClearing(c) ==
  /\ stack[c] # <<>>
  /\ Top(c).kind \in {"visitor_scope", "django", "asgi"}
  /\ current' = [current EXCEPT ![c] = NoVisitor]
  /\ stack' = Pop(c)
  /\ UNCHANGED <<running, inherited, g>>

\* The end of the block, by return, exception or cancellation.
LeaveScope(c) ==
  /\ stack[c] # <<>>
  /\ Top(c).kind \in {"visitor_scope", "django", "asgi"}
  /\ current' = [current EXCEPT ![c] = Top(c).saved]
  /\ stack' = Pop(c)
  /\ UNCHANGED <<running, inherited, g>>

UserScope(c, visitor) == EnterScope(c, "visitor_scope", [NoInput EXCEPT !.header = visitor])

\* DjangoVisitorMiddleware, in a thread (WSGI) or a task (ASGI).
DjangoRequest(c, input) == EnterScope(c, "django", input)

\* VisitorMiddleware: a scope for http only, websocket and lifespan pass through.
\* ASGI has no parsed cookies.
AsgiRequest(c, http, input) ==
  /\ c \in Tasks
  /\ IF http
     THEN EnterScope(c, "asgi", [input EXCEPT !.cookie = NoVisitor])
     ELSE /\ c \in running
          /\ Cardinality(Open) < MaxOpen
          /\ stack' = Push(c, [kind |-> "asgi other", scoped |-> FALSE,
                               saved |-> NoVisitor, input |-> NoInput])
          /\ UNCHANGED <<running, current, inherited, g>>

LeaveAsgiOther(c) ==
  /\ stack[c] # <<>>
  /\ Top(c).kind = "asgi other"
  /\ stack' = Pop(c)
  /\ UNCHANGED <<running, current, inherited, g>>

\* Flask pushes a request context, and an application context with a fresh g unless
\* one of this application is there.
FlaskRequest(c, input) ==
  /\ c \in Threads
  /\ Cardinality(Open) < MaxOpen
  /\ NestedFlask \/ ~InFlask(c)
  /\ g' = IF InFlask(c) THEN g ELSE [g EXCEPT ![c] = Closed]
  /\ stack' = Push(c, [kind |-> "flask", scoped |-> FALSE, saved |-> NoVisitor,
                       input |-> input])
  /\ UNCHANGED <<running, current, inherited>>

\* What _exit leaves in the ContextVar.
AfterExit(c) == IF g[c].open THEN g[c].saved ELSE current[c]

\* before_request: _enter closes what g holds and opens the request's own scope.
\* Another hook may have ended the request before.
FlaskEnter(c) ==
  /\ stack[c] # <<>>
  /\ Top(c).kind = "flask"
  /\ ~Top(c).scoped
  /\ g' = [g EXCEPT ![c] = [open |-> TRUE, saved |-> AfterExit(c)]]
  /\ current' = [current EXCEPT ![c] = Extract(Top(c).input)]
  /\ stack' = [stack EXCEPT ![c][Len(stack[c])].scoped = TRUE]
  /\ UNCHANGED <<running, inherited>>

\* teardown_request: _exit, whether or not _enter ran.
FlaskTeardown(c) ==
  /\ stack[c] # <<>>
  /\ Top(c).kind = "flask"
  /\ current' = [current EXCEPT ![c] = AfterExit(c)]
  /\ g' = [g EXCEPT ![c] = Closed]
  /\ stack' = Pop(c)
  /\ UNCHANGED <<running, inherited>>

\* asyncio.create_task copies the context of the code that calls it.
CreateTask(c, task) ==
  /\ c \in running \cap Tasks
  /\ task \in Tasks \ running
  /\ running' = running \cup {task}
  /\ current' = [current EXCEPT ![task] = current[c]]
  /\ inherited' = [inherited EXCEPT ![task] = current[c]]
  /\ UNCHANGED <<stack, g>>

\* The server starts a task for a connection, outside every request.
ServerTask(task) ==
  /\ task \in Tasks \ running
  /\ running' = running \cup {task}
  /\ current' = [current EXCEPT ![task] = NoVisitor]
  /\ inherited' = [inherited EXCEPT ![task] = NoVisitor]
  /\ UNCHANGED <<stack, g>>

\* The context of a task that is done is gone.
TaskDone(task) ==
  /\ task \in running \cap Tasks
  /\ stack[task] = <<>>
  /\ running' = running \ {task}
  /\ current' = [current EXCEPT ![task] = NoVisitor]
  /\ inherited' = [inherited EXCEPT ![task] = NoVisitor]
  /\ UNCHANGED <<stack, g>>

\* The visitor of an event built in c, read from the ContextVar before anything else.
BodyVisitor(c, explicit) == EventVisitor(explicit, current[c])

\* metadata_from_current_visitor, by way of metadata_for_visitor.
CurrentMetadata(c) == StripeMetadata(current[c])

-----------------------------------------------------------------------------
Next ==
  \/ \E c \in Contexts, input \in Inputs :
       \/ DjangoRequest(c, input)
       \/ FlaskRequest(c, input)
       \/ \E http \in BOOLEAN : AsgiRequest(c, http, input)
  \/ \E c \in Contexts :
       \/ LeaveScope(c)
       \/ LeaveAsgiOther(c)
       \/ FlaskEnter(c)
       \/ FlaskTeardown(c)
       \/ TaskDone(c)
       \/ ServerTask(c)
       \/ \E task \in Tasks : CreateTask(c, task)
       \/ \E visitor \in Ids : UserScope(c, visitor)

Spec == Init /\ [][Next]_vars

-----------------------------------------------------------------------------
(* Properties.                                                             *)

\* The visitors a request with this input may have by the documentation: a nonblank
\* header wins over a nonblank cookie.
Documented(input) ==
  LET raw     == {input.rawCookie[i] : i \in DOMAIN input.rawCookie}
      cookies == (raw \cup {input.cookie}) \ {NoVisitor} IN
    CASE input.header # NoVisitor -> {input.header}
      [] input.header = NoVisitor /\ cookies # {} -> cookies
      [] OTHER -> {NoVisitor}

\* What the code of a context should see: the visitor of the innermost open scope,
\* else what the context was created with.
Expected(c) ==
  LET scopes == { i \in DOMAIN stack[c] : stack[c][i].scoped } IN
    IF scopes = {} THEN {inherited[c]}
    ELSE Documented(stack[c][CHOOSE i \in scopes : \A j \in scopes : j <= i].input)

\* Whatever requests, scopes and tasks a context has been through, its current
\* visitor is that of the innermost scope that is open, and a worker or task with
\* none open has what it started with: nothing leaks into the next request.
InnermostScopeIsCurrent == \A c \in running : current[c] \in Expected(c)

\* An event built at any moment carries its own visitor, else the innermost scope's,
\* and Stripe's metadata never hold anything but a well-formed one of these.
EventsCarryTheirVisitor ==
  \A c \in running :
    /\ BodyVisitor(c, NoVisitor) \in Expected(c)
    /\ \A explicit \in Visitors : BodyVisitor(c, explicit) = explicit
    /\ CurrentMetadata(c) \in (Expected(c) \cap StripeVisitors) \cup {NoVisitor}
    /\ Expected(c) \subseteq StripeVisitors =>
         /\ CurrentMetadata(c) \in Expected(c)
         /\ \A existing \in Visitors : Merged(existing, current[c]) \in Expected(c)

\* docs/visitor-propagation.md: an integration "restores the previous state when the
\* request ends", so that "a reused worker never leaks one request's visitor into the
\* next".
WorkerEndsClean == \A c \in Threads : stack[c] = <<>> => current[c] = NoVisitor
=============================================================================
