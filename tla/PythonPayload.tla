---------------------------- MODULE PythonPayload ----------------------------
(***************************************************************************)
(* What the Python SDK does before it sends an event: the configuration of *)
(* the client, the event methods, with_order_paid_properties, build_body   *)
(* and the walk of _normalize and _container over the properties           *)
(* (validation.py).                                                        *)
(* The walk is a machine: its stack holds the containers _container is in, *)
(* ancestors is the set the calls share.  A value is                       *)
(* [type, object, quarters]: a container of the graph, a number given as   *)
(* four times its value, or anything else by its type.                     *)
(***************************************************************************)
EXTENDS Integers, Sequences

CONSTANTS
  Objects,    \* containers of an event's properties
  Root,       \* the properties themselves
  MaxDepth,   \* _MAX_DEPTH: 256 in the code
  MaxSafe,    \* MAX_SAFE_INTEGER: 2^53 - 1 in the code
  Cases       \* bound: the calls considered, [settings, event, graph]

Strings == {"blank", "text", "surrogate"}      \* str, also one with a lone surrogate
Texts   == Strings \cup {"absent", "other"}

\* The arguments of the client and of an event method, and a value of a container.
Configurations ==
  [token : Texts,
   base : [scheme : {"http", "https", "HTTPS", "ftp", "none"}, userinfo : BOOLEAN,
           host : {"name", "Name", "ipv6", "none"}, bracketed : BOOLEAN,
           port : {"absent", "number", "bad"}, path : {"none", "slash", "other"},
           odd : BOOLEAN],
   timeout : STRING, retries : STRING]
Arguments ==
  [method : STRING, key : Texts, email : Texts, phone : Texts, name : Texts, visitor : Texts,
   id : Texts, occurredAt : STRING, properties : {"absent", "mapping", "other"},
   amount : {"int", "float", "decimal", "bool", "not finite", "signalling", "other"},
   amountQuarters : Int, currency : Texts, reserved : BOOLEAN, isEvent : BOOLEAN]
PropertyValues ==
  [type : Texts \cup {"null", "bool", "int", "float", "decimal", "not finite", "signalling",
                     "container", "bad key"},
   object : Objects, quarters : Int]

OrderEvents == {"order_created", "order_paid"}

\* MAX_SAFE_INTEGER is odd: a Decimal in the middle between it and the integer above is
\* rounded to that one.  The properties of an order are a copy the SDK makes (Items).
ASSUME PayloadAssumption ==
  /\ Root \in Objects
  /\ MaxDepth \in Nat
  /\ MaxSafe \in Nat /\ MaxSafe % 2 = 1
  /\ Cases \subseteq [settings : Configurations, event : Arguments,
                      graph : [Objects -> Seq(PropertyValues)]]
  /\ \A call \in Cases : call.event.method \in OrderEvents =>
       \A o \in Objects : \A k \in DOMAIN call.graph[o] :
         call.graph[o][k].type = "container" => call.graph[o][k].object # Root

VARIABLES
  settings,   \* the arguments of the client, each by its class
  event,      \* the arguments of the event method, each by its class
  graph,      \* graph[o]: the values in container o, in order
  stack,      \* containers being walked: [object, next]
  ancestors,  \* the set of their identities
  verdict     \* where the call is, or how it ended

inputs == <<settings, event, graph>>
vars == <<inputs, stack, ancestors, verdict>>

Init ==
  /\ \E call \in Cases :
       settings = call.settings /\ event = call.event /\ graph = call.graph
  /\ stack = <<>>
  /\ ancestors = {}
  /\ verdict = "new"

-----------------------------------------------------------------------------
(* The client's settings.  A base_url is                                   *)
(* [scheme, userinfo, host, bracketed, port, path, odd]; odd says whether  *)
(* it has a query, a fragment or white space.                              *)

Lowered(text) == CASE text = "HTTPS" -> "https" [] text = "Name" -> "name" [] OTHER -> text

\* Mutant: the brackets of an IPv6 address are lost.
NormalizeOriginUnbracketed(url) ==
  [url EXCEPT !.scheme = Lowered(@), !.host = Lowered(@), !.bracketed = FALSE, !.path = "none"]

\* What normalize_origin returns for a URL it accepts.
NormalizeOrigin(url) ==
  [url EXCEPT !.scheme = Lowered(@), !.host = Lowered(@), !.bracketed = (url.host = "ipv6"),
              !.path = "none"]

\* What it raises a ValidationError for; urlsplit finds no host or a bad port in an IPv6
\* address without brackets.
OriginRefused(url) ==
  \/ url.odd
  \/ url.port = "bad" \/ (url.host = "ipv6" /\ ~url.bracketed)
  \/ Lowered(url.scheme) \notin {"http", "https"} \/ url.host = "none"
  \/ url.userinfo \/ url.path \notin {"none", "slash"}

\* Settings.create: a token, a timeout or a retry count that is refused.  A bool is an
\* int to isinstance.  The timeout is looked at before the retry count.
SettingsRefused ==
  \/ settings.token \in {"blank", "other"}
  \/ OriginRefused(settings.base)
  \/ settings.timeout \in {"bool", "not finite", "zero", "negative", "other"}
  \/ settings.retries \in {"bool", "negative", "other"} /\ settings.timeout # "huge"

\* math.isfinite has no double for an int this large and raises an OverflowError.
SettingsRaise == settings.timeout = "huge"

-----------------------------------------------------------------------------
(* The checks before the properties are walked.                            *)

Nonblank(field) == field \in {"text", "surrogate"}

\* The event methods: a fixed key for the common events, the caller's for a custom one.
EventKey == IF event.method = "custom_event" THEN event.key ELSE "text"

\* Mutant: the amount may be a bool.
OrderRefusedWithoutBool ==
  \/ event.amount \in {"not finite", "other"}
  \/ ~(event.currency \in Strings /\ Nonblank(event.currency))
  \/ ~event.isEvent \/ event.properties = "other"
  \/ event.reserved

\* with_order_paid_properties: what it raises a ValidationError for.  A bool is an int
\* to isinstance.
OrderRefused ==
  \/ event.amount \in {"bool", "not finite", "other"}
  \/ ~(event.currency \in Strings /\ Nonblank(event.currency))
  \/ ~event.isEvent \/ event.properties = "other"
  \/ event.reserved

\* Its math.isfinite raises a ValueError for a signalling NaN, before any other check.
OrderRaises == event.amount = "signalling"

\* _occurred_at.
OccurredAtRefused == event.occurredAt \in {"naive", "overflow", "other"}

\* build_body up to the properties.
BodyRefused ==
  \/ ~Nonblank(EventKey) \/ ~event.isEvent
  \/ \E field \in {event.email, event.phone, event.name, event.visitor, event.id} :
       field \notin Strings \cup {"absent"}
  \/ ~Nonblank(event.email) /\ ~Nonblank(event.phone)
  \/ OccurredAtRefused
  \/ event.properties = "other"

\* json.dumps(...).encode: a lone surrogate outside the properties shows only here.  A
\* blank visitor or event id is replaced, not sent.
EncodingFails ==
  "surrogate" \in {EventKey, event.email, event.phone, event.name, event.visitor, event.id}

\* The values walked at the root.  An order's root is the copy of the caller's dict that
\* with_order_paid_properties makes: nothing refers to it, the dict itself is another
\* container with the same values, and the amount and currency come last.
Items(o) ==
  IF o = Root /\ event.method \in OrderEvents
  THEN graph[o] \o << [type |-> event.amount, object |-> Root, quarters |-> event.amountQuarters],
                      [type |-> event.currency, object |-> Root, quarters |-> 0] >>
  ELSE graph[o]

-----------------------------------------------------------------------------
(* _normalize of one value.                                                *)

Magnitude(n) == IF n < 0 THEN -n ELSE n

\* How far floats are apart, in quarters.  MaxSafe is the largest below which integers
\* are one apart at least; all beyond twice of it is out of range.
Spacing(size) ==
  CASE size <= MaxSafe -> 1
    [] size \in MaxSafe + 1 .. 2 * MaxSafe + 1 -> 2
    [] size \in 2 * (MaxSafe + 1) .. 4 * MaxSafe + 3 -> 4
    [] OTHER -> 8

\* The nearest multiple, in the middle between two the even one.
Nearest(size, spacing) ==
  LET below == size \div spacing
      rest  == size % spacing
  IN  IF 2 * rest < spacing \/ (2 * rest = spacing /\ below % 2 = 0)
      THEN spacing * below
      ELSE spacing * (below + 1)

\* float(), of the magnitude of a number.
AsFloat(quarters) ==
  LET size == Magnitude(quarters) IN Nearest(size, Spacing(size))

\* A value that is not a container: _normalize returns it, or raises.
Fits(value) ==
  CASE value.type \in {"null", "bool", "text", "blank"} -> TRUE
    [] value.type = "int" -> Magnitude(value.quarters) <= 4 * MaxSafe
    [] value.type \in {"float", "decimal"} ->
         LET number == AsFloat(value.quarters)
         IN  ~(number % 4 = 0 /\ number > 4 * MaxSafe)
    [] OTHER -> FALSE

-----------------------------------------------------------------------------
\* An error leaves every _container by its finally block.
Refuse(kind) ==
  /\ verdict' = kind
  /\ stack' = <<>>
  /\ ancestors' = {}
  /\ UNCHANGED inputs

Enter(o) ==
  /\ ancestors' = ancestors \cup {o}
  /\ UNCHANGED inputs

\* The client's constructor.
Construct ==
  /\ verdict = "new"
  /\ \/ SettingsRefused /\ Refuse("refused")
     \/ ~SettingsRefused /\ SettingsRaise /\ Refuse("raised")
     \/ /\ ~SettingsRefused /\ ~SettingsRaise
        /\ verdict' = "called"
        /\ UNCHANGED <<inputs, stack, ancestors>>

\* An event method up to the walk.
Call ==
  /\ verdict = "called"
  /\ LET isOrder == event.method \in OrderEvents
         refused == (isOrder /\ OrderRefused) \/ BodyRefused
     IN  \/ isOrder /\ OrderRaises /\ Refuse("raised")
         \/ ~(isOrder /\ OrderRaises) /\ refused /\ Refuse("refused")
         \/ /\ ~(isOrder /\ OrderRaises) /\ ~refused
            /\ IF event.properties = "absent" /\ ~isOrder
               THEN verdict' = "encoding" /\ UNCHANGED <<inputs, stack, ancestors>>
               ELSE /\ verdict' = "walking"
                    /\ stack' = <<[object |-> Root, next |-> 1]>>
                    /\ Enter(Root)

Top   == stack[Len(stack)]
Value == Items(Top.object)[Top.next]
Advanced == [stack EXCEPT ![Len(stack)].next = @ + 1]

\* A value in the container at depth Len(stack) - 1 is one deeper.
DepthExceeded == Len(stack) > MaxDepth

VisitScalar ==
  /\ Value.type \notin {"container", "bad key"}
  /\ IF Fits(Value)
     THEN stack' = Advanced /\ UNCHANGED <<inputs, ancestors, verdict>>
     ELSE Refuse("invalid")

VisitContainer ==
  /\ Value.type = "container"
  /\ IF Value.object \in ancestors
     THEN Refuse("cycle")
     ELSE /\ stack' = Append(Advanced, [object |-> Value.object, next |-> 1])
          /\ Enter(Value.object)
          /\ UNCHANGED verdict

\* The next value of the innermost container.  A key is checked before the depth.
Visit ==
  /\ verdict = "walking"
  /\ Top.next \in DOMAIN Items(Top.object)
  /\ \/ Value.type = "bad key" /\ Refuse("invalid")
     \/ Value.type # "bad key" /\ DepthExceeded /\ Refuse("deep")
     \/ ~DepthExceeded /\ VisitScalar
     \/ ~DepthExceeded /\ VisitContainer

\* Mutant: a container stays in the set, so the next use of it looks like a cycle.
LeaveKeeping ==
  /\ verdict = "walking"
  /\ Top.next \notin DOMAIN Items(Top.object)
  /\ stack' = SubSeq(stack, 1, Len(stack) - 1)
  /\ verdict' = IF Len(stack) = 1 THEN "encoding" ELSE verdict
  /\ UNCHANGED <<inputs, ancestors>>

\* The end of a _container.
Leave ==
  /\ verdict = "walking"
  /\ Top.next \notin DOMAIN Items(Top.object)
  /\ stack' = SubSeq(stack, 1, Len(stack) - 1)
  /\ ancestors' = ancestors \ {Top.object}
  /\ verdict' = IF Len(stack) = 1 THEN "encoding" ELSE verdict
  /\ UNCHANGED inputs

Encode ==
  /\ verdict = "encoding"
  /\ verdict' = IF EncodingFails THEN "refused" ELSE "accepted"
  /\ UNCHANGED <<inputs, stack, ancestors>>

Next == Construct \/ Call \/ Visit \/ Leave \/ Encode

Spec == Init /\ [][Next]_vars

-----------------------------------------------------------------------------
(* Properties.                                                             *)

\* Container p is one of the values of container o.
Inside(o, p) == \E k \in DOMAIN Items(o) : Items(o)[k].type = "container" /\ Items(o)[k].object = p

\* Containers from the properties down, each a value of the one before it.  A longer path
\* begins with one that is too deep.
Paths ==
  { path \in UNION { [1 .. n -> Objects] : n \in 1 .. MaxDepth + 1 } :
      path[1] = Root /\ \A i \in 1 .. Len(path) - 1 : Inside(path[i], path[i + 1]) }
ItemsAt(path) == Items(path[Len(path)])

\* python/README.md:60: what properties accept, any str among it (that it must be valid
\* Unicode is said by the error of validation.py:135).  Integers and integral floats must
\* be in range; a Decimal is judged by the float it is sent as, so a fraction less than
\* one half above the range is accepted, and sent as the limit.
Documented(value) ==
  \/ value.type \in {"null", "bool", "text", "blank", "container"}
  \/ value.type = "int" /\ Magnitude(value.quarters) <= 4 * MaxSafe
  \/ value.type \in {"float", "decimal"} /\ Magnitude(value.quarters) < 4 * MaxSafe + 2

HasCycle   == \E path \in Paths : \E i \in 1 .. Len(path) : Inside(path[Len(path)], path[i])
IsTooDeep  == \E path \in Paths : Len(path) > MaxDepth /\ ItemsAt(path) # <<>>
HasInvalid == \E path \in Paths : \E k \in DOMAIN ItemsAt(path) : ~Documented(ItemsAt(path)[k])

\* The walk of validation.py:151-198 finds a cycle, excess depth or an unfit value only
\* where the properties have one, and lets none of them pass; a container used twice on
\* different paths is no cycle.
WalkIsRight ==
  /\ verdict = "cycle" => HasCycle
  /\ verdict = "deep" => IsTooDeep
  /\ verdict = "invalid" => HasInvalid
  /\ verdict \in {"encoding", "accepted"} /\ event.properties # "absent" =>
       ~HasCycle /\ ~IsTooDeep /\ ~HasInvalid

\* An accepted order carries a number in the safe range that is off by no more than one
\* half from the amount given, and is it for an int; never a bool that json would write as
\* true; and a currency.  The caller's properties hold neither key (validation.py:69-91
\* with the walk that comes after it).
OrderIsPriced ==
  verdict = "accepted" /\ event.method \in OrderEvents =>
    LET given == Magnitude(event.amountQuarters)
        sent  == IF event.amount = "int" THEN given ELSE AsFloat(event.amountQuarters)
    IN  /\ event.amount \in {"int", "float", "decimal"}
        /\ sent <= 4 * MaxSafe /\ Magnitude(sent - given) <= 2
        /\ event.currency = "text"
        /\ ~event.reserved

\* The origin a client of an accepted event was configured with has no credentials and no
\* path, keeps its port, and would be read back as the same origin: normalize_origin
\* accepts what it returned and changes nothing more (validation.py:30-49).
OriginReadsBack ==
  verdict = "accepted" =>
    LET base   == settings.base
        origin == NormalizeOrigin(base)
    IN  /\ ~OriginRefused(origin)
        /\ NormalizeOrigin(origin) = origin
        /\ origin.port = base.port /\ ~origin.userinfo /\ origin.path = "none"
=============================================================================
