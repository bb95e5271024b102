---------------------------- MODULE MCPythonPayload ---------------------------
(* Events for PythonPayload: combinations of the head's classes over trivial    *)
(* properties, and the properties graphs of three containers with up to two     *)
(* values each below a valid head.                                              *)
EXTENDS PythonPayload

CONSTANTS root, inner, leaf

MCObjects  == {root, inner, leaf}
MCMaxDepth == 2
MCMaxSafe  == 3      \* 2^2 - 1, for 2^53 - 1

Scalar(type, quarters) == [type |-> type, object |-> root, quarters |-> quarters]
Container(o)        == [type |-> "container", object |-> o, quarters |-> 0]
UpToTwo(set)        == {<<>>} \cup {<<a>> : a \in set} \cup {<<a, b>> : a, b \in set}

Plain == [method |-> "user_login", key |-> "text", email |-> "text", phone |-> "absent",
          name |-> "absent", visitor |-> "absent", id |-> "absent", occurredAt |-> "absent",
          properties |-> "mapping", amount |-> "int", amountQuarters |-> 4,
          currency |-> "text", reserved |-> FALSE, isEvent |-> TRUE]
Empty == [o \in MCObjects |-> <<>>]

Fields == {"absent", "blank", "text", "surrogate", "other"}

Heads ==
  { [Plain EXCEPT !.email = e, !.phone = p, !.occurredAt = t, !.properties = q] :
      e \in Fields, p \in Fields, t \in {"absent", "aware", "naive", "overflow", "other"},
      q \in {"absent", "mapping", "other"} }
  \cup { [Plain EXCEPT !.method = "custom_event", !.key = k, !.email = e, !.properties = q] :
           k \in Fields \ {"absent"}, e \in Fields, q \in {"absent", "mapping", "other"} }
  \cup { [Plain EXCEPT ![f] = v] : f \in {"name", "visitor", "id"}, v \in Fields }
  \cup { [Plain EXCEPT !.method = m, !.isEvent = FALSE] : m \in {"user_login", "order_paid"} }

\* A float has quarters up to 1 (for 2^51), halves up to 2 and integers up to 4.
Floats  == 0 .. 4 \cup {6, 8, 12, 16, 24}
Amounts == ({"bool", "not finite", "signalling", "other"} \X {0})
           \cup ({"int"} \X {-16, -12, 0, 12, 16}) \cup ({"decimal"} \X (-17 .. 17))
           \cup ({"float"} \X (Floats \cup { -n : n \in Floats }))

Paid   == [Plain EXCEPT !.method = "order_paid"]
Orders ==
  { [Paid EXCEPT !.amount = a[1], !.amountQuarters = a[2]] : a \in Amounts }
  \cup { [Paid EXCEPT !.amount = a, !.currency = c, !.properties = q, !.reserved = r] :
           a \in {"int", "signalling", "other"}, c \in Fields \ {"absent"},
           q \in {"absent", "mapping", "other"}, r \in BOOLEAN }

Values == { Container(o) : o \in MCObjects } \cup
          { Scalar("blank", 0), Scalar("bad key", 0), Scalar("decimal", 14) }
Graphs ==
  { [o \in MCObjects |-> IF o = root THEN a ELSE IF o = inner THEN b ELSE c] :
      a \in UpToTwo(Values), b \in UpToTwo(Values),
      c \in UpToTwo({Container(inner), Scalar("decimal", 13)}) }

\* A valid order with properties: the root is the copy of inner, which may hold itself.
PaidGraphs ==
  { [o \in MCObjects |-> IF o = leaf THEN <<>> ELSE values] :
      values \in UpToTwo({ Container(inner), Container(leaf),
                           Scalar("int", 16), Scalar("text", 0) }) }

Origins ==
  [scheme : {"http", "HTTPS", "ftp", "none"}, userinfo : BOOLEAN,
   host : {"name", "Name", "ipv6", "none"}, bracketed : BOOLEAN,
   port : {"absent", "number", "bad"}, path : {"none", "slash", "other"}, odd : BOOLEAN]
Default ==
  [token |-> "text",
   base |-> [scheme |-> "HTTPS", userinfo |-> FALSE, host |-> "name", bracketed |-> FALSE,
             port |-> "absent", path |-> "none", odd |-> FALSE],
   timeout |-> "positive", retries |-> "natural"]

Settings ==
  { [Default EXCEPT !.base = o] : o \in { p \in Origins : p.bracketed => p.host = "ipv6" } }
  \cup { [Default EXCEPT !.token = t] : t \in {"blank", "other"} }
  \cup { [Default EXCEPT !.timeout = t] :
           t \in {"bool", "not finite", "zero", "negative", "huge", "other"} }
  \cup { [Default EXCEPT !.retries = r, !.timeout = t] :
           r \in {"bool", "negative", "other"}, t \in {"positive", "huge"} }

MCCases ==
  { [settings |-> s, event |-> Plain, graph |-> Empty] : s \in Settings }
  \cup { [settings |-> Default, event |-> e, graph |-> Empty] :
           e \in Heads \cup { o \in Orders : o.reserved => o.properties = "mapping" } }
  \cup { [settings |-> Default, event |-> Plain, graph |-> g] : g \in Graphs }
  \cup { [settings |-> Default, event |-> Paid, graph |-> g] :
           g \in PaidGraphs }
=============================================================================
