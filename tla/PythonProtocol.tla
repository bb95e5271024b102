--------------------------- MODULE PythonProtocol ---------------------------
(***************************************************************************)
(* What the two Python clients share: the bounded buffer of a response     *)
(* body and the decoding of a response (protocol.py).  A body is           *)
(* [kind, json, size]: size bytes, the first json of which are the JSON    *)
(* text of an acknowledgement, of an error envelope or of anything else,   *)
(* the rest white space.  An answer of the server is                       *)
(* [status, retryAfter, reason, body]; reason says whether its status line *)
(* carries a reason phrase.                                                *)
(***************************************************************************)
EXTENDS RetryPolicy

CONSTANT MaxResponseBytes   \* MAX_RESPONSE_BYTES: 65,536 in the code

ASSUME ProtocolAssumption == MaxResponseBytes \in Nat \ {0}

Bodies == { body \in [kind : {"ack", "error", "junk"}, json : Nat, size : Nat] :
              body.json <= body.size }

\* BoundedBuffer.append: the bytes kept when a chunk is added, at most one more
\* than are retained.
Append(length, chunk) == Lesser(length + chunk, MaxResponseBytes + 1)

\* What append returns: the byte that proves truncation has not been seen.
HasRoom(length) == length <= MaxResponseBytes

\* _parse: what the retained bytes are as JSON.
Parse(body, retained) == IF retained >= body.json THEN body.kind ELSE "junk"

\* Mutant: the failure that ended the body is forgotten.
ReceivedWithoutFailure(answer, length, failed) ==
  [ status    |-> answer.status,
    reason    |-> answer.reason,
    envelope  |-> Parse(answer.body, Lesser(length, MaxResponseBytes)),
    truncated |-> length > MaxResponseBytes,
    failed    |-> FALSE ]

\* BoundedBuffer.response: a truncated body has no other failure.
Received(answer, length, failed) ==
  [ status    |-> answer.status,
    reason    |-> answer.reason,
    envelope  |-> Parse(answer.body, Lesser(length, MaxResponseBytes)),
    truncated |-> length > MaxResponseBytes,
    failed    |-> failed /\ length <= MaxResponseBytes ]

\* _acknowledgement: the result of a 200.
Acknowledgement(response) ==
  [ kind    |-> IF ~response.failed /\ ~response.truncated /\ response.envelope = "ack"
                THEN "ack" ELSE "decode",
    message |-> "none" ]

ErrorKind(status) ==
  CASE status = 401 -> "auth"
    [] status = 404 -> "notFound"
    [] OTHER        -> "api"

\* decode: the acknowledgement, or the error and where its message comes from.
Decode(response) ==
  IF response.status = 200
  THEN Acknowledgement(response)
  ELSE [ kind    |-> ErrorKind(response.status),
         message |-> CASE response.envelope = "error" -> "server"
                       [] response.envelope # "error" /\ response.reason -> "reason phrase"
                       [] OTHER -> "status text" ]
=============================================================================
