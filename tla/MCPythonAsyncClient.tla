------------------------- MODULE MCPythonAsyncClient -------------------------
(* Instance of PythonAsyncClient with pauses in units of 100 ms and a limit of *)
(* two bytes on a body.                                                        *)
EXTENDS PythonAsyncClient

Body(kind, json, size) == [kind |-> kind, json |-> json, size |-> size]
Answer(status, retryAfter, body) ==
  [status |-> status, retryAfter |-> retryAfter, reason |-> TRUE, body |-> body]

\* Acknowledgements with trailing white space, of the largest size and one byte
\* above; an error; transient answers with the limits of Retry-After.
MCAnswers ==
  { Answer(200, Absent, Body("ack", 1, 2)),
    Answer(200, Absent, Body("ack", 2, 3)),
    Answer(404, Absent, Body("error", 1, 1)),
    Answer(503, Absent, Body("junk", 0, 0)),
    Answer(429, 50, Body("error", 1, 1)),
    Answer(500, 51, Body("error", 1, 1)) }
=============================================================================
