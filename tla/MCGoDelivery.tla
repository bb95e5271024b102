---------------------------- MODULE MCGoDelivery ----------------------------
(* Instance of GoDelivery with durations in units of 100 ms.               *)
EXTENDS GoDelivery

Answer(status, retryAfter) == [status |-> status, retryAfter |-> retryAfter]

\* Accepted, each error type, and transient with no, a short, the longest and
\* too long a Retry-After.
MCAnswers ==
  { Answer(200, Absent), Answer(401, Absent), Answer(404, Absent),
    Answer(400, Absent), Answer(503, Absent), Answer(429, 1),
    Answer(503, 50), Answer(500, 51) }
=============================================================================
