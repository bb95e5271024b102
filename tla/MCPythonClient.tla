---------------------------- MODULE MCPythonClient ----------------------------
(* Instance of PythonClient, and of the retry rules it shares with the other   *)
(* SDKs, with pauses in units of 100 ms and a limit of two bytes on a body.    *)
EXTENDS PythonClient, RetryPolicyCases

Body(kind, json, size) == [kind |-> kind, json |-> json, size |-> size]
Answer(status, retryAfter, reason, body) ==
  [status |-> status, retryAfter |-> retryAfter, reason |-> reason, body |-> body]

\* Acknowledgements with and without trailing white space, of the largest size and
\* one byte above; an unusable 200; an error envelope with trailing white space, one
\* that is too long, an empty error body; transient answers with the limits of
\* Retry-After.
MCAnswers ==
  { Answer(200, Absent, TRUE, Body("ack", 1, 2)),
    Answer(200, Absent, TRUE, Body("ack", 2, 3)),
    Answer(200, Absent, TRUE, Body("junk", 1, 1)),
    Answer(404, Absent, TRUE, Body("error", 1, 2)),
    Answer(401, Absent, FALSE, Body("error", 3, 3)),
    Answer(400, Absent, FALSE, Body("junk", 0, 0)),
    Answer(503, Absent, TRUE, Body("error", 1, 1)),
    Answer(429, 50, TRUE, Body("junk", 0, 0)),
    Answer(500, 51, TRUE, Body("error", 1, 1)) }

\* Before any attempt, all seven SDKs draw the jitter of every retry ahead below the
\* same documented bound, also far beyond the cap and for the nonsensical retry zero
\* (retryDelayBoundMs of delivery.ts and its counterparts).
DelayBoundsAgree ==
  attempts = 0 => \A retry \in 0 .. LastRetry : BoundsAgree(retry)

\* Before any attempt, whatever a server will ask for and whatever jitter is drawn: retry
\* or not, and for how long, the SDKs that compute the pause in one step (retry_delay of
\* retry.py, RetryDelay of RetryPolicy.cs) agree with those that check the cap first.
RetryDelaysAgree ==
  attempts = 0 =>
    \A requested \in Requests, jitter \in 0 .. MaximumBound : DelaysMatch(requested, jitter)
=============================================================================
