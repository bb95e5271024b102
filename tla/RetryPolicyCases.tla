-------------------------- MODULE RetryPolicyCases --------------------------
(***************************************************************************)
(* The operators of RetryPolicy compared with the formula of the retry     *)
(* documentation and with each other.                                      *)
(***************************************************************************)
EXTENDS RetryPolicy

CONSTANT LastRetry  \* bound: the last retry number compared

ASSUME CasesAssumption == LastRetry \in Nat

\* Every pause a server may ask for, one that is too long, and none.
Requests == {Absent} \cup 0 .. MaximumRetryAfter + 1

\* The documented bound, with no clamp on the exponent.
DocumentedBound(n) == Lesser(InitialBound * 2 ^ (n - 1), MaximumBound)

\* All seven SDKs draw the jitter below the same documented bound; the numbers below
\* one are nonsensical.
BoundsAgree(retry) ==
  LET bound == IF retry < 1 THEN InitialBound ELSE DocumentedBound(retry) IN
    {bound} = { NodeDelayBound(retry), GoDelayBound(retry), PythonDelayBound(retry),
                JavaDelayBound(retry), DotnetDelayBound(retry),
                RubyDelayBound(retry), PhpDelayBound(retry) }

\* The pause of an SDK that looks at the cap first and takes the maximum later.
DelayAfterCap(requested, jitter) ==
  IF RetryAfterAllowed(requested) THEN Larger(jitter, OrZero(requested)) ELSE Absent

\* The SDKs that compute the pause in one step agree with it.
DelaysMatch(requested, jitter) ==
  /\ PythonRetryDelay(requested, jitter) = DelayAfterCap(requested, jitter)
  /\ DotnetRetryDelay(requested, jitter) = DelayAfterCap(requested, jitter)
=============================================================================
