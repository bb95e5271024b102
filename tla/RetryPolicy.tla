---------------------------- MODULE RetryPolicy ----------------------------
(***************************************************************************)
(* The retry decisions every SDK of the repository makes, as pure          *)
(* operators: which statuses are transient, how long the full-jitter pause *)
(* before a retry may be, and what a requested pause makes of it.  Each    *)
(* language has its own arithmetic for the same questions; the operators   *)
(* carry the language in their name.  Durations are counted in a unit the  *)
(* constants choose: 100 ms keeps the sets of pauses small enough to       *)
(* enumerate, and the bounds, powers of two times InitialBound under a     *)
(* cap, are whole numbers of it as they are of the code's milliseconds.    *)
(***************************************************************************)
EXTENDS Integers

CONSTANTS
  InitialBound,       \* jitter bound before the first retry: 100 ms
  MaximumBound,       \* cap of the jitter bound: 1 s
  MaximumRetryAfter   \* longest pause a server may ask for: 5 s

ASSUME PolicyAssumption ==
  /\ InitialBound \in Nat \ {0}
  /\ MaximumBound \in Nat \ {0}
  /\ MaximumRetryAfter \in Nat

Absent == -1  \* a Retry-After that is missing or not understood

Lesser(a, b) == IF a <= b THEN a ELSE b
Larger(a, b) == IF a >= b THEN a ELSE b
Clamp(n, low, high) == Lesser(Larger(n, low), high)

RetryableStatuses == {429, 500, 502, 503, 504}

-----------------------------------------------------------------------------
(* The full-jitter bound before the one-indexed retry n, language by       *)
(* language.                                                               *)

\* Mutant: the exponent is capped one step early.
NodeDelayBoundCappedEarly(n) ==
  Lesser(InitialBound * 2 ^ Lesser(Larger(n, 1) - 1, 3), MaximumBound)

NodeDelayBound(n) ==
  Lesser(InitialBound * 2 ^ Lesser(Larger(n, 1) - 1, 4), MaximumBound)

GoDelayBound(n) ==
  CASE n <= 1 -> InitialBound
    [] n >= 5 -> MaximumBound
    [] OTHER  -> InitialBound * 2 ^ (n - 1)

PythonDelayBound(n) ==
  Lesser(InitialBound * 2 ^ (Lesser(Larger(n, 1), 5) - 1), MaximumBound)

JavaDelayBound(n) ==
  LET exponent == Lesser(Larger(n, 1), 5) - 1
  IN  Lesser(InitialBound * 2 ^ exponent, MaximumBound)

DotnetDelayBound(n) == Lesser(InitialBound * 2 ^ (Clamp(n, 1, 5) - 1), MaximumBound)

RubyDelayBound(n) == Lesser(InitialBound * 2 ^ (Clamp(n, 1, 5) - 1), MaximumBound)

PhpDelayBound(n) ==
  Lesser(InitialBound * 2 ^ (Lesser(Larger(n, 1), 5) - 1), MaximumBound)

-----------------------------------------------------------------------------
(* What a response asks for is the pause its Retry-After header was read   *)
(* as, or Absent.  Reading the header is not modelled.                     *)

\* What the pause takes from a response: nothing when it asks for none.
OrZero(requested) == IF requested = Absent THEN 0 ELSE requested

\* A transient response is retried unless the server asks for too long a pause.
RetryAfterAllowed(requested) == requested = Absent \/ requested <= MaximumRetryAfter

\* retry_delay and RetryDelay of the Python and .NET sources: Absent when the
\* call must give up.
PythonRetryDelay(requested, jitter) ==
  IF requested # Absent /\ requested > MaximumRetryAfter
  THEN Absent
  ELSE Larger(jitter, OrZero(requested))

\* Mutant: the header replaces the jitter instead of raising it.
DotnetRetryDelayReplacing(requested, jitter) ==
  IF requested > MaximumRetryAfter
  THEN Absent
  ELSE IF requested # Absent THEN requested ELSE jitter

DotnetRetryDelay(requested, jitter) ==
  IF requested > MaximumRetryAfter
  THEN Absent
  ELSE IF requested # Absent /\ requested > jitter THEN requested ELSE jitter
=============================================================================
