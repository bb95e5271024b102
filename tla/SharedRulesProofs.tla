------------------------- MODULE SharedRulesProofs -------------------------
(***************************************************************************)
(* Proofs about what the SDKs share: the policy by which they retry, for   *)
(* every pause a server may ask for, jitter and retry number, and the      *)
(* contract of one call.  What follows from the contract alone holds of    *)
(* every client that implements it, whatever its retries and the answers   *)
(* are.                                                                    *)
(***************************************************************************)
EXTENDS RetryPolicyCases, TLAPS

CONSTANTS
  MaximumAttempts,  \* retryCount + 1
  Answers           \* answers the server may give

VARIABLES sent, answers, seen, outcome

Contract == INSTANCE EventDelivery

-----------------------------------------------------------------------------
(* The retry policy.                                                       *)

\* retry_delay and RetryDelay decide as the SDKs do that look at the cap first and take
\* the maximum later, whatever was asked for and drawn (retry.py, RetryPolicy.cs).
THEOREM DelaysAgree ==
  \A requested \in Nat \cup {Absent}, jitter \in Nat : DelaysMatch(requested, jitter)
<1> SUFFICES ASSUME NEW requested \in Nat \cup {Absent}, NEW jitter \in Nat
             PROVE  /\ PythonRetryDelay(requested, jitter) = DelayAfterCap(requested, jitter)
                    /\ DotnetRetryDelay(requested, jitter) = DelayAfterCap(requested, jitter)
  BY DEF DelaysMatch
<1>1. CASE requested = Absent
  BY <1>1, PolicyAssumption
     DEF Absent, RetryAfterAllowed, OrZero, Larger, PythonRetryDelay, DotnetRetryDelay,
         DelayAfterCap
<1>2. CASE requested \in Nat
  BY <1>2, PolicyAssumption
     DEF Absent, RetryAfterAllowed, OrZero, Larger, PythonRetryDelay, DotnetRetryDelay,
         DelayAfterCap
<1>3. QED
  BY <1>1, <1>2

\* The six languages that clamp the exponent draw the jitter below the same bound, at
\* whichever end and in whichever order they clamp it (retryDelayBoundMs of delivery.ts
\* and its counterparts in retry.py, RetryPolicy.java, .cs, .php and retry_policy.rb).
THEOREM ClampsAgree ==
  \A retry \in Int :
    /\ NodeDelayBound(retry) = PythonDelayBound(retry)
    /\ NodeDelayBound(retry) = JavaDelayBound(retry)
    /\ NodeDelayBound(retry) = DotnetDelayBound(retry)
    /\ NodeDelayBound(retry) = RubyDelayBound(retry)
    /\ NodeDelayBound(retry) = PhpDelayBound(retry)
<1> SUFFICES ASSUME NEW retry \in Int
             PROVE  /\ NodeDelayBound(retry) = PythonDelayBound(retry)
                    /\ NodeDelayBound(retry) = JavaDelayBound(retry)
                    /\ NodeDelayBound(retry) = DotnetDelayBound(retry)
                    /\ NodeDelayBound(retry) = RubyDelayBound(retry)
                    /\ NodeDelayBound(retry) = PhpDelayBound(retry)
  OBVIOUS
<1>1. /\ Lesser(Larger(retry, 1) - 1, 4) = Lesser(Larger(retry, 1), 5) - 1
      /\ Lesser(Larger(retry, 1) - 1, 4) = Clamp(retry, 1, 5) - 1
  BY DEF Lesser, Larger, Clamp
<1>2. QED
  BY <1>1 DEF NodeDelayBound, PythonDelayBound, JavaDelayBound, DotnetDelayBound,
              RubyDelayBound, PhpDelayBound

-----------------------------------------------------------------------------
(* The contract of one call.                                               *)

\* The invariant holds initially and every step of the contract keeps it.
LEMMA ContractInvariance ==
  ASSUME MaximumAttempts \in Nat,
         \A answer \in Answers : answer.status # 0
  PROVE  Contract!Spec => []Contract!ContractInvariant
<1>1. Contract!Init => Contract!ContractInvariant
  BY DEF Contract!Init, Contract!ContractInvariant, Contract!TypeOK, Contract!Copies,
         Contract!Outcomes
<1>2. Contract!ContractInvariant /\ [Contract!Next]_(Contract!vars)
      => Contract!ContractInvariant'
  <2> SUFFICES ASSUME Contract!ContractInvariant, [Contract!Next]_(Contract!vars)
               PROVE  Contract!ContractInvariant'
    OBVIOUS
  <2> USE DEF Contract!ContractInvariant, Contract!TypeOK
  <2>1. CASE Contract!SendCopy
    BY <2>1 DEF Contract!SendCopy, Contract!Copies, Contract!MayRetry
  <2>2. ASSUME NEW n \in Contract!Copies, NEW answer \in Answers, Contract!Answer(n, answer)
        PROVE  Contract!ContractInvariant'
    BY <2>2 DEF Contract!Answer, Contract!Copies, Contract!MayRetry
  <2>3. CASE Contract!SeeAnswer
    BY <2>3 DEF Contract!SeeAnswer, Contract!Copies, Contract!MayRetry
  <2>4. CASE Contract!Accepted \/ Contract!Cancelled \/ Contract!Invalid \/ Contract!Unanswered
    BY <2>4 DEF Contract!Accepted, Contract!Cancelled, Contract!Invalid,
                Contract!Unanswered, Contract!Settle, Contract!Outcomes,
                Contract!MayRetry
  <2>5. CASE Contract!Refused
    BY <2>5 DEF Contract!Refused, Contract!Settle, Contract!StatusKind,
                Contract!Outcomes, Contract!MayRetry
  <2>6. CASE UNCHANGED Contract!vars
    BY <2>6 DEF Contract!vars, Contract!MayRetry
  <2>7. QED
    BY <2>1, <2>2, <2>3, <2>4, <2>5, <2>6 DEF Contract!Next
<1>3. QED
  BY <1>1, <1>2, PTL DEF Contract!Spec

\* An event reported as accepted, decodable acknowledgement or not, was accepted by
\* the server.
THEOREM AcceptanceIsReal ==
  ASSUME MaximumAttempts \in Nat, \A answer \in Answers : answer.status # 0
  PROVE  Contract!Spec => []Contract!AcceptedMeansAccepted
<1>1. Contract!ContractInvariant => Contract!AcceptedMeansAccepted
  BY DEF Contract!ContractInvariant, Contract!TypeOK, Contract!AcceptedMeansAccepted,
         Contract!Copies, Contract!NoAnswer
<1>2. QED
  BY <1>1, ContractInvariance, PTL

\* A call that ends with a validation error put nothing on the wire.
THEOREM InvalidSendsNothing ==
  ASSUME MaximumAttempts \in Nat, \A answer \in Answers : answer.status # 0
  PROVE  Contract!Spec => []Contract!InvalidMeansNothingSent
<1>1. Contract!ContractInvariant => Contract!InvalidMeansNothingSent
  BY DEF Contract!ContractInvariant, Contract!TypeOK,
         Contract!InvalidMeansNothingSent, Contract!Copies
<1>2. QED
  BY <1>1, ContractInvariance, PTL

\* No copy follows an answer that must not be retried, or the end of the call.
THEOREM FinalAnswersAreFinal ==
  ASSUME MaximumAttempts \in Nat, \A answer \in Answers : answer.status # 0
  PROVE  Contract!Spec => Contract!NoCopyAfterFinalAnswer
<1> DEFINE Permitted ==
      sent' # sent => /\ outcome = "pending"
                      /\ \A n \in 1 .. sent : Contract!MayRetry(seen[n])
<1>1. Contract!ContractInvariant /\ [Contract!Next]_(Contract!vars)
      => [Permitted]_(Contract!vars)
  <2> SUFFICES ASSUME Contract!ContractInvariant, Contract!Next, sent' # sent
               PROVE  Permitted
    OBVIOUS
  <2>1. Contract!SendCopy
    BY DEF Contract!Next, Contract!Answer, Contract!SeeAnswer, Contract!Accepted,
           Contract!Refused, Contract!Unanswered, Contract!Cancelled,
           Contract!Invalid, Contract!Settle
  <2>2. QED
    BY <2>1 DEF Contract!SendCopy, Contract!ContractInvariant, Contract!TypeOK,
                Contract!Copies
<1>2. QED
  BY <1>1, ContractInvariance, PTL DEF Contract!Spec, Contract!NoCopyAfterFinalAnswer
=============================================================================
