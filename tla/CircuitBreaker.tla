--------------------------- MODULE CircuitBreaker ---------------------------
(***************************************************************************)
(* The circuit breaker between the invoicing goroutines and the AFIP       *)
(* sidecar (backend/internal/infra/circuit_breaker.go).                    *)
(*                                                                         *)
(* The mutex covers State() and the recording of a result, not the call    *)
(* in between: a result may be recorded in a state other than the one the  *)
(* call was admitted in.                                                   *)
(***************************************************************************)
EXTENDS Integers, FiniteSets

CONSTANTS
  Callers,            \* goroutines that call Execute
  FailureThreshold,   \* failures that trip the breaker
  SuccessThreshold,   \* successes in half-open that close it
  OpenTimeout         \* ticks it stays open before it probes

ASSUME BreakerAssumption ==
  /\ IsFiniteSet(Callers) /\ Callers # {}
  /\ FailureThreshold \in Nat \ {0}
  /\ SuccessThreshold \in Nat \ {0}
  /\ OpenTimeout \in Nat \ {0}

VARIABLES
  state,          \* CBState
  failureCount,
  successCount,
  sinceFailure,   \* time.Since(lastFailureTime), saturated at OpenTimeout
  call,           \* call[c]: where caller c is in Execute
  sidecar         \* whether fn() succeeds now

breakerVars == <<state, failureCount, successCount, sinceFailure, call, sidecar>>

\* CBClosed, CBOpen, CBHalfOpen
CBState == {"closed", "open", "half-open"}

\* NewCircuitBreaker: closed, no failure recorded (lastFailureTime is zero).
BreakerInit ==
  /\ state = "closed"
  /\ failureCount = 0
  /\ successCount = 0
  /\ sinceFailure = OpenTimeout
  /\ call = [c \in Callers |-> "idle"]
  /\ sidecar \in {"up", "down"}

\* Mutant: the auto-transition of State() is forgotten.
ObservedNeverProbes == state

\* What State() answers: an open breaker whose timeout elapsed is half-open.
Observed ==
  IF state = "open" /\ sinceFailure >= OpenTimeout THEN "half-open" ELSE state

\* State() moves the breaker to the state it answers.
Observe ==
  /\ state' = Observed
  /\ successCount' = IF Observed = state THEN successCount ELSE 0

\* Health endpoint and retry cron: State() with no call after it.
ReadState ==
  /\ Observe
  /\ UNCHANGED <<failureCount, sinceFailure, call, sidecar>>

\* Mutant: the fast-fail return is missing.
ExecuteAlways(c) ==
  /\ call[c] = "idle"
  /\ Observe
  /\ call' = [call EXCEPT ![c] = "calling"]
  /\ UNCHANGED <<failureCount, sinceFailure, sidecar>>

\* Execute up to fn(): ErrCircuitOpen, or the call is on its way.
Execute(c) ==
  /\ call[c] = "idle"
  /\ Observe
  /\ call' = [call EXCEPT ![c] = IF Observed = "open" THEN "idle" ELSE "calling"]
  /\ UNCHANGED <<failureCount, sinceFailure, sidecar>>

\* fn() returned an error: Execute locks and runs onFailure.
OnFailure(c) ==
  /\ call[c] = "calling"
  /\ sidecar = "down"
  /\ call' = [call EXCEPT ![c] = "idle"]
  /\ sinceFailure' = 0
  /\ \/ /\ state = "closed" /\ failureCount + 1 >= FailureThreshold
        /\ state' = "open"
        /\ failureCount' = failureCount + 1
        /\ successCount' = 0
     \/ /\ state = "half-open"
        /\ state' = "open"
        /\ failureCount' = 0
        /\ UNCHANGED successCount
     \/ /\ state = "open" \/ (state = "closed" /\ failureCount + 1 < FailureThreshold)
        /\ failureCount' = failureCount + 1
        /\ UNCHANGED <<state, successCount>>
  /\ UNCHANGED sidecar

\* fn() returned nil: Execute locks and runs onSuccess.
OnSuccess(c) ==
  /\ call[c] = "calling"
  /\ sidecar = "up"
  /\ call' = [call EXCEPT ![c] = "idle"]
  /\ \/ /\ state = "closed"
        /\ failureCount' = 0
        /\ UNCHANGED <<state, successCount>>
     \/ /\ state = "half-open" /\ successCount + 1 >= SuccessThreshold
        /\ state' = "closed"
        /\ failureCount' = 0
        /\ successCount' = 0
     \/ /\ state = "half-open" /\ successCount + 1 < SuccessThreshold
        /\ successCount' = successCount + 1
        /\ UNCHANGED <<state, failureCount>>
     \/ /\ state = "open"
        /\ UNCHANGED <<state, failureCount, successCount>>
  /\ UNCHANGED <<sinceFailure, sidecar>>

\* One tick of the clock that time.Since reads.
Tick ==
  /\ sinceFailure < OpenTimeout
  /\ sinceFailure' = sinceFailure + 1
  /\ UNCHANGED <<state, failureCount, successCount, call, sidecar>>

\* The sidecar (or AFIP behind it) goes down or comes back.
SidecarFlips ==
  /\ sidecar' = IF sidecar = "up" THEN "down" ELSE "up"
  /\ UNCHANGED <<state, failureCount, successCount, sinceFailure, call>>

BreakerNext ==
  \/ ReadState \/ Tick \/ SidecarFlips
  \/ \E c \in Callers : Execute(c) \/ OnFailure(c) \/ OnSuccess(c)

(* Invoices keep arriving, an HTTP call to the sidecar always returns (its *)
(* client has a timeout) and the clock advances.                           *)
BreakerFairness ==
  /\ WF_breakerVars(Tick)
  /\ \A c \in Callers : WF_breakerVars(Execute(c)) /\ WF_breakerVars(OnFailure(c) \/ OnSuccess(c))

BreakerSpec == BreakerInit /\ [][BreakerNext]_breakerVars

BreakerFairSpec == BreakerSpec /\ BreakerFairness

-----------------------------------------------------------------------------
(* Type invariant. *)
BreakerTypeOK ==
  /\ state \in CBState
  /\ failureCount \in Nat
  /\ successCount \in Nat
  /\ sinceFailure \in 0 .. OpenTimeout
  /\ call \in [Callers -> {"idle", "calling"}]
  /\ sidecar \in {"up", "down"}

InFlight == {c \in Callers : call[c] = "calling"}

(* A sidecar that is down is not hammered: however the calls interleave, no *)
(* more than the threshold plus the calls that were already on their way    *)
(* fail before the breaker stops admitting (onFailure counts late results   *)
(* while open, so the counter alone is not bounded by the threshold).       *)
FailureBurstBounded ==
  failureCount <= FailureThreshold + Cardinality(Callers) - 1

(* A breaker that closes or starts probing starts counting afresh: the     *)
(* counters left by earlier episodes never carry it over a threshold.      *)
CountersFitState ==
  /\ state = "closed" => failureCount < FailureThreshold /\ successCount = 0
  /\ state = "half-open" => successCount < SuccessThreshold

(* While the open timeout runs no call is let through, whatever late       *)
(* results arrive meanwhile: a success of a call admitted earlier does not *)
(* reopen the way.                                                         *)
NoAdmissionWhileOpen ==
  [][state = "open" /\ sinceFailure < OpenTimeout => InFlight' \subseteq InFlight]_breakerVars

(* Recovery: once the sidecar stays up the breaker ends up closed.         *)
RecoversOnceUp == <>[](sidecar = "up") => <>[](state = "closed")

(* circuit_breaker.go:16 and :24: "Half-Open: one probe request allowed    *)
(* through to test recovery".                                              *)
OneProbeInHalfOpen == state = "half-open" => Cardinality(InFlight) <= 1
=============================================================================
