--------------------------- MODULE CircuitBreaker ---------------------------
(***************************************************************************)
(* The payment service's way to its gateway, in one process: the circuit   *)
(* breaker that all charges share and the retry loop inside each call.     *)
(*                                                                         *)
(* The process runs one thread, so what execute does before it calls the   *)
(* gateway is one step and what it does with the result is another; any    *)
(* number of calls are between the two, and the breaker changes meanwhile. *)
(* A charge is retried inside one call of the breaker, which sees only the *)
(* last error.  A refund is retried in the same way and goes past the      *)
(* breaker (RefundHandler has none).  A charge that the open breaker       *)
(* rejects changes nothing here.                                           *)
(*                                                                         *)
(* A failure is transient (503, 504), and happens only while the gateway   *)
(* is down, or a declined card (402), which may happen at any time.        *)
(*                                                                         *)
(* The names differ from those of Payment, which PaymentProofs extends     *)
(* beside this module.                                                     *)
(***************************************************************************)
EXTENDS Integers, FiniteSets

CONSTANTS
  Calls,             (* gateway calls that can be in flight at once          *)
  FailureThreshold,  (* CIRCUIT_BREAKER_THRESHOLD                            *)
  ResetTimeout,      (* CIRCUIT_BREAKER_TIMEOUT_MS, in ticks                 *)
  MaxAttempts        (* RETRY_MAX_ATTEMPTS                                   *)

ASSUME BreakerAssumption ==
  /\ IsFiniteSet(Calls) /\ Calls # {}
  /\ {FailureThreshold, ResetTimeout, MaxAttempts} \subseteq Nat \ {0}

VARIABLES
  state,         (* CircuitBreaker.state                                     *)
  failureCount,  (* CircuitBreaker.failureCount, counted up to the threshold *)
  wait,          (* ticks until nextProbeAt; 0 once it has passed            *)
  call,          (* what each call in flight is doing                        *)
  down,          (* whether the gateway is down                              *)
  leaked         (* history: attempts of charges since the breaker opened    *)

breaker     == <<state, failureCount, wait, leaked>>
breakerVars == <<breaker, call, down>>

Kinds  == {"charge", "refund"}
NoCall == [pc |-> "idle"]

BreakerInit ==
  /\ state = "CLOSED" /\ failureCount = 0 /\ wait = 0
  /\ call = [c \in Calls |-> NoCall]
  /\ down = FALSE
  /\ leaked = 0
-----------------------------------------------------------------------------
(* The breaker.                                                            *)

(* A mutant of OnSuccess: a success resets the count and closes nothing.   *)
OnSuccessStaysOpen ==
  /\ failureCount' = 0
  /\ UNCHANGED <<state, wait, leaked>>

OnSuccess ==
  /\ failureCount' = 0
  /\ IF state = "HALF_OPEN" THEN state' = "CLOSED" ELSE UNCHANGED state
  /\ UNCHANGED <<wait, leaked>>

(* open: an open breaker opened again by a late failure waits anew.        *)
Open ==
  /\ wait' = ResetTimeout
  /\ state' = "OPEN"
  /\ leaked' = IF state = "OPEN" THEN leaked ELSE 0

OnCountedFailure ==
  /\ failureCount' = IF failureCount < FailureThreshold THEN failureCount + 1
                                                        ELSE failureCount
  /\ IF state = "HALF_OPEN" \/ failureCount' = FailureThreshold
     THEN Open
     ELSE UNCHANGED <<state, wait, leaked>>

(* A mutant of OnFailure: every error counts.                              *)
OnFailureCountsAll(error) == OnCountedFailure

(* shouldCount = isRetryableGatewayError: a declined card does not count.  *)
OnFailure(error) ==
  IF error = "transient" THEN OnCountedFailure ELSE UNCHANGED breaker
-----------------------------------------------------------------------------
(* A call: execute up to the gateway, the attempts, and the rest of execute.*)

Asking(kind, n) == [pc |-> "asking", kind |-> kind, attempt |-> n]

(* A mutant of Begin: an open breaker whose time has not come lets calls in.*)
BeginEarly(c, kind) ==
  /\ call[c] = NoCall
  /\ call' = [call EXCEPT ![c] = Asking(kind, 1)]
  /\ leaked' = leaked + IF kind = "charge" /\ state = "OPEN" THEN 1 ELSE 0
  /\ UNCHANGED <<state, failureCount, wait, down>>

Begin(c, kind) ==
  /\ call[c] = NoCall
  /\ call' = [call EXCEPT ![c] = Asking(kind, 1)]
  /\ \/ kind = "charge" /\ state = "OPEN" /\ wait = 0 /\ state' = "HALF_OPEN"
     \/ (kind = "charge" => state # "OPEN") /\ UNCHANGED state
  /\ UNCHANGED <<failureCount, wait, leaked, down>>

(* The call returns or throws; a refund does not meet the breaker.         *)
Returns(c, Meets) ==
  /\ call[c].pc = "asking"
  /\ call' = [call EXCEPT ![c] = NoCall]
  /\ IF call[c].kind = "charge" THEN Meets ELSE UNCHANGED breaker
  /\ UNCHANGED down

Succeeds(c) == Returns(c, OnSuccess)

Declined(c) == Returns(c, OnFailure("declined"))

(* retry: a transient error is met with a pause while attempts are left,   *)
(* and thrown after the last.                                              *)
FailsForGood(c) ==
  /\ down
  /\ call[c].pc = "asking" /\ call[c].attempt = MaxAttempts
  /\ Returns(c, OnFailure("transient"))

BacksOff(c) ==
  /\ down
  /\ call[c].pc = "asking" /\ call[c].attempt < MaxAttempts
  /\ call' = [call EXCEPT ![c].pc = "backoff"]
  /\ UNCHANGED <<breaker, down>>

(* The next attempt, after a random pause.  The breaker is not asked again.*)
TriesAgain(c) ==
  /\ call[c].pc = "backoff"
  /\ call' = [call EXCEPT ![c] = Asking(@.kind, @.attempt + 1)]
  /\ leaked' = leaked + IF state = "OPEN" /\ call[c].kind = "charge" THEN 1 ELSE 0
  /\ UNCHANGED <<state, failureCount, wait, down>>
-----------------------------------------------------------------------------
(* Time, the gateway's health, and a restart of the process.               *)

Tick ==
  /\ wait > 0
  /\ wait' = wait - 1
  /\ UNCHANGED <<state, failureCount, call, down, leaked>>

GatewayFailsOrRecovers ==
  /\ down' = ~ down
  /\ UNCHANGED <<breaker, call>>

Restart ==
  /\ state' = "CLOSED" /\ failureCount' = 0 /\ wait' = 0
  /\ call' = [c \in Calls |-> NoCall]
  /\ leaked' = 0
  /\ UNCHANGED down

Answered(c) == Succeeds(c) \/ Declined(c) \/ FailsForGood(c) \/ BacksOff(c)

BreakerNext ==
  \/ \E c \in Calls, kind \in Kinds : Begin(c, kind)
  \/ \E c \in Calls : Answered(c) \/ TriesAgain(c)
  \/ Tick \/ GatewayFailsOrRecovers \/ Restart

BreakerSpec == BreakerInit /\ [][BreakerNext]_breakerVars

(* Time passes, the gateway answers, a pause ends; customers keep paying,  *)
(* and when they do not all fail for another reason, not every card is     *)
(* declined.                                                               *)
BreakerFairSpec ==
  /\ BreakerSpec
  /\ WF_breakerVars(Tick)
  /\ \A c \in Calls : WF_breakerVars(Answered(c)) /\ WF_breakerVars(TriesAgain(c))
  /\ SF_breakerVars(\E c \in Calls : Begin(c, "charge"))
  /\ SF_breakerVars(\E c \in Calls : call[c] # NoCall /\ call[c].kind = "charge" /\ Succeeds(c))
-----------------------------------------------------------------------------
CircuitState == {"CLOSED", "OPEN", "HALF_OPEN"}

BreakerTypeOK ==
  /\ state \in CircuitState
  /\ failureCount \in 0..FailureThreshold
  /\ wait \in 0..ResetTimeout
  /\ call \in [Calls -> {NoCall} \cup [pc : {"asking", "backoff"}, kind : Kinds,
                                     attempt : 1..MaxAttempts]]
  /\ down \in BOOLEAN
  /\ leaked \in Nat

(* What the calls in flight beside the one that opens the breaker may      *)
(* still try, each after its first attempt.                                *)
MaxLeak == (Cardinality(Calls) - 1) * (MaxAttempts - 1)

(* An open breaker relieves the gateway: from the moment it opens until    *)
(* its probe, the charges that were in flight make at most their remaining *)
(* attempts, and no other charge reaches the gateway ("calls fail fast     *)
(* instead of hammering a struggling dependency", CircuitBreaker.ts).  The *)
(* bound is reached: the retries of a call do not ask the breaker.         *)
LeakBounded == leaked <= MaxLeak

(* Why: what an open breaker has let through and what the charges in       *)
(* flight may still try add up to no more.  Inductive with BreakerTypeOK.  *)
AttemptsLeft ==
  {a \in Calls \X (1..MaxAttempts) :
     call[a[1]] # NoCall /\ call[a[1]].kind = "charge" /\ call[a[1]].attempt < a[2]}

LeakSound ==
  /\ LeakBounded
  /\ \A c \in Calls : call[c].pc = "backoff" => call[c].attempt < MaxAttempts
  /\ state = "OPEN" => leaked + Cardinality(AttemptsLeft) <= MaxLeak

(* Only an outage opens the breaker; declined cards, however many and      *)
(* however they interleave with it, do not (app.ts: "Only transient        *)
(* gateway failures (5xx / timeout) should trip the breaker").             *)
OnlyOutagesOpen == [][state # "OPEN" /\ state' = "OPEN" => down]_breakerVars

(* When the gateway is up for good, the breaker closes and stays closed,   *)
(* although late failures may have prolonged its wait and probes may have  *)
(* been declined ("the breaker probes and closes automatically", runbook). *)
Recovers == <>[] ~ down => <>[](state = "CLOSED")
=============================================================================
