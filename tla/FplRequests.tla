----------------------------- MODULE FplRequests -----------------------------
(***************************************************************************)
(* What stands between a logical FPL call and the network (fpl/client.js): *)
(* retry( circuit breaker( rate limiter( fetch ) ) ).  One breaker and one *)
(* limiter serve every call of the process; between any two awaits of one  *)
(* call the others run, so an attempt admitted in one state of the breaker *)
(* may settle in another.                                                  *)
(*                                                                         *)
(* Time is counted in intervals of the limiter's refill, and only how long *)
(* ago the circuit opened matters.  A call that settled may be made again. *)
(***************************************************************************)
EXTENDS Naturals, Sequences, FiniteSets

CONSTANTS
  Call,          \* logical calls that may be under way at once
  Threshold,     \* failureThreshold
  ResetTimeout,  \* resetTimeoutMs
  MaxAttempts,   \* the retry policy's maxAttempts
  Capacity       \* the limiter's burst size

ASSUME RequestsAssumption ==
  /\ Threshold \in Nat \ {0}
  /\ ResetTimeout \in Nat
  /\ MaxAttempts \in Nat \ {0}
  /\ Capacity \in Nat \ {0}

VARIABLES
  circuit,        \* #state
  failures,       \* #failures, counted up to Threshold: more makes no difference
  openFor,        \* now() - #openedAt, counted up to ResetTimeout
  probeInFlight,  \* #probeInFlight
  status,         \* per call: where its current attempt is
  attempt,        \* per call: withRetry's attempt
  probe,          \* per call: isProbe of its current attempt
  queue,          \* attempts waiting for the rate limiter, in FIFO order
  tokens          \* the limiter's reservoir

breaker == <<circuit, failures, openFor, probeInFlight>>
limiter == <<queue, tokens>>
vars == <<breaker, status, attempt, probe, limiter>>

TypeOK ==
  /\ circuit \in {"closed", "open", "half_open"}
  /\ failures \in 0..Threshold
  /\ openFor \in 0..ResetTimeout
  /\ probeInFlight \in BOOLEAN
  /\ status \in [Call -> {"idle", "queued", "sent", "backoff"}]
  /\ attempt \in [Call -> 0..MaxAttempts]
  /\ probe \in [Call -> BOOLEAN]
  /\ queue \in Seq(Call)
  /\ tokens \in 0..Capacity

Init ==
  /\ circuit = "closed"
  /\ failures = 0
  /\ openFor = ResetTimeout
  /\ probeInFlight = FALSE
  /\ status = [c \in Call |-> "idle"]
  /\ attempt = [c \in Call |-> 0]
  /\ probe = [c \in Call |-> FALSE]
  /\ queue = <<>>
  /\ tokens = Capacity

-----------------------------------------------------------------------------
(* The state getter: reading an open circuit after the reset timeout makes *)
(* it half open.                                                           *)
State == IF circuit = "open" /\ openFor = ResetTimeout THEN "half_open" ELSE circuit

Rejects == State = "open" \/ (State = "half_open" /\ probeInFlight)

Settle(c) ==
  /\ status' = [status EXCEPT ![c] = "idle"]
  /\ attempt' = [attempt EXCEPT ![c] = 0]

\* execute() throws CIRCUIT_OPEN, which is not retryable: the call is over.
Reject(c) ==
  /\ status[c] \in {"idle", "backoff"}
  /\ Rejects
  /\ circuit' = State
  /\ Settle(c)
  /\ UNCHANGED <<failures, openFor, probeInFlight, probe, limiter>>

\* A plausible bug: every attempt counts as the first one.
FirstAttempt(c) == 1

NextAttempt(c) == attempt[c] + 1

\* A first attempt, or the next one after the backoff, enters the limiter.
Admit(c) ==
  /\ status[c] \in {"idle", "backoff"}
  /\ ~Rejects
  /\ circuit' = State
  /\ probe' = [probe EXCEPT ![c] = State = "half_open"]
  /\ probeInFlight' = (probeInFlight \/ State = "half_open")
  /\ status' = [status EXCEPT ![c] = "queued"]
  /\ attempt' = [attempt EXCEPT ![c] = NextAttempt(c)]
  /\ queue' = Append(queue, c)
  /\ UNCHANGED <<failures, openFor, tokens>>

\* A plausible bug: a job does not wait for a token.
NoWait == TRUE

TokenLeft == tokens > 0

\* The limiter starts the oldest job; the request timeout starts with it.
Start(c) ==
  /\ queue # <<>> /\ Head(queue) = c
  /\ TokenLeft
  /\ queue' = Tail(queue)
  /\ tokens' = tokens - 1
  /\ status' = [status EXCEPT ![c] = "sent"]
  /\ UNCHANGED <<breaker, attempt, probe>>

-----------------------------------------------------------------------------
(* The three ways an attempt settles. *)

\* #transition(OPEN) and #transition(CLOSED).
Open ==
  /\ circuit' = "open"
  /\ openFor' = IF circuit = "open" THEN openFor ELSE 0

\* A plausible bug: closing the circuit keeps the failures counted.
CloseKeepingFailures ==
  /\ circuit' = "closed"
  /\ UNCHANGED <<failures, openFor>>

Close ==
  /\ circuit' = "closed"
  /\ failures' = IF circuit = "closed" THEN failures ELSE 0
  /\ UNCHANGED openFor

\* A plausible bug: any settled attempt clears the probe.
AnyoneEndsProbe(c) ==
  /\ probeInFlight' = FALSE
  /\ probe' = [probe EXCEPT ![c] = FALSE]

\* A plausible bug: no finally.
KeepProbe(c) == UNCHANGED <<probe, probeInFlight>>

\* finally: if (isProbe) this.#probeInFlight = false
EndProbe(c) ==
  /\ probeInFlight' = (probeInFlight /\ ~probe[c])
  /\ probe' = [probe EXCEPT ![c] = FALSE]

Succeed(c) ==
  /\ status[c] = "sent"
  /\ circuit' = "closed"
  /\ failures' = 0
  /\ EndProbe(c)
  /\ Settle(c)
  /\ UNCHANGED <<openFor, limiter>>

\* withRetry's catch: another attempt after the backoff, or the call fails.
Retry(c) ==
  \/ attempt[c] < MaxAttempts
     /\ status' = [status EXCEPT ![c] = "backoff"] /\ UNCHANGED attempt
  \/ attempt[c] = MaxAttempts /\ Settle(c)

CountFailure == failures' = IF failures < Threshold THEN failures + 1 ELSE Threshold

\* Timeout, network error, 429 or 5xx: counted by the breaker and retried.
FailUpstream(c) ==
  /\ status[c] = "sent"
  /\ CountFailure
  /\ \/ (probe[c] \/ failures' = Threshold) /\ Open
     \/ ~probe[c] /\ failures' < Threshold /\ UNCHANGED <<circuit, openFor>>
  /\ EndProbe(c)
  /\ Retry(c)
  /\ UNCHANGED limiter

\* 404, any other status, a body that is not JSON: upstream answered.
FailOther(c) ==
  /\ status[c] = "sent"
  /\ \/ probe[c] /\ Close
     \/ ~probe[c] /\ UNCHANGED <<circuit, failures, openFor>>
  /\ EndProbe(c)
  /\ Settle(c)
  /\ UNCHANGED limiter

\* One refill interval passes.
Tick ==
  /\ openFor' = IF openFor < ResetTimeout THEN openFor + 1 ELSE openFor
  /\ tokens' = IF tokens < Capacity THEN tokens + 1 ELSE tokens
  /\ UNCHANGED <<circuit, failures, probeInFlight, status, attempt, probe, queue>>

Next ==
  \/ \E c \in Call :
       Reject(c) \/ Admit(c) \/ Start(c) \/ Succeed(c) \/ FailUpstream(c) \/ FailOther(c)
  \/ Tick

Spec == Init /\ [][Next]_vars

\* Timers fire: the clock, the limiter, the end of a backoff and the request
\* timeout, which ends every fetch.  Nobody has to make a new call.
Fairness ==
  /\ WF_vars(Tick)
  /\ \A c \in Call :
       /\ WF_vars(Start(c))
       /\ WF_vars(Succeed(c) \/ FailUpstream(c) \/ FailOther(c))
       /\ WF_vars(status[c] = "backoff" /\ (Reject(c) \/ Admit(c)))

LiveSpec == Spec /\ Fairness
-----------------------------------------------------------------------------
\* One probe at a time, however many earlier attempts settle while it is under
\* way: the flag in circuitBreaker.js names exactly the probing attempt.
SingleProbe ==
  /\ probeInFlight <=> \E c \in Call : probe[c]
  /\ \A c, d \in Call : probe[c] /\ probe[d] => c = d

\* A closed circuit has seen fewer failures than the threshold, also when a
\* late answer or a probe's 404 closed it: no single failure of a healthy
\* upstream opens it by way of an old count.
ClosedBelowThreshold == circuit = "closed" => failures < Threshold

\* The breaker never rejects for good: whatever upstream answers and in which
\* order, it comes to admit an attempt again and again (execute's finally).
AdmitsAgain == []<>~Rejects

\* Every call settles: the retry loop ends, and no attempt is left in the limiter
\* (retry.js withRetry over circuitBreaker.js execute).
CallsSettle == \A c \in Call : status[c] # "idle" ~> status[c] = "idle"

\* circuitBreaker.js:4, "open -> requests are rejected immediately until
\* resetTimeoutMs elapses": a circuit that opened stays open that long.
StaysOpen == openFor < ResetTimeout => circuit = "open"
=============================================================================
