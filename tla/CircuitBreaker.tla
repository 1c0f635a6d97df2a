--------------------------- MODULE CircuitBreaker ---------------------------
(***************************************************************************)
(* resilience/circuit_breaker.go, which the RabbitMQ client wraps around   *)
(* its publishes and the S3 client around its object requests.  Execute    *)
(* asks beforeCall, makes the call without the mutex and reports to        *)
(* afterCall: a call may return long after the breaker has changed state.  *)
(* Both halves hold the mutex, so each is one step.                        *)
(*                                                                         *)
(* The clock counts ticks since openedAt, and the code asks only whether   *)
(* openTimeout has passed; of failures, whether the threshold is reached.  *)
(* Beyond these the two counters stand still.                              *)
(***************************************************************************)
EXTENDS Naturals

CONSTANTS Callers,          \* goroutines that use the breaker
          FailureThreshold,
          OpenTimeout,      \* in ticks
          MaxFailures,      \* bound: where the model stops counting failures
          MaxOwnFailures    \* bound: how many calls fail through no fault of the
                            \* dependency

ASSUME BreakerAssumption ==
    /\ FailureThreshold \in Nat \ {0} /\ OpenTimeout \in Nat \ {0}
    /\ MaxFailures \in Nat /\ MaxFailures >= FailureThreshold
    /\ MaxOwnFailures \in Nat

VARIABLES state,            \* closed, open or halfOpen
          failures,         \* since the last success
          elapsed,          \* time.Since(openedAt)
          call,             \* idle, or the state in which a call was admitted
          healthy,          \* whether the dependency answers
          ownFailures       \* how many calls it would have answered have failed

vars == <<state, failures, elapsed, call, healthy, ownFailures>>
-----------------------------------------------------------------------------
TypeOK ==
    /\ state \in {"closed", "open", "halfOpen"}
    /\ failures \in 0 .. MaxFailures
    /\ elapsed \in 0 .. OpenTimeout
    /\ call \in [Callers -> {"idle", "normal", "probe"}]
    /\ healthy \in BOOLEAN
    /\ ownFailures \in 0 .. MaxOwnFailures

Init == /\ state = "closed"
        /\ failures = 0
        /\ elapsed = OpenTimeout
        /\ call = [c \in Callers |-> "idle"]
        /\ healthy = TRUE
        /\ ownFailures = 0

Admit(c, kind) == call' = [call EXCEPT ![c] = kind]
-----------------------------------------------------------------------------
\* Bug: an open circuit does not look at the clock.
BeforeCallAnyTime(c) ==
    /\ call[c] = "idle"
    /\ \/ state = "closed" /\ Admit(c, "normal") /\ UNCHANGED state
       \/ state = "open" /\ state' = "halfOpen" /\ Admit(c, "probe")
    /\ UNCHANGED <<failures, elapsed, healthy, ownFailures>>

\* Bug: an open circuit never lets a probe through.
BeforeCallClosed(c) ==
    /\ call[c] = "idle"
    /\ state = "closed" /\ Admit(c, "normal")
    /\ UNCHANGED <<state, failures, elapsed, healthy, ownFailures>>

\* beforeCall.  In every other case it answers ErrOpen and changes nothing.
BeforeCall(c) ==
    /\ call[c] = "idle"
    /\ \/ state = "closed" /\ Admit(c, "normal") /\ UNCHANGED state
       \/ /\ state = "open" /\ elapsed >= OpenTimeout
          /\ state' = "halfOpen"
          /\ Admit(c, "probe")
    /\ UNCHANGED <<failures, elapsed, healthy, ownFailures>>

\* Bug: the count of failures is not reset.
SuccessWithoutReset ==
    /\ state' = "closed"
    /\ elapsed' = OpenTimeout
    /\ UNCHANGED failures

\* afterCall(nil): openedAt is the zero time, which is long ago.
Success ==
    /\ failures' = 0
    /\ state' = "closed"
    /\ elapsed' = OpenTimeout

\* Bug: a failed probe does not open the circuit again.
FailureKeepsHalfOpen ==
    /\ failures' = IF failures < MaxFailures THEN failures + 1 ELSE failures
    /\ IF state # "halfOpen" /\ failures + 1 >= FailureThreshold
       THEN state' = "open" /\ elapsed' = 0
       ELSE UNCHANGED <<state, elapsed>>

\* afterCall(err).
Failure ==
    /\ failures' = IF failures < MaxFailures THEN failures + 1 ELSE failures
    /\ IF state = "halfOpen" \/ failures + 1 >= FailureThreshold
       THEN state' = "open" /\ elapsed' = 0
       ELSE UNCHANGED <<state, elapsed>>

\* The caller has cancelled the call, or the object it asked for is missing: an
\* error like any other.
OwnFailure == /\ ownFailures < MaxOwnFailures /\ ownFailures' = ownFailures + 1
              /\ Failure

AfterCall(c) ==
    /\ call[c] # "idle"
    /\ \/ healthy  /\ Success /\ UNCHANGED ownFailures
       \/ ~healthy /\ Failure /\ UNCHANGED ownFailures
       \/ healthy  /\ OwnFailure
    /\ call' = [call EXCEPT ![c] = "idle"]
    /\ UNCHANGED healthy
-----------------------------------------------------------------------------
Tick == /\ state = "open" /\ elapsed < OpenTimeout
        /\ elapsed' = elapsed + 1
        /\ UNCHANGED <<state, failures, call, healthy, ownFailures>>

\* The dependency breaks down or comes back.
Dependency == /\ healthy' = ~healthy
              /\ UNCHANGED <<state, failures, elapsed, call, ownFailures>>

Next == \/ \E c \in Callers : BeforeCall(c) \/ AfterCall(c)
        \/ Tick
        \/ Dependency

Spec == Init /\ [][Next]_vars

\* Time passes, calls return, and somebody keeps calling: the outbox publisher
\* does, every second, while an event is pending.
FairSpec == /\ Spec
            /\ WF_vars(Tick)
            /\ \A c \in Callers : WF_vars(AfterCall(c))
            /\ WF_vars(\E c \in Callers : BeforeCall(c))
-----------------------------------------------------------------------------
\* The breaker refuses calls exactly when the threshold has been reached since
\* the last success, whatever order the calls of several goroutines return in.
StateFollowsFailures == state = "closed" <=> failures < FailureThreshold

\* While the breaker waits for a probe, a probe is under way that will end the
\* wait: half-open is never left without one.
HalfOpenHasProbe == state = "halfOpen" => \E c \in Callers : call[c] = "probe"

\* With no call left over from before, an open circuit refuses every call until
\* the timeout has passed.
StaysOpenWhenQuiet ==
    [][state = "open" /\ elapsed < OpenTimeout /\ (\A c \in Callers : call[c] = "idle")
          => state' = "open" /\ call' = call]_vars

\* The half-open state always ends.
ProbeEnds == state = "halfOpen" ~> state # "halfOpen"

\* Once the dependency stays healthy and calls stop failing for reasons of their
\* own, which open the circuit for everybody else, it closes and stays closed.
Recovery == <>[]healthy => <>[](state = "closed")

\* README: the circuit stays open for 15 seconds.
StaysOpen == [][state = "open" /\ elapsed < OpenTimeout => state' = "open"]_vars
=============================================================================
