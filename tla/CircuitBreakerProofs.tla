------------------------ MODULE CircuitBreakerProofs ------------------------
(***************************************************************************)
(* The safety properties of CircuitBreaker for any set of callers, any     *)
(* threshold and any timeout.                                              *)
(***************************************************************************)
EXTENDS CircuitBreaker, TLAPS

USE BreakerAssumption

\* The three invariants together are inductive.
BreakerInv == TypeOK /\ StateFollowsFailures /\ HalfOpenHasProbe

LEMMA BreakerInit == Init => BreakerInv
  BY DEF Init, BreakerInv, TypeOK, StateFollowsFailures, HalfOpenHasProbe

LEMMA BreakerStep == BreakerInv /\ [Next]_vars => BreakerInv'
  <1> SUFFICES ASSUME BreakerInv, [Next]_vars PROVE BreakerInv'
    OBVIOUS
  <1> USE DEF BreakerInv, TypeOK, StateFollowsFailures, HalfOpenHasProbe
  <1>1. ASSUME NEW c \in Callers, BeforeCall(c) PROVE BreakerInv'
    BY <1>1 DEF BeforeCall, Admit
  <1>2. ASSUME NEW c \in Callers, AfterCall(c) PROVE BreakerInv'
    <2>0. ownFailures' \in 0 .. MaxOwnFailures
      BY <1>2 DEF AfterCall, OwnFailure
    <2>1. CASE Success
      BY <1>2, <2>0, <2>1 DEF AfterCall, Success
    <2>2. CASE Failure
      <3>1. failures' \in 0 .. MaxFailures /\ failures' >= failures
        BY <2>2 DEF Failure
      <3>2. failures + 1 >= FailureThreshold <=> failures' >= FailureThreshold
        BY <2>2 DEF Failure
      <3>3. CASE state = "halfOpen" \/ failures + 1 >= FailureThreshold
        BY <1>2, <2>0, <2>2, <3>1, <3>2, <3>3 DEF AfterCall, Failure
      <3>4. CASE ~(state = "halfOpen" \/ failures + 1 >= FailureThreshold)
        BY <1>2, <2>0, <2>2, <3>1, <3>2, <3>4 DEF AfterCall, Failure
      <3> QED
        BY <3>3, <3>4
    <2> QED
      BY <1>2, <2>1, <2>2 DEF AfterCall, OwnFailure
  <1>3. CASE Tick
    BY <1>3 DEF Tick
  <1>4. CASE Dependency \/ UNCHANGED vars
    BY <1>4 DEF Dependency, vars
  <1> QED
    BY <1>1, <1>2, <1>3, <1>4 DEF Next

LEMMA BreakerCorrect == Spec => []BreakerInv
  BY BreakerInit, BreakerStep, PTL DEF Spec

\* Closed below the threshold, open or half-open from it on.
THEOREM ThresholdDecides == Spec => []StateFollowsFailures
  <1>1. BreakerInv => StateFollowsFailures
    BY DEF BreakerInv
  <1> QED
    BY BreakerCorrect, <1>1, PTL

\* A half-open breaker always has a probe under way.
THEOREM ProbeUnderWay == Spec => []HalfOpenHasProbe
  <1>1. BreakerInv => HalfOpenHasProbe
    BY DEF BreakerInv
  <1> QED
    BY BreakerCorrect, <1>1, PTL

\* Only a straggler can end the open state before the timeout.
THEOREM QuietCircuitStaysOpen == Spec => StaysOpenWhenQuiet
  <1> DEFINE Quiet == state = "open" /\ elapsed < OpenTimeout
                         /\ \A c \in Callers : call[c] = "idle"
             Stays == Quiet => state' = "open" /\ call' = call
  <1>1. ASSUME BreakerInv, [Next]_vars PROVE Stays
    <2> SUFFICES ASSUME Quiet PROVE state' = "open" /\ call' = call
      OBVIOUS
    <2>1. ASSUME NEW c \in Callers PROVE ~BeforeCall(c) /\ ~AfterCall(c)
      BY <1>1 DEF BeforeCall, AfterCall, BreakerInv, TypeOK
    <2> QED
      BY <1>1, <2>1 DEF Next, Tick, Dependency, vars
  <1>2. BreakerInv /\ [Next]_vars => [Stays]_vars
    BY <1>1
  <1> QED
    BY BreakerCorrect, <1>2, PTL DEF Spec, StaysOpenWhenQuiet
=============================================================================
