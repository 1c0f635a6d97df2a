------------------------------- MODULE Faults -------------------------------
(***************************************************************************)
(* The budget of transient failures of the outside world: a call to        *)
(* PostgreSQL, S3 or RabbitMQ that returns an error, a connection that     *)
(* drops, a process that dies.  Every module that calls something outside  *)
(* the process draws its failures from this one counter, so that a run     *)
(* explores every placement of at most MaxFaults failures.                 *)
(***************************************************************************)
EXTENDS Naturals

CONSTANT MaxFaults      \* bound: how many failures a behaviour may contain

ASSUME MaxFaultsAssumption == MaxFaults \in Nat

VARIABLE faults         \* how many failures have happened

FaultsInit == faults = 0

Fault   == faults < MaxFaults /\ faults' = faults + 1
NoFault == UNCHANGED faults
=============================================================================
