--------------------------- MODULE AvatarProcesses ---------------------------
(***************************************************************************)
(* Start, readiness and stop of the processes: cmd/server/main.go and      *)
(* cmd/worker/main.go, with the migrations, the bucket, the health checks  *)
(* and the uploads a server is busy with.  A process that ends is started  *)
(* again by its orchestrator.                                              *)
(***************************************************************************)
EXTENDS AvatarUploads

CONSTANTS Workers,      \* worker processes
          MaxSignals,   \* bound: how many SIGTERMs are sent
          OfferedBodies \* bound: the bodies clients send

ASSUME MaxSignalsAssumption == MaxSignals \in Nat
ASSUME ProcessesAssumption == Servers \cap Workers = {}
ASSUME BodiesAssumption == OfferedBodies \subseteq Bodies

VARIABLES up,           \* which dependencies answer
          schema,       \* the tables: "none", "dirty" in mid-migration, "current"
          bucket,       \* whether the bucket exists
          stage,        \* where the main of each process is
          told,         \* whether it has received SIGTERM: its context is cancelled
          ready,        \* its readiness flag
          checks,       \* the health checks it has registered
          connected,    \* whether it has its RabbitMQ connection
          overrun,      \* whether its drain ran into the timeout
          probe,        \* a readiness request
          signals       \* how many SIGTERMs have been sent

outside   == <<up, schema, bucket>>
mainVars  == <<stage, told, ready, checks, connected, overrun>>
procVars  == <<outside, mainVars, probe, signals, uploadVars, faults>>
-----------------------------------------------------------------------------
Dependencies == {"postgres", "s3", "rabbitmq"}
Processes    == Servers \cup Workers

Stages == {"down", "pool", "migrate", "migrating", "head", "create", "broker", "wire",
           "consume", "running", "stopping", "draining", "closing"}

NoProbe == [at |-> "none"]
Probes  == [at : {"checking", "ok"}, of : Processes,
            left : SUBSET Dependencies, passed : SUBSET Dependencies, ok : BOOLEAN]

ProcessTypeOK ==
    /\ UploadTypeOK /\ faults \in 0 .. MaxFaults /\ signals \in 0 .. MaxSignals
    /\ up \in [Dependencies -> BOOLEAN] /\ bucket \in BOOLEAN
    /\ schema \in {"none", "dirty", "current"}
    /\ stage \in [Processes -> Stages]
    /\ told \in [Processes -> BOOLEAN] /\ ready \in [Processes -> BOOLEAN]
    /\ connected \in [Processes -> BOOLEAN] /\ overrun \in [Processes -> BOOLEAN]
    /\ checks \in [Processes -> SUBSET Dependencies]
    /\ probe \in Probes \cup {NoProbe}

ProcessInit ==
    /\ UploadInit /\ FaultsInit /\ signals = 0
    /\ up = [d \in Dependencies |-> TRUE]
    /\ schema = "none" /\ bucket = FALSE
    /\ stage = [p \in Processes |-> "down"]
    /\ told = [p \in Processes |-> FALSE]
    /\ ready = [p \in Processes |-> FALSE]
    /\ checks = [p \in Processes |-> {}]
    /\ connected = [p \in Processes |-> FALSE]
    /\ overrun = [p \in Processes |-> FALSE]
    /\ probe = NoProbe

Goes(p, next) == stage' = [stage EXCEPT ![p] = next]

\* Everything the process had in memory is gone, and with it its connections,
\* requests and probes.
Gone(p) ==
    /\ Goes(p, "down")
    /\ told' = [told EXCEPT ![p] = FALSE]
    /\ ready' = [ready EXCEPT ![p] = FALSE]
    /\ checks' = [checks EXCEPT ![p] = {}]
    /\ connected' = [connected EXCEPT ![p] = FALSE]
    /\ overrun' = [overrun EXCEPT ![p] = FALSE]
    /\ CutAll(p)
    /\ probe' = IF probe.at # "none" /\ probe.of = p THEN NoProbe ELSE probe

\* main returns: an error at start, or the end of the shutdown.
Returns(p) == Gone(p) /\ UNCHANGED bucket
-----------------------------------------------------------------------------
(***************************************************************************)
(* Start.  Every error ends main.                                          *)
(***************************************************************************)
\* Bug: the worker's readiness handler keeps the TRUE it is created with.
StartReady(p) ==
    /\ stage[p] = "down"
    /\ Goes(p, "pool")
    /\ ready' = [ready EXCEPT ![p] = p \in Workers]
    /\ UNCHANGED <<outside, told, checks, connected, overrun, probe, uploadVars>>

\* The worker's metrics server answers readiness from here on.
Start(p) ==
    /\ stage[p] = "down"
    /\ Goes(p, "pool")
    /\ UNCHANGED <<outside, told, ready, checks, connected, overrun, probe, uploadVars>>

Proceeds(p, next) ==
    /\ Goes(p, next)
    /\ UNCHANGED <<told, ready, checks, connected, overrun, probe, uploadVars>>

\* NewPool pings with the process's context.
NewPool(p) ==
    /\ stage[p] = "pool"
    /\ IF up["postgres"] /\ ~told[p]
       THEN Proceeds(p, IF p \in Servers THEN "migrate" ELSE "head") /\ UNCHANGED bucket
       ELSE Returns(p)
    /\ UNCHANGED <<up, schema>>

\* The migrations run under a database lock and mark the schema dirty first.
\* One found dirty is an error.
Migrate(p) ==
    /\ stage[p] = "migrate" /\ \A q \in Servers : stage[q] # "migrating"
    /\ \/ /\ up["postgres"] /\ schema = "none"
          /\ schema' = "dirty" /\ Proceeds(p, "migrating") /\ UNCHANGED bucket
       \/ /\ up["postgres"] /\ schema = "current"
          /\ Proceeds(p, "head") /\ UNCHANGED <<schema, bucket>>
       \/ /\ ~up["postgres"] \/ schema = "dirty"
          /\ Returns(p) /\ UNCHANGED schema
    /\ UNCHANGED up

Migrated(p) ==
    /\ stage[p] = "migrating"
    /\ IF up["postgres"]
       THEN schema' = "current" /\ Proceeds(p, "head") /\ UNCHANGED bucket
       ELSE Returns(p) /\ UNCHANGED schema
    /\ UNCHANGED up

\* Bug: EnsureBucket creates the bucket without asking first.
HeadBucketNever(p) ==
    /\ stage[p] = "head"
    /\ Proceeds(p, "create")
    /\ UNCHANGED outside

\* Bug: only the answer that there is no bucket leads to CreateBucket.
HeadBucketTrusted(p) ==
    /\ stage[p] = "head"
    /\ Proceeds(p, IF up["s3"] /\ ~told[p] /\ ~bucket THEN "create" ELSE "broker")
    /\ UNCHANGED outside

\* EnsureBucket: any error of HeadBucket is taken for a missing bucket ...
HeadBucket(p) ==
    /\ stage[p] = "head"
    /\ Proceeds(p, IF up["s3"] /\ ~told[p] /\ bucket THEN "broker" ELSE "create")
    /\ UNCHANGED outside

\* ... and creating one that exists by now is an error.
CreateBucket(p) ==
    /\ stage[p] = "create"
    /\ IF up["s3"] /\ ~told[p] /\ ~bucket
       THEN bucket' = TRUE /\ Proceeds(p, "broker")
       ELSE Returns(p)
    /\ UNCHANGED <<up, schema>>

\* The dial does not look at the context.
ConnectBroker(p) ==
    /\ stage[p] = "broker"
    /\ IF up["rabbitmq"]
       THEN /\ connected' = [connected EXCEPT ![p] = TRUE]
            /\ Goes(p, "wire")
            /\ UNCHANGED <<bucket, told, ready, checks, overrun, probe, uploadVars>>
       ELSE Returns(p)
    /\ UNCHANGED <<up, schema>>

\* The three checks, then the flag; a server begins to listen.  A worker's
\* consumer needs a channel of the connection.
Wire(p) ==
    /\ stage[p] = "wire"
    /\ IF p \in Servers \/ connected[p]
       THEN /\ checks' = [checks EXCEPT ![p] = Dependencies]
            /\ ready' = [ready EXCEPT ![p] = TRUE]
            /\ Goes(p, IF p \in Servers THEN "running" ELSE "consume")
            /\ UNCHANGED <<bucket, told, connected, overrun, probe, uploadVars>>
       ELSE Returns(p)
    /\ UNCHANGED <<up, schema>>
\* Run begins with its two consumers; its error ends the worker.
Consume(p) ==
    /\ stage[p] = "consume"
    /\ IF connected[p]
       THEN Proceeds(p, "running")
       ELSE /\ ready' = [ready EXCEPT ![p] = FALSE]
            /\ Goes(p, "stopping")
            /\ UNCHANGED <<told, checks, connected, overrun, probe, uploadVars>>
    /\ UNCHANGED outside
-----------------------------------------------------------------------------
(***************************************************************************)
(* Stop.                                                                   *)
(***************************************************************************)
Signal(p) ==
    /\ stage[p] # "down" /\ ~told[p]
    /\ signals < MaxSignals /\ signals' = signals + 1
    /\ told' = [told EXCEPT ![p] = TRUE]
    /\ UNCHANGED <<outside, stage, ready, checks, connected, overrun, probe,
                   uploadVars, faults>>

\* A worker gets here when Run has returned.
StopBeingReady(p) ==
    /\ stage[p] = "running" /\ told[p]
    /\ ready' = [ready EXCEPT ![p] = FALSE]
    /\ Goes(p, "stopping")
    /\ UNCHANGED <<outside, told, checks, connected, overrun, probe, uploadVars>>

\* Bug: main does not wait for the requests.
ShutdownAtOnce(p) ==
    /\ stage[p] = "stopping"
    /\ Proceeds(p, "closing")
    /\ UNCHANGED outside

\* Shutdown closes the listeners ...
Shutdown(p) ==
    /\ stage[p] = "stopping"
    /\ Proceeds(p, "draining")
    /\ UNCHANGED outside

\* Bug: the context of Shutdown has no deadline.
DrainedOnly(p) ==
    /\ stage[p] = "draining"
    /\ \A r \in Requests : ~InFlight(r, p)
    /\ Proceeds(p, "closing")
    /\ UNCHANGED outside

\* ... and waits for the requests, ten seconds at most.
Drained(p) ==
    /\ stage[p] = "draining"
    /\ overrun' = [overrun EXCEPT ![p] = \E r \in Requests : InFlight(r, p)]
    /\ Goes(p, "closing")
    /\ UNCHANGED <<outside, told, ready, checks, connected, probe, uploadVars>>

\* The deferred calls: the pool waits for connections in use.
Close(p) ==
    /\ stage[p] = "closing"
    /\ \A r \in Requests : ~(InFlight(r, p) /\ request[r].at = "create")
    /\ Returns(p)
    /\ UNCHANGED <<up, schema>>
-----------------------------------------------------------------------------
(***************************************************************************)
(* The outside.                                                            *)
(***************************************************************************)
Kill(p) ==
    /\ stage[p] # "down"
    /\ Fault
    /\ Gone(p)
    /\ UNCHANGED <<outside, signals>>

\* Nothing connects again.
LoseConnection(p) ==
    /\ connected[p]
    /\ Fault
    /\ connected' = [connected EXCEPT ![p] = FALSE]
    /\ UNCHANGED <<outside, stage, told, ready, checks, overrun, probe, signals, uploadVars>>

\* A broker that goes away takes the connections with it.
Outage(d) ==
    /\ up[d]
    /\ Fault
    /\ up' = [up EXCEPT ![d] = FALSE]
    /\ connected' = [p \in Processes |-> connected[p] /\ d # "rabbitmq"]
    /\ UNCHANGED <<schema, bucket, stage, told, ready, checks, overrun, probe,
                   signals, uploadVars>>

Repair(d) ==
    /\ ~up[d]
    /\ up' = [up EXCEPT ![d] = TRUE]
    /\ UNCHANGED <<schema, bucket, mainVars, probe, signals, uploadVars, faults>>
-----------------------------------------------------------------------------
(***************************************************************************)
(* GET /health/ready: the flag, then the registered checks side by side.   *)
(***************************************************************************)
Answers(p) == \/ p \in Workers /\ stage[p] \notin {"down", "draining", "closing"}
              \/ p \in Servers /\ stage[p] \in {"running", "stopping"}

Ask(p) ==
    /\ probe.at # "checking" /\ Answers(p) /\ ready[p]
    /\ probe' = [at |-> "checking", of |-> p, left |-> checks[p],
                  passed |-> {}, ok |-> TRUE]

Healthy(p, d) == IF d = "rabbitmq" THEN connected[p] ELSE up[d]

Check(d) ==
    /\ probe.at = "checking" /\ d \in probe.left
    /\ probe' = IF Healthy(probe.of, d)
                THEN [probe EXCEPT !.left = @ \ {d}, !.passed = @ \cup {d}]
                ELSE [probe EXCEPT !.left = @ \ {d}, !.ok = FALSE]

\* The result is OK unless a check has failed; a 503 needs no remembering.
Report ==
    /\ probe.at = "checking" /\ probe.left = {}
    /\ probe' = IF probe.ok THEN [probe EXCEPT !.at = "ok"] ELSE NoProbe

HandleReadiness ==
    /\ Report \/ (\E p \in Processes : Ask(p)) \/ (\E d \in Dependencies : Check(d))
    /\ UNCHANGED <<outside, mainVars, signals, uploadVars, faults>>
-----------------------------------------------------------------------------
Main(p) ==
    /\ \/ Start(p) \/ NewPool(p) \/ Migrate(p) \/ Migrated(p) \/ HeadBucket(p)
       \/ CreateBucket(p) \/ ConnectBroker(p) \/ Wire(p) \/ Consume(p)
       \/ StopBeingReady(p) \/ Shutdown(p) \/ Drained(p) \/ Close(p)
    /\ UNCHANGED <<signals, faults>>

\* Uploads are handled by the goroutines of a server.
Accept(r) ==
    /\ \E p \in Servers, b \in OfferedBodies :
         stage[p] \in {"running", "stopping"} /\ Arrive(r, p, b)
    /\ UNCHANGED <<outside, mainVars, probe, signals>>

Request(r) == Handle(r) /\ UNCHANGED <<outside, mainVars, probe, signals>>

ProcessNext ==
    \/ \E p \in Processes : Main(p) \/ Signal(p) \/ Kill(p) \/ LoseConnection(p)
    \/ \E d \in Dependencies : Outage(d) \/ Repair(d)
    \/ \E r \in Requests : Accept(r) \/ Request(r)
    \/ HandleReadiness

ProcessSpec == ProcessInit /\ [][ProcessNext]_procVars

\* Processes run and are started again, outages end, the database answers.  An
\* object request may hang: the client sets no deadline.
ProcessFairness ==
    /\ \A p \in Processes : WF_procVars(Main(p))
    /\ \A d \in Dependencies : WF_procVars(Repair(d))
    /\ \A r \in Requests : WF_procVars(request[r].at # "put" /\ Request(r))

ProcessFairSpec == ProcessSpec /\ ProcessFairness
-----------------------------------------------------------------------------
\* A process that reports itself ready has passed all three checks, at any
\* moment of its life: a worker answers probes long before it has checks to run,
\* and no checks failing would count as all of them passing.
ReadyMeansChecked == probe.at = "ok" => probe.passed = Dependencies

\* Why: the flag is raised after the checks are registered, and a probe that has
\* seen no failure has only checks left that have not run.
ReadySound ==
    /\ \A p \in Processes : ready[p] => checks[p] = Dependencies
    /\ probe.at # "none" /\ probe.ok => probe.left \cup probe.passed = Dependencies
    /\ probe.at = "ok" => probe.ok /\ probe.left = {}

\* An upload under way runs on a server that is not past its drain, or that did
\* not wait any longer for it.
HostsSound ==
    \A r \in Requests : \A p \in Processes : InFlight(r, p) =>
        /\ stage[p] \in {"running", "stopping", "draining", "closing"}
        /\ stage[p] = "closing" => overrun[p]

\* The inductive invariant of start, readiness, uploads and stop.
ProcessInv == ProcessTypeOK /\ ReadySound /\ UploadsSound /\ HostsSound

\* No upload under way meets a missing table or bucket, and no process reports
\* itself ready without a bucket: whatever order processes start in, whichever of
\* them loses the race for the bucket and wherever a migration was interrupted.
StoresBeforeService ==
    /\ \A r \in Requests, p \in Servers : InFlight(r, p) => bucket /\ schema = "current"
    /\ \A p \in Processes : ready[p] => bucket

\* Why: main gets no further without them, and the flag is up between Wire and
\* the stop alone.
PastBucket     == {"broker", "wire", "consume", "running", "stopping", "draining", "closing"}
PastMigrations == {"head", "create"} \cup PastBucket

StoresSound ==
    /\ \A p \in Processes : stage[p] \in PastBucket => bucket
    /\ \A p \in Servers : stage[p] \in PastMigrations => schema = "current"
    /\ \A p \in Processes : ready[p] => stage[p] \in {"consume", "running"}

\* An ordered stop cuts no upload short, unless the upload outlasts the drain.
StopsCutNothing ==
    [][\A r \in Requests : request[r].at # "cut" /\ request'[r].at = "cut" =>
          overrun[request[r].host] \/ faults' # faults]_procVars

\* A process that was told to stop does so, though a request of it may hang.
ToldToStop == \A p \in Processes : told[p] ~> stage[p] = "down"

\* A running process whose connection is gone, and a schema left dirty by a
\* migration that was interrupted, take somebody's hand.
NeedsHand(p) == \/ stage[p] = "running" /\ ~connected[p]
                \/ p \in Servers /\ schema = "dirty"

InService(p) == stage[p] = "running" /\ ready[p]

\* Everything else heals by itself: whatever order processes start in, on an
\* empty store, through outages, kills and stops, each is in service again.
BackInService ==
    \A p \in Processes : []<>(InService(p) \/ NeedsHand(p))
=============================================================================
