------------------------ MODULE AvatarProcessesProofs ------------------------
(***************************************************************************)
(* ProcessInv is inductive: a readiness answer and the answer to an upload *)
(* mean what they say, for any number of processes, requests and failures. *)
(***************************************************************************)
EXTENDS AvatarProcesses, TLAPS

LEMMA InitProcess == ProcessInit => ProcessInv
  <1> SUFFICES ASSUME ProcessInit PROVE ProcessInv
    OBVIOUS
  <1> USE DEF ProcessInit, UploadInit, FaultsInit
  <1>1. UploadTypeOK
    BY DEF UploadTypeOK, NoBody
  <1>2. ProcessTypeOK
    <2>1. faults \in 0 .. MaxFaults /\ signals \in 0 .. MaxSignals
      BY MaxFaultsAssumption, MaxSignalsAssumption
    <2> QED BY <1>1, <2>1 DEF ProcessTypeOK, Stages
  <1>3. ReadySound /\ UploadsSound /\ HostsSound
    BY DEF ReadySound, UploadsSound, RequestSound, NoProbe, HostsSound, InFlight
  <1> QED BY <1>2, <1>3 DEF ProcessInv
-----------------------------------------------------------------------------
(***************************************************************************)
(* Uploads.                                                                *)
(***************************************************************************)
\* What a request has left is explained by where it is; only its own steps
\* and the end of its process move it.
LEMMA UploadStep ==
    ASSUME UploadTypeOK, UploadsSound,
           \/ UNCHANGED uploadVars
           \/ \E p \in Processes : CutAll(p)
           \/ \E r \in Requests : Handle(r)
           \/ \E r \in Requests, p \in Servers, b \in Bodies : Arrive(r, p, b)
    PROVE  UploadTypeOK' /\ UploadsSound'
  <1> USE DEF UploadTypeOK
  <1>1. CASE UNCHANGED uploadVars
    BY <1>1 DEF uploadVars, UploadsSound, RequestSound
  <1>2. ASSUME NEW p \in Processes, CutAll(p)
        PROVE  UploadTypeOK' /\ UploadsSound'
    <2>1. /\ request' = [r \in Requests |->
                IF InFlight(r, p) THEN [request[r] EXCEPT !.at = "cut"] ELSE request[r]]
          /\ kept' = [r \in Requests |-> kept'[r]]
          /\ \A r \in Requests :
                \/ kept'[r] = kept[r]
                \/ InFlight(r, p) /\ kept'[r] = kept[r] \cup UnderWay(r)
      BY <1>2 DEF CutAll
    <2>2. \A r \in Requests : UnderWay(r) \subseteq {"object", "row"}
      BY DEF UnderWay
    <2>3. UploadTypeOK'
      <3>1. \A r \in Requests : kept'[r] \in SUBSET {"object", "row"}
        BY <2>1, <2>2
      <3>2. kept' \in [Requests -> SUBSET {"object", "row"}]
        BY <2>1, <3>1, Zenon
      <3>3. request' \in [Requests ->
               [at : {"idle", "screen", "put", "create", "answered", "cut"},
                host : Servers \cup {"none"}, body : Bodies \cup {NoBody},
                answer : Codes \cup {"none"}]]
        BY <2>1
      <3> QED BY <3>2, <3>3
    <2>4. ASSUME NEW r \in Requests PROVE RequestSound(r)'
      <3>1. CASE ~InFlight(r, p)
        BY <2>1, <3>1 DEF UploadsSound, RequestSound
      <3>2. CASE InFlight(r, p)
        <4>1. request'[r] = [request[r] EXCEPT !.at = "cut"]
          BY <2>1, <3>2
        <4>2. kept'[r] \in {kept[r], kept[r] \cup UnderWay(r)}
          BY <2>1
        <4> QED BY <3>2, <4>1, <4>2 DEF InFlight, UnderWay, UploadsSound, RequestSound
      <3> QED BY <3>1, <3>2
    <2> QED BY <2>3, <2>4 DEF UploadsSound
  <1>3. ASSUME NEW r \in Requests, Screen(r) PROVE UploadTypeOK' /\ UploadsSound'
    <2>1. request[r].body \in Bodies /\ Verdict(request[r].body) \in {"201", "400", "413"}
      BY <1>3 DEF Screen, UploadsSound, RequestSound, Verdict
    <2>2. UploadTypeOK'
      BY <1>3, <2>1 DEF Screen, Continue, Answer, Codes
    <2>3. UploadsSound'
      BY <1>3, <2>1 DEF Screen, Continue, Answer, UploadsSound, RequestSound
    <2> QED BY <2>2, <2>3
  <1>4. ASSUME NEW r \in Requests, Put(r) PROVE UploadTypeOK' /\ UploadsSound'
    <2>1. UploadTypeOK'
      BY <1>4 DEF Put, Continue, Answer, Keep, Codes
    <2>2. UploadsSound'
      BY <1>4 DEF Put, Continue, Answer, Keep, UploadsSound, RequestSound
    <2> QED BY <2>1, <2>2
  <1>5. ASSUME NEW r \in Requests, Create(r) PROVE UploadTypeOK' /\ UploadsSound'
    <2>1. UploadTypeOK'
      BY <1>5 DEF Create, Answer, Keep, Codes
    <2>2. UploadsSound'
      BY <1>5 DEF Create, Answer, Keep, UploadsSound, RequestSound
    <2> QED BY <2>1, <2>2
  <1>6. ASSUME NEW r \in Requests, NEW p \in Servers, NEW b \in Bodies, Arrive(r, p, b)
        PROVE  UploadTypeOK' /\ UploadsSound'
    <2>1. UploadTypeOK'
      BY <1>6 DEF Arrive
    <2>2. UploadsSound'
      BY <1>6 DEF Arrive, UploadsSound, RequestSound
    <2> QED BY <2>1, <2>2
  <1> QED BY <1>1, <1>2, <1>3, <1>4, <1>5, <1>6 DEF Handle
-----------------------------------------------------------------------------
(***************************************************************************)
(* Readiness.                                                              *)
(***************************************************************************)
\* The flag goes up with the checks, comes down any time and ends with the
\* process; probes follow the flag.
LEMMA ReadyStep ==
    ASSUME ProcessTypeOK, ReadySound,
           \/ UNCHANGED <<ready, checks, probe>>
           \/ \E p \in Processes : Gone(p)
           \/ \E p \in Processes : /\ checks' = [checks EXCEPT ![p] = Dependencies]
                                   /\ ready' = [ready EXCEPT ![p] = TRUE]
                                   /\ UNCHANGED probe
           \/ \E p \in Processes : /\ ready' = [ready EXCEPT ![p] = FALSE]
                                   /\ UNCHANGED <<checks, probe>>
           \/ HandleReadiness
    PROVE  ReadySound'
  <1> USE DEF ReadySound
  <1>1. CASE UNCHANGED <<ready, checks, probe>>
    BY <1>1
  <1>2. ASSUME NEW p \in Processes, Gone(p) PROVE ReadySound'
    BY <1>2 DEF Gone, ProcessTypeOK, NoProbe
  <1>3. ASSUME NEW p \in Processes, checks' = [checks EXCEPT ![p] = Dependencies],
               ready' = [ready EXCEPT ![p] = TRUE], UNCHANGED probe
        PROVE  ReadySound'
    BY <1>3 DEF ProcessTypeOK
  <1>4. ASSUME NEW p \in Processes, ready' = [ready EXCEPT ![p] = FALSE],
               UNCHANGED <<checks, probe>>
        PROVE  ReadySound'
    BY <1>4 DEF ProcessTypeOK
  <1>5. ASSUME NEW p \in Processes, Ask(p), UNCHANGED <<ready, checks>> PROVE ReadySound'
    BY <1>5 DEF Ask
  <1>6. ASSUME NEW d \in Dependencies, Check(d), UNCHANGED <<ready, checks>> PROVE ReadySound'
    BY <1>6 DEF Check, ProcessTypeOK, Probes, NoProbe
  <1>7. ASSUME Report, UNCHANGED <<ready, checks>> PROVE ReadySound'
    BY <1>7 DEF Report, ProcessTypeOK, Probes, NoProbe
  <1> QED BY <1>1, <1>2, <1>3, <1>4, <1>5, <1>6, <1>7 DEF HandleReadiness, mainVars
-----------------------------------------------------------------------------
(***************************************************************************)
(* What each step of a process may be to both.                             *)
(***************************************************************************)
LEMMA MainEffects ==
    ASSUME NEW p \in Processes, Main(p)
    PROVE  /\ \/ UNCHANGED uploadVars
              \/ CutAll(p)
           /\ \/ UNCHANGED <<ready, checks, probe>>
              \/ Gone(p)
              \/ /\ checks' = [checks EXCEPT ![p] = Dependencies]
                 /\ ready' = [ready EXCEPT ![p] = TRUE] /\ UNCHANGED probe
              \/ ready' = [ready EXCEPT ![p] = FALSE] /\ UNCHANGED <<checks, probe>>
  <1> USE DEF Proceeds, Returns
  <1>1. CASE Start(p) \/ Shutdown(p) \/ HeadBucket(p) \/ StopBeingReady(p) \/ Drained(p)
    BY <1>1 DEF Start, Shutdown, HeadBucket, StopBeingReady, Drained
  <1>2. CASE NewPool(p) \/ Close(p)
    BY <1>2 DEF NewPool, Close, Gone
  <1>3. CASE Migrate(p) \/ Migrated(p)
    BY <1>3 DEF Migrate, Migrated, Gone
  <1>4. CASE CreateBucket(p) \/ ConnectBroker(p)
    BY <1>4 DEF CreateBucket, ConnectBroker, Gone
  <1>5. CASE Wire(p) \/ Consume(p)
    BY <1>5 DEF Wire, Consume, Gone
  <1> QED BY <1>1, <1>2, <1>3, <1>4, <1>5 DEF Main
-----------------------------------------------------------------------------
(***************************************************************************)
(* Types.                                                                  *)
(***************************************************************************)
OwnTypeOK ==
    /\ faults \in 0 .. MaxFaults /\ signals \in 0 .. MaxSignals
    /\ up \in [Dependencies -> BOOLEAN] /\ bucket \in BOOLEAN
    /\ schema \in {"none", "dirty", "current"}
    /\ stage \in [Processes -> Stages]
    /\ told \in [Processes -> BOOLEAN] /\ ready \in [Processes -> BOOLEAN]
    /\ connected \in [Processes -> BOOLEAN] /\ overrun \in [Processes -> BOOLEAN]
    /\ checks \in [Processes -> SUBSET Dependencies]
    /\ probe \in Probes \cup {NoProbe}

LEMMA GoneTypes ==
    ASSUME OwnTypeOK, NEW p \in Processes, Gone(p)
    PROVE  /\ stage' \in [Processes -> Stages]
           /\ told' \in [Processes -> BOOLEAN] /\ ready' \in [Processes -> BOOLEAN]
           /\ connected' \in [Processes -> BOOLEAN] /\ overrun' \in [Processes -> BOOLEAN]
           /\ checks' \in [Processes -> SUBSET Dependencies]
           /\ probe' \in Probes \cup {NoProbe}
  BY DEF OwnTypeOK, Gone, Goes, Stages

LEMMA MainTypes ==
    ASSUME OwnTypeOK, NEW p \in Processes, Main(p)
    PROVE  OwnTypeOK'
  <1> USE DEF OwnTypeOK, Goes, Stages, outside
  <1>0. UNCHANGED <<faults, signals>>
    BY DEF Main
  <1>r. ASSUME Returns(p), UNCHANGED up, schema' \in {"none", "dirty", "current"}
        PROVE  OwnTypeOK'
    BY <1>0, <1>r, GoneTypes DEF Returns
  <1>p. ASSUME NEW next \in Stages, Proceeds(p, next), UNCHANGED up, bucket' \in BOOLEAN,
               schema' \in {"none", "dirty", "current"}
        PROVE  OwnTypeOK'
    BY <1>0, <1>p DEF Proceeds
  <1>1. CASE Start(p)
    BY <1>0, <1>1 DEF Start
  <1>2. CASE NewPool(p)
    BY <1>2, <1>r, <1>p DEF NewPool
  <1>3. CASE Migrate(p)
    BY <1>3, <1>r, <1>p DEF Migrate
  <1>4. CASE Migrated(p)
    BY <1>4, <1>r, <1>p DEF Migrated
  <1>5. CASE HeadBucket(p)
    BY <1>5, <1>p DEF HeadBucket
  <1>6. CASE CreateBucket(p)
    BY <1>6, <1>r, <1>p DEF CreateBucket
  <1>7. CASE ConnectBroker(p)
    <2>1. CASE up["rabbitmq"]
      BY <1>0, <1>7, <2>1 DEF ConnectBroker
    <2>2. CASE ~up["rabbitmq"]
      BY <1>7, <2>2, <1>r DEF ConnectBroker
    <2> QED BY <2>1, <2>2
  <1>8. CASE Wire(p)
    <2>1. CASE p \in Servers \/ connected[p]
      <3>1. stage' \in [Processes -> Stages] /\ ready' \in [Processes -> BOOLEAN]
        BY <1>8, <2>1 DEF Wire
      <3>2. checks' \in [Processes -> SUBSET Dependencies]
        BY <1>8, <2>1 DEF Wire
      <3> QED BY <1>0, <1>8, <2>1, <3>1, <3>2 DEF Wire
    <2>2. CASE ~(p \in Servers \/ connected[p])
      BY <1>8, <2>2, <1>r DEF Wire
    <2> QED BY <2>1, <2>2
  <1>9. CASE Consume(p)
    <2>1. CASE connected[p]
      BY <1>9, <2>1, <1>p DEF Consume
    <2>2. CASE ~connected[p]
      BY <1>0, <1>9, <2>2 DEF Consume
    <2> QED BY <2>1, <2>2
  <1>10. CASE StopBeingReady(p)
    BY <1>0, <1>10 DEF StopBeingReady
  <1>11. CASE Shutdown(p)
    BY <1>11, <1>p DEF Shutdown
  <1>12. CASE Drained(p)
    BY <1>0, <1>12 DEF Drained
  <1>13. CASE Close(p)
    BY <1>13, <1>r DEF Close
  <1> QED BY <1>1, <1>2, <1>3, <1>4, <1>5, <1>6, <1>7, <1>8, <1>9, <1>10, <1>11, <1>12,
             <1>13 DEF Main

LEMMA FaultTyped == faults \in 0 .. MaxFaults /\ (Fault \/ NoFault) => faults' \in 0 .. MaxFaults
  BY MaxFaultsAssumption DEF Fault, NoFault

LEMMA ProbeTypes ==
    ASSUME OwnTypeOK, HandleReadiness
    PROVE  OwnTypeOK'
  <1> USE DEF OwnTypeOK
  <1>1. UNCHANGED <<outside, mainVars, signals, faults>>
    BY DEF HandleReadiness
  <1>2. probe' \in Probes \cup {NoProbe}
    <2>1. ASSUME NEW p \in Processes, Ask(p) PROVE probe' \in Probes
      BY <2>1 DEF Ask, Probes
    <2>2. ASSUME NEW d \in Dependencies, Check(d) PROVE probe' \in Probes
      <3>1. probe \in Probes /\ probe.at = "checking"
        BY <2>2 DEF Check, NoProbe
      <3>2. CASE Healthy(probe.of, d)
        BY <2>2, <3>1, <3>2 DEF Check, Probes
      <3>3. CASE ~Healthy(probe.of, d)
        BY <2>2, <3>1, <3>3 DEF Check, Probes
      <3> QED BY <3>2, <3>3
    <2>3. ASSUME Report PROVE probe' \in Probes \cup {NoProbe}
      BY <2>3 DEF Report, Probes, NoProbe
    <2> QED BY <2>1, <2>2, <2>3 DEF HandleReadiness
  <1> QED BY <1>1, <1>2 DEF outside, mainVars
-----------------------------------------------------------------------------
(***************************************************************************)
(* Uploads and their hosts.                                                *)
(***************************************************************************)
\* What a step of main does to its own stage and to the uploads it hosts.
LEMMA MainStages ==
    ASSUME ProcessTypeOK, NEW p \in Processes, Main(p)
    PROVE  \/ CutAll(p) /\ stage' = [stage EXCEPT ![p] = "down"]
                /\ overrun' = [overrun EXCEPT ![p] = FALSE] /\ stage[p] # "running"
           \/ /\ UNCHANGED request /\ \E next \in Stages : stage' = [stage EXCEPT ![p] = next]
              /\ \/ /\ stage[p] \notin {"running", "stopping", "draining", "closing"}
                    /\ UNCHANGED overrun
                 \/ stage[p] = "running" /\ stage'[p] = "stopping" /\ UNCHANGED overrun
                 \/ stage[p] = "stopping" /\ stage'[p] = "draining" /\ UNCHANGED overrun
                 \/ /\ stage[p] = "draining" /\ stage'[p] = "closing"
                    /\ overrun' = [overrun EXCEPT ![p] = \E r \in Requests : InFlight(r, p)]
  <1> USE DEF Goes, Stages, uploadVars, ProcessTypeOK
  <1>r. ASSUME Returns(p), stage[p] # "running"
        PROVE  /\ CutAll(p) /\ stage' = [stage EXCEPT ![p] = "down"]
               /\ overrun' = [overrun EXCEPT ![p] = FALSE] /\ stage[p] # "running"
    BY <1>r DEF Returns, Gone
  <1>1. CASE Start(p) \/ HeadBucket(p)
    BY <1>1 DEF Start, HeadBucket, Proceeds
  <1>2. CASE NewPool(p)
    BY <1>2, <1>r DEF NewPool, Proceeds
  <1>3. CASE Migrate(p)
    BY <1>3, <1>r DEF Migrate, Proceeds
  <1>4. CASE Migrated(p)
    BY <1>4, <1>r DEF Migrated, Proceeds
  <1>5. CASE CreateBucket(p)
    BY <1>5, <1>r DEF CreateBucket, Proceeds
  <1>6. CASE ConnectBroker(p)
    BY <1>6, <1>r DEF ConnectBroker
  <1>7. CASE Wire(p)
    BY <1>7, <1>r DEF Wire
  <1>8. CASE Consume(p)
    BY <1>8 DEF Consume, Proceeds
  <1>9. CASE StopBeingReady(p)
    BY <1>9 DEF StopBeingReady
  <1>10. CASE Shutdown(p)
    BY <1>10 DEF Shutdown, Proceeds
  <1>11. CASE Drained(p)
    BY <1>11 DEF Drained
  <1>12. CASE Close(p)
    BY <1>12, <1>r DEF Close
  <1> QED BY <1>1, <1>2, <1>3, <1>4, <1>5, <1>6, <1>7, <1>8, <1>9, <1>10, <1>11, <1>12 DEF Main

\* Of the stages that host uploads only the last one ends main.
LEMMA OnlyClosingReturns ==
    ASSUME ProcessTypeOK, NEW p \in Processes, Main(p), CutAll(p), request' # request
    PROVE  stage[p] \notin {"running", "stopping", "draining"}
  <1> USE DEF uploadVars
  <1>1. CASE StopBeingReady(p) \/ Shutdown(p) \/ Drained(p)
    BY <1>1 DEF StopBeingReady, Shutdown, Drained, Proceeds
  <1>2. CASE ~(StopBeingReady(p) \/ Shutdown(p) \/ Drained(p))
    BY <1>2 DEF Main, Start, NewPool, Migrate, Migrated, HeadBucket, CreateBucket, ConnectBroker,
       Wire, Consume, Close
  <1> QED BY <1>1, <1>2

\* The uploads that are under way after a process has ended are those of others.
LEMMA CutFrame ==
    ASSUME UploadTypeOK, NEW p \in Processes, CutAll(p), NEW r \in Requests, NEW q \in Processes
    PROVE  InFlight(r, q)' => q # p /\ InFlight(r, q)
  BY DEF UploadTypeOK, CutAll, InFlight

LEMMA HostStep ==
    ASSUME ProcessInv, [ProcessNext]_procVars
    PROVE  HostsSound'
  <1>0. ProcessTypeOK /\ UploadTypeOK /\ HostsSound
    BY DEF ProcessInv, ProcessTypeOK
  <1> USE DEF HostsSound
  <1>1. ASSUME NEW p \in Processes, Main(p) PROVE HostsSound'
    <2> SUFFICES ASSUME NEW r \in Requests, NEW q \in Processes, InFlight(r, q)'
                 PROVE  /\ stage'[q] \in {"running", "stopping", "draining", "closing"}
                        /\ stage'[q] = "closing" => overrun'[q]
      OBVIOUS
    <2>1. CASE CutAll(p) /\ stage' = [stage EXCEPT ![p] = "down"]
                 /\ overrun' = [overrun EXCEPT ![p] = FALSE]
      BY <1>0, <2>1, CutFrame DEF ProcessTypeOK
    <2>2. CASE UNCHANGED request
      <3>1. InFlight(r, q)
        BY <2>2 DEF InFlight
      <3>2. CASE q # p
        BY <1>0, <1>1, <2>2, <3>1, <3>2, MainStages DEF ProcessTypeOK, CutAll
      <3>3. CASE q = p
        BY <1>0, <1>1, <2>1, <3>1, <3>3, MainStages DEF ProcessTypeOK
      <3> QED BY <3>2, <3>3
    <2> QED BY <1>0, <1>1, <2>1, <2>2, MainStages
  <1>2. ASSUME NEW p \in Processes, Kill(p) PROVE HostsSound'
    <2>1. /\ CutAll(p) /\ stage' = [stage EXCEPT ![p] = "down"]
          /\ overrun' = [overrun EXCEPT ![p] = FALSE]
      BY <1>2 DEF Kill, Gone, Goes
    <2> QED BY <1>0, <2>1, CutFrame DEF ProcessTypeOK
  <1>3. ASSUME NEW r \in Requests, Request(r) PROVE HostsSound'
    <2>1. UNCHANGED <<stage, overrun>>
      BY <1>3 DEF Request, mainVars
    <2>2. \A q \in Requests, p \in Processes : InFlight(q, p)' => InFlight(q, p)
      <3>1. CASE Screen(r)
        BY <1>0, <3>1 DEF Screen, Continue, Answer, InFlight, UploadTypeOK
      <3>2. CASE Put(r)
        BY <1>0, <3>2 DEF Put, Continue, Answer, InFlight, UploadTypeOK
      <3>3. CASE Create(r)
        BY <1>0, <3>3 DEF Create, Answer, InFlight, UploadTypeOK
      <3> QED BY <1>3, <3>1, <3>2, <3>3 DEF Request, Handle
    <2> QED BY <1>0, <2>1, <2>2
  <1>4. ASSUME NEW r \in Requests, Accept(r) PROVE HostsSound'
    <2>1. PICK p \in Servers, b \in OfferedBodies :
             stage[p] \in {"running", "stopping"} /\ Arrive(r, p, b)
      BY <1>4 DEF Accept
    <2>2. UNCHANGED <<stage, overrun>>
      BY <1>4 DEF Accept, mainVars
    <2>3. \A q \in Requests, c \in Processes : InFlight(q, c)' =>
             InFlight(q, c) \/ c = p
      BY <1>0, <2>1 DEF Arrive, InFlight, UploadTypeOK
    <2> QED BY <1>0, <2>1, <2>2, <2>3
  <1>5. CASE UNCHANGED <<request, stage, overrun>>
    BY <1>0, <1>5 DEF InFlight
  <1>6. ASSUME NEW p \in Processes, Signal(p) \/ LoseConnection(p) PROVE HostsSound'
    BY <1>5, <1>6 DEF Signal, LoseConnection, uploadVars
  <1>7. ASSUME NEW d \in Dependencies, Outage(d) \/ Repair(d) PROVE HostsSound'
    BY <1>5, <1>7 DEF Outage, Repair, uploadVars, mainVars
  <1>8. CASE HandleReadiness
    BY <1>5, <1>8 DEF HandleReadiness, uploadVars, mainVars
  <1>9. CASE UNCHANGED procVars
    BY <1>5, <1>9 DEF procVars, uploadVars, mainVars
  <1> QED BY <1>1, <1>2, <1>3, <1>4, <1>6, <1>7, <1>8, <1>9 DEF ProcessNext
-----------------------------------------------------------------------------
LEMMA ProcessStep == ProcessInv /\ [ProcessNext]_procVars => ProcessInv'
  <1> SUFFICES ASSUME ProcessInv, [ProcessNext]_procVars PROVE ProcessInv'
    OBVIOUS
  <1>0. OwnTypeOK /\ UploadTypeOK /\ ProcessTypeOK /\ ReadySound /\ UploadsSound
    BY DEF ProcessInv, ProcessTypeOK, OwnTypeOK
  <1>1. SUFFICES OwnTypeOK' /\ UploadTypeOK' /\ ReadySound' /\ UploadsSound'
    BY HostStep DEF ProcessInv, ProcessTypeOK, OwnTypeOK
  <1>2. ASSUME NEW p \in Processes, Main(p)
        PROVE  OwnTypeOK' /\ UploadTypeOK' /\ ReadySound' /\ UploadsSound'
    <2>1. OwnTypeOK'
      BY <1>0, <1>2, MainTypes
    <2>2. UploadTypeOK' /\ UploadsSound'
      BY <1>0, <1>2, MainEffects, UploadStep
    <2>3. ReadySound'
      BY <1>0, <1>2, MainEffects, ReadyStep
    <2> QED BY <2>1, <2>2, <2>3
  <1>3. ASSUME NEW p \in Processes, Signal(p)
        PROVE  OwnTypeOK' /\ UploadTypeOK' /\ ReadySound' /\ UploadsSound'
    <2>1. OwnTypeOK'
      BY <1>0, <1>3, MaxSignalsAssumption DEF OwnTypeOK, Signal, outside
    <2>2. UNCHANGED uploadVars /\ UNCHANGED <<ready, checks, probe>>
      BY <1>3 DEF Signal
    <2> QED BY <1>0, <2>1, <2>2, UploadStep, ReadyStep
  <1>4. ASSUME NEW p \in Processes, Kill(p)
        PROVE  OwnTypeOK' /\ UploadTypeOK' /\ ReadySound' /\ UploadsSound'
    <2>1. OwnTypeOK'
      BY <1>0, <1>4, GoneTypes, FaultTyped DEF OwnTypeOK, Kill, outside
    <2>2. Gone(p) /\ CutAll(p)
      BY <1>4 DEF Kill, Gone
    <2> QED BY <1>0, <2>1, <2>2, UploadStep, ReadyStep
  <1>5. ASSUME NEW p \in Processes, LoseConnection(p)
        PROVE  OwnTypeOK' /\ UploadTypeOK' /\ ReadySound' /\ UploadsSound'
    <2>1. OwnTypeOK'
      BY <1>0, <1>5, FaultTyped DEF OwnTypeOK, LoseConnection, outside
    <2>2. UNCHANGED uploadVars /\ UNCHANGED <<ready, checks, probe>>
      BY <1>5 DEF LoseConnection
    <2> QED BY <1>0, <2>1, <2>2, UploadStep, ReadyStep
  <1>6. ASSUME NEW d \in Dependencies, Outage(d) \/ Repair(d)
        PROVE  OwnTypeOK' /\ UploadTypeOK' /\ ReadySound' /\ UploadsSound'
    <2>1. OwnTypeOK'
      <3>1. CASE Outage(d)
        <4>1. connected' \in [Processes -> BOOLEAN] /\ faults' \in 0 .. MaxFaults
          BY <1>0, <3>1, FaultTyped DEF OwnTypeOK, Outage
        <4> QED BY <1>0, <3>1, <4>1 DEF OwnTypeOK, Outage
      <3>2. CASE Repair(d)
        BY <1>0, <3>2 DEF OwnTypeOK, Repair, mainVars
      <3> QED BY <1>6, <3>1, <3>2
    <2>2. UNCHANGED uploadVars /\ UNCHANGED <<ready, checks, probe>>
      BY <1>6 DEF Outage, Repair, mainVars
    <2> QED BY <1>0, <2>1, <2>2, UploadStep, ReadyStep
  <1>7. ASSUME NEW r \in Requests, Accept(r) \/ Request(r)
        PROVE  OwnTypeOK' /\ UploadTypeOK' /\ ReadySound' /\ UploadsSound'
    <2>1. faults' \in 0 .. MaxFaults
      <3>1. Fault \/ NoFault
        BY <1>7 DEF Accept, Request, Arrive, Handle, Screen, Put, Create, NoFault
      <3> QED BY <1>0, <3>1, FaultTyped DEF OwnTypeOK
    <2>2. UNCHANGED <<outside, mainVars, probe, signals>>
      BY <1>7 DEF Accept, Request
    <2>3. OwnTypeOK'
      BY <1>0, <2>1, <2>2 DEF OwnTypeOK, outside, mainVars
    <2>4. Handle(r) \/ \E p \in Servers, b \in Bodies : Arrive(r, p, b)
      BY <1>7, BodiesAssumption DEF Accept, Request
    <2>5. UploadTypeOK' /\ UploadsSound'
      BY <1>0, <2>4, UploadStep
    <2>6. ReadySound'
      BY <1>0, <2>2, ReadyStep DEF mainVars
    <2> QED BY <2>3, <2>5, <2>6
  <1>8. CASE HandleReadiness
    <2>1. UNCHANGED uploadVars
      BY <1>8 DEF HandleReadiness
    <2> QED BY <1>0, <1>8, <2>1, ProbeTypes, UploadStep, ReadyStep
  <1>9. CASE UNCHANGED procVars
    <2>1. UNCHANGED <<outside, mainVars, probe, signals, faults>> /\ UNCHANGED uploadVars
      BY <1>9 DEF procVars
    <2>2. OwnTypeOK'
      BY <1>0, <2>1 DEF OwnTypeOK, outside, mainVars
    <2>3. UNCHANGED <<ready, checks, probe>>
      BY <2>1 DEF mainVars
    <2> QED BY <1>0, <2>1, <2>2, <2>3, UploadStep, ReadyStep
  <1> QED BY <1>2, <1>3, <1>4, <1>5, <1>6, <1>7, <1>8, <1>9 DEF ProcessNext

\* The invariant of start, readiness, uploads and stop, for any number of
\* processes, requests, signals and failures.
THEOREM ProcessInvariant == ProcessSpec => []ProcessInv
  BY InitProcess, ProcessStep, PTL DEF ProcessSpec
-----------------------------------------------------------------------------
(***************************************************************************)
(* Tables and bucket.                                                      *)
(***************************************************************************)
\* Nothing takes a bucket or the current schema away.  A process is past a store
\* only when the store is there.
LEMMA StoresFrame ==
    ASSUME ProcessTypeOK, StoresSound, NEW p \in Processes, NEW next \in Stages,
           stage' = [stage EXCEPT ![p] = next],
           bucket => bucket', schema = "current" => schema' = "current",
           next \in PastBucket => bucket',
           p \in Servers /\ next \in PastMigrations => schema' = "current",
           \A q \in Processes \ {p} : ready'[q] = ready[q],
           ready'[p] => next \in {"consume", "running"}
    PROVE  StoresSound'
  <1>1. \A q \in Processes : stage'[q] = IF q = p THEN next ELSE stage[q]
    BY DEF ProcessTypeOK
  <1>2. \A q \in Processes : stage'[q] \in PastBucket => bucket'
    BY <1>1 DEF StoresSound
  <1>3. \A q \in Servers : stage'[q] \in PastMigrations => schema' = "current"
    BY <1>1 DEF StoresSound, Processes
  <1>4. \A q \in Processes : ready'[q] => stage'[q] \in {"consume", "running"}
    BY <1>1 DEF StoresSound
  <1> QED BY <1>2, <1>3, <1>4 DEF StoresSound, PastBucket, PastMigrations

LEMMA GoneStores ==
    ASSUME ProcessTypeOK, StoresSound, NEW p \in Processes, Gone(p), UNCHANGED <<schema, bucket>>
    PROVE  StoresSound'
  <1>1. /\ \A q \in Processes \ {p} : ready'[q] = ready[q]
        /\ ready'[p] = FALSE
    BY DEF Gone, ProcessTypeOK
  <1> QED BY <1>1, StoresFrame DEF Gone, Goes, Stages, PastBucket, PastMigrations

LEMMA MainStores ==
    ASSUME ProcessTypeOK, StoresSound, NEW p \in Processes, Main(p)
    PROVE  StoresSound'
  <1> USE DEF PastBucket, PastMigrations
  <1>r. ASSUME Returns(p), UNCHANGED schema PROVE StoresSound'
    BY <1>r, GoneStores DEF Returns
  <1>p. ASSUME NEW next \in Stages, Proceeds(p, next), ~ready[p],
               bucket => bucket', schema = "current" => schema' = "current",
               next \in PastBucket => bucket',
               p \in Servers /\ next \in PastMigrations => schema' = "current"
        PROVE  StoresSound'
    BY <1>p, StoresFrame DEF Proceeds, Goes
  <1>n. stage[p] \notin {"consume", "running"} => ~ready[p]
    BY DEF StoresSound
  <1>s. /\ stage[p] \in PastBucket => bucket
        /\ p \in Servers /\ stage[p] \in PastMigrations => schema = "current"
    BY DEF StoresSound
  <1>1. CASE Start(p)
    BY <1>1, <1>n, StoresFrame DEF Start, Goes, outside, Stages
  <1>2. CASE NewPool(p)
    BY <1>2, <1>n, <1>r, <1>p DEF NewPool, Stages
  <1>3. CASE Migrate(p)
    <2>1. CASE Proceeds(p, "migrating") /\ schema = "none" /\ UNCHANGED bucket
      BY <1>3, <1>n, <1>p, <2>1 DEF Migrate, Stages
    <2>2. CASE Proceeds(p, "head") /\ schema = "current" /\ UNCHANGED <<schema, bucket>>
      BY <1>3, <1>n, <1>p, <2>2 DEF Migrate, Stages
    <2> QED BY <1>3, <1>r, <2>1, <2>2 DEF Migrate
  <1>4. CASE Migrated(p)
    <2>1. CASE Proceeds(p, "head") /\ schema' = "current" /\ UNCHANGED bucket
      BY <1>4, <1>n, <1>p, <2>1 DEF Migrated, Stages
    <2> QED BY <1>4, <1>r, <2>1 DEF Migrated
  <1>5. CASE HeadBucket(p)
    BY <1>5, <1>n, <1>p, <1>s DEF HeadBucket, Stages, outside
  <1>6. CASE CreateBucket(p)
    BY <1>6, <1>n, <1>r, <1>p, <1>s DEF CreateBucket, Stages
  <1>7. CASE ConnectBroker(p)
    <2>1. CASE up["rabbitmq"]
      BY <1>7, <1>n, <1>s, <2>1, StoresFrame DEF ConnectBroker, Goes, Stages
    <2> QED BY <1>7, <1>r, <2>1 DEF ConnectBroker
  <1>8. CASE Wire(p)
    <2>1. CASE p \in Servers \/ connected[p]
      <3>1. \A q \in Processes \ {p} : ready'[q] = ready[q]
        BY <1>8, <2>1 DEF Wire, ProcessTypeOK
      <3>2. PICK next \in {"running", "consume"} : stage' = [stage EXCEPT ![p] = next]
        BY <1>8, <2>1 DEF Wire, Goes
      <3>3. UNCHANGED <<schema, bucket>> /\ stage[p] = "wire"
        BY <1>8, <2>1 DEF Wire
      <3> QED BY <1>s, <3>1, <3>2, <3>3, StoresFrame DEF Stages
    <2> QED BY <1>8, <1>r, <2>1 DEF Wire
  <1>9. CASE Consume(p) \/ StopBeingReady(p)
    <2>1. PICK next \in {"running", "stopping"} : stage' = [stage EXCEPT ![p] = next]
      BY <1>9 DEF Consume, StopBeingReady, Proceeds, Goes
    <2>2. UNCHANGED <<schema, bucket>> /\ stage[p] \in {"consume", "running"}
      BY <1>9 DEF Consume, StopBeingReady, outside
    <2>3. /\ \A q \in Processes \ {p} : ready'[q] = ready[q]
          /\ ready'[p] => stage'[p] = "running"
      BY <1>9 DEF Consume, StopBeingReady, Proceeds, Goes, ProcessTypeOK
    <2>4. stage'[p] = next
      BY <2>1 DEF ProcessTypeOK
    <2> QED BY <1>s, <2>1, <2>2, <2>3, <2>4, StoresFrame DEF Stages
  <1>10. CASE Shutdown(p)
    BY <1>10, <1>n, <1>p, <1>s DEF Shutdown, Stages, outside
  <1>11. CASE Drained(p)
    BY <1>11, <1>n, <1>s, StoresFrame DEF Drained, Goes, Stages, outside
  <1>12. CASE Close(p)
    BY <1>12, <1>r DEF Close
  <1> QED BY <1>1, <1>2, <1>3, <1>4, <1>5, <1>6, <1>7, <1>8, <1>9, <1>10, <1>11, <1>12 DEF Main

LEMMA StoresStep ==
    ASSUME ProcessTypeOK, StoresSound, [ProcessNext]_procVars
    PROVE  StoresSound'
  <1>1. CASE UNCHANGED <<stage, ready, schema, bucket>>
    BY <1>1 DEF StoresSound
  <1>2. ASSUME NEW p \in Processes, Main(p) PROVE StoresSound'
    BY <1>2, MainStores
  <1>3. ASSUME NEW p \in Processes, Kill(p) PROVE StoresSound'
    BY <1>3, GoneStores DEF Kill, outside
  <1>4. ASSUME NEW p \in Processes, Signal(p) \/ LoseConnection(p) PROVE StoresSound'
    BY <1>1, <1>4 DEF Signal, LoseConnection, outside
  <1>5. ASSUME NEW d \in Dependencies, Outage(d) \/ Repair(d) PROVE StoresSound'
    BY <1>1, <1>5 DEF Outage, Repair, mainVars
  <1>6. ASSUME NEW r \in Requests, Accept(r) \/ Request(r) PROVE StoresSound'
    BY <1>1, <1>6 DEF Accept, Request, outside, mainVars
  <1>7. CASE HandleReadiness
    BY <1>1, <1>7 DEF HandleReadiness, outside, mainVars
  <1>8. CASE UNCHANGED procVars
    BY <1>1, <1>8 DEF procVars, outside, mainVars
  <1> QED BY <1>2, <1>3, <1>4, <1>5, <1>6, <1>7, <1>8 DEF ProcessNext

\* A process is never past a store that is not there.
THEOREM StoresInvariant == ProcessSpec => []StoresSound
  <1>1. ProcessInit => StoresSound
    BY DEF ProcessInit, StoresSound, PastBucket, PastMigrations, Processes
  <1>2. ProcessInv /\ StoresSound /\ [ProcessNext]_procVars => StoresSound'
    BY StoresStep DEF ProcessInv
  <1> QED BY <1>1, <1>2, ProcessInvariant, PTL DEF ProcessSpec

\* Uploads find tables and bucket, and readiness stands for the bucket, for any
\* number of processes that start, race, fail and stop in any order.
THEOREM StoresComeFirst == ProcessSpec => []StoresBeforeService
  <1>1. ProcessInv /\ StoresSound => StoresBeforeService
    BY DEF ProcessInv, HostsSound, StoresSound, StoresBeforeService, Processes, PastBucket,
       PastMigrations
  <1> QED BY <1>1, ProcessInvariant, StoresInvariant, PTL
-----------------------------------------------------------------------------
\* A process that reports itself ready has passed all three checks.
THEOREM ReadyIsChecked == ProcessSpec => []ReadyMeansChecked
  <1>1. ProcessInv => ReadyMeansChecked
    BY DEF ProcessInv, ReadySound, ReadyMeansChecked
  <1> QED BY <1>1, ProcessInvariant, PTL

\* 201 means a complete avatar, 400 and 413 that nothing is left, and no end of a
\* request leaves a row without its object.
THEOREM UploadsAnswered == ProcessSpec => []AnswersAreTrue
  <1>1. ProcessInv => AnswersAreTrue
    <2>1. \A b : Verdict(b) = "201" => b.user /\ Decodes(b)
      BY DEF Verdict
    <2> QED BY <2>1 DEF ProcessInv, UploadsSound, RequestSound, AnswersAreTrue
  <1> QED BY <1>1, ProcessInvariant, PTL

\* No ordered stop cuts an upload short that does not outlast the drain.
THEOREM OrderlyStops == ProcessSpec => StopsCutNothing
  <1>1. ASSUME ProcessInv, [ProcessNext]_procVars, NEW r \in Requests,
               request[r].at # "cut", request'[r].at = "cut"
        PROVE  overrun[request[r].host] \/ faults' # faults
    <2>0. ProcessTypeOK /\ UploadTypeOK /\ HostsSound
      BY <1>1 DEF ProcessInv, ProcessTypeOK
    <2>1. ASSUME NEW p \in Processes, Main(p)
          PROVE  overrun[request[r].host]
      <3>1. CutAll(p) /\ stage[p] # "running"
        BY <1>1, <2>0, <2>1, MainStages
      <3>2. InFlight(r, p)
        BY <1>1, <2>0, <3>1 DEF CutAll, UploadTypeOK
      <3>3. stage[p] \in {"running", "stopping", "draining", "closing"}
        BY <2>0, <2>1, <3>2 DEF HostsSound
      <3>4. request' # request
        BY <1>1
      <3>5. stage[p] = "closing"
        BY <2>0, <2>1, <3>1, <3>3, <3>4, OnlyClosingReturns
      <3> QED BY <2>0, <2>1, <3>2, <3>5 DEF HostsSound, InFlight
    <2>2. ASSUME NEW p \in Processes, Kill(p) PROVE faults' # faults
      BY <2>0, <2>2 DEF Kill, Fault, ProcessTypeOK
    <2>3. ASSUME NEW q \in Requests, Request(q) PROVE FALSE
      <3>1. CASE Screen(q)
        BY <1>1, <2>0, <3>1 DEF Screen, Continue, Answer, UploadTypeOK
      <3>2. CASE Put(q)
        BY <1>1, <2>0, <3>2 DEF Put, Continue, Answer, UploadTypeOK
      <3>3. CASE Create(q)
        BY <1>1, <2>0, <3>3 DEF Create, Answer, UploadTypeOK
      <3> QED BY <2>3, <3>1, <3>2, <3>3 DEF Request, Handle
    <2>4. ASSUME NEW q \in Requests, Accept(q) PROVE FALSE
      BY <1>1, <2>0, <2>4 DEF Accept, Arrive, UploadTypeOK
    <2>5. request' # request
      BY <1>1
    <2>6. ASSUME NEW p \in Processes, Signal(p) \/ LoseConnection(p) PROVE FALSE
      BY <2>5, <2>6 DEF Signal, LoseConnection, uploadVars
    <2>7. ASSUME NEW d \in Dependencies, Outage(d) \/ Repair(d) PROVE FALSE
      BY <2>5, <2>7 DEF Outage, Repair, uploadVars
    <2>8. ~HandleReadiness /\ ~UNCHANGED procVars
      BY <2>5 DEF HandleReadiness, procVars, uploadVars
    <2>9. ProcessNext
      BY <1>1, <2>8
    <2>10. CASE \E p \in Processes : Main(p) \/ Signal(p) \/ Kill(p) \/ LoseConnection(p)
      BY <2>1, <2>2, <2>6, <2>10
    <2>11. CASE \E d \in Dependencies : Outage(d) \/ Repair(d)
      BY <2>7, <2>11
    <2>12. CASE \E q \in Requests : Accept(q) \/ Request(q)
      BY <2>3, <2>4, <2>12
    <2> QED BY <2>8, <2>9, <2>10, <2>11, <2>12 DEF ProcessNext
  <1>2. ProcessInv /\ [ProcessNext]_procVars =>
          [\A r \in Requests : request[r].at # "cut" /\ request'[r].at = "cut" =>
              overrun[request[r].host] \/ faults' # faults]_procVars
    BY <1>1
  <1> QED BY <1>2, ProcessInvariant, PTL DEF ProcessSpec, StopsCutNothing
=============================================================================
