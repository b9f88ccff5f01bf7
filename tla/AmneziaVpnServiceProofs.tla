---------------------- MODULE AmneziaVpnServiceProofs ----------------------
(* Proofs about AmneziaVpnService, for every number of coroutines, every set *)
(* of protocols and all three classes of protocol.                           *)
EXTENDS AmneziaVpnService, FiniteSetTheorems, TLAPS

Tasks == {"connect", "disconnect", "reconnect"}
JobRec == [task : Tasks, pc : Pcs, wait : Nat]
Sessions == {"none", "starting", "up", "stopping", "stopped", "over"}

-----------------------------------------------------------------------------
(* The invariant of the fields, in three parts *)

JobsOK ==
  /\ jobs \in Seq(JobRec) /\ Len(jobs) <= MaxJobs + 1
  /\ \A j \in 1 .. Len(jobs) : jobs[j].wait \in 0 .. Len(jobs)
  /\ connectionJob \in 0 .. Len(jobs) /\ disconnectionJob \in 0 .. Len(jobs)
  /\ destroyWait \in 0 .. Len(jobs)
  /\ session \in [JobIds -> Sessions]
  /\ current \in [Protos -> 0 .. Len(jobs)]

MainOK ==
  /\ main \in {"idle", "connect", "launch", "refuse", "disconnect", "reconnect",
               "destroyDisconnect", "destroyRead", "destroyJoin"}
  /\ life \in {"running", "destroying", "destroyed", "killed", "crashed"}
  /\ main \in {"connect", "launch", "disconnect", "reconnect"} => Len(jobs) < MaxJobs
  /\ main \in {"destroyDisconnect", "destroyRead", "destroyJoin"} => life # "running"
  /\ main = "destroyDisconnect" \/ life = "running" => Len(jobs) <= MaxJobs

FieldsOK ==
  /\ kind \in Kinds
  /\ protocolState \in ProtocolStates /\ seen \in ProtocolStates
  /\ vpnProto \in Protos \cup {NoProto}
  /\ stopTimer \in {"off", "armed"}

FlagsOK ==
  /\ collecting \in BOOLEAN /\ isListenerBound \in BOOLEAN
  /\ isServiceBound \in BOOLEAN /\ sysBound \in BOOLEAN /\ clients \in BOOLEAN
  /\ crossed \in BOOLEAN /\ erred \in BOOLEAN
  /\ ~collecting => /\ seen = "CONNECTED" => isListenerBound
                    /\ seen \in {"DISCONNECTED", "DISCONNECTING"} => ~isListenerBound

LEMMA Parts ==
  ASSUME ServiceInv
  PROVE  JobsOK /\ MainOK /\ FieldsOK /\ FlagsOK
<1>1. JobsOK
  <2>1. jobs \in Seq(JobRec)
    BY DEF ServiceInv, JobRec, Tasks
  <2>2. \A j \in 1 .. Len(jobs) : jobs[j].wait \in 0 .. Len(jobs)
    BY DEF ServiceInv, TypeOK
  <2>. QED  BY <2>1, <2>2 DEF ServiceInv, TypeOK, JobsOK, Sessions
<1>2. MainOK
  BY DEF ServiceInv, TypeOK, MainOK, Alive
<1>3. FieldsOK
  BY DEF ServiceInv, TypeOK, FieldsOK
<1>4. FlagsOK
  BY DEF ServiceInv, TypeOK, FlagsOK
<1>. QED  BY <1>1, <1>2, <1>3, <1>4

LEMMA Whole ==
  ASSUME JobsOK, MainOK, FieldsOK, FlagsOK
  PROVE  ServiceInv
<1>1. \A j \in 1 .. Len(jobs) :
        jobs[j] \in [task : Tasks, pc : Pcs, wait : 0 .. Len(jobs)]
  <2>. SUFFICES ASSUME NEW j \in 1 .. Len(jobs)
                PROVE  jobs[j] \in [task : Tasks, pc : Pcs, wait : 0 .. Len(jobs)]
    OBVIOUS
  <2>1. jobs[j] \in JobRec /\ jobs[j].wait \in 0 .. Len(jobs)
    BY DEF JobsOK
  <2>. QED  BY <2>1 DEF JobRec
<1>2. TypeOK
  BY <1>1 DEF JobsOK, MainOK, FieldsOK, FlagsOK, TypeOK, Tasks, Sessions
<1>. QED  BY <1>2 DEF ServiceInv, JobsOK, MainOK, FlagsOK, JobRec, Tasks, Alive

LEMMA WholeNext ==
  ASSUME JobsOK', MainOK', FieldsOK', FlagsOK'
  PROVE  ServiceInv'
<1>1. \A j \in 1 .. Len(jobs') :
        jobs'[j] \in [task : Tasks, pc : Pcs, wait : 0 .. Len(jobs')]
  <2>. SUFFICES ASSUME NEW j \in 1 .. Len(jobs')
                PROVE  jobs'[j] \in [task : Tasks, pc : Pcs, wait : 0 .. Len(jobs')]
    OBVIOUS
  <2>1. jobs'[j] \in JobRec /\ jobs'[j].wait \in 0 .. Len(jobs')
    BY DEF JobsOK
  <2>. QED  BY <2>1 DEF JobRec
<1>2. TypeOK'
  BY <1>1 DEF JobsOK, MainOK, FieldsOK, FlagsOK, TypeOK, Tasks, Sessions
<1>. QED  BY <1>2 DEF ServiceInv, JobsOK, MainOK, FlagsOK, JobRec, Tasks, Alive

-----------------------------------------------------------------------------
(* What happens to the jobs *)

\* connectionScope.launch puts one behind the others.
LEMMA Launched ==
  ASSUME JobsOK, NEW t \in Tasks, Launch(t)
  PROVE  /\ jobs' \in Seq(JobRec) /\ Len(jobs) \in Nat /\ Len(jobs') = Len(jobs) + 1
         /\ DOMAIN jobs = 1 .. Len(jobs) /\ DOMAIN jobs' = 1 .. Len(jobs) + 1
         /\ \A i \in 1 .. Len(jobs) : jobs'[i] = jobs[i]
         /\ jobs'[Len(jobs) + 1].task = t /\ jobs'[Len(jobs) + 1].wait = 0
         /\ jobs'[Len(jobs) + 1].pc \in {"run", "read"}
<1>. DEFINE e == [task |-> t, wait |-> 0, pc |-> IF t = "reconnect" THEN "run" ELSE "read"]
<1>1. e \in JobRec /\ e.task = t /\ e.wait = 0 /\ e.pc \in {"run", "read"}
  BY DEF JobRec, Tasks, Pcs
<1>2. jobs' = Append(jobs, e)
  BY DEF Launch
<1>. HIDE DEF e
<1>. QED  BY <1>1, <1>2 DEF JobsOK

\* A coroutine goes on.
LEMMA Moved ==
  ASSUME JobsOK, NEW j \in 1 .. Len(jobs), NEW x \in Pcs, Goto(j, x)
  PROVE  /\ jobs' \in Seq(JobRec) /\ Len(jobs) \in Nat /\ Len(jobs') = Len(jobs)
         /\ DOMAIN jobs = 1 .. Len(jobs) /\ DOMAIN jobs' = 1 .. Len(jobs)
         /\ \A i \in 1 .. Len(jobs) : i # j => jobs'[i] = jobs[i]
         /\ jobs'[j].task = jobs[j].task /\ jobs'[j].pc = x /\ jobs'[j].wait = jobs[j].wait
<1>. DEFINE e == [jobs[j] EXCEPT !.pc = x]
<1>1. jobs[j] \in JobRec /\ jobs \in Seq(JobRec)
  BY DEF JobsOK
<1>2. e \in JobRec /\ e.task = jobs[j].task /\ e.pc = x /\ e.wait = jobs[j].wait
  BY <1>1 DEF JobRec
<1>3. jobs' = [jobs EXCEPT ![j] = e]
  BY DEF Goto
<1>. HIDE DEF e
<1>. QED  BY <1>1, <1>2, <1>3

\* ?.join() reads the field.
LEMMA Waiting ==
  ASSUME JobsOK, NEW j \in 1 .. Len(jobs), NEW w \in Nat,
         jobs' = [jobs EXCEPT ![j].pc = "join", ![j].wait = w]
  PROVE  /\ jobs' \in Seq(JobRec) /\ Len(jobs) \in Nat /\ Len(jobs') = Len(jobs)
         /\ DOMAIN jobs = 1 .. Len(jobs) /\ DOMAIN jobs' = 1 .. Len(jobs)
         /\ \A i \in 1 .. Len(jobs) : i # j => jobs'[i] = jobs[i]
         /\ jobs'[j].task = jobs[j].task /\ jobs'[j].pc = "join" /\ jobs'[j].wait = w
<1>. DEFINE d == [jobs[j] EXCEPT !.pc = "join"]
            e == [d EXCEPT !.wait = w]
<1>1. jobs[j] \in JobRec /\ jobs \in Seq(JobRec)
  BY DEF JobsOK
<1>2. d \in JobRec /\ d.task = jobs[j].task /\ d.pc = "join"
  BY <1>1 DEF JobRec, Pcs
<1>3. jobs' = [jobs EXCEPT ![j] = e]
  BY <1>1 DEF JobRec
<1>. HIDE DEF d
<1>4. e \in JobRec /\ e.task = jobs[j].task /\ e.pc = "join" /\ e.wait = w
  BY <1>2 DEF JobRec
<1>. HIDE DEF e
<1>. QED  BY <1>1, <1>3, <1>4

JobMoves(j, x) ==
  /\ j \in 1 .. Len(jobs) /\ Len(jobs) \in Nat /\ Len(jobs') = Len(jobs)
  /\ jobs' \in Seq(JobRec) /\ DOMAIN jobs = 1 .. Len(jobs) /\ DOMAIN jobs' = 1 .. Len(jobs)
  /\ \A i \in 1 .. Len(jobs) : i # j => jobs'[i] = jobs[i]
  /\ jobs'[j].task = jobs[j].task /\ jobs'[j].pc = x /\ jobs'[j].wait \in 0 .. Len(jobs)

\* What is the same in every step of a coroutine.
LEMMA Moves ==
  ASSUME ServiceInv, NEW j \in JobIds, NEW t, NEW y, At(j, t, y), NEW x \in Pcs,
         Goto(j, x)
  PROVE  JobMoves(j, x)
<1>1. j \in 1 .. Len(jobs)
  BY Parts, ServiceAssumption DEF At, JobsOK, JobIds
<1>2. jobs[j].wait \in 0 .. Len(jobs)
  BY <1>1, Parts DEF JobsOK
<1>. QED  BY <1>1, <1>2, Parts, Moved DEF JobMoves

LEMMA MovesToJoin ==
  ASSUME ServiceInv, NEW j \in JobIds, NEW t, NEW y, At(j, t, y), NEW w \in 0 .. Len(jobs),
         jobs' = [jobs EXCEPT ![j].pc = "join", ![j].wait = w]
  PROVE  JobMoves(j, "join")
<1>1. j \in 1 .. Len(jobs) /\ w \in Nat
  BY Parts, ServiceAssumption DEF At, JobsOK, JobIds
<1>. QED  BY <1>1, Parts, Waiting DEF JobMoves

LEMMA JobsKept ==
  ASSUME ServiceInv, UNCHANGED <<jobVars, tunVars>>,
         destroyWait' \in {destroyWait, disconnectionJob}
  PROVE  JobsOK'
BY Parts DEF JobsOK, jobVars, tunVars

LEMMA JobsMoved ==
  ASSUME ServiceInv, NEW j, NEW x, JobMoves(j, x),
         connectionJob' \in {0, connectionJob}, disconnectionJob' \in {0, disconnectionJob},
         destroyWait' = destroyWait, session' \in [JobIds -> Sessions],
         current' \in [Protos -> 0 .. Len(jobs)]
  PROVE  JobsOK'
<1>1. JobsOK
  BY Parts
<1>2. \A i \in 1 .. Len(jobs') : jobs'[i].wait \in 0 .. Len(jobs')
  BY <1>1 DEF JobMoves, JobsOK
<1>. QED  BY <1>1, <1>2 DEF JobMoves, JobsOK

LEMMA JobsLaunched ==
  ASSUME ServiceInv, NEW t \in Tasks, Launch(t), Len(jobs) <= MaxJobs,
         connectionJob' \in {connectionJob, Len(jobs) + 1},
         disconnectionJob' \in {disconnectionJob, Len(jobs) + 1},
         destroyWait' = destroyWait, UNCHANGED tunVars
  PROVE  JobsOK'
<1>1. JobsOK
  BY Parts
<1>2. /\ jobs' \in Seq(JobRec) /\ Len(jobs) \in Nat /\ Len(jobs') = Len(jobs) + 1
      /\ \A i \in 1 .. Len(jobs) : jobs'[i] = jobs[i]
      /\ jobs'[Len(jobs) + 1].wait = 0
  BY <1>1, Launched
<1>3. \A i \in 1 .. Len(jobs') : jobs'[i].wait \in 0 .. Len(jobs')
  BY <1>1, <1>2 DEF JobsOK
<1>4. current' \in [Protos -> 0 .. Len(jobs')]
  BY <1>1, <1>2 DEF JobsOK, tunVars
<1>. QED  BY <1>1, <1>2, <1>3, <1>4, ServiceAssumption DEF JobsOK, tunVars

-----------------------------------------------------------------------------
(* The fields keep their invariant *)

LEMMA FlagsKept ==
  ASSUME ServiceInv, UNCHANGED <<collVars, isServiceBound, sysBound, clients>>,
         crossed' \in BOOLEAN, erred' \in BOOLEAN
  PROVE  FlagsOK'
BY Parts DEF FlagsOK, collVars

LEMMA HistoryTyped ==
  ASSUME ServiceInv
  PROVE  crossed \in BOOLEAN /\ erred \in BOOLEAN
BY Parts DEF FlagsOK

LEMMA FieldsRequest ==
  ASSUME ServiceInv, Request
  PROVE  ServiceInv'
<1>. USE DEF jobVars, tunVars, bindVars, collVars, lifeVars, MainIdle, Alive
<1>1. JobsOK'
  <2>1. UNCHANGED <<jobVars, tunVars, destroyWait>>
    BY DEF Request, ConnectCheck, ConnectInvalid, DisconnectCheck, ReconnectCheck, Bind,
           RegisterClient, UnregisterClient, Unbind
  <2>. QED  BY <2>1, JobsKept
<1>2. MainOK'
  BY Parts DEF MainOK, Request, ConnectCheck, ConnectInvalid, DisconnectCheck,
     ReconnectCheck, Bind, RegisterClient, UnregisterClient, Unbind
<1>3. FieldsOK'
  BY Parts DEF FieldsOK, ProtocolStates, Request, ConnectCheck, ConnectInvalid,
     DisconnectCheck, ReconnectCheck, Bind, RegisterClient, UnregisterClient, Unbind
<1>4. FlagsOK'
  <2>1. UNCHANGED collVars
    BY DEF Request, ConnectCheck, ConnectInvalid, DisconnectCheck, ReconnectCheck, Bind,
           RegisterClient, UnregisterClient, Unbind
  <2>2. /\ isServiceBound' \in {isServiceBound, TRUE, FALSE}
        /\ sysBound' \in {sysBound, TRUE, FALSE}
        /\ clients' \in {clients, TRUE, FALSE}
    BY DEF Request, ConnectCheck, ConnectInvalid, DisconnectCheck, ReconnectCheck, Bind,
           RegisterClient, UnregisterClient, Unbind
  <2>3. crossed' \in BOOLEAN /\ erred' \in BOOLEAN
    BY HistoryTyped DEF Request, ConnectCheck, ConnectInvalid, DisconnectCheck,
       ReconnectCheck, Bind, RegisterClient, UnregisterClient, Unbind, histVars
  <2>. QED  BY <2>1, <2>2, <2>3, Parts DEF FlagsOK
<1>. QED  BY <1>1, <1>2, <1>3, <1>4, WholeNext

LEMMA FieldsMain ==
  ASSUME ServiceInv, MainStep \/ OnDestroy \/ KillProcess
  PROVE  ServiceInv'
<1>. USE DEF jobVars, tunVars, bindVars, collVars, lifeVars, histVars
<1>1. FlagsOK'
  <2>1. UNCHANGED <<collVars, bindVars, histVars>>
    BY DEF MainStep, ConnectState, ConnectLaunch, ConnectDenied, ConnectRefused, DisconnectLaunch,
           ReconnectLaunch, DestroyRead, Destroyed, OnDestroy, KillProcess
  <2>. QED  BY <2>1, HistoryTyped, FlagsKept
<1>2. FieldsOK'
  BY Parts DEF FieldsOK, ProtocolStates, MainStep, ConnectState, ConnectLaunch,
     ConnectDenied, ConnectRefused, DisconnectLaunch, ReconnectLaunch, DestroyRead, Destroyed,
     OnDestroy, KillProcess
<1>3. CASE \/ ConnectState \/ ConnectDenied \/ ConnectRefused \/ DestroyRead \/ Destroyed
           \/ OnDestroy \/ KillProcess
  <2>1. JobsOK'
    <3>1. UNCHANGED <<jobVars, tunVars>> /\ destroyWait' \in {destroyWait, disconnectionJob}
      BY <1>3 DEF ConnectState, ConnectDenied, ConnectRefused, DestroyRead, Destroyed,
         OnDestroy, KillProcess
    <3>. QED  BY <3>1, JobsKept
  <2>2. MainOK'
    BY <1>3, Parts DEF MainOK, ConnectState, ConnectDenied, ConnectRefused, DestroyRead, Destroyed,
       OnDestroy, KillProcess, MainIdle, Alive
  <2>. QED  BY <1>1, <1>2, <2>1, <2>2, WholeNext
<1>4. CASE ConnectLaunch \/ DisconnectLaunch \/ ReconnectLaunch
  <2>1. PICK t \in Tasks :
          /\ Launch(t) /\ UNCHANGED <<tunVars, lifeVars>>
          /\ connectionJob' \in {connectionJob, Len(jobs) + 1}
          /\ disconnectionJob' \in {disconnectionJob, Len(jobs) + 1}
          /\ \/ main \in {"launch", "disconnect", "reconnect"} /\ main' = "idle"
             \/ main = "destroyDisconnect" /\ main' = "destroyRead"
    BY <1>4 DEF ConnectLaunch, DisconnectLaunch, ReconnectLaunch, Tasks
  <2>2. Len(jobs) \in Nat /\ Len(jobs') = Len(jobs) + 1
    BY <2>1, Parts, Launched
  <2>3. Len(jobs) <= MaxJobs
    BY <2>1, <2>2, Parts, ServiceAssumption DEF MainOK
  <2>4. JobsOK'
    BY <2>1, <2>3, JobsLaunched
  <2>5. MainOK'
    BY <2>1, <2>2, Parts, ServiceAssumption DEF MainOK
  <2>. QED  BY <1>1, <1>2, <2>4, <2>5, WholeNext
<1>. QED  BY <1>3, <1>4 DEF MainStep

LEMMA FieldsCollector ==
  ASSUME ServiceInv, Collector
  PROVE  ServiceInv'
<1>. USE DEF jobVars, tunVars, bindVars, lifeVars, histVars
<1>1. JobsOK'
  <2>1. UNCHANGED <<jobVars, tunVars, destroyWait>>
    BY DEF Collector, CollectTake, CollectAct, CollectBindFails
  <2>. QED  BY <2>1, JobsKept
<1>2. MainOK'
  BY Parts DEF MainOK, Collector, CollectTake, CollectAct, CollectBindFails
<1>3. FieldsOK'
  BY Parts DEF FieldsOK, collVars, Collector, CollectTake, CollectAct, CollectBindFails
<1>4. FlagsOK'
  <2>1. CASE CollectTake
    BY <2>1, Parts DEF FlagsOK, CollectTake
  <2>2. CASE CollectAct
    <3>1. isListenerBound' \in BOOLEAN
      BY <2>2, Parts DEF FlagsOK, CollectAct
    <3>2. /\ seen = "CONNECTED" => isListenerBound' = TRUE
          /\ seen \in {"DISCONNECTED", "DISCONNECTING"} => isListenerBound' = FALSE
      BY <2>2 DEF CollectAct
    <3>. QED  BY <2>2, <3>1, <3>2, Parts DEF FlagsOK, CollectAct
  <2>3. CASE CollectBindFails
    BY <2>3, HistoryTyped, FlagsKept DEF CollectBindFails
  <2>. QED  BY <2>1, <2>2, <2>3 DEF Collector
<1>. QED  BY <1>1, <1>2, <1>3, <1>4, WholeNext

LEMMA SetCurrentTyped ==
  ASSUME ServiceInv, NEW p, NEW j \in 0 .. Len(jobs)
  PROVE  SetCurrent(p, j) \in [Protos -> 0 .. Len(jobs)]
BY Parts DEF JobsOK, SetCurrent

\* Every step of a coroutine moves that coroutine and no other.
LEMMA JobStepMoves ==
  ASSUME ServiceInv, NEW j \in JobIds, JobStep(j)
  PROVE  /\ \E x \in Pcs : JobMoves(j, x)
         /\ connectionJob' \in {0, connectionJob} /\ disconnectionJob' \in {0, disconnectionJob}
<1>. USE DEF Pcs
<1>1. CASE ConnectRead(j)
  <2>1. disconnectionJob \in 0 .. Len(jobs)
    BY Parts DEF JobsOK
  <2>2. JobMoves(j, "join")
    BY <1>1, <2>1, MovesToJoin DEF ConnectRead
  <2>. QED  BY <1>1, <2>2 DEF ConnectRead
<1>2. CASE DisconnectRead(j)
  <2>1. connectionJob \in 0 .. Len(jobs)
    BY Parts DEF JobsOK
  <2>2. JobMoves(j, "join")
    BY <1>2, <2>1, MovesToJoin DEF DisconnectRead
  <2>. QED  BY <1>2, <2>2 DEF DisconnectRead
<1>3. CASE ConnectJoined(j) \/ DisconnectJoined(j)
  <2>1. JobMoves(j, "run")
    BY <1>3, Moves DEF ConnectJoined, DisconnectJoined
  <2>. QED  BY <1>3, <2>1 DEF ConnectJoined, DisconnectJoined
<1>4. CASE StartVpn(j)
  <2>1. PICK x \in {"fail", "publish", "done"} : At(j, "connect", "run") /\ Goto(j, x)
    BY <1>4 DEF StartVpn
  <2>2. JobMoves(j, x)
    BY <2>1, Moves
  <2>. QED  BY <1>4, <2>2 DEF StartVpn
<1>5. CASE StopVpn(j)
  <2>1. kind \in {"wireguard", "openvpn", "xray"}
    BY Parts, ServiceAssumption DEF FieldsOK
  <2>2. PICK x \in {"wait", "publish"} : At(j, "disconnect", "run") /\ Goto(j, x)
    BY <1>5, <2>1 DEF StopVpn
  <2>3. JobMoves(j, x)
    BY <2>2, Moves
  <2>. QED  BY <1>5, <2>3 DEF StopVpn
<1>6. CASE ConnectPublish(j) \/ ConnectFail(j)
  <2>1. JobMoves(j, "done")
    BY <1>6, Moves DEF ConnectPublish, ConnectFail
  <2>. QED  BY <1>6, <2>1 DEF ConnectPublish, ConnectFail
<1>7. CASE DisconnectPublish(j)
  <2>1. JobMoves(j, "wait")
    BY <1>7, Moves DEF DisconnectPublish
  <2>. QED  BY <1>7, <2>1 DEF DisconnectPublish
<1>8. CASE DisconnectSeen(j) \/ DisconnectTimeout(j) \/ ReconnectVpn(j)
  <2>1. JobMoves(j, "done")
    BY <1>8, Moves DEF DisconnectSeen, DisconnectTimeout, ReconnectVpn
  <2>. QED  BY <1>8, <2>1 DEF DisconnectSeen, DisconnectTimeout, ReconnectVpn
<1>. QED  BY <1>1, <1>2, <1>3, <1>4, <1>5, <1>6, <1>7, <1>8 DEF JobStep

LEMMA TunnelsTyped ==
  ASSUME ServiceInv, NEW j \in JobIds, JobStep(j)
  PROVE  session' \in [JobIds -> Sessions] /\ current' \in [Protos -> 0 .. Len(jobs)]
<1>. USE DEF tunVars, Sessions
<1>1. /\ session \in [JobIds -> Sessions] /\ current \in [Protos -> 0 .. Len(jobs)]
      /\ Len(jobs) \in Nat
  BY Parts DEF JobsOK
<1>2. j \in 0 .. Len(jobs)
  BY JobStepMoves DEF JobMoves
<1>3. \A p : /\ SetCurrent(p, j) \in [Protos -> 0 .. Len(jobs)]
             /\ SetCurrent(p, 0) \in [Protos -> 0 .. Len(jobs)]
  BY <1>1, <1>2, SetCurrentTyped
<1>4. CASE UNCHANGED tunVars
  BY <1>1, <1>4
<1>5. CASE StartVpn(j)
  <2>1. current' \in {current, SetCurrent(vpnProto, 0), SetCurrent(vpnProto, j)}
    BY <1>5 DEF StartVpn
  <2>2. session' \in [JobIds -> Sessions]
    BY <1>1, <1>5 DEF StartVpn
  <2>. QED  BY <1>1, <1>3, <2>1, <2>2
<1>6. CASE ConnectPublish(j)
  BY <1>1, <1>3, <1>6 DEF ConnectPublish
<1>7. CASE StopVpn(j)
  <2>1. current' = SetCurrent(vpnProto, 0)
    BY <1>7 DEF StopVpn
  <2>2. kind \in {"wireguard", "openvpn", "xray"}
    BY Parts, ServiceAssumption DEF FieldsOK
  <2>3. session' \in [JobIds -> Sessions]
    BY <1>1, <1>7, <2>2 DEF StopVpn
  <2>. QED  BY <1>3, <2>1, <2>3
<1>8. CASE ReconnectVpn(j)
  BY <1>1, <1>8 DEF ReconnectVpn
<1>. QED
  BY <1>4, <1>5, <1>6, <1>7, <1>8
     DEF JobStep, ConnectRead, ConnectJoined, ConnectFail, DisconnectRead, DisconnectJoined,
         DisconnectPublish, DisconnectSeen, DisconnectTimeout

LEMMA FieldsJob ==
  ASSUME ServiceInv, NEW j \in JobIds, JobStep(j)
  PROVE  ServiceInv'
<1>. USE DEF bindVars, lifeVars, histVars
<1>1. PICK x \in Pcs : JobMoves(j, x)
  BY JobStepMoves
<1>2. /\ UNCHANGED <<main, collVars, bindVars, destroyWait, vpnProto, histVars>>
      /\ protocolState' \in {protocolState, "CONNECTED", "DISCONNECTED"}
      /\ life' \in {life, "crashed"} /\ stopTimer' \in {stopTimer, "armed"}
  BY DEF JobStep, ConnectRead, ConnectJoined, StartVpn, ConnectPublish, ConnectFail,
         DisconnectRead, DisconnectJoined, StopVpn, DisconnectPublish, DisconnectSeen,
         DisconnectTimeout, ReconnectVpn
<1>3. JobsOK'
  BY <1>1, <1>2, JobStepMoves, TunnelsTyped, JobsMoved
<1>4. MainOK'
  BY <1>1, <1>2, Parts DEF JobMoves, MainOK
<1>5. FieldsOK'
  BY <1>2, Parts DEF FieldsOK, ProtocolStates, collVars
<1>6. FlagsOK'
  BY <1>2, HistoryTyped, FlagsKept
<1>. QED  BY <1>3, <1>4, <1>5, <1>6, WholeNext

LEMMA FieldsClient ==
  ASSUME ServiceInv, NEW j \in JobIds, ClientStep(j)
  PROVE  ServiceInv'
<1>. USE DEF jobVars, tunVars, bindVars, lifeVars, histVars
<1>1. /\ UNCHANGED <<jobVars, current, main, collVars, bindVars, lifeVars, vpnProto>>
      /\ protocolState' \in {protocolState, "CONNECTED", "RECONNECTING", "DISCONNECTED"}
  BY DEF ClientStep, ClientConnected, ClientReconnecting, ClientError, ClientFailed, ClientStopped
<1>2. session' \in [JobIds -> Sessions]
  BY Parts DEF ClientStep, ClientConnected, ClientReconnecting, ClientError, ClientFailed,
     ClientStopped, Sessions, JobsOK
<1>3. JobsOK'
  BY <1>1, <1>2, Parts DEF JobsOK
<1>4. MainOK' /\ FieldsOK'
  BY <1>1, Parts DEF MainOK, FieldsOK, ProtocolStates, collVars
<1>5. FlagsOK'
  <2>1. crossed' = crossed /\ erred' \in {erred, TRUE}
    BY DEF ClientStep, ClientConnected, ClientReconnecting, ClientError, ClientFailed,
       ClientStopped
  <2>. QED  BY <1>1, <2>1, HistoryTyped, FlagsKept
<1>. QED  BY <1>3, <1>4, <1>5, WholeNext

-----------------------------------------------------------------------------
(* Theorems about every service *)

LEMMA FieldsInit ==
  ASSUME Init
  PROVE  ServiceInv
<1>1. JobsOK
  BY ServiceAssumption DEF Init, JobsOK, Sessions, JobIds
<1>2. MainOK /\ FieldsOK
  BY ServiceAssumption DEF Init, MainOK, FieldsOK, ProtocolStates
<1>3. FlagsOK
  BY DEF Init, FlagsOK
<1>. QED  BY <1>1, <1>2, <1>3, Whole

LEMMA FieldsStutter ==
  ASSUME ServiceInv, UNCHANGED vars
  PROVE  ServiceInv'
<1>. USE DEF vars, jobVars, tunVars, bindVars, lifeVars, histVars
<1>1. JobsOK'
  BY JobsKept
<1>2. MainOK' /\ FieldsOK'
  BY Parts DEF MainOK, FieldsOK, collVars
<1>3. FlagsOK'
  BY HistoryTyped, FlagsKept
<1>. QED  BY <1>1, <1>2, <1>3, WholeNext

\* ServiceInv is inductive: for every kind of protocol, any number of jobs and
\* all requests of clients.
THEOREM ServiceInvariant == Spec => []ServiceInv
<1>1. Init => ServiceInv
  BY FieldsInit
<1>2. ServiceInv /\ [Next]_vars => ServiceInv'
  BY FieldsRequest, FieldsMain, FieldsCollector, FieldsJob, FieldsClient, FieldsStutter
     DEF Next
<1>. QED  BY <1>1, <1>2, PTL DEF Spec

\* The fields have their types, and connectionJob and disconnectionJob refer to
\* coroutines that were really launched.
THEOREM TypeCorrect == Spec => []TypeOK
<1>1. ServiceInv => TypeOK
  BY DEF ServiceInv
<1>. QED  BY <1>1, ServiceInvariant, PTL

\* The network callback follows the state that launchProtocolStateHandler has
\* handled last, whatever requests, jobs and late values there are.
THEOREM ListenerFollows == Spec => []ListenerFollowsState
<1>1. ServiceInv => ListenerFollowsState
  BY DEF ServiceInv, ListenerFollowsState
<1>. QED  BY <1>1, ServiceInvariant, PTL

-----------------------------------------------------------------------------
(* Services without a crossing connect request or an error outlived *)

NoAttempt == \A j \in DOMAIN jobs : ~Connecting(j)
AttemptsOK == AttemptAwaited /\ TunnelReached /\ DownIsDown
Calm == NothingBefore /\ AttemptsOK

LEMMA CalmTyped ==
  ASSUME ServiceInv
  PROVE  /\ session \in [JobIds -> Sessions] /\ DOMAIN jobs = 1 .. Len(jobs)
         /\ current \in [Protos -> 0 .. Len(jobs)] /\ Len(jobs) \in Nat
         /\ 0 \notin JobIds /\ kind \in {"wireguard", "openvpn", "xray"}
         /\ \A j \in DOMAIN jobs : jobs[j].task \in Tasks
<1>1. session \in [JobIds -> Sessions] /\ current \in [Protos -> 0 .. Len(jobs)]
  BY Parts DEF JobsOK
<1>2. jobs \in Seq(JobRec)
  BY Parts DEF JobsOK
<1>3. DOMAIN jobs = 1 .. Len(jobs) /\ Len(jobs) \in Nat
  BY <1>2
<1>4. ASSUME NEW j \in DOMAIN jobs
      PROVE  jobs[j].task \in Tasks
  <2>1. jobs[j] \in JobRec
    BY <1>2
  <2>. QED  BY <2>1 DEF JobRec
<1>5. 0 \notin JobIds
  BY ServiceAssumption DEF JobIds
<1>6. kind \in {"wireguard", "openvpn", "xray"}
  BY Parts, ServiceAssumption DEF FieldsOK
<1>. QED  BY <1>1, <1>3, <1>4, <1>5, <1>6

\* The frame of a step of a coroutine.
LEMMA JobFrame ==
  ASSUME ServiceInv, NEW j, NEW x, JobMoves(j, x)
  PROVE  /\ DOMAIN jobs' = DOMAIN jobs /\ j \in DOMAIN jobs
         /\ \A i \in DOMAIN jobs : i # j => jobs'[i] = jobs[i]
         /\ jobs'[j].task = jobs[j].task /\ jobs'[j].pc = x
         /\ j \in JobIds /\ j # 0
BY Parts, ServiceAssumption DEF JobMoves, JobsOK, JobIds

\* A coroutine that has begun, and waits for no attempt, works while there is
\* none; no other handler is between its check and its launch then.
LEMMA NobodyConnects ==
  ASSUME AttemptAwaited, NEW j \in DOMAIN jobs, jobs[j].task # "connect",
         jobs[j].pc \notin {"read", "done"}, jobs[j].pc = "join" => Done(jobs[j].wait),
         0 \notin DOMAIN jobs
  PROVE  NoAttempt /\ main \notin {"connect", "launch", "refuse"}
<1>1. main \notin {"connect", "launch", "refuse"}
  BY DEF AttemptAwaited, Done
<1>2. ASSUME NEW c \in DOMAIN jobs, Connecting(c)
      PROVE  FALSE
  <2>1. c # j /\ c # 0
    BY <1>2 DEF Connecting
  <2>2. jobs[j].pc = "join" /\ jobs[j].wait = c
    BY <1>2, <2>1 DEF AttemptAwaited
  <2>. QED  BY <1>2, <2>1, <2>2 DEF Done, Connecting
<1>. QED  BY <1>1, <1>2 DEF NoAttempt

\* An attempt is the only one, and no handler is about to begin another.
LEMMA Sole ==
  ASSUME ServiceInv, Calm, NEW j \in DOMAIN jobs, Connecting(j)
  PROVE  /\ \A i \in DOMAIN jobs : Connecting(i) => i = j
         /\ main \notin {"connect", "launch", "refuse"} /\ vpnProto \in Protos
         /\ protocolState \notin {"UNKNOWN", "DISCONNECTED"}
<1>1. \A i \in DOMAIN jobs : Connecting(i) => i = j
  BY DEF Calm, AttemptsOK, AttemptAwaited, Connecting
<1>2. main \notin {"connect", "launch", "refuse"}
  BY CalmTyped DEF Calm, AttemptsOK, AttemptAwaited, Connecting, Done
<1>. QED  BY <1>1, <1>2 DEF Calm, AttemptsOK, DownIsDown, NothingBefore

\* Without an attempt and without a handler about to begin one.
LEMMA AwaitedIdle ==
  ASSUME NoAttempt', main' \notin {"connect", "launch", "refuse"}
  PROVE  AttemptAwaited'
BY DEF NoAttempt, AttemptAwaited

\* Handlers that neither launch a coroutine nor write the state.
LEMMA CalmKept ==
  ASSUME Calm, UNCHANGED <<protocolState, vpnProto, jobs, session, current, kind,
                           connectionJob>>,
         main' \in {"connect", "launch", "refuse", "reconnect"} => main' = main
  PROVE  AttemptsOK'
<1>1. AttemptAwaited'
  BY DEF Calm, AttemptsOK, AttemptAwaited, Live, Connecting, Done
<1>2. TunnelReached'
  BY DEF Calm, AttemptsOK, TunnelReached, Live, Connecting
<1>3. DownIsDown'
  BY DEF Calm, AttemptsOK, DownIsDown, Live, Connecting
<1>. QED  BY <1>1, <1>2, <1>3 DEF AttemptsOK

\* connectToVpn accepted when all has ended, with any configuration.
LEMMA CalmConnectCheck ==
  ASSUME Calm, ~crossed', ConnectInvalid \/ \E p \in Protos : ConnectCheck(p)
  PROVE  AttemptsOK'
<1>1. /\ UNCHANGED <<protocolState, jobs, session, current, kind, connectionJob>>
      /\ main' \in {"connect", "refuse"} /\ Settled
  BY DEF ConnectCheck, ConnectInvalid, jobVars, tunVars, bindVars
<1>2. Live = {} /\ Live' = {} /\ NoAttempt /\ \A j \in DOMAIN jobs : jobs[j].pc = "done" \/ j = 0
  BY <1>1 DEF Settled, Calm, AttemptsOK, DownIsDown, Live, NoAttempt, Done
<1>3. NoAttempt' /\ \A j \in DOMAIN jobs' : Done(j)'
  BY <1>1, <1>2 DEF NoAttempt, Connecting, Done
<1>4. AttemptAwaited'
  BY <1>1, <1>2, <1>3 DEF AttemptAwaited, NoAttempt
<1>5. TunnelReached'
  BY <1>1, <1>2, <1>3 DEF Calm, AttemptsOK, TunnelReached, NoAttempt
<1>6. DownIsDown'
  BY <1>2, <1>3 DEF DownIsDown, NoAttempt
<1>. QED  BY <1>4, <1>5, <1>6 DEF AttemptsOK

LEMMA CalmRequest ==
  ASSUME Calm, ~crossed', Request
  PROVE  AttemptsOK'
<1>. USE DEF jobVars, tunVars, bindVars, lifeVars
<1>1. CASE ConnectInvalid \/ \E p \in Protos : ConnectCheck(p)
  BY <1>1, CalmConnectCheck
<1>2. CASE DisconnectCheck
  <2>1. /\ UNCHANGED <<protocolState, vpnProto, jobs, session, current, kind, connectionJob>>
        /\ main' = "disconnect"
    BY <1>2 DEF DisconnectCheck
  <2>. QED  BY <2>1, CalmKept
<1>3. CASE ReconnectCheck
  <2>1. /\ UNCHANGED <<protocolState, vpnProto, jobs, session, current, kind, connectionJob>>
        /\ protocolState = "CONNECTED" /\ main' = "reconnect"
    BY <1>3 DEF ReconnectCheck
  <2>2. NoAttempt
    BY <2>1 DEF Calm, AttemptsOK, AttemptAwaited, NoAttempt
  <2>3. NoAttempt' /\ Live' = Live
    BY <2>1, <2>2 DEF NoAttempt, Connecting, Live
  <2>4. AttemptAwaited'
    BY <2>1, <2>3, AwaitedIdle
  <2>5. TunnelReached' /\ DownIsDown'
    BY <2>1, <2>3 DEF Calm, AttemptsOK, TunnelReached, DownIsDown, NoAttempt
  <2>. QED  BY <2>4, <2>5 DEF AttemptsOK
<1>4. CASE Bind \/ RegisterClient \/ UnregisterClient \/ Unbind
  <2>1. UNCHANGED <<protocolState, vpnProto, jobs, session, current, kind, connectionJob, main>>
    BY <1>4 DEF Bind, RegisterClient, UnregisterClient, Unbind
  <2>. QED  BY <2>1, CalmKept
<1>. QED  BY <1>1, <1>2, <1>3, <1>4 DEF Request

\* A new coroutine: what was there stays as it was.
LEMMA Kept ==
  ASSUME ServiceInv, NEW t \in Tasks, Launch(t)
  PROVE  /\ DOMAIN jobs = 1 .. Len(jobs) /\ DOMAIN jobs' = 1 .. Len(jobs) + 1
         /\ Len(jobs) \in Nat
         /\ \A i \in DOMAIN jobs' :
              \/ i \in DOMAIN jobs /\ jobs'[i] = jobs[i]
              \/ /\ i = Len(jobs) + 1 /\ jobs'[i].task = t
                 /\ jobs'[i].pc = IF t = "reconnect" THEN "run" ELSE "read"
<1>. DEFINE e == [task |-> t, wait |-> 0, pc |-> IF t = "reconnect" THEN "run" ELSE "read"]
<1>1. jobs' = Append(jobs, e) /\ jobs \in Seq(JobRec)
  BY Parts DEF Launch, JobsOK
<1>2. e.task = t /\ e.pc = IF t = "reconnect" THEN "run" ELSE "read"
  OBVIOUS
<1>3. e \in JobRec
  BY DEF JobRec, Tasks, Pcs
<1>. HIDE DEF e
<1>. QED  BY <1>1, <1>2, <1>3

LEMMA CalmMain ==
  ASSUME ServiceInv, Calm, MainStep \/ OnDestroy \/ KillProcess
  PROVE  AttemptsOK'
<1>. USE DEF jobVars, tunVars, bindVars, lifeVars
<1>1. CASE DestroyRead \/ Destroyed \/ OnDestroy \/ KillProcess
  <2>1. /\ UNCHANGED <<protocolState, vpnProto, jobs, session, current, kind, connectionJob>>
        /\ main' \in {"connect", "launch", "refuse", "reconnect"} => main' = main
    BY <1>1 DEF DestroyRead, Destroyed, OnDestroy, KillProcess
  <2>. QED  BY <2>1, CalmKept
<1>2. CASE ConnectState \/ ConnectDenied \/ ConnectRefused
  <2>1. /\ UNCHANGED <<vpnProto, jobs, session, current, kind, connectionJob>>
        /\ main \in {"connect", "launch", "refuse"} /\ main' \in {"launch", "idle"}
        /\ main' = "launch" => protocolState' = "CONNECTING"
    BY <1>2 DEF ConnectState, ConnectDenied, ConnectRefused
  <2>2. Live' = {} /\ \A j \in DOMAIN jobs : jobs[j].pc = "done"
    BY <2>1, CalmTyped DEF Calm, AttemptsOK, AttemptAwaited, Live, Done
  <2>3. NoAttempt' /\ \A j \in DOMAIN jobs' : Done(j)'
    BY <2>1, <2>2 DEF NoAttempt, Connecting, Done
  <2>4. AttemptAwaited'
    BY <2>1, <2>2, <2>3 DEF AttemptAwaited, NoAttempt
  <2>5. TunnelReached'
    BY <2>1, <2>2, <2>3 DEF Calm, AttemptsOK, TunnelReached, NoAttempt
  <2>6. DownIsDown'
    BY <2>2, <2>3 DEF DownIsDown, NoAttempt
  <2>. QED  BY <2>4, <2>5, <2>6 DEF AttemptsOK
<1>3. CASE ConnectLaunch
  <2>1. /\ UNCHANGED <<protocolState, vpnProto, session, current, kind>>
        /\ main = "launch" /\ main' = "idle"
        /\ connectionJob' = Len(jobs) + 1 /\ Launch("connect")
    BY <1>3 DEF ConnectLaunch
  <2>2. /\ protocolState' = "CONNECTING" /\ Live' = {}
        /\ \A j \in DOMAIN jobs : jobs[j].pc = "done"
    BY <2>1, CalmTyped DEF Calm, AttemptsOK, AttemptAwaited, Live, Done
  <2>3. \A i \in DOMAIN jobs' :
          \/ jobs'[i].pc = "done"
          \/ i = connectionJob' /\ jobs'[i].task = "connect" /\ jobs'[i].pc = "read"
    <3>1. "connect" \in Tasks
      BY DEF Tasks
    <3>. QED  BY <2>1, <2>2, <3>1, Kept
  <2>4. AttemptAwaited'
    BY <2>1, <2>2, <2>3 DEF AttemptAwaited, Connecting
  <2>5. TunnelReached'
    BY <2>1, <2>2, <2>3 DEF Calm, AttemptsOK, TunnelReached, Connecting
  <2>6. DownIsDown'
    BY <2>2 DEF DownIsDown
  <2>. QED  BY <2>4, <2>5, <2>6 DEF AttemptsOK
<1>4. CASE DisconnectLaunch
  <2>1. /\ UNCHANGED <<vpnProto, session, current, kind, connectionJob>>
        /\ main' \in {"idle", "destroyRead"} /\ protocolState' = "DISCONNECTING"
        /\ Launch("disconnect")
    BY <1>4 DEF DisconnectLaunch
  <2>2. Live' = Live
    BY <2>1 DEF Live
  <2>3. \A i \in DOMAIN jobs' :
          \/ i \in DOMAIN jobs /\ jobs'[i] = jobs[i]
          \/ jobs'[i].task = "disconnect" /\ jobs'[i].pc = "read"
    <3>1. "disconnect" \in Tasks
      BY DEF Tasks
    <3>. QED  BY <2>1, <3>1, Kept
  <2>4. AttemptAwaited'
    <3>. SUFFICES ASSUME NEW c \in DOMAIN jobs', Connecting(c)'
                  PROVE  /\ connectionJob = c /\ jobs'[c].pc # "wait"
                         /\ \A j \in DOMAIN jobs' \ {c} :
                              \/ jobs'[j].pc = "done"
                              \/ jobs'[j].task = "disconnect" /\ jobs'[j].pc = "read"
                              \/ /\ jobs'[j].task = "disconnect" /\ jobs'[j].pc = "join"
                                 /\ jobs'[j].wait = c
      BY <2>1 DEF AttemptAwaited
    <3>1. c \in DOMAIN jobs /\ jobs'[c] = jobs[c] /\ Connecting(c)
      BY <2>3 DEF Connecting
    <3>. QED  BY <2>3, <3>1 DEF Calm, AttemptsOK, AttemptAwaited
  <2>5. TunnelReached'
    <3>1. \A i \in DOMAIN jobs' :
            Connecting(i)' => i \in DOMAIN jobs /\ Connecting(i) /\ jobs'[i] = jobs[i]
      BY <2>3 DEF Connecting
    <3>2. \A i \in DOMAIN jobs' :
            jobs'[i].pc = "publish" => i \in DOMAIN jobs /\ jobs'[i] = jobs[i]
      BY <2>3
    <3>. QED  BY <2>1, <2>2, <3>1, <3>2 DEF Calm, AttemptsOK, TunnelReached
  <2>6. DownIsDown'
    BY <2>1 DEF DownIsDown
  <2>. QED  BY <2>4, <2>5, <2>6 DEF AttemptsOK
<1>5. CASE ReconnectLaunch
  <2>1. /\ UNCHANGED <<vpnProto, session, current, kind>> /\ main = "reconnect"
        /\ main' = "idle" /\ protocolState' = "RECONNECTING" /\ Launch("reconnect")
    BY <1>5 DEF ReconnectLaunch
  <2>2. Live' = Live /\ NoAttempt
    BY <2>1 DEF Live, NoAttempt, Calm, AttemptsOK, AttemptAwaited
  <2>3. \A i \in DOMAIN jobs' :
          \/ i \in DOMAIN jobs /\ jobs'[i] = jobs[i]
          \/ jobs'[i].task = "reconnect" /\ jobs'[i].pc = "run"
    <3>1. "reconnect" \in Tasks
      BY DEF Tasks
    <3>. QED  BY <2>1, <3>1, Kept
  <2>4. NoAttempt'
    BY <2>2, <2>3 DEF NoAttempt, Connecting
  <2>5. AttemptAwaited'
    BY <2>1, <2>4, AwaitedIdle
  <2>6. TunnelReached'
    BY <2>1, <2>2, <2>3, <2>4 DEF Calm, AttemptsOK, TunnelReached, NoAttempt
  <2>7. DownIsDown'
    BY <2>1 DEF DownIsDown
  <2>. QED  BY <2>5, <2>6, <2>7 DEF AttemptsOK
<1>. QED  BY <1>1, <1>2, <1>3, <1>4, <1>5 DEF MainStep

-----------------------------------------------------------------------------
(* Coroutines of connect() *)

\* An attempt that goes on or ends: it stays the only one, the others wait on.
LEMMA AttemptGoes ==
  ASSUME ServiceInv, Calm, NEW j, NEW x, JobMoves(j, x), jobs[j].task = "connect",
         jobs[j].pc # "done", x # "wait", UNCHANGED <<main, connectionJob>>,
         x # "done" => UNCHANGED protocolState
  PROVE  AttemptAwaited'
<1>1. /\ DOMAIN jobs' = DOMAIN jobs /\ j \in DOMAIN jobs
      /\ \A i \in DOMAIN jobs : i # j => jobs'[i] = jobs[i]
      /\ jobs'[j].task = "connect" /\ jobs'[j].pc = x
  BY JobFrame
<1>2. Connecting(j)
  BY DEF Connecting
<1>3. /\ \A i \in DOMAIN jobs : Connecting(i) => i = j
      /\ main \notin {"connect", "launch", "refuse"}
  BY <1>1, <1>2, Sole
<1>4. \A i \in DOMAIN jobs' : Connecting(i)' => i = j /\ x # "done"
  BY <1>1, <1>3 DEF Connecting
<1>5. CASE x = "done"
  BY <1>3, <1>4, <1>5, AwaitedIdle DEF NoAttempt
<1>6. CASE x # "done"
  BY <1>1, <1>2, <1>3, <1>4, <1>6 DEF Calm, AttemptsOK, AttemptAwaited
<1>. QED  BY <1>5, <1>6

LEMMA CalmConnectWaits ==
  ASSUME ServiceInv, Calm, NEW j \in JobIds, ConnectRead(j) \/ ConnectJoined(j)
  PROVE  AttemptsOK'
<1>1. /\ UNCHANGED <<protocolState, vpnProto, session, current, kind, main, connectionJob>>
      /\ jobs[j].task = "connect" /\ jobs[j].pc \in {"read", "join"}
  BY DEF ConnectRead, ConnectJoined, At, tunVars, bindVars
<1>2. PICK x \in {"join", "run"} : JobMoves(j, x)
  <2>1. CASE ConnectRead(j)
    <3>1. disconnectionJob \in 0 .. Len(jobs)
      BY Parts DEF JobsOK
    <3>. QED  BY <2>1, <3>1, MovesToJoin DEF ConnectRead
  <2>2. CASE ConnectJoined(j)
    BY <2>2, Moves DEF ConnectJoined, Pcs
  <2>. QED  BY <2>1, <2>2
<1>3. /\ DOMAIN jobs' = DOMAIN jobs /\ j \in DOMAIN jobs
      /\ \A i \in DOMAIN jobs : i # j => jobs'[i] = jobs[i]
      /\ jobs'[j].task = "connect" /\ jobs'[j].pc = x
  BY <1>1, <1>2, JobFrame
<1>4. Connecting(j) /\ Live = {} /\ Live' = {}
  BY <1>1, <1>3 DEF Connecting, Calm, AttemptsOK, TunnelReached, Live
<1>5. AttemptAwaited'
  BY <1>1, <1>2, AttemptGoes
<1>6. TunnelReached'
  BY <1>1, <1>2, <1>3, <1>4 DEF Calm, AttemptsOK, TunnelReached
<1>7. DownIsDown'
  BY <1>1, <1>3, <1>4, Sole DEF DownIsDown
<1>. QED  BY <1>5, <1>6, <1>7 DEF AttemptsOK

LEMMA CalmStartVpn ==
  ASSUME ServiceInv, Calm, NEW j \in JobIds, StartVpn(j)
  PROVE  AttemptsOK'
<1>1. /\ UNCHANGED <<protocolState, vpnProto, main, kind, connectionJob>>
      /\ jobs[j].task = "connect" /\ jobs[j].pc = "run"
  BY DEF StartVpn, At, bindVars
<1>2. PICK x \in {"fail", "publish", "done"} :
        /\ Goto(j, x)
        /\ \/ x = "fail" /\ session' = session /\ current' \in {current, SetCurrent(vpnProto, 0)}
           \/ kind # "openvpn" /\ UNCHANGED <<session, current>>
           \/ /\ kind # "openvpn" /\ x = "publish" /\ session' = [session EXCEPT ![j] = "up"]
              /\ kind = "wireguard" => current' = SetCurrent(vpnProto, j)
           \/ /\ kind = "openvpn" /\ x = "done" /\ session' = [session EXCEPT ![j] = "starting"]
              /\ current' = SetCurrent(vpnProto, j)
  BY DEF StartVpn, tunVars
<1>3. JobMoves(j, x)
  BY <1>2, Moves DEF StartVpn, Pcs
<1>4. /\ DOMAIN jobs' = DOMAIN jobs /\ j \in DOMAIN jobs
      /\ \A i \in DOMAIN jobs : i # j => jobs'[i] = jobs[i]
      /\ jobs'[j].task = "connect" /\ jobs'[j].pc = x /\ j # 0
  BY <1>1, <1>3, JobFrame
<1>5. Connecting(j) /\ Live = {}
  BY <1>1, <1>4 DEF Connecting, Calm, AttemptsOK, TunnelReached
<1>6. /\ \A i \in DOMAIN jobs : Connecting(i) => i = j
      /\ vpnProto \in Protos /\ protocolState \notin {"UNKNOWN", "DISCONNECTED"}
  BY <1>4, <1>5, Sole
<1>7. Live' \subseteq {j} /\ (x = "fail" => Live' = {})
  BY <1>2, <1>5, CalmTyped DEF Live
<1>8. TunnelReached'
  <2>1. \A i \in DOMAIN jobs' : Connecting(i)' => i = j
    BY <1>4, <1>6 DEF Connecting
  <2>2. kind' = "openvpn" => \A p \in Protos : current'[p] # 0 => session'[current'[p]] # "none"
    <3>. SUFFICES ASSUME kind = "openvpn", NEW p \in Protos, current'[p] # 0
                  PROVE  session'[current'[p]] # "none"
      BY <1>1
    <3>1. current[p] # 0 => session[current[p]] # "none"
      BY DEF Calm, AttemptsOK, TunnelReached
    <3>2. CASE x = "fail" /\ session' = session /\ current' \in {current, SetCurrent(vpnProto, 0)}
      BY <3>1, <3>2 DEF SetCurrent
    <3>3. CASE /\ session' = [session EXCEPT ![j] = "starting"]
               /\ current' = SetCurrent(vpnProto, j)
      <4>1. current'[p] \in {current[p], j}
        BY <3>3 DEF SetCurrent
      <4>2. session'[j] = "starting"
        BY <3>3, CalmTyped
      <4>3. CASE current'[p] = j
        BY <4>2, <4>3
      <4>4. CASE current'[p] # j
        BY <3>1, <3>3, <4>1, <4>4, CalmTyped
      <4>. QED  BY <4>3, <4>4
    <3>. QED  BY <1>2, <3>2, <3>3
  <2>3. kind' = "openvpn" => \A i \in DOMAIN jobs' : jobs'[i].pc # "publish"
    BY <1>1, <1>2, <1>4 DEF Calm, AttemptsOK, TunnelReached
  <2>4. \A i \in DOMAIN jobs' :
          Connecting(i)' => Live' \subseteq (IF jobs'[i].pc = "publish" THEN {i} ELSE {})
    BY <1>2, <1>4, <1>7, <2>1 DEF Connecting
  <2>5. kind' # "openvpn" => \A i \in Live' : session'[i] = "up"
    BY <1>1, <1>2, <1>5, <1>7, CalmTyped DEF Live
  <2>6. kind' = "wireguard" => \A i \in Live' : current'[vpnProto] = i
    <3>1. CASE session' = session
      BY <1>5, <3>1 DEF Live
    <3>2. CASE current' = SetCurrent(vpnProto, j)
      <4>1. vpnProto \in SameInstance(vpnProto)
        BY <1>6 DEF SameInstance
      <4>2. current'[vpnProto] = j
        BY <1>6, <3>2, <4>1 DEF SetCurrent
      <4>. QED  BY <1>7, <4>2
    <3>. QED  BY <1>1, <1>2, <3>1, <3>2
  <2>7. \A i \in DOMAIN jobs' : jobs'[i].task = "disconnect" => jobs'[i].pc # "publish"
    BY <1>4, <1>5 DEF Calm, AttemptsOK, AttemptAwaited
  <2>. QED  BY <1>1, <1>6, <1>7, <2>2, <2>3, <2>4, <2>5, <2>6, <2>7 DEF TunnelReached
<1>9. AttemptAwaited'
  BY <1>1, <1>2, <1>3, AttemptGoes
<1>10. DownIsDown'
  BY <1>1, <1>6 DEF DownIsDown
<1>. QED  BY <1>8, <1>9, <1>10 DEF AttemptsOK

LEMMA CalmConnectEnds ==
  ASSUME ServiceInv, Calm, NEW j \in JobIds, ConnectPublish(j) \/ ConnectFail(j)
  PROVE  AttemptsOK'
<1>1. /\ UNCHANGED <<vpnProto, main, kind, session, connectionJob>>
      /\ jobs[j].task = "connect" /\ jobs[j].pc \in {"publish", "fail"}
      /\ protocolState' = IF jobs[j].pc = "publish" THEN "CONNECTED" ELSE "DISCONNECTED"
      /\ kind # "xray" => current' = current
  BY DEF ConnectPublish, ConnectFail, At, bindVars, tunVars
<1>2. JobMoves(j, "done")
  BY Moves DEF ConnectPublish, ConnectFail, Pcs
<1>3. /\ DOMAIN jobs' = DOMAIN jobs /\ j \in DOMAIN jobs
      /\ \A i \in DOMAIN jobs : i # j => jobs'[i] = jobs[i]
      /\ jobs'[j].task = "connect" /\ jobs'[j].pc = "done"
  BY <1>1, <1>2, JobFrame
<1>4. Connecting(j) /\ (jobs[j].pc = "fail" => Live = {}) /\ Live' = Live
  BY <1>1, <1>3 DEF Connecting, Calm, AttemptsOK, TunnelReached, Live
<1>5. NoAttempt'
  BY <1>3, <1>4, Sole DEF NoAttempt, Connecting
<1>6. AttemptAwaited'
  BY <1>1, <1>2, AttemptGoes
<1>7. TunnelReached'
  <2>1. \A i \in DOMAIN jobs' :
          jobs'[i].pc = "publish" => jobs[i].pc = "publish" /\ jobs'[i] = jobs[i]
    BY <1>3
  <2>. QED  BY <1>1, <1>3, <1>4, <1>5, <2>1 DEF Calm, AttemptsOK, TunnelReached, NoAttempt
<1>8. DownIsDown'
  BY <1>1, <1>4, <1>5 DEF DownIsDown, NoAttempt
<1>. QED  BY <1>6, <1>7, <1>8 DEF AttemptsOK

-----------------------------------------------------------------------------
(* Coroutines of disconnect() and reconnect() *)

\* The field connectionJob still names the attempt when disconnect() reads it.
LEMMA CalmDisconnectRead ==
  ASSUME ServiceInv, Calm, NEW j \in JobIds, DisconnectRead(j)
  PROVE  AttemptsOK'
<1>1. /\ UNCHANGED <<protocolState, vpnProto, session, current, kind, main, connectionJob>>
      /\ jobs[j].task = "disconnect" /\ jobs[j].pc = "read"
      /\ jobs' = [jobs EXCEPT ![j].pc = "join", ![j].wait = connectionJob]
  BY DEF DisconnectRead, At, tunVars, bindVars
<1>2. connectionJob \in 0 .. Len(jobs) /\ connectionJob \in Nat
  BY Parts DEF JobsOK
<1>3. JobMoves(j, "join")
  BY <1>2, MovesToJoin DEF DisconnectRead
<1>4. /\ DOMAIN jobs' = DOMAIN jobs /\ j \in DOMAIN jobs
      /\ \A i \in DOMAIN jobs : i # j => jobs'[i] = jobs[i]
      /\ jobs'[j].task = "disconnect" /\ jobs'[j].pc = "join"
  BY <1>1, <1>3, JobFrame
<1>5. jobs'[j].wait = connectionJob
  BY <1>1, <1>2, <1>4, CalmTyped, Parts, Waiting
<1>6. \A i \in DOMAIN jobs' : Connecting(i)' => Connecting(i) /\ i # j /\ jobs'[i] = jobs[i]
  BY <1>4 DEF Connecting
<1>7. main \notin {"connect", "launch", "refuse"}
  BY <1>1, <1>4, CalmTyped DEF Calm, AttemptsOK, AttemptAwaited, Done
<1>8. AttemptAwaited'
  <2>. SUFFICES ASSUME NEW c \in DOMAIN jobs', Connecting(c)'
                PROVE  /\ connectionJob = c /\ main # "reconnect" /\ jobs'[c].pc # "wait"
                       /\ protocolState \in {"CONNECTING", "DISCONNECTING"}
                       /\ \A i \in DOMAIN jobs' \ {c} :
                            \/ jobs'[i].pc = "done"
                            \/ jobs'[i].task = "disconnect" /\ jobs'[i].pc = "read"
                            \/ /\ jobs'[i].task = "disconnect" /\ jobs'[i].pc = "join"
                               /\ jobs'[i].wait = c
    BY <1>1, <1>7 DEF AttemptAwaited
  <2>1. c \in DOMAIN jobs /\ Connecting(c) /\ jobs'[c] = jobs[c]
    BY <1>4, <1>6
  <2>. QED  BY <1>4, <1>5, <2>1 DEF Calm, AttemptsOK, AttemptAwaited
<1>9. Live' = Live
  BY <1>1 DEF Live
<1>10. TunnelReached'
  BY <1>1, <1>4, <1>6, <1>9 DEF Calm, AttemptsOK, TunnelReached
<1>11. DownIsDown'
  BY <1>1, <1>4, <1>6, <1>9 DEF Calm, AttemptsOK, DownIsDown
<1>. QED  BY <1>8, <1>10, <1>11 DEF AttemptsOK

\* From here on such a coroutine works while nobody connects.
LEMMA NobodyConnectsAfter ==
  ASSUME ServiceInv, Calm, NEW j \in JobIds, NEW x, JobMoves(j, x), UNCHANGED main,
         jobs[j].task # "connect", jobs[j].pc \notin {"read", "done"},
         jobs[j].pc = "join" => Done(jobs[j].wait)
  PROVE  NoAttempt /\ NoAttempt' /\ AttemptAwaited'
<1>1. /\ DOMAIN jobs' = DOMAIN jobs /\ j \in DOMAIN jobs
      /\ \A i \in DOMAIN jobs : i # j => jobs'[i] = jobs[i]
      /\ jobs'[j].task = jobs[j].task
  BY JobFrame
<1>2. NoAttempt /\ main \notin {"connect", "launch", "refuse"}
  BY <1>1, CalmTyped, NobodyConnects DEF Calm, AttemptsOK
<1>3. NoAttempt'
  BY <1>1, <1>2 DEF NoAttempt, Connecting
<1>. QED  BY <1>2, <1>3, AwaitedIdle

\* Steps that only move the coroutine.
LEMMA CalmDisconnectWaits ==
  ASSUME ServiceInv, Calm, NEW j \in JobIds,
         DisconnectJoined(j) \/ DisconnectSeen(j) \/ DisconnectTimeout(j)
  PROVE  AttemptsOK'
<1>1. /\ UNCHANGED <<protocolState, vpnProto, session, current, kind, main>>
      /\ jobs[j].task = "disconnect" /\ jobs[j].pc \in {"join", "wait"}
      /\ jobs[j].pc = "join" => Done(jobs[j].wait)
  BY DEF DisconnectJoined, DisconnectSeen, DisconnectTimeout, At, tunVars, bindVars
<1>2. PICK x \in {"run", "done"} : JobMoves(j, x)
  BY Moves DEF DisconnectJoined, DisconnectSeen, DisconnectTimeout, Pcs
<1>3. NoAttempt' /\ AttemptAwaited'
  BY <1>1, <1>2, NobodyConnectsAfter
<1>4. /\ DOMAIN jobs' = DOMAIN jobs /\ j \in DOMAIN jobs
      /\ \A i \in DOMAIN jobs : i # j => jobs'[i] = jobs[i]
      /\ jobs'[j].pc = x
  BY <1>2, JobFrame
<1>5. Live' = Live
  BY <1>1 DEF Live
<1>6. TunnelReached'
  BY <1>1, <1>3, <1>4, <1>5 DEF Calm, AttemptsOK, TunnelReached, NoAttempt
<1>7. DownIsDown'
  BY <1>1, <1>3, <1>5 DEF Calm, AttemptsOK, DownIsDown, NoAttempt
<1>. QED  BY <1>3, <1>6, <1>7 DEF AttemptsOK

\* stopVpn ends the tunnel that the instance holds; nothing comes up by it.
LEMMA Stopping ==
  ASSUME ServiceInv, Calm, NEW j \in JobIds, StopVpn(j)
  PROVE  /\ Live' \subseteq Live
         /\ kind = "openvpn" => \A i \in JobIds : session'[i] = "none" => session[i] = "none"
         /\ kind # "openvpn" => Live' = {}
<1>1. /\ session \in [JobIds -> Sessions] /\ 0 \notin JobIds
      /\ current \in [Protos -> 0 .. Len(jobs)]
      /\ kind \in {"wireguard", "openvpn", "xray"}
  BY CalmTyped
<1>2. j \in DOMAIN jobs
  BY Parts, ServiceAssumption DEF StopVpn, At, JobsOK, JobIds
<1>3. vpnProto \in Protos
  BY <1>2 DEF Calm, NothingBefore
<1>. DEFINE c == current[vpnProto]
<1>4. CASE kind = "wireguard"
  <2>1. session' = IF c = 0 THEN session ELSE [session EXCEPT ![c] = "over"]
    BY <1>4 DEF StopVpn
  <2>2. Live' = Live \ {c}
    BY <1>1, <2>1 DEF Live
  <2>3. Live \subseteq {c}
    BY <1>4 DEF Calm, AttemptsOK, TunnelReached
  <2>. HIDE DEF c
  <2>. QED  BY <1>4, <2>2, <2>3
<1>5. CASE kind = "xray"
  <2>1. session' = [k \in JobIds |-> IF session[k] = "up" THEN "over" ELSE session[k]]
    BY <1>5 DEF StopVpn
  <2>2. \A i \in Live : session[i] = "up"
    BY <1>5 DEF Calm, AttemptsOK, TunnelReached
  <2>. QED  BY <1>1, <1>5, <2>1, <2>2 DEF Live
<1>6. CASE kind = "openvpn"
  <2>1. session' = IF c # 0 /\ session[c] # "over"
                   THEN [session EXCEPT ![c] = "stopping"] ELSE session
    BY <1>6 DEF StopVpn
  <2>2. c # 0 => session[c] # "none"
    BY <1>3, <1>6 DEF Calm, AttemptsOK, TunnelReached
  <2>. HIDE DEF c
  <2>. QED  BY <1>1, <1>6, <2>1, <2>2 DEF Live
<1>. QED  BY <1>1, <1>4, <1>5, <1>6

LEMMA CalmStopVpn ==
  ASSUME ServiceInv, Calm, NEW j \in JobIds, StopVpn(j)
  PROVE  AttemptsOK'
<1>1. /\ UNCHANGED <<protocolState, vpnProto, kind, main>>
      /\ jobs[j].task = "disconnect" /\ jobs[j].pc = "run"
      /\ current' = SetCurrent(vpnProto, 0)
  BY DEF StopVpn, At, bindVars
<1>2. PICK x \in {"wait", "publish"} : Goto(j, x) /\ (kind = "openvpn" => x = "wait")
  BY CalmTyped DEF StopVpn
<1>3. JobMoves(j, x)
  BY <1>2, Moves DEF StopVpn, Pcs
<1>4. NoAttempt' /\ AttemptAwaited'
  BY <1>1, <1>3, NobodyConnectsAfter
<1>5. /\ DOMAIN jobs' = DOMAIN jobs /\ j \in DOMAIN jobs
      /\ \A i \in DOMAIN jobs : i # j => jobs'[i] = jobs[i]
      /\ jobs'[j].pc = x
  BY <1>3, JobFrame
<1>6. /\ Live' \subseteq Live
      /\ kind = "openvpn" => \A i \in JobIds : session'[i] = "none" => session[i] = "none"
      /\ kind # "openvpn" => Live' = {}
  BY Stopping
<1>7. kind = "openvpn" => \A p \in Protos : current'[p] # 0 => session'[current'[p]] # "none"
  <2>. SUFFICES ASSUME kind = "openvpn", NEW p \in Protos, current'[p] # 0
                PROVE  session'[current'[p]] # "none"
    OBVIOUS
  <2>1. current'[p] = current[p] /\ session[current[p]] # "none"
    BY <1>1 DEF SetCurrent, Calm, AttemptsOK, TunnelReached
  <2>2. current[p] \in JobIds
    BY <2>1, Parts, CalmTyped, ServiceAssumption DEF JobIds, JobsOK
  <2>. QED  BY <1>6, <2>1, <2>2
<1>8. TunnelReached'
  <2>1. kind = "openvpn" => \A i \in DOMAIN jobs' : jobs'[i].pc # "publish"
    BY <1>2, <1>5 DEF Calm, AttemptsOK, TunnelReached
  <2>2. \A i, k \in Live' : i = k
    BY <1>6 DEF Calm, AttemptsOK, TunnelReached
  <2>. QED  BY <1>1, <1>4, <1>6, <1>7, <2>1, <2>2 DEF TunnelReached, NoAttempt
<1>9. DownIsDown'
  BY <1>1, <1>4, <1>6 DEF Calm, AttemptsOK, DownIsDown, NoAttempt
<1>. QED  BY <1>4, <1>8, <1>9 DEF AttemptsOK

LEMMA CalmDisconnectPublish ==
  ASSUME ServiceInv, Calm, NEW j \in JobIds, DisconnectPublish(j)
  PROVE  AttemptsOK'
<1>1. /\ UNCHANGED <<vpnProto, kind, main, session, current>>
      /\ jobs[j].task = "disconnect" /\ jobs[j].pc = "publish"
  BY DEF DisconnectPublish, At, bindVars, tunVars
<1>2. JobMoves(j, "wait")
  BY Moves DEF DisconnectPublish, Pcs
<1>3. NoAttempt' /\ AttemptAwaited'
  BY <1>1, <1>2, NobodyConnectsAfter
<1>4. /\ DOMAIN jobs' = DOMAIN jobs /\ j \in DOMAIN jobs
      /\ \A i \in DOMAIN jobs : i # j => jobs'[i] = jobs[i]
      /\ jobs'[j].pc = "wait"
  BY <1>2, JobFrame
<1>5. Live = {} /\ Live' = {}
  BY <1>1, <1>4 DEF Calm, AttemptsOK, TunnelReached, Live
<1>6. TunnelReached'
  BY <1>1, <1>3, <1>4, <1>5 DEF Calm, AttemptsOK, TunnelReached, NoAttempt
<1>7. DownIsDown'
  BY <1>3, <1>5 DEF DownIsDown, NoAttempt
<1>. QED  BY <1>3, <1>6, <1>7 DEF AttemptsOK

LEMMA CalmReconnectVpn ==
  ASSUME ServiceInv, Calm, NEW j \in JobIds, ReconnectVpn(j)
  PROVE  AttemptsOK'
<1>1. /\ UNCHANGED <<vpnProto, kind, main, current>>
      /\ protocolState' \in {protocolState, "CONNECTED"}
      /\ jobs[j].task = "reconnect" /\ jobs[j].pc = "run"
      /\ session' = session \/ /\ kind = "openvpn"
                               /\ session' = [session EXCEPT ![current[vpnProto]] = "starting"]
                               /\ session[current[vpnProto]] = "up"
  BY DEF ReconnectVpn, At, bindVars, tunVars
<1>2. JobMoves(j, "done")
  BY Moves DEF ReconnectVpn, Pcs
<1>3. NoAttempt' /\ AttemptAwaited'
  BY <1>1, <1>2, NobodyConnectsAfter
<1>4. /\ DOMAIN jobs' = DOMAIN jobs /\ j \in DOMAIN jobs
      /\ \A i \in DOMAIN jobs : i # j => jobs'[i] = jobs[i]
      /\ jobs'[j].pc = "done"
  BY <1>2, JobFrame
<1>5. /\ Live' = Live /\ (kind # "openvpn" => session' = session)
      /\ \A i \in JobIds : session'[i] = "none" => session[i] = "none"
  BY <1>1, CalmTyped DEF Live
<1>6. TunnelReached'
  <2>1. kind = "openvpn" => \A p \in Protos : current'[p] # 0 => session'[current'[p]] # "none"
    <3>. SUFFICES ASSUME kind = "openvpn", NEW p \in Protos, current[p] # 0
                  PROVE  session'[current[p]] # "none"
      BY <1>1
    <3>1. session[current[p]] # "none"
      BY DEF Calm, AttemptsOK, TunnelReached
    <3>2. current[p] \in JobIds
      BY Parts, CalmTyped, ServiceAssumption DEF JobIds, JobsOK
    <3>. QED  BY <1>5, <3>1, <3>2
  <2>. QED  BY <1>1, <1>3, <1>4, <1>5, <2>1 DEF Calm, AttemptsOK, TunnelReached, NoAttempt
<1>7. DownIsDown'
  BY <1>1, <1>3, <1>5 DEF Calm, AttemptsOK, DownIsDown, NoAttempt
<1>. QED  BY <1>3, <1>6, <1>7 DEF AttemptsOK

LEMMA CalmJob ==
  ASSUME ServiceInv, Calm, NEW j \in JobIds, JobStep(j)
  PROVE  AttemptsOK'
BY CalmConnectWaits, CalmStartVpn, CalmConnectEnds, CalmDisconnectRead, CalmDisconnectWaits,
   CalmStopVpn, CalmDisconnectPublish, CalmReconnectVpn DEF JobStep

-----------------------------------------------------------------------------
(* OpenVPN clients, and the whole *)

\* A client that reports something is the only thing that lives.
LEMMA CalmClient ==
  ASSUME ServiceInv, Calm, NEW j \in JobIds, ClientStep(j), ~erred'
  PROVE  AttemptsOK'
<1>1. /\ UNCHANGED <<vpnProto, jobs, current, main, kind>> /\ kind = "openvpn"
      /\ session[j] \in {"starting", "up", "stopping", "stopped"}
      /\ \E v \in {"starting", "up", "stopped", "over"} :
           /\ session' = [session EXCEPT ![j] = v]
           /\ v # "over" => protocolState' \in {protocolState, "CONNECTED", "RECONNECTING"}
  BY DEF ClientStep, ClientConnected, ClientReconnecting, ClientError, ClientFailed,
         ClientStopped, Client, jobVars, tunVars, bindVars
<1>2. j \in Live
  BY <1>1 DEF Live
<1>3. \A i \in Live : i = j
  BY <1>2 DEF Calm, AttemptsOK, TunnelReached
<1>4. NoAttempt /\ main \notin {"connect", "launch", "refuse"}
  BY <1>1, <1>2 DEF NoAttempt, Calm, AttemptsOK, AttemptAwaited, TunnelReached
<1>5. NoAttempt'
  BY <1>1, <1>4 DEF NoAttempt, Connecting
<1>6. AttemptAwaited'
  BY <1>1, <1>4, <1>5, AwaitedIdle
<1>7. /\ Live' \subseteq {j} /\ (session'[j] = "over" => Live' = {})
      /\ \A i \in JobIds : session'[i] = "none" => session[i] = "none"
  BY <1>1, <1>3, CalmTyped DEF Live
<1>8. TunnelReached'
  <2>1. \A p \in Protos : current'[p] # 0 => session'[current'[p]] # "none"
    <3>. SUFFICES ASSUME NEW p \in Protos, current[p] # 0
                  PROVE  session'[current[p]] # "none"
      BY <1>1
    <3>1. session[current[p]] # "none"
      BY <1>1 DEF Calm, AttemptsOK, TunnelReached
    <3>2. current[p] \in JobIds
      BY Parts, CalmTyped, ServiceAssumption DEF JobIds, JobsOK
    <3>. QED  BY <1>7, <3>1, <3>2
  <2>2. \A i \in DOMAIN jobs' : jobs'[i].pc # "publish"
    BY <1>1 DEF Calm, AttemptsOK, TunnelReached
  <2>. QED  BY <1>1, <1>5, <1>7, <2>1, <2>2 DEF TunnelReached, NoAttempt
<1>9. DownIsDown'
  <2>1. protocolState \notin {"UNKNOWN", "DISCONNECTED"}
    BY <1>2 DEF Calm, AttemptsOK, DownIsDown
  <2>. QED  BY <1>1, <1>5, <1>7, <2>1, CalmTyped DEF DownIsDown, NoAttempt
<1>. QED  BY <1>6, <1>8, <1>9 DEF AttemptsOK

LEMMA CalmCollector ==
  ASSUME Calm, Collector \/ UNCHANGED vars
  PROVE  AttemptsOK'
<1>1. UNCHANGED <<protocolState, vpnProto, jobs, session, current, kind, connectionJob, main>>
  BY DEF Collector, CollectTake, CollectAct, CollectBindFails, vars, jobVars, tunVars, bindVars
<1>. QED  BY <1>1, CalmKept

LEMMA NothingYet ==
  ASSUME ServiceInv, NothingBefore, [Next]_vars
  PROVE  NothingBefore'
<1>. SUFFICES ASSUME vpnProto' \notin Protos PROVE NothingBefore'
  BY DEF NothingBefore
<1>. USE DEF jobVars, tunVars, bindVars, lifeVars
<1>1. CASE \E p \in Protos : ConnectCheck(p)
  BY <1>1 DEF ConnectCheck
<1>2. CASE ConnectInvalid \/ DisconnectCheck \/ ReconnectCheck \/ Bind \/ RegisterClient
           \/ UnregisterClient \/ Unbind
  <2>1. vpnProto' = vpnProto /\ UNCHANGED <<jobs, session, protocolState>>
    BY <1>2 DEF ConnectInvalid, DisconnectCheck, ReconnectCheck, Bind, RegisterClient,
       UnregisterClient, Unbind
  <2>2. protocolState \in {"UNKNOWN", "DISCONNECTED"}
    BY <2>1 DEF NothingBefore
  <2>3. main' \in {main, "refuse"}
    BY <1>2, <2>2 DEF ConnectInvalid, DisconnectCheck, ReconnectCheck, Bind, RegisterClient,
       UnregisterClient, Unbind, CanDisconnect
  <2>. QED  BY <2>1, <2>2, <2>3 DEF NothingBefore, Live
<1>3. CASE MainStep \/ OnDestroy \/ KillProcess
  <2>1. vpnProto' = vpnProto /\ UNCHANGED session
    BY <1>3 DEF MainStep, ConnectState, ConnectLaunch, ConnectDenied, ConnectRefused,
       DisconnectLaunch, ReconnectLaunch, DestroyRead, Destroyed, OnDestroy, KillProcess
  <2>2. /\ main \in {"idle", "refuse", "destroyRead", "destroyJoin"}
        /\ protocolState \in {"UNKNOWN", "DISCONNECTED"}
    BY <2>1 DEF NothingBefore
  <2>3. ConnectRefused \/ DestroyRead \/ Destroyed \/ OnDestroy \/ KillProcess
    BY <1>3, <2>2 DEF MainStep, ConnectState, ConnectLaunch, ConnectDenied, DisconnectLaunch,
       ReconnectLaunch
  <2>4. /\ UNCHANGED jobs /\ protocolState' \in {protocolState, "DISCONNECTED"}
        /\ main' \in {main, "idle", "destroyRead", "destroyJoin"}
    BY <2>2, <2>3 DEF ConnectRefused, DestroyRead, Destroyed, OnDestroy, KillProcess,
       CanDisconnect
  <2>. QED  BY <2>1, <2>2, <2>4 DEF NothingBefore, Live
<1>4. CASE Collector \/ UNCHANGED vars
  <2>1. UNCHANGED <<protocolState, vpnProto, jobs, session, main>>
    BY <1>4 DEF Collector, CollectTake, CollectAct, CollectBindFails, vars
  <2>. QED  BY <2>1 DEF NothingBefore, Live
<1>5. ASSUME NEW j \in JobIds, JobStep(j)
      PROVE  FALSE
  <2>1. vpnProto' = vpnProto
    BY <1>5 DEF JobStep, ConnectRead, ConnectJoined, StartVpn, ConnectPublish, ConnectFail,
       DisconnectRead, DisconnectJoined, StopVpn, DisconnectPublish, DisconnectSeen,
       DisconnectTimeout, ReconnectVpn
  <2>2. \E x : JobMoves(j, x)
    BY <1>5, JobStepMoves
  <2>3. j \in DOMAIN jobs
    BY <2>2, JobFrame
  <2>. QED  BY <2>1, <2>3 DEF NothingBefore
<1>6. ASSUME NEW j \in JobIds, ClientStep(j)
      PROVE  FALSE
  <2>1. vpnProto' = vpnProto /\ j \in Live
    BY <1>6 DEF ClientStep, Client, ClientConnected, ClientReconnecting, ClientError,
       ClientFailed, ClientStopped, Live
  <2>. QED  BY <2>1 DEF NothingBefore
<1>. QED  BY <1>1, <1>2, <1>3, <1>4, <1>5, <1>6 DEF Next, Request

\* What has happened stays in the history.
LEMMA OrderlyBefore ==
  ASSUME [Next]_vars, Orderly'
  PROVE  Orderly
<1>1. CASE UNCHANGED histVars
  BY <1>1 DEF Orderly, histVars
<1>2. CASE \E p \in Protos : ConnectCheck(p)
  <2>1. crossed' = (crossed \/ ~Settled) /\ erred' = erred
    BY <1>2 DEF ConnectCheck
  <2>2. ~crossed' /\ ~erred'
    BY DEF Orderly
  <2>3. ~(crossed \/ ~Settled) /\ ~erred
    BY <2>1, <2>2
  <2>. QED  BY <2>3 DEF Orderly
<1>3. CASE ConnectInvalid
  BY <1>3 DEF Orderly, ConnectInvalid
<1>4. CASE \E j \in JobIds : ClientError(j)
  BY <1>4 DEF Orderly, ClientError
<1>5. \/ UNCHANGED histVars \/ ConnectInvalid \/ \E p \in Protos : ConnectCheck(p)
      \/ \E j \in JobIds : ClientError(j)
  <2>1. Request => \/ UNCHANGED histVars \/ ConnectInvalid
                   \/ \E p \in Protos : ConnectCheck(p)
    BY DEF Request, DisconnectCheck, ReconnectCheck, Bind, RegisterClient, UnregisterClient,
       Unbind
  <2>2. MainStep \/ OnDestroy \/ KillProcess \/ Collector => UNCHANGED histVars
    BY DEF MainStep, ConnectState, ConnectLaunch, ConnectDenied, ConnectRefused,
       DisconnectLaunch, ReconnectLaunch, DestroyRead, Destroyed, OnDestroy, KillProcess,
       Collector, CollectTake, CollectAct, CollectBindFails
  <2>3. ASSUME NEW j \in JobIds, JobStep(j)
        PROVE  UNCHANGED histVars
    BY <2>3 DEF JobStep, ConnectRead, ConnectJoined, StartVpn, ConnectPublish,
       ConnectFail, DisconnectRead, DisconnectJoined, StopVpn, DisconnectPublish,
       DisconnectSeen, DisconnectTimeout, ReconnectVpn
  <2>4. ASSUME NEW j \in JobIds, ClientStep(j)
        PROVE  UNCHANGED histVars \/ ClientError(j)
    BY <2>4 DEF ClientStep, ClientConnected, ClientReconnecting, ClientFailed, ClientStopped
  <2>5. UNCHANGED vars => UNCHANGED histVars
    BY DEF vars
  <2>. QED  BY <2>1, <2>2, <2>3, <2>4, <2>5 DEF Next
<1>. QED  BY <1>1, <1>2, <1>3, <1>4, <1>5

-----------------------------------------------------------------------------
(* Theorems about tunnels *)

\* OrderlyInv is inductive together with ServiceInv: with requests of every kind
\* at any time, an attempt is awaited by every disconnect, has no other tunnel
\* beside it and is not hidden behind DISCONNECTED, until connectToVpn lets a
\* request through too early or an OpenVPN client outlives an error event.
THEOREM OrderlyInvariant == Spec => []OrderlyInv
<1>1. Init => OrderlyInv
  <2>. SUFFICES ASSUME Init PROVE OrderlyInv
    OBVIOUS
  <2>1. Live = {} /\ DOMAIN jobs = {}
    BY DEF Init, Live
  <2>2. NothingBefore
    BY <2>1 DEF Init, NothingBefore
  <2>3. AttemptAwaited
    BY <2>1 DEF Init, AttemptAwaited
  <2>4. TunnelReached
    BY <2>1 DEF Init, TunnelReached
  <2>5. DownIsDown
    BY <2>1 DEF DownIsDown
  <2>. QED  BY <2>2, <2>3, <2>4, <2>5 DEF OrderlyInv
<1>2. ServiceInv /\ OrderlyInv /\ [Next]_vars => OrderlyInv'
  <2>. SUFFICES ASSUME ServiceInv, OrderlyInv, [Next]_vars, Orderly'
                PROVE  Calm'
    BY DEF OrderlyInv, Calm, AttemptsOK
  <2>1. Calm
    BY OrderlyBefore DEF OrderlyInv, Calm, AttemptsOK
  <2>2. ~crossed' /\ ~erred'
    BY DEF Orderly
  <2>3. AttemptsOK'
    BY <2>1, <2>2, CalmRequest, CalmMain, CalmCollector, CalmJob, CalmClient DEF Next
  <2>4. NothingBefore'
    BY <2>1, NothingYet DEF Calm
  <2>. QED  BY <2>3, <2>4 DEF Calm
<1>. QED  BY <1>1, <1>2, ServiceInvariant, PTL DEF Spec

\* Only a connect request let through too early or an OpenVPN client that goes
\* on after an error can leave two tunnels or clients behind.
THEOREM OneTunnelOnly == Spec => []OneTunnel
<1>1. OrderlyInv => OneTunnel
  <2>. SUFFICES ASSUME OrderlyInv, Orderly PROVE Cardinality(Tunnels) <= 1
    BY DEF OneTunnel
  <2>1. Tunnels \subseteq Live
    BY DEF Tunnels, Live
  <2>2. \A i, j \in Tunnels : i = j
    BY <2>1 DEF OrderlyInv, TunnelReached
  <2>3. CASE Tunnels = {}
    BY <2>3, FS_EmptySet
  <2>4. CASE Tunnels # {}
    <3>1. PICK t \in Tunnels : TRUE
      BY <2>4
    <3>2. Tunnels = {t}
      BY <2>2, <3>1
    <3>3. Cardinality({t}) = 1
      BY FS_Singleton
    <3>. QED  BY <3>2, <3>3
  <2>. QED  BY <2>3, <2>4
<1>. QED  BY <1>1, OrderlyInvariant, PTL

\* And only they can leave a tunnel behind DISCONNECTED, where disconnect()
\* refuses to end it.
THEOREM DownIsShown == Spec => []DisconnectedMeansDown
<1>1. OrderlyInv => DisconnectedMeansDown
  BY DEF OrderlyInv, DownIsDown, DisconnectedMeansDown, Tunnels, Live
<1>. QED  BY <1>1, OrderlyInvariant, PTL

=============================================================================
