-------------------------- MODULE AmneziaVpnService --------------------------
(***************************************************************************)
(* The Android VPN service (client/android/.../AmneziaVpnService.kt) with  *)
(* the protocol object it drives.  Two kinds of threads share its fields:  *)
(* the main thread runs every handler and the collector of protocolState;  *)
(* the coroutines launched on connectionScope run on the IO pool.  A       *)
(* handler of the main thread is cut where a job may write protocolState   *)
(* between its check of the state and its own write.  A job is cut at      *)
(* every access to a shared field and at every suspension point.           *)
(***************************************************************************)
EXTENDS Naturals, Sequences, FiniteSets

CONSTANTS
  Protos,        \* the VpnProto values hosted by one service process
  Kinds,         \* the Protocol classes: the service runs in a process per class
  MaxJobs        \* bound: coroutines launched during one life of the service

ASSUME ServiceAssumption ==
  /\ Kinds \subseteq {"wireguard", "openvpn", "xray"}
  /\ MaxJobs \in Nat \ {0}

VARIABLES
  kind,              \* the class of this process; never changes
  protocolState,     \* the MutableStateFlow shared with the protocol
  vpnProto,          \* the VpnProto of the latest valid config, or NoProto
  jobs,              \* every coroutine launched on connectionScope, in order
  connectionJob,     \* index into jobs, 0 for null
  disconnectionJob,  \* index into jobs, 0 for null
  session,           \* the tunnel (or OpenVPN client) created by each job
  current,           \* tunnelHandle / openVpnClient / isRunning of an instance
  main,              \* what the main thread is in the middle of
  destroyWait,       \* the job onDestroy() blocks the main thread on
  seen,              \* value of protocolState last taken by the collector
  collecting,        \* the collector is suspended in VpnStateStore.store
  isListenerBound,   \* NetworkState.isListenerBound
  isServiceBound,    \* the service's own idea of being bound
  sysBound,          \* the system's: some client holds a binding
  clients,           \* clientMessengers is not empty
  stopTimer,         \* the kill timer of stopService(): "off", "armed"
  life,              \* "running", "destroying", "destroyed", "killed", "crashed"
  crossed,           \* history: a connect request came before the last one's end
  erred              \* history: an OpenVPN client reported an error and lived on

jobVars  == <<jobs, connectionJob, disconnectionJob>>
tunVars  == <<session, current>>
bindVars == <<isServiceBound, sysBound, clients, kind>>
collVars == <<seen, collecting, isListenerBound>>
lifeVars == <<stopTimer, life, destroyWait>>
histVars == <<crossed, erred>>
vars == <<protocolState, vpnProto, jobVars, tunVars, main, collVars,
          bindVars, lifeVars, histVars>>

ProtocolStates == {"UNKNOWN", "DISCONNECTED", "CONNECTING", "CONNECTED",
                   "DISCONNECTING", "RECONNECTING"}
NoProto == "NoProto"
JobIds  == 1..(MaxJobs + 1)   \* the last one is for the disconnect of onDestroy

\* Xray.instance is one object behind both XRAY and SSXRAY; the other classes
\* have an instance per VpnProto.
SameInstance(p) == IF kind = "xray" THEN Protos ELSE {p}
SetCurrent(p, j) == [q \in Protos |-> IF q \in SameInstance(p) THEN j ELSE current[q]]

Running == life \in {"running", "destroying"}
Alive   == life = "running"
MainIdle == main = "idle" /\ Alive

Done(j) == j # 0 => jobs[j].pc = "done"

-----------------------------------------------------------------------------
\* onCreate: nothing is launched but the collector, which drops the first state.
Init ==
  /\ kind \in Kinds
  /\ protocolState = "UNKNOWN" /\ vpnProto = NoProto
  /\ jobs = << >> /\ connectionJob = 0 /\ disconnectionJob = 0
  /\ session = [j \in JobIds |-> "none"]
  /\ current = [i \in Protos |-> 0]
  /\ main = "idle"
  /\ seen = "UNKNOWN" /\ collecting = FALSE
  /\ isListenerBound = FALSE
  /\ isServiceBound = FALSE /\ sysBound = FALSE /\ clients = FALSE
  /\ stopTimer = "off" /\ life = "running" /\ destroyWait = 0
  /\ crossed = FALSE /\ erred = FALSE

\* connectionScope.launch: a new coroutine.
Launch(task) ==
  jobs' = Append(jobs, [task |-> task, wait |-> 0,
                        pc |-> IF task = "reconnect" THEN "run" ELSE "read"])

-----------------------------------------------------------------------------
(* Handlers of the main thread. *)

\* The coroutines launched so far have ended, and the state says so.
Settled ==
  protocolState \in {"UNKNOWN", "DISCONNECTED"} /\ \A j \in DOMAIN jobs : Done(j)

\* connectToVpn up to the write of vpnProto.  The request may come at any time:
\* from the application, the tile, an old notification, or the system (always-on).
ConnectCheck(p) ==
  /\ MainIdle /\ Len(jobs) < MaxJobs
  /\ protocolState \notin {"CONNECTED", "CONNECTING"}
  /\ main' = "connect" /\ vpnProto' = p
  /\ crossed' = (crossed \/ ~Settled)
  /\ UNCHANGED <<protocolState, jobVars, tunVars, collVars, bindVars,
                 lifeVars, erred>>

\* connectToVpn with a blank or malformed config, or an unknown protocol name.
ConnectInvalid ==
  /\ MainIdle
  /\ protocolState \notin {"CONNECTED", "CONNECTING"}
  /\ main' = "refuse"
  /\ crossed' = (crossed \/ ~Settled)
  /\ UNCHANGED <<protocolState, vpnProto, jobVars, tunVars, collVars, bindVars,
                 lifeVars, erred>>

ConnectRefused ==
  /\ main = "refuse"
  /\ protocolState' = "DISCONNECTED" /\ main' = "idle"
  /\ UNCHANGED <<vpnProto, jobVars, tunVars, collVars, bindVars, lifeVars,
                 histVars>>

ConnectState ==
  /\ main = "connect"
  /\ protocolState' = "CONNECTING" /\ main' = "launch"
  /\ UNCHANGED <<vpnProto, jobVars, tunVars, collVars, bindVars, lifeVars,
                 histVars>>

ConnectLaunch ==
  /\ main = "launch"
  /\ Launch("connect") /\ connectionJob' = Len(jobs) + 1 /\ main' = "idle"
  /\ UNCHANGED <<protocolState, vpnProto, disconnectionJob, tunVars, collVars,
                 bindVars, lifeVars, histVars>>

\* checkPermission() is false: the user is asked, nothing is launched.
ConnectDenied ==
  /\ main = "launch"
  /\ protocolState' = "DISCONNECTED" /\ main' = "idle"
  /\ UNCHANGED <<vpnProto, jobVars, tunVars, collVars, bindVars, lifeVars,
                 histVars>>

CanDisconnect ==
  protocolState \notin {"UNKNOWN", "DISCONNECTED", "DISCONNECTING"}

\* disconnect() from a message, a broadcast or onRevoke, at any time.
DisconnectCheck ==
  /\ MainIdle /\ Len(jobs) < MaxJobs /\ CanDisconnect
  /\ main' = "disconnect"
  /\ UNCHANGED <<protocolState, vpnProto, jobVars, tunVars, collVars, bindVars,
                 lifeVars, histVars>>

\* Mutant: the job field is set but no coroutine is launched.
DisconnectLaunchLost ==
  /\ main \in {"disconnect", "destroyDisconnect"}
  /\ protocolState' = "DISCONNECTING" /\ disconnectionJob' = Len(jobs) + 1
  /\ main' = IF main = "disconnect" THEN "idle" ELSE "destroyRead"
  /\ UNCHANGED <<vpnProto, jobs, connectionJob, tunVars, collVars, bindVars,
                 lifeVars, histVars>>

DisconnectLaunch ==
  /\ main \in {"disconnect", "destroyDisconnect"}
  /\ protocolState' = "DISCONNECTING"
  /\ Launch("disconnect") /\ disconnectionJob' = Len(jobs) + 1
  /\ main' = IF main = "disconnect" THEN "idle" ELSE "destroyRead"
  /\ UNCHANGED <<vpnProto, connectionJob, tunVars, collVars, bindVars,
                 lifeVars, histVars>>

\* reconnect(), called by NetworkState when the default network has changed.
ReconnectCheck ==
  /\ MainIdle /\ Len(jobs) < MaxJobs /\ isListenerBound
  /\ protocolState = "CONNECTED"
  /\ main' = "reconnect"
  /\ UNCHANGED <<protocolState, vpnProto, jobVars, tunVars, collVars, bindVars,
                 lifeVars, histVars>>

ReconnectLaunch ==
  /\ main = "reconnect"
  /\ protocolState' = "RECONNECTING"
  /\ Launch("reconnect") /\ connectionJob' = Len(jobs) + 1 /\ main' = "idle"
  /\ UNCHANGED <<vpnProto, disconnectionJob, tunVars, collVars, bindVars,
                 lifeVars, histVars>>

-----------------------------------------------------------------------------
(* Binding, messengers and the end of the service. *)

\* onBind and onRebind.  A bind after stopSelf() goes to a new service.
Bind ==
  /\ MainIdle /\ ~sysBound /\ stopTimer = "off"
  /\ sysBound' = TRUE /\ isServiceBound' = TRUE
  /\ UNCHANGED <<protocolState, vpnProto, jobVars, tunVars, main, collVars,
                 clients, kind, lifeVars, histVars>>

RegisterClient ==
  /\ MainIdle /\ sysBound /\ ~clients
  /\ clients' = TRUE
  /\ UNCHANGED <<protocolState, vpnProto, jobVars, tunVars, main, collVars,
                 isServiceBound, sysBound, kind, lifeVars, histVars>>

UnregisterClient ==
  /\ MainIdle /\ clients
  /\ clients' = FALSE
  /\ UNCHANGED <<protocolState, vpnProto, jobVars, tunVars, main, collVars,
                 isServiceBound, sysBound, kind, lifeVars, histVars>>

\* onUnbind, once the last binding is gone.
Unbind ==
  /\ MainIdle /\ sysBound
  /\ sysBound' = FALSE
  /\ isServiceBound' = IF clients THEN isServiceBound ELSE FALSE
  /\ stopTimer' = IF ~clients /\ protocolState \in {"UNKNOWN", "DISCONNECTED"}
                  THEN "armed" ELSE stopTimer
  /\ UNCHANGED <<protocolState, vpnProto, jobVars, tunVars, main, collVars,
                 clients, kind, life, destroyWait, histVars>>

\* The system destroys a stopped service nobody is bound to: onDestroy runs
\* disconnect(), then blocks the main thread on disconnectionJob.
OnDestroy ==
  /\ MainIdle /\ stopTimer = "armed" /\ ~sysBound
  /\ life' = "destroying"
  /\ main' = IF CanDisconnect THEN "destroyDisconnect" ELSE "destroyRead"
  /\ UNCHANGED <<protocolState, vpnProto, jobVars, tunVars, collVars, bindVars,
                 stopTimer, destroyWait, histVars>>

DestroyRead ==
  /\ main = "destroyRead"
  /\ destroyWait' = disconnectionJob /\ main' = "destroyJoin"
  /\ UNCHANGED <<protocolState, vpnProto, jobVars, tunVars, collVars, bindVars,
                 stopTimer, life, histVars>>

\* disconnectionJob?.join() has returned: both scopes are cancelled, and with
\* mainScope the kill timer.
Destroyed ==
  /\ main = "destroyJoin" /\ Done(destroyWait)
  /\ main' = "idle" /\ life' = "destroyed" /\ stopTimer' = "off"
  /\ UNCHANGED <<protocolState, vpnProto, jobVars, tunVars, collVars, bindVars,
                 destroyWait, histVars>>

\* The delay of stopService() has run out on the main looper.  A service nobody
\* is bound to has been destroyed long before.
KillProcess ==
  /\ MainIdle /\ stopTimer = "armed" /\ sysBound
  /\ life' = "killed"
  /\ UNCHANGED <<protocolState, vpnProto, jobVars, tunVars, main, collVars,
                 bindVars, stopTimer, destroyWait, histVars>>

-----------------------------------------------------------------------------
(* The collector of protocolState, on the main thread. *)

\* StateFlow is conflated: the collector sees the latest value, if it differs
\* from the one it handled last.  Sending STATUS_CHANGED comes first, then it
\* suspends in VpnStateStore.store.
CollectTake ==
  /\ MainIdle /\ ~collecting /\ protocolState # seen
  /\ seen' = protocolState /\ collecting' = TRUE
  /\ UNCHANGED <<protocolState, vpnProto, jobVars, tunVars, main,
                 isListenerBound, bindVars, lifeVars, histVars>>

\* Mutant: DISCONNECTED no longer unregisters the network callback.
CollectActKeepsListener ==
  /\ MainIdle /\ collecting
  /\ collecting' = FALSE
  /\ isListenerBound' = CASE seen = "CONNECTED" -> TRUE
                          [] seen = "DISCONNECTING" -> FALSE
                          [] OTHER -> isListenerBound
  /\ stopTimer' = IF seen = "DISCONNECTED" /\ ~isServiceBound
                  THEN "armed" ELSE stopTimer
  /\ UNCHANGED <<protocolState, vpnProto, jobVars, tunVars, main, seen,
                 bindVars, life, destroyWait, histVars>>

\* The rest of the collector's body works on the value taken, which may be old
\* by now.
CollectAct ==
  /\ MainIdle /\ collecting
  /\ collecting' = FALSE
  /\ isListenerBound' = CASE seen = "CONNECTED" -> TRUE
                          [] seen \in {"DISCONNECTED", "DISCONNECTING"} -> FALSE
                          [] OTHER -> isListenerBound
  /\ stopTimer' = IF seen = "DISCONNECTED" /\ ~isServiceBound
                  THEN "armed" ELSE stopTimer
  /\ UNCHANGED <<protocolState, vpnProto, jobVars, tunVars, main, seen,
                 bindVars, life, destroyWait, histVars>>

\* registering the network callback keeps throwing SecurityException: after
\* the last attempt the exception leaves the collector and ends the process.
CollectBindFails ==
  /\ MainIdle /\ collecting /\ seen = "CONNECTED" /\ ~isListenerBound
  /\ life' = "crashed"
  /\ UNCHANGED <<protocolState, vpnProto, jobVars, tunVars, main, collVars,
                 bindVars, stopTimer, destroyWait, histVars>>

-----------------------------------------------------------------------------
(* Coroutines on the IO pool. *)

At(j, task, pc) ==
  Running /\ j <= Len(jobs) /\ jobs[j].task = task /\ jobs[j].pc = pc

Goto(j, pc) == jobs' = [jobs EXCEPT ![j].pc = pc]

\* ?.join() first reads the field: the job waits for what it held then.
ConnectRead(j) ==
  /\ At(j, "connect", "read")
  /\ jobs' = [jobs EXCEPT ![j].pc = "join", ![j].wait = disconnectionJob]
  /\ UNCHANGED <<protocolState, vpnProto, connectionJob, disconnectionJob,
                 tunVars, main, collVars, bindVars, lifeVars, histVars>>

ConnectJoined(j) ==
  /\ At(j, "connect", "join") /\ Done(jobs[j].wait)
  /\ Goto(j, "run") /\ disconnectionJob' = 0
  /\ UNCHANGED <<protocolState, vpnProto, connectionJob, tunVars, main, collVars,
                 bindVars, lifeVars, histVars>>

DisconnectRead(j) ==
  /\ At(j, "disconnect", "read")
  /\ jobs' = [jobs EXCEPT ![j].pc = "join", ![j].wait = connectionJob]
  /\ UNCHANGED <<protocolState, vpnProto, connectionJob, disconnectionJob,
                 tunVars, main, collVars, bindVars, lifeVars, histVars>>

DisconnectJoined(j) ==
  /\ At(j, "disconnect", "join") /\ Done(jobs[j].wait)
  /\ Goto(j, "run") /\ connectionJob' = 0
  /\ UNCHANGED <<protocolState, vpnProto, disconnectionJob, tunVars, main,
                 collVars, bindVars, lifeVars, histVars>>

\* Mutant: a failing protect() forgets to turn the new tunnel off.
StartVpnLeaks(j) ==
  /\ At(j, "connect", "run")
  /\ session' = [session EXCEPT ![j] = "up"]
  /\ \/ Goto(j, "fail") /\ UNCHANGED current
     \/ Goto(j, "publish") /\ current' = SetCurrent(vpnProto, j)
  /\ UNCHANGED <<protocolState, vpnProto, connectionJob, disconnectionJob,
                 main, collVars, bindVars, lifeVars, histVars>>

\* Protocol.initialize and startVpn on the protocol of the moment.  It may
\* throw: bad config, no library, permission revoked, tunnel not created.
StartVpn(j) ==
  LET p == vpnProto
  IN /\ At(j, "connect", "run")
     /\ \/ /\ Goto(j, "fail")
           /\ current' = IF kind = "openvpn" THEN SetCurrent(p, 0)
                         ELSE current
           /\ UNCHANGED session
        \/ /\ kind # "openvpn" /\ current[p] # 0      \* already up
           /\ Goto(j, IF kind = "wireguard" THEN "publish" ELSE "done")
           /\ UNCHANGED tunVars
        \/ /\ kind # "openvpn" /\ current[p] = 0
           /\ session' = [session EXCEPT ![j] = "up"]
           /\ current' = IF kind = "wireguard" THEN SetCurrent(p, j)
                         ELSE current                 \* isRunning is set last
           /\ Goto(j, "publish")
        \/ /\ kind = "openvpn"
           /\ session' = [session EXCEPT ![j] = "starting"]
           /\ current' = SetCurrent(p, j)
           /\ Goto(j, "done")
     /\ UNCHANGED <<protocolState, vpnProto, connectionJob, disconnectionJob,
                    main, collVars, bindVars, lifeVars, histVars>>

ConnectPublish(j) ==
  /\ At(j, "connect", "publish")
  /\ protocolState' = "CONNECTED" /\ Goto(j, "done")
  /\ current' = IF kind = "xray" THEN SetCurrent(vpnProto, j) ELSE current
  /\ UNCHANGED <<vpnProto, connectionJob, disconnectionJob, session, main,
                 collVars, bindVars, lifeVars, histVars>>

\* connectionExceptionHandler; an exception it does not know ends the process.
ConnectFail(j) ==
  /\ At(j, "connect", "fail")
  /\ protocolState' = "DISCONNECTED" /\ Goto(j, "done")
  /\ life' \in {life, "crashed"}
  /\ UNCHANGED <<vpnProto, connectionJob, disconnectionJob, tunVars, main,
                 collVars, bindVars, stopTimer, destroyWait, histVars>>

\* Mutant: the handle is forgotten without awgTurnOff.
StopVpnForgets(j) ==
  /\ At(j, "disconnect", "run")
  /\ current' = SetCurrent(vpnProto, 0) /\ Goto(j, "publish")
  /\ UNCHANGED <<protocolState, vpnProto, connectionJob, disconnectionJob,
                 session, main, collVars, bindVars, lifeVars, histVars>>

\* stopVpn on the protocol of the moment.
StopVpn(j) ==
  LET p == vpnProto
  IN /\ At(j, "disconnect", "run")
     /\ current' = SetCurrent(p, 0)
     /\ CASE kind = "wireguard" ->
               /\ session' = IF current[p] = 0 THEN session
                             ELSE [session EXCEPT ![current[p]] = "over"]
               /\ Goto(j, IF current[p] = 0 THEN "wait" ELSE "publish")
          [] kind = "xray" ->
               /\ session' = [k \in JobIds |-> IF session[k] = "up" THEN "over"
                                               ELSE session[k]]
               /\ Goto(j, "publish")
          [] kind = "openvpn" ->
               /\ session' = IF current[p] # 0 /\ session[current[p]] # "over"
                             THEN [session EXCEPT ![current[p]] = "stopping"]
                             ELSE session
               /\ Goto(j, "wait")
     /\ UNCHANGED <<protocolState, vpnProto, connectionJob, disconnectionJob,
                    main, collVars, bindVars, lifeVars, histVars>>

DisconnectPublish(j) ==
  /\ At(j, "disconnect", "publish")
  /\ protocolState' = "DISCONNECTED" /\ Goto(j, "wait")
  /\ UNCHANGED <<vpnProto, connectionJob, disconnectionJob, tunVars, main,
                 collVars, bindVars, lifeVars, histVars>>

\* withTimeout { protocolState.first { it == DISCONNECTED } }
DisconnectSeen(j) ==
  /\ At(j, "disconnect", "wait") /\ protocolState = "DISCONNECTED"
  /\ Goto(j, "done")
  /\ UNCHANGED <<protocolState, vpnProto, connectionJob, disconnectionJob,
                 tunVars, main, collVars, bindVars, lifeVars, histVars>>

\* Mutant: no withTimeout around the wait for DISCONNECTED.
DisconnectTimeoutNever(j) == At(j, "disconnect", "wait") /\ FALSE

DisconnectTimeout(j) ==
  /\ At(j, "disconnect", "wait") /\ protocolState # "DISCONNECTED"
  /\ Goto(j, "done") /\ stopTimer' = "armed"
  /\ UNCHANGED <<protocolState, vpnProto, connectionJob, disconnectionJob,
                 tunVars, main, collVars, bindVars, life, destroyWait, histVars>>

ReconnectVpn(j) ==
  LET c == current[vpnProto]
  IN /\ At(j, "reconnect", "run")
     /\ Goto(j, "done")
     /\ IF kind = "openvpn"
        THEN /\ session' = IF c # 0 /\ session[c] = "up"
                           THEN [session EXCEPT ![c] = "starting"] ELSE session
             /\ UNCHANGED protocolState
        ELSE /\ protocolState' = "CONNECTED"
             /\ UNCHANGED session
     /\ UNCHANGED <<vpnProto, connectionJob, disconnectionJob, current, main,
                    collVars, bindVars, lifeVars, histVars>>

-----------------------------------------------------------------------------
(* Events of the OpenVPN clients, each on its own thread in connect(). *)

Client(j, states) == Running /\ kind = "openvpn" /\ session[j] \in states

\* stop() is asynchronous: a CONNECTED event may still be on its way.
ClientConnected(j) ==
  /\ Client(j, {"starting", "stopping"})
  /\ session' = [session EXCEPT ![j] = IF @ = "starting" THEN "up" ELSE "stopped"]
  /\ protocolState' = "CONNECTED"
  /\ UNCHANGED <<vpnProto, jobVars, current, main, collVars, bindVars,
                 lifeVars, histVars>>

ClientReconnecting(j) ==
  /\ Client(j, {"up"})
  /\ session' = [session EXCEPT ![j] = "starting"]
  /\ protocolState' = IF protocolState \in {"DISCONNECTED", "CONNECTED"}
                      THEN "RECONNECTING" ELSE protocolState
  /\ UNCHANGED <<vpnProto, jobVars, current, main, collVars, bindVars,
                 lifeVars, histVars>>

\* An event with error set that is not fatal: the client goes on.
ClientError(j) ==
  /\ Client(j, {"starting", "up", "stopping", "stopped"})
  /\ protocolState' = "DISCONNECTED" /\ erred' = TRUE
  /\ UNCHANGED <<vpnProto, jobVars, tunVars, main, collVars, bindVars, lifeVars,
                 crossed>>

\* A fatal event, or connect() returning an error.
ClientFailed(j) ==
  /\ Client(j, {"starting", "up"})
  /\ session' = [session EXCEPT ![j] = "over"]
  /\ protocolState' = "DISCONNECTED"
  /\ UNCHANGED <<vpnProto, jobVars, current, main, collVars, bindVars,
                 lifeVars, histVars>>

ClientStopped(j) ==
  /\ Client(j, {"stopping", "stopped"})
  /\ session' = [session EXCEPT ![j] = "over"]
  /\ protocolState' = "DISCONNECTED"
  /\ UNCHANGED <<vpnProto, jobVars, current, main, collVars, bindVars,
                 lifeVars, histVars>>

-----------------------------------------------------------------------------
JobStep(j) ==
  \/ ConnectRead(j) \/ ConnectJoined(j) \/ StartVpn(j)
  \/ ConnectPublish(j) \/ ConnectFail(j)
  \/ DisconnectRead(j) \/ DisconnectJoined(j) \/ StopVpn(j)
  \/ DisconnectPublish(j) \/ DisconnectSeen(j) \/ DisconnectTimeout(j)
  \/ ReconnectVpn(j)

ClientStep(j) ==
  \/ ClientConnected(j) \/ ClientReconnecting(j) \/ ClientError(j)
  \/ ClientFailed(j) \/ ClientStopped(j)

\* The rest of a handler the main thread has begun.
MainStep ==
  \/ ConnectState \/ ConnectLaunch \/ ConnectDenied \/ ConnectRefused
  \/ DisconnectLaunch \/ ReconnectLaunch \/ DestroyRead \/ Destroyed

Request ==
  \/ \E p \in Protos : ConnectCheck(p)
  \/ ConnectInvalid \/ DisconnectCheck \/ ReconnectCheck
  \/ Bind \/ RegisterClient \/ UnregisterClient \/ Unbind

Collector == CollectTake \/ CollectAct \/ CollectBindFails

Next ==
  \/ Request \/ MainStep \/ Collector \/ OnDestroy \/ KillProcess
  \/ \E j \in JobIds : JobStep(j) \/ ClientStep(j)

\* The main looper and the IO pool are fair: they run what they were given, a
\* handler that has begun ends, the OpenVPN core ends a client it was told to
\* stop, and stopService() ends in onDestroy or in the kill timer.  Strong
\* fairness where other messages of the main looper can come in between.
Fairness ==
  /\ WF_vars(MainStep)
  /\ SF_vars(CollectTake) /\ SF_vars(CollectAct)
  /\ SF_vars(OnDestroy \/ KillProcess)
  /\ \A j \in JobIds : WF_vars(JobStep(j)) /\ WF_vars(ClientStopped(j))

Spec == Init /\ [][Next]_vars /\ Fairness

-----------------------------------------------------------------------------
(* Properties. *)

Pcs == {"read", "join", "run", "publish", "fail", "wait", "done"}

\* Every field of the service and of its jobs has one of the values the code
\* gives it, and the two job fields refer to jobs that were really launched.
TypeOK ==
  /\ kind \in Kinds
  /\ protocolState \in ProtocolStates /\ seen \in ProtocolStates
  /\ vpnProto \in Protos \cup {NoProto}
  /\ Len(jobs) <= MaxJobs + 1
  /\ \A j \in 1..Len(jobs) :
       jobs[j] \in [task : {"connect", "disconnect", "reconnect"}, pc : Pcs,
                    wait : 0..Len(jobs)]
  /\ connectionJob \in 0..Len(jobs) /\ disconnectionJob \in 0..Len(jobs)
  /\ destroyWait \in 0..Len(jobs)
  /\ session \in [JobIds -> {"none", "starting", "up", "stopping", "stopped", "over"}]
  /\ current \in [Protos -> 0..Len(jobs)]
  /\ main \in {"idle", "connect", "launch", "refuse", "disconnect", "reconnect",
               "destroyDisconnect", "destroyRead", "destroyJoin"}
  /\ collecting \in BOOLEAN /\ isListenerBound \in BOOLEAN
  /\ isServiceBound \in BOOLEAN /\ sysBound \in BOOLEAN /\ clients \in BOOLEAN
  /\ stopTimer \in {"off", "armed"}
  /\ life \in {"running", "destroying", "destroyed", "killed", "crashed"}
  /\ crossed \in BOOLEAN /\ erred \in BOOLEAN

\* Once the collector of launchProtocolStateHandler has caught up, the network
\* callback is registered while the VPN is CONNECTED and not while it is
\* DISCONNECTED or DISCONNECTING, whatever states the collector has missed and
\* however old the value it acted on was.
ListenerFollowsState ==
  ~collecting /\ seen = protocolState =>
    /\ protocolState = "CONNECTED" => isListenerBound
    /\ protocolState \in {"DISCONNECTED", "DISCONNECTING"} => ~isListenerBound

\* Tunnels and OpenVPN clients that carry, or try to carry, traffic.
Tunnels == {j \in JobIds : session[j] \in {"starting", "up"}}

\* No connect request was let through before the last coroutine's end, and no
\* OpenVPN client outlived an error.
Orderly == ~crossed /\ ~erred

\* startVpn never leaves two tunnels behind, in any order of requests: only a
\* connect request that connectToVpn lets through before the coroutines of the
\* requests before have ended, or an OpenVPN client that goes on after an error
\* event, can.  A disconnect, a revocation or a reconnect at any moment cannot.
OneTunnel == Orderly => Cardinality(Tunnels) <= 1

\* With the same two exceptions, DISCONNECTED is never shown over a tunnel:
\* disconnect() would refuse to end it.
DisconnectedMeansDown ==
  Orderly /\ protocolState \in {"DISCONNECTED", "UNKNOWN"} => Tunnels = {}

\* The inductive invariant behind TypeOK and ListenerFollowsState: the main
\* thread checks the number of jobs when a handler begins and launches later,
\* and after onDestroy it launches nothing any more.
ServiceInv ==
  /\ TypeOK
  /\ jobs \in Seq([task : {"connect", "disconnect", "reconnect"}, pc : Pcs, wait : Nat])
  /\ main \in {"connect", "launch", "disconnect", "reconnect"} => Len(jobs) < MaxJobs
  /\ main \in {"destroyDisconnect", "destroyRead", "destroyJoin"} => ~Alive
  /\ main = "destroyDisconnect" \/ Alive => Len(jobs) <= MaxJobs
  /\ ~collecting => /\ seen = "CONNECTED" => isListenerBound
                    /\ seen \in {"DISCONNECTED", "DISCONNECTING"} => ~isListenerBound

\* Tunnels, and OpenVPN clients that have not ended yet.
Live == {j \in JobIds : session[j] \notin {"none", "over"}}

\* A coroutine of connect() that has not ended.
Connecting(j) == jobs[j].task = "connect" /\ jobs[j].pc # "done"

\* Before the first connect there is nothing to disconnect or to reconnect.
NothingBefore ==
  vpnProto \notin Protos =>
    /\ jobs = <<>> /\ Live = {}
    /\ main \in {"idle", "refuse", "destroyRead", "destroyJoin"}
    /\ protocolState \in {"UNKNOWN", "DISCONNECTED"}

\* An attempt begins when everything before it has ended.  Until it has ended
\* nobody reconnects, and every disconnect job waits for it or still will: the
\* field connectionJob is neither cleared nor overwritten.
AttemptAwaited ==
  /\ main \in {"connect", "launch", "refuse"} =>
       Live = {} /\ \A j \in DOMAIN jobs : Done(j)
  /\ main = "launch" => protocolState = "CONNECTING"
  /\ \A c \in DOMAIN jobs : Connecting(c) =>
       /\ connectionJob = c /\ main # "reconnect" /\ jobs[c].pc # "wait"
       /\ protocolState \in {"CONNECTING", "DISCONNECTING"}
       /\ \A j \in DOMAIN jobs \ {c} :
            \/ jobs[j].pc = "done"
            \/ jobs[j].task = "disconnect" /\ jobs[j].pc = "read"
            \/ jobs[j].task = "disconnect" /\ jobs[j].pc = "join" /\ jobs[j].wait = c

\* An attempt has nothing but its own tunnel beside it, and stopVpn() reaches it:
\* the protocol of the moment is still the one that holds the tunnel.
TunnelReached ==
  /\ \A i, j \in Live : i = j
  /\ \A c \in DOMAIN jobs :
       Connecting(c) => Live \subseteq (IF jobs[c].pc = "publish" THEN {c} ELSE {})
  /\ kind = "wireguard" => \A j \in Live : vpnProto \in Protos /\ current[vpnProto] = j
  /\ kind # "openvpn" => \A j \in Live : session[j] = "up"
  /\ kind = "openvpn" =>
       /\ \A p \in Protos : current[p] # 0 => session[current[p]] # "none"
       /\ \A j \in DOMAIN jobs : jobs[j].pc # "publish"
  /\ \A j \in DOMAIN jobs :
       jobs[j].task = "disconnect" /\ jobs[j].pc = "publish" => Live = {}

\* DISCONNECTED is not shown before the end.
DownIsDown ==
  protocolState \in {"UNKNOWN", "DISCONNECTED"} =>
    Live = {} /\ \A j \in DOMAIN jobs : ~Connecting(j)

\* The inductive invariant behind OneTunnel and DisconnectedMeansDown: what
\* holds for as long as neither of their two exceptions has happened.
OrderlyInv ==
  Orderly => NothingBefore /\ AttemptAwaited /\ TunnelReached /\ DownIsDown

\* Connection and disconnection jobs that all wait for one another.
JoinCycle ==
  \E S \in SUBSET DOMAIN jobs :
    S # {} /\ \A j \in S : jobs[j].pc = "join" /\ jobs[j].wait \in S

\* Every coroutine of connect(), disconnect() and reconnect() ends, unless the
\* service does or coroutines join each other in a cycle: whatever the protocol
\* does, nothing else can hang a connection or a disconnection.
OnlyJoinCycleHangs ==
  []<>((\A j \in DOMAIN jobs : Done(j)) \/ ~Running \/ JoinCycle)

\* A service told to stop by stopService() is eventually destroyed or killed,
\* although onDestroy blocks the main thread on the disconnection job.
StopEnds == (stopTimer = "armed") ~> ~Running
=============================================================================
