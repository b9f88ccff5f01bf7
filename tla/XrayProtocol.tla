---------------------------- MODULE XrayProtocol ----------------------------
(* The Xray protocol on Linux: VpnConnection and its XrayProtocol on their   *)
(* thread, the xray process that they start themselves, and the privileged   *)
(* service that they ask for everything else: tun2socks, the tun2 device,    *)
(* routes, IPv6 and the kill switch.                                         *)
(*                                                                           *)
(* Calls to the service are written and not waited for, but for three: the   *)
(* first contact, the creation of a process and the clearing of routes.      *)
(* Each of these waits in an event loop of its own, in which every other     *)
(* event of the thread is served: commands of the user, the end of xray,     *)
(* signals of tun2socks.  The service is there throughout; module            *)
(* VpnConnection has what happens without it.                                *)
EXTENDS Integers, Sequences, SequencesExt

CONSTANTS
  MaxOpens, MaxCloses,  \* how often the user connects and disconnects
  Guarded               \* the connects with killSwitchOption in their configuration

ASSUME BoundsAssumption == MaxOpens \in Nat \ {0} /\ MaxCloses \in Nat

VARIABLES
  \* VpnConnection
  queue,      \* the user's commands, posted to its thread
  opens, closes,
  ipc,        \* IpcClient::Interface() exists
  waits,      \* the calls that wait for the service, innermost last
  shown,      \* the last connectionStateChanged
  protocol,   \* m_vpnProtocol, numbered by its connect command, or 0
  \* its XrayProtocol
  m_connectionState,
  xray,       \* m_xrayProcess runs
  process,    \* m_t2sProcess is set
  \* between the client and the service
  calls,      \* written to IpcInterface
  pcalls,     \* written to the IpcProcessInterface of some tun2socks
  signals,    \* of each tun2socks, not yet delivered
  \* the service and the kernel
  t2s,        \* the tun2socks made for each protocol
  tun,        \* tun2: made to last, addressed, and who has it open
  routes,     \* in the kernel's table
  saved,      \* m_addedRoutes
  chains,     \* the chains of LinuxFirewall are in the kernel
  killSwitch, \* the protocol whose server they let through, or 0
  ipv6,       \* "on", "off", or "either" where the last change failed
  \* history
  crashed,    \* the client died of
  wild,       \* the use of a protocol that was already destroyed
  early,      \* m_vpnProtocol's xray ended before its tun2socks was seen running
  inClear     \* tun2socks was seen running after the last disconnect had asked
              \* for the routes to be cleared, and before it went on

clientVars == <<shown, protocol, m_connectionState, xray, process>>
kernelVars == <<tun, routes, saved, chains, killSwitch, ipv6>>
userVars == <<queue, opens, closes, ipc>>
histVars == <<crashed, wild, early, inClear>>
vars == <<userVars, waits, clientVars, calls, pcalls, signals, t2s, kernelVars,
          histVars>>

Protocols == 1..MaxOpens
States == {"Unknown", "Error", "Connecting", "Connected", "Disconnected"}

DefaultRoute == <<"default", 0>>    \* 0.0.0.0/1 and 128.0.0.0/1
DnsRoute == <<"dns", 0>>
ServerRoute(p) == <<"server", p>>   \* by way of the gateway from before
TunRoutes == {DefaultRoute, DnsRoute}
Routes == TunRoutes \cup {ServerRoute(p) : p \in Protocols}

Calls == [op : {"createPrivilegedProcess", "enableKillSwitch"}, p : Protocols]
         \cup [op : {"disableKillSwitch", "StartRoutingIpv6", "StopRoutingIpv6",
                     "createTun", "deleteTun", "clearSavedRoutes"}]
         \cup [op : {"routeAddList"}, route : Routes]

\* What a connect command waits for at first, and then; a disconnect.
Waits == [for : {"init", "create"}, p : Protocols] \cup [for : {"clear"}]

Waiting(what) == waits # <<>> /\ Last(waits).for = what

Call(op) == [op |-> op]
CallFor(op, p) == [op |-> op, p |-> p]
RouteAdd(r) == [op |-> "routeAddList", route |-> r]

\* The chains may be left from a WireGuard tunnel of a service that was killed:
\* only WireguardUtilsLinux installs them.
Init ==
  /\ queue = <<>> /\ opens = 0 /\ closes = 0 /\ ipc = FALSE /\ waits = <<>>
  /\ shown = "Disconnected" /\ protocol = 0 /\ m_connectionState = "Unknown"
  /\ xray = FALSE /\ process = FALSE
  /\ calls = <<>> /\ pcalls = <<>> /\ signals = [p \in Protocols |-> <<>>]
  /\ t2s = [p \in Protocols |-> "none"]
  /\ tun = [kept |-> FALSE, up |-> FALSE, holder |-> 0]
  /\ routes = {} /\ saved = {} /\ chains \in BOOLEAN /\ killSwitch = 0
  /\ ipv6 = "on"
  /\ crashed = FALSE /\ wild = FALSE /\ early = FALSE /\ inClear = FALSE

-----------------------------------------------------------------------------
(* VpnConnection and XrayProtocol *)

\* The user connects, also while connected; a connect command carries its number.
OpenConnection ==
  /\ opens < MaxOpens /\ opens' = opens + 1
  /\ queue' = Append(queue, opens + 1)
  /\ UNCHANGED <<closes, ipc>>

CloseConnection ==
  /\ closes < MaxCloses /\ closes' = closes + 1
  /\ queue' = Append(queue, 0)
  /\ UNCHANGED <<opens, ipc>>

UserStep ==
  /\ OpenConnection \/ CloseConnection
  /\ UNCHANGED <<waits, clientVars, calls, pcalls, signals, t2s, kernelVars,
                 histVars>>

\* Mutant: stop() leaves the kill switch on.
StopCallsKeepingSwitch == <<Call("StartRoutingIpv6")>>

\* What stop() asks of the service.  The destructor and the end of xray may
\* repeat it at once, which asks for the same again.
StopCalls == <<Call("disableKillSwitch"), Call("StartRoutingIpv6")>>

CloseProcess == IF process THEN <<CallFor("close", protocol)>> ELSE <<>>

\* The destructor kills xray, whose end is handled as any other: it reports
\* "Disconnected", unless this has been reported or there is no xray to end.
ShownAfterDestroy ==
  IF xray /\ m_connectionState # "Disconnected" THEN "Disconnected" ELSE shown

\* start() of the protocol p: xray may be missing or fail to run, tun2socks may
\* be missing, and otherwise its process is asked for.
Start(p, before) ==
  /\ process' = FALSE
  /\ \/ /\ xray' = FALSE /\ m_connectionState' \in {"Unknown", "Error"}
        /\ shown' = "Error"
        /\ calls' = before
        /\ waits' = Front(waits)
     \/ /\ xray' = TRUE /\ m_connectionState' = "Error"
        /\ shown' = "Error"
        /\ calls' = before
        /\ waits' = Front(waits)
     \/ /\ xray' = TRUE /\ m_connectionState' = "Connecting"
        /\ shown' = "Connecting"
        /\ calls' = Append(before, CallFor("createPrivilegedProcess", p))
        /\ waits' = Append(Front(waits), [for |-> "create", p |-> p])

\* connectToVpn contacts the service anew every time: nothing ever sets the flag
\* that it asks.
InitIpcClient ==
  /\ queue # <<>> /\ Head(queue) # 0
  /\ queue' = Tail(queue)
  /\ ipc' = TRUE
  /\ waits' = Append(waits, [for |-> "init", p |-> Head(queue)])
  /\ UNCHANGED <<opens, closes, clientVars, calls, pcalls, signals, t2s,
                 kernelVars, histVars>>

\* Mutant: the old protocol is destroyed when the new one has been started.
ConnectToVpnStopLast ==
  /\ Waiting("init")
  /\ protocol' = Last(waits).p
  /\ pcalls' = pcalls \o CloseProcess
  /\ process' = FALSE /\ xray' = TRUE
  /\ m_connectionState' = "Connecting" /\ shown' = "Connecting"
  /\ calls' = calls \o <<CallFor("createPrivilegedProcess", Last(waits).p)>>
                    \o (IF protocol # 0 THEN StopCalls ELSE <<>>)
  /\ waits' = Append(Front(waits), [for |-> "create", p |-> Last(waits).p])
  /\ early' = FALSE
  /\ UNCHANGED <<userVars, signals, t2s, kernelVars, crashed, wild, inClear>>

\* The contact is made.  An old protocol is stopped and destroyed, wherever the
\* thread is in it.
ConnectToVpn ==
  /\ Waiting("init")
  /\ protocol' = Last(waits).p
  /\ pcalls' = pcalls \o CloseProcess
  /\ Start(Last(waits).p, IF protocol # 0 THEN calls \o StopCalls ELSE calls)
  /\ early' = FALSE
  /\ UNCHANGED <<userVars, signals, t2s, kernelVars, crashed, wild, inClear>>

\* Mutant: the process is handed to what is m_vpnProtocol by now.
StartTun2SockOfAny(p) ==
  /\ t2s[p] = "created"
  /\ pcalls' = Append(pcalls, CallFor("start", p))
  /\ process' = TRUE
  /\ UNCHANGED <<shown, m_connectionState>>

\* CreatePrivilegedProcess() returns into startTun2Sock() of the protocol p: the
\* process is there, and is started.
StartTun2Sock(p) ==
  /\ t2s[p] = "created"
  /\ pcalls' = Append(pcalls, CallFor("start", p))
  /\ IF p = protocol THEN process' = TRUE ELSE UNCHANGED process
  /\ UNCHANGED <<shown, m_connectionState>>

\* Mutant: the failure is not reported.
CreationFailedSilently(p) ==
  /\ IF p = protocol THEN m_connectionState' = "Error"
                     ELSE UNCHANGED m_connectionState
  /\ UNCHANGED <<shown, pcalls, process>>

\* It could not be made, or not in time; connectToVpn reports the error.
CreationFailed(p) ==
  /\ IF p = protocol THEN m_connectionState' = "Error"
                     ELSE UNCHANGED m_connectionState
  /\ shown' = "Error"
  /\ UNCHANGED <<pcalls, process>>

\* A protocol that was destroyed in the wait is used all the same, which kills
\* the client or not.
ProcessCreated ==
  /\ Waiting("create")
  /\ LET p == Last(waits).p
     IN  /\ StartTun2Sock(p) \/ CreationFailed(p)
         /\ wild' = (wild \/ p # protocol)
         /\ crashed' \in IF p # protocol THEN BOOLEAN ELSE {FALSE}
  /\ waits' = Front(waits)
  /\ UNCHANGED <<userVars, protocol, xray, calls, signals, t2s, kernelVars,
                 early, inClear>>

\* Without a service there is no protocol either, and nothing to wait for.
DisconnectFromVpn ==
  /\ queue # <<>> /\ Head(queue) = 0
  /\ queue' = Tail(queue)
  /\ \/ /\ ipc
        /\ calls' = Append(calls, Call("clearSavedRoutes"))
        /\ waits' = Append(waits, [for |-> "clear"])
        /\ inClear' = FALSE
        /\ UNCHANGED shown
     \/ /\ ~ipc /\ shown' = "Disconnected"
        /\ UNCHANGED <<calls, waits, inClear>>
  /\ UNCHANGED <<opens, closes, ipc, protocol, m_connectionState, xray, process,
                 pcalls, signals, t2s, kernelVars, crashed, wild, early>>

\* The reply to clearSavedRoutes is there or overdue: what is m_vpnProtocol by
\* now is destroyed.
RoutesCleared ==
  /\ Waiting("clear")
  /\ waits' = Front(waits)
  /\ IF protocol = 0
     THEN /\ shown' = "Disconnected"
          /\ UNCHANGED <<calls, pcalls>>
     ELSE /\ shown' = ShownAfterDestroy
          /\ calls' = calls \o StopCalls
          /\ pcalls' = pcalls \o CloseProcess
  /\ protocol' = 0 /\ m_connectionState' = "Unknown"
  /\ xray' = FALSE /\ process' = FALSE
  /\ UNCHANGED <<userVars, signals, t2s, kernelVars, histVars>>

\* Only an exit with an error or by a signal stops the rest.
XrayFinished ==
  /\ xray /\ xray' = FALSE
  /\ m_connectionState' = "Disconnected"
  /\ shown' = ShownAfterDestroy
  /\ \/ UNCHANGED <<calls, pcalls>>
     \/ /\ calls' = calls \o StopCalls
        /\ pcalls' = pcalls \o CloseProcess
  /\ early' = (early \/ m_connectionState # "Connected")
  /\ UNCHANGED <<userVars, waits, protocol, process, signals, t2s, kernelVars,
                 crashed, wild, inClear>>

\* Mutant: the kill switch is left to the service.
SetUpCallsUnguarded(p) ==
  <<Call("createTun"), RouteAdd(DefaultRoute), RouteAdd(ServerRoute(p)),
    Call("StopRoutingIpv6")>>

SwitchCalls(p) == IF p \in Guarded THEN <<CallFor("enableKillSwitch", p)>> ELSE <<>>

SetUpCalls(p) ==
  <<Call("createTun")>> \o SwitchCalls(p)
    \o <<RouteAdd(DefaultRoute), RouteAdd(ServerRoute(p)), Call("StopRoutingIpv6")>>

\* tun2socks runs.  The handler has no context object: it outlives the protocol,
\* whose memory it reads.  VpnConnection adds the routes to the DNS servers.
StateChanged(p) ==
  /\ signals[p] # <<>> /\ Head(signals[p]) = "Running"
  /\ signals' = [signals EXCEPT ![p] = Tail(@)]
  /\ IF p = protocol
     THEN /\ m_connectionState' = "Connected" /\ shown' = "Connected"
          /\ calls' = Append(calls \o SetUpCalls(p), RouteAdd(DnsRoute))
          /\ inClear' = (inClear \/ Contains(waits, [for |-> "clear"]))
          /\ UNCHANGED <<wild, crashed>>
     ELSE /\ wild' = TRUE
          /\ \/ crashed' = TRUE /\ UNCHANGED calls
             \/ calls' = calls \o SetUpCalls(p) /\ UNCHANGED crashed
          /\ UNCHANGED <<m_connectionState, shown, inClear>>
  /\ UNCHANGED <<userVars, waits, protocol, xray, process, pcalls, t2s,
                 kernelVars, early>>

\* tun2socks has ended.  This handler goes with the protocol.
Finished(p) ==
  /\ signals[p] # <<>> /\ Head(signals[p]) = "finished"
  /\ signals' = [signals EXCEPT ![p] = Tail(@)]
  /\ IF p = protocol
     THEN /\ m_connectionState' = "Disconnected"
          /\ shown' = IF m_connectionState = "Disconnected" THEN shown
                                                            ELSE "Disconnected"
          /\ calls' = calls \o <<Call("deleteTun"), Call("StartRoutingIpv6"),
                                 Call("clearSavedRoutes")>>
     ELSE UNCHANGED <<m_connectionState, shown, calls>>
  /\ UNCHANGED <<userVars, waits, protocol, xray, process, pcalls, t2s,
                 kernelVars, histVars>>

ClientStep ==
  /\ ~crashed
  /\ \/ InitIpcClient
     \/ ConnectToVpn
     \/ ProcessCreated
     \/ DisconnectFromVpn
     \/ RoutesCleared
     \/ \E p \in Protocols : StateChanged(p) \/ Finished(p)

-----------------------------------------------------------------------------
(* The service: IpcServer, IpcServerProcess and RouterLinux *)

TunExists == tun.kept \/ tun.holder # 0

\* The device goes, and the routes by way of it with it.
TunGone ==
  /\ tun' = [kept |-> FALSE, up |-> FALSE, holder |-> 0]
  /\ routes' = routes \ TunRoutes

\* A device that tun2socks has open is not made again; it gets its address.
CreateTun ==
  \/ /\ tun' = [tun EXCEPT !.kept = @ \/ tun.holder = 0, !.up = TRUE]
     /\ UNCHANGED <<routes, saved, chains, killSwitch, ipv6>>
  \/ UNCHANGED kernelVars       \* the ip command cannot be run

DeleteTun == TunGone /\ UNCHANGED <<saved, chains, killSwitch, ipv6>>

\* A route is refused by the kernel without a way to its gateway, and if it is
\* there already.
RouteAddList(r) ==
  /\ IF (r \in TunRoutes => TunExists /\ tun.up) /\ r \notin routes
     THEN routes' = routes \cup {r} /\ saved' = saved \cup {r}
     ELSE UNCHANGED <<routes, saved>>
  /\ UNCHANGED <<tun, chains, killSwitch, ipv6>>

ClearSavedRoutes ==
  /\ routes' = routes \ saved /\ saved' = {}
  /\ UNCHANGED <<tun, chains, killSwitch, ipv6>>

\* Anchors are enabled in chains that are taken to be there; without them every
\* command fails, which nobody is told.
EnableKillSwitch(p) ==
  /\ killSwitch' = IF chains THEN p ELSE killSwitch
  /\ UNCHANGED <<tun, routes, saved, chains, ipv6>>

\* LinuxFirewall::uninstall(): nothing in this protocol installs the chains again.
DisableKillSwitch ==
  /\ chains' = FALSE /\ killSwitch' = 0
  /\ UNCHANGED <<tun, routes, saved, ipv6>>

\* Two runs of sysctl; if one cannot be started or does not end in time, the rest
\* is left out, and IPv6 may be on or off.
RoutingIpv6(to) ==
  /\ ipv6' \in {to, "either"}
  /\ UNCHANGED <<tun, routes, saved, chains, killSwitch>>

\* The process interface for p listens; it may not be able to.  What was written
\* to older processes has been read by then: the client writes it first.
CreatePrivilegedProcess(p) ==
  /\ pcalls = <<>>
  /\ \/ t2s' = [t2s EXCEPT ![p] = "created"]
     \/ UNCHANGED t2s
  /\ UNCHANGED kernelVars

\* One call of IpcInterface, in the order in which they were written.
IpcServer ==
  /\ calls # <<>>
  /\ calls' = Tail(calls)
  /\ LET c == Head(calls)
     IN  \/ /\ c.op = "createPrivilegedProcess"
            /\ CreatePrivilegedProcess(c.p)
         \/ /\ UNCHANGED t2s
            /\ \/ c.op = "enableKillSwitch" /\ EnableKillSwitch(c.p)
               \/ c.op = "disableKillSwitch" /\ DisableKillSwitch
               \/ c.op = "StartRoutingIpv6" /\ RoutingIpv6("on")
               \/ c.op = "StopRoutingIpv6" /\ RoutingIpv6("off")
               \/ c.op = "createTun" /\ CreateTun
               \/ c.op = "deleteTun" /\ DeleteTun
               \/ c.op = "routeAddList" /\ RouteAddList(c.route)
               \/ c.op = "clearSavedRoutes" /\ ClearSavedRoutes
  /\ UNCHANGED <<userVars, waits, clientVars, pcalls, signals, histVars>>

\* tun2socks p has ended; a device that nobody made to last goes with it.
Ended(p) ==
  /\ t2s' = [t2s EXCEPT ![p] = "ended"]
  /\ signals' = [signals EXCEPT ![p] = Append(@, "finished")]
  /\ IF tun.holder # p THEN UNCHANGED <<tun, routes>>
     ELSE IF tun.kept THEN tun' = [tun EXCEPT !.holder = 0] /\ UNCHANGED routes
     ELSE TunGone

\* start() asks pkill to end other processes of the same name; but it gives the
\* command as one word, so that nothing is run.  A program that cannot be run
\* sends an error and no signal that the client acts on.
ProcessStart(p) ==
  \/ /\ t2s' = [t2s EXCEPT ![p] = "running"]
     /\ signals' = [signals EXCEPT ![p] = Append(@, "Running")]
     /\ tun' = IF tun.holder = 0 THEN [tun EXCEPT !.holder = p] ELSE tun
     /\ UNCHANGED routes
  \/ /\ t2s' = [t2s EXCEPT ![p] = "failed"]
     /\ UNCHANGED <<signals, tun, routes>>

ProcessClose(p) ==
  IF t2s[p] = "running" THEN Ended(p) ELSE UNCHANGED <<t2s, signals, tun, routes>>

\* One call of an IpcProcessInterface.
IpcServerProcess ==
  /\ pcalls # <<>>
  /\ pcalls' = Tail(pcalls)
  /\ LET c == Head(pcalls)
     IN  \/ c.op = "start" /\ ProcessStart(c.p)
         \/ c.op = "close" /\ ProcessClose(c.p)
  /\ UNCHANGED <<userVars, waits, clientVars, calls, saved, chains, killSwitch, ipv6,
                 histVars>>

\* tun2socks ends by itself, as it must without the device.
Tun2SocksEnds ==
  /\ \E p \in Protocols : t2s[p] = "running" /\ Ended(p)
  /\ UNCHANGED <<userVars, waits, clientVars, calls, pcalls, saved, chains, killSwitch,
                 ipv6, histVars>>

-----------------------------------------------------------------------------
Next ==
  \/ ~crashed /\ UserStep
  \/ ~crashed /\ XrayFinished
  \/ ClientStep
  \/ IpcServer
  \/ IpcServerProcess
  \/ Tun2SocksEnds

Spec == Init /\ [][Next]_vars

\* The client's thread and the service serve what is waiting for them; nothing
\* is assumed of the user, or of the processes that may end.
FairSpec ==
  Spec /\ WF_vars(ClientStep) /\ WF_vars(IpcServer) /\ WF_vars(IpcServerProcess)

-----------------------------------------------------------------------------
(* Properties *)

\* Types; m_t2sProcess is only set in a protocol, and its process was made.
TypeOK ==
  /\ queue \in Seq(0..MaxOpens) /\ ipc \in BOOLEAN /\ waits \in Seq(Waits)
  /\ opens \in 0..MaxOpens /\ closes \in 0..MaxCloses
  /\ shown \in States /\ m_connectionState \in States
  /\ protocol \in 0..MaxOpens /\ xray \in BOOLEAN
  /\ process \in BOOLEAN /\ (process => protocol # 0 /\ t2s[protocol] # "none")
  /\ calls \in Seq(Calls)
  /\ pcalls \in Seq([op : {"start", "close"}, p : Protocols])
  /\ signals \in [Protocols -> Seq({"Running", "finished"})]
  /\ t2s \in [Protocols -> {"none", "created", "running", "failed", "ended"}]
  /\ tun \in [kept : BOOLEAN, up : BOOLEAN, holder : 0..MaxOpens]
  /\ routes \subseteq Routes /\ saved \subseteq Routes
  /\ chains \in BOOLEAN /\ killSwitch \in 0..MaxOpens
  /\ ipv6 \in {"on", "off", "either"}
  /\ crashed \in BOOLEAN /\ wild \in BOOLEAN
  /\ early \in BOOLEAN /\ inClear \in BOOLEAN

\* Nothing is on its way between the client and the service.
AtRest ==
  /\ ~crashed /\ queue = <<>> /\ waits = <<>> /\ calls = <<>> /\ pcalls = <<>>
  /\ \A p \in Protocols : signals[p] = <<>>

\* Once a disconnect is through, the machine is as it was before: no xray, no
\* tun2socks, no kill switch, IPv6 on unless that failed, and no route of ours -
\* unless a destroyed protocol was used, or, for the routes, tun2socks was seen
\* running while they were being cleared: those are added behind the clearing.
DisconnectedMeansRestored ==
  AtRest /\ protocol = 0 /\ ~wild =>
    /\ ~xray /\ \A p \in Protocols : t2s[p] # "running"
    /\ killSwitch = 0 /\ ipv6 # "off"
    /\ routes = {} \/ inClear

\* What is shown as connected is: by a protocol with xray and tun2socks, with IPv6
\* off unless that failed, and, if it is asked for and there are chains for it, a
\* kill switch that lets the server through - unless a destroyed protocol was
\* used, or xray ended first: a tun2socks that starts afterwards is shown as a
\* connection, which not even disconnecting takes back.
ConnectedMeansWhole ==
  AtRest /\ shown = "Connected" /\ ~wild /\ ~early =>
    /\ protocol # 0 /\ xray /\ t2s[protocol] = "running"
    /\ ipv6 # "on"
    /\ protocol \in Guarded /\ chains => killSwitch = protocol

\* The comment in IpcServer::enableKillSwitch says that the firewall is installed
\* and enabled: with the option set, a connection that is shown has the switch on.
\* It has not: the chains are never installed for Xray.
SwitchOn ==
  AtRest /\ shown = "Connected" /\ ~wild /\ ~early /\ protocol \in Guarded =>
    killSwitch = protocol

\* The firewall is never taken down under a connection that is shown: what stop()
\* of an older protocol writes is read before the newer one can connect.
StopServedFirst ==
  [][calls # <<>> /\ calls' = Tail(calls) /\ Head(calls) = Call("disableKillSwitch")
     => shown # "Connected" \/ early]_vars

\* "Connecting" does not last, unless tun2socks cannot be run, which nobody
\* is told, or the client is dead.
ConnectingEnds ==
  shown = "Connecting" ~>
    \/ shown # "Connecting" \/ crashed
    \/ protocol # 0 /\ t2s[protocol] = "failed"

-----------------------------------------------------------------------------
(* The inductive invariant behind them *)

\* x is not in q twice.
Once(q, x) == \A i, j \in 1..Len(q) : q[i] = x /\ q[j] = x => i = j

InitWait(p) == [for |-> "init", p |-> p]
CreateWait(p) == [for |-> "create", p |-> p]
ClearWait == [for |-> "clear"]
CreateCall(p) == CallFor("createPrivilegedProcess", p)
StartCall(p) == CallFor("start", p)
CloseCall(p) == CallFor("close", p)

\* No process has been asked for yet.
Unmade(p) ==
  /\ p # protocol /\ t2s[p] = "none"
  /\ ~Contains(waits, CreateWait(p)) /\ ~Contains(calls, CreateCall(p))

\* Every connect command makes its way once: it is in the queue, then waited for,
\* then its tun2socks is created and started.
OneWay(p) ==
  /\ Once(queue, p) /\ Once(waits, InitWait(p)) /\ Once(waits, CreateWait(p))
  /\ Once(calls, CreateCall(p)) /\ Once(pcalls, StartCall(p))
  /\ p > opens => ~Contains(queue, p) /\ ~Contains(waits, InitWait(p)) /\ Unmade(p)
  /\ Contains(queue, p) => ~Contains(waits, InitWait(p)) /\ Unmade(p)
  /\ Contains(waits, InitWait(p)) => Unmade(p)
  /\ Contains(waits, CreateWait(p)) =>
       ~Contains(pcalls, StartCall(p)) /\ t2s[p] \in {"none", "created"}
  /\ Contains(calls, CreateCall(p)) => t2s[p] = "none"
  /\ Contains(pcalls, StartCall(p)) => t2s[p] = "created"

\* Its tun2socks is seen running first, and to end only when it has.
SignalsInOrder(p) ==
  /\ t2s[p] \in {"none", "created", "failed"} => signals[p] = <<>>
  /\ t2s[p] = "running" => ~Contains(signals[p], "finished")
  /\ \A i \in 1..Len(signals[p]) : signals[p][i] = "Running" => i = 1
  /\ t2s[p] = "ended" /\ Contains(signals[p], "Running") => Contains(signals[p], "finished")

\* The tun2socks of p is still to be seen running.
Coming(p) ==
  \/ Contains(waits, CreateWait(p)) \/ Contains(pcalls, StartCall(p))
  \/ Contains(signals[p], "Running")

\* A protocol is seen running once, with the xray that it has started.
SeenOnce ==
  /\ protocol # 0 =>
       /\ Coming(protocol) => m_connectionState # "Connected" /\ (xray \/ early)
       /\ m_connectionState = "Connected" => t2s[protocol] \in {"running", "ended"}
  /\ shown = "Connected" /\ ~early =>
       /\ protocol # 0 /\ m_connectionState = "Connected" /\ xray
       /\ t2s[protocol] = "running" \/ Contains(signals[protocol], "finished")

\* No call to the operations ops; none after x; the last one is c.
NoneOf(q, ops) == \A i \in 1..Len(q) : q[i].op \notin ops
NoneAfter(q, x, ops) ==
  \A i, j \in 1..Len(q) : q[i] = x /\ i < j => q[j].op \notin ops
LastOf(q, ops, c) ==
  \E i \in 1..Len(q) :
    q[i] = c /\ \A j \in 1..Len(q) : i < j => q[j].op \notin ops

\* The tun2socks of p is closed after it is started.
ClosedLast(q, p) ==
  \E i \in 1..Len(q) :
    q[i] = CloseCall(p) /\ \A j \in 1..Len(q) : i < j => q[j] # StartCall(p)

StopOps == {"disableKillSwitch"}
SwitchOps == {"enableKillSwitch", "disableKillSwitch"}
Ipv6Ops == {"StartRoutingIpv6", "StopRoutingIpv6"}
RouteOps == {"routeAddList"}

\* What the older protocol's stop() has written comes before the creation of the
\* newer one's process.
StopsBefore ==
  ~early =>
    /\ shown = "Connected" \/ (protocol # 0 /\ Coming(protocol) /\ t2s[protocol] # "none") =>
         NoneOf(calls, StopOps)
    /\ protocol # 0 => NoneAfter(calls, CreateCall(protocol), StopOps)

\* The calls on their way leave what a disconnect is to leave.
SwitchGoes ==
  \/ LastOf(calls, SwitchOps, Call("disableKillSwitch"))
  \/ killSwitch = 0 /\ NoneOf(calls, SwitchOps)
Ipv6Returns ==
  \/ LastOf(calls, Ipv6Ops, Call("StartRoutingIpv6"))
  \/ ipv6 # "off" /\ NoneOf(calls, Ipv6Ops)
RoutesGo ==
  \/ LastOf(calls, RouteOps, Call("clearSavedRoutes"))
  \/ routes = {} /\ NoneOf(calls, RouteOps)

\* The calls on their way leave what a connection needs.
SwitchComes ==
  protocol \in Guarded =>
    \/ LastOf(calls, SwitchOps, CallFor("enableKillSwitch", protocol))
    \/ (chains => killSwitch = protocol) /\ NoneOf(calls, SwitchOps)
Ipv6Stops ==
  \/ LastOf(calls, Ipv6Ops, Call("StopRoutingIpv6"))
  \/ ipv6 # "on" /\ NoneOf(calls, Ipv6Ops)

\* A tun2socks that runs, or is to, is the protocol's or will be closed.
Owned(p) ==
  t2s[p] = "running" \/ Contains(pcalls, StartCall(p)) =>
    (process /\ p = protocol) \/ ClosedLast(pcalls, p)

\* What the calls on their way lead to, while no destroyed protocol is used.
EndsWell ==
  /\ routes \subseteq saved
  /\ protocol = 0 => ~xray
  /\ ~wild =>
       /\ protocol = 0 => SwitchGoes /\ Ipv6Returns
       /\ ~inClear /\ (protocol = 0 \/ Contains(waits, ClearWait)) => RoutesGo
       /\ \A p \in Protocols : Owned(p)
       /\ shown = "Connected" /\ ~early => SwitchComes /\ Ipv6Stops

\* The inductive invariant behind DisconnectedMeansRestored, ConnectedMeansWhole
\* and StopServedFirst: what the calls and signals between XrayProtocol and the
\* service have to do with the state of both.
XrayInv ==
  /\ TypeOK /\ (\A p \in Protocols : OneWay(p) /\ SignalsInOrder(p))
  /\ SeenOnce /\ StopsBefore /\ EndsWell
=============================================================================
