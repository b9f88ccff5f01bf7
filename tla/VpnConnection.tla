---------------------------- MODULE VpnConnection ----------------------------
(* The desktop client's connection path for WireGuard and AmneziaWG: the     *)
(* buttons and the ConnectionController on the UI thread, VpnConnection with *)
(* its WireguardProtocol and LocalSocketController on a thread of its own,   *)
(* and the daemon at the other end of a local socket, of which this module   *)
(* keeps only what the client can see (module Daemon has the rest).          *)
(*                                                                           *)
(* The threads talk through queues: connectToVpn and disconnectFromVpn are   *)
(* queued to VpnConnection, its state changes are queued back.  A state that *)
(* the UI thread itself emits is handled on the spot and overtakes them.     *)
EXTENDS Integers, Sequences, SequencesExt

CONSTANTS MaxOpens, MaxCloses,  \* how often the user connects and disconnects
          MaxRetry,             \* MAX_CONNECTION_RETRY
          MaxStops,             \* how often the service goes down
          DeactivateMayFail     \* whether the daemon's deactivate() may fail

ASSUME BoundsAssumption ==
  /\ MaxOpens \in Nat /\ MaxCloses \in Nat /\ MaxStops \in Nat
  /\ MaxRetry \in Nat \ {0}
  /\ DeactivateMayFail \in BOOLEAN

VARIABLES
  \* ConnectionController
  m_state,    \* the state that the UI shows
  waiting,    \* the connections whose configuration a nested event loop awaits
  uiQueue,    \* state changes posted to the UI thread
  opens, closes, stops,
  \* VpnConnection
  vpnQueue,   \* calls posted to its thread
  calls,      \* the calls that are waiting for the IPC service, innermost last
  ipc,        \* IpcClient::Interface() exists
  starting,   \* the request that connectToVpn is working on, or 0
  proto,      \* the request that m_vpnProtocol was made for, or 0
  \* LocalSocketController of m_vpnProtocol
  ctrl,
  inbox,      \* what the daemon has written to its socket
  \* the service process
  up,
  cmds,       \* commands written to each request's socket; a first one that is
              \* being served has its name in -ing
  accepted,   \* the daemon has accepted the socket of proto
  tunnel,     \* the request whose configuration the daemon runs, or 0
  await,      \* the daemon polls for the handshake of the tunnel
  \* history
  leaked,     \* the requests whose stop was not sent, or failed
  crossed     \* when a handshake was last seen, another socket's command was to
              \* take the tunnel down without a word

uiVars == <<m_state, waiting, opens, closes>>
serviceVars == <<up, tunnel, await, stops>>
vars == <<uiVars, uiQueue, vpnQueue, calls, ipc, starting, proto, ctrl, inbox,
          cmds, accepted, leaked, crossed, serviceVars>>

Sockets == 1 .. MaxOpens

States == {"Disconnected", "Preparing", "Connecting", "Connected", "Error"}

NoCtrl == [state |-> "eUnknown", sock |-> "none", retry |-> 0, timer |-> FALSE]

Init ==
  /\ m_state = "Disconnected" /\ waiting = <<>> /\ uiQueue = <<>>
  /\ opens = 0 /\ closes = 0 /\ stops = 0
  /\ vpnQueue = <<>> /\ calls = <<>> /\ ipc = FALSE /\ starting = 0 /\ proto = 0
  /\ ctrl = NoCtrl /\ inbox = <<>>
  /\ up = TRUE /\ cmds = [n \in Sockets |-> <<>>] /\ accepted = FALSE
  /\ tunnel = 0 /\ await = FALSE /\ leaked = {} /\ crossed = FALSE

-----------------------------------------------------------------------------
(* UI thread: ConnectionController and the tray icon *)

UserStep == UNCHANGED <<uiQueue, calls, ipc, starting, proto, ctrl, inbox, cmds,
                        accepted, leaked, crossed, serviceVars>>

\* A missing container or an unsupported protocol ends the attempt at once.
OpenConnection ==
  /\ opens < MaxOpens /\ opens' = opens + 1
  /\ \/ /\ m_state' = "Preparing"
        /\ waiting' = Append(waiting, opens + 1)
     \/ /\ m_state' = "Disconnected"
        /\ UNCHANGED waiting
  /\ UNCHANGED <<closes, vpnQueue>>
  /\ UserStep

CloseConnection ==
  /\ closes < MaxCloses /\ closes' = closes + 1
  /\ vpnQueue' = Append(vpnQueue, [call |-> "disconnect", req |-> 0])
  /\ UNCHANGED <<m_state, waiting, opens>>
  /\ UserStep

\* The big button; while preparing it only asks the user to wait.  The tray's
\* "Connect" is enabled when "Disconnected" is shown, and opens as well.
ToggleConnection ==
  \/ m_state \in {"Connecting", "Connected"} /\ CloseConnection
  \/ m_state = "Disconnected" /\ OpenConnection

TrayDisconnect == m_state # "Disconnected" /\ CloseConnection

\* The settings of the running container were changed: reconnect.
OnCurrentContainerUpdated == m_state # "Disconnected" /\ OpenConnection

\* Mutant: an error leaves the state as it is.
ContinueConnectionStuck ==
  /\ waiting # <<>>
  /\ waiting' = Front(waiting)
  /\ \/ vpnQueue' = Append(vpnQueue, [call |-> "connect",
                                      req |-> Last(waiting)])
     \/ UNCHANGED vpnQueue
  /\ UNCHANGED <<m_state, opens, closes>>
  /\ UserStep

\* The innermost event loop returns: the configuration is there, or an error
\* shows "Disconnected".
ContinueConnection ==
  /\ waiting # <<>>
  /\ waiting' = Front(waiting)
  /\ \/ /\ vpnQueue' = Append(vpnQueue, [call |-> "connect",
                                         req |-> Last(waiting)])
        /\ UNCHANGED m_state
     \/ /\ m_state' = "Disconnected"
        /\ UNCHANGED vpnQueue
  /\ UNCHANGED <<opens, closes>>
  /\ UserStep

\* An error is reported to the user, and the report shows "Disconnected".
OnConnectionStateChanged ==
  /\ uiQueue # <<>>
  /\ m_state' = IF Head(uiQueue) = "Error" THEN "Disconnected"
                ELSE Head(uiQueue)
  /\ uiQueue' = Tail(uiQueue)
  /\ UNCHANGED <<waiting, opens, closes, vpnQueue, calls, ipc, starting, proto,
                 ctrl, inbox, cmds, accepted, leaked, crossed, serviceVars>>

-----------------------------------------------------------------------------
(* VpnConnection's thread *)

Emit(states) == uiQueue' = uiQueue \o states

Write(n, commands) ==
  cmds' = IF ctrl.sock = "open" THEN [cmds EXCEPT ![n] = @ \o commands] ELSE cmds

\* Mutant: the socket is deleted before the command has been flushed.
DeactivateUnflushed(times) ==
  IF ctrl.state = "eReady"
  THEN UNCHANGED <<cmds, leaked>>
  ELSE leaked' = leaked \cup {proto} /\ UNCHANGED cmds

\* deactivate() of the controller, called by stop() and by the destructor: a
\* controller that has not seen the daemon's status sends nothing.
Deactivate(times) ==
  IF ctrl.state = "eReady"
  THEN Write(proto, [i \in 1 .. times |-> "deactivate"]) /\ UNCHANGED leaked
  ELSE leaked' = leaked \cup {proto} /\ UNCHANGED cmds

\* Deleting the protocol closes its socket.
DeleteProtocol ==
  proto' = 0 /\ ctrl' = NoCtrl /\ inbox' = <<>> /\ accepted' = FALSE

\* connectToVpn begins with IpcClient::init and disconnectFromVpn, when there
\* is an interface, with a call of the service.  Both wait in a nested event
\* loop, which serves the queue and the socket: a later call may run inside an
\* earlier one.
BeginCall ==
  /\ starting = 0 /\ vpnQueue # <<>> /\ (calls = <<>> \/ ipc)
  /\ ipc' = (ipc \/ (Head(vpnQueue).call = "connect" /\ up))
  /\ calls' = Append(calls, Head(vpnQueue)) /\ vpnQueue' = Tail(vpnQueue)
  /\ UNCHANGED <<uiVars, uiQueue, starting, proto, ctrl, inbox, cmds, accepted,
                 leaked, crossed, serviceVars>>

\* The innermost waiting call goes on.
Resume(call) ==
  /\ starting = 0 /\ calls # <<>> /\ Last(calls).call = call
  /\ calls' = Front(calls) /\ UNCHANGED ipc

\* connectToVpn up to the deletion of the old protocol, which is stopped by
\* stop() and again by its destructor.
ConnectToVpn ==
  /\ Resume("connect")
  /\ \/ /\ up
        /\ starting' = Last(calls).req
        /\ IF proto = 0
           THEN /\ Emit(<<"Connecting">>)
                /\ UNCHANGED <<proto, ctrl, inbox, accepted, cmds, leaked>>
           ELSE /\ Emit(<<"Connecting", "Disconnected", "Disconnected">>)
                /\ Deactivate(2) /\ DeleteProtocol
     \/ \* IpcClient::init fails
        /\ Emit(<<"Error">>)
        /\ UNCHANGED <<starting, proto, ctrl, inbox, accepted, cmds, leaked>>
  /\ UNCHANGED <<uiVars, vpnQueue, crossed, serviceVars>>

\* The rest: the new protocol connects its socket and writes the activation,
\* whether or not the socket is connected.
StartProtocol ==
  /\ starting # 0
  /\ proto' = starting /\ starting' = 0
  /\ ctrl' = [state |-> "eInitializing", sock |-> IF up THEN "open" ELSE "none",
              retry |-> IF up THEN 0 ELSE 1, timer |-> ~up]
  /\ cmds' = IF up
             THEN [cmds EXCEPT ![starting] = @ \o <<"accept", "status", "activate">>]
             ELSE cmds
  /\ UNCHANGED <<uiVars, uiQueue, vpnQueue, calls, ipc, inbox, accepted, leaked,
                 crossed, serviceVars>>

\* Mutant: nothing is reported when there is no protocol.
DisconnectFromVpnSilent ==
  /\ Resume("disconnect")
  /\ IF proto = 0
     THEN UNCHANGED <<uiQueue, proto, ctrl, inbox, accepted, cmds, leaked>>
     ELSE Emit(<<"Disconnected">>) /\ Deactivate(1) /\ DeleteProtocol
  /\ UNCHANGED <<uiVars, vpnQueue, starting, crossed, serviceVars>>

DisconnectFromVpn ==
  /\ Resume("disconnect")
  /\ Emit(<<"Disconnected">>)
  /\ IF proto = 0
     THEN UNCHANGED <<proto, ctrl, inbox, accepted, cmds, leaked>>
     ELSE Deactivate(1) /\ DeleteProtocol
  /\ UNCHANGED <<uiVars, vpnQueue, starting, crossed, serviceVars>>

-----------------------------------------------------------------------------
(* LocalSocketController, on the same thread *)

SocketStep ==
  UNCHANGED <<uiVars, vpnQueue, calls, ipc, starting, proto, accepted, leaked,
              crossed, serviceVars>>

\* disconnectInternal leaves the controller ready.
Disconnected(c) == [c EXCEPT !.state = "eReady", !.retry = 0, !.timer = FALSE]

\* A message: before the status has come nothing else is understood.  Only
\* daemonConnected asks for the status, so none comes to a ready controller.
ReadData ==
  /\ starting = 0 /\ inbox # <<>>
  /\ inbox' = Tail(inbox)
  /\ \/ /\ ctrl.state = "eInitializing"
        /\ ctrl' = [ctrl EXCEPT !.state = IF Head(inbox) = "status"
                                          THEN "eReady" ELSE @]
        /\ UNCHANGED uiQueue
     \/ /\ ctrl.state = "eReady" /\ Head(inbox) = "connected"
        /\ Emit(<<"Connected">>) /\ UNCHANGED ctrl
     \/ /\ ctrl.state = "eReady" /\ Head(inbox) = "disconnected"
        /\ Emit(<<"Disconnected">>) /\ ctrl' = Disconnected(ctrl)
  /\ UNCHANGED cmds
  /\ SocketStep

\* Mutant: the number of attempts is compared after one too many.
RetryingOnceMore(c) == c.state = "eInitializing" /\ c.retry <= MaxRetry

\* errorOccurred: while initializing, another attempt is made later.
Retrying(c) == c.state = "eInitializing" /\ c.retry < MaxRetry

ErrorOccurred(c) ==
  IF Retrying(c)
  THEN [c EXCEPT !.sock = "none", !.retry = @ + 1, !.timer = TRUE]
  ELSE [Disconnected(c) EXCEPT !.sock = "none"]

\* The socket of a service that went down: errorOccurred, then the signal
\* disconnected of the socket itself.
SocketClosed ==
  /\ starting = 0 /\ ctrl.sock = "dead" /\ inbox = <<>>
  /\ ctrl' = ErrorOccurred(ctrl)
  /\ Emit(IF Retrying(ctrl) THEN <<"Disconnected">>
          ELSE <<"Disconnected", "Disconnected">>)
  /\ UNCHANGED <<inbox, cmds>>
  /\ SocketStep

\* The retry timer: initializeInternal connects again and asks for the status.
InitializingTimer ==
  /\ starting = 0 /\ ctrl.timer
  /\ \/ /\ up
        /\ ctrl' = [ctrl EXCEPT !.sock = "open", !.timer = FALSE]
        /\ cmds' = [cmds EXCEPT ![proto] = @ \o <<"accept", "status">>]
        /\ UNCHANGED uiQueue
     \/ /\ ~up
        /\ ctrl' = ErrorOccurred([ctrl EXCEPT !.timer = FALSE])
        /\ Emit(IF Retrying(ctrl) THEN <<>> ELSE <<"Disconnected">>)
        /\ UNCHANGED cmds
  /\ UNCHANGED inbox
  /\ SocketStep

-----------------------------------------------------------------------------
(* The service process: it has one thread, but a command that waits for       *)
(* wireguard-go serves the event loop, and so the commands of other sockets,  *)
(* before it goes on.                                                         *)

ServiceStep ==
  UNCHANGED <<uiVars, uiQueue, vpnQueue, calls, ipc, starting, proto>>

\* What the daemon writes to every socket, or as the answer to one.
Broadcast(msg) == inbox' = IF accepted THEN Append(inbox, msg) ELSE inbox

Reply(n, msg) == inbox' = IF n = proto THEN Append(inbox, msg) ELSE inbox

\* The next command on the socket of n is c; it is taken off, or goes on as d.
NextIs(n, c) == cmds[n] # <<>> /\ Head(cmds[n]) = c
Serve(n, c) == NextIs(n, c) /\ cmds' = [cmds EXCEPT ![n] = Tail(@)]
Begin(n, c, d) == NextIs(n, c) /\ cmds' = [cmds EXCEPT ![n] = <<d>> \o Tail(@)]

ServeAccept(n) ==
  /\ Serve(n, "accept")
  /\ accepted' = (accepted \/ n = proto)
  /\ UNCHANGED <<ctrl, inbox, leaked, crossed, serviceVars>>
  /\ ServiceStep

ServeStatus(n) ==
  /\ Serve(n, "status")
  /\ Reply(n, "status")
  /\ UNCHANGED <<ctrl, accepted, leaked, crossed, serviceVars>>
  /\ ServiceStep

\* What module Daemon promises of the tunnel, also where commands nest: their
\* steps come in any order, those of one socket one after another.
Tunnel == INSTANCE TunnelService
            WITH Clients <- Sockets, Requests <- Sockets, None <- 0,
                 serving <- cmds

\* activate() has taken down the tunnel before it, or has published its own.
TurnActivate(n) ==
  /\ Begin(n, "activate", "activating")
  /\ Tunnel!Drop \/ Tunnel!Publish(n)
  /\ UNCHANGED <<ctrl, inbox, accepted, leaked, crossed, up, stops>>
  /\ ServiceStep

\* activate() returns.  One that fails may have turned, and leaves what is there.
ServeActivate(n) ==
  /\ \/ Serve(n, "activating") /\ Tunnel!Publish(n) /\ UNCHANGED inbox
     \/ /\ Serve(n, "activate") \/ Serve(n, "activating")
        /\ Tunnel!Leave
        /\ Reply(n, "disconnected")
  /\ UNCHANGED <<ctrl, accepted, leaked, crossed, up, stops>>
  /\ ServiceStep

\* Mutant: "disconnected" is left to the end of deactivate(), and not sent.
TurnDeactivateSilent(n) ==
  /\ Begin(n, "deactivate", "deactivating")
  /\ UNCHANGED <<inbox, ctrl, accepted, leaked, crossed, serviceVars>>
  /\ ServiceStep

\* "disconnected" goes out before anything can fail, and before the first wait.
TurnDeactivate(n) ==
  /\ Begin(n, "deactivate", "deactivating")
  /\ Broadcast("disconnected")
  /\ UNCHANGED <<ctrl, accepted, leaked, crossed, serviceVars>>
  /\ ServiceStep

\* The rest of deactivate() takes down the tunnel that is there by then.
ServeDeactivate(n) ==
  /\ Serve(n, "deactivating")
  /\ \/ Tunnel!Drop /\ UNCHANGED leaked
     \/ /\ DeactivateMayFail /\ tunnel # 0
        /\ leaked' = leaked \cup {tunnel} /\ Tunnel!Leave
  /\ UNCHANGED <<ctrl, inbox, accepted, crossed, up, stops>>
  /\ ServiceStep

\* Another socket's command will take the tunnel down, and the current protocol is
\* not told: a deactivate that has sent its "disconnected", or an activate.
Activations == {"activate", "activating"}
Silent ==
  \E n \in Sockets \ {proto} : \E i \in DOMAIN cmds[n] :
    cmds[n][i] \in Activations \cup {"deactivating"}

CheckHandshake ==
  /\ await
  /\ await' = FALSE
  /\ Broadcast("connected")
  /\ crossed' = Silent
  /\ UNCHANGED <<ctrl, cmds, accepted, leaked, up, tunnel, stops>>
  /\ ServiceStep

\* The service goes down with its tunnel, whose process is in its control
\* group; the service manager starts it again.
ServiceStop ==
  /\ up /\ stops < MaxStops /\ stops' = stops + 1
  /\ up' = FALSE /\ tunnel' = 0 /\ await' = FALSE
  /\ cmds' = [n \in Sockets |-> <<>>] /\ accepted' = FALSE
  /\ ctrl' = [ctrl EXCEPT !.sock = IF @ = "open" THEN "dead" ELSE @]
  /\ UNCHANGED <<inbox, leaked, crossed>>
  /\ ServiceStep

ServiceStart ==
  /\ ~up /\ up' = TRUE
  /\ UNCHANGED <<ctrl, inbox, cmds, accepted, leaked, crossed, tunnel, await, stops>>
  /\ ServiceStep

Ui == OnConnectionStateChanged

User == ToggleConnection \/ TrayDisconnect \/ OnCurrentContainerUpdated

Vpn ==
  \/ BeginCall \/ ConnectToVpn \/ StartProtocol \/ DisconnectFromVpn
  \/ ReadData \/ SocketClosed

Service ==
  \/ \E n \in Sockets :
       \/ ServeAccept(n) \/ ServeStatus(n) \/ TurnActivate(n) \/ ServeActivate(n)
       \/ TurnDeactivate(n) \/ ServeDeactivate(n)
  \/ CheckHandshake

Next ==
  \/ User \/ ContinueConnection \/ Ui
  \/ Vpn \/ InitializingTimer
  \/ Service \/ ServiceStop \/ ServiceStart

Spec == Init /\ [][Next]_vars

\* The event loops of the three threads run, what is fetched for a connection
\* arrives or times out, timers fire and the service is restarted.  The user
\* need not do anything.
FairSpec ==
  /\ Spec
  /\ WF_vars(ContinueConnection) /\ WF_vars(Ui)
  /\ WF_vars(Vpn) /\ WF_vars(InitializingTimer)
  /\ WF_vars(Service) /\ WF_vars(ServiceStart)

-----------------------------------------------------------------------------
(* Properties *)

Commands == {"accept", "status", "activate", "activating", "deactivate", "deactivating"}

\* The variables have their types; the controller makes no more attempts to
\* connect than MAX_CONNECTION_RETRY, and its timer runs only while it has no
\* socket and waits for one.
TypeOK ==
  /\ m_state \in States \ {"Error"}
  /\ waiting \in Seq(1 .. MaxOpens)
  /\ uiQueue \in Seq(States)
  /\ vpnQueue \in Seq([call : {"connect", "disconnect"}, req : 0 .. MaxOpens])
  /\ calls \in Seq([call : {"connect", "disconnect"}, req : 0 .. MaxOpens])
  /\ starting \in 0 .. MaxOpens /\ proto \in 0 .. MaxOpens
  /\ ctrl \in [state : {"eUnknown", "eInitializing", "eReady"},
               sock : {"none", "open", "dead"}, retry : 0 .. MaxRetry,
               timer : BOOLEAN]
  /\ ctrl.timer => ctrl.state = "eInitializing" /\ ctrl.sock = "none"
  /\ inbox \in Seq({"status", "connected", "disconnected"})
  /\ cmds \in [Sockets -> Seq(Commands)]
  /\ up \in BOOLEAN /\ ipc \in BOOLEAN
  /\ accepted \in BOOLEAN /\ await \in BOOLEAN
  /\ tunnel \in 0 .. MaxOpens
  /\ leaked \subseteq Sockets /\ crossed \in BOOLEAN

\* All commands have been served.
Served == \A n \in Sockets : cmds[n] = <<>>

Quiet ==
  /\ uiQueue = <<>> /\ vpnQueue = <<>> /\ calls = <<>>
  /\ inbox = <<>> /\ Served /\ starting = 0 /\ ctrl.sock # "dead"

\* When nothing is on its way between the threads and the daemon, and the UI
\* shows "Connected", there is a protocol object and the daemon has a tunnel:
\* no late "connected" of an older attempt, no broadcast that one of the
\* sockets missed and no restart of the service leaves a false "Connected".
\* Only commands of another socket do that the daemon had not finished by then:
\* a deactivate that has sent its "disconnected", or an activate.
ConnectedMeansUp ==
  Quiet /\ m_state = "Connected" => proto # 0 /\ (tunnel # 0 \/ crossed)

\* The daemon keeps a tunnel that no protocol object of the client stands for
\* only when a stop came before the daemon's status had been read, so that
\* deactivate() sent nothing, or when the daemon failed to deactivate.
OnlyEarlyStopLeavesTunnel ==
  proto = 0 /\ starting = 0 /\ Served /\ tunnel # 0 => tunnel \in leaked

\* A request is in one place at a time, on its way from the UI thread's event
\* loop through the queue and the waiting calls to a protocol, and once it has
\* got there it is in none of them again.  Calls and event loops nest, so that
\* the numbers arrive in any order.
Holds(q, n) == \E i \in DOMAIN q : q[i].req = n
Once(q) == \A i, j \in DOMAIN q : q[i].req = q[j].req /\ q[i].req # 0 => i = j
Awaited(n) == \E i \in DOMAIN waiting : waiting[i] = n
Used(n) == n \in {starting, proto} \/ cmds[n] # <<>>

RequestsOnce ==
  /\ opens \in 0 .. MaxOpens
  /\ \A i, j \in DOMAIN waiting : waiting[i] = waiting[j] => i = j
  /\ Once(vpnQueue) /\ Once(calls)
  /\ \A n \in 1 .. MaxOpens :
       /\ n > opens => ~Awaited(n) /\ ~Holds(vpnQueue, n)
       /\ n > opens \/ Awaited(n) \/ Holds(vpnQueue, n) => ~Holds(calls, n) /\ ~Used(n)
       /\ Awaited(n) => ~Holds(vpnQueue, n)
       /\ Holds(calls, n) => ~Used(n)
  /\ starting # 0 => proto = 0 /\ cmds[starting] = <<>>

\* A command to deactivate is behind the i-th on the socket of n.
Deactivated(n, i) ==
  \E j \in DOMAIN cmds[n] : j > i /\ cmds[n][j] \in {"deactivate", "deactivating"}

\* What the ends of the socket know of each other: a controller without a live
\* socket has nothing of its own on the way to the daemon, nor a tunnel there, and
\* a protocol is not stopped before it is let go.
SocketOK ==
  /\ ~up => Served /\ tunnel = 0 /\ ~accepted /\ ctrl.sock # "open"
  /\ proto = 0 => ctrl = NoCtrl
  /\ proto # 0 => ctrl.state # "eUnknown"
  /\ ctrl.sock # "open" => ~accepted /\ (proto # 0 => tunnel # proto /\ cmds[proto] = <<>>)
  /\ ctrl.sock = "none" => inbox = <<>>
  /\ proto # 0 => ~Deactivated(proto, 0)
  /\ await => tunnel # 0

\* Every tunnel, and every activation on the way to the daemon, is the current
\* protocol's, or a command to end it is behind it, or its stop was lost.
TunnelsOwned ==
  /\ tunnel # 0 => tunnel \in leaked \cup {proto} \/ Deactivated(tunnel, 0)
  /\ \A n \in Sockets : \A i \in DOMAIN cmds[n] :
       cmds[n][i] \in Activations => n \in leaked \cup {proto} \/ Deactivated(n, i)

\* What the UI will show when it has served its queue.
Upcoming == IF uiQueue = <<>> THEN m_state ELSE Last(uiQueue)

\* The tunnel is there, or its activation is about to publish it or to fail, or
\* the protocol will be told that there is none: by a message behind the n-th in
\* its inbox or by the loss of its socket - or the handshakes were crossed.
Activating == NextIs(proto, "activating")

Backed(n) ==
  /\ ctrl.sock = "open" => accepted
  /\ \/ (tunnel # 0 \/ Activating) /\ ~Silent
     \/ crossed \/ ctrl.sock = "dead"
     \/ \E i \in DOMAIN inbox : i > n /\ inbox[i] = "disconnected"

ConnectedBacked ==
  /\ Upcoming = "Connected" =>
       proto # 0 /\ ctrl.state = "eReady" /\ ctrl.sock # "none" /\ Backed(0)
  /\ \A i \in DOMAIN inbox : inbox[i] = "connected" => proto # 0 /\ Backed(i)

\* The inductive invariant behind ConnectedMeansUp and OnlyEarlyStopLeavesTunnel:
\* what VpnConnection, LocalSocketController and the daemon know of each other
\* while calls, commands and answers are on their way.
ClientInv ==
  TypeOK /\ RequestsOnce /\ SocketOK /\ TunnelsOwned /\ ConnectedBacked

\* ControllerImpl says of deactivate(): "This method terminates the VPN
\* tunnel."  When the client has let go of its protocol, by stop() and by the
\* destructor, and all commands are served, the daemon has no tunnel.
DeactivateTerminates ==
  proto = 0 /\ starting = 0 /\ Served => tunnel = 0

\* "Preparing", in which the button does nothing, does not last: whatever
\* nested attempts, errors and late state changes there are.
PreparingEnds == m_state = "Preparing" ~> m_state # "Preparing"

\* Every disconnectFromVpn is answered: the UI shows "Disconnected" at some
\* time after it, also when there is no protocol or a reconnect replaced it.
CloseAnswered ==
  (\E i \in 1 .. Len(vpnQueue) : vpnQueue[i].call = "disconnect")
    ~> m_state = "Disconnected"
=============================================================================
