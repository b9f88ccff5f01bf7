------------------------------- MODULE Daemon -------------------------------
(***************************************************************************)
(* The privileged WireGuard daemon on Linux: Daemon (daemon/daemon.cpp),   *)
(* driving WireguardUtilsLinux, LinuxRouteMonitor, DnsUtilsLinux and       *)
(* IPUtilsLinux for the commands of DaemonLocalServerConnection.           *)
(*                                                                         *)
(* Everything runs on one thread, but waitForTunnelName() and every UAPI   *)
(* command spin the event loop with processEvents() while they wait for    *)
(* wireguard-go.  Another connection's command, or the handshake timer,    *)
(* then runs to its end (or to its own wait) inside the waiting call: the  *)
(* calls in progress form a stack, and only the top one moves.  A socket   *)
(* does not emit readyRead from within its own readyRead, so a client has  *)
(* at most one command on the stack.                                       *)
(***************************************************************************)
EXTENDS Naturals, FiniteSets

CONSTANTS
  Clients,    \* connections accepted by DaemonLocalServer
  Keys,       \* server public keys
  Ifaces,     \* the fields supportServerSwitching() compares, as one value
  Hosts,      \* excluded addresses that are single addresses
  Nets,       \* excluded addresses that are subnets "a.b.c.d/n"
  Ranges,     \* allowed address ranges
  Defaults,   \* those of prefix length 0
  Configs,    \* the InterfaceConfigs clients send
  NoConfig,   \* no configuration
  Gateways,   \* default gateways the host may have
  MaxDepth,   \* bound: nested calls
  MaxCount    \* bound: references to an excluded address before a new activate

Addrs == Hosts \cup Nets

\* LocalSocketController sends the host name of the server as its address, as
\* the gateway that supportServerSwitching() compares and as the first excluded
\* address, and never a hop type: there is at most one connection.
ASSUME DaemonAssumption ==
  /\ Hosts \cap Nets = {} /\ Defaults \subseteq Ranges
  /\ Configs \subseteq [key : Keys, iface : Ifaces, server : Hosts,
                        excl : SUBSET Addrs, ranges : SUBSET Ranges,
                        killSwitch : BOOLEAN]
  /\ \A c \in Configs : c.server \in c.excl
  /\ \A c, d \in Configs : c.iface = d.iface => c.server = d.server
  /\ NoConfig \notin Configs
  /\ Gateways # {} /\ "timer" \notin Clients
  /\ MaxDepth \in Nat \ {0} /\ MaxCount \in Nat

VARIABLES
  connection,    \* m_connections: the one config, or NoConfig
  dated,         \* its m_date is valid: the handshake was seen
  excluded,      \* m_excludedAddrSet: references per address, 0 for none
  timer,         \* m_handshakeTimer is active
  ifname,        \* m_ifname is set
  tunnel,        \* m_tunnel, the wireguard-go process
  rtmonitor,     \* m_rtmonitor is not null
  resolvers,     \* m_ifindex > 0: link DNS is set on the interface
  firewall,      \* the config the kill-switch rules were made from, or NoConfig
  peers,         \* wireguard-go: keys of the configured peers
  shook,         \* wireguard-go: peers with a completed handshake
  tunnelRoutes,  \* kernel: ranges routed through the interface
  exclRoutes,    \* kernel: excluded addresses, each through a gateway
  gateway,       \* the host's default gateway
  depth,         \* number of calls in progress
  frame          \* the calls in progress, the top one is frame[depth]

connVars == <<connection, dated, timer>>
exclVars == <<excluded, exclRoutes, gateway>>
wgVars   == <<tunnel, peers, shook, tunnelRoutes>>
hostVars == <<ifname, rtmonitor, resolvers, firewall>>
callVars == <<depth, frame>>
vars == <<connVars, exclVars, wgVars, hostVars, callVars>>

Pcs == {"activate", "begin", "name", "conf", "exclude", "peer", "finish",
        "deactivate", "delpeer", "down",
        "switch", "swpeer", "swdel", "swdone", "poll", "none"}
ActivatePcs == {"activate", "begin", "name", "conf", "exclude", "peer", "finish",
                "switch", "swpeer", "swdel", "swdone"}
WaitPcs == {"conf", "peer", "delpeer", "swpeer", "swdel", "poll"}
\* The state of the UAPI command a call waits for: it has none, the command is
\* sent, answered, lost with the process, or could not be sent.
Acks == {"none", "sent", "ok", "lost", "refused"}
Frame == [by : Clients \cup {"timer"}, cfg : Configs \cup {NoConfig},
          last : Configs \cup {NoConfig}, pc : Pcs, ack : Acks,
          got : SUBSET Keys]

Call(by, cfg, pc, ack) ==
  [by |-> by, cfg |-> cfg, last |-> NoConfig, pc |-> pc, ack |-> ack, got |-> {}]
NoFrame == Call("timer", NoConfig, "none", "none")

Top == frame[depth]
At(pc) == depth > 0 /\ Top.pc = pc

\* Mutant: an address is known from its second reference on.
CountedTwice == {a \in Addrs : excluded[a] > 1}

\* The keys of m_excludedAddrSet.
Counted == {a \in Addrs : excluded[a] > 0}

Init ==
  /\ connection = NoConfig /\ dated = FALSE /\ timer = FALSE
  /\ excluded = [a \in Addrs |-> 0] /\ exclRoutes = {}
  /\ gateway \in Gateways
  /\ tunnel = "off" /\ peers = {} /\ shook = {} /\ tunnelRoutes = {}
  /\ ifname = FALSE /\ rtmonitor = FALSE /\ resolvers = FALSE
  /\ firewall = NoConfig
  /\ depth = 0 /\ frame = [d \in 1..MaxDepth |-> NoFrame]

-----------------------------------------------------------------------------
(* The stack of calls. *)

\* The top call spins the event loop: in waitForTunnelName(), or in
\* uapiCommand() once its socket is connected.
Spinning == depth > 0 => Top.pc = "name" \/ Top.ack \in {"sent", "ok", "lost"}

\* Mutant: events are delivered although the call does not spin the loop.
CanRunAnywhere(by) ==
  /\ depth < MaxDepth
  /\ by \in Clients => \A d \in 1..depth : frame[d].by # by

\* Mutant: a socket emits readyRead from within its own readyRead.
CanRunTwice(by) == Spinning /\ depth < MaxDepth

CanRun(by) ==
  /\ Spinning /\ depth < MaxDepth
  /\ by \in Clients => \A d \in 1..depth : frame[d].by # by
Push(call) ==
  depth' = depth + 1 /\ frame' = [frame EXCEPT ![depth + 1] = call]
Goto(pc) ==
  depth' = depth /\ frame' = [frame EXCEPT ![depth] = [Top EXCEPT !.pc = pc, !.ack = "none"]]
Return == depth' = depth - 1 /\ frame' = [frame EXCEPT ![depth] = NoFrame]

\* uapiCommand(): the socket connects while wireguard-go runs.
Sent == IF ifname /\ tunnel = "running" THEN "sent" ELSE "refused"
Command(pc, last) ==
  /\ depth' = depth
  /\ frame' = [frame EXCEPT ![depth] = [Top EXCEPT !.pc = pc, !.last = last, !.ack = Sent]]

\* The end of the process takes the UAPI sockets, the interface and its routes.
HungUp(f) == IF f.ack = "sent" THEN [f EXCEPT !.ack = "lost"] ELSE f
TunnelGone == tunnel' = "off" /\ peers' = {} /\ shook' = {} /\ tunnelRoutes' = {}

-----------------------------------------------------------------------------
(* Commands and the timer. *)

\* parseCommand("activate") with a config that parses.
AskActivate(c, cfg) ==
  /\ CanRun(c) /\ \A a \in Addrs : excluded[a] <= MaxCount
  /\ Push(Call(c, cfg, "activate", "none"))
  /\ UNCHANGED <<connVars, exclVars, wgVars, hostVars>>

\* parseCommand("deactivate").
AskDeactivate(c) ==
  /\ CanRun(c)
  /\ Push(Call(c, NoConfig, "deactivate", "none"))
  /\ UNCHANGED <<connVars, exclVars, wgVars, hostVars>>

\* checkHandshake() up to the wait of getPeerStatus().
TimerFires ==
  /\ timer /\ CanRun("timer")
  /\ timer' = FALSE
  /\ Push(Call("timer", NoConfig, "poll", Sent))
  /\ UNCHANGED <<connection, dated, exclVars, wgVars, hostVars>>

-----------------------------------------------------------------------------
(* Daemon::activate(). *)

Switchable(cfg) == connection # NoConfig /\ connection.iface = cfg.iface

Activate ==
  /\ At("activate")
  /\ Goto(IF connection = NoConfig THEN "begin"
          ELSE IF Switchable(Top.cfg) THEN "switch" ELSE "deactivate")
  /\ UNCHANGED <<connVars, exclVars, wgVars, hostVars>>

\* The interface is added unless the process of an earlier attempt still runs.
Begin ==
  /\ At("begin")
  /\ IF tunnel # "off"
     THEN Goto("exclude") /\ UNCHANGED wgVars
     ELSE \/ /\ tunnel' = "running" /\ Goto("name")
             /\ UNCHANGED <<peers, shook, tunnelRoutes>>
          \/ Return /\ UNCHANGED wgVars
  /\ UNCHANGED <<connVars, exclVars, hostVars>>

\* addInterface() once waitForTunnelName() has the name.
TunnelNamed ==
  /\ At("name") /\ tunnel = "running"
  /\ ifname' = TRUE /\ rtmonitor' = TRUE
  /\ depth' = depth
  /\ frame' = [frame EXCEPT ![depth] = [Top EXCEPT !.pc = "conf", !.ack = "sent"]]
  /\ UNCHANGED <<connVars, exclVars, wgVars, resolvers, firewall>>

\* addInterface() without a name: m_tunnel.kill().
TunnelUnnamed ==
  /\ At("name")
  /\ ifname' = FALSE
  /\ tunnel' = IF tunnel = "off" THEN "off" ELSE "dying"
  /\ Return
  /\ UNCHANGED <<connVars, exclVars, peers, shook, tunnelRoutes, rtmonitor,
                 resolvers, firewall>>

\* The rest of addInterface(): the kill switch, for an interface configured.
Configured ==
  /\ At("conf") /\ Top.ack = "ok"
  /\ firewall' = IF Top.cfg.killSwitch THEN Top.cfg ELSE firewall
  /\ Goto("exclude")
  /\ UNCHANGED <<connVars, exclVars, wgVars, ifname, rtmonitor, resolvers>>

\* The command of addInterface() or updatePeer(), or switchServer()'s last
\* deletePeer(), fails or times out: the caller returns as it stands.
CommandFails ==
  /\ depth > 0 /\ Top.pc \in {"conf", "peer", "swpeer", "swdel"}
  /\ Return
  /\ UNCHANGED <<connVars, exclVars, wgVars, hostVars>>

\* addExclusionRoute() for each excluded address, then updatePeer() up to its
\* wait; with no route monitor only references to known addresses are added.
Exclude(pc) ==
  LET new == IF rtmonitor THEN Top.cfg.excl ELSE Top.cfg.excl \cap Counted
      add == IF rtmonitor THEN (Top.cfg.excl \ Counted) \cup {Top.cfg.server} ELSE {}
  IN /\ excluded' = [a \in Addrs |-> excluded[a] + (IF a \in new THEN 1 ELSE 0)]
     /\ exclRoutes' = exclRoutes \cup (add \X {gateway})
     /\ Command(pc, connection)
     /\ UNCHANGED <<connVars, gateway, wgVars, hostVars>>

AddPeer == At("exclude") /\ Exclude("peer")

PeerAdded ==
  /\ At("peer") /\ Top.ack = "ok"
  /\ Goto("finish")
  /\ UNCHANGED <<connVars, exclVars, wgVars, hostVars>>

\* if_nametoindex() knows the interface.
Indexed == ifname /\ tunnel # "off"

\* maybeUpdateResolvers(), addInterfaceIPs(), setMTUAndUp() and the routes.
Finish ==
  /\ At("finish") /\ Indexed
  /\ Top.cfg.ranges # {} => rtmonitor
  /\ resolvers' = TRUE
  /\ tunnelRoutes' = tunnelRoutes \cup Top.cfg.ranges
  /\ connection' = Top.cfg /\ dated' = FALSE /\ timer' = TRUE
  /\ Return
  /\ UNCHANGED <<exclVars, tunnel, peers, shook, ifname, rtmonitor, firewall>>

\* One of them fails: no later one is tried, none is undone.
FinishFails ==
  /\ At("finish")
  /\ resolvers' = Indexed
  /\ tunnelRoutes' \in
       {tunnelRoutes \cup R : R \in IF Indexed /\ rtmonitor THEN SUBSET Top.cfg.ranges ELSE {{}}}
  /\ Return
  /\ UNCHANGED <<connVars, exclVars, tunnel, peers, shook, ifname, rtmonitor, firewall>>

-----------------------------------------------------------------------------
(* Daemon::deactivate(), on its own or inside activate(). *)

\* deleteRoutePrefix() removes the halves of a default route and inserts any
\* other route.
Unrouted(ranges) ==
  IF rtmonitor /\ tunnel # "off"
  THEN (tunnelRoutes \ (ranges \cap Defaults)) \cup (ranges \ Defaults)
  ELSE tunnelRoutes
\* deletePeer() and deleteExclusionRoute() of the kernel routes.
Unexcluded(addrs) ==
  IF rtmonitor THEN exclRoutes \ (addrs \X {gateway}) ELSE exclRoutes

\* Up to the wait of deletePeer().
Deactivate ==
  /\ At("deactivate")
  /\ resolvers' = FALSE
  /\ IF tunnel = "off"
     THEN Return /\ UNCHANGED <<tunnelRoutes, exclRoutes>>
     ELSE IF connection = NoConfig
     THEN Goto("down") /\ UNCHANGED <<tunnelRoutes, exclRoutes>>
     ELSE /\ tunnelRoutes' = Unrouted(connection.ranges)
          /\ exclRoutes' = Unexcluded({connection.server})
          /\ Command("delpeer", connection)
  /\ UNCHANGED <<connVars, excluded, gateway, tunnel, peers, shook, ifname,
                 rtmonitor, firewall>>

\* deactivate() ignores what deletePeer() returns.
PeerDeleted ==
  /\ At("delpeer")
  /\ Goto("down")
  /\ UNCHANGED <<connVars, exclVars, wgVars, hostVars>>

\* The excluded addresses, deleteInterface() and m_connections.clear(); inside
\* activate() the recursive call finds no connection and begins.
Down ==
  /\ At("down")
  /\ exclRoutes' = Unexcluded(Counted)
  /\ excluded' = [a \in Addrs |-> 0]
  /\ rtmonitor' = FALSE
  /\ IF tunnel = "off"
     THEN Return /\ UNCHANGED <<connVars, wgVars, firewall>>
     ELSE /\ TunnelGone
          /\ firewall' = NoConfig
          /\ connection' = NoConfig /\ dated' = FALSE /\ timer' = timer
          /\ LET next == IF Top.cfg = NoConfig THEN NoFrame
                         ELSE [Top EXCEPT !.pc = "begin", !.ack = "none"]
             IN frame' = [d \in 1..MaxDepth |->
                            IF d = depth THEN next ELSE HungUp(frame[d])]
          /\ depth' = IF Top.cfg = NoConfig THEN depth - 1 ELSE depth
  /\ UNCHANGED <<gateway, ifname, resolvers>>

-----------------------------------------------------------------------------
(* Daemon::switchServer() and what activate() does after it. *)

SwitchPeer == At("switch") /\ Exclude("swpeer")

\* Mutant: the reference is dropped without looking at the count.
ReleasedBelowZero(last) ==
  [a \in Addrs |-> IF a \in last.excl \cap Hosts THEN excluded[a] - 1 ELSE excluded[a]]

\* delExclusionRoute(QHostAddress(i)): a subnet does not parse as an address,
\* so that nothing known is looked up and nothing is removed.
Released(last) ==
  [a \in Addrs |->
    IF a \in last.excl \cap Hosts /\ excluded[a] > 0 THEN excluded[a] - 1 ELSE excluded[a]]

\* Mutant: the last reference is dropped but its route stays.
FreedNever(last) == {a \in last.excl \cap Hosts : excluded[a] <= 0}
\* Mutant: the route goes although other references are left.
FreedAlways(last) == last.excl \cap Hosts

\* The addresses whose last reference goes: their routes are deleted.
Freed(last) == {a \in last.excl \cap Hosts : excluded[a] <= 1}

\* Mutant: the old peer is deleted even when it is the new one.
SamePeerNever(cfg, last) == FALSE

\* The old peer is the new one.
SamePeer(cfg, last) == cfg.key = last.key

SwitchRoutes ==
  /\ At("swpeer") /\ Top.ack = "ok"
  /\ LET last  == Top.last
         added == IF rtmonitor /\ tunnel # "off" THEN Top.cfg.ranges ELSE {}
     IN /\ excluded' = Released(last)
        /\ tunnelRoutes' = added \cup Unrouted(last.ranges \ Top.cfg.ranges)
        /\ IF SamePeer(Top.cfg, last)
           THEN /\ exclRoutes' = Unexcluded(Freed(last))
                /\ connection' = Top.cfg /\ dated' = FALSE
                /\ Goto("swdone")
           ELSE /\ exclRoutes' = Unexcluded(Freed(last) \cup {last.server})
                /\ UNCHANGED <<connection, dated>>
                /\ Command("swdel", last)
  /\ UNCHANGED <<timer, gateway, tunnel, peers, shook, hostVars>>

OldPeerDeleted ==
  /\ At("swdel") /\ Top.ack = "ok"
  /\ connection' = Top.cfg /\ dated' = FALSE
  /\ Goto("swdone")
  /\ UNCHANGED <<timer, exclVars, wgVars, hostVars>>

\* restoreResolvers(), maybeUpdateResolvers() and the end of activate().
Switched ==
  /\ At("swdone")
  /\ resolvers' = Indexed
  /\ IF Indexed
     THEN connection' = Top.cfg /\ dated' = FALSE /\ timer' = TRUE
     ELSE UNCHANGED connVars
  /\ Return
  /\ UNCHANGED <<exclVars, wgVars, ifname, rtmonitor, firewall>>

-----------------------------------------------------------------------------
\* Mutant: a poll that failed is not repeated.
PolledOnce ==
  /\ At("poll")
  /\ LET pending == connection # NoConfig /\ ~dated /\ Top.ack = "ok"
         done == connection.key \in Top.got
     IN /\ dated' = (dated \/ (pending /\ done))
        /\ timer' = (timer \/ (pending /\ ~done))
  /\ Return
  /\ UNCHANGED <<connection, exclVars, wgVars, hostVars>>

\* checkHandshake() after getPeerStatus(), which is empty when it fails.
Polled ==
  /\ At("poll")
  /\ LET pending == connection # NoConfig /\ ~dated
         done == Top.ack = "ok" /\ connection.key \in Top.got
     IN /\ dated' = (dated \/ (pending /\ done))
        /\ timer' = (timer \/ (pending /\ ~done))
  /\ Return
  /\ UNCHANGED <<connection, exclVars, wgVars, hostVars>>

-----------------------------------------------------------------------------
(* wireguard-go, its peers and the network. *)

\* wireguard-go executes a command and answers.
Uapi(d) ==
  /\ tunnel = "running" /\ frame[d].ack = "sent"
  /\ LET f == frame[d]
     IN /\ peers' = CASE f.pc = "conf" -> {}
                      [] f.pc \in {"peer", "swpeer"} -> peers \cup {f.cfg.key}
                      [] f.pc \in {"delpeer", "swdel"} -> peers \ {f.last.key}
                      [] OTHER -> peers
        /\ frame' = [frame EXCEPT ![d] = [f EXCEPT !.ack = "ok",
                       !.got = IF f.pc = "poll" THEN shook ELSE {}]]
  /\ shook' = shook \cap peers'
  /\ UNCHANGED <<connVars, exclVars, hostVars, depth, tunnel, tunnelRoutes>>

Handshake(k) ==
  /\ tunnel = "running" /\ k \in peers \ shook
  /\ shook' = shook \cup {k}
  /\ UNCHANGED <<connVars, exclVars, hostVars, callVars, tunnel, peers, tunnelRoutes>>

\* wireguard-go exits; tunnelErrorOccurred() only tells the clients.
TunnelExits ==
  /\ tunnel # "off" /\ TunnelGone
  /\ frame' = [d \in 1..MaxDepth |-> HungUp(frame[d])]
  /\ UNCHANGED <<connVars, exclVars, hostVars, depth>>

\* The host moves to another network.
GatewayChanges ==
  /\ gateway' \in Gateways \ {gateway}
  /\ UNCHANGED <<connVars, excluded, exclRoutes, wgVars, hostVars, callVars>>

-----------------------------------------------------------------------------
Request == \E c \in Clients : AskDeactivate(c) \/ \E cfg \in Configs : AskActivate(c, cfg)

Step ==
  \/ Activate \/ Begin \/ TunnelNamed \/ TunnelUnnamed \/ Configured \/ CommandFails
  \/ AddPeer \/ PeerAdded \/ Finish \/ FinishFails
  \/ Deactivate \/ PeerDeleted \/ Down
  \/ SwitchPeer \/ SwitchRoutes \/ OldPeerDeleted \/ Switched
  \/ Polled

Environment ==
  \/ \E d \in 1..depth : Uapi(d)
  \/ \E k \in Keys : Handshake(k)
  \/ TunnelExits \/ GatewayChanges

Next == Request \/ TimerFires \/ Step \/ Environment

Spec == Init /\ [][Next]_vars

\* The event loop always comes back to the call that spins it, and every wait
\* has a timeout; the timer fires; wireguard-go answers far within the timeout,
\* so that not every answer is late.
Fairness ==
  /\ WF_vars(Step) /\ SF_vars(Polled) /\ WF_vars(TimerFires)
  /\ SF_vars(\E d \in 1..depth : Uapi(d))

FairSpec == Spec /\ Fairness

\* A client that never gives up asking.
PersistentSpec ==
  /\ FairSpec
  /\ \A c \in Clients :
       SF_vars(AskDeactivate(c)) /\ \A cfg \in Configs : SF_vars(AskActivate(c, cfg))

-----------------------------------------------------------------------------
(* Properties. *)

\* The fields of Daemon and WireguardUtilsLinux, what they have set up in the
\* kernel and in wireguard-go, and the calls in progress are well typed; no
\* reference count of an excluded address is ever negative.
TypeOK ==
  /\ connection \in Configs \cup {NoConfig} /\ dated \in BOOLEAN /\ timer \in BOOLEAN
  /\ excluded \in [Addrs -> Nat]
  /\ exclRoutes \subseteq Addrs \X Gateways /\ gateway \in Gateways
  /\ tunnel \in {"off", "running", "dying"}
  /\ peers \subseteq Keys /\ shook \subseteq peers /\ tunnelRoutes \subseteq Ranges
  /\ ifname \in BOOLEAN /\ rtmonitor \in BOOLEAN /\ resolvers \in BOOLEAN
  /\ firewall \in Configs \cup {NoConfig}
  /\ depth \in 0..MaxDepth /\ frame \in [1..MaxDepth -> Frame]

Idle == depth = 0
Connected == Idle /\ connection # NoConfig /\ tunnel = "running"

\* checkHandshake() is a single-shot poll: a connection whose handshake was not
\* seen is polled again, whatever ran inside the waits, as long as its tunnel
\* runs.  Either the timer is armed, or a call that arms it is in progress.
PollAlive ==
  connection # NoConfig /\ ~dated /\ tunnel = "running" =>
    timer \/ \E d \in 1..depth : frame[d].pc \in {"poll", "swdone"}

\* What a call is in the middle of fits what it was called with, and only the
\* top call is anywhere but in a wait.
StackOK ==
  /\ \A d \in 1..MaxDepth :
       /\ frame[d].pc \in ActivatePcs => frame[d].cfg \in Configs
       /\ frame[d].pc \in {"delpeer", "swpeer", "swdel"} => frame[d].last \in Configs
       /\ frame[d].ack # "none" => frame[d].pc \in WaitPcs
  /\ \A d \in 1..depth : d < depth => frame[d].pc \in WaitPcs \cup {"name"}
  /\ At("begin") => connection = NoConfig
  /\ At("switch") \/ At("swdone") => connection # NoConfig

\* A running tunnel without a name has no connection, nor a switch in progress
\* that could make one before the name is known.
NamedOK ==
  tunnel = "running" /\ ~ifname =>
    /\ connection = NoConfig
    /\ \A d \in 1..depth : frame[d].pc \in {"swpeer", "swdel"} =>
         \E e \in 1..depth : e > d /\ frame[e].pc = "name"

\* The inductive invariant behind PollAlive: the calls on the stack are as
\* activate(), deactivate(), switchServer() and checkHandshake() leave them
\* whenever they spin the event loop.
StackInv == TypeOK /\ StackOK /\ NamedOK /\ PollAlive

\* An exclusion route bypasses the tunnel and outlives it: none may be left in
\* the kernel that m_excludedAddrSet, from which deactivate() and switchServer()
\* remove them, does not know.
NoRouteForgotten == \A r \in exclRoutes : r[1] \in Counted

\* A finished activate() of the connection added its peer to the process that
\* runs now, and nothing has removed it.
PeerInstalled == Connected => connection.key \in peers

\* The server stays reachable outside the tunnel that its packets carry.
ServerExcluded == Connected => \E g \in Gateways : <<connection.server, g>> \in exclRoutes

\* With one client only polls run inside the waits of its command.
OneCall ==
  /\ \A d \in 1..depth : frame[d].pc # "poll" => frame[d].by \in Clients
  /\ \A d, e \in 1..depth : frame[d].pc # "poll" /\ frame[e].pc # "poll" => d = e

\* The connection is there from the end of one activate() to the end of the next
\* deactivate(), and the interface has its route monitor but while it is named.
CallsOK ==
  /\ tunnel = "dying" => connection = NoConfig
  /\ tunnel = "running" /\ ~rtmonitor => \E d \in 1..depth : frame[d].pc = "name"
  /\ \A d \in 1..depth :
       LET pc == frame[d].pc
       IN /\ pc \in {"begin", "name", "conf", "exclude", "peer", "finish"} => connection = NoConfig
          /\ pc \in {"switch", "swpeer", "swdel", "swdone"} => connection # NoConfig
          /\ pc = "finish" \/ (pc = "peer" /\ frame[d].ack \in {"sent", "ok"}) => tunnel # "dying"
          /\ pc \in {"delpeer", "down"} => ~resolvers

\* The references and the route that keep the server of a config outside the
\* tunnel, and its peer in the running process.
Held(cfg, n) ==
  excluded[cfg.server] >= n /\ \E g \in Gateways : <<cfg.server, g>> \in exclRoutes
Served(cfg) == cfg.key \in peers /\ Held(cfg, 1)

\* activate() has installed what it goes on to publish as the connection, and
\* switchServer() holds a second reference before it drops the first.
ServedOK ==
  /\ /\ connection # NoConfig /\ tunnel = "running"
     /\ \A d \in 1..depth : frame[d].pc \notin {"delpeer", "down"}
     => Served(connection)
  /\ \A d \in 1..depth :
       LET f == frame[d]
       IN /\ f.pc = "peer" /\ tunnel = "running" =>
               Held(f.cfg, 1) /\ (f.ack = "ok" => f.cfg.key \in peers)
          /\ f.pc = "finish" /\ tunnel = "running" => Served(f.cfg)
          /\ f.pc \in {"switch", "swpeer", "swdone"} => f.cfg.iface = connection.iface
          /\ f.pc = "swpeer" =>
               f.last = connection /\ (tunnel = "running" => Held(f.cfg, 2))
          /\ f.pc # "swdel"

\* The inductive invariant behind PeerInstalled, ServerExcluded and
\* LeavesNothing, when one client sends one key for each interface.
OneClientInv == OneCall /\ CallsOK /\ ServedOK

\* When deactivate() brings the tunnel down, nothing of it is left behind.
LeavesNothing ==
  [][connection # NoConfig /\ connection' = NoConfig =>
       exclRoutes' = {} /\ ~resolvers' /\ firewall' = NoConfig /\ tunnelRoutes' = {}]_vars

\* A completed handshake is noticed unless a client's command interferes.
HandshakeNoticed ==
  (connection # NoConfig /\ ~dated /\ tunnel = "running" /\ connection.key \in shook)
    ~> (dated \/ tunnel # "running" \/ \E d \in 1..depth : frame[d].by # "timer")

\* Where an activate() has taken the old connection down, found none, or made
\* its own in switchServer().
TurnedPcs == {"begin", "name", "conf", "exclude", "peer", "finish", "swdone"}

\* The commands of a client that are in progress.
Serving ==
  [c \in Clients |-> {<<frame[d].cfg, frame[d].pc \in TurnedPcs>> :
                        d \in {e \in 1..depth : frame[e].by = c}}]

Contract == INSTANCE TunnelService
              WITH Requests <- Configs, None <- NoConfig,
                   tunnel <- connection,
                   await <- connection # NoConfig /\ ~dated,
                   serving <- Serving

\* Whatever runs inside the waits of activate(), deactivate(), switchServer()
\* and checkHandshake(), the clients see a tunnel service: m_connections only
\* ever becomes the configuration of an activation that is being served, or is
\* cleared by a command, an activation clears or replaces it only once before it
\* is answered, and no client has two commands in progress.
ImplementsTunnelService == Contract!Spec

\* "Remove routing entries for the old peer": after switchServer() no range of
\* the old configuration alone is routed through the tunnel.
OldRoutesRemoved ==
  At("swdone") => tunnelRoutes \cap (Top.last.ranges \ Top.cfg.ranges) = {}

\* "the VPN is off: the method tries to enable the VPN": commands bring the
\* daemon back from the loss of its tunnel.
Revives == (Idle /\ connection # NoConfig /\ tunnel = "off")
             ~> (connection = NoConfig \/ tunnel # "off")
=============================================================================
