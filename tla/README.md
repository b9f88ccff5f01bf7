# A formal model of AmneziaVPN's connection management

This directory holds TLA+ specifications of the parts of AmneziaVPN that
decide whether a tunnel is up and whether the user is told the truth about it:
the Android VPN service and its route computation, the privileged WireGuard
daemon, the desktop client's path from the button to that daemon, Xray over
the privileged service, and the list of servers that every connection starts
from. TLC checks them on small instances and TLAPS proves theorems about all of
them for every value of their constants.

`PROJECT.json` lists the components, the runs, the mutants, the source lines
behind every definition, the hazards and the theorems. The definitions keep the
names of the source where they can.

    tlc -config Client.cfg MCVpnConnection      # a run
    tlapm DaemonProofs.tla                      # a proof

## 1. The system

AmneziaVPN is a VPN client in C++/Qt for desktop and mobile systems, with an
Android service in Kotlin, a packet tunnel in Swift for iOS, and, on desktop
systems, a privileged service that owns tunnels, routes and firewall rules.

| Component | State it keeps | Operations | Interacts with |
|---|---|---|---|
| **Android VPN service** `AmneziaVpnService.kt`, protocol classes | `protocolState` (a conflated flow), `vpnProto`, two job fields, the tunnel of the protocol object, bindings, the network callback | connect, disconnect, reconnect, revoke, bind/unbind, register/unregister, destroy, kill timer | clients by messages and binding; protocol objects by calls on the IO pool; the OpenVPN library by callbacks from a thread of its own |
| **Android routes** `IpRange.kt`, `IpRangeSet.kt` | a sorted set of address ranges | add, remove, subnets | `ProtocolConfig.processRoutes`, before a tunnel is built |
| **Daemon** `daemon.cpp` with the Linux utilities | the connection and its handshake date, reference counts of excluded addresses, the handshake timer, the wireguard-go process, routes, resolvers, firewall | activate, deactivate, switchServer, checkHandshake | clients by local sockets; wireguard-go by UAPI; kernel by netlink |
| **Desktop connection path** `connectionController.cpp`, `vpnconnection.cpp`, `wireguardprotocol.cpp`, `localsocketcontroller.cpp` | the state shown, the protocol object, the socket controller's state and retries | open, close, toggle, reconnect, state changes, retries | two threads by queued signals; the daemon by a socket |
| **Xray on Linux** `xrayprotocol.cpp`, `vpnprotocol.cpp` | the protocol object, its state, the xray process, the handle of tun2socks | start, stop, destroy, handlers of both processes | `VpnConnection`; the IPC service |
| **IPC service and routers** `ipc/`, `service/server/` | saved routes, helper processes, kill switch, IPv6 | remote calls, one at a time | `IpcClient`; system commands |
| Desktop OpenVPN, Shadowsocks, Cloak, IKEv2 | process and management-socket state | start, stop, state lines | `VpnConnection`; helper processes through IPC |
| macOS/Windows daemons, route monitor, firewall | as the Linux utilities | the same interface | kernel |
| **Server models and settings** `servers_model.cpp`, `containers_model.cpp`, `settings.cpp` | the list of servers, in memory and stored; default and processed index; containers with their cached profiles | add, remove, edit, select, reset, restore | settings file, all controllers |
| **Installation and API** `installController.cpp`, `apiController.cpp` | what is being waited for | scripts over SSH, HTTP requests | server models |
| Import, export, share formats | none | parse, print | server models |
| Android activity, tile, Qt bridge; iOS controller and tunnel | mirrors of the tunnel's state | bind, start, stop | the VPN service; NetworkExtension |
| Network watcher, ping helper; UI pages | timers, pages | | |

Vendored code (`client/3rd`, the ovpn3 bindings, `service/src/qtservice`),
images, translations and deployment scripts are left aside.

**What is hard in it.** The Android service reads shared fields from two
thread pools and joins jobs in both directions. The daemon is single-threaded
but spins its event loop while it waits for wireguard-go, so commands nest
inside commands. The desktop client spins nested event loops on both of its
threads, and its controller holds a socket to a daemon that may fail or
restart. Xray's protocol object can be destroyed inside its own `start()`. Servers
are addressed by their place in a list that changes while replies, scripts and a
worker thread are under way. Several teardown steps can fail, and the caller often goes on. The
range set deletes from a collection while it iterates and works at the ends of
two address families. `PROJECT.json` lists each such hazard at its line, with
the properties that watch it; section 5 has those that no property watches.

**What makes each component correct.**
*Service:* never two tunnels; none in DISCONNECTED; a disconnect always reaches
the tunnel there is; the network callback follows the state; every job ends; a stopped service ends.
*Routes:* the ranges stand for exactly the addresses added and not removed.
*Daemon:* the handshake poll is not lost; no exclusion route is forgotten; an
idle connected daemon has its peer and the route to its server; deactivation
leaves nothing behind; only a command that is being served changes the tunnel.
*Client:* no false "Connected"; no tunnel left that nobody knows of; every
request is answered.
*Xray:* a disconnect restores the machine; "Connected" is whole; the firewall is
not taken down under it; "Connecting" ends.
*Servers:* the stored list is the one shown; the indices mean the servers they
meant; nothing is written to another server's entry; a connection is made of one
server's data.

## 2. Modules

| Module | Role |
|---|---|
| `AmneziaVpnService` | the Android service, with one step per access to shared state |
| `AmneziaVpnServiceProofs` | proofs about `AmneziaVpnService` |
| `AddressSet` | abstract specification: a set of addresses |
| `IpRangeSet` | the range set; refines `AddressSet` |
| `IpRangeSetProofs` | proofs about `IpRangeSet` |
| `Daemon` | the daemon with its stack of nested calls |
| `DaemonProofs` | proofs about `Daemon` with any clients |
| `DaemonOneClientProofs` | proofs about `Daemon` with one client; extends `DaemonProofs` |
| `TunnelService` | abstract specification: what the daemon promises to its clients |
| `DaemonContractProofs` | proof that `Daemon` implements `TunnelService`; extends `DaemonProofs` |
| `VpnConnection` | the desktop client, composed with a daemon that acts as `TunnelService` says |
| `VpnConnectionProofs` | proofs about `VpnConnection` |
| `XrayProtocol` | Xray: `VpnConnection`'s thread composed with the IPC service, its processes and the kernel |
| `XrayProtocolProofs` | proofs about `XrayProtocol` |
| `ServersModel` | settings, models, controllers and the worker thread of a connection |
| `ServersModelProofs` | proofs about `ServersModel` |
| `MC*` | instances for TLC: configurations, symmetry sets |

### AmneziaVpnService

Handlers of the main thread (`ConnectCheck`, `DisconnectCheck`, `Bind`, ...) are
cut where a job may write `protocolState` between the handler's check and its
own write, so `connectToVpn()` is `ConnectCheck`, `ConnectState`, `ConnectLaunch`
(or `ConnectDenied`). A coroutine is a record in `jobs`, cut at every shared
access and every suspension: `ConnectRead` reads `disconnectionJob`,
`ConnectJoined` waits for it, `StartVpn` creates the tunnel, `ConnectPublish` or
`ConnectFail` writes the state. `CollectTake` and `CollectAct` are the collector
of the conflated flow: it sees only the latest value, and `VpnStateStore.store`
suspends it between taking a value and acting on it. `kind` selects the protocol
class of the process; `Client*` are the callbacks of the OpenVPN library.
`ClientError` is an error event that is not fatal: DISCONNECTED is set and the
client lives on. `ConnectInvalid` and `ConnectRefused` are the check of the state
and the write of DISCONNECTED for a request that cannot be served.

Requests come at any time and in any order: from the application, the tile, an old
notification, `onRevoke()`, or always-on. Two histories tell apart what the service
does of its own accord: `crossed`, a connect request was let through before the
coroutines of the requests before it had ended (in DISCONNECTING or RECONNECTING,
or over a coroutine that is late), and `erred`, an OpenVPN client has survived an
error. `Orderly` is neither.

### IpRangeSet

An address is its rank in the order of `IpAddress.compareTo`: IPv4 first, then
IPv6. So the last IPv4 and the first IPv6 address are neighbours in the order
although `inc()` overflows between them, which is what `isMaxIp` and `isMinIp`
guard. The bytes of an address are abstracted to an integer, and the bit
operations on them to division by powers of two, which are the recursive function
`BlockSize`: the size of a network that leaves so many bits to its hosts. `todo` is what the iterator has
still to return; each loop iteration is a step. `FirstSubnet` is one turn of the
loop of `subnets()`. The refinement mapping `Denotation` adds the pending part of
a running call, so the abstract operation happens at the call and every
iteration is a stutter.

### Daemon

`frame[1..depth]` is the call stack. The top call moves; a client's command or
the timer is pushed when the top call spins the event loop (`Spinning`). A UAPI
command has the states sent, ok, lost (with the process) and refused. `Top.last`
is the local `lastConfig`. `Activate`, `Begin`, `TunnelNamed`, `Configured`,
`AddPeer`, `PeerAdded`, `Finish` are `activate()`, cut at its waits; `Deactivate`,
`PeerDeleted`, `Down` are `deactivate()`; `SwitchPeer`, `SwitchRoutes`,
`OldPeerDeleted`, `Switched` are `switchServer()`. Everything between two waits is
one step. Each step may fail where the code can return false. The conversion
`QHostAddress(i)` of a subnet and the `insertRoute` in `deleteRoutePrefix` are
modelled as they are. The client never sends a hop type, so `m_connections` has
at most one entry.

`TunnelService` is what is left of all this for the clients: at most one tunnel,
whose handshake is seen or not, and for each client the command being served. An
activation *turns* once, by taking the old tunnel down or publishing its own in
its place, and is answered then; it may fail before or after it has turned, and
leaves what is there. The refinement mapping `Serving` reads the client's
command off the stack; it has turned when its program counter is in `TurnedPcs`.
Everything in the kernel is a stutter, and so are the polls of the timer but for
the one that sees the handshake.

### VpnConnection

The UI thread has the state shown (`m_state`) and a stack `waiting` of
connections that wait for their configuration in a nested event loop, innermost
last. Calls to the VPN thread and state changes back are queues (`vpnQueue`,
`uiQueue`); a state that the UI thread emits itself is applied at once and so
overtakes the queue. On the VPN thread, `BeginCall` starts a queued call,
which waits in the nested event loop of `IpcClient::init` or of
`clearSavedRoutes`; calls that begin meanwhile run inside it (`calls`). `ctrl`
is the `LocalSocketController`: its state, socket, retries and timer.

The daemon is what the client can see of it: it accepts a socket, answers the
status, serves an activation in two steps (`TurnActivate`, `ServeActivate`) and a
deactivation in two (`TurnDeactivate` broadcasts "disconnected", `ServeDeactivate`
takes down whatever tunnel is there by then, or fails), and broadcasts
"connected". What these steps do to the tunnel are the effects `Drop`, `Publish` and
`Leave` of `TunnelService`. `cmds` has a queue of commands for each socket: those of
one socket are served one after another, and those of different sockets in any
order, also one inside another, since `uapiCommand()` spins the event loop.
`crossed` notes at every handshake whether another socket's command is still to
take the tunnel down without telling the current protocol: a deactivation that has
sent its "disconnected", or an activation. A stopping service takes its tunnel with it
(`aboutToQuit`, and wireguard-go is in the service's control group), and is
started again (`Restart=always` in the unit file).

An error of the VPN thread is shown as "Disconnected", because the handler of
`connectionErrorOccurred` emits that state from within the handling of the error.

### XrayProtocol

`waits` is the stack of calls of the VPN thread that spin an event loop: in
`IpcClient::init` (`InitIpcClient`, then `ConnectToVpn`), in
`CreatePrivilegedProcess` (`Start`, then `ProcessCreated`) and for the reply to
`clearSavedRoutes` (`DisconnectFromVpn`, then `RoutesCleared`). Only the innermost
returns; everything else the thread can do happens in between. `calls` are the
calls written to `IpcInterface`, in order; `pcalls` those written to a tun2socks
process over a socket of its own. The two overtake each other, except that a new
process is created after what was written to older ones has been read: the
client writes it first, and the service serves all its sockets in turn.
`signals[p]` is what process p has sent back. The service is there throughout, so a
failed `IpcClient::init` is left out here; `VpnConnection` has it.

`Guarded` are the connects with `killSwitchOption` set. `chains` says whether
LinuxFirewall's chains are in the kernel: only the WireGuard daemon installs them, so
at first they may be there or not, `DisableKillSwitch` removes them, and
`EnableKillSwitch` has an effect only with them. `ipv6` is "either" when one of the
two runs of sysctl has failed.

Destroying a protocol is `StopCalls`, `CloseProcess` and the report of xray's end
from within the destructor (`ShownAfterDestroy`); repeated stops ask for the same
again and are one. A protocol that is used after it was destroyed (`ProcessCreated`
and `StateChanged` with p other than `protocol`) kills the client or goes on,
and sets `wild`. `killProcessByName` ends nothing: Qt 6 takes its command for the
name of a program. Kernel: tun2 goes with the tun2socks that opened it unless
`createTun` found it missing and made it to last; routes by way of it go with it.

### ServersModel

`m` holds what one thread changes in one piece: the stored list with its default
index, the model's copy, the processed index, and the containers that
ContainersModel shows. Its operators carry the names of the methods. Handlers that
wait are `frames`, innermost last: for a script on the server (behind a popup), for
the gateway's reply, or for the worker thread of a connection, which changes the
model in five steps (`ReadIndex`, `ReadSettings`, `WriteSettings`, `ReadBack`,
`ApplyEdit`) while the UI thread goes on: what the settings do is done on the UI
thread and waited for, and the copy is replaced on the worker's own. Requests to the other API (`telegram`) are answered
later, with the place they were sent for. Servers have an identity only in
the model. The pages' conditions (`InUse`, `OnPage`, `Modal`) are part of the
actions' guards. The list and the default index are two keys of the settings, each
on the disk before the next is written. `EndInRemoval`, `EndInAddition` and
`EndInRestore` end the program between the two: in `removeServer()`, between
`addServer()` and the page that makes the new server the default one, and in
`restoreAppConfig()`.

`hist` names what has gone wrong so far. Each step adds to it what has just come
to be so (`Signs`):

- *strayed*: a handler waits whose server is no longer the processed one, or whose
  server or containers ContainersModel does not show, or a page shows the
  containers of another server than its own;
- *shifted*: a reply or a worker is under way to a place that has another server
  now, or none;
- *raced*: what a worker is about to store, in the settings or in the copy, is
  outdated;
- *moved*: the server in use is no longer both the default and the processed one;
- *torn*: the program ended between the writes of list and default index;
- *stubbed*: a profile is only an MTU;
- *refused*, *garbled*: a refresh was refused, or a reply could not be read.

Every property names the signs under which the code does not keep it, so it also
says that nothing else breaks it.

## 3. Runs

| Run | Instance | Shows |
|---|---|---|
| `service` | 3 jobs, any request at any time, all three classes | `OneTunnel`, `DisconnectedMeansDown`, `OrderlyInv`, `ListenerFollowsState`, `ServiceInv`, `OnlyJoinCycleHangs` |
| `service_stuck` | 2 jobs | violates `StopEnds` |
| `ranges` | 8 IPv4 and 2 IPv6 addresses, all networks | `TypeOK`, `Separated`, `SubnetsExact`, `ImplementsAddressSet` |
| `daemon_one` | 1 client, 1 gateway, 2 servers, excluded sites and subnets, stack of 2 | `PeerInstalled`, `ServerExcluded`, `OneClientInv`, `NoRouteForgotten`, `LeavesNothing`, `HandshakeNoticed` |
| `daemon_two` | 2 clients, 2 gateways, a server whose key and whose client's key change, stack of 2 | `StackInv`, `ImplementsTunnelService` |
| `daemon_routes` | a split and an unsplit configuration | violates `OldRoutesRemoved` |
| `daemon_revive` | one configuration, a client that keeps asking | violates `Revives` |
| `client` | 2 connects, 1 disconnect, 1 restart, 2 retries, nested commands | `ConnectedMeansUp`, `OnlyEarlyStopLeavesTunnel`, `ClientInv`, `PreparingEnds`, `CloseAnswered` |
| `client_cancel` | 1 connect, 1 disconnect, nothing fails | violates `DeactivateTerminates` |
| `xray` | 2 connects, 1 disconnect, every process may fail or end | `DisconnectedMeansRestored`, `ConnectedMeansWhole`, `XrayInv`, `StopServedFirst`, `ConnectingEnds` |
| `xray_switch` | 1 connect with the kill switch asked for | violates `SwitchOn` |
| `servers` | 4 servers, 2 of them from the APIs; an empty backup; 2 edits, 2 connections, 2 waiting handlers | `ServersInv`, `Mirrored`, `DefaultValid`, `DefaultContainerInstalled`, `Distinct`, `NoWildIndex`, `OwnProfiles`, `ConnectsToOne`, `UsedServerKept`, `DefaultKept`, `OnlyRemovalRemoves`, `ErrorsOfOthers` |

`StackInv`, `ServiceInv`, `OrderlyInv`, `OneClientInv`, `ClientInv`, `XrayInv` and
`ServersInv` are the inductive invariants of section 4. The runs check that they
hold in every reachable state; the proofs, that no step leaves them. All but
`OrderlyInv` and `OneClientInv` have the type invariant of their module as a conjunct, so no run
lists that again.

**Bounds.** `MaxJobs` is the number of coroutines: two make every pair of
connect, disconnect and reconnect, with the one of `onDestroy()` on top; three
let a job outlive two others. A third coroutine is looked at only where the requests
are in order, nobody is bound and the service is not being stopped
(`ThirdInOrder`): elsewhere `OneTunnel` says nothing, and `OnlyJoinCycleHangs` is
checked for two. There is one protocol; the proofs cover any number of protocols
and jobs. `MaxDepth = 2` makes every pair of nested calls,
and the proofs cover every depth. With `MaxCount = 1` an activation starts
only while no address has more than one reference, so that counts reach two, or
three when activations nest. In `ranges`, three bits of
IPv4 allow four disjoint, non-adjacent ranges at most and every split; the two
IPv6 addresses are there for the border between the families. In `client`, two
connects give a reconnect, a nested attempt, a stale answer and commands of two
sockets inside each other. The threads of the client lag behind by three messages
at most (`ShortQueues`), and its liveness is checked within that bound; the proofs of
the safety properties cover any number of requests and messages. `MaxRetry` stands for
`MAX_CONNECTION_RETRY`; its value matters only for reaching it. In `xray`, three
commands give every nesting of a connect in a connect or a disconnect and back, the
first with the kill switch and the second without.
In `servers`, one edit and one command that wait in each other, with a connection and its worker beside them, are enough for every sign
in `hist` to occur; two servers of the user's and one of each API are the fewest
that can be taken for each other. A behaviour is followed until a third sign
appears (`FewSigns`), when hardly a property says anything of it; the proofs
cover what comes after, and every other bound.

Symmetry is used for the clients of `daemon_two`, which checks only safety.
Deadlock is not checked where the bounded requests run out, or the service ends:
the runs of the service, of the client and of Xray.

**Fairness.** *Service:* the main looper finishes a handler it has begun and the
IO pool runs what it was given (weak fairness); the collector and the destruction
of a stopped service are not starved by other messages of the looper (strong
fairness). *Daemon:* the event loop returns to the call that spins it, every wait
has a timeout, the timer fires, and wireguard-go answers some commands in time.
`Revives` adds a client that never stops asking. *Client:* the event loops run,
what is fetched arrives or fails, timers fire, the service is restarted. For what is
fetched over SSH this is an assumption about the server: `ssh_channel_read`
(`sshclient.cpp:152`) has no timeout of its own. *Xray:*
the client's thread and the service go on with what is waiting for them; processes
may end or not. The user
is never assumed to do anything.

### What the violations show

- `service_stuck`: a connect job has been launched and has not run when the service
  is stopped. `onDestroy()` launches a disconnect job and blocks the main thread on
  it. The connect job reads `disconnectionJob` only now and joins it, the disconnect
  job joins the connect job, and the kill timer is on the blocked thread.
- `daemon_routes`: `deleteRoutePrefix()` inserts what it should delete.
- `daemon_revive`: when wireguard-go has exited, `deactivate()` returns before it
  forgets the connection, and `activate()` goes through it.
- `client_cancel`: a stop before the daemon's status was read sends nothing; the
  activation written before it is served.
- `xray_switch`: nothing in Xray's path installs the chains in which
  `enableKillSwitch()` enables its anchors, although its comment says so. Unless a
  WireGuard tunnel of a service that was killed has left them, "Connected" is shown
  with no kill switch.

`OnlyEarlyStopLeavesTunnel` is the other side of the last one: it shows that this
and a failing `deactivate()` are the only ways to lose track of a tunnel.

### What the exceptions say

The properties of `service`, `client`, `xray` and `servers` are kept by the code but
for races that they name, and each exception is needed: without it TLC finds a
violation. A race that a property names is one that it does not catch: what the
property says is that nothing else breaks it. (For
`moved` in `DefaultValid` and `raced` in `Distinct` and `DefaultKept` that takes
three edits, `MaxEdits = 3`; the others show in the runs as they are.)

- *Service.* `connectToVpn()` refuses a request only in CONNECTED and CONNECTING. One
  that comes while an OpenVPN session reconnects starts a second tunnel; one whose
  configuration is invalid shows DISCONNECTED over the tunnel that is up, which
  `disconnect()` then refuses to end (`crossed`). So does an error event that is not
  fatal (`erred`). Disconnects, revocations, reconnects, late events and time-outs
  at any moment do not.
- *Client.* A `deactivate()` of an older socket that waits for wireguard-go serves
  the activation of a newer one; when it goes on, it takes down that tunnel, whose
  handshake has been reported, and "Connected" stays (`crossed`).
- *Xray.* A disconnect or a second connect that is served while `start()` waits
  for the service destroys the protocol under it; a "Running" on its way at a
  disconnect finds it destroyed. What is set up then nobody takes down (`wild`).
  A "Running" served while a disconnect waits adds its routes behind the clearing
  (`inClear`). An xray that ends first is shown as "Disconnected" and then, by its
  tun2socks, as "Connected", which a disconnect does not take back (`early`).
  A tun2socks that cannot be run leaves "Connecting" for ever. IPv6 is as it should
  be only if sysctl could be run.
- *Servers.* The signs above; the most frequent is the simplest: the tray
  connects to the default server with the containers of the one whose page is open.
  A backup that is restored resets ServersModel but not ContainersModel, whose
  containers the home page goes on to offer for the new default server.

### Mutants

Every property of a passing run has a mutant: an operator, written next to the
original, that changes it as a plausible bug would (a dropped guard, a missing
reset, an off-by-one). With the mutant in place TLC finds the property violated.

## 4. Proofs

**DaemonProofs** (every set of clients, configurations, addresses and gateways,
every depth of nesting; assumptions: `DaemonAssumption`).
`StackInv = TypeOK /\ StackOK /\ NamedOK /\ PollAlive` is inductive. `PollAlive`
alone is not: a poll is restarted by a call that sits somewhere in the stack, so
one must know what the frames below the top can be. `StackOK` says that they are
in waits and carry the configurations their position needs, and `NamedOK` relates
the waits to the interface's name. General lemmas tell what `Goto`, `Command`,
`Push` and `Return` do to the stack; then there is a lemma per action. From it:

- `StackInvariant`, `TypeCorrect`, `HandshakePollAlive` (`PollAlive`);
- `RoutesRemembered`: for one gateway, `NoRouteForgotten`. The strengthening
  `RoutesInv` adds that without a route monitor nothing is counted, which is why
  a call that finds no monitor cannot forget a route.

With several gateways `NoRouteForgotten` fails: routes are deleted by way of the
current gateway. The theorem states the assumption.

**IpRangeSetProofs** (address families of every size, any set of input ranges;
assumptions: `LastAssumption`, `InputsAssumption`, `MaskAssumption`). `RangeInv` is
inductive: ranges and split pieces are pairwise apart, what the iterator has passed
is apart from the range in hand, and neither meets the range being removed. The
early exits from the loops are sound because of the order of the iterator. From it:

- `NormalForm`: between calls the set is `Separated`;
- `RangeSetImplementsAddressSet`: every step refines a step or a stutter of
  `AddressSet`.

For `subnets()`, `CutInv` is inductive with it: at every turn of the loop the
networks cut off so far are networks of the family (`NetsOK`) and disjoint
(`NetsApart`), the rest of the range in hand and the ranges to come do not meet them
(`RestApart`), and together they cover the set (`CutExact`). A turn keeps that
because the network it chooses begins where the rest begins and ends no later
(`FirstSubnetFits`), which needs the sizes of networks to be powers of two that
divide each other (`SmallerBlocks`). These are facts about a recursive function for
every number of bits. The library's induction theorems have an operator as a
parameter, which the provers cannot instantiate; so `NumberInduction` states
induction for a *set* of numbers and derives it from the least element of its
complement (`SmallestNumber`), and `BlockSizeDef` shows from it that the recursive
definition defines a function. From it `CutInvariant`, `TypeCorrect` and
`SubnetsAreExact` (`SubnetsExact`).

**DaemonOneClientProofs** (every set of configurations, addresses and gateways,
every depth of nested polls). What a connection has in the kernel depends on who
else sends commands, so the theorems are about one client (`OneClient`), as the
desktop application is. A command then only nests around polls of the timer.
`PeerInstalled` and `ServerExcluded` also need `OneKey`: configurations for the
same interface have the same private key. The key is part of the interface, and
the client makes a fresh one for every server it is configured for; without
`OneKey` TLC finds a `switchServer()` that gives the server another public key and
deletes the peer or the route that both share. `OneClientInv` is
`OneCall /\ CallsOK /\ ServedOK`: at most one command is on the stack and the rest
are polls; for each wait in it, what the command has done so far (in particular
how many references the server's address has, which is why a switch between two
configurations of one server does not drop its route); and what a served
connection has in the kernel. From it `OneClientInvariant`, `PeerStaysInstalled`,
`ServerStaysExcluded`; and, together with `RoutesInv`, `NothingLeft`: with one
gateway, `LeavesNothing`.

**DaemonContractProofs** (every set of clients and configurations, every depth of
nesting). `DaemonImplementsTunnelService`: `Spec => ImplementsTunnelService`. A step
changes the top call only, so the frames below it must not matter to what a client
sees; `CallersOK` adds to `StackInv` that a client has one call on the stack and that
exactly the polls are the timer's. General lemmas say what a step that keeps, moves,
pushes or returns the top call does to `Serving`, and which step of `TunnelService`
that is; `StepSimulates` then goes through the actions.

**VpnConnectionProofs** (any number of connects, disconnects, retries and restarts
of the service; assumptions: `BoundsAssumption`). `ClientInv` is inductive:

- `RequestsOnce`: a request is in one place at a time, in the stack of the UI
  thread, its queue, the stack of calls, or the commands of the daemon, so nothing
  is served twice and a stale answer can be told from a new one;
- `SocketOK`: what the controller's state, its socket and the answers in it have to
  do with each other;
- `TunnelsOwned`: a tunnel belongs to the protocol object, or a deactivation for
  it is behind it on its socket, or its protocol is among those that were stopped
  early;
- `ConnectedBacked`: whichever queue a "Connected" is in, what comes behind it in
  that queue takes it back if its tunnel is gone, unless an activation of the same
  socket is in progress, which will publish its own or be answered with
  "disconnected", or the handshake was `crossed`.

`ConnectedMeansUp` speaks of a client at rest, so without the last part, which
follows a "connected" from the daemon through two queues, nothing could be said of
the step that brings it to rest. From it `ClientInvariant`, `TypeCorrect`,
`ConnectedIsUp`, `EarlyStopOnly`.

To state what the client's daemon and `Daemon` have in common showed that an earlier
version of the former allowed too little: an activation was one step, and one that
fails left the old tunnel or none. In the code the old tunnel is gone while the
activation is still going on, and a switch whose last step fails leaves the new
connection published, so that "connected" follows the "disconnected" it was answered
with. Both are steps of `TunnelService` now, and the theorems hold with them.

**AmneziaVpnServiceProofs** (all three kinds of protocol, any number of jobs and of
protocols; assumptions: `ServiceAssumption`). `ServiceInv` is inductive for requests
in any order, and gives `ServiceInvariant`, `TypeCorrect` and `ListenerFollows`.
`OrderlyInv` is inductive with it, for all requests, and says what holds as long as
`Orderly` does: before the first connect there is nothing to disconnect or to
reconnect (`NothingBefore`); an attempt begins when everything before it has ended,
and until it has ended itself nobody reconnects and every disconnect job waits for
it, because `connectionJob` still is that attempt (`AttemptAwaited`); there is one
tunnel, and the protocol object that `stopVpn()` is called on holds it
(`TunnelReached`); no tunnel is behind DISCONNECTED (`DownIsDown`). Several
disconnect jobs may run at once. It gives `OrderlyInvariant`, `OneTunnelOnly` and
`DownIsShown`.

**XrayProtocolProofs** (any number of connects and disconnects; assumptions:
`BoundsAssumption`). The three properties are about a client and a service between
which nothing is on its way; `XrayInv` says what must hold while something is:

- `OneWay` and `SignalsInOrder`: every connect command is in one place of its way
  through queue, waits, calls and process, at most once;
- `SeenOnce`: a tun2socks that is still to be seen running belongs to a protocol
  that is not "Connected" yet, so xray's end is noticed as `early`;
- `StopsBefore`: a stop() of an older protocol comes before the call that makes the
  newer one's process, and so has been read when that process runs;
- `EndsWell`: the last call on its way to the kill switch, to IPv6 and to the routes
  is the one that is to leave them as the client has come to be, or there is none and
  they are so, as far as the service could make them (`SwitchComes` speaks of chains
  that are there, `Ipv6Stops` of IPv6 that is not known to be on); and every tun2socks
  is the protocol's or will be closed.

General lemmas say what Append, Tail and Front do to "x is in q", "x is in q once",
"the last call to these operations is c" and "none of them comes after x"; each
action is then an argument about these facts. From it `XrayInvariant`,
`TypeCorrect`, `Restored`, `Whole` and `StopFirst` (`StopServedFirst`).

**ServersModelProofs** (any servers of the three kinds, any backups, edits,
connections and depth of waiting handlers; assumptions: `ConstantsAssumption`, and
`InputsAssumption`: what is imported or restored was made by a program in which
nothing went wrong). The properties are about the entries of one list; what breaks
them comes from copies of entries elsewhere, made before a wait and stored after
it. `ServersInv` says what these can be, given the signs noted so far:

- `ModelsOK`: entries are `Clean` in the stored list, in the copy and in
  ContainersModel; the two lists are `Synced`, that is, they differ only where a
  worker is between its write and `ApplyEdit`, and there in profiles only;
- `FramesOK`: entries and lists that a worker holds are clean, and a connection
  that has a profile has one of its server's;
- `OnePopup` and `AddedKept`: one popup is shown at a time, and the container that
  an installation has added is there until it is selected;
- `RequestsOK`, and the same for posted calls; `HandlersWait`: a handler of a
  connection has a reply to wait for, or was left behind;
- `SignsNoted`: what is wrong in this state is in `hist`.

A handler makes several operations on the models in a row, so the lemmas about
`editServer()`, `removeServer()` and the others take any models, frames and signs
(`Kept`) and give the same of the result; `Lasts` follows the servers of the list
through them for the action properties. Then there is a lemma per action. From it:
`ServersInvariant`, `TypeCorrect`, and each of the eleven other properties of the
run.

The first attempt at `DefaultContainerInstalled` failed for a reason TLC confirmed
with other constants: after a restored backup the home page offers the containers
of a server that is gone. *strayed*, *shifted* and *moved* now also cover a page
that shows another server's containers and places beyond the list. On the other
hand the proof needs no exception for outdated entries of workers, which an earlier
version of the property made.

**Only model-checked.** Liveness, which the prover does not reach: `HandshakeNoticed`,
`OnlyJoinCycleHangs`, `PreparingEnds`, `CloseAnswered`, `ConnectingEnds`. Every other
property of a passing run is a theorem.

## 5. What is not modelled

In the modelled components: contents of messages, notifications and logs;
configuration parsing and building; statistics; the firewall's rules beyond the
configuration they were made from; netlink errors, which the code only logs; the
daemon's status and log requests, which change nothing; a UAPI command that is
executed after its wait has timed out; iterators and references that dangle after
a nested `clear()`; in the client, log requests and the end of the application;
in Xray, split tunnelling, resolvers, a service that goes down or cannot be reached,
and the rules of the kill switch beyond the server they let through; in
`switchServer()`, a route that fails between others that do not, which `SwitchRoutes`
takes as all or none of them; in the list of servers, site
lists, clients of a server, scripts and requests themselves, and every key of an
entry that no property tells apart.

Some hazards have no property, because no text of the repository says what is
right there, or the model does not go that far:

- the kill timer of `stopService()` hits a process that a client uses again; the
  collector stops an unbound service for a DISCONNECTED that a connect request
  has replaced; a client that dies without a message keeps the service bound; a
  connect job clears a newer `disconnectionJob`; a connect request during
  RECONNECTING lets the reconnect job report CONNECTED late;
- in the daemon, a new key at the same address deletes the route to the server;
  a peer list fetched before a nested reactivation is used after it; routes over
  an older gateway stay; the reference of an excluded subnet is never released by
  `switchServer()`, because `QHostAddress(i)` does not parse it, and the assertion
  in `delExclusionRoute()` fails (`LeavesNothing` shows that `deactivate()` removes
  its route all the same);
- `registerNetworkCallback()` that keeps throwing ends the collector and with it the
  process: modelled (`CollectBindFails`), but no property says what should be;
- an activation written to an unconnected socket is lost and the UI stays in
  "Connecting".

The other components are in `PROJECT.json` with the reason.

## 6. Plan

1. An abstract specification of "the state
   shown and the tunnel" that client and Android service both implement.
2. Desktop OpenVPN: its management interface and `VpnProtocol`'s timers, on the
   channels and the service of `XrayProtocol`; clients of the service that vanish.
3. Android activity and Qt bridge: binding, death and restart of the service;
   iOS controller.
