---------------------------- MODULE ServersModel ----------------------------
(* The list of servers of the client: Settings, ServersModel and             *)
(* ContainersModel, the controllers that edit them, and the way from the     *)
(* connect button to connectToVpn().                                         *)
(*                                                                           *)
(* Every entry is addressed by its place in the list, while the operations   *)
(* wait: for commands on the server (in an event loop inside the handler,    *)
(* behind a popup), for the API's reply, and for the worker thread that asks *)
(* the server for a profile.  The waits inside handlers nest: only the       *)
(* innermost can return.                                                     *)
EXTENDS Integers, Sequences, SequencesExt

CONSTANTS
  Ids, NoId,           \* the servers' identities; the code has none
  Telegram, Gateway,   \* those of the servers that come from an API
  Vpns, Others,        \* DockerContainer: protocols, services (from 1 on)
  NewServers,          \* what can be imported or installed
  Backups,             \* what a backup file can hold
  MaxEdits,            \* how often the user changes or selects something
  MaxOpens,            \* how often a connection is opened
  MaxFrames            \* how many handlers wait at a time

Kinds == Vpns \cup Others
None == 0
\* A profile that holds no more than an MTU.
Stub == "mtu"
Profiles == Ids \cup {NoId, Stub}
Containers == UNION {[S -> Profiles] : S \in SUBSET Kinds}

\* An entry: its containers, each with the server whose credentials made the
\* cached client profile.  A second entry for one container is not kept apart.
Servers == [id : Ids \cup {NoId}, containers : Containers,
            defaultContainer : Kinds \cup {None}]
\* What QJsonArray::at() gives beyond the list.
NoServer == [id |-> NoId, containers |-> <<>>, defaultContainer |-> None]

ASSUME ConstantsAssumption ==
  /\ Vpns \cup Others \subseteq Nat \ {0} /\ Vpns \cap Others = {}
  /\ NoId \notin Ids /\ Stub \notin Ids \cup {NoId}
  /\ Telegram \subseteq Ids /\ Gateway \subseteq Ids
  /\ Telegram \cap Gateway = {}
  /\ NewServers \subseteq Servers
  /\ \A b \in Backups : b.list \in Seq(Servers) /\ b.default \in Int
  /\ MaxEdits \in Nat /\ MaxOpens \in Nat /\ MaxFrames \in Nat

VARIABLES
  m,         \* Settings and the models, see Models
  frames,    \* the handlers that wait in an event loop, the innermost last
  telegram,  \* requests to the Telegram API, each with the place it is for
  posted,    \* containersUpdated() posted by workers, with their frames
  state,     \* what the buttons go by: "off", "busy" or "on" (isConnected)
  tunnel,    \* what the last connectToVpn() was given
  handlers,  \* of installationErrorOccurred(), which show "off"
  edits, opens,
  hist       \* history: what has gone wrong so far, see Signs

vars == <<m, frames, telegram, posted, state, tunnel, handlers, edits, opens, hist>>

\* list and default are in Settings, with which m_defaultServerIndex is always
\* set together; servers and processed are ServersModel's, containers is the
\* entry that ContainersModel was last given; page: the user may be on a page
\* of the processed server, which a reset leaves for the home page.
Models == [list : Seq(Servers), default : Int, servers : Seq(Servers),
           processed : Int, containers : Servers, page : BOOLEAN,
           crashed : BOOLEAN]

NoTunnel == [server |-> NoId, c |-> None, profile |-> NoId, dns |-> NoId]

Tunnels == [server : Ids \cup {NoId}, c : Kinds \cup {None}, profile : Profiles,
            dns : Ids \cup {NoId}]

\* A handler that waits: for commands on a server of the user's, for the
\* gateway, or for the worker of a connection, which is at pc.
Commands == {"remove", "removeAll", "install", "add", "added", "update", "revoke",
             "cleared"}
Frames == [op : Commands \cup {"none", "connect", "gateway", "reload"},
           id : Ids \cup {NoId}, idx : Int, c : Kinds \cup {None}, conf : Profiles,
           ok : BOOLEAN,
           pc : {"none", "create", "index", "array", "write", "read", "apply", "done",
                 "failed"},
           srv : Servers, at : Int, arr : Seq(Servers)]

NoFrame == [op |-> "none", id |-> NoId, idx |-> -1, c |-> None, conf |-> NoId,
            ok |-> TRUE, pc |-> "none", srv |-> NoServer, at |-> -1, arr |-> <<>>]

-----------------------------------------------------------------------------
(* Settings and ServersModel; the places in the list count from 0 *)

Slots(list) == 0 .. Len(list) - 1
ServerAt(list, i) == IF i \in Slots(list) THEN list[i + 1] ELSE NoServer
Replaced(list, i, s) == [list EXCEPT ![i + 1] = s]

Default(d) == ServerAt(d.servers, d.default)
Processed(d) == ServerAt(d.servers, d.processed)

\* The models at the start of the program, and PageStart's first page.
Loaded(list, default) ==
  [list |-> list, default |-> default, servers |-> list, processed |-> default,
   containers |-> ServerAt(list, default), page |-> TRUE, crashed |-> FALSE]

setProcessedServerIndex(d, i) ==
  [d EXCEPT !.processed = i, !.containers = ServerAt(d.servers, i), !.page = TRUE]

setDefaultServerIndex(d, i) == [d EXCEPT !.default = i]

\* ContainersModel is not told.
resetModel(d, list, default) ==
  [d EXCEPT !.list = list, !.default = default, !.servers = list,
            !.processed = default, !.page = FALSE]

StoredEdit(list, i, s) ==
  IF i \in Slots(list) THEN Replaced(list, i, s) ELSE list

\* Mutant: the entry of the default server is replaced.
editServerDefault(d, i, s) ==
  LET list == StoredEdit(d.list, d.default, s)
      servers == StoredEdit(d.servers, d.default, ServerAt(list, d.default))
  IN  [d EXCEPT !.list = list, !.servers = servers,
                !.containers = ServerAt(servers, d.processed)]

\* To replace beyond the list is undefined; the model ends the program.
editServer(d, i, s) ==
  LET list == StoredEdit(d.list, i, s)
      servers == Replaced(d.servers, i, ServerAt(list, i))
  IN  IF i \in Slots(d.servers)
      THEN [d EXCEPT !.list = list, !.servers = servers,
                     !.containers = ServerAt(servers, d.processed)]
      ELSE [d EXCEPT !.list = list, !.crashed = TRUE]

\* Mutant: the new entry becomes visible in the model only.
addServerUnsaved(d, s) == [d EXCEPT !.servers = Append(@, s)]

addServer(d, s) ==
  LET list == Append(d.list, s) IN [d EXCEPT !.list = list, !.servers = list]

\* Mutant: the place of a default server that was removed is kept.
DefaultAfterSame(d, n) == IF n = 0 THEN -1
                          ELSE IF d.default > d.processed THEN d.default - 1
                          ELSE d.default

\* Mutant: the first server becomes the default one.
DefaultAfterFirst(d, n) == IF n = 0 THEN -1 ELSE 0

\* The default server after the processed one is removed and n are left.
DefaultAfter(d, n) ==
  IF n = 0 THEN -1
  ELSE IF d.default = d.processed THEN 0
  ELSE IF d.default > d.processed THEN d.default - 1
  ELSE d.default

StoredRemoval(d) ==
  IF d.processed \in Slots(d.list) THEN RemoveAt(d.list, d.processed + 1)
  ELSE d.list

removeServer(d) ==
  LET list == StoredRemoval(d)
      gone == [d EXCEPT !.list = list, !.servers = list]
      default == DefaultAfter(d, Len(list))
  IN  setProcessedServerIndex(setDefaultServerIndex(gone, default), default)

Emptied(s) == [s EXCEPT !.containers = <<>>, !.defaultContainer = None]

WithConfig(s, c, profile) ==
  IF c \in DOMAIN s.containers THEN [s EXCEPT !.containers[c] = profile] ELSE s

WithContainer(s, c, profile) ==
  [s EXCEPT !.containers = [k \in DOMAIN @ \cup {c} |->
                               IF k = c THEN profile ELSE @[k]]]

updateContainerConfig(d, c, profile) ==
  editServer(d, d.processed, WithConfig(Processed(d), c, profile))

addContainerConfig(d, c, profile) ==
  LET s == WithContainer(Processed(d), c, profile) IN
  editServer(d, d.processed,
             IF s.defaultContainer = None /\ c \in Vpns
             THEN [s EXCEPT !.defaultContainer = c] ELSE s)

setDefaultContainer(d, i, c) ==
  editServer(d, i, [ServerAt(d.servers, i) EXCEPT !.defaultContainer = c])

removeAllContainers(d) == editServer(d, d.processed, Emptied(Processed(d)))

\* Mutant: the default container stays.
removeContainerKept(d, c, next) ==
  editServer(d, d.processed,
             [Processed(d) EXCEPT !.containers =
                [k \in DOMAIN @ \ {c} |-> @[k]]])

\* next becomes the default container when it is c that was.
removeContainer(d, c, next) ==
  LET s == [Processed(d) EXCEPT !.containers =
              [k \in DOMAIN @ \ {c} |-> @[k]]]
  IN  editServer(d, d.processed,
                 IF s.defaultContainer = c
                 THEN [s EXCEPT !.defaultContainer = next] ELSE s)

\* The order of the entries is not kept, so that any may be the first.
NextDefaults(d, c) ==
  LET rest == DOMAIN Processed(d).containers \ {c}
  IN  IF rest = {} THEN {None} ELSE rest

\* Works on the stored entry, and adds the container if it is not there.
clearCachedProfile(d, c) ==
  editServer(d, d.processed,
             WithContainer(ServerAt(d.list, d.processed), c, NoId))

\* Mutant: nothing of the entry is left.
removeApiConfigWhole(d, i) == editServer(d, i, NoServer)

\* Mutant: the places count from 1.
removeApiConfigNext(d, i) == editServer(d, i + 1, Emptied(ServerAt(d.servers, i)))

removeApiConfig(d, i) == editServer(d, i, Emptied(ServerAt(d.servers, i)))

\* What an API sends for a server.
ApiConfigs(id) ==
  {[id |-> id, containers |-> [k \in {c} |-> id], defaultContainer |-> c] :
     c \in Vpns}

\* A reply of the gateway that cannot be read is not reported: getConfigForService()
\* succeeds with an empty configuration.
GatewayConfigs(id) == ApiConfigs(id) \cup {NoServer}
Garbled(s) == IF s = NoServer THEN {"garbled"} ELSE {}

-----------------------------------------------------------------------------
(* History *)

Listed(list) == {list[i].id : i \in DOMAIN list}

\* The place i of a list has the server id.
IsAt(list, i, id) == i \in Slots(list) /\ list[i + 1].id = id

\* An operation waits whose server is no longer the processed one, or whose
\* server or containers ContainersModel does not show; or a page shows the
\* containers of another server than its own, or is about to.
Strayed ==
  \/ \E i \in DOMAIN frames :
       LET f == frames[i] IN
       /\ f.op \notin {"gateway", "reload"}
       /\ \/ ~IsAt(m.servers, m.processed, f.id)
          \/ f.op # "connect" /\ m.processed # f.idx
          \/ m.containers.id # f.id
          \/ DOMAIN m.containers.containers # DOMAIN Processed(m).containers
  \/ \E i \in DOMAIN posted : posted[i].server # Processed(m)
  \/ m.page /\ m.containers.id # Processed(m).id

Writing(f) == f.pc \in {"array", "write", "read", "apply"}

Shifted ==
  \/ \E i \in DOMAIN frames :
       LET f == frames[i] IN
       \/ f.op \in {"gateway", "reload"} /\ ~IsAt(m.servers, f.idx, f.id)
       \/ Writing(f) /\ \E list \in {m.servers, m.list} : ~IsAt(list, f.at, f.srv.id)
  \/ \E r \in telegram : ~IsAt(m.servers, r.idx, r.server.id)

\* The entry, or the list, that a worker is about to store is outdated, or the
\* stored entry that it is about to copy.
Raced == \E i \in DOMAIN frames :
  LET f == frames[i]
      place == IF f.pc = "index" THEN m.processed ELSE f.at
  IN  \/ f.pc = "write" /\ f.arr # m.list
      \/ f.pc = "apply" /\ f.srv # ServerAt(m.list, f.at)
      \/ /\ f.pc \in {"index", "array", "write"}
         /\ f.srv # WithConfig(ServerAt(m.servers, place), f.c, f.conf)

Stubbed == \E i \in DOMAIN m.servers : \E c \in DOMAIN m.servers[i].containers :
             m.servers[i].containers[c] = Stub

\* The server in use is not both the default and the processed one, which is
\* what the guards of the buttons go by.
Moved == tunnel # NoTunnel /\ \E i \in {m.default, m.processed} :
                                ~IsAt(m.servers, i, tunnel.server)

Signs == (IF Strayed THEN {"strayed"} ELSE {})
         \cup (IF Shifted THEN {"shifted"} ELSE {})
         \cup (IF Raced THEN {"raced"} ELSE {})
         \cup (IF Moved THEN {"moved"} ELSE {})
         \cup (IF Stubbed THEN {"stubbed"} ELSE {})

Noted == hist' = hist \cup Signs'

-----------------------------------------------------------------------------
(* The user, while no popup is shown *)

Modal == \E i \in DOMAIN frames : frames[i].op \notin {"connect", "gateway"}
UserFree == ~m.crashed /\ ~Modal

Edit(d) ==
  /\ UserFree /\ edits < MaxEdits /\ edits' = edits + 1
  /\ m' = d
  /\ UNCHANGED <<frames, telegram, posted, state, tunnel, handlers, opens>>
  /\ Noted

\* Mutant: the processed server is never taken for the one in use.
InUseNever == FALSE

\* The default server is the one in use, unless it was changed on the way.
InUse == m.processed = m.default /\ state = "on"

SelectServer ==
  \E i \in Slots(m.servers) : Edit(setProcessedServerIndex(m, i))

SelectDefault ==
  /\ state # "on"
  /\ \E i \in Slots(m.servers) : Edit(setDefaultServerIndex(m, i))

OnPage == m.page /\ m.processed \in Slots(m.servers)

RemoveProcessedServer ==
  /\ OnPage /\ ~InUse
  /\ Edit(removeServer(m))

InFlight == {frames[i].id : i \in DOMAIN frames} \cup {r.server.id : r \in telegram}

\* What can be imported or installed next.
Addable == {s \in NewServers :
              s.id \notin Listed(m.servers) \cup Listed(m.list) \cup InFlight}

\* Import, or an installation that has finished: the page that it was started
\* from makes the new server the default one.
AddServer ==
  \E s \in Addable :
       LET d == addServer(m, s)
           last == Len(d.servers) - 1
       IN  Edit(IF state = "on" THEN d
                ELSE setProcessedServerIndex(setDefaultServerIndex(d, last), last))

RestoreAppConfig ==
  /\ state # "on"
  /\ \E b \in Backups : Edit(resetModel(m, b.list, b.default))

ClearSettings == ~InUse /\ Edit(resetModel(m, <<>>, 0))

\* The name is not modelled, but the whole entry is stored with it.
RenameServer ==
  \E i \in Slots(m.servers) :
    Edit([m EXCEPT !.list = StoredEdit(@, i, ServerAt(m.servers, i))])

SelectDefaultContainer ==
  /\ state # "on"
  /\ \E c \in Vpns \cap DOMAIN Default(m).containers :
       Edit(setDefaultContainer(m, m.default, c))

RemoveApiConfig ==
  /\ OnPage /\ Processed(m).id \in Telegram /\ ~InUse
  /\ Edit(removeApiConfig(m, m.processed))

-----------------------------------------------------------------------------
(* Opening a connection *)

Push(f, rest) == frames' = Append(rest, f)

\* Mutant: a container without a profile passes.
isProtocolConfigExistsAlways(conf) == TRUE

isProtocolConfigExists(conf) == conf # NoId

\* continueConnection(), after the calls that led to d, while rest waits and the
\* state is shown: the container's configuration is ContainersModel's, and a
\* worker starts.
ContinueConnection(d, rest, shown) ==
  LET s == Default(d)
      c == s.defaultContainer
      conf == IF c \in DOMAIN d.containers.containers
              THEN d.containers.containers[c] ELSE NoId
  IN  \/ /\ DOMAIN s.containers \cap Vpns = {}
         /\ m' = setProcessedServerIndex(d, d.default)
         /\ frames' = rest
         /\ state' = "off"
      \/ /\ DOMAIN s.containers \cap Vpns # {} /\ c = None
         /\ m' = d
         /\ frames' = rest
         /\ state' = "off"
      \/ /\ DOMAIN s.containers \cap Vpns # {} /\ c # None
         /\ m' = d
         /\ Push([NoFrame EXCEPT !.op = "connect", !.id = s.id, !.c = c,
                                 !.conf = conf,
                                 !.pc = IF isProtocolConfigExists(conf)
                                        THEN "done" ELSE "create"],
                 rest)
         /\ state' = shown

\* The last handler is the only one that can be disconnected again.  The
\* connection type, a logical or, does not make it single-shot.
HandlerAdded ==
  handlers' = [current |-> TRUE, left |-> handlers.current \/ handlers.left]

\* Mutant: a state the buttons do not know.
AfterErrorUnknown(s) == IF handlers.current \/ handlers.left THEN "error" ELSE s

\* What installationErrorOccurred() makes of a state.
AfterError(s) == IF handlers.current \/ handlers.left THEN "off" ELSE s

UpdateFromTelegram(d, rest) ==
  /\ HandlerAdded
  /\ m' = removeApiConfig(d, d.default)
  /\ telegram' = telegram \cup
       {[idx |-> d.default, server |-> ServerAt(m'.servers, d.default)]}
  /\ frames' = rest /\ state' = "busy"

UpdateFromGateway(d, rest) ==
  /\ HandlerAdded
  /\ m' = d
  /\ Push([NoFrame EXCEPT !.op = "gateway", !.id = Default(d).id,
                          !.idx = d.default], rest)
  /\ state' = "busy"
  /\ UNCHANGED telegram

\* openConnection().  An API key has expired, is good, or gets an end date.
OpenConnection(d, rest) ==
  LET s == Default(d)
      noVpn == DOMAIN s.containers \cap Vpns = {}
  IN  /\ opens < MaxOpens /\ opens' = opens + 1
      /\ \/ s.id \in Telegram /\ UpdateFromTelegram(d, rest)
         \/ s.id \in Gateway /\ UpdateFromGateway(d, rest)
         \/ /\ ~(s.id \in Telegram /\ noVpn)
            /\ \E e \in {d} \cup (IF s.id \in Telegram \cup Gateway
                                THEN {editServer(d, d.default, s)} ELSE {}) :
                 ContinueConnection(e, rest, "busy")
            /\ UNCHANGED <<telegram, handlers>>
      /\ UNCHANGED <<posted, tunnel>>

\* The big button goes to the default server first; the tray does not.
ConnectButton ==
  /\ UserFree /\ state = "off" /\ Len(frames) < MaxFrames
  /\ OpenConnection(setProcessedServerIndex(m, m.default), frames)
  /\ UNCHANGED edits
  /\ Noted

TrayConnect ==
  /\ ~m.crashed /\ state = "off" /\ Len(frames) < MaxFrames
  /\ OpenConnection(m, frames)
  /\ UNCHANGED edits
  /\ Noted

\* What VpnConnection reports, see module VpnConnection.
VpnStateChanged ==
  /\ ~m.crashed
  /\ \/ state # "on" /\ tunnel # NoTunnel /\ state' = "on" /\ UNCHANGED tunnel
     \/ state # "off" /\ state' = "off" /\ tunnel' = NoTunnel
  /\ UNCHANGED <<m, frames, telegram, posted, handlers, edits, opens>>
  /\ Noted

-----------------------------------------------------------------------------
(* Commands on the server of the user, which wait behind a popup *)

Begin(op, c, ok, d) ==
  /\ UserFree /\ edits < MaxEdits /\ Len(frames) < MaxFrames
  /\ m.processed \in Slots(m.servers)
  /\ Processed(m).id \in Ids \ (Telegram \cup Gateway)
  /\ Push([NoFrame EXCEPT !.op = op, !.id = Processed(m).id,
                          !.idx = m.processed, !.c = c, !.ok = ok], frames)
  /\ edits' = edits + 1
  /\ m' = d
  /\ UNCHANGED <<telegram, posted, state, tunnel, handlers, opens>>
  /\ Noted

BeginRemoveContainer ==
  /\ OnPage
  /\ \E c \in DOMAIN m.containers.containers :
       /\ ~(InUse /\ Default(m).defaultContainer = c)
       /\ Begin("remove", c, TRUE, m)

BeginRemoveAll == OnPage /\ ~InUse /\ Begin("removeAll", None, TRUE, m)

\* An installation, or a scan for what is installed already (not ok).
BeginInstall == \E c \in Kinds, ok \in BOOLEAN : Begin("install", c, ok, m)

\* The pages of the protocols compare the container only.
Refused(c) == state = "on" /\ c \in Vpns /\ c = Default(m).defaultContainer

\* ok: the commands will succeed.
BeginUpdate ==
  OnPage /\ \E c \in DOMAIN m.containers.containers, ok \in BOOLEAN :
              ~Refused(c) /\ Begin("update", c, ok, m)

\* The client is revoked on the server after its profile has been dropped.
ClearCachedProfile ==
  OnPage /\ \E c \in Vpns \cap DOMAIN m.containers.containers :
              ~Refused(c) /\ Begin("cleared", c, TRUE, clearCachedProfile(m, c))

Top == Last(frames)
Outer == Front(frames)
Returns(ops) == ~m.crashed /\ frames # <<>> /\ Top.op \in ops

Failed ==
  /\ frames' = Outer
  /\ state' = AfterError(state)
  /\ UNCHANGED <<m, telegram, posted, tunnel, handlers, edits, opens>>

\* An error leaves the list alone.
CommandFails ==
  /\ Returns({"remove", "removeAll", "install", "add", "added", "reload"})
  /\ Failed /\ Noted

\* The wait is over: d holds the models, and the handler goes on as next.
Proceed(d, next) ==
  /\ m' = d
  /\ frames' = Outer \o next
  /\ UNCHANGED <<telegram, posted, state, tunnel, handlers, edits, opens>>
  /\ Noted

ContainerRemoved ==
  /\ Returns({"remove"})
  /\ \E next \in NextDefaults(m, Top.c) : Proceed(removeContainer(m, Top.c, next), <<>>)

AllContainersRemoved ==
  /\ Returns({"removeAll"})
  /\ Proceed(removeAllContainers(m), <<>>)

\* The finished installation of a protocol selects it.
Installed(d) ==
  IF Top.ok /\ state # "on" /\ Top.c \in Vpns THEN setDefaultContainer(d, d.processed, Top.c)
  ELSE d

\* A container that ContainersModel does not know is about to be added.
ContainerInstalled ==
  /\ Returns({"install"})
  /\ IF Top.c \in DOMAIN m.containers.containers
     THEN Proceed(Installed(m), <<>>)
     ELSE Proceed(m, <<[Top EXCEPT !.op = "add"]>>)

ProfileCreated ==
  /\ Returns({"add"})
  /\ Proceed(addContainerConfig(m, Top.c, IF Top.c \in Vpns THEN Top.id ELSE NoId),
             <<[Top EXCEPT !.op = "added"]>>)

ClientAppended == Returns({"added"}) /\ Proceed(Installed(m), <<>>)

\* updateContainer() drops the cached profile, whether or not the update
\* failed, and waits again to revoke it.
ContainerUpdated ==
  /\ Returns({"update"}) /\ Top.c \in Vpns
  /\ Proceed(clearCachedProfile(m, Top.c), <<[Top EXCEPT !.op = "revoke"]>>)

\* The end of updateContainer(): the container becomes d's, and a change to the
\* one in use reconnects.
Updated(d, i, c, rest) ==
  LET reconnect == /\ state # "off" /\ ~d.crashed
                   /\ i = d.default /\ c = ServerAt(d.servers, i).defaultContainer
  IN  /\ \/ ~reconnect /\ m' = d /\ frames' = rest
            /\ UNCHANGED <<telegram, posted, state, tunnel, handlers, opens>>
         \/ reconnect /\ OpenConnection(d, rest)
      /\ Noted

ProfileRevoked ==
  /\ Returns({"update", "revoke"}) /\ (Top.op = "update" => Top.c \in Others)
  /\ \/ /\ Top.ok /\ UNCHANGED edits
        /\ Updated(updateContainerConfig(m, Top.c, NoId), Top.idx, Top.c, Outer)
     \/ ~Top.ok /\ Failed /\ Noted

ProfileCleared == Returns({"cleared"}) /\ Proceed(m, <<>>)

\* A change of the client's side only, which the server is not asked for.
UpdateClientSettings ==
  /\ UserFree /\ OnPage /\ Len(frames) < MaxFrames /\ edits < MaxEdits
  /\ Processed(m).id \in Ids \ (Telegram \cup Gateway)
  /\ \E c \in Vpns \cap DOMAIN m.containers.containers :
       LET conf == m.containers.containers[c] IN
       /\ ~Refused(c)
       /\ edits' = edits + 1
       /\ Updated(updateContainerConfig(m, c, IF conf = NoId THEN Stub ELSE conf),
                  m.processed, c, frames)

-----------------------------------------------------------------------------
(* Replies of the API *)

\* A request for the server at a place, behind the busy indicator.
AskGateway(i) ==
  /\ UserFree /\ edits < MaxEdits /\ Len(frames) < MaxFrames
  /\ edits' = edits + 1
  /\ OnPage /\ Processed(m).id \in Gateway
  /\ Push([NoFrame EXCEPT !.op = "reload", !.id = ServerAt(m.servers, i).id,
                          !.idx = i], frames)
  /\ UNCHANGED <<m, telegram, posted, state, tunnel, handlers, opens>>
  /\ Noted

ReloadApiConfig == ~InUse /\ AskGateway(m.processed)

\* The page is the processed server's, the request the default server's.
ChangeCountry == AskGateway(m.default)

\* The gateway refuses to answer for a server that is not its own.
Reloaded ==
  /\ Returns({"reload"}) /\ Top.id \in Gateway
  /\ \E s \in GatewayConfigs(Top.id) :
       /\ m' = editServer(m, Top.idx, s)
       /\ frames' = Outer
       /\ UNCHANGED <<telegram, posted, state, tunnel, handlers, edits, opens>>
       /\ hist' = hist \cup Signs' \cup Garbled(s)

\* Mutant: the handler stays connected.
RefreshedKept(d, rest, shown) ==
  \/ d.crashed /\ m' = d /\ frames' = rest /\ UNCHANGED <<state, handlers>>
  \/ ~d.crashed /\ ContinueConnection(d, rest, shown) /\ UNCHANGED handlers

\* updateServerFromApiFinished() disconnects the last handler and goes on
\* with the connection.
Refreshed(d, rest, shown) ==
  \/ d.crashed /\ m' = d /\ frames' = rest /\ UNCHANGED <<state, handlers>>
  \/ /\ ~d.crashed
     /\ handlers' = [handlers EXCEPT !.current = FALSE]
     /\ ContinueConnection(d, rest, shown)

GatewayReplied ==
  /\ Returns({"gateway"})
  /\ \E s \in GatewayConfigs(Top.id) :
       /\ Refreshed(editServer(m, Top.idx, s), Outer, state)
       /\ UNCHANGED <<telegram, posted, tunnel, edits, opens>>
       /\ hist' = hist \cup Signs' \cup Garbled(s)

\* The handler stays.
GatewayFails ==
  /\ Returns({"gateway"}) /\ Failed
  /\ hist' = hist \cup Signs' \cup {"refused"}

\* A reply without a configuration leaves the entry of the request as it was,
\* and is reported or not; finished() is emitted all the same.
TelegramReplied ==
  /\ ~m.crashed /\ Len(frames) < MaxFrames
  /\ \E r \in telegram :
       /\ telegram' = telegram \ {r}
       /\ \/ \E s \in ApiConfigs(r.server.id) :
               Refreshed(editServer(m, r.idx, s), frames, state)
          \/ \E shown \in {state, AfterError(state)} :
               Refreshed(editServer(m, r.idx, r.server), frames, shown)
  /\ UNCHANGED <<posted, tunnel, edits, opens>>
  /\ Noted

TelegramFails ==
  /\ ~m.crashed
  /\ \E r \in telegram : telegram' = telegram \ {r}
  /\ state' = AfterError(state)
  /\ UNCHANGED <<m, frames, posted, tunnel, handlers, edits, opens>>
  /\ hist' = hist \cup Signs' \cup {"refused"}

-----------------------------------------------------------------------------
(* The worker of a connection: updateProtocolConfig().  Settings are read and *)
(* written one call at a time on the UI thread.                               *)

Work(i, pc, f, d) ==
  /\ ~m.crashed
  /\ frames[i].op = "connect" /\ frames[i].pc = pc
  /\ frames' = [frames EXCEPT ![i] = f]
  /\ m' = d
  /\ UNCHANGED <<telegram, state, tunnel, handlers, edits, opens>>

Move(i, pc) == [frames[i] EXCEPT !.pc = pc]

\* Mutant: the profile is made with the credentials of the default server.
CreateProtocolConfigDefault(i) ==
  LET f == frames[i]
      conf == IF f.c \in Vpns THEN Default(m).id ELSE NoId
  IN  /\ Work(i, "create",
              [Move(i, "index") EXCEPT !.conf = conf,
                                       !.srv = WithConfig(Processed(m), f.c, conf)], m)
      /\ UNCHANGED posted /\ Noted

\* The profile is made with the credentials of the server that is connected
\* to, and is put into the entry of the processed server.
CreateProtocolConfig(i) ==
  LET f == frames[i]
      conf == IF f.c \in Vpns THEN f.id ELSE NoId
  IN  /\ \/ Work(i, "create",
                 [Move(i, "index") EXCEPT !.conf = conf,
                                          !.srv = WithConfig(Processed(m), f.c, conf)], m)
         \/ Work(i, "create", Move(i, "failed"), m)
      /\ UNCHANGED posted /\ Noted

ReadIndex(i) ==
  /\ Work(i, "index", [Move(i, "array") EXCEPT !.at = m.processed], m)
  /\ UNCHANGED posted /\ Noted

ReadSettings(i) ==
  /\ Work(i, "array", IF frames[i].at >= Len(m.list) THEN Move(i, "read")
                      ELSE [Move(i, "write") EXCEPT !.arr = m.list], m)
  /\ UNCHANGED posted /\ Noted

WriteSettings(i) ==
  LET f == frames[i] IN
  /\ Work(i, "write", [Move(i, "read") EXCEPT !.arr = <<>>],
          IF f.at < 0 THEN [m EXCEPT !.crashed = TRUE]
          ELSE [m EXCEPT !.list = Replaced(f.arr, f.at, f.srv)])
  /\ UNCHANGED posted /\ Noted

\* The new entry is read back on the UI thread, as the settings always are.
ReadBack(i) ==
  /\ Work(i, "read", [Move(i, "apply") EXCEPT !.srv = ServerAt(m.list, frames[i].at)], m)
  /\ UNCHANGED posted /\ Noted

\* The worker replaces the entry of the copy, on its own thread, and posts
\* ContainersModel's update.  What is left to it is appendClient(), which may fail.
ApplyEdit(i) ==
  LET f == frames[i]
      servers == Replaced(m.servers, f.at, f.srv)
  IN  /\ \E pc \in {"done", "failed"} :
           Work(i, "apply", [Move(i, pc) EXCEPT !.srv = NoServer, !.at = -1],
                IF f.at \in Slots(m.servers) THEN [m EXCEPT !.servers = servers]
                ELSE [m EXCEPT !.crashed = TRUE])
      /\ posted' = IF m'.crashed THEN posted
                   ELSE Append(posted, [by |-> i, server |-> Processed(m')])
      /\ Noted

Worker == \E i \in DOMAIN frames :
  \/ CreateProtocolConfig(i) \/ ReadIndex(i) \/ ReadSettings(i)
  \/ WriteSettings(i) \/ ReadBack(i) \/ ApplyEdit(i)

ContainersUpdated ==
  /\ ~m.crashed /\ posted # <<>>
  /\ m' = [m EXCEPT !.containers = Head(posted).server]
  /\ posted' = Tail(posted)
  /\ UNCHANGED <<frames, telegram, state, tunnel, handlers, edits, opens>>
  /\ Noted

\* The worker has finished, and what it posted before has been handled.  The
\* name servers are those of the processed server, whatever is asked for.
ConnectToVpn ==
  /\ Returns({"connect"})
  /\ \A i \in DOMAIN posted : posted[i].by # Len(frames)
  /\ \/ /\ Top.pc = "done"
        /\ tunnel' = [server |-> Top.id, c |-> Top.c, profile |-> Top.conf,
                      dns |-> Processed(m).id]
        /\ state' = "busy"
     \/ Top.pc = "failed" /\ state' = "off" /\ UNCHANGED tunnel
  /\ frames' = Outer
  /\ UNCHANGED <<m, telegram, posted, handlers, edits, opens>>
  /\ Noted

-----------------------------------------------------------------------------
(* The program ends and is started again *)

StartAgain(list, default) ==
  /\ m' = Loaded(list, default)
  /\ frames' = <<>> /\ telegram' = {} /\ posted' = <<>>
  /\ state' = "off" /\ tunnel' = NoTunnel
  /\ handlers' = [current |-> FALSE, left |-> FALSE]
  /\ UNCHANGED opens

Restart == StartAgain(m.list, m.default) /\ UNCHANGED edits /\ Noted

\* The list and the place of the default server are two keys, each of which is
\* on the disk before the next is written: the program ends between the two.
EndBetween(list, default) ==
  /\ UserFree /\ edits < MaxEdits /\ edits' = edits + 1
  /\ StartAgain(list, default)
  /\ hist' = hist \cup Signs' \cup {"torn"}

EndInRemoval == OnPage /\ ~InUse /\ EndBetween(StoredRemoval(m), m.default)

EndInAddition ==
  state # "on" /\ \E s \in Addable : EndBetween(Append(m.list, s), m.default)

\* The keys of a backup are stored in their order, the list last.
EndInRestore == state # "on" /\ \E b \in Backups : EndBetween(m.list, b.default)

-----------------------------------------------------------------------------

Init ==
  /\ \E b \in Backups : m = Loaded(b.list, b.default)
  /\ frames = <<>> /\ telegram = {} /\ posted = <<>>
  /\ state = "off" /\ tunnel = NoTunnel
  /\ handlers = [current |-> FALSE, left |-> FALSE]
  /\ edits = 0 /\ opens = 0 /\ hist = Signs

Next ==
  \/ SelectServer \/ SelectDefault \/ RemoveProcessedServer \/ AddServer
  \/ RestoreAppConfig \/ ClearSettings \/ RenameServer \/ SelectDefaultContainer
  \/ RemoveApiConfig \/ ClearCachedProfile \/ UpdateClientSettings
  \/ ConnectButton \/ TrayConnect \/ VpnStateChanged
  \/ BeginRemoveContainer \/ BeginRemoveAll \/ BeginInstall \/ BeginUpdate
  \/ CommandFails \/ ContainerRemoved \/ AllContainersRemoved
  \/ ContainerInstalled \/ ProfileCreated \/ ClientAppended
  \/ ContainerUpdated \/ ProfileRevoked \/ ProfileCleared
  \/ ReloadApiConfig \/ ChangeCountry \/ Reloaded
  \/ GatewayReplied \/ GatewayFails \/ TelegramReplied \/ TelegramFails
  \/ Worker \/ ContainersUpdated \/ ConnectToVpn
  \/ Restart \/ EndInRemoval \/ EndInAddition \/ EndInRestore

Spec == Init /\ [][Next]_vars

-----------------------------------------------------------------------------
(* Properties.  Those that the code keeps only as long as nothing went wrong    *)
(* name in hist what may have gone wrong, and no more than that.                *)

\* Every entry, also those that workers, requests and posted calls hold, is a
\* server, and the buttons know the state they are given.
TypeOK ==
  /\ m \in Models /\ frames \in Seq(Frames)
  /\ telegram \subseteq [idx : Int, server : Servers]
  /\ posted \in Seq([by : Nat, server : Servers])
  /\ state \in {"off", "busy", "on"} /\ tunnel \in Tunnels
  /\ handlers \in [current : BOOLEAN, left : BOOLEAN]
  /\ edits \in Nat /\ opens \in Nat
  /\ hist \subseteq {"strayed", "shifted", "raced", "moved", "torn", "stubbed",
                    "refused", "garbled"}

\* ServersModel's copy of the list is the stored one whenever no worker is
\* between the two halves of editServer(), unless a worker stored a copy of the
\* list that was no longer the current one (Settings::editServer()), or put into
\* the copy an entry that had been changed since it was read back.
Mirrored ==
  /\ "raced" \notin hist
  /\ \A i \in DOMAIN frames : frames[i].pc \notin {"read", "apply"}
  => m.list = m.servers

\* A list that is not empty has a default server: removeServer() moves the
\* place up and the first server that is added is selected, unless the program
\* ended between the writes of the list and of the place, or a worker put back an
\* outdated list.  What is added during a connection does not become the default
\* server: the list must not have been emptied under the connection.
DefaultValid ==
  hist \cap {"raced", "torn", "moved"} = {} /\ m.servers # <<>> => m.default \in Slots(m.servers)

\* The default container of every server is one it has, whatever removals,
\* installations, scans, replies and outdated entries of workers come in between,
\* unless an operation went on with another server, or with other containers, than
\* those that ContainersModel shows.
DefaultContainerInstalled ==
  "strayed" \notin hist =>
    \A i \in DOMAIN m.servers :
      m.servers[i].defaultContainer \in {None} \cup DOMAIN m.servers[i].containers

\* No server is listed twice: a late reply of an API, or a worker, writes to the
\* entry it was sent for, unless the list was changed during the wait.  (Entries
\* that an unreadable reply has emptied are alike.)
Distinct ==
  hist \cap {"shifted", "raced", "garbled"} = {} =>
    \A i, j \in DOMAIN m.servers : m.servers[i].id = m.servers[j].id => i = j

\* editServer() replaces no entry beyond the list, unless the list was changed,
\* or another server selected, during a wait.
NoWildIndex == m.crashed => hist \cap {"strayed", "shifted"} # {}

\* A cached profile belongs to the server whose entry holds it: a profile made
\* in one thread or popup is not stored with another server, unless the user
\* selected another one meanwhile.
OwnProfiles ==
  "strayed" \notin hist =>
    \A i \in DOMAIN m.servers : \A c \in DOMAIN m.servers[i].containers :
      m.servers[i].containers[c] \in {NoId, Stub, m.servers[i].id}

\* connectToVpn() gets a profile and name servers of the server it is called
\* for, although the first are ContainersModel's and the second those of the
\* processed server at the end of the wait.  Exceptions: a connection that was
\* opened, from the tray, while another server was selected, or a selection
\* during the wait; and a profile that consists of an MTU.
ConnectsToOne ==
  hist \cap {"strayed", "stubbed"} = {} /\ tunnel # NoTunnel =>
    /\ tunnel.dns = tunnel.server
    /\ tunnel.c \in Vpns => tunnel.profile = tunnel.server

\* The server in use stays in the list as long as it has always been the default
\* and the processed one, which is all the guards of the buttons test, unless a
\* late or unreadable reply took its place or a worker put back an outdated list.
UsedServerKept ==
  [][/\ state = "on" /\ hist \cap {"moved", "shifted", "raced"} = {}
     /\ "garbled" \notin hist'
     /\ tunnel.server \in Listed(m.servers) /\ tunnel' = tunnel
     => tunnel.server \in Listed(m'.servers)]_vars

\* Removing another server keeps the default one, whose place may change.
DefaultKept ==
  [][RemoveProcessedServer /\ m.default # m.processed /\ "raced" \notin hist =>
       Default(m').id = Default(m).id]_vars

\* A server leaves the list only when the user removes it, resets or restores
\* the settings, or starts the program again, unless a reply or a worker wrote
\* to a place that the list no longer has it at, or a worker an outdated list.
\* A reply of the gateway that cannot be read takes the entry away as well.
OnlyRemovalRemoves ==
  [][\/ Listed(m.servers) \subseteq Listed(m'.servers)
     \/ RemoveProcessedServer \/ RestoreAppConfig \/ ClearSettings
     \/ Restart \/ EndInRemoval \/ EndInAddition \/ EndInRestore
     \/ hist' \cap {"shifted", "raced", "garbled"} # {}]_vars

\* The error of an operation that has nothing to do with a connection changes
\* the state that is shown only while a connection waits for an API, or when an
\* earlier one was refused or overtaken and has left its handler behind.
ErrorsOfOthers ==
  [][CommandFails /\ state' # state =>
       \/ "refused" \in hist \/ handlers.left \/ telegram # {}
       \/ \E i \in DOMAIN frames : frames[i].op = "gateway"]_vars

-----------------------------------------------------------------------------
(* An inductive invariant                                                      *)

\* The cached profiles of an entry are its server's, or an MTU; its default
\* container is one that it has.
Own(s) == \A c \in DOMAIN s.containers : s.containers[c] \in {NoId, Stub, s.id}
HasStub(s) == \E c \in DOMAIN s.containers : s.containers[c] = Stub
Chosen(s) == s.defaultContainer \in {None} \cup DOMAIN s.containers

AllDifferent(list) == \A i, j \in DOMAIN list : list[i].id = list[j].id => i = j

\* What is imported or restored was made by a program in which nothing went wrong.
ASSUME InputsAssumption ==
  /\ \A s \in NewServers : Own(s) /\ Chosen(s)
  /\ \A b \in Backups :
       /\ \A i \in DOMAIN b.list : Own(b.list[i]) /\ Chosen(b.list[i])
       /\ AllDifferent(b.list)
       /\ b.list # <<>> => b.default \in Slots(b.list)

SignsNoted == Signs \subseteq hist

\* An entry is as the signs allow, wherever it is kept.
Clean(s, h) ==
  /\ "strayed" \notin h => Own(s)
  /\ "stubbed" \notin h => ~HasStub(s)
  /\ "strayed" \notin h => Chosen(s)
CleanList(list, h) == \A i \in DOMAIN list : Clean(list[i], h)

\* The copy is the list but for the places that workers are about to update,
\* and has the same servers and containers there as well.
Synced(d, fs) ==
  /\ Len(d.list) = Len(d.servers)
  /\ \A i \in DOMAIN d.list :
       /\ \/ d.list[i] = d.servers[i]
          \/ \E k \in DOMAIN fs : fs[k].pc \in {"read", "apply"} /\ fs[k].at = i - 1
       /\ d.list[i].id = d.servers[i].id
       /\ DOMAIN d.list[i].containers = DOMAIN d.servers[i].containers

\* The models, when what has gone wrong so far is h and fs wait.
ModelsOK(d, fs, h) ==
  /\ CleanList(d.list, h) /\ CleanList(d.servers, h) /\ Clean(d.containers, h)
  /\ "raced" \notin h => Synced(d, fs)
  /\ h \cap {"raced", "shifted", "garbled"} = {} => AllDifferent(d.servers)
  /\ h \cap {"strayed", "shifted"} = {} => ~d.crashed
  /\ h \cap {"raced", "torn", "moved"} = {} /\ d.servers # <<>> =>
       d.default \in Slots(d.servers)

\* Only workers have a step to go on from.  A connection that has a profile has
\* one of its server's.
FrameOK(f, h) ==
  /\ f.op # "connect" => f.pc = "none"
  /\ f.op = "gateway" => f.id \in Gateway
  /\ f.op \in Commands => f.id \in Ids \ (Telegram \cup Gateway)
  /\ f.op \in Commands \ {"removeAll"} => f.c \in Kinds
  /\ Clean(f.srv, h) /\ CleanList(f.arr, h)
  /\ f.op = "connect" =>
       /\ "strayed" \notin h =>
            /\ f.conf \in {NoId, Stub, f.id}
            /\ f.c \in Vpns /\ f.pc \notin {"create", "failed"} => f.conf \in {Stub, f.id}
       /\ "stubbed" \notin h => f.conf # Stub

FramesOK(fs, h) == \A i \in DOMAIN fs : FrameOK(fs[i], h)

\* One popup is shown at a time.
OnePopup(fs) == \A i, j \in DOMAIN fs :
  {fs[i].op, fs[j].op} \cap {"connect", "gateway"} = {} => i = j

\* A container that an installation has added is there until it is selected.
AddedKept(d, fs, h) ==
  "strayed" \notin h =>
    \A i \in DOMAIN fs : fs[i].op = "added" /\ IsAt(d.servers, fs[i].idx, fs[i].id) =>
      fs[i].c \in DOMAIN ServerAt(d.servers, fs[i].idx).containers

RequestsOK(requests, h) == \A r \in requests :
  Clean(r.server, h) /\ r.server.id \in Telegram \cup {NoId}

\* A handler of a connection waits for its reply, unless it was left behind.
HandlersWait ==
  ~m.crashed /\ handlers.current =>
    \/ "refused" \in hist \/ handlers.left \/ telegram # {}
    \/ \E i \in DOMAIN frames : frames[i].op = "gateway"

\* What ties the list, its copy, the waiting handlers, the workers and the
\* requests to each other in every state: entries are clean wherever they are
\* kept, list and copy differ only where a worker is about to make them alike, and
\* what has gone wrong has been noted.
ServersInv ==
  /\ TypeOK /\ SignsNoted
  /\ ModelsOK(m, frames, hist)
  /\ FramesOK(frames, hist) /\ OnePopup(frames) /\ AddedKept(m, frames, hist)
  /\ RequestsOK(telegram, hist)
  /\ \A i \in DOMAIN posted : Clean(posted[i].server, hist)
  /\ state = "on" => tunnel # NoTunnel
  /\ ConnectsToOne
  /\ HandlersWait
=============================================================================
