------------------------ MODULE ServersModelProofs -------------------------
(* Proofs about ServersModel, for every set of servers and containers and any *)
(* number of edits, connections and waiting handlers.                         *)
EXTENDS ServersModel, TLAPS

-----------------------------------------------------------------------------
(* Sequences, by index *)

LEMMA Appended ==
  ASSUME NEW S, NEW q \in Seq(S), NEW e \in S
  PROVE  /\ Append(q, e) \in Seq(S) /\ Len(q) \in Nat
         /\ Len(Append(q, e)) = Len(q) + 1
         /\ DOMAIN q = 1 .. Len(q) /\ DOMAIN Append(q, e) = 1 .. Len(q) + 1
         /\ Append(q, e)[Len(q) + 1] = e
         /\ \A i \in 1 .. Len(q) : Append(q, e)[i] = q[i]
OBVIOUS

LEMMA Popped ==
  ASSUME NEW S, NEW q \in Seq(S), q # <<>>
  PROVE  /\ Front(q) \in Seq(S) /\ Last(q) \in S /\ Last(q) = q[Len(q)]
         /\ Len(q) \in Nat \ {0} /\ Len(Front(q)) = Len(q) - 1
         /\ DOMAIN q = 1 .. Len(q) /\ DOMAIN Front(q) = 1 .. Len(q) - 1
         /\ \A i \in 1 .. Len(q) - 1 : Front(q)[i] = q[i]
<1>1. Last(q) \in S /\ Last(q) = q[Len(q)] /\ Len(q) \in Nat \ {0} /\ DOMAIN q = 1 .. Len(q)
  BY DEF Last
<1>2. Front(q) \in Seq(S) /\ Len(Front(q)) = Len(q) - 1
  BY DEF Front
<1>3. \A i \in 1 .. Len(q) - 1 : Front(q)[i] = q[i]
  BY DEF Front
<1>. QED  BY <1>1, <1>2, <1>3

LEMMA Served ==
  ASSUME NEW S, NEW q \in Seq(S), q # <<>>
  PROVE  /\ Tail(q) \in Seq(S) /\ Head(q) \in S /\ Head(q) = q[1] /\ 1 \in DOMAIN q
         /\ \A i \in DOMAIN Tail(q) : i + 1 \in DOMAIN q /\ Tail(q)[i] = q[i + 1]
OBVIOUS

LEMMA ConcatOne ==
  ASSUME NEW S, NEW q \in Seq(S), NEW e \in S
  PROVE  q \o <<e>> = Append(q, e) /\ q \o <<>> = q
OBVIOUS

\* A list without the element at place n: those behind it move up.
LEMMA Removed ==
  ASSUME NEW S, NEW q \in Seq(S), NEW n \in 1 .. Len(q)
  PROVE  /\ RemoveAt(q, n) \in Seq(S)
         /\ Len(q) \in Nat \ {0} /\ Len(RemoveAt(q, n)) = Len(q) - 1
         /\ \A i \in 1 .. Len(q) - 1 : RemoveAt(q, n)[i] = IF i < n THEN q[i] ELSE q[i + 1]
<1>. DEFINE a == SubSeq(q, 1, n - 1)
            z == SubSeq(q, n + 1, Len(q))
<1>1. Len(q) \in Nat \ {0} /\ n \in Nat /\ n >= 1 /\ n <= Len(q)
  OBVIOUS
<1>2. a \in Seq(S) /\ Len(a) = n - 1 /\ \A i \in 1 .. n - 1 : a[i] = q[i]
  BY <1>1
<1>3. z \in Seq(S) /\ Len(z) = Len(q) - n /\ \A i \in 1 .. Len(q) - n : z[i] = q[n + i]
  BY <1>1
<1>4. RemoveAt(q, n) = a \o z
  BY DEF RemoveAt
<1>. HIDE DEF a, z
<1>5. a \o z \in Seq(S) /\ Len(a \o z) = Len(q) - 1
  BY <1>1, <1>2, <1>3
<1>6. ASSUME NEW i \in 1 .. Len(q) - 1
      PROVE  (a \o z)[i] = IF i < n THEN q[i] ELSE q[i + 1]
  <2>1. CASE i < n
    BY <1>1, <1>2, <1>3, <2>1
  <2>2. CASE ~(i < n)
    <3>1. (a \o z)[i] = z[i - (n - 1)]
      BY <1>1, <1>2, <1>3, <2>2
    <3>2. i - (n - 1) \in 1 .. Len(q) - n /\ n + (i - (n - 1)) = i + 1
      BY <1>1, <2>2
    <3>. QED  BY <1>3, <2>2, <3>1, <3>2
  <2>. QED  BY <2>1, <2>2
<1>. QED  BY <1>1, <1>4, <1>5, <1>6

-----------------------------------------------------------------------------
(* Entries *)

LEMMA ContainersAre ==
  ASSUME NEW f
  PROVE  f \in Containers <=> \E S \in SUBSET Kinds : f \in [S -> Profiles]
BY DEF Containers

LEMMA ServerParts ==
  ASSUME NEW s \in Servers
  PROVE  /\ s.id \in Ids \cup {NoId} /\ s.defaultContainer \in Kinds \cup {None}
         /\ DOMAIN s.containers \subseteq Kinds
         /\ s.containers \in [DOMAIN s.containers -> Profiles]
         /\ s = [id |-> s.id, containers |-> s.containers,
                 defaultContainer |-> s.defaultContainer]
<1>1. s.containers \in Containers
  BY DEF Servers
<1>2. PICK S \in SUBSET Kinds : s.containers \in [S -> Profiles]
  BY <1>1, ContainersAre
<1>. QED  BY <1>2 DEF Servers

LEMMA IsServer ==
  ASSUME NEW id \in Ids \cup {NoId}, NEW S \in SUBSET Kinds,
         NEW f \in [S -> Profiles], NEW c \in Kinds \cup {None}
  PROVE  [id |-> id, containers |-> f, defaultContainer |-> c] \in Servers
<1>1. f \in Containers
  BY ContainersAre
<1>. QED  BY <1>1 DEF Servers

LEMMA NoServerFacts ==
  /\ NoServer \in Servers /\ NoServer.id = NoId
  /\ DOMAIN NoServer.containers = {}
  /\ \A h : Clean(NoServer, h)
<1>1. <<>> \in [{} -> Profiles]
  OBVIOUS
<1>2. DOMAIN <<>> = {}
  OBVIOUS
<1>3. NoServer \in Servers
  BY <1>1, IsServer DEF NoServer
<1>. QED  BY <1>2, <1>3 DEF NoServer, Clean, Own, HasStub, Chosen

\* The cached profile of a container is replaced.
LEMMA WithConfigFacts ==
  ASSUME NEW s \in Servers, NEW c, NEW profile \in Profiles
  PROVE  LET e == WithConfig(s, c, profile) IN
         /\ e \in Servers /\ e.id = s.id /\ e.defaultContainer = s.defaultContainer
         /\ DOMAIN e.containers = DOMAIN s.containers
         /\ \A k \in DOMAIN s.containers :
              e.containers[k] = IF k = c THEN profile ELSE s.containers[k]
<1>. DEFINE f == [s.containers EXCEPT ![c] = profile]
<1>1. CASE c \in DOMAIN s.containers
  <2>1. f \in [DOMAIN s.containers -> Profiles]
    BY <1>1, ServerParts
  <2>2. WithConfig(s, c, profile) = [id |-> s.id, containers |-> f,
                                     defaultContainer |-> s.defaultContainer]
    BY <1>1, ServerParts DEF WithConfig
  <2>. HIDE DEF f
  <2>3. WithConfig(s, c, profile) \in Servers
    BY <2>1, <2>2, ServerParts, IsServer
  <2>. QED  BY <1>1, <2>1, <2>2, <2>3, ServerParts DEF f
<1>2. CASE c \notin DOMAIN s.containers
  BY <1>2 DEF WithConfig
<1>. QED  BY <1>1, <1>2

\* A container is added, or its profile replaced.
LEMMA WithContainerFacts ==
  ASSUME NEW s \in Servers, NEW c \in Kinds, NEW profile \in Profiles
  PROVE  LET e == WithContainer(s, c, profile) IN
         /\ e \in Servers /\ e.id = s.id /\ e.defaultContainer = s.defaultContainer
         /\ DOMAIN e.containers = DOMAIN s.containers \cup {c}
         /\ \A k \in DOMAIN s.containers \cup {c} :
              e.containers[k] = IF k = c THEN profile ELSE s.containers[k]
<1>. DEFINE f == [k \in DOMAIN s.containers \cup {c} |->
                    IF k = c THEN profile ELSE s.containers[k]]
<1>1. f \in [DOMAIN s.containers \cup {c} -> Profiles]
  BY ServerParts
<1>2. WithContainer(s, c, profile) = [id |-> s.id, containers |-> f,
                                      defaultContainer |-> s.defaultContainer]
  BY ServerParts DEF WithContainer
<1>3. DOMAIN s.containers \cup {c} \in SUBSET Kinds
  BY ServerParts
<1>4. DOMAIN f = DOMAIN s.containers \cup {c}
  OBVIOUS
<1>5. \A k \in DOMAIN s.containers \cup {c} :
        f[k] = IF k = c THEN profile ELSE s.containers[k]
  OBVIOUS
<1>. HIDE DEF f
<1>6. WithContainer(s, c, profile) \in Servers
  BY <1>1, <1>2, <1>3, ServerParts, IsServer
<1>. QED  BY <1>2, <1>4, <1>5, <1>6

\* A container is removed, and another may become the default one.
LEMMA WithoutFacts ==
  ASSUME NEW s \in Servers, NEW c, NEW n \in Kinds \cup {None}
  PROVE  LET e == [s EXCEPT !.containers = [k \in DOMAIN @ \ {c} |-> @[k]]]
             g == [e EXCEPT !.defaultContainer = n]
         IN  /\ e \in Servers /\ g \in Servers /\ e.id = s.id /\ g.id = s.id
             /\ e.defaultContainer = s.defaultContainer /\ g.defaultContainer = n
             /\ g.containers = e.containers
             /\ DOMAIN e.containers = DOMAIN s.containers \ {c}
             /\ \A k \in DOMAIN s.containers \ {c} : e.containers[k] = s.containers[k]
<1>. DEFINE f == [k \in DOMAIN s.containers \ {c} |-> s.containers[k]]
            e == [s EXCEPT !.containers = f]
            g == [e EXCEPT !.defaultContainer = n]
<1>1. f \in [DOMAIN s.containers \ {c} -> Profiles]
  BY ServerParts
<1>2. DOMAIN s.containers \ {c} \in SUBSET Kinds
  BY ServerParts
<1>3. f \in Containers
  BY <1>1, <1>2, ContainersAre
<1>4. DOMAIN f = DOMAIN s.containers \ {c}
  OBVIOUS
<1>5. \A k \in DOMAIN s.containers \ {c} : f[k] = s.containers[k]
  OBVIOUS
<1>6. e = [s EXCEPT !.containers = [k \in DOMAIN @ \ {c} |-> @[k]]]
  OBVIOUS
<1>. HIDE DEF f
<1>7. /\ e \in Servers /\ e.id = s.id /\ e.containers = f
      /\ e.defaultContainer = s.defaultContainer
  BY <1>3 DEF Servers
<1>. HIDE DEF e
<1>8. /\ g \in Servers /\ g.id = e.id /\ g.containers = e.containers
      /\ g.defaultContainer = n
  BY <1>7 DEF Servers
<1>. QED
  BY <1>4, <1>5, <1>6, <1>7, <1>8

LEMMA EmptiedFacts ==
  ASSUME NEW s \in Servers
  PROVE  /\ Emptied(s) \in Servers /\ Emptied(s).id = s.id
         /\ DOMAIN Emptied(s).containers = {} /\ \A h : Clean(Emptied(s), h)
<1>1. <<>> \in [{} -> Profiles] /\ DOMAIN <<>> = {}
  OBVIOUS
<1>2. <<>> \in Containers
  BY <1>1, ContainersAre
<1>3. /\ Emptied(s) \in Servers /\ Emptied(s).id = s.id
      /\ Emptied(s).containers = <<>> /\ Emptied(s).defaultContainer = None
  BY <1>2 DEF Servers, Emptied
<1>. QED  BY <1>1, <1>3 DEF Clean, Own, HasStub, Chosen

LEMMA ChosenFacts ==
  ASSUME NEW s \in Servers, NEW c \in Kinds \cup {None}
  PROVE  LET e == [s EXCEPT !.defaultContainer = c] IN
         /\ e \in Servers /\ e.id = s.id /\ e.containers = s.containers
         /\ e.defaultContainer = c
<1>1. [s EXCEPT !.defaultContainer = c] =
        [id |-> s.id, containers |-> s.containers, defaultContainer |-> c]
  BY ServerParts
<1>. QED  BY <1>1, ServerParts, IsServer

\* What an API sends.
LEMMA ApiFacts ==
  ASSUME NEW id \in Ids \cup {NoId}, NEW s \in ApiConfigs(id)
  PROVE  /\ s \in Servers /\ s.id = id
         /\ id # Stub => \A h : Clean(s, h)
<1>1. PICK c \in Vpns : s = [id |-> id, containers |-> [k \in {c} |-> id],
                            defaultContainer |-> c]
  BY DEF ApiConfigs
<1>2. [k \in {c} |-> id] \in [{c} -> Profiles] /\ {c} \in SUBSET Kinds
  BY DEF Kinds, Profiles
<1>3. s \in Servers
  BY <1>1, <1>2, IsServer
<1>4. DOMAIN s.containers = {c} /\ s.containers[c] = id /\ s.id = id
      /\ s.defaultContainer = c
  BY <1>1
<1>. QED  BY <1>3, <1>4 DEF Clean, Own, HasStub, Chosen

-----------------------------------------------------------------------------
(* Lists *)

LEMMA ListFacts ==
  ASSUME NEW list \in Seq(Servers), NEW i \in Int
  PROVE  /\ Len(list) \in Nat /\ DOMAIN list = 1 .. Len(list)
         /\ i \in Slots(list) <=> i + 1 \in DOMAIN list
         /\ ServerAt(list, i) \in Servers
         /\ i \in Slots(list) => ServerAt(list, i) = list[i + 1]
         /\ i \notin Slots(list) => ServerAt(list, i) = NoServer
BY NoServerFacts DEF Slots, ServerAt

LEMMA ReplacedFacts ==
  ASSUME NEW list \in Seq(Servers), NEW i \in Int, NEW s \in Servers
  PROVE  LET r == Replaced(list, i, s) IN
         /\ r \in Seq(Servers) /\ Len(r) = Len(list) /\ DOMAIN r = DOMAIN list
         /\ Slots(r) = Slots(list)
         /\ \A j \in DOMAIN list : r[j] = IF j = i + 1 THEN s ELSE list[j]
<1>. DEFINE r == [list EXCEPT ![i + 1] = s]
<1>1. list \in [1 .. Len(list) -> Servers] /\ Len(list) \in Nat
  OBVIOUS
<1>2. r \in [1 .. Len(list) -> Servers]
  BY <1>1
<1>3. r \in Seq(Servers) /\ Len(r) = Len(list) /\ DOMAIN r = DOMAIN list
  BY <1>1, <1>2
<1>4. \A j \in DOMAIN list : r[j] = IF j = i + 1 THEN s ELSE list[j]
  BY <1>1
<1>5. Replaced(list, i, s) = r
  BY DEF Replaced
<1>. QED  BY <1>3, <1>4, <1>5 DEF Slots

LEMMA StoredEditFacts ==
  ASSUME NEW list \in Seq(Servers), NEW i \in Int, NEW s \in Servers
  PROVE  LET r == StoredEdit(list, i, s) IN
         /\ r \in Seq(Servers) /\ Len(r) = Len(list) /\ DOMAIN r = DOMAIN list
         /\ Slots(r) = Slots(list)
         /\ \A j \in DOMAIN list : r[j] = IF j = i + 1 THEN s ELSE list[j]
<1>1. CASE i \in Slots(list)
  BY <1>1, ReplacedFacts DEF StoredEdit
<1>2. CASE i \notin Slots(list)
  <2>1. \A j \in DOMAIN list : j # i + 1
    BY <1>2, ListFacts
  <2>. QED  BY <1>2, <2>1 DEF StoredEdit
<1>. QED  BY <1>1, <1>2

LEMMA CleanAt ==
  ASSUME NEW list \in Seq(Servers), NEW i \in Int, NEW h, CleanList(list, h)
  PROVE  Clean(ServerAt(list, i), h)
BY ListFacts, NoServerFacts DEF CleanList

\* More signs ask for less.
LEMMA CleanMore ==
  ASSUME NEW s, NEW h, NEW g, h \subseteq g, Clean(s, h)
  PROVE  Clean(s, g)
BY DEF Clean

-----------------------------------------------------------------------------
(* The operations on the models, by the fields they change *)

LEMMA ModelFacts ==
  ASSUME NEW d \in Models
  PROVE  /\ d.list \in Seq(Servers) /\ d.servers \in Seq(Servers)
         /\ d.default \in Int /\ d.processed \in Int /\ d.containers \in Servers
         /\ d.page \in BOOLEAN /\ d.crashed \in BOOLEAN
         /\ Default(d) \in Servers /\ Processed(d) \in Servers
<1>1. /\ d.list \in Seq(Servers) /\ d.servers \in Seq(Servers)
      /\ d.default \in Int /\ d.processed \in Int /\ d.containers \in Servers
      /\ d.page \in BOOLEAN /\ d.crashed \in BOOLEAN
  BY DEF Models
<1>. QED  BY <1>1, ListFacts DEF Default, Processed

LEMMA EditFacts ==
  ASSUME NEW d \in Models, NEW i \in Int, NEW s \in Servers
  PROVE  LET e == editServer(d, i, s) IN
         /\ e \in Models /\ e.default = d.default /\ e.processed = d.processed
         /\ e.page = d.page /\ e.list = StoredEdit(d.list, i, s)
         /\ i \in Slots(d.servers) =>
              /\ e.servers = Replaced(d.servers, i, ServerAt(e.list, i))
              /\ e.containers = ServerAt(e.servers, d.processed)
              /\ e.crashed = d.crashed
         /\ i \notin Slots(d.servers) =>
              e.servers = d.servers /\ e.containers = d.containers /\ e.crashed
<1>. DEFINE list == StoredEdit(d.list, i, s)
            servers == Replaced(d.servers, i, ServerAt(list, i))
<1>1. list \in Seq(Servers)
  BY ModelFacts, StoredEditFacts
<1>2. servers \in Seq(Servers)
  BY <1>1, ModelFacts, ListFacts, ReplacedFacts
<1>3. ServerAt(servers, d.processed) \in Servers
  BY <1>2, ModelFacts, ListFacts
<1>4. editServer(d, i, s) =
        IF i \in Slots(d.servers)
        THEN [d EXCEPT !.list = list, !.servers = servers,
                       !.containers = ServerAt(servers, d.processed)]
        ELSE [d EXCEPT !.list = list, !.crashed = TRUE]
  BY DEF editServer
<1>. HIDE DEF list, servers
<1>5. CASE i \in Slots(d.servers)
  <2>. DEFINE e == [d EXCEPT !.list = list, !.servers = servers,
                             !.containers = ServerAt(servers, d.processed)]
  <2>1. /\ e \in Models /\ e.default = d.default /\ e.processed = d.processed
        /\ e.page = d.page /\ e.crashed = d.crashed
        /\ e.list = list /\ e.servers = servers
        /\ e.containers = ServerAt(servers, d.processed)
    BY <1>1, <1>2, <1>3 DEF Models
  <2>. HIDE DEF e
  <2>2. editServer(d, i, s) = e
    BY <1>4, <1>5 DEF e
  <2>. QED  BY <1>5, <2>1, <2>2 DEF list, servers
<1>6. CASE i \notin Slots(d.servers)
  <2>. DEFINE e == [d EXCEPT !.list = list, !.crashed = TRUE]
  <2>1. /\ e \in Models /\ e.default = d.default /\ e.processed = d.processed
        /\ e.page = d.page /\ e.crashed
        /\ e.list = list /\ e.servers = d.servers /\ e.containers = d.containers
    BY <1>1 DEF Models
  <2>. HIDE DEF e
  <2>2. editServer(d, i, s) = e
    BY <1>4, <1>6 DEF e
  <2>. QED  BY <1>6, <2>1, <2>2 DEF list
<1>. QED  BY <1>5, <1>6

LEMMA ProcessedFacts ==
  ASSUME NEW d \in Models, NEW i \in Int
  PROVE  LET e == setProcessedServerIndex(d, i) IN
         /\ e \in Models /\ e.default = d.default /\ e.processed = i
         /\ e.page /\ e.list = d.list /\ e.servers = d.servers
         /\ e.containers = ServerAt(d.servers, i) /\ e.crashed = d.crashed
<1>1. ServerAt(d.servers, i) \in Servers
  BY ModelFacts, ListFacts
<1>. QED  BY <1>1 DEF setProcessedServerIndex, Models

LEMMA DefaultFacts ==
  ASSUME NEW d \in Models, NEW i \in Int
  PROVE  LET e == setDefaultServerIndex(d, i) IN
         /\ e \in Models /\ e.default = i /\ e.processed = d.processed
         /\ e.page = d.page /\ e.list = d.list /\ e.servers = d.servers
         /\ e.containers = d.containers /\ e.crashed = d.crashed
BY DEF setDefaultServerIndex, Models

LEMMA ResetFacts ==
  ASSUME NEW d \in Models, NEW list \in Seq(Servers), NEW i \in Int
  PROVE  LET e == resetModel(d, list, i) IN
         /\ e \in Models /\ e.default = i /\ e.processed = i
         /\ ~e.page /\ e.list = list /\ e.servers = list
         /\ e.containers = d.containers /\ e.crashed = d.crashed
BY DEF resetModel, Models

LEMMA AddFacts ==
  ASSUME NEW d \in Models, NEW s \in Servers
  PROVE  LET e == addServer(d, s) IN
         /\ e \in Models /\ e.default = d.default /\ e.processed = d.processed
         /\ e.page = d.page /\ e.list = Append(d.list, s)
         /\ e.servers = Append(d.list, s)
         /\ e.containers = d.containers /\ e.crashed = d.crashed
<1>1. Append(d.list, s) \in Seq(Servers)
  BY ModelFacts, Appended
<1>. QED  BY <1>1 DEF addServer, Models

LEMMA RemovalFacts ==
  ASSUME NEW d \in Models
  PROVE  LET list == StoredRemoval(d)
             e == removeServer(d)
         IN  /\ list \in Seq(Servers) /\ DefaultAfter(d, Len(list)) \in Int
             /\ e \in Models /\ e.default = DefaultAfter(d, Len(list))
             /\ e.processed = e.default /\ e.list = list /\ e.servers = list
             /\ e.containers = ServerAt(list, e.default) /\ e.crashed = d.crashed
<1>. DEFINE list == StoredRemoval(d)
            gone == [d EXCEPT !.list = list, !.servers = list]
            n == DefaultAfter(d, Len(list))
<1>1. list \in Seq(Servers)
  <2>1. CASE d.processed \in Slots(d.list)
    <3>1. d.processed + 1 \in 1 .. Len(d.list)
      BY <2>1, ModelFacts, ListFacts
    <3>. QED  BY <2>1, <3>1, ModelFacts, Removed DEF StoredRemoval
  <2>2. CASE d.processed \notin Slots(d.list)
    BY <2>2, ModelFacts DEF StoredRemoval
  <2>. QED  BY <2>1, <2>2
<1>2. n \in Int
  BY ModelFacts DEF DefaultAfter
<1>3. removeServer(d) = setProcessedServerIndex(setDefaultServerIndex(gone, n), n)
  BY DEF removeServer
<1>. HIDE DEF list, n
<1>4. /\ gone \in Models /\ gone.list = list /\ gone.servers = list
      /\ gone.crashed = d.crashed
  BY <1>1 DEF Models
<1>. HIDE DEF gone
<1>. DEFINE e == setDefaultServerIndex(gone, n)
<1>5. /\ e \in Models /\ e.default = n /\ e.list = list /\ e.servers = list
      /\ e.crashed = d.crashed
  BY <1>2, <1>4, DefaultFacts
<1>. HIDE DEF e
<1>6. LET z == setProcessedServerIndex(e, n) IN
      /\ z \in Models /\ z.default = n /\ z.processed = n /\ z.list = list
      /\ z.servers = list /\ z.containers = ServerAt(list, n) /\ z.crashed = d.crashed
  BY <1>2, <1>5, ProcessedFacts
<1>7. removeServer(d) = setProcessedServerIndex(e, n)
  BY <1>3 DEF e
<1>. QED
  BY <1>1, <1>2, <1>6, <1>7 DEF list, n

-----------------------------------------------------------------------------
(* What the operations keep of the models.  A handler makes several of them in *)
(* a row; fs wait meanwhile, and h is what will have gone wrong at the end.    *)

\* Up to this step nothing was about to be stored in the wrong place or from an
\* outdated list, and up to its end every reply could be read.
Calm(h) == hist \cap {"raced", "shifted"} = {} /\ "garbled" \notin h

\* The steps that are there to take servers away.
Removal == \/ RemoveProcessedServer \/ RestoreAppConfig \/ ClearSettings
           \/ Restart \/ EndInRemoval \/ EndInAddition \/ EndInRestore

\* The servers that m lists are listed by d, at the same places.
Lasts(d, h) == Removal \/ (Calm(h) =>
  /\ Len(d.list) = Len(d.servers)
  /\ \A j \in DOMAIN d.list : d.list[j].id = d.servers[j].id
  /\ \A j \in DOMAIN m.servers :
       j \in DOMAIN d.servers /\ d.servers[j].id = m.servers[j].id)

Kept(d, fs, h) ==
  /\ d \in Models /\ ModelsOK(d, fs, h) /\ AddedKept(d, fs, h) /\ FramesOK(fs, h)
  /\ Lasts(d, h)

\* An entry may only be replaced by one of the same server.
Steady(h) == \/ Calm(h) /\ ~Removal
             \/ h \cap {"raced", "shifted", "garbled"} = {}

NoneAdded(fs) == \A k \in DOMAIN fs : fs[k].op # "added"

\* The entry s may be stored at place i.
Fits(d, i, s, fs, h) ==
  /\ i \in Int /\ s \in Servers
  /\ i \in Slots(d.list) => Clean(s, h)
  /\ Steady(h) /\ i \in Slots(d.servers) => s.id = d.servers[i + 1].id
  /\ h \cap {"strayed", "shifted"} = {} => i \in Slots(d.servers)
  /\ NoneAdded(fs) \/ s.id \notin Ids \ (Telegram \cup Gateway)

LEMMA EditKept ==
  ASSUME NEW d, NEW i, NEW s, NEW fs, NEW h, Kept(d, fs, h), Fits(d, i, s, fs, h)
  PROVE  Kept(editServer(d, i, s), fs, h)
<1>. DEFINE e == editServer(d, i, s)
            z == ServerAt(e.list, i)
<1>1. d \in Models /\ i \in Int /\ s \in Servers
  BY DEF Kept, Fits
<1>2. /\ e \in Models /\ e.default = d.default /\ e.processed = d.processed
      /\ e.list = StoredEdit(d.list, i, s)
      /\ i \in Slots(d.servers) =>
           /\ e.servers = Replaced(d.servers, i, z)
           /\ e.containers = ServerAt(e.servers, d.processed)
           /\ e.crashed = d.crashed
      /\ i \notin Slots(d.servers) =>
           e.servers = d.servers /\ e.containers = d.containers /\ e.crashed
  BY <1>1, EditFacts
<1>. HIDE DEF e
<1>3. /\ d.list \in Seq(Servers) /\ d.servers \in Seq(Servers) /\ d.processed \in Int
      /\ e.list \in Seq(Servers) /\ e.servers \in Seq(Servers) /\ e.containers \in Servers
  BY <1>1, <1>2, ModelFacts
<1>4. /\ Len(e.list) = Len(d.list) /\ DOMAIN e.list = DOMAIN d.list
      /\ \A j \in DOMAIN d.list : e.list[j] = IF j = i + 1 THEN s ELSE d.list[j]
      /\ Slots(e.list) = Slots(d.list)
  BY <1>1, <1>2, <1>3, StoredEditFacts
<1>5. /\ z \in Servers
      /\ i \in Slots(d.list) => z = s
      /\ i \notin Slots(d.list) => z = NoServer
  <2>1. z \in Servers /\ (i \in Slots(e.list) => z = e.list[i + 1])
        /\ (i \notin Slots(e.list) => z = NoServer)
    BY <1>1, <1>3, ListFacts
  <2>2. i \in Slots(d.list) => i + 1 \in DOMAIN d.list
    BY <1>1, <1>3, ListFacts
  <2>. QED  BY <1>4, <2>1, <2>2
<1>. HIDE DEF z
<1>6. /\ Len(e.servers) = Len(d.servers) /\ DOMAIN e.servers = DOMAIN d.servers
      /\ Slots(e.servers) = Slots(d.servers)
      /\ \A j \in DOMAIN d.servers : e.servers[j] = IF j = i + 1 THEN z ELSE d.servers[j]
  <2>1. CASE i \in Slots(d.servers)
    BY <1>1, <1>2, <1>3, <1>5, <2>1, ReplacedFacts
  <2>2. CASE i \notin Slots(d.servers)
    <3>1. \A j \in DOMAIN d.servers : j # i + 1
      BY <1>1, <1>3, <2>2, ListFacts
    <3>. QED  BY <1>2, <2>2, <3>1
  <2>. QED  BY <2>1, <2>2
<1>7. i \in Slots(d.list) <=> i + 1 \in DOMAIN d.list
  BY <1>1, <1>3, ListFacts
<1>8. i \in Slots(d.servers) <=> i + 1 \in DOMAIN d.servers
  BY <1>1, <1>3, ListFacts
<1>9. CleanList(e.list, h)
  BY <1>4, <1>7 DEF Kept, ModelsOK, CleanList, Fits
<1>10. Clean(z, h)
  BY <1>5, NoServerFacts DEF Fits
<1>11. CleanList(e.servers, h)
  BY <1>6, <1>10 DEF Kept, ModelsOK, CleanList
<1>12. Clean(e.containers, h)
  <2>1. CASE i \in Slots(d.servers)
    BY <1>2, <1>3, <1>11, <2>1, CleanAt
  <2>2. CASE i \notin Slots(d.servers)
    BY <1>2, <2>2 DEF Kept, ModelsOK
  <2>. QED  BY <2>1, <2>2
<1>13. ASSUME "raced" \notin h  PROVE Synced(e, fs)
  <2>1. Synced(d, fs)
    BY <1>13 DEF Kept, ModelsOK
  <2>2. DOMAIN d.list = DOMAIN d.servers
    BY <1>3, <2>1 DEF Synced
  <2>. QED  BY <1>4, <1>5, <1>6, <1>7, <2>1, <2>2 DEF Synced
<1>14. ASSUME h \cap {"raced", "shifted", "garbled"} = {}  PROVE AllDifferent(e.servers)
  <2>1. "raced" \notin h /\ AllDifferent(d.servers)
    BY <1>14 DEF Kept, ModelsOK
  <2>2. DOMAIN d.list = DOMAIN d.servers
    BY <1>3, <2>1 DEF Kept, ModelsOK, Synced
  <2>3. \A j \in DOMAIN d.servers : e.servers[j].id = d.servers[j].id
    BY <1>5, <1>6, <1>7, <1>8, <1>14, <2>2 DEF Fits, Steady
  <2>. QED  BY <1>6, <2>1, <2>3 DEF AllDifferent
<1>15. h \cap {"strayed", "shifted"} = {} => ~e.crashed
  BY <1>2 DEF Fits, Kept, ModelsOK
<1>16. h \cap {"raced", "torn", "moved"} = {} /\ e.servers # <<>> =>
         e.default \in Slots(e.servers)
  <2>1. e.servers # <<>> => d.servers # <<>>
    BY <1>3, <1>6
  <2>. QED  BY <1>2, <1>6, <2>1 DEF Kept, ModelsOK
<1>17. AddedKept(e, fs, h)
  <2>. SUFFICES ASSUME "strayed" \notin h, NEW k \in DOMAIN fs,
                       fs[k].op = "added", IsAt(e.servers, fs[k].idx, fs[k].id)
                PROVE  fs[k].c \in DOMAIN ServerAt(e.servers, fs[k].idx).containers
    BY DEF AddedKept
  <2>1. fs[k].id \in Ids \ (Telegram \cup Gateway)
    BY DEF Kept, FramesOK, FrameOK, Commands
  <2>2. s.id \notin Ids \ (Telegram \cup Gateway)
    BY DEF Fits, NoneAdded
  <2>3. z.id # fs[k].id
    BY <1>5, <2>1, <2>2, NoServerFacts, ConstantsAssumption
  <2>4. fs[k].idx \in Slots(d.servers) /\ e.servers[fs[k].idx + 1].id = fs[k].id
    BY <1>6 DEF IsAt
  <2>5. fs[k].idx + 1 \in DOMAIN d.servers
    BY <1>3, <2>4 DEF Slots
  <2>6. e.servers[fs[k].idx + 1] = d.servers[fs[k].idx + 1]
    BY <1>6, <2>3, <2>4, <2>5
  <2>7. /\ ServerAt(e.servers, fs[k].idx) = d.servers[fs[k].idx + 1]
        /\ ServerAt(d.servers, fs[k].idx) = d.servers[fs[k].idx + 1]
        /\ IsAt(d.servers, fs[k].idx, fs[k].id)
    BY <1>6, <2>4, <2>6 DEF ServerAt, IsAt
  <2>. QED  BY <2>7 DEF Kept, AddedKept
<1>18. Lasts(e, h)
  <2>. SUFFICES ASSUME ~Removal, Calm(h)
                PROVE  /\ Len(e.list) = Len(e.servers)
                       /\ \A j \in DOMAIN e.list : e.list[j].id = e.servers[j].id
                       /\ \A j \in DOMAIN m.servers :
                            j \in DOMAIN e.servers /\ e.servers[j].id = m.servers[j].id
    BY DEF Lasts
  <2>1. /\ Len(d.list) = Len(d.servers)
        /\ \A j \in DOMAIN d.list : d.list[j].id = d.servers[j].id
        /\ \A j \in DOMAIN m.servers :
             j \in DOMAIN d.servers /\ d.servers[j].id = m.servers[j].id
    BY DEF Kept, Lasts
  <2>2. DOMAIN d.list = DOMAIN d.servers
    BY <1>3, <2>1
  <2>3. i \in Slots(d.servers) => s.id = d.servers[i + 1].id
    BY DEF Fits, Steady
  <2>. QED  BY <1>4, <1>5, <1>6, <1>7, <1>8, <2>1, <2>2, <2>3
<1>. QED
  BY <1>2, <1>9, <1>11, <1>12, <1>13, <1>14, <1>15, <1>16, <1>17, <1>18
  DEF Kept, ModelsOK, e

LEMMA ProcessedKept ==
  ASSUME NEW d, NEW i \in Int, NEW fs, NEW h, Kept(d, fs, h)
  PROVE  Kept(setProcessedServerIndex(d, i), fs, h)
<1>. DEFINE e == setProcessedServerIndex(d, i)
<1>1. d \in Models /\ d.servers \in Seq(Servers)
  BY ModelFacts DEF Kept
<1>2. /\ e \in Models /\ e.default = d.default
      /\ e.list = d.list /\ e.servers = d.servers
      /\ e.containers = ServerAt(d.servers, i) /\ e.crashed = d.crashed
  BY <1>1, ProcessedFacts
<1>. HIDE DEF e
<1>3. Clean(e.containers, h)
  BY <1>1, <1>2, CleanAt DEF Kept, ModelsOK
<1>4. ModelsOK(e, fs, h)
  BY <1>2, <1>3 DEF Kept, ModelsOK, Synced
<1>5. AddedKept(e, fs, h) /\ Lasts(e, h)
  BY <1>2 DEF Kept, AddedKept, Lasts
<1>. QED  BY <1>2, <1>4, <1>5 DEF Kept, e

LEMMA FrameMore ==
  ASSUME NEW f, NEW g, NEW h, g \subseteq h, FrameOK(f, g)
  PROVE  FrameOK(f, h)
BY CleanMore DEF FrameOK, CleanList

LEMMA KeptMore ==
  ASSUME NEW d, NEW fs, NEW g, NEW h, g \subseteq h, Kept(d, fs, g)
  PROVE  Kept(d, fs, h)
<1>1. FramesOK(fs, h)
  BY FrameMore DEF Kept, FramesOK
<1>2. AddedKept(d, fs, h)
  BY DEF Kept, AddedKept
<1>3. CleanList(d.list, h) /\ CleanList(d.servers, h) /\ Clean(d.containers, h)
  BY CleanMore DEF Kept, ModelsOK, CleanList
<1>4. Lasts(d, h)
  BY DEF Kept, Lasts, Calm
<1>. QED  BY <1>1, <1>2, <1>3, <1>4 DEF Kept, ModelsOK

LEMMA KeptStart ==
  ASSUME ServersInv, NEW h, hist \subseteq h
  PROVE  Kept(m, frames, h)
<1>1. m \in Models /\ ModelsOK(m, frames, hist)
  BY DEF ServersInv, TypeOK
<1>2. Lasts(m, hist)
  <2>. SUFFICES ASSUME "raced" \notin hist
                PROVE  /\ Len(m.list) = Len(m.servers)
                       /\ \A j \in DOMAIN m.list : m.list[j].id = m.servers[j].id
    BY DEF Lasts, Calm
  <2>. QED  BY <1>1 DEF ModelsOK, Synced
<1>3. Kept(m, frames, hist)
  BY <1>1, <1>2 DEF ServersInv, Kept
<1>. QED  BY <1>3, KeptMore

\* The innermost handler returns.
LEMMA KeptOuter ==
  ASSUME NEW d, NEW fs \in Seq(Frames), NEW h, Kept(d, fs, h), fs # <<>>,
         Last(fs).pc \notin {"read", "apply"}
  PROVE  Kept(d, Front(fs), h)
<1>1. \A k \in DOMAIN Front(fs) : k \in DOMAIN fs /\ Front(fs)[k] = fs[k]
  BY Popped
<1>2. FramesOK(Front(fs), h) /\ AddedKept(d, Front(fs), h)
  BY <1>1 DEF Kept, FramesOK, AddedKept
<1>3. \A k \in DOMAIN fs : fs[k].pc \in {"read", "apply"} => k \in DOMAIN Front(fs)
  BY Popped
<1>4. Synced(d, fs) => Synced(d, Front(fs))
  BY <1>1, <1>3 DEF Synced
<1>. QED  BY <1>2, <1>4 DEF Kept, ModelsOK

\* Another one waits.
LEMMA KeptPush ==
  ASSUME NEW d, NEW fs \in Seq(Frames), NEW h, Kept(d, fs, h),
         NEW f \in Frames, FrameOK(f, h),
         f.op = "added" /\ "strayed" \notin h =>
           f.c \in DOMAIN ServerAt(d.servers, f.idx).containers
  PROVE  Kept(d, Append(fs, f), h)
<1>. DEFINE gs == Append(fs, f)
<1>1. /\ \A k \in DOMAIN fs : k \in DOMAIN gs /\ gs[k] = fs[k]
      /\ \A k \in DOMAIN gs : (k \in DOMAIN fs /\ gs[k] = fs[k]) \/ gs[k] = f
  BY Appended
<1>. HIDE DEF gs
<1>2. FramesOK(gs, h) /\ AddedKept(d, gs, h)
  BY <1>1 DEF Kept, FramesOK, AddedKept
<1>3. Synced(d, fs) => Synced(d, gs)
  BY <1>1 DEF Synced
<1>. QED  BY <1>2, <1>3 DEF Kept, ModelsOK, gs

-----------------------------------------------------------------------------
(* Steps *)

Popup(f) == f.op \notin {"connect", "gateway"}
NoPopup(fs) == \A k \in DOMAIN fs : ~Popup(fs[k])

\* fs are the handlers that go on waiting.
Stay(fs) == fs = frames \/ (frames # <<>> /\ fs = Outer /\ Top.pc \notin {"read", "apply"})

\* After a step fs wait, and perhaps one more.
MayWait(fs, f) ==
  /\ f \in Frames /\ FrameOK(f, hist') /\ (Popup(f) => NoPopup(fs))
  /\ f.op = "added" /\ "strayed" \notin hist' =>
       f.c \in DOMAIN ServerAt(m'.servers, f.idx).containers
Wait(fs) == frames' = fs \/ \E f : MayWait(fs, f) /\ frames' = Append(fs, f)

LEMMA StayFacts ==
  ASSUME ServersInv, NEW h, hist \subseteq h, NEW fs, Stay(fs)
  PROVE  /\ fs \in Seq(Frames) /\ Kept(m, fs, h)
         /\ OnePopup(fs)
<1>1. frames \in Seq(Frames) /\ OnePopup(frames)
  BY DEF ServersInv, TypeOK
<1>2. Kept(m, frames, h)
  BY KeptStart
<1>3. CASE fs = frames
  BY <1>1, <1>2, <1>3
<1>4. CASE frames # <<>> /\ fs = Outer /\ Top.pc \notin {"read", "apply"}
  <2>1. fs \in Seq(Frames) /\ \A k \in DOMAIN fs : k \in DOMAIN frames /\ fs[k] = frames[k]
    BY <1>1, <1>4, Popped DEF Outer
  <2>2. Kept(m, fs, h)
    BY <1>1, <1>2, <1>4, KeptOuter DEF Outer, Top
  <2>. QED  BY <1>1, <2>1, <2>2 DEF OnePopup
<1>. QED  BY <1>3, <1>4 DEF Stay

LEMMA WaitFacts ==
  ASSUME ServersInv, hist \subseteq hist', NEW fs, Stay(fs), Wait(fs), Kept(m', fs, hist')
  PROVE  frames' \in Seq(Frames) /\ OnePopup(frames') /\ Kept(m', frames', hist')
<1>1. fs \in Seq(Frames) /\ OnePopup(fs)
  BY StayFacts
<1>2. CASE frames' = fs
  BY <1>1, <1>2
<1>3. ASSUME NEW f, MayWait(fs, f), frames' = Append(fs, f)
      PROVE  frames' \in Seq(Frames) /\ OnePopup(frames') /\ Kept(m', frames', hist')
  <2>1. f \in Frames /\ frames' \in Seq(Frames)
    BY <1>1, <1>3, Appended DEF MayWait
  <2>2. Kept(m', frames', hist')
    BY <1>1, <1>3, <2>1, KeptPush DEF MayWait
  <2>3. OnePopup(frames')
    <3>1. \A k \in DOMAIN frames' : (k \in DOMAIN fs /\ frames'[k] = fs[k])
                                    \/ (k = Len(fs) + 1 /\ frames'[k] = f)
      BY <1>1, <1>3, <2>1, Appended
    <3>. QED  BY <1>1, <1>3, <3>1 DEF MayWait, OnePopup, NoPopup, Popup
  <2>. QED  BY <2>1, <2>2, <2>3
<1>. QED  BY <1>2, <1>3 DEF Wait

\* The signs are noted with every step.
AllSigns == {"strayed", "shifted", "raced", "moved", "torn", "stubbed", "refused",
             "garbled"}
NotedWith(more) == hist' = hist \cup Signs' \cup more /\ more \subseteq AllSigns

LEMMA NotedFacts ==
  ASSUME ServersInv, NEW more, NotedWith(more)
  PROVE  /\ hist \subseteq hist' /\ hist' \subseteq AllSigns /\ SignsNoted' /\ more \subseteq hist'
         /\ Strayed' => "strayed" \in hist'
         /\ Shifted' => "shifted" \in hist'
         /\ Raced' => "raced" \in hist'
         /\ Moved' => "moved" \in hist'
         /\ Stubbed' => "stubbed" \in hist'
<1>1. /\ Signs' \subseteq AllSigns
      /\ Strayed' => "strayed" \in Signs'
      /\ Shifted' => "shifted" \in Signs'
      /\ Raced' => "raced" \in Signs'
      /\ Moved' => "moved" \in Signs'
      /\ Stubbed' => "stubbed" \in Signs'
  BY DEF Signs, AllSigns
<1>2. hist \subseteq AllSigns
  BY DEF ServersInv, TypeOK, AllSigns
<1>. QED  BY <1>1, <1>2 DEF NotedWith, SignsNoted

\* The buttons and the tunnel after a step.
ShownOK ==
  /\ state' \in {"off", "busy", "on"} /\ tunnel' \in Tunnels
  /\ state' = "on" => tunnel' # NoTunnel
  /\ ConnectsToOne'
CountsOK == edits' \in Nat /\ opens' \in Nat
RequestsTyped == telegram' \subseteq [idx : Int, server : Servers]
HandlersOK == handlers' \in [current : BOOLEAN, left : BOOLEAN] /\ HandlersWait'

\* What every step has to show.
Preserved == ServersInv' /\ Lasts(m', hist') /\ hist \subseteq hist'

LEMMA Assembled ==
  ASSUME ServersInv, NEW more, NotedWith(more),
         frames' \in Seq(Frames), OnePopup(frames'), Kept(m', frames', hist'),
         posted' \in Seq([by : Nat, server : Servers]),
         \A i \in DOMAIN posted' : Clean(posted'[i].server, hist'),
         RequestsTyped, RequestsOK(telegram', hist'),
         ShownOK, HandlersOK, CountsOK
  PROVE  Preserved
<1>1. hist' \subseteq AllSigns /\ SignsNoted' /\ hist \subseteq hist'
  BY NotedFacts
<1>2. TypeOK'
  BY <1>1 DEF TypeOK, Kept, ShownOK, HandlersOK, CountsOK, RequestsTyped, AllSigns
<1>3. ModelsOK(m, frames, hist)'
  BY DEF Kept, ModelsOK, Synced, CleanList, Clean, Own, HasStub, Chosen,
         AllDifferent, Slots, Stub, None
<1>4. FramesOK(frames, hist)'
  BY DEF Kept, FramesOK, FrameOK, Commands, CleanList, Clean, Own, HasStub, Chosen,
         Stub, None, Kinds
<1>5. OnePopup(frames)'
  BY DEF OnePopup
<1>6. AddedKept(m, frames, hist)'
  BY DEF Kept, AddedKept, IsAt, ServerAt, Slots, NoServer, None
<1>7. RequestsOK(telegram, hist)' /\ (\A i \in DOMAIN posted : Clean(posted[i].server, hist))'
  BY DEF RequestsOK, Clean, Own, HasStub, Chosen, Stub, None
<1>8. ServersInv'
  BY <1>1, <1>2, <1>3, <1>4, <1>5, <1>6, <1>7 DEF ServersInv, ShownOK, HandlersOK
<1>. QED  BY <1>1, <1>8 DEF Preserved, Kept

LEMMA InvFacts ==
  ASSUME ServersInv
  PROVE  /\ m \in Models /\ frames \in Seq(Frames)
         /\ telegram \subseteq [idx : Int, server : Servers]
         /\ posted \in Seq([by : Nat, server : Servers])
         /\ state \in {"off", "busy", "on"} /\ tunnel \in Tunnels
         /\ handlers \in [current : BOOLEAN, left : BOOLEAN]
         /\ edits \in Nat /\ opens \in Nat
         /\ Strayed => "strayed" \in hist
         /\ Shifted => "shifted" \in hist
         /\ Raced => "raced" \in hist
         /\ Moved => "moved" \in hist
         /\ Stubbed => "stubbed" \in hist
BY DEF ServersInv, TypeOK, SignsNoted, Signs

LEMMA RequestsStay ==
  ASSUME ServersInv, hist \subseteq hist'
  PROVE  /\ telegram' \subseteq telegram => RequestsTyped /\ RequestsOK(telegram', hist')
         /\ posted' = posted => \A i \in DOMAIN posted' : Clean(posted'[i].server, hist')
BY InvFacts, CleanMore DEF ServersInv, RequestsOK, RequestsTyped

LEMMA ShownStays ==
  ASSUME ServersInv, hist \subseteq hist', tunnel' = tunnel,
         state' \in {"off", "busy", state}
  PROVE  ShownOK
BY InvFacts DEF ServersInv, ShownOK, ConnectsToOne

LEMMA AfterErrorFacts ==
  ASSUME NEW s
  PROVE  AfterError(s) \in {s, "off"}
BY DEF AfterError

\* Gateway requests that wait go on waiting.
LEMMA HandlersStay ==
  ASSUME ServersInv, hist \subseteq hist', NEW fs, Stay(fs), Wait(fs),
         handlers' = handlers, telegram' = telegram, ~m.crashed,
         fs = frames \/ Top.op # "gateway"
  PROVE  HandlersOK
<1>1. frames \in Seq(Frames) /\ handlers' \in [current : BOOLEAN, left : BOOLEAN]
  BY InvFacts
<1>2. ASSUME NEW k \in DOMAIN frames, frames[k].op = "gateway"
      PROVE  k \in DOMAIN fs /\ fs[k] = frames[k]
  BY <1>1, <1>2, Popped DEF Stay, Outer, Top
<1>3. ASSUME NEW k \in DOMAIN fs
      PROVE  k \in DOMAIN frames' /\ frames'[k] = fs[k]
  <2>1. fs \in Seq(Frames)
    BY StayFacts
  <2>. QED  BY <2>1, <1>3, Appended DEF Wait, MayWait
<1>4. (\E k \in DOMAIN frames : frames[k].op = "gateway") =>
        \E k \in DOMAIN frames' : frames'[k].op = "gateway"
  BY <1>2, <1>3
<1>. QED  BY <1>1, <1>4 DEF ServersInv, HandlersWait, HandlersOK

\* Steps that change the models and the handlers that wait.
LEMMA QuietStep ==
  ASSUME ServersInv, NEW more, NotedWith(more), NEW fs, Stay(fs), Wait(fs),
         Kept(m', fs, hist'), ~m.crashed, fs = frames \/ Top.op # "gateway",
         UNCHANGED <<telegram, posted, tunnel, handlers>>,
         state' \in {state, "off"}, CountsOK
  PROVE  Preserved
<1>1. hist \subseteq hist'
  BY NotedFacts
<1>2. frames' \in Seq(Frames) /\ OnePopup(frames') /\ Kept(m', frames', hist')
  BY <1>1, WaitFacts
<1>3. ShownOK
  BY <1>1, ShownStays
<1>4. HandlersOK
  BY <1>1, HandlersStay
<1>5. RequestsTyped /\ RequestsOK(telegram', hist')
      /\ \A i \in DOMAIN posted' : Clean(posted'[i].server, hist')
  BY <1>1, RequestsStay
<1>6. posted' \in Seq([by : Nat, server : Servers])
  BY InvFacts
<1>. QED  BY <1>2, <1>3, <1>4, <1>5, <1>6, Assembled

LEMMA EditStep ==
  ASSUME ServersInv, NEW d, Edit(d), Kept(d, frames, hist')
  PROVE  Preserved
<1>1. NotedWith({}) /\ Stay(frames) /\ Wait(frames) /\ CountsOK /\ ~m.crashed /\ m' = d
  BY InvFacts DEF Edit, Noted, NotedWith, Stay, Wait, CountsOK, UserFree
<1>. QED  BY <1>1, QuietStep DEF Edit

\* The user is free when no popup is shown.
LEMMA FreeFacts ==
  ASSUME UserFree
  PROVE  ~m.crashed /\ NoPopup(frames) /\ NoneAdded(frames)
BY DEF UserFree, Modal, NoPopup, Popup, NoneAdded

-----------------------------------------------------------------------------
(* The user's edits *)

\* An operation that takes the copy from the list.
LEMMA KeptFresh ==
  ASSUME NEW e \in Models, NEW fs, NEW h, FramesOK(fs, h), NoneAdded(fs), Lasts(e, h),
         e.servers = e.list, CleanList(e.list, h), Clean(e.containers, h),
         h \cap {"raced", "shifted", "garbled"} = {} => AllDifferent(e.list),
         h \cap {"strayed", "shifted"} = {} => ~e.crashed,
         h \cap {"raced", "torn", "moved"} = {} /\ e.list # <<>> =>
           e.default \in Slots(e.list)
  PROVE  Kept(e, fs, h)
<1>1. Synced(e, fs)
  BY DEF Synced
<1>2. AddedKept(e, fs, h)
  BY DEF AddedKept, NoneAdded
<1>. QED  BY <1>1, <1>2 DEF Kept, ModelsOK

\* The list as it is when nothing has raced.
LEMMA ListAlike ==
  ASSUME NEW d, NEW fs, NEW h, Kept(d, fs, h), "raced" \notin h
  PROVE  /\ Len(d.list) = Len(d.servers) /\ DOMAIN d.list = DOMAIN d.servers
         /\ Slots(d.list) = Slots(d.servers)
         /\ \A i \in DOMAIN d.list : d.list[i].id = d.servers[i].id
         /\ AllDifferent(d.servers) => AllDifferent(d.list)
<1>1. d.list \in Seq(Servers) /\ d.servers \in Seq(Servers) /\ Synced(d, fs)
  BY ModelFacts DEF Kept, ModelsOK
<1>2. DOMAIN d.list = DOMAIN d.servers /\ Len(d.list) = Len(d.servers)
  BY <1>1 DEF Synced
<1>. QED  BY <1>1, <1>2 DEF Synced, Slots, AllDifferent

LEMMA DefaultSetKept ==
  ASSUME NEW d, NEW i \in Int, NEW fs, NEW h, Kept(d, fs, h), i \in Slots(d.servers)
  PROVE  Kept(setDefaultServerIndex(d, i), fs, h)
<1>. DEFINE e == setDefaultServerIndex(d, i)
<1>1. d \in Models
  BY DEF Kept
<1>2. /\ e \in Models /\ e.default = i /\ e.list = d.list /\ e.servers = d.servers
      /\ e.containers = d.containers /\ e.crashed = d.crashed
  BY <1>1, DefaultFacts
<1>. HIDE DEF e
<1>. QED  BY <1>2 DEF Kept, ModelsOK, Synced, AddedKept, Lasts, e

LEMMA SlotsInt ==
  ASSUME NEW list \in Seq(Servers)
  PROVE  Slots(list) \subseteq Int
BY DEF Slots

LEMMA SelectSteps ==
  ASSUME ServersInv, SelectServer \/ SelectDefault
  PROVE  Preserved
<1>1. m.servers \in Seq(Servers) /\ Slots(m.servers) \subseteq Int
  BY InvFacts, ModelFacts, SlotsInt
<1>2. ASSUME NEW i \in Slots(m.servers), Edit(setProcessedServerIndex(m, i))
      PROVE  Preserved
  <2>1. hist \subseteq hist'
    BY <1>2 DEF Edit, Noted
  <2>2. Kept(setProcessedServerIndex(m, i), frames, hist')
    BY <1>1, <2>1, KeptStart, ProcessedKept
  <2>. QED  BY <1>2, <2>2, EditStep
<1>3. ASSUME NEW i \in Slots(m.servers), Edit(setDefaultServerIndex(m, i))
      PROVE  Preserved
  <2>1. hist \subseteq hist'
    BY <1>3 DEF Edit, Noted
  <2>2. Kept(setDefaultServerIndex(m, i), frames, hist')
    BY <1>1, <2>1, KeptStart, DefaultSetKept
  <2>. QED  BY <1>3, <2>2, EditStep
<1>. QED  BY <1>2, <1>3 DEF SelectServer, SelectDefault

LEMMA RemovalListFacts ==
  ASSUME NEW d, NEW fs, NEW h, Kept(d, fs, h)
  PROVE  LET list == StoredRemoval(d) IN
         /\ list \in Seq(Servers) /\ CleanList(list, h)
         /\ AllDifferent(d.list) => AllDifferent(list)
         /\ d.processed \in Slots(d.list) =>
              Len(d.list) \in Nat \ {0} /\ Len(list) = Len(d.list) - 1
         /\ \A s \in {list[j] : j \in DOMAIN list} : \E j \in DOMAIN d.list : s = d.list[j]
<1>. DEFINE list == StoredRemoval(d)
            n == d.processed + 1
<1>1. d \in Models /\ d.list \in Seq(Servers) /\ d.processed \in Int
  BY ModelFacts DEF Kept
<1>2. CASE d.processed \in Slots(d.list)
  <2>1. n \in 1 .. Len(d.list) /\ DOMAIN d.list = 1 .. Len(d.list)
    BY <1>1, <1>2, ListFacts
  <2>2. list = RemoveAt(d.list, n)
    BY <1>2 DEF StoredRemoval
  <2>3. /\ list \in Seq(Servers) /\ Len(d.list) \in Nat \ {0} /\ Len(list) = Len(d.list) - 1
        /\ \A i \in 1 .. Len(d.list) - 1 :
             list[i] = IF i < n THEN d.list[i] ELSE d.list[i + 1]
    BY <1>1, <2>1, <2>2, Removed
  <2>. HIDE DEF list
  <2>4. DOMAIN list = 1 .. Len(d.list) - 1
    BY <2>3
  <2>5. \A i \in DOMAIN list : /\ i \in DOMAIN d.list /\ i + 1 \in DOMAIN d.list
                               /\ i < n => list[i] = d.list[i]
                               /\ ~(i < n) => list[i] = d.list[i + 1]
    BY <2>1, <2>3, <2>4
  <2>6. CleanList(list, h)
    BY <2>5 DEF Kept, ModelsOK, CleanList
  <2>7. ASSUME AllDifferent(d.list), NEW i \in DOMAIN list, NEW j \in DOMAIN list,
               list[i].id = list[j].id
        PROVE  i = j
    <3>1. i \in Nat /\ j \in Nat /\ n \in Nat
      BY <2>1, <2>4
    <3>2. CASE i < n /\ j < n
      BY <2>5, <2>7, <3>2 DEF AllDifferent
    <3>3. CASE ~(i < n) /\ ~(j < n)
      <4>1. i + 1 = j + 1
        BY <2>5, <2>7, <3>3 DEF AllDifferent
      <4>. QED  BY <3>1, <4>1
    <3>4. CASE i < n /\ ~(j < n)
      <4>1. i = j + 1
        BY <2>5, <2>7, <3>4 DEF AllDifferent
      <4>. QED  BY <3>1, <3>4, <4>1
    <3>5. CASE ~(i < n) /\ j < n
      <4>1. i + 1 = j
        BY <2>5, <2>7, <3>5 DEF AllDifferent
      <4>. QED  BY <3>1, <3>5, <4>1
    <3>. QED  BY <3>1, <3>2, <3>3, <3>4, <3>5
  <2>. QED  BY <2>3, <2>5, <2>6, <2>7 DEF AllDifferent, list
<1>3. CASE d.processed \notin Slots(d.list)
  BY <1>1, <1>3 DEF StoredRemoval, Kept, ModelsOK
<1>. QED  BY <1>2, <1>3

LEMMA DefaultAfterFacts ==
  ASSUME NEW d, NEW n \in Nat \ {0}, d.default \in 0 .. n, d.processed \in 0 .. n
  PROVE  DefaultAfter(d, n) \in 0 .. n - 1
BY DEF DefaultAfter

LEMMA RemoveStep ==
  ASSUME ServersInv, RemoveProcessedServer
  PROVE  Preserved
<1>. DEFINE e == removeServer(m)
            list == StoredRemoval(m)
<1>1. Edit(e) /\ m.processed \in Slots(m.servers) /\ UserFree /\ hist \subseteq hist'
  BY DEF RemoveProcessedServer, OnPage, Edit, Noted
<1>2. m \in Models /\ Kept(m, frames, hist') /\ ~m.crashed /\ NoneAdded(frames)
  BY <1>1, InvFacts, KeptStart, FreeFacts
<1>3. /\ e \in Models /\ e.default = DefaultAfter(m, Len(list)) /\ e.list = list
      /\ e.servers = list /\ e.containers = ServerAt(list, e.default) /\ e.crashed = m.crashed
      /\ list \in Seq(Servers) /\ e.default \in Int
  BY <1>2, RemovalFacts
<1>4. /\ CleanList(list, hist')
      /\ AllDifferent(m.list) => AllDifferent(list)
      /\ m.processed \in Slots(m.list) =>
           Len(m.list) \in Nat \ {0} /\ Len(list) = Len(m.list) - 1
  BY <1>2, RemovalListFacts
<1>. HIDE DEF e, list
<1>5. Clean(e.containers, hist')
  BY <1>3, <1>4, CleanAt
<1>6. hist' \cap {"raced", "shifted", "garbled"} = {} => AllDifferent(list)
  <2>. HAVE hist' \cap {"raced", "shifted", "garbled"} = {}
  <2>1. AllDifferent(m.servers)
    BY <1>2 DEF Kept, ModelsOK
  <2>2. AllDifferent(m.list)
    BY <1>2, <2>1, ListAlike
  <2>. QED  BY <1>4, <2>2
<1>7. ASSUME hist' \cap {"raced", "torn", "moved"} = {}, list # <<>>
      PROVE  e.default \in Slots(list)
  <2>1. Slots(m.list) = Slots(m.servers)
    BY <1>2, <1>7, ListAlike
  <2>2. Len(m.list) \in Nat \ {0} /\ Len(list) = Len(m.list) - 1
    BY <1>1, <1>4, <2>1
  <2>3. m.servers # <<>>
    BY <1>1, ModelFacts, <1>2 DEF Slots
  <2>4. m.default \in 0 .. Len(m.list) - 1 /\ m.processed \in 0 .. Len(m.list) - 1
    BY <1>1, <1>2, <1>7, <2>1, <2>3 DEF Kept, ModelsOK, Slots
  <2>5. Len(list) # 0
    BY <1>3, <1>7
  <2>6. Len(list) \in Nat \ {0} /\ m.default \in 0 .. Len(list) /\ m.processed \in 0 .. Len(list)
    BY <2>2, <2>4, <2>5
  <2>. QED  BY <1>3, <2>6, DefaultAfterFacts DEF Slots
<1>8. Kept(e, frames, hist')
  <2>1. Lasts(e, hist')
    BY DEF Lasts, Removal
  <2>. QED  BY <1>2, <1>3, <1>4, <1>5, <1>6, <1>7, <2>1, KeptFresh DEF Kept
<1>. QED  BY <1>1, <1>8, EditStep

LEMMA ResetStep ==
  ASSUME ServersInv, NEW list \in Seq(Servers), NEW i \in Int, Edit(resetModel(m, list, i)),
         \A j \in DOMAIN list : Own(list[j]) /\ Chosen(list[j]),
         AllDifferent(list), list # <<>> => i \in Slots(list), Removal
  PROVE  Preserved
<1>. DEFINE e == resetModel(m, list, i)
<1>1. UserFree /\ hist \subseteq hist' /\ m' = e /\ NotedWith({})
  BY DEF Edit, Noted, NotedWith
<1>2. m \in Models /\ Kept(m, frames, hist') /\ ~m.crashed /\ NoneAdded(frames)
  BY <1>1, InvFacts, KeptStart, FreeFacts
<1>3. /\ e \in Models /\ e.default = i /\ e.list = list /\ e.servers = list
      /\ e.containers = m.containers /\ e.crashed = m.crashed
  BY <1>2, ResetFacts
<1>. HIDE DEF e
<1>4. "stubbed" \notin hist' => \A j \in DOMAIN list : ~HasStub(list[j])
  <2>1. (\E j \in DOMAIN list : HasStub(list[j])) => Stubbed'
    BY <1>1, <1>3 DEF Stubbed, HasStub
  <2>. QED  BY <1>1, <2>1, NotedFacts
<1>5. CleanList(list, hist')
  BY <1>4 DEF CleanList, Clean
<1>6. Kept(e, frames, hist')
  <2>1. Lasts(e, hist')
    BY DEF Lasts
  <2>. QED  BY <1>2, <1>3, <1>5, <2>1, KeptFresh DEF Kept, ModelsOK
<1>. QED  BY <1>6, EditStep DEF e

LEMMA ResetSteps ==
  ASSUME ServersInv, RestoreAppConfig \/ ClearSettings
  PROVE  Preserved
<1>1. CASE RestoreAppConfig
  <2>1. Removal
    BY <1>1 DEF Removal
  <2>. QED  BY <1>1, <2>1, ResetStep, ConstantsAssumption, InputsAssumption DEF RestoreAppConfig
<1>2. CASE ClearSettings
  <2>1. <<>> \in Seq(Servers) /\ DOMAIN <<>> = {}
    OBVIOUS
  <2>2. AllDifferent(<<>>)
    BY <2>1 DEF AllDifferent
  <2>3. \A j \in DOMAIN <<>> : Own(<<>>[j]) /\ Chosen(<<>>[j])
    BY <2>1
  <2>4. Edit(resetModel(m, <<>>, 0)) /\ 0 \in Int /\ Removal
    BY <1>2 DEF ClearSettings, Removal
  <2>. QED  BY <2>1, <2>2, <2>3, <2>4, ResetStep, Zenon
<1>. QED  BY <1>1, <1>2

LEMMA AddStep ==
  ASSUME ServersInv, AddServer
  PROVE  Preserved
<1>1. PICK s \in NewServers :
        /\ s.id \notin Listed(m.servers) \cup Listed(m.list) \cup InFlight
        /\ LET d == addServer(m, s)
               last == Len(d.servers) - 1
           IN  Edit(IF state = "on" THEN d
                    ELSE setProcessedServerIndex(setDefaultServerIndex(d, last), last))
  BY DEF AddServer, Addable
<1>. DEFINE d == addServer(m, s)
            last == Len(d.servers) - 1
            f == setDefaultServerIndex(d, last)
            e == IF state = "on" THEN d ELSE setProcessedServerIndex(f, last)
<1>2. Edit(e) /\ m' = e /\ UserFree /\ hist \subseteq hist' /\ NotedWith({})
  BY <1>1 DEF Edit, Noted, NotedWith
<1>3. /\ m \in Models /\ Kept(m, frames, hist') /\ ~m.crashed /\ NoneAdded(frames)
      /\ s \in Servers
  BY <1>2, InvFacts, KeptStart, FreeFacts, ConstantsAssumption
<1>4. /\ d \in Models /\ d.default = m.default /\ d.list = Append(m.list, s)
      /\ d.servers = Append(m.list, s)
      /\ d.containers = m.containers /\ d.crashed = m.crashed
  BY <1>3, AddFacts
<1>5. /\ m.list \in Seq(Servers) /\ m.servers \in Seq(Servers)
      /\ d.list \in Seq(Servers) /\ Len(m.list) \in Nat /\ Len(d.list) = Len(m.list) + 1
      /\ DOMAIN m.list = 1 .. Len(m.list) /\ DOMAIN d.list = 1 .. Len(m.list) + 1
      /\ d.list[Len(m.list) + 1] = s
      /\ \A i \in 1 .. Len(m.list) : d.list[i] = m.list[i]
  BY <1>3, <1>4, ModelFacts, Appended
<1>. HIDE DEF d
<1>6. last \in Int /\ last \in Slots(d.list)
  BY <1>4, <1>5 DEF Slots
<1>. HIDE DEF last
<1>7. /\ f \in Models /\ f.default = last /\ f.list = d.list /\ f.servers = d.list
      /\ f.containers = d.containers /\ f.crashed = d.crashed
  BY <1>4, <1>6, DefaultFacts
<1>. HIDE DEF f
<1>8. /\ e \in Models /\ e.list = d.list /\ e.servers = d.list /\ e.crashed = m.crashed
      /\ state = "on" => e.default = m.default /\ e.containers = m.containers
      /\ state # "on" => e.default = last /\ e.containers = ServerAt(d.list, last)
  <2>. DEFINE g == setProcessedServerIndex(f, last)
  <2>1. /\ g \in Models /\ g.default = last /\ g.list = d.list /\ g.servers = d.list
        /\ g.containers = ServerAt(d.list, last) /\ g.crashed = m.crashed
    <3>1. f \in Models /\ last \in Int
      BY <1>6, <1>7
    <3>2. /\ g \in Models /\ g.default = f.default /\ g.list = f.list
          /\ g.servers = f.servers /\ g.containers = ServerAt(f.servers, last)
          /\ g.crashed = f.crashed
      BY <3>1, ProcessedFacts
    <3>. HIDE DEF g
    <3>. QED  BY <1>4, <1>7, <3>2
  <2>2. CASE state = "on"
    <3>1. e = d
      BY <2>2
    <3>. HIDE DEF e
    <3>. QED  BY <1>4, <2>2, <3>1
  <2>3. CASE state # "on"
    <3>. HIDE DEF g
    <3>1. e = g
      BY <2>3 DEF g
    <3>. HIDE DEF e
    <3>. QED  BY <2>1, <2>3, <3>1
  <2>. QED  BY <2>2, <2>3
<1>. HIDE DEF e
<1>9. Clean(s, hist')
  <2>1. HasStub(s) => Stubbed'
    BY <1>2, <1>5, <1>8 DEF Stubbed, HasStub
  <2>. QED  BY <1>2, <2>1, NotedFacts, InputsAssumption DEF Clean
<1>10. CleanList(d.list, hist')
  <2>1. \A i \in DOMAIN d.list : d.list[i] = s \/ (i \in DOMAIN m.list /\ d.list[i] = m.list[i])
    BY <1>5
  <2>. QED  BY <1>3, <1>9, <2>1 DEF CleanList, Kept, ModelsOK
<1>11. Clean(e.containers, hist')
  <2>1. Clean(m.containers, hist') /\ Clean(ServerAt(d.list, last), hist')
    BY <1>3, <1>5, <1>6, <1>10, CleanAt DEF Kept, ModelsOK
  <2>. QED  BY <1>8, <2>1
<1>12. ASSUME hist' \cap {"raced", "shifted", "garbled"} = {}  PROVE AllDifferent(d.list)
  <2>1. AllDifferent(m.list)
    BY <1>3, <1>12, ListAlike DEF Kept, ModelsOK
  <2>2. \A i \in DOMAIN m.list : m.list[i].id # s.id
    BY <1>1 DEF Listed
  <2>3. \A i \in DOMAIN d.list : (i = Len(m.list) + 1 /\ d.list[i] = s)
                                 \/ (i \in DOMAIN m.list /\ d.list[i] = m.list[i])
    BY <1>5
  <2>. QED  BY <2>1, <2>2, <2>3 DEF AllDifferent
<1>13. ASSUME hist' \cap {"raced", "torn", "moved"} = {}  PROVE e.default \in Slots(d.list)
  <2>1. CASE state = "on"
    <3>1. tunnel # NoTunnel /\ ~Moved
      BY <1>2, <1>13, <2>1, InvFacts DEF ServersInv
    <3>2. m.default \in Slots(m.servers)
      BY <3>1 DEF Moved, IsAt
    <3>3. Slots(m.list) = Slots(m.servers)
      BY <1>3, <1>13, ListAlike
    <3>. QED  BY <1>5, <1>8, <2>1, <3>2, <3>3 DEF Slots
  <2>2. CASE state # "on"
    BY <1>6, <1>8, <2>2
  <2>. QED  BY <2>1, <2>2
<1>14. Lasts(e, hist')
  <2>1. Calm(hist') =>
          /\ Len(m.list) = Len(m.servers)
          /\ \A j \in DOMAIN m.list : m.list[j].id = m.servers[j].id
    BY InvFacts DEF Calm, ServersInv, ModelsOK, Synced
  <2>2. Len(m.list) = Len(m.servers) => DOMAIN m.list = DOMAIN m.servers
    BY <1>5
  <2>3. \A j \in DOMAIN m.list : j \in DOMAIN d.list /\ d.list[j] = m.list[j]
    BY <1>5
  <2>. QED  BY <1>8, <2>1, <2>2, <2>3 DEF Lasts
<1>15. Kept(e, frames, hist')
  BY <1>3, <1>8, <1>10, <1>11, <1>12, <1>13, <1>14, KeptFresh DEF Kept
<1>. QED  BY <1>2, <1>15, EditStep

LEMMA RenameStep ==
  ASSUME ServersInv, RenameServer
  PROVE  Preserved
<1>1. PICK i \in Slots(m.servers) :
        Edit([m EXCEPT !.list = StoredEdit(@, i, ServerAt(m.servers, i))])
  BY DEF RenameServer
<1>. DEFINE s == ServerAt(m.servers, i)
            list == StoredEdit(m.list, i, s)
            e == [m EXCEPT !.list = list]
<1>2. Edit(e) /\ UserFree /\ hist \subseteq hist'
  BY <1>1 DEF Edit, Noted
<1>3. m \in Models /\ Kept(m, frames, hist') /\ NoneAdded(frames)
  BY <1>2, InvFacts, KeptStart, FreeFacts
<1>4. /\ m.list \in Seq(Servers) /\ m.servers \in Seq(Servers) /\ i \in Int
      /\ s \in Servers /\ s = m.servers[i + 1] /\ i + 1 \in DOMAIN m.servers
  BY <1>3, ModelFacts, ListFacts, SlotsInt
<1>. HIDE DEF s
<1>5. /\ list \in Seq(Servers) /\ Len(list) = Len(m.list) /\ DOMAIN list = DOMAIN m.list
      /\ \A j \in DOMAIN m.list : list[j] = IF j = i + 1 THEN s ELSE m.list[j]
  BY <1>4, StoredEditFacts
<1>. HIDE DEF list
<1>6. /\ e \in Models /\ e.list = list /\ e.servers = m.servers /\ e.default = m.default
      /\ e.containers = m.containers /\ e.crashed = m.crashed
  BY <1>3, <1>5 DEF Models
<1>. HIDE DEF e
<1>7. CleanList(list, hist')
  BY <1>3, <1>4, <1>5 DEF Kept, ModelsOK, CleanList
<1>8. "raced" \notin hist' => Synced(e, frames)
  BY <1>3, <1>4, <1>5, <1>6 DEF Kept, ModelsOK, Synced
<1>9. Lasts(e, hist')
  BY <1>3, <1>4, <1>5, <1>6 DEF Kept, Lasts
<1>10. Kept(e, frames, hist')
  BY <1>3, <1>6, <1>7, <1>8, <1>9 DEF Kept, ModelsOK, AddedKept
<1>. QED  BY <1>2, <1>10, EditStep

\* An entry that is edited by the user, while no popup is shown.
LEMMA UserFits ==
  ASSUME ServersInv, UserFree, NEW i \in Int, NEW s \in Servers, NEW h, hist \subseteq h,
         i \in Slots(m.servers), Clean(s, h), s.id = m.servers[i + 1].id
  PROVE  Kept(editServer(m, i, s), frames, h)
<1>1. Kept(m, frames, h) /\ NoneAdded(frames)
  BY KeptStart, FreeFacts
<1>2. Fits(m, i, s, frames, h)
  BY <1>1 DEF Fits
<1>. QED  BY <1>1, <1>2, EditKept

LEMMA DefaultContainerStep ==
  ASSUME ServersInv, SelectDefaultContainer
  PROVE  Preserved
<1>1. PICK c \in Vpns \cap DOMAIN Default(m).containers :
        Edit(setDefaultContainer(m, m.default, c))
  BY DEF SelectDefaultContainer
<1>. DEFINE s == [Default(m) EXCEPT !.defaultContainer = c]
<1>2. UserFree /\ hist \subseteq hist' /\ m \in Models /\ c \in Kinds \cup {None}
  BY <1>1, InvFacts DEF Edit, Noted, Kinds
<1>3. /\ m.servers \in Seq(Servers) /\ m.default \in Int /\ Default(m) \in Servers
      /\ Default(m) = ServerAt(m.servers, m.default)
  BY <1>2, ModelFacts DEF Default
<1>4. m.default \in Slots(m.servers) /\ Default(m) = m.servers[m.default + 1]
  BY <1>1, <1>3, ListFacts, NoServerFacts
<1>5. /\ s \in Servers /\ s.id = Default(m).id /\ s.containers = Default(m).containers
      /\ s.defaultContainer = c
  BY <1>2, <1>3, ChosenFacts
<1>6. Edit(editServer(m, m.default, s))
  BY <1>1, <1>3 DEF setDefaultContainer
<1>. HIDE DEF s
<1>7. Clean(Default(m), hist')
  BY <1>2, <1>3, KeptStart, CleanAt DEF Kept, ModelsOK
<1>8. Clean(s, hist')
  BY <1>1, <1>5, <1>7 DEF Clean, Own, HasStub, Chosen
<1>. QED  BY <1>2, <1>3, <1>4, <1>5, <1>6, <1>8, UserFits, EditStep

LEMMA RemoveApiStep ==
  ASSUME ServersInv, RemoveApiConfig
  PROVE  Preserved
<1>1. Edit(removeApiConfig(m, m.processed)) /\ m.processed \in Slots(m.servers)
  BY DEF RemoveApiConfig, OnPage
<1>2. UserFree /\ hist \subseteq hist' /\ m \in Models
  BY <1>1, InvFacts DEF Edit, Noted
<1>. DEFINE p == ServerAt(m.servers, m.processed)
<1>3. /\ m.processed \in Int /\ p \in Servers /\ p = m.servers[m.processed + 1]
  BY <1>1, <1>2, ModelFacts, ListFacts
<1>4. Emptied(p) \in Servers /\ Emptied(p).id = p.id /\ Clean(Emptied(p), hist')
  BY <1>3, EmptiedFacts
<1>5. Edit(editServer(m, m.processed, Emptied(p)))
  BY <1>1 DEF removeApiConfig
<1>. HIDE DEF p
<1>. QED  BY <1>1, <1>2, <1>3, <1>4, <1>5, UserFits, EditStep

-----------------------------------------------------------------------------
(* Connections *)

LEMMA NoFrameFacts ==
  /\ NoFrame \in Frames
  /\ NoFrame.idx = -1 /\ NoFrame.c = None /\ NoFrame.conf = NoId /\ NoFrame.pc = "none"
  /\ NoFrame.srv = NoServer /\ NoFrame.at = -1 /\ NoFrame.arr = <<>>
BY NoServerFacts DEF NoFrame, Frames, Profiles

ConnectOf(id, c, conf, pc) ==
  [NoFrame EXCEPT !.op = "connect", !.id = id, !.c = c, !.conf = conf, !.pc = pc]

LEMMA ConnectFrame ==
  ASSUME NEW id \in Ids \cup {NoId}, NEW c \in Kinds \cup {None}, NEW conf \in Profiles,
         NEW pc \in {"create", "done"}
  PROVE  LET f == ConnectOf(id, c, conf, pc) IN
             /\ f \in Frames /\ f.op = "connect" /\ f.id = id /\ f.c = c /\ f.conf = conf
             /\ f.pc = pc /\ f.srv = NoServer /\ f.arr = <<>>
<1>1. NoFrame \in Frames /\ NoFrame.srv = NoServer /\ NoFrame.arr = <<>>
  BY NoFrameFacts
<1>. QED  BY <1>1 DEF Frames, ConnectOf

CommandOf(op, id, i, c, ok) ==
  [NoFrame EXCEPT !.op = op, !.id = id, !.idx = i, !.c = c, !.ok = ok]
RequestOf(op, id, i) == [NoFrame EXCEPT !.op = op, !.id = id, !.idx = i]

LEMMA CommandFrame ==
  ASSUME NEW op \in Commands, NEW id \in Ids \cup {NoId},
         NEW i \in Int, NEW c \in Kinds \cup {None}, NEW ok \in BOOLEAN
  PROVE  LET f == CommandOf(op, id, i, c, ok) IN
         /\ f \in Frames /\ f.op = op /\ f.id = id /\ f.idx = i /\ f.c = c
         /\ f.pc = "none" /\ f.srv = NoServer /\ f.arr = <<>>
<1>1. /\ NoFrame \in Frames /\ NoFrame.srv = NoServer /\ NoFrame.arr = <<>>
      /\ NoFrame.pc = "none"
  BY NoFrameFacts
<1>. QED  BY <1>1 DEF Frames, CommandOf

LEMMA RequestFrame ==
  ASSUME NEW op \in {"gateway", "reload"}, NEW id \in Ids \cup {NoId}, NEW i \in Int
  PROVE  LET f == RequestOf(op, id, i) IN
         /\ f \in Frames /\ f.op = op /\ f.id = id /\ f.idx = i
         /\ f.pc = "none" /\ f.srv = NoServer /\ f.arr = <<>>
<1>1. /\ NoFrame \in Frames /\ NoFrame.srv = NoServer /\ NoFrame.arr = <<>>
      /\ NoFrame.pc = "none"
  BY NoFrameFacts
<1>. QED  BY <1>1 DEF Frames, RequestOf

LEMMA ContinueFacts ==
  ASSUME ServersInv, NEW more, NotedWith(more), NEW d, NEW fs, Stay(fs),
         Kept(d, fs, hist'), NEW shown, ContinueConnection(d, fs, shown)
  PROVE  Kept(m', fs, hist') /\ Wait(fs) /\ state' \in {"off", shown}
<1>. DEFINE s == Default(d)
            c == s.defaultContainer
            conf == IF c \in DOMAIN d.containers.containers
                    THEN d.containers.containers[c] ELSE NoId
            pc == IF isProtocolConfigExists(conf) THEN "done" ELSE "create"
            f == ConnectOf(s.id, c, conf, pc)
<1>1. d \in Models /\ d.default \in Int /\ s \in Servers /\ d.containers \in Servers
  BY ModelFacts DEF Kept
<1>2. \/ m' = setProcessedServerIndex(d, d.default) /\ frames' = fs /\ state' = "off"
      \/ m' = d /\ frames' = fs /\ state' = "off"
      \/ m' = d /\ frames' = Append(fs, f) /\ state' = shown
  BY DEF ContinueConnection, Push, ConnectOf
<1>3. CASE m' = setProcessedServerIndex(d, d.default) /\ frames' = fs /\ state' = "off"
  BY <1>1, <1>3, ProcessedKept DEF Wait
<1>4. CASE m' = d /\ frames' = fs /\ state' = "off"
  BY <1>4 DEF Wait
<1>5. CASE m' = d /\ frames' = Append(fs, f) /\ state' = shown
  <2>1. s.id \in Ids \cup {NoId} /\ c \in Kinds \cup {None}
    BY <1>1, ServerParts
  <2>2. conf \in Profiles
    BY <1>1, ServerParts DEF Profiles
  <2>3. pc \in {"create", "done"} /\ (pc = "done" => conf # NoId)
    BY DEF isProtocolConfigExists
  <2>4. Clean(d.containers, hist')
    BY DEF Kept, ModelsOK
  <2>5. /\ "strayed" \notin hist' => conf \in {NoId, Stub, d.containers.id}
        /\ "stubbed" \notin hist' => conf # Stub
    BY <2>4, ConstantsAssumption DEF Clean, Own, HasStub
  <2>. HIDE DEF s, c, conf, pc
  <2>6. /\ f \in Frames /\ f.op = "connect" /\ f.id = s.id /\ f.c = c /\ f.conf = conf
        /\ f.pc = pc /\ f.srv = NoServer /\ f.arr = <<>>
    <3>1. PICK id \in Ids \cup {NoId} : id = s.id
      BY <2>1
    <3>. DEFINE g == ConnectOf(id, c, conf, pc)
    <3>2. c \in Kinds \cup {None} /\ conf \in Profiles /\ pc \in {"create", "done"}
      BY <2>1, <2>2, <2>3
    <3>3. /\ g \in Frames /\ g.op = "connect" /\ g.id = id /\ g.c = c /\ g.conf = conf
          /\ g.pc = pc /\ g.srv = NoServer /\ g.arr = <<>>
      BY ONLY id \in Ids \cup {NoId}, <3>2, ConnectFrame
    <3>. QED  BY <3>1, <3>3
  <2>. HIDE DEF f
  <2>7. fs \in Seq(Frames)
    BY NotedFacts, StayFacts
  <2>8. Len(fs) + 1 \in DOMAIN frames' /\ frames'[Len(fs) + 1] = f
    BY <1>5, <2>6, <2>7, Appended
  <2>9. "strayed" \notin hist' => d.containers.id = s.id
    <3>1. d.containers.id # f.id => Strayed'
      BY <1>5, <2>6, <2>8 DEF Strayed
    <3>. QED  BY <2>6, <3>1, NotedFacts
  <2>10. Clean(f.srv, hist') /\ CleanList(f.arr, hist')
    BY <2>6, NoServerFacts DEF CleanList
  <2>11. FrameOK(f, hist')
    BY <2>3, <2>5, <2>6, <2>9, <2>10 DEF FrameOK, Commands
  <2>12. MayWait(fs, f)
    BY <2>6, <2>11 DEF MayWait, Popup
  <2>. QED  BY <1>5, <2>12 DEF Wait
<1>. QED  BY <1>2, <1>3, <1>4, <1>5

\* The entry of a server that comes from an API is edited at its own place.
LEMMA ApiFits ==
  ASSUME NEW d, NEW fs, NEW h, Kept(d, fs, h), Default(d).id \in Telegram \cup Gateway,
         NEW s \in Servers, s.id = Default(d).id, Clean(s, h)
  PROVE  /\ Fits(d, d.default, s, fs, h)
         /\ LET z == ServerAt(editServer(d, d.default, s).servers, d.default) IN
            z \in Servers /\ (z = s \/ z = NoServer)
<1>1. /\ d \in Models /\ d.default \in Int /\ d.servers \in Seq(Servers)
      /\ d.list \in Seq(Servers)
  BY ModelFacts DEF Kept
<1>2. Default(d).id # NoId
  BY ConstantsAssumption
<1>3. d.default \in Slots(d.servers) /\ Default(d) = d.servers[d.default + 1]
      /\ d.default + 1 \in DOMAIN d.servers
  BY <1>1, <1>2, ListFacts, NoServerFacts DEF Default
<1>4. Fits(d, d.default, s, fs, h)
  BY <1>1, <1>3 DEF Fits
<1>. DEFINE e == editServer(d, d.default, s)
            y == ServerAt(e.list, d.default)
            z == ServerAt(e.servers, d.default)
<1>5. /\ e \in Models /\ e.list = StoredEdit(d.list, d.default, s)
      /\ e.servers = Replaced(d.servers, d.default, y)
  BY <1>1, <1>3, EditFacts
<1>. HIDE DEF e
<1>6. e.list \in Seq(Servers) /\ e.servers \in Seq(Servers)
  BY <1>5, ModelFacts
<1>7. y \in Servers /\ (y = s \/ y = NoServer)
  <2>1. /\ Slots(e.list) = Slots(d.list) /\ DOMAIN e.list = DOMAIN d.list
        /\ \A j \in DOMAIN d.list : e.list[j] = IF j = d.default + 1 THEN s ELSE d.list[j]
    BY <1>1, <1>5, StoredEditFacts
  <2>2. /\ y \in Servers /\ (d.default \in Slots(e.list) <=> d.default + 1 \in DOMAIN e.list)
        /\ d.default \in Slots(e.list) => y = e.list[d.default + 1]
        /\ d.default \notin Slots(e.list) => y = NoServer
    BY <1>1, <1>6, ListFacts
  <2>. QED  BY <2>1, <2>2
<1>. HIDE DEF y
<1>8. z = y
  <2>1. /\ Slots(e.servers) = Slots(d.servers) /\ DOMAIN e.servers = DOMAIN d.servers
        /\ \A j \in DOMAIN d.servers :
             e.servers[j] = IF j = d.default + 1 THEN y ELSE d.servers[j]
    BY <1>1, <1>5, <1>7, ReplacedFacts
  <2>. QED  BY <1>1, <1>3, <1>6, <2>1, ListFacts
<1>. QED  BY <1>4, <1>7, <1>8 DEF e

LEMMA OpenStep ==
  ASSUME ServersInv, NotedWith({}), NEW d, NEW fs, Stay(fs), Kept(d, fs, hist'),
         OpenConnection(d, fs), ~m.crashed, fs = frames \/ Top.op # "gateway",
         edits' \in Nat
  PROVE  Preserved
<1>. DEFINE s == Default(d)
<1>1. /\ d \in Models /\ d.default \in Int /\ s \in Servers
      /\ d.servers \in Seq(Servers) /\ s = ServerAt(d.servers, d.default)
  BY ModelFacts DEF Kept, Default
<1>2. hist \subseteq hist'
  BY NotedFacts
<1>3. CountsOK /\ UNCHANGED <<posted, tunnel>> /\ posted' \in Seq([by : Nat, server : Servers])
  BY InvFacts DEF OpenConnection, CountsOK
<1>4. \A i \in DOMAIN posted' : Clean(posted'[i].server, hist')
  BY <1>2, <1>3, RequestsStay
<1>5. handlers' = [current |-> TRUE, left |-> handlers.current \/ handlers.left] =>
        handlers' \in [current : BOOLEAN, left : BOOLEAN] /\ handlers'.current
  BY InvFacts
<1>6. Clean(s, hist')
  BY <1>1, CleanAt DEF Kept, ModelsOK
<1>7. CASE s.id \in Telegram /\ UpdateFromTelegram(d, fs)
  <2>1. /\ m' = editServer(d, d.default, Emptied(s)) /\ frames' = fs /\ state' = "busy"
        /\ telegram' = telegram \cup
             {[idx |-> d.default, server |-> ServerAt(m'.servers, d.default)]}
        /\ handlers' = [current |-> TRUE, left |-> handlers.current \/ handlers.left]
    BY <1>1, <1>7 DEF UpdateFromTelegram, removeApiConfig, HandlerAdded
  <2>2. Emptied(s) \in Servers /\ Emptied(s).id = s.id /\ Clean(Emptied(s), hist')
    BY <1>1, EmptiedFacts
  <2>. DEFINE z == ServerAt(m'.servers, d.default)
  <2>3. /\ Fits(d, d.default, Emptied(s), fs, hist') /\ z \in Servers
        /\ z = Emptied(s) \/ z = NoServer
    BY <1>7, <2>1, <2>2, ApiFits
  <2>4. Kept(m', fs, hist')
    BY <2>1, <2>3, EditKept
  <2>5. frames' \in Seq(Frames) /\ OnePopup(frames') /\ Kept(m', frames', hist')
    BY <1>2, <2>1, <2>4, WaitFacts DEF Wait
  <2>. HIDE DEF z
  <2>6. RequestsTyped /\ RequestsOK(telegram', hist')
    <3>1. /\ \A r \in telegram : Clean(r.server, hist') /\ r.server.id \in Telegram \cup {NoId}
          /\ telegram \subseteq [idx : Int, server : Servers]
      BY <1>2, InvFacts, CleanMore DEF ServersInv, RequestsOK
    <3>2. Clean(z, hist') /\ z.id \in Telegram \cup {NoId}
      BY <1>7, <2>2, <2>3, NoServerFacts
    <3>. QED  BY <1>1, <2>1, <2>3, <3>1, <3>2 DEF RequestsTyped, RequestsOK, z
  <2>7. HandlersOK
    BY <1>5, <2>1 DEF HandlersOK, HandlersWait
  <2>8. ShownOK
    BY <1>2, <1>3, <2>1, ShownStays
  <2>. QED  BY <1>3, <1>4, <2>5, <2>6, <2>7, <2>8, Assembled
<1>8. CASE s.id \in Gateway /\ UpdateFromGateway(d, fs)
  <2>1. PICK id \in Ids \cup {NoId} : id = s.id
    BY <1>1, ServerParts
  <2>. DEFINE f == RequestOf("gateway", id, d.default)
  <2>2. /\ m' = d /\ frames' = Append(fs, f) /\ state' = "busy" /\ telegram' = telegram
        /\ handlers' = [current |-> TRUE, left |-> handlers.current \/ handlers.left]
    BY <1>8, <2>1 DEF UpdateFromGateway, HandlerAdded, Push, RequestOf
  <2>. HIDE DEF s
  <2>3. /\ f \in Frames /\ f.op = "gateway" /\ f.id = id
        /\ f.pc = "none" /\ f.srv = NoServer /\ f.arr = <<>>
    <3>1. d.default \in Int /\ "gateway" \in {"gateway", "reload"}
      BY <1>1
    <3>. QED  BY ONLY <3>1, RequestFrame
  <2>. HIDE DEF f
  <2>4. FrameOK(f, hist')
    BY <1>8, <2>1, <2>3, NoServerFacts DEF FrameOK, CleanList, Commands
  <2>5. Wait(fs)
    BY <2>2, <2>3, <2>4 DEF Wait, MayWait, Popup
  <2>6. frames' \in Seq(Frames) /\ OnePopup(frames') /\ Kept(m', frames', hist')
    BY <1>2, <2>2, <2>5, WaitFacts
  <2>7. Len(fs) + 1 \in DOMAIN frames' /\ frames'[Len(fs) + 1] = f
    BY <1>2, <2>2, <2>3, StayFacts, Appended
  <2>8. HandlersOK
    BY <1>5, <2>2, <2>3, <2>7 DEF HandlersOK, HandlersWait
  <2>9. ShownOK
    BY <1>2, <1>3, <2>2, ShownStays
  <2>10. RequestsTyped /\ RequestsOK(telegram', hist')
    BY <1>2, <2>2, RequestsStay
  <2>. QED  BY <1>3, <1>4, <2>6, <2>8, <2>9, <2>10, Assembled
<1>9. ASSUME NEW e \in {d} \cup (IF s.id \in Telegram \cup Gateway
                                THEN {editServer(d, d.default, s)} ELSE {}),
             ContinueConnection(e, fs, "busy"), UNCHANGED <<telegram, handlers>>
      PROVE  Preserved
  <2>1. Kept(e, fs, hist')
    BY <1>1, <1>6, <1>9, ApiFits, EditKept
  <2>2. Kept(m', fs, hist') /\ Wait(fs) /\ state' \in {"off", "busy"}
    BY <1>9, <2>1, ContinueFacts
  <2>3. frames' \in Seq(Frames) /\ OnePopup(frames') /\ Kept(m', frames', hist')
    BY <1>2, <2>2, WaitFacts
  <2>4. HandlersOK
    BY <1>2, <1>9, <2>2, HandlersStay
  <2>5. ShownOK
    BY <1>2, <1>3, <2>2, ShownStays
  <2>6. RequestsTyped /\ RequestsOK(telegram', hist')
    BY <1>2, <1>9, RequestsStay
  <2>. QED  BY <1>3, <1>4, <2>3, <2>4, <2>5, <2>6, Assembled
<1>. QED  BY <1>7, <1>8, <1>9 DEF OpenConnection

LEMMA ConnectSteps ==
  ASSUME ServersInv, ConnectButton \/ TrayConnect
  PROVE  Preserved
<1>1. NotedWith({}) /\ Stay(frames) /\ ~m.crashed /\ edits' \in Nat /\ hist \subseteq hist'
  BY InvFacts DEF ConnectButton, TrayConnect, Noted, NotedWith, Stay, UserFree
<1>2. Kept(m, frames, hist') /\ m.default \in Int
  BY <1>1, KeptStart, InvFacts, ModelFacts
<1>3. Kept(setProcessedServerIndex(m, m.default), frames, hist')
  BY <1>2, ProcessedKept
<1>. QED  BY <1>1, <1>2, <1>3, OpenStep DEF ConnectButton, TrayConnect

LEMMA VpnStep ==
  ASSUME ServersInv, VpnStateChanged
  PROVE  Preserved
<1>1. /\ NotedWith({}) /\ Stay(frames) /\ Wait(frames) /\ ~m.crashed
      /\ m' = m /\ CountsOK /\ UNCHANGED <<frames, telegram, posted, handlers>>
  BY InvFacts DEF VpnStateChanged, Noted, NotedWith, Stay, Wait, CountsOK
<1>2. hist \subseteq hist'
  BY <1>1, NotedFacts
<1>3. frames' \in Seq(Frames) /\ OnePopup(frames') /\ Kept(m', frames', hist')
  BY <1>1, <1>2, KeptStart, WaitFacts
<1>4. HandlersOK
  BY <1>1, <1>2, HandlersStay
<1>5. RequestsTyped /\ RequestsOK(telegram', hist')
      /\ \A i \in DOMAIN posted' : Clean(posted'[i].server, hist')
  BY <1>1, <1>2, RequestsStay
<1>6. posted' \in Seq([by : Nat, server : Servers])
  BY <1>1, InvFacts
<1>7. ShownOK
  <2>1. NoTunnel \in Tunnels
    BY DEF NoTunnel, Tunnels, Profiles
  <2>2. CASE state' = "on" /\ tunnel # NoTunnel /\ tunnel' = tunnel
    BY <1>2, <2>2, InvFacts DEF ServersInv, ShownOK, ConnectsToOne
  <2>3. CASE state' = "off" /\ tunnel' = NoTunnel
    BY <2>1, <2>3 DEF ShownOK, ConnectsToOne, NoTunnel
  <2>. QED  BY <2>2, <2>3 DEF VpnStateChanged
<1>. QED  BY <1>1, <1>3, <1>4, <1>5, <1>6, <1>7, Assembled

-----------------------------------------------------------------------------
(* Commands on the server *)

LEMMA BeginStep ==
  ASSUME ServersInv, NEW op \in Commands \ {"added"}, NEW c \in Kinds \cup {None},
         NEW ok \in BOOLEAN, NEW d, Begin(op, c, ok, d), op # "removeAll" => c \in Kinds,
         Kept(d, frames, hist')
  PROVE  Preserved
<1>1. /\ NotedWith({}) /\ Stay(frames) /\ UserFree /\ m' = d /\ CountsOK
      /\ UNCHANGED <<telegram, posted, state, tunnel, handlers>>
  BY InvFacts DEF Begin, Noted, NotedWith, Stay, CountsOK
<1>2. PICK id \in Ids \ (Telegram \cup Gateway) : id = Processed(m).id
  BY DEF Begin
<1>3. PICK i \in Int : i = m.processed
  BY InvFacts, ModelFacts
<1>. DEFINE f == CommandOf(op, id, i, c, ok)
<1>4. frames' = Append(frames, f)
  BY <1>2, <1>3 DEF Begin, Push, CommandOf
<1>5. /\ f \in Frames /\ f.op = op /\ f.id = id /\ f.idx = i /\ f.c = c
      /\ f.pc = "none" /\ f.srv = NoServer /\ f.arr = <<>>
  <2>1. op \in Commands /\ id \in Ids \cup {NoId}
    OBVIOUS
  <2>. QED  BY ONLY <2>1, i \in Int, c \in Kinds \cup {None}, ok \in BOOLEAN, CommandFrame
<1>. HIDE DEF f
<1>6. FrameOK(f, hist')
  BY <1>5, NoServerFacts DEF FrameOK, CleanList, Commands
<1>7. ~m.crashed /\ NoPopup(frames)
  BY <1>1, FreeFacts
<1>8. Wait(frames)
  BY <1>4, <1>5, <1>6, <1>7 DEF Wait, MayWait
<1>. QED  BY <1>1, <1>7, <1>8, QuietStep

\* The cached profile of a container is dropped.
LEMMA ClearedKept ==
  ASSUME NEW d, NEW fs, NEW h, Kept(d, fs, h), NoneAdded(fs), NEW c \in Kinds,
         h \cap {"strayed", "shifted"} = {} => d.processed \in Slots(d.servers)
  PROVE  Kept(clearCachedProfile(d, c), fs, h)
<1>. DEFINE p == ServerAt(d.list, d.processed)
            s == WithContainer(p, c, NoId)
<1>1. /\ d \in Models /\ d.list \in Seq(Servers) /\ d.servers \in Seq(Servers)
      /\ d.processed \in Int
  BY ModelFacts DEF Kept
<1>2. p \in Servers /\ Clean(p, h)
  BY <1>1, ListFacts, CleanAt DEF Kept, ModelsOK
<1>3. Steady(h) /\ d.processed \in Slots(d.servers) =>
        p.id = d.servers[d.processed + 1].id
  <2>. HAVE Steady(h) /\ d.processed \in Slots(d.servers)
  <2>1. /\ Slots(d.list) = Slots(d.servers) /\ DOMAIN d.list = DOMAIN d.servers
        /\ \A j \in DOMAIN d.list : d.list[j].id = d.servers[j].id
    <3>1. CASE Calm(h) /\ ~Removal
      <4>1. Len(d.list) = Len(d.servers) /\ \A j \in DOMAIN d.list : d.list[j].id = d.servers[j].id
        BY <3>1 DEF Kept, Lasts
      <4>. QED  BY <1>1, <4>1 DEF Slots
    <3>2. CASE h \cap {"raced", "shifted", "garbled"} = {}
      BY <3>2, ListAlike
    <3>. QED  BY <3>1, <3>2 DEF Steady
  <2>2. d.processed + 1 \in DOMAIN d.list /\ p = d.list[d.processed + 1]
    BY <1>1, <2>1, ListFacts
  <2>. QED  BY <2>1, <2>2
<1>4. clearCachedProfile(d, c) = editServer(d, d.processed, s)
  BY DEF clearCachedProfile
<1>. HIDE DEF p
<1>5. /\ s \in Servers /\ s.id = p.id /\ s.defaultContainer = p.defaultContainer
      /\ DOMAIN s.containers = DOMAIN p.containers \cup {c}
      /\ \A k \in DOMAIN p.containers \cup {c} :
           s.containers[k] = IF k = c THEN NoId ELSE p.containers[k]
  <2>1. NoId \in Profiles
    BY DEF Profiles
  <2>. QED  BY <1>2, <2>1, WithContainerFacts
<1>. HIDE DEF s
<1>6. Clean(s, h)
  BY <1>2, <1>5, ConstantsAssumption DEF Clean, Own, HasStub, Chosen
<1>7. Fits(d, d.processed, s, fs, h)
  BY <1>1, <1>3, <1>5, <1>6 DEF Fits
<1>. QED  BY <1>4, <1>7, EditKept

LEMMA BeginSteps ==
  ASSUME ServersInv,
         \/ BeginRemoveContainer \/ BeginRemoveAll \/ BeginInstall \/ BeginUpdate
         \/ ClearCachedProfile
  PROVE  Preserved
<1>1. hist \subseteq hist' /\ UserFree
  BY DEF BeginRemoveContainer, BeginRemoveAll, BeginInstall, BeginUpdate,
         ClearCachedProfile, Begin, Noted
<1>2. Kept(m, frames, hist') /\ NoneAdded(frames)
  BY <1>1, KeptStart, FreeFacts
<1>3. DOMAIN m.containers.containers \subseteq Kinds
  BY InvFacts, ModelFacts, ServerParts
<1>4. {"remove", "removeAll", "install", "update", "cleared"} \subseteq Commands \ {"added"}
  BY DEF Commands
<1>5. ASSUME NEW op \in {"remove", "install", "update"}, NEW c \in Kinds,
             NEW ok \in BOOLEAN, Begin(op, c, ok, m)
      PROVE  Preserved
  BY <1>2, <1>4, <1>5, BeginStep
<1>6. CASE BeginRemoveAll
  BY <1>2, <1>4, <1>6, BeginStep DEF BeginRemoveAll
<1>7. CASE ClearCachedProfile
  <2>1. PICK c \in Vpns \cap DOMAIN m.containers.containers :
          Begin("cleared", c, TRUE, clearCachedProfile(m, c))
    BY <1>7 DEF ClearCachedProfile
  <2>2. m.processed \in Slots(m.servers)
    BY <1>7 DEF ClearCachedProfile, OnPage
  <2>3. Kept(clearCachedProfile(m, c), frames, hist')
    BY <1>2, <1>3, <2>2, ClearedKept
  <2>. QED  BY <1>3, <1>4, <2>1, <2>3, BeginStep
<1>. QED
  BY <1>3, <1>5, <1>6, <1>7 DEF BeginRemoveContainer, BeginInstall, BeginUpdate

\* The innermost handler, whose wait is over.
LEMMA TopFacts ==
  ASSUME ServersInv, NEW ops, Returns(ops)
  PROVE  /\ ~m.crashed /\ frames # <<>> /\ Top.op \in ops /\ Top \in Frames
         /\ FrameOK(Top, hist) /\ Outer \in Seq(Frames)
         /\ Len(frames) \in DOMAIN frames /\ Top = frames[Len(frames)]
         /\ Top.pc \notin {"read", "apply"} => Stay(Outer)
         /\ Top.op # "connect" => Top.pc \notin {"read", "apply"}
         /\ Popup(Top) => NoPopup(Outer) /\ NoneAdded(Outer)
<1>1. ~m.crashed /\ frames # <<>> /\ Top.op \in ops /\ frames \in Seq(Frames)
  BY InvFacts DEF Returns
<1>2. /\ Top \in Frames /\ Top = frames[Len(frames)] /\ Outer \in Seq(Frames)
      /\ Len(frames) \in Nat \ {0} /\ DOMAIN frames = 1 .. Len(frames)
      /\ DOMAIN Outer = 1 .. Len(frames) - 1
      /\ \A i \in 1 .. Len(frames) - 1 : Outer[i] = frames[i]
  BY <1>1, Popped DEF Top, Outer
<1>3. Len(frames) \in DOMAIN frames
  BY <1>2
<1>4. FrameOK(Top, hist)
  BY <1>2, <1>3 DEF ServersInv, FramesOK
<1>5. Popup(Top) => NoPopup(Outer)
  BY <1>2, <1>3 DEF ServersInv, OnePopup, NoPopup, Popup
<1>6. NoPopup(Outer) => NoneAdded(Outer)
  BY DEF NoPopup, Popup, NoneAdded
<1>. QED  BY <1>1, <1>2, <1>3, <1>4, <1>5, <1>6 DEF Stay, FrameOK

\* When nothing strayed, a command returns to the server that it was sent to.
LEMMA CommandFacts ==
  ASSUME ServersInv, NEW ops, Returns(ops), ops \subseteq Commands
  PROVE  /\ Top.id \in Ids \ (Telegram \cup Gateway)
         /\ Top.op # "removeAll" => Top.c \in Kinds
         /\ Stay(Outer) /\ NoneAdded(Outer) /\ NoPopup(Outer)
         /\ "strayed" \notin hist =>
              /\ m.processed \in Slots(m.servers) /\ Processed(m).id = Top.id
              /\ m.processed = Top.idx /\ m.containers.id = Top.id
              /\ DOMAIN m.containers.containers = DOMAIN Processed(m).containers
              /\ IsAt(m.servers, m.processed, Top.id)
<1>1. /\ Top.op \in Commands /\ Top \in Frames /\ FrameOK(Top, hist)
      /\ Len(frames) \in DOMAIN frames /\ Top = frames[Len(frames)]
      /\ Top.pc \notin {"read", "apply"} => Stay(Outer)
      /\ Top.op # "connect" => Top.pc \notin {"read", "apply"}
      /\ Popup(Top) => NoPopup(Outer) /\ NoneAdded(Outer)
  BY TopFacts
<1>2. Popup(Top) /\ Top.op \notin {"connect", "gateway", "reload"}
  BY <1>1 DEF Commands, Popup
<1>3. "strayed" \notin hist => ~Strayed
  BY InvFacts
<1>4. ~Strayed => /\ IsAt(m.servers, m.processed, Top.id) /\ m.processed = Top.idx
                  /\ m.containers.id = Top.id
                  /\ DOMAIN m.containers.containers = DOMAIN Processed(m).containers
  BY <1>1, <1>2 DEF Strayed
<1>5. IsAt(m.servers, m.processed, Top.id) =>
        m.processed \in Slots(m.servers) /\ Processed(m).id = Top.id
  BY DEF IsAt, Processed, ServerAt
<1>. QED  BY <1>1, <1>2, <1>3, <1>4, <1>5 DEF FrameOK

\* An entry made of the processed server's is stored again.
LEMMA ProcessedFits ==
  ASSUME ServersInv, NEW h, hist \subseteq h, NEW fs, Stay(fs), NoneAdded(fs),
         "strayed" \notin hist => m.processed \in Slots(m.servers),
         NEW s \in Servers, s.id = Processed(m).id, Clean(s, h)
  PROVE  Kept(editServer(m, m.processed, s), fs, h)
<1>1. Kept(m, fs, h) /\ m.processed \in Int /\ m.servers \in Seq(Servers)
  BY StayFacts, InvFacts, ModelFacts
<1>2. m.processed \in Slots(m.servers) => s.id = m.servers[m.processed + 1].id
  BY DEF Processed, ServerAt
<1>3. Fits(m, m.processed, s, fs, h)
  BY <1>1, <1>2 DEF Fits
<1>. QED  BY <1>1, <1>3, EditKept

LEMMA ProceedStep ==
  ASSUME ServersInv, NEW ops, Returns(ops), ops \subseteq Commands, NEW d, NEW next,
         Proceed(d, next), Kept(d, Outer, hist'),
         next = <<>> \/ \E f : next = <<f>> /\ MayWait(Outer, f)
  PROVE  Preserved
<1>1. /\ NotedWith({}) /\ CountsOK /\ m' = d /\ frames' = Outer \o next
      /\ UNCHANGED <<telegram, posted, state, tunnel, handlers>>
  BY InvFacts DEF Proceed, Noted, NotedWith, CountsOK
<1>2. /\ ~m.crashed /\ Stay(Outer) /\ Top.op # "gateway" /\ Outer \in Seq(Frames)
  BY TopFacts, CommandFacts DEF Commands
<1>3. Wait(Outer)
  <2>1. CASE next = <<>>
    BY <1>1, <1>2, <2>1 DEF Wait
  <2>2. ASSUME NEW f, next = <<f>>, MayWait(Outer, f)
        PROVE  Wait(Outer)
    <3>1. f \in Frames
      BY <2>2 DEF MayWait
    <3>2. frames' = Append(Outer, f)
      BY <1>1, <1>2, <2>2, <3>1, ConcatOne
    <3>. QED  BY <2>2, <3>2 DEF Wait
  <2>. QED  BY <2>1, <2>2
<1>. QED  BY <1>1, <1>2, <1>3, QuietStep

\* The handler goes on to its next wait.
LEMMA OnwardFacts ==
  ASSUME ServersInv, NEW ops, Returns(ops), ops \subseteq Commands \ {"removeAll"},
         hist \subseteq hist', NEW op \in Commands,
         op = "added" /\ "strayed" \notin hist' =>
           Top.c \in DOMAIN ServerAt(m'.servers, Top.idx).containers
  PROVE  MayWait(Outer, [Top EXCEPT !.op = op])
<1>. DEFINE f == [Top EXCEPT !.op = op]
<1>1. Top \in Frames /\ FrameOK(Top, hist) /\ Top.op \in ops
  BY TopFacts
<1>2. Top.op \in Commands /\ Top.op # "removeAll" /\ NoPopup(Outer)
  BY <1>1, CommandFacts
<1>. HIDE DEF Top
<1>3. /\ f \in Frames /\ f.op = op /\ f.id = Top.id /\ f.idx = Top.idx /\ f.c = Top.c
      /\ f.conf = Top.conf /\ f.pc = Top.pc /\ f.srv = Top.srv /\ f.arr = Top.arr
  BY <1>1 DEF Frames
<1>. HIDE DEF f
<1>4. FrameOK(Top, hist')
  BY <1>1, FrameMore
<1>5. op \notin {"connect", "gateway"} /\ Top.op \notin {"connect", "gateway"}
  BY <1>2 DEF Commands
<1>6. FrameOK(f, hist')
  BY <1>2, <1>3, <1>4, <1>5 DEF FrameOK
<1>. QED  BY <1>2, <1>3, <1>6 DEF MayWait, f

LEMMA FailStep ==
  ASSUME ServersInv, CommandFails
  PROVE  Preserved
<1>. DEFINE ops == {"remove", "removeAll", "install", "add", "added", "reload"}
<1>1. Returns(ops) /\ Failed /\ Noted
  BY DEF CommandFails
<1>2. ~m.crashed /\ Top.op \in ops /\ Stay(Outer)
  BY <1>1, TopFacts
<1>3. /\ NotedWith({}) /\ m' = m /\ frames' = Outer /\ CountsOK /\ hist \subseteq hist'
      /\ UNCHANGED <<telegram, posted, tunnel, handlers>> /\ state' \in {state, "off"}
  BY <1>1, InvFacts, AfterErrorFacts DEF Failed, Noted, NotedWith, CountsOK
<1>4. Kept(m, Outer, hist') /\ Wait(Outer)
  BY <1>2, <1>3, StayFacts DEF Wait
<1>. QED  BY <1>2, <1>3, <1>4, QuietStep

\* The processed server's entry, and what commands may take for granted.
LEMMA EntryFacts ==
  ASSUME ServersInv, NEW h, hist \subseteq h
  PROVE  Processed(m) \in Servers /\ Clean(Processed(m), h)
<1>1. m \in Models /\ Kept(m, frames, h)
  BY InvFacts, KeptStart
<1>. QED  BY <1>1, ModelFacts, CleanAt DEF Processed, Kept, ModelsOK

LEMMA ContainerRemovedStep ==
  ASSUME ServersInv, ContainerRemoved
  PROVE  Preserved
<1>1. PICK next \in NextDefaults(m, Top.c) : Proceed(removeContainer(m, Top.c, next), <<>>)
  BY DEF ContainerRemoved
<1>2. Returns({"remove"}) /\ {"remove"} \subseteq Commands
  BY DEF ContainerRemoved, Commands
<1>3. hist \subseteq hist'
  BY <1>1 DEF Proceed, Noted
<1>. DEFINE p == Processed(m)
<1>4. p \in Servers /\ Clean(p, hist') /\ DOMAIN p.containers \subseteq Kinds
  BY <1>3, EntryFacts, ServerParts
<1>5. /\ next \in Kinds \cup {None}
      /\ next \in {None} \cup (DOMAIN p.containers \ {Top.c})
  BY <1>1, <1>4 DEF NextDefaults
<1>. DEFINE e == [p EXCEPT !.containers = [k \in DOMAIN @ \ {Top.c} |-> @[k]]]
            g == [e EXCEPT !.defaultContainer = next]
            s == IF e.defaultContainer = Top.c THEN g ELSE e
<1>6. /\ e \in Servers /\ g \in Servers /\ e.id = p.id /\ g.id = p.id
      /\ e.defaultContainer = p.defaultContainer /\ g.defaultContainer = next
      /\ g.containers = e.containers
      /\ DOMAIN e.containers = DOMAIN p.containers \ {Top.c}
      /\ \A k \in DOMAIN p.containers \ {Top.c} : e.containers[k] = p.containers[k]
  BY <1>4, <1>5, WithoutFacts
<1>7. removeContainer(m, Top.c, next) = editServer(m, m.processed, s)
  BY DEF removeContainer
<1>. HIDE DEF e, g, p
<1>8. s \in Servers /\ s.id = p.id /\ Clean(s, hist')
  BY <1>4, <1>5, <1>6 DEF Clean, Own, HasStub, Chosen
<1>. HIDE DEF s
<1>9. Kept(editServer(m, m.processed, s), Outer, hist')
  BY <1>2, <1>3, <1>8, CommandFacts, ProcessedFits DEF p
<1>. QED  BY <1>1, <1>2, <1>7, <1>9, ProceedStep

LEMMA AllContainersRemovedStep ==
  ASSUME ServersInv, AllContainersRemoved
  PROVE  Preserved
<1>1. Returns({"removeAll"}) /\ {"removeAll"} \subseteq Commands
      /\ Proceed(removeAllContainers(m), <<>>) /\ hist \subseteq hist'
  BY DEF AllContainersRemoved, Commands, Proceed, Noted
<1>. DEFINE s == Emptied(Processed(m))
<1>2. s \in Servers /\ s.id = Processed(m).id /\ Clean(s, hist')
  BY <1>1, EntryFacts, EmptiedFacts
<1>. HIDE DEF s
<1>3. Kept(editServer(m, m.processed, s), Outer, hist')
  BY <1>1, <1>2, CommandFacts, ProcessedFits
<1>4. removeAllContainers(m) = editServer(m, m.processed, s)
  BY DEF removeAllContainers, s
<1>. QED  BY <1>1, <1>3, <1>4, ProceedStep

\* An installation that has finished selects its container.
LEMMA InstalledKept ==
  ASSUME ServersInv, NEW ops, Returns(ops), ops \subseteq Commands \ {"removeAll"},
         hist \subseteq hist',
         "strayed" \notin hist => Top.c \in DOMAIN Processed(m).containers
  PROVE  Kept(Installed(m), Outer, hist')
<1>1. /\ Stay(Outer) /\ NoneAdded(Outer) /\ Top.c \in Kinds
      /\ "strayed" \notin hist => m.processed \in Slots(m.servers)
  BY TopFacts, CommandFacts
<1>2. Kept(m, Outer, hist')
  BY <1>1, StayFacts
<1>. DEFINE p == Processed(m)
            s == [p EXCEPT !.defaultContainer = Top.c]
<1>3. p \in Servers /\ Clean(p, hist')
  BY EntryFacts
<1>4. s \in Servers /\ s.id = p.id /\ s.containers = p.containers /\ s.defaultContainer = Top.c
  BY <1>1, <1>3, ChosenFacts
<1>5. Installed(m) \in {m, editServer(m, m.processed, s)}
  BY DEF Installed, setDefaultContainer, Processed
<1>. HIDE DEF s
<1>6. Clean(s, hist')
  BY <1>3, <1>4 DEF Clean, Own, HasStub, Chosen
<1>7. Kept(editServer(m, m.processed, s), Outer, hist')
  BY <1>1, <1>4, <1>6, ProcessedFits
<1>. QED  BY <1>2, <1>5, <1>7

LEMMA ContainerInstalledStep ==
  ASSUME ServersInv, ContainerInstalled
  PROVE  Preserved
<1>1. Returns({"install"}) /\ {"install"} \subseteq Commands \ {"removeAll"}
      /\ {"install"} \subseteq Commands /\ "add" \in Commands
  BY DEF ContainerInstalled, Commands
<1>2. CASE Top.c \in DOMAIN m.containers.containers /\ Proceed(Installed(m), <<>>)
  <2>1. hist \subseteq hist'
    BY <1>2 DEF Proceed, Noted
  <2>2. "strayed" \notin hist => Top.c \in DOMAIN Processed(m).containers
    BY <1>1, <1>2, CommandFacts
  <2>3. Kept(Installed(m), Outer, hist')
    BY <1>1, <2>1, <2>2, InstalledKept
  <2>. QED  BY <1>1, <1>2, <2>3, ProceedStep
<1>3. CASE Proceed(m, <<[Top EXCEPT !.op = "add"]>>)
  <2>1. hist \subseteq hist'
    BY <1>3 DEF Proceed, Noted
  <2>2. Kept(m, Outer, hist')
    BY <1>1, <2>1, CommandFacts, StayFacts
  <2>3. MayWait(Outer, [Top EXCEPT !.op = "add"])
    BY <1>1, <2>1, OnwardFacts
  <2>. QED  BY <1>1, <1>3, <2>2, <2>3, ProceedStep
<1>. QED  BY <1>2, <1>3 DEF ContainerInstalled

LEMMA ClientAppendedStep ==
  ASSUME ServersInv, ClientAppended
  PROVE  Preserved
<1>1. Returns({"added"}) /\ {"added"} \subseteq Commands \ {"removeAll"}
      /\ {"added"} \subseteq Commands /\ Proceed(Installed(m), <<>>) /\ hist \subseteq hist'
  BY DEF ClientAppended, Commands, Proceed, Noted
<1>2. Top.op = "added" /\ Len(frames) \in DOMAIN frames /\ Top = frames[Len(frames)]
  BY <1>1, TopFacts
<1>3. "strayed" \notin hist => Top.c \in DOMAIN Processed(m).containers
  <2>. HAVE "strayed" \notin hist
  <2>1. m.processed = Top.idx /\ IsAt(m.servers, Top.idx, Top.id)
    BY <1>1, CommandFacts
  <2>2. Top.c \in DOMAIN ServerAt(m.servers, Top.idx).containers
    BY <1>2, <2>1 DEF ServersInv, AddedKept
  <2>. QED  BY <2>1, <2>2 DEF Processed
<1>4. Kept(Installed(m), Outer, hist')
  BY <1>1, <1>3, InstalledKept
<1>. QED  BY <1>1, <1>4, ProceedStep

\* An entry that is stored in the list is read back into the copy.
LEMMA EditedAt ==
  ASSUME NEW d \in Models, NEW i \in Int, i \in Slots(d.servers), i \in Slots(d.list),
         NEW s \in Servers
  PROVE  /\ ServerAt(editServer(d, i, s).servers, i) = s
         /\ i + 1 \in DOMAIN editServer(d, i, s).servers
         /\ editServer(d, i, s).servers[i + 1] = s
<1>. DEFINE e == editServer(d, i, s)
            z == ServerAt(e.list, i)
<1>1. /\ e \in Models /\ e.list = StoredEdit(d.list, i, s)
      /\ e.servers = Replaced(d.servers, i, z)
  BY EditFacts
<1>. HIDE DEF e
<1>2. /\ d.list \in Seq(Servers) /\ d.servers \in Seq(Servers)
      /\ e.list \in Seq(Servers) /\ e.servers \in Seq(Servers)
  BY <1>1, ModelFacts
<1>3. i + 1 \in DOMAIN d.list /\ i + 1 \in DOMAIN d.servers
  BY <1>2, ListFacts
<1>4. z = s
  <2>1. Slots(e.list) = Slots(d.list) /\ e.list[i + 1] = s
    BY <1>1, <1>2, <1>3, StoredEditFacts
  <2>. QED  BY <1>2, <2>1, ListFacts
<1>5. Slots(e.servers) = Slots(d.servers) /\ e.servers[i + 1] = s
  BY <1>1, <1>2, <1>3, <1>4, ReplacedFacts
<1>. QED  BY <1>2, <1>5, ListFacts DEF e

LEMMA ProfileCreatedStep ==
  ASSUME ServersInv, ProfileCreated
  PROVE  Preserved
<1>. DEFINE c == Top.c
            profile == IF c \in Vpns THEN Top.id ELSE NoId
            p == Processed(m)
            e == WithContainer(p, c, profile)
            g == [e EXCEPT !.defaultContainer = c]
            s == IF e.defaultContainer = None /\ c \in Vpns THEN g ELSE e
<1>1. /\ Returns({"add"}) /\ {"add"} \subseteq Commands \ {"removeAll"}
      /\ {"add"} \subseteq Commands /\ "added" \in Commands
      /\ Proceed(addContainerConfig(m, c, profile), <<[Top EXCEPT !.op = "added"]>>)
      /\ hist \subseteq hist'
  BY DEF ProfileCreated, Commands, Proceed, Noted
<1>2. /\ Top.id \in Ids /\ c \in Kinds /\ Stay(Outer) /\ NoneAdded(Outer)
      /\ "strayed" \notin hist =>
           m.processed \in Slots(m.servers) /\ p.id = Top.id /\ m.processed = Top.idx
  BY <1>1, CommandFacts, TopFacts
<1>3. p \in Servers /\ Clean(p, hist') /\ m \in Models /\ m.processed \in Int
  BY <1>1, EntryFacts, InvFacts, ModelFacts
<1>4. /\ profile \in Profiles /\ profile # Stub
      /\ "strayed" \notin hist => profile \in {NoId, p.id}
  BY <1>2, ConstantsAssumption DEF Profiles
<1>5. addContainerConfig(m, c, profile) = editServer(m, m.processed, s)
  BY DEF addContainerConfig
<1>. HIDE DEF c, profile, p
<1>6. /\ e \in Servers /\ e.id = p.id /\ e.defaultContainer = p.defaultContainer
      /\ DOMAIN e.containers = DOMAIN p.containers \cup {c}
      /\ \A k \in DOMAIN p.containers \cup {c} :
           e.containers[k] = IF k = c THEN profile ELSE p.containers[k]
  BY <1>2, <1>3, <1>4, WithContainerFacts
<1>. HIDE DEF e
<1>7. g \in Servers /\ g.id = e.id /\ g.containers = e.containers /\ g.defaultContainer = c
  BY <1>2, <1>6, ChosenFacts
<1>. HIDE DEF g
<1>8. /\ s \in Servers /\ s.id = p.id /\ s.containers = e.containers
      /\ s.defaultContainer \in {p.defaultContainer, c}
  BY <1>6, <1>7
<1>. HIDE DEF s
<1>9. Clean(s, hist')
  BY <1>1, <1>3, <1>4, <1>6, <1>8 DEF Clean, Own, HasStub, Chosen
<1>10. Kept(editServer(m, m.processed, s), Outer, hist')
  BY <1>1, <1>2, <1>8, <1>9, ProcessedFits DEF p
<1>11. ASSUME "strayed" \notin hist'
       PROVE  c \in DOMAIN ServerAt(m'.servers, Top.idx).containers
  <2>1. m.processed \in Slots(m.servers) /\ m.processed = Top.idx
    BY <1>1, <1>2, <1>11
  <2>2. m' = editServer(m, m.processed, s)
    BY <1>1, <1>5 DEF Proceed
  <2>3. m.processed \in Slots(m.list)
    <3>1. IsAt(m'.servers, m.processed, Top.id)
      <4>. DEFINE f == [Top EXCEPT !.op = "added"]
      <4>1. f.op = "added" /\ f.id = Top.id
        BY <1>1, TopFacts DEF Frames
      <4>2. Outer \in Seq(Frames)
        BY <1>1, TopFacts
      <4>. HIDE DEF f
      <4>3. frames' = Outer \o <<f>>
        BY <1>1 DEF Proceed, f
      <4>4. Len(Outer) + 1 \in DOMAIN frames' /\ frames'[Len(Outer) + 1] = f
        BY <4>2, <4>3
      <4>5. ~Strayed'
        <5>1. NotedWith({})
          BY <1>1 DEF Proceed, Noted, NotedWith
        <5>. QED  BY <1>11, <5>1, NotedFacts
      <4>6. IsAt(m'.servers, m'.processed, f.id)
        BY <4>1, <4>4, <4>5 DEF Strayed
      <4>7. m'.processed = m.processed
        BY <1>3, <1>8, <2>2, EditFacts
      <4>. QED  BY <4>1, <4>6, <4>7
    <3>2. ASSUME m.processed \notin Slots(m.list)
          PROVE  m'.servers = Replaced(m.servers, m.processed, NoServer)
      <4>1. StoredEdit(m.list, m.processed, s) = m.list
        BY <3>2 DEF StoredEdit
      <4>2. ServerAt(m.list, m.processed) = NoServer
        BY <3>2 DEF ServerAt
      <4>. QED  BY <1>3, <1>8, <2>1, <2>2, <4>1, <4>2, EditFacts
    <3>3. ASSUME m'.servers = Replaced(m.servers, m.processed, NoServer)
          PROVE  m'.servers[m.processed + 1].id = NoId
      <4>1. m.servers \in Seq(Servers) /\ m.processed + 1 \in DOMAIN m.servers
        BY <1>3, <2>1, ModelFacts, ListFacts
      <4>2. m'.servers[m.processed + 1] = NoServer
        BY <1>3, <3>3, <4>1, NoServerFacts, ReplacedFacts
      <4>. QED  BY <4>2, NoServerFacts
    <3>. QED  BY <1>2, <3>1, <3>2, <3>3, ConstantsAssumption DEF IsAt
  <2>4. ServerAt(editServer(m, m.processed, s).servers, m.processed) = s
    BY <1>3, <1>8, <2>1, <2>3, EditedAt
  <2>. QED  BY <1>6, <1>8, <2>1, <2>2, <2>4
<1>12. MayWait(Outer, [Top EXCEPT !.op = "added"])
  BY <1>1, <1>11, OnwardFacts DEF c
<1>. QED  BY <1>1, <1>5, <1>10, <1>12, ProceedStep

LEMMA ContainerUpdatedStep ==
  ASSUME ServersInv, ContainerUpdated
  PROVE  Preserved
<1>1. /\ Returns({"update"}) /\ {"update"} \subseteq Commands \ {"removeAll"}
      /\ {"update"} \subseteq Commands /\ "revoke" \in Commands
      /\ Proceed(clearCachedProfile(m, Top.c), <<[Top EXCEPT !.op = "revoke"]>>)
      /\ hist \subseteq hist'
  BY DEF ContainerUpdated, Commands, Proceed, Noted
<1>2. /\ Top.c \in Kinds /\ Stay(Outer) /\ NoneAdded(Outer)
      /\ "strayed" \notin hist => m.processed \in Slots(m.servers)
  BY <1>1, CommandFacts, TopFacts
<1>3. Kept(m, Outer, hist')
  BY <1>1, <1>2, StayFacts
<1>4. Kept(clearCachedProfile(m, Top.c), Outer, hist')
  BY <1>1, <1>2, <1>3, ClearedKept
<1>5. MayWait(Outer, [Top EXCEPT !.op = "revoke"])
  BY <1>1, OnwardFacts
<1>. QED  BY <1>1, <1>4, <1>5, ProceedStep

LEMMA ProfileClearedStep ==
  ASSUME ServersInv, ProfileCleared
  PROVE  Preserved
<1>1. Returns({"cleared"}) /\ {"cleared"} \subseteq Commands /\ Proceed(m, <<>>)
      /\ hist \subseteq hist'
  BY DEF ProfileCleared, Commands, Proceed, Noted
<1>2. Kept(m, Outer, hist')
  BY <1>1, CommandFacts, StayFacts
<1>. QED  BY <1>1, <1>2, ProceedStep

\* The end of updateContainer(), with or without a reconnection.
LEMMA UpdatedStep ==
  ASSUME ServersInv, NEW d, NEW i, NEW c, NEW fs, Stay(fs), Kept(d, fs, hist'),
         Updated(d, i, c, fs), ~m.crashed, fs = frames \/ Top.op # "gateway", edits' \in Nat
  PROVE  Preserved
<1>1. NotedWith({})
  BY DEF Updated, Noted, NotedWith
<1>2. CASE m' = d /\ frames' = fs /\ UNCHANGED <<telegram, posted, state, tunnel, handlers, opens>>
  <2>1. Wait(fs) /\ CountsOK
    BY <1>2, InvFacts DEF Wait, CountsOK
  <2>. QED  BY <1>1, <1>2, <2>1, QuietStep
<1>3. CASE OpenConnection(d, fs)
  BY <1>1, <1>3, OpenStep
<1>. QED  BY <1>2, <1>3 DEF Updated

LEMMA ProfileRevokedStep ==
  ASSUME ServersInv, ProfileRevoked
  PROVE  Preserved
<1>. DEFINE ops == {"update", "revoke"}
<1>1. Returns(ops) /\ ops \subseteq Commands
  BY DEF ProfileRevoked, Commands
<1>2. ~m.crashed /\ Top.op \in ops /\ Stay(Outer) /\ NoneAdded(Outer)
      /\ ("strayed" \notin hist => m.processed \in Slots(m.servers))
  BY <1>1, TopFacts, CommandFacts
<1>3. CASE edits' = edits /\ Updated(updateContainerConfig(m, Top.c, NoId), Top.idx, Top.c, Outer)
  <2>. DEFINE p == Processed(m)
              s == WithConfig(p, Top.c, NoId)
  <2>1. hist \subseteq hist' /\ edits' \in Nat
    BY <1>3, InvFacts DEF Updated, Noted
  <2>2. p \in Servers /\ Clean(p, hist') /\ NoId \in Profiles
    BY <2>1, EntryFacts DEF Profiles
  <2>3. /\ s \in Servers /\ s.id = p.id /\ s.defaultContainer = p.defaultContainer
        /\ DOMAIN s.containers = DOMAIN p.containers
        /\ \A k \in DOMAIN p.containers :
             s.containers[k] = IF k = Top.c THEN NoId ELSE p.containers[k]
    BY <2>2, WithConfigFacts
  <2>4. updateContainerConfig(m, Top.c, NoId) = editServer(m, m.processed, s)
    BY DEF updateContainerConfig
  <2>. HIDE DEF s
  <2>5. Clean(s, hist')
    BY <2>2, <2>3, ConstantsAssumption DEF Clean, Own, HasStub, Chosen
  <2>6. Kept(editServer(m, m.processed, s), Outer, hist')
    BY <1>2, <2>1, <2>3, <2>5, ProcessedFits
  <2>. QED  BY <1>2, <1>3, <2>1, <2>4, <2>6, UpdatedStep
<1>4. CASE Failed /\ Noted
  <2>1. /\ NotedWith({}) /\ m' = m /\ frames' = Outer /\ CountsOK /\ hist \subseteq hist'
        /\ UNCHANGED <<telegram, posted, tunnel, handlers>> /\ state' \in {state, "off"}
    BY <1>4, InvFacts, AfterErrorFacts DEF Failed, Noted, NotedWith, CountsOK
  <2>2. Kept(m, Outer, hist') /\ Wait(Outer)
    BY <1>2, <2>1, StayFacts DEF Wait
  <2>. QED  BY <1>2, <2>1, <2>2, QuietStep
<1>. QED  BY <1>3, <1>4 DEF ProfileRevoked

LEMMA UpdatedServers ==
  ASSUME NEW d \in Models, NEW i, NEW c, NEW fs, Updated(d, i, c, fs),
         ServerAt(d.servers, i).id \notin Telegram \cup Gateway
  PROVE  m'.servers = d.servers
<1>1. CASE m' = d
  BY <1>1
<1>2. CASE i = d.default /\ OpenConnection(d, fs)
  <2>1. Default(d).id \notin Telegram \cup Gateway
    BY <1>2 DEF Default
  <2>2. ContinueConnection(d, fs, "busy")
    BY <1>2, <2>1 DEF OpenConnection
  <2>3. m' = d \/ m' = setProcessedServerIndex(d, d.default)
    BY <2>2 DEF ContinueConnection
  <2>4. setProcessedServerIndex(d, d.default).servers = d.servers
    BY ModelFacts, ProcessedFacts
  <2>. QED  BY <2>3, <2>4
<1>. QED  BY <1>1, <1>2 DEF Updated

LEMMA UpdateClientSettingsStep ==
  ASSUME ServersInv, UpdateClientSettings
  PROVE  Preserved
<1>1. /\ UserFree /\ m.page /\ m.processed \in Slots(m.servers)
      /\ Processed(m).id \in Ids \ (Telegram \cup Gateway)
  BY DEF UpdateClientSettings, OnPage
<1>2. PICK c \in Vpns \cap DOMAIN m.containers.containers :
        LET conf == m.containers.containers[c] IN
        /\ edits' = edits + 1
        /\ Updated(updateContainerConfig(m, c, IF conf = NoId THEN Stub ELSE conf),
                   m.processed, c, frames)
  BY DEF UpdateClientSettings
<1>. DEFINE conf == m.containers.containers[c]
            profile == IF conf = NoId THEN Stub ELSE conf
            p == Processed(m)
            s == WithConfig(p, c, profile)
            d == editServer(m, m.processed, s)
<1>3. /\ edits' \in Nat /\ Updated(d, m.processed, c, frames)
      /\ hist \subseteq hist' /\ NotedWith({})
  BY <1>2, InvFacts DEF Updated, Noted, NotedWith, updateContainerConfig
<1>4. /\ m \in Models /\ m.containers \in Servers /\ m.processed \in Int /\ m.list \in Seq(Servers)
      /\ p \in Servers /\ Clean(p, hist') /\ Kept(m, frames, hist')
      /\ p = m.servers[m.processed + 1]
  BY <1>1, <1>3, EntryFacts, InvFacts, ModelFacts, KeptStart DEF Processed, ServerAt
<1>5. ~m.crashed /\ NoneAdded(frames) /\ Stay(frames)
  BY <1>1, FreeFacts DEF Stay
<1>6. profile \in Profiles
  BY <1>4, ServerParts DEF Profiles
<1>7. "strayed" \notin hist' => profile \in {NoId, Stub, p.id}
  <2>. HAVE "strayed" \notin hist'
  <2>1. ~Strayed
    BY <1>3, InvFacts
  <2>2. m.containers.id = p.id
    BY <1>1, <2>1 DEF Strayed
  <2>3. Own(m.containers)
    BY <1>4 DEF Kept, ModelsOK, Clean
  <2>. QED  BY <2>2, <2>3 DEF Own
<1>. HIDE DEF profile, p
<1>8. /\ s \in Servers /\ s.id = p.id /\ s.defaultContainer = p.defaultContainer
      /\ DOMAIN s.containers = DOMAIN p.containers
      /\ \A k \in DOMAIN p.containers :
           s.containers[k] = IF k = c THEN profile ELSE p.containers[k]
  BY <1>4, <1>6, WithConfigFacts
<1>. HIDE DEF s
<1>9. d \in Models
  BY <1>4, <1>8, EditFacts
<1>. HIDE DEF d
<1>10. ASSUME m.processed \in Slots(m.list), HasStub(s)
       PROVE  "stubbed" \in hist'
  <2>1. /\ ServerAt(d.servers, m.processed) = s
        /\ m.processed + 1 \in DOMAIN d.servers /\ d.servers[m.processed + 1] = s
    BY <1>1, <1>4, <1>8, <1>10, EditedAt DEF d
  <2>2. s.id \notin Telegram \cup Gateway
    BY <1>1, <1>8 DEF p
  <2>3. m'.servers = d.servers
    BY <1>3, <1>9, <2>1, <2>2, UpdatedServers
  <2>4. Stubbed'
    BY <1>10, <2>1, <2>3 DEF Stubbed, HasStub
  <2>. QED  BY <1>3, <2>4, NotedFacts
<1>11. m.processed \in Slots(m.list) => Clean(s, hist')
  BY <1>4, <1>7, <1>8, <1>10 DEF Clean, Own, Chosen
<1>12. Fits(m, m.processed, s, frames, hist')
  BY <1>1, <1>4, <1>5, <1>8, <1>11 DEF Fits
<1>13. Kept(d, frames, hist')
  BY <1>4, <1>12, EditKept DEF d
<1>. QED  BY <1>3, <1>5, <1>13, UpdatedStep

-----------------------------------------------------------------------------
(* Replies of the API *)

LEMMA AskStep ==
  ASSUME ServersInv, ReloadApiConfig \/ ChangeCountry
  PROVE  Preserved
<1>1. ASSUME NEW i \in Int, AskGateway(i)
      PROVE  Preserved
  <2>1. /\ NotedWith({}) /\ Stay(frames) /\ UserFree /\ m' = m /\ CountsOK
        /\ hist \subseteq hist'
        /\ UNCHANGED <<telegram, posted, state, tunnel, handlers>>
    BY <1>1, InvFacts DEF AskGateway, Noted, NotedWith, Stay, CountsOK
  <2>2. ServerAt(m.servers, i) \in Servers
    BY InvFacts, ModelFacts, ListFacts
  <2>3. PICK id \in Ids \cup {NoId} : id = ServerAt(m.servers, i).id
    BY <2>2, ServerParts
  <2>. DEFINE f == RequestOf("reload", id, i)
  <2>4. frames' = Append(frames, f)
    BY <1>1, <2>3 DEF AskGateway, Push, RequestOf
  <2>5. /\ f \in Frames /\ f.op = "reload" /\ f.id = id
        /\ f.pc = "none" /\ f.srv = NoServer /\ f.arr = <<>>
    <3>1. "reload" \in {"gateway", "reload"}
      OBVIOUS
    <3>. QED  BY ONLY <3>1, id \in Ids \cup {NoId}, i \in Int, RequestFrame
  <2>. HIDE DEF f
  <2>6. FrameOK(f, hist')
    BY <2>5, NoServerFacts DEF FrameOK, CleanList, Commands
  <2>7. ~m.crashed /\ NoPopup(frames) /\ Kept(m, frames, hist')
    BY <2>1, FreeFacts, KeptStart
  <2>8. Wait(frames)
    BY <2>4, <2>5, <2>6, <2>7 DEF Wait, MayWait
  <2>. QED  BY <2>1, <2>7, <2>8, QuietStep
<1>2. m.processed \in Int /\ m.default \in Int
  BY InvFacts, ModelFacts
<1>. QED  BY <1>1, <1>2 DEF ReloadApiConfig, ChangeCountry

\* A reply is stored in the entry it was asked for, unless the list has shifted.
LEMMA ReplyKept ==
  ASSUME NEW fs, NEW h, hist \subseteq h, Kept(m, fs, h), NEW i \in Int, NEW id,
         "shifted" \notin hist => IsAt(m.servers, i, id),
         NEW s \in Servers, Clean(s, h), "garbled" \notin h => s.id = id,
         NoneAdded(fs) \/ s.id \notin Ids \ (Telegram \cup Gateway)
  PROVE  Kept(editServer(m, i, s), fs, h)
<1>1. Fits(m, i, s, fs, h)
  BY DEF Fits, IsAt, Steady, Calm
<1>. QED  BY <1>1, EditKept

LEMMA GatewayFacts ==
  ASSUME NEW id \in Gateway, NEW s \in GatewayConfigs(id)
  PROVE  /\ s \in Servers /\ Garbled(s) \subseteq AllSigns
         /\ s.id \notin Ids \ (Telegram \cup Gateway)
         /\ \A h : Clean(s, h) /\ (Garbled(s) \subseteq h /\ "garbled" \notin h => s.id = id)
<1>1. id \in Ids \cup {NoId} /\ id # Stub /\ id \in Gateway /\ NoId \notin Ids
  BY ConstantsAssumption
<1>2. Garbled(s) \subseteq AllSigns
  BY DEF Garbled, AllSigns
<1>3. CASE s \in ApiConfigs(id)
  BY <1>1, <1>2, <1>3, ApiFacts
<1>4. CASE s = NoServer
  BY <1>1, <1>2, <1>4, NoServerFacts DEF Garbled
<1>. QED  BY <1>3, <1>4 DEF GatewayConfigs

LEMMA ReloadedStep ==
  ASSUME ServersInv, Reloaded
  PROVE  Preserved
<1>1. Returns({"reload"}) /\ Top.id \in Gateway
  BY DEF Reloaded
<1>2. PICK s \in GatewayConfigs(Top.id) :
        /\ m' = editServer(m, Top.idx, s)
        /\ frames' = Outer
        /\ UNCHANGED <<telegram, posted, state, tunnel, handlers, edits, opens>>
        /\ hist' = hist \cup Signs' \cup Garbled(s)
  BY DEF Reloaded
<1>3. /\ s \in Servers /\ Garbled(s) \subseteq AllSigns /\ Clean(s, hist')
      /\ "garbled" \notin hist' => s.id = Top.id
  BY <1>1, <1>2, GatewayFacts
<1>4. NotedWith(Garbled(s)) /\ CountsOK
  BY <1>2, <1>3, InvFacts DEF NotedWith, CountsOK
<1>5. hist \subseteq hist'
  BY <1>2
<1>6. /\ ~m.crashed /\ Top.op = "reload" /\ Top \in Frames /\ Stay(Outer) /\ NoneAdded(Outer)
      /\ Len(frames) \in DOMAIN frames /\ Top = frames[Len(frames)]
  BY <1>1, TopFacts DEF Popup
<1>7. Top.idx \in Int
  BY <1>6 DEF Frames
<1>8. "shifted" \notin hist => IsAt(m.servers, Top.idx, Top.id)
  BY <1>5, <1>6, InvFacts DEF Shifted
<1>9. Kept(m, Outer, hist') /\ Wait(Outer)
  BY <1>2, <1>5, <1>6, StayFacts DEF Wait
<1>10. Kept(m', Outer, hist')
  BY <1>2, <1>3, <1>5, <1>6, <1>7, <1>8, <1>9, ReplyKept
<1>. QED  BY <1>2, <1>4, <1>6, <1>9, <1>10, QuietStep

\* The connection goes on after the reply.
LEMMA RefreshedStep ==
  ASSUME ServersInv, NEW more, NotedWith(more), NEW fs, Stay(fs), NEW d, Kept(d, fs, hist'),
         NEW shown \in {state, "off"}, Refreshed(d, fs, shown),
         telegram' \subseteq telegram, UNCHANGED <<posted, tunnel>>, CountsOK
  PROVE  Preserved
<1>1. hist \subseteq hist'
  BY NotedFacts
<1>2. RequestsTyped /\ RequestsOK(telegram', hist')
      /\ \A i \in DOMAIN posted' : Clean(posted'[i].server, hist')
  BY <1>1, RequestsStay
<1>3. posted' \in Seq([by : Nat, server : Servers])
  BY InvFacts
<1>4. Kept(m', fs, hist') /\ Wait(fs) /\ state' \in {state, "off"} /\ HandlersOK
  <2>1. CASE d.crashed /\ m' = d /\ frames' = fs /\ UNCHANGED <<state, handlers>>
    BY <2>1, InvFacts DEF Wait, HandlersOK, HandlersWait
  <2>2. CASE /\ handlers' = [handlers EXCEPT !.current = FALSE]
             /\ ContinueConnection(d, fs, shown)
    <3>1. Kept(m', fs, hist') /\ Wait(fs) /\ state' \in {"off", shown}
      BY <2>2, ContinueFacts
    <3>2. handlers' \in [current : BOOLEAN, left : BOOLEAN] /\ ~handlers'.current
      BY <2>2, InvFacts
    <3>. QED  BY <3>1, <3>2 DEF HandlersOK, HandlersWait
  <2>. QED  BY <2>1, <2>2 DEF Refreshed
<1>5. frames' \in Seq(Frames) /\ OnePopup(frames') /\ Kept(m', frames', hist')
  BY <1>1, <1>4, WaitFacts
<1>6. ShownOK
  BY <1>1, <1>4, ShownStays
<1>. QED  BY <1>2, <1>3, <1>4, <1>5, <1>6, Assembled

LEMMA GatewayRepliedStep ==
  ASSUME ServersInv, GatewayReplied
  PROVE  Preserved
<1>1. Returns({"gateway"})
  BY DEF GatewayReplied
<1>2. PICK s \in GatewayConfigs(Top.id) :
        /\ Refreshed(editServer(m, Top.idx, s), Outer, state)
        /\ UNCHANGED <<telegram, posted, tunnel, edits, opens>>
        /\ hist' = hist \cup Signs' \cup Garbled(s)
  BY DEF GatewayReplied
<1>3. /\ Top.op = "gateway" /\ Top \in Frames /\ Stay(Outer) /\ FrameOK(Top, hist)
      /\ Len(frames) \in DOMAIN frames /\ Top = frames[Len(frames)]
  BY <1>1, TopFacts
<1>4. Top.id \in Gateway /\ Top.idx \in Int
  BY <1>3 DEF FrameOK, Frames
<1>5. /\ s \in Servers /\ Garbled(s) \subseteq AllSigns /\ Clean(s, hist')
      /\ s.id \notin Ids \ (Telegram \cup Gateway)
      /\ "garbled" \notin hist' => s.id = Top.id
  BY <1>2, <1>4, GatewayFacts
<1>6. NotedWith(Garbled(s)) /\ CountsOK /\ hist \subseteq hist'
  BY <1>2, <1>5, InvFacts DEF NotedWith, CountsOK
<1>7. "shifted" \notin hist => IsAt(m.servers, Top.idx, Top.id)
  BY <1>3, <1>6, InvFacts DEF Shifted
<1>8. Kept(m, Outer, hist')
  BY <1>3, <1>6, StayFacts
<1>9. Kept(editServer(m, Top.idx, s), Outer, hist')
  BY <1>4, <1>5, <1>6, <1>7, <1>8, ReplyKept
<1>. QED  BY <1>2, <1>3, <1>6, <1>9, RefreshedStep

LEMMA TelegramRepliedStep ==
  ASSUME ServersInv, TelegramReplied
  PROVE  Preserved
<1>1. PICK r \in telegram :
        /\ telegram' = telegram \ {r}
        /\ \/ \E s \in ApiConfigs(r.server.id) :
                Refreshed(editServer(m, r.idx, s), frames, state)
           \/ \E shown \in {state, AfterError(state)} :
                Refreshed(editServer(m, r.idx, r.server), frames, shown)
  BY DEF TelegramReplied
<1>2. /\ NotedWith({}) /\ CountsOK /\ hist \subseteq hist' /\ UNCHANGED <<posted, tunnel>>
      /\ Stay(frames)
  BY InvFacts DEF TelegramReplied, Noted, NotedWith, CountsOK, Stay
<1>3. /\ r.idx \in Int /\ r.server \in Servers /\ r.server.id \in Telegram \cup {NoId}
      /\ Clean(r.server, hist')
  BY <1>2, InvFacts, CleanMore DEF ServersInv, RequestsOK
<1>4. "shifted" \notin hist => IsAt(m.servers, r.idx, r.server.id)
  BY <1>2, InvFacts DEF Shifted
<1>5. Kept(m, frames, hist')
  BY <1>2, KeptStart
<1>6. ASSUME NEW s \in ApiConfigs(r.server.id) \cup {r.server}
      PROVE  Kept(editServer(m, r.idx, s), frames, hist')
  <2>1. r.server.id \in Ids \cup {NoId} /\ r.server.id # Stub
        /\ r.server.id \notin Ids \ (Telegram \cup Gateway)
    BY <1>3, ConstantsAssumption
  <2>2. s \in Servers /\ s.id = r.server.id /\ Clean(s, hist')
    BY <1>3, <1>6, <2>1, ApiFacts
  <2>. QED  BY <1>2, <1>3, <1>4, <1>5, <2>1, <2>2, ReplyKept
<1>7. ASSUME NEW s \in ApiConfigs(r.server.id) \cup {r.server}, NEW shown \in {state, "off"},
             Refreshed(editServer(m, r.idx, s), frames, shown)
      PROVE  Preserved
  <2>1. telegram' \subseteq telegram
    BY <1>1
  <2>. QED  BY <1>2, <1>6, <1>7, <2>1, RefreshedStep
<1>. QED  BY <1>1, <1>7, AfterErrorFacts

\* A request that fails leaves its handler behind.
LEMMA RefusedSteps ==
  ASSUME ServersInv, GatewayFails \/ TelegramFails
  PROVE  Preserved
<1>1. /\ NotedWith({"refused"}) /\ CountsOK /\ m' = m /\ UNCHANGED <<posted, tunnel, handlers>>
      /\ telegram' \subseteq telegram /\ state' \in {state, "off"}
  BY InvFacts, AfterErrorFacts
  DEF GatewayFails, TelegramFails, Failed, NotedWith, AllSigns, CountsOK
<1>2. hist \subseteq hist' /\ "refused" \in hist'
  BY <1>1, NotedFacts
<1>3. PICK fs : Stay(fs) /\ frames' = fs
  BY TopFacts DEF GatewayFails, TelegramFails, Failed, Stay
<1>4. frames' \in Seq(Frames) /\ OnePopup(frames') /\ Kept(m', frames', hist')
  BY <1>1, <1>2, <1>3, StayFacts
<1>5. HandlersOK
  BY <1>1, <1>2, InvFacts DEF HandlersOK, HandlersWait
<1>6. RequestsTyped /\ RequestsOK(telegram', hist')
      /\ \A i \in DOMAIN posted' : Clean(posted'[i].server, hist')
  BY <1>1, <1>2, RequestsStay
<1>7. posted' \in Seq([by : Nat, server : Servers])
  BY <1>1, InvFacts
<1>8. ShownOK
  BY <1>1, <1>2, ShownStays
<1>. QED  BY <1>1, <1>4, <1>5, <1>6, <1>7, <1>8, Assembled

-----------------------------------------------------------------------------
(* The worker of a connection *)

\* A worker that is about to update the copy, with the frame g, is so with f.
StaysAt(g, f) == g.pc \in {"read", "apply"} => f.pc \in {"read", "apply"} /\ f.at = g.at

\* A worker takes a step: its frame becomes f.
LEMMA WorkFrames ==
  ASSUME ServersInv, hist \subseteq hist', NEW i \in DOMAIN frames, NEW f \in Frames,
         frames[i].op = "connect", f.op = "connect", FrameOK(f, hist'),
         frames' = [frames EXCEPT ![i] = f]
  PROVE  /\ frames' \in Seq(Frames) /\ DOMAIN frames' = DOMAIN frames /\ frames'[i] = f
         /\ \A k \in DOMAIN frames : k # i => frames'[k] = frames[k]
         /\ OnePopup(frames') /\ FramesOK(frames', hist')
         /\ \A d \in Models : AddedKept(d, frames, hist') => AddedKept(d, frames', hist')
         /\ StaysAt(frames[i], f) => \A d \in Models : Synced(d, frames) => Synced(d, frames')
         /\ (\E k \in DOMAIN frames : frames[k].op = "gateway") =>
              \E k \in DOMAIN frames' : frames'[k].op = "gateway"
<1>1. frames \in Seq(Frames) /\ OnePopup(frames) /\ FramesOK(frames, hist)
  BY InvFacts DEF ServersInv
<1>2. /\ frames' \in Seq(Frames) /\ DOMAIN frames' = DOMAIN frames /\ frames'[i] = f
      /\ \A k \in DOMAIN frames : k # i => frames'[k] = frames[k]
  BY <1>1
<1>3. \A k \in DOMAIN frames : frames'[k].op = frames[k].op
  BY <1>2
<1>4. OnePopup(frames')
  BY <1>1, <1>2, <1>3 DEF OnePopup
<1>5. FramesOK(frames', hist')
  BY <1>1, <1>2, FrameMore DEF FramesOK
<1>6. \A d \in Models : AddedKept(d, frames, hist') => AddedKept(d, frames', hist')
  BY <1>2, <1>3 DEF AddedKept
<1>7. StaysAt(frames[i], f) => \A d \in Models : Synced(d, frames) => Synced(d, frames')
  BY <1>2 DEF Synced, StaysAt
<1>. QED  BY <1>2, <1>3, <1>4, <1>5, <1>6, <1>7

LEMMA WorkStep ==
  ASSUME ServersInv, NotedWith({}), NEW i \in DOMAIN frames, NEW pc, NEW f \in Frames, NEW d,
         Work(i, pc, f, d), f.op = "connect", FrameOK(f, hist'), Kept(d, frames', hist'),
         posted' \in Seq([by : Nat, server : Servers]),
         \A k \in DOMAIN posted' : Clean(posted'[k].server, hist')
  PROVE  Preserved
<1>1. /\ m' = d /\ ~m.crashed /\ frames[i].op = "connect" /\ frames' = [frames EXCEPT ![i] = f]
      /\ UNCHANGED <<telegram, state, tunnel, handlers, edits, opens>> /\ hist \subseteq hist'
  BY NotedFacts DEF Work
<1>2. /\ frames' \in Seq(Frames) /\ OnePopup(frames')
      /\ (\E k \in DOMAIN frames : frames[k].op = "gateway") =>
           \E k \in DOMAIN frames' : frames'[k].op = "gateway"
  BY <1>1, WorkFrames
<1>3. HandlersOK
  BY <1>1, <1>2, InvFacts DEF ServersInv, HandlersWait, HandlersOK
<1>4. RequestsTyped /\ RequestsOK(telegram', hist')
  BY <1>1, RequestsStay
<1>5. ShownOK /\ CountsOK
  BY <1>1, InvFacts, ShownStays DEF CountsOK
<1>. QED  BY <1>1, <1>2, <1>3, <1>4, <1>5, Assembled

\* A step that only the worker notices.
LEMMA WorkQuietly ==
  ASSUME ServersInv, Noted, NEW i \in DOMAIN frames, NEW pc, NEW f \in Frames,
         Work(i, pc, f, m), StaysAt(frames[i], f), f.op = "connect", FrameOK(f, hist'),
         UNCHANGED posted
  PROVE  Preserved
<1>1. NotedWith({}) /\ hist \subseteq hist'
  BY DEF Noted, NotedWith
<1>2. frames[i].op = "connect" /\ frames' = [frames EXCEPT ![i] = f]
  BY DEF Work
<1>3. Kept(m, frames, hist') /\ m \in Models
  BY <1>1, KeptStart, InvFacts
<1>4. /\ FramesOK(frames', hist')
      /\ AddedKept(m, frames, hist') => AddedKept(m, frames', hist')
      /\ Synced(m, frames) => Synced(m, frames')
  BY <1>1, <1>2, <1>3, WorkFrames
<1>5. Kept(m, frames', hist')
  BY <1>3, <1>4 DEF Kept, ModelsOK
<1>6. /\ posted' \in Seq([by : Nat, server : Servers])
      /\ \A k \in DOMAIN posted' : Clean(posted'[k].server, hist')
  BY <1>1, InvFacts, RequestsStay
<1>. QED  BY <1>1, <1>5, <1>6, WorkStep

LEMMA MoveFacts ==
  ASSUME NEW i, frames[i] \in Frames,
         NEW pc \in {"none", "create", "index", "array", "write", "read", "apply", "done", "failed"}
  PROVE  LET g == frames[i]
             f == Move(i, pc)
         IN  /\ f \in Frames /\ f.pc = pc /\ f.op = g.op /\ f.id = g.id /\ f.idx = g.idx
             /\ f.c = g.c /\ f.conf = g.conf /\ f.srv = g.srv /\ f.at = g.at
             /\ f.arr = g.arr
<1>. DEFINE g == frames[i]
<1>1. g \in Frames
  OBVIOUS
<1>2. Move(i, pc) = [g EXCEPT !.pc = pc]
  BY DEF Move
<1>. HIDE DEF g
<1>. DEFINE f == [g EXCEPT !.pc = pc]
<1>3. /\ f \in Frames /\ f.pc = pc /\ f.op = g.op /\ f.id = g.id /\ f.idx = g.idx
      /\ f.c = g.c /\ f.conf = g.conf /\ f.srv = g.srv /\ f.at = g.at
      /\ f.arr = g.arr
  BY <1>1 DEF Frames
<1>. HIDE DEF f
<1>4. Move(i, pc) = f
  BY <1>2 DEF f
<1>. QED  BY <1>3, <1>4 DEF g

\* A worker's frame, and what it may rely on when nothing went wrong.
LEMMA WorkerFacts ==
  ASSUME ServersInv, hist \subseteq hist', NEW i \in DOMAIN frames, frames[i].op = "connect"
  PROVE  /\ frames[i] \in Frames /\ FrameOK(frames[i], hist') /\ frames[i].at \in Int
         /\ frames[i].srv \in Servers /\ frames[i].arr \in Seq(Servers)
         /\ frames[i].id \in Ids \cup {NoId} /\ frames[i].conf \in Profiles
         /\ "strayed" \notin hist' => Processed(m).id = frames[i].id
<1>1. frames[i] \in Frames
  BY InvFacts
<1>2. FrameOK(frames[i], hist')
  BY FrameMore DEF ServersInv, FramesOK
<1>3. "strayed" \notin hist' => IsAt(m.servers, m.processed, frames[i].id)
  BY InvFacts DEF Strayed
<1>4. IsAt(m.servers, m.processed, frames[i].id) => Processed(m).id = frames[i].id
  BY DEF IsAt, Processed, ServerAt
<1>. QED  BY <1>1, <1>2, <1>3, <1>4 DEF Frames

LEMMA CreateStep ==
  ASSUME ServersInv, NEW i \in DOMAIN frames, CreateProtocolConfig(i)
  PROVE  Preserved
<1>. DEFINE g == frames[i]
            conf == IF g.c \in Vpns THEN g.id ELSE NoId
            p == Processed(m)
            srv == WithConfig(p, g.c, conf)
            f == [Move(i, "index") EXCEPT !.conf = conf, !.srv = srv]
<1>1. /\ Noted /\ UNCHANGED posted /\ hist \subseteq hist' /\ g.op = "connect"
      /\ g.pc = "create"
      /\ Work(i, "create", f, m) \/ Work(i, "create", Move(i, "failed"), m)
  BY DEF CreateProtocolConfig, Noted, Work
<1>2. /\ g \in Frames /\ FrameOK(g, hist') /\ g.id \in Ids \cup {NoId}
      /\ "strayed" \notin hist' => p.id = g.id
  BY <1>1, WorkerFacts
<1>3. p \in Servers /\ Clean(p, hist')
  BY <1>1, EntryFacts
<1>4. conf \in Profiles /\ conf # Stub /\ conf \in {NoId, g.id}
  BY <1>2, ConstantsAssumption DEF Profiles
<1>5. /\ srv \in Servers /\ srv.id = p.id /\ srv.defaultContainer = p.defaultContainer
      /\ DOMAIN srv.containers = DOMAIN p.containers
      /\ \A k \in DOMAIN p.containers :
           srv.containers[k] = IF k = g.c THEN conf ELSE p.containers[k]
  <2>. HIDE DEF conf, p
  <2>. QED  BY <1>3, <1>4, WithConfigFacts
<1>6. Clean(srv, hist')
  <2>. HIDE DEF srv, conf, p
  <2>. QED  BY <1>2, <1>3, <1>4, <1>5 DEF Clean, Own, HasStub, Chosen
<1>7. CASE Work(i, "create", f, m)
  <2>1. LET z == Move(i, "index") IN
        /\ z \in Frames /\ z.pc = "index" /\ z.op = g.op /\ z.id = g.id /\ z.c = g.c
        /\ z.arr = g.arr
    BY <1>2, MoveFacts
  <2>2. g.c \in Vpns => conf = g.id
    OBVIOUS
  <2>. HIDE DEF srv, conf, g
  <2>3. /\ f \in Frames /\ f.pc = "index" /\ f.op = g.op /\ f.id = g.id /\ f.c = g.c
        /\ f.arr = g.arr /\ f.conf = conf /\ f.srv = srv
    BY <1>4, <1>5, <2>1 DEF Frames
  <2>. HIDE DEF f
  <2>4. FrameOK(f, hist')
    BY <1>1, <1>2, <1>4, <1>6, <2>2, <2>3 DEF FrameOK, Commands
  <2>5. StaysAt(g, f)
    BY <1>1 DEF StaysAt
  <2>. QED  BY <1>1, <1>7, <2>3, <2>4, <2>5, WorkQuietly DEF g
<1>8. CASE Work(i, "create", Move(i, "failed"), m)
  <2>. DEFINE z == Move(i, "failed")
  <2>1. /\ z \in Frames /\ z.pc = "failed" /\ z.op = g.op /\ z.id = g.id /\ z.c = g.c
        /\ z.conf = g.conf /\ z.srv = g.srv /\ z.arr = g.arr
    BY <1>2, MoveFacts
  <2>. HIDE DEF z
  <2>2. FrameOK(z, hist')
    BY <1>1, <1>2, <2>1 DEF FrameOK, Commands
  <2>3. StaysAt(g, z)
    BY <1>1 DEF StaysAt
  <2>. QED  BY <1>1, <1>8, <2>1, <2>2, <2>3, WorkQuietly DEF z
<1>. QED  BY <1>1, <1>7, <1>8

LEMMA ReadIndexStep ==
  ASSUME ServersInv, NEW i \in DOMAIN frames, ReadIndex(i)
  PROVE  Preserved
<1>. DEFINE g == frames[i]
            z == Move(i, "array")
            f == [z EXCEPT !.at = m.processed]
<1>1. /\ Noted /\ UNCHANGED posted /\ hist \subseteq hist' /\ g.op = "connect" /\ g.pc = "index"
      /\ Work(i, "index", f, m)
  BY DEF ReadIndex, Noted, Work
<1>2. g \in Frames /\ FrameOK(g, hist') /\ m.processed \in Int
  BY <1>1, WorkerFacts, InvFacts, ModelFacts
<1>3. /\ z \in Frames /\ z.pc = "array" /\ z.op = g.op /\ z.id = g.id /\ z.c = g.c
      /\ z.conf = g.conf /\ z.srv = g.srv /\ z.arr = g.arr
  BY <1>2, MoveFacts
<1>. HIDE DEF z, g
<1>4. /\ f \in Frames /\ f.pc = "array" /\ f.op = g.op /\ f.id = g.id /\ f.c = g.c
      /\ f.conf = g.conf /\ f.srv = g.srv /\ f.arr = g.arr
  BY <1>2, <1>3 DEF Frames
<1>. HIDE DEF f
<1>5. FrameOK(f, hist')
  BY <1>1, <1>2, <1>4 DEF FrameOK, Commands
<1>6. StaysAt(g, f)
  BY <1>1 DEF StaysAt
<1>. QED  BY <1>1, <1>4, <1>5, <1>6, WorkQuietly DEF g

LEMMA ReadSettingsStep ==
  ASSUME ServersInv, NEW i \in DOMAIN frames, ReadSettings(i)
  PROVE  Preserved
<1>. DEFINE g == frames[i]
            y == Move(i, "read")
            z == Move(i, "write")
            f == [z EXCEPT !.arr = m.list]
<1>1. /\ Noted /\ UNCHANGED posted /\ hist \subseteq hist' /\ g.op = "connect" /\ g.pc = "array"
      /\ Work(i, "array", y, m) \/ Work(i, "array", f, m)
  BY DEF ReadSettings, Noted, Work
<1>2. /\ g \in Frames /\ FrameOK(g, hist') /\ m.list \in Seq(Servers)
      /\ CleanList(m.list, hist')
  BY <1>1, WorkerFacts, InvFacts, ModelFacts, KeptStart DEF Kept, ModelsOK
<1>3. /\ z \in Frames /\ z.pc = "write" /\ z.op = g.op /\ z.id = g.id /\ z.c = g.c
      /\ z.conf = g.conf /\ z.srv = g.srv
      /\ y \in Frames /\ y.pc = "read" /\ y.op = g.op /\ y.id = g.id /\ y.c = g.c
      /\ y.conf = g.conf /\ y.srv = g.srv /\ y.arr = g.arr
  BY <1>2, MoveFacts
<1>. HIDE DEF y, z, g
<1>4. /\ f \in Frames /\ f.pc = "write" /\ f.op = g.op /\ f.id = g.id /\ f.c = g.c
      /\ f.conf = g.conf /\ f.srv = g.srv /\ f.arr = m.list
  BY <1>2, <1>3 DEF Frames
<1>. HIDE DEF f
<1>5. FrameOK(f, hist') /\ FrameOK(y, hist')
  BY <1>1, <1>2, <1>3, <1>4 DEF FrameOK, Commands
<1>6. StaysAt(g, f) /\ StaysAt(g, y)
  BY <1>1 DEF StaysAt
<1>. QED  BY <1>1, <1>3, <1>4, <1>5, <1>6, WorkQuietly DEF g

\* The list is stored with the new entry: until it has been read back and put into
\* the copy, the two differ at the worker's place.
LEMMA WriteSettingsStep ==
  ASSUME ServersInv, NEW i \in DOMAIN frames, WriteSettings(i)
  PROVE  Preserved
<1>. DEFINE g == frames[i]
            z == Move(i, "read")
            f == [z EXCEPT !.arr = <<>>]
            list == Replaced(g.arr, g.at, g.srv)
            d == IF g.at < 0 THEN [m EXCEPT !.crashed = TRUE] ELSE [m EXCEPT !.list = list]
<1>1. /\ NotedWith({}) /\ UNCHANGED posted /\ hist \subseteq hist' /\ g.op = "connect"
      /\ g.pc = "write" /\ Work(i, "write", f, d) /\ frames' = [frames EXCEPT ![i] = f]
  BY DEF WriteSettings, Noted, NotedWith, Work
<1>2. /\ g \in Frames /\ FrameOK(g, hist') /\ g.at \in Int /\ g.srv \in Servers
      /\ g.arr \in Seq(Servers) /\ g.conf \in Profiles
  BY <1>1, WorkerFacts
<1>3. /\ z \in Frames /\ z.pc = "read" /\ z.op = g.op /\ z.id = g.id /\ z.c = g.c
      /\ z.conf = g.conf /\ z.srv = g.srv /\ z.at = g.at
  BY <1>2, MoveFacts
<1>4. /\ list \in Seq(Servers) /\ DOMAIN list = DOMAIN g.arr /\ Len(list) = Len(g.arr)
      /\ \A j \in DOMAIN g.arr : list[j] = IF j = g.at + 1 THEN g.srv ELSE g.arr[j]
  <2>1. g.arr \in Seq(Servers) /\ g.at \in Int /\ g.srv \in Servers
    BY <1>2
  <2>. HIDE DEF g
  <2>. QED  BY ONLY <2>1, ReplacedFacts
<1>5. "raced" \notin hist =>
        g.arr = m.list /\ g.srv = WithConfig(ServerAt(m.servers, g.at), g.c, g.conf)
  BY <1>1, InvFacts DEF Raced
<1>6. g.at < 0 => "shifted" \in hist'
  <2>1. g.at < 0 => ~IsAt(m.servers, g.at, g.srv.id)
    BY <1>2 DEF IsAt, Slots
  <2>2. Writing(g)
    BY <1>1 DEF Writing
  <2>. QED  BY <1>1, <2>1, <2>2, InvFacts DEF Shifted
<1>. HIDE DEF z, list
<1>7. /\ f \in Frames /\ f.pc = "read" /\ f.op = g.op /\ f.id = g.id /\ f.c = g.c
      /\ f.conf = g.conf /\ f.srv = g.srv /\ f.arr = <<>> /\ f.at = g.at
  <2>1. <<>> \in Seq(Servers)
    OBVIOUS
  <2>. HIDE DEF g
  <2>. QED  BY <1>3, <2>1 DEF Frames
<1>. HIDE DEF f
<1>8. FrameOK(f, hist')
  BY <1>1, <1>2, <1>7 DEF FrameOK, Commands, CleanList
<1>9. /\ FramesOK(frames', hist') /\ DOMAIN frames' = DOMAIN frames /\ frames'[i] = f
      /\ \A k \in DOMAIN frames : k # i => frames'[k] = frames[k]
      /\ AddedKept(m, frames, hist') => AddedKept(m, frames', hist')
      /\ Synced(m, frames) => Synced(m, frames')
  <2>1. StaysAt(g, f)
    BY <1>1 DEF StaysAt
  <2>. QED  BY <1>1, <1>7, <1>8, <2>1, InvFacts, WorkFrames
<1>10. m \in Models /\ Kept(m, frames, hist') /\ m.list \in Seq(Servers) /\ m.servers \in Seq(Servers)
  BY <1>1, InvFacts, KeptStart, ModelFacts
<1>11. Kept(d, frames', hist')
  <2>1. CASE g.at < 0
    <3>. DEFINE e == [m EXCEPT !.crashed = TRUE]
    <3>1. /\ e \in Models /\ e.list = m.list /\ e.servers = m.servers /\ e.default = m.default
          /\ e.containers = m.containers
      BY <1>10 DEF Models
    <3>2. d = e
      BY <2>1
    <3>. HIDE DEF d, e
    <3>. QED
      BY <1>6, <1>9, <1>10, <2>1, <3>1, <3>2 DEF Kept, ModelsOK, Synced, AddedKept, Lasts
  <2>2. CASE ~(g.at < 0)
    <3>. DEFINE e == [m EXCEPT !.list = list]
    <3>1. /\ e \in Models /\ e.list = list /\ e.servers = m.servers /\ e.default = m.default
          /\ e.containers = m.containers /\ e.crashed = m.crashed
      BY <1>4, <1>10 DEF Models
    <3>2. d = e
      BY <2>2
    <3>. HIDE DEF d, e
    <3>3. CleanList(list, hist')
      BY <1>1, <1>2, <1>4 DEF FrameOK, CleanList
    <3>4. ASSUME "raced" \notin hist
          PROVE  Synced(e, frames') /\ \A j \in DOMAIN list : list[j].id = m.servers[j].id
      <4>1. Synced(m, frames) /\ DOMAIN m.list = DOMAIN m.servers
        <5>1. Synced(m, frames)
          BY <3>4 DEF ServersInv, ModelsOK
        <5>. QED  BY <1>10, <5>1 DEF Synced
      <4>. DEFINE s == ServerAt(m.servers, g.at)
      <4>2. g.arr = m.list /\ g.srv = WithConfig(s, g.c, g.conf)
        BY <1>5, <3>4
      <4>3. s \in Servers /\ (g.at \in Slots(m.servers) => s = m.servers[g.at + 1])
            /\ (g.at \in Slots(m.servers) <=> g.at + 1 \in DOMAIN m.servers)
        BY <1>2, <1>10, ListFacts
      <4>4. g.srv.id = s.id /\ DOMAIN g.srv.containers = DOMAIN s.containers
        BY <1>2, <4>2, <4>3, WithConfigFacts
      <4>. HIDE DEF s, g
      <4>5. ASSUME NEW j \in DOMAIN list, j # g.at + 1
            PROVE  /\ \/ list[j] = m.servers[j]
                      \/ \E k \in DOMAIN frames' : frames'[k].pc \in {"read", "apply"} /\ frames'[k].at = j - 1
                   /\ list[j].id = m.servers[j].id
                   /\ DOMAIN list[j].containers = DOMAIN m.servers[j].containers
        <5>1. list[j] = m.list[j] /\ j \in DOMAIN m.list
          BY <1>4, <4>2, <4>5
        <5>2. \A k \in DOMAIN frames : frames[k].pc \in {"read", "apply"} => frames'[k] = frames[k]
          BY <1>1, <1>9 DEF g
        <5>. QED  BY <1>9, <4>1, <5>1, <5>2 DEF Synced
      <4>6. ASSUME NEW j \in DOMAIN list, j = g.at + 1
            PROVE  /\ \E k \in DOMAIN frames' : frames'[k].pc \in {"read", "apply"} /\ frames'[k].at = j - 1
                   /\ list[j].id = m.servers[j].id
                   /\ DOMAIN list[j].containers = DOMAIN m.servers[j].containers
        <5>1. list[j] = g.srv /\ j \in DOMAIN m.servers
          BY <1>4, <4>1, <4>2, <4>6
        <5>2. f.at = j - 1
          BY <1>2, <1>7, <4>6
        <5>. QED  BY <1>7, <1>9, <4>3, <4>4, <4>6, <5>1, <5>2
      <4>7. Len(list) = Len(m.servers)
        BY <1>4, <4>1, <4>2 DEF Synced
      <4>. QED  BY <3>1, <4>5, <4>6, <4>7 DEF Synced
    <3>5. Lasts(e, hist')
      BY <3>1, <3>4 DEF Lasts, Calm, Synced
    <3>. QED  BY <1>1, <1>9, <1>10, <3>1, <3>2, <3>3, <3>4, <3>5 DEF Kept, ModelsOK, AddedKept
  <2>. QED  BY <2>1, <2>2
<1>12. /\ posted' \in Seq([by : Nat, server : Servers])
       /\ \A k \in DOMAIN posted' : Clean(posted'[k].server, hist')
  BY <1>1, InvFacts, RequestsStay
<1>. HIDE DEF d
<1>. QED  BY <1>1, <1>7, <1>8, <1>11, <1>12, WorkStep

LEMMA ReadBackStep ==
  ASSUME ServersInv, NEW i \in DOMAIN frames, ReadBack(i)
  PROVE  Preserved
<1>. DEFINE g == frames[i]
            z == Move(i, "apply")
            s == ServerAt(m.list, g.at)
            f == [z EXCEPT !.srv = s]
<1>1. /\ Noted /\ UNCHANGED posted /\ hist \subseteq hist' /\ g.op = "connect" /\ g.pc = "read"
      /\ Work(i, "read", f, m)
  BY DEF ReadBack, Noted, Work
<1>2. g \in Frames /\ FrameOK(g, hist') /\ g.at \in Int
  BY <1>1, WorkerFacts
<1>3. m.list \in Seq(Servers) /\ CleanList(m.list, hist')
  BY <1>1, InvFacts, ModelFacts, KeptStart DEF Kept, ModelsOK
<1>4. s \in Servers /\ Clean(s, hist')
  BY <1>2, <1>3, ListFacts, CleanAt
<1>5. /\ z \in Frames /\ z.pc = "apply" /\ z.op = g.op /\ z.id = g.id /\ z.c = g.c
      /\ z.conf = g.conf /\ z.arr = g.arr /\ z.at = g.at
  BY <1>2, MoveFacts
<1>. HIDE DEF z, g, s
<1>6. /\ f \in Frames /\ f.pc = "apply" /\ f.op = g.op /\ f.id = g.id /\ f.c = g.c
      /\ f.conf = g.conf /\ f.arr = g.arr /\ f.at = g.at /\ f.srv = s
  BY <1>4, <1>5 DEF Frames
<1>. HIDE DEF f
<1>7. FrameOK(f, hist')
  BY <1>1, <1>2, <1>4, <1>6 DEF FrameOK, Commands
<1>8. StaysAt(g, f)
  BY <1>6 DEF StaysAt
<1>. QED  BY <1>1, <1>6, <1>7, <1>8, WorkQuietly DEF g

\* The entry that was read back is put into the copy: if it is still the stored
\* one, list and copy are alike again at the worker's place.
LEMMA ApplyEditStep ==
  ASSUME ServersInv, NEW i \in DOMAIN frames, ApplyEdit(i)
  PROVE  Preserved
<1>. DEFINE g == frames[i]
            s == g.srv
            servers == Replaced(m.servers, g.at, s)
            d == IF g.at \in Slots(m.servers) THEN [m EXCEPT !.servers = servers]
                 ELSE [m EXCEPT !.crashed = TRUE]
<1>1. PICK pc \in {"done", "failed"} :
        Work(i, "apply", [Move(i, pc) EXCEPT !.srv = NoServer, !.at = -1], d)
  BY DEF ApplyEdit
<1>. DEFINE z == Move(i, pc)
            f == [z EXCEPT !.srv = NoServer, !.at = -1]
<1>2. /\ NotedWith({}) /\ hist \subseteq hist' /\ g.op = "connect" /\ g.pc = "apply"
      /\ Work(i, "apply", f, d) /\ frames' = [frames EXCEPT ![i] = f] /\ m' = d
      /\ posted' = IF m'.crashed THEN posted
                   ELSE Append(posted, [by |-> i, server |-> Processed(m')])
  BY <1>1 DEF ApplyEdit, Noted, NotedWith, Work
<1>3. g \in Frames /\ FrameOK(g, hist') /\ g.at \in Int
  BY <1>2, WorkerFacts
<1>4. /\ z \in Frames /\ z.pc = pc /\ z.op = g.op /\ z.id = g.id /\ z.c = g.c
      /\ z.conf = g.conf /\ z.arr = g.arr
  BY <1>3, MoveFacts
<1>5. m \in Models /\ Kept(m, frames, hist') /\ m.list \in Seq(Servers) /\ m.servers \in Seq(Servers)
  BY <1>2, InvFacts, KeptStart, ModelFacts
<1>6. g.at \notin Slots(m.servers) => "shifted" \in hist'
  <2>1. g.at \notin Slots(m.servers) => ~IsAt(m.servers, g.at, g.srv.id)
    BY DEF IsAt
  <2>2. Writing(g)
    BY <1>2 DEF Writing
  <2>. QED  BY <1>2, <2>1, <2>2, InvFacts DEF Shifted
<1>. HIDE DEF z, g
<1>7. /\ f \in Frames /\ f.pc = pc /\ f.op = g.op /\ f.id = g.id /\ f.c = g.c
      /\ f.conf = g.conf /\ f.arr = g.arr /\ f.srv = NoServer
  <2>1. NoServer \in Servers
    BY NoServerFacts
  <2>2. PICK none \in Int : none = -1
    OBVIOUS
  <2>. DEFINE e == [z EXCEPT !.srv = NoServer, !.at = none]
  <2>3. /\ e \in Frames /\ e.pc = pc /\ e.op = g.op /\ e.id = g.id /\ e.c = g.c
        /\ e.conf = g.conf /\ e.arr = g.arr /\ e.srv = NoServer
    BY <1>4, <2>1 DEF Frames
  <2>4. f = e
    BY <2>2
  <2>. HIDE DEF e, f
  <2>. QED  BY <2>3, <2>4
<1>. HIDE DEF f
<1>8. FrameOK(f, hist')
  BY <1>2, <1>3, <1>7, NoServerFacts DEF FrameOK, Commands
<1>9. /\ FramesOK(frames', hist') /\ DOMAIN frames' = DOMAIN frames /\ frames'[i] = f
      /\ \A k \in DOMAIN frames : k # i => frames'[k] = frames[k]
      /\ \A e \in Models : AddedKept(e, frames, hist') => AddedKept(e, frames', hist')
  BY <1>2, <1>7, <1>8, WorkFrames DEF g
<1>10. s \in Servers /\ Clean(s, hist')
       /\ ("raced" \notin hist /\ g.at \in Slots(m.list) => s = m.list[g.at + 1])
       /\ (g.at \in Slots(m.list) <=> g.at + 1 \in DOMAIN m.list)
       /\ (g.at \in Slots(m.servers) <=> g.at + 1 \in DOMAIN m.servers)
  <2>1. s \in Servers /\ Clean(s, hist')
    BY <1>2, <1>3, WorkerFacts DEF FrameOK, g
  <2>2. "raced" \notin hist => s = ServerAt(m.list, g.at)
    BY <1>2, InvFacts DEF Raced, g
  <2>3. /\ (g.at \in Slots(m.list) => ServerAt(m.list, g.at) = m.list[g.at + 1])
        /\ (g.at \in Slots(m.list) <=> g.at + 1 \in DOMAIN m.list)
        /\ (g.at \in Slots(m.servers) <=> g.at + 1 \in DOMAIN m.servers)
    BY <1>3, <1>5, ListFacts
  <2>. HIDE DEF s
  <2>. QED  BY <2>1, <2>2, <2>3
<1>11. ASSUME "raced" \notin hist
       PROVE  /\ DOMAIN m.list = DOMAIN m.servers /\ Len(m.list) = Len(m.servers)
              /\ Slots(m.list) = Slots(m.servers) /\ Synced(m, frames)
              /\ \A j \in DOMAIN m.list : j # g.at + 1 =>
                   \/ m.list[j] = m.servers[j]
                   \/ \E k \in DOMAIN frames' : frames'[k].pc \in {"read", "apply"} /\ frames'[k].at = j - 1
  <2>1. /\ DOMAIN m.list = DOMAIN m.servers /\ Len(m.list) = Len(m.servers)
        /\ Slots(m.list) = Slots(m.servers) /\ Synced(m, frames)
    <3>1. Synced(m, frames)
      BY <1>11 DEF ServersInv, ModelsOK
    <3>2. DOMAIN m.list = DOMAIN m.servers /\ Len(m.list) = Len(m.servers)
      BY <1>5, <3>1 DEF Synced
    <3>. QED  BY <3>1, <3>2 DEF Slots
  <2>2. ASSUME NEW j \in DOMAIN m.list, j # g.at + 1, NEW k \in DOMAIN frames,
               frames[k].pc \in {"read", "apply"}, frames[k].at = j - 1
        PROVE  k # i
    <3>1. j \in Int
      BY <1>5
    <3>. QED  BY <1>3, <2>2, <3>1 DEF g
  <2>. QED  BY <1>9, <2>1, <2>2 DEF Synced
<1>12. Kept(d, frames', hist')
  <2>1. CASE g.at \notin Slots(m.servers)
    <3>. DEFINE e == [m EXCEPT !.crashed = TRUE]
    <3>1. /\ e \in Models /\ e.list = m.list /\ e.servers = m.servers /\ e.default = m.default
          /\ e.containers = m.containers
      BY <1>5 DEF Models
    <3>2. d = e
      BY <2>1
    <3>. HIDE DEF d, e
    <3>3. "raced" \notin hist' => Synced(e, frames')
      BY <1>2, <1>10, <1>11, <2>1, <3>1 DEF Synced
    <3>4. AddedKept(e, frames', hist')
      BY <1>5, <1>9, <3>1 DEF Kept, AddedKept
    <3>. QED  BY <1>5, <1>6, <1>9, <2>1, <3>1, <3>2, <3>3, <3>4 DEF Kept, ModelsOK, Lasts
  <2>2. CASE g.at \in Slots(m.servers)
    <3>. DEFINE e == [m EXCEPT !.servers = servers]
    <3>1. /\ servers \in Seq(Servers) /\ Len(servers) = Len(m.servers)
          /\ DOMAIN servers = DOMAIN m.servers /\ Slots(servers) = Slots(m.servers)
          /\ \A j \in DOMAIN m.servers : servers[j] = IF j = g.at + 1 THEN s ELSE m.servers[j]
      <4>. HIDE DEF s
      <4>. QED  BY <1>3, <1>5, <1>10, ReplacedFacts
    <3>. HIDE DEF servers
    <3>2. /\ e \in Models /\ e.list = m.list /\ e.servers = servers /\ e.default = m.default
          /\ e.containers = m.containers /\ e.crashed = m.crashed
      BY <1>5, <3>1 DEF Models
    <3>3. d = e
      BY <2>2
    <3>. HIDE DEF d, e, s
    <3>4. CleanList(servers, hist')
      BY <1>5, <1>10, <3>1 DEF Kept, ModelsOK, CleanList
    <3>5. ASSUME "raced" \notin hist
          PROVE  /\ \A j \in DOMAIN m.servers :
                      /\ servers[j].id = m.servers[j].id
                      /\ DOMAIN servers[j].containers = DOMAIN m.servers[j].containers
                 /\ Synced(e, frames')
      BY <1>10, <1>11, <2>2, <3>1, <3>2, <3>5 DEF Synced
    <3>6. hist' \cap {"raced", "shifted", "garbled"} = {} => AllDifferent(servers)
      BY <1>2, <1>5, <3>1, <3>5 DEF Kept, ModelsOK, AllDifferent
    <3>7. servers # <<>> => m.servers # <<>>
      BY <1>5, <3>1
    <3>8. AddedKept(e, frames, hist')
      <4>. SUFFICES ASSUME "strayed" \notin hist', NEW k \in DOMAIN frames,
                           frames[k].op = "added", IsAt(servers, frames[k].idx, frames[k].id)
                    PROVE  frames[k].c \in DOMAIN ServerAt(servers, frames[k].idx).containers
        BY <3>2 DEF AddedKept
      <4>1. ~Strayed /\ ~Strayed'
        BY <1>2, InvFacts, NotedFacts
      <4>2. k # i /\ k \in DOMAIN frames' /\ frames'[k] = frames[k]
        BY <1>2, <1>9 DEF g
      <4>3. /\ IsAt(m.servers, m.processed, frames[k].id) /\ m.processed = frames[k].idx
            /\ DOMAIN m.containers.containers = DOMAIN Processed(m).containers
        BY <4>1 DEF Strayed
      <4>4. /\ m'.processed = frames[k].idx
            /\ DOMAIN m'.containers.containers = DOMAIN Processed(m').containers
        BY <4>1, <4>2 DEF Strayed
      <4>5. frames[k].c \in DOMAIN Processed(m).containers
        BY <1>5, <4>3 DEF Kept, AddedKept, Processed
      <4>6. m'.servers = servers /\ m'.containers = m.containers
        BY <1>2, <3>2, <3>3
      <4>. QED  BY <4>3, <4>4, <4>5, <4>6 DEF Processed
    <3>9. AddedKept(e, frames', hist')
      BY <1>9, <3>2, <3>8
    <3>10. Lasts(e, hist')
      BY <3>1, <3>2, <3>5 DEF Lasts, Calm, Synced
    <3>. QED
      BY <1>2, <1>5, <1>9, <3>1, <3>2, <3>3, <3>4, <3>5, <3>6, <3>7, <3>9, <3>10
      DEF Kept, ModelsOK
  <2>. QED  BY <2>1, <2>2
<1>. HIDE DEF d
<1>13. /\ posted' \in Seq([by : Nat, server : Servers])
       /\ \A k \in DOMAIN posted' : Clean(posted'[k].server, hist')
  <2>1. /\ posted \in Seq([by : Nat, server : Servers])
        /\ \A k \in DOMAIN posted : Clean(posted[k].server, hist')
    BY <1>2, InvFacts, CleanMore DEF ServersInv
  <2>2. Processed(d) \in Servers /\ Clean(Processed(d), hist')
    BY <1>12, ModelFacts, CleanAt DEF Processed, Kept, ModelsOK
  <2>. DEFINE call == [by |-> i, server |-> Processed(d)]
  <2>3. i \in Nat
    BY InvFacts
  <2>4. call \in [by : Nat, server : Servers] /\ call.server = Processed(d)
    BY <2>2, <2>3
  <2>5. posted' = posted \/ posted' = Append(posted, call)
    BY <1>2 DEF Processed
  <2>. HIDE DEF call
  <2>6. CASE posted' = posted
    BY <2>1, <2>6
  <2>7. CASE posted' = Append(posted, call)
    BY <2>1, <2>2, <2>4, <2>7, Appended
  <2>. QED  BY <2>5, <2>6, <2>7
<1>. QED  BY <1>2, <1>7, <1>8, <1>12, <1>13, WorkStep DEF g

LEMMA WorkerStep ==
  ASSUME ServersInv, Worker
  PROVE  Preserved
BY CreateStep, ReadIndexStep, ReadSettingsStep, WriteSettingsStep, ReadBackStep,
   ApplyEditStep DEF Worker

LEMMA ContainersUpdatedStep ==
  ASSUME ServersInv, ContainersUpdated
  PROVE  Preserved
<1>. DEFINE s == Head(posted).server
            d == [m EXCEPT !.containers = s]
<1>1. /\ NotedWith({}) /\ Stay(frames) /\ Wait(frames) /\ ~m.crashed /\ CountsOK
      /\ m' = d /\ posted # <<>> /\ posted' = Tail(posted)
      /\ UNCHANGED <<frames, telegram, state, tunnel, handlers>>
  BY InvFacts DEF ContainersUpdated, Noted, NotedWith, Stay, Wait, CountsOK
<1>2. hist \subseteq hist'
  BY <1>1, NotedFacts
<1>3. /\ posted \in Seq([by : Nat, server : Servers]) /\ m \in Models
      /\ \A k \in DOMAIN posted : Clean(posted[k].server, hist')
  BY <1>2, InvFacts, CleanMore DEF ServersInv
<1>4. /\ posted' \in Seq([by : Nat, server : Servers])
      /\ Head(posted) \in [by : Nat, server : Servers]
      /\ Head(posted) = posted[1] /\ 1 \in DOMAIN posted
      /\ \A k \in DOMAIN posted' : k + 1 \in DOMAIN posted /\ posted'[k] = posted[k + 1]
  BY <1>1, <1>3, Served
<1>5. \A k \in DOMAIN posted' : Clean(posted'[k].server, hist')
  BY <1>3, <1>4
<1>6. s \in Servers /\ Clean(s, hist')
  BY <1>3, <1>4
<1>. HIDE DEF s
<1>7. /\ d \in Models /\ d.list = m.list /\ d.servers = m.servers /\ d.default = m.default
      /\ d.containers = s /\ d.crashed = m.crashed
  BY <1>3, <1>6 DEF Models
<1>. HIDE DEF d
<1>8. Kept(m, frames, hist')
  BY <1>2, KeptStart
<1>9. Kept(d, frames, hist')
  BY <1>6, <1>7, <1>8 DEF Kept, ModelsOK, Synced, AddedKept, Lasts
<1>10. frames' \in Seq(Frames) /\ OnePopup(frames') /\ Kept(m', frames', hist')
  BY <1>1, <1>2, <1>9, WaitFacts
<1>11. HandlersOK
  BY <1>1, <1>2, HandlersStay
<1>12. RequestsTyped /\ RequestsOK(telegram', hist')
  BY <1>1, <1>2, RequestsStay
<1>13. ShownOK
  BY <1>1, <1>2, ShownStays
<1>. QED  BY <1>1, <1>4, <1>5, <1>10, <1>11, <1>12, <1>13, Assembled

LEMMA ConnectToVpnStep ==
  ASSUME ServersInv, ConnectToVpn
  PROVE  Preserved
<1>1. Returns({"connect"}) /\ Top.pc \in {"done", "failed"}
  BY DEF ConnectToVpn
<1>2. /\ NotedWith({}) /\ CountsOK /\ m' = m /\ frames' = Outer /\ hist \subseteq hist'
      /\ UNCHANGED <<telegram, posted, handlers>>
  BY InvFacts DEF ConnectToVpn, Noted, NotedWith, CountsOK
<1>3. /\ ~m.crashed /\ Top.op = "connect" /\ Top \in Frames /\ FrameOK(Top, hist) /\ Stay(Outer)
      /\ Len(frames) \in DOMAIN frames /\ Top = frames[Len(frames)]
  BY <1>1, TopFacts
<1>4. Wait(Outer) /\ Kept(m, Outer, hist')
  BY <1>2, <1>3, StayFacts DEF Wait
<1>5. frames' \in Seq(Frames) /\ OnePopup(frames') /\ Kept(m', frames', hist')
  BY <1>2, <1>3, <1>4, WaitFacts
<1>6. HandlersOK
  BY <1>2, <1>3, <1>4, HandlersStay
<1>7. RequestsTyped /\ RequestsOK(telegram', hist')
      /\ \A i \in DOMAIN posted' : Clean(posted'[i].server, hist')
  BY <1>2, RequestsStay
<1>8. posted' \in Seq([by : Nat, server : Servers])
  BY <1>2, InvFacts
<1>9. ShownOK
  <2>1. CASE state' = "off" /\ tunnel' = tunnel
    BY <1>2, <2>1, ShownStays
  <2>2. CASE /\ Top.pc = "done" /\ state' = "busy"
             /\ tunnel' = [server |-> Top.id, c |-> Top.c, profile |-> Top.conf,
                           dns |-> Processed(m).id]
    <3>1. /\ Top.id \in Ids \cup {NoId} /\ Top.c \in Kinds \cup {None} /\ Top.conf \in Profiles
          /\ Processed(m).id \in Ids \cup {NoId}
      BY <1>2, <1>3, EntryFacts, ServerParts DEF Frames
    <3>2. tunnel' \in Tunnels
      BY <2>2, <3>1 DEF Tunnels
    <3>3. "strayed" \notin hist => Processed(m).id = Top.id
      <4>1. "strayed" \notin hist => IsAt(m.servers, m.processed, Top.id)
        BY <1>3, InvFacts DEF Strayed
      <4>. QED  BY <4>1 DEF IsAt, Processed, ServerAt
    <3>4. /\ "strayed" \notin hist /\ Top.c \in Vpns => Top.conf \in {Stub, Top.id}
          /\ "stubbed" \notin hist => Top.conf # Stub
      BY <1>3, <2>2 DEF FrameOK
    <3>5. ConnectsToOne'
      BY <1>2, <2>2, <3>3, <3>4 DEF ConnectsToOne
    <3>. QED  BY <2>2, <3>2, <3>5 DEF ShownOK
  <2>. QED  BY <2>1, <2>2 DEF ConnectToVpn
<1>. QED  BY <1>2, <1>5, <1>6, <1>7, <1>8, <1>9, Assembled

-----------------------------------------------------------------------------
(* The program starts *)

LEMMA LoadedFacts ==
  ASSUME NEW list \in Seq(Servers), NEW i \in Int, NEW h, CleanList(list, h),
         h \cap {"raced", "shifted", "garbled"} = {} => AllDifferent(list),
         h \cap {"raced", "torn", "moved"} = {} /\ list # <<>> => i \in Slots(list),
         Removal \/ m.servers = list
  PROVE  Kept(Loaded(list, i), <<>>, h)
<1>. DEFINE s == ServerAt(list, i)
            d == Loaded(list, i)
<1>1. s \in Servers /\ Clean(s, h)
  BY ListFacts, CleanAt
<1>2. d = [list |-> list, default |-> i, servers |-> list, processed |-> i,
           containers |-> s, page |-> TRUE, crashed |-> FALSE]
  BY DEF Loaded
<1>. HIDE DEF d, s
<1>3. /\ d \in Models /\ d.list = list /\ d.servers = list /\ d.default = i
      /\ d.containers = s /\ ~d.crashed
  BY <1>1, <1>2 DEF Models
<1>4. FramesOK(<<>>, h) /\ NoneAdded(<<>>)
  BY DEF FramesOK, NoneAdded
<1>5. Lasts(d, h)
  BY <1>3 DEF Lasts
<1>6. Kept(d, <<>>, h)
  BY <1>1, <1>3, <1>4, <1>5, KeptFresh
<1>. QED  BY <1>6 DEF d

LEMMA StartStep ==
  ASSUME ServersInv, NEW more, NotedWith(more), NEW list, NEW n, StartAgain(list, n),
         edits' \in Nat, Kept(Loaded(list, n), <<>>, hist')
  PROVE  Preserved
<1>1. /\ m' = Loaded(list, n) /\ frames' = <<>> /\ telegram' = {} /\ posted' = <<>>
      /\ state' = "off" /\ tunnel' = NoTunnel
      /\ handlers' = [current |-> FALSE, left |-> FALSE] /\ CountsOK
  BY InvFacts DEF StartAgain, CountsOK
<1>2. frames' \in Seq(Frames) /\ OnePopup(frames') /\ Kept(m', frames', hist')
  BY <1>1 DEF OnePopup
<1>3. /\ posted' \in Seq([by : Nat, server : Servers])
      /\ \A i \in DOMAIN posted' : Clean(posted'[i].server, hist')
  BY <1>1
<1>4. RequestsTyped /\ RequestsOK(telegram', hist')
  BY <1>1 DEF RequestsTyped, RequestsOK
<1>5. HandlersOK
  BY <1>1 DEF HandlersOK, HandlersWait
<1>6. NoTunnel \in Tunnels
  BY DEF NoTunnel, Tunnels, Profiles
<1>7. ShownOK
  BY <1>1, <1>6 DEF ShownOK, ConnectsToOne
<1>. QED  BY <1>1, <1>2, <1>3, <1>4, <1>5, <1>7, Assembled

LEMMA RestartSteps ==
  ASSUME ServersInv, Restart \/ EndInRemoval \/ EndInAddition \/ EndInRestore
  PROVE  Preserved
<1>1. m \in Models /\ m.list \in Seq(Servers) /\ m.default \in Int
  BY InvFacts, ModelFacts
<1>2. ASSUME NEW h, hist \subseteq h
      PROVE  /\ Kept(m, frames, h) /\ CleanList(m.list, h)
             /\ h \cap {"raced", "shifted", "garbled"} = {} => AllDifferent(m.list)
             /\ h \cap {"raced", "torn", "moved"} = {} /\ m.list # <<>> =>
                  m.default \in Slots(m.list)
  <2>1. Kept(m, frames, h) /\ m.servers \in Seq(Servers)
    BY <1>1, <1>2, KeptStart, ModelFacts
  <2>2. "raced" \notin h =>
          /\ Len(m.list) = Len(m.servers) /\ Slots(m.list) = Slots(m.servers)
          /\ AllDifferent(m.servers) => AllDifferent(m.list)
    BY <2>1, ListAlike
  <2>3. "raced" \notin h /\ m.list # <<>> => m.servers # <<>>
    BY <1>1, <2>1, <2>2
  <2>. QED  BY <2>1, <2>2, <2>3 DEF Kept, ModelsOK
<1>3. CASE Restart
  <2>1. NotedWith({}) /\ hist \subseteq hist' /\ StartAgain(m.list, m.default) /\ Removal
    BY <1>3 DEF Restart, Noted, NotedWith, Removal
  <2>2. Kept(Loaded(m.list, m.default), <<>>, hist') /\ edits' \in Nat
    BY <1>1, <1>2, <1>3, <2>1, InvFacts, LoadedFacts DEF Restart
  <2>. QED  BY <2>1, <2>2, StartStep
<1>4. ASSUME NEW list \in Seq(Servers), NEW n \in Int, EndBetween(list, n), Removal,
             CleanList(list, hist'), AllDifferent(m.list) => AllDifferent(list)
      PROVE  Preserved
  <2>1. /\ NotedWith({"torn"}) /\ hist \subseteq hist' /\ StartAgain(list, n)
        /\ "torn" \in hist' /\ edits' \in Nat
    BY <1>4, InvFacts DEF EndBetween, NotedWith, AllSigns
  <2>2. Kept(Loaded(list, n), <<>>, hist')
    BY <1>2, <1>4, <2>1, LoadedFacts
  <2>. QED  BY <2>1, <2>2, StartStep
<1>5. ASSUME EndInRemoval \/ EndInAddition \/ EndInRestore
      PROVE  hist \subseteq hist' /\ Removal
  BY <1>5 DEF EndInRemoval, EndInAddition, EndInRestore, EndBetween, Removal
<1>6. CASE EndInRemoval
  <2>. DEFINE list == StoredRemoval(m)
  <2>1. /\ list \in Seq(Servers) /\ CleanList(list, hist')
        /\ AllDifferent(m.list) => AllDifferent(list)
    BY <1>2, <1>5, <1>6, RemovalListFacts
  <2>2. EndBetween(list, m.default)
    BY <1>6 DEF EndInRemoval
  <2>. HIDE DEF list
  <2>. QED  BY <1>1, <1>4, <1>5, <1>6, <2>1, <2>2
<1>7. CASE EndInAddition
  <2>1. PICK s \in NewServers :
          /\ s.id \notin Listed(m.list)
          /\ EndBetween(Append(m.list, s), m.default)
    BY <1>7 DEF EndInAddition, Addable
  <2>. DEFINE list == Append(m.list, s)
  <2>2. s \in Servers /\ Own(s) /\ Chosen(s)
    BY ConstantsAssumption, InputsAssumption
  <2>3. /\ list \in Seq(Servers) /\ Len(m.list) \in Nat
        /\ DOMAIN m.list = 1 .. Len(m.list) /\ DOMAIN list = 1 .. Len(m.list) + 1
        /\ list[Len(m.list) + 1] = s
        /\ \A k \in 1 .. Len(m.list) : list[k] = m.list[k]
    BY <1>1, <2>2, Appended
  <2>. HIDE DEF list
  <2>4. m' = Loaded(list, m.default) /\ m'.servers = list
    BY <2>1 DEF EndBetween, StartAgain, Loaded, list
  <2>5. HasStub(s) => "stubbed" \in hist'
    <3>1. HasStub(s) => Stubbed'
      BY <2>3, <2>4 DEF Stubbed, HasStub
    <3>. QED  BY <2>1, <3>1 DEF EndBetween, Signs
  <2>6. CleanList(list, hist')
    <3>1. Clean(s, hist')
      BY <2>2, <2>5 DEF Clean
    <3>2. CleanList(m.list, hist')
      BY <1>2, <1>5, <1>7
    <3>3. \A k \in DOMAIN list : list[k] = s \/ (k \in DOMAIN m.list /\ list[k] = m.list[k])
      BY <2>3
    <3>. QED  BY <3>1, <3>2, <3>3 DEF CleanList
  <2>7. AllDifferent(m.list) => AllDifferent(list)
    <3>1. \A k \in DOMAIN m.list : m.list[k].id # s.id
      BY <2>1 DEF Listed
    <3>2. \A k \in DOMAIN list : (k = Len(m.list) + 1 /\ list[k] = s)
                                   \/ (k \in DOMAIN m.list /\ list[k] = m.list[k])
      BY <2>3
    <3>. QED  BY <3>1, <3>2 DEF AllDifferent
  <2>8. EndBetween(list, m.default)
    BY <2>1 DEF list
  <2>. QED  BY <1>1, <1>4, <1>5, <1>7, <2>3, <2>6, <2>7, <2>8
<1>8. CASE EndInRestore
  <2>1. PICK b \in Backups : EndBetween(m.list, b.default)
    BY <1>8 DEF EndInRestore
  <2>2. b.default \in Int
    BY ConstantsAssumption
  <2>. QED  BY <1>1, <1>2, <1>4, <1>5, <1>8, <2>1, <2>2
<1>. QED  BY <1>3, <1>6, <1>7, <1>8

LEMMA InitStep ==
  ASSUME Init
  PROVE  ServersInv
<1>1. PICK b \in Backups : m = Loaded(b.list, b.default)
  BY DEF Init
<1>2. /\ frames = <<>> /\ telegram = {} /\ posted = <<>> /\ state = "off" /\ tunnel = NoTunnel
      /\ handlers = [current |-> FALSE, left |-> FALSE]
      /\ edits = 0 /\ opens = 0 /\ hist = Signs
  BY DEF Init
<1>3. PICK list \in Seq(Servers) : list = b.list
  BY ConstantsAssumption
<1>4. PICK i \in Int : i = b.default
  BY ConstantsAssumption
<1>5. /\ \A j \in DOMAIN list : Own(list[j]) /\ Chosen(list[j])
      /\ AllDifferent(list) /\ (list # <<>> => i \in Slots(list))
  BY <1>3, <1>4, InputsAssumption
<1>6. m = Loaded(list, i)
  BY <1>1, <1>3, <1>4
<1>7. m.servers = list
  BY <1>6 DEF Loaded
<1>8. "stubbed" \notin hist => \A j \in DOMAIN list : ~HasStub(list[j])
  <2>1. (\E j \in DOMAIN list : HasStub(list[j])) => Stubbed
    BY <1>7 DEF Stubbed, HasStub
  <2>. QED  BY <1>2, <2>1 DEF Signs
<1>9. CleanList(list, hist)
  BY <1>5, <1>8 DEF CleanList, Clean
<1>10. Kept(m, frames, hist)
  BY <1>2, <1>5, <1>6, <1>7, <1>9, LoadedFacts
<1>11. frames \in Seq(Frames) /\ OnePopup(frames) /\ posted \in Seq([by : Nat, server : Servers])
  BY <1>2 DEF OnePopup
<1>12. NoTunnel \in Tunnels
  BY DEF NoTunnel, Tunnels, Profiles
<1>13. SignsNoted /\ hist \subseteq AllSigns
  BY <1>2 DEF SignsNoted, Signs, AllSigns
<1>14. TypeOK
  BY <1>2, <1>10, <1>11, <1>12, <1>13 DEF TypeOK, Kept, AllSigns
<1>15. ConnectsToOne /\ HandlersWait /\ RequestsOK(telegram, hist)
       /\ \A k \in DOMAIN posted : Clean(posted[k].server, hist)
  BY <1>2 DEF ConnectsToOne, HandlersWait, RequestsOK
<1>. QED  BY <1>2, <1>10, <1>11, <1>13, <1>14, <1>15 DEF ServersInv, Kept

LEMMA StutterStep ==
  ASSUME ServersInv, UNCHANGED vars
  PROVE  ServersInv'
<1>1. UNCHANGED <<m, frames, telegram, posted, state, tunnel, handlers, edits, opens, hist>>
  BY DEF vars
<1>2. TypeOK' /\ (Signs = Signs')
  BY <1>1 DEF ServersInv, TypeOK, Signs, Strayed, Shifted, Raced, Moved, Stubbed, Processed
<1>3. SignsNoted'
  BY <1>1, <1>2 DEF ServersInv, SignsNoted
<1>4. ConnectsToOne' /\ HandlersWait'
  BY <1>1 DEF ServersInv, ConnectsToOne, HandlersWait
<1>5. /\ ModelsOK(m, frames, hist)' /\ FramesOK(frames, hist)' /\ OnePopup(frames)'
      /\ AddedKept(m, frames, hist)' /\ RequestsOK(telegram, hist)'
      /\ (\A i \in DOMAIN posted : Clean(posted[i].server, hist))'
  BY <1>1 DEF ServersInv
<1>. QED  BY <1>1, <1>2, <1>3, <1>4, <1>5 DEF ServersInv

LEMMA NextStep ==
  ASSUME ServersInv, Next
  PROVE  Preserved
BY SelectSteps, RemoveStep, AddStep, ResetSteps, RenameStep, DefaultContainerStep,
   RemoveApiStep, UpdateClientSettingsStep, ConnectSteps, VpnStep, BeginSteps, FailStep,
   ContainerRemovedStep, AllContainersRemovedStep, ContainerInstalledStep,
   ProfileCreatedStep, ClientAppendedStep, ContainerUpdatedStep, ProfileRevokedStep,
   ProfileClearedStep, AskStep, ReloadedStep, GatewayRepliedStep, TelegramRepliedStep,
   RefusedSteps, WorkerStep, ContainersUpdatedStep, ConnectToVpnStep, RestartSteps
DEF Next

-----------------------------------------------------------------------------
(* Theorems *)

\* The list, its copy, the waiting handlers, the workers and the requests fit
\* together in every state.
THEOREM ServersInvariant == Spec => []ServersInv
<1>1. Init => ServersInv
  BY InitStep
<1>2. ServersInv /\ [Next]_vars => ServersInv'
  BY NextStep, StutterStep DEF Preserved
<1>. QED  BY <1>1, <1>2, PTL DEF Spec

\* Every entry is a server, wherever it is kept, and the buttons know the state.
THEOREM TypeCorrect == Spec => []TypeOK
<1>1. ServersInv => TypeOK
  BY DEF ServersInv
<1>. QED  BY <1>1, ServersInvariant, PTL

\* The copy of the list is the stored one whenever no worker is between the two
\* halves of editServer(), unless a worker stored an outdated list or put into the
\* copy an entry that had been changed since it was read back.
THEOREM CopyMirrorsSettings == Spec => []Mirrored
<1>1. ServersInv => Mirrored
  <2>. SUFFICES ASSUME ServersInv, "raced" \notin hist,
                       \A i \in DOMAIN frames : frames[i].pc \notin {"read", "apply"}
                PROVE  m.list = m.servers
    BY DEF Mirrored
  <2>1. m.list \in Seq(Servers) /\ m.servers \in Seq(Servers) /\ Synced(m, frames)
    BY InvFacts, ModelFacts DEF ServersInv, ModelsOK
  <2>2. Len(m.list) = Len(m.servers) /\ \A i \in DOMAIN m.list : m.list[i] = m.servers[i]
    BY <2>1 DEF Synced
  <2>. QED  BY <2>1, <2>2
<1>. QED  BY <1>1, ServersInvariant, PTL

\* A list that is not empty has a default server, unless the program ended
\* between the writes of the list and of the default place, a worker put back an outdated list or
\* the list was emptied under a connection.
THEOREM DefaultServerExists == Spec => []DefaultValid
<1>1. ServersInv => DefaultValid
  BY DEF ServersInv, ModelsOK, DefaultValid
<1>. QED  BY <1>1, ServersInvariant, PTL

\* The default container of every server is one it has, unless an operation went
\* on with another server, or other containers, than ContainersModel shows.
THEOREM DefaultContainersExist == Spec => []DefaultContainerInstalled
<1>1. ServersInv => DefaultContainerInstalled
  BY DEF ServersInv, ModelsOK, CleanList, Clean, Chosen, DefaultContainerInstalled
<1>. QED  BY <1>1, ServersInvariant, PTL

\* No server is listed twice, unless the list was changed during a wait.
THEOREM ServersDistinct == Spec => []Distinct
<1>1. ServersInv => Distinct
  BY DEF ServersInv, ModelsOK, AllDifferent, Distinct
<1>. QED  BY <1>1, ServersInvariant, PTL

\* editServer() replaces no entry beyond the list, unless the list was changed, or
\* another server selected, during a wait.
THEOREM NoWildWrites == Spec => []NoWildIndex
<1>1. ServersInv => NoWildIndex
  BY DEF ServersInv, ModelsOK, NoWildIndex
<1>. QED  BY <1>1, ServersInvariant, PTL

\* No server's entry holds the profile of another one, unless another one was
\* selected during a wait.
THEOREM ProfilesOwned == Spec => []OwnProfiles
<1>1. ServersInv => OwnProfiles
  BY DEF ServersInv, ModelsOK, CleanList, Clean, Own, OwnProfiles
<1>. QED  BY <1>1, ServersInvariant, PTL

\* connectToVpn() gets the profile and the name servers of one server.
THEOREM OneServerConnected == Spec => []ConnectsToOne
<1>1. ServersInv => ConnectsToOne
  BY DEF ServersInv
<1>. QED  BY <1>1, ServersInvariant, PTL

\* The error of an operation that has nothing to do with a connection changes the
\* state that is shown only for a connection that waits, or for a handler that was
\* left behind.
THEOREM ErrorsStayApart == Spec => ErrorsOfOthers
<1>. DEFINE Quiet == CommandFails /\ state' # state =>
                       \/ "refused" \in hist \/ handlers.left \/ telegram # {}
                       \/ \E i \in DOMAIN frames : frames[i].op = "gateway"
<1>1. ServersInv => Quiet
  <2>. SUFFICES ASSUME ServersInv, CommandFails, state' # state
                PROVE  \/ "refused" \in hist \/ handlers.left \/ telegram # {}
                       \/ \E i \in DOMAIN frames : frames[i].op = "gateway"
    OBVIOUS
  <2>1. ~m.crashed /\ (handlers.current \/ handlers.left)
    BY DEF CommandFails, Returns, Failed, AfterError
  <2>. QED  BY <2>1 DEF ServersInv, HandlersWait
<1>2. ServersInv /\ [Next]_vars => [Quiet]_vars
  BY <1>1
<1>. QED  BY <1>2, ServersInvariant, PTL DEF Spec, ErrorsOfOthers

LEMMA DefaultMoves ==
  ASSUME NEW d, d.default \in Int, d.processed \in Int, NEW n \in Nat \ {0}
  PROVE  /\ d.default > d.processed => DefaultAfter(d, n) = d.default - 1
         /\ d.default < d.processed => DefaultAfter(d, n) = d.default
BY DEF DefaultAfter

LEMMA RemovedDefault ==
  ASSUME ServersInv, RemoveProcessedServer, m.default # m.processed, "raced" \notin hist
  PROVE  Default(m').id = Default(m).id
<1>. DEFINE list == StoredRemoval(m)
            p == m.processed
            q == m.default
<1>1. /\ m' = removeServer(m) /\ p \in Slots(m.servers) /\ m \in Models
      /\ m.list \in Seq(Servers) /\ m.servers \in Seq(Servers) /\ p \in Int /\ q \in Int
  BY InvFacts, ModelFacts DEF RemoveProcessedServer, OnPage, Edit
<1>2. Kept(m, frames, hist)
  BY KeptStart
<1>3. /\ Len(m.list) = Len(m.servers) /\ DOMAIN m.list = DOMAIN m.servers
      /\ Slots(m.list) = Slots(m.servers)
      /\ \A i \in DOMAIN m.list : m.list[i].id = m.servers[i].id
  BY <1>2, ListAlike
<1>4. p + 1 \in 1 .. Len(m.list) /\ list = RemoveAt(m.list, p + 1)
  BY <1>1, <1>3, ListFacts DEF StoredRemoval
<1>5. /\ list \in Seq(Servers) /\ Len(m.list) \in Nat \ {0} /\ Len(list) = Len(m.list) - 1
      /\ \A i \in 1 .. Len(m.list) - 1 :
           list[i] = IF i < p + 1 THEN m.list[i] ELSE m.list[i + 1]
  BY <1>1, <1>4, Removed
<1>6. m'.servers = list /\ m'.default = DefaultAfter(m, Len(list))
  BY <1>1, RemovalFacts
<1>. HIDE DEF list
<1>7. Default(m) = ServerAt(m.servers, q) /\ Default(m') = ServerAt(list, DefaultAfter(m, Len(list)))
  BY <1>6 DEF Default
<1>8. CASE q \in Slots(m.servers)
  <2>1. /\ q + 1 \in DOMAIN m.servers /\ Default(m) = m.servers[q + 1]
        /\ q \in 0 .. Len(m.list) - 1 /\ Len(list) \in Nat \ {0}
    <3>1. q + 1 \in DOMAIN m.servers /\ Default(m) = m.servers[q + 1]
      BY <1>1, <1>7, <1>8, ListFacts
    <3>2. q \in 0 .. Len(m.list) - 1 /\ p \in 0 .. Len(m.list) - 1
      BY <1>1, <1>3, <1>8 DEF Slots
    <3>3. q # p
      OBVIOUS
    <3>. HIDE DEF p, q
    <3>4. Len(list) \in Nat \ {0}
      BY <1>5, <3>2, <3>3
    <3>. QED  BY <3>1, <3>2, <3>4
  <2>2. CASE q > p
    <3>1. DefaultAfter(m, Len(list)) = q - 1 /\ q - 1 \in Slots(list) /\ (q - 1) + 1 = q
      <4>1. DefaultAfter(m, Len(list)) = q - 1
        BY <1>1, <2>1, <2>2, DefaultMoves
      <4>. HIDE DEF p, q
      <4>. QED  BY <1>1, <1>4, <1>5, <2>1, <2>2, <4>1 DEF Slots
    <3>2. list[q] = m.list[q + 1]
      <4>. HIDE DEF p, q
      <4>1. q \in 1 .. Len(m.list) - 1 /\ ~(q < p + 1)
        BY <1>1, <1>4, <1>5, <2>1, <2>2
      <4>. QED  BY <1>5, <4>1
    <3>. QED  BY <1>3, <1>7, <2>1, <3>1, <3>2 DEF ServerAt
  <2>3. CASE q < p
    <3>1. DefaultAfter(m, Len(list)) = q /\ q \in Slots(list)
      <4>1. DefaultAfter(m, Len(list)) = q
        BY <1>1, <2>1, <2>3, DefaultMoves
      <4>. HIDE DEF p, q
      <4>. QED  BY <1>1, <1>4, <1>5, <2>1, <2>3, <4>1 DEF Slots
    <3>2. list[q + 1] = m.list[q + 1]
      <4>. HIDE DEF p, q
      <4>1. q + 1 \in 1 .. Len(m.list) - 1 /\ q + 1 < p + 1
        BY <1>1, <1>4, <1>5, <2>1, <2>3
      <4>. QED  BY <1>5, <4>1
    <3>. QED  BY <1>3, <1>7, <2>1, <3>1, <3>2 DEF ServerAt
  <2>. QED  BY <1>1, <2>2, <2>3
<1>9. CASE q \notin Slots(m.servers)
  <2>1. q < 0 \/ q >= Len(m.list)
    BY <1>1, <1>3, <1>5, <1>9 DEF Slots
  <2>2. DefaultAfter(m, Len(list)) \notin Slots(list)
    BY <1>1, <1>4, <1>5, <2>1 DEF DefaultAfter, Slots
  <2>. QED  BY <1>7, <1>9, <2>2 DEF ServerAt
<1>. QED  BY <1>8, <1>9

\* What a step leaves of the servers.
LEMMA ListedLasts ==
  ASSUME ServersInv, Next
  PROVE  Removal \/ ~Calm(hist') \/ Listed(m.servers) \subseteq Listed(m'.servers)
<1>1. Lasts(m', hist')
  BY NextStep DEF Preserved
<1>. QED  BY <1>1 DEF Lasts, Listed

\* The buttons do not take away the server in use.
LEMMA UsedNotRemoved ==
  ASSUME ServersInv, Removal, state = "on", Calm(hist), "moved" \notin hist, tunnel' = tunnel
  PROVE  FALSE
<1>1. tunnel # NoTunnel /\ ~Moved
  BY InvFacts DEF ServersInv
<1>2. IsAt(m.servers, m.default, tunnel.server) /\ IsAt(m.servers, m.processed, tunnel.server)
  BY <1>1 DEF Moved
<1>3. AllDifferent(m.servers)
  BY DEF ServersInv, ModelsOK, Calm
<1>4. m.servers \in Seq(Servers) /\ m.default \in Int /\ m.processed \in Int
  BY InvFacts, ModelFacts
<1>5. m.default + 1 = m.processed + 1
  BY <1>2, <1>3, <1>4, ListFacts DEF IsAt, AllDifferent
<1>6. InUse
  BY <1>4, <1>5 DEF InUse
<1>7. ~Restart /\ ~EndInRemoval /\ ~EndInAddition /\ ~EndInRestore
  BY <1>1 DEF Restart, EndInRemoval, EndInAddition, EndInRestore, EndBetween, StartAgain
<1>. QED
  BY <1>6, <1>7 DEF Removal, RemoveProcessedServer, RestoreAppConfig, ClearSettings

\* Removing another server keeps the default one, whose place may change.
THEOREM RemovalKeepsDefault == Spec => DefaultKept
<1>. DEFINE Keeps == RemoveProcessedServer /\ m.default # m.processed /\ "raced" \notin hist =>
                       Default(m').id = Default(m).id
<1>1. ServersInv /\ [Next]_vars => [Keeps]_vars
  BY RemovedDefault
<1>. QED  BY <1>1, ServersInvariant, PTL DEF Spec, DefaultKept

\* A server leaves the list only when the user removes it, resets or restores the
\* settings, or starts the program again, unless a reply or a worker wrote to the
\* wrong place, a worker an outdated list, or a reply could not be read.
THEOREM RemovedOnPurpose == Spec => OnlyRemovalRemoves
<1>. DEFINE Leaves == \/ Listed(m.servers) \subseteq Listed(m'.servers)
                      \/ RemoveProcessedServer \/ RestoreAppConfig \/ ClearSettings
                      \/ Restart \/ EndInRemoval \/ EndInAddition \/ EndInRestore
                      \/ hist' \cap {"shifted", "raced", "garbled"} # {}
<1>1. ServersInv /\ Next => Leaves
  <2>. SUFFICES ASSUME ServersInv, Next  PROVE Leaves
    OBVIOUS
  <2>1. hist \subseteq hist'
    BY NextStep DEF Preserved
  <2>. QED  BY <2>1, ListedLasts DEF Removal, Calm
<1>2. ServersInv /\ [Next]_vars => [Leaves]_vars
  BY <1>1
<1>. QED  BY <1>2, ServersInvariant, PTL DEF Spec, OnlyRemovalRemoves

\* The server in use stays in the list as long as it has always been the default
\* and the processed one, unless a late or unreadable reply took its place or a
\* worker put back an outdated list.
THEOREM UsedServerStays == Spec => UsedServerKept
<1>. DEFINE Stays == /\ state = "on" /\ hist \cap {"moved", "shifted", "raced"} = {}
                     /\ "garbled" \notin hist'
                     /\ tunnel.server \in Listed(m.servers) /\ tunnel' = tunnel
                     => tunnel.server \in Listed(m'.servers)
<1>1. ServersInv /\ Next => Stays
  <2>. SUFFICES ASSUME ServersInv, Next, state = "on",
                       hist \cap {"moved", "shifted", "raced"} = {}, "garbled" \notin hist',
                       tunnel.server \in Listed(m.servers), tunnel' = tunnel
                PROVE  tunnel.server \in Listed(m'.servers)
    OBVIOUS
  <2>1. hist \subseteq hist'
    BY NextStep DEF Preserved
  <2>2. Calm(hist') /\ Calm(hist) /\ "moved" \notin hist
    BY <2>1 DEF Calm
  <2>3. ~Removal
    BY <2>2, UsedNotRemoved
  <2>. QED  BY <2>2, <2>3, ListedLasts
<1>2. ServersInv /\ [Next]_vars => [Stays]_vars
  BY <1>1
<1>. QED  BY <1>2, ServersInvariant, PTL DEF Spec, UsedServerKept
=============================================================================
