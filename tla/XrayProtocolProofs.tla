------------------------ MODULE XrayProtocolProofs -------------------------
(* Proofs about XrayProtocol, for every number of connects and disconnects.  *)
EXTENDS XrayProtocol, SequenceTheorems, TLAPS

-----------------------------------------------------------------------------
(* Sequences, by index *)

LEMMA AppendSeq ==
  ASSUME NEW S, NEW q \in Seq(S), NEW e \in S
  PROVE  /\ Append(q, e) \in Seq(S) /\ Len(q) \in Nat
         /\ Len(Append(q, e)) = Len(q) + 1
         /\ Append(q, e)[Len(q) + 1] = e
         /\ \A i \in 1 .. Len(q) : Append(q, e)[i] = q[i]
OBVIOUS

LEMMA TailSeq ==
  ASSUME NEW S, NEW q \in Seq(S), q # <<>>
  PROVE  /\ Tail(q) \in Seq(S) /\ Head(q) \in S /\ Head(q) = q[1]
         /\ Len(q) \in Nat \ {0} /\ Len(Tail(q)) = Len(q) - 1
         /\ \A i \in 1 .. Len(q) - 1 : Tail(q)[i] = q[i + 1]
OBVIOUS

LEMMA FrontSeq ==
  ASSUME NEW S, NEW q \in Seq(S), q # <<>>
  PROVE  /\ Front(q) \in Seq(S) /\ Last(q) \in S /\ Last(q) = q[Len(q)]
         /\ Len(q) \in Nat \ {0} /\ Len(Front(q)) = Len(q) - 1
         /\ \A i \in 1 .. Len(q) - 1 : Front(q)[i] = q[i]
<1>1. Last(q) \in S /\ Last(q) = q[Len(q)] /\ Len(q) \in Nat \ {0}
  BY DEF Last
<1>2. Front(q) \in Seq(S) /\ Len(Front(q)) = Len(q) - 1
  BY DEF Front
<1>3. \A i \in 1 .. Len(q) - 1 : Front(q)[i] = q[i]
  BY DEF Front
<1>. QED  BY <1>1, <1>2, <1>3

\* What is concatenated in the model is a few calls, appended one by one.
LEMMA ConcatOne ==
  ASSUME NEW S, NEW q \in Seq(S), NEW a \in S
  PROVE  q \o <<a>> = Append(q, a)
OBVIOUS

LEMMA ConcatTwo ==
  ASSUME NEW S, NEW q \in Seq(S), NEW a \in S, NEW b \in S
  PROVE  q \o <<a, b>> = Append(Append(q, a), b)
OBVIOUS

LEMMA ConcatThree ==
  ASSUME NEW S, NEW q \in Seq(S), NEW a \in S, NEW b \in S, NEW c \in S
  PROVE  q \o <<a, b, c>> = Append(Append(Append(q, a), b), c)
OBVIOUS

-----------------------------------------------------------------------------
(* What a sequence holds, and in which order *)

LEMMA HoldsNone ==
  ASSUME NEW x, NEW ops
  PROVE  /\ ~Contains(<<>>, x) /\ Once(<<>>, x) /\ NoneOf(<<>>, ops)
         /\ NoneAfter(<<>>, x, ops) /\ ~LastOf(<<>>, ops, x) /\ ~ClosedLast(<<>>, x)
BY DEF Contains, Once, NoneOf, NoneAfter, LastOf, ClosedLast

LEMMA HoldsAppend ==
  ASSUME NEW S, NEW q \in Seq(S), NEW e \in S
  PROVE  /\ \A x : Contains(Append(q, e), x) <=> Contains(q, x) \/ x = e
         /\ \A x : Once(q, x) /\ (x # e \/ ~Contains(q, x)) => Once(Append(q, e), x)
<1>1. \A x : Contains(Append(q, e), x) <=> Contains(q, x) \/ x = e
  BY AppendSeq DEF Contains
<1>2. \A x : Once(q, x) /\ (x # e \/ ~Contains(q, x)) => Once(Append(q, e), x)
  BY AppendSeq DEF Contains, Once
<1>. QED  BY <1>1, <1>2

LEMMA HoldsTail ==
  ASSUME NEW S, NEW q \in Seq(S), q # <<>>
  PROVE  /\ \A x : Contains(q, x) <=> Contains(Tail(q), x) \/ x = Head(q)
         /\ \A x : Once(q, x) => Once(Tail(q), x)
         /\ Once(q, Head(q)) => ~Contains(Tail(q), Head(q))
<1>. DEFINE r == Tail(q)
<1>1. /\ Head(q) = q[1] /\ Len(q) \in Nat \ {0} /\ Len(r) = Len(q) - 1
      /\ \A i \in 1 .. Len(q) - 1 : r[i] = q[i + 1]
  BY TailSeq
<1>. HIDE DEF r
<1>2. ASSUME NEW x
      PROVE  Contains(q, x) <=> Contains(r, x) \/ x = Head(q)
  <2>1. ASSUME Contains(q, x), x # Head(q)
        PROVE  Contains(r, x)
    <3>1. PICK i \in 1 .. Len(q) : q[i] = x
      BY <2>1 DEF Contains
    <3>2. i - 1 \in 1 .. Len(r) /\ r[i - 1] = x
      BY <1>1, <2>1, <3>1
    <3>. QED  BY <3>2 DEF Contains
  <2>2. ASSUME Contains(r, x) \/ x = Head(q)
        PROVE  Contains(q, x)
    BY <1>1, <2>2 DEF Contains
  <2>. QED  BY <2>1, <2>2
<1>3. \A x : Once(q, x) => Once(r, x)
  BY <1>1 DEF Once
<1>4. Once(q, Head(q)) => ~Contains(r, Head(q))
  BY <1>1 DEF Once, Contains
<1>. QED  BY <1>2, <1>3, <1>4 DEF r

LEMMA HoldsFront ==
  ASSUME NEW S, NEW q \in Seq(S), q # <<>>
  PROVE  /\ \A x : Contains(q, x) <=> Contains(Front(q), x) \/ x = Last(q)
         /\ \A x : Once(q, x) => Once(Front(q), x)
         /\ Once(q, Last(q)) => ~Contains(Front(q), Last(q))
<1>1. /\ Last(q) = q[Len(q)] /\ Len(q) \in Nat \ {0} /\ Len(Front(q)) = Len(q) - 1
      /\ \A i \in 1 .. Len(q) - 1 : Front(q)[i] = q[i]
  BY FrontSeq
<1>2. \A x : Contains(q, x) <=> Contains(Front(q), x) \/ x = Last(q)
  BY <1>1 DEF Contains
<1>3. \A x : Once(q, x) => Once(Front(q), x)
  BY <1>1 DEF Once
<1>4. Once(q, Last(q)) => ~Contains(Front(q), Last(q))
  BY <1>1 DEF Once, Contains
<1>. QED  BY <1>2, <1>3, <1>4

LEMMA OpsAppend ==
  ASSUME NEW S, NEW q \in Seq(S), NEW e \in S, NEW ops
  PROVE  /\ NoneOf(q, ops) /\ e.op \notin ops => NoneOf(Append(q, e), ops)
         /\ LastOf(Append(q, e), ops, e)
         /\ \A c : LastOf(q, ops, c) /\ e.op \notin ops => LastOf(Append(q, e), ops, c)
         /\ \A x : NoneAfter(q, x, ops) /\ (e.op \notin ops \/ ~Contains(q, x))
                     => NoneAfter(Append(q, e), x, ops)
         /\ \A x : NoneOf(q, ops) => NoneAfter(q, x, ops)
<1>1. NoneOf(q, ops) /\ e.op \notin ops => NoneOf(Append(q, e), ops)
  BY AppendSeq DEF NoneOf
<1>2. LastOf(Append(q, e), ops, e)
  BY AppendSeq DEF LastOf
<1>3. \A c : LastOf(q, ops, c) /\ e.op \notin ops => LastOf(Append(q, e), ops, c)
  BY AppendSeq DEF LastOf
<1>4. \A x : NoneAfter(q, x, ops) /\ (e.op \notin ops \/ ~Contains(q, x))
               => NoneAfter(Append(q, e), x, ops)
  BY AppendSeq DEF NoneAfter, Contains
<1>5. \A x : NoneOf(q, ops) => NoneAfter(q, x, ops)
  BY DEF NoneOf, NoneAfter
<1>. QED  BY <1>1, <1>2, <1>3, <1>4, <1>5

LEMMA OpsTail ==
  ASSUME NEW S, NEW q \in Seq(S), q # <<>>, NEW ops
  PROVE  /\ NoneOf(q, ops) => Head(q).op \notin ops /\ NoneOf(Tail(q), ops)
         /\ \A c : LastOf(q, ops, c) =>
              LastOf(Tail(q), ops, c) \/ (Head(q) = c /\ NoneOf(Tail(q), ops))
         /\ \A x : NoneAfter(q, x, ops) => NoneAfter(Tail(q), x, ops)
         /\ NoneAfter(q, Head(q), ops) => NoneOf(Tail(q), ops)
<1>. DEFINE r == Tail(q)
<1>1. /\ Head(q) = q[1] /\ Len(q) \in Nat \ {0} /\ Len(r) = Len(q) - 1
      /\ \A i \in 1 .. Len(q) - 1 : r[i] = q[i + 1]
  BY TailSeq
<1>. HIDE DEF r
<1>2. NoneOf(q, ops) => Head(q).op \notin ops /\ NoneOf(r, ops)
  BY <1>1 DEF NoneOf
<1>3. ASSUME NEW c, LastOf(q, ops, c)
      PROVE  LastOf(r, ops, c) \/ (Head(q) = c /\ NoneOf(r, ops))
  <2>1. PICK i \in 1 .. Len(q) :
          q[i] = c /\ \A j \in 1 .. Len(q) : i < j => q[j].op \notin ops
    BY <1>3 DEF LastOf
  <2>2. CASE i = 1
    BY <1>1, <2>1, <2>2 DEF NoneOf
  <2>3. CASE i # 1
    <3>1. i - 1 \in 1 .. Len(r) /\ r[i - 1] = c
      BY <1>1, <2>1, <2>3
    <3>2. \A j \in 1 .. Len(r) : i - 1 < j => r[j].op \notin ops
      BY <1>1, <2>1
    <3>. QED  BY <3>1, <3>2 DEF LastOf
  <2>. QED  BY <2>2, <2>3
<1>4. \A x : NoneAfter(q, x, ops) => NoneAfter(r, x, ops)
  BY <1>1 DEF NoneAfter
<1>5. NoneAfter(q, Head(q), ops) => NoneOf(r, ops)
  BY <1>1 DEF NoneAfter, NoneOf
<1>. QED  BY <1>2, <1>3, <1>4, <1>5 DEF r

LEMMA ClosedAppend ==
  ASSUME NEW S, NEW q \in Seq(S), NEW e \in S, NEW p
  PROVE  /\ e = CloseCall(p) => ClosedLast(Append(q, e), p)
         /\ ClosedLast(q, p) /\ e # StartCall(p) => ClosedLast(Append(q, e), p)
<1>1. e = CloseCall(p) => ClosedLast(Append(q, e), p)
  BY AppendSeq DEF ClosedLast
<1>2. ClosedLast(q, p) /\ e # StartCall(p) => ClosedLast(Append(q, e), p)
  BY AppendSeq DEF ClosedLast
<1>. QED  BY <1>1, <1>2

LEMMA ClosedTail ==
  ASSUME NEW S, NEW q \in Seq(S), q # <<>>, NEW p, ClosedLast(q, p)
  PROVE  \/ ClosedLast(Tail(q), p)
         \/ Head(q) = CloseCall(p) /\ ~Contains(Tail(q), StartCall(p))
<1>. DEFINE r == Tail(q)
<1>1. /\ Head(q) = q[1] /\ Len(q) \in Nat \ {0} /\ Len(r) = Len(q) - 1
      /\ \A i \in 1 .. Len(q) - 1 : r[i] = q[i + 1]
  BY TailSeq
<1>. HIDE DEF r
<1>2. PICK i \in 1 .. Len(q) :
        q[i] = CloseCall(p) /\ \A j \in 1 .. Len(q) : i < j => q[j] # StartCall(p)
  BY DEF ClosedLast
<1>3. CASE i = 1
  BY <1>1, <1>2, <1>3 DEF Contains, r
<1>4. CASE i # 1
  <2>1. i - 1 \in 1 .. Len(r) /\ r[i - 1] = CloseCall(p)
    BY <1>1, <1>2, <1>4
  <2>2. \A j \in 1 .. Len(r) : i - 1 < j => r[j] # StartCall(p)
    BY <1>1, <1>2
  <2>3. ClosedLast(r, p)
    BY <2>1, <2>2 DEF ClosedLast
  <2>. QED  BY <2>3 DEF r
<1>. QED  BY <1>3, <1>4

-----------------------------------------------------------------------------
(* Types *)

PCalls == [op : {"start", "close"}, p : Protocols]
Signals == {"Running", "finished"}
Stages == {"none", "created", "running", "failed", "ended"}

LEMMA Typed ==
  ASSUME XrayInv
  PROVE  /\ queue \in Seq(0..MaxOpens) /\ waits \in Seq(Waits)
         /\ calls \in Seq(Calls) /\ pcalls \in Seq(PCalls)
         /\ signals \in [Protocols -> Seq(Signals)]
         /\ \A p \in Protocols : signals[p] \in Seq(Signals)
         /\ t2s \in [Protocols -> Stages]
         /\ MaxOpens \in Nat /\ opens \in 0..MaxOpens /\ protocol \in 0..MaxOpens
BY BoundsAssumption DEF XrayInv, TypeOK, PCalls, Signals, Stages

LEMMA Ways ==
  ASSUME XrayInv
  PROVE  \A p \in Protocols : OneWay(p) /\ SignalsInOrder(p)
BY DEF XrayInv

LEMMA NumberOf ==
  /\ \A p \in Protocols : p \in 0..MaxOpens /\ p # 0 /\ p \in Int
  /\ \A p \in 0..MaxOpens : p # 0 => p \in Protocols
BY BoundsAssumption DEF Protocols

LEMMA WaitKinds ==
  /\ \A p \in Protocols : InitWait(p) \in Waits /\ CreateWait(p) \in Waits
  /\ ClearWait \in Waits
  /\ \A p, n : /\ InitWait(p) = InitWait(n) <=> p = n
               /\ CreateWait(p) = CreateWait(n) <=> p = n
               /\ InitWait(p) # CreateWait(n)
  /\ \A p : InitWait(p) # ClearWait /\ CreateWait(p) # ClearWait
  /\ \A w \in Waits :
       /\ w.for = "init" => w.p \in Protocols /\ w = InitWait(w.p)
       /\ w.for = "create" => w.p \in Protocols /\ w = CreateWait(w.p)
       /\ w.for = "clear" => w = ClearWait
<1>1. /\ \A p \in Protocols : InitWait(p) \in Waits /\ CreateWait(p) \in Waits
      /\ ClearWait \in Waits
  BY DEF InitWait, CreateWait, ClearWait, Waits
<1>2. \A p, n : /\ InitWait(p) = InitWait(n) <=> p = n
                /\ CreateWait(p) = CreateWait(n) <=> p = n
                /\ InitWait(p) # CreateWait(n)
  BY DEF InitWait, CreateWait
<1>3. \A p : InitWait(p) # ClearWait /\ CreateWait(p) # ClearWait
  BY DEF InitWait, CreateWait, ClearWait
<1>4. ASSUME NEW w \in Waits
      PROVE  /\ w.for = "init" => w.p \in Protocols /\ w = InitWait(w.p)
             /\ w.for = "create" => w.p \in Protocols /\ w = CreateWait(w.p)
             /\ w.for = "clear" => w = ClearWait
  BY <1>4 DEF InitWait, CreateWait, ClearWait, Waits
<1>. QED  BY <1>1, <1>2, <1>3, <1>4

LEMMA PCallKinds ==
  /\ \A p \in Protocols : StartCall(p) \in PCalls /\ CloseCall(p) \in PCalls
  /\ \A p, n : /\ StartCall(p) = StartCall(n) <=> p = n
               /\ CloseCall(p) = CloseCall(n) <=> p = n
               /\ StartCall(p) # CloseCall(n)
  /\ \A c \in PCalls :
       /\ c.p \in Protocols
       /\ c.op = "start" => c = StartCall(c.p)
       /\ c.op = "close" => c = CloseCall(c.p)
BY DEF StartCall, CloseCall, CallFor, PCalls

LEMMA CallKinds ==
  /\ \A p \in Protocols : CreateCall(p) \in Calls /\ CallFor("enableKillSwitch", p) \in Calls
  /\ \A o \in {"disableKillSwitch", "StartRoutingIpv6", "StopRoutingIpv6", "createTun",
               "deleteTun", "clearSavedRoutes"} : Call(o) \in Calls
  /\ \A r \in Routes : RouteAdd(r) \in Calls
  /\ \A o : Call(o).op = o
  /\ \A o, p : CallFor(o, p).op = o /\ CallFor(o, p).p = p
  /\ \A p : CreateCall(p).op = "createPrivilegedProcess"
  /\ \A r : RouteAdd(r).op = "routeAddList"
  /\ \A p, n : CreateCall(p) = CreateCall(n) <=> p = n
<1>1. /\ \A p \in Protocols : CreateCall(p) \in Calls /\ CallFor("enableKillSwitch", p) \in Calls
      /\ \A o \in {"disableKillSwitch", "StartRoutingIpv6", "StopRoutingIpv6", "createTun",
                   "deleteTun", "clearSavedRoutes"} : Call(o) \in Calls
  BY DEF CreateCall, CallFor, Call, Calls
<1>2. \A r \in Routes : RouteAdd(r) \in Calls
  BY DEF RouteAdd, Calls
<1>3. /\ \A o : Call(o).op = o
      /\ \A o, p : CallFor(o, p).op = o /\ CallFor(o, p).p = p
      /\ \A p : CreateCall(p).op = "createPrivilegedProcess"
      /\ \A r : RouteAdd(r).op = "routeAddList"
      /\ \A p, n : CreateCall(p) = CreateCall(n) <=> p = n
  BY DEF CreateCall, CallFor, Call, RouteAdd
<1>. QED  BY <1>1, <1>2, <1>3

LEMMA CallParts ==
  ASSUME NEW c \in Calls
  PROVE  /\ c.op = "createPrivilegedProcess" => c.p \in Protocols /\ c = CreateCall(c.p)
         /\ c.op = "enableKillSwitch" => c.p \in Protocols
         /\ c.op = "routeAddList" => c.route \in Routes
BY DEF Calls, CreateCall, CallFor

LEMMA RouteKinds ==
  /\ DefaultRoute \in Routes /\ DnsRoute \in Routes
  /\ \A p \in Protocols : ServerRoute(p) \in Routes
BY DEF Routes, TunRoutes

-----------------------------------------------------------------------------
(* The user *)

LEMMA SignalsKept ==
  ASSUME XrayInv, UNCHANGED <<t2s, signals>>
  PROVE  \A p \in Protocols : SignalsInOrder(p)'
BY DEF XrayInv, SignalsInOrder

\* Only the queue has changed.
LEMMA RestKept ==
  ASSUME XrayInv,
         UNCHANGED <<waits, clientVars, calls, pcalls, signals, t2s, kernelVars, histVars>>
  PROVE  /\ \A p \in Protocols : SignalsInOrder(p)'
         /\ SeenOnce' /\ StopsBefore' /\ EndsWell'
<1>. USE DEF clientVars, kernelVars, histVars
<1>1. \A p \in Protocols : SignalsInOrder(p)'
  BY SignalsKept
<1>2. SeenOnce'
  BY DEF XrayInv, SeenOnce, Coming
<1>3. StopsBefore'
  BY DEF XrayInv, StopsBefore, Coming
<1>4. EndsWell'
  BY DEF XrayInv, EndsWell, SwitchGoes, Ipv6Returns, RoutesGo, SwitchComes, Ipv6Stops, Owned
<1>. QED  BY <1>1, <1>2, <1>3, <1>4

LEMMA StepOpen ==
  ASSUME XrayInv, UserStep, OpenConnection
  PROVE  XrayInv'
<1>. DEFINE n == opens + 1
<1>1. /\ opens' = n /\ queue' = Append(queue, n) /\ UNCHANGED <<closes, ipc>>
      /\ n \in Protocols /\ n \in 0..MaxOpens
      /\ UNCHANGED <<waits, clientVars, calls, pcalls, signals, t2s, kernelVars, histVars>>
  BY Typed DEF OpenConnection, UserStep, Protocols
<1>2. queue' \in Seq(0..MaxOpens)
  BY <1>1, Typed, AppendSeq
<1>3. TypeOK'
  BY <1>1, <1>2 DEF XrayInv, TypeOK, clientVars, kernelVars, histVars
<1>. HIDE DEF n
<1>4. /\ \A p : Contains(queue', p) <=> Contains(queue, p) \/ p = n
      /\ \A p : Once(queue, p) /\ (p # n \/ ~Contains(queue, p)) => Once(queue', p)
  <2>1. queue \in Seq(0..MaxOpens) /\ n \in 0..MaxOpens /\ queue' = Append(queue, n)
    BY <1>1, Typed
  <2>. QED  BY <2>1, HoldsAppend
<1>5. ~Contains(queue, n) /\ ~Contains(waits, InitWait(n)) /\ Unmade(n)
  BY <1>1, Typed, Ways DEF OneWay, n
<1>6. ASSUME NEW p \in Protocols
      PROVE  OneWay(p)'
  <2>1. p > n => p > opens /\ p # n
    BY Typed, NumberOf DEF n
  <2>2. OneWay(p)
    BY Ways
  <2>. QED
    BY <1>1, <1>4, <1>5, <2>1, <2>2 DEF OneWay, Unmade, clientVars
<1>. QED  BY <1>1, <1>3, <1>6, RestKept DEF XrayInv

LEMMA StepClose ==
  ASSUME XrayInv, UserStep, CloseConnection
  PROVE  XrayInv'
<1>1. /\ queue' = Append(queue, 0) /\ UNCHANGED <<opens, ipc>> /\ 0 \in 0..MaxOpens
      /\ closes' \in 0..MaxCloses
      /\ UNCHANGED <<waits, clientVars, calls, pcalls, signals, t2s, kernelVars, histVars>>
  BY Typed, BoundsAssumption DEF CloseConnection, UserStep, XrayInv, TypeOK
<1>2. queue' \in Seq(0..MaxOpens)
  BY <1>1, Typed, AppendSeq
<1>3. TypeOK'
  BY <1>1, <1>2 DEF XrayInv, TypeOK, clientVars, kernelVars, histVars
<1>4. \A p \in Protocols :
        (Contains(queue', p) <=> Contains(queue, p)) /\ (Once(queue, p) => Once(queue', p))
  BY <1>1, Typed, HoldsAppend, NumberOf
<1>5. ASSUME NEW p \in Protocols
      PROVE  OneWay(p)'
  BY <1>1, <1>4, Ways DEF OneWay, Unmade, clientVars
<1>. QED  BY <1>1, <1>3, <1>5, RestKept DEF XrayInv

-----------------------------------------------------------------------------
(* VpnConnection and XrayProtocol *)

LEMMA StepInitIpc ==
  ASSUME XrayInv, InitIpcClient
  PROVE  XrayInv'
<1>. DEFINE n == Head(queue)
            w == InitWait(n)
<1>0. queue # <<>> /\ n # 0 /\ queue' = Tail(queue) /\ ipc' = TRUE /\ waits' = Append(waits, w)
  BY DEF InitIpcClient, InitWait
<1>1. UNCHANGED <<opens, closes, clientVars, calls, pcalls, signals, t2s, kernelVars, histVars>>
  BY DEF InitIpcClient
<1>2. n \in Protocols /\ w \in Waits /\ queue' \in Seq(0..MaxOpens)
  BY <1>0, Typed, TailSeq, NumberOf, WaitKinds
<1>3. waits' \in Seq(Waits)
  BY <1>0, <1>2, Typed, AppendSeq
<1>4. TypeOK'
  BY <1>0, <1>1, <1>2, <1>3 DEF XrayInv, TypeOK, clientVars, kernelVars, histVars
<1>5. /\ \A p : Contains(queue, p) <=> Contains(queue', p) \/ p = n
      /\ \A p : Once(queue, p) => Once(queue', p)
      /\ Once(queue, n) => ~Contains(queue', n)
  BY <1>0, Typed, HoldsTail
<1>6. /\ \A p : Contains(waits', InitWait(p)) <=> Contains(waits, InitWait(p)) \/ p = n
      /\ \A p : Contains(waits', CreateWait(p)) <=> Contains(waits, CreateWait(p))
      /\ Contains(waits', ClearWait) <=> Contains(waits, ClearWait)
      /\ \A p : Once(waits, CreateWait(p)) => Once(waits', CreateWait(p))
      /\ \A p : Once(waits, InitWait(p)) /\ (p # n \/ ~Contains(waits, InitWait(p)))
                  => Once(waits', InitWait(p))
  <2>. HIDE DEF n
  <2>1. /\ \A x : Contains(waits', x) <=> Contains(waits, x) \/ x = w
        /\ \A x : Once(waits, x) /\ (x # w \/ ~Contains(waits, x)) => Once(waits', x)
    BY <1>0, <1>2, Typed, HoldsAppend
  <2>. QED  BY <2>1, WaitKinds
<1>. HIDE DEF n, w
<1>7. OneWay(n)
  BY <1>2, Ways
<1>8. ASSUME NEW p \in Protocols
      PROVE  OneWay(p)'
  <2>1. OneWay(p)
    BY Ways
  <2>2. CASE p = n
    BY <1>1, <1>5, <1>6, <2>1, <2>2 DEF OneWay, Unmade, clientVars
  <2>3. CASE p # n
    BY <1>1, <1>5, <1>6, <2>1, <2>3 DEF OneWay, Unmade, clientVars
  <2>. QED  BY <2>2, <2>3
<1>9. \A p \in Protocols : SignalsInOrder(p)'
  BY <1>1, SignalsKept
<1>10. SeenOnce' /\ StopsBefore'
  BY <1>1, <1>6 DEF XrayInv, SeenOnce, StopsBefore, Coming, clientVars, histVars
<1>11. EndsWell'
  BY <1>1, <1>6 DEF XrayInv, EndsWell, SwitchGoes, Ipv6Returns, RoutesGo, SwitchComes, Ipv6Stops,
    Owned, clientVars, kernelVars, histVars
<1>. QED  BY <1>4, <1>8, <1>9, <1>10, <1>11 DEF XrayInv

\* What stop() writes.
LEMMA StopCallsAdded ==
  ASSUME NEW q \in Seq(Calls)
  PROVE  /\ q \o StopCalls \in Seq(Calls)
         /\ \A p : Contains(q \o StopCalls, CreateCall(p)) <=> Contains(q, CreateCall(p))
         /\ \A p : Once(q, CreateCall(p)) => Once(q \o StopCalls, CreateCall(p))
         /\ \A p : NoneAfter(q, CreateCall(p), StopOps) /\ ~Contains(q, CreateCall(p))
                     => NoneAfter(q \o StopCalls, CreateCall(p), StopOps)
         /\ LastOf(q \o StopCalls, SwitchOps, Call("disableKillSwitch"))
         /\ LastOf(q \o StopCalls, Ipv6Ops, Call("StartRoutingIpv6"))
         /\ NoneOf(q, RouteOps) => NoneOf(q \o StopCalls, RouteOps)
         /\ \A c : LastOf(q, RouteOps, c) => LastOf(q \o StopCalls, RouteOps, c)
<1>. DEFINE d == Call("disableKillSwitch")
            s == Call("StartRoutingIpv6")
            r == Append(q, d)
            u == Append(r, s)
<1>1. /\ d \in Calls /\ s \in Calls /\ d.op = "disableKillSwitch" /\ s.op = "StartRoutingIpv6"
      /\ \A p : CreateCall(p) # d /\ CreateCall(p) # s
  BY CallKinds
<1>2. q \o StopCalls = u
  BY <1>1, ConcatTwo DEF StopCalls
<1>. HIDE DEF d, s
<1>3. r \in Seq(Calls) /\ u \in Seq(Calls)
  BY <1>1, AppendSeq
<1>4. \A x : /\ Contains(r, x) <=> Contains(q, x) \/ x = d
             /\ Once(q, x) /\ x # d => Once(r, x)
  BY <1>1, HoldsAppend
<1>5. \A ops : /\ NoneOf(q, ops) /\ d.op \notin ops => NoneOf(r, ops)
               /\ LastOf(r, ops, d)
               /\ \A c : LastOf(q, ops, c) /\ d.op \notin ops => LastOf(r, ops, c)
               /\ \A x : NoneAfter(q, x, ops) /\ ~Contains(q, x) => NoneAfter(r, x, ops)
  BY <1>1, OpsAppend
<1>. HIDE DEF r
<1>6. \A x : /\ Contains(u, x) <=> Contains(r, x) \/ x = s
             /\ Once(r, x) /\ x # s => Once(u, x)
  BY <1>1, <1>3, HoldsAppend
<1>7. \A ops : /\ NoneOf(r, ops) /\ s.op \notin ops => NoneOf(u, ops)
               /\ LastOf(u, ops, s)
               /\ \A c : LastOf(r, ops, c) /\ s.op \notin ops => LastOf(u, ops, c)
               /\ \A x : NoneAfter(r, x, ops) /\ ~Contains(r, x) => NoneAfter(u, x, ops)
  BY <1>1, <1>3, OpsAppend
<1>. HIDE DEF u
<1>8. /\ d.op \notin RouteOps /\ s.op \notin RouteOps /\ s.op \notin SwitchOps
      /\ s.op \notin StopOps
  BY <1>1 DEF RouteOps, SwitchOps, StopOps
<1>9. /\ \A p : Contains(u, CreateCall(p)) <=> Contains(q, CreateCall(p))
      /\ \A p : Once(q, CreateCall(p)) => Once(u, CreateCall(p))
      /\ \A p : NoneAfter(q, CreateCall(p), StopOps) /\ ~Contains(q, CreateCall(p))
                  => NoneAfter(u, CreateCall(p), StopOps)
  BY <1>1, <1>4, <1>5, <1>6, <1>7
<1>10. /\ LastOf(u, SwitchOps, d) /\ LastOf(u, Ipv6Ops, s)
       /\ NoneOf(q, RouteOps) => NoneOf(u, RouteOps)
       /\ \A c : LastOf(q, RouteOps, c) => LastOf(u, RouteOps, c)
  BY <1>5, <1>7, <1>8
<1>. QED  BY <1>2, <1>3, <1>9, <1>10 DEF d, s

\* A call that neither makes a process nor stops anything.
LEMMA CallAdded ==
  ASSUME NEW q \in Seq(Calls), NEW e \in Calls,
         e.op # "createPrivilegedProcess", e.op # "disableKillSwitch"
  PROVE  /\ Append(q, e) \in Seq(Calls)
         /\ \A p : Contains(Append(q, e), CreateCall(p)) <=> Contains(q, CreateCall(p))
         /\ \A p : Once(q, CreateCall(p)) => Once(Append(q, e), CreateCall(p))
         /\ \A p : NoneAfter(q, CreateCall(p), StopOps)
                     => NoneAfter(Append(q, e), CreateCall(p), StopOps)
         /\ NoneOf(q, StopOps) => NoneOf(Append(q, e), StopOps)
<1>1. \A p : CreateCall(p) # e
  BY CallKinds
<1>2. e.op \notin StopOps
  BY DEF StopOps
<1>3. /\ Append(q, e) \in Seq(Calls)
      /\ NoneOf(q, StopOps) => NoneOf(Append(q, e), StopOps)
      /\ \A x : NoneAfter(q, x, StopOps) => NoneAfter(Append(q, e), x, StopOps)
  BY <1>2, AppendSeq, OpsAppend
<1>4. \A x : /\ Contains(Append(q, e), x) <=> Contains(q, x) \/ x = e
             /\ Once(q, x) /\ x # e => Once(Append(q, e), x)
  BY HoldsAppend
<1>. QED  BY <1>1, <1>3, <1>4

\* What the running of tun2socks has the client write.
LEMMA SetUpAdded ==
  ASSUME NEW q \in Seq(Calls), NEW n \in Protocols
  PROVE  LET u == q \o SetUpCalls(n)
         IN  /\ u \in Seq(Calls)
             /\ \A p : Contains(u, CreateCall(p)) <=> Contains(q, CreateCall(p))
             /\ \A p : Once(q, CreateCall(p)) => Once(u, CreateCall(p))
             /\ \A p : NoneAfter(q, CreateCall(p), StopOps)
                         => NoneAfter(u, CreateCall(p), StopOps)
             /\ NoneOf(q, StopOps) => NoneOf(u, StopOps)
             /\ n \in Guarded => LastOf(u, SwitchOps, CallFor("enableKillSwitch", n))
             /\ LastOf(u, Ipv6Ops, Call("StopRoutingIpv6"))
<1>. DEFINE a == Call("createTun")
            b == CallFor("enableKillSwitch", n)
            c == RouteAdd(DefaultRoute)
            d == RouteAdd(ServerRoute(n))
            e == Call("StopRoutingIpv6")
            q1 == Append(q, a)
            q2 == IF n \in Guarded THEN Append(q1, b) ELSE q1
            q3 == Append(q2, c)
            q4 == Append(q3, d)
            u == Append(q4, e)
<1>1. /\ a \in Calls /\ b \in Calls /\ c \in Calls /\ d \in Calls /\ e \in Calls
      /\ a.op = "createTun" /\ b.op = "enableKillSwitch" /\ c.op = "routeAddList"
      /\ d.op = "routeAddList" /\ e.op = "StopRoutingIpv6"
  BY CallKinds, RouteKinds
<1>2. q \o SetUpCalls(n) = u
  <2>. DEFINE B == SwitchCalls(n)
  <2>1. <<a>> \in Seq(Calls) /\ <<c, d, e>> \in Seq(Calls) /\ B \in Seq(Calls)
    <3>1. B = <<b>> \/ B = <<>>
      BY DEF SwitchCalls
    <3>2. <<b>> \in Seq(Calls) /\ <<>> \in Seq(Calls)
      BY <1>1
    <3>3. <<a>> \in Seq(Calls) /\ <<c, d, e>> \in Seq(Calls)
      BY <1>1
    <3>. QED  BY <3>1, <3>2, <3>3
  <2>. HIDE DEF a, b, c, d, e, B
  <2>2. q \o (<<a>> \o B \o <<c, d, e>>) = q \o <<a>> \o B \o <<c, d, e>>
    <3>1. <<a>> \o B \in Seq(Calls)
      BY <2>1
    <3>2. q \o (<<a>> \o B \o <<c, d, e>>) = (q \o (<<a>> \o B)) \o <<c, d, e>>
      BY <2>1, <3>1, ConcatAssociative
    <3>3. q \o (<<a>> \o B) = q \o <<a>> \o B
      BY <2>1, ConcatAssociative
    <3>. QED  BY <3>2, <3>3
  <2>3. q \o <<a>> = q1 /\ q1 \in Seq(Calls)
    BY <1>1, ConcatOne
  <2>. HIDE DEF q1
  <2>4. q1 \o B = q2 /\ q2 \in Seq(Calls)
    <3>1. CASE n \in Guarded
      <4>1. B = <<b>>
        BY <3>1 DEF B, SwitchCalls, b
      <4>. QED  BY <1>1, <2>3, <3>1, <4>1, ConcatOne
    <3>2. CASE n \notin Guarded
      <4>1. B = <<>>
        BY <3>2 DEF B, SwitchCalls
      <4>. QED  BY <2>3, <3>2, <4>1, ConcatEmptySeq
    <3>. QED  BY <3>1, <3>2
  <2>. HIDE DEF q2
  <2>5. q2 \o <<c, d, e>> = u
    BY <1>1, <2>4, ConcatThree
  <2>6. SetUpCalls(n) = <<a>> \o B \o <<c, d, e>>
    BY DEF SetUpCalls, a, c, d, e, B
  <2>. QED  BY <2>2, <2>3, <2>4, <2>5, <2>6
<1>. DEFINE Fits(r, t) ==
              /\ t \in Seq(Calls)
              /\ \A p : Contains(t, CreateCall(p)) <=> Contains(r, CreateCall(p))
              /\ \A p : Once(r, CreateCall(p)) => Once(t, CreateCall(p))
              /\ \A p : NoneAfter(r, CreateCall(p), StopOps)
                          => NoneAfter(t, CreateCall(p), StopOps)
              /\ NoneOf(r, StopOps) => NoneOf(t, StopOps)
<1>. HIDE DEF a, b, c, d, e
<1>3. Fits(q, q1)
  BY <1>1, CallAdded
<1>. HIDE DEF q1
<1>4. Fits(q1, q2) /\ (n \in Guarded => LastOf(q2, SwitchOps, b))
  <2>1. CASE n \in Guarded
    BY <1>1, <1>3, <2>1, CallAdded, OpsAppend
  <2>2. CASE n \notin Guarded
    BY <1>3, <2>2
  <2>. QED  BY <2>1, <2>2
<1>. HIDE DEF q2
<1>5. Fits(q2, q3) /\ (n \in Guarded => LastOf(q3, SwitchOps, b))
  <2>1. Fits(q2, q3)
    BY <1>1, <1>4, CallAdded
  <2>. QED  BY <1>1, <1>4, <2>1, OpsAppend DEF SwitchOps
<1>. HIDE DEF q3
<1>6. Fits(q3, q4) /\ (n \in Guarded => LastOf(q4, SwitchOps, b))
  <2>1. Fits(q3, q4)
    BY <1>1, <1>5, CallAdded
  <2>. QED  BY <1>1, <1>5, <2>1, OpsAppend DEF SwitchOps
<1>. HIDE DEF q4
<1>7. /\ Fits(q4, u) /\ LastOf(u, Ipv6Ops, e)
      /\ n \in Guarded => LastOf(u, SwitchOps, b)
  <2>1. Fits(q4, u)
    BY <1>1, <1>6, CallAdded
  <2>. QED  BY <1>1, <1>6, <2>1, OpsAppend DEF SwitchOps
<1>. HIDE DEF u
<1>8. Fits(q, u)
  BY <1>3, <1>4, <1>5, <1>6, <1>7
<1>. QED  BY <1>2, <1>7, <1>8 DEF b, e

\* What the end of tun2socks has it write.
LEMMA FinishAdded ==
  ASSUME NEW q \in Seq(Calls)
  PROVE  LET u == q \o <<Call("deleteTun"), Call("StartRoutingIpv6"), Call("clearSavedRoutes")>>
         IN  /\ u \in Seq(Calls)
             /\ \A p : Contains(u, CreateCall(p)) <=> Contains(q, CreateCall(p))
             /\ \A p : Once(q, CreateCall(p)) => Once(u, CreateCall(p))
             /\ \A p : NoneAfter(q, CreateCall(p), StopOps)
                         => NoneAfter(u, CreateCall(p), StopOps)
             /\ NoneOf(q, StopOps) => NoneOf(u, StopOps)
             /\ LastOf(u, RouteOps, Call("clearSavedRoutes"))
<1>. DEFINE a == Call("deleteTun")
            b == Call("StartRoutingIpv6")
            c == Call("clearSavedRoutes")
            q1 == Append(q, a)
            q2 == Append(q1, b)
            u == Append(q2, c)
<1>1. /\ a \in Calls /\ b \in Calls /\ c \in Calls
      /\ a.op = "deleteTun" /\ b.op = "StartRoutingIpv6" /\ c.op = "clearSavedRoutes"
  BY CallKinds
<1>2. q \o <<a, b, c>> = u
  BY <1>1, ConcatThree
<1>. DEFINE Fits(r, t) ==
              /\ t \in Seq(Calls)
              /\ \A p : Contains(t, CreateCall(p)) <=> Contains(r, CreateCall(p))
              /\ \A p : Once(r, CreateCall(p)) => Once(t, CreateCall(p))
              /\ \A p : NoneAfter(r, CreateCall(p), StopOps)
                          => NoneAfter(t, CreateCall(p), StopOps)
              /\ NoneOf(r, StopOps) => NoneOf(t, StopOps)
<1>. HIDE DEF a, b, c
<1>3. Fits(q, q1)
  BY <1>1, CallAdded
<1>. HIDE DEF q1
<1>4. Fits(q1, q2)
  BY <1>1, <1>3, CallAdded
<1>. HIDE DEF q2
<1>5. Fits(q2, u) /\ LastOf(u, RouteOps, c)
  BY <1>1, <1>4, CallAdded, OpsAppend
<1>. HIDE DEF u
<1>6. Fits(q, u)
  BY <1>3, <1>4, <1>5
<1>. QED  BY <1>2, <1>5, <1>6 DEF a, b, c

\* The process that goes with its protocol is closed.
LEMMA CloseAdded ==
  ASSUME XrayInv
  PROVE  LET r == pcalls \o CloseProcess
         IN  /\ r \in Seq(PCalls)
             /\ \A p : Contains(r, StartCall(p)) <=> Contains(pcalls, StartCall(p))
             /\ \A p : Once(pcalls, StartCall(p)) => Once(r, StartCall(p))
             /\ \A p : ClosedLast(pcalls, p) => ClosedLast(r, p)
             /\ process => ClosedLast(r, protocol)
<1>1. CASE ~process
  <2>1. pcalls \o CloseProcess = pcalls
    BY <1>1, Typed DEF CloseProcess
  <2>. QED  BY <1>1, <2>1, Typed
<1>2. CASE process
  <2>. DEFINE c == CloseCall(protocol)
  <2>1. protocol \in Protocols
    BY <1>2, Typed, NumberOf DEF XrayInv, TypeOK
  <2>2. c \in PCalls /\ \A p : StartCall(p) # c
    BY <2>1, PCallKinds
  <2>3. pcalls \o CloseProcess = Append(pcalls, c)
    BY <1>2, <2>2, Typed, ConcatOne DEF CloseProcess, CloseCall
  <2>4. \A p : (ClosedLast(pcalls, p) => ClosedLast(Append(pcalls, c), p))
    BY <2>2, Typed, ClosedAppend
  <2>5. ClosedLast(Append(pcalls, c), protocol)
    BY <2>2, Typed, ClosedAppend
  <2>6. \A x : /\ Contains(Append(pcalls, c), x) <=> Contains(pcalls, x) \/ x = c
               /\ Once(pcalls, x) /\ x # c => Once(Append(pcalls, c), x)
    BY <2>2, Typed, HoldsAppend
  <2>7. Append(pcalls, c) \in Seq(PCalls)
    BY <2>2, Typed, AppendSeq
  <2>. QED  BY <2>2, <2>3, <2>4, <2>5, <2>6, <2>7
<1>. QED  BY <1>1, <1>2

LEMMA StepConnect ==
  ASSUME XrayInv, ConnectToVpn
  PROVE  XrayInv'
<1>. DEFINE w == Last(waits)
            n == w.p
            W == Front(waits)
            before == IF protocol # 0 THEN calls \o StopCalls ELSE calls
            PC == pcalls \o CloseProcess
<1>0. /\ waits # <<>> /\ w.for = "init" /\ protocol' = n /\ pcalls' = PC
      /\ Start(n, before) /\ early' = FALSE
      /\ UNCHANGED <<userVars, signals, t2s, kernelVars, crashed, wild, inClear>>
  BY DEF ConnectToVpn, Waiting
<1>1. n \in Protocols /\ n \in 0..MaxOpens /\ n # 0 /\ w = InitWait(n) /\ W \in Seq(Waits)
  BY <1>0, Typed, FrontSeq, WaitKinds, NumberOf
<1>2. /\ \A p : Contains(waits, InitWait(p)) <=> Contains(W, InitWait(p)) \/ p = n
      /\ \A p : Contains(waits, CreateWait(p)) <=> Contains(W, CreateWait(p))
      /\ Contains(waits, ClearWait) <=> Contains(W, ClearWait)
      /\ \A x : Once(waits, x) => Once(W, x)
      /\ Once(waits, InitWait(n)) => ~Contains(W, InitWait(n))
  <2>1. /\ \A x : Contains(waits, x) <=> Contains(W, x) \/ x = w
        /\ \A x : Once(waits, x) => Once(W, x)
        /\ Once(waits, w) => ~Contains(W, w)
    BY <1>0, Typed, HoldsFront
  <2>. HIDE DEF W
  <2>. QED  BY <1>1, <2>1, WaitKinds
<1>3. /\ before \in Seq(Calls)
      /\ \A p : Contains(before, CreateCall(p)) <=> Contains(calls, CreateCall(p))
      /\ \A p : Once(calls, CreateCall(p)) => Once(before, CreateCall(p))
      /\ \A p : ~Contains(calls, CreateCall(p)) => NoneAfter(before, CreateCall(p), StopOps)
      /\ NoneOf(calls, RouteOps) => NoneOf(before, RouteOps)
      /\ \A c : LastOf(calls, RouteOps, c) => LastOf(before, RouteOps, c)
  <2>1. \A x : ~Contains(calls, x) => NoneAfter(calls, x, StopOps)
    BY DEF Contains, NoneAfter
  <2>2. CASE protocol # 0
    BY <2>1, <2>2, Typed, StopCallsAdded
  <2>3. CASE protocol = 0
    BY <2>1, <2>3, Typed
  <2>. QED  BY <2>2, <2>3
<1>4. /\ PC \in Seq(PCalls)
      /\ \A p : Contains(PC, StartCall(p)) <=> Contains(pcalls, StartCall(p))
      /\ \A p : Once(pcalls, StartCall(p)) => Once(PC, StartCall(p))
      /\ \A p : ClosedLast(pcalls, p) => ClosedLast(PC, p)
      /\ process => ClosedLast(PC, protocol)
  BY CloseAdded
<1>. HIDE DEF w, n, W, before, PC
<1>5. /\ n # protocol /\ t2s[n] = "none" /\ ~Contains(waits, CreateWait(n))
      /\ ~Contains(calls, CreateCall(n)) /\ ~Contains(pcalls, StartCall(n))
      /\ signals[n] = <<>> /\ ~Contains(W, InitWait(n))
  BY <1>1, <1>2, Ways DEF OneWay, Unmade, SignalsInOrder
\* What start() has done, whichever way it ended.
<1>. DEFINE C == Append(before, CreateCall(n))
            V == Append(W, CreateWait(n))
<1>6. /\ process' = FALSE /\ xray' \in BOOLEAN
      /\ m_connectionState' \in {"Unknown", "Error", "Connecting"}
      /\ shown' \in {"Error", "Connecting"}
      /\ \/ calls' = before /\ waits' = W
         \/ calls' = C /\ waits' = V /\ xray' = TRUE
  BY <1>0 DEF Start, C, V, CreateCall, CreateWait, W
<1>7. /\ C \in Seq(Calls) /\ V \in Seq(Waits)
      /\ \A p : Contains(C, CreateCall(p)) <=> Contains(before, CreateCall(p)) \/ p = n
      /\ \A p : p # n /\ Once(before, CreateCall(p)) => Once(C, CreateCall(p))
      /\ ~Contains(before, CreateCall(n)) /\ Once(before, CreateCall(n)) => Once(C, CreateCall(n))
      /\ \A x : NoneAfter(before, x, StopOps) => NoneAfter(C, x, StopOps)
      /\ NoneOf(before, RouteOps) => NoneOf(C, RouteOps)
      /\ \A c : LastOf(before, RouteOps, c) => LastOf(C, RouteOps, c)
  <2>1. /\ CreateCall(n) \in Calls /\ CreateWait(n) \in Waits
        /\ CreateCall(n).op \notin StopOps /\ CreateCall(n).op \notin RouteOps
    BY <1>1, CallKinds, WaitKinds DEF StopOps, RouteOps
  <2>2. \A x : /\ Contains(C, x) <=> Contains(before, x) \/ x = CreateCall(n)
               /\ Once(before, x) /\ (x # CreateCall(n) \/ ~Contains(before, x)) => Once(C, x)
    BY <1>3, <2>1, HoldsAppend
  <2>3. /\ C \in Seq(Calls) /\ V \in Seq(Waits)
    BY <1>1, <1>3, <2>1, AppendSeq
  <2>4. /\ \A x : NoneAfter(before, x, StopOps) => NoneAfter(C, x, StopOps)
        /\ NoneOf(before, RouteOps) => NoneOf(C, RouteOps)
        /\ \A c : LastOf(before, RouteOps, c) => LastOf(C, RouteOps, c)
    BY <1>3, <2>1, OpsAppend
  <2>. HIDE DEF C, V
  <2>. QED  BY <2>2, <2>3, <2>4, CallKinds
<1>8. /\ \A p : Contains(V, InitWait(p)) <=> Contains(W, InitWait(p))
      /\ \A p : Contains(V, CreateWait(p)) <=> Contains(W, CreateWait(p)) \/ p = n
      /\ Contains(V, ClearWait) <=> Contains(W, ClearWait)
      /\ \A p : Once(W, InitWait(p)) => Once(V, InitWait(p))
      /\ \A p : p # n /\ Once(W, CreateWait(p)) => Once(V, CreateWait(p))
      /\ ~Contains(W, CreateWait(n)) /\ Once(W, CreateWait(n)) => Once(V, CreateWait(n))
  <2>1. \A x : /\ Contains(V, x) <=> Contains(W, x) \/ x = CreateWait(n)
               /\ Once(W, x) /\ (x # CreateWait(n) \/ ~Contains(W, x)) => Once(V, x)
    BY <1>1, WaitKinds, HoldsAppend
  <2>. HIDE DEF V
  <2>. QED  BY <2>1, WaitKinds
<1>. HIDE DEF C, V
<1>9. /\ calls' \in Seq(Calls) /\ waits' \in Seq(Waits)
      /\ \A p : Contains(waits', InitWait(p)) <=> Contains(waits, InitWait(p)) /\ p # n
      /\ \A p : Contains(waits', CreateWait(p)) => Contains(waits, CreateWait(p)) \/ p = n
      /\ Contains(waits', CreateWait(n)) => xray'
      /\ Contains(waits', ClearWait) => Contains(waits, ClearWait)
      /\ \A p : Contains(calls', CreateCall(p)) => Contains(calls, CreateCall(p)) \/ p = n
      /\ NoneAfter(calls', CreateCall(n), StopOps)
      /\ NoneOf(calls, RouteOps) => NoneOf(calls', RouteOps)
      /\ \A c : LastOf(calls, RouteOps, c) => LastOf(calls', RouteOps, c)
  <2>1. CASE calls' = before /\ waits' = W
    BY <1>1, <1>2, <1>3, <1>5, <2>1
  <2>2. CASE calls' = C /\ waits' = V /\ xray' = TRUE
    BY <1>2, <1>3, <1>5, <1>7, <1>8, <2>2
  <2>. QED  BY <1>6, <2>1, <2>2
<1>10. \A p \in Protocols : /\ Once(waits', InitWait(p)) /\ Once(waits', CreateWait(p))
                            /\ Once(calls', CreateCall(p))
  <2>0. \A p \in Protocols : /\ Once(waits, InitWait(p)) /\ Once(waits, CreateWait(p))
                             /\ Once(calls, CreateCall(p))
    BY Ways DEF OneWay
  <2>1. CASE calls' = before /\ waits' = W
    BY <1>2, <1>3, <2>0, <2>1
  <2>2. CASE calls' = C /\ waits' = V
    BY <1>2, <1>3, <1>5, <1>7, <1>8, <2>0, <2>2
  <2>. QED  BY <1>6, <2>1, <2>2
<1>11. TypeOK'
  <2>1. /\ queue' \in Seq(0..MaxOpens) /\ ipc' \in BOOLEAN
        /\ opens' \in 0..MaxOpens /\ closes' \in 0..MaxCloses
        /\ signals' \in [Protocols -> Seq({"Running", "finished"})]
        /\ t2s' \in [Protocols -> {"none", "created", "running", "failed", "ended"}]
        /\ tun' \in [kept : BOOLEAN, up : BOOLEAN, holder : 0..MaxOpens]
        /\ routes' \subseteq Routes /\ saved' \subseteq Routes
        /\ chains' \in BOOLEAN /\ killSwitch' \in 0..MaxOpens
        /\ ipv6' \in {"on", "off", "either"}
        /\ crashed' \in BOOLEAN /\ wild' \in BOOLEAN /\ inClear' \in BOOLEAN
    BY <1>0 DEF XrayInv, TypeOK, userVars, kernelVars
  <2>2. /\ protocol' \in 0..MaxOpens /\ shown' \in States /\ m_connectionState' \in States
        /\ xray' \in BOOLEAN /\ process' = FALSE /\ early' \in BOOLEAN
        /\ pcalls' \in Seq([op : {"start", "close"}, p : Protocols])
    BY <1>0, <1>1, <1>4, <1>6 DEF States, PCalls
  <2>. QED  BY <1>9, <2>1, <2>2 DEF TypeOK
<1>12. ASSUME NEW p \in Protocols
       PROVE  OneWay(p)'
  <2>1. OneWay(p)
    BY Ways
  <2>2. /\ Once(queue', p) /\ Once(waits', InitWait(p)) /\ Once(waits', CreateWait(p))
        /\ Once(calls', CreateCall(p)) /\ Once(pcalls', StartCall(p))
    BY <1>0, <1>4, <1>10, <2>1 DEF OneWay, userVars
  <2>3. UNCHANGED <<queue, opens, t2s>>
    BY <1>0 DEF userVars
  <2>4. Unmade(p) /\ p # n => Unmade(p)'
    BY <1>0, <1>9, <2>3 DEF Unmade
  <2>5. Contains(waits, InitWait(n))
    BY <1>2
  <2>6. p > opens \/ Contains(queue, p) => p # n
    BY <2>1, <2>5 DEF OneWay
  <2>7. Contains(waits', CreateWait(p)) =>
          ~Contains(pcalls', StartCall(p)) /\ t2s'[p] \in {"none", "created"}
    BY <1>0, <1>4, <1>5, <1>9, <2>1, <2>3 DEF OneWay
  <2>8. /\ Contains(calls', CreateCall(p)) => t2s'[p] = "none"
        /\ Contains(pcalls', StartCall(p)) => t2s'[p] = "created"
    BY <1>0, <1>4, <1>5, <1>9, <2>1, <2>3 DEF OneWay
  <2>9. Contains(waits', InitWait(p)) => Contains(waits, InitWait(p)) /\ p # n
    BY <1>9
  <2>. QED
    BY <2>1, <2>2, <2>3, <2>4, <2>6, <2>7, <2>8, <2>9 DEF OneWay
<1>13. \A p \in Protocols : SignalsInOrder(p)'
  BY <1>0, SignalsKept
<1>14. SeenOnce' /\ StopsBefore'
  <2>1. ~Contains(signals[n], "Running")
    BY <1>5, HoldsNone
  <2>2. Coming(protocol)' => xray'
    BY <1>0, <1>4, <1>5, <1>9, <2>1 DEF Coming
  <2>3. /\ protocol' # 0 /\ t2s'[protocol'] = "none" /\ m_connectionState' # "Connected"
        /\ shown' # "Connected" /\ NoneAfter(calls', CreateCall(protocol'), StopOps)
    BY <1>0, <1>1, <1>5, <1>6, <1>9
  <2>. QED
    BY <2>2, <2>3 DEF SeenOnce, StopsBefore
<1>15. EndsWell'
  <2>1. ~wild /\ ~inClear /\ Contains(waits', ClearWait) => RoutesGo'
    BY <1>0, <1>9 DEF XrayInv, EndsWell, RoutesGo, kernelVars
  <2>2. ASSUME ~wild, NEW p \in Protocols
        PROVE  Owned(p)'
    BY <1>0, <1>4, <1>6, <2>2 DEF XrayInv, EndsWell, Owned
  <2>. QED
    BY <1>0, <1>1, <1>6, <2>1, <2>2 DEF XrayInv, EndsWell, kernelVars
<1>. QED  BY <1>11, <1>12, <1>13, <1>14, <1>15 DEF XrayInv

LEMMA StepCreated ==
  ASSUME XrayInv, ProcessCreated
  PROVE  XrayInv'
<1>. DEFINE w == Last(waits)
            n == w.p
            W == Front(waits)
<1>0. /\ waits # <<>> /\ w.for = "create" /\ waits' = W
      /\ StartTun2Sock(n) \/ CreationFailed(n)
      /\ wild' = (wild \/ n # protocol)
      /\ crashed' \in IF n # protocol THEN BOOLEAN ELSE {FALSE}
      /\ UNCHANGED <<userVars, protocol, xray, calls, signals, t2s, kernelVars, early, inClear>>
  BY DEF ProcessCreated, Waiting
<1>1. n \in Protocols /\ w = CreateWait(n) /\ W \in Seq(Waits)
  BY <1>0, Typed, FrontSeq, WaitKinds
<1>2. /\ \A p : Contains(W, InitWait(p)) <=> Contains(waits, InitWait(p))
      /\ \A p : Contains(waits, CreateWait(p)) <=> Contains(W, CreateWait(p)) \/ p = n
      /\ Contains(waits, ClearWait) <=> Contains(W, ClearWait)
      /\ \A x : Once(waits, x) => Once(W, x)
      /\ Once(waits, CreateWait(n)) => ~Contains(W, CreateWait(n))
  <2>1. /\ \A x : Contains(waits, x) <=> Contains(W, x) \/ x = w
        /\ \A x : Once(waits, x) => Once(W, x)
        /\ Once(waits, w) => ~Contains(W, w)
    BY <1>0, Typed, HoldsFront
  <2>. HIDE DEF W
  <2>. QED  BY <1>1, <2>1, WaitKinds
<1>3. wild' \in BOOLEAN /\ crashed' \in BOOLEAN
  BY <1>0 DEF XrayInv, TypeOK
<1>. HIDE DEF w, n, W
<1>4. /\ Contains(waits, CreateWait(n)) /\ ~Contains(W, CreateWait(n))
      /\ ~Contains(pcalls, StartCall(n)) /\ t2s[n] \in {"none", "created"}
  BY <1>1, <1>2, Ways DEF OneWay
<1>5. \A p \in Protocols : SignalsInOrder(p)'
  BY <1>0, SignalsKept
<1>6. CASE StartTun2Sock(n)
  <2>. DEFINE s == StartCall(n)
              PC == Append(pcalls, s)
  <2>1. /\ t2s[n] = "created" /\ pcalls' = PC /\ UNCHANGED <<shown, m_connectionState>>
        /\ n = protocol => process' = TRUE
        /\ n # protocol => process' = process
    BY <1>6 DEF StartTun2Sock, StartCall
  <2>2. /\ PC \in Seq(PCalls)
        /\ \A p : Contains(PC, StartCall(p)) <=> Contains(pcalls, StartCall(p)) \/ p = n
        /\ \A p : Once(pcalls, StartCall(p)) /\ (p # n \/ ~Contains(pcalls, StartCall(p)))
                    => Once(PC, StartCall(p))
        /\ \A p : p # n /\ ClosedLast(pcalls, p) => ClosedLast(PC, p)
    <3>1. s \in PCalls
      BY <1>1, PCallKinds
    <3>2. PC \in Seq(PCalls)
      BY <3>1, Typed, AppendSeq
    <3>3. \A x : /\ Contains(PC, x) <=> Contains(pcalls, x) \/ x = s
                 /\ Once(pcalls, x) /\ (x # s \/ ~Contains(pcalls, x)) => Once(PC, x)
      BY <3>1, Typed, HoldsAppend
    <3>4. \A p : s # StartCall(p) /\ ClosedLast(pcalls, p) => ClosedLast(PC, p)
      BY <3>1, Typed, ClosedAppend
    <3>. HIDE DEF PC
    <3>. QED  BY <3>2, <3>3, <3>4, PCallKinds
  <2>. HIDE DEF s, PC
  <2>3. TypeOK'
    <3>1. process' \in BOOLEAN /\ (process' => protocol' # 0 /\ t2s'[protocol'] # "none")
      <4>1. CASE n = protocol
        BY <1>0, <1>1, <2>1, <4>1, NumberOf
      <4>2. CASE n # protocol
        BY <1>0, <2>1, <4>2 DEF XrayInv, TypeOK
      <4>. QED  BY <4>1, <4>2
    <3>. QED
      BY <1>0, <1>1, <1>3, <2>1, <2>2, <3>1
        DEF XrayInv, TypeOK, PCalls, userVars, kernelVars, W
  <2>4. ASSUME NEW p \in Protocols
        PROVE  OneWay(p)'
    <3>1. OneWay(p)
      BY Ways
    <3>2. UNCHANGED <<queue, opens, t2s, calls, protocol>>
      BY <1>0 DEF userVars
    <3>3. Contains(waits', CreateWait(p)) => Contains(waits, CreateWait(p)) /\ p # n
      BY <1>0, <1>2, <1>4
    <3>4. Unmade(p) => Unmade(p)'
      BY <3>2, <3>3 DEF Unmade
    <3>5. Once(pcalls', StartCall(p)) /\ Once(waits', InitWait(p)) /\ Once(waits', CreateWait(p))
      BY <1>0, <1>2, <1>4, <2>1, <2>2, <3>1 DEF OneWay
    <3>6. Contains(pcalls', StartCall(p)) => Contains(pcalls, StartCall(p)) \/ p = n
      BY <2>1, <2>2
    <3>7. Contains(waits', InitWait(p)) <=> Contains(waits, InitWait(p))
      BY <1>0, <1>2
    <3>. QED
      BY <2>1, <3>1, <3>2, <3>3, <3>4, <3>5, <3>6, <3>7 DEF OneWay
  <2>5. \A p : Coming(p)' => Coming(p)
    BY <1>0, <1>2, <2>1, <2>2 DEF Coming
  <2>6. SeenOnce' /\ StopsBefore'
    <3>1. Coming(protocol)' => Coming(protocol)
      BY <1>0, <2>5
    <3>. QED  BY <1>0, <2>1, <3>1 DEF XrayInv, SeenOnce, StopsBefore
  <2>7. EndsWell'
    <3>1. ASSUME ~wild', NEW p \in Protocols
          PROVE  Owned(p)'
      <4>1. n = protocol /\ process' = TRUE /\ protocol' = protocol /\ ~wild
        BY <1>0, <2>1, <3>1
      <4>2. CASE p = n
        BY <4>1, <4>2 DEF Owned
      <4>3. CASE p # n
        BY <1>0, <2>1, <2>2, <4>1, <4>3 DEF XrayInv, EndsWell, Owned
      <4>. QED  BY <4>2, <4>3
    <3>2. ~wild' => ~wild
      BY <1>0
    <3>. QED
      BY <1>0, <1>2, <2>1, <3>1, <3>2
        DEF XrayInv, EndsWell, SwitchGoes, Ipv6Returns, RoutesGo, SwitchComes, Ipv6Stops, kernelVars
  <2>. QED  BY <1>5, <2>3, <2>4, <2>6, <2>7 DEF XrayInv
<1>7. CASE CreationFailed(n)
  <2>1. /\ UNCHANGED <<pcalls, process>> /\ shown' = "Error"
        /\ m_connectionState' \in {m_connectionState, "Error"}
    BY <1>7 DEF CreationFailed
  <2>2. TypeOK'
    BY <1>0, <1>1, <1>3, <2>1 DEF XrayInv, TypeOK, States, userVars, kernelVars, W
  <2>3. ASSUME NEW p \in Protocols
        PROVE  OneWay(p)'
    <3>1. OneWay(p)
      BY Ways
    <3>2. UNCHANGED <<queue, opens, t2s, calls, pcalls, protocol>>
      BY <1>0, <2>1 DEF userVars
    <3>3. Contains(waits', CreateWait(p)) => Contains(waits, CreateWait(p))
      BY <1>0, <1>2
    <3>4. Unmade(p) => Unmade(p)'
      BY <3>2, <3>3 DEF Unmade
    <3>5. /\ Once(waits', InitWait(p)) /\ Once(waits', CreateWait(p))
          /\ Contains(waits', InitWait(p)) <=> Contains(waits, InitWait(p))
      BY <1>0, <1>2, <3>1 DEF OneWay
    <3>. QED
      BY <3>1, <3>2, <3>3, <3>4, <3>5 DEF OneWay
  <2>4. SeenOnce' /\ StopsBefore'
    <3>1. Coming(protocol)' => Coming(protocol)
      BY <1>0, <1>2, <2>1 DEF Coming
    <3>. QED  BY <1>0, <2>1, <3>1 DEF XrayInv, SeenOnce, StopsBefore
  <2>5. EndsWell'
    <3>1. ~wild' => ~wild
      BY <1>0
    <3>. QED
      BY <1>0, <1>2, <2>1, <3>1
        DEF XrayInv, EndsWell, SwitchGoes, Ipv6Returns, RoutesGo, Owned, kernelVars
  <2>. QED  BY <1>5, <2>2, <2>3, <2>4, <2>5 DEF XrayInv
<1>. QED  BY <1>0, <1>6, <1>7

LEMMA StepDisconnect ==
  ASSUME XrayInv, DisconnectFromVpn
  PROVE  XrayInv'
<1>0. /\ queue # <<>> /\ Head(queue) = 0 /\ queue' = Tail(queue)
      /\ UNCHANGED <<opens, closes, ipc, protocol, m_connectionState, xray, process,
                     pcalls, signals, t2s, kernelVars, crashed, wild, early>>
  BY DEF DisconnectFromVpn
<1>1. /\ queue' \in Seq(0..MaxOpens)
      /\ \A p \in Protocols : Contains(queue', p) <=> Contains(queue, p)
      /\ \A p \in Protocols : Once(queue, p) => Once(queue', p)
  BY <1>0, Typed, TailSeq, HoldsTail, NumberOf
<1>2. \A p \in Protocols : SignalsInOrder(p)'
  BY <1>0, SignalsKept
<1>3. CASE ipc
  <2>. DEFINE c == Call("clearSavedRoutes")
              C == Append(calls, c)
              V == Append(waits, ClearWait)
  <2>1. calls' = C /\ waits' = V /\ inClear' = FALSE /\ UNCHANGED shown
    BY <1>3 DEF DisconnectFromVpn, ClearWait
  <2>2. c \in Calls /\ c.op = "clearSavedRoutes" /\ ClearWait \in Waits
    BY CallKinds, WaitKinds
  <2>. HIDE DEF c
  <2>3. /\ C \in Seq(Calls)
        /\ \A p : Contains(C, CreateCall(p)) <=> Contains(calls, CreateCall(p))
        /\ \A p : Once(calls, CreateCall(p)) => Once(C, CreateCall(p))
        /\ \A p : NoneAfter(calls, CreateCall(p), StopOps) => NoneAfter(C, CreateCall(p), StopOps)
        /\ NoneOf(calls, StopOps) => NoneOf(C, StopOps)
    BY <2>2, Typed, CallAdded
  <2>4. /\ V \in Seq(Waits)
        /\ \A p : Contains(V, InitWait(p)) <=> Contains(waits, InitWait(p))
        /\ \A p : Contains(V, CreateWait(p)) <=> Contains(waits, CreateWait(p))
        /\ \A p : Once(waits, InitWait(p)) => Once(V, InitWait(p))
        /\ \A p : Once(waits, CreateWait(p)) => Once(V, CreateWait(p))
    <3>1. V \in Seq(Waits)
      BY <2>2, Typed, AppendSeq
    <3>2. \A x : /\ Contains(V, x) <=> Contains(waits, x) \/ x = ClearWait
                 /\ Once(waits, x) /\ x # ClearWait => Once(V, x)
      BY <2>2, Typed, HoldsAppend
    <3>. HIDE DEF V
    <3>. QED  BY <3>1, <3>2, WaitKinds
  <2>5. /\ LastOf(C, RouteOps, c)
        /\ \A x : /\ LastOf(calls, SwitchOps, x) => LastOf(C, SwitchOps, x)
                  /\ LastOf(calls, Ipv6Ops, x) => LastOf(C, Ipv6Ops, x)
        /\ NoneOf(calls, SwitchOps) => NoneOf(C, SwitchOps)
        /\ NoneOf(calls, Ipv6Ops) => NoneOf(C, Ipv6Ops)
    BY <2>2, Typed, OpsAppend DEF SwitchOps, Ipv6Ops
  <2>. HIDE DEF C, V
  <2>6. TypeOK'
    BY <1>0, <1>1, <2>1, <2>3, <2>4 DEF XrayInv, TypeOK, kernelVars
  <2>7. ASSUME NEW p \in Protocols
        PROVE  OneWay(p)'
    BY <1>0, <1>1, <2>1, <2>3, <2>4, Ways DEF OneWay, Unmade
  <2>8. SeenOnce' /\ StopsBefore'
    BY <1>0, <2>1, <2>3, <2>4 DEF XrayInv, SeenOnce, StopsBefore, Coming
  <2>9. EndsWell'
    <3>1. RoutesGo'
      BY <2>1, <2>5 DEF RoutesGo, c
    <3>2. /\ SwitchGoes => SwitchGoes'
          /\ Ipv6Returns => Ipv6Returns'
          /\ SwitchComes => SwitchComes'
          /\ Ipv6Stops => Ipv6Stops'
      BY <1>0, <2>1, <2>5 DEF SwitchGoes, Ipv6Returns, SwitchComes, Ipv6Stops, kernelVars
    <3>. QED
      BY <1>0, <2>1, <3>1, <3>2 DEF XrayInv, EndsWell, Owned, kernelVars
  <2>. QED  BY <1>2, <2>6, <2>7, <2>8, <2>9 DEF XrayInv
<1>4. CASE ~ipc
  <2>1. shown' = "Disconnected" /\ UNCHANGED <<calls, waits, inClear>>
    BY <1>4 DEF DisconnectFromVpn
  <2>2. TypeOK'
    BY <1>0, <1>1, <2>1 DEF XrayInv, TypeOK, States, kernelVars
  <2>3. ASSUME NEW p \in Protocols
        PROVE  OneWay(p)'
    BY <1>0, <1>1, <2>1, Ways DEF OneWay, Unmade
  <2>4. SeenOnce' /\ StopsBefore'
    BY <1>0, <2>1 DEF XrayInv, SeenOnce, StopsBefore, Coming
  <2>5. EndsWell'
    BY <1>0, <2>1 DEF XrayInv, EndsWell, SwitchGoes, Ipv6Returns, RoutesGo, Owned, kernelVars
  <2>. QED  BY <1>2, <2>2, <2>3, <2>4, <2>5 DEF XrayInv
<1>. QED  BY <1>3, <1>4 DEF XrayInv, TypeOK

LEMMA StepCleared ==
  ASSUME XrayInv, RoutesCleared
  PROVE  XrayInv'
<1>. DEFINE w == Last(waits)
            W == Front(waits)
            PC == pcalls \o CloseProcess
            C == calls \o StopCalls
<1>0. /\ waits # <<>> /\ w.for = "clear" /\ waits' = W
      /\ protocol' = 0 /\ m_connectionState' = "Unknown" /\ xray' = FALSE /\ process' = FALSE
      /\ UNCHANGED <<userVars, signals, t2s, kernelVars, histVars>>
  BY DEF RoutesCleared, Waiting
<1>1. /\ protocol = 0 => shown' = "Disconnected" /\ UNCHANGED <<calls, pcalls>>
      /\ protocol # 0 => shown' = ShownAfterDestroy /\ calls' = C /\ pcalls' = PC
  BY DEF RoutesCleared
<1>2. W \in Seq(Waits) /\ w = ClearWait
  BY <1>0, Typed, FrontSeq, WaitKinds
<1>3. /\ \A p : Contains(W, InitWait(p)) <=> Contains(waits, InitWait(p))
      /\ \A p : Contains(W, CreateWait(p)) <=> Contains(waits, CreateWait(p))
      /\ \A x : Once(waits, x) => Once(W, x)
      /\ Contains(waits, ClearWait)
  <2>1. /\ \A x : Contains(waits, x) <=> Contains(W, x) \/ x = w
        /\ \A x : Once(waits, x) => Once(W, x)
    BY <1>0, Typed, HoldsFront
  <2>. HIDE DEF W
  <2>. QED  BY <1>2, <2>1, WaitKinds
<1>4. /\ PC \in Seq(PCalls)
      /\ \A p : Contains(PC, StartCall(p)) <=> Contains(pcalls, StartCall(p))
      /\ \A p : Once(pcalls, StartCall(p)) => Once(PC, StartCall(p))
      /\ \A p : ClosedLast(pcalls, p) => ClosedLast(PC, p)
      /\ process => ClosedLast(PC, protocol)
  BY CloseAdded
<1>5. /\ C \in Seq(Calls)
      /\ \A p : Contains(C, CreateCall(p)) <=> Contains(calls, CreateCall(p))
      /\ \A p : Once(calls, CreateCall(p)) => Once(C, CreateCall(p))
      /\ LastOf(C, SwitchOps, Call("disableKillSwitch"))
      /\ LastOf(C, Ipv6Ops, Call("StartRoutingIpv6"))
      /\ NoneOf(calls, RouteOps) => NoneOf(C, RouteOps)
      /\ \A c : LastOf(calls, RouteOps, c) => LastOf(C, RouteOps, c)
  BY Typed, StopCallsAdded
<1>. HIDE DEF w, W, PC, C
<1>6. /\ calls' \in Seq(Calls) /\ pcalls' \in Seq(PCalls)
      /\ \A p : Contains(calls', CreateCall(p)) <=> Contains(calls, CreateCall(p))
      /\ \A p : Once(calls, CreateCall(p)) => Once(calls', CreateCall(p))
      /\ \A p : Contains(pcalls', StartCall(p)) <=> Contains(pcalls, StartCall(p))
      /\ \A p : Once(pcalls, StartCall(p)) => Once(pcalls', StartCall(p))
  <2>1. CASE protocol = 0
    BY <1>1, <2>1, Typed
  <2>2. CASE protocol # 0
    BY <1>1, <1>4, <1>5, <2>2
  <2>. QED  BY <2>1, <2>2
<1>7. shown' \in States /\ (shown' = "Connected" => early)
  BY <1>1 DEF ShownAfterDestroy, XrayInv, TypeOK, States, SeenOnce
<1>8. TypeOK'
  <2>1. 0 \in 0..MaxOpens
    BY BoundsAssumption
  <2>2. protocol' \in 0..MaxOpens /\ waits' \in Seq(Waits)
    BY <1>0, <1>2, <2>1
  <2>3. xray' \in BOOLEAN /\ process' \in BOOLEAN /\ ~process'
    BY <1>0
  <2>4. m_connectionState' \in States
    BY <1>0 DEF States
  <2>. QED
    BY <1>0, <1>6, <1>7, <2>2, <2>3, <2>4 DEF XrayInv, TypeOK, PCalls, userVars, kernelVars, histVars
<1>9. ASSUME NEW p \in Protocols
      PROVE  OneWay(p)'
  <2>1. OneWay(p) /\ p # 0
    BY Ways, NumberOf
  <2>2. UNCHANGED <<queue, opens, t2s>>
    BY <1>0 DEF userVars
  <2>3. Unmade(p) => Unmade(p)'
    BY <1>0, <1>3, <1>6, <2>1, <2>2 DEF Unmade
  <2>. QED
    BY <1>0, <1>3, <1>6, <2>1, <2>2, <2>3 DEF OneWay
<1>10. \A p \in Protocols : SignalsInOrder(p)'
  BY <1>0, SignalsKept
<1>11. SeenOnce' /\ StopsBefore'
  BY <1>0, <1>7 DEF SeenOnce, StopsBefore, histVars
<1>12. EndsWell'
  <2>1. ~wild => SwitchGoes' /\ Ipv6Returns'
    BY <1>0, <1>1, <1>5 DEF XrayInv, EndsWell, SwitchGoes, Ipv6Returns, kernelVars
  <2>2. ~wild /\ ~inClear => RoutesGo'
    BY <1>0, <1>1, <1>3, <1>5 DEF XrayInv, EndsWell, RoutesGo, kernelVars
  <2>3. ASSUME ~wild, NEW p \in Protocols
        PROVE  Owned(p)'
    <3>1. Owned(p) /\ p # 0
      BY <2>3, NumberOf DEF XrayInv, EndsWell
    <3>2. CASE protocol = 0
      BY <1>0, <1>1, <3>1, <3>2 DEF Owned
    <3>3. CASE protocol # 0
      BY <1>0, <1>1, <1>4, <3>1, <3>3 DEF Owned
    <3>. QED  BY <3>2, <3>3
  <2>. QED
    BY <1>0, <1>7, <2>1, <2>2, <2>3 DEF XrayInv, EndsWell, kernelVars, histVars
<1>. QED  BY <1>8, <1>9, <1>10, <1>11, <1>12 DEF XrayInv

LEMMA StepXrayFinished ==
  ASSUME XrayInv, XrayFinished
  PROVE  XrayInv'
<1>. DEFINE PC == pcalls \o CloseProcess
            C == calls \o StopCalls
<1>0. /\ xray /\ xray' = FALSE /\ m_connectionState' = "Disconnected"
      /\ shown' = ShownAfterDestroy
      /\ \/ calls' = calls /\ pcalls' = pcalls
         \/ calls' = C /\ pcalls' = PC
      /\ early' = (early \/ m_connectionState # "Connected")
      /\ UNCHANGED <<userVars, waits, protocol, process, signals, t2s, kernelVars,
                     crashed, wild, inClear>>
  BY DEF XrayFinished
<1>1. early' \in BOOLEAN
  BY <1>0 DEF XrayInv, TypeOK
<1>2. ~early' => ~early /\ m_connectionState = "Connected"
  BY <1>0
<1>3. /\ PC \in Seq(PCalls)
      /\ \A p : Contains(PC, StartCall(p)) <=> Contains(pcalls, StartCall(p))
      /\ \A p : Once(pcalls, StartCall(p)) => Once(PC, StartCall(p))
      /\ \A p : ClosedLast(pcalls, p) => ClosedLast(PC, p)
  BY CloseAdded
<1>4. /\ C \in Seq(Calls)
      /\ \A p : Contains(C, CreateCall(p)) <=> Contains(calls, CreateCall(p))
      /\ \A p : Once(calls, CreateCall(p)) => Once(C, CreateCall(p))
      /\ \A p : NoneAfter(calls, CreateCall(p), StopOps) /\ ~Contains(calls, CreateCall(p))
                  => NoneAfter(C, CreateCall(p), StopOps)
      /\ NoneOf(calls, RouteOps) => NoneOf(C, RouteOps)
      /\ \A c : LastOf(calls, RouteOps, c) => LastOf(C, RouteOps, c)
  BY Typed, StopCallsAdded
<1>. HIDE DEF PC, C
<1>5. /\ calls' \in Seq(Calls) /\ pcalls' \in Seq(PCalls)
      /\ \A p : Contains(calls', CreateCall(p)) <=> Contains(calls, CreateCall(p))
      /\ \A p : Once(calls, CreateCall(p)) => Once(calls', CreateCall(p))
      /\ \A p : Contains(pcalls', StartCall(p)) <=> Contains(pcalls, StartCall(p))
      /\ \A p : Once(pcalls, StartCall(p)) => Once(pcalls', StartCall(p))
      /\ \A p : ClosedLast(pcalls, p) => ClosedLast(pcalls', p)
      /\ \A p : NoneAfter(calls, CreateCall(p), StopOps) /\ ~Contains(calls, CreateCall(p))
                  => NoneAfter(calls', CreateCall(p), StopOps)
      /\ NoneOf(calls, RouteOps) => NoneOf(calls', RouteOps)
      /\ \A c : LastOf(calls, RouteOps, c) => LastOf(calls', RouteOps, c)
  <2>1. CASE calls' = calls /\ pcalls' = pcalls
    BY <2>1, Typed
  <2>2. CASE calls' = C /\ pcalls' = PC
    BY <1>3, <1>4, <2>2
  <2>. QED  BY <1>0, <2>1, <2>2
<1>6. shown' \in States /\ (m_connectionState = "Connected" => shown' = "Disconnected")
  BY <1>0 DEF ShownAfterDestroy, XrayInv, TypeOK, States
<1>7. protocol # 0
  BY <1>0 DEF XrayInv, EndsWell
<1>8. TypeOK'
  BY <1>0, <1>1, <1>5, <1>6 DEF XrayInv, TypeOK, PCalls, States, userVars, kernelVars
<1>9. ASSUME NEW p \in Protocols
      PROVE  OneWay(p)'
  <2>1. OneWay(p)
    BY Ways
  <2>2. UNCHANGED <<queue, opens, t2s, waits, protocol>>
    BY <1>0 DEF userVars
  <2>3. Unmade(p) => Unmade(p)'
    BY <1>5, <2>2 DEF Unmade
  <2>. QED
    BY <1>5, <2>1, <2>2, <2>3 DEF OneWay
<1>10. \A p \in Protocols : SignalsInOrder(p)'
  BY <1>0, SignalsKept
<1>11. Coming(protocol)' <=> Coming(protocol)
  BY <1>0, <1>5 DEF Coming
<1>12. SeenOnce'
  <2>1. Coming(protocol)' => early'
    BY <1>0, <1>7, <1>11 DEF XrayInv, SeenOnce
  <2>. QED  BY <1>0, <1>2, <1>6, <2>1 DEF SeenOnce
<1>13. StopsBefore'
  <2>1. ASSUME ~early'
        PROVE  NoneAfter(calls', CreateCall(protocol), StopOps)
    <3>1. protocol \in Protocols
      BY <1>7, Typed, NumberOf
    <3>2. t2s[protocol] # "none"
      BY <1>2, <1>7, <2>1 DEF XrayInv, SeenOnce
    <3>3. ~Contains(calls, CreateCall(protocol))
      BY <3>1, <3>2, Ways DEF OneWay
    <3>4. NoneAfter(calls, CreateCall(protocol), StopOps)
      BY <1>2, <1>7, <2>1 DEF XrayInv, StopsBefore
    <3>. QED  BY <1>5, <3>3, <3>4
  <2>2. ~early' => ~Coming(protocol)' /\ shown' # "Connected"
    BY <1>2, <1>6, <1>7, <1>11 DEF XrayInv, SeenOnce
  <2>. QED  BY <1>0, <2>1, <2>2 DEF StopsBefore
<1>14. EndsWell'
  <2>1. RoutesGo => RoutesGo'
    BY <1>0, <1>5 DEF RoutesGo, kernelVars
  <2>2. \A p \in Protocols : Owned(p) => Owned(p)'
    BY <1>0, <1>5 DEF Owned
  <2>3. shown' = "Connected" => early'
    BY <1>2, <1>6
  <2>. QED
    BY <1>0, <1>7, <2>1, <2>2, <2>3 DEF XrayInv, EndsWell, kernelVars
<1>. QED  BY <1>8, <1>9, <1>10, <1>12, <1>13, <1>14 DEF XrayInv

\* One signal of the tun2socks n is delivered.
LEMMA SignalTaken ==
  ASSUME XrayInv, NEW n \in Protocols, signals[n] # <<>>,
         signals' = [signals EXCEPT ![n] = Tail(@)], UNCHANGED t2s
  PROVE  /\ signals' \in [Protocols -> Seq(Signals)]
         /\ \A p \in Protocols : p # n => signals'[p] = signals[p]
         /\ ~Contains(signals'[n], "Running")
         /\ Head(signals[n]) # "finished" =>
              (Contains(signals'[n], "finished") <=> Contains(signals[n], "finished"))
         /\ t2s[n] \in {"running", "ended"}
         /\ Head(signals[n]) = "Running" => Contains(signals[n], "Running")
         /\ \A p \in Protocols : SignalsInOrder(p)'
<1>. DEFINE q == signals[n]
            r == Tail(q)
<1>1. q \in Seq(Signals) /\ q # <<>> /\ r \in Seq(Signals)
  BY Typed, TailSeq
<1>2. /\ signals' \in [Protocols -> Seq(Signals)] /\ signals'[n] = r
      /\ \A p \in Protocols : p # n => signals'[p] = signals[p]
  BY <1>1, Typed
<1>3. /\ \A x : Contains(q, x) <=> Contains(r, x) \/ x = Head(q)
      /\ Len(q) \in Nat \ {0} /\ Len(r) = Len(q) - 1
      /\ \A i \in 1 .. Len(q) - 1 : r[i] = q[i + 1]
  BY <1>1, HoldsTail, TailSeq
<1>4. SignalsInOrder(n) /\ t2s[n] \in Stages
  BY Ways, Typed
<1>. HIDE DEF r
<1>5. \A i \in 1 .. Len(r) : r[i] # "Running"
  BY <1>3, <1>4 DEF SignalsInOrder
<1>6. ~Contains(r, "Running")
  BY <1>5 DEF Contains
<1>7. t2s[n] \in {"running", "ended"}
  BY <1>1, <1>4 DEF SignalsInOrder, Stages
<1>8. ASSUME NEW p \in Protocols
      PROVE  SignalsInOrder(p)'
  <2>1. CASE p = n
    BY <1>2, <1>3, <1>4, <1>5, <1>6, <1>7, <2>1 DEF SignalsInOrder
  <2>2. CASE p # n
    BY <1>2, <2>2, Ways DEF SignalsInOrder
  <2>. QED  BY <2>1, <2>2
<1>. QED  BY <1>2, <1>3, <1>6, <1>7, <1>8

LEMMA StepStateChanged ==
  ASSUME XrayInv, NEW n \in Protocols, StateChanged(n)
  PROVE  XrayInv'
<1>0. /\ signals[n] # <<>> /\ Head(signals[n]) = "Running"
      /\ signals' = [signals EXCEPT ![n] = Tail(@)]
      /\ UNCHANGED <<userVars, waits, protocol, xray, process, pcalls, t2s, kernelVars, early>>
  BY DEF StateChanged
<1>1. /\ signals' \in [Protocols -> Seq(Signals)]
      /\ \A p \in Protocols : p # n => signals'[p] = signals[p]
      /\ ~Contains(signals'[n], "Running")
      /\ Contains(signals'[n], "finished") <=> Contains(signals[n], "finished")
      /\ t2s[n] \in {"running", "ended"} /\ Contains(signals[n], "Running")
      /\ \A p \in Protocols : SignalsInOrder(p)'
  BY <1>0, SignalTaken
<1>. DEFINE C == calls \o SetUpCalls(n)
<1>2. /\ C \in Seq(Calls)
      /\ \A p : Contains(C, CreateCall(p)) <=> Contains(calls, CreateCall(p))
      /\ \A p : Once(calls, CreateCall(p)) => Once(C, CreateCall(p))
      /\ \A p : NoneAfter(calls, CreateCall(p), StopOps) => NoneAfter(C, CreateCall(p), StopOps)
      /\ NoneOf(calls, StopOps) => NoneOf(C, StopOps)
      /\ n \in Guarded => LastOf(C, SwitchOps, CallFor("enableKillSwitch", n))
      /\ LastOf(C, Ipv6Ops, Call("StopRoutingIpv6"))
  BY Typed, SetUpAdded
<1>3. ASSUME calls' \in Seq(Calls),
             \A p : Contains(calls', CreateCall(p)) <=> Contains(calls, CreateCall(p)),
             \A p : Once(calls, CreateCall(p)) => Once(calls', CreateCall(p)),
             NEW p \in Protocols
      PROVE  OneWay(p)'
  <2>1. UNCHANGED <<queue, opens, t2s, waits, protocol, pcalls>>
    BY <1>0 DEF userVars
  <2>. QED  BY <1>3, <2>1, Ways DEF OneWay, Unmade
<1>4. CASE n = protocol
  <2>. DEFINE D == Append(C, RouteAdd(DnsRoute))
  <2>1. /\ m_connectionState' = "Connected" /\ shown' = "Connected" /\ calls' = D
        /\ inClear' = (inClear \/ Contains(waits, ClearWait)) /\ UNCHANGED <<wild, crashed>>
    BY <1>4 DEF StateChanged, ClearWait
  <2>2. RouteAdd(DnsRoute) \in Calls /\ RouteAdd(DnsRoute).op = "routeAddList"
    BY CallKinds, RouteKinds
  <2>. HIDE DEF C
  <2>3. /\ D \in Seq(Calls)
        /\ \A p : Contains(D, CreateCall(p)) <=> Contains(C, CreateCall(p))
        /\ \A p : Once(C, CreateCall(p)) => Once(D, CreateCall(p))
        /\ \A p : NoneAfter(C, CreateCall(p), StopOps) => NoneAfter(D, CreateCall(p), StopOps)
        /\ NoneOf(C, StopOps) => NoneOf(D, StopOps)
    BY <1>2, <2>2, CallAdded
  <2>4. /\ n \in Guarded => LastOf(D, SwitchOps, CallFor("enableKillSwitch", n))
        /\ LastOf(D, Ipv6Ops, Call("StopRoutingIpv6"))
    BY <1>2, <2>2, OpsAppend DEF SwitchOps, Ipv6Ops
  <2>. HIDE DEF D
  <2>5. inClear' \in BOOLEAN
    BY <2>1 DEF XrayInv, TypeOK
  <2>6. TypeOK'
    BY <1>0, <1>1, <2>1, <2>3, <2>5 DEF XrayInv, TypeOK, States, Signals, userVars, kernelVars
  <2>7. \A p \in Protocols : OneWay(p)'
    BY <1>2, <1>3, <2>1, <2>3
  <2>8. Coming(protocol) /\ protocol # 0 /\ t2s[protocol] # "none" /\ ~Coming(protocol)'
    <3>1. ~Contains(waits, CreateWait(n)) /\ ~Contains(pcalls, StartCall(n))
      BY <1>1, Ways DEF OneWay
    <3>. QED  BY <1>0, <1>1, <1>4, <3>1, NumberOf DEF Coming
  <2>9. SeenOnce'
    <3>1. xray \/ early
      BY <2>8 DEF XrayInv, SeenOnce
    <3>2. t2s[n] = "running" \/ Contains(signals'[n], "finished")
      BY <1>1, Ways DEF SignalsInOrder
    <3>. QED  BY <1>0, <1>1, <1>4, <2>1, <2>8, <3>1, <3>2 DEF SeenOnce
  <2>10. StopsBefore'
    <3>1. ~early => NoneOf(calls, StopOps) /\ NoneAfter(calls, CreateCall(protocol), StopOps)
      BY <2>8 DEF XrayInv, StopsBefore
    <3>. QED  BY <1>0, <1>2, <2>1, <2>3, <3>1 DEF StopsBefore
  <2>11. EndsWell'
    <3>1. SwitchComes' /\ Ipv6Stops'
      BY <1>0, <1>4, <2>1, <2>4 DEF SwitchComes, Ipv6Stops
    <3>2. \A p \in Protocols : Owned(p) => Owned(p)'
      BY <1>0 DEF Owned
    <3>3. ~inClear' => ~Contains(waits', ClearWait)
      BY <1>0, <2>1
    <3>. QED
      BY <1>0, <2>1, <2>8, <3>1, <3>2, <3>3 DEF XrayInv, EndsWell, kernelVars
  <2>. QED  BY <1>1, <2>6, <2>7, <2>9, <2>10, <2>11 DEF XrayInv
<1>5. CASE n # protocol
  <2>. HIDE DEF C
  <2>1. /\ wild' = TRUE /\ crashed' \in {TRUE, crashed} /\ calls' \in {calls, C}
        /\ UNCHANGED <<m_connectionState, shown, inClear>>
    BY <1>5 DEF StateChanged, C
  <2>2. /\ calls' \in Seq(Calls)
        /\ \A p : Contains(calls', CreateCall(p)) <=> Contains(calls, CreateCall(p))
        /\ \A p : Once(calls, CreateCall(p)) => Once(calls', CreateCall(p))
        /\ \A p : NoneAfter(calls, CreateCall(p), StopOps)
                    => NoneAfter(calls', CreateCall(p), StopOps)
        /\ NoneOf(calls, StopOps) => NoneOf(calls', StopOps)
    BY <1>2, <2>1, Typed
  <2>3. crashed' \in BOOLEAN /\ wild' \in BOOLEAN
    BY <2>1 DEF XrayInv, TypeOK
  <2>4. TypeOK'
    BY <1>0, <1>1, <2>1, <2>2, <2>3 DEF XrayInv, TypeOK, Signals, userVars, kernelVars
  <2>5. \A p \in Protocols : OneWay(p)'
    BY <1>3, <2>2
  <2>6. protocol # 0 => protocol \in Protocols /\ signals'[protocol] = signals[protocol]
    BY <1>1, <1>5, Typed, NumberOf
  <2>7. protocol # 0 => (Coming(protocol)' <=> Coming(protocol))
    BY <1>0, <2>6 DEF Coming
  <2>8. SeenOnce' /\ StopsBefore'
    BY <1>0, <2>1, <2>2, <2>6, <2>7 DEF XrayInv, SeenOnce, StopsBefore
  <2>9. EndsWell'
    BY <1>0, <2>1 DEF XrayInv, EndsWell, kernelVars
  <2>. QED  BY <1>1, <2>4, <2>5, <2>8, <2>9 DEF XrayInv
<1>. QED  BY <1>4, <1>5

LEMMA StepFinished ==
  ASSUME XrayInv, NEW n \in Protocols, Finished(n)
  PROVE  XrayInv'
<1>0. /\ signals[n] # <<>> /\ Head(signals[n]) = "finished"
      /\ signals' = [signals EXCEPT ![n] = Tail(@)]
      /\ UNCHANGED <<userVars, waits, protocol, xray, process, pcalls, t2s, kernelVars, histVars>>
  BY DEF Finished
<1>1. /\ signals' \in [Protocols -> Seq(Signals)]
      /\ \A p \in Protocols : p # n => signals'[p] = signals[p]
      /\ ~Contains(signals'[n], "Running")
      /\ \A p \in Protocols : SignalsInOrder(p)'
  BY <1>0, SignalTaken
<1>2. ASSUME calls' \in Seq(Calls),
             \A p : Contains(calls', CreateCall(p)) <=> Contains(calls, CreateCall(p)),
             \A p : Once(calls, CreateCall(p)) => Once(calls', CreateCall(p)),
             NEW p \in Protocols
      PROVE  OneWay(p)'
  <2>1. UNCHANGED <<queue, opens, t2s, waits, protocol, pcalls>>
    BY <1>0 DEF userVars
  <2>. QED  BY <1>2, <2>1, Ways DEF OneWay, Unmade
<1>3. \A p \in Protocols : Owned(p) => Owned(p)'
  BY <1>0 DEF Owned
<1>4. CASE n = protocol
  <2>. DEFINE C == calls \o <<Call("deleteTun"), Call("StartRoutingIpv6"), Call("clearSavedRoutes")>>
  <2>1. /\ m_connectionState' = "Disconnected" /\ calls' = C
        /\ shown' = IF m_connectionState = "Disconnected" THEN shown ELSE "Disconnected"
    BY <1>4 DEF Finished
  <2>2. /\ C \in Seq(Calls)
        /\ \A p : Contains(C, CreateCall(p)) <=> Contains(calls, CreateCall(p))
        /\ \A p : Once(calls, CreateCall(p)) => Once(C, CreateCall(p))
        /\ \A p : NoneAfter(calls, CreateCall(p), StopOps) => NoneAfter(C, CreateCall(p), StopOps)
        /\ NoneOf(calls, StopOps) => NoneOf(C, StopOps)
        /\ LastOf(C, RouteOps, Call("clearSavedRoutes"))
    BY Typed, FinishAdded
  <2>. HIDE DEF C
  <2>3. shown' \in States /\ (shown' = "Connected" => early)
    BY <2>1 DEF XrayInv, TypeOK, States, SeenOnce
  <2>4. TypeOK'
    BY <1>0, <1>1, <2>1, <2>2, <2>3 DEF XrayInv, TypeOK, States, Signals, userVars, kernelVars, histVars
  <2>5. \A p \in Protocols : OneWay(p)'
    BY <1>2, <2>1, <2>2
  <2>6. protocol # 0 /\ (Coming(protocol)' => Coming(protocol))
    BY <1>0, <1>1, <1>4, NumberOf DEF Coming
  <2>7. SeenOnce' /\ StopsBefore'
    BY <1>0, <2>1, <2>2, <2>3, <2>6 DEF XrayInv, SeenOnce, StopsBefore, histVars
  <2>8. EndsWell'
    <3>1. RoutesGo'
      BY <2>1, <2>2 DEF RoutesGo
    <3>. QED
      BY <1>0, <1>3, <2>3, <2>6, <3>1 DEF XrayInv, EndsWell, kernelVars, histVars
  <2>. QED  BY <1>1, <2>4, <2>5, <2>7, <2>8 DEF XrayInv
<1>5. CASE n # protocol
  <2>1. UNCHANGED <<m_connectionState, shown, calls>>
    BY <1>5 DEF Finished
  <2>2. TypeOK'
    BY <1>0, <1>1, <2>1 DEF XrayInv, TypeOK, Signals, userVars, kernelVars, histVars
  <2>3. \A p \in Protocols : OneWay(p)'
    BY <1>2, <2>1, Typed
  <2>4. protocol # 0 => protocol \in Protocols /\ signals'[protocol] = signals[protocol]
    BY <1>1, <1>5, Typed, NumberOf
  <2>5. protocol # 0 => (Coming(protocol)' <=> Coming(protocol))
    BY <1>0, <2>4 DEF Coming
  <2>6. SeenOnce' /\ StopsBefore'
    BY <1>0, <2>1, <2>4, <2>5 DEF XrayInv, SeenOnce, StopsBefore, histVars
  <2>7. EndsWell'
    BY <1>0, <1>3, <2>1 DEF XrayInv, EndsWell, SwitchGoes, Ipv6Returns, RoutesGo, SwitchComes,
      Ipv6Stops, kernelVars, histVars
  <2>. QED  BY <1>1, <2>2, <2>3, <2>6, <2>7 DEF XrayInv
<1>. QED  BY <1>4, <1>5

-----------------------------------------------------------------------------
(* The service *)

\* The client's own state is left alone.
LEMMA StepIpcServer ==
  ASSUME XrayInv, IpcServer
  PROVE  XrayInv'
<1>. DEFINE c == Head(calls)
            C == Tail(calls)
<1>0. /\ calls # <<>> /\ calls' = C
      /\ UNCHANGED <<userVars, waits, clientVars, pcalls, signals, histVars>>
  BY DEF IpcServer
<1>1. \/ c.op = "createPrivilegedProcess" /\ CreatePrivilegedProcess(c.p)
      \/ /\ UNCHANGED t2s
         /\ \/ c.op = "enableKillSwitch" /\ EnableKillSwitch(c.p)
            \/ c.op = "disableKillSwitch" /\ DisableKillSwitch
            \/ c.op = "StartRoutingIpv6" /\ RoutingIpv6("on")
            \/ c.op = "StopRoutingIpv6" /\ RoutingIpv6("off")
            \/ c.op = "createTun" /\ CreateTun
            \/ c.op = "deleteTun" /\ DeleteTun
            \/ c.op = "routeAddList" /\ RouteAddList(c.route)
            \/ c.op = "clearSavedRoutes" /\ ClearSavedRoutes
  BY DEF IpcServer
<1>2. /\ C \in Seq(Calls) /\ c \in Calls
      /\ \A x : Contains(calls, x) <=> Contains(C, x) \/ x = c
      /\ \A x : Once(calls, x) => Once(C, x)
      /\ Once(calls, c) => ~Contains(C, c)
  BY <1>0, Typed, TailSeq, HoldsTail
<1>3. \A ops : /\ NoneOf(calls, ops) => c.op \notin ops /\ NoneOf(C, ops)
               /\ \A x : LastOf(calls, ops, x) => LastOf(C, ops, x) \/ (c = x /\ NoneOf(C, ops))
               /\ \A x : NoneAfter(calls, x, ops) => NoneAfter(C, x, ops)
               /\ NoneAfter(calls, c, ops) => NoneOf(C, ops)
  BY <1>0, Typed, OpsTail
<1>. HIDE DEF c, C
<1>4. /\ c.op = "createPrivilegedProcess" => c.p \in Protocols /\ c = CreateCall(c.p)
      /\ c.op = "enableKillSwitch" => c.p \in Protocols
      /\ c.op = "routeAddList" => c.route \in Routes
  BY <1>2, CallParts
\* What has happened to t2s.
<1>5. \/ UNCHANGED t2s
      \/ /\ c.p \in Protocols /\ c = CreateCall(c.p)
         /\ t2s' = [t2s EXCEPT ![c.p] = "created"]
  BY <1>1, <1>4 DEF CreatePrivilegedProcess
<1>6. c = CreateCall(c.p) /\ c.p \in Protocols =>
        t2s[c.p] = "none" /\ ~Contains(C, CreateCall(c.p))
  BY <1>2, Ways DEF OneWay
<1>7. /\ t2s' \in [Protocols -> Stages]
      /\ \A p \in Protocols :
           \/ t2s'[p] = t2s[p]
           \/ /\ p = c.p /\ c = CreateCall(p) /\ t2s'[p] = "created" /\ t2s[p] = "none"
              /\ ~Contains(C, CreateCall(p))
  <2>1. CASE UNCHANGED t2s
    BY <2>1, Typed
  <2>2. CASE c.p \in Protocols /\ c = CreateCall(c.p) /\ t2s' = [t2s EXCEPT ![c.p] = "created"]
    BY <1>6, <2>2, Typed DEF Stages
  <2>. QED  BY <1>5, <2>1, <2>2
<1>8. ASSUME NEW p \in Protocols
      PROVE  OneWay(p)'
  <2>1. OneWay(p)
    BY Ways
  <2>2. UNCHANGED <<queue, opens, waits, pcalls, protocol>>
    BY <1>0 DEF userVars, clientVars
  <2>3. Contains(calls', CreateCall(p)) => Contains(calls, CreateCall(p))
    BY <1>0, <1>2
  <2>4. Once(calls', CreateCall(p))
    BY <1>0, <1>2, <2>1 DEF OneWay
  <2>5. CASE t2s'[p] = t2s[p]
    <3>1. Unmade(p) => Unmade(p)'
      BY <2>2, <2>3, <2>5 DEF Unmade
    <3>. QED  BY <2>1, <2>2, <2>3, <2>4, <2>5, <3>1 DEF OneWay
  <2>6. CASE /\ c = CreateCall(p) /\ t2s'[p] = "created" /\ t2s[p] = "none"
             /\ ~Contains(C, CreateCall(p))
    <3>1. Contains(calls, CreateCall(p)) /\ ~Contains(calls', CreateCall(p))
      BY <1>0, <1>2, <2>6
    <3>2. ~Unmade(p)
      BY <3>1 DEF Unmade
    <3>. QED  BY <2>1, <2>2, <2>4, <2>6, <3>1, <3>2 DEF OneWay
  <2>. QED  BY <1>7, <2>5, <2>6
<1>9. ASSUME NEW p \in Protocols
      PROVE  SignalsInOrder(p)'
  BY <1>0, <1>7, Ways DEF SignalsInOrder
<1>10. UNCHANGED <<protocol, waits, pcalls, signals, shown, m_connectionState, xray, process, early,
                   wild, inClear>>
  BY <1>0 DEF clientVars, histVars
<1>11. Coming(protocol)' <=> Coming(protocol)
  BY <1>10 DEF Coming
<1>12. protocol # 0 => protocol \in Protocols
  BY Typed, NumberOf
<1>13. SeenOnce'
  BY <1>7, <1>10, <1>11, <1>12 DEF XrayInv, SeenOnce
<1>14. StopsBefore'
  <2>1. ASSUME ~early, protocol # 0, Coming(protocol), t2s'[protocol] # "none"
        PROVE  NoneOf(C, StopOps)
    <3>1. CASE t2s[protocol] # "none"
      BY <1>3, <2>1, <3>1 DEF XrayInv, StopsBefore
    <3>2. CASE t2s[protocol] = "none"
      <4>1. c = CreateCall(protocol)
        BY <1>7, <1>12, <2>1, <3>2
      <4>2. NoneAfter(calls, c, StopOps)
        BY <2>1, <4>1 DEF XrayInv, StopsBefore
      <4>. QED  BY <1>3, <4>2
    <3>. QED  BY <3>1, <3>2
  <2>2. ~early /\ shown = "Connected" => NoneOf(C, StopOps)
    BY <1>3 DEF XrayInv, StopsBefore
  <2>3. ~early /\ protocol # 0 => NoneAfter(C, CreateCall(protocol), StopOps)
    BY <1>3 DEF XrayInv, StopsBefore
  <2>. QED  BY <1>0, <1>10, <1>11, <2>1, <2>2, <2>3 DEF StopsBefore
\* What has happened to the machine.
<1>15. /\ c.op = "enableKillSwitch" => killSwitch' = (IF chains THEN c.p ELSE killSwitch)
       /\ c.op = "disableKillSwitch" => killSwitch' = 0 /\ chains' = FALSE
       /\ c.op # "disableKillSwitch" => chains' = chains
       /\ c.op \notin SwitchOps => killSwitch' = killSwitch
       /\ c.op = "StartRoutingIpv6" => ipv6' \in {"on", "either"}
       /\ c.op = "StopRoutingIpv6" => ipv6' \in {"off", "either"}
       /\ c.op \notin Ipv6Ops => ipv6' = ipv6
  BY <1>1 DEF SwitchOps, Ipv6Ops, CreatePrivilegedProcess, kernelVars, CreateTun, DeleteTun,
    RouteAddList, ClearSavedRoutes, EnableKillSwitch, DisableKillSwitch, RoutingIpv6
<1>16. /\ c.op = "clearSavedRoutes" => routes' = routes \ saved /\ saved' = {}
       /\ c.op = "deleteTun" => routes' = routes \ TunRoutes /\ saved' = saved
       /\ c.op = "routeAddList" => \/ routes' = routes \cup {c.route} /\ saved' = saved \cup {c.route}
                                   \/ UNCHANGED <<routes, saved>>
       /\ c.op \notin {"clearSavedRoutes", "deleteTun", "routeAddList"} => UNCHANGED <<routes, saved>>
  BY <1>1 DEF CreatePrivilegedProcess, kernelVars, CreateTun, DeleteTun, TunGone,
    RouteAddList, ClearSavedRoutes, EnableKillSwitch, DisableKillSwitch, RoutingIpv6
<1>17. /\ routes' \subseteq saved' /\ routes' \subseteq Routes /\ saved' \subseteq Routes
       /\ c.op = "clearSavedRoutes" => routes' = {}
       /\ c.op \notin RouteOps /\ routes = {} => routes' = {}
  <2>1. routes \subseteq saved /\ routes \subseteq Routes /\ saved \subseteq Routes
    BY DEF XrayInv, EndsWell, TypeOK
  <2>. QED  BY <1>4, <1>16, <2>1 DEF RouteOps
<1>18. tun' \in [kept : BOOLEAN, up : BOOLEAN, holder : 0..MaxOpens]
  <2>1. tun \in [kept : BOOLEAN, up : BOOLEAN, holder : 0..MaxOpens]
    BY DEF XrayInv, TypeOK
  <2>2. CASE c.op = "createTun"
    <3>1. (tun.kept \/ tun.holder = 0) \in BOOLEAN
      OBVIOUS
    <3>2. tun' = tun \/ tun' = [tun EXCEPT !.kept = @ \/ tun.holder = 0, !.up = TRUE]
      BY <1>1, <2>2 DEF CreateTun, kernelVars
    <3>3. [tun EXCEPT !.kept = @ \/ tun.holder = 0, !.up = TRUE]
            \in [kept : BOOLEAN, up : BOOLEAN, holder : 0..MaxOpens]
      BY <2>1, <3>1
    <3>. QED  BY <2>1, <3>2, <3>3
  <2>3. CASE c.op = "deleteTun"
    <3>1. tun' = [kept |-> FALSE, up |-> FALSE, holder |-> 0]
      BY <1>1, <2>3 DEF DeleteTun, TunGone
    <3>2. 0 \in 0..MaxOpens
      BY BoundsAssumption
    <3>. QED  BY <3>1, <3>2
  <2>4. CASE c.op \notin {"createTun", "deleteTun"}
    <3>1. tun' = tun
      BY <1>1, <2>4 DEF CreatePrivilegedProcess, kernelVars, RouteAddList, ClearSavedRoutes,
        EnableKillSwitch, DisableKillSwitch, RoutingIpv6
    <3>. QED  BY <2>1, <3>1
  <2>. QED  BY <2>2, <2>3, <2>4
<1>19. TypeOK'
  <2>1. killSwitch' \in 0..MaxOpens
    <3>1. killSwitch \in 0..MaxOpens /\ 0 \in 0..MaxOpens
      BY BoundsAssumption DEF XrayInv, TypeOK
    <3>. QED  BY <1>4, <1>15, <3>1, NumberOf DEF SwitchOps
  <2>2. ipv6' \in {"on", "off", "either"} /\ chains' \in BOOLEAN
    <3>1. ipv6 \in {"on", "off", "either"} /\ chains \in BOOLEAN
      BY DEF XrayInv, TypeOK
    <3>2. chains' = chains \/ chains' = FALSE
      BY <1>15
    <3>3. ipv6' \in {"on", "off", "either"}
      BY <1>15, <3>1 DEF Ipv6Ops
    <3>. QED  BY <3>1, <3>2, <3>3
  <2>3. process' => protocol' # 0 /\ t2s'[protocol'] # "none"
    BY <1>7, <1>10, <1>12 DEF XrayInv, TypeOK
  <2>. QED
    BY <1>0, <1>2, <1>7, <1>17, <1>18, <2>1, <2>2, <2>3
      DEF XrayInv, TypeOK, Stages, userVars, clientVars, histVars
<1>20. EndsWell'
  <2>1. SwitchGoes => SwitchGoes'
    <3>1. ASSUME SwitchGoes
          PROVE  LastOf(C, SwitchOps, Call("disableKillSwitch"))
                   \/ (killSwitch' = 0 /\ NoneOf(C, SwitchOps))
      BY <1>3, <1>15, <3>1, CallKinds DEF SwitchGoes
    <3>. QED  BY <1>0, <3>1 DEF SwitchGoes
  <2>2. SwitchComes => SwitchComes'
    <3>1. ASSUME SwitchComes, protocol \in Guarded
          PROVE  LastOf(C, SwitchOps, CallFor("enableKillSwitch", protocol))
                   \/ ((chains' => killSwitch' = protocol) /\ NoneOf(C, SwitchOps))
      <4>1. CASE LastOf(calls, SwitchOps, CallFor("enableKillSwitch", protocol))
        <5>1. c = CallFor("enableKillSwitch", protocol) => (chains' => killSwitch' = protocol)
          <6>1. SUFFICES ASSUME c = CallFor("enableKillSwitch", protocol), chains'
                         PROVE  killSwitch' = protocol
            OBVIOUS
          <6>2. c.op = "enableKillSwitch" /\ c.p = protocol
            BY <6>1, CallKinds
          <6>3. chains' = chains /\ killSwitch' = (IF chains THEN c.p ELSE killSwitch)
            BY <1>15, <6>2
          <6>4. chains
            BY <6>1, <6>3, Zenon
          <6>. QED  BY <6>2, <6>3, <6>4
        <5>. QED  BY <1>3, <4>1, <5>1
      <4>2. CASE (chains => killSwitch = protocol) /\ NoneOf(calls, SwitchOps)
        <5>1. c.op \notin SwitchOps /\ NoneOf(C, SwitchOps)
          BY <1>3, <4>2
        <5>2. UNCHANGED <<chains, killSwitch>>
          BY <1>15, <5>1 DEF SwitchOps
        <5>. QED  BY <4>2, <5>1, <5>2
      <4>. QED  BY <3>1, <4>1, <4>2 DEF SwitchComes
    <3>. QED  BY <1>0, <1>10, <3>1 DEF SwitchComes
  <2>3. Ipv6Returns => Ipv6Returns'
    <3>1. ASSUME Ipv6Returns
          PROVE  LastOf(C, Ipv6Ops, Call("StartRoutingIpv6")) \/ (ipv6' # "off" /\ NoneOf(C, Ipv6Ops))
      BY <1>3, <1>15, <3>1, CallKinds DEF Ipv6Returns
    <3>. QED  BY <1>0, <3>1 DEF Ipv6Returns
  <2>4. Ipv6Stops => Ipv6Stops'
    <3>1. ASSUME Ipv6Stops
          PROVE  LastOf(C, Ipv6Ops, Call("StopRoutingIpv6")) \/ (ipv6' # "on" /\ NoneOf(C, Ipv6Ops))
      BY <1>3, <1>15, <3>1, CallKinds DEF Ipv6Stops
    <3>. QED  BY <1>0, <3>1 DEF Ipv6Stops
  <2>5. RoutesGo => RoutesGo'
    <3>1. ASSUME RoutesGo
          PROVE  LastOf(C, RouteOps, Call("clearSavedRoutes")) \/ (routes' = {} /\ NoneOf(C, RouteOps))
      BY <1>3, <1>17, <3>1, CallKinds DEF RoutesGo
    <3>. QED  BY <1>0, <3>1 DEF RoutesGo
  <2>6. \A p \in Protocols : Owned(p) => Owned(p)'
    BY <1>7, <1>10 DEF Owned
  <2>. QED
    BY <1>10, <1>17, <2>1, <2>2, <2>3, <2>4, <2>5, <2>6 DEF XrayInv, EndsWell
<1>. QED  BY <1>8, <1>9, <1>13, <1>14, <1>19, <1>20 DEF XrayInv

\* What the processes do to the invariant: a tun2socks goes from created to
\* running or failed, and from running to ended.
LEMMA ProcessesKeep ==
  ASSUME XrayInv,
         UNCHANGED <<userVars, waits, clientVars, calls, saved, chains, killSwitch, ipv6,
         histVars>>,
         pcalls' \in Seq(PCalls), t2s' \in [Protocols -> Stages],
         signals' \in [Protocols -> Seq(Signals)],
         tun' \in [kept : BOOLEAN, up : BOOLEAN, holder : 0..MaxOpens], routes' \subseteq routes,
         \A p \in Protocols :
           /\ Contains(pcalls', StartCall(p)) => Contains(pcalls, StartCall(p))
           /\ Once(pcalls', StartCall(p))
           /\ Contains(signals'[p], "Running") =>
                Contains(signals[p], "Running") \/ Contains(pcalls, StartCall(p))
           /\ Contains(signals[p], "finished") => Contains(signals'[p], "finished")
           /\ SignalsInOrder(p)'
           /\ ~wild => Owned(p)',
         \A p \in Protocols :
           \/ t2s'[p] = t2s[p]
           \/ /\ t2s[p] \in {"created", "running"} /\ t2s'[p] # "none"
              /\ ~Contains(pcalls', StartCall(p)) /\ ~Contains(waits, CreateWait(p))
              /\ t2s[p] = "running" => t2s'[p] = "ended" /\ Contains(signals'[p], "finished")
  PROVE  XrayInv'
<1>1. UNCHANGED <<queue, opens, closes, ipc, protocol, waits, calls, shown, m_connectionState, xray,
                  process, crashed, early, wild, inClear>>
  BY DEF userVars, clientVars, histVars
<1>2. protocol # 0 => protocol \in Protocols
  BY Typed, NumberOf
<1>3. TypeOK'
  <2>1. process' => protocol' # 0 /\ t2s'[protocol'] # "none"
    BY <1>1, <1>2 DEF XrayInv, TypeOK
  <2>2. routes' \subseteq Routes /\ saved' \subseteq Routes
    BY DEF XrayInv, TypeOK
  <2>. QED
    BY <1>1, <2>1, <2>2 DEF XrayInv, TypeOK, PCalls, Signals, Stages
<1>4. ASSUME NEW p \in Protocols
      PROVE  OneWay(p)'
  <2>1. OneWay(p)
    BY Ways
  <2>2. CASE t2s'[p] = t2s[p]
    <3>1. Unmade(p) => Unmade(p)'
      BY <1>1, <2>2 DEF Unmade
    <3>. QED  BY <1>1, <2>1, <2>2, <3>1 DEF OneWay
  <2>3. CASE /\ t2s[p] \in {"created", "running"}
             /\ ~Contains(pcalls', StartCall(p)) /\ ~Contains(waits, CreateWait(p))
    <3>1. ~Unmade(p) /\ ~Contains(calls, CreateCall(p))
      BY <2>1, <2>3 DEF Unmade, OneWay
    <3>. QED  BY <1>1, <2>1, <2>3, <3>1 DEF OneWay
  <2>. QED  BY <2>2, <2>3
<1>5. protocol # 0 => (Coming(protocol)' => Coming(protocol))
  BY <1>1, <1>2 DEF Coming
<1>6. SeenOnce'
  <2>1. /\ protocol # 0 /\ t2s[protocol] \in {"running", "ended"} => t2s'[protocol] \in {"running", "ended"}
        /\ /\ protocol # 0
           /\ t2s[protocol] = "running" \/ Contains(signals[protocol], "finished")
           => t2s'[protocol] = "running" \/ Contains(signals'[protocol], "finished")
    BY <1>2
  <2>. QED  BY <1>1, <1>5, <2>1 DEF XrayInv, SeenOnce
<1>7. StopsBefore'
  <2>1. protocol # 0 /\ t2s'[protocol] # "none" => t2s[protocol] # "none"
    BY <1>2
  <2>. QED  BY <1>1, <1>5, <2>1 DEF XrayInv, StopsBefore
<1>8. EndsWell'
  <2>1. routes' \subseteq saved'
    BY DEF XrayInv, EndsWell
  <2>2. /\ SwitchGoes => SwitchGoes'
        /\ Ipv6Returns => Ipv6Returns'
        /\ SwitchComes => SwitchComes'
        /\ Ipv6Stops => Ipv6Stops'
    BY <1>1 DEF SwitchGoes, Ipv6Returns, SwitchComes, Ipv6Stops
  <2>3. RoutesGo => RoutesGo'
    BY <1>1 DEF RoutesGo
  <2>. QED  BY <1>1, <2>1, <2>2, <2>3 DEF XrayInv, EndsWell
<1>. QED  BY <1>3, <1>4, <1>6, <1>7, <1>8 DEF XrayInv

\* tun2socks n ends, by itself or because it is closed.
LEMMA EndKeeps ==
  ASSUME XrayInv, NEW n \in Protocols, t2s[n] = "running", Ended(n),
         UNCHANGED <<userVars, waits, clientVars, calls, saved, chains, killSwitch, ipv6,
         histVars>>,
         pcalls' \in Seq(PCalls),
         \A p \in Protocols :
           /\ Contains(pcalls', StartCall(p)) <=> Contains(pcalls, StartCall(p))
           /\ Once(pcalls', StartCall(p))
           /\ ClosedLast(pcalls, p) /\ p # n => ClosedLast(pcalls', p)
  PROVE  XrayInv'
<1>. DEFINE q == signals[n]
            r == Append(q, "finished")
<1>1. /\ t2s' = [t2s EXCEPT ![n] = "ended"]
      /\ signals' = [signals EXCEPT ![n] = r]
      /\ \/ tun' = tun /\ routes' = routes
         \/ tun' = [tun EXCEPT !.holder = 0] /\ routes' = routes
         \/ TunGone
  BY DEF Ended
<1>2. /\ q \in Seq(Signals) /\ "finished" \in Signals /\ r \in Seq(Signals)
      /\ Len(q) \in Nat /\ Len(r) = Len(q) + 1 /\ r[Len(q) + 1] = "finished"
      /\ \A i \in 1 .. Len(q) : r[i] = q[i]
      /\ \A x : Contains(r, x) <=> Contains(q, x) \/ x = "finished"
  <2>1. q \in Seq(Signals) /\ "finished" \in Signals
    BY Typed DEF Signals
  <2>. QED  BY <2>1, AppendSeq, HoldsAppend
<1>. HIDE DEF r
<1>3. /\ t2s' \in [Protocols -> Stages] /\ t2s'[n] = "ended"
      /\ signals' \in [Protocols -> Seq(Signals)] /\ signals'[n] = r
      /\ \A p \in Protocols : p # n => t2s'[p] = t2s[p] /\ signals'[p] = signals[p]
  BY <1>1, <1>2, Typed DEF Stages
<1>4. tun' \in [kept : BOOLEAN, up : BOOLEAN, holder : 0..MaxOpens] /\ routes' \subseteq routes
  <2>1. tun \in [kept : BOOLEAN, up : BOOLEAN, holder : 0..MaxOpens] /\ 0 \in 0..MaxOpens
    BY BoundsAssumption DEF XrayInv, TypeOK
  <2>2. CASE tun' = tun /\ routes' = routes
    BY <2>1, <2>2
  <2>3. CASE tun' = [tun EXCEPT !.holder = 0] /\ routes' = routes
    BY <2>1, <2>3
  <2>4. CASE TunGone
    BY <2>1, <2>4 DEF TunGone
  <2>. QED  BY <1>1, <2>2, <2>3, <2>4
<1>5. OneWay(n) /\ SignalsInOrder(n)
  BY Ways
<1>6. ~Contains(waits, CreateWait(n)) /\ ~Contains(pcalls, StartCall(n))
  BY <1>5 DEF OneWay
<1>7. ASSUME NEW p \in Protocols
      PROVE  SignalsInOrder(p)'
  <2>1. CASE p = n
    <3>1. \A i \in 1 .. Len(r) : r[i] = "Running" => i = 1
      <4>1. \A i \in 1 .. Len(q) : q[i] = "Running" => i = 1
        BY <1>5 DEF SignalsInOrder
      <4>. HIDE DEF q
      <4>2. \A i \in 1 .. Len(r) : i \in 1 .. Len(q) \/ i = Len(q) + 1
        BY <1>2
      <4>. QED  BY <1>2, <4>1, <4>2
    <3>. QED  BY <1>2, <1>3, <2>1, <3>1 DEF SignalsInOrder
  <2>2. CASE p # n
    BY <1>3, <2>2, Ways DEF SignalsInOrder
  <2>. QED  BY <2>1, <2>2
<1>8. UNCHANGED <<process, protocol>>
  BY DEF clientVars
<1>9. ASSUME ~wild, NEW p \in Protocols
      PROVE  Owned(p)'
  <2>1. Owned(p)
    BY <1>9 DEF XrayInv, EndsWell
  <2>2. CASE p = n
    BY <1>3, <1>6, <2>2 DEF Owned
  <2>3. CASE p # n
    BY <1>3, <1>8, <2>1, <2>3 DEF Owned
  <2>. QED  BY <2>2, <2>3
<1>10. \A p \in Protocols :
         /\ Contains(signals'[p], "Running") => Contains(signals[p], "Running")
         /\ Contains(signals[p], "finished") => Contains(signals'[p], "finished")
         /\ SignalsInOrder(p)'
         /\ ~wild => Owned(p)'
  BY <1>2, <1>3, <1>7, <1>9
<1>11. \A p \in Protocols :
         \/ t2s'[p] = t2s[p]
         \/ /\ t2s[p] \in {"created", "running"} /\ t2s'[p] # "none"
            /\ ~Contains(pcalls', StartCall(p)) /\ ~Contains(waits, CreateWait(p))
            /\ t2s[p] = "running" => t2s'[p] = "ended" /\ Contains(signals'[p], "finished")
  BY <1>2, <1>3, <1>6
<1>. QED  BY <1>3, <1>4, <1>10, <1>11, ProcessesKeep

LEMMA StepTun2SocksEnds ==
  ASSUME XrayInv, Tun2SocksEnds
  PROVE  XrayInv'
<1>1. PICK n \in Protocols : t2s[n] = "running" /\ Ended(n)
  BY DEF Tun2SocksEnds
<1>2. UNCHANGED <<userVars, waits, clientVars, calls, pcalls, saved, chains, killSwitch, ipv6,
         histVars>>
  BY DEF Tun2SocksEnds
<1>3. pcalls' \in Seq(PCalls) /\ \A p \in Protocols : Once(pcalls', StartCall(p))
  BY <1>2, Typed, Ways DEF OneWay
<1>. QED  BY <1>1, <1>2, <1>3, EndKeeps

LEMMA StepProcess ==
  ASSUME XrayInv, IpcServerProcess
  PROVE  XrayInv'
<1>. DEFINE c == Head(pcalls)
            n == c.p
            PC == Tail(pcalls)
<1>0. /\ pcalls # <<>> /\ pcalls' = PC
      /\ UNCHANGED <<userVars, waits, clientVars, calls, saved, chains, killSwitch, ipv6,
         histVars>>
  BY DEF IpcServerProcess
<1>1. \/ c.op = "start" /\ ProcessStart(n)
      \/ c.op = "close" /\ ProcessClose(n)
  BY DEF IpcServerProcess
<1>2. /\ PC \in Seq(PCalls) /\ c \in PCalls
      /\ \A x : Contains(pcalls, x) <=> Contains(PC, x) \/ x = c
      /\ \A x : Once(pcalls, x) => Once(PC, x)
      /\ Once(pcalls, c) => ~Contains(PC, c)
  BY <1>0, Typed, TailSeq, HoldsTail
<1>3. \A p : ClosedLast(pcalls, p) =>
        ClosedLast(PC, p) \/ (c = CloseCall(p) /\ ~Contains(PC, StartCall(p)))
  BY <1>0, Typed, ClosedTail
<1>. HIDE DEF c, PC
<1>4. /\ n \in Protocols
      /\ c.op = "start" => c = StartCall(n)
      /\ c.op = "close" => c = CloseCall(n)
  BY <1>2, PCallKinds
<1>. HIDE DEF n
<1>5. \A p \in Protocols : Once(pcalls', StartCall(p))
  BY <1>0, <1>2, Ways DEF OneWay
<1>6. UNCHANGED <<process, protocol>>
  BY <1>0 DEF clientVars
<1>7. tun \in [kept : BOOLEAN, up : BOOLEAN, holder : 0..MaxOpens]
  BY DEF XrayInv, TypeOK
<1>8. CASE c.op = "start" /\ ProcessStart(n)
  <2>1. c = StartCall(n) /\ t2s[n] = "created" /\ signals[n] = <<>> /\ ~Contains(waits, CreateWait(n))
        /\ ~Contains(PC, StartCall(n))
    BY <1>2, <1>4, <1>8, Ways DEF OneWay, SignalsInOrder
  <2>2. \A p : Contains(PC, StartCall(p)) => Contains(pcalls, StartCall(p))
    BY <1>2
  <2>3. ASSUME NEW p \in Protocols, ~wild, p = n \/ t2s'[p] = t2s[p]
        PROVE  Owned(p)'
    <3>1. Owned(p)
      BY <2>3 DEF XrayInv, EndsWell
    <3>2. c # CloseCall(p)
      BY <2>1, PCallKinds
    <3>3. ClosedLast(pcalls, p) => ClosedLast(PC, p)
      BY <1>3, <3>2
    <3>4. p = n => Contains(pcalls, StartCall(p))
      BY <1>2, <2>1
    <3>. QED  BY <1>0, <1>6, <2>2, <2>3, <3>1, <3>3, <3>4 DEF Owned
  <2>4. CASE /\ t2s' = [t2s EXCEPT ![n] = "running"]
             /\ signals' = [signals EXCEPT ![n] = Append(@, "Running")]
             /\ tun' = IF tun.holder = 0 THEN [tun EXCEPT !.holder = n] ELSE tun
             /\ UNCHANGED routes
    <3>. DEFINE r == Append(signals[n], "Running")
    <3>1. /\ r \in Seq(Signals) /\ Len(r) = 1 /\ r[1] = "Running"
          /\ \A x : Contains(r, x) <=> x = "Running"
      <4>1. signals[n] \in Seq(Signals) /\ "Running" \in Signals /\ Len(signals[n]) = 0
        BY <1>4, <2>1, Typed DEF Signals
      <4>2. \A x : ~Contains(signals[n], x)
        BY <2>1, HoldsNone
      <4>. QED  BY <4>1, <4>2, AppendSeq, HoldsAppend
    <3>. HIDE DEF r
    <3>2. /\ t2s' \in [Protocols -> Stages] /\ t2s'[n] = "running"
          /\ signals' \in [Protocols -> Seq(Signals)] /\ signals'[n] = r
          /\ \A p \in Protocols : p # n => t2s'[p] = t2s[p] /\ signals'[p] = signals[p]
      BY <1>4, <2>4, <3>1, Typed DEF Stages, r
    <3>3. tun' \in [kept : BOOLEAN, up : BOOLEAN, holder : 0..MaxOpens]
      BY <1>4, <1>7, <2>4, NumberOf
    <3>4. ASSUME NEW p \in Protocols
          PROVE  SignalsInOrder(p)'
      <4>1. CASE p = n
        <5>1. \A i \in 1 .. Len(r) : i = 1
          BY <3>1
        <5>. QED  BY <3>1, <3>2, <4>1, <5>1 DEF SignalsInOrder
      <4>2. CASE p # n
        BY <3>2, <4>2, Ways DEF SignalsInOrder
      <4>. QED  BY <4>1, <4>2
    <3>5. \A p \in Protocols :
            /\ Contains(pcalls', StartCall(p)) => Contains(pcalls, StartCall(p))
            /\ Contains(signals'[p], "Running") =>
                 Contains(signals[p], "Running") \/ Contains(pcalls, StartCall(p))
            /\ Contains(signals[p], "finished") => Contains(signals'[p], "finished")
            /\ SignalsInOrder(p)'
            /\ ~wild => Owned(p)'
      <4>1. Contains(pcalls, StartCall(n)) /\ ~Contains(signals[n], "finished")
        BY <1>2, <2>1, HoldsNone
      <4>. QED  BY <1>0, <2>2, <2>3, <3>2, <3>4, <4>1
    <3>6. \A p \in Protocols :
            \/ t2s'[p] = t2s[p]
            \/ /\ t2s[p] \in {"created", "running"} /\ t2s'[p] # "none"
               /\ ~Contains(pcalls', StartCall(p)) /\ ~Contains(waits, CreateWait(p))
               /\ t2s[p] = "running" => t2s'[p] = "ended" /\ Contains(signals'[p], "finished")
      BY <1>0, <2>1, <3>2
    <3>. QED
      BY <1>0, <1>2, <1>5, <2>4, <3>2, <3>3, <3>5, <3>6, ProcessesKeep
  <2>5. CASE t2s' = [t2s EXCEPT ![n] = "failed"] /\ UNCHANGED <<signals, tun, routes>>
    <3>1. /\ t2s' \in [Protocols -> Stages] /\ t2s'[n] = "failed"
          /\ \A p \in Protocols : p # n => t2s'[p] = t2s[p]
      BY <1>4, <2>5, Typed DEF Stages
    <3>2. ASSUME NEW p \in Protocols
          PROVE  SignalsInOrder(p)'
      <4>1. CASE p = n
        <5>1. SignalsInOrder(n)
          BY <1>4, Ways
        <5>. QED  BY <2>1, <2>5, <3>1, <4>1, <5>1 DEF SignalsInOrder
      <4>2. CASE p # n
        BY <2>5, <3>1, <4>2, Ways DEF SignalsInOrder
      <4>. QED  BY <4>1, <4>2
    <3>3. \A p \in Protocols :
            /\ Contains(pcalls', StartCall(p)) => Contains(pcalls, StartCall(p))
            /\ Contains(signals'[p], "Running") =>
                 Contains(signals[p], "Running") \/ Contains(pcalls, StartCall(p))
            /\ Contains(signals[p], "finished") => Contains(signals'[p], "finished")
            /\ SignalsInOrder(p)'
            /\ ~wild => Owned(p)'
      BY <1>0, <2>2, <2>3, <2>5, <3>1, <3>2
    <3>4. \A p \in Protocols :
            \/ t2s'[p] = t2s[p]
            \/ /\ t2s[p] \in {"created", "running"} /\ t2s'[p] # "none"
               /\ ~Contains(pcalls', StartCall(p)) /\ ~Contains(waits, CreateWait(p))
               /\ t2s[p] = "running" => t2s'[p] = "ended" /\ Contains(signals'[p], "finished")
      BY <1>0, <2>1, <3>1
    <3>. QED
      BY <1>0, <1>2, <1>5, <1>7, <2>5, <3>1, <3>3, <3>4, Typed, ProcessesKeep
  <2>. QED  BY <1>8, <2>4, <2>5 DEF ProcessStart
<1>9. CASE c.op = "close" /\ ProcessClose(n)
  <2>1. c = CloseCall(n)
    BY <1>4, <1>9
  <2>2. \A p : Contains(PC, StartCall(p)) <=> Contains(pcalls, StartCall(p))
    BY <1>2, <2>1, PCallKinds
  <2>3. \A p : /\ ClosedLast(pcalls, p) /\ p # n => ClosedLast(PC, p)
               /\ ClosedLast(pcalls, p) /\ Contains(PC, StartCall(p)) => ClosedLast(PC, p)
    BY <1>3, <2>1, PCallKinds
  <2>4. CASE t2s[n] = "running"
    <3>1. Ended(n)
      BY <1>9, <2>4 DEF ProcessClose
    <3>2. \A p \in Protocols :
            /\ Contains(pcalls', StartCall(p)) <=> Contains(pcalls, StartCall(p))
            /\ Once(pcalls', StartCall(p))
            /\ ClosedLast(pcalls, p) /\ p # n => ClosedLast(pcalls', p)
      BY <1>0, <1>5, <2>2, <2>3
    <3>. QED  BY <1>0, <1>2, <1>4, <2>4, <3>1, <3>2, EndKeeps
  <2>5. CASE t2s[n] # "running"
    <3>1. UNCHANGED <<t2s, signals, tun, routes>>
      BY <1>9, <2>5 DEF ProcessClose
    <3>2. ASSUME NEW p \in Protocols, ~wild
          PROVE  Owned(p)'
      <4>1. Owned(p)
        BY <3>2 DEF XrayInv, EndsWell
      <4>. QED  BY <1>0, <1>6, <2>2, <2>3, <2>5, <3>1, <4>1 DEF Owned
    <3>3. \A p \in Protocols :
            /\ Contains(pcalls', StartCall(p)) => Contains(pcalls, StartCall(p))
            /\ Contains(signals'[p], "Running") =>
                 Contains(signals[p], "Running") \/ Contains(pcalls, StartCall(p))
            /\ Contains(signals[p], "finished") => Contains(signals'[p], "finished")
            /\ SignalsInOrder(p)'
            /\ ~wild => Owned(p)'
      BY <1>0, <2>2, <3>1, <3>2, SignalsKept
    <3>. QED
      BY <1>0, <1>2, <1>5, <1>7, <3>1, <3>3, Typed, ProcessesKeep
  <2>. QED  BY <2>4, <2>5
<1>. QED  BY <1>1, <1>8, <1>9

-----------------------------------------------------------------------------
(* The theorems *)

LEMMA InitHolds == Init => XrayInv
<1>. SUFFICES ASSUME Init PROVE XrayInv
  OBVIOUS
<1>1. /\ queue = <<>> /\ waits = <<>> /\ calls = <<>> /\ pcalls = <<>>
      /\ opens = 0 /\ closes = 0 /\ protocol = 0 /\ killSwitch = 0
      /\ shown = "Disconnected" /\ m_connectionState = "Unknown"
      /\ routes = {} /\ saved = {}
      /\ signals = [p \in Protocols |-> <<>>] /\ t2s = [p \in Protocols |-> "none"]
  BY DEF Init
<1>2. /\ ipc = FALSE /\ xray = FALSE /\ process = FALSE /\ ipv6 = "on" /\ chains \in BOOLEAN
      /\ crashed = FALSE /\ wild = FALSE /\ early = FALSE /\ inClear = FALSE
  BY DEF Init
<1>3. TypeOK
  <2>1. 0 \in 0..MaxOpens /\ 0 \in 0..MaxCloses
    BY BoundsAssumption
  <2>2. tun \in [kept : BOOLEAN, up : BOOLEAN, holder : 0..MaxOpens]
    BY <2>1 DEF Init
  <2>3. signals \in [Protocols -> Seq({"Running", "finished"})]
    BY <1>1
  <2>4. /\ queue \in Seq(0..MaxOpens) /\ waits \in Seq(Waits) /\ calls \in Seq(Calls)
        /\ pcalls \in Seq([op : {"start", "close"}, p : Protocols])
        /\ opens \in 0..MaxOpens /\ closes \in 0..MaxCloses /\ protocol \in 0..MaxOpens
        /\ killSwitch \in 0..MaxOpens
    BY <1>1, <2>1
  <2>5. /\ shown \in States /\ m_connectionState \in States
        /\ t2s \in [Protocols -> {"none", "created", "running", "failed", "ended"}]
        /\ routes \subseteq Routes /\ saved \subseteq Routes
    BY <1>1 DEF States
  <2>. QED  BY <1>2, <2>2, <2>3, <2>4, <2>5 DEF TypeOK
<1>4. ASSUME NEW p \in Protocols
      PROVE  OneWay(p) /\ SignalsInOrder(p)
  <2>1. /\ t2s[p] = "none" /\ signals[p] = <<>> /\ p # protocol
        /\ \A x : /\ ~Contains(<<>>, x) /\ Once(<<>>, x)
    BY <1>1, HoldsNone, NumberOf
  <2>2. OneWay(p)
    BY <1>1, <2>1 DEF OneWay, Unmade
  <2>3. \A i \in 1 .. Len(signals[p]) : FALSE
    BY <2>1
  <2>. QED  BY <2>1, <2>2, <2>3 DEF SignalsInOrder
<1>5. SeenOnce /\ StopsBefore
  BY <1>1 DEF SeenOnce, StopsBefore
<1>6. EndsWell
  BY <1>1, <1>2, HoldsNone
    DEF EndsWell, SwitchGoes, Ipv6Returns, RoutesGo, Owned
<1>. QED  BY <1>3, <1>4, <1>5, <1>6 DEF XrayInv

LEMMA Stutters ==
  ASSUME XrayInv, UNCHANGED vars
  PROVE  XrayInv'
<1>1. UNCHANGED <<waits, clientVars, calls, pcalls, signals, t2s, kernelVars, histVars>>
  BY DEF vars
<1>2. UNCHANGED <<queue, opens, closes, ipc>>
  BY DEF vars, userVars
<1>3. TypeOK'
  BY <1>1, <1>2 DEF XrayInv, TypeOK, clientVars, kernelVars, histVars
<1>4. \A p \in Protocols : OneWay(p)'
  BY <1>1, <1>2, Ways DEF OneWay, Unmade, clientVars
<1>. QED  BY <1>1, <1>3, <1>4, RestKept DEF XrayInv

LEMMA StepHolds == XrayInv /\ [Next]_vars => XrayInv'
BY StepOpen, StepClose, StepInitIpc, StepConnect, StepCreated, StepDisconnect, StepCleared,
   StepXrayFinished, StepStateChanged, StepFinished, StepIpcServer, StepProcess,
   StepTun2SocksEnds, Stutters
   DEF Next, UserStep, ClientStep

\* The inductive invariant: connect commands make their way once, and the calls
\* that are on their way to the service leave the machine as the client shows it.
THEOREM XrayInvariant == Spec => []XrayInv
BY InitHolds, StepHolds, PTL DEF Spec

\* The variables of the client and of the service keep their types, and
\* m_t2sProcess is only set in a protocol whose process was made.
THEOREM TypeCorrect == Spec => []TypeOK
<1>1. XrayInv => TypeOK
  BY DEF XrayInv
<1>. QED  BY <1>1, XrayInvariant, PTL

\* However often the user connects and disconnects: once VpnConnection has no
\* protocol and all calls are through, xray, tun2socks, kill switch, IPv6 and
\* routes are as before, but for the two exceptions that the property names.
THEOREM Restored == Spec => []DisconnectedMeansRestored
<1>1. ASSUME XrayInv, AtRest, protocol = 0, ~wild
      PROVE  /\ ~xray /\ \A p \in Protocols : t2s[p] # "running"
             /\ killSwitch = 0 /\ ipv6 # "off"
             /\ routes = {} \/ inClear
  <2>1. calls = <<>> /\ pcalls = <<>> /\ ~process
    BY <1>1 DEF AtRest, XrayInv, TypeOK
  <2>2. SwitchGoes /\ Ipv6Returns /\ (RoutesGo \/ inClear) /\ ~xray
    BY <1>1 DEF XrayInv, EndsWell
  <2>3. killSwitch = 0 /\ ipv6 # "off" /\ (routes = {} \/ inClear)
    BY <2>1, <2>2, HoldsNone DEF SwitchGoes, Ipv6Returns, RoutesGo
  <2>4. ASSUME NEW p \in Protocols
        PROVE  t2s[p] # "running"
    <3>1. Owned(p)
      BY <1>1 DEF XrayInv, EndsWell
    <3>. QED  BY <2>1, <3>1, HoldsNone DEF Owned
  <2>. QED  BY <2>2, <2>3, <2>4
<1>2. XrayInv => DisconnectedMeansRestored
  BY <1>1 DEF DisconnectedMeansRestored
<1>. QED  BY <1>2, XrayInvariant, PTL

\* However often the user connects and disconnects: what VpnConnection shows as
\* connected has xray and tun2socks, no IPv6 unless turning it off has failed, and
\* the kill switch for its server where it is asked for and the chains are there.
THEOREM Whole == Spec => []ConnectedMeansWhole
<1>1. ASSUME XrayInv, AtRest, shown = "Connected", ~wild, ~early
      PROVE  /\ protocol # 0 /\ xray /\ t2s[protocol] = "running"
             /\ ipv6 # "on"
             /\ protocol \in Guarded /\ chains => killSwitch = protocol
  <2>1. /\ protocol # 0 /\ xray
        /\ t2s[protocol] = "running" \/ Contains(signals[protocol], "finished")
    BY <1>1 DEF XrayInv, SeenOnce
  <2>2. protocol \in Protocols
    BY <1>1, <2>1, Typed, NumberOf
  <2>3. calls = <<>> /\ signals[protocol] = <<>>
    BY <1>1, <2>2 DEF AtRest
  <2>4. SwitchComes /\ Ipv6Stops
    BY <1>1 DEF XrayInv, EndsWell
  <2>5. ipv6 # "on" /\ (protocol \in Guarded /\ chains => killSwitch = protocol)
    BY <2>3, <2>4, HoldsNone DEF SwitchComes, Ipv6Stops
  <2>6. t2s[protocol] = "running"
    BY <2>1, <2>3, HoldsNone
  <2>. QED  BY <2>1, <2>5, <2>6
<1>2. XrayInv => ConnectedMeansWhole
  BY <1>1 DEF ConnectedMeansWhole
<1>. QED  BY <1>2, XrayInvariant, PTL

\* LinuxFirewall::uninstall() never runs under a connection that is shown: no
\* call of an older protocol's stop() is on its way by then.
THEOREM StopFirst == Spec => StopServedFirst
<1>1. ASSUME XrayInv, calls # <<>>, Head(calls) = Call("disableKillSwitch"),
             shown = "Connected", ~early
      PROVE  FALSE
  <2>1. NoneOf(calls, StopOps)
    BY <1>1 DEF XrayInv, StopsBefore
  <2>2. Head(calls).op \notin StopOps
    BY <1>1, <2>1, Typed, OpsTail
  <2>. QED  BY <1>1, <2>2, CallKinds DEF StopOps
<1>2. XrayInv /\ [Next]_vars =>
        [calls # <<>> /\ calls' = Tail(calls) /\ Head(calls) = Call("disableKillSwitch")
         => shown # "Connected" \/ early]_vars
  BY <1>1
<1>. QED  BY <1>2, XrayInvariant, PTL DEF Spec, StopServedFirst
=============================================================================
