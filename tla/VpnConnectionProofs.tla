------------------------ MODULE VpnConnectionProofs ------------------------
(* Proofs about VpnConnection, for every number of connects, disconnects,    *)
(* attempts and failures of the service.                                     *)
EXTENDS VpnConnection, TLAPS

USE DEF uiVars, serviceVars

CallRec == [call : {"connect", "disconnect"}, req : 0 .. MaxOpens]
CmdFun == [Sockets -> Seq(Commands)]
CtrlRec == [state : {"eUnknown", "eInitializing", "eReady"},
            sock : {"none", "open", "dead"}, retry : 0 .. MaxRetry, timer : BOOLEAN]

-----------------------------------------------------------------------------
(* Sequences, by index *)

LEMMA EmptySeq ==
  ASSUME NEW S, NEW q \in Seq(S)
  PROVE  q = <<>> <=> Len(q) = 0
OBVIOUS

LEMMA AppendSeq ==
  ASSUME NEW S, NEW q \in Seq(S), NEW e \in S
  PROVE  /\ Append(q, e) \in Seq(S) /\ Append(q, e) # <<>>
         /\ DOMAIN q = 1 .. Len(q) /\ Len(q) \in Nat
         /\ DOMAIN Append(q, e) = 1 .. Len(q) + 1
         /\ Len(Append(q, e)) = Len(q) + 1
         /\ Append(q, e)[Len(q) + 1] = e
         /\ \A i \in 1 .. Len(q) : Append(q, e)[i] = q[i]
OBVIOUS

LEMMA TailSeq ==
  ASSUME NEW S, NEW q \in Seq(S), q # <<>>
  PROVE  /\ Tail(q) \in Seq(S) /\ Head(q) \in S /\ Head(q) = q[1]
         /\ DOMAIN q = 1 .. Len(q) /\ Len(q) \in Nat \ {0}
         /\ DOMAIN Tail(q) = 1 .. Len(q) - 1 /\ Len(Tail(q)) = Len(q) - 1
         /\ \A i \in 1 .. Len(q) - 1 : Tail(q)[i] = q[i + 1]
OBVIOUS

LEMMA FrontSeq ==
  ASSUME NEW S, NEW q \in Seq(S), q # <<>>
  PROVE  /\ Front(q) \in Seq(S) /\ Last(q) \in S /\ Last(q) = q[Len(q)]
         /\ DOMAIN q = 1 .. Len(q) /\ Len(q) \in Nat \ {0}
         /\ DOMAIN Front(q) = 1 .. Len(q) - 1 /\ Len(Front(q)) = Len(q) - 1
         /\ \A i \in 1 .. Len(q) - 1 : Front(q)[i] = q[i]
<1>1. Last(q) \in S /\ Last(q) = q[Len(q)] /\ Len(q) \in Nat \ {0} /\ DOMAIN q = 1 .. Len(q)
  BY DEF Last
<1>2. Front(q) \in Seq(S) /\ Len(Front(q)) = Len(q) - 1
  BY DEF Front
<1>3. DOMAIN Front(q) = 1 .. Len(q) - 1
  BY <1>2
<1>4. \A i \in 1 .. Len(q) - 1 : Front(q)[i] = q[i]
  BY DEF Front
<1>. QED  BY <1>1, <1>2, <1>3, <1>4

LEMMA LastOfTail ==
  ASSUME NEW S, NEW q \in Seq(S), q # <<>>
  PROVE  IF Len(q) = 1 THEN Tail(q) = <<>> /\ Last(q) = Head(q)
                       ELSE Tail(q) # <<>> /\ Last(Tail(q)) = Last(q)
<1>. DEFINE r == Tail(q)
<1>1. /\ Len(q) \in Nat \ {0} /\ Len(r) = Len(q) - 1 /\ r \in Seq(S)
      /\ Head(q) = q[1]
      /\ \A i \in 1 .. Len(q) - 1 : r[i] = q[i + 1]
  BY TailSeq
<1>. HIDE DEF r
<1>2. r = <<>> <=> Len(q) = 1
  BY <1>1, EmptySeq
<1>3. Len(q) = 1 => Last(q) = Head(q)
  BY <1>1 DEF Last
<1>4. Len(q) # 1 => Last(r) = Last(q)
  BY <1>1 DEF Last
<1>. QED  BY <1>2, <1>3, <1>4 DEF r

LEMMA ConcatSeq ==
  ASSUME NEW S, NEW q \in Seq(S), NEW r \in Seq(S)
  PROVE  /\ q \o r \in Seq(S)
         /\ DOMAIN q = 1 .. Len(q) /\ Len(q) \in Nat
         /\ DOMAIN r = 1 .. Len(r) /\ Len(r) \in Nat
         /\ DOMAIN (q \o r) = 1 .. Len(q) + Len(r)
         /\ Len(q \o r) = Len(q) + Len(r)
         /\ \A i \in 1 .. Len(q) : (q \o r)[i] = q[i]
         /\ \A i \in 1 .. Len(r) : (q \o r)[Len(q) + i] = r[i]
OBVIOUS

LEMMA ReplacedFirst ==
  ASSUME NEW S, NEW p \in Seq(S), p # <<>>, NEW d \in S
  PROVE  /\ <<d>> \o Tail(p) \in Seq(S) /\ Len(<<d>> \o Tail(p)) = Len(p)
         /\ DOMAIN (<<d>> \o Tail(p)) = DOMAIN p
         /\ (<<d>> \o Tail(p))[1] = d
         /\ \A i \in DOMAIN p : i # 1 => (<<d>> \o Tail(p))[i] = p[i]
OBVIOUS

-----------------------------------------------------------------------------
(* Which requests a queue holds *)

LEMMA HoldsAppend ==
  ASSUME NEW S, NEW q \in Seq(S), NEW e \in S
  PROVE  /\ \A n : Holds(Append(q, e), n) <=> Holds(q, n) \/ e.req = n
         /\ Once(q) /\ (e.req = 0 \/ ~Holds(q, e.req)) => Once(Append(q, e))
<1>1. \A n : Holds(Append(q, e), n) <=> Holds(q, n) \/ e.req = n
  BY AppendSeq DEF Holds
<1>2. ASSUME Once(q), e.req = 0 \/ ~Holds(q, e.req)
      PROVE  Once(Append(q, e))
  BY <1>2, AppendSeq DEF Holds, Once
<1>. QED  BY <1>1, <1>2

LEMMA HoldsTail ==
  ASSUME NEW S, NEW q \in Seq(S), q # <<>>
  PROVE  /\ \A n : Holds(q, n) <=> Holds(Tail(q), n) \/ Head(q).req = n
         /\ Once(q) => Once(Tail(q))
         /\ Once(q) /\ Head(q).req # 0 => ~Holds(Tail(q), Head(q).req)
<1>1. /\ Head(q) = q[1] /\ DOMAIN q = 1 .. Len(q) /\ Len(q) \in Nat \ {0}
      /\ DOMAIN Tail(q) = 1 .. Len(q) - 1
      /\ \A i \in 1 .. Len(q) - 1 : Tail(q)[i] = q[i + 1]
  BY TailSeq
<1>2. ASSUME NEW n
      PROVE  Holds(q, n) <=> Holds(Tail(q), n) \/ Head(q).req = n
  <2>1. ASSUME Holds(q, n)
        PROVE  Holds(Tail(q), n) \/ Head(q).req = n
    <3>1. PICK i \in 1 .. Len(q) : q[i].req = n
      BY <1>1, <2>1 DEF Holds
    <3>2. CASE i = 1
      BY <1>1, <3>1, <3>2
    <3>3. CASE i # 1
      <4>1. i - 1 \in 1 .. Len(q) - 1 /\ Tail(q)[i - 1].req = n
        BY <1>1, <3>1, <3>3
      <4>. QED  BY <1>1, <4>1 DEF Holds
    <3>. QED  BY <3>2, <3>3
  <2>2. ASSUME Holds(Tail(q), n) \/ Head(q).req = n
        PROVE  Holds(q, n)
    BY <1>1, <2>2 DEF Holds
  <2>. QED  BY <2>1, <2>2
<1>3. Once(q) => Once(Tail(q))
  BY <1>1 DEF Once
<1>4. Once(q) /\ Head(q).req # 0 => ~Holds(Tail(q), Head(q).req)
  BY <1>1 DEF Once, Holds
<1>. QED  BY <1>2, <1>3, <1>4

LEMMA HoldsFront ==
  ASSUME NEW S, NEW q \in Seq(S), q # <<>>
  PROVE  /\ \A n : Holds(q, n) <=> Holds(Front(q), n) \/ Last(q).req = n
         /\ Once(q) => Once(Front(q))
         /\ Once(q) /\ Last(q).req # 0 => ~Holds(Front(q), Last(q).req)
<1>1. /\ Last(q) = q[Len(q)] /\ DOMAIN q = 1 .. Len(q) /\ Len(q) \in Nat \ {0}
      /\ DOMAIN Front(q) = 1 .. Len(q) - 1
      /\ \A i \in 1 .. Len(q) - 1 : Front(q)[i] = q[i]
  BY FrontSeq
<1>2. \A n : Holds(q, n) <=> Holds(Front(q), n) \/ Last(q).req = n
  BY <1>1 DEF Holds
<1>3. Once(q) => Once(Front(q))
  BY <1>1 DEF Once
<1>4. Once(q) /\ Last(q).req # 0 => ~Holds(Front(q), Last(q).req)
  BY <1>1 DEF Once, Holds
<1>. QED  BY <1>2, <1>3, <1>4

-----------------------------------------------------------------------------
(* The UI thread *)

LEMMA InvTyped ==
  ASSUME ClientInv
  PROVE  /\ waiting \in Seq(1 .. MaxOpens) /\ vpnQueue \in Seq(CallRec)
         /\ calls \in Seq(CallRec) /\ cmds \in CmdFun
         /\ uiQueue \in Seq(States)
         /\ inbox \in Seq({"status", "connected", "disconnected"})
         /\ opens \in 0 .. MaxOpens /\ proto \in 0 .. MaxOpens
         /\ starting \in 0 .. MaxOpens /\ tunnel \in 0 .. MaxOpens
         /\ MaxOpens \in Nat
BY BoundsAssumption DEF ClientInv, TypeOK, RequestsOnce, CallRec, CmdFun

LEMMA InvTyped2 ==
  ASSUME ClientInv
  PROVE  /\ m_state \in States \ {"Error"} /\ ctrl \in CtrlRec
         /\ ctrl.timer => ctrl.state = "eInitializing" /\ ctrl.sock = "none"
         /\ up \in BOOLEAN /\ ipc \in BOOLEAN /\ accepted \in BOOLEAN
         /\ await \in BOOLEAN /\ crossed \in BOOLEAN /\ leaked \subseteq 1 .. MaxOpens
BY DEF ClientInv, TypeOK, CtrlRec, Sockets

LEMMA EmptyTyped ==
  ASSUME NEW S
  PROVE  <<>> \in Seq(S)
OBVIOUS

\* The same sets, for the next state.
LEMMA Retyped ==
  ASSUME m_state' \in States \ {"Error"}, waiting' \in Seq(1 .. MaxOpens),
         uiQueue' \in Seq(States), vpnQueue' \in Seq(CallRec), calls' \in Seq(CallRec),
         starting' \in 0 .. MaxOpens, proto' \in 0 .. MaxOpens, ctrl' \in CtrlRec,
         ctrl'.timer => ctrl'.state = "eInitializing" /\ ctrl'.sock = "none",
         inbox' \in Seq({"status", "connected", "disconnected"}),
         cmds' \in CmdFun, up' \in BOOLEAN, ipc' \in BOOLEAN,
         accepted' \in BOOLEAN, await' \in BOOLEAN,
         tunnel' \in 0 .. MaxOpens, leaked' \subseteq 1 .. MaxOpens, crossed' \in BOOLEAN
  PROVE  TypeOK'
BY DEF TypeOK, CallRec, CtrlRec, CmdFun, Sockets

LEMMA NoCtrlTyped == NoCtrl \in CtrlRec /\ ~NoCtrl.timer
BY BoundsAssumption DEF NoCtrl, CtrlRec

\* Nothing that the daemon and the socket see has changed.
LEMMA SocketKept ==
  ASSUME ClientInv,
         UNCHANGED <<proto, ctrl, inbox, cmds, accepted, leaked, up, tunnel, await>>
  PROVE  SocketOK' /\ TunnelsOwned'
BY DEF ClientInv, SocketOK, TunnelsOwned, Served, Deactivated

\* The UI will not show "Connected", or it would have before.
LEMMA ShownKept ==
  ASSUME ClientInv,
         UNCHANGED <<proto, ctrl, inbox, cmds, accepted, tunnel, crossed>>,
         Upcoming' = "Connected" => Upcoming = "Connected"
  PROVE  ConnectedBacked'
BY DEF ClientInv, ConnectedBacked, Backed, Activating, NextIs, Silent

LEMMA StepOpen ==
  ASSUME ClientInv, OpenConnection
  PROVE  ClientInv'
<1>. USE DEF OpenConnection, UserStep
<1>. DEFINE n0 == opens + 1
            w == Append(waiting, n0)
<1>0. n0 \in 1 .. MaxOpens /\ opens' = n0 /\ waiting' \in {waiting, w}
  BY InvTyped
<1>00. /\ w \in Seq(1 .. MaxOpens) /\ DOMAIN waiting = 1 .. Len(waiting)
       /\ Len(waiting) \in Nat
       /\ DOMAIN w = 1 .. Len(waiting) + 1 /\ w[Len(waiting) + 1] = n0
       /\ \A i \in 1 .. Len(waiting) : w[i] = waiting[i]
  BY <1>0, InvTyped, AppendSeq
<1>. HIDE DEF w
<1>1. TypeOK'
  BY <1>0, <1>00 DEF ClientInv, TypeOK, States
<1>2. RequestsOnce'
  <2>2. ~Awaited(n0)
    BY <1>0, InvTyped DEF ClientInv, RequestsOnce
  <2>3. \A n : Awaited(n)' => Awaited(n) \/ n = n0
    BY <1>0, <1>00 DEF Awaited
  <2>4. \A i, j \in DOMAIN waiting' : waiting'[i] = waiting'[j] => i = j
    <3>1. CASE waiting' = waiting
      BY <3>1 DEF ClientInv, RequestsOnce
    <3>2. CASE waiting' = w
      BY <2>2, <3>2, <1>00 DEF ClientInv, RequestsOnce, Awaited
    <3>. QED  BY <1>0, <3>1, <3>2
  <2>. QED
    BY <1>0, <2>3, <2>4, InvTyped DEF ClientInv, RequestsOnce, Used, Holds, Once
<1>3. SocketOK' /\ TunnelsOwned'
  BY SocketKept
<1>4. ConnectedBacked'
  BY ShownKept DEF Upcoming
<1>. QED  BY <1>1, <1>2, <1>3, <1>4 DEF ClientInv

LEMMA StepClose ==
  ASSUME ClientInv, CloseConnection
  PROVE  ClientInv'
<1>. USE DEF CloseConnection, UserStep
<1>. DEFINE e == [call |-> "disconnect", req |-> 0]
<1>0. e \in CallRec /\ e.req = 0 /\ vpnQueue' = Append(vpnQueue, e)
  BY InvTyped DEF CallRec
<1>. HIDE DEF e
<1>1. TypeOK'
  BY <1>0, InvTyped, AppendSeq DEF ClientInv, TypeOK, CallRec
<1>2. RequestsOnce'
  <2>1. Once(vpnQueue)' /\ \A n \in 1 .. MaxOpens : Holds(vpnQueue, n)' => Holds(vpnQueue, n)
    BY <1>0, InvTyped, HoldsAppend DEF ClientInv, RequestsOnce
  <2>. QED
    BY <2>1, InvTyped DEF ClientInv, RequestsOnce, Used, Awaited, Once, Holds
<1>3. SocketOK' /\ TunnelsOwned'
  BY SocketKept
<1>4. ConnectedBacked'
  BY ShownKept DEF Upcoming
<1>. QED  BY <1>1, <1>2, <1>3, <1>4 DEF ClientInv

LEMMA StepContinue ==
  ASSUME ClientInv, ContinueConnection
  PROVE  ClientInv'
<1>. USE DEF ContinueConnection, UserStep
<1>. DEFINE n0 == Last(waiting)
            e == [call |-> "connect", req |-> n0]
<1>01. /\ Front(waiting) \in Seq(1 .. MaxOpens) /\ n0 \in 1 .. MaxOpens
       /\ n0 = waiting[Len(waiting)] /\ DOMAIN waiting = 1 .. Len(waiting)
       /\ Len(waiting) \in Nat \ {0} /\ DOMAIN Front(waiting) = 1 .. Len(waiting) - 1
       /\ \A i \in 1 .. Len(waiting) - 1 : Front(waiting)[i] = waiting[i]
  BY InvTyped, FrontSeq
<1>0. /\ waiting' \in Seq(1 .. MaxOpens) /\ n0 \in 1 .. MaxOpens
      /\ e \in CallRec /\ e.req = n0
      /\ vpnQueue' \in {vpnQueue, Append(vpnQueue, e)}
  BY <1>01 DEF CallRec
<1>. HIDE DEF n0
<1>00. /\ \A n : Awaited(n)' => Awaited(n) /\ n # n0
       /\ Awaited(n0)
       /\ \A i, j \in DOMAIN waiting' : waiting'[i] = waiting'[j] => i = j
  BY <1>01 DEF ClientInv, RequestsOnce, Awaited
<1>. HIDE DEF e
<1>1. TypeOK'
  <2>1. Append(vpnQueue, e) \in Seq(CallRec)
    BY <1>0, InvTyped, AppendSeq
  <2>2. vpnQueue' \in Seq(CallRec)
    BY <1>0, <2>1, InvTyped
  <2>. QED  BY <1>0, <2>2 DEF ClientInv, TypeOK, CallRec, States
<1>2. RequestsOnce'
  <2>1. ~Holds(vpnQueue, n0) /\ n0 # 0
    BY <1>0, <1>00, InvTyped DEF ClientInv, RequestsOnce
  <2>00. Once(vpnQueue)
    BY DEF ClientInv, RequestsOnce
  <2>0. /\ \A n : Holds(Append(vpnQueue, e), n) <=> Holds(vpnQueue, n) \/ e.req = n
        /\ Once(Append(vpnQueue, e))
    BY <1>0, <2>00, <2>1, InvTyped, HoldsAppend
  <2>2. Once(vpnQueue)' /\ \A n : Holds(vpnQueue, n)' => Holds(vpnQueue, n) \/ n = n0
    <3>1. CASE vpnQueue' = vpnQueue
      BY <3>1 DEF ClientInv, RequestsOnce, Once, Holds
    <3>2. CASE vpnQueue' = Append(vpnQueue, e)
      BY <1>0, <2>0, <3>2
    <3>. QED  BY <1>0, <3>1, <3>2
  <2>3. n0 <= opens /\ ~Holds(calls, n0) /\ ~Used(n0)
    BY <1>0, <1>00, InvTyped DEF ClientInv, RequestsOnce
  <2>4. \A n : (Holds(calls, n)' <=> Holds(calls, n)) /\ (Used(n)' <=> Used(n))
    BY DEF Holds, Used
  <2>5. Once(calls)'
    BY DEF ClientInv, RequestsOnce, Once
  <2>6. starting' # 0 => proto' = 0 /\ cmds'[starting'] = <<>>
    BY DEF ClientInv, RequestsOnce, Holds
  <2>. QED
    BY <1>0, <1>00, <2>2, <2>3, <2>4, <2>5, <2>6, InvTyped DEF ClientInv, RequestsOnce
<1>3. SocketOK' /\ TunnelsOwned'
  BY SocketKept
<1>4. ConnectedBacked'
  BY ShownKept DEF Upcoming
<1>. QED  BY <1>1, <1>2, <1>3, <1>4 DEF ClientInv

LEMMA StepUi ==
  ASSUME ClientInv, OnConnectionStateChanged
  PROVE  ClientInv'
<1>. USE DEF OnConnectionStateChanged
<1>0. /\ uiQueue' \in Seq(States) /\ Head(uiQueue) \in States
      /\ m_state' \in States \ {"Error"}
  BY InvTyped, TailSeq DEF States
<1>1. TypeOK'
  BY <1>0 DEF ClientInv, TypeOK
<1>2. RequestsOnce'
  BY DEF ClientInv, RequestsOnce, Used, Awaited, Once, Holds
<1>3. SocketOK' /\ TunnelsOwned'
  BY SocketKept
<1>4. ConnectedBacked'
  <2>1. IF Len(uiQueue) = 1 THEN Tail(uiQueue) = <<>> /\ Last(uiQueue) = Head(uiQueue)
        ELSE Tail(uiQueue) # <<>> /\ Last(Tail(uiQueue)) = Last(uiQueue)
    BY InvTyped, LastOfTail
  <2>5. Upcoming' = "Connected" => Upcoming = "Connected"
    BY <2>1 DEF Upcoming
  <2>. QED  BY <2>5, ShownKept
<1>. QED  BY <1>1, <1>2, <1>3, <1>4 DEF ClientInv

-----------------------------------------------------------------------------
(* VpnConnection's thread *)

\* What is emitted decides what the UI will show.
LEMMA Emitted ==
  ASSUME ClientInv, NEW r \in Seq(States), r # <<>>, Emit(r)
  PROVE  uiQueue' \in Seq(States) /\ Upcoming' = r[Len(r)]
<1>. DEFINE q == uiQueue \o r
<1>1. /\ q \in Seq(States) /\ Len(uiQueue) \in Nat /\ Len(r) \in Nat
      /\ Len(q) = Len(uiQueue) + Len(r)
      /\ \A i \in 1 .. Len(r) : q[Len(uiQueue) + i] = r[i]
  BY InvTyped, ConcatSeq
<1>2. uiQueue' = q
  BY DEF Emit
<1>. HIDE DEF q
<1>3. Len(r) # 0
  BY EmptySeq
<1>4. q # <<>>
  BY <1>1, <1>3, EmptySeq
<1>5. Last(q) = r[Len(r)]
  BY <1>1, <1>3 DEF Last
<1>. QED  BY <1>1, <1>2, <1>4, <1>5 DEF Upcoming

\* The same for the words that are emitted.
LEMMA Words ==
  /\ \A w \in States : <<w>> \in Seq(States) /\ <<w>> # <<>> /\ Len(<<w>>) = 1
                      /\ <<w>>[1] = w
  /\ <<"Disconnected", "Disconnected">> \in Seq(States)
  /\ <<"Connecting", "Disconnected", "Disconnected">> \in Seq(States)
  /\ {"Disconnected", "Connecting", "Error", "Connected"} \subseteq States
BY DEF States

LEMMA EmitWord ==
  ASSUME ClientInv, NEW w \in States, Emit(<<w>>)
  PROVE  uiQueue' \in Seq(States) /\ Upcoming' = w
<1>. DEFINE r == <<w>>
<1>1. r \in Seq(States) /\ Len(r) = 1 /\ r[1] = w /\ r # <<>>
  OBVIOUS
<1>2. Emit(r)
  OBVIOUS
<1>. HIDE DEF r
<1>. QED  BY <1>1, <1>2, Emitted

LEMMA EmitStopped ==
  ASSUME ClientInv,
         \/ Emit(<<"Connecting", "Disconnected", "Disconnected">>)
         \/ Emit(<<"Disconnected", "Disconnected">>)
  PROVE  uiQueue' \in Seq(States) /\ Upcoming' = "Disconnected"
<1>1. CASE Emit(<<"Connecting", "Disconnected", "Disconnected">>)
  <2>. DEFINE r == <<"Connecting", "Disconnected", "Disconnected">>
  <2>1. r \in Seq(States) /\ Len(r) = 3 /\ r[3] = "Disconnected" /\ r # <<>> /\ Emit(r)
    BY <1>1 DEF States
  <2>. HIDE DEF r
  <2>. QED  BY <2>1, Emitted
<1>2. CASE Emit(<<"Disconnected", "Disconnected">>)
  <2>. DEFINE r == <<"Disconnected", "Disconnected">>
  <2>1. r \in Seq(States) /\ Len(r) = 2 /\ r[2] = "Disconnected" /\ r # <<>> /\ Emit(r)
    BY <1>2 DEF States
  <2>. HIDE DEF r
  <2>. QED  BY <2>1, Emitted
<1>. QED  BY <1>1, <1>2

LEMMA StepBeginCall ==
  ASSUME ClientInv, BeginCall
  PROVE  ClientInv'
<1>. DEFINE e == Head(vpnQueue)
            v == Tail(vpnQueue)
            c == Append(calls, e)
<1>1. /\ vpnQueue # <<>> /\ vpnQueue' = v /\ calls' = c
      /\ UNCHANGED <<uiVars, uiQueue, starting, proto, ctrl, inbox, cmds, accepted,
                     leaked, crossed, serviceVars>>
  BY DEF BeginCall
<1>2. ipc' \in BOOLEAN
  BY DEF BeginCall, ClientInv, TypeOK
<1>3. Once(vpnQueue) /\ Once(calls)
  BY DEF ClientInv, RequestsOnce
<1>4. /\ v \in Seq(CallRec) /\ e \in CallRec
      /\ \A n : Holds(vpnQueue, n) <=> Holds(v, n) \/ e.req = n
      /\ Once(v) /\ (e.req # 0 => ~Holds(v, e.req))
  BY <1>1, <1>3, InvTyped, HoldsTail, TailSeq
<1>. HIDE DEF e, v
<1>5. e.req \in 0 .. MaxOpens /\ (e.req # 0 => e.req <= opens /\ ~Holds(calls, e.req)
                                            /\ ~Awaited(e.req) /\ ~Used(e.req))
  <2>1. e.req \in 0 .. MaxOpens
    BY <1>4 DEF CallRec
  <2>. QED  BY <1>4, <2>1, InvTyped DEF ClientInv, RequestsOnce
<1>6. /\ c \in Seq(CallRec) /\ Once(c)
      /\ \A n : Holds(c, n) <=> Holds(calls, n) \/ e.req = n
  BY <1>3, <1>4, <1>5, InvTyped, HoldsAppend, AppendSeq
<1>. HIDE DEF c
<1>7. TypeOK'
  BY <1>1, <1>2, <1>4, <1>6 DEF ClientInv, TypeOK, CallRec
<1>8. RequestsOnce'
  <2>1. \A n : (Awaited(n)' <=> Awaited(n)) /\ (Used(n)' <=> Used(n))
    BY <1>1 DEF Awaited, Used, Holds
  <2>2. starting' # 0 => proto' = 0 /\ cmds'[starting'] = <<>>
    BY <1>1 DEF ClientInv, RequestsOnce, Holds
  <2>3. \A i, j \in DOMAIN waiting' : waiting'[i] = waiting'[j] => i = j
    BY <1>1 DEF ClientInv, RequestsOnce
  <2>. QED
    BY <1>1, <1>4, <1>5, <1>6, <2>1, <2>2, <2>3, InvTyped DEF ClientInv, RequestsOnce
<1>9. SocketOK' /\ TunnelsOwned'
  BY <1>1, SocketKept
<1>10. ConnectedBacked'
  BY <1>1, ShownKept DEF Upcoming
<1>. QED  BY <1>7, <1>8, <1>9, <1>10 DEF ClientInv

LEMMA LastCall ==
  ASSUME ClientInv, calls # <<>>
  PROVE  /\ Last(calls).req \in 0 .. MaxOpens
         /\ Last(calls).req # 0 => ~Used(Last(calls).req)
<1>. DEFINE e == Last(calls)
<1>1. e \in CallRec /\ Holds(calls, e.req)
  BY InvTyped, HoldsFront, FrontSeq
<1>. HIDE DEF e
<1>2. e.req \in 0 .. MaxOpens
  BY <1>1 DEF CallRec
<1>3. e.req # 0 => ~Used(e.req)
  BY <1>1, <1>2, InvTyped DEF ClientInv, RequestsOnce
<1>. QED  BY <1>2, <1>3 DEF e

\* The innermost waiting call leaves the stack; its request is used from then on.
LEMMA Resumed ==
  ASSUME ClientInv, NEW call, Resume(call),
         UNCHANGED <<opens, waiting, vpnQueue>>,
         cmds' \in CmdFun,
         \A n \in 1 .. MaxOpens : Used(n)' => Used(n) \/ n = Last(calls).req,
         starting' # 0 => proto' = 0 /\ cmds'[starting'] = <<>>
  PROVE  /\ RequestsOnce'
         /\ calls' \in Seq(CallRec) /\ ipc' = ipc
<1>. DEFINE e == Last(calls)
            c == Front(calls)
<1>1. calls # <<>> /\ calls' = c /\ ipc' = ipc
  BY DEF Resume
<1>2. Once(calls)
  BY DEF ClientInv, RequestsOnce
<1>3. /\ c \in Seq(CallRec) /\ e \in CallRec
      /\ \A n : Holds(calls, n) <=> Holds(c, n) \/ e.req = n
      /\ Once(c) /\ (e.req # 0 => ~Holds(c, e.req))
  BY <1>1, <1>2, InvTyped, HoldsFront, FrontSeq
<1>. HIDE DEF e, c
<1>4. e.req \in 0 .. MaxOpens
  BY <1>3 DEF CallRec
<1>5. e.req # 0 => e.req <= opens /\ ~Awaited(e.req) /\ ~Holds(vpnQueue, e.req) /\ ~Used(e.req)
  BY <1>3, <1>4, InvTyped DEF ClientInv, RequestsOnce
<1>6. RequestsOnce'
  <2>1. \A n : (Awaited(n)' <=> Awaited(n)) /\ (Holds(vpnQueue, n)' <=> Holds(vpnQueue, n))
    BY DEF Awaited, Holds
  <2>2. \A i, j \in DOMAIN waiting' : waiting'[i] = waiting'[j] => i = j
    BY DEF ClientInv, RequestsOnce
  <2>3. Once(vpnQueue)' /\ Once(calls)'
    BY <1>1, <1>3 DEF ClientInv, RequestsOnce, Once
  <2>4. \A n \in 1 .. MaxOpens : Used(n)' => Used(n) \/ n = e.req
    BY DEF e
  <2>5. \A n : Holds(calls, n)' <=> Holds(c, n)
    BY <1>1
  <2>. QED
    BY <1>3, <1>4, <1>5, <2>1, <2>2, <2>3, <2>4, <2>5, InvTyped DEF ClientInv, RequestsOnce
<1>. QED  BY <1>1, <1>3, <1>4, <1>5, <1>6 DEF e

\* Some commands are written to the socket of n, behind the others.
LEMMA Written ==
  ASSUME ClientInv, NEW n \in Sockets, NEW r \in Seq(Commands),
         cmds' = [cmds EXCEPT ![n] = @ \o r]
  PROVE  /\ cmds' \in CmdFun /\ \A k \in Sockets : k # n => cmds'[k] = cmds[k]
         /\ DOMAIN cmds[n] = 1 .. Len(cmds[n]) /\ Len(cmds[n]) \in Nat
         /\ DOMAIN cmds'[n] = 1 .. Len(cmds[n]) + Len(r)
         /\ \A i \in 1 .. Len(cmds[n]) : cmds'[n][i] = cmds[n][i]
         /\ \A i \in 1 .. Len(r) : cmds'[n][Len(cmds[n]) + i] = r[i]
<1>. DEFINE p == cmds[n]
            q == p \o r
<1>1. p \in Seq(Commands)
  BY InvTyped DEF CmdFun
<1>2. cmds' = [cmds EXCEPT ![n] = q]
  OBVIOUS
<1>. HIDE DEF p
<1>3. /\ q \in Seq(Commands) /\ DOMAIN p = 1 .. Len(p) /\ Len(p) \in Nat
      /\ DOMAIN q = 1 .. Len(p) + Len(r)
      /\ \A i \in 1 .. Len(p) : q[i] = p[i]
      /\ \A i \in 1 .. Len(r) : q[Len(p) + i] = r[i]
  BY <1>1, ConcatSeq
<1>. HIDE DEF q
<1>4. cmds' \in CmdFun /\ cmds'[n] = q /\ \A k \in Sockets : k # n => cmds'[k] = cmds[k]
  BY <1>2, <1>3, InvTyped DEF CmdFun
<1>. QED  BY <1>3, <1>4 DEF p

\* stop() and the destructor of the protocol.
LEMMA Stopped ==
  ASSUME ClientInv, proto # 0, NEW times \in {1, 2}, Deactivate(times), DeleteProtocol,
         UNCHANGED <<up, tunnel, await>>
  PROVE  /\ cmds' \in CmdFun /\ leaked' \subseteq 1 .. MaxOpens
         /\ \A n \in Sockets : cmds'[n] # <<>> => cmds[n] # <<>> \/ n = proto
         /\ SocketOK' /\ TunnelsOwned'
<1>1. proto' = 0 /\ ctrl' = NoCtrl /\ inbox' = <<>> /\ accepted' = FALSE
  BY DEF DeleteProtocol
<1>2. proto \in Sockets
  BY InvTyped DEF Sockets
<1>20. PICK o \in Sockets : o = proto
  BY <1>2
<1>3. leaked \subseteq 1 .. MaxOpens
  BY InvTyped2
<1>4. CASE ctrl.state = "eReady" /\ ctrl.sock = "open"
  <2>. DEFINE r == [i \in 1 .. times |-> "deactivate"]
  <2>1. cmds' = [cmds EXCEPT ![proto] = @ \o r] /\ leaked' = leaked
    BY <1>4 DEF Deactivate, Write
  <2>2. /\ r \in Seq(Commands) /\ Len(r) = times
        /\ \A i \in 1 .. times : r[i] = "deactivate"
    BY DEF Commands
  <2>. HIDE DEF r
  <2>3. /\ cmds' \in CmdFun /\ \A k \in Sockets : k # o => cmds'[k] = cmds[k]
        /\ DOMAIN cmds[o] = 1 .. Len(cmds[o]) /\ Len(cmds[o]) \in Nat
        /\ DOMAIN cmds'[o] = 1 .. Len(cmds[o]) + Len(r)
        /\ \A i \in 1 .. Len(cmds[o]) : cmds'[o][i] = cmds[o][i]
        /\ \A i \in 1 .. Len(r) : cmds'[o][Len(cmds[o]) + i] = r[i]
    BY <1>20, <2>1, <2>2, Written
  <2>. DEFINE l == Len(cmds[o])
  <2>4. l + 1 \in DOMAIN cmds'[o] /\ cmds'[o][l + 1] = "deactivate"
    BY <2>2, <2>3
  <2>5. \A i \in 0 .. l : Deactivated(o, i)'
    <3>. SUFFICES ASSUME NEW i \in 0 .. l PROVE Deactivated(o, i)'
      OBVIOUS
    <3>1. l + 1 > i
      BY <2>3
    <3>. QED  BY <2>4, <3>1 DEF Deactivated
  <2>6. \A i \in DOMAIN cmds'[o] : cmds'[o][i] \in Activations => i \in 0 .. l
    <3>. SUFFICES ASSUME NEW i \in DOMAIN cmds'[o], i \notin 0 .. l
                  PROVE  cmds'[o][i] \notin Activations
      OBVIOUS
    <3>1. i - l \in 1 .. Len(r) /\ i = l + (i - l)
      BY <2>3
    <3>2. cmds'[o][i] = "deactivate"
      BY <2>2, <2>3, <3>1
    <3>. QED  BY <3>2 DEF Activations
  <2>7. \A k \in Sockets : \A i : k # o => (Deactivated(k, i) => Deactivated(k, i)')
    BY <2>3 DEF Deactivated
  <2>8. TunnelsOwned'
    <3>1. tunnel' # 0 => tunnel' \in leaked' \/ Deactivated(tunnel, 0)'
      <4>1. CASE tunnel = o
        <5>1. Deactivated(o, 0)'
          BY <2>3, <2>5
        <5>. QED  BY <1>20, <4>1, <5>1 DEF Deactivated
      <4>2. CASE tunnel # o /\ tunnel # 0
        <5>1. tunnel \in Sockets
          BY <4>2, InvTyped DEF Sockets
        <5>2. tunnel \in leaked \/ Deactivated(tunnel, 0)
          BY <1>20, <4>2 DEF ClientInv, TunnelsOwned
        <5>3. tunnel \in leaked \/ Deactivated(tunnel, 0)'
          BY <2>7, <4>2, <5>1, <5>2 DEF Deactivated
        <5>. QED  BY <2>1, <5>3
      <4>. QED  BY <4>1, <4>2
    <3>2. ASSUME NEW n \in Sockets, NEW i \in DOMAIN cmds'[n], cmds'[n][i] \in Activations
          PROVE  n \in leaked' \/ Deactivated(n, i)'
      <4>1. CASE n = o
        BY <2>5, <2>6, <3>2, <4>1
      <4>2. CASE n # o
        <5>1. n \in leaked \/ Deactivated(n, i)
          BY <1>20, <2>3, <3>2, <4>2 DEF ClientInv, TunnelsOwned
        <5>. QED  BY <2>1, <2>7, <4>2, <5>1
      <4>. QED  BY <4>1, <4>2
    <3>. QED  BY <3>1, <3>2 DEF TunnelsOwned
  <2>9. SocketOK'
    BY <1>1, <1>4 DEF ClientInv, SocketOK, NoCtrl
  <2>. QED  BY <1>3, <1>20, <2>1, <2>3, <2>8, <2>9
<1>5. CASE ~(ctrl.state = "eReady" /\ ctrl.sock = "open")
  <2>1. /\ cmds' = cmds /\ leaked' \in {leaked, leaked \cup {proto}}
        /\ ctrl.sock = "open" => leaked' = leaked \cup {proto}
    BY <1>5 DEF Deactivate, Write
  <2>2. TunnelsOwned'
    <3>1. ctrl.sock # "open" => tunnel # proto /\ cmds[proto] = <<>>
      BY DEF ClientInv, SocketOK
    <3>2. \A k, i : Deactivated(k, i) => Deactivated(k, i)'
      BY <2>1 DEF Deactivated
    <3>3. tunnel' # 0 => tunnel' \in leaked' \/ Deactivated(tunnel, 0)'
      BY <2>1, <3>1 DEF ClientInv, TunnelsOwned, Deactivated
    <3>4. ASSUME NEW n \in Sockets, NEW i \in DOMAIN cmds'[n], cmds'[n][i] \in Activations
          PROVE  n \in leaked' \/ Deactivated(n, i)'
      <4>1. n \in leaked \cup {proto} \/ Deactivated(n, i)
        BY <2>1, <3>4 DEF ClientInv, TunnelsOwned
      <4>2. n = proto => ctrl.sock = "open"
        BY <2>1, <3>1, <3>4
      <4>. QED  BY <2>1, <3>2, <4>1, <4>2
    <3>. QED  BY <3>3, <3>4 DEF TunnelsOwned
  <2>3. SocketOK'
    BY <1>1, <2>1 DEF ClientInv, SocketOK, NoCtrl, Served
  <2>4. cmds' \in CmdFun
    BY <2>1, InvTyped
  <2>5. leaked' \subseteq 1 .. MaxOpens
    BY <1>2, <1>3, <2>1 DEF Sockets
  <2>. QED  BY <2>1, <2>2, <2>3, <2>4, <2>5
<1>. QED  BY <1>4, <1>5

\* Without a protocol, or with one that has just been deleted, nothing says
\* "Connected".
LEMMA NothingConnected ==
  ASSUME inbox' = <<>>, Upcoming' # "Connected"
  PROVE  ConnectedBacked'
BY DEF ConnectedBacked

LEMMA NoProtocol ==
  ASSUME ClientInv, proto = 0
  PROVE  ctrl = NoCtrl /\ inbox = <<>> /\ accepted = FALSE /\ Upcoming # "Connected"
BY DEF ClientInv, SocketOK, ConnectedBacked, NoCtrl, TypeOK

LEMMA StepConnectToVpn ==
  ASSUME ClientInv, ConnectToVpn
  PROVE  ClientInv'
<1>. DEFINE e == Last(calls)
<1>1. Resume("connect") /\ UNCHANGED <<uiVars, vpnQueue, crossed, serviceVars>>
  BY DEF ConnectToVpn
<1>2. e.req \in 0 .. MaxOpens /\ (e.req # 0 => ~Used(e.req))
  BY <1>1, LastCall DEF Resume
<1>. HIDE DEF e
<1>3. CASE /\ starting' = e.req /\ proto = 0 /\ Emit(<<"Connecting">>)
           /\ UNCHANGED <<proto, ctrl, inbox, accepted, cmds, leaked>>
  <2>1. uiQueue' \in Seq(States) /\ Upcoming' = "Connecting"
    BY <1>3, EmitWord, Words
  <2>2. \A n \in 1 .. MaxOpens : Used(n)' => Used(n) \/ n = e.req
    BY <1>3 DEF Used, Holds
  <2>3. starting' # 0 => proto' = 0 /\ cmds'[starting'] = <<>>
    BY <1>2, <1>3 DEF Used, Holds
  <2>4. RequestsOnce' /\ calls' \in Seq(CallRec) /\ ipc' = ipc
    BY <1>1, <1>3, <2>2, <2>3, InvTyped, Resumed DEF e
  <2>5. TypeOK'
    BY <1>1, <1>2, <1>3, <2>1, <2>4 DEF ClientInv, TypeOK, CallRec
  <2>6. SocketOK' /\ TunnelsOwned'
    BY <1>1, <1>3, SocketKept
  <2>7. ConnectedBacked'
    BY <1>3, <2>1, NoProtocol, NothingConnected
  <2>. QED  BY <2>4, <2>5, <2>6, <2>7 DEF ClientInv
<1>4. CASE /\ starting' = e.req /\ proto # 0
           /\ Emit(<<"Connecting", "Disconnected", "Disconnected">>)
           /\ Deactivate(2) /\ DeleteProtocol
  <2>1. uiQueue' \in Seq(States) /\ Upcoming' = "Disconnected"
    BY <1>4, EmitStopped
  <2>2. /\ cmds' \in CmdFun /\ leaked' \subseteq 1 .. MaxOpens
        /\ \A n \in Sockets : cmds'[n] # <<>> => cmds[n] # <<>> \/ n = proto
        /\ SocketOK' /\ TunnelsOwned'
    BY <1>1, <1>4, Stopped
  <2>3. /\ proto' = 0 /\ ctrl' = NoCtrl /\ inbox' = <<>> /\ accepted' = FALSE
    BY <1>4 DEF DeleteProtocol
  <2>4. \A n \in 1 .. MaxOpens : Used(n)' => Used(n) \/ n = e.req
    BY <1>4, <2>2, <2>3 DEF Used, Sockets
  <2>5. starting' # 0 => proto' = 0 /\ cmds'[starting'] = <<>>
    BY <1>2, <1>4, <2>2, <2>3, InvTyped DEF Used, Sockets
  <2>6. RequestsOnce' /\ calls' \in Seq(CallRec) /\ ipc' = ipc
    BY <1>1, <2>2, <2>4, <2>5, Resumed DEF e
  <2>7. TypeOK'
    <3>1. inbox' \in Seq({"status", "connected", "disconnected"})
      BY <2>3, EmptyTyped
    <3>2. ctrl' \in CtrlRec /\ ~ctrl'.timer
      BY <2>3, NoCtrlTyped
    <3>3. proto' \in 0 .. MaxOpens /\ starting' \in 0 .. MaxOpens /\ accepted' \in BOOLEAN
      <4>1. proto' \in 0 .. MaxOpens /\ starting' \in 0 .. MaxOpens
        BY <1>2, <1>4, <2>3, InvTyped
      <4>. QED  BY <2>3, <4>1
    <3>. QED  BY <1>1, <2>1, <2>2, <2>6, <3>1, <3>2, <3>3, InvTyped, InvTyped2, Retyped
  <2>8. ConnectedBacked'
    BY <2>1, <2>3, NothingConnected
  <2>. QED  BY <2>2, <2>6, <2>7, <2>8 DEF ClientInv
<1>5. CASE /\ Emit(<<"Error">>)
           /\ UNCHANGED <<starting, proto, ctrl, inbox, accepted, cmds, leaked>>
  <2>1. uiQueue' \in Seq(States) /\ Upcoming' = "Error"
    BY <1>5, EmitWord, Words
  <2>2. \A n \in 1 .. MaxOpens : Used(n)' => Used(n)
    BY <1>5 DEF Used, Holds
  <2>3. starting' # 0 => proto' = 0 /\ cmds'[starting'] = <<>>
    BY <1>5 DEF ClientInv, RequestsOnce, Holds
  <2>4. RequestsOnce' /\ calls' \in Seq(CallRec) /\ ipc' = ipc
    BY <1>1, <1>5, <2>2, <2>3, InvTyped, Resumed
  <2>5. TypeOK'
    BY <1>1, <1>5, <2>1, <2>4 DEF ClientInv, TypeOK, CallRec
  <2>6. SocketOK' /\ TunnelsOwned'
    BY <1>1, <1>5, SocketKept
  <2>7. ConnectedBacked'
    BY <1>1, <1>5, <2>1, ShownKept
  <2>. QED  BY <2>4, <2>5, <2>6, <2>7 DEF ClientInv
<1>. QED  BY <1>3, <1>4, <1>5 DEF ConnectToVpn, e

LEMMA StepDisconnectFromVpn ==
  ASSUME ClientInv, DisconnectFromVpn
  PROVE  ClientInv'
<1>1. /\ Resume("disconnect") /\ UNCHANGED <<uiVars, vpnQueue, starting, crossed, serviceVars>>
      /\ Emit(<<"Disconnected">>)
  BY DEF DisconnectFromVpn
<1>2. uiQueue' \in Seq(States) /\ Upcoming' = "Disconnected"
  BY <1>1, EmitWord, Words
<1>3. CASE proto = 0 /\ UNCHANGED <<proto, ctrl, inbox, accepted, cmds, leaked>>
  <2>1. \A n \in 1 .. MaxOpens : Used(n)' => Used(n)
    BY <1>1, <1>3 DEF Used, Holds
  <2>2. starting' # 0 => proto' = 0 /\ cmds'[starting'] = <<>>
    BY <1>1, <1>3 DEF ClientInv, RequestsOnce, Holds
  <2>3. RequestsOnce' /\ calls' \in Seq(CallRec) /\ ipc' = ipc
    BY <1>1, <1>3, <2>1, <2>2, InvTyped, Resumed
  <2>4. TypeOK'
    BY <1>1, <1>2, <1>3, <2>3 DEF ClientInv, TypeOK, CallRec
  <2>5. SocketOK' /\ TunnelsOwned'
    BY <1>1, <1>3, SocketKept
  <2>6. ConnectedBacked'
    BY <1>2, <1>3, NoProtocol, NothingConnected
  <2>. QED  BY <2>3, <2>4, <2>5, <2>6 DEF ClientInv
<1>4. CASE proto # 0 /\ Deactivate(1) /\ DeleteProtocol
  <2>1. /\ cmds' \in CmdFun /\ leaked' \subseteq 1 .. MaxOpens
        /\ \A n \in Sockets : cmds'[n] # <<>> => cmds[n] # <<>> \/ n = proto
        /\ SocketOK' /\ TunnelsOwned'
    BY <1>1, <1>4, Stopped
  <2>2. /\ proto' = 0 /\ ctrl' = NoCtrl /\ inbox' = <<>> /\ accepted' = FALSE
    BY <1>4 DEF DeleteProtocol
  <2>3. \A n \in 1 .. MaxOpens : Used(n)' => Used(n)
    BY <1>1, <1>4, <2>1, <2>2 DEF Used, Sockets
  <2>4. starting' # 0 => proto' = 0 /\ cmds'[starting'] = <<>>
    BY <1>1, <1>4, <2>1, <2>2, InvTyped DEF ClientInv, RequestsOnce, Sockets
  <2>5. RequestsOnce' /\ calls' \in Seq(CallRec) /\ ipc' = ipc
    BY <1>1, <2>1, <2>3, <2>4, Resumed
  <2>6. TypeOK'
    <3>1. inbox' \in Seq({"status", "connected", "disconnected"})
      BY <2>2, EmptyTyped
    <3>2. ctrl' \in CtrlRec /\ ~ctrl'.timer
      BY <2>2, NoCtrlTyped
    <3>3. proto' \in 0 .. MaxOpens /\ accepted' \in BOOLEAN
      <4>1. proto' \in 0 .. MaxOpens
        BY <2>2, InvTyped
      <4>. QED  BY <2>2, <4>1
    <3>. QED  BY <1>1, <1>2, <2>1, <2>5, <3>1, <3>2, <3>3, InvTyped, InvTyped2, Retyped
  <2>7. ConnectedBacked'
    BY <1>2, <2>2, NothingConnected
  <2>. QED  BY <2>1, <2>5, <2>6, <2>7 DEF ClientInv
<1>. QED  BY <1>3, <1>4 DEF DisconnectFromVpn

\* What StartProtocol writes.
LEMMA FirstCommands ==
  ASSUME NEW r, r = <<"accept", "status", "activate">>
  PROVE  /\ r \in Seq(Commands) /\ Len(r) = 3
         /\ \A i \in 1 .. Len(r) : r[i] \notin {"deactivate", "deactivating"}
BY DEF Commands

LEMMA StepStartProtocol ==
  ASSUME ClientInv, StartProtocol
  PROVE  ClientInv'
<1>1. /\ starting \in Sockets /\ starting # 0 /\ proto' = starting /\ starting' = 0
      /\ proto = 0 /\ cmds[starting] = <<>>
      /\ UNCHANGED <<uiVars, uiQueue, vpnQueue, calls, ipc, inbox, accepted, leaked,
                     crossed, serviceVars>>
      /\ ctrl' = [state |-> "eInitializing", sock |-> IF up THEN "open" ELSE "none",
                  retry |-> IF up THEN 0 ELSE 1, timer |-> ~up]
  BY InvTyped DEF StartProtocol, ClientInv, RequestsOnce, Sockets
<1>2. ctrl = NoCtrl /\ inbox = <<>> /\ accepted = FALSE /\ Upcoming # "Connected"
  BY <1>1, NoProtocol
<1>. DEFINE r == <<"accept", "status", "activate">>
<1>3. /\ r \in Seq(Commands) /\ Len(r) = 3
      /\ \A i \in 1 .. Len(r) : r[i] \notin {"deactivate", "deactivating"}
  BY FirstCommands
<1>4. cmds' = IF up THEN [cmds EXCEPT ![starting] = @ \o r] ELSE cmds
  BY DEF StartProtocol
<1>. HIDE DEF r
<1>40. proto' \in 0 .. MaxOpens /\ starting' \in 0 .. MaxOpens
  BY <1>1, InvTyped DEF Sockets
<1>41. inbox' = <<>> /\ Upcoming' # "Connected"
  BY <1>1, <1>2 DEF Upcoming
<1>42. ConnectedBacked'
  BY <1>41, NothingConnected
<1>5. CASE up
  <2>1. /\ cmds' \in CmdFun /\ \A k \in Sockets : k # starting => cmds'[k] = cmds[k]
        /\ Len(cmds[starting]) = 0
        /\ DOMAIN cmds'[starting] = 1 .. 3
        /\ \A i \in 1 .. 3 : cmds'[starting][i] = r[i]
    <3>1. cmds' = [cmds EXCEPT ![starting] = @ \o r]
      BY <1>4, <1>5
    <3>2. /\ cmds' \in CmdFun /\ \A k \in Sockets : k # starting => cmds'[k] = cmds[k]
          /\ DOMAIN cmds'[starting] = 1 .. Len(cmds[starting]) + Len(r)
          /\ \A i \in 1 .. Len(r) : cmds'[starting][Len(cmds[starting]) + i] = r[i]
      BY <1>1, <1>3, <3>1, Written
    <3>3. Len(cmds[starting]) = 0
      BY <1>1
    <3>. QED  BY <1>3, <3>2, <3>3
  <2>2. TypeOK'
    <3>1. ctrl' = [state |-> "eInitializing", sock |-> "open", retry |-> 0, timer |-> FALSE]
      BY <1>1, <1>5, InvTyped2
    <3>2. ctrl' \in CtrlRec /\ ~ctrl'.timer
      BY <3>1, BoundsAssumption DEF CtrlRec
    <3>. QED  BY <1>1, <1>40, <2>1, <3>2, InvTyped, InvTyped2, Retyped
  <2>3. SocketOK'
    <3>1. ~Deactivated(proto, 0)'
      BY <1>1, <1>3, <2>1 DEF Deactivated
    <3>2. ctrl'.sock = "open" /\ ctrl'.state = "eInitializing"
      BY <1>1, <1>5
    <3>. QED  BY <1>1, <1>2, <1>5, <3>1, <3>2 DEF ClientInv, SocketOK
  <2>4. TunnelsOwned'
    <3>1. \A k \in Sockets : \A i : k # starting => (Deactivated(k, i) => Deactivated(k, i)')
      BY <2>1 DEF Deactivated
    <3>2. tunnel' # 0 => tunnel' \in leaked' \cup {proto'} \/ Deactivated(tunnel, 0)'
      <4>1. CASE tunnel = starting \/ tunnel = 0
        BY <1>1, <4>1
      <4>2. CASE tunnel # starting /\ tunnel # 0
        <5>1. tunnel \in Sockets
          BY <4>2, InvTyped DEF Sockets
        <5>2. tunnel \in leaked \/ Deactivated(tunnel, 0)
          BY <1>1, <4>2 DEF ClientInv, TunnelsOwned
        <5>3. tunnel \in leaked \/ Deactivated(tunnel, 0)'
          BY <1>1, <3>1, <4>2, <5>1, <5>2 DEF Deactivated
        <5>. QED  BY <1>1, <5>3
      <4>. QED  BY <4>1, <4>2
    <3>3. ASSUME NEW n \in Sockets, NEW i \in DOMAIN cmds'[n], cmds'[n][i] \in Activations
          PROVE  n \in leaked' \cup {proto'} \/ Deactivated(n, i)'
      <4>1. CASE n = starting
        BY <1>1, <4>1
      <4>2. CASE n # starting
        <5>1. n # 0
          BY BoundsAssumption DEF Sockets
        <5>2. n \in leaked \/ Deactivated(n, i)
          BY <1>1, <2>1, <3>3, <4>2, <5>1 DEF ClientInv, TunnelsOwned
        <5>. QED  BY <1>1, <3>1, <4>2, <5>2
      <4>. QED  BY <4>1, <4>2
    <3>. QED  BY <3>2, <3>3 DEF TunnelsOwned
  <2>5. RequestsOnce'
    <3>1. \A n \in 1 .. MaxOpens : Used(n)' => Used(n)
      BY <1>1, <2>1 DEF Used, Sockets
    <3>2. \A n : /\ Awaited(n)' <=> Awaited(n)
                 /\ Holds(vpnQueue, n)' <=> Holds(vpnQueue, n)
                 /\ Holds(calls, n)' <=> Holds(calls, n)
      BY <1>1 DEF Awaited, Holds
    <3>3. /\ opens' \in 0 .. MaxOpens
          /\ \A i, j \in DOMAIN waiting' : waiting'[i] = waiting'[j] => i = j
          /\ Once(vpnQueue)' /\ Once(calls)'
      BY <1>1 DEF ClientInv, RequestsOnce, Once
    <3>. QED  BY <1>1, <3>1, <3>2, <3>3 DEF ClientInv, RequestsOnce
  <2>. QED  BY <1>42, <2>2, <2>3, <2>4, <2>5 DEF ClientInv
<1>6. CASE ~up
  <2>1. cmds' = cmds /\ Served /\ tunnel' = 0
    BY <1>1, <1>4, <1>6 DEF ClientInv, SocketOK
  <2>2. TypeOK'
    <3>1. ctrl' = [state |-> "eInitializing", sock |-> "none", retry |-> 1, timer |-> TRUE]
      BY <1>1, <1>6
    <3>2. /\ ctrl' \in CtrlRec
          /\ ctrl'.timer => ctrl'.state = "eInitializing" /\ ctrl'.sock = "none"
      BY <3>1, BoundsAssumption DEF CtrlRec
    <3>. QED  BY <1>1, <1>40, <2>1, <3>2, InvTyped, InvTyped2, Retyped
  <2>3. SocketOK'
    <3>1. ~Deactivated(proto, 0)'
      BY <1>1, <2>1 DEF Deactivated
    <3>. QED  BY <1>1, <1>2, <1>6, <2>1, <3>1 DEF ClientInv, SocketOK, Served
  <2>4. TunnelsOwned'
    BY <2>1 DEF TunnelsOwned, Served
  <2>5. RequestsOnce'
    <3>1. \A n : Used(n)' => Used(n)
      BY <1>1, <2>1 DEF Used
    <3>2. \A n : /\ Awaited(n)' <=> Awaited(n)
                 /\ Holds(vpnQueue, n)' <=> Holds(vpnQueue, n)
                 /\ Holds(calls, n)' <=> Holds(calls, n)
      BY <1>1 DEF Awaited, Holds
    <3>3. /\ opens' \in 0 .. MaxOpens
          /\ \A i, j \in DOMAIN waiting' : waiting'[i] = waiting'[j] => i = j
          /\ Once(vpnQueue)' /\ Once(calls)'
      BY <1>1 DEF ClientInv, RequestsOnce, Once
    <3>. QED  BY <1>1, <3>1, <3>2, <3>3 DEF ClientInv, RequestsOnce
  <2>. QED  BY <1>42, <2>2, <2>3, <2>4, <2>5 DEF ClientInv
<1>. QED  BY <1>5, <1>6, InvTyped2

-----------------------------------------------------------------------------
(* LocalSocketController *)

Message == {"status", "connected", "disconnected"}

LEMMA DisconnectedRec ==
  ASSUME NEW c \in CtrlRec
  PROVE  /\ Disconnected(c) \in CtrlRec /\ Disconnected(c).sock = c.sock
         /\ Disconnected(c).state = "eReady" /\ ~Disconnected(c).timer
<1>. DEFINE d == [c EXCEPT !.state = "eReady", !.timer = FALSE]
<1>1. d \in CtrlRec
  BY DEF CtrlRec
<1>2. Disconnected(c) = [d EXCEPT !.retry = 0]
  BY DEF Disconnected, CtrlRec
<1>. HIDE DEF d
<1>3. [d EXCEPT !.retry = 0] \in CtrlRec
  BY <1>1, BoundsAssumption DEF CtrlRec
<1>4. Disconnected(c).sock = c.sock /\ Disconnected(c).state = "eReady"
  BY DEF CtrlRec, Disconnected
<1>5. ~Disconnected(c).timer
  BY DEF CtrlRec, Disconnected
<1>. QED  BY <1>2, <1>3, <1>4, <1>5

\* The requests stay where they are, or one of them is not used any more.
LEMMA RequestsKept ==
  ASSUME ClientInv, UNCHANGED <<waiting, opens, vpnQueue, calls, starting, proto>>,
         \A n \in Sockets : cmds'[n] # <<>> => cmds[n] # <<>> \/ n = proto
  PROVE  RequestsOnce'
<1>1. \A n : /\ Awaited(n)' <=> Awaited(n)
             /\ Holds(vpnQueue, n)' <=> Holds(vpnQueue, n)
             /\ Holds(calls, n)' <=> Holds(calls, n)
  BY DEF Awaited, Holds
<1>2. \A n \in 1 .. MaxOpens : Used(n)' => Used(n)
  BY DEF Used, Sockets
<1>3. Once(vpnQueue)' /\ Once(calls)'
  BY DEF ClientInv, RequestsOnce, Once
<1>4. ASSUME starting' # 0
      PROVE  proto' = 0 /\ cmds'[starting'] = <<>>
  <2>1. proto = 0 /\ cmds[starting] = <<>> /\ starting \in Sockets /\ starting # proto
    BY <1>4, InvTyped DEF ClientInv, RequestsOnce, Sockets
  <2>. QED  BY <2>1
<1>. QED  BY <1>1, <1>2, <1>3, <1>4 DEF ClientInv, RequestsOnce

\* A protocol with a socket, or with a running timer, is there.
LEMMA HasProtocol ==
  ASSUME ClientInv, ctrl.sock # "none" \/ ctrl.timer
  PROVE  proto \in 1 .. MaxOpens
<1>1. NoCtrl.sock = "none"
  BY DEF NoCtrl
<1>2. ~NoCtrl.timer
  BY NoCtrlTyped
<1>3. proto = 0 => ctrl = NoCtrl
  BY DEF ClientInv, SocketOK
<1>4. proto # 0
  BY <1>1, <1>2, <1>3
<1>. QED  BY <1>4, InvTyped

LEMMA StepReadData ==
  ASSUME ClientInv, ReadData
  PROVE  ClientInv'
<1>. DEFINE q == Tail(inbox)
<1>1. /\ inbox # <<>> /\ inbox' = q /\ cmds' = cmds
      /\ UNCHANGED <<uiVars, vpnQueue, calls, ipc, starting, proto, accepted, leaked,
                     crossed, serviceVars>>
  BY DEF ReadData, SocketStep
<1>2. /\ q \in Seq(Message) /\ Head(inbox) = inbox[1]
      /\ DOMAIN inbox = 1 .. Len(inbox) /\ Len(inbox) \in Nat \ {0}
      /\ DOMAIN q = 1 .. Len(inbox) - 1
      /\ \A i \in 1 .. Len(inbox) - 1 : q[i] = inbox[i + 1]
  BY <1>1, InvTyped, TailSeq DEF Message
<1>. HIDE DEF q
<1>3. ctrl.sock # "none" /\ proto \in 1 .. MaxOpens /\ ~ctrl.timer
  <2>1. ctrl.sock # "none"
    BY <1>1 DEF ClientInv, SocketOK
  <2>. QED  BY <2>1, HasProtocol, InvTyped2
<1>4. /\ ctrl' \in CtrlRec /\ ctrl'.sock = ctrl.sock /\ ~ctrl'.timer
      /\ ctrl'.state # "eUnknown"
      /\ \/ ctrl.state = "eInitializing" /\ uiQueue' = uiQueue
         \/ ctrl'.state = "eReady" /\ inbox[1] = "connected" /\ Emit(<<"Connected">>)
         \/ Emit(<<"Disconnected">>)
  <2>1. ctrl \in CtrlRec /\ ~ctrl.timer
    BY <1>3, InvTyped2
  <2>2. CASE /\ ctrl.state = "eInitializing" /\ uiQueue' = uiQueue
             /\ ctrl' = [ctrl EXCEPT !.state = IF Head(inbox) = "status"
                                               THEN "eReady" ELSE @]
    BY <2>1, <2>2 DEF CtrlRec
  <2>3. CASE /\ ctrl.state = "eReady" /\ Head(inbox) = "connected" /\ ctrl' = ctrl
             /\ Emit(<<"Connected">>)
    BY <1>2, <2>1, <2>3
  <2>4. CASE Emit(<<"Disconnected">>) /\ ctrl' = Disconnected(ctrl)
    BY <2>1, <2>4, DisconnectedRec
  <2>. QED  BY <2>2, <2>3, <2>4 DEF ReadData
<1>5. uiQueue' \in Seq(States)
  <2>1. CASE uiQueue' = uiQueue
    BY <2>1, InvTyped
  <2>2. CASE Emit(<<"Connected">>) \/ Emit(<<"Disconnected">>)
    BY <2>2, EmitWord, Words
  <2>. QED  BY <1>4, <2>1, <2>2
<1>6. TypeOK'
  BY <1>1, <1>2, <1>4, <1>5, InvTyped, InvTyped2, Retyped DEF Message
<1>7. RequestsOnce'
  BY <1>1, RequestsKept
<1>8. SocketOK'
  BY <1>1, <1>3, <1>4 DEF ClientInv, SocketOK, Served, Deactivated
<1>9. TunnelsOwned'
  BY <1>1 DEF ClientInv, TunnelsOwned, Deactivated
<1>10. ConnectedBacked'
  <2>1. ASSUME NEW n \in Nat, Backed(n + 1)
        PROVE  Backed(n)'
    <3>1. ctrl'.sock = "open" => accepted'
      BY <1>1, <1>4, <2>1 DEF Backed
    <3>2. ASSUME NEW i \in DOMAIN inbox, i > n + 1, inbox[i] = "disconnected"
          PROVE  \E j \in DOMAIN inbox' : j > n /\ inbox'[j] = "disconnected"
      <4>1. i - 1 \in 1 .. Len(inbox) - 1 /\ i - 1 > n /\ q[i - 1] = inbox[i]
        BY <1>2, <3>2
      <4>. QED  BY <1>1, <1>2, <3>2, <4>1
    <3>. QED  BY <1>1, <1>4, <2>1, <3>1, <3>2 DEF Backed, Activating, NextIs, Silent
  <2>2. ASSUME NEW i \in DOMAIN inbox', inbox'[i] = "connected"
        PROVE  proto' # 0 /\ Backed(i)'
    <3>1. i \in Nat /\ i + 1 \in DOMAIN inbox /\ inbox[i + 1] = "connected"
      BY <1>1, <1>2, <2>2
    <3>2. Backed(i + 1) /\ proto # 0
      BY <3>1 DEF ClientInv, ConnectedBacked
    <3>. QED  BY <1>1, <2>1, <3>1, <3>2
  <2>3. ASSUME Upcoming' = "Connected"
        PROVE  ctrl'.state = "eReady" /\ Backed(0)'
    <3>1. CASE ctrl.state = "eInitializing" /\ uiQueue' = uiQueue
      <4>1. Upcoming = "Connected"
        BY <1>1, <2>3, <3>1 DEF Upcoming
      <4>. QED  BY <3>1, <4>1 DEF ClientInv, ConnectedBacked
    <3>2. CASE ctrl'.state = "eReady" /\ inbox[1] = "connected"
      <4>1. Backed(1)
        BY <1>2, <3>2 DEF ClientInv, ConnectedBacked
      <4>2. Backed(0 + 1)
        BY <4>1
      <4>. QED  BY <2>1, <3>2, <4>2
    <3>3. CASE Emit(<<"Disconnected">>)
      BY <2>3, <3>3, EmitWord, Words
    <3>. QED  BY <1>4, <3>1, <3>2, <3>3
  <2>. QED  BY <1>1, <1>3, <1>4, <2>2, <2>3 DEF ConnectedBacked
<1>. QED  BY <1>6, <1>7, <1>8, <1>9, <1>10 DEF ClientInv

\* What errorOccurred makes of a controller without a running timer.
LEMMA Errors ==
  ASSUME NEW c \in CtrlRec, ~c.timer
  PROVE  /\ ErrorOccurred(c) \in CtrlRec /\ ErrorOccurred(c).sock = "none"
         /\ ErrorOccurred(c).state \in {"eInitializing", "eReady"}
         /\ ErrorOccurred(c).timer => ErrorOccurred(c).state = "eInitializing"
<1>1. CASE Retrying(c)
  <2>. DEFINE d == [c EXCEPT !.sock = "none", !.timer = TRUE]
              e == [d EXCEPT !.retry = c.retry + 1]
  <2>1. d \in CtrlRec /\ d.sock = "none" /\ d.state = "eInitializing"
    BY <1>1 DEF CtrlRec, Retrying
  <2>2. ErrorOccurred(c) = e
    BY <1>1 DEF ErrorOccurred, CtrlRec
  <2>. HIDE DEF d
  <2>3. c.retry + 1 \in 0 .. MaxRetry
    BY <1>1, BoundsAssumption DEF CtrlRec, Retrying
  <2>4. e \in CtrlRec /\ e.sock = "none" /\ e.state = "eInitializing"
    BY <2>1, <2>3 DEF CtrlRec
  <2>. QED  BY <2>2, <2>4
<1>2. CASE ~Retrying(c)
  <2>. DEFINE d == Disconnected(c)
  <2>1. d \in CtrlRec /\ d.state = "eReady" /\ ~d.timer
    BY DisconnectedRec
  <2>2. ErrorOccurred(c) = [d EXCEPT !.sock = "none"]
    BY <1>2 DEF ErrorOccurred
  <2>. HIDE DEF d
  <2>3. [d EXCEPT !.sock = "none"] \in CtrlRec
    BY <2>1 DEF CtrlRec
  <2>4. ErrorOccurred(c).sock = "none" /\ ErrorOccurred(c).state = "eReady"
    BY <2>1, <2>2 DEF CtrlRec
  <2>5. ~ErrorOccurred(c).timer
    BY <2>1, <2>2 DEF CtrlRec
  <2>. QED  BY <2>2, <2>3, <2>4, <2>5
<1>. QED  BY <1>1, <1>2

\* The controller has lost its socket, or could not connect again.
LEMMA SocketLost ==
  ASSUME ClientInv, ctrl.sock # "open", proto \in 1 .. MaxOpens, inbox = <<>>,
         NEW c \in CtrlRec, ~c.timer, ctrl' = ErrorOccurred(c),
         uiQueue' \in Seq(States), Upcoming' # "Connected", inbox' = inbox,
         cmds' = cmds, SocketStep
  PROVE  ClientInv'
<1>1. UNCHANGED <<uiVars, vpnQueue, calls, ipc, starting, proto, accepted, leaked,
                  crossed, serviceVars>>
  BY DEF SocketStep
<1>2. /\ ctrl' \in CtrlRec /\ ctrl'.sock = "none"
      /\ ctrl'.state \in {"eInitializing", "eReady"}
      /\ ctrl'.timer => ctrl'.state = "eInitializing"
  BY Errors
<1>3. TypeOK'
  BY <1>1, <1>2, InvTyped, InvTyped2, Retyped
<1>4. RequestsOnce'
  BY <1>1, RequestsKept
<1>5. SocketOK'
  BY <1>1, <1>2 DEF ClientInv, SocketOK, Served, Deactivated
<1>6. TunnelsOwned'
  BY <1>1 DEF ClientInv, TunnelsOwned, Deactivated
<1>7. ConnectedBacked'
  BY NothingConnected
<1>. QED  BY <1>3, <1>4, <1>5, <1>6, <1>7 DEF ClientInv

LEMMA StepSocketClosed ==
  ASSUME ClientInv, SocketClosed
  PROVE  ClientInv'
<1>1. /\ ctrl.sock = "dead" /\ inbox = <<>> /\ ctrl' = ErrorOccurred(ctrl)
      /\ UNCHANGED <<inbox, cmds>> /\ SocketStep
      /\ Emit(<<"Disconnected">>) \/ Emit(<<"Disconnected", "Disconnected">>)
  BY DEF SocketClosed
<1>2. uiQueue' \in Seq(States) /\ Upcoming' = "Disconnected"
  BY <1>1, EmitWord, EmitStopped, Words
<1>3. proto \in 1 .. MaxOpens /\ ctrl \in CtrlRec /\ ~ctrl.timer /\ ctrl.sock # "open"
  BY <1>1, HasProtocol, InvTyped2
<1>. QED  BY <1>1, <1>2, <1>3, SocketLost

\* What initializeInternal writes when it connects again.
LEMMA RetryCommands ==
  ASSUME NEW r, r = <<"accept", "status">>
  PROVE  /\ r \in Seq(Commands) /\ Len(r) = 2
         /\ \A i \in 1 .. Len(r) : r[i] \in {"accept", "status"}
BY DEF Commands

LEMMA StepInitializingTimer ==
  ASSUME ClientInv, InitializingTimer
  PROVE  ClientInv'
<1>1. ctrl.timer /\ SocketStep /\ inbox' = inbox
  BY DEF InitializingTimer
<1>2. /\ proto \in 1 .. MaxOpens /\ ctrl.sock = "none" /\ ctrl.state = "eInitializing"
      /\ inbox = <<>> /\ ctrl \in CtrlRec
  <2>1. ctrl.sock = "none" /\ ctrl.state = "eInitializing" /\ ctrl \in CtrlRec
    BY <1>1, InvTyped2
  <2>. QED  BY <1>1, <2>1, HasProtocol DEF ClientInv, SocketOK
<1>3. Upcoming # "Connected" /\ ~accepted /\ cmds[proto] = <<>> /\ tunnel # proto
  BY <1>2 DEF ClientInv, ConnectedBacked, SocketOK
<1>4. UNCHANGED <<uiVars, vpnQueue, calls, ipc, starting, proto, accepted, leaked,
                  crossed, serviceVars>>
  BY <1>1 DEF SocketStep
<1>5. CASE ~up /\ cmds' = cmds
            /\ ctrl' = ErrorOccurred([ctrl EXCEPT !.timer = FALSE])
            /\ Emit(IF Retrying(ctrl) THEN <<>> ELSE <<"Disconnected">>)
  <2>. DEFINE c == [ctrl EXCEPT !.timer = FALSE]
  <2>1. c \in CtrlRec /\ ctrl' = ErrorOccurred(c)
    BY <1>2, <1>5 DEF CtrlRec
  <2>2. ~c.timer
    BY <1>2 DEF CtrlRec
  <2>. HIDE DEF c
  <2>3. uiQueue' \in Seq(States) /\ Upcoming' # "Connected"
    <3>1. CASE Emit(<<"Disconnected">>)
      BY <3>1, EmitWord, Words
    <3>2. CASE Emit(<<>>)
      <4>1. uiQueue' = uiQueue
        BY <3>2, InvTyped DEF Emit
      <4>. QED  BY <1>3, <1>4, <4>1, InvTyped DEF Upcoming
    <3>. QED  BY <1>5, <3>1, <3>2
  <2>. QED  BY <1>1, <1>2, <1>5, <2>1, <2>2, <2>3, SocketLost
<1>6. CASE up /\ uiQueue' = uiQueue
            /\ ctrl' = [ctrl EXCEPT !.sock = "open", !.timer = FALSE]
            /\ cmds' = [cmds EXCEPT ![proto] = @ \o <<"accept", "status">>]
  <2>. DEFINE r == <<"accept", "status">>
  <2>1. /\ r \in Seq(Commands) /\ Len(r) = 2
        /\ \A i \in 1 .. Len(r) : r[i] \in {"accept", "status"}
    BY RetryCommands
  <2>2. cmds' = [cmds EXCEPT ![proto] = @ \o r]
    BY <1>6
  <2>. HIDE DEF r
  <2>3. /\ cmds' \in CmdFun /\ \A k \in Sockets : k # proto => cmds'[k] = cmds[k]
        /\ DOMAIN cmds'[proto] = 1 .. 2
        /\ \A i \in 1 .. 2 : cmds'[proto][i] \in {"accept", "status"}
    <3>1. /\ cmds' \in CmdFun /\ \A k \in Sockets : k # proto => cmds'[k] = cmds[k]
          /\ DOMAIN cmds'[proto] = 1 .. Len(cmds[proto]) + Len(r)
          /\ \A i \in 1 .. Len(r) : cmds'[proto][Len(cmds[proto]) + i] = r[i]
      <4>1. proto \in Sockets
        BY <1>2 DEF Sockets
      <4>. QED  BY <2>1, <2>2, <4>1, Written
    <3>2. Len(cmds[proto]) = 0
      BY <1>3
    <3>. QED  BY <2>1, <3>1, <3>2
  <2>4. ctrl' \in CtrlRec /\ ctrl'.sock = "open" /\ ctrl'.state = "eInitializing"
    BY <1>2, <1>6 DEF CtrlRec
  <2>5. ~ctrl'.timer
    BY <1>2, <1>6 DEF CtrlRec
  <2>6. TypeOK'
    BY <1>1, <1>4, <1>6, <2>3, <2>4, <2>5, InvTyped, InvTyped2, Retyped
  <2>7. RequestsOnce'
    BY <1>2, <1>4, <2>3, RequestsKept
  <2>8. SocketOK'
    <3>1. ~Deactivated(proto, 0)'
      BY <1>4, <2>3 DEF Deactivated
    <3>. QED  BY <1>2, <1>3, <1>4, <1>6, <2>4, <3>1 DEF ClientInv, SocketOK
  <2>9. TunnelsOwned'
    <3>1. \A k \in Sockets : \A i : k # proto => (Deactivated(k, i) => Deactivated(k, i)')
      BY <2>3 DEF Deactivated
    <3>2. tunnel' # 0 => tunnel' \in leaked' \cup {proto'} \/ Deactivated(tunnel, 0)'
      <4>1. CASE tunnel = proto \/ tunnel = 0
        BY <1>4, <4>1
      <4>2. CASE tunnel # proto /\ tunnel # 0
        <5>1. tunnel \in Sockets
          BY <4>2, InvTyped DEF Sockets
        <5>2. tunnel \in leaked \/ Deactivated(tunnel, 0)
          BY <4>2 DEF ClientInv, TunnelsOwned
        <5>3. tunnel \in leaked \/ Deactivated(tunnel, 0)'
          BY <1>4, <3>1, <4>2, <5>1, <5>2 DEF Deactivated
        <5>. QED  BY <1>4, <5>3
      <4>. QED  BY <4>1, <4>2
    <3>3. ASSUME NEW n \in Sockets, NEW i \in DOMAIN cmds'[n], cmds'[n][i] \in Activations
          PROVE  n \in leaked' \cup {proto'} \/ Deactivated(n, i)'
      <4>1. CASE n = proto
        BY <1>4, <4>1
      <4>2. CASE n # proto
        <5>1. n \in leaked \/ Deactivated(n, i)
          BY <2>3, <3>3, <4>2 DEF ClientInv, TunnelsOwned
        <5>. QED  BY <1>4, <3>1, <4>2, <5>1
      <4>. QED  BY <4>1, <4>2
    <3>. QED  BY <3>2, <3>3 DEF TunnelsOwned
  <2>10. ConnectedBacked'
    BY <1>1, <1>2, <1>3, <1>4, <1>6, NothingConnected DEF Upcoming
  <2>. QED  BY <2>6, <2>7, <2>8, <2>9, <2>10 DEF ClientInv
<1>. QED  BY <1>5, <1>6 DEF InitializingTimer

-----------------------------------------------------------------------------
(* The service *)

Stops == {"deactivate", "deactivating"}

\* A command is taken off the socket of n.
LEMMA TakenOff ==
  ASSUME ClientInv, NEW n \in Sockets, NEW c, Serve(n, c), ServiceStep
  PROVE  /\ cmds' \in CmdFun /\ \A k \in Sockets : k # n => cmds'[k] = cmds[k]
         /\ cmds[n] # <<>> /\ cmds[n][1] = c /\ 1 \in DOMAIN cmds[n]
         /\ DOMAIN cmds[n] \subseteq Nat \ {0}
         /\ \A i \in DOMAIN cmds'[n] :
              i \in Nat /\ i + 1 \in DOMAIN cmds[n] /\ cmds'[n][i] = cmds[n][i + 1]
         /\ \A k \in Nat : Deactivated(n, k + 1) => Deactivated(n, k)'
         /\ RequestsOnce'
<1>. DEFINE p == cmds[n]
            q == Tail(p)
<1>1. p \in Seq(Commands) /\ p # <<>> /\ Head(p) = c
  BY InvTyped DEF CmdFun, Serve, NextIs
<1>2. cmds' = [cmds EXCEPT ![n] = q]
  BY DEF Serve
<1>. HIDE DEF p
<1>3. /\ q \in Seq(Commands) /\ p[1] = c
      /\ DOMAIN p = 1 .. Len(p) /\ Len(p) \in Nat \ {0}
      /\ DOMAIN q = 1 .. Len(p) - 1
      /\ \A i \in 1 .. Len(p) - 1 : q[i] = p[i + 1]
  BY <1>1, TailSeq
<1>. HIDE DEF q
<1>4. cmds' \in CmdFun /\ cmds'[n] = q /\ \A k \in Sockets : k # n => cmds'[k] = cmds[k]
  BY <1>2, <1>3, InvTyped DEF CmdFun
<1>5. ASSUME NEW k \in Nat, Deactivated(n, k + 1)
      PROVE  Deactivated(n, k)'
  <2>1. PICK i \in DOMAIN p : i > k + 1 /\ p[i] \in {"deactivate", "deactivating"}
    BY <1>5 DEF Deactivated, p
  <2>2. i - 1 \in DOMAIN q /\ i - 1 > k /\ q[i - 1] = p[i]
    BY <1>3, <2>1
  <2>. QED  BY <1>4, <2>1, <2>2 DEF Deactivated
<1>6. RequestsOnce'
  <2>1. \A k \in Sockets : cmds'[k] # <<>> => cmds[k] # <<>> \/ k = proto
    BY <1>1, <1>4 DEF p
  <2>. QED  BY <2>1, RequestsKept DEF ServiceStep
<1>. QED  BY <1>1, <1>3, <1>4, <1>5, <1>6 DEF p

\* The first command of the socket of n is in another phase.
LEMMA Begun ==
  ASSUME ClientInv, NEW n \in Sockets, NEW c, NEW d \in Commands, Begin(n, c, d), ServiceStep
  PROVE  /\ cmds' \in CmdFun /\ \A k \in Sockets : k # n => cmds'[k] = cmds[k]
         /\ cmds[n] # <<>> /\ cmds[n][1] = c /\ 1 \in DOMAIN cmds[n]
         /\ DOMAIN cmds[n] \subseteq Nat \ {0}
         /\ DOMAIN cmds'[n] = DOMAIN cmds[n] /\ cmds'[n][1] = d
         /\ cmds'[n] # <<>> /\ Head(cmds'[n]) = d
         /\ \A i \in DOMAIN cmds[n] : i # 1 => cmds'[n][i] = cmds[n][i]
         /\ RequestsOnce'
<1>. DEFINE p == cmds[n]
            q == <<d>> \o Tail(p)
<1>1. p \in Seq(Commands) /\ p # <<>> /\ Head(p) = c
  BY InvTyped DEF CmdFun, Begin, NextIs
<1>2. cmds' = [cmds EXCEPT ![n] = q]
  BY DEF Begin
<1>. HIDE DEF p
<1>3. p[1] = c /\ DOMAIN p = 1 .. Len(p) /\ Len(p) \in Nat \ {0}
  BY <1>1, TailSeq
<1>5. /\ q \in Seq(Commands) /\ Len(q) = Len(p) /\ DOMAIN q = DOMAIN p /\ q[1] = d
      /\ \A i \in DOMAIN p : i # 1 => q[i] = p[i]
  BY <1>1, ReplacedFirst
<1>. HIDE DEF q
<1>7. cmds' \in CmdFun /\ cmds'[n] = q /\ \A k \in Sockets : k # n => cmds'[k] = cmds[k]
  BY <1>2, <1>5, InvTyped DEF CmdFun
<1>8. q # <<>> /\ Head(q) = d
  <2>1. q # <<>>
    BY <1>3, <1>5, EmptySeq
  <2>. QED  BY <1>5, <2>1, TailSeq
<1>9. RequestsOnce'
  <2>1. \A k \in Sockets : cmds'[k] # <<>> => cmds[k] # <<>> \/ k = proto
    BY <1>1, <1>7 DEF p
  <2>. QED  BY <2>1, RequestsKept DEF ServiceStep
<1>. QED  BY <1>1, <1>3, <1>5, <1>7, <1>8, <1>9 DEF p

\* The service is up while there are commands, and the current protocol has an
\* open socket while there are any of its own.
LEMMA ServiceUp ==
  ASSUME ClientInv, NEW n \in Sockets, cmds[n] # <<>>
  PROVE  up /\ n # 0 /\ n \in 1 .. MaxOpens /\ (n = proto => ctrl.sock = "open")
BY BoundsAssumption DEF ClientInv, SocketOK, Served, Sockets

\* What a command taken off the socket of n leaves of the others: the commands to
\* deactivate are behind the same activations, and nothing new will take the
\* tunnel down.
LEMMA TakenOwned ==
  ASSUME ClientInv, NEW n \in Sockets, NEW c, Serve(n, c), ServiceStep,
         leaked \subseteq leaked'
  PROVE  /\ \A k \in Sockets : \A i \in DOMAIN cmds'[k] :
              cmds'[k][i] \in Activations =>
                k \in leaked' \cup {proto'} \/ Deactivated(k, i)'
         /\ \A k \in Sockets : k # n \/ c \notin Stops =>
              (Deactivated(k, 0) => Deactivated(k, 0)')
         /\ proto' # 0 => ~Deactivated(proto, 0)'
         /\ Silent' => Silent
<1>1. /\ cmds' \in CmdFun /\ \A k \in Sockets : k # n => cmds'[k] = cmds[k]
      /\ cmds[n] # <<>> /\ cmds[n][1] = c /\ 1 \in DOMAIN cmds[n]
      /\ DOMAIN cmds[n] \subseteq Nat \ {0}
      /\ \A i \in DOMAIN cmds'[n] :
           i \in Nat /\ i + 1 \in DOMAIN cmds[n] /\ cmds'[n][i] = cmds[n][i + 1]
      /\ \A k \in Nat : Deactivated(n, k + 1) => Deactivated(n, k)'
  BY TakenOff
<1>2. proto' = proto
  BY DEF ServiceStep
<1>3. \A k \in Sockets : \A i : k # n => (Deactivated(k, i)' <=> Deactivated(k, i))
  BY <1>1 DEF Deactivated
<1>4. ASSUME NEW k \in Sockets, NEW i \in DOMAIN cmds'[k], cmds'[k][i] \in Activations
      PROVE  k \in leaked' \cup {proto'} \/ Deactivated(k, i)'
  <2>1. CASE k # n
    <3>1. k \in leaked \cup {proto} \/ Deactivated(k, i)
      BY <1>1, <1>4, <2>1 DEF ClientInv, TunnelsOwned
    <3>. QED  BY <1>2, <1>3, <2>1, <3>1
  <2>2. CASE k = n
    <3>1. i \in Nat /\ i + 1 \in DOMAIN cmds[n] /\ cmds[n][i + 1] \in Activations
      BY <1>1, <1>4, <2>2
    <3>2. n \in leaked \cup {proto} \/ Deactivated(n, i + 1)
      BY <3>1 DEF ClientInv, TunnelsOwned
    <3>3. n \in leaked \cup {proto} \/ Deactivated(n, i)'
      BY <1>1, <3>1, <3>2
    <3>. QED  BY <1>2, <2>2, <3>3
  <2>. QED  BY <2>1, <2>2
<1>5. ASSUME NEW k \in Sockets, k # n \/ c \notin Stops, Deactivated(k, 0)
      PROVE  Deactivated(k, 0)'
  <2>1. CASE k # n
    BY <1>3, <1>5, <2>1
  <2>2. CASE k = n
    <3>1. PICK i \in DOMAIN cmds[n] : i > 0 /\ cmds[n][i] \in {"deactivate", "deactivating"}
      BY <1>5, <2>2 DEF Deactivated
    <3>2. i # 1
      BY <1>1, <1>5, <2>2, <3>1 DEF Stops
    <3>3. i > 0 + 1
      BY <1>1, <3>1, <3>2
    <3>4. Deactivated(n, 0 + 1)
      BY <3>1, <3>3 DEF Deactivated
    <3>. QED  BY <1>1, <2>2, <3>4
  <2>. QED  BY <2>1, <2>2
<1>6. ASSUME proto' # 0, Deactivated(proto, 0)'
      PROVE  FALSE
  <2>1. proto \in Sockets /\ ~Deactivated(proto, 0)
    BY <1>2, <1>6, InvTyped DEF ClientInv, SocketOK, Sockets
  <2>2. CASE proto # n
    <3>1. \A i \in DOMAIN cmds'[proto] : i \in DOMAIN cmds[proto]
                                         /\ cmds'[proto][i] = cmds[proto][i]
      BY <1>1, <2>1, <2>2
    <3>. QED  BY <1>2, <1>6, <2>1, <3>1 DEF Deactivated
  <2>3. CASE proto = n
    <3>1. PICK i \in DOMAIN cmds'[n] : cmds'[n][i] \in {"deactivate", "deactivating"}
      BY <1>2, <1>6, <2>3 DEF Deactivated
    <3>2. i + 1 > 0 /\ i + 1 \in DOMAIN cmds[n]
          /\ cmds[n][i + 1] \in {"deactivate", "deactivating"}
      BY <1>1, <3>1
    <3>. QED  BY <2>1, <2>3, <3>2 DEF Deactivated
  <2>. QED  BY <2>2, <2>3
<1>7. ASSUME Silent'
      PROVE  Silent
  <2>1. PICK k \in Sockets : k # proto /\ \E i \in DOMAIN cmds'[k] :
               cmds'[k][i] \in Activations \cup {"deactivating"}
    BY <1>2, <1>7 DEF Silent
  <2>2. PICK i \in DOMAIN cmds'[k] : cmds'[k][i] \in Activations \cup {"deactivating"}
    BY <2>1
  <2>3. \E j \in DOMAIN cmds[k] : cmds[k][j] = cmds'[k][i]
    <3>1. CASE k # n
      BY <1>1, <2>2, <3>1
    <3>2. CASE k = n
      BY <1>1, <2>2, <3>2
    <3>. QED  BY <3>1, <3>2
  <2>. QED  BY <2>1, <2>2, <2>3 DEF Silent
<1>. QED  BY <1>4, <1>5, <1>6, <1>7

\* The daemon says something, or nothing, to the socket: whoever counts on the
\* tunnel hears of its end, or the handshakes were crossed.
LEMMA DaemonSaid ==
  ASSUME ClientInv, NEW m \in Message,
         UNCHANGED <<m_state, uiQueue, proto, ctrl>>, accepted => accepted',
         inbox' \in {inbox, Append(inbox, m)},
         \/ /\ (tunnel # 0 \/ Activating) /\ ~Silent =>
                 (tunnel' # 0 \/ Activating') /\ ~Silent'
            /\ crossed => crossed'
         \/ tunnel' # 0 /\ ~Silent'
         \/ crossed'
         \/ (accepted => m = "disconnected" /\ inbox' = Append(inbox, m)),
         inbox' # inbox =>
           /\ ctrl.sock = "open"
           /\ m = "connected" => accepted' /\ (crossed' \/ (tunnel' # 0 /\ ~Silent'))
  PROVE  inbox' \in Seq(Message) /\ ConnectedBacked'
<1>. DEFINE q == Append(inbox, m)
            Live == (tunnel # 0 \/ Activating) /\ ~Silent
<1>1. /\ q \in Seq(Message) /\ DOMAIN inbox = 1 .. Len(inbox) /\ Len(inbox) \in Nat
      /\ DOMAIN q = 1 .. Len(inbox) + 1 /\ q[Len(inbox) + 1] = m
      /\ \A i \in 1 .. Len(inbox) : q[i] = inbox[i]
  BY InvTyped, AppendSeq DEF Message
<1>2. inbox' \in {inbox, q}
  OBVIOUS
<1>20. Live' <=> (tunnel' # 0 \/ Activating') /\ ~Silent'
  OBVIOUS
<1>21. \/ (Live => Live') /\ (crossed => crossed')
       \/ Live' \/ crossed'
       \/ (accepted => m = "disconnected" /\ inbox' = q)
  OBVIOUS
<1>22. inbox' # inbox /\ m = "connected" => accepted' /\ (crossed' \/ Live')
  OBVIOUS
<1>. HIDE DEF q
<1>23. \A n : Backed(n) <=>
         /\ ctrl.sock = "open" => accepted
         /\ \/ Live \/ crossed \/ ctrl.sock = "dead"
            \/ \E i \in DOMAIN inbox : i > n /\ inbox[i] = "disconnected"
  BY DEF Backed
<1>24. \A n : Backed(n)' <=>
         /\ ctrl'.sock = "open" => accepted'
         /\ \/ Live' \/ crossed' \/ ctrl'.sock = "dead"
            \/ \E i \in DOMAIN inbox' : i > n /\ inbox'[i] = "disconnected"
  BY DEF Backed
<1>. HIDE DEF Live
<1>3. inbox' \in Seq(Message)
  BY <1>1, <1>2, InvTyped DEF Message
<1>31. \A i \in DOMAIN inbox : i \in DOMAIN inbox' /\ inbox'[i] = inbox[i]
  BY <1>1, <1>2
<1>4. ASSUME NEW n \in 0 .. Len(inbox), Backed(n), ctrl.sock # "none"
      PROVE  Backed(n)'
  <2>1. ctrl'.sock = "open" => accepted'
    BY <1>4, <1>23
  <2>2. CASE Live' \/ crossed' \/ ctrl.sock = "dead"
    BY <2>1, <2>2, <1>24
  <2>3. CASE (Live => Live') /\ (crossed => crossed')
    <3>1. CASE \E i \in DOMAIN inbox : i > n /\ inbox[i] = "disconnected"
      BY <1>24, <1>31, <2>1, <3>1
    <3>. QED  BY <1>4, <1>23, <2>2, <2>3, <3>1
  <2>4. CASE ctrl.sock # "dead" /\ (accepted => m = "disconnected" /\ inbox' = q)
    <3>1. ctrl.sock = "open"
      BY <1>4, <2>4, InvTyped2 DEF CtrlRec
    <3>2. inbox' = q /\ m = "disconnected"
      BY <1>4, <1>23, <2>4, <3>1
    <3>3. Len(inbox) + 1 \in DOMAIN inbox' /\ Len(inbox) + 1 > n
          /\ inbox'[Len(inbox) + 1] = "disconnected"
      BY <1>1, <3>2
    <3>. QED  BY <1>24, <2>1, <3>3
  <2>. QED  BY <1>21, <2>2, <2>3, <2>4
<1>5. ASSUME Upcoming' = "Connected"
      PROVE  proto' # 0 /\ ctrl'.state = "eReady" /\ ctrl'.sock # "none" /\ Backed(0)'
  <2>1. Upcoming = "Connected"
    BY <1>5 DEF Upcoming
  <2>2. proto # 0 /\ ctrl.state = "eReady" /\ ctrl.sock # "none" /\ Backed(0)
    BY <2>1 DEF ClientInv, ConnectedBacked
  <2>. QED  BY <1>1, <1>4, <2>2
<1>6. ASSUME NEW i \in DOMAIN inbox', inbox'[i] = "connected"
      PROVE  proto' # 0 /\ Backed(i)'
  <2>1. CASE i \in DOMAIN inbox
    <3>1. inbox[i] = "connected" /\ i \in 0 .. Len(inbox) /\ inbox # <<>>
      BY <1>1, <1>2, <1>6, <2>1
    <3>2. proto # 0 /\ Backed(i) /\ ctrl.sock # "none"
      BY <2>1, <3>1 DEF ClientInv, ConnectedBacked, SocketOK
    <3>. QED  BY <1>4, <3>1, <3>2
  <2>2. CASE i \notin DOMAIN inbox
    <3>1. inbox' # inbox /\ m = "connected"
      BY <1>1, <1>2, <1>6, <2>2
    <3>2. ctrl.sock = "open" /\ accepted' /\ (crossed' \/ Live')
      BY <1>22, <3>1
    <3>3. proto # 0
      BY <3>2, HasProtocol, InvTyped
    <3>. QED  BY <1>24, <3>2, <3>3
  <2>. QED  BY <2>1, <2>2
<1>. QED  BY <1>3, <1>5, <1>6 DEF ConnectedBacked

\* A command that is not an activation leaves the one that is being served.
LEMMA ActivatingKept ==
  ASSUME ClientInv, NEW n \in Sockets, NEW c, Serve(n, c), ServiceStep,
         c # "activating" \/ n # proto, proto # 0, Activating
  PROVE  Activating'
<1>1. proto \in Sockets /\ proto' = proto
  BY InvTyped DEF ServiceStep, Sockets
<1>2. n # proto
  BY DEF Activating, NextIs, Serve
<1>3. cmds'[proto] = cmds[proto]
  BY <1>1, <1>2, TakenOff
<1>. QED  BY <1>1, <1>3 DEF Activating, NextIs

\* What the ends of the socket know of each other when a command has been taken
\* off.
LEMMA SocketServed ==
  ASSUME ClientInv, NEW n \in Sockets, NEW c, Serve(n, c), ServiceStep,
         leaked \subseteq leaked', UNCHANGED <<ctrl, up>>,
         accepted' => accepted \/ n = proto, inbox' # inbox => ctrl.sock = "open",
         await' => tunnel' # 0, tunnel' \in {0, tunnel, n}
  PROVE  SocketOK'
<1>1. cmds[n] # <<>> /\ \A k \in Sockets : k # n => cmds'[k] = cmds[k]
  BY TakenOff
<1>2. up /\ n # 0 /\ (n = proto => ctrl.sock = "open")
  BY <1>1, ServiceUp
<1>3. proto' = proto /\ (proto' # 0 => ~Deactivated(proto, 0)')
  BY TakenOwned DEF ServiceStep
<1>4. ASSUME ctrl.sock # "open"
      PROVE  ~accepted' /\ (proto # 0 => tunnel' # proto /\ cmds'[proto] = <<>>)
  <2>1. ~accepted /\ n # proto /\ (proto # 0 => tunnel # proto /\ cmds[proto] = <<>>)
    BY <1>2, <1>4 DEF ClientInv, SocketOK
  <2>2. proto # 0 => proto \in Sockets
    BY InvTyped DEF Sockets
  <2>. QED  BY <1>1, <2>1, <2>2
<1>. QED  BY <1>2, <1>3, <1>4 DEF ClientInv, SocketOK

\* The same for a command that leaves the tunnel alone.
LEMMA OwnersKept ==
  ASSUME ClientInv, NEW n \in Sockets, NEW c, c \notin Stops, Serve(n, c), ServiceStep,
         UNCHANGED <<ctrl, leaked, up, tunnel, await>>,
         accepted' => accepted \/ n = proto, inbox' # inbox => ctrl.sock = "open"
  PROVE  SocketOK' /\ TunnelsOwned'
<1>1. SocketOK'
  <2>1. await' => tunnel' # 0
    BY DEF ClientInv, SocketOK
  <2>. QED  BY <2>1, SocketServed
<1>2. TunnelsOwned'
  <2>1. /\ \A k \in Sockets : \A i \in DOMAIN cmds'[k] :
             cmds'[k][i] \in Activations =>
               k \in leaked' \cup {proto'} \/ Deactivated(k, i)'
        /\ \A k \in Sockets : Deactivated(k, 0) => Deactivated(k, 0)'
    BY TakenOwned
  <2>2. tunnel' # 0 => tunnel' \in leaked' \cup {proto'} \/ Deactivated(tunnel, 0)'
    <3>1. tunnel # 0 => tunnel \in Sockets
      BY InvTyped DEF Sockets
    <3>2. tunnel # 0 => tunnel \in leaked \cup {proto} \/ Deactivated(tunnel, 0)
      BY DEF ClientInv, TunnelsOwned
    <3>3. ASSUME NEW t \in Sockets, t = tunnel, Deactivated(tunnel, 0)
          PROVE  Deactivated(tunnel, 0)'
      <4>1. Deactivated(t, 0)'
        BY <2>1, <3>3
      <4>. QED  BY <3>3, <4>1 DEF Deactivated
    <3>. QED  BY <3>1, <3>2, <3>3 DEF ServiceStep
  <2>. QED  BY <2>1, <2>2 DEF TunnelsOwned
<1>. QED  BY <1>1, <1>2

LEMMA StepServeAccept ==
  ASSUME ClientInv, NEW n \in Sockets, ServeAccept(n)
  PROVE  ClientInv'
<1>1. /\ Serve(n, "accept") /\ ServiceStep
      /\ accepted' = (accepted \/ n = proto)
      /\ UNCHANGED <<ctrl, inbox, leaked, crossed, serviceVars>>
      /\ UNCHANGED <<uiVars, uiQueue, vpnQueue, calls, ipc, starting, proto>>
  BY DEF ServeAccept, ServiceStep
<1>2. cmds' \in CmdFun /\ cmds[n] # <<>> /\ RequestsOnce'
      /\ \A k \in Sockets : k # n => cmds'[k] = cmds[k]
  BY <1>1, TakenOff
<1>3. up /\ n # 0 /\ (n = proto => ctrl.sock = "open")
  BY <1>2, ServiceUp
<1>4. TypeOK'
  <2>1. accepted' \in BOOLEAN
    BY <1>1
  <2>. QED  BY <1>1, <1>2, <2>1, InvTyped, InvTyped2, Retyped
<1>5. SocketOK' /\ TunnelsOwned'
  BY <1>1, <1>2, <1>3, OwnersKept DEF Stops
<1>6. ConnectedBacked'
  <2>. DEFINE m == "disconnected"
  <2>1. m \in Message /\ inbox' \in {inbox, Append(inbox, m)}
    BY <1>1 DEF Message
  <2>2. CASE proto = 0
    <3>1. inbox' = <<>> /\ Upcoming' # "Connected"
      BY <1>1, <2>2, NoProtocol DEF Upcoming
    <3>. QED  BY <3>1, NothingConnected
  <2>3. CASE proto # 0
    <3>1. Silent' => Silent
      BY <1>1, TakenOwned
    <3>2. Activating => Activating'
      BY <1>1, <2>3, ActivatingKept
    <3>. QED  BY <1>1, <2>1, <3>1, <3>2, DaemonSaid
  <2>. QED  BY <2>2, <2>3
<1>. QED  BY <1>2, <1>4, <1>5, <1>6 DEF ClientInv

LEMMA StepServeStatus ==
  ASSUME ClientInv, NEW n \in Sockets, ServeStatus(n)
  PROVE  ClientInv'
<1>1. /\ Serve(n, "status") /\ ServiceStep
      /\ inbox' = IF n = proto THEN Append(inbox, "status") ELSE inbox
      /\ UNCHANGED <<ctrl, accepted, leaked, crossed, serviceVars>>
      /\ UNCHANGED <<uiVars, uiQueue, vpnQueue, calls, ipc, starting, proto>>
  BY DEF ServeStatus, Reply, ServiceStep
<1>2. cmds' \in CmdFun /\ cmds[n] # <<>> /\ RequestsOnce'
      /\ \A k \in Sockets : k # n => cmds'[k] = cmds[k]
  BY <1>1, TakenOff
<1>3. up /\ n # 0 /\ (n = proto => ctrl.sock = "open")
  BY <1>2, ServiceUp
<1>4. inbox' \in Seq(Message) /\ ConnectedBacked'
  <2>1. inbox' \in {inbox, Append(inbox, "status")} /\ "status" \in Message
    BY <1>1 DEF Message
  <2>2. CASE proto = 0
    <3>1. inbox' = <<>> /\ Upcoming' # "Connected"
      BY <1>1, <1>3, <2>2, NoProtocol DEF Upcoming
    <3>. QED  BY <3>1, NothingConnected, EmptyTyped
  <2>3. CASE proto # 0
    <3>1. Silent' => Silent
      BY <1>1, TakenOwned
    <3>2. Activating => Activating'
      BY <1>1, <2>3, ActivatingKept
    <3>3. inbox' # inbox => ctrl.sock = "open"
      BY <1>1, <1>3
    <3>. QED  BY <1>1, <2>1, <3>1, <3>2, <3>3, DaemonSaid
  <2>. QED  BY <2>2, <2>3
<1>5. TypeOK'
  BY <1>1, <1>2, <1>4, InvTyped, InvTyped2, Retyped DEF Message
<1>6. SocketOK' /\ TunnelsOwned'
  BY <1>1, <1>2, <1>3, OwnersKept DEF Stops
<1>. QED  BY <1>2, <1>4, <1>5, <1>6 DEF ClientInv

\* A command in another phase: what is to deactivate still is, and so is what
\* activates.
LEMMA BegunOwned ==
  ASSUME ClientInv, NEW n \in Sockets, NEW c, NEW d \in Commands, Begin(n, c, d), ServiceStep,
         leaked' = leaked, \/ c = "activate" /\ d = "activating"
                           \/ c = "deactivate" /\ d = "deactivating"
  PROVE  /\ \A k \in Sockets : \A i : Deactivated(k, i)' <=> Deactivated(k, i)
         /\ \A k \in Sockets : \A i \in DOMAIN cmds'[k] :
              cmds'[k][i] \in Activations =>
                k \in leaked' \cup {proto'} \/ Deactivated(k, i)'
         /\ proto' # 0 => ~Deactivated(proto, 0)'
         /\ c = "activate" => (Silent' => Silent)
<1>1. /\ \A k \in Sockets : k # n => cmds'[k] = cmds[k]
      /\ cmds[n][1] = c /\ 1 \in DOMAIN cmds[n]
      /\ DOMAIN cmds'[n] = DOMAIN cmds[n] /\ cmds'[n][1] = d
      /\ \A i \in DOMAIN cmds[n] : i # 1 => cmds'[n][i] = cmds[n][i]
  BY Begun
<1>2. proto' = proto
  BY DEF ServiceStep
<1>3. \A i \in DOMAIN cmds[n] : /\ cmds'[n][i] \in Stops <=> cmds[n][i] \in Stops
                                /\ cmds'[n][i] \in Activations <=> cmds[n][i] \in Activations
  BY <1>1 DEF Stops, Activations
<1>4. \A k \in Sockets : \A i \in DOMAIN cmds[k] :
        /\ cmds'[k][i] \in Stops <=> cmds[k][i] \in Stops
        /\ cmds'[k][i] \in Activations <=> cmds[k][i] \in Activations
  BY <1>1, <1>3
<1>5. \A k \in Sockets : DOMAIN cmds'[k] = DOMAIN cmds[k]
  BY <1>1
<1>6. ASSUME NEW k \in Sockets, NEW i
      PROVE  Deactivated(k, i)' <=> Deactivated(k, i)
  BY <1>4, <1>5 DEF Deactivated, Stops
<1>7. ASSUME NEW k \in Sockets, NEW i \in DOMAIN cmds'[k], cmds'[k][i] \in Activations
      PROVE  k \in leaked' \cup {proto'} \/ Deactivated(k, i)'
  BY <1>2, <1>4, <1>5, <1>6, <1>7 DEF ClientInv, TunnelsOwned
<1>8. ASSUME proto' # 0
      PROVE  ~Deactivated(proto, 0)'
  <2>1. proto \in Sockets /\ ~Deactivated(proto, 0)
    BY <1>2, <1>8, InvTyped DEF ClientInv, SocketOK, Sockets
  <2>2. \A i \in DOMAIN cmds'[proto] : cmds'[proto][i] \in Stops <=> cmds[proto][i] \in Stops
    BY <1>4, <1>5, <2>1
  <2>. QED  BY <1>2, <1>5, <2>1, <2>2 DEF Deactivated, Stops
<1>9. ASSUME c = "activate", Silent'
      PROVE  Silent
  <2>1. \A i \in DOMAIN cmds[n] : cmds'[n][i] = "deactivating" => cmds[n][i] = "deactivating"
    BY <1>1, <1>9
  <2>2. \A k \in Sockets : \A i \in DOMAIN cmds[k] :
          cmds'[k][i] \in Activations \cup {"deactivating"} =>
            cmds[k][i] \in Activations \cup {"deactivating"}
    BY <1>1, <1>4, <2>1
  <2>. QED  BY <1>2, <1>5, <1>9, <2>2 DEF Silent
<1>. QED  BY <1>6, <1>7, <1>8, <1>9

\* What is first on the socket of n, when it is not the current protocol's, will
\* take the tunnel down.
LEMMA SilentFirst ==
  ASSUME ClientInv, NEW n \in Sockets, NEW c \in Activations \cup {"deactivating"},
         NextIs(n, c), n # proto
  PROVE  Silent
<1>1. cmds[n] \in Seq(Commands) /\ cmds[n] # <<>> /\ Head(cmds[n]) = c
  BY InvTyped DEF CmdFun, NextIs
<1>2. 1 \in DOMAIN cmds[n] /\ cmds[n][1] = c
  BY <1>1, TailSeq
<1>. QED  BY <1>2 DEF Silent

LEMMA StepTurnActivate ==
  ASSUME ClientInv, NEW n \in Sockets, TurnActivate(n)
  PROVE  ClientInv'
<1>1. /\ Begin(n, "activate", "activating") /\ ServiceStep
      /\ UNCHANGED <<ctrl, inbox, accepted, leaked, crossed, up, stops>>
      /\ UNCHANGED <<uiVars, uiQueue, vpnQueue, calls, ipc, starting, proto>>
      /\ \/ tunnel' = 0 /\ await' = FALSE
         \/ tunnel' = n /\ await' = TRUE
  BY DEF TurnActivate, ServiceStep, Tunnel!Drop, Tunnel!Publish
<1>2. "activating" \in Commands
  BY DEF Commands
<1>3. /\ cmds' \in CmdFun /\ RequestsOnce'
      /\ \A k \in Sockets : k # n => cmds'[k] = cmds[k]
      /\ cmds[n] # <<>> /\ cmds[n][1] = "activate" /\ 1 \in DOMAIN cmds[n]
      /\ DOMAIN cmds[n] \subseteq Nat \ {0}
      /\ cmds'[n] # <<>> /\ Head(cmds'[n]) = "activating"
  BY <1>1, <1>2, Begun
<1>4. /\ \A k \in Sockets : \A i : Deactivated(k, i)' <=> Deactivated(k, i)
      /\ \A k \in Sockets : \A i \in DOMAIN cmds'[k] :
           cmds'[k][i] \in Activations =>
             k \in leaked' \cup {proto'} \/ Deactivated(k, i)'
      /\ proto' # 0 => ~Deactivated(proto, 0)'
      /\ Silent' => Silent
  BY <1>1, <1>2, BegunOwned
<1>5. up /\ n # 0 /\ n \in 1 .. MaxOpens /\ (n = proto => ctrl.sock = "open")
  BY <1>3, ServiceUp
<1>7. TypeOK'
  <2>1. tunnel' \in 0 .. MaxOpens
    BY <1>1, <1>5, InvTyped
  <2>2. await' \in BOOLEAN
    BY <1>1
  <2>. QED  BY <1>1, <1>3, <2>1, <2>2, InvTyped, InvTyped2, Retyped
<1>8. SocketOK'
  <2>1. await' => tunnel' # 0
    BY <1>1, <1>5
  <2>2. ASSUME ctrl.sock # "open", proto # 0
        PROVE  tunnel' # proto /\ cmds'[proto] = <<>>
    <3>1. cmds[proto] = <<>> /\ n # proto /\ proto \in Sockets
      BY <1>5, <2>2, InvTyped DEF ClientInv, SocketOK, Sockets
    <3>. QED  BY <1>1, <1>3, <2>2, <3>1
  <2>. QED  BY <1>1, <1>4, <1>5, <2>1, <2>2 DEF ClientInv, SocketOK
<1>9. TunnelsOwned'
  <2>1. n \in leaked \cup {proto} \/ Deactivated(n, 1)
    BY <1>3 DEF ClientInv, TunnelsOwned, Activations
  <2>2. Deactivated(n, 1) => Deactivated(n, 0)'
    <3>1. Deactivated(n, 1) => Deactivated(n, 0)
      BY <1>3 DEF Deactivated
    <3>. QED  BY <1>4, <3>1
  <2>3. ASSUME tunnel' = n
        PROVE  tunnel' \in leaked' \cup {proto'} \/ Deactivated(tunnel, 0)'
    <3>1. Deactivated(n, 0)' => Deactivated(tunnel, 0)'
      BY <2>3 DEF Deactivated
    <3>. QED  BY <1>1, <2>1, <2>2, <2>3, <3>1
  <2>. QED  BY <1>1, <1>4, <2>3 DEF TunnelsOwned
<1>10. ConnectedBacked'
  <2>1. "disconnected" \in Message /\ inbox' \in {inbox, Append(inbox, "disconnected")}
    BY <1>1 DEF Message
  <2>2. CASE n = proto
    <3>1. Activating'
      BY <1>1, <1>3, <2>2 DEF Activating, NextIs
    <3>. QED  BY <1>1, <1>4, <2>1, <3>1, DaemonSaid
  <2>3. CASE n # proto
    <3>1. Silent
      BY <1>1, <2>3, SilentFirst DEF Begin, Activations
    <3>. QED  BY <1>1, <2>1, <3>1, DaemonSaid
  <2>. QED  BY <2>2, <2>3
<1>. QED  BY <1>3, <1>7, <1>8, <1>9, <1>10 DEF ClientInv

LEMMA StepServeActivate ==
  ASSUME ClientInv, NEW n \in Sockets, ServeActivate(n)
  PROVE  ClientInv'
<1>1. PICK c \in Activations :
        /\ Serve(n, c) /\ ServiceStep
        /\ UNCHANGED <<ctrl, accepted, leaked, crossed, up, stops>>
        /\ UNCHANGED <<uiVars, uiQueue, vpnQueue, calls, ipc, starting, proto>>
        /\ \/ tunnel' = n /\ await' = TRUE /\ inbox' = inbox
           \/ /\ tunnel' = tunnel /\ await' = await
              /\ inbox' = IF n = proto THEN Append(inbox, "disconnected") ELSE inbox
  BY DEF ServeActivate, Reply, ServiceStep, Activations, Tunnel!Publish, Tunnel!Leave
<1>2. /\ cmds' \in CmdFun /\ RequestsOnce' /\ cmds[n] # <<>>
      /\ cmds[n][1] = c /\ 1 \in DOMAIN cmds[n]
      /\ \A k \in Nat : Deactivated(n, k + 1) => Deactivated(n, k)'
  BY <1>1, TakenOff
<1>3. up /\ n # 0 /\ n \in 1 .. MaxOpens /\ (n = proto => ctrl.sock = "open")
  BY <1>2, ServiceUp
<1>4. /\ \A k \in Sockets : \A i \in DOMAIN cmds'[k] :
           cmds'[k][i] \in Activations =>
             k \in leaked' \cup {proto'} \/ Deactivated(k, i)'
      /\ \A k \in Sockets : Deactivated(k, 0) => Deactivated(k, 0)'
      /\ Silent' => Silent
  <2>1. c \notin Stops
    BY DEF Activations, Stops
  <2>. QED  BY <1>1, <2>1, TakenOwned
<1>5. inbox' \in Seq(Message) /\ ConnectedBacked'
  <2>1. inbox' \in {inbox, Append(inbox, "disconnected")} /\ "disconnected" \in Message
    BY <1>1 DEF Message
  <2>2. inbox' # inbox => ctrl.sock = "open"
    BY <1>1, <1>3
  <2>3. CASE n = proto
    BY <1>1, <1>3, <1>4, <2>1, <2>2, <2>3, DaemonSaid
  <2>4. CASE n # proto
    <3>1. Silent
      BY <1>1, <2>4, SilentFirst DEF Serve
    <3>. QED  BY <1>1, <2>1, <2>2, <3>1, DaemonSaid
  <2>. QED  BY <2>3, <2>4
<1>6. TypeOK'
  <2>1. tunnel' \in 0 .. MaxOpens
    BY <1>1, <1>3, InvTyped
  <2>2. await' \in BOOLEAN
    BY <1>1, InvTyped2
  <2>. QED  BY <1>1, <1>2, <1>5, <2>1, <2>2, InvTyped, InvTyped2, Retyped DEF Message
<1>7. SocketOK'
  <2>1. ASSUME await'
        PROVE  tunnel' # 0
    <3>1. CASE tunnel' = n
      BY <1>3, <3>1
    <3>2. CASE tunnel' = tunnel /\ await' = await
      BY <2>1, <3>2 DEF ClientInv, SocketOK
    <3>. QED  BY <1>1, <3>1, <3>2
  <2>2. inbox' # inbox => ctrl.sock = "open"
    BY <1>1, <1>3
  <2>. QED  BY <1>1, <2>1, <2>2, SocketServed
<1>8. TunnelsOwned'
  <2>1. n \in leaked \cup {proto} \/ Deactivated(n, 0)'
    <3>1. n \in leaked \cup {proto} \/ Deactivated(n, 0 + 1)
      BY <1>2 DEF ClientInv, TunnelsOwned
    <3>. QED  BY <1>2, <3>1
  <2>2. CASE tunnel' = n
    <3>1. Deactivated(n, 0)' => Deactivated(tunnel, 0)'
      BY <2>2 DEF Deactivated
    <3>. QED  BY <1>1, <1>4, <2>1, <2>2, <3>1 DEF TunnelsOwned
  <2>3. CASE tunnel' = tunnel
    <3>1. tunnel # 0 => tunnel \in Sockets
      BY InvTyped DEF Sockets
    <3>2. tunnel # 0 => tunnel \in leaked \cup {proto} \/ Deactivated(tunnel, 0)
      BY DEF ClientInv, TunnelsOwned
    <3>3. ASSUME NEW t \in Sockets, t = tunnel, Deactivated(tunnel, 0)
          PROVE  Deactivated(tunnel, 0)'
      <4>1. Deactivated(t, 0)'
        BY <1>4, <3>3
      <4>. QED  BY <2>3, <3>3, <4>1 DEF Deactivated
    <3>. QED  BY <1>1, <1>4, <2>3, <3>1, <3>2, <3>3 DEF TunnelsOwned
  <2>. QED  BY <1>1, <2>2, <2>3
<1>. QED  BY <1>2, <1>5, <1>6, <1>7, <1>8 DEF ClientInv

\* A command to deactivate is not the current protocol's.
LEMMA StopperGone ==
  ASSUME ClientInv, NEW n \in Sockets, NEW c \in Stops, NextIs(n, c)
  PROVE  n # proto
<1>1. cmds[n] \in Seq(Commands) /\ cmds[n] # <<>> /\ Head(cmds[n]) = c
  BY InvTyped DEF CmdFun, NextIs
<1>2. 1 \in DOMAIN cmds[n] /\ cmds[n][1] = c
  BY <1>1, TailSeq
<1>3. Deactivated(n, 0) /\ n # 0
  BY <1>2, BoundsAssumption DEF Deactivated, Stops, Sockets
<1>. QED  BY <1>3 DEF ClientInv, SocketOK

LEMMA StepTurnDeactivate ==
  ASSUME ClientInv, NEW n \in Sockets, TurnDeactivate(n)
  PROVE  ClientInv'
<1>1. /\ Begin(n, "deactivate", "deactivating") /\ ServiceStep
      /\ inbox' = IF accepted THEN Append(inbox, "disconnected") ELSE inbox
      /\ UNCHANGED <<ctrl, accepted, leaked, crossed, serviceVars>>
      /\ UNCHANGED <<uiVars, uiQueue, vpnQueue, calls, ipc, starting, proto>>
  BY DEF TurnDeactivate, ServiceStep, Broadcast
<1>2. "deactivating" \in Commands
  BY DEF Commands
<1>3. /\ cmds' \in CmdFun /\ RequestsOnce' /\ cmds[n] # <<>>
      /\ \A k \in Sockets : k # n => cmds'[k] = cmds[k]
  BY <1>1, <1>2, Begun
<1>4. /\ \A k \in Sockets : \A i : Deactivated(k, i)' <=> Deactivated(k, i)
      /\ \A k \in Sockets : \A i \in DOMAIN cmds'[k] :
           cmds'[k][i] \in Activations =>
             k \in leaked' \cup {proto'} \/ Deactivated(k, i)'
      /\ proto' # 0 => ~Deactivated(proto, 0)'
  BY <1>1, <1>2, BegunOwned
<1>5. up /\ n # proto /\ (accepted => ctrl.sock = "open")
  <2>1. up
    BY <1>3, ServiceUp
  <2>2. n # proto
    BY <1>1, StopperGone DEF Begin, Stops
  <2>. QED  BY <2>1, <2>2 DEF ClientInv, SocketOK
<1>6. inbox' \in Seq(Message) /\ ConnectedBacked'
  <2>1. inbox' \in {inbox, Append(inbox, "disconnected")} /\ "disconnected" \in Message
    BY <1>1 DEF Message
  <2>2. inbox' # inbox => ctrl.sock = "open"
    BY <1>1, <1>5
  <2>3. accepted => inbox' = Append(inbox, "disconnected")
    BY <1>1
  <2>. QED  BY <1>1, <2>1, <2>2, <2>3, DaemonSaid
<1>7. TypeOK'
  BY <1>1, <1>3, <1>6, InvTyped, InvTyped2, Retyped DEF Message
<1>8. SocketOK'
  <2>1. proto # 0 => cmds'[proto] = cmds[proto]
    BY <1>3, <1>5, InvTyped DEF Sockets
  <2>. QED  BY <1>1, <1>4, <1>5, <2>1 DEF ClientInv, SocketOK
<1>9. TunnelsOwned'
  <2>1. tunnel # 0 => tunnel \in Sockets
    BY InvTyped DEF Sockets
  <2>2. tunnel # 0 => tunnel \in leaked \cup {proto} \/ Deactivated(tunnel, 0)
    BY DEF ClientInv, TunnelsOwned
  <2>3. ASSUME NEW t \in Sockets, t = tunnel, Deactivated(tunnel, 0)
        PROVE  Deactivated(tunnel, 0)'
    <3>1. Deactivated(t, 0)'
      BY <1>4, <2>3
    <3>. QED  BY <1>1, <2>3, <3>1 DEF Deactivated
  <2>. QED  BY <1>1, <1>4, <2>1, <2>2, <2>3 DEF TunnelsOwned
<1>. QED  BY <1>3, <1>6, <1>7, <1>8, <1>9 DEF ClientInv

LEMMA StepServeDeactivate ==
  ASSUME ClientInv, NEW n \in Sockets, ServeDeactivate(n)
  PROVE  ClientInv'
<1>1. /\ Serve(n, "deactivating") /\ ServiceStep
      /\ UNCHANGED <<ctrl, inbox, accepted, crossed, up, stops>>
      /\ UNCHANGED <<uiVars, uiQueue, vpnQueue, calls, ipc, starting, proto>>
      /\ \/ tunnel' = 0 /\ await' = FALSE /\ leaked' = leaked
         \/ /\ tunnel # 0 /\ leaked' = leaked \cup {tunnel}
            /\ tunnel' = tunnel /\ await' = await
  BY DEF ServeDeactivate, ServiceStep, Tunnel!Drop, Tunnel!Leave
<1>2. cmds' \in CmdFun /\ RequestsOnce'
  BY <1>1, TakenOff
<1>3. leaked \subseteq leaked'
  BY <1>1
<1>4. \A k \in Sockets : \A i \in DOMAIN cmds'[k] :
        cmds'[k][i] \in Activations =>
          k \in leaked' \cup {proto'} \/ Deactivated(k, i)'
  BY <1>1, <1>3, TakenOwned
<1>5. ConnectedBacked'
  <2>1. inbox' \in {inbox, Append(inbox, "disconnected")} /\ "disconnected" \in Message
    BY <1>1 DEF Message
  <2>2. n # proto
    BY <1>1, StopperGone DEF Serve, Stops
  <2>3. Silent
    BY <1>1, <2>2, SilentFirst DEF Serve
  <2>. QED  BY <1>1, <2>1, <2>3, DaemonSaid
<1>6. TypeOK'
  <2>1. tunnel' \in 0 .. MaxOpens /\ leaked' \subseteq 1 .. MaxOpens
    BY <1>1, InvTyped, InvTyped2
  <2>2. await' \in BOOLEAN
    BY <1>1, InvTyped2
  <2>. QED  BY <1>1, <1>2, <2>1, <2>2, InvTyped, InvTyped2, Retyped
<1>7. SocketOK'
  <2>1. await' => tunnel' # 0
    BY <1>1
  <2>. QED  BY <1>1, <1>3, <2>1, SocketServed
<1>8. TunnelsOwned'
  BY <1>1, <1>4 DEF TunnelsOwned
<1>. QED  BY <1>2, <1>5, <1>6, <1>7, <1>8 DEF ClientInv

LEMMA StepCheckHandshake ==
  ASSUME ClientInv, CheckHandshake
  PROVE  ClientInv'
<1>1. /\ await /\ await' = FALSE /\ ServiceStep
      /\ UNCHANGED <<ctrl, cmds, accepted, leaked, up, tunnel, stops>>
      /\ UNCHANGED <<uiVars, uiQueue, vpnQueue, calls, ipc, starting, proto>>
      /\ inbox' = IF accepted THEN Append(inbox, "connected") ELSE inbox
      /\ crossed' = Silent
  BY DEF CheckHandshake, Broadcast, ServiceStep
<1>2. tunnel # 0 /\ (accepted => ctrl.sock = "open")
  BY <1>1 DEF ClientInv, SocketOK
<1>20. Silent' <=> Silent
  BY <1>1 DEF Silent
<1>21. crossed' \in BOOLEAN
  BY <1>1 DEF Silent
<1>3. inbox' \in Seq(Message) /\ ConnectedBacked'
  <2>1. inbox' \in {inbox, Append(inbox, "connected")} /\ "connected" \in Message
    BY <1>1 DEF Message
  <2>2. inbox' # inbox => ctrl.sock = "open" /\ accepted'
    BY <1>1, <1>2
  <2>3. crossed' \/ (tunnel' # 0 /\ ~Silent')
    BY <1>1, <1>2, <1>20
  <2>. QED  BY <1>1, <2>1, <2>2, <2>3, DaemonSaid
<1>4. TypeOK'
  BY <1>1, <1>21, <1>3, InvTyped, InvTyped2, Retyped DEF Message
<1>5. RequestsOnce'
  BY <1>1, RequestsKept
<1>6. SocketOK'
  BY <1>1, <1>2 DEF ClientInv, SocketOK, Served, Deactivated
<1>7. TunnelsOwned'
  BY <1>1 DEF ClientInv, TunnelsOwned, Deactivated
<1>. QED  BY <1>3, <1>4, <1>5, <1>6, <1>7 DEF ClientInv

LEMMA StepServiceStop ==
  ASSUME ClientInv, ServiceStop
  PROVE  ClientInv'
<1>1. /\ up' = FALSE /\ tunnel' = 0 /\ await' = FALSE /\ cmds' = [n \in Sockets |-> <<>>]
      /\ accepted' = FALSE /\ ctrl' = [ctrl EXCEPT !.sock = IF @ = "open" THEN "dead" ELSE @]
      /\ UNCHANGED <<inbox, leaked, crossed>>
      /\ UNCHANGED <<uiVars, uiQueue, vpnQueue, calls, ipc, starting, proto>>
  BY DEF ServiceStop, ServiceStep
<1>2. /\ ctrl' \in CtrlRec /\ ctrl'.state = ctrl.state
      /\ ctrl'.sock = IF ctrl.sock = "open" THEN "dead" ELSE ctrl.sock
  BY <1>1, InvTyped2 DEF CtrlRec
<1>3. ctrl'.timer => ctrl.timer
  BY <1>1, InvTyped2 DEF CtrlRec
<1>4. ctrl.sock = "none" => ctrl' = ctrl
  BY <1>1, InvTyped2 DEF CtrlRec
<1>5. TypeOK'
  <2>1. tunnel' \in 0 .. MaxOpens
    BY <1>1, InvTyped
  <2>2. cmds' \in CmdFun
    BY <1>1, EmptyTyped DEF CmdFun
  <2>3. ctrl'.timer => ctrl'.state = "eInitializing" /\ ctrl'.sock = "none"
    BY <1>2, <1>3, InvTyped2
  <2>. QED  BY <1>1, <1>2, <2>1, <2>2, <2>3, InvTyped, InvTyped2, Retyped
<1>6. RequestsOnce'
  BY <1>1, RequestsKept
<1>7. SocketOK'
  <2>1. proto' = 0 => ctrl' = NoCtrl
    <3>1. NoCtrl.sock = "none"
      BY DEF NoCtrl
    <3>2. proto = 0 => ctrl = NoCtrl
      BY DEF ClientInv, SocketOK
    <3>. QED  BY <1>1, <1>4, <3>1, <3>2
  <2>2. \A n \in Sockets : cmds'[n] = <<>>
    BY <1>1
  <2>3. proto' # 0 => cmds'[proto'] = <<>>
    BY <1>1, <2>2, InvTyped DEF Sockets
  <2>4. proto' # 0 => ~Deactivated(proto, 0)'
    BY <2>3 DEF Deactivated
  <2>5. Served'
    BY <1>1 DEF Served
  <2>6. ctrl'.sock = "none" => inbox' = <<>>
    BY <1>1, <1>2 DEF ClientInv, SocketOK
  <2>. QED  BY <1>1, <1>2, <2>1, <2>3, <2>4, <2>5, <2>6 DEF ClientInv, SocketOK
<1>8. TunnelsOwned'
  BY <1>1 DEF TunnelsOwned
<1>9. ConnectedBacked'
  <2>1. ASSUME NEW k, ctrl.sock # "none"
        PROVE  Backed(k)'
    <3>1. ctrl'.sock = "dead"
      BY <1>2, <2>1, InvTyped2 DEF CtrlRec
    <3>. QED  BY <3>1 DEF Backed
  <2>2. ASSUME Upcoming' = "Connected"
        PROVE  proto' # 0 /\ ctrl'.state = "eReady" /\ ctrl'.sock # "none" /\ Backed(0)'
    <3>1. Upcoming = "Connected"
      BY <1>1, <2>2 DEF Upcoming
    <3>. QED  BY <1>1, <1>2, <2>1, <3>1 DEF ClientInv, ConnectedBacked
  <2>3. ASSUME NEW i \in DOMAIN inbox', inbox'[i] = "connected"
        PROVE  proto' # 0 /\ Backed(i)'
    <3>1. inbox # <<>> /\ i \in DOMAIN inbox /\ inbox[i] = "connected"
      BY <1>1, <2>3
    <3>2. proto # 0 /\ ctrl.sock # "none"
      BY <3>1 DEF ClientInv, SocketOK, ConnectedBacked
    <3>. QED  BY <1>1, <2>1, <3>2
  <2>. QED  BY <2>2, <2>3 DEF ConnectedBacked
<1>. QED  BY <1>5, <1>6, <1>7, <1>8, <1>9 DEF ClientInv

LEMMA StepServiceStart ==
  ASSUME ClientInv, ServiceStart
  PROVE  ClientInv'
<1>1. /\ up' = TRUE
      /\ UNCHANGED <<ctrl, inbox, cmds, accepted, leaked, crossed, tunnel, await, stops>>
      /\ UNCHANGED <<uiVars, uiQueue, vpnQueue, calls, ipc, starting, proto>>
  BY DEF ServiceStart, ServiceStep
<1>2. TypeOK'
  BY <1>1, InvTyped, InvTyped2, Retyped
<1>3. RequestsOnce'
  BY <1>1, RequestsKept
<1>4. SocketOK' /\ TunnelsOwned'
  BY <1>1 DEF ClientInv, SocketOK, TunnelsOwned, Served, Deactivated
<1>5. ConnectedBacked'
  BY <1>1, ShownKept DEF Upcoming
<1>. QED  BY <1>2, <1>3, <1>4, <1>5 DEF ClientInv

-----------------------------------------------------------------------------
(* Theorems *)

LEMMA ClientInit ==
  ASSUME Init
  PROVE  ClientInv
<1>1. TypeOK
  <2>1. /\ waiting \in Seq(1 .. MaxOpens) /\ uiQueue \in Seq(States)
        /\ vpnQueue \in Seq(CallRec) /\ calls \in Seq(CallRec) /\ cmds \in CmdFun
        /\ inbox \in Seq(Message)
    BY EmptyTyped DEF Init, CmdFun
  <2>2. ctrl \in CtrlRec /\ ~ctrl.timer
    BY NoCtrlTyped DEF Init
  <2>3. 0 \in 0 .. MaxOpens
    BY BoundsAssumption
  <2>4. m_state \in States \ {"Error"}
    BY DEF Init, States
  <2>5. /\ starting \in 0 .. MaxOpens /\ proto \in 0 .. MaxOpens /\ tunnel \in 0 .. MaxOpens
        /\ leaked \subseteq 1 .. MaxOpens
    BY <2>3 DEF Init
  <2>6. /\ up \in BOOLEAN /\ ipc \in BOOLEAN /\ accepted \in BOOLEAN /\ await \in BOOLEAN
        /\ crossed \in BOOLEAN
    BY DEF Init
  <2>. QED
    BY <2>1, <2>2, <2>4, <2>5, <2>6 DEF TypeOK, CallRec, CmdFun, CtrlRec, Message, Sockets
<1>2. RequestsOnce
  BY BoundsAssumption DEF Init, RequestsOnce, Awaited, Once, Holds, Used, Sockets
<1>3. SocketOK /\ TunnelsOwned
  BY DEF Init, SocketOK, TunnelsOwned, NoCtrl
<1>4. ConnectedBacked
  BY DEF Init, ConnectedBacked, Upcoming
<1>. QED  BY <1>1, <1>2, <1>3, <1>4 DEF ClientInv

LEMMA ClientStutter ==
  ASSUME ClientInv, UNCHANGED vars
  PROVE  ClientInv'
<1>1. TypeOK'
  BY DEF ClientInv, TypeOK, vars
<1>2. RequestsOnce'
  BY RequestsKept DEF vars
<1>3. SocketOK' /\ TunnelsOwned'
  BY SocketKept DEF vars
<1>4. ConnectedBacked'
  BY ShownKept DEF vars, Upcoming
<1>. QED  BY <1>1, <1>2, <1>3, <1>4 DEF ClientInv

\* The whole of ClientInv is an invariant, for any number of connects,
\* disconnects, attempts and stops of the service: what connectToVpn,
\* disconnectFromVpn, LocalSocketController and the daemon know of each other
\* stays consistent in every interleaving of the three threads, and of the
\* commands that nest in the daemon.
THEOREM ClientInvariant == Spec => []ClientInv
<1>1. Init => ClientInv
  BY ClientInit
<1>2. ClientInv /\ [Next]_vars => ClientInv'
  <2>. SUFFICES ASSUME ClientInv, [Next]_vars PROVE ClientInv'
    OBVIOUS
  <2>1. CASE UNCHANGED vars
    BY <2>1, ClientStutter
  <2>2. CASE User
    BY <2>2, StepOpen, StepClose
       DEF User, ToggleConnection, TrayDisconnect, OnCurrentContainerUpdated
  <2>3. CASE ContinueConnection \/ Ui
    BY <2>3, StepContinue, StepUi DEF Ui
  <2>4. CASE Vpn
    BY <2>4, StepBeginCall, StepConnectToVpn, StepStartProtocol, StepDisconnectFromVpn,
       StepReadData, StepSocketClosed DEF Vpn
  <2>5. CASE InitializingTimer
    BY <2>5, StepInitializingTimer
  <2>6. CASE Service
    BY <2>6, StepServeAccept, StepServeStatus, StepTurnActivate, StepServeActivate,
       StepTurnDeactivate, StepServeDeactivate, StepCheckHandshake DEF Service
  <2>7. CASE ServiceStop \/ ServiceStart
    BY <2>7, StepServiceStop, StepServiceStart
  <2>. QED  BY <2>1, <2>2, <2>3, <2>4, <2>5, <2>6, <2>7 DEF Next
<1>. QED  BY <1>1, <1>2, PTL DEF Spec

\* The variables keep their types, and the controller makes at most
\* MAX_CONNECTION_RETRY attempts whatever the service does (initializeInternal
\* and errorOccurred of LocalSocketController).
THEOREM TypeCorrect == Spec => []TypeOK
<1>1. ClientInv => TypeOK
  BY DEF ClientInv
<1>. QED  BY <1>1, ClientInvariant, PTL

\* A "Connected" that stays on the screen has a protocol object and a tunnel of
\* the daemon behind it (VpnConnection::onConnectionStateChanged fed by the
\* daemon's broadcasts), also when commands of several sockets nest in the
\* daemon - unless, when the handshake was seen, an older socket's command was
\* still to take the tunnel down.
THEOREM ConnectedIsUp == Spec => []ConnectedMeansUp
<1>1. ClientInv => ConnectedMeansUp
  <2>. SUFFICES ASSUME ClientInv, Quiet, m_state = "Connected"
                PROVE  proto # 0 /\ (tunnel # 0 \/ crossed)
    BY DEF ConnectedMeansUp
  <2>1. Upcoming = "Connected" /\ ctrl.sock # "dead" /\ inbox = <<>> /\ Served
    BY DEF Quiet, Upcoming
  <2>2. proto # 0 /\ Backed(0)
    BY <2>1 DEF ClientInv, ConnectedBacked
  <2>3. ~Activating
    BY <2>1, <2>2, InvTyped DEF Activating, NextIs, Served, Sockets
  <2>. QED  BY <2>1, <2>2, <2>3 DEF Backed
<1>. QED  BY <1>1, ClientInvariant, PTL

\* A tunnel that no protocol object stands for was left by a stop that came
\* before the daemon's status, or by a deactivation that failed
\* (LocalSocketController::deactivate).
THEOREM EarlyStopOnly == Spec => []OnlyEarlyStopLeavesTunnel
<1>1. ClientInv => OnlyEarlyStopLeavesTunnel
  <2>. SUFFICES ASSUME ClientInv, proto = 0, Served, tunnel # 0 PROVE tunnel \in leaked
    BY DEF OnlyEarlyStopLeavesTunnel
  <2>1. tunnel \in Sockets
    BY InvTyped DEF Sockets
  <2>2. ~Deactivated(tunnel, 0)
    BY <2>1 DEF Deactivated, Served
  <2>. QED  BY <2>2 DEF ClientInv, TunnelsOwned
<1>. QED  BY <1>1, ClientInvariant, PTL
=============================================================================
