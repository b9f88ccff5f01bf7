----------------------- MODULE DaemonOneClientProofs -----------------------
(***************************************************************************)
(* Proofs about the Daemon of one client: the application, which sends one *)
(* command at a time.  Only checkHandshake() runs inside the waits then,   *)
(* however often, and what activate() promises can be relied on.           *)
(***************************************************************************)
EXTENDS DaemonProofs

OneClient == \A c, d \in Clients : c = d

\* The private key is among the fields of iface, and the configurators make a
\* new one for each configuration of a server.
OneKey == \A c, d \in Configs : c.iface = d.iface => c.key = d.key

-----------------------------------------------------------------------------
(* The one call of the client. *)

\* The top call is the client's, those below it are polls.
Alone ==
  /\ depth \in 1..MaxDepth /\ Top.pc # "poll" /\ Top.by \in Clients
  /\ \A d \in 1..depth : d # depth => frame[d].pc = "poll"

\* Only polls are in progress.
Polling == \A d \in 1..depth : frame[d].pc = "poll"

LEMMA TopAlone ==
  ASSUME StackInv, OneCall, depth > 0, Top.pc # "poll"
  PROVE  Alone /\ Top \in Frame
<1>1. depth \in 1..MaxDepth /\ Top \in Frame
  BY TopTyped DEF StackInv
<1>2. depth \in 1..depth
  BY <1>1, DepthNat
<1>. QED  BY <1>1, <1>2 DEF OneCall, Alone, Top

LEMMA AloneOne ==
  ASSUME Alone'
  PROVE  OneCall'
<1>1. \A d \in 1..depth' : d = depth' \/ frame'[d].pc = "poll"
  BY DEF Alone
<1>. QED  BY <1>1 DEF Alone, OneCall, Top

LEMMA PollingOne == ASSUME Polling' PROVE OneCall'
BY DEF Polling, OneCall

LEMMA SetTopOne ==
  ASSUME StackInv, OneCall, depth > 0, Top.pc # "poll", NEW f \in Frame, depth' = depth,
         frame' = [frame EXCEPT ![depth] = f], f.pc # "poll", f.by = Top.by
  PROVE  Alone' /\ OneCall' /\ frame'[depth] = f
<1>1. Alone
  BY TopAlone
<1>2. /\ frame'[depth] = f
      /\ \A d \in 1..MaxDepth : d # depth => frame'[d] = frame[d]
  BY SetTop DEF StackInv
<1>3. \A d \in 1..depth : d \in 1..MaxDepth
  BY <1>1, DepthNat DEF Alone
<1>4. Alone'
  BY <1>1, <1>2, <1>3 DEF Alone, Top
<1>. QED  BY <1>2, <1>4, AloneOne

LEMMA GotoOne ==
  ASSUME StackInv, OneCall, depth > 0, Top.pc # "poll", NEW pc \in Pcs \ {"poll"}, Goto(pc)
  PROVE  /\ Alone' /\ OneCall' /\ depth' = depth
         /\ frame'[depth].pc = pc /\ frame'[depth].ack = "none"
         /\ frame'[depth].cfg = Top.cfg /\ frame'[depth].last = Top.last
<1>. DEFINE f == [Top EXCEPT !.pc = pc, !.ack = "none"]
<1>1. /\ f \in Frame /\ f.pc = pc /\ f.ack = "none" /\ f.cfg = Top.cfg /\ f.last = Top.last
      /\ f.by = Top.by
  BY TopAlone DEF Frame, Acks
<1>2. depth' = depth /\ frame' = [frame EXCEPT ![depth] = f]
  BY DEF Goto
<1>. HIDE DEF f
<1>. QED  BY <1>1, <1>2, SetTopOne

LEMMA CommandOne ==
  ASSUME StackInv, OneCall, depth > 0, Top.pc # "poll", NEW pc \in WaitPcs \ {"poll"},
         NEW last \in Configs \cup {NoConfig}, Command(pc, last)
  PROVE  /\ Alone' /\ OneCall' /\ depth' = depth
         /\ frame'[depth].pc = pc /\ frame'[depth].ack = Sent
         /\ frame'[depth].cfg = Top.cfg /\ frame'[depth].last = last
<1>. DEFINE f == [Top EXCEPT !.pc = pc, !.last = last, !.ack = Sent]
<1>1. /\ f \in Frame /\ f.pc = pc /\ f.ack = Sent /\ f.cfg = Top.cfg /\ f.last = last
      /\ f.by = Top.by
  <2>1. Sent \in Acks /\ pc \in Pcs
    BY DEF Sent, Acks, WaitPcs, Pcs
  <2>. QED  BY <2>1, TopAlone DEF Frame
<1>2. depth' = depth /\ frame' = [frame EXCEPT ![depth] = f]
  BY DEF Command
<1>. HIDE DEF f
<1>. QED  BY <1>1, <1>2, SetTopOne

LEMMA ReturnOne ==
  ASSUME StackInv, OneCall, depth > 0, Top.pc # "poll", Return
  PROVE  Polling' /\ OneCall' /\ depth' = depth - 1
<1>1. Alone
  BY TopAlone
<1>2. /\ depth' = depth - 1
      /\ \A d \in 1..MaxDepth : d # depth => frame'[d] = frame[d]
  BY SetReturn DEF StackInv
<1>3. \A d \in 1..depth' : d \in 1..MaxDepth /\ d \in 1..depth /\ d # depth
  BY <1>1, <1>2, DepthNat DEF Alone
<1>4. Polling'
  BY <1>1, <1>2, <1>3 DEF Alone, Polling
<1>. QED  BY <1>2, <1>4, PollingOne

-----------------------------------------------------------------------------
(* The invariants, for a client's call on top and for none. *)

\* What CallsOK and ServedOK say of the call in progress.
CallOK(f) ==
  /\ f.pc \in {"begin", "name", "conf", "exclude", "peer", "finish"} => connection = NoConfig
  /\ f.pc \in {"switch", "swpeer", "swdel", "swdone"} => connection # NoConfig
  /\ f.pc = "finish" \/ (f.pc = "peer" /\ f.ack \in {"sent", "ok"}) => tunnel # "dying"
  /\ f.pc \in {"delpeer", "down"} => ~resolvers

ServedCall(f) ==
  /\ f.pc = "peer" /\ tunnel = "running" =>
       Held(f.cfg, 1) /\ (f.ack = "ok" => f.cfg.key \in peers)
  /\ f.pc = "finish" /\ tunnel = "running" => Served(f.cfg)
  /\ f.pc \in {"switch", "swpeer", "swdone"} => f.cfg.iface = connection.iface
  /\ f.pc = "swpeer" => f.last = connection /\ (tunnel = "running" => Held(f.cfg, 2))
  /\ f.pc # "swdel"

LEMMA CallsTop ==
  ASSUME Alone, CallsOK
  PROVE  /\ tunnel = "dying" => connection = NoConfig
         /\ tunnel = "running" /\ Top.pc # "name" => rtmonitor
         /\ CallOK(Top)
<1>1. depth \in 1..depth
  BY DepthNat DEF Alone
<1>2. \A d \in 1..depth : frame[d].pc = "name" => Top.pc = "name"
  BY DEF Alone, Top
<1>. QED  BY <1>1, <1>2 DEF CallsOK, CallOK, Top

LEMMA CallsTopNext ==
  ASSUME Alone', tunnel' = "dying" => connection' = NoConfig,
         tunnel' = "running" /\ frame'[depth'].pc # "name" => rtmonitor',
         CallOK(Top)'
  PROVE  CallsOK'
<1>1. depth' \in 1..depth'
  BY DepthNat DEF Alone
<1>2. \A d \in 1..depth' : d = depth' \/ frame'[d].pc = "poll"
  BY DEF Alone
<1>3. tunnel' = "running" /\ ~rtmonitor' => \E d \in 1..depth' : frame'[d].pc = "name"
  BY <1>1
<1>. QED  BY <1>2, <1>3 DEF CallsOK, CallOK, Top

LEMMA CallsPolling ==
  ASSUME Polling, CallsOK
  PROVE  /\ tunnel = "dying" => connection = NoConfig
         /\ tunnel = "running" => rtmonitor
BY DEF Polling, CallsOK

LEMMA CallsPollingNext ==
  ASSUME Polling', tunnel' = "dying" => connection' = NoConfig,
         tunnel' = "running" => rtmonitor'
  PROVE  CallsOK'
BY DEF Polling, CallsOK

LEMMA ServedTop ==
  ASSUME Alone, ServedOK
  PROVE  /\ connection # NoConfig /\ tunnel = "running" /\ Top.pc \notin {"delpeer", "down"}
              => Served(connection)
         /\ ServedCall(Top)
<1>1. depth \in 1..depth
  BY DepthNat DEF Alone
<1>2. \A d \in 1..depth : d = depth \/ frame[d].pc = "poll"
  BY DEF Alone
<1>3. ServedCall(Top)
  BY <1>1 DEF ServedOK, ServedCall, Top
<1>. QED  BY <1>2, <1>3 DEF ServedOK, Top

LEMMA ServedTopNext ==
  ASSUME Alone',
         connection' # NoConfig /\ tunnel' = "running"
           /\ frame'[depth'].pc \notin {"delpeer", "down"} => Served(connection)',
         ServedCall(Top)'
  PROVE  ServedOK'
<1>1. depth' \in 1..depth'
  BY DepthNat DEF Alone
<1>2. \A d \in 1..depth' : d = depth' \/ frame'[d].pc = "poll"
  BY DEF Alone
<1>. QED  BY <1>1, <1>2 DEF ServedOK, ServedCall, Top

LEMMA ServedPolling ==
  ASSUME Polling, ServedOK
  PROVE  connection # NoConfig /\ tunnel = "running" => Served(connection)
BY DEF Polling, ServedOK

LEMMA ServedPollingNext ==
  ASSUME Polling', connection' # NoConfig /\ tunnel' = "running" => Served(connection)'
  PROVE  ServedOK'
BY DEF Polling, ServedOK

-----------------------------------------------------------------------------
(* OneCall and CallsOK are preserved by each action. *)

CallsInv == OneCall /\ CallsOK

USE DEF connVars, exclVars, wgVars, hostVars, callVars

\* The top call of the client goes on, to a place where it may be.
LEMMA CallsGoto ==
  ASSUME StackInv, CallsInv, depth > 0, Top.pc # "poll", NEW pc \in Pcs \ {"poll"}, Goto(pc),
         tunnel' = "dying" => connection' = NoConfig,
         tunnel' = "running" /\ pc # "name" => rtmonitor',
         pc \in {"begin", "name", "conf", "exclude", "peer", "finish"} => connection' = NoConfig,
         pc \in {"switch", "swpeer", "swdel", "swdone"} => connection' # NoConfig,
         pc = "finish" => tunnel' # "dying",
         pc \in {"delpeer", "down"} => ~resolvers'
  PROVE  CallsInv'
<1>1. /\ Alone' /\ OneCall' /\ depth' = depth
      /\ frame'[depth].pc = pc /\ frame'[depth].ack = "none"
  BY GotoOne DEF CallsInv
<1>2. CallOK(Top)'
  BY <1>1 DEF CallOK, Top
<1>. QED  BY <1>1, <1>2, CallsTopNext DEF CallsInv

LEMMA CallsCommand ==
  ASSUME StackInv, CallsInv, depth > 0, Top.pc # "poll", NEW pc \in WaitPcs \ {"poll"},
         NEW last \in Configs \cup {NoConfig}, Command(pc, last),
         tunnel' = tunnel, tunnel' = "dying" => connection' = NoConfig,
         tunnel' = "running" => rtmonitor',
         pc \in {"conf", "peer"} => connection' = NoConfig,
         pc \in {"swpeer", "swdel"} => connection' # NoConfig,
         pc = "delpeer" => ~resolvers'
  PROVE  CallsInv'
<1>1. /\ Alone' /\ OneCall' /\ depth' = depth
      /\ frame'[depth].pc = pc /\ frame'[depth].ack = Sent
  BY CommandOne DEF CallsInv
<1>2. Sent = "sent" => tunnel = "running"
  BY DEF Sent
<1>3. CallOK(Top)'
  BY <1>1, <1>2 DEF CallOK, Top, WaitPcs, Sent
<1>. QED  BY <1>1, <1>3, CallsTopNext DEF CallsInv

LEMMA CallsReturn ==
  ASSUME StackInv, CallsInv, depth > 0, Top.pc # "poll", Return,
         tunnel' = "dying" => connection' = NoConfig,
         tunnel' = "running" => rtmonitor'
  PROVE  CallsInv'
<1>1. Polling' /\ OneCall'
  BY ReturnOne DEF CallsInv
<1>. QED  BY <1>1, CallsPollingNext DEF CallsInv

\* What is known of a client's call that is about to make a step.
LEMMA CallsAt ==
  ASSUME StackInv, CallsInv, NEW pc, At(pc), pc # "poll"
  PROVE  /\ depth > 0 /\ Top.pc = pc /\ Top \in Frame
         /\ tunnel = "dying" => connection = NoConfig
         /\ tunnel = "running" /\ pc # "name" => rtmonitor
         /\ pc \in {"begin", "name", "conf", "exclude", "peer", "finish"} => connection = NoConfig
         /\ pc \in {"switch", "swpeer", "swdel", "swdone"} => connection # NoConfig
         /\ pc = "finish" \/ (pc = "peer" /\ Top.ack = "ok") => tunnel # "dying"
         /\ pc \in {"delpeer", "down"} => ~resolvers
         /\ connection \in Configs \cup {NoConfig} /\ tunnel \in {"off", "running", "dying"}
         /\ pc \in {"delpeer", "swpeer", "swdel"} => Top.last \in Configs
         /\ pc \in ActivatePcs => Top.cfg \in Configs
<1>1. depth > 0 /\ Top.pc = pc
  BY DEF At
<1>2. Alone /\ Top \in Frame
  BY <1>1, TopAlone DEF CallsInv
<1>3. /\ tunnel = "dying" => connection = NoConfig
      /\ tunnel = "running" /\ Top.pc # "name" => rtmonitor
      /\ CallOK(Top)
  BY <1>2, CallsTop DEF CallsInv
<1>4. connection \in Configs \cup {NoConfig} /\ tunnel \in {"off", "running", "dying"}
  BY DEF StackInv, TypeOK
<1>5. /\ pc \in {"delpeer", "swpeer", "swdel"} => Top.last \in Configs
      /\ pc \in ActivatePcs => Top.cfg \in Configs
  BY <1>1, <1>2 DEF StackInv, StackOK, Alone, Top
<1>. QED  BY <1>1, <1>2, <1>3, <1>4, <1>5 DEF CallOK

LEMMA CallsActivate ==
  ASSUME StackInv, CallsInv,
         Activate \/ Begin \/ TunnelUnnamed \/ Configured \/ CommandFails
  PROVE  CallsInv'
<1>. USE DEF Pcs
<1>1. CASE Activate
  <2>1. CASE connection = NoConfig
    BY <1>1, <2>1, CallsAt, CallsGoto DEF Activate
  <2>2. CASE connection # NoConfig /\ Switchable(Top.cfg)
    BY <1>1, <2>2, CallsAt, CallsGoto DEF Activate
  <2>3. CASE connection # NoConfig /\ ~Switchable(Top.cfg)
    BY <1>1, <2>3, CallsAt, CallsGoto DEF Activate
  <2>. QED  BY <2>1, <2>2, <2>3
<1>2. CASE Begin
  <2>1. At("begin") /\ UNCHANGED <<connection, rtmonitor, resolvers>>
    BY <1>2 DEF Begin
  <2>2. CASE tunnel # "off"
    BY <1>2, <2>1, <2>2, CallsAt, CallsGoto DEF Begin
  <2>3. CASE tunnel = "off" /\ tunnel' = "running" /\ Goto("name")
    BY <2>1, <2>3, CallsAt, CallsGoto
  <2>4. CASE tunnel = "off" /\ tunnel' = tunnel /\ Return
    BY <2>1, <2>4, CallsAt, CallsReturn
  <2>. QED  BY <1>2, <2>2, <2>3, <2>4 DEF Begin
<1>3. CASE TunnelUnnamed
  BY <1>3, CallsAt, CallsReturn DEF TunnelUnnamed
<1>4. CASE Configured
  BY <1>4, CallsAt, CallsGoto DEF Configured
<1>5. CASE CommandFails
  <2>1. PICK pc \in {"conf", "peer", "swpeer", "swdel"} : At(pc)
    BY <1>5 DEF CommandFails, At
  <2>. QED  BY <1>5, <2>1, CallsAt, CallsReturn DEF CommandFails
<1>. QED  BY <1>1, <1>2, <1>3, <1>4, <1>5

LEMMA CallsTunnelNamed ==
  ASSUME StackInv, CallsInv, TunnelNamed
  PROVE  CallsInv'
<1>. DEFINE f == [Top EXCEPT !.pc = "conf", !.ack = "sent"]
<1>1. At("name") /\ depth' = depth /\ frame' = [frame EXCEPT ![depth] = f]
      /\ rtmonitor' = TRUE /\ UNCHANGED <<connection, tunnel, resolvers>>
  BY DEF TunnelNamed
<1>2. depth > 0 /\ Top.pc = "name" /\ Top \in Frame /\ connection = NoConfig
  BY <1>1, CallsAt
<1>3. f \in Frame /\ f.pc = "conf" /\ f.by = Top.by
  BY <1>2 DEF Frame, Pcs, Acks
<1>. HIDE DEF f
<1>4. Alone' /\ OneCall' /\ frame'[depth] = f
  BY <1>1, <1>2, <1>3, SetTopOne DEF CallsInv
<1>5. CallOK(Top)'
  BY <1>1, <1>2, <1>3, <1>4 DEF CallOK, Top
<1>. QED  BY <1>1, <1>2, <1>4, <1>5, CallsTopNext DEF CallsInv

LEMMA CallsAddPeer ==
  ASSUME StackInv, CallsInv,
         AddPeer \/ SwitchPeer \/ PeerAdded \/ Finish \/ FinishFails
  PROVE  CallsInv'
<1>1. CASE AddPeer
  <2>1. At("exclude") /\ Command("peer", connection) /\ UNCHANGED <<connection, tunnel, rtmonitor>>
    BY <1>1 DEF AddPeer, Exclude
  <2>. QED  BY <2>1, CallsAt, CallsCommand DEF WaitPcs
<1>2. CASE SwitchPeer
  <2>1. At("switch") /\ Command("swpeer", connection) /\ UNCHANGED <<connection, tunnel, rtmonitor>>
    BY <1>2 DEF SwitchPeer, Exclude
  <2>. QED  BY <2>1, CallsAt, CallsCommand DEF WaitPcs
<1>3. CASE PeerAdded
  BY <1>3, CallsAt, CallsGoto DEF PeerAdded, Pcs
<1>4. CASE Finish \/ FinishFails
  <2>1. /\ At("finish") /\ Return /\ UNCHANGED <<tunnel, rtmonitor>>
        /\ tunnel = "dying" => connection' = NoConfig
    BY <1>4, CallsAt DEF Finish, FinishFails
  <2>. QED  BY <2>1, CallsAt, CallsReturn
<1>. QED  BY <1>1, <1>2, <1>3, <1>4

LEMMA CallsDeactivate ==
  ASSUME StackInv, CallsInv, Deactivate \/ PeerDeleted
  PROVE  CallsInv'
<1>1. CASE Deactivate
  <2>1. At("deactivate") /\ UNCHANGED <<connection, tunnel, rtmonitor>> /\ resolvers' = FALSE
    BY <1>1 DEF Deactivate
  <2>2. Return \/ Goto("down") \/ Command("delpeer", connection)
    BY <1>1 DEF Deactivate
  <2>. QED  BY <2>1, <2>2, CallsAt, CallsReturn, CallsGoto, CallsCommand DEF Pcs, WaitPcs
<1>2. CASE PeerDeleted
  BY <1>2, CallsAt, CallsGoto DEF PeerDeleted, Pcs
<1>. QED  BY <1>1, <1>2

\* deactivate() has stopped the process: the sockets of the polls below are cut.
LEMMA DownOne ==
  ASSUME StackInv, OneCall, Down, tunnel # "off"
  PROVE  /\ OneCall'
         /\ \/ Polling'
            \/ Alone' /\ frame'[depth'].pc = "begin"
<1>1. At("down") /\ depth > 0 /\ Top.pc = "down"
  BY DEF Down, At
<1>2. Alone /\ Top \in Frame
  BY <1>1, TopAlone
<1>. DEFINE next == IF Top.cfg = NoConfig THEN NoFrame
                    ELSE [Top EXCEPT !.pc = "begin", !.ack = "none"]
<1>3. /\ frame' = [d \in 1..MaxDepth |-> IF d = depth THEN next ELSE HungUp(frame[d])]
      /\ depth' = IF Top.cfg = NoConfig THEN depth - 1 ELSE depth
  BY DEF Down
<1>4. Top.cfg # NoConfig => next.pc = "begin" /\ next.by = Top.by
  BY <1>2 DEF Frame
<1>. HIDE DEF next
<1>5. \A d \in 1..depth : d \in 1..MaxDepth
  BY <1>2, DepthNat DEF Alone
<1>6. \A d \in 1..MaxDepth : HungUp(frame[d]).pc = frame[d].pc
  BY HungUpTyped DEF StackInv, TypeOK
<1>7. \A d \in 1..depth : d # depth => frame'[d].pc = "poll"
  BY <1>2, <1>3, <1>5, <1>6 DEF Alone
<1>8. CASE Top.cfg = NoConfig
  <2>1. \A d \in 1..depth' : d \in 1..depth /\ d # depth
    BY <1>2, <1>3, <1>8, DepthNat DEF Alone
  <2>2. Polling'
    BY <1>7, <2>1 DEF Polling
  <2>. QED  BY <2>2, PollingOne
<1>9. CASE Top.cfg # NoConfig
  <2>1. depth' = depth /\ frame'[depth] = next /\ depth \in 1..MaxDepth
    BY <1>2, <1>3, <1>9 DEF Alone
  <2>2. Alone'
    BY <1>2, <1>4, <1>7, <1>9, <2>1 DEF Alone, Top
  <2>. QED  BY <1>4, <1>9, <2>1, <2>2, AloneOne
<1>. QED  BY <1>8, <1>9

LEMMA CallsDown ==
  ASSUME StackInv, CallsInv, Down
  PROVE  CallsInv'
<1>1. CASE tunnel = "off"
  BY <1>1, CallsAt, CallsReturn DEF Down
<1>2. CASE tunnel # "off"
  <2>1. tunnel' = "off" /\ connection' = NoConfig
    BY <1>2 DEF Down, TunnelGone
  <2>2. OneCall' /\ (Polling' \/ (Alone' /\ frame'[depth'].pc = "begin"))
    BY <1>2, DownOne DEF CallsInv
  <2>3. CASE Polling'
    BY <2>1, <2>2, <2>3, CallsPollingNext DEF CallsInv
  <2>4. CASE Alone' /\ frame'[depth'].pc = "begin"
    <3>1. CallOK(Top)'
      BY <2>1, <2>4 DEF CallOK, Top
    <3>. QED  BY <2>1, <2>2, <2>4, <3>1, CallsTopNext DEF CallsInv
  <2>. QED  BY <2>2, <2>3, <2>4
<1>. QED  BY <1>1, <1>2

LEMMA CallsSwitch ==
  ASSUME StackInv, CallsInv, SwitchRoutes \/ OldPeerDeleted \/ Switched
  PROVE  CallsInv'
<1>1. CASE SwitchRoutes
  <2>1. /\ At("swpeer") /\ UNCHANGED <<tunnel, rtmonitor>>
        /\ \/ connection' = Top.cfg /\ Goto("swdone")
           \/ connection' = connection /\ Command("swdel", Top.last)
    BY <1>1 DEF SwitchRoutes
  <2>2. connection' # NoConfig /\ tunnel # "dying" /\ Top.last \in Configs
    BY <2>1, CallsAt, ConfigTyped DEF ActivatePcs
  <2>. QED  BY <2>1, <2>2, CallsAt, CallsGoto, CallsCommand DEF Pcs, WaitPcs
<1>2. CASE OldPeerDeleted
  <2>1. connection' # NoConfig /\ tunnel # "dying"
    BY <1>2, CallsAt, ConfigTyped DEF OldPeerDeleted, ActivatePcs
  <2>. QED  BY <1>2, <2>1, CallsAt, CallsGoto DEF OldPeerDeleted, Pcs
<1>3. CASE Switched
  <2>1. /\ At("swdone") /\ Return /\ UNCHANGED <<tunnel, rtmonitor>>
        /\ connection' \in {connection, Top.cfg}
    BY <1>3 DEF Switched
  <2>. QED  BY <2>1, CallsAt, CallsReturn
<1>. QED  BY <1>1, <1>2, <1>3

\* A new command of the client: no other one is in progress.
LEMMA PushOne ==
  ASSUME OneClient, StackInv, OneCall, NEW c \in Clients, CanRun(c), NEW call \in Frame,
         Push(call), call.by = c, call.pc # "poll"
  PROVE  Polling /\ Alone' /\ OneCall' /\ frame'[depth'] = call
<1>1. /\ depth' = depth + 1 /\ depth' \in 1..MaxDepth /\ frame'[depth'] = call
      /\ \A d \in 1..MaxDepth : d # depth' => frame'[d] = frame[d]
  BY SetPush DEF StackInv, CanRun
<1>2. Polling
  BY DEF Polling, OneCall, CanRun, OneClient
<1>3. depth \in Nat /\ depth + 1 <= MaxDepth
  BY <1>1, DepthNat DEF StackInv, TypeOK
<1>4. \A d \in 1..depth' : d # depth' => d \in 1..depth /\ d \in 1..MaxDepth
  BY <1>1, <1>3, DepthNat
<1>5. Alone'
  BY <1>1, <1>2, <1>4 DEF Alone, Polling, Top
<1>. QED  BY <1>1, <1>2, <1>5, AloneOne

LEMMA Asked ==
  ASSUME OneClient, StackInv, OneCall, Request
  PROVE  /\ Polling /\ Alone' /\ OneCall' /\ frame'[depth'].pc \in {"activate", "deactivate"}
         /\ UNCHANGED <<connVars, exclVars, wgVars, hostVars>>
<1>1. ASSUME NEW c \in Clients, NEW cfg \in Configs, AskActivate(c, cfg)
      PROVE  /\ Polling /\ Alone' /\ OneCall' /\ frame'[depth'].pc = "activate"
             /\ UNCHANGED <<connVars, exclVars, wgVars, hostVars>>
  <2>. DEFINE call == Call(c, cfg, "activate", "none")
  <2>1. call \in Frame /\ call.pc = "activate" /\ call.by = c
    BY DEF Call, Frame, Pcs, Acks
  <2>2. Push(call) /\ CanRun(c) /\ UNCHANGED <<connVars, exclVars, wgVars, hostVars>>
    BY <1>1 DEF AskActivate
  <2>. HIDE DEF call
  <2>. QED  BY <2>1, <2>2, PushOne
<1>2. ASSUME NEW c \in Clients, AskDeactivate(c)
      PROVE  /\ Polling /\ Alone' /\ OneCall' /\ frame'[depth'].pc = "deactivate"
             /\ UNCHANGED <<connVars, exclVars, wgVars, hostVars>>
  <2>. DEFINE call == Call(c, NoConfig, "deactivate", "none")
  <2>1. call \in Frame /\ call.pc = "deactivate" /\ call.by = c
    BY DEF Call, Frame, Pcs, Acks
  <2>2. Push(call) /\ CanRun(c) /\ UNCHANGED <<connVars, exclVars, wgVars, hostVars>>
    BY <1>2 DEF AskDeactivate
  <2>. HIDE DEF call
  <2>. QED  BY <2>1, <2>2, PushOne
<1>. QED  BY <1>1, <1>2 DEF Request

\* Polls come and go and commands are answered, but the client's call stays
\* where it is.
SameCalls ==
  /\ \A d \in 1..depth' : frame'[d].pc # "poll" =>
       /\ d \in 1..depth /\ frame'[d].pc = frame[d].pc /\ frame'[d].by = frame[d].by
       /\ frame'[d].cfg = frame[d].cfg /\ frame'[d].last = frame[d].last
       /\ frame'[d].ack \in {"sent", "ok"} => frame[d].ack \in {"sent", "ok"}
  /\ \A d \in 1..depth : frame[d].pc # "poll" => d \in 1..depth' /\ frame'[d].pc = frame[d].pc

LEMMA SamePolled ==
  ASSUME StackInv, Polled
  PROVE  SameCalls /\ \A d \in 1..depth' : frame'[d].ack = frame[d].ack
<1>1. depth > 0 /\ Top.pc = "poll" /\ Return
  BY DEF Polled, At
<1>2. /\ depth' = depth - 1 /\ depth \in 1..MaxDepth
      /\ \A d \in 1..MaxDepth : d # depth => frame'[d] = frame[d]
  BY <1>1, SetReturn, TopTyped DEF StackInv
<1>3. /\ \A d \in 1..depth' : d \in 1..MaxDepth /\ d \in 1..depth /\ d # depth
      /\ \A d \in 1..depth : d # depth => d \in 1..depth' /\ d \in 1..MaxDepth
  BY <1>2, DepthNat
<1>. QED  BY <1>1, <1>2, <1>3 DEF SameCalls, Top

LEMMA SameTimer ==
  ASSUME StackInv, TimerFires
  PROVE  SameCalls /\ \A d \in 1..depth' : frame'[d].pc # "poll" => frame'[d].ack = frame[d].ack
<1>. DEFINE call == Call("timer", NoConfig, "poll", Sent)
<1>1. call \in Frame /\ call.pc = "poll"
  <2>1. Sent \in Acks
    BY DEF Sent, Acks
  <2>. QED  BY <2>1 DEF Call, Frame, Pcs
<1>2. Push(call) /\ depth < MaxDepth
  BY DEF TimerFires, CanRun
<1>. HIDE DEF call
<1>3. /\ depth' = depth + 1 /\ depth' \in 1..MaxDepth /\ frame'[depth'] = call
      /\ \A d \in 1..MaxDepth : d # depth' => frame'[d] = frame[d]
  BY <1>1, <1>2, SetPush DEF StackInv
<1>4. depth \in Nat
  BY DepthNat DEF StackInv, TypeOK
<1>5. /\ \A d \in 1..depth' : d # depth' => d \in 1..MaxDepth /\ d \in 1..depth
      /\ \A d \in 1..depth : d # depth' /\ d \in 1..depth' /\ d \in 1..MaxDepth
  BY <1>3, <1>4, DepthNat
<1>. QED  BY <1>1, <1>3, <1>5 DEF SameCalls

LEMMA SameUapi ==
  ASSUME StackInv, NEW e \in 1..depth, Uapi(e)
  PROVE  /\ SameCalls /\ frame[e].ack = "sent" /\ e \in 1..MaxDepth
         /\ \A d \in 1..depth : d # e => frame'[d] = frame[d]
         /\ depth' = depth
<1>1. frame[e].ack = "sent" /\ depth' = depth /\ e \in 1..MaxDepth
  BY DepthNat DEF Uapi, StackInv, TypeOK
<1>2. PICK got \in SUBSET Keys : frame' = [frame EXCEPT ![e] = [frame[e] EXCEPT !.ack = "ok", !.got = got]]
  BY DEF Uapi, StackInv, TypeOK
<1>. DEFINE f == [frame[e] EXCEPT !.ack = "ok", !.got = got]
<1>3. frame[e] \in Frame /\ frame \in [1..MaxDepth -> Frame]
  BY <1>1 DEF StackInv, TypeOK
<1>4. f.pc = frame[e].pc /\ f.by = frame[e].by /\ f.cfg = frame[e].cfg /\ f.last = frame[e].last
  BY <1>3 DEF Frame
<1>. HIDE DEF f
<1>5. frame' = [frame EXCEPT ![e] = f]
  BY <1>2 DEF f
<1>6. \A d \in 1..depth : d \in 1..MaxDepth
  BY DepthNat DEF StackInv, TypeOK
<1>7. frame'[e] = f /\ \A d \in 1..depth : d # e => frame'[d] = frame[d]
  BY <1>1, <1>3, <1>5, <1>6
<1>. QED  BY <1>1, <1>4, <1>7 DEF SameCalls

LEMMA SameExits ==
  ASSUME StackInv, TunnelExits
  PROVE  SameCalls
<1>1. /\ frame' = [d \in 1..MaxDepth |-> HungUp(frame[d])] /\ depth' = depth
  BY DEF TunnelExits
<1>2. \A d \in 1..depth : d \in 1..MaxDepth /\ frame[d] \in Frame
  BY DepthNat DEF StackInv, TypeOK
<1>3. \A f \in Frame : /\ HungUp(f).pc = f.pc /\ HungUp(f).cfg = f.cfg /\ HungUp(f).by = f.by
                       /\ HungUp(f).last = f.last
                       /\ HungUp(f).ack \in {"sent", "ok"} => f.ack \in {"sent", "ok"}
  BY DEF HungUp, Frame
<1>. QED  BY <1>1, <1>2, <1>3 DEF SameCalls

LEMMA SameOutside ==
  ASSUME (\E k \in Keys : Handshake(k)) \/ GatewayChanges \/ UNCHANGED vars
  PROVE  SameCalls /\ UNCHANGED callVars
<1>1. UNCHANGED <<depth, frame>>
  BY DEF Handshake, GatewayChanges, vars
<1>. QED  BY <1>1 DEF SameCalls

LEMMA CallsSame ==
  ASSUME CallsInv, SameCalls, UNCHANGED <<connection, rtmonitor, resolvers>>,
         tunnel' \in {tunnel, "off"}
  PROVE  CallsInv'
<1>1. OneCall'
  BY DEF SameCalls, CallsInv, OneCall
<1>2. CallsOK'
  BY DEF SameCalls, CallsInv, CallsOK
<1>. QED  BY <1>1, <1>2 DEF CallsInv

LEMMA CallsInductive ==
  ASSUME OneClient
  PROVE  StackInv /\ CallsInv /\ [Next]_vars => CallsInv'
<1>. SUFFICES ASSUME StackInv, CallsInv, [Next]_vars PROVE CallsInv'
  OBVIOUS
<1>1. CASE Request
  <2>1. /\ Polling /\ Alone' /\ OneCall' /\ frame'[depth'].pc \in {"activate", "deactivate"}
        /\ UNCHANGED <<connVars, exclVars, wgVars, hostVars>>
    BY <1>1, Asked DEF CallsInv
  <2>2. /\ tunnel = "dying" => connection = NoConfig
        /\ tunnel = "running" => rtmonitor
    BY <2>1, CallsPolling DEF CallsInv
  <2>3. CallOK(Top)'
    BY <2>1 DEF CallOK, Top
  <2>. QED  BY <2>1, <2>2, <2>3, CallsTopNext DEF CallsInv
<1>2. CASE TimerFires \/ Polled
  <2>1. UNCHANGED <<connection, rtmonitor, resolvers, tunnel>>
    BY <1>2 DEF TimerFires, Polled
  <2>. QED  BY <1>2, <2>1, SameTimer, SamePolled, CallsSame
<1>3. CASE Environment \/ UNCHANGED vars
  <2>1. UNCHANGED <<connection, rtmonitor, resolvers>> /\ tunnel' \in {tunnel, "off"}
    BY <1>3 DEF Environment, Uapi, Handshake, TunnelExits, TunnelGone, GatewayChanges, vars
  <2>2. SameCalls
    BY <1>3, SameUapi, SameExits, SameOutside DEF Environment
  <2>. QED  BY <2>1, <2>2, CallsSame
<1>. QED
  BY <1>1, <1>2, <1>3, CallsActivate, CallsTunnelNamed, CallsAddPeer, CallsDeactivate, CallsDown,
     CallsSwitch DEF Next, Step

LEMMA CallsInit == Init => CallsInv
BY DEF Init, CallsInv, OneCall, CallsOK

-----------------------------------------------------------------------------
(* ServedOK is preserved by each action. *)

LEMMA SameIface ==
  ASSUME OneKey, NEW c \in Configs, NEW d \in Configs, c.iface = d.iface
  PROVE  c.key = d.key /\ c.server = d.server /\ c.server \in Addrs
BY DaemonAssumption, ConfigTyped DEF OneKey

LEMMA ServedReturn ==
  ASSUME StackInv, CallsInv, depth > 0, Top.pc # "poll", Return,
         connection' # NoConfig /\ tunnel' = "running" => Served(connection)'
  PROVE  ServedOK'
BY ReturnOne, ServedPollingNext DEF CallsInv

\* Steps of the client's call that begin or end no connection.
LEMMA ServedGoto ==
  ASSUME StackInv, CallsInv, depth > 0, Top.pc # "poll", NEW pc \in Pcs, Goto(pc),
         pc \notin {"poll", "peer", "finish", "swpeer", "swdel"},
         connection' # NoConfig /\ tunnel' = "running" /\ pc \notin {"delpeer", "down"}
           => Served(connection)',
         pc \in {"switch", "swdone"} => Top.cfg.iface = connection'.iface
  PROVE  ServedOK'
<1>1. /\ Alone' /\ depth' = depth /\ frame'[depth].pc = pc /\ frame'[depth].cfg = Top.cfg
  BY GotoOne DEF CallsInv
<1>2. ServedCall(Top)'
  BY <1>1 DEF ServedCall, Top
<1>. QED  BY <1>1, <1>2, ServedTopNext

LEMMA ServedAt ==
  ASSUME StackInv, CallsInv, ServedOK, NEW pc, At(pc), pc # "poll"
  PROVE  /\ connection # NoConfig /\ tunnel = "running" /\ pc \notin {"delpeer", "down"}
              => Served(connection)
         /\ ServedCall(Top)
<1>1. Alone
  BY CallsAt, TopAlone DEF CallsInv
<1>2. Top.pc = pc
  BY DEF At
<1>. QED  BY <1>1, <1>2, ServedTop

LEMMA ServedActivate ==
  ASSUME StackInv, CallsInv, ServedOK,
         Activate \/ Begin \/ TunnelUnnamed \/ Configured \/ CommandFails
  PROVE  ServedOK'
<1>. USE DEF Pcs
<1>1. CASE Activate
  <2>1. /\ At("activate") /\ UNCHANGED <<connVars, exclVars, wgVars, hostVars>>
    BY <1>1 DEF Activate
  <2>2. connection' # NoConfig /\ tunnel' = "running" => Served(connection)'
    BY <2>1, ServedAt DEF Served, Held
  <2>3. CASE Goto("begin") \/ Goto("deactivate")
    BY <2>1, <2>2, <2>3, CallsAt, ServedGoto
  <2>4. CASE Goto("switch") /\ Switchable(Top.cfg)
    BY <2>1, <2>2, <2>4, CallsAt, ServedGoto DEF Switchable
  <2>. QED  BY <1>1, <2>3, <2>4 DEF Activate
<1>2. CASE Begin
  <2>1. At("begin") /\ connection' = connection /\ (Goto("exclude") \/ Goto("name") \/ Return)
    BY <1>2 DEF Begin
  <2>. QED  BY <2>1, CallsAt, ServedGoto, ServedReturn
<1>3. CASE TunnelUnnamed
  BY <1>3, CallsAt, ServedReturn DEF TunnelUnnamed
<1>4. CASE Configured
  BY <1>4, CallsAt, ServedGoto DEF Configured
<1>5. CASE CommandFails
  <2>1. PICK pc \in {"conf", "peer", "swpeer", "swdel"} : At(pc)
    BY <1>5 DEF CommandFails, At
  <2>2. Return /\ UNCHANGED <<connVars, exclVars, wgVars, hostVars>>
    BY <1>5 DEF CommandFails
  <2>3. connection' # NoConfig /\ tunnel' = "running" => Served(connection)'
    BY <2>1, <2>2, ServedAt DEF Served, Held
  <2>. QED  BY <2>1, <2>2, <2>3, CallsAt, ServedReturn
<1>. QED  BY <1>1, <1>2, <1>3, <1>4, <1>5

LEMMA ServedTunnelNamed ==
  ASSUME StackInv, CallsInv, TunnelNamed
  PROVE  ServedOK'
<1>. DEFINE f == [Top EXCEPT !.pc = "conf", !.ack = "sent"]
<1>1. /\ At("name") /\ depth' = depth /\ frame' = [frame EXCEPT ![depth] = f]
      /\ connection' = connection
  BY DEF TunnelNamed
<1>2. depth > 0 /\ Top.pc = "name" /\ Top \in Frame /\ connection = NoConfig
  BY <1>1, CallsAt
<1>3. f \in Frame /\ f.pc = "conf" /\ f.by = Top.by
  BY <1>2 DEF Frame, Pcs, Acks
<1>. HIDE DEF f
<1>4. Alone' /\ frame'[depth] = f
  BY <1>1, <1>2, <1>3, SetTopOne DEF CallsInv
<1>5. ServedCall(Top)'
  BY <1>1, <1>3, <1>4 DEF ServedCall, Top
<1>. QED  BY <1>1, <1>2, <1>4, <1>5, ServedTopNext

\* addExclusionRoute() for the server, while there is a route monitor.
LEMMA ExcludeHolds ==
  ASSUME StackInv, NEW pc, Exclude(pc), Top.cfg \in Configs, rtmonitor
  PROVE  /\ excluded'[Top.cfg.server] = excluded[Top.cfg.server] + 1
         /\ <<Top.cfg.server, gateway>> \in exclRoutes' /\ exclRoutes \subseteq exclRoutes'
         /\ excluded[Top.cfg.server] \in Nat /\ gateway \in Gateways
<1>1. Top.cfg.server \in Addrs /\ Top.cfg.server \in Top.cfg.excl
  BY ConfigTyped
<1>2. excluded[Top.cfg.server] \in Nat /\ gateway \in Gateways
  BY <1>1 DEF StackInv, TypeOK
<1>. QED  BY <1>1, <1>2 DEF Exclude

LEMMA ServedAddPeer ==
  ASSUME StackInv, CallsInv, ServedOK, AddPeer
  PROVE  ServedOK'
<1>1. At("exclude") /\ Exclude("peer") /\ UNCHANGED <<connection, tunnel>>
  BY DEF AddPeer, Exclude
<1>2. /\ depth > 0 /\ Top.pc = "exclude" /\ Top.cfg \in Configs /\ connection = NoConfig
      /\ tunnel = "running" => rtmonitor
  BY <1>1, CallsAt DEF ActivatePcs
<1>3. /\ Alone' /\ depth' = depth /\ frame'[depth].pc = "peer" /\ frame'[depth].ack = Sent
      /\ frame'[depth].cfg = Top.cfg
  BY <1>1, <1>2, CommandOne DEF Exclude, CallsInv, WaitPcs
<1>4. tunnel = "running" =>
        /\ excluded'[Top.cfg.server] >= 1
        /\ \E g \in Gateways : <<Top.cfg.server, g>> \in exclRoutes'
  BY <1>1, <1>2, ExcludeHolds
<1>5. Sent # "ok" /\ Gateways' = Gateways
  BY DEF Sent
<1>6. ServedCall(Top)'
  BY <1>1, <1>3, <1>4, <1>5 DEF ServedCall, Held, Top
<1>. QED  BY <1>1, <1>2, <1>3, <1>6, ServedTopNext

LEMMA ServedSwitchPeer ==
  ASSUME OneKey, StackInv, CallsInv, ServedOK, SwitchPeer
  PROVE  ServedOK'
<1>1. At("switch") /\ Exclude("swpeer") /\ UNCHANGED <<connection, tunnel, peers>>
  BY DEF SwitchPeer, Exclude
<1>2. /\ depth > 0 /\ Top.pc = "switch" /\ Top.cfg \in Configs /\ connection \in Configs
      /\ tunnel = "running" => rtmonitor
  BY <1>1, CallsAt DEF ActivatePcs
<1>3. /\ Alone' /\ depth' = depth /\ frame'[depth].pc = "swpeer" /\ frame'[depth].last = connection
      /\ frame'[depth].cfg = Top.cfg
  BY <1>1, <1>2, CommandOne DEF Exclude, CallsInv, WaitPcs
<1>4. /\ tunnel = "running" => Served(connection)
      /\ Top.cfg.iface = connection.iface
  BY <1>1, <1>2, ServedAt, ConfigTyped DEF ServedCall
<1>5. Top.cfg.server = connection.server
  BY <1>2, <1>4, SameIface
<1>6. tunnel = "running" =>
        /\ excluded'[Top.cfg.server] >= 2 /\ excluded'[Top.cfg.server] >= 1
        /\ \E g \in Gateways : <<Top.cfg.server, g>> \in exclRoutes'
  BY <1>1, <1>2, <1>4, <1>5, ExcludeHolds DEF Served, Held
<1>7. ServedCall(Top)'
  BY <1>1, <1>3, <1>4, <1>6 DEF ServedCall, Held, Top
<1>8. tunnel' = "running" => Served(connection)'
  BY <1>1, <1>4, <1>5, <1>6 DEF Served, Held
<1>. QED  BY <1>3, <1>7, <1>8, ServedTopNext

LEMMA ServedFinish ==
  ASSUME StackInv, CallsInv, ServedOK, PeerAdded \/ Finish \/ FinishFails
  PROVE  ServedOK'
<1>1. CASE PeerAdded
  <2>1. At("peer") /\ Top.ack = "ok" /\ Goto("finish")
        /\ UNCHANGED <<connection, tunnel, peers, excluded, exclRoutes>>
    BY <1>1 DEF PeerAdded
  <2>2. depth > 0 /\ Top.pc = "peer" /\ connection = NoConfig /\ ServedCall(Top)
    BY <2>1, CallsAt, ServedAt
  <2>3. /\ Alone' /\ depth' = depth /\ frame'[depth].pc = "finish"
        /\ frame'[depth].cfg = Top.cfg
    BY <2>1, <2>2, GotoOne DEF CallsInv, Pcs
  <2>4. ServedCall(Top)'
    BY <2>1, <2>2, <2>3 DEF ServedCall, Served, Held, Top
  <2>. QED  BY <2>1, <2>2, <2>3, <2>4, ServedTopNext
<1>2. CASE Finish
  <2>1. At("finish") /\ Return /\ connection' = Top.cfg
        /\ UNCHANGED <<tunnel, peers, excluded, exclRoutes>>
    BY <1>2 DEF Finish
  <2>2. depth > 0 /\ Top.pc = "finish" /\ ServedCall(Top)
    BY <2>1, CallsAt, ServedAt
  <2>3. tunnel' = "running" => Served(connection)'
    BY <2>1, <2>2 DEF ServedCall, Served, Held
  <2>. QED  BY <2>1, <2>2, <2>3, ServedReturn
<1>3. CASE FinishFails
  BY <1>3, CallsAt, ServedReturn DEF FinishFails
<1>. QED  BY <1>1, <1>2, <1>3

LEMMA ServedDeactivate ==
  ASSUME StackInv, CallsInv, ServedOK, Deactivate \/ PeerDeleted \/ Down
  PROVE  ServedOK'
<1>1. CASE Deactivate
  <2>1. At("deactivate") /\ UNCHANGED <<connection, tunnel>>
    BY <1>1 DEF Deactivate
  <2>2. depth > 0 /\ Top.pc = "deactivate" /\ connection \in Configs \cup {NoConfig}
    BY <2>1, CallsAt
  <2>3. CASE Return /\ tunnel = "off"
    BY <2>1, <2>2, <2>3, ServedReturn
  <2>4. CASE Goto("down")
    BY <2>2, <2>4, ServedGoto DEF Pcs
  <2>5. CASE Command("delpeer", connection)
    <3>1. Alone' /\ depth' = depth /\ frame'[depth].pc = "delpeer"
      BY <2>2, <2>5, CommandOne DEF CallsInv, WaitPcs
    <3>2. ServedCall(Top)'
      BY <3>1 DEF ServedCall, Top
    <3>. QED  BY <3>1, <3>2, ServedTopNext
  <2>. QED  BY <1>1, <2>3, <2>4, <2>5 DEF Deactivate
<1>2. CASE PeerDeleted
  BY <1>2, CallsAt, ServedGoto DEF PeerDeleted, Pcs
<1>3. CASE Down /\ tunnel = "off"
  BY <1>3, CallsAt, ServedReturn DEF Down
<1>4. CASE Down /\ tunnel # "off"
  <2>1. connection' = NoConfig
    BY <1>4 DEF Down
  <2>2. Polling' \/ (Alone' /\ frame'[depth'].pc = "begin")
    BY <1>4, DownOne DEF CallsInv
  <2>3. CASE Polling'
    BY <2>1, <2>3, ServedPollingNext
  <2>4. CASE Alone' /\ frame'[depth'].pc = "begin"
    <3>1. ServedCall(Top)'
      BY <2>4 DEF ServedCall, Top
    <3>. QED  BY <2>1, <2>4, <3>1, ServedTopNext
  <2>. QED  BY <2>2, <2>3, <2>4
<1>. QED  BY <1>1, <1>2, <1>3, <1>4

\* switchServer() drops a reference to the server, but not its last one.
LEMMA ReleaseHolds ==
  ASSUME StackInv, NEW c \in Configs, NEW a \in Addrs, excluded[a] >= 2,
         NEW g, <<a, g>> \in exclRoutes
  PROVE  Released(c)[a] >= 1 /\ <<a, g>> \in Unexcluded(Freed(c))
<1>1. excluded[a] \in Nat
  BY DEF StackInv, TypeOK
<1>2. a \notin Freed(c)
  BY <1>1 DEF Freed
<1>. QED  BY <1>1, <1>2 DEF Released, Unexcluded

LEMMA ServedSwitch ==
  ASSUME OneKey, StackInv, CallsInv, ServedOK, SwitchRoutes \/ OldPeerDeleted \/ Switched
  PROVE  ServedOK'
<1>1. CASE SwitchRoutes
  <2>1. At("swpeer") /\ UNCHANGED <<tunnel, peers>>
    BY <1>1 DEF SwitchRoutes
  <2>2. /\ depth > 0 /\ Top.pc = "swpeer" /\ Top.cfg \in Configs /\ Top.last \in Configs
        /\ connection # NoConfig
    BY <2>1, CallsAt DEF ActivatePcs
  <2>3. /\ Top.cfg.iface = connection.iface /\ Top.last = connection
        /\ tunnel = "running" => Held(Top.cfg, 2) /\ Served(connection)
    BY <2>1, <2>2, ServedAt DEF ServedCall
  <2>4. /\ Top.cfg.key = Top.last.key /\ Top.cfg.server = connection.server
        /\ Top.cfg.server \in Addrs
    BY <2>2, <2>3, SameIface
  <2>5. /\ excluded' = Released(Top.last) /\ exclRoutes' = Unexcluded(Freed(Top.last))
        /\ connection' = Top.cfg /\ Goto("swdone")
    BY <1>1, <2>4 DEF SwitchRoutes, SamePeer
  <2>6. tunnel = "running" => Served(connection)'
    <3>. SUFFICES ASSUME tunnel = "running" PROVE Served(connection)'
      OBVIOUS
    <3>1. PICK g \in Gateways : <<Top.cfg.server, g>> \in exclRoutes
      BY <2>3 DEF Held
    <3>2. excluded[Top.cfg.server] >= 2
      BY <2>3 DEF Held
    <3>3. Released(Top.last)[Top.cfg.server] >= 1
          /\ <<Top.cfg.server, g>> \in Unexcluded(Freed(Top.last))
      BY <2>2, <2>4, <3>1, <3>2, ReleaseHolds
    <3>4. connection'.key \in peers'
      BY <2>1, <2>3, <2>4, <2>5 DEF Served
    <3>. QED  BY <2>5, <3>1, <3>3, <3>4 DEF Served, Held
  <2>. QED  BY <2>1, <2>2, <2>5, <2>6, ServedGoto DEF Pcs
<1>2. CASE OldPeerDeleted
  <2>1. At("swdel")
    BY <1>2 DEF OldPeerDeleted
  <2>2. Top.pc = "swdel" /\ ServedCall(Top)
    BY <2>1, ServedAt DEF At
  <2>. QED  BY <2>2 DEF ServedCall
<1>3. CASE Switched
  <2>1. /\ At("swdone") /\ Return /\ UNCHANGED <<tunnel, peers, excluded, exclRoutes>>
        /\ connection' \in {connection, Top.cfg}
    BY <1>3 DEF Switched
  <2>2. depth > 0 /\ Top.pc = "swdone" /\ Top.cfg \in Configs /\ connection \in Configs
    BY <2>1, CallsAt DEF ActivatePcs
  <2>3. Top.cfg.iface = connection.iface /\ (tunnel = "running" => Served(connection))
    BY <2>1, <2>2, ServedAt, ConfigTyped DEF ServedCall
  <2>4. Top.cfg.key = connection.key /\ Top.cfg.server = connection.server
    BY <2>2, <2>3, SameIface
  <2>5. tunnel' = "running" => Served(connection)'
    BY <2>1, <2>3, <2>4 DEF Served, Held
  <2>. QED  BY <2>1, <2>2, <2>5, ServedReturn
<1>. QED  BY <1>1, <1>2, <1>3

LEMMA ServedSame ==
  ASSUME ServedOK, SameCalls, UNCHANGED <<connection, peers, excluded, exclRoutes, tunnel>>,
         \A d \in 1..depth' : frame'[d].pc # "poll" => frame'[d].ack = frame[d].ack
  PROVE  ServedOK'
<1>1. \A d \in 1..depth' : frame'[d].pc # "poll" =>
        /\ d \in 1..depth /\ frame'[d].pc = frame[d].pc /\ frame'[d].cfg = frame[d].cfg
        /\ frame'[d].last = frame[d].last /\ frame'[d].ack = frame[d].ack
  BY DEF SameCalls
<1>2. (\A d \in 1..depth' : frame'[d].pc \notin {"delpeer", "down"})
         => \A d \in 1..depth : frame[d].pc \notin {"delpeer", "down"}
  BY DEF SameCalls
<1>. QED  BY <1>1, <1>2 DEF ServedOK, Served, Held

\* wireguard-go answers: the peer is there when the caller hears of it.
LEMMA ServedUapi ==
  ASSUME StackInv, CallsInv, ServedOK, NEW e \in 1..depth, Uapi(e)
  PROVE  ServedOK'
<1>1. /\ SameCalls /\ depth' = depth
      /\ \A d \in 1..depth : d # e => frame'[d] = frame[d]
  BY SameUapi
<1>2. UNCHANGED <<connection, tunnel, excluded, exclRoutes>>
  BY DEF Uapi
<1>3. \A d \in 1..depth' : frame'[d].pc # "poll" =>
        /\ frame'[d].pc = frame[d].pc /\ frame'[d].cfg = frame[d].cfg
        /\ frame'[d].last = frame[d].last
  BY <1>1 DEF SameCalls
<1>4. (\A d \in 1..depth' : frame'[d].pc \notin {"delpeer", "down"})
         => \A d \in 1..depth : frame[d].pc \notin {"delpeer", "down"}
  BY <1>1 DEF SameCalls
<1>5. CASE frame[e].pc \notin {"conf", "peer", "swpeer", "delpeer", "swdel"}
  <2>1. peers' = peers
    BY <1>5 DEF Uapi
  <2>2. \A d \in 1..depth : frame'[d].pc = "peer" => frame'[d].ack = frame[d].ack
    BY <1>1, <1>3, <1>5
  <2>3. /\ connection' # NoConfig /\ tunnel' = "running"
        /\ \A d \in 1..depth' : frame'[d].pc \notin {"delpeer", "down"}
        => Served(connection)'
    BY <1>2, <1>4, <2>1 DEF ServedOK, Served, Held
  <2>4. ASSUME NEW d \in 1..depth'
        PROVE  ServedCall(frame[d])'
    <3>1. CASE frame'[d].pc = "poll"
      BY <3>1 DEF ServedCall
    <3>2. CASE frame'[d].pc # "poll"
      <4>1. ServedCall(frame[d])
        BY <1>1 DEF ServedOK, ServedCall
      <4>. QED  BY <1>1, <1>2, <1>3, <2>1, <2>2, <3>2, <4>1 DEF ServedCall, Served, Held
    <3>. QED  BY <3>1, <3>2
  <2>. QED  BY <2>3, <2>4 DEF ServedOK, ServedCall
<1>6. CASE frame[e].pc \in {"peer", "swpeer"}
  <2>1. peers' = peers \cup {frame[e].cfg.key}
    BY <1>6 DEF Uapi
  <2>2. \A d \in 1..depth : frame[d].pc # "poll" => d = e
    BY <1>6 DEF CallsInv, OneCall
  <2>3. /\ connection' # NoConfig /\ tunnel' = "running"
        /\ \A d \in 1..depth' : frame'[d].pc \notin {"delpeer", "down"}
        => Served(connection)'
    BY <1>2, <1>4, <2>1 DEF ServedOK, Served, Held
  <2>4. ASSUME NEW d \in 1..depth'
        PROVE  ServedCall(frame[d])'
    <3>1. CASE frame'[d].pc = "poll"
      BY <3>1 DEF ServedCall
    <3>2. CASE frame'[d].pc # "poll"
      <4>1. ServedCall(frame[e])
        BY DEF ServedOK, ServedCall
      <4>2. d = e
        BY <1>1, <1>3, <2>2, <3>2
      <4>. QED  BY <1>1, <1>2, <1>3, <1>6, <2>1, <3>2, <4>1, <4>2 DEF ServedCall, Served, Held
    <3>. QED  BY <3>1, <3>2
  <2>. QED  BY <2>3, <2>4 DEF ServedOK, ServedCall
<1>7. CASE frame[e].pc \in {"conf", "delpeer"}
  <2>1. \A d \in 1..depth : frame[d].pc # "poll" => d = e
    BY <1>7 DEF CallsInv, OneCall
  <2>2. \A d \in 1..depth' : frame'[d].pc = "poll" \/ (d = e /\ frame'[d].pc = frame[e].pc)
    BY <1>1, <1>3, <2>1
  <2>3. frame[e].pc = "conf" => connection = NoConfig
    BY DEF CallsInv, CallsOK
  <2>4. frame'[e].pc = frame[e].pc /\ e \in 1..depth'
    BY <1>1, <1>7 DEF SameCalls
  <2>5. connection' # NoConfig => \E d \in 1..depth' : frame'[d].pc = "delpeer"
    BY <1>2, <1>7, <2>3, <2>4
  <2>6. \A d \in 1..depth' : frame'[d].pc \notin {"peer", "finish", "switch", "swpeer", "swdone", "swdel"}
    BY <1>7, <2>2
  <2>. QED  BY <2>5, <2>6 DEF ServedOK
<1>8. CASE frame[e].pc = "swdel"
  BY <1>8 DEF ServedOK
<1>. QED  BY <1>5, <1>6, <1>7, <1>8

LEMMA ServedInductive ==
  ASSUME OneClient, OneKey
  PROVE  StackInv /\ CallsInv /\ ServedOK /\ [Next]_vars => ServedOK'
<1>. SUFFICES ASSUME StackInv, CallsInv, ServedOK, [Next]_vars PROVE ServedOK'
  OBVIOUS
<1>1. CASE Request
  <2>1. /\ Polling /\ Alone' /\ frame'[depth'].pc \in {"activate", "deactivate"}
        /\ UNCHANGED <<connVars, exclVars, wgVars, hostVars>>
    BY <1>1, Asked DEF CallsInv
  <2>2. connection # NoConfig /\ tunnel = "running" => Served(connection)
    BY <2>1, ServedPolling
  <2>3. ServedCall(Top)'
    BY <2>1 DEF ServedCall, Top
  <2>4. connection' # NoConfig /\ tunnel' = "running" => Served(connection)'
    BY <2>1, <2>2 DEF Served, Held
  <2>. QED  BY <2>1, <2>3, <2>4, ServedTopNext
<1>2. CASE TimerFires \/ Polled
  <2>1. UNCHANGED <<connection, peers, excluded, exclRoutes, tunnel>>
    BY <1>2 DEF TimerFires, Polled
  <2>2. SameCalls /\ \A d \in 1..depth' : frame'[d].pc # "poll" => frame'[d].ack = frame[d].ack
    BY <1>2, SameTimer, SamePolled
  <2>. QED  BY <2>1, <2>2, ServedSame
<1>3. CASE (\E k \in Keys : Handshake(k)) \/ GatewayChanges \/ UNCHANGED vars
  <2>1. UNCHANGED <<connection, peers, excluded, exclRoutes, tunnel, depth, frame>>
    BY <1>3 DEF Handshake, GatewayChanges, vars
  <2>2. SameCalls
    BY <1>3, SameOutside
  <2>. QED  BY <2>1, <2>2, ServedSame
<1>4. CASE TunnelExits
  <2>1. tunnel' = "off" /\ connection' = connection
    BY <1>4 DEF TunnelExits, TunnelGone
  <2>2. SameCalls
    BY <1>4, SameExits
  <2>. QED  BY <2>1, <2>2 DEF SameCalls, ServedOK
<1>5. CASE \E e \in 1..depth : Uapi(e)
  BY <1>5, ServedUapi
<1>. QED
  BY <1>1, <1>2, <1>3, <1>4, <1>5, ServedActivate, ServedTunnelNamed, ServedAddPeer,
     ServedSwitchPeer, ServedFinish, ServedDeactivate, ServedSwitch DEF Next, Step, Environment

-----------------------------------------------------------------------------
(* Theorems *)

\* The inductive invariant of the daemon with one client and one key for each
\* interface, for any number of nested polls, gateways and configurations.
THEOREM OneClientInvariant ==
  ASSUME OneClient, OneKey
  PROVE  Spec => []OneClientInv
<1>1. Init => CallsInv /\ ServedOK
  BY CallsInit DEF Init, ServedOK
<1>2. StackInv /\ CallsInv /\ [Next]_vars => CallsInv'
  BY CallsInductive
<1>3. StackInv /\ CallsInv /\ ServedOK /\ [Next]_vars => ServedOK'
  BY ServedInductive
<1>4. CallsInv /\ ServedOK => OneClientInv
  BY DEF CallsInv, OneClientInv
<1>. QED  BY <1>1, <1>2, <1>3, <1>4, StackInvariant, PTL DEF Spec

\* Between commands, the process that runs has the peer of the connection,
\* whatever failed, timed out or was polled before.
THEOREM PeerStaysInstalled ==
  ASSUME OneClient, OneKey
  PROVE  Spec => []PeerInstalled
<1>1. OneClientInv => PeerInstalled
  BY DEF OneClientInv, ServedOK, Served, PeerInstalled, Connected, Idle
<1>. QED  BY <1>1, OneClientInvariant, PTL

\* Between commands, the route to the server outside the tunnel is there: no
\* switchServer() drops the last reference to it.
THEOREM ServerStaysExcluded ==
  ASSUME OneClient, OneKey
  PROVE  Spec => []ServerExcluded
<1>1. OneClientInv => ServerExcluded
  BY DEF OneClientInv, ServedOK, Served, Held, ServerExcluded, Connected, Idle
<1>. QED  BY <1>1, OneClientInvariant, PTL

\* A deactivate() that ends the connection leaves no route, no resolvers and no
\* kill switch behind, while the host keeps its default gateway.
THEOREM NothingLeft ==
  ASSUME OneClient, NEW g, Gateways = {g}
  PROVE  Spec => LeavesNothing
<1>1. StackInv /\ CallsInv /\ RoutesInv /\ [Next]_vars =>
        [connection # NoConfig /\ connection' = NoConfig =>
           exclRoutes' = {} /\ ~resolvers' /\ firewall' = NoConfig /\ tunnelRoutes' = {}]_vars
  <2>. SUFFICES ASSUME StackInv, CallsInv, RoutesInv, [Next]_vars,
                       connection # NoConfig, connection' = NoConfig
                PROVE  exclRoutes' = {} /\ ~resolvers' /\ firewall' = NoConfig /\ tunnelRoutes' = {}
    OBVIOUS
  <2>1. CASE Down
    <3>1. At("down") /\ tunnel # "off"
      BY <2>1 DEF Down
    <3>2. tunnel = "running" /\ rtmonitor /\ ~resolvers
      BY <3>1, CallsAt
    <3>3. ~resolvers' /\ firewall' = NoConfig /\ tunnelRoutes' = {}
      BY <2>1, <3>1, <3>2 DEF Down, TunnelGone
    <3>4. exclRoutes' = exclRoutes \ (Counted \X {gateway})
      BY <2>1, <3>2 DEF Down, Unexcluded
    <3>5. \A r \in exclRoutes : r \in Counted \X {gateway}
      BY DEF RoutesInv, NoRouteForgotten, StackInv, TypeOK
    <3>. QED  BY <3>3, <3>4, <3>5
  <2>2. CASE Finish \/ SwitchRoutes \/ OldPeerDeleted \/ Switched
    <3>1. PICK pc \in {"finish", "swpeer", "swdel", "swdone"} : At(pc)
      BY <2>2 DEF Finish, SwitchRoutes, OldPeerDeleted, Switched
    <3>2. connection' \in {connection, Top.cfg}
      BY <2>2 DEF Finish, SwitchRoutes, OldPeerDeleted, Switched
    <3>. QED  BY <3>1, <3>2, CallsAt, ConfigTyped DEF ActivatePcs
  <2>3. CASE connection' = connection
    BY <2>3
  <2>4. CASE Request \/ TimerFires \/ Environment \/ UNCHANGED vars
    BY <2>3, <2>4 DEF Request, AskActivate, AskDeactivate, TimerFires, Environment, Uapi,
       Handshake, TunnelExits, GatewayChanges, vars
  <2>5. CASE Activate \/ Begin \/ TunnelNamed \/ TunnelUnnamed \/ Configured \/ CommandFails
             \/ AddPeer \/ PeerAdded \/ FinishFails \/ Deactivate \/ PeerDeleted \/ SwitchPeer
             \/ Polled
    BY <2>3, <2>5 DEF Activate, Begin, TunnelNamed, TunnelUnnamed, Configured, CommandFails,
       AddPeer, Exclude, PeerAdded, FinishFails, Deactivate, PeerDeleted, SwitchPeer, Polled
  <2>. QED  BY <2>1, <2>2, <2>4, <2>5 DEF Next, Step
<1>2. Init => CallsInv /\ RoutesInv
  BY CallsInit DEF Init, RoutesInv, NoRouteForgotten, Counted
<1>3. StackInv /\ CallsInv /\ [Next]_vars => CallsInv'
  BY CallsInductive
<1>4. StackInv /\ RoutesInv /\ [Next]_vars => RoutesInv'
  BY RoutesInductive
<1>. QED  BY <1>1, <1>2, <1>3, <1>4, StackInvariant, PTL DEF Spec, LeavesNothing
=============================================================================
