---------------------------- MODULE DaemonProofs ----------------------------
(***************************************************************************)
(* Proofs about Daemon, for every set of clients, configurations, excluded *)
(* addresses and gateways and for every depth of nesting.                  *)
(***************************************************************************)
EXTENDS Daemon, TLAPS

USE DEF connVars, exclVars, wgVars, hostVars, callVars

-----------------------------------------------------------------------------
(* How the four ways of moving the stack change it. *)

LEMMA DepthNat == MaxDepth \in Nat /\ MaxDepth > 0
BY DaemonAssumption

\* A frame below the depth keeps its place; the one called with is typed.
LEMMA NoFrameTyped == NoFrame \in Frame
BY DaemonAssumption DEF NoFrame, Call, Frame, Pcs, Acks

LEMMA TopTyped ==
  ASSUME TypeOK, depth > 0
  PROVE  depth \in 1..MaxDepth /\ Top \in Frame
BY DaemonAssumption DEF TypeOK, Top

\* Replacing the top call.
LEMMA SetTop ==
  ASSUME TypeOK, depth > 0, NEW f \in Frame, depth' = depth,
         frame' = [frame EXCEPT ![depth] = f]
  PROVE  /\ depth' \in 0..MaxDepth /\ frame' \in [1..MaxDepth -> Frame]
         /\ frame'[depth] = f
         /\ \A d \in 1..MaxDepth : d # depth => frame'[d] = frame[d]
BY TopTyped, DaemonAssumption DEF TypeOK

LEMMA SetReturn ==
  ASSUME TypeOK, depth > 0, Return
  PROVE  /\ depth' = depth - 1
         /\ depth' \in 0..MaxDepth /\ frame' \in [1..MaxDepth -> Frame]
         /\ frame'[depth] = NoFrame
         /\ \A d \in 1..MaxDepth : d # depth => frame'[d] = frame[d]
BY TopTyped, NoFrameTyped, DaemonAssumption DEF TypeOK, Return

LEMMA SetPush ==
  ASSUME TypeOK, depth < MaxDepth, NEW call \in Frame, Push(call)
  PROVE  /\ depth' = depth + 1 /\ depth' \in 1..MaxDepth
         /\ depth' \in 0..MaxDepth /\ frame' \in [1..MaxDepth -> Frame]
         /\ frame'[depth'] = call
         /\ \A d \in 1..MaxDepth : d # depth' => frame'[d] = frame[d]
BY DaemonAssumption DEF TypeOK, Push

\* A step of the top call that leaves it the call f.
LEMMA SetTopStack ==
  ASSUME TypeOK, StackOK, depth > 0, NEW f \in Frame, depth' = depth,
         frame' = [frame EXCEPT ![depth] = f],
         f.pc \in ActivatePcs => f.cfg \in Configs,
         f.pc \in {"delpeer", "swpeer", "swdel"} => f.last \in Configs,
         f.ack # "none" => f.pc \in WaitPcs,
         f.pc = "begin" => connection' = NoConfig,
         f.pc \in {"switch", "swdone"} => connection' # NoConfig
  PROVE  StackOK'
<1>1. /\ frame'[depth] = f /\ depth \in 1..MaxDepth
      /\ \A d \in 1..MaxDepth : d # depth => frame'[d] = frame[d]
  BY SetTop, TopTyped
<1>. QED  BY <1>1, DepthNat DEF StackOK, At, Top

LEMMA GotoStack ==
  ASSUME TypeOK, StackOK, depth > 0, NEW pc \in Pcs, Goto(pc),
         pc \in ActivatePcs => Top.cfg \in Configs,
         pc \notin {"delpeer", "swpeer", "swdel"},
         pc = "begin" => connection' = NoConfig,
         pc \in {"switch", "swdone"} => connection' # NoConfig
  PROVE  /\ depth' = depth /\ depth' \in 0..MaxDepth
         /\ frame' \in [1..MaxDepth -> Frame]
         /\ frame'[depth].pc = pc
         /\ \A d \in 1..MaxDepth : d # depth => frame'[d] = frame[d]
         /\ StackOK'
<1>. DEFINE f == [Top EXCEPT !.pc = pc, !.ack = "none"]
<1>1. f \in Frame /\ f.pc = pc /\ f.ack = "none" /\ f.cfg = Top.cfg
  BY TopTyped DEF Frame, Acks
<1>2. depth' = depth /\ frame' = [frame EXCEPT ![depth] = f]
  BY DEF Goto
<1>. HIDE DEF f
<1>. QED  BY <1>1, <1>2, SetTop, SetTopStack

\* A step of the top call to the wait of a UAPI command.
LEMMA CommandStack ==
  ASSUME TypeOK, StackOK, depth > 0, NEW pc \in WaitPcs,
         NEW last \in Configs \cup {NoConfig}, Command(pc, last),
         pc \in ActivatePcs => Top.cfg \in Configs,
         pc \in {"delpeer", "swpeer", "swdel"} => last \in Configs
  PROVE  /\ depth' = depth /\ depth' \in 0..MaxDepth
         /\ frame' \in [1..MaxDepth -> Frame]
         /\ frame'[depth].pc = pc
         /\ \A d \in 1..MaxDepth : d # depth => frame'[d] = frame[d]
         /\ StackOK'
<1>. DEFINE f == [Top EXCEPT !.pc = pc, !.last = last, !.ack = Sent]
<1>1. f \in Frame /\ f.pc = pc /\ f.cfg = Top.cfg /\ f.last = last
  <2>1. Sent \in Acks /\ pc \in Pcs
    BY DEF Sent, Acks, WaitPcs, Pcs
  <2>. QED  BY <2>1, TopTyped DEF Frame
<1>2. depth' = depth /\ frame' = [frame EXCEPT ![depth] = f]
  BY DEF Command
<1>3. pc \notin {"begin", "switch", "swdone"}
  BY DEF WaitPcs
<1>. HIDE DEF f
<1>. QED  BY <1>1, <1>2, <1>3, SetTop, SetTopStack

\* The return of the top call: the caller below it is in a wait.
LEMMA ReturnStack ==
  ASSUME TypeOK, StackOK, depth > 0, Return
  PROVE  StackOK'
<1>1. NoFrame.pc = "none" /\ NoFrame.ack = "none"
  BY DEF NoFrame, Call
<1>2. /\ depth' = depth - 1 /\ depth \in 1..MaxDepth /\ frame'[depth] = NoFrame
      /\ \A d \in 1..MaxDepth : d # depth => frame'[d] = frame[d]
  BY SetReturn, TopTyped
<1>3. \A d \in 1..depth' : frame'[d] = frame[d] /\ frame'[d].pc \in WaitPcs \cup {"name"}
  BY <1>2, DepthNat DEF StackOK
<1>4. ~At("begin")' /\ ~At("switch")' /\ ~At("swdone")'
  BY <1>2, <1>3, DepthNat DEF At, Top, WaitPcs
<1>5. ASSUME NEW d \in 1..MaxDepth
      PROVE  /\ frame'[d].pc \in ActivatePcs => frame'[d].cfg \in Configs
             /\ frame'[d].pc \in {"delpeer", "swpeer", "swdel"} => frame'[d].last \in Configs
             /\ frame'[d].ack # "none" => frame'[d].pc \in WaitPcs
  BY <1>1, <1>2 DEF StackOK, ActivatePcs
<1>. QED  BY <1>3, <1>4, <1>5 DEF StackOK

\* A call that starts inside the wait of the top one.
LEMMA PushStack ==
  ASSUME TypeOK, StackOK, Spinning, depth < MaxDepth, NEW call \in Frame, Push(call),
         call.pc \in {"activate", "deactivate", "poll"},
         call.pc = "activate" => call.cfg \in Configs,
         call.ack # "none" => call.pc = "poll"
  PROVE  StackOK'
<1>1. /\ depth' = depth + 1 /\ depth' \in 1..MaxDepth /\ frame'[depth'] = call
      /\ \A d \in 1..MaxDepth : d # depth' => frame'[d] = frame[d]
  BY SetPush
<1>2. depth > 0 => frame[depth].pc \in WaitPcs \cup {"name"}
  BY TopTyped DEF StackOK, Spinning, Top
<1>3. \A d \in 1..depth' : d < depth' => frame'[d].pc \in WaitPcs \cup {"name"}
  BY <1>1, <1>2, DepthNat DEF TypeOK, StackOK
<1>4. ~At("begin")' /\ ~At("switch")' /\ ~At("swdone")'
  BY <1>1 DEF At, Top
<1>5. ASSUME NEW d \in 1..MaxDepth
      PROVE  /\ frame'[d].pc \in ActivatePcs => frame'[d].cfg \in Configs
             /\ frame'[d].pc \in {"delpeer", "swpeer", "swdel"} => frame'[d].last \in Configs
             /\ frame'[d].ack # "none" => frame'[d].pc \in WaitPcs
  BY <1>1 DEF StackOK, ActivatePcs, WaitPcs
<1>. QED  BY <1>3, <1>4, <1>5 DEF StackOK

-----------------------------------------------------------------------------
(* NamedOK and PollAlive under the same moves. *)

LEMMA SetTopNamed ==
  ASSUME TypeOK, NamedOK, depth > 0, depth' = depth, Top.pc # "name",
         \A d \in 1..MaxDepth : d # depth => frame'[d] = frame[d],
         tunnel' = "running" => tunnel = "running", ifname' = ifname,
         tunnel = "running" /\ ~ifname => connection' = NoConfig,
         frame'[depth].pc \in {"swpeer", "swdel"} => tunnel # "running" \/ ifname
  PROVE  NamedOK'
<1>1. depth \in 1..MaxDepth /\ \A d \in 1..depth : d # depth => frame'[d] = frame[d]
  BY TopTyped, DepthNat
<1>2. ASSUME tunnel = "running", ~ifname, NEW d \in 1..depth,
             frame'[d].pc \in {"swpeer", "swdel"}
      PROVE  \E e \in 1..depth : e > d /\ frame'[e].pc = "name"
  <2>1. d # depth /\ frame[d].pc \in {"swpeer", "swdel"}
    BY <1>1, <1>2
  <2>2. PICK e \in 1..depth : e > d /\ frame[e].pc = "name"
    BY <1>2, <2>1 DEF NamedOK
  <2>3. e # depth
    BY <2>2 DEF Top
  <2>. QED  BY <1>1, <2>2, <2>3
<1>. QED  BY <1>2 DEF NamedOK

LEMMA ReturnNamed ==
  ASSUME TypeOK, NamedOK, depth > 0, Return, Top.pc # "name",
         tunnel' = "running" => tunnel = "running", ifname' = ifname,
         tunnel = "running" /\ ~ifname => connection' = NoConfig
  PROVE  NamedOK'
<1>1. /\ depth \in 1..MaxDepth /\ depth' = depth - 1
      /\ \A d \in 1..depth' : frame'[d] = frame[d]
  BY SetReturn, TopTyped, DepthNat
<1>2. ASSUME tunnel = "running", ~ifname, NEW d \in 1..depth',
             frame'[d].pc \in {"swpeer", "swdel"}
      PROVE  \E e \in 1..depth' : e > d /\ frame'[e].pc = "name"
  <2>1. PICK e \in 1..depth : e > d /\ frame[e].pc = "name"
    BY <1>1, <1>2, DepthNat DEF NamedOK
  <2>2. e \in 1..depth'
    BY <1>1, <2>1, DepthNat DEF Top
  <2>. QED  BY <1>1, <2>1, <2>2
<1>. QED  BY <1>2 DEF NamedOK

LEMMA PushNamed ==
  ASSUME TypeOK, NamedOK, depth < MaxDepth, NEW call \in Frame, Push(call),
         call.pc \notin {"swpeer", "swdel"},
         tunnel' = tunnel, ifname' = ifname, connection' = connection
  PROVE  NamedOK'
<1>1. /\ depth \in 0..MaxDepth /\ depth' = depth + 1 /\ frame'[depth'] = call
      /\ \A d \in 1..MaxDepth : d # depth' => frame'[d] = frame[d]
  BY SetPush DEF TypeOK
<1>2. \A d \in 1..depth : frame'[d] = frame[d]
  BY <1>1, DepthNat
<1>3. ASSUME tunnel = "running", ~ifname, NEW d \in 1..depth',
             frame'[d].pc \in {"swpeer", "swdel"}
      PROVE  \E e \in 1..depth' : e > d /\ frame'[e].pc = "name"
  <2>1. d \in 1..depth /\ frame[d].pc \in {"swpeer", "swdel"}
    BY <1>1, <1>2, <1>3, DepthNat
  <2>2. PICK e \in 1..depth : e > d /\ frame[e].pc = "name"
    BY <1>3, <2>1 DEF NamedOK
  <2>. QED  BY <1>1, <1>2, <2>2, DepthNat
<1>. QED  BY <1>3 DEF NamedOK

LEMMA SetTopPoll ==
  ASSUME TypeOK, PollAlive, depth > 0, depth' = depth, Top.pc \notin {"poll", "swdone"},
         \A d \in 1..MaxDepth : d # depth => frame'[d] = frame[d],
         tunnel' = "running" => tunnel = "running",
         connection' = connection, dated' = dated, timer' = timer
  PROVE  PollAlive'
BY TopTyped, DepthNat DEF PollAlive, Top

LEMMA ReturnPoll ==
  ASSUME TypeOK, PollAlive, depth > 0, Return, Top.pc \notin {"poll", "swdone"},
         tunnel' = "running" => tunnel = "running",
         connection' = connection, dated' = dated, timer' = timer
  PROVE  PollAlive'
BY SetReturn, TopTyped, DepthNat DEF PollAlive, Top

LEMMA PushPoll ==
  ASSUME TypeOK, PollAlive, depth < MaxDepth, NEW call \in Frame, Push(call),
         tunnel' = tunnel, connection' = connection, dated' = dated, timer' = timer
  PROVE  PollAlive'
BY SetPush, DepthNat DEF PollAlive, TypeOK

-----------------------------------------------------------------------------
(* StackInv is preserved by each action. *)

LEMMA ConfigTyped ==
  ASSUME NEW c \in Configs
  PROVE  /\ c.key \in Keys /\ c.server \in Addrs /\ c.excl \subseteq Addrs
         /\ c.ranges \subseteq Ranges /\ c.server \in c.excl /\ c # NoConfig
BY DaemonAssumption DEF Addrs

\* The configuration of a call inside activate().
LEMMA TopConfig ==
  ASSUME TypeOK, StackOK, depth > 0, Top.pc \in ActivatePcs
  PROVE  Top.cfg \in Configs
BY TopTyped DEF StackOK, Top

LEMMA StepAskActivate ==
  ASSUME StackInv, NEW c \in Clients, NEW cfg \in Configs, AskActivate(c, cfg)
  PROVE  StackInv'
<1>. DEFINE call == Call(c, cfg, "activate", "none")
<1>1. /\ call \in Frame /\ call.pc = "activate" /\ call.ack = "none" /\ call.cfg = cfg
  BY DEF Call, Frame, Pcs, Acks
<1>2. Push(call) /\ Spinning /\ depth < MaxDepth
  BY DEF AskActivate, CanRun
<1>. HIDE DEF call
<1>. USE DEF StackInv
<1>3. TypeOK'
  BY <1>1, <1>2, SetPush DEF TypeOK, AskActivate
<1>4. StackOK'
  BY <1>1, <1>2, PushStack
<1>5. NamedOK'
  BY <1>1, <1>2, PushNamed DEF AskActivate
<1>6. PollAlive'
  BY <1>1, <1>2, PushPoll DEF AskActivate
<1>. QED  BY <1>3, <1>4, <1>5, <1>6

LEMMA StepAskDeactivate ==
  ASSUME StackInv, NEW c \in Clients, AskDeactivate(c)
  PROVE  StackInv'
<1>. DEFINE call == Call(c, NoConfig, "deactivate", "none")
<1>1. call \in Frame /\ call.pc = "deactivate" /\ call.ack = "none"
  BY DEF Call, Frame, Pcs, Acks
<1>2. Push(call) /\ Spinning /\ depth < MaxDepth
  BY DEF AskDeactivate, CanRun
<1>. HIDE DEF call
<1>. USE DEF StackInv
<1>3. TypeOK'
  BY <1>1, <1>2, SetPush DEF TypeOK, AskDeactivate
<1>4. StackOK'
  BY <1>1, <1>2, PushStack
<1>5. NamedOK'
  BY <1>1, <1>2, PushNamed DEF AskDeactivate
<1>6. PollAlive'
  BY <1>1, <1>2, PushPoll DEF AskDeactivate
<1>. QED  BY <1>3, <1>4, <1>5, <1>6

\* The timer is spent, but the poll it starts is on the stack.
LEMMA StepTimerFires ==
  ASSUME StackInv, TimerFires
  PROVE  StackInv'
<1>. DEFINE call == Call("timer", NoConfig, "poll", Sent)
<1>1. call \in Frame /\ call.pc = "poll"
  <2>1. Sent \in Acks
    BY DEF Sent, Acks
  <2>. QED  BY <2>1 DEF Call, Frame, Pcs
<1>2. Push(call) /\ Spinning /\ depth < MaxDepth
  BY DEF TimerFires, CanRun
<1>. HIDE DEF call
<1>. USE DEF StackInv
<1>3. TypeOK'
  BY <1>1, <1>2, SetPush DEF TypeOK, TimerFires
<1>4. StackOK'
  BY <1>1, <1>2, PushStack
<1>5. NamedOK'
  BY <1>1, <1>2, PushNamed DEF TimerFires
<1>6. PollAlive'
  BY <1>1, <1>2, SetPush, DepthNat DEF PollAlive
<1>. QED  BY <1>3, <1>4, <1>5, <1>6

LEMMA StepActivate ==
  ASSUME StackInv, Activate
  PROVE  StackInv'
<1>. USE DEF StackInv
<1>1. PICK pc \in {"begin", "switch", "deactivate"} :
        /\ Goto(pc)
        /\ pc = "begin" => connection = NoConfig
        /\ pc = "switch" => connection # NoConfig
  BY DEF Activate, Switchable
<1>2. depth > 0 /\ Top.pc = "activate" /\ Top.cfg \in Configs
  BY TopConfig DEF Activate, At, ActivatePcs
<1>3. /\ depth' = depth /\ depth' \in 0..MaxDepth /\ frame' \in [1..MaxDepth -> Frame]
      /\ frame'[depth].pc = pc /\ StackOK'
      /\ \A d \in 1..MaxDepth : d # depth => frame'[d] = frame[d]
  <2>1. pc \in Pcs
    BY DEF Pcs
  <2>. QED  BY <1>1, <1>2, <2>1, GotoStack DEF Activate
<1>4. TypeOK'
  BY <1>3 DEF TypeOK, Activate
<1>5. NamedOK'
  BY <1>2, <1>3, SetTopNamed DEF Activate, NamedOK
<1>6. PollAlive'
  BY <1>2, <1>3, SetTopPoll DEF Activate
<1>. QED  BY <1>3, <1>4, <1>5, <1>6

\* The tunnel starts only when there is no connection, and its call waits for
\* the name above every switch in progress.
LEMMA StepBegin ==
  ASSUME StackInv, Begin
  PROVE  StackInv'
<1>. USE DEF StackInv
<1>1. depth > 0 /\ Top.pc = "begin" /\ Top.cfg \in Configs /\ connection = NoConfig
  BY TopConfig DEF Begin, At, ActivatePcs, StackOK
<1>2. CASE Goto("exclude") /\ UNCHANGED wgVars
  <2>1. /\ depth' = depth /\ depth' \in 0..MaxDepth /\ frame' \in [1..MaxDepth -> Frame]
        /\ frame'[depth].pc = "exclude" /\ StackOK'
        /\ \A d \in 1..MaxDepth : d # depth => frame'[d] = frame[d]
    BY <1>1, <1>2, GotoStack DEF Pcs
  <2>2. NamedOK'
    BY <1>1, <1>2, <2>1, SetTopNamed DEF Begin
  <2>. QED  BY <1>1, <1>2, <2>1, <2>2 DEF TypeOK, Begin, PollAlive
<1>3. CASE tunnel' = "running" /\ Goto("name") /\ UNCHANGED <<peers, shook, tunnelRoutes>>
  <2>1. /\ depth' = depth /\ depth' \in 0..MaxDepth /\ frame' \in [1..MaxDepth -> Frame]
        /\ frame'[depth].pc = "name" /\ StackOK'
        /\ \A d \in 1..MaxDepth : d # depth => frame'[d] = frame[d]
    BY <1>1, <1>3, GotoStack DEF Pcs
  <2>2. NamedOK'
    BY <1>1, <2>1, TopTyped, DepthNat DEF NamedOK, Begin
  <2>. QED  BY <1>1, <1>3, <2>1, <2>2 DEF TypeOK, Begin, PollAlive
<1>4. CASE Return /\ UNCHANGED wgVars
  <2>1. NamedOK'
    BY <1>1, <1>4, ReturnNamed DEF Begin
  <2>. QED  BY <1>1, <1>4, <2>1, SetReturn, ReturnStack DEF TypeOK, Begin, PollAlive
<1>. QED  BY <1>2, <1>3, <1>4 DEF Begin

LEMMA StepTunnelNamed ==
  ASSUME StackInv, TunnelNamed
  PROVE  StackInv'
<1>. USE DEF StackInv
<1>. DEFINE f == [Top EXCEPT !.pc = "conf", !.ack = "sent"]
<1>1. depth > 0 /\ Top.pc = "name" /\ Top.cfg \in Configs
  BY TopConfig DEF TunnelNamed, At, ActivatePcs
<1>2. f \in Frame /\ f.pc = "conf" /\ f.cfg = Top.cfg
  BY <1>1, TopTyped DEF Frame, Acks, Pcs
<1>3. depth' = depth /\ frame' = [frame EXCEPT ![depth] = f]
  BY DEF TunnelNamed
<1>. HIDE DEF f
<1>4. /\ depth' \in 0..MaxDepth /\ frame' \in [1..MaxDepth -> Frame]
      /\ \A d \in 1..MaxDepth : d # depth => frame'[d] = frame[d]
  BY <1>1, <1>2, <1>3, SetTop
<1>5. StackOK'
  BY <1>1, <1>2, <1>3, SetTopStack DEF WaitPcs
<1>6. PollAlive'
  BY <1>1, <1>3, <1>4, SetTopPoll DEF TunnelNamed
<1>. QED  BY <1>3, <1>4, <1>5, <1>6 DEF TypeOK, TunnelNamed, NamedOK

LEMMA StepTunnelUnnamed ==
  ASSUME StackInv, TunnelUnnamed
  PROVE  StackInv'
<1>. USE DEF StackInv
<1>1. depth > 0 /\ Top.pc = "name" /\ Return
  BY DEF TunnelUnnamed, At
<1>2. TypeOK'
  BY <1>1, SetReturn DEF TypeOK, TunnelUnnamed
<1>3. NamedOK' /\ PollAlive'
  BY DEF NamedOK, PollAlive, TunnelUnnamed
<1>. QED  BY <1>1, <1>2, <1>3, ReturnStack

LEMMA StepConfigured ==
  ASSUME StackInv, Configured
  PROVE  StackInv'
<1>. USE DEF StackInv
<1>1. depth > 0 /\ Top.pc = "conf" /\ Top.cfg \in Configs /\ Goto("exclude")
  BY TopConfig DEF Configured, At, ActivatePcs
<1>2. /\ depth' = depth /\ depth' \in 0..MaxDepth /\ frame' \in [1..MaxDepth -> Frame]
      /\ frame'[depth].pc = "exclude" /\ StackOK'
      /\ \A d \in 1..MaxDepth : d # depth => frame'[d] = frame[d]
  BY <1>1, GotoStack DEF Pcs
<1>3. TypeOK'
  BY <1>1, <1>2 DEF TypeOK, Configured
<1>4. NamedOK'
  BY <1>1, <1>2, SetTopNamed DEF Configured, NamedOK
<1>5. PollAlive'
  BY <1>1, <1>2, SetTopPoll DEF Configured
<1>. QED  BY <1>2, <1>3, <1>4, <1>5

LEMMA StepCommandFails ==
  ASSUME StackInv, CommandFails
  PROVE  StackInv'
<1>. USE DEF StackInv
<1>1. depth > 0 /\ Top.pc \in {"conf", "peer", "swpeer", "swdel"} /\ Return
  BY DEF CommandFails
<1>2. TypeOK'
  BY <1>1, SetReturn DEF TypeOK, CommandFails
<1>3. NamedOK'
  BY <1>1, ReturnNamed DEF CommandFails, NamedOK
<1>4. PollAlive'
  BY <1>1, ReturnPoll DEF CommandFails
<1>. QED  BY <1>1, <1>2, <1>3, <1>4, ReturnStack

\* addExclusionRoute() and updatePeer(), in activate() and in switchServer().
LEMMA StepExclude ==
  ASSUME StackInv, NEW pc \in {"peer", "swpeer"}, Exclude(pc), depth > 0,
         Top.pc \in {"exclude", "switch"},
         pc = "swpeer" => Top.pc = "switch"
  PROVE  StackInv'
<1>. USE DEF StackInv
<1>1. Top.cfg \in Configs
  BY TopConfig DEF ActivatePcs
<1>2. connection \in Configs \cup {NoConfig} /\ Command(pc, connection)
  BY DEF TypeOK, Exclude
<1>3. pc = "swpeer" => connection \in Configs
  BY <1>2 DEF StackOK, At
<1>4. /\ depth' = depth /\ depth' \in 0..MaxDepth /\ frame' \in [1..MaxDepth -> Frame]
      /\ frame'[depth].pc = pc /\ StackOK'
      /\ \A d \in 1..MaxDepth : d # depth => frame'[d] = frame[d]
  <2>1. pc \in WaitPcs
    BY DEF WaitPcs
  <2>. QED  BY <1>1, <1>2, <1>3, <2>1, CommandStack
<1>5. TypeOK'
  <2>1. excluded' \in [Addrs -> Nat]
    BY DEF TypeOK, Exclude
  <2>2. exclRoutes' \subseteq Addrs \X Gateways
    BY <1>1, ConfigTyped DEF TypeOK, Exclude
  <2>. QED  BY <1>4, <2>1, <2>2 DEF TypeOK, Exclude
<1>6. NamedOK'
  BY <1>3, <1>4, ConfigTyped, SetTopNamed DEF Exclude, NamedOK
<1>7. PollAlive'
  BY <1>4, SetTopPoll DEF Exclude
<1>. QED  BY <1>4, <1>5, <1>6, <1>7

LEMMA StepPeerAdded ==
  ASSUME StackInv, PeerAdded
  PROVE  StackInv'
<1>. USE DEF StackInv
<1>1. depth > 0 /\ Top.pc = "peer" /\ Top.cfg \in Configs /\ Goto("finish")
  BY TopConfig DEF PeerAdded, At, ActivatePcs
<1>2. /\ depth' = depth /\ depth' \in 0..MaxDepth /\ frame' \in [1..MaxDepth -> Frame]
      /\ frame'[depth].pc = "finish" /\ StackOK'
      /\ \A d \in 1..MaxDepth : d # depth => frame'[d] = frame[d]
  BY <1>1, GotoStack DEF Pcs
<1>3. TypeOK'
  BY <1>2 DEF TypeOK, PeerAdded
<1>4. NamedOK'
  BY <1>1, <1>2, SetTopNamed DEF PeerAdded, NamedOK
<1>5. PollAlive'
  BY <1>1, <1>2, SetTopPoll DEF PeerAdded
<1>. QED  BY <1>2, <1>3, <1>4, <1>5

LEMMA StepFinish ==
  ASSUME StackInv, Finish
  PROVE  StackInv'
<1>. USE DEF StackInv
<1>1. depth > 0 /\ Top.pc = "finish" /\ Top.cfg \in Configs /\ Return
  BY TopConfig DEF Finish, At, ActivatePcs
<1>2. TypeOK'
  BY <1>1, SetReturn, ConfigTyped DEF TypeOK, Finish
<1>3. NamedOK'
  BY DEF Finish, Indexed, NamedOK
<1>4. PollAlive'
  BY DEF Finish, PollAlive
<1>. QED  BY <1>1, <1>2, <1>3, <1>4, ReturnStack

LEMMA StepFinishFails ==
  ASSUME StackInv, FinishFails
  PROVE  StackInv'
<1>. USE DEF StackInv
<1>1. depth > 0 /\ Top.pc = "finish" /\ Top.cfg \in Configs /\ Return
  BY TopConfig DEF FinishFails, At, ActivatePcs
<1>2. TypeOK'
  <2>1. tunnelRoutes' \subseteq Ranges
    BY <1>1, ConfigTyped DEF TypeOK, FinishFails
  <2>. QED  BY <1>1, <2>1, SetReturn DEF TypeOK, FinishFails, Indexed
<1>3. NamedOK'
  BY <1>1, ReturnNamed DEF FinishFails, NamedOK
<1>4. PollAlive'
  BY <1>1, ReturnPoll DEF FinishFails
<1>. QED  BY <1>1, <1>2, <1>3, <1>4, ReturnStack

LEMMA StepDeactivate ==
  ASSUME StackInv, Deactivate
  PROVE  StackInv'
<1>. USE DEF StackInv
<1>1. depth > 0 /\ Top.pc = "deactivate"
  BY DEF Deactivate, At
<1>2. TypeOK' /\ StackOK' /\ NamedOK' /\ PollAlive'
  <2>1. CASE tunnel = "off"
    <3>1. Return /\ UNCHANGED <<tunnelRoutes, exclRoutes>>
      BY <2>1 DEF Deactivate
    <3>2. TypeOK'
      BY <1>1, <3>1, SetReturn DEF TypeOK, Deactivate
    <3>3. NamedOK'
      BY <1>1, <3>1, ReturnNamed DEF Deactivate, NamedOK
    <3>4. PollAlive'
      BY <1>1, <3>1, ReturnPoll DEF Deactivate
    <3>. QED  BY <1>1, <3>1, <3>2, <3>3, <3>4, ReturnStack
  <2>2. CASE tunnel # "off" /\ connection = NoConfig
    <3>1. Goto("down") /\ UNCHANGED <<tunnelRoutes, exclRoutes>>
      BY <2>2 DEF Deactivate
    <3>2. /\ depth' = depth /\ depth' \in 0..MaxDepth /\ frame' \in [1..MaxDepth -> Frame]
          /\ frame'[depth].pc = "down" /\ StackOK'
          /\ \A d \in 1..MaxDepth : d # depth => frame'[d] = frame[d]
      BY <1>1, <3>1, GotoStack DEF Pcs, ActivatePcs
    <3>3. TypeOK'
      BY <3>1, <3>2 DEF TypeOK, Deactivate
    <3>4. NamedOK'
      BY <1>1, <3>2, SetTopNamed DEF Deactivate, NamedOK
    <3>5. PollAlive'
      BY <1>1, <3>2, SetTopPoll DEF Deactivate
    <3>. QED  BY <3>2, <3>3, <3>4, <3>5
  <2>3. CASE tunnel # "off" /\ connection # NoConfig
    <3>1. /\ tunnelRoutes' = Unrouted(connection.ranges)
          /\ exclRoutes' = Unexcluded({connection.server})
          /\ Command("delpeer", connection)
      BY <2>3 DEF Deactivate
    <3>2. connection \in Configs
      BY <2>3 DEF TypeOK
    <3>3. /\ depth' = depth /\ depth' \in 0..MaxDepth /\ frame' \in [1..MaxDepth -> Frame]
          /\ frame'[depth].pc = "delpeer" /\ StackOK'
          /\ \A d \in 1..MaxDepth : d # depth => frame'[d] = frame[d]
      BY <1>1, <3>1, <3>2, CommandStack DEF WaitPcs, ActivatePcs
    <3>4. tunnelRoutes' \subseteq Ranges /\ exclRoutes' \subseteq Addrs \X Gateways
      BY <3>1, <3>2, ConfigTyped DEF TypeOK, Unrouted, Unexcluded
    <3>5. TypeOK'
      BY <3>3, <3>4 DEF TypeOK, Deactivate
    <3>6. NamedOK'
      BY <1>1, <3>3, SetTopNamed DEF Deactivate, NamedOK
    <3>7. PollAlive'
      BY <1>1, <3>3, SetTopPoll DEF Deactivate
    <3>. QED  BY <3>3, <3>5, <3>6, <3>7
  <2>. QED  BY <2>1, <2>2, <2>3
<1>. QED  BY <1>2

LEMMA StepPeerDeleted ==
  ASSUME StackInv, PeerDeleted
  PROVE  StackInv'
<1>. USE DEF StackInv
<1>1. depth > 0 /\ Top.pc = "delpeer" /\ Goto("down")
  BY DEF PeerDeleted, At
<1>2. /\ depth' = depth /\ depth' \in 0..MaxDepth /\ frame' \in [1..MaxDepth -> Frame]
      /\ frame'[depth].pc = "down" /\ StackOK'
      /\ \A d \in 1..MaxDepth : d # depth => frame'[d] = frame[d]
  BY <1>1, GotoStack DEF Pcs, ActivatePcs
<1>3. TypeOK'
  BY <1>2 DEF TypeOK, PeerDeleted
<1>4. NamedOK'
  BY <1>1, <1>2, SetTopNamed DEF PeerDeleted, NamedOK
<1>5. PollAlive'
  BY <1>1, <1>2, SetTopPoll DEF PeerDeleted
<1>. QED  BY <1>2, <1>3, <1>4, <1>5

\* Hanging up a call changes nothing of it but the command it waits for.
LEMMA HungUpTyped ==
  ASSUME NEW f \in Frame
  PROVE  /\ HungUp(f) \in Frame /\ HungUp(f).pc = f.pc /\ HungUp(f).cfg = f.cfg
         /\ HungUp(f).last = f.last /\ (HungUp(f).ack # "none" => f.ack # "none")
BY DEF HungUp, Frame, Acks

LEMMA StepTunnelExits ==
  ASSUME StackInv, TunnelExits
  PROVE  StackInv'
<1>. USE DEF StackInv
<1>1. \A d \in 1..MaxDepth : frame[d] \in Frame /\ frame'[d] = HungUp(frame[d])
  BY DEF TypeOK, TunnelExits
<1>2. depth' = depth /\ connection' = connection /\ frame' \in [1..MaxDepth -> Frame]
  BY <1>1, HungUpTyped DEF TunnelExits
<1>3. TypeOK'
  BY <1>2 DEF TypeOK, TunnelExits, TunnelGone
<1>4. StackOK'
  <2>1. \A d \in 1..MaxDepth : /\ frame'[d].pc = frame[d].pc /\ frame'[d].cfg = frame[d].cfg
                               /\ frame'[d].last = frame[d].last
                               /\ (frame'[d].ack # "none" => frame[d].ack # "none")
    BY <1>1, HungUpTyped
  <2>2. depth \in 0..MaxDepth
    BY DEF TypeOK
  <2>3. \A pc \in Pcs : At(pc)' <=> At(pc)
    BY <1>2, <2>1, <2>2, DepthNat DEF At, Top
  <2>4. (At("begin")' <=> At("begin")) /\ (At("switch")' <=> At("switch"))
        /\ (At("swdone")' <=> At("swdone"))
    BY <2>3 DEF Pcs
  <2>5. \A d \in 1..depth : d < depth => frame'[d].pc \in WaitPcs \cup {"name"}
    BY <2>1, <2>2, DepthNat DEF StackOK
  <2>. QED  BY <1>2, <2>1, <2>4, <2>5 DEF StackOK
<1>5. NamedOK' /\ PollAlive'
  BY DEF NamedOK, PollAlive, TunnelExits, TunnelGone
<1>. QED  BY <1>3, <1>4, <1>5

\* deactivate() ends with no tunnel: every wait but its own is lost.
LEMMA StepDown ==
  ASSUME StackInv, Down
  PROVE  StackInv'
<1>. USE DEF StackInv
<1>1. depth > 0 /\ Top.pc = "down" /\ depth \in 1..MaxDepth /\ Top \in Frame
  BY TopTyped DEF Down, At
<1>2. excluded' \in [Addrs -> Nat] /\ exclRoutes' \subseteq Addrs \X Gateways
  BY DEF Down, TypeOK, Unexcluded
<1>3. CASE tunnel = "off"
  <2>1. Return /\ UNCHANGED <<connVars, wgVars, firewall>>
    BY <1>3 DEF Down
  <2>2. TypeOK'
    BY <1>1, <1>2, <2>1, SetReturn DEF TypeOK, Down
  <2>3. NamedOK' /\ PollAlive'
    BY <1>3, <2>1 DEF NamedOK, PollAlive
  <2>. QED  BY <1>1, <2>1, <2>2, <2>3, ReturnStack
<1>4. CASE tunnel # "off"
  <2>. DEFINE next == IF Top.cfg = NoConfig THEN NoFrame
                      ELSE [Top EXCEPT !.pc = "begin", !.ack = "none"]
  <2>1. /\ TunnelGone /\ firewall' = NoConfig
        /\ connection' = NoConfig /\ dated' = FALSE /\ timer' = timer
        /\ frame' = [d \in 1..MaxDepth |-> IF d = depth THEN next ELSE HungUp(frame[d])]
        /\ depth' = IF Top.cfg = NoConfig THEN depth - 1 ELSE depth
    BY <1>4 DEF Down
  <2>2. /\ next \in Frame /\ next.pc \in {"none", "begin"} /\ next.ack = "none"
        /\ (next.pc = "begin" => next.cfg \in Configs /\ depth' = depth)
    <3>1. CASE Top.cfg = NoConfig
      BY <3>1, NoFrameTyped DEF NoFrame, Call
    <3>2. CASE Top.cfg # NoConfig
      BY <1>1, <2>1, <3>2 DEF Frame, Pcs, Acks
    <3>. QED  BY <3>1, <3>2
  <2>3. next.pc = "none" => depth' = depth - 1
    BY <1>1, <2>1
  <2>. HIDE DEF next
  <2>4. frame'[depth] = next /\ \A d \in 1..MaxDepth : d # depth =>
          frame[d] \in Frame /\ frame'[d] = HungUp(frame[d])
    BY <1>1, <2>1 DEF TypeOK
  <2>5. frame' \in [1..MaxDepth -> Frame] /\ depth' \in 0..MaxDepth
    BY <1>1, <2>1, <2>2, <2>4, HungUpTyped, DepthNat
  <2>6. TypeOK'
    BY <1>2, <2>1, <2>5 DEF TypeOK, Down, TunnelGone
  <2>7. StackOK'
    <3>1. ASSUME NEW d \in 1..MaxDepth
          PROVE  /\ frame'[d].pc \in ActivatePcs => frame'[d].cfg \in Configs
                 /\ frame'[d].pc \in {"delpeer", "swpeer", "swdel"} => frame'[d].last \in Configs
                 /\ frame'[d].ack # "none" => frame'[d].pc \in WaitPcs
      BY <2>2, <2>4, HungUpTyped DEF StackOK, ActivatePcs
    <3>2. \A d \in 1..depth' : d < depth => frame'[d].pc \in WaitPcs \cup {"name"}
      BY <1>1, <2>1, <2>4, HungUpTyped, DepthNat DEF StackOK
    <3>3. ~At("switch")' /\ ~At("swdone")'
      <4>1. CASE next.pc = "begin"
        BY <2>2, <2>4, <4>1 DEF At, Top
      <4>2. CASE next.pc = "none"
        <5>1. depth' > 0 => frame'[depth'].pc \in WaitPcs \cup {"name"}
          BY <1>1, <2>3, <3>2, <4>2, DepthNat
        <5>. QED  BY <5>1 DEF At, Top, WaitPcs
      <4>. QED  BY <2>2, <4>1, <4>2
    <3>4. \A d \in 1..depth' : d < depth' => frame'[d].pc \in WaitPcs \cup {"name"}
      BY <1>1, <2>2, <2>3, <3>2, DepthNat
    <3>. QED  BY <2>1, <3>1, <3>3, <3>4 DEF StackOK
  <2>8. NamedOK' /\ PollAlive'
    BY <2>1 DEF NamedOK, PollAlive, TunnelGone
  <2>. QED  BY <2>6, <2>7, <2>8
<1>. QED  BY <1>3, <1>4

\* switchServer() makes a connection only of a tunnel that has its name.
LEMMA StepSwitchRoutes ==
  ASSUME StackInv, SwitchRoutes
  PROVE  StackInv'
<1>. USE DEF StackInv
<1>1. /\ depth > 0 /\ depth \in 1..MaxDepth /\ Top.pc = "swpeer"
      /\ Top.cfg \in Configs /\ Top.last \in Configs
  BY TopTyped, TopConfig DEF SwitchRoutes, At, ActivatePcs, StackOK, Top
<1>2. tunnel # "running" \/ ifname
  BY <1>1, DepthNat DEF NamedOK, Top
<1>3. excluded' \in [Addrs -> Nat]
  BY DEF SwitchRoutes, Released, TypeOK
<1>4. exclRoutes' \subseteq Addrs \X Gateways
  BY DEF SwitchRoutes, Unexcluded, TypeOK
<1>5. tunnelRoutes' \subseteq Ranges
  <2>1. Top.cfg.ranges \subseteq Ranges /\ Top.last.ranges \subseteq Ranges
    BY <1>1, ConfigTyped
  <2>. QED  BY <2>1 DEF SwitchRoutes, Unrouted, TypeOK
<1>6. CASE SamePeer(Top.cfg, Top.last)
  <2>1. connection' = Top.cfg /\ dated' = FALSE /\ Goto("swdone")
    BY <1>6 DEF SwitchRoutes
  <2>2. connection' # NoConfig
    BY <1>1, <2>1, ConfigTyped
  <2>3. /\ depth' = depth /\ depth' \in 0..MaxDepth /\ frame' \in [1..MaxDepth -> Frame]
        /\ frame'[depth].pc = "swdone" /\ StackOK'
        /\ \A d \in 1..MaxDepth : d # depth => frame'[d] = frame[d]
    BY <1>1, <2>1, <2>2, GotoStack DEF Pcs
  <2>4. TypeOK'
    BY <1>1, <1>3, <1>4, <1>5, <2>1, <2>3 DEF TypeOK, SwitchRoutes
  <2>5. NamedOK'
    BY <1>2 DEF NamedOK, SwitchRoutes
  <2>6. PollAlive'
    BY <1>1, <2>3, DepthNat DEF PollAlive
  <2>. QED  BY <2>3, <2>4, <2>5, <2>6
<1>7. CASE ~SamePeer(Top.cfg, Top.last)
  <2>1. UNCHANGED <<connection, dated>> /\ Command("swdel", Top.last)
    BY <1>7 DEF SwitchRoutes
  <2>2. /\ depth' = depth /\ depth' \in 0..MaxDepth /\ frame' \in [1..MaxDepth -> Frame]
        /\ frame'[depth].pc = "swdel" /\ StackOK'
        /\ \A d \in 1..MaxDepth : d # depth => frame'[d] = frame[d]
    BY <1>1, <2>1, CommandStack DEF WaitPcs
  <2>3. TypeOK'
    BY <1>3, <1>4, <1>5, <2>1, <2>2 DEF TypeOK, SwitchRoutes
  <2>4. NamedOK'
    BY <1>2 DEF NamedOK, SwitchRoutes
  <2>5. PollAlive'
    BY <1>1, <2>1, <2>2, SetTopPoll DEF SwitchRoutes
  <2>. QED  BY <2>2, <2>3, <2>4, <2>5
<1>. QED  BY <1>6, <1>7

LEMMA StepOldPeerDeleted ==
  ASSUME StackInv, OldPeerDeleted
  PROVE  StackInv'
<1>. USE DEF StackInv
<1>1. /\ depth > 0 /\ depth \in 1..MaxDepth /\ Top.pc = "swdel" /\ Top.cfg \in Configs
      /\ connection' = Top.cfg /\ Goto("swdone")
  BY TopTyped, TopConfig DEF OldPeerDeleted, At, ActivatePcs
<1>2. tunnel # "running" \/ ifname
  BY <1>1, DepthNat DEF NamedOK, Top
<1>3. /\ depth' = depth /\ depth' \in 0..MaxDepth /\ frame' \in [1..MaxDepth -> Frame]
      /\ frame'[depth].pc = "swdone" /\ StackOK'
      /\ \A d \in 1..MaxDepth : d # depth => frame'[d] = frame[d]
  <2>1. connection' # NoConfig
    BY <1>1, ConfigTyped
  <2>. QED  BY <1>1, <2>1, GotoStack DEF Pcs
<1>4. TypeOK'
  BY <1>1, <1>3 DEF TypeOK, OldPeerDeleted
<1>5. NamedOK'
  BY <1>2 DEF NamedOK, OldPeerDeleted
<1>6. PollAlive'
  BY <1>1, <1>3, DepthNat DEF PollAlive
<1>. QED  BY <1>3, <1>4, <1>5, <1>6

\* Without the timer, activate() ends a switch only when the tunnel has gone.
LEMMA StepSwitched ==
  ASSUME StackInv, Switched
  PROVE  StackInv'
<1>. USE DEF StackInv
<1>1. /\ depth > 0 /\ Top.pc = "swdone" /\ Top.cfg \in Configs /\ Return
      /\ connection # NoConfig
  BY TopConfig DEF Switched, At, ActivatePcs, StackOK
<1>2. tunnel = "running" => Indexed
  BY <1>1 DEF NamedOK, Indexed
<1>3. TypeOK'
  BY <1>1, SetReturn DEF TypeOK, Switched, Indexed
<1>4. NamedOK'
  BY <1>1, <1>2 DEF NamedOK, Switched, Indexed
<1>5. PollAlive'
  BY <1>2 DEF PollAlive, Switched
<1>. QED  BY <1>1, <1>3, <1>4, <1>5, ReturnStack

\* A poll that leaves the connection pending arms the timer again.
LEMMA StepPolled ==
  ASSUME StackInv, Polled
  PROVE  StackInv'
<1>. USE DEF StackInv
<1>1. depth > 0 /\ Top.pc = "poll" /\ Return
  BY DEF Polled, At
<1>2. TypeOK'
  BY <1>1, SetReturn DEF TypeOK, Polled
<1>3. NamedOK'
  BY <1>1, ReturnNamed DEF Polled, NamedOK
<1>4. PollAlive'
  BY DEF Polled, PollAlive, TypeOK
<1>. QED  BY <1>1, <1>2, <1>3, <1>4, ReturnStack

LEMMA StepUapi ==
  ASSUME StackInv, NEW d \in 1..depth, Uapi(d)
  PROVE  StackInv'
<1>. USE DEF StackInv
<1>. DEFINE f == [frame[d] EXCEPT !.ack = "ok",
                    !.got = IF frame[d].pc = "poll" THEN shook ELSE {}]
<1>1. d \in 1..MaxDepth /\ frame[d] \in Frame /\ frame[d].ack = "sent"
  BY DepthNat DEF TypeOK, Uapi
<1>2. /\ f \in Frame /\ f.pc = frame[d].pc /\ f.cfg = frame[d].cfg
      /\ f.last = frame[d].last
  BY <1>1 DEF Frame, Acks, TypeOK
<1>3. frame' = [frame EXCEPT ![d] = f] /\ depth' = depth
  BY DEF Uapi
<1>. HIDE DEF f
<1>4. /\ frame' \in [1..MaxDepth -> Frame]
      /\ \A e \in 1..MaxDepth :
           /\ frame'[e].pc = frame[e].pc /\ frame'[e].cfg = frame[e].cfg
           /\ frame'[e].last = frame[e].last
           /\ (frame'[e].ack # "none" => frame[e].ack # "none")
  BY <1>1, <1>2, <1>3 DEF TypeOK
<1>5. peers' \subseteq Keys
  <2>1. frame[d].pc \in WaitPcs
    BY <1>1 DEF StackOK
  <2>2. CASE frame[d].pc = "conf"
    BY <2>2 DEF Uapi
  <2>3. CASE frame[d].pc \in {"peer", "swpeer"}
    <3>1. frame[d].cfg.key \in Keys
      BY <1>1, <2>3, ConfigTyped DEF StackOK, ActivatePcs
    <3>. QED  BY <2>3, <3>1 DEF Uapi, TypeOK
  <2>4. CASE frame[d].pc \in {"delpeer", "swdel"}
    BY <2>4 DEF Uapi, TypeOK
  <2>5. CASE frame[d].pc = "poll"
    BY <2>5 DEF Uapi, TypeOK
  <2>. QED  BY <2>1, <2>2, <2>3, <2>4, <2>5 DEF WaitPcs
<1>6. TypeOK'
  BY <1>3, <1>4, <1>5 DEF TypeOK, Uapi
<1>7. StackOK'
  <2>1. (At("begin")' <=> At("begin")) /\ (At("switch")' <=> At("switch"))
        /\ (At("swdone")' <=> At("swdone"))
    BY <1>3, <1>4, DepthNat DEF At, Top, TypeOK
  <2>2. \A e \in 1..depth : e < depth => frame'[e].pc \in WaitPcs \cup {"name"}
    BY <1>4, DepthNat DEF StackOK, TypeOK
  <2>. QED  BY <1>3, <1>4, <2>1, <2>2 DEF StackOK, Uapi
<1>8. NamedOK'
  BY <1>3, <1>4, DepthNat DEF NamedOK, Uapi, TypeOK
<1>9. PollAlive'
  BY <1>3, <1>4, DepthNat DEF PollAlive, Uapi, TypeOK
<1>. QED  BY <1>6, <1>7, <1>8, <1>9

\* Steps that change nothing the calls depend on.
LEMMA StepOutside ==
  ASSUME StackInv, GatewayChanges \/ (\E k \in Keys : Handshake(k)) \/ UNCHANGED vars
  PROVE  StackInv'
<1>. USE DEF StackInv
<1>1. /\ UNCHANGED <<connVars, excluded, exclRoutes, tunnel, peers, tunnelRoutes>>
      /\ UNCHANGED <<hostVars, callVars>>
      /\ gateway' \in Gateways /\ shook' \subseteq peers
  BY DEF GatewayChanges, Handshake, vars, TypeOK
<1>2. TypeOK'
  BY <1>1 DEF TypeOK
<1>. QED  BY <1>1, <1>2 DEF StackOK, NamedOK, PollAlive, At, Top

LEMMA StackInvInductive == StackInv /\ [Next]_vars => StackInv'
<1>. SUFFICES ASSUME StackInv, [Next]_vars PROVE StackInv'
  OBVIOUS
<1>1. CASE Request
  BY <1>1, StepAskActivate, StepAskDeactivate DEF Request
<1>2. CASE TimerFires
  BY <1>2, StepTimerFires
<1>3. CASE Activate \/ Begin \/ TunnelNamed \/ TunnelUnnamed \/ Configured \/ CommandFails
  BY <1>3, StepActivate, StepBegin, StepTunnelNamed, StepTunnelUnnamed, StepConfigured,
     StepCommandFails
<1>4. CASE AddPeer \/ SwitchPeer
  BY <1>4, StepExclude DEF AddPeer, SwitchPeer, At
<1>5. CASE PeerAdded \/ Finish \/ FinishFails \/ Deactivate \/ PeerDeleted \/ Down
  BY <1>5, StepPeerAdded, StepFinish, StepFinishFails, StepDeactivate, StepPeerDeleted,
     StepDown
<1>6. CASE SwitchRoutes \/ OldPeerDeleted \/ Switched \/ Polled
  BY <1>6, StepSwitchRoutes, StepOldPeerDeleted, StepSwitched, StepPolled
<1>7. CASE Environment
  BY <1>7, StepUapi, StepTunnelExits, StepOutside DEF Environment
<1>8. CASE UNCHANGED vars
  BY <1>8, StepOutside
<1>. QED  BY <1>1, <1>2, <1>3, <1>4, <1>5, <1>6, <1>7, <1>8 DEF Next, Step

LEMMA StackInvInit == Init => StackInv
<1>. SUFFICES ASSUME Init PROVE StackInv
  OBVIOUS
<1>1. TypeOK
  <2>1. frame \in [1..MaxDepth -> Frame]
    BY NoFrameTyped DEF Init
  <2>2. excluded \in [Addrs -> Nat] /\ depth \in 0..MaxDepth
    BY DepthNat DEF Init
  <2>. QED  BY <2>1, <2>2 DEF Init, TypeOK
<1>2. NoFrame.pc = "none" /\ NoFrame.ack = "none"
  BY DEF NoFrame, Call
<1>3. StackOK
  BY <1>2, DepthNat DEF Init, StackOK, At, ActivatePcs
<1>. QED  BY <1>1, <1>3 DEF Init, StackInv, NamedOK, PollAlive

\* The stack of nested calls keeps its shape, whatever runs inside the waits.
THEOREM StackInvariant == Spec => []StackInv
BY StackInvInit, StackInvInductive, PTL DEF Spec

\* The variables keep their types.
THEOREM TypeCorrect == Spec => []TypeOK
<1>1. StackInv => TypeOK
  BY DEF StackInv
<1>. QED  BY <1>1, StackInvariant, PTL

\* A connection that waits for its handshake is always going to be polled again:
\* no command that runs inside a wait of activate(), deactivate(), switchServer()
\* or checkHandshake() loses the single-shot timer.
THEOREM HandshakePollAlive == Spec => []PollAlive
<1>1. StackInv => PollAlive
  BY DEF StackInv
<1>. QED  BY <1>1, StackInvariant, PTL

-----------------------------------------------------------------------------
(* Exclusion routes. *)

\* Without a route monitor no address is counted: nothing is left to remove.
RoutesInv == NoRouteForgotten /\ (~rtmonitor => Counted = {})

LEMMA ExcludeRoutes ==
  ASSUME StackInv, RoutesInv, NEW pc \in {"peer", "swpeer"}, Exclude(pc), depth > 0,
         Top.pc \in {"exclude", "switch"}
  PROVE  RoutesInv'
<1>. USE DEF StackInv
<1>1. Top.cfg \in Configs
  BY TopConfig DEF ActivatePcs
<1>2. Top.cfg.excl \subseteq Addrs /\ Top.cfg.server \in Top.cfg.excl
  BY <1>1, ConfigTyped
<1>. DEFINE new == IF rtmonitor THEN Top.cfg.excl ELSE Top.cfg.excl \cap Counted
            add == IF rtmonitor THEN (Top.cfg.excl \ Counted) \cup {Top.cfg.server} ELSE {}
<1>3. /\ excluded' = [a \in Addrs |-> excluded[a] + (IF a \in new THEN 1 ELSE 0)]
      /\ exclRoutes' = exclRoutes \cup (add \X {gateway})
      /\ rtmonitor' = rtmonitor
  BY DEF Exclude
<1>4. add \subseteq new /\ new \subseteq Addrs /\ (~rtmonitor => new \subseteq Counted)
  BY <1>2 DEF Counted
<1>. HIDE DEF new, add
<1>5. Counted' = Counted \cup new
  BY <1>3, <1>4 DEF Counted, TypeOK
<1>. QED  BY <1>3, <1>4, <1>5 DEF RoutesInv, NoRouteForgotten

LEMMA DownRoutes ==
  ASSUME StackInv, RoutesInv, NEW g, Gateways = {g}, Down
  PROVE  RoutesInv'
<1>. USE DEF StackInv
<1>1. exclRoutes' = Unexcluded(Counted) /\ Counted' = {}
  BY DEF Down, Counted
<1>2. ASSUME NEW r \in exclRoutes' PROVE FALSE
  <2>1. r \in exclRoutes
    BY <1>1 DEF Unexcluded
  <2>2. r[1] \in Counted /\ rtmonitor
    BY <2>1 DEF RoutesInv, NoRouteForgotten
  <2>3. r \in Counted \X {gateway}
    BY <2>1, <2>2 DEF TypeOK
  <2>. QED  BY <1>1, <2>2, <2>3 DEF Unexcluded
<1>. QED  BY <1>1, <1>2 DEF RoutesInv, NoRouteForgotten

\* A reference that is dropped is the last one only if its route goes with it.
LEMMA SwitchRoutesRoutes ==
  ASSUME StackInv, RoutesInv, NEW g, Gateways = {g}, SwitchRoutes
  PROVE  RoutesInv'
<1>. USE DEF StackInv
<1>1. /\ excluded' = Released(Top.last) /\ rtmonitor' = rtmonitor
      /\ exclRoutes' \subseteq Unexcluded(Freed(Top.last))
  BY DEF SwitchRoutes, Unexcluded
<1>2. \A a \in Addrs : excluded[a] \in Nat
  BY DEF TypeOK
<1>3. ASSUME NEW r \in exclRoutes' PROVE r[1] \in Counted'
  <2>1. r \in exclRoutes
    BY <1>1 DEF Unexcluded
  <2>2. r[1] \in Counted /\ rtmonitor
    BY <2>1 DEF RoutesInv, NoRouteForgotten
  <2>3. r \in {r[1]} \X {gateway}
    BY <2>1 DEF TypeOK
  <2>4. r[1] \notin Freed(Top.last)
    BY <1>1, <2>2, <2>3 DEF Unexcluded
  <2>. QED  BY <1>1, <1>2, <2>2, <2>4 DEF Counted, Released, Freed
<1>4. Counted' \subseteq Counted
  BY <1>1, <1>2 DEF Counted, Released
<1>. QED  BY <1>1, <1>3, <1>4 DEF RoutesInv, NoRouteForgotten

LEMMA RoutesInductive ==
  ASSUME NEW g, Gateways = {g}
  PROVE  StackInv /\ RoutesInv /\ [Next]_vars => RoutesInv'
<1>. SUFFICES ASSUME StackInv, RoutesInv, [Next]_vars PROVE RoutesInv'
  OBVIOUS
<1>1. CASE AddPeer \/ SwitchPeer
  BY <1>1, ExcludeRoutes DEF AddPeer, SwitchPeer, At
<1>2. CASE Down
  BY <1>2, DownRoutes
<1>3. CASE SwitchRoutes
  BY <1>3, SwitchRoutesRoutes
<1>4. CASE Deactivate
  <2>1. exclRoutes' \subseteq exclRoutes /\ UNCHANGED <<excluded, rtmonitor>>
    BY <1>4 DEF Deactivate, Unexcluded
  <2>. QED  BY <2>1 DEF RoutesInv, NoRouteForgotten, Counted
<1>5. CASE TunnelNamed
  BY <1>5 DEF TunnelNamed, RoutesInv, NoRouteForgotten, Counted
<1>6. CASE UNCHANGED <<excluded, exclRoutes, rtmonitor>>
  BY <1>6 DEF RoutesInv, NoRouteForgotten, Counted
<1>7. CASE Request
  BY <1>6, <1>7 DEF Request, AskActivate, AskDeactivate
<1>8. CASE TimerFires \/ Environment \/ UNCHANGED vars
  BY <1>6, <1>8 DEF TimerFires, Environment, Uapi, Handshake, TunnelExits, GatewayChanges, vars
<1>9. CASE Activate \/ Begin \/ TunnelUnnamed \/ Configured \/ CommandFails \/ PeerAdded
           \/ Finish \/ FinishFails \/ PeerDeleted \/ OldPeerDeleted \/ Switched \/ Polled
  BY <1>6, <1>9 DEF Activate, Begin, TunnelUnnamed, Configured, CommandFails, PeerAdded,
     Finish, FinishFails, PeerDeleted, OldPeerDeleted, Switched, Polled
<1>. QED
  BY <1>1, <1>2, <1>3, <1>4, <1>5, <1>7, <1>8, <1>9 DEF Next, Step

\* While the host keeps its default gateway, no exclusion route is left in the
\* kernel that the daemon no longer counts, whatever runs inside the waits and
\* whichever steps of activate() and switchServer() fail.
THEOREM RoutesRemembered ==
  ASSUME NEW g, Gateways = {g}
  PROVE  Spec => []NoRouteForgotten
<1>1. Init => RoutesInv
  BY DEF Init, RoutesInv, NoRouteForgotten, Counted
<1>2. StackInv /\ RoutesInv /\ [Next]_vars => RoutesInv'
  BY RoutesInductive
<1>3. RoutesInv => NoRouteForgotten
  BY DEF RoutesInv
<1>. QED  BY <1>1, <1>2, <1>3, StackInvariant, PTL DEF Spec
=============================================================================
