------------------------ MODULE DaemonContractProofs ------------------------
(***************************************************************************)
(* Daemon implements TunnelService, for every set of clients and           *)
(* configurations and for every depth of nesting.                          *)
(***************************************************************************)
EXTENDS DaemonProofs

USE DEF connVars, exclVars, wgVars, hostVars, callVars

(* A call is a poll of the timer or a command of a client, and a client has  *)
(* one command on the stack.                                                 *)
CallersOK ==
  /\ \A d \in 1..depth : frame[d].by = "timer" <=> frame[d].pc = "poll"
  /\ \A d, e \in 1..depth : frame[d].by = frame[e].by /\ frame[d].by \in Clients => d = e

(* A call keeps its caller and what it was called with, and does not turn.   *)
SameCall(d) ==
  /\ frame'[d].by = frame[d].by /\ frame'[d].cfg = frame[d].cfg
  /\ frame'[d].pc = "poll" <=> frame[d].pc = "poll"
  /\ frame'[d].pc \in TurnedPcs <=> frame[d].pc \in TurnedPcs

(* What its client sees of a call.                                           *)
Seen(f) == <<f.cfg, f.pc \in TurnedPcs>>

(* A client sees whether its activation has turned.                          *)
LEMMA SeenTurned ==
  ASSUME NEW f
  PROVE  /\ f.pc \in TurnedPcs => Seen(f) = <<f.cfg, TRUE>>
         /\ f.pc \notin TurnedPcs => Seen(f) = <<f.cfg, FALSE>>
<1>1. f.pc \in TurnedPcs <=> (f.pc \in TurnedPcs) = TRUE
  OBVIOUS
<1>2. f.pc \notin TurnedPcs <=> (f.pc \in TurnedPcs) = FALSE
  OBVIOUS
<1>. QED  BY <1>1, <1>2 DEF Seen

-----------------------------------------------------------------------------
(* The stack as the clients see it *)

(* A client is served what its call on the stack was called with.            *)
LEMMA ServingIs ==
  ASSUME NEW c \in Clients, NEW x
  PROVE  x \in Serving[c] <=> \E d \in 1..depth : frame[d].by = c /\ Seen(frame[d]) = x
BY DEF Serving, Seen

(* The same after a step.                                                    *)
LEMMA ServingIsNext ==
  ASSUME NEW c \in Clients, NEW x
  PROVE  x \in Serving'[c] <=> \E d \in 1..depth' : frame'[d].by = c /\ Seen(frame'[d]) = x
BY DEF Serving, Seen

(* Two tables of what is served agree when they agree for every client.      *)
LEMMA ServingEqual ==
  ASSUME \A c \in Clients : \A x : x \in Serving'[c] <=> x \in Serving[c]
  PROVE  Serving' = Serving
<1>1. \A c \in Clients : Serving'[c] = Serving[c]
  OBVIOUS
<1>. QED  BY <1>1 DEF Serving

(* ... or differ for one.                                                    *)
LEMMA ServingExcept ==
  ASSUME NEW c \in Clients, NEW S,
         \A b \in Clients : \A x :
           x \in Serving'[b] <=> IF b = c THEN x \in S ELSE x \in Serving[b]
  PROVE  Serving' = [Serving EXCEPT ![c] = S]
<1>1. \A b \in Clients : Serving'[b] = IF b = c THEN S ELSE Serving[b]
  OBVIOUS
<1>2. Serving' = [b \in Clients |-> Serving'[b]] /\ Serving = [b \in Clients |-> Serving[b]]
  BY DEF Serving
<1>. QED  BY <1>1, <1>2

(* No call begins or ends.                                                   *)
LEMMA SameCallers ==
  ASSUME TypeOK, CallersOK, depth' = depth, \A d \in 1..depth : SameCall(d)
  PROVE  CallersOK' /\ Serving' = Serving
<1>1. CallersOK'
  BY DEF CallersOK, SameCall
<1>3. \A d \in 1..depth : frame'[d].by = frame[d].by /\ Seen(frame'[d]) = Seen(frame[d])
  BY DEF SameCall, Seen
<1>2. \A c \in Clients : \A x : x \in Serving'[c] <=> x \in Serving[c]
  BY <1>3, ServingIs, ServingIsNext
<1>. QED  BY <1>1, <1>2, ServingEqual

(* The top call returns.                                                     *)
LEMMA ReturnCallers ==
  ASSUME TypeOK, CallersOK, depth > 0, depth' = depth - 1,
         \A d \in 1..depth' : SameCall(d)
  PROVE  /\ CallersOK'
         /\ Top.pc = "poll" => Serving' = Serving
         /\ Top.pc # "poll" => /\ Top.by \in Clients /\ Seen(Top) \in Serving[Top.by]
                               /\ Serving' = [Serving EXCEPT ![Top.by] = {}]
<1>1. /\ depth \in 1..MaxDepth /\ Top \in Frame /\ Top = frame[depth]
      /\ 1..depth = 1..depth' \cup {depth} /\ depth \notin 1..depth' /\ depth \in 1..depth
  BY TopTyped, DepthNat DEF Top
<1>2. CallersOK'
  BY <1>1 DEF CallersOK, SameCall
<1>3. Top.by \in Clients \cup {"timer"} /\ "timer" \notin Clients
  BY <1>1, DaemonAssumption DEF Frame
<1>4. ASSUME NEW c \in Clients, NEW x
      PROVE  x \in Serving[c] <=> x \in Serving'[c] \/ (Top.by = c /\ Seen(Top) = x)
  <2>1. \A d \in 1..depth' : frame'[d].by = frame[d].by /\ Seen(frame'[d]) = Seen(frame[d])
    BY DEF SameCall, Seen
  <2>. QED  BY <1>1, <2>1, ServingIs, ServingIsNext
<1>5. ASSUME Top.pc = "poll"
      PROVE  Serving' = Serving
  <2>1. Top.by = "timer"
    BY <1>1, <1>5 DEF CallersOK
  <2>2. \A c \in Clients : \A x : x \in Serving'[c] <=> x \in Serving[c]
    BY <1>3, <1>4, <2>1
  <2>. QED  BY <2>2, ServingEqual
<1>6. ASSUME Top.pc # "poll"
      PROVE  /\ Top.by \in Clients /\ Seen(Top) \in Serving[Top.by]
             /\ Serving' = [Serving EXCEPT ![Top.by] = {}]
  <2>1. Top.by \in Clients
    BY <1>1, <1>3, <1>6 DEF CallersOK
  <2>2. \A x : x \notin Serving'[Top.by]
    BY <1>1, <2>1, ServingIsNext DEF CallersOK, SameCall
  <2>3. \A b \in Clients : \A x :
          x \in Serving'[b] <=> IF b = Top.by THEN x \in {} ELSE x \in Serving[b]
    BY <1>4, <2>2
  <2>. QED  BY <1>4, <2>1, <2>3, ServingExcept
<1>. QED  BY <1>2, <1>5, <1>6

(* A call begins.                                                            *)
LEMMA PushCallers ==
  ASSUME TypeOK, CallersOK, depth < MaxDepth, NEW call \in Frame, Push(call),
         call.by \in Clients => \A d \in 1..depth : frame[d].by # call.by,
         call.by = "timer" <=> call.pc = "poll"
  PROVE  /\ CallersOK'
         /\ call.by = "timer" => Serving' = Serving
         /\ call.by \in Clients => /\ Serving[call.by] = {}
                                   /\ Serving' = [Serving EXCEPT ![call.by] = {Seen(call)}]
<1>1. /\ depth' = depth + 1 /\ frame'[depth'] = call /\ depth \in Nat
      /\ \A d \in 1..depth : frame'[d] = frame[d]
  BY SetPush, DepthNat DEF TypeOK
<1>2. 1..depth' = 1..depth \cup {depth'} /\ depth' \notin 1..depth
  BY <1>1
<1>3. CallersOK'
  BY <1>1, <1>2 DEF CallersOK
<1>4. "timer" \notin Clients
  BY DaemonAssumption
<1>5. ASSUME NEW c \in Clients, NEW x
      PROVE  x \in Serving'[c] <=> x \in Serving[c] \/ (call.by = c /\ Seen(call) = x)
  BY <1>1, <1>2, ServingIs, ServingIsNext
<1>6. ASSUME call.by = "timer"
      PROVE  Serving' = Serving
  <2>1. \A c \in Clients : \A x : x \in Serving'[c] <=> x \in Serving[c]
    BY <1>4, <1>5, <1>6
  <2>. QED  BY <2>1, ServingEqual
<1>7. ASSUME call.by \in Clients
      PROVE  /\ Serving[call.by] = {}
             /\ Serving' = [Serving EXCEPT ![call.by] = {Seen(call)}]
  <2>1. \A x : x \notin Serving[call.by]
    BY <1>7, ServingIs
  <2>2. \A b \in Clients : \A x :
          x \in Serving'[b] <=> IF b = call.by THEN x \in {Seen(call)} ELSE x \in Serving[b]
    BY <1>5, <1>7, <2>1
  <2>. QED  BY <1>7, <2>1, <2>2, ServingExcept
<1>. QED  BY <1>3, <1>6, <1>7

(* The top call turns.                                                       *)
LEMMA TurnCallers ==
  ASSUME TypeOK, CallersOK, depth > 0, Top.pc # "poll", depth' = depth,
         \A d \in 1..depth : d # depth => SameCall(d),
         frame'[depth].by = Top.by, frame'[depth].pc # "poll"
  PROVE  /\ CallersOK' /\ Top.by \in Clients /\ Seen(Top) \in Serving[Top.by]
         /\ Serving' = [Serving EXCEPT ![Top.by] = {Seen(frame'[depth])}]
<1>1. Top \in Frame /\ Top = frame[depth] /\ depth \in 1..depth
  BY TopTyped, DepthNat DEF Top
<1>2. Top.by \in Clients
  BY <1>1 DEF CallersOK, Frame
<1>3. CallersOK'
  BY <1>1 DEF CallersOK, SameCall
<1>4. \A d \in 1..depth : d # depth => Seen(frame'[d]) = Seen(frame[d])
                                       /\ frame'[d].by = frame[d].by
  BY DEF SameCall, Seen
<1>5. \A b \in Clients : \A x :
        x \in Serving'[b] <=> IF b = Top.by THEN x \in {Seen(frame'[depth])}
                              ELSE x \in Serving[b]
  <2>1. ASSUME NEW x
        PROVE  x \in Serving'[Top.by] <=> x = Seen(frame'[depth])
    BY <1>1, <1>2, <1>4, ServingIsNext DEF CallersOK
  <2>2. ASSUME NEW b \in Clients, b # Top.by, NEW x
        PROVE  x \in Serving'[b] <=> x \in Serving[b]
    BY <1>1, <1>4, <2>2, ServingIs, ServingIsNext
  <2>. QED  BY <2>1, <2>2
<1>6. Seen(Top) \in Serving[Top.by]
  BY <1>1, <1>2, ServingIs
<1>. QED  BY <1>2, <1>3, <1>5, <1>6, ServingExcept

-----------------------------------------------------------------------------
(* The steps of the contract *)

Stutter == connection' = connection /\ dated' = dated /\ Serving' = Serving

(* A step that changes neither the connection nor what is served.            *)
LEMMA ContractStutter ==
  ASSUME Stutter
  PROVE  UNCHANGED Contract!vars
BY DEF Stutter, Contract!vars

(* A command is taken.                                                       *)
LEMMA ContractTake ==
  ASSUME NEW c \in Clients, NEW n \in Configs \cup {NoConfig}, Serving[c] = {},
         Serving' = [Serving EXCEPT ![c] = {<<n, FALSE>>}],
         connection' = connection, dated' = dated
  PROVE  Contract!Next
<1>1. Contract!Leave
  BY DEF Contract!Leave
<1>2. Contract!Take(c)
  BY <1>1 DEF Contract!Take
<1>3. Serving' # Serving
  <2>1. Serving'[c] = {<<n, FALSE>>}
    BY DEF Serving
  <2>. QED  BY <2>1
<1>. QED  BY <1>2, <1>3 DEF Contract!Next, Contract!Serve

(* An activation turns.                                                      *)
LEMMA ContractTurn ==
  ASSUME NEW c \in Clients, NEW n \in Configs, <<n, FALSE>> \in Serving[c],
         Serving' = [Serving EXCEPT ![c] = {<<n, TRUE>>}],
         connection' = NoConfig \/ (connection' = n /\ dated' = FALSE)
  PROVE  Contract!Next
<1>1. n # NoConfig
  BY DaemonAssumption
<1>2. Contract!Drop \/ Contract!Publish(n)
  BY <1>1 DEF Contract!Drop, Contract!Publish
<1>3. Contract!Turn(c)
  BY <1>2 DEF Contract!Turn
<1>4. Serving' # Serving
  <2>1. Serving'[c] = {<<n, TRUE>>}
    BY DEF Serving
  <2>2. <<n, FALSE>> # <<n, TRUE>>
    OBVIOUS
  <2>. QED  BY <2>1, <2>2
<1>. QED  BY <1>3, <1>4 DEF Contract!Next, Contract!Serve

(* A command is answered.                                                    *)
LEMMA ContractAnswer ==
  ASSUME NEW c \in Clients, NEW n, NEW t, <<n, t>> \in Serving[c],
         Serving' = [Serving EXCEPT ![c] = {}],
         \/ connection' = connection /\ dated' = dated
         \/ n = NoConfig /\ t = FALSE /\ connection' = NoConfig
         \/ n \in Configs /\ t = TRUE /\ connection' = n /\ dated' = FALSE
  PROVE  Contract!Next
<1>0. Serving' # Serving
  <2>1. Serving'[c] = {}
    BY DEF Serving
  <2>. QED  BY <2>1
<1>1. CASE connection' = connection /\ dated' = dated
  <2>1. Contract!Leave /\ Serving[c] # {}
    BY <1>1 DEF Contract!Leave
  <2>2. Contract!Answer(c)
    BY <2>1 DEF Contract!Answer
  <2>. QED  BY <1>0, <2>2 DEF Contract!Next, Contract!Serve
<1>2. CASE n = NoConfig /\ t = FALSE /\ connection' = NoConfig
  <2>1. Contract!Drop /\ <<NoConfig, FALSE>> \in Serving[c]
    BY <1>2 DEF Contract!Drop
  <2>2. Contract!Answer(c)
    BY <2>1 DEF Contract!Answer
  <2>. QED  BY <1>0, <2>2 DEF Contract!Next, Contract!Serve
<1>3. CASE n \in Configs /\ t = TRUE /\ connection' = n /\ dated' = FALSE
  <2>1. Contract!Publish(n) /\ <<n, TRUE>> \in Serving[c]
    BY <1>3, DaemonAssumption DEF Contract!Publish
  <2>2. Contract!Answer(c)
    BY <1>3, <2>1 DEF Contract!Answer
  <2>. QED  BY <1>0, <2>2 DEF Contract!Next, Contract!Serve
<1>. QED  BY <1>1, <1>2, <1>3

(* The handshake is seen.                                                    *)
LEMMA ContractHandshake ==
  ASSUME connection # NoConfig, dated = FALSE, dated' = TRUE,
         connection' = connection, Serving' = Serving
  PROVE  Contract!Next
<1>1. Contract!HandshakeSeen
  BY DEF Contract!HandshakeSeen
<1>. QED  BY <1>1 DEF Contract!Next

-----------------------------------------------------------------------------
(* The actions of the daemon *)

Simulates == CallersOK' /\ (Contract!Next \/ UNCHANGED Contract!vars)

(* The top call moves on without turning.                                    *)
LEMMA MoveSimulates ==
  ASSUME TypeOK, CallersOK, depth > 0, depth' = depth, NEW f,
         frame' = [frame EXCEPT ![depth] = f],
         f.by = Top.by, f.cfg = Top.cfg, f.pc # "poll", Top.pc # "poll",
         f.pc \in TurnedPcs <=> Top.pc \in TurnedPcs
  PROVE  CallersOK' /\ Serving' = Serving
<1>1. \A d \in 1..depth : SameCall(d)
  BY TopTyped, DepthNat DEF SameCall, TypeOK, Top
<1>. QED  BY <1>1, SameCallers

(* What Goto and Command make of the top call.                               *)
LEMMA Moved ==
  ASSUME TypeOK, depth > 0, NEW pc,
         Goto(pc) \/ \E last : Command(pc, last)
  PROVE  \E f : /\ depth' = depth /\ frame' = [frame EXCEPT ![depth] = f]
               /\ f.by = Top.by /\ f.cfg = Top.cfg /\ f.pc = pc
<1>1. Top \in Frame
  BY TopTyped
<1>2. CASE Goto(pc)
  <2>. DEFINE f == [Top EXCEPT !.pc = pc, !.ack = "none"]
  <2>1. f.by = Top.by /\ f.cfg = Top.cfg /\ f.pc = pc
    BY <1>1 DEF Frame
  <2>2. depth' = depth /\ frame' = [frame EXCEPT ![depth] = f]
    BY <1>2 DEF Goto
  <2>. HIDE DEF f
  <2>. QED  BY <2>1, <2>2
<1>3. ASSUME NEW last, Command(pc, last)
      PROVE  \E f : /\ depth' = depth /\ frame' = [frame EXCEPT ![depth] = f]
                   /\ f.by = Top.by /\ f.cfg = Top.cfg /\ f.pc = pc
  <2>. DEFINE f == [Top EXCEPT !.pc = pc, !.last = last, !.ack = Sent]
  <2>1. f.by = Top.by /\ f.cfg = Top.cfg /\ f.pc = pc
    BY <1>1 DEF Frame
  <2>2. depth' = depth /\ frame' = [frame EXCEPT ![depth] = f]
    BY <1>3 DEF Command
  <2>. HIDE DEF f
  <2>. QED  BY <2>1, <2>2
<1>. QED  BY <1>2, <1>3

(* The top call is answered.                                                 *)
LEMMA ReturnSimulates ==
  ASSUME TypeOK, CallersOK, depth > 0, Return, Top.pc # "poll",
         \/ connection' = connection /\ dated' = dated
         \/ Top.cfg \in Configs /\ Top.pc \in TurnedPcs
            /\ connection' = Top.cfg /\ dated' = FALSE
  PROVE  Simulates
<1>1. depth' = depth - 1 /\ \A d \in 1..depth' : SameCall(d)
  BY SetReturn, TopTyped, DepthNat DEF SameCall
<1>2. /\ CallersOK' /\ Top.by \in Clients /\ Seen(Top) \in Serving[Top.by]
      /\ Serving' = [Serving EXCEPT ![Top.by] = {}]
  BY <1>1, ReturnCallers
<1>. DEFINE c == Top.by
           n == Top.cfg
           t == Top.pc \in TurnedPcs
<1>3. /\ c \in Clients /\ <<n, t>> \in Serving[c]
      /\ Serving' = [Serving EXCEPT ![c] = {}]
      /\ \/ connection' = connection /\ dated' = dated
         \/ n \in Configs /\ t = TRUE /\ connection' = n /\ dated' = FALSE
  BY <1>2 DEF Seen
<1>. HIDE DEF c, n, t
<1>4. Contract!Next
  BY <1>3, ContractAnswer
<1>. QED  BY <1>2, <1>4 DEF Simulates

(* An activation turns: it has cleared the connection, found none, or        *)
(* published its own.                                                        *)
LEMMA TurnSimulates ==
  ASSUME TypeOK, CallersOK, depth > 0, Top.pc # "poll", Top.pc \notin TurnedPcs,
         Top.cfg \in Configs, depth' = depth,
         \A d \in 1..depth : d # depth => SameCall(d),
         frame'[depth].by = Top.by, frame'[depth].cfg = Top.cfg,
         frame'[depth].pc \in TurnedPcs,
         connection' = NoConfig \/ (connection' = Top.cfg /\ dated' = FALSE)
  PROVE  Simulates
<1>1. frame'[depth].pc # "poll"
  BY DEF TurnedPcs
<1>2. /\ CallersOK' /\ Top.by \in Clients /\ Seen(Top) \in Serving[Top.by]
      /\ Serving' = [Serving EXCEPT ![Top.by] = {Seen(frame'[depth])}]
  BY <1>1, TurnCallers
<1>3. Seen(Top) = <<Top.cfg, FALSE>> /\ Seen(frame'[depth]) = <<Top.cfg, TRUE>>
  BY SeenTurned
<1>. DEFINE c == Top.by
           n == Top.cfg
<1>4. /\ c \in Clients /\ n \in Configs /\ <<n, FALSE>> \in Serving[c]
      /\ Serving' = [Serving EXCEPT ![c] = {<<n, TRUE>>}]
      /\ connection' = NoConfig \/ (connection' = n /\ dated' = FALSE)
  BY <1>2, <1>3
<1>. HIDE DEF c, n
<1>5. Contract!Next
  BY <1>4, ContractTurn
<1>. QED  BY <1>2, <1>5 DEF Simulates

(* Commands and the timer.                                                   *)
LEMMA AskSimulates ==
  ASSUME StackInv, CallersOK, NEW c \in Clients,
         AskDeactivate(c) \/ \E cfg \in Configs : AskActivate(c, cfg)
  PROVE  Simulates
<1>1. PICK cfg \in Configs \cup {NoConfig}, pc \in {"activate", "deactivate"} :
        Push(Call(c, cfg, pc, "none"))
  BY DEF AskDeactivate, AskActivate
<1>2. CanRun(c) /\ connection' = connection /\ dated' = dated
  BY DEF AskDeactivate, AskActivate
<1>. DEFINE call == Call(c, cfg, pc, "none")
<1>3. /\ call \in Frame /\ call.by = c /\ call.cfg = cfg /\ call.pc = pc
      /\ call.pc \notin TurnedPcs /\ c # "timer"
  BY DaemonAssumption DEF Call, Frame, Pcs, Acks, TurnedPcs
<1>. HIDE DEF call
<1>4. /\ TypeOK /\ depth < MaxDepth /\ Push(call)
      /\ call.by \in Clients => \A d \in 1..depth : frame[d].by # call.by
      /\ call.by = "timer" <=> call.pc = "poll"
  BY <1>1, <1>2, <1>3 DEF CanRun, StackInv, call
<1>5. CallersOK' /\ Serving[c] = {} /\ Serving' = [Serving EXCEPT ![c] = {<<cfg, FALSE>>}]
  BY <1>3, <1>4, SeenTurned, PushCallers
<1>6. Contract!Next
  BY <1>2, <1>5, ContractTake
<1>. QED  BY <1>5, <1>6 DEF Simulates

(* The timer's poll is no command.                                           *)
LEMMA TimerSimulates ==
  ASSUME StackInv, CallersOK, TimerFires
  PROVE  Simulates
<1>. DEFINE call == Call("timer", NoConfig, "poll", Sent)
<1>1. call \in Frame /\ call.by = "timer" /\ call.pc = "poll"
  BY DEF Call, Frame, Pcs, Acks, Sent
<1>2. /\ TypeOK /\ depth < MaxDepth /\ Push(call)
      /\ connection' = connection /\ dated' = dated
  BY DEF TimerFires, CanRun, StackInv
<1>. HIDE DEF call
<1>3. "timer" \notin Clients
  BY DaemonAssumption
<1>4. CallersOK' /\ Serving' = Serving
  BY <1>1, <1>2, <1>3, PushCallers
<1>5. UNCHANGED Contract!vars
  BY <1>2, <1>4, ContractStutter DEF Stutter
<1>. QED  BY <1>4, <1>5 DEF Simulates

(* A command on its way that does not turn.                                  *)
LEMMA QuietSimulates ==
  ASSUME StackInv, CallersOK, depth > 0, Top.pc # "poll",
         connection' = connection, dated' = dated,
         NEW pc, pc # "poll", pc \in TurnedPcs <=> Top.pc \in TurnedPcs,
         Goto(pc) \/ \E last : Command(pc, last)
  PROVE  Simulates
<1>1. TypeOK
  BY DEF StackInv
<1>2. PICK f : /\ depth' = depth /\ frame' = [frame EXCEPT ![depth] = f]
               /\ f.by = Top.by /\ f.cfg = Top.cfg /\ f.pc = pc
  BY <1>1, Moved
<1>3. CallersOK' /\ Serving' = Serving
  BY <1>1, <1>2, MoveSimulates
<1>4. UNCHANGED Contract!vars
  BY <1>3, ContractStutter DEF Stutter
<1>. QED  BY <1>3, <1>4 DEF Simulates

(* An activation that turns in a step of its own.                            *)
LEMMA GotoTurns ==
  ASSUME StackInv, CallersOK, depth > 0, Top.pc \in ActivatePcs \ TurnedPcs,
         connection' = NoConfig \/ (connection' = Top.cfg /\ dated' = FALSE),
         NEW pc \in TurnedPcs, Goto(pc)
  PROVE  Simulates
<1>1. TypeOK /\ Top.pc # "poll" /\ Top.cfg \in Configs /\ frame \in [1..MaxDepth -> Frame]
  BY TopConfig DEF StackInv, ActivatePcs, TypeOK
<1>2. PICK f : /\ depth' = depth /\ frame' = [frame EXCEPT ![depth] = f]
               /\ f.by = Top.by /\ f.cfg = Top.cfg /\ f.pc = pc
  BY <1>1, Moved
<1>3. depth \in 1..MaxDepth
  BY <1>1, TopTyped
<1>4. /\ frame'[depth] = f
      /\ \A d \in 1..depth : d # depth => SameCall(d)
  BY <1>1, <1>2, <1>3, DepthNat DEF SameCall
<1>. QED  BY <1>1, <1>2, <1>4, TurnSimulates

(* deactivate() takes the tunnel down; inside activate() it goes on.         *)
LEMMA DownSimulates ==
  ASSUME StackInv, CallersOK, Down
  PROVE  Simulates
<1>1. /\ depth > 0 /\ Top.pc = "down" /\ Top.pc # "poll" /\ Top.pc \notin TurnedPcs
      /\ TypeOK
  BY DEF Down, At, StackInv, TurnedPcs
<1>2. CASE tunnel = "off"
  BY <1>1, <1>2, ReturnSimulates DEF Down
<1>3. CASE tunnel # "off"
  <2>. DEFINE next == IF Top.cfg = NoConfig THEN NoFrame
                      ELSE [Top EXCEPT !.pc = "begin", !.ack = "none"]
  <2>1. /\ connection' = NoConfig /\ dated' = FALSE
        /\ frame' = [d \in 1..MaxDepth |->
                       IF d = depth THEN next ELSE HungUp(frame[d])]
        /\ depth' = IF Top.cfg = NoConfig THEN depth - 1 ELSE depth
    BY <1>3 DEF Down
  <2>2. depth \in 1..MaxDepth /\ Top \in Frame /\ Top = frame[depth]
        /\ \A d \in 1..MaxDepth : frame[d] \in Frame
    BY <1>1, TopTyped DEF TypeOK, Top
  <2>3. \A d \in 1..MaxDepth : d # depth => SameCall(d)
    BY <2>1, <2>2 DEF SameCall, HungUp, Frame
  <2>4. CASE Top.cfg = NoConfig
    <3>1. depth' = depth - 1 /\ \A d \in 1..depth' : SameCall(d)
      BY <2>1, <2>2, <2>3, <2>4, DepthNat
    <3>2. /\ CallersOK' /\ Top.by \in Clients /\ Seen(Top) \in Serving[Top.by]
          /\ Serving' = [Serving EXCEPT ![Top.by] = {}]
      BY <1>1, <3>1, ReturnCallers
    <3>. DEFINE c == Top.by
    <3>3. /\ c \in Clients /\ <<NoConfig, FALSE>> \in Serving[c]
          /\ Serving' = [Serving EXCEPT ![c] = {}]
      BY <1>1, <2>4, <3>2, SeenTurned
    <3>. HIDE DEF c
    <3>4. Contract!Next
      BY <2>1, <3>3, ContractAnswer
    <3>. QED  BY <3>2, <3>4 DEF Simulates
  <2>5. CASE Top.cfg # NoConfig
    <3>1. Top.cfg \in Configs
      BY <2>2, <2>5 DEF Frame
    <3>2. frame'[depth] = [Top EXCEPT !.pc = "begin", !.ack = "none"]
      BY <2>1, <2>2, <2>5
    <3>3. /\ frame'[depth].by = Top.by /\ frame'[depth].cfg = Top.cfg
          /\ frame'[depth].pc \in TurnedPcs
      BY <2>2, <3>2 DEF Frame, TurnedPcs
    <3>4. depth' = depth /\ \A d \in 1..depth : d # depth => SameCall(d)
      BY <2>1, <2>2, <2>3, <2>5, DepthNat
    <3>. QED  BY <1>1, <2>1, <3>1, <3>3, <3>4, TurnSimulates
  <2>. QED  BY <2>4, <2>5
<1>. QED  BY <1>2, <1>3

(* checkHandshake() sees a handshake that is awaited, or does not.           *)
LEMMA PolledSimulates ==
  ASSUME StackInv, CallersOK, Polled
  PROVE  Simulates
<1>1. /\ depth > 0 /\ Top.pc = "poll" /\ TypeOK /\ Return /\ connection' = connection
      /\ dated \in BOOLEAN
  BY DEF Polled, At, StackInv, TypeOK
<1>2. depth' = depth - 1 /\ \A d \in 1..depth' : SameCall(d)
  BY <1>1, SetReturn, TopTyped, DepthNat DEF SameCall
<1>3. CallersOK' /\ Serving' = Serving
  BY <1>1, <1>2, ReturnCallers
<1>4. dated' = dated \/ (connection # NoConfig /\ dated = FALSE /\ dated' = TRUE)
  BY <1>1 DEF Polled
<1>5. CASE dated' = dated
  BY <1>1, <1>3, <1>5, ContractStutter DEF Stutter, Simulates
<1>6. CASE connection # NoConfig /\ dated = FALSE /\ dated' = TRUE
  BY <1>1, <1>3, <1>6, ContractHandshake DEF Simulates
<1>. QED  BY <1>4, <1>5, <1>6

(* wireguard-go and the network.                                             *)
LEMMA EnvironmentSimulates ==
  ASSUME StackInv, CallersOK, Environment
  PROVE  Simulates
<1>1. /\ TypeOK /\ depth' = depth /\ connection' = connection /\ dated' = dated
      /\ depth \in 0..MaxDepth /\ \A d \in 1..MaxDepth : frame[d] \in Frame
  BY DEF StackInv, TypeOK, Environment, Uapi, Handshake, TunnelExits, GatewayChanges
<1>2. \A d \in 1..depth : SameCall(d)
  <2>1. ASSUME NEW e \in 1..depth, Uapi(e)
        PROVE  \A d \in 1..depth : SameCall(d)
    BY <1>1, <2>1, DepthNat DEF Uapi, SameCall, TypeOK, Frame
  <2>2. CASE TunnelExits
    BY <1>1, <2>2, DepthNat DEF TunnelExits, SameCall, HungUp, Frame
  <2>3. CASE GatewayChanges \/ \E k \in Keys : Handshake(k)
    BY <2>3 DEF GatewayChanges, Handshake, SameCall
  <2>. QED  BY <2>1, <2>2, <2>3 DEF Environment
<1>3. CallersOK' /\ Serving' = Serving
  BY <1>1, <1>2, SameCallers
<1>. QED  BY <1>1, <1>3, ContractStutter DEF Stutter, Simulates

(* Every step of a call.                                                     *)
LEMMA StepSimulates ==
  ASSUME StackInv, CallersOK, Step
  PROVE  Simulates
<1>1. TypeOK /\ StackOK
  BY DEF StackInv
<1>. USE DEF At, TurnedPcs
<1>2. CASE Activate
  <2>1. /\ depth > 0 /\ Top.pc = "activate"
        /\ connection' = connection /\ dated' = dated
    BY <1>2 DEF Activate
  <2>2. CASE connection = NoConfig
    <3>1. Goto("begin")
      BY <1>2, <2>2 DEF Activate
    <3>. QED  BY <2>1, <2>2, <3>1, GotoTurns DEF ActivatePcs
  <2>3. CASE connection # NoConfig
    <3>1. PICK pc \in {"switch", "deactivate"} : Goto(pc)
      BY <1>2, <2>3 DEF Activate
    <3>. QED  BY <2>1, <3>1, QuietSimulates
  <2>. QED  BY <2>2, <2>3
<1>3. CASE Begin
  <2>1. /\ depth > 0 /\ Top.pc = "begin" /\ connection' = connection /\ dated' = dated
    BY <1>3 DEF Begin
  <2>2. (\E pc \in {"exclude", "name"} : Goto(pc)) \/ Return
    BY <1>3 DEF Begin
  <2>3. CASE Return
    BY <1>1, <2>1, <2>3, ReturnSimulates
  <2>4. ASSUME NEW pc \in {"exclude", "name"}, Goto(pc)
        PROVE  Simulates
    BY <2>1, <2>4, QuietSimulates
  <2>. QED  BY <2>2, <2>3, <2>4
<1>4. CASE TunnelNamed
  <2>. DEFINE f == [Top EXCEPT !.pc = "conf", !.ack = "sent"]
  <2>1. /\ depth > 0 /\ Top.pc = "name" /\ connection' = connection /\ dated' = dated
        /\ depth' = depth /\ frame' = [frame EXCEPT ![depth] = f]
    BY <1>4 DEF TunnelNamed
  <2>2. f.by = Top.by /\ f.cfg = Top.cfg /\ f.pc = "conf"
    BY <1>1, <2>1, TopTyped DEF Frame
  <2>. HIDE DEF f
  <2>3. CallersOK' /\ Serving' = Serving
    BY <1>1, <2>1, <2>2, MoveSimulates
  <2>. QED  BY <2>1, <2>3, ContractStutter DEF Stutter, Simulates
<1>5. CASE TunnelUnnamed \/ CommandFails \/ FinishFails
  <2>1. /\ depth > 0 /\ Top.pc # "poll" /\ connection' = connection /\ dated' = dated
        /\ Return
    BY <1>5 DEF TunnelUnnamed, CommandFails, FinishFails
  <2>. QED  BY <1>1, <2>1, ReturnSimulates
<1>6. CASE Configured \/ PeerAdded \/ PeerDeleted
  <2>1. depth > 0 /\ connection' = connection /\ dated' = dated
    BY <1>6 DEF Configured, PeerAdded, PeerDeleted
  <2>2. \/ Top.pc = "conf" /\ Goto("exclude")
        \/ Top.pc = "peer" /\ Goto("finish")
        \/ Top.pc = "delpeer" /\ Goto("down")
    BY <1>6 DEF Configured, PeerAdded, PeerDeleted
  <2>. QED  BY <2>1, <2>2, QuietSimulates
<1>7. CASE AddPeer \/ SwitchPeer
  <2>1. depth > 0 /\ connection' = connection /\ dated' = dated
    BY <1>7 DEF AddPeer, SwitchPeer, Exclude
  <2>2. \/ Top.pc = "exclude" /\ Command("peer", connection)
        \/ Top.pc = "switch" /\ Command("swpeer", connection)
    BY <1>7 DEF AddPeer, SwitchPeer, Exclude
  <2>. QED  BY <2>1, <2>2, QuietSimulates
<1>8. CASE Finish
  <2>1. /\ depth > 0 /\ Top.pc = "finish" /\ connection' = Top.cfg /\ dated' = FALSE
        /\ Return
    BY <1>8 DEF Finish
  <2>2. Top.cfg \in Configs
    BY <1>1, <2>1, TopConfig DEF ActivatePcs
  <2>. QED  BY <1>1, <2>1, <2>2, ReturnSimulates
<1>9. CASE Deactivate
  <2>1. /\ depth > 0 /\ Top.pc = "deactivate"
        /\ connection' = connection /\ dated' = dated
    BY <1>9 DEF Deactivate
  <2>2. Return \/ Goto("down") \/ Command("delpeer", connection)
    BY <1>9 DEF Deactivate
  <2>3. CASE Return
    BY <1>1, <2>1, <2>3, ReturnSimulates
  <2>4. CASE Goto("down") \/ Command("delpeer", connection)
    BY <2>1, <2>4, QuietSimulates
  <2>. QED  BY <2>2, <2>3, <2>4
<1>10. CASE Down
  BY <1>10, DownSimulates
<1>11. CASE SwitchRoutes
  <2>1. depth > 0 /\ Top.pc = "swpeer" /\ Top.pc \in ActivatePcs \ TurnedPcs
    BY <1>11 DEF SwitchRoutes, ActivatePcs
  <2>2. \/ connection' = Top.cfg /\ dated' = FALSE /\ Goto("swdone")
        \/ /\ connection' = connection /\ dated' = dated
           /\ Command("swdel", Top.last)
    BY <1>11 DEF SwitchRoutes
  <2>3. CASE connection' = Top.cfg /\ dated' = FALSE /\ Goto("swdone")
    BY <2>1, <2>3, GotoTurns
  <2>4. CASE /\ connection' = connection /\ dated' = dated
             /\ Command("swdel", Top.last)
    BY <2>1, <2>4, QuietSimulates
  <2>. QED  BY <2>2, <2>3, <2>4
<1>12. CASE OldPeerDeleted
  <2>1. /\ depth > 0 /\ Top.pc \in ActivatePcs \ TurnedPcs
        /\ connection' = Top.cfg /\ dated' = FALSE /\ Goto("swdone")
    BY <1>12 DEF OldPeerDeleted, ActivatePcs
  <2>. QED  BY <2>1, GotoTurns
<1>13. CASE Switched
  <2>1. /\ depth > 0 /\ Top.pc = "swdone" /\ Return
        /\ \/ connection' = connection /\ dated' = dated
           \/ connection' = Top.cfg /\ dated' = FALSE
    BY <1>13 DEF Switched
  <2>2. Top.cfg \in Configs
    BY <1>1, <2>1, TopConfig DEF ActivatePcs
  <2>. QED  BY <1>1, <2>1, <2>2, ReturnSimulates
<1>14. CASE Polled
  BY <1>14, PolledSimulates
<1>. QED
  BY <1>2, <1>3, <1>4, <1>5, <1>6, <1>7, <1>8, <1>9, <1>10, <1>11, <1>12, <1>13,
     <1>14
  DEF Step

(* Every step of the daemon is a step of the service or leaves it alone.     *)
LEMMA NextSimulates == StackInv /\ CallersOK /\ [Next]_vars => Simulates
<1>. SUFFICES ASSUME StackInv, CallersOK, [Next]_vars
              PROVE  Simulates
  OBVIOUS
<1>1. CASE Request
  BY <1>1, AskSimulates DEF Request
<1>2. CASE TimerFires
  BY <1>2, TimerSimulates
<1>3. CASE Step
  BY <1>3, StepSimulates
<1>4. CASE Environment
  BY <1>4, EnvironmentSimulates
<1>5. CASE UNCHANGED vars
  <2>1. /\ TypeOK /\ depth' = depth /\ frame' = frame
        /\ connection' = connection /\ dated' = dated
    BY <1>5 DEF vars, StackInv
  <2>2. CallersOK' /\ Serving' = Serving
    BY <2>1, SameCallers DEF SameCall
  <2>. QED  BY <2>1, <2>2, ContractStutter DEF Stutter, Simulates
<1>. QED  BY <1>1, <1>2, <1>3, <1>4, <1>5 DEF Next

(* Nothing is served at first.                                               *)
LEMMA InitSimulates == Init => CallersOK /\ Contract!Init
<1>. SUFFICES ASSUME Init
              PROVE  CallersOK /\ Contract!Init
  OBVIOUS
<1>1. depth = 0 /\ connection = NoConfig /\ 1..depth = {}
  BY DEF Init
<1>2. CallersOK
  BY <1>1 DEF CallersOK
<1>3. Serving = [c \in Clients |-> {}]
  BY <1>1 DEF Serving
<1>. QED  BY <1>1, <1>2, <1>3 DEF Contract!Init

(* The daemon is a tunnel service for any number of clients whose commands   *)
(* run inside each other's waits: what TunnelService promises holds of       *)
(* m_connections, of m_date and of the commands on the stack.                *)
THEOREM DaemonImplementsTunnelService == Spec => ImplementsTunnelService
<1>1. CallersOK /\ []StackInv /\ [][Next]_vars => []CallersOK
  <2>1. StackInv /\ CallersOK /\ [Next]_vars => CallersOK'
    BY NextSimulates DEF Simulates
  <2>. QED  BY <2>1, PTL
<1>2. StackInv /\ CallersOK /\ [Next]_vars => [Contract!Next]_(Contract!vars)
  BY NextSimulates DEF Simulates
<1>. QED
  BY <1>1, <1>2, InitSimulates, StackInvariant, PTL
  DEF Spec, ImplementsTunnelService, Contract!Spec
=============================================================================
