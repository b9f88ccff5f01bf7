---------------------------- MODULE TunnelService ----------------------------
(* What the WireGuard daemon promises to the clients of its local socket.    *)
(* There is at most one tunnel, and only a command that is being served      *)
(* changes it.  An activation turns once from the tunnel that was there to   *)
(* its own: it takes the old one down, or publishes its own in its place.    *)
(* Then it is answered; it succeeds with its own tunnel published, or fails  *)
(* and leaves what is there.  A deactivation takes the tunnel down when it   *)
(* is answered, or fails.  A client has one command served at a time; the    *)
(* commands of several clients make their steps in any order.                *)
CONSTANTS Clients, Requests, None

VARIABLES
  tunnel,   \* the request whose tunnel is published, or None
  await,    \* the tunnel's handshake is still to be seen
  serving   \* for each client, the set of its request being served, if any
            \* (None for a deactivation), with whether it has turned

vars == <<tunnel, await, serving>>

Init == tunnel = None /\ await = FALSE /\ serving = [c \in Clients |-> {}]

Drop == tunnel' = None /\ await' = FALSE

Publish(n) == tunnel' = n /\ await' = TRUE

Leave == UNCHANGED <<tunnel, await>>

Take(c) ==
  /\ serving[c] = {}
  /\ \E n \in Requests \cup {None} :
       serving' = [serving EXCEPT ![c] = {<<n, FALSE>>}]
  /\ Leave

Turn(c) ==
  \E n \in Requests :
    /\ <<n, FALSE>> \in serving[c]
    /\ Drop \/ Publish(n)
    /\ serving' = [serving EXCEPT ![c] = {<<n, TRUE>>}]

Answer(c) ==
  /\ \/ serving[c] # {} /\ Leave
     \/ <<None, FALSE>> \in serving[c] /\ Drop
     \/ \E n \in Requests : <<n, TRUE>> \in serving[c] /\ Publish(n)
  /\ serving' = [serving EXCEPT ![c] = {}]

HandshakeSeen == await /\ await' = FALSE /\ UNCHANGED <<tunnel, serving>>

\* Every step of a command shows in what is being served.
Serve ==
  /\ serving' # serving
  /\ \E c \in Clients : Take(c) \/ Turn(c) \/ Answer(c)

Next == HandshakeSeen \/ Serve

Spec == Init /\ [][Next]_vars
=============================================================================
