--------------------------- MODULE MCServersModel ---------------------------
(* Small instances of ServersModel: two servers of the user's, one of each API. *)
EXTENDS ServersModel, FiniteSets

CONSTANTS a, b, t, g

Server(id, containers, c) ==
  [id |-> id, containers |-> [k \in containers |-> NoId], defaultContainer |-> c]

FromApi(id) == Server(id, {}, None)

Added == {Server(a, {1}, 1), FromApi(t), FromApi(g)}

Start == {[list |-> <<Server(b, {1, 2}, 1), FromApi(g)>>, default |-> 1],
          [list |-> <<FromApi(t), Server(b, {1, 2}, None), Server(a, {1}, 1)>>,
           default |-> 2],
          [list |-> <<>>, default |-> -1]}

\* A behaviour is followed until a third thing has gone wrong in it.
FewSigns == Cardinality(hist) <= 2
=============================================================================
