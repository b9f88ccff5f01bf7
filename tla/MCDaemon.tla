------------------------------ MODULE MCDaemon ------------------------------
(* Small instances of Daemon. *)
EXTENDS Daemon, TLC

CONSTANTS k1, k2, i1, i2, h1, h2, n1, all, r1

Config(key, iface, server, sites, ranges, ks) ==
  [key |-> key, iface |-> iface, server |-> server,
   excl |-> {server} \cup sites, ranges |-> ranges, killSwitch |-> ks]

\* Two servers; for the first one, with and without an excluded site.
Servers ==
  {Config(k1, i1, h1, {}, {all}, TRUE), Config(k1, i1, h1, {h2}, {all}, TRUE),
   Config(k2, i2, h2, {}, {r1}, FALSE)}
\* One server whose traffic is split, or not.
Splits ==
  {Config(k1, i1, h1, {}, {all}, TRUE), Config(k1, i1, h1, {}, {r1}, TRUE)}
\* One server that changes its key, and for which the client then gets another
\* private key.
Rekeyed ==
  {Config(k, i1, h1, {}, {all}, FALSE) : k \in {k1, k2}}
    \cup {Config(k2, i2, h1, {}, {all}, FALSE)}
One == {Config(k1, i1, h1, {}, {all}, TRUE)}
\* A server, and another one that excludes a subnet.
Mixed ==
  {Config(k1, i1, h1, {}, {all}, TRUE), Config(k2, i2, h2, {n1}, {r1}, FALSE)}

\* Two servers, with an excluded site, an excluded subnet, or neither.
AllServers == Servers \cup Mixed

ClientSymmetry == Permutations(Clients)
=============================================================================
