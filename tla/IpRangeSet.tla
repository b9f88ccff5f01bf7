----------------------------- MODULE IpRangeSet -----------------------------
(* The sorted set of IP ranges with which the Android client computes the    *)
(* routes of a split tunnel (IpRange.kt, IpRangeSet.kt).  The methods loop   *)
(* over the set with an iterator that removes elements on the way; each      *)
(* iteration is a step here.                                                 *)
(*                                                                           *)
(* An address is its rank in the order of IpAddress.compareTo: the IPv4      *)
(* addresses 0 .. Last4 come first, then the IPv6 ones, so that the last     *)
(* IPv4 address and the first IPv6 address are neighbours in the order       *)
(* although inc() of one and dec() of the other overflow.                    *)
EXTENDS Integers

CONSTANTS Last4, Last6,   \* the last IPv4 and the last IPv6 address
          Mask4, Mask6,   \* the longest prefixes of the families (maxMask)
          Inputs          \* the ranges that are added and removed

Address == 0 .. Last6

MinIps == {0, Last4 + 1}

MaxIps == {Last4, Last6}

IsMinIp(a) == a \in MinIps

IsMaxIp(a) == a \in MaxIps

IsIpv4(a) == a <= Last4

IpRange == {r \in [start : Address, end : Address] :
              r.start <= r.end /\ (IsIpv4(r.start) <=> IsIpv4(r.end))}

ASSUME LastAssumption == Last4 \in Nat /\ Last6 \in Nat /\ Last4 < Last6
ASSUME InputsAssumption == Inputs \subseteq IpRange

\* The number of addresses of a network that leaves n bits to the hosts.
BlockSize[n \in Nat] == IF n = 0 THEN 1 ELSE 2 * BlockSize[n - 1]

ASSUME MaskAssumption ==
  /\ Mask4 \in Nat /\ Last4 + 1 = BlockSize[Mask4]
  /\ Mask6 \in Nat /\ Last6 - Last4 = BlockSize[Mask6]

-----------------------------------------------------------------------------
(* IpRange *)

Range(a, b) == [start |-> a, end |-> b]

AddressesOf(r) == r.start .. r.end

Addresses(R) == {a \in Address : \E r \in R : r.start <= a /\ a <= r.end}

Contains(r, other) == r.start <= other.start /\ r.end >= other.end

IsIntersect(r, other) == r.start <= other.end /\ r.end >= other.start

\* The range begins right after the end of the other one.
Follows(r, other) ==
  r.start > other.end /\ ~IsMinIp(r.start) /\ r.start - 1 = other.end

\* Mutant: the last address of the family is not looked at.
PrecedesAcross(r, other) == r.end < other.start /\ r.end + 1 = other.start

Precedes(r, other) ==
  r.end < other.start /\ ~IsMaxIp(r.end) /\ r.end + 1 = other.start

MinOf(a, b) == IF a <= b THEN a ELSE b

MaxOf(a, b) == IF a >= b THEN a ELSE b

PlusIsNull(r, other) ==
  ~Follows(r, other) /\ ~Precedes(r, other) /\ ~IsIntersect(r, other)

Plus(r, other) ==
  IF Follows(r, other) THEN Range(other.start, r.end)
  ELSE IF Precedes(r, other) THEN Range(r.start, other.end)
  ELSE Range(MinOf(r.start, other.start), MaxOf(r.end, other.end))

MinusIsNull(r, other) == ~Contains(other, r) /\ ~IsIntersect(r, other)

\* Mutant: the part after the removed range is lost.
MinusLeft(r, other) ==
  {p \in {Range(r.start, other.start - 1)} : r.start < other.start}

Minus(r, other) ==
  IF Contains(other, r) THEN {}
  ELSE {p \in {Range(r.start, other.start - 1)} : r.start < other.start}
         \cup {p \in {Range(other.end + 1, r.end)} : r.end > other.end}

CompareLE(r, other) ==
  \/ r.start < other.start
  \/ r.start = other.start /\ r.end <= other.end

\* What next() of an iterator over the sorted set returns.
IsNext(r, R) == r \in R /\ \A o \in R : CompareLE(r, o)

-----------------------------------------------------------------------------
(* Networks: an address with a prefix length *)

MaxMask(a) == IF IsIpv4(a) THEN Mask4 ELSE Mask6

\* The value of an address inside its family, as its bytes spell it.
Value(a) == IF IsIpv4(a) THEN a ELSE a - (Last4 + 1)

FirstIpForMask(a, mask) == a - (Value(a) % BlockSize[MaxMask(a) - mask])

GetLastIpForMask(a, mask) ==
  FirstIpForMask(a, mask) + BlockSize[MaxMask(a) - mask] - 1

\* The shortest prefix whose network begins at the address.
GetPossibleMaxMask(a) ==
  CHOOSE m \in 0 .. MaxMask(a) :
    /\ FirstIpForMask(a, m) = a
    /\ \A n \in 0 .. (m - 1) : FirstIpForMask(a, n) # a

\* Mutant: the mask is not lengthened until the network fits.
FirstSubnetLargest(r) ==
  [address |-> r.start, mask |-> GetPossibleMaxMask(r.start)]

\* The network that subnets() cuts off the front of a range: the mask grows
\* until the network ends inside the range.
FirstSubnet(r) ==
  LET fits(m) == GetLastIpForMask(r.start, m) <= r.end
      possible == GetPossibleMaxMask(r.start)
      mask == CHOOSE m \in possible .. MaxMask(r.start) :
                fits(m) /\ \A n \in possible .. (m - 1) : ~fits(n)
  IN  [address |-> r.start, mask |-> mask]

\* The constructor of a range from a network.
From(net) == Range(FirstIpForMask(net.address, net.mask),
                   GetLastIpForMask(net.address, net.mask))

InetNetworks == UNION {[address : {a}, mask : 0 .. MaxMask(a)] : a \in Address}

-----------------------------------------------------------------------------
(* IpRangeSet *)

VARIABLES
  ranges,  \* the TreeSet
  pc,      \* the method that is running, or "idle"
  todo,    \* what the method's iterator has still to return
  arg,     \* rangeToAdd; the ipRange to remove; the rest of a range to cut up
  split,   \* splitRanges
  nets     \* the networks that the last subnets() has found so far

vars == <<ranges, pc, todo, arg, split, nets>>

NoRange == Range(0, 0)

Init ==
  /\ ranges = {} /\ pc = "idle" /\ todo = {} /\ arg = NoRange
  /\ split = {} /\ nets = {}

Call(method, r, rest) ==
  /\ pc = "idle"
  /\ pc' = method /\ todo' = rest /\ arg' = r /\ nets' = {}
  /\ UNCHANGED <<ranges, split>>

Return(R) ==
  /\ pc' = "idle" /\ ranges' = R
  /\ todo' = {} /\ arg' = NoRange /\ split' = {} /\ UNCHANGED nets

AddCall(r) == Call("add", r, ranges)

\* Mutant: the loop ends at a range that begins right after the one to add.
BeyondAdjacent(r, cur) == r.end < cur.start

\* No range from here on can touch the one to add.
Beyond(r, cur) ==
  r.end < cur.start /\ ~IsMaxIp(r.end) /\ r.end + 1 # cur.start

AddLoop(cur) ==
  /\ pc = "add" /\ IsNext(cur, todo)
  /\ \/ /\ Beyond(arg, cur)
        /\ Return(ranges \cup {arg})
     \/ /\ ~Beyond(arg, cur)
        /\ PlusIsNull(cur, arg)
        /\ todo' = todo \ {cur}
        /\ UNCHANGED <<ranges, pc, arg, split, nets>>
     \/ /\ ~Beyond(arg, cur) /\ ~PlusIsNull(cur, arg)
        /\ Plus(cur, arg) = cur
        /\ Return(ranges)
     \/ /\ ~Beyond(arg, cur) /\ ~PlusIsNull(cur, arg)
        /\ Plus(cur, arg) # cur
        /\ ranges' = ranges \ {cur} /\ todo' = todo \ {cur}
        /\ arg' = Plus(cur, arg)
        /\ UNCHANGED <<pc, split, nets>>

AddEnd == pc = "add" /\ todo = {} /\ Return(ranges \cup {arg})

RemoveCall(r) == Call("remove", r, ranges)

RemoveLoop(cur) ==
  /\ pc = "remove" /\ IsNext(cur, todo)
  /\ \/ /\ arg.end < cur.start
        /\ Return(ranges \cup split)
     \/ /\ arg.end >= cur.start
        /\ MinusIsNull(cur, arg)
        /\ todo' = todo \ {cur}
        /\ UNCHANGED <<ranges, pc, arg, split, nets>>
     \/ /\ arg.end >= cur.start /\ ~MinusIsNull(cur, arg)
        /\ ranges' = ranges \ {cur} /\ todo' = todo \ {cur}
        /\ split' = split \cup Minus(cur, arg)
        /\ UNCHANGED <<pc, arg, nets>>

RemoveEnd == pc = "remove" /\ todo = {} /\ Return(ranges \cup split)

\* subnets() of the set cuts up one range after the other.
SubnetsCall(r) == IsNext(r, ranges) /\ Call("subnets", r, ranges \ {r})

SubnetsLoop ==
  LET net == FirstSubnet(arg)
      last == GetLastIpForMask(net.address, net.mask)
      more == ~IsMaxIp(last) /\ last + 1 <= arg.end
  IN  /\ pc = "subnets"
      /\ nets' = nets \cup {net}
      /\ UNCHANGED <<ranges, split>>
      /\ \/ /\ more
            /\ arg' = Range(last + 1, arg.end)
            /\ UNCHANGED <<pc, todo>>
         \/ /\ ~more
            /\ \E r \in todo : /\ IsNext(r, todo)
                              /\ arg' = r /\ todo' = todo \ {r}
            /\ UNCHANGED pc
         \/ /\ ~more /\ todo = {}
            /\ pc' = "idle" /\ arg' = NoRange /\ UNCHANGED todo

Next ==
  \/ \E r \in Inputs : AddCall(r) \/ RemoveCall(r)
  \/ \E cur \in todo : AddLoop(cur) \/ RemoveLoop(cur)
  \/ AddEnd \/ RemoveEnd
  \/ \E r \in ranges : SubnetsCall(r)
  \/ SubnetsLoop

Spec == Init /\ [][Next]_vars

-----------------------------------------------------------------------------
(* Properties *)

\* Every range that add(), remove() and subnets() construct satisfies the
\* checks of IpRange's initialiser: the start is not beyond the end and both
\* are of the same family, also where the last IPv4 range meets an IPv6 one.
TypeOK ==
  /\ ranges \subseteq IpRange
  /\ pc \in {"idle", "add", "remove", "subnets"}
  /\ todo \subseteq ranges
  /\ arg \in IpRange
  /\ split \subseteq IpRange
  /\ nets \subseteq InetNetworks

\* Two ranges that neither share an address nor lie side by side in a family.
Apart(r, other) ==
  \/ r.end < other.start /\ (IsMaxIp(r.end) \/ r.end + 1 < other.start)
  \/ other.end < r.start /\ (IsMaxIp(other.end) \/ other.end + 1 < r.start)

\* Between calls the set is in normal form: add() has merged everything that
\* overlaps or touches, although it deletes from the set it iterates over and
\* stops at the first range beyond the one it adds.
Separated ==
  pc = "idle" => \A r, o \in ranges : r = o \/ Apart(r, o)

\* The networks that subnets() returns are disjoint and hold exactly the
\* addresses of the set: no address is routed that was excluded, none is lost.
SubnetsExact ==
  [][pc = "subnets" /\ pc' = "idle" =>
       /\ Addresses({From(n) : n \in nets'}) = Addresses(ranges')
       /\ \A n, m \in nets' : n = m \/ ~IsIntersect(From(n), From(m))]_vars

\* The addresses that the set stands for, the pending part of a running
\* method included: the abstract operation takes effect at the call.
Denotation ==
  CASE pc = "add"    -> Addresses(ranges) \cup AddressesOf(arg)
    [] pc = "remove" -> (Addresses(ranges) \ AddressesOf(arg)) \cup Addresses(split)
    [] OTHER         -> Addresses(ranges)

Abstract == INSTANCE AddressSet
              WITH Blocks <- {AddressesOf(r) : r \in Inputs},
                   addresses <- Denotation

\* The range set implements a set of addresses: every iteration of add() and
\* remove(), and every early exit from their loops, keeps the set that the
\* finished calls and the running one stand for.
ImplementsAddressSet == Abstract!Spec
=============================================================================
