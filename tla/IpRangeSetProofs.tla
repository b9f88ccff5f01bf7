-------------------------- MODULE IpRangeSetProofs --------------------------
(* Proofs about IpRangeSet for families of every size: the ranges are well   *)
(* formed, the set is in normal form between calls, the networks into which  *)
(* subnets() cuts it up hold exactly its addresses, and the set implements a *)
(* set of addresses.                                                         *)
EXTENDS IpRangeSet, WellFoundedInduction, TLAPS

(* The inductive invariant.  add() keeps what it has passed apart from the   *)
(* range it carries; remove() keeps what it has passed free of the range it  *)
(* removes, and the pieces apart from everything else.                       *)
RangesOK ==
  /\ ranges \subseteq IpRange
  /\ pc \in {"idle", "add", "remove", "subnets"}
  /\ todo \subseteq ranges
  /\ pc \in {"add", "remove"} => arg \in IpRange
  /\ split \subseteq IpRange

AllApart(R) == \A r, o \in R : r = o \/ Apart(r, o)

PassedApart == pc = "add" => \A r \in ranges \ todo : Apart(r, arg)

PassedFree == pc = "remove" => \A r \in ranges \ todo : ~IsIntersect(r, arg)

PiecesFree == pc = "remove" => \A p \in split : ~IsIntersect(p, arg)

PiecesOnlyInRemove == pc # "remove" => split = {}

RangeInv ==
  /\ RangesOK
  /\ AllApart(ranges \cup split)
  /\ PassedApart
  /\ PassedFree
  /\ PiecesFree
  /\ PiecesOnlyInRemove

(* The invariant of subnets(): the networks found so far, the rest of the    *)
(* range that is being cut up and the ranges that are still to come share no *)
(* address, and together they hold the addresses of the set.                 *)
Cut == {From(n) : n \in nets}

NetsOK == nets \subseteq InetNetworks /\ arg \in IpRange

NetsApart ==
  pc = "subnets" =>
    \A n, m \in nets : n = m \/ ~IsIntersect(From(n), From(m))

RestApart ==
  pc = "subnets" =>
    /\ \A n \in nets, r \in todo \cup {arg} : ~IsIntersect(From(n), r)
    /\ \A r \in todo : ~IsIntersect(arg, r)

CutExact ==
  pc = "subnets" => Addresses(Cut \cup {arg} \cup todo) = Addresses(ranges)

CutInv == NetsOK /\ NetsApart /\ RestApart /\ CutExact

USE DEF Range

-----------------------------------------------------------------------------
(* Numbers *)

(* A set of numbers has a smallest one.                                      *)
LEMMA SmallestNumber ==
  ASSUME NEW T \in SUBSET Nat, T # {}
  PROVE  \E x \in T : \A y \in T : x <= y
<1>1. IsWellFoundedOn(OpToRel(<, Nat), Nat)
  BY NatLessThanWellFounded
<1>2. PICK x \in T : \A y \in T : ~ (<<y, x>> \in OpToRel(<, Nat))
  BY <1>1, WFMin
<1>3. \A y \in T : ~(y < x)
  BY <1>2 DEF OpToRel
<1> QED BY <1>3

(* Induction, for a set instead of a predicate: the induction theorem of the *)
(* library takes an operator, which the provers cannot instantiate.          *)
LEMMA NumberInduction ==
  ASSUME NEW S, 0 \in S, \A n \in Nat : n \in S => n + 1 \in S
  PROVE  Nat \subseteq S
<1> SUFFICES ASSUME Nat \ S # {} PROVE FALSE
  OBVIOUS
<1>1. PICK x \in Nat \ S : \A y \in Nat \ S : x <= y
  <2> DEFINE T == Nat \ S
  <2>1. T \in SUBSET Nat /\ T # {} OBVIOUS
  <2> HIDE DEF T
  <2>2. \E x \in T : \A y \in T : x <= y BY <2>1, SmallestNumber
  <2> QED BY <2>2 DEF T
<1>2. x # 0 /\ x - 1 \in Nat
  BY <1>1
<1>3. x - 1 \in S
  BY <1>1, <1>2
<1>4. (x - 1) + 1 \in S
  BY <1>2, <1>3
<1> QED BY <1>1, <1>4

(* The beginnings of the table of powers of two.                             *)
Table(g, n) ==
  /\ g \in [0 .. n -> Nat]
  /\ g[0] = 1
  /\ \A i \in 0 .. (n - 1) : g[i + 1] = 2 * g[i]

(* Every beginning of the table exists ...                                   *)
LEMMA TableExists == \A n \in Nat : \E g : Table(g, n)
<1> DEFINE S == {n \in Nat : \E g : Table(g, n)}
<1>1. 0 \in S
  <2>1. Table([i \in 0 .. 0 |-> 1], 0) BY DEF Table
  <2> QED BY <2>1
<1>2. \A n \in Nat : n \in S => n + 1 \in S
  <2> SUFFICES ASSUME NEW n \in Nat, NEW g, Table(g, n)
               PROVE  \E h : Table(h, n + 1)
    OBVIOUS
  <2> DEFINE h == [i \in 0 .. (n + 1) |-> IF i = n + 1 THEN 2 * g[n] ELSE g[i]]
  <2>1. Table(h, n + 1)
    <3>1. h \in [0 .. (n + 1) -> Nat] BY DEF Table
    <3>2. h[0] = 1 BY DEF Table
    <3>3. \A i \in 0 .. ((n + 1) - 1) : h[i + 1] = 2 * h[i] BY DEF Table
    <3> QED BY <3>1, <3>2, <3>3 DEF Table
  <2> QED BY <2>1
<1>3. Nat \subseteq S
  <2> HIDE DEF S
  <2> QED BY <1>1, <1>2, NumberInduction
<1> QED BY <1>3

(* ... and agrees with the longer ones.                                      *)
LEMMA TableUnique ==
  ASSUME NEW n \in Nat, NEW m \in Nat, n <= m,
         NEW g, Table(g, n), NEW h, Table(h, m)
  PROVE  g[n] = h[n]
<1> DEFINE S == {i \in Nat : i <= n => g[i] = h[i]}
<1>1. 0 \in S BY DEF Table
<1>2. \A i \in Nat : i \in S => i + 1 \in S
  <2> SUFFICES ASSUME NEW i \in Nat, i + 1 <= n, g[i] = h[i]
               PROVE  g[i + 1] = h[i + 1]
    OBVIOUS
  <2>1. i \in 0 .. (n - 1) /\ i \in 0 .. (m - 1) OBVIOUS
  <2> QED BY <2>1 DEF Table
<1>3. Nat \subseteq S
  <2> HIDE DEF S
  <2> QED BY <1>1, <1>2, NumberInduction
<1> QED BY <1>3

(* The recursive definition of BlockSize defines a function.                 *)
LEMMA BlockSizeDef ==
  BlockSize = [n \in Nat |-> IF n = 0 THEN 1 ELSE 2 * BlockSize[n - 1]]
<1> DEFINE T(n) == CHOOSE g : Table(g, n)
           F == [n \in Nat |-> T(n)[n]]
<1>1. \A n \in Nat : Table(T(n), n)
  BY TableExists
<1>2. F[0] = 1
  BY <1>1 DEF Table
<1>3. ASSUME NEW n \in Nat, n # 0
      PROVE  F[n] = 2 * F[n - 1]
  <2>1. n - 1 \in Nat /\ n - 1 <= n /\ (n - 1) \in 0 .. (n - 1) /\ (n - 1) + 1 = n
    BY <1>3
  <2>2. Table(T(n - 1), n - 1) /\ Table(T(n), n)
    BY <1>1, <2>1
  <2> HIDE DEF T
  <2>3. T(n - 1)[n - 1] = T(n)[n - 1]
    BY <2>1, <2>2, TableUnique
  <2>4. T(n)[n] = 2 * T(n)[n - 1]
    BY <2>1, <2>2 DEF Table
  <2> QED BY <2>1, <2>3, <2>4
<1>4. F = [n \in Nat |-> IF n = 0 THEN 1 ELSE 2 * F[n - 1]]
  <2> HIDE DEF T
  <2> DEFINE G == [n \in Nat |-> IF n = 0 THEN 1 ELSE 2 * F[n - 1]]
  <2>1. \A n \in Nat : F[n] = G[n]
    <3> HIDE DEF F
    <3> QED BY <1>2, <1>3
  <2> QED BY <2>1
<1> HIDE DEF F
<1> QED BY <1>4 DEF BlockSize

(* Blocks are not empty and each is two of the next smaller ones.            *)
LEMMA BlockSizes ==
  /\ BlockSize[0] = 1
  /\ \A n \in Nat : BlockSize[n] \in Nat \ {0}
  /\ \A n \in Nat : BlockSize[n + 1] = 2 * BlockSize[n]
<1>1. BlockSize[0] = 1
  BY BlockSizeDef
<1>2. \A n \in Nat : BlockSize[n + 1] = 2 * BlockSize[n]
  BY BlockSizeDef
<1> DEFINE S == {n \in Nat : BlockSize[n] \in Nat \ {0}}
<1>3. 0 \in S BY <1>1
<1>4. \A n \in Nat : n \in S => n + 1 \in S
  <2> SUFFICES ASSUME NEW n \in Nat, BlockSize[n] \in Nat \ {0}
               PROVE  BlockSize[n + 1] \in Nat \ {0}
    OBVIOUS
  <2> QED BY <1>2
<1>5. Nat \subseteq S
  <2> HIDE DEF S
  <2> QED BY <1>3, <1>4, NumberInduction
<1> QED BY <1>1, <1>2, <1>5

(* A multiple leaves no remainder ...                                        *)
LEMMA Multiple ==
  ASSUME NEW v \in Nat, NEW d \in Nat \ {0}, NEW q \in Nat, v = q * d
  PROVE  v % d = 0
  OBVIOUS

(* ... and what leaves no remainder is a multiple.                           *)
LEMMA Quotient ==
  ASSUME NEW v \in Nat, NEW d \in Nat \ {0}, v % d = 0
  PROVE  v \div d \in Nat /\ v = d * (v \div d)
  OBVIOUS

(* What a number divides, its half divides.                                  *)
LEMMA HalfDivides ==
  ASSUME NEW v \in Nat, NEW d \in Nat \ {0}, v % (2 * d) = 0
  PROVE  v % d = 0
<1> DEFINE e == 2 * d
           q == v \div e
<1>1. e \in Nat \ {0} /\ v % e = 0
  OBVIOUS
<1>2. q \in Nat /\ v = e * q
  <2> HIDE DEF e
  <2> QED BY <1>1, Quotient
<1>3. 2 * q \in Nat /\ v = (2 * q) * d
  <2> HIDE DEF q
  <2> QED BY <1>2
<1> QED
  <2> DEFINE p == 2 * q
  <2>1. p \in Nat /\ v = p * d BY <1>3
  <2> HIDE DEF p
  <2> QED BY <2>1, Multiple

(* A block that begins at an address does so for every smaller size.         *)
LEMMA SmallerBlocks ==
  ASSUME NEW v \in Nat, NEW k \in Nat, NEW j \in Nat, k <= j,
         v % BlockSize[j] = 0
  PROVE  v % BlockSize[k] = 0
<1> DEFINE S == {i \in Nat : v % BlockSize[k + i] = 0 => v % BlockSize[k] = 0}
<1>1. 0 \in S OBVIOUS
<1>2. \A i \in Nat : i \in S => i + 1 \in S
  <2> SUFFICES ASSUME NEW i \in Nat, v % BlockSize[k + (i + 1)] = 0
               PROVE  v % BlockSize[k + i] = 0
    OBVIOUS
  <2>1. k + i \in Nat /\ k + (i + 1) = (k + i) + 1
    OBVIOUS
  <2>2. BlockSize[k + (i + 1)] = 2 * BlockSize[k + i]
        /\ BlockSize[k + i] \in Nat \ {0}
    BY <2>1, BlockSizes
  <2> QED BY <2>2, HalfDivides
<1>3. Nat \subseteq S
  <2> HIDE DEF S
  <2> QED BY <1>1, <1>2, NumberInduction
<1>4. j - k \in Nat /\ k + (j - k) = j
  OBVIOUS
<1>5. j - k \in S
  BY <1>3, <1>4
<1> QED BY <1>4, <1>5

-----------------------------------------------------------------------------
(* Networks *)

(* The host bits of the masks of an address.                                 *)
LEMMA HostBits ==
  ASSUME NEW a \in Address
  PROVE  /\ Value(a) \in Nat /\ MaxMask(a) \in Nat
         /\ \A m \in 0 .. MaxMask(a) :
              /\ MaxMask(a) - m \in Nat
              /\ BlockSize[MaxMask(a) - m] \in Nat \ {0}
         /\ BlockSize[MaxMask(a) - MaxMask(a)] = 1
<1>1. Value(a) \in Nat /\ MaxMask(a) \in Nat
  BY LastAssumption, MaskAssumption DEF Address, Value, MaxMask, IsIpv4
<1>2. \A m \in 0 .. MaxMask(a) : MaxMask(a) - m \in Nat
  BY <1>1
<1>3. MaxMask(a) - MaxMask(a) = 0
  BY <1>1
<1> QED BY <1>1, <1>2, <1>3, BlockSizes

(* A network begins at an address when nothing remains in its host bits.     *)
LEMMA BeginsAt ==
  ASSUME NEW a \in Address, NEW m \in 0 .. MaxMask(a)
  PROVE  FirstIpForMask(a, m) = a <=> Value(a) % BlockSize[MaxMask(a) - m] = 0
<1> DEFINE d == BlockSize[MaxMask(a) - m]
           v == Value(a)
<1>1. d \in Nat \ {0} /\ v \in Nat /\ a \in Int
  BY HostBits, LastAssumption DEF Address
<1>2. FirstIpForMask(a, m) = a - (v % d)
  BY DEF FirstIpForMask
<1> HIDE DEF d, v
<1>3. v % d \in Int
  BY <1>1
<1>4. a - (v % d) = a <=> v % d = 0
  <2> DEFINE x == v % d
  <2>1. x \in Int BY <1>3
  <2> HIDE DEF x
  <2>2. a - x = a <=> x = 0 BY <1>1, <2>1
  <2> QED BY <2>2 DEF x
<1>5. FirstIpForMask(a, m) = a <=> v % d = 0
  BY <1>2, <1>4
<1> QED BY <1>5 DEF v, d

(* getPossibleMaxMask() finds a prefix, and at every longer one a network    *)
(* begins at the address as well.                                            *)
LEMMA PossibleMask ==
  ASSUME NEW a \in Address
  PROVE  /\ GetPossibleMaxMask(a) \in 0 .. MaxMask(a)
         /\ \A m \in GetPossibleMaxMask(a) .. MaxMask(a) : FirstIpForMask(a, m) = a
<1> DEFINE T == {m \in 0 .. MaxMask(a) : FirstIpForMask(a, m) = a}
<1>1. MaxMask(a) \in T
  <2>1. MaxMask(a) \in 0 .. MaxMask(a)
    BY HostBits
  <2>2. Value(a) % BlockSize[MaxMask(a) - MaxMask(a)] = 0
    BY HostBits
  <2> QED BY <2>1, <2>2, BeginsAt
<1>2. PICK x \in T : \A y \in T : x <= y
  <2>1. T \in SUBSET Nat /\ T # {}
    BY <1>1, HostBits
  <2> HIDE DEF T
  <2> QED BY <2>1, SmallestNumber
<1>3. \A n \in 0 .. (x - 1) : FirstIpForMask(a, n) # a
  BY <1>2, HostBits
<1>4. /\ GetPossibleMaxMask(a) \in 0 .. MaxMask(a)
      /\ FirstIpForMask(a, GetPossibleMaxMask(a)) = a
  BY <1>2, <1>3 DEF GetPossibleMaxMask
<1> DEFINE p == GetPossibleMaxMask(a)
<1> HIDE DEF p
<1>5. ASSUME NEW m \in p .. MaxMask(a)
      PROVE  FirstIpForMask(a, m) = a
  <2>1. /\ p \in 0 .. MaxMask(a) /\ m \in 0 .. MaxMask(a)
        /\ MaxMask(a) - m \in Nat /\ MaxMask(a) - p \in Nat
        /\ MaxMask(a) - m <= MaxMask(a) - p /\ Value(a) \in Nat
    BY <1>4, HostBits DEF p
  <2>2. Value(a) % BlockSize[MaxMask(a) - p] = 0
    BY <1>4, <2>1, BeginsAt DEF p
  <2>3. Value(a) % BlockSize[MaxMask(a) - m] = 0
    BY <2>1, <2>2, SmallerBlocks
  <2> QED BY <2>1, <2>3, BeginsAt
<1> QED BY <1>4, <1>5 DEF p

(* The network that subnets() cuts off is a network of the family, begins at *)
(* the start of the range and ends inside it.                                *)
LEMMA FirstSubnetFits ==
  ASSUME NEW r \in IpRange
  PROVE  LET net == FirstSubnet(r)
         IN  /\ net \in InetNetworks
             /\ net.address = r.start
             /\ FirstIpForMask(net.address, net.mask) = r.start
             /\ GetLastIpForMask(net.address, net.mask) \in r.start .. r.end
<1> DEFINE a == r.start
           possible == GetPossibleMaxMask(a)
           fits(m) == GetLastIpForMask(a, m) <= r.end
           T == {m \in possible .. MaxMask(a) : fits(m)}
           mask == CHOOSE m \in possible .. MaxMask(a) :
                     fits(m) /\ \A n \in possible .. (m - 1) : ~fits(n)
<1>1. /\ a \in Address /\ a \in Int /\ r.end \in Int /\ a <= r.end
      /\ MaxMask(a) \in Nat
  BY HostBits, LastAssumption DEF IpRange, Address
<1>2. /\ possible \in 0 .. MaxMask(a)
      /\ \A m \in possible .. MaxMask(a) :
           m \in 0 .. MaxMask(a) /\ FirstIpForMask(a, m) = a
  BY <1>1, PossibleMask
<1>3. \A m \in possible .. MaxMask(a) :
        /\ GetLastIpForMask(a, m) = a + BlockSize[MaxMask(a) - m] - 1
        /\ BlockSize[MaxMask(a) - m] \in Nat \ {0}
  BY <1>1, <1>2, HostBits DEF GetLastIpForMask
<1>4. MaxMask(a) \in T
  <2>1. MaxMask(a) \in possible .. MaxMask(a)
    BY <1>1, <1>2
  <2>2. GetLastIpForMask(a, MaxMask(a)) = a
    BY <1>1, <1>3, <2>1, HostBits
  <2> QED BY <1>1, <2>1, <2>2
<1>5. PICK x \in T : \A y \in T : x <= y
  <2>1. T \in SUBSET Nat /\ T # {}
    BY <1>1, <1>2, <1>4
  <2> HIDE DEF T
  <2> QED BY <2>1, SmallestNumber
<1>6. x \in possible .. MaxMask(a) /\ fits(x)
      /\ \A n \in possible .. (x - 1) : ~fits(n)
  BY <1>1, <1>2, <1>5
<1>7. mask \in possible .. MaxMask(a) /\ fits(mask)
  <2> HIDE DEF possible, fits
  <2> QED BY <1>6
<1>8. FirstSubnet(r) = [address |-> a, mask |-> mask]
  BY DEF FirstSubnet
<1> HIDE DEF mask
<1>9. FirstSubnet(r) \in InetNetworks
  BY <1>1, <1>2, <1>7, <1>8 DEF InetNetworks
<1>10. FirstIpForMask(a, mask) = a
  BY <1>2, <1>7
<1>11. GetLastIpForMask(a, mask) \in a .. r.end
  <2>1. GetLastIpForMask(a, mask) \in Int /\ GetLastIpForMask(a, mask) >= a
    BY <1>1, <1>3, <1>7
  <2> QED BY <1>1, <1>7, <2>1
<1> QED BY <1>8, <1>9, <1>10, <1>11

-----------------------------------------------------------------------------
(* Lemmas about IpRange *)

(* The sum of two ranges that touch is a range of one family that holds      *)
(* exactly the addresses of both.                                            *)
LEMMA PlusIsUnion ==
  ASSUME NEW r \in IpRange, NEW o \in IpRange, ~PlusIsNull(r, o)
  PROVE  /\ Plus(r, o) \in IpRange
         /\ \A a \in Address :
              (Plus(r, o).start <= a /\ a <= Plus(r, o).end)
                <=> (r.start <= a /\ a <= r.end) \/ (o.start <= a /\ a <= o.end)
  BY LastAssumption
  DEF IpRange, Address, PlusIsNull, Plus, Follows, Precedes, IsIntersect,
      IsMinIp, IsMaxIp, MinIps, MaxIps, IsIpv4, MinOf, MaxOf

(* Ranges that cannot be added to each other are apart.                      *)
LEMMA NullIsApart ==
  ASSUME NEW r \in IpRange, NEW o \in IpRange, PlusIsNull(r, o)
  PROVE  Apart(r, o)
  BY LastAssumption
  DEF IpRange, Address, PlusIsNull, Follows, Precedes, IsIntersect, Apart,
      IsMinIp, IsMaxIp, MinIps, MaxIps, IsIpv4

(* What is apart from two ranges is apart from their sum.                    *)
LEMMA ApartFromSum ==
  ASSUME NEW r \in IpRange, NEW o \in IpRange, NEW q \in IpRange,
         ~PlusIsNull(r, o), Apart(q, r), Apart(q, o)
  PROVE  Apart(q, Plus(r, o))
  BY LastAssumption
  DEF IpRange, Address, PlusIsNull, Plus, Follows, Precedes, IsIntersect,
      Apart, IsMinIp, IsMaxIp, MinIps, MaxIps, IsIpv4, MinOf, MaxOf

LEMMA ApartIsSymmetric ==
  ASSUME NEW r \in IpRange, NEW o \in IpRange, Apart(r, o)
  PROVE  Apart(o, r)
  BY DEF Apart

(* A range behind the first one that is beyond the range to add is apart.    *)
LEMMA BeyondIsApart ==
  ASSUME NEW r \in IpRange, NEW cur \in IpRange, NEW o \in IpRange,
         Beyond(r, cur), CompareLE(cur, o)
  PROVE  Apart(r, o)
  BY LastAssumption DEF IpRange, Address, Beyond, CompareLE, Apart

(* The pieces that minus() leaves are ranges of one family, apart from each  *)
(* other, free of the removed range, and with it hold the whole.             *)
LEMMA MinusPieces ==
  ASSUME NEW r \in IpRange, NEW o \in IpRange, ~MinusIsNull(r, o)
  PROVE  /\ Minus(r, o) \subseteq IpRange
         /\ AllApart(Minus(r, o))
         /\ \A p \in Minus(r, o) : /\ ~IsIntersect(p, o)
                                   /\ r.start <= p.start /\ p.end <= r.end
         /\ \A a \in Address :
              (\E p \in Minus(r, o) : p.start <= a /\ a <= p.end)
                <=> (r.start <= a /\ a <= r.end) /\ ~(o.start <= a /\ a <= o.end)
<1>1. CASE Contains(o, r)
  BY <1>1 DEF Minus, AllApart, Contains, IpRange, Address
<1>2. CASE ~Contains(o, r)
  <2> DEFINE L == Range(r.start, o.start - 1)
             H == Range(o.end + 1, r.end)
  <2>1. IsIntersect(r, o)
    BY <1>2 DEF MinusIsNull
  <2>2. \A p : p \in Minus(r, o) <=> (p = L /\ r.start < o.start)
                                       \/ (p = H /\ r.end > o.end)
    BY <1>2 DEF Minus
  <2>3. r.start < o.start => L \in IpRange
    BY <2>1, LastAssumption DEF IpRange, Address, IsIntersect, IsIpv4
  <2>4. r.end > o.end => H \in IpRange
    BY <2>1, LastAssumption DEF IpRange, Address, IsIntersect, IsIpv4
  <2>5. r.start < o.start /\ r.end > o.end => Apart(L, H) /\ Apart(H, L)
    BY LastAssumption DEF IpRange, Address, Apart
  <2>6. AllApart(Minus(r, o))
    BY <2>2, <2>5 DEF AllApart
  <2>7. r.start < o.start =>
          ~IsIntersect(L, o) /\ r.start <= L.start /\ L.end <= r.end
    BY <2>1 DEF IpRange, Address, IsIntersect
  <2>8. r.end > o.end =>
          ~IsIntersect(H, o) /\ r.start <= H.start /\ H.end <= r.end
    BY <2>1 DEF IpRange, Address, IsIntersect
  <2>9. \A a \in Address :
          (\E p \in Minus(r, o) : p.start <= a /\ a <= p.end)
            <=> (r.start <= a /\ a <= r.end) /\ ~(o.start <= a /\ a <= o.end)
    <3>1. TAKE a \in Address
    <3>2. /\ L.start = r.start /\ L.end = o.start - 1
          /\ H.start = o.end + 1 /\ H.end = r.end
      OBVIOUS
    <3> HIDE DEF L, H
    <3>3. (\E p \in Minus(r, o) : p.start <= a /\ a <= p.end)
            <=> \/ r.start < o.start /\ L.start <= a /\ a <= L.end
                \/ r.end > o.end /\ H.start <= a /\ a <= H.end
      BY <2>2
    <3> QED BY <3>2, <3>3, <2>1 DEF IpRange, Address, IsIntersect
  <2> QED BY <2>2, <2>3, <2>4, <2>6, <2>7, <2>8, <2>9
<1> QED BY <1>1, <1>2

-----------------------------------------------------------------------------
(* The invariant *)

(* The empty set satisfies the invariant.                                    *)
LEMMA InitRangeInv == Init => RangeInv
  BY DEF Init, RangeInv, RangesOK, AllApart, PassedApart, PassedFree,
         PiecesFree, PiecesOnlyInRemove

(* A part of a range is apart from what the range is apart from.             *)
LEMMA PartIsApart ==
  ASSUME NEW r \in IpRange, NEW p \in IpRange, NEW o \in IpRange,
         r.start <= p.start, p.end <= r.end, Apart(r, o)
  PROVE  Apart(p, o)
  BY LastAssumption DEF IpRange, Address, Apart, IsMaxIp, MaxIps, IsIpv4

(* Leaving a method with a set of ranges that are apart.                     *)
LEMMA ReturnRangeInv ==
  ASSUME NEW R, Return(R), R \subseteq IpRange, AllApart(R)
  PROVE  RangeInv'
  BY DEF Return, RangeInv, RangesOK, AllApart, PassedApart, PassedFree,
         PiecesFree, PiecesOnlyInRemove

(* Calling a method.                                                         *)
LEMMA CallRangeInv ==
  ASSUME RangeInv, NEW method \in {"add", "remove", "subnets"}, NEW r, NEW rest,
         Call(method, r, rest), rest \subseteq ranges,
         method # "subnets" => r \in IpRange /\ rest = ranges
  PROVE  RangeInv'
<1> USE DEF Call
<1>1. split = {} BY DEF RangeInv, PiecesOnlyInRemove
<1>2. RangesOK' BY <1>1 DEF RangeInv, RangesOK
<1>3. AllApart(ranges \cup split)' BY DEF RangeInv
<1>4. PassedApart' BY DEF PassedApart
<1>5. PassedFree' BY DEF PassedFree
<1>6. PiecesFree' /\ PiecesOnlyInRemove'
  BY <1>1 DEF PiecesFree, PiecesOnlyInRemove
<1> QED BY <1>2, <1>3, <1>4, <1>5, <1>6 DEF RangeInv

(* An iteration of add().                                                    *)
LEMMA AddLoopRangeInv ==
  ASSUME RangeInv, NEW cur \in todo, AddLoop(cur)
  PROVE  RangeInv'
<1>1. /\ pc = "add" /\ IsNext(cur, todo) /\ cur \in ranges /\ cur \in IpRange
      /\ arg \in IpRange /\ split = {} /\ ranges \subseteq IpRange
      /\ todo \subseteq ranges
  BY DEF AddLoop, RangeInv, RangesOK, PiecesOnlyInRemove
<1>2. AllApart(ranges)
  BY <1>1 DEF RangeInv, AllApart
<1>3. \A r \in ranges \ todo : Apart(r, arg)
  BY <1>1 DEF RangeInv, PassedApart
<1>4. CASE Beyond(arg, cur) /\ Return(ranges \cup {arg})
  <2>1. \A r \in todo : Apart(arg, r)
    BY <1>1, <1>4, BeyondIsApart DEF IsNext
  <2>2. \A r \in ranges : Apart(arg, r) /\ Apart(r, arg)
    BY <1>1, <1>3, <2>1, ApartIsSymmetric
  <2>3. AllApart(ranges \cup {arg})
    BY <1>2, <2>2 DEF AllApart
  <2> QED BY <1>1, <1>4, <2>3, ReturnRangeInv
<1>5. CASE /\ PlusIsNull(cur, arg)
           /\ todo' = todo \ {cur}
           /\ UNCHANGED <<ranges, pc, arg, split, nets>>
  <2>1. Apart(cur, arg) BY <1>1, <1>5, NullIsApart
  <2>2. PassedApart' BY <1>3, <1>5, <2>1 DEF PassedApart
  <2> QED
    BY <1>1, <1>5, <2>2
    DEF RangeInv, RangesOK, PassedFree, PiecesFree, PiecesOnlyInRemove
<1>6. CASE Return(ranges)
  BY <1>1, <1>2, <1>6, ReturnRangeInv
<1>7. CASE /\ ~PlusIsNull(cur, arg)
           /\ ranges' = ranges \ {cur} /\ todo' = todo \ {cur}
           /\ arg' = Plus(cur, arg)
           /\ UNCHANGED <<pc, split, nets>>
  <2>1. arg' \in IpRange BY <1>1, <1>7, PlusIsUnion
  <2>2. \A r \in ranges' \ todo' : Apart(r, cur) /\ Apart(r, arg)
    BY <1>1, <1>2, <1>3, <1>7 DEF AllApart
  <2>3. PassedApart' BY <1>1, <1>7, <2>2, ApartFromSum DEF PassedApart
  <2>4. AllApart(ranges \cup split)' BY <1>1, <1>2, <1>7 DEF AllApart
  <2>5. RangesOK' BY <1>1, <1>7, <2>1 DEF RangesOK
  <2> QED
    BY <1>1, <1>7, <2>3, <2>4, <2>5
    DEF RangeInv, PassedFree, PiecesFree, PiecesOnlyInRemove
<1> QED BY <1>4, <1>5, <1>6, <1>7 DEF AddLoop

(* An iteration of remove().                                                 *)
LEMMA RemoveLoopRangeInv ==
  ASSUME RangeInv, NEW cur \in todo, RemoveLoop(cur)
  PROVE  RangeInv'
<1>1. /\ pc = "remove" /\ cur \in ranges /\ cur \in IpRange
      /\ arg \in IpRange /\ ranges \subseteq IpRange /\ split \subseteq IpRange
      /\ todo \subseteq ranges
  BY DEF RemoveLoop, RangeInv, RangesOK
<1>2. AllApart(ranges \cup split)
  BY DEF RangeInv
<1>3. CASE Return(ranges \cup split)
  BY <1>1, <1>2, <1>3, ReturnRangeInv
<1>4. CASE /\ MinusIsNull(cur, arg)
           /\ todo' = todo \ {cur}
           /\ UNCHANGED <<ranges, pc, arg, split, nets>>
  <2>1. PassedFree'
    BY <1>1, <1>4 DEF PassedFree, RangeInv, MinusIsNull
  <2> QED
    BY <1>1, <1>4, <2>1
    DEF RangeInv, RangesOK, PassedApart, PiecesFree, PiecesOnlyInRemove
<1>5. CASE /\ ~MinusIsNull(cur, arg)
           /\ ranges' = ranges \ {cur} /\ todo' = todo \ {cur}
           /\ split' = split \cup Minus(cur, arg)
           /\ UNCHANGED <<pc, arg, nets>>
  <2>1. /\ Minus(cur, arg) \subseteq IpRange
        /\ AllApart(Minus(cur, arg))
        /\ \A p \in Minus(cur, arg) : /\ ~IsIntersect(p, arg)
                                       /\ cur.start <= p.start /\ p.end <= cur.end
    BY <1>1, <1>5, MinusPieces
  <2>2. \A o \in (ranges \cup split) \ {cur} : Apart(cur, o)
    BY <1>1, <1>2 DEF AllApart
  <2>3. \A p \in Minus(cur, arg), o \in (ranges \cup split) \ {cur} :
          Apart(p, o) /\ Apart(o, p)
    BY <1>1, <2>1, <2>2, PartIsApart, ApartIsSymmetric
  <2>4. cur \notin split
    BY <1>1, <1>5 DEF RangeInv, PiecesFree, MinusIsNull, Contains, IsIntersect,
                      IpRange, Address
  <2>5. AllApart(ranges' \cup split')
    <3> SUFFICES ASSUME NEW r \in ranges' \cup split', NEW o \in ranges' \cup split'
                 PROVE  r = o \/ Apart(r, o)
      BY DEF AllApart
    <3>1. r \in Minus(cur, arg) \/ r \in (ranges \cup split) \ {cur} BY <1>5, <2>4
    <3>2. o \in Minus(cur, arg) \/ o \in (ranges \cup split) \ {cur} BY <1>5, <2>4
    <3> QED BY <3>1, <3>2, <1>2, <2>1, <2>3 DEF AllApart
  <2>6. RangesOK' BY <1>1, <1>5, <2>1 DEF RangesOK
  <2>7. PassedFree' BY <1>1, <1>5 DEF PassedFree, RangeInv
  <2>8. PiecesFree' BY <1>1, <1>5, <2>1 DEF PiecesFree, RangeInv
  <2> QED
    BY <1>1, <1>5, <2>5, <2>6, <2>7, <2>8
    DEF RangeInv, PassedApart, PiecesOnlyInRemove
<1> QED BY <1>3, <1>4, <1>5 DEF RemoveLoop

(* Every step keeps the invariant.                                           *)
LEMMA NextRangeInv == RangeInv /\ [Next]_vars => RangeInv'
<1> SUFFICES ASSUME RangeInv, [Next]_vars PROVE RangeInv'
  OBVIOUS
<1>1. ASSUME NEW r \in Inputs, AddCall(r) \/ RemoveCall(r) PROVE RangeInv'
  BY <1>1, CallRangeInv, InputsAssumption DEF AddCall, RemoveCall
<1>2. ASSUME NEW cur \in todo, AddLoop(cur) \/ RemoveLoop(cur) PROVE RangeInv'
  BY <1>2, AddLoopRangeInv, RemoveLoopRangeInv
<1>3. CASE AddEnd
  <2>1. /\ ranges \cup {arg} \subseteq IpRange /\ Return(ranges \cup {arg})
        /\ \A r \in ranges : Apart(r, arg)
    BY <1>3 DEF AddEnd, RangeInv, RangesOK, PassedApart
  <2>2. \A r \in ranges : Apart(arg, r)
    BY <2>1, ApartIsSymmetric
  <2>3. AllApart(ranges \cup {arg})
    BY <2>1, <2>2 DEF RangeInv, AllApart
  <2> QED BY <2>1, <2>3, ReturnRangeInv
<1>4. CASE RemoveEnd
  <2>1. ranges \cup split \subseteq IpRange /\ AllApart(ranges \cup split)
    BY DEF RangeInv, RangesOK
  <2> QED BY <1>4, <2>1, ReturnRangeInv DEF RemoveEnd
<1>5. ASSUME NEW r \in ranges, SubnetsCall(r) PROVE RangeInv'
  BY <1>5, CallRangeInv DEF SubnetsCall
<1>6. CASE SubnetsLoop
  <2>1. /\ pc = "subnets" /\ pc' \in {"subnets", "idle"}
        /\ UNCHANGED <<ranges, split>> /\ todo' \subseteq todo
    BY <1>6 DEF SubnetsLoop
  <2> QED
    BY <2>1 DEF RangeInv, RangesOK, PassedApart, PassedFree, PiecesFree,
                PiecesOnlyInRemove, AllApart
<1>7. CASE UNCHANGED vars
  BY <1>7 DEF vars, RangeInv, RangesOK, PassedApart, PassedFree, PiecesFree,
              PiecesOnlyInRemove, AllApart
<1> QED BY <1>1, <1>2, <1>3, <1>4, <1>5, <1>6, <1>7 DEF Next

(* The invariant holds in every state that the set can reach.                *)
THEOREM RangeInvariant == Spec => []RangeInv
  BY InitRangeInv, NextRangeInv, PTL DEF Spec

(* Between calls no two ranges overlap or lie side by side, for address      *)
(* families of every size: what add() merges and where its loop stops.       *)
THEOREM NormalForm == Spec => []Separated
<1>1. RangeInv => Separated
  BY DEF RangeInv, AllApart, Separated
<1> QED BY <1>1, RangeInvariant, PTL

-----------------------------------------------------------------------------
(* The networks of the set *)

(* Ranges that are apart share no address.                                   *)
LEMMA ApartIsFree ==
  ASSUME NEW r \in IpRange, NEW o \in IpRange, Apart(r, o)
  PROVE  ~IsIntersect(r, o)
  BY LastAssumption DEF IpRange, Address, Apart, IsIntersect

(* The ends of a network are numbers.                                        *)
LEMMA NetworkRange ==
  ASSUME NEW n \in InetNetworks
  PROVE  From(n).start \in Int /\ From(n).end \in Int
<1>1. PICK a \in Address : n \in [address : {a}, mask : 0 .. MaxMask(a)]
  BY DEF InetNetworks
<1>2. n.address = a /\ n.mask \in 0 .. MaxMask(a)
  BY <1>1
<1>3. BlockSize[MaxMask(a) - n.mask] \in Nat \ {0} /\ Value(a) \in Nat
  BY <1>2, HostBits
<1>4. FirstIpForMask(a, n.mask) \in Int
  BY <1>3, LastAssumption DEF FirstIpForMask, Address
<1>5. GetLastIpForMask(a, n.mask) \in Int
  BY <1>3, <1>4 DEF GetLastIpForMask
<1> QED BY <1>2, <1>4, <1>5 DEF From

(* Nothing has been cut up in the empty set.                                 *)
LEMMA InitCutInv == Init => CutInv
<1>1. NoRange \in IpRange /\ {} \subseteq InetNetworks
  BY LastAssumption DEF NoRange, IpRange, Address, IsIpv4
<1> QED BY <1>1 DEF Init, CutInv, NetsOK, NetsApart, RestApart, CutExact

(* Outside of subnets() only the types matter.                               *)
LEMMA OtherCutInv ==
  ASSUME CutInv, arg' \in IpRange, nets' = nets \/ nets' = {}, pc' # "subnets"
  PROVE  CutInv'
  BY DEF CutInv, NetsOK, NetsApart, RestApart, CutExact

(* subnets() begins with the first range of the set.                         *)
LEMMA SubnetsCallCutInv ==
  ASSUME RangeInv, CutInv, NEW r \in ranges, SubnetsCall(r)
  PROVE  CutInv'
<1>1. /\ pc' = "subnets" /\ todo' = ranges \ {r} /\ arg' = r /\ nets' = {}
      /\ ranges' = ranges /\ r \in IpRange /\ ranges \subseteq IpRange
  BY DEF SubnetsCall, Call, RangeInv, RangesOK
<1>2. \A o \in ranges \ {r} : ~IsIntersect(r, o)
  <2> SUFFICES ASSUME NEW o \in ranges, o # r PROVE ~IsIntersect(r, o)
    OBVIOUS
  <2>1. Apart(r, o) /\ o \in IpRange
    BY <1>1 DEF RangeInv, AllApart
  <2> QED BY <1>1, <2>1, ApartIsFree
<1>3. NetsOK' BY <1>1 DEF NetsOK
<1>4. NetsApart' BY <1>1 DEF NetsApart
<1>5. RestApart' BY <1>1, <1>2 DEF RestApart
<1>6. CutExact'
  <2>1. Cut' = {} BY <1>1 DEF Cut
  <2>2. (Cut \cup {arg} \cup todo)' = ranges
    BY <1>1, <2>1
  <2>3. Addresses(Cut \cup {arg} \cup todo)' = Addresses(ranges)
    BY <2>2 DEF Addresses
  <2>4. Addresses(ranges)' = Addresses(ranges)
    BY <1>1 DEF Addresses
  <2> QED BY <2>3, <2>4 DEF CutExact
<1> QED BY <1>3, <1>4, <1>5, <1>6 DEF CutInv

(* What subnets() cuts off the rest of a range in one iteration: the network *)
(* holds the front of the rest and nothing else, and when the loop goes on   *)
(* the new rest is a range that holds the other addresses.                   *)
LEMMA CutsOff ==
  ASSUME NEW r \in IpRange
  PROVE  LET net == FirstSubnet(r)
             last == GetLastIpForMask(net.address, net.mask)
             more == ~IsMaxIp(last) /\ last + 1 <= r.end
         IN  /\ net \in InetNetworks
             /\ From(net) = Range(r.start, last)
             /\ last \in Int /\ r.start <= last /\ last <= r.end
             /\ more => Range(last + 1, r.end) \in IpRange
             /\ ~more => last = r.end
<1> DEFINE net == FirstSubnet(r)
           last == GetLastIpForMask(net.address, net.mask)
<1>1. /\ net \in InetNetworks
      /\ FirstIpForMask(net.address, net.mask) = r.start
      /\ last \in r.start .. r.end
  BY FirstSubnetFits
<1>2. From(net) = Range(r.start, last)
  BY <1>1 DEF From
<1> HIDE DEF net, last
<1>3. last \in Int /\ r.start <= last /\ last <= r.end
  BY <1>1 DEF IpRange, Address
<1>4. ~IsMaxIp(last) /\ last + 1 <= r.end => Range(last + 1, r.end) \in IpRange
  BY <1>3, LastAssumption DEF IpRange, Address, IsMaxIp, MaxIps, IsIpv4
<1>5. ~(~IsMaxIp(last) /\ last + 1 <= r.end) => last = r.end
  BY <1>3, LastAssumption DEF IpRange, Address, IsMaxIp, MaxIps, IsIpv4
<1> QED BY <1>1, <1>2, <1>3, <1>4, <1>5 DEF net, last

(* The networks after an iteration share no address.                         *)
LEMMA NewNetApart ==
  ASSUME CutInv, pc = "subnets", NEW net, NEW last \in Int,
         From(net) = Range(arg.start, last), arg.start <= last, last <= arg.end
  PROVE  \A n, m \in nets \cup {net} : n = m \/ ~IsIntersect(From(n), From(m))
<1>1. arg.start \in Int /\ arg.end \in Int
  BY LastAssumption DEF CutInv, NetsOK, IpRange, Address
<1>2. \A n, m \in nets : n = m \/ ~IsIntersect(From(n), From(m))
  BY DEF CutInv, NetsApart
<1>3. \A n \in nets : /\ ~IsIntersect(From(n), From(net))
                      /\ ~IsIntersect(From(net), From(n))
  <2> SUFFICES ASSUME NEW n \in nets
               PROVE  /\ ~IsIntersect(From(n), From(net))
                      /\ ~IsIntersect(From(net), From(n))
    OBVIOUS
  <2>1. ~IsIntersect(From(n), arg)
    BY DEF CutInv, RestApart
  <2>2. From(n).start \in Int /\ From(n).end \in Int
    BY NetworkRange DEF CutInv, NetsOK
  <2> DEFINE f == From(n)
  <2> HIDE DEF f
  <2>3. /\ ~IsIntersect(f, Range(arg.start, last))
        /\ ~IsIntersect(Range(arg.start, last), f)
    BY <1>1, <2>1, <2>2 DEF IsIntersect, f
  <2> QED BY <2>3 DEF f
<1> QED BY <1>2, <1>3

(* An iteration of subnets().                                                *)
LEMMA SubnetsLoopCut ==
  ASSUME RangeInv, CutInv, SubnetsLoop
  PROVE  /\ CutInv'
         /\ pc' = "idle" =>
              /\ Addresses({From(n) : n \in nets'}) = Addresses(ranges')
              /\ \A n, m \in nets' : n = m \/ ~IsIntersect(From(n), From(m))
<1> DEFINE net == FirstSubnet(arg)
           last == GetLastIpForMask(net.address, net.mask)
           more == ~IsMaxIp(last) /\ last + 1 <= arg.end
           first == Range(arg.start, last)
           rest == Range(last + 1, arg.end)
<1>1. /\ pc = "subnets" /\ nets' = nets \cup {net} /\ UNCHANGED <<ranges, split>>
      /\ \/ more /\ arg' = rest /\ UNCHANGED <<pc, todo>>
         \/ /\ ~more
            /\ \E r \in todo : arg' = r /\ todo' = todo \ {r}
            /\ UNCHANGED pc
         \/ ~more /\ todo = {} /\ pc' = "idle" /\ arg' = NoRange /\ UNCHANGED todo
  BY DEF SubnetsLoop
<1>2. /\ arg \in IpRange /\ arg.start \in Int /\ arg.end \in Int
      /\ nets \subseteq InetNetworks
      /\ todo \subseteq IpRange /\ todo \subseteq ranges
  BY LastAssumption DEF CutInv, NetsOK, RangeInv, RangesOK, IpRange, Address
<1>3. /\ net \in InetNetworks /\ From(net) = first
      /\ last \in Int /\ arg.start <= last /\ last <= arg.end
      /\ more => rest \in IpRange
      /\ ~more => last = arg.end
  BY <1>2, CutsOff
<1> HIDE DEF net, last
<1>4. \A n, m \in nets' : n = m \/ ~IsIntersect(From(n), From(m))
  BY <1>1, <1>3, NewNetApart
<1>5. \A r \in todo \cup {arg}, n \in nets : ~IsIntersect(From(n), r)
  BY <1>1 DEF CutInv, RestApart
<1>6. \A r \in todo : ~IsIntersect(arg, r)
  BY <1>1 DEF CutInv, RestApart
<1>7. Cut' = Cut \cup {first}
  BY <1>1, <1>3 DEF Cut
<1>8. Addresses(Cut \cup {arg} \cup todo) = Addresses(ranges)
  BY <1>1 DEF CutInv, CutExact
<1>9. nets' \subseteq InetNetworks
  BY <1>1, <1>2, <1>3
<1>10. \A n \in nets : From(n).start \in Int /\ From(n).end \in Int
  BY <1>2, NetworkRange
<1>11. \A r \in todo : ~IsIntersect(first, r)
  BY <1>2, <1>3, <1>6 DEF IsIntersect, IpRange, Address
<1>12. Addresses(ranges)' = Addresses(ranges)
  BY <1>1 DEF Addresses
<1>13. CASE more /\ arg' = rest /\ UNCHANGED <<pc, todo>>
  <2>1. NetsOK' BY <1>3, <1>9, <1>13 DEF NetsOK
  <2>2. NetsApart' BY <1>4 DEF NetsApart, From, IsIntersect
  <2>3. ~IsIntersect(first, rest)
    BY <1>2, <1>3 DEF IsIntersect
  <2>4. \A n \in nets : ~IsIntersect(From(n), rest)
    BY <1>2, <1>3, <1>5, <1>10, <1>13 DEF IsIntersect
  <2>5. \A r \in todo : ~IsIntersect(rest, r)
    BY <1>2, <1>3, <1>6, <1>13 DEF IsIntersect, IpRange, Address
  <2>6. RestApart'
    BY <1>1, <1>3, <1>5, <1>11, <1>13, <2>3, <2>4, <2>5 DEF RestApart
  <2>7. Addresses(Cut' \cup {rest} \cup todo) = Addresses(Cut \cup {arg} \cup todo)
    <3>1. \A a \in Address : arg.start <= a /\ a <= arg.end
                               <=> \/ first.start <= a /\ a <= first.end
                                   \/ rest.start <= a /\ a <= rest.end
      BY <1>2, <1>3, <1>13, LastAssumption DEF Address
    <3> HIDE DEF first, rest
    <3> QED BY <1>7, <3>1 DEF Addresses
  <2>8. CutExact'
    BY <1>8, <1>12, <1>13, <2>7 DEF CutExact
  <2>9. pc' # "idle" BY <1>1, <1>13
  <2> QED BY <2>1, <2>2, <2>6, <2>8, <2>9 DEF CutInv
<1>14. ASSUME ~more PROVE first = arg
  BY <1>2, <1>3, <1>14 DEF IpRange
<1>15. CASE ~more /\ (\E r \in todo : arg' = r /\ todo' = todo \ {r}) /\ UNCHANGED pc
  <2>1. PICK r \in todo : arg' = r /\ todo' = todo \ {r} BY <1>15
  <2>2. NetsOK' BY <1>2, <1>9, <2>1 DEF NetsOK
  <2>3. NetsApart' BY <1>4 DEF NetsApart, From, IsIntersect
  <2>4. \A o \in todo' : ~IsIntersect(r, o)
    <3> SUFFICES ASSUME NEW o \in todo, o # r PROVE ~IsIntersect(r, o)
      BY <2>1
    <3>1. Apart(r, o)
      BY <1>2 DEF RangeInv, AllApart
    <3> QED BY <1>2, <3>1, ApartIsFree
  <2>5. RestApart'
    BY <1>1, <1>3, <1>5, <1>11, <2>1, <2>4 DEF RestApart
  <2>6. Cut' \cup {r} \cup (todo \ {r}) = Cut \cup {arg} \cup todo
    BY <1>7, <1>14, <1>15
  <2>7. CutExact'
    BY <1>8, <1>12, <2>1, <2>6 DEF CutExact
  <2>8. pc' # "idle" BY <1>1, <1>15
  <2> QED BY <2>2, <2>3, <2>5, <2>7, <2>8 DEF CutInv
<1>16. CASE ~more /\ todo = {} /\ pc' = "idle" /\ arg' = NoRange /\ UNCHANGED todo
  <2>1. NoRange \in IpRange
    BY LastAssumption DEF NoRange, IpRange, Address, IsIpv4
  <2>2. CutInv'
    BY <1>9, <1>16, <2>1 DEF CutInv, NetsOK, NetsApart, RestApart, CutExact
  <2>3. Cut' = Cut \cup {arg} \cup todo
    BY <1>7, <1>14, <1>16
  <2>4. Addresses(Cut') = Addresses(ranges')
    BY <1>1, <1>8, <2>3
  <2> QED BY <1>4, <2>2, <2>4 DEF Cut
<1> QED BY <1>1, <1>13, <1>15, <1>16

(* Every step keeps the invariant of subnets().                              *)
LEMMA NextCutInv == RangeInv /\ RangeInv' /\ CutInv /\ [Next]_vars => CutInv'
<1> SUFFICES ASSUME RangeInv, RangeInv', CutInv, [Next]_vars PROVE CutInv'
  OBVIOUS
<1> USE DEF NetsOK
<1>1. NoRange \in IpRange
  BY LastAssumption DEF NoRange, IpRange, Address, IsIpv4
<1>2. ASSUME NEW r \in Inputs, AddCall(r) \/ RemoveCall(r) PROVE CutInv'
  <2>1. arg' \in IpRange /\ nets' = {} /\ pc' # "subnets"
    BY <1>2, InputsAssumption DEF AddCall, RemoveCall, Call
  <2> QED BY <2>1, OtherCutInv
<1>3. ASSUME NEW cur \in todo, AddLoop(cur) \/ RemoveLoop(cur) PROVE CutInv'
  <2>1. pc' # "subnets" /\ nets' = nets
    BY <1>3 DEF AddLoop, RemoveLoop, Return
  <2>2. arg' \in IpRange
    BY <1>1, <1>3 DEF AddLoop, RemoveLoop, Return, RangeInv, RangesOK
  <2> QED BY <2>1, <2>2, OtherCutInv
<1>4. CASE AddEnd \/ RemoveEnd
  <2>1. pc' # "subnets" /\ nets' = nets /\ arg' \in IpRange
    BY <1>1, <1>4 DEF AddEnd, RemoveEnd, Return
  <2> QED BY <2>1, OtherCutInv
<1>5. ASSUME NEW r \in ranges, SubnetsCall(r) PROVE CutInv'
  BY <1>5, SubnetsCallCutInv
<1>6. CASE SubnetsLoop
  BY <1>6, SubnetsLoopCut
<1>7. CASE UNCHANGED vars
  BY <1>7 DEF vars, CutInv, NetsApart, RestApart, CutExact, Cut, From,
              IsIntersect, Addresses
<1> QED BY <1>2, <1>3, <1>4, <1>5, <1>6, <1>7 DEF Next

(* The invariant of subnets() holds in every state that the set can reach.   *)
THEOREM CutInvariant == Spec => []CutInv
<1>1. CutInv /\ [](RangeInv) /\ [][Next]_vars => []CutInv
  BY NextCutInv, PTL
<1> QED BY <1>1, InitCutInv, RangeInvariant, PTL DEF Spec

(* Every range and every network that the methods construct is well formed,  *)
(* at the border of the two families too.                                    *)
THEOREM TypeCorrect == Spec => []TypeOK
<1>1. RangeInv /\ CutInv => TypeOK
  BY DEF RangeInv, RangesOK, CutInv, NetsOK, TypeOK
<1> QED BY <1>1, RangeInvariant, CutInvariant, PTL

(* subnets() returns disjoint networks that hold exactly the addresses of    *)
(* the set, for families of every size: no mask is too short for the rest    *)
(* of the range and no address falls between two networks.                   *)
THEOREM SubnetsAreExact == Spec => SubnetsExact
<1>1. RangeInv /\ CutInv /\ [Next]_vars =>
        (pc = "subnets" /\ pc' = "idle" =>
           /\ Addresses({From(n) : n \in nets'}) = Addresses(ranges')
           /\ \A n, m \in nets' : n = m \/ ~IsIntersect(From(n), From(m)))
  <2> SUFFICES ASSUME RangeInv, CutInv, [Next]_vars, pc = "subnets", pc' = "idle"
               PROVE  /\ Addresses({From(n) : n \in nets'}) = Addresses(ranges')
                      /\ \A n, m \in nets' : n = m \/ ~IsIntersect(From(n), From(m))
    OBVIOUS
  <2>1. SubnetsLoop
    BY DEF Next, vars, AddCall, RemoveCall, SubnetsCall, Call, AddLoop,
           RemoveLoop, AddEnd, RemoveEnd
  <2> QED BY <2>1, SubnetsLoopCut
<1> QED BY <1>1, RangeInvariant, CutInvariant, PTL DEF Spec, SubnetsExact

-----------------------------------------------------------------------------
(* The refinement *)

(* The addresses of a range are addresses.                                   *)
LEMMA AddressesOfRange ==
  ASSUME NEW r \in IpRange
  PROVE  /\ AddressesOf(r) \subseteq Address
         /\ \A a \in Address : a \in AddressesOf(r) <=> r.start <= a /\ a <= r.end
  BY LastAssumption DEF IpRange, Address, AddressesOf

(* An iteration of add() keeps the denotation.                               *)
LEMMA AddLoopStutters ==
  ASSUME RangeInv, NEW cur \in todo, AddLoop(cur)
  PROVE  Denotation' = Denotation
<1>1. /\ pc = "add" /\ cur \in ranges /\ cur \in IpRange /\ arg \in IpRange
      /\ ranges \subseteq IpRange
  BY DEF AddLoop, RangeInv, RangesOK
<1>2. Denotation = Addresses(ranges) \cup AddressesOf(arg)
  BY <1>1 DEF Denotation
<1>3. CASE Return(ranges \cup {arg})
  <2>1. Denotation' = Addresses(ranges \cup {arg})
    BY <1>3 DEF Return, Denotation, Addresses
  <2> QED BY <1>1, <1>2, <2>1, AddressesOfRange DEF Addresses
<1>4. CASE todo' = todo \ {cur} /\ UNCHANGED <<ranges, pc, arg, split, nets>>
  BY <1>4 DEF Denotation, Addresses
<1>5. CASE ~PlusIsNull(cur, arg) /\ Plus(cur, arg) = cur /\ Return(ranges)
  <2>1. Denotation' = Addresses(ranges)
    BY <1>5 DEF Return, Denotation, Addresses
  <2>2. \A a \in Address : (arg.start <= a /\ a <= arg.end)
                             => (cur.start <= a /\ a <= cur.end)
    BY <1>1, <1>5, PlusIsUnion
  <2>3. AddressesOf(arg) \subseteq Addresses(ranges)
    BY <1>1, <2>2, AddressesOfRange DEF Addresses
  <2> QED BY <1>2, <2>1, <2>3
<1>6. CASE /\ ~PlusIsNull(cur, arg)
           /\ ranges' = ranges \ {cur} /\ arg' = Plus(cur, arg)
           /\ UNCHANGED <<pc, split, nets>>
  <2>1. Denotation' = Addresses(ranges \ {cur}) \cup AddressesOf(Plus(cur, arg))
    BY <1>1, <1>6 DEF Denotation, Addresses, AddressesOf
  <2>2. /\ Plus(cur, arg) \in IpRange
        /\ \A a \in Address :
             (Plus(cur, arg).start <= a /\ a <= Plus(cur, arg).end)
               <=> \/ cur.start <= a /\ a <= cur.end
                   \/ arg.start <= a /\ a <= arg.end
    BY <1>1, <1>6, PlusIsUnion
  <2>3. \A a \in Address : a \in AddressesOf(Plus(cur, arg))
                             <=> \/ cur.start <= a /\ a <= cur.end
                                 \/ a \in AddressesOf(arg)
    BY <1>1, <2>2, AddressesOfRange
  <2>4. \A a \in Address : a \in Addresses(ranges)
                             <=> \/ cur.start <= a /\ a <= cur.end
                                 \/ a \in Addresses(ranges \ {cur})
    BY <1>1 DEF Addresses
  <2>5. \A a \in Address : a \in Denotation' <=> a \in Denotation
    BY <1>2, <2>1, <2>3, <2>4
  <2>6. Denotation \subseteq Address /\ Denotation' \subseteq Address
    BY <1>1, <1>2, <2>1, <2>2, AddressesOfRange DEF Addresses
  <2> QED BY <2>5, <2>6
<1> QED BY <1>3, <1>4, <1>5, <1>6 DEF AddLoop

(* Nothing is taken away from ranges that do not meet the removed one.       *)
LEMMA RemovedIsFree ==
  ASSUME NEW R \in SUBSET IpRange, NEW S, NEW r \in IpRange,
         \A q \in R : ~IsIntersect(q, r)
  PROVE  (Addresses(R) \ AddressesOf(r)) \cup Addresses(S) = Addresses(R \cup S)
<1>1. \A a \in Addresses(R) : a \notin AddressesOf(r)
  BY AddressesOfRange DEF Addresses, IsIntersect, IpRange, Address
<1> QED BY <1>1 DEF Addresses

(* An iteration of remove() keeps the denotation.                            *)
LEMMA RemoveLoopStutters ==
  ASSUME RangeInv, NEW cur \in todo, RemoveLoop(cur)
  PROVE  Denotation' = Denotation
<1>1. /\ pc = "remove" /\ cur \in ranges /\ cur \in IpRange /\ arg \in IpRange
      /\ ranges \subseteq IpRange /\ todo \subseteq ranges
      /\ split \subseteq IpRange /\ IsNext(cur, todo)
  BY DEF RemoveLoop, RangeInv, RangesOK
<1>2. Denotation = (Addresses(ranges) \ AddressesOf(arg)) \cup Addresses(split)
  BY <1>1 DEF Denotation
<1>3. CASE arg.end < cur.start /\ Return(ranges \cup split)
  <2>1. \A r \in todo : ~IsIntersect(r, arg)
    BY <1>1, <1>3 DEF IsNext, CompareLE, IsIntersect, IpRange, Address
  <2>2. \A r \in ranges : ~IsIntersect(r, arg)
    BY <1>1, <2>1 DEF RangeInv, PassedFree
  <2>3. Denotation' = Addresses(ranges \cup split)
    BY <1>3 DEF Return, Denotation, Addresses
  <2> QED BY <1>1, <1>2, <2>2, <2>3, RemovedIsFree
<1>4. CASE todo' = todo \ {cur} /\ UNCHANGED <<ranges, pc, arg, split, nets>>
  BY <1>4 DEF Denotation, Addresses
<1>5. CASE /\ ~MinusIsNull(cur, arg)
           /\ ranges' = ranges \ {cur}
           /\ split' = split \cup Minus(cur, arg)
           /\ UNCHANGED <<pc, arg, nets>>
  <2>1. Denotation' = (Addresses(ranges \ {cur}) \ AddressesOf(arg))
                        \cup Addresses(split \cup Minus(cur, arg))
    BY <1>1, <1>5 DEF Denotation, Addresses, AddressesOf
  <2>2. \A a \in Address : a \in Addresses(Minus(cur, arg))
                             <=> /\ cur.start <= a /\ a <= cur.end
                                 /\ a \notin AddressesOf(arg)
    BY <1>1, <1>5, MinusPieces, AddressesOfRange DEF Addresses
  <2>3. \A a \in Address : a \in Addresses(ranges)
                             <=> \/ cur.start <= a /\ a <= cur.end
                                 \/ a \in Addresses(ranges \ {cur})
    BY <1>1 DEF Addresses
  <2>4. Addresses(split \cup Minus(cur, arg))
          = Addresses(split) \cup Addresses(Minus(cur, arg))
    BY DEF Addresses
  <2>5. \A a \in Address : a \in Denotation' <=> a \in Denotation
    BY <1>2, <2>1, <2>2, <2>3, <2>4
  <2>6. Denotation \subseteq Address /\ Denotation' \subseteq Address
    BY <1>2, <2>1 DEF Addresses
  <2> QED BY <2>5, <2>6
<1> QED BY <1>3, <1>4, <1>5 DEF RemoveLoop

(* Calling add() or remove() is the abstract operation.                      *)
LEMMA CallImplements ==
  ASSUME RangeInv, NEW r \in Inputs, AddCall(r) \/ RemoveCall(r)
  PROVE  Abstract!Next
<1>1. /\ pc = "idle" /\ split = {}
      /\ UNCHANGED <<ranges, split>> /\ arg' = r
  BY DEF AddCall, RemoveCall, Call, RangeInv, PiecesOnlyInRemove
<1>2. Denotation = Addresses(ranges)
  BY <1>1 DEF Denotation
<1>3. CASE AddCall(r)
  <2>1. pc' = "add" BY <1>3 DEF AddCall, Call
  <2>2. Denotation' = Denotation \cup AddressesOf(r)
    BY <1>1, <1>2, <2>1 DEF Denotation, Addresses, AddressesOf
  <2> QED BY <2>2 DEF Abstract!Next, Abstract!Add
<1>4. CASE RemoveCall(r)
  <2>1. pc' = "remove" BY <1>4 DEF RemoveCall, Call
  <2>2. Addresses(split') = {} BY <1>1 DEF Addresses
  <2>3. Denotation' = Denotation \ AddressesOf(r)
    BY <1>1, <1>2, <2>1, <2>2 DEF Denotation, Addresses, AddressesOf
  <2> QED BY <2>3 DEF Abstract!Next, Abstract!Remove
<1> QED BY <1>3, <1>4

(* Every step is a step of the abstract set or leaves it as it is.           *)
LEMMA NextImplements == RangeInv /\ [Next]_vars => [Abstract!Next]_(Denotation)
<1> SUFFICES ASSUME RangeInv, [Next]_vars
             PROVE  Abstract!Next \/ Denotation' = Denotation
  OBVIOUS
<1>1. ASSUME NEW r \in Inputs, AddCall(r) \/ RemoveCall(r) PROVE Abstract!Next
  BY <1>1, CallImplements
<1>2. ASSUME NEW cur \in todo, AddLoop(cur) \/ RemoveLoop(cur)
      PROVE  Denotation' = Denotation
  BY <1>2, AddLoopStutters, RemoveLoopStutters
<1>3. CASE AddEnd
  <2>1. arg \in IpRange /\ Denotation = Addresses(ranges) \cup AddressesOf(arg)
    BY <1>3 DEF AddEnd, RangeInv, RangesOK, Denotation
  <2>2. Denotation' = Addresses(ranges \cup {arg})
    BY <1>3 DEF AddEnd, Return, Denotation, Addresses
  <2> QED BY <2>1, <2>2, AddressesOfRange DEF Addresses
<1>4. CASE RemoveEnd
  <2>1. /\ Denotation = (Addresses(ranges) \ AddressesOf(arg)) \cup Addresses(split)
        /\ arg \in IpRange /\ ranges \subseteq IpRange
        /\ \A r \in ranges : ~IsIntersect(r, arg)
    BY <1>4 DEF RemoveEnd, RangeInv, RangesOK, PassedFree, Denotation
  <2>2. Denotation' = Addresses(ranges \cup split)
    BY <1>4 DEF RemoveEnd, Return, Denotation, Addresses
  <2> QED BY <2>1, <2>2, RemovedIsFree
<1>5. ASSUME NEW r \in ranges, SubnetsCall(r) PROVE Denotation' = Denotation
  BY <1>5 DEF SubnetsCall, Call, Denotation, Addresses
<1>6. CASE SubnetsLoop
  <2>1. pc = "subnets" /\ pc' \in {"subnets", "idle"} /\ UNCHANGED ranges
    BY <1>6 DEF SubnetsLoop
  <2> QED BY <2>1 DEF Denotation, Addresses
<1>7. CASE UNCHANGED vars
  BY <1>7 DEF vars, Denotation, Addresses, AddressesOf
<1> QED BY <1>1, <1>2, <1>3, <1>4, <1>5, <1>6, <1>7 DEF Next

(* The range set is a set of addresses: for families of every size and every *)
(* choice of ranges, add() and remove() of IpRangeSet.kt do what the union   *)
(* and the difference of sets of addresses do.                               *)
THEOREM RangeSetImplementsAddressSet == Spec => ImplementsAddressSet
<1>1. Init => Abstract!Init
  BY DEF Init, Abstract!Init, Denotation, Addresses
<1> QED
  BY <1>1, RangeInvariant, NextImplements, PTL
  DEF Spec, ImplementsAddressSet, Abstract!Spec
=============================================================================
