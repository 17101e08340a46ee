-------------------------- MODULE AddressesProofs --------------------------
(***************************************************************************)
(* Facts about the choice of the next owner as a function of the address   *)
(* book, for every set of addresses.                                       *)
(***************************************************************************)
EXTENDS Addresses, TLAPS, WellFoundedInduction

\* A non-empty set of addresses has a least element, and Min returns it:
\* the unwrap() of addresses_guard.keys().min() succeeds.
LEMMA MinOfAddresses ==
    ASSUME NEW S \in SUBSET Nat, S # {}
    PROVE  Min(S) \in S /\ \A y \in S : Min(S) <= y
<1> DEFINE R == OpToRel(<, Nat)
<1>1. PICK x \in S : \A y \in S : ~ (<<y, x>> \in R)
  <2>1. IsWellFoundedOn(R, Nat)
    BY NatLessThanWellFounded
  <2> HIDE DEF R
  <2> QED
    BY <2>1, WFMin
<1>2. \A y \in S : x <= y
  <2>1. \A y \in Nat : y < x => <<y, x>> \in R
    <3>1. R = {ss \in Nat \X Nat : ss[1] < ss[2]}
      BY DEF OpToRel
    <3> HIDE DEF R
    <3> QED
      BY <3>1
  <2>2. \A y \in S : <<y, x>> \notin R
    BY <1>1
  <2>3. x \in Nat /\ S \subseteq Nat
    OBVIOUS
  <2> HIDE DEF R
  <2>4. ASSUME NEW y \in S PROVE ~ (y < x)
    BY <2>1, <2>2, <2>3, <2>4
  <2> QED
    BY <2>3, <2>4
<1> QED
  BY <1>2 DEF Min

\* A distance between last octets fits in a u8.
LEMMA DiffRange ==
    ASSUME NEW a \in Nat, NEW b \in Nat
    PROVE  Diff(a, b) \in 0..U8Max
  BY DEF Diff, LastOctet, U8Max

\* The next owner is a machine of the address book.
LEMMA NextOwnersInBook ==
    ASSUME NEW S \in SUBSET Nat, S # {}, NEW my \in Nat
    PROVE  NextOwners(my, S) \subseteq S
  BY MinOfAddresses DEF NextOwners, Ahead

\* In one subnet, going up the last octets is going up the addresses.
LEMMA DiffInSubnet ==
    ASSUME NEW a \in Nat, NEW b \in Nat, a \div 256 = b \div 256
    PROVE  /\ Diff(a, b) \in 0..255
           /\ a > b => Diff(a, b) = a - b
           /\ ~ (a > b) => Diff(a, b) = 0
  BY DEF Diff, LastOctet

(***************************************************************************)
(* Machines that know all others form one ring: no machine is handed the   *)
(* ledger by two others (tasks/udp.rs 206-223).  On a finite network each  *)
(* machine is therefore handed it by exactly one.                          *)
(***************************************************************************)
THEOREM OnePredecessor ==
    ASSUME NEW S \in SUBSET Nat, OneSubnet(S),
           NEW m \in S, NEW n \in S, m # n,
           NEW a \in NextOwners(m, S \ {m}), NEW b \in NextOwners(n, S \ {n})
    PROVE  a # b
<1>1. ASSUME NEW x \in S, S \ {x} # {}, NEW y \in NextOwners(x, S \ {x})
      PROVE  /\ y \in S \ {x}
             /\ \/ y > x /\ \A z \in S : z > x => y <= z
                \/ y < x /\ \A z \in S : z <= x /\ y <= z
  <2>1. x \in Nat /\ S \ {x} \in SUBSET Nat
    OBVIOUS
  <2>2. y \in S \ {x}
    BY <1>1, <2>1, NextOwnersInBook
  <2>3. \A z \in S \ {x} :
           /\ z \in Nat
           /\ z > x => Diff(z, x) = z - x
           /\ ~ (z > x) => Diff(z, x) = 0
           /\ Diff(z, x) \in 0..255
    <3> TAKE z \in S \ {x}
    <3>1. z \in Nat /\ z \div 256 = x \div 256
      BY <2>1 DEF OneSubnet
    <3> QED
      BY <2>1, <3>1, DiffInSubnet
  <2>4. CASE Ahead(x, S \ {x}) = {}
    <3>1. y = Min(S \ {x})
      BY <1>1, <2>4 DEF NextOwners
    <3>2. \A z \in S \ {x} : y <= z
      BY <1>1, <3>1, MinOfAddresses
    <3>3. \A z \in S \ {x} : z < x \/ z = x + 255
      <4> TAKE z \in S \ {x}
      <4>1. ~ (Diff(z, x) > 0 /\ Diff(z, x) < 255)
        BY <2>4 DEF Ahead, U8Max
      <4> QED
        BY <2>1, <2>3, <4>1
    <3>4. CASE y < x
      <4>1. \A z \in S : z # x + 255
        <5> SUFFICES ASSUME NEW z \in S, z = x + 255 PROVE FALSE
          OBVIOUS
        <5>1. y \in Nat /\ z \in Nat /\ y \div 256 = z \div 256
          BY <2>1, <2>2 DEF OneSubnet
        <5> QED
          BY <2>1, <3>4, <5>1
      <4> QED
        BY <2>1, <2>2, <3>2, <3>3, <3>4, <4>1
    <3>5. CASE y = x + 255
      BY <2>1, <2>2, <3>2, <3>5
    <3> QED
      BY <2>2, <3>3, <3>4, <3>5
  <2>5. CASE Ahead(x, S \ {x}) # {}
    <3>1. /\ y \in Ahead(x, S \ {x})
          /\ \A z \in Ahead(x, S \ {x}) : Diff(y, x) <= Diff(z, x)
      BY <1>1, <2>5 DEF NextOwners
    <3>2. y > x /\ Diff(y, x) < 255
      BY <2>1, <2>2, <2>3, <3>1 DEF Ahead, U8Max
    <3>3. ASSUME NEW z \in S, z > x PROVE y <= z
      <4>1. z \in S \ {x} /\ z \in Nat
        BY <2>1, <3>3
      <4>2. CASE Diff(z, x) < 255
        <5>1. z \in Ahead(x, S \ {x})
          BY <2>1, <2>3, <3>3, <4>1, <4>2 DEF Ahead, U8Max
        <5>2. Diff(y, x) <= Diff(z, x)
          BY <3>1, <5>1
        <5>3. y \in Nat /\ Diff(y, x) = y - x /\ Diff(z, x) = z - x
          BY <2>1, <2>2, <2>3, <3>2, <3>3, <4>1
        <5> QED
          BY <2>1, <4>1, <5>2, <5>3
      <4>3. CASE ~ (Diff(z, x) < 255)
        BY <2>1, <2>2, <2>3, <3>2, <3>3, <4>1, <4>3
      <4> QED
        BY <4>2, <4>3
    <3> QED
      BY <2>2, <3>2, <3>3
  <2> QED
    BY <2>4, <2>5
<1>2. S \ {m} # {} /\ S \ {n} # {} /\ m \in Nat /\ n \in Nat
  OBVIOUS
<1>3. /\ a \in S \ {m} /\ a \in Nat
      /\ \/ a > m /\ \A z \in S : z > m => a <= z
         \/ a < m /\ \A z \in S : z <= m /\ a <= z
  BY <1>1, <1>2
<1>4. /\ b \in S \ {n} /\ b \in Nat
      /\ \/ b > n /\ \A z \in S : z > n => b <= z
         \/ b < n /\ \A z \in S : z <= n /\ b <= z
  BY <1>1, <1>2
<1> QED
  BY <1>2, <1>3, <1>4

=============================================================================
