-------------------------- MODULE NextOwnerProofs --------------------------
(***************************************************************************)
(* Proofs about the choice of the next owner, for every set of addresses.  *)
(***************************************************************************)
EXTENDS NextOwner, AddressesProofs, TLAPS

\* The types and what the loop knows at each key are inductive.
LEMMA LoopInvariant == Spec => [](TypeOK /\ LoopInv)
<1> USE AddrAssumption
<1>1. Init => TypeOK /\ LoopInv
  BY DEF Init, TypeOK, LoopInv, U8Max, Ahead
<1>2. TypeOK /\ LoopInv /\ [Next]_vars => (TypeOK /\ LoopInv)'
  <2> SUFFICES ASSUME TypeOK, LoopInv, [Next]_vars
               PROVE  TypeOK' /\ LoopInv'
    OBVIOUS
  <2>1. CASE Choose
    <3>1. owner' \in NextOwners(my, book)
      <4>1. book \ todo = book
        BY <2>1 DEF Choose
      <4>2. CASE nextHighest < U8Max
        <5>1. owner' = nextAddr
          BY <2>1, <4>2 DEF Choose, TypeOK, U8Max
        <5> QED
          BY <5>1, <4>1, <4>2 DEF LoopInv, NextOwners
      <4>3. CASE ~ (nextHighest < U8Max)
        <5>1. nextHighest = U8Max
          BY <4>3 DEF TypeOK, U8Max
        <5>2. owner' = Min(book)
          BY <2>1, <4>3 DEF Choose
        <5> QED
          BY <5>1, <5>2, <4>1 DEF LoopInv, NextOwners
      <4> QED
        BY <4>2, <4>3
    <3>2. Min(book) \in book
      BY MinOfAddresses DEF TypeOK, LoopInv
    <3>3. owner' \in Addr
      BY <3>1, <3>2 DEF NextOwners, Ahead, TypeOK
    <3> QED
      BY <2>1, <3>1, <3>3 DEF Choose, TypeOK, LoopInv
  <2>2. ASSUME NEW a \in todo, Visit(a) PROVE TypeOK' /\ LoopInv'
    <3>1. /\ a \in Nat /\ my \in Nat /\ a \in book
          /\ Diff(a, my) \in 0..U8Max
      BY DiffRange DEF TypeOK
    <3>2. book \ todo' = (book \ todo) \cup {a}
      BY <2>2, <3>1 DEF Visit
    <3>3. \A b \in Ahead(my, (book \ todo) \cup {a}) :
             b \in Ahead(my, book \ todo) \/ b = a
      BY DEF Ahead
    <3>4. owner = None
      BY DEF LoopInv
    <3>5. CASE Diff(a, my) > 0 /\ Diff(a, my) < nextHighest
      <4>1. nextAddr' = a /\ nextHighest' = Diff(a, my)
        BY <2>2, <3>5 DEF Visit
      <4>2. nextHighest' \in 1..U8Max /\ nextHighest' < U8Max
        BY <4>1, <3>5, <3>1 DEF TypeOK, U8Max
      <4>3. a \in Ahead(my, (book \ todo) \cup {a})
        BY <4>1, <4>2, <3>5 DEF Ahead
      <4>4. \A b \in Ahead(my, (book \ todo) \cup {a}) : nextHighest' <= Diff(b, my)
        <5> TAKE b \in Ahead(my, (book \ todo) \cup {a})
        <5>1. b \in Nat /\ Diff(b, my) \in 0..U8Max
          BY DiffRange, <3>1 DEF Ahead, TypeOK
        <5> QED
          BY <5>1, <3>1, <3>3, <3>5, <4>1 DEF LoopInv, TypeOK, U8Max
      <4> QED
        BY <2>2, <3>1, <3>2, <3>4, <4>1, <4>2, <4>3, <4>4
        DEF Visit, TypeOK, LoopInv
    <3>6. CASE ~ (Diff(a, my) > 0 /\ Diff(a, my) < nextHighest)
      <4>1. UNCHANGED <<nextAddr, nextHighest>>
        BY <2>2, <3>6 DEF Visit
      <4>2. Ahead(my, book \ todo) \subseteq Ahead(my, (book \ todo) \cup {a})
        BY DEF Ahead
      <4>3. nextHighest = U8Max => Ahead(my, (book \ todo) \cup {a}) = {}
        BY <3>1, <3>3, <3>6 DEF LoopInv, Ahead, U8Max
      <4>4. \A b \in Ahead(my, (book \ todo) \cup {a}) : nextHighest <= Diff(b, my)
        BY <3>1, <3>3, <3>6 DEF LoopInv, Ahead, TypeOK, U8Max
      <4> QED
        BY <2>2, <3>2, <3>4, <4>1, <4>2, <4>3, <4>4 DEF Visit, TypeOK, LoopInv
    <3> QED
      BY <3>5, <3>6
  <2>3. CASE UNCHANGED vars
    BY <2>3 DEF vars, TypeOK, LoopInv
  <2> QED
    BY <2>1, <2>2, <2>3 DEF Next
<1> QED
  BY <1>1, <1>2, PTL DEF Spec

\* The variables of the loop keep their types: next_highest stays in 1..255
\* although 255 means "none found" (tasks/udp.rs 206-223).
THEOREM TypeCorrect == Spec => []TypeOK
  BY LoopInvariant, PTL

(***************************************************************************)
(* At every key of the book, next_addr is the closest of the visited       *)
(* addresses that are ahead, and next_highest is 255 only while none is    *)
(* (tasks/udp.rs 206-223).                                                 *)
(***************************************************************************)
THEOREM LoopCorrect == Spec => []LoopInv
  BY LoopInvariant, PTL

(***************************************************************************)
(* In any subnet, with any number of machines and any order of the keys,   *)
(* manage_ledger hands the ledger to the next machine of the ring          *)
(* (tasks/udp.rs 206-223).                                                 *)
(***************************************************************************)
THEOREM NextOwnerCorrect == Spec => []OwnerIsCyclicSuccessor
<1> USE AddrAssumption
<1>1. TypeOK /\ LoopInv => OwnerIsCyclicSuccessor
  <2> SUFFICES ASSUME TypeOK, LoopInv, owner # None,
                      OneSubnet(book \cup {my}), my \notin book
               PROVE  /\ owner \in book
                      /\ \A a \in book : RingDistance(my, owner) <= RingDistance(my, a)
    BY DEF OwnerIsCyclicSuccessor
  <2>1. owner \in NextOwners(my, book) /\ my \in Nat /\ book \subseteq Nat
    BY DEF LoopInv, TypeOK
  <2>2. Min(book) \in book /\ \A a \in book : Min(book) <= a
    BY MinOfAddresses DEF TypeOK, LoopInv
  <2>3. owner \in book
    BY <2>1, <2>2 DEF NextOwners, Ahead
  <2>4. ASSUME NEW a \in book
        PROVE  RingDistance(my, owner) <= RingDistance(my, a)
    <3>1. /\ a \div 256 = my \div 256 /\ owner \div 256 = my \div 256
          /\ a # my /\ owner # my
      BY <2>3, <2>4 DEF OneSubnet
    <3>2. /\ a \in Nat /\ owner \in Nat
      BY <2>1, <2>3, <2>4
    <3>3. CASE Ahead(my, book) = {}
      <4>1. owner = Min(book)
        BY <3>3, <2>1 DEF NextOwners
      <4>2. owner <= a
        BY <4>1, <2>2, <2>4
      <4>3. ~ (Diff(a, my) > 0 /\ Diff(a, my) < U8Max)
        BY <3>3, <2>4 DEF Ahead
      <4>4. ~ (Diff(owner, my) > 0 /\ Diff(owner, my) < U8Max)
        BY <3>3, <2>3 DEF Ahead
      <4> QED
        BY <2>1, <3>1, <3>2, <4>2, <4>3, <4>4
        DEF Diff, LastOctet, RingDistance, U8Max
    <3>4. CASE Ahead(my, book) # {}
      <4>1. /\ Diff(owner, my) > 0 /\ Diff(owner, my) < U8Max
            /\ a \in Ahead(my, book) => Diff(owner, my) <= Diff(a, my)
        BY <3>4, <2>1 DEF NextOwners, Ahead
      <4>2. ~ (Diff(a, my) > 0 /\ Diff(a, my) < U8Max)
               \/ Diff(owner, my) <= Diff(a, my)
        BY <4>1, <2>4 DEF Ahead
      <4> QED
        BY <2>1, <3>1, <3>2, <4>1, <4>2
        DEF Diff, LastOctet, RingDistance, U8Max
    <3> QED
      BY <3>3, <3>4
  <2> QED
    BY <2>3, <2>4
<1> QED
  BY <1>1, LoopInvariant, PTL

=============================================================================
