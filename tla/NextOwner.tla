----------------------------- MODULE NextOwner -----------------------------
(***************************************************************************)
(* The loop of manage_ledger that chooses who gets the ledger next         *)
(* (tasks/udp.rs 206-223), one step per key of the address book.  The      *)
(* keys of the LinearMap come in the order they were inserted and          *)
(* swap-removed in, so any order is possible.                              *)
(***************************************************************************)
EXTENDS Addresses

CONSTANTS
    Addr,   \* the addresses that can be met
    None    \* "not chosen yet"

ASSUME AddrAssumption == Addr \subseteq Nat /\ None \notin Nat

VARIABLES
    my,           \* my_addr
    book,         \* the keys of the address book
    todo,         \* the keys the for loop has still to visit
    nextHighest,  \* next_highest
    nextAddr,     \* next_addr; None stands for 255.255.255.255
    owner         \* jobs_state.ledger.owner once it is assigned

vars == <<my, book, todo, nextHighest, nextAddr, owner>>

\* The loop is entered only with a non-empty book (the early continue of
\* "It's only me").
Init ==
    /\ my \in Addr
    /\ book \in {b \in SUBSET Addr : b # {}}
    /\ todo = book
    /\ nextHighest = U8Max
    /\ nextAddr = None
    /\ owner = None

\* Mutant: an address that is not ahead counts as the closest.
VisitBehind(a) ==
    /\ a \in todo
    /\ todo' = todo \ {a}
    /\ IF Diff(a, my) < nextHighest
       THEN nextAddr' = a /\ nextHighest' = Diff(a, my)
       ELSE UNCHANGED <<nextAddr, nextHighest>>
    /\ UNCHANGED <<my, book, owner>>

\* Mutant: the closest address is replaced by a later one that is as close
\* or farther (the comparison the wrong way round).
VisitFarther(a) ==
    /\ a \in todo
    /\ todo' = todo \ {a}
    /\ IF Diff(a, my) > 0 /\ (nextHighest = U8Max \/ Diff(a, my) > nextHighest)
       THEN nextAddr' = a /\ nextHighest' = Diff(a, my)
       ELSE UNCHANGED <<nextAddr, nextHighest>>
    /\ UNCHANGED <<my, book, owner>>

\* One iteration of the for loop.
Visit(a) ==
    /\ a \in todo
    /\ todo' = todo \ {a}
    /\ IF Diff(a, my) > 0 /\ Diff(a, my) < nextHighest
       THEN nextAddr' = a /\ nextHighest' = Diff(a, my)
       ELSE UNCHANGED <<nextAddr, nextHighest>>
    /\ UNCHANGED <<my, book, owner>>

\* Mutant: the wrap goes to the highest address.
ChooseHighest ==
    /\ todo = {}
    /\ owner = None
    /\ owner' = IF nextHighest < U8Max THEN nextAddr ELSE Max(book)
    /\ UNCHANGED <<my, book, todo, nextHighest, nextAddr>>

\* The assignment after the loop.
Choose ==
    /\ todo = {}
    /\ owner = None
    /\ owner' = IF nextHighest > 0 /\ nextHighest < U8Max
                THEN nextAddr
                ELSE Min(book)
    /\ UNCHANGED <<my, book, todo, nextHighest, nextAddr>>

Next == Choose \/ \E a \in todo : Visit(a)

Spec == Init /\ [][Next]_vars

-----------------------------------------------------------------------------

TypeOK ==
    /\ my \in Addr
    /\ book \in SUBSET Addr
    /\ todo \in SUBSET book
    /\ nextHighest \in 1..U8Max
    /\ nextAddr \in Addr \cup {None}
    /\ owner \in Addr \cup {None}

(***************************************************************************)
(* What the loop knows at each key: next_addr is the closest of the        *)
(* visited addresses ahead of mine, and next_highest = u8::MAX means that  *)
(* none of them is ahead.  With the result of the assignment, this is the  *)
(* inductive invariant of the proof.                                       *)
(***************************************************************************)
LoopInv ==
    /\ book # {}
    /\ nextHighest = U8Max => Ahead(my, book \ todo) = {}
    /\ nextHighest < U8Max =>
          /\ nextAddr \in Ahead(my, book \ todo)
          /\ Diff(nextAddr, my) = nextHighest
    /\ \A a \in Ahead(my, book \ todo) : nextHighest <= Diff(a, my)
    /\ owner # None => todo = {} /\ owner \in NextOwners(my, book)

(***************************************************************************)
(* Whatever the order of the keys, the ledger goes to the machine met      *)
(* first when going up from my last octet and around, as long as the       *)
(* machines share a subnet and the book does not list this machine:        *)
(* every machine of the ring is passed the ledger before any of them is    *)
(* passed it twice.  Hazards: u8::MAX doubles as "none found" and as a     *)
(* distance; the wrap uses the order of whole addresses, the search only   *)
(* that of the last octet (tasks/udp.rs 206-223).                          *)
(***************************************************************************)
OwnerIsCyclicSuccessor ==
    owner # None /\ OneSubnet(book \cup {my}) /\ my \notin book =>
        /\ owner \in book
        /\ \A a \in book : RingDistance(my, owner) <= RingDistance(my, a)

=============================================================================
