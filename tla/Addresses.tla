----------------------------- MODULE Addresses -----------------------------
(***************************************************************************)
(* IPv4 addresses as manage_ledger (tasks/udp.rs) uses them, and the       *)
(* choice of the next ledger owner as a function of the address book.      *)
(*                                                                         *)
(* An address is the natural number of its four octets, so that the order  *)
(* of Ipv4Addr is <= and its last octet is the remainder by 256.           *)
(***************************************************************************)
EXTENDS Integers, FiniteSets, FiniteSetsExt

\* u8::MAX
U8Max == 255

\* addr.octets()[3]
LastOctet(a) == a % 256

\* addr.octets()[3].saturating_sub(my_addr.octets()[3])
Diff(a, my) ==
    IF LastOctet(a) > LastOctet(my) THEN LastOctet(a) - LastOctet(my) ELSE 0

\* The addresses for which the loop's test can succeed when nothing closer
\* has been met yet.
Ahead(my, book) == {a \in book : Diff(a, my) > 0 /\ Diff(a, my) < U8Max}

\* Mutant: the ledger always goes to the lowest address.
LowestOnly(my, book) == {Min(book)}

(***************************************************************************)
(* The owners that one pass over the keys of a non-empty book can settle   *)
(* on.  More than one only if two addresses have the same last octet: the  *)
(* one met first in the LinearMap's order wins.  NextOwner.tla models the  *)
(* loop itself and shows that this is what it computes.                    *)
(***************************************************************************)
NextOwners(my, book) ==
    IF Ahead(my, book) = {}
    THEN {Min(book)}
    ELSE {a \in Ahead(my, book) :
             \A b \in Ahead(my, book) : Diff(a, my) <= Diff(b, my)}

-----------------------------------------------------------------------------

\* Steps from my to a going up through the last octets, wrapping at 255;
\* an address counts itself as a full turn away.
RingDistance(my, a) == ((LastOctet(a) - LastOctet(my) - 1) % 256) + 1

\* All addresses share their first three octets.
OneSubnet(S) == \A a, b \in S : a \div 256 = b \div 256

=============================================================================
