------------------------- MODULE ReliableRingProofs -------------------------
(***************************************************************************)
(* The ring on a network that loses nothing, with machines that boot apart *)
(* (one at a time, 25 s each) and keep their power: for any number of      *)
(* machines, at most one of them prints or broadcasts at a time, and all   *)
(* agree who is next.  With boots that overlap the first two are false:    *)
(* the run of RingBoots.cfg.                                               *)
(***************************************************************************)
EXTENDS LedgerRingProofs, FiniteSetTheorems, SequenceTheorems

Reliable == ~ Lossy /\ Staggered /\ ~ Echo /\ MaxOffs = 0

\* The i-th packet in the channel of n is a ledger.
LedgerAt(n, i) == i \in DOMAIN rx[n] /\ rx[n][i].kind = "ledger"

\* It is one that makes n the owner.
TokenAt(n, i) == LedgerAt(n, i) /\ rx[n][i].owner = n

\* A machine knows others, never itself and never one without power; it
\* has a ledger after its first round, and knows another machine if the
\* ledger is not its own.
PeerInv ==
    \A m \in Machine :
        /\ book[m] \subseteq Up \ {m}
        /\ \A i \in DOMAIN rx[m] : rx[m][i].from \in Up \ {m}
        /\ m \notin Up => alert[m] = None /\ ledger[m] = None /\ rx[m] = <<>>
        /\ pc[m] \in {"sleep", "accepted", "ledger"} => ledger[m] # None
        /\ pc[m] = "accepted" => IsOwner(m)
        /\ ledger[m] # None /\ ~ IsOwner(m) => book[m] # {}

\* One machine is the owner, or is about to read that it is, or neither.
TokenInv ==
    /\ \A m, n \in Machine : IsOwner(m) /\ IsOwner(n) => m = n
    /\ \A m, n \in Machine : \A i \in Nat : IsOwner(m) => ~ TokenAt(n, i)
    /\ \A m, n \in Machine : \A i, j \in Nat : TokenAt(m, i) /\ TokenAt(n, j) => m = n
    /\ \A n \in Machine : \A i, j \in Nat : TokenAt(n, i) /\ LedgerAt(n, j) => j <= i
    /\ \A n \in Machine : \A i \in Nat : IsOwner(n) => ~ LedgerAt(n, i)

\* Machine n is the one cast[m] names, and has heard it.
Told(m, n) == cast[m].owner = n /\ n \in cast[m].heard

\* While a ledger is sent, another machine is the owner only by that ledger.
CastInv ==
    \A m, n \in Machine :
        cast[m] # None =>
            /\ IsOwner(n) => n = m \/ Told(m, n)
            /\ \A i \in Nat : TokenAt(n, i) => Told(m, n)

\* Who has observed that it is the owner waits for the one still sending.
TurnInv ==
    /\ OneBroadcaster
    /\ \A n \in Machine : observed[n] => IsOwner(n)
    /\ \A m, n \in Machine : m # n /\ observed[n] /\ Busy(m) => m \in waitFor[n]

\* One machine boots at a time, and all others that are on were past their
\* boot before: it hears the ledger of any of them.
BootInv ==
    \A m \in Machine : pc[m] = "boot" =>
        /\ elder[m] = Up \ {m}
        /\ \A n \in Machine : pc[n] = "boot" => n = m

RingInv == Reliable /\ IInv /\ BootInv /\ PeerInv /\ TokenInv /\ CastInv /\ TurnInv

LEMMA InitRing == Init /\ Reliable => RingInv
<1> SUFFICES ASSUME Init, Reliable PROVE RingInv
  OBVIOUS
<1>1. IInv
  BY InitIInv
<1>2. /\ \A m \in Machine : ~ IsOwner(m) /\ ~ Busy(m) /\ cast[m] = None /\ ~ observed[m]
      /\ \A m \in Machine : rx[m] = <<>> /\ pc[m] = "off" /\ ledger[m] = None
      /\ \A m \in Machine : book[m] = {} /\ alert[m] = None
  BY DEF Init, IsOwner, Busy
<1>3. \A m \in Machine : \A i : ~ LedgerAt(m, i)
  BY <1>2 DEF LedgerAt
<1>4. PeerInv /\ BootInv
  BY <1>2 DEF PeerInv, BootInv, Up
<1>5. TokenInv /\ CastInv /\ TurnInv
  BY <1>2, <1>3 DEF TokenInv, CastInv, TurnInv, TokenAt, OneBroadcaster
<1> QED
  BY <1>1, <1>4, <1>5 DEF RingInv

-----------------------------------------------------------------------------
(* Boots that do not overlap.                                              *)

\* A step that leaves the power alone keeps BootInv if who is in boot was so
\* before, with the same elders.
LEMMA BootKept ==
    ASSUME BootInv, Up' = Up,
           \A n \in Machine : pc'[n] = "boot" => pc[n] = "boot" /\ elder'[n] = elder[n]
    PROVE  BootInv'
  BY DEF BootInv

LEMMA NextBoot ==
    ASSUME Reliable, IInv, BootInv, [Next]_vars PROVE BootInv'
<1>1. TypeOK
  BY DEF IInv
<1>2. CASE UNCHANGED <<pc, elder>>
  BY <1>2, BootKept DEF Up
<1>3. ASSUME NEW m \in Machine, pc[m] # "off", NEW c, c \notin {"off", "boot"},
             pc' = [pc EXCEPT ![m] = c],
             elder' = elder \/ BootIsOver(m)
      PROVE  BootInv'
  <2>1. \A n \in Machine : pc'[n] = IF n = m THEN c ELSE pc[n]
    BY <1>1, <1>3 DEF TypeOK
  <2>2. \A n \in Machine \ {m} : elder'[n] = elder[n]
    BY <1>1, <1>3 DEF TypeOK, BootIsOver
  <2>3. Up' = Up
    BY <1>3, <2>1 DEF Up
  <2> QED
    BY <1>3, <2>1, <2>2, <2>3, BootKept
<1>4. ASSUME NEW m \in Machine, ManageLedger(m) PROVE BootInv'
  <2>1. CASE RoundIdle(m) \/ RoundObserve(m) \/ EndLedgerCast(m)
    <3>1. /\ pc[m] # "off" /\ pc' = [pc EXCEPT ![m] = "sleep"] /\ BootIsOver(m)
      BY <2>1 DEF RoundIdle, RoundObserve, EndLedgerCast, Wakes, Sleep
    <3> QED
      BY <1>3, <3>1
  <2>2. CASE CreateLedger(m) \/ RoundPass(m) \/ PassAfterPrint(m)
    <3>1. /\ pc[m] # "off" /\ pc' = [pc EXCEPT ![m] = "ledger"] /\ BootIsOver(m)
      BY <2>2 DEF CreateLedger, RoundPass, PassAfterPrint, PassOn, Wakes, StartCast
    <3> QED
      BY <1>3, <3>1
  <2>3. CASE RoundPrint(m)
    <3>1. /\ pc[m] # "off" /\ pc' = [pc EXCEPT ![m] = "accepted"] /\ elder' = elder
      BY <2>3 DEF RoundPrint, Wakes
    <3> QED
      BY <1>3, <3>1
  <2>4. CASE SendLedgerCopy(m)
    BY <1>2, <2>4 DEF SendLedgerCopy
  <2> QED
    BY <1>4, <2>1, <2>2, <2>3, <2>4 DEF ManageLedger, Round
<1>5. ASSUME NEW m \in Machine, PowerOn(m) PROVE BootInv'
  <2>1. /\ pc[m] = "off" /\ \A n \in Machine : pc[n] # "boot"
        /\ pc'[m] = "boot" /\ \A n \in Machine \ {m} : pc'[n] = pc[n]
        /\ elder'[m] = {n \in Up : pc[n] # "boot"}
    BY <1>1, <1>5 DEF PowerOn, Reliable, TypeOK
  <2>2. elder'[m] = Up' \ {m}
    BY <2>1 DEF Up
  <2> QED
    BY <2>1, <2>2 DEF BootInv
<1>6. ASSUME NEW m \in Machine, PowerOff(m) PROVE BootInv'
  <2>1. offs.idle \in Nat /\ offs.busy \in Nat /\ MaxOffs = 0
    BY <1>1 DEF TypeOK, Reliable
  <2> QED
    BY <1>6, <2>1 DEF PowerOff
<1>7. ASSUME NEW m \in Machine,
             \/ SendNewJobAlert(m) \/ Receive(m) \/ UpdateBook(m) \/ GoStale(m)
             \/ ToggleReady(m)
             \/ \E j \in Job : AppendToLedger(m, j) \/ FileArrives(m, j)
      PROVE  UNCHANGED <<pc, elder>>
  BY <1>7 DEF SendNewJobAlert, SendAlertCopy, EndAlert, Receive, UpdateBook, HearHeartbeat,
     ExpireAddress, GoStale, ToggleReady, AppendToLedger, FileArrives
<1> QED
  BY <1>2, <1>4, <1>5, <1>6, <1>7 DEF Next, vars

\* A machine that boots and has no ledger: nobody has one.
LEMMA BootAlone ==
    ASSUME RingInv, NEW m \in Machine, pc[m] = "boot", BootHears(m), ledger[m] = None
    PROVE  ~ LedgerAmong(Up)
<1>1. elder[m] \cup {m} = Up
  BY DEF RingInv, BootInv, Up
<1>2. ~ LedgerAmong(elder[m] \cup {m})
  BY DEF RingInv, Reliable, BootHears
<1> QED
  BY <1>1, <1>2

-----------------------------------------------------------------------------
(* What keeps the parts of the invariant.                                  *)

\* No step but those that make an owner or deliver a ledger can make a second
\* token.
LEMMA TokenKept ==
    ASSUME TokenInv,
           \A n \in Machine : IsOwner(n)' => IsOwner(n),
           \A n \in Machine : \A i \in Nat : LedgerAt(n, i)' => LedgerAt(n, i),
           \A n \in Machine : \A i \in Nat : TokenAt(n, i)' => TokenAt(n, i)
    PROVE  TokenInv'
  BY DEF TokenInv

LEMMA CastKept ==
    ASSUME CastInv,
           \A n \in Machine : IsOwner(n)' => IsOwner(n),
           \A n \in Machine : \A i \in Nat : TokenAt(n, i)' => TokenAt(n, i),
           \A n \in Machine : cast'[n] # None => cast'[n] = cast[n]
    PROVE  CastInv'
  BY DEF CastInv, Told

LEMMA TurnKept ==
    ASSUME TurnInv,
           \A n \in Machine : Busy(n)' => Busy(n),
           \A n \in Machine : observed'[n] => observed[n] /\ IsOwner(n)',
           \A m, n \in Machine : m # n /\ Busy(m)' /\ m \in waitFor[n] => m \in waitFor'[n]
    PROVE  TurnInv'
  BY DEF TurnInv, OneBroadcaster

\* A channel that does not change holds the same ledgers.
LEMMA SameChannels ==
    ASSUME UNCHANGED rx
    PROVE  \A n \in Machine : \A i \in Nat :
              (LedgerAt(n, i)' <=> LedgerAt(n, i)) /\ (TokenAt(n, i)' <=> TokenAt(n, i))
  BY DEF LedgerAt, TokenAt

\* With ledgers that name the same owners there are the same owners.
LEMMA SameOwners ==
    ASSUME NEW n \in Machine,
           ledger'[n] # None <=> ledger[n] # None,
           ledger[n] # None => ledger'[n].owner = ledger[n].owner
    PROVE  IsOwner(n)' <=> IsOwner(n)
  BY DEF IsOwner

\* No machine takes over a ledger: it is stale for a machine that knows
\* others only, and no machine is in its own book.
LEMMA NoTakeover ==
    ASSUME RingInv, NEW m \in Machine, ledger[m] # None
    PROVE  OwnerNow(m) = ledger[m].owner
<1>1. CASE book[m] = {}
  BY <1>1 DEF OwnerNow, RingInv, PeerInv, IsOwner
<1>2. CASE book[m] # {}
  <2>1. book[m] \in SUBSET Nat /\ m \notin book[m]
    <3>1. book[m] \in SUBSET Machine
      BY DEF RingInv, IInv, TypeOK
    <3>2. book[m] \subseteq Up \ {m}
      BY DEF RingInv, PeerInv
    <3> QED
      BY <3>1, <3>2, MachineAssumption
  <2>2. Min(book[m]) \in book[m]
    BY <1>2, <2>1, MinOfAddresses
  <2> QED
    BY <1>2, <2>1, <2>2 DEF OwnerNow
<1> QED
  BY <1>1, <1>2

-----------------------------------------------------------------------------
(* The rounds of manage_ledger.                                            *)

\* A broadcast begins on m, which was the owner and keeps or passes the
\* ledger; nobody else is sending.
LEMMA PassRing ==
    ASSUME RingInv, NEW m \in Machine, IsOwner(m),
           pc[m] \in {"boot", "sleep", "accepted"},
           \A n \in Machine : Busy(n) => n = m,
           PassOn(m, ledger[m].jobs),
           UNCHANGED <<stale, book, alert, rx, jobVars, offs>>
    PROVE  PeerInv' /\ TokenInv' /\ CastInv' /\ TurnInv'
<1>1. TypeOK /\ PeerInv /\ TokenInv /\ CastInv /\ TurnInv
  BY DEF RingInv, IInv
<1>2. PICK l \in Ledger :
         /\ StartCast(m, l)
         /\ \/ l.owner = m /\ UNCHANGED observed
            \/ l.owner # m /\ book[m] # {} /\ ClearObserved(m)
  <2>1. ledger[m] \in Ledger /\ ledger[m].jobs \in SUBSET Job
    BY <1>1 DEF TypeOK, IsOwner, Ledger
  <2>2. CASE book[m] = {}
    <3>1. [owner |-> m, jobs |-> ledger[m].jobs] \in Ledger
      BY <2>1 DEF Ledger
    <3> QED
      BY <2>2, <3>1 DEF PassOn
  <2>3. CASE book[m] # {}
    <3>1. PICK a \in NextOwners(m, book[m]) :
             StartCast(m, [owner |-> a, jobs |-> ledger[m].jobs]) /\ ClearObserved(m)
      BY <2>3 DEF PassOn
    <3>2. a \in book[m]
      BY <1>1, <2>3, <3>1, MachineAssumption, NextOwnersInBook DEF TypeOK
    <3>3. a \in Machine /\ a # m
      BY <1>1, <3>2 DEF TypeOK, PeerInv
    <3>4. [owner |-> a, jobs |-> ledger[m].jobs] \in Ledger
      BY <2>1, <3>3 DEF Ledger
    <3> QED
      BY <2>3, <3>1, <3>3, <3>4
  <2> QED
    BY <2>2, <2>3
<1>3. /\ pc' = [pc EXCEPT ![m] = "ledger"] /\ ledger' = [ledger EXCEPT ![m] = l]
      /\ cast' = [cast EXCEPT ![m] = [owner |-> l.owner, jobs |-> l.jobs,
                                      left |-> Repeats, heard |-> {}]]
      /\ UNCHANGED waitFor
  BY <1>2 DEF StartCast
<1>4. l # None
  BY NoneAssumption
<1>5. /\ pc'[m] = "ledger" /\ ledger'[m] = l
      /\ \A n \in Machine \ {m} : /\ pc'[n] = pc[n] /\ ledger'[n] = ledger[n]
                                  /\ cast'[n] = cast[n]
  BY <1>1, <1>3 DEF TypeOK
<1>6. \A n \in Machine : IsOwner(n) <=> n = m
  BY <1>1 DEF TokenInv
<1>7. \A n \in Machine : IsOwner(n)' => n = m
  BY <1>5, <1>6 DEF IsOwner
<1>8. \A n \in Machine : \A i \in Nat : ~ TokenAt(n, i)
  BY <1>1 DEF TokenInv
<1>9. /\ \A n \in Machine : \A i \in Nat : LedgerAt(n, i)' <=> LedgerAt(n, i)
      /\ \A n \in Machine : \A i \in Nat : TokenAt(n, i)' <=> TokenAt(n, i)
  BY SameChannels
<1>10. TokenInv'
  BY <1>1, <1>6, <1>7, <1>9, TokenKept
<1>11. CastInv'
  <2>1. ASSUME NEW k \in Machine, cast'[k] # None PROVE k = m
    <3>1. k # m => pc[k] = "ledger"
      BY <1>5, <2>1 DEF RingInv, IInv, SendingHasLedger
    <3> QED
      BY <3>1 DEF Busy
  <2> QED
    BY <1>7, <1>8, <1>9, <2>1 DEF CastInv
<1>12. TurnInv'
  <2>1. \A n \in Machine : Busy(n)' => n = m
    BY <1>5 DEF Busy
  <2>2. \A n \in Machine : observed[n] => n = m
    BY <1>1, <1>6 DEF TurnInv
  <2>3. \A n \in Machine : observed'[n] => n = m /\ l.owner = m
    BY <1>1, <1>2, <2>2 DEF ClearObserved, TypeOK
  <2>4. l.owner = m => IsOwner(m)'
    BY <1>4, <1>5 DEF IsOwner
  <2> QED
    BY <2>1, <2>3, <2>4 DEF TurnInv, OneBroadcaster
<1>13. PeerInv'
  <2>1. Up' = Up
    <3>1. \A n \in Machine : pc'[n] # "off" <=> pc[n] # "off"
      BY <1>5
    <3> QED
      BY <3>1 DEF Up
  <2>2. l.owner = m => IsOwner(m)'
    BY <1>4, <1>5 DEF IsOwner
  <2>3. \A n \in Machine \ {m} : IsOwner(n)' <=> IsOwner(n)
    BY <1>5 DEF IsOwner
  <2>4. m \in Up
    BY <1>1 DEF PeerInv, IsOwner
  <2> QED
    BY <1>1, <1>2, <1>4, <1>5, <2>1, <2>2, <2>3, <2>4 DEF PeerInv
<1> QED
  BY <1>10, <1>11, <1>12, <1>13

\* An owner that may act has seen the last sender finish.
LEMMA ActsAlone ==
    ASSUME RingInv, NEW m \in Machine, Wakes(m), ledger[m] # None, OwnerNow(m) = m, MayAct(m)
    PROVE  /\ IsOwner(m) /\ pc[m] \in {"boot", "sleep"}
           /\ \A n \in Machine : ~ Busy(n)
<1>1. IsOwner(m)
  BY NoTakeover DEF IsOwner
<1>2. pc[m] \in {"boot", "sleep"} /\ waitFor[m] = {} /\ observed[m]
  BY DEF Wakes, SleepOutlasts, MayAct
<1>3. ~ Busy(m)
  BY <1>2 DEF Busy
<1> QED
  BY <1>1, <1>2, <1>3 DEF RingInv, TurnInv

LEMMA RoundPassRing ==
    ASSUME RingInv, NEW m \in Machine, RoundPass(m)
    PROVE  PeerInv' /\ TokenInv' /\ CastInv' /\ TurnInv'
<1>1. /\ IsOwner(m) /\ pc[m] \in {"boot", "sleep"}
      /\ \A n \in Machine : ~ Busy(n)
  BY ActsAlone DEF RoundPass, NoLedgerYet
<1> QED
  BY <1>1, PassRing DEF RoundPass

LEMMA PassAfterPrintRing ==
    ASSUME RingInv, NEW m \in Machine, PassAfterPrint(m)
    PROVE  PeerInv' /\ TokenInv' /\ CastInv' /\ TurnInv'
<1>1. pc[m] = "accepted" /\ IsOwner(m) /\ Busy(m)
  BY DEF PassAfterPrint, RingInv, PeerInv, Busy
<1>2. \A n \in Machine : Busy(n) => n = m
  BY <1>1 DEF RingInv, TurnInv, OneBroadcaster
<1> QED
  BY <1>1, <1>2, PassRing DEF PassAfterPrint

\* The first ledger: nobody holds, sends or is about to read another.
LEMMA CreateLedgerRing ==
    ASSUME RingInv, NEW m \in Machine, CreateLedger(m)
    PROVE  PeerInv' /\ TokenInv' /\ CastInv' /\ TurnInv'
<1>1. Reliable /\ TypeOK /\ PeerInv /\ TokenInv /\ CastInv /\ TurnInv
  BY DEF RingInv, IInv
<1> DEFINE l == [owner |-> m, jobs |-> {}]
<1>2. l \in Ledger /\ l # None /\ l.owner = m
  BY NoneAssumption DEF Ledger
<1>3. StartCast(m, l) /\ UNCHANGED <<observed, book, alert, rx>>
  BY DEF CreateLedger
<1> HIDE DEF l
<1>4. pc[m] = "boot" /\ ~ LedgerAmong(Up)
  <2>1. ledger[m] = None /\ pc[m] \in {"boot", "sleep"} /\ BootHears(m)
    BY DEF CreateLedger, Wakes, NoLedgerYet
  <2>2. pc[m] = "boot"
    BY <1>1, <2>1 DEF PeerInv
  <2> QED
    BY <2>1, <2>2, BootAlone
<1>5. \A n \in Machine : n \in Up => ~ IsOwner(n) /\ ~ Busy(n) /\ \A i \in Nat : ~ LedgerAt(n, i)
  BY <1>4 DEF LedgerAmong, LedgerAt
<1>6. \A n \in Machine : n \notin Up => ~ IsOwner(n) /\ ~ Busy(n) /\ \A i \in Nat : ~ LedgerAt(n, i)
  BY <1>1 DEF PeerInv, IsOwner, Busy, Up, LedgerAt
<1>7. \A n \in Machine : ~ IsOwner(n) /\ ~ Busy(n) /\ \A i \in Nat : ~ LedgerAt(n, i)
  BY <1>5, <1>6
<1>8. /\ pc'[m] = "ledger" /\ ledger'[m] = l /\ UNCHANGED waitFor
      /\ \A n \in Machine \ {m} : /\ pc'[n] = pc[n] /\ ledger'[n] = ledger[n]
                                  /\ cast'[n] = cast[n]
  BY <1>1, <1>3 DEF StartCast, TypeOK
<1>9. \A n \in Machine : IsOwner(n)' <=> n = m
  BY <1>2, <1>7, <1>8 DEF IsOwner
<1>10. \A n \in Machine : \A i \in Nat : ~ LedgerAt(n, i)' /\ ~ TokenAt(n, i)'
  BY <1>3, <1>7, SameChannels DEF TokenAt
<1>11. TokenInv'
  BY <1>9, <1>10 DEF TokenInv
<1>12. \A n \in Machine : cast'[n] # None => n = m
  BY <1>7, <1>8 DEF RingInv, IInv, SendingHasLedger, Busy
<1>13. CastInv'
  BY <1>9, <1>10, <1>12 DEF CastInv
<1>14. TurnInv'
  <2>1. \A n \in Machine : Busy(n)' => n = m
    BY <1>7, <1>8 DEF Busy
  <2>2. \A n \in Machine : ~ observed'[n]
    BY <1>1, <1>3, <1>7 DEF TurnInv
  <2> QED
    BY <2>1, <2>2 DEF TurnInv, OneBroadcaster
<1>15. PeerInv'
  <2>1. Up' = Up /\ m \in Up
    <3>1. \A n \in Machine : pc'[n] # "off" <=> pc[n] # "off"
      BY <1>4, <1>8
    <3> QED
      BY <1>4, <3>1 DEF Up
  <2>2. \A n \in Machine \ {m} : IsOwner(n)' <=> IsOwner(n)
    BY <1>8 DEF IsOwner
  <2> QED
    BY <1>1, <1>2, <1>3, <1>8, <1>9, <2>1, <2>2 DEF PeerInv
<1> QED
  BY <1>11, <1>13, <1>14, <1>15

\* A step that leaves the owners, the books, the channels and the broadcasts
\* of other machines alone, and of m may only end what it does.
LEMMA QuietRing ==
    ASSUME RingInv, NEW m \in Machine, m \in Up,
           \A n \in Machine \ {m} : pc'[n] = pc[n],
           pc'[m] = pc[m] \/ pc'[m] = "sleep",
           \A n \in Machine : ledger'[n] # None <=> ledger[n] # None,
           \A n \in Machine : ledger[n] # None => ledger'[n].owner = ledger[n].owner,
           \A n \in Machine : cast'[n] # None => cast'[n] = cast[n],
           ledger[m] # None \/ pc'[m] = pc[m],
           \A n \in Machine : alert'[n] # None => n \in Up,
           UNCHANGED <<book, rx>>
    PROVE  /\ PeerInv' /\ TokenInv' /\ CastInv'
           /\ \A n \in Machine : IsOwner(n)' <=> IsOwner(n)
           /\ \A n \in Machine : Busy(n)' => Busy(n)
<1>1. PeerInv /\ TokenInv /\ CastInv
  BY DEF RingInv
<1>2. \A n \in Machine : IsOwner(n)' <=> IsOwner(n)
  BY SameOwners
<1>3. /\ \A n \in Machine : \A i \in Nat : LedgerAt(n, i)' <=> LedgerAt(n, i)
      /\ \A n \in Machine : \A i \in Nat : TokenAt(n, i)' <=> TokenAt(n, i)
  BY SameChannels
<1>4. TokenInv'
  BY <1>1, <1>2, <1>3, TokenKept
<1>5. CastInv'
  BY <1>1, <1>2, <1>3, CastKept
<1>6. Up' = Up
  <2>1. \A n \in Machine : pc'[n] # "off" <=> pc[n] # "off"
    BY DEF Up
  <2> QED
    BY <2>1 DEF Up
<1>7. PeerInv'
  BY <1>1, <1>2, <1>6 DEF PeerInv
<1>8. \A n \in Machine : Busy(n)' => Busy(n)
  BY DEF Busy
<1> QED
  BY <1>2, <1>4, <1>5, <1>7, <1>8

\* Going to sleep keeps in mind who is sending.
LEMMA SleepKeeps ==
    ASSUME TypeOK, NEW m \in Machine, Sleep(m)
    PROVE  /\ pc'[m] = "sleep"
           /\ \A n \in Machine \ {m} : pc'[n] = pc[n]
           /\ \A n \in Machine \ {m} : n \in waitFor'[m] <=> Busy(n) \/ rx[n] # <<>>
           /\ \A k, n \in Machine : k # m /\ n # m => (k \in waitFor'[n] <=> k \in waitFor[n])
<1> DEFINE W == {k \in Machine : (k # m /\ Busy(k)) \/ rx[k] # <<>>}
<1>1. pc'[m] = "sleep" /\ \A n \in Machine \ {m} : pc'[n] = pc[n]
  BY DEF TypeOK, Sleep
<1>2. waitFor' = [n \in Machine |->
                     IF n = m
                     THEN W
                     ELSE IF rx[m] = <<>> THEN waitFor[n] \ {m} ELSE waitFor[n]]
  BY DEF Sleep
<1>3. \A n \in Machine \ {m} : n \in W <=> Busy(n) \/ rx[n] # <<>>
  OBVIOUS
<1> HIDE DEF W
<1>4. waitFor'[m] = W /\ \A n \in Machine \ {m} : waitFor'[n] \in {waitFor[n], waitFor[n] \ {m}}
  BY <1>2
<1>5. \A k, n \in Machine : k # m /\ n # m => (k \in waitFor'[n] <=> k \in waitFor[n])
  BY <1>4
<1> QED
  BY <1>1, <1>3, <1>4, <1>5

LEMMA RoundIdleRing ==
    ASSUME RingInv, NEW m \in Machine, RoundIdle(m)
    PROVE  PeerInv' /\ TokenInv' /\ CastInv' /\ TurnInv'
<1>1. TypeOK /\ PeerInv /\ TurnInv
  BY DEF RingInv, IInv
<1>2. /\ UNCHANGED <<ledger, observed, book, cast, alert, rx>> /\ Sleep(m)
      /\ ledger[m] # None /\ pc[m] \in {"boot", "sleep"} /\ OwnerNow(m) # m
  BY DEF RoundIdle, netVars, Wakes, NoLedgerYet
<1>3. m \in Up
  BY <1>2 DEF Up
<1>4. /\ PeerInv' /\ TokenInv' /\ CastInv'
      /\ \A n \in Machine : IsOwner(n)' <=> IsOwner(n)
      /\ \A n \in Machine : Busy(n)' => Busy(n)
  BY <1>1, <1>2, <1>3, SleepKeeps, QuietRing DEF PeerInv
<1>5. ~ Busy(m)' /\ ~ observed[m]
  BY <1>1, <1>2, NoTakeover, SleepKeeps DEF Busy, TurnInv, IsOwner
<1>6. TurnInv'
  <2>1. \A k, n \in Machine : k # n /\ observed'[n] /\ Busy(k)' => k \in waitFor'[n]
    BY <1>1, <1>2, <1>4, <1>5, SleepKeeps DEF TurnInv
  <2> QED
    BY <1>1, <1>2, <1>4, <2>1 DEF TurnInv, OneBroadcaster
<1> QED
  BY <1>4, <1>6

LEMMA RoundObserveRing ==
    ASSUME RingInv, NEW m \in Machine, RoundObserve(m)
    PROVE  PeerInv' /\ TokenInv' /\ CastInv' /\ TurnInv'
<1>1. TypeOK /\ PeerInv /\ TurnInv
  BY DEF RingInv, IInv
<1>2. /\ UNCHANGED <<book, cast, alert, rx>> /\ Sleep(m)
      /\ ledger[m] # None /\ pc[m] \in {"boot", "sleep"} /\ OwnerNow(m) = m
      /\ observed' = [observed EXCEPT ![m] = TRUE]
      /\ ledger' = [ledger EXCEPT ![m].owner = m]
  BY DEF RoundObserve, netVars, Wakes, NoLedgerYet
<1>3. m \in Up
  BY <1>2 DEF Up
<1>4. IsOwner(m) /\ ledger[m] \in Ledger
  BY <1>1, <1>2, NoTakeover DEF IsOwner, TypeOK
<1>5. ledger' = ledger
  <2>1. [ledger[m] EXCEPT !.owner = m] = ledger[m]
    BY <1>4 DEF IsOwner, Ledger
  <2> QED
    BY <1>1, <1>2, <2>1 DEF TypeOK
<1>6. /\ PeerInv' /\ TokenInv' /\ CastInv'
      /\ \A n \in Machine : IsOwner(n)' <=> IsOwner(n)
      /\ \A n \in Machine : Busy(n)' => Busy(n)
  BY <1>1, <1>2, <1>3, <1>5, SleepKeeps, QuietRing DEF PeerInv
<1>7. ~ Busy(m)'
  BY <1>1, <1>2, SleepKeeps DEF Busy
<1>8. \A n \in Machine : observed'[n] => n = m \/ observed[n]
  BY <1>1, <1>2 DEF TypeOK
<1>9. TurnInv'
  <2>1. \A k, n \in Machine : k # n /\ observed'[n] /\ Busy(k)' => k \in waitFor'[n]
    BY <1>1, <1>2, <1>6, <1>7, <1>8, SleepKeeps DEF TurnInv
  <2>2. \A n \in Machine : observed'[n] => IsOwner(n)'
    BY <1>1, <1>4, <1>6, <1>8 DEF TurnInv
  <2> QED
    BY <1>1, <1>6, <2>1, <2>2 DEF TurnInv, OneBroadcaster
<1> QED
  BY <1>6, <1>9

LEMMA EndLedgerCastRing ==
    ASSUME RingInv, NEW m \in Machine, EndLedgerCast(m)
    PROVE  PeerInv' /\ TokenInv' /\ CastInv' /\ TurnInv'
<1>1. TypeOK /\ PeerInv /\ TurnInv
  BY DEF RingInv, IInv
<1>2. /\ UNCHANGED <<ledger, observed, book, alert, rx>> /\ Sleep(m)
      /\ pc[m] = "ledger" /\ cast' = [cast EXCEPT ![m] = None]
  BY DEF EndLedgerCast
<1>3. m \in Up /\ ledger[m] # None
  BY <1>1, <1>2 DEF Up, PeerInv
<1>4. \A n \in Machine : cast'[n] # None => cast'[n] = cast[n]
  BY <1>1, <1>2 DEF TypeOK
<1>5. /\ PeerInv' /\ TokenInv' /\ CastInv'
      /\ \A n \in Machine : IsOwner(n)' <=> IsOwner(n)
      /\ \A n \in Machine : Busy(n)' => Busy(n)
  BY <1>1, <1>2, <1>3, <1>4, SleepKeeps, QuietRing DEF PeerInv
<1>6. \A n \in Machine : ~ Busy(n)'
  BY <1>1, <1>2, <1>5, SleepKeeps DEF Busy, TurnInv, OneBroadcaster
<1>7. TurnInv'
  BY <1>1, <1>2, <1>5, <1>6 DEF TurnInv, OneBroadcaster
<1> QED
  BY <1>5, <1>7

\* A print begins: the owner stays the owner.
LEMMA RoundPrintRing ==
    ASSUME RingInv, NEW m \in Machine, RoundPrint(m)
    PROVE  PeerInv' /\ TokenInv' /\ CastInv' /\ TurnInv'
<1>1. TypeOK /\ PeerInv /\ TokenInv /\ CastInv /\ TurnInv
  BY DEF RingInv, IInv
<1>2. /\ IsOwner(m) /\ pc[m] \in {"boot", "sleep"}
      /\ \A n \in Machine : ~ Busy(n)
  BY ActsAlone DEF RoundPrint, NoLedgerYet
<1>3. /\ pc' = [pc EXCEPT ![m] = "accepted"]
      /\ UNCHANGED <<observed, book, waitFor, rx, cast, alert>>
  BY DEF RoundPrint, netVars
<1>4. PICK J : ledger' = [ledger EXCEPT ![m] = [owner |-> m, jobs |-> J]]
  BY DEF RoundPrint
<1>5. /\ pc'[m] = "accepted" /\ ledger'[m].owner = m
      /\ \A n \in Machine \ {m} : pc'[n] = pc[n] /\ ledger'[n] = ledger[n]
  BY <1>1, <1>3, <1>4 DEF TypeOK
<1>6. \A n \in Machine : ledger'[n] # None <=> ledger[n] # None
  <2>1. IInv'
    BY RoundPrintIInv DEF RingInv
  <2>2. ledger'[m] # None
    BY <1>5, <2>1 DEF IInv, SendingHasLedger
  <2> QED
    BY <1>2, <1>5, <2>2 DEF IsOwner
<1>7. \A n \in Machine : IsOwner(n)' <=> IsOwner(n)
  BY <1>2, <1>5, <1>6 DEF IsOwner
<1>8. /\ \A n \in Machine : \A i \in Nat : LedgerAt(n, i)' <=> LedgerAt(n, i)
      /\ \A n \in Machine : \A i \in Nat : TokenAt(n, i)' <=> TokenAt(n, i)
  BY <1>3, SameChannels
<1>9. TokenInv' /\ CastInv'
  BY <1>1, <1>3, <1>7, <1>8, TokenKept, CastKept
<1>10. TurnInv'
  <2>1. \A n \in Machine : Busy(n)' => n = m
    BY <1>2, <1>5 DEF Busy
  <2>2. \A n \in Machine : observed'[n] => n = m /\ IsOwner(n)'
    BY <1>1, <1>2, <1>3, <1>7 DEF TurnInv, TokenInv
  <2> QED
    BY <2>1, <2>2 DEF TurnInv, OneBroadcaster
<1>11. PeerInv'
  <2>1. Up' = Up
    <3>1. \A n \in Machine : pc'[n] # "off" <=> pc[n] # "off"
      BY <1>2, <1>5
    <3> QED
      BY <3>1 DEF Up
  <2>2. /\ \A n \in Machine : pc'[n] = "accepted" => IsOwner(n)'
        /\ \A n \in Machine : pc'[n] \in {"sleep", "accepted", "ledger"} => ledger'[n] # None
    BY <1>1, <1>2, <1>5, <1>6, <1>7 DEF PeerInv, IsOwner
  <2> QED
    BY <1>1, <1>3, <1>6, <1>7, <2>1, <2>2 DEF PeerInv
<1> QED
  BY <1>9, <1>10, <1>11

-----------------------------------------------------------------------------
(* Packets.                                                                *)

\* What the channels hold after a delivery.
LEMMA Delivered ==
    ASSUME TypeOK, NEW N, NEW p \in Packet, Deliver(N, p), NEW n \in Machine, NEW i \in Nat
    PROVE  /\ rx'[n] = IF n \in N THEN Append(rx[n], p) ELSE rx[n]
           /\ LedgerAt(n, i)' => LedgerAt(n, i) \/ (n \in N /\ p.kind = "ledger" /\ i = Len(rx[n]) + 1)
           /\ TokenAt(n, i)' => TokenAt(n, i) \/ (n \in N /\ p.kind = "ledger" /\ p.owner = n /\ i = Len(rx[n]) + 1)
           /\ LedgerAt(n, i) => i <= Len(rx[n])
<1>1. rx[n] \in Seq(Packet) /\ rx'[n] = IF n \in N THEN Append(rx[n], p) ELSE rx[n]
  BY DEF TypeOK, Deliver
<1>2. LedgerAt(n, i) => i <= Len(rx[n])
  BY <1>1 DEF LedgerAt
<1>3. CASE n \notin N
  BY <1>1, <1>2, <1>3 DEF LedgerAt, TokenAt
<1>4. CASE n \in N
  <2> DEFINE s == rx[n]
             k == Len(s)
  <2>1. s \in Seq(Packet) /\ k \in Nat /\ rx'[n] = Append(s, p)
    BY <1>1, <1>4
  <2>2. /\ DOMAIN s = 1..k
        /\ DOMAIN Append(s, p) = 1..(k + 1)
        /\ Append(s, p)[k + 1] = p
        /\ \A x \in 1..k : Append(s, p)[x] = s[x]
    BY <2>1
  <2>3. LedgerAt(n, i)' <=> i \in 1..(k + 1) /\ Append(s, p)[i].kind = "ledger"
    BY <2>1, <2>2 DEF LedgerAt
  <2>4. LedgerAt(n, i) <=> i \in 1..k /\ s[i].kind = "ledger"
    BY <2>2 DEF LedgerAt
  <2>5. /\ TokenAt(n, i)' <=> LedgerAt(n, i)' /\ Append(s, p)[i].owner = n
        /\ TokenAt(n, i) <=> LedgerAt(n, i) /\ s[i].owner = n
    BY <2>1 DEF TokenAt
  <2> HIDE DEF s, k
  <2>6. i \in 1..(k + 1) => i \in 1..k \/ i = k + 1
    BY <2>1
  <2>7. /\ LedgerAt(n, i)' => LedgerAt(n, i) \/ (p.kind = "ledger" /\ i = k + 1)
        /\ TokenAt(n, i)' => TokenAt(n, i) \/ (p.kind = "ledger" /\ p.owner = n /\ i = k + 1)
    BY <2>2, <2>3, <2>4, <2>5, <2>6
  <2> QED
    BY <1>1, <1>2, <1>4, <2>7 DEF s, k
<1> QED
  BY <1>3, <1>4

\* A copy of the ledger goes to machines that have not heard it.
LEMMA SendLedgerCopyRing ==
    ASSUME RingInv, NEW m \in Machine, SendLedgerCopy(m)
    PROVE  PeerInv' /\ TokenInv' /\ CastInv' /\ TurnInv'
<1>1. Reliable /\ TypeOK /\ PeerInv /\ TokenInv /\ CastInv /\ TurnInv
  BY DEF RingInv, IInv
<1>2. cast[m] # None /\ cast[m] \in LedgerCast
  BY <1>1 DEF RingInv, IInv, TypeOK, SendingHasLedger, SendLedgerCopy
<1> DEFINE p == [kind |-> "ledger", from |-> m, owner |-> cast[m].owner, jobs |-> cast[m].jobs]
<1>3. PICK R \in Reached(m) :
         /\ Deliver(Kept(R, cast[m].heard), p)
         /\ cast' = [cast EXCEPT ![m] = AfterCopy(cast[m], Kept(R, cast[m].heard))]
  BY DEF SendLedgerCopy
<1> DEFINE new == Kept(R, cast[m].heard)
<1>4. new \subseteq (Up \ {m}) \ cast[m].heard
  BY <1>1, <1>3 DEF Reliable, Reached, Listeners, Kept
<1>5. p \in Packet /\ p.kind = "ledger" /\ p.owner = cast[m].owner /\ p.from = m
  BY <1>2 DEF LedgerCast, Packet, LedgerPacket
<1>6. /\ cast'[m].owner = cast[m].owner /\ cast'[m].heard = cast[m].heard \cup new
      /\ \A n \in Machine \ {m} : cast'[n] = cast[n]
  BY <1>1, <1>2, <1>3 DEF TypeOK, AfterCopy, LedgerCast
<1>7. UNCHANGED <<pc, ledger, observed, book, waitFor, alert>>
  BY DEF SendLedgerCopy
<1>8. Deliver(new, p)
  BY <1>3
<1> HIDE DEF new, p
<1>9. \A n \in Machine : \A i \in Nat :
         /\ rx'[n] = IF n \in new THEN Append(rx[n], p) ELSE rx[n]
         /\ LedgerAt(n, i)' => LedgerAt(n, i) \/ (n \in new /\ i = Len(rx[n]) + 1)
         /\ TokenAt(n, i)' => \/ TokenAt(n, i)
                              \/ n \in new /\ cast[m].owner = n /\ i = Len(rx[n]) + 1
         /\ LedgerAt(n, i) => i <= Len(rx[n])
         /\ Len(rx[n]) \in Nat
  BY <1>1, <1>5, <1>8, Delivered DEF TypeOK
<1>10. \A n \in Machine : IsOwner(n)' <=> IsOwner(n)
  BY <1>7 DEF IsOwner
<1>11. \A n \in Machine : IsOwner(n) => n \notin new /\ (n = cast[m].owner => n = m \/ n \in cast[m].heard)
  BY <1>1, <1>2, <1>4 DEF CastInv, Told
<1>12. \A n \in Machine : \A i \in Nat : TokenAt(n, i) => Told(m, n) /\ n \notin new
  BY <1>1, <1>2, <1>4 DEF CastInv, Told
<1>13. TokenInv'
  <2>1. \A k, n \in Machine : IsOwner(k)' /\ IsOwner(n)' => k = n
    BY <1>1, <1>10 DEF TokenInv
  <2>2. ASSUME NEW k \in Machine, NEW n \in Machine, NEW i \in Nat, IsOwner(k)', TokenAt(n, i)'
        PROVE  FALSE
    <3>1. IsOwner(k) /\ ~ TokenAt(n, i)
      BY <1>1, <1>10, <2>2 DEF TokenInv
    <3>2. n \in new /\ cast[m].owner = n
      BY <1>9, <2>2, <3>1
    <3>3. k = m \/ Told(m, k)
      BY <1>1, <1>2, <3>1 DEF CastInv
    <3>4. CASE k = m
      <4>1. BroadcastIsCurrent
        BY DEF RingInv, IInv
      <4>2. ledger[m] = [owner |-> cast[m].owner, jobs |-> cast[m].jobs]
        BY <1>2, <4>1 DEF BroadcastIsCurrent
      <4>3. ledger[m].owner = cast[m].owner
        BY <4>2
      <4> QED
        BY <1>4, <3>1, <3>2, <3>4, <4>3 DEF IsOwner
    <3>5. CASE Told(m, k)
      BY <1>4, <3>2, <3>5 DEF Told
    <3> QED
      BY <3>3, <3>4, <3>5
  <2>3. ASSUME NEW k \in Machine, NEW n \in Machine, NEW i \in Nat, NEW j \in Nat,
               TokenAt(k, i)', TokenAt(n, j)'
        PROVE  k = n
    BY <1>1, <1>9, <1>12, <2>3 DEF TokenInv, Told
  <2>4. ASSUME NEW n \in Machine, NEW i \in Nat, NEW j \in Nat, TokenAt(n, i)', LedgerAt(n, j)'
        PROVE  j <= i
    <3>1. CASE TokenAt(n, i)
      BY <1>1, <1>9, <1>12, <2>4, <3>1 DEF TokenInv
    <3>2. CASE n \in new /\ i = Len(rx[n]) + 1
      BY <1>9, <2>4, <3>2
    <3> QED
      BY <1>9, <2>4, <3>1, <3>2
  <2>5. \A n \in Machine : \A i \in Nat : IsOwner(n)' => ~ LedgerAt(n, i)'
    BY <1>1, <1>9, <1>10, <1>11 DEF TokenInv
  <2> QED
    BY <2>1, <2>2, <2>3, <2>4, <2>5 DEF TokenInv
<1>14. \A k \in Machine : cast'[k] # None => k = m
  <2>1. \A k \in Machine : cast[k] # None => Busy(k)
    BY DEF RingInv, IInv, SendingHasLedger, Busy
  <2> QED
    BY <1>1, <1>2, <1>6, <2>1 DEF TurnInv, OneBroadcaster
<1>15. CastInv'
  <2>1. \A n \in Machine : IsOwner(n)' => n = m \/ Told(m, n)'
    BY <1>1, <1>2, <1>6, <1>10 DEF CastInv, Told
  <2>2. \A n \in Machine : \A i \in Nat : TokenAt(n, i)' => Told(m, n)'
    BY <1>6, <1>9, <1>12 DEF Told
  <2> QED
    BY <1>14, <2>1, <2>2 DEF CastInv
<1>16. TurnInv'
  BY <1>1, <1>7 DEF TurnInv, OneBroadcaster, IsOwner, Busy
<1>17. PeerInv'
  <2>1. Up' = Up /\ m \in Up
    BY <1>7 DEF Up, SendLedgerCopy
  <2>2. ASSUME NEW n \in Machine, NEW i \in DOMAIN rx'[n] PROVE rx'[n][i].from \in Up \ {n}
    <3>1. rx[n] \in Seq(Packet)
      BY <1>1 DEF TypeOK
    <3>2. CASE n \in new
      <4>1. rx'[n] = Append(rx[n], p)
        BY <1>9, <3>2, 0 \in Nat
      <4>2. i \in 1..(Len(rx[n]) + 1)
        BY <2>2, <3>1, <4>1
      <4>3. CASE i = Len(rx[n]) + 1
        BY <1>4, <1>5, <2>1, <3>1, <3>2, <4>1, <4>3
      <4>4. CASE i # Len(rx[n]) + 1
        <5>1. i \in DOMAIN rx[n] /\ rx'[n][i] = rx[n][i]
          BY <3>1, <4>1, <4>2, <4>4
        <5> QED
          BY <1>1, <5>1 DEF PeerInv
      <4> QED
        BY <4>3, <4>4
    <3>3. CASE n \notin new
      BY <1>1, <1>9, <2>2, <3>3, 0 \in Nat DEF PeerInv
    <3> QED
      BY <3>2, <3>3
  <2>3. \A n \in Machine : n \notin Up => rx'[n] = rx[n]
    BY <1>4, <1>9, 0 \in Nat
  <2> QED
    BY <1>1, <1>7, <1>10, <2>1, <2>2, <2>3 DEF PeerInv
<1> QED
  BY <1>13, <1>15, <1>16, <1>17

\* What the channels hold after m has read a packet.
LEMMA Read ==
    ASSUME TypeOK, NEW m \in Machine, rx[m] # <<>>, rx' = [rx EXCEPT ![m] = Tail(rx[m])],
           NEW n \in Machine, NEW i \in Nat
    PROVE  /\ n # m => (LedgerAt(n, i)' <=> LedgerAt(n, i)) /\ (TokenAt(n, i)' <=> TokenAt(n, i))
           /\ LedgerAt(m, i)' => LedgerAt(m, i + 1) /\ i >= 1
           /\ TokenAt(m, i)' => TokenAt(m, i + 1) /\ i >= 1
           /\ i \in DOMAIN rx'[m] => i + 1 \in DOMAIN rx[m] /\ rx'[m][i] = rx[m][i + 1]
           /\ LedgerAt(m, 1) <=> Head(rx[m]).kind = "ledger"
           /\ TokenAt(m, 1) <=> Head(rx[m]).kind = "ledger" /\ Head(rx[m]).owner = m
<1>1. rx[m] \in Seq(Packet) /\ rx'[m] = Tail(rx[m])
  BY DEF TypeOK
<1>2. n # m => rx'[n] = rx[n]
  BY DEF TypeOK
<1>3. n # m => (LedgerAt(n, i)' <=> LedgerAt(n, i)) /\ (TokenAt(n, i)' <=> TokenAt(n, i))
  BY <1>2 DEF LedgerAt, TokenAt
<1>4. i \in DOMAIN Tail(rx[m]) => i >= 1 /\ i + 1 \in DOMAIN rx[m] /\ Tail(rx[m])[i] = rx[m][i + 1]
  BY <1>1
<1>5. /\ LedgerAt(m, i)' => LedgerAt(m, i + 1) /\ i >= 1
      /\ TokenAt(m, i)' => TokenAt(m, i + 1) /\ i >= 1
  BY <1>1, <1>4 DEF LedgerAt, TokenAt
<1>6. 1 \in DOMAIN rx[m] /\ Head(rx[m]) = rx[m][1]
  BY <1>1
<1> QED
  BY <1>1, <1>3, <1>4, <1>5, <1>6 DEF LedgerAt, TokenAt

\* The book of a machine that hears another one.
LEMMA InsertKeeps ==
    ASSUME NEW b, NEW a
    PROVE  /\ b \subseteq InsertAddr(b, a) /\ InsertAddr(b, a) \subseteq b \cup {a}
           /\ InsertAddr(b, a) # {}
<1>1. b = {} => Cardinality(b) = 0
  BY FS_EmptySet
<1> QED
  BY <1>1, CapAssumption DEF InsertAddr

\* A packet is read: if it is the token, no other is left.
LEMMA ReceiveRing ==
    ASSUME RingInv, NEW m \in Machine, Receive(m)
    PROVE  PeerInv' /\ TokenInv' /\ CastInv' /\ TurnInv'
<1>1. TypeOK /\ PeerInv /\ TokenInv /\ CastInv /\ TurnInv
  BY DEF RingInv, IInv
<1> DEFINE p == Head(rx[m])
<1>2. /\ rx[m] # <<>> /\ m \in Up /\ ~ Busy(m)
      /\ rx' = [rx EXCEPT ![m] = Tail(rx[m])]
      /\ book' = [book EXCEPT ![m] = InsertAddr(book[m], p.from)]
      /\ UNCHANGED <<pc, observed, cast, alert>>
  BY <1>1 DEF Receive, MutexesFree, TypeOK
<1>3. \A k, n \in Machine : k # m => (k \in waitFor'[n] <=> k \in waitFor[n])
  <2>1. waitFor' = [n \in Machine |-> IF Len(rx[m]) = 1 THEN waitFor[n] \ {m} ELSE waitFor[n]]
    BY DEF Receive
  <2> QED
    BY <2>1
<1>4. p \in Packet
  BY <1>1, <1>2 DEF TypeOK
<1>5. \A n \in Machine : \A i \in Nat :
         /\ n # m => (LedgerAt(n, i)' <=> LedgerAt(n, i)) /\ (TokenAt(n, i)' <=> TokenAt(n, i))
         /\ LedgerAt(m, i)' => LedgerAt(m, i + 1) /\ i >= 1
         /\ TokenAt(m, i)' => TokenAt(m, i + 1) /\ i >= 1
         /\ i \in DOMAIN rx'[m] => i + 1 \in DOMAIN rx[m] /\ rx'[m][i] = rx[m][i + 1]
         /\ LedgerAt(m, 1) <=> p.kind = "ledger"
         /\ TokenAt(m, 1) <=> p.kind = "ledger" /\ p.owner = m
  BY <1>1, <1>2, Read
<1>6. /\ \A n \in Machine \ {m} : ledger'[n] = ledger[n]
      /\ \/ /\ p.kind = "newjob"
            /\ ledger'[m] # None <=> ledger[m] # None
            /\ ledger[m] # None => ledger'[m].owner = ledger[m].owner
         \/ p.kind = "ledger" /\ ledger'[m] # None /\ ledger'[m].owner = p.owner
  <2>1. CASE p.kind = "newjob"
    <3>1. p.guid \in Job
      BY <1>4, <2>1 DEF Packet, LedgerPacket, NewJobPacket
    <3>2. ledger' = IF ledger[m] = None
                    THEN ledger
                    ELSE [ledger EXCEPT ![m].jobs = InsertJob(@, p.guid)]
      BY <2>1 DEF Receive
    <3> HIDE DEF p
    <3>3. CASE ledger[m] = None
      BY <2>1, <3>2, <3>3
    <3>4. CASE ledger[m] # None
      <4>1. ledger[m] \in Ledger /\ InsertJob(ledger[m].jobs, p.guid) \in SUBSET Job
        BY <1>1, <3>1, <3>4, InsertJobType DEF TypeOK, Ledger
      <4>2. ledger' = [ledger EXCEPT ![m] = [ledger[m] EXCEPT !.jobs = InsertJob(ledger[m].jobs, p.guid)]]
        BY <3>2, <3>4
      <4>3. /\ ledger'[m] = [ledger[m] EXCEPT !.jobs = InsertJob(ledger[m].jobs, p.guid)]
            /\ \A n \in Machine \ {m} : ledger'[n] = ledger[n]
        BY <1>1, <4>2 DEF TypeOK
      <4>4. ledger'[m] \in Ledger /\ ledger'[m].owner = ledger[m].owner
        BY <4>1, <4>3 DEF Ledger
      <4> QED
        BY <2>1, <3>4, <4>3, <4>4, NoneAssumption
    <3> QED
      BY <3>3, <3>4
  <2>2. CASE p.kind = "ledger"
    <3>1. [owner |-> p.owner, jobs |-> p.jobs] \in Ledger
      BY <1>4, <2>2 DEF Packet, LedgerPacket, NewJobPacket, Ledger
    <3>2. ledger' = [ledger EXCEPT ![m] = [owner |-> p.owner, jobs |-> p.jobs]]
      BY <2>2 DEF Receive
    <3> HIDE DEF p
    <3>3. /\ ledger'[m] = [owner |-> p.owner, jobs |-> p.jobs]
          /\ \A n \in Machine \ {m} : ledger'[n] = ledger[n]
      BY <1>1, <3>2 DEF TypeOK
    <3> QED
      BY <2>2, <3>1, <3>3, NoneAssumption
  <2>3. p.kind \in {"newjob", "ledger"}
    BY <1>4 DEF Packet, LedgerPacket, NewJobPacket
  <2> QED
    BY <2>1, <2>2, <2>3
<1> HIDE DEF p
<1>7. /\ \A n \in Machine \ {m} : IsOwner(n)' <=> IsOwner(n)
      /\ p.kind = "newjob" => (IsOwner(m)' <=> IsOwner(m))
      /\ p.kind = "ledger" => (IsOwner(m)' <=> TokenAt(m, 1))
  BY <1>5, <1>6, 1 \in Nat DEF IsOwner
<1>8. \A n \in Machine : IsOwner(n) => IsOwner(n)'
  BY <1>1, <1>5, <1>6, <1>7, 1 \in Nat DEF TokenInv
<1>9. IsOwner(m)' => IsOwner(m) \/ TokenAt(m, 1)
  BY <1>6, <1>7
<1>10. ASSUME TokenAt(m, 1)
       PROVE  /\ \A n \in Machine : ~ IsOwner(n)
              /\ \A n \in Machine : \A i \in Nat : ~ TokenAt(n, i)'
              /\ \A i \in Nat : ~ LedgerAt(m, i)'
  <2>1. \A n \in Machine : ~ IsOwner(n)
    BY <1>1, <1>10, 1 \in Nat DEF TokenInv
  <2>2. ASSUME NEW i \in Nat PROVE ~ LedgerAt(m, i)'
    <3>1. LedgerAt(m, i)' => LedgerAt(m, i + 1) /\ i >= 1
      BY <1>5
    <3>2. LedgerAt(m, i + 1) => i + 1 <= 1
      BY <1>1, <1>10, 1 \in Nat, i + 1 \in Nat DEF TokenInv
    <3> QED
      BY <3>1, <3>2
  <2>3. ASSUME NEW n \in Machine, NEW i \in Nat PROVE ~ TokenAt(n, i)'
    <3>1. CASE n = m
      BY <2>2, <3>1 DEF TokenAt
    <3>2. CASE n # m
      BY <1>1, <1>5, <1>10, <3>2, 1 \in Nat DEF TokenInv
    <3> QED
      BY <3>1, <3>2
  <2> QED
    BY <2>1, <2>2, <2>3
<1>11. TokenInv'
  <2>1. CASE TokenAt(m, 1)
    <3>1. \A n \in Machine : IsOwner(n)' => n = m
      BY <1>7, <1>10, <2>1
    <3> QED
      BY <1>10, <2>1, <3>1 DEF TokenInv
  <2>2. CASE ~ TokenAt(m, 1)
    <3>1. \A n \in Machine : IsOwner(n)' => IsOwner(n)
      BY <1>7, <1>9, <2>2
    <3>2. \A n \in Machine : \A i \in Nat : IsOwner(n)' => ~ LedgerAt(n, i)'
      <4>1. ASSUME NEW i \in Nat, IsOwner(m) PROVE ~ LedgerAt(m, i)'
        BY <1>1, <1>5, <4>1, i + 1 \in Nat DEF TokenInv
      <4> QED
        BY <1>1, <1>5, <3>1, <4>1 DEF TokenInv
    <3>3. \A n \in Machine : \A i \in Nat : TokenAt(n, i)' => \E k \in Nat : TokenAt(n, k)
      BY <1>5
    <3>4. ASSUME NEW n \in Machine, NEW i \in Nat, NEW j \in Nat, TokenAt(n, i)', LedgerAt(n, j)'
          PROVE  j <= i
      <4>1. CASE n = m
        <5>1. TokenAt(m, i + 1) /\ LedgerAt(m, j + 1) /\ i + 1 \in Nat /\ j + 1 \in Nat
          BY <1>5, <3>4, <4>1
        <5>2. j + 1 <= i + 1
          BY <1>1, <5>1 DEF TokenInv
        <5> QED
          BY <5>2
      <4>2. CASE n # m
        BY <1>1, <1>5, <3>4, <4>2 DEF TokenInv
      <4> QED
        BY <4>1, <4>2
    <3> QED
      BY <1>1, <3>1, <3>2, <3>3, <3>4 DEF TokenInv
  <2> QED
    BY <2>1, <2>2
<1>12. CastInv'
  <2>1. \A n \in Machine : IsOwner(n)' => IsOwner(n) \/ \E k \in Nat : TokenAt(n, k)
    BY <1>7, <1>9, 1 \in Nat
  <2>2. \A n \in Machine : \A i \in Nat : TokenAt(n, i)' => \E k \in Nat : TokenAt(n, k)
    BY <1>5
  <2> QED
    BY <1>1, <1>2, <2>1, <2>2 DEF CastInv, Told
<1>13. TurnInv'
  <2>1. \A n \in Machine : Busy(n)' <=> Busy(n)
    BY <1>2 DEF Busy
  <2>2. \A n \in Machine : observed'[n] => observed[n] /\ IsOwner(n)'
    BY <1>1, <1>2, <1>8 DEF TurnInv
  <2> QED
    BY <1>1, <1>2, <1>3, <2>1, <2>2, TurnKept
<1>14. PeerInv'
  <2>1. Up' = Up
    BY <1>2 DEF Up
  <2>2. p.from \in Up \ {m}
    <3>1. rx[m][1] = p /\ 1 \in DOMAIN rx[m]
      BY <1>1, <1>2 DEF TypeOK, p
    <3> QED
      BY <1>1, <3>1 DEF PeerInv
  <2>3. /\ book'[m] \subseteq Up \ {m} /\ book'[m] # {}
        /\ \A n \in Machine \ {m} : book'[n] = book[n]
    <3>1. book'[m] = InsertAddr(book[m], p.from) /\ \A n \in Machine \ {m} : book'[n] = book[n]
      BY <1>1, <1>2 DEF TypeOK
    <3> QED
      BY <1>1, <2>2, <3>1, InsertKeeps DEF PeerInv
  <2>4. \A n \in Machine : \A i \in DOMAIN rx'[n] : rx'[n][i].from \in Up \ {n}
    <3>1. \A n \in Machine \ {m} : rx'[n] = rx[n]
      BY <1>1, <1>2 DEF TypeOK
    <3>2. ASSUME NEW i \in DOMAIN rx'[m] PROVE rx'[m][i].from \in Up \ {m}
      <4>1. i \in Nat
        BY <1>1, <1>2, <3>2 DEF TypeOK
      <4> QED
        BY <1>1, <1>5, <3>2, <4>1 DEF PeerInv
    <3> QED
      BY <1>1, <3>1, <3>2 DEF PeerInv
  <2>5. \A n \in Machine : ledger[n] # None => ledger'[n] # None
    BY <1>6
  <2>6. \A n \in Machine : n \notin Up => n # m /\ rx'[n] = rx[n] /\ ledger'[n] = ledger[n]
    BY <1>1, <1>2, <1>6 DEF TypeOK
  <2> QED
    BY <1>1, <1>2, <1>6, <1>7, <1>8, <2>1, <2>3, <2>4, <2>5, <2>6 DEF PeerInv
<1> QED
  BY <1>11, <1>12, <1>13, <1>14

\* An alert goes out: its packets are not ledgers.
LEMMA SendAlertCopyRing ==
    ASSUME RingInv, NEW m \in Machine, SendAlertCopy(m)
    PROVE  PeerInv' /\ TokenInv' /\ CastInv' /\ TurnInv'
<1>1. Reliable /\ TypeOK /\ PeerInv /\ TokenInv /\ CastInv /\ TurnInv
  BY DEF RingInv, IInv
<1>2. alert[m] # None /\ alert[m] \in JobAlert /\ m \in Up
  BY <1>1 DEF TypeOK, PeerInv, SendAlertCopy
<1> DEFINE p == [kind |-> "newjob", from |-> m, guid |-> alert[m].guid]
<1>3. PICK R \in Reached(m) :
         /\ Deliver(Kept(R, alert[m].heard), p)
         /\ alert' = [alert EXCEPT ![m] = AfterCopy(alert[m], Kept(R, alert[m].heard))]
  BY DEF SendAlertCopy
<1> DEFINE new == Kept(R, alert[m].heard)
<1>4. new \subseteq Up \ {m}
  BY <1>1, <1>3 DEF Reliable, Reached, Listeners, Kept
<1>5. p \in Packet /\ p.kind # "ledger" /\ p.from = m
  BY <1>2 DEF JobAlert, Packet, NewJobPacket
<1>6. UNCHANGED <<pc, ledger, observed, book, waitFor, cast>>
  BY DEF SendAlertCopy
<1>7. Deliver(new, p)
  BY <1>3
<1>8. \A n \in Machine \ {m} : alert'[n] = alert[n]
  BY <1>1, <1>3 DEF TypeOK
<1> HIDE DEF new, p
<1>9. \A n \in Machine : \A i \in Nat :
         /\ rx'[n] = IF n \in new THEN Append(rx[n], p) ELSE rx[n]
         /\ LedgerAt(n, i)' => LedgerAt(n, i)
         /\ TokenAt(n, i)' => TokenAt(n, i)
  BY <1>1, <1>5, <1>7, Delivered
<1>10. \A n \in Machine : (IsOwner(n)' <=> IsOwner(n)) /\ (Busy(n)' <=> Busy(n))
  BY <1>6 DEF IsOwner, Busy
<1>11. TokenInv' /\ CastInv'
  BY <1>1, <1>6, <1>9, <1>10, TokenKept, CastKept
<1>12. TurnInv'
  BY <1>1, <1>6, <1>10 DEF TurnInv, OneBroadcaster
<1>13. PeerInv'
  <2>1. Up' = Up
    BY <1>6 DEF Up
  <2>2. ASSUME NEW n \in Machine, NEW i \in DOMAIN rx'[n] PROVE rx'[n][i].from \in Up \ {n}
    <3>1. rx[n] \in Seq(Packet)
      BY <1>1 DEF TypeOK
    <3>2. CASE n \in new
      <4>1. rx'[n] = Append(rx[n], p)
        BY <1>9, <3>2, 0 \in Nat
      <4>2. i \in 1..(Len(rx[n]) + 1)
        BY <2>2, <3>1, <4>1
      <4>3. CASE i = Len(rx[n]) + 1
        BY <1>2, <1>4, <1>5, <3>1, <3>2, <4>1, <4>3
      <4>4. CASE i # Len(rx[n]) + 1
        <5>1. i \in DOMAIN rx[n] /\ rx'[n][i] = rx[n][i]
          BY <3>1, <4>1, <4>2, <4>4
        <5> QED
          BY <1>1, <5>1 DEF PeerInv
      <4> QED
        BY <4>3, <4>4
    <3>3. CASE n \notin new
      BY <1>1, <1>9, <2>2, <3>3, 0 \in Nat DEF PeerInv
    <3> QED
      BY <3>2, <3>3
  <2>3. \A n \in Machine : n \notin Up => n # m /\ rx'[n] = rx[n]
    BY <1>2, <1>4, <1>9, 0 \in Nat
  <2> QED
    BY <1>1, <1>6, <1>8, <1>10, <2>1, <2>2, <2>3 DEF PeerInv
<1> QED
  BY <1>11, <1>12, <1>13

-----------------------------------------------------------------------------
(* The other tasks.                                                        *)

\* A step that leaves manage_ledger, the owners, the books, the channels and
\* the broadcasts alone.
LEMMA AsideRing ==
    ASSUME RingInv,
           UNCHANGED <<pc, observed, waitFor, cast, rx, book>>,
           \A n \in Machine : ledger'[n] # None <=> ledger[n] # None,
           \A n \in Machine : ledger[n] # None => ledger'[n].owner = ledger[n].owner,
           \A n \in Machine : alert'[n] # None => n \in Up
    PROVE  PeerInv' /\ TokenInv' /\ CastInv' /\ TurnInv'
<1>1. PeerInv /\ TokenInv /\ CastInv /\ TurnInv
  BY DEF RingInv
<1>2. \A n \in Machine : (IsOwner(n)' <=> IsOwner(n)) /\ (Busy(n)' <=> Busy(n))
  BY SameOwners DEF Busy
<1>3. TokenInv' /\ CastInv'
  BY <1>1, <1>2, SameChannels, TokenKept, CastKept
<1>4. TurnInv'
  BY <1>1, <1>2 DEF TurnInv, OneBroadcaster
<1>5. Up' = Up
  BY DEF Up
<1>6. PeerInv'
  BY <1>1, <1>2, <1>5 DEF PeerInv
<1> QED
  BY <1>3, <1>4, <1>6

LEMMA AppendToLedgerRing ==
    ASSUME RingInv, NEW m \in Machine, NEW j \in Job, AppendToLedger(m, j)
    PROVE  PeerInv' /\ TokenInv' /\ CastInv' /\ TurnInv'
<1>1. TypeOK /\ PeerInv
  BY DEF RingInv, IInv
<1>2. UNCHANGED <<pc, observed, waitFor, cast, rx, book>> /\ m \in Up
  BY DEF AppendToLedger
<1>3. /\ \A n \in Machine : ledger'[n] # None <=> ledger[n] # None
      /\ \A n \in Machine : ledger[n] # None => ledger'[n].owner = ledger[n].owner
  <2>1. CASE IsOwner(m)
    <3>1. ledger[m] \in Ledger /\ InsertJob(ledger[m].jobs, j) \in SUBSET Job
      BY <1>1, <2>1, InsertJobType DEF TypeOK, IsOwner, Ledger
    <3>2. ledger' = [ledger EXCEPT ![m] = [ledger[m] EXCEPT !.jobs = InsertJob(ledger[m].jobs, j)]]
      BY <2>1 DEF AppendToLedger
    <3>3. /\ ledger'[m] = [ledger[m] EXCEPT !.jobs = InsertJob(ledger[m].jobs, j)]
          /\ \A n \in Machine \ {m} : ledger'[n] = ledger[n]
      BY <1>1, <3>2 DEF TypeOK
    <3>4. ledger'[m] \in Ledger /\ ledger'[m].owner = ledger[m].owner
      BY <3>1, <3>3 DEF Ledger
    <3> QED
      BY <3>1, <3>3, <3>4, NoneAssumption
  <2>2. CASE ~ IsOwner(m)
    BY <2>2 DEF AppendToLedger
  <2> QED
    BY <2>1, <2>2
<1>4. \A n \in Machine : alert'[n] # None => n \in Up
  <2>1. \A n \in Machine \ {m} : alert'[n] = alert[n]
    BY <1>1 DEF AppendToLedger, TypeOK
  <2> QED
    BY <1>1, <1>2, <2>1 DEF PeerInv
<1> QED
  BY <1>2, <1>3, <1>4, AsideRing

LEMMA AsideStepsRing ==
    ASSUME RingInv, NEW m \in Machine,
           EndAlert(m) \/ GoStale(m) \/ ToggleReady(m) \/ \E j \in Job : FileArrives(m, j)
    PROVE  PeerInv' /\ TokenInv' /\ CastInv' /\ TurnInv'
<1>1. TypeOK /\ PeerInv
  BY DEF RingInv, IInv
<1>2. UNCHANGED <<pc, observed, waitFor, cast, rx, book, ledger>>
  BY DEF EndAlert, GoStale, ToggleReady, FileArrives, netVars
<1>3. \A n \in Machine : alert'[n] # None => alert[n] # None
  BY <1>1 DEF EndAlert, GoStale, ToggleReady, FileArrives, netVars, TypeOK
<1> QED
  BY <1>1, <1>2, <1>3, AsideRing DEF PeerInv

\* Machines that are up stay in the books, and no book lists its own machine.
LEMMA UpdateBookRing ==
    ASSUME RingInv, NEW m \in Machine, UpdateBook(m)
    PROVE  PeerInv' /\ TokenInv' /\ CastInv' /\ TurnInv'
<1>1. Reliable /\ TypeOK /\ PeerInv /\ TokenInv /\ CastInv /\ TurnInv
  BY DEF RingInv, IInv
<1>2. PICK a \in Machine : HearHeartbeat(m, a)
  BY <1>1 DEF UpdateBook, ExpireAddress, MayExpire, Reliable, PeerInv
<1>3. /\ UNCHANGED <<pc, ledger, observed, waitFor, cast, alert, rx>>
      /\ book' = [book EXCEPT ![m] = InsertAddr(book[m], a)]
      /\ a \in Up \ {m}
  BY <1>1, <1>2 DEF HearHeartbeat, netVars, Listeners, Reliable
<1>4. \A n \in Machine : (IsOwner(n)' <=> IsOwner(n)) /\ (Busy(n)' <=> Busy(n))
  BY <1>3 DEF IsOwner, Busy
<1>5. TokenInv' /\ CastInv'
  BY <1>1, <1>3, <1>4, SameChannels, TokenKept, CastKept
<1>6. TurnInv'
  BY <1>1, <1>3, <1>4 DEF TurnInv, OneBroadcaster
<1>7. PeerInv'
  <2>1. Up' = Up
    BY <1>3 DEF Up
  <2>2. /\ book'[m] \subseteq Up \ {m} /\ book'[m] # {}
        /\ \A n \in Machine \ {m} : book'[n] = book[n]
    <3>1. book'[m] = InsertAddr(book[m], a) /\ \A n \in Machine \ {m} : book'[n] = book[n]
      BY <1>1, <1>3 DEF TypeOK
    <3> QED
      BY <1>1, <1>3, <3>1, InsertKeeps DEF PeerInv
  <2> QED
    BY <1>1, <1>3, <1>4, <2>1, <2>2 DEF PeerInv
<1> QED
  BY <1>5, <1>6, <1>7

\* A machine boots; none loses its power.
LEMMA PowerRing ==
    ASSUME RingInv, NEW m \in Machine, PowerOn(m) \/ PowerOff(m)
    PROVE  PeerInv' /\ TokenInv' /\ CastInv' /\ TurnInv'
<1>1. Reliable /\ TypeOK /\ PeerInv /\ TokenInv /\ CastInv /\ TurnInv
  BY DEF RingInv, IInv
<1>2. PowerOn(m)
  <2>1. offs.idle \in Nat /\ offs.busy \in Nat /\ MaxOffs = 0
    BY <1>1 DEF TypeOK, Reliable
  <2> QED
    BY <2>1 DEF PowerOff
<1>3. /\ UNCHANGED <<ledger, observed, book, waitFor, cast, alert, rx>>
      /\ pc[m] = "off" /\ pc'[m] = "boot" /\ \A n \in Machine \ {m} : pc'[n] = pc[n]
  BY <1>1, <1>2 DEF PowerOn, netVars, TypeOK
<1>4. \A n \in Machine : (IsOwner(n)' <=> IsOwner(n)) /\ (Busy(n)' <=> Busy(n))
  BY <1>3 DEF IsOwner, Busy
<1>5. TokenInv' /\ CastInv'
  BY <1>1, <1>3, <1>4, SameChannels, TokenKept, CastKept
<1>6. TurnInv'
  BY <1>1, <1>3, <1>4 DEF TurnInv, OneBroadcaster
<1>7. PeerInv'
  <2>1. Up \subseteq Up'
    BY <1>3 DEF Up
  <2> QED
    BY <1>1, <1>3, <1>4, <2>1 DEF PeerInv
<1> QED
  BY <1>5, <1>6, <1>7

LEMMA NextRing == RingInv /\ [Next]_vars => RingInv'
<1> SUFFICES ASSUME RingInv, [Next]_vars PROVE RingInv'
  OBVIOUS
<1>1. IInv' /\ Reliable' /\ BootInv'
  BY NextIInv, NextBoot DEF RingInv, Reliable
<1>2. CASE UNCHANGED vars
  <2>1. \A n \in Machine : alert[n] # None => n \in Up
    BY DEF RingInv, PeerInv
  <2>2. PeerInv' /\ TokenInv' /\ CastInv' /\ TurnInv'
    BY <1>2, <2>1, AsideRing DEF vars, netVars
  <2> QED
    BY <1>1, <2>2 DEF RingInv
<1>3. ASSUME NEW m \in Machine, ManageLedger(m) PROVE RingInv'
  <2>1. PeerInv' /\ TokenInv' /\ CastInv' /\ TurnInv'
    BY <1>3, CreateLedgerRing, RoundIdleRing, RoundObserveRing, RoundPassRing, RoundPrintRing,
       PassAfterPrintRing, SendLedgerCopyRing, EndLedgerCastRing
    DEF ManageLedger, Round
  <2> QED
    BY <1>1, <2>1 DEF RingInv
<1>4. ASSUME NEW m \in Machine,
             \/ SendNewJobAlert(m) \/ Receive(m) \/ UpdateBook(m) \/ GoStale(m)
             \/ ToggleReady(m) \/ PowerOn(m) \/ PowerOff(m)
             \/ \E j \in Job : AppendToLedger(m, j) \/ FileArrives(m, j)
      PROVE  RingInv'
  <2>1. PeerInv' /\ TokenInv' /\ CastInv' /\ TurnInv'
    BY <1>4, SendAlertCopyRing, ReceiveRing, UpdateBookRing, AsideStepsRing, AppendToLedgerRing,
       PowerRing DEF SendNewJobAlert
  <2> QED
    BY <1>1, <2>1 DEF RingInv
<1> QED
  BY <1>2, <1>3, <1>4 DEF Next

LEMMA RingInvariance == Reliable /\ Spec => []RingInv
  BY InitRing, NextRing, PTL DEF Spec

(***************************************************************************)
(* For any number of machines and jobs and any size of the channels, never *)
(* do two machines hold the floor if their boots do not overlap: the round *)
(* of mere observation, which outlasts the sender's broadcast, is then     *)
(* enough (tasks/udp.rs 159-167).                                          *)
(***************************************************************************)
THEOREM OneAtATime == Reliable /\ Spec => []OneBroadcaster
<1>1. RingInv => OneBroadcaster
  BY DEF RingInv, TurnInv
<1> QED
  BY <1>1, RingInvariance, PTL

\* With boots that do not overlap, observed_ownership is clear whenever a
\* machine becomes the owner: it loses the ledger only by its own hand-over,
\* which clears the flag (tasks/udp.rs 159-167, 226).
THEOREM FirstObserves == Reliable /\ Spec => ObserveThenAct
<1>1. RingInv /\ [Next]_vars
         => [\A m \in Machine : ~ IsOwner(m) /\ IsOwner(m)' => ~ observed[m]]_vars
  BY DEF RingInv, TurnInv
<1> QED
  BY <1>1, RingInvariance, PTL DEF Spec, ObserveThenAct

-----------------------------------------------------------------------------
(* Agreement.  Without jobs only ledgers are sent, and a channel for two   *)
(* packets has room for all of them.                                       *)

LedgersOnly == Reliable /\ Job = {} /\ RxCap >= 2

\* Machine n has, or is about to read, a ledger; the last one it was sent is
\* of this owner.
Knows(n) == rx[n] # <<>> \/ ledger[n] # None

Latest(n) == IF rx[n] = <<>> THEN ledger[n].owner ELSE rx[n][Len(rx[n])].owner

\* No channel overflows: a machine with two unread ledgers was reading when
\* the owner went to sleep, so the owner waits for it before it sends.
RoomInv ==
    /\ \A m \in Machine : pc[m] # "accepted"
    /\ \A n \in Machine : Len(rx[n]) <= 2
    /\ \A m, n \in Machine : cast[m] # None /\ n \notin cast[m].heard => Len(rx[n]) <= 1
    /\ \A m, n \in Machine :
          observed[m] /\ cast[m] = None /\ n \notin waitFor[m] =>
              /\ Len(rx[n]) <= 1
              /\ \A x \in Machine : cast[x] # None /\ rx[n] # <<>> => n \in cast[x].heard

\* While nothing is sent, the last word is the same everywhere, and its owner
\* knows it.
SameWord ==
    (\A x \in Machine : cast[x] = None) =>
        \A n \in Machine : Knows(n) =>
            /\ Latest(n) \in Machine /\ Knows(Latest(n))
            /\ \A k \in Machine : Knows(k) => Latest(k) = Latest(n)

\* While a ledger is sent, those who heard it know nothing later, and after
\* the first copy the others know nothing at all.
NewWord ==
    \A m \in Machine : cast[m] # None =>
        /\ rx[m] = <<>>
        /\ \A n \in cast[m].heard : Knows(n) /\ Latest(n) = cast[m].owner
        /\ cast[m].left < Repeats =>
              /\ cast[m].owner \in cast[m].heard \cup {m}
              /\ \A n \in Machine \ {m} : n \in cast[m].heard \/ ~ Knows(n)

WordInv == LedgersOnly /\ RingInv /\ RoomInv /\ SameWord /\ NewWord

\* Everything in a channel is a ledger, and no alert is under way.
LEMMA NoJobs ==
    ASSUME LedgersOnly, TypeOK
    PROVE  /\ \A n \in Machine : alert[n] = None
           /\ \A n \in Machine : rx[n] \in Seq(LedgerPacket) /\ Len(rx[n]) \in Nat
           /\ \A n \in Machine : rx[n] # <<>> => LedgerAt(n, 1)
           /\ RxCap \in Nat /\ RxCap >= 2
<1>1. JobAlert = {} /\ Packet = LedgerPacket
  BY DEF LedgersOnly, JobAlert, Packet, NewJobPacket
<1>2. \A n \in Machine : rx[n] \in Seq(LedgerPacket)
  BY <1>1 DEF TypeOK
<1>3. ASSUME NEW n \in Machine, rx[n] # <<>> PROVE LedgerAt(n, 1)
  <2>1. 1 \in DOMAIN rx[n] /\ rx[n][1] \in LedgerPacket
    BY <1>2, <1>3
  <2> QED
    BY <2>1 DEF LedgerAt, LedgerPacket
<1> QED
  BY <1>1, <1>2, <1>3, CapAssumption DEF TypeOK, LedgersOnly

\* The owner has nothing to read, and no ledger is sent but by the one that
\* holds the floor.
LEMMA OwnerHasRead ==
    ASSUME WordInv, NEW m \in Machine, IsOwner(m)
    PROVE  rx[m] = <<>>
<1>1. ~ LedgerAt(m, 1)
  BY 1 \in Nat DEF WordInv, RingInv, TokenInv
<1> QED
  BY <1>1, NoJobs DEF WordInv, RingInv, IInv

LEMMA OneCast ==
    ASSUME WordInv, NEW m \in Machine, NEW n \in Machine, cast[m] # None, cast[n] # None
    PROVE  m = n
  BY DEF WordInv, RingInv, IInv, SendingHasLedger, TurnInv, OneBroadcaster, Busy

\* Knowledge depends on the channel and the ledger of the machine.
LEMMA SameKnowledge ==
    ASSUME NEW n \in Machine, rx'[n] = rx[n], ledger'[n] = ledger[n]
    PROVE  (Knows(n)' <=> Knows(n)) /\ Latest(n)' = Latest(n)
  BY DEF Knows, Latest

LEMMA InitWord == Init /\ LedgersOnly => WordInv
<1> SUFFICES ASSUME Init, LedgersOnly PROVE WordInv
  OBVIOUS
<1>1. RingInv
  BY InitRing DEF LedgersOnly
<1>2. \A m \in Machine : /\ cast[m] = None /\ ~ observed[m] /\ rx[m] = <<>>
                         /\ ledger[m] = None /\ pc[m] = "off"
  BY DEF Init
<1>3. \A m \in Machine : Len(rx[m]) = 0 /\ ~ Knows(m)
  BY <1>2 DEF Knows
<1> QED
  BY <1>1, <1>2, <1>3 DEF WordInv, RoomInv, SameWord, NewWord

\* A broadcast begins: every channel has room.
LEMMA StartWord ==
    ASSUME WordInv, IInv', NEW m \in Machine, NEW l, StartCast(m, l), UNCHANGED rx,
           rx[m] = <<>>,
           \A n \in Machine : cast[n] = None,
           \A n \in Machine : Len(rx[n]) <= 1,
           \A n \in Machine : observed'[n] => n = m
    PROVE  RoomInv' /\ SameWord' /\ NewWord'
<1>1. TypeOK /\ RoomInv
  BY DEF WordInv, RingInv, IInv
<1>2. /\ cast' = [cast EXCEPT ![m] = [owner |-> l.owner, jobs |-> l.jobs,
                                      left |-> Repeats, heard |-> {}]]
      /\ pc' = [pc EXCEPT ![m] = "ledger"]
  BY DEF StartCast
<1>3. /\ cast'[m] = [owner |-> l.owner, jobs |-> l.jobs, left |-> Repeats, heard |-> {}]
      /\ \A n \in Machine \ {m} : cast'[n] = None
      /\ pc'[m] = "ledger" /\ \A n \in Machine \ {m} : pc'[n] = pc[n]
  BY <1>1, <1>2 DEF TypeOK
<1>4. cast'[m].left = Repeats /\ cast'[m].heard = {} /\ cast'[m] # None
  <2>1. cast'[m].left = Repeats /\ cast'[m].heard = {}
    BY <1>3
  <2>2. cast'[m] # None
    BY <1>3 DEF IInv, SendingHasLedger
  <2> QED
    BY <2>1, <2>2
<1>5. RoomInv'
  BY <1>1, <1>3, <1>4, NoJobs DEF RoomInv, WordInv
<1>6. SameWord'
  BY <1>4 DEF SameWord
<1>7. NewWord'
  BY <1>3, <1>4, CapAssumption DEF NewWord
<1> QED
  BY <1>5, <1>6, <1>7

LEMMA CreateLedgerWord ==
    ASSUME WordInv, IInv', NEW m \in Machine, CreateLedger(m)
    PROVE  RoomInv' /\ SameWord' /\ NewWord'
<1>1. LedgersOnly /\ Reliable /\ RingInv /\ TypeOK /\ PeerInv /\ SameWord
  BY DEF WordInv, RingInv, IInv
<1>2. ledger[m] = None /\ pc[m] \in {"boot", "sleep"} /\ BootHears(m)
  BY DEF CreateLedger, Wakes, NoLedgerYet
<1>3. pc[m] = "boot"
  BY <1>1, <1>2 DEF PeerInv
<1>4. ~ LedgerAmong(Up)
  BY <1>1, <1>2, <1>3, BootAlone
<1>5. \A n \in Machine : rx[n] = <<>> /\ ~ Busy(n) /\ Len(rx[n]) = 0
  <2>1. \A n \in Up : ~ Busy(n) /\ ~ LedgerAt(n, 1)
    BY <1>4 DEF LedgerAmong, LedgerAt
  <2>2. \A n \in Machine : n \notin Up => ~ Busy(n) /\ rx[n] = <<>>
    BY <1>1 DEF PeerInv, Busy, Up
  <2>3. \A n \in Machine : rx[n] = <<>> /\ ~ Busy(n)
    BY <1>1, <2>1, <2>2, NoJobs
  <2> QED
    BY <2>3
<1>6. \A n \in Machine : cast[n] = None
  BY <1>1, <1>5 DEF RingInv, IInv, SendingHasLedger, Busy
<1>7. \A n \in Machine : ~ observed'[n]
  <2>1. \A n \in Machine : ~ IsOwner(n)
    BY <1>1, <1>4 DEF LedgerAmong, PeerInv, IsOwner
  <2> QED
    BY <1>1, <2>1 DEF RingInv, TurnInv, CreateLedger
<1>8. StartCast(m, [owner |-> m, jobs |-> {}]) /\ UNCHANGED rx
  BY DEF CreateLedger
<1> QED
  BY <1>5, <1>6, <1>7, <1>8, StartWord

LEMMA RoundPassWord ==
    ASSUME WordInv, IInv', NEW m \in Machine, RoundPass(m)
    PROVE  RoomInv' /\ SameWord' /\ NewWord'
<1>1. RingInv /\ TypeOK /\ RoomInv /\ TurnInv /\ TokenInv
  BY DEF WordInv, RingInv, IInv
<1>2. /\ IsOwner(m) /\ pc[m] \in {"boot", "sleep"}
      /\ \A n \in Machine : ~ Busy(n)
  BY <1>1, ActsAlone DEF RoundPass, NoLedgerYet
<1>3. \A n \in Machine : cast[n] = None
  BY <1>1, <1>2 DEF RingInv, IInv, SendingHasLedger, Busy
<1>4. waitFor[m] = {} /\ observed[m]
  BY DEF RoundPass, Wakes, SleepOutlasts, MayAct
<1>5. \A n \in Machine : Len(rx[n]) <= 1
  BY <1>1, <1>3, <1>4 DEF RoomInv
<1>6. PICK l : StartCast(m, l)
  BY DEF RoundPass, PassOn
<1>7. \A n \in Machine : observed'[n] => n = m
  <2>1. \A n \in Machine : observed'[n] => observed[n]
    BY <1>1 DEF RoundPass, PassOn, ClearObserved, TypeOK
  <2> QED
    BY <1>1, <1>2, <2>1 DEF TurnInv, TokenInv
<1>8. UNCHANGED rx /\ rx[m] = <<>>
  BY <1>2, OwnerHasRead DEF RoundPass
<1> QED
  BY <1>3, <1>5, <1>6, <1>7, <1>8, StartWord

\* A copy reaches every machine that is up and has not heard the ledger.
LEMMA SendLedgerCopyWord ==
    ASSUME WordInv, NEW m \in Machine, SendLedgerCopy(m)
    PROVE  RoomInv' /\ SameWord' /\ NewWord'
<1>1. LedgersOnly /\ Reliable /\ TypeOK /\ PeerInv /\ RoomInv /\ NewWord
  BY DEF WordInv, RingInv, IInv
<1>2. cast[m] # None /\ cast[m] \in LedgerCast /\ m \in Up
  BY <1>1 DEF WordInv, RingInv, IInv, TypeOK, SendingHasLedger, SendLedgerCopy, Up
<1> DEFINE p == [kind |-> "ledger", from |-> m, owner |-> cast[m].owner, jobs |-> cast[m].jobs]
<1>3. PICK R \in Reached(m) :
         /\ Deliver(Kept(R, cast[m].heard), p)
         /\ cast' = [cast EXCEPT ![m] = AfterCopy(cast[m], Kept(R, cast[m].heard))]
  BY DEF SendLedgerCopy
<1> DEFINE new == Kept(R, cast[m].heard)
<1>4. new = (Up \ {m}) \ cast[m].heard
  <2>1. \A n \in Machine : n \notin cast[m].heard => Len(rx[n]) < RxCap
    <3>1. \A n \in Machine : n \notin cast[m].heard => Len(rx[n]) <= 1
      BY <1>1, <1>2 DEF RoomInv
    <3> QED
      BY <1>1, <3>1, NoJobs
  <2>2. R = Up \ {m}
    BY <1>1, <1>3 DEF Reliable, Reached, Listeners
  <2> QED
    BY <2>1, <2>2 DEF Kept, Up
<1>5. p \in Packet /\ p.owner = cast[m].owner
  BY <1>2 DEF LedgerCast, Packet, LedgerPacket
<1>6. /\ cast'[m].owner = cast[m].owner /\ cast'[m].heard = cast[m].heard \cup new
      /\ \A n \in Machine \ {m} : cast'[n] = cast[n]
  BY <1>1, <1>2, <1>3 DEF TypeOK, AfterCopy, LedgerCast
<1>7. UNCHANGED <<pc, ledger, observed, waitFor>>
  BY DEF SendLedgerCopy
<1>8. \A n \in Machine : rx'[n] = IF n \in new THEN Append(rx[n], p) ELSE rx[n]
  BY <1>1, <1>3 DEF TypeOK, Deliver
<1> HIDE DEF new, p
<1>9. ASSUME NEW n \in Machine, n \in new
      PROVE  /\ Len(rx'[n]) = Len(rx[n]) + 1 /\ rx'[n] # <<>> /\ Len(rx[n]) \in Nat
             /\ Knows(n)' /\ Latest(n)' = cast[m].owner
  <2>1. rx[n] \in Seq(Packet) /\ rx'[n] = Append(rx[n], p)
    BY <1>1, <1>8, <1>9 DEF TypeOK
  <2>2. /\ Len(Append(rx[n], p)) = Len(rx[n]) + 1 /\ Append(rx[n], p) # <<>>
        /\ Append(rx[n], p)[Len(rx[n]) + 1] = p /\ Len(rx[n]) \in Nat
    BY <1>5, <2>1
  <2> QED
    BY <1>5, <2>1, <2>2 DEF Knows, Latest
<1>10. ASSUME NEW n \in Machine, n \notin new
       PROVE  rx'[n] = rx[n] /\ (Knows(n)' <=> Knows(n)) /\ Latest(n)' = Latest(n)
  BY <1>7, <1>8, <1>10, SameKnowledge
<1>11. \A x \in Machine : cast[x] # None \/ cast'[x] # None => x = m
  BY <1>2, <1>6, OneCast
<1>12. \A n \in Machine : n \in new => Len(rx[n]) <= 1
  BY <1>1, <1>2, <1>4 DEF RoomInv
<1>13. RoomInv'
  <2>1. \A n \in Machine : Len(rx'[n]) <= 2
    BY <1>1, <1>9, <1>10, <1>12 DEF RoomInv
  <2>2. \A x, n \in Machine : cast'[x] # None /\ n \notin cast'[x].heard => Len(rx'[n]) <= 1
    BY <1>1, <1>2, <1>6, <1>10, <1>11 DEF RoomInv
  <2>3. ASSUME NEW a \in Machine, NEW n \in Machine,
               observed'[a], cast'[a] = None, n \notin waitFor'[a]
        PROVE  /\ Len(rx'[n]) <= 1
               /\ \A x \in Machine : cast'[x] # None /\ rx'[n] # <<>> => n \in cast'[x].heard
    <3>1. IInv'
      BY SendLedgerCopyIInv DEF WordInv, RingInv
    <3>2. cast'[m] # None
      BY <1>7, <3>1 DEF IInv, SendingHasLedger, SendLedgerCopy
    <3>3. a # m /\ cast[a] = None /\ observed[a] /\ n \notin waitFor[a]
      BY <1>6, <1>7, <2>3, <3>2
    <3>4. Len(rx[n]) <= 1 /\ (rx[n] # <<>> => n \in cast[m].heard)
      BY <1>1, <1>2, <3>3 DEF RoomInv
    <3>5. CASE n \in new
      <4>1. rx[n] = <<>>
        BY <1>4, <3>4, <3>5
      <4>2. Len(rx[n]) = 0
        BY <4>1
      <4>3. Len(rx'[n]) <= 1
        BY <1>9, <3>5, <4>2
      <4> QED
        BY <1>6, <1>11, <3>5, <4>3
    <3>6. CASE n \notin new
      BY <1>6, <1>10, <1>11, <3>4, <3>6
    <3> QED
      BY <3>5, <3>6
  <2> QED
    BY <1>1, <1>7, <2>1, <2>2, <2>3 DEF RoomInv
<1>14. SameWord'
  <2>1. cast'[m] # None
    <3>1. IInv'
      BY SendLedgerCopyIInv DEF WordInv, RingInv
    <3> QED
      BY <1>7, <3>1 DEF IInv, SendingHasLedger, SendLedgerCopy
  <2> QED
    BY <2>1 DEF SameWord
<1>15. NewWord'
  <2>1. rx'[m] = <<>>
    BY <1>1, <1>2, <1>4, <1>10 DEF NewWord
  <2>2. \A n \in cast'[m].heard : Knows(n)' /\ Latest(n)' = cast'[m].owner
    <3>1. cast[m].heard \subseteq Machine /\ new \subseteq Machine
      BY <1>2, <1>4 DEF LedgerCast, Up
    <3> QED
      BY <1>1, <1>2, <1>4, <1>6, <1>9, <1>10, <3>1 DEF NewWord
  <2>3. cast'[m].owner \in cast'[m].heard \cup {m}
    <3>1. cast[m].owner \in book[m] \cup {m}
      BY <1>2 DEF WordInv, RingInv, IInv, BroadcastIsCurrent
    <3>2. book[m] \subseteq Up \ {m}
      BY <1>1 DEF PeerInv
    <3> QED
      BY <1>4, <1>6, <3>1, <3>2
  <2>4. \A n \in Machine \ {m} : n \in cast'[m].heard \/ ~ Knows(n)'
    <3>1. \A n \in Machine : n \notin Up => ~ Knows(n)
      BY <1>1 DEF PeerInv, Knows
    <3> QED
      BY <1>4, <1>6, <1>10, <3>1
  <2> QED
    BY <1>11, <2>1, <2>2, <2>3, <2>4 DEF NewWord
<1> QED
  BY <1>13, <1>14, <1>15

\* What going to sleep does to the machines waited for.
LEMMA SleepWaits ==
    ASSUME TypeOK, NEW m \in Machine, Sleep(m)
    PROVE  /\ \A n \in Machine : n \notin waitFor'[m] => rx[n] = <<>>
           /\ \A k, n \in Machine : k # m /\ n \notin waitFor'[k] =>
                 n \notin waitFor[k] \/ rx[n] = <<>>
<1> DEFINE W == {k \in Machine : (k # m /\ Busy(k)) \/ rx[k] # <<>>}
<1>1. waitFor' = [n \in Machine |->
                     IF n = m
                     THEN W
                     ELSE IF rx[m] = <<>> THEN waitFor[n] \ {m} ELSE waitFor[n]]
  BY DEF Sleep
<1>2. \A n \in Machine : n \notin W => rx[n] = <<>>
  OBVIOUS
<1> HIDE DEF W
<1>3. waitFor'[m] = W
  BY <1>1
<1>4. ASSUME NEW k \in Machine, k # m, NEW n \in Machine, n \notin waitFor'[k]
      PROVE  n \notin waitFor[k] \/ rx[n] = <<>>
  BY <1>1, <1>4
<1> QED
  BY <1>2, <1>3, <1>4

\* What a machine that goes to sleep leaves of the room in the channels.
LEMMA SleepRoom ==
    ASSUME WordInv, NEW m \in Machine, Sleep(m), UNCHANGED rx,
           \A n \in Machine : cast'[n] = cast[n] \/ (n = m /\ cast'[n] = None),
           \A n \in Machine : observed'[n] => n = m \/ observed[n]
    PROVE  RoomInv'
<1>1. TypeOK /\ RoomInv
  BY DEF WordInv, RingInv, IInv
<1>2. \A n \in Machine : pc'[n] # "accepted"
  BY <1>1, SleepKeeps DEF RoomInv
<1>3. \A n \in Machine : rx[n] = <<>> => Len(rx[n]) = 0
  OBVIOUS
<1>4. ASSUME NEW a \in Machine, NEW n \in Machine,
             observed'[a], cast'[a] = None, n \notin waitFor'[a]
      PROVE  /\ Len(rx[n]) <= 1
             /\ \A x \in Machine : cast'[x] # None /\ rx[n] # <<>> => n \in cast'[x].heard
  <2>1. CASE a = m
    BY <1>1, <1>3, <1>4, <2>1, SleepWaits
  <2>2. CASE a # m
    <3>1. n \notin waitFor[a] \/ rx[n] = <<>>
      BY <1>1, <1>4, <2>2, SleepWaits
    <3>2. observed[a] /\ cast[a] = None
      BY <1>4, <2>2
    <3> QED
      BY <1>1, <1>3, <3>1, <3>2 DEF RoomInv
  <2> QED
    BY <2>1, <2>2
<1> QED
  BY <1>1, <1>2, <1>4 DEF RoomInv

\* The broadcast ends: every machine that knows a ledger knows this one.
LEMMA EndLedgerCastWord ==
    ASSUME WordInv, NEW m \in Machine, EndLedgerCast(m)
    PROVE  RoomInv' /\ SameWord' /\ NewWord'
<1>1. LedgersOnly /\ Reliable /\ TypeOK /\ PeerInv /\ RoomInv /\ NewWord
  BY DEF WordInv, RingInv, IInv
<1>2. /\ cast[m] # None /\ cast[m] \in LedgerCast /\ pc[m] = "ledger" /\ ledger[m] # None
  BY <1>1 DEF WordInv, RingInv, IInv, TypeOK, SendingHasLedger, EndLedgerCast, PeerInv
<1>3. /\ cast' = [cast EXCEPT ![m] = None] /\ Sleep(m)
      /\ UNCHANGED <<ledger, observed, rx>> /\ cast[m].left = 0
  BY <1>1 DEF EndLedgerCast, AllocFails, Reliable
<1>4. \A n \in Machine : cast'[n] = None
  BY <1>1, <1>2, <1>3, OneCast DEF TypeOK
<1>5. RoomInv'
  BY <1>1, <1>3, <1>4, OneCast, <1>2, SleepRoom
<1>6. NewWord'
  BY <1>4 DEF NewWord
<1>7. \A n \in Machine : (Knows(n)' <=> Knows(n)) /\ Latest(n)' = Latest(n)
  BY <1>3, SameKnowledge
<1>8. cast[m].left < Repeats
  BY <1>3, CapAssumption
<1>9. Knows(m) /\ Latest(m) = cast[m].owner
  <2>1. BroadcastIsCurrent /\ rx[m] = <<>>
    BY <1>1, <1>2 DEF WordInv, RingInv, IInv, NewWord
  <2>2. ledger[m] = [owner |-> cast[m].owner, jobs |-> cast[m].jobs]
    BY <1>2, <2>1 DEF BroadcastIsCurrent
  <2>3. ledger[m].owner = cast[m].owner
    BY <2>2
  <2> QED
    BY <1>2, <2>1, <2>3 DEF Knows, Latest
<1>10. \A n \in Machine : Knows(n) => Latest(n) = cast[m].owner
  BY <1>1, <1>2, <1>8, <1>9 DEF NewWord
<1>11. cast[m].owner \in Machine /\ Knows(cast[m].owner)
  <2>1. cast[m].owner \in Machine
    BY <1>2 DEF LedgerCast
  <2>2. cast[m].owner \in cast[m].heard \cup {m}
    BY <1>1, <1>2, <1>8 DEF NewWord
  <2> QED
    BY <1>1, <1>2, <1>9, <2>1, <2>2 DEF NewWord
<1>12. SameWord'
  <2>1. PICK o \in Machine : o = cast[m].owner
    BY <1>11
  <2>2. Knows(o)' /\ \A n \in Machine : Knows(n)' => Latest(n)' = o
    BY <1>7, <1>10, <1>11, <2>1
  <2> QED
    BY <2>2 DEF SameWord, Knows
<1> QED
  BY <1>5, <1>6, <1>12

\* A step that leaves the channels, the ledgers and the broadcasts alone.
LEMMA SameWords ==
    ASSUME WordInv, UNCHANGED <<rx, ledger, cast>>
    PROVE  SameWord' /\ NewWord'
<1>1. SameWord /\ NewWord
  BY DEF WordInv
<1> QED
  BY <1>1 DEF SameWord, NewWord, Knows, Latest

LEMMA QuietRoundWord ==
    ASSUME WordInv, NEW m \in Machine, RoundIdle(m) \/ RoundObserve(m)
    PROVE  RoomInv' /\ SameWord' /\ NewWord'
<1>1. RingInv /\ TypeOK
  BY DEF WordInv, RingInv, IInv
<1>2. Sleep(m) /\ UNCHANGED <<cast, rx>> /\ ledger[m] # None
  BY DEF RoundIdle, RoundObserve, netVars, NoLedgerYet
<1>3. ledger' = ledger
  <2>1. CASE RoundObserve(m)
    <3>1. ledger[m] \in Ledger /\ ledger[m].owner = m
      BY <1>1, <1>2, <2>1, NoTakeover DEF RoundObserve, TypeOK
    <3>2. [ledger[m] EXCEPT !.owner = m] = ledger[m]
      BY <3>1 DEF Ledger
    <3>3. ledger' = [ledger EXCEPT ![m].owner = m]
      BY <2>1 DEF RoundObserve
    <3> QED
      BY <1>1, <3>2, <3>3 DEF TypeOK
  <2>2. CASE RoundIdle(m)
    BY <2>2 DEF RoundIdle
  <2> QED
    BY <2>1, <2>2
<1>4. \A n \in Machine : observed'[n] => n = m \/ observed[n]
  BY <1>1 DEF RoundIdle, RoundObserve, TypeOK
<1> QED
  BY <1>2, <1>3, <1>4, SleepRoom, SameWords

\* What is left of a channel after its first packet is read.
LEMMA TailFacts ==
    ASSUME NEW T, NEW q \in Seq(T), q # <<>>
    PROVE  /\ Len(q) \in Nat /\ Len(q) >= 1 /\ Len(Tail(q)) = Len(q) - 1
           /\ Tail(q) = <<>> <=> Len(q) = 1
           /\ Len(q) # 1 => Tail(q)[Len(q) - 1] = q[Len(q)]
<1>1. Len(q) \in Nat /\ Len(q) >= 1
  BY EmptySeq
<1>2. /\ Tail(q) \in Seq(T) /\ Len(Tail(q)) = Len(q) - 1
      /\ \A i \in 1 .. Len(Tail(q)) : Tail(q)[i] = q[i + 1]
  BY HeadTailProperties
<1>3. Tail(q) = <<>> <=> Len(Tail(q)) = 0
  BY <1>2, EmptySeq
<1>4. Tail(q) = <<>> <=> Len(q) = 1
  BY <1>1, <1>2, <1>3
<1>5. ASSUME Len(q) # 1 PROVE Tail(q)[Len(q) - 1] = q[Len(q)]
  <2>1. Len(q) - 1 \in 1 .. Len(Tail(q)) /\ (Len(q) - 1) + 1 = Len(q)
    BY <1>1, <1>2, <1>5
  <2> QED
    BY <1>2, <2>1
<1> QED
  BY <1>1, <1>2, <1>4, <1>5

\* Reading a ledger does not change the last word.
LEMMA ReceiveWord ==
    ASSUME WordInv, NEW m \in Machine, Receive(m)
    PROVE  RoomInv' /\ SameWord' /\ NewWord'
<1>1. LedgersOnly /\ TypeOK /\ RoomInv /\ SameWord /\ NewWord
  BY DEF WordInv, RingInv, IInv
<1> DEFINE s == rx[m]
           p == Head(s)
<1>2. /\ s # <<>> /\ ~ Busy(m) /\ rx' = [rx EXCEPT ![m] = Tail(s)]
      /\ UNCHANGED <<pc, observed, cast>>
      /\ waitFor' = [n \in Machine |-> IF Len(s) = 1 THEN waitFor[n] \ {m} ELSE waitFor[n]]
  BY <1>1 DEF Receive, MutexesFree
<1>3. s \in Seq(LedgerPacket)
  BY <1>1, NoJobs
<1>4. p \in LedgerPacket /\ p = s[1]
  BY <1>2, <1>3
<1>5. ledger' = [ledger EXCEPT ![m] = [owner |-> p.owner, jobs |-> p.jobs]]
  BY <1>4 DEF Receive, LedgerPacket
<1>6. /\ ledger'[m] = [owner |-> p.owner, jobs |-> p.jobs] /\ rx'[m] = Tail(s)
      /\ \A n \in Machine \ {m} : ledger'[n] = ledger[n] /\ rx'[n] = rx[n]
  BY <1>1, <1>2, <1>5 DEF TypeOK
<1>7. ledger'[m] # None /\ ledger'[m].owner = p.owner
  <2>1. [owner |-> p.owner, jobs |-> p.jobs] \in Ledger
    BY <1>4 DEF LedgerPacket, Ledger
  <2> QED
    BY <1>6, <2>1, NoneAssumption
<1>8. /\ Len(s) \in Nat /\ Len(s) >= 1 /\ Len(Tail(s)) = Len(s) - 1
      /\ Tail(s) = <<>> <=> Len(s) = 1
      /\ Len(s) # 1 => Tail(s)[Len(s) - 1] = s[Len(s)]
  BY <1>2, <1>3, TailFacts
<1>9. /\ Knows(m) /\ Knows(m)' /\ Latest(m)' = Latest(m)
      /\ \A n \in Machine \ {m} : (Knows(n)' <=> Knows(n)) /\ Latest(n)' = Latest(n)
  <2>1. Knows(m) /\ Knows(m)' /\ Latest(m) = s[Len(s)].owner
    BY <1>2, <1>7 DEF Knows, Latest
  <2>2. CASE Len(s) = 1
    BY <1>4, <1>6, <1>7, <1>8, <2>1, <2>2, SameKnowledge DEF Latest
  <2>3. CASE Len(s) # 1
    <3>1. Latest(m)' = Tail(s)[Len(Tail(s))].owner
      BY <1>6, <1>8, <2>3 DEF Latest
    <3> QED
      BY <1>6, <1>8, <2>1, <2>3, <3>1, SameKnowledge
  <2> QED
    BY <2>2, <2>3
<1>10. \A n \in Machine : (Knows(n)' <=> Knows(n)) /\ Latest(n)' = Latest(n)
  BY <1>9
<1>11. SameWord'
  <2>1. CASE \A x \in Machine : cast[x] = None
    <3>1. PICK o \in Machine : o = Latest(m) /\ Knows(o)
      BY <1>1, <1>9, <2>1 DEF SameWord
    <3>2. Knows(o)' /\ \A n \in Machine : Knows(n)' => Latest(n)' = o
      BY <1>1, <1>9, <1>10, <2>1, <3>1 DEF SameWord
    <3> QED
      BY <3>2 DEF SameWord, Knows
  <2>2. CASE ~ \A x \in Machine : cast[x] = None
    BY <1>2, <2>2 DEF SameWord
  <2> QED
    BY <2>1, <2>2
<1>12. cast[m] = None
  BY <1>2 DEF WordInv, RingInv, IInv, SendingHasLedger, Busy
<1>13. NewWord'
  <2>1. \A x \in Machine : cast[x] # None => cast[x].heard \subseteq Machine
    BY <1>1 DEF TypeOK, LedgerCast
  <2> QED
    BY <1>1, <1>2, <1>6, <1>10, <1>12, <2>1 DEF NewWord
<1>14. RoomInv'
  <2>1. \A n \in Machine : /\ Len(rx[n]) \in Nat
                           /\ Len(rx'[n]) <= Len(rx[n]) /\ Len(rx'[n]) \in Nat
                           /\ rx'[n] # <<>> => rx[n] # <<>>
    <3>1. \A n \in Machine : Len(rx[n]) \in Nat
      BY <1>1, NoJobs
    <3> QED
      BY <1>2, <1>6, <1>8, <3>1
  <2>2. \A a, n \in Machine : n \notin waitFor'[a] => n \notin waitFor[a] \/ rx'[n] = <<>>
    BY <1>2, <1>6, <1>8
  <2>3. \A n \in Machine : rx'[n] = <<>> => Len(rx'[n]) = 0
    OBVIOUS
  <2>4. \A n \in Machine : Len(rx'[n]) <= 2
    BY <1>1, <2>1 DEF RoomInv
  <2>5. \A x, n \in Machine : cast[x] # None /\ n \notin cast[x].heard => Len(rx'[n]) <= 1
    BY <1>1, <2>1 DEF RoomInv
  <2>6. ASSUME NEW a \in Machine, NEW n \in Machine,
               observed[a], cast[a] = None, n \notin waitFor'[a]
        PROVE  /\ Len(rx'[n]) <= 1
               /\ \A x \in Machine : cast[x] # None /\ rx'[n] # <<>> => n \in cast[x].heard
    <3>1. CASE rx'[n] = <<>>
      BY <2>3, <3>1
    <3>2. CASE rx'[n] # <<>>
      <4>1. n \notin waitFor[a]
        BY <2>2, <2>6, <3>2
      <4>2. /\ Len(rx[n]) <= 1
            /\ \A x \in Machine : cast[x] # None /\ rx[n] # <<>> => n \in cast[x].heard
        BY <1>1, <2>6, <4>1 DEF RoomInv
      <4> QED
        BY <2>1, <4>2
    <3> QED
      BY <3>1, <3>2
  <2> QED
    BY <1>1, <1>2, <2>4, <2>5, <2>6 DEF RoomInv
<1> QED
  BY <1>11, <1>13, <1>14

\* Steps that leave the channels, the ledgers and the broadcasts alone.
LEMMA AsideWord ==
    ASSUME WordInv, UNCHANGED <<rx, ledger, cast, observed, waitFor>>,
           \A n \in Machine : pc'[n] # "accepted"
    PROVE  RoomInv' /\ SameWord' /\ NewWord'
<1>1. RoomInv
  BY DEF WordInv
<1>2. RoomInv'
  BY <1>1 DEF RoomInv
<1> QED
  BY <1>2, SameWords

LEMMA NextWord == WordInv /\ [Next]_vars => WordInv'
<1> SUFFICES ASSUME WordInv, [Next]_vars PROVE WordInv'
  OBVIOUS
<1>1. LedgersOnly /\ RingInv /\ TypeOK /\ RoomInv /\ IInv
  BY DEF WordInv, RingInv, IInv
<1>2. LedgersOnly' /\ RingInv' /\ IInv'
  BY <1>1, NextRing DEF LedgersOnly, Reliable, RingInv
<1>3. \A n \in Machine : pc[n] # "accepted" /\ alert[n] = None
  BY <1>1, NoJobs DEF RoomInv
<1>4. CASE UNCHANGED vars
  BY <1>2, <1>3, <1>4, AsideWord DEF vars, netVars, WordInv
<1>5. ASSUME NEW m \in Machine, ManageLedger(m) PROVE WordInv'
  <2>1. ~ PassAfterPrint(m)
    BY <1>3 DEF PassAfterPrint
  <2>2. ~ RoundPrint(m)
    <3>1. ledger[m] # None => ledger[m].jobs = {}
      BY <1>1 DEF LedgersOnly, TypeOK, Ledger
    <3> QED
      BY <3>1 DEF RoundPrint, NoLedgerYet, Printable
  <2>3. RoomInv' /\ SameWord' /\ NewWord'
    BY <1>2, <1>5, <2>1, <2>2, CreateLedgerWord, QuietRoundWord, RoundPassWord,
       SendLedgerCopyWord, EndLedgerCastWord DEF ManageLedger, Round
  <2> QED
    BY <1>2, <2>3 DEF WordInv
<1>6. ASSUME NEW m \in Machine, Receive(m) PROVE WordInv'
  BY <1>2, <1>6, ReceiveWord DEF WordInv
<1>7. ASSUME NEW m \in Machine, UpdateBook(m) \/ GoStale(m) \/ ToggleReady(m) \/ PowerOn(m)
      PROVE  WordInv'
  <2>1. UNCHANGED <<rx, ledger, cast, observed, waitFor>>
    BY <1>7 DEF UpdateBook, HearHeartbeat, ExpireAddress, GoStale, ToggleReady, PowerOn, netVars
  <2>2. \A n \in Machine : pc'[n] # "accepted"
    BY <1>1, <1>3, <1>7
    DEF UpdateBook, HearHeartbeat, ExpireAddress, GoStale, ToggleReady, PowerOn, TypeOK
  <2> QED
    BY <1>2, <2>1, <2>2, AsideWord DEF WordInv
<1>8. ASSUME NEW m \in Machine, PowerOff(m) PROVE WordInv'
  <2>1. offs.idle \in Nat /\ offs.busy \in Nat /\ MaxOffs = 0
    BY <1>1 DEF TypeOK, RingInv, Reliable
  <2> QED
    BY <1>8, <2>1 DEF PowerOff
<1>9. ASSUME NEW m \in Machine, SendNewJobAlert(m) PROVE WordInv'
  BY <1>3, <1>9 DEF SendNewJobAlert, SendAlertCopy, EndAlert
<1>10. Job = {}
  BY <1>1 DEF LedgersOnly
<1> QED
  BY <1>4, <1>5, <1>6, <1>7, <1>8, <1>9, <1>10 DEF Next

LEMMA WordInvariance == LedgersOnly /\ Spec => []WordInv
  BY InitWord, NextWord, PTL DEF Spec

(***************************************************************************)
(* For any number of machines, with nothing but ledgers on the network and *)
(* boots that do not overlap: whenever nothing is under way, all machines  *)
(* agree on the owner, which is up and knows it, so that the ledger is     *)
(* never lost (tasks/udp.rs 80-88, 120-228).                               *)
(***************************************************************************)
THEOREM AllAgree == LedgersOnly /\ Spec => []LedgersAgree
<1>1. WordInv => LedgersAgree
  <2> SUFFICES ASSUME WordInv, Quiet, NEW m \in Up, ledger[m] # None
               PROVE  /\ ledger[m].owner \in Up
                      /\ \A n \in Up : ledger[n] # None => ledger[n].owner = ledger[m].owner
                      /\ IsOwner(ledger[m].owner)
    BY DEF LedgersAgree
  <2>1. \A n \in Machine : rx[n] = <<>> /\ cast[n] = None
    BY DEF Quiet, WordInv, RingInv, IInv, SendingHasLedger, Busy
  <2>2. \A n \in Machine : (Knows(n) <=> ledger[n] # None) /\ Latest(n) = ledger[n].owner
    BY <2>1 DEF Knows, Latest
  <2>3. m \in Machine /\ Knows(m)
    BY <2>2 DEF Up
  <2>4. /\ Latest(m) \in Machine /\ Knows(Latest(m))
        /\ \A k \in Machine : Knows(k) => Latest(k) = Latest(m)
    BY <2>1, <2>3 DEF WordInv, SameWord
  <2>5. ledger[m].owner \in Machine /\ IsOwner(ledger[m].owner)
    BY <2>2, <2>3, <2>4 DEF IsOwner
  <2>6. ledger[m].owner \in Up
    BY <2>5 DEF WordInv, RingInv, PeerInv, IsOwner
  <2>7. \A n \in Up : ledger[n] # None => ledger[n].owner = ledger[m].owner
    BY <2>2, <2>3, <2>4 DEF Up
  <2> QED
    BY <2>5, <2>6, <2>7
<1> QED
  BY <1>1, WordInvariance, PTL

=============================================================================
