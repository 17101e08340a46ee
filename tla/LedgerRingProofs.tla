-------------------------- MODULE LedgerRingProofs --------------------------
(***************************************************************************)
(* Proofs about LedgerRing for every set of machines and jobs, every       *)
(* capacity, and with or without loss, echoes and power failures.          *)
(***************************************************************************)
EXTENDS LedgerRing, AddressesProofs, TLAPS

IInv == TypeOK /\ SendingHasLedger /\ BroadcastIsCurrent

USE MachineAssumption, NoneAssumption, CapAssumption

LEMMA InitIInv == Init => IInv
  BY DEF Init, IInv, TypeOK, SendingHasLedger, BroadcastIsCurrent

\* What a round leaves behind when it starts to broadcast l.
LEMMA StartCastIInv ==
    ASSUME IInv, NEW m \in Machine, NEW l \in Ledger,
           pc[m] \in {"boot", "sleep", "accepted"},
           l.owner \in book[m] \cup {m},
           StartCast(m, l),
           stale' \in [Machine -> BOOLEAN], observed' \in [Machine -> BOOLEAN],
           UNCHANGED <<book, alert, rx, jobVars, offs>>
    PROVE  IInv'
<1>1. TypeOK'
  <2>1. [owner |-> l.owner, jobs |-> l.jobs, left |-> Repeats, heard |-> {}] \in LedgerCast
    BY DEF Ledger, LedgerCast
  <2> QED
    BY <2>1 DEF IInv, TypeOK, StartCast, BootIsOver, jobVars
<1>2. SendingHasLedger'
  BY DEF IInv, TypeOK, SendingHasLedger, StartCast, Ledger, LedgerCast
<1>3. BroadcastIsCurrent'
  BY DEF IInv, TypeOK, BroadcastIsCurrent, StartCast, Ledger
<1> QED
  BY <1>1, <1>2, <1>3 DEF IInv


\* PassOn: whoever is named next is this machine or one of its book.
LEMMA PassOnIInv ==
    ASSUME IInv, NEW m \in Machine, ledger[m] # None,
           pc[m] \in {"boot", "sleep", "accepted"},
           PassOn(m, ledger[m].jobs),
           UNCHANGED <<stale, book, alert, rx, jobVars, offs>>
    PROVE  IInv'
<1>1. ledger[m] \in Ledger /\ ledger[m].jobs \in SUBSET Job
  BY DEF IInv, TypeOK, Ledger
<1>2. stale' \in [Machine -> BOOLEAN] /\ observed' \in [Machine -> BOOLEAN]
  BY DEF IInv, TypeOK, PassOn, ClearObserved
<1>3. CASE book[m] = {}
  <2> DEFINE l == [owner |-> m, jobs |-> ledger[m].jobs]
  <2>1. l \in Ledger /\ l.owner = m
    BY <1>1 DEF Ledger
  <2>2. StartCast(m, l)
    BY <1>3 DEF PassOn
  <2> HIDE DEF l
  <2> QED
    BY <1>2, <2>1, <2>2, StartCastIInv
<1>4. CASE book[m] # {}
  <2>1. PICK a \in NextOwners(m, book[m]) :
           StartCast(m, [owner |-> a, jobs |-> ledger[m].jobs])
    BY <1>4 DEF PassOn
  <2>2. book[m] \in SUBSET Machine /\ m \in Nat
    BY DEF IInv, TypeOK
  <2>3. a \in book[m]
    BY <1>4, <2>2, NextOwnersInBook
  <2> DEFINE l == [owner |-> a, jobs |-> ledger[m].jobs]
  <2>4. l \in Ledger /\ l.owner = a
    BY <1>1, <2>2, <2>3 DEF Ledger
  <2>5. StartCast(m, l)
    BY <2>1
  <2> HIDE DEF l
  <2> QED
    BY <1>2, <2>3, <2>4, <2>5, StartCastIInv
<1> QED
  BY <1>3, <1>4

LEMMA CreateLedgerIInv ==
    ASSUME IInv, NEW m \in Machine, CreateLedger(m) PROVE IInv'
<1> DEFINE l == [owner |-> m, jobs |-> {}]
<1>1. l \in Ledger /\ l.owner = m
  BY DEF Ledger
<1>2. stale' \in [Machine -> BOOLEAN] /\ observed' \in [Machine -> BOOLEAN]
  BY DEF IInv, TypeOK, CreateLedger
<1>3. StartCast(m, l) /\ pc[m] \in {"boot", "sleep"}
  BY DEF CreateLedger, Wakes
<1>4. UNCHANGED <<book, alert, rx, jobVars, offs>>
  BY DEF CreateLedger
<1> HIDE DEF l
<1> QED
  BY <1>1, <1>2, <1>3, <1>4, StartCastIInv

\* Rounds that end without a broadcast.
LEMMA QuietRoundIInv ==
    ASSUME IInv, NEW m \in Machine, RoundIdle(m) \/ RoundObserve(m) PROVE IInv'
<1>1. pc[m] \in {"boot", "sleep"} /\ cast[m] = None /\ ledger[m] \in Ledger
  BY DEF IInv, TypeOK, SendingHasLedger, RoundIdle, RoundObserve, Wakes, NoLedgerYet
<1>2. /\ UNCHANGED <<stale, book, offs, netVars, jobVars>>
      /\ Sleep(m)
  BY DEF RoundIdle, RoundObserve
<1>3. /\ ledger' \in [Machine -> Ledger \cup {None}]
      /\ \A n \in Machine \ {m} : ledger'[n] = ledger[n]
  <2>1. CASE RoundIdle(m)
    BY <2>1 DEF RoundIdle, IInv, TypeOK
  <2>2. CASE RoundObserve(m)
    <3>1. [ledger[m] EXCEPT !.owner = m] \in Ledger
      BY <1>1 DEF Ledger
    <3>2. ledger' = [ledger EXCEPT ![m] = [ledger[m] EXCEPT !.owner = m]]
      BY <2>2 DEF RoundObserve
    <3> QED
      BY <3>1, <3>2 DEF IInv, TypeOK
  <2> QED
    BY <2>1, <2>2
<1>4. observed' \in [Machine -> BOOLEAN]
  BY DEF IInv, TypeOK, RoundIdle, RoundObserve
<1>5. /\ pc' = [pc EXCEPT ![m] = "sleep"] /\ waitFor' \in [Machine -> SUBSET Machine]
      /\ elder' \in [Machine -> SUBSET Machine]
  BY <1>2 DEF IInv, TypeOK, Sleep, BootIsOver
<1>6. TypeOK'
  BY <1>2, <1>3, <1>4, <1>5 DEF IInv, TypeOK, netVars, jobVars
<1>7. SendingHasLedger'
  BY <1>1, <1>2, <1>3, <1>5 DEF IInv, TypeOK, SendingHasLedger, netVars
<1>8. BroadcastIsCurrent'
  BY <1>1, <1>2, <1>3 DEF IInv, BroadcastIsCurrent, netVars
<1> QED
  BY <1>6, <1>7, <1>8 DEF IInv

LEMMA RoundPassIInv ==
    ASSUME IInv, NEW m \in Machine, RoundPass(m) PROVE IInv'
  BY PassOnIInv DEF RoundPass, Wakes, NoLedgerYet

LEMMA PassAfterPrintIInv ==
    ASSUME IInv, NEW m \in Machine, PassAfterPrint(m) PROVE IInv'
<1>1. ledger[m] # None
  BY DEF IInv, SendingHasLedger, PassAfterPrint
<1> QED
  BY <1>1, PassOnIInv DEF PassAfterPrint

LEMMA RoundPrintIInv ==
    ASSUME IInv, NEW m \in Machine, RoundPrint(m) PROVE IInv'
<1>1. pc[m] \in {"boot", "sleep"} /\ cast[m] = None /\ ledger[m] \in Ledger
  BY DEF IInv, TypeOK, SendingHasLedger, RoundPrint, Wakes, NoLedgerYet
<1>2. PICK j \in ledger[m].jobs \cap files[m] :
         /\ ledger' = [ledger EXCEPT ![m] = [owner |-> m, jobs |-> RemoveJob(ledger[m].jobs, j)]]
         /\ done' = done \cup {j}
  BY <1>1 DEF RoundPrint, Printable, StartPrint, IInv, TypeOK
<1>3. [owner |-> m, jobs |-> RemoveJob(ledger[m].jobs, j)] \in Ledger
  BY <1>1 DEF Ledger, RemoveJob
<1>4. done' \in SUBSET Job
  BY <1>2 DEF IInv, TypeOK
<1>5. ready' \in [Machine -> BOOLEAN]
  BY DEF RoundPrint, SetOffline, IInv, TypeOK
<1>6. /\ UNCHANGED <<stale, observed, book, waitFor, elder, offs, netVars, files, submitted, announced>>
      /\ pc' = [pc EXCEPT ![m] = "accepted"]
  BY DEF RoundPrint
<1>7. TypeOK'
  BY <1>2, <1>3, <1>4, <1>5, <1>6 DEF IInv, TypeOK, netVars
<1>8. SendingHasLedger'
  BY <1>1, <1>2, <1>3, <1>6 DEF IInv, TypeOK, SendingHasLedger, netVars
<1>9. BroadcastIsCurrent'
  BY <1>1, <1>2, <1>6 DEF IInv, TypeOK, BroadcastIsCurrent, netVars
<1> QED
  BY <1>7, <1>8, <1>9 DEF IInv


\* Appending a packet to some of the channels keeps their type.
LEMMA DeliverType ==
    ASSUME rx \in [Machine -> Seq(Packet)], NEW N, NEW p \in Packet, Deliver(N, p)
    PROVE  rx' \in [Machine -> Seq(Packet)]
<1>1. \A n \in Machine : Append(rx[n], p) \in Seq(Packet)
  OBVIOUS
<1> QED
  BY <1>1 DEF Deliver

LEMMA ReachedType ==
    ASSUME NEW m \in Machine, NEW R \in Reached(m)
    PROVE  R \in SUBSET Machine
  BY DEF Reached, Listeners, Up

LEMMA SendLedgerCopyIInv ==
    ASSUME IInv, NEW m \in Machine, SendLedgerCopy(m) PROVE IInv'
<1>1. cast[m] # None /\ cast[m] \in LedgerCast
  BY DEF IInv, TypeOK, SendingHasLedger, SendLedgerCopy
<1>2. PICK R \in Reached(m) :
         /\ Deliver(Kept(R, cast[m].heard),
                    [kind |-> "ledger", from |-> m,
                     owner |-> cast[m].owner, jobs |-> cast[m].jobs])
         /\ cast' = [cast EXCEPT ![m] = AfterCopy(cast[m], Kept(R, cast[m].heard))]
  BY DEF SendLedgerCopy
<1> DEFINE new == Kept(R, cast[m].heard)
           c == AfterCopy(cast[m], new)
<1>3. new \in SUBSET Machine
  BY <1>2, ReachedType DEF Kept
<1>4. c \in LedgerCast
  <2>1. cast[m].left - 1 \in 0..Repeats /\ cast[m].heard \cup new \in SUBSET Machine
    BY <1>1, <1>3 DEF SendLedgerCopy, LedgerCast, CopiesLeft
  <2> HIDE DEF new
  <2> QED
    BY <1>1, <2>1 DEF LedgerCast, AfterCopy
<1>5. cast' = [cast EXCEPT ![m] = c]
  BY <1>2
<1>6. rx' \in [Machine -> Seq(Packet)]
  <2>1. [kind |-> "ledger", from |-> m,
         owner |-> cast[m].owner, jobs |-> cast[m].jobs] \in Packet
    BY <1>1 DEF LedgerCast, Packet, LedgerPacket
  <2> QED
    BY <1>2, <2>1, DeliverType DEF IInv, TypeOK
<1>7. UNCHANGED <<pc, ledger, stale, observed, book, waitFor, elder, offs, alert, jobVars>>
  BY DEF SendLedgerCopy
<1>8. c.owner = cast[m].owner /\ c.jobs = cast[m].jobs /\ c # None
  BY <1>1, <1>4 DEF LedgerCast, AfterCopy
<1> HIDE DEF c, new
<1>9. TypeOK'
  BY <1>4, <1>5, <1>6, <1>7 DEF IInv, TypeOK, jobVars
<1>10. SendingHasLedger'
  BY <1>1, <1>5, <1>7, <1>8 DEF IInv, TypeOK, SendingHasLedger
<1>11. BroadcastIsCurrent'
  BY <1>1, <1>5, <1>7, <1>8 DEF IInv, TypeOK, BroadcastIsCurrent
<1> QED
  BY <1>9, <1>10, <1>11 DEF IInv

LEMMA EndLedgerCastIInv ==
    ASSUME IInv, NEW m \in Machine, EndLedgerCast(m) PROVE IInv'
<1>1. /\ cast' = [cast EXCEPT ![m] = None]
      /\ pc' = [pc EXCEPT ![m] = "sleep"]
      /\ UNCHANGED <<ledger, stale, observed, book, offs, rx, alert, jobVars>>
  BY DEF EndLedgerCast, Sleep
<1>2. waitFor' \in [Machine -> SUBSET Machine] /\ elder' \in [Machine -> SUBSET Machine]
  BY DEF EndLedgerCast, Sleep, BootIsOver, IInv, TypeOK
<1>3. TypeOK'
  BY <1>1, <1>2 DEF IInv, TypeOK, jobVars
<1>4. SendingHasLedger'
  BY <1>1 DEF IInv, TypeOK, SendingHasLedger
<1>5. BroadcastIsCurrent'
  BY <1>1 DEF IInv, TypeOK, BroadcastIsCurrent
<1> QED
  BY <1>3, <1>4, <1>5 DEF IInv

\* While a machine does not send, nothing about its own ledger and book can
\* make the broadcasts of others out of date.
LEMMA NotBusyIInv ==
    ASSUME IInv, NEW m \in Machine, ~ Busy(m),
           TypeOK', UNCHANGED <<pc, cast>>,
           \A n \in Machine \ {m} : ledger'[n] = ledger[n] /\ book'[n] = book[n]
    PROVE  IInv'
<1>1. cast[m] = None
  BY DEF IInv, SendingHasLedger, Busy
<1>2. SendingHasLedger'
  BY <1>1 DEF IInv, SendingHasLedger, Busy
<1>3. BroadcastIsCurrent'
  BY <1>1 DEF IInv, BroadcastIsCurrent
<1> QED
  BY <1>2, <1>3 DEF IInv

LEMMA InsertAddrType ==
    ASSUME NEW b \in SUBSET Machine, NEW a \in Machine
    PROVE  InsertAddr(b, a) \in SUBSET Machine
  BY DEF InsertAddr

LEMMA InsertJobType ==
    ASSUME NEW J \in SUBSET Job, NEW j \in Job
    PROVE  InsertJob(J, j) \in SUBSET Job
  BY DEF InsertJob

\* Adding a job to a ledger changes its jobs only.
LEMMA LedgerInsertType ==
    ASSUME TypeOK, NEW m \in Machine, ledger[m] # None, NEW j \in Job,
           ledger' = [ledger EXCEPT ![m].jobs = InsertJob(@, j)]
    PROVE  /\ ledger' \in [Machine -> Ledger \cup {None}]
           /\ \A n \in Machine \ {m} : ledger'[n] = ledger[n]
<1>1. ledger[m] \in Ledger
  BY DEF TypeOK
<1>2. InsertJob(ledger[m].jobs, j) \in SUBSET Job
  BY <1>1, InsertJobType DEF Ledger
<1>3. [ledger[m] EXCEPT !.jobs = InsertJob(ledger[m].jobs, j)] \in Ledger
  BY <1>1, <1>2 DEF Ledger
<1>4. ledger' = [ledger EXCEPT ![m] = [ledger[m] EXCEPT !.jobs = InsertJob(ledger[m].jobs, j)]]
  OBVIOUS
<1> QED
  BY <1>3, <1>4 DEF TypeOK

LEMMA ReceiveIInv ==
    ASSUME IInv, NEW m \in Machine, Receive(m) PROVE IInv'
<1> DEFINE p == Head(rx[m])
<1>1. rx[m] \in Seq(Packet) /\ rx[m] # <<>>
  BY DEF IInv, TypeOK, Receive
<1>2. p \in Packet /\ Tail(rx[m]) \in Seq(Packet)
  BY <1>1
<1>3. p.from \in Machine
  BY <1>2 DEF Packet, LedgerPacket, NewJobPacket
<1>4. /\ rx' = [rx EXCEPT ![m] = Tail(rx[m])]
      /\ book' = [book EXCEPT ![m] = InsertAddr(book[m], p.from)]
      /\ UNCHANGED <<pc, observed, elder, offs, cast, alert, jobVars>>
      /\ ~ Busy(m)
  BY DEF MutexesFree, Receive, IInv, TypeOK
<1>5. waitFor' \in [Machine -> SUBSET Machine]
  BY DEF Receive, IInv, TypeOK
<1>6. /\ ledger' \in [Machine -> Ledger \cup {None}]
      /\ \A n \in Machine \ {m} : ledger'[n] = ledger[n]
      /\ stale' \in [Machine -> BOOLEAN]
  <2>1. CASE p.kind = "newjob"
    <3>1. p.guid \in Job
      BY <1>2, <2>1 DEF Packet, LedgerPacket, NewJobPacket
    <3>2. /\ ledger' = IF ledger[m] = None
                       THEN ledger
                       ELSE [ledger EXCEPT ![m].jobs = InsertJob(@, p.guid)]
          /\ UNCHANGED stale
      BY <2>1 DEF Receive
    <3> HIDE DEF p
    <3>3. CASE ledger[m] = None
      BY <3>2, <3>3 DEF IInv, TypeOK
    <3>4. CASE ledger[m] # None
      BY <3>1, <3>2, <3>4, LedgerInsertType DEF IInv, TypeOK
    <3> QED
      BY <3>3, <3>4
  <2>2. CASE p.kind = "ledger"
    <3>1. [owner |-> p.owner, jobs |-> p.jobs] \in Ledger
      BY <1>2, <2>2 DEF Packet, LedgerPacket, NewJobPacket, Ledger
    <3>2. /\ ledger' = [ledger EXCEPT ![m] = [owner |-> p.owner, jobs |-> p.jobs]]
          /\ stale' = [stale EXCEPT ![m] = FALSE]
      BY <2>2 DEF Receive
    <3> HIDE DEF p
    <3> QED
      BY <3>1, <3>2 DEF IInv, TypeOK
  <2>3. p.kind \in {"newjob", "ledger"}
    BY <1>2 DEF Packet, LedgerPacket, NewJobPacket
  <2> QED
    BY <2>1, <2>2, <2>3
<1>7. InsertAddr(book[m], p.from) \in SUBSET Machine
  BY <1>3, InsertAddrType DEF IInv, TypeOK
<1> HIDE DEF p
<1>8. TypeOK'
  BY <1>2, <1>4, <1>5, <1>6, <1>7 DEF IInv, TypeOK, jobVars
<1> QED
  BY <1>4, <1>6, <1>8, NotBusyIInv DEF IInv, TypeOK


LEMMA UpdateBookIInv ==
    ASSUME IInv, NEW m \in Machine, UpdateBook(m) PROVE IInv'
<1>1. PICK a \in Machine : HearHeartbeat(m, a) \/ ExpireAddress(m, a)
  BY DEF UpdateBook
<1>2. /\ UNCHANGED <<pc, ledger, stale, observed, waitFor, elder, offs, netVars, jobVars>>
      /\ ~ Busy(m)
  BY <1>1 DEF HearHeartbeat, ExpireAddress, MutexesFree
<1>3. /\ book' \in [Machine -> SUBSET Machine]
      /\ \A n \in Machine \ {m} : book'[n] = book[n]
  <2>1. InsertAddr(book[m], a) \in SUBSET Machine
    BY InsertAddrType DEF IInv, TypeOK
  <2> QED
    BY <1>1, <2>1 DEF HearHeartbeat, ExpireAddress, IInv, TypeOK
<1>4. TypeOK'
  BY <1>2, <1>3 DEF IInv, TypeOK, netVars, jobVars
<1> QED
  BY <1>2, <1>3, <1>4, NotBusyIInv DEF netVars

LEMMA AppendToLedgerIInv ==
    ASSUME IInv, NEW m \in Machine, NEW j \in Job, AppendToLedger(m, j) PROVE IInv'
<1>1. /\ UNCHANGED <<pc, stale, observed, book, waitFor, elder, offs, cast, rx, ready, done>>
      /\ ~ Busy(m)
  BY DEF AppendToLedger, MutexesFree
<1>2. /\ submitted' \in SUBSET Job
      /\ announced' \in SUBSET Job
      /\ files' \in [Machine -> SUBSET Job]
  BY DEF AppendToLedger, IInv, TypeOK
<1>3. /\ ledger' \in [Machine -> Ledger \cup {None}]
      /\ \A n \in Machine \ {m} : ledger'[n] = ledger[n]
      /\ alert' \in [Machine -> JobAlert \cup {None}]
  <2>1. CASE IsOwner(m)
    BY <2>1, LedgerInsertType DEF AppendToLedger, IsOwner, IInv, TypeOK
  <2>2. CASE ~ IsOwner(m)
    <3>1. [guid |-> j, left |-> Repeats, heard |-> {}] \in JobAlert
      BY DEF JobAlert
    <3>2. ledger' = ledger
      BY <2>2 DEF AppendToLedger
    <3>3. \/ alert' = alert
          \/ alert' = [alert EXCEPT ![m] = [guid |-> j, left |-> Repeats, heard |-> {}]]
      BY <2>2 DEF AppendToLedger
    <3>4. alert' \in [Machine -> JobAlert \cup {None}]
      BY <3>1, <3>3 DEF IInv, TypeOK
    <3> QED
      BY <3>2, <3>4 DEF IInv, TypeOK
  <2> QED
    BY <2>1, <2>2
<1>4. TypeOK'
  BY <1>1, <1>2, <1>3 DEF IInv, TypeOK
<1> QED
  BY <1>1, <1>3, <1>4, NotBusyIInv

\* Steps that leave manage_ledger, the ledgers, the broadcasts and the books
\* alone.
LEMMA AsideIInv ==
    ASSUME IInv, TypeOK', UNCHANGED <<pc, ledger, cast, book>>
    PROVE  IInv'
  BY DEF IInv, SendingHasLedger, BroadcastIsCurrent

LEMMA SendAlertCopyIInv ==
    ASSUME IInv, NEW m \in Machine, SendAlertCopy(m) PROVE IInv'
<1>1. alert[m] \in JobAlert
  BY DEF IInv, TypeOK, SendAlertCopy
<1>2. PICK R \in Reached(m) :
         /\ Deliver(Kept(R, alert[m].heard),
                    [kind |-> "newjob", from |-> m, guid |-> alert[m].guid])
         /\ alert' = [alert EXCEPT ![m] = AfterCopy(alert[m], Kept(R, alert[m].heard))]
  BY DEF SendAlertCopy
<1> DEFINE new == Kept(R, alert[m].heard)
           c == AfterCopy(alert[m], new)
<1>3. new \in SUBSET Machine
  BY <1>2, ReachedType DEF Kept
<1>4. c \in JobAlert
  <2>1. alert[m].left - 1 \in 0..Repeats /\ alert[m].heard \cup new \in SUBSET Machine
    BY <1>1, <1>3 DEF SendAlertCopy, JobAlert, CopiesLeft
  <2> HIDE DEF new
  <2> QED
    BY <1>1, <2>1 DEF JobAlert, AfterCopy
<1>5. alert' = [alert EXCEPT ![m] = c]
  BY <1>2
<1>6. rx' \in [Machine -> Seq(Packet)]
  <2>1. [kind |-> "newjob", from |-> m, guid |-> alert[m].guid] \in Packet
    BY <1>1 DEF JobAlert, Packet, NewJobPacket
  <2> QED
    BY <1>2, <2>1, DeliverType DEF IInv, TypeOK
<1>7. UNCHANGED <<pc, ledger, stale, observed, book, waitFor, elder, offs, cast, jobVars>>
  BY DEF SendAlertCopy
<1> HIDE DEF c, new
<1>8. TypeOK'
  BY <1>4, <1>5, <1>6, <1>7 DEF IInv, TypeOK, jobVars
<1> QED
  BY <1>7, <1>8, AsideIInv

LEMMA AsideStepsIInv ==
    ASSUME IInv, NEW m \in Machine,
           EndAlert(m) \/ GoStale(m) \/ ToggleReady(m) \/ \E j \in Job : FileArrives(m, j)
    PROVE  IInv'
<1>1. CASE EndAlert(m)
  BY <1>1, AsideIInv DEF EndAlert, IInv, TypeOK, jobVars
<1>2. CASE GoStale(m)
  <2>1. stale' \in [Machine -> BOOLEAN]
    BY <1>2 DEF GoStale, IInv, TypeOK
  <2> QED
    BY <1>2, <2>1, AsideIInv DEF GoStale, IInv, TypeOK, netVars, jobVars
<1>3. CASE ToggleReady(m)
  <2>1. ready' \in [Machine -> BOOLEAN]
    BY <1>3 DEF ToggleReady, IInv, TypeOK
  <2> QED
    BY <1>3, <2>1, AsideIInv DEF ToggleReady, IInv, TypeOK, netVars
<1>4. CASE \E j \in Job : FileArrives(m, j)
  <2>1. PICK j \in Job : FileArrives(m, j)
    BY <1>4
  <2>2. files' \in [Machine -> SUBSET Job]
    BY <2>1 DEF FileArrives, IInv, TypeOK
  <2> QED
    BY <2>1, <2>2, AsideIInv DEF FileArrives, IInv, TypeOK, netVars
<1> QED
  BY <1>1, <1>2, <1>3, <1>4

LEMMA PowerIInv ==
    ASSUME IInv, NEW m \in Machine, PowerOn(m) \/ PowerOff(m) PROVE IInv'
<1>1. CASE PowerOn(m)
  <2>1. TypeOK'
    <3>1. elder' \in [Machine -> SUBSET Machine]
      BY <1>1 DEF PowerOn, Up, IInv, TypeOK
    <3> QED
      BY <1>1, <3>1 DEF PowerOn, SetOffline, IInv, TypeOK, netVars
  <2>2. SendingHasLedger'
    BY <1>1 DEF PowerOn, IInv, TypeOK, SendingHasLedger, netVars
  <2>3. BroadcastIsCurrent'
    BY <1>1 DEF PowerOn, IInv, BroadcastIsCurrent, netVars
  <2> QED
    BY <2>1, <2>2, <2>3 DEF IInv
<1>2. CASE PowerOff(m)
  <2>1. TypeOK'
    <3>1. offs' \in [idle : 0..MaxOffs, busy : 0..MaxOffs]
      <4>1. /\ offs \in [idle : 0..MaxOffs, busy : 0..MaxOffs]
            /\ offs.idle + offs.busy < MaxOffs
        BY <1>2 DEF PowerOff, IInv, TypeOK
      <4>2. offs.idle + 1 \in 0..MaxOffs /\ offs.busy + 1 \in 0..MaxOffs
        BY <4>1, CapAssumption
      <4>3. \/ offs' = [offs EXCEPT !.busy = offs.busy + 1]
            \/ offs' = [offs EXCEPT !.idle = offs.idle + 1]
        BY <1>2 DEF PowerOff
      <4> QED
        BY <4>1, <4>2, <4>3
    <3>2. rx' \in [Machine -> Seq(Packet)] /\ waitFor' \in [Machine -> SUBSET Machine]
      BY <1>2 DEF PowerOff, IInv, TypeOK
    <3> QED
      BY <1>2, <3>1, <3>2 DEF PowerOff, IInv, TypeOK, jobVars
  <2>2. SendingHasLedger'
    BY <1>2 DEF PowerOff, IInv, TypeOK, SendingHasLedger
  <2>3. BroadcastIsCurrent'
    BY <1>2 DEF PowerOff, IInv, TypeOK, BroadcastIsCurrent
  <2> QED
    BY <2>1, <2>2, <2>3 DEF IInv
<1> QED
  BY <1>1, <1>2

LEMMA NextIInv == IInv /\ [Next]_vars => IInv'
<1> SUFFICES ASSUME IInv, [Next]_vars PROVE IInv'
  OBVIOUS
<1>1. CASE UNCHANGED vars
  BY <1>1 DEF vars, netVars, jobVars, IInv, TypeOK, SendingHasLedger, BroadcastIsCurrent
<1>2. ASSUME NEW m \in Machine, ManageLedger(m) PROVE IInv'
  BY <1>2, CreateLedgerIInv, QuietRoundIInv, RoundPassIInv, RoundPrintIInv,
     PassAfterPrintIInv, SendLedgerCopyIInv, EndLedgerCastIInv
  DEF ManageLedger, Round
<1>3. ASSUME NEW m \in Machine, SendNewJobAlert(m) PROVE IInv'
  BY <1>3, SendAlertCopyIInv, AsideStepsIInv DEF SendNewJobAlert
<1>4. ASSUME NEW m \in Machine,
             \/ Receive(m) \/ UpdateBook(m) \/ GoStale(m) \/ ToggleReady(m)
             \/ PowerOn(m) \/ PowerOff(m)
      PROVE  IInv'
  BY <1>4, ReceiveIInv, UpdateBookIInv, AsideStepsIInv, PowerIInv
<1>5. ASSUME NEW m \in Machine, NEW j \in Job, AppendToLedger(m, j) \/ FileArrives(m, j)
      PROVE  IInv'
  BY <1>5, AppendToLedgerIInv, AsideStepsIInv
<1> QED
  BY <1>1, <1>2, <1>3, <1>4, <1>5 DEF Next

\* Every variable of the ring keeps its type: machines only ever name
\* machines, and every channel holds well-formed packets.
THEOREM TypeCorrect == Spec => []TypeOK
<1>1. Spec => []IInv
  BY InitIInv, NextIInv, PTL DEF Spec
<1>2. IInv => TypeOK
  BY DEF IInv
<1> QED
  BY <1>1, <1>2, PTL

(***************************************************************************)
(* For any number of machines, any loss of packets and any power failure,  *)
(* what manage_ledger broadcasts is the ledger it holds until the last     *)
(* copy is out, and it names itself or a machine it knows: the two mutexes *)
(* held over the awaits (tasks/udp.rs 120-226) are enough.                 *)
(***************************************************************************)
THEOREM BroadcastCorrect == Spec => []BroadcastIsCurrent
<1>1. Spec => []IInv
  BY InitIInv, NextIInv, PTL DEF Spec
<1>2. IInv => BroadcastIsCurrent
  BY DEF IInv
<1> QED
  BY <1>1, <1>2, PTL

=============================================================================
