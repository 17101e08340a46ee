----------------------------- MODULE LedgerRing -----------------------------
(***************************************************************************)
(* The token ring that shares print jobs between machines: manage_ledger,  *)
(* udp_receiver, address_book_lifetime_check and heartbeat (tasks/udp.rs), *)
(* the broadcasts of tasks/messages.rs and append_to_ledger and            *)
(* distribute_file (tasks/tcp.rs), on several machines at once.            *)
(*                                                                         *)
(* Every machine runs its tasks on one cooperative executor, so what a     *)
(* task does between two awaits is one action.  manage_ledger keeps the    *)
(* mutexes of the address book and of the ledger while it broadcasts       *)
(* (Busy); every other task takes and drops them between two awaits.       *)
(*                                                                         *)
(* Time is abstracted to four facts, each a named guard: SleepOutlasts     *)
(* (5 s is longer than the broadcasts under way when the sleep began and   *)
(* the reading of the packets then queued),                                *)
(* BootHears (25 s after power on, the ledger of a machine that was past   *)
(* its own boot by then has been heard), MayGoStale (45 s without a        *)
(* broadcast) and MayExpire (20 s without a heartbeat).                    *)
(***************************************************************************)
EXTENDS Addresses, Sequences

CONSTANTS
    Machine,    \* the machines, named by their address
    Job,        \* the job guids
    None,       \* Rust's None
    Repeats,    \* copies of a broadcast (3)
    RxCap,      \* UDP_CHANNEL_SIZE, and the packet udp_receiver waits with
    BookCap,    \* ADDRESS_BOOK_ENTRIES
    JobCap,     \* capacity of Ledger.jobs
    Lossy,      \* the network may lose packets, allocations may fail
    Staggered,  \* machines boot apart: one is switched on only while no other
                \* is in the 25 s of its boot
    Echo,       \* a machine hears its own broadcasts
    Attended,   \* bound: the machines a technician sets ready
    MaxOffs     \* bound: how often machines lose power

ASSUME MachineAssumption == Machine \subseteq Nat
ASSUME CapAssumption ==
    /\ Repeats \in Nat \ {0}
    /\ RxCap \in Nat \ {0}
    /\ BookCap \in Nat \ {0}
    /\ JobCap \in Nat \ {0}
    /\ MaxOffs \in Nat
ASSUME ModeAssumption == {Lossy, Staggered, Echo} \subseteq BOOLEAN
ASSUME AttendedAssumption == Attended \subseteq Machine

\* struct Ledger; the order of the jobs is left out.
Ledger == [owner : Machine, jobs : SUBSET Job]

\* A broadcast under way: its payload, the copies left to send and the
\* machines that have received one.
LedgerCast == [owner : Machine, jobs : SUBSET Job,
               left : 0..Repeats, heard : SUBSET Machine]
JobAlert == [guid : Job, left : 0..Repeats, heard : SUBSET Machine]

ASSUME NoneAssumption == None \notin Ledger \cup LedgerCast \cup JobAlert

VARIABLES
    pc,         \* where manage_ledger is
    ledger,     \* state.jobs: LedgerState.ledger, or None
    stale,      \* LedgerState.received is more than 45 s ago
    observed,   \* observed_ownership
    book,       \* the keys of state.addresses
    cast,       \* the send_ledger under way: what is sent, copies left, who has it
    waitFor,    \* machines that send or read on since the current sleep began
    alert,      \* the send_new_job_alert under way in the TCP task
    rx,         \* the channel of the UDP socket
    files,      \* the .gcode files on the USB drive
    ready,      \* the technician has set the machine ready
    submitted,  \* jobs uploaded so far (history)
    announced,  \* jobs put in the owner's ledger, or alerted to a network
                \* that has a ledger (history)
    done,       \* jobs some machine started to print (history)
    elder,      \* the machines past their boot when this one was switched on,
                \* while it boots
    offs        \* power losses so far, by whether a print or a broadcast was
                \* under way (history)

netVars == <<rx, cast, alert>>
jobVars == <<files, ready, submitted, announced, done>>
vars == <<pc, ledger, stale, observed, book, waitFor, elder, offs, netVars, jobVars>>

Up == {m \in Machine : pc[m] # "off"}

\* manage_ledger holds both mutexes across an await.
Busy(m) == pc[m] \in {"accepted", "ledger"}

\* Mutant: the guards are dropped before the broadcast.
AlwaysFree(m) == TRUE

\* The mutexes of the address book and of the ledger can be taken on m.
MutexesFree(m) == ~ Busy(m)

\* LedgerState::is_owner
IsOwner(m) == ledger[m] # None /\ ledger[m].owner = m

LedgerPacket == [kind : {"ledger"}, from : Machine, owner : Machine, jobs : SUBSET Job]
NewJobPacket == [kind : {"newjob"}, from : Machine, guid : Job]
Packet == LedgerPacket \cup NewJobPacket

Init ==
    /\ pc = [m \in Machine |-> "off"]
    /\ ledger = [m \in Machine |-> None]
    /\ stale = [m \in Machine |-> FALSE]
    /\ observed = [m \in Machine |-> FALSE]
    /\ book = [m \in Machine |-> {}]
    /\ cast = [m \in Machine |-> None]
    /\ waitFor = [m \in Machine |-> {}]
    /\ alert = [m \in Machine |-> None]
    /\ rx = [m \in Machine |-> <<>>]
    /\ files = [m \in Machine |-> {}]
    /\ ready = [m \in Machine |-> FALSE]
    /\ submitted = {}
    /\ announced = {}
    /\ done = {}
    /\ elder = [m \in Machine |-> {}]
    /\ offs = [idle |-> 0, busy |-> 0]

-----------------------------------------------------------------------------
(* Time.                                                                   *)

\* One of these machines holds the ledger, is sending it or is about to read it.
LedgerAmong(S) ==
    \E n \in S :
        \/ IsOwner(n)
        \/ Busy(n)
        \/ \E i \in DOMAIN rx[n] : rx[n][i].kind = "ledger"

\* The machines that were sending or had packets to read when m went to
\* sleep have finished.
SleepOutlasts(m) == waitFor[m] = {}

\* The address book of m has n, or no room for it.
HasHeardOf(m, n) == n \in book[m] \/ Cardinality(book[m]) = BookCap

\* Unless packets are lost, m and a machine that was past its boot when m was
\* switched on hear each other's heartbeats in the 25 s of the boot of m, and
\* that machine finishes a turn in them if it has the ledger, or got it by a
\* broadcast, which m heard too.  A machine that is itself booting may hold
\* the ledger for 30 s without a word.
BootHears(m) ==
    ~ Lossy /\ pc[m] = "boot" =>
        /\ LedgerAmong(elder[m] \cup {m}) => ledger[m] # None
        /\ \A n \in elder[m] : HasHeardOf(m, n) /\ HasHeardOf(n, m)

\* A boot takes less than 45 s, and a living owner broadcasts more often
\* than that.
MayGoStale(m) ==
    /\ pc[m] # "boot"
    /\ Lossy \/ (~ LedgerAmong(Up \ {m}) /\ rx[m] = <<>>)

\* A living machine sends a heartbeat every 2 s.
MayExpire(a) == Lossy \/ a \notin Up

-----------------------------------------------------------------------------
(* The network.                                                            *)

Listeners(m) == IF Echo THEN Up ELSE Up \ {m}

\* The sets of machines one copy may reach.
Reached(m) == IF Lossy THEN SUBSET Listeners(m) ELSE {Listeners(m)}

\* UdpSocket::_recv: try_send drops the packet if the channel is full.  A
\* copy of a message that was already received is dropped by the history of
\* idempotency keys when it is read; here it takes no room in the channel, nor
\* do heartbeats and log lines.
Kept(R, heard) == {n \in R \ heard : Len(rx[n]) < RxCap}

\* A broadcast b after one more copy, newly received by these machines.
AfterCopy(b, new) == [b EXCEPT !.left = b.left - 1, !.heard = b.heard \cup new]

Deliver(N, p) == rx' = [n \in Machine |-> IF n \in N THEN Append(rx[n], p) ELSE rx[n]]

-----------------------------------------------------------------------------
(* manage_ledger.                                                          *)

BootIsOver(m) == elder' = [elder EXCEPT ![m] = {}]

\* Back to the top of the loop, which sleeps for 5 s.
Sleep(m) ==
    /\ BootIsOver(m)
    /\ pc' = [pc EXCEPT ![m] = "sleep"]
    /\ waitFor' = [n \in Machine |->
                      IF n = m
                      THEN {k \in Machine : (k # m /\ Busy(k)) \/ rx[k] # <<>>}
                      ELSE IF rx[m] = <<>> THEN waitFor[n] \ {m} ELSE waitFor[n]]

\* send_ledger(l.clone()) begins, with both mutexes held.
StartCast(m, l) ==
    /\ BootIsOver(m)
    /\ pc' = [pc EXCEPT ![m] = "ledger"]
    /\ ledger' = [ledger EXCEPT ![m] = l]
    /\ cast' = [cast EXCEPT ![m] = [owner |-> l.owner, jobs |-> l.jobs,
                                    left |-> Repeats, heard |-> {}]]
    /\ UNCHANGED waitFor

\* The timer of the loop has fired.
Wakes(m) ==
    /\ pc[m] \in {"boot", "sleep"}
    /\ SleepOutlasts(m)
    /\ BootHears(m)

\* Mutant: the first round creates a ledger whether or not one was heard.
FirstRound(m) == pc[m] = "boot"

\* jobs_guard.is_none()
NoLedgerYet(m) == ledger[m] = None

CreateLedger(m) ==
    /\ Wakes(m)
    /\ NoLedgerYet(m)
    /\ StartCast(m, [owner |-> m, jobs |-> {}])
    /\ stale' = [stale EXCEPT ![m] = FALSE]
    /\ UNCHANGED <<observed, book, alert, rx, jobVars, offs>>

\* Mutant: a stale ledger is never taken over.
OwnerAsHeard(m) == ledger[m].owner

\* The owner once a stale ledger has been taken over.
OwnerNow(m) ==
    IF stale[m] /\ (book[m] = {} \/ Min(book[m]) = m)
    THEN m
    ELSE ledger[m].owner

\* Mutant: no round of mere observation.
ActsAtOnce(m) == TRUE

\* observed_ownership: the ledger was already mine in an earlier round.
MayAct(m) == observed[m]

\* Mutant: the flag is left set.
KeepObserved(m) == UNCHANGED observed

\* observed_ownership = false
ClearObserved(m) == observed' = [observed EXCEPT ![m] = FALSE]

\* Not mine: nothing to do this round.
RoundIdle(m) ==
    /\ Wakes(m)
    /\ ~ NoLedgerYet(m)
    /\ OwnerNow(m) # m
    /\ Sleep(m)
    /\ UNCHANGED <<ledger, stale, observed, book, offs, netVars, jobVars>>

\* Mine, but seen for the first time: act in the next round.
RoundObserve(m) ==
    /\ Wakes(m)
    /\ ~ NoLedgerYet(m)
    /\ OwnerNow(m) = m
    /\ ~ MayAct(m)
    /\ observed' = [observed EXCEPT ![m] = TRUE]
    /\ ledger' = [ledger EXCEPT ![m].owner = m]
    /\ Sleep(m)
    /\ UNCHANGED <<stale, book, offs, netVars, jobVars>>

\* Mutant: the next owner is sent a fresh ledger.
PassOnEmpty(m, jobs) ==
    IF book[m] = {}
    THEN StartCast(m, [owner |-> m, jobs |-> {}]) /\ UNCHANGED observed
    ELSE /\ \E a \in NextOwners(m, book[m]) : StartCast(m, [owner |-> a, jobs |-> {}])
         /\ ClearObserved(m)

\* "It's only me": keep the ledger.  Otherwise hand it to the next machine;
\* observed_ownership is cleared after the broadcast, before it is read.
PassOn(m, jobs) ==
    IF book[m] = {}
    THEN /\ StartCast(m, [owner |-> m, jobs |-> jobs])
         /\ UNCHANGED observed
    ELSE /\ \E a \in NextOwners(m, book[m]) : StartCast(m, [owner |-> a, jobs |-> jobs])
         /\ ClearObserved(m)

\* Mine, and observed.  No job is started: the machine is not ready, it is
\* not idle, it has no file of a job of the ledger, or Marlin refuses.
RoundPass(m) ==
    /\ Wakes(m)
    /\ ~ NoLedgerYet(m)
    /\ OwnerNow(m) = m
    /\ MayAct(m)
    /\ PassOn(m, ledger[m].jobs)
    /\ UNCHANGED <<stale, book, alert, rx, jobVars, offs>>

\* Mutant: a started job stays in the ledger.
KeepJob(jobs, j) == jobs

\* jobs.remove(&guid)
RemoveJob(jobs, j) == jobs \ {j}

\* marlin::is_ready
IsReady(m) == ready[m]

\* marlin::set_offline
SetOffline(m) == ready' = [ready EXCEPT ![m] = FALSE]

\* The jobs whose file can be opened.  The first one is printed; their order
\* is left out.
Printable(m) == ledger[m].jobs \cap files[m]

\* marlin::print, when the machine is idle and Marlin takes the commands.
StartPrint(j) == done' = done \cup {j}

\* Mine, observed, and Marlin has started a job: it leaves the ledger, the
\* machine is set offline and send_log begins, with both mutexes held.
RoundPrint(m) ==
    /\ Wakes(m)
    /\ ~ NoLedgerYet(m)
    /\ OwnerNow(m) = m
    /\ MayAct(m)
    /\ IsReady(m)
    /\ \E j \in Printable(m) :
          /\ StartPrint(j)
          /\ ledger' = [ledger EXCEPT ![m] = [owner |-> m, jobs |-> RemoveJob(@.jobs, j)]]
    /\ SetOffline(m)
    /\ pc' = [pc EXCEPT ![m] = "accepted"]
    /\ UNCHANGED <<stale, observed, book, waitFor, elder, offs, netVars, files, submitted, announced>>

\* send_log has returned: pass the ledger on in the same round.
PassAfterPrint(m) ==
    /\ pc[m] = "accepted"
    /\ PassOn(m, ledger[m].jobs)
    /\ UNCHANGED <<stale, book, alert, rx, jobVars, offs>>

\* Mutant: the loop runs once too often.
OneCopyMore(b) == b.left >= 0

\* for _ in 0..repeats
CopiesLeft(b) == b.left > 0

\* PacketBuffer::alloc finds no memory.
AllocFails == Lossy

\* One copy of the ledger, and the 100 ms after it.
SendLedgerCopy(m) ==
    /\ pc[m] = "ledger"
    /\ CopiesLeft(cast[m])
    /\ \E R \in Reached(m) :
          LET new == Kept(R, cast[m].heard)
          IN  /\ Deliver(new, [kind |-> "ledger", from |-> m,
                               owner |-> cast[m].owner, jobs |-> cast[m].jobs])
              /\ cast' = [cast EXCEPT ![m] = AfterCopy(cast[m], new)]
    /\ UNCHANGED <<pc, ledger, stale, observed, book, waitFor, elder, offs, alert, jobVars>>

\* send_ledger returns, early if no packet buffer can be allocated, and the
\* mutexes are dropped.
EndLedgerCast(m) ==
    /\ pc[m] = "ledger"
    /\ cast[m].left = 0 \/ AllocFails
    /\ cast' = [cast EXCEPT ![m] = None]
    /\ Sleep(m)
    /\ UNCHANGED <<ledger, stale, observed, book, offs, rx, alert, jobVars>>

-----------------------------------------------------------------------------
(* The other tasks.  All of them need a mutex manage_ledger may hold.      *)

\* LinearMap::insert, whose error is only logged.
InsertAddr(b, a) == IF Cardinality(b) < BookCap THEN b \cup {a} ELSE b

\* FnvIndexSet::insert, whose error is ignored.
InsertJob(jobs, j) == IF Cardinality(jobs) < JobCap THEN jobs \cup {j} ELSE jobs

\* udp_receiver, for a NewJob or Ledger packet that is not a duplicate.
Receive(m) ==
    /\ m \in Up
    /\ MutexesFree(m)
    /\ rx[m] # <<>>
    /\ rx' = [rx EXCEPT ![m] = Tail(@)]
    /\ waitFor' = [n \in Machine |->
                      IF Len(rx[m]) = 1 THEN waitFor[n] \ {m} ELSE waitFor[n]]
    /\ LET p == Head(rx[m])
       IN  /\ book' = [book EXCEPT ![m] = InsertAddr(@, p.from)]
           /\ \/ /\ p.kind = "newjob"
                 /\ ledger' = IF ledger[m] = None
                              THEN ledger
                              ELSE [ledger EXCEPT ![m].jobs = InsertJob(@, p.guid)]
                 /\ UNCHANGED stale
              \/ /\ p.kind = "ledger"
                 /\ ledger' = [ledger EXCEPT ![m] = [owner |-> p.owner, jobs |-> p.jobs]]
                 /\ stale' = [stale EXCEPT ![m] = FALSE]
    /\ UNCHANGED <<pc, observed, elder, offs, cast, alert, jobVars>>

\* udp_receiver, for a heartbeat or a log line: only the sender matters.
HearHeartbeat(m, a) ==
    /\ m \in Up
    /\ MutexesFree(m)
    /\ a \in Up
    /\ m \in Listeners(a)
    /\ a \notin book[m]
    /\ book' = [book EXCEPT ![m] = InsertAddr(@, a)]
    /\ UNCHANGED <<pc, ledger, stale, observed, waitFor, elder, offs, netVars, jobVars>>

\* address_book_lifetime_check drops an address.
ExpireAddress(m, a) ==
    /\ m \in Up
    /\ MutexesFree(m)
    /\ a \in book[m]
    /\ MayExpire(a)
    /\ book' = [book EXCEPT ![m] = @ \ {a}]
    /\ UNCHANGED <<pc, ledger, stale, observed, waitFor, elder, offs, netVars, jobVars>>

\* 45 s since the ledger was received.
GoStale(m) ==
    /\ m \in Up
    /\ ledger[m] # None
    /\ ~ stale[m]
    /\ MayGoStale(m)
    /\ stale' = [stale EXCEPT ![m] = TRUE]
    /\ UNCHANGED <<pc, ledger, observed, book, waitFor, elder, offs, netVars, jobVars>>

-----------------------------------------------------------------------------
(* Jobs.                                                                   *)

\* The TCP task has stored an upload without guid and appends it to the
\* ledger, or alerts the network; the alert is sent without the mutexes.
AppendToLedger(m, j) ==
    /\ m \in Up
    /\ MutexesFree(m)
    /\ alert[m] = None
    /\ j \notin submitted
    /\ submitted' = submitted \cup {j}
    /\ announced' = IF IsOwner(m) \/ (ledger[m] # None /\ book[m] # {})
                    THEN announced \cup {j}
                    ELSE announced
    /\ files' = [files EXCEPT ![m] = @ \cup {j}]
    /\ \/ /\ IsOwner(m)
          /\ ledger' = [ledger EXCEPT ![m].jobs = InsertJob(@, j)]
          /\ UNCHANGED alert
       \/ /\ ~ IsOwner(m)
          /\ book[m] # {}
          /\ alert' = [alert EXCEPT ![m] = [guid |-> j, left |-> Repeats, heard |-> {}]]
          /\ UNCHANGED ledger
       \/ /\ ~ IsOwner(m)
          /\ book[m] = {}
          /\ UNCHANGED <<ledger, alert>>
    /\ UNCHANGED <<pc, stale, observed, book, waitFor, elder, offs, cast, rx, ready, done>>

SendAlertCopy(m) ==
    /\ alert[m] # None
    /\ CopiesLeft(alert[m])
    /\ \E R \in Reached(m) :
          LET new == Kept(R, alert[m].heard)
          IN  /\ Deliver(new, [kind |-> "newjob", from |-> m, guid |-> alert[m].guid])
              /\ alert' = [alert EXCEPT ![m] = AfterCopy(alert[m], new)]
    /\ UNCHANGED <<pc, ledger, stale, observed, book, waitFor, elder, offs, cast, jobVars>>

EndAlert(m) ==
    /\ alert[m] # None
    /\ alert[m].left = 0 \/ AllocFails
    /\ alert' = [alert EXCEPT ![m] = None]
    /\ UNCHANGED <<pc, ledger, stale, observed, book, waitFor, elder, offs, cast, rx, jobVars>>

\* distribute_file on a machine that knows m has PUT the file to m.
FileArrives(m, j) ==
    /\ m \in Up
    /\ j \notin files[m]
    /\ \E n \in Up : j \in files[n] /\ m \in book[n]
    /\ files' = [files EXCEPT ![m] = @ \cup {j}]
    /\ UNCHANGED <<pc, ledger, stale, observed, book, waitFor, elder, offs, netVars,
                   ready, submitted, announced, done>>

\* The technician presses the button of the home screen.
ToggleReady(m) ==
    /\ m \in Up \cap Attended
    /\ ready' = [ready EXCEPT ![m] = ~ @]
    /\ UNCHANGED <<pc, ledger, stale, observed, book, waitFor, elder, offs, netVars,
                   files, submitted, announced, done>>

-----------------------------------------------------------------------------
(* Power.                                                                  *)

\* embassy() and embassy_main(): the drive is cleaned, the machine set
\* offline, the tasks spawned.
PowerOn(m) ==
    /\ pc[m] = "off"
    /\ Staggered => \A n \in Machine : pc[n] # "boot"
    /\ pc' = [pc EXCEPT ![m] = "boot"]
    /\ elder' = [elder EXCEPT ![m] = {n \in Up : pc[n] # "boot"}]
    /\ files' = [files EXCEPT ![m] = {}]
    /\ SetOffline(m)
    /\ UNCHANGED <<ledger, stale, observed, book, waitFor, offs, netVars,
                   submitted, announced, done>>

\* Everything but the drive is lost.
PowerOff(m) ==
    /\ m \in Up
    /\ offs.idle + offs.busy < MaxOffs
    /\ offs' = IF Busy(m) THEN [offs EXCEPT !.busy = @ + 1]
                          ELSE [offs EXCEPT !.idle = @ + 1]
    /\ pc' = [pc EXCEPT ![m] = "off"]
    /\ ledger' = [ledger EXCEPT ![m] = None]
    /\ stale' = [stale EXCEPT ![m] = FALSE]
    /\ observed' = [observed EXCEPT ![m] = FALSE]
    /\ book' = [book EXCEPT ![m] = {}]
    /\ cast' = [cast EXCEPT ![m] = None]
    /\ alert' = [alert EXCEPT ![m] = None]
    /\ rx' = [rx EXCEPT ![m] = <<>>]
    /\ waitFor' = [n \in Machine |-> IF n = m THEN {} ELSE waitFor[n] \ {m}]
    /\ elder' = [n \in Machine |-> IF n = m THEN {} ELSE elder[n] \ {m}]
    /\ UNCHANGED jobVars

-----------------------------------------------------------------------------

Round(m) ==
    \/ CreateLedger(m)
    \/ RoundIdle(m)
    \/ RoundObserve(m)
    \/ RoundPass(m)
    \/ RoundPrint(m)

ManageLedger(m) ==
    \/ Round(m)
    \/ PassAfterPrint(m)
    \/ SendLedgerCopy(m)
    \/ EndLedgerCast(m)

SendNewJobAlert(m) == SendAlertCopy(m) \/ EndAlert(m)

UpdateBook(m) ==
    \E a \in Machine : HearHeartbeat(m, a) \/ ExpireAddress(m, a)

Next ==
    \E m \in Machine :
        \/ ManageLedger(m)
        \/ SendNewJobAlert(m)
        \/ Receive(m)
        \/ UpdateBook(m)
        \/ GoStale(m)
        \/ ToggleReady(m)
        \/ PowerOn(m)
        \/ PowerOff(m)
        \/ \E j \in Job : AppendToLedger(m, j) \/ FileArrives(m, j)

Spec == Init /\ [][Next]_vars


(***************************************************************************)
(* Timers fire, the broadcasts that have begun go on, and the tasks that   *)
(* wait for a mutex get it: manage_ledger drops it for 5 s in every round. *)
(* The receiver has drained its channel before the next round begins, so   *)
(* weak fairness is enough for it; the rounds disable the updates of the   *)
(* address book again and again, hence strong fairness.  Nothing is        *)
(* assumed of power, technicians and uploads.                              *)
(***************************************************************************)
Fairness ==
    \A m \in Machine :
        /\ WF_vars(ManageLedger(m))
        /\ WF_vars(SendNewJobAlert(m))
        /\ WF_vars(GoStale(m))
        /\ WF_vars(Receive(m))
        /\ SF_vars(UpdateBook(m))

FairSpec == Spec /\ Fairness

-----------------------------------------------------------------------------

TypeOK ==
    /\ pc \in [Machine -> {"off", "boot", "sleep", "accepted", "ledger"}]
    /\ ledger \in [Machine -> Ledger \cup {None}]
    /\ stale \in [Machine -> BOOLEAN]
    /\ observed \in [Machine -> BOOLEAN]
    /\ book \in [Machine -> SUBSET Machine]
    /\ cast \in [Machine -> LedgerCast \cup {None}]
    /\ waitFor \in [Machine -> SUBSET Machine]
    /\ alert \in [Machine -> JobAlert \cup {None}]
    /\ rx \in [Machine -> Seq(Packet)]
    /\ files \in [Machine -> SUBSET Job]
    /\ ready \in [Machine -> BOOLEAN]
    /\ submitted \in SUBSET Job
    /\ announced \in SUBSET Job
    /\ done \in SUBSET Job
    /\ elder \in [Machine -> SUBSET Machine]
    /\ offs \in [idle : 0..MaxOffs, busy : 0..MaxOffs]

(***************************************************************************)
(* While copies of a ledger go out, it is the ledger the sender itself     *)
(* holds, and its owner is the sender or a machine of its address book:    *)
(* no packet, upload or expiry slips in between two copies, because        *)
(* manage_ledger keeps both mutexes over the awaits of send_ledger         *)
(* (tasks/udp.rs 120-225).                                                 *)
(***************************************************************************)
BroadcastIsCurrent ==
    \A m \in Machine :
        cast[m] # None =>
            /\ ledger[m] = [owner |-> cast[m].owner, jobs |-> cast[m].jobs]
            /\ cast[m].owner \in book[m] \cup {m}

\* manage_ledger is sending exactly when it waits in send_ledger, and it
\* has a ledger while it waits in send_log.  With TypeOK and
\* BroadcastIsCurrent this is inductive.
SendingHasLedger ==
    \A m \in Machine :
        /\ cast[m] # None <=> pc[m] = "ledger"
        /\ pc[m] = "accepted" => ledger[m] # None

(***************************************************************************)
(* On a network that loses nothing, machines that boot apart never hold    *)
(* the floor together: the round of mere observation keeps the next owner  *)
(* from printing or sending while the last one still sends                 *)
(* (tasks/udp.rs 159-167).                                                 *)
(***************************************************************************)
OneBroadcaster ==
    \A m, n \in Machine : Busy(m) /\ Busy(n) => m = n

\* observed_ownership is about the present turn: it is clear when a machine
\* becomes the owner, so the machine first observes that it has the ledger
\* and acts in the next round (tasks/udp.rs 159-167).  It holds for machines
\* that boot apart on a network that loses nothing; if boots overlap, one that
\* heard nothing creates a second ledger, which takes the first one from an
\* owner that has observed it, and the flag stays set.
ObserveThenAct ==
    [][\A m \in Machine : ~ IsOwner(m) /\ IsOwner(m)' => ~ observed[m]]_vars

\* Nothing is being sent, and nothing sent is unread.
Quiet == \A m \in Machine : ~ Busy(m) /\ alert[m] = None /\ rx[m] = <<>>

\* When nothing is under way, all machines that have a ledger agree on it,
\* and its owner is one of them (tasks/udp.rs 80-88, 198-226).
LedgersAgree ==
    Quiet =>
        \A m \in Up : ledger[m] # None =>
            /\ ledger[m].owner \in Up
            /\ \A n \in Up : ledger[n] # None => ledger[n].owner = ledger[m].owner
            /\ IsOwner(ledger[m].owner)

\* A machine that starts a print starts one no machine has started before,
\* though machines lose power and ledgers are taken over, as long as none
\* was cut off between the start of a print and the end of the broadcast
\* that tells the others (tasks/udp.rs 144-157, 170-226).
PrintedOnce ==
    [][\A m \in Machine :
          pc[m] # "accepted" /\ pc'[m] = "accepted"
              => done' # done \/ offs.busy > 0]_vars

(***************************************************************************)
(* The ledger that counts, as a token: the one on its way to a machine     *)
(* that will hear it, the one its next owner is about to read, or the one  *)
(* of its owner.                                                           *)
(***************************************************************************)
OnItsWay ==
    {[holder |-> cast[m].owner, jobs |-> cast[m].jobs] :
        m \in {x \in Machine : /\ cast[x] # None
                               /\ cast[x].left > 0
                               /\ cast[x].owner \in Up \ (cast[x].heard \cup {x})}}

Unread ==
    UNION {{[holder |-> m, jobs |-> p.jobs] :
               p \in {rx[m][i] : i \in {k \in DOMAIN rx[m] : /\ rx[m][k].kind = "ledger"
                                                         /\ rx[m][k].owner = m}}} :
           m \in Up}

Owned == {[holder |-> m, jobs |-> ledger[m].jobs] : m \in {x \in Up : IsOwner(x)}}

Tokens ==
    IF OnItsWay # {} THEN OnItsWay ELSE IF Unread # {} THEN Unread ELSE Owned

Promise == INSTANCE TokenRing
               WITH tokens <- Tokens, printed <- done, cut <- offs.idle + offs.busy > 0

\* Machines that boot apart, on a network that loses nothing, implement the
\* ring with one token: whatever is printed is in the one ledger that counts,
\* a job stays in it from owner to owner until it is printed, and the ledger
\* is lost only by a loss of power (tasks/udp.rs 80-88, 120-228; tasks/tcp.rs
\* 244-273).
ImplementsTokenRing == Promise!Spec

\* Every machine that is on gets to hold and pass on the ledger, again and
\* again (tasks/udp.rs 198-226).
EveryoneGetsATurn ==
    \A m \in Machine : []<>(m \notin Up \/ cast[m] # None)

\* A ledger does not stay stuck with a machine that is gone: again and again
\* some machine owns it ("we see if we need to take control as the ledger
\* may have got stuck", tasks/udp.rs 144-157).
StuckLedgerTakenOver ==
    []<>(Up = {} \/ \E m \in Up : IsOwner(m))

\* A job whose upload was answered and that was announced to the network is
\* printed or still in the ledger of the owner (tasks/tcp.rs 244-273).
AnnouncedJobKept ==
    Quiet => \A j \in announced \ done : \E t \in Tokens : j \in t.jobs

=============================================================================
