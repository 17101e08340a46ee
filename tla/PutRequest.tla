----------------------------- MODULE PutRequest -----------------------------
(***************************************************************************)
(* Sending a job file to the other machines: distribute_file               *)
(* (tasks/tcp.rs), which runs on the executor, and PutRequest              *)
(* (lwip/put.rs), whose callbacks run on lwIP's thread.                    *)
(*                                                                         *)
(* The two threads share a Signal.  It is the only one of the firmware     *)
(* that is guarded by a ThreadModeRawMutex, which keeps interrupts out but *)
(* not other threads, so the two halves of a poll of wait (take the state, *)
(* then store the waker) are two steps.                                    *)
(*                                                                         *)
(* What is sent is the sequence of its bytes: those of the head, then      *)
(* those of the file.                                                      *)
(***************************************************************************)
EXTENDS Naturals, Sequences, FiniteSets

CONSTANTS
    Peer,       \* the machines of the address book
    Slot,       \* lwIP's pool of pcbs
    None,       \* a null pointer
    HeadLen,    \* bytes of the head of the request
    FileLen,    \* fsize, bytes of the file
    BufCap,     \* BUF_CAP
    SndCap,     \* lwIP's send buffer
    Faults      \* bound: what may go wrong, of AllFaults

AllFaults == {"stat", "open", "new", "connect", "read", "mem", "write"}

ASSUME SizeAssumption ==
    /\ {HeadLen, FileLen, BufCap, SndCap} \subseteq Nat \ {0}
    /\ HeadLen <= BufCap
ASSUME FaultAssumption == Faults \subseteq AllFaults
ASSUME NoneAssumption == None \notin Peer \cup Slot

Total == HeadLen + FileLen

\* The request as it should arrive: byte i at place i.
Stream == [i \in 1..Total |-> i]

VARIABLES
    outcome,    \* what distribute_file knows of each machine (history)
    pc,         \* where distribute_file is
    cur,        \* the machine the present PutRequest is for, or None
    pcb,        \* PutRequest.pcb
    buf,        \* PutRequest.buf
    fpos,       \* the position in the file
    signal,     \* PutRequest.signal: "none", "waiting", or a value
    slot,       \* lwIP's pcbs: their state and the request arg points to
    wire,       \* the bytes handed to lwIP for the present connection
    acked,      \* how many of them the peer has acknowledged
    remote,     \* the peer: "open", "answered" or "closed"
    answered,   \* the machines that answered while it was their turn (history)
    missed      \* what the present request has run into (history): "stall" if
                \* it sent nothing for want of memory or data, "signal" if a
                \* signal was overwritten

request == <<cur, pcb, buf, fpos>>
lwip == <<slot, wire, acked, remote>>
vars == <<outcome, pc, request, signal, lwip, answered, missed>>

Init ==
    /\ outcome = [p \in Peer |-> "todo"]
    /\ pc = "next"
    /\ cur = None
    /\ pcb = None
    /\ buf = <<>>
    /\ fpos = 0
    /\ signal = "none"
    /\ slot = [s \in Slot |-> [state |-> "free", arg |-> None]]
    /\ wire = <<>>
    /\ acked = 0
    /\ remote = "open"
    /\ answered = {}
    /\ missed = {}

-----------------------------------------------------------------------------
(* The executor.                                                           *)

\* The file is not on the drive, or cannot be opened.
StatFails == "stat" \in Faults

OpenFails == "open" \in Faults

\* put_file for the next machine.  PutRequest::new fails if the file cannot
\* be found or opened.
New(p) ==
    /\ pc = "next"
    /\ outcome[p] = "todo"
    /\ outcome' = [outcome EXCEPT ![p] = "trying"]
    /\ cur' = p
    /\ \/ pc' = "connect"
       \/ (StatFails \/ OpenFails) /\ pc' = "failed"
    /\ pcb' = None
    /\ buf' = <<>>
    /\ fpos' = 0
    /\ signal' = "none"
    /\ missed' = {}
    /\ UNCHANGED <<lwip, answered>>

\* send has async_lwip run its closure on lwIP's thread; the pcb is stored
\* only if tcp_connect succeeds.
Connect(s) ==
    /\ pc = "connect"
    /\ slot[s].state = "free"
    /\ \/ /\ slot' = [slot EXCEPT ![s] = [state |-> "syn", arg |-> cur]]
          /\ pcb' = s
          /\ pc' = "poll"
       \/ /\ "connect" \in Faults
          /\ slot' = [slot EXCEPT ![s] = [state |-> "leaked", arg |-> cur]]
          /\ pc' = "failed"
          /\ UNCHANGED pcb
    /\ wire' = <<>>
    /\ acked' = 0
    /\ remote' = "open"
    /\ UNCHANGED <<outcome, cur, buf, fpos, signal, answered, missed>>

\* There is no pcb, or no memory for the call.
ConnectFails ==
    /\ pc = "connect"
    /\ "new" \in Faults \/ \A s \in Slot : slot[s].state # "free"
    /\ pc' = "failed"
    /\ UNCHANGED <<outcome, request, signal, lwip, answered, missed>>

Signalled == signal \notin {"none", "waiting"}

\* Mutant: any signal counts as success.
AnyIsOk(v) == TRUE

\* if err != err_t::Ok { return Err(err) }
IsOk(v) == v = "ok"

\* signal.wait() is polled, the first time or because it was signalled: the
\* state is taken out of the cell ...
PollTake ==
    /\ pc = "poll" \/ (pc = "pending" /\ Signalled)
    /\ pc' = IF ~ Signalled THEN "store" ELSE IF IsOk(signal) THEN "ok" ELSE "failed"
    /\ signal' = "none"
    /\ UNCHANGED <<outcome, request, lwip, answered, missed>>

\* ... and the waker is put in its place.
PollStore ==
    /\ pc = "store"
    /\ pc' = "pending"
    /\ signal' = "waiting"
    /\ missed' = IF Signalled THEN missed \cup {"signal"} ELSE missed
    /\ UNCHANGED <<outcome, request, lwip, answered>>

\* Mutant: arg is left in place.
CloseOnly(s) == slot' = [slot EXCEPT ![s].state = "closing"]

\* arg and the callbacks are cleared, then tcp_close leaves the pcb to lwIP.
Close(s) == slot' = [slot EXCEPT ![s] = [state |-> "closing", arg |-> None]]

\* put_file returns, and drops the PutRequest under lwIP's lock.
Return ==
    /\ pc \in {"ok", "failed"}
    /\ outcome' = [outcome EXCEPT ![cur] = pc]
    /\ IF pcb = None THEN UNCHANGED slot ELSE Close(pcb)
    /\ pc' = "next"
    /\ cur' = None
    /\ pcb' = None
    /\ UNCHANGED <<buf, fpos, signal, wire, acked, remote, answered, missed>>

-----------------------------------------------------------------------------
(* pump.                                                                   *)

Least(a, b) == IF a < b THEN a ELSE b

\* Mutant: the whole buffer counts as free.
WholeBuf(b) == BufCap

\* self.buf.capacity() - self.buf.len()
Free(b) == BufCap - Len(b)

\* Mutant: only what was in the buffer before it was topped up is offered.
OldOnly(old, full, room) == Least(Len(old), room)

\* self.buf.len().min(sndbuf)
ToSend(old, full, room) == Least(Len(full), room)

\* Mutant: what was not accepted is dropped.
DropAll(full, k) == SubSeq(full, k + 1, Len(full))

\* ERR_MEM: "try again next callback", "don't drop data".
Again(full, k) == full

\* tcp_write of k bytes of the buffer.
TcpWrite(full, k) ==
    \/ /\ k = 0
       /\ buf' = full
       /\ UNCHANGED <<wire, signal>>
    \/ /\ k > 0
       /\ wire' = wire \o SubSeq(full, 1, k)
       /\ buf' = SubSeq(full, k + 1, Len(full))
       /\ UNCHANGED signal
    \/ /\ k > 0
       /\ "mem" \in Faults
       /\ buf' = Again(full, k)
       /\ UNCHANGED <<wire, signal>>
    \/ /\ k > 0
       /\ "write" \in Faults
       /\ buf' = full
       /\ signal' = "err"
       /\ UNCHANGED wire

\* fread returns all it is asked for, or fewer bytes if the drive fails.
ReadFile(want) == IF "read" \in Faults THEN 0..want ELSE {want}

\* pump with b in the buffer and ack bytes acknowledged.
Pump(b, ack) ==
    LET want == Least(Free(b), FileLen - fpos)
    IN  \E n \in ReadFile(want) :
           LET full == b \o SubSeq(Stream, HeadLen + fpos + 1, HeadLen + fpos + n)
               k == ToSend(b, full, SndCap - (Len(wire) - ack))
           IN  /\ fpos' = fpos + n
               /\ TcpWrite(full, k)
               /\ missed' = IF Len(wire') = ack /\ (n < want \/ k > 0)
                            THEN missed \cup {"stall"}
                            ELSE missed

-----------------------------------------------------------------------------
(* lwIP's thread.  A callback whose arg is null does nothing.              *)

\* _connected: the head goes into the empty buffer.
Connected(s) ==
    /\ slot[s].state = "syn"
    /\ slot[s].arg # None
    /\ slot' = [slot EXCEPT ![s].state = "open"]
    /\ Pump(SubSeq(Stream, 1, HeadLen), 0)
    /\ UNCHANGED <<outcome, pc, cur, pcb, acked, remote, answered>>

\* _sent: the peer has acknowledged some bytes.
Sent(s) ==
    /\ slot[s].state = "open"
    /\ slot[s].arg # None
    /\ \E ack \in acked + 1..Len(wire) :
          /\ acked' = ack
          /\ Pump(buf, ack)
    /\ UNCHANGED <<outcome, pc, cur, pcb, slot, remote, answered>>

\* _recv with data: whatever it says, it counts as success.  The peer
\* may answer early, to refuse the file.
Answer(s) ==
    /\ slot[s].state = "open"
    /\ slot[s].arg # None
    /\ remote = "open"
    /\ remote' = "answered"
    /\ answered' = answered \cup {slot[s].arg}
    /\ signal' = "ok"
    /\ UNCHANGED <<outcome, pc, request, slot, wire, acked, missed>>

\* Mutant: the close is not signalled.
FinSilent(s) ==
    /\ slot[s].state = "open"
    /\ remote # "closed"
    /\ remote' = "closed"
    /\ UNCHANGED <<outcome, pc, request, signal, slot, wire, acked, answered, missed>>

\* _recv with a null pbuf, which takes the place of an answer not yet seen.
Fin(s) ==
    /\ slot[s].state = "open"
    /\ slot[s].arg # None
    /\ remote # "closed"
    /\ remote' = "closed"
    /\ signal' = "clsd"
    /\ UNCHANGED <<outcome, pc, request, slot, wire, acked, answered, missed>>

\* _err: refused, reset or timed out; lwIP has freed the pcb.
Err(s) ==
    /\ slot[s].state \in {"syn", "open"}
    /\ slot[s].arg # None
    /\ slot' = [slot EXCEPT ![s] = [state |-> "free", arg |-> None]]
    /\ pcb' = None
    /\ signal' = "err"
    /\ UNCHANGED <<outcome, pc, cur, buf, fpos, wire, acked, remote, answered, missed>>

\* lwIP is done with a closed pcb.
Freed(s) ==
    /\ slot[s].state = "closing"
    /\ slot' = [slot EXCEPT ![s] = [state |-> "free", arg |-> None]]
    /\ UNCHANGED <<outcome, pc, request, signal, wire, acked, remote, answered, missed>>

-----------------------------------------------------------------------------

DistributeFile ==
    \/ ConnectFails \/ PollTake \/ PollStore \/ Return
    \/ \E p \in Peer : New(p)
    \/ \E s \in Slot : Connect(s)

Callback(s) == Connected(s) \/ Sent(s) \/ Answer(s) \/ Fin(s) \/ Err(s) \/ Freed(s)

Next == DistributeFile \/ \E s \in Slot : Callback(s)

Spec == Init /\ [][Next]_vars

\* The peer has the whole request, and answers it; it has answered, and closes.
Replies(s) == Len(wire) = Total /\ Answer(s)

Closes(s) == remote = "answered" /\ Fin(s)

(***************************************************************************)
(* The executor polls what is woken.  TCP connects or gives up, and gets   *)
(* its bytes acknowledged or gives up.  The peer, the same firmware,       *)
(* answers a request it has received, and then closes the connection.      *)
(***************************************************************************)
Fairness ==
    /\ WF_vars(DistributeFile)
    /\ \A s \in Slot :
          /\ WF_vars(Connected(s))
          /\ WF_vars(Sent(s))
          /\ WF_vars(Replies(s))
          /\ WF_vars(Closes(s))

FairSpec == Spec /\ Fairness

-----------------------------------------------------------------------------

TypeOK ==
    /\ outcome \in [Peer -> {"todo", "trying", "ok", "failed"}]
    /\ pc \in {"next", "connect", "poll", "store", "pending", "ok", "failed"}
    /\ cur \in Peer \cup {None}
    /\ pcb \in Slot \cup {None}
    /\ buf \in Seq(1..Total) /\ Len(buf) <= BufCap
    /\ fpos \in 0..FileLen
    /\ signal \in {"none", "waiting", "ok", "clsd", "err"}
    /\ slot \in [Slot -> [state : {"free", "syn", "open", "closing", "leaked"},
                          arg : Peer \cup {None}]]
    /\ wire \in Seq(1..Total) /\ Len(wire) <= Total
    /\ acked \in 0..Len(wire)
    /\ remote \in {"open", "answered", "closed"}
    /\ answered \subseteq Peer
    /\ missed \subseteq {"stall", "signal"}

\* What is handed to lwIP, followed by what is staged, is the beginning of the
\* request: no byte is lost, doubled or out of place, however the reads, the
\* send buffer and the failures of tcp_write cut it (lwip/put.rs 81-131).
StreamInOrder ==
    pcb # None /\ slot[pcb].state = "open" =>
        wire \o buf = SubSeq(Stream, 1, HeadLen + fpos)

\* While there is more to send, something is in flight, so that a _sent
\* callback will come to send it, unless the drive or tcp_write failed when
\* nothing was (lwip/put.rs 72-74, 114-131, 219-234).
KeepsSending ==
    /\ pcb # None
    /\ slot[pcb].state = "open"
    /\ "stall" \notin missed
    => Len(wire) = Total \/ acked < Len(wire)

\* A connection lwIP may call back for is that of the present request, and
\* put_file leaves none behind (lwip/put.rs 135-168, 280-302).
ConnectionsOwned ==
    \A s \in Slot :
        /\ slot[s].state \in {"syn", "open"} => pcb = s /\ slot[s].arg = cur
        /\ slot[s].state = "closing" => slot[s].arg = None

Promise == INSTANCE Distribution

\* distribute_file implements Distribution: each machine is tried once, one at
\* a time, and Ok is returned only for a machine that answered during its
\* own turn (lwip/put.rs 25-31, 182-277; tasks/tcp.rs 275-296).
ImplementsDistribution == Promise!Spec

\* send returns, unless a signal was lost or sending stalled
\* (lwip/put.rs 133-176).
ReturnsUnlessMissed ==
    \A p \in Peer : cur = p ~> cur # p \/ missed # {}

\* send "waits for the response (or a failure) to be signalled"
\* (lwip/put.rs 133-134), and returns.
SendReturns == \A p \in Peer : cur = p ~> cur # p

=============================================================================
