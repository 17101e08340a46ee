----------------------------- MODULE TcpUpload -----------------------------
(***************************************************************************)
(* Uploads over TCP: TcpListener and TcpConnection (lwip/tcp.rs), whose    *)
(* callbacks run on lwIP's thread, and the single tcp_worker with its      *)
(* handle_conn (tasks/tcp.rs), which runs on the executor.                 *)
(*                                                                         *)
(* A pcb pointer is a slot of lwIP's pcb pool: a pointer that is kept      *)
(* after lwIP has freed the pcb may name another connection's pcb later.   *)
(* A slot counts as free as soon as the connection is handed to tcp_close. *)
(* The receive window (thousands of bytes) never keeps the 12 entries of   *)
(* the channel from filling up, so it is left out.                         *)
(***************************************************************************)
EXTENDS Naturals, Sequences, FiniteSets

CONSTANTS
    Conn,       \* the connections clients open; each uploads its own file
    Slot,       \* lwIP's pool of pcbs
    None,       \* Rust's None, a null pointer
    QueueCap,   \* MAX_TCP_CONNECTIONS, capacity of TcpListener.channel
    ChanCap,    \* MAX_TCP_CONNECTION_CHANNEL_SIZE
    DistCap,    \* capacity of files_to_distribute
    MaxSize,    \* the largest Content-Length accepted
    Sizes,      \* bound: the Content-Lengths clients announce
    MaxPackets, \* bound: packets a client sends
    MaxLen      \* bound: the body bytes of a packet

ASSUME CapAssumption ==
    /\ {QueueCap, ChanCap, DistCap, MaxSize} \subseteq Nat \ {0}
    /\ Sizes \subseteq Nat
    /\ {MaxPackets, MaxLen} \subseteq Nat

\* What the head of a request says: a PUT of size bytes (fresh if it has no
\* guid header), or GET or one with an error, both only answered.
Request ==
    [kind : {"other"}] \cup [kind : {"put"}, size : Sizes, fresh : BOOLEAN]

\* A packet holds the head of a connection's request, or none, and some
\* bytes of a body.
Packet == [head : Conn \cup {None}, len : 0..MaxLen]

\* What a receiver is told when the stream has ended.
Eof == [eof |-> TRUE]

ASSUME NoneAssumption == None \notin Conn \cup Slot \cup Packet \cup Request

VARIABLES
    req,        \* the request of each connection, once it is sent
    peer,       \* the client: "new", "open", "closed" (FIN) or "gone" (RST)
    sent,       \* packets it has sent
    pool,       \* the connection in each slot, or None
    callback,   \* the callbacks of each slot: "none", "hold" (_hold_recv), or
                \* "conn" (those of the TcpConnection, which arg points to)
    held,       \* the packet lwIP keeps because the callback refused it
    queue,      \* TcpListener.channel: pointers, and whose they were
    pc,         \* where the worker is
    pcb,        \* TcpConnection.pcb
    serving,    \* the connection it was made for (history)
    chan,       \* TcpConnection.channel
    file,       \* the upload in hand
    need,       \* content_length
    drive,      \* the files on the USB drive
    announced,  \* the uploads passed to append_to_ledger
    toSend,     \* files_to_distribute
    ignored     \* failures the code has thrown away (history): "eof" if nobody
                \* will tell the worker of the end of a stream, "disk"

lwipVars == <<req, peer, sent, pool, callback, held>>
jobVars == <<file, need, drive, announced, toSend>>
vars == <<lwipVars, queue, pc, pcb, serving, chan, jobVars, ignored>>

Absent == [ext |-> "none", len |-> 0]

Init ==
    /\ req = [c \in Conn |-> None]
    /\ peer = [c \in Conn |-> "new"]
    /\ sent = [c \in Conn |-> 0]
    /\ pool = [s \in Slot |-> None]
    /\ callback = [s \in Slot |-> "none"]
    /\ held = [s \in Slot |-> None]
    /\ queue = <<>>
    /\ pc = "accept"
    /\ pcb = None
    /\ serving = None
    /\ chan = <<>>
    /\ file = None
    /\ need = 0
    /\ drive = [c \in Conn |-> Absent]
    /\ announced = {}
    /\ toSend = <<>>
    /\ ignored = {}

-----------------------------------------------------------------------------
(* lwIP's thread.                                                          *)

\* lwIP's part in freeing a pcb.
Free(s) ==
    /\ pool' = [pool EXCEPT ![s] = None]
    /\ callback' = [callback EXCEPT ![s] = "none"]
    /\ held' = [held EXCEPT ![s] = None]

\* _accept: a full queue aborts the connection.  (It returns Ok after tcp_abort
\* where lwIP asks for ERR_ABRT; what lwIP then does with the pcb it has freed
\* is not modelled.)
Accept(c, s) ==
    /\ peer[c] = "new"
    /\ pool[s] = None
    /\ \/ /\ Len(queue) < QueueCap
          /\ peer' = [peer EXCEPT ![c] = "open"]
          /\ pool' = [pool EXCEPT ![s] = c]
          /\ callback' = [callback EXCEPT ![s] = "hold"]
          /\ queue' = Append(queue, [pcb |-> s, conn |-> c])
       \/ /\ Len(queue) = QueueCap
          /\ peer' = [peer EXCEPT ![c] = "gone"]
          /\ UNCHANGED <<pool, callback, queue>>
    /\ UNCHANGED <<req, sent, held, pc, pcb, serving, chan, jobVars, ignored>>

\* TcpConnection::_recv with a packet.  If the channel is full the packet is
\* refused, so lwIP keeps it, and yet freed: what lwIP offers the next time
\* may have any content.
Recv(s, p) ==
    \/ /\ Len(chan) < ChanCap
       /\ chan' = Append(chan, p)
       /\ held' = [held EXCEPT ![s] = None]
    \/ /\ Len(chan) = ChanCap
       /\ \E n \in 0..MaxLen : held' = [held EXCEPT ![s] = [p EXCEPT !.len = n]]
       /\ UNCHANGED chan

\* A packet arrives; while lwIP keeps a refused one it takes no other.
Arrive(s) ==
    /\ pool[s] # None
    /\ held[s] = None
    /\ LET c == pool[s]
       IN  /\ peer[c] = "open"
           /\ sent[c] < MaxPackets
           /\ sent' = [sent EXCEPT ![c] = @ + 1]
           /\ \/ sent[c] = 0 /\ \E r \in Request : req' = [req EXCEPT ![c] = r]
              \/ sent[c] > 0 /\ UNCHANGED req
           /\ \E n \in (IF sent[c] = 0 THEN 0 ELSE 1)..MaxLen :
                 LET p == [head |-> IF sent[c] = 0 THEN c ELSE None, len |-> n]
                 IN  \/ /\ callback[s] = "hold"
                        /\ held' = [held EXCEPT ![s] = p]
                        /\ UNCHANGED chan
                     \/ /\ callback[s] = "conn"
                        /\ Recv(s, p)
    /\ UNCHANGED <<peer, pool, callback, queue, pc, pcb, serving, jobVars, ignored>>

\* lwIP's timer offers a refused packet again; _hold_recv goes on refusing.
Retry(s) ==
    /\ held[s] # None
    /\ callback[s] = "conn"
    /\ Recv(s, held[s])
    /\ UNCHANGED <<req, peer, sent, pool, callback, queue, pc, pcb, serving, jobVars, ignored>>

\* Mutant: the end of the stream is only logged.
TellNobody == UNCHANGED <<chan, ignored>>

\* let _ = conn.channel.try_send(None)
TellEof ==
    \/ /\ Len(chan) < ChanCap
       /\ chan' = Append(chan, Eof)
       /\ UNCHANGED ignored
    \/ /\ Len(chan) = ChanCap
       /\ ignored' = ignored \cup {"eof"}
       /\ UNCHANGED chan

\* The end reaches lwIP while only _hold_recv could be told.
NobodyToTell ==
    /\ ignored' = ignored \cup {"eof"}
    /\ UNCHANGED chan

\* FIN: the receive callback is called with a null pbuf, once.
Fin(s) ==
    /\ pool[s] # None
    /\ held[s] = None
    /\ peer[pool[s]] = "open"
    /\ peer' = [peer EXCEPT ![pool[s]] = "closed"]
    /\ \/ callback[s] = "hold" /\ NobodyToTell
       \/ callback[s] = "conn" /\ TellEof
    /\ UNCHANGED <<req, sent, pool, callback, held, queue, pc, pcb, serving, jobVars>>

\* Mutant: the cached pointer stays.
KeepPcb == UNCHANGED pcb

\* conn.pcb.store(null)
ClearPcb == pcb' = None

\* RST: lwIP frees the pcb and calls _err if it is registered.
Reset(s) ==
    /\ pool[s] # None
    /\ peer' = [peer EXCEPT ![pool[s]] = "gone"]
    /\ Free(s)
    /\ \/ callback[s] = "hold" /\ NobodyToTell /\ UNCHANGED pcb
       \/ callback[s] = "conn" /\ TellEof /\ ClearPcb
    /\ UNCHANGED <<req, sent, queue, pc, serving, jobVars>>

-----------------------------------------------------------------------------
(* The worker.                                                             *)

\* with_connection takes a pcb and makes a TcpConnection of it.
Take ==
    /\ pc = "accept"
    /\ queue # <<>>
    /\ queue' = Tail(queue)
    /\ pcb' = Head(queue).pcb
    /\ serving' = Head(queue).conn
    /\ pc' = "attach"
    /\ UNCHANGED <<lwipVars, chan, jobVars, ignored>>

\* attach_callbacks, on lwIP's thread, with the packet that was held.  The
\* pcb may be free by now: then nothing will ever call back.
Attach ==
    /\ pc = "attach"
    /\ pc' = "first"
    /\ \/ /\ pool[pcb] = None
          /\ UNCHANGED <<callback, held, chan>>
       \/ /\ pool[pcb] # None
          /\ callback' = [callback EXCEPT ![pcb] = "conn"]
          /\ IF held[pcb] = None
             THEN UNCHANGED <<held, chan>>
             ELSE Recv(pcb, held[pcb])
    /\ UNCHANGED <<req, peer, sent, pool, queue, pcb, serving, jobVars, ignored>>

\* async_lwip has no memory; with_connection throws the error away.
AttachFails ==
    /\ pc = "attach"
    /\ pc' = "first"
    /\ ignored' = ignored \cup {"eof"}
    /\ UNCHANGED <<lwipVars, queue, pcb, serving, chan, jobVars>>

\* TcpConnection::receive
Receive ==
    /\ chan # <<>>
    /\ chan' = Tail(chan)

\* Mutant: the whole chunk is written.
WholeChunk(todo, len) == len

\* min(content_length, chunk.len()), summed over the chunks of a packet
ToWrite(todo, len) == IF len < todo THEN len ELSE todo

\* f.write(..) of the body bytes of a packet to the file of c, which holds
\* old bytes and lacks todo; what was really written is not looked at.
Write(c, todo, old, len) ==
    LET k == ToWrite(todo, len)
    IN  /\ need' = IF k < todo THEN todo - k ELSE 0
        /\ pc' = IF k < todo THEN "body" ELSE "store"
        /\ \E n \in 0..k :
              /\ drive' = [drive EXCEPT ![c] = [ext |-> "partial", len |-> old + n]]
              /\ ignored' = IF n = k THEN ignored ELSE ignored \cup {"disk"}

\* The first packet is the end of the stream: "Handle Closed".
FirstEof ==
    /\ pc = "first"
    /\ Receive
    /\ Head(chan) = Eof
    /\ pc' = "drop"
    /\ UNCHANGED <<lwipVars, queue, pcb, serving, jobVars, ignored>>

\* The first packet has a PUT of an acceptable size in its head.
IsUpload(p) ==
    /\ p # Eof
    /\ p.head # None
    /\ req[p.head].kind = "put"
    /\ req[p.head].size \in 1..MaxSize

\* Anything else is answered at once.  An upload is too, if the .partial
\* file cannot be opened.
FirstAnswered ==
    /\ pc = "first"
    /\ Receive
    /\ Head(chan) # Eof
    /\ pc' = "reply"
    /\ UNCHANGED <<lwipVars, queue, pcb, serving, jobVars, ignored>>

FirstStored ==
    /\ pc = "first"
    /\ Receive
    /\ IsUpload(Head(chan))
    /\ LET c == Head(chan).head
       IN  /\ file' = c
           /\ Write(c, req[c].size, 0, Head(chan).len)
    /\ UNCHANGED <<lwipVars, queue, pcb, serving, announced, toSend>>

Body ==
    /\ pc = "body"
    /\ Receive
    /\ Head(chan) # Eof
    /\ Write(file, need, drive[file].len, Head(chan).len)
    /\ UNCHANGED <<lwipVars, queue, pcb, serving, file, announced, toSend>>

\* Mutant: the .partial file stays.
BodyEofKeeps ==
    /\ pc = "body"
    /\ Receive
    /\ Head(chan) = Eof
    /\ pc' = "drop"
    /\ UNCHANGED <<lwipVars, queue, pcb, serving, jobVars, ignored>>

\* Mutant: the end of the stream is taken for the end of the file.
BodyEofStores ==
    /\ pc = "body"
    /\ Receive
    /\ Head(chan) = Eof
    /\ pc' = "store"
    /\ UNCHANGED <<lwipVars, queue, pcb, serving, jobVars, ignored>>

\* "Handle Reset": the .partial file is deleted; the result of delete is not
\* looked at.
BodyEof ==
    /\ pc = "body"
    /\ Receive
    /\ Head(chan) = Eof
    /\ \/ /\ drive' = [drive EXCEPT ![file] = Absent]
          /\ UNCHANGED ignored
       \/ /\ ignored' = ignored \cup {"disk"}
          /\ UNCHANGED drive
    /\ pc' = "drop"
    /\ UNCHANGED <<lwipVars, queue, pcb, serving, file, need, announced, toSend>>

\* Close, rename and answer; the result of rename is not looked at.
Store ==
    /\ pc = "store"
    /\ \/ /\ drive' = [drive EXCEPT ![file].ext = "gcode"]
          /\ UNCHANGED ignored
       \/ /\ ignored' = ignored \cup {"disk"}
          /\ UNCHANGED drive
    /\ pc' = "stored"
    /\ UNCHANGED <<lwipVars, queue, pcb, serving, chan, file, need, announced, toSend>>

\* The answer has been handed to lwIP.  A new file is appended to the ledger
\* and queued for distribution if the queue has room.
Announce ==
    /\ pc = "stored"
    /\ IF req[file].fresh
       THEN /\ announced' = announced \cup {file}
            /\ toSend' = IF Len(toSend) < DistCap THEN Append(toSend, file) ELSE toSend
       ELSE UNCHANGED <<announced, toSend>>
    /\ pc' = "drop"
    /\ UNCHANGED <<lwipVars, queue, pcb, serving, chan, file, need, drive, ignored>>

\* The answer to anything but an upload has been handed to lwIP.
Replied ==
    /\ pc = "reply"
    /\ pc' = "drop"
    /\ UNCHANGED <<lwipVars, queue, pcb, serving, chan, jobVars, ignored>>

\* Mutant: the callbacks stay registered when the close is left to lwIP.
CloseOnly(s) == UNCHANGED <<pool, callback, held>>

\* tcp_recv, tcp_err, tcp_sent and tcp_arg are cleared, then tcp_close.
Close(s) == Free(s)

\* Drop for TcpConnection: what is unread is thrown away.
Drop ==
    /\ pc = "drop"
    /\ IF pcb = None THEN UNCHANGED <<pool, callback, held>> ELSE Close(pcb)
    /\ pcb' = None
    /\ serving' = None
    /\ chan' = <<>>
    /\ file' = None
    /\ need' = 0
    /\ pc' = "accept"
    /\ UNCHANGED <<req, peer, sent, queue, drive, announced, toSend, ignored>>

\* distribute_file takes a guid and PUTs the file to the other machines.
Distribute ==
    /\ toSend # <<>>
    /\ toSend' = Tail(toSend)
    /\ UNCHANGED <<lwipVars, queue, pc, pcb, serving, chan, file, need, drive,
                   announced, ignored>>

HandleConn ==
    \/ FirstEof \/ FirstAnswered \/ FirstStored
    \/ Body \/ BodyEof \/ Store \/ Announce \/ Replied

TcpWorker == Take \/ Attach \/ AttachFails \/ HandleConn \/ Drop

Lwip ==
    \E s \in Slot :
        Arrive(s) \/ Retry(s) \/ Fin(s) \/ Reset(s) \/ \E c \in Conn : Accept(c, s)

Next == Lwip \/ TcpWorker \/ Distribute

Spec == Init /\ [][Next]_vars

(***************************************************************************)
(* The executor polls the worker once it is woken, and lwIP's timer offers *)
(* refused packets again.  Nothing is assumed of the clients.              *)
(***************************************************************************)
Fairness ==
    /\ WF_vars(TcpWorker)
    /\ \A s \in Slot : WF_vars(Retry(s))

FairSpec == Spec /\ Fairness

-----------------------------------------------------------------------------

TypeOK ==
    /\ req \in [Conn -> Request \cup {None}]
    /\ peer \in [Conn -> {"new", "open", "closed", "gone"}]
    /\ sent \in [Conn -> 0..MaxPackets]
    /\ pool \in [Slot -> Conn \cup {None}]
    /\ callback \in [Slot -> {"none", "hold", "conn"}]
    /\ held \in [Slot -> Packet \cup {None}]
    /\ queue \in Seq([pcb : Slot, conn : Conn]) /\ Len(queue) <= QueueCap
    /\ pc \in {"accept", "attach", "first", "body", "store", "stored", "reply", "drop"}
    /\ pcb \in Slot \cup {None}
    /\ serving \in Conn \cup {None}
    /\ chan \in Seq(Packet \cup {Eof}) /\ Len(chan) <= ChanCap
    /\ file \in Conn \cup {None}
    /\ need \in 0..MaxSize
    /\ drive \in [Conn -> [ext : {"none", "partial", "gcode"}, len : 0..MaxSize]]
    /\ announced \subseteq Conn
    /\ toSend \in Seq(Conn) /\ Len(toSend) <= DistCap
    /\ ignored \subseteq {"eof", "disk"}

\* The callbacks of a connection are registered only while the pinned
\* TcpConnection they point to exists, whatever lwIP does in between
\* (lwip/tcp.rs 196-224, 350-387).
ArgIsAlive ==
    \A s \in Slot :
        callback[s] = "conn" => pcb = s /\ pc \notin {"accept", "attach"}

\* The pcb pointers the code keeps name the connection they were accepted
\* for, as long as every end of a stream had somebody to be told: _err
\* clears the pointer before the pcb is used again (lwip/tcp.rs 226-246,
\* 323-338, 350-387).
PointersAreLive ==
    "eof" \notin ignored =>
        /\ pcb # None => pool[pcb] = serving
        /\ \A i \in DOMAIN queue : pool[queue[i].pcb] = queue[i].conn

\* A file is renamed to .gcode, and a new job announced, only with all the
\* bytes of its Content-Length and not one more, however they were cut into
\* packets, unless the drive failed (tasks/tcp.rs 98-153).
StoredWhole ==
    "disk" \notin ignored =>
        \A c \in Conn :
            /\ c \in announced => drive[c].ext = "gcode"
            /\ drive[c].ext = "gcode" => drive[c].len = req[c].size

\* A .partial file does not outlive its upload, unless the drive failed
\* (tasks/tcp.rs 118-142).
NoPartialLeft ==
    "disk" \notin ignored =>
        \A c \in Conn :
            drive[c].ext = "partial" => file = c /\ pc \in {"body", "store"}

\* The client of c has closed or reset the connection.
Ended(c) == peer[c] \in {"closed", "gone"}

\* If the end of a stream could be told, the worker lets go of the
\* connection (lwip/tcp.rs 302-308, 323-338; tasks/tcp.rs 40-43, 121-126).
ToldEndFreesWorker ==
    \A c \in Conn :
        serving = c /\ Ended(c) /\ "eof" \notin ignored ~> serving # c


=============================================================================
