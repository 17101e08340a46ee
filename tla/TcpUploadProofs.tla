--------------------------- MODULE TcpUploadProofs ---------------------------
(***************************************************************************)
(* The callbacks of lwIP never reach a TcpConnection that is gone, the     *)
(* pointers the code keeps are live, and a stored file is whole, for every *)
(* number of clients, pcbs and packets, every capacity of the channels and *)
(* every size of the files.                                                *)
(***************************************************************************)
EXTENDS TcpUpload, SequenceTheorems, TLAPS

-----------------------------------------------------------------------------
(* The inductive invariant.                                                *)

\* A pcb is that of one connection, which lwIP has accepted, and a free one
\* keeps no packet.
SlotsInv ==
    /\ \A s \in Slot : pool[s] = None => held[s] = None
    /\ \A s \in Slot : pool[s] # None => peer[pool[s]] # "new"
    /\ \A s, t \in Slot : pool[s] # None /\ pool[s] = pool[t] => s = t

\* When the worker has a connection and a pcb.
WorkerInv ==
    /\ pc = "accept" => pcb = None
    /\ pc # "accept" => serving # None
    /\ pc = "attach" => pcb # None

\* A connection is handed to the worker at most once: none is twice in the
\* queue, and the one in hand is not in it.
OnceInv ==
    /\ serving # None => peer[serving] # "new"
    /\ \A i \in DOMAIN queue : peer[queue[i].conn] # "new"
    /\ \A i \in DOMAIN queue : queue[i].conn # serving
    /\ \A i, j \in DOMAIN queue : queue[i].conn = queue[j].conn => i = j

\* Until it is taken, only _hold_recv is registered for a connection.
QueueHolds ==
    "eof" \notin ignored =>
        \A i \in DOMAIN queue : callback[queue[i].pcb] = "hold"

IsHead(p) == p # Eof /\ p.head # None

\* The head of a request is in one place: lwIP keeps it, or it is in the
\* channel, or it has been looked at, and only then is there a file.
HeadsInv ==
    /\ \A s \in Slot : held[s] # None /\ held[s].head # None =>
          /\ held[s].head = pool[s]
          /\ sent[pool[s]] > 0
          /\ drive[pool[s]].ext = "none"
          /\ \A i \in DOMAIN chan : IsHead(chan[i]) => chan[i].head # pool[s]
    /\ \A i \in DOMAIN chan : IsHead(chan[i]) =>
          /\ sent[chan[i].head] > 0
          /\ drive[chan[i].head].ext = "none"
    /\ \A i, j \in DOMAIN chan :
          IsHead(chan[i]) /\ IsHead(chan[j]) /\ chan[i].head = chan[j].head => i = j

\* The file in hand: what it holds and what it lacks make its Content-Length.
FileInv ==
    /\ \A c \in Conn : drive[c].ext # "none" => sent[c] > 0
    /\ pc \in {"body", "store", "stored"} => file # None
    /\ pc \in {"body", "store"} => drive[file].ext = "partial"
    /\ pc = "body" => drive[file].len + need <= MaxSize
    /\ "disk" \notin ignored =>
          /\ pc = "body" => drive[file].len + need = req[file].size
          /\ pc = "store" => drive[file].len = req[file].size
          /\ pc = "stored" => drive[file].ext = "gcode"

CallInv == WorkerInv /\ ArgIsAlive

QueueInv == OnceInv /\ QueueHolds /\ PointersAreLive

StoreInv == FileInv /\ StoredWhole /\ NoPartialLeft

IInv == TypeOK /\ SlotsInv /\ CallInv /\ QueueInv /\ HeadsInv /\ StoreInv

-----------------------------------------------------------------------------
(* Sequences, and what the operators of the model do.                      *)

LEMMA Caps ==
    /\ QueueCap \in Nat /\ QueueCap > 0
    /\ ChanCap \in Nat /\ ChanCap > 0
    /\ DistCap \in Nat /\ DistCap > 0
    /\ MaxSize \in Nat /\ MaxSize > 0
    /\ MaxPackets \in Nat /\ MaxLen \in Nat
  BY CapAssumption

LEMMA TailOf ==
    ASSUME NEW S, NEW q \in Seq(S), q # <<>>
    PROVE  /\ 1 \in DOMAIN q /\ Head(q) = q[1] /\ Head(q) \in S
           /\ Tail(q) \in Seq(S)
           /\ Len(Tail(q)) = Len(q) - 1
           /\ \A i \in DOMAIN Tail(q) :
                 i \in Nat /\ i + 1 \in DOMAIN q /\ i + 1 # 1 /\ Tail(q)[i] = q[i + 1]
  BY HeadTailProperties, LenProperties

LEMMA AppendOf ==
    ASSUME NEW S, NEW q \in Seq(S), NEW e \in S
    PROVE  /\ Append(q, e) \in Seq(S)
           /\ Len(Append(q, e)) = Len(q) + 1
           /\ Len(q) + 1 \notin DOMAIN q
           /\ \A i \in DOMAIN Append(q, e) :
                 \/ i \in DOMAIN q /\ Append(q, e)[i] = q[i]
                 \/ i = Len(q) + 1 /\ Append(q, e)[i] = e
  BY AppendProperties, LenProperties

LEMMA QueueElements ==
    ASSUME TypeOK
    PROVE  /\ queue \in Seq([pcb : Slot, conn : Conn]) /\ Len(queue) \in Nat
           /\ \A i \in DOMAIN queue : queue[i].pcb \in Slot /\ queue[i].conn \in Conn
<1>1. queue \in Seq([pcb : Slot, conn : Conn])
  BY DEF TypeOK
<1>2. Len(queue) \in Nat /\ DOMAIN queue = 1..Len(queue)
  BY <1>1, LenProperties
<1>3. \A i \in DOMAIN queue : queue[i] \in [pcb : Slot, conn : Conn]
  BY <1>1, <1>2, ElementOfSeq
<1> QED
  BY <1>1, <1>2, <1>3

LEMMA ChanElements ==
    ASSUME TypeOK
    PROVE  /\ chan \in Seq(Packet \cup {Eof}) /\ Len(chan) \in Nat
           /\ \A i \in DOMAIN chan : chan[i] \in Packet \cup {Eof}
           /\ \A i \in DOMAIN chan : IsHead(chan[i]) => chan[i].head \in Conn
<1>1. chan \in Seq(Packet \cup {Eof})
  BY DEF TypeOK
<1>2. Len(chan) \in Nat /\ DOMAIN chan = 1..Len(chan)
  BY <1>1, LenProperties
<1>3. \A i \in DOMAIN chan : chan[i] \in Packet \cup {Eof}
  BY <1>1, <1>2, ElementOfSeq
<1> QED
  BY <1>1, <1>2, <1>3 DEF IsHead, Packet

\* What a packet that is delivered to the TcpConnection, or refused, leaves of
\* the types.
LEMMA RecvTypes ==
    ASSUME TypeOK, NEW s \in Slot, NEW p \in Packet, Recv(s, p)
    PROVE  /\ chan' \in Seq(Packet \cup {Eof}) /\ Len(chan') <= ChanCap
           /\ held' \in [Slot -> Packet \cup {None}]
<1>1. CASE Len(chan) < ChanCap /\ chan' = Append(chan, p)
           /\ held' = [held EXCEPT ![s] = None]
  <2>1. chan \in Seq(Packet \cup {Eof}) /\ Len(chan) \in Nat
    BY LenProperties DEF TypeOK
  <2>2. chan' \in Seq(Packet \cup {Eof}) /\ Len(chan') = Len(chan) + 1
    BY <1>1, <2>1, AppendOf
  <2> QED
    BY <1>1, <2>1, <2>2, Caps DEF TypeOK
<1>2. CASE /\ \E n \in 0..MaxLen : held' = [held EXCEPT ![s] = [p EXCEPT !.len = n]]
           /\ UNCHANGED chan
  <2>1. \A n \in 0..MaxLen : [p EXCEPT !.len = n] \in Packet
    BY DEF Packet
  <2> QED
    BY <1>2, <2>1 DEF TypeOK
<1> QED
  BY <1>1, <1>2 DEF Recv

\* A delivered or refused packet keeps the heads in one place each.
LEMMA RecvHeads ==
    ASSUME TypeOK, SlotsInv, HeadsInv, NEW s \in Slot, NEW p \in Packet, Recv(s, p),
           pool[s] # None, UNCHANGED <<pool, drive>>,
           \A c \in Conn : sent[c] > 0 => sent'[c] > 0,
           p.head # None =>
              /\ p.head = pool[s]
              /\ sent'[p.head] > 0
              /\ drive[p.head].ext = "none"
              /\ \A i \in DOMAIN chan : IsHead(chan[i]) => chan[i].head # p.head
    PROVE  HeadsInv'
<1>0. /\ chan \in Seq(Packet \cup {Eof})
      /\ \A i \in DOMAIN chan : IsHead(chan[i]) => chan[i].head \in Conn
  BY ChanElements
<1>1. CASE chan' = Append(chan, p) /\ held' = [held EXCEPT ![s] = None]
  <2>1. \A i \in DOMAIN chan' : \/ i \in DOMAIN chan /\ chan'[i] = chan[i]
                                \/ i = Len(chan) + 1 /\ chan'[i] = p
    BY <1>0, <1>1, AppendOf
  <2>2. ASSUME NEW t \in Slot, held'[t] # None, held'[t].head # None
        PROVE  /\ held'[t].head = pool[t]
               /\ sent'[pool[t]] > 0
               /\ drive[pool[t]].ext = "none"
               /\ \A i \in DOMAIN chan' : IsHead(chan'[i]) => chan'[i].head # pool[t]
    <3>1. t # s /\ held'[t] = held[t]
      BY <1>1, <2>2 DEF TypeOK
    <3>2. pool[t] # None /\ pool[t] \in Conn /\ pool[t] # pool[s]
      BY <3>1, <2>2 DEF SlotsInv, TypeOK
    <3> QED
      BY <2>1, <2>2, <3>1, <3>2 DEF HeadsInv, IsHead
  <2>3. ASSUME NEW i \in DOMAIN chan', IsHead(chan'[i])
        PROVE  sent'[chan'[i].head] > 0 /\ drive[chan'[i].head].ext = "none"
    BY <1>0, <2>1, <2>3 DEF HeadsInv, IsHead
  <2>4. ASSUME NEW i \in DOMAIN chan', NEW j \in DOMAIN chan',
               IsHead(chan'[i]), IsHead(chan'[j]), chan'[i].head = chan'[j].head
        PROVE  i = j
    BY <2>1, <2>4 DEF HeadsInv, IsHead
  <2> QED
    BY <2>2, <2>3, <2>4 DEF HeadsInv
<1>2. CASE /\ \E n \in 0..MaxLen : held' = [held EXCEPT ![s] = [p EXCEPT !.len = n]]
           /\ UNCHANGED chan
  <2>1. PICK n \in 0..MaxLen : held' = [held EXCEPT ![s] = [p EXCEPT !.len = n]]
    BY <1>2
  <2>2. [p EXCEPT !.len = n].head = p.head
    BY DEF Packet
  <2>3. ASSUME NEW t \in Slot, held'[t] # None, held'[t].head # None
        PROVE  /\ held'[t].head = pool[t]
               /\ sent'[pool[t]] > 0
               /\ drive[pool[t]].ext = "none"
               /\ \A i \in DOMAIN chan : IsHead(chan[i]) => chan[i].head # pool[t]
    <3>1. CASE t = s
      BY <2>1, <2>2, <2>3, <3>1 DEF TypeOK
    <3>2. CASE t # s
      <4>1. held'[t] = held[t]
        BY <2>1, <3>2 DEF TypeOK
      <4>2. pool[t] \in Conn
        BY <4>1, <2>3 DEF SlotsInv, TypeOK
      <4> QED
        BY <2>3, <4>1, <4>2 DEF HeadsInv
    <3> QED
      BY <3>1, <3>2
  <2> QED
    BY <1>0, <1>2, <2>3 DEF HeadsInv, IsHead
<1> QED
  BY <1>1, <1>2 DEF Recv

\* A step that only throws away or tells the end of the stream.
LEMMA TellEofKeeps ==
    ASSUME TypeOK, TellEof
    PROVE  /\ chan' \in Seq(Packet \cup {Eof}) /\ Len(chan') <= ChanCap
           /\ ignored' \subseteq {"eof", "disk"}
           /\ ignored' \in {ignored, ignored \cup {"eof"}}
           /\ \A i \in DOMAIN chan' : \/ i \in DOMAIN chan /\ chan'[i] = chan[i]
                                      \/ chan'[i] = Eof
<1>1. chan \in Seq(Packet \cup {Eof}) /\ Len(chan) \in Nat
  BY LenProperties DEF TypeOK
<1>2. CASE Len(chan) < ChanCap /\ chan' = Append(chan, Eof) /\ UNCHANGED ignored
  <2>1. Append(chan, Eof) \in Seq(Packet \cup {Eof})
        /\ Len(Append(chan, Eof)) = Len(chan) + 1
    BY <1>1, AppendOf
  <2>2. \A i \in DOMAIN chan' : \/ i \in DOMAIN chan /\ chan'[i] = chan[i]
                                \/ chan'[i] = Eof
    BY <1>1, <1>2, AppendOf
  <2>3. Len(chan) + 1 <= ChanCap
    BY <1>1, <1>2, Caps
  <2>4. ignored' \subseteq {"eof", "disk"} /\ ignored' = ignored
    BY <1>2 DEF TypeOK
  <2> QED
    BY <1>2, <2>1, <2>2, <2>3, <2>4
<1>3. CASE ignored' = ignored \cup {"eof"} /\ UNCHANGED chan
  BY <1>1, <1>3 DEF TypeOK
<1> QED
  BY <1>2, <1>3 DEF TellEof

\* Writing part of a packet: the bytes written and those still lacking add up
\* unless the drive fails.
LEMMA WriteKeeps ==
    ASSUME TypeOK, NEW c \in Conn, NEW todo \in Nat, NEW old \in Nat, NEW len \in Nat,
           old + todo <= MaxSize, Write(c, todo, old, len)
    PROVE  /\ need' \in 0..MaxSize
           /\ pc' \in {"body", "store"}
           /\ drive' \in [Conn -> [ext : {"none", "partial", "gcode"}, len : 0..MaxSize]]
           /\ drive'[c].ext = "partial"
           /\ \A d \in Conn : d # c => drive'[d] = drive[d]
           /\ ignored' \subseteq {"eof", "disk"}
           /\ ignored' \in {ignored, ignored \cup {"disk"}}
           /\ pc' = "body" => drive'[c].len + need' <= MaxSize
           /\ "disk" \notin ignored' =>
                 /\ pc' = "body" => drive'[c].len + need' = old + todo
                 /\ pc' = "store" => drive'[c].len = old + todo
<1> DEFINE k == ToWrite(todo, len)
<1>1. /\ need' = IF k < todo THEN todo - k ELSE 0
      /\ pc' = IF k < todo THEN "body" ELSE "store"
      /\ \E n \in 0..k :
            /\ drive' = [drive EXCEPT ![c] = [ext |-> "partial", len |-> old + n]]
            /\ ignored' = IF n = k THEN ignored ELSE ignored \cup {"disk"}
  BY DEF Write
<1>2. PICK n \in 0..k :
            /\ drive' = [drive EXCEPT ![c] = [ext |-> "partial", len |-> old + n]]
            /\ ignored' = IF n = k THEN ignored ELSE ignored \cup {"disk"}
  BY <1>1
<1>3. k \in 0..todo
  BY DEF ToWrite
<1> HIDE DEF k
<1>4. old + n \in 0..MaxSize
  BY <1>2, <1>3, Caps
<1>5. /\ drive' \in [Conn -> [ext : {"none", "partial", "gcode"}, len : 0..MaxSize]]
      /\ drive'[c] = [ext |-> "partial", len |-> old + n]
      /\ \A d \in Conn : d # c => drive'[d] = drive[d]
  BY <1>2, <1>4 DEF TypeOK
<1>6. drive'[c].ext = "partial" /\ drive'[c].len = old + n
  BY <1>5
<1>7. need' \in 0..MaxSize /\ (pc' = "body" => need' = todo - k) /\ (pc' = "store" => k = todo)
  BY <1>1, <1>3, Caps
<1>8. "disk" \notin ignored' => n = k
  BY <1>2
<1>9. ignored' \in {ignored, ignored \cup {"disk"}} /\ ignored' \subseteq {"eof", "disk"}
  BY <1>2 DEF TypeOK
<1>10. pc' = "body" => old + n + need' <= MaxSize /\ (n = k => old + n + need' = old + todo)
  BY <1>2, <1>3, <1>7, Caps
<1>11. pc' = "store" => (n = k => old + n = old + todo)
  BY <1>7
<1>12. pc' \in {"body", "store"}
  BY <1>1
<1> QED
  BY <1>5, <1>6, <1>7, <1>8, <1>9, <1>10, <1>11, <1>12

-----------------------------------------------------------------------------
(* Frames: what a step that leaves a part alone keeps.                     *)

LEMMA SlotsKept ==
    ASSUME SlotsInv, UNCHANGED <<peer, pool, held>> PROVE SlotsInv'
  BY DEF SlotsInv

LEMMA QueueKept ==
    ASSUME QueueInv, UNCHANGED <<peer, pool, callback, queue, pcb, serving>>,
           ignored \subseteq ignored'
    PROVE  QueueInv'
  BY DEF QueueInv, OnceInv, QueueHolds, PointersAreLive

\* The channel may lose packets, and get the end of the stream.
LEMMA HeadsKept ==
    ASSUME TypeOK, HeadsInv, UNCHANGED <<sent, pool, held>>,
           \A i \in DOMAIN chan' : \/ i \in DOMAIN chan /\ chan'[i] = chan[i]
                                   \/ chan'[i] = Eof,
           \A c \in Conn : drive[c].ext = "none" => drive'[c].ext = "none"
    PROVE  HeadsInv'
<1>1. \A i \in DOMAIN chan : IsHead(chan[i]) => chan[i].head \in Conn
  BY ChanElements
<1>2. \A i \in DOMAIN chan' : IsHead(chan'[i]) => i \in DOMAIN chan /\ chan'[i] = chan[i]
  BY DEF IsHead
<1>3. ASSUME NEW t \in Slot, held[t] # None, held[t].head # None
      PROVE  /\ held[t].head = pool[t]
             /\ sent[pool[t]] > 0
             /\ drive'[pool[t]].ext = "none"
             /\ \A i \in DOMAIN chan' : IsHead(chan'[i]) => chan'[i].head # pool[t]
  <2>1. pool[t] \in Conn
    <3>1. held[t].head \in Conn
      BY <1>3 DEF TypeOK, Packet
    <3> QED
      BY <3>1, <1>3 DEF HeadsInv
  <2> QED
    BY <1>2, <1>3, <2>1 DEF HeadsInv, IsHead
<1>4. ASSUME NEW i \in DOMAIN chan', IsHead(chan'[i])
      PROVE  sent[chan'[i].head] > 0 /\ drive'[chan'[i].head].ext = "none"
  BY <1>1, <1>2, <1>4 DEF HeadsInv, IsHead
<1>5. ASSUME NEW i \in DOMAIN chan', NEW j \in DOMAIN chan',
             IsHead(chan'[i]), IsHead(chan'[j]), chan'[i].head = chan'[j].head
      PROVE  i = j
  BY <1>2, <1>5 DEF HeadsInv, IsHead
<1> QED
  BY <1>3, <1>4, <1>5 DEF HeadsInv

\* The worker takes a packet: its head is nowhere else.
LEMMA ReceiveHeads ==
    ASSUME TypeOK, HeadsInv, Receive, UNCHANGED <<sent, pool, held>>,
           \A c \in Conn : drive[c].ext = "none" =>
              \/ drive'[c].ext = "none"
              \/ IsHead(Head(chan)) /\ Head(chan).head = c
    PROVE  HeadsInv'
<1>1. chan \in Seq(Packet \cup {Eof}) /\ chan # <<>> /\ chan' = Tail(chan)
  BY DEF TypeOK, Receive
<1>2. /\ 1 \in DOMAIN chan /\ Head(chan) = chan[1]
      /\ \A i \in DOMAIN chan' :
            i \in Nat /\ i + 1 \in DOMAIN chan /\ i + 1 # 1 /\ chan'[i] = chan[i + 1]
  BY <1>1, TailOf
<1>3. \A i \in DOMAIN chan : IsHead(chan[i]) => chan[i].head \in Conn
  BY ChanElements
<1>4. ASSUME NEW t \in Slot, held[t] # None, held[t].head # None
      PROVE  /\ held[t].head = pool[t]
             /\ sent[pool[t]] > 0
             /\ drive'[pool[t]].ext = "none"
             /\ \A i \in DOMAIN chan' : IsHead(chan'[i]) => chan'[i].head # pool[t]
  <2>1. pool[t] \in Conn
    <3>1. held[t].head \in Conn
      BY <1>4 DEF TypeOK, Packet
    <3> QED
      BY <3>1, <1>4 DEF HeadsInv
  <2>2. /\ held[t].head = pool[t]
        /\ sent[pool[t]] > 0
        /\ drive[pool[t]].ext = "none"
        /\ \A i \in DOMAIN chan : IsHead(chan[i]) => chan[i].head # pool[t]
    BY <1>4 DEF HeadsInv
  <2>3. drive'[pool[t]].ext = "none"
    BY <1>2, <2>1, <2>2
  <2> QED
    BY <1>2, <2>2, <2>3
<1>5. ASSUME NEW i \in DOMAIN chan', IsHead(chan'[i])
      PROVE  sent[chan'[i].head] > 0 /\ drive'[chan'[i].head].ext = "none"
  <2>1. i + 1 \in DOMAIN chan /\ i + 1 # 1 /\ chan'[i] = chan[i + 1]
    BY <1>2
  <2>2. /\ chan'[i].head \in Conn
        /\ sent[chan'[i].head] > 0
        /\ drive[chan'[i].head].ext = "none"
    BY <2>1, <1>3, <1>5 DEF HeadsInv
  <2>3. ~ (IsHead(Head(chan)) /\ Head(chan).head = chan'[i].head)
    BY <2>1, <1>2, <1>5 DEF HeadsInv
  <2> QED
    BY <2>2, <2>3
<1>6. ASSUME NEW i \in DOMAIN chan', NEW j \in DOMAIN chan',
             IsHead(chan'[i]), IsHead(chan'[j]), chan'[i].head = chan'[j].head
      PROVE  i = j
  <2>1. /\ i + 1 \in DOMAIN chan /\ chan'[i] = chan[i + 1] /\ i \in Nat
        /\ j + 1 \in DOMAIN chan /\ chan'[j] = chan[j + 1] /\ j \in Nat
    BY <1>2
  <2>2. i + 1 = j + 1
    BY <2>1, <1>6 DEF HeadsInv
  <2> QED
    BY <2>1, <2>2
<1> QED
  BY <1>4, <1>5, <1>6 DEF HeadsInv

\* What is written is left alone, and requests are only changed before their
\* head has come.
LEMMA StoreKept ==
    ASSUME TypeOK, StoreInv, UNCHANGED <<pc, file, need, drive, announced>>,
           \A c \in Conn : sent[c] > 0 => sent'[c] > 0 /\ req'[c] = req[c],
           ignored \subseteq ignored'
    PROVE  StoreInv'
<1>1. \A c \in Conn : drive[c].ext # "none" => sent[c] > 0
  BY DEF StoreInv, FileInv
<1>2. pc \in {"body", "store"} => file \in Conn /\ req'[file] = req[file]
  BY <1>1 DEF StoreInv, FileInv, TypeOK
<1>3. FileInv'
  BY <1>1, <1>2 DEF StoreInv, FileInv
<1>4. StoredWhole'
  BY <1>1 DEF StoreInv, StoredWhole
<1>5. NoPartialLeft'
  BY DEF StoreInv, NoPartialLeft
<1> QED
  BY <1>3, <1>4, <1>5 DEF StoreInv

\* The worker goes from one place where it has no file in hand to another.
LEMMA StoreIdle ==
    ASSUME StoreInv, UNCHANGED <<req, sent, drive, announced>>,
           pc \notin {"body", "store"}, pc' \notin {"body", "store", "stored"},
           ignored \subseteq ignored'
    PROVE  StoreInv'
<1>1. FileInv'
  BY DEF StoreInv, FileInv
<1>2. StoredWhole' /\ NoPartialLeft'
  BY DEF StoreInv, StoredWhole, NoPartialLeft
<1> QED
  BY <1>1, <1>2 DEF StoreInv

-----------------------------------------------------------------------------
(* The invariant is inductive: one lemma for each action of lwIP's thread. *)

LEMMA InitInv == Init => IInv
<1> SUFFICES ASSUME Init PROVE IInv
  OBVIOUS
<1>1. TypeOK
  <2>1. Absent \in [ext : {"none", "partial", "gcode"}, len : 0..MaxSize]
    BY Caps DEF Absent
  <2> QED
    BY <2>1, Caps, EmptySeq DEF Init, TypeOK
<1>2. SlotsInv /\ CallInv
  BY DEF Init, SlotsInv, CallInv, WorkerInv, ArgIsAlive
<1>3. DOMAIN queue = {} /\ DOMAIN chan = {}
  BY DEF Init
<1>4. QueueInv
  BY <1>3 DEF Init, QueueInv, OnceInv, QueueHolds, PointersAreLive
<1>5. HeadsInv
  BY <1>3 DEF Init, HeadsInv
<1>6. StoreInv
  BY DEF Init, StoreInv, FileInv, StoredWhole, NoPartialLeft, Absent
<1> QED
  BY <1>1, <1>2, <1>4, <1>5, <1>6 DEF IInv

\* A connection is accepted into a free pcb, which nothing points to.
LEMMA AcceptInv ==
    ASSUME IInv, NEW c \in Conn, NEW s \in Slot, Accept(c, s) PROVE IInv'
<1> USE NoneAssumption
<1> DEFINE e == [pcb |-> s, conn |-> c]
<1>1. /\ TypeOK /\ SlotsInv /\ CallInv /\ QueueInv /\ HeadsInv /\ StoreInv
      /\ peer[c] = "new" /\ pool[s] = None /\ held[s] = None
  BY DEF IInv, SlotsInv, Accept
<1>2. /\ UNCHANGED <<req, sent, held, pc, pcb, serving, chan, ignored>>
      /\ UNCHANGED <<file, need, drive, announced, toSend>>
  BY DEF Accept, jobVars
<1>3. queue \in Seq([pcb : Slot, conn : Conn]) /\ Len(queue) \in Nat /\ e \in [pcb : Slot, conn : Conn]
  BY <1>1, LenProperties DEF TypeOK
<1>4. StoreInv'
  BY <1>1, <1>2, StoreKept
<1>5. CASE /\ Len(queue) < QueueCap
           /\ peer' = [peer EXCEPT ![c] = "open"]
           /\ pool' = [pool EXCEPT ![s] = c]
           /\ callback' = [callback EXCEPT ![s] = "hold"]
           /\ queue' = Append(queue, e)
  <2>1. /\ queue' \in Seq([pcb : Slot, conn : Conn])
        /\ Len(queue') = Len(queue) + 1
        /\ Len(queue) + 1 \notin DOMAIN queue
        /\ \A i \in DOMAIN queue' : \/ i \in DOMAIN queue /\ queue'[i] = queue[i]
                                    \/ i = Len(queue) + 1 /\ queue'[i] = e
    BY <1>3, <1>5, AppendOf
  <2>2. Len(queue') <= QueueCap
    BY <1>3, <1>5, <2>1, Caps
  <2>3. TypeOK'
    BY <1>1, <1>2, <1>5, <2>1, <2>2 DEF TypeOK
  <2>4. SlotsInv'
    BY <1>1, <1>2, <1>5 DEF SlotsInv, TypeOK
  <2>5. CallInv'
    BY <1>1, <1>2, <1>5 DEF CallInv, WorkerInv, ArgIsAlive, TypeOK
  <2>6. \A i \in DOMAIN queue : /\ queue[i].pcb \in Slot /\ queue[i].conn \in Conn
                                /\ queue[i].conn # c
    BY <1>1, QueueElements DEF QueueInv, OnceInv
  <2>7. OnceInv'
    <3>1. serving # c
      BY <1>1 DEF QueueInv, OnceInv
    <3>2. (serving # None => peer[serving] # "new")'
      BY <1>1, <1>2, <1>5 DEF QueueInv, OnceInv, TypeOK
    <3>3. ASSUME NEW i \in DOMAIN queue' PROVE peer'[queue'[i].conn] # "new"
      <4>1. peer'[c] = "open" /\ \A d \in Conn \ {c} : peer'[d] = peer[d]
        BY <1>1, <1>5 DEF TypeOK
      <4>2. CASE i \in DOMAIN queue /\ queue'[i] = queue[i]
        BY <1>1, <2>6, <4>1, <4>2 DEF QueueInv, OnceInv
      <4>3. CASE i = Len(queue) + 1 /\ queue'[i] = e
        BY <4>1, <4>3
      <4> QED
        BY <2>1, <4>2, <4>3
    <3>4. \A i \in DOMAIN queue' : queue'[i].conn # serving
      BY <1>1, <2>1, <3>1 DEF QueueInv, OnceInv
    <3>5. \A i, j \in DOMAIN queue' : queue'[i].conn = queue'[j].conn => i = j
      BY <1>1, <2>1, <2>6 DEF QueueInv, OnceInv
    <3> QED
      BY <1>2, <3>2, <3>3, <3>4, <3>5 DEF OnceInv
  <2>8. ASSUME "eof" \notin ignored
        PROVE  /\ pcb # None => pcb # s
               /\ \A i \in DOMAIN queue : queue[i].pcb # s
    <3>1. pcb # None => serving # None
      BY <1>1 DEF CallInv, WorkerInv
    <3> QED
      BY <1>1, <2>6, <2>8, <3>1 DEF QueueInv, PointersAreLive
  <2>9. /\ pool'[s] = c /\ callback'[s] = "hold"
        /\ \A t \in Slot \ {s} : pool'[t] = pool[t] /\ callback'[t] = callback[t]
    BY <1>1, <1>5 DEF TypeOK
  <2>10. ASSUME "eof" \notin ignored, NEW i \in DOMAIN queue'
        PROVE  callback'[queue'[i].pcb] = "hold" /\ pool'[queue'[i].pcb] = queue'[i].conn
    <3>1. CASE i \in DOMAIN queue /\ queue'[i] = queue[i]
      <4>1. queue[i].pcb \in Slot \ {s}
        BY <2>6, <2>8, <2>10, <3>1
      <4> QED
        BY <1>1, <2>9, <2>10, <3>1, <4>1 DEF QueueInv, QueueHolds, PointersAreLive
    <3>2. CASE i = Len(queue) + 1 /\ queue'[i] = e
      BY <2>9, <3>2
    <3> QED
      BY <2>1, <3>1, <3>2
  <2>11. QueueHolds'
    BY <1>2, <2>10 DEF QueueHolds
  <2>12. PointersAreLive'
    <3>1. ASSUME "eof" \notin ignored, pcb # None PROVE pool'[pcb] = serving
      <4>1. pcb \in Slot \ {s} /\ pool[pcb] = serving
        BY <1>1, <2>8, <3>1 DEF TypeOK, QueueInv, PointersAreLive
      <4> QED
        BY <2>9, <4>1
    <3> QED
      BY <1>2, <2>10, <3>1 DEF PointersAreLive
  <2>13. HeadsInv'
    <3>1. \A t \in Slot : held[t] # None => pool'[t] = pool[t]
      BY <1>1, <1>5 DEF TypeOK
    <3> QED
      BY <1>1, <1>2, <3>1 DEF HeadsInv
  <2> QED
    BY <1>4, <2>3, <2>4, <2>5, <2>7, <2>11, <2>12, <2>13 DEF IInv, QueueInv
<1>6. CASE /\ peer' = [peer EXCEPT ![c] = "gone"]
           /\ UNCHANGED <<pool, callback, queue>>
  <2>1. TypeOK'
    BY <1>1, <1>2, <1>6 DEF TypeOK
  <2>2. SlotsInv'
    BY <1>1, <1>2, <1>6 DEF SlotsInv, TypeOK
  <2>3. CallInv'
    BY <1>1, <1>2, <1>6 DEF CallInv, WorkerInv, ArgIsAlive
  <2>4. OnceInv'
    <3>1. \A i \in DOMAIN queue : queue[i].conn \in Conn
      BY <1>1, QueueElements
    <3> QED
      BY <1>1, <1>2, <1>6, <3>1 DEF QueueInv, OnceInv, TypeOK
  <2>5. QueueHolds' /\ PointersAreLive'
    BY <1>1, <1>2, <1>6 DEF QueueInv, QueueHolds, PointersAreLive
  <2>6. HeadsInv'
    BY <1>1, <1>2, <1>6 DEF HeadsInv
  <2> QED
    BY <1>4, <2>1, <2>2, <2>3, <2>4, <2>5, <2>6 DEF IInv, QueueInv
<1> QED
  BY <1>5, <1>6 DEF Accept

\* A packet arrives.  The first of a connection holds its head, which nobody
\* has seen yet.
LEMMA ArriveInv == ASSUME IInv, NEW s \in Slot, Arrive(s) PROVE IInv'
<1> USE NoneAssumption
<1> DEFINE c == pool[s]
<1> DEFINE pkt(n) == [head |-> IF sent[c] = 0 THEN c ELSE None, len |-> n]
<1>1. /\ TypeOK /\ SlotsInv /\ CallInv /\ QueueInv /\ HeadsInv /\ StoreInv
      /\ pool[s] # None /\ held[s] = None /\ c \in Conn
  BY DEF IInv, Arrive, TypeOK
<1>2. /\ UNCHANGED <<peer, pool, callback, queue, pc, pcb, serving, ignored>>
      /\ UNCHANGED <<file, need, drive, announced, toSend>>
  BY DEF Arrive, jobVars
<1>3. /\ sent[c] < MaxPackets
      /\ sent' = [sent EXCEPT ![c] = @ + 1]
      /\ \/ sent[c] = 0 /\ \E r \in Request : req' = [req EXCEPT ![c] = r]
         \/ sent[c] > 0 /\ UNCHANGED req
  BY DEF Arrive
<1>4. PICK n \in (IF sent[c] = 0 THEN 0 ELSE 1)..MaxLen :
          \/ /\ callback[s] = "hold"
             /\ held' = [held EXCEPT ![s] = pkt(n)]
             /\ UNCHANGED chan
          \/ /\ callback[s] = "conn"
             /\ Recv(s, pkt(n))
  BY DEF Arrive
<1>5. sent[c] \in Nat /\ sent[c] + 1 \in 0..MaxPackets
  <2>1. sent[c] \in 0..MaxPackets
    BY <1>1 DEF TypeOK
  <2> HIDE DEF c
  <2> QED
    BY <1>3, <2>1, Caps
<1>6. sent' \in [Conn -> 0..MaxPackets] /\ req' \in [Conn -> Request \cup {None}]
  <2>1. sent \in [Conn -> 0..MaxPackets] /\ req \in [Conn -> Request \cup {None}]
    BY <1>1 DEF TypeOK
  <2>2. sent' = [sent EXCEPT ![c] = sent[c] + 1]
    BY <1>3
  <2> HIDE DEF c
  <2>3. sent' \in [Conn -> 0..MaxPackets]
    BY <1>1, <1>5, <2>1, <2>2
  <2>4. req' \in [Conn -> Request \cup {None}]
    BY <1>1, <1>3, <2>1
  <2> QED
    BY <2>3, <2>4
<1>7. /\ sent'[c] > 0
      /\ \A d \in Conn : sent[d] > 0 => sent'[d] > 0 /\ req'[d] = req[d]
  BY <1>1, <1>3, <1>5 DEF TypeOK
<1>8. n \in 0..MaxLen
  BY <1>4, Caps
<1>9. pkt(n) \in Packet /\ (pkt(n).head # None => sent[c] = 0 /\ pkt(n).head = c)
  BY <1>1, <1>8 DEF Packet
<1>10. pkt(n).head # None =>
          /\ pkt(n).head = pool[s]
          /\ sent'[pkt(n).head] > 0
          /\ drive[pkt(n).head].ext = "none"
          /\ \A i \in DOMAIN chan : IsHead(chan[i]) => chan[i].head # pkt(n).head
  <2>1. \A d \in Conn : sent[d] = 0 => drive[d].ext = "none"
    BY <1>1 DEF StoreInv, FileInv
  <2>2. \A i \in DOMAIN chan : IsHead(chan[i]) => sent[chan[i].head] > 0
    BY <1>1 DEF HeadsInv
  <2> HIDE DEF pkt
  <2> QED
    BY <1>1, <1>5, <1>7, <1>9, <2>1, <2>2
<1> DEFINE p == pkt(n)
<1> HIDE DEF pkt, p
<1>11. /\ chan' \in Seq(Packet \cup {Eof}) /\ Len(chan') <= ChanCap
       /\ held' \in [Slot -> Packet \cup {None}]
       /\ HeadsInv'
  <2>1. CASE held' = [held EXCEPT ![s] = p] /\ UNCHANGED chan
    <3>1. held' \in [Slot -> Packet \cup {None}]
      BY <1>1, <1>9, <2>1 DEF TypeOK, p
    <3>2. \A i \in DOMAIN chan : IsHead(chan[i]) => chan[i].head \in Conn
      BY <1>1, ChanElements
    <3>3. ASSUME NEW t \in Slot, held'[t] # None, held'[t].head # None
          PROVE  /\ held'[t].head = pool[t]
                 /\ sent'[pool[t]] > 0
                 /\ drive[pool[t]].ext = "none"
                 /\ \A i \in DOMAIN chan : IsHead(chan[i]) => chan[i].head # pool[t]
      <4>1. CASE t = s
        <5>1. held'[t] = p
          BY <1>1, <2>1, <4>1 DEF TypeOK
        <5> QED
          BY <1>10, <3>3, <4>1, <5>1 DEF p
      <4>2. CASE t # s
        <5>1. held'[t] = held[t]
          BY <1>1, <2>1, <4>2 DEF TypeOK
        <5>2. pool[t] \in Conn
          BY <1>1, <5>1, <3>3 DEF SlotsInv, TypeOK
        <5> QED
          BY <1>1, <1>7, <3>3, <5>1, <5>2 DEF HeadsInv
      <4> QED
        BY <4>1, <4>2
    <3>4. HeadsInv'
      BY <1>1, <1>2, <1>7, <2>1, <3>2, <3>3 DEF HeadsInv, IsHead
    <3> QED
      BY <1>1, <2>1, <3>1, <3>4 DEF TypeOK
  <2>2. CASE Recv(s, p)
    <3>1. p \in Packet
      BY <1>9 DEF p
    <3>2. p.head # None =>
             /\ p.head = pool[s]
             /\ sent'[p.head] > 0
             /\ drive[p.head].ext = "none"
             /\ \A i \in DOMAIN chan : IsHead(chan[i]) => chan[i].head # p.head
      BY <1>10 DEF p
    <3>3. \A d \in Conn : sent[d] > 0 => sent'[d] > 0
      BY <1>7
    <3>4. HeadsInv'
      BY <1>1, <1>2, <2>2, <3>1, <3>2, <3>3, RecvHeads
    <3> QED
      BY <1>1, <2>2, <3>1, <3>4, RecvTypes
  <2> QED
    BY <1>4, <2>1, <2>2 DEF p
<1>12. \A t \in Slot : t # s => held'[t] = held[t]
  BY <1>1, <1>4 DEF TypeOK, Recv
<1>13. TypeOK'
  BY <1>1, <1>2, <1>6, <1>11 DEF TypeOK
<1>14. SlotsInv'
  BY <1>1, <1>2, <1>12 DEF SlotsInv
<1>15. CallInv'
  BY <1>1, <1>2 DEF CallInv, WorkerInv, ArgIsAlive
<1>16. QueueInv'
  BY <1>1, <1>2, QueueKept
<1>17. StoreInv'
  BY <1>1, <1>2, <1>7, StoreKept
<1> QED
  BY <1>11, <1>13, <1>14, <1>15, <1>16, <1>17 DEF IInv

\* A refused packet is offered again.
LEMMA RetryInv == ASSUME IInv, NEW s \in Slot, Retry(s) PROVE IInv'
<1> USE NoneAssumption
<1>1. /\ TypeOK /\ SlotsInv /\ CallInv /\ QueueInv /\ HeadsInv /\ StoreInv
      /\ pool[s] # None /\ held[s] # None /\ held[s] \in Packet /\ Recv(s, held[s])
  BY DEF IInv, Retry, TypeOK, SlotsInv
<1>2. /\ UNCHANGED <<req, peer, sent, pool, callback, queue, pc, pcb, serving, ignored>>
      /\ UNCHANGED <<file, need, drive, announced, toSend>>
  BY DEF Retry, jobVars
<1>3. /\ chan' \in Seq(Packet \cup {Eof}) /\ Len(chan') <= ChanCap
      /\ held' \in [Slot -> Packet \cup {None}]
  BY <1>1, RecvTypes
<1>4. held[s].head # None =>
         /\ held[s].head = pool[s]
         /\ sent'[held[s].head] > 0
         /\ drive[held[s].head].ext = "none"
         /\ \A i \in DOMAIN chan : IsHead(chan[i]) => chan[i].head # held[s].head
  BY <1>1, <1>2 DEF HeadsInv
<1>5. HeadsInv'
  <2>1. \A c \in Conn : sent[c] > 0 => sent'[c] > 0
    BY <1>2
  <2> QED
    BY <1>1, <1>2, <1>4, <2>1, RecvHeads
<1>6. TypeOK'
  BY <1>1, <1>2, <1>3 DEF TypeOK
<1>7. SlotsInv'
  <2>1. \A t \in Slot : t # s => held'[t] = held[t]
    BY <1>1 DEF TypeOK, Recv
  <2> QED
    BY <1>1, <1>2, <2>1 DEF SlotsInv
<1>8. CallInv'
  BY <1>1, <1>2 DEF CallInv, WorkerInv, ArgIsAlive
<1>9. QueueInv' /\ StoreInv'
  BY <1>1, <1>2, QueueKept, StoreKept
<1> QED
  BY <1>5, <1>6, <1>7, <1>8, <1>9 DEF IInv

\* The end of a stream is told, or lost.
LEMMA FinInv == ASSUME IInv, NEW s \in Slot, Fin(s) PROVE IInv'
<1>1. /\ TypeOK /\ SlotsInv /\ CallInv /\ QueueInv /\ HeadsInv /\ StoreInv
      /\ pool[s] \in Conn
      /\ peer' = [peer EXCEPT ![pool[s]] = "closed"]
  BY DEF IInv, Fin, TypeOK
<1>2. /\ UNCHANGED <<req, sent, pool, callback, held, queue, pc, pcb, serving>>
      /\ UNCHANGED <<file, need, drive, announced, toSend>>
  BY DEF Fin, jobVars
<1>3. /\ chan' \in Seq(Packet \cup {Eof}) /\ Len(chan') <= ChanCap
      /\ ignored' \subseteq {"eof", "disk"}
      /\ ignored \subseteq ignored'
      /\ \A i \in DOMAIN chan' : \/ i \in DOMAIN chan /\ chan'[i] = chan[i]
                                 \/ chan'[i] = Eof
  <2>1. CASE TellEof
    BY <1>1, <2>1, TellEofKeeps
  <2>2. CASE NobodyToTell
    BY <1>1, <2>2 DEF NobodyToTell, TypeOK
  <2> QED
    BY <2>1, <2>2 DEF Fin
<1>4. TypeOK'
  BY <1>1, <1>2, <1>3 DEF TypeOK
<1>5. SlotsInv'
  BY <1>1, <1>2 DEF SlotsInv, TypeOK
<1>6. CallInv'
  BY <1>1, <1>2 DEF CallInv, WorkerInv, ArgIsAlive
<1>7. QueueInv'
  <2>1. \A d \in Conn : peer[d] # "new" => peer'[d] # "new"
    BY <1>1 DEF TypeOK
  <2>2. \A i \in DOMAIN queue : queue[i].conn \in Conn
    BY <1>1, QueueElements
  <2>3. serving \in Conn \cup {None}
    BY <1>1 DEF TypeOK
  <2> QED
    BY <1>1, <1>2, <1>3, <2>1, <2>2, <2>3
       DEF QueueInv, OnceInv, QueueHolds, PointersAreLive
<1>8. HeadsInv'
  BY <1>1, <1>2, <1>3, HeadsKept
<1>9. StoreInv'
  BY <1>1, <1>2, <1>3, StoreKept
<1> QED
  BY <1>4, <1>5, <1>6, <1>7, <1>8, <1>9 DEF IInv

\* What freeing a pcb leaves of the parts about the pcbs and the heads.
LEMMA FreeKeeps ==
    ASSUME TypeOK, SlotsInv, NEW s \in Slot, Free(s)
    PROVE  /\ pool' \in [Slot -> Conn \cup {None}]
           /\ callback' \in [Slot -> {"none", "hold", "conn"}]
           /\ held' \in [Slot -> Packet \cup {None}]
           /\ pool'[s] = None /\ callback'[s] = "none" /\ held'[s] = None
           /\ \A t \in Slot : t # s =>
                 pool'[t] = pool[t] /\ callback'[t] = callback[t] /\ held'[t] = held[t]
  BY DEF TypeOK, Free

LEMMA FreeSlots ==
    ASSUME TypeOK, SlotsInv, NEW s \in Slot, Free(s),
           \A c \in Conn : peer[c] # "new" => peer'[c] # "new"
    PROVE  SlotsInv'
<1>1. pool \in [Slot -> Conn \cup {None}]
  BY DEF TypeOK
<1> QED
  BY <1>1, FreeKeeps DEF SlotsInv

LEMMA FreeHeads ==
    ASSUME TypeOK, SlotsInv, HeadsInv, NEW s \in Slot, Free(s), UNCHANGED <<sent, drive>>,
           \A i \in DOMAIN chan' : \/ i \in DOMAIN chan /\ chan'[i] = chan[i]
                                   \/ chan'[i] = Eof
    PROVE  HeadsInv'
<1>1. \A i \in DOMAIN chan' : IsHead(chan'[i]) => i \in DOMAIN chan /\ chan'[i] = chan[i]
  BY DEF IsHead
<1>2. ASSUME NEW t \in Slot, held'[t] # None, held'[t].head # None
      PROVE  /\ held'[t].head = pool'[t]
             /\ sent[pool'[t]] > 0
             /\ drive[pool'[t]].ext = "none"
             /\ \A i \in DOMAIN chan' : IsHead(chan'[i]) => chan'[i].head # pool'[t]
  <2>1. held'[t] = held[t] /\ pool'[t] = pool[t]
    BY <1>2, FreeKeeps
  <2> QED
    BY <1>1, <1>2, <2>1 DEF HeadsInv
<1>3. ASSUME NEW i \in DOMAIN chan', IsHead(chan'[i])
      PROVE  sent[chan'[i].head] > 0 /\ drive[chan'[i].head].ext = "none"
  BY <1>1, <1>3 DEF HeadsInv
<1>4. ASSUME NEW i \in DOMAIN chan', NEW j \in DOMAIN chan',
             IsHead(chan'[i]), IsHead(chan'[j]), chan'[i].head = chan'[j].head
      PROVE  i = j
  BY <1>1, <1>4 DEF HeadsInv
<1> QED
  BY <1>2, <1>3, <1>4 DEF HeadsInv

\* No pointer in the queue names the pcb of the connection in hand.
LEMMA QueueApart ==
    ASSUME TypeOK, CallInv, QueueInv, "eof" \notin ignored, pcb # None
    PROVE  \A i \in DOMAIN queue : queue[i].pcb # pcb
<1>1. pool[pcb] = serving
  BY DEF QueueInv, PointersAreLive
<1> QED
  BY <1>1 DEF QueueInv, OnceInv, PointersAreLive

\* RST: _err clears the pointer in the same step in which the pcb is freed.
LEMMA ResetInv == ASSUME IInv, NEW s \in Slot, Reset(s) PROVE IInv'
<1> USE NoneAssumption
<1>1. /\ TypeOK /\ SlotsInv /\ CallInv /\ QueueInv /\ HeadsInv /\ StoreInv
      /\ pool[s] \in Conn /\ Free(s)
      /\ peer' = [peer EXCEPT ![pool[s]] = "gone"]
  BY DEF IInv, Reset, TypeOK
<1>2. /\ UNCHANGED <<req, sent, queue, pc, serving>>
      /\ UNCHANGED <<file, need, drive, announced, toSend>>
  BY DEF Reset, jobVars
<1>3. /\ chan' \in Seq(Packet \cup {Eof}) /\ Len(chan') <= ChanCap
      /\ ignored' \subseteq {"eof", "disk"}
      /\ ignored \subseteq ignored'
      /\ \A i \in DOMAIN chan' : \/ i \in DOMAIN chan /\ chan'[i] = chan[i]
                                 \/ chan'[i] = Eof
  <2>1. CASE TellEof
    BY <1>1, <2>1, TellEofKeeps
  <2>2. CASE NobodyToTell
    BY <1>1, <2>2 DEF NobodyToTell, TypeOK
  <2> QED
    BY <2>1, <2>2 DEF Reset
<1>4. \/ callback[s] = "hold" /\ "eof" \in ignored' /\ pcb' = pcb
      \/ callback[s] = "conn" /\ pcb' = None /\ pcb = s /\ pc \notin {"accept", "attach"}
  BY <1>1 DEF Reset, NobodyToTell, ClearPcb, CallInv, ArgIsAlive
<1>5. \A d \in Conn : peer[d] # "new" => peer'[d] # "new"
  BY <1>1 DEF TypeOK
<1>6. TypeOK'
  <2>1. peer' \in [Conn -> {"new", "open", "closed", "gone"}]
    BY <1>1 DEF TypeOK
  <2>2. /\ pool' \in [Slot -> Conn \cup {None}]
        /\ callback' \in [Slot -> {"none", "hold", "conn"}]
        /\ held' \in [Slot -> Packet \cup {None}]
    BY <1>1, FreeKeeps
  <2>3. pcb' \in Slot \cup {None}
    BY <1>1, <1>4 DEF TypeOK
  <2> QED
    BY <1>1, <1>2, <1>3, <2>1, <2>2, <2>3 DEF TypeOK
<1>7. SlotsInv'
  BY <1>1, <1>5, FreeSlots
<1>8. CallInv'
  <2>1. callback'[s] = "none" /\ \A t \in Slot : t # s => callback'[t] = callback[t]
    BY <1>1, FreeKeeps
  <2> QED
    BY <1>1, <1>2, <1>4, <2>1 DEF CallInv, WorkerInv, ArgIsAlive
<1>9. OnceInv'
  <2>1. \A i \in DOMAIN queue : queue[i].conn \in Conn
    BY <1>1, QueueElements
  <2>2. serving \in Conn \cup {None}
    BY <1>1 DEF TypeOK
  <2> QED
    BY <1>1, <1>2, <1>5, <2>1, <2>2 DEF QueueInv, OnceInv
<1>10. QueueHolds' /\ PointersAreLive'
  <2> SUFFICES ASSUME "eof" \notin ignored' PROVE QueueHolds' /\ PointersAreLive'
    BY DEF QueueHolds, PointersAreLive
  <2>1. "eof" \notin ignored /\ pcb = s /\ pcb' = None /\ pcb # None
    BY <1>3, <1>4
  <2>2. \A i \in DOMAIN queue : queue[i].pcb \in Slot /\ queue[i].pcb # s
    BY <1>1, <2>1, QueueApart, QueueElements
  <2>3. \A i \in DOMAIN queue : /\ pool'[queue[i].pcb] = pool[queue[i].pcb]
                                /\ callback'[queue[i].pcb] = callback[queue[i].pcb]
    BY <1>1, <2>2, FreeKeeps
  <2> QED
    BY <1>1, <1>2, <2>1, <2>3 DEF QueueInv, QueueHolds, PointersAreLive
<1>11. HeadsInv'
  BY <1>1, <1>2, <1>3, FreeHeads
<1>12. StoreInv'
  BY <1>1, <1>2, <1>3, StoreKept
<1> QED
  BY <1>6, <1>7, <1>8, <1>9, <1>10, <1>11, <1>12 DEF IInv, QueueInv

-----------------------------------------------------------------------------
(* One lemma for each action of the worker.                                *)

LEMMA TakeInv == ASSUME IInv, Take PROVE IInv'
<1> USE NoneAssumption
<1>1. /\ TypeOK /\ SlotsInv /\ CallInv /\ QueueInv /\ HeadsInv /\ StoreInv
      /\ pc = "accept" /\ pc' = "attach"
      /\ queue' = Tail(queue) /\ pcb' = Head(queue).pcb /\ serving' = Head(queue).conn
  BY DEF IInv, Take
<1>2. /\ UNCHANGED <<req, peer, sent, pool, callback, held, chan, ignored>>
      /\ UNCHANGED <<file, need, drive, announced, toSend>>
  BY DEF Take, lwipVars, jobVars
<1>3. queue \in Seq([pcb : Slot, conn : Conn]) /\ queue # <<>> /\ Len(queue) \in Nat
  BY <1>1, QueueElements DEF Take
<1>4. /\ 1 \in DOMAIN queue /\ Head(queue) = queue[1]
      /\ Head(queue) \in [pcb : Slot, conn : Conn]
      /\ queue' \in Seq([pcb : Slot, conn : Conn])
      /\ Len(queue') = Len(queue) - 1
      /\ \A i \in DOMAIN queue' :
            i \in Nat /\ i + 1 \in DOMAIN queue /\ i + 1 # 1 /\ queue'[i] = queue[i + 1]
  BY <1>1, <1>3, TailOf
<1>5. pcb' = queue[1].pcb /\ pcb' \in Slot /\ serving' = queue[1].conn /\ serving' \in Conn
  BY <1>1, <1>4
<1>6. TypeOK'
  <2>1. Len(queue') <= QueueCap
    BY <1>1, <1>3, <1>4, Caps DEF TypeOK
  <2> QED
    BY <1>1, <1>2, <1>4, <1>5, <2>1 DEF TypeOK
<1>7. SlotsInv'
  BY <1>1, <1>2, SlotsKept
<1>8. CallInv'
  BY <1>1, <1>2, <1>5 DEF CallInv, WorkerInv, ArgIsAlive
<1>9. OnceInv'
  <2>1. peer[serving'] # "new"
    BY <1>1, <1>4, <1>5 DEF QueueInv, OnceInv
  <2>2. ASSUME NEW i \in DOMAIN queue'
        PROVE  peer[queue'[i].conn] # "new" /\ queue'[i].conn # serving'
    BY <1>1, <1>4, <1>5 DEF QueueInv, OnceInv
  <2>3. ASSUME NEW i \in DOMAIN queue', NEW j \in DOMAIN queue',
               queue'[i].conn = queue'[j].conn
        PROVE  i = j
    <3>1. i + 1 = j + 1
      BY <1>1, <1>4, <2>3 DEF QueueInv, OnceInv
    <3> QED
      BY <1>4, <3>1
  <2> QED
    BY <1>2, <2>1, <2>2, <2>3 DEF OnceInv
<1>10. QueueHolds' /\ PointersAreLive'
  BY <1>1, <1>2, <1>4, <1>5 DEF QueueInv, QueueHolds, PointersAreLive
<1>11. HeadsInv'
  BY <1>1, <1>2 DEF HeadsInv
<1>12. StoreInv'
  BY <1>1, <1>2, StoreIdle
<1> QED
  BY <1>6, <1>7, <1>8, <1>9, <1>10, <1>11, <1>12 DEF IInv, QueueInv

\* The callbacks are attached to the pcb in hand, and to no other.
LEMMA AttachInv == ASSUME IInv, Attach PROVE IInv'
<1> USE NoneAssumption
<1>1. /\ TypeOK /\ SlotsInv /\ CallInv /\ QueueInv /\ HeadsInv /\ StoreInv
      /\ pc = "attach" /\ pc' = "first" /\ pcb \in Slot
  BY DEF IInv, Attach, CallInv, WorkerInv, TypeOK
<1>2. /\ UNCHANGED <<req, peer, sent, pool, queue, pcb, serving, ignored>>
      /\ UNCHANGED <<file, need, drive, announced, toSend>>
  BY DEF Attach, jobVars
<1>3. StoreInv'
  BY <1>1, <1>2, StoreIdle
<1>4. /\ callback' \in [Slot -> {"none", "hold", "conn"}]
      /\ \A t \in Slot : t # pcb => callback'[t] = callback[t]
  BY <1>1 DEF Attach, TypeOK
<1>5. /\ chan' \in Seq(Packet \cup {Eof}) /\ Len(chan') <= ChanCap
      /\ held' \in [Slot -> Packet \cup {None}]
      /\ \A t \in Slot : t # pcb => held'[t] = held[t]
      /\ pool[pcb] = None => UNCHANGED held
      /\ HeadsInv'
  <2>1. CASE UNCHANGED <<held, chan>>
    BY <1>1, <1>2, <2>1 DEF TypeOK, HeadsInv
  <2>2. CASE pool[pcb] # None /\ held[pcb] # None /\ Recv(pcb, held[pcb])
    <3>1. held[pcb] \in Packet
      BY <1>1, <2>2 DEF TypeOK
    <3>2. held[pcb].head # None =>
             /\ held[pcb].head = pool[pcb]
             /\ sent'[held[pcb].head] > 0
             /\ drive[held[pcb].head].ext = "none"
             /\ \A i \in DOMAIN chan : IsHead(chan[i]) => chan[i].head # held[pcb].head
      BY <1>1, <1>2, <2>2 DEF HeadsInv
    <3>3. \A c \in Conn : sent[c] > 0 => sent'[c] > 0
      BY <1>2
    <3>4. HeadsInv'
      BY <1>1, <1>2, <2>2, <3>1, <3>2, <3>3, RecvHeads
    <3>5. \A t \in Slot : t # pcb => held'[t] = held[t]
      BY <1>1, <2>2 DEF TypeOK, Recv
    <3> QED
      BY <1>1, <2>2, <3>1, <3>4, <3>5, RecvTypes
  <2> QED
    BY <2>1, <2>2 DEF Attach
<1>6. TypeOK'
  BY <1>1, <1>2, <1>4, <1>5 DEF TypeOK
<1>7. SlotsInv'
  BY <1>1, <1>2, <1>5 DEF SlotsInv
<1>8. CallInv'
  BY <1>1, <1>2, <1>4 DEF CallInv, WorkerInv, ArgIsAlive
<1>9. OnceInv' /\ PointersAreLive'
  BY <1>1, <1>2 DEF QueueInv, OnceInv, PointersAreLive
<1>10. QueueHolds'
  <2> SUFFICES ASSUME "eof" \notin ignored PROVE QueueHolds'
    BY <1>2 DEF QueueHolds
  <2>1. \A i \in DOMAIN queue : queue[i].pcb \in Slot /\ queue[i].pcb # pcb
    BY <1>1, QueueApart, QueueElements
  <2> QED
    BY <1>1, <1>2, <1>4, <2>1 DEF QueueInv, QueueHolds
<1> QED
  BY <1>3, <1>5, <1>6, <1>7, <1>8, <1>9, <1>10 DEF IInv, QueueInv

LEMMA AttachFailsInv == ASSUME IInv, AttachFails PROVE IInv'
<1>1. /\ TypeOK /\ SlotsInv /\ CallInv /\ QueueInv /\ HeadsInv /\ StoreInv
      /\ pc = "attach" /\ pc' = "first" /\ ignored' = ignored \cup {"eof"}
  BY DEF IInv, AttachFails
<1>2. /\ UNCHANGED <<req, peer, sent, pool, callback, held, queue, pcb, serving, chan>>
      /\ UNCHANGED <<file, need, drive, announced, toSend>>
  BY DEF AttachFails, lwipVars, jobVars
<1>3. TypeOK'
  BY <1>1, <1>2 DEF TypeOK
<1>4. SlotsInv' /\ QueueInv'
  BY <1>1, <1>2, SlotsKept, QueueKept
<1>5. CallInv'
  BY <1>1, <1>2 DEF CallInv, WorkerInv, ArgIsAlive
<1>6. HeadsInv'
  BY <1>1, <1>2 DEF HeadsInv
<1>7. StoreInv'
  BY <1>1, <1>2, StoreIdle
<1> QED
  BY <1>3, <1>4, <1>5, <1>6, <1>7 DEF IInv

\* What a step of handle_conn leaves alone.
LEMMA HandlerKept ==
    ASSUME SlotsInv, CallInv, QueueInv, UNCHANGED <<lwipVars, queue, pcb, serving>>,
           pc \notin {"accept", "attach"}, pc' \notin {"accept", "attach"},
           ignored \subseteq ignored'
    PROVE  SlotsInv' /\ CallInv' /\ QueueInv'
<1>1. SlotsInv' /\ QueueInv'
  BY SlotsKept, QueueKept DEF lwipVars
<1>2. CallInv'
  BY DEF CallInv, WorkerInv, ArgIsAlive, lwipVars
<1> QED
  BY <1>1, <1>2

LEMMA ReceiveTypes ==
    ASSUME TypeOK, Receive
    PROVE  /\ chan' \in Seq(Packet \cup {Eof}) /\ Len(chan') <= ChanCap
           /\ 1 \in DOMAIN chan /\ Head(chan) = chan[1]
           /\ Head(chan) \in Packet \cup {Eof}
<1>1. chan \in Seq(Packet \cup {Eof}) /\ chan # <<>> /\ chan' = Tail(chan)
      /\ Len(chan) <= ChanCap /\ Len(chan) \in Nat
  BY ChanElements DEF TypeOK, Receive
<1>2. /\ chan' \in Seq(Packet \cup {Eof}) /\ Len(chan') = Len(chan) - 1
      /\ 1 \in DOMAIN chan /\ Head(chan) = chan[1]
      /\ Head(chan) \in Packet \cup {Eof}
  BY <1>1, TailOf
<1> QED
  BY <1>1, <1>2, Caps

LEMMA FirstDoneInv == ASSUME IInv, FirstEof \/ FirstAnswered PROVE IInv'
<1>1. /\ TypeOK /\ SlotsInv /\ CallInv /\ QueueInv /\ HeadsInv /\ StoreInv
      /\ pc = "first" /\ pc' \in {"drop", "reply"} /\ Receive
  BY DEF IInv, FirstEof, FirstAnswered
<1>2. UNCHANGED <<lwipVars, queue, pcb, serving, jobVars, ignored>>
  BY DEF FirstEof, FirstAnswered
<1>3. TypeOK'
  BY <1>1, <1>2, ReceiveTypes DEF TypeOK, lwipVars, jobVars
<1>4. SlotsInv' /\ CallInv' /\ QueueInv'
  BY <1>1, <1>2, HandlerKept
<1>5. HeadsInv'
  BY <1>1, <1>2, ReceiveHeads DEF lwipVars, jobVars
<1>6. StoreInv'
  BY <1>1, <1>2, StoreIdle DEF lwipVars, jobVars
<1> QED
  BY <1>3, <1>4, <1>5, <1>6 DEF IInv

\* The head of an upload is looked at once, so that its file is a new one.
LEMMA FirstStoredInv == ASSUME IInv, FirstStored PROVE IInv'
<1> DEFINE c == Head(chan).head
<1>1. /\ TypeOK /\ SlotsInv /\ CallInv /\ QueueInv /\ HeadsInv /\ StoreInv
      /\ pc = "first" /\ Receive /\ file' = c
      /\ Write(c, req[c].size, 0, Head(chan).len)
      /\ IsHead(Head(chan)) /\ req[c].size \in 1..MaxSize
  BY DEF IInv, FirstStored, IsUpload, IsHead
<1>2. UNCHANGED <<lwipVars, queue, pcb, serving, announced, toSend>>
  BY DEF FirstStored
<1>3. /\ chan' \in Seq(Packet \cup {Eof}) /\ Len(chan') <= ChanCap
      /\ 1 \in DOMAIN chan /\ Head(chan) = chan[1]
      /\ Head(chan) \in Packet \cup {Eof}
  BY <1>1, ReceiveTypes
<1>4. c \in Conn /\ Head(chan).len \in 0..MaxLen
  <2>1. Head(chan) \in Packet /\ c # None
    BY <1>1, <1>3 DEF IsHead
  <2> QED
    BY <2>1 DEF Packet
<1>5. sent[c] > 0 /\ drive[c].ext = "none"
  BY <1>1, <1>3 DEF HeadsInv
<1>6. /\ need' \in 0..MaxSize
      /\ pc' \in {"body", "store"}
      /\ drive' \in [Conn -> [ext : {"none", "partial", "gcode"}, len : 0..MaxSize]]
      /\ drive'[c].ext = "partial"
      /\ \A d \in Conn : d # c => drive'[d] = drive[d]
      /\ ignored' \subseteq {"eof", "disk"}
      /\ ignored' \in {ignored, ignored \cup {"disk"}}
      /\ pc' = "body" => drive'[c].len + need' <= MaxSize
      /\ "disk" \notin ignored' =>
            /\ pc' = "body" => drive'[c].len + need' = req[c].size
            /\ pc' = "store" => drive'[c].len = req[c].size
  <2>1. /\ req[c].size \in Nat /\ 0 \in Nat /\ Head(chan).len \in Nat
        /\ 0 + req[c].size <= MaxSize /\ 0 + req[c].size = req[c].size
    BY <1>1, <1>4, Caps
  <2> HIDE DEF c
  <2> QED
    BY <1>1, <1>4, <2>1, WriteKeeps
<1> HIDE DEF c
<1>7. TypeOK'
  BY <1>1, <1>2, <1>3, <1>4, <1>6 DEF TypeOK, lwipVars
<1>8. SlotsInv' /\ CallInv' /\ QueueInv'
  BY <1>1, <1>2, <1>6, HandlerKept
<1>9. HeadsInv'
  <2>1. \A d \in Conn : drive[d].ext = "none" =>
           \/ drive'[d].ext = "none"
           \/ IsHead(Head(chan)) /\ Head(chan).head = d
    BY <1>1, <1>6 DEF c
  <2> QED
    BY <1>1, <1>2, <2>1, ReceiveHeads DEF lwipVars
<1>10. file' \in Conn /\ file' # None
  BY <1>1, <1>4, NoneAssumption
<1>11. FileInv'
  BY <1>1, <1>2, <1>4, <1>5, <1>6, <1>10 DEF StoreInv, FileInv, lwipVars
<1>12. StoredWhole'
  BY <1>1, <1>2, <1>4, <1>5, <1>6 DEF StoreInv, StoredWhole, lwipVars
<1>13. NoPartialLeft'
  BY <1>1, <1>6 DEF StoreInv, NoPartialLeft
<1> QED
  BY <1>7, <1>8, <1>9, <1>11, <1>12, <1>13 DEF IInv, StoreInv

LEMMA BodyInv == ASSUME IInv, Body PROVE IInv'
<1>1. /\ TypeOK /\ SlotsInv /\ CallInv /\ QueueInv /\ HeadsInv /\ StoreInv
      /\ pc = "body" /\ Receive
      /\ Write(file, need, drive[file].len, Head(chan).len)
  BY DEF IInv, Body
<1>2. UNCHANGED <<lwipVars, queue, pcb, serving, file, announced, toSend>>
  BY DEF Body
<1>3. /\ chan' \in Seq(Packet \cup {Eof}) /\ Len(chan') <= ChanCap
      /\ Head(chan) \in Packet
  BY <1>1, ReceiveTypes DEF Body
<1>4. /\ file \in Conn /\ drive[file].len \in Nat /\ need \in Nat
      /\ drive[file].ext = "partial" /\ sent[file] > 0
      /\ drive[file].len + need <= MaxSize
      /\ Head(chan).len \in Nat
  <2>1. file \in Conn /\ file # None
    BY <1>1 DEF StoreInv, FileInv, TypeOK
  <2>2. drive[file].len \in Nat /\ need \in Nat
    BY <1>1, <2>1, Caps DEF TypeOK
  <2>3. Head(chan).len \in Nat
    BY <1>3, Caps DEF Packet
  <2> QED
    BY <1>1, <2>1, <2>2, <2>3 DEF StoreInv, FileInv
<1> DEFINE total == drive[file].len + need
<1>5. /\ need' \in 0..MaxSize
      /\ pc' \in {"body", "store"}
      /\ drive' \in [Conn -> [ext : {"none", "partial", "gcode"}, len : 0..MaxSize]]
      /\ drive'[file].ext = "partial"
      /\ \A d \in Conn : d # file => drive'[d] = drive[d]
      /\ ignored' \subseteq {"eof", "disk"}
      /\ ignored' \in {ignored, ignored \cup {"disk"}}
      /\ pc' = "body" => drive'[file].len + need' <= MaxSize
      /\ "disk" \notin ignored' =>
            /\ pc' = "body" => drive'[file].len + need' = total
            /\ pc' = "store" => drive'[file].len = total
  BY <1>1, <1>4, WriteKeeps
<1>6. "disk" \notin ignored => total = req[file].size
  BY <1>1 DEF StoreInv, FileInv
<1> HIDE DEF total
<1>7. TypeOK'
  BY <1>1, <1>2, <1>3, <1>5 DEF TypeOK, lwipVars
<1>8. SlotsInv' /\ CallInv' /\ QueueInv'
  BY <1>1, <1>2, <1>5, HandlerKept
<1>9. HeadsInv'
  <2>1. \A d \in Conn : drive[d].ext = "none" =>
           \/ drive'[d].ext = "none"
           \/ IsHead(Head(chan)) /\ Head(chan).head = d
    BY <1>4, <1>5
  <2> QED
    BY <1>1, <1>2, <2>1, ReceiveHeads DEF lwipVars
<1>10. FileInv'
  BY <1>1, <1>2, <1>4, <1>5, <1>6 DEF StoreInv, FileInv, lwipVars
<1>11. StoredWhole'
  BY <1>1, <1>2, <1>4, <1>5 DEF StoreInv, StoredWhole, lwipVars
<1>12. NoPartialLeft'
  BY <1>1, <1>2, <1>5 DEF StoreInv, NoPartialLeft
<1> QED
  BY <1>7, <1>8, <1>9, <1>10, <1>11, <1>12 DEF IInv, StoreInv

\* The .partial file is deleted; if that fails, the failure is noted.
LEMMA BodyEofInv == ASSUME IInv, BodyEof PROVE IInv'
<1>1. /\ TypeOK /\ SlotsInv /\ CallInv /\ QueueInv /\ HeadsInv /\ StoreInv
      /\ pc = "body" /\ pc' = "drop" /\ Receive
  BY DEF IInv, BodyEof
<1>2. UNCHANGED <<lwipVars, queue, pcb, serving, file, need, announced, toSend>>
  BY DEF BodyEof
<1>3. file \in Conn /\ drive[file].ext = "partial"
  BY <1>1 DEF StoreInv, FileInv, TypeOK
<1>4. /\ drive' \in [Conn -> [ext : {"none", "partial", "gcode"}, len : 0..MaxSize]]
      /\ drive'[file].ext \in {"none", "partial"}
      /\ \A d \in Conn : d # file => drive'[d] = drive[d]
      /\ ignored' \in {ignored, ignored \cup {"disk"}}
      /\ "disk" \notin ignored' => drive'[file].ext = "none"
  <2>1. Absent \in [ext : {"none", "partial", "gcode"}, len : 0..MaxSize] /\ Absent.ext = "none"
    BY Caps DEF Absent
  <2> HIDE DEF Absent
  <2>2. CASE drive' = [drive EXCEPT ![file] = Absent] /\ UNCHANGED ignored
    BY <1>1, <1>3, <2>1, <2>2 DEF TypeOK
  <2>3. CASE ignored' = ignored \cup {"disk"} /\ UNCHANGED drive
    BY <1>1, <1>3, <2>3 DEF TypeOK
  <2> QED
    BY <2>2, <2>3 DEF BodyEof
<1>5. TypeOK'
  BY <1>1, <1>2, <1>4, ReceiveTypes DEF TypeOK, lwipVars
<1>6. SlotsInv' /\ CallInv' /\ QueueInv'
  BY <1>1, <1>2, <1>4, HandlerKept
<1>7. HeadsInv'
  <2>1. \A d \in Conn : drive[d].ext = "none" =>
           \/ drive'[d].ext = "none"
           \/ IsHead(Head(chan)) /\ Head(chan).head = d
    BY <1>3, <1>4
  <2> QED
    BY <1>1, <1>2, <2>1, ReceiveHeads DEF lwipVars
<1>8. FileInv'
  BY <1>1, <1>2, <1>4 DEF StoreInv, FileInv, lwipVars
<1>9. StoredWhole'
  BY <1>1, <1>2, <1>3, <1>4 DEF StoreInv, StoredWhole, lwipVars
<1>10. NoPartialLeft'
  BY <1>1, <1>2, <1>4 DEF StoreInv, NoPartialLeft
<1> QED
  BY <1>5, <1>6, <1>7, <1>8, <1>9, <1>10 DEF IInv, StoreInv

\* The file is renamed; if that fails, the failure is noted.
LEMMA StoreInvKept == ASSUME IInv, Store PROVE IInv'
<1>1. /\ TypeOK /\ SlotsInv /\ CallInv /\ QueueInv /\ HeadsInv /\ StoreInv
      /\ pc = "store" /\ pc' = "stored"
  BY DEF IInv, Store
<1>2. UNCHANGED <<lwipVars, queue, pcb, serving, chan, file, need, announced, toSend>>
  BY DEF Store
<1>3. file \in Conn /\ drive[file].ext = "partial" /\ sent[file] > 0
  BY <1>1 DEF StoreInv, FileInv, TypeOK
<1>4. /\ drive' \in [Conn -> [ext : {"none", "partial", "gcode"}, len : 0..MaxSize]]
      /\ drive'[file].ext # "none"
      /\ drive'[file].len = drive[file].len
      /\ \A d \in Conn : d # file => drive'[d] = drive[d]
      /\ ignored' \in {ignored, ignored \cup {"disk"}}
      /\ "disk" \notin ignored' => drive'[file].ext = "gcode"
  <2>1. CASE drive' = [drive EXCEPT ![file].ext = "gcode"] /\ UNCHANGED ignored
    BY <1>1, <1>3, <2>1 DEF TypeOK
  <2>2. CASE ignored' = ignored \cup {"disk"} /\ UNCHANGED drive
    BY <1>1, <1>3, <2>2 DEF TypeOK
  <2> QED
    BY <2>1, <2>2 DEF Store
<1>5. TypeOK'
  BY <1>1, <1>2, <1>4 DEF TypeOK, lwipVars
<1>6. SlotsInv' /\ CallInv' /\ QueueInv'
  BY <1>1, <1>2, <1>4, HandlerKept
<1>7. HeadsInv'
  BY <1>1, <1>2, <1>3, <1>4, HeadsKept DEF lwipVars
<1>8. FileInv'
  BY <1>1, <1>2, <1>3, <1>4 DEF StoreInv, FileInv, lwipVars
<1>9. StoredWhole'
  <2>1. "disk" \notin ignored' => drive[file].len = req[file].size
    BY <1>1, <1>4 DEF StoreInv, FileInv
  <2> QED
    BY <1>1, <1>2, <1>3, <1>4, <2>1 DEF StoreInv, StoredWhole, lwipVars
<1>10. NoPartialLeft'
  BY <1>1, <1>2, <1>4 DEF StoreInv, NoPartialLeft
<1> QED
  BY <1>5, <1>6, <1>7, <1>8, <1>9, <1>10 DEF IInv, StoreInv

LEMMA AnnounceInv == ASSUME IInv, Announce PROVE IInv'
<1>1. /\ TypeOK /\ SlotsInv /\ CallInv /\ QueueInv /\ HeadsInv /\ StoreInv
      /\ pc = "stored" /\ pc' = "drop"
      /\ announced' \in {announced, announced \cup {file}}
      /\ \/ UNCHANGED toSend
         \/ Len(toSend) < DistCap /\ toSend' = Append(toSend, file)
  BY DEF IInv, Announce
<1>2. UNCHANGED <<lwipVars, queue, pcb, serving, chan, file, need, drive, ignored>>
  BY DEF Announce
<1>3. file \in Conn /\ ("disk" \notin ignored => drive[file].ext = "gcode")
  BY <1>1 DEF StoreInv, FileInv, TypeOK
<1>4. toSend' \in Seq(Conn) /\ Len(toSend') <= DistCap
  <2>1. toSend \in Seq(Conn) /\ Len(toSend) \in Nat /\ Len(toSend) <= DistCap
    BY <1>1, LenProperties DEF TypeOK
  <2>2. Append(toSend, file) \in Seq(Conn) /\ Len(Append(toSend, file)) = Len(toSend) + 1
    BY <1>3, <2>1, AppendOf
  <2> QED
    BY <1>1, <2>1, <2>2, Caps
<1>5. TypeOK'
  BY <1>1, <1>2, <1>3, <1>4 DEF TypeOK, lwipVars
<1>6. SlotsInv' /\ CallInv' /\ QueueInv'
  BY <1>1, <1>2, HandlerKept
<1>7. HeadsInv'
  BY <1>1, <1>2, HeadsKept DEF lwipVars
<1>8. FileInv' /\ NoPartialLeft'
  BY <1>1, <1>2 DEF StoreInv, FileInv, NoPartialLeft, lwipVars
<1>9. StoredWhole'
  BY <1>1, <1>2, <1>3 DEF StoreInv, StoredWhole, lwipVars
<1> QED
  BY <1>5, <1>6, <1>7, <1>8, <1>9 DEF IInv, StoreInv

LEMMA RepliedInv == ASSUME IInv, Replied PROVE IInv'
<1>1. /\ TypeOK /\ SlotsInv /\ CallInv /\ QueueInv /\ HeadsInv /\ StoreInv
      /\ pc = "reply" /\ pc' = "drop"
  BY DEF IInv, Replied
<1>2. UNCHANGED <<lwipVars, queue, pcb, serving, chan, jobVars, ignored>>
  BY DEF Replied
<1>3. TypeOK'
  BY <1>1, <1>2 DEF TypeOK, lwipVars, jobVars
<1>4. SlotsInv' /\ CallInv' /\ QueueInv'
  BY <1>1, <1>2, HandlerKept
<1>5. HeadsInv'
  BY <1>1, <1>2, HeadsKept DEF lwipVars, jobVars
<1>6. StoreInv'
  BY <1>1, <1>2, StoreIdle DEF lwipVars, jobVars
<1> QED
  BY <1>3, <1>4, <1>5, <1>6 DEF IInv

\* Dropping the TcpConnection clears the callbacks before anything else can
\* happen, and throws away what is in its channel.
LEMMA DropInv == ASSUME IInv, Drop PROVE IInv'
<1> USE NoneAssumption
<1>1. /\ TypeOK /\ SlotsInv /\ CallInv /\ QueueInv /\ HeadsInv /\ StoreInv
      /\ pc = "drop" /\ pc' = "accept" /\ pcb' = None /\ serving' = None
      /\ chan' = <<>> /\ file' = None /\ need' = 0
  BY DEF IInv, Drop
<1>2. UNCHANGED <<req, peer, sent, queue, drive, announced, toSend, ignored>>
  BY DEF Drop
<1>3. \/ pcb = None /\ UNCHANGED <<pool, callback, held>>
      \/ pcb # None /\ pcb \in Slot /\ Free(pcb)
  BY <1>1 DEF Drop, Close, TypeOK
<1>4. TypeOK'
  <2>1. /\ pool' \in [Slot -> Conn \cup {None}]
        /\ callback' \in [Slot -> {"none", "hold", "conn"}]
        /\ held' \in [Slot -> Packet \cup {None}]
    <3>1. CASE pcb = None /\ UNCHANGED <<pool, callback, held>>
      BY <1>1, <3>1 DEF TypeOK
    <3>2. CASE pcb # None /\ pcb \in Slot /\ Free(pcb)
      BY <1>1, <3>2, FreeKeeps
    <3> QED
      BY <1>3, <3>1, <3>2
  <2>2. chan' \in Seq(Packet \cup {Eof}) /\ Len(chan') <= ChanCap
    BY <1>1, EmptySeq, Caps
  <2>3. /\ pcb' \in Slot \cup {None} /\ serving' \in Conn \cup {None}
        /\ file' \in Conn \cup {None} /\ need' \in 0..MaxSize
    BY <1>1, Caps
  <2> QED
    BY <1>1, <1>2, <2>1, <2>2, <2>3 DEF TypeOK
<1>5. SlotsInv'
  <2>1. CASE pcb = None /\ UNCHANGED <<pool, callback, held>>
    BY <1>1, <1>2, <2>1, SlotsKept
  <2>2. CASE pcb # None /\ pcb \in Slot /\ Free(pcb)
    BY <1>1, <1>2, <2>2, FreeSlots
  <2> QED
    BY <1>3, <2>1, <2>2
<1>6. CallInv'
  <2>1. \A s \in Slot : callback'[s] # "conn"
    <3>1. CASE pcb = None /\ UNCHANGED <<pool, callback, held>>
      BY <1>1, <3>1 DEF CallInv, ArgIsAlive
    <3>2. CASE pcb # None /\ pcb \in Slot /\ Free(pcb)
      BY <1>1, <3>2, FreeKeeps DEF CallInv, ArgIsAlive
    <3> QED
      BY <1>3, <3>1, <3>2
  <2> QED
    BY <1>1, <2>1 DEF CallInv, WorkerInv, ArgIsAlive
<1>7. OnceInv'
  <2>1. \A i \in DOMAIN queue : queue[i].conn \in Conn
    BY <1>1, QueueElements
  <2> QED
    BY <1>1, <1>2, <2>1 DEF QueueInv, OnceInv
<1>8. QueueHolds' /\ PointersAreLive'
  <2> SUFFICES ASSUME "eof" \notin ignored PROVE QueueHolds' /\ PointersAreLive'
    BY <1>2 DEF QueueHolds, PointersAreLive
  <2>1. \A i \in DOMAIN queue : /\ pool'[queue[i].pcb] = pool[queue[i].pcb]
                                /\ callback'[queue[i].pcb] = callback[queue[i].pcb]
    <3>1. CASE pcb = None /\ UNCHANGED <<pool, callback, held>>
      BY <3>1
    <3>2. CASE pcb # None /\ pcb \in Slot /\ Free(pcb)
      <4>1. \A i \in DOMAIN queue : queue[i].pcb \in Slot /\ queue[i].pcb # pcb
        BY <1>1, <3>2, QueueApart, QueueElements
      <4> QED
        BY <1>1, <3>2, <4>1, FreeKeeps
    <3> QED
      BY <1>3, <3>1, <3>2
  <2> QED
    BY <1>1, <1>2, <2>1 DEF QueueInv, QueueHolds, PointersAreLive
<1>9. HeadsInv'
  <2>1. DOMAIN chan' = {}
    BY <1>1
  <2>2. CASE pcb = None /\ UNCHANGED <<pool, callback, held>>
    BY <1>1, <1>2, <2>1, <2>2, HeadsKept
  <2>3. CASE pcb # None /\ pcb \in Slot /\ Free(pcb)
    BY <1>1, <1>2, <2>1, <2>3, FreeHeads
  <2> QED
    BY <1>3, <2>2, <2>3
<1>10. StoreInv'
  BY <1>1, <1>2, StoreIdle
<1> QED
  BY <1>4, <1>5, <1>6, <1>7, <1>8, <1>9, <1>10 DEF IInv, QueueInv

LEMMA DistributeInv == ASSUME IInv, Distribute PROVE IInv'
<1>1. TypeOK /\ SlotsInv /\ CallInv /\ QueueInv /\ HeadsInv /\ StoreInv
  BY DEF IInv
<1>2. UNCHANGED <<lwipVars, queue, pc, pcb, serving, chan, file, need, drive, announced, ignored>>
  BY DEF Distribute
<1>3. toSend' \in Seq(Conn) /\ Len(toSend') <= DistCap
  <2>1. toSend \in Seq(Conn) /\ Len(toSend) \in Nat /\ Len(toSend) <= DistCap
    BY <1>1, LenProperties DEF TypeOK
  <2>2. toSend' \in Seq(Conn) /\ Len(toSend') = Len(toSend) - 1
    BY <2>1, TailOf DEF Distribute
  <2> QED
    BY <2>1, <2>2, Caps
<1>4. TypeOK'
  BY <1>1, <1>2, <1>3 DEF TypeOK, lwipVars
<1>5. SlotsInv' /\ QueueInv'
  BY <1>1, <1>2, SlotsKept, QueueKept DEF lwipVars
<1>6. CallInv'
  BY <1>1, <1>2 DEF CallInv, WorkerInv, ArgIsAlive, lwipVars
<1>7. HeadsInv'
  BY <1>1, <1>2, HeadsKept DEF lwipVars
<1>8. StoreInv'
  BY <1>1, <1>2, StoreKept DEF lwipVars
<1> QED
  BY <1>4, <1>5, <1>6, <1>7, <1>8 DEF IInv

LEMMA NextInv == IInv /\ [Next]_vars => IInv'
<1> SUFFICES ASSUME IInv, [Next]_vars PROVE IInv'
  OBVIOUS
<1>1. CASE UNCHANGED vars
  <2>1. TypeOK /\ SlotsInv /\ CallInv /\ QueueInv /\ HeadsInv /\ StoreInv
    BY DEF IInv
  <2>2. TypeOK' /\ CallInv'
    BY <1>1, <2>1 DEF TypeOK, CallInv, WorkerInv, ArgIsAlive, vars, lwipVars, jobVars
  <2>3. SlotsInv' /\ QueueInv'
    BY <1>1, <2>1, SlotsKept, QueueKept DEF vars, lwipVars
  <2>4. HeadsInv'
    BY <1>1, <2>1, HeadsKept DEF vars, lwipVars, jobVars
  <2>5. StoreInv'
    BY <1>1, <2>1, StoreKept DEF vars, lwipVars, jobVars
  <2> QED
    BY <2>2, <2>3, <2>4, <2>5 DEF IInv
<1>2. CASE Lwip
  BY <1>2, ArriveInv, RetryInv, FinInv, ResetInv, AcceptInv DEF Lwip
<1>3. CASE TcpWorker
  <2>1. CASE HandleConn
    BY <2>1, FirstDoneInv, FirstStoredInv, BodyInv, BodyEofInv, StoreInvKept,
       AnnounceInv, RepliedInv DEF HandleConn
  <2> QED
    BY <1>3, <2>1, TakeInv, AttachInv, AttachFailsInv, DropInv DEF TcpWorker
<1> QED
  BY <1>1, <1>2, <1>3, DistributeInv DEF Next

LEMMA Invariance == Spec => []IInv
  BY InitInv, NextInv, PTL DEF Spec

-----------------------------------------------------------------------------
(* The results.                                                            *)

\* Every variable keeps to its type; in particular no channel holds more than
\* its capacity and no file more than the largest Content-Length
\* (lwip/tcp.rs 79-119, 283-321; tasks/tcp.rs 59-153).
THEOREM TypeCorrect == Spec => []TypeOK
<1>1. IInv => TypeOK
  BY DEF IInv
<1> QED
  BY <1>1, Invariance, PTL

\* No callback of lwIP reaches a TcpConnection that does not exist any more,
\* however accepting, resetting, attaching and dropping interleave
\* (lwip/tcp.rs 196-224, 350-387).
THEOREM CallbacksAlive == Spec => []ArgIsAlive
<1>1. IInv => ArgIsAlive
  BY DEF IInv, CallInv
<1> QED
  BY <1>1, Invariance, PTL

\* As long as every end of a stream had somebody to be told, a pcb pointer in
\* the queue or in a TcpConnection names the connection it was accepted for,
\* although lwIP uses a freed pcb again (lwip/tcp.rs 226-246, 323-338, 350-387).
THEOREM PointersLive == Spec => []PointersAreLive
<1>1. IInv => PointersAreLive
  BY DEF IInv, QueueInv
<1> QED
  BY <1>1, Invariance, PTL

\* Unless the drive fails, a file that is renamed to .gcode or announced holds
\* exactly the bytes of its Content-Length, for every way the stream is cut
\* into packets (tasks/tcp.rs 98-153).
THEOREM FilesWhole == Spec => []StoredWhole
<1>1. IInv => StoredWhole
  BY DEF IInv, StoreInv
<1> QED
  BY <1>1, Invariance, PTL

\* Unless the drive fails, a .partial file exists only while its upload is in
\* hand (tasks/tcp.rs 118-142).
THEOREM PartialsRemoved == Spec => []NoPartialLeft
<1>1. IInv => NoPartialLeft
  BY DEF IInv, StoreInv
<1> QED
  BY <1>1, Invariance, PTL

=============================================================================
