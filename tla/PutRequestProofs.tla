-------------------------- MODULE PutRequestProofs --------------------------
(***************************************************************************)
(* The request of a PutRequest goes out byte by byte in order, its         *)
(* callbacks always find their request, and distribute_file implements     *)
(* Distribution, for every number of machines and of pcbs, every size of   *)
(* the file and of the buffers and every combination of failures.          *)
(***************************************************************************)
EXTENDS PutRequest, SequenceTheorems, TLAPS

-----------------------------------------------------------------------------
(* Runs of bytes.                                                          *)

\* q holds the bytes of the request after the a-th, up to the b-th.
IsRun(q, a, b) ==
    /\ q \in Seq(1..Total)
    /\ Len(q) = b - a
    /\ \A i \in 1..Len(q) : q[i] = a + i

LEMMA Sizes ==
    /\ HeadLen \in Nat /\ HeadLen > 0
    /\ FileLen \in Nat /\ FileLen > 0
    /\ BufCap \in Nat /\ BufCap > 0
    /\ SndCap \in Nat /\ SndCap > 0
    /\ HeadLen <= BufCap
    /\ Total \in Nat
    /\ Total = HeadLen + FileLen
  BY SizeAssumption DEF Total

LEMMA StreamIsRun ==
    /\ Stream \in Seq(1..Total)
    /\ Len(Stream) = Total
    /\ \A i \in 1..Total : Stream[i] = i
<1>1. Stream \in [1..Total -> 1..Total]
  BY DEF Stream
<1>2. Stream \in Seq(1..Total) /\ Len(Stream) = Total
  BY <1>1, Sizes
<1> QED
  BY <1>2 DEF Stream

\* A piece cut out of the request is a run.
LEMMA RunOfStream ==
    ASSUME NEW a \in 0..Total, NEW b \in a..Total
    PROVE  IsRun(SubSeq(Stream, a + 1, b), a, b)
<1> DEFINE q == SubSeq(Stream, a + 1, b)
<1>1. \A i \in (a + 1)..b : Stream[i] \in 1..Total /\ Stream[i] = i
  BY StreamIsRun, Sizes
<1>2. /\ q \in Seq(1..Total)
      /\ Len(q) = IF a + 1 <= b THEN b - (a + 1) + 1 ELSE 0
      /\ \A i \in 1..(b - (a + 1) + 1) : q[i] = Stream[(a + 1) + i - 1]
  BY <1>1, SubSeqProperties, Sizes
<1>3. Len(q) = b - a
  BY <1>2, Sizes
<1>4. \A i \in 1..Len(q) : q[i] = a + i
  BY <1>1, <1>2, <1>3, Sizes
<1> QED
  BY <1>2, <1>3, <1>4 DEF IsRun

\* Two adjacent runs make one.
LEMMA RunConcat ==
    ASSUME NEW a \in Nat, NEW b \in Nat, NEW c \in Nat, NEW q, NEW r,
           IsRun(q, a, b), IsRun(r, b, c)
    PROVE  IsRun(q \o r, a, c)
<1>1. /\ q \in Seq(1..Total) /\ Len(q) = b - a /\ Len(q) \in Nat
      /\ r \in Seq(1..Total) /\ Len(r) = c - b /\ Len(r) \in Nat
  BY LenProperties DEF IsRun
<1>2. q \o r \in Seq(1..Total) /\ Len(q \o r) = Len(q) + Len(r)
  BY <1>1, ConcatProperties
<1>3. ASSUME NEW i \in 1..Len(q \o r) PROVE (q \o r)[i] = a + i
  <2>1. (q \o r)[i] = IF i <= Len(q) THEN q[i] ELSE r[i - Len(q)]
    BY <1>1, <1>2, ConcatProperties
  <2>2. CASE i <= Len(q)
    BY <2>1, <2>2, <1>1 DEF IsRun
  <2>3. CASE i > Len(q)
    <3>1. i - Len(q) \in 1..Len(r)
      BY <2>3, <1>1, <1>2
    <3>2. r[i - Len(q)] = b + (i - Len(q))
      BY <3>1 DEF IsRun
    <3> QED
      BY <2>1, <2>3, <3>2, <1>1
  <2> QED
    BY <2>2, <2>3, <1>1
<1> QED
  BY <1>1, <1>2, <1>3 DEF IsRun

\* A run may be cut anywhere.
LEMMA RunSplit ==
    ASSUME NEW a \in Nat, NEW b \in Nat, NEW q, IsRun(q, a, b),
           NEW k \in 0..Len(q)
    PROVE  /\ IsRun(SubSeq(q, 1, k), a, a + k)
           /\ IsRun(SubSeq(q, k + 1, Len(q)), a + k, b)
<1>1. q \in Seq(1..Total) /\ Len(q) = b - a /\ Len(q) \in Nat
  BY LenProperties DEF IsRun
<1>2. \A i \in 1..Len(q) : q[i] \in 1..Total
  BY <1>1, ElementOfSeq
<1>3. ASSUME NEW m \in 1..(Len(q) + 1), NEW n \in (m - 1)..Len(q)
      PROVE  IsRun(SubSeq(q, m, n), a + m - 1, a + n)
  <2> DEFINE p == SubSeq(q, m, n)
  <2>1. \A i \in m..n : q[i] \in 1..Total
    BY <1>1, <1>2
  <2>2. /\ p \in Seq(1..Total)
        /\ Len(p) = IF m <= n THEN n - m + 1 ELSE 0
        /\ \A i \in 1..(n - m + 1) : p[i] = q[m + i - 1]
    BY <2>1, <1>1, SubSeqProperties
  <2>3. Len(p) = n - m + 1
    BY <2>2, <1>1
  <2>4. ASSUME NEW i \in 1..Len(p) PROVE p[i] = a + m - 1 + i
    <3>1. m + i - 1 \in 1..Len(q)
      BY <2>3, <1>1
    <3>2. q[m + i - 1] = a + (m + i - 1)
      BY <3>1 DEF IsRun
    <3> QED
      BY <2>2, <2>3, <3>2, <1>1
  <2> QED
    BY <2>2, <2>3, <2>4, <1>1 DEF IsRun
<1>4. IsRun(SubSeq(q, 1, k), a + 1 - 1, a + k)
  BY <1>3, <1>1
<1>5. IsRun(SubSeq(q, k + 1, Len(q)), a + (k + 1) - 1, a + Len(q))
  BY <1>3, <1>1
<1> QED
  BY <1>4, <1>5, <1>1, a + 1 - 1 = a, a + (k + 1) - 1 = a + k, a + Len(q) = b

\* A run from the beginning is a prefix of the request.
LEMMA RunIsPrefix ==
    ASSUME NEW b \in 0..Total, NEW q, IsRun(q, 0, b)
    PROVE  q = SubSeq(Stream, 1, b)
<1> DEFINE p == SubSeq(Stream, 1, b)
<1>1. IsRun(p, 0, b)
  BY RunOfStream, Sizes, 0 + 1 = 1
<1>2. /\ q \in Seq(1..Total) /\ p \in Seq(1..Total)
      /\ Len(q) = Len(p)
      /\ \A i \in 1..Len(q) : q[i] = p[i]
  BY <1>1, Sizes DEF IsRun
<1> QED
  BY <1>2, SeqEqual

-----------------------------------------------------------------------------
(* The inductive invariant.                                                *)

\* Where distribute_file is, the request it has in hand and the machine that
\* is being tried go together.
ControlInv ==
    /\ pc = "next" <=> cur = None
    /\ \A p \in Peer : outcome[p] = "trying" <=> p = cur
    /\ pc \in {"next", "connect"} => pcb = None
    /\ pc = "connect" => fpos = 0

\* A pcb that is kept is that of a connection lwIP may call back for.
PcbIsUsed == pcb # None => slot[pcb].state \in {"syn", "open"}

\* Success is signalled, or returned, only after an answer.
OkIsAnswered ==
    pc # "next" /\ (signal = "ok" \/ pc = "ok") => cur \in answered

\* Nothing has been sent on a connection that is being opened, and what was
\* sent on an open one, with what is staged, is the beginning of the request.
BytesInv ==
    pcb # None =>
        /\ slot[pcb].state = "syn" => wire = <<>> /\ acked = 0 /\ fpos = 0
        /\ slot[pcb].state = "open" =>
              /\ IsRun(wire, 0, Len(wire))
              /\ IsRun(buf, Len(wire), HeadLen + fpos)

IInv ==
    /\ TypeOK
    /\ ControlInv
    /\ ConnectionsOwned
    /\ PcbIsUsed
    /\ OkIsAnswered
    /\ BytesInv
    /\ KeepsSending

\* What tcp_write and the read before it do to a run of staged bytes.
LEMMA TcpWriteKeeps ==
    ASSUME NEW a \in Nat, NEW b \in Nat, NEW full, NEW k \in Int,
           IsRun(wire, 0, a), IsRun(full, a, b), k <= Len(full),
           TcpWrite(full, k)
    PROVE  /\ k >= 0
           /\ Len(wire') \in Nat
           /\ IsRun(wire', 0, Len(wire'))
           /\ IsRun(buf', Len(wire'), b)
           /\ Len(wire) <= Len(wire')
           /\ Len(buf') <= Len(full)
           /\ signal' \in {signal, "err"}
<1>1. /\ wire \in Seq(1..Total) /\ Len(wire) = a
      /\ full \in Seq(1..Total) /\ Len(full) = b - a /\ Len(full) \in Nat
  BY LenProperties DEF IsRun
<1>2. CASE k = 0 /\ buf' = full /\ UNCHANGED <<wire, signal>>
  BY <1>1, <1>2
<1>3. CASE k > 0 /\ buf' = full /\ UNCHANGED wire /\ signal' \in {signal, "err"}
  BY <1>1, <1>3
<1>4. CASE /\ k > 0
           /\ wire' = wire \o SubSeq(full, 1, k)
           /\ buf' = SubSeq(full, k + 1, Len(full))
           /\ UNCHANGED signal
  <2>1. k \in 0..Len(full)
    BY <1>1, <1>4
  <2>2. /\ IsRun(SubSeq(full, 1, k), a, a + k)
        /\ IsRun(buf', a + k, b)
    BY <2>1, <1>4, RunSplit
  <2>3. IsRun(wire', 0, a + k)
    BY <2>1, <2>2, <1>4, RunConcat
  <2>4. Len(wire') = a + k /\ Len(buf') = b - (a + k)
    BY <2>2, <2>3, <1>1, <2>1 DEF IsRun
  <2> QED
    BY <2>1, <2>2, <2>3, <2>4, <1>1, <1>4
<1> QED
  BY <1>2, <1>3, <1>4 DEF TcpWrite, Again

\* pump keeps the bytes in order, stays within its buffer, and leaves
\* something in flight unless all is sent or it notes that it has stalled.
LEMMA PumpKeeps ==
    ASSUME NEW b, NEW a \in Nat, NEW ack \in 0..a,
           fpos \in 0..FileLen, missed \subseteq {"stall", "signal"},
           IsRun(wire, 0, a), IsRun(b, a, HeadLen + fpos), Len(b) <= BufCap,
           Pump(b, ack)
    PROVE  /\ fpos' \in 0..FileLen
           /\ Len(wire') \in Nat
           /\ ack <= Len(wire')
           /\ IsRun(wire', 0, Len(wire'))
           /\ IsRun(buf', Len(wire'), HeadLen + fpos')
           /\ Len(buf') <= BufCap
           /\ signal' \in {signal, "err"}
           /\ missed' \subseteq {"stall", "signal"}
           /\ "stall" \notin missed' => Len(wire') = Total \/ ack < Len(wire')
<1>0. /\ Len(wire) = a /\ wire \in Seq(1..Total)
      /\ Len(b) = HeadLen + fpos - a /\ Len(b) \in Nat
  <2>1. Len(wire) = a - 0 /\ wire \in Seq(1..Total)
    BY DEF IsRun
  <2>2. Len(b) = HeadLen + fpos - a /\ b \in Seq(1..Total)
    BY Sizes DEF IsRun
  <2> QED
    BY <2>1, <2>2, LenProperties
<1> DEFINE want == Least(Free(b), FileLen - fpos)
<1> DEFINE piece(n) == SubSeq(Stream, HeadLen + fpos + 1, HeadLen + fpos + n)
<1> DEFINE size(n) == ToSend(b, b \o piece(n), SndCap - (Len(wire) - ack))
<1>1. PICK n \in ReadFile(want) :
          /\ fpos' = fpos + n
          /\ TcpWrite(b \o piece(n), size(n))
          /\ missed' = IF Len(wire') = ack /\ (n < want \/ size(n) > 0)
                       THEN missed \cup {"stall"}
                       ELSE missed
  BY DEF Pump
<1> DEFINE full == b \o piece(n)
<1> DEFINE k == size(n)
<1>3. want \in Nat /\ want <= BufCap - Len(b) /\ want <= FileLen - fpos
      /\ (want = BufCap - Len(b) \/ want = FileLen - fpos)
  BY <1>0, Sizes DEF Least, Free
<1>4. n \in 0..want
  BY <1>3 DEF ReadFile
<1>5. fpos' \in 0..FileLen /\ fpos' = fpos + n /\ n \in Nat
  BY <1>1, <1>3, <1>4, Sizes
<1>6. IsRun(piece(n), HeadLen + fpos, HeadLen + fpos')
  <2>1. HeadLen + fpos \in 0..Total /\ HeadLen + fpos + n \in (HeadLen + fpos)..Total
    BY <1>3, <1>4, <1>5, Sizes
  <2> QED
    BY <2>1, <1>5, RunOfStream, Sizes, HeadLen + fpos' = HeadLen + fpos + n
<1>7. IsRun(full, a, HeadLen + fpos')
  BY <1>5, <1>6, RunConcat, Sizes
<1>8. Len(full) = HeadLen + fpos' - a /\ Len(full) = Len(b) + n /\ Len(full) \in Nat
  BY <1>0, <1>5, <1>7, Sizes DEF IsRun
<1>9. /\ k \in Int /\ k <= Len(full)
      /\ k = Len(full) \/ k = SndCap - (a - ack)
  <2>1. k = Least(Len(full), SndCap - (Len(wire) - ack))
    BY DEF ToSend
  <2> HIDE DEF full, k
  <2> QED
    BY <2>1, <1>0, <1>8, Sizes DEF Least
<1>10. /\ k >= 0
       /\ Len(wire') \in Nat
       /\ IsRun(wire', 0, Len(wire'))
       /\ IsRun(buf', Len(wire'), HeadLen + fpos')
       /\ a <= Len(wire')
       /\ Len(buf') <= Len(full)
       /\ signal' \in {signal, "err"}
  <2>1. HeadLen + fpos' \in Nat
    BY <1>5, Sizes
  <2> HIDE DEF full, k
  <2>2. TcpWrite(full, k)
    BY <1>1 DEF full, k
  <2> QED
    BY <2>1, <2>2, <1>0, <1>7, <1>9, TcpWriteKeeps
<1>11. Len(buf') <= BufCap
  <2>1. Len(buf') \in Nat
    BY <1>10, LenProperties DEF IsRun
  <2> HIDE DEF want, full
  <2> QED
    BY <2>1, <1>0, <1>3, <1>4, <1>8, <1>10, Sizes
<1>12. ASSUME "stall" \notin missed', Len(wire') = ack PROVE Len(wire') = Total
  <2>0. ~ (n < want \/ k > 0)
    BY <1>1, <1>12
  <2> HIDE DEF want, full, k
  <2>1. n = want /\ k = 0
    BY <2>0, <1>3, <1>4, <1>9, <1>10
  <2>2. a = ack
    BY <1>10, <1>12
  <2>3. Len(full) = 0
    BY <2>1, <2>2, <1>9, Sizes
  <2>4. Len(b) = 0 /\ want = 0
    BY <2>1, <2>3, <1>0, <1>4, <1>8
  <2>5. FileLen = fpos
    BY <2>4, <1>3, Sizes
  <2> QED
    BY <2>2, <2>4, <2>5, <1>0, <1>12, Sizes
<1>13. missed' \subseteq {"stall", "signal"}
  BY <1>1
<1> QED
  BY <1>5, <1>10, <1>11, <1>12, <1>13

-----------------------------------------------------------------------------
(* The invariant is inductive: one lemma for each action.                  *)

LEMMA InitInv == Init => IInv
<1> SUFFICES ASSUME Init PROVE IInv
  OBVIOUS
<1>1. TypeOK
  BY Sizes, EmptySeq DEF Init, TypeOK
<1>2. ControlInv /\ ConnectionsOwned
  BY NoneAssumption DEF Init, ControlInv, ConnectionsOwned
<1> QED
  BY <1>1, <1>2 DEF Init, IInv, PcbIsUsed, OkIsAnswered, BytesInv, KeepsSending

\* New starts with a clean request: no pcb, no signal, the file at its start.
LEMMA NewInv == ASSUME IInv, NEW p \in Peer, New(p) PROVE IInv'
<1> USE NoneAssumption
<1>1. TypeOK'
  BY Sizes, EmptySeq DEF IInv, TypeOK, New, lwip
<1>2. ControlInv'
  BY DEF IInv, TypeOK, ControlInv, New, lwip
<1>3. ConnectionsOwned'
  BY DEF IInv, ConnectionsOwned, ControlInv, New, lwip
<1>4. OkIsAnswered'
  BY DEF OkIsAnswered, New
<1> QED
  BY <1>1, <1>2, <1>3, <1>4 DEF IInv, PcbIsUsed, BytesInv, KeepsSending, New

LEMMA ConnectInv == ASSUME IInv, NEW s \in Slot, Connect(s) PROVE IInv'
<1> USE NoneAssumption
<1>0. /\ wire' \in Seq(1..Total) /\ Len(wire') <= Total
      /\ acked' \in 0..Len(wire')
  BY Sizes, EmptySeq DEF Connect
<1>1. TypeOK'
  BY <1>0 DEF IInv, TypeOK, Connect
<1>2. ControlInv'
  BY DEF IInv, ControlInv, Connect
<1>3. ConnectionsOwned' /\ PcbIsUsed'
  BY DEF IInv, TypeOK, ControlInv, ConnectionsOwned, PcbIsUsed, Connect
<1>4. OkIsAnswered'
  BY DEF IInv, OkIsAnswered, Connect
<1>5. BytesInv' /\ KeepsSending'
  BY DEF IInv, TypeOK, ControlInv, BytesInv, KeepsSending, Connect
<1> QED
  BY <1>1, <1>2, <1>3, <1>4, <1>5 DEF IInv

\* A step that leaves the connection alone keeps what is said of it.
LEMMA ConnectionKept ==
    ASSUME IInv, UNCHANGED <<cur, pcb, buf, fpos, slot, wire, acked>>,
           missed \subseteq missed'
    PROVE  ConnectionsOwned' /\ PcbIsUsed' /\ BytesInv' /\ KeepsSending'
<1>1. ConnectionsOwned' /\ PcbIsUsed'
  BY DEF IInv, ConnectionsOwned, PcbIsUsed
<1>2. BytesInv'
  BY DEF IInv, BytesInv, IsRun
<1>3. KeepsSending'
  BY DEF IInv, KeepsSending
<1> QED
  BY <1>1, <1>2, <1>3

LEMMA ConnectFailsInv == ASSUME IInv, ConnectFails PROVE IInv'
<1>1. ConnectionsOwned' /\ PcbIsUsed' /\ BytesInv' /\ KeepsSending'
  BY ConnectionKept DEF ConnectFails, request, lwip
<1>2. TypeOK'
  BY DEF IInv, TypeOK, ConnectFails, request, lwip
<1>3. ControlInv'
  BY DEF IInv, ControlInv, ConnectFails, request
<1>4. OkIsAnswered'
  BY DEF IInv, OkIsAnswered, ConnectFails, request
<1> QED
  BY <1>1, <1>2, <1>3, <1>4 DEF IInv

\* A poll that takes "ok" out of the cell does so after an answer.
LEMMA PollTakeInv == ASSUME IInv, PollTake PROVE IInv'
<1>1. ConnectionsOwned' /\ PcbIsUsed' /\ BytesInv' /\ KeepsSending'
  BY ConnectionKept DEF PollTake, request, lwip
<1>2. TypeOK'
  BY DEF IInv, TypeOK, PollTake, request, lwip
<1>3. ControlInv'
  BY DEF IInv, ControlInv, PollTake, request
<1>4. OkIsAnswered'
  BY DEF IInv, OkIsAnswered, PollTake, Signalled, IsOk, request
<1> QED
  BY <1>1, <1>2, <1>3, <1>4 DEF IInv

LEMMA PollStoreInv == ASSUME IInv, PollStore PROVE IInv'
<1>1. ConnectionsOwned' /\ PcbIsUsed' /\ BytesInv' /\ KeepsSending'
  BY ConnectionKept DEF PollStore, request, lwip
<1>2. TypeOK'
  BY DEF IInv, TypeOK, PollStore, request, lwip
<1>3. ControlInv'
  BY DEF IInv, ControlInv, PollStore, request
<1>4. OkIsAnswered'
  BY DEF IInv, OkIsAnswered, PollStore, request
<1> QED
  BY <1>1, <1>2, <1>3, <1>4 DEF IInv

\* Dropping the request clears arg before the pcb is left to lwIP, so no
\* callback finds it later.
LEMMA ReturnInv == ASSUME IInv, Return PROVE IInv'
<1> USE NoneAssumption
<1>1. cur \in Peer
  BY DEF IInv, TypeOK, ControlInv, Return
<1>2. TypeOK'
  BY <1>1 DEF IInv, TypeOK, Return, Close
<1>3. ControlInv'
  BY <1>1 DEF IInv, TypeOK, ControlInv, Return
<1>4. ConnectionsOwned'
  BY DEF IInv, TypeOK, ConnectionsOwned, Return, Close
<1> QED
  BY <1>2, <1>3, <1>4 DEF IInv, PcbIsUsed, OkIsAnswered, BytesInv, KeepsSending, Return

\* A callback that still has its arg finds the request that made the pcb.
LEMMA CallbackOwner ==
    ASSUME IInv, NEW s \in Slot, slot[s].state \in {"syn", "open"}
    PROVE  /\ pcb = s /\ pcb # None
           /\ slot[s].arg = cur
           /\ cur \in Peer
           /\ outcome[cur] = "trying"
           /\ pc \notin {"next", "connect"}
<1>1. pcb = s /\ slot[s].arg = cur /\ pcb # None
  BY NoneAssumption DEF IInv, ConnectionsOwned
<1>2. pc \notin {"next", "connect"}
  BY <1>1 DEF IInv, ControlInv
<1> QED
  BY <1>1, <1>2 DEF IInv, ControlInv, TypeOK

\* The part of the type invariant that a step of pump touches.
LEMMA PumpTypes ==
    ASSUME IInv, fpos' \in 0..FileLen, Len(wire') \in Nat,
           IsRun(wire', 0, Len(wire')),
           IsRun(buf', Len(wire'), HeadLen + fpos')
    PROVE  /\ wire' \in Seq(1..Total) /\ Len(wire') <= Total
           /\ buf' \in Seq(1..Total)
<1>1. Len(buf') = HeadLen + fpos' - Len(wire') /\ Len(buf') \in Nat
  BY Sizes, LenProperties DEF IsRun
<1>2. Len(wire') <= Total
  BY <1>1, Sizes
<1> QED
  BY <1>2 DEF IsRun

\* _connected: the head and the first bytes of the file.
LEMMA ConnectedInv == ASSUME IInv, NEW s \in Slot, Connected(s) PROVE IInv'
<1> USE NoneAssumption
<1> DEFINE head == SubSeq(Stream, 1, HeadLen)
<1>1. pcb = s /\ pcb # None /\ pc \notin {"next", "connect"}
  BY CallbackOwner DEF Connected
<1>2. wire = <<>> /\ acked = 0 /\ fpos = 0
  BY <1>1 DEF IInv, BytesInv, Connected
<1>3. IsRun(wire, 0, 0)
  BY <1>2, EmptySeq DEF IsRun
<1>4. IsRun(head, 0, HeadLen + fpos)
  BY <1>2, RunOfStream, Sizes, 0 + 1 = 1
<1>5. Len(head) <= BufCap
  BY <1>2, <1>4, Sizes DEF IsRun
<1>6. fpos \in 0..FileLen /\ missed \subseteq {"stall", "signal"} /\ Pump(head, 0)
  BY DEF IInv, TypeOK, Connected
<1>7. /\ fpos' \in 0..FileLen
      /\ Len(wire') \in Nat
      /\ 0 <= Len(wire')
      /\ IsRun(wire', 0, Len(wire'))
      /\ IsRun(buf', Len(wire'), HeadLen + fpos')
      /\ Len(buf') <= BufCap
      /\ signal' \in {signal, "err"}
      /\ missed' \subseteq {"stall", "signal"}
      /\ "stall" \notin missed' => Len(wire') = Total \/ 0 < Len(wire')
  <2> HIDE DEF head
  <2> QED
    BY <1>3, <1>4, <1>5, <1>6, PumpKeeps, Sizes
<1>8. TypeOK'
  <2>1. wire' \in Seq(1..Total) /\ Len(wire') <= Total /\ buf' \in Seq(1..Total)
    BY <1>7, PumpTypes
  <2>2. acked' \in 0..Len(wire')
    BY <1>2, <1>7 DEF Connected
  <2>3. slot' \in [Slot -> [state : {"free", "syn", "open", "closing", "leaked"},
                            arg : Peer \cup {None}]]
    BY DEF IInv, TypeOK, Connected
  <2> QED
    BY <2>1, <2>2, <2>3, <1>7 DEF IInv, TypeOK, Connected
<1>9. ControlInv'
  BY <1>1 DEF IInv, ControlInv, Connected
<1>10. ConnectionsOwned' /\ PcbIsUsed'
  BY <1>1 DEF IInv, TypeOK, ConnectionsOwned, PcbIsUsed, Connected
<1>11. OkIsAnswered'
  BY <1>7 DEF IInv, OkIsAnswered, Connected
<1>12. BytesInv'
  BY <1>1, <1>7 DEF IInv, TypeOK, BytesInv, Connected
<1>13. KeepsSending'
  BY <1>2, <1>7 DEF KeepsSending, Connected
<1> QED
  BY <1>8, <1>9, <1>10, <1>11, <1>12, <1>13 DEF IInv

\* _sent: more of what is staged goes out.
LEMMA SentInv == ASSUME IInv, NEW s \in Slot, Sent(s) PROVE IInv'
<1> USE NoneAssumption
<1>1. pcb = s /\ pcb # None /\ pc \notin {"next", "connect"}
  BY CallbackOwner DEF Sent
<1>2. /\ IsRun(wire, 0, Len(wire))
      /\ IsRun(buf, Len(wire), HeadLen + fpos)
      /\ Len(wire) \in Nat
      /\ Len(buf) <= BufCap
      /\ fpos \in 0..FileLen
      /\ missed \subseteq {"stall", "signal"}
  <2>1. IsRun(wire, 0, Len(wire)) /\ IsRun(buf, Len(wire), HeadLen + fpos)
    BY <1>1 DEF IInv, BytesInv, Sent
  <2>2. wire \in Seq(1..Total) /\ Len(buf) <= BufCap /\ fpos \in 0..FileLen
        /\ missed \subseteq {"stall", "signal"}
    BY DEF IInv, TypeOK
  <2> QED
    BY <2>1, <2>2, LenProperties
<1>3. acked \in Nat
  BY <1>2 DEF IInv, TypeOK
<1>4. PICK ack \in acked + 1..Len(wire) : acked' = ack /\ Pump(buf, ack)
  BY DEF Sent
<1>5. ack \in 0..Len(wire)
  BY <1>2, <1>3, <1>4
<1>6. /\ fpos' \in 0..FileLen
      /\ Len(wire') \in Nat
      /\ ack <= Len(wire')
      /\ IsRun(wire', 0, Len(wire'))
      /\ IsRun(buf', Len(wire'), HeadLen + fpos')
      /\ Len(buf') <= BufCap
      /\ signal' \in {signal, "err"}
      /\ missed' \subseteq {"stall", "signal"}
      /\ "stall" \notin missed' => Len(wire') = Total \/ ack < Len(wire')
  BY <1>2, <1>4, <1>5, PumpKeeps
<1>7. TypeOK'
  <2>1. wire' \in Seq(1..Total) /\ Len(wire') <= Total /\ buf' \in Seq(1..Total)
    BY <1>6, PumpTypes
  <2>2. acked' \in 0..Len(wire')
    BY <1>4, <1>5, <1>6
  <2> QED
    BY <2>1, <2>2, <1>6 DEF IInv, TypeOK, Sent
<1>8. ControlInv'
  BY <1>1 DEF IInv, ControlInv, Sent
<1>9. ConnectionsOwned' /\ PcbIsUsed'
  BY DEF IInv, ConnectionsOwned, PcbIsUsed, Sent
<1>10. OkIsAnswered'
  BY <1>6 DEF IInv, OkIsAnswered, Sent
<1>11. BytesInv'
  BY <1>1, <1>6 DEF BytesInv, Sent
<1>12. KeepsSending'
  BY <1>4, <1>6 DEF KeepsSending
<1> QED
  BY <1>7, <1>8, <1>9, <1>10, <1>11, <1>12 DEF IInv

LEMMA AnswerInv == ASSUME IInv, NEW s \in Slot, Answer(s) PROVE IInv'
<1>1. slot[s].arg = cur /\ cur \in Peer
  BY CallbackOwner DEF Answer
<1>2. ConnectionsOwned' /\ PcbIsUsed' /\ BytesInv' /\ KeepsSending'
  BY ConnectionKept DEF Answer, request
<1>3. TypeOK'
  BY <1>1 DEF IInv, TypeOK, Answer, request
<1>4. ControlInv'
  BY DEF IInv, ControlInv, Answer, request
<1>5. OkIsAnswered'
  BY <1>1 DEF IInv, OkIsAnswered, Answer, request
<1> QED
  BY <1>2, <1>3, <1>4, <1>5 DEF IInv

LEMMA FinInv == ASSUME IInv, NEW s \in Slot, Fin(s) PROVE IInv'
<1>1. ConnectionsOwned' /\ PcbIsUsed' /\ BytesInv' /\ KeepsSending'
  BY ConnectionKept DEF Fin, request
<1>2. TypeOK'
  BY DEF IInv, TypeOK, Fin, request
<1>3. ControlInv'
  BY DEF IInv, ControlInv, Fin, request
<1>4. OkIsAnswered'
  BY DEF IInv, OkIsAnswered, Fin, request
<1> QED
  BY <1>1, <1>2, <1>3, <1>4 DEF IInv

\* _err clears the pointer: the request no longer names the pcb lwIP freed.
LEMMA ErrInv == ASSUME IInv, NEW s \in Slot, Err(s) PROVE IInv'
<1> USE NoneAssumption
<1>1. pcb = s
  BY CallbackOwner DEF Err
<1>2. TypeOK'
  BY DEF IInv, TypeOK, Err
<1>3. ControlInv'
  BY DEF IInv, ControlInv, Err
<1>4. ConnectionsOwned'
  BY <1>1 DEF IInv, TypeOK, ConnectionsOwned, Err
<1>5. OkIsAnswered'
  BY DEF IInv, OkIsAnswered, Err
<1> QED
  BY <1>2, <1>3, <1>4, <1>5 DEF IInv, PcbIsUsed, BytesInv, KeepsSending, Err

LEMMA FreedInv == ASSUME IInv, NEW s \in Slot, Freed(s) PROVE IInv'
<1> USE NoneAssumption
<1>1. pcb # None => pcb # s
  BY DEF IInv, PcbIsUsed, Freed
<1>2. TypeOK'
  BY DEF IInv, TypeOK, Freed, request
<1>3. pcb # None => slot'[pcb] = slot[pcb]
  BY <1>1 DEF IInv, TypeOK, Freed
<1>4. ControlInv'
  BY DEF IInv, ControlInv, Freed, request
<1>5. ConnectionsOwned' /\ PcbIsUsed'
  BY <1>3 DEF IInv, TypeOK, ConnectionsOwned, PcbIsUsed, Freed, request
<1>6. OkIsAnswered'
  BY DEF IInv, OkIsAnswered, Freed, request
<1>7. BytesInv'
  BY <1>3 DEF IInv, BytesInv, IsRun, Freed, request
<1>8. KeepsSending'
  BY <1>3 DEF IInv, KeepsSending, Freed, request
<1> QED
  BY <1>2, <1>4, <1>5, <1>6, <1>7, <1>8 DEF IInv

LEMMA NextInv == IInv /\ [Next]_vars => IInv'
<1> SUFFICES ASSUME IInv, [Next]_vars PROVE IInv'
  OBVIOUS
<1>1. CASE UNCHANGED vars
  <2>1. ConnectionsOwned' /\ PcbIsUsed' /\ BytesInv' /\ KeepsSending'
    BY <1>1, ConnectionKept DEF vars, request, lwip
  <2>2. TypeOK' /\ ControlInv' /\ OkIsAnswered'
    BY <1>1 DEF IInv, TypeOK, ControlInv, OkIsAnswered, vars, request, lwip
  <2> QED
    BY <2>1, <2>2 DEF IInv
<1>2. CASE DistributeFile
  BY <1>2, NewInv, ConnectInv, ConnectFailsInv, PollTakeInv, PollStoreInv, ReturnInv
     DEF DistributeFile
<1>3. ASSUME NEW s \in Slot, Callback(s) PROVE IInv'
  BY <1>3, ConnectedInv, SentInv, AnswerInv, FinInv, ErrInv, FreedInv DEF Callback
<1> QED
  BY <1>1, <1>2, <1>3 DEF Next

LEMMA Invariance == Spec => []IInv
  BY InitInv, NextInv, PTL DEF Spec

-----------------------------------------------------------------------------
(* The results.                                                            *)

\* Every variable keeps to its type; in particular neither the buffer nor the
\* position in the file runs over (lwip/put.rs 61-131).
THEOREM TypeCorrect == Spec => []TypeOK
<1>1. IInv => TypeOK
  BY DEF IInv
<1> QED
  BY <1>1, Invariance, PTL

\* A callback of lwIP finds the PutRequest that made its pcb, and none is left
\* registered when put_file returns (lwip/put.rs 135-168, 280-302).
THEOREM CallbacksOwned == Spec => []ConnectionsOwned
<1>1. IInv => ConnectionsOwned
  BY DEF IInv
<1> QED
  BY <1>1, Invariance, PTL

\* What is handed to lwIP, followed by what is staged, is the beginning of the
\* request, for every size of the buffers and every failure of the drive and
\* of tcp_write (lwip/put.rs 81-131).
THEOREM BytesInOrder == Spec => []StreamInOrder
<1>1. IInv => StreamInOrder
  <2> SUFFICES ASSUME IInv, pcb # None, slot[pcb].state = "open"
               PROVE  wire \o buf = SubSeq(Stream, 1, HeadLen + fpos)
    BY DEF StreamInOrder
  <2>1. /\ IsRun(wire, 0, Len(wire))
        /\ IsRun(buf, Len(wire), HeadLen + fpos)
    BY DEF IInv, BytesInv
  <2>2. Len(wire) \in Nat /\ fpos \in 0..FileLen
    BY LenProperties DEF IInv, TypeOK
  <2>3. HeadLen + fpos \in 0..Total
    BY <2>2, Sizes
  <2>4. IsRun(wire \o buf, 0, HeadLen + fpos)
    BY <2>1, <2>2, <2>3, RunConcat
  <2> QED
    BY <2>3, <2>4, RunIsPrefix
<1> QED
  BY <1>1, Invariance, PTL

\* While there is more to send, a _sent callback is still to come, unless the
\* drive or tcp_write failed when nothing was in flight
\* (lwip/put.rs 72-74, 114-131, 219-234).
THEOREM SendingGoesOn == Spec => []KeepsSending
<1>1. IInv => KeepsSending
  BY DEF IInv
<1> QED
  BY <1>1, Invariance, PTL

LEMMA InitRefines == Init => Promise!Init
  BY DEF Init, Promise!Init

\* Each step of distribute_file is a step of Distribution, or is not seen
\* there: a machine is tried by New, answers in Answer, is done in Return.
LEMMA StepRefines == IInv /\ [Next]_vars => [Promise!Next]_(Promise!vars)
<1> SUFFICES ASSUME IInv, [Next]_vars PROVE [Promise!Next]_(Promise!vars)
  OBVIOUS
<1> USE NoneAssumption
<1>1. ASSUME UNCHANGED <<outcome, answered>> PROVE [Promise!Next]_(Promise!vars)
  BY <1>1 DEF Promise!vars
<1>2. ASSUME NEW p \in Peer, New(p) PROVE Promise!Try(p)
  BY <1>2 DEF IInv, ControlInv, New, Promise!Try
<1>3. ASSUME NEW s \in Slot, Answer(s) PROVE Promise!Answer(cur)
  <2>1. slot[s].arg = cur /\ outcome[cur] = "trying"
    BY <1>3, CallbackOwner DEF Answer
  <2> QED
    BY <2>1, <1>3 DEF Answer, Promise!Answer
<1>4. ASSUME Return PROVE cur \in Peer /\ Promise!Finish(cur)
  <2>1. cur \in Peer /\ outcome[cur] = "trying"
    BY <1>4 DEF IInv, TypeOK, ControlInv, Return
  <2>2. pc = "ok" => cur \in answered
    BY DEF IInv, OkIsAnswered
  <2> QED
    BY <2>1, <2>2, <1>4 DEF Return, Promise!Finish
<1>5. ASSUME NEW s \in Slot, Answer(s) PROVE cur \in Peer
  BY <1>5, CallbackOwner DEF Answer
<1>6. CASE UNCHANGED vars
  BY <1>1, <1>6 DEF vars
<1>7. CASE DistributeFile
  <2>1. CASE ConnectFails \/ PollTake \/ PollStore \/ \E s \in Slot : Connect(s)
    BY <2>1, <1>1 DEF ConnectFails, PollTake, PollStore, Connect
  <2>2. CASE Return
    BY <2>2, <1>4 DEF Promise!Next
  <2>3. CASE \E p \in Peer : New(p)
    BY <2>3, <1>2 DEF Promise!Next
  <2> QED
    BY <1>7, <2>1, <2>2, <2>3 DEF DistributeFile
<1>8. ASSUME NEW s \in Slot, Callback(s) PROVE [Promise!Next]_(Promise!vars)
  <2>1. CASE Connected(s) \/ Sent(s) \/ Fin(s) \/ Err(s) \/ Freed(s)
    BY <2>1, <1>1 DEF Connected, Sent, Fin, Err, Freed
  <2>2. CASE Answer(s)
    BY <2>2, <1>3, <1>5 DEF Promise!Next
  <2> QED
    BY <1>8, <2>1, <2>2 DEF Callback
<1> QED
  BY <1>6, <1>7, <1>8 DEF Next

\* distribute_file implements Distribution: each machine is tried once, one at
\* a time, and Ok is returned only for a machine that answered in its own turn
\* (lwip/put.rs 25-31, 182-277; tasks/tcp.rs 275-296).
THEOREM DistributionImplemented == Spec => ImplementsDistribution
  BY InitRefines, StepRefines, Invariance, PTL DEF Spec, ImplementsDistribution, Promise!Spec

=============================================================================
