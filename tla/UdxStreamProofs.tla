-------------------------- MODULE UdxStreamProofs --------------------------
(***************************************************************************)
(* Proofs about UdxStream for every pair of endpoints, every set of write  *)
(* lengths, every MTU range and every bound.                               *)
(***************************************************************************)
EXTENDS UdxStream, TLAPS

\* There are two endpoints, and each is the peer of the other.
LEMMA PeerFacts ==
    ASSUME NEW e \in Endpoint
    PROVE  /\ Peer(e) \in Endpoint /\ Peer(e) # e /\ Peer(Peer(e)) = e
           /\ \A x \in Endpoint : x = e \/ x = Peer(e)
<1>1. PICK a, b \in Endpoint : a # b /\ Endpoint = {a, b}
  BY Zenon, EndpointAssumption
<1>2. \E x \in Endpoint : x # e
  BY <1>1
<1>3. Peer(e) \in Endpoint /\ Peer(e) # e
  BY Zenon, <1>2 DEF Peer
<1>4. \E x \in Endpoint : x # Peer(e)
  BY Zenon, <1>3
<1>5. Peer(Peer(e)) \in Endpoint /\ Peer(Peer(e)) # Peer(e)
  BY Zenon, <1>4 DEF Peer
<1> QED
  BY Zenon, <1>1, <1>3, <1>5

\* Multiplication is monotone in its first argument.
LEMMA TimesMonotone ==
    ASSUME NEW i \in Nat, NEW j \in Nat, NEW n \in Nat, i <= j
    PROVE  i * n \in Nat /\ i * n <= j * n
<1>1. PICK k \in Nat : j = i + k
  <2>1. j - i \in Nat /\ j = i + (j - i)
    OBVIOUS
  <2> QED
    BY Zenon, <2>1
<1>2. j * n = i * n + k * n /\ k * n \in Nat /\ i * n \in Nat
  BY <1>1
<1> QED
  BY <1>2

\* What CeilDiv computes.
LEMMA CeilDivFacts ==
    ASSUME NEW n \in Nat \ {0}, NEW d \in Nat \ {0}
    PROVE  /\ CeilDiv(n, d) \in Nat \ {0}
           /\ n <= CeilDiv(n, d) * d
           /\ (CeilDiv(n, d) - 1) * d < n
<1> DEFINE q == (n + d - 1) \div d
           r == (n + d - 1) % d
<1>1. q \in Nat /\ r \in 0..(d - 1) /\ n + d - 1 = d * q + r
  BY SMT
<1>2. q # 0
  BY <1>1, SMT
<1> QED
  BY <1>1, <1>2, SMT DEF CeilDiv

\* How a write is cut into chunks: with a size no smaller than the one that reserved
\* its sequence numbers it needs no more of them; the chunks lie end to end within the
\* write and the last one ends where the write ends.
LEMMA ChunkFacts ==
    ASSUME NEW w \in Prep, NEW size \in MtuBase..MtuMax, w.size <= size, w.from <= w.to,
           w.kind = "data" => w.count = ChunkCount(w.to - w.from, w.size),
           w.kind = "end" => w.count = 1,
           NEW n, n = IF w.kind = "end" THEN 1 ELSE ChunkCount(w.to - w.from, size),
           w.kind = "end" => w.from = w.to
    PROVE  /\ n \in Nat \ {0} /\ n <= w.count
           /\ \A i \in 0..(n - 1) :
                 /\ ChunkOf(w, size, i) \in Chunk /\ ChunkOf(w, size, i).kind = w.kind
                 /\ w.from <= ChunkOf(w, size, i).from
                 /\ ChunkOf(w, size, i).from <= ChunkOf(w, size, i).to
                 /\ ChunkOf(w, size, i).to <= w.to
                 /\ i + 1 = n => ChunkOf(w, size, i).to = w.to
                 /\ i + 1 < n => ChunkOf(w, size, i).to = w.from + (i + 1) * size
                 /\ ChunkOf(w, size, i).from = w.from + i * size
           /\ ChunkOf(w, size, 0).from = w.from
           /\ \A i, j \in 0..(n - 1) :
                 /\ i < j => ChunkOf(w, size, i).to <= ChunkOf(w, size, j).from
                 /\ i + 1 = j => ChunkOf(w, size, i).to = ChunkOf(w, size, j).from
<1> DEFINE len == w.to - w.from
<1>1. len \in Nat /\ w.from \in Nat /\ w.to \in Nat /\ w.to = w.from + len
      /\ size \in Nat \ {0} /\ w.size \in Nat \ {0} /\ w.kind \in {"data", "end"}
  BY BoundAssumption DEF Prep
<1>2. /\ n \in Nat \ {0} /\ n <= w.count
      /\ len <= n * size
      /\ n # 1 => (n - 1) * size < len
  <2>1. CASE w.kind = "end" \/ len = 0
    <3>1. len = 0
      BY <1>1, <2>1
    <3>2. n = 1 /\ w.count = 1
      BY Zenon, <1>1, <3>1 DEF ChunkCount
    <3> QED
      BY <1>1, <3>1, <3>2
  <2>2. CASE w.kind = "data" /\ len # 0
    <3>1. n = CeilDiv(len, size) /\ w.count = CeilDiv(len, w.size)
      BY Zenon, <1>1, <2>2 DEF ChunkCount
    <3>2. n \in Nat \ {0} /\ len <= n * size /\ (n - 1) * size < len
      BY Zenon, <1>1, <2>2, <3>1, CeilDivFacts
    <3>3. w.count \in Nat \ {0} /\ len <= w.count * w.size
      BY Zenon, <1>1, <2>2, <3>1, CeilDivFacts
    <3>4. ASSUME w.count < n PROVE FALSE
      <4>1. w.count * size <= (n - 1) * size
        BY <3>2, <3>3, <3>4, <1>1, TimesMonotone
      <4>2. w.size * w.count <= size * w.count
        BY Zenon, <3>3, <1>1, TimesMonotone
      <4>3. w.count * w.size \in Nat /\ w.count * size \in Nat /\ (n - 1) * size \in Nat
            /\ w.count * w.size = w.size * w.count /\ w.count * size = size * w.count
        BY <3>2, <3>3, <1>1
      <4> QED
        BY <3>2, <3>3, <4>1, <4>2, <4>3, <1>1
    <3> QED
      BY <3>2, <3>3, <3>4
  <2> QED
    BY Zenon, <1>1, <2>1, <2>2
<1>3. ASSUME NEW i \in 0..(n - 1)
      PROVE  /\ i * size \in Nat /\ (i + 1) * size = i * size + size
             /\ i * size <= len
             /\ i + 1 < n => (i + 1) * size < len
             /\ i + 1 = n => len <= (i + 1) * size
  <2>1. i \in Nat /\ i * size \in Nat /\ (i + 1) * size = i * size + size
    BY <1>1, <1>2
  <2>2. i # 0 => i * size < len
    BY <1>1, <1>2, TimesMonotone
  <2>3. i + 1 < n => (i + 1) * size < len
    BY <1>1, <1>2, TimesMonotone
  <2> QED
    BY <1>1, <1>2, <2>1, <2>2, <2>3
<1>4. ASSUME NEW i \in 0..(n - 1)
      PROVE  /\ ChunkOf(w, size, i) \in Chunk /\ ChunkOf(w, size, i).kind = w.kind
             /\ w.from <= ChunkOf(w, size, i).from
             /\ ChunkOf(w, size, i).from <= ChunkOf(w, size, i).to
             /\ ChunkOf(w, size, i).to <= w.to
             /\ i + 1 = n => ChunkOf(w, size, i).to = w.to
             /\ i + 1 < n => ChunkOf(w, size, i).to = w.from + (i + 1) * size
             /\ ChunkOf(w, size, i).from = w.from + i * size
  BY <1>1, <1>2, <1>3 DEF ChunkOf, Chunk
<1>5. ChunkOf(w, size, 0).from = w.from
  BY <1>1, <1>2, <1>4
<1>6. ASSUME NEW i \in 0..(n - 1), NEW j \in 0..(n - 1), i < j
      PROVE  /\ ChunkOf(w, size, i).to <= ChunkOf(w, size, j).from
             /\ i + 1 = j => ChunkOf(w, size, i).to = ChunkOf(w, size, j).from
  <2>1. ChunkOf(w, size, i).to = w.from + (i + 1) * size
        /\ ChunkOf(w, size, j).from = w.from + j * size
    BY <1>2, <1>4, <1>6
  <2>2. (i + 1) * size <= j * size /\ (i + 1) * size \in Nat /\ j * size \in Nat
    BY <1>1, <1>2, <1>6, TimesMonotone
  <2> QED
    BY <1>1, <2>1, <2>2
<1> QED
  BY <1>2, <1>4, <1>5, <1>6

-----------------------------------------------------------------------------
(* Initial states.                                                           *)

\* Before either side has written anything the invariant holds.
LEMMA InitInv == Init => IInv
<1> SUFFICES ASSUME Init PROVE IInv
  BY Zenon
<1>1. TypeOK
  BY BoundAssumption DEF Init, TypeOK, LifeTypeOK, SendTypeOK, RecvTypeOK, NetTypeOK, SeqMap,
         Empty, Mtu, Seqs
<1>2. InOrder /\ AckedIsDelivered
  BY PeerFacts DEF Init, InOrder, AckedIsDelivered, Delivered
<1>3. SackedIsHeld /\ BufferOK
  BY Zenon, PeerFacts DEF Init, SackedIsHeld, BufferOK, Empty
<1>4. \A e \in Endpoint : Stretches(e) = {}
  BY Zenon DEF Init, Stretches, Empty
<1>5. Layout /\ PrepsApart /\ EndIsLast /\ PendingOK
  BY Zenon, <1>4 DEF Init, Layout, PrepsApart, EndIsLast, PendingOK, Empty
<1>6. PacketsOK
  BY PeerFacts DEF Init, PacketsOK, Empty
<1> QED
  BY Zenon, <1>1, <1>2, <1>3, <1>5, <1>6 DEF IInv

-----------------------------------------------------------------------------
(* Steps that neither reserve, queue nor deliver anything.                   *)

\* Such a step keeps the layout of the history ...
LEMMA SendSideStep ==
    ASSUME IInv, TypeOK',
           UNCHANGED <<next_seq, written, preps, wire>>,
           \A e \in Endpoint : ended[e] => ended'[e],
           \A e \in Endpoint : pending_writes'[e] \subseteq pending_writes[e],
           \A e \in Endpoint : mtu[e].size <= mtu'[e].size
    PROVE  Layout' /\ PrepsApart' /\ EndIsLast' /\ PendingOK'
<1>1. \A e \in Endpoint : Stretches(e)' = Stretches(e)
  BY Zenon DEF Stretches
<1>2. Layout'
  BY <1>1 DEF IInv, Layout
<1>3. PrepsApart'
  <2> SUFFICES ASSUME NEW e \in Endpoint, NEW w \in preps[e]
               PROVE  w.size <= mtu'[e].size
    BY DEF IInv, PrepsApart
  <2>1. w.size <= mtu[e].size
    BY Zenon DEF IInv, PrepsApart
  <2>2. w \in Prep /\ mtu[e] \in Mtu /\ mtu'[e] \in Mtu
    BY Zenon DEF IInv, TypeOK, SendTypeOK
  <2>3. w.size \in Nat /\ mtu[e].size \in Nat /\ mtu'[e].size \in Nat
    BY <2>2, BoundAssumption DEF Prep, Mtu
  <2> QED
    BY <2>1, <2>3
<1>4. EndIsLast'
  BY Zenon DEF IInv, EndIsLast
<1>5. PendingOK'
  BY <1>1 DEF IInv, PendingOK
<1> QED
  BY Zenon, <1>2, <1>3, <1>4, <1>5

\* ... and when it also leaves both receive sides alone, only the packets matter.
LEMMA QuietStep ==
    ASSUME IInv, TypeOK', PacketsOK', SackedIsHeld',
           UNCHANGED <<next_seq, written, preps, wire, acked_to,
                       next_remote_seq, recv_buf, log>>,
           \A e \in Endpoint : ended[e] => ended'[e],
           \A e \in Endpoint : pending_writes'[e] \subseteq pending_writes[e],
           \A e \in Endpoint : mtu[e].size <= mtu'[e].size
    PROVE  IInv'
<1>1. InOrder' /\ AckedIsDelivered'
  BY Zenon DEF IInv, InOrder, AckedIsDelivered, Delivered
<1>2. BufferOK'
  BY Zenon DEF IInv, BufferOK
<1> QED
  BY Zenon, <1>1, <1>2, SendSideStep DEF IInv

\* A step that keeps the history and both receive sides keeps packets good.
LEMMA SameGood ==
    ASSUME UNCHANGED <<wire, next_remote_seq, recv_buf>>
    PROVE  \A x, p : GoodPacket(x, p)' <=> GoodPacket(x, p)
  BY Zenon DEF GoodPacket

\* ... in particular when it leaves the send side's buffers alone.
LEMMA QuieterStep ==
    ASSUME IInv, TypeOK',
           UNCHANGED <<next_seq, written, preps, wire, acked_to, next_remote_seq, recv_buf,
                       log, send_queue, outgoing, remote_acked, mtu>>,
           \A e \in Endpoint : ended[e] => ended'[e],
           \A e \in Endpoint : pending_writes'[e] \subseteq pending_writes[e],
           \A p \in net' : GoodPacket(p.src, p)
    PROVE  IInv'
<1>1. PacketsOK'
  <2>1. \A x, p : GoodPacket(x, p)' <=> GoodPacket(x, p)
    BY Zenon, SameGood
  <2>2. \A p \in net' : GoodPacket(p.src, p)'
    BY Zenon, <2>1
  <2>3. ASSUME NEW x \in Endpoint, NEW i \in 1..Len(send_queue'[x]), NEW q, q = send_queue'[x][i]
        PROVE  GoodPacket(x, q.pkt)' /\ q.pkt.seq = q.seq
    <3>1. i \in 1..Len(send_queue[x]) /\ q = send_queue[x][i]
      BY Zenon, <2>3
    <3> QED
      BY Zenon, <2>1, <3>1 DEF IInv, PacketsOK
  <2>4. ASSUME NEW x \in Endpoint, NEW s \in DOMAIN outgoing'[x], NEW q, q = outgoing'[x][s]
        PROVE  GoodPacket(x, q.pkt)' /\ q.pkt.seq = s
    <3>1. s \in DOMAIN outgoing[x] /\ q = outgoing[x][s]
      BY Zenon, <2>4
    <3> QED
      BY Zenon, <2>1, <3>1 DEF IInv, PacketsOK
  <2>5. ASSUME NEW x \in Endpoint
        PROVE  /\ \A w \in preps'[x] : w.ack <= next_remote_seq'[x]
               /\ remote_acked'[x] <= next_remote_seq'[Peer(x)]
    BY Zenon DEF IInv, PacketsOK
  <2> QED
    BY <2>2, <2>3, <2>4, <2>5 DEF PacketsOK
<1>2. SackedIsHeld'
  BY Zenon DEF IInv, SackedIsHeld
<1>3. \A e \in Endpoint : mtu[e].size <= mtu'[e].size
  BY BoundAssumption DEF IInv, TypeOK, SendTypeOK, Mtu
<1> QED
  BY Zenon, <1>1, <1>2, <1>3, QuietStep

\* Connecting, installing the firewall hook, dropping the adapter and the stop of the
\* pacing task move no data.
LEMMA LifeInv ==
    ASSUME IInv, NEW e \in Endpoint,
           Connect(e) \/ SetFirewallHook(e) \/ DropAdapter(e) \/ PacingStop(e)
    PROVE  IInv'
<1>1. UNCHANGED <<sendVars, recvVars, netVars>>
  BY Zenon DEF Connect, SetFirewallHook, DropAdapter, PacingStop
<1>2. LifeTypeOK'
  BY ZenonT(60) DEF IInv, TypeOK, LifeTypeOK, Connect, SetFirewallHook, DropAdapter, PacingStop
<1>3. SendTypeOK' /\ RecvTypeOK' /\ NetTypeOK'
  BY Zenon, <1>1 DEF IInv, TypeOK, SendTypeOK, RecvTypeOK, NetTypeOK, sendVars, recvVars, netVars,
              SeqMap
<1>4. \A p \in net' : GoodPacket(p.src, p)
  BY Zenon, <1>1 DEF IInv, PacketsOK, netVars
<1>5. \A x \in Endpoint : ended[x] => ended'[x]
  BY Zenon DEF Connect, SetFirewallHook, DropAdapter, PacingStop
<1> QED
  BY Zenon, <1>1, <1>2, <1>3, <1>4, <1>5, QuieterStep DEF TypeOK, sendVars, recvVars

\* However a stream stops (too many RTOs, a termination, a drop), what it has delivered
\* and what is in flight stay as they were.
LEMMA StopInv ==
    ASSUME IInv, NEW e \in Endpoint, RtoFail(e) \/ Terminate(e) \/ DropStream(e)
    PROVE  IInv'
<1>1. UNCHANGED <<recvVars, netVars, next_seq, written, preps, send_queue, outgoing,
                  remote_acked, mtu, wire, acked_to, ended>>
  BY Zenon DEF RtoFail, Terminate, DropStream
<1>2. LifeTypeOK'
  BY ZenonT(60) DEF IInv, TypeOK, LifeTypeOK, RtoFail, Terminate, DropStream
<1>3. \A x \in Endpoint : pending_writes'[x] \subseteq pending_writes[x]
  BY ZenonT(60) DEF IInv, TypeOK, SendTypeOK, RtoFail, Terminate, DropStream
<1>4. pending_writes' \in [Endpoint -> SUBSET PendingWrite]
  BY ZenonT(60) DEF IInv, TypeOK, SendTypeOK, RtoFail, Terminate, DropStream
<1>5. rto_timeouts' \in [Endpoint -> Nat]
  <2>1. rto_timeouts \in [Endpoint -> Nat]
    BY Zenon DEF IInv, TypeOK, SendTypeOK
  <2>2. CASE RtoFail(e)
    BY <2>1, <2>2 DEF RtoFail
  <2>3. CASE Terminate(e)
    BY Zenon, <2>1, <2>3 DEF Terminate
  <2>4. CASE DropStream(e)
    BY Zenon, <2>1, <2>4 DEF DropStream
  <2> QED
    BY Zenon, <2>2, <2>3, <2>4
<1>6. SendTypeOK' /\ RecvTypeOK' /\ NetTypeOK'
  BY ZenonT(60), <1>1, <1>4, <1>5 DEF IInv, TypeOK, SendTypeOK, RecvTypeOK, NetTypeOK, recvVars, netVars,
                          SeqMap
<1>7. \A p \in net' : GoodPacket(p.src, p)
  BY Zenon, <1>1 DEF IInv, PacketsOK, netVars
<1> QED
  BY Zenon, <1>1, <1>2, <1>3, <1>6, <1>7, QuieterStep DEF TypeOK, recvVars

\* A control packet acknowledges no more than its sender has received.
LEMMA ControlGood ==
    ASSUME TypeOK, NEW e \in Endpoint, NEW k \in {"ack", "sack", "heartbeat", "destroy"},
           NEW s \in Nat, NEW a \in Nat, a <= next_remote_seq[e],
           NEW held \in SUBSET Seqs, held \subseteq DOMAIN recv_buf[e]
    PROVE  /\ ControlPacket(e, k, s, a, held) \in ControlPackets
           /\ GoodPacket(e, ControlPacket(e, k, s, a, held))
           /\ ControlPacket(e, k, s, a, held).src = e
  BY Zenon DEF ControlPacket, ControlPackets, GoodPacket

\* A keepalive and a destroy packet say nothing false to the peer.
LEMMA EmitInv ==
    ASSUME IInv, NEW e \in Endpoint, Keepalive(e) \/ Destroy(e)
    PROVE  IInv'
<1>1. next_remote_seq[e] \in Nat /\ next_seq[e] \in Nat
  BY DEF IInv, TypeOK, SendTypeOK, RecvTypeOK
<1> DEFINE hb == ControlPacket(e, "heartbeat", 0, next_remote_seq[e], {})
           ds == ControlPacket(e, "destroy", next_seq[e], next_remote_seq[e], {})
<1>2. hb \in ControlPackets /\ GoodPacket(e, hb) /\ hb.src = e
  BY <1>1, ControlGood DEF IInv
<1>3. ds \in ControlPackets /\ GoodPacket(e, ds) /\ ds.src = e
  BY <1>1, ControlGood DEF IInv
<1> HIDE DEF hb, ds
<1>4. net' \subseteq net \cup {hb, ds}
  BY Zenon DEF Keepalive, Destroy, hb, ds
<1>5. \A p \in net' : GoodPacket(p.src, p)
  BY Zenon, <1>2, <1>3, <1>4 DEF IInv, PacketsOK
<1>6. net' \subseteq DataPackets \cup ControlPackets
  BY Zenon, <1>2, <1>3, <1>4 DEF IInv, TypeOK, NetTypeOK
<1>7. UNCHANGED <<recvVars, losses, next_seq, written, preps, send_queue, outgoing,
                  remote_acked, rto_timeouts, mtu, wire, acked_to, ended>>
  BY Zenon DEF Keepalive, Destroy, lifeVars, sendVars
<1>8. LifeTypeOK'
  BY ZenonT(60) DEF IInv, TypeOK, LifeTypeOK, Keepalive, Destroy, lifeVars
<1>9. /\ \A x \in Endpoint : pending_writes'[x] \subseteq pending_writes[x]
      /\ pending_writes' \in [Endpoint -> SUBSET PendingWrite]
  BY ZenonT(60) DEF IInv, TypeOK, SendTypeOK, Keepalive, Destroy, sendVars
<1>10. SendTypeOK' /\ RecvTypeOK' /\ NetTypeOK'
  BY Zenon, <1>6, <1>7, <1>9 DEF IInv, TypeOK, SendTypeOK, RecvTypeOK, NetTypeOK, recvVars, SeqMap
<1> QED
  BY Zenon, <1>5, <1>7, <1>8, <1>9, <1>10, QuieterStep DEF TypeOK, recvVars

\* Losing a packet, or refusing the first one, leaves both streams as they were.
LEMMA ForgetInv ==
    ASSUME IInv, NEW p \in net,
           Lose(p) \/ \E e \in Endpoint : DropFirst(e, p) \/ RejectFirst(e, p)
    PROVE  IInv'
<1>1. net' \subseteq net /\ UNCHANGED <<sendVars, recvVars, ended>>
  BY Zenon DEF Lose, DropFirst, RejectFirst, lifeVars
<1>2. \A q \in net' : GoodPacket(q.src, q)
  BY Zenon, <1>1 DEF IInv, PacketsOK
<1>3. LifeTypeOK'
  BY ZenonT(60) DEF IInv, TypeOK, LifeTypeOK, Lose, DropFirst, RejectFirst, lifeVars
<1>4. NetTypeOK'
  BY <1>1 DEF IInv, TypeOK, NetTypeOK, Lose, DropFirst, RejectFirst
<1>5. SendTypeOK' /\ RecvTypeOK'
  BY Zenon, <1>1 DEF IInv, TypeOK, SendTypeOK, RecvTypeOK, sendVars, recvVars, SeqMap
<1> QED
  BY Zenon, <1>1, <1>2, <1>3, <1>4, <1>5, QuieterStep DEF TypeOK, sendVars, recvVars

-----------------------------------------------------------------------------
(* Facts that several steps use.                                            *)

\* A stretch of sequence numbers is a non-empty interval that carries a range of bytes.
LEMMA StretchTypes ==
    ASSUME TypeOK, NEW e \in Endpoint, NEW x \in Stretches(e)
    PROVE  /\ x.lo \in Nat /\ x.hi \in Nat /\ x.from \in Nat /\ x.to \in Nat
           /\ x.lo < x.hi
<1>1. CASE \E w \in preps[e] : x = [lo |-> w.first, hi |-> w.first + w.count,
                                    from |-> w.from, to |-> w.to]
  <2>1. PICK w \in preps[e] : x = [lo |-> w.first, hi |-> w.first + w.count,
                                   from |-> w.from, to |-> w.to]
    BY Zenon, <1>1
  <2>2. w \in Prep
    BY Zenon DEF TypeOK, SendTypeOK
  <2> QED
    BY <2>1, <2>2, BoundAssumption DEF Prep, Seqs
<1>2. CASE \E s \in DOMAIN wire[e] : x = [lo |-> s, hi |-> s + 1, from |-> wire[e][s].from,
                                          to |-> wire[e][s].to]
  <2>1. PICK s \in DOMAIN wire[e] : x = [lo |-> s, hi |-> s + 1, from |-> wire[e][s].from,
                                         to |-> wire[e][s].to]
    BY Zenon, <1>2
  <2>2. s \in Nat /\ wire[e][s] \in Chunk
    BY BoundAssumption DEF TypeOK, SendTypeOK, SeqMap, Seqs
  <2> QED
    BY <2>1, <2>2 DEF Chunk
<1> QED
  BY Zenon, <1>1, <1>2 DEF Stretches

\* The position where a log ends.
LEMMA EndOfLog ==
    ASSUME NEW L \in Seq(Chunk) PROVE (IF L = <<>> THEN 0 ELSE L[Len(L)].to) \in Nat
<1> SUFFICES ASSUME L # <<>> PROVE L[Len(L)].to \in Nat
  BY Zenon
<1>1. L[Len(L)] \in Chunk
  OBVIOUS
<1> QED
  BY Zenon, <1>1 DEF Chunk

\* A good packet stays good while its sender's history and receive side grow.
LEMMA GoodStable ==
    ASSUME NEW e \in Endpoint, NEW p, GoodPacket(e, p), p.ack \in Nat, p.sacks \subseteq Nat,
           \A s \in DOMAIN wire[e] : s \in DOMAIN wire'[e] /\ wire'[e][s] = wire[e][s],
           next_remote_seq[e] \in Nat, next_remote_seq'[e] \in Nat,
           next_remote_seq[e] <= next_remote_seq'[e],
           \A s \in Nat : s < next_remote_seq[e] \/ s \in DOMAIN recv_buf[e]
                             => s < next_remote_seq'[e] \/ s \in DOMAIN recv_buf'[e]
    PROVE  GoodPacket(e, p)'
  BY DEF GoodPacket

\* The fields of the packets in flight, queued and outstanding have their types.
LEMMA PacketTypes ==
    ASSUME TypeOK
    PROVE  /\ \A p \in net : p.src \in Endpoint /\ p.ack \in Nat /\ p.sacks \subseteq Nat
           /\ \A e \in Endpoint :
                 /\ \A i \in 1..Len(send_queue[e]) :
                       /\ send_queue[e][i] \in QueuedPacket
                       /\ send_queue[e][i].pkt.ack \in Nat
                       /\ send_queue[e][i].pkt.sacks \subseteq Nat
                 /\ \A s \in DOMAIN outgoing[e] :
                       /\ s \in Seqs /\ outgoing[e][s] \in SentPacket
                       /\ outgoing[e][s].pkt.ack \in Nat
                       /\ outgoing[e][s].pkt.sacks \subseteq Nat
<1>1. Seqs \subseteq Nat
  BY BoundAssumption DEF Seqs
<1>2. \A p \in DataPackets \cup ControlPackets :
         p.src \in Endpoint /\ p.ack \in Nat /\ p.sacks \subseteq Nat
  BY ZenonT(60), <1>1 DEF DataPackets, ControlPackets
<1>3. \A p \in net : p.src \in Endpoint /\ p.ack \in Nat /\ p.sacks \subseteq Nat
  BY Zenon, <1>2 DEF TypeOK, NetTypeOK
<1>4. ASSUME NEW e \in Endpoint, NEW i \in 1..Len(send_queue[e])
      PROVE  send_queue[e][i] \in QueuedPacket
  BY DEF TypeOK, SendTypeOK
<1>5. ASSUME NEW e \in Endpoint, NEW s \in DOMAIN outgoing[e]
      PROVE  s \in Seqs /\ outgoing[e][s] \in SentPacket
  BY Zenon DEF TypeOK, SendTypeOK, SeqMap
<1> QED
  BY Zenon, <1>2, <1>3, <1>4, <1>5 DEF QueuedPacket, SentPacket

\* The two outcomes of an MTU probe keep the search's state well formed, and the size
\* of a payload never shrinks.
LEMMA ProbeFailedType ==
    ASSUME NEW m \in Mtu PROVE ProbeFailed(m) \in Mtu /\ ProbeFailed(m).size = m.size
  BY DEF ProbeFailed, Mtu

\* An acknowledged probe keeps the search well formed and never lowers the payload size.
LEMMA ProbeAckedType ==
    ASSUME NEW m \in Mtu PROVE ProbeAcked(m) \in Mtu /\ m.size <= ProbeAcked(m).size
<1>1. m.size \in Nat /\ m.size <= MtuMax /\ MtuBase <= m.size /\ MtuMax \in Nat /\ MtuBase \in Nat
  BY BoundAssumption DEF Mtu
<1>2. ProbeSize(m) \in MtuBase..MtuMax /\ m.size <= ProbeSize(m)
  BY <1>1 DEF ProbeSize
<1>3. m.state \in {"base", "search", "complete"} /\ m.wanted \in BOOLEAN
  BY Zenon DEF Mtu
<1> QED
  BY ZenonT(60), <1>2, <1>3 DEF ProbeAcked, Mtu

\* Clearing is_mtu_probe, and marking a packet sacked, keep the packet.
LEMMA Unprobed ==
    ASSUME NEW q \in SentPacket, NEW r, r = [q EXCEPT !.probe = FALSE]
    PROVE  r \in SentPacket /\ r.pkt = q.pkt /\ r.sacked = q.sacked
  BY ZenonT(60) DEF SentPacket

\* A packet is sacked afterwards only if it was before or the acknowledgement names it.
LEMMA Marked ==
    ASSUME NEW q \in SentPacket, NEW b \in BOOLEAN, NEW r, r = [q EXCEPT !.sacked = @ \/ b]
    PROVE  r \in SentPacket /\ r.pkt = q.pkt /\ (r.sacked => q.sacked \/ b)
  BY Zenon DEF SentPacket

-----------------------------------------------------------------------------
(* Steps that reserve sequence numbers.                                      *)

\* Reserving the next sequence numbers for the next bytes keeps the layout of the stream.
LEMMA ReserveInv ==
    ASSUME IInv, NEW e \in Endpoint, NEW w \in Prep,
           ~ended[e],
           w.first = next_seq[e], next_seq[e] + w.count <= MaxSeq,
           w.from = written[e], w.from <= w.to,
           w.ack = next_remote_seq[e], w.size = mtu[e].size,
           w.kind = "data" => w.count = ChunkCount(w.to - w.from, w.size),
           w.kind = "end" => w.count = 1 /\ w.from = w.to,
           next_seq' = [next_seq EXCEPT ![e] = @ + w.count],
           written' = [written EXCEPT ![e] = w.to],
           preps' = [preps EXCEPT ![e] = @ \cup {w}],
           pending_writes' = [pending_writes EXCEPT ![e] = @ \cup
                                 {[threshold |-> next_seq[e] + w.count, to |-> w.to]}],
           ended' = [ended EXCEPT ![e] = (w.kind = "end")],
           UNCHANGED <<proc, connected, hook, shutting_down, send_queue, outgoing, remote_acked,
                       rto_timeouts, mtu, wire, acked_to, recvVars, netVars>>
    PROVE  IInv'
<1>1. /\ next_seq[e] \in Nat /\ written[e] \in Nat /\ w.count \in Nat \ {0} /\ w.to \in Nat
      /\ w.from \in Nat /\ w.kind \in {"data", "end"} /\ next_remote_seq[e] \in Nat
      /\ w.first \in Nat
  <2>1. /\ next_seq[e] \in 0..MaxSeq /\ written[e] \in Nat /\ next_remote_seq[e] \in 0..MaxSeq
    BY Zenon DEF IInv, TypeOK, SendTypeOK, RecvTypeOK
  <2>2. /\ w.count \in Nat \ {0} /\ w.to \in Nat /\ w.from \in Nat
        /\ w.kind \in {"data", "end"} /\ w.first \in Seqs
    BY Zenon DEF Prep
  <2> QED
    BY <2>1, <2>2, BoundAssumption DEF Seqs
<1>2. TypeOK'
  <2>1. LifeTypeOK'
    BY Zenon DEF IInv, TypeOK, LifeTypeOK
  <2>2. next_seq' \in [Endpoint -> 0..MaxSeq] /\ written' \in [Endpoint -> Nat]
    BY SMTT(30), <1>1, BoundAssumption DEF IInv, TypeOK, SendTypeOK
  <2>3. preps' \in [Endpoint -> SUBSET Prep]
    BY Zenon DEF IInv, TypeOK, SendTypeOK
  <2>4. [threshold |-> next_seq[e] + w.count, to |-> w.to] \in PendingWrite
    BY <1>1 DEF PendingWrite
  <2>5. pending_writes' \in [Endpoint -> SUBSET PendingWrite]
    BY Zenon, <2>4 DEF IInv, TypeOK, SendTypeOK
  <2>6. SendTypeOK' /\ RecvTypeOK' /\ NetTypeOK'
    BY ZenonT(60), <2>2, <2>3, <2>5
       DEF IInv, TypeOK, SendTypeOK, RecvTypeOK, NetTypeOK, recvVars, netVars, SeqMap
  <2> QED
    BY Zenon, <2>1, <2>6 DEF TypeOK
<1>3. InOrder' /\ SackedIsHeld' /\ BufferOK' /\ AckedIsDelivered'
  BY Zenon DEF IInv, InOrder, SackedIsHeld, BufferOK, AckedIsDelivered, Delivered, recvVars
<1> DEFINE new == [lo |-> w.first, hi |-> w.first + w.count, from |-> w.from, to |-> w.to]
<1>4. /\ Stretches(e)' = Stretches(e) \cup {new}
      /\ \A x \in Endpoint : x # e => Stretches(x)' = Stretches(x)
  BY DEF Stretches, IInv, TypeOK, SendTypeOK
<1>5. /\ next_seq'[e] = next_seq[e] + w.count /\ written'[e] = w.to
      /\ \A x \in Endpoint : x # e => next_seq'[x] = next_seq[x] /\ written'[x] = written[x]
  BY Zenon DEF IInv, TypeOK, SendTypeOK
<1>6. \A x \in Stretches(e) : /\ x.lo \in Nat /\ x.hi \in Nat /\ x.from \in Nat /\ x.to \in Nat
                              /\ x.lo < x.hi /\ x.hi <= next_seq[e] /\ x.to <= written[e]
                              /\ x.hi = next_seq[e] => x.to = written[e]
  BY Zenon, StretchTypes DEF IInv, Layout
<1>7. /\ new.lo = next_seq[e] /\ new.hi = next_seq[e] + w.count
      /\ new.from = written[e] /\ new.to = w.to
  BY Zenon, <1>1
<1> HIDE DEF new
<1>8. Layout'
  <2> SUFFICES ASSUME NEW x \in Endpoint
               PROVE  /\ next_seq'[x] = 0 => written'[x] = 0
                      /\ \A y \in Stretches(x)' :
                           /\ y.from <= y.to /\ y.to <= written'[x] /\ y.hi <= next_seq'[x]
                           /\ y.lo = 0 => y.from = 0
                           /\ y.hi = next_seq'[x] => y.to = written'[x]
                           /\ \A z \in Stretches(x)' : y.hi <= z.lo => y.to <= z.from
                           /\ \A z \in Stretches(x)' : y.hi = z.lo => y.to = z.from
    BY Zenon DEF Layout
  <2>1. CASE x # e
    BY <1>4, <1>5, <2>1 DEF IInv, Layout
  <2>2. CASE x = e
    <3>0. /\ next_seq[e] = 0 => written[e] = 0
          /\ \A y \in Stretches(e) :
                /\ y.from <= y.to
                /\ y.lo = 0 => y.from = 0
                /\ \A z \in Stretches(e) : /\ y.hi <= z.lo => y.to <= z.from
                                           /\ y.hi = z.lo => y.to = z.from
      BY Zenon DEF IInv, Layout
    <3>1. next_seq'[e] # 0
      BY <1>1, <1>5
    <3>2. ASSUME NEW y \in Stretches(e) \cup {new}
          PROVE  /\ y.from <= y.to /\ y.to <= written'[e] /\ y.hi <= next_seq'[e]
                 /\ y.lo = 0 => y.from = 0
                 /\ y.hi = next_seq'[e] => y.to = written'[e]
      <4>1. CASE y = new
        BY <1>1, <1>5, <1>7, <3>0, <4>1
      <4>2. CASE y \in Stretches(e)
        BY <1>1, <1>5, <1>6, <3>0, <4>2
      <4> QED
        BY Zenon, <4>1, <4>2
    <3>3. ASSUME NEW y \in Stretches(e) \cup {new}, NEW z \in Stretches(e) \cup {new}
          PROVE  /\ y.hi <= z.lo => y.to <= z.from
                 /\ y.hi = z.lo => y.to = z.from
      <4>1. CASE y \in Stretches(e) /\ z \in Stretches(e)
        BY Zenon, <3>0, <4>1
      <4>2. CASE y \in Stretches(e) /\ z = new
        BY Zenon, <1>6, <1>7, <4>2
      <4>3. CASE y = new
        BY <1>1, <1>6, <1>7, <4>3
      <4> QED
        BY Zenon, <4>1, <4>2, <4>3
    <3> QED
      BY <1>4, <2>2, <3>1, <3>2, <3>3
  <2> QED
    BY Zenon, <2>1, <2>2
<1>9. \A s \in DOMAIN wire[e] : s \in Nat /\ s < next_seq[e]
  <2> SUFFICES ASSUME NEW s \in DOMAIN wire[e] PROVE s \in Nat /\ s < next_seq[e]
    BY Zenon
  <2> DEFINE t == [lo |-> s, hi |-> s + 1, from |-> wire[e][s].from, to |-> wire[e][s].to]
  <2>1. t \in Stretches(e) /\ t.lo = s /\ t.hi = s + 1
    BY Zenon DEF Stretches
  <2> QED
    BY <1>1, <1>6, <2>1
<1>10. \A v \in preps[e] : v.first + v.count <= next_seq[e]
  <2> SUFFICES ASSUME NEW v \in preps[e] PROVE v.first + v.count <= next_seq[e]
    BY Zenon
  <2> DEFINE t == [lo |-> v.first, hi |-> v.first + v.count, from |-> v.from, to |-> v.to]
  <2>1. t \in Stretches(e) /\ t.hi = v.first + v.count
    BY Zenon DEF Stretches
  <2> QED
    BY Zenon, <1>6, <2>1
<1>11. /\ preps'[e] = preps[e] \cup {w}
       /\ \A x \in Endpoint : x # e => preps'[x] = preps[x]
  BY Zenon DEF IInv, TypeOK, SendTypeOK
<1>12. PrepsApart'
  <2>1. mtu[e].size \in Nat /\ w.size \in Nat
    <3>1. mtu[e].size \in MtuBase..MtuMax /\ w.size \in MtuBase..MtuMax
      BY Zenon DEF IInv, TypeOK, SendTypeOK, Mtu, Prep
    <3> QED
      BY <3>1, BoundAssumption
  <2>2. ASSUME NEW x \in Endpoint, NEW v \in preps'[x]
        PROVE  /\ v.kind = "data" => v.count = ChunkCount(v.to - v.from, v.size)
               /\ v.kind = "end" => v.count = 1 /\ v.from = v.to
               /\ v.size <= mtu'[x].size
               /\ \A s \in DOMAIN wire'[x] : s < v.first \/ s >= v.first + v.count
    BY <1>1, <1>9, <1>11, <2>1 DEF IInv, PrepsApart
  <2>3. ASSUME NEW x \in Endpoint, NEW v \in preps'[x], NEW u \in preps'[x], u # v
        PROVE  u.first + u.count <= v.first \/ v.first + v.count <= u.first
    BY <1>10, <1>11, <2>3 DEF IInv, PrepsApart
  <2> QED
    BY <2>2, <2>3 DEF PrepsApart
<1>13. EndIsLast'
  <2>1. /\ ended'[e] = (w.kind = "end")
        /\ \A x \in Endpoint : x # e => ended'[x] = ended[x]
    BY Zenon DEF IInv, TypeOK, LifeTypeOK
  <2>2. ASSUME NEW x \in Endpoint, x # e
        PROVE  /\ \A s \in DOMAIN wire'[x] :
                     wire'[x][s].kind = "end" => ended'[x] /\ s + 1 = next_seq'[x]
               /\ \A v \in preps'[x] :
                     v.kind = "end" => ended'[x] /\ v.first + 1 = next_seq'[x]
    BY <1>5, <1>11, <2>1, <2>2 DEF IInv, EndIsLast
  <2>3. /\ \A s \in DOMAIN wire[e] : wire[e][s].kind # "end"
        /\ \A v \in preps[e] : v.kind # "end"
    BY Zenon DEF IInv, EndIsLast
  <2>4. \A v \in preps'[e] : v.kind = "end" => ended'[e] /\ v.first + 1 = next_seq'[e]
    BY ZenonT(60), <1>1, <1>5, <1>11, <2>1, <2>3
  <2> QED
    BY <2>2, <2>3, <2>4 DEF EndIsLast
<1>14. PendingOK'
  <2> DEFINE p == [threshold |-> next_seq[e] + w.count, to |-> w.to]
  <2>1. /\ pending_writes'[e] = pending_writes[e] \cup {p}
        /\ \A x \in Endpoint : x # e => pending_writes'[x] = pending_writes[x]
    BY Zenon DEF IInv, TypeOK, SendTypeOK
  <2>2. p.threshold = next_seq[e] + w.count /\ p.to = w.to
    BY Zenon
  <2> HIDE DEF p
  <2>3. ASSUME NEW q \in pending_writes'[e]
        PROVE  /\ q.threshold > 0 /\ q.threshold <= next_seq'[e]
               /\ \A x \in Stretches(e)' : x.hi = q.threshold => x.to = q.to
               /\ \A x \in Stretches(e)' : q.threshold <= x.lo \/ x.hi <= q.threshold
    <3>1. CASE q = p
      BY SMTT(30), <1>1, <1>4, <1>5, <1>6, <1>7, <2>2, <3>1
    <3>2. CASE q \in pending_writes[e]
      <4>1. /\ q.threshold \in Nat /\ q.threshold > 0 /\ q.threshold <= next_seq[e]
            /\ \A x \in Stretches(e) : x.hi = q.threshold => x.to = q.to
            /\ \A x \in Stretches(e) : q.threshold <= x.lo \/ x.hi <= q.threshold
        BY <3>2 DEF IInv, PendingOK, TypeOK, SendTypeOK, PendingWrite
      <4> QED
        BY SMTT(30), <1>1, <1>4, <1>5, <1>6, <1>7, <4>1
    <3> QED
      BY Zenon, <2>1, <3>1, <3>2
  <2>4. ASSUME NEW x \in Endpoint, x # e, NEW q \in pending_writes'[x]
        PROVE  /\ q.threshold > 0 /\ q.threshold <= next_seq'[x]
               /\ \A y \in Stretches(x)' : y.hi = q.threshold => y.to = q.to
               /\ \A y \in Stretches(x)' : q.threshold <= y.lo \/ y.hi <= q.threshold
    <3>1. Stretches(x)' = Stretches(x) /\ next_seq'[x] = next_seq[x] /\ q \in pending_writes[x]
      BY Zenon, <1>4, <1>5, <2>1, <2>4
    <3>2. /\ q.threshold > 0 /\ q.threshold <= next_seq[x]
          /\ \A y \in Stretches(x) : y.hi = q.threshold => y.to = q.to
          /\ \A y \in Stretches(x) : q.threshold <= y.lo \/ y.hi <= q.threshold
      BY Zenon, <3>1 DEF IInv, PendingOK
    <3> QED
      BY Zenon, <3>1, <3>2
  <2> QED
    BY ZenonT(60), <2>3, <2>4 DEF PendingOK
<1>15. PacketsOK'
  <2>1. \A x \in Endpoint : \A v \in preps'[x] : v.ack <= next_remote_seq[x]
    BY <1>1, <1>11 DEF IInv, PacketsOK
  <2>2. \A x, p : GoodPacket(x, p) => GoodPacket(x, p)'
    BY Zenon DEF GoodPacket, recvVars
  <2> QED
    BY <2>1, <2>2 DEF IInv, PacketsOK, recvVars, netVars
<1> QED
  BY Zenon, <1>2, <1>3, <1>8, <1>12, <1>13, <1>14, <1>15 DEF IInv

\* The first lock of a write, of an end and of a shutdown.
LEMMA PrepareInv ==
    ASSUME IInv, NEW e \in Endpoint,
           PrepareEnd(e) \/ \E len \in Lengths : PrepareWrite(e, len)
    PROVE  IInv'
<1>0. /\ next_seq[e] \in 0..MaxSeq /\ written[e] \in Nat /\ next_remote_seq[e] \in Nat
      /\ mtu[e].size \in MtuBase..MtuMax /\ connected[e] \in BOOLEAN /\ MaxSeq \in Nat
  BY BoundAssumption DEF IInv, TypeOK, SendTypeOK, RecvTypeOK, LifeTypeOK, Mtu
<1>1. CASE PrepareEnd(e)
  <2> DEFINE w == [kind |-> "end", first |-> next_seq[e], count |-> 1, from |-> written[e],
                   to |-> written[e], ack |-> next_remote_seq[e], size |-> mtu[e].size,
                   resolved |-> TRUE]
  <2>1. w \in Prep
    BY <1>0, <1>1 DEF PrepareEnd, Prep, Seqs
  <2>2. /\ w.first = next_seq[e] /\ w.count = 1 /\ w.from = written[e] /\ w.to = written[e]
        /\ w.ack = next_remote_seq[e] /\ w.size = mtu[e].size /\ w.kind = "end"
    BY Zenon
  <2> HIDE DEF w
  <2>3. written' = [written EXCEPT ![e] = w.to]
    BY Zenon, <1>1, <2>2 DEF PrepareEnd, IInv, TypeOK, SendTypeOK
  <2>4. next_seq[e] + w.count <= MaxSeq /\ w.from <= w.to
    BY <1>0, <1>1, <2>2 DEF PrepareEnd
  <2>5. preps' = [preps EXCEPT ![e] = @ \cup {w}]
    BY Zenon, <1>1 DEF PrepareEnd, w
  <2>6. /\ ended' = [ended EXCEPT ![e] = (w.kind = "end")]
        /\ ~ended[e]
        /\ next_seq' = [next_seq EXCEPT ![e] = @ + w.count]
        /\ pending_writes' = [pending_writes EXCEPT ![e] = @ \cup
                                 {[threshold |-> next_seq[e] + w.count, to |-> w.to]}]
        /\ UNCHANGED <<proc, connected, hook, shutting_down, send_queue, outgoing, remote_acked,
                       rto_timeouts, mtu, wire, acked_to, recvVars, netVars>>
    BY ZenonT(60), <1>1, <2>2 DEF PrepareEnd
  <2> QED
    BY ZenonT(60), <2>1, <2>2, <2>3, <2>4, <2>5, <2>6, ReserveInv
<1>2. ASSUME NEW len \in Lengths, PrepareWrite(e, len) PROVE IInv'
  <2> DEFINE count == ChunkCount(len, mtu[e].size)
             w == [kind |-> "data", first |-> next_seq[e], count |-> count,
                   from |-> written[e], to |-> written[e] + len, ack |-> next_remote_seq[e],
                   size |-> mtu[e].size, resolved |-> connected[e]]
  <2>1. len \in Nat /\ count \in Nat \ {0} /\ next_seq[e] + count <= MaxSeq
    <3>1. len \in Nat /\ mtu[e].size \in Nat \ {0}
      BY <1>0, BoundAssumption
    <3>2. len = 0 => count = 1
      BY Zenon DEF ChunkCount
    <3>3. len # 0 => count = CeilDiv(len, mtu[e].size)
      BY Zenon DEF ChunkCount
    <3>4. next_seq[e] + count <= MaxSeq
      BY Zenon, <1>2 DEF PrepareWrite
    <3> HIDE DEF count, w
    <3>5. len # 0 => len \in Nat \ {0}
      BY <3>1
    <3>6. len # 0 => count \in Nat \ {0}
      BY Zenon, <3>1, <3>3, <3>5, CeilDivFacts
    <3>7. 1 \in Nat \ {0}
      OBVIOUS
    <3> QED
      BY Zenon, <3>1, <3>2, <3>4, <3>6, <3>7
  <2>2. w \in Prep
    BY <1>0, <2>1 DEF Prep, Seqs
  <2>3. /\ w.first = next_seq[e] /\ w.count = count /\ w.from = written[e]
        /\ w.to = written[e] + len /\ w.to - w.from = len
        /\ w.ack = next_remote_seq[e] /\ w.size = mtu[e].size /\ w.kind = "data"
    <3>1. /\ w.first = next_seq[e] /\ w.count = count /\ w.from = written[e]
          /\ w.to = written[e] + len
          /\ w.ack = next_remote_seq[e] /\ w.size = mtu[e].size /\ w.kind = "data"
      BY Zenon
    <3>3. written[e] \in Nat /\ len \in Nat
      BY Zenon, <1>0, <2>1
    <3> HIDE DEF w, count
    <3>4. w.to - w.from = len
      BY <3>1, <3>3
    <3> QED
      BY Zenon, <3>1, <3>4
  <2>4. preps' = [preps EXCEPT ![e] = @ \cup {w}]
    BY Zenon, <1>2 DEF PrepareWrite, MayWrite
  <2>5. /\ next_seq' = [next_seq EXCEPT ![e] = @ + count]
        /\ written' = [written EXCEPT ![e] = @ + len]
        /\ pending_writes' = [pending_writes EXCEPT ![e] = @ \cup
                {[threshold |-> next_seq[e] + count, to |-> written[e] + len]}]
        /\ ~ended[e]
        /\ UNCHANGED <<proc, connected, hook, shutting_down, ended, send_queue, outgoing,
                       remote_acked, rto_timeouts, mtu, wire, acked_to, recvVars, netVars>>
    BY Zenon, <1>2 DEF PrepareWrite, MayWrite, lifeVars
  <2>6. w.count = ChunkCount(w.to - w.from, w.size)
    BY Zenon, <2>3
  <2> HIDE DEF w, count
  <2>7. w.from <= w.to
    BY <1>0, <2>1, <2>3
  <2>8. ended' = [ended EXCEPT ![e] = (w.kind = "end")]
    BY Zenon, <2>3, <2>5 DEF IInv, TypeOK, LifeTypeOK
  <2> QED
    BY ZenonT(60), <2>1, <2>2, <2>3, <2>4, <2>5, <2>6, <2>7, <2>8, ReserveInv
<1> QED
  BY Zenon, <1>1, <1>2

-----------------------------------------------------------------------------
(* Sending and retransmitting: packets already queued enter the network.     *)

\* The pacing task moves the head of the send queue to the network.
LEMMA PacingInv ==
    ASSUME IInv, NEW e \in Endpoint, PacingSend(e)
    PROVE  IInv'
<1> DEFINE front == Head(send_queue[e])
           m     == Searching(mtu[e], front.pkt.chunk)
           probe == BecomesProbe(m, front.pkt.chunk)
           entry == [pkt |-> front.pkt, sacked |-> FALSE, probe |-> probe]
<1>1. /\ send_queue[e] \in Seq(QueuedPacket) /\ send_queue[e] # <<>>
      /\ send_queue' = [send_queue EXCEPT ![e] = Tail(@)]
  BY Zenon DEF PacingSend, IInv, TypeOK, SendTypeOK
<1>2. /\ front \in QueuedPacket /\ front.seq \in Seqs /\ front.pkt \in DataPackets
      /\ front = send_queue[e][1] /\ 1 \in 1..Len(send_queue[e])
  <2>1. front = send_queue[e][1] /\ 1 \in 1..Len(send_queue[e])
    BY <1>1
  <2>2. front \in QueuedPacket
    BY <1>1, <2>1
  <2> HIDE DEF front
  <2> QED
    BY Zenon, <2>1, <2>2 DEF QueuedPacket
<1>3. GoodPacket(e, front.pkt) /\ front.pkt.seq = front.seq
  BY <1>2 DEF IInv, PacketsOK
<1>4. /\ m \in Mtu /\ m.size = mtu[e].size /\ probe \in BOOLEAN
      /\ [m EXCEPT !.wanted = FALSE] \in Mtu /\ [m EXCEPT !.wanted = FALSE].size = m.size
  <2>1. mtu[e] \in Mtu
    BY Zenon DEF IInv, TypeOK, SendTypeOK
  <2>2. m \in Mtu /\ m.size = mtu[e].size
    BY ZenonT(60), <2>1 DEF Searching, Mtu
  <2> HIDE DEF m
  <2>3. [m EXCEPT !.wanted = FALSE] \in Mtu /\ [m EXCEPT !.wanted = FALSE].size = m.size
    BY ZenonT(60), <2>2 DEF Mtu
  <2>4. probe \in BOOLEAN
    BY Zenon DEF BecomesProbe
  <2> QED
    BY Zenon, <2>2, <2>3, <2>4
<1>5. /\ mtu' = [mtu EXCEPT ![e] = IF probe THEN [m EXCEPT !.wanted = FALSE] ELSE m]
      /\ outgoing' = [outgoing EXCEPT ![e] =
             [s \in DOMAIN @ \cup {front.seq} |-> IF s = front.seq THEN entry ELSE @[s]]]
      /\ net' = IF front.resolved THEN net \cup {front.pkt} ELSE net
      /\ proc' = [proc EXCEPT ![e] =
             IF shutting_down[e] /\ Len(send_queue[e]) = 1 THEN "closing" ELSE @]
      /\ UNCHANGED <<connected, hook, ended, shutting_down, next_seq, written, preps,
                     pending_writes, remote_acked, rto_timeouts, wire, acked_to,
                     recvVars, losses>>
  BY Zenon DEF PacingSend
<1>6. entry \in SentPacket /\ entry.pkt = front.pkt /\ entry.sacked = FALSE
  BY Zenon, <1>2, <1>4 DEF SentPacket
<1> HIDE DEF m, probe, front, entry
<1>7. mtu' \in [Endpoint -> Mtu] /\ \A x \in Endpoint : mtu'[x].size = mtu[x].size
  BY Zenon, <1>4, <1>5 DEF IInv, TypeOK, SendTypeOK
<1>8. /\ DOMAIN outgoing' = Endpoint
      /\ \A x \in Endpoint : x # e => outgoing'[x] = outgoing[x]
      /\ DOMAIN outgoing'[e] = DOMAIN outgoing[e] \cup {front.seq}
      /\ \A s \in DOMAIN outgoing'[e] :
            outgoing'[e][s] = IF s = front.seq THEN entry ELSE outgoing[e][s]
      /\ outgoing'[e] = [s \in DOMAIN outgoing'[e] |-> outgoing'[e][s]]
  BY Zenon, <1>5 DEF IInv, TypeOK, SendTypeOK
<1>9. /\ send_queue' \in [Endpoint -> Seq(QueuedPacket)]
      /\ \A x \in Endpoint : x # e => send_queue'[x] = send_queue[x]
      /\ send_queue'[e] = Tail(send_queue[e])
  BY <1>1 DEF IInv, TypeOK, SendTypeOK
<1>10. TypeOK'
  <2>1. LifeTypeOK' /\ RecvTypeOK'
    BY Zenon, <1>5 DEF IInv, TypeOK, LifeTypeOK, RecvTypeOK, recvVars, SeqMap
  <2>2. NetTypeOK'
    BY Zenon, <1>2, <1>5 DEF IInv, TypeOK, NetTypeOK
  <2>3. ASSUME NEW x \in Endpoint PROVE SeqMap(outgoing'[x], SentPacket)
    <3>1. SeqMap(outgoing[x], SentPacket)
      BY Zenon DEF IInv, TypeOK, SendTypeOK
    <3>2. CASE x # e
      BY Zenon, <1>8, <3>1, <3>2
    <3>3. CASE x = e
      BY <1>2, <1>6, <1>8, <3>1, <3>3 DEF SeqMap
    <3> QED
      BY Zenon, <3>2, <3>3
  <2>4. SendTypeOK'
    BY Zenon, <1>5, <1>7, <1>8, <1>9, <2>3 DEF IInv, TypeOK, SendTypeOK, SeqMap
  <2> QED
    BY Zenon, <2>1, <2>2, <2>4 DEF TypeOK
<1>11. \A x, p : GoodPacket(x, p)' <=> GoodPacket(x, p)
  BY Zenon, <1>5, SameGood DEF recvVars
<1>12. PacketsOK'
  <2>1. \A p \in net' : GoodPacket(p.src, p)'
    <3>1. front.pkt.src = e
      BY Zenon, <1>3 DEF GoodPacket
    <3> QED
      BY Zenon, <1>3, <1>5, <1>11, <3>1 DEF IInv, PacketsOK
  <2>2. ASSUME NEW x \in Endpoint, NEW i \in 1..Len(send_queue'[x]), NEW q,
               q = send_queue'[x][i]
        PROVE  GoodPacket(x, q.pkt)' /\ q.pkt.seq = q.seq
    <3>1. CASE x # e
      BY <1>9, <1>11, <2>2, <3>1 DEF IInv, PacketsOK
    <3>2. CASE x = e
      <4>1. q = send_queue[e][i + 1] /\ i + 1 \in 1..Len(send_queue[e])
        BY <1>1, <1>9, <2>2, <3>2
      <4> QED
        BY Zenon, <1>11, <3>2, <4>1 DEF IInv, PacketsOK
    <3> QED
      BY Zenon, <3>1, <3>2
  <2>3. ASSUME NEW x \in Endpoint, NEW s \in DOMAIN outgoing'[x], NEW q, q = outgoing'[x][s]
        PROVE  GoodPacket(x, q.pkt)' /\ q.pkt.seq = s
    <3>1. CASE x = e /\ s = front.seq
      BY Zenon, <1>3, <1>6, <1>8, <1>11, <2>3, <3>1
    <3>2. CASE ~(x = e /\ s = front.seq)
      BY <1>8, <1>11, <2>3, <3>2 DEF IInv, PacketsOK
    <3> QED
      BY Zenon, <3>1, <3>2
  <2>4. ASSUME NEW x \in Endpoint
        PROVE  (/\ \A w \in preps[x] : w.ack <= next_remote_seq[x]
                /\ remote_acked[x] <= next_remote_seq[Peer(x)])'
    BY Zenon, <1>5 DEF IInv, PacketsOK, recvVars
  <2> QED
    BY <2>1, <2>2, <2>3, <2>4 DEF PacketsOK
<1>13. SackedIsHeld'
  <2> SUFFICES ASSUME NEW x \in Endpoint, NEW s \in DOMAIN outgoing'[x], outgoing'[x][s].sacked
               PROVE  s < next_remote_seq[Peer(x)] \/ s \in DOMAIN recv_buf[Peer(x)]
    BY Zenon, <1>5 DEF SackedIsHeld, recvVars
  <2> QED
    BY <1>6, <1>8 DEF IInv, SackedIsHeld
<1>14. \A x \in Endpoint : mtu[x].size <= mtu'[x].size
  <2> SUFFICES ASSUME NEW x \in Endpoint PROVE mtu[x].size \in Nat
    BY <1>7
  <2>1. mtu[x] \in Mtu
    BY Zenon DEF IInv, TypeOK, SendTypeOK
  <2> QED
    BY <2>1, BoundAssumption DEF Mtu
<1>15. /\ UNCHANGED <<next_seq, written, preps, wire, acked_to, next_remote_seq, recv_buf, log>>
       /\ \A x \in Endpoint : ended[x] => ended'[x]
       /\ \A x \in Endpoint : pending_writes'[x] \subseteq pending_writes[x]
  BY Zenon, <1>5 DEF recvVars
<1> QED
  BY Zenon, <1>10, <1>12, <1>13, <1>14, <1>15, QuietStep

\* A retransmission timeout sends again packets that were already on the wire.
LEMMA RtoInv ==
    ASSUME IInv, NEW e \in Endpoint, RtoRetransmit(e)
    PROVE  IInv'
<1> DEFINE again == Unsacked(outgoing[e])
<1>1. /\ rto_timeouts' = [rto_timeouts EXCEPT ![e] = @ + 1]
      /\ mtu' = [mtu EXCEPT ![e] =
             IF \E s \in again : outgoing[e][s].probe THEN ProbeFailed(@) ELSE @]
      /\ outgoing' = [outgoing EXCEPT ![e] =
             [s \in DOMAIN @ |-> IF s \in again THEN [@[s] EXCEPT !.probe = FALSE] ELSE @[s]]]
      /\ net' = IF connected[e] THEN net \cup {outgoing[e][s].pkt : s \in again} ELSE net
      /\ UNCHANGED <<next_seq, written, preps, pending_writes, send_queue, remote_acked,
                     wire, acked_to, lifeVars, recvVars, losses>>
  BY Zenon DEF RtoRetransmit
<1>2. again \subseteq DOMAIN outgoing[e]
  BY Zenon DEF Unsacked
<1> HIDE DEF again
<1>3. mtu' \in [Endpoint -> Mtu] /\ \A x \in Endpoint : mtu'[x].size = mtu[x].size
  BY Zenon, <1>1, ProbeFailedType DEF IInv, TypeOK, SendTypeOK
<1>4. /\ DOMAIN outgoing' = Endpoint
      /\ \A x \in Endpoint : x # e => outgoing'[x] = outgoing[x]
      /\ DOMAIN outgoing'[e] = DOMAIN outgoing[e]
      /\ \A s \in DOMAIN outgoing'[e] :
            outgoing'[e][s] = IF s \in again THEN [outgoing[e][s] EXCEPT !.probe = FALSE]
                                             ELSE outgoing[e][s]
      /\ outgoing'[e] = [s \in DOMAIN outgoing'[e] |-> outgoing'[e][s]]
  BY Zenon, <1>1 DEF IInv, TypeOK, SendTypeOK
<1>5. \A x \in Endpoint : \A s \in DOMAIN outgoing[x] :
         /\ outgoing[x][s] \in SentPacket
         /\ outgoing[x][s].pkt \in DataPackets /\ outgoing[x][s].sacked \in BOOLEAN
         /\ [outgoing[x][s] EXCEPT !.probe = FALSE] \in SentPacket
         /\ [outgoing[x][s] EXCEPT !.probe = FALSE].pkt = outgoing[x][s].pkt
         /\ [outgoing[x][s] EXCEPT !.probe = FALSE].sacked = outgoing[x][s].sacked
  <2> SUFFICES ASSUME NEW x \in Endpoint, NEW s \in DOMAIN outgoing[x]
               PROVE  outgoing[x][s] \in SentPacket
    BY ZenonT(60) DEF SentPacket
  <2> QED
    BY Zenon DEF IInv, TypeOK, SendTypeOK, SeqMap
<1>6. \A x \in Endpoint : /\ DOMAIN outgoing'[x] = DOMAIN outgoing[x]
                          /\ \A s \in DOMAIN outgoing[x] :
                                /\ outgoing'[x][s] \in SentPacket
                                /\ outgoing'[x][s].pkt = outgoing[x][s].pkt
                                /\ outgoing'[x][s].sacked = outgoing[x][s].sacked
  <2> SUFFICES ASSUME NEW x \in Endpoint
               PROVE  /\ DOMAIN outgoing'[x] = DOMAIN outgoing[x]
                      /\ \A s \in DOMAIN outgoing[x] :
                                /\ outgoing'[x][s] \in SentPacket
                                /\ outgoing'[x][s].pkt = outgoing[x][s].pkt
                                /\ outgoing'[x][s].sacked = outgoing[x][s].sacked
    BY Zenon
  <2>1. CASE x # e
    BY ZenonT(60), <1>4, <1>5, <2>1
  <2>2. CASE x = e
    <3>1. ASSUME NEW s \in DOMAIN outgoing[e], s \in again
          PROVE  /\ outgoing'[e][s] \in SentPacket /\ outgoing'[e][s].pkt = outgoing[e][s].pkt
                 /\ outgoing'[e][s].sacked = outgoing[e][s].sacked
      <4>1. outgoing'[e][s] = [outgoing[e][s] EXCEPT !.probe = FALSE]
        BY Zenon, <1>4, <3>1
      <4> QED
        BY Zenon, <1>5, <4>1, Unprobed
    <3>2. ASSUME NEW s \in DOMAIN outgoing[e], s \notin again
          PROVE  outgoing'[e][s] = outgoing[e][s]
      BY ZenonT(60), <1>4, <3>2
    <3> QED
      BY ZenonT(60), <1>4, <1>5, <2>2, <3>1, <3>2
  <2> QED
    BY Zenon, <2>1, <2>2
<1>7. TypeOK'
  <2>1. LifeTypeOK' /\ RecvTypeOK'
    BY Zenon, <1>1 DEF IInv, TypeOK, LifeTypeOK, RecvTypeOK, lifeVars, recvVars, SeqMap
  <2>2. NetTypeOK'
    <3>1. ASSUME NEW s \in again PROVE outgoing[e][s].pkt \in DataPackets
      BY ZenonT(60), <1>2, <1>5
    <3> QED
      BY Zenon, <1>1, <3>1 DEF IInv, TypeOK, NetTypeOK
  <2>3. ASSUME NEW x \in Endpoint PROVE SeqMap(outgoing'[x], SentPacket)
    BY ZenonT(60), <1>4, <1>6 DEF IInv, TypeOK, SendTypeOK, SeqMap
  <2>4. SendTypeOK'
    <3>1. rto_timeouts' \in [Endpoint -> Nat]
      BY <1>1 DEF IInv, TypeOK, SendTypeOK
    <3>2. \A x \in Endpoint : SeqMap(wire'[x], Chunk)
      BY Zenon, <1>1 DEF IInv, TypeOK, SendTypeOK
    <3> QED
      BY ZenonT(60), <1>1, <1>3, <1>4, <2>3, <3>1, <3>2 DEF IInv, TypeOK, SendTypeOK
  <2> QED
    BY Zenon, <2>1, <2>2, <2>4 DEF TypeOK
<1>8. \A x, p : GoodPacket(x, p)' <=> GoodPacket(x, p)
  BY Zenon, <1>1, SameGood DEF recvVars
<1>9. PacketsOK'
  <2>1. \A s \in DOMAIN outgoing[e] :
           GoodPacket(e, outgoing[e][s].pkt) /\ outgoing[e][s].pkt.src = e
    <3>1. \A s \in DOMAIN outgoing[e] : GoodPacket(e, outgoing[e][s].pkt)
      BY Zenon DEF IInv, PacketsOK
    <3>2. \A s \in DOMAIN outgoing[e] : outgoing[e][s].pkt.src = e
      BY Zenon, <3>1 DEF GoodPacket
    <3> QED
      BY Zenon, <3>1, <3>2
  <2>2. \A p \in net' : GoodPacket(p.src, p)'
    BY SMTT(30), <1>1, <1>2, <1>8, <2>1 DEF IInv, PacketsOK
  <2>3. ASSUME NEW x \in Endpoint, NEW s \in DOMAIN outgoing'[x], NEW q, q = outgoing'[x][s]
        PROVE  GoodPacket(x, q.pkt)' /\ q.pkt.seq = s
    <3>1. s \in DOMAIN outgoing[x] /\ q.pkt = outgoing[x][s].pkt
      BY ZenonT(60), <1>4, <1>6, <2>3
    <3>2. GoodPacket(x, outgoing[x][s].pkt) /\ outgoing[x][s].pkt.seq = s
      BY Zenon, <3>1 DEF IInv, PacketsOK
    <3> QED
      BY Zenon, <1>8, <3>1, <3>2
  <2>4. ASSUME NEW x \in Endpoint
        PROVE  (/\ \A i \in 1..Len(send_queue[x]) : GoodPacket(x, send_queue[x][i].pkt)
                      /\ send_queue[x][i].pkt.seq = send_queue[x][i].seq
                /\ \A w \in preps[x] : w.ack <= next_remote_seq[x]
                /\ remote_acked[x] <= next_remote_seq[Peer(x)])'
    BY Zenon, <1>1, <1>8 DEF IInv, PacketsOK, recvVars
  <2> QED
    BY SMTT(30), <2>2, <2>3, <2>4 DEF PacketsOK
<1>10. SackedIsHeld'
  BY <1>1, <1>6 DEF IInv, SackedIsHeld, recvVars
<1>11. \A x \in Endpoint : mtu[x].size <= mtu'[x].size
  <2> SUFFICES ASSUME NEW x \in Endpoint PROVE mtu[x].size \in Nat
    BY <1>3
  <2>1. mtu[x] \in Mtu
    BY Zenon DEF IInv, TypeOK, SendTypeOK
  <2> QED
    BY <2>1, BoundAssumption DEF Mtu
<1>12. /\ UNCHANGED <<next_seq, written, preps, wire, acked_to, next_remote_seq, recv_buf, log>>
       /\ \A x \in Endpoint : ended[x] => ended'[x]
       /\ \A x \in Endpoint : pending_writes'[x] \subseteq pending_writes[x]
  BY Zenon, <1>1 DEF recvVars, lifeVars
<1> QED
  BY Zenon, <1>7, <1>9, <1>10, <1>11, <1>12, QuietStep

==============================================================================
