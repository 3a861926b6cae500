-------------------------- MODULE UdxStreamTheorems --------------------------
(*****************************************************************************)
(* The steps that take a packet from the network keep IInv, and the theorems *)
(* about UdxStream: IInv is inductive, the promises of the stream follow     *)
(* from it, and the pair of streams over a lossy network implements          *)
(* ReliableStream.                                                           *)
(*****************************************************************************)
EXTENDS UdxStreamProofs

\* queue_for_send cuts the reserved range into exactly the reserved packets, whatever the
\* MTU has become between the two locks of a write.
LEMMA QueueInv ==
    ASSUME IInv, NEW e \in Endpoint, NEW w \in preps[e], NEW size \in MtuBase..MtuMax,
           QueueForSend(e, w, size)
    PROVE  IInv'
<1> DEFINE n == IF w.kind = "end" THEN 1 ELSE ChunkCount(w.to - w.from, size)
           W == [lo |-> w.first, hi |-> w.first + w.count, from |-> w.from, to |-> w.to]
           S == w.first..(w.first + n - 1)
           C(i) == [lo |-> w.first + i, hi |-> w.first + i + 1,
                    from |-> ChunkOf(w, size, i).from, to |-> ChunkOf(w, size, i).to]
<1>1. /\ w \in Prep /\ w.first \in Nat /\ w.count \in Nat \ {0} /\ w.from \in Nat /\ w.to \in Nat
      /\ w.ack \in Nat /\ w.kind \in {"data", "end"} /\ w.resolved \in BOOLEAN
      /\ next_seq[e] \in 0..MaxSeq /\ written[e] \in Nat /\ MaxSeq \in Nat
  <2>1. w \in Prep
    BY Zenon DEF IInv, TypeOK, SendTypeOK
  <2> QED
    BY <2>1, BoundAssumption DEF IInv, TypeOK, SendTypeOK, Prep, Seqs
<1>2. W \in Stretches(e)
  BY Zenon DEF Stretches
<1>3. /\ w.from <= w.to /\ w.to <= written[e] /\ w.first + w.count <= next_seq[e]
      /\ w.first = 0 => w.from = 0
      /\ w.first + w.count = next_seq[e] => w.to = written[e]
      /\ \A y \in Stretches(e) : /\ w.first + w.count <= y.lo => w.to <= y.from
                                 /\ w.first + w.count = y.lo => w.to = y.from
                                 /\ y.hi <= w.first => y.to <= w.from
                                 /\ y.hi = w.first => y.to = w.from
  <2>1. W.lo = w.first /\ W.hi = w.first + w.count /\ W.from = w.from /\ W.to = w.to
    BY Zenon
  <2> HIDE DEF W
  <2> QED
    BY <1>2, <2>1 DEF IInv, Layout
<1>4. w.size <= size /\ (e \in Adapter => size = w.size)
  BY <1>1, BoundAssumption DEF QueueForSend, Prep, IInv, TypeOK, SendTypeOK, Mtu
<1>5. /\ w.kind = "data" => w.count = ChunkCount(w.to - w.from, w.size)
      /\ w.kind = "end" => w.count = 1 /\ w.from = w.to
      /\ \A s \in DOMAIN wire[e] : s < w.first \/ s >= w.first + w.count
      /\ \A v \in preps[e] : v # w => v.first + v.count <= w.first \/ w.first + w.count <= v.first
  BY Zenon DEF IInv, PrepsApart
<1>6. /\ n \in Nat \ {0} /\ n <= w.count
      /\ \A i \in 0..(n - 1) :
            /\ ChunkOf(w, size, i) \in Chunk /\ ChunkOf(w, size, i).kind = w.kind
            /\ w.from <= ChunkOf(w, size, i).from
            /\ ChunkOf(w, size, i).from <= ChunkOf(w, size, i).to
            /\ ChunkOf(w, size, i).to <= w.to
            /\ i + 1 = n => ChunkOf(w, size, i).to = w.to
      /\ ChunkOf(w, size, 0).from = w.from
      /\ \A i, j \in 0..(n - 1) :
            /\ i < j => ChunkOf(w, size, i).to <= ChunkOf(w, size, j).from
            /\ i + 1 = j => ChunkOf(w, size, i).to = ChunkOf(w, size, j).from
  <2> DEFINE m == n
  <2>1. m = IF w.kind = "end" THEN 1 ELSE ChunkCount(w.to - w.from, size)
    BY Zenon
  <2> HIDE DEF m
  <2>2. /\ m \in Nat \ {0} /\ m <= w.count
        /\ \A i \in 0..(m - 1) :
            /\ ChunkOf(w, size, i) \in Chunk /\ ChunkOf(w, size, i).kind = w.kind
            /\ w.from <= ChunkOf(w, size, i).from
            /\ ChunkOf(w, size, i).from <= ChunkOf(w, size, i).to
            /\ ChunkOf(w, size, i).to <= w.to
            /\ i + 1 = m => ChunkOf(w, size, i).to = w.to
        /\ ChunkOf(w, size, 0).from = w.from
        /\ \A i, j \in 0..(m - 1) :
            /\ i < j => ChunkOf(w, size, i).to <= ChunkOf(w, size, j).from
            /\ i + 1 = j => ChunkOf(w, size, i).to = ChunkOf(w, size, j).from
    BY <1>1, <1>3, <1>4, <1>5, <2>1, ChunkFacts
  <2> QED
    BY Zenon, <2>1, <2>2
<1>7. /\ preps' = [preps EXCEPT ![e] = @ \ {w}]
      /\ send_queue' = [send_queue EXCEPT ![e] = @ \o
             [i \in 1..n |->
                [seq  |-> w.first + i - 1, resolved |-> w.resolved,
                 pkt  |-> DataPacket(e, w.first + i - 1, w.ack, ChunkOf(w, size, i - 1))]]]
      /\ wire' = [wire EXCEPT ![e] = [s \in DOMAIN @ \cup S |->
                     IF s \in DOMAIN @ THEN @[s] ELSE ChunkOf(w, size, s - w.first)]]
      /\ UNCHANGED <<next_seq, written, pending_writes, outgoing, remote_acked, rto_timeouts,
                     mtu, acked_to, lifeVars, recvVars, netVars>>
  BY Zenon DEF QueueForSend
<1> HIDE DEF n
<1>8. /\ DOMAIN wire'[e] = DOMAIN wire[e] \cup S
      /\ \A s \in DOMAIN wire[e] : wire'[e][s] = wire[e][s]
      /\ \A s \in S : s \notin DOMAIN wire[e] /\ wire'[e][s] = ChunkOf(w, size, s - w.first)
      /\ \A x \in Endpoint : x # e => wire'[x] = wire[x]
      /\ DOMAIN wire' = Endpoint
  <2>1. DOMAIN wire = Endpoint
    BY Zenon DEF IInv, TypeOK, SendTypeOK
  <2>2. \A s \in S : s \notin DOMAIN wire[e]
    BY <1>1, <1>5, <1>6
  <2> QED
    BY Zenon, <1>7, <2>1, <2>2
<1>9. S \subseteq Seqs /\ \A s \in S : s - w.first \in 0..(n - 1) /\ s \in Nat
  BY <1>1, <1>3, <1>6 DEF Seqs
<1>10. \A x \in Endpoint : preps'[x] = IF x = e THEN preps[x] \ {w} ELSE preps[x]
  BY ZenonT(60), <1>7 DEF IInv, TypeOK, SendTypeOK
<1>11. TypeOK'
  <2>1. LifeTypeOK' /\ RecvTypeOK' /\ NetTypeOK'
    BY Zenon, <1>7 DEF IInv, TypeOK, LifeTypeOK, RecvTypeOK, NetTypeOK, lifeVars, recvVars, netVars,
                SeqMap
  <2>2. preps' \in [Endpoint -> SUBSET Prep]
    BY Zenon, <1>7 DEF IInv, TypeOK, SendTypeOK
  <2>3. ASSUME NEW x \in Endpoint PROVE SeqMap(wire'[x], Chunk)
    <3>1. CASE x # e
      BY Zenon, <1>8, <3>1 DEF IInv, TypeOK, SendTypeOK, SeqMap
    <3>2. CASE x = e
      <4>1. SeqMap(wire[e], Chunk)
        BY Zenon DEF IInv, TypeOK, SendTypeOK
      <4>2. \A s \in DOMAIN wire'[e] : s \in Seqs /\ wire'[e][s] \in Chunk
        BY <1>6, <1>8, <1>9, <4>1 DEF SeqMap
      <4>3. wire'[e] = [s \in DOMAIN wire'[e] |-> wire'[e][s]]
        BY Zenon, <1>7 DEF IInv, TypeOK, SendTypeOK
      <4> QED
        BY Zenon, <3>2, <4>2, <4>3 DEF SeqMap
    <3> QED
      BY Zenon, <3>1, <3>2
  <2> DEFINE q == [i \in 1..n |->
                     [seq  |-> w.first + i - 1, resolved |-> w.resolved,
                      pkt  |-> DataPacket(e, w.first + i - 1, w.ack, ChunkOf(w, size, i - 1))]]
  <2>4. q \in Seq(QueuedPacket)
    <3>1. ASSUME NEW i \in 1..n PROVE q[i] \in QueuedPacket
      <4>1. w.first + i - 1 \in Seqs /\ i - 1 \in 0..(n - 1)
        BY <1>1, <1>3, <1>6 DEF Seqs
      <4>2. DataPacket(e, w.first + i - 1, w.ack, ChunkOf(w, size, i - 1)) \in DataPackets
        BY Zenon, <1>1, <1>6, <4>1 DEF DataPacket, DataPackets
      <4> QED
        BY Zenon, <1>1, <4>1, <4>2 DEF QueuedPacket
    <3>2. q \in [1..n -> QueuedPacket]
      BY Zenon, <3>1
    <3> HIDE DEF q
    <3> QED
      BY <1>6, <3>2
  <2>5. send_queue' \in [Endpoint -> Seq(QueuedPacket)]
    <3>1. send_queue \in [Endpoint -> Seq(QueuedPacket)]
      BY Zenon DEF IInv, TypeOK, SendTypeOK
    <3>2. send_queue' = [send_queue EXCEPT ![e] = @ \o q]
      BY Zenon, <1>7
    <3> HIDE DEF q
    <3>3. send_queue[e] \in Seq(QueuedPacket)
      BY Zenon, <3>1
    <3>4. send_queue[e] \o q \in Seq(QueuedPacket)
      BY <2>4, <3>3
    <3> QED
      BY Zenon, <3>1, <3>2, <3>4
  <2>6. SendTypeOK'
    BY ZenonT(40), <1>7, <1>8, <2>2, <2>3, <2>5 DEF IInv, TypeOK, SendTypeOK, SeqMap
  <2> QED
    BY Zenon, <2>1, <2>6 DEF TypeOK
<1>12. \A x \in Endpoint : \A s \in DOMAIN wire[x] :
          s \in DOMAIN wire'[x] /\ wire'[x][s] = wire[x][s]
  BY Zenon, <1>8
<1>13. InOrder' /\ BufferOK' /\ SackedIsHeld' /\ AckedIsDelivered'
  <2>1. InOrder' /\ BufferOK'
    BY <1>7, <1>12, PeerFacts DEF IInv, InOrder, BufferOK, recvVars
  <2>2. SackedIsHeld' /\ AckedIsDelivered'
    BY Zenon, <1>7 DEF IInv, SackedIsHeld, AckedIsDelivered, Delivered, recvVars
  <2> QED
    BY Zenon, <2>1, <2>2
<1>14. ASSUME NEW x \in Stretches(e)'
       PROVE  \/ x \in Stretches(e) /\ (x.hi <= w.first \/ w.first + w.count <= x.lo)
              \/ \E i \in 0..(n - 1) : x = C(i)
  <2>1. CASE \E v \in preps'[e] : x = [lo |-> v.first, hi |-> v.first + v.count,
                                       from |-> v.from, to |-> v.to]
    <3>1. PICK v \in preps'[e] : x = [lo |-> v.first, hi |-> v.first + v.count,
                                      from |-> v.from, to |-> v.to]
      BY Zenon, <2>1
    <3>2. v \in preps[e] /\ v # w
      BY ZenonT(60), <1>10, <3>1
    <3>3. x \in Stretches(e)
      BY Zenon, <3>1, <3>2 DEF Stretches
    <3> QED
      BY Zenon, <1>5, <3>1, <3>2, <3>3
  <2>2. CASE \E s \in DOMAIN wire'[e] : x = [lo |-> s, hi |-> s + 1,
                            from |-> wire'[e][s].from, to |-> wire'[e][s].to]
    <3>1. PICK s \in DOMAIN wire'[e] : x = [lo |-> s, hi |-> s + 1,
                            from |-> wire'[e][s].from, to |-> wire'[e][s].to]
      BY Zenon, <2>2
    <3>2. CASE s \in DOMAIN wire[e]
      <4>1. x \in Stretches(e)
        BY Zenon, <1>8, <3>1, <3>2 DEF Stretches
      <4>2. s \in Nat
        BY <3>2, BoundAssumption DEF IInv, TypeOK, SendTypeOK, SeqMap, Seqs
      <4> QED
        BY <1>1, <1>5, <3>1, <3>2, <4>1, <4>2
    <3>3. CASE s \in S
      <4>1. s - w.first \in 0..(n - 1) /\ s = w.first + (s - w.first)
        BY <1>1, <1>9, <3>3
      <4>2. x = C(s - w.first)
        BY Zenon, <1>8, <3>1, <3>3, <4>1
      <4> QED
        BY Zenon, <4>1, <4>2
    <3> QED
      BY Zenon, <1>8, <3>2, <3>3
  <2> QED
    BY Zenon, <2>1, <2>2 DEF Stretches
<1>15. ASSUME NEW i \in 0..(n - 1)
       PROVE  /\ C(i).lo = w.first + i /\ C(i).hi = w.first + i + 1
              /\ C(i).from = ChunkOf(w, size, i).from /\ C(i).to = ChunkOf(w, size, i).to
              /\ ChunkOf(w, size, i).from \in Nat /\ ChunkOf(w, size, i).to \in Nat
  BY Zenon, <1>6 DEF Chunk
<1>16. \A x \in Stretches(e) : /\ x.lo \in Nat /\ x.hi \in Nat /\ x.from \in Nat /\ x.to \in Nat
                               /\ x.lo < x.hi
  BY Zenon, StretchTypes DEF IInv
<1>17. \A x \in Endpoint : x # e => Stretches(x)' = Stretches(x)
  <2> SUFFICES ASSUME NEW x \in Endpoint, x # e PROVE Stretches(x)' = Stretches(x)
    BY Zenon
  <2>1. preps'[x] = preps[x] /\ wire'[x] = wire[x]
    BY ZenonT(60), <1>8, <1>10
  <2> QED
    BY Zenon, <2>1 DEF Stretches
<1> HIDE DEF C, W, S
<1>18. Layout'
  <2>1. ASSUME NEW x \in Endpoint, x # e
        PROVE  /\ next_seq'[x] = 0 => written'[x] = 0
               /\ \A y \in Stretches(x)' :
                     /\ y.from <= y.to /\ y.to <= written'[x] /\ y.hi <= next_seq'[x]
                     /\ y.lo = 0 => y.from = 0
                     /\ y.hi = next_seq'[x] => y.to = written'[x]
                     /\ \A z \in Stretches(x)' : y.hi <= z.lo => y.to <= z.from
                     /\ \A z \in Stretches(x)' : y.hi = z.lo => y.to = z.from
    BY <1>7, <1>17, <2>1 DEF IInv, Layout
  <2>2. /\ next_seq[e] = 0 => written[e] = 0
        /\ \A y \in Stretches(e) :
              /\ y.from <= y.to /\ y.to <= written[e] /\ y.hi <= next_seq[e]
              /\ y.lo = 0 => y.from = 0
              /\ y.hi = next_seq[e] => y.to = written[e]
              /\ \A z \in Stretches(e) : /\ y.hi <= z.lo => y.to <= z.from
                                         /\ y.hi = z.lo => y.to = z.from
    BY Zenon DEF IInv, Layout
  <2>3. ASSUME NEW y \in Stretches(e)'
        PROVE  /\ y.from <= y.to /\ y.to <= written[e] /\ y.hi <= next_seq[e]
               /\ y.lo = 0 => y.from = 0
               /\ y.hi = next_seq[e] => y.to = written[e]
    <3>1. CASE y \in Stretches(e)
      BY Zenon, <2>2, <3>1
    <3>2. ASSUME NEW i \in 0..(n - 1), y = C(i)
          PROVE  /\ y.from <= y.to /\ y.to <= written[e] /\ y.hi <= next_seq[e]
                 /\ y.lo = 0 => y.from = 0
                 /\ y.hi = next_seq[e] => y.to = written[e]
      <4>1. i \in Nat /\ i + 1 <= n /\ n <= w.count
        BY <1>6
      <4>2. y.from <= y.to /\ y.to <= written[e] /\ y.hi <= next_seq[e]
        BY <1>1, <1>3, <1>6, <1>15, <3>2, <4>1
      <4>3. y.lo = 0 => y.from = 0
        <5>1. y.lo = 0 => i = 0 /\ w.first = 0
          BY <1>1, <1>15, <3>2, <4>1
        <5>2. i = 0 => y.from = w.from
          BY Zenon, <1>6, <1>15, <3>2
        <5> QED
          BY Zenon, <1>3, <5>1, <5>2
      <4>4. y.hi = next_seq[e] => y.to = written[e]
        <5>0. next_seq[e] \in Nat /\ y.hi = w.first + i + 1 /\ n \in Nat
          BY <1>1, <1>6, <1>15, <3>2
        <5>1. y.hi = next_seq[e] => i + 1 = n /\ w.first + w.count = next_seq[e]
          BY <1>1, <1>3, <4>1, <5>0
        <5> QED
          BY Zenon, <1>3, <1>6, <1>15, <3>2, <5>1
      <4> QED
        BY Zenon, <4>2, <4>3, <4>4
    <3> QED
      BY Zenon, <1>14, <3>1, <3>2
  <2>4. ASSUME NEW y \in Stretches(e)', NEW z \in Stretches(e)'
        PROVE  /\ y.hi <= z.lo => y.to <= z.from
               /\ y.hi = z.lo => y.to = z.from
    <3>1. CASE y \in Stretches(e) /\ z \in Stretches(e)
      BY Zenon, <2>2, <3>1
    <3>2. ASSUME NEW i \in 0..(n - 1), y = C(i), NEW j \in 0..(n - 1), z = C(j)
          PROVE  /\ y.hi <= z.lo => y.to <= z.from
                 /\ y.hi = z.lo => y.to = z.from
      BY <1>1, <1>6, <1>15, <3>2
    <3>3. ASSUME NEW i \in 0..(n - 1), y = C(i), z \in Stretches(e),
                 z.hi <= w.first \/ w.first + w.count <= z.lo
          PROVE  /\ y.hi <= z.lo => y.to <= z.from
                 /\ y.hi = z.lo => y.to = z.from
      <4>1. y.hi <= z.lo => w.first + w.count <= z.lo
        BY <1>1, <1>6, <1>15, <1>16, <3>3
      <4>2. y.hi <= z.lo => w.to <= z.from /\ y.to <= w.to
        BY Zenon, <1>3, <1>6, <1>15, <3>3, <4>1
      <4>3. y.hi = z.lo => y.hi = w.first + w.count /\ i + 1 = n
        BY <1>1, <1>6, <1>15, <1>16, <3>3, <4>1
      <4>4. y.hi = z.lo => w.to = z.from /\ y.to = w.to
        BY Zenon, <1>3, <1>6, <1>15, <3>3, <4>3
      <4> QED
        BY <1>1, <1>15, <1>16, <3>3, <4>2, <4>4
    <3>4. ASSUME NEW j \in 0..(n - 1), z = C(j), y \in Stretches(e),
                 y.hi <= w.first \/ w.first + w.count <= y.lo
          PROVE  /\ y.hi <= z.lo => y.to <= z.from
                 /\ y.hi = z.lo => y.to = z.from
      <4>1. y.hi <= z.lo => y.hi <= w.first
        BY <1>1, <1>6, <1>15, <1>16, <3>4
      <4>2. y.hi <= z.lo => y.to <= w.from /\ w.from <= z.from
        BY Zenon, <1>3, <1>6, <1>15, <3>4, <4>1
      <4>3. y.hi = z.lo => y.hi = w.first /\ j = 0
        BY <1>1, <1>6, <1>15, <1>16, <3>4, <4>1
      <4>4. y.hi = z.lo => y.to = w.from /\ z.from = w.from
        BY Zenon, <1>3, <1>6, <1>15, <3>4, <4>3
      <4> QED
        BY <1>1, <1>15, <1>16, <3>4, <4>2, <4>4
    <3> QED
      BY Zenon, <1>14, <3>1, <3>2, <3>3, <3>4
  <2>5. next_seq' = next_seq /\ written' = written
    BY Zenon, <1>7
  <2> QED
    BY <2>1, <2>2, <2>3, <2>4, <2>5 DEF Layout
<1>19. PrepsApart'
  <2> SUFFICES ASSUME NEW x \in Endpoint, NEW v \in preps'[x]
               PROVE  \A s \in DOMAIN wire'[x] : s < v.first \/ s >= v.first + v.count
    BY <1>7, <1>10 DEF IInv, PrepsApart
  <2>1. CASE x # e
    BY ZenonT(60), <1>8, <1>10, <2>1 DEF IInv, PrepsApart
  <2>2. CASE x = e
    <3>1. v \in preps[e] /\ v # w
      BY ZenonT(60), <1>10, <2>2
    <3>2. v.first \in Nat /\ v.count \in Nat
      <4>1. v \in Prep
        BY Zenon, <3>1 DEF IInv, TypeOK, SendTypeOK
      <4> QED
        BY <4>1, BoundAssumption DEF Prep, Seqs
    <3>3. \A s \in DOMAIN wire[e] : s < v.first \/ s >= v.first + v.count
      BY Zenon, <3>1 DEF IInv, PrepsApart
    <3>4. \A s \in S : s < v.first \/ s >= v.first + v.count
      BY <1>1, <1>5, <1>6, <3>1, <3>2 DEF S
    <3> QED
      BY Zenon, <1>8, <2>2, <3>3, <3>4
  <2> QED
    BY Zenon, <2>1, <2>2
<1>20. EndIsLast'
  <2>1. w.kind = "end" => ended[e] /\ w.first + 1 = next_seq[e] /\ n = 1
    BY Zenon DEF IInv, EndIsLast, n
  <2>2. \A s \in S : wire'[e][s].kind = "end" => ended[e] /\ s + 1 = next_seq[e]
    BY <1>1, <1>6, <1>8, <1>9, <2>1 DEF S
  <2>3. /\ \A x \in Endpoint : \A s \in DOMAIN wire[x] :
              wire[x][s].kind = "end" => ended[x] /\ s + 1 = next_seq[x]
        /\ \A x \in Endpoint : \A v \in preps[x] :
              v.kind = "end" => ended[x] /\ v.first + 1 = next_seq[x]
    BY Zenon DEF IInv, EndIsLast
  <2>4. \A x \in Endpoint : \A s \in DOMAIN wire'[x] :
              wire'[x][s].kind = "end" => ended[x] /\ s + 1 = next_seq[x]
    BY <1>8, <2>2, <2>3
  <2>5. ended' = ended /\ next_seq' = next_seq
    BY Zenon, <1>7 DEF lifeVars
  <2> QED
    BY ZenonT(60), <1>10, <2>3, <2>4, <2>5 DEF EndIsLast
<1>21. PendingOK'
  <2>1. ASSUME NEW q \in pending_writes[e], NEW x \in Stretches(e)'
        PROVE  /\ x.hi = q.threshold => x.to = q.to
               /\ q.threshold <= x.lo \/ x.hi <= q.threshold
    <3>1. /\ q.threshold \in Nat
          /\ \A y \in Stretches(e) : y.hi = q.threshold => y.to = q.to
          /\ \A y \in Stretches(e) : q.threshold <= y.lo \/ y.hi <= q.threshold
      BY DEF IInv, PendingOK, TypeOK, SendTypeOK, PendingWrite
    <3>2. CASE x \in Stretches(e)
      BY Zenon, <3>1, <3>2
    <3>3. ASSUME NEW i \in 0..(n - 1), x = C(i)
          PROVE  /\ x.hi = q.threshold => x.to = q.to
                 /\ q.threshold <= x.lo \/ x.hi <= q.threshold
      <4>1. W.lo = w.first /\ W.hi = w.first + w.count /\ W.to = w.to
        BY Zenon DEF W
      <4>2. /\ q.threshold <= w.first \/ w.first + w.count <= q.threshold
            /\ w.first + w.count = q.threshold => w.to = q.to
        BY Zenon, <1>2, <3>1, <4>1
      <4>3. x.hi = q.threshold => w.first + w.count = q.threshold /\ i + 1 = n
        BY <1>1, <1>6, <1>15, <3>1, <3>3, <4>2
      <4> QED
        BY <1>1, <1>6, <1>15, <3>1, <3>3, <4>2, <4>3
    <3> QED
      BY Zenon, <1>14, <3>2, <3>3
  <2>2. next_seq' = next_seq /\ pending_writes' = pending_writes
    BY Zenon, <1>7
  <2> QED
    BY <1>17, <2>1, <2>2 DEF IInv, PendingOK
<1>22. PacketsOK'
  <2>1. \A x \in Endpoint : \A p : GoodPacket(x, p) => GoodPacket(x, p)'
    BY Zenon, <1>7, <1>12 DEF GoodPacket, recvVars
  <2>2. \A p \in net' : GoodPacket(p.src, p)'
    BY Zenon, <1>7, <2>1, PacketTypes DEF IInv, PacketsOK, netVars
  <2>3. ASSUME NEW x \in Endpoint
        PROVE  /\ (\A s \in DOMAIN outgoing[x] :
                     GoodPacket(x, outgoing[x][s].pkt) /\ outgoing[x][s].pkt.seq = s)'
               /\ \A v \in preps'[x] : v.ack <= next_remote_seq'[x]
               /\ remote_acked'[x] <= next_remote_seq'[Peer(x)]
    <3>1. outgoing' = outgoing /\ remote_acked' = remote_acked /\ next_remote_seq' = next_remote_seq
      BY Zenon, <1>7 DEF recvVars
    <3>2. (\A s \in DOMAIN outgoing[x] :
             GoodPacket(x, outgoing[x][s].pkt) /\ outgoing[x][s].pkt.seq = s)'
      BY <2>1, <3>1 DEF IInv, PacketsOK
    <3> QED
      BY ZenonT(60), <1>10, <3>1, <3>2 DEF IInv, PacketsOK
  <2>4. ASSUME NEW x \in Endpoint, NEW i \in 1..Len(send_queue'[x]), NEW p,
               p = send_queue'[x][i].pkt
        PROVE  GoodPacket(x, p)' /\ p.seq = send_queue'[x][i].seq
    <3>1. CASE x # e
      <4>1. send_queue'[x] = send_queue[x]
        BY Zenon, <1>7, <3>1 DEF IInv, TypeOK, SendTypeOK
      <4> QED
        BY <2>1, <2>4, <4>1 DEF IInv, PacketsOK
    <3>2. CASE x = e
      <4> DEFINE q == [j \in 1..n |->
                     [seq  |-> w.first + j - 1, resolved |-> w.resolved,
                      pkt  |-> DataPacket(e, w.first + j - 1, w.ack, ChunkOf(w, size, j - 1))]]
      <4>1. send_queue'[e] = send_queue[e] \o q /\ send_queue[e] \in Seq(QueuedPacket)
        BY ZenonT(60), <1>7 DEF IInv, TypeOK, SendTypeOK
      <4>2. \E T : q \in Seq(T)
        <5> DEFINE T == {q[j] : j \in 1..n}
        <5>1. q \in [1..n -> T] /\ n \in Nat
          BY Zenon, <1>6
        <5> HIDE DEF q, T
        <5>2. q \in Seq(T)
          BY <5>1
        <5> QED
          BY <5>2, Zenon
      <4>3. Len(q) = n
        <5>1. DOMAIN q = 1..n
          BY Zenon
        <5> HIDE DEF q
        <5> QED
          BY <1>6, <4>2, <5>1
      <4>4. ASSUME NEW j \in 1..n
            PROVE GoodPacket(e, q[j].pkt)' /\ q[j].pkt.seq = q[j].seq
        <5>1. w.first + j - 1 \in S /\ (w.first + j - 1) - w.first = j - 1
          BY SMTT(30), <1>1, <1>6 DEF S
        <5>2. /\ w.first + j - 1 \in DOMAIN wire'[e]
              /\ wire'[e][w.first + j - 1] = ChunkOf(w, size, j - 1)
          BY Zenon, <1>8, <5>1
        <5>3. w.ack <= next_remote_seq'[e]
          BY Zenon, <1>7 DEF IInv, PacketsOK, recvVars
        <5>4. /\ q[j].pkt.src = e /\ q[j].pkt.seq = w.first + j - 1 /\ q[j].pkt.ack = w.ack
              /\ q[j].pkt.chunk = ChunkOf(w, size, j - 1) /\ q[j].pkt.sacks = {}
              /\ q[j].seq = w.first + j - 1
          BY Zenon DEF DataPacket
        <5> HIDE DEF q
        <5> QED
          BY Zenon, <5>2, <5>3, <5>4 DEF GoodPacket
      <4> HIDE DEF q
      <4>5. CASE i <= Len(send_queue[e])
        <5>1. i \in 1..Len(send_queue[e]) /\ send_queue'[e][i] = send_queue[e][i]
          BY <3>2, <4>1, <4>2, <4>5
        <5> QED
          BY <2>1, <2>4, <3>2, <5>1 DEF IInv, PacketsOK
      <4>6. CASE i > Len(send_queue[e])
        <5>1. /\ i - Len(send_queue[e]) \in 1..n
              /\ send_queue'[e][i] = q[i - Len(send_queue[e])]
          BY <3>2, <4>1, <4>2, <4>3, <4>6
        <5> QED
          BY Zenon, <2>4, <3>2, <4>4, <5>1
      <4>7. Len(send_queue[e]) \in Nat /\ i \in Nat
        BY <3>2, <4>1, <4>2
      <4> QED
        BY <4>5, <4>6, <4>7
    <3> QED
      BY Zenon, <3>1, <3>2
  <2>5. ASSUME NEW x \in Endpoint
        PROVE  (\A i \in 1..Len(send_queue[x]) : GoodPacket(x, send_queue[x][i].pkt) /\
                  send_queue[x][i].pkt.seq = send_queue[x][i].seq)'
    BY Zenon, <2>4
  <2> QED
    BY Zenon, <2>2, <2>3, <2>5 DEF PacketsOK
<1> QED
  BY Zenon, <1>11, <1>13, <1>18, <1>19, <1>20, <1>21, <1>22 DEF IInv

-----------------------------------------------------------------------------
(* The ACK section of a received packet.                                     *)

\* The chunks of the history are ordered by sequence number.
LEMMA WireMonotone ==
    ASSUME IInv, NEW e \in Endpoint, NEW s \in DOMAIN wire[e], NEW t \in DOMAIN wire[e], s <= t
    PROVE  wire[e][s].to <= wire[e][t].to
<1> DEFINE x == [lo |-> s, hi |-> s + 1, from |-> wire[e][s].from, to |-> wire[e][s].to]
           y == [lo |-> t, hi |-> t + 1, from |-> wire[e][t].from, to |-> wire[e][t].to]
<1>1. x \in Stretches(e) /\ y \in Stretches(e)
  BY Zenon DEF Stretches
<1>2. /\ s \in Nat /\ t \in Nat /\ wire[e][s].to \in Nat /\ wire[e][t].to \in Nat
      /\ wire[e][t].from \in Nat
  BY SMTT(30), BoundAssumption DEF IInv, TypeOK, SendTypeOK, SeqMap, Seqs, Chunk
<1>3. x.hi <= y.lo => x.to <= y.from /\ y.from <= y.to
  BY Zenon, <1>1 DEF IInv, Layout
<1>4. CASE s = t
  BY <1>2, <1>4
<1>5. CASE s < t
  <2>1. x.hi = s + 1 /\ y.lo = t /\ x.to = wire[e][s].to /\ y.from = wire[e][t].from
        /\ y.to = wire[e][t].to
    BY Zenon
  <2> HIDE DEF x, y
  <2> QED
    BY <1>2, <1>3, <1>5, <2>1
<1> QED
  BY <1>2, <1>4, <1>5

\* What a reader has is the end of the chunk below next_remote_seq.
LEMMA DeliveredIs ==
    ASSUME TypeOK, InOrder, NEW e \in Endpoint
    PROVE  Delivered(e) = IF next_remote_seq[e] = 0 THEN 0
                          ELSE wire[Peer(e)][next_remote_seq[e] - 1].to
<1>1. log[e] \in Seq(Chunk) /\ Len(log[e]) = next_remote_seq[e] /\ next_remote_seq[e] \in Nat
  BY BoundAssumption DEF TypeOK, RecvTypeOK, InOrder
<1>2. CASE next_remote_seq[e] = 0
  BY <1>1, <1>2 DEF Delivered
<1>3. CASE next_remote_seq[e] # 0
  <2>1. log[e] # <<>> /\ Len(log[e]) \in 1..next_remote_seq[e]
    BY <1>1, <1>3
  <2>2. log[e][Len(log[e])] = wire[Peer(e)][Len(log[e]) - 1]
    BY Zenon, <1>1, <2>1 DEF InOrder
  <2> QED
    BY Zenon, <1>1, <1>3, <2>1, <2>2 DEF Delivered
<1> QED
  BY Zenon, <1>2, <1>3

\* A write whose last packet the peer has acknowledged was handed on there.
LEMMA ThresholdDelivered ==
    ASSUME IInv, NEW e \in Endpoint, NEW w \in pending_writes[e],
           w.threshold <= next_remote_seq[Peer(e)]
    PROVE  w.to <= Delivered(Peer(e))
<1> DEFINE q == Peer(e)
           s == w.threshold - 1
           t == next_remote_seq[q] - 1
<1>1. q \in Endpoint /\ Peer(q) = e
  BY Zenon, PeerFacts
<1>2. w.threshold \in Nat /\ w.threshold > 0 /\ next_remote_seq[q] \in Nat
  <2>1. w \in PendingWrite /\ w.threshold > 0 /\ next_remote_seq[q] \in 0..MaxSeq
    BY Zenon, <1>1 DEF IInv, PendingOK, TypeOK, SendTypeOK, RecvTypeOK
  <2> QED
    BY <2>1, BoundAssumption DEF PendingWrite
<1>3. s \in Nat /\ t \in Nat /\ s <= t /\ s + 1 = w.threshold
  BY <1>2
<1>4. s \in DOMAIN wire[e] /\ t \in DOMAIN wire[e]
  <2>1. s + 1 \in 1..next_remote_seq[q] /\ t + 1 \in 1..next_remote_seq[q]
        /\ (s + 1) - 1 = s /\ (t + 1) - 1 = t
    BY <1>2, <1>3
  <2> HIDE DEF s, t
  <2>2. \A i \in 1..next_remote_seq[q] : i - 1 \in DOMAIN wire[Peer(q)]
    BY Zenon, <1>1 DEF IInv, InOrder
  <2> QED
    BY Zenon, <1>1, <2>1, <2>2
<1>5. wire[e][s].to = w.to
  <2> DEFINE x == [lo |-> s, hi |-> s + 1, from |-> wire[e][s].from, to |-> wire[e][s].to]
  <2>1. x \in Stretches(e)
    BY Zenon, <1>4 DEF Stretches
  <2>2. x.hi = w.threshold /\ x.to = wire[e][s].to
    BY Zenon, <1>3
  <2> HIDE DEF x
  <2> QED
    BY Zenon, <2>1, <2>2 DEF IInv, PendingOK
<1>6. Delivered(q) = wire[e][t].to
  BY <1>1, <1>2, <1>3, DeliveredIs DEF IInv
<1> HIDE DEF q, s, t
<1>7. wire[e][s].to <= wire[e][t].to
  BY Zenon, <1>3, <1>4, WireMonotone
<1> QED
  BY Zenon, <1>5, <1>6, <1>7 DEF q

\* A packet from the peer acknowledges only what the peer has, or holds.
LEMMA IncomingGood ==
    ASSUME IInv, NEW e \in Endpoint, NEW p \in Incoming(e)
    PROVE  /\ p \in DataPackets \cup ControlPackets /\ p.src = Peer(e)
           /\ p.ack \in Nat /\ p.ack <= next_remote_seq[Peer(e)]
           /\ \A s \in p.sacks :
                 s < next_remote_seq[Peer(e)] \/ s \in DOMAIN recv_buf[Peer(e)]
           /\ p.kind \in {"data", "end"} =>
                 p.seq \in Seqs /\ p.seq \in DOMAIN wire[Peer(e)] /\ p.chunk = wire[Peer(e)][p.seq]
<1>1. p \in net /\ p.src = Peer(e)
  BY Zenon DEF Incoming
<1>2. p \in DataPackets \cup ControlPackets
  BY Zenon, <1>1 DEF IInv, TypeOK, NetTypeOK
<1>3. p.ack \in Nat /\ (p.kind \in {"data", "end"} => p.seq \in Seqs)
  BY Zenon, <1>2 DEF DataPackets, ControlPackets
<1>4. GoodPacket(Peer(e), p)
  BY Zenon, <1>1 DEF IInv, PacketsOK
<1> QED
  BY Zenon, <1>1, <1>2, <1>3, <1>4 DEF GoodPacket

\* What ProcessAck leaves behind.
AckOutcome(e, p) ==
    /\ remote_acked' \in [Endpoint -> Nat]
    /\ \A x \in Endpoint : remote_acked'[x] <= next_remote_seq[Peer(x)]
    /\ rto_timeouts' \in [Endpoint -> Nat]
    /\ mtu' \in [Endpoint -> Mtu] /\ \A x \in Endpoint : mtu[x].size <= mtu'[x].size
    /\ pending_writes' \in [Endpoint -> SUBSET PendingWrite]
    /\ \A x \in Endpoint : pending_writes'[x] \subseteq pending_writes[x]
    /\ acked_to' \in [Endpoint -> Nat]
    /\ \A x \in Endpoint : acked_to'[x] <= Delivered(Peer(x))
    /\ DOMAIN outgoing' = Endpoint
    /\ \A x \in Endpoint :
          /\ SeqMap(outgoing'[x], SentPacket)
          /\ DOMAIN outgoing'[x] \subseteq DOMAIN outgoing[x]
          /\ \A s \in DOMAIN outgoing'[x] :
                /\ outgoing'[x][s].pkt = outgoing[x][s].pkt
                /\ outgoing'[x][s].sacked =>
                      s < next_remote_seq[Peer(x)] \/ s \in DOMAIN recv_buf[Peer(x)]
    /\ \A q \in FastRetransmits(e, p) : \E s \in DOMAIN outgoing[e] : q = outgoing[e][s].pkt

\* What process_incoming does with the acknowledgement of a packet, from the invariant.
LEMMA AckFacts ==
    ASSUME IInv, NEW e \in Endpoint, NEW p \in Incoming(e), ProcessAck(e, p)
    PROVE  AckOutcome(e, p)
<1> DEFINE new    == IsNewAck(e, p)
           out    == AfterAck(e, p)
           lost   == Lost(e, p)
           done   == {w \in pending_writes[e] : new /\ w.threshold <= p.ack}
<1>1. /\ p.ack \in Nat /\ p.ack <= next_remote_seq[Peer(e)] /\ Peer(e) \in Endpoint
      /\ \A s \in p.sacks : s < next_remote_seq[Peer(e)] \/ s \in DOMAIN recv_buf[Peer(e)]
      /\ next_remote_seq[Peer(e)] \in Nat
  BY IncomingGood, PeerFacts, BoundAssumption DEF IInv, TypeOK, RecvTypeOK
<1>2. /\ remote_acked' = [remote_acked EXCEPT ![e] = IF new THEN p.ack ELSE @]
      /\ rto_timeouts' = [rto_timeouts EXCEPT ![e] = IF new THEN 0 ELSE @]
      /\ outgoing' = [outgoing EXCEPT ![e] =
             [s \in DOMAIN out |-> IF s \in lost THEN [out[s] EXCEPT !.probe = FALSE] ELSE out[s]]]
      /\ pending_writes' = [pending_writes EXCEPT ![e] = @ \ done]
  BY Zenon DEF ProcessAck
<1>3. PICK t \in {acked_to[e]} \cup {w.to : w \in done} :
          acked_to' = [acked_to EXCEPT ![e] = t]
  BY ZenonT(60) DEF ProcessAck
<1>4. /\ remote_acked' \in [Endpoint -> Nat] /\ rto_timeouts' \in [Endpoint -> Nat]
      /\ \A x \in Endpoint : remote_acked'[x] <= next_remote_seq[Peer(x)]
  BY Zenon, <1>1, <1>2 DEF IInv, TypeOK, SendTypeOK, PacketsOK
<1>5. mtu' \in [Endpoint -> Mtu] /\ \A x \in Endpoint : mtu[x].size <= mtu'[x].size
  <2> DEFINE acked == new /\ \E s \in DOMAIN outgoing[e] : s < p.ack /\ outgoing[e][s].probe
             m == IF acked /\ mtu[e].state = "search" THEN ProbeAcked(mtu[e]) ELSE mtu[e]
             failed == \E s \in lost : out[s].probe
             r == IF failed THEN ProbeFailed(m) ELSE m
  <2>1. \A x \in Endpoint : mtu[x] \in Mtu /\ mtu[x].size \in Nat
    <3>1. \A x \in Endpoint : mtu[x] \in Mtu
      BY Zenon DEF IInv, TypeOK, SendTypeOK
    <3> QED
      BY <3>1, BoundAssumption DEF Mtu
  <2>2. m \in Mtu /\ mtu[e].size <= m.size
    BY <2>1, ProbeAckedType
  <2>3. mtu' = [mtu EXCEPT ![e] = r]
    BY Zenon DEF ProcessAck
  <2> HIDE DEF m, failed
  <2>4. r \in Mtu /\ r.size = m.size
    BY Zenon, <2>2, ProbeFailedType
  <2> HIDE DEF r
  <2> QED
    BY SMTT(30), <2>1, <2>2, <2>3, <2>4 DEF IInv, TypeOK, SendTypeOK
<1>6. /\ pending_writes' \in [Endpoint -> SUBSET PendingWrite]
      /\ \A x \in Endpoint : pending_writes'[x] \subseteq pending_writes[x]
  BY Zenon, <1>2 DEF IInv, TypeOK, SendTypeOK
<1>7. acked_to' \in [Endpoint -> Nat] /\ \A x \in Endpoint : acked_to'[x] <= Delivered(Peer(x))
  <2>1. \A w \in done : w.to \in Nat /\ w.to <= Delivered(Peer(e))
    <3> SUFFICES ASSUME NEW w \in done PROVE w.to \in Nat /\ w.to <= Delivered(Peer(e))
      BY Zenon
    <3>1. w \in pending_writes[e] /\ w.threshold \in Nat /\ w.to \in Nat
      BY DEF IInv, TypeOK, SendTypeOK, PendingWrite
    <3>2. w.threshold <= next_remote_seq[Peer(e)]
      BY <1>1, <3>1
    <3> QED
      BY Zenon, <3>1, <3>2, ThresholdDelivered
  <2>2. t \in Nat /\ t <= Delivered(Peer(e))
    BY <1>3, <2>1 DEF IInv, TypeOK, SendTypeOK, AckedIsDelivered
  <2> QED
    BY Zenon, <1>3, <2>2 DEF IInv, TypeOK, SendTypeOK, AckedIsDelivered
<1>8. /\ DOMAIN out \subseteq DOMAIN outgoing[e] /\ lost \subseteq DOMAIN out
      /\ \A s \in DOMAIN out : out[s] = [outgoing[e][s] EXCEPT !.sacked = @ \/ s \in p.sacks]
  BY Zenon DEF AfterAck, Lost, Unsacked
<1> HIDE DEF out, lost, new, done
<1>9. \A s \in DOMAIN out : /\ out[s] \in SentPacket /\ out[s].pkt = outgoing[e][s].pkt
                            /\ out[s].sacked => outgoing[e][s].sacked \/ s \in p.sacks
  <2> SUFFICES ASSUME NEW s \in DOMAIN out
               PROVE  /\ out[s] \in SentPacket /\ out[s].pkt = outgoing[e][s].pkt
                      /\ out[s].sacked => outgoing[e][s].sacked \/ s \in p.sacks
    BY Zenon
  <2>1. outgoing[e][s] \in SentPacket
    BY Zenon, <1>8 DEF IInv, TypeOK, SendTypeOK, SeqMap
  <2> QED
    BY ZenonT(60), <1>8, <2>1, Marked
<1>10. /\ DOMAIN outgoing' = Endpoint
       /\ \A x \in Endpoint : x # e => outgoing'[x] = outgoing[x]
       /\ DOMAIN outgoing'[e] = DOMAIN out
       /\ \A s \in DOMAIN out : outgoing'[e][s] =
             IF s \in lost THEN [out[s] EXCEPT !.probe = FALSE] ELSE out[s]
       /\ outgoing'[e] = [s \in DOMAIN outgoing'[e] |-> outgoing'[e][s]]
  BY Zenon, <1>2 DEF IInv, TypeOK, SendTypeOK
<1>11. ASSUME NEW s \in DOMAIN out
       PROVE  /\ outgoing'[e][s] \in SentPacket /\ outgoing'[e][s].pkt = outgoing[e][s].pkt
              /\ outgoing'[e][s].sacked =>
                    s < next_remote_seq[Peer(e)] \/ s \in DOMAIN recv_buf[Peer(e)]
  <2>1. /\ outgoing'[e][s] \in SentPacket /\ outgoing'[e][s].pkt = out[s].pkt
        /\ outgoing'[e][s].sacked = out[s].sacked
    <3>1. CASE s \in lost
      BY Zenon, <1>9, <1>10, <3>1, Unprobed
    <3>2. CASE s \notin lost
      BY Zenon, <1>9, <1>10, <3>2
    <3> QED
      BY Zenon, <3>1, <3>2
  <2>2. outgoing[e][s].sacked =>
           s < next_remote_seq[Peer(e)] \/ s \in DOMAIN recv_buf[Peer(e)]
    BY Zenon, <1>8 DEF IInv, SackedIsHeld
  <2> QED
    BY Zenon, <1>1, <1>9, <2>1, <2>2
<1>12. ASSUME NEW x \in Endpoint
       PROVE  /\ SeqMap(outgoing'[x], SentPacket)
              /\ DOMAIN outgoing'[x] \subseteq DOMAIN outgoing[x]
              /\ \A s \in DOMAIN outgoing'[x] :
                    /\ outgoing'[x][s].pkt = outgoing[x][s].pkt
                    /\ outgoing'[x][s].sacked =>
                          s < next_remote_seq[Peer(x)] \/ s \in DOMAIN recv_buf[Peer(x)]
  <2>1. CASE x # e
    BY Zenon, <1>10, <2>1 DEF IInv, TypeOK, SendTypeOK, SackedIsHeld
  <2>2. CASE x = e
    BY <1>8, <1>10, <1>11, <2>2 DEF IInv, TypeOK, SendTypeOK, SeqMap
  <2> QED
    BY Zenon, <2>1, <2>2
<1>13. \A q \in FastRetransmits(e, p) : \E s \in DOMAIN outgoing[e] : q = outgoing[e][s].pkt
  BY Zenon, <1>8 DEF FastRetransmits, lost
<1> QED
  BY <1>4, <1>5, <1>6, <1>7, <1>10, <1>12, <1>13 DEF AckOutcome

\* Accepting a packet re-addresses the queue and changes none of its packets.
LEMMA AcceptFacts ==
    ASSUME IInv, NEW e \in Endpoint, NEW p, Accepts(e, p)
    PROVE  /\ connected' \in [Endpoint -> BOOLEAN] /\ hook' \in [Endpoint -> BOOLEAN]
           /\ send_queue' \in [Endpoint -> Seq(QueuedPacket)]
           /\ \A x \in Endpoint :
                 /\ Len(send_queue'[x]) = Len(send_queue[x])
                 /\ \A i \in 1..Len(send_queue[x]) :
                       /\ send_queue'[x][i].pkt = send_queue[x][i].pkt
                       /\ send_queue'[x][i].seq = send_queue[x][i].seq
<1>1. connected' \in [Endpoint -> BOOLEAN] /\ hook' \in [Endpoint -> BOOLEAN]
  BY Zenon DEF Accepts, IInv, TypeOK, LifeTypeOK
<1> DEFINE q == send_queue[e]
           r == [i \in DOMAIN q |-> [q[i] EXCEPT !.resolved = TRUE]]
<1>2. send_queue' = [send_queue EXCEPT ![e] = IF connected[e] THEN @ ELSE r]
  BY Zenon DEF Accepts
<1>3. /\ send_queue \in [Endpoint -> Seq(QueuedPacket)] /\ q \in Seq(QueuedPacket)
      /\ DOMAIN q = 1..Len(q) /\ Len(q) \in Nat
  BY DEF IInv, TypeOK, SendTypeOK
<1>4. \A i \in 1..Len(q) : r[i] \in QueuedPacket /\ r[i].pkt = q[i].pkt /\ r[i].seq = q[i].seq
  <2> SUFFICES ASSUME NEW i \in 1..Len(q)
               PROVE  r[i] \in QueuedPacket /\ r[i].pkt = q[i].pkt /\ r[i].seq = q[i].seq
    BY Zenon
  <2>1. q[i] \in QueuedPacket /\ r[i] = [q[i] EXCEPT !.resolved = TRUE]
    BY <1>3
  <2> HIDE DEF q, r
  <2> QED
    BY ZenonT(60), <2>1 DEF QueuedPacket
<1>5. DOMAIN r = 1..Len(q) /\ r = [i \in 1..Len(q) |-> r[i]]
  BY Zenon, <1>3
<1> HIDE DEF r
<1>6. r \in Seq(QueuedPacket) /\ Len(r) = Len(q)
  BY <1>3, <1>4, <1>5
<1> QED
  BY Zenon, <1>1, <1>2, <1>3, <1>4, <1>6

-----------------------------------------------------------------------------
(* The DATA section of a received packet.                                    *)

\* What the DATA section leaves behind: both receive sides in order, and nothing they
\* held or handed on is taken back.
DataOutcome ==
    /\ next_remote_seq' \in [Endpoint -> 0..MaxSeq]
    /\ DOMAIN recv_buf' = Endpoint /\ \A x \in Endpoint : SeqMap(recv_buf'[x], Chunk)
    /\ log' \in [Endpoint -> Seq(Chunk)]
    /\ InOrder' /\ BufferOK'
    /\ \A x \in Endpoint :
          /\ next_remote_seq[x] <= next_remote_seq'[x]
          /\ \A s \in Nat : s < next_remote_seq[x] \/ s \in DOMAIN recv_buf[x]
                               => s < next_remote_seq'[x] \/ s \in DOMAIN recv_buf'[x]

\* A packet that brings nothing new leaves the receive side as it was.
LEMMA SameData ==
    ASSUME IInv, UNCHANGED <<next_remote_seq, recv_buf, log, wire>>
    PROVE  DataOutcome
<1>1. InOrder' /\ BufferOK'
  BY Zenon DEF IInv, InOrder, BufferOK
<1>2. \A x \in Endpoint : next_remote_seq[x] \in Nat
  BY BoundAssumption DEF IInv, TypeOK, RecvTypeOK
<1> QED
  BY <1>1, <1>2 DEF DataOutcome, IInv, TypeOK, RecvTypeOK

\* A packet ahead of its turn is buffered under its own sequence number.
LEMMA AheadData ==
    ASSUME IInv, NEW e \in Endpoint, NEW p \in Incoming(e), p.kind \in {"data", "end"},
           ReceiveAhead(e, p), UNCHANGED wire
    PROVE  DataOutcome
<1>1. /\ p.seq \in Seqs /\ p.seq \in DOMAIN wire[Peer(e)] /\ p.chunk = wire[Peer(e)][p.seq]
      /\ Peer(e) \in Endpoint
  BY IncomingGood, PeerFacts
<1>2. p.chunk \in Chunk
  BY Zenon, <1>1 DEF IInv, TypeOK, SendTypeOK, SeqMap
<1>3. /\ DOMAIN recv_buf' = Endpoint /\ DOMAIN recv_buf'[e] = DOMAIN recv_buf[e] \cup {p.seq}
      /\ \A x \in Endpoint : x # e => recv_buf'[x] = recv_buf[x]
      /\ \A s \in DOMAIN recv_buf'[e] :
            recv_buf'[e][s] = IF s \in DOMAIN recv_buf[e] THEN recv_buf[e][s] ELSE p.chunk
      /\ recv_buf'[e] = [s \in DOMAIN recv_buf'[e] |-> recv_buf'[e][s]]
      /\ p.seq > next_remote_seq[e] /\ UNCHANGED <<next_remote_seq, log>>
  BY Zenon DEF ReceiveAhead, IInv, TypeOK, RecvTypeOK
<1>4. \A x \in Endpoint : next_remote_seq[x] \in Nat
  BY BoundAssumption DEF IInv, TypeOK, RecvTypeOK
<1>5. \A x \in Endpoint : SeqMap(recv_buf'[x], Chunk)
  <2> SUFFICES ASSUME NEW x \in Endpoint PROVE SeqMap(recv_buf'[x], Chunk)
    BY Zenon
  <2>1. SeqMap(recv_buf[x], Chunk)
    BY Zenon DEF IInv, TypeOK, RecvTypeOK
  <2>2. CASE x = e
    BY <1>1, <1>2, <1>3, <2>1, <2>2 DEF SeqMap
  <2> QED
    BY Zenon, <1>3, <2>1, <2>2
<1>6. InOrder'
  BY <1>3 DEF IInv, InOrder
<1>7. BufferOK'
  <2> SUFFICES ASSUME NEW x \in Endpoint, NEW s \in DOMAIN recv_buf'[x]
               PROVE  /\ s > next_remote_seq[x]
                      /\ s \in DOMAIN wire[Peer(x)] /\ recv_buf'[x][s] = wire[Peer(x)][s]
    BY <1>3 DEF BufferOK
  <2>1. CASE s \in DOMAIN recv_buf[x]
    BY <1>3, <2>1 DEF IInv, BufferOK
  <2>2. CASE s \notin DOMAIN recv_buf[x]
    BY <1>1, <1>3, <2>2
  <2> QED
    BY Zenon, <2>1, <2>2
<1>8. ASSUME NEW x \in Endpoint
      PROVE  /\ next_remote_seq[x] <= next_remote_seq'[x]
             /\ \A s \in Nat : s < next_remote_seq[x] \/ s \in DOMAIN recv_buf[x]
                                  => s < next_remote_seq'[x] \/ s \in DOMAIN recv_buf'[x]
  BY <1>3, <1>4
<1>9. next_remote_seq' \in [Endpoint -> 0..MaxSeq] /\ log' \in [Endpoint -> Seq(Chunk)]
  BY Zenon, <1>3 DEF IInv, TypeOK, RecvTypeOK
<1> QED
  BY Zenon, <1>3, <1>5, <1>6, <1>7, <1>8, <1>9 DEF DataOutcome

\* The expected packet is delivered together with the run buffered right behind it, in
\* order and each once.
LEMMA NextData ==
    ASSUME IInv, NEW e \in Endpoint, NEW p \in Incoming(e), p.kind \in {"data", "end"},
           ReceiveNext(e, p), UNCHANGED wire
    PROVE  DataOutcome
<1>1. /\ p.seq \in Nat /\ p.seq \in DOMAIN wire[Peer(e)] /\ p.chunk = wire[Peer(e)][p.seq]
      /\ Peer(e) \in Endpoint /\ MaxSeq \in Nat
  BY IncomingGood, PeerFacts, BoundAssumption DEF Seqs
<1>2. PICK upto \in (p.seq + 1)..MaxSeq :
         /\ p.seq = next_remote_seq[e]
         /\ \A s \in (p.seq + 1)..(upto - 1) : s \in DOMAIN recv_buf[e]
         /\ upto \notin DOMAIN recv_buf[e]
         /\ next_remote_seq' = [next_remote_seq EXCEPT ![e] = upto]
         /\ recv_buf' = [recv_buf EXCEPT ![e] = [s \in {t \in DOMAIN @ : t >= upto} |-> @[s]]]
         /\ log' = [log EXCEPT ![e] =
                [i \in 1..upto |-> IF i <= p.seq THEN @[i]
                                   ELSE IF i = p.seq + 1 THEN p.chunk ELSE recv_buf[e][i - 1]]]
  BY ZenonT(60) DEF ReceiveNext
<1>3. upto \in Nat /\ p.seq < upto /\ upto <= MaxSeq
  BY <1>1, <1>2
<1>4. /\ next_remote_seq'[e] = upto /\ next_remote_seq[e] = p.seq
      /\ \A x \in Endpoint : x # e => next_remote_seq'[x] = next_remote_seq[x]
      /\ \A x \in Endpoint : next_remote_seq[x] \in Nat
  BY <1>2, BoundAssumption DEF IInv, TypeOK, RecvTypeOK
<1>5. /\ DOMAIN recv_buf' = Endpoint
      /\ DOMAIN recv_buf'[e] = {t \in DOMAIN recv_buf[e] : t >= upto}
      /\ \A x \in Endpoint : x # e => recv_buf'[x] = recv_buf[x]
      /\ \A s \in DOMAIN recv_buf'[e] : recv_buf'[e][s] = recv_buf[e][s]
      /\ recv_buf'[e] = [s \in DOMAIN recv_buf'[e] |-> recv_buf'[e][s]]
  BY Zenon, <1>2 DEF IInv, TypeOK, RecvTypeOK
<1> DEFINE L == [i \in 1..upto |-> IF i <= p.seq THEN log[e][i]
                                   ELSE IF i = p.seq + 1 THEN p.chunk ELSE recv_buf[e][i - 1]]
<1>6. log' = [log EXCEPT ![e] = L]
  BY Zenon, <1>2
<1>7. ASSUME NEW i \in 1..upto
      PROVE  /\ i - 1 \in DOMAIN wire[Peer(e)] /\ L[i] = wire[Peer(e)][i - 1] /\ L[i] \in Chunk
  <2>1. i - 1 \in DOMAIN wire[Peer(e)] /\ L[i] = wire[Peer(e)][i - 1]
    <3>1. CASE i <= p.seq
      <4>1. i \in 1..next_remote_seq[e] /\ L[i] = log[e][i]
        BY <1>1, <1>3, <1>4, <3>1
      <4> QED
        BY Zenon, <4>1 DEF IInv, InOrder
    <3>2. CASE i = p.seq + 1
      <4>1. L[i] = p.chunk /\ i - 1 = p.seq
        BY <1>1, <3>2
      <4> QED
        BY Zenon, <1>1, <4>1
    <3>3. CASE i > p.seq + 1
      <4>1. L[i] = recv_buf[e][i - 1] /\ i - 1 \in (p.seq + 1)..(upto - 1)
        BY <1>1, <1>3, <3>3
      <4>2. i - 1 \in DOMAIN recv_buf[e]
        BY Zenon, <1>2, <4>1
      <4> QED
        BY Zenon, <4>1, <4>2 DEF IInv, BufferOK
    <3> QED
      BY <1>1, <1>3, <3>1, <3>2, <3>3
  <2> HIDE DEF L
  <2> QED
    BY Zenon, <1>1, <2>1 DEF IInv, TypeOK, SendTypeOK, SeqMap
<1>8. L = [i \in 1..upto |-> L[i]]
  BY Zenon
<1> HIDE DEF L
<1>9. L \in Seq(Chunk) /\ Len(L) = upto
  BY <1>3, <1>7, <1>8
<1>10. /\ log' \in [Endpoint -> Seq(Chunk)] /\ log'[e] = L
       /\ \A x \in Endpoint : x # e => log'[x] = log[x]
  BY Zenon, <1>6, <1>9 DEF IInv, TypeOK, RecvTypeOK
<1>11. InOrder'
  <2> SUFFICES ASSUME NEW x \in Endpoint
               PROVE  /\ Len(log'[x]) = next_remote_seq'[x]
                      /\ \A i \in 1..next_remote_seq'[x] :
                            i - 1 \in DOMAIN wire[Peer(x)] /\ log'[x][i] = wire[Peer(x)][i - 1]
    BY Zenon DEF InOrder
  <2>1. CASE x = e
    BY Zenon, <1>4, <1>7, <1>9, <1>10, <2>1
  <2>2. CASE x # e
    BY <1>4, <1>10, <2>2 DEF IInv, InOrder
  <2> QED
    BY Zenon, <2>1, <2>2
<1>12. \A s \in DOMAIN recv_buf[e] : s \in Nat
  BY BoundAssumption DEF IInv, TypeOK, RecvTypeOK, SeqMap, Seqs
<1>13. BufferOK'
  <2> SUFFICES ASSUME NEW x \in Endpoint, NEW s \in DOMAIN recv_buf'[x]
               PROVE  /\ s > next_remote_seq'[x]
                      /\ s \in DOMAIN wire[Peer(x)] /\ recv_buf'[x][s] = wire[Peer(x)][s]
    BY Zenon DEF BufferOK
  <2>1. CASE x = e
    <3>1. s \in DOMAIN recv_buf[e] /\ s >= upto /\ s # upto /\ recv_buf'[e][s] = recv_buf[e][s]
      BY Zenon, <1>2, <1>5, <2>1
    <3> QED
      BY <1>3, <1>4, <1>12, <2>1, <3>1 DEF IInv, BufferOK
  <2>2. CASE x # e
    BY <1>4, <1>5, <2>2 DEF IInv, BufferOK
  <2> QED
    BY Zenon, <2>1, <2>2
<1>14. \A x \in Endpoint : SeqMap(recv_buf'[x], Chunk)
  <2> SUFFICES ASSUME NEW x \in Endpoint PROVE SeqMap(recv_buf'[x], Chunk)
    BY Zenon
  <2>1. SeqMap(recv_buf[x], Chunk)
    BY Zenon DEF IInv, TypeOK, RecvTypeOK
  <2>2. CASE x = e
    BY <1>5, <2>1, <2>2 DEF SeqMap
  <2> QED
    BY Zenon, <1>5, <2>1, <2>2
<1>15. ASSUME NEW x \in Endpoint
       PROVE  /\ next_remote_seq[x] <= next_remote_seq'[x]
              /\ \A s \in Nat : s < next_remote_seq[x] \/ s \in DOMAIN recv_buf[x]
                                   => s < next_remote_seq'[x] \/ s \in DOMAIN recv_buf'[x]
  <2>1. CASE x = e
    BY <1>1, <1>3, <1>4, <1>5, <2>1
  <2>2. CASE x # e
    BY <1>4, <1>5, <2>2
  <2> QED
    BY Zenon, <2>1, <2>2
<1>16. next_remote_seq' \in [Endpoint -> 0..MaxSeq]
  BY <1>2, <1>3 DEF IInv, TypeOK, RecvTypeOK
<1> QED
  BY Zenon, <1>5, <1>10, <1>11, <1>13, <1>14, <1>15, <1>16 DEF DataOutcome

-----------------------------------------------------------------------------
(* The whole packet.                                                         *)

\* The ACK sent back lists only buffered packets.
LEMMA AckGood ==
    ASSUME NEW e \in Endpoint, NEW a \in Nat, NEW B \in SUBSET Seqs, NEW q,
           q = AckPacket(e, a, B)
    PROVE  /\ q \in ControlPackets /\ q.src = e /\ q.ack = a /\ q.sacks \subseteq B
           /\ q.kind \notin {"data", "end"}
<1> DEFINE S == SackedSeqs(B)
<1>1. S \subseteq B
  BY Zenon DEF SackedSeqs
<1>2. q = ControlPacket(e, IF S = {} THEN "ack" ELSE "sack", 0, a, S)
  BY Zenon DEF AckPacket
<1> HIDE DEF S
<1> QED
  BY <1>1, <1>2 DEF ControlPacket, ControlPackets

\* The end of a delivered log, for any log that follows the history W.
LEMMA LastOf ==
    ASSUME NEW L \in Seq(Chunk), NEW n \in Nat, Len(L) = n, NEW W,
           \A i \in 1..n : L[i] = W[i - 1]
    PROVE  (IF L = <<>> THEN 0 ELSE L[Len(L)].to) = IF n = 0 THEN 0 ELSE W[n - 1].to
<1>1. CASE n = 0
  BY <1>1
<1>2. CASE n # 0
  <2>1. L # <<>> /\ n \in 1..n
    BY <1>2
  <2> QED
    BY Zenon, <1>2, <2>1
<1> QED
  BY Zenon, <1>1, <1>2

\* A reader is never handed less than before.
LEMMA DeliveredGrows ==
    ASSUME IInv, DataOutcome, UNCHANGED wire, NEW x \in Endpoint
    PROVE  Delivered(x) <= Delivered(x)'
<1> DEFINE W == wire[Peer(x)]
           n == next_remote_seq[x]
           k == next_remote_seq'[x]
<1>1. /\ n \in Nat /\ k \in Nat /\ n <= k /\ Peer(x) \in Endpoint
      /\ Len(log[x]) = n /\ log[x] \in Seq(Chunk)
      /\ \A i \in 1..n : i - 1 \in DOMAIN W /\ log[x][i] = W[i - 1]
  BY BoundAssumption, PeerFacts DEF DataOutcome, IInv, TypeOK, RecvTypeOK, InOrder
<1>2. /\ Len(log'[x]) = k /\ log'[x] \in Seq(Chunk)
      /\ \A i \in 1..k : i - 1 \in DOMAIN W /\ log'[x][i] = W[i - 1]
  BY Zenon DEF DataOutcome, InOrder
<1>3. \A s \in DOMAIN W : W[s].to \in Nat
  BY Zenon, <1>1 DEF IInv, TypeOK, SendTypeOK, SeqMap, Chunk
<1>4. \A s, t \in DOMAIN W : s <= t => W[s].to <= W[t].to
  BY Zenon, <1>1, WireMonotone
<1>5. Delivered(x) = IF n = 0 THEN 0 ELSE W[n - 1].to
  BY <1>1, LastOf DEF Delivered
<1>6. Delivered(x)' = IF k = 0 THEN 0 ELSE W[k - 1].to
  BY <1>1, <1>2, LastOf DEF Delivered
<1>7. n # 0 => n - 1 \in DOMAIN W
  BY <1>1
<1>8. k # 0 => k - 1 \in DOMAIN W
  BY <1>1, <1>2
<1> HIDE DEF n, k, W
<1> QED
  BY <1>1, <1>3, <1>4, <1>5, <1>6, <1>7, <1>8

\* The acknowledgement and the data of one packet together keep the invariant.
LEMMA ReceiveStep ==
    ASSUME IInv, NEW e \in Endpoint, NEW p \in Incoming(e), Accepts(e, p), ProcessAck(e, p),
           DataOutcome,
           proc' \in [Endpoint -> {"new", "running", "closing", "dead", "gone"}],
           reset' \in [Endpoint -> BOOLEAN],
           UNCHANGED <<ended, shutting_down, next_seq, written, preps, wire, losses>>,
           \A q \in net' : \/ q \in net \/ q \in FastRetransmits(e, p)
                           \/ q = AckPacket(e, next_remote_seq[e], {})
                           \/ q = AckPacket(e, next_remote_seq'[e], DOMAIN recv_buf'[e])
    PROVE  IInv'
<1>1. AckOutcome(e, p)
  BY Zenon, AckFacts
<1>2. /\ connected' \in [Endpoint -> BOOLEAN] /\ hook' \in [Endpoint -> BOOLEAN]
      /\ send_queue' \in [Endpoint -> Seq(QueuedPacket)]
      /\ \A x \in Endpoint :
            /\ Len(send_queue'[x]) = Len(send_queue[x])
            /\ \A i \in 1..Len(send_queue[x]) :
                  /\ send_queue'[x][i].pkt = send_queue[x][i].pkt
                  /\ send_queue'[x][i].seq = send_queue[x][i].seq
  BY Zenon, AcceptFacts
<1>3. \A x \in Endpoint : /\ next_remote_seq[x] \in Nat /\ next_remote_seq'[x] \in Nat
                          /\ next_remote_seq[x] <= next_remote_seq'[x]
                          /\ Peer(x) \in Endpoint
  <2>1. \A x \in Endpoint :
           /\ next_remote_seq[x] \in 0..MaxSeq /\ next_remote_seq'[x] \in 0..MaxSeq
           /\ next_remote_seq[x] <= next_remote_seq'[x] /\ Peer(x) \in Endpoint
    BY Zenon, PeerFacts DEF DataOutcome, IInv, TypeOK, RecvTypeOK
  <2> QED
    BY <2>1, BoundAssumption
<1>4. \A x \in Endpoint : \A s \in Nat : s < next_remote_seq[x] \/ s \in DOMAIN recv_buf[x]
                               => s < next_remote_seq'[x] \/ s \in DOMAIN recv_buf'[x]
  BY Zenon DEF DataOutcome
<1>5. ASSUME NEW x \in Endpoint, NEW q, GoodPacket(x, q), q.ack \in Nat, q.sacks \subseteq Nat
      PROVE  GoodPacket(x, q)'
  BY Zenon, <1>3, <1>4, <1>5, GoodStable
<1>6. \A s \in DOMAIN outgoing[e] :
         /\ outgoing[e][s].pkt \in DataPackets /\ GoodPacket(e, outgoing[e][s].pkt)
         /\ outgoing[e][s].pkt.src = e
  <2>1. \A s \in DOMAIN outgoing[e] :
           outgoing[e][s] \in SentPacket /\ GoodPacket(e, outgoing[e][s].pkt)
    BY Zenon, PacketTypes DEF IInv, PacketsOK
  <2> QED
    BY Zenon, <2>1 DEF SentPacket, GoodPacket
<1>7. ASSUME NEW q \in net'
      PROVE  q \in DataPackets \cup ControlPackets /\ GoodPacket(q.src, q)'
  <2>1. CASE q \in net
    BY Zenon, <1>5, <2>1, PacketTypes DEF IInv, TypeOK, NetTypeOK, PacketsOK
  <2>2. CASE q \in FastRetransmits(e, p)
    <3>1. PICK s \in DOMAIN outgoing[e] : q = outgoing[e][s].pkt
      BY Zenon, <1>1, <2>2 DEF AckOutcome
    <3>2. q.ack \in Nat /\ q.sacks \subseteq Nat
      BY Zenon, <3>1, PacketTypes DEF IInv
    <3> QED
      BY Zenon, <1>5, <1>6, <3>1, <3>2
  <2>3. ASSUME NEW a \in Nat, NEW B \in SUBSET Seqs, q = AckPacket(e, a, B),
               a <= next_remote_seq'[e], B \subseteq DOMAIN recv_buf'[e]
        PROVE  q \in ControlPackets /\ GoodPacket(q.src, q)'
    <3>1. /\ q \in ControlPackets /\ q.src = e /\ q.ack = a /\ q.sacks \subseteq B
          /\ q.kind \notin {"data", "end"}
      BY <2>3, AckGood
    <3> QED
      BY Zenon, <2>3, <3>1 DEF GoodPacket
  <2>4. CASE q = AckPacket(e, next_remote_seq[e], {})
    BY <1>3, <2>3, <2>4
  <2>5. CASE q = AckPacket(e, next_remote_seq'[e], DOMAIN recv_buf'[e])
    <3>1. DOMAIN recv_buf'[e] \in SUBSET Seqs
      BY Zenon DEF DataOutcome, SeqMap
    <3> QED
      BY <1>3, <2>3, <2>5, <3>1
  <2> QED
    BY Zenon, <2>1, <2>2, <2>4, <2>5
<1>8. TypeOK'
  <2>1. LifeTypeOK'
    BY Zenon, <1>2 DEF IInv, TypeOK, LifeTypeOK
  <2>2. RecvTypeOK' /\ NetTypeOK'
    BY Zenon, <1>7 DEF DataOutcome, IInv, TypeOK, RecvTypeOK, NetTypeOK
  <2>3. SendTypeOK'
    BY Zenon, <1>1, <1>2 DEF AckOutcome, IInv, TypeOK, SendTypeOK
  <2> QED
    BY Zenon, <2>1, <2>2, <2>3 DEF TypeOK
<1>9. PacketsOK'
  <2>1. ASSUME NEW x \in Endpoint, NEW i \in 1..Len(send_queue'[x]), NEW q, q = send_queue'[x][i]
        PROVE  GoodPacket(x, q.pkt)' /\ q.pkt.seq = q.seq
    <3>1. /\ i \in 1..Len(send_queue[x]) /\ q.pkt = send_queue[x][i].pkt
          /\ q.seq = send_queue[x][i].seq
      BY Zenon, <1>2, <2>1
    <3>2. q.pkt.ack \in Nat /\ q.pkt.sacks \subseteq Nat
      BY Zenon, <3>1, PacketTypes DEF IInv
    <3>3. GoodPacket(x, send_queue[x][i].pkt) /\ send_queue[x][i].pkt.seq = send_queue[x][i].seq
      BY Zenon, <3>1 DEF IInv, PacketsOK
    <3>4. GoodPacket(x, q.pkt) /\ q.pkt.seq = q.seq
      BY Zenon, <3>1, <3>3
    <3> QED
      BY Zenon, <1>5, <3>2, <3>4
  <2>2. ASSUME NEW x \in Endpoint, NEW s \in DOMAIN outgoing'[x], NEW q, q = outgoing'[x][s]
        PROVE  GoodPacket(x, q.pkt)' /\ q.pkt.seq = s
    <3>1. s \in DOMAIN outgoing[x] /\ q.pkt = outgoing[x][s].pkt
      BY Zenon, <1>1, <2>2 DEF AckOutcome
    <3>2. q.pkt.ack \in Nat /\ q.pkt.sacks \subseteq Nat
      BY Zenon, <3>1, PacketTypes DEF IInv
    <3>3. GoodPacket(x, outgoing[x][s].pkt) /\ outgoing[x][s].pkt.seq = s
      BY Zenon, <3>1 DEF IInv, PacketsOK
    <3>4. GoodPacket(x, q.pkt) /\ q.pkt.seq = s
      BY Zenon, <3>1, <3>3
    <3> QED
      BY Zenon, <1>5, <3>2, <3>4
  <2>3. ASSUME NEW x \in Endpoint, NEW w \in preps'[x] PROVE w.ack <= next_remote_seq'[x]
    <3>1. w.ack \in Nat /\ w.ack <= next_remote_seq[x]
      <4>1. w \in Prep /\ w.ack <= next_remote_seq[x]
        BY Zenon DEF IInv, PacketsOK, TypeOK, SendTypeOK
      <4> QED
        BY Zenon, <4>1, BoundAssumption DEF Prep
    <3> QED
      BY <1>3, <3>1
  <2>4. ASSUME NEW x \in Endpoint PROVE remote_acked'[x] <= next_remote_seq'[Peer(x)]
    <3>1. remote_acked'[x] \in Nat /\ remote_acked'[x] <= next_remote_seq[Peer(x)]
      BY Zenon, <1>1 DEF AckOutcome
    <3> QED
      BY <1>3, <3>1
  <2> QED
    BY SMTT(30), <1>7, <2>1, <2>2, <2>3, <2>4 DEF PacketsOK
<1>10. SackedIsHeld'
  <2> SUFFICES ASSUME NEW x \in Endpoint, NEW s \in DOMAIN outgoing'[x], outgoing'[x][s].sacked
               PROVE  s < next_remote_seq'[Peer(x)] \/ s \in DOMAIN recv_buf'[Peer(x)]
    BY Zenon DEF SackedIsHeld
  <2>1. s \in Nat
    <3>1. s \in Seqs
      BY Zenon, <1>1 DEF AckOutcome, SeqMap
    <3> QED
      BY <3>1, BoundAssumption DEF Seqs
  <2> QED
    BY Zenon, <1>1, <1>3, <1>4, <2>1 DEF AckOutcome
<1>11. AckedIsDelivered'
  <2> SUFFICES ASSUME NEW x \in Endpoint PROVE acked_to'[x] <= Delivered(Peer(x))'
    BY Zenon DEF AckedIsDelivered
  <2>1. acked_to'[x] \in Nat /\ acked_to'[x] <= Delivered(Peer(x))
    BY Zenon, <1>1 DEF AckOutcome
  <2>2. Delivered(Peer(x)) <= Delivered(Peer(x))'
    BY Zenon, <1>3, DeliveredGrows
  <2>3. Delivered(Peer(x)) \in Nat /\ Delivered(Peer(x))' \in Nat
    <3>1. log[Peer(x)] \in Seq(Chunk) /\ log'[Peer(x)] \in Seq(Chunk)
      BY Zenon, <1>3 DEF IInv, TypeOK, RecvTypeOK, DataOutcome
    <3> QED
      BY Zenon, <3>1, EndOfLog DEF Delivered
  <2>4. \A a, b, c \in Nat : a <= b /\ b <= c => a <= c
    OBVIOUS
  <2> QED
    BY Zenon, <2>1, <2>2, <2>3, <2>4
<1>12. Layout' /\ PrepsApart' /\ EndIsLast' /\ PendingOK'
  BY Zenon, <1>1, <1>8, SendSideStep DEF AckOutcome
<1> QED
  BY Zenon, <1>8, <1>9, <1>10, <1>11, <1>12 DEF DataOutcome, IInv

-----------------------------------------------------------------------------
(* The theorems.                                                             *)

\* Handling any incoming packet, control or data, keeps the invariant.
LEMMA ReceiveInv ==
    ASSUME IInv, NEW e \in Endpoint, NEW p \in Incoming(e), Receive(e, p)
    PROVE  IInv'
<1>1. CASE ReceiveControl(e, p)
  <2>1. DataOutcome
    BY Zenon, <1>1, SameData DEF ReceiveControl, recvVars
  <2>2. \A q \in net' : \/ q \in net \/ q \in FastRetransmits(e, p)
                        \/ q = AckPacket(e, next_remote_seq[e], {})
    BY Zenon, <1>1 DEF ReceiveControl
  <2>3. /\ Accepts(e, p) /\ ProcessAck(e, p)
        /\ UNCHANGED <<proc, reset, ended, shutting_down, next_seq, written, preps, wire, losses>>
    BY Zenon, <1>1 DEF ReceiveControl, recvVars
  <2>4. /\ proc' \in [Endpoint -> {"new", "running", "closing", "dead", "gone"}]
        /\ reset' \in [Endpoint -> BOOLEAN]
    BY Zenon, <2>3 DEF IInv, TypeOK, LifeTypeOK, RecvTypeOK
  <2> QED
    BY Zenon, <2>1, <2>2, <2>3, <2>4, ReceiveStep
<1>2. CASE ReceiveDestroy(e, p)
  <2>1. /\ Accepts(e, p) /\ ProcessAck(e, p)
        /\ reset' = [reset EXCEPT ![e] = TRUE] /\ proc' = [proc EXCEPT ![e] = "closing"]
        /\ UNCHANGED <<ended, shutting_down, next_seq, written, preps, wire, next_remote_seq,
                       recv_buf, log, losses>>
        /\ \A q \in net' : q \in net \/ q \in FastRetransmits(e, p)
    BY Zenon, <1>2 DEF ReceiveDestroy
  <2>2. DataOutcome
    BY Zenon, <2>1, SameData
  <2>3. /\ proc' \in [Endpoint -> {"new", "running", "closing", "dead", "gone"}]
        /\ reset' \in [Endpoint -> BOOLEAN]
    BY Zenon, <2>1 DEF IInv, TypeOK, LifeTypeOK, RecvTypeOK
  <2> QED
    BY Zenon, <2>1, <2>2, <2>3, ReceiveStep
<1>3. CASE ReceiveData(e, p)
  <2>1. /\ Accepts(e, p) /\ ProcessAck(e, p) /\ p.kind \in {"data", "end"}
        /\ ReceiveOld(e, p) \/ ReceiveAhead(e, p) \/ ReceiveNext(e, p)
        /\ UNCHANGED <<proc, ended, shutting_down, next_seq, written, preps, wire, reset, losses>>
        /\ \A q \in net' : \/ q \in net \/ q \in FastRetransmits(e, p)
                           \/ q = AckPacket(e, next_remote_seq'[e], DOMAIN recv_buf'[e])
    BY Zenon, <1>3 DEF ReceiveData
  <2>2. DataOutcome
    <3>1. CASE ReceiveOld(e, p)
      BY Zenon, <2>1, <3>1, SameData DEF ReceiveOld
    <3>2. CASE ReceiveAhead(e, p)
      BY Zenon, <2>1, <3>2, AheadData
    <3>3. CASE ReceiveNext(e, p)
      BY Zenon, <2>1, <3>3, NextData
    <3> QED
      BY Zenon, <2>1, <3>1, <3>2, <3>3
  <2>3. /\ proc' \in [Endpoint -> {"new", "running", "closing", "dead", "gone"}]
        /\ reset' \in [Endpoint -> BOOLEAN]
    BY Zenon, <2>1 DEF IInv, TypeOK, LifeTypeOK, RecvTypeOK
  <2> QED
    BY <2>1, <2>2, <2>3, ReceiveStep
<1> QED
  BY Zenon, <1>1, <1>2, <1>3 DEF Receive

-----------------------------------------------------------------------------
(* The theorems.                                                             *)

\* Every action of the two streams and of the network keeps the invariant.
LEMMA StepInv == IInv /\ [Next]_vars => IInv'
<1> SUFFICES ASSUME IInv, [Next]_vars PROVE IInv'
  BY Zenon
<1>1. CASE UNCHANGED vars
  <2>1. UNCHANGED <<next_seq, written, preps, wire, acked_to, next_remote_seq, recv_buf, log,
                    send_queue, outgoing, remote_acked, mtu, ended, pending_writes, net>>
    BY Zenon, <1>1 DEF vars, lifeVars, sendVars, recvVars, netVars
  <2>2. TypeOK'
    <3>1. LifeTypeOK' /\ RecvTypeOK' /\ NetTypeOK'
      BY <1>1 DEF vars, IInv, TypeOK, LifeTypeOK, RecvTypeOK, NetTypeOK, lifeVars, recvVars, netVars
    <3>2. SendTypeOK'
      BY <1>1 DEF vars, sendVars, IInv, TypeOK, SendTypeOK
    <3> QED
      BY Zenon, <3>1, <3>2 DEF TypeOK
  <2>3. \A p \in net' : GoodPacket(p.src, p)
    BY Zenon, <2>1 DEF IInv, PacketsOK
  <2> QED
    BY Zenon, <2>1, <2>2, <2>3, QuieterStep
<1>2. ASSUME NEW p \in net, Lose(p) PROVE IInv'
  BY Zenon, <1>2, ForgetInv
<1>3. ASSUME NEW e \in Endpoint,
             \/ Connect(e) \/ SetFirewallHook(e) \/ DropAdapter(e) \/ PacingStop(e)
             \/ RtoFail(e) \/ Terminate(e) \/ DropStream(e) \/ Keepalive(e) \/ Destroy(e)
      PROVE  IInv'
  BY <1>3, LifeInv, StopInv, EmitInv
<1>4. ASSUME NEW e \in Endpoint,
             PrepareEnd(e) \/ \E len \in Lengths : PrepareWrite(e, len)
      PROVE  IInv'
  BY Zenon, <1>4, PrepareInv
<1>5. ASSUME NEW e \in Endpoint, NEW w \in preps[e], NEW size \in MtuBase..MtuMax,
             QueueForSend(e, w, size)
      PROVE  IInv'
  BY Zenon, <1>5, QueueInv
<1>6. ASSUME NEW e \in Endpoint, PacingSend(e) \/ RtoRetransmit(e) PROVE IInv'
  BY Zenon, <1>6, PacingInv, RtoInv
<1>7. ASSUME NEW e \in Endpoint, NEW p \in Incoming(e),
             DropFirst(e, p) \/ RejectFirst(e, p) \/ Receive(e, p)
      PROVE  IInv'
  BY Zenon, <1>7, ForgetInv, ReceiveInv DEF Incoming
<1> QED
  BY Zenon, <1>1, <1>2, <1>3, <1>4, <1>5, <1>6, <1>7 DEF Next

\* IInv is an invariant of the pair of streams, for any MTU bounds, any lengths of writes
\* and any loss, duplication and reordering of packets.
THEOREM Invariance == Spec => []IInv
<1>1. Init => IInv
  BY Zenon, InitInv
<1>2. IInv /\ [Next]_vars => IInv'
  BY Zenon, StepInv
<1> QED
  BY <1>1, <1>2, PTL DEF Spec

\* The variables of stream.rs keep their types, and sequence numbers their bound.
THEOREM TypeCorrect == Spec => []TypeOK
<1>1. IInv => TypeOK
  BY Zenon DEF IInv
<1> QED
  BY <1>1, Invariance, PTL

\* receive_data hands on the peer's packets in order and exactly once.
THEOREM OrderedDelivery == Spec => []InOrder
<1>1. IInv => InOrder
  BY Zenon DEF IInv
<1> QED
  BY <1>1, Invariance, PTL

\* A write that resolved Ok was handed on by the peer.
THEOREM AcknowledgedDelivery == Spec => []AckedIsDelivered
<1>1. IInv => AckedIsDelivered
  BY Zenon DEF IInv
<1> QED
  BY <1>1, Invariance, PTL

\* What the retransmission engine skips, the peer holds.
THEOREM SackSoundness == Spec => []SackedIsHeld
<1>1. IInv => SackedIsHeld
  BY Zenon DEF IInv
<1> QED
  BY <1>1, Invariance, PTL

\* The i-th chunk handed to a reader, seen as a stretch of its peer's history.
LEMMA LogStretch ==
    ASSUME IInv, NEW e \in Endpoint, NEW i \in 1..Len(log[e])
    PROVE  /\ i \in Nat /\ i - 1 \in DOMAIN wire[Peer(e)] /\ log[e][i] = wire[Peer(e)][i - 1]
           /\ [lo |-> i - 1, hi |-> i, from |-> log[e][i].from, to |-> log[e][i].to]
                 \in Stretches(Peer(e))
<1>1. Len(log[e]) \in Nat /\ Len(log[e]) = next_remote_seq[e]
  BY DEF IInv, TypeOK, RecvTypeOK, InOrder
<1>2. i \in Nat /\ i - 1 \in DOMAIN wire[Peer(e)] /\ log[e][i] = wire[Peer(e)][i - 1]
  BY <1>1 DEF IInv, InOrder
<1>3. (i - 1) + 1 = i
  BY <1>2
<1> QED
  BY Zenon, <1>2, <1>3 DEF Stretches

\* The delivered chunks are consecutive byte ranges of what the peer wrote.
LEMMA ContiguousInv == IInv => Contiguous
<1> SUFFICES ASSUME IInv, NEW e \in Endpoint, NEW i \in 1..Len(log[e])
             PROVE  /\ log[e][i].from = (IF i = 1 THEN 0 ELSE log[e][i - 1].to)
                    /\ log[e][i].from <= log[e][i].to /\ log[e][i].to <= written[Peer(e)]
  BY Zenon DEF Contiguous
<1> DEFINE x == [lo |-> i - 1, hi |-> i, from |-> log[e][i].from, to |-> log[e][i].to]
           y == [lo |-> (i - 1) - 1, hi |-> i - 1,
                 from |-> log[e][i - 1].from, to |-> log[e][i - 1].to]
<1>1. Peer(e) \in Endpoint /\ i \in Nat /\ Len(log[e]) \in Nat
  BY PeerFacts DEF IInv, TypeOK, RecvTypeOK
<1>2. x \in Stretches(Peer(e))
  BY Zenon, LogStretch
<1>3. i # 1 => y \in Stretches(Peer(e))
  <2> SUFFICES ASSUME i # 1 PROVE y \in Stretches(Peer(e))
    BY Zenon
  <2>1. i - 1 \in 1..Len(log[e])
    BY <1>1
  <2> QED
    BY Zenon, <2>1, LogStretch
<1>4. /\ x.lo = i - 1 /\ x.from = log[e][i].from /\ x.to = log[e][i].to
      /\ y.hi = i - 1 /\ y.to = log[e][i - 1].to
  BY Zenon
<1> HIDE DEF x, y
<1>5. x.from <= x.to /\ x.to <= written[Peer(e)] /\ (x.lo = 0 => x.from = 0)
  BY Zenon, <1>1, <1>2 DEF IInv, Layout
<1>6. i # 1 => y.to = x.from
  BY <1>1, <1>2, <1>3, <1>4 DEF IInv, Layout
<1> QED
  BY <1>1, <1>4, <1>5, <1>6

\* The end is delivered last, and after every byte the peer wrote.
LEMMA EndInv == IInv => EndIsComplete
<1> SUFFICES ASSUME IInv, NEW e \in Endpoint, NEW i \in 1..Len(log[e]), log[e][i].kind = "end"
             PROVE  i = Len(log[e]) /\ log[e][i].to = written[Peer(e)]
  BY Zenon DEF EndIsComplete
<1> DEFINE n == Len(log[e])
           x == [lo |-> i - 1, hi |-> i, from |-> log[e][i].from, to |-> log[e][i].to]
           z == [lo |-> n - 1, hi |-> n, from |-> log[e][n].from, to |-> log[e][n].to]
<1>1. Peer(e) \in Endpoint /\ i \in Nat /\ n \in Nat /\ i <= n /\ n \in 1..n
  BY PeerFacts DEF IInv, TypeOK, RecvTypeOK
<1>2. /\ x \in Stretches(Peer(e)) /\ z \in Stretches(Peer(e))
      /\ i - 1 \in DOMAIN wire[Peer(e)] /\ wire[Peer(e)][i - 1].kind = "end"
  BY Zenon, <1>1, LogStretch
<1>3. (i - 1) + 1 = next_seq[Peer(e)]
  BY Zenon, <1>1, <1>2 DEF IInv, EndIsLast
<1>4. x.hi = i /\ x.to = log[e][i].to /\ z.hi = n
  BY Zenon
<1> HIDE DEF x, z, n
<1>5. z.hi <= next_seq[Peer(e)] /\ (x.hi = next_seq[Peer(e)] => x.to = written[Peer(e)])
  BY Zenon, <1>1, <1>2 DEF IInv, Layout
<1> QED
  BY <1>1, <1>3, <1>4, <1>5 DEF n

\* The bytes handed on have no gap and no overlap.
THEOREM ContiguousDelivery == Spec => []Contiguous
  BY ContiguousInv, Invariance, PTL

\* End of stream comes last, and after every byte.
THEOREM CompleteEnd == Spec => []EndIsComplete
  BY EndInv, Invariance, PTL

-----------------------------------------------------------------------------
(* The refinement of ReliableStream.                                        *)

\* The last chunk of a log that follows the history W.
LEMMA LastChunk ==
    ASSUME NEW L \in Seq(Chunk), NEW n \in Nat, Len(L) = n, NEW W,
           \A i \in 1..n : L[i] = W[i - 1]
    PROVE  (L # <<>> /\ L[Len(L)].kind = "end") <=> (n # 0 /\ W[n - 1].kind = "end")
<1>1. CASE n = 0
  BY <1>1
<1>2. CASE n # 0
  <2>1. L # <<>> /\ n \in 1..n
    BY <1>2
  <2> QED
    BY Zenon, <1>2, <2>1
<1> QED
  BY Zenon, <1>1, <1>2

Eof(e) == log[e] # <<>> /\ log[e][Len(log[e])].kind = "end"

\* Once end of stream was handed on nothing follows it.
LEMMA EofStable ==
    ASSUME IInv, IInv', UNCHANGED <<wire, next_seq>>, NEW x \in Endpoint, Eof(x),
           next_remote_seq[x] <= next_remote_seq'[x]
    PROVE  Eof(x)' /\ Delivered(x)' = Delivered(x)
<1> DEFINE W == wire[Peer(x)]
           n == next_remote_seq[x]
           k == next_remote_seq'[x]
<1>1. /\ n \in Nat /\ k \in Nat /\ Peer(x) \in Endpoint
      /\ Len(log[x]) = n /\ log[x] \in Seq(Chunk)
      /\ \A i \in 1..n : i - 1 \in DOMAIN W /\ log[x][i] = W[i - 1]
      /\ Len(log'[x]) = k /\ log'[x] \in Seq(Chunk)
      /\ \A i \in 1..k : i - 1 \in DOMAIN W /\ log'[x][i] = W[i - 1]
  <2>1. n \in 0..MaxSeq /\ k \in 0..MaxSeq /\ log[x] \in Seq(Chunk) /\ log'[x] \in Seq(Chunk)
    BY Zenon DEF IInv, TypeOK, RecvTypeOK
  <2>2. /\ Len(log[x]) = n
        /\ \A i \in 1..n : i - 1 \in DOMAIN W /\ log[x][i] = W[i - 1]
    BY Zenon DEF IInv, InOrder
  <2>3. /\ Len(log'[x]) = k
        /\ \A i \in 1..k : i - 1 \in DOMAIN W /\ log'[x][i] = W[i - 1]
    BY Zenon DEF IInv, InOrder
  <2>4. n \in Nat /\ k \in Nat
    BY <2>1, BoundAssumption
  <2>5. Peer(x) \in Endpoint
    BY Zenon, PeerFacts
  <2> QED
    BY Zenon, <2>1, <2>2, <2>3, <2>4, <2>5
<1>2. n # 0 /\ W[n - 1].kind = "end"
  BY <1>1, LastChunk DEF Eof
<1>3. n - 1 \in DOMAIN W /\ k - 1 \in DOMAIN W
  BY <1>1, <1>2
<1>4. (n - 1) + 1 = next_seq[Peer(x)]
  BY Zenon, <1>1, <1>2, <1>3 DEF IInv, EndIsLast
<1>5. k <= next_seq[Peer(x)]
  <2> DEFINE y == [lo |-> k - 1, hi |-> (k - 1) + 1, from |-> W[k - 1].from, to |-> W[k - 1].to]
  <2>1. y \in Stretches(Peer(x))
    BY Zenon, <1>3 DEF Stretches
  <2>2. y.hi = k
    BY <1>1
  <2> HIDE DEF y, k
  <2> QED
    BY Zenon, <1>1, <2>1, <2>2 DEF IInv, Layout
<1>6. k = n
  BY <1>1, <1>4, <1>5
<1>7. Eof(x)'
  BY <1>1, <1>2, <1>6, LastChunk DEF Eof
<1>8. Delivered(x) = (IF n = 0 THEN 0 ELSE W[n - 1].to)
  BY <1>1, LastOf DEF Delivered
<1>9. Delivered(x)' = (IF k = 0 THEN 0 ELSE W[k - 1].to)
  BY <1>1, LastOf DEF Delivered
<1> QED
  BY <1>6, <1>7, <1>8, <1>9

\* A reader at end of stream has every byte, and its peer has ended.
LEMMA EofComplete ==
    IInv => \A x \in Endpoint : Eof(x) => ended[Peer(x)] /\ Delivered(x) = written[Peer(x)]
<1> SUFFICES ASSUME IInv, NEW x \in Endpoint, Eof(x)
             PROVE  ended[Peer(x)] /\ Delivered(x) = written[Peer(x)]
  BY Zenon
<1>1. /\ log[x] \in Seq(Chunk) /\ log[x] # <<>> /\ Len(log[x]) \in 1..Len(log[x])
      /\ log[x][Len(log[x])].kind = "end" /\ Peer(x) \in Endpoint
  BY PeerFacts DEF Eof, IInv, TypeOK, RecvTypeOK
<1>2. Delivered(x) = written[Peer(x)]
  BY Zenon, <1>1, EndInv DEF Delivered, EndIsComplete
<1>3. ended[Peer(x)]
  BY ZenonT(60), <1>1, LogStretch DEF IInv, EndIsLast
<1> QED
  BY Zenon, <1>2, <1>3

\* A reader never has more than was written.
LEMMA DeliveredBound ==
    ASSUME IInv, NEW x \in Endpoint
    PROVE  Delivered(x) \in Nat /\ Delivered(x) <= written[Peer(x)]
<1>1. log[x] \in Seq(Chunk) /\ Peer(x) \in Endpoint /\ written[Peer(x)] \in Nat
  BY Zenon, PeerFacts DEF IInv, TypeOK, RecvTypeOK, SendTypeOK
<1>2. CASE log[x] = <<>>
  BY <1>1, <1>2 DEF Delivered
<1>3. CASE log[x] # <<>>
  <2>1. Len(log[x]) \in 1..Len(log[x]) /\ log[x][Len(log[x])] \in Chunk
    BY <1>1, <1>3
  <2>2. log[x][Len(log[x])].to <= written[Peer(x)] /\ log[x][Len(log[x])].to \in Nat
    BY Zenon, <2>1, ContiguousInv DEF Contiguous, Chunk
  <2> QED
    BY Zenon, <1>3, <2>2 DEF Delivered
<1> QED
  BY Zenon, <1>2, <1>3

\* The abstract step of a received packet.
LEMMA ReceiveRefines ==
    ASSUME IInv, IInv', NEW e \in Endpoint, NEW p \in Incoming(e), Receive(e, p)
    PROVE  Channel!Progress(e)
<1>1. /\ UNCHANGED <<written, ended, wire, next_seq>>
      /\ ProcessAck(e, p)
      /\ \A x \in Endpoint : x # e => log'[x] = log[x]
  BY ZenonT(60) DEF Receive, ReceiveControl, ReceiveDestroy, ReceiveData, ReceiveOld, ReceiveAhead,
         ReceiveNext, recvVars, IInv, TypeOK, RecvTypeOK
<1>2. DataOutcome
  <2>1. CASE UNCHANGED <<next_remote_seq, recv_buf, log>>
    BY Zenon, <1>1, <2>1, SameData
  <2>2. CASE ~UNCHANGED <<next_remote_seq, recv_buf, log>>
    <3>1. p.kind \in {"data", "end"} /\ (ReceiveAhead(e, p) \/ ReceiveNext(e, p))
      BY Zenon, <2>2 DEF Receive, ReceiveControl, ReceiveDestroy, ReceiveData, ReceiveOld, recvVars
    <3> QED
      BY Zenon, <1>1, <3>1, AheadData, NextData
  <2> QED
    BY Zenon, <2>1, <2>2
<1>3. AckOutcome(e, p)
  BY Zenon, <1>1, AckFacts
<1>4. PICK t \in {acked_to[e]} \cup {w.to : w \in {v \in pending_writes[e] :
                                         IsNewAck(e, p) /\ v.threshold <= p.ack}} :
         acked_to[e] <= t /\ acked_to' = [acked_to EXCEPT ![e] = t]
  BY ZenonT(60), <1>1 DEF ProcessAck
<1>5. acked_to \in [Endpoint -> Nat] /\ Peer(e) \in Endpoint
  BY Zenon, PeerFacts DEF IInv, TypeOK, SendTypeOK
<1> DEFINE D == [x \in Endpoint |-> Delivered(x)]
           E == [x \in Endpoint |-> log[x] # <<>> /\ log[x][Len(log[x])].kind = "end"]
<1>6. \A x \in Endpoint : x # e => Delivered(x)' = Delivered(x) /\ Eof(x)' = Eof(x)
  BY Zenon, <1>1 DEF Delivered, Eof
<1>7. Delivered(e) <= Delivered(e)' /\ Delivered(e)' <= written[Peer(e)]
  <2>1. Delivered(e)' <= written'[Peer(e)]
    <3>1. IInv' => Contiguous'
      BY ContiguousInv, PTL
    <3>2. /\ log'[e] \in Seq(Chunk) /\ written'[Peer(e)] \in Nat
      BY Zenon, <1>5 DEF IInv, TypeOK, RecvTypeOK, SendTypeOK
    <3>3. CASE log'[e] = <<>>
      BY <3>2, <3>3 DEF Delivered
    <3>4. CASE log'[e] # <<>>
      <4>1. Len(log'[e]) \in 1..Len(log'[e])
        BY <3>2, <3>4
      <4> QED
        BY Zenon, <3>1, <3>4, <4>1 DEF Delivered, Contiguous
    <3> QED
      BY Zenon, <3>3, <3>4
  <2> QED
    BY Zenon, <1>1, <1>2, <2>1, DeliveredGrows
<1>8. Eof(e) => Eof(e)' /\ Delivered(e)' = Delivered(e)
  BY Zenon, <1>1, <1>2, EofStable DEF DataOutcome
<1>9. Eof(e)' => ended[Peer(e)] /\ Delivered(e)' = written[Peer(e)]
  <2>1. (IInv => \A x \in Endpoint : Eof(x) => ended[Peer(x)] /\ Delivered(x) = written[Peer(x)])'
    BY EofComplete, PTL
  <2> QED
    BY Zenon, <1>1, <2>1
<1>10. acked_to'[e] <= Delivered(Peer(e)) /\ acked_to' = [acked_to EXCEPT ![e] = acked_to'[e]]
       /\ acked_to[e] <= acked_to'[e]
  BY Zenon, <1>3, <1>4, <1>5 DEF AckOutcome
<1>11. D' = [D EXCEPT ![e] = D'[e]] /\ D[e] <= D'[e] /\ D'[e] <= written[Peer(e)]
       /\ D[Peer(e)] = Delivered(Peer(e)) /\ D'[e] = Delivered(e)' /\ D[e] = Delivered(e)
  BY ZenonT(60), <1>5, <1>6, <1>7
<1>12. E' = [E EXCEPT ![e] = E'[e]] /\ E'[e] = Eof(e)' /\ E[e] = Eof(e)
  BY ZenonT(60), <1>5, <1>6 DEF Eof
<1> HIDE DEF D, E
<1> QED
  BY <1>1, <1>8, <1>9, <1>10, <1>11, <1>12
     DEF Channel!Progress, Channel!Grows, Channel!Peer, Peer, D, E

\* Initial states map to initial states.
LEMMA InitRefines == Init => Channel!Init
  BY ZenonT(60) DEF Init, Channel!Init, Delivered

\* Reserving a write is the abstract Write, the FIN is End.
LEMMA PrepareRefines ==
    ASSUME IInv, NEW e \in Endpoint,
           PrepareEnd(e) \/ \E len \in Lengths : PrepareWrite(e, len)
    PROVE  Channel!Write(e) \/ Channel!End(e)
<1>1. CASE PrepareEnd(e)
  <2>1. /\ ~ended[e] /\ ended' = [ended EXCEPT ![e] = TRUE]
        /\ UNCHANGED <<written, log, acked_to>>
    BY Zenon, <1>1 DEF PrepareEnd, recvVars
  <2>2. UNCHANGED <<[x \in Endpoint |-> Delivered(x)],
                    [x \in Endpoint |-> log[x] # <<>> /\ log[x][Len(log[x])].kind = "end"]>>
    BY Zenon, <2>1 DEF Delivered
  <2>3. Channel!End(e)
    BY Zenon, <2>1, <2>2 DEF Channel!End
  <2> QED
    BY Zenon, <2>3
<1>2. ASSUME NEW len \in Lengths, PrepareWrite(e, len) PROVE Channel!Write(e)
  <2>1. /\ ~ended[e] /\ written' = [written EXCEPT ![e] = @ + len]
        /\ UNCHANGED <<ended, log, acked_to>>
    BY Zenon, <1>2 DEF PrepareWrite, MayWrite, recvVars, lifeVars
  <2>2. UNCHANGED <<[x \in Endpoint |-> Delivered(x)],
                    [x \in Endpoint |-> log[x] # <<>> /\ log[x][Len(log[x])].kind = "end"]>>
    BY Zenon, <2>1 DEF Delivered
  <2>3. written \in [Endpoint -> Nat] /\ len \in Nat
    BY Zenon, BoundAssumption DEF IInv, TypeOK, SendTypeOK
  <2>4. written' = [written EXCEPT ![e] = written'[e]] /\ written[e] <= written'[e]
    BY <2>1, <2>3
  <2> QED
    BY Zenon, <2>1, <2>2, <2>4 DEF Channel!Write, Channel!Grows
<1> QED
  BY Zenon, <1>1, <1>2

\* Every other step is invisible to the applications.
LEMMA StutterRefines ==
    ASSUME UNCHANGED <<written, ended, log, acked_to>>
    PROVE  UNCHANGED Channel!rsVars
<1>1. UNCHANGED <<[x \in Endpoint |-> Delivered(x)],
                  [x \in Endpoint |-> log[x] # <<>> /\ log[x][Len(log[x])].kind = "end"]>>
  BY Zenon DEF Delivered
<1> QED
  BY Zenon, <1>1 DEF Channel!rsVars

\* Every step of the pair of streams is a step of the reliable stream, or leaves it as it is.
LEMMA StepRefines == IInv /\ IInv' /\ [Next]_vars => [Channel!Next]_Channel!rsVars
<1> SUFFICES ASSUME IInv, IInv', [Next]_vars PROVE Channel!Next \/ UNCHANGED Channel!rsVars
  BY Zenon
<1>1. CASE UNCHANGED vars
  BY Zenon, <1>1, StutterRefines DEF vars, lifeVars, sendVars, recvVars
<1>2. ASSUME NEW p \in net, Lose(p) PROVE UNCHANGED Channel!rsVars
  BY Zenon, <1>2, StutterRefines DEF Lose, lifeVars, sendVars, recvVars
<1>3. ASSUME NEW e \in Endpoint,
             \/ Connect(e) \/ SetFirewallHook(e) \/ DropAdapter(e) \/ PacingStop(e)
             \/ RtoFail(e) \/ Terminate(e) \/ DropStream(e) \/ Keepalive(e) \/ Destroy(e)
      PROVE  UNCHANGED Channel!rsVars
  BY Zenon, <1>3, StutterRefines
     DEF Connect, SetFirewallHook, DropAdapter, PacingStop, RtoFail, Terminate, Keepalive,
         Destroy, DropStream, lifeVars, sendVars, recvVars
<1>4. ASSUME NEW e \in Endpoint,
             PrepareEnd(e) \/ \E len \in Lengths : PrepareWrite(e, len)
      PROVE  Channel!Next
  BY Zenon, <1>4, PrepareRefines DEF Channel!Next
<1>5. ASSUME NEW e \in Endpoint, NEW w \in preps[e], NEW size \in MtuBase..MtuMax,
             QueueForSend(e, w, size)
      PROVE  UNCHANGED Channel!rsVars
  BY Zenon, <1>5, StutterRefines DEF QueueForSend, lifeVars, recvVars
<1>6. ASSUME NEW e \in Endpoint, PacingSend(e) \/ RtoRetransmit(e) PROVE UNCHANGED Channel!rsVars
  BY Zenon, <1>6, StutterRefines DEF PacingSend, RtoRetransmit, lifeVars, recvVars
<1>7. ASSUME NEW e \in Endpoint, NEW p \in Incoming(e), DropFirst(e, p) \/ RejectFirst(e, p)
      PROVE  UNCHANGED Channel!rsVars
  BY Zenon, <1>7, StutterRefines DEF DropFirst, RejectFirst, lifeVars, sendVars, recvVars
<1>8. ASSUME NEW e \in Endpoint, NEW p \in Incoming(e), Receive(e, p) PROVE Channel!Next
  BY Zenon, <1>8, ReceiveRefines DEF Channel!Next
<1> QED
  BY <1>1, <1>2, <1>3, <1>4, <1>5, <1>6, <1>7, <1>8 DEF Next

\* The pair of streams implements a reliable byte stream in each direction.
THEOREM Refinement == Spec => ImplementsReliableStream
<1>1. IInv /\ IInv' /\ [Next]_vars => [Channel!Next]_Channel!rsVars
  BY Zenon, StepRefines
<1> QED
  BY <1>1, InitRefines, Invariance, PTL DEF Spec, ImplementsReliableStream, Channel!Spec

==============================================================================
