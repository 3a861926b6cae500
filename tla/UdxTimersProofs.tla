--------------------------- MODULE UdxTimersProofs ---------------------------
(***************************************************************************)
(* Proofs about UdxTimers for every RTO range, number of timeouts,         *)
(* heartbeat interval, number of packets and number of losses: TimersInv   *)
(* is inductive, so a stream that hears nothing gives up in time and the   *)
(* timer never stays off while a packet is outgoing.                       *)
(***************************************************************************)
EXTENDS UdxTimers, TLAPS, WellFoundedInduction

-----------------------------------------------------------------------------
(* Lemmas about the operators.                                               *)

\* Facts of arithmetic, stated apart from the products they are used with.
LEMMA SumsAreOrdered ==
    \A a, b, c, d \in Nat : a <= b /\ c <= d => a + c <= b + d
  OBVIOUS

\* A bound of a bound.
LEMMA OrderIsTransitive ==
    \A a, b, c \in Nat : a <= b /\ b <= c => 0 + a <= c /\ a <= c
  OBVIOUS

\* A tick more of silence and one less on the timer keep their sum.
LEMMA OneMoreOneLess ==
    \A q, p, b, n \in Nat : n # 0 /\ p <= q + 1 /\ q + n <= b => p + (n - 1) <= b
  OBVIOUS

\* What a sum is bounded by bounds its parts.
LEMMA AddendIsBounded ==
    \A a, b, c \in Nat : a + b <= c => a <= c
  OBVIOUS

\* A timeout more is worth one longest timeout more.
LEMMA OneTimeoutMore ==
    ASSUME NEW n \in Nat
    PROVE  /\ (n + 1) * MaxRto \in Nat
           /\ (n + 2) * MaxRto = (n + 1) * MaxRto + MaxRto
           /\ MaxRto <= (n + 1) * MaxRto
  <1>1. MaxRto \in Nat
    BY TimerAssumption
  <1>2. \A k \in Nat : k * MaxRto \in Nat
    BY <1>1, SMT
  <1>3. (n + 1) * MaxRto = n * MaxRto + MaxRto /\ (n + 2) * MaxRto = n * MaxRto + 2 * MaxRto
    BY <1>1, SMT
  <1> QED
    BY <1>1, <1>2, <1>3, SMT

\* Products with the longest timeout keep the order of the numbers of timeouts.
LEMMA MoreTimeouts ==
    ASSUME NEW m \in Nat, NEW n \in Nat, m <= n
    PROVE  m * MaxRto <= n * MaxRto
  <1>1. MaxRto \in Nat
    BY TimerAssumption
  <1>2. PICK d \in Nat : n = m + d
    <2>1. n - m \in Nat /\ n = m + (n - m)
      BY SMT
    <2> QED BY <2>1
  <1>3. n * MaxRto = m * MaxRto + d * MaxRto /\ d * MaxRto \in Nat /\ m * MaxRto \in Nat
    BY <1>1, <1>2, SMT
  <1> QED BY <1>3, SMT

\* The estimator keeps the RTO between its clamps, and its two averages within what a
\* sample can be (update_rtt).
LEMMA EstimatorBounds ==
    ASSUME srtt \in 0..MaxRtt, rttvar \in 0..MaxRtt, NEW rtt \in 0..MaxRtt
    PROVE  Srtt(rtt) \in 0..MaxRtt /\ RttVar(rtt) \in 0..MaxRtt /\ Rto(rtt) \in MinRto..MaxRto
  <1>1. MinRto \in Nat /\ MaxRto \in Nat /\ MinRto <= MaxRto /\ MaxRtt \in Nat
    BY TimerAssumption
  <1>2. Srtt(rtt) \in 0..MaxRtt
    BY <1>1, SMT DEF Srtt
  <1>3. RttVar(rtt) \in 0..MaxRtt
    <2>1. Distance(srtt, rtt) \in 0..MaxRtt
      BY <1>1, SMT DEF Distance
    <2> QED BY <1>1, <2>1, SMT DEF RttVar
  <1>4. Rto(rtt) \in MinRto..MaxRto
    BY <1>1, <1>2, <1>3, SMT DEF Rto, Lesser, Greater
  <1> QED BY <1>2, <1>3, <1>4

\* Resending changes neither which packets are outgoing nor what kind of record they have.
LEMMA ResentPackets ==
    ASSUME NEW out, NEW R,
           \A s \in DOMAIN out : out[s] \in [age : 0..MaxRtt, fresh : BOOLEAN, sacked : BOOLEAN]
    PROVE  /\ DOMAIN Resent(out, R) = DOMAIN out
           /\ \A s \in DOMAIN out :
                 Resent(out, R)[s] \in [age : 0..MaxRtt, fresh : BOOLEAN, sacked : BOOLEAN]
  <1>1. 0 \in 0..MaxRtt
    BY TimerAssumption, SMT
  <1> QED BY <1>1 DEF Resent

\* A set of sequence numbers has a least one.
LEMMA LeastElement ==
    ASSUME NEW G, G \subseteq Nat, G # {}
    PROVE  \E n \in G : \A x \in G : n <= x
  <1>1. PICK n \in G : \A y \in G : ~(<<y, n>> \in OpToRel(<, Nat))
    BY NatLessThanWellFounded, WFMin
  <1>2. ASSUME NEW x \in G
        PROVE  n <= x
    <2>1. x \in Nat /\ n \in Nat
      OBVIOUS
    <2>2. ~(x < n)
      BY <1>1, <2>1, Zenon DEF OpToRel
    <2> QED BY <2>1, <2>2, SMT
  <1> QED BY <1>2

\* The receiver's loop ends at the first sequence number it does not hold, which is at most
\* the first one that was never written (receive_data).
LEMMA FirstMissing ==
    ASSUME NEW lo \in Nat, NEW top \in Nat, lo <= top, top <= MaxSeq,
           NEW have, top \notin have
    PROVE  LET upto == CHOOSE n \in lo..MaxSeq :
                           n \notin have /\ \A t \in lo..(n - 1) : t \in have
           IN  upto \in lo..top
  <1> DEFINE Stops(n) == n \notin have /\ \A t \in lo..(n - 1) : t \in have
             G == {n \in Nat : n >= lo /\ n \notin have}
  <1>1. MaxSeq \in Nat
    BY TimerAssumption
  <1>2. top \in G
    BY SMT
  <1>3. PICK n \in G : \A x \in G : n <= x
    <2>1. G \subseteq Nat /\ G # {}
      BY <1>2
    <2> HIDE DEF G
    <2> QED BY <2>1, LeastElement
  <1>4. n \in lo..MaxSeq /\ Stops(n)
    <2>1. n <= top
      BY <1>2, <1>3
    <2>2. \A t \in lo..(n - 1) : t \in have
      BY <1>3, SMT
    <2> QED BY <1>1, <1>3, <2>1, <2>2, SMT
  <1> DEFINE u == CHOOSE k \in lo..MaxSeq : Stops(k)
  <1>5. u \in lo..MaxSeq /\ Stops(u)
    BY <1>4, Zenon
  <1>6. u <= top
    BY <1>1, <1>5, SMT
  <1> QED BY <1>1, <1>5, <1>6, SMT

-----------------------------------------------------------------------------
(* Each step keeps TimersInv.                                                *)

\* A new stream.
LEMMA InitInv == Init => TimersInv
  <1> SUFFICES ASSUME Init PROVE TimersInv
    OBVIOUS
  <1> USE TimerAssumption DEF Init
  <1>1. DOMAIN outgoing = {}
    OBVIOUS
  <1>2. 0 <= MaxRtoTimeouts * MaxRto /\ MaxRtoTimeouts * MaxRto \in Nat
    BY SMT
  <1>3. TypeOK
    <2>1. 0 \in 0..TooLong
      BY <1>2, SMT DEF TooLong
    <2>2. /\ 0 \in 0..MaxSeq /\ 0 \in 0..MaxRtt /\ MinRto \in MinRto..MaxRto
          /\ 0 \in 0..MaxRtoTimeouts /\ 0 \in 0..MaxLoss
      BY SMT
    <2> QED BY <1>1, <2>1, <2>2, Zenon DEF TypeOK
  <1>4. ArmedWhileOutgoing
    BY <1>1 DEF ArmedWhileOutgoing
  <1>5. OutgoingIsUnacked /\ NothingIsMadeUp
    BY <1>1, SMT DEF OutgoingIsUnacked, NothingIsMadeUp
  <1>6. QuietIsTimed
    BY SMT DEF QuietIsTimed, Far
  <1> QED BY <1>3, <1>4, <1>5, <1>6 DEF TimersInv

\* A packet sent arms the timer if it is the first one (the pacing branch).
LEMMA PacingSendInv ==
    ASSUME TimersInv, PacingSend
    PROVE  TimersInv'
  <1> USE TimerAssumption
  <1>1. DOMAIN outgoing' = DOMAIN outgoing \cup {next_seq}
    BY DEF PacingSend
  <1>2. \A s \in DOMAIN outgoing' :
            outgoing'[s] \in [age : 0..MaxRtt, fresh : BOOLEAN, sacked : BOOLEAN]
    <2>1. [age |-> 0, fresh |-> TRUE, sacked |-> FALSE]
              \in [age : 0..MaxRtt, fresh : BOOLEAN, sacked : BOOLEAN]
      BY SMT
    <2> QED BY <1>1, <2>1 DEF PacingSend, TimersInv, TypeOK
  <1>3. next_seq \in Seqs /\ next_seq' \in 0..MaxSeq
    BY SMT DEF PacingSend, TimersInv, TypeOK, Seqs
  <1>4. rto_sleep' \in {Far} \cup 0..MaxRto /\ quiet' \in 0..TooLong
    <2>1. TooLong \in Nat
      BY SMT DEF TooLong
    <2> QED BY <2>1, SMT DEF PacingSend, TimersInv, TypeOK
  <1>5. TypeOK'
    <2>1. DOMAIN outgoing' \subseteq Seqs /\ data' \subseteq Seqs
      BY <1>1, <1>3, Zenon DEF PacingSend, TimersInv, TypeOK
    <2> QED BY <1>2, <1>3, <1>4, <2>1, Zenon DEF PacingSend, TimersInv, TypeOK, estimator, receiver
  <1>6. ArmedWhileOutgoing'
    <2>1. rto_sleep' # Far
      <3>1. CASE DOMAIN outgoing = {}
        BY <3>1, SMT DEF PacingSend, TimersInv, TypeOK, Far
      <3>2. CASE DOMAIN outgoing # {}
        BY <3>2, Zenon DEF PacingSend, TimersInv, ArmedWhileOutgoing
      <3> QED BY <3>1, <3>2
    <2> QED BY <1>1, <2>1, Zenon DEF ArmedWhileOutgoing
  <1>7. OutgoingIsUnacked'
    <2>1. next_seq \in Nat /\ remote_acked \in Nat /\ remote_acked <= next_seq
      BY SMT DEF TimersInv, TypeOK, OutgoingIsUnacked, NothingIsMadeUp
    <2>2. (remote_acked..(next_seq - 1)) \cup {next_seq} = remote_acked..((next_seq + 1) - 1)
      BY <2>1, SMT
    <2> QED BY <1>1, <2>2, Zenon DEF PacingSend, TimersInv, OutgoingIsUnacked, receiver
  <1>8. NothingIsMadeUp'
    <2>1. next_seq \in Nat /\ next_remote_seq \in Nat
      BY SMT DEF TimersInv, TypeOK
    <2>2. next_remote_seq <= next_seq + 1 /\ 0..(next_seq - 1) \subseteq 0..(next_seq + 1 - 1)
          /\ next_seq \in 0..(next_seq + 1 - 1)
      BY <2>1, SMT DEF TimersInv, NothingIsMadeUp
    <2>3. data' \cup recv_buf' \subseteq 0..(next_seq' - 1)
      <3>1. next_seq' = next_seq + 1 /\ data' = data \cup {next_seq} /\ recv_buf' = recv_buf
        BY DEF PacingSend, receiver
      <3>2. data \cup recv_buf \subseteq 0..(next_seq - 1)
        BY DEF TimersInv, NothingIsMadeUp
      <3> QED BY <2>2, <3>1, <3>2, SMT
    <2> QED BY <2>2, <2>3, Zenon DEF PacingSend, TimersInv, NothingIsMadeUp, receiver
  <1>9. QuietIsTimed'
    <2>1. CASE DOMAIN outgoing = {}
      <3>1. rto_timeouts \in Nat /\ rto \in Nat /\ rto <= MaxRto
        BY SMT DEF TimersInv, TypeOK
      <3>2. MaxRto <= (rto_timeouts + 1) * MaxRto /\ (rto_timeouts + 1) * MaxRto \in Nat
        BY <3>1, OneTimeoutMore
      <3>3. rto_sleep' = rto /\ quiet' = 0 /\ rto_timeouts' = rto_timeouts /\ failed' = failed
        BY <2>1 DEF PacingSend, estimator
      <3>4. ~failed /\ rto_timeouts < MaxRtoTimeouts
        BY DEF PacingSend, TimersInv, QuietIsTimed
      <3>5. 0 + (IF rto = Far THEN 0 ELSE rto) <= (rto_timeouts + 1) * MaxRto
        BY <3>1, <3>2, SMT DEF Far
      <3> QED BY <3>3, <3>4, <3>5, Zenon DEF QuietIsTimed
    <2>2. CASE DOMAIN outgoing # {}
      BY <2>2, Zenon DEF PacingSend, TimersInv, QuietIsTimed, estimator
    <2> QED BY <2>1, <2>2
  <1> QED BY <1>5, <1>6, <1>7, <1>8, <1>9 DEF TimersInv

\* A timeout is counted before the timer is armed again, or the stream fails.
LEMMA RtoFiresInv ==
    ASSUME TimersInv, RtoFires
    PROVE  TimersInv'
  <1> USE TimerAssumption
  <1> DEFINE again == {s \in DOMAIN outgoing : ~outgoing[s].sacked}
  <1>1. DOMAIN outgoing # {}
    BY DEF RtoFires, TimersInv, ArmedWhileOutgoing, Far
  <1>2. CASE GiveUp
    <2>1. failed' = TRUE /\ rto_sleep' = Far /\ rto_timeouts' = rto_timeouts + 1
          /\ UNCHANGED <<outgoing, rto, data, next_seq, remote_acked, srtt, rttvar,
                         next_remote_seq, recv_buf, keepalive, alive, acks, losses, quiet>>
      BY <1>1, <1>2 DEF RtoFires, receiver
    <2>2. rto_timeouts' \in 0..MaxRtoTimeouts
      BY <2>1, SMT DEF RtoFires, TimersInv, TypeOK, QuietIsTimed
    <2>3. TypeOK'
      BY <2>1, <2>2, Zenon DEF TimersInv, TypeOK
    <2> QED BY <2>1, <2>3, Zenon DEF TimersInv, ArmedWhileOutgoing, OutgoingIsUnacked,
                NothingIsMadeUp, QuietIsTimed
  <1>3. CASE ~GiveUp
    <2>1. /\ failed' = FALSE /\ failed = FALSE /\ rto_timeouts' = rto_timeouts + 1
          /\ rto' = Lesser(2 * rto, MaxRto) /\ rto_sleep' = rto' /\ rto_sleep = 0
          /\ outgoing' = Resent(outgoing, again) /\ data' = data \cup again
          /\ UNCHANGED <<next_seq, remote_acked, srtt, rttvar, next_remote_seq, recv_buf,
                         keepalive, alive, acks, losses, quiet>>
      BY <1>1, <1>3, Zenon DEF RtoFires, receiver, TimersInv, TypeOK
    <2>2. rto_timeouts \in Nat /\ rto_timeouts + 1 < MaxRtoTimeouts
      BY <1>3, SMT DEF GiveUp, TimersInv, TypeOK
    <2>3. rto' \in MinRto..MaxRto
      BY <2>1, SMT DEF Lesser, TimersInv, TypeOK
    <2>4. /\ DOMAIN outgoing' = DOMAIN outgoing
          /\ \A s \in DOMAIN outgoing :
                outgoing'[s] \in [age : 0..MaxRtt, fresh : BOOLEAN, sacked : BOOLEAN]
      BY <2>1, ResentPackets, Zenon DEF TimersInv, TypeOK
    <2>5. TypeOK'
      <3>1. rto_timeouts' \in 0..MaxRtoTimeouts /\ rto_sleep' \in {Far} \cup 0..MaxRto
        BY <2>1, <2>2, <2>3, SMT
      <3>2. data' \subseteq Seqs
        BY <2>1, Zenon DEF TimersInv, TypeOK
      <3> QED BY <2>1, <2>3, <2>4, <3>1, <3>2, Zenon DEF TimersInv, TypeOK
    <2>6. ArmedWhileOutgoing'
      <3>1. rto_sleep' # Far
        BY <2>1, <2>3, SMT DEF Far
      <3> QED BY <1>1, <2>4, <3>1, Zenon DEF ArmedWhileOutgoing
    <2>7. OutgoingIsUnacked'
      BY <2>1, <2>4, Zenon DEF TimersInv, OutgoingIsUnacked
    <2>8. NothingIsMadeUp'
      <3>1. remote_acked \in Nat /\ next_seq \in Nat
        BY SMT DEF TimersInv, TypeOK
      <3>2. remote_acked..(next_seq - 1) \subseteq 0..(next_seq - 1)
        BY <3>1, SMT
      <3>3. data' \subseteq 0..(next_seq - 1)
        BY <2>1, <3>2, Zenon DEF TimersInv, OutgoingIsUnacked, NothingIsMadeUp
      <3> QED BY <2>1, <3>3, Zenon DEF TimersInv, NothingIsMadeUp
    <2>9. QuietIsTimed'
      <3>1. quiet \in Nat /\ quiet <= (rto_timeouts + 1) * MaxRto
        <4>1. quiet \in Nat
          BY SMT DEF TimersInv, TypeOK, TooLong
        <4>2. quiet + 0 <= (rto_timeouts + 1) * MaxRto
          <5>1. quiet + (IF rto_sleep = Far THEN 0 ELSE rto_sleep) <= (rto_timeouts + 1) * MaxRto
            BY <2>1 DEF TimersInv, QuietIsTimed
          <5>2. (IF rto_sleep = Far THEN 0 ELSE rto_sleep) = 0
            BY <2>1
          <5> QED BY <5>1, <5>2
        <4> QED BY <4>1, <4>2
      <3>2. (rto_timeouts + 2) * MaxRto = (rto_timeouts + 1) * MaxRto + MaxRto
            /\ (rto_timeouts + 1) * MaxRto \in Nat
        BY <2>2, OneTimeoutMore
      <3>3. rto' <= MaxRto /\ rto' \in Nat
        BY <2>3, SMT
      <3> DEFINE b == (rto_timeouts + 1) * MaxRto
      <3>4. b \in Nat /\ quiet <= b
        BY <3>1, <3>2
      <3> HIDE DEF b
      <3>5. quiet + rto' <= b + MaxRto
        <4>1. quiet \in Nat
          BY <3>1
        <4>2. MaxRto \in Nat
          OBVIOUS
        <4> QED BY <3>3, <3>4, <4>1, <4>2, SumsAreOrdered
      <3>6. quiet + rto' <= (rto_timeouts + 2) * MaxRto
        BY <3>2, <3>5 DEF b
      <3>7. rto_timeouts' + 1 = rto_timeouts + 2 /\ rto' # Far
        BY <2>1, <2>2, <3>3, SMT DEF Far
      <3> QED BY <2>1, <2>2, <3>6, <3>7, Zenon DEF QuietIsTimed
    <2> QED BY <2>5, <2>6, <2>7, <2>8, <2>9 DEF TimersInv
  <1> QED BY <1>2, <1>3

\* An ACK takes what it acknowledges from the outgoing buffer and sets the timer by what is left.
LEMMA ReceiveAckInv ==
    ASSUME TimersInv, NEW m \in acks, ReceiveAck(m)
    PROVE  TimersInv'
  <1> USE TimerAssumption
  <1>0. m \in [ack : 0..MaxSeq, sacks : SUBSET Seqs]
    BY Zenon DEF TimersInv, TypeOK
  <1>1. CASE (m.ack > 0 \/ m.sacks # {}) /\ ProcessAck(m) /\ quiet' = 0
    <2> DEFINE new    == m.ack > remote_acked
               gone   == IF new THEN Acked(m.ack) ELSE {}
               sample == {s \in gone : outgoing[s].fresh}
               first  == CHOOSE s \in sample : \A t \in sample : s <= t
               rtt    == Lesser(outgoing[first].age, MaxRtt)
               out    == [s \in DOMAIN outgoing \ gone |->
                             [outgoing[s] EXCEPT !.sacked = @ \/ s \in m.sacks]]
               lost   == {s \in DOMAIN out : ~out[s].sacked
                                              /\ \E t \in DOMAIN out : t > s /\ out[t].sacked}
    <2>1. /\ remote_acked' = IF new THEN m.ack ELSE remote_acked
          /\ srtt' = IF sample # {} THEN Srtt(rtt) ELSE srtt
          /\ rttvar' = IF sample # {} THEN RttVar(rtt) ELSE rttvar
          /\ rto' = IF sample # {} THEN Rto(rtt) ELSE rto
          /\ rto_timeouts' = IF new THEN 0 ELSE rto_timeouts
          /\ outgoing' = Resent(out, lost)
          /\ data' = data \cup lost
          /\ rto_sleep' = ResetTimer(DOMAIN out = {}, rto')
      BY <1>1, Zenon DEF ProcessAck
    <2>2. /\ acks' = acks \ {m} /\ failed = FALSE /\ failed' = FALSE /\ quiet' = 0
          /\ UNCHANGED <<next_seq, next_remote_seq, recv_buf, keepalive, alive, losses>>
      BY <1>1, Zenon DEF ReceiveAck, receiver, TimersInv, TypeOK
    <2>3. DOMAIN out = DOMAIN outgoing \ gone
      OBVIOUS
    <2>4. \A s \in DOMAIN out : out[s] \in [age : 0..MaxRtt, fresh : BOOLEAN, sacked : BOOLEAN]
      <3>1. SUFFICES ASSUME NEW s \in DOMAIN outgoing \ gone
                     PROVE  [outgoing[s] EXCEPT !.sacked = @ \/ s \in m.sacks]
                                \in [age : 0..MaxRtt, fresh : BOOLEAN, sacked : BOOLEAN]
        BY <2>3
      <3>2. outgoing[s] \in [age : 0..MaxRtt, fresh : BOOLEAN, sacked : BOOLEAN]
        BY DEF TimersInv, TypeOK
      <3> HIDE DEF gone
      <3> QED BY <3>2
    <2>5. /\ DOMAIN outgoing' = DOMAIN outgoing \ gone
          /\ \A s \in DOMAIN outgoing' :
                outgoing'[s] \in [age : 0..MaxRtt, fresh : BOOLEAN, sacked : BOOLEAN]
      <3>1. lost \subseteq DOMAIN out
        OBVIOUS
      <3> HIDE DEF out, lost
      <3> QED BY <2>1, <2>3, <2>4, ResentPackets, Zenon
    <2>6. lost \subseteq DOMAIN outgoing
      BY <2>3, Zenon
    <2>7. srtt' \in 0..MaxRtt /\ rttvar' \in 0..MaxRtt /\ rto' \in MinRto..MaxRto
      <3>1. CASE sample = {}
        BY <2>1, <3>1, Zenon DEF TimersInv, TypeOK
      <3>2. CASE sample # {}
        <4>1. sample \subseteq DOMAIN outgoing
          BY Zenon DEF Acked
        <4>2. first \in sample
          <5>1. sample \subseteq Nat
            BY <4>1, SMT DEF TimersInv, TypeOK, Seqs
          <5> HIDE DEF sample
          <5>2. \E s \in sample : \A t \in sample : s <= t
            BY <3>2, <5>1, LeastElement, Zenon
          <5> QED BY <5>2, Zenon
        <4>3. outgoing[first].age \in 0..MaxRtt
          <5> HIDE DEF first, sample
          <5> QED BY <4>1, <4>2, Zenon DEF TimersInv, TypeOK
        <4>4. rtt \in 0..MaxRtt
          <5> HIDE DEF first
          <5> QED BY <4>3, SMT DEF Lesser
        <4> HIDE DEF rtt, sample
        <4>5. srtt \in 0..MaxRtt /\ rttvar \in 0..MaxRtt
          BY Zenon DEF TimersInv, TypeOK
        <4> QED BY <2>1, <3>2, <4>4, <4>5, EstimatorBounds, Zenon
      <3> QED BY <3>1, <3>2
    <2> HIDE DEF out, lost, sample, rtt, first
    <2>8. rto_timeouts' \in Nat /\ rto_timeouts' < MaxRtoTimeouts
      <3>1. rto_timeouts \in Nat /\ rto_timeouts < MaxRtoTimeouts
        BY <2>2, SMT DEF TimersInv, TypeOK, QuietIsTimed
      <3>2. rto_timeouts' = 0 \/ rto_timeouts' = rto_timeouts
        BY <2>1
      <3> QED BY <3>1, <3>2, SMT
    <2>9. rto_sleep' = IF DOMAIN outgoing' = {} THEN Far ELSE rto'
      BY <2>1, <2>3, <2>5, Zenon DEF ResetTimer
    <2>10. /\ remote_acked' \in 0..MaxSeq /\ remote_acked' <= next_remote_seq
           /\ DOMAIN outgoing' = remote_acked'..(next_seq - 1)
      <3>1. /\ remote_acked \in Nat /\ next_seq \in Nat /\ next_remote_seq \in Nat
            /\ m.ack \in Nat /\ m.ack \in 0..MaxSeq /\ remote_acked \in 0..MaxSeq
        BY <1>0, SMT DEF TimersInv, TypeOK
      <3>2. m.ack <= next_remote_seq /\ remote_acked <= next_remote_seq
            /\ DOMAIN outgoing = remote_acked..(next_seq - 1)
        BY Zenon DEF TimersInv, NothingIsMadeUp, OutgoingIsUnacked
      <3>3. CASE new
        <4>1. remote_acked' = m.ack /\ gone = {s \in DOMAIN outgoing : s < m.ack}
          BY <2>1, <3>3 DEF Acked
        <4>2. (remote_acked..(next_seq - 1)) \ {s \in remote_acked..(next_seq - 1) : s < m.ack}
                 = m.ack..(next_seq - 1)
          BY <3>1, <3>3, SMT
        <4>3. DOMAIN outgoing' = m.ack..(next_seq - 1)
          BY <2>5, <3>2, <4>1, <4>2, Zenon
        <4> QED BY <3>1, <3>2, <4>1, <4>3, Zenon
      <3>4. CASE ~new
        BY <2>1, <2>5, <3>1, <3>2, <3>4, Zenon
      <3> QED BY <3>3, <3>4
    <2>11. TypeOK'
      <3>1. rto_timeouts' \in 0..MaxRtoTimeouts /\ rto_sleep' \in {Far} \cup 0..MaxRto
        <4>1. rto' \in 0..MaxRto /\ rto_timeouts' \in 0..MaxRtoTimeouts
          BY <2>7, <2>8, SMT
        <4> QED BY <2>9, <4>1, Zenon
      <3>2. data' \subseteq Seqs /\ DOMAIN outgoing' \subseteq Seqs
        BY <2>1, <2>5, <2>6, Zenon DEF TimersInv, TypeOK
      <3>3. 0 \in 0..TooLong
        <4>1. MaxRtoTimeouts * MaxRto \in Nat
          BY SMT
        <4> QED BY <4>1, SMT DEF TooLong
      <3> QED BY <2>2, <2>5, <2>7, <2>10, <3>1, <3>2, <3>3, Zenon DEF TimersInv, TypeOK
    <2>12. ArmedWhileOutgoing'
      <3>1. rto' # Far
        BY <2>7, SMT DEF Far
      <3> QED BY <2>9, <3>1, Zenon DEF ArmedWhileOutgoing
    <2>13. OutgoingIsUnacked'
      BY <2>2, <2>10, Zenon DEF OutgoingIsUnacked
    <2>14. NothingIsMadeUp'
      <3>1. remote_acked \in Nat /\ next_seq \in Nat
        BY SMT DEF TimersInv, TypeOK
      <3>2. remote_acked..(next_seq - 1) \subseteq 0..(next_seq - 1)
        BY <3>1, SMT
      <3>3. data' \subseteq 0..(next_seq - 1)
        BY <2>1, <2>6, <3>2, Zenon DEF TimersInv, OutgoingIsUnacked, NothingIsMadeUp
      <3> QED BY <2>2, <3>3, Zenon DEF TimersInv, NothingIsMadeUp
    <2>15. QuietIsTimed'
      <3>1. MaxRto <= (rto_timeouts' + 1) * MaxRto /\ (rto_timeouts' + 1) * MaxRto \in Nat
        BY <2>8, OneTimeoutMore
      <3> DEFINE b == (rto_timeouts' + 1) * MaxRto
      <3>2. b \in Nat /\ MaxRto <= b
        BY <3>1
      <3> HIDE DEF b
      <3>3. 0 + (IF rto_sleep' = Far THEN 0 ELSE rto_sleep') <= b
        <4>1. CASE rto_sleep' = Far
          BY <3>2, <4>1, SMT
        <4>2. CASE rto_sleep' # Far
          <5>1. rto_sleep' = rto'
            BY <2>9, <4>2
          <5>2. rto' \in Nat /\ rto' <= MaxRto
            BY <2>7, SMT
          <5>3. 0 + rto' <= b
            <6>1. MaxRto \in Nat /\ rto' \in Nat /\ b \in Nat
              BY <3>2, <5>2
            <6> QED BY <3>2, <5>2, <6>1, OrderIsTransitive
          <5> QED BY <4>2, <5>1, <5>3
        <4> QED BY <4>1, <4>2
      <3> QED BY <2>2, <2>8, <3>3, Zenon DEF QuietIsTimed, b
    <2> QED BY <2>11, <2>12, <2>13, <2>14, <2>15 DEF TimersInv
  <1>2. CASE UNCHANGED <<remote_acked, outgoing, estimator, rto_sleep, data, quiet>>
    <2>1. acks' \subseteq acks
          /\ UNCHANGED <<next_seq, failed, next_remote_seq, recv_buf, keepalive, alive, losses>>
      BY Zenon DEF ReceiveAck, receiver
    <2>2. UNCHANGED <<remote_acked, outgoing, srtt, rttvar, rto, rto_timeouts, rto_sleep, data, quiet>>
      BY <1>2 DEF estimator
    <2>3. TypeOK'
      BY <2>1, <2>2, Zenon DEF TimersInv, TypeOK
    <2> QED BY <2>1, <2>2, <2>3, Zenon DEF TimersInv, ArmedWhileOutgoing, OutgoingIsUnacked,
               NothingIsMadeUp, QuietIsTimed
  <1> QED BY <1>1, <1>2, Zenon DEF ReceiveAck

\* The peer takes a packet in and acknowledges up to the first one it misses.
LEMMA ReceiveDataInv ==
    ASSUME TimersInv, NEW s \in data, ReceiveData(s)
    PROVE  TimersInv'
  <1> USE TimerAssumption
  <1> DEFINE have == recv_buf \cup {s}
             upto == CHOOSE n \in next_remote_seq..MaxSeq :
                         n \notin have /\ \A t \in next_remote_seq..(n - 1) : t \in have
  <1>1. /\ data' = data \ {s}
        /\ next_remote_seq' = IF s >= next_remote_seq THEN upto ELSE next_remote_seq
        /\ recv_buf' = IF s >= next_remote_seq THEN {t \in have : t > upto} ELSE recv_buf
        /\ acks' = acks \cup {[ack |-> next_remote_seq', sacks |-> recv_buf']}
        /\ UNCHANGED <<next_seq, remote_acked, outgoing, srtt, rttvar, rto, rto_timeouts,
                       rto_sleep, failed, keepalive, alive, losses, quiet>>
    BY Zenon DEF ReceiveData, estimator
  <1>2. /\ next_seq \in Nat /\ next_seq <= MaxSeq /\ next_remote_seq \in Nat
        /\ next_remote_seq <= next_seq /\ have \subseteq 0..(next_seq - 1) /\ have \subseteq Seqs
    <2>1. next_seq \in Nat /\ next_seq <= MaxSeq /\ next_remote_seq \in Nat
      BY SMT DEF TimersInv, TypeOK
    <2> QED BY <2>1, Zenon DEF TimersInv, TypeOK, NothingIsMadeUp
  <1>3. upto \in next_remote_seq..next_seq
    <2>1. next_seq \notin have
      BY <1>2, SMT
    <2> HIDE DEF have
    <2> QED BY <1>2, <2>1, FirstMissing
  <1> HIDE DEF upto
  <1>4. /\ next_remote_seq' \in 0..MaxSeq
        /\ next_remote_seq' <= next_seq /\ next_remote_seq <= next_remote_seq'
    BY <1>1, <1>2, <1>3, SMT
  <1>5. recv_buf' \subseteq have
    BY <1>1, Zenon
  <1> HIDE DEF have
  <1>6. TypeOK'
    <2>1. recv_buf' \subseteq Seqs
      BY <1>2, <1>5
    <2>2. [ack |-> next_remote_seq', sacks |-> recv_buf'] \in [ack : 0..MaxSeq, sacks : SUBSET Seqs]
      BY <1>4, <2>1, Zenon
    <2>3. acks' \subseteq [ack : 0..MaxSeq, sacks : SUBSET Seqs]
      BY <1>1, <2>2, Zenon DEF TimersInv, TypeOK
    <2> QED BY <1>1, <1>4, <2>1, <2>3, Zenon DEF TimersInv, TypeOK
  <1>7. OutgoingIsUnacked'
    <2>1. remote_acked \in Nat /\ remote_acked <= next_remote_seq
      BY SMT DEF TimersInv, TypeOK, OutgoingIsUnacked
    <2>2. remote_acked <= next_remote_seq'
      BY <1>2, <1>4, <2>1, SMT
    <2> QED BY <1>1, <2>2, Zenon DEF TimersInv, OutgoingIsUnacked
  <1>8. NothingIsMadeUp'
    <2>1. \A m \in acks : m.ack <= next_remote_seq'
      <3>1. SUFFICES ASSUME NEW m \in acks PROVE m.ack <= next_remote_seq'
        OBVIOUS
      <3>2. m \in [ack : 0..MaxSeq, sacks : SUBSET Seqs] /\ m.ack <= next_remote_seq
        BY Zenon DEF TimersInv, TypeOK, NothingIsMadeUp
      <3>3. m.ack \in Nat
        BY <3>2, SMT
      <3> QED BY <1>2, <1>4, <3>2, <3>3, SMT
    <2>2. [ack |-> next_remote_seq', sacks |-> recv_buf'].ack <= next_remote_seq'
      BY <1>4, SMT
    <2>3. \A m \in acks' : m.ack <= next_remote_seq'
      BY <1>1, <2>1, <2>2, Zenon
    <2>4. data' \cup recv_buf' \subseteq 0..(next_seq - 1)
      BY <1>1, <1>2, <1>5, Zenon DEF TimersInv, NothingIsMadeUp
    <2> QED BY <1>1, <1>4, <2>3, <2>4, Zenon DEF NothingIsMadeUp
  <1>9. ArmedWhileOutgoing' /\ QuietIsTimed'
    BY <1>1, Zenon DEF TimersInv, ArmedWhileOutgoing, QuietIsTimed
  <1> QED BY <1>6, <1>7, <1>8, <1>9 DEF TimersInv

\* The peer's heartbeat repeats its ACK.
LEMMA HeartbeatInv ==
    ASSUME TimersInv, Heartbeat
    PROVE  TimersInv'
  <1> USE TimerAssumption
  <1>1. /\ keepalive' = Interval /\ acks' = acks \cup {[ack |-> next_remote_seq, sacks |-> {}]}
        /\ UNCHANGED <<next_seq, remote_acked, outgoing, srtt, rttvar, rto, rto_timeouts, rto_sleep,
                       failed, next_remote_seq, recv_buf, alive, data, losses, quiet>>
    BY Zenon DEF Heartbeat, estimator
  <1>2. keepalive' \in 0..Interval /\ next_remote_seq <= next_remote_seq
    BY <1>1, SMT DEF TimersInv, TypeOK
  <1>3. [ack |-> next_remote_seq, sacks |-> {}] \in [ack : 0..MaxSeq, sacks : SUBSET Seqs]
    BY Zenon DEF TimersInv, TypeOK
  <1>4. TypeOK'
    BY <1>1, <1>2, <1>3, Zenon DEF TimersInv, TypeOK
  <1>5. NothingIsMadeUp'
    <2>1. [ack |-> next_remote_seq, sacks |-> {}].ack <= next_remote_seq
      BY <1>2
    <2> QED BY <1>1, <2>1, Zenon DEF TimersInv, NothingIsMadeUp
  <1> QED BY <1>1, <1>4, <1>5, Zenon DEF TimersInv, ArmedWhileOutgoing, OutgoingIsUnacked, QuietIsTimed

\* The peer falls silent.
LEMMA CrashInv ==
    ASSUME TimersInv, Crash
    PROVE  TimersInv'
  <1>1. /\ alive' = FALSE
        /\ UNCHANGED <<next_seq, remote_acked, outgoing, srtt, rttvar, rto, rto_timeouts, rto_sleep,
                       failed, next_remote_seq, recv_buf, keepalive, data, acks, losses, quiet>>
    BY Zenon DEF Crash, estimator
  <1>2. TypeOK'
    BY <1>1, Zenon DEF TimersInv, TypeOK
  <1> QED BY <1>1, <1>2, Zenon DEF TimersInv, ArmedWhileOutgoing, OutgoingIsUnacked,
             NothingIsMadeUp, QuietIsTimed

\* A packet is lost.
LEMMA LoseInv ==
    ASSUME TimersInv, Lose
    PROVE  TimersInv'
  <1>1. /\ data' \subseteq data /\ acks' \subseteq acks /\ losses' = losses + 1 /\ losses < MaxLoss
        /\ UNCHANGED <<next_seq, remote_acked, outgoing, srtt, rttvar, rto, rto_timeouts, rto_sleep,
                       failed, next_remote_seq, recv_buf, keepalive, alive, quiet>>
    BY Zenon DEF Lose, estimator, receiver
  <1>2. losses' \in 0..MaxLoss
    BY <1>1, TimerAssumption, SMT DEF TimersInv, TypeOK
  <1>3. TypeOK'
    BY <1>1, <1>2, Zenon DEF TimersInv, TypeOK
  <1> QED BY <1>1, <1>3, Zenon DEF TimersInv, ArmedWhileOutgoing, OutgoingIsUnacked,
             NothingIsMadeUp, QuietIsTimed

\* A tick lengthens the silence by as much as it takes from the timer.
LEMMA TickInv ==
    ASSUME TimersInv, Tick
    PROVE  TimersInv'
  <1> USE TimerAssumption
  <1>1. /\ rto_sleep # 0 /\ (alive => keepalive > 0)
        /\ rto_sleep' = IF rto_sleep = Far THEN Far ELSE rto_sleep - 1
        /\ keepalive' = IF alive THEN keepalive - 1 ELSE keepalive
        /\ outgoing' = [s \in DOMAIN outgoing |-> [outgoing[s] EXCEPT !.age = Lesser(@ + 1, MaxRtt)]]
        /\ quiet' = IF DOMAIN outgoing = {} \/ failed THEN quiet ELSE Lesser(quiet + 1, TooLong)
        /\ UNCHANGED <<next_seq, remote_acked, srtt, rttvar, rto, rto_timeouts, failed,
                       next_remote_seq, recv_buf, alive, data, acks, losses>>
    BY Zenon DEF Tick, estimator
  <1>2. /\ DOMAIN outgoing' = DOMAIN outgoing
        /\ \A s \in DOMAIN outgoing' :
              outgoing'[s] \in [age : 0..MaxRtt, fresh : BOOLEAN, sacked : BOOLEAN]
    <2>1. DOMAIN outgoing' = DOMAIN outgoing
      BY <1>1
    <2>2. ASSUME NEW s \in DOMAIN outgoing
          PROVE  [outgoing[s] EXCEPT !.age = Lesser(@ + 1, MaxRtt)]
                     \in [age : 0..MaxRtt, fresh : BOOLEAN, sacked : BOOLEAN]
      <3>1. outgoing[s] \in [age : 0..MaxRtt, fresh : BOOLEAN, sacked : BOOLEAN]
        BY DEF TimersInv, TypeOK
      <3>2. Lesser(outgoing[s].age + 1, MaxRtt) \in 0..MaxRtt
        BY <3>1, SMT DEF Lesser
      <3> QED BY <3>1, <3>2
    <2> QED BY <1>1, <2>1, <2>2
  <1>3. TooLong \in Nat /\ quiet \in Nat /\ quiet <= TooLong
    <2>1. MaxRtoTimeouts * MaxRto \in Nat
      BY SMT
    <2>2. TooLong \in Nat
      BY <2>1, SMT DEF TooLong
    <2>3. quiet \in 0..TooLong
      BY DEF TimersInv, TypeOK
    <2> QED BY <2>2, <2>3, SMT
  <1>4. TypeOK'
    <2>1. rto_sleep' \in {Far} \cup 0..MaxRto /\ keepalive' \in 0..Interval
      <3>1. rto_sleep \in {Far} \cup 0..MaxRto /\ keepalive \in 0..Interval /\ alive \in BOOLEAN
        BY DEF TimersInv, TypeOK
      <3>2. rto_sleep' \in {Far} \cup 0..MaxRto
        BY <1>1, <3>1, SMT DEF Far
      <3>3. keepalive' \in 0..Interval
        BY <1>1, <3>1, SMT
      <3> QED BY <3>2, <3>3
    <2>2. quiet' \in 0..TooLong
      <3> HIDE DEF TooLong
      <3> QED BY <1>1, <1>3, SMT DEF Lesser
    <2> QED BY <1>1, <1>2, <2>1, <2>2, Zenon DEF TimersInv, TypeOK
  <1>5. ArmedWhileOutgoing'
    <2>1. rto_sleep' # Far <=> rto_sleep # Far
      BY <1>1, SMT DEF TimersInv, TypeOK, Far
    <2> QED BY <1>1, <1>2, <2>1, Zenon DEF TimersInv, ArmedWhileOutgoing
  <1>6. OutgoingIsUnacked' /\ NothingIsMadeUp'
    BY <1>1, <1>2, Zenon DEF TimersInv, OutgoingIsUnacked, NothingIsMadeUp
  <1>7. QuietIsTimed'
    <2>0. CASE failed
      BY <1>1, <2>0, Zenon DEF QuietIsTimed
    <2>1. SUFFICES ASSUME ~failed PROVE QuietIsTimed'
      BY <2>0
    <2> DEFINE b == (rto_timeouts + 1) * MaxRto
    <2>2. rto_timeouts < MaxRtoTimeouts
          /\ quiet + (IF rto_sleep = Far THEN 0 ELSE rto_sleep) <= b
      BY <2>1 DEF TimersInv, QuietIsTimed
    <2>3. b \in Nat
      <3>1. rto_timeouts \in Nat
        BY SMT DEF TimersInv, TypeOK
      <3> QED BY <3>1, OneTimeoutMore
    <2> HIDE DEF b
    <2>4. CASE rto_sleep = Far
      <3>1. DOMAIN outgoing = {}
        BY <2>1, <2>4 DEF TimersInv, ArmedWhileOutgoing
      <3>2. quiet' = quiet /\ rto_sleep' = Far
        BY <1>1, <2>4, <3>1
      <3> QED BY <1>1, <2>2, <2>4, <3>2, Zenon DEF QuietIsTimed, b
    <2>5. CASE rto_sleep # Far
      <3>1. rto_sleep \in Nat /\ rto_sleep # 0
        BY <1>1, <2>5, SMT DEF TimersInv, TypeOK
      <3>2. rto_sleep' = rto_sleep - 1 /\ rto_sleep - 1 \in Nat /\ rto_sleep' # Far
        BY <1>1, <2>5, <3>1, SMT DEF Far
      <3>3. quiet' \in Nat /\ quiet' <= quiet + 1
        <4> HIDE DEF TooLong
        <4> QED BY <1>1, <1>3, SMT DEF Lesser
      <3>4. quiet + rto_sleep <= b
        BY <2>2, <2>5
      <3>5. quiet' + (rto_sleep - 1) <= b
        BY <1>3, <2>3, <3>1, <3>3, <3>4, OneMoreOneLess
      <3> QED BY <1>1, <2>2, <3>2, <3>5, Zenon DEF QuietIsTimed, b
    <2> QED BY <2>4, <2>5
  <1> QED BY <1>4, <1>5, <1>6, <1>7 DEF TimersInv

-----------------------------------------------------------------------------
(* The theorems.                                                             *)

\* The inductive invariant of the clock holds always: the types and the clamps of the
\* estimator, the timer armed exactly while a packet is outgoing, the outgoing buffer
\* exactly what is not acknowledged, and the bound on how long an end may hear nothing.
THEOREM TimersInvariance == Spec => []TimersInv
  <1>1. TimersInv /\ [Next]_vars => TimersInv'
    <2> SUFFICES ASSUME TimersInv, [Next]_vars PROVE TimersInv'
      OBVIOUS
    <2>1. CASE UNCHANGED vars
      <3>1. TypeOK'
        BY <2>1, Zenon DEF vars, TimersInv, TypeOK
      <3> QED BY <2>1, <3>1, Zenon DEF vars, TimersInv, ArmedWhileOutgoing, OutgoingIsUnacked,
                 NothingIsMadeUp, QuietIsTimed
    <2>2. CASE Next
      <3>1. CASE \E m \in acks : ReceiveAck(m)
        BY <3>1, ReceiveAckInv
      <3>2. CASE \E s \in data : ReceiveData(s)
        BY <3>2, ReceiveDataInv
      <3> QED BY <2>2, <3>1, <3>2, PacingSendInv, RtoFiresInv, HeartbeatInv, CrashInv, LoseInv,
                 TickInv, Zenon DEF Next
    <2> QED BY <2>1, <2>2
  <1> QED BY <1>1, InitInv, PTL DEF Spec

\* An end that hears no ACK gives the stream up within MAX_RTO_TIMEOUTS of the longest
\* timeouts, whatever the estimator made of earlier samples, however ACKs were lost or late
\* and whenever the peer fell silent.
THEOREM GivingUp == Spec => []GivesUpInTime
  <1>1. TimersInv => GivesUpInTime
    <2> SUFFICES ASSUME TimersInv, ~failed PROVE quiet < TooLong
      BY DEF GivesUpInTime
    <2> USE TimerAssumption
    <2>1. rto_timeouts \in Nat /\ rto_timeouts + 1 <= MaxRtoTimeouts /\ MaxRtoTimeouts \in Nat
      BY SMT DEF TimersInv, TypeOK, QuietIsTimed
    <2> DEFINE b == (rto_timeouts + 1) * MaxRto
               c == MaxRtoTimeouts * MaxRto
    <2>2. b \in Nat /\ c \in Nat /\ b <= c
      <3>1. rto_timeouts + 1 \in Nat
        BY <2>1, SMT
      <3>2. b <= c
        BY <2>1, <3>1, MoreTimeouts
      <3>3. b \in Nat
        BY <2>1, OneTimeoutMore
      <3>4. c \in Nat
        BY SMT
      <3> QED BY <3>2, <3>3, <3>4
    <2>3. quiet \in Nat /\ quiet + (IF rto_sleep = Far THEN 0 ELSE rto_sleep) <= b
      <3>1. quiet \in 0..TooLong
        BY DEF TimersInv, TypeOK
      <3>2. quiet \in Nat
        BY <2>2, <3>1, SMT DEF TooLong
      <3> QED BY <3>2 DEF TimersInv, QuietIsTimed
    <2>4. (IF rto_sleep = Far THEN 0 ELSE rto_sleep) \in Nat
      BY SMT DEF TimersInv, TypeOK
    <2> HIDE DEF b, c
    <2>5. quiet <= b
      BY <2>2, <2>3, <2>4, AddendIsBounded
    <2>6. quiet < c + 1
      BY <2>2, <2>3, <2>5, SMT
    <2> QED BY <2>6 DEF c, TooLong
  <1> QED BY <1>1, TimersInvariance, PTL
====
