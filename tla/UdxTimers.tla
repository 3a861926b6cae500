------------------------------ MODULE UdxTimers ------------------------------
(***************************************************************************)
(* The clock of a UDX stream: the RTO timer `rto_sleep`, its estimator and *)
(* back-off, and the peer's heartbeats (libudx/src/native/stream.rs).      *)
(*                                                                         *)
(* One end writes single-packet messages and the other acknowledges them.  *)
(* UdxStream has both directions, chunks and lifecycle but lets a timer    *)
(* fire at any moment; here time passes in ticks and a timer fires when it *)
(* is due.  Congestion control never holds back the few packets sent here. *)
(***************************************************************************)
EXTENDS Integers, FiniteSets

CONSTANTS
    MinRto,          \* INITIAL_RTO_MS, and the lower clamp of update_rtt
    MaxRto,          \* MAX_RTO_MS
    MaxRtt,          \* MAX_RTT_MS
    MaxRtoTimeouts,  \* MAX_RTO_TIMEOUTS
    Interval,        \* HEARTBEAT_INTERVAL_MS
    MaxSeq,          \* bound: packets written
    MaxLoss,         \* bound: packets lost
    MayCrash         \* whether the peer may fall silent

ASSUME TimerAssumption ==
    /\ MinRto \in Nat \ {0} /\ MaxRto \in Nat /\ MinRto <= MaxRto /\ MaxRtt \in Nat
    /\ MaxRtoTimeouts \in Nat \ {0} /\ Interval \in Nat \ {0}
    /\ MaxSeq \in Nat /\ MaxLoss \in Nat /\ MayCrash \in BOOLEAN

VARIABLES
    next_seq, remote_acked,
    outgoing,        \* seq -> [age, fresh, sacked]: SentPacket's time_sent, retransmit_count = 0
    srtt, rttvar, rto, rto_timeouts,
    rto_sleep,       \* ticks until rto_sleep fires; Far when disarmed
    failed,          \* the processor gave the stream up
    next_remote_seq, recv_buf,
    keepalive,       \* ticks until the peer's next heartbeat
    alive,           \* the peer is running
    data, acks,      \* packets in flight
    losses,
    quiet            \* history: ticks since the last ACK of anything, or the first packet

vars == <<next_seq, remote_acked, outgoing, srtt, rttvar, rto, rto_timeouts, rto_sleep, failed,
          next_remote_seq, recv_buf, keepalive, alive, data, acks, losses, quiet>>

estimator == <<srtt, rttvar, rto, rto_timeouts>>
receiver  == <<next_remote_seq, recv_buf, keepalive, alive>>

Far == -1

Seqs == 0..(MaxSeq - 1)

\* Longer than MAX_RTO_TIMEOUTS timeouts can take; the history variable stops there.
TooLong == MaxRtoTimeouts * MaxRto + 1

Lesser(x, y)  == IF x < y THEN x ELSE y
Greater(x, y) == IF x > y THEN x ELSE y
Distance(x, y) == IF x < y THEN y - x ELSE x - y

Init ==
    /\ next_seq = 0 /\ remote_acked = 0
    /\ outgoing = [s \in {} |-> 0]
    /\ srtt = 0 /\ rttvar = 0 /\ rto = MinRto /\ rto_timeouts = 0
    /\ rto_sleep = Far /\ failed = FALSE
    /\ next_remote_seq = 0 /\ recv_buf = {}
    /\ keepalive \in 0..Interval /\ alive = TRUE
    /\ data = {} /\ acks = {} /\ losses = 0 /\ quiet = 0

\* The pacing branch sends one queued packet, and arms the timer if it is the first one.
PacingSend ==
    /\ ~failed /\ next_seq < MaxSeq
    /\ next_seq' = next_seq + 1
    /\ outgoing' = [s \in DOMAIN outgoing \cup {next_seq} |->
            IF s = next_seq THEN [age |-> 0, fresh |-> TRUE, sacked |-> FALSE] ELSE outgoing[s]]
    /\ rto_sleep' = IF DOMAIN outgoing = {} THEN rto ELSE rto_sleep
    /\ data' = data \cup {next_seq}
    /\ quiet' = IF DOMAIN outgoing = {} THEN 0 ELSE quiet
    /\ UNCHANGED <<remote_acked, estimator, failed, receiver, acks, losses>>

\* Retransmitting restarts a packet's clock and excludes it from RTT samples.
Resent(out, S) ==
    [s \in DOMAIN out |-> IF s \in S THEN [out[s] EXCEPT !.age = 0, !.fresh = FALSE] ELSE out[s]]

\* update_rtt
RttVar(rtt) == IF srtt = 0 THEN rtt \div 2 ELSE (3 * rttvar + Distance(srtt, rtt)) \div 4
Srtt(rtt)   == IF srtt = 0 THEN rtt ELSE (7 * srtt + rtt) \div 8

Rto(rtt) == Lesser(Greater(Srtt(rtt) + 4 * RttVar(rtt), MinRto), MaxRto)

\* Mutant: the packet the peer asks for next is taken for acknowledged.
AckedOffByOne(ack) == {s \in DOMAIN outgoing : s <= ack}

\* The packets a cumulative ACK removes from the outgoing buffer.
Acked(ack) == {s \in DOMAIN outgoing : s < ack}

\* Mutant: every ACK disarms the timer.
ResetAlwaysFar(empty, ms) == Far

\* What the ACK section leaves rto_sleep at.
ResetTimer(empty, ms) == IF empty THEN Far ELSE ms

\* The ACK section for a packet with a cumulative ack, SACK ranges, or both.
ProcessAck(m) ==
    LET new    == m.ack > remote_acked
        gone   == IF new THEN Acked(m.ack) ELSE {}
        sample == {s \in gone : outgoing[s].fresh}
        first  == CHOOSE s \in sample : \A t \in sample : s <= t
        rtt    == Lesser(outgoing[first].age, MaxRtt)
        out    == [s \in DOMAIN outgoing \ gone |->
                      [outgoing[s] EXCEPT !.sacked = @ \/ s \in m.sacks]]
        lost   == {s \in DOMAIN out : ~out[s].sacked /\ \E t \in DOMAIN out : t > s /\ out[t].sacked}
    IN  /\ remote_acked' = IF new THEN m.ack ELSE remote_acked
        /\ srtt' = IF sample # {} THEN Srtt(rtt) ELSE srtt
        /\ rttvar' = IF sample # {} THEN RttVar(rtt) ELSE rttvar
        /\ rto' = IF sample # {} THEN Rto(rtt) ELSE rto
        /\ rto_timeouts' = IF new THEN 0 ELSE rto_timeouts
        /\ outgoing' = Resent(out, lost)
        /\ data' = data \cup lost
        /\ rto_sleep' = ResetTimer(DOMAIN out = {}, rto')

\* An ACK, SACK or HEARTBEAT arrives.  One without ack and SACK leaves the timer alone.
ReceiveAck(m) ==
    /\ ~failed /\ m \in acks
    /\ acks' = acks \ {m}
    /\ \/ /\ m.ack > 0 \/ m.sacks # {}
          /\ ProcessAck(m)
          /\ quiet' = 0
       \/ /\ m.ack = 0 /\ m.sacks = {}
          /\ UNCHANGED <<remote_acked, outgoing, estimator, rto_sleep, data, quiet>>
    /\ UNCHANGED <<next_seq, failed, receiver, losses>>

\* Mutant: one more timeout is allowed.
GiveUpLate == rto_timeouts + 1 > MaxRtoTimeouts

\* One more timeout is one too many.
GiveUp == rto_timeouts + 1 >= MaxRtoTimeouts

\* rto_sleep fires: the stream fails, or backs off and sends again what is not sacked.
RtoFires ==
    LET again == {s \in DOMAIN outgoing : ~outgoing[s].sacked}
    IN  /\ ~failed /\ rto_sleep = 0
        /\ failed' = (DOMAIN outgoing # {} /\ GiveUp)
        /\ rto_timeouts' = IF DOMAIN outgoing # {} THEN rto_timeouts + 1 ELSE rto_timeouts
        /\ IF DOMAIN outgoing = {} \/ GiveUp
           THEN rto_sleep' = Far /\ UNCHANGED <<outgoing, rto, data>>
           ELSE /\ rto' = Lesser(2 * rto, MaxRto)
                /\ outgoing' = Resent(outgoing, again)
                /\ data' = data \cup again
                /\ rto_sleep' = rto'
        /\ UNCHANGED <<next_seq, remote_acked, srtt, rttvar, receiver, acks, losses, quiet>>

\* The peer's receive_data and the ACK it sends back.
ReceiveData(s) ==
    LET have == recv_buf \cup {s}
        upto == CHOOSE n \in next_remote_seq..MaxSeq :
                    n \notin have /\ \A t \in next_remote_seq..(n - 1) : t \in have
        new  == s >= next_remote_seq
    IN  /\ alive /\ s \in data
        /\ data' = data \ {s}
        /\ next_remote_seq' = IF new THEN upto ELSE next_remote_seq
        /\ recv_buf' = IF new THEN {t \in have : t > upto} ELSE recv_buf
        /\ acks' = acks \cup {[ack |-> next_remote_seq', sacks |-> recv_buf']}
        /\ UNCHANGED <<next_seq, remote_acked, outgoing, estimator, rto_sleep, failed,
                       keepalive, alive, losses, quiet>>

\* The peer's keepalive tick: it has nothing outgoing, so it sends a HEARTBEAT.
Heartbeat ==
    /\ alive /\ keepalive = 0
    /\ keepalive' = Interval
    /\ acks' = acks \cup {[ack |-> next_remote_seq, sacks |-> {}]}
    /\ UNCHANGED <<next_seq, remote_acked, outgoing, estimator, rto_sleep, failed,
                   next_remote_seq, recv_buf, alive, data, losses, quiet>>

\* The peer falls silent.
Crash ==
    /\ MayCrash /\ alive
    /\ alive' = FALSE
    /\ UNCHANGED <<next_seq, remote_acked, outgoing, estimator, rto_sleep, failed,
                   next_remote_seq, recv_buf, keepalive, data, acks, losses, quiet>>

\* The network drops a packet.
Lose ==
    /\ losses < MaxLoss
    /\ losses' = losses + 1
    /\ \/ \E s \in data : data' = data \ {s} /\ UNCHANGED acks
       \/ \E m \in acks : acks' = acks \ {m} /\ UNCHANGED data
    /\ UNCHANGED <<next_seq, remote_acked, outgoing, estimator, rto_sleep, failed, receiver, quiet>>

\* Time passes once every due timer has fired.
Tick ==
    /\ rto_sleep # 0 /\ (alive => keepalive > 0)
    /\ rto_sleep' = IF rto_sleep = Far THEN Far ELSE rto_sleep - 1
    /\ keepalive' = IF alive THEN keepalive - 1 ELSE keepalive
    /\ outgoing' = [s \in DOMAIN outgoing |-> [outgoing[s] EXCEPT !.age = Lesser(@ + 1, MaxRtt)]]
    /\ quiet' = IF DOMAIN outgoing = {} \/ failed THEN quiet ELSE Lesser(quiet + 1, TooLong)
    /\ UNCHANGED <<next_seq, remote_acked, estimator, failed, next_remote_seq, recv_buf, alive,
                   data, acks, losses>>

Next ==
    \/ PacingSend \/ RtoFires \/ Heartbeat \/ Crash \/ Lose \/ Tick
    \/ \E m \in acks : ReceiveAck(m)
    \/ \E s \in data : ReceiveData(s)

Spec == Init /\ [][Next]_vars

\* Time passes, due timers fire, and packets that are not lost arrive.
Fairness ==
    /\ WF_vars(Tick) /\ WF_vars(RtoFires) /\ WF_vars(Heartbeat)
    /\ WF_vars(\E m \in acks : ReceiveAck(m)) /\ WF_vars(\E s \in data : ReceiveData(s))

FairSpec == Spec /\ Fairness

-----------------------------------------------------------------------------

TypeOK ==
    /\ next_seq \in 0..MaxSeq /\ remote_acked \in 0..MaxSeq /\ next_remote_seq \in 0..MaxSeq
    /\ DOMAIN outgoing \subseteq Seqs
    /\ \A s \in DOMAIN outgoing :
          outgoing[s] \in [age : 0..MaxRtt, fresh : BOOLEAN, sacked : BOOLEAN]
    /\ srtt \in 0..MaxRtt /\ rttvar \in 0..MaxRtt /\ rto \in MinRto..MaxRto
    /\ rto_timeouts \in 0..MaxRtoTimeouts /\ rto_sleep \in {Far} \cup 0..MaxRto
    /\ recv_buf \subseteq Seqs /\ data \subseteq Seqs
    /\ keepalive \in 0..Interval /\ alive \in BOOLEAN /\ failed \in BOOLEAN
    /\ acks \subseteq [ack : 0..MaxSeq, sacks : SUBSET Seqs]
    /\ losses \in 0..MaxLoss /\ quiet \in 0..TooLong

\* The timer is armed exactly while a packet is outgoing: the pacing branch arms it only
\* for the first packet and relies on the ACK branch to keep it so (stream.rs:1376-1383,
\* 1525, 1540).
ArmedWhileOutgoing ==
    ~failed => (DOMAIN outgoing # {} <=> rto_sleep # Far)

\* Acknowledged packets are gone from the outgoing buffer, the rest are in it, and a
\* sequence number is acknowledged only after the peer has taken it in.
OutgoingIsUnacked ==
    DOMAIN outgoing = remote_acked..(next_seq - 1) /\ remote_acked <= next_remote_seq

\* What is on its way was written, and the peer acknowledges only what it has taken in.
NothingIsMadeUp ==
    /\ next_remote_seq <= next_seq
    /\ data \cup recv_buf \subseteq 0..(next_seq - 1)
    /\ \A m \in acks : m.ack <= next_remote_seq

\* The time an end has heard nothing, and the time its timer has still to run, fit into
\* the timeouts it has counted and the one that runs: every way to re-arm rto_sleep without
\* counting a timeout comes with an ACK.
QuietIsTimed ==
    ~failed =>
        /\ rto_timeouts < MaxRtoTimeouts
        /\ quiet + (IF rto_sleep = Far THEN 0 ELSE rto_sleep) <= (rto_timeouts + 1) * MaxRto

\* The inductive invariant of the clock.
TimersInv ==
    TypeOK /\ ArmedWhileOutgoing /\ OutgoingIsUnacked /\ NothingIsMadeUp /\ QuietIsTimed

\* "Maximum consecutive RTO timeouts before giving up: 6" (libudx/PROTOCOL.md:116): an end
\* that hears no ACK gives up within that many of the longest timeouts.
GivesUpInTime ==
    ~failed => quiet < TooLong

\* A stream whose peer has gone silent fails, or has nothing left to send.
SilenceIsNoticed ==
    (~alive /\ DOMAIN outgoing # {}) ~> (failed \/ DOMAIN outgoing = {})
====
