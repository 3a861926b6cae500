------------------------------ MODULE UdxStream ------------------------------
(***************************************************************************)
(* A pair of UDX streams: libudx/src/native/stream.rs and its adapter      *)
(* async_stream.rs.  Each endpoint has the application's calls (write,     *)
(* shutdown, destroy, drop), the processor task `process_incoming`, and a  *)
(* UDP network that loses, duplicates and reorders packets.                *)
(*                                                                         *)
(* One action is one critical section of the stream's mutex, except that   *)
(* the sections of one received packet are one action: the ACK section     *)
(* touches the send side only and the DATA section the receive side only.  *)
(*                                                                         *)
(* Data is counted in units: the n-th unit an endpoint ever passes to      *)
(* write() is unit n, and a chunk [from, to] holds the units from+1..to.   *)
(* Sizes are in units too: mtu.size is max_payload(), and one MTU step is  *)
(* one unit.  Time is left out: an armed timer may fire at any moment.     *)
(***************************************************************************)
EXTENDS Naturals, Sequences, FiniteSets

CONSTANTS
    Endpoint,        \* the two ends
    Listener,        \* ends opened with set_firewall_hook instead of connect
    Adapter,         \* ends used through UdxAsyncStream
    Writer,          \* bound: ends whose application sends
    Lengths,         \* lengths of a write, in units
    MtuBase,         \* MTU_BASE
    MtuMax,          \* MTU_MAX
    MaxMtuProbes,    \* MTU_MAX_PROBES
    MaxRtoTimeouts,  \* MAX_RTO_TIMEOUTS
    MaxSackRanges,   \* MAX_SACK_RANGES
    MaxSeq,          \* bound: sequence numbers an endpoint may use
    MaxLoss,         \* bound: packets the network may drop
    Keep             \* {TRUE}: a delivered packet stays (duplicates);
                     \* {FALSE}: delivery consumes it

ASSUME EndpointAssumption ==
    \E a, b \in Endpoint : a # b /\ Endpoint = {a, b}

ASSUME SetAssumption ==
    /\ Listener \subseteq Endpoint /\ Adapter \subseteq Endpoint
    /\ Writer \subseteq Endpoint /\ Keep \subseteq BOOLEAN

ASSUME BoundAssumption ==
    /\ Lengths \subseteq Nat
    /\ MtuBase \in Nat \ {0} /\ MtuMax \in Nat /\ MtuBase <= MtuMax
    /\ MaxMtuProbes \in Nat /\ MaxRtoTimeouts \in Nat \ {0}
    /\ MaxSackRanges \in Nat /\ MaxSeq \in Nat /\ MaxLoss \in Nat

VARIABLES
    proc,             \* processor task: new, running, closing (left its loop), dead
                      \* (terminated), or gone with the stream (destroyed or dropped)
    connected,        \* StreamInner.connected
    hook,             \* firewall_hook is armed
    ended,            \* ended (prepare_end) or fin_queued (poll_shutdown)
    shutting_down,    \* the adapter was dropped (StreamNotify::Shutdown)
    next_seq, written, preps, pending_writes, send_queue, outgoing,
    remote_acked, rto_timeouts, mtu,
    next_remote_seq, recv_buf,
    net, losses,
    wire,             \* history: the chunk that was queued under each sequence number
    log,              \* history: the chunks receive_data handed on, in order
    reset,            \* history: an End event pushed by a DESTROY packet
    acked_to          \* history: units covered by writes that resolved Ok

Peer(e) == CHOOSE x \in Endpoint : x # e

Seqs == 0..(MaxSeq - 1)

Chunk == [kind : {"data", "end"}, from : Nat, to : Nat]

NoChunk == [kind |-> "data", from |-> 0, to |-> 0]

Empty == [s \in {} |-> NoChunk]

lifeVars == <<proc, connected, hook, ended, shutting_down>>
sendVars == <<next_seq, written, preps, pending_writes, send_queue, outgoing,
              remote_acked, rto_timeouts, mtu, wire, acked_to>>
recvVars == <<next_remote_seq, recv_buf, log, reset>>
netVars  == <<net, losses>>
vars     == <<lifeVars, sendVars, recvVars, netVars>>

-----------------------------------------------------------------------------
(* Packets.  The header's flags are `kind`; a probe's padding is skipped by  *)
(* payload_offset(), so a probe is the packet it pads.                       *)

DataPacket(e, s, a, c) ==
    [src |-> e, kind |-> c.kind, seq |-> s, ack |-> a, chunk |-> c, sacks |-> {}]

ControlPacket(e, k, s, a, sacked) ==
    [src |-> e, kind |-> k, seq |-> s, ack |-> a, chunk |-> NoChunk, sacks |-> sacked]

\* sack_ranges() keeps the first MaxSackRanges runs of recv_buf; send_ack() stores
\* the byte length in the u8 data_offset, and the receiver decodes that many bytes.
RunStarts(S) == {s \in S : s = 0 \/ s - 1 \notin S}

SackedSeqs(S) ==
    LET runs    == Cardinality(RunStarts(S))
        ranges  == IF runs > MaxSackRanges THEN MaxSackRanges ELSE runs
        decoded == ((8 * ranges) % 256) \div 8
    IN  {s \in S : Cardinality({t \in RunStarts(S) : t <= s}) <= decoded}

\* Mutant: the highest packet held is acknowledged, gaps below it or not.
AckPacketHighest(e, a, buffered) ==
    ControlPacket(e, "ack", 0,
        IF buffered = {} THEN a ELSE 1 + CHOOSE s \in buffered : \A t \in buffered : t <= s, {})

\* The cumulative ACK, with the ranges of what is buffered beyond it.
AckPacket(e, a, buffered) ==
    LET sacked == SackedSeqs(buffered)
    IN  ControlPacket(e, IF sacked = {} THEN "ack" ELSE "sack", 0, a, sacked)

\* is_plausible_first_packet
Plausible(p) == p.kind \notin {"ack", "sack", "destroy"}

-----------------------------------------------------------------------------
(* MTU search.                                                               *)

ProbeSize(m) == IF m.size < MtuMax THEN m.size + 1 ELSE MtuMax

\* on_mtu_probe_acked
ProbeAcked(m) ==
    LET size == ProbeSize(m)
    IN  [state  |-> IF size >= MtuMax THEN "complete" ELSE m.state,
         size   |-> size,
         count  |-> 0,
         wanted |-> IF size >= MtuMax THEN m.wanted ELSE TRUE]

\* The probe_failed tail of packets_to_retransmit and fast_retransmit.
ProbeFailed(m) ==
    LET out == m.count + 1 >= MaxMtuProbes
    IN  [state  |-> IF out THEN "complete" ELSE m.state,
         size   |-> m.size,
         count  |-> m.count + 1,
         wanted |-> ~out]

\* The Base -> Search transition when a DATA packet leaves the queue.
Searching(m, c) ==
    IF c.kind = "data" /\ m.state = "base"
    THEN [m EXCEPT !.state = "search", !.wanted = TRUE] ELSE m

\* mtu_probeify_packet pads by at most 255 bytes: only full packets are probes.
BecomesProbe(m, c) ==
    /\ c.kind = "data" /\ m.state = "search" /\ m.wanted
    /\ c.to - c.from = m.size /\ ProbeSize(m) > m.size

-----------------------------------------------------------------------------

Init ==
    /\ proc = [e \in Endpoint |-> "new"]
    /\ connected = [e \in Endpoint |-> FALSE]
    /\ hook = [e \in Endpoint |-> FALSE]
    /\ ended = [e \in Endpoint |-> FALSE]
    /\ shutting_down = [e \in Endpoint |-> FALSE]
    /\ next_seq = [e \in Endpoint |-> 0]
    /\ written = [e \in Endpoint |-> 0]
    /\ preps = [e \in Endpoint |-> {}]
    /\ pending_writes = [e \in Endpoint |-> {}]
    /\ send_queue = [e \in Endpoint |-> <<>>]
    /\ outgoing = [e \in Endpoint |-> Empty]
    /\ remote_acked = [e \in Endpoint |-> 0]
    /\ rto_timeouts = [e \in Endpoint |-> 0]
    /\ mtu = [e \in Endpoint |->
                [state |-> "base", size |-> MtuBase, count |-> 0, wanted |-> FALSE]]
    /\ next_remote_seq = [e \in Endpoint |-> 0]
    /\ recv_buf = [e \in Endpoint |-> Empty]
    /\ net = {}
    /\ losses = 0
    /\ wire = [e \in Endpoint |-> Empty]
    /\ log = [e \in Endpoint |-> <<>>]
    /\ reset = [e \in Endpoint |-> FALSE]
    /\ acked_to = [e \in Endpoint |-> 0]

\* UdxStream::connect
Connect(e) ==
    /\ proc[e] = "new" /\ e \notin Listener
    /\ proc' = [proc EXCEPT ![e] = "running"]
    /\ connected' = [connected EXCEPT ![e] = TRUE]
    /\ UNCHANGED <<hook, ended, shutting_down, sendVars, recvVars, netVars>>

\* UdxStream::set_firewall_hook
SetFirewallHook(e) ==
    /\ proc[e] = "new" /\ e \in Listener
    /\ proc' = [proc EXCEPT ![e] = "running"]
    /\ hook' = [hook EXCEPT ![e] = TRUE]
    /\ UNCHANGED <<connected, ended, shutting_down, sendVars, recvVars, netVars>>

-----------------------------------------------------------------------------
(* Application calls.                                                        *)

CeilDiv(n, d) == (n + d - 1) \div d

ChunkCount(len, size) == IF len = 0 THEN 1 ELSE CeilDiv(len, size)

\* prepare_write's early returns.
MayWrite(e) == proc[e] \notin {"new", "gone"} /\ (connected[e] \/ hook[e]) /\ ~ended[e]

\* prepare_write: reserve the sequence numbers under the current MTU.  The
\* adapter calls it only once its previous write was acknowledged.
PrepareWrite(e, len) ==
    LET count == ChunkCount(len, mtu[e].size)
    IN  /\ e \in Writer /\ MayWrite(e)
        /\ e \in Adapter => pending_writes[e] = {} /\ ~shutting_down[e]
        /\ next_seq[e] + count <= MaxSeq
        /\ next_seq' = [next_seq EXCEPT ![e] = @ + count]
        /\ written' = [written EXCEPT ![e] = @ + len]
        /\ preps' = [preps EXCEPT ![e] = @ \cup
                {[kind |-> "data", first |-> next_seq[e], count |-> count,
                  from |-> written[e], to |-> written[e] + len,
                  ack |-> next_remote_seq[e], size |-> mtu[e].size,
                  resolved |-> connected[e]]}]
        /\ pending_writes' = [pending_writes EXCEPT ![e] = @ \cup
                {[threshold |-> next_seq[e] + count, to |-> written[e] + len]}]
        /\ UNCHANGED <<send_queue, outgoing, remote_acked, rto_timeouts, mtu, wire,
                       acked_to, lifeVars, recvVars, netVars>>

\* prepare_end, and the lock section of poll_shutdown (whose FIN the caller sends once,
\* after its last write was acknowledged; it queues the FIN under the same lock).
PrepareEnd(e) ==
    /\ e \in Writer /\ connected[e]
    /\ ~ended[e]
    /\ e \in Adapter => pending_writes[e] = {} /\ ~shutting_down[e]
    /\ next_seq[e] < MaxSeq
    /\ ended' = [ended EXCEPT ![e] = TRUE]
    /\ next_seq' = [next_seq EXCEPT ![e] = @ + 1]
    /\ preps' = [preps EXCEPT ![e] = @ \cup
            {[kind |-> "end", first |-> next_seq[e], count |-> 1,
              from |-> written[e], to |-> written[e],
              ack |-> next_remote_seq[e], size |-> mtu[e].size, resolved |-> TRUE]}]
    /\ pending_writes' = [pending_writes EXCEPT ![e] = @ \cup
            {[threshold |-> next_seq[e] + 1, to |-> written[e]]}]
    /\ UNCHANGED <<written, send_queue, outgoing, remote_acked, rto_timeouts, mtu, wire,
                   acked_to, proc, connected, hook, shutting_down, recvVars, netVars>>

\* Mutant: every chunk starts where the write starts.
ChunkOverlapping(w, size, i) ==
    LET hi == w.from + (i + 1) * size
    IN  [kind |-> w.kind, from |-> w.from, to |-> IF hi < w.to THEN hi ELSE w.to]

\* The i-th chunk (from 0) of a prepared write, cut at `size` units.
ChunkOf(w, size, i) ==
    LET hi == w.from + (i + 1) * size
    IN  [kind |-> w.kind, from |-> w.from + i * size, to |-> IF hi < w.to THEN hi ELSE w.to]

\* send_data_packets (it reads max_payload again, under a later lock than
\* prepare_write), poll_write's tail (it keeps the size of its first lock), and
\* the queueing of a FIN.
QueueForSend(e, w, size) ==
    LET n == IF w.kind = "end" THEN 1 ELSE ChunkCount(w.to - w.from, size)
    IN  /\ w \in preps[e]
        /\ size \in w.size..mtu[e].size
        /\ e \in Adapter => size = w.size
        /\ preps' = [preps EXCEPT ![e] = @ \ {w}]
        /\ send_queue' = [send_queue EXCEPT ![e] = @ \o
                [i \in 1..n |->
                    [seq  |-> w.first + i - 1, resolved |-> w.resolved,
                     pkt  |-> DataPacket(e, w.first + i - 1, w.ack, ChunkOf(w, size, i - 1))]]]
        /\ wire' = [wire EXCEPT ![e] =
                [s \in DOMAIN @ \cup w.first..(w.first + n - 1) |->
                    IF s \in DOMAIN @ THEN @[s] ELSE ChunkOf(w, size, s - w.first)]]
        /\ UNCHANGED <<next_seq, written, pending_writes, outgoing, remote_acked, rto_timeouts,
                       mtu, acked_to, lifeVars, recvVars, netVars>>

\* Drop for UdxAsyncStream: the processor drains the queue and then stops.
DropAdapter(e) ==
    /\ e \in Adapter /\ proc[e] = "running" /\ ~shutting_down[e] /\ preps[e] = {}
    /\ shutting_down' = [shutting_down EXCEPT ![e] = TRUE]
    /\ UNCHANGED <<proc, connected, hook, ended, sendVars, recvVars, netVars>>

\* UdxStream::destroy owns the stream: no write is between its two locks, and none
\* can follow.
Destroy(e) ==
    /\ e \notin Adapter /\ proc[e] # "gone" /\ preps[e] = {}
    /\ net' = IF connected[e]
              THEN net \cup {ControlPacket(e, "destroy", next_seq[e], next_remote_seq[e], {})}
              ELSE net
    /\ proc' = [proc EXCEPT ![e] = "gone"]
    /\ connected' = [connected EXCEPT ![e] = FALSE]
    /\ pending_writes' = [pending_writes EXCEPT ![e] = {}]
    /\ UNCHANGED <<hook, ended, shutting_down, next_seq, written, preps, send_queue, outgoing,
                   remote_acked, rto_timeouts, mtu, wire, acked_to, recvVars, losses>>

\* Drop for UdxStream: the processor is aborted and the peer is told nothing.  The
\* futures of pending writes borrow the stream, so nobody waits for them any more.
DropStream(e) ==
    /\ e \notin Adapter /\ proc[e] # "gone" /\ preps[e] = {}
    /\ proc' = [proc EXCEPT ![e] = "gone"]
    /\ pending_writes' = [pending_writes EXCEPT ![e] = {}]
    /\ UNCHANGED <<connected, hook, ended, shutting_down, next_seq, written, preps, send_queue,
                   outgoing, remote_acked, rto_timeouts, mtu, wire, acked_to, recvVars, netVars>>

-----------------------------------------------------------------------------
(* The processor task.                                                       *)

\* One turn of the pacing loop.  The congestion window, the peer's window and the
\* pacing rate decide only how many packets a wake-up sends: each is a step here.
PacingSend(e) ==
    LET front == Head(send_queue[e])
        m     == Searching(mtu[e], front.pkt.chunk)
        probe == BecomesProbe(m, front.pkt.chunk)
    IN  /\ proc[e] = "running"
        /\ send_queue[e] # <<>>
        /\ send_queue' = [send_queue EXCEPT ![e] = Tail(@)]
        /\ mtu' = [mtu EXCEPT ![e] = IF probe THEN [m EXCEPT !.wanted = FALSE] ELSE m]
        /\ outgoing' = [outgoing EXCEPT ![e] =
                [s \in DOMAIN @ \cup {front.seq} |->
                    IF s = front.seq
                    THEN [pkt |-> front.pkt, sacked |-> FALSE, probe |-> probe] ELSE @[s]]]
        /\ net' = IF front.resolved THEN net \cup {front.pkt} ELSE net
        /\ proc' = [proc EXCEPT ![e] =
                IF shutting_down[e] /\ Len(send_queue[e]) = 1 THEN "closing" ELSE @]
        /\ UNCHANGED <<connected, hook, ended, shutting_down, next_seq, written, preps,
                       pending_writes, remote_acked, rto_timeouts, wire, acked_to,
                       recvVars, losses>>

\* The same branch with an empty queue, after the adapter was dropped.
PacingStop(e) ==
    /\ proc[e] = "running" /\ shutting_down[e] /\ send_queue[e] = <<>>
    /\ proc' = [proc EXCEPT ![e] = "closing"]
    /\ UNCHANGED <<connected, hook, ended, shutting_down, sendVars, recvVars, netVars>>

Unsacked(out) == {s \in DOMAIN out : ~out[s].sacked}

\* rto_sleep fires: retransmit everything unacknowledged ...
RtoRetransmit(e) ==
    LET again == Unsacked(outgoing[e])
    IN  /\ proc[e] = "running"
        /\ DOMAIN outgoing[e] # {}
        /\ rto_timeouts[e] + 1 < MaxRtoTimeouts
        /\ rto_timeouts' = [rto_timeouts EXCEPT ![e] = @ + 1]
        /\ mtu' = [mtu EXCEPT ![e] =
                IF \E s \in again : outgoing[e][s].probe THEN ProbeFailed(@) ELSE @]
        /\ outgoing' = [outgoing EXCEPT ![e] =
                [s \in DOMAIN @ |-> IF s \in again THEN [@[s] EXCEPT !.probe = FALSE] ELSE @[s]]]
        /\ net' = IF connected[e] THEN net \cup {outgoing[e][s].pkt : s \in again} ELSE net
        /\ UNCHANGED <<next_seq, written, preps, pending_writes, send_queue, remote_acked,
                       wire, acked_to, lifeVars, recvVars, losses>>

\* ... or give the stream up: every pending write fails with TimedOut.
RtoFail(e) ==
    /\ proc[e] = "running"
    /\ DOMAIN outgoing[e] # {}
    /\ rto_timeouts[e] + 1 >= MaxRtoTimeouts
    /\ rto_timeouts' = [rto_timeouts EXCEPT ![e] = @ + 1]
    /\ pending_writes' = [pending_writes EXCEPT ![e] = {}]
    /\ proc' = [proc EXCEPT ![e] = "closing"]
    /\ UNCHANGED <<connected, hook, ended, shutting_down, next_seq, written, preps, send_queue,
                   outgoing, remote_acked, mtu, wire, acked_to, recvVars, netVars>>

\* The keepalive tick.
Keepalive(e) ==
    /\ proc[e] = "running" /\ connected[e] /\ DOMAIN outgoing[e] = {}
    /\ net' = net \cup {ControlPacket(e, "heartbeat", 0, next_remote_seq[e], {})}
    /\ UNCHANGED <<lifeVars, sendVars, recvVars, losses>>

\* Mutant: the pending writes are not drained.
TerminateUndrained(e) ==
    /\ proc[e] = "closing"
    /\ proc' = [proc EXCEPT ![e] = "dead"]
    /\ connected' = [connected EXCEPT ![e] = FALSE]
    /\ UNCHANGED <<hook, ended, shutting_down, sendVars, recvVars, netVars>>

\* StreamInner::terminate, run when the processor has left its loop.
Terminate(e) ==
    /\ proc[e] = "closing"
    /\ proc' = [proc EXCEPT ![e] = "dead"]
    /\ connected' = [connected EXCEPT ![e] = FALSE]
    /\ pending_writes' = [pending_writes EXCEPT ![e] = {}]
    /\ UNCHANGED <<hook, ended, shutting_down, next_seq, written, preps, send_queue, outgoing,
                   remote_acked, rto_timeouts, mtu, wire, acked_to, recvVars, netVars>>

-----------------------------------------------------------------------------
(* One received packet.                                                      *)

\* The hook gate: the first packet of a listening stream is dropped ...
DropFirst(e, p) ==
    /\ proc[e] = "running" /\ ~connected[e]
    /\ ~Plausible(p) \/ ~hook[e]
    /\ net' = net \ {p}
    /\ UNCHANGED <<lifeVars, sendVars, recvVars, losses>>

\* ... or refused by the hook, which ends the processor.
RejectFirst(e, p) ==
    /\ proc[e] = "running" /\ ~connected[e] /\ Plausible(p) /\ hook[e]
    /\ hook' = [hook EXCEPT ![e] = FALSE]
    /\ proc' = [proc EXCEPT ![e] = "closing"]
    /\ net' = net \ {p}
    /\ UNCHANGED <<connected, ended, shutting_down, sendVars, recvVars, losses>>

\* ... or accepted: adopt its source and re-address what is already queued.
Accepts(e, p) ==
    /\ proc[e] = "running"
    /\ connected[e] \/ (hook[e] /\ Plausible(p))
    /\ connected' = [connected EXCEPT ![e] = TRUE]
    /\ hook' = [hook EXCEPT ![e] = hook[e] /\ connected[e]]
    /\ send_queue' = [send_queue EXCEPT ![e] =
            IF connected[e] THEN @
            ELSE [i \in DOMAIN @ |-> [@[i] EXCEPT !.resolved = TRUE]]]

IsNewAck(e, p) == p.ack > remote_acked[e]

\* Mutant: the packet the peer asks for next is dropped as acknowledged.
AfterAckOffByOne(e, p) ==
    [s \in {t \in DOMAIN outgoing[e] : IsNewAck(e, p) => t > p.ack} |->
        [outgoing[e][s] EXCEPT !.sacked = @ \/ s \in p.sacks]]

\* outgoing after on_cumulative_ack and on_sack
AfterAck(e, p) ==
    LET kept == IF IsNewAck(e, p) THEN {s \in DOMAIN outgoing[e] : s >= p.ack}
                ELSE DOMAIN outgoing[e]
    IN  [s \in kept |-> [outgoing[e][s] EXCEPT !.sacked = @ \/ s \in p.sacks]]

\* detect_losses: unsacked packets below the highest sacked one; fast_retransmit
\* resends all of them and clears the mark in the same critical section.
Lost(e, p) ==
    LET out == AfterAck(e, p)
    IN  {s \in Unsacked(out) : /\ p.ack > 0 \/ p.sacks # {}
                               /\ \E t \in DOMAIN out : out[t].sacked /\ t > s}

\* The ACK section: the send side after a packet's ack and SACK ranges.
ProcessAck(e, p) ==
    LET out    == AfterAck(e, p)
        acked  == IsNewAck(e, p) /\ \E s \in DOMAIN outgoing[e] :
                      s < p.ack /\ outgoing[e][s].probe
        m      == IF acked /\ mtu[e].state = "search" THEN ProbeAcked(mtu[e]) ELSE mtu[e]
        failed == \E s \in Lost(e, p) : out[s].probe
        done   == {w \in pending_writes[e] : IsNewAck(e, p) /\ w.threshold <= p.ack}
    IN  /\ remote_acked' = [remote_acked EXCEPT ![e] = IF IsNewAck(e, p) THEN p.ack ELSE @]
        /\ rto_timeouts' = [rto_timeouts EXCEPT ![e] = IF IsNewAck(e, p) THEN 0 ELSE @]
        /\ outgoing' = [outgoing EXCEPT ![e] =
                [s \in DOMAIN out |->
                    IF s \in Lost(e, p) THEN [out[s] EXCEPT !.probe = FALSE] ELSE out[s]]]
        /\ mtu' = [mtu EXCEPT ![e] = IF failed THEN ProbeFailed(m) ELSE m]
        /\ pending_writes' = [pending_writes EXCEPT ![e] = @ \ done]
        /\ \E t \in {acked_to[e]} \cup {w.to : w \in done} :
              /\ acked_to[e] <= t /\ \A w \in done : w.to <= t
              /\ acked_to' = [acked_to EXCEPT ![e] = t]

\* The packets that section sends.
FastRetransmits(e, p) == {outgoing[e][s].pkt : s \in Lost(e, p)}

\* A control packet: ACK, SACK, HEARTBEAT (answered with an ACK).
ReceiveControl(e, p) ==
    /\ p.kind \in {"ack", "sack", "heartbeat"}
    /\ Accepts(e, p)
    /\ ProcessAck(e, p)
    /\ \E keep \in Keep :
          net' = (IF keep THEN net ELSE net \ {p}) \cup FastRetransmits(e, p) \cup
                 (IF p.kind = "heartbeat" THEN {AckPacket(e, next_remote_seq[e], {})} ELSE {})
    /\ UNCHANGED <<proc, ended, shutting_down, next_seq, written, preps, wire, recvVars, losses>>

\* DESTROY: End for the reader, and the processor leaves its loop.
ReceiveDestroy(e, p) ==
    /\ p.kind = "destroy"
    /\ Accepts(e, p)
    /\ ProcessAck(e, p)
    /\ reset' = [reset EXCEPT ![e] = TRUE]
    /\ proc' = [proc EXCEPT ![e] = "closing"]
    /\ \E keep \in Keep : net' = (IF keep THEN net ELSE net \ {p}) \cup FastRetransmits(e, p)
    /\ UNCHANGED <<ended, shutting_down, next_seq, written, preps, wire, next_remote_seq,
                   recv_buf, log, losses>>

\* receive_data: the chunk is old ...
ReceiveOld(e, p) ==
    /\ p.seq < next_remote_seq[e]
    /\ UNCHANGED <<next_remote_seq, recv_buf, log>>

\* ... or out of order ...
ReceiveAhead(e, p) ==
    /\ p.seq > next_remote_seq[e]
    /\ recv_buf' = [recv_buf EXCEPT ![e] =
            [s \in DOMAIN @ \cup {p.seq} |-> IF s \in DOMAIN @ THEN @[s] ELSE p.chunk]]
    /\ UNCHANGED <<next_remote_seq, log>>

\* ... or the next one: it is handed on with the buffered run that follows it, up to
\* the first gap, `upto`.
ReceiveNext(e, p) ==
    \E upto \in (p.seq + 1)..MaxSeq :
        /\ p.seq = next_remote_seq[e]
        /\ \A s \in (p.seq + 1)..(upto - 1) : s \in DOMAIN recv_buf[e]
        /\ upto \notin DOMAIN recv_buf[e]
        /\ next_remote_seq' = [next_remote_seq EXCEPT ![e] = upto]
        /\ recv_buf' = [recv_buf EXCEPT ![e] = [s \in {t \in DOMAIN @ : t >= upto} |-> @[s]]]
        /\ log' = [log EXCEPT ![e] =
                [i \in 1..upto |-> IF i <= p.seq THEN @[i]
                                   ELSE IF i = p.seq + 1 THEN p.chunk ELSE recv_buf[e][i - 1]]]

\* DATA and END packets: the piggybacked ACK, the data, the ACK sent back.
ReceiveData(e, p) ==
    /\ p.kind \in {"data", "end"}
    /\ Accepts(e, p)
    /\ ProcessAck(e, p)
    /\ ReceiveOld(e, p) \/ ReceiveAhead(e, p) \/ ReceiveNext(e, p)
    /\ \E keep \in Keep :
          net' = (IF keep THEN net ELSE net \ {p}) \cup FastRetransmits(e, p) \cup
                 {AckPacket(e, next_remote_seq'[e], DOMAIN recv_buf'[e])}
    /\ UNCHANGED <<proc, ended, shutting_down, next_seq, written, preps, wire, reset, losses>>

\* The network drops a packet.
Lose(p) ==
    /\ losses < MaxLoss
    /\ losses' = losses + 1
    /\ net' = net \ {p}
    /\ UNCHANGED <<lifeVars, sendVars, recvVars>>

-----------------------------------------------------------------------------

Incoming(e) == {p \in net : p.src = Peer(e)}

Receive(e, p) == ReceiveControl(e, p) \/ ReceiveDestroy(e, p) \/ ReceiveData(e, p)

Next ==
    \/ \E e \in Endpoint :
          \/ Connect(e) \/ SetFirewallHook(e)
          \/ \E len \in Lengths : PrepareWrite(e, len)
          \/ PrepareEnd(e)
          \/ \E w \in preps[e], size \in MtuBase..MtuMax : QueueForSend(e, w, size)
          \/ DropAdapter(e) \/ Destroy(e) \/ DropStream(e)
          \/ PacingSend(e) \/ PacingStop(e)
          \/ RtoRetransmit(e) \/ RtoFail(e) \/ Keepalive(e) \/ Terminate(e)
          \/ \E p \in Incoming(e) : DropFirst(e, p) \/ RejectFirst(e, p) \/ Receive(e, p)
    \/ \E p \in net : Lose(p)

Spec == Init /\ [][Next]_vars

-----------------------------------------------------------------------------

DataPackets ==
    [src : Endpoint, kind : {"data", "end"}, seq : Seqs, ack : Nat, chunk : Chunk,
     sacks : {{}}]

ControlPackets ==
    [src : Endpoint, kind : {"ack", "sack", "heartbeat", "destroy"}, seq : Nat, ack : Nat,
     chunk : {NoChunk}, sacks : SUBSET Seqs]

Prep == [kind : {"data", "end"}, first : Seqs, count : Nat \ {0}, from : Nat, to : Nat,
         ack : Nat, size : MtuBase..MtuMax, resolved : BOOLEAN]

QueuedPacket == [seq : Seqs, resolved : BOOLEAN, pkt : DataPackets]

SentPacket == [pkt : DataPackets, sacked : BOOLEAN, probe : BOOLEAN]

PendingWrite == [threshold : Nat, to : Nat]

Mtu == [state : {"base", "search", "complete"}, size : MtuBase..MtuMax,
        count : Nat, wanted : BOOLEAN]

\* A function from some of the sequence numbers to S.
SeqMap(f, S) == DOMAIN f \subseteq Seqs /\ f \in [DOMAIN f -> S]

LifeTypeOK ==
    /\ proc \in [Endpoint -> {"new", "running", "closing", "dead", "gone"}]
    /\ connected \in [Endpoint -> BOOLEAN]
    /\ hook \in [Endpoint -> BOOLEAN]
    /\ ended \in [Endpoint -> BOOLEAN]
    /\ shutting_down \in [Endpoint -> BOOLEAN]

SendTypeOK ==
    /\ next_seq \in [Endpoint -> 0..MaxSeq]
    /\ written \in [Endpoint -> Nat]
    /\ preps \in [Endpoint -> SUBSET Prep]
    /\ pending_writes \in [Endpoint -> SUBSET PendingWrite]
    /\ send_queue \in [Endpoint -> Seq(QueuedPacket)]
    /\ DOMAIN outgoing = Endpoint /\ \A e \in Endpoint : SeqMap(outgoing[e], SentPacket)
    /\ remote_acked \in [Endpoint -> Nat]
    /\ rto_timeouts \in [Endpoint -> Nat]
    /\ mtu \in [Endpoint -> Mtu]
    /\ DOMAIN wire = Endpoint /\ \A e \in Endpoint : SeqMap(wire[e], Chunk)
    /\ acked_to \in [Endpoint -> Nat]

RecvTypeOK ==
    /\ next_remote_seq \in [Endpoint -> 0..MaxSeq]
    /\ DOMAIN recv_buf = Endpoint /\ \A e \in Endpoint : SeqMap(recv_buf[e], Chunk)
    /\ log \in [Endpoint -> Seq(Chunk)]
    /\ reset \in [Endpoint -> BOOLEAN]

NetTypeOK ==
    /\ net \subseteq DataPackets \cup ControlPackets
    /\ losses \in Nat

\* The variables of both streams hold values of their types, and every sequence
\* number stays below MaxSeq.
TypeOK == LifeTypeOK /\ SendTypeOK /\ RecvTypeOK /\ NetTypeOK

\* The units an endpoint's reader has been handed.
Delivered(e) == IF log[e] = <<>> THEN 0 ELSE log[e][Len(log[e])].to

\* "A reliable, ordered, bidirectional byte stream" (stream.rs:780): what receive_data
\* hands on is what the peer queued, each sequence number once and in order, whatever
\* the network duplicates, drops or reorders.
InOrder ==
    \A e \in Endpoint :
        /\ Len(log[e]) = next_remote_seq[e]
        /\ \A i \in 1..next_remote_seq[e] :
              i - 1 \in DOMAIN wire[Peer(e)] /\ log[e][i] = wire[Peer(e)][i - 1]

\* The same promise for the bytes: the chunks handed on join up without a gap or an
\* overlap from the first byte written.
Contiguous ==
    \A e \in Endpoint : \A i \in 1..Len(log[e]) :
        /\ log[e][i].from = (IF i = 1 THEN 0 ELSE log[e][i - 1].to)
        /\ log[e][i].from <= log[e][i].to /\ log[e][i].to <= written[Peer(e)]

\* A clean end of stream (FLAG_END handed on) comes last and means the reader has every
\* byte the peer ever accepted from its application.
EndIsComplete ==
    \A e \in Endpoint : \A i \in 1..Len(log[e]) :
        log[e][i].kind = "end" => i = Len(log[e]) /\ log[e][i].to = written[Peer(e)]

\* write() "resolves when the remote peer ACKs all packets" (stream.rs:928): a write that
\* resolved Ok has been handed on in full by the peer's receive_data.
AckedIsDelivered ==
    \A e \in Endpoint : acked_to[e] <= Delivered(Peer(e))

\* A packet marked sacked is skipped by both retransmission paths, so the peer must
\* really hold it: delivered or in recv_buf (libudx never discards a buffered packet).
SackedIsHeld ==
    \A e \in Endpoint : \A s \in DOMAIN outgoing[e] :
        outgoing[e][s].sacked =>
            s < next_remote_seq[Peer(e)] \/ s \in DOMAIN recv_buf[Peer(e)]

\* Every reserved sequence number the peer has not acknowledged is between the two locks
\* of its write, queued, or in the outgoing buffer, where the retransmission engine finds
\* it ("ensuring the retransmission engine can resend them", stream.rs:1692).
NoHole ==
    \A e \in Endpoint : \A s \in remote_acked[e]..(next_seq[e] - 1) :
        \/ \E w \in preps[e] : s \in w.first..(w.first + w.count - 1)
        \/ \E i \in 1..Len(send_queue[e]) : send_queue[e][i].seq = s
        \/ s \in DOMAIN outgoing[e]

-----------------------------------------------------------------------------
(* The inductive strengthening of the safety properties.                     *)

\* The stretches of sequence numbers lo..hi-1 that carry the units from+1..to: a write
\* between its two locks, and every queued chunk.
Stretches(e) ==
    {[lo |-> w.first, hi |-> w.first + w.count, from |-> w.from, to |-> w.to] : w \in preps[e]}
    \cup {[lo |-> s, hi |-> s + 1, from |-> wire[e][s].from, to |-> wire[e][s].to] :
             s \in DOMAIN wire[e]}

\* Stretches are laid out in the order of the bytes they carry, edge to edge where
\* they touch, and end at next_seq and written.
Layout ==
    \A e \in Endpoint :
      /\ next_seq[e] = 0 => written[e] = 0
      /\ \A x \in Stretches(e) :
        /\ x.from <= x.to /\ x.to <= written[e] /\ x.hi <= next_seq[e]
        /\ x.lo = 0 => x.from = 0
        /\ x.hi = next_seq[e] => x.to = written[e]
        /\ \A y \in Stretches(e) : x.hi <= y.lo => x.to <= y.from
        /\ \A y \in Stretches(e) : x.hi = y.lo => x.to = y.from

\* Writes between their two locks own their sequence numbers.
PrepsApart ==
    \A e \in Endpoint : \A w \in preps[e] :
        /\ w.kind = "data" => w.count = ChunkCount(w.to - w.from, w.size)
        /\ w.kind = "end" => w.count = 1 /\ w.from = w.to
        /\ w.size <= mtu[e].size
        /\ \A s \in DOMAIN wire[e] : s < w.first \/ s >= w.first + w.count
        /\ \A v \in preps[e] : v # w => v.first + v.count <= w.first \/ w.first + w.count <= v.first

\* The FIN has the last sequence number.
EndIsLast ==
    \A e \in Endpoint :
        /\ \A s \in DOMAIN wire[e] : wire[e][s].kind = "end" => ended[e] /\ s + 1 = next_seq[e]
        /\ \A w \in preps[e] : w.kind = "end" => ended[e] /\ w.first + 1 = next_seq[e]

\* A pending write ends where its last sequence number's chunk ends.
PendingOK ==
    \A e \in Endpoint : \A w \in pending_writes[e] :
        /\ w.threshold > 0 /\ w.threshold <= next_seq[e]
        /\ \A x \in Stretches(e) : x.hi = w.threshold => x.to = w.to
        /\ \A x \in Stretches(e) : w.threshold <= x.lo \/ x.hi <= w.threshold

\* A packet of e that is queued, outgoing or in the network carries the chunk queued
\* under its sequence number, and an ack and SACK that e stands by.
GoodPacket(e, p) ==
    /\ p.src = e
    /\ p.kind \in {"data", "end"} => p.seq \in DOMAIN wire[e] /\ p.chunk = wire[e][p.seq]
    /\ p.ack <= next_remote_seq[e]
    /\ \A s \in p.sacks : s < next_remote_seq[e] \/ s \in DOMAIN recv_buf[e]

PacketsOK ==
    /\ \A p \in net : GoodPacket(p.src, p)
    /\ \A e \in Endpoint :
          /\ \A i \in 1..Len(send_queue[e]) :
                GoodPacket(e, send_queue[e][i].pkt) /\ send_queue[e][i].pkt.seq = send_queue[e][i].seq
          /\ \A s \in DOMAIN outgoing[e] :
                GoodPacket(e, outgoing[e][s].pkt) /\ outgoing[e][s].pkt.seq = s
          /\ \A w \in preps[e] : w.ack <= next_remote_seq[e]
          /\ remote_acked[e] <= next_remote_seq[Peer(e)]

\* The receive buffer holds the peer's chunks, all ahead of next_remote_seq.
BufferOK ==
    \A e \in Endpoint : \A s \in DOMAIN recv_buf[e] :
        /\ s > next_remote_seq[e]
        /\ s \in DOMAIN wire[Peer(e)] /\ recv_buf[e][s] = wire[Peer(e)][s]

IInv == /\ TypeOK /\ InOrder /\ AckedIsDelivered /\ SackedIsHeld
        /\ Layout /\ PrepsApart /\ EndIsLast /\ PendingOK /\ PacketsOK /\ BufferOK

-----------------------------------------------------------------------------
(* What the pair of streams promises its applications.                       *)

Channel == INSTANCE ReliableStream WITH
    delivered <- [e \in Endpoint |-> Delivered(e)],
    eof <- [e \in Endpoint |-> log[e] # <<>> /\ log[e][Len(log[e])].kind = "end"],
    acked <- acked_to

\* Every behaviour of the two streams over the network is one of the abstract stream.
ImplementsReliableStream == Channel!Spec

-----------------------------------------------------------------------------
(* Liveness.  Tasks and timers run: WF on the processor's branches and on    *)
(* the second lock of a write; packets that are not lost arrive.             *)

Fairness ==
    \A e \in Endpoint :
        /\ WF_vars(\E w \in preps[e], size \in MtuBase..MtuMax : QueueForSend(e, w, size))
        /\ WF_vars(PacingSend(e)) /\ WF_vars(PacingStop(e))
        /\ WF_vars(RtoRetransmit(e)) /\ WF_vars(RtoFail(e)) /\ WF_vars(Terminate(e))
        /\ WF_vars(\E p \in Incoming(e) : DropFirst(e, p) \/ RejectFirst(e, p) \/ Receive(e, p))

FairSpec == Spec /\ Fairness

\* Every write resolves, Ok or with an error.
WritesResolve ==
    \A e \in Endpoint, n \in 1..MaxSeq :
        (\E w \in pending_writes[e] : w.threshold = n)
            ~> (\A w \in pending_writes[e] : w.threshold # n)
====
