----------------------------- MODULE HyperStore -----------------------------
(***************************************************************************)
(* Storing and finding records (hyperdht.rs): clients run calls of         *)
(* HyperDhtHandle, each a query of the closest nodes followed, for some,   *)
(* by one request after the other to the nodes that replied; nodes answer  *)
(* in run_request_handler.  The network delays, loses and duplicates       *)
(* requests (a retry is a copy), loses replies, and a copy may arrive      *)
(* after its call gave up or ended.  The tokens of the nodes are those of  *)
(* DhtNode: here a node finds a token stale or does not.                   *)
(***************************************************************************)
EXTENDS Persistent, Router

CONSTANTS
    Node,           \* nodes close to every target, in the order of distance 1 .. n
    Client,         \* clients, which are also their public keys
    Workloads,      \* sets of calls; a behaviour makes calls of one of them
    Foreign,        \* what other implementations may ask nodes to store for those targets
    Kept,           \* the storages nodes start with
    MaxCalls,       \* bound: calls and foreign announcements
    MaxTicks,       \* bound: steps of time
    MaxCopies       \* bound: copies of one request

ASSUME NodeAssumption == Cardinality(Node) \in Nat /\ Node = 1 .. Cardinality(Node)
ASSUME CopiesAssumption == MaxCopies \in Nat
ASSUME KeptAssumption == \A st \in Kept : StorageOK(st)
ASSUME ForeignAssumption == \A f \in Foreign : f.node \in Node
VARIABLES
    storage,        \* node -> Persistent
    router,         \* node -> Router
    op,             \* client -> its call, if one is running
    net,            \* requests under way to nodes
    current_relays, \* client -> HyperDhtHandle::current_relays
    workload,       \* the calls of this behaviour
    calls, ticks,   \* how much of the bounds is used
    floor,          \* history: key -> sequence number its last complete put gave every node
    lapsed          \* history: the clients during whose call some node lost a mutable record

vars == <<storage, router, op, net, current_relays, workload, calls, ticks,
          floor, lapsed>>

Idle == [phase |-> "idle"]
MutableCalls == {call \in UNION Workloads : call.cmd \in {"MUTABLE_PUT", "MUTABLE_GET"}}
MutableKeys == {call.target : call \in MutableCalls}
ASSUME SeqAssumption == \A call \in MutableCalls : call.seq \in Nat

Init ==
    /\ \E st \in Kept : storage = [n \in Node |-> st]
    /\ router = [n \in Node |-> NewRouter]
    /\ op = [c \in Client |-> Idle]
    /\ net = {}
    /\ current_relays = [c \in Client |-> <<>>]
    /\ workload \in Workloads /\ calls = 0 /\ ticks = 0
    /\ floor = [k \in MutableKeys |-> 0]
    /\ lapsed = {}

----------------------------------------------------------------------------
(* The query of a call.  A node's answer carries a token.                  *)

\* The command the query of a call sends, and its answer.
QueryAnswer(st, call) ==
    CASE call.cmd \in {"LOOKUP", "ANNOUNCE", "UNANNOUNCE"} -> OnLookup(st, call.target)
      [] call.cmd = "FIND_PEER" -> OnFindPeer(st, call.target)
      [] call.cmd \in {"MUTABLE_PUT", "MUTABLE_GET"} -> OnMutableGet(st, call.target, call.seq)
      [] OTHER -> OnImmutableGet(st, call.target)

AfterQuery(st, call) ==
    IF call.cmd \in {"LOOKUP", "ANNOUNCE", "UNANNOUNCE"} THEN AfterLookup(st, call.target) ELSE st

Commits == {"ANNOUNCE", "UNANNOUNCE", "MUTABLE_PUT", "IMMUTABLE_PUT"}

Start(c, call) ==
    /\ op[c] = Idle /\ calls < MaxCalls
    /\ op' = [op EXCEPT ![c] =
                [phase |-> "query", n |-> calls, call |-> call, ask |-> Node, replies |-> <<>>,
                 commit |-> <<>>, commit_timeouts |-> 0, stale |-> FALSE,
                 floor |-> IF call.target \in MutableKeys THEN floor[call.target] ELSE 0]]
    /\ calls' = calls + 1
    /\ UNCHANGED <<storage, router, net, current_relays, ticks>>

\* A reader keeps the answers in the order of distance.
QueryReply(c, n) ==
    /\ op[c].phase = "query" /\ n \in op[c].ask /\ op[c].call.cmd \notin Commits
    /\ op' = [op EXCEPT ![c].ask = @ \ {n},
                        ![c].replies =
                            Only(@, {i \in DOMAIN @ : @[i].from < n})
                              \o <<[from |-> n, value |-> QueryAnswer(storage[n], op[c].call).value]>>
                              \o Only(@, {i \in DOMAIN @ : @[i].from > n})]
    /\ storage' = [storage EXCEPT ![n] = AfterQuery(@, op[c].call)]
    /\ UNCHANGED <<router, net, current_relays, calls, ticks>>

QueryTimesOut(c, n) ==
    /\ op[c].phase = "query" /\ n \in op[c].ask /\ op[c].call.cmd \notin Commits
    /\ op' = [op EXCEPT ![c].ask = @ \ {n}]
    /\ UNCHANGED <<storage, router, net, current_relays, calls, ticks>>

----------------------------------------------------------------------------
(* The requests of a call.                                                 *)

HyperPeer(public_key, relay_addresses) ==
    [public_key |-> public_key, relay_addresses |-> relay_addresses]

\* The signature covers the token, which only that node accepts.
AnnounceRequest(c, target, n, peer, ns) ==
    [from |-> c, target |-> target, token |-> <<n>>,
     msg |-> [peer |-> <<peer>>, refresh |-> <<>>, bump |-> 0,
              signature |-> <<Signed(c, AnnSignable(target, <<n>>, n, peer, <<>>, ns))>>]]

MutablePutRequest(c, call, n) ==
    [from |-> c, target |-> call.target, token |-> <<n>>,
     put |-> [public_key |-> call.target, seq |-> call.seq, value |-> call.value,
              signature |-> Signed(call.target, <<"mutable", call.seq, call.value>>)]]

ImmutablePutRequest(c, call, n) ==
    [from |-> c, target |-> call.target, token |-> <<n>>, value |-> call.value]

CommitRequest(c, call, n) ==
    CASE call.cmd = "ANNOUNCE" ->
            AnnounceRequest(c, call.target, n, HyperPeer(c, Truncated(call.relays, 3)), "announce")
      [] call.cmd = "UNANNOUNCE" ->
            AnnounceRequest(c, call.target, n, HyperPeer(c, <<>>), "unannounce")
      [] call.cmd = "MUTABLE_PUT" -> MutablePutRequest(c, call, n)
      [] OTHER -> ImmutablePutRequest(c, call, n)

Request(c, o, n) ==
    [client |-> c, n |-> o.n, cmd |-> o.call.cmd, to |-> n, copies |-> MaxCopies,
     req |-> CommitRequest(c, o.call, n)]

\* A call that goes on to commit uses only who replied to its query, in the
\* order of distance, with the tokens: the query is one step.
QueryCommits(c, replied) ==
    /\ op[c].phase = "query" /\ op[c].call.cmd \in Commits
    /\ LET nodes == Only([n \in Node |-> n], replied) IN
          /\ op' = [op EXCEPT ![c].phase = "commit", ![c].commit = nodes, ![c].ask = {},
                              ![c].replies = [i \in DOMAIN nodes |-> [from |-> nodes[i]]]]
          /\ net' = IF nodes = <<>> THEN net ELSE net \cup {Request(c, op[c], nodes[1])}
    /\ storage' = [n \in Node |-> IF n \in replied THEN AfterQuery(storage[n], op[c].call) ELSE storage[n]]
    /\ UNCHANGED <<router, current_relays, calls, ticks>>

\* The request after the one awaited, if there is one.
NextRequest(c) ==
    IF Len(op[c].commit) = 1 THEN {} ELSE {Request(c, op[c], op[c].commit[2])}

CommitTimesOut(c) ==
    /\ op[c].phase = "commit" /\ op[c].commit # <<>>
    /\ op' = [op EXCEPT ![c].commit = Tail(@), ![c].commit_timeouts = @ + 1]
    /\ net' = net \cup NextRequest(c)
    /\ UNCHANGED <<storage, router, current_relays, calls, ticks>>

\* A successful announcement also sets the forward entry, unless the target is
\* a server of the node's own.
Forwarded(r, req) ==
    IF IsServer(r, req.target) THEN r
    ELSE RouterSet(r, req.target, ForwardEntry(<<req.from>>, FALSE))

HandlerReply(st, m) ==
    CASE m.cmd = "ANNOUNCE" -> OnAnnounce(st, m.req, m.to)
      [] m.cmd = "UNANNOUNCE" -> OnUnannounce(m.req, m.to)
      [] m.cmd = "MUTABLE_PUT" -> OnMutablePut(st, m.req)
      [] OTHER -> OnImmutablePut(m.req)

AfterHandler(st, m) ==
    CASE m.cmd = "ANNOUNCE" -> AfterAnnounce(st, m.req, m.to)
      [] m.cmd = "UNANNOUNCE" -> AfterUnannounce(st, m.req, m.to)
      [] m.cmd = "MUTABLE_PUT" -> AfterMutablePut(st, m.req)
      [] OTHER -> AfterImmutablePut(st, m.req)

AfterForward(r, st, m) ==
    IF m.cmd = "ANNOUNCE" /\ OnAnnounce(st, m.req, m.to) # Silent THEN Forwarded(r, m.req) ELSE r

Store(m) ==
    /\ storage' = [storage EXCEPT ![m.to] = AfterHandler(@, m)]
    /\ router' = [router EXCEPT ![m.to] = AfterForward(@, storage[m.to], m)]

Taken(m) ==
    (net \ {m}) \cup (IF m.copies > 1 THEN {[m EXCEPT !.copies = @ - 1]} ELSE {})

Awaits(m) ==
    /\ op[m.client].phase = "commit" /\ op[m.client].n = m.n
    /\ op[m.client].commit # <<>> /\ op[m.client].commit[1] = m.to

\* A copy arrives, and its reply is lost or nobody waits for it.
Deliver(m) ==
    /\ Store(m)
    /\ net' = Taken(m)
    /\ UNCHANGED <<op, current_relays, calls, ticks>>

\* A copy arrives and the reply, if the handler gives one, reaches the call.  An
\* error is a reply too; a stale token is refused before the handler sees the
\* request.
DeliverAndReply(m, stale) ==
    /\ Awaits(m)
    /\ stale \/ HandlerReply(storage[m.to], m) # Silent
    /\ IF stale THEN UNCHANGED <<storage, router>> ELSE Store(m)
    /\ op' = [op EXCEPT ![m.client].commit = Tail(@),
                        ![m.client].stale = @ \/ stale]
    /\ net' = Taken(m) \cup NextRequest(m.client)
    /\ UNCHANGED <<current_relays, calls, ticks>>

----------------------------------------------------------------------------
(* The end of a call.                                                      *)

\* The first reply that is recent enough and signed.
MutableResult(o) ==
    LET good == {i \in DOMAIN o.replies : LET v == o.replies[i].value IN
                    /\ v # <<>> /\ v[1].seq >= o.call.seq
                    /\ v[1].signature = Signed(o.call.target, <<"mutable", v[1].seq, v[1].value>>)}
    IN  {o.replies[i].value[1] : i \in First(good)}

RelayInfos(o) == Truncated([i \in DOMAIN o.replies |-> o.replies[i].from], 3)

Finished(o) ==
    /\ o.phase \in {"query", "commit"} /\ o.ask = {}
    /\ o.phase = "query" => o.call.cmd \notin Commits
    /\ o.phase = "commit" => o.commit = <<>>

Finish(c) ==
    /\ Finished(op[c])
    /\ op' = [op EXCEPT ![c] = Idle]
    /\ current_relays' =
          IF op[c].call.cmd = "ANNOUNCE" /\ op[c].call.target = c
          THEN [current_relays EXCEPT ![c] = RelayInfos(op[c])] ELSE current_relays
    /\ UNCHANGED <<storage, router, net, calls, ticks>>

----------------------------------------------------------------------------
(* Time passes, and peers of other implementations announce, which may     *)
(* refresh an announcement without sending it again and may bump a topic.  *)

Tick ==
    /\ ticks < MaxTicks
    /\ ticks' = ticks + 1
    /\ storage' = [n \in Node |-> Aged(storage[n])]
    /\ router' = [n \in Node |-> RouterAged(router[n])]
    /\ UNCHANGED <<op, net, current_relays, calls>>

ForeignAnnounce(n, req) ==
    /\ calls < MaxCalls /\ \E call \in workload : call.target = req.target
    /\ calls' = calls + 1
    /\ Store([cmd |-> "ANNOUNCE", to |-> n, req |-> req])
    /\ UNCHANGED <<op, net, current_relays, ticks>>

----------------------------------------------------------------------------
(* History: a put is complete when the query reached every node and no     *)
(* request of it timed out or met a stale token.                           *)

Complete(o) ==
    /\ o.phase = "commit" /\ o.commit = <<>> /\ o.call.cmd = "MUTABLE_PUT"
    /\ Len(o.replies) = Cardinality(Node) /\ o.commit_timeouts = 0 /\ ~o.stale

Holds(n, k) == StoredSeq(storage[n], k) # <<>>
Lost(k) == \E n \in Node : Holds(n, k) /\ ~Holds(n, k)'

Track ==
    /\ floor' = [k \in MutableKeys |->
                    LET puts == {op[c].call.seq : c \in {c \in Client \ lapsed :
                                    /\ op'[c] = Idle /\ op[c] # Idle
                                    /\ Complete(op[c]) /\ op[c].call.target = k}}
                    IN  IF Lost(k) THEN 0
                        ELSE CHOOSE s \in puts \cup {floor[k]} : \A t \in puts \cup {floor[k]} : t <= s]
    /\ lapsed' = (lapsed \cup (IF \E k \in MutableKeys : Lost(k) THEN Client ELSE {}))
                    \ {c \in Client : op[c] = Idle}

Step ==
    \/ \E c \in Client, call \in workload : Start(c, call)
    \/ \E c \in Client, n \in Node : QueryReply(c, n)
    \/ \E c \in Client, n \in Node : QueryTimesOut(c, n)
    \/ \E c \in Client, replied \in SUBSET Node : QueryCommits(c, replied)
    \/ \E c \in Client : CommitTimesOut(c)
    \/ \E m \in net : Deliver(m)
    \/ \E m \in net, stale \in BOOLEAN : DeliverAndReply(m, stale)
    \/ \E c \in Client : Finish(c)
    \/ \E f \in Foreign : ForeignAnnounce(f.node, f.req)
    \/ Tick

Next == Step /\ Track /\ UNCHANGED workload

Spec == Init /\ [][Next]_vars

----------------------------------------------------------------------------
(* What the storage promises.                                              *)

LruCaches == {"bumps", "refreshes", "mutables", "immutables"}

(***************************************************************************)
(* The storage keeps its limits: a topic and the whole cache hold at most  *)
(* as many records as configured, one per peer, the counter is the number  *)
(* of records although four operations change it beside the buckets, every *)
(* record is in a bucket, and the bounded caches hold a key once.          *)
(***************************************************************************)
StoreIsBounded ==
    \A n \in Node : LET st == storage[n] c == st.records IN
        /\ c.total = Len(c.entries) /\ c.total <= MaxRecords
        /\ \A i, j \in DOMAIN c.entries :
              /\ c.entries[i].key \in c.buckets
              /\ (c.entries[i].key = c.entries[j].key
                   /\ c.entries[i].public_key = c.entries[j].public_key) => i = j
        /\ \A k \in c.buckets : Len(BucketOf(c, k)) <= MaxPerKey
        /\ \A l \in LruCaches :
              /\ Len(st[l]) <= MaxLruSize
              /\ \A i, j \in DOMAIN st[l] : st[l][i].key = st[l][j].key => i = j

\* The records of a node that it would still give out.
Live(st) == {e \in Range(st.records.entries) : e.age < MaxRecordAge}
Keys(entries) == {<<e.key, e.public_key>> : e \in entries}

(***************************************************************************)
(* A live announcement leaves a node only for a reason: its owner's        *)
(* unannounce arrives, or an announcement arrives that needs room, in      *)
(* which case it is the oldest of its full topic or the oldest of the full *)
(* cache.  Nothing else that any client does, in any order and repeated by *)
(* retries, takes it away before it expires.                               *)
(***************************************************************************)
RecordsLeaveForAReason ==
    [][\A n \in Node : \A e \in Live(storage[n]) :
          (ticks' = ticks /\ <<e.key, e.public_key>> \notin Keys(Range(storage'[n].records.entries))) =>
              \/ \E m \in net \ net' :
                    /\ m.cmd = "UNANNOUNCE" /\ m.to = n
                    /\ m.client = e.public_key /\ m.req.target = e.key
              \/ /\ e = BucketOf(storage[n].records, e.key)[1]
                 /\ Len(BucketOf(storage[n].records, e.key)) = MaxPerKey
                 /\ Len(BucketOf(storage'[n].records, e.key)) = MaxPerKey
              \/ /\ e = storage[n].records.entries[1]
                 /\ storage[n].records.total = MaxRecords
                 /\ storage'[n].records.total = MaxRecords]_vars

(***************************************************************************)
(* Once a mutable_put was answered by every node in time, a mutable_get    *)
(* that starts later returns that sequence number or a newer one, or       *)
(* nothing, until a node loses the record to expiry or eviction: late and  *)
(* repeated copies of older puts, and puts of another device with the same *)
(* key, do not take a reader back.                                         *)
(***************************************************************************)
ReadsDoNotGoBack ==
    \A c \in Client \ lapsed :
        (op[c] # Idle /\ op[c].call.cmd = "MUTABLE_GET" /\ Finished(op[c])) =>
            \A v \in MutableResult(op[c]) : v.seq >= op[c].floor

=============================================================================
