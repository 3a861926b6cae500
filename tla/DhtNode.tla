------------------------------ MODULE DhtNode ------------------------------
(***************************************************************************)
(* The DHT node actor (rpc.rs) with its request layer, its queries and its *)
(* routing table, among remote nodes that answer late, wrongly or never.   *)
(* One record holds the actor's fields; a method of the actor is an        *)
(* operator on it, a branch of its select! loop an action.                 *)
(***************************************************************************)
EXTENDS DhtIo, DhtQuery, NatSampler

CONSTANTS
    Bootstrap,        \* sequence of bootstrap addresses
    Concurrency,      \* concurrency of queries
    FirstId,          \* the random id the table starts with
    NeedsIdUpdate,    \* not ephemeral and bound to the wildcard address
    Firewalled,       \* config.firewalled
    REFRESH_TICKS, RECENT_NODE, OLD_NODE, MAX_REPINGING, DOWN_HINTS_RATE_LIMIT,
    PingEvery,        \* ticks between two rounds of ping_some (8)
    \* the remote side
    Knows,            \* the closer nodes each remote node answers with
    Identified,       \* remote nodes that send their id (not ephemeral)
    Refuser,          \* remote nodes whose application answers with an error
    Reflexive,        \* addresses under which remote nodes see us
    Target,           \* targets of user queries
    Dest,             \* addresses of user requests
    Asker,            \* remote nodes that send us requests
    MaxStimuli,       \* commands, incoming requests and ticks
    MaxRotations,     \* rotations of the secrets
    MaxTid,           \* requests sent
    MaxQueries        \* queries started

VARIABLES
    dht,        \* the actor
    asked,      \* UserRequests in the hands of a subscriber
    deferred,   \* replies on their way back to the actor
    \* history
    heard,      \* by query: nodes whose answers could enter its result
    issued,     \* tokens handed out, with the rotation they were made in
    rotations,  \* rotations of the secrets so far
    answerer,   \* the id, if in the table, of the node that answered last
    stimuli     \* stimuli so far

vars == <<dht, asked, deferred, heard, issued, rotations, answerer, stimuli>>

----------------------------------------------------------------------------
(* Requests of queries.                                                    *)

\* A request whose address does not parse is not routed back to its query.
Dispatch1(n, qid, req) ==
    LET hint == req.kind = "down_hint"
    IN  IF ~hint /\ ~Creates(req) THEN n
        ELSE IF hint /\ n.down_hints_per_tick >= DOWN_HINTS_RATE_LIMIT THEN n
        ELSE [n EXCEPT !.io = CreateRequest(@, req),
                       !.down_hints_per_tick = IF hint THEN @ + 1 ELSE @,
                       !.tid_to_query =
                           IF hint THEN @
                           ELSE Put(@, n.io.tid, [query |-> qid, commit |-> req.kind = "commit"])]

RECURSIVE DispatchQueryRequests(_, _, _)
DispatchQueryRequests(n, qid, reqs) ==
    IF reqs = <<>> THEN n
    ELSE DispatchQueryRequests(Dispatch1(n, qid, Head(reqs)), qid, Tail(reqs))

\* The most frequent of the addresses we were seen under (ties in any order).
Frequency(samples, a) == Len(SelectSeq(samples, LAMBDA s : s = a))
MostFrequent(samples) ==
    {a \in Range(samples) : \A b \in Range(samples) : Frequency(samples, b) <= Frequency(samples, a)}

MarkBootstrapped(n, addr) ==
    IF n.bootstrapped THEN n
    ELSE [n EXCEPT !.table = IF n.needs_id_update /\ n.addr_samples # <<>>
                             THEN RebuildWithId(@, IdOf[addr]) ELSE @,
                   !.needs_id_update = FALSE, !.bootstrapped = TRUE, !.bootstrap_waiters = 0]

\* A finished query leaves; the end of the first one ends bootstrapping.
RemoveQuery(n, qid, addr) ==
    [(IF n.bootstrap_query_id = Some(qid)
      THEN [MarkBootstrapped(n, addr) EXCEPT !.bootstrap_query_id = None] ELSE n)
        EXCEPT !.active_queries = Without(@, qid)]

IfFinished(n, qid, addr) ==
    IF qid \in DOMAIN n.active_queries /\ n.active_queries[qid].finished
    THEN RemoveQuery(n, qid, addr) ELSE n

\* A query under the next id, and its first requests.
Launch(n, read) ==
    DispatchQueryRequests([n EXCEPT !.next_query_id = @ + 1,
                                    !.active_queries = Put(@, n.next_query_id, read.q)],
                          n.next_query_id, read.reqs)

\* A new query asks the nodes of the table; it stays even if it is finished.
StartQuery(n, target, internal, commit, concurrency) ==
    Launch(n, ReadMore(AddFromTable(NewQuery(target, commit, internal, concurrency, n.table.id),
                                    n.table), n.table))

\* The bootstrap query also asks the bootstrap nodes, and is removed at once
\* if there are none.
StartBootstrap(n) ==
    IfFinished(Launch([n EXCEPT !.bootstrap_query_id = Some(n.next_query_id)],
                      ReadMore(AddNodes(AddFromTable(NewQuery(n.table.id, FALSE, TRUE, Concurrency,
                                                              n.table.id), n.table), Bootstrap),
                               n.table)),
               n.next_query_id, None)

----------------------------------------------------------------------------
(* The routing table.                                                      *)

NodeAt(a, tick) == [id |-> IdOf[a], addr |-> a, added_tick |-> tick, seen_tick |-> tick,
                    pinged_tick |-> tick]

Ping(a) == [to |-> a, internal |-> TRUE, target |-> None]

\* Ping a node of the table and remember why.
PingNode(n, id, purpose) ==
    [n EXCEPT !.table.nodes[id].pinged_tick = n.tick,
              !.io = CreateRequest(@, Ping(n.table.nodes[id].addr)),
              !.standalone_tids = Put(@, n.io.tid, purpose)]

Check(n, id) == [kind |-> "check", id |-> id, last_seen |-> n.table.nodes[id].seen_tick]

\* For each node a full bucket refused: ping the node near it that was pinged
\* longest ago, unless it is an old one seen lately (then give up on the rest).
Due(n, ids) == SelectSeq(ids, LAMBDA i : n.table.nodes[i].pinged_tick < n.tick)

PingedLongestAgo(n, ids) ==
    LET node(i) == n.table.nodes[ids[i]]
        older(i, j) == \/ node(i).pinged_tick < node(j).pinged_tick
                       \/ /\ node(i).pinged_tick = node(j).pinged_tick
                          /\ \/ node(i).added_tick < node(j).added_tick
                             \/ (node(i).added_tick = node(j).added_tick /\ i < j)
    IN  node(CHOOSE i \in DOMAIN ids : \A j \in DOMAIN ids \ {i} : older(i, j))

RECURSIVE Reping(_, _)
Reping(n, events) ==
    LET ping(oldest) ==
            [PingNode(n, oldest.id, [kind |-> "reping", new |-> Head(events), id |-> oldest.id,
                                     last_seen |-> oldest.seen_tick]) EXCEPT !.repinging = @ + 1]
        spared(node) == /\ n.tick - node.seen_tick < RECENT_NODE
                        /\ n.tick - node.added_tick > OLD_NODE
        try(oldest) == IF spared(oldest) THEN n ELSE Reping(ping(oldest), Tail(events))
        among(ids) == IF ids = <<>> THEN Reping(n, Tail(events)) ELSE try(PingedLongestAgo(n, ids))
    IN  IF events = <<>> THEN n ELSE among(Due(n, Closest(n.table, Head(events).id, K)))

HandleBucketFull(n) ==
    IF ~n.bootstrapped \/ n.repinging >= MAX_REPINGING THEN n
    ELSE Reping([n EXCEPT !.table.events = <<>>], n.table.events)

\* A node that proved its id is refreshed in the table or added to it.
AddNodeFromNetwork(n, from, id) ==
    IF id = None \/ id = Some(n.table.id) THEN n
    ELSE IF InTable(n.table, id[1])
    THEN [n EXCEPT !.table.nodes[id[1]].seen_tick = n.tick,
                   !.table.nodes[id[1]].pinged_tick = n.tick]
    ELSE IF HasRoom(n.table, id[1])
    THEN [n EXCEPT !.table = TableAdd(@, NodeAt(from, n.tick))]
    ELSE HandleBucketFull([n EXCEPT !.table = TableAdd(@, NodeAt(from, n.tick))])

----------------------------------------------------------------------------
(* Answers and timeouts.                                                   *)

Replace(n, s) == [n EXCEPT !.table = TableAdd(TableRemove(@, s.id), s.new)]

\* The node did not show up since the ping was sent.
Stale(n, s, absent) ==
    IF InTable(n.table, s.id) THEN n.table.nodes[s.id].seen_tick <= s.last_seen ELSE absent

StandaloneResponse(n, s) ==
    CASE s.kind = "reping" ->
            [(IF Stale(n, s, TRUE) THEN Replace(n, s) ELSE n) EXCEPT !.repinging = Dec(@)]
      [] s.kind = "check" ->
            IF Stale(n, s, FALSE) THEN [n EXCEPT !.table = TableRemove(@, s.id)] ELSE n
      [] OTHER -> n     \* the caller gets the answer

StandaloneTimeout(n, s) ==
    CASE s.kind = "reping" -> Replace([n EXCEPT !.repinging = Dec(@)], s)
      [] s.kind = "check" -> [n EXCEPT !.table = TableRemove(@, s.id)]
      [] OTHER -> n     \* the caller gets an error

\* What a query makes of an answer or a timeout.
UpdateQuery(n, qid, result, addr) ==
    IfFinished(DispatchQueryRequests([n EXCEPT !.active_queries[qid] = result.q], qid, result.reqs),
               qid, addr)

\* Give a resolved transaction to the query or the caller it belongs to.
RouteToQuery(n, tid, result(_), addr) ==
    LET to == n.tid_to_query[tid]
        freed == [n EXCEPT !.tid_to_query = Without(@, tid)]
        q == n.active_queries[to.query]
    IN  IF to.query \notin DOMAIN n.active_queries THEN freed
        ELSE UpdateQuery(freed, to.query,
                         IF to.commit THEN [q |-> OnCommitDone(q), reqs |-> <<>>] ELSE result(q), addr)

HandleTimeout(n, tid, to, addr) ==
    IF tid \in DOMAIN n.tid_to_query
    THEN RouteToQuery(n, tid, LAMBDA q : OnTimeout(q, to, n.table), addr)
    ELSE IF tid \in DOMAIN n.standalone_tids
    THEN StandaloneTimeout([n EXCEPT !.standalone_tids = Without(@, tid)], n.standalone_tids[tid])
    ELSE n

\* res.to is our address as the remote node saw it.
Sampled(n, res) ==
    [n EXCEPT !.addr_samples = IF n.needs_id_update THEN Append(@, res.to) ELSE @,
              !.nat = NatAdd(@, res.to, res.from)]

RouteResponse(n, tid, res, addr) ==
    IF tid \in DOMAIN n.tid_to_query
    THEN RouteToQuery(n, tid, LAMBDA q : OnResponse(q, res, n.table), addr)
    ELSE IF tid \in DOMAIN n.standalone_tids
    THEN StandaloneResponse([n EXCEPT !.standalone_tids = Without(@, tid)], n.standalone_tids[tid])
    ELSE n

HandleResponse(n, tid, res, addr) ==
    RouteResponse(Sampled(AddNodeFromNetwork(n, res.from, res.id), res), tid, res, addr)

----------------------------------------------------------------------------
(* The clock.                                                              *)

RunRefresh(n, target) ==
    StartQuery([n EXCEPT !.refresh_ticks = REFRESH_TICKS], target, TRUE, FALSE,
               IF Concurrency \div 8 > 2 THEN Concurrency \div 8 ELSE 2)

\* Ids by when they were seen, those of one tick in the order given.
BySeen(n, ids) ==
    LET seen(i) == n.table.nodes[ids[i]].seen_tick
        staler(i, j) == seen(i) < seen(j) \/ (seen(i) = seen(j) /\ i < j)
        sorted == SetToSortSeq(DOMAIN ids, staler)
    IN  [i \in DOMAIN sorted |-> ids[sorted[i]]]

RECURSIVE CheckInTurn(_, _)
CheckInTurn(n, ids) ==
    IF ids = <<>> THEN n
    ELSE CheckInTurn(PingNode(n, Head(ids), Check(n, Head(ids))), Tail(ids))

\* The nodes seen longest ago, of those not pinged in this tick.
PingSome(n) ==
    IF DOMAIN n.table.nodes = {} THEN RunRefresh(n, n.table.id)
    ELSE CheckInTurn(n, FirstOf(IF DOMAIN n.standalone_tids # {} THEN 3 ELSE 5,
                                BySeen(n, Due(n, Closest(n.table, n.table.id, 50)))))

Ticked(n, slept) ==
    IF slept
    THEN LET t == n.tick + 2 * OLD_NODE
         IN  [n EXCEPT !.tick = t + PingEvery - (t % PingEvery), !.refresh_ticks = 1,
                       !.down_hints_per_tick = 0]
    ELSE [n EXCEPT !.tick = @ + 1, !.down_hints_per_tick = 0]

CountDown(n, target) ==
    IF n.refresh_ticks <= 1 THEN RunRefresh(n, target) ELSE [n EXCEPT !.refresh_ticks = @ - 1]

HandleTick(n, slept, target) ==
    LET pinged(m) == IF m.tick % PingEvery = 0 THEN PingSome(m) ELSE m
    IN  IF n.bootstrapped THEN CountDown(pinged(Ticked(n, slept)), target) ELSE Ticked(n, slept)

----------------------------------------------------------------------------
(* Incoming requests.                                                      *)

\* A hint that a node is down: ping it, at most once a tick.
HandleDownHint(n, a) ==
    LET id == IdOf[a]
    IN  IF InTable(n.table, id) /\ n.table.nodes[id].pinged_tick < n.tick
        THEN PingNode(n, id, Check(n, id))
        ELSE n

\* How a request of the node's own is answered at once: "ok", "error" or not
\* at all.  Its value is missing, out of range (a port of zero, a delay that is
\* too long) or as the command needs it.
Answer(command, value) ==
    CASE command \in {"ping", "down_hint"} -> "ok"
      [] command \in {"ping_nat", "find_node"} /\ value = "good" -> "ok"
      [] command = "delayed_ping" /\ value = "bad" -> "error"
      [] command = "unknown" -> "error"
      [] OTHER -> "none"

\* The first subscriber that still listens gets the request; those that do not
\* are forgotten.
Listening(subscribers) == SelectSeq(subscribers, LAMBDA s : s = "open")

----------------------------------------------------------------------------
(* Steps.  Every stimulus from outside counts.                             *)

NewDht ==
    [io |-> NewIo(0), table |-> NewTable(FirstId), tick |-> 0,
     refresh_ticks |-> REFRESH_TICKS, repinging |-> 0, bootstrapped |-> FALSE,
     bootstrap_waiters |-> 0, active_queries |-> [q \in {} |-> {}],
     tid_to_query |-> [t \in {} |-> {}], standalone_tids |-> [t \in {} |-> {}],
     next_query_id |-> 0, request_subscribers |-> <<>>, destroyed |-> FALSE,
     down_hints_per_tick |-> 0, bootstrap_query_id |-> None,
     needs_id_update |-> NeedsIdUpdate, addr_samples |-> <<>>, nat |-> NewNat(Firewalled)]

Init ==
    /\ dht = StartBootstrap(NewDht)
    /\ asked = {} /\ deferred = {}
    /\ heard = [q \in {} |-> {}]
    /\ issued = {} /\ rotations = 0
    /\ answerer = None
    /\ stimuli = 0

Stimulus == stimuli < MaxStimuli /\ ~dht.destroyed /\ stimuli' = stimuli + 1 /\ answerer' = None
Internal == ~dht.destroyed /\ UNCHANGED stimuli /\ answerer' = None

\* The actor's new state, within the bounds.
Becomes(n) == n.io.tid <= MaxTid /\ n.next_query_id <= MaxQueries /\ dht' = n

\* Tokens leave with replies; n is the actor after the reply.
Issues(n, to, answer) ==
    issued' = IF answer # "ok" THEN issued
              ELSE issued \cup {[host |-> HostOf[to], token |-> Token(n.io, HostOf[to], 1),
                                 rotation |-> rotations]}

\* A request of ours as it is sent; of what the sender may add to it, its id, a
\* token and a value, the answers do not depend.
Sent(tid) ==
    LET req == dht.io.inflight[tid]
    IN  encode_request([tid |-> tid, to |-> req.to, id |-> None, token |-> None, internal |-> req.internal,
                        command |-> 0, target |-> req.target, value |-> None])

\* A remote node answers what it reads; an application may refuse it.
ResponseFrom(tid, to) ==
    LET req == decode_request(Sent(tid))
        from == req.to
        error == IF from \in Refuser /\ ~req.internal THEN 1 ELSE 0
    IN  [tid |-> tid, to |-> to,
         id |-> IF from \in Identified THEN Some(IdOf[from]) ELSE None,
         token |-> IF error = 0 THEN Some("token") ELSE None,
         closer_nodes |-> IF req.target = None THEN <<>> ELSE Knows[from],
         error |-> error, value |-> None]

\* What the node reads from the datagram: the id must be that of the address.
Received(m, from) ==
    LET res == decode_response(m)
    IN  [from |-> from, to |-> res.to,
         id |-> IF res.id = Some(IdOf[from]) THEN res.id ELSE None,
         token |-> res.token, closer_nodes |-> res.closer_nodes, error |-> res.error]

Hears(tid, res) ==
    LET to == dht.tid_to_query[tid]
    IN  heard' = IF /\ tid \in DOMAIN dht.tid_to_query
                    /\ ~to.commit /\ res.error = 0 /\ res.id # None
                 THEN Put(heard, to.query, (IF to.query \in DOMAIN heard THEN heard[to.query] ELSE {})
                                              \cup {res.from})
                 ELSE heard

Response(tid, to) ==
    LET from == dht.io.inflight[tid].to
        res == Received(encode_response(ResponseFrom(tid, to)), from)
        known == dht.bootstrapped /\ from \in Identified /\ InTable(dht.table, IdOf[from])
    IN  /\ ~dht.destroyed /\ UNCHANGED stimuli
        /\ answerer' = IF known THEN Some(IdOf[from]) ELSE None
        /\ dht.io.inflight[tid].sent > 0
        /\ \E addr \in Reflexive :
              /\ Becomes(HandleResponse([dht EXCEPT !.io = Resolve(@, tid)], tid, res, addr))
              /\ addr \in MostFrequent(dht'.addr_samples) \/ dht'.addr_samples = <<>>
        /\ Hears(tid, res)
        /\ UNCHANGED <<asked, deferred, issued, rotations>>

RECURSIVE TimeoutInTurn(_, _, _)
TimeoutInTurn(n, tids, addr) ==
    IF tids = <<>> THEN n
    ELSE TimeoutInTurn(HandleTimeout(n, Head(tids), dht.io.inflight[Head(tids)].to, addr),
                       Tail(tids), addr)

\* Deadlines pass; requests without retries left are given up in turn.
Timeout(due) ==
    /\ Internal
    /\ \E addr \in Reflexive, dead \in SetToSeqs(TimedOut(dht.io, due)) :
          /\ Becomes(TimeoutInTurn([dht EXCEPT !.io = CheckTimeouts(@, due)], dead, addr))
          /\ addr \in MostFrequent(dht.addr_samples) \/ dht.addr_samples = <<>>
    /\ UNCHANGED <<asked, deferred, heard, issued, rotations>>

\* A drain that rotates the secrets has a bound of its own.
Drain ==
    /\ IF Rotates(dht.io) THEN rotations < MaxRotations /\ Internal ELSE Stimulus
    /\ dht' = [dht EXCEPT !.io = IoDrain(@)]
    /\ rotations' = IF Rotates(dht.io) THEN rotations + 1 ELSE rotations
    /\ UNCHANGED <<asked, deferred, heard, issued>>

Tick(slept) ==
    /\ Stimulus
    /\ \E target \in IF DOMAIN dht.table.nodes = {} THEN {dht.table.id} ELSE DOMAIN dht.table.nodes :
          Becomes(HandleTick(dht, slept, target))
    /\ UNCHANGED <<asked, deferred, heard, issued, rotations>>

\* A request whose token is neither of this nor of the previous rotation is
\* refused before anything else; the refusal carries a fresh token.
RequestRefused(from, token) ==
    /\ Stimulus
    /\ ~ValidateToken(InitSecrets(dht.io), HostOf[from], token)
    /\ dht' = [dht EXCEPT !.io = InitSecrets(@)]
    /\ Issues(dht', from, "ok")
    /\ UNCHANGED <<asked, deferred, heard, rotations>>

IncomingRequest(from, command, value, down) ==
    LET added == AddNodeFromNetwork(dht, from, IF from \in Identified THEN Some(IdOf[from]) ELSE None)
        hinted(n) == IF command = "down_hint" /\ value = "good" THEN HandleDownHint(n, down) ELSE n
        answer == Answer(command, value)
    IN  /\ Stimulus
        /\ Becomes([hinted(added) EXCEPT !.io = SendReply(@, answer = "ok")])
        /\ Issues(dht', from, answer)
        /\ deferred' = IF command = "delayed_ping" /\ value = "good"
                       THEN deferred \cup {[from |-> from, answer |-> "ok", id |-> stimuli]}
                       ELSE deferred
        /\ UNCHANGED <<asked, heard, rotations>>

\* A request for the application; its token was checked.
UserRequest(from, token) ==
    LET checked == [dht EXCEPT !.io = IF token = None THEN @ ELSE InitSecrets(@)]
        added == AddNodeFromNetwork(checked, from, IF from \in Identified THEN Some(IdOf[from]) ELSE None)
        listening == Listening(dht.request_subscribers)
    IN  /\ Stimulus
        /\ \A t \in Range(token) : ValidateToken(checked.io, HostOf[from], t)
        /\ Becomes([added EXCEPT !.request_subscribers = listening])
        /\ asked' = IF listening = <<>> THEN asked ELSE asked \cup {[from |-> from, id |-> stimuli]}
        /\ UNCHANGED <<deferred, heard, issued, rotations>>

\* The application replies, refuses, drops the request, or releases it because
\* the answer comes another way.
AppReplies(r, outcome) ==
    /\ Internal
    /\ asked' = asked \ {r}
    /\ deferred' = IF outcome = "release" THEN deferred
                   ELSE deferred \cup {[from |-> r.from, id |-> r.id,
                                        answer |-> IF outcome = "reply" THEN "ok" ELSE "error"]}
    /\ UNCHANGED <<dht, heard, issued, rotations>>

HandleDeferredReply(r) ==
    /\ Internal
    /\ dht' = [dht EXCEPT !.io = SendReply(@, r.answer = "ok")]
    /\ Issues(dht', r.from, r.answer)
    /\ deferred' = deferred \ {r}
    /\ UNCHANGED <<asked, heard, rotations>>

----------------------------------------------------------------------------
(* Commands of the application.                                            *)

Command(n) ==
    /\ Stimulus
    /\ Becomes(n)
    /\ UNCHANGED <<asked, deferred, heard, issued, rotations>>

AwaitBootstrap ==
    Command(IF dht.bootstrapped THEN dht ELSE [dht EXCEPT !.bootstrap_waiters = @ + 1])

Caller == [kind |-> "caller"]

\* A request outside any query, answered to its caller; the caller of one
\* whose address does not parse gets an error.
StandaloneRequest(to, internal, Send(_, _)) ==
    LET params == [to |-> to, internal |-> internal, target |-> Some(dht.table.id)]
    IN  Command(IF Creates(params)
                THEN [dht EXCEPT !.io = Send(@, params),
                                 !.standalone_tids = Put(@, dht.io.tid, Caller)]
                ELSE dht)

PingCommand(to) == StandaloneRequest(to, TRUE, CreateRequest)
RequestCommand(to) == StandaloneRequest(to, FALSE, CreateRequest)
PingViaSocket(to) == StandaloneRequest(to, TRUE, SendRequestViaSocket)

\* find_node and query.
UserQuery(target, internal, commit) ==
    Command(StartQuery(dht, target, internal, commit, Concurrency))

RelayRequest(to, preserve_tid) == Command([dht EXCEPT !.io = Relay(@, to, preserve_tid)])

SendReplyTo(to) ==
    /\ Stimulus
    /\ dht' = [dht EXCEPT !.io = SendReply(@, TRUE)]
    /\ Issues(dht', to, "ok")
    /\ UNCHANGED <<asked, deferred, heard, rotations>>

SubscribeRequests == Command([dht EXCEPT !.request_subscribers = Append(@, "open")])

Unsubscribe(i) ==
    Command([dht EXCEPT !.request_subscribers[i] = "closed"])

\* The loop ends and the actor is dropped: nothing of it is left, callers see
\* a closed channel.
Destroy ==
    /\ Stimulus
    /\ dht' = [NewDht EXCEPT !.destroyed = TRUE]
    /\ asked' = {} /\ deferred' = {} /\ heard' = [q \in {} |-> {}] /\ issued' = {}
    /\ UNCHANGED rotations

Commands == {"ping", "ping_nat", "find_node", "down_hint", "delayed_ping", "unknown"}

Next ==
    \/ \E tid \in DOMAIN dht.io.inflight, to \in Reflexive : Response(tid, to)
    \/ \E due \in SUBSET DOMAIN dht.io.inflight : due # {} /\ Timeout(due)
    \/ Drain
    \/ \E slept \in BOOLEAN : Tick(slept)
    \/ \E from \in Asker : \E i \in issued : i.host = HostOf[from] /\ RequestRefused(from, i.token)
    \/ \E from \in Asker, command \in Commands, value \in {"none", "bad", "good"}, down \in Addr :
          (command = "down_hint" \/ down = from) /\ IncomingRequest(from, command, value, down)
    \/ \E from \in Asker : UserRequest(from, None)
    \/ \E from \in Asker : \E i \in issued : i.host = HostOf[from] /\ UserRequest(from, Some(i.token))
    \/ \E r \in asked, outcome \in {"reply", "error", "drop", "release"} : AppReplies(r, outcome)
    \/ \E r \in deferred : HandleDeferredReply(r)
    \/ AwaitBootstrap
    \/ \E to \in Dest : PingCommand(to)
    \/ \E to \in Dest : RequestCommand(to)
    \/ \E to \in Dest : PingViaSocket(to)
    \/ \E target \in Target : UserQuery(target, TRUE, FALSE)
    \/ \E target \in Target, commit \in BOOLEAN : UserQuery(target, FALSE, commit)
    \/ \E to \in Dest, preserve_tid \in BOOLEAN : RelayRequest(to, preserve_tid)
    \/ \E to \in Asker : SendReplyTo(to)
    \/ SubscribeRequests
    \/ \E i \in DOMAIN dht.request_subscribers : Unsubscribe(i)
    \/ Destroy

Spec == Init /\ [][Next]_vars

----------------------------------------------------------------------------
(* What the node promises.                                                 *)

RoutedTo(qid, commit) ==
    {t \in DOMAIN dht.tid_to_query : dht.tid_to_query[t] = [query |-> qid, commit |-> commit]}

(***************************************************************************)
(* A query counts exactly the requests that will be routed back to it, in  *)
(* either phase, and every route leads from a request that is still in     *)
(* flight: no answer or timeout, in whatever order and with retries and    *)
(* queued sends in between, can finish a query early or leave it waiting.  *)
(* repinging counts the pings sent for full buckets in the same way.       *)
(***************************************************************************)
RequestsAreRouted ==
    dht.destroyed \/
    /\ \A qid \in DOMAIN dht.active_queries :
          /\ dht.active_queries[qid].inflight = Cardinality(RoutedTo(qid, FALSE))
          /\ dht.active_queries[qid].commit_inflight = Cardinality(RoutedTo(qid, TRUE))
    /\ DOMAIN dht.tid_to_query \cup DOMAIN dht.standalone_tids \subseteq DOMAIN dht.io.inflight
    /\ DOMAIN dht.tid_to_query \cap DOMAIN dht.standalone_tids = {}
    /\ dht.repinging = Cardinality({t \in DOMAIN dht.standalone_tids :
                                       dht.standalone_tids[t].kind = "reping"})

(***************************************************************************)
(* The result of a query is the K nearest of the nodes that answered it,   *)
(* nearest first, whatever order the answers came in; and when it goes on  *)
(* to commit, no node it learnt of that is nearer is left unasked.         *)
(***************************************************************************)
ClosestIsBest ==
    \A qid \in DOMAIN dht.active_queries :
        LET q == dht.active_queries[qid]
            all == IF qid \in DOMAIN heard THEN heard[qid] ELSE {}
            d(a) == Distance(q, IdOf[a])
            best == {q.closest[i].from : i \in DOMAIN q.closest}
        IN  /\ \A i \in 2 .. Len(q.closest) : d(q.closest[i - 1].from) < d(q.closest[i].from)
            /\ best \subseteq all
            /\ Len(q.closest) = K \/ best = all
            /\ \A a \in best, b \in all \ best : d(a) < d(b)
            /\ q.committing =>
                  \A a \in DOMAIN q.seen : IsPending(q, a) => ~IsCloser(q, IdOf[a])

(***************************************************************************)
(* A token is good in the rotation it was made in and in the next one, and *)
(* no longer, although each rotation moves one secret and hashes the other *)
(* (Io::drain, Io::token, Io::validate_token).                             *)
(***************************************************************************)
TokenLifetime ==
    \A i \in issued :
        ValidateToken(dht.io, i.host, i.token) <=> rotations - i.rotation <= 1

(***************************************************************************)
(* Once bootstrapped, a node that answers a request and proves its id is   *)
(* not thrown out of the table by its own answer, whichever ping of which  *)
(* tick it belongs to; and the node itself is never in its own table, also *)
(* when it learnt its id only after it had asked itself.                   *)
(***************************************************************************)
AnsweredIsKept ==
    /\ \A id \in Range(answerer) : InTable(dht.table, id)
    /\ dht.bootstrapped => ~InTable(dht.table, dht.table.id)

(***************************************************************************)
(* A query that has not finished waits for a request that is in flight, so *)
(* it goes on when that is answered or runs out of retries: no order of    *)
(* answers, timeouts and nodes found closer leaves it, or bootstrapping,   *)
(* waiting for nothing.                                                    *)
(***************************************************************************)
NoQueryIsStuck ==
    /\ \A qid \in DOMAIN dht.active_queries :
          dht.active_queries[qid].finished \/ RoutedTo(qid, FALSE) \cup RoutedTo(qid, TRUE) # {}
    /\ dht.bootstrapped \/ dht.destroyed \/ 0 \in DOMAIN dht.active_queries

(***************************************************************************)
(* Queries go on: each counts the requests it waits for, and waits for at  *)
(* least one.                                                              *)
(***************************************************************************)
QueriesGoOn == RequestsAreRouted /\ NoQueryIsStuck

=============================================================================
