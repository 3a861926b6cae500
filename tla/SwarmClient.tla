----------------------------- MODULE SwarmClient -----------------------------
(***************************************************************************)
(* The outgoing half of the swarm actor (peeroxide/src/swarm.rs): topics   *)
(* and their discovery tasks (peer_discovery.rs), the per-peer records     *)
(* (peer_info.rs), the dial queue, the dials in flight, retries and flush. *)
(*                                                                         *)
(* The actor is one task whose select! runs a handler to completion, so    *)
(* every handler is one action; the tasks it spawns step in between.  A    *)
(* dial's result, and a backoff timer, wait for nothing but the actor, so  *)
(* their arrival and their handling are one step where order cannot matter.*)
(***************************************************************************)
EXTENDS Naturals, Sequences, FiniteSets, Functions

CONSTANTS
    Peer,          \* public keys of the others
    Self,          \* our own public key, which a lookup may return as well
    Dominated,     \* the peers whose key is smaller than ours
    Topic,
    MaxPeers,      \* max_peers
    MaxParallel,   \* max_parallel
    ConnCap,       \* capacity of the channel of connections to the application
    MaxJoins,      \* bound: joins
    MaxEvents,     \* bound: discovery events waiting for the actor
    MaxFlush       \* bound: flushes waiting

ASSUME SwarmAssumption ==
    /\ IsFiniteSet(Peer) /\ Self \notin Peer /\ Dominated \subseteq Peer
    /\ MaxPeers \in Nat /\ MaxParallel \in Nat /\ ConnCap \in Nat
    /\ MaxJoins \in Nat /\ MaxEvents \in Nat /\ MaxFlush \in Nat

VARIABLES
    running,           \* the actor's loop has not ended
    topics,            \* joined topic -> [server, refreshed, task]
    discovery,         \* the run_discovery tasks, in the order they were spawned
    events,            \* discovery_event channel
    peers,             \* key -> PeerInfo
    queue,             \* keys waiting to be dialled
    active_connects,
    dials,             \* keys being dialled by a spawned task
    retries,           \* sleeping retry timers
    flush_waiters,     \* number of flushes waiting
    server_registered,
    connections,       \* key -> [is_initiator, session]: ConnectionSet; session is history
    inbox,             \* conn channel to the application
    delivered          \* history: [peer, session] of every connection put in it

clientVars == <<topics, discovery, events, peers, queue, active_connects, dials,
                retries, flush_waiters, server_registered>>

----------------------------------------------------------------------------

\* HashMap::insert and HashMap::remove.
Put(f, k, v) == [x \in DOMAIN f \cup {k} |-> IF x = k THEN v ELSE f[x]]
Del(f, k) == [x \in DOMAIN f \ {k} |-> f[x]]

\* Vec::retain of everything but x, in a vector that holds x at most once.
Retain(s, x) ==
    IF x \in Range(s)
    THEN LET k == CHOOSE i \in DOMAIN s : s[i] = x
         IN  [i \in 1 .. Len(s) - 1 |-> IF i < k THEN s[i] ELSE s[i + 1]]
    ELSE s

\* get_priority tells apart four attempts or more from fewer, and nothing above.
MaxAttempts == 4

\* `proven` is never set: nothing in the swarm calls `disconnected`.
get_priority(attempts) ==
    IF attempts <= 1 THEN 2 ELSE IF attempts <= 3 THEN 1 ELSE 0

\* The addresses a peer is dialled through are left out.
NewPeerInfo ==
    [queued |-> FALSE, connecting |-> FALSE, waiting |-> FALSE,
     topics |-> << >>, attempts |-> 0, priority |-> get_priority(0)]

NoSession == 0

ClientInit ==
    /\ running = TRUE
    /\ topics = << >>
    /\ discovery = << >>
    /\ events = << >>
    /\ peers = << >>
    /\ queue = << >>
    /\ active_connects = 0
    /\ dials = {}
    /\ retries = {}
    /\ flush_waiters = 0
    /\ server_registered = FALSE
    /\ connections = << >>
    /\ inbox = << >>
    /\ delivered = {}

----------------------------------------------------------------------------

\* A server topic registers hash(public_key) with the DHT, once.
Registers(server) == server_registered \/ server

(***************************************************************************)
(* do_join.  Joining a topic that is joined already changes nothing.       *)
(***************************************************************************)
Join(t, server, client) ==
    /\ running
    /\ Len(discovery) < MaxJoins
    /\ t \notin DOMAIN topics
    /\ server_registered' = Registers(server)
    /\ discovery' = Append(discovery,
           [topic |-> t, server |-> server, client |-> client,
            phase |-> "refreshing", cancelled |-> FALSE])
    /\ topics' = Put(topics, t, [server |-> server, refreshed |-> FALSE,
                                 task |-> Len(discovery) + 1])
    /\ UNCHANGED <<running, events, peers, queue, active_connects, dials, retries,
                   flush_waiters, connections, inbox, delivered>>

\* The registration after a leave: it goes with the last server topic.
StaysRegistered(t) ==
    server_registered /\ (topics[t].server =>
                              \E u \in DOMAIN topics \ {t} : topics[u].server)

\* Mutant: the sender of the cancellation is kept instead of used.
CancelNothing(t) == discovery

Cancel(t) == [discovery EXCEPT ![topics[t].task].cancelled = TRUE]

(***************************************************************************)
(* do_leave.  The task is told to stop but looks at cancel_rx only between *)
(* two refreshes.                                                          *)
(***************************************************************************)
Leave(t) ==
    /\ running
    /\ t \in DOMAIN topics
    /\ topics' = Del(topics, t)
    /\ discovery' = Cancel(t)
    /\ peers' = [p \in DOMAIN peers |->
                    [peers[p] EXCEPT !.topics = Retain(@, t)]]
    /\ server_registered' = StaysRegistered(t)
    /\ UNCHANGED <<running, events, queue, active_connects, dials, retries,
                   flush_waiters, connections, inbox, delivered>>

AllTopicsRefreshed(tops) ==
    DOMAIN tops # {} /\ \A t \in DOMAIN tops : tops[t].refreshed

\* SwarmCommand::Flush; with every topic refreshed it is answered at once.
Flush ==
    /\ running
    /\ flush_waiters < MaxFlush
    /\ ~AllTopicsRefreshed(topics)
    /\ flush_waiters' = flush_waiters + 1
    /\ UNCHANGED <<running, topics, discovery, events, peers, queue, active_connects,
                   dials, retries, server_registered, connections, inbox, delivered>>

\* SwarmCommand::Destroy, or the last handle dropped, and the end of run: every
\* topic is drained and cancelled, and the flushes waiting fail.
Destroy ==
    /\ running
    /\ running' = FALSE
    /\ topics' = << >>
    /\ discovery' = [i \in DOMAIN discovery |->
                        [discovery[i] EXCEPT !.cancelled =
                            @ \/ \E t \in DOMAIN topics : topics[t].task = i]]
    /\ server_registered' = FALSE
    /\ flush_waiters' = 0
    /\ UNCHANGED <<events, peers, queue, active_connects, dials, retries,
                   connections, inbox, delivered>>

----------------------------------------------------------------------------
(* The discovery task of one join: run_discovery and do_refresh.           *)

\* event_tx.send: nobody receives once the actor is gone.
Emit(e) ==
    /\ Len(events) < MaxEvents
    /\ events' = IF running THEN Append(events, e) ELSE events

Found(p, t) == [kind |-> "found", peer |-> p, topic |-> t]
Complete(t) == [kind |-> "complete", topic |-> t]

\* A client's lookup reports a peer, maybe several times.
RefreshFinds(i, p) ==
    /\ discovery[i].phase = "refreshing"
    /\ discovery[i].client
    /\ Emit(Found(p, discovery[i].topic))
    /\ UNCHANGED <<running, topics, discovery, peers, queue, active_connects, dials,
                   retries, flush_waiters, server_registered, connections, inbox, delivered>>

\* Mutant: only a lookup sends RefreshComplete, not an announce.
CompletesClientOnly(i) ==
    /\ discovery[i].phase = "refreshing"
    /\ IF discovery[i].client THEN Emit(Complete(discovery[i].topic)) ELSE UNCHANGED events
    /\ discovery' = [discovery EXCEPT ![i].phase = "sleeping"]
    /\ UNCHANGED <<running, topics, peers, queue, active_connects, dials, retries,
                   flush_waiters, server_registered, connections, inbox, delivered>>

\* The end of do_refresh, whether the announces and the lookup failed or not.
RefreshCompletes(i) ==
    /\ discovery[i].phase = "refreshing"
    /\ Emit(Complete(discovery[i].topic))
    /\ discovery' = [discovery EXCEPT ![i].phase = "sleeping"]
    /\ UNCHANGED <<running, topics, peers, queue, active_connects, dials, retries,
                   flush_waiters, server_registered, connections, inbox, delivered>>

\* The refresh interval ends; with a cancel waiting as well select! takes either.
RefreshAgain(i) ==
    /\ discovery[i].phase = "sleeping"
    /\ discovery' = [discovery EXCEPT ![i].phase = "refreshing"]
    /\ UNCHANGED <<running, topics, events, peers, queue, active_connects, dials, retries,
                   flush_waiters, server_registered, connections, inbox, delivered>>

DiscoveryEnds(i) ==
    /\ discovery[i].phase = "sleeping"
    /\ discovery[i].cancelled
    /\ discovery' = [discovery EXCEPT ![i].phase = "ended"]
    /\ UNCHANGED <<running, topics, events, peers, queue, active_connects, dials, retries,
                   flush_waiters, server_registered, connections, inbox, delivered>>

----------------------------------------------------------------------------
(* The dial queue: attempt_connections.                                    *)

\* The queue in the order of a stable sort by descending priority.
Sorted(q, infos) ==
    LET Precedes(i, j) == \/ infos[q[i]].priority > infos[q[j]].priority
                          \/ infos[q[i]].priority = infos[q[j]].priority /\ i < j
        Orders == {f \in [DOMAIN q -> DOMAIN q] :
                      \A i, j \in DOMAIN q : i < j => Precedes(f[i], f[j])}
    IN  {[i \in DOMAIN q |-> q[f[i]]] : f \in Orders}

\* How many times the loop runs: while there is room and the queue is not empty.
DialCount(active, q) ==
    IF active >= MaxParallel THEN 0
    ELSE IF Len(q) <= MaxParallel - active THEN Len(q) ELSE MaxParallel - active

\* Mutant: the peer stays marked as queued.
DialledStillQueued(info) ==
    [info EXCEPT !.connecting = TRUE,
                 !.attempts = IF @ < MaxAttempts THEN @ + 1 ELSE @]

\* The record of a peer the loop picks.
Dialled(info) ==
    [info EXCEPT !.queued = FALSE, !.connecting = TRUE,
                 !.attempts = IF @ < MaxAttempts THEN @ + 1 ELSE @]

(***************************************************************************)
(* attempt_connections, the last thing a handler does, from the values the *)
(* handler has reached.  Each turn of the loop sorts the queue and dials   *)
(* its head; no turn changes a priority, so sorting once does.             *)
(***************************************************************************)
AttemptConnections(q, infos, active, ds) ==
    LET n == DialCount(active, q)
    IN  \E s \in (IF n = 0 THEN {q} ELSE Sorted(q, infos)) :
          LET picked == {s[i] : i \in 1 .. n}
          IN  /\ queue' = [i \in 1 .. Len(s) - n |-> s[i + n]]
              /\ peers' = [p \in DOMAIN infos |->
                              IF p \in picked THEN Dialled(infos[p]) ELSE infos[p]]
              /\ active_connects' = active + n
              /\ dials' = ds \cup picked

----------------------------------------------------------------------------
(* handle_discovery_event.                                                 *)

NextEvent(kind) == running /\ events # << >> /\ Head(events).kind = kind

\* The early returns of PeerFound.
Ignored(p) ==
    \/ p = Self
    \/ p \in DOMAIN connections
    \/ Cardinality(DOMAIN connections) >= MaxPeers

\* `banned` is never set.
MayQueue(info) == ~info.queued /\ ~info.connecting /\ ~info.waiting

\* The record after the topic of a PeerFound is written to it.
Learned(e) ==
    LET info == IF e.peer \in DOMAIN peers THEN peers[e.peer] ELSE NewPeerInfo
    IN  [info EXCEPT !.topics = IF e.topic \in Range(@) THEN @ ELSE Append(@, e.topic)]

HandlePeerFound ==
    /\ NextEvent("found")
    /\ events' = Tail(events)
    /\ LET e == Head(events)
           info == Learned(e)
       IN  IF Ignored(e.peer) THEN UNCHANGED <<peers, queue>>
           ELSE IF MayQueue(info)
           THEN /\ peers' = Put(peers, e.peer,
                       [info EXCEPT !.queued = TRUE, !.priority = get_priority(info.attempts)])
                /\ queue' = Append(queue, e.peer)
           ELSE /\ peers' = Put(peers, e.peer, info)
                /\ UNCHANGED queue
    /\ UNCHANGED <<running, topics, discovery, active_connects, dials, retries, flush_waiters,
                   server_registered, connections, inbox, delivered>>

\* RefreshComplete marks the topic, dials, and answers the flushes that waited.
HandleRefreshComplete ==
    /\ NextEvent("complete")
    /\ events' = Tail(events)
    /\ LET t == Head(events).topic
       IN  topics' = IF t \in DOMAIN topics
                     THEN [topics EXCEPT ![t].refreshed = TRUE] ELSE topics
    /\ AttemptConnections(queue, peers, active_connects, dials)
    /\ flush_waiters' = IF AllTopicsRefreshed(topics') THEN 0 ELSE flush_waiters
    /\ UNCHANGED <<running, discovery, retries, server_registered, connections, inbox, delivered>>

----------------------------------------------------------------------------
(* handle_connect_result.                                                  *)

\* Mutant: the dial that ended is still counted.
StillActive == active_connects

\* saturating_sub
OneLessActive == IF active_connects = 0 THEN 0 ELSE active_connects - 1

NotConnecting(p) == [peers EXCEPT ![p].connecting = FALSE]

\* The dedup rule keeps the connection the side with the larger key dialled.
KeepsExisting(p) ==
    /\ p \in DOMAIN connections
    /\ connections[p].is_initiator <=> (p \in Dominated)

\* `dedup: keeping existing` returns without attempt_connections.
DialSucceedsTwice(p) ==
    /\ running
    /\ p \in dials
    /\ KeepsExisting(p)
    /\ dials' = dials \ {p}
    /\ active_connects' = OneLessActive
    /\ peers' = NotConnecting(p)
    /\ UNCHANGED <<running, topics, discovery, events, queue, retries, flush_waiters,
                   server_registered, connections, inbox, delivered>>

\* The slot is taken even when try_send finds the channel full and the
\* connection is dropped.
DialSucceeds(p) ==
    /\ running
    /\ p \in dials
    /\ ~KeepsExisting(p)
    /\ connections' = Put(connections, p, [is_initiator |-> TRUE, session |-> NoSession])
    /\ IF Len(inbox) < ConnCap
       THEN /\ inbox' = Append(inbox, [peer |-> p, session |-> NoSession])
            /\ delivered' = delivered \cup {[peer |-> p, session |-> NoSession]}
       ELSE UNCHANGED <<inbox, delivered>>
    /\ AttemptConnections(queue, NotConnecting(p), OneLessActive, dials \ {p})
    /\ UNCHANGED <<running, topics, discovery, events, retries, flush_waiters,
                   server_registered>>

\* schedule_retry: a peer of no topic is not retried.
DialFails(p) ==
    /\ running
    /\ p \in dials
    /\ LET info == peers[p]
           retry == info.topics # << >>
       IN  /\ retries' = IF retry
                         THEN retries \cup {Found(p, info.topics[1])} ELSE retries
           /\ AttemptConnections(queue,
                  [NotConnecting(p) EXCEPT ![p].waiting = @ \/ retry],
                  OneLessActive, dials \ {p})
    /\ UNCHANGED <<running, topics, discovery, events, flush_waiters, server_registered,
                   connections, inbox, delivered>>

\* The backoff delay ends; `waiting` is not reset here, nor anywhere.
RetryFires(r) ==
    /\ r \in retries
    /\ Emit(r)
    /\ retries' = retries \ {r}
    /\ UNCHANGED <<running, topics, discovery, peers, queue, active_connects, dials,
                   flush_waiters, server_registered, connections, inbox, delivered>>

\* The application takes a connection off the channel.
Accept ==
    /\ inbox # << >>
    /\ inbox' = Tail(inbox)
    /\ UNCHANGED <<running, connections, delivered, clientVars>>
=============================================================================
