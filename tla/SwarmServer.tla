----------------------------- MODULE SwarmServer -----------------------------
(***************************************************************************)
(* The incoming half of the swarm actor (peeroxide/src/swarm.rs): the      *)
(* handshakes the DHT hands to it, the cache of their replies, passive     *)
(* holepunches, and the tasks that finish an accepted connection.          *)
(*                                                                         *)
(* A client's Noise message reaches us any number of times, through        *)
(* different relays or directly; Owner says which key it proves.  A reply  *)
(* is known by the session (local_stream_id) it was made for.              *)
(***************************************************************************)
EXTENDS SwarmClient

CONSTANTS
    Noise,          \* client Noise messages
    Owner,          \* the key each of them authenticates
    RelayThrough,   \* whether relay_through is configured
    CacheCap,       \* HANDSHAKE_REPLY_CACHE_CAPACITY
    MaxSessions     \* bound: handshakes answered afresh

ASSUME ServerAssumption ==
    /\ Owner \in [Noise -> Peer] /\ RelayThrough \in BOOLEAN
    /\ CacheCap \in Nat /\ MaxSessions \in Nat

VARIABLES
    next_stream_id,
    replies,             \* Noise message -> session of its reply: entries of the cache
    order,               \* the cached messages, oldest first
    expired,             \* how many of them, at the front, are past their TTL
    connects,            \* holepunch id -> [peer, session, puncher]
    pending_handshakes,  \* key -> holepunch id
    next_holepunch_id,
    timers,              \* ids whose 10 s abort timer runs
    hooks,               \* ids whose stream still waits for its first packet
    hp_events,           \* passive_hp_event channel
    server_tasks,        \* [peer, session] of the tasks finishing a connection
    failures,            \* server_failure channel
    answered,            \* history: message -> sessions it was answered with
    accepted,            \* history: sessions the server went on with
    forgotten            \* history: messages whose reply expired or was evicted

serverVars == <<next_stream_id, replies, order, expired, connects, pending_handshakes,
                next_holepunch_id, timers, hooks, hp_events, server_tasks, failures,
                answered, accepted, forgotten>>

vars == <<running, connections, inbox, delivered, clientVars, serverVars>>

ServerInit ==
    /\ next_stream_id = 1
    /\ replies = << >>
    /\ order = << >>
    /\ expired = 0
    /\ connects = << >>
    /\ pending_handshakes = << >>
    /\ next_holepunch_id = 0
    /\ timers = {}
    /\ hooks = {}
    /\ hp_events = << >>
    /\ server_tasks = {}
    /\ failures = << >>
    /\ answered = [m \in Noise |-> {}]
    /\ accepted = {}
    /\ forgotten = {}

----------------------------------------------------------------------------
(* HandshakeReplyCache.                                                    *)

Keep(f, keys) == [k \in DOMAIN f \cap keys |-> f[k]]
From(s, k) == SubSeq(s, k, Len(s))

\* The oldest reply passes its TTL; it stays until the next prune.
ReplyExpires ==
    /\ expired < Len(order)
    /\ expired' = expired + 1
    /\ UNCHANGED <<running, connections, inbox, delivered, clientVars, next_stream_id, replies, order,
                   connects, pending_handshakes, next_holepunch_id, timers, hooks,
                   hp_events, server_tasks, failures, answered, accepted, forgotten>>

Unexpired == From(order, expired + 1)

\* `prune`, the periodic sweep, and a handshake whose Noise message is invalid
\* or reports an error: its only trace is the prune of the cache lookup.
Prune ==
    /\ running
    /\ expired > 0
    /\ order' = Unexpired
    /\ replies' = Keep(replies, Range(Unexpired))
    /\ expired' = 0
    /\ forgotten' = forgotten \cup (DOMAIN replies \ DOMAIN replies')
    /\ UNCHANGED <<running, connections, inbox, delivered, clientVars, next_stream_id, connects,
                   pending_handshakes, next_holepunch_id, timers, hooks, hp_events,
                   server_tasks, failures, answered, accepted>>

\* Mutant: the reply is not remembered.
InsertNothing(m, s) == UNCHANGED <<order, replies, forgotten>>

\* `insert`, after the prune of `get`: the oldest makes room at capacity.
InsertReply(m, s) ==
    LET kept == IF Len(Unexpired) >= CacheCap /\ Unexpired # << >>
                THEN Tail(Unexpired) ELSE Unexpired
    IN  IF CacheCap = 0
        THEN /\ order' = Unexpired
             /\ replies' = Keep(replies, Range(Unexpired))
             /\ forgotten' = forgotten \cup (DOMAIN replies \ DOMAIN replies') \cup {m}
        ELSE /\ order' = Append(kept, m)
             /\ replies' = Put(Keep(replies, Range(kept)), m, s)
             /\ forgotten' = forgotten \cup (DOMAIN replies \ Range(kept))

\* The cache of a handshake that inserts nothing.
PruneOnly ==
    /\ order' = Unexpired
    /\ replies' = Keep(replies, Range(Unexpired))
    /\ forgotten' = forgotten \cup (DOMAIN replies \ DOMAIN replies')

----------------------------------------------------------------------------
(* handle_server_handshake.                                                *)

\* The router hands us requests while hash(public_key) is registered; one that
\* is in the channel by then is handled later.
EverRegistered == \E i \in DOMAIN discovery : discovery[i].server

\* A copy of a message that was answered gets the same reply.
AnswerCopy(m) ==
    /\ running
    /\ m \in Range(Unexpired)
    /\ PruneOnly
    /\ expired' = 0
    /\ answered' = [answered EXCEPT ![m] = @ \cup {replies[m]}]
    /\ UNCHANGED <<running, connections, inbox, delivered, clientVars, next_stream_id, connects,
                   pending_handshakes, next_holepunch_id, timers, hooks, hp_events,
                   server_tasks, failures, accepted>>

SelectServerPath(server_firewalled, client_open, forwarded) ==
    IF RelayThrough THEN "Relay"
    ELSE IF client_open \/ ~forwarded
    THEN IF server_firewalled THEN "DialAdvertised" ELSE "Dial"
    ELSE IF server_firewalled THEN "Holepunch" ELSE "Listen"

CanAccept(udx) == Cardinality(DOMAIN connections) < MaxPeers /\ udx

Eligible(m, udx) == CanAccept(udx) /\ Owner[m] \notin DOMAIN connections

\* try_setup_passive_holepunch arms the hook and the timer of the id, and
\* commit_passive_holepunch replaces the peer's entry that is in flight: its
\* timer is aborted and its stream, with the hook, dropped.
Commit(p, s, id) ==
    LET old == IF p \in DOMAIN pending_handshakes THEN {pending_handshakes[p]} ELSE {}
    IN  /\ pending_handshakes' = Put(pending_handshakes, p, id)
        /\ connects' = Put(Keep(connects, DOMAIN connects \ old), id,
                           [peer |-> p, session |-> s, puncher |-> TRUE])
        /\ timers' = (timers \ old) \cup {id}
        /\ hooks' = (hooks \ old) \cup {id}

\* The slot is reserved and a task spawned to finish the connection.
Reserve(p, s) ==
    /\ connections' = Put(connections, p, [is_initiator |-> FALSE, session |-> s])
    /\ server_tasks' = server_tasks \cup {[peer |-> p, session |-> s]}

(***************************************************************************)
(* A message with no reply in the cache.  `udx`: it carries UDX info;      *)
(* `staged`: the passive puncher could be set up.  It is answered even     *)
(* when we go no further with it: a staged puncher is released then.       *)
(***************************************************************************)
AnswerHandshake(m, server_firewalled, client_open, forwarded, udx, staged) ==
    LET p == Owner[m]
        s == next_stream_id
        id == next_holepunch_id
        path == SelectServerPath(server_firewalled, client_open, forwarded)
        setup == path = "Holepunch" /\ CanAccept(udx) /\ staged
        eligible == Eligible(m, udx)
    IN  /\ running
        /\ EverRegistered
        /\ m \notin Range(Unexpired)
        /\ s <= MaxSessions
        /\ staged => path = "Holepunch"
        /\ next_stream_id' = s + 1
        /\ next_holepunch_id' = IF setup \/ path = "DialAdvertised" THEN id + 1 ELSE id
        /\ answered' = [answered EXCEPT ![m] = @ \cup {s}]
        /\ expired' = 0
        /\ IF eligible THEN InsertReply(m, s) ELSE PruneOnly
        /\ accepted' = IF eligible THEN accepted \cup {s} ELSE accepted
        /\ IF eligible /\ setup
           THEN Commit(p, s, id) /\ UNCHANGED <<connections, server_tasks>>
           ELSE /\ IF eligible THEN Reserve(p, s) ELSE UNCHANGED <<connections, server_tasks>>
                /\ UNCHANGED <<pending_handshakes, connects, timers, hooks>>
        /\ UNCHANGED <<running, inbox, delivered, clientVars, hp_events, failures>>

----------------------------------------------------------------------------
(* Passive holepunches.                                                    *)

\* handle_peer_holepunch for an id in flight: the first round that asks us to
\* punch moves the puncher into a probing task.
PeerHolepunch(id) ==
    /\ running
    /\ id \in DOMAIN connects
    /\ connects[id].puncher
    /\ connects' = [connects EXCEPT ![id].puncher = FALSE]
    /\ UNCHANGED <<running, connections, inbox, delivered, clientVars, next_stream_id, replies, order,
                   expired, pending_handshakes, next_holepunch_id, timers, hooks, hp_events,
                   server_tasks, failures, answered, accepted, forgotten>>

\* The first packet reaches the listening stream: its hook fires, once.  The
\* stream is dropped with its entry, or with the actor.
HookFires(id) ==
    /\ running
    /\ id \in hooks
    /\ hooks' = hooks \ {id}
    /\ hp_events' = Append(hp_events, [kind |-> "Punched", id |-> id])
    /\ UNCHANGED <<running, connections, inbox, delivered, clientVars, next_stream_id, replies, order,
                   expired, connects, pending_handshakes, next_holepunch_id, timers,
                   server_tasks, failures, answered, accepted, forgotten>>

\* The 10 s are over; nobody hears of it once the actor is gone.
AbortTimerFires(id) ==
    /\ running
    /\ id \in timers
    /\ timers' = timers \ {id}
    /\ hp_events' = Append(hp_events, [kind |-> "Abort", id |-> id])
    /\ UNCHANGED <<running, connections, inbox, delivered, clientVars, next_stream_id, replies, order,
                   expired, connects, pending_handshakes, next_holepunch_id, hooks,
                   server_tasks, failures, answered, accepted, forgotten>>

NextHolepunchEvent(kind) == running /\ hp_events # << >> /\ Head(hp_events).kind = kind

\* Mutant: the entry goes, its place in pending_handshakes stays.
RemovesEntryOnly(id) ==
    /\ connects' = Del(connects, id)
    /\ timers' = timers \ {id}
    /\ hooks' = hooks \ {id}
    /\ UNCHANGED pending_handshakes

\* The entry is taken out of both maps and its timer aborted.  An abort drops
\* the stream with it; after a punch the hook has fired already.
RemovesEntry(id) ==
    /\ connects' = Del(connects, id)
    /\ pending_handshakes' = Del(pending_handshakes, connects[id].peer)
    /\ timers' = timers \ {id}
    /\ hooks' = hooks \ {id}

\* Mutant: a punch takes a slot without another look at who has one.
PunchedUnchecked(id) == Reserve(connects[id].peer, connects[id].session)

\* A punch may land after the peer has connected another way, or the slots ran out.
PunchedConnects(id) ==
    IF connects[id].peer \in DOMAIN connections \/ Cardinality(DOMAIN connections) >= MaxPeers
    THEN UNCHANGED <<connections, server_tasks>>
    ELSE Reserve(connects[id].peer, connects[id].session)

HandlePunched ==
    /\ NextHolepunchEvent("Punched")
    /\ hp_events' = Tail(hp_events)
    /\ LET id == Head(hp_events).id
       IN  IF id \in DOMAIN connects
           THEN RemovesEntry(id) /\ PunchedConnects(id)
           ELSE UNCHANGED <<connects, pending_handshakes, timers, hooks, connections,
                            server_tasks>>
    /\ UNCHANGED <<running, inbox, delivered, clientVars, next_stream_id, replies, order, expired,
                   next_holepunch_id, failures, answered, accepted, forgotten>>

HandleAbort ==
    /\ NextHolepunchEvent("Abort")
    /\ hp_events' = Tail(hp_events)
    /\ LET id == Head(hp_events).id
       IN  IF id \in DOMAIN connects THEN RemovesEntry(id)
           ELSE UNCHANGED <<connects, pending_handshakes, timers, hooks>>
    /\ UNCHANGED <<running, connections, inbox, delivered, clientVars, next_stream_id, replies, order,
                   expired, next_holepunch_id, server_tasks, failures, answered, accepted,
                   forgotten>>

----------------------------------------------------------------------------
(* The tasks that finish an accepted connection: create_server_connection, *)
(* create_server_relay_connection and the task of a landed punch.          *)

\* conn_tx.send waits for room in the channel.
ServerConnects(task) ==
    /\ task \in server_tasks
    /\ Len(inbox) < ConnCap
    /\ inbox' = Append(inbox, task)
    /\ delivered' = delivered \cup {task}
    /\ server_tasks' = server_tasks \ {task}
    /\ UNCHANGED <<running, connections, clientVars, next_stream_id, replies, order, expired,
                   connects, pending_handshakes, next_holepunch_id, timers, hooks, hp_events,
                   failures, answered, accepted, forgotten>>

\* Mutant: the task ends without a word.
FailsSilently(task) == failures

Reports(task) == Append(failures, task)

ServerFails(task) ==
    /\ task \in server_tasks
    /\ failures' = Reports(task)
    /\ server_tasks' = server_tasks \ {task}
    /\ UNCHANGED <<running, connections, inbox, delivered, clientVars, next_stream_id, replies, order,
                   expired, connects, pending_handshakes, next_holepunch_id, timers, hooks,
                   hp_events, answered, accepted, forgotten>>

\* The message is a key alone (its session is history): whatever slot the key
\* has is released.
HandleServerFailure ==
    /\ running
    /\ failures # << >>
    /\ failures' = Tail(failures)
    /\ connections' = Del(connections, Head(failures).peer)
    /\ UNCHANGED <<running, inbox, delivered, clientVars, next_stream_id, replies, order, expired,
                   connects, pending_handshakes, next_holepunch_id, timers, hooks, hp_events,
                   server_tasks, answered, accepted, forgotten>>
=============================================================================
