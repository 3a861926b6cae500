-------------------------------- MODULE Swarm --------------------------------
(***************************************************************************)
(* The swarm actor as a whole: both halves share the connection slots and  *)
(* the channel of connections to the application, and take turns in the    *)
(* select! loop of SwarmActor::run.                                        *)
(***************************************************************************)
EXTENDS SwarmServer

Init == ClientInit /\ ServerInit

\* A step of the outgoing half.
Client(A) == A /\ UNCHANGED serverVars

Next ==
    \* commands, and the application's end of the channel
    \/ \E t \in Topic, server, client \in BOOLEAN : Client(Join(t, server, client))
    \/ \E t \in Topic : Client(Leave(t))
    \/ Client(Flush)
    \/ Client(Destroy)
    \/ Client(Accept)
    \* discovery tasks and retry timers
    \/ \E i \in DOMAIN discovery, p \in Peer \cup {Self} : Client(RefreshFinds(i, p))
    \/ \E i \in DOMAIN discovery : Client(RefreshCompletes(i))
    \/ \E i \in DOMAIN discovery : Client(RefreshAgain(i))
    \/ \E i \in DOMAIN discovery : Client(DiscoveryEnds(i))
    \/ \E r \in retries : Client(RetryFires(r))
    \* the actor: discovery events and dial results
    \/ Client(HandlePeerFound)
    \/ Client(HandleRefreshComplete)
    \/ \E p \in dials : Client(DialSucceeds(p))
    \/ \E p \in dials : Client(DialSucceedsTwice(p))
    \/ \E p \in dials : Client(DialFails(p))
    \* the actor: handshakes and their cached replies
    \/ ReplyExpires
    \/ Prune
    \/ \E m \in Noise : AnswerCopy(m)
    \/ \E m \in Noise, server_firewalled, client_open, forwarded, udx, staged \in BOOLEAN :
          AnswerHandshake(m, server_firewalled, client_open, forwarded, udx, staged)
    \* passive holepunches
    \/ \E id \in DOMAIN connects : PeerHolepunch(id)
    \/ \E id \in hooks : HookFires(id)
    \/ \E id \in timers : AbortTimerFires(id)
    \/ HandlePunched
    \/ HandleAbort
    \* tasks finishing incoming connections
    \/ \E task \in server_tasks : ServerConnects(task)
    \/ \E task \in server_tasks : ServerFails(task)
    \/ HandleServerFailure

Spec == Init /\ [][Next]_vars

----------------------------------------------------------------------------
(* Fairness: tokio keeps polling every task that is ready, and the refresh *)
(* timer fires.  A dial ends: its requests, punches and the stream's       *)
(* retransmissions have timeouts.  (The read of the peer's secret-stream   *)
(* header has none of its own, so this also takes a peer that either sends *)
(* it or falls silent.)  A refresh ends: a lookup has finitely many        *)
(* results, so it is not put off for ever by them (strong fairness, as     *)
(* MaxEvents makes the two compete for room).                              *)

FairSpec ==
    /\ Spec
    /\ WF_vars(Client(HandlePeerFound))
    /\ WF_vars(Client(HandleRefreshComplete))
    /\ \A i \in 1 .. MaxJoins :
          /\ SF_vars(i \in DOMAIN discovery /\ Client(RefreshCompletes(i)))
          /\ WF_vars(i \in DOMAIN discovery /\ Client(RefreshAgain(i)))
    /\ \A p \in Peer :
          WF_vars(Client(DialSucceeds(p) \/ DialSucceedsTwice(p) \/ DialFails(p)))

----------------------------------------------------------------------------
(* What the swarm is for.                                                  *)

Queued == {p \in DOMAIN peers : peers[p].queued}
Connecting == {p \in DOMAIN peers : peers[p].connecting}

(***************************************************************************)
(* `queued` says exactly which peers wait in the queue, and no peer waits  *)
(* twice; active_connects counts the dials in flight, `connecting` names   *)
(* them, and they never exceed max_parallel.  Flags, queue and counter are *)
(* changed by different handlers, in any order of results, events and      *)
(* commands (handle_discovery_event, attempt_connections,                  *)
(* handle_connect_result).                                                 *)
(***************************************************************************)
DialsAreExact ==
    /\ Range(queue) = Queued
    /\ \A i, j \in DOMAIN queue : queue[i] = queue[j] => i = j
    /\ Queued \cap Connecting = {}
    /\ dials = Connecting
    /\ active_connects = Cardinality(dials)
    /\ active_connects <= MaxParallel

(***************************************************************************)
(* Joined topics and running discovery tasks correspond: a joined topic    *)
(* has a task of its own that was not told to stop, and a task that was    *)
(* not told to stop belongs to a joined topic.  We are registered with the *)
(* DHT as a server exactly while some server topic is joined.  Both hold   *)
(* over any order of joins and leaves and after destroy (do_join,          *)
(* do_leave).                                                              *)
(***************************************************************************)
TopicsAreServed ==
    /\ \A t \in DOMAIN topics :
          LET task == discovery[topics[t].task]
          IN  task.topic = t /\ ~task.cancelled /\ task.phase # "ended"
    /\ \A i \in DOMAIN discovery :
          ~discovery[i].cancelled =>
              /\ discovery[i].topic \in DOMAIN topics
              /\ topics[discovery[i].topic].task = i
    /\ server_registered <=> \E t \in DOMAIN topics : topics[t].server

(***************************************************************************)
(* The slot of an incoming connection is reserved and never left behind: a *)
(* task that is finishing such a connection, or whose failure the actor    *)
(* has not handled, is the only one of its peer and the peer's slot is     *)
(* taken; and a slot taken for one was delivered, is being finished, or    *)
(* its failure is on its way to the actor (handle_server_handshake,        *)
(* server_failure_tx).                                                     *)
(***************************************************************************)
SlotsAreReserved ==
    /\ \A t, u \in server_tasks : t.peer = u.peer => t = u
    /\ \A i, j \in DOMAIN failures : failures[i].peer = failures[j].peer => i = j
    /\ \A t \in server_tasks, i \in DOMAIN failures : t.peer # failures[i].peer
    /\ \A t \in server_tasks \cup Range(failures) : t.peer \in DOMAIN connections
    /\ \A p \in DOMAIN connections :
          LET c == [peer |-> p, session |-> connections[p].session]
          IN  ~connections[p].is_initiator =>
                  c \in server_tasks \/ c \in Range(failures) \/ c \in delivered

(***************************************************************************)
(* A passive holepunch in flight is indexed by its peer and the only one   *)
(* of that peer, and something is coming that will end it: its abort timer *)
(* runs or its Abort is in the channel.  A timer that runs belongs to an   *)
(* entry in flight.  So it stays over handshakes that replace each other,  *)
(* punches and aborts (commit_passive_holepunch,                           *)
(* handle_passive_holepunch_event).                                        *)
(***************************************************************************)
InFlightIsTracked ==
    /\ \A id \in DOMAIN connects :
          /\ connects[id].peer \in DOMAIN pending_handshakes
          /\ pending_handshakes[connects[id].peer] = id
          /\ id \in timers \/ [kind |-> "Abort", id |-> id] \in Range(hp_events)
    /\ \A p \in DOMAIN pending_handshakes : pending_handshakes[p] \in DOMAIN connects
    /\ timers \cup hooks \subseteq DOMAIN connects

(***************************************************************************)
(* Every copy of a client's message gets the reply of one session that we  *)
(* go on with, unless that reply expired or was evicted: the client may    *)
(* act on whichever copy's reply comes first (HandshakeReplyCache).        *)
(***************************************************************************)
CopiesAgree ==
    \A m \in Noise \ forgotten : \A s, t \in answered[m] \cap accepted : s = t

(***************************************************************************)
(* No incoming connection takes a slot beyond max_peers, not even a punch  *)
(* that was staged while there was room (handle_server_handshake,          *)
(* handle_passive_holepunch_event).                                        *)
(***************************************************************************)
IncomingKeepsLimit ==
    [][\A p \in DOMAIN connections' :
          ~connections'[p].is_initiator /\ p \notin DOMAIN connections
              => Cardinality(DOMAIN connections') <= MaxPeers]_vars

(***************************************************************************)
(* A queued peer is dialled as long as some topic stays joined, also when  *)
(* a result was deduplicated and did not start the next dial.              *)
(***************************************************************************)
QueuedIsDialled ==
    \A p \in Peer : p \in Queued ~> (p \notin Queued \/ DOMAIN topics = {})

(***************************************************************************)
(* A flush is answered as long as some topic stays joined, whatever the    *)
(* mode of the topics and however their announces and lookups end          *)
(* (do_refresh, check_flush_waiters).                                      *)
(***************************************************************************)
FlushIsAnswered == flush_waiters > 0 ~> (flush_waiters = 0 \/ DOMAIN topics = {})

=============================================================================
