----------------------------- MODULE SwarmProofs -----------------------------
(***************************************************************************)
(* Proofs about the swarm actor for every set of peers, topics and Noise   *)
(* messages and every limit: each safety property of Swarm follows from an *)
(* inductive invariant of the few variables it speaks of.                  *)
(***************************************************************************)
EXTENDS Swarm, FiniteSetTheorems, TLAPS

----------------------------------------------------------------------------
(* The inductive invariants.                                               *)

\* The discovery tasks, and the entry of a joined topic.
Task == [topic : Topic, server : BOOLEAN, client : BOOLEAN,
         phase : {"refreshing", "sleeping", "ended"}, cancelled : BOOLEAN]
Entry == [server : BOOLEAN, refreshed : BOOLEAN, task : Nat]

\* Topics and tasks have their types, and a topic's task is one of the tasks.
TopicsInv ==
    /\ discovery \in Seq(Task)
    /\ \A t \in DOMAIN topics : topics[t] \in Entry /\ topics[t].task \in DOMAIN discovery
    /\ server_registered \in BOOLEAN
    /\ TopicsAreServed

\* The slot of a connection, as the tasks and their failures name it.
Slot == [peer : Peer, session : Nat]

\* A failure waiting for the actor is a task that ended.
SlotsInv ==
    /\ failures \in Seq(Slot)
    /\ server_tasks \subseteq Slot
    /\ IsFiniteSet(DOMAIN connections)
    /\ SlotsAreReserved

\* A passive holepunch in flight, and the events about it.
Punch == [peer : Peer, session : Nat, puncher : BOOLEAN]
PunchEvent == [kind : {"Punched", "Abort"}, id : Nat]

\* An id is used once, and a peer's place in the index is taken by an entry of that peer.
FlightInv ==
    /\ next_holepunch_id \in Nat
    /\ hp_events \in Seq(PunchEvent)
    /\ \A id \in DOMAIN connects : id \in Nat /\ id < next_holepunch_id
    /\ \A id \in DOMAIN connects : connects[id] \in Punch
    /\ \A p \in DOMAIN pending_handshakes :
          pending_handshakes[p] \in DOMAIN connects /\ connects[pending_handshakes[p]].peer = p
    /\ InFlightIsTracked

\* A message that was not forgotten has its one accepted session in the cache, or none.
CacheInv ==
    /\ next_stream_id \in Nat /\ expired \in Nat /\ expired <= Len(order)
    /\ order \in Seq(Noise) /\ DOMAIN replies = Range(order)
    /\ DOMAIN answered = Noise
    /\ \A s \in accepted : s \in Nat /\ s < next_stream_id
    /\ \A m \in Noise : \A s \in answered[m] : s \in Nat /\ s < next_stream_id
    /\ \A m \in DOMAIN replies : replies[m] \in Nat /\ replies[m] < next_stream_id
    /\ \A m \in Noise \ forgotten :
          answered[m] \cap accepted \subseteq IF m \in DOMAIN replies THEN {replies[m]} ELSE {}

\* The record of a peer has its fields.
IsInfo(r) ==
    /\ DOMAIN r = {"queued", "connecting", "waiting", "topics", "attempts", "priority"}
    /\ r.queued \in BOOLEAN /\ r.connecting \in BOOLEAN
    /\ r.attempts \in Nat /\ r.priority \in Nat

\* Flags, queue, dials and counter fit each other.  A handler's intermediate
\* values fit as well when it comes to attempt_connections.
DialsFit(q, infos, active, ds) ==
    /\ \A p \in DOMAIN infos : IsInfo(infos[p])
    /\ q \in Seq(DOMAIN infos)
    /\ Range(q) = {p \in DOMAIN infos : infos[p].queued}
    /\ \A i, j \in DOMAIN q : q[i] = q[j] => i = j
    /\ \A p \in DOMAIN infos : ~(infos[p].queued /\ infos[p].connecting)
    /\ ds = {p \in DOMAIN infos : infos[p].connecting}
    /\ IsFiniteSet(ds) /\ active = Cardinality(ds) /\ active <= MaxParallel

DialsInv == DialsFit(queue, peers, active_connects, dials)

----------------------------------------------------------------------------
(* What each step can change: the variables come in five groups, and each  *)
(* invariant speaks of one of them (and of the types of others).           *)

topicVars  == <<topics, discovery, server_registered>>
dialVars   == <<peers, queue, active_connects, dials>>
slotVars   == <<connections, server_tasks, failures, delivered>>
flightVars == <<connects, pending_handshakes, next_holepunch_id, timers, hooks, hp_events>>
cacheVars  == <<next_stream_id, replies, order, expired, answered, accepted, forgotten>>

Handshake ==
    \E m \in Noise, server_firewalled, client_open, forwarded, udx, staged \in BOOLEAN :
        AnswerHandshake(m, server_firewalled, client_open, forwarded, udx, staged)

TopicStep ==
    \/ \E t \in Topic, server, client \in BOOLEAN : Join(t, server, client)
    \/ \E t \in Topic : Leave(t)
    \/ Destroy
    \/ \E i \in DOMAIN discovery : RefreshCompletes(i) \/ RefreshAgain(i) \/ DiscoveryEnds(i)
    \/ HandleRefreshComplete
DialStep ==
    \/ \E t \in Topic : Leave(t)
    \/ HandlePeerFound
    \/ HandleRefreshComplete
    \/ \E p \in dials : DialSucceeds(p) \/ DialSucceedsTwice(p) \/ DialFails(p)
SlotStep ==
    \/ \E p \in dials : Client(DialSucceeds(p))
    \/ Handshake
    \/ HandlePunched
    \/ \E task \in server_tasks : ServerConnects(task) \/ ServerFails(task)
    \/ HandleServerFailure
FlightStep ==
    \/ Handshake
    \/ \E id \in DOMAIN connects : PeerHolepunch(id)
    \/ \E id \in hooks : HookFires(id)
    \/ \E id \in timers : AbortTimerFires(id)
    \/ HandlePunched
    \/ HandleAbort
CacheStep ==
    \/ ReplyExpires
    \/ Prune
    \/ \E m \in Noise : AnswerCopy(m)
    \/ Handshake

\* Every step is one of the steps of a group or leaves the group alone.
Frame ==
    /\ TopicStep \/ UNCHANGED topicVars
    /\ DialStep \/ UNCHANGED dialVars
    /\ SlotStep \/ UNCHANGED slotVars
    /\ FlightStep \/ UNCHANGED flightVars
    /\ CacheStep \/ UNCHANGED cacheVars

\* A step of the actor, of a task or of a timer changes only the groups it is listed under.
LEMMA Frames == Next => Frame
  <1> SUFFICES ASSUME Next PROVE Frame
    OBVIOUS
  <1> USE DEF Frame, Client, clientVars, serverVars, topicVars, dialVars, slotVars, flightVars, cacheVars
  <1>1. CASE \E t \in Topic, server, client \in BOOLEAN : Client(Join(t, server, client))
    BY <1>1, ZenonT(60) DEF Join, TopicStep
  <1>2. CASE \E t \in Topic : Client(Leave(t))
    BY <1>2, Zenon DEF Leave, TopicStep, DialStep
  <1>3. CASE Client(Flush)
    BY <1>3, Zenon DEF Flush
  <1>4. CASE Client(Destroy)
    BY <1>4, Zenon DEF Destroy, TopicStep
  <1>5. CASE Client(Accept)
    BY <1>5, Zenon DEF Accept
  <1>6. CASE \E i \in DOMAIN discovery, p \in Peer \cup {Self} : Client(RefreshFinds(i, p))
    BY <1>6, Zenon DEF RefreshFinds
  <1>7. CASE \E i \in DOMAIN discovery : Client(RefreshCompletes(i))
    BY <1>7, Zenon DEF RefreshCompletes, TopicStep
  <1>8. CASE \E i \in DOMAIN discovery : Client(RefreshAgain(i))
    BY <1>8, Zenon DEF RefreshAgain, TopicStep
  <1>9. CASE \E i \in DOMAIN discovery : Client(DiscoveryEnds(i))
    BY <1>9, Zenon DEF DiscoveryEnds, TopicStep
  <1>10. CASE \E r \in retries : Client(RetryFires(r))
    BY <1>10, Zenon DEF RetryFires
  <1>11. CASE Client(HandlePeerFound)
    BY <1>11, Zenon DEF HandlePeerFound, DialStep
  <1>12. CASE Client(HandleRefreshComplete)
    BY <1>12, Zenon DEF HandleRefreshComplete, TopicStep, DialStep
  <1>13. CASE \E p \in dials : Client(DialSucceeds(p))
    BY <1>13, Zenon DEF DialSucceeds, DialStep, SlotStep
  <1>14. CASE \E p \in dials : Client(DialSucceedsTwice(p))
    BY <1>14, Zenon DEF DialSucceedsTwice, DialStep
  <1>15. CASE \E p \in dials : Client(DialFails(p))
    BY <1>15, Zenon DEF DialFails, DialStep
  <1>16. CASE ReplyExpires
    BY <1>16, Zenon DEF ReplyExpires, CacheStep
  <1>17. CASE Prune
    BY <1>17, Zenon DEF Prune, CacheStep
  <1>18. CASE \E m \in Noise : AnswerCopy(m)
    BY <1>18, Zenon DEF AnswerCopy, CacheStep
  <1>19. CASE Handshake
    <2>1. PICK m \in Noise, sf, co, fw, udx, staged \in BOOLEAN :
            AnswerHandshake(m, sf, co, fw, udx, staged)
      BY <1>19, Zenon DEF Handshake
    <2>2. UNCHANGED clientVars
      BY <2>1, Zenon DEF AnswerHandshake
    <2> QED BY <1>19, <2>2, Zenon DEF SlotStep, FlightStep, CacheStep
  <1>20. CASE \E id \in DOMAIN connects : PeerHolepunch(id)
    BY <1>20, Zenon DEF PeerHolepunch, FlightStep
  <1>21. CASE \E id \in hooks : HookFires(id)
    BY <1>21, Zenon DEF HookFires, FlightStep
  <1>22. CASE \E id \in timers : AbortTimerFires(id)
    BY <1>22, Zenon DEF AbortTimerFires, FlightStep
  <1>23. CASE HandlePunched
    BY <1>23, Zenon DEF HandlePunched, FlightStep, SlotStep
  <1>24. CASE HandleAbort
    BY <1>24, Zenon DEF HandleAbort, FlightStep
  <1>25. CASE \E task \in server_tasks : ServerConnects(task)
    BY <1>25, Zenon DEF ServerConnects, SlotStep
  <1>26. CASE \E task \in server_tasks : ServerFails(task)
    BY <1>26, Zenon DEF ServerFails, SlotStep
  <1>27. CASE HandleServerFailure
    BY <1>27, Zenon DEF HandleServerFailure, SlotStep
  <1> QED BY <1>1, <1>2, <1>3, <1>4, <1>5, <1>6, <1>7, <1>8, <1>9, <1>10, <1>11, <1>12, <1>13, <1>14, <1>15, <1>16, <1>17, <1>18, <1>19, <1>20, <1>21, <1>22, <1>23, <1>24, <1>25, <1>26, <1>27, Zenon DEF Next, Handshake

----------------------------------------------------------------------------
(* Topics and their discovery tasks.                                       *)

\* Replacing an element of a sequence.
LEMMA Replaced ==
  ASSUME NEW S, NEW s \in Seq(S), NEW n \in DOMAIN s, NEW v \in S,
         NEW r, r = [s EXCEPT ![n] = v]
  PROVE  /\ r \in Seq(S) /\ DOMAIN r = DOMAIN s /\ r[n] = v
         /\ \A i \in DOMAIN s : i # n => r[i] = s[i]
  OBVIOUS

\* Replacing every element of a sequence.
LEMMA Mapped ==
  ASSUME NEW S, NEW s \in Seq(S), NEW r \in [DOMAIN s -> S]
  PROVE  r \in Seq(S)
  OBVIOUS

\* Cancelling a task, and moving it to another phase, leave the rest of it alone.
LEMMA TaskCancelled ==
  ASSUME NEW task \in Task, NEW c \in BOOLEAN, NEW v, v = [task EXCEPT !.cancelled = c]
  PROVE  v \in Task /\ v.cancelled = c
  BY DEF Task

\* A task that moves to another phase keeps its topic and its cancellation.
LEMMA TaskMoves ==
  ASSUME NEW task \in Task, NEW f \in {"refreshing", "sleeping", "ended"},
         NEW v, v = [task EXCEPT !.phase = f]
  PROVE  v \in Task /\ v.phase = f /\ v.topic = task.topic /\ v.cancelled = task.cancelled
  BY DEF Task

\* do_join gives the new topic the newest task.
LEMMA JoinTopics ==
  ASSUME TopicsInv, NEW t \in Topic, NEW server \in BOOLEAN, NEW client \in BOOLEAN,
         Join(t, server, client)
  PROVE  TopicsInv'
  <1> DEFINE new == [topic |-> t, server |-> server, client |-> client,
                     phase |-> "refreshing", cancelled |-> FALSE]
             n == Len(discovery) + 1
  <1>1. /\ discovery \in Seq(Task) /\ new \in Task /\ n \in Nat
        /\ discovery' = Append(discovery, new)
        /\ t \notin DOMAIN topics
        /\ topics' = Put(topics, t, [server |-> server, refreshed |-> FALSE, task |-> n])
        /\ server_registered' = (server_registered \/ server)
    BY DEF TopicsInv, Join, Registers, Task
  <1> HIDE DEF new
  <1>2. /\ discovery' \in Seq(Task) /\ DOMAIN discovery' = 1 .. n
        /\ \A i \in DOMAIN discovery : i \in 1 .. n /\ i # n /\ discovery'[i] = discovery[i]
        /\ \A i \in 1 .. n : i = n \/ i \in DOMAIN discovery
        /\ n \in 1 .. n /\ discovery'[n] = new
    BY <1>1
  <1> HIDE DEF n
  <1>3. /\ DOMAIN topics' = DOMAIN topics \cup {t}
        /\ topics'[t] = [server |-> server, refreshed |-> FALSE, task |-> n]
        /\ \A u \in DOMAIN topics : u # t /\ topics'[u] = topics[u]
    BY <1>1, Zenon DEF Put
  <1>4. topics'[t] \in Entry /\ topics'[t].task = n /\ topics'[t].server = server
    <2>1. /\ [server |-> server, refreshed |-> FALSE, task |-> n] \in Entry
          /\ [server |-> server, refreshed |-> FALSE, task |-> n].task = n
          /\ [server |-> server, refreshed |-> FALSE, task |-> n].server = server
      BY <1>1 DEF Entry
    <2> QED BY <1>3, <2>1, Zenon
  <1>5. new.topic = t /\ ~new.cancelled /\ new.phase # "ended"
    BY DEF new
  <1>6. \A u \in DOMAIN topics' : topics'[u] \in Entry /\ topics'[u].task \in DOMAIN discovery'
    BY <1>2, <1>3, <1>4, Zenon DEF TopicsInv
  <1>7. ASSUME NEW u \in DOMAIN topics'
        PROVE  /\ discovery'[topics'[u].task].topic = u
               /\ ~discovery'[topics'[u].task].cancelled
               /\ discovery'[topics'[u].task].phase # "ended"
    <2>1. CASE u = t
      BY <1>2, <1>4, <1>5, <2>1, Zenon
    <2>2. CASE u \in DOMAIN topics
      <3>1. /\ topics'[u] = topics[u]
            /\ discovery'[topics[u].task] = discovery[topics[u].task]
        BY <1>2, <1>3, <2>2, Zenon DEF TopicsInv
      <3> QED BY <2>2, <3>1, Zenon DEF TopicsInv, TopicsAreServed
    <2> QED BY <1>3, <2>1, <2>2, Zenon
  <1>8. ASSUME NEW i \in DOMAIN discovery', ~discovery'[i].cancelled
        PROVE  /\ discovery'[i].topic \in DOMAIN topics'
               /\ topics'[discovery'[i].topic].task = i
    <2>1. CASE i = n
      BY <1>2, <1>3, <1>4, <1>5, <2>1, Zenon
    <2>2. CASE i \in DOMAIN discovery
      <3>1. discovery[i].topic \in DOMAIN topics /\ topics[discovery[i].topic].task = i
        BY <1>2, <1>8, <2>2, Zenon DEF TopicsInv, TopicsAreServed
      <3> QED BY <1>2, <1>3, <2>2, <3>1, Zenon
    <2> QED BY <1>2, <2>1, <2>2, Zenon
  <1>9. server_registered' \in BOOLEAN
    BY <1>1 DEF TopicsInv
  <1>10. server_registered' <=> \E u \in DOMAIN topics' : topics'[u].server
    BY <1>1, <1>3, <1>4, Zenon DEF TopicsInv, TopicsAreServed
  <1> QED BY <1>2, <1>6, <1>7, <1>8, <1>9, <1>10, Zenon DEF TopicsInv, TopicsAreServed

\* do_leave stops the task of the topic it takes out, and no other.
LEMMA LeaveTopics ==
  ASSUME TopicsInv, NEW t \in Topic, Leave(t)
  PROVE  TopicsInv'
  <1> DEFINE n == topics[t].task
  <1>1. /\ discovery \in Seq(Task) /\ t \in DOMAIN topics /\ n \in DOMAIN discovery
        /\ topics' = Del(topics, t)
        /\ discovery' = [discovery EXCEPT ![n].cancelled = TRUE]
        /\ server_registered' = StaysRegistered(t)
        /\ discovery[n].topic = t
    BY Zenon DEF TopicsInv, Leave, Cancel, TopicsAreServed
  <1>2. /\ discovery' \in Seq(Task) /\ DOMAIN discovery' = DOMAIN discovery
        /\ discovery'[n].cancelled
        /\ \A i \in DOMAIN discovery : i # n => discovery'[i] = discovery[i]
    <2>1. n \in DOMAIN discovery /\ discovery \in Seq(Task) /\ discovery[n] \in Task
      BY <1>1
    <2> DEFINE v == [discovery[n] EXCEPT !.cancelled = TRUE]
    <2>2. v \in Task /\ v.cancelled
      BY <2>1, TaskCancelled
    <2>3. discovery' = [discovery EXCEPT ![n] = v]
      BY <1>1, Zenon
    <2> HIDE DEF v, n
    <2>4. /\ discovery' \in Seq(Task) /\ DOMAIN discovery' = DOMAIN discovery /\ discovery'[n] = v
          /\ \A i \in DOMAIN discovery : i # n => discovery'[i] = discovery[i]
      BY <2>1, <2>2, <2>3, Replaced
    <2> QED BY <2>2, <2>4, Zenon
  <1>3. /\ DOMAIN topics' = DOMAIN topics \ {t}
        /\ \A u \in DOMAIN topics' : u \in DOMAIN topics /\ u # t /\ topics'[u] = topics[u]
    BY <1>1, Zenon DEF Del
  <1>4. \A u \in DOMAIN topics' : topics[u].task # n
    BY <1>1, <1>3, Zenon DEF TopicsInv, TopicsAreServed
  <1>5. \A u \in DOMAIN topics' : topics'[u] \in Entry /\ topics'[u].task \in DOMAIN discovery'
    BY <1>2, <1>3, Zenon DEF TopicsInv
  <1>6. ASSUME NEW u \in DOMAIN topics'
        PROVE  /\ discovery'[topics'[u].task].topic = u
               /\ ~discovery'[topics'[u].task].cancelled
               /\ discovery'[topics'[u].task].phase # "ended"
    <2>1. u \in DOMAIN topics /\ discovery'[topics'[u].task] = discovery[topics[u].task]
      BY <1>2, <1>3, <1>4, <1>5, Zenon
    <2> QED BY <2>1, Zenon DEF TopicsInv, TopicsAreServed
  <1>7. ASSUME NEW i \in DOMAIN discovery', ~discovery'[i].cancelled
        PROVE  /\ discovery'[i].topic \in DOMAIN topics'
               /\ topics'[discovery'[i].topic].task = i
    <2>1. i # n /\ i \in DOMAIN discovery /\ discovery'[i] = discovery[i]
      BY <1>2, <1>7, Zenon
    <2>2. discovery[i].topic \in DOMAIN topics /\ topics[discovery[i].topic].task = i
      BY <1>7, <2>1, Zenon DEF TopicsInv, TopicsAreServed
    <2>3. discovery[i].topic # t
      BY <2>1, <2>2, Zenon
    <2> QED BY <1>3, <2>1, <2>2, <2>3, Zenon
  <1>8. server_registered' \in BOOLEAN
    BY <1>1 DEF StaysRegistered, TopicsInv
  <1>9. server_registered' <=> \E u \in DOMAIN topics' : topics'[u].server
    BY <1>1, <1>3, Zenon DEF StaysRegistered, TopicsInv, TopicsAreServed
  <1> QED BY <1>2, <1>5, <1>6, <1>7, <1>8, <1>9, Zenon DEF TopicsInv, TopicsAreServed

\* The end of the actor cancels the task of every topic.
LEMMA DestroyTopics ==
  ASSUME TopicsInv, Destroy
  PROVE  TopicsInv'
  <1>1. /\ discovery \in Seq(Task) /\ topics' = << >> /\ server_registered' = FALSE
        /\ discovery' = [i \in DOMAIN discovery |->
               [discovery[i] EXCEPT !.cancelled =
                   @ \/ \E t \in DOMAIN topics : topics[t].task = i]]
    BY Zenon DEF TopicsInv, Destroy
  <1>2. ASSUME NEW i \in DOMAIN discovery
        PROVE  discovery'[i] \in Task /\ discovery'[i].cancelled
    <2> DEFINE c == discovery[i].cancelled \/ \E t \in DOMAIN topics : topics[t].task = i
    <2>1. discovery[i] \in Task
      BY <1>1
    <2>2. c \in BOOLEAN /\ c
      BY Zenon DEF TopicsInv, TopicsAreServed
    <2>3. discovery'[i] = [discovery[i] EXCEPT !.cancelled = c]
      BY <1>1, Zenon
    <2> HIDE DEF c
    <2> QED BY <2>1, <2>2, <2>3, TaskCancelled, Zenon
  <1>3. DOMAIN topics' = {}
    BY <1>1
  <1>4. discovery' \in [DOMAIN discovery -> Task]
    BY <1>1, <1>2, Zenon
  <1>5. discovery' \in Seq(Task) /\ DOMAIN discovery' = DOMAIN discovery
    BY <1>1, <1>4, Mapped
  <1> QED BY <1>1, <1>2, <1>3, <1>5, Zenon DEF TopicsInv, TopicsAreServed

\* A task that goes from phase to phase: it ends only when it was cancelled.
LEMMA PhaseTopics ==
  ASSUME TopicsInv, NEW n \in DOMAIN discovery, NEW f \in {"refreshing", "sleeping", "ended"},
         discovery' = [discovery EXCEPT ![n].phase = f],
         f = "ended" => discovery[n].cancelled,
         UNCHANGED <<topics, server_registered>>
  PROVE  TopicsInv'
  <1> DEFINE v == [discovery[n] EXCEPT !.phase = f]
  <1>1. discovery \in Seq(Task) /\ discovery[n] \in Task
    BY DEF TopicsInv
  <1>2. v \in Task /\ v.phase = f /\ v.topic = discovery[n].topic /\ v.cancelled = discovery[n].cancelled
    BY <1>1, TaskMoves
  <1>3. discovery' = [discovery EXCEPT ![n] = v]
    BY Zenon
  <1> HIDE DEF v
  <1>4. /\ discovery' \in Seq(Task) /\ DOMAIN discovery' = DOMAIN discovery /\ discovery'[n] = v
        /\ \A i \in DOMAIN discovery : i # n => discovery'[i] = discovery[i]
    BY <1>1, <1>2, <1>3, Replaced
  <1>5. \A i \in DOMAIN discovery' :
            /\ discovery'[i].topic = discovery[i].topic
            /\ discovery'[i].cancelled = discovery[i].cancelled
            /\ discovery'[i].phase = "ended" => discovery[i].cancelled \/ discovery[i].phase = "ended"
    BY <1>2, <1>4, Zenon
  <1>6. topics' = topics /\ server_registered' = server_registered
    BY Zenon
  <1>7. \A t \in DOMAIN topics' :
            /\ discovery'[topics'[t].task].topic = t
            /\ ~discovery'[topics'[t].task].cancelled
            /\ discovery'[topics'[t].task].phase # "ended"
    <2> SUFFICES ASSUME NEW t \in DOMAIN topics
                 PROVE  /\ discovery'[topics[t].task].topic = t
                        /\ ~discovery'[topics[t].task].cancelled
                        /\ discovery'[topics[t].task].phase # "ended"
      BY <1>6, Zenon
    <2>1. /\ topics[t].task \in DOMAIN discovery'
          /\ discovery[topics[t].task].topic = t
          /\ ~discovery[topics[t].task].cancelled
          /\ discovery[topics[t].task].phase # "ended"
      BY <1>4, Zenon DEF TopicsInv, TopicsAreServed
    <2> QED BY <1>5, <2>1, Zenon
  <1>8. \A i \in DOMAIN discovery' :
            ~discovery'[i].cancelled =>
                /\ discovery'[i].topic \in DOMAIN topics'
                /\ topics'[discovery'[i].topic].task = i
    BY <1>4, <1>5, <1>6 DEF TopicsInv, TopicsAreServed
  <1> QED BY <1>4, <1>6, <1>7, <1>8 DEF TopicsInv, TopicsAreServed

\* RefreshComplete only marks a topic.
LEMMA RefreshedTopics ==
  ASSUME TopicsInv, HandleRefreshComplete
  PROVE  TopicsInv'
  <1> DEFINE t == Head(events).topic
  <1>1. /\ discovery' = discovery /\ server_registered' = server_registered
        /\ topics' = IF t \in DOMAIN topics THEN [topics EXCEPT ![t].refreshed = TRUE] ELSE topics
    BY Zenon DEF HandleRefreshComplete
  <1> HIDE DEF t
  <1>2. CASE t \notin DOMAIN topics
    <2>1. topics' = topics
      BY <1>1, <1>2, Zenon
    <2> QED BY <1>1, <2>1, Zenon DEF TopicsInv, TopicsAreServed
  <1>3. CASE t \in DOMAIN topics
    <2> DEFINE v == [topics[t] EXCEPT !.refreshed = TRUE]
    <2>1. topics[t] \in Entry
      BY <1>3, Zenon DEF TopicsInv
    <2>2. v \in Entry /\ v.task = topics[t].task /\ v.server = topics[t].server
      BY <2>1 DEF Entry
    <2>3. topics' = [topics EXCEPT ![t] = v]
      BY <1>1, <1>3, Zenon
    <2> HIDE DEF v
    <2>4. /\ DOMAIN topics' = DOMAIN topics
          /\ \A u \in DOMAIN topics : topics'[u] = IF u = t THEN v ELSE topics[u]
      BY <2>3, Zenon
    <2>5. \A u \in DOMAIN topics' :
              /\ topics'[u] \in Entry
              /\ topics'[u].task = topics[u].task /\ topics'[u].server = topics[u].server
      BY <2>2, <2>4, Zenon DEF TopicsInv
    <2> HIDE <2>3
    <2>6. \A u \in DOMAIN topics' : topics'[u] \in Entry /\ topics'[u].task \in DOMAIN discovery'
      BY <1>1, <2>4, <2>5, Zenon DEF TopicsInv
    <2>7. \A u \in DOMAIN topics' :
              /\ discovery'[topics'[u].task].topic = u
              /\ ~discovery'[topics'[u].task].cancelled
              /\ discovery'[topics'[u].task].phase # "ended"
      BY <1>1, <2>4, <2>5 DEF TopicsInv, TopicsAreServed
    <2>8. \A i \in DOMAIN discovery' :
              ~discovery'[i].cancelled =>
                  /\ discovery'[i].topic \in DOMAIN topics'
                  /\ topics'[discovery'[i].topic].task = i
      BY <1>1, <2>4, <2>5 DEF TopicsInv, TopicsAreServed
    <2>9. server_registered' <=> \E u \in DOMAIN topics' : topics'[u].server
      BY <1>1, <2>4, <2>5 DEF TopicsInv, TopicsAreServed
    <2> QED BY <1>1, <2>6, <2>7, <2>8, <2>9, Zenon DEF TopicsInv, TopicsAreServed
  <1> QED BY <1>2, <1>3, Zenon

\* Joined topics and running discovery tasks correspond, over any order of
\* joins, leaves, refreshes and the actor's end (do_join, do_leave, run_discovery).
THEOREM TopicsAlwaysServed == Spec => []TopicsAreServed
  <1>1. Init => TopicsInv
    <2> SUFFICES ASSUME Init PROVE TopicsInv
      OBVIOUS
    <2>1. topics = << >> /\ discovery = << >> /\ server_registered = FALSE
      BY Zenon DEF Init, ClientInit
    <2>2. discovery \in Seq(Task) /\ DOMAIN topics = {} /\ DOMAIN discovery = {}
      BY <2>1
    <2> QED BY <2>1, <2>2, Zenon DEF TopicsInv, TopicsAreServed
  <1>2. TopicsInv /\ [Next]_vars => TopicsInv'
    <2> SUFFICES ASSUME TopicsInv, [Next]_vars PROVE TopicsInv'
      OBVIOUS
    <2>1. CASE UNCHANGED topicVars
      BY <2>1, Zenon DEF topicVars, TopicsInv, TopicsAreServed
    <2>2. CASE TopicStep
      <3>1. CASE \E i \in DOMAIN discovery : RefreshCompletes(i) \/ RefreshAgain(i) \/ DiscoveryEnds(i)
        BY <3>1, PhaseTopics, Zenon DEF RefreshCompletes, RefreshAgain, DiscoveryEnds
      <3> QED
        BY <2>2, <3>1, JoinTopics, LeaveTopics, DestroyTopics, RefreshedTopics, Zenon DEF TopicStep
    <2>3. CASE UNCHANGED vars
      BY <2>1, <2>3, Zenon DEF vars, clientVars, topicVars
    <2> QED BY <2>1, <2>2, <2>3, Frames, Zenon DEF Frame
  <1>3. TopicsInv => TopicsAreServed
    BY Zenon DEF TopicsInv
  <1> QED BY <1>1, <1>2, <1>3, PTL DEF Spec

----------------------------------------------------------------------------
(* Sequences as queues.                                                    *)

\* What Append and Tail do to the elements of a queue and to their places.
LEMMA Appended ==
  ASSUME NEW S, NEW s \in Seq(S), NEW x \in S
  PROVE  /\ Append(s, x) \in Seq(S) /\ Len(Append(s, x)) = Len(s) + 1
         /\ DOMAIN Append(s, x) = 1 .. Len(s) + 1
         /\ Range(Append(s, x)) = Range(s) \cup {x}
         /\ Append(s, x)[Len(s) + 1] = x
         /\ \A i \in DOMAIN s : i # Len(s) + 1 /\ Append(s, x)[i] = s[i]
         /\ \A i \in DOMAIN Append(s, x) : i = Len(s) + 1 \/ i \in DOMAIN s
  BY DEF Range

\* A queue that loses its head keeps the others in their order.
LEMMA Popped ==
  ASSUME NEW S, NEW s \in Seq(S), s # << >>
  PROVE  /\ Tail(s) \in Seq(S) /\ Len(Tail(s)) = Len(s) - 1 /\ 1 \in DOMAIN s
         /\ Head(s) = s[1] /\ Head(s) \in S
         /\ Range(s) = Range(Tail(s)) \cup {Head(s)}
         /\ \A i \in DOMAIN Tail(s) : i + 1 \in DOMAIN s /\ i + 1 # 1 /\ Tail(s)[i] = s[i + 1]
  <1> DEFINE r == Tail(s)
  <1>1. /\ r \in Seq(S) /\ Len(r) = Len(s) - 1 /\ 1 \in DOMAIN s
        /\ Head(s) = s[1] /\ Head(s) \in S
    OBVIOUS
  <1>2. \A i \in DOMAIN r : i + 1 \in DOMAIN s /\ i + 1 # 1 /\ r[i] = s[i + 1]
    OBVIOUS
  <1>3. \A i \in DOMAIN s : i = 1 \/ (i - 1 \in DOMAIN r /\ r[i - 1] = s[i])
    OBVIOUS
  <1> HIDE DEF r
  <1>4. Range(s) \subseteq Range(r) \cup {Head(s)}
    <2> SUFFICES ASSUME NEW i \in DOMAIN s PROVE s[i] \in Range(r) \cup {Head(s)}
      BY Zenon DEF Range
    <2>1. CASE i = 1
      BY <1>1, <2>1, Zenon
    <2>2. CASE i # 1
      BY <1>3, <2>2, Zenon DEF Range
    <2> QED BY <2>1, <2>2, Zenon
  <1>5. Range(r) \cup {Head(s)} \subseteq Range(s)
    BY <1>1, <1>2 DEF Range
  <1> QED BY <1>1, <1>2, <1>4, <1>5, Zenon DEF r

----------------------------------------------------------------------------
(* The slots of incoming connections.                                      *)

\* A slot is reserved for a peer that has none, so no task of the peer is left.
LEMMA ReserveSlots ==
  ASSUME SlotsInv, NEW p \in Peer, NEW s \in Nat, p \notin DOMAIN connections,
         Reserve(p, s), UNCHANGED <<failures, delivered>>
  PROVE  SlotsInv'
  <1> DEFINE new == [peer |-> p, session |-> s]
  <1>1. new \in Slot /\ new.peer = p
    BY DEF Slot
  <1>2. /\ connections' = Put(connections, p, [is_initiator |-> FALSE, session |-> s])
        /\ server_tasks' = server_tasks \cup {new}
        /\ failures' = failures /\ delivered' = delivered
    BY Zenon DEF Reserve
  <1> DEFINE c == [is_initiator |-> FALSE, session |-> s]
  <1>3. /\ DOMAIN connections' = DOMAIN connections \cup {p}
        /\ connections'[p] = c
        /\ \A q \in DOMAIN connections : q # p /\ connections'[q] = connections[q]
    BY <1>2, Zenon DEF Put
  <1>4. connections'[p].session = s
    BY <1>3
  <1> HIDE DEF c
  <1>5. \A t \in server_tasks \cup Range(failures) : t.peer # p
    BY Zenon DEF SlotsInv, SlotsAreReserved
  <1>6. \A i \in DOMAIN failures : failures[i] \in Range(failures)
    BY Zenon DEF Range
  <1>7. \A t, u \in server_tasks' : t.peer = u.peer => t = u
    <2> HIDE DEF new
    <2> QED BY <1>1, <1>2, <1>5, Zenon DEF SlotsInv, SlotsAreReserved
  <1>8. \A t \in server_tasks', i \in DOMAIN failures' : t.peer # failures'[i].peer
    <2> HIDE DEF new
    <2> QED BY <1>1, <1>2, <1>5, <1>6, Zenon DEF SlotsInv, SlotsAreReserved
  <1>9. \A t \in server_tasks' \cup Range(failures)' : t.peer \in DOMAIN connections'
    <2> HIDE DEF new
    <2> QED BY <1>1, <1>2, <1>3, Zenon DEF SlotsInv, SlotsAreReserved
  <1>10. ASSUME NEW q \in DOMAIN connections', ~connections'[q].is_initiator
         PROVE  LET d == [peer |-> q, session |-> connections'[q].session]
                IN  d \in server_tasks' \/ d \in Range(failures)' \/ d \in delivered'
    <2>1. CASE q = p
      BY <1>2, <1>4, <2>1, Zenon
    <2>2. CASE q \in DOMAIN connections
      BY <1>2, <1>3, <1>10, <2>2, Zenon DEF SlotsInv, SlotsAreReserved
    <2> QED BY <1>3, <2>1, <2>2, Zenon
  <1>11. IsFiniteSet(DOMAIN connections')
    BY <1>3, FS_AddElement, Zenon DEF SlotsInv
  <1>12. server_tasks' \subseteq Slot
    BY <1>1, <1>2, Zenon DEF SlotsInv
  <1>13. failures' \in Seq(Slot) /\ (\A i, j \in DOMAIN failures' : failures'[i].peer = failures'[j].peer => i = j)
    BY <1>2, Zenon DEF SlotsInv, SlotsAreReserved
  <1> QED BY <1>7, <1>8, <1>9, <1>10, <1>11, <1>12, <1>13, Zenon DEF SlotsInv, SlotsAreReserved

\* A dial that succeeds takes a slot of its own, or the one of an incoming
\* connection whose task or failure keeps it taken.
LEMMA DialSlots ==
  ASSUME SlotsInv, NEW p, DialSucceeds(p), UNCHANGED <<server_tasks, failures>>
  PROVE  SlotsInv'
  <1> DEFINE c == [is_initiator |-> TRUE, session |-> NoSession]
  <1>1. /\ connections' = Put(connections, p, c)
        /\ delivered \subseteq delivered'
        /\ failures' = failures /\ server_tasks' = server_tasks
    BY Zenon DEF DialSucceeds
  <1>2. c.is_initiator
    OBVIOUS
  <1> HIDE DEF c
  <1>3. /\ DOMAIN connections' = DOMAIN connections \cup {p}
        /\ connections'[p] = c
        /\ \A q \in DOMAIN connections : q # p => connections'[q] = connections[q]
    BY <1>1, Zenon DEF Put
  <1>4. Range(failures)' = Range(failures)
    BY <1>1, Zenon DEF Range
  <1>5. ASSUME NEW q \in DOMAIN connections', ~connections'[q].is_initiator
        PROVE  LET d == [peer |-> q, session |-> connections'[q].session]
               IN  d \in server_tasks' \/ d \in Range(failures)' \/ d \in delivered'
    <2>1. q # p /\ q \in DOMAIN connections /\ connections'[q] = connections[q]
      BY <1>2, <1>3, <1>5, Zenon
    <2> QED BY <1>1, <1>4, <1>5, <2>1, Zenon DEF SlotsInv, SlotsAreReserved
  <1>6. IsFiniteSet(DOMAIN connections')
    BY <1>3, FS_AddElement, Zenon DEF SlotsInv
  <1>7. \A t \in server_tasks' \cup Range(failures)' : t.peer \in DOMAIN connections'
    BY <1>1, <1>3, <1>4, Zenon DEF SlotsInv, SlotsAreReserved
  <1> QED BY <1>1, <1>5, <1>6, <1>7, Zenon DEF SlotsInv, SlotsAreReserved

\* A connection handed over: its task ends, its slot stays taken.
LEMMA ConnectsSlots ==
  ASSUME SlotsInv, NEW task \in server_tasks, ServerConnects(task)
  PROVE  SlotsInv'
  <1>1. /\ connections' = connections /\ failures' = failures
        /\ server_tasks' = server_tasks \ {task} /\ delivered' = delivered \cup {task}
    BY Zenon DEF ServerConnects
  <1>2. Range(failures)' = Range(failures)
    BY <1>1, Zenon DEF Range
  <1>3. \A q \in DOMAIN connections' :
            LET d == [peer |-> q, session |-> connections'[q].session]
            IN  ~connections'[q].is_initiator =>
                    d \in server_tasks' \/ d \in Range(failures)' \/ d \in delivered'
    BY <1>1, <1>2, Zenon DEF SlotsInv, SlotsAreReserved
  <1>4. \A t \in server_tasks' \cup Range(failures)' : t.peer \in DOMAIN connections'
    BY <1>1, <1>2, Zenon DEF SlotsInv, SlotsAreReserved
  <1> QED BY <1>1, <1>3, <1>4, Zenon DEF SlotsInv, SlotsAreReserved

\* A task that fails becomes a failure on its way to the actor.
LEMMA FailsSlots ==
  ASSUME SlotsInv, NEW task \in server_tasks, ServerFails(task)
  PROVE  SlotsInv'
  <1> DEFINE n == Len(failures) + 1
  <1>1. /\ connections' = connections /\ delivered' = delivered
        /\ server_tasks' = server_tasks \ {task} /\ failures' = Append(failures, task)
        /\ failures \in Seq(Slot) /\ task \in Slot
    BY Zenon DEF ServerFails, Reports, SlotsInv
  <1>2. /\ failures' \in Seq(Slot) /\ DOMAIN failures' = 1 .. n
        /\ Range(failures') = Range(failures) \cup {task}
        /\ failures'[n] = task
        /\ \A i \in DOMAIN failures : failures'[i] = failures[i]
        /\ \A i \in DOMAIN failures' : i = n \/ i \in DOMAIN failures
    <2>1. failures \in Seq(Slot) /\ task \in Slot /\ failures' = Append(failures, task)
      BY <1>1, Zenon
    <2> QED BY <2>1, Appended
  <1> HIDE DEF n
  <1>3. \A i \in DOMAIN failures : failures[i].peer # task.peer
    BY Zenon DEF SlotsInv, SlotsAreReserved
  <1>4. ASSUME NEW i \in DOMAIN failures', NEW j \in DOMAIN failures',
               failures'[i].peer = failures'[j].peer
        PROVE  i = j
    <2>1. CASE i = n /\ j = n
      BY <2>1, Zenon
    <2>2. CASE i = n /\ j \in DOMAIN failures
      BY <1>2, <1>3, <1>4, <2>2, Zenon
    <2>3. CASE i \in DOMAIN failures /\ j = n
      BY <1>2, <1>3, <1>4, <2>3, Zenon
    <2>4. CASE i \in DOMAIN failures /\ j \in DOMAIN failures
      BY <1>2, <1>4, <2>4, Zenon DEF SlotsInv, SlotsAreReserved
    <2> QED BY <1>2, <2>1, <2>2, <2>3, <2>4, Zenon
  <1>5. ASSUME NEW t \in server_tasks', NEW i \in DOMAIN failures'
        PROVE  t.peer # failures'[i].peer
    <2>1. t \in server_tasks /\ t # task
      BY <1>1, Zenon
    <2>2. CASE i = n
      BY <1>2, <2>1, <2>2, Zenon DEF SlotsInv, SlotsAreReserved
    <2>3. CASE i \in DOMAIN failures
      BY <1>2, <2>1, <2>3, Zenon DEF SlotsInv, SlotsAreReserved
    <2> QED BY <1>2, <2>2, <2>3, Zenon
  <1>6. \A t \in server_tasks' \cup Range(failures') : t.peer \in DOMAIN connections'
    BY <1>1, <1>2, Zenon DEF SlotsInv, SlotsAreReserved
  <1>7. \A q \in DOMAIN connections' :
            LET d == [peer |-> q, session |-> connections'[q].session]
            IN  ~connections'[q].is_initiator =>
                    d \in server_tasks' \/ d \in Range(failures') \/ d \in delivered'
    BY <1>1, <1>2, Zenon DEF SlotsInv, SlotsAreReserved
  <1>8. \A t, u \in server_tasks' : t.peer = u.peer => t = u
    BY <1>1, Zenon DEF SlotsInv, SlotsAreReserved
  <1>9. IsFiniteSet(DOMAIN connections') /\ server_tasks' \subseteq Slot
    BY <1>1, Zenon DEF SlotsInv
  <1> QED BY <1>2, <1>4, <1>5, <1>6, <1>7, <1>8, <1>9, Zenon DEF SlotsInv, SlotsAreReserved

\* The actor releases the slot of the failure it takes off the channel.
LEMMA ReleaseSlots ==
  ASSUME SlotsInv, HandleServerFailure
  PROVE  SlotsInv'
  <1> DEFINE h == Head(failures)
  <1>1. /\ failures \in Seq(Slot) /\ failures # << >> /\ failures' = Tail(failures)
        /\ connections' = Del(connections, h.peer)
        /\ server_tasks' = server_tasks /\ delivered' = delivered
    BY Zenon DEF HandleServerFailure, SlotsInv
  <1>2. /\ failures' \in Seq(Slot) /\ 1 \in DOMAIN failures /\ h = failures[1] /\ h \in Slot
        /\ Range(failures) = Range(failures') \cup {h}
        /\ \A i \in DOMAIN failures' :
              i + 1 \in DOMAIN failures /\ i + 1 # 1 /\ failures'[i] = failures[i + 1]
    <2>1. failures \in Seq(Slot) /\ failures # << >> /\ failures' = Tail(failures)
      BY <1>1, Zenon
    <2> QED BY <2>1, Popped, Zenon
  <1> HIDE DEF h
  <1>3. /\ DOMAIN connections' = DOMAIN connections \ {h.peer}
        /\ \A q \in DOMAIN connections' :
              q \in DOMAIN connections /\ q # h.peer /\ connections'[q] = connections[q]
    BY <1>1, Zenon DEF Del
  <1>4. \A i, j \in DOMAIN failures' : i + 1 = j + 1 => i = j
    BY <1>2
  <1>5. ASSUME NEW i \in DOMAIN failures', NEW j \in DOMAIN failures',
               failures'[i].peer = failures'[j].peer
        PROVE  i = j
    <2> DEFINE a == i + 1
               b == j + 1
    <2>1. a \in DOMAIN failures /\ b \in DOMAIN failures /\ failures[a].peer = failures[b].peer
      BY <1>2, <1>5, Zenon
    <2> HIDE DEF a, b
    <2>2. a = b
      BY <2>1, Zenon DEF SlotsInv, SlotsAreReserved
    <2> QED BY <1>4, <2>2, Zenon DEF a, b
  <1>6. ASSUME NEW t \in server_tasks', NEW i \in DOMAIN failures'
        PROVE  t.peer # failures'[i].peer
    <2> DEFINE a == i + 1
    <2>1. a \in DOMAIN failures /\ failures'[i] = failures[a] /\ t \in server_tasks
      BY <1>1, <1>2, Zenon
    <2> HIDE DEF a
    <2> QED BY <2>1, Zenon DEF SlotsInv, SlotsAreReserved
  <1>7. \A t \in server_tasks' : t.peer # h.peer
    BY <1>1, <1>2, Zenon DEF SlotsInv, SlotsAreReserved
  <1>8. \A t \in Range(failures') : t.peer # h.peer
    <2> SUFFICES ASSUME NEW i \in DOMAIN failures' PROVE failures'[i].peer # h.peer
      BY Zenon DEF Range
    <2> QED BY <1>2, Zenon DEF SlotsInv, SlotsAreReserved
  <1>9. \A t \in server_tasks' \cup Range(failures') : t.peer \in DOMAIN connections'
    BY <1>1, <1>2, <1>3, <1>7, <1>8, Zenon DEF SlotsInv, SlotsAreReserved
  <1>10. ASSUME NEW q \in DOMAIN connections', ~connections'[q].is_initiator
         PROVE  LET d == [peer |-> q, session |-> connections'[q].session]
                IN  d \in server_tasks' \/ d \in Range(failures') \/ d \in delivered'
    <2> DEFINE d == [peer |-> q, session |-> connections'[q].session]
    <2>1. d.peer = q
      OBVIOUS
    <2>2. d # h
      BY <1>3, <2>1, Zenon
    <2>3. d \in server_tasks \/ d \in Range(failures) \/ d \in delivered
      BY <1>3, <1>10, Zenon DEF SlotsInv, SlotsAreReserved
    <2> QED BY <1>1, <1>2, <2>2, <2>3, Zenon
  <1>11. IsFiniteSet(DOMAIN connections')
    <2>1. IsFiniteSet(DOMAIN connections) /\ DOMAIN connections' \in SUBSET DOMAIN connections
      BY <1>3, Zenon DEF SlotsInv
    <2> QED BY <2>1, FS_Subset, Zenon
  <1>12. (\A t, u \in server_tasks' : t.peer = u.peer => t = u) /\ server_tasks' \subseteq Slot
    BY <1>1, Zenon DEF SlotsInv, SlotsAreReserved
  <1> QED BY <1>2, <1>5, <1>6, <1>9, <1>10, <1>11, <1>12, Zenon DEF SlotsInv, SlotsAreReserved

----------------------------------------------------------------------------
(* handle_server_handshake: what an answer does to each group of variables.*)

\* A fresh handshake commits a session on a path of select_server_path, or is refused;
\* either way it uses up one stream id.
LEMMA HandshakeCases ==
  ASSUME NEW m \in Noise, NEW sf \in BOOLEAN, NEW co \in BOOLEAN, NEW fw \in BOOLEAN,
         NEW udx \in BOOLEAN, NEW staged \in BOOLEAN, AnswerHandshake(m, sf, co, fw, udx, staged)
  PROVE  /\ next_stream_id' = next_stream_id + 1
         /\ UNCHANGED <<failures, delivered, hp_events>>
         /\ \/ /\ Commit(Owner[m], next_stream_id, next_holepunch_id)
               /\ next_holepunch_id' = next_holepunch_id + 1
               /\ UNCHANGED <<connections, server_tasks>>
            \/ /\ UNCHANGED <<pending_handshakes, connects, timers, hooks>>
               /\ next_holepunch_id' \in {next_holepunch_id, next_holepunch_id + 1}
               /\ \/ /\ Reserve(Owner[m], next_stream_id)
                     /\ Owner[m] \notin DOMAIN connections
                     /\ Cardinality(DOMAIN connections) < MaxPeers
                  \/ UNCHANGED <<connections, server_tasks>>
         /\ m \notin Range(Unexpired) /\ expired' = 0
         /\ answered' = [answered EXCEPT ![m] = @ \cup {next_stream_id}]
         /\ \/ InsertReply(m, next_stream_id) /\ accepted' = accepted \cup {next_stream_id}
            \/ PruneOnly /\ accepted' = accepted
  <1> DEFINE path == SelectServerPath(sf, co, fw)
             setup == path = "Holepunch" /\ CanAccept(udx) /\ staged
  <1>1. /\ next_stream_id' = next_stream_id + 1
        /\ UNCHANGED <<failures, delivered, hp_events>>
        /\ m \notin Range(Unexpired) /\ expired' = 0
        /\ answered' = [answered EXCEPT ![m] = @ \cup {next_stream_id}]
        /\ next_holepunch_id' = IF setup \/ path = "DialAdvertised"
                                THEN next_holepunch_id + 1 ELSE next_holepunch_id
        /\ IF Eligible(m, udx) THEN InsertReply(m, next_stream_id) ELSE PruneOnly
        /\ accepted' = IF Eligible(m, udx) THEN accepted \cup {next_stream_id} ELSE accepted
        /\ IF Eligible(m, udx) /\ setup
           THEN /\ Commit(Owner[m], next_stream_id, next_holepunch_id)
                /\ UNCHANGED <<connections, server_tasks>>
           ELSE /\ IF Eligible(m, udx) THEN Reserve(Owner[m], next_stream_id)
                   ELSE UNCHANGED <<connections, server_tasks>>
                /\ UNCHANGED <<pending_handshakes, connects, timers, hooks>>
    BY Zenon DEF AnswerHandshake
  <1> HIDE DEF path, setup
  <1>2. next_holepunch_id' \in {next_holepunch_id, next_holepunch_id + 1}
    BY <1>1, Zenon
  <1>3. CASE Eligible(m, udx) /\ setup
    <2>1. next_holepunch_id' = next_holepunch_id + 1
      BY <1>1, <1>3, Zenon
    <2> QED BY <1>1, <1>3, <2>1, Zenon
  <1>4. CASE Eligible(m, udx) /\ ~setup
    <2>1. Owner[m] \notin DOMAIN connections /\ Cardinality(DOMAIN connections) < MaxPeers
      BY <1>4, Zenon DEF Eligible, CanAccept
    <2> QED BY <1>1, <1>2, <1>4, <2>1, Zenon
  <1>5. CASE ~Eligible(m, udx)
    BY <1>1, <1>2, <1>5, Zenon
  <1> QED BY <1>3, <1>4, <1>5, Zenon

----------------------------------------------------------------------------
(* Passive holepunches in flight.                                          *)

\* commit_passive_holepunch: the new entry replaces the peer's old one.
LEMMA CommitFlight ==
  ASSUME FlightInv, NEW p \in Peer, NEW s \in Nat,
         Commit(p, s, next_holepunch_id), next_holepunch_id' = next_holepunch_id + 1,
         UNCHANGED hp_events
  PROVE  FlightInv'
  <1> DEFINE old == IF p \in DOMAIN pending_handshakes THEN {pending_handshakes[p]} ELSE {}
             id == next_holepunch_id
             new == [peer |-> p, session |-> s, puncher |-> TRUE]
  <1>1. /\ pending_handshakes' = Put(pending_handshakes, p, id)
        /\ connects' = Put(Keep(connects, DOMAIN connects \ old), id, new)
        /\ timers' = (timers \ old) \cup {id}
        /\ hooks' = (hooks \ old) \cup {id}
        /\ hp_events' = hp_events
    BY Zenon DEF Commit
  <1>2. new \in Punch /\ new.peer = p
    BY DEF Punch
  <1>3. /\ id \in Nat /\ next_holepunch_id' \in Nat /\ id < next_holepunch_id' /\ id \notin DOMAIN connects
        /\ \A x \in DOMAIN connects : x \in Nat /\ x < next_holepunch_id'
    <2>1. id \in Nat /\ \A x \in DOMAIN connects : x \in Nat /\ x < id
      BY Zenon DEF FlightInv
    <2> QED BY <2>1
  <1>4. \A x \in DOMAIN connects : x \in old <=> connects[x].peer = p
    BY Zenon DEF FlightInv, InFlightIsTracked
  <1> HIDE DEF old, id, new
  <1>5. /\ DOMAIN connects' = (DOMAIN connects \ old) \cup {id} /\ connects'[id] = new
        /\ \A x \in DOMAIN connects \ old : x # id /\ connects'[x] = connects[x]
    BY <1>1, <1>3, Zenon DEF Put, Keep
  <1>6. /\ DOMAIN pending_handshakes' = DOMAIN pending_handshakes \cup {p}
        /\ pending_handshakes'[p] = id
        /\ \A q \in DOMAIN pending_handshakes : q # p => pending_handshakes'[q] = pending_handshakes[q]
    BY <1>1, Zenon DEF Put
  <1>7. ASSUME NEW x \in DOMAIN connects'
        PROVE  /\ x \in Nat /\ x < next_holepunch_id' /\ connects'[x] \in Punch
               /\ connects'[x].peer \in DOMAIN pending_handshakes'
               /\ pending_handshakes'[connects'[x].peer] = x
               /\ x \in timers' \/ [kind |-> "Abort", id |-> x] \in Range(hp_events')
    <2>1. CASE x = id
      BY <1>1, <1>2, <1>3, <1>5, <1>6, <2>1, Zenon
    <2>2. CASE x \in DOMAIN connects \ old
      <3>1. connects'[x] = connects[x] /\ connects[x].peer # p
        BY <1>4, <1>5, <2>2, Zenon
      <3>2. /\ connects[x].peer \in DOMAIN pending_handshakes
            /\ pending_handshakes[connects[x].peer] = x
            /\ x \in timers \/ [kind |-> "Abort", id |-> x] \in Range(hp_events)
            /\ connects[x] \in Punch
        BY <2>2, Zenon DEF FlightInv, InFlightIsTracked
      <3>3. x \in timers' \/ [kind |-> "Abort", id |-> x] \in Range(hp_events')
        BY <1>1, <2>2, <3>2, Zenon
      <3> QED BY <1>3, <1>6, <2>2, <3>1, <3>2, <3>3, Zenon
    <2> QED BY <1>5, <2>1, <2>2, Zenon
  <1>8. ASSUME NEW q \in DOMAIN pending_handshakes'
        PROVE  /\ pending_handshakes'[q] \in DOMAIN connects'
               /\ connects'[pending_handshakes'[q]].peer = q
    <2>1. CASE q = p
      BY <1>2, <1>5, <1>6, <2>1, Zenon
    <2>2. CASE q \in DOMAIN pending_handshakes /\ q # p
      <3>1. /\ pending_handshakes[q] \in DOMAIN connects
            /\ connects[pending_handshakes[q]].peer = q
        BY <2>2, Zenon DEF FlightInv
      <3>2. pending_handshakes[q] \in DOMAIN connects \ old
        BY <1>4, <2>2, <3>1, Zenon
      <3>3. connects'[pending_handshakes[q]] = connects[pending_handshakes[q]]
        BY <1>5, <3>2, Zenon
      <3> QED BY <1>5, <1>6, <2>2, <3>1, <3>2, <3>3, Zenon
    <2> QED BY <1>6, <2>1, <2>2, Zenon
  <1>9. timers' \cup hooks' \subseteq DOMAIN connects'
    BY <1>1, <1>5, Zenon DEF FlightInv, InFlightIsTracked
  <1>10. hp_events' \in Seq(PunchEvent)
    BY <1>1, Zenon DEF FlightInv
  <1> QED BY <1>3, <1>7, <1>8, <1>9, <1>10, Zenon DEF FlightInv, InFlightIsTracked

\* The entries stay; the end of each is still coming.
LEMMA EventsFlight ==
  ASSUME FlightInv, UNCHANGED <<connects, pending_handshakes>>,
         next_holepunch_id' \in {next_holepunch_id, next_holepunch_id + 1},
         timers' \subseteq timers, hooks' \subseteq hooks, hp_events' \in Seq(PunchEvent),
         \A x \in DOMAIN connects :
             x \in timers \/ [kind |-> "Abort", id |-> x] \in Range(hp_events)
                 => x \in timers' \/ [kind |-> "Abort", id |-> x] \in Range(hp_events')
  PROVE  FlightInv'
  <1>1. /\ next_holepunch_id' \in Nat
        /\ \A x \in DOMAIN connects : x \in Nat /\ x < next_holepunch_id'
    <2>1. next_holepunch_id \in Nat /\ \A x \in DOMAIN connects : x \in Nat /\ x < next_holepunch_id
      BY Zenon DEF FlightInv
    <2> QED BY <2>1
  <1>2. connects' = connects /\ pending_handshakes' = pending_handshakes
    BY Zenon
  <1>3. /\ \A x \in DOMAIN connects : connects[x] \in Punch
        /\ \A x \in DOMAIN connects :
              /\ connects[x].peer \in DOMAIN pending_handshakes
              /\ pending_handshakes[connects[x].peer] = x
              /\ x \in timers' \/ [kind |-> "Abort", id |-> x] \in Range(hp_events')
        /\ \A p \in DOMAIN pending_handshakes :
              pending_handshakes[p] \in DOMAIN connects /\ connects[pending_handshakes[p]].peer = p
        /\ timers' \cup hooks' \subseteq DOMAIN connects
    BY Zenon DEF FlightInv, InFlightIsTracked
  <1> QED BY <1>1, <1>2, <1>3, Zenon DEF FlightInv, InFlightIsTracked

\* An entry is taken out of both maps, and its timer and hook with it.
LEMMA RemovesFlight ==
  ASSUME FlightInv, NEW id \in DOMAIN connects, RemovesEntry(id),
         UNCHANGED next_holepunch_id, hp_events' \in Seq(PunchEvent),
         \A x \in DOMAIN connects \ {id} :
             [kind |-> "Abort", id |-> x] \in Range(hp_events)
                 => [kind |-> "Abort", id |-> x] \in Range(hp_events')
  PROVE  FlightInv'
  <1> DEFINE p == connects[id].peer
  <1>1. /\ connects' = Del(connects, id) /\ pending_handshakes' = Del(pending_handshakes, p)
        /\ timers' = timers \ {id} /\ hooks' = hooks \ {id}
        /\ next_holepunch_id' = next_holepunch_id
    BY Zenon DEF RemovesEntry
  <1>2. \A x \in DOMAIN connects : x = id <=> connects[x].peer = p
    BY Zenon DEF FlightInv, InFlightIsTracked
  <1> HIDE DEF p
  <1>3. /\ DOMAIN connects' = DOMAIN connects \ {id}
        /\ \A x \in DOMAIN connects' : x \in DOMAIN connects /\ x # id /\ connects'[x] = connects[x]
    BY <1>1, Zenon DEF Del
  <1>4. /\ DOMAIN pending_handshakes' = DOMAIN pending_handshakes \ {p}
        /\ \A q \in DOMAIN pending_handshakes' :
              /\ q \in DOMAIN pending_handshakes /\ q # p
              /\ pending_handshakes'[q] = pending_handshakes[q]
    BY <1>1, Zenon DEF Del
  <1>5. ASSUME NEW x \in DOMAIN connects'
        PROVE  /\ x \in Nat /\ x < next_holepunch_id' /\ connects'[x] \in Punch
               /\ connects'[x].peer \in DOMAIN pending_handshakes'
               /\ pending_handshakes'[connects'[x].peer] = x
               /\ x \in timers' \/ [kind |-> "Abort", id |-> x] \in Range(hp_events')
    <2>1. x \in DOMAIN connects /\ x # id /\ connects'[x] = connects[x] /\ connects[x].peer # p
      BY <1>2, <1>3, Zenon
    <2>2. /\ x \in Nat /\ x < next_holepunch_id /\ connects[x] \in Punch
          /\ connects[x].peer \in DOMAIN pending_handshakes
          /\ pending_handshakes[connects[x].peer] = x
          /\ x \in timers \/ [kind |-> "Abort", id |-> x] \in Range(hp_events)
      BY <2>1, Zenon DEF FlightInv, InFlightIsTracked
    <2> QED BY <1>1, <1>4, <2>1, <2>2, Zenon
  <1>6. ASSUME NEW q \in DOMAIN pending_handshakes'
        PROVE  /\ pending_handshakes'[q] \in DOMAIN connects'
               /\ connects'[pending_handshakes'[q]].peer = q
    <2>1. /\ pending_handshakes'[q] = pending_handshakes[q] /\ q # p
          /\ pending_handshakes[q] \in DOMAIN connects
          /\ connects[pending_handshakes[q]].peer = q
      BY <1>4, Zenon DEF FlightInv
    <2> QED BY <1>2, <1>3, <2>1, Zenon
  <1>7. timers' \cup hooks' \subseteq DOMAIN connects'
    BY <1>1, <1>3, Zenon DEF FlightInv, InFlightIsTracked
  <1>8. next_holepunch_id' \in Nat
    BY <1>1, Zenon DEF FlightInv
  <1> QED BY <1>5, <1>6, <1>7, <1>8, Zenon DEF FlightInv, InFlightIsTracked

\* A round of handle_peer_holepunch moves the puncher out of the entry.
LEMMA PeerHolepunchFlight ==
  ASSUME FlightInv, NEW id \in DOMAIN connects, PeerHolepunch(id)
  PROVE  FlightInv'
  <1> DEFINE v == [connects[id] EXCEPT !.puncher = FALSE]
  <1>1. /\ UNCHANGED <<pending_handshakes, next_holepunch_id, timers, hooks, hp_events>>
        /\ connects' = [connects EXCEPT ![id] = v]
    BY Zenon DEF PeerHolepunch
  <1>2. connects[id] \in Punch
    BY Zenon DEF FlightInv
  <1>3. v \in Punch /\ v.peer = connects[id].peer
    BY <1>2 DEF Punch
  <1> HIDE DEF v
  <1>4. /\ DOMAIN connects' = DOMAIN connects
        /\ \A x \in DOMAIN connects : connects'[x] = IF x = id THEN v ELSE connects[x]
    BY <1>1, Zenon
  <1>5. \A x \in DOMAIN connects' : connects'[x] \in Punch /\ connects'[x].peer = connects[x].peer
    BY <1>3, <1>4, Zenon DEF FlightInv
  <1>6. \A x \in DOMAIN connects' :
            /\ x \in Nat /\ x < next_holepunch_id'
            /\ connects'[x].peer \in DOMAIN pending_handshakes'
            /\ pending_handshakes'[connects'[x].peer] = x
            /\ x \in timers' \/ [kind |-> "Abort", id |-> x] \in Range(hp_events')
    <2> SUFFICES ASSUME NEW x \in DOMAIN connects
                 PROVE  /\ x \in Nat /\ x < next_holepunch_id
                        /\ connects'[x].peer \in DOMAIN pending_handshakes
                        /\ pending_handshakes[connects'[x].peer] = x
                        /\ x \in timers \/ [kind |-> "Abort", id |-> x] \in Range(hp_events)
      BY <1>1, <1>4, Zenon
    <2> QED BY <1>4, <1>5, Zenon DEF FlightInv, InFlightIsTracked
  <1>7. \A q \in DOMAIN pending_handshakes' :
            /\ pending_handshakes'[q] \in DOMAIN connects'
            /\ connects'[pending_handshakes'[q]].peer = q
    <2> SUFFICES ASSUME NEW q \in DOMAIN pending_handshakes
                 PROVE  /\ pending_handshakes[q] \in DOMAIN connects'
                        /\ connects'[pending_handshakes[q]].peer = q
      BY <1>1, Zenon
    <2> QED BY <1>4, <1>5, Zenon DEF FlightInv
  <1>8. /\ timers' \cup hooks' \subseteq DOMAIN connects' /\ next_holepunch_id' \in Nat
        /\ hp_events' \in Seq(PunchEvent)
    BY <1>1, <1>4, Zenon DEF FlightInv, InFlightIsTracked
  <1> QED BY <1>5, <1>6, <1>7, <1>8, Zenon DEF FlightInv, InFlightIsTracked

\* Every step that touches the holepunches in flight keeps track of them.
LEMMA FlightSteps ==
  ASSUME FlightInv, next_stream_id \in Nat, FlightStep
  PROVE  FlightInv'
  <1> USE DEF FlightStep
  <1>0. hp_events \in Seq(PunchEvent) /\ timers \cup hooks \subseteq DOMAIN connects
    BY Zenon DEF FlightInv, InFlightIsTracked
  <1>1. CASE Handshake
    <2>1. PICK m \in Noise, sf, co, fw, udx, staged \in BOOLEAN :
            AnswerHandshake(m, sf, co, fw, udx, staged)
      BY <1>1, Zenon DEF Handshake
    <2>2. Owner[m] \in Peer
      BY ServerAssumption
    <2>3. CASE /\ Commit(Owner[m], next_stream_id, next_holepunch_id)
               /\ next_holepunch_id' = next_holepunch_id + 1
      BY <2>1, <2>2, <2>3, HandshakeCases, CommitFlight, ZenonT(60)
    <2>4. CASE /\ UNCHANGED <<pending_handshakes, connects, timers, hooks>>
               /\ next_holepunch_id' \in {next_holepunch_id, next_holepunch_id + 1}
      <3>1. hp_events' = hp_events /\ timers' = timers /\ hooks' = hooks
        BY <2>1, <2>4, HandshakeCases, ZenonT(60)
      <3> QED BY <1>0, <2>4, <3>1, EventsFlight, Zenon
    <2> QED BY <2>1, <2>3, <2>4, HandshakeCases, ZenonT(60)
  <1>2. CASE \E id \in DOMAIN connects : PeerHolepunch(id)
    BY <1>2, PeerHolepunchFlight, Zenon
  <1>3. ASSUME NEW id \in hooks, HookFires(id) PROVE FlightInv'
    <2> DEFINE e == [kind |-> "Punched", id |-> id]
    <2>1. /\ hooks' = hooks \ {id} /\ hp_events' = Append(hp_events, e)
          /\ UNCHANGED <<connects, pending_handshakes, next_holepunch_id, timers>>
      BY <1>3, Zenon DEF HookFires
    <2>2. id \in Nat
      BY <1>0, Zenon DEF FlightInv
    <2>3. e \in PunchEvent
      BY <2>2 DEF PunchEvent
    <2> HIDE DEF e
    <2>4. hp_events' \in Seq(PunchEvent) /\ Range(hp_events') = Range(hp_events) \cup {e}
      BY <1>0, <2>1, <2>3, Appended, Zenon
    <2> QED BY <2>1, <2>4, EventsFlight, Zenon
  <1>4. ASSUME NEW id \in timers, AbortTimerFires(id) PROVE FlightInv'
    <2> DEFINE e == [kind |-> "Abort", id |-> id]
    <2>1. /\ timers' = timers \ {id} /\ hp_events' = Append(hp_events, e)
          /\ UNCHANGED <<connects, pending_handshakes, next_holepunch_id, hooks>>
      BY <1>4, Zenon DEF AbortTimerFires
    <2>2. id \in Nat
      BY <1>0, Zenon DEF FlightInv
    <2>3. e \in PunchEvent
      BY <2>2 DEF PunchEvent
    <2>4. hp_events' \in Seq(PunchEvent) /\ Range(hp_events') = Range(hp_events) \cup {e}
      <3> HIDE DEF e
      <3> QED BY <1>0, <2>1, <2>3, Appended, Zenon
    <2>5. \A x \in DOMAIN connects :
              x \in timers \/ [kind |-> "Abort", id |-> x] \in Range(hp_events)
                  => x \in timers' \/ [kind |-> "Abort", id |-> x] \in Range(hp_events')
      BY <2>1, <2>4, Zenon
    <2> QED BY <2>1, <2>4, <2>5, EventsFlight, Zenon
  <1>5. CASE HandlePunched \/ HandleAbort
    <2> DEFINE h == Head(hp_events)
    <2>1. /\ hp_events # << >> /\ hp_events' = Tail(hp_events) /\ next_holepunch_id' = next_holepunch_id
          /\ IF h.id \in DOMAIN connects THEN RemovesEntry(h.id)
             ELSE UNCHANGED <<connects, pending_handshakes, timers, hooks>>
      BY <1>5, Zenon DEF HandlePunched, HandleAbort, NextHolepunchEvent
    <2>2. /\ hp_events' \in Seq(PunchEvent) /\ Range(hp_events) = Range(hp_events') \cup {h}
      BY <1>0, <2>1, Popped, Zenon
    <2> HIDE DEF h
    <2>3. \A x : x # h.id => [kind |-> "Abort", id |-> x] # h
      OBVIOUS
    <2>4. \A x : x # h.id /\ [kind |-> "Abort", id |-> x] \in Range(hp_events)
              => [kind |-> "Abort", id |-> x] \in Range(hp_events')
      BY <2>2, <2>3, Zenon
    <2>5. CASE h.id \in DOMAIN connects
      BY <2>1, <2>2, <2>4, <2>5, RemovesFlight, Zenon
    <2>6. CASE h.id \notin DOMAIN connects
      <3>1. /\ UNCHANGED <<connects, pending_handshakes>>
            /\ timers' = timers /\ hooks' = hooks
        BY <2>1, <2>6, Zenon
      <3>2. \A x \in DOMAIN connects :
                x \in timers \/ [kind |-> "Abort", id |-> x] \in Range(hp_events)
                    => x \in timers' \/ [kind |-> "Abort", id |-> x] \in Range(hp_events')
        BY <2>4, <2>6, <3>1, Zenon
      <3> QED BY <2>1, <2>2, <3>1, <3>2, EventsFlight, Zenon
    <2> QED BY <2>5, <2>6, Zenon
  <1> QED BY <1>1, <1>2, <1>3, <1>4, <1>5, Zenon

----------------------------------------------------------------------------
(* The cache of replies.                                                   *)

\* A suffix of a sequence holds some of its elements.
LEMMA Suffix ==
  ASSUME NEW S, NEW s \in Seq(S), NEW k \in Nat, k <= Len(s)
  PROVE  From(s, k + 1) \in Seq(S) /\ Range(From(s, k + 1)) \subseteq Range(s)
  <1> DEFINE r == From(s, k + 1)
  <1>1. r \in Seq(S) /\ \A i \in DOMAIN r : i + k \in DOMAIN s /\ r[i] = s[i + k]
    BY DEF From
  <1> HIDE DEF r
  <1>2. ASSUME NEW i \in DOMAIN r PROVE r[i] \in Range(s)
    BY <1>1, Zenon DEF Range
  <1>3. Range(r) \subseteq Range(s)
    BY <1>2, Zenon DEF Range
  <1> QED BY <1>1, <1>3, Zenon DEF r

\* What a prune keeps.
LEMMA UnexpiredFacts ==
  ASSUME CacheInv
  PROVE  Unexpired \in Seq(Noise) /\ Range(Unexpired) \subseteq DOMAIN replies
  <1>1. expired \in Nat /\ expired <= Len(order) /\ order \in Seq(Noise) /\ DOMAIN replies = Range(order)
    BY Zenon DEF CacheInv
  <1> QED BY <1>1, Suffix, Zenon DEF Unexpired

\* Restricting the reply cache to some messages changes none of their replies.
LEMMA KeepFacts ==
  ASSUME NEW keys, keys \subseteq DOMAIN replies
  PROVE  /\ DOMAIN Keep(replies, keys) = keys
         /\ \A k \in keys : Keep(replies, keys)[k] = replies[k]
  BY Zenon DEF Keep

\* The sessions a step may add to those that message n was answered with: a
\* new one, or the one of its cached reply.
MayAnswer(n, s) ==
    \/ s \in answered[n]
    \/ s = next_stream_id /\ s < next_stream_id'
    \/ n \in Range(Unexpired) /\ s = replies[n]

\* A prune forgets what it drops; the sessions answered since then are new.
LEMMA PruneCache ==
  ASSUME CacheInv, PruneOnly, expired' = 0, accepted' = accepted,
         next_stream_id' \in Nat, next_stream_id <= next_stream_id',
         DOMAIN answered' = Noise,
         \A n \in Noise : \A s \in answered'[n] : MayAnswer(n, s)
  PROVE  CacheInv'
  <1>1. /\ order' = Unexpired /\ replies' = Keep(replies, Range(Unexpired))
        /\ forgotten' = forgotten \cup (DOMAIN replies \ DOMAIN replies')
    BY Zenon DEF PruneOnly
  <1>2. order' \in Seq(Noise) /\ Range(order') \subseteq DOMAIN replies
    BY <1>1, UnexpiredFacts, Zenon
  <1>3. DOMAIN replies' = Range(order') /\ \A n \in DOMAIN replies' : replies'[n] = replies[n]
    BY <1>1, <1>2, KeepFacts, Zenon
  <1>4. next_stream_id \in Nat
    BY Zenon DEF CacheInv
  <1>5. \A s : s \in Nat /\ s < next_stream_id => s < next_stream_id'
    BY <1>4
  <1>6. \A s \in accepted' : s \in Nat /\ s < next_stream_id'
    BY <1>5, Zenon DEF CacheInv
  <1>7. \A n \in DOMAIN replies' : replies'[n] \in Nat /\ replies'[n] < next_stream_id'
    BY <1>2, <1>3, <1>5, Zenon DEF CacheInv
  <1>8. ASSUME NEW n \in Noise, NEW s \in answered'[n]
        PROVE  s \in Nat /\ s < next_stream_id'
    <2>1. CASE s \in answered[n]
      BY <1>5, <2>1, Zenon DEF CacheInv
    <2>2. CASE s = next_stream_id /\ s < next_stream_id'
      BY <1>4, <2>2, Zenon
    <2>3. CASE n \in Range(Unexpired) /\ s = replies[n]
      BY <1>1, <1>2, <1>5, <2>3, Zenon DEF CacheInv
    <2> QED BY <2>1, <2>2, <2>3, Zenon DEF MayAnswer
  <1>9. next_stream_id \notin accepted
    <2>1. \A s \in accepted : s \in Nat /\ s < next_stream_id
      BY Zenon DEF CacheInv
    <2> QED BY <1>4, <2>1
  <1>10. ASSUME NEW n \in Noise \ forgotten', NEW s \in answered'[n] \cap accepted'
         PROVE  s \in IF n \in DOMAIN replies' THEN {replies'[n]} ELSE {}
    <2>1. n \in Noise \ forgotten /\ (n \in DOMAIN replies <=> n \in DOMAIN replies')
      BY <1>1, <1>2, <1>3, Zenon
    <2>2. CASE s \in answered[n]
      <3>1. s \in IF n \in DOMAIN replies THEN {replies[n]} ELSE {}
        BY <2>1, <2>2, Zenon DEF CacheInv
      <3> QED BY <1>3, <2>1, <3>1, Zenon
    <2>3. CASE n \in Range(Unexpired) /\ s = replies[n]
      BY <1>1, <1>3, <2>3, Zenon
    <2> QED BY <1>9, <2>2, <2>3, Zenon DEF MayAnswer
  <1>11. expired' \in Nat /\ expired' <= Len(order')
    BY <1>2
  <1> QED BY <1>2, <1>3, <1>6, <1>7, <1>8, <1>10, <1>11, Zenon DEF CacheInv

\* An accepted handshake: its reply is cached, unless the cache holds nothing,
\* and the oldest one may make room for it.
LEMMA InsertCache ==
  ASSUME CacheInv, NEW m \in Noise, m \notin Range(Unexpired), expired' = 0,
         InsertReply(m, next_stream_id), next_stream_id' = next_stream_id + 1,
         accepted' = accepted \cup {next_stream_id},
         answered' = [answered EXCEPT ![m] = @ \cup {next_stream_id}]
  PROVE  CacheInv'
  <1> DEFINE s == next_stream_id
             K == IF CacheCap # 0 /\ Len(Unexpired) >= CacheCap /\ Unexpired # << >>
                  THEN Tail(Unexpired) ELSE Unexpired
  <1>1. K \in Seq(Noise) /\ Range(K) \subseteq DOMAIN replies /\ m \notin Range(K)
    <2>1. CASE K = Unexpired
      BY <2>1, UnexpiredFacts, Zenon
    <2>2. CASE K = Tail(Unexpired) /\ Unexpired # << >>
      BY <2>2, UnexpiredFacts, Popped, Zenon
    <2> QED BY <2>1, <2>2, Zenon
  <1>2. /\ s \in Nat /\ next_stream_id' \in Nat /\ s < next_stream_id'
        /\ \A x : x \in Nat /\ x < s => x < next_stream_id' /\ x # s
    <2>1. s \in Nat
      BY Zenon DEF CacheInv
    <2> QED BY <2>1
  <1>3. /\ DOMAIN answered' = Noise /\ answered'[m] = answered[m] \cup {s}
        /\ \A n \in Noise : n # m => answered'[n] = answered[n]
    BY Zenon DEF CacheInv
  <1>4. /\ order' \in Seq(Noise) /\ DOMAIN replies' = Range(order')
        /\ Range(K) \subseteq Range(order') /\ Range(order') \subseteq Range(K) \cup {m}
        /\ \A n \in Range(K) : replies'[n] = replies[n]
        /\ m \in Range(order') => replies'[m] = s
        /\ m \notin Range(order') => m \in forgotten'
        /\ forgotten \cup (DOMAIN replies \ Range(K)) \subseteq forgotten'
    <2>1. CASE CacheCap = 0
      <3>1. /\ order' = K /\ replies' = Keep(replies, Range(K))
            /\ forgotten' = forgotten \cup (DOMAIN replies \ DOMAIN replies') \cup {m}
        BY <2>1, Zenon DEF InsertReply
      <3> HIDE DEF K, s
      <3>2. DOMAIN replies' = Range(K) /\ \A n \in Range(K) : replies'[n] = replies[n]
        BY <1>1, <3>1, KeepFacts, Zenon
      <3> QED BY <1>1, <3>1, <3>2, Zenon
    <2>2. CASE CacheCap # 0
      <3>1. /\ order' = Append(K, m) /\ replies' = Put(Keep(replies, Range(K)), m, s)
            /\ forgotten' = forgotten \cup (DOMAIN replies \ Range(K))
        BY <2>2, Zenon DEF InsertReply
      <3> HIDE DEF K, s
      <3>2. order' \in Seq(Noise) /\ Range(order') = Range(K) \cup {m}
        BY <1>1, <3>1, Appended, Zenon
      <3> DEFINE f == Keep(replies, Range(K))
      <3>3. DOMAIN f = Range(K) /\ \A n \in Range(K) : f[n] = replies[n]
        BY <1>1, KeepFacts, Zenon
      <3>4. replies' = Put(f, m, s)
        BY <3>1, Zenon
      <3> HIDE DEF f
      <3>5. /\ DOMAIN replies' = Range(K) \cup {m} /\ replies'[m] = s
            /\ \A n \in Range(K) : replies'[n] = replies[n]
        BY <1>1, <3>3, <3>4, Zenon DEF Put
      <3> QED BY <3>1, <3>2, <3>5, Zenon
    <2> QED BY <2>1, <2>2, Zenon
  <1> HIDE DEF K, s
  <1>5. accepted' = accepted \cup {s}
    BY Zenon DEF s
  <1>6. /\ \A x \in accepted : x \in Nat /\ x < s
        /\ \A n \in Noise : \A x \in answered[n] : x \in Nat /\ x < s
        /\ \A n \in DOMAIN replies : replies[n] \in Nat /\ replies[n] < s
    BY Zenon DEF CacheInv, s
  <1>7. \A x \in accepted' : x \in Nat /\ x < next_stream_id'
    BY <1>2, <1>5, <1>6, Zenon
  <1>8. \A n \in Noise : \A x \in answered'[n] : x \in Nat /\ x < next_stream_id'
    BY <1>2, <1>3, <1>6, Zenon
  <1>9. \A n \in DOMAIN replies' : replies'[n] \in Nat /\ replies'[n] < next_stream_id'
    BY <1>1, <1>2, <1>4, <1>6, Zenon
  <1>10. ASSUME NEW n \in Noise \ forgotten', NEW x \in answered'[n] \cap accepted'
         PROVE  x \in IF n \in DOMAIN replies' THEN {replies'[n]} ELSE {}
    <2>1. n \in Noise \ forgotten /\ (n \in DOMAIN replies => n \in Range(K))
      BY <1>4, Zenon
    <2>2. CASE n = m
      <3>1. m \notin DOMAIN replies /\ m \in DOMAIN replies' /\ replies'[m] = s
        BY <1>1, <1>4, <2>1, <2>2, Zenon
      <3>2. x \notin answered[m] \cap accepted
        BY <2>1, <2>2, <3>1, Zenon DEF CacheInv
      <3>3. x = s
        BY <1>2, <1>3, <1>5, <1>6, <2>2, <3>2, Zenon
      <3> QED BY <2>2, <3>1, <3>3, Zenon
    <2>3. CASE n # m
      <3>1. x \in answered[n] \cap accepted
        BY <1>2, <1>3, <1>5, <1>6, <2>3, Zenon
      <3>2. n \in DOMAIN replies /\ x = replies[n]
        BY <2>1, <3>1, Zenon DEF CacheInv
      <3> QED BY <1>4, <2>1, <3>2, Zenon
    <2> QED BY <2>2, <2>3, Zenon
  <1>11. expired' \in Nat /\ expired' <= Len(order')
    BY <1>4
  <1> QED BY <1>2, <1>3, <1>4, <1>7, <1>8, <1>9, <1>10, <1>11, Zenon DEF CacheInv

\* Every step that touches the cache keeps one accepted session per message.
LEMMA CacheSteps ==
  ASSUME CacheInv, CacheStep
  PROVE  CacheInv'
  <1>0. next_stream_id \in Nat /\ DOMAIN answered = Noise
    BY Zenon DEF CacheInv
  <1>1. CASE ReplyExpires
    <2>1. /\ expired < Len(order) /\ expired' = expired + 1
          /\ UNCHANGED <<next_stream_id, replies, order, answered, accepted, forgotten>>
      BY <1>1, Zenon DEF ReplyExpires
    <2>2. expired \in Nat /\ order \in Seq(Noise)
      BY Zenon DEF CacheInv
    <2>3. expired' \in Nat /\ expired' <= Len(order)
      BY <2>1, <2>2
    <2> QED BY <2>1, <2>3, Zenon DEF CacheInv
  <1>2. CASE Prune
    <2>1. /\ PruneOnly /\ expired' = 0 /\ accepted' = accepted
          /\ next_stream_id' = next_stream_id /\ answered' = answered
      BY <1>2, Zenon DEF Prune, PruneOnly
    <2>2. next_stream_id' \in Nat /\ next_stream_id <= next_stream_id'
      BY <1>0, <2>1
    <2>3. DOMAIN answered' = Noise /\ \A n \in Noise : \A s \in answered'[n] : MayAnswer(n, s)
      BY <1>0, <2>1, Zenon DEF MayAnswer
    <2> QED BY <2>1, <2>2, <2>3, PruneCache, Zenon
  <1>3. ASSUME NEW m \in Noise, AnswerCopy(m) PROVE CacheInv'
    <2>1. /\ PruneOnly /\ expired' = 0 /\ accepted' = accepted
          /\ next_stream_id' = next_stream_id /\ m \in Range(Unexpired)
          /\ answered' = [answered EXCEPT ![m] = @ \cup {replies[m]}]
      BY <1>3, Zenon DEF AnswerCopy
    <2>2. next_stream_id' \in Nat /\ next_stream_id <= next_stream_id'
      BY <1>0, <2>1
    <2>3. /\ DOMAIN answered' = Noise
          /\ answered'[m] = answered[m] \cup {replies[m]}
          /\ \A n \in Noise : n # m => answered'[n] = answered[n]
      BY <1>0, <2>1, Zenon
    <2>4. \A n \in Noise : \A s \in answered'[n] : MayAnswer(n, s)
      BY <2>1, <2>3, Zenon DEF MayAnswer
    <2> QED BY <2>1, <2>2, <2>3, <2>4, PruneCache, Zenon
  <1>4. CASE Handshake
    <2>1. PICK m \in Noise, sf, co, fw, udx, staged \in BOOLEAN :
            AnswerHandshake(m, sf, co, fw, udx, staged)
      BY <1>4, Zenon DEF Handshake
    <2>2. /\ next_stream_id' = next_stream_id + 1 /\ m \notin Range(Unexpired) /\ expired' = 0
          /\ answered' = [answered EXCEPT ![m] = @ \cup {next_stream_id}]
          /\ \/ InsertReply(m, next_stream_id) /\ accepted' = accepted \cup {next_stream_id}
             \/ PruneOnly /\ accepted' = accepted
      BY <2>1, HandshakeCases, ZenonT(60)
    <2>3. CASE InsertReply(m, next_stream_id) /\ accepted' = accepted \cup {next_stream_id}
      BY <2>2, <2>3, InsertCache, Zenon
    <2>4. CASE PruneOnly /\ accepted' = accepted
      <3>1. /\ next_stream_id' \in Nat /\ next_stream_id <= next_stream_id'
            /\ next_stream_id < next_stream_id'
        BY <1>0, <2>2
      <3>2. /\ DOMAIN answered' = Noise
            /\ answered'[m] = answered[m] \cup {next_stream_id}
            /\ \A n \in Noise : n # m => answered'[n] = answered[n]
        BY <1>0, <2>2, Zenon
      <3>3. \A n \in Noise : \A s \in answered'[n] : MayAnswer(n, s)
        BY <3>1, <3>2, Zenon DEF MayAnswer
      <3> QED BY <2>2, <2>4, <3>1, <3>2, <3>3, PruneCache, Zenon
    <2> QED BY <2>2, <2>3, <2>4, Zenon
  <1> QED BY <1>1, <1>2, <1>3, <1>4, Zenon DEF CacheStep

----------------------------------------------------------------------------
(* The incoming half: its invariants hold together, as a slot's type comes *)
(* from the punch that landed, and a punch's from the handshake.           *)

ServerInv == SlotsInv /\ FlightInv /\ CacheInv

\* Every step that touches the slots leaves each one with its task, failure or connection.
LEMMA SlotSteps ==
  ASSUME ServerInv, SlotStep
  PROVE  SlotsInv'
  <1>0. SlotsInv /\ FlightInv /\ next_stream_id \in Nat
    BY Zenon DEF ServerInv, CacheInv
  <1>1. CASE \E p \in dials : Client(DialSucceeds(p))
    BY <1>0, <1>1, DialSlots, Zenon DEF Client, serverVars
  <1>2. CASE Handshake
    <2>1. PICK m \in Noise, sf, co, fw, udx, staged \in BOOLEAN :
            AnswerHandshake(m, sf, co, fw, udx, staged)
      BY <1>2, Zenon DEF Handshake
    <2>2. Owner[m] \in Peer
      BY ServerAssumption
    <2>3. UNCHANGED <<failures, delivered>>
      BY <2>1, HandshakeCases, ZenonT(60)
    <2>4. CASE Reserve(Owner[m], next_stream_id) /\ Owner[m] \notin DOMAIN connections
      BY <1>0, <2>2, <2>3, <2>4, ReserveSlots, Zenon
    <2>5. CASE UNCHANGED <<connections, server_tasks>>
      BY <1>0, <2>3, <2>5, Zenon DEF SlotsInv, SlotsAreReserved, Range
    <2> QED BY <2>1, <2>4, <2>5, HandshakeCases, ZenonT(60)
  <1>3. CASE HandlePunched
    <2> DEFINE id == Head(hp_events).id
    <2>1. /\ UNCHANGED <<failures, delivered>>
          /\ IF id \in DOMAIN connects THEN PunchedConnects(id)
             ELSE UNCHANGED <<connections, server_tasks>>
      BY <1>3, Zenon DEF HandlePunched
    <2> HIDE DEF id
    <2>2. CASE UNCHANGED <<connections, server_tasks>>
      BY <1>0, <2>1, <2>2, Zenon DEF SlotsInv, SlotsAreReserved, Range
    <2>3. CASE /\ id \in DOMAIN connects /\ connects[id].peer \notin DOMAIN connections
               /\ Reserve(connects[id].peer, connects[id].session)
      <3>1. connects[id] \in Punch
        BY <1>0, <2>3, Zenon DEF FlightInv
      <3>2. connects[id].peer \in Peer /\ connects[id].session \in Nat
        BY <3>1 DEF Punch
      <3> QED BY <1>0, <2>1, <2>3, <3>2, ReserveSlots, Zenon
    <2> QED BY <2>1, <2>2, <2>3, Zenon DEF PunchedConnects
  <1>4. CASE \E task \in server_tasks : ServerConnects(task)
    BY <1>0, <1>4, ConnectsSlots, Zenon
  <1>5. CASE \E task \in server_tasks : ServerFails(task)
    BY <1>0, <1>5, FailsSlots, Zenon
  <1>6. CASE HandleServerFailure
    BY <1>0, <1>6, ReleaseSlots, Zenon
  <1> QED BY <1>1, <1>2, <1>3, <1>4, <1>5, <1>6, Zenon DEF SlotStep

\* The invariants of the incoming half hold in every reachable state.
THEOREM ServerInvariance == Spec => []ServerInv
  <1>1. Init => ServerInv
    <2> SUFFICES ASSUME Init PROVE ServerInv
      OBVIOUS
    <2>1. /\ connections = << >> /\ server_tasks = {} /\ failures = << >> /\ connects = << >>
          /\ pending_handshakes = << >> /\ hp_events = << >> /\ order = << >> /\ replies = << >>
          /\ timers = {} /\ hooks = {} /\ accepted = {} /\ answered = [m \in Noise |-> {}]
          /\ next_stream_id = 1 /\ next_holepunch_id = 0 /\ expired = 0
      BY Zenon DEF Init, ClientInit, ServerInit
    <2>2. /\ DOMAIN connections = {} /\ DOMAIN connects = {} /\ DOMAIN pending_handshakes = {}
          /\ DOMAIN failures = {} /\ DOMAIN replies = {} /\ DOMAIN order = {}
          /\ failures \in Seq(Slot) /\ hp_events \in Seq(PunchEvent) /\ order \in Seq(Noise)
          /\ Len(order) = 0
      BY <2>1
    <2>3. Range(failures) = {} /\ Range(order) = {}
      BY <2>2, Zenon DEF Range
    <2>4. SlotsInv
      BY <2>1, <2>2, <2>3, FS_EmptySet, Zenon DEF SlotsInv, SlotsAreReserved
    <2>5. next_stream_id \in Nat /\ next_holepunch_id \in Nat /\ expired \in Nat /\ expired <= Len(order)
      BY <2>1, <2>2
    <2>6. FlightInv
      BY <2>1, <2>2, <2>5, Zenon DEF FlightInv, InFlightIsTracked
    <2>7. CacheInv
      BY <2>1, <2>2, <2>3, <2>5, Zenon DEF CacheInv
    <2> QED BY <2>4, <2>6, <2>7, Zenon DEF ServerInv
  <1>2. ServerInv /\ [Next]_vars => ServerInv'
    <2> SUFFICES ASSUME ServerInv, [Next]_vars PROVE ServerInv'
      OBVIOUS
    <2>0. SlotsInv /\ FlightInv /\ CacheInv /\ next_stream_id \in Nat
      BY Zenon DEF ServerInv, CacheInv
    <2>1. /\ SlotStep \/ UNCHANGED slotVars
          /\ FlightStep \/ UNCHANGED flightVars
          /\ CacheStep \/ UNCHANGED cacheVars
      <3>1. CASE Next
        BY <3>1, Frames, Zenon DEF Frame
      <3>2. CASE UNCHANGED vars
        BY <3>2, Zenon DEF vars, serverVars, slotVars, flightVars, cacheVars
      <3> QED BY <3>1, <3>2, Zenon
    <2>2. SlotsInv'
      <3>1. CASE UNCHANGED slotVars
        BY <2>0, <3>1, Zenon DEF slotVars, SlotsInv, SlotsAreReserved, Range
      <3> QED BY <2>1, <3>1, SlotSteps, Zenon
    <2>3. FlightInv'
      <3>1. CASE UNCHANGED flightVars
        BY <2>0, <3>1 DEF flightVars, FlightInv, InFlightIsTracked, Range
      <3> QED BY <2>0, <2>1, <3>1, FlightSteps, Zenon
    <2>4. CacheInv'
      <3>1. CASE UNCHANGED cacheVars
        BY <2>0, <3>1 DEF cacheVars, CacheInv, Range
      <3> QED BY <2>0, <2>1, <3>1, CacheSteps, Zenon
    <2> QED BY <2>2, <2>3, <2>4, Zenon DEF ServerInv
  <1> QED BY <1>1, <1>2, PTL DEF Spec

\* The slot of an incoming connection is reserved and never left behind, however
\* handshakes, punches, dials, finished tasks and failures interleave
\* (handle_server_handshake, server_failure_tx).
THEOREM SlotsAlwaysReserved == Spec => []SlotsAreReserved
  <1>1. ServerInv => SlotsAreReserved
    BY Zenon DEF ServerInv, SlotsInv
  <1> QED BY <1>1, ServerInvariance, PTL

\* A passive holepunch in flight is indexed, the only one of its peer, and its
\* end is coming (commit_passive_holepunch, handle_passive_holepunch_event).
THEOREM InFlightAlwaysTracked == Spec => []InFlightIsTracked
  <1>1. ServerInv => InFlightIsTracked
    BY Zenon DEF ServerInv, FlightInv
  <1> QED BY <1>1, ServerInvariance, PTL

\* Copies of a message are answered for one accepted session, whatever the
\* capacity of the cache and the order of copies, expiry and eviction
\* (HandshakeReplyCache).
THEOREM CopiesAlwaysAgree == Spec => []CopiesAgree
  <1>1. ServerInv => CopiesAgree
    <2> SUFFICES ASSUME CacheInv, NEW m \in Noise \ forgotten,
                        NEW s \in answered[m] \cap accepted, NEW t \in answered[m] \cap accepted
                 PROVE  s = t
      BY Zenon DEF ServerInv, CopiesAgree
    <2>1. answered[m] \cap accepted \subseteq IF m \in DOMAIN replies THEN {replies[m]} ELSE {}
      BY Zenon DEF CacheInv
    <2> QED BY <2>1, Zenon
  <1> QED BY <1>1, ServerInvariance, PTL

\* A slot reserved while there is room keeps the limit.
LEMMA ReserveKeepsLimit ==
  ASSUME IsFiniteSet(DOMAIN connections), Cardinality(DOMAIN connections) < MaxPeers,
         NEW p, NEW s, Reserve(p, s)
  PROVE  Cardinality(DOMAIN connections') <= MaxPeers
  <1>1. DOMAIN connections' = DOMAIN connections \cup {p}
    BY Zenon DEF Reserve, Put
  <1> DEFINE n == Cardinality(DOMAIN connections)
             k == Cardinality(DOMAIN connections')
  <1>2. n \in Nat /\ k = IF p \in DOMAIN connections THEN n ELSE n + 1
    BY <1>1, FS_CardinalityType, FS_AddElement, Zenon
  <1>3. n < MaxPeers /\ MaxPeers \in Nat
    BY SwarmAssumption, Zenon
  <1> HIDE DEF n, k
  <1>4. k <= MaxPeers
    BY <1>2, <1>3
  <1> QED BY <1>4, Zenon DEF k

\* No incoming connection takes a slot beyond max_peers, not even a punch that
\* was staged while there was room (handle_server_handshake,
\* handle_passive_holepunch_event).
THEOREM IncomingAlwaysKeepsLimit == Spec => IncomingKeepsLimit
  <1> DEFINE Keeps == \A p \in DOMAIN connections' :
                 ~connections'[p].is_initiator /\ p \notin DOMAIN connections
                     => Cardinality(DOMAIN connections') <= MaxPeers
  <1>1. ServerInv /\ [Next]_vars => [Keeps]_vars
    <2> SUFFICES ASSUME ServerInv, Next PROVE Keeps
      OBVIOUS
    <2>0. IsFiniteSet(DOMAIN connections)
      BY Zenon DEF ServerInv, SlotsInv
    <2>1. CASE DOMAIN connections' \subseteq DOMAIN connections
      BY <2>1, Zenon
    <2>2. CASE \E p, s : Reserve(p, s) /\ Cardinality(DOMAIN connections) < MaxPeers
      BY <2>0, <2>2, ReserveKeepsLimit, Zenon
    <2>3. ASSUME NEW p, DialSucceeds(p) PROVE Keeps
      <3> DEFINE c == [is_initiator |-> TRUE, session |-> NoSession]
      <3>1. connections' = Put(connections, p, c)
        BY <2>3, Zenon DEF DialSucceeds
      <3>2. c.is_initiator
        OBVIOUS
      <3> HIDE DEF c
      <3>3. DOMAIN connections' = DOMAIN connections \cup {p} /\ connections'[p] = c
        BY <3>1, Zenon DEF Put
      <3> QED BY <3>2, <3>3, Zenon
    <2>4. CASE Handshake
      <3>1. PICK m \in Noise, sf, co, fw, udx, staged \in BOOLEAN :
              AnswerHandshake(m, sf, co, fw, udx, staged)
        BY <2>4, Zenon DEF Handshake
      <3>2. \/ Reserve(Owner[m], next_stream_id) /\ Cardinality(DOMAIN connections) < MaxPeers
            \/ connections' = connections
        BY <3>1, HandshakeCases, Zenon
      <3> QED BY <2>1, <2>2, <3>2, Zenon
    <2>5. CASE HandlePunched
      <3>1. MaxPeers \in Nat /\ Cardinality(DOMAIN connections) \in Nat
        BY <2>0, SwarmAssumption, FS_CardinalityType, Zenon
      <3>2. ~(Cardinality(DOMAIN connections) >= MaxPeers) => Cardinality(DOMAIN connections) < MaxPeers
        BY <3>1
      <3>3. \/ \E p, s : Reserve(p, s) /\ Cardinality(DOMAIN connections) < MaxPeers
            \/ connections' = connections
        BY <2>5, <3>2, Zenon DEF HandlePunched, PunchedConnects
      <3> QED BY <2>1, <2>2, <3>3, Zenon
    <2>6. CASE \E task \in server_tasks : ServerConnects(task) \/ ServerFails(task)
      BY <2>1, <2>6, Zenon DEF ServerConnects, ServerFails
    <2>7. CASE HandleServerFailure
      BY <2>1, <2>7, Zenon DEF HandleServerFailure, Del
    <2>8. CASE UNCHANGED slotVars
      BY <2>1, <2>8, Zenon DEF slotVars
    <2> QED BY <2>3, <2>4, <2>5, <2>6, <2>7, <2>8, Frames, Zenon DEF Frame, SlotStep, Client
  <1> QED BY <1>1, ServerInvariance, PTL DEF Spec, IncomingKeepsLimit

----------------------------------------------------------------------------
(* The dial queue.                                                         *)

\* The stable sort of attempt_connections permutes the queue.
LEMMA SortPermutes ==
  ASSUME NEW infos, NEW q \in Seq(DOMAIN infos), \A p \in DOMAIN infos : IsInfo(infos[p]),
         \A i, j \in DOMAIN q : q[i] = q[j] => i = j,
         NEW s \in Sorted(q, infos)
  PROVE  /\ s \in Seq(DOMAIN infos) /\ Len(s) = Len(q) /\ Range(s) = Range(q)
         /\ \A i, j \in DOMAIN s : s[i] = s[j] => i = j
  <1> DEFINE Precedes(i, j) == \/ infos[q[i]].priority > infos[q[j]].priority
                               \/ infos[q[i]].priority = infos[q[j]].priority /\ i < j
             D == DOMAIN q
  <1>1. PICK f \in [D -> D] : /\ \A i, j \in D : i < j => Precedes(f[i], f[j])
                              /\ s = [i \in D |-> q[f[i]]]
    BY Zenon DEF Sorted
  <1>2. D = 1 .. Len(q) /\ Len(q) \in Nat /\ IsFiniteSet(D)
    BY FS_Interval
  <1>3. \A k \in D : ~Precedes(k, k)
    <2> SUFFICES ASSUME NEW k \in D PROVE ~Precedes(k, k)
      OBVIOUS
    <2>1. infos[q[k]].priority \in Nat /\ k \in Nat
      BY <1>2 DEF IsInfo
    <2> QED BY <2>1
  <1>4. ASSUME NEW i \in D, NEW j \in D, f[i] = f[j] PROVE i = j
    <2>1. ~(i < j) /\ ~(j < i)
      <3> HIDE DEF Precedes
      <3> QED BY <1>1, <1>3, <1>4, Zenon
    <2> QED BY <1>2, <2>1
  <1> HIDE DEF Precedes
  <1>5. f \in Surjection(D, D)
    <2>1. f \in Injection(D, D)
      BY <1>4, Zenon DEF Injection, IsInjective
    <2> QED BY <1>2, <2>1, FS_Injection, Zenon
  <1>6. \A k \in D : \E i \in D : f[i] = k
    BY <1>5, Zenon DEF Surjection
  <1>7. s \in [D -> DOMAIN infos]
    BY <1>1
  <1>8. s \in Seq(DOMAIN infos) /\ Len(s) = Len(q) /\ DOMAIN s = D
    BY <1>2, <1>7
  <1>9. \A i, j \in DOMAIN s : s[i] = s[j] => i = j
    <2> HIDE DEF D
    <2> SUFFICES ASSUME NEW i \in D, NEW j \in D, s[i] = s[j] PROVE i = j
      BY <1>8, Zenon
    <2>1. q[f[i]] = q[f[j]] /\ f[i] \in D /\ f[j] \in D
      BY <1>1, Zenon
    <2> QED BY <1>4, <2>1, Zenon DEF D
  <1>10. \A i \in D : s[i] \in Range(q)
    BY <1>1, Zenon DEF Range
  <1>11. \A k \in D : q[k] \in Range(s)
    <2> SUFFICES ASSUME NEW k \in D PROVE q[k] \in Range(s)
      OBVIOUS
    <2>1. PICK i \in D : f[i] = k
      BY <1>6, Zenon
    <2>2. s[i] = q[k]
      BY <1>1, <2>1, Zenon
    <2> QED BY <1>8, <2>2, Zenon DEF Range
  <1>12. Range(s) = Range(q)
    BY <1>8, <1>10, <1>11, Zenon DEF Range
  <1> QED BY <1>8, <1>9, <1>12, Zenon

\* The first n elements of a sequence, and what is left after them.
Firsts(s, n) == {s[i] : i \in 1 .. n}
Rest(s, n) == [i \in 1 .. Len(s) - n |-> s[i + n]]

\* The first n elements of a sequence without repetitions.
LEMMA FirstElements ==
  ASSUME NEW S, NEW s \in Seq(S), \A i, j \in DOMAIN s : s[i] = s[j] => i = j,
         NEW n \in Nat, n <= Len(s)
  PROVE  /\ IsFiniteSet(Firsts(s, n)) /\ Cardinality(Firsts(s, n)) = n
         /\ Firsts(s, n) \subseteq Range(s)
         /\ Rest(s, n) \in Seq(S) /\ Range(Rest(s, n)) = Range(s) \ Firsts(s, n)
         /\ \A i, j \in DOMAIN Rest(s, n) : Rest(s, n)[i] = Rest(s, n)[j] => i = j
  <1> DEFINE picked == {s[i] : i \in 1 .. n}
             m == Len(s) - n
             rest == [i \in 1 .. m |-> s[i + n]]
  <1>1. /\ m \in Nat /\ \A i \in 1 .. n : i \in DOMAIN s
        /\ \A i \in 1 .. m : i + n \in DOMAIN s /\ i + n \notin 1 .. n
        /\ \A i \in DOMAIN s : i \in 1 .. n \/ (i - n \in 1 .. m /\ (i - n) + n = i)
        /\ \A i, j \in 1 .. m : i + n = j + n => i = j
    OBVIOUS
  <1> DEFINE g == [i \in 1 .. n |-> s[i]]
  <1>2. g \in Bijection(1 .. n, picked)
    <2>1. g \in [1 .. n -> picked] /\ \A k \in picked : \E i \in 1 .. n : g[i] = k
      OBVIOUS
    <2>2. \A i, j \in 1 .. n : g[i] = g[j] => i = j
      BY <1>1, Zenon
    <2> HIDE DEF g, picked
    <2> QED BY <2>1, <2>2, Zenon DEF Bijection, Injection, Surjection, IsInjective
  <1>3. IsFiniteSet(1 .. n) /\ Cardinality(1 .. n) = n
    BY FS_Interval
  <1>4. IsFiniteSet(picked) /\ Cardinality(picked) = n
    BY <1>2, <1>3, FS_Bijection, ZenonT(60) DEF ExistsBijection
  <1>5. picked \subseteq Range(s)
    BY <1>1, Zenon DEF Range
  <1>6. rest \in Seq(S) /\ DOMAIN rest = 1 .. m
    BY <1>1
  <1>7. \A i, j \in DOMAIN rest : rest[i] = rest[j] => i = j
    <2> SUFFICES ASSUME NEW i \in 1 .. m, NEW j \in 1 .. m, rest[i] = rest[j] PROVE i = j
      BY <1>6, Zenon
    <2>1. rest[i] = s[i + n] /\ rest[j] = s[j + n]
      BY Zenon
    <2>2. i + n \in DOMAIN s /\ j + n \in DOMAIN s
      BY <1>1, Zenon
    <2>3. s[i + n] = s[j + n]
      BY <2>1, Zenon
    <2>4. i + n = j + n
      BY <2>2, <2>3, Zenon
    <2> QED BY <1>1, <2>4, Zenon
  <1>8. ASSUME NEW i \in 1 .. m PROVE rest[i] \in Range(s) \ picked
    <2>1. rest[i] = s[i + n] /\ i + n \in DOMAIN s /\ i + n \notin 1 .. n
      BY <1>1, Zenon
    <2> DEFINE a == i + n
    <2> HIDE DEF a, rest
    <2>2. rest[i] = s[a] /\ a \in DOMAIN s /\ a \notin 1 .. n
      BY <2>1, Zenon DEF a
    <2>3. \A j \in 1 .. n : s[a] # s[j]
      BY <1>1, <2>2, Zenon
    <2> QED BY <2>2, <2>3, Zenon DEF Range
  <1>9. \A i \in DOMAIN s : s[i] \in picked \/ s[i] \in Range(rest)
    BY <1>1, <1>6, ZenonT(60) DEF Range
  <1>10. Range(rest) = Range(s) \ picked
    <2> HIDE DEF rest, picked
    <2> QED BY <1>6, <1>8, <1>9, Zenon DEF Range
  <1> QED BY <1>4, <1>5, <1>6, <1>7, <1>10, Zenon DEF Rest, Firsts

\* The record of a peer that is dialled.
LEMMA DialledInfo ==
  ASSUME NEW r, IsInfo(r)
  PROVE  IsInfo(Dialled(r)) /\ ~Dialled(r).queued /\ Dialled(r).connecting
  <1> DEFINE a == IF r.attempts < MaxAttempts THEN r.attempts + 1 ELSE r.attempts
  <1>1. a \in Nat
    BY DEF IsInfo, MaxAttempts
  <1>2. /\ DOMAIN Dialled(r) = DOMAIN r
        /\ Dialled(r).queued = FALSE /\ Dialled(r).connecting = TRUE
        /\ Dialled(r).attempts = a /\ Dialled(r).priority = r.priority
    BY Zenon DEF Dialled, IsInfo
  <1> HIDE DEF a
  <1> QED BY <1>1, <1>2, Zenon DEF IsInfo

\* How many peers are dialled: no more than wait, and no more than there is room for.
LEMMA DialCountFits ==
  ASSUME NEW S, NEW q \in Seq(S), NEW active \in Nat, active <= MaxParallel
  PROVE  /\ DialCount(active, q) \in Nat /\ DialCount(active, q) <= Len(q)
         /\ active + DialCount(active, q) <= MaxParallel
  BY SwarmAssumption DEF DialCount

\* attempt_connections: whatever fits when it starts fits when it ends.
LEMMA AttemptFits ==
  ASSUME NEW q, NEW infos, NEW active, NEW ds,
         DialsFit(q, infos, active, ds), AttemptConnections(q, infos, active, ds)
  PROVE  DialsInv'
  <1> DEFINE n == DialCount(active, q)
  <1>0. /\ q \in Seq(DOMAIN infos) /\ \A p \in DOMAIN infos : IsInfo(infos[p])
        /\ \A i, j \in DOMAIN q : q[i] = q[j] => i = j
        /\ IsFiniteSet(ds) /\ active = Cardinality(ds) /\ active <= MaxParallel
        /\ Range(q) = {p \in DOMAIN infos : infos[p].queued}
        /\ \A p \in DOMAIN infos : ~(infos[p].queued /\ infos[p].connecting)
        /\ ds = {p \in DOMAIN infos : infos[p].connecting}
    BY Zenon DEF DialsFit
  <1>1. active \in Nat
    BY <1>0, FS_CardinalityType, Zenon
  <1>2. n \in Nat /\ n <= Len(q) /\ active + n <= MaxParallel
    BY <1>0, <1>1, DialCountFits, Zenon
  <1>3. PICK s \in (IF n = 0 THEN {q} ELSE Sorted(q, infos)) :
          LET picked == {s[i] : i \in 1 .. n}
          IN  /\ queue' = [i \in 1 .. Len(s) - n |-> s[i + n]]
              /\ peers' = [p \in DOMAIN infos |->
                              IF p \in picked THEN Dialled(infos[p]) ELSE infos[p]]
              /\ active_connects' = active + n
              /\ dials' = ds \cup picked
    BY Zenon DEF AttemptConnections
  <1> HIDE DEF n
  <1>4. /\ s \in Seq(DOMAIN infos) /\ Len(s) = Len(q) /\ Range(s) = Range(q)
        /\ \A i, j \in DOMAIN s : s[i] = s[j] => i = j
    <2>1. CASE s = q
      BY <1>0, <2>1, Zenon
    <2>2. CASE s \in Sorted(q, infos)
      BY <1>0, <2>2, SortPermutes, Zenon
    <2> QED BY <1>3, <2>1, <2>2, Zenon
  <1>5. n <= Len(s)
    BY <1>2, <1>4, Zenon
  <1> DEFINE picked == Firsts(s, n)
  <1>6. /\ IsFiniteSet(picked) /\ Cardinality(picked) = n /\ picked \subseteq Range(q)
        /\ queue' \in Seq(DOMAIN infos) /\ Range(queue') = Range(q) \ picked
        /\ \A i, j \in DOMAIN queue' : queue'[i] = queue'[j] => i = j
    <2> DEFINE rest == Rest(s, n)
    <2>1. /\ IsFiniteSet(picked) /\ Cardinality(picked) = n /\ picked \subseteq Range(s)
          /\ rest \in Seq(DOMAIN infos) /\ Range(rest) = Range(s) \ picked
          /\ \A i, j \in DOMAIN rest : rest[i] = rest[j] => i = j
      BY <1>2, <1>4, <1>5, FirstElements, Zenon
    <2>2. queue' = rest
      BY <1>3, Zenon DEF Rest
    <2> HIDE DEF rest, picked
    <2> QED BY <1>4, <2>1, <2>2, Zenon
  <1>7. /\ DOMAIN peers' = DOMAIN infos
        /\ \A p \in DOMAIN infos : peers'[p] = IF p \in picked THEN Dialled(infos[p]) ELSE infos[p]
        /\ active_connects' = active + n /\ dials' = ds \cup picked
    BY <1>3, Zenon DEF Firsts
  <1> HIDE DEF picked
  <1>8. picked \subseteq DOMAIN infos /\ \A p \in picked : infos[p].queued /\ ~infos[p].connecting
    BY <1>0, <1>6, Zenon
  <1>9. IsFiniteSet(dials') /\ Cardinality(dials') = active + n
    <2>1. ds \cap picked = {}
      BY <1>0, <1>8, Zenon
    <2>2. /\ IsFiniteSet(ds \cup picked)
          /\ Cardinality(ds \cup picked) = Cardinality(ds) + Cardinality(picked) - Cardinality(ds \cap picked)
      BY <1>0, <1>6, FS_Union, Zenon
    <2>3. Cardinality(ds \cap picked) = 0
      BY <2>1, FS_EmptySet, Zenon
    <2>4. active + n - 0 = active + n
      BY <1>1, <1>2
    <2> QED BY <1>0, <1>6, <1>7, <2>2, <2>3, <2>4, Zenon
  <1>10. ASSUME NEW p \in DOMAIN peers'
         PROVE  /\ IsInfo(peers'[p])
                /\ peers'[p].queued <=> infos[p].queued /\ p \notin picked
                /\ peers'[p].connecting <=> infos[p].connecting \/ p \in picked
    <2>1. IsInfo(infos[p])
      BY <1>0, <1>7, Zenon
    <2>2. CASE p \in picked
      BY <1>7, <2>1, <2>2, DialledInfo, Zenon
    <2>3. CASE p \notin picked
      BY <1>7, <2>1, <2>3, Zenon
    <2> QED BY <2>2, <2>3, Zenon
  <1>11. Range(queue') = {p \in DOMAIN peers' : peers'[p].queued}
    BY <1>0, <1>6, <1>7, <1>10, Zenon
  <1>12. dials' = {p \in DOMAIN peers' : peers'[p].connecting}
    BY <1>0, <1>7, <1>8, <1>10, Zenon
  <1>13. \A p \in DOMAIN peers' : ~(peers'[p].queued /\ peers'[p].connecting)
    BY <1>0, <1>7, <1>10, Zenon
  <1>14. queue' \in Seq(DOMAIN peers') /\ active_connects' = Cardinality(dials') /\ active_connects' <= MaxParallel
    BY <1>2, <1>6, <1>7, <1>9, Zenon
  <1> QED BY <1>6, <1>9, <1>10, <1>11, <1>12, <1>13, <1>14, Zenon DEF DialsInv, DialsFit

\* The flags of every peer are as before, but p is no longer connecting.
Ended(infos, p) ==
    /\ DOMAIN infos = DOMAIN peers
    /\ \A x \in DOMAIN peers :
          /\ IsInfo(infos[x])
          /\ infos[x].queued = peers[x].queued
          /\ infos[x].connecting = (peers[x].connecting /\ x # p)

\* A dial that ended is counted no more, and its peer neither waits nor is dialled.
LEMMA EndedFits ==
  ASSUME DialsInv, NEW p \in dials, NEW infos, Ended(infos, p)
  PROVE  DialsFit(queue, infos, OneLessActive, dials \ {p})
  <1>1. /\ queue \in Seq(DOMAIN infos) /\ Range(queue) = {x \in DOMAIN infos : infos[x].queued}
        /\ \A i, j \in DOMAIN queue : queue[i] = queue[j] => i = j
        /\ \A x \in DOMAIN infos : IsInfo(infos[x]) /\ ~(infos[x].queued /\ infos[x].connecting)
        /\ dials \ {p} = {x \in DOMAIN infos : infos[x].connecting}
    BY Zenon DEF DialsInv, DialsFit, Ended
  <1>2. /\ IsFiniteSet(dials) /\ active_connects = Cardinality(dials) /\ active_connects <= MaxParallel
    BY Zenon DEF DialsInv, DialsFit
  <1>3. IsFiniteSet(dials \ {p}) /\ Cardinality(dials \ {p}) = active_connects - 1
    BY <1>2, FS_RemoveElement, Zenon
  <1>4. active_connects \in Nat /\ Cardinality(dials \ {p}) \in Nat
    BY <1>2, <1>3, FS_CardinalityType, Zenon
  <1>5. OneLessActive = Cardinality(dials \ {p}) /\ OneLessActive <= MaxParallel
    BY <1>2, <1>3, <1>4, SwarmAssumption DEF OneLessActive
  <1> QED BY <1>1, <1>3, <1>5, Zenon DEF DialsFit

\* handle_connect_result clears the flag of its peer.
LEMMA NotConnectingEnds ==
  ASSUME DialsInv, NEW p \in dials
  PROVE  Ended(NotConnecting(p), p)
  <1> DEFINE infos == NotConnecting(p)
             v == [peers[p] EXCEPT !.connecting = FALSE]
  <1>1. p \in DOMAIN peers /\ \A x \in DOMAIN peers : IsInfo(peers[x])
    BY Zenon DEF DialsInv, DialsFit
  <1>2. IsInfo(v) /\ v.queued = peers[p].queued /\ v.connecting = FALSE
    BY <1>1, Zenon DEF IsInfo
  <1>3. infos = [peers EXCEPT ![p] = v]
    BY Zenon DEF NotConnecting
  <1> HIDE DEF v, infos
  <1>4. DOMAIN infos = DOMAIN peers /\ \A x \in DOMAIN peers : infos[x] = IF x = p THEN v ELSE peers[x]
    BY <1>3, Zenon
  <1>5. \A x \in DOMAIN peers : peers[x].connecting \in BOOLEAN
    BY <1>1, Zenon DEF IsInfo
  <1>6. ASSUME NEW x \in DOMAIN peers
        PROVE  /\ IsInfo(infos[x]) /\ infos[x].queued = peers[x].queued
               /\ infos[x].connecting = (peers[x].connecting /\ x # p)
    <2>1. CASE x = p
      BY <1>2, <1>4, <2>1, Zenon
    <2>2. CASE x # p
      BY <1>1, <1>4, <1>5, <2>2, Zenon
    <2> QED BY <2>1, <2>2, Zenon
  <1> QED BY <1>4, <1>6, Zenon DEF Ended, infos

\* do_leave rewrites the topics of every record.
LEMMA LeaveDials ==
  ASSUME DialsInv, NEW t, Leave(t)
  PROVE  DialsInv'
  <1>1. /\ peers' = [p \in DOMAIN peers |-> [peers[p] EXCEPT !.topics = Retain(@, t)]]
        /\ queue' = queue /\ active_connects' = active_connects /\ dials' = dials
    BY Zenon DEF Leave
  <1>2. DOMAIN peers' = DOMAIN peers
    BY <1>1, Zenon
  <1>3. \A p \in DOMAIN peers :
            /\ IsInfo(peers'[p]) /\ peers'[p].queued = peers[p].queued
            /\ peers'[p].connecting = peers[p].connecting
    <2> SUFFICES ASSUME NEW p \in DOMAIN peers
                 PROVE  /\ IsInfo(peers'[p]) /\ peers'[p].queued = peers[p].queued
                        /\ peers'[p].connecting = peers[p].connecting
      BY Zenon
    <2>1. IsInfo(peers[p])
      BY Zenon DEF DialsInv, DialsFit
    <2>2. peers'[p] = [peers[p] EXCEPT !.topics = Retain(@, t)]
      BY <1>1, Zenon
    <2> QED BY <2>1, <2>2, Zenon DEF IsInfo
  <1>4. queue \in Seq(DOMAIN peers')
    BY <1>2, Zenon DEF DialsInv, DialsFit
  <1>5. Range(queue) = {p \in DOMAIN peers' : peers'[p].queued}
    BY <1>2, <1>3, Zenon DEF DialsInv, DialsFit
  <1>6. dials = {p \in DOMAIN peers' : peers'[p].connecting}
    BY <1>2, <1>3, Zenon DEF DialsInv, DialsFit
  <1>7. \A p \in DOMAIN peers' : IsInfo(peers'[p]) /\ ~(peers'[p].queued /\ peers'[p].connecting)
    BY <1>2, <1>3, Zenon DEF DialsInv, DialsFit
  <1>8. /\ \A i, j \in DOMAIN queue : queue[i] = queue[j] => i = j
        /\ IsFiniteSet(dials) /\ active_connects = Cardinality(dials) /\ active_connects <= MaxParallel
    BY Zenon DEF DialsInv, DialsFit
  <1> QED BY <1>1, <1>4, <1>5, <1>6, <1>7, <1>8 DEF DialsInv, DialsFit, Range

\* The record of a peer that was found: its flags are those it had, or none.
LEMMA LearnedInfo ==
  ASSUME DialsInv, NEW e
  PROVE  /\ IsInfo(Learned(e))
         /\ Learned(e).queued = (e.peer \in DOMAIN peers /\ peers[e.peer].queued)
         /\ Learned(e).connecting = (e.peer \in DOMAIN peers /\ peers[e.peer].connecting)
  <1> DEFINE base == IF e.peer \in DOMAIN peers THEN peers[e.peer] ELSE NewPeerInfo
             info == [base EXCEPT !.topics = IF e.topic \in Range(@) THEN @ ELSE Append(@, e.topic)]
  <1>1. IsInfo(NewPeerInfo) /\ NewPeerInfo.queued = FALSE /\ NewPeerInfo.connecting = FALSE
    BY DEF IsInfo, NewPeerInfo, get_priority
  <1>2. e.peer \in DOMAIN peers => IsInfo(peers[e.peer])
    BY Zenon DEF DialsInv, DialsFit
  <1>3. /\ IsInfo(base)
        /\ base.queued = (e.peer \in DOMAIN peers /\ peers[e.peer].queued)
        /\ base.connecting = (e.peer \in DOMAIN peers /\ peers[e.peer].connecting)
    BY <1>1, <1>2, Zenon DEF IsInfo
  <1> HIDE DEF base
  <1>4. IsInfo(info) /\ info.queued = base.queued /\ info.connecting = base.connecting
    BY <1>3, Zenon DEF IsInfo
  <1>5. Learned(e) = info
    BY Zenon DEF Learned, base
  <1> QED BY <1>3, <1>4, <1>5, Zenon

\* handle_discovery_event: a peer is queued when it neither waits nor is dialled.
LEMMA FoundDials ==
  ASSUME DialsInv, HandlePeerFound
  PROVE  DialsInv'
  <1> DEFINE e == Head(events)
             p == e.peer
             info == Learned(e)
             new == [info EXCEPT !.queued = TRUE, !.priority = get_priority(info.attempts)]
  <1>1. /\ active_connects' = active_connects /\ dials' = dials
        /\ \/ UNCHANGED <<peers, queue>>
           \/ MayQueue(info) /\ peers' = Put(peers, p, new) /\ queue' = Append(queue, p)
           \/ peers' = Put(peers, p, info) /\ queue' = queue
    BY Zenon DEF HandlePeerFound
  <1>2. /\ IsInfo(info)
        /\ info.queued = (p \in DOMAIN peers /\ peers[p].queued)
        /\ info.connecting = (p \in DOMAIN peers /\ peers[p].connecting)
    BY LearnedInfo, Zenon
  <1>3. IsInfo(new) /\ new.queued = TRUE /\ new.connecting = info.connecting
    <2>1. get_priority(info.attempts) \in Nat
      BY DEF get_priority
    <2> QED BY <1>2, <2>1, Zenon DEF IsInfo
  <1>4. MayQueue(info) => ~info.queued /\ ~info.connecting
    BY Zenon DEF MayQueue
  <1> HIDE DEF e, info, new, p
  <1>5. /\ queue \in Seq(DOMAIN peers) /\ Range(queue) = {x \in DOMAIN peers : peers[x].queued}
        /\ \A i, j \in DOMAIN queue : queue[i] = queue[j] => i = j
        /\ \A x \in DOMAIN peers : IsInfo(peers[x]) /\ ~(peers[x].queued /\ peers[x].connecting)
        /\ dials = {x \in DOMAIN peers : peers[x].connecting}
        /\ IsFiniteSet(dials) /\ active_connects = Cardinality(dials) /\ active_connects <= MaxParallel
    BY Zenon DEF DialsInv, DialsFit
  <1>6. queue \in Seq(DOMAIN peers \cup {p})
    BY <1>5
  <1>7. CASE UNCHANGED <<peers, queue>>
    BY <1>1, <1>7, Zenon DEF DialsInv, DialsFit, Range
  <1>8. CASE MayQueue(info) /\ peers' = Put(peers, p, new) /\ queue' = Append(queue, p)
    <2>1. /\ DOMAIN peers' = DOMAIN peers \cup {p} /\ peers'[p] = new
          /\ \A x \in DOMAIN peers : x # p => peers'[x] = peers[x]
      BY <1>8, Zenon DEF Put
    <2>2. p \notin Range(queue) /\ p \notin dials /\ new.queued /\ ~new.connecting
      BY <1>2, <1>3, <1>4, <1>5, <1>8, Zenon
    <2> DEFINE n == Len(queue) + 1
    <2>3. /\ queue' \in Seq(DOMAIN peers') /\ Range(queue') = Range(queue) \cup {p}
          /\ queue'[n] = p
          /\ \A i \in DOMAIN queue : queue'[i] = queue[i]
          /\ \A i \in DOMAIN queue' : i = n \/ i \in DOMAIN queue
      <3>1. p \in DOMAIN peers \cup {p} /\ queue' = Append(queue, p)
        BY <1>8, Zenon
      <3>2. /\ Append(queue, p) \in Seq(DOMAIN peers \cup {p})
            /\ Range(Append(queue, p)) = Range(queue) \cup {p}
            /\ Append(queue, p)[n] = p
            /\ \A i \in DOMAIN queue : Append(queue, p)[i] = queue[i]
            /\ \A i \in DOMAIN Append(queue, p) : i = n \/ i \in DOMAIN queue
        BY <1>6, <3>1, Appended
      <3> QED BY <2>1, <3>1, <3>2
    <2> HIDE DEF n
    <2>4. ASSUME NEW i \in DOMAIN queue', NEW j \in DOMAIN queue', queue'[i] = queue'[j]
          PROVE  i = j
      <3>1. \A k \in DOMAIN queue : queue[k] # p
        BY <2>2, Zenon DEF Range
      <3> QED BY <1>5, <2>3, <2>4, <3>1, Zenon
    <2>5. Range(queue') = {x \in DOMAIN peers' : peers'[x].queued}
      BY <1>5, <2>1, <2>2, <2>3, Zenon
    <2>6. dials = {x \in DOMAIN peers' : peers'[x].connecting}
      BY <1>5, <2>1, <2>2, Zenon
    <2>7. \A x \in DOMAIN peers' : IsInfo(peers'[x]) /\ ~(peers'[x].queued /\ peers'[x].connecting)
      BY <1>3, <1>5, <2>1, <2>2, Zenon
    <2> QED BY <1>1, <1>5, <2>3, <2>4, <2>5, <2>6, <2>7, Zenon DEF DialsInv, DialsFit
  <1>9. CASE peers' = Put(peers, p, info) /\ queue' = queue
    <2>1. /\ DOMAIN peers' = DOMAIN peers \cup {p} /\ peers'[p] = info
          /\ \A x \in DOMAIN peers : x # p => peers'[x] = peers[x]
      BY <1>9, Zenon DEF Put
    <2>2. Range(queue) = {x \in DOMAIN peers' : peers'[x].queued}
      BY <1>2, <1>5, <2>1, Zenon
    <2>3. dials = {x \in DOMAIN peers' : peers'[x].connecting}
      BY <1>2, <1>5, <2>1, Zenon
    <2>4. \A x \in DOMAIN peers' : IsInfo(peers'[x]) /\ ~(peers'[x].queued /\ peers'[x].connecting)
      BY <1>2, <1>5, <2>1, Zenon
    <2>5. queue \in Seq(DOMAIN peers')
      BY <1>6, <2>1, Zenon
    <2>6. Range(queue') = Range(queue)
      BY <1>9, Zenon
    <2> QED BY <1>1, <1>5, <1>9, <2>2, <2>3, <2>4, <2>5, <2>6 DEF DialsInv, DialsFit
  <1> QED BY <1>1, <1>7, <1>8, <1>9, Zenon

\* Every step that touches the queue and the dials leaves them fitting each other.
LEMMA DialSteps ==
  ASSUME DialsInv, DialStep
  PROVE  DialsInv'
  <1>1. CASE HandleRefreshComplete
    <2>1. AttemptConnections(queue, peers, active_connects, dials)
      BY <1>1, Zenon DEF HandleRefreshComplete
    <2>2. DialsFit(queue, peers, active_connects, dials)
      BY Zenon DEF DialsInv
    <2> QED BY <2>1, <2>2, AttemptFits, Zenon
  <1>2. ASSUME NEW p \in dials, DialSucceeds(p) PROVE DialsInv'
    <2>1. AttemptConnections(queue, NotConnecting(p), OneLessActive, dials \ {p})
      BY <1>2, Zenon DEF DialSucceeds
    <2>2. DialsFit(queue, NotConnecting(p), OneLessActive, dials \ {p})
      BY EndedFits, NotConnectingEnds, Zenon
    <2> QED BY <2>1, <2>2, AttemptFits, Zenon
  <1>3. ASSUME NEW p \in dials, DialFails(p) PROVE DialsInv'
    <2> DEFINE c == NotConnecting(p)
               retry == peers[p].topics # << >>
               v == [c[p] EXCEPT !.waiting = @ \/ retry]
               infos == [c EXCEPT ![p].waiting = @ \/ retry]
    <2>1. AttemptConnections(queue, infos, OneLessActive, dials \ {p})
      BY <1>3, Zenon DEF DialFails
    <2>2. Ended(c, p)
      BY NotConnectingEnds, Zenon
    <2>3. p \in DOMAIN peers
      BY Zenon DEF DialsInv, DialsFit
    <2> HIDE DEF c, retry
    <2>4. IsInfo(v) /\ v.queued = c[p].queued /\ v.connecting = c[p].connecting
      BY <2>2, <2>3, Zenon DEF Ended, IsInfo
    <2>5. infos = [c EXCEPT ![p] = v]
      BY Zenon
    <2> HIDE DEF v, infos
    <2>6. DOMAIN infos = DOMAIN c /\ \A x \in DOMAIN c : infos[x] = IF x = p THEN v ELSE c[x]
      BY <2>5, Zenon
    <2>7. Ended(infos, p)
      BY <2>2, <2>4, <2>6, Zenon DEF Ended
    <2>8. DialsFit(queue, infos, OneLessActive, dials \ {p})
      BY <2>7, EndedFits, Zenon
    <2> QED BY <2>1, <2>8, AttemptFits, Zenon
  <1>4. ASSUME NEW p \in dials, DialSucceedsTwice(p) PROVE DialsInv'
    <2>1. /\ dials' = dials \ {p} /\ active_connects' = OneLessActive
          /\ peers' = NotConnecting(p) /\ queue' = queue
      BY <1>4, Zenon DEF DialSucceedsTwice
    <2>2. DialsFit(queue, NotConnecting(p), OneLessActive, dials \ {p})
      BY EndedFits, NotConnectingEnds, Zenon
    <2>3. DialsFit(queue', peers', active_connects', dials')
      BY <2>1, <2>2, Zenon
    <2> QED BY <2>3, Zenon DEF DialsInv, DialsFit
  <1> QED BY <1>1, <1>2, <1>3, <1>4, LeaveDials, FoundDials, Zenon DEF DialStep

\* `queued` names the peers that wait, each once, `connecting` the dials in
\* flight, the counter is their number and never exceeds max_parallel, for any
\* order of events, results and commands (handle_discovery_event,
\* attempt_connections, handle_connect_result).
THEOREM DialsAlwaysExact == Spec => []DialsAreExact
  <1>1. Init => DialsInv
    <2> SUFFICES ASSUME Init PROVE DialsInv
      OBVIOUS
    <2>1. peers = << >> /\ queue = << >> /\ active_connects = 0 /\ dials = {}
      BY Zenon DEF Init, ClientInit
    <2>2. DOMAIN peers = {} /\ DOMAIN queue = {} /\ queue \in Seq(DOMAIN peers) /\ 0 <= MaxParallel
      BY <2>1, SwarmAssumption
    <2>3. Range(queue) = {}
      BY <2>2, Zenon DEF Range
    <2> QED BY <2>1, <2>2, <2>3, FS_EmptySet, Zenon DEF DialsInv, DialsFit
  <1>2. DialsInv /\ [Next]_vars => DialsInv'
    <2> SUFFICES ASSUME DialsInv, [Next]_vars PROVE DialsInv'
      OBVIOUS
    <2>1. CASE UNCHANGED dialVars
      BY <2>1 DEF dialVars, DialsInv, DialsFit, Range
    <2>2. CASE Next
      BY <2>1, <2>2, Frames, DialSteps, Zenon DEF Frame
    <2>3. CASE UNCHANGED vars
      BY <2>1, <2>3, Zenon DEF vars, clientVars, dialVars
    <2> QED BY <2>2, <2>3, Zenon
  <1>3. DialsInv => DialsAreExact
    BY Zenon DEF DialsInv, DialsFit, DialsAreExact, Queued, Connecting
  <1> QED BY <1>1, <1>2, <1>3, PTL DEF Spec
====
