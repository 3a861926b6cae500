----------------------------- MODULE BlindRelay -----------------------------
(***************************************************************************)
(* The blind relay (blind_relay.rs, relay_service.rs).  Peers hold control *)
(* connections, each with a session of the relay; two sessions that ask    *)
(* for the two sides of one token are matched, and a task of the relay     *)
(* bridges two streams for them until the token is unpaired or one of the  *)
(* sessions ends.  Sessions, bridging tasks and the sweep interleave.      *)
(***************************************************************************)
EXTENDS Naturals, FiniteSets, Sequences, Functions

CONSTANTS
    Conn,           \* control connections; a connection names its session, too
    Asks,           \* sets of messages [conn, kind, token, is_initiator, id]; in a behaviour
                    \* peers send those of one set, each once
    MaxSessions, MaxPairings,       \* BlindRelayServerConfig
    PairingTimeout, IdleTimeout,    \* the same, in steps of time
    MaxAge          \* bound: steps of time

ASSUME RelayAssumption ==
    \A messages \in Asks : \A m \in messages :
        m.conn \in Conn /\ m.kind \in {"pair", "unpair"} /\ m.is_initiator \in BOOLEAN

VARIABLES
    session,        \* connection -> where its session is
    inbox,          \* connection -> messages of its peer the session has not read
    outbox,         \* connection -> SessionOutbound queue
    pairing_count,  \* connection -> BlindRelaySession::pairing_count
    activity,       \* connection -> age of session_activity, while it is in the table
    links,          \* the pairing table: links that wait for their other side
    active_pairings,    \* token -> the active pairing
    session_count, pairings_pending, pairings_active,   \* RelayStats
    tasks,          \* the bridging tasks, in the order of their matches
    streams,        \* ActiveStreamMap: token -> the task whose two streams it holds
    asks, asked,    \* the messages of this behaviour, and those that were sent
    answers,        \* connection -> pair replies the peer has received
    age             \* steps of time so far

relayVars == <<session, inbox, outbox, pairing_count, activity, links, active_pairings,
               session_count, pairings_pending, pairings_active, tasks, streams,
               asks, asked, answers, age>>

RelayInit ==
    /\ session = [c \in Conn |-> "none"]
    /\ inbox = [c \in Conn |-> <<>>] /\ outbox = [c \in Conn |-> <<>>]
    /\ pairing_count = [c \in Conn |-> 0]
    /\ activity = <<>>
    /\ links = {} /\ active_pairings = <<>>
    /\ session_count = 0 /\ pairings_pending = 0 /\ pairings_active = 0
    /\ tasks = <<>> /\ streams = <<>>
    /\ asks \in Asks /\ asked = {}
    /\ answers = [c \in Conn |-> {}]
    /\ age = 0

Without(f, keys) == Restrict(f, DOMAIN f \ keys)
With(f, k, v) == [x \in DOMAIN f \cup {k} |-> IF x = k THEN v ELSE f[x]]

----------------------------------------------------------------------------
(* Sessions begin and end.                                                 *)

\* A control connection was accepted and its channel created.
AcceptSession(c) ==
    /\ session[c] = "none" /\ \E m \in asks : m.conn = c
    /\ IF session_count >= MaxSessions
       THEN /\ session' = [session EXCEPT ![c] = "rejected"]
            /\ UNCHANGED <<activity, session_count>>
       ELSE /\ session' = [session EXCEPT ![c] = "opening"]
            /\ session_count' = session_count + 1
            /\ activity' = With(activity, c, 0)
    /\ UNCHANGED <<inbox, outbox, pairing_count, links, active_pairings, pairings_pending,
                   pairings_active, tasks, streams, asked, answers, age>>

SessionOpens(c) ==
    /\ session[c] = "opening"
    /\ session' = [session EXCEPT ![c] = "open"]
    /\ UNCHANGED <<inbox, outbox, pairing_count, activity, links, active_pairings, session_count,
                   pairings_pending, pairings_active, tasks, streams, asked, answers, age>>

\* The connection is lost before the peer opened its channel: run_relay_session
\* returns and the session's slot is not released.
OpenFails(c) ==
    /\ session[c] = "opening"
    /\ session' = [session EXCEPT ![c] = "dropped"]
    /\ UNCHANGED <<inbox, outbox, pairing_count, activity, links, active_pairings, session_count,
                   pairings_pending, pairings_active, tasks, streams, asked, answers, age>>

\* A task whose teardown_tx is used or dropped may end.
Signalled(owners) == [i \in DOMAIN tasks |-> [tasks[i] EXCEPT !.signalled = @ \/ i \in owners]]

LinksOf(c) == {l \in links : l.conn = c}
PairingsOf(c) == {t \in DOMAIN active_pairings : c \in active_pairings[t].sessions}

\* Entries that lose their last link leave the table and are cancelled.
ReleaseSession(c) ==
    LET gone == LinksOf(c)
        emptied == {l.token : l \in gone} \ {l.token : l \in links \ gone}
    IN  /\ session' = [session EXCEPT ![c] = "released"]
        /\ session_count' = session_count - 1
        /\ activity' = Without(activity, {c})
        /\ links' = links \ gone
        /\ pairings_pending' = pairings_pending - Cardinality(emptied)
        /\ active_pairings' = Without(active_pairings, PairingsOf(c))
        /\ pairings_active' = pairings_active - Cardinality(PairingsOf(c))
        /\ tasks' = Signalled({active_pairings[t].task : t \in PairingsOf(c)})
        /\ outbox' = [outbox EXCEPT ![c] = <<>>] /\ inbox' = [inbox EXCEPT ![c] = <<>>]

----------------------------------------------------------------------------
(* A session's loop: what the server tells it comes before what its peer   *)
(* sends.                                                                  *)

Ask(m) ==
    /\ session[m.conn] = "open" /\ m \notin asked
    /\ asked' = asked \cup {m}
    /\ inbox' = [inbox EXCEPT ![m.conn] = Append(@, m)]
    /\ UNCHANGED <<session, outbox, pairing_count, activity, links, active_pairings, session_count,
                   pairings_pending, pairings_active, tasks, streams, answers, age>>

\* The peer closes its channel or its connection ends.
PeerCloses(c) ==
    /\ session[c] = "open"
    /\ ~ \E i \in DOMAIN inbox[c] : inbox[c][i].kind = "closed"
    /\ inbox' = [inbox EXCEPT ![c] = Append(@, [kind |-> "closed"])]
    /\ UNCHANGED <<session, outbox, pairing_count, activity, links, active_pairings, session_count,
                   pairings_pending, pairings_active, tasks, streams, asked, answers, age>>

\* The peer's stream id is identified with its request.
Link(m) == [conn |-> m.conn, token |-> m.token, is_initiator |-> m.is_initiator, age |-> 0]

\* The link of the token's other side.
Other(l) == {o \in links : o.token = l.token /\ o.is_initiator # l.is_initiator}

Side(l) == [conn |-> l.conn, is_initiator |-> l.is_initiator]
NewTask(token, first, second) ==
    [token |-> token, first |-> first, second |-> second, state |-> "matched", signalled |-> FALSE]

TryPair(c, l) ==
    /\ activity' = With(activity, c, 0)
    /\ \/ /\ \/ pairing_count[c] >= MaxPairings
             \/ \E o \in links : o.token = l.token /\ o.is_initiator = l.is_initiator
          /\ UNCHANGED <<links, tasks, pairing_count, pairings_pending, pairings_active>>
       \/ /\ pairing_count[c] < MaxPairings
          /\ \A o \in links : o.token # l.token
          /\ links' = links \cup {l}
          /\ pairings_pending' = pairings_pending + 1
          /\ pairing_count' = [pairing_count EXCEPT ![c] = @ + 1]
          /\ UNCHANGED <<tasks, pairings_active>>
       \/ /\ pairing_count[c] < MaxPairings
          /\ \A o \in links : o.token = l.token => o.is_initiator # l.is_initiator
          /\ \E o \in Other(l) :
                /\ links' = links \ {o}
                /\ tasks' = Append(tasks, NewTask(l.token, Side(o), Side(l)))
          /\ pairings_pending' = pairings_pending - 1
          /\ pairings_active' = pairings_active + 1
          /\ UNCHANGED pairing_count
    /\ UNCHANGED <<session, session_count, active_pairings>>

OwnLink(c, token) == {l \in links : l.token = token /\ l.conn = c}

UnpairActive(token) ==
    /\ token \in DOMAIN active_pairings
    /\ active_pairings' = Without(active_pairings, {token})
    /\ pairings_active' = pairings_active - 1
    /\ tasks' = Signalled({active_pairings[token].task})

\* A token that waits hides the active pairing of that token.
Unpair(c, token) ==
    /\ activity' = With(activity, c, 0)
    /\ \/ /\ OwnLink(c, token) # {}
          /\ links' = links \ OwnLink(c, token)
          /\ pairings_pending' = pairings_pending - 1
          /\ pairing_count' = [pairing_count EXCEPT ![c] = IF @ = 0 THEN 0 ELSE @ - 1]
          /\ UNCHANGED <<active_pairings, pairings_active, tasks>>
       \/ /\ \A l \in links : l.token # token
          /\ UnpairActive(token)
          /\ UNCHANGED <<links, pairings_pending, pairing_count>>
       \/ /\ OwnLink(c, token) = {}
          /\ (\E l \in links : l.token = token) \/ token \notin DOMAIN active_pairings
          /\ UNCHANGED <<active_pairings, pairings_active, tasks, links, pairings_pending, pairing_count>>
    /\ UNCHANGED <<session, session_count>>

SessionReads(c) ==
    /\ session[c] = "open" /\ outbox[c] = <<>> /\ inbox[c] # <<>>
    /\ LET m == inbox[c][1] IN
          \/ /\ m.kind = "pair" /\ TryPair(c, Link(m))
             /\ inbox' = [inbox EXCEPT ![c] = Tail(@)] /\ UNCHANGED outbox
          \/ /\ m.kind = "unpair" /\ Unpair(c, m.token)
             /\ inbox' = [inbox EXCEPT ![c] = Tail(@)] /\ UNCHANGED outbox
          \/ m.kind = "closed" /\ ReleaseSession(c) /\ UNCHANGED pairing_count
    /\ UNCHANGED <<streams, asked, answers, age>>

\* A pair reply goes out, or the idle sweep ends the session.
SessionTold(c) ==
    /\ session[c] = "open" /\ outbox[c] # <<>>
    /\ LET m == outbox[c][1] IN
          \/ /\ m.kind = "PairMatched"
             /\ answers' = [answers EXCEPT ![c] = @ \cup {m}]
             /\ outbox' = [outbox EXCEPT ![c] = Tail(@)]
             /\ UNCHANGED <<session, session_count, activity, links, pairings_pending,
                            active_pairings, pairings_active, tasks, inbox>>
          \/ m.kind = "Close" /\ ReleaseSession(c) /\ UNCHANGED answers
    /\ UNCHANGED <<pairing_count, streams, asked, age>>

----------------------------------------------------------------------------
(* Bridging: the two streams of task i are <<i, 1>> and <<i, 2>>.          *)

PairMatched(i, token, side, n) ==
    [kind |-> "PairMatched", token |-> token, is_initiator |-> side.is_initiator, stream |-> <<i, n>>]

\* Mutant: the sides get each other's stream.
ToldCrossed(i, t, c) ==
    (IF t.first.conn = c THEN <<PairMatched(i, t.token, t.first, 2)>> ELSE <<>>)
      \o (IF t.second.conn = c THEN <<PairMatched(i, t.token, t.second, 1)>> ELSE <<>>)

Told(i, t, c) ==
    (IF t.first.conn = c THEN <<PairMatched(i, t.token, t.first, 1)>> ELSE <<>>)
      \o (IF t.second.conn = c THEN <<PairMatched(i, t.token, t.second, 2)>> ELSE <<>>)

\* Both streams exist and forward to each other; the sessions that still run
\* are told.
Bridge(i) ==
    /\ tasks[i].state = "matched"
    /\ tasks' = [tasks EXCEPT ![i].state = "bridged"]
    /\ outbox' = [c \in Conn |-> IF session[c] = "open" THEN outbox[c] \o Told(i, tasks[i], c)
                                 ELSE outbox[c]]
    /\ UNCHANGED <<session, inbox, pairing_count, activity, links, active_pairings, session_count,
                   pairings_pending, pairings_active, streams, asked, answers, age>>

BridgeFails(i) ==
    /\ tasks[i].state = "matched"
    /\ tasks' = [tasks EXCEPT ![i].state = "ended"]
    /\ UNCHANGED <<session, inbox, outbox, pairing_count, activity, links, active_pairings,
                   session_count, pairings_pending, pairings_active, streams, asked, answers, age>>

\* A pairing of the same token that was active is replaced, which drops its
\* teardown_tx.
MarkActive(i) ==
    /\ tasks[i].state = "bridged"
    /\ LET token == tasks[i].token
           replaced == IF token \in DOMAIN active_pairings THEN {active_pairings[token].task} ELSE {}
       IN  /\ streams' = With(streams, token, i)
           /\ tasks' = [Signalled(replaced) EXCEPT ![i].state = "active"]
           /\ active_pairings' = With(active_pairings, token,
                  [sessions |-> {tasks[i].first.conn, tasks[i].second.conn}, task |-> i])
    /\ UNCHANGED <<session, inbox, outbox, pairing_count, activity, links, session_count,
                   pairings_pending, pairings_active, asked, answers, age>>

\* The task removes whatever streams its token has.
Teardown(i) ==
    /\ tasks[i].state = "active" /\ tasks[i].signalled
    /\ tasks' = [tasks EXCEPT ![i].state = "ended"]
    /\ streams' = Without(streams, {tasks[i].token})
    /\ UNCHANGED <<session, inbox, outbox, pairing_count, activity, links, active_pairings,
                   session_count, pairings_pending, pairings_active, asked, answers, age>>

----------------------------------------------------------------------------
(* Time and the sweep.                                                     *)

TimePasses ==
    /\ age < MaxAge
    /\ age' = age + 1
    /\ links' = {[l EXCEPT !.age = @ + 1] : l \in links}
    /\ activity' = [c \in DOMAIN activity |-> activity[c] + 1]
    /\ UNCHANGED <<session, inbox, outbox, pairing_count, active_pairings, session_count,
                   pairings_pending, pairings_active, tasks, streams, asked, answers>>

Expired == {l \in links : l.age > PairingTimeout}
IdleSessions == {c \in DOMAIN activity : activity[c] > IdleTimeout}

\* sweep_expired_pairings and sweep_idle_sessions.  A session that was dropped
\* has no receiver, and a second Close has no effect.
CloseOf(c) == [kind |-> "Close"]
ToClose == {c \in IdleSessions : session[c] \in {"opening", "open"} /\ CloseOf(c) \notin Range(outbox[c])}

Sweep ==
    /\ Expired # {} \/ ToClose # {}
    /\ links' = links \ Expired
    /\ pairings_pending' = pairings_pending - Cardinality({l.token : l \in Expired})
    /\ outbox' = [c \in Conn |-> IF c \in ToClose THEN Append(outbox[c], CloseOf(c)) ELSE outbox[c]]
    /\ UNCHANGED <<session, inbox, pairing_count, activity, active_pairings, session_count,
                   pairings_active, tasks, streams, asked, answers, age>>

----------------------------------------------------------------------------
(* What the relay promises.                                                *)

(***************************************************************************)
(* A pairing that waits has one side, of a session that still runs, and    *)
(* pairings_pending counts those that wait, over matches, cancellations,   *)
(* expiry and sessions that end in any order.                              *)
(***************************************************************************)
PendingIsLive ==
    /\ pairings_pending = Cardinality({l.token : l \in links})
    /\ \A l, m \in links : l.token = m.token => l = m
    /\ \A l \in links : session[l.conn] = "open"

(***************************************************************************)
(* The stream a peer is told is the one made for its own request, and the  *)
(* bridge's other stream goes to a peer that asked for the other side of   *)
(* the same token.                                                         *)
(***************************************************************************)
BridgeEndsMeet ==
    \A c \in Conn : \A a \in answers[c] :
        LET t == tasks[a.stream[1]]
            near == IF a.stream[2] = 1 THEN t.first ELSE t.second
            far == IF a.stream[2] = 1 THEN t.second ELSE t.first
        IN  /\ t.token = a.token /\ near.conn = c /\ near.is_initiator = a.is_initiator
            /\ far.is_initiator # near.is_initiator

(***************************************************************************)
(* A bridge that forwards can be reached: until its task is told to end,   *)
(* the table of active pairings names it, so that unpairing its token or   *)
(* the end of a session that runs takes it down; and no two bridges of a   *)
(* token forward for long.                                                 *)
(***************************************************************************)
BridgeIsReachable ==
    \A i \in DOMAIN tasks :
        (tasks[i].state = "active" /\ ~tasks[i].signalled) =>
            /\ tasks[i].token \in DOMAIN active_pairings
            /\ active_pairings[tasks[i].token].task = i

(***************************************************************************)
(* Pairings and bridges of the relay, together.                            *)
(***************************************************************************)
RelayIsSound == PendingIsLive /\ BridgeEndsMeet /\ BridgeIsReachable

=============================================================================
