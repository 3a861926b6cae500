---------------------------- MODULE ReachProofs ----------------------------
(***************************************************************************)
(* Proofs about the blind relay as Reach composes it with the calls that   *)
(* use it, for every set of connections and messages and every limit.      *)
(***************************************************************************)
EXTENDS Reach, FiniteSetTheorems, TLAPS

----------------------------------------------------------------------------
(* The inductive invariants.                                               *)

\* The tokens that peers ask for, the links of the pairing table and the
\* bridging tasks.
Tokens == {m.token : m \in asks}
Links == [conn : Conn, token : Tokens, is_initiator : BOOLEAN, age : Nat]
Sides == [conn : Conn, is_initiator : BOOLEAN]
Tasks == [token : Tokens, first : Sides, second : Sides,
          state : {"matched", "bridged", "active", "ended"}, signalled : BOOLEAN]

\* What a session reads from its peer: what that peer asked, or the end.
Mail(c) == {m \in asks : m.conn = c} \cup {[kind |-> "closed"]}

\* What a session is told: the stream of its side of a bridge, or to close.
Notes(ts, c) ==
    {PairMatched(i, ts[i].token, ts[i].first, 1) : i \in {j \in DOMAIN ts : ts[j].first.conn = c}}
    \cup {PairMatched(i, ts[i].token, ts[i].second, 2) : i \in {j \in DOMAIN ts : ts[j].second.conn = c}}
    \cup {CloseOf(c)}

\* Tasks keep their token and sides, and none is forgotten.
Continues(ts, us) ==
    /\ DOMAIN ts \subseteq DOMAIN us
    /\ \A i \in DOMAIN ts : /\ us[i].token = ts[i].token
                            /\ us[i].first = ts[i].first /\ us[i].second = ts[i].second

\* A session reads only what its own peer sent.
MailInv ==
    /\ asks \in Asks
    /\ DOMAIN inbox = Conn
    /\ \A c \in Conn : inbox[c] \in Seq(Mail(c))

\* The pairings that wait are finitely many, have their types, and PendingIsLive.
PendingInv ==
    /\ DOMAIN session = Conn
    /\ links \subseteq Links /\ IsFiniteSet(links)
    /\ PendingIsLive

\* A task bridges two different sides, and BridgeIsReachable.
TasksInv ==
    /\ tasks \in Seq(Tasks)
    /\ \A i \in DOMAIN tasks : tasks[i].first.is_initiator # tasks[i].second.is_initiator
    /\ BridgeIsReachable

\* What a session is told, and its peer was told, is about its own side of a task.
NotesInv ==
    /\ DOMAIN outbox = Conn /\ DOMAIN answers = Conn
    /\ \A c \in Conn : outbox[c] \in Seq(Notes(tasks, c))
    /\ \A c \in Conn : answers[c] \subseteq {a \in Notes(tasks, c) : a.kind = "PairMatched"}

RelayInv == MailInv /\ PendingInv /\ TasksInv /\ NotesInv

----------------------------------------------------------------------------
(* Sequences and finite sets.                                              *)

\* A queue that grows at its end.
LEMMA Pushed ==
  ASSUME NEW S, NEW s \in Seq(S), NEW x \in S
  PROVE  Append(s, x) \in Seq(S)
  OBVIOUS

\* A queue that loses its first element.
LEMMA Popped ==
  ASSUME NEW S, NEW s \in Seq(S), s # << >>
  PROVE  Tail(s) \in Seq(S) /\ s[1] \in S
  OBVIOUS

\* A queue that another one follows.
LEMMA Joined ==
  ASSUME NEW S, NEW s \in Seq(S), NEW t \in Seq(S)
  PROVE  s \o t \in Seq(S)
  OBVIOUS

\* A sequence over a set is one over every larger set.
LEMMA Widened ==
  ASSUME NEW S, NEW T, S \subseteq T, NEW s \in Seq(S)
  PROVE  s \in Seq(T)
  OBVIOUS

\* A sequence in which one place holds another element of the set.
LEMMA Exchanged ==
  ASSUME NEW S, NEW s \in Seq(S), NEW i \in DOMAIN s, NEW x \in S
  PROVE  [s EXCEPT ![i] = x] \in Seq(S)
  OBVIOUS

\* The tokens of finitely many links are finitely many.
LEMMA TokensFinite ==
  ASSUME NEW L, IsFiniteSet(L)
  PROVE  IsFiniteSet({l.token : l \in L})
  <1> DEFINE T == {l.token : l \in L}
             f == [l \in L |-> l.token]
  <1>1. f \in Surjection(L, T)
    BY Zenon DEF Surjection
  <1> HIDE DEF f, T
  <1>2. IsFiniteSet(T)
    BY <1>1, FS_Surjection, Zenon
  <1> QED BY <1>2, Zenon DEF T

\* Taking some links away takes as many tokens away, if no two links share one.
LEMMA TokensLeft ==
  ASSUME NEW L, IsFiniteSet(L), \A l, m \in L : l.token = m.token => l = m,
         NEW gone, gone \subseteq L
  PROVE  /\ IsFiniteSet(L \ gone)
         /\ {l.token : l \in L \ gone} = {l.token : l \in L} \ {l.token : l \in gone}
         /\ Cardinality({l.token : l \in L \ gone})
               = Cardinality({l.token : l \in L}) - Cardinality({l.token : l \in gone})
         /\ Cardinality({l.token : l \in gone}) \in Nat /\ Cardinality({l.token : l \in L}) \in Nat
  <1> DEFINE T(S) == {l.token : l \in S}
  <1>1. IsFiniteSet(L \ gone) /\ IsFiniteSet(gone)
    BY FS_Subset, Zenon
  <1>2. IsFiniteSet(T(L)) /\ IsFiniteSet(T(gone)) /\ IsFiniteSet(T(L \ gone))
    BY <1>1, TokensFinite, Zenon
  <1>3. T(L \ gone) = T(L) \ T(gone) /\ T(gone) \subseteq T(L)
    BY Zenon
  <1>4. Cardinality(T(L)) \in Nat /\ Cardinality(T(gone)) \in Nat
    BY <1>2, FS_CardinalityType, Zenon
  <1> HIDE DEF T
  <1>5. Cardinality(T(L) \ T(gone)) = Cardinality(T(L)) - Cardinality(T(L) \cap T(gone))
    BY <1>2, FS_Difference
  <1>6. T(L) \cap T(gone) = T(gone)
    BY <1>3, Zenon
  <1> QED BY <1>1, <1>3, <1>4, <1>5, <1>6 DEF T

----------------------------------------------------------------------------
(* What steps leave alone.                                                 *)

\* The notes of the tasks so far stay notes.
LEMMA NotesGrow ==
  ASSUME NEW ts, NEW us, Continues(ts, us), NEW c
  PROVE  Notes(ts, c) \subseteq Notes(us, c)
  <1> SUFFICES ASSUME NEW a \in Notes(ts, c) PROVE a \in Notes(us, c)
    BY Zenon
  <1>1. CASE a = CloseOf(c)
    BY <1>1, Zenon DEF Notes
  <1>2. ASSUME NEW i \in DOMAIN ts, ts[i].first.conn = c, a = PairMatched(i, ts[i].token, ts[i].first, 1)
        PROVE  a \in Notes(us, c)
    <2>1. i \in DOMAIN us /\ us[i].first.conn = c /\ a = PairMatched(i, us[i].token, us[i].first, 1)
      BY <1>2, Zenon DEF Continues
    <2> QED BY <2>1, Zenon DEF Notes
  <1>3. ASSUME NEW i \in DOMAIN ts, ts[i].second.conn = c, a = PairMatched(i, ts[i].token, ts[i].second, 2)
        PROVE  a \in Notes(us, c)
    <2>1. i \in DOMAIN us /\ us[i].second.conn = c /\ a = PairMatched(i, us[i].token, us[i].second, 2)
      BY <1>3, Zenon DEF Continues
    <2> QED BY <2>1, Zenon DEF Notes
  <1> QED BY <1>1, <1>2, <1>3, Zenon DEF Notes

\* A step that reads and sends no message of a peer.
LEMMA MailStays ==
  ASSUME MailInv, UNCHANGED <<asks, inbox>>
  PROVE  MailInv'
  BY Zenon DEF MailInv, Mail

\* A step that leaves the pairing table alone and ends no open session.
LEMMA PendingStays ==
  ASSUME PendingInv, UNCHANGED <<asks, links, pairings_pending>>, DOMAIN session' = Conn,
         \A c \in Conn : session[c] = "open" => session'[c] = "open"
  PROVE  PendingInv'
  <1>1. links' \subseteq Links' /\ IsFiniteSet(links')
    BY Zenon DEF PendingInv, Links, Tokens
  <1>2. \A l \in links' : session'[l.conn] = "open"
    <2> SUFFICES ASSUME NEW l \in links PROVE session'[l.conn] = "open"
      BY Zenon
    <2>1. l.conn \in Conn
      BY DEF PendingInv, Links
    <2> QED BY <2>1, Zenon DEF PendingInv, PendingIsLive
  <1> QED BY <1>1, <1>2, Zenon DEF PendingInv, PendingIsLive

\* A step that takes links out of the table, counts their tokens, and leaves
\* the sessions of the others open.
LEMMA PendingShrinks ==
  ASSUME PendingInv, asks' = asks, DOMAIN session' = Conn, NEW gone, gone \subseteq links,
         links' = links \ gone,
         pairings_pending' = pairings_pending - Cardinality({l.token : l \in gone}),
         \A l \in links \ gone : session'[l.conn] = "open"
  PROVE  PendingInv'
  <1>1. /\ IsFiniteSet(links \ gone)
        /\ Cardinality({l.token : l \in links \ gone})
              = Cardinality({l.token : l \in links}) - Cardinality({l.token : l \in gone})
    BY TokensLeft, Zenon DEF PendingInv, PendingIsLive
  <1>2. links' \subseteq Links' /\ IsFiniteSet(links')
    BY <1>1, Zenon DEF PendingInv, Links, Tokens
  <1>3. pairings_pending' = Cardinality({l.token : l \in links'})
    BY <1>1, Zenon DEF PendingInv, PendingIsLive
  <1>4. \A l, m \in links' : l.token = m.token => l = m
    BY Zenon DEF PendingInv, PendingIsLive
  <1> QED BY <1>2, <1>3, <1>4, Zenon DEF PendingInv, PendingIsLive

\* A step that leaves the bridges alone.
LEMMA TasksStay ==
  ASSUME TasksInv, UNCHANGED <<asks, tasks, active_pairings>>
  PROVE  TasksInv'
  BY Zenon DEF TasksInv, Tasks, Tokens, BridgeIsReachable

\* A step that tells nobody anything.
LEMMA NotesStay ==
  ASSUME NotesInv, Continues(tasks, tasks'), UNCHANGED <<outbox, answers>>
  PROVE  NotesInv'
  <1> SUFFICES ASSUME NEW c \in Conn
               PROVE  /\ outbox[c] \in Seq(Notes(tasks', c))
                      /\ answers[c] \subseteq {a \in Notes(tasks', c) : a.kind = "PairMatched"}
    BY Zenon DEF NotesInv
  <1>1. Notes(tasks, c) \subseteq Notes(tasks', c)
    BY NotesGrow, Zenon
  <1>2. outbox[c] \in Seq(Notes(tasks, c))
        /\ answers[c] \subseteq {a \in Notes(tasks, c) : a.kind = "PairMatched"}
    BY Zenon DEF NotesInv
  <1>3. outbox[c] \in Seq(Notes(tasks', c))
    BY <1>1, <1>2, Widened, Zenon
  <1> QED BY <1>1, <1>2, <1>3, Zenon

\* Every sequence of tasks continues itself.
LEMMA TasksContinue ==
  ASSUME tasks' = tasks
  PROVE  Continues(tasks, tasks')
  BY Zenon DEF Continues

\* Tasks that are signalled keep all else.
LEMMA SignalledTasks ==
  ASSUME TasksInv, NEW owners
  PROVE  /\ Signalled(owners) \in Seq(Tasks) /\ DOMAIN Signalled(owners) = DOMAIN tasks
         /\ Continues(tasks, Signalled(owners))
         /\ \A i \in DOMAIN tasks :
               /\ Signalled(owners)[i].state = tasks[i].state
               /\ Signalled(owners)[i].signalled <=> (tasks[i].signalled \/ i \in owners)
  <1> DEFINE S == Signalled(owners)
  <1>1. tasks \in Seq(Tasks) /\ DOMAIN tasks = 1 .. Len(tasks) /\ Len(tasks) \in Nat
    BY DEF TasksInv
  <1>2. DOMAIN S = DOMAIN tasks /\ \A i \in DOMAIN tasks : S[i] = [tasks[i] EXCEPT !.signalled = @ \/ i \in owners]
    BY Zenon DEF Signalled
  <1>3. ASSUME NEW i \in DOMAIN tasks
        PROVE  /\ S[i] \in Tasks /\ S[i].state = tasks[i].state
               /\ S[i].token = tasks[i].token /\ S[i].first = tasks[i].first /\ S[i].second = tasks[i].second
               /\ S[i].signalled <=> (tasks[i].signalled \/ i \in owners)
    <2>1. tasks[i] \in Tasks
      BY <1>1
    <2>2. (tasks[i].signalled \/ i \in owners) \in BOOLEAN
      BY Zenon
    <2> DEFINE b == tasks[i].signalled \/ i \in owners
    <2>3. S[i] = [tasks[i] EXCEPT !.signalled = b]
      BY <1>2, Zenon
    <2> HIDE DEF S, b
    <2>4. b \in BOOLEAN
      BY <2>2, Zenon DEF b
    <2>5. /\ S[i] \in Tasks /\ S[i].state = tasks[i].state /\ S[i].signalled = b
          /\ S[i].token = tasks[i].token /\ S[i].first = tasks[i].first /\ S[i].second = tasks[i].second
      BY <2>1, <2>3, <2>4 DEF Tasks
    <2> QED BY <2>5, Zenon DEF b
  <1> HIDE DEF S
  <1>4. S = [i \in 1 .. Len(tasks) |-> S[i]]
    BY <1>1, Zenon DEF S, Signalled
  <1>5. S \in Seq(Tasks)
    <2>1. \A i \in 1 .. Len(tasks) : S[i] \in Tasks
      BY <1>1, <1>3, Zenon
    <2> QED BY <1>1, <1>4, <2>1
  <1>6. Continues(tasks, S)
    BY <1>2, <1>3, Zenon DEF Continues
  <1> QED BY <1>2, <1>3, <1>5, <1>6, Zenon DEF S

\* Active pairings leave the table, and their tasks are told to end.
LEMMA TasksReleased ==
  ASSUME TasksInv, asks' = asks, NEW gone,
         active_pairings' = Without(active_pairings, gone),
         tasks' = Signalled({active_pairings[t].task : t \in gone})
  PROVE  TasksInv' /\ Continues(tasks, tasks')
  <1> DEFINE owners == {active_pairings[t].task : t \in gone}
  <1>1. /\ tasks' \in Seq(Tasks) /\ DOMAIN tasks' = DOMAIN tasks /\ Continues(tasks, tasks')
        /\ \A i \in DOMAIN tasks : /\ tasks'[i].state = tasks[i].state
                                   /\ tasks'[i].signalled <=> (tasks[i].signalled \/ i \in owners)
    BY SignalledTasks, Zenon
  <1>2. tasks' \in Seq(Tasks')
    BY <1>1, Zenon DEF Tasks, Tokens
  <1>3. \A i \in DOMAIN tasks' : tasks'[i].first.is_initiator # tasks'[i].second.is_initiator
    BY <1>1, Zenon DEF TasksInv, Continues
  <1>4. /\ DOMAIN active_pairings' = DOMAIN active_pairings \ gone
        /\ \A t \in DOMAIN active_pairings \ gone : active_pairings'[t] = active_pairings[t]
    BY Zenon DEF Without, Restrict
  <1>5. ASSUME NEW i \in DOMAIN tasks', tasks'[i].state = "active", ~tasks'[i].signalled
        PROVE  tasks'[i].token \in DOMAIN active_pairings' /\ active_pairings'[tasks'[i].token].task = i
    <2>1. i \in DOMAIN tasks /\ tasks[i].state = "active" /\ ~tasks[i].signalled /\ i \notin owners
          /\ tasks'[i].token = tasks[i].token
      BY <1>1, <1>5, Zenon DEF Continues
    <2>2. tasks[i].token \in DOMAIN active_pairings /\ active_pairings[tasks[i].token].task = i
      BY <2>1, Zenon DEF TasksInv, BridgeIsReachable
    <2>3. tasks[i].token \notin gone
      BY <2>1, <2>2, Zenon
    <2> QED BY <1>4, <2>1, <2>2, <2>3, Zenon
  <1> QED BY <1>1, <1>2, <1>3, <1>5, Zenon DEF TasksInv, BridgeIsReachable

\* A task changes its state without becoming active.
LEMMA TaskMoves ==
  ASSUME TasksInv, asks' = asks, NEW i \in DOMAIN tasks, NEW s \in {"matched", "bridged", "ended"},
         tasks' = [tasks EXCEPT ![i].state = s], active_pairings' = active_pairings
  PROVE  TasksInv' /\ Continues(tasks, tasks')
  <1>1. tasks \in Seq(Tasks) /\ \A j \in DOMAIN tasks : tasks[j] \in Tasks
    BY DEF TasksInv
  <1>2. DOMAIN tasks' = DOMAIN tasks /\ \A j \in DOMAIN tasks : j # i => tasks'[j] = tasks[j]
    BY Zenon
  <1>3. tasks'[i] = [tasks[i] EXCEPT !.state = s]
    BY Zenon
  <1>4. /\ tasks'[i] \in Tasks /\ tasks'[i].state = s
        /\ tasks'[i].token = tasks[i].token /\ tasks'[i].first = tasks[i].first
        /\ tasks'[i].second = tasks[i].second
    BY <1>1, <1>3 DEF Tasks
  <1>5. tasks' \in Seq(Tasks)
    <2>1. tasks' = [tasks EXCEPT ![i] = tasks'[i]]
      BY Zenon
    <2>2. [tasks EXCEPT ![i] = tasks'[i]] \in Seq(Tasks)
      BY Zenon, <1>1, <1>4, Exchanged
    <2> QED BY Zenon, <2>1, <2>2
  <1>6. tasks' \in Seq(Tasks')
    BY ZenonT(60), <1>5 DEF Tasks, Tokens
  <1>7. Continues(tasks, tasks')
    BY <1>2, <1>4, Zenon DEF Continues
  <1>8. \A j \in DOMAIN tasks' : tasks'[j].first.is_initiator # tasks'[j].second.is_initiator
    <2>1. \A j \in DOMAIN tasks : tasks[j].first.is_initiator # tasks[j].second.is_initiator
      BY Zenon DEF TasksInv
    <2>2. \A j \in DOMAIN tasks' : tasks'[j].first = tasks[j].first /\ tasks'[j].second = tasks[j].second
      BY ZenonT(60), <1>2, <1>4
    <2> QED BY ZenonT(60), <1>2, <2>1, <2>2
  <1>9. BridgeIsReachable'
    <2> SUFFICES ASSUME NEW j \in DOMAIN tasks', tasks'[j].state = "active", ~tasks'[j].signalled
                 PROVE  tasks'[j].token \in DOMAIN active_pairings' /\ active_pairings'[tasks'[j].token].task = j
      BY Zenon DEF BridgeIsReachable
    <2>1. s # "active"
      OBVIOUS
    <2>2. j # i
      BY <1>4, <2>1, Zenon
    <2> QED BY <1>2, <2>2, Zenon DEF TasksInv, BridgeIsReachable
  <1> QED BY <1>6, <1>7, <1>8, <1>9, Zenon DEF TasksInv

\* A task that is added follows the ones so far.
LEMMA AppendedTask ==
  ASSUME NEW S, NEW s \in Seq(S), NEW x \in S
  PROVE  /\ Append(s, x) \in Seq(S) /\ Append(s, x)[Len(s) + 1] = x
         /\ DOMAIN s \subseteq DOMAIN Append(s, x)
         /\ \A i \in DOMAIN s : Append(s, x)[i] = s[i]
         /\ \A i \in DOMAIN Append(s, x) : i = Len(s) + 1 \/ i \in DOMAIN s
  OBVIOUS

----------------------------------------------------------------------------
(* One lemma per action.                                                   *)

\* A session begins, opens, or is dropped before it opens.
LEMMA BeginKeeps ==
  ASSUME RelayInv, asks' = asks, NEW c \in Conn, AcceptSession(c) \/ SessionOpens(c) \/ OpenFails(c)
  PROVE  RelayInv'
  <1>1. UNCHANGED <<inbox, outbox, links, active_pairings, pairings_pending, tasks, answers>>
    BY Zenon DEF AcceptSession, SessionOpens, OpenFails
  <1>2. session[c] # "open" /\ \E s : session' = [session EXCEPT ![c] = s]
    <2>1. CASE AcceptSession(c)
      BY <2>1 DEF AcceptSession
    <2>2. CASE SessionOpens(c)
      BY <2>2 DEF SessionOpens
    <2>3. CASE OpenFails(c)
      BY <2>3 DEF OpenFails
    <2> QED BY <2>1, <2>2, <2>3, Zenon
  <1>3. DOMAIN session' = Conn /\ \A d \in Conn : session[d] = "open" => session'[d] = "open"
    BY <1>2, Zenon DEF RelayInv, PendingInv
  <1> QED BY <1>1, <1>3, MailStays, PendingStays, TasksStay, NotesStay, TasksContinue, Zenon DEF RelayInv

\* A peer sends a message, or its end.
LEMMA SendKeeps ==
  ASSUME RelayInv, asks' = asks, NEW c \in Conn,
         PeerCloses(c) \/ \E m \in asks : m.conn = c /\ Ask(m)
  PROVE  RelayInv'
  <1>1. UNCHANGED <<session, outbox, links, active_pairings, pairings_pending, tasks, answers>>
    BY Zenon DEF PeerCloses, Ask
  <1>2. PICK x \in Mail(c) : inbox' = [inbox EXCEPT ![c] = Append(@, x)]
    BY Zenon DEF PeerCloses, Ask, Mail
  <1>3. MailInv'
    <2> SUFFICES ASSUME NEW d \in Conn PROVE inbox'[d] \in Seq(Mail(d))
      BY <1>2, Zenon DEF RelayInv, MailInv, Mail
    <2>1. inbox[d] \in Seq(Mail(d)) /\ inbox[c] \in Seq(Mail(c)) /\ DOMAIN inbox = Conn
      BY Zenon DEF RelayInv, MailInv
    <2>2. CASE d = c
      BY <1>2, <2>1, <2>2, Pushed, Zenon
    <2>3. CASE d # c
      BY <1>2, <2>1, <2>3, Zenon
    <2> QED BY <2>2, <2>3
  <1>4. DOMAIN session' = Conn /\ \A d \in Conn : session[d] = "open" => session'[d] = "open"
    BY <1>1, Zenon DEF RelayInv, PendingInv
  <1> QED BY <1>1, <1>3, <1>4, PendingStays, TasksStay, NotesStay, TasksContinue, Zenon DEF RelayInv

\* A session ends, for whatever reason.
LEMMA ReleaseKeeps ==
  ASSUME RelayInv, asks' = asks, NEW c \in Conn, ReleaseSession(c), answers' = answers
  PROVE  RelayInv'
  <1> DEFINE gone == LinksOf(c)
             T(S) == {l.token : l \in S}
  <1>1. MailInv'
    <2> SUFFICES ASSUME NEW d \in Conn PROVE inbox'[d] \in Seq(Mail(d))
      BY Zenon DEF RelayInv, MailInv, Mail, ReleaseSession
    <2>1. << >> \in Seq(Mail(d))
      OBVIOUS
    <2> QED BY <2>1, Zenon DEF RelayInv, MailInv, ReleaseSession
  <1>2. PendingInv'
    <2>1. gone \subseteq links /\ \A l \in links \ gone : l.conn # c
      BY Zenon DEF LinksOf
    <2>2. T(gone) \ T(links \ gone) = T(gone)
      BY <2>1, Zenon DEF RelayInv, PendingInv, PendingIsLive
    <2>3. links' = links \ gone /\ pairings_pending' = pairings_pending - Cardinality(T(gone))
      BY <2>2, Zenon DEF ReleaseSession
    <2>4. DOMAIN session' = Conn /\ \A d \in Conn : d # c => session'[d] = session[d]
      BY Zenon DEF ReleaseSession, RelayInv, PendingInv
    <2>5. \A l \in links : l.conn \in Conn /\ session[l.conn] = "open"
      <3>1. \A l \in Links : l.conn \in Conn
        BY DEF Links
      <3> QED BY <3>1, Zenon DEF RelayInv, PendingInv, PendingIsLive
    <2>6. \A l \in links \ gone : session'[l.conn] = "open"
      BY <2>1, <2>4, <2>5, Zenon
    <2> HIDE DEF gone
    <2> QED BY <2>1, <2>3, <2>4, <2>6, PendingShrinks, Zenon DEF RelayInv
  <1>3. TasksInv' /\ Continues(tasks, tasks')
    <2>1. /\ active_pairings' = Without(active_pairings, PairingsOf(c))
          /\ tasks' = Signalled({active_pairings[t].task : t \in PairingsOf(c)})
      BY Zenon DEF ReleaseSession
    <2> QED BY <2>1, TasksReleased, Zenon DEF RelayInv
  <1>4. NotesInv'
    <2> SUFFICES ASSUME NEW d \in Conn
                 PROVE  /\ outbox'[d] \in Seq(Notes(tasks', d))
                        /\ answers[d] \subseteq {a \in Notes(tasks', d) : a.kind = "PairMatched"}
      BY Zenon DEF RelayInv, NotesInv, ReleaseSession
    <2>1. Notes(tasks, d) \subseteq Notes(tasks', d)
      BY <1>3, NotesGrow, Zenon
    <2>2. answers[d] \subseteq {a \in Notes(tasks', d) : a.kind = "PairMatched"}
      BY <2>1, Zenon DEF RelayInv, NotesInv
    <2>3. << >> \in Seq(Notes(tasks', d))
      OBVIOUS
    <2>4. outbox'[d] = << >> \/ outbox'[d] = outbox[d]
      BY Zenon DEF RelayInv, NotesInv, ReleaseSession
    <2>5. outbox[d] \in Seq(Notes(tasks', d))
      BY <2>1, Widened, Zenon DEF RelayInv, NotesInv
    <2> QED BY <2>2, <2>3, <2>4, <2>5, Zenon
  <1> QED BY <1>1, <1>2, <1>3, <1>4, Zenon DEF RelayInv

\* A session forgets the message it has read.
LEMMA MailRead ==
  ASSUME RelayInv, asks' = asks, NEW c \in Conn, inbox[c] # << >>,
         inbox' = [inbox EXCEPT ![c] = Tail(@)]
  PROVE  MailInv'
  <1> SUFFICES ASSUME NEW d \in Conn PROVE inbox'[d] \in Seq(Mail(d))
    BY Zenon DEF RelayInv, MailInv, Mail
  <1>1. inbox[d] \in Seq(Mail(d)) /\ inbox[c] \in Seq(Mail(c)) /\ DOMAIN inbox = Conn
    BY Zenon DEF RelayInv, MailInv
  <1>2. CASE d = c
    BY <1>1, <1>2, Popped, Zenon
  <1>3. CASE d # c
    BY <1>1, <1>3, Zenon
  <1> QED BY <1>2, <1>3

\* A message that a session reads and that is not the end was asked by its peer.
LEMMA ReadWasAsked ==
  ASSUME RelayInv, NEW c \in Conn, inbox[c] # << >>, inbox[c][1].kind # "closed"
  PROVE  inbox[c][1] \in asks /\ inbox[c][1].conn = c
  <1>1. inbox[c][1] \in Mail(c)
    BY Popped, Zenon DEF RelayInv, MailInv
  <1>2. inbox[c][1] # [kind |-> "closed"]
    OBVIOUS
  <1> QED BY <1>1, <1>2, Zenon DEF Mail

\* A request to pair is refused, waits, or is matched.
LEMMA PairKeeps ==
  ASSUME RelayInv, asks' = asks, NEW c \in Conn, session[c] = "open", NEW l \in Links, l.conn = c,
         TryPair(c, l), MailInv', UNCHANGED <<outbox, answers>>
  PROVE  RelayInv'
  <1>0. session' = session /\ active_pairings' = active_pairings
    BY Zenon DEF TryPair
  <1>1. DOMAIN session' = Conn /\ \A d \in Conn : session[d] = "open" => session'[d] = "open"
    BY <1>0, Zenon DEF RelayInv, PendingInv
  <1>2. CASE UNCHANGED <<links, tasks, pairings_pending>>
    BY <1>0, <1>1, <1>2, PendingStays, TasksStay, NotesStay, TasksContinue, Zenon DEF RelayInv
  <1>3. CASE /\ \A o \in links : o.token # l.token
             /\ links' = links \cup {l} /\ pairings_pending' = pairings_pending + 1 /\ tasks' = tasks
    <2> DEFINE T == {o.token : o \in links}
    <2>1. {o.token : o \in links'} = T \cup {l.token} /\ l.token \notin T
      BY <1>3, Zenon
    <2>2. IsFiniteSet(T) /\ IsFiniteSet(links')
      BY <1>3, TokensFinite, FS_AddElement, Zenon DEF RelayInv, PendingInv
    <2>3. pairings_pending = Cardinality(T) /\ Cardinality(T) \in Nat
      BY <2>2, FS_CardinalityType, Zenon DEF RelayInv, PendingInv, PendingIsLive
    <2> HIDE DEF T
    <2>4. Cardinality(T \cup {l.token}) = Cardinality(T) + 1
      BY <2>1, <2>2, FS_AddElement, Zenon
    <2>5. pairings_pending' = Cardinality({o.token : o \in links'})
      BY <1>3, <2>1, <2>3, <2>4, Zenon
    <2>6. \A o, p \in links' : o.token = p.token => o = p
      BY <1>3, Zenon DEF RelayInv, PendingInv, PendingIsLive
    <2>7. \A o \in links' : session'[o.conn] = "open"
      BY <1>0, <1>3, Zenon DEF RelayInv, PendingInv, PendingIsLive
    <2>8. links' \subseteq Links'
      BY <1>3, Zenon DEF RelayInv, PendingInv, Links, Tokens
    <2>9. PendingInv'
      BY <1>1, <2>2, <2>5, <2>6, <2>7, <2>8, Zenon DEF PendingInv, PendingIsLive
    <2> QED BY <1>0, <1>3, <2>9, TasksStay, NotesStay, TasksContinue, Zenon DEF RelayInv
  <1>4. CASE \E o \in Other(l) : /\ links' = links \ {o} /\ pairings_pending' = pairings_pending - 1
                                 /\ tasks' = Append(tasks, NewTask(l.token, Side(o), Side(l)))
    <2>1. PICK o \in Other(l) : /\ links' = links \ {o} /\ pairings_pending' = pairings_pending - 1
                                /\ tasks' = Append(tasks, NewTask(l.token, Side(o), Side(l)))
      BY <1>4, Zenon
    <2>2. o \in links /\ o \in Links /\ o.token = l.token /\ o.is_initiator # l.is_initiator
      BY Zenon DEF Other, RelayInv, PendingInv
    <2>3. PendingInv'
      <3>1. {p.token : p \in {o}} = {o.token}
        BY Zenon
      <3>2. Cardinality({p.token : p \in {o}}) = 1
        BY <3>1, FS_Singleton, Zenon
      <3>3. {o} \subseteq links
        BY <2>2, Zenon
      <3>4. \A p \in links \ {o} : session'[p.conn] = "open"
        BY <1>0, Zenon DEF RelayInv, PendingInv, PendingIsLive
      <3>5. pairings_pending' = pairings_pending - Cardinality({p.token : p \in {o}})
        BY <2>1, <3>2, Zenon
      <3> QED BY <1>1, <2>1, <3>3, <3>4, <3>5, PendingShrinks, Zenon DEF RelayInv
    <2> DEFINE t == NewTask(l.token, Side(o), Side(l))
    <2>4. t \in Tasks /\ t.first.is_initiator # t.second.is_initiator /\ t.state = "matched"
      BY <2>2 DEF NewTask, Side, Tasks, Sides, Links
    <2> HIDE DEF t
    <2>5. tasks \in Seq(Tasks) /\ tasks' = Append(tasks, t)
      BY <2>1, Zenon DEF t, RelayInv, TasksInv
    <2>6. /\ tasks' \in Seq(Tasks) /\ tasks'[Len(tasks) + 1] = t
          /\ DOMAIN tasks \subseteq DOMAIN tasks'
          /\ \A i \in DOMAIN tasks : tasks'[i] = tasks[i]
          /\ \A i \in DOMAIN tasks' : i = Len(tasks) + 1 \/ i \in DOMAIN tasks
      BY <2>4, <2>5, AppendedTask
    <2>7. Continues(tasks, tasks')
      BY <2>6, Zenon DEF Continues
    <2>8. TasksInv'
      <3>1. tasks' \in Seq(Tasks')
        BY <2>6, Zenon DEF Tasks, Tokens
      <3>2. \A i \in DOMAIN tasks' : tasks'[i].first.is_initiator # tasks'[i].second.is_initiator
        BY <2>4, <2>6, Zenon DEF RelayInv, TasksInv
      <3>3. \A i \in DOMAIN tasks' : tasks'[i].state = "active" => i \in DOMAIN tasks
        <4>1. t.state # "active"
          BY <2>4
        <4> QED BY <2>6, <4>1, Zenon
      <3>4. BridgeIsReachable'
        BY <1>0, <2>6, <3>3, Zenon DEF RelayInv, TasksInv, BridgeIsReachable
      <3> QED BY <3>1, <3>2, <3>4, Zenon DEF TasksInv
    <2> QED BY <2>3, <2>7, <2>8, NotesStay, Zenon DEF RelayInv
  <1> QED BY <1>2, <1>3, <1>4, Zenon DEF TryPair

\* A request to unpair takes a link back, ends a bridge, or does nothing.
LEMMA UnpairKeeps ==
  ASSUME RelayInv, asks' = asks, NEW c \in Conn, NEW token, Unpair(c, token),
         MailInv', UNCHANGED <<outbox, answers>>
  PROVE  RelayInv'
  <1>0. session' = session
    BY Zenon DEF Unpair
  <1>1. DOMAIN session' = Conn /\ \A d \in Conn : session[d] = "open" => session'[d] = "open"
    BY <1>0, Zenon DEF RelayInv, PendingInv
  <1>2. CASE /\ OwnLink(c, token) # {} /\ links' = links \ OwnLink(c, token)
             /\ pairings_pending' = pairings_pending - 1 /\ UNCHANGED <<active_pairings, tasks>>
    <2> DEFINE gone == OwnLink(c, token)
    <2>1. gone \subseteq links /\ {l.token : l \in gone} = {token}
      BY <1>2, Zenon DEF OwnLink
    <2>2. Cardinality({l.token : l \in gone}) = 1
      BY <2>1, FS_Singleton, Zenon
    <2>3. pairings_pending' = pairings_pending - Cardinality({l.token : l \in gone})
      BY <1>2, <2>2, Zenon
    <2>4. \A l \in links \ gone : session'[l.conn] = "open"
      BY <1>0, Zenon DEF RelayInv, PendingInv, PendingIsLive
    <2>5. links' = links \ gone
      BY <1>2, Zenon
    <2> HIDE DEF gone
    <2>6. PendingInv'
      BY <1>1, <2>1, <2>3, <2>4, <2>5, PendingShrinks, Zenon DEF RelayInv
    <2> QED BY <1>2, <2>6, TasksStay, NotesStay, TasksContinue, Zenon DEF RelayInv
  <1>3. CASE UnpairActive(token) /\ UNCHANGED <<links, pairings_pending>>
    <2>1. {active_pairings[t].task : t \in {token}} = {active_pairings[token].task}
      BY Zenon
    <2>2. /\ active_pairings' = Without(active_pairings, {token})
          /\ tasks' = Signalled({active_pairings[t].task : t \in {token}})
      BY <1>3, <2>1, Zenon DEF UnpairActive
    <2>3. TasksInv' /\ Continues(tasks, tasks')
      BY <2>2, TasksReleased, Zenon DEF RelayInv
    <2> QED BY <1>1, <1>3, <2>3, PendingStays, NotesStay, Zenon DEF RelayInv
  <1>4. CASE UNCHANGED <<active_pairings, tasks, links, pairings_pending>>
    BY <1>1, <1>4, PendingStays, TasksStay, NotesStay, TasksContinue, Zenon DEF RelayInv
  <1> QED BY <1>2, <1>3, <1>4, Zenon DEF Unpair

\* A session reads a message of its peer.
LEMMA ReadsKeeps ==
  ASSUME RelayInv, asks' = asks, NEW c \in Conn, SessionReads(c)
  PROVE  RelayInv'
  <1> DEFINE m == inbox[c][1]
  <1>1. inbox[c] # << >> /\ session[c] = "open" /\ answers' = answers
    BY Zenon DEF SessionReads
  <1>2. CASE m.kind = "pair" /\ TryPair(c, Link(m)) /\ inbox' = [inbox EXCEPT ![c] = Tail(@)] /\ outbox' = outbox
    <2>1. m \in asks /\ m.conn = c
      <3>1. m.kind # "closed"
        BY <1>2
      <3> QED BY <1>1, <3>1, ReadWasAsked, Zenon
    <2>2. m.is_initiator \in BOOLEAN /\ m.token \in Tokens
      BY <2>1, RelayAssumption, Zenon DEF Tokens, RelayInv, MailInv
    <2> HIDE DEF m
    <2>3. Link(m) \in Links /\ Link(m).conn = c
      BY <2>1, <2>2 DEF Link, Links
    <2>4. MailInv'
      BY <1>1, <1>2, MailRead, Zenon
    <2> QED BY <1>1, <1>2, <2>3, <2>4, PairKeeps, Zenon
  <1>3. CASE m.kind = "unpair" /\ Unpair(c, m.token) /\ inbox' = [inbox EXCEPT ![c] = Tail(@)] /\ outbox' = outbox
    <2>1. MailInv'
      BY <1>1, <1>3, MailRead, Zenon
    <2> HIDE DEF m
    <2> QED BY <1>1, <1>3, <2>1, UnpairKeeps, Zenon
  <1>4. CASE ReleaseSession(c)
    BY <1>1, <1>4, ReleaseKeeps, Zenon
  <1> QED BY <1>2, <1>3, <1>4, Zenon DEF SessionReads

\* A session passes on what it is told, or ends.
LEMMA ToldKeeps ==
  ASSUME RelayInv, asks' = asks, NEW c \in Conn, SessionTold(c)
  PROVE  RelayInv'
  <1> DEFINE m == outbox[c][1]
  <1>1. outbox[c] # << >>
    BY Zenon DEF SessionTold
  <1>2. CASE /\ m.kind = "PairMatched" /\ answers' = [answers EXCEPT ![c] = @ \cup {m}]
             /\ outbox' = [outbox EXCEPT ![c] = Tail(@)]
             /\ UNCHANGED <<session, links, pairings_pending, active_pairings, tasks, inbox>>
    <2>1. outbox[c] \in Seq(Notes(tasks, c)) /\ DOMAIN outbox = Conn /\ DOMAIN answers = Conn
      BY Zenon DEF RelayInv, NotesInv
    <2>2. Tail(outbox[c]) \in Seq(Notes(tasks, c)) /\ m \in Notes(tasks, c)
      BY <1>1, <2>1, Popped, Zenon
    <2> HIDE DEF m
    <2>3. NotesInv'
      <3> SUFFICES ASSUME NEW d \in Conn
                   PROVE  /\ outbox'[d] \in Seq(Notes(tasks, d))
                          /\ answers'[d] \subseteq {a \in Notes(tasks, d) : a.kind = "PairMatched"}
        BY <1>2, <2>1, Zenon DEF NotesInv
      <3>1. CASE d = c
        BY <1>2, <2>1, <2>2, <3>1, Zenon DEF RelayInv, NotesInv
      <3>2. CASE d # c
        BY <1>2, <2>1, <3>2, Zenon DEF RelayInv, NotesInv
      <3> QED BY <3>1, <3>2
    <2>4. DOMAIN session' = Conn /\ \A d \in Conn : session[d] = "open" => session'[d] = "open"
      BY <1>2, Zenon DEF RelayInv, PendingInv
    <2> QED BY <1>2, <2>3, <2>4, MailStays, PendingStays, TasksStay, Zenon DEF RelayInv
  <1>3. CASE ReleaseSession(c) /\ answers' = answers
    BY <1>3, ReleaseKeeps, Zenon
  <1> QED BY <1>2, <1>3, Zenon DEF SessionTold

\* What a session is told of a task is a note of that task.
LEMMA ToldAreNotes ==
  ASSUME NEW ts, NEW i \in DOMAIN ts, NEW c
  PROVE  Told(i, ts[i], c) \in Seq(Notes(ts, c))
  <1> DEFINE t == ts[i]
             a == PairMatched(i, t.token, t.first, 1)
             b == PairMatched(i, t.token, t.second, 2)
             N == Notes(ts, c)
  <1>1. t.first.conn = c => a \in N
    BY Zenon DEF Notes
  <1>2. t.second.conn = c => b \in N
    BY Zenon DEF Notes
  <1> DEFINE p == IF t.first.conn = c THEN <<a>> ELSE << >>
             q == IF t.second.conn = c THEN <<b>> ELSE << >>
  <1>3. Told(i, t, c) = p \o q
    BY Zenon DEF Told
  <1> HIDE DEF a, b, N, t
  <1>4. p \in Seq(N)
    BY <1>1
  <1>5. q \in Seq(N)
    BY <1>2
  <1> HIDE DEF p, q
  <1>6. Told(i, t, c) \in Seq(N)
    BY <1>3, <1>4, <1>5, Joined, Zenon
  <1> QED BY <1>6, Zenon DEF N, t

\* A task bridges two streams and tells the sessions.
LEMMA BridgeKeeps ==
  ASSUME RelayInv, asks' = asks, NEW i \in DOMAIN tasks, Bridge(i)
  PROVE  RelayInv'
  <1>1. /\ UNCHANGED <<session, inbox, links, active_pairings, pairings_pending, answers>>
        /\ tasks' = [tasks EXCEPT ![i].state = "bridged"]
    BY Zenon DEF Bridge
  <1>2. TasksInv' /\ Continues(tasks, tasks')
    <2>1. "bridged" \in {"matched", "bridged", "ended"}
      OBVIOUS
    <2> QED BY <1>1, <2>1, TaskMoves, Zenon DEF RelayInv
  <1>3. NotesInv'
    <2>1. DOMAIN outbox' = Conn
      BY Zenon DEF Bridge
    <2> SUFFICES ASSUME NEW c \in Conn
                 PROVE  /\ outbox'[c] \in Seq(Notes(tasks', c))
                        /\ answers[c] \subseteq {a \in Notes(tasks', c) : a.kind = "PairMatched"}
      BY <1>1, <2>1, Zenon DEF RelayInv, NotesInv
    <2>2. Notes(tasks, c) \subseteq Notes(tasks', c)
      BY <1>2, NotesGrow, Zenon
    <2>3. answers[c] \subseteq {a \in Notes(tasks', c) : a.kind = "PairMatched"}
      BY <2>2, Zenon DEF RelayInv, NotesInv
    <2>4. outbox[c] \in Seq(Notes(tasks, c)) /\ outbox[c] \o Told(i, tasks[i], c) \in Seq(Notes(tasks, c))
      BY ToldAreNotes, Joined, Zenon DEF RelayInv, NotesInv
    <2>5. outbox'[c] = outbox[c] \/ outbox'[c] = outbox[c] \o Told(i, tasks[i], c)
      BY Zenon DEF Bridge
    <2>6. outbox'[c] \in Seq(Notes(tasks, c))
      BY <2>4, <2>5, Zenon
    <2> QED BY <2>2, <2>3, <2>6, Widened, Zenon
  <1>4. DOMAIN session' = Conn /\ \A d \in Conn : session[d] = "open" => session'[d] = "open"
    BY <1>1, Zenon DEF RelayInv, PendingInv
  <1> QED BY <1>1, <1>2, <1>3, <1>4, MailStays, PendingStays, Zenon DEF RelayInv

\* A task ends, before it bridges or after.
LEMMA EndKeeps ==
  ASSUME RelayInv, asks' = asks, NEW i \in DOMAIN tasks, BridgeFails(i) \/ Teardown(i)
  PROVE  RelayInv'
  <1>1. /\ UNCHANGED <<session, inbox, outbox, links, active_pairings, pairings_pending, answers>>
        /\ tasks' = [tasks EXCEPT ![i].state = "ended"]
    BY Zenon DEF BridgeFails, Teardown
  <1>2. TasksInv' /\ Continues(tasks, tasks')
    <2>1. "ended" \in {"matched", "bridged", "ended"}
      OBVIOUS
    <2> QED BY <1>1, <2>1, TaskMoves, Zenon DEF RelayInv
  <1>3. DOMAIN session' = Conn /\ \A d \in Conn : session[d] = "open" => session'[d] = "open"
    BY <1>1, Zenon DEF RelayInv, PendingInv
  <1> QED BY <1>1, <1>2, <1>3, MailStays, PendingStays, NotesStay, Zenon DEF RelayInv

\* A bridge becomes the active pairing of its token, in the place of another.
LEMMA MarkKeeps ==
  ASSUME RelayInv, asks' = asks, NEW i \in DOMAIN tasks, MarkActive(i)
  PROVE  RelayInv'
  <1> DEFINE token == tasks[i].token
             replaced == IF token \in DOMAIN active_pairings THEN {active_pairings[token].task} ELSE {}
             S == Signalled(replaced)
             entry == [sessions |-> {tasks[i].first.conn, tasks[i].second.conn}, task |-> i]
  <1>1. /\ UNCHANGED <<session, inbox, outbox, links, pairings_pending, answers>>
        /\ tasks' = [S EXCEPT ![i].state = "active"]
        /\ active_pairings' = With(active_pairings, token, entry)
    BY Zenon DEF MarkActive
  <1>2. /\ S \in Seq(Tasks) /\ DOMAIN S = DOMAIN tasks /\ Continues(tasks, S)
        /\ \A j \in DOMAIN tasks : /\ S[j].state = tasks[j].state
                                   /\ S[j].signalled <=> (tasks[j].signalled \/ j \in replaced)
    BY SignalledTasks, Zenon DEF RelayInv
  <1>3. /\ DOMAIN active_pairings' = DOMAIN active_pairings \cup {token}
        /\ active_pairings'[token].task = i
        /\ \A t \in DOMAIN active_pairings : t # token => active_pairings'[t] = active_pairings[t]
    <2>1. entry.task = i
      OBVIOUS
    <2> HIDE DEF entry, token
    <2> QED BY <1>1, <2>1, Zenon DEF With
  <1>4. \A j \in DOMAIN tasks : (tasks[j].token = token /\ tasks[j].state = "active" /\ ~tasks[j].signalled)
                                   => j \in replaced
    BY Zenon DEF RelayInv, TasksInv, BridgeIsReachable
  <1> HIDE DEF S, replaced, entry
  <1>5. /\ DOMAIN tasks' = DOMAIN tasks /\ \A j \in DOMAIN tasks : j # i => tasks'[j] = S[j]
        /\ tasks'[i] = [S[i] EXCEPT !.state = "active"]
    BY <1>1, <1>2, Zenon
  <1>6. S[i] \in Tasks
    BY <1>2
  <1>7. /\ tasks'[i] \in Tasks /\ tasks'[i].token = S[i].token
        /\ tasks'[i].first = S[i].first /\ tasks'[i].second = S[i].second
    BY <1>5, <1>6 DEF Tasks
  <1>8. tasks' \in Seq(Tasks)
    <2>1. tasks' = [S EXCEPT ![i] = tasks'[i]]
      BY <1>1, <1>2, Zenon
    <2>2. [S EXCEPT ![i] = tasks'[i]] \in Seq(Tasks)
      BY Zenon, <1>2, <1>7, Exchanged
    <2> QED BY Zenon, <2>1, <2>2
  <1>9. Continues(tasks, tasks')
    BY <1>2, <1>5, <1>7, ZenonT(60) DEF Continues
  <1>10. TasksInv'
    <2>1. tasks' \in Seq(Tasks')
      BY <1>8, Zenon DEF Tasks, Tokens
    <2>2. \A j \in DOMAIN tasks' : tasks'[j].first.is_initiator # tasks'[j].second.is_initiator
      BY <1>5, <1>9, Zenon DEF RelayInv, TasksInv, Continues
    <2>3. BridgeIsReachable'
      <3> SUFFICES ASSUME NEW j \in DOMAIN tasks', tasks'[j].state = "active", ~tasks'[j].signalled
                   PROVE  tasks'[j].token \in DOMAIN active_pairings' /\ active_pairings'[tasks'[j].token].task = j
        BY Zenon DEF BridgeIsReachable
      <3>1. j \in DOMAIN tasks /\ tasks'[j].token = tasks[j].token
        BY <1>5, <1>9, Zenon DEF Continues
      <3>2. CASE j = i
        BY <1>3, <3>1, <3>2, Zenon
      <3>3. CASE j # i
        <4>1. tasks[j].state = "active" /\ ~tasks[j].signalled /\ j \notin replaced
          BY <1>2, <1>5, <3>1, <3>3, Zenon
        <4>2. tasks[j].token \in DOMAIN active_pairings /\ active_pairings[tasks[j].token].task = j
          BY <3>1, <4>1, Zenon DEF RelayInv, TasksInv, BridgeIsReachable
        <4>3. tasks[j].token # token
          BY <1>4, <3>1, <4>1, Zenon
        <4> QED BY <1>3, <3>1, <4>2, <4>3, Zenon
      <3> QED BY <3>2, <3>3
    <2> QED BY <2>1, <2>2, <2>3, Zenon DEF TasksInv
  <1>11. DOMAIN session' = Conn /\ \A d \in Conn : session[d] = "open" => session'[d] = "open"
    BY <1>1, Zenon DEF RelayInv, PendingInv
  <1> QED BY <1>1, <1>9, <1>10, <1>11, MailStays, PendingStays, NotesStay, Zenon DEF RelayInv

\* Links grow older.
LEMMA TimeKeeps ==
  ASSUME RelayInv, asks' = asks, TimePasses
  PROVE  RelayInv'
  <1> DEFINE older(l) == [l EXCEPT !.age = @ + 1]
  <1>1. /\ UNCHANGED <<session, inbox, outbox, active_pairings, pairings_pending, tasks, answers>>
        /\ links' = {older(l) : l \in links}
    BY Zenon DEF TimePasses
  <1>2. ASSUME NEW l \in links
        PROVE  older(l) \in Links /\ older(l).token = l.token /\ older(l).conn = l.conn
    <2>1. l \in Links
      BY Zenon DEF RelayInv, PendingInv
    <2> QED BY <2>1 DEF Links
  <1> HIDE DEF older
  <1>3. IsFiniteSet(links')
    <2> DEFINE f == [l \in links |-> older(l)]
    <2>1. f \in Surjection(links, links')
      BY <1>1, Zenon DEF Surjection
    <2> HIDE DEF f
    <2> QED BY <2>1, FS_Surjection, Zenon DEF RelayInv, PendingInv
  <1>4. ASSUME NEW x \in links' PROVE \E l \in links : x = older(l) /\ x.token = l.token /\ x.conn = l.conn
    <2>1. PICK l \in links : x = older(l)
      BY <1>1, Zenon
    <2> QED BY <1>2, <2>1, Zenon
  <1>5. \A l \in links : older(l) \in links' /\ older(l).token = l.token
    BY <1>1, <1>2, Zenon
  <1>6. {l.token : l \in links'} = {l.token : l \in links}
    <2>1. ASSUME NEW t \in {l.token : l \in links'} PROVE t \in {l.token : l \in links}
      BY <1>4, <2>1, Zenon
    <2>2. ASSUME NEW t \in {l.token : l \in links} PROVE t \in {l.token : l \in links'}
      BY <1>5, <2>2, Zenon
    <2> QED BY <2>1, <2>2, Zenon
  <1>7. \A l, m \in links' : l.token = m.token => l = m
    <2> SUFFICES ASSUME NEW x \in links', NEW y \in links', x.token = y.token PROVE x = y
      BY Zenon
    <2>1. PICK l \in links : x = older(l) /\ x.token = l.token
      BY <1>4, Zenon
    <2>2. PICK m \in links : y = older(m) /\ y.token = m.token
      BY <1>4, Zenon
    <2>3. l = m
      BY <2>1, <2>2, Zenon DEF RelayInv, PendingInv, PendingIsLive
    <2> QED BY <2>1, <2>2, <2>3, Zenon
  <1>8. \A x \in links' : session'[x.conn] = "open"
    <2> SUFFICES ASSUME NEW x \in links' PROVE session[x.conn] = "open"
      BY <1>1, Zenon
    <2>1. PICK l \in links : x.conn = l.conn
      BY <1>4, Zenon
    <2> QED BY <2>1, Zenon DEF RelayInv, PendingInv, PendingIsLive
  <1>9. links' \subseteq Links'
    BY <1>1, <1>2, Zenon DEF Links, Tokens
  <1>10. PendingInv'
    BY <1>1, <1>3, <1>6, <1>7, <1>8, <1>9, Zenon DEF RelayInv, PendingInv, PendingIsLive
  <1> QED BY <1>1, <1>10, MailStays, TasksStay, NotesStay, TasksContinue, Zenon DEF RelayInv

\* A sweep drops the links that are too old and tells idle sessions to close.
LEMMA SweepKeeps ==
  ASSUME RelayInv, asks' = asks, Sweep
  PROVE  RelayInv'
  <1>1. /\ UNCHANGED <<session, inbox, active_pairings, tasks, answers>>
        /\ links' = links \ Expired
        /\ pairings_pending' = pairings_pending - Cardinality({l.token : l \in Expired})
    BY Zenon DEF Sweep
  <1>2. Expired \subseteq links /\ \A l \in links \ Expired : session'[l.conn] = "open"
    BY <1>1, Zenon DEF Expired, RelayInv, PendingInv, PendingIsLive
  <1>3. DOMAIN session' = Conn
    BY <1>1, Zenon DEF RelayInv, PendingInv
  <1>4. PendingInv'
    BY <1>1, <1>2, <1>3, PendingShrinks, Zenon DEF RelayInv
  <1>5. NotesInv'
    <2>1. DOMAIN outbox' = Conn
      BY Zenon DEF Sweep
    <2> SUFFICES ASSUME NEW c \in Conn PROVE outbox'[c] \in Seq(Notes(tasks, c))
      BY <1>1, <2>1, Zenon DEF RelayInv, NotesInv
    <2>2. CloseOf(c) \in Notes(tasks, c)
      BY Zenon DEF Notes
    <2>3. outbox[c] \in Seq(Notes(tasks, c)) /\ Append(outbox[c], CloseOf(c)) \in Seq(Notes(tasks, c))
      BY <2>2, Pushed, Zenon DEF RelayInv, NotesInv
    <2>4. outbox'[c] = outbox[c] \/ outbox'[c] = Append(outbox[c], CloseOf(c))
      BY Zenon DEF Sweep
    <2> QED BY <2>3, <2>4, Zenon
  <1> QED BY <1>1, <1>4, <1>5, MailStays, TasksStay, Zenon DEF RelayInv

----------------------------------------------------------------------------
(* The theorems.                                                           *)

\* RelayInv gives what the relay promises.
LEMMA RelayInvIsSound ==
  ASSUME RelayInv
  PROVE  RelayIsSound
  <1>1. BridgeEndsMeet
    <2> SUFFICES ASSUME NEW c \in Conn, NEW a \in answers[c]
                 PROVE  LET t == tasks[a.stream[1]]
                            near == IF a.stream[2] = 1 THEN t.first ELSE t.second
                            far == IF a.stream[2] = 1 THEN t.second ELSE t.first
                        IN  /\ t.token = a.token /\ near.conn = c /\ near.is_initiator = a.is_initiator
                            /\ far.is_initiator # near.is_initiator
      BY Zenon DEF BridgeEndsMeet
    <2>1. a \in Notes(tasks, c) /\ a.kind = "PairMatched"
      BY Zenon DEF RelayInv, NotesInv
    <2>2. a # CloseOf(c)
      BY <2>1 DEF CloseOf
    <2>3. ASSUME NEW i \in DOMAIN tasks, tasks[i].first.conn = c,
                 a = PairMatched(i, tasks[i].token, tasks[i].first, 1)
          PROVE  /\ a.stream[1] = i /\ a.stream[2] = 1 /\ a.token = tasks[i].token
                 /\ a.is_initiator = tasks[i].first.is_initiator
      BY <2>3 DEF PairMatched
    <2>4. ASSUME NEW i \in DOMAIN tasks, tasks[i].second.conn = c,
                 a = PairMatched(i, tasks[i].token, tasks[i].second, 2)
          PROVE  /\ a.stream[1] = i /\ a.stream[2] # 1 /\ a.token = tasks[i].token
                 /\ a.is_initiator = tasks[i].second.is_initiator
      BY <2>4 DEF PairMatched
    <2>5. \A i \in DOMAIN tasks : tasks[i].first.is_initiator # tasks[i].second.is_initiator
      BY Zenon DEF RelayInv, TasksInv
    <2>6. CASE \E i \in DOMAIN tasks : /\ tasks[i].first.conn = c
                                       /\ a = PairMatched(i, tasks[i].token, tasks[i].first, 1)
      BY <2>3, <2>5, <2>6, Zenon
    <2>7. CASE \E i \in DOMAIN tasks : /\ tasks[i].second.conn = c
                                       /\ a = PairMatched(i, tasks[i].token, tasks[i].second, 2)
      BY <2>4, <2>5, <2>7, Zenon
    <2> QED BY <2>1, <2>2, <2>6, <2>7, Zenon DEF Notes
  <1> QED BY <1>1, Zenon DEF RelayIsSound, RelayInv, PendingInv, TasksInv

\* The invariant holds before the relay has any session.
LEMMA RelayInvStarts ==
  ASSUME Init
  PROVE  RelayInv
  <1>1. RelayInit
    BY Zenon DEF Init
  <1>2. MailInv
    BY <1>1 DEF RelayInit, MailInv
  <1>3. PendingInv
    <2>1. links = {} /\ {l.token : l \in links} = {} /\ pairings_pending = 0 /\ DOMAIN session = Conn
      BY <1>1, Zenon DEF RelayInit
    <2>2. IsFiniteSet({}) /\ Cardinality({}) = 0
      BY FS_EmptySet, Zenon
    <2> QED BY <2>1, <2>2, Zenon DEF PendingInv, PendingIsLive
  <1>4. TasksInv
    <2>1. tasks = << >>
      BY <1>1, Zenon DEF RelayInit
    <2>2. tasks \in Seq(Tasks) /\ DOMAIN tasks = {}
      BY <2>1
    <2> QED BY <2>2, Zenon DEF TasksInv, BridgeIsReachable
  <1>5. NotesInv
    <2>1. \A c \in Conn : << >> \in Seq(Notes(tasks, c))
      OBVIOUS
    <2> QED BY <1>1, <2>1, Zenon DEF RelayInit, NotesInv
  <1> QED BY <1>2, <1>3, <1>4, <1>5, Zenon DEF RelayInv

\* Every step of Reach keeps the invariant: the calls do not touch the relay's state.
LEMMA RelayInvStep ==
  ASSUME RelayInv, [Next]_vars
  PROVE  RelayInv'
  <1>1. CASE UNCHANGED relayVars
    <2>1. UNCHANGED <<asks, session, inbox, outbox, links, active_pairings, pairings_pending, tasks, answers>>
      BY <1>1, Zenon DEF relayVars
    <2>2. DOMAIN session' = Conn /\ \A d \in Conn : session[d] = "open" => session'[d] = "open"
      BY <2>1, Zenon DEF RelayInv, PendingInv
    <2> QED BY <2>1, <2>2, MailStays, PendingStays, TasksStay, NotesStay, TasksContinue, Zenon DEF RelayInv
  <1>2. CASE RelayMoves /\ asks' = asks
    <2>1. ASSUME NEW m \in asks, Ask(m) PROVE RelayInv'
      <3>1. m.conn \in Conn
        BY RelayAssumption, Zenon DEF RelayInv, MailInv
      <3> QED BY <1>2, <2>1, <3>1, SendKeeps, Zenon
    <2> QED BY <1>2, <2>1, BeginKeeps, SendKeeps, ReadsKeeps, ToldKeeps, BridgeKeeps, EndKeeps,
               MarkKeeps, TimeKeeps, SweepKeeps, Zenon DEF RelayMoves
  <1>3. UNCHANGED relayVars \/ (RelayMoves /\ asks' = asks)
    BY Zenon DEF Next, vars
  <1> QED BY <1>1, <1>2, <1>3, Zenon

(***************************************************************************)
(* Whatever peers ask of the relay, in whatever order sessions, bridging   *)
(* tasks, calls and the sweep run (BlindRelayServer and relay_service.rs): *)
(* the inductive invariant holds throughout.                               *)
(***************************************************************************)
THEOREM RelayInvariance == Spec => []RelayInv
  BY RelayInvStarts, RelayInvStep, PTL DEF Spec

(***************************************************************************)
(* RelayIsSound for every number of connections and messages and every     *)
(* limit: a waiting pairing has one side of a session that runs and is     *)
(* counted, the two ends of a bridge meet, and a bridge that forwards can  *)
(* be taken down.                                                          *)
(***************************************************************************)
THEOREM RelayAlwaysSound == Spec => []RelayIsSound
  BY RelayInvariance, RelayInvIsSound, PTL
====
