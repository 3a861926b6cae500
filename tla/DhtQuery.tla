------------------------------ MODULE DhtQuery ------------------------------
(***************************************************************************)
(* The iterative query (query.rs) as operators on a record.  A handler     *)
(* returns the query and the requests it wants sent, in order.  Addresses  *)
(* stand for host and port; IdOf is the hash that gives a node its id.     *)
(***************************************************************************)
EXTENDS RoutingTable

CONSTANTS
    Addr,   \* addresses of nodes
    IdOf    \* peer_id: the id of the node at an address

NewQuery(target, commit, internal, concurrency, own_id) ==
    [target |-> target, commit |-> commit, internal |-> internal,
     concurrency |-> concurrency, own_id |-> own_id,
     inflight |-> 0, slowdown |-> FALSE, successes |-> 0, errors |-> 0,
     from_table |-> FALSE, committing |-> FALSE, commit_inflight |-> 0,
     seen |-> [a \in {} |-> {}], pending |-> <<>>, closest |-> <<>>, finished |-> FALSE]

Distance(q, id) == q.target ^^ id

\* Not yet K replies, or nearer than the last of them.
IsCloser(q, id) ==
    \/ Len(q.closest) < K
    \/ Distance(q, id) < Distance(q, IdOf[q.closest[Len(q.closest)].from])

\* Mutant: the reply goes to the end, where a full list drops it.
PushLast(q, reply) == [q EXCEPT !.closest = FirstOf(K, Append(@, reply))]

\* Insertion from the end; a reply at the same distance is not added again.
PushClosest(q, reply) ==
    LET d(r) == Distance(q, IdOf[r.from])
        nearer == SelectSeq(q.closest, LAMBDA r : d(r) < d(reply))
        farther == SelectSeq(q.closest, LAMBDA r : d(r) > d(reply))
    IN  IF \E i \in DOMAIN q.closest : d(q.closest[i]) = d(reply) THEN q
        ELSE [q EXCEPT !.closest = FirstOf(K, nearer \o <<reply>> \o farther)]

Query(q, a) == [kind |-> "query", to |-> a, internal |-> q.internal, target |-> <<q.target>>]
Commit(q, r) == [kind |-> "commit", to |-> r.from, internal |-> q.internal, target |-> <<q.target>>]
DownHint(referrer) == [kind |-> "down_hint", to |-> referrer, internal |-> TRUE, target |-> <<>>]

----------------------------------------------------------------------------
(* Nodes to ask.                                                           *)

Pending(refs) == [state |-> "pending", refs |-> refs]
Done == [state |-> "done", refs |-> <<>>]
Down == [state |-> "down", refs |-> <<>>]

IsPending(q, a) == a \in DOMAIN q.seen /\ q.seen[a].state = "pending"

\* A node met for the first time is pushed if it is closer; a node that waits
\* gets one more referrer; a referrer of a node that is down is told so.
AddPending(q, a, referrer) ==
    IF IsPending(q, a) THEN [q EXCEPT !.seen[a].refs = @ \o referrer]
    ELSE IF a \in DOMAIN q.seen \/ ~IsCloser(q, IdOf[a]) THEN q
    ELSE [q EXCEPT !.seen = Put(@, a, Pending(referrer)), !.pending = Append(@, a)]

HintsFor(q, a, referrer) ==
    IF a \in DOMAIN q.seen /\ q.seen[a] = Down /\ referrer # <<>>
    THEN <<DownHint(referrer[1])>> ELSE <<>>

RECURSIVE AddAll(_, _)
AddAll(q, addrs) ==
    IF addrs = <<>> THEN q ELSE AddAll(AddPending(q, Head(addrs), <<>>), Tail(addrs))

Addresses(table, ids) == [i \in DOMAIN ids |-> table.nodes[ids[i]].addr]

AddFromTable(q, table) ==
    IF Len(q.pending) >= K THEN q
    ELSE AddAll([q EXCEPT !.from_table = TRUE],
                Addresses(table, Closest(table, q.target, K - Len(q.pending))))

AddNodes(q, addrs) == AddAll(q, SelectSeq(addrs, LAMBDA a : IdOf[a] # q.own_id))

----------------------------------------------------------------------------
(* Sending and finishing.                                                  *)

Effective(q) == IF q.slowdown /\ q.concurrency > 3 THEN 3 ELSE q.concurrency

\* Pop nodes while there is room, skipping those that are no longer closer.
RECURSIVE PopPending(_, _)
PopPending(q, reqs) ==
    IF q.inflight >= Effective(q) \/ q.pending = <<>> THEN [q |-> q, reqs |-> reqs]
    ELSE IF IsCloser(q, IdOf[Last(q.pending)])
    THEN PopPending([q EXCEPT !.pending = Front(@), !.inflight = @ + 1],
                    Append(reqs, Query(q, Last(q.pending))))
    ELSE PopPending([q EXCEPT !.pending = Front(@)], reqs)

\* Nothing left to ask: finish, or ask the closest nodes again to commit, each
\* with the token of its reply.
Flush(q) ==
    LET commits == SelectSeq(q.closest, LAMBDA r : r.token)
    IN  IF ~q.commit \/ commits = <<>>
        THEN [q |-> [q EXCEPT !.committing = TRUE, !.finished = TRUE], reqs |-> <<>>]
        ELSE [q |-> [q EXCEPT !.committing = TRUE, !.commit_inflight = Len(commits)],
              reqs |-> [i \in DOMAIN commits |-> Commit(q, commits[i])]]

\* Few answers and the table not used yet: try its nodes before finishing.
FallsBack(q) == ~q.from_table /\ q.successes < K \div 4

After(reqs, result) == [result EXCEPT !.reqs = reqs \o @]

Slowed(q) == [q EXCEPT !.slowdown = @ \/ (~q.from_table /\ q.successes = 0 /\ q.errors = 0)]

RECURSIVE ReadMore(_, _)
ReadMore(q, table) ==
    LET exhausted(p) == IF p.pending # <<>> THEN ReadMore(p, table) ELSE Flush(p)
        settle(p, reqs) ==
            IF p.pending # <<>> \/ p.inflight > 0 THEN [q |-> p, reqs |-> reqs]
            ELSE After(reqs, exhausted(IF FallsBack(p) THEN AddFromTable(p, table) ELSE p))
        popped(r) == settle(Slowed(r.q), r.reqs)
    IN  IF q.finished \/ q.committing THEN [q |-> q, reqs |-> <<>>]
        ELSE popped(PopPending(q, <<>>))

----------------------------------------------------------------------------
(* Answers and timeouts.                                                   *)

Dec(n) == IF n > 0 THEN n - 1 ELSE 0

\* The closer nodes of an answer are added up to the first that is not closer.
RECURSIVE AddCloser(_, _, _, _)
AddCloser(q, nodes, from, reqs) ==
    IF nodes = <<>> THEN [q |-> q, reqs |-> reqs]
    ELSE IF IdOf[Head(nodes)] = q.own_id THEN AddCloser(q, Tail(nodes), from, reqs)
    ELSE AddCloser(AddPending(q, Head(nodes), <<from>>),
                   IF IsCloser(q, IdOf[Head(nodes)]) THEN Tail(nodes) ELSE <<>>,
                   from, reqs \o HintsFor(q, Head(nodes), <<from>>))

OnResponse(q, res, table) ==
    LET ok == res.error = 0
        answered(p) == [p EXCEPT !.inflight = Dec(@), !.seen = Put(@, res.from, Done)]
        counted(p) == IF ok THEN [p EXCEPT !.successes = @ + 1] ELSE [p EXCEPT !.errors = @ + 1]
        pushed(p) == IF ok /\ res.id # <<>> /\ IsCloser(p, res.id[1])
                     THEN PushClosest(p, [from |-> res.from, token |-> res.token # <<>>]) ELSE p
        fast(p) == [p EXCEPT !.slowdown = @ /\ (q.from_table \/ p.successes + p.errors < q.concurrency)]
        more(r) == After(r.reqs, ReadMore(fast(r.q), table))
    IN  IF q.committing THEN [q |-> answered(q), reqs |-> <<>>]
        ELSE more(AddCloser(pushed(counted(answered(q))), res.closer_nodes, res.from, <<>>))

\* Mutant: a request that timed out still counts as in flight.
OnTimeoutUncounted(q, to, table) ==
    LET down == [q EXCEPT !.seen = Put(@, to, Down), !.errors = @ + 1]
    IN  IF q.committing THEN [q |-> down, reqs |-> <<>>] ELSE ReadMore(down, table)

OnTimeout(q, to, table) ==
    LET referrers == IF IsPending(q, to) THEN q.seen[to].refs ELSE <<>>
        hints == [i \in DOMAIN referrers |-> DownHint(referrers[i])]
        down == [q EXCEPT !.seen = Put(@, to, Down), !.inflight = Dec(@), !.errors = @ + 1]
    IN  After(hints, IF q.committing THEN [q |-> down, reqs |-> <<>>] ELSE ReadMore(down, table))

OnCommitDone(q) ==
    [q EXCEPT !.commit_inflight = Dec(@), !.finished = @ \/ Dec(q.commit_inflight) = 0]

=============================================================================
