-------------------------- MODULE HyperStoreProofs --------------------------
(***************************************************************************)
(* Theorems about HyperStore: a node's storage keeps its limits and its    *)
(* records leave it only for a reason, and reads of mutable records do not *)
(* go back, whatever calls, retries, late copies and steps of time come.   *)
(***************************************************************************)
EXTENDS RecordProofs

----------------------------------------------------------------------------
(* What a step must show.                                                  *)

\* The storages stay in order, and no mutable record goes back.
StorageGoesOn ==
    /\ storage' = [n \in Node |-> storage'[n]]
    /\ \A n \in Node : StorageOK(storage'[n]) /\ Onward(storage[n].mutables, storage'[n].mutables)

\* A storage stays as it is.
LEMMA StoragesAre ==
  ASSUME StoreInv, NEW n \in Node
  PROVE  StorageOK(storage[n]) /\ Onward(storage[n].mutables, storage[n].mutables)
  <1>1. StorageOK(storage[n])
    BY Zenon DEF StoreInv
  <1>2. MutablesOK(storage[n].mutables)
    BY <1>1, StorageParts, Zenon
  <1> QED BY <1>1, <1>2, OnwardSame, Zenon

\* A step that leaves the storages alone.
LEMMA StoragesSame ==
  ASSUME StoreInv, storage' = storage
  PROVE  StorageGoesOn
  <1>1. storage = [n \in Node |-> storage[n]]
    BY Zenon DEF StoreInv
  <1> QED BY <1>1, StoragesAre, Zenon DEF StorageGoesOn

\* A step that changes the storage of one node.
LEMMA StorageAt ==
  ASSUME StoreInv, NEW n \in Node, storage' = [d \in Node |-> storage'[d]],
         \A d \in Node : d # n => storage'[d] = storage[d],
         StorageOK(storage'[n]), Onward(storage[n].mutables, storage'[n].mutables)
  PROVE  StorageGoesOn
  BY StoragesAre, Zenon DEF StorageGoesOn

\* A query leaves the mutable records alone.
LEMMA LookedGoesOn ==
  ASSUME NEW st, StorageOK(st), NEW st2, Looked(st, st2)
  PROVE  StorageOK(st2) /\ Onward(st.mutables, st2.mutables)
  <1>1. Onward(st.mutables, st.mutables)
    BY StorageParts, OnwardSame, Zenon
  <1> QED BY <1>1, Zenon DEF Looked

\* So does an announcement.
LEMMA AnnouncedGoesOn ==
  ASSUME NEW st, StorageOK(st), NEW st2, Announced(st, st2)
  PROVE  StorageOK(st2) /\ Onward(st.mutables, st2.mutables)
  <1>1. Onward(st.mutables, st.mutables)
    BY StorageParts, OnwardSame, Zenon
  <1> QED BY <1>1, Zenon DEF Announced

\* What a step about the call of c must show.
LEMMA InvOfCall ==
  ASSUME StoreInv, NEW c \in Client, Same(c), op'[c] = Idle \/ IsOp(op'[c], calls'),
         calls' \in Nat, calls <= calls', ticks' = ticks, workload' = workload, StorageGoesOn,
         \A m \in net' : m \in net \/ IsRequest(m, op', calls')
  PROVE  StoreInv'
  <1>1. op' = [d \in Client |-> op'[d]] /\ \A d \in Client : op'[d] = Idle \/ IsOp(op'[d], calls')
    BY CallsStay, Zenon DEF Same
  <1>2. \A m \in net' : IsRequest(m, op', calls')
    BY RequestsStay, Zenon
  <1>3. workload' \in Workloads /\ ticks' \in Nat
    BY Zenon DEF StoreInv
  <1> QED BY <1>1, <1>2, <1>3, Zenon DEF StoreInv, StorageGoesOn

\* What a step about no call must show.
LEMMA InvOfNoCall ==
  ASSUME StoreInv, op' = op, calls' \in Nat, calls <= calls', ticks' \in Nat, workload' = workload,
         StorageGoesOn, \A m \in net' : m \in net \/ IsRequest(m, op, calls)
  PROVE  StoreInv'
  <1>1. calls \in Nat /\ op = [d \in Client |-> op[d]]
    BY Zenon DEF StoreInv
  <1>2. ASSUME NEW d \in Client, op[d] # Idle PROVE IsOp(op[d], calls')
    <2>1. IsOp(op[d], calls)
      BY <1>2, Zenon DEF StoreInv
    <2>2. op[d].n \in Nat /\ op[d].n < calls
      BY <2>1, Zenon DEF IsOp
    <2>3. op[d].n < calls'
      BY <1>1, <2>2
    <2> QED BY <2>1, <2>3, Zenon DEF IsOp
  <1>3. ASSUME NEW m \in net' PROVE IsRequest(m, op, calls')
    <2>1. IsRequest(m, op, calls)
      BY Zenon DEF StoreInv
    <2>2. m.n \in Nat /\ m.n < calls
      BY <2>1, Zenon DEF IsRequest
    <2>3. m.n < calls'
      BY <1>1, <2>2
    <2> QED BY <2>1, <2>3, Zenon DEF IsRequest
  <1>4. workload' \in Workloads
    BY Zenon DEF StoreInv
  <1> QED BY <1>1, <1>2, <1>3, <1>4, Zenon DEF StoreInv, StorageGoesOn

\* A call that goes on stays a call, and its own.
LEMMA OnwardsIsOp ==
  ASSUME NEW c \in Client, OnlyOf(c), op[c] # Idle, NEW x, IsOp(op[c], x),
         NEW phase \in {"query", "commit"}, NEW ask, NEW replies, IsSeq(replies),
         NEW commit, Apart(commit), phase = "query" => commit = <<>>,
         NEW timeouts \in Nat, NEW stale,
         Onwards(op[c], op'[c], phase, ask, replies, commit, timeouts, stale)
  PROVE  IsOp(op'[c], x) /\ Same(c)
  <1>1. /\ IsCall(op'[c]) /\ op'[c].phase = phase /\ op'[c].n = op[c].n /\ op'[c].call = op[c].call
        /\ op'[c].replies = replies /\ op'[c].commit = commit /\ op'[c].commit_timeouts = timeouts
    BY Zenon DEF Onwards
  <1>2. op[c].n \in Nat /\ op[c].n < x /\ op[c].call \in UNION Workloads
    BY Zenon DEF IsOp
  <1>3. IsOp(op'[c], x)
    BY <1>1, <1>2, Zenon DEF IsOp
  <1> QED BY <1>1, <1>3, Zenon DEF Same

----------------------------------------------------------------------------
(* The steps of calls.                                                     *)

\* The storages after a query: records are pruned, nothing else changes.
StorageQueried ==
    /\ storage' = [n \in Node |-> storage'[n]]
    /\ \A n \in Node : storage'[n] = storage[n] \/ Looked(storage[n], storage'[n])

\* Queries leave the storages in order.
LEMMA QueriedGoesOn ==
  ASSUME StoreInv, StorageQueried
  PROVE  StorageGoesOn
  BY StoragesAre, LookedGoesOn, Zenon DEF StorageQueried, StorageGoesOn

\* The invariant holds initially.
LEMMA StoreInvInit ==
  ASSUME Init
  PROVE  StoreInv
  <1>1. PICK st \in Kept : storage = [n \in Node |-> st]
    BY Zenon DEF Init
  <1>2. storage = [n \in Node |-> storage[n]] /\ \A n \in Node : StorageOK(storage[n])
    BY <1>1, KeptAssumption, Zenon
  <1>3. op = [c \in Client |-> op[c]] /\ \A c \in Client : op[c] = Idle
    BY Zenon DEF Init
  <1>4. 0 \in Nat
    OBVIOUS
  <1> QED BY <1>2, <1>3, <1>4, Zenon DEF Init, StoreInv

\* No nodes at all are apart.
LEMMA EmptyApart == Apart(<<>>) /\ IsSeq(<<>>)
  <1>1. Len(<<>>) = 0 /\ <<>> \in Seq({}) /\ \A i \in 1 .. 0 : FALSE
    OBVIOUS
  <1>2. IsSeq(<<>>)
    BY <1>1, SeqIs, Zenon
  <1> QED BY <1>1, <1>2, Zenon DEF Apart

\* A call starts.
LEMMA StartKeeps ==
  ASSUME StoreInv, NEW c \in Client, NEW call \in workload, Start(c, call), workload' = workload
  PROVE  StoreInv' /\ StorageGoesOn
  <1> DEFINE fl == IF call.target \in MutableKeys THEN floor[call.target] ELSE 0
             o == Op("query", calls, call, Node, <<>>, <<>>, 0, FALSE, fl)
  <1>1. OnlyOf(c) /\ op[c] = Idle /\ op'[c] = o
    BY StartOp, Zenon
  <1> HIDE DEF fl
  <1>2. /\ o.phase = "query" /\ o.n = calls /\ o.call = call /\ o.ask = Node /\ o.replies = <<>>
        /\ o.commit = <<>> /\ o.commit_timeouts = 0 /\ o.stale = FALSE /\ o.floor = fl
    BY DEF Op
  <1>3. IsCall(o)
    BY <1>2, Zenon DEF IsCall
  <1> HIDE DEF o
  <1>4. calls \in Nat /\ calls' = calls + 1 /\ call \in UNION Workloads
    BY Zenon DEF StoreInv, Start
  <1>5. calls' \in Nat /\ calls < calls' /\ calls <= calls' /\ 0 \in Nat
    BY <1>4
  <1>6. IsOp(op'[c], calls')
    BY <1>1, <1>2, <1>3, <1>4, <1>5, EmptyApart, Zenon DEF IsOp
  <1>7. Same(c)
    BY <1>1, <1>2, Zenon DEF Same
  <1>8. storage' = storage /\ net' = net /\ ticks' = ticks
    BY Zenon DEF Start
  <1>9. StorageGoesOn
    BY <1>8, StoragesSame, Zenon
  <1> QED BY <1>5, <1>6, <1>7, <1>8, <1>9, InvOfCall, Zenon

\* A node answers a query.
LEMMA QueryReplyKeeps ==
  ASSUME StoreInv, NEW c \in Client, NEW n \in Node, QueryReply(c, n), workload' = workload
  PROVE  StoreInv' /\ StorageGoesOn /\ StorageQueried
  <1> DEFINE o == op[c]
             r == Listing(o, n, QueryAnswer(storage[n], o.call).value)
  <1>1. /\ OnlyOf(c) /\ o # Idle /\ IsOp(o, calls)
        /\ Onwards(o, op'[c], o.phase, o.ask \ {n}, r, o.commit, o.commit_timeouts, o.stale)
    BY QueryReplyOp, Zenon
  <1>2. /\ o.phase \in {"query", "commit"} /\ Apart(o.commit) /\ IsSeq(o.replies)
        /\ o.commit_timeouts \in Nat /\ (o.phase = "query" => o.commit = <<>>)
    BY <1>1, Zenon DEF IsOp
  <1>3. IsSeq(r)
    BY <1>2, ListingIs, Zenon
  <1> HIDE DEF r
  <1>4. IsOp(op'[c], calls) /\ Same(c)
    BY <1>1, <1>2, <1>3, OnwardsIsOp, Zenon
  <1>5. storage' = [storage EXCEPT ![n] = AfterQuery(storage[n], o.call)]
    BY Zenon DEF QueryReply
  <1>6. net' = net /\ ticks' = ticks /\ calls' = calls
    BY Zenon DEF QueryReply
  <1>7. /\ storage = [d \in Node |-> storage[d]] /\ StorageOK(storage[n])
    BY Zenon DEF StoreInv
  <1>8. Looked(storage[n], AfterQuery(storage[n], o.call))
    BY <1>7, AfterQueryOK, Zenon
  <1>9. StorageQueried
    BY <1>5, <1>7, <1>8, Zenon DEF StorageQueried
  <1>10. StorageGoesOn
    BY <1>9, QueriedGoesOn, Zenon
  <1>11. calls' \in Nat /\ calls <= calls'
    <2>1. calls \in Nat
      BY Zenon DEF StoreInv
    <2> QED BY <1>6, <2>1
  <1> QED BY <1>4, <1>6, <1>9, <1>10, <1>11, InvOfCall, Zenon

\* A query gives up on a node.
LEMMA QueryTimesOutKeeps ==
  ASSUME StoreInv, NEW c \in Client, NEW n \in Node, QueryTimesOut(c, n), workload' = workload
  PROVE  StoreInv' /\ StorageGoesOn
  <1> DEFINE o == op[c]
  <1>1. /\ OnlyOf(c) /\ o # Idle /\ IsOp(o, calls)
        /\ Onwards(o, op'[c], o.phase, o.ask \ {n}, o.replies, o.commit, o.commit_timeouts, o.stale)
    BY QueryTimesOutOp, Zenon
  <1>2. /\ o.phase \in {"query", "commit"} /\ Apart(o.commit) /\ IsSeq(o.replies)
        /\ o.commit_timeouts \in Nat /\ (o.phase = "query" => o.commit = <<>>)
    BY <1>1, Zenon DEF IsOp
  <1>4. IsOp(op'[c], calls) /\ Same(c)
    BY <1>1, <1>2, OnwardsIsOp, Zenon
  <1>6. net' = net /\ ticks' = ticks /\ calls' = calls /\ storage' = storage
    BY Zenon DEF QueryTimesOut
  <1>10. StorageGoesOn
    BY <1>6, StoragesSame, Zenon
  <1>11. calls' \in Nat /\ calls <= calls'
    <2>1. calls \in Nat
      BY Zenon DEF StoreInv
    <2> QED BY <1>6, <2>1
  <1> QED BY <1>4, <1>6, <1>10, <1>11, InvOfCall, Zenon

\* A query ends and the first request is sent.
LEMMA QueryCommitsKeeps ==
  ASSUME StoreInv, NEW c \in Client, NEW replied, QueryCommits(c, replied), workload' = workload
  PROVE  StoreInv' /\ StorageGoesOn /\ StorageQueried /\ net \subseteq net'
  <1> DEFINE o == op[c]
             k == Replied(replied)
             r == [i \in DOMAIN k |-> [from |-> k[i]]]
  <1>1. /\ OnlyOf(c) /\ o # Idle /\ IsOp(o, calls)
        /\ Onwards(o, op'[c], "commit", {}, r, k, o.commit_timeouts, o.stale)
        /\ net' = IF k = <<>> THEN net ELSE net \cup {Request(c, o, k[1])}
    BY QueryCommitsOp, Zenon
  <1>2. o.commit_timeouts \in Nat
    BY <1>1, Zenon DEF IsOp
  <1>3. Apart(k)
    BY RepliedApart, Zenon
  <1> HIDE DEF k
  <1>4. IsSeq(r)
    <2>1. k \in Seq(Range(k))
      BY <1>3, Zenon DEF Apart, IsSeq
    <2> DEFINE R == Range(k)
    <2> HIDE DEF R
    <2>2. ASSUME k \in Seq(R) PROVE r \in Seq({[from |-> x] : x \in R})
      BY <2>2
    <2>3. r \in Seq({[from |-> x] : x \in R})
      BY <2>1, <2>2, Zenon DEF R
    <2> QED BY <2>3, SeqIs, Zenon
  <1> HIDE DEF r
  <1>5. IsOp(op'[c], calls) /\ Same(c)
    BY <1>1, <1>2, <1>3, <1>4, OnwardsIsOp, Zenon
  <1>6. storage' = [n \in Node |-> IF n \in replied THEN AfterQuery(storage[n], o.call) ELSE storage[n]]
    BY Zenon DEF QueryCommits
  <1>7. ticks' = ticks /\ calls' = calls
    BY Zenon DEF QueryCommits
  <1>8. \A n \in Node : StorageOK(storage[n])
    BY Zenon DEF StoreInv
  <1>9. StorageQueried
    BY <1>6, <1>8, AfterQueryOK, Zenon DEF StorageQueried
  <1>10. StorageGoesOn
    BY <1>9, QueriedGoesOn, Zenon
  <1>11. calls' \in Nat /\ calls \in Nat /\ calls <= calls'
    <2>1. calls \in Nat
      BY Zenon DEF StoreInv
    <2> QED BY <1>7, <2>1
  <1>12. ASSUME NEW m \in net', m \notin net PROVE IsRequest(m, op', calls')
    <2>1. k # <<>> /\ m = Request(c, o, k[1])
      BY <1>1, <1>12, Zenon
    <2>2. k[1] \in Node
      BY <1>3, <2>1, TailApart, Zenon
    <2>3. op'[c].call = o.call
      BY <1>1, Zenon DEF Onwards
    <2> QED BY <1>1, <1>11, <2>1, <2>2, <2>3, NewRequest, Zenon
  <1>13. net \subseteq net'
    BY <1>1, Zenon
  <1>14. StoreInv'
    BY <1>5, <1>7, <1>10, <1>11, <1>12, InvOfCall, Zenon
  <1> QED BY <1>9, <1>10, <1>13, <1>14, Zenon

\* The next request of a call.
LEMMA NextRequestIs ==
  ASSUME NEW c \in Client, NEW x \in Nat, IsOp(op[c], x), op[c].commit # <<>>,
         op'[c].call = op[c].call, NEW m \in NextRequest(c)
  PROVE  IsRequest(m, op', x) /\ m.to # op[c].commit[1]
  <1> DEFINE o == op[c]
  <1>1. Len(o.commit) # 1 /\ m = Request(c, o, o.commit[2])
    BY Zenon DEF NextRequest
  <1>2. o.commit[2] \in Node /\ o.commit[2] # o.commit[1]
    BY <1>1, TailApart, Zenon DEF IsOp
  <1>3. x <= x
    OBVIOUS
  <1>4. IsRequest(m, op', x)
    BY <1>1, <1>2, <1>3, NewRequest, Zenon
  <1> DEFINE n == o.commit[2]
  <1>5. Request(c, o, n).to = n
    <2> HIDE DEF o, n
    <2> QED BY DEF Request
  <1> QED BY <1>1, <1>2, <1>4, <1>5, Zenon

\* A request is given up and the next one is sent.
LEMMA CommitTimesOutKeeps ==
  ASSUME StoreInv, NEW c \in Client, CommitTimesOut(c), workload' = workload
  PROVE  StoreInv' /\ StorageGoesOn
  <1> DEFINE o == op[c]
             k == Tail(o.commit)
             t == o.commit_timeouts + 1
  <1>1. /\ OnlyOf(c) /\ o # Idle /\ IsOp(o, calls)
        /\ Onwards(o, op'[c], o.phase, o.ask, o.replies, k, t, o.stale)
    BY CommitTimesOutOp, Zenon
  <1>2. /\ o.phase = "commit" /\ Apart(o.commit) /\ IsSeq(o.replies) /\ o.commit_timeouts \in Nat
        /\ o.commit # <<>>
    BY <1>1, Zenon DEF IsOp, CommitTimesOut
  <1>3. Apart(k)
    BY <1>2, TailApart, Zenon
  <1>4. t \in Nat
    BY <1>2
  <1> HIDE DEF k, t
  <1>5. IsOp(op'[c], calls) /\ Same(c)
    BY <1>1, <1>2, <1>3, <1>4, OnwardsIsOp, Zenon
  <1>6. /\ net' = net \cup NextRequest(c) /\ ticks' = ticks /\ calls' = calls /\ storage' = storage
    BY Zenon DEF CommitTimesOut
  <1>7. StorageGoesOn
    BY <1>6, StoragesSame, Zenon
  <1>8. calls' \in Nat /\ calls \in Nat /\ calls <= calls'
    <2>1. calls \in Nat
      BY Zenon DEF StoreInv
    <2> QED BY <1>6, <2>1
  <1>9. op'[c].call = o.call
    BY <1>1, Zenon DEF Onwards
  <1>10. \A m \in net' : m \in net \/ IsRequest(m, op', calls')
    BY <1>1, <1>2, <1>6, <1>8, <1>9, NextRequestIs, Zenon
  <1> QED BY <1>5, <1>6, <1>7, <1>8, <1>10, InvOfCall, Zenon

\* A call ends.
LEMMA FinishKeeps ==
  ASSUME StoreInv, NEW c \in Client, Finish(c), workload' = workload
  PROVE  StoreInv' /\ StorageGoesOn
  <1>1. OnlyOf(c) /\ op'[c] = Idle
    BY FinishOp, Zenon
  <1>2. net' = net /\ ticks' = ticks /\ calls' = calls /\ storage' = storage
    BY Zenon DEF Finish
  <1>3. StorageGoesOn
    BY <1>2, StoragesSame, Zenon
  <1>4. calls' \in Nat /\ calls <= calls'
    <2>1. calls \in Nat
      BY Zenon DEF StoreInv
    <2> QED BY <1>2, <2>1
  <1>5. Same(c)
    BY <1>1, Zenon DEF Same
  <1> QED BY <1>1, <1>2, <1>3, <1>4, <1>5, InvOfCall, Zenon

----------------------------------------------------------------------------
(* The steps of requests, of others and of time.                           *)

\* How a step of a behaviour may change the records of a node.
RecordsMove(n) ==
    \/ storage'[n] = storage[n]
    \/ Looked(storage[n], storage'[n])
    \/ Added(storage[n].records, storage'[n].records)
    \/ \E m \in net \ net' :
          /\ m.cmd = "UNANNOUNCE" /\ m.to = n
          /\ Removed(storage[n].records, storage'[n].records, m.req.target, m.client)

\* A request to unannounce names its sender.
LEMMA UnannounceNames ==
  ASSUME StoreInv, NEW m \in net, m.cmd = "UNANNOUNCE"
  PROVE  m.req.msg.peer[1].public_key = m.client
  <1>1. IsRequest(m, op, calls)
    BY Zenon DEF StoreInv
  <1>2. PICK call \in UNION Workloads : Asks(m, call)
    BY <1>1, Zenon DEF IsRequest
  <1> DEFINE c == m.client
             n == m.to
             k == call.target
             p == HyperPeer(c, <<>>)
             g == <<Signed(c, AnnSignable(k, <<n>>, n, p, <<>>, "unannounce"))>>
             msg == [peer |-> <<p>>, refresh |-> <<>>, bump |-> 0, signature |-> g]
             to == <<n>>
             req == [from |-> c, target |-> k, token |-> to, msg |-> msg]
  <1>3. m.req = AnnounceRequest(c, k, n, p, "unannounce")
    BY <1>2 DEF Asks, CommitRequest
  <1>4. m.req = req
    BY <1>3, Zenon DEF AnnounceRequest
  <1>5. p.public_key = c
    BY DEF HyperPeer
  <1> HIDE DEF g, c, n, k, p, to
  <1>6. msg.peer = <<p>>
    OBVIOUS
  <1>7. msg.peer[1] = p
    BY <1>6
  <1> HIDE DEF msg
  <1>8. req.msg = msg
    OBVIOUS
  <1> QED BY <1>4, <1>5, <1>7, <1>8, Zenon DEF c

\* What is left of the requests after a copy is taken.
LEMMA TakenIs ==
  ASSUME NEW m \in net, NEW ops, NEW x, IsRequest(m, ops, x), NEW e \in Taken(m)
  PROVE  e # m /\ (e \in net \/ IsRequest(e, ops, x))
  <1> DEFINE f == [m EXCEPT !.copies = m.copies - 1]
  <1>1. (e \in net /\ e # m) \/ (m.copies > 1 /\ e = f)
    BY Zenon DEF Taken
  <1>2. m.copies > 1 => IsRequest(f, ops, x) /\ f # m
    BY CopyLess, Zenon
  <1> HIDE DEF f
  <1> QED BY <1>1, <1>2, Zenon

\* What the handler of a request does to the records.
LEMMA HandledMoves ==
  ASSUME StoreInv, NEW m \in net, Store(m), m \notin net'
  PROVE  StorageGoesOn /\ \A n \in Node : RecordsMove(n)
  <1> DEFINE a == storage[m.to]
             b == storage'[m.to]
  <1>1. /\ m.to \in Node /\ storage' = [n \in Node |-> storage'[n]]
        /\ \A n \in Node : n # m.to => storage'[n] = storage[n]
        /\ Handled(a, b, m)
    BY HandledByNode, Zenon
  <1>2. StorageOK(b) /\ Onward(a.mutables, b.mutables)
    BY <1>1, Zenon DEF Handled
  <1>3. StorageGoesOn
    BY <1>1, <1>2, StorageAt, Zenon
  <1>4. RecordsMove(m.to)
    <2>1. CASE m.cmd = "UNANNOUNCE"
      <3>1. Removed(a.records, b.records, m.req.target, m.client)
        BY <1>1, <2>1, UnannounceNames, Zenon DEF Handled
      <3> QED BY <2>1, <3>1, Zenon DEF RecordsMove
    <2>2. CASE m.cmd # "UNANNOUNCE"
      BY <1>1, <2>2, Zenon DEF Handled, RecordsMove
    <2> QED BY <2>1, <2>2, Zenon
  <1>5. \A n \in Node : n # m.to => RecordsMove(n)
    BY <1>1, Zenon DEF RecordsMove
  <1> QED BY <1>3, <1>4, <1>5, Zenon

\* A copy of a request arrives.
LEMMA DeliverKeeps ==
  ASSUME StoreInv, NEW m \in net, Deliver(m), workload' = workload
  PROVE  StoreInv' /\ StorageGoesOn /\ \A n \in Node : RecordsMove(n)
  <1>1. /\ Store(m) /\ net' = Taken(m) /\ op' = op /\ calls' = calls /\ ticks' = ticks
    BY Zenon DEF Deliver
  <1>2. IsRequest(m, op, calls) /\ calls \in Nat /\ ticks \in Nat
    BY Zenon DEF StoreInv
  <1>3. calls' \in Nat /\ calls <= calls'
    BY <1>1, <1>2
  <1>4. m \notin net' /\ \A e \in net' : e \in net \/ IsRequest(e, op, calls)
    BY <1>1, <1>2, TakenIs, Zenon
  <1>5. StorageGoesOn /\ \A n \in Node : RecordsMove(n)
    BY <1>1, <1>4, HandledMoves, Zenon
  <1>6. StoreInv'
    BY <1>1, <1>2, <1>3, <1>4, <1>5, InvOfNoCall, Zenon
  <1> QED BY <1>5, <1>6, Zenon

\* A copy of a request arrives, and its call goes on.
LEMMA DeliverAndReplyKeeps ==
  ASSUME StoreInv, NEW m \in net, NEW stale, DeliverAndReply(m, stale), workload' = workload
  PROVE  StoreInv' /\ StorageGoesOn /\ \A n \in Node : RecordsMove(n)
  <1> DEFINE c == m.client
             o == op[c]
             k == Tail(o.commit)
             s == MetStale(o, stale)
  <1>1. /\ c \in Client /\ OnlyOf(c) /\ o # Idle /\ IsOp(o, calls)
        /\ Onwards(o, op'[c], o.phase, o.ask, o.replies, k, o.commit_timeouts, s)
    BY ReplyOp, Zenon
  <1>2. /\ o.phase = "commit" /\ o.commit # <<>> /\ o.commit[1] = m.to
    BY Zenon DEF DeliverAndReply, Awaits
  <1>3. /\ Apart(o.commit) /\ IsSeq(o.replies) /\ o.commit_timeouts \in Nat
    BY <1>1, Zenon DEF IsOp
  <1>4. Apart(k)
    BY <1>2, <1>3, TailApart, Zenon
  <1> HIDE DEF k, s
  <1>5. IsOp(op'[c], calls) /\ Same(c)
    BY <1>1, <1>2, <1>3, <1>4, OnwardsIsOp, Zenon
  <1>6. net' = Taken(m) \cup NextRequest(c) /\ ticks' = ticks /\ calls' = calls
    BY Zenon DEF DeliverAndReply
  <1>7. calls' \in Nat /\ calls \in Nat /\ calls <= calls'
    <2>1. calls \in Nat
      BY Zenon DEF StoreInv
    <2> QED BY <1>6, <2>1
  <1>8. op'[c].call = o.call
    BY <1>1, Zenon DEF Onwards
  <1>9. IsRequest(m, op', calls')
    BY <1>1, <1>5, <1>7, RequestsStay, Zenon
  <1>10. \A e \in Taken(m) : e # m /\ (e \in net \/ IsRequest(e, op', calls'))
    BY <1>9, TakenIs, Zenon
  <1>11. \A e \in NextRequest(c) : IsRequest(e, op', calls') /\ e.to # m.to
    BY <1>1, <1>2, <1>6, <1>7, <1>8, NextRequestIs, Zenon
  <1>12. m \notin net' /\ \A e \in net' : e \in net \/ IsRequest(e, op', calls')
    BY <1>6, <1>10, <1>11, Zenon
  <1>13. StorageGoesOn /\ \A n \in Node : RecordsMove(n)
    <2>1. CASE stale
      <3>1. storage' = storage
        BY <2>1, Zenon DEF DeliverAndReply
      <3> QED BY <3>1, StoragesSame, Zenon DEF RecordsMove
    <2>2. CASE ~stale
      BY <1>12, <2>2, HandledMoves, Zenon DEF DeliverAndReply
    <2> QED BY <2>1, <2>2, Zenon
  <1>14. StoreInv'
    BY <1>1, <1>5, <1>6, <1>7, <1>12, <1>13, InvOfCall, Zenon
  <1> QED BY <1>13, <1>14, Zenon

\* Another implementation announces.
LEMMA ForeignAnnounceKeeps ==
  ASSUME StoreInv, NEW n \in Node, NEW req, ForeignAnnounce(n, req), workload' = workload
  PROVE  StoreInv' /\ StorageGoesOn /\ \A d \in Node : RecordsMove(d)
  <1>1. /\ storage' = [d \in Node |-> storage'[d]]
        /\ \A d \in Node : d # n => storage'[d] = storage[d]
        /\ Announced(storage[n], storage'[n])
    BY HandledForeign, Zenon
  <1>2. StorageOK(storage[n]) /\ calls \in Nat /\ ticks \in Nat
    BY Zenon DEF StoreInv
  <1>3. StorageOK(storage'[n]) /\ Onward(storage[n].mutables, storage'[n].mutables)
    BY <1>1, <1>2, AnnouncedGoesOn, Zenon
  <1>4. StorageGoesOn
    BY <1>1, <1>3, StorageAt, Zenon
  <1>5. \A d \in Node : RecordsMove(d)
    BY <1>1, Zenon DEF RecordsMove, Announced
  <1>6. net' = net /\ op' = op /\ ticks' = ticks /\ calls' = calls + 1
    BY Zenon DEF ForeignAnnounce
  <1>7. calls' \in Nat /\ calls <= calls'
    BY <1>2, <1>6
  <1>8. StoreInv'
    BY <1>2, <1>4, <1>6, <1>7, InvOfNoCall, Zenon
  <1> QED BY <1>4, <1>5, <1>8, Zenon

\* Time passes.
LEMMA TickKeeps ==
  ASSUME StoreInv, Tick, workload' = workload
  PROVE  StoreInv' /\ StorageGoesOn
  <1>1. /\ storage' = [n \in Node |-> Aged(storage[n])] /\ ticks' = ticks + 1
        /\ net' = net /\ op' = op /\ calls' = calls
    BY Zenon DEF Tick
  <1>2. calls \in Nat /\ ticks \in Nat /\ \A n \in Node : StorageOK(storage[n])
    BY Zenon DEF StoreInv
  <1>3. StorageGoesOn
    BY <1>1, <1>2, AgedOK, Zenon DEF StorageGoesOn
  <1>4. calls' \in Nat /\ calls <= calls' /\ ticks' \in Nat
    BY <1>1, <1>2
  <1> QED BY <1>1, <1>3, <1>4, InvOfNoCall, Zenon

----------------------------------------------------------------------------
(* The limits, and why records leave.                                      *)

\* A step keeps the invariant, and no mutable record goes back.
LEMMA StoreStep ==
  ASSUME StoreInv, Next
  PROVE  /\ StoreInv' /\ StorageGoesOn
         /\ ticks' = ticks => \A n \in Node : RecordsMove(n)
  <1>1. workload' = workload
    BY Zenon DEF Next
  <1>2. ASSUME StorageQueried PROVE \A n \in Node : RecordsMove(n)
    BY <1>2, Zenon DEF StorageQueried, RecordsMove
  <1>3. ASSUME storage' = storage PROVE \A n \in Node : RecordsMove(n)
    BY <1>3, Zenon DEF RecordsMove
  <1>4. ASSUME NEW c \in Client, NEW call \in workload, Start(c, call)
        PROVE  StoreInv' /\ StorageGoesOn /\ \A n \in Node : RecordsMove(n)
    BY <1>1, <1>3, <1>4, StartKeeps, Zenon DEF Start
  <1>5. ASSUME NEW c \in Client, NEW d \in Node, QueryReply(c, d)
        PROVE  StoreInv' /\ StorageGoesOn /\ \A n \in Node : RecordsMove(n)
    BY <1>1, <1>2, <1>5, QueryReplyKeeps, Zenon
  <1>6. ASSUME NEW c \in Client, NEW d \in Node, QueryTimesOut(c, d)
        PROVE  StoreInv' /\ StorageGoesOn /\ \A n \in Node : RecordsMove(n)
    BY <1>1, <1>3, <1>6, QueryTimesOutKeeps, Zenon DEF QueryTimesOut
  <1>7. ASSUME NEW c \in Client, NEW replied \in SUBSET Node, QueryCommits(c, replied)
        PROVE  StoreInv' /\ StorageGoesOn /\ \A n \in Node : RecordsMove(n)
    BY <1>1, <1>2, <1>7, QueryCommitsKeeps, Zenon
  <1>8. ASSUME NEW c \in Client, CommitTimesOut(c)
        PROVE  StoreInv' /\ StorageGoesOn /\ \A n \in Node : RecordsMove(n)
    BY <1>1, <1>3, <1>8, CommitTimesOutKeeps, Zenon DEF CommitTimesOut
  <1>9. ASSUME NEW m \in net, Deliver(m)
        PROVE  StoreInv' /\ StorageGoesOn /\ \A n \in Node : RecordsMove(n)
    BY <1>1, <1>9, DeliverKeeps, Zenon
  <1>10. ASSUME NEW m \in net, NEW stale \in BOOLEAN, DeliverAndReply(m, stale)
         PROVE  StoreInv' /\ StorageGoesOn /\ \A n \in Node : RecordsMove(n)
    BY <1>1, <1>10, DeliverAndReplyKeeps, Zenon
  <1>11. ASSUME NEW c \in Client, Finish(c)
         PROVE  StoreInv' /\ StorageGoesOn /\ \A n \in Node : RecordsMove(n)
    BY <1>1, <1>3, <1>11, FinishKeeps, Zenon DEF Finish
  <1>12. ASSUME NEW f \in Foreign, ForeignAnnounce(f.node, f.req)
         PROVE  StoreInv' /\ StorageGoesOn /\ \A n \in Node : RecordsMove(n)
    BY <1>1, <1>12, ForeignAssumption, ForeignAnnounceKeeps, Zenon
  <1>13. ASSUME Tick
         PROVE  StoreInv' /\ StorageGoesOn /\ ticks' # ticks
    <2>1. ticks \in Nat /\ ticks' = ticks + 1
      BY <1>13, Zenon DEF StoreInv, Tick
    <2>2. ticks' # ticks
      BY <2>1
    <2> QED BY <1>1, <1>13, <2>2, TickKeeps, Zenon
  <1> QED BY <1>4, <1>5, <1>6, <1>7, <1>8, <1>9, <1>10, <1>11, <1>12, <1>13, Zenon DEF Next, Step

\* A step or none keeps the invariant.
LEMMA StoreInvStep ==
  ASSUME StoreInv, [Next]_vars
  PROVE  StoreInv'
  <1>1. CASE Next
    BY <1>1, StoreStep, Zenon
  <1>2. CASE vars' = vars
    <2>1. storage' = storage /\ op' = op /\ net' = net /\ workload' = workload /\ calls' = calls /\ ticks' = ticks
      BY <1>2, Zenon DEF vars
    <2> QED BY <2>1, Zenon DEF StoreInv
  <1> QED BY <1>1, <1>2, Zenon

(***************************************************************************)
(* StoreInv is invariant: whatever calls, late copies, announcements of    *)
(* others and steps of time come in whatever order, the handlers of        *)
(* persistent.rs leave every node's storage in order.                      *)
(***************************************************************************)
THEOREM StoreInvHolds == Spec => []StoreInv
  <1>1. Init => StoreInv
    BY StoreInvInit, Zenon
  <1>2. StoreInv /\ [Next]_vars => StoreInv'
    BY StoreInvStep, Zenon
  <1> QED BY <1>1, <1>2, PTL DEF Spec

\* The caches of a storage.
LEMMA CacheIs ==
  ASSUME NEW st, StorageOK(st), NEW l \in LruCaches
  PROVE  LruOK(st[l])
  <1>1. LruOK(st.bumps) /\ LruOK(st.refreshes) /\ LruOK(st.mutables) /\ LruOK(st.immutables)
    BY Zenon DEF StorageOK
  <1> QED BY <1>1, Zenon DEF LruCaches

\* A storage that is in order keeps its limits.
LEMMA BoundedStorage ==
  ASSUME NEW st, StorageOK(st)
  PROVE  LET c == st.records IN
        /\ c.total = Len(c.entries) /\ c.total <= MaxRecords
        /\ \A i, j \in DOMAIN c.entries :
              /\ c.entries[i].key \in c.buckets
              /\ (c.entries[i].key = c.entries[j].key
                   /\ c.entries[i].public_key = c.entries[j].public_key) => i = j
        /\ \A k \in c.buckets : Len(BucketOf(c, k)) <= MaxPerKey
        /\ \A l \in LruCaches :
              /\ Len(st[l]) <= MaxLruSize
              /\ \A i, j \in DOMAIN st[l] : st[l][i].key = st[l][j].key => i = j
  <1> DEFINE c == st.records
  <1>1. RecordsOK(c)
    BY Zenon DEF StorageOK
  <1> HIDE DEF c
  <1>2. /\ Listed(c.entries, c.buckets) /\ IsSeq(c.entries)
        /\ DOMAIN c.entries = 1 .. Len(c.entries) /\ Len(c.entries) \in Nat
        /\ c.total = Len(c.entries) /\ c.total <= MaxRecords
    BY <1>1, Bounds, RecordsParts, Zenon
  <1>3. \A i, j \in DOMAIN c.entries :
           /\ c.entries[i].key \in c.buckets
           /\ (c.entries[i].key = c.entries[j].key
                /\ c.entries[i].public_key = c.entries[j].public_key) => i = j
    BY <1>2, Zenon DEF Listed, SameRecord
  <1>4. ASSUME NEW k PROVE Len(BucketOf(c, k)) <= MaxPerKey
    <2>1. Len(BucketOf(c, k)) = Cardinality(Topic(c.entries, k))
      BY <1>2, BucketPlaces, Zenon
    <2>2. CASE Topic(c.entries, k) = {}
      <3>1. Len(BucketOf(c, k)) = 0
        BY <2>1, <2>2, FS_EmptySet, Zenon
      <3>2. MaxPerKey \in Nat
        BY Bounds, Zenon
      <3> QED BY <3>1, <3>2
    <2>3. CASE Topic(c.entries, k) # {}
      <3>1. PICK i \in 1 .. Len(c.entries) : c.entries[i].key = k
        BY <2>3, Zenon DEF Topic
      <3> QED BY <1>2, <2>1, <3>1, Zenon DEF Listed
    <2> QED BY <2>2, <2>3, Zenon
  <1>5. ASSUME NEW l \in LruCaches
        PROVE  /\ Len(st[l]) <= MaxLruSize
               /\ \A i, j \in DOMAIN st[l] : st[l][i].key = st[l][j].key => i = j
    <2> DEFINE s == st[l]
    <2>1. LruOK(s)
      BY CacheIs, Zenon
    <2> HIDE DEF s
    <2>2. Len(s) <= MaxLruSize /\ \A i, j \in DOMAIN s : s[i].key = s[j].key => i = j
      BY <2>1, Zenon DEF LruOK
    <2> QED BY <2>2, Zenon DEF s
  <1> QED BY <1>2, <1>3, <1>4, <1>5, Zenon DEF c

(***************************************************************************)
(* For every number of nodes, clients and records, the caches of           *)
(* persistent.rs keep their limits, and the counter of RecordCache is the  *)
(* number of its records.                                                  *)
(***************************************************************************)
THEOREM StoreBounded == Spec => []StoreIsBounded
  <1>1. StoreInv => StoreIsBounded
    BY BoundedStorage, Zenon DEF StoreInv, StoreIsBounded
  <1> QED BY <1>1, StoreInvHolds, PTL

\* A record is found by its keys.
LEMMA KeyThere ==
  ASSUME NEW e, NEW d, IsSeq(d.entries), NEW j \in 1 .. Len(d.entries), SameRecord(e, d.entries[j])
  PROVE  <<e.key, e.public_key>> \in Keys(Range(d.entries))
  <1>1. DOMAIN d.entries = 1 .. Len(d.entries)
    BY SeqPlaces, Zenon
  <1>2. d.entries[j] \in Range(d.entries)
    BY <1>1, Zenon DEF Range
  <1>3. e.key = d.entries[j].key /\ e.public_key = d.entries[j].public_key
    BY Zenon DEF SameRecord
  <1> QED BY <1>2, <1>3, Zenon DEF Keys

\* Why a record that a node would give out may be gone after a step.
LEMMA LeavesForAReason ==
  ASSUME StoreInv, StoreInv', NEW n \in Node, RecordsMove(n), NEW e \in Live(storage[n]),
         <<e.key, e.public_key>> \notin Keys(Range(storage'[n].records.entries))
  PROVE  \/ \E m \in net \ net' :
               /\ m.cmd = "UNANNOUNCE" /\ m.to = n
               /\ m.client = e.public_key /\ m.req.target = e.key
         \/ Gone(storage[n].records, storage'[n].records, e)
  <1> DEFINE c == storage[n].records
             d == storage'[n].records
  <1>1. RecordsOK(c) /\ RecordsOK(d)
    BY Zenon DEF StoreInv, StorageOK
  <1>2. IsSeq(c.entries) /\ DOMAIN c.entries = 1 .. Len(c.entries) /\ IsSeq(d.entries)
    BY <1>1, Bounds, RecordsParts, Zenon
  <1>3. PICK i \in 1 .. Len(c.entries) : c.entries[i] = e
    BY <1>2, Zenon DEF Live, Range
  <1>4. e.age < MaxRecordAge
    BY Zenon DEF Live
  <1>5. \A j \in 1 .. Len(d.entries) : ~SameRecord(e, d.entries[j])
    BY <1>2, KeyThere, Zenon
  <1>6. \A j \in 1 .. Len(d.entries) : e # d.entries[j]
    BY <1>5, Zenon DEF SameRecord
  <1>7. storage'[n] # storage[n]
    BY <1>3, <1>6, Zenon
  <1>8. ~Looked(storage[n], storage'[n])
    BY <1>3, <1>4, <1>6, Zenon DEF Looked, Pruned
  <1>9. ASSUME Added(c, d) PROVE Gone(c, d, e)
    BY <1>3, <1>5, <1>9, Zenon DEF Added
  <1>10. ASSUME NEW m, Removed(c, d, m.req.target, m.client)
         PROVE  m.client = e.public_key /\ m.req.target = e.key
    BY <1>3, <1>6, <1>10, Zenon DEF Removed
  <1> QED BY <1>7, <1>8, <1>9, <1>10, Zenon DEF RecordsMove

(***************************************************************************)
(* No step takes a live announcement from a node but its owner's           *)
(* unannounce and an announcement that needs the room of the oldest        *)
(* (RecordCache::add, remove and evict_oldest).                            *)
(***************************************************************************)
THEOREM LeaveForAReason == Spec => RecordsLeaveForAReason
  <1> DEFINE Reason ==
        \A n \in Node : \A e \in Live(storage[n]) :
          (ticks' = ticks /\ <<e.key, e.public_key>> \notin Keys(Range(storage'[n].records.entries))) =>
              \/ \E m \in net \ net' :
                    /\ m.cmd = "UNANNOUNCE" /\ m.to = n
                    /\ m.client = e.public_key /\ m.req.target = e.key
              \/ /\ e = BucketOf(storage[n].records, e.key)[1]
                 /\ Len(BucketOf(storage[n].records, e.key)) = MaxPerKey
                 /\ Len(BucketOf(storage'[n].records, e.key)) = MaxPerKey
              \/ /\ e = storage[n].records.entries[1]
                 /\ storage[n].records.total = MaxRecords
                 /\ storage'[n].records.total = MaxRecords
  <1>1. ASSUME StoreInv, Next PROVE Reason
    <2>1. StoreInv' /\ (ticks' = ticks => \A n \in Node : RecordsMove(n))
      BY <1>1, StoreStep, Zenon
    <2> QED BY <1>1, <2>1, LeavesForAReason, Zenon DEF Gone
  <1>2. StoreInv /\ [Next]_vars => [Reason]_vars
    BY <1>1, Zenon
  <1>3. RecordsLeaveForAReason <=> [][Reason]_vars
    BY DEF RecordsLeaveForAReason
  <1> HIDE DEF Reason
  <1> QED BY <1>2, <1>3, StoreInvHolds, PTL DEF Spec

----------------------------------------------------------------------------
(* Reads and complete puts.                                                *)

\* Every node has a value for k at least as new as s.
Backed(st, k, s) == \A n \in Node : AtLeast(st[n], k, s)

\* A call that started after a complete put finds its value or a newer one everywhere ...
FloorOK(o, st) == o.floor # 0 => o.call.target \in MutableKeys /\ Backed(st, o.call.target, o.floor)

\* ... so that is what it has read ...
ReadsBack(e, fl) == IsSeq(e.value) /\ \A v \in Range(e.value) : v.seq \in Nat /\ fl <= v.seq
RepliesOK(o) == o.call.cmd = "MUTABLE_GET" => \A e \in Range(o.replies) : ReadsBack(e, o.floor)

\* ... and a put that may still be complete has reached the nodes it is done with.
MayComplete(o) ==
    /\ o.phase = "commit" /\ o.call.cmd = "MUTABLE_PUT"
    /\ Len(o.replies) = Cardinality(Node) /\ o.commit_timeouts = 0 /\ ~o.stale
PutOK(o, st) ==
    MayComplete(o) => \A n \in Node : n \in Range(o.commit) \/ AtLeast(st[n], o.call.target, o.call.seq)

ReadsOK(o, st) == FloorOK(o, st) /\ RepliesOK(o) /\ PutOK(o, st)

(***************************************************************************)
(* The inductive invariant of reads: what a complete put gave every node   *)
(* is there or replaced by something newer, and every call that saw no     *)
(* record lost is in order.                                                *)
(***************************************************************************)
ReadInv ==
    /\ floor = [k \in MutableKeys |-> floor[k]]
    /\ \A k \in MutableKeys : floor[k] \in Nat /\ (floor[k] # 0 => Backed(storage, k, floor[k]))
    /\ \A c \in Client : op[c] # Idle => op[c].floor \in Nat
    /\ \A c \in Client \ lapsed : op[c] # Idle => ReadsOK(op[c], storage)

\* What the nodes have for k stays as new as it is.
KeyStays(k) == \A n \in Node, s \in Nat : AtLeast(storage[n], k, s) => AtLeast(storage'[n], k, s)

\* So it is for a key that no node loses.
LEMMA NotLostStays ==
  ASSUME StoreInv, StorageGoesOn, NEW k, ~Lost(k)
  PROVE  KeyStays(k)
  <1> SUFFICES ASSUME NEW n \in Node, NEW s \in Nat, AtLeast(storage[n], k, s)
               PROVE  AtLeast(storage'[n], k, s)
    BY Zenon DEF KeyStays
  <1>1. /\ StorageOK(storage[n]) /\ StorageOK(storage'[n])
        /\ Onward(storage[n].mutables, storage'[n].mutables)
    BY Zenon DEF StoreInv, StorageGoesOn
  <1>2. StoredSeq(storage[n], k) # <<>>
    BY <1>1, AtLeastHolds, Zenon
  <1>3. StoredSeq(storage'[n], k) # <<>>
    BY <1>2, Zenon DEF Lost, Holds
  <1> QED BY <1>1, <1>3, AtLeastStays, Zenon

AllStay == \A k \in MutableKeys : KeyStays(k)

\* A call that puts or gets is about a mutable key.
LEMMA MutableCall ==
  ASSUME NEW call \in UNION Workloads, call.cmd \in {"MUTABLE_PUT", "MUTABLE_GET"}
  PROVE  call.target \in MutableKeys /\ call.seq \in Nat
  <1>1. call \in MutableCalls
    BY Zenon DEF MutableCalls
  <1> QED BY <1>1, SeqAssumption, Zenon DEF MutableKeys

\* A call in order stays so while it waits.
LEMMA ReadsStay ==
  ASSUME NEW o, NEW x, IsOp(o, x), o.floor \in Nat, ReadsOK(o, storage), AllStay
  PROVE  ReadsOK(o, storage')
  <1>1. FloorOK(o, storage')
    BY Zenon DEF ReadsOK, FloorOK, Backed, AllStay, KeyStays
  <1>2. RepliesOK(o)
    BY Zenon DEF ReadsOK
  <1>3. PutOK(o, storage')
    <2> SUFFICES ASSUME MayComplete(o), NEW n \in Node, n \notin Range(o.commit)
                 PROVE  AtLeast(storage'[n], o.call.target, o.call.seq)
      BY Zenon DEF PutOK
    <2>1. AtLeast(storage[n], o.call.target, o.call.seq)
      BY Zenon DEF ReadsOK, PutOK
    <2>2. o.call.target \in MutableKeys /\ o.call.seq \in Nat
      BY MutableCall, Zenon DEF IsOp, MayComplete
    <2> QED BY <2>1, <2>2, Zenon DEF AllStay, KeyStays
  <1> QED BY <1>1, <1>2, <1>3, Zenon DEF ReadsOK

\* A call that goes on.
LEMMA ReadsGoOn ==
  ASSUME NEW o, NEW p, NEW x, IsOp(o, x), o.floor \in Nat, ReadsOK(o, storage), AllStay,
         p.call = o.call, p.floor = o.floor, RepliesOK(p), PutOK(p, storage')
  PROVE  ReadsOK(p, storage')
  <1>1. FloorOK(o, storage')
    BY ReadsStay, Zenon DEF ReadsOK
  <1>2. FloorOK(p, storage')
    BY <1>1, Zenon DEF FloorOK
  <1> QED BY <1>2, Zenon DEF ReadsOK

\* A reply to a query of a mutable record is a list, of what is new enough.
LEMMA ReplyReadsBack ==
  ASSUME NEW st, StorageOK(st), NEW call, call.cmd = "MUTABLE_GET", NEW n, NEW fl \in Nat,
         fl # 0 => AtLeast(st, call.target, fl)
  PROVE  ReadsBack([from |-> n, value |-> QueryAnswer(st, call).value], fl)
  <1> DEFINE a == QueryAnswer(st, call).value
             e == [from |-> n, value |-> a]
             k == call.target
             held == LruGet(st.mutables, k)
             I == {i \in DOMAIN held : held[i].seq >= call.seq}
  <1>1. QueryAnswer(st, call) = OnMutableGet(st, k, call.seq)
    BY DEF QueryAnswer
  <1>2. \A v \in Range(a) : v.seq \in Nat /\ fl <= v.seq
    BY <1>1, GetIsAtLeast, Zenon
  <1>3. a = Only(held, I)
    BY <1>1 DEF OnMutableGet, Value
  <1>4. LruOK(st.mutables)
    BY Zenon DEF StorageOK
  <1>5. Gets(held, st.mutables, k)
    BY <1>4, LruGetIs, Zenon
  <1> HIDE DEF held, I
  <1>6. IsSeq(a)
    BY <1>3, <1>5, OnlySeq, Zenon DEF Gets
  <1> HIDE DEF a
  <1>7. e.value = a
    OBVIOUS
  <1> HIDE DEF e
  <1>8. ReadsBack(e, fl)
    BY <1>2, <1>6, <1>7, Zenon DEF ReadsBack
  <1> QED BY <1>8, Zenon DEF e, a

\* What a step may do to the call of c.
CallReads(c) ==
    op'[c] # Idle =>
        /\ op'[c].floor \in Nat
        /\ op[c] = Idle => ReadsOK(op'[c], storage')
        /\ op[c] # Idle /\ c \notin lapsed /\ AllStay => ReadsOK(op'[c], storage')

\* A call that a step is not about.
LEMMA OtherCallReads ==
  ASSUME StoreInv, ReadInv, NEW d \in Client, op'[d] = op[d]
  PROVE  CallReads(d)
  <1> SUFFICES ASSUME op[d] # Idle
               PROVE  /\ op[d].floor \in Nat
                      /\ d \notin lapsed /\ AllStay => ReadsOK(op[d], storage')
    BY Zenon DEF CallReads
  <1>1. op[d].floor \in Nat /\ IsOp(op[d], calls)
    BY Zenon DEF StoreInv, ReadInv
  <1>2. d \notin lapsed => ReadsOK(op[d], storage)
    BY Zenon DEF ReadInv
  <1> QED BY <1>1, <1>2, ReadsStay, Zenon

----------------------------------------------------------------------------
(* What each step does to reads.                                           *)

\* At most one call changes in a step.
OneMoves == \A c, d \in Client : op'[c] # op[c] /\ op'[d] # op[d] => c = d

\* What a step about the call of c must show.
LEMMA ReadsOfCall ==
  ASSUME StoreInv, ReadInv, NEW c \in Client, OnlyOf(c), CallReads(c)
  PROVE  OneMoves /\ \A d \in Client : CallReads(d)
  <1>1. \A d \in Client : d # c => CallReads(d)
    BY OtherCallReads, Zenon DEF OnlyOf
  <1>2. OneMoves
    BY Zenon DEF OneMoves, OnlyOf
  <1> QED BY <1>1, <1>2, Zenon

\* What a step about no call shows.
LEMMA ReadsOfNoCall ==
  ASSUME StoreInv, ReadInv, op' = op
  PROVE  OneMoves /\ \A d \in Client : CallReads(d)
  BY OtherCallReads, Zenon DEF OneMoves

\* A call that goes on, and is in order afterwards.
LEMMA GoingOnReads ==
  ASSUME StoreInv, ReadInv, NEW c \in Client, op[c] # Idle, OnlyOf(c),
         op'[c].floor = op[c].floor, op'[c].call = op[c].call,
         ReadsOK(op[c], storage) /\ AllStay => RepliesOK(op'[c]) /\ PutOK(op'[c], storage')
  PROVE  OneMoves /\ \A d \in Client : CallReads(d)
  <1>1. op[c].floor \in Nat /\ IsOp(op[c], calls)
    BY Zenon DEF StoreInv, ReadInv
  <1>2. c \notin lapsed => ReadsOK(op[c], storage)
    BY Zenon DEF ReadInv
  <1>3. ASSUME c \notin lapsed, AllStay PROVE ReadsOK(op'[c], storage')
    <2>1. ReadsOK(op[c], storage) /\ RepliesOK(op'[c]) /\ PutOK(op'[c], storage')
      BY <1>2, <1>3, Zenon
    <2> QED BY <1>1, <1>3, <2>1, ReadsGoOn, Zenon
  <1>4. CallReads(c)
    BY <1>1, <1>3, Zenon DEF CallReads
  <1> QED BY <1>4, ReadsOfCall, Zenon

\* A call that starts.
LEMMA StartReads ==
  ASSUME StoreInv, ReadInv, NEW c \in Client, NEW call \in workload, Start(c, call)
  PROVE  OneMoves /\ \A d \in Client : CallReads(d)
  <1> DEFINE fl == IF call.target \in MutableKeys THEN floor[call.target] ELSE 0
             o == Op("query", calls, call, Node, <<>>, <<>>, 0, FALSE, fl)
  <1>1. OnlyOf(c) /\ op[c] = Idle /\ op'[c] = o
    BY StartOp, Zenon
  <1>2. /\ call.target \in MutableKeys => fl \in Nat /\ (fl # 0 => Backed(storage, call.target, fl))
        /\ call.target \notin MutableKeys => fl = 0
    BY Zenon DEF ReadInv
  <1> HIDE DEF fl
  <1>3. o.phase = "query" /\ o.call = call /\ o.replies = <<>> /\ o.floor = fl
    BY DEF Op
  <1> HIDE DEF o
  <1>4. fl \in Nat /\ Range(<<>>) = {}
    <2>1. 0 \in Nat /\ DOMAIN <<>> = {}
      OBVIOUS
    <2> QED BY <1>2, <2>1, Zenon DEF Range
  <1>5. storage' = storage
    BY Zenon DEF Start
  <1>6. FloorOK(o, storage')
    BY <1>2, <1>3, <1>5, Zenon DEF FloorOK
  <1>7. RepliesOK(o)
    BY <1>3, <1>4, Zenon DEF RepliesOK
  <1>8. PutOK(o, storage')
    <2>1. "query" # "commit"
      OBVIOUS
    <2> QED BY <1>3, <2>1, Zenon DEF PutOK, MayComplete
  <1>9. CallReads(c)
    BY <1>1, <1>3, <1>4, <1>6, <1>7, <1>8, Zenon DEF CallReads, ReadsOK
  <1> QED BY <1>1, <1>9, ReadsOfCall, Zenon

\* A call that is in its query is no put that may be complete.
LEMMA QueryPutOK ==
  ASSUME NEW o, o.phase = "query", NEW st
  PROVE  PutOK(o, st)
  <1>1. "query" # "commit"
    OBVIOUS
  <1> QED BY <1>1, Zenon DEF PutOK, MayComplete

\* A node answers a query.
LEMMA QueryReplyReads ==
  ASSUME StoreInv, ReadInv, NEW c \in Client, NEW n \in Node, QueryReply(c, n)
  PROVE  OneMoves /\ \A d \in Client : CallReads(d)
  <1> DEFINE o == op[c]
             a == QueryAnswer(storage[n], o.call).value
             r == Listing(o, n, a)
             e == [from |-> n, value |-> a]
  <1>1. /\ OnlyOf(c) /\ o # Idle /\ IsOp(o, calls)
        /\ Onwards(o, op'[c], o.phase, o.ask \ {n}, r, o.commit, o.commit_timeouts, o.stale)
    BY QueryReplyOp, Zenon
  <1>2. o.phase = "query"
    BY Zenon DEF QueryReply
  <1>3. /\ op'[c].phase = "query" /\ op'[c].floor = o.floor /\ op'[c].call = o.call
        /\ op'[c].replies = r
    BY <1>1, <1>2, Zenon DEF Onwards
  <1>4. \A x \in Range(r) : x \in Range(o.replies) \/ x = e
    BY <1>1, ListingIs, Zenon DEF IsOp
  <1>5. PutOK(op'[c], storage')
    BY <1>3, QueryPutOK, Zenon
  <1>6. o.floor \in Nat /\ StorageOK(storage[n])
    BY <1>1, Zenon DEF ReadInv, StoreInv
  <1>7. ASSUME ReadsOK(o, storage), o.call.cmd = "MUTABLE_GET" PROVE ReadsBack(e, o.floor)
    <2>1. o.floor # 0 => AtLeast(storage[n], o.call.target, o.floor)
      BY <1>7, Zenon DEF ReadsOK, FloorOK, Backed
    <2> QED BY <1>6, <1>7, <2>1, ReplyReadsBack, Zenon
  <1> HIDE DEF r, e
  <1>8. ReadsOK(o, storage) => RepliesOK(op'[c])
    BY <1>3, <1>4, <1>7, Zenon DEF ReadsOK, RepliesOK
  <1> QED BY <1>1, <1>3, <1>5, <1>8, GoingOnReads, Zenon

\* A query gives up on a node.
LEMMA QueryTimesOutReads ==
  ASSUME StoreInv, ReadInv, NEW c \in Client, NEW n \in Node, QueryTimesOut(c, n)
  PROVE  OneMoves /\ \A d \in Client : CallReads(d)
  <1> DEFINE o == op[c]
  <1>1. /\ OnlyOf(c) /\ o # Idle /\ IsOp(o, calls)
        /\ Onwards(o, op'[c], o.phase, o.ask \ {n}, o.replies, o.commit, o.commit_timeouts, o.stale)
    BY QueryTimesOutOp, Zenon
  <1>2. o.phase = "query"
    BY Zenon DEF QueryTimesOut
  <1>3. /\ op'[c].phase = "query" /\ op'[c].floor = o.floor /\ op'[c].call = o.call
        /\ op'[c].replies = o.replies
    BY <1>1, <1>2, Zenon DEF Onwards
  <1>4. PutOK(op'[c], storage')
    BY <1>3, QueryPutOK, Zenon
  <1>5. ReadsOK(o, storage) => RepliesOK(op'[c])
    BY <1>3, Zenon DEF ReadsOK, RepliesOK
  <1> QED BY <1>1, <1>3, <1>4, <1>5, GoingOnReads, Zenon

\* A call goes on to its requests: to every node, if every node replied.
LEMMA QueryCommitsReads ==
  ASSUME StoreInv, ReadInv, NEW c \in Client, NEW replied, QueryCommits(c, replied)
  PROVE  OneMoves /\ \A d \in Client : CallReads(d)
  <1> DEFINE o == op[c]
             k == Replied(replied)
             r == [i \in DOMAIN k |-> [from |-> k[i]]]
  <1>1. /\ OnlyOf(c) /\ o # Idle /\ IsOp(o, calls)
        /\ Onwards(o, op'[c], "commit", {}, r, k, o.commit_timeouts, o.stale)
    BY QueryCommitsOp, Zenon
  <1>2. /\ op'[c].floor = o.floor /\ op'[c].call = o.call /\ op'[c].replies = r /\ op'[c].commit = k
    BY <1>1, Zenon DEF Onwards
  <1>3. Apart(k) /\ (Len(k) = Cardinality(Node) => \A n \in Node : n \in Range(k))
    BY RepliedApart, Zenon
  <1> HIDE DEF k
  <1>4. Len(r) = Len(k)
    <2>1. k \in Seq(Range(k))
      BY <1>3, Zenon DEF Apart, IsSeq
    <2> DEFINE R == Range(k)
    <2> HIDE DEF R
    <2>2. ASSUME k \in Seq(R) PROVE Len(r) = Len(k)
      BY <2>2
    <2> QED BY <2>1, <2>2, Zenon DEF R
  <1> HIDE DEF r
  <1>5. PutOK(op'[c], storage')
    BY <1>2, <1>3, <1>4, Zenon DEF PutOK, MayComplete
  <1>6. RepliesOK(op'[c])
    <2>1. o.call.cmd \in Commits
      BY Zenon DEF QueryCommits
    <2>2. "MUTABLE_GET" \notin Commits
      BY DEF Commits
    <2> QED BY <1>2, <2>1, <2>2, Zenon DEF RepliesOK
  <1> QED BY <1>1, <1>2, <1>5, <1>6, GoingOnReads, Zenon

\* A call gives up on a request: it cannot be complete any more.
LEMMA CommitTimesOutReads ==
  ASSUME StoreInv, ReadInv, NEW c \in Client, CommitTimesOut(c)
  PROVE  OneMoves /\ \A d \in Client : CallReads(d)
  <1> DEFINE o == op[c]
             t == o.commit_timeouts + 1
  <1>1. /\ OnlyOf(c) /\ o # Idle /\ IsOp(o, calls)
        /\ Onwards(o, op'[c], o.phase, o.ask, o.replies, Tail(o.commit), t, o.stale)
    BY CommitTimesOutOp, Zenon
  <1>2. o.commit_timeouts \in Nat
    BY <1>1, Zenon DEF IsOp
  <1>3. t # 0
    BY <1>2
  <1> HIDE DEF t
  <1>4. /\ op'[c].floor = o.floor /\ op'[c].call = o.call /\ op'[c].replies = o.replies
        /\ op'[c].commit_timeouts = t
    BY <1>1, Zenon DEF Onwards
  <1>5. PutOK(op'[c], storage')
    BY <1>3, <1>4, Zenon DEF PutOK, MayComplete
  <1>6. ReadsOK(o, storage) => RepliesOK(op'[c])
    BY <1>4, Zenon DEF ReadsOK, RepliesOK
  <1> QED BY <1>1, <1>4, <1>5, <1>6, GoingOnReads, Zenon

\* A request is answered: its node has what was put.
LEMMA DeliverAndReplyReads ==
  ASSUME StoreInv, ReadInv, NEW m \in net, NEW stale \in BOOLEAN, DeliverAndReply(m, stale)
  PROVE  OneMoves /\ \A d \in Client : CallReads(d)
  <1> DEFINE c == m.client
             o == op[c]
             k == Tail(o.commit)
             s == MetStale(o, stale)
  <1>1. /\ c \in Client /\ OnlyOf(c) /\ o # Idle /\ IsOp(o, calls)
        /\ Onwards(o, op'[c], o.phase, o.ask, o.replies, k, o.commit_timeouts, s)
    BY ReplyOp, Zenon
  <1>2. o.phase = "commit" /\ o.commit # <<>> /\ o.commit[1] = m.to /\ o.n = m.n
    BY Zenon DEF DeliverAndReply, Awaits
  <1>3. Apart(o.commit) /\ o.call \in UNION Workloads
    BY <1>1, Zenon DEF IsOp
  <1>4. \A n \in Range(o.commit) : n = m.to \/ n \in Range(k)
    BY <1>2, <1>3, TailApart, Zenon
  <1> HIDE DEF k
  <1>5. s <=> o.stale \/ stale
    BY Zenon DEF MetStale
  <1> HIDE DEF s
  <1>6. /\ op'[c].floor = o.floor /\ op'[c].call = o.call /\ op'[c].replies = o.replies
        /\ op'[c].commit = k /\ op'[c].commit_timeouts = o.commit_timeouts /\ op'[c].stale = s
        /\ op'[c].phase = o.phase
    BY <1>1, Zenon DEF Onwards
  <1>7. Asks(m, o.call)
    BY <1>1, <1>2, Zenon DEF StoreInv, IsRequest
  <1>8. ASSUME ReadsOK(o, storage), AllStay PROVE PutOK(op'[c], storage')
    <2> SUFFICES ASSUME MayComplete(op'[c]), NEW n \in Node, n \notin Range(k)
                 PROVE  AtLeast(storage'[n], o.call.target, o.call.seq)
      BY <1>6, Zenon DEF PutOK
    <2>1. ~s
      BY <1>6, Zenon DEF MayComplete
    <2>2. ~stale /\ ~o.stale
      BY <1>5, <2>1, Zenon
    <2>3. MayComplete(o)
      BY <1>6, <2>2, Zenon DEF MayComplete
    <2>4. o.floor \in Nat
      BY <1>1, Zenon DEF ReadInv
    <2>5. PutOK(o, storage')
      BY <1>1, <1>8, <2>4, ReadsStay, Zenon DEF ReadsOK
    <2>6. n = m.to \/ AtLeast(storage'[n], o.call.target, o.call.seq)
      BY <1>4, <2>3, <2>5, Zenon DEF PutOK
    <2>7. Store(m)
      BY <2>2, Zenon DEF DeliverAndReply
    <2>8. m.cmd = "MUTABLE_PUT"
      BY <1>7, <2>3, Zenon DEF MayComplete, Asks
    <2>9. AtLeast(storage'[m.to], m.req.target, m.req.put.seq)
      BY <2>7, <2>8, HandledByNode, Zenon
    <2>10. m.req.put.seq = o.call.seq /\ m.req.target = o.call.target
      BY <1>3, <1>7, <2>8, PutHasNumber, Zenon
    <2> QED BY <2>6, <2>9, <2>10, Zenon
  <1>9. ReadsOK(o, storage) => RepliesOK(op'[c])
    BY <1>6, Zenon DEF ReadsOK, RepliesOK
  <1> QED BY <1>1, <1>6, <1>8, <1>9, GoingOnReads, Zenon

\* A call ends.
LEMMA FinishReads ==
  ASSUME StoreInv, ReadInv, NEW c \in Client, Finish(c)
  PROVE  OneMoves /\ \A d \in Client : CallReads(d)
  <1>1. OnlyOf(c) /\ op'[c] = Idle
    BY FinishOp, Zenon
  <1>2. CallReads(c)
    BY <1>1, Zenon DEF CallReads
  <1> QED BY <1>1, <1>2, ReadsOfCall, Zenon

----------------------------------------------------------------------------
(* No read goes back.                                                      *)

\* The calls after a step.
LEMMA CallsRead ==
  ASSUME StoreInv, ReadInv, Next
  PROVE  OneMoves /\ \A d \in Client : CallReads(d)
  <1>1. \A m \in net : Deliver(m) => op' = op
    BY Zenon DEF Deliver
  <1>2. \A f \in Foreign : ForeignAnnounce(f.node, f.req) => op' = op
    BY Zenon DEF ForeignAnnounce
  <1>3. Tick => op' = op
    BY Zenon DEF Tick
  <1> QED BY <1>1, <1>2, <1>3, ReadsOfNoCall, StartReads, QueryReplyReads, QueryTimesOutReads,
             QueryCommitsReads, CommitTimesOutReads, DeliverAndReplyReads, FinishReads,
             Zenon DEF Next, Step

\* The puts of k that a step completes.
Completed(k) ==
    {op[c].call.seq : c \in {c \in Client \ lapsed :
        /\ op'[c] = Idle /\ op[c] # Idle
        /\ Complete(op[c]) /\ op[c].call.target = k}}

\* The newest of some numbers.
Newest(S) == CHOOSE s \in S : \A t \in S : t <= s

\* Of two numbers there is a newest.
LEMMA NewestIs ==
  ASSUME NEW S \in SUBSET Nat, NEW f \in S, \A s, t \in S : s # f /\ t # f => s = t
  PROVE  Newest(S) \in S
  <1>1. \A a, b \in Nat : a <= b \/ b <= a
    OBVIOUS
  <1>2. \A a \in Nat : a <= a
    OBVIOUS
  <1>3. \E s \in S : \A t \in S : t <= s
    <2>1. CASE \A t \in S : t <= f
      BY <2>1, Zenon
    <2>2. CASE \E t \in S : ~(t <= f)
      <3>1. PICK t \in S : ~(t <= f)
        BY <2>2, Zenon
      <3>2. t # f /\ f <= t /\ t <= t
        BY <1>1, <1>2, <3>1, Zenon
      <3>3. \A u \in S : u <= t
        BY <3>2, Zenon
      <3> QED BY <3>3, Zenon
    <2> QED BY <2>1, <2>2, Zenon
  <1> QED BY <1>3, Zenon DEF Newest

\* A put that is complete gave every node its value or a newer one.
LEMMA CompletedIs ==
  ASSUME StoreInv, ReadInv, NEW k, NEW s \in Completed(k)
  PROVE  s \in Nat /\ Backed(storage, k, s)
  <1>1. PICK c \in Client \ lapsed : /\ op[c] # Idle /\ Complete(op[c]) /\ op[c].call.target = k
                                     /\ s = op[c].call.seq
    BY Zenon DEF Completed
  <1>2. IsOp(op[c], calls) /\ ReadsOK(op[c], storage)
    BY <1>1, Zenon DEF StoreInv, ReadInv
  <1>3. MayComplete(op[c]) /\ op[c].commit = <<>> /\ op[c].call.cmd = "MUTABLE_PUT"
    BY <1>1, Zenon DEF Complete, MayComplete
  <1>4. s \in Nat
    BY <1>1, <1>2, <1>3, MutableCall, Zenon DEF IsOp
  <1>5. Range(<<>>) = {}
    <2>1. DOMAIN <<>> = {}
      OBVIOUS
    <2> QED BY <2>1, Zenon DEF Range
  <1>6. \A n \in Node : AtLeast(storage[n], op[c].call.target, op[c].call.seq)
    BY <1>2, <1>3, <1>5, Zenon DEF ReadsOK, PutOK
  <1> QED BY <1>1, <1>4, <1>6, Zenon DEF Backed

\* The history of complete puts, in these terms.
LEMMA FloorIs ==
  ASSUME Track
  PROVE  floor' = [k \in MutableKeys |-> IF Lost(k) THEN 0 ELSE Newest(Completed(k) \cup {floor[k]})]
  BY Zenon DEF Track, Completed, Newest

\* What complete puts gave every node is still there after a step.
LEMMA FloorStays ==
  ASSUME StoreInv, ReadInv, StorageGoesOn, OneMoves, Track, NEW k \in MutableKeys
  PROVE  floor'[k] \in Nat /\ (floor'[k] # 0 => Backed(storage', k, floor'[k]))
  <1> DEFINE S == Completed(k) \cup {floor[k]}
  <1>1. floor'[k] = IF Lost(k) THEN 0 ELSE Newest(S)
    BY FloorIs, Zenon
  <1>3. CASE Lost(k)
    <2>1. 0 \in Nat
      OBVIOUS
    <2> QED BY <1>1, <1>3, <2>1, Zenon
  <1>4. CASE ~Lost(k)
    <2>1. floor[k] \in Nat /\ (floor[k] # 0 => Backed(storage, k, floor[k]))
      BY Zenon DEF ReadInv
    <2>2. \A s \in S : s \in Nat /\ (s # 0 => Backed(storage, k, s))
      BY <2>1, CompletedIs, Zenon
    <2>3. \A s, t \in Completed(k) : s = t
      BY Zenon DEF Completed, OneMoves
    <2>4. Newest(S) \in S
      <3>1. S \in SUBSET Nat /\ floor[k] \in S
        BY <2>2, Zenon
      <3>2. \A s, t \in S : s # floor[k] /\ t # floor[k] => s = t
        BY <2>3, Zenon
      <3> HIDE DEF S
      <3> QED BY <3>1, <3>2, NewestIs, Zenon
    <2> HIDE DEF S
    <2>5. floor'[k] \in Nat /\ (floor'[k] # 0 => Backed(storage, k, floor'[k]))
      BY <1>1, <1>4, <2>2, <2>4, Zenon
    <2>6. KeyStays(k)
      BY <1>4, NotLostStays, Zenon
    <2>7. floor'[k] # 0 => Backed(storage', k, floor'[k])
      BY <2>5, <2>6, Zenon DEF KeyStays, Backed
    <2> QED BY <1>1, <2>5, <2>7, Zenon
  <1> QED BY <1>3, <1>4, Zenon

\* A step keeps the invariant of reads.
LEMMA ReadStep ==
  ASSUME StoreInv, ReadInv, Next
  PROVE  ReadInv'
  <1>1. StorageGoesOn
    BY StoreStep, Zenon
  <1>2. OneMoves /\ \A d \in Client : CallReads(d)
    BY CallsRead, Zenon
  <1>3. Track
    BY Zenon DEF Next
  <1>4. \A k \in MutableKeys : floor'[k] \in Nat /\ (floor'[k] # 0 => Backed(storage', k, floor'[k]))
    BY <1>1, <1>2, <1>3, FloorStays, Zenon
  <1>5. floor' = [k \in MutableKeys |-> floor'[k]]
    BY <1>3, FloorIs, Zenon
  <1>6. \A c \in Client : op'[c] # Idle => op'[c].floor \in Nat
    BY <1>2, Zenon DEF CallReads
  <1>7. ASSUME NEW c \in Client, c \notin lapsed', op'[c] # Idle
        PROVE  ReadsOK(op'[c], storage')
    <2>1. CASE op[c] = Idle
      BY <1>2, <1>7, <2>1, Zenon DEF CallReads
    <2>2. CASE op[c] # Idle
      <3>1. c \notin lapsed /\ ~ \E k \in MutableKeys : Lost(k)
        BY <1>3, <1>7, <2>2, Zenon DEF Track
      <3>2. AllStay
        BY <1>1, <3>1, NotLostStays, Zenon DEF AllStay
      <3> QED BY <1>2, <1>7, <2>2, <3>1, <3>2, Zenon DEF CallReads
    <2> QED BY <2>1, <2>2, Zenon
  <1> QED BY <1>4, <1>5, <1>6, <1>7, Zenon DEF ReadInv

\* A step or none does.
LEMMA ReadInvStep ==
  ASSUME StoreInv, ReadInv, [Next]_vars
  PROVE  ReadInv'
  <1>1. CASE vars' = vars
    <2>1. storage' = storage /\ op' = op /\ floor' = floor /\ lapsed' = lapsed
      BY <1>1, Zenon DEF vars
    <2> QED BY <2>1, Zenon DEF ReadInv
  <1> QED BY <1>1, ReadStep, Zenon

\* The invariant of reads holds initially.
LEMMA ReadInvInit ==
  ASSUME Init
  PROVE  ReadInv
  <1>1. floor = [k \in MutableKeys |-> 0] /\ op = [c \in Client |-> Idle]
    BY Zenon DEF Init
  <1>2. 0 \in Nat
    OBVIOUS
  <1> QED BY <1>1, <1>2, Zenon DEF ReadInv

(***************************************************************************)
(* ReadInv is invariant: what a complete put gave the nodes is there or    *)
(* replaced by something newer until a node loses it.                      *)
(***************************************************************************)
THEOREM ReadInvHolds == Spec => []ReadInv
  <1>1. Init => ReadInv
    BY ReadInvInit, Zenon
  <1>2. StoreInv /\ ReadInv /\ [Next]_vars => ReadInv'
    BY ReadInvStep, Zenon
  <1> QED BY <1>1, <1>2, StoreInvHolds, PTL DEF Spec

\* What a read returns is in a reply.
LEMMA ResultIs ==
  ASSUME NEW o, IsSeq(o.replies), RepliesOK(o), o.call.cmd = "MUTABLE_GET", o.floor \in Nat,
         NEW v \in MutableResult(o)
  PROVE  v.seq >= o.floor
  <1>1. PICK i \in DOMAIN o.replies : o.replies[i].value # <<>> /\ v = o.replies[i].value[1]
    BY Zenon DEF MutableResult, First
  <1> DEFINE e == o.replies[i]
             a == e.value
  <1>2. e \in Range(o.replies)
    BY Zenon DEF Range
  <1>3. ReadsBack(e, o.floor)
    BY <1>2, Zenon DEF RepliesOK
  <1>4. IsSeq(a)
    BY <1>3, Zenon DEF ReadsBack
  <1> HIDE DEF a
  <1>5. Len(a) \in Nat /\ Len(a) # 0 /\ DOMAIN a = 1 .. Len(a)
    BY <1>1, <1>4, TailIs, SeqPlaces, Zenon DEF a
  <1>6. 1 \in 1 .. Len(a)
    BY <1>5
  <1>7. a[1] \in Range(a)
    BY <1>5, <1>6, Zenon DEF Range
  <1>8. v.seq \in Nat /\ o.floor <= v.seq
    BY <1>1, <1>3, <1>7, Zenon DEF ReadsBack, a
  <1> QED BY <1>8

(***************************************************************************)
(* A mutable_get that starts after a complete mutable_put never returns an *)
(* older sequence number, for every number of nodes, clients, calls and    *)
(* copies of requests: the check of the sequence number in                 *)
(* on_mutable_put orders the puts at each node.                            *)
(***************************************************************************)
THEOREM ReadsHold == Spec => []ReadsDoNotGoBack
  <1>1. ASSUME StoreInv, ReadInv PROVE ReadsDoNotGoBack
    <2> SUFFICES ASSUME NEW c \in Client \ lapsed, op[c] # Idle, op[c].call.cmd = "MUTABLE_GET",
                        NEW v \in MutableResult(op[c])
                 PROVE  v.seq >= op[c].floor
      BY Zenon DEF ReadsDoNotGoBack
    <2>1. IsSeq(op[c].replies) /\ RepliesOK(op[c]) /\ op[c].floor \in Nat
      BY <1>1, Zenon DEF StoreInv, ReadInv, IsOp, ReadsOK
    <2> QED BY <2>1, ResultIs, Zenon
  <1>2. StoreInv /\ ReadInv => ReadsDoNotGoBack
    BY <1>1, Zenon
  <1> QED BY <1>2, StoreInvHolds, ReadInvHolds, PTL

=============================================================================
