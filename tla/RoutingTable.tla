---------------------------- MODULE RoutingTable ----------------------------
(***************************************************************************)
(* The Kademlia routing table (routing_table.rs) as operators on a record: *)
(* the table's own id, its nodes by id, and the BucketFull events not yet  *)
(* drained.  Buckets are kept sorted by id in the code, so a bucket is the *)
(* set of the nodes whose id falls into it.                                *)
(***************************************************************************)
EXTENDS Integers, Sequences, SequencesExt, FiniteSets, Functions, Bitwise

CONSTANTS
    Bits,   \* bits of an id (256 in the code), the number of buckets
    K       \* nodes in a bucket, and in the answer to a query

\* Leading zeros of the XOR with our id; the last bucket for our own id.
BucketIndex(own, id) ==
    LET x == own ^^ id
    IN  IF x = 0 THEN Bits - 1
        ELSE CHOOSE i \in 0 .. Bits - 1 : 2^(Bits - 1 - i) <= x /\ x < 2^(Bits - i)

NewTable(id) == [id |-> id, nodes |-> [i \in {} |-> {}], events |-> <<>>]

InTable(t, id) == id \in DOMAIN t.nodes
Bucket(t, id) == {i \in DOMAIN t.nodes : BucketIndex(t.id, i) = BucketIndex(t.id, id)}

HasRoom(t, id) == Cardinality(Bucket(t, id)) < K

Added(t, node) == InTable(t, node.id) \/ HasRoom(t, node.id)

Put(f, k, v) == [x \in DOMAIN f \cup {k} |-> IF x = k THEN v ELSE f[x]]
Without(f, k) == [x \in DOMAIN f \ {k} |-> f[x]]

TableAdd(t, node) ==
    IF Added(t, node)
    THEN [t EXCEPT !.nodes = Put(@, node.id, node)]
    ELSE [t EXCEPT !.events = Append(@, node)]

TableRemove(t, id) == [t EXCEPT !.nodes = Without(@, id)]

\* Where closest() meets a bucket: from the target's bucket down to the first
\* one, then up from the next.
ScanOrder(d, bucket) == IF bucket <= d THEN d - bucket ELSE bucket

FirstOf(n, s) == SubSeq(s, 1, IF n < Len(s) THEN n ELSE Len(s))

\* The first n nodes in scan order, each bucket in the order of its ids.
Closest(t, target, n) ==
    LET at(i) == ScanOrder(BucketIndex(t.id, target), BucketIndex(t.id, i))
        before(i, j) == at(i) < at(j) \/ (at(i) = at(j) /\ i < j)
    IN  FirstOf(n, SetToSortSeq(DOMAIN t.nodes, before))

RECURSIVE AddInTurn(_, _)
AddInTurn(t, nodes) ==
    IF nodes = <<>> THEN t ELSE AddInTurn(TableAdd(t, Head(nodes)), Tail(nodes))

\* Mutant: our own id is added as well.
RebuildWithSelf(t, new_id) ==
    LET before(a, b) == a.id < b.id
    IN  IF new_id = t.id THEN t
        ELSE AddInTurn(NewTable(new_id), SetToSortSeq(Range(t.nodes), before))

\* All nodes in bucket order, added again one by one under the new id.
RebuildWithId(t, new_id) ==
    LET before(a, b) ==
            \/ BucketIndex(t.id, a.id) < BucketIndex(t.id, b.id)
            \/ (BucketIndex(t.id, a.id) = BucketIndex(t.id, b.id) /\ a.id < b.id)
    IN  IF new_id = t.id THEN t
        ELSE AddInTurn(NewTable(new_id),
                       SetToSortSeq({t.nodes[i] : i \in DOMAIN t.nodes \ {new_id}}, before))

=============================================================================
