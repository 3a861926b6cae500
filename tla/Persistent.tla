----------------------------- MODULE Persistent -----------------------------
(***************************************************************************)
(* The records a DHT node keeps for others (persistent.rs) as operators on *)
(* a record: announcements by topic, four bounded caches and the           *)
(* self-announcements.  A cache is the sequence of its entries in the      *)
(* order of inserted_at, each with its age, which stops at the age where   *)
(* the entry is no longer given out.  So a record that is renewed moves to *)
(* the end, where the code keeps it in place: nothing told apart here      *)
(* depends on the order in which a lookup lists the records of a topic.    *)
(* A hash is the value hashed, a signature is what was signed and by whom. *)
(***************************************************************************)
EXTENDS Naturals, Sequences, FiniteSets, Functions

CONSTANTS
    MaxRecords,     \* max_records
    MaxPerKey,      \* max_per_key, at most MAX_RECORDS_PER_LOOKUP
    MaxRecordAge,   \* max_record_age
    MaxLruSize,     \* max_lru_size
    MaxLruAge       \* max_lru_age

ASSUME StoreBoundAssumption ==
    /\ MaxRecords \in Nat \ {0} /\ MaxPerKey \in Nat \ {0} /\ MaxLruSize \in Nat \ {0}
    /\ MaxRecordAge \in Nat \ {0} /\ MaxLruAge \in Nat \ {0}

SEQ_REUSED == 16
SEQ_TOO_LOW == 17
MAX_RELAY_ADDRESSES == 3

Silent == [kind |-> "silent"]
Value(v) == [kind |-> "value", value |-> v]
Refuses(code) == [kind |-> "error", code |-> code]

Truncated(s, n) == SubSeq(s, 1, IF Len(s) < n THEN Len(s) ELSE n)

\* The elements of s at places of I, in their order.
Only(s, I) ==
    LET upto[n \in 0 .. Len(s)] ==
            IF n = 0 THEN <<>>
            ELSE IF n \in I THEN Append(upto[n - 1], s[n]) ELSE upto[n - 1]
    IN  upto[Len(s)]

First(I) == {i \in I : \A j \in I : i <= j}

----------------------------------------------------------------------------
(* RecordCache.  `total` is kept beside the buckets, as in the code.       *)

NewRecordCache == [entries |-> <<>>, buckets |-> {}, total |-> 0]

InBucket(c, key) == {i \in DOMAIN c.entries : c.entries[i].key = key}
BucketOf(c, key) == Only(c.entries, InBucket(c, key))
WithoutOldest(c, key) == Only(c.entries, DOMAIN c.entries \ First(InBucket(c, key)))

\* Mutant: the counter forgets the record that made room.
RoomUncounted(c, key) ==
    IF Len(BucketOf(c, key)) < MaxPerKey THEN c
    ELSE [c EXCEPT !.entries = WithoutOldest(c, key)]

\* The oldest record of a full bucket makes room.
RoomInBucket(c, key) ==
    IF Len(BucketOf(c, key)) < MaxPerKey THEN c
    ELSE [c EXCEPT !.entries = WithoutOldest(c, key), !.total = @ - 1]

EvictFirst(c) == [c EXCEPT !.entries = Only(@, DOMAIN @ \ {1}), !.total = @ - 1]

\* A bucket that a removal leaves empty goes with it.
WithoutEmpty(c, key) == IF BucketOf(c, key) = <<>> THEN [c EXCEPT !.buckets = @ \ {key}] ELSE c

\* Mutant: the newest record of the cache makes room.
EvictNewest(c) ==
    IF c.total < MaxRecords \/ c.entries = <<>> THEN c
    ELSE WithoutEmpty([c EXCEPT !.entries = SubSeq(@, 1, Len(@) - 1), !.total = @ - 1],
                      c.entries[Len(c.entries)].key)

EvictOldest(c) ==
    IF c.total < MaxRecords \/ c.entries = <<>> THEN c
    ELSE WithoutEmpty(EvictFirst(c), c.entries[1].key)

Pushed(c, entry) ==
    [entries |-> Append(c.entries, entry), buckets |-> c.buckets \cup {entry.key}, total |-> c.total + 1]

RecordsOf(c, key, public_key) == {i \in InBucket(c, key) : c.entries[i].public_key = public_key}

\* A record of the same peer is renewed; a new one may need room.
RecordAdd(c, key, public_key, record) ==
    LET entry == [key |-> key, public_key |-> public_key, record |-> record, age |-> 0]
        same == RecordsOf(c, key, public_key)
    IN  IF same # {}
        THEN [c EXCEPT !.entries = Append(Only(@, DOMAIN @ \ First(same)), entry)]
        ELSE Pushed(EvictOldest(RoomInBucket(c, key)), entry)

Retained(c, I) ==
    [c EXCEPT !.entries = Only(@, I), !.total = @ - (Len(c.entries) - Len(Only(c.entries, I)))]

RecordRemove(c, key, public_key) ==
    WithoutEmpty(Retained(c, DOMAIN c.entries \ RecordsOf(c, key, public_key)), key)

\* Reading a bucket drops its expired records, and keeps the bucket.
RecordPrune(c, key) ==
    Retained(c, {i \in DOMAIN c.entries : c.entries[i].key # key \/ c.entries[i].age < MaxRecordAge})

RecordGet(c, key) ==
    LET live == BucketOf(RecordPrune(c, key), key) IN [i \in DOMAIN live |-> live[i].record]

----------------------------------------------------------------------------
(* LruCache.                                                               *)

LruGet(c, key) ==
    LET live == Only(c, {i \in DOMAIN c : c[i].key = key /\ c[i].age < MaxLruAge})
    IN  [i \in DOMAIN live |-> live[i].value]

\* At capacity the oldest entry goes, also when the key is only replaced.
LruSet(c, key, value) ==
    LET stay == {i \in DOMAIN c : c[i].key # key /\ (Len(c) >= MaxLruSize => i # 1)}
    IN  Append(Only(c, stay), [key |-> key, value |-> value, age |-> 0])

----------------------------------------------------------------------------
(* The storage, and the passing of time.                                   *)

NewPersistent ==
    [records |-> NewRecordCache, bumps |-> <<>>, refreshes |-> <<>>, mutables |-> <<>>,
     immutables |-> <<>>, router |-> [t \in {} |-> {}]]

Older(entries, max) ==
    [i \in DOMAIN entries |-> [entries[i] EXCEPT !.age = IF @ < max THEN @ + 1 ELSE @]]

Aged(st) ==
    [st EXCEPT !.records.entries = Older(@, MaxRecordAge), !.bumps = Older(@, MaxLruAge),
               !.refreshes = Older(@, MaxLruAge), !.mutables = Older(@, MaxLruAge),
               !.immutables = Older(@, MaxLruAge)]

----------------------------------------------------------------------------
(* A storage as its operations leave it: what they rely on.                *)

IsSeq(s) == s \in Seq(Range(s))

RecordsOK(c) ==
    /\ c = [entries |-> c.entries, buckets |-> c.buckets, total |-> c.total]
    /\ IsSeq(c.entries) /\ c.total = Len(c.entries) /\ c.total <= MaxRecords
    /\ \A i \in DOMAIN c.entries : LET e == c.entries[i] IN
          /\ e = [key |-> e.key, public_key |-> e.public_key, record |-> e.record, age |-> e.age]
          /\ e.age \in Nat /\ e.key # e.public_key /\ e.key \in c.buckets
          /\ Cardinality(InBucket(c, e.key)) <= MaxPerKey
          /\ RecordsOf(c, e.key, e.public_key) = {i}

LruOK(c) ==
    /\ IsSeq(c) /\ Len(c) <= MaxLruSize
    /\ \A i \in DOMAIN c :
          /\ c[i] = [key |-> c[i].key, value |-> c[i].value, age |-> c[i].age] /\ c[i].age \in Nat
          /\ \A j \in DOMAIN c : c[j].key = c[i].key => j = i

StorageOK(st) ==
    /\ st = [records |-> st.records, bumps |-> st.bumps, refreshes |-> st.refreshes,
             mutables |-> st.mutables, immutables |-> st.immutables, router |-> st.router]
    /\ RecordsOK(st.records)
    /\ LruOK(st.bumps) /\ LruOK(st.refreshes) /\ LruOK(st.mutables) /\ LruOK(st.immutables)
    /\ \A i \in DOMAIN st.mutables : st.mutables[i].value.seq \in Nat

----------------------------------------------------------------------------
(* Handlers: the answer, and the storage after it.  Optional fields are    *)
(* sequences of at most one element.                                       *)

Signed(by, what) == [by |-> by, what |-> what]

AnnSignable(target, token, node_id, peer, refresh, ns) ==
    <<target, token, node_id, peer, refresh, ns>>

OnFindPeer(st, target) ==
    Value(IF target \in DOMAIN st.router THEN <<st.router[target]>> ELSE <<>>)

\* A self-announcement is listed last.
LookupPeers(st, target) ==
    RecordGet(st.records, target)
        \o (IF target \in DOMAIN st.router THEN <<st.router[target]>> ELSE <<>>)

LookupBump(st, target) ==
    LET bump == LruGet(st.bumps, target) IN IF bump = <<>> THEN 0 ELSE bump[1]

OnLookup(st, target) ==
    IF LookupPeers(st, target) = <<>> /\ LookupBump(st, target) = 0 THEN Value(<<>>)
    ELSE Value(<<[peers |-> LookupPeers(st, target), bump |-> LookupBump(st, target)]>>)

AfterLookup(st, target) == [st EXCEPT !.records = RecordPrune(@, target)]

\* An announcement without a peer takes it from the refresh token.
AnnouncedPeer(st, msg) ==
    IF msg.peer = <<>> /\ msg.refresh # <<>> THEN LruGet(st.refreshes, msg.refresh[1]) ELSE msg.peer

SignedBy(peer, req, node_id, ns) ==
    req.msg.signature =
        <<Signed(peer.public_key,
                 AnnSignable(req.target, req.token, node_id, peer, req.msg.refresh, ns))>>

AcceptsAnnounce(st, req, node_id) ==
    /\ req.token # <<>>
    /\ \E peer \in Range(AnnouncedPeer(st, req.msg)) : SignedBy(peer, req, node_id, "announce")

OnAnnounce(st, req, node_id) == IF AcceptsAnnounce(st, req, node_id) THEN Value(<<>>) ELSE Silent

\* A peer announced under its own hash goes to the router, where it stays; a
\* topic keeps a record of it, and a bump if there is one.
StoreAnnounce(st, req, peer) ==
    LET refreshes == IF req.msg.refresh = <<>> THEN st.refreshes
                     ELSE LruSet(st.refreshes, req.msg.refresh[1], peer)
        self == [t \in DOMAIN st.router \cup {req.target} |->
                    IF t = req.target THEN peer ELSE st.router[t]]
    IN  IF peer.public_key = req.target
        THEN [st EXCEPT !.router = self, !.refreshes = refreshes,
                        !.records = RecordRemove(@, req.target, peer.public_key)]
        ELSE [st EXCEPT !.records = RecordAdd(@, req.target, peer.public_key, peer),
                        !.refreshes = refreshes,
                        !.bumps = IF req.msg.bump = 0 THEN @ ELSE LruSet(@, req.target, req.msg.bump)]

AfterAnnounce(st, req, node_id) ==
    LET peer == AnnouncedPeer(st, req.msg)[1]
    IN  IF AcceptsAnnounce(st, req, node_id)
        THEN StoreAnnounce(st, req, [peer EXCEPT !.relay_addresses = Truncated(@, MAX_RELAY_ADDRESSES)])
        ELSE st

AcceptsUnannounce(req, node_id) ==
    /\ req.token # <<>>
    /\ \E peer \in Range(req.msg.peer) : SignedBy(peer, req, node_id, "unannounce")

OnUnannounce(req, node_id) == IF AcceptsUnannounce(req, node_id) THEN Value(<<>>) ELSE Silent

AfterUnannounce(st, req, node_id) ==
    IF AcceptsUnannounce(req, node_id)
    THEN [st EXCEPT !.records = RecordRemove(@, req.target, req.msg.peer[1].public_key),
                    !.router = [t \in DOMAIN @ \ {req.target} |-> @[t]]]
    ELSE st

\* The stored sequence number, if the record is live.
StoredSeq(st, target) == LET v == LruGet(st.mutables, target) IN [i \in DOMAIN v |-> v[i].seq]

ValidPut(req) ==
    /\ req.token # <<>>
    /\ req.put.public_key = req.target
    /\ req.put.signature = Signed(req.put.public_key, <<"mutable", req.put.seq, req.put.value>>)

\* Mutant: only a reused sequence number is refused.
OnMutablePutAny(st, req) ==
    IF ~ValidPut(req) THEN Silent
    ELSE IF \E seq \in Range(StoredSeq(st, req.target)) : seq = req.put.seq THEN Refuses(SEQ_REUSED)
    ELSE Value(<<>>)

OnMutablePut(st, req) ==
    IF ~ValidPut(req) THEN Silent
    ELSE IF \E seq \in Range(StoredSeq(st, req.target)) : seq = req.put.seq THEN Refuses(SEQ_REUSED)
    ELSE IF \E seq \in Range(StoredSeq(st, req.target)) : seq > req.put.seq THEN Refuses(SEQ_TOO_LOW)
    ELSE Value(<<>>)

AfterMutablePut(st, req) ==
    IF OnMutablePut(st, req) = Value(<<>>)
    THEN [st EXCEPT !.mutables =
             LruSet(@, req.target, [seq |-> req.put.seq, value |-> req.put.value,
                                    signature |-> req.put.signature])]
    ELSE st

OnMutableGet(st, target, seq) ==
    LET held == LruGet(st.mutables, target)
    IN  Value(Only(held, {i \in DOMAIN held : held[i].seq >= seq}))

ValidImmutable(req) == req.token # <<>> /\ req.value = req.target
OnImmutablePut(req) == IF ValidImmutable(req) THEN Value(<<>>) ELSE Silent
AfterImmutablePut(st, req) ==
    IF ValidImmutable(req) THEN [st EXCEPT !.immutables = LruSet(@, req.target, req.value)] ELSE st

OnImmutableGet(st, target) == Value(LruGet(st.immutables, target))

=============================================================================
