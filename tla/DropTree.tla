------------------------------- MODULE DropTree -------------------------------
(***************************************************************************)
(* The shape of a dead drop (version 2): a file is cut into data chunks,   *)
(* whose addresses are held by a tree of index chunks under one root.      *)
(* Sender and receiver each derive the shape from the file size alone; the *)
(* receiver names missing data chunks by ranges of positions, which the    *)
(* sender turns back into chunks of its tree.                              *)
(***************************************************************************)
EXTENDS Integers, Sequences, SequencesExt, FiniteSetsExt

CONSTANTS
    RootCap,    \* ROOT_INDEX_SLOT_CAP: slots of the root (30)
    SlotCap,    \* NON_ROOT_INDEX_SLOT_CAP: slots of another index chunk (31)
    Payload,    \* DATA_PAYLOAD_MAX: bytes of a data chunk (998)
    CountWrap,  \* the values of a need list's entry count (2^16)
    MaxFileSize \* bound on the size of a file, in bytes

ASSUME TreeAssumption ==
    /\ RootCap \in Nat \ {0} /\ Payload \in Nat \ {0}
    /\ SlotCap \in Nat /\ SlotCap > 1
    /\ CountWrap \in Nat \ {0} /\ MaxFileSize \in Nat

VARIABLE setup  \* what is dropped, how it is put and got; never changes

\* ChunkId, which is also what a slot holds: the data chunk's hash or the
\* index chunk's public key, each derived from the chunk itself.
Root == <<"root", 0>>
Data(p) == <<"data", p>>
Index(k) == <<"index", k>>

DivCeil(a, b) == (a + b - 1) \div b

DataChunkCount(file_size) == IF file_size = 0 THEN 0 ELSE DivCeil(file_size, Payload)

\* The number of index layers between the root and the data.
RECURSIVE CanonicalDepth(_)
CanonicalDepth(n) ==
    IF n <= RootCap THEN 0 ELSE 1 + CanonicalDepth(DivCeil(n, SlotCap))

\* The chunks of layer l, counted from the leaves (0).
RECURSIVE LayerCount(_, _)
LayerCount(n, l) ==
    DivCeil(IF l = 0 THEN n ELSE LayerCount(n, l - 1), SlotCap)

ComputeLayout(file_size) ==
    LET n == DataChunkCount(file_size)
        depth == CanonicalDepth(n)
    IN  [n |-> n, depth |-> depth,
         layer_counts |-> [l \in 1 .. depth |-> LayerCount(n, l - 1)]]

\* The index chunks below layer l: those are numbered first.
RECURSIVE LayerOffset(_, _)
LayerOffset(layout, l) ==
    IF l = 0 THEN 0 ELSE LayerOffset(layout, l - 1) + layout.layer_counts[l]

TotalNonRootIndexChunks(layout) == LayerOffset(layout, layout.depth)

\* What the chunks of layer l point to; for l = depth, what the root does.
Pointed(layout, l) ==
    IF l = 0 THEN [i \in 1 .. layout.n |-> Data(i - 1)]
    ELSE [i \in 1 .. layout.layer_counts[l] |-> Index(LayerOffset(layout, l - 1) + i - 1)]

\* The pos-th chunk of a layer: SlotCap of the layer's pointers, in order.
SlotsAt(pointed, pos) ==
    SubSeq(pointed, pos * SlotCap + 1,
           IF (pos + 1) * SlotCap < Len(pointed) THEN (pos + 1) * SlotCap ELSE Len(pointed))

\* build_tree: the slots of every index chunk in build order, and the root's.
BuildTree(file_size) ==
    LET layout == ComputeLayout(file_size)
        layer(l) == [i \in 1 .. layout.layer_counts[l + 1] |-> SlotsAt(Pointed(layout, l), i - 1)]
    IN  [layout |-> layout,
         root |-> [file_size |-> file_size, slots |-> Pointed(layout, layout.depth)],
         index_chunks |-> FlattenSeq([l \in 1 .. layout.depth |-> layer(l - 1)])]

\* The tree of the file that is dropped.
Trees == [file_size \in 0 .. MaxFileSize |-> BuildTree(file_size)]
TheTree == Trees[setup.file_size]

----------------------------------------------------------------------------
(* The receiver's walk.                                                    *)

\* The data positions below one slot of a chunk of the given depth.
RECURSIVE SubtreeSize(_)
SubtreeSize(remaining_depth) ==
    IF remaining_depth = 0 THEN 1 ELSE SlotCap * SubtreeSize(remaining_depth - 1)

(***************************************************************************)
(* schedule_children_from_index: one fetch per slot, for the positions     *)
(* below it; at depth 0 the slots are data, a position each.               *)
(***************************************************************************)
ScheduleChildren(slots, remaining_depth, base, end) ==
    LET size == SubtreeSize(remaining_depth)
        from(i) == base + (i - 1) * size
        to(i) == IF from(i) + size < end THEN from(i) + size ELSE end
    IN  {[address |-> slots[i], depth |-> remaining_depth - 1, base |-> from(i), end |-> to(i)]
            : i \in {j \in DOMAIN slots : from(j) < end}}

IsDataTask(t) == t.depth = -1

----------------------------------------------------------------------------
(* Need lists: the missing positions, as half-open ranges.                 *)

RECURSIVE Ascending(_)
Ascending(S) == IF S = {} THEN <<>> ELSE <<Min(S)>> \o Ascending(S \ {Min(S)})

\* coalesce_missing_ranges, of the set of positions.
CoalesceMissingRanges(missing) ==
    LET starts == Ascending({p \in missing : p - 1 \notin missing})
        lasts == Ascending({p \in missing : p + 1 \notin missing})
    IN  [i \in DOMAIN starts |-> [start |-> starts[i], end |-> lasts[i] + 1]]

Version == 2

\* encode_need_list: version, count (two bytes), then start and end of each.
EncodeNeedList(entries) ==
    <<Version, Len(entries) % CountWrap>>
        \o [i \in 1 .. 2 * Len(entries) |->
               IF i % 2 = 1 THEN entries[(i + 1) \div 2].start ELSE entries[i \div 2].end]

\* The receiver's mark that it is done: no bytes at all.
DoneSentinel == <<>>

\* decode_need_list: the entries, or ok = FALSE for a record it refuses.
DecodeNeedList(bytes) ==
    LET fields == SubSeq(bytes, 3, Len(bytes))
        entries == [i \in 1 .. Len(fields) \div 2 |->
                       [start |-> fields[2 * i - 1], end |-> fields[2 * i]]]
    IN  [ok |-> \/ bytes = DoneSentinel
                \/ /\ bytes[1] = Version
                   /\ Len(bytes) >= 2
                   /\ Len(fields) % 2 = 0
                   /\ Len(entries) = bytes[2]
                   /\ \A i \in DOMAIN entries : entries[i].start < entries[i].end,
         entries |-> IF bytes = DoneSentinel THEN <<>> ELSE entries]

\* The chunks of layer l that the positions of start .. end - 1 hang from.
TouchedAtLayer(start, end, l) ==
    (start \div SubtreeSize(l + 1)) .. ((end - 1) \div SubtreeSize(l + 1))

\* response_chunks_for_entry: the data chunks and every index chunk above them.
ResponseChunksForEntry(layout, entry) ==
    LET end == IF entry.end < layout.n THEN entry.end ELSE layout.n
        layers == {l \in 0 .. layout.depth - 1 : entry.start < end}
    IN  [data |-> entry.start .. (end - 1),
         index |-> UNION {{LayerOffset(layout, l) + pos :
                               pos \in TouchedAtLayer(entry.start, end, l)
                                          \cap (0 .. layout.layer_counts[l + 1] - 1)} : l \in layers}]

\* response_chunks_for_list: without repetition, in ascending order, data first.
ResponseChunksForList(layout, entries) ==
    LET data == UNION {ResponseChunksForEntry(layout, entries[i]).data : i \in DOMAIN entries}
        index == UNION {ResponseChunksForEntry(layout, entries[i]).index : i \in DOMAIN entries}
    IN  [i \in 1 .. Cardinality(data) |-> Data(Ascending(data)[i])]
            \o [i \in 1 .. Cardinality(index) |-> Index(Ascending(index)[i])]

----------------------------------------------------------------------------
(* What the shapes of sender and receiver must agree on.                   *)

\* What one fetched index chunk is replaced by, and so on to the data.
RECURSIVE Walk(_, _)
Walk(tree, tasks) ==
    IF \A t \in tasks : IsDataTask(t) THEN tasks
    ELSE Walk(tree, {t \in tasks : IsDataTask(t)} \cup
                    UNION {ScheduleChildren(tree.index_chunks[t.address[2] + 1], t.depth, t.base, t.end)
                              : t \in {u \in tasks : ~IsDataTask(u)}})

\* Every data chunk is found by the walk from the root, at its own position.
WalkFindsAll(file_size) ==
    LET tree == BuildTree(file_size)
    IN  /\ Len(tree.root.slots) <= RootCap
        /\ \A k \in DOMAIN tree.index_chunks : Len(tree.index_chunks[k]) \in 1 .. SlotCap
        /\ Len(tree.index_chunks) = TotalNonRootIndexChunks(tree.layout)
        /\ Walk(tree, ScheduleChildren(tree.root.slots, tree.layout.depth, 0, tree.layout.n))
              = {[address |-> Data(p), depth |-> -1, base |-> p, end |-> p + 1]
                    : p \in 0 .. tree.layout.n - 1}

\* The index chunks on the way from the root to a data chunk, by the walk.
RECURSIVE Above(_, _)
Above(tree, id) ==
    LET parents == {k \in DOMAIN tree.index_chunks : id \in Range(tree.index_chunks[k])}
    IN  {Index(k - 1) : k \in parents} \cup UNION {Above(tree, Index(k - 1)) : k \in parents}

\* A need list survives the wire, and asks for exactly the missing chunks and
\* the index chunks above them.
NeedIsServedExactly(file_size) ==
    LET tree == BuildTree(file_size)
    IN  \A missing \in SUBSET (0 .. tree.layout.n - 1) :
            LET sent == CoalesceMissingRanges(missing)
                got == DecodeNeedList(EncodeNeedList(sent))
            IN  /\ got.ok /\ got.entries = sent
                /\ Range(ResponseChunksForList(tree.layout, got.entries))
                      = {Data(p) : p \in missing} \cup UNION {Above(tree, Data(p)) : p \in missing}

=============================================================================
