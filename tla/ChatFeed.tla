------------------------------ MODULE ChatFeed ------------------------------
(***************************************************************************)
(* The sending side of a chat: the feed of one author (feed.rs, post.rs)   *)
(* and the publisher task that batches what the session queues, stores the *)
(* messages, advertises them in the feed's record and announces the feed   *)
(* (publisher.rs).  A feed is a number; the author's next feed is the next *)
(* number.  A text is TRUE if it fits into a record when it is encrypted.  *)
(*                                                                         *)
(* A hash stands for the content it is the hash of.  The message n of feed *)
(* f is <<"msg", f, n>>; it links to message n - 1 of the same feed, the   *)
(* first one to the zero hash.  An identity signs each of its feeds, so a  *)
(* chain (id, feed) is named by its feed.                                  *)
(*                                                                         *)
(* External: the DHT.  `mutables` holds the record with the highest        *)
(* sequence number of each feed, `blobs` the immutable values, `announced` *)
(* how fresh a feed's announcement is.  An operation on it may fail, and a *)
(* record may be lost by its nodes, setup.faults times in all.             *)
(***************************************************************************)
EXTENDS Integers, Sequences, FiniteSets, SequencesExt, TLC

CONSTANTS
    EvictTrigger, EvictCount,   \* SUMMARY_EVICT_TRIGGER, SUMMARY_EVICT_COUNT
    PutAttempts,                \* MUTABLE_PUT_RETRY_MS and the first attempt
    MaxFeeds,                   \* bound: feeds one author generates
    PerSecond                   \* messages an author posts within one second of its clock

ASSUME FeedAssumption ==
    /\ EvictCount \in 1 .. EvictTrigger /\ EvictTrigger \in Nat
    /\ PutAttempts \in Nat \ {0} /\ MaxFeeds \in Nat \ {0} /\ PerSecond \in Nat \ {0}

Zero == <<"zero">>
Msg(f, n) == <<"msg", f, n>>
FeedOf(m) == m[2]
PrevOf(m) == IF m[3] = 1 THEN Zero ELSE Msg(m[2], m[3] - 1)
\* Envelopes are stamped in whole seconds.
SecondOf(m) == m[3] \div PerSecond

VARIABLES
    setup,          \* the situation that is checked, chosen in the initial state
    mutables, blobs, announced,
    faults,         \* how many operations have failed
    lost,           \* the values whose immutable_put failed
    begun,          \* the feeds whose first record was put
    feed,           \* FeedState
    generated,      \* the number of the newest feed
    pub,            \* run_publisher: where it is in its batch
    watch,          \* what run_feed_refresh puts again, or Nothing
    overlaps,       \* the records run_rotation_overlap_refresh puts again
    queue,          \* the channel from the session
    closed,         \* the session dropped its sender
    send_pending    \* StatusState: the messages the bar counts as being sent

dhtVars == <<mutables, blobs, announced, faults, lost, begun>>
pubVars == <<feed, generated, pub, watch, overlaps>>
feedVars == <<dhtVars, pubVars, queue, closed, send_pending>>

Feeds == 1 .. MaxFeeds
MayFail == faults < setup.faults

----------------------------------------------------------------------------
(* FeedState and what it names.                                            *)

NewFeed(f) ==
    [id |-> f, hashes |-> << >>, summary |-> Zero, next |-> 0, seq |-> 0, prev |-> Zero]

\* serialize_feed_record
Record(fs) == [next |-> fs.next, summary |-> fs.summary, hashes |-> fs.hashes]

Summary(prev, hashes) == <<"sum", prev, hashes>>

\* The messages below a summary block, oldest first, and all that a record
\* names: its messages, its summary blocks and theirs.
RECURSIVE Archived(_)
Archived(sum) == IF sum = Zero THEN << >> ELSE Archived(sum[2]) \o sum[3]

RECURSIVE Blocks(_)
Blocks(sum) == IF sum = Zero THEN {} ELSE {sum} \cup Blocks(sum[2])

History(rec) == Archived(rec.summary) \o Reverse(rec.hashes)
Named(rec) == Range(History(rec)) \cup Blocks(rec.summary)

\* Mutant: the summary frames one message less than is evicted.
EvictsOneMore(fs) ==
    LET keep == Len(fs.hashes) - EvictCount
    IN  [fs EXCEPT !.summary = Summary(@, Reverse(SubSeq(fs.hashes, keep + 2, Len(fs.hashes)))),
                   !.hashes = SubSeq(@, 1, keep)]

Evicted(fs) ==
    LET keep == Len(fs.hashes) - EvictCount
    IN  [fs EXCEPT !.summary = Summary(@, Reverse(SubSeq(fs.hashes, keep + 1, Len(fs.hashes)))),
                   !.hashes = SubSeq(@, 1, keep)]

\* prepare_one.  A text that is too large is refused before anything changes.
PrepareOne(fs, fits) ==
    LET m == Msg(fs.id, IF fs.prev = Zero THEN 1 ELSE fs.prev[3] + 1)
        room == IF Len(fs.hashes) >= EvictTrigger THEN Evicted(fs) ELSE fs
    IN  IF fits THEN [room EXCEPT !.hashes = <<m>> \o @, !.prev = m] ELSE fs

RECURSIVE PrepareAll(_, _)
PrepareAll(fs, texts) ==
    IF texts = << >> THEN fs ELSE PrepareAll(PrepareOne(fs, Head(texts)), Tail(texts))

----------------------------------------------------------------------------
(* The DHT as the chat uses it.                                            *)

\* mutable_put: the nodes keep the record with the higher sequence number.
Put(f, seq, rec) ==
    IF f \in DOMAIN mutables /\ mutables[f].seq >= seq THEN mutables
    ELSE (f :> [seq |-> seq, rec |-> rec]) @@ mutables

\* A put that is reported as failed may have reached some node all the same.
PutFails(f, seq, rec) ==
    /\ MayFail
    /\ faults' = faults + 1
    /\ mutables' \in {mutables, Put(f, seq, rec)}

PutWorks(f, seq, rec) == mutables' = Put(f, seq, rec) /\ faults' = faults

\* The nodes that hold a record leave, or its lifetime ends.
RecordIsLost(f) ==
    /\ MayFail
    /\ f \in DOMAIN mutables
    /\ faults' = faults + 1
    /\ mutables' = [g \in DOMAIN mutables \ {f} |-> mutables[g]]
    /\ UNCHANGED <<setup, blobs, announced, lost, begun, pubVars, queue, closed, send_pending>>

----------------------------------------------------------------------------
(* run_publisher.                                                          *)

Idle == [phase |-> "idle"]

FeedInit ==
    /\ mutables = << >> /\ blobs = {} /\ announced = [f \in Feeds |-> "none"]
    /\ faults = 0 /\ lost = {} /\ begun = {}
    /\ feed = NewFeed(1) /\ generated = 1
    /\ pub = [phase |-> "starting"]
    /\ watch = << >> /\ overlaps = {}
    /\ queue = << >> /\ closed = FALSE /\ send_pending = 0

\* The initial publish; a failure is only reported.
PublisherStarts ==
    /\ pub.phase = "starting"
    /\ \/ PutWorks(feed.id, feed.seq, Record(feed)) /\ begun' = begun \cup {feed.id}
       \/ PutFails(feed.id, feed.seq, Record(feed)) /\ UNCHANGED begun
    /\ watch' = <<feed.id, feed.seq, Record(feed)>>
    /\ pub' = Idle
    /\ UNCHANGED <<setup, blobs, announced, lost, feed, generated, overlaps,
                   queue, closed, send_pending>>

\* The first text of a batch.
BatchStarts ==
    /\ pub.phase = "idle"
    /\ queue # << >>
    /\ pub' = [phase |-> "collecting", texts |-> <<Head(queue)>>]
    /\ queue' = Tail(queue)
    /\ UNCHANGED <<setup, dhtVars, feed, generated, watch, overlaps, closed, send_pending>>

\* Another text within batch_wait and batch_size.
BatchTakes ==
    /\ pub.phase = "collecting"
    /\ queue # << >>
    /\ Len(pub.texts) < setup.batch
    /\ pub' = [pub EXCEPT !.texts = Append(@, Head(queue))]
    /\ queue' = Tail(queue)
    /\ UNCHANGED <<setup, dhtVars, feed, generated, watch, overlaps, closed, send_pending>>

\* publish_batch, phase 1: every text becomes a message of the chain.
BatchCloses ==
    /\ pub.phase = "collecting"
    /\ feed' = LET prepared == PrepareAll(feed, pub.texts)
               IN  IF prepared = feed THEN feed ELSE [prepared EXCEPT !.seq = @ + 1]
    /\ \/ /\ feed' = feed
          /\ send_pending' = send_pending - Len(pub.texts)
          /\ pub' = Idle
       \/ /\ feed' # feed
          /\ pub' = [phase |-> "storing", texts |-> pub.texts,
                     blobs |-> Named(Record(feed')) \ Named(Record(feed)),
                     rec |-> Record(feed'), seq |-> feed'.seq]
          /\ UNCHANGED send_pending
    /\ UNCHANGED <<setup, dhtVars, generated, watch, overlaps, queue, closed>>

\* Phase 2: all immutable_puts; a failure is only reported.
BatchStored(failed) ==
    /\ pub.phase = "storing"
    /\ failed \subseteq pub.blobs
    /\ faults + Cardinality(failed) <= setup.faults
    /\ faults' = faults + Cardinality(failed)
    /\ lost' = lost \cup failed
    /\ blobs' = blobs \cup (pub.blobs \ failed)
    /\ pub' = [phase |-> "advertising", texts |-> pub.texts,
               rec |-> pub.rec, seq |-> pub.seq, attempts |-> 0]
    /\ UNCHANGED <<setup, mutables, announced, begun, feed, generated, watch, overlaps,
                   queue, closed, send_pending>>

\* Phase 3: the record, with retries.  The refresh task learns of it either way.
BatchAdvertised ==
    /\ pub.phase = "advertising"
    /\ \/ /\ PutWorks(feed.id, pub.seq, pub.rec)
          /\ begun' = begun \cup {feed.id}
          /\ pub' = [phase |-> "announcing", texts |-> pub.texts]
          /\ watch' = <<feed.id, pub.seq, pub.rec>>
       \/ /\ PutFails(feed.id, pub.seq, pub.rec)
          /\ UNCHANGED begun
          /\ IF pub.attempts + 1 < PutAttempts
             THEN pub' = [pub EXCEPT !.attempts = @ + 1] /\ UNCHANGED watch
             ELSE /\ pub' = [phase |-> "announcing", texts |-> pub.texts]
                  /\ watch' = <<feed.id, pub.seq, pub.rec>>
    /\ UNCHANGED <<setup, blobs, announced, lost, feed, generated, overlaps,
                   queue, closed, send_pending>>

\* Phase 4: the announcement, whose failure is ignored, and the count.
BatchAnnounced ==
    /\ pub.phase = "announcing"
    /\ \/ announced' = [announced EXCEPT ![feed.id] = "recent"] /\ UNCHANGED faults
       \/ MayFail /\ faults' = faults + 1 /\ UNCHANGED announced
    /\ send_pending' = send_pending - Len(pub.texts)
    /\ pub' = Idle
    /\ UNCHANGED <<setup, mutables, blobs, lost, begun, feed, generated,
                   watch, overlaps, queue, closed>>

\* rotate_feed, when the new feed's first put fails: the pointer is rolled
\* back and the next tick starts over with another keypair.
RotationFails ==
    /\ pub.phase = "idle"
    /\ generated < setup.feeds
    /\ PutFails(generated + 1, 0, Record(NewFeed(generated + 1)))
    /\ generated' = generated + 1
    /\ UNCHANGED <<setup, blobs, announced, lost, begun, feed, pub, watch, overlaps,
                   queue, closed, send_pending>>

\* rotate_feed: the new feed's record, the old feed's record with the pointer
\* (its failure is not fatal), the overlap task, the new refresh task.
Rotate(oldWorks) ==
    LET new == NewFeed(generated + 1)
        old == [feed EXCEPT !.next = new.id, !.seq = @ + 1]
        first == (new.id :> [seq |-> 0, rec |-> Record(new)]) @@ mutables
    IN  /\ pub.phase = "idle"
        /\ generated < setup.feeds
        /\ oldWorks \/ MayFail
        /\ faults' = IF oldWorks THEN faults ELSE faults + 1
        /\ mutables' = IF oldWorks THEN (old.id :> [seq |-> old.seq, rec |-> Record(old)]) @@ first
                       ELSE first
        /\ begun' = begun \cup {new.id}
        /\ overlaps' = overlaps \cup {<<old.id, old.seq, Record(old)>>}
        /\ watch' = <<new.id, 0, Record(new)>>
        /\ feed' = new
        /\ generated' = new.id
        /\ UNCHANGED <<setup, blobs, announced, lost, pub, queue, closed, send_pending>>

\* The session's sender is gone and the queue is empty.
PublisherExits ==
    /\ pub.phase = "idle"
    /\ closed /\ queue = << >>
    /\ pub' = [phase |-> "exited"]
    /\ watch' = << >>
    /\ UNCHANGED <<setup, dhtVars, feed, generated, overlaps, queue, closed, send_pending>>

----------------------------------------------------------------------------
(* The refresh tasks, whose failures only wait for the next time.          *)

\* run_feed_refresh
Refresh ==
    /\ watch # << >>
    /\ mutables' = Put(watch[1], watch[2], watch[3])
    /\ UNCHANGED <<setup, blobs, announced, faults, lost, begun, pubVars,
                   queue, closed, send_pending>>

\* run_rotation_overlap_refresh: once.
OverlapRefresh(o) ==
    /\ \/ mutables' = Put(o[1], o[2], o[3]) /\ UNCHANGED faults
       \/ MayFail /\ faults' = faults + 1 /\ UNCHANGED mutables
    /\ overlaps' = overlaps \ {o}
    /\ UNCHANGED <<setup, blobs, announced, lost, begun, feed, generated, pub, watch,
                   queue, closed, send_pending>>

=============================================================================
