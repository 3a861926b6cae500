------------------------------ MODULE ChatReader ------------------------------
(***************************************************************************)
(* The receiving side of a chat (reader.rs): finding feeds, reading their  *)
(* records, fetching what they name and passing it through the gate.       *)
(* Polling times are abstracted: a known feed may be due at any time.      *)
(* The gate (ordering.rs) has the ring of hashes already released, holds a *)
(* message back until its predecessor was released, and sorts a batch      *)
(* along its chains.                                                       *)
(***************************************************************************)
EXTENDS ChatFeed, BagsExt

CONSTANTS
    MaxDepth,      \* MAX_SUMMARY_DEPTH
    DedupCap       \* DEDUP_RING_CAPACITY

ASSUME ReaderAssumption == MaxDepth \in Nat \ {0} /\ DedupCap \in Nat \ {0}

----------------------------------------------------------------------------
(* DedupRing.                                                              *)

\* Mutant: the hash is not put into the ring.
RingSkips(ring, h) == ring

RingInsert(ring, h) ==
    IF h \in Range(ring) THEN ring
    ELSE IF Len(ring) < DedupCap THEN Append(ring, h)
    ELSE Append(Tail(ring), h)

----------------------------------------------------------------------------
(* ChainGate.  `last` is defined for the chains that have an anchor;       *)
(* `pending` holds at most one message per chain and predecessor; `aged`   *)
(* is set once an entry has waited for GAP_TIMEOUT; `shown` is all that    *)
(* went to the display.                                                    *)

NewGate == [ring |-> << >>, last |-> << >>, pending |-> {}, shown |-> << >>]

Duplicate(g, m) ==
    \/ m \in Range(g.ring)
    \/ FeedOf(m) \in DOMAIN g.last /\ g.last[FeedOf(m)] = m

Chains(g, m) ==
    IF FeedOf(m) \in DOMAIN g.last THEN g.last[FeedOf(m)] = PrevOf(m) ELSE TRUE

Buffers(g, m) == ~Duplicate(g, m) /\ ~Chains(g, m)

Released(g, m, late) ==
    [g EXCEPT !.ring = RingInsert(@, m),
              !.last = [f \in DOMAIN @ \cup {FeedOf(m)} |-> IF f = FeedOf(m) THEN m ELSE @[f]],
              !.shown = Append(@, [msg |-> m, late |-> late])]

RECURSIVE Drained(_, _)
Drained(g, f) ==
    LET next == {e \in g.pending : FeedOf(e.msg) = f /\ PrevOf(e.msg) = g.last[f]}
    IN  IF next = {} THEN g
        ELSE LET e == CHOOSE e \in next : TRUE
             IN  Drained(Released([g EXCEPT !.pending = @ \ {e}], e.msg, FALSE), f)

Submitted(g, m) ==
    IF Duplicate(g, m) THEN g
    ELSE IF Chains(g, m) THEN Drained(Released(g, m, FALSE), FeedOf(m))
    ELSE [g EXCEPT !.pending =
             {e \in @ : FeedOf(e.msg) # FeedOf(m) \/ PrevOf(e.msg) # PrevOf(m)}
                 \cup {[msg |-> m, aged |-> FALSE]}]

\* GAP_TIMEOUT passes for everything that waits now.
Aged(g) == [g EXCEPT !.pending = {[e EXCEPT !.aged = TRUE] : e \in @}]

Overdue(g) == {e.msg : e \in {e \in g.pending : e.aged}}

\* The orders in which `expire` may release: chain by chain, by second within a
\* chain, and as the hash maps yield chains and messages of one second.
ExpiryOrders(S) ==
    {s \in SetToSeqs(S) :
        \A i, k \in DOMAIN s :
            i < k /\ FeedOf(s[i]) = FeedOf(s[k]) =>
                /\ SecondOf(s[i]) <= SecondOf(s[k])
                /\ \A j \in i .. k : FeedOf(s[j]) = FeedOf(s[i])}

RECURSIVE ReleasedLate(_, _)
ReleasedLate(g, order) ==
    IF order = << >> THEN g
    ELSE ReleasedLate(Drained(Released(g, Head(order), TRUE), FeedOf(Head(order))),
                      Tail(order))

\* Mutant: what waited too long is dropped.
DropsOverdue(g, order) == [g EXCEPT !.pending = {e \in @ : ~e.aged}]

Expired(g, order) ==
    ReleasedLate([g EXCEPT !.pending = {e \in @ : ~e.aged}], order)

----------------------------------------------------------------------------
(* chain_sort, for messages of one feed: every run of links oldest first,  *)
(* the runs in the order the hash map yields them.                         *)

RECURSIVE RunFrom(_, _)
RunFrom(S, m) ==
    LET next == Msg(FeedOf(m), m[3] + 1)
    IN  <<m>> \o (IF next \in S THEN RunFrom(S, next) ELSE << >>)

ChainSorts(S) ==
    LET roots == {m \in S : PrevOf(m) \notin S}
    IN  {FlattenSeq([i \in DOMAIN s |-> RunFrom(S, s[i])]) : s \in SetToSeqs(roots)}

----------------------------------------------------------------------------
(* The reader.                                                             *)

VARIABLES
    stage,      \* of run_reader: "start", "found", "live"
    known,      \* known_feeds: has a record been accepted, its seq, its summary
    reading     \* the gate, pending_refetches and the running refetch tasks

readerVars == <<stage, known, reading>>

NewKnown == [met |-> FALSE, seq |-> 0, summary |-> Zero]
Known(k, fs) == [f \in DOMAIN k \cup fs |-> IF f \in DOMAIN k THEN k[f] ELSE NewKnown]

ReaderInit ==
    /\ stage = "start"
    /\ known = IF setup.own THEN (1 :> NewKnown) ELSE << >>
    /\ reading = [gate |-> NewGate, refetching |-> {}, tasks |-> EmptyBag]

----------------------------------------------------------------------------
(* Fetching.  `got` is what can be fetched and decoded.                    *)

\* fetch_and_validate_messages from position i of a newest-first list on: the
\* link expected of the next message is forgotten at a message already shown
\* and at a broken link, not at one that could not be fetched.
RECURSIVE Validated(_, _, _, _, _)
Validated(hashes, i, expected, ring, got) ==
    IF i > Len(hashes) THEN << >>
    ELSE IF hashes[i] \in ring THEN Validated(hashes, i + 1, Zero, ring, got)
    ELSE IF hashes[i] \notin got THEN Validated(hashes, i + 1, expected, ring, got)
    ELSE IF expected # Zero /\ hashes[i] # expected
         THEN Validated(hashes, i + 1, Zero, ring, got)
    ELSE IF i < Len(hashes) /\ PrevOf(hashes[i]) # hashes[i + 1]
         THEN Validated(hashes, i + 1, expected, ring, got)
    ELSE <<hashes[i]>> \o Validated(hashes, i + 1, PrevOf(hashes[i]), ring, got)

\* fetch_summary_history
RECURSIVE HistoryOf(_, _, _, _)
HistoryOf(sum, depth, ring, got) ==
    IF sum = Zero \/ depth = MaxDepth \/ sum \notin got THEN {}
    ELSE Range(Validated(Reverse(sum[3]), 1, Zero, ring, got))
             \cup HistoryOf(sum[2], depth + 1, ring, got)

----------------------------------------------------------------------------
(* submit_to_gate: a message that has to wait starts one refetch of the    *)
(* message it waits for.                                                   *)

SubmitToGate(r, m) ==
    [gate |-> Submitted(r.gate, m),
     refetching |-> IF Buffers(r.gate, m) THEN r.refetching \cup {PrevOf(m)} ELSE r.refetching,
     tasks |-> IF Buffers(r.gate, m) /\ PrevOf(m) \notin r.refetching
               THEN BagAdd(r.tasks, PrevOf(m)) ELSE r.tasks]

RECURSIVE SubmitAll(_, _)
SubmitAll(r, msgs) ==
    IF msgs = << >> THEN r ELSE SubmitAll(SubmitToGate(r, Head(msgs)), Tail(msgs))

----------------------------------------------------------------------------
(* run_reader.                                                             *)

\* Cold start: lookups over the last 20 epochs; a failed one finds nothing.
ColdLookup(missed) ==
    /\ stage = "start"
    /\ missed \subseteq {f \in Feeds : announced[f] # "none"}
    /\ faults + Cardinality(missed) <= setup.faults
    /\ faults' = faults + Cardinality(missed)
    /\ known' = Known(known, {f \in Feeds : announced[f] # "none"} \ missed)
    /\ stage' = "found"
    /\ UNCHANGED <<reading, setup, mutables, blobs, announced, lost, begun, pubVars,
                   queue, closed, send_pending>>

\* What a reader that reads the records of these feeds will ask for.
Wanted(fs) == UNION {Named(mutables[f].rec) : f \in fs} \ Range(reading.gate.ring)

\* Cold start: the records (of `fs`, the others' gets fail), all they name, one
\* sort over all of it.
ColdStart(fs, failed) ==
    LET got == blobs \ failed
        backlog(f) ==
            Range(Validated(mutables[f].rec.hashes, 1, Zero, {}, got))
                \cup HistoryOf(mutables[f].rec.summary, 0, {}, got)
    IN  /\ stage = "found"
        /\ fs \subseteq DOMAIN known \cap DOMAIN mutables
        /\ failed \subseteq Wanted(fs)
        /\ faults' = faults + Cardinality(failed)
                       + Cardinality((DOMAIN known \cap DOMAIN mutables) \ fs)
        /\ faults' <= setup.faults
        /\ known' = [f \in DOMAIN known |->
                        IF f \in fs THEN [met |-> TRUE, seq |-> mutables[f].seq,
                                         summary |-> mutables[f].rec.summary]
                        ELSE known[f]]
        /\ \E order \in SetToSeqs(fs) :
           \E sorts \in [fs -> UNION {ChainSorts(backlog(f)) : f \in fs}] :
              /\ \A f \in fs : sorts[f] \in ChainSorts(backlog(f))
              /\ reading' = SubmitAll(reading, FlattenSeq([i \in DOMAIN order |-> sorts[order[i]]]))
        /\ stage' = "live"
        /\ UNCHANGED <<setup, mutables, blobs, announced, lost, begun, pubVars,
                       queue, closed, send_pending>>

\* run_discovery, and its results taken into known_feeds.
Discover(f) ==
    /\ stage = "live"
    /\ announced[f] = "recent"
    /\ known' = Known(known, {f})
    /\ UNCHANGED <<stage, reading, setup, feedVars>>

\* Epochs pass: the discovery looks at the last two, the cold start at twenty.
\* A scan takes less than an epoch, unless it fails.
AnnouncementAges(f) ==
    /\ announced[f] # "none"
    /\ announced' = [announced EXCEPT ![f] = IF @ = "recent" THEN "old" ELSE "none"]
    /\ \/ stage # "live" /\ UNCHANGED faults
       \/ stage = "live" /\ f \in DOMAIN known /\ UNCHANGED faults
       \/ stage = "live" /\ f \notin DOMAIN known /\ MayFail /\ faults' = faults + 1
    /\ UNCHANGED <<readerVars, setup, mutables, blobs, lost, begun, pubVars,
                   queue, closed, send_pending>>

\* FEED_EXPIRY_SECS without a new record or a discovery.
Forget(f) ==
    /\ stage = "live"
    /\ f \in DOMAIN known
    /\ announced[f] = "none"
    /\ known' = [g \in DOMAIN known \ {f} |-> known[g]]
    /\ UNCHANGED <<stage, reading, setup, feedVars>>

\* The messages of a record are submitted oldest first, its history after
\* them, if it is the feed's first record or the summary is a new one.
PollTakes(f, rec, first, got) ==
    LET recent == SubmitAll(reading, Reverse(Validated(rec.hashes, 1, Zero,
                                                       Range(reading.gate.ring), got)))
        changed == rec.summary # known[f].summary /\ rec.summary # Zero
    IN  IF first \/ changed
        THEN \E sort \in ChainSorts(HistoryOf(rec.summary, 0, Range(recent.gate.ring), got)) :
                reading' = SubmitAll(recent, sort)
        ELSE reading' = recent

\* A due feed whose record is newer than the one seen last.  Its sequence
\* number is taken before anything is fetched.
Poll(f, failed) ==
    /\ stage = "live"
    /\ f \in DOMAIN known \cap DOMAIN mutables
    /\ mutables[f].seq > known[f].seq
    /\ failed \subseteq Wanted({f})
    /\ faults' = faults + Cardinality(failed)
    /\ faults' <= setup.faults
    /\ LET rec == mutables[f].rec
       IN  /\ PollTakes(f, rec, ~known[f].met, blobs \ failed)
           /\ known' = Known([known EXCEPT ![f] =
                                 [met |-> TRUE, seq |-> mutables[f].seq,
                                  summary |-> IF ~known[f].met \/ rec.summary # Zero
                                              THEN rec.summary ELSE @.summary]],
                             {rec.next} \ {0})
    /\ UNCHANGED <<stage, setup, mutables, blobs, announced, lost, begun, pubVars,
                   queue, closed, send_pending>>

\* GAP_TIMEOUT passes for what waits.
WaitingAges ==
    /\ stage = "live"
    /\ \E e \in reading.gate.pending : ~e.aged
    /\ reading' = [reading EXCEPT !.gate = Aged(@)]
    /\ UNCHANGED <<stage, known, setup, feedVars>>

\* The tick of the gate: what waited too long is released as late, and the
\* messages it waited for may be fetched again later.
Expire ==
    /\ stage = "live"
    /\ Overdue(reading.gate) # {}
    /\ \E order \in ExpiryOrders(Overdue(reading.gate)) :
          reading' = [reading EXCEPT
              !.gate = Expired(@, order),
              !.refetching = @ \ {PrevOf(m) : m \in Overdue(reading.gate)}]
    /\ UNCHANGED <<stage, known, setup, feedVars>>

\* A refetch task ends, after up to four attempts, and its result is taken.
RefetchEnds(h, found) ==
    LET rest == [reading EXCEPT !.refetching = @ \ {h}, !.tasks = BagRemove(@, h)]
    IN  /\ stage = "live"
        /\ BagIn(h, reading.tasks)
        /\ IF found THEN h \in blobs /\ UNCHANGED faults
           ELSE \/ h \notin blobs /\ UNCHANGED faults
                \/ h \in blobs /\ MayFail /\ faults' = faults + 1
        /\ reading' = IF found THEN SubmitToGate(rest, h) ELSE rest
        /\ UNCHANGED <<stage, known, setup, mutables, blobs, announced, lost, begun, pubVars,
                       queue, closed, send_pending>>

=============================================================================
