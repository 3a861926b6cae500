-------------------------------- MODULE Chat --------------------------------
(***************************************************************************)
(* A chat: an author's session with its publisher and its refresh and      *)
(* nudge tasks, a reader (the author's own or another participant's), the  *)
(* recipient's inbox monitor, and the files about people.  setup.parts     *)
(* names the parts that run in the situation that is checked; the parts    *)
(* share no state beyond what the modules they extend say.                 *)
(***************************************************************************)
EXTENDS ChatInbox, ChatPeople

CONSTANTS
    Setups,       \* the situations to check
    QueueCap      \* the capacity of the channel to the publisher

ASSUME SessionAssumption == QueueCap \in Nat \ {0}

----------------------------------------------------------------------------
(* The session of the author (session.rs): what is typed goes to the       *)
(* publisher's bounded queue and, in a direct message, to the nudge task;  *)
(* and the ways a session ends.                                            *)

VARIABLES
    session,    \* inviting, running, flushing, flushed, closing, nudging, retracting, done
    typed,      \* how many of setup.texts were typed
    sending     \* a text that waits for room in the queue: <<text>> or << >>

sessionVars == <<session, typed, sending>>

SessionInit ==
    /\ session = IF setup.invite THEN "inviting" ELSE "running"
    /\ typed = 0
    /\ sending = << >>

\* The first invite is sent before anything else starts.
Invites ==
    /\ session = "inviting"
    /\ InviteSent(0)
    /\ session' = "running"
    /\ UNCHANGED <<setup, typed, sending, epoch, nudge, monitorVars>>

\* A line is typed.  Without room in the queue the session waits there.
Type ==
    LET text == setup.texts[typed + 1]
    IN  /\ session = "running"
        /\ sending = << >>
        /\ typed < Len(setup.texts)
        /\ typed' = typed + 1
        /\ send_pending' = send_pending + 1
        /\ nudge' = IF setup.dm THEN [nudge EXCEPT !.queue = @ + 1] ELSE nudge
        /\ IF Len(queue) < QueueCap
           THEN queue' = Append(queue, text) /\ UNCHANGED sending
           ELSE sending' = <<text>> /\ UNCHANGED queue
        /\ UNCHANGED <<setup, session, closed, epoch, invite, invited, monitorVars>>

SendProceeds ==
    /\ sending # << >>
    /\ Len(queue) < QueueCap
    /\ queue' = queue \o sending
    /\ sending' = << >>
    /\ UNCHANGED <<setup, session, typed, closed, send_pending, inboxVars>>

\* Mutant: the text given up is still counted as being sent.
InterruptKeepsCount ==
    /\ session = "running"
    /\ setup.ends
    /\ session' = "closing"
    /\ closed' = TRUE
    /\ sending' = << >>
    /\ UNCHANGED <<setup, typed, queue, send_pending, inboxVars>>

\* ctrl-c, SIGTERM, /quit or an interrupt of the UI; a text that waits for room
\* is given up.  (While one waits, only ctrl-c is heard.)
Interrupt ==
    /\ session = "running"
    /\ setup.ends
    /\ session' = "closing"
    /\ closed' = TRUE
    /\ send_pending' = send_pending - Len(sending)
    /\ sending' = << >>
    /\ UNCHANGED <<setup, typed, queue, inboxVars>>

\* The end of the input, without --stay-after-eof.
Eof ==
    /\ session = "running"
    /\ setup.ends
    /\ sending = << >>
    /\ typed = Len(setup.texts)
    /\ session' = "flushing"
    /\ closed' = TRUE
    /\ UNCHANGED <<setup, typed, sending, queue, send_pending, inboxVars>>

\* The publisher ended; or 2 s are over; or ctrl-c ends a flush.
PublisherAwaited ==
    /\ \/ session = "flushing" /\ pub.phase = "exited" /\ session' = "flushed"
       \/ session \in {"flushing", "closing"} /\ session' = "nudging"
    /\ UNCHANGED <<setup, typed, sending, queue, closed, send_pending, inboxVars>>

\* The nudge task is given a second to end.
NudgesAwaited ==
    /\ session \in {"flushed", "nudging"}
    /\ session' = "retracting"
    /\ UNCHANGED <<setup, typed, sending, queue, closed, send_pending, inboxVars>>

\* The invite is retracted, within a second; then the DHT node is destroyed,
\* and with it all that still runs.
SessionEnds ==
    /\ session = "retracting"
    /\ invite' \in IF setup.dm THEN {invite, Retraction} ELSE {invite}
    /\ session' = "done"
    /\ UNCHANGED <<setup, typed, sending, queue, closed, send_pending, epoch, invited, nudge,
                   monitorVars>>

----------------------------------------------------------------------------
(* The chat as a whole.                                                    *)

vars == <<setup, feedVars, readerVars, inboxVars, sessionVars, peopleVars>>

Init ==
    /\ setup \in Setups
    /\ FeedInit /\ ReaderInit /\ InboxInit /\ SessionInit /\ PeopleInit

Part(p) == p \in setup.parts
PublisherRuns == Part("publisher") /\ session \notin {"inviting", "done"}
ReaderRuns == Part("reader") /\ ~(setup.own /\ session = "done")

Publisher(A) ==
    PublisherRuns /\ A /\ UNCHANGED <<readerVars, inboxVars, sessionVars, peopleVars>>
Dht(A) == A /\ UNCHANGED <<readerVars, inboxVars, sessionVars, peopleVars>>
Reader(A) == ReaderRuns /\ A /\ UNCHANGED <<inboxVars, sessionVars, peopleVars>>
Session(A) == Part("session") /\ A /\ UNCHANGED <<dhtVars, pubVars, readerVars, peopleVars>>
\* Steps of the invites that leave the chat's own feed alone but may fail.
Invite(A) ==
    /\ Part("inbox")
    /\ A
    /\ UNCHANGED <<mutables, blobs, announced, lost, begun, pubVars, queue, closed, send_pending,
                   readerVars, peopleVars>>
Inbox(A) == Part("inbox") /\ A /\ UNCHANGED <<feedVars, readerVars, sessionVars, peopleVars>>
People(p, A) ==
    Part(p) /\ A /\ UNCHANGED <<setup, feedVars, readerVars, inboxVars, sessionVars>>

Next ==
    \* the publisher and its refresh tasks
    \/ Publisher(PublisherStarts)
    \/ Publisher(BatchStarts)
    \/ Publisher(BatchTakes)
    \/ Publisher(BatchCloses)
    \/ pub.phase = "storing" /\ \E failed \in SUBSET pub.blobs : Publisher(BatchStored(failed))
    \/ Publisher(BatchAdvertised)
    \/ Publisher(BatchAnnounced)
    \/ Publisher(RotationFails)
    \/ \E works \in BOOLEAN : Publisher(Rotate(works))
    \/ Publisher(PublisherExits)
    \/ Publisher(Refresh)
    \/ \E o \in overlaps : Publisher(OverlapRefresh(o))
    \/ \E f \in Feeds : Dht(RecordIsLost(f))
    \* the reader
    \/ \E missed \in SUBSET Feeds : Reader(ColdLookup(missed))
    \/ stage = "found" /\ \E fs \in SUBSET (DOMAIN known \cap DOMAIN mutables) :
          \E failed \in SUBSET Wanted(fs) : Reader(ColdStart(fs, failed))
    \/ \E f \in Feeds : Reader(Discover(f))
    \/ \E f \in Feeds : Reader(AnnouncementAges(f))
    \/ \E f \in Feeds : Reader(Forget(f))
    \/ \E f \in DOMAIN known \cap DOMAIN mutables :
          \E failed \in SUBSET Wanted({f}) : Reader(Poll(f, failed))
    \/ Reader(WaitingAges)
    \/ Reader(Expire)
    \/ \E h \in BagToSet(reading.tasks), found \in BOOLEAN : Reader(RefetchEnds(h, found))
    \* the session
    \/ Invite(Invites)
    \/ Session(Type)
    \/ Session(SendProceeds)
    \/ Session(Interrupt)
    \/ Session(Eof)
    \/ Session(PublisherAwaited)
    \/ Session(NudgesAwaited)
    \/ Session(SessionEnds)
    \* invites
    \/ Inbox(EpochPasses)
    \/ session \notin {"retracting", "done"} /\ Invite(Nudge) /\ UNCHANGED sessionVars
    \/ Inbox(PollSnapshots)
    \/ Invite(PollScans) /\ UNCHANGED sessionVars
    \/ Inbox(PollMerges)
    \/ Inbox(PollCounts)
    \/ Inbox(PollShows)
    \/ Inbox(InboxTakes)
    \/ Inbox(InboxResetsBar)
    \* people
    \/ \E p \in {"friends", "users"}, k \in Key : People(p, NamePublished(k))
    \/ \E k \in Key, alias \in Alias : People("friends", Befriend(k, alias))
    \/ \E k \in Key : People("friends", UnfriendReads(k))
    \/ People("friends", UnfriendWrites)
    \/ People("friends", RefreshLoads)
    \/ People("friends", RefreshLearns)
    \/ People("friends", RefreshFails)
    \/ People("friends", RefreshReads)
    \/ People("friends", RefreshWrites)
    \/ People("friends", RefreshSaves)
    \/ \E w \in Writer, k \in Key, name \in 1 .. MaxVersion : People("users", UpdateReads(w, k, name))
    \/ \E w \in Writer : People("users", UpdateWrites(w))

----------------------------------------------------------------------------
(* Fairness: tokio polls what is ready, timers fire, and an operation on   *)
(* the DHT ends.  A reader that can go on goes on: what it can do with     *)
(* what it knows is finite, so it needs no fairness among its steps.  (The *)
(* condition is weak fairness, with the states in which a step of the      *)
(* reader is possible written out.)  A friend that is asked about again    *)
(* and again is answered some time.                                        *)

ReaderCanGoOn ==
    /\ ReaderRuns
    /\ \/ stage # "live"
       \/ \E f \in DOMAIN known \cap DOMAIN mutables : mutables[f].seq > known[f].seq
       \/ reading.gate.pending # {}
       \/ reading.tasks # EmptyBag

ReaderGoesOn == []<>(~ReaderCanGoOn) \/ []<><<TRUE>>_readerVars

MonitorProceeds ==
    \/ Inbox(PollSnapshots) \/ (Invite(PollScans) /\ UNCHANGED sessionVars)
    \/ Inbox(PollMerges) \/ Inbox(PollCounts) \/ Inbox(PollShows)

RefreshProceeds ==
    \/ People("friends", RefreshLoads) \/ People("friends", RefreshLearns) \/ People("friends", RefreshFails)
    \/ People("friends", RefreshReads) \/ People("friends", RefreshWrites) \/ People("friends", RefreshSaves)

Spec ==
    /\ Init /\ [][Next]_vars
    /\ ReaderGoesOn
    /\ WF_vars(MonitorProceeds) /\ WF_vars(Inbox(InboxResetsBar))
    /\ WF_vars(RefreshProceeds) /\ WF_vars(People("friends", UnfriendWrites))
    /\ \A k \in Key :
          SF_vars(refresher.phase = "asking" /\ refresher.friend.key = k /\ People("friends", RefreshLearns))

----------------------------------------------------------------------------
(* What a chat is for.                                                     *)

Shown == reading.gate.shown

(***************************************************************************)
(* A message that is not marked late directly follows its predecessor, or  *)
(* is the first of its feed that is shown; and a message is shown again    *)
(* only after the ring has forgotten it, over polls, histories, refetches  *)
(* and expiries that bring the same messages in any order (ChainGate,      *)
(* DedupRing).                                                             *)
(***************************************************************************)
ShownInOrder ==
    /\ \A j \in DOMAIN Shown :
          LET before == {i \in 1 .. j - 1 : FeedOf(Shown[i].msg) = FeedOf(Shown[j].msg)}
          IN  \/ Shown[j].late
              \/ before = {}
              \/ \E i \in before : /\ \A k \in before : k <= i
                                   /\ Shown[i].msg = PrevOf(Shown[j].msg)
    /\ \A i, j \in DOMAIN Shown :
          i < j /\ Shown[i].msg = Shown[j].msg => j - i > DedupCap

FirstMessages(f, h) == \A i \in DOMAIN h : h[i] = Msg(f, i)

(***************************************************************************)
(* A record always leads to the whole feed up to some message: its hashes  *)
(* and its chain of summaries list the messages from the first one on,     *)
(* without a gap, over evictions in the middle of a batch, rotations,      *)
(* retries and refreshes.  What a stored record names was stored before it *)
(* (or its put failed), and the next feed it points to has a record        *)
(* (prepare_one, publish_batch, rotate_feed).                              *)
(***************************************************************************)
RecordCoversFeed ==
    /\ FirstMessages(feed.id, History(Record(feed)))
    /\ feed.prev = Zero \/ feed.prev = Last(History(Record(feed)))
    /\ Len(feed.hashes) <= EvictTrigger
    /\ \A f \in DOMAIN mutables :
          LET rec == mutables[f].rec
          IN  /\ FirstMessages(f, History(rec))
              /\ Named(rec) \subseteq blobs \cup lost
              /\ rec.next # 0 => rec.next \in begun

InBatch == IF pub.phase \in {"starting", "idle", "exited"} THEN 0 ELSE Len(pub.texts)

(***************************************************************************)
(* The bar counts exactly the messages that were typed and not yet dealt   *)
(* with, through backpressure, batches, refused texts, failed puts and     *)
(* interrupts; a flush that reports success has dealt with all of them     *)
(* (session.rs, publish_batch).                                            *)
(***************************************************************************)
SendsAreCounted ==
    /\ send_pending = Len(queue) + Len(sending) + InBatch
    /\ session = "flushed" => send_pending = 0 /\ typed = Len(setup.texts)

(***************************************************************************)
(* Every invite and every nudge is surfaced at most once and in order, and *)
(* numbered without gaps, whichever way polls, /inbox, nudges and the      *)
(* retraction interleave (InboxMonitor).                                   *)
(***************************************************************************)
InvitesOnce ==
    LET surfaced == read \o monitor.unread
    IN  /\ \A i, j \in DOMAIN surfaced : i < j => surfaced[i] < surfaced[j]
        /\ monitor.count = Len(surfaced)
        /\ \A i \in DOMAIN surfaced : surfaced[i] < Retraction.seq

(***************************************************************************)
(* What the session counts, of messages sent and of invites, is right.     *)
(***************************************************************************)
CountsAreRight == SendsAreCounted /\ InvitesOnce

(***************************************************************************)
(* The files about people hold only what was put there: a friend the user  *)
(* saved, under an alias the user gave, with a name its key published; and *)
(* known users, each once and within the limit, whichever way the reads    *)
(* and writes of commands, refreshes and other processes interleave        *)
(* (remove_friend, save_friend, SharedKnownUsers::update).                 *)
(***************************************************************************)
PeopleAreOwn ==
    /\ \A i \in DOMAIN friends :
          /\ <<friends[i].key, friends[i].alias>> \in given
          /\ friends[i].name <= published[friends[i].key]
    /\ \A i, j \in DOMAIN users : users[i].key = users[j].key => i = j
    /\ \A i \in DOMAIN users : users[i].name <= published[users[i].key]
    /\ Len(users) <= UsersCap

Unshown ==
    UNION {Range(History(mutables[f].rec)) : f \in DOMAIN known \cap DOMAIN mutables}
        \ {Shown[i].msg : i \in DOMAIN Shown}

(***************************************************************************)
(* Once nothing new happens: no message is held back any more; a reader    *)
(* has shown every message of the feeds it knows, if no operation failed   *)
(* (run_reader); the bar shows the unread invites, although /inbox and the *)
(* poll set it without a common lock (session.rs); and every friend is     *)
(* listed under the name it publishes (refresh_one_friend).                *)
(***************************************************************************)
Settled ==
    /\ ReaderRuns => reading.gate.pending = {}
    /\ ReaderRuns /\ setup.faults = 0 => Unshown = {}
    /\ Part("inbox") => bar = Len(monitor.unread)
    /\ Part("friends") => \A i \in DOMAIN LoadFriends(friends) :
          LoadFriends(friends)[i].name = published[LoadFriends(friends)[i].key]

ChatSettles == <>[]Settled

=============================================================================
