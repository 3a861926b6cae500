------------------------------ MODULE Protomux ------------------------------
(***************************************************************************)
(* Two ends of a Protomux (peeroxide-dht/src/protomux.rs) over an ordered, *)
(* reliable stream of frames.  The task run_mux takes one frame or one     *)
(* command at a time and writes the frames they queue before it takes the  *)
(* next, so a frame queued is a frame on the wire.  A command of a handle  *)
(* is run when it is sent: the command channel keeps the order of an end's *)
(* commands, and only the handle of a channel has commands for it.         *)
(*                                                                         *)
(* Ids are those of the wire, from 1.  A protocol with its optional id is  *)
(* a key.  Reject frames are left out: this implementation sends none to a *)
(* peer that numbers its channels from 1.                                  *)
(***************************************************************************)
EXTENDS Naturals, Sequences, Functions

CONSTANTS
    End,            \* the two ends
    Key,            \* what channel_key tells apart
    Sender,         \* ends whose application sends messages and corks
    Stopper,        \* ends whose stream or application may go away
    MaxCreates,     \* bound: channels an end creates
    MaxSends,       \* bound: messages an end sends
    MaxCork,        \* bound: depth of cork
    MaxFlight       \* bound: frames on the way in one direction

ASSUME EndAssumption == \E x, y \in End : x # y /\ End = {x, y}
ASSUME MuxBoundAssumption == MaxCreates \in Nat /\ MaxSends \in Nat /\ MaxCork \in Nat /\ MaxFlight \in Nat

VARIABLES
    up,             \* run_mux has not returned
    local,          \* Vec<Option<LocalChannel>>
    free_ids,       \* stack of ids to use again
    remote,         \* Vec<Option<RemoteChannel>>
    outgoing,       \* infos: ids of unpaired local channels by key
    incoming,       \* infos: ids of unpaired remote channels by key
    cork_depth,
    batch,          \* entries waiting for uncork
    handles,        \* the application's channels it has not closed
    wire,           \* frames an end has written and its peer has not read
    created,        \* history: keys of the channels created; a channel is its place
    sent,           \* history: the channel each message was sent on
    got,            \* history: messages handed to each channel
    hasty           \* history: some channel was closed before it was opened

vars == <<up, local, free_ids, remote, outgoing, incoming, cork_depth, batch,
          handles, wire, created, sent, got, hasty>>

Peer(e) == CHOOSE p \in End : p # e

\* An empty slot, and the number that is no id and no channel.
None == [none |-> TRUE]
NoId == 0

Init ==
    /\ up = [e \in End |-> TRUE]
    /\ local = [e \in End |-> << >>]
    /\ free_ids = [e \in End |-> << >>]
    /\ remote = [e \in End |-> << >>]
    /\ outgoing = [e \in End |-> [k \in Key |-> << >>]]
    /\ incoming = [e \in End |-> [k \in Key |-> << >>]]
    /\ cork_depth = [e \in End |-> 0]
    /\ batch = [e \in End |-> << >>]
    /\ handles = [e \in End |-> {}]
    /\ wire = [e \in End |-> << >>]
    /\ created = [e \in End |-> << >>]
    /\ sent = [e \in End |-> << >>]
    /\ got = [e \in End |-> << >>]
    /\ hasty = FALSE

----------------------------------------------------------------------------
(* Frames.                                                                 *)

OpenFrame(id, k, ch) == [type |-> "open", id |-> id, key |-> k, ch |-> ch]
CloseFrame(id) == [type |-> "close", id |-> id]
MessageFrame(id, n) == [type |-> "message", id |-> id, msg |-> n]

BatchFrame(items) == [type |-> "batch", items |-> items]

\* write_frame waits for room in the transport, and run_mux with it.
HasRoom(e) == Len(wire[e]) < MaxFlight

\* The slot of an id in a vector of slots.
Slot(slots, id) == IF id \in DOMAIN slots THEN slots[id] ELSE None

\* The vector grown to hold an id, with its slot set.
SetSlot(slots, id, v) ==
    [i \in 1 .. (IF id > Len(slots) THEN id ELSE Len(slots)) |->
        IF i = id THEN v ELSE Slot(slots, i)]

----------------------------------------------------------------------------
(* Commands.                                                               *)

alloc_local_id(e) ==
    IF free_ids[e] # << >> THEN free_ids[e][Len(free_ids[e])] ELSE Len(local[e]) + 1

PopFree(e) == IF free_ids[e] # << >> THEN SubSeq(free_ids[e], 1, Len(free_ids[e]) - 1) ELSE << >>

\* Mutant: the latest Open of the peer is paired first.
PairsLast(queue) == queue[Len(queue)]

PairsWith(queue) == Head(queue)

\* Mutant: what was buffered for the channel is thrown away.
DrainNothing(entry) == << >>

Drained(entry) == IF entry = None THEN << >> ELSE entry.pending

IsAwaited(e, k) == incoming[e][k] # << >>

(***************************************************************************)
(* create_channel_internal.  With an unpaired Open of the peer for the     *)
(* same key the channel opens at once and gets what was buffered for it.   *)
(***************************************************************************)
CreateChannel(e, k) ==
    /\ up[e] /\ HasRoom(e)
    /\ Len(created[e]) < MaxCreates
    /\ LET id == alloc_local_id(e)
           ch == Len(created[e]) + 1
           r == IF IsAwaited(e, k) THEN PairsWith(incoming[e][k]) ELSE NoId
           entry == Slot(remote[e], r)
           chan == [ch |-> ch, key |-> k, remote |-> r, opened |-> r # NoId, closed |-> FALSE]
       IN  /\ local' = [local EXCEPT ![e] = SetSlot(@, id, chan)]
           /\ free_ids' = [free_ids EXCEPT ![e] = PopFree(e)]
           /\ handles' = [handles EXCEPT ![e] = @ \cup {[ch |-> ch, id |-> id]}]
           /\ wire' = [wire EXCEPT ![e] = Append(@, OpenFrame(id, k, ch))]
           /\ created' = [created EXCEPT ![e] = Append(@, k)]
           /\ IF r = NoId
              THEN /\ outgoing' = [outgoing EXCEPT ![e][k] = Append(@, id)]
                   /\ got' = [got EXCEPT ![e] = Append(@, << >>)]
                   /\ UNCHANGED <<incoming, remote>>
              ELSE /\ incoming' = [incoming EXCEPT ![e][k] = Tail(@)]
                   /\ remote' = IF entry = None THEN remote
                                ELSE [remote EXCEPT ![e][r] = [@ EXCEPT !.local = id, !.pending = << >>]]
                   /\ got' = [got EXCEPT ![e] = Append(@, Drained(entry))]
                   /\ UNCHANGED outgoing
    /\ UNCHANGED <<up, cork_depth, batch, sent, hasty>>

\* send_message_internal, for a handle the application has not closed.
SendMessage(e, h) ==
    /\ up[e] /\ HasRoom(e)
    /\ e \in Sender
    /\ Len(sent[e]) < MaxSends
    /\ local[e][h.id] # None
    /\ LET n == Len(sent[e]) + 1
       IN  IF cork_depth[e] > 0
           THEN /\ batch' = [batch EXCEPT ![e] = Append(@, [id |-> h.id, msg |-> n])]
                /\ UNCHANGED wire
           ELSE /\ wire' = [wire EXCEPT ![e] = Append(@, MessageFrame(h.id, n))]
                /\ UNCHANGED batch
    /\ sent' = [sent EXCEPT ![e] = Append(@, h.ch)]
    /\ UNCHANGED <<up, local, free_ids, remote, outgoing, incoming, cork_depth, handles,
                   created, got, hasty>>

\* Mutant: the peer is not told.
ClosesQuietly(e, id) == wire[e]

WithClose(e, id) == Append(wire[e], CloseFrame(id))

(***************************************************************************)
(* Channel::close and close_channel_internal.  A channel the peer has      *)
(* closed keeps its id.  The id is not taken out of `outgoing`.            *)
(***************************************************************************)
CloseChannel(e, h) ==
    /\ up[e] /\ HasRoom(e)
    /\ handles' = [handles EXCEPT ![e] = @ \ {h}]
    /\ LET chan == local[e][h.id]
       IN  IF chan # None /\ chan.closed
           THEN UNCHANGED <<local, free_ids, wire, hasty>>
           ELSE /\ wire' = [wire EXCEPT ![e] = WithClose(e, h.id)]
                /\ local' = [local EXCEPT ![e][h.id] = None]
                /\ free_ids' = [free_ids EXCEPT ![e] = Append(@, h.id)]
                /\ hasty' = (hasty \/ ~chan.opened)
    /\ UNCHANGED <<up, remote, outgoing, incoming, cork_depth, batch, created, sent, got>>

Cork(e) ==
    /\ up[e]
    /\ e \in Sender
    /\ cork_depth[e] < MaxCork
    /\ cork_depth' = [cork_depth EXCEPT ![e] = @ + 1]
    /\ UNCHANGED <<up, local, free_ids, remote, outgoing, incoming, batch, handles, wire,
                   created, sent, got, hasty>>

\* The last uncork writes the batch as one frame.
Uncork(e) ==
    /\ up[e] /\ HasRoom(e)
    /\ cork_depth[e] > 0
    /\ cork_depth' = [cork_depth EXCEPT ![e] = @ - 1]
    /\ IF cork_depth[e] = 1 /\ batch[e] # << >>
       THEN /\ wire' = [wire EXCEPT ![e] = Append(@, BatchFrame(batch[e]))]
            /\ batch' = [batch EXCEPT ![e] = << >>]
       ELSE UNCHANGED <<wire, batch>>
    /\ UNCHANGED <<up, local, free_ids, remote, outgoing, incoming, handles,
                   created, sent, got, hasty>>

----------------------------------------------------------------------------
(* Frames of the peer.                                                     *)

\* The next frame from the peer has this type; reading takes it off the wire.
Reads(e, type) ==
    /\ up[e]
    /\ wire[Peer(e)] # << >>
    /\ Head(wire[Peer(e)]).type = type
    /\ wire' = [wire EXCEPT ![Peer(e)] = Tail(@)]

\* shutdown_all marks every channel of the end as closed.
AllClosed(slots) ==
    [i \in DOMAIN slots |->
        IF slots[i] = None THEN None ELSE [slots[i] EXCEPT !.closed = TRUE]]

(***************************************************************************)
(* handle_remote_open.  An id that is open already is a frame error, which *)
(* ends the mux.  Otherwise the first local channel waiting for the key is *)
(* paired, whatever has become of it, or the id waits for one.             *)
(***************************************************************************)
ReceiveOpen(e) ==
    /\ Reads(e, "open")
    /\ LET f == Head(wire[Peer(e)])
           l == IF outgoing[e][f.key] # << >> THEN Head(outgoing[e][f.key]) ELSE NoId
       IN  IF Slot(remote[e], f.id) # None
           THEN /\ up' = [up EXCEPT ![e] = FALSE]
                /\ local' = [local EXCEPT ![e] = AllClosed(@)]
                /\ UNCHANGED <<remote, outgoing, incoming>>
           ELSE /\ remote' = [remote EXCEPT ![e] =
                                SetSlot(@, f.id, [ch |-> f.ch, local |-> l, pending |-> << >>])]
                /\ IF l = NoId
                   THEN /\ incoming' = [incoming EXCEPT ![e][f.key] = Append(@, f.id)]
                        /\ UNCHANGED <<local, outgoing>>
                   ELSE /\ outgoing' = [outgoing EXCEPT ![e][f.key] = Tail(@)]
                        /\ local' = IF local[e][l] = None THEN local
                                    ELSE [local EXCEPT ![e][l] =
                                              [@ EXCEPT !.remote = f.id, !.opened = TRUE]]
                        /\ UNCHANGED incoming
                /\ UNCHANGED up
    /\ UNCHANGED <<free_ids, cork_depth, batch, handles, created, sent, got, hasty>>

(***************************************************************************)
(* handle_remote_close.  The paired channel is closed, its id stays in     *)
(* use, and an unpaired id stays in `incoming`.                            *)
(***************************************************************************)
ReceiveClose(e) ==
    /\ Reads(e, "close")
    /\ LET r == Head(wire[Peer(e)]).id
           entry == Slot(remote[e], r)
           l == IF entry = None THEN NoId ELSE entry.local
       IN  /\ local' = IF Slot(local[e], l) = None THEN local
                       ELSE [local EXCEPT ![e][l].closed = TRUE]
           /\ remote' = IF r \in DOMAIN remote[e]
                        THEN [remote EXCEPT ![e][r] = None] ELSE remote
    /\ UNCHANGED <<up, free_ids, outgoing, incoming, cork_depth, batch, handles,
                   created, sent, got, hasty>>

(***************************************************************************)
(* dispatch_message: to the channel that is paired with the id, or to the  *)
(* buffer of the id when there is no open one.                             *)
(***************************************************************************)
Dispatch(st, it, chans) ==
    LET entry == Slot(st.remote, it.id)
        chan == IF entry = None THEN None ELSE Slot(chans, entry.local)
    IN  IF entry = None THEN st
        ELSE IF chan # None /\ chan.opened
        THEN [st EXCEPT !.got[chan.ch] = Append(@, it.msg)]
        ELSE [st EXCEPT !.remote[it.id].pending = Append(@, it.msg)]

\* The messages of a frame, one after another.
Dispatched(st, items, chans) ==
    LET after[n \in 0 .. Len(items)] ==
            IF n = 0 THEN st ELSE Dispatch(after[n - 1], items[n], chans)
    IN  after[Len(items)]

DispatchAll(e, items) ==
    LET st == Dispatched([remote |-> remote[e], got |-> got[e]], items, local[e])
    IN  /\ remote' = [remote EXCEPT ![e] = st.remote]
        /\ got' = [got EXCEPT ![e] = st.got]

ReceiveMessage(e) ==
    /\ Reads(e, "message")
    /\ LET f == Head(wire[Peer(e)])
       IN  DispatchAll(e, << [id |-> f.id, msg |-> f.msg] >>)
    /\ UNCHANGED <<up, local, free_ids, outgoing, incoming, cork_depth, batch, handles,
                   created, sent, hasty>>

ReceiveBatch(e) ==
    /\ Reads(e, "batch")
    /\ DispatchAll(e, Head(wire[Peer(e)]).items)
    /\ UNCHANGED <<up, local, free_ids, outgoing, incoming, cork_depth, batch, handles,
                   created, sent, hasty>>

\* The stream ends or fails, or every handle is dropped.
Shutdown(e) ==
    /\ up[e]
    /\ e \in Stopper \/ (~up[Peer(e)] /\ wire[Peer(e)] = << >>)
    /\ up' = [up EXCEPT ![e] = FALSE]
    /\ local' = [local EXCEPT ![e] = AllClosed(@)]
    /\ UNCHANGED <<free_ids, remote, outgoing, incoming, cork_depth, batch, handles, wire,
                   created, sent, got, hasty>>

Next ==
    \E e \in End :
        \/ \E k \in Key : CreateChannel(e, k)
        \/ \E h \in handles[e] : SendMessage(e, h)
        \/ \E h \in handles[e] : CloseChannel(e, h)
        \/ Cork(e)
        \/ Uncork(e)
        \/ ReceiveOpen(e)
        \/ ReceiveClose(e)
        \/ ReceiveMessage(e)
        \/ ReceiveBatch(e)
        \/ Shutdown(e)

Spec == Init /\ [][Next]_vars

----------------------------------------------------------------------------
(* What the two ends have to agree on.                                     *)

Local == [ch : Nat \ {0}, key : Key, remote : Nat, opened : BOOLEAN, closed : BOOLEAN]
Remote == [ch : Nat \ {0}, local : Nat, pending : Seq(Nat \ {0})]
Item == [id : Nat \ {0}, msg : Nat \ {0}]
Frame ==
    [type : {"open"}, id : Nat \ {0}, key : Key, ch : Nat \ {0}]
    \cup [type : {"close"}, id : Nat \ {0}]
    \cup [type : {"message"}, id : Nat \ {0}, msg : Nat \ {0}]
    \cup [type : {"batch"}, items : Seq(Item)]

TypeOK ==
    /\ up \in [End -> BOOLEAN]
    /\ local \in [End -> Seq(Local \cup {None})]
    /\ free_ids \in [End -> Seq(Nat \ {0})]
    /\ remote \in [End -> Seq(Remote \cup {None})]
    /\ outgoing \in [End -> [Key -> Seq(Nat \ {0})]]
    /\ incoming \in [End -> [Key -> Seq(Nat \ {0})]]
    /\ cork_depth \in [End -> 0 .. MaxCork]
    /\ batch \in [End -> Seq(Item)]
    /\ handles \in [End -> SUBSET [ch : Nat \ {0}, id : Nat \ {0}]]
    /\ wire \in [End -> Seq(Frame)]
    /\ created \in [End -> Seq(Key)]
    /\ sent \in [End -> Seq(Nat \ {0})]
    /\ got \in [End -> Seq(Seq(Nat \ {0}))]
    /\ hasty \in BOOLEAN

(***************************************************************************)
(* An id on the stack of free ids is free, and is there once; an id that   *)
(* is neither free nor on the stack does not exist (alloc_local_id,        *)
(* close_channel_internal).                                                *)
(***************************************************************************)
FreeIdsAreFree ==
    \A e \in End :
        /\ \A i, j \in DOMAIN free_ids[e] : free_ids[e][i] = free_ids[e][j] => i = j
        /\ Range(free_ids[e]) = {id \in DOMAIN local[e] : local[e][id] = None}

\* Frames that open or close an id.
IsAbout(f, id) == f.type \in {"open", "close"} /\ f.id = id
About(frames, id) == {i \in DOMAIN frames : IsAbout(frames[i], id)}

\* What an end has in an id is what its peer has, once that has read the frames
\* on the way: they open and close the id in turn, from the one to the other.
Follows(frames, id, here, there) ==
    LET about == About(frames, id)
    IN  /\ \A i \in about : (\A j \in about : i <= j) =>
              (frames[i].type = "open" <=> there = None)
        /\ \A i, j \in about : (i < j /\ \A n \in about : n <= i \/ j <= n) =>
              frames[i].type # frames[j].type
        /\ \A i \in about : (\A j \in about : j <= i) =>
              IF frames[i].type = "open" THEN here # None /\ here.ch = frames[i].ch ELSE here = None
        /\ about = {} => IF there # None THEN here # None /\ here.ch = there.ch ELSE here = None

(***************************************************************************)
(* The peer's view of an id follows ours: the Open and Close frames on the *)
(* wire alternate, from the state of the id at the peer to its state here, *)
(* and name the channel that has it.  So a peer never sees an id opened    *)
(* twice, the frame error that ends a mux, over any reuse of ids.          *)
(***************************************************************************)
IdsMirror ==
    \A e \in End : up[Peer(e)] =>
        \A id \in DOMAIN local[e] : Follows(wire[e], id, local[e][id], Slot(remote[Peer(e)], id))

(***************************************************************************)
(* A channel gets the messages of its peer in the order they were sent,    *)
(* none twice, whether they came in batches, one by one, or from the       *)
(* buffer of an id that was not paired yet.                                *)
(***************************************************************************)
InOrder ==
    \A e \in End : \A ch \in DOMAIN got[e] :
        \A i, j \in DOMAIN got[e][ch] : i < j => got[e][ch][i] < got[e][ch][j]

\* The frame that opens channel ch of e is still on its way.
Opening(e, ch) ==
    \E i \in DOMAIN wire[e] : wire[e][i].type = "open" /\ wire[e][i].ch = ch

\* Ids of e that the peer has not heard are closed.
Closing(e) == {wire[e][i].id : i \in {j \in DOMAIN wire[e] : wire[e][j].type = "close"}}

(***************************************************************************)
(* As long as no channel is closed before it is opened, two ends agree on  *)
(* who is paired: the channel that holds the id an open channel is paired  *)
(* with has the same key and is paired with this one or about to be, or    *)
(* has been closed and its Close is on the way.                            *)
(***************************************************************************)
PairsAgree ==
    ~hasty /\ (\A e \in End : up[e]) =>
        \A e \in End : \A id \in DOMAIN local[e] :
            LET x == local[e][id]
                y == Slot(local[Peer(e)], x.remote)
            IN  x # None /\ x.opened /\ ~x.closed =>
                    \/ x.remote \in Closing(Peer(e))
                    \/ /\ y # None
                       /\ y.key = x.key
                       /\ y.remote = id \/ (~y.opened /\ Opening(e, x.ch))

\* Messages on their way from e to its peer under an id.
InFlight(e, id) ==
    LET frames == Range(wire[e])
        batched == UNION {Range(f.items) : f \in {g \in frames : g.type = "batch"}} \cup Range(batch[e])
    IN  {f.msg : f \in {g \in frames : g.type = "message" /\ g.id = id}}
        \cup {it.msg : it \in {x \in batched : x.id = id}}

(***************************************************************************)
(* As long as no channel is closed before it is opened, nothing sent on a  *)
(* channel is lost: it was handed to the peer's channel, is in the buffer  *)
(* for it, or on its way there, unless the peer has closed the channel.    *)
(***************************************************************************)
NothingIsLost ==
    ~hasty /\ (\A e \in End : up[e]) =>
        \A e \in End : \A id \in DOMAIN local[e] :
            LET y == local[e][id]
                entry == Slot(remote[Peer(e)], id)
                x == IF entry = None THEN None ELSE Slot(local[Peer(e)], entry.local)
            IN  \A n \in DOMAIN sent[e] :
                    y # None /\ sent[e][n] = y.ch =>
                        \/ n \in InFlight(e, id)
                        \/ entry # None /\ n \in Range(entry.pending)
                        \/ x # None /\ n \in Range(got[Peer(e)][x.ch])
                        \/ entry # None /\ entry.local \in Closing(Peer(e))
                        \/ y.closed

(***************************************************************************)
(* As long as no channel is closed before it is opened, two ends do not    *)
(* wait for each other: with no frame on the way, a key is waited for on   *)
(* one side at most, and an Open that waits meets no waiting channel.      *)
(***************************************************************************)
NoMissedMeeting ==
    ~hasty /\ (\A e \in End : up[e] /\ wire[e] = << >>) =>
        \A e \in End, k \in Key :
            outgoing[e][k] # << >> => outgoing[Peer(e)][k] = << >> /\ incoming[e][k] = << >>

(***************************************************************************)
(* The ids of channels are taken, freed and mirrored right: no id is free  *)
(* and in use, and the peer's map of remote ids is ours as seen through    *)
(* the frames on the way (alloc_local_id, close_channel_internal).         *)
(***************************************************************************)
IdsAgree == TypeOK /\ FreeIdsAreFree /\ IdsMirror

(***************************************************************************)
(* Channels of one key meet in pairs that both ends agree on, and no two   *)
(* that should meet wait for each other (create_channel_internal,          *)
(* handle_remote_open).                                                    *)
(***************************************************************************)
ChannelsMeet == PairsAgree /\ NoMissedMeeting

(***************************************************************************)
(* The messages of a channel arrive in order and none is lost              *)
(* (dispatch_message, the buffer of an id that is not paired yet).         *)
(***************************************************************************)
MessagesArrive == InOrder /\ NothingIsLost

=============================================================================
