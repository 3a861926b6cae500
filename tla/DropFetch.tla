------------------------------ MODULE DropFetch ------------------------------
(***************************************************************************)
(* The receiver of a dead drop (version 2): it walks the tree from the     *)
(* root with one fetch task per chunk, writes data chunks as they come,    *)
(* publishes the positions whose fetch failed as its need list and fetches *)
(* them again.  A fetch asks the DHT until the record is found or its      *)
(* deadline passes.                                                        *)
(***************************************************************************)
EXTENDS DropTree, FiniteSets, TLC

CONSTANT
    Receiver    \* the receivers

VARIABLES
    dht,        \* the chunks that the DHT holds
    need,       \* receiver -> the need list the DHT holds for it (seq 0: none)
    acks,       \* the receivers announced on the ack topic
    get         \* receiver -> the state of its get

NoBytes == <<0>>    \* nothing published yet (never an encoded need list)

GetInit ==
    /\ need = [r \in Receiver |-> [seq |-> 0, value |-> NoBytes]]
    /\ acks = {}
    /\ get = [r \in Receiver |->
                 [pc |-> "root", tasks |-> {}, chunks |-> <<>>, seq |-> 0,
                  published |-> NoBytes, emitted |-> <<>>, reorder |-> {}]]

Goes(r, g) == get' = [get EXCEPT ![r] = g]

\* discard and cleanup: the temporary file is removed, nothing is announced.
Fails(r) ==
    /\ Goes(r, [get[r] EXCEPT !.pc = "failed", !.tasks = {}])
    /\ UNCHANGED <<need, acks>>

\* The chunks a set of new tasks fetches directly are in flight now.
InFlight(chunks, new) ==
    [p \in DOMAIN chunks |->
        IF \E t \in new : IsDataTask(t) /\ t.base = p THEN "inflight" ELSE chunks[p]]

\* run_get and get_from_root up to the loop: the root's children are scheduled.
RootArrives(r) ==
    LET layout == TheTree.layout
        new == ScheduleChildren(TheTree.root.slots, layout.depth, 0, layout.n)
    IN  /\ get[r].pc = "root" /\ Root \in dht
        /\ Goes(r, [get[r] EXCEPT !.pc = "fetch", !.tasks = new,
                       !.chunks = InFlight([p \in 0 .. layout.n - 1 |-> "unscheduled"], new)])
        /\ UNCHANGED <<need, acks>>

\* fetch_with_retry gave up on the root.
RootTimesOut(r) == get[r].pc = "root" /\ Fails(r)

\* An index chunk was fetched: its children are scheduled.
IndexArrives(r, t) ==
    /\ get[r].pc = "fetch" /\ ~IsDataTask(t) /\ t.address \in dht
    /\ LET new == ScheduleChildren(TheTree.index_chunks[t.address[2] + 1], t.depth, t.base, t.end)
       IN  Goes(r, [get[r] EXCEPT !.tasks = (@ \ {t}) \cup new, !.chunks = InFlight(@, new)])
    /\ UNCHANGED <<need, acks>>

\* An index chunk that is not found ends the whole get.
IndexTimesOut(r, t) == get[r].pc = "fetch" /\ ~IsDataTask(t) /\ Fails(r)

----------------------------------------------------------------------------
(* Output: a file is written by position, standard output in order.        *)

\* The positions that follow `from` without a gap in what is held back.
RECURSIVE Ready(_, _)
Ready(from, reorder) ==
    IF from \in reorder THEN <<from>> \o Ready(from + 1, reorder) ELSE <<>>

\* StreamSink::accept: emit_pos is the number of chunks emitted.
Accept(g, p) ==
    IF p < Len(g.emitted) THEN g
    ELSE IF p = Len(g.emitted)
         THEN LET ready == <<p>> \o Ready(p + 1, g.reorder)
              IN  [g EXCEPT !.emitted = @ \o ready, !.reorder = @ \ Range(ready)]
         ELSE [g EXCEPT !.reorder = @ \cup {p}]

\* A data chunk was fetched: it is written and its position is done.
DataArrives(r, t) ==
    /\ get[r].pc = "fetch" /\ IsDataTask(t) /\ t.address \in dht
    /\ LET g == [get[r] EXCEPT !.tasks = @ \ {t}, !.chunks[t.base] = "done"]
       IN  Goes(r, IF setup.stdout THEN Accept(g, t.base) ELSE g)
    /\ UNCHANGED <<need, acks>>

\* A data chunk was not found: the position waits for the next need list.
DataTimesOut(r, t) ==
    /\ get[r].pc = "fetch" /\ IsDataTask(t)
    /\ Goes(r, [get[r] EXCEPT !.tasks = @ \ {t}, !.chunks[t.base] = "failed"])
    /\ UNCHANGED <<need, acks>>

\* Writing the output failed.
OutputFails(r) == get[r].pc = "fetch" /\ Fails(r)

----------------------------------------------------------------------------
(* The loop around the tasks.                                              *)

Failed(g) == {p \in DOMAIN g.chunks : g.chunks[p] = "failed"}

DataTask(p) == [address |-> Data(p), depth |-> -1, base |-> p, end |-> p + 1]

(***************************************************************************)
(* The need-list cycle, due every 20 seconds, after the round's outcome:   *)
(* the failed positions are published, unless the list is unchanged and    *)
(* not yet due again (`keepalive`), and fetched again.  The result of the  *)
(* put is ignored (`lost`).                                                *)
(***************************************************************************)
NeedCycle(r, keepalive, lost) ==
    LET g == get[r]
        encoded == EncodeNeedList(CoalesceMissingRanges(Failed(g)))
        publish == encoded # g.published \/ keepalive
    IN  /\ g.pc = "fetch" /\ Failed(g) # {}
        /\ publish => g.seq < setup.needs
        /\ need' = IF publish /\ ~lost
                   THEN [need EXCEPT ![r] = [seq |-> g.seq + 1, value |-> encoded]]
                   ELSE need
        /\ Goes(r, [g EXCEPT !.seq = IF publish THEN @ + 1 ELSE @,
                             !.published = IF publish THEN encoded ELSE @,
                             !.tasks = @ \cup {DataTask(p) : p \in Failed(g)},
                             !.chunks = [p \in DOMAIN g.chunks |->
                                            IF p \in Failed(g) THEN "inflight" ELSE g.chunks[p]]])
        /\ UNCHANGED acks

Unfinished(g) == \E p \in DOMAIN g.chunks : g.chunks[p] # "done"

\* No chunk was decoded for the whole timeout.
NoProgress(r) == get[r].pc = "fetch" /\ Unfinished(get[r]) /\ Fails(r)

\* Mutant: the chunks are not counted once the tasks are gone.
DrainedUncounted(r) ==
    /\ get[r].pc = "fetch" /\ get[r].tasks = {}
    /\ Goes(r, [get[r] EXCEPT !.pc = "written"])
    /\ UNCHANGED <<need, acks>>

\* The loop ends when no task is left: the output is complete and is renamed
\* to its final name, or chunks are missing.
Drained(r) ==
    /\ get[r].pc = "fetch" /\ get[r].tasks = {}
    /\ Goes(r, [get[r] EXCEPT !.pc = IF Unfinished(get[r]) THEN "missing" ELSE "written"])
    /\ UNCHANGED <<need, acks>>

\* The empty need list tells the sender that this receiver is done.
SendDone(r, lost) ==
    /\ get[r].pc = "written"
    /\ need' = IF lost THEN need
               ELSE [need EXCEPT ![r] = [seq |-> get[r].seq + 1, value |-> DoneSentinel]]
    /\ Goes(r, [get[r] EXCEPT !.pc = "told", !.seq = @ + 1])
    /\ UNCHANGED acks

\* The pickup is acknowledged, unless --no-ack was given or it fails (`lost`).
SendAck(r, lost) ==
    /\ get[r].pc = "told"
    /\ acks' = IF lost THEN acks ELSE acks \cup {r}
    /\ Goes(r, [get[r] EXCEPT !.pc = "ok"])
    /\ UNCHANGED need

Finished == {"written", "told", "ok"}

----------------------------------------------------------------------------

\* The file that n chunks make up, as positions in order.
FileOf(n) == [i \in 1 .. n |-> i - 1]

=============================================================================
