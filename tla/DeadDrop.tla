------------------------------- MODULE DeadDrop -------------------------------
(***************************************************************************)
(* A dead drop from file to file: the sender's task (run_put) publishes    *)
(* the tree, root last, and refreshes it; its need watcher answers the     *)
(* need lists of receivers; receivers fetch.  They share nothing but the   *)
(* DHT, which may lose records.                                            *)
(***************************************************************************)
EXTENDS DropQueue, DropChain

VARIABLES
    main,       \* where run_put stands
    watcher,    \* where the need watcher stands
    serviced,   \* receiver -> the value last serviced (last_value_hash)
    completed,  \* receivers that said they are done
    picked_up,  \* the receivers whose ack was seen
    tried,      \* the chunks whose put has resolved at least once (history)
    faults,     \* records lost and puts that went badly so far
    refreshes   \* refresh ticks so far

putVars == <<main, watcher, serviced, completed, picked_up, tried, faults, refreshes>>
fetchVars == <<need, acks, get>>
vars == <<setup, dht, fetchVars, putVars, chainVars, permitVars, queueVars, waitVars, shutdown>>

\* Every chunk but the root, in the order of enqueue_tree_non_root.
NonRoot ==
    [i \in 1 .. TheTree.layout.n |-> Data(i - 1)]
        \o [k \in 1 .. Len(TheTree.index_chunks) |-> Index(k - 1)]

Init ==
    /\ PermitsInit
    /\ QueueInit
    /\ GetInit
    /\ ChainInit
    /\ dht = {}
    /\ main = "start"
    /\ watcher = "off"
    /\ serviced = [r \in Receiver |-> NoBytes]
    /\ completed = {}
    /\ picked_up = {}
    /\ tried = {}
    /\ faults = 0 /\ refreshes = 0

----------------------------------------------------------------------------
(* run_put.                                                                *)

\* The first publication: everything but the root.
PutStarts ==
    /\ main = "start"
    /\ main' = "initial"
    /\ Begin("main", NonRoot)
    /\ UNCHANGED <<dht, fetchVars, watcher, serviced, completed, picked_up, tried, faults, refreshes,
                   permitVars, queueVars, shutdown>>

\* Every chunk was put: the root follows.
PutRoot ==
    /\ main = "initial" /\ wait["main"] = "done" /\ ~shutdown
    /\ main' = "root"
    /\ Begin("main", <<Root>>)
    /\ UNCHANGED <<dht, fetchVars, watcher, serviced, completed, picked_up, tried, faults, refreshes,
                   permitVars, queueVars, shutdown>>

\* The pickup key is printed, and the need watcher started.
PutServes ==
    /\ main \in {"root", "refresh"} /\ wait["main"] = "done" /\ ~shutdown
    /\ main' = "serving"
    /\ wait' = [wait EXCEPT !["main"] = "idle"]
    /\ watcher' = IF watcher = "off" THEN "poll" ELSE watcher
    /\ UNCHANGED <<dht, fetchVars, serviced, completed, picked_up, tried, faults, refreshes,
                   todo, remaining, permitVars, queueVars, shutdown>>

\* The refresh tick: all chunks and the root, as one operation.
Refresh ==
    /\ main = "serving" /\ ~shutdown
    /\ refreshes < setup.refreshes
    /\ refreshes' = refreshes + 1
    /\ main' = "refresh"
    /\ Begin("main", NonRoot \o <<Root>>)
    /\ UNCHANGED <<dht, fetchVars, watcher, serviced, completed, picked_up, tried, faults,
                   permitVars, queueVars, shutdown>>

\* The ack tick: new acks are counted, up to --max-pickups.
CountAcks ==
    /\ main = "serving" /\ ~shutdown
    /\ \E seen \in SUBSET (acks \ picked_up) :
          /\ seen # {}
          /\ Cardinality(picked_up \cup seen) <= setup.max_pickups
          /\ picked_up' = picked_up \cup seen
    /\ main' = IF Cardinality(picked_up') = setup.max_pickups THEN "stopping" ELSE main
    /\ UNCHANGED <<dht, fetchVars, watcher, serviced, completed, tried, faults, refreshes,
                   waitVars, permitVars, queueVars, shutdown>>

\* Shutdown is noticed in every await of the task; --ttl in the loop.
PutStops ==
    /\ \/ shutdown /\ main = "serving"
       \/ shutdown /\ main \in {"initial", "root", "refresh"}
             /\ todo["main"] = <<>>
       \/ main = "serving" /\ setup.ttl
    /\ main' = "stopping"
    /\ wait' = [wait EXCEPT !["main"] = "idle"]
    /\ UNCHANGED <<dht, fetchVars, watcher, serviced, completed, picked_up, tried, faults, refreshes,
                   todo, remaining, permitVars, queueVars, shutdown>>

\* The cleanup: everyone is told to stop ...
CleanUp ==
    /\ main = "stopping" /\ ~shutdown
    /\ shutdown' = TRUE
    /\ UNCHANGED <<dht, fetchVars, putVars, waitVars, permitVars, queueVars>>

\* ... and awaited; what is still being put ends with the process.
PutEnds ==
    /\ main = "stopping" /\ shutdown
    /\ watcher \in {"off", "ended"} /\ dispatcher.pc = "ended"
    /\ main' = "ended"
    /\ UNCHANGED <<dht, fetchVars, watcher, serviced, completed, picked_up, tried, faults, refreshes,
                   waitVars, permitVars, queueVars, shutdown>>

----------------------------------------------------------------------------
(* The need watcher.                                                       *)

(***************************************************************************)
(* A poll finds the need list of r: one with the value that was serviced   *)
(* last is skipped, the empty one ends r's entry, any other is answered    *)
(* with the chunks it asks for.                                            *)
(***************************************************************************)
WatcherPolls(r, decoded) ==
    /\ watcher = "poll" /\ ~shutdown /\ main # "ended"
    /\ r \notin completed /\ need[r].seq > 0
    /\ need[r].value # serviced[r]
    /\ decoded.ok
    /\ serviced' = [serviced EXCEPT ![r] = need[r].value]
    /\ \/ /\ decoded.entries = <<>>
          /\ completed' = completed \cup {r}
          /\ UNCHANGED <<watcher, waitVars>>
       \/ /\ decoded.entries # <<>>
          /\ watcher' = "serve"
          /\ Begin("need", ResponseChunksForList(TheTree.layout, decoded.entries))
          /\ UNCHANGED completed
    /\ UNCHANGED <<dht, fetchVars, main, picked_up, tried, faults, refreshes, permitVars, queueVars, shutdown>>

WatcherServed ==
    /\ watcher = "serve" /\ wait["need"] = "done"
    /\ watcher' = "poll"
    /\ wait' = [wait EXCEPT !["need"] = "idle"]
    /\ UNCHANGED <<dht, fetchVars, main, serviced, completed, picked_up, tried, faults, refreshes,
                   todo, remaining, permitVars, queueVars, shutdown>>

WatcherEnds ==
    /\ shutdown
    /\ watcher = "poll" \/ (watcher = "serve" /\ todo["need"] = <<>>)
    /\ watcher' = "ended"
    /\ wait' = [wait EXCEPT !["need"] = "idle"]
    /\ UNCHANGED <<dht, fetchVars, main, serviced, completed, picked_up, tried, faults, refreshes,
                   todo, remaining, permitVars, queueVars, shutdown>>

----------------------------------------------------------------------------
(* Puts and the DHT.                                                       *)

\* Somebody fetches: only then is it of interest which records are missing.
Watched == setup.receivers # {}

\* The put of id resolved: only a degraded one (failed, timed out, or with
\* commit timeouts) may leave the DHT without the chunk.
PutResolves(id, stored, degraded, band) ==
    /\ id # Watchdog /\ tasks[id].stage = "put"
    /\ main # "ended"
    /\ stored \/ (degraded /\ Watched)
    /\ degraded => band # "low"
    /\ faults' = IF degraded /\ Watched THEN faults + 1 ELSE faults
    /\ faults' <= setup.faults
    /\ dht' = IF stored THEN dht \cup {id} ELSE dht
    /\ tried' = tried \cup {id}
    /\ Recorded(id, Record(Sampled(aimd, degraded), band))
    /\ UNCHANGED <<fetchVars, main, watcher, serviced, completed, picked_up, refreshes,
                   waitVars, queueVars, shutdown>>

\* A record expired, or the nodes that held it went away.
Lose(id) ==
    /\ faults < setup.faults
    /\ faults' = faults + 1
    /\ dht' = dht \ {id}
    /\ UNCHANGED <<fetchVars, main, watcher, serviced, completed, picked_up, tried, refreshes,
                   waitVars, permitVars, queueVars, shutdown>>

----------------------------------------------------------------------------

\* A step of the queue, which leaves the DHT and the two tasks alone.
Queue(A) == A /\ UNCHANGED <<dht, fetchVars, putVars>>

\* A step that changes only the permits.
Permits(A) == A /\ main # "ended" /\ UNCHANGED <<dht, fetchVars, putVars, queueVars, waitVars, shutdown>>

\* A step of a receiver.
Fetch(A) == A /\ UNCHANGED <<dht, putVars, permitVars, queueVars, waitVars, shutdown>>

Sender ==
    \/ PutStarts \/ PutRoot \/ PutServes \/ Refresh \/ CountAcks
    \/ PutStops \/ CleanUp \/ PutEnds
    \/ \E r \in Receiver : WatcherPolls(r, DecodeNeedList(need[r].value))
    \/ WatcherServed \/ WatcherEnds
    \/ Queue(\E op \in Op : EnqueueNext(op))
    \/ Queue(\E op \in Op : AwaitLoads(op))
    \/ Queue(\E op \in Op : AwaitEnables(op))
    \/ Queue(\E op \in Op : AwaitRechecks(op))
    \/ Queue(Pop) \/ Queue(WakeDispatcher) \/ Queue(DispatcherEnds) \/ Queue(Dispatch)
    \/ Queue(main # "ended" /\ \E id \in DOMAIN tasks : MarkDone(id))
    \/ Queue(setup.signal /\ Signal)
    \/ Permits(\E id \in DOMAIN tasks : LoadTarget(id))
    \/ Permits(\E id \in DOMAIN tasks : StoreTarget(id))
    \/ Permits(KickIfStalled)
    \/ \E id \in DOMAIN tasks, stored, degraded \in BOOLEAN, band \in Band :
          PutResolves(id, stored, degraded, band)

Receives(r) ==
    \/ RootArrives(r) \/ RootTimesOut(r)
    \/ \E t \in get[r].tasks : IndexArrives(r, t)
    \/ \E t \in get[r].tasks : IndexTimesOut(r, t)
    \/ \E t \in get[r].tasks : DataArrives(r, t)
    \/ \E t \in get[r].tasks : DataTimesOut(r, t)
    \/ OutputFails(r)
    \/ \E keepalive, lost \in BOOLEAN : NeedCycle(r, keepalive, lost)
    \/ NoProgress(r)
    \/ Drained(r)
    \/ \E lost \in BOOLEAN : SendDone(r, lost)
    \/ \E lost \in BOOLEAN : SendAck(r, lost)

\* A receiver has the key from the sender's output, or derives it itself from
\* the passphrase.
KeyIsKnown == setup.passphrase \/ watcher # "off"

\* A step of a sender of version 1.
Chained(A) ==
    A /\ UNCHANGED <<fetchVars, main, watcher, serviced, completed, picked_up, tried,
                    queueVars, waitVars, shutdown>>

ChainPublishes ==
    /\ PublishStarts
    /\ chain.published => refreshes < setup.refreshes
    /\ refreshes' = IF chain.published THEN refreshes + 1 ELSE refreshes
    /\ UNCHANGED faults

ChainPutEnds(id) ==
    /\ \/ ChainPutSucceeds(id, FALSE) /\ UNCHANGED faults
       \/ /\ faults < setup.faults
          /\ faults' = faults + 1
          /\ \/ ChainPutSucceeds(id, TRUE)
             \/ \E stored \in BOOLEAN : ChainPutFails(id, stored)
    /\ UNCHANGED refreshes

\* The ack tick, as in version 2.
ChainCountsAcks ==
    /\ chain.pc = "serving" /\ acks \ picked_up # {}
    /\ picked_up' = picked_up \cup acks
    /\ chain' = IF Cardinality(picked_up') >= setup.max_pickups
                THEN [chain EXCEPT !.pc = "ended"] ELSE chain
    /\ UNCHANGED <<dht, fetchVars, main, watcher, serviced, completed, tried, faults, refreshes,
                   finished, loose, permitVars, queueVars, waitVars, shutdown>>

ChainSender ==
    \/ Chained(ChainPublishes)
    \/ Chained(ChainDispatch) /\ UNCHANGED <<faults, refreshes>>
    \/ \E id \in DOMAIN tasks : Chained(ChainPutEnds(id))
    \/ \E id \in DOMAIN tasks :
          Chained(ChainTaskEnds(id) \/ ((LoadTarget(id) \/ StoreTarget(id)) /\ UNCHANGED <<dht, chainVars>>))
             /\ UNCHANGED <<faults, refreshes>>
    \/ Chained(Reap) /\ UNCHANGED <<faults, refreshes>>
    \/ \E id \in loose : Chained(LoosePut(id)) /\ UNCHANGED <<faults, refreshes>>
    \/ Chained(ChainStops) /\ UNCHANGED <<faults, refreshes>>
    \/ ChainCountsAcks

ChainReceives(r) ==
    \/ ChainRootArrives(r) \/ RootTimesOut(r)
    \/ ChainArrives(r) \/ ChainFails(r) \/ ChainComplete(r)
    \/ \E lost \in BOOLEAN : SendAck(r, lost)

Next ==
    /\ \/ /\ setup.version = 2
          /\ \/ Sender
             \/ \E r \in setup.receivers : KeyIsKnown /\ Fetch(Receives(r))
          /\ UNCHANGED chainVars
       \/ setup.version = 1 /\ ChainSender
       \/ /\ setup.version = 1
          /\ \E r \in setup.receivers : Fetch(ChainReceives(r))
          /\ UNCHANGED chainVars
       \/ (\E id \in dht : Lose(id)) /\ UNCHANGED chainVars
    /\ UNCHANGED setup

Spec == Init /\ [][Next]_vars

(***************************************************************************)
(* Fairness: tokio keeps running a task that can go on, and every put ends *)
(* within PUT_TIMEOUT.                                                     *)
(***************************************************************************)
Working ==
    /\ setup.version = 2
    /\ \/ Queue(\E op \in Op : EnqueueNext(op) \/ AwaitLoads(op) \/ AwaitEnables(op) \/ AwaitRechecks(op))
       \/ Queue(Pop \/ WakeDispatcher \/ Dispatch)
       \/ Queue(main # "ended" /\ \E id \in DOMAIN tasks : MarkDone(id))
       \/ Permits(\E id \in DOMAIN tasks : LoadTarget(id) \/ StoreTarget(id))
       \/ Permits(KickIfStalled)
       \/ \E id \in DOMAIN tasks : PutResolves(id, TRUE, FALSE, "mid")
    /\ UNCHANGED <<setup, chainVars>>

FairSpec == Spec /\ WF_vars(Working)

----------------------------------------------------------------------------

(***************************************************************************)
(* The root is not in the DHT before the put of every other chunk was      *)
(* tried ("root last", run_put).                                           *)
(***************************************************************************)
RootComesLast == Root \in dht => Range(NonRoot) \subseteq tried

\* The chunks of the file, in either version.
Chunks == IF setup.version = 2 THEN TheTree.layout.n ELSE Total

(***************************************************************************)
(* Nobody can start to fetch before everything was tried.  What a receiver *)
(* wrote is always a beginning of the file; a get that says it succeeded   *)
(* wrote the whole of it, whatever order chunks came in, failed and were   *)
(* fetched again in; and so did every get whose pickup the sender counted  *)
(* or whose need list it stopped watching (run_put, StreamSink::accept,    *)
(* get_from_root, run_need_watcher).                                       *)
(***************************************************************************)
PickupsAreWhole ==
    /\ RootComesLast
    /\ \A r \in Receiver :
          /\ IsPrefix(get[r].emitted, FileOf(Chunks))
          /\ get[r].pc \in Finished =>
                /\ setup.stdout => get[r].emitted = FileOf(Chunks)
                /\ \A p \in DOMAIN get[r].chunks : get[r].chunks[p] = "done"
    /\ \A r \in completed \cup picked_up : get[r].pc \in Finished

(***************************************************************************)
(* An operation the sender waits for ends: every chunk it subscribed to is *)
(* put, though chunks are shared with other operations, raised in the      *)
(* queue and put under a number of permits that the controller changes.    *)
(* Two changes of that number that overlap are excluded: they may lose     *)
(* permits for good.                                                       *)
(***************************************************************************)
OperationsEnd ==
    \A op \in Op :
        (wait[op] \notin {"idle", "done"}) ~> (wait[op] \in {"idle", "done"} \/ raced \/ shutdown)

=============================================================================
