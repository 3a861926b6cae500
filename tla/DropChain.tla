------------------------------ MODULE DropChain ------------------------------
(***************************************************************************)
(* Version 1 of the dead drop: the file is a chain of mutable records,     *)
(* each naming the next, put in one pass and fetched one after the other.  *)
(***************************************************************************)
EXTENDS PutPermits, DropFetch

CONSTANTS
    ChainRoot,  \* ROOT_PAYLOAD_MAX: bytes of the root chunk (961)
    ChainRest   \* NON_ROOT_PAYLOAD_MAX: bytes of any other (967)

VARIABLES
    chain,      \* the sender: where it stands, and the next chunk to put
    finished,   \* put tasks that ended and were not looked at: [id, ok]
    loose       \* puts under way that nobody waits for any more

chainVars == <<chain, finished, loose>>

\* The i-th chunk of the chain, 0 being the root.
Chain(i) == <<"chain", i>>

ComputeChunkCount(file_size) ==
    IF file_size <= ChainRoot THEN 1 ELSE 1 + DivCeil(file_size - ChainRoot, ChainRest)

Total == ComputeChunkCount(setup.file_size)

\* split_into_chunks: the bytes of the file that chunk i holds, as [from, to).
ChunkBytes(file_size, i) ==
    LET from == IF i = 0 THEN 0 ELSE ChainRoot + (i - 1) * ChainRest
        full == from + (IF i = 0 THEN ChainRoot ELSE ChainRest)
    IN  [from |-> from, to |-> IF full < file_size THEN full ELSE file_size]

\* Each chunk takes up where the one before it ends, none but the root of an
\* empty file is empty, and the last one ends with the file.
ChunksTile(file_size) ==
    LET last == ComputeChunkCount(file_size) - 1
    IN  /\ ChunkBytes(file_size, last).to = file_size
        /\ \A i \in 1 .. last :
              /\ ChunkBytes(file_size, i).from = ChunkBytes(file_size, i - 1).to
              /\ ChunkBytes(file_size, i).from < ChunkBytes(file_size, i).to

ChainInit ==
    /\ chain = [pc |-> "start", next |-> 0, published |-> FALSE]
    /\ finished = {}
    /\ loose = {}

----------------------------------------------------------------------------
(* The sender: publish_chunks.                                             *)

\* The controller of version 1: half of the target after a bad window, one
\* more after a clean one.
RecordWindow(a) ==
    LET due == a.samples >= setup.interval
        bad == 10 * a.degraded > 3 * a.samples
        fresh == ResetDecisionWindow(a)
        to(n) == [aimd |-> [fresh EXCEPT !.current = n], goal |-> n]
    IN  CASE ~due -> [aimd |-> a, goal |-> 0]
          [] due /\ bad -> to(Max({a.current \div 2, 1}))
          [] due /\ a.degraded = 0 -> to(Min({a.current + 1, setup.cap}))
          [] OTHER -> to(a.current)

\* Each call has permits and a controller of its own.
OwnPermits ==
    /\ sem' = setup.initial /\ target' = setup.initial /\ forget_pending' = 0
    /\ aimd' = [current |-> setup.initial, samples |-> 0, degraded |-> 0, cooldown |-> FALSE]
    /\ tasks' = <<>>

PublishStarts ==
    /\ chain.pc \in {"start", "serving"}
    /\ chain' = [chain EXCEPT !.pc = "dispatch", !.next = 0]
    /\ OwnPermits
    /\ finished' = {}
    /\ UNCHANGED <<raced, loose, dht>>

\* The next chunk's put starts as soon as there is a permit.
ChainDispatch ==
    /\ chain.pc = "dispatch" /\ chain.next < Total
    /\ Acquires(Chain(chain.next))
    /\ chain' = IF forget_pending > 0 THEN chain
                ELSE [chain EXCEPT !.pc = "reap", !.next = @ + 1]
    /\ UNCHANGED <<finished, loose, dht>>

\* A put succeeded and is recorded.
ChainPutSucceeds(id, degraded) ==
    /\ tasks[id].stage = "put"
    /\ dht' = dht \cup {id}
    /\ Recorded(id, RecordWindow(Sampled(aimd, degraded)))
    /\ UNCHANGED chainVars

\* A put failed: its permit is dropped, and the error is the task's result.
ChainPutFails(id, stored) ==
    /\ tasks[id].stage = "put"
    /\ dht' = IF stored THEN dht \cup {id} ELSE dht
    /\ Released(id)
    /\ finished' = finished \cup {[id |-> id, ok |-> FALSE]}
    /\ UNCHANGED <<chain, loose>>

ChainTaskEnds(id) ==
    /\ tasks[id].stage = "mark"
    /\ Released(id)
    /\ finished' = finished \cup {[id |-> id, ok |-> TRUE]}
    /\ UNCHANGED <<dht, chain, loose>>

\* Finished tasks are looked at after each dispatch, and all are awaited at
\* the end.  The first error ends the call, and the program if this was the
\* first publication; the other puts go on alone.
Reap ==
    /\ \/ /\ \E t \in finished : ~t.ok
          /\ chain.pc = "reap" \/ chain.next = Total
          /\ chain' = [chain EXCEPT !.pc = IF chain.published THEN "serving" ELSE "failed"]
          /\ loose' = loose \cup {id \in Held : tasks[id].stage = "put"}
          /\ OwnPermits
       \/ /\ \A t \in finished : t.ok
          /\ chain.pc = "reap"
          /\ chain' = [chain EXCEPT !.pc = "dispatch"]
          /\ UNCHANGED <<loose, tasks, sem, target, forget_pending, aimd>>
       \/ /\ \A t \in finished : t.ok
          /\ chain.pc = "dispatch" /\ chain.next = Total /\ Held = {}
          /\ chain' = [chain EXCEPT !.pc = "serving", !.published = TRUE]
          /\ UNCHANGED <<loose, tasks, sem, target, forget_pending, aimd>>
    /\ chain.pc \in {"reap", "dispatch"}
    /\ finished' = {}
    /\ UNCHANGED <<raced, dht>>

\* A put that nobody waits for may still reach the DHT.
LoosePut(id) ==
    /\ id \in loose
    /\ loose' = loose \ {id}
    /\ dht' = dht \cup {id}
    /\ UNCHANGED <<permitVars, chain, finished>>

\* A signal or --ttl, which only the loop around the refresh notices.
ChainStops ==
    /\ chain.pc = "serving" /\ setup.ttl
    /\ chain' = [chain EXCEPT !.pc = "ended"]
    /\ UNCHANGED <<permitVars, finished, loose, dht>>

----------------------------------------------------------------------------
(* The receiver: get_from_root follows the chain and holds the payload     *)
(* until it is complete.                                                   *)

ChainRootArrives(r) ==
    /\ get[r].pc = "root" /\ Chain(0) \in dht
    /\ Goes(r, [get[r] EXCEPT !.pc = "chain", !.emitted = <<0>>])
    /\ UNCHANGED <<need, acks>>

ChainArrives(r) ==
    /\ get[r].pc = "chain" /\ Len(get[r].emitted) < Total
    /\ Chain(Len(get[r].emitted)) \in dht
    /\ Goes(r, [get[r] EXCEPT !.emitted = Append(@, Len(@))])
    /\ UNCHANGED <<need, acks>>

\* A chunk is not found in time, or the output cannot be written.
ChainFails(r) == get[r].pc = "chain" /\ Fails(r)

\* The chain ends where the root said it would and the checksum is right.
ChainComplete(r) ==
    /\ get[r].pc = "chain" /\ Len(get[r].emitted) = Total
    /\ Goes(r, [get[r] EXCEPT !.pc = "told"])
    /\ UNCHANGED <<need, acks>>

=============================================================================
