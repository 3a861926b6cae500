------------------------------ MODULE DropQueue ------------------------------
(***************************************************************************)
(* The publish queue of a dead drop's sender: the operations of the sender *)
(* (first publication, refresh, answer to a need list) enqueue chunks and  *)
(* wait until each was put; one dispatcher takes chunks from two lanes and *)
(* starts a put task for each as permits allow.  A chunk that is queued or *)
(* in flight already is not put twice: the operation subscribes to it.     *)
(***************************************************************************)
EXTENDS PutPermits

VARIABLES
    queued,     \* chunk -> its lane and the operations to tell
    high,       \* the lanes' deques of chunk ids
    normal,
    inflight,   \* chunk -> the operations to tell when its put resolved
    have_work,  \* Notify: a wake-up is stored
    dispatcher, \* [pc |-> pop / sleep / acquire / ended, id |-> chunk in hand]
    shutdown,   \* the Shutdown flag, which stays set
    todo,       \* operation -> chunks its task is still to enqueue
    remaining,  \* operation -> chunks it is waiting for
    wait        \* operation -> where its task stands in await_done

queueVars == <<queued, high, normal, inflight, have_work, dispatcher>>
waitVars == <<todo, remaining, wait>>

\* run_put's task and the need watcher's each have one operation at a time.
Op == {"main", "need"}

QueueInit ==
    /\ queued = <<>> /\ inflight = <<>>
    /\ high = <<>> /\ normal = <<>>
    /\ have_work = FALSE
    /\ dispatcher = [pc |-> "pop", id |-> Root]
    /\ shutdown = FALSE
    /\ todo = [op \in Op |-> <<>>]
    /\ remaining = [op \in Op |-> 0]
    /\ wait = [op \in Op |-> "idle"]

----------------------------------------------------------------------------
(* Operations.                                                             *)

\* Operation::new, before its chunks are enqueued one by one.
Begin(op, chunks) ==
    /\ todo' = [todo EXCEPT ![op] = chunks]
    /\ remaining' = [remaining EXCEPT ![op] = Len(chunks)]
    /\ wait' = [wait EXCEPT ![op] = "enqueue"]

\* Mutant: a chunk raised to the high lane is not pushed onto its deque.
EnqueueUnraised(id, lane, op) ==
    \/ /\ id \in DOMAIN inflight
       /\ inflight' = [inflight EXCEPT ![id] = Append(@, op)]
       /\ UNCHANGED <<queued, high, normal, have_work>>
    \/ /\ id \in DOMAIN queued
       /\ queued' = [queued EXCEPT ![id] =
                        [lane |-> IF lane = "high" THEN lane ELSE @.lane, subs |-> Append(@.subs, op)]]
       /\ UNCHANGED <<high, normal, inflight, have_work>>
    \/ /\ id \notin DOMAIN inflight \cup DOMAIN queued
       /\ queued' = (id :> [lane |-> lane, subs |-> <<op>>]) @@ queued
       /\ high' = IF lane = "high" THEN Append(high, id) ELSE high
       /\ normal' = IF lane = "normal" THEN Append(normal, id) ELSE normal
       /\ have_work' = TRUE
       /\ UNCHANGED inflight

\* WorkQueue::enqueue.
Enqueue(id, lane, op) ==
    \/ /\ id \in DOMAIN inflight
       /\ inflight' = [inflight EXCEPT ![id] = Append(@, op)]
       /\ UNCHANGED <<queued, high, normal, have_work>>
    \/ /\ id \in DOMAIN queued
       /\ queued' = [queued EXCEPT ![id] =
                        [lane |-> IF lane = "high" THEN lane ELSE @.lane, subs |-> Append(@.subs, op)]]
       /\ high' = IF lane = "high" /\ queued[id].lane = "normal" THEN Append(high, id) ELSE high
       /\ UNCHANGED <<normal, inflight, have_work>>
    \/ /\ id \notin DOMAIN inflight \cup DOMAIN queued
       /\ queued' = (id :> [lane |-> lane, subs |-> <<op>>]) @@ queued
       /\ high' = IF lane = "high" THEN Append(high, id) ELSE high
       /\ normal' = IF lane = "normal" THEN Append(normal, id) ELSE normal
       /\ have_work' = TRUE
       /\ UNCHANGED inflight

\* One round of enqueue_tree_non_root, enqueue_root or enqueue_partial.
EnqueueNext(op) ==
    /\ wait[op] = "enqueue" /\ todo[op] # <<>>
    /\ Enqueue(Head(todo[op]), IF op = "need" THEN "high" ELSE "normal", op)
    /\ todo' = [todo EXCEPT ![op] = Tail(@)]
    /\ UNCHANGED <<remaining, wait, dispatcher, shutdown, permitVars>>

\* await_done: the first look at `remaining`.
AwaitLoads(op) ==
    /\ wait[op] = "enqueue" /\ todo[op] = <<>>
    /\ wait' = [wait EXCEPT ![op] = IF remaining[op] = 0 THEN "done" ELSE "loaded"]
    /\ UNCHANGED <<todo, remaining, shutdown, queueVars, permitVars>>

\* It registers for the notification: one given before is lost.
AwaitEnables(op) ==
    /\ wait[op] = "loaded"
    /\ wait' = [wait EXCEPT ![op] = "enabled"]
    /\ UNCHANGED <<todo, remaining, shutdown, queueVars, permitVars>>

\* Mutant: it does not look again once it is registered.
AwaitRechecksNot(op) ==
    /\ wait[op] = "enabled"
    /\ wait' = [wait EXCEPT ![op] = "waiting"]
    /\ UNCHANGED <<todo, remaining, shutdown, queueVars, permitVars>>

\* It looks again, and only then waits for the notification.
AwaitRechecks(op) ==
    /\ wait[op] = "enabled"
    /\ wait' = [wait EXCEPT ![op] = IF remaining[op] = 0 THEN "done" ELSE "waiting"]
    /\ UNCHANGED <<todo, remaining, shutdown, queueVars, permitVars>>

----------------------------------------------------------------------------
(* The dispatcher.                                                         *)

\* The first position of a deque that holds a chunk to be taken, or 0.
FirstOf(deque, takes(_)) ==
    LET found == {i \in DOMAIN deque : takes(deque[i])}
    IN  IF found = {} THEN 0 ELSE Min(found)

Upon(deque, i) == SubSeq(deque, i + 1, Len(deque))

Takes(id, rest_high, rest_normal) ==
    /\ inflight' = (id :> queued[id].subs) @@ inflight
    /\ queued' = Without(queued, id)
    /\ high' = rest_high /\ normal' = rest_normal
    /\ dispatcher' = [pc |-> "acquire", id |-> id]

\* WorkQueue::pop: ids that are not queued, and low copies of raised chunks,
\* are skipped; with nothing to take it waits for the notification.
Pop ==
    LET h == FirstOf(high, LAMBDA id : id \in DOMAIN queued)
        n == FirstOf(normal, LAMBDA id : id \in DOMAIN queued /\ queued[id].lane = "normal")
    IN  /\ dispatcher.pc = "pop"
        /\ \/ h > 0 /\ Takes(high[h], Upon(high, h), normal)
           \/ h = 0 /\ n > 0 /\ Takes(normal[n], <<>>, Upon(normal, n))
           \/ /\ h = 0 /\ n = 0
              /\ high' = <<>> /\ normal' = <<>>
              /\ dispatcher' = [dispatcher EXCEPT !.pc = "sleep"]
              /\ UNCHANGED <<queued, inflight>>
        /\ UNCHANGED <<have_work, waitVars, shutdown, permitVars>>

WakeDispatcher ==
    /\ dispatcher.pc = "sleep" /\ have_work
    /\ have_work' = FALSE
    /\ dispatcher' = [dispatcher EXCEPT !.pc = "pop"]
    /\ UNCHANGED <<queued, high, normal, inflight, waitVars, shutdown, permitVars>>

\* The select! against the shutdown signal is around the pop only.
DispatcherEnds ==
    /\ shutdown
    /\ dispatcher.pc \in {"pop", "sleep"}
    /\ dispatcher' = [dispatcher EXCEPT !.pc = "ended"]
    /\ UNCHANGED <<queued, high, normal, inflight, have_work, waitVars, shutdown, permitVars>>

Dispatch ==
    /\ dispatcher.pc = "acquire"
    /\ Acquires(dispatcher.id)
    /\ dispatcher' = IF forget_pending > 0 THEN dispatcher ELSE [dispatcher EXCEPT !.pc = "pop"]
    /\ UNCHANGED <<queued, high, normal, inflight, have_work, waitVars, shutdown>>

\* How often an operation subscribed to a chunk.
Times(op, subs) == Cardinality({i \in DOMAIN subs : subs[i] = op})

\* mark_done: every subscriber counts one less, and the last one's waiter is
\* notified; then the permit is dropped.
MarkDone(id) ==
    /\ tasks[id].stage = "mark"
    /\ LET left == [op \in Op |-> remaining[op] - Times(op, inflight[id])]
       IN  /\ remaining' = left
           /\ wait' = [op \in Op |-> IF wait[op] = "waiting" /\ left[op] = 0 THEN "done" ELSE wait[op]]
    /\ inflight' = Without(inflight, id)
    /\ Released(id)
    /\ UNCHANGED <<queued, high, normal, have_work, dispatcher, todo, shutdown>>

\* Shutdown::cancel, by the signal handler.
Signal ==
    /\ ~shutdown
    /\ shutdown' = TRUE
    /\ UNCHANGED <<queueVars, waitVars, permitVars>>

----------------------------------------------------------------------------

\* The subscriptions of an operation that are still to be served.
RECURSIVE Subscriptions(_, _, _)
Subscriptions(op, ids, subs) ==
    IF ids = {} THEN 0
    ELSE LET id == CHOOSE x \in ids : TRUE
         IN  Times(op, subs[id]) + Subscriptions(op, ids \ {id}, subs)

(***************************************************************************)
(* Nothing an operation waits for is lost: it waits for exactly the chunks *)
(* it is still to enqueue, has queued or has in flight; a queued chunk     *)
(* stands in the deque of its lane, not in flight as well; a chunk in      *)
(* flight has one task, or is in the dispatcher's hand; and a sleeping     *)
(* dispatcher was notified if there is work.  Chunks are subscribed to,    *)
(* raised to the high lane, popped and marked done in any order            *)
(* (WorkQueue).                                                            *)
(***************************************************************************)
WorkIsReachable ==
    /\ \A op \in Op :
          remaining[op] = Len(todo[op])
              + Subscriptions(op, DOMAIN queued, [id \in DOMAIN queued |-> queued[id].subs])
              + Subscriptions(op, DOMAIN inflight, inflight)
    /\ DOMAIN queued \cap DOMAIN inflight = {}
    /\ \A id \in DOMAIN queued :
          id \in Range(IF queued[id].lane = "high" THEN high ELSE normal)
    /\ setup.version = 2 => DOMAIN inflight =
          Held \cup (IF dispatcher.pc = "acquire" THEN {dispatcher.id} ELSE {})
    /\ dispatcher.pc = "sleep" /\ queued # <<>> => have_work

(***************************************************************************)
(* The sender loses neither work nor permits to do it with.                *)
(***************************************************************************)
NothingIsMislaid == PermitsAddUp /\ WorkIsReachable

=============================================================================
