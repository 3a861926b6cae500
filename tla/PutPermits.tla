------------------------------ MODULE PutPermits ------------------------------
(***************************************************************************)
(* How many puts a dead drop's sender has under way: each put task holds a *)
(* permit of a semaphore, and a controller moves the number of permits     *)
(* towards its target after every put, by additive increase and            *)
(* multiplicative decrease.  The task decides under the controller's lock  *)
(* but changes the permits after it let go of the lock.                    *)
(***************************************************************************)
EXTENDS DropTree, FiniteSets, TLC

VARIABLES
    sem,            \* permits that are free
    target,         \* the permits there should be
    forget_pending, \* permits to be thrown away when they are next acquired
    aimd,           \* the controller: current, samples, degraded, cooldown
    tasks,          \* put tasks, and the watchdog while it changes the target
    raced           \* two changes of the target overlapped (history)

permitVars == <<sem, target, forget_pending, aimd, tasks, raced>>

\* The watchdog's name among the tasks.
Watchdog == <<"watchdog", 0>>

PermitsInit ==
    /\ sem = setup.initial
    /\ target = setup.initial
    /\ forget_pending = 0
    /\ aimd = [current |-> setup.initial, samples |-> 0, degraded |-> 0, cooldown |-> FALSE]
    /\ tasks = <<>>
    /\ raced = FALSE

Task(stage, goal, seen) == [stage |-> stage, goal |-> goal, seen |-> seen]

Without(f, k) == [x \in DOMAIN f \ {k} |-> f[x]]

Held == {id \in DOMAIN tasks : id # Watchdog}

----------------------------------------------------------------------------
(* The controller of version 2.  Its moving average is abstracted to the   *)
(* band it falls in: above 0.3, below 0.05 or between.                     *)

Band == {"high", "mid", "low"}

ShrinkStep(a) ==
    [a EXCEPT !.current = Max({(3 * a.current) \div 4, 1}), !.cooldown = TRUE]

GrowStep(a) ==
    [a EXCEPT !.current = Min({a.current + 2, setup.cap}), !.cooldown = FALSE]

Sampled(a, bad) ==
    [a EXCEPT !.samples = @ + 1, !.degraded = @ + (IF bad THEN 1 ELSE 0)]

ResetDecisionWindow(a) == [a EXCEPT !.samples = 0, !.degraded = 0]

\* AimdController::record after it counted the sample: goal 0 is None.
Decide(a, fresh, fast, due, band) ==
    LET shrinks == fast \/ (due /\ band = "high")
        to(b) == [aimd |-> b, goal |-> b.current]
        hold(b) == [aimd |-> b, goal |-> 0]
    IN  CASE shrinks /\ a.cooldown -> hold([fresh EXCEPT !.cooldown = FALSE])
          [] shrinks /\ ~a.cooldown -> to(ShrinkStep(fresh))
          [] ~shrinks /\ due /\ band = "low" -> to(GrowStep(fresh))
          [] ~shrinks /\ due /\ band = "mid" -> hold([fresh EXCEPT !.cooldown = FALSE])
          [] OTHER -> hold(a)

Record(a, band) ==
    Decide(a, ResetDecisionWindow(a), a.degraded >= setup.trip, a.samples >= setup.interval, band)

\* kick_stall: half of the initial target.
KickFloor == Max({setup.initial \div 2, 1})

----------------------------------------------------------------------------
(* Changing the permits: apply_target loads the target, then adds permits  *)
(* or asks for them to be forgotten, and stores the new target.            *)

Applying == {id \in DOMAIN tasks : tasks[id].stage = "store"}

\* What a task does when its target is applied: the put is marked done, the
\* watchdog goes back to its timer.
Applied(id, ts) ==
    IF id = Watchdog THEN Without(ts, id) ELSE [ts EXCEPT ![id] = Task("mark", 0, 0)]

\* MaxRaces = 1: once two changes overlapped, no others do.
LoadTarget(id) ==
    /\ tasks[id].stage = "apply"
    /\ raced => Applying = {}
    /\ tasks' = [tasks EXCEPT ![id] = Task("store", tasks[id].goal, target)]
    /\ raced' = (raced \/ Applying # {})
    /\ UNCHANGED <<sem, target, forget_pending, aimd>>

StoreTarget(id) ==
    /\ tasks[id].stage = "store"
    /\ LET goal == tasks[id].goal
           seen == tasks[id].seen
       IN  /\ sem' = sem + Max({goal - seen, 0})
           /\ forget_pending' = forget_pending + Max({seen - goal, 0})
           /\ target' = IF goal = seen THEN target ELSE goal
    /\ tasks' = Applied(id, tasks)
    /\ UNCHANGED <<aimd, raced>>

\* ConcurrencyState::acquire, by the only task that acquires: a free permit is
\* thrown away while some are to be forgotten, else it goes to the put of id.
Acquires(id) ==
    /\ sem > 0
    /\ sem' = sem - 1
    /\ forget_pending' = Max({forget_pending - 1, 0})
    /\ tasks' = IF forget_pending > 0 THEN tasks
                ELSE (id :> Task("put", 0, 0)) @@ tasks
    /\ UNCHANGED <<target, aimd, raced>>

\* The put of id resolved: the outcome is recorded, and a decision of the
\* controller is still to be applied.
Recorded(id, decision) ==
    /\ aimd' = decision.aimd
    /\ tasks' = [tasks EXCEPT ![id] =
                    IF decision.goal = 0 THEN Task("mark", 0, 0)
                    ELSE Task("apply", decision.goal, 0)]
    /\ UNCHANGED <<sem, target, forget_pending, raced>>

\* The put's task ends: its permit is free again.
Released(id) ==
    /\ sem' = sem + 1
    /\ tasks' = Without(tasks, id)
    /\ UNCHANGED <<target, forget_pending, aimd, raced>>

(***************************************************************************)
(* kick_if_stalled: no put resolved for 30 seconds (a put may take as      *)
(* long, so this may be at any time) and the last kick was long ago.       *)
(***************************************************************************)
KickIfStalled ==
    /\ Watchdog \notin DOMAIN tasks
    /\ aimd.current < KickFloor
    /\ aimd' = [current |-> KickFloor, samples |-> 0, degraded |-> 0, cooldown |-> FALSE]
    /\ tasks' = (Watchdog :> Task("apply", KickFloor, 0)) @@ tasks
    /\ UNCHANGED <<sem, target, forget_pending, raced>>

----------------------------------------------------------------------------

(***************************************************************************)
(* The permits that are free or held, less those to be forgotten, are as   *)
(* many as the target says, as long as no two changes of the target        *)
(* overlapped: shrinking, growing, kicking and throwing permits away       *)
(* neither lose a permit nor make one up (apply_target, acquire).          *)
(***************************************************************************)
PermitsAddUp ==
    ~raced => sem + Cardinality(Held) - forget_pending = target

=============================================================================
