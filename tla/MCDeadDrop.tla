------------------------------ MODULE MCDeadDrop ------------------------------
(* Dead drops of small files, for TLC. *)
EXTENDS DeadDrop

CONSTANT r1

Setup(size, receivers, bad, needed, refreshed, initial, interval, with) ==
    [version |-> 2, file_size |-> size, stdout |-> TRUE,
     receivers |-> receivers, faults |-> bad, needs |-> needed, refreshes |-> refreshed,
     initial |-> initial, cap |-> initial,
     interval |-> interval, trip |-> (interval + 1) \div 2,
     max_pickups |-> 1, ttl |-> "ttl" \in with, signal |-> "signal" \in with,
     passphrase |-> "passphrase" \in with]

MCSetups ==
    {Setup(4, {r1}, 1, 1, 0, 1, 20, {}),
     Setup(2, {r1}, 1, 2, 0, 1, 20, {}),
     [Setup(2, {r1}, 0, 1, 1, 1, 20, {}) EXCEPT !.stdout = FALSE],
     Setup(2, {r1}, 0, 1, 0, 1, 20, {"signal"}),
     Setup(2, {r1}, 1, 1, 0, 1, 20, {"passphrase"}),
     Setup(0, {r1}, 0, 1, 1, 1, 20, {"ttl"}),
     Setup(4, {}, 0, 0, 1, 2, 20, {"signal"}),
     Setup(2, {}, 0, 0, 2, 4, 1, {}),
     [Setup(3, {r1}, 2, 0, 1, 2, 1, {"ttl"}) EXCEPT !.version = 1],
     [Setup(3, {r1}, 1, 0, 1, 2, 10, {"ttl"}) EXCEPT !.version = 1]}

MCInit == setup \in MCSetups /\ Init
MCSpec == MCInit /\ [][Next]_vars /\ WF_vars(Working)

\* The shapes of sender and receiver agree for every size up to two full
\* index layers, and need lists are answered exactly.
ASSUME ShapesAgree == \A s \in 0 .. MaxFileSize : WalkFindsAll(s)
ASSUME NeedsAreServed == \A s \in 0 .. 10 : NeedIsServedExactly(s)
ASSUME ChainTiles == \A s \in 0 .. MaxFileSize : ChunksTile(s)

=============================================================================
