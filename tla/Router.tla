------------------------------- MODULE Router -------------------------------
(***************************************************************************)
(* The forward entries of a node (router.rs), which tell where handshakes  *)
(* and holepunches for a target go, as operators: a table from targets to  *)
(* entries, and what becomes of a message.  Optional fields are sequences  *)
(* of at most one element.                                                 *)
(***************************************************************************)
EXTENDS Naturals, Sequences

CONSTANT ForwardTtl     \* the age at which a forwarded announcement expires

NewRouter == [t \in {} |-> {}]

ForwardEntry(relay, has_server) == [relay |-> relay, has_server |-> has_server, age |-> 0]

RouterSet(r, target, entry) ==
    [t \in DOMAIN r \cup {target} |-> IF t = target THEN entry ELSE r[t]]
RouterDelete(r, target) == [t \in DOMAIN r \ {target} |-> r[t]]

\* Entries of local servers do not expire.
RouterGet(r, target) ==
    IF target \in DOMAIN r /\ (r[target].has_server \/ r[target].age < ForwardTtl)
    THEN <<r[target]>> ELSE <<>>

RouterAged(r) ==
    [t \in DOMAIN r |-> [r[t] EXCEPT !.age = IF @ < ForwardTtl THEN @ + 1 ELSE @]]

IsServer(r, target) == \E e \in {RouterGet(r, target)[i] : i \in DOMAIN RouterGet(r, target)} : e.has_server

RelayFor(r, target) ==
    LET e == RouterGet(r, target) IN IF e = <<>> THEN <<>> ELSE e[1].relay

----------------------------------------------------------------------------
(* Routing.  An empty noise message is <<>>.                               *)

Drop == [action |-> "Drop"]
CloserNodes == [action |-> "CloserNodes"]
HandleLocally(m) == [action |-> "HandleLocally", msg |-> m]
ForwardRequest(m, to) == [action |-> "ForwardRequest", msg |-> m, to |-> to]
ReplyTo(m, to) == [action |-> "ReplyTo", msg |-> m, to |-> to]

Handshake(mode, noise, peer_address, relay_address) ==
    [mode |-> mode, noise |-> noise, peer_address |-> peer_address, relay_address |-> relay_address]

Or(a, b) == IF a = <<>> THEN b ELSE a

RouteHandshake(r, target, from, hs) ==
    CASE IsServer(r, target) ->
            IF hs.mode \in {"FROM_CLIENT", "FROM_RELAY", "FROM_SECOND_RELAY"}
            THEN HandleLocally(hs) ELSE Drop
      [] ~IsServer(r, target) /\ hs.mode = "FROM_CLIENT" ->
            IF hs.noise = <<>> THEN Drop
            ELSE IF Or(hs.relay_address, RelayFor(r, target)) = <<>> THEN CloserNodes
            ELSE ForwardRequest(Handshake("FROM_RELAY", hs.noise, <<from>>, <<>>),
                                Or(hs.relay_address, RelayFor(r, target))[1])
      [] ~IsServer(r, target) /\ hs.mode = "FROM_RELAY" ->
            IF RelayFor(r, target) = <<>> \/ hs.noise = <<>> THEN Drop
            ELSE ForwardRequest(Handshake("FROM_SECOND_RELAY", hs.noise, hs.peer_address, <<from>>),
                                RelayFor(r, target)[1])
      [] ~IsServer(r, target) /\ hs.mode = "FROM_SERVER" ->
            IF hs.peer_address = <<>> \/ hs.noise = <<>> THEN Drop
            ELSE ReplyTo(Handshake("REPLY", hs.noise, <<from>>, <<>>), hs.peer_address[1])
      [] OTHER -> Drop

Holepunch(mode, id, payload, peer_address) ==
    [mode |-> mode, id |-> id, payload |-> payload, peer_address |-> peer_address]

RouteHolepunch(r, target, from, hp) ==
    CASE hp.mode = "FROM_CLIENT" ->
            IF Or(hp.peer_address, RelayFor(r, target)) = <<>> THEN Drop
            ELSE ForwardRequest(Holepunch("FROM_RELAY", hp.id, hp.payload, <<from>>),
                                Or(hp.peer_address, RelayFor(r, target))[1])
      [] hp.mode = "FROM_RELAY" ->
            IF ~IsServer(r, target) \/ hp.peer_address = <<>> THEN Drop ELSE HandleLocally(hp)
      [] hp.mode = "FROM_SERVER" ->
            IF hp.peer_address = <<>> THEN Drop
            ELSE ReplyTo(Holepunch("REPLY", hp.id, hp.payload, <<from>>), hp.peer_address[1])
      [] OTHER -> Drop

=============================================================================
