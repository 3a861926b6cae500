------------------------------ MODULE MCReach ------------------------------
(* Instances of Reach for TLC.                                             *)
EXTENDS Reach

CONSTANTS c, s, r1, r2, k

MCHostOf == [a \in {c, s, r1, r2} |-> a]

\* A server with an open firewall whose client knows a node and finds another.
Base == [calls |-> "connect", known |-> <<r1>>, found |-> <<[from |-> r2, value |-> TRUE, relays |-> <<>>]>>,
         near |-> <<>>, forward |-> [a \in {r1, r2} |-> <<s>>],
         relay_through |-> FALSE, firewall |-> OPEN, announced |-> <<r1>>, run_server |-> FALSE,
         declines |-> FALSE, churn |-> FALSE, errors |-> {"NONE"}, same_host |-> FALSE, samples |-> <<>>,
         advertised |-> <<>>, punch_addresses |-> <<s>>, asks |-> {}]

Seen(addr, from) == [addr |-> addr, from |-> from]
Steady == <<Seen(c, c), Seen(c, s), Seen(c, r2)>>
Changing == <<Seen(c, c), Seen(r2, s), Seen(r1, r2)>>

Firewalled == [Base EXCEPT !.firewall = CONSISTENT, !.samples = Steady]
Message(conn, kind, token, initiator, n) ==
    [conn |-> conn, kind |-> kind, token |-> token, is_initiator |-> initiator, id |-> n]

\* Two peers pair the same token twice; or one unpairs, and a third comes.
TwicePaired == {Message(1, "pair", 1, TRUE, 1), Message(1, "pair", 1, TRUE, 2),
                Message(2, "pair", 1, FALSE, 1), Message(2, "pair", 1, FALSE, 2)}
Unpaired == {Message(1, "pair", 1, TRUE, 1), Message(2, "pair", 1, FALSE, 1),
             Message(2, "unpair", 1, FALSE, 0), Message(3, "pair", 1, TRUE, 1)}

MCSetups ==
    { Base,
      \* every list of addresses, and a node that needs a second one
      [Base EXCEPT !.found = <<[from |-> r1, value |-> TRUE, relays |-> <<r2, s>>],
                                  [from |-> r2, value |-> FALSE, relays |-> <<>>]>>,
                   !.near = <<r2, r1>>, !.forward[r2] = <<>>, !.declines = TRUE, !.churn = TRUE],
      [Base EXCEPT !.forward[r1] = <<r2>>, !.found = <<>>, !.advertised = <<s>>],
      [Base EXCEPT !.calls = "connect_to"],
      [Firewalled EXCEPT !.calls = "connect_to"],
      [Base EXCEPT !.run_server = TRUE, !.found = <<>>, !.near = <<s>>],
      \* holepunches
      Firewalled,
      [Firewalled EXCEPT !.found = <<>>, !.samples = Changing],
      [Firewalled EXCEPT !.found = <<>>, !.errors = {"NONE", "TRY_LATER"}],
      [Firewalled EXCEPT !.found = <<>>, !.errors = {"ABORTED"}],
      [Firewalled EXCEPT !.found = <<>>, !.same_host = TRUE],
      [Firewalled EXCEPT !.found = <<>>, !.announced = <<>>],
      \* the relay, which the server does not reach in the first attempt
      [Base EXCEPT !.known = <<s, s>>, !.found = <<>>, !.relay_through = TRUE,
                   !.asks = {Message(conn, "pair", (conn + 1) \div 2, conn % 2 = 0, 1) : conn \in {1, 3, 4}}],
      [Base EXCEPT !.calls = "none", !.asks = TwicePaired],
      [Base EXCEPT !.calls = "none", !.asks = Unpaired] }

MCAsks == {w.asks : w \in MCSetups}

=============================================================================
