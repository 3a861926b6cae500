----------------------------- MODULE NatSampler -----------------------------
(***************************************************************************)
(* How a node classifies its NAT (nat.rs), as operators on a record: the   *)
(* addresses under which others see us, counted by host and by host and    *)
(* port, the verdict and the addresses to give out.                        *)
(***************************************************************************)
EXTENDS Naturals, Sequences

CONSTANT HostOf     \* the host part of an address

UNKNOWN == "unknown"
OPEN == "open"
CONSISTENT == "consistent"
RANDOM == "random"

NAT_MIN_SAMPLES == 4

NewNat(firewalled) ==
    [samples_host |-> <<>>, samples_full |-> <<>>, visited |-> {}, frozen |-> FALSE,
     firewalled |-> firewalled, sampled |-> 0,
     firewall |-> IF firewalled THEN UNKNOWN ELSE OPEN,
     addresses |-> <<>>, settled |-> ~firewalled]

\* One more hit; the list stays sorted by hits, most first.
AddSample(samples, key) ==
    LET others == SelectSeq(samples, LAMBDA s : s.key # key)
        old == SelectSeq(samples, LAMBDA s : s.key = key)
        new == [key |-> key, hits |-> old[1].hits + 1]
    IN  IF old = <<>> THEN Append(samples, [key |-> key, hits |-> 1])
        ELSE SelectSeq(others, LAMBDA s : s.hits >= new.hits) \o <<new>>
               \o SelectSeq(others, LAMBDA s : s.hits < new.hits)

\* Three hits on one address are consistent; single hits are random; two hits
\* need a second address hit twice on another host.
Verdict(nat) ==
    LET max == nat.samples_full[1].hits
    IN  IF ~nat.firewalled THEN OPEN
        ELSE IF nat.sampled < 3 \/ nat.samples_full = <<>> THEN nat.firewall
        ELSE IF max >= 3 THEN CONSISTENT
        ELSE IF max = 1 THEN RANDOM
        ELSE IF Len(nat.samples_host) = 1 /\ nat.sampled > 3 THEN RANDOM
        ELSE IF Len(nat.samples_host) > 1 /\ Len(nat.samples_full) > 1
                /\ nat.samples_full[2].hits > 1 THEN CONSISTENT
        ELSE IF nat.sampled > 4 THEN RANDOM
        ELSE nat.firewall

UpdateFirewall(nat) == [nat EXCEPT !.firewall = Verdict(nat)]

\* With a random port only the host is known; with consistent ports every
\* address hit twice, and two at least.
UpdateAddresses(nat) ==
    LET chosen == SelectSeq([i \in DOMAIN nat.samples_full |-> <<i, nat.samples_full[i]>>],
                            LAMBDA s : s[2].hits >= 2 \/ s[1] <= 2)
    IN  CASE nat.firewall = UNKNOWN -> [nat EXCEPT !.addresses = <<>>]
          [] nat.firewall = RANDOM -> [nat EXCEPT !.addresses = <<nat.samples_host[1].key>>]
          [] nat.firewall = CONSISTENT ->
                [nat EXCEPT !.addresses = [i \in DOMAIN chosen |-> chosen[i][2].key]]
          [] OTHER -> nat

NatUpdate(nat) ==
    UpdateAddresses(UpdateFirewall(
        IF nat.firewalled /\ nat.firewall = OPEN THEN [nat EXCEPT !.firewall = UNKNOWN] ELSE nat))

TrySettle(nat) ==
    [nat EXCEPT !.settled = @ \/ nat.firewall \in {OPEN, CONSISTENT} \/ nat.sampled >= NAT_MIN_SAMPLES]

\* Each remote address counts once.
NatAdd(nat, addr, from) ==
    LET counted == [nat EXCEPT !.visited = @ \cup {from},
                               !.samples_host = AddSample(@, HostOf[addr]),
                               !.samples_full = AddSample(@, addr),
                               !.sampled = @ + 1]
        updates == (counted.sampled >= 3 \/ ~nat.firewalled) /\ ~nat.frozen
    IN  IF from \in nat.visited THEN nat
        ELSE TrySettle(IF updates THEN NatUpdate(counted) ELSE counted)

NatDestroy(nat) == [nat EXCEPT !.frozen = TRUE, !.settled = TRUE]

=============================================================================
