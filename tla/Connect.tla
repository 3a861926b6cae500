------------------------------ MODULE Connect ------------------------------
(***************************************************************************)
(* Reaching a peer by its public key (connect_with_options and what it     *)
(* calls in hyperdht.rs): the client tries one node after another, which   *)
(* forwards its Noise message to the server; the server's reply comes back *)
(* through the same node and decides whether the client dials, punches or  *)
(* is relayed.  Nodes, the client and the server exchange datagrams that   *)
(* may be lost, late and repeated, and a node's forward entries expire.    *)
(* The server is a swarm (swarm.rs) or run_server; Swarm models the        *)
(* swarm's own table, here it keeps what one client can tell.              *)
(***************************************************************************)
EXTENDS Router, NatSampler, FiniteSets, Functions, Folds

CONSTANTS
    Client, Server,     \* addresses
    Node,               \* addresses of the nodes between them
    Key,                \* hash of the server's public key
    Setups,             \* the situations a behaviour starts in, see ConnectInit
    Tids,               \* transaction ids: they come again, and other requests take some, so any
                        \* may be next
    MaxProbeRounds      \* HOLEPUNCH_MAX_PROBE_ROUNDS

VARIABLES
    setup,              \* what client and server are configured with
    router,             \* node -> its forward entries
    net,                \* datagrams sent so far: each may arrive any number of times
    call,               \* the connect call
    attempts,           \* the nodes it tried, in order
    puncher,            \* its hole puncher, while it has one
    replies,            \* the server: attempts whose message it accepted -> the reply
    slot,               \* the server: the attempt that holds the client's connection slot
    connects,           \* the server: passive holepunch in flight, [id, punching]
    connected           \* the server: attempts whose connection it finished

connectVars == <<setup, router, net, call, attempts, puncher, replies, slot, connects, connected>>
serverVars == <<replies, slot, connects, connected>>

NoCall == [phase |-> "idle", stage |-> 0, list |-> <<>>, found |-> <<>>, relay |-> <<>>, tid |-> 0,
           round |-> 0, verified |-> FALSE, socket |-> 1, dialled |-> <<>>, path |-> "none", reply |-> <<>>]

(***************************************************************************)
(* A setup: known, found and near are the addresses the call is given,     *)
(* those of FIND_PEER's replies (with the relays of their records) and     *)
(* those of FIND_NODE; forward names the forward entry of each node; the   *)
(* rest is what the server and the two NATs are like.                      *)
(***************************************************************************)
ConnectInit ==
    /\ setup \in Setups
    /\ router = [a \in Node \cup {Server} |->
                    IF a = Server THEN RouterSet(NewRouter, Key, ForwardEntry(<<>>, TRUE))
                    ELSE IF setup.forward[a] = <<>> THEN NewRouter
                    ELSE RouterSet(NewRouter, Key, ForwardEntry(setup.forward[a], FALSE))]
    /\ net = {} /\ call = NoCall /\ attempts = <<>> /\ puncher = <<>>
    /\ replies = <<>> /\ slot = <<>> /\ connects = <<>> /\ connected = {}

Request(tid, from, to, cmd, msg) ==
    [type |-> "request", tid |-> tid, from |-> from, to |-> to, cmd |-> cmd, msg |-> msg]
Response(tid, from, to, error, value) ==
    [type |-> "response", tid |-> tid, from |-> from, to |-> to, error |-> error, value |-> value]

----------------------------------------------------------------------------
(* The hole puncher (holepuncher.rs, socket_pool.rs), as operators on a    *)
(* record: what it knows of the remote side, how it punches, and what its  *)
(* end and a probe that arrives put into its channel of events.            *)

\* `probing`: punch() runs; `flag`: connected_flag; socket 1 is the primary one.
NewPuncher(nat, remote_firewall) ==
    [nat |-> nat, remote_firewall |-> remote_firewall, remote_addresses |-> <<>>,
     sockets |-> 1, probing |-> FALSE, destroyed |-> FALSE, flag |-> FALSE, events |-> <<>>]

IsVerified(p, host) ==
    \E i \in DOMAIN p.remote_addresses :
        p.remote_addresses[i].verified /\ HostOf[p.remote_addresses[i].addr] = host

\* verified_host is a set of at most one host.
UpdateRemote(p, firewall, addresses, verified_host) ==
    [p EXCEPT !.remote_firewall = firewall,
              !.remote_addresses =
                  [i \in DOMAIN addresses |->
                      [addr |-> addresses[i],
                       verified |-> HostOf[addresses[i]] \in verified_host
                                      \/ IsVerified(p, HostOf[addresses[i]])]]]

CoerceFirewall(firewall) == IF firewall = OPEN THEN CONSISTENT ELSE firewall

\* Which of the probe loops punch() runs.
Strategy(p) ==
    LET local == CoerceFirewall(p.nat.firewall)
        remote == CoerceFirewall(p.remote_firewall)
        verified == \E i \in DOMAIN p.remote_addresses : p.remote_addresses[i].verified
    IN  IF p.destroyed \/ p.remote_addresses = <<>> THEN "none"
        ELSE IF local = CONSISTENT /\ remote = CONSISTENT THEN "consistent"
        ELSE IF ~verified THEN "none"
        ELSE IF local = CONSISTENT /\ remote = RANDOM THEN "random"
        ELSE IF local = RANDOM /\ remote = CONSISTENT THEN "birthday"
        ELSE "none"

StartPunch(p) ==
    [p EXCEPT !.probing = Strategy(p) # "none",
              !.sockets = IF Strategy(p) = "birthday" THEN 2 ELSE 1]

\* destroy: no Aborted after a Connected.
Destroy(p) ==
    IF p.destroyed THEN p
    ELSE [p EXCEPT !.destroyed = TRUE, !.probing = FALSE, !.nat = NatDestroy(@),
                   !.events = IF p.flag THEN @ ELSE Append(@, [kind |-> "Aborted"])]

\* The recv adapter of a socket of the initiator: the first probe of all wins.
ProbeReceived(p, socket) ==
    IF p.flag THEN p
    ELSE [p EXCEPT !.flag = TRUE, !.events = Append(@, [kind |-> "Connected", socket |-> socket])]

----------------------------------------------------------------------------
(* The call: its lists of nodes.                                           *)

Untried(list) == SelectSeq(list, LAMBDA a : a \notin Range(attempts))

\* The addresses the call is given are all tried; of the others, new ones.
\* Mutant: every address of the lists is tried.
CandidatesAll(c) == c.list
Candidates(c) == IF c.stage = 1 THEN c.list ELSE Untried(c.list)

Start ==
    /\ call.phase = "idle" /\ setup.calls = "connect"
    /\ call' = [NoCall EXCEPT !.phase = "next", !.stage = 1, !.list = setup.known]
    /\ UNCHANGED <<setup, router, net, attempts, puncher, serverVars>>

\* connect_to: one address, nothing else.
StartDirect ==
    /\ call.phase = "idle" /\ setup.calls = "connect_to"
    /\ call' = [NoCall EXCEPT !.phase = "next", !.stage = 4, !.list = <<Server>>]
    /\ UNCHANGED <<setup, router, net, attempts, puncher, serverVars>>

\* connect_through_node sends a Noise message of its own, named by the attempt.
TryNode(tid) ==
    /\ call.phase = "next" /\ Candidates(call) # <<>>
    /\ LET relay == Candidates(call)[1] IN
          /\ attempts' = Append(attempts, relay)
          /\ call' = [call EXCEPT !.phase = "handshake", !.list = Tail(Candidates(call)),
                                  !.relay = <<relay>>, !.tid = tid]
          /\ net' = net \cup {Request(tid, Client, relay, "handshake",
                                      Handshake("FROM_CLIENT", <<Len(attempts')>>, <<>>, <<>>))}
    /\ UNCHANGED <<setup, router, puncher, serverVars>>

Holders(found) == LET held == SelectSeq(found, LAMBDA r : r.value) IN [i \in DOMAIN held |-> held[i].from]
RecordRelays(found) ==
    LET held == SelectSeq(found, LAMBDA r : r.value)
        First(S) == CHOOSE i \in S : \A j \in S : i <= j
    IN  MapThenFoldSet(LAMBDA relays, rest : relays \o rest, <<>>, LAMBDA i : held[i].relays, First, DOMAIN held)

\* FIND_PEER; a query that fails finds nothing.
FindPeer(found) ==
    /\ call.phase = "next" /\ call.stage = 1 /\ Candidates(call) = <<>>
    /\ call' = [call EXCEPT !.stage = 2, !.found = found, !.list = Holders(found)]
    /\ UNCHANGED <<setup, router, net, attempts, puncher, serverVars>>

TryRecords ==
    /\ call.phase = "next" /\ call.stage = 2 /\ Candidates(call) = <<>>
    /\ call' = [call EXCEPT !.stage = 3, !.list = RecordRelays(call.found)]
    /\ UNCHANGED <<setup, router, net, attempts, puncher, serverVars>>

FindNode ==
    /\ call.phase = "next" /\ call.stage = 3 /\ Candidates(call) = <<>>
    /\ call' = [call EXCEPT !.stage = 4, !.list = setup.near]
    /\ UNCHANGED <<setup, router, net, attempts, puncher, serverVars>>

FindNodeFails ==
    /\ call.phase = "next" /\ call.stage = 3 /\ Candidates(call) = <<>>
    /\ call' = [call EXCEPT !.phase = "failed"]
    /\ UNCHANGED <<setup, router, net, attempts, puncher, serverVars>>

NothingLeft ==
    /\ call.phase = "next" /\ call.stage = 4 /\ Candidates(call) = <<>>
    /\ call' = [call EXCEPT !.phase = "failed"]
    /\ UNCHANGED <<setup, router, net, attempts, puncher, serverVars>>

\* connect_through_node ends with an error; the puncher is dropped with it.
Fails ==
    /\ call' = [call EXCEPT !.phase = "next", !.round = 0, !.verified = FALSE, !.path = "none",
                            !.reply = <<>>, !.dialled = <<>>]
    /\ puncher' = <<>>
    /\ UNCHANGED <<setup, router, net, attempts, serverVars>>

----------------------------------------------------------------------------
(* The nodes: handle_peer_handshake and handle_peer_holepunch.  Responses  *)
(* to anybody but the client are of no effect and left out.                *)

Sent(m) == IF m.type = "response" /\ m.to # Client THEN net ELSE net \cup {m}

Routed(r) ==
    IF r.cmd = "handshake" THEN RouteHandshake(router[r.to], Key, r.from, r.msg)
    ELSE RouteHolepunch(router[r.to], Key, r.from, r.msg)

\* The transaction id of the client is kept along the whole chain.
PassOn(r, a) ==
    CASE a.action = "ForwardRequest" -> Sent(Request(r.tid, r.to, a.to, r.cmd, a.msg))
      [] a.action = "ReplyTo" -> Sent(Response(r.tid, r.to, a.to, 0, <<a.msg>>))
      [] a.action = "CloserNodes" -> Sent(Response(r.tid, r.to, r.from, 0, <<>>))
      [] OTHER -> Sent(Response(r.tid, r.to, r.from, 1, <<>>))

Forward(r) ==
    /\ r.type = "request" /\ Routed(r).action # "HandleLocally"
    /\ net' = PassOn(r, Routed(r))
    /\ UNCHANGED <<setup, router, call, attempts, puncher, serverVars>>

\* What the server hands back goes to the node it came from, or, without a
\* node between, to the client.
HandBack(r, msg) ==
    net' = IF r.msg.mode = "FROM_CLIENT" THEN Sent(Response(r.tid, r.to, r.from, 0, <<msg>>))
           ELSE Sent(Request(r.tid, r.to, r.from, r.cmd, msg))
HandBackNothing(r) == net' = Sent(Response(r.tid, r.to, r.from, 0, <<>>))

EntryExpires(a) ==
    /\ setup.churn /\ router' = [router EXCEPT ![a] = RouterAged(@)]
    /\ UNCHANGED <<setup, net, call, attempts, puncher, serverVars>>

\* unregister_server
Unregister ==
    /\ setup.churn /\ router' = [router EXCEPT ![Server] = RouterDelete(@, Key)]
    /\ UNCHANGED <<setup, net, call, attempts, puncher, serverVars>>

----------------------------------------------------------------------------
(* The server.                                                             *)

ServerPath(mode) ==
    LET firewalled == setup.firewall \in {CONSISTENT, RANDOM}
    IN  IF setup.relay_through THEN "Relay"
        ELSE IF mode = "FROM_CLIENT" THEN IF firewalled THEN "DialAdvertised" ELSE "Dial"
        ELSE IF firewalled THEN "Holepunch" ELSE "Listen"

\* encode_server_handshake_reply
ReplyFor(msg, noise) ==
    IF msg.mode \in {"FROM_RELAY", "FROM_SECOND_RELAY"}
    THEN Handshake("FROM_SERVER", noise, msg.peer_address, <<>>)
    ELSE Handshake("REPLY", noise, <<>>, <<>>)

\* The Noise reply to attempt n.  `udx` is 0 for a stream that the server does
\* not go on with.
Payload(n, path, holepunch, udx) ==
    [path |-> path, error |-> 0, firewall |-> UNKNOWN, holepunch |-> holepunch, udx |-> udx,
     relay_through |-> IF path = "Relay" THEN <<n>> ELSE <<>>]

\* The punch is offered with the relays the server announced through, if any.
Offer(id) == <<[id |-> id, relays |-> setup.announced]>>

AnswerKnown(r) ==
    /\ r.msg.noise[1] \in DOMAIN replies
    /\ HandBack(r, ReplyFor(r.msg, <<r.msg.noise[1], replies[r.msg.noise[1]]>>))
    /\ UNCHANGED serverVars

\* The attempt gets the slot, or a passive holepunch that replaces the one in
\* flight.  With the slot taken it is answered all the same.
AnswerNew(r, path, staged) ==
    LET n == r.msg.noise[1]
        holepunch == IF staged \/ path = "DialAdvertised" THEN Offer(n) ELSE <<>>
        reply == Payload(n, path, holepunch, IF slot = <<>> THEN n ELSE 0)
    IN  /\ n \notin DOMAIN replies
        /\ staged => path = "Holepunch"
        /\ HandBack(r, ReplyFor(r.msg, <<n, reply>>))
        /\ IF slot # <<>> THEN UNCHANGED serverVars
           ELSE /\ replies' = [k \in DOMAIN replies \cup {n} |-> IF k = n THEN reply ELSE replies[k]]
                /\ IF staged THEN connects' = <<[id |-> n, punching |-> FALSE]>> /\ UNCHANGED slot
                   ELSE slot' = <<n>> /\ UNCHANGED connects
                /\ UNCHANGED connected

\* run_server: one reply mode for all, our address being where we saw the
\* request come from, and a session for every copy.
RunServerAnswers(r) ==
    LET n == r.msg.noise[1]
        reply == Payload(n, "Listen", <<>>, n)
    IN  /\ HandBack(r, Handshake("REPLY", <<n, reply>>, <<r.from>>, <<>>))
        /\ replies' = [k \in DOMAIN replies \cup {n} |-> IF k = n THEN reply ELSE replies[k]]
        /\ slot' = <<n>>
        /\ UNCHANGED <<connects, connected>>

ServerHandshake(r, staged) ==
    /\ r.type = "request" /\ r.cmd = "handshake" /\ Routed(r).action = "HandleLocally"
    /\ IF setup.run_server THEN ~staged /\ RunServerAnswers(r)
       ELSE (~staged /\ AnswerKnown(r)) \/ AnswerNew(r, ServerPath(r.msg.mode), staged)
    /\ UNCHANGED <<setup, router, call, attempts, puncher>>

\* A message whose Noise part is not accepted, or whose server is gone.
ServerDeclines(r) ==
    /\ r.type = "request" /\ Routed(r).action = "HandleLocally" /\ setup.declines
    /\ HandBackNothing(r)
    /\ UNCHANGED <<setup, router, call, attempts, puncher, serverVars>>

\* swarm.rs handle_peer_holepunch and, for an id that is not in flight, its
\* refusal.  Servers of other implementations may ask to try later or abort.
HolepunchReply(hp, error) ==
    Holepunch("FROM_SERVER", hp.id,
              [session |-> hp.payload.session, error |-> error, firewall |-> setup.firewall,
               punching |-> hp.payload.punching, token |-> <<"server">>, remote_token |-> hp.payload.token],
              hp.peer_address)

ServerHolepunch(r, error) ==
    /\ r.type = "request" /\ r.cmd = "holepunch" /\ Routed(r).action = "HandleLocally"
    /\ ~setup.run_server
    /\ LET hp == r.msg IN
          IF connects # <<>> /\ connects[1].id = hp.id /\ hp.payload.session = hp.id
          THEN /\ connects' = <<[connects[1] EXCEPT !.punching = @ \/ hp.payload.punching]>>
               /\ HandBack(r, HolepunchReply(hp, error))
               /\ UNCHANGED <<replies, slot, connected>>
          ELSE HandBackNothing(r) /\ UNCHANGED serverVars
    /\ UNCHANGED <<setup, router, call, attempts, puncher>>

\* The abort timer of the passive holepunch.
ServerAborts ==
    /\ connects # <<>> /\ connects' = <<>>
    /\ UNCHANGED <<setup, router, net, call, attempts, puncher, replies, slot, connected>>

\* The task that holds the slot fails; the actor frees it.
ServerGivesUp ==
    /\ slot # <<>> /\ slot[1] \notin connected /\ slot' = <<>>
    /\ UNCHANGED <<setup, router, net, call, attempts, puncher, replies, connects, connected>>

----------------------------------------------------------------------------
(* The client: the reply of the handshake.                                 *)

\* Responses are matched with the request by transaction id alone.
Arrives(m) == m.type = "response" /\ m.to = Client /\ m.tid = call.tid
Attempt == Len(attempts)

\* validate_handshake_reply, and the Noise message must continue our own.
\* Mutant: it may continue any message of ours.
ValidReplyAny(m) ==
    /\ m.error = 0 /\ m.value # <<>> /\ m.from = call.relay[1]
    /\ m.value[1].mode = "REPLY"

ValidReply(m) ==
    /\ m.error = 0 /\ m.value # <<>> /\ m.from = call.relay[1]
    /\ m.value[1].mode = "REPLY"
    /\ Len(m.value[1].noise) = 2 /\ m.value[1].noise[1] = Attempt

Holepunchable(p) == p.holepunch # <<>> /\ p.holepunch[1].relays # <<>>

ShouldDirectConnect(relayed, firewall, holepunchable, same_host) ==
    ~relayed \/ firewall = OPEN \/ ~holepunchable \/ same_host

Sampled(n) ==
    LET add[i \in 0 .. Len(setup.samples)] ==
            IF i = 0 THEN NewNat(TRUE) ELSE NatAdd(add[i - 1], setup.samples[i].addr, setup.samples[i].from)
    IN  add[n]

Dial(address, path, socket) ==
    [call EXCEPT !.phase = "dial", !.dialled = <<address>>, !.path = path, !.socket = socket]

\* The reply that the client goes on with.
Takes(c, noise) == [c EXCEPT !.reply = noise]

\* The address a client dials: one the server advertises, or where the reply
\* says it is.
GoesOn(hs, p) ==
    LET relayed == hs.peer_address # <<>>
        address == IF setup.advertised # <<>> THEN setup.advertised[1]
                   ELSE IF relayed THEN hs.peer_address[1] ELSE call.relay[1]
    IN  \/ /\ p.relay_through # <<>>
           /\ call' = Takes([call EXCEPT !.phase = "relay", !.path = "relay"], hs.noise) /\ UNCHANGED puncher
        \/ /\ p.relay_through = <<>>
           /\ ShouldDirectConnect(relayed, p.firewall, Holepunchable(p), setup.same_host)
           /\ call' = Takes(Dial(address, "dial", 1), hs.noise) /\ UNCHANGED puncher
        \/ /\ p.relay_through = <<>>
           /\ ~ShouldDirectConnect(relayed, p.firewall, Holepunchable(p), setup.same_host)
           /\ puncher' = <<NewPuncher(Sampled(Len(setup.samples)), p.firewall)>>
           /\ call' = Takes([call EXCEPT !.phase = "probe", !.path = "punch", !.round = 0], hs.noise)

HandshakeReply(m) ==
    /\ call.phase = "handshake" /\ Arrives(m)
    /\ \/ /\ ~ValidReply(m) /\ Fails
       \/ /\ ValidReply(m) /\ m.value[1].noise[2].error # 0 /\ Fails
       \/ /\ ValidReply(m) /\ m.value[1].noise[2].error = 0
          /\ GoesOn(m.value[1], m.value[1].noise[2])
          /\ UNCHANGED <<setup, router, net, attempts, serverVars>>

\* Mutant: a probe waits for its answer as long as it takes.
HandshakeTimesOut == call.phase = "handshake" /\ Fails

\* No answer: a timeout ends the request.
RequestTimesOut == call.phase \in {"handshake", "probing", "final"} /\ Fails

----------------------------------------------------------------------------
(* run_holepunch_rounds.                                                   *)

PunchToken(round) == <<Attempt, round>>
Probe(punching) ==
    Holepunch("FROM_CLIENT", Attempt,
              [session |-> Attempt, punching |-> punching, token |-> PunchToken(call.round)], <<>>)

SendProbe(tid) ==
    /\ call.phase = "probe"
    /\ call' = [call EXCEPT !.phase = "probing", !.tid = tid]
    /\ net' = net \cup {Request(tid, Client, call.relay[1], "holepunch", Probe(FALSE))}
    /\ UNCHANGED <<setup, router, attempts, puncher, serverVars>>

\* validate_holepunch_reply and decryption with the secret of our handshake.
ValidPunchReply(m) ==
    /\ m.error = 0 /\ m.value # <<>> /\ m.from = call.relay[1]
    /\ m.value[1].mode = "REPLY"
    /\ "payload" \in DOMAIN m.value[1] /\ m.value[1].payload.session = Attempt

\* Only the answer to this round's request echoes its token.
Echoes(hp) == hp.payload.remote_token = PunchToken(call.round)

\* The sampler is fed with the address in the reply, and the server's
\* addresses are taken over.
Learn(hp, from) ==
    UpdateRemote([puncher[1] EXCEPT !.nat = NatAdd(@, hp.peer_address[1], from)],
                 hp.payload.firewall, setup.punch_addresses,
                 IF Echoes(hp) THEN {HostOf[hp.peer_address[1]]} ELSE {})

Settled(p) == p.nat.firewall \in {CONSISTENT, OPEN}

ProbeReply(m) ==
    /\ call.phase = "probing" /\ Arrives(m)
    /\ \/ ~ValidPunchReply(m) /\ Fails
       \/ ValidPunchReply(m) /\ m.value[1].payload.error = "ABORTED" /\ Fails
       \/ /\ ValidPunchReply(m) /\ m.value[1].payload.error = "TRY_LATER"
          /\ \/ /\ call.round < MaxProbeRounds
                /\ call' = [call EXCEPT !.phase = "probe", !.round = @ + 1] /\ UNCHANGED puncher
                /\ UNCHANGED <<setup, router, net, attempts, serverVars>>
             \/ /\ call.round = MaxProbeRounds
                /\ IF call.verified
                   THEN /\ call' = [call EXCEPT !.phase = "punch", !.round = @ + 1]
                        /\ UNCHANGED <<setup, router, net, attempts, puncher, serverVars>>
                   ELSE Fails
       \/ /\ ValidPunchReply(m) /\ m.value[1].payload.error = "NONE"
          /\ LET hp == m.value[1]
                 known == call.verified \/ Echoes(hp)
                 settled == known /\ Settled(Learn(hp, m.from)) /\ hp.payload.firewall # UNKNOWN
             IN  \/ /\ settled \/ (call.round = MaxProbeRounds /\ known)
                    /\ puncher' = <<Learn(hp, m.from)>>
                    /\ call' = [call EXCEPT !.phase = "punch", !.round = @ + 1, !.verified = known]
                    /\ UNCHANGED <<setup, router, net, attempts, serverVars>>
                 \/ /\ ~settled /\ call.round < MaxProbeRounds
                    /\ puncher' = <<Learn(hp, m.from)>>
                    /\ call' = [call EXCEPT !.phase = "probe", !.round = @ + 1, !.verified = known]
                    /\ UNCHANGED <<setup, router, net, attempts, serverVars>>
                 \/ call.round = MaxProbeRounds /\ ~known /\ Fails

SendPunch(tid) ==
    /\ call.phase = "punch"
    /\ call' = [call EXCEPT !.phase = "final", !.tid = tid]
    /\ net' = net \cup {Request(tid, Client, call.relay[1], "holepunch", Probe(TRUE))}
    /\ UNCHANGED <<setup, router, attempts, puncher, serverVars>>

BadFinal(m) == m.value # <<>> /\ (m.from # call.relay[1] \/ m.value[1].mode # "REPLY")

\* An error or an empty reply does not keep the client from punching.
FinalReply(m) ==
    /\ call.phase = "final" /\ Arrives(m)
    /\ \/ BadFinal(m) /\ Fails
       \/ /\ ~BadFinal(m)
          /\ puncher' = <<StartPunch(IF ValidPunchReply(m)
                                     THEN UpdateRemote(puncher[1], m.value[1].payload.firewall,
                                              setup.punch_addresses,
                                              IF Echoes(m.value[1]) THEN {HostOf[m.value[1].peer_address[1]]} ELSE {})
                                     ELSE puncher[1])>>
          /\ call' = [call EXCEPT !.phase = "race"]
          /\ UNCHANGED <<setup, router, net, attempts, serverVars>>

\* A probe of the server's puncher, or its echo of ours, gets through.
ProbeArrives(socket) ==
    /\ puncher # <<>> /\ socket <= puncher[1].sockets /\ ~puncher[1].destroyed
    /\ Attempt \in DOMAIN replies
    /\ replies[Attempt].path = "Holepunch" /\ replies[Attempt].holepunch # <<>>
    /\ call.phase \in {"probe", "probing", "punch", "final", "race"}
    /\ puncher' = <<ProbeReceived(puncher[1], socket)>>
    /\ UNCHANGED <<setup, router, net, call, attempts, serverVars>>

\* The probe loop has made its tries.
PunchEnds ==
    /\ call.phase = "race" /\ puncher[1].probing
    /\ puncher' = <<Destroy(puncher[1])>>
    /\ UNCHANGED <<setup, router, net, call, attempts, serverVars>>

\* The stream is put on the primary socket, whichever the probe came on.
ReadEvent ==
    /\ call.phase = "race" /\ puncher[1].events # <<>>
    /\ IF puncher[1].events[1].kind = "Connected"
       THEN /\ call' = Dial(Server, "punch", 1)
            /\ UNCHANGED <<setup, router, net, attempts, puncher, serverVars>>
       ELSE Fails

Deadline == call.phase = "race" /\ Fails

----------------------------------------------------------------------------
(* The stream: it gives up after its retransmissions, or meets the         *)
(* server's end of the same session.                                       *)

\* The end that the server keeps for this attempt.
ServerEnd(n) ==
    \/ slot = <<n>> /\ replies[n].path # "Relay"
    \/ slot = <<>> /\ connects # <<>> /\ connects[1].id = n

Establishes ==
    /\ call.phase = "dial" /\ ServerEnd(Attempt) /\ Attempt \notin connected
    /\ call.dialled # <<>> /\ call.dialled[1] = Server
    /\ call' = [call EXCEPT !.phase = "connected"]
    /\ connected' = connected \cup {Attempt}
    /\ slot' = <<Attempt>>
    /\ connects' = IF connects # <<>> /\ connects[1].id = Attempt THEN <<>> ELSE connects
    /\ UNCHANGED <<setup, router, net, attempts, puncher, replies>>

StreamFails == call.phase = "dial" /\ Fails

----------------------------------------------------------------------------

ConnectStep ==
    \/ Start
    \/ StartDirect
    \/ \E tid \in Tids : TryNode(tid)
    \/ \E found \in {setup.found, <<>>} : FindPeer(found)
    \/ TryRecords
    \/ FindNode
    \/ FindNodeFails
    \/ NothingLeft
    \/ \E r \in net : Forward(r)
    \/ \E r \in net, staged \in BOOLEAN : ServerHandshake(r, staged)
    \/ \E r \in net : ServerDeclines(r)
    \/ \E r \in net, error \in setup.errors : ServerHolepunch(r, error)
    \/ \E a \in Node : EntryExpires(a)
    \/ Unregister
    \/ ServerAborts
    \/ ServerGivesUp
    \/ \E m \in net : HandshakeReply(m)
    \/ RequestTimesOut
    \/ \E tid \in Tids : SendProbe(tid)
    \/ \E m \in net : ProbeReply(m)
    \/ \E tid \in Tids : SendPunch(tid)
    \/ \E m \in net : FinalReply(m)
    \/ \E socket \in {1, 2} : ProbeArrives(socket)
    \/ PunchEnds
    \/ ReadEvent
    \/ Deadline
    \/ Establishes
    \/ StreamFails

=============================================================================
