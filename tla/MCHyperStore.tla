---------------------------- MODULE MCHyperStore ----------------------------
(* Instances of HyperStore for TLC, and the checks of HyperMessages.       *)
EXTENDS HyperStore, HyperMessages

CONSTANTS p1, t1, p2, k1, v1, r1

MCNode == 1 .. 2
MCClient == {p1}

Call(cmd, target) == [cmd |-> cmd, target |-> target]
Put(seq) == [cmd |-> "MUTABLE_PUT", target |-> k1, seq |-> seq, value |-> v1]

Announce(target) == [cmd |-> "ANNOUNCE", target |-> target, relays |-> <<1, 2, 1, 2>>]

MCWorkloads ==
    {{Announce(t1), Call("UNANNOUNCE", t1), Call("LOOKUP", t1)},
     {Announce(p1), Call("UNANNOUNCE", p1), Call("FIND_PEER", p1)},
     {Put(1), Put(2), [cmd |-> "MUTABLE_GET", target |-> k1, seq |-> 0]},
     {[cmd |-> "IMMUTABLE_PUT", target |-> v1, value |-> v1], Call("IMMUTABLE_GET", v1)}}

\* A third peer announces with a refresh token and a bump, or refreshes.
Third == HyperPeer(p2, <<>>)
ThirdAnnounces(n, peer) ==
    [from |-> p2, target |-> t1, token |-> <<n>>,
     msg |-> [peer |-> peer, refresh |-> <<r1>>, bump |-> 1,
              signature |-> <<Signed(p2, AnnSignable(t1, <<n>>, n, Third, <<r1>>, "announce"))>>]]
MCForeign == {[node |-> 1, req |-> ThirdAnnounces(1, peer)] : peer \in {<<>>, <<Third>>}}

\* Nodes start empty, or full of what others stored.
MCKept ==
    {NewPersistent,
     [NewPersistent EXCEPT !.records = RecordAdd(RecordAdd(@, v1, p2, Third), k1, p2, Third),
                           !.immutables = LruSet(@, t1, t1)]}

----------------------------------------------------------------------------
(* The messages of HyperMessages, each with every combination of its       *)
(* optional fields and numbers on both sides of the one-byte form.         *)

Bytes(n, b) == [i \in 1 .. n |-> b]
Numbers == {0, 1, 252, 253, 65535, 65536}
Key == Bytes(32, 7)
Signature == Bytes(64, 9)
V4 == [host |-> <<10, 0, 0, 1>>, port |-> 49737]
V6 == [host |-> Bytes(16, 3), port |-> 80]
Options(S) == {None} \cup {Some(x) : x \in S}
Values == {<<>>, <<5>>, Bytes(300, 1)}

Peers == [public_key : {Key}, relay_addresses : {<<>>, <<V4, V4>>}]
Announces ==
    [peer : Options(Peers), refresh : Options({Key}), signature : Options({Signature}), bump : Numbers]
Replies == [peers : {<<>>} \cup {<<p, q>> : p, q \in Peers}, bump : Numbers]
Signables == [seq : Numbers, value : Values]
Responses == [seq : Numbers, value : Values, signature : {Signature}]
Puts == [public_key : {Key}, seq : Numbers, value : Values, signature : {Signature}]
Handshakes ==
    [mode : 0 .. 4, noise : Values, peer_address : Options({V4}), relay_address : Options({V4})]
Holepunches ==
    [mode : 0 .. 4, id : Numbers, payload : Values, peer_address : Options({V4})]

\* Versions are 1, errors and firewalls the ones that are defined.
NoisePayloads ==
    [version : {1}, error : {0, 17}, firewall : {0, 3},
     holepunch : Options([id : {1, 300}, relays : {<<>>, <<[relay_address |-> V4, peer_address |-> V4]>>}]),
     addresses4 : {<<>>, <<V4>>}, addresses6 : {<<>>, <<V6, V6>>},
     udx : Options([version : {1}, reusable_socket : BOOLEAN, id : {1, 70000}, seq : {0}]),
     secret_stream : Options({[version |-> 1]}),
     relay_through : Options({[version |-> 1, public_key |-> Key, token |-> Key]}),
     relay_addresses : Options({<<>>, <<V4>>})]
HolepunchPayloads(rounds) ==
    [error : {0, 3}, firewall : {0, 3}, round : rounds, connected : BOOLEAN, punching : BOOLEAN,
     addresses : Options({<<>>, <<V4>>}), remote_address : Options({V4}),
     token : Options({Key}), remote_token : Options({Key})]

\* What is written is read back.
RoundTrips ==
    /\ \A n \in Numbers : decode_uint(encode_uint(n)) = Ok(n, <<>>)
    /\ \A m \in Announces : decode_announce(encode_announce(m)) = Some(m)
    /\ \A m \in Replies : decode_lookup_raw_reply(encode_lookup_raw_reply(m)) = Some(m)
    /\ \A m \in Signables : decode_mutable_signable(encode_mutable_signable(m)) = Some(m)
    /\ \A m \in Responses : decode_mutable_get_response(encode_mutable_get_response(m)) = Some(m)
    /\ \A m \in Puts : decode_mutable_put_request(encode_mutable_put_request(m)) = Some(m)
    /\ \A m \in Handshakes : decode_handshake(encode_handshake(m)) = Some(m)
    /\ \A m \in Holepunches : decode_holepunch_msg(encode_holepunch_msg(m)) = Some(m)
    /\ \A m \in NoisePayloads : decode_noise_payload(encode_noise_payload(m)) = Some(m)
    /\ \A m \in HolepunchPayloads({0, 252}) :
          decode_holepunch_payload(encode_holepunch_payload(m)) = Some(m)

\* The buffer that is sized beforehand is filled exactly.
SizesAgree ==
    /\ \A n \in Numbers : Len(encode_uint(n)) = preencode_uint(n)
    /\ \A m \in Announces : Len(encode_announce(m)) = preencode_announce(m)
    /\ \A m \in Signables : Len(encode_mutable_signable(m)) = preencode_mutable_signable(m)
    /\ \A m \in Puts : Len(encode_mutable_put_request(m)) = preencode_mutable_put_request(m)
    /\ \A m \in Handshakes : Len(encode_handshake(m)) = preencode_handshake(m)
    /\ \A m \in Holepunches : Len(encode_holepunch_msg(m)) = preencode_holepunch_msg(m)
    /\ \A m \in NoisePayloads : Len(encode_noise_payload(m)) = preencode_noise_payload(m)
    /\ \A m \in HolepunchPayloads({0, 252}) :
          Len(encode_holepunch_payload(m)) = preencode_holepunch_payload(m)

\* Only up to 252: of a larger round the size is two bytes short.
LargeRoundsDoNotFit ==
    \A m \in HolepunchPayloads({253, 65535}) :
        Len(encode_holepunch_payload(m)) = preencode_holepunch_payload(m) + 2

\* A message that is cut off is refused, wherever it is cut; a lookup reply
\* may lack its bump, and then counts as one whose bump is zero.
CutShort(s) == {SubSeq(s, 1, n) : n \in 0 .. Len(s) - 1}
CutMessagesAreRefused ==
    /\ \A m \in Announces : \A s \in CutShort(encode_announce(m)) : decode_announce(s) = None
    /\ \A m \in {h \in Handshakes : h.mode = 2} :
          \A s \in CutShort(encode_handshake(m)) : decode_handshake(s) = None
    /\ \A m \in {p \in Puts : p.seq \in {1, 65536}} :
          \A s \in CutShort(encode_mutable_put_request(m)) : decode_mutable_put_request(s) = None
    /\ \A m \in HolepunchPayloads({0}) :
          \A s \in CutShort(encode_holepunch_payload(m)) : decode_holepunch_payload(s) = None
    /\ \A m \in {reply \in Replies : reply.bump = 300} : \A s \in CutShort(encode_lookup_raw_reply(m)) :
          decode_lookup_raw_reply(s) \in {None, Some([m EXCEPT !.bump = 0])}

\* The announcement in a request under way, with bytes for its keys and addresses.
Body(msg) ==
    [peer |-> [i \in DOMAIN msg.peer |->
                  [public_key |-> Key,
                   relay_addresses |-> [j \in DOMAIN msg.peer[i].relay_addresses |-> V4]]],
     refresh |-> [i \in DOMAIN msg.refresh |-> Key],
     signature |-> [i \in DOMAIN msg.signature |-> Signature], bump |-> msg.bump]
Bodies ==
    [peer : Options([public_key : {Key}, relay_addresses : {[i \in 1 .. n |-> V4] : n \in 0 .. 4}]),
     refresh : Options({Key}), signature : Options({Signature}), bump : {0, 1}]
ReadsBack == [b \in Bodies |-> decode_announce(encode_announce(b)) = Some(b)]
RequestsAreRead == \A m \in net : m.cmd \in {"ANNOUNCE", "UNANNOUNCE"} => ReadsBack[Body(m.req.msg)]

(***************************************************************************)
(* A message of the DHT's own commands, one under way included, is read    *)
(* back as it was written, fits the buffer that was sized for it, and is   *)
(* refused when it is cut off (preencode, encode and decode of             *)
(* hyperdht_messages.rs and compact_encoding.rs); only rounds of more than *)
(* 252 in a holepunch payload exceed their size.                           *)
(***************************************************************************)
MessagesAgree ==
    RequestsAreRead /\ RoundTrips /\ SizesAgree /\ LargeRoundsDoNotFit /\ CutMessagesAreRefused

=============================================================================
