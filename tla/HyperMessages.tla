---------------------------- MODULE HyperMessages ----------------------------
(***************************************************************************)
(* The bodies of the HyperDHT messages (hyperdht_messages.rs): what peers  *)
(* announce and look up, mutable values, and what two peers exchange on    *)
(* the way to a connection.  Each has three functions in the code, written *)
(* one by one: how many bytes it needs, how it is written, and how it is   *)
(* read.  They agree only if they treat every optional field alike.        *)
(*                                                                         *)
(* A reader is the list of its fields in the order it reads them; a field  *)
(* is always there, or there when its flag is set.                         *)
(*                                                                         *)
(* First the compact encoding of numbers, buffers and addresses they are   *)
(* made of (compact_encoding.rs).  Bytes are numbers below 256, and an     *)
(* encoder returns the bytes it writes.  The code sizes its buffer         *)
(* beforehand, by the preencode functions, and an encoder that writes more *)
(* than they counted writes past its end.  A decoder takes the bytes that  *)
(* are left and returns a value and the rest, or fails.                    *)
(***************************************************************************)
EXTENDS Naturals, Sequences, TLC

\* Rust's Option: None, or a sequence of one element.
None == <<>>
Some(x) == <<x>>

Fail == [ok |-> FALSE]
Ok(v, rest) == [ok |-> TRUE, val |-> v, rest |-> rest]

\* The ? operator: go on with the value and the bytes that are left, or fail.
Then(r, F(_, _)) == IF r.ok THEN F(r.val, r.rest) ELSE Fail
AsOption(r) == IF r.ok THEN Some(r.val) ELSE None

\* check_remaining and the copy after it.
Take(n, s) == IF Len(s) < n THEN Fail ELSE Ok(SubSeq(s, 1, n), SubSeq(s, n + 1, Len(s)))

\* to_le_bytes and from_le_bytes, of a number of n bytes.
ToLe(v, n) == [i \in 1 .. n |-> (v \div 256 ^ (i - 1)) % 256]

RECURSIVE FromLe(_)
FromLe(bytes) == IF bytes = <<>> THEN 0 ELSE Head(bytes) + 256 * FromLe(Tail(bytes))

TakeLe(n, s) == Then(Take(n, s), LAMBDA bytes, rest : Ok(FromLe(bytes), rest))

----------------------------------------------------------------------------
(* Numbers: one byte up to 252, or a byte that says how many follow.  TLC  *)
(* has no numbers of the nine-byte form, so the model's end below them.    *)

preencode_uint(n) == IF n <= 252 THEN 1 ELSE IF n <= 65535 THEN 3 ELSE 5

\* Mutant: a byte that announces two more is taken for a number.
encode_uint_253(n) ==
    IF n <= 253 THEN ToLe(n, 1)
    ELSE IF n <= 65535 THEN <<253>> \o ToLe(n, 2)
    ELSE <<254>> \o ToLe(n, 4)

encode_uint(n) ==
    IF n <= 252 THEN ToLe(n, 1)
    ELSE IF n <= 65535 THEN <<253>> \o ToLe(n, 2)
    ELSE <<254>> \o ToLe(n, 4)

decode_uint(s) ==
    Then(TakeLe(1, s), LAMBDA a, rest :
        IF a <= 252 THEN Ok(a, rest)
        ELSE TakeLe(CASE a = 253 -> 2 [] a = 254 -> 4 [] a = 255 -> 8, rest))

----------------------------------------------------------------------------
(* Buffers.  An empty one decodes as None; the callers that need bytes use *)
(* unwrap_or_default, so that the two are the same to them.                *)

preencode_buffer(b) == preencode_uint(Len(b)) + Len(b)
encode_buffer(b) == encode_uint(Len(b)) \o b
decode_buffer(s) ==
    Then(decode_uint(s), LAMBDA len, rest :
        IF len = 0 THEN Ok(None, rest)
        ELSE Then(Take(len, rest), LAMBDA b, left : Ok(Some(b), left)))

\* Addresses: four or sixteen bytes of host, two of port.
encode_address(addr) == addr.host \o ToLe(addr.port, 2)
decode_address(n, s) ==
    Then(Take(n, s), LAMBDA host, rest :
        Then(TakeLe(2, rest), LAMBDA port, left : Ok([host |-> host, port |-> port], left)))

----------------------------------------------------------------------------
(* The messages.                                                           *)

Always(name, kind) == [name |-> name, kind |-> kind, flag |-> 0, wrap |-> FALSE]
IfFlag(flag, name, kind) == [name |-> name, kind |-> kind, flag |-> flag, wrap |-> TRUE, absent |-> None]
IfFlagElse(flag, name, kind, absent) ==
    [name |-> name, kind |-> kind, flag |-> flag, wrap |-> FALSE, absent |-> absent]

Bits(n) == {b \in {1, 2, 4, 8, 16, 32, 64} : (n \div b) % 2 = 1}
Flag(condition, flag) == IF condition THEN flag ELSE 0
Present(option) == option # None

MAX_ARRAY == 1048576

HyperPeerFields == <<Always("public_key", "fixed32"), Always("relay_addresses", "ipv4s")>>
RelayInfoFields == <<Always("relay_address", "ipv4"), Always("peer_address", "ipv4")>>
HolepunchInfoFields == <<Always("id", "uint"), Always("relays", "relays")>>
UdxInfoFields ==
    <<Always("version", "uint"), Always("reusable_socket", "feature"), Always("id", "uint"), Always("seq", "uint")>>
SecretStreamInfoFields == <<Always("version", "uint")>>
RelayThroughInfoFields ==
    <<Always("version", "uint"), Always("flags", "flags"),
      Always("public_key", "fixed32"), Always("token", "fixed32")>>

\* The kinds that are lists, and those that have fields of their own.
ElementOf == [ipv4s |-> "ipv4", ipv6s |-> "ipv6", relays |-> "relay"]
PartFields ==
    [peer |-> HyperPeerFields, relay |-> RelayInfoFields, holepunch |-> HolepunchInfoFields,
     udx |-> UdxInfoFields, secret_stream |-> SecretStreamInfoFields, relay_through |-> RelayThroughInfoFields]

ReadPlain(kind, s) ==
    CASE kind = "uint" -> decode_uint(s)
      [] kind = "flags" -> Then(decode_uint(s), LAMBDA n, rest : Ok(Bits(n), rest))
      [] kind = "feature" -> Then(decode_uint(s), LAMBDA n, rest : Ok(1 \in Bits(n), rest))
      [] kind = "fixed32" -> Take(32, s)
      [] kind = "fixed64" -> Take(64, s)
      [] kind = "buffer" ->
            Then(decode_buffer(s), LAMBDA b, rest : Ok(IF Present(b) THEN b[1] ELSE <<>>, rest))
      [] kind = "ipv4" -> decode_address(4, s)
      [] kind = "ipv6" -> decode_address(16, s)

RECURSIVE Read(_, _), ReadFields(_, _, _), ReadTimes(_, _, _, _)

ReadTimes(n, kind, s, got) ==
    IF n = 0 THEN Ok(got, s)
    ELSE Then(Read(kind, s), LAMBDA v, rest : ReadTimes(n - 1, kind, rest, Append(got, v)))

ReadArray(kind, s) ==
    Then(decode_uint(s), LAMBDA len, rest :
        IF len > MAX_ARRAY THEN Fail ELSE ReadTimes(len, kind, rest, <<>>))

ReadField(f, s, got) ==
    IF f.flag # 0 /\ f.flag \notin got.flags THEN Ok(f.absent, s)
    ELSE Then(Read(f.kind, s), LAMBDA v, rest : Ok(IF f.wrap THEN Some(v) ELSE v, rest))

ReadFields(fields, s, got) ==
    IF fields = <<>> THEN Ok(got, s)
    ELSE Then(ReadField(Head(fields), s, got), LAMBDA v, rest :
             ReadFields(Tail(fields), rest, (Head(fields).name :> v) @@ got))

ReadRecord(fields, s) ==
    Then(ReadFields(fields, s, <<>>), LAMBDA got, rest : Ok([n \in DOMAIN got \ {"flags"} |-> got[n]], rest))

Read(kind, s) ==
    IF kind \in DOMAIN ElementOf THEN ReadArray(ElementOf[kind], s)
    ELSE IF kind \in DOMAIN PartFields THEN ReadRecord(PartFields[kind], s)
    ELSE ReadPlain(kind, s)

\* A message is read from all the bytes of a value; what follows it is ignored.
Decoded(fields, s) == AsOption(ReadRecord(fields, s))

----------------------------------------------------------------------------
(* Parts that several messages carry.                                      *)

RECURSIVE Concat(_)
Concat(parts) == IF parts = <<>> THEN <<>> ELSE Head(parts) \o Concat(Tail(parts))

EncodeEach(xs, Encode(_)) == encode_uint(Len(xs)) \o Concat([i \in DOMAIN xs |-> Encode(xs[i])])
EncodeIf(condition, bytes) == IF condition THEN bytes ELSE <<>>
SizeIf(condition, size) == IF condition THEN size ELSE 0

encode_peers(peers) == EncodeEach(peers, encode_address)
preencode_ipv4s(peers) == preencode_uint(Len(peers)) + 6 * Len(peers)
preencode_ipv6s(peers) == preencode_uint(Len(peers)) + 18 * Len(peers)

encode_hyper_peer(p) == p.public_key \o encode_peers(p.relay_addresses)
preencode_hyper_peer(p) == 32 + preencode_ipv4s(p.relay_addresses)

encode_relay_info(i) == encode_address(i.relay_address) \o encode_address(i.peer_address)

encode_holepunch_info(i) == encode_uint(i.id) \o EncodeEach(i.relays, encode_relay_info)
preencode_holepunch_info(i) == preencode_uint(i.id) + preencode_uint(Len(i.relays)) + 12 * Len(i.relays)

\* The version is written as 1, whatever the record says.
encode_udx_info(i) ==
    encode_uint(1) \o encode_uint(IF i.reusable_socket THEN 1 ELSE 0) \o encode_uint(i.id) \o encode_uint(i.seq)
preencode_udx_info(i) == 2 + preencode_uint(i.id) + preencode_uint(i.seq)

encode_secret_stream_info(i) == encode_uint(1)
preencode_secret_stream_info(i) == preencode_uint(1)

encode_relay_through_info(i) == encode_uint(1) \o encode_uint(0) \o i.public_key \o i.token
preencode_relay_through_info(i) == preencode_uint(1) + preencode_uint(0) + 64

----------------------------------------------------------------------------
(* Announcing and looking up.                                              *)

encode_announce(m) ==
    encode_uint(Flag(Present(m.peer), 1) + Flag(Present(m.refresh), 2)
                 + Flag(Present(m.signature), 4) + Flag(m.bump # 0, 8))
      \o Concat([i \in DOMAIN m.peer |-> encode_hyper_peer(m.peer[i])])
      \o Concat(m.refresh) \o Concat(m.signature)
      \o EncodeIf(m.bump # 0, encode_uint(m.bump))
preencode_announce(m) ==
    1 + (IF Present(m.peer) THEN preencode_hyper_peer(m.peer[1]) ELSE 0)
      + SizeIf(Present(m.refresh), 32) + SizeIf(Present(m.signature), 64)
      + SizeIf(m.bump # 0, preencode_uint(m.bump))
decode_announce(s) ==
    Decoded(<<Always("flags", "flags"), IfFlag(1, "peer", "peer"), IfFlag(2, "refresh", "fixed32"),
              IfFlag(4, "signature", "fixed64"), IfFlagElse(8, "bump", "uint", 0)>>, s)

encode_lookup_raw_reply(m) == EncodeEach(m.peers, encode_hyper_peer) \o encode_uint(m.bump)

\* A reply that ends after its peers has no bump (an older node wrote it).
decode_lookup_raw_reply(s) ==
    AsOption(Then(decode_uint(s), LAMBDA len, rest :
        Then(ReadTimes(len, "peer", rest, <<>>), LAMBDA peers, left :
            Then(IF left = <<>> THEN Ok(0, <<>>) ELSE decode_uint(left), LAMBDA bump, end :
                Ok([peers |-> peers, bump |-> bump], end)))))

----------------------------------------------------------------------------
(* Mutable values: what is put, what is answered and what is signed.       *)

encode_mutable_signable(m) == encode_uint(m.seq) \o encode_buffer(m.value)
encode_mutable_get_response(m) == encode_mutable_signable(m) \o m.signature
encode_mutable_put_request(m) == m.public_key \o encode_mutable_get_response(m)
preencode_mutable_signable(m) == preencode_uint(m.seq) + preencode_buffer(m.value)
preencode_mutable_put_request(m) == 32 + preencode_mutable_signable(m) + 64

SignableFields == <<Always("seq", "uint"), Always("value", "buffer")>>
GetResponseFields == SignableFields \o <<Always("signature", "fixed64")>>
decode_mutable_signable(s) == Decoded(SignableFields, s)
decode_mutable_get_response(s) == Decoded(GetResponseFields, s)
decode_mutable_put_request(s) == Decoded(<<Always("public_key", "fixed32")>> \o GetResponseFields, s)

----------------------------------------------------------------------------
(* On the way to a connection: the relayed messages and what is sealed in  *)
(* them.                                                                   *)

EncodeAddresses(option) == Concat([i \in DOMAIN option |-> encode_address(option[i])])

encode_handshake(m) ==
    encode_uint(Flag(Present(m.peer_address), 1) + Flag(Present(m.relay_address), 2))
      \o encode_uint(m.mode) \o encode_buffer(m.noise)
      \o EncodeAddresses(m.peer_address) \o EncodeAddresses(m.relay_address)
preencode_handshake(m) ==
    preencode_uint(0) + preencode_uint(m.mode) + preencode_buffer(m.noise)
      + SizeIf(Present(m.peer_address), 6) + SizeIf(Present(m.relay_address), 6)
decode_handshake(s) ==
    Decoded(<<Always("flags", "flags"), Always("mode", "uint"), Always("noise", "buffer"),
              IfFlag(1, "peer_address", "ipv4"), IfFlag(2, "relay_address", "ipv4")>>, s)

encode_holepunch_msg(m) ==
    encode_uint(Flag(Present(m.peer_address), 1)) \o encode_uint(m.mode) \o encode_uint(m.id)
      \o encode_buffer(m.payload) \o EncodeAddresses(m.peer_address)
preencode_holepunch_msg(m) ==
    preencode_uint(0) + preencode_uint(m.mode) + preencode_uint(m.id) + preencode_buffer(m.payload)
      + SizeIf(Present(m.peer_address), 6)
decode_holepunch_msg(s) ==
    Decoded(<<Always("flags", "flags"), Always("mode", "uint"), Always("id", "uint"),
              Always("payload", "buffer"), IfFlag(1, "peer_address", "ipv4")>>, s)

encode_noise_payload(m) ==
    encode_uint(1)
      \o encode_uint(Flag(Present(m.holepunch), 1) + Flag(m.addresses4 # <<>>, 2) + Flag(m.addresses6 # <<>>, 4)
                      + Flag(Present(m.udx), 8) + Flag(Present(m.secret_stream), 16)
                      + Flag(Present(m.relay_through), 32) + Flag(Present(m.relay_addresses), 64))
      \o encode_uint(m.error) \o encode_uint(m.firewall)
      \o Concat([i \in DOMAIN m.holepunch |-> encode_holepunch_info(m.holepunch[i])])
      \o EncodeIf(m.addresses4 # <<>>, encode_peers(m.addresses4))
      \o EncodeIf(m.addresses6 # <<>>, encode_peers(m.addresses6))
      \o Concat([i \in DOMAIN m.udx |-> encode_udx_info(m.udx[i])])
      \o Concat([i \in DOMAIN m.secret_stream |-> encode_secret_stream_info(m.secret_stream[i])])
      \o Concat([i \in DOMAIN m.relay_through |-> encode_relay_through_info(m.relay_through[i])])
      \o Concat([i \in DOMAIN m.relay_addresses |-> encode_peers(m.relay_addresses[i])])

\* One byte each is counted for the version, the flags, the error and the firewall.
preencode_noise_payload(m) ==
    4 + (IF Present(m.holepunch) THEN preencode_holepunch_info(m.holepunch[1]) ELSE 0)
      + SizeIf(m.addresses4 # <<>>, preencode_ipv4s(m.addresses4))
      + SizeIf(m.addresses6 # <<>>, preencode_ipv6s(m.addresses6))
      + (IF Present(m.udx) THEN preencode_udx_info(m.udx[1]) ELSE 0)
      + (IF Present(m.secret_stream) THEN preencode_secret_stream_info(m.secret_stream[1]) ELSE 0)
      + (IF Present(m.relay_through) THEN preencode_relay_through_info(m.relay_through[1]) ELSE 0)
      + (IF Present(m.relay_addresses) THEN preencode_ipv4s(m.relay_addresses[1]) ELSE 0)

EmptyNoisePayload(version) ==
    [version |-> version, error |-> 0, firewall |-> 0, holepunch |-> None, addresses4 |-> <<>>,
     addresses6 |-> <<>>, udx |-> None, secret_stream |-> None, relay_through |-> None,
     relay_addresses |-> None]

\* Of another version only the version is read.
decode_noise_payload(s) ==
    LET version == decode_uint(s)
    IN  IF version.ok /\ version.val # 1 THEN Some(EmptyNoisePayload(version.val))
        ELSE Decoded(<<Always("version", "uint"), Always("flags", "flags"), Always("error", "uint"),
                       Always("firewall", "uint"), IfFlag(1, "holepunch", "holepunch"),
                       IfFlagElse(2, "addresses4", "ipv4s", <<>>), IfFlagElse(4, "addresses6", "ipv6s", <<>>),
                       IfFlag(8, "udx", "udx"), IfFlag(16, "secret_stream", "secret_stream"),
                       IfFlag(32, "relay_through", "relay_through"),
                       IfFlag(64, "relay_addresses", "ipv4s")>>, s)

encode_holepunch_payload(m) ==
    encode_uint(Flag(m.connected, 1) + Flag(m.punching, 2) + Flag(Present(m.addresses), 4)
                 + Flag(Present(m.remote_address), 8) + Flag(Present(m.token), 16)
                 + Flag(Present(m.remote_token), 32))
      \o encode_uint(m.error) \o encode_uint(m.firewall) \o encode_uint(m.round)
      \o Concat([i \in DOMAIN m.addresses |-> encode_peers(m.addresses[i])])
      \o EncodeAddresses(m.remote_address) \o Concat(m.token) \o Concat(m.remote_token)

\* One byte each is counted for the flags, the error, the firewall and the round.
preencode_holepunch_payload(m) ==
    4 + (IF Present(m.addresses) THEN preencode_ipv4s(m.addresses[1]) ELSE 0)
      + SizeIf(Present(m.remote_address), 6) + SizeIf(Present(m.token), 32) + SizeIf(Present(m.remote_token), 32)

HolepunchPayloadFields ==
    <<Always("flags", "flags"), Always("error", "uint"), Always("firewall", "uint"), Always("round", "uint"),
      IfFlag(4, "addresses", "ipv4s"), IfFlag(8, "remote_address", "ipv4"),
      IfFlag(16, "token", "fixed32"), IfFlag(32, "remote_token", "fixed32")>>
decode_holepunch_payload(s) ==
    AsOption(Then(ReadFields(HolepunchPayloadFields, s, <<>>), LAMBDA got, rest :
        Ok([n \in (DOMAIN got \ {"flags"}) \cup {"connected", "punching"} |->
               CASE n = "connected" -> 1 \in got.flags
                 [] n = "punching" -> 2 \in got.flags
                 [] OTHER -> got[n]], rest)))

=============================================================================
